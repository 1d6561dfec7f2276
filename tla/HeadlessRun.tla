----------------------------- MODULE HeadlessRun -----------------------------
(***************************************************************************)
(* A headless run of sgrecomp (run_host, src/src/tools/sgrecomp.cpp): the  *)
(* input script is parsed (input_script.cpp), every frame runs under the   *)
(* input the script has for it, and at the end the writes the PSG received *)
(* become a VGM file (write_psg_vgm).                                      *)
(*                                                                         *)
(* Data abstraction.  Script lines are comments, events or errors; what a  *)
(* game plays is any writes at any cycles.  VGM commands are waits and     *)
(* writes; file headers are left out.                                      *)
(***************************************************************************)
EXTENDS Integers, Sequences, FiniteSetsExt

CONSTANTS
    Scripts,            \* sequences of lines
    HostFrames,         \* frames to run
    FrameLength,        \* cycles of a frame
    Ticks,              \* cycles between PSG writes
    SampleRate, Clock,  \* of the VGM format and of the PSG
    LongestWait         \* of one VGM command

ASSUME HeadlessAssumption ==
    /\ HostFrames \in Nat \ {0} /\ FrameLength \in Nat \ {0}
    /\ Ticks \subseteq Nat \ {0}
    /\ SampleRate \in Nat \ {0} /\ Clock \in Nat \ {0} /\ LongestWait \in Nat \ {0}
    /\ \A text \in Scripts :
          /\ text \in Seq({text[i] : i \in DOMAIN text})
          /\ \A i \in DOMAIN text : /\ text[i].kind \in {"comment", "error", "event"}
                                    /\ text[i].kind = "event" => text[i].frame \in Nat

NoButtons == "none"

VARIABLES
    script,             \* the text
    next_line,          \* the line being parsed
    events,             \* <<[frame, input]>>
    run_stage,          \* "parse", "failed", "frames", "writing" or "written"
    inputs,             \* the input of each frame run so far
    now,                \* cpu.cycles
    writes,             \* cycles of the PSG writes logged
    next_write,         \* the one being turned into commands
    commands,           \* of the VGM file
    emitted_samples

headlessVars == <<script, next_line, events, run_stage, inputs, now, writes, next_write,
                  commands, emitted_samples>>
parser == <<script, next_line, events>>

-----------------------------------------------------------------------------

HeadlessInit ==
    /\ script \in Scripts /\ next_line = 1 /\ events = <<>> /\ run_stage = "parse"
    /\ inputs = <<>> /\ now = 0 /\ writes = <<>>
    /\ next_write = 1 /\ commands = <<>> /\ emitted_samples = 0

\* parse_host_input_script(): events in strictly increasing frames.
ParseLine ==
    /\ run_stage = "parse" /\ next_line <= Len(script)
    /\ LET line == script[next_line]
       IN  CASE line.kind = "comment" -> UNCHANGED <<events, run_stage>>
             [] line.kind = "error" \/ (/\ line.kind = "event" /\ events # <<>>
                                        /\ line.frame <= events[Len(events)].frame)
                  -> run_stage' = "failed" /\ UNCHANGED events
             [] OTHER -> /\ events' = Append(events, [frame |-> line.frame, input |-> line.input])
                         /\ UNCHANGED run_stage
    /\ next_line' = next_line + 1
    /\ UNCHANGED <<script, inputs, now, writes, next_write, commands, emitted_samples>>

ScriptParsed ==
    /\ run_stage = "parse" /\ next_line > Len(script)
    /\ run_stage' = "frames"
    /\ UNCHANGED <<parser, inputs, now, writes, next_write, commands, emitted_samples>>

state_for_frame_After(frame) ==
    LET past == {i \in DOMAIN events : events[i].frame < frame}
    IN  IF past = {} THEN NoButtons ELSE events[Max(past)].input

\* HostInputScript::state_for_frame(): the event before the first later one.
state_for_frame(frame) ==
    LET later == {i \in DOMAIN events : frame < events[i].frame}
        first == IF later = {} THEN Len(events) + 1 ELSE Min(later)
    IN  IF first = 1 THEN NoButtons ELSE events[first - 1].input

\* One turn of the loop in run_host(), with the writes the game makes in it.
RunHeadlessFrame ==
    /\ run_stage = "frames" /\ Len(inputs) < HostFrames
    /\ inputs' = Append(inputs, state_for_frame(Len(inputs)))
    /\ \E first, second \in Ticks :
          \/ writes' = writes
          \/ first < FrameLength /\ writes' = Append(writes, now + first)
          \/ /\ first + second < FrameLength
             /\ writes' = writes \o <<now + first, now + first + second>>
    /\ now' = now + FrameLength
    /\ UNCHANGED <<parser, run_stage, next_write, commands, emitted_samples>>

FramesRun ==
    /\ run_stage = "frames" /\ Len(inputs) = HostFrames
    /\ run_stage' = "writing"
    /\ UNCHANGED <<parser, inputs, now, writes, next_write, commands, emitted_samples>>

-----------------------------------------------------------------------------
(* write_psg_vgm() *)

Waits(samples) == [i \in 1 .. samples \div LongestWait |-> LongestWait]
                  \o (IF samples % LongestWait = 0 THEN <<>> ELSE <<samples % LongestWait>>)

\* append_vgm_wait(): as many commands as the longest wait makes necessary.
append_vgm_wait(before, samples) == before \o Waits(samples)

WriteCommand == -1      \* in `commands`, where waits are positive

TargetSamples_FromLast(cycle) ==
    emitted_samples
    + ((cycle - (IF next_write = 1 THEN 0 ELSE writes[next_write - 1])) * SampleRate) \div Clock

TargetSamples(cycle) == (cycle * SampleRate) \div Clock

WaitBefore(cycle) ==
    IF TargetSamples(cycle) > emitted_samples THEN TargetSamples(cycle) - emitted_samples ELSE 0

WriteVgmWrite ==
    /\ run_stage = "writing" /\ next_write <= Len(writes)
    /\ LET wait == WaitBefore(writes[next_write])
       IN  /\ commands' = Append(append_vgm_wait(commands, wait), WriteCommand)
           /\ emitted_samples' = emitted_samples + wait
    /\ next_write' = next_write + 1
    /\ UNCHANGED <<parser, run_stage, inputs, now, writes>>

WriteVgmEnd ==
    /\ run_stage = "writing" /\ next_write > Len(writes)
    /\ LET wait == WaitBefore(now)
       IN  /\ commands' = append_vgm_wait(commands, wait)
           /\ emitted_samples' = emitted_samples + wait
    /\ run_stage' = "written"
    /\ UNCHANGED <<parser, inputs, now, writes, next_write>>

HeadlessNext ==
    \/ ParseLine \/ ScriptParsed \/ RunHeadlessFrame \/ FramesRun
    \/ WriteVgmWrite \/ WriteVgmEnd

HeadlessSpec == HeadlessInit /\ [][HeadlessNext]_headlessVars

-----------------------------------------------------------------------------
(* Properties *)

\* The samples a player of a file has waited after n of its commands.
Waited(list, n) ==
    LET After[i \in 0 .. Len(list)] ==
            IF i = 0 THEN 0
            ELSE After[i - 1] + (IF list[i] = WriteCommand THEN 0 ELSE list[i])
    IN  After[n]

VgmWrites == {n \in DOMAIN commands : commands[n] = WriteCommand}

\* However the writes fall on cycles, a player of the file comes to each of
\* them in the sample in which the PSG received it, and to the end in the last
\* one: roundings never add up.
VgmKeepsTime ==
    run_stage = "written" =>
        /\ \A n \in VgmWrites :
              LET write == Cardinality({m \in VgmWrites : m <= n})
              IN  Waited(commands, n - 1) = (writes[write] * SampleRate) \div Clock
        /\ Cardinality(VgmWrites) = Len(writes)
        /\ Waited(commands, Len(commands)) = (now * SampleRate) \div Clock
        /\ \A n \in DOMAIN commands : commands[n] <= LongestWait

\* What a frame was run under is what the script's text says last for it or an
\* earlier frame: a script whose lines go back was refused, and frame 0 is the
\* first.
FramesFollowScript ==
    \A f \in DOMAIN inputs :
        LET said == {i \in DOMAIN script : script[i].kind = "event" /\ script[i].frame <= f - 1}
        IN  inputs[f] = IF said = {} THEN NoButtons ELSE script[Max(said)].input

\* What a headless run is given and what it leaves are both on time: every
\* frame has the script's input and every PSG write its sample.
RunIsCaptured == FramesFollowScript /\ VgmKeepsTime

=============================================================================
