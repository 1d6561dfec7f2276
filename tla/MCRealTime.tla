----------------------------- MODULE MCRealTime -----------------------------
(***************************************************************************)
(* What runs for ever: the frame loop with its CPU and VDP, and the ring   *)
(* of audio buffers with its driver.  They share no state, so each         *)
(* behaviour runs one of them: `side`.                                     *)
(***************************************************************************)
EXTENDS HostFrame, AudioQueue

VARIABLE side

RealTimeInit ==
    /\ side \in {"frames", "audio"}
    /\ HostInit /\ AudioInit
    /\ side = "frames" => requested = LowestLatency

RealTimeNext ==
    /\ UNCHANGED side
    /\ \/ side = "frames" /\ HostNext /\ UNCHANGED audioVars
       \/ side = "audio" /\ AudioNext /\ UNCHANGED hostVars

RealTimeSpec ==
    /\ RealTimeInit /\ [][RealTimeNext]_<<side, hostVars, audioVars>>
    /\ WF_hostVars(side = "frames" /\ Run)
    /\ WF_audioVars(side = "audio" /\ SubmitStep)

TwoHeights == {<<FALSE, FALSE>>, <<TRUE, FALSE>>}

=============================================================================
