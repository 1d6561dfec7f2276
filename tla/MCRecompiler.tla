----------------------------- MODULE MCRecompiler -----------------------------
\* Instances of Recompiler for TLC.
EXTENDS Recompiler, TLC

Image(a, b, c, d, e) == [i \in 0 .. 4 |-> <<a, b, c, d, e>>[i + 1]]

\* Every opcode, every second byte of ED and DD, one opcode of each kind after
\* the two other prefixes, and every kind of bit operation after DD CB.
Opcodes == {Image(a, b, 0, 0, 10) : a \in 0 .. 255, b \in {2, 254}}
Prefixed2 ==
    {Image(p, b, 1, 0, 10) : p \in {\hED, \hDD}, b \in 0 .. 255}
    \cup {Image(\hFD, b, 1, 0, 10) : b \in {\h09, \h26, \h34, \h76, \hC3, \hCB, \hE1, \hE5, \hE9, \hFD}}
    \cup {Image(\hCB, b, 1, 0, 10) : b \in {0, 6, 64, 70, 134, 192}}
Prefixed4 == {Image(p, \hCB, 1, d, 10) : p \in IndexPrefixes, d \in {0, 70, 128, 255}}

\* Short programs over an alphabet of jumps, calls, HALT, RET and operands
\* that are instructions too, so that control lands inside instructions.
Alphabet == {\h00, \h01, \h18, \h76, \hCD}
Programs == {Image(a, b, c, 0, d) : a \in Alphabet, b \in Alphabet, c \in Alphabet, d \in Alphabet}

MCImages == Opcodes \cup Prefixed2 \cup Prefixed4 \cup Programs
MCAnywhere == 0 .. 4
MCOtherPage == (3 :> \hC9) @@ (4 :> \h27)
===============================================================================
