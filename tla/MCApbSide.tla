----------------------------- MODULE MCApbSide -----------------------------
EXTENDS ApbSide
MCSlaves == {"S0", "S1", "S2"}
MCFirst == [s \in MCSlaves |-> CASE s = "S0" -> 1 [] s = "S1" -> 2 [] OTHER -> 3]
Cmd(w, b, z, l, i, a) ==
  [write |-> w, burst |-> b, size |-> z, len |-> l, id |-> i, addr |-> a]
\* Bursts of every type, at the top of the map, across blocks and off the map.
MixedCommands ==
  { Cmd(TRUE, INCR, 2, 1, 0, 28), Cmd(TRUE, INCR, 2, 1, 1, 60),
    Cmd(FALSE, INCR, 2, 1, 1, 28), Cmd(FALSE, INCR, 2, 2, 0, 56), Cmd(FALSE, INCR, 1, 0, 0, 16) }
\* Bursts as long as the beat counter allows: off the end of the map, wrapping in
\* the middle, on one address, of a length that cannot wrap, across a block.
BurstCommands ==
  { Cmd(TRUE, INCR, 2, 3, 1, 56), Cmd(TRUE, WRAP, 2, 3, 0, 40),
    Cmd(TRUE, WRAP, 2, 2, 0, 32),
    Cmd(FALSE, INCR, 2, 3, 1, 56), Cmd(FALSE, WRAP, 2, 3, 0, 40),
    Cmd(FALSE, FIXED, 2, 1, 1, 20), Cmd(FALSE, WRAP, 2, 2, 1, 32),
    Cmd(FALSE, INCR, 2, 2, 0, 24) }
ReadCommands ==
  { Cmd(FALSE, INCR, 2, 3, 1, 56), Cmd(FALSE, FIXED, 2, 2, 1, 20),
    Cmd(FALSE, WRAP, 2, 3, 0, 40), Cmd(FALSE, WRAP, 2, 2, 1, 32), Cmd(FALSE, INCR, 2, 0, 0, 18),
    Cmd(FALSE, INCR, 1, 3, 1, 16),  Cmd(FALSE, INCR, 2, 3, 0, 12), Cmd(FALSE, INCR, 2, 3, 0, 24) }
\* A read burst of the reserved type, among others.
ReservedCommands ==
  { Cmd(FALSE, RESERVED, 2, 2, 1, 20), Cmd(FALSE, INCR, 2, 1, 0, 20),
    Cmd(TRUE, INCR, 2, 1, 1, 32) }
=============================================================================
