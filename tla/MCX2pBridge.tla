---------------------------- MODULE MCX2pBridge ----------------------------
EXTENDS X2pBridge
MCSlaves == {"S0", "S1", "S2"}
MCFirst == [s \in MCSlaves |-> CASE s = "S0" -> 1 [] s = "S1" -> 2 [] OTHER -> 3]
Cmd(w, i, l, a) ==
  [write |-> w, burst |-> INCR, size |-> 2, len |-> l, id |-> i, addr |-> a]
Burst(i, a, ss) == [cmd |-> Cmd(TRUE, i, Len(ss) - 1, a), strobes |-> ss]
\* A burst refused at its first beat, and a good one.
MixedWrites == { Burst(0, 56, <<"some", "all">>), Burst(1, 28, <<"all">>) }
\* One access, then a beat refused for its strobes, then a word to drain.
HalfWrite == { Burst(0, 24, <<"all", "some", "all">>) }
\* Reads that run off the map, at their second beat and at their third.
LastWordRead == { Cmd(FALSE, 0, 1, 60) }
EdgeRead == { Cmd(FALSE, 0, 2, 56) }
=============================================================================
