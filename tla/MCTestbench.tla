---------------------------- MODULE MCTestbench ----------------------------
EXTENDS Testbench
\* The slaves take up the last three blocks below 64 KB.
MCSlaves == {"S0", "S1", "S2"}
MCFirst == [s \in MCSlaves |-> CASE s = "S0" -> 4093 [] s = "S1" -> 4094 [] OTHER -> 4095]
Cmd(w, b, l, a) == [write |-> w, burst |-> b, size |-> 2, len |-> l, id |-> 1, addr |-> a]
Write(b, l, a, s) == [cmd |-> Cmd(TRUE, b, l, a), strobes |-> [i \in 1 .. l + 1 |-> s]]
\* The driver has one strobe for all words of a burst.
TestWrites ==
  { Write(INCR, 1, 65496, "all"), Write(WRAP, 1, 65500, "all"), Write(FIXED, 0, 65496, "all"),
    Write(INCR, 1, 65532, "all"), Write(FIXED, 0, 65496, "none") }
TestReads == { Cmd(FALSE, WRAP, 1, 65500), Cmd(FALSE, INCR, 1, 65532) }
UnstrobedWrites == { Write(FIXED, 0, 65496, "all"), Write(FIXED, 0, 65496, "none") }
OneRead == { Cmd(FALSE, FIXED, 0, 65496) }
CoverWrites == { Write(INCR, 1, 65496, "all"), Write(FIXED, 0, 65492, "all") }
=============================================================================
