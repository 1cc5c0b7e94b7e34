------------------------------ MODULE AxiBurst ------------------------------
(***************************************************************************)
(* What an AXI burst asks of the bridge: the address of each beat by the    *)
(* AXI rule for its type, the beats that must be refused, and the APB       *)
(* writes its words stand for.  It is the reference the bridge is compared  *)
(* with, and uses nothing of its address registers.                         *)
(***************************************************************************)
EXTENDS AddrDcd, Sequences

AxiAddress(c, i) ==
  CASE c.burst = FIXED -> c.addr
    [] c.burst \in {INCR, RESERVED} -> Plus(c.addr, i * BeatBytes(c))
    [] c.burst = WRAP ->
         LET lowest == (c.addr \div Container(c)) * Container(c)
         IN  lowest + ((c.addr + i * BeatBytes(c)) % Container(c))

\* Beat i cannot be put on the APB.
BadBeat(c, i) ==
  InitialCmdError(c) \/ WrapError(c) \/ Decode(AxiAddress(c, i)) = {}

\* A write word with a mix of strobes, or a skipped or written word at a bad
\* address, ends the writing of the burst.
BadWord(c, ss, i) == ss[i + 1] = "some" \/ BadBeat(c, i)

Refused(c, ss, i) == \E j \in 0 .. i : BadWord(c, ss, j)

\* The APB writes the first n words ask for.
WritesUpTo(c, ss, n) ==
  LET asked[i \in 0 .. n] ==
        IF i = 0 THEN <<>>
        ELSE asked[i - 1] \o
             IF ss[i] = "all" /\ ~Refused(c, ss, i - 1)
             THEN <<[addr |-> AxiAddress(c, i - 1), sel |-> Decode(AxiAddress(c, i - 1)),
                     data |-> i - 1]>>
             ELSE <<>>
  IN  asked[n]
=============================================================================
