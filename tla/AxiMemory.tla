----------------------------- MODULE AxiMemory -----------------------------
(***************************************************************************)
(* What the bridge and the slaves promise one AXI master that waits for      *)
(* every answer: a memory.  A write burst puts its words, in order, at the   *)
(* addresses AXI gives its beats, and only then is it answered; a read is    *)
(* answered beat by beat with what the memory holds there.  Nothing here     *)
(* knows of clocks, queues, states or APB accesses.                          *)
(***************************************************************************)
EXTENDS AxiBurst

CONSTANTS
  Bursts,        \* [cmd, strobes]; a read has no strobes
  NoBurst,
  Data           \* the words of bursts, and NoData
NoData == -1     \* what an unwritten address holds

VARIABLES
  mem,           \* from the addresses written to their words
  burst,         \* the burst the master waits for
  stored,        \* the words of it the memory has taken
  answers        \* its answers so far: [error, data]

memVars == <<mem, burst, stored, answers>>

At(m, a) == IF a \in DOMAIN m THEN m[a] ELSE NoData
With(m, a, d) == [x \in DOMAIN m \cup {a} |-> IF x = a THEN d ELSE m[x]]

Asked(b) == WritesUpTo(b.cmd, b.strobes, b.cmd.len + 1)
SomeBeatIsBad(c) == \E i \in 0 .. c.len : BadBeat(c, i)

Init == mem = <<>> /\ burst = NoBurst /\ stored = 0 /\ answers = <<>>

Start(b) ==
  /\ burst = NoBurst /\ burst' = b
  /\ answers' = <<>>
  /\ UNCHANGED <<mem, stored>>

Writing == burst # NoBurst /\ burst.cmd.write
Reading == burst # NoBurst /\ ~burst.cmd.write

Store ==
  /\ Writing /\ stored < Len(Asked(burst))
  /\ LET w == Asked(burst)[stored + 1] IN mem' = With(mem, w.addr, w.data)
  /\ stored' = stored + 1
  /\ UNCHANGED <<burst, answers>>

\* A write is answered once all it asks for is stored, with an error exactly when
\* a word of it was refused.
Respond ==
  /\ Writing /\ stored = Len(Asked(burst))
  /\ answers' = <<[error |-> Refused(burst.cmd, burst.strobes, burst.cmd.len),
                   data |-> NoData]>>
  /\ burst' = NoBurst /\ stored' = 0
  /\ UNCHANGED mem

\* A beat that claims success holds the word of its address and is not a bad one;
\* an error is only given to a burst that has a bad beat.
Give ==
  /\ Reading
  /\ LET c == burst.cmd
         i == Len(answers)
     IN  /\ \E e \in BOOLEAN, d \in Data :
              /\ BadBeat(c, i) => e
              /\ e => SomeBeatIsBad(c)
              /\ ~e => d = At(mem, AxiAddress(c, i))
              /\ answers' = Append(answers, [error |-> e, data |-> d])
         /\ burst' = IF i = c.len THEN NoBurst ELSE burst
  /\ UNCHANGED <<mem, stored>>

Next == Store \/ Respond \/ Give \/ \E b \in Bursts : Start(b)
Spec == Init /\ [][Next]_memVars
=============================================================================
