---------------------------- MODULE AxiArbProofs ----------------------------
(***************************************************************************)
(* For a command queue of any depth: a ready is never given to an absent    *)
(* command or into a full queue, and neither channel overtakes the other   *)
(* more than once.  The inductive invariant adds to the two properties what *)
(* each arbiter state has promised when it was entered.                     *)
(***************************************************************************)
EXTENDS AxiArb, TLAPS

----------------------------------------------------------------------------
(* The queue alone, for any commands and any depth.                         *)

\* No edge of either clock breaks the bracket, and an edge of the push clock
\* adds at most one word to the push side's count, none without a request.
LEMMA PushKeepsFlags ==
  ASSUME CmdQueue!FlagsSafe, NEW req \in BOOLEAN, NEW d \in Writes \cup Reads,
         CmdQueue!PushEdge(req, d)
  PROVE  CmdQueue!FlagsSafe' /\ held' <= held + 1 /\ (~req => held' <= held)
<1>1. CASE req /\ ~CmdQueue!PushFull
  <2>1. queue' = Append(queue, d) /\ held' \in Len(queue') .. held + 1 /\ seen' = seen
    BY <1>1 DEF CmdQueue!PushEdge
  <2>2. queue' \in Seq(Writes \cup Reads) /\ Len(queue') = Len(queue) + 1
    BY <2>1 DEF CmdQueue!FlagsSafe
  <2>3. held + 1 <= CmdDepth /\ held \in Nat /\ seen \in Nat /\ seen <= Len(queue)
    BY <1>1, CmdDepthAssumption DEF CmdQueue!FlagsSafe, CmdQueue!PushFull
  <2>4. Len(queue) \in Nat
    BY DEF CmdQueue!FlagsSafe
  <2>5. /\ seen' \in Nat /\ held' \in Nat /\ seen' <= Len(queue') /\ Len(queue') <= held'
        /\ held' <= CmdDepth /\ held' <= held + 1
    <3> DEFINE l == Len(queue)  k == Len(queue')
    <3>1. k = l + 1 /\ held' \in k .. held + 1
      BY <2>1, <2>2
    <3> HIDE DEF l, k
    <3>2. held' \in Nat /\ k <= held' /\ held' <= held + 1 /\ l \in Nat /\ seen <= l
      BY <2>3, <2>4, <3>1 DEF l
    <3>3. held' <= CmdDepth /\ seen <= k
      BY <2>3, <3>1, <3>2, CmdDepthAssumption
    <3> QED
      BY <2>1, <2>3, <3>2, <3>3 DEF k
  <2> QED
    BY <1>1, <2>2, <2>5 DEF CmdQueue!FlagsSafe
<1>2. CASE ~(req /\ ~CmdQueue!PushFull)
  <2>1. queue' = queue /\ held' \in Len(queue) .. held /\ seen' = seen
    BY <1>2 DEF CmdQueue!PushEdge
  <2>2. Len(queue) \in Nat /\ held \in Nat /\ held <= CmdDepth
    BY DEF CmdQueue!FlagsSafe
  <2>3. held' \in Nat /\ Len(queue) <= held' /\ held' <= held /\ held' <= CmdDepth
    <3> DEFINE l == Len(queue)
    <3> HIDE DEF l
    <3>1. held' \in l .. held /\ l \in Nat /\ held \in Nat /\ held <= CmdDepth
      BY <2>1, <2>2 DEF l
    <3> QED
      BY <3>1, CmdDepthAssumption DEF l
  <2> QED
    BY <2>1, <2>2, <2>3 DEF CmdQueue!FlagsSafe
<1> QED
  BY <1>1, <1>2

LEMMA PopKeepsFlags ==
  ASSUME CmdQueue!FlagsSafe, NEW req \in BOOLEAN, CmdQueue!PopEdge(req)
  PROVE  CmdQueue!FlagsSafe' /\ held' = held
<1>1. CASE req /\ ~CmdQueue!PopEmpty
  <2>1. queue' = Tail(queue) /\ seen' \in seen - 1 .. Len(queue') /\ held' = held
    BY <1>1 DEF CmdQueue!PopEdge
  <2>2. queue # <<>> /\ seen >= 1
    BY <1>1 DEF CmdQueue!FlagsSafe, CmdQueue!PopEmpty
  <2>3. queue' \in Seq(Writes \cup Reads) /\ Len(queue') = Len(queue) - 1
    BY <2>1, <2>2 DEF CmdQueue!FlagsSafe
  <2> QED
    BY <2>1, <2>2, <2>3 DEF CmdQueue!FlagsSafe
<1>2. CASE ~(req /\ ~CmdQueue!PopEmpty)
  <2>1. queue' = queue /\ seen' \in seen .. Len(queue) /\ held' = held
    BY <1>2 DEF CmdQueue!PopEdge
  <2> QED
    BY <2>1 DEF CmdQueue!FlagsSafe
<1> QED
  BY <1>1, <1>2

\* The flags of the queue are safe to act on in every behaviour of it: the pop
\* side sees no word that is not there, the push side forgets none that is, and
\* the depth is never exceeded.
THEOREM FifoFlagsSafe == CmdQueue!Spec => []CmdQueue!FlagsSafe
<1>1. CmdQueue!Init => CmdQueue!FlagsSafe
  BY CmdDepthAssumption DEF CmdQueue!Init, CmdQueue!FlagsSafe
<1>2. CmdQueue!FlagsSafe /\ [CmdQueue!Next]_(CmdQueue!fifoVars) => CmdQueue!FlagsSafe'
  <2> SUFFICES ASSUME CmdQueue!FlagsSafe, [CmdQueue!Next]_(CmdQueue!fifoVars)
               PROVE  CmdQueue!FlagsSafe'
    OBVIOUS
  <2>1. CASE \E req \in BOOLEAN, d \in Writes \cup Reads : CmdQueue!PushEdge(req, d)
    BY <2>1, PushKeepsFlags
  <2>2. CASE \E req \in BOOLEAN : CmdQueue!PopEdge(req)
    BY <2>2, PopKeepsFlags
  <2>3. CASE UNCHANGED CmdQueue!fifoVars
    BY <2>3 DEF CmdQueue!fifoVars, CmdQueue!FlagsSafe
  <2> QED
    BY <2>1, <2>2, <2>3 DEF CmdQueue!Next
<1> QED
  BY <1>1, <1>2, PTL DEF CmdQueue!Spec

----------------------------------------------------------------------------
(* The arbiter in front of it.                                              *)

\* A ready state was entered with room to spare and for a channel that waits.
Promise ==
  /\ arbState \in {"WREADY", "RREADY"} => held < CmdDepth
  /\ arbState = "WREADY" => awvalid
  /\ arbState \in {"RREADY", "RREADY_PEND"} => arvalid

\* A channel that was overtaken is served before the other one's next turn.
Turn ==
  /\ overtaken.ar \in {0, 1} /\ overtaken.aw \in {0, 1}
  /\ overtaken.ar = 1 => arbState \in {"RREADY", "RREADY_PEND"}
  /\ overtaken.aw = 1 => awvalid /\ arbState \in {"WREADY", "IDLE"}

ArbInv == TypeOK /\ CmdQueue!FlagsSafe /\ Promise /\ Turn

LEMMA ArbInvInit == Init => ArbInv
<1> SUFFICES ASSUME Init PROVE ArbInv
  OBVIOUS
<1> USE DEF Init
<1>1. TypeOK
  <2>1. 0 \in 0 .. TooOften
    BY DEF TooOften
  <2> QED
    BY <2>1 DEF TypeOK
<1>2. CmdQueue!FlagsSafe
  BY CmdDepthAssumption DEF CmdQueue!Init, CmdQueue!FlagsSafe
<1>3. Promise /\ Turn
  BY DEF Promise, Turn
<1> QED
  BY <1>1, <1>2, <1>3 DEF ArbInv

LEMMA ArbInvAclk == ArbInv /\ Aclk => ArbInv'
<1> SUFFICES ASSUME ArbInv, Aclk PROVE ArbInv'
  OBVIOUS
<1> USE DEF ArbInv, awready, arready
<1> DEFINE req == awready \/ arready
           d == IF arready THEN ar ELSE aw
<1>1. req \in BOOLEAN /\ d \in Writes \cup Reads
  BY DEF TypeOK, TooOften
<1>2. CmdQueue!FlagsSafe' /\ held' <= held + 1 /\ (~req => held' <= held)
  BY <1>1, PushKeepsFlags DEF Aclk, PushCmd
<1>3. TypeOK'
  BY DEF Aclk, TypeOK, TooOften, NextArbState
<1>4. held \in 0 .. CmdDepth /\ held' \in 0 .. CmdDepth
  BY <1>2, CmdDepthAssumption DEF CmdQueue!FlagsSafe
<1>5. Promise'
  BY <1>2, <1>4, CmdDepthAssumption
  DEF Aclk, Promise, NextArbState, TypeOK, TooOften, RdyPush, RdyPushAf, CmdQueue!PushFull
<1>6. Turn'
  BY DEF Aclk, Turn, Promise, NextArbState, TypeOK, TooOften
<1> QED
  BY <1>2, <1>3, <1>5, <1>6

LEMMA ArbInvOthers ==
  ArbInv /\ (SendWrite \/ SendRead \/ Pclk \/ UNCHANGED vars) => ArbInv'
<1> SUFFICES ASSUME ArbInv, SendWrite \/ SendRead \/ Pclk \/ UNCHANGED vars
             PROVE  ArbInv'
  OBVIOUS
<1> USE DEF ArbInv, TypeOK, TooOften, Promise, Turn
<1>1. CASE SendWrite
  BY <1>1 DEF SendWrite, queueVars, CmdQueue!FlagsSafe
<1>2. CASE SendRead
  BY <1>2 DEF SendRead, queueVars, CmdQueue!FlagsSafe
<1>3. CASE Pclk
  <2>1. CmdQueue!FlagsSafe' /\ held' = held
    BY <1>3, PopKeepsFlags DEF Pclk
  <2> QED
    BY <1>3, <2>1 DEF Pclk, axiVars
<1>4. CASE UNCHANGED vars
  BY <1>4 DEF vars, axiVars, queueVars, CmdQueue!FlagsSafe
<1> QED
  BY <1>1, <1>2, <1>3, <1>4

THEOREM ArbInvariant == Spec => []ArbInv
<1>1. ArbInv /\ [Next]_vars => ArbInv'
  BY ArbInvAclk, ArbInvOthers DEF Next
<1> QED
  BY <1>1, ArbInvInit, PTL DEF Spec

\* A ready is given only to a command that is offered and only when the queue
\* takes it in that cycle.
THEOREM ArbReadyIsKept == Spec => []ReadyIsKept
<1>1. ArbInv => ReadyIsKept
  BY CmdDepthAssumption
  DEF ArbInv, Promise, ReadyIsKept, awready, arready, RdyPush, CmdQueue!PushFull,
      CmdQueue!FlagsSafe
<1> QED
  BY <1>1, ArbInvariant, PTL

\* Neither channel lets two commands of the other one pass.
THEOREM ArbAlternates == Spec => []Alternates
<1>1. ArbInv => Alternates
  BY DEF ArbInv, Turn, Alternates
<1> QED
  BY <1>1, ArbInvariant, PTL
=============================================================================
