-------------------------- MODULE X2pBridgeProofs --------------------------
(***************************************************************************)
(* What is proved of the parts holds in the whole bridge: its steps are     *)
(* steps of the arbiter and keep the counts of the four queues, its APB     *)
(* pins follow the protocol, and no answer meets a full buffer.  No burst   *)
(* is lost or made up on its way through, and the counters beside the       *)
(* bridge know how many there are.                                          *)
(***************************************************************************)
EXTENDS X2pPower, FiniteSetTheorems, TLAPS

ArbProofs == INSTANCE AxiArbProofs WITH
         Writes <- WriteCommands, Reads <- ReadCommands,
         queue <- cmdQueue, held <- cmdHeld, seen <- cmdSeen
Master == INSTANCE ApbMasterProofs WITH
         cmd <- CmdOut, cmdReady <- ~CmdQueue!PopEmpty,
         word <- WordOut, wordReady <- ~WordQueue!PopEmpty,
         respFull <- RespQueue!PushFull, readFull <- ReadQueue!PushFull

----------------------------------------------------------------------------
(* The arbiter inside the bridge.                                          *)

\* A step of the bridge with slaves that may answer anything: what is said of it holds of
\* the slaves of X2pBridge and of those of the testbench.
Moves == Aclk \/ PclkEdge \/ SendWrite \/ SendRead

LEMMA StepsMove == [Next]_vars => [Moves]_vars
BY DEF Next, Moves, Pclk, PclkWith

LEMMA BridgeStepsArb == [Moves]_vars => [Arb!Next]_(Arb!vars)
<1> SUFFICES ASSUME [Moves]_vars PROVE [Arb!Next]_(Arb!vars)
  OBVIOUS
<1>1. CASE Aclk
  BY <1>1 DEF Aclk, AclkWith, Arb!Next
<1>2. CASE PclkEdge
  <2>1. Arb!CmdQueue!PopEdge(Apb!PopCmdQueue)
    BY <1>2 DEF PclkEdge, CmdQueue!PopEdge, Arb!CmdQueue!PopEdge, CmdQueue!PopEmpty,
                Arb!CmdQueue!PopEmpty
  <2>2. UNCHANGED <<awvalid, aw, arvalid, ar, arbState, overtaken>>
    BY <1>2 DEF PclkEdge, channels
  <2>3. Apb!PopCmdQueue \in BOOLEAN
    BY DEF Apb!PopCmdQueue, Apb!PushRspRequest
  <2> QED
    BY <2>1, <2>2, <2>3 DEF Arb!Next, Arb!Pclk, Arb!axiVars
<1>3. CASE SendWrite \/ SendRead
  BY <1>3 DEF SendWrite, SendRead, Arb!Next
<1>4. CASE UNCHANGED vars
  BY <1>4 DEF vars, channels, queues, cmdVars, Arb!vars, Arb!axiVars, Arb!queueVars
<1> QED
  BY <1>1, <1>2, <1>3, <1>4 DEF Moves

\* The bridge runs its arbiter as AxiArb says, so all that is proved of AxiArb holds.
THEOREM BridgeImplementsArb == Spec => Arb!Spec
<1>1. Init => Arb!Init
  BY DEF Init
<1>2. [Next]_vars => [Arb!Next]_(Arb!vars)
  BY BridgeStepsArb, StepsMove
<1> QED
  BY <1>1, <1>2, PTL DEF Spec, Arb!Spec

\* The arbiter of AxiArbProofs is the same one.
LEMMA SameArb ==
  /\ Arb!Init => ArbProofs!Init
  /\ [Arb!Next]_(Arb!vars) => [ArbProofs!Next]_(ArbProofs!vars)
  /\ ArbProofs!ReadyIsKept => Arb!ReadyIsKept
  /\ ArbProofs!Alternates => Arb!Alternates
BY DEF Arb!Init, ArbProofs!Init, Arb!CmdQueue!Init, ArbProofs!CmdQueue!Init,
  Arb!Next, ArbProofs!Next, Arb!vars, ArbProofs!vars, Arb!axiVars, ArbProofs!axiVars,
  Arb!queueVars, ArbProofs!queueVars, Arb!SendWrite, ArbProofs!SendWrite,
  Arb!SendRead, ArbProofs!SendRead, Arb!Pclk, ArbProofs!Pclk,
  Arb!CmdQueue!PopEdge, ArbProofs!CmdQueue!PopEdge,
  Arb!CmdQueue!PopEmpty, ArbProofs!CmdQueue!PopEmpty,
  Arb!Aclk, ArbProofs!Aclk, Arb!NextArbState, ArbProofs!NextArbState,
  Arb!PushCmd, ArbProofs!PushCmd, Arb!awready, ArbProofs!awready,
  Arb!arready, ArbProofs!arready, Arb!TooOften, ArbProofs!TooOften,
  Arb!RdyPush, ArbProofs!RdyPush, Arb!RdyPushAf, ArbProofs!RdyPushAf,
  Arb!CmdQueue!PushEdge, ArbProofs!CmdQueue!PushEdge,
  Arb!CmdQueue!PushFull, ArbProofs!CmdQueue!PushFull,
  Arb!ReadyIsKept, ArbProofs!ReadyIsKept, Arb!Alternates, ArbProofs!Alternates

\* In the whole bridge, no command is lost, doubled or made up on its way into the
\* command queue, and neither address channel is overtaken twice.
THEOREM BridgeArbitrates == Spec => []Arb!ReadyIsKept /\ []Arb!Alternates
<1>1. Spec => ArbProofs!Spec
  BY BridgeImplementsArb, SameArb, PTL DEF Arb!Spec, ArbProofs!Spec
<1>2. CmdDepth \in Nat \ {0}
  BY DepthsAssumption
<1>3. ArbProofs!Spec => []ArbProofs!ReadyIsKept
  BY <1>2, ArbProofs!ArbReadyIsKept
<1>4. ArbProofs!Spec => []ArbProofs!Alternates
  BY <1>2, ArbProofs!ArbAlternates
<1> QED
  BY <1>1, <1>3, <1>4, SameArb, PTL

----------------------------------------------------------------------------
(* The counts of the queues.  What a queue carries does not matter here.    *)

Bracketed(queue, held, seen, depth) ==
  /\ \E S : queue \in Seq(S)
  /\ seen \in Nat /\ held \in Nat
  /\ seen <= Len(queue) /\ Len(queue) <= held /\ held <= depth

LEMMA SeqMonotone ==
  ASSUME NEW S, NEW d, NEW q \in Seq(S)
  PROVE  q \in Seq(S \cup {d})
OBVIOUS

LEMMA PushKeepsBracket ==
  ASSUME NEW q, NEW h, NEW s, NEW depth \in Nat, Bracketed(q, h, s, depth),
         NEW writes \in BOOLEAN, writes => h # depth, NEW d, NEW q2, NEW h2,
         q2 = IF writes THEN Append(q, d) ELSE q,
         h2 \in Len(q2) .. (IF writes THEN h + 1 ELSE h)
  PROVE  Bracketed(q2, h2, s, depth) /\ (~writes => h2 <= h)
<1>1. PICK S : q \in Seq(S)
  BY DEF Bracketed
<1>2. q \in Seq(S \cup {d})
  BY <1>1, SeqMonotone
<1>3. CASE writes
  <2>1. q2 \in Seq(S \cup {d}) /\ Len(q2) = Len(q) + 1
    BY <1>2, <1>3
  <2> QED
    BY <1>3, <2>1 DEF Bracketed
<1>4. CASE ~writes
  BY <1>1, <1>4 DEF Bracketed
<1> QED
  BY <1>3, <1>4

LEMMA PopKeepsBracket ==
  ASSUME NEW q, NEW h, NEW s, NEW depth \in Nat, Bracketed(q, h, s, depth),
         NEW reads \in BOOLEAN, reads => s # 0, NEW q2, NEW s2,
         q2 = IF reads THEN Tail(q) ELSE q,
         s2 \in (IF reads THEN s - 1 ELSE s) .. Len(q2)
  PROVE  Bracketed(q2, h, s2, depth)
<1>1. PICK S : q \in Seq(S)
  BY DEF Bracketed
<1>2. CASE reads
  <2>1. q # <<>> /\ s >= 1
    BY <1>1, <1>2 DEF Bracketed
  <2>2. q2 \in Seq(S) /\ Len(q2) = Len(q) - 1
    BY <1>1, <1>2, <2>1
  <2> QED
    BY <1>2, <2>1, <2>2 DEF Bracketed
<1>3. CASE ~reads
  BY <1>1, <1>3 DEF Bracketed
<1> QED
  BY <1>2, <1>3

QueuesSafe ==
  /\ Bracketed(cmdQueue, cmdHeld, cmdSeen, CmdDepth)
  /\ Bracketed(wordQueue, wordHeld, wordSeen, WriteDepth)
  /\ Bracketed(respQueue, respHeld, respSeen, RespDepth)
  /\ Bracketed(readQueue, readHeld, readSeen, ReadDepth)

LEMMA QueuesInit == Init => QueuesSafe
<1> SUFFICES ASSUME Init PROVE QueuesSafe
  OBVIOUS
<1>1. <<>> \in Seq({}) /\ Len(<<>>) = 0
  OBVIOUS
<1> QED
  BY <1>1, DepthsAssumption
  DEF Init, QueuesSafe, Bracketed, Arb!Init, Arb!CmdQueue!Init, WordQueue!Init,
      RespQueue!Init, ReadQueue!Init

LEMMA AclkKeepsQueues == QueuesSafe /\ Aclk => QueuesSafe'
<1> SUFFICES ASSUME QueuesSafe, NEW w \in BOOLEAN, NEW b \in BOOLEAN, NEW r \in BOOLEAN,
                    AclkWith(w, b, r)
             PROVE  QueuesSafe'
  BY DEF Aclk
<1>1. Bracketed(cmdQueue, cmdHeld, cmdSeen, CmdDepth)'
  <2> DEFINE req == Arb!awready \/ Arb!arready
             d == IF Arb!arready THEN ar ELSE aw
             writes == req /\ cmdHeld # CmdDepth
  <2>1. /\ cmdQueue' = IF writes THEN Append(cmdQueue, d) ELSE cmdQueue
        /\ cmdHeld' \in Len(cmdQueue') .. (IF writes THEN cmdHeld + 1 ELSE cmdHeld)
        /\ cmdSeen' = cmdSeen
    BY DEF AclkWith, Arb!Aclk, Arb!PushCmd, Arb!CmdQueue!PushEdge, Arb!CmdQueue!PushFull
  <2>2. writes \in BOOLEAN /\ (writes => cmdHeld # CmdDepth) /\ CmdDepth \in Nat
    BY DepthsAssumption
  <2>3. /\ Bracketed(cmdQueue', cmdHeld', cmdSeen, CmdDepth)
        /\ ~writes => cmdHeld' <= cmdHeld
    <3>1. Bracketed(cmdQueue, cmdHeld, cmdSeen, CmdDepth)
      BY DEF QueuesSafe
    <3> HIDE DEF d, writes
    <3> QED
      BY <2>1, <2>2, <3>1, PushKeepsBracket
  <2> QED
    BY <2>1, <2>3
<1>2. Bracketed(wordQueue, wordHeld, wordSeen, WriteDepth)'
  <2> DEFINE d == IF w THEN Head(toSend) ELSE Apb!ResetWord
             writes == w /\ wordHeld # WriteDepth
  <2>1. /\ wordQueue' = IF writes THEN Append(wordQueue, d) ELSE wordQueue
        /\ wordHeld' \in Len(wordQueue') .. (IF writes THEN wordHeld + 1 ELSE wordHeld)
        /\ wordSeen' = wordSeen
    BY DEF AclkWith, WordQueue!PushEdge, WordQueue!PushFull
  <2>2. writes \in BOOLEAN /\ (writes => wordHeld # WriteDepth) /\ WriteDepth \in Nat
    BY DepthsAssumption
  <2>3. /\ Bracketed(wordQueue', wordHeld', wordSeen, WriteDepth)
        /\ ~writes => wordHeld' <= wordHeld
    <3>1. Bracketed(wordQueue, wordHeld, wordSeen, WriteDepth)
      BY DEF QueuesSafe
    <3> HIDE DEF d, writes
    <3> QED
      BY <2>1, <2>2, <3>1, PushKeepsBracket
  <2> QED
    BY <2>1, <2>3
<1>3. Bracketed(respQueue, respHeld, respSeen, RespDepth)'
  <2> DEFINE reads == b /\ respSeen # 0
  <2>1. /\ respQueue' = IF reads THEN Tail(respQueue) ELSE respQueue
        /\ respSeen' \in (IF reads THEN respSeen - 1 ELSE respSeen) .. Len(respQueue')
        /\ respHeld' = respHeld
    BY DEF AclkWith, RespQueue!PopEdge, RespQueue!PopEmpty
  <2>2. reads \in BOOLEAN /\ (reads => respSeen # 0) /\ RespDepth \in Nat
    BY DepthsAssumption
  <2>3. Bracketed(respQueue', respHeld, respSeen', RespDepth)
    <3>1. Bracketed(respQueue, respHeld, respSeen, RespDepth)
      BY DEF QueuesSafe
    <3> HIDE DEF reads
    <3> QED
      BY <2>1, <2>2, <3>1, PopKeepsBracket
  <2> QED
    BY <2>1, <2>3
<1>4. Bracketed(readQueue, readHeld, readSeen, ReadDepth)'
  <2> DEFINE reads == r /\ readSeen # 0
  <2>1. /\ readQueue' = IF reads THEN Tail(readQueue) ELSE readQueue
        /\ readSeen' \in (IF reads THEN readSeen - 1 ELSE readSeen) .. Len(readQueue')
        /\ readHeld' = readHeld
    BY DEF AclkWith, ReadQueue!PopEdge, ReadQueue!PopEmpty
  <2>2. reads \in BOOLEAN /\ (reads => readSeen # 0) /\ ReadDepth \in Nat
    BY DepthsAssumption
  <2>3. Bracketed(readQueue', readHeld, readSeen', ReadDepth)
    <3>1. Bracketed(readQueue, readHeld, readSeen, ReadDepth)
      BY DEF QueuesSafe
    <3> HIDE DEF reads
    <3> QED
      BY <2>1, <2>2, <3>1, PopKeepsBracket
  <2> QED
    BY <2>1, <2>3
<1> QED
  BY <1>1, <1>2, <1>3, <1>4 DEF QueuesSafe

LEMMA PclkKeepsQueues ==
  ASSUME QueuesSafe, PclkEdge
  PROVE  /\ QueuesSafe'
         /\ ~Apb!PushReadBuffer => readHeld' <= readHeld
         /\ ~Apb!PushResponse => respHeld' <= respHeld
<1>1. Bracketed(cmdQueue, cmdHeld, cmdSeen, CmdDepth)'
  <2> DEFINE reads == Apb!PopCmdQueue /\ cmdSeen # 0
  <2>1. /\ cmdQueue' = IF reads THEN Tail(cmdQueue) ELSE cmdQueue
        /\ cmdSeen' \in (IF reads THEN cmdSeen - 1 ELSE cmdSeen) .. Len(cmdQueue')
        /\ cmdHeld' = cmdHeld
    BY DEF PclkEdge, CmdQueue!PopEdge, CmdQueue!PopEmpty
  <2>2. reads \in BOOLEAN /\ (reads => cmdSeen # 0) /\ CmdDepth \in Nat
    BY DepthsAssumption
  <2>3. Bracketed(cmdQueue', cmdHeld, cmdSeen', CmdDepth)
    <3>1. Bracketed(cmdQueue, cmdHeld, cmdSeen, CmdDepth)
      BY DEF QueuesSafe
    <3> HIDE DEF reads
    <3> QED
      BY <2>1, <2>2, <3>1, PopKeepsBracket
  <2> QED
    BY <2>1, <2>3
<1>2. Bracketed(wordQueue, wordHeld, wordSeen, WriteDepth)'
  <2> DEFINE reads == Apb!PopWriteBuff /\ wordSeen # 0
  <2>1. /\ wordQueue' = IF reads THEN Tail(wordQueue) ELSE wordQueue
        /\ wordSeen' \in (IF reads THEN wordSeen - 1 ELSE wordSeen) .. Len(wordQueue')
        /\ wordHeld' = wordHeld
    BY DEF PclkEdge, WordQueue!PopEdge, WordQueue!PopEmpty
  <2>2. reads \in BOOLEAN /\ (reads => wordSeen # 0) /\ WriteDepth \in Nat
    BY DepthsAssumption
  <2>3. Bracketed(wordQueue', wordHeld, wordSeen', WriteDepth)
    <3>1. Bracketed(wordQueue, wordHeld, wordSeen, WriteDepth)
      BY DEF QueuesSafe
    <3> HIDE DEF reads
    <3> QED
      BY <2>1, <2>2, <3>1, PopKeepsBracket
  <2> QED
    BY <2>1, <2>3
<1>3. /\ Bracketed(respQueue, respHeld, respSeen, RespDepth)'
      /\ ~Apb!PushResponse => respHeld' <= respHeld
  <2> DEFINE writes == Apb!PushResponse /\ respHeld # RespDepth
  <2>1. /\ respQueue' = IF writes THEN Append(respQueue, Response) ELSE respQueue
        /\ respHeld' \in Len(respQueue') .. (IF writes THEN respHeld + 1 ELSE respHeld)
        /\ respSeen' = respSeen
    BY DEF PclkEdge, RespQueue!PushEdge, RespQueue!PushFull
  <2>2. writes \in BOOLEAN /\ (writes => respHeld # RespDepth) /\ RespDepth \in Nat
    BY DepthsAssumption
  <2>3. /\ Bracketed(respQueue', respHeld', respSeen, RespDepth)
        /\ ~writes => respHeld' <= respHeld
    <3>1. Bracketed(respQueue, respHeld, respSeen, RespDepth)
      BY DEF QueuesSafe
    <3> HIDE DEF writes
    <3> QED
      BY <2>1, <2>2, <3>1, PushKeepsBracket
  <2> QED
    BY <2>1, <2>3
<1>4. /\ Bracketed(readQueue, readHeld, readSeen, ReadDepth)'
      /\ ~Apb!PushReadBuffer => readHeld' <= readHeld
  <2> DEFINE writes == Apb!PushReadBuffer /\ readHeld # ReadDepth
  <2>1. /\ readQueue' = IF writes THEN Append(readQueue, Beat) ELSE readQueue
        /\ readHeld' \in Len(readQueue') .. (IF writes THEN readHeld + 1 ELSE readHeld)
        /\ readSeen' = readSeen
    BY DEF PclkEdge, ReadQueue!PushEdge, ReadQueue!PushFull
  <2>2. writes \in BOOLEAN /\ (writes => readHeld # ReadDepth) /\ ReadDepth \in Nat
    BY DepthsAssumption
  <2>3. /\ Bracketed(readQueue', readHeld', readSeen, ReadDepth)
        /\ ~writes => readHeld' <= readHeld
    <3>1. Bracketed(readQueue, readHeld, readSeen, ReadDepth)
      BY DEF QueuesSafe
    <3> HIDE DEF writes
    <3> QED
      BY <2>1, <2>2, <3>1, PushKeepsBracket
  <2> QED
    BY <2>1, <2>3
<1> QED
  BY <1>1, <1>2, <1>3, <1>4 DEF QueuesSafe

LEMMA SendsKeepQueues ==
  QueuesSafe /\ (SendWrite \/ SendRead \/ UNCHANGED vars)
    => QueuesSafe' /\ UNCHANGED <<registers, respHeld, readHeld>>
BY DEF QueuesSafe, Bracketed, SendWrite, SendRead, Arb!SendWrite, Arb!SendRead,
       Arb!queueVars, vars, queues, cmdVars, wordVars, respVars, readVars

----------------------------------------------------------------------------
(* The APB side inside the bridge.  The pins of the two instances of        *)
(* ApbMaster are the same, so an edge of one is an edge of the other,       *)
(* definition by definition.                                               *)

LEMMA SameEdge == Apb!Edge => Master!Edge
BY DEF
  Apb!WordBytes, Master!WordBytes, Apb!AlignSize, Master!AlignSize, Apb!FIXED,
  Master!FIXED, Apb!INCR, Master!INCR, Apb!WRAP, Master!WRAP, Apb!RESERVED,
  Master!RESERVED, Apb!Plus, Master!Plus, Apb!WordAligned, Master!WordAligned,
  Apb!BeatBytes, Master!BeatBytes, Apb!Container, Master!Container, Apb!WrapError,
  Master!WrapError, Apb!InitialCmdError, Master!InitialCmdError, Apb!Decode,
  Master!Decode, Apb!AddressFromSet, Master!AddressFromSet, Apb!BaseFromIncrBase,
  Master!BaseFromIncrBase, Apb!AddressFromIncrBase, Master!AddressFromIncrBase,
  Apb!AddressFromIncr, Master!AddressFromIncr, Apb!Penable, Master!Penable,
  Apb!DcdError, Master!DcdError, Apb!AnyError, Master!AnyError, Apb!LastBeat,
  Master!LastBeat, Apb!PopWriteBuff, Master!PopWriteBuff, Apb!NextPushRead,
  Master!NextPushRead, Apb!PushRspRequest, Master!PushRspRequest, Apb!PushResponse,
  Master!PushResponse, Apb!RespStatus, Master!RespStatus, Apb!NextBeat,
  Master!NextBeat, Apb!SetAddr, Master!SetAddr, Apb!IncrBaseAddr, Master!IncrBaseAddr,
  Apb!IncrAddr, Master!IncrAddr, Apb!NextAddress, Master!NextAddress, Apb!NextError,
  Master!NextError, Apb!NextRdError, Master!NextRdError, Apb!NextLastPushRead,
  Master!NextLastPushRead, Apb!NextPopRequest, Master!NextPopRequest,
  Apb!NextWriteBuffEmpty, Master!NextWriteBuffEmpty, Apb!NextWriteLastReg,
  Master!NextWriteLastReg, Apb!ControlRegisters, Master!ControlRegisters,
  Apb!AddressRegisters, Master!AddressRegisters, Apb!NoData, Master!NoData,
  Apb!NextPwdata, Master!NextPwdata, Apb!NextAxiData, Master!NextAxiData,
  Apb!DataRegisters, Master!DataRegisters, Apb!ResponseRegisters,
  Master!ResponseRegisters, Apb!Registers, Master!Registers, Apb!Idle, Master!Idle,
  Apb!Purge, Master!Purge, Apb!WSel, Master!WSel, Apb!NWSel, Master!NWSel,
  Apb!CheckOnStrobes, Master!CheckOnStrobes, Apb!AfterWrite, Master!AfterWrite,
  Apb!WEn, Master!WEn, Apb!NWEn, Master!NWEn, Apb!WDtWt, Master!WDtWt, Apb!WtStart,
  Master!WtStart, Apb!WResp, Master!WResp, Apb!RSel, Master!RSel, Apb!REn, Master!REn,
  Apb!NREn, Master!NREn, Apb!PrePurge, Master!PrePurge, Apb!RBufWt, Master!RBufWt,
  Apb!Edge, Master!Edge

\* What the control state says of the registers and of the answer buffers.
MasterInv ==
  /\ state \in Master!States
  /\ Master!SelectsDecoded
  /\ pushReadReg => state \in {"RSEL", "PREPURGE", "IDLE"} /\ ~ReadQueue!PushFull
  /\ dlydResp => state = "IDLE" /\ ~RespQueue!PushFull

BridgeInv == QueuesSafe /\ MasterInv

LEMMA BridgeInit == Init => BridgeInv
<1> SUFFICES ASSUME Init PROVE MasterInv
  BY QueuesInit DEF BridgeInv
<1> QED
  BY DEF Init, Apb!Reset, MasterInv, Master!SelectsDecoded, Master!States, Master!Selecting

LEMMA PclkKeepsMaster == BridgeInv /\ PclkEdge => MasterInv'
<1> SUFFICES ASSUME BridgeInv, PclkEdge PROVE MasterInv'
  OBVIOUS
<1> USE DEF BridgeInv, MasterInv
<1>1. Master!Edge
  BY SameEdge DEF PclkEdge
<1>2. Master!Registers /\ state' \in Master!States
  BY <1>1, AddrSpaceAssumption, Master!StateMoves
<1>3. Master!SelectsDecoded'
  BY <1>1, AddrSpaceAssumption, Master!EdgeDecodes
<1>4. ASSUME pushReadReg'
      PROVE  state' \in {"RSEL", "PREPURGE", "IDLE"} /\ ~ReadQueue!PushFull'
  <2>1. ~ReadQueue!PushFull /\ state \in {"REN", "RBUFWT"}
    BY <1>2, <1>4 DEF Master!Registers, Master!ControlRegisters, Master!NextPushRead
  <2>2. readHeld' <= readHeld
    BY <2>1, PclkKeepsQueues DEF Apb!PushReadBuffer
  <2>3. ~ReadQueue!PushFull'
    BY <2>1, <2>2, DepthsAssumption, PclkKeepsQueues
    DEF ReadQueue!PushFull, QueuesSafe, Bracketed
  <2> QED
    BY <1>1, <2>1, <2>3, AddrSpaceAssumption, Master!StateMoves
<1>5. ASSUME dlydResp'
      PROVE  state' = "IDLE" /\ ~RespQueue!PushFull'
  <2>1. ~RespQueue!PushFull /\ state = "WRESP" /\ ~Apb!PushResponse
    BY <1>2, <1>5
    DEF Master!Registers, Master!ResponseRegisters, Master!PushResponse,
        Master!PushRspRequest, Apb!PushResponse
  <2>2. respHeld' <= respHeld
    BY <2>1, PclkKeepsQueues
  <2>3. ~RespQueue!PushFull'
    BY <2>1, <2>2, DepthsAssumption, PclkKeepsQueues
    DEF RespQueue!PushFull, QueuesSafe, Bracketed
  <2> QED
    BY <1>1, <2>1, <2>3, AddrSpaceAssumption, Master!StateMoves
<1> QED
  BY <1>2, <1>3, <1>4, <1>5

LEMMA BridgeStep == BridgeInv /\ [Moves]_vars => BridgeInv'
<1> SUFFICES ASSUME BridgeInv, [Moves]_vars PROVE BridgeInv'
  OBVIOUS
<1>1. CASE PclkEdge
  BY <1>1, PclkKeepsQueues, PclkKeepsMaster DEF BridgeInv
<1>2. ASSUME QueuesSafe', UNCHANGED <<registers, respHeld, readHeld>> PROVE BridgeInv'
  BY <1>2
  DEF BridgeInv, MasterInv, registers, Master!SelectsDecoded, Master!Selecting,
      Master!Decode, Master!States, RespQueue!PushFull, ReadQueue!PushFull
<1>3. CASE Aclk
  <2>1. UNCHANGED <<registers, respHeld, readHeld>>
    BY <1>3 DEF Aclk, AclkWith, RespQueue!PopEdge, ReadQueue!PopEdge
  <2> QED
    BY <1>2, <1>3, <2>1, AclkKeepsQueues DEF BridgeInv
<1>4. CASE SendWrite \/ SendRead \/ UNCHANGED vars
  BY <1>2, <1>4, SendsKeepQueues DEF BridgeInv
<1> QED
  BY <1>1, <1>3, <1>4 DEF Moves

THEOREM BridgeInvariant == Spec => []BridgeInv
BY BridgeInit, BridgeStep, StepsMove, PTL DEF Spec

\* For every depth of the buffers, no read beat and no response is lost on its way
\* into them, although the APB side decides on a push a cycle ahead.
THEOREM BridgeAnswersFindRoom == Spec => []AnswersFindRoom
<1>1. BridgeInv => AnswersFindRoom
  BY DEF BridgeInv, MasterInv, AnswersFindRoom, Apb!PushReadBuffer
<1> QED
  BY <1>1, BridgeInvariant, PTL

----------------------------------------------------------------------------
(* The pins toward the slaves.                                             *)

LEMMA PclkStepsBus == BridgeInv /\ BridgeInv' /\ PclkEdge => Bus!Next
<1> SUFFICES ASSUME BridgeInv, BridgeInv', PclkEdge PROVE Bus!Next
  OBVIOUS
<1>1. Master!SelectsDecoded /\ Master!SelectsDecoded' /\ Master!Edge
  BY SameEdge DEF BridgeInv, MasterInv, PclkEdge
<1> QED
  BY <1>1, AddrSpaceAssumption, Master!EdgeOfPins
  DEF Bus!Next, Bus!Access, Bus!StartTransfer, Bus!Release, Bus!Setup, Bus!Idle,
      Master!PselOut, Apb!PselOut, Master!Penable, Apb!Penable, Master!Pwrite, Apb!Pwrite,
      Master!Decode, Decode

LEMMA OthersLeaveBus ==
  Aclk \/ SendWrite \/ SendRead \/ UNCHANGED vars => UNCHANGED Bus!busVars
BY DEF Aclk, AclkWith, SendWrite, SendRead, vars, registers, Bus!busVars, Apb!PselOut,
       Apb!Penable, Apb!Pwrite

\* With the real queues at its pins, too, the bridge keeps the APB protocol: setup
\* then access of one transfer, stable, at the slave the address decodes to.
THEOREM BridgeFollowsApb == Spec => FollowsApb
<1>1. Init => Bus!Init
  BY DEF Init, Apb!Reset, Bus!Init, Bus!Idle, Apb!PselOut, Apb!Penable
<1>2. BridgeInv /\ BridgeInv' /\ [Next]_vars => [Bus!Next]_(Bus!busVars)
  BY PclkStepsBus, OthersLeaveBus, StepsMove DEF Moves
<1> QED
  BY <1>1, <1>2, BridgeInvariant, PTL DEF Spec, FollowsApb, Bus!Spec

----------------------------------------------------------------------------
(* Counting in a queue.                                                     *)

\* The places of a queue, from the i-th on, whose field f is in V; how many they are,
\* and how many there are in the whole queue.
Places(q, f, V, i) == {j \in i .. Len(q) : q[j][f] \in V}
Rest(q, f, V, i) == Cardinality(Places(q, f, V, i))
Count(q, f, V) == Rest(q, f, V, 1)
One(p) == IF p THEN 1 ELSE 0

LEMMA PlacesFinite ==
  ASSUME NEW S, NEW q \in Seq(S), NEW f, NEW V, NEW i \in Nat \ {0}
  PROVE  /\ IsFiniteSet(Places(q, f, V, i))
         /\ Rest(q, f, V, i) \in Nat /\ Rest(q, f, V, i) <= Len(q)
         /\ i > Len(q) => Rest(q, f, V, i) = 0
<1>1. IsFiniteSet(1 .. Len(q)) /\ Cardinality(1 .. Len(q)) = Len(q)
  <2>1. Len(q) \in Nat
    OBVIOUS
  <2> QED
    BY <2>1, FS_Interval
<1>2. Places(q, f, V, i) \in SUBSET (1 .. Len(q))
  BY DEF Places
<1>3. IsFiniteSet(Places(q, f, V, i)) /\ Cardinality(Places(q, f, V, i)) <= Len(q)
  BY <1>1, <1>2, FS_Subset
<1>4. i > Len(q) => Places(q, f, V, i) = {}
  BY DEF Places
<1> QED
  BY <1>3, <1>4, FS_CardinalityType, FS_EmptySet DEF Rest

\* One place less, or fewer.
LEMMA RestSteps ==
  ASSUME NEW S, NEW q \in Seq(S), NEW f, NEW V, NEW i \in 1 .. Len(q)
  PROVE  Rest(q, f, V, i) = Rest(q, f, V, i + 1) + One(q[i][f] \in V)
<1> DEFINE P == Places(q, f, V, i)
           R == Places(q, f, V, i + 1)
<1>1. IsFiniteSet(R) /\ Cardinality(R) \in Nat
  <2>1. i + 1 \in Nat \ {0}
    OBVIOUS
  <2> QED
    BY <2>1, PlacesFinite DEF Rest
<1>2. i \notin R
  BY DEF Places
<1>3. CASE q[i][f] \in V
  <2>1. P = R \cup {i}
    BY <1>3 DEF Places
  <2>2. Cardinality(P) = Cardinality(R) + 1
    BY <1>1, <1>2, <2>1, FS_AddElement
  <2> QED
    BY <1>3, <2>2 DEF Rest, One
<1>4. CASE q[i][f] \notin V
  <2>1. P = R
    BY <1>4 DEF Places
  <2> QED
    BY <1>1, <1>4, <2>1 DEF Rest, One
<1> QED
  BY <1>3, <1>4

LEMMA RestFalls ==
  ASSUME NEW S, NEW q \in Seq(S), NEW f, NEW V, NEW i \in Nat \ {0}, NEW j \in Nat, i <= j
  PROVE  Rest(q, f, V, j) <= Rest(q, f, V, i)
<1>1. Places(q, f, V, j) \in SUBSET Places(q, f, V, i)
  BY DEF Places
<1> QED
  BY <1>1, PlacesFinite, FS_Subset DEF Rest

\* A queue with one more at its end, or with its head taken.
LEMMA RestAppended ==
  ASSUME NEW S, NEW q \in Seq(S), NEW d, NEW f, NEW V, NEW i \in 1 .. Len(q) + 1
  PROVE  Rest(Append(q, d), f, V, i) = Rest(q, f, V, i) + One(d[f] \in V)
<1> DEFINE n == Len(q)
           P == Places(q, f, V, i)
           P2 == Places(Append(q, d), f, V, i)
<1>1. q \in Seq(S \cup {d}) /\ n \in Nat
  BY SeqMonotone
<1>2. /\ Len(Append(q, d)) = n + 1 /\ Append(q, d)[n + 1] = d
      /\ \A j \in 1 .. n : Append(q, d)[j] = q[j]
  BY <1>1
<1>3. IsFiniteSet(P) /\ n + 1 \notin P /\ Cardinality(P) \in Nat
  <2>1. IsFiniteSet(P) /\ Rest(q, f, V, i) \in Nat
    BY PlacesFinite
  <2> QED
    BY <1>1, <2>1 DEF Places, Rest
<1>4. CASE d[f] \in V
  <2>1. P2 = P \cup {n + 1}
    BY <1>1, <1>2, <1>4 DEF Places
  <2>2. Cardinality(P2) = Cardinality(P) + 1
    BY <1>3, <2>1, FS_AddElement
  <2> QED
    BY <1>4, <2>2 DEF Rest, One
<1>5. CASE d[f] \notin V
  <2>1. P2 = P
    BY <1>1, <1>2, <1>5 DEF Places
  <2> QED
    BY <1>3, <1>5, <2>1 DEF Rest, One
<1> QED
  BY <1>4, <1>5

LEMMA RestOfTail ==
  ASSUME NEW S, NEW q \in Seq(S), q # <<>>, NEW f, NEW V, NEW i \in Nat \ {0}
  PROVE  Rest(Tail(q), f, V, i) = Rest(q, f, V, i + 1)
<1> DEFINE P == Places(Tail(q), f, V, i)
           R == Places(q, f, V, i + 1)
<1>1. /\ Tail(q) \in Seq(S) /\ Len(Tail(q)) = Len(q) - 1
      /\ \A j \in 1 .. Len(q) - 1 : Tail(q)[j] = q[j + 1]
  OBVIOUS
<1>2. IsFiniteSet(P) /\ IsFiniteSet(R)
  <2>1. i + 1 \in Nat \ {0}
    OBVIOUS
  <2> QED
    BY <1>1, <2>1, PlacesFinite
<1>3. \A j \in P : j \in Nat /\ j + 1 \in R
  BY <1>1 DEF Places
<1>4. \A j \in R : j - 1 \in P /\ (j - 1) + 1 = j
  BY <1>1 DEF Places
<1>5. Cardinality(P) = Cardinality(R)
  <2> DEFINE g == [j \in P |-> j + 1]
  <2> HIDE DEF P, R
  <2>1. g \in [P -> R]
    BY <1>3
  <2>2. \A a, b \in P : g[a] = g[b] => a = b
    BY <1>3
  <2>3. \A j \in R : \E k \in P : g[k] = j
    BY <1>4
  <2>4. g \in Bijection(P, R)
    BY <2>1, <2>2, <2>3 DEF Bijection, Injection, Surjection, IsInjective
  <2> QED
    BY <1>2, <2>4, FS_Bijection DEF ExistsBijection
<1> QED
  BY <1>5 DEF Rest

LEMMA NothingCounted ==
  ASSUME NEW f, NEW V
  PROVE  Count(<<>>, f, V) = 0
<1>1. Places(<<>>, f, V, 1) = {}
  BY DEF Places
<1> QED
  BY <1>1, FS_EmptySet DEF Count, Rest

LEMMA CountAppend ==
  ASSUME NEW S, NEW q \in Seq(S), NEW d, NEW f, NEW V
  PROVE  Count(Append(q, d), f, V) = Count(q, f, V) + One(d[f] \in V)
<1>1. 1 \in 1 .. Len(q) + 1
  OBVIOUS
<1> QED
  BY <1>1, RestAppended DEF Count

LEMMA CountTail ==
  ASSUME NEW S, NEW q \in Seq(S), q # <<>>, NEW f, NEW V
  PROVE  /\ Count(Tail(q), f, V) = Count(q, f, V) - One(Head(q)[f] \in V)
         /\ Head(q)[f] \in V => Count(q, f, V) > 0
<1>1. 1 \in 1 .. Len(q) /\ 2 \in Nat \ {0} /\ 1 \in Nat \ {0} /\ Head(q) = q[1]
  OBVIOUS
<1>2. Rest(q, f, V, 2) \in Nat
  BY <1>1, PlacesFinite
<1>3. Rest(q, f, V, 1) = Rest(q, f, V, 1 + 1) + One(q[1][f] \in V)
  BY <1>1, RestSteps
<1>4. Rest(Tail(q), f, V, 1) = Rest(q, f, V, 1 + 1)
  BY <1>1, RestOfTail
<1> QED
  BY <1>1, <1>2, <1>3, <1>4 DEF Count, One

LEMMA CountType ==
  ASSUME NEW S, NEW q \in Seq(S), NEW f, NEW V
  PROVE  Count(q, f, V) \in 0 .. Len(q)
<1>1. 1 \in Nat \ {0}
  OBVIOUS
<1> QED
  BY <1>1, PlacesFinite DEF Count

\* What the counts are taken of: the commands of each kind, the beats that are last.
WritesIn(q) == Count(q, "write", {TRUE})
ReadsIn(q) == Count(q, "write", {FALSE})
LastsIn(q) == Count(q, "last", {TRUE})

LEMMA CountsOfEmpty == WritesIn(<<>>) = 0 /\ ReadsIn(<<>>) = 0 /\ LastsIn(<<>>) = 0
BY NothingCounted DEF WritesIn, ReadsIn, LastsIn

LEMMA CountsTyped ==
  ASSUME NEW S, NEW q \in Seq(S)
  PROVE  /\ WritesIn(q) \in Nat /\ WritesIn(q) <= Len(q)
         /\ ReadsIn(q) \in Nat /\ ReadsIn(q) <= Len(q)
         /\ LastsIn(q) \in Nat /\ LastsIn(q) <= Len(q)
<1>1. /\ Count(q, "write", {TRUE}) \in 0 .. Len(q)
      /\ Count(q, "write", {FALSE}) \in 0 .. Len(q)
      /\ Count(q, "last", {TRUE}) \in 0 .. Len(q)
  BY CountType
<1>2. WritesIn(q) \in 0 .. Len(q) /\ ReadsIn(q) \in 0 .. Len(q) /\ LastsIn(q) \in 0 .. Len(q)
  BY <1>1 DEF WritesIn, ReadsIn, LastsIn
<1> QED
  BY <1>2

LEMMA CommandAppended ==
  ASSUME NEW S, NEW q \in Seq(S), NEW d, d.write \in BOOLEAN
  PROVE  /\ WritesIn(Append(q, d)) = WritesIn(q) + One(d.write)
         /\ ReadsIn(Append(q, d)) = ReadsIn(q) + One(~d.write)
<1>1. One(d["write"] \in {TRUE}) = One(d.write) /\ One(d["write"] \in {FALSE}) = One(~d.write)
  BY DEF One
<1>0. \A f, V : Count(Append(q, d), f, V) = Count(q, f, V) + One(d[f] \in V)
  BY CountAppend
<1>2. Count(Append(q, d), "write", {TRUE}) = Count(q, "write", {TRUE}) + One(d["write"] \in {TRUE})
  BY <1>0
<1>3. Count(Append(q, d), "write", {FALSE}) = Count(q, "write", {FALSE}) + One(d["write"] \in {FALSE})
  BY <1>0
<1> QED
  BY <1>1, <1>2, <1>3 DEF WritesIn, ReadsIn

LEMMA CommandTaken ==
  ASSUME NEW S, NEW q \in Seq(S), q # <<>>, Head(q).write \in BOOLEAN
  PROVE  /\ WritesIn(Tail(q)) = WritesIn(q) - One(Head(q).write)
         /\ ReadsIn(Tail(q)) = ReadsIn(q) - One(~Head(q).write)
<1>1. /\ One(Head(q)["write"] \in {TRUE}) = One(Head(q).write)
      /\ One(Head(q)["write"] \in {FALSE}) = One(~Head(q).write)
  BY DEF One
<1>2. Count(Tail(q), "write", {TRUE}) = Count(q, "write", {TRUE}) - One(Head(q)["write"] \in {TRUE})
  BY CountTail
<1>3. Count(Tail(q), "write", {FALSE}) = Count(q, "write", {FALSE}) - One(Head(q)["write"] \in {FALSE})
  BY CountTail
<1> QED
  BY <1>1, <1>2, <1>3 DEF WritesIn, ReadsIn

LEMMA BeatAppended ==
  ASSUME NEW S, NEW q \in Seq(S), NEW d, d.last \in BOOLEAN
  PROVE  LastsIn(Append(q, d)) = LastsIn(q) + One(d.last)
<1>1. One(d["last"] \in {TRUE}) = One(d.last)
  BY DEF One
<1>0. \A f, V : Count(Append(q, d), f, V) = Count(q, f, V) + One(d[f] \in V)
  BY CountAppend
<1>2. Count(Append(q, d), "last", {TRUE}) = Count(q, "last", {TRUE}) + One(d["last"] \in {TRUE})
  BY <1>0
<1> QED
  BY <1>1, <1>2 DEF LastsIn

LEMMA BeatTaken ==
  ASSUME NEW S, NEW q \in Seq(S), q # <<>>, Head(q).last \in BOOLEAN
  PROVE  /\ LastsIn(Tail(q)) = LastsIn(q) - One(Head(q).last)
         /\ Head(q).last => LastsIn(q) > 0
<1>1. One(Head(q)["last"] \in {TRUE}) = One(Head(q).last)
  BY DEF One
<1>2. /\ Count(Tail(q), "last", {TRUE}) = Count(q, "last", {TRUE}) - One(Head(q)["last"] \in {TRUE})
      /\ Head(q)["last"] \in {TRUE} => Count(q, "last", {TRUE}) > 0
  BY CountTail
<1>3. Head(q).last => Head(q)["last"] \in {TRUE}
  OBVIOUS
<1> QED
  BY <1>1, <1>2, <1>3 DEF LastsIn

\* A last beat that is the newest in the queue is counted.
LEMMA LastCounted ==
  ASSUME NEW S, NEW q \in Seq(S), q # <<>>, q[Len(q)].last = TRUE
  PROVE  LastsIn(q) > 0
<1> DEFINE n == Len(q)
<1>1. n \in 1 .. Len(q) /\ n \in Nat \ {0} /\ 1 \in Nat \ {0} /\ n + 1 \in Nat \ {0}
  OBVIOUS
<1>2. Rest(q, "last", {TRUE}, n) = Rest(q, "last", {TRUE}, n + 1) + One(q[n]["last"] \in {TRUE})
  BY <1>1, RestSteps
<1>3. Rest(q, "last", {TRUE}, n + 1) \in Nat /\ Rest(q, "last", {TRUE}, 1) \in Nat
  BY <1>1, PlacesFinite
<1>4. Rest(q, "last", {TRUE}, n) <= Rest(q, "last", {TRUE}, 1)
  BY <1>1, RestFalls
<1>5. One(q[n]["last"] \in {TRUE}) = 1
  BY DEF One
<1>6. Rest(q, "last", {TRUE}, n) = Rest(q, "last", {TRUE}, n + 1) + 1
  BY <1>2, <1>5, Zenon
<1> HIDE DEF n
<1>7. Rest(q, "last", {TRUE}, 1) > 0
  BY <1>3, <1>4, <1>6
<1> QED
  BY <1>7 DEF LastsIn, Count

----------------------------------------------------------------------------
(* Every burst the master has addressed is somewhere: in the command queue, *)
(* on its way out of the APB side, or in an answer buffer.                  *)

Commands == WriteCommands \cup ReadCommands

QueuesTyped ==
  /\ cmdRam \in Seq(Commands \cup {Apb!ResetCmd}) /\ Len(cmdRam) = CmdDepth
  /\ openWrites \in Seq(WriteBursts) /\ openReads \in Seq(ReadCommands)
  /\ \A i \in 1 .. Len(readQueue) : readQueue[i].last \in BOOLEAN
  /\ dlydResp \in BOOLEAN

Accounted ==
  /\ Len(openWrites) = One(awvalid) + WritesIn(cmdQueue) + Master!RespPending
                         + Len(respQueue)
  /\ Len(openReads) = One(arvalid) + ReadsIn(cmdQueue) + Master!ReadPending
                         + LastsIn(readQueue)

\* A beat that is not the last one is followed by others.
LastComes ==
  (readQueue # <<>> /\ ~readQueue[Len(readQueue)].last) =>
    Master!ReadPending = 1 \/ (state # "IDLE" /\ ~CmdOut.write)

TrafficInv ==
  /\ BridgeInv /\ ArbProofs!ArbInv
  /\ QueuesTyped /\ Master!CmdInHand /\ Master!LastFlagged /\ Accounted /\ LastComes

\* What the invariants say of the arbiter and its queue.
LEMMA ArbFacts ==
  ASSUME ArbProofs!ArbInv
  PROVE  /\ aw \in WriteCommands /\ ar \in ReadCommands
         /\ awvalid \in BOOLEAN /\ arvalid \in BOOLEAN
         /\ cmdQueue \in Seq(Commands)
         /\ Arb!awready => awvalid /\ ~Arb!arready /\ cmdHeld # CmdDepth
         /\ Arb!arready => arvalid /\ ~Arb!awready /\ cmdHeld # CmdDepth
BY DepthsAssumption
DEF ArbProofs!ArbInv, ArbProofs!TypeOK, ArbProofs!CmdQueue!FlagsSafe, ArbProofs!Promise,
    Arb!awready, Arb!arready, Commands

LEMMA KindOfCommand ==
  /\ \A c \in WriteCommands : c.write = TRUE
  /\ \A c \in ReadCommands : c.write = FALSE
  /\ \A c \in Commands \cup {Apb!ResetCmd} : c.write \in BOOLEAN
<1>1. \A c \in Commands : c.write \in BOOLEAN
  <2> SUFFICES ASSUME NEW c \in Commands PROVE c.write \in BOOLEAN
    OBVIOUS
  <2>1. c \in [write: BOOLEAN, burst: {FIXED, INCR, WRAP, RESERVED}, size: {0, 1, 2},
               len: 0 .. 2 ^ LenWidth - 1, id: Nat, addr: 0 .. AddrSpace - 1]
    BY BurstsAssumption DEF Commands
  <2> QED
    BY <2>1
<1>2. \A c \in WriteCommands : c.write
  BY BurstsAssumption DEF WriteCommands
<1>3. \A c \in ReadCommands : ~c.write
  BY BurstsAssumption
<1>4. Apb!ResetCmd.write = FALSE
  BY DEF Apb!ResetCmd
<1>5. WriteCommands \subseteq Commands /\ ReadCommands \subseteq Commands
  BY DEF Commands
<1>6. \A c \in WriteCommands : c.write = TRUE
  BY <1>1, <1>2, <1>5
<1>7. \A c \in ReadCommands : c.write = FALSE
  BY <1>1, <1>3, <1>5
<1> QED
  BY <1>1, <1>4, <1>6, <1>7

\* The output of the command queue is a command, there or left behind.
LEMMA OutTyped ==
  ASSUME NEW q \in Seq(Commands), NEW ram \in Seq(Commands \cup {Apb!ResetCmd}),
         Len(ram) = CmdDepth
  PROVE  (IF q = <<>> THEN Head(ram) ELSE Head(q)).write \in BOOLEAN
<1>1. CASE q = <<>>
  <2>1. ram # <<>>
    BY DepthsAssumption
  <2> QED
    BY <1>1, <2>1, KindOfCommand
<1>2. CASE q # <<>>
  BY <1>2, KindOfCommand
<1> QED
  BY <1>1, <1>2

LEMMA CmdOutTyped ==
  ASSUME cmdQueue \in Seq(Commands), QueuesTyped
  PROVE  CmdOut.write \in BOOLEAN
BY OutTyped DEF CmdOut, QueuesTyped

LEMMA AppendTyped ==
  ASSUME NEW S, NEW q \in Seq(S), NEW d, \A i \in 1 .. Len(q) : q[i].last \in BOOLEAN,
         d.last \in BOOLEAN
  PROVE  /\ \A i \in 1 .. Len(Append(q, d)) : Append(q, d)[i].last \in BOOLEAN
         /\ Append(q, d) # <<>> /\ Append(q, d)[Len(Append(q, d))] = d
BY SeqMonotone

LEMMA TailTyped ==
  ASSUME NEW S, NEW q \in Seq(S), q # <<>>, \A i \in 1 .. Len(q) : q[i].last \in BOOLEAN
  PROVE  /\ \A i \in 1 .. Len(Tail(q)) : Tail(q)[i].last \in BOOLEAN
         /\ Tail(q) # <<>> => Tail(q)[Len(Tail(q))] = q[Len(q)]
         /\ Head(q).last \in BOOLEAN
OBVIOUS

LEMMA TrafficInit == Init => TrafficInv
<1> SUFFICES ASSUME Init PROVE TrafficInv
  OBVIOUS
<1>1. BridgeInv
  BY BridgeInit
<1>2. ArbProofs!ArbInv
  <2>1. ArbProofs!Init
    BY DEF Init, Arb!Init, ArbProofs!Init, Arb!CmdQueue!Init, ArbProofs!CmdQueue!Init
  <2>2. CmdDepth \in Nat \ {0}
    BY DepthsAssumption
  <2> QED
    BY <2>1, <2>2, ArbProofs!ArbInvInit
<1>3. /\ cmdQueue = <<>> /\ respQueue = <<>> /\ readQueue = <<>>
      /\ openWrites = <<>> /\ openReads = <<>> /\ awvalid = FALSE /\ arvalid = FALSE
  BY DEF Init, Arb!Init, Arb!CmdQueue!Init, RespQueue!Init, ReadQueue!Init
<1>4. /\ state = "IDLE" /\ dlydResp = FALSE /\ pushReadReg = FALSE /\ lastPushRead = FALSE
      /\ cmdSeen = 0
  BY DEF Init, Apb!Reset, Arb!Init, Arb!CmdQueue!Init
<1>5. QueuesTyped
  <2>1. cmdRam = [i \in 1 .. CmdDepth |-> Apb!ResetCmd] /\ CmdDepth \in Nat
    BY DepthsAssumption DEF Init
  <2>2. cmdRam \in Seq(Commands \cup {Apb!ResetCmd}) /\ Len(cmdRam) = CmdDepth
    BY <2>1
  <2>3. <<>> \in Seq(WriteBursts) /\ <<>> \in Seq(ReadCommands) /\ Len(<<>>) = 0
    OBVIOUS
  <2>4. 1 .. Len(readQueue) = {}
    BY <1>3, <2>3
  <2>5. openWrites \in Seq(WriteBursts) /\ openReads \in Seq(ReadCommands) /\ dlydResp \in BOOLEAN
    BY <1>3, <1>4, <2>3
  <2> QED
    BY <2>2, <2>4, <2>5 DEF QueuesTyped
<1>6. Master!CmdInHand
  BY <1>3, <1>4, <1>5, CmdOutTyped
  DEF Master!CmdInHand, Master!States, Master!ReadStates, Master!WriteStates, CmdQueue!PopEmpty
<1>7. Master!LastFlagged
  BY <1>4 DEF Master!LastFlagged
<1>8. Accounted /\ LastComes
  <2>1. WritesIn(cmdQueue) = 0 /\ ReadsIn(cmdQueue) = 0 /\ LastsIn(readQueue) = 0
    BY <1>3, CountsOfEmpty
  <2>2. Master!RespPending = 0 /\ Master!ReadPending = 0 /\ One(awvalid) = 0 /\ One(arvalid) = 0
    BY <1>3, <1>4 DEF Master!RespPending, Master!ReadPending, One
  <2>3. Len(openWrites) = 0 /\ Len(openReads) = 0 /\ Len(respQueue) = 0
    BY <1>3
  <2>4. Accounted
    BY <2>1, <2>2, <2>3 DEF Accounted
  <2> QED
    BY <1>3, <2>4 DEF LastComes
<1> QED
  BY <1>1, <1>2, <1>5, <1>6, <1>7, <1>8 DEF TrafficInv

\* An edge of aclk: what enters the command queue and what leaves the answer buffers.
LEMMA AclkMoves ==
  ASSUME TrafficInv, NEW w \in BOOLEAN, NEW b \in BOOLEAN, NEW r \in BOOLEAN,
         AclkWith(w, b, r)
  PROVE  /\ UNCHANGED <<registers, aw, ar>>
         /\ cmdQueue' = IF Arb!awready THEN Append(cmdQueue, aw)
                        ELSE IF Arb!arready THEN Append(cmdQueue, ar) ELSE cmdQueue
         /\ cmdSeen' = cmdSeen
         /\ awvalid' = (awvalid /\ ~Arb!awready) /\ arvalid' = (arvalid /\ ~Arb!arready)
         /\ respQueue' = IF b THEN Tail(respQueue) ELSE respQueue
         /\ readQueue' = IF r THEN Tail(readQueue) ELSE readQueue
         /\ b => respQueue # <<>>
         /\ r => readQueue # <<>>
         /\ openWrites' = IF b THEN Tail(openWrites) ELSE openWrites
         /\ openReads' = IF r /\ Head(readQueue).last THEN Tail(openReads) ELSE openReads
<1>1. Arb!Aclk /\ UNCHANGED <<registers, prdata>>
  BY DEF AclkWith
<1>2. /\ Arb!awready => awvalid /\ ~Arb!arready /\ cmdHeld # CmdDepth
      /\ Arb!arready => arvalid /\ ~Arb!awready /\ cmdHeld # CmdDepth
  BY ArbFacts DEF TrafficInv
<1>3. /\ cmdQueue' = IF Arb!awready THEN Append(cmdQueue, aw)
                     ELSE IF Arb!arready THEN Append(cmdQueue, ar) ELSE cmdQueue
      /\ cmdSeen' = cmdSeen
  BY <1>1, <1>2 DEF Arb!Aclk, Arb!PushCmd, Arb!CmdQueue!PushEdge, Arb!CmdQueue!PushFull
<1>4. /\ awvalid' = (awvalid /\ ~Arb!awready) /\ arvalid' = (arvalid /\ ~Arb!arready)
      /\ UNCHANGED <<aw, ar>>
  BY <1>1 DEF Arb!Aclk
<1>5. b => bvalid /\ respQueue # <<>>
  BY DEF AclkWith, bvalid, RespQueue!PopEmpty, TrafficInv, BridgeInv, QueuesSafe, Bracketed
<1>6. r => rvalid /\ readQueue # <<>>
  BY DEF AclkWith, rvalid, ReadQueue!PopEmpty, TrafficInv, BridgeInv, QueuesSafe, Bracketed
<1>7. respQueue' = IF b THEN Tail(respQueue) ELSE respQueue
  BY <1>5 DEF AclkWith, RespQueue!PopEdge, bvalid
<1>8. readQueue' = IF r THEN Tail(readQueue) ELSE readQueue
  BY <1>6 DEF AclkWith, ReadQueue!PopEdge, rvalid
<1>9. /\ openWrites' = IF b THEN Tail(openWrites) ELSE openWrites
      /\ openReads' = IF r /\ Head(readQueue).last THEN Tail(openReads) ELSE openReads
  BY DEF AclkWith
<1> QED
  BY <1>1, <1>3, <1>4, <1>5, <1>6, <1>7, <1>8, <1>9

\* The command at the output of the queue stays there while it is in hand.
LEMMA CmdOutStays ==
  ASSUME TrafficInv, cmdQueue' = cmdQueue \/ \E c : cmdQueue' = Append(cmdQueue, c),
         cmdSeen # 0
  PROVE  CmdOut' = CmdOut
<1>1. cmdQueue \in Seq(Commands)
  BY ArbFacts DEF TrafficInv
<1>2. cmdQueue # <<>>
  BY <1>1 DEF TrafficInv, BridgeInv, QueuesSafe, Bracketed
<1>3. CASE cmdQueue' = cmdQueue
  BY <1>2, <1>3 DEF CmdOut
<1>4. ASSUME NEW c, cmdQueue' = Append(cmdQueue, c) PROVE CmdOut' = CmdOut
  <2>1. cmdQueue \in Seq(Commands \cup {c})
    BY <1>1, SeqMonotone
  <2>2. cmdQueue' # <<>> /\ Head(cmdQueue') = Head(cmdQueue)
    BY <1>2, <1>4, <2>1
  <2> QED
    BY <1>2, <2>2 DEF CmdOut
<1> QED
  BY <1>3, <1>4

\* Each burst that is fully answered in an edge of aclk is one the master waits for.
LEMMA AclkAnswers ==
  ASSUME TrafficInv, NEW w \in BOOLEAN, NEW b \in BOOLEAN, NEW r \in BOOLEAN,
         AclkWith(w, b, r)
  PROVE  /\ One(awvalid') = One(awvalid) - One(Arb!awready)
         /\ One(arvalid') = One(arvalid) - One(Arb!arready)
         /\ Len(openWrites') = Len(openWrites) - One(b) /\ Len(openWrites) \in Nat
         /\ Len(respQueue') = Len(respQueue) - One(b) /\ Len(respQueue) \in Nat
         /\ openWrites' \in Seq(WriteBursts)
         /\ Len(openReads') = Len(openReads) - One(ReadAnswered(r)) /\ Len(openReads) \in Nat
         /\ LastsIn(readQueue') = LastsIn(readQueue) - One(ReadAnswered(r))
         /\ LastsIn(readQueue) \in Nat
         /\ openReads' \in Seq(ReadCommands)
<1> DEFINE last == r /\ Head(readQueue).last
<1>1. /\ UNCHANGED <<registers, aw, ar>>
      /\ cmdQueue' = IF Arb!awready THEN Append(cmdQueue, aw)
                     ELSE IF Arb!arready THEN Append(cmdQueue, ar) ELSE cmdQueue
      /\ cmdSeen' = cmdSeen
      /\ awvalid' = (awvalid /\ ~Arb!awready) /\ arvalid' = (arvalid /\ ~Arb!arready)
      /\ respQueue' = IF b THEN Tail(respQueue) ELSE respQueue
      /\ readQueue' = IF r THEN Tail(readQueue) ELSE readQueue
      /\ b => respQueue # <<>>
      /\ r => readQueue # <<>>
      /\ openWrites' = IF b THEN Tail(openWrites) ELSE openWrites
      /\ openReads' = IF last THEN Tail(openReads) ELSE openReads
  BY AclkMoves
<1>2. /\ aw \in WriteCommands /\ ar \in ReadCommands
      /\ awvalid \in BOOLEAN /\ arvalid \in BOOLEAN
      /\ cmdQueue \in Seq(Commands)
      /\ Arb!awready => awvalid /\ ~Arb!arready
      /\ Arb!arready => arvalid /\ ~Arb!awready
  BY ArbFacts DEF TrafficInv
<1>4. \E S : respQueue \in Seq(S)
  BY DEF TrafficInv, BridgeInv, QueuesSafe, Bracketed
<1>5. PICK S : readQueue \in Seq(S)
  BY DEF TrafficInv, BridgeInv, QueuesSafe, Bracketed
<1>6. /\ openWrites \in Seq(WriteBursts) /\ openReads \in Seq(ReadCommands)
      /\ \A i \in 1 .. Len(readQueue) : readQueue[i].last \in BOOLEAN
  BY DEF TrafficInv, QueuesTyped
<1>7. Master!RespPending \in {0, 1} /\ Master!ReadPending \in {0, 1}
  BY DEF Master!RespPending, Master!ReadPending
<1>8. LastsIn(readQueue') = LastsIn(readQueue) - One(last)
      /\ (last => LastsIn(readQueue) > 0) /\ last \in BOOLEAN
  <2>1. CASE r
    <3>1. Head(readQueue).last \in BOOLEAN
      BY <1>1, <1>5, <1>6, <2>1, TailTyped
    <3>2. /\ LastsIn(Tail(readQueue)) = LastsIn(readQueue) - One(Head(readQueue).last)
          /\ Head(readQueue).last => LastsIn(readQueue) > 0
      BY <1>1, <1>5, <2>1, <3>1, BeatTaken
    <3> QED
      BY <1>1, <2>1, <3>1, <3>2 DEF One
  <2>2. CASE ~r
    <3>1. LastsIn(readQueue) \in Nat
      BY <1>5, CountsTyped
    <3> QED
      BY <1>1, <2>2, <3>1 DEF One
  <2> QED
    BY <2>1, <2>2
<1>9. LastsIn(readQueue) \in Nat
  BY <1>5, CountsTyped
<1>10. /\ WritesIn(cmdQueue) \in Nat /\ ReadsIn(cmdQueue) \in Nat /\ LastsIn(readQueue) \in Nat
       /\ One(awvalid') = One(awvalid) - One(Arb!awready)
       /\ One(arvalid') = One(arvalid) - One(Arb!arready)
       /\ One(awvalid) \in {0, 1} /\ One(Arb!awready) \in {0, 1}
       /\ One(arvalid) \in {0, 1} /\ One(Arb!arready) \in {0, 1} /\ One(last) \in {0, 1}
  <2>1. WritesIn(cmdQueue) \in Nat /\ ReadsIn(cmdQueue) \in Nat /\ LastsIn(readQueue) \in Nat
    BY <1>2, <1>5, CountsTyped
  <2>2. Arb!awready \in BOOLEAN /\ Arb!arready \in BOOLEAN
    BY DEF Arb!awready, Arb!arready
  <2>3. One(awvalid') = One(awvalid) - One(Arb!awready)
    BY <1>1, <1>2, <2>2 DEF One
  <2>4. One(arvalid') = One(arvalid) - One(Arb!arready)
    BY <1>1, <1>2, <2>2 DEF One
  <2>5. \A p \in BOOLEAN : One(p) \in {0, 1}
    BY DEF One
  <2> QED
    BY <1>2, <1>8, <2>1, <2>2, <2>3, <2>4, <2>5
<1>0. /\ Len(openWrites) = One(awvalid) + WritesIn(cmdQueue) + Master!RespPending + Len(respQueue)
      /\ Len(openReads) = One(arvalid) + ReadsIn(cmdQueue) + Master!ReadPending + LastsIn(readQueue)
  BY DEF TrafficInv, Accounted
<1> HIDE DEF last
<1>11. /\ Len(openWrites') = Len(openWrites) - One(b) /\ Len(respQueue') = Len(respQueue) - One(b)
       /\ openWrites' \in Seq(WriteBursts) /\ Len(openWrites) \in Nat /\ Len(respQueue) \in Nat
  <2>1. CASE b
    <3>1. /\ Len(respQueue) > 0 /\ Len(respQueue) \in Nat
          /\ Len(Tail(respQueue)) = Len(respQueue) - 1
      BY <1>1, <1>4, <2>1
    <3>2. Len(openWrites) > 0
      <4>1. One(awvalid) \in {0, 1} /\ Master!RespPending \in {0, 1} /\ WritesIn(cmdQueue) \in Nat
        BY <1>7, <1>10
      <4> QED
        BY <1>0, <3>1, <4>1
    <3>3. openWrites # <<>>
      BY <3>2
    <3> QED
      BY <1>1, <1>6, <2>1, <3>1, <3>3 DEF One
  <2>2. CASE ~b
    BY <1>1, <1>4, <1>6, <2>2 DEF One
  <2> QED
    BY <2>1, <2>2
<1>12. /\ Len(openReads') = Len(openReads) - One(last) /\ openReads' \in Seq(ReadCommands)
       /\ Len(openReads) \in Nat
  <2>1. CASE last
    <3>1. Len(openReads) > 0
      BY <1>0, <1>7, <1>8, <1>10, <2>1 DEF One
    <3>2. openReads # <<>>
      BY <3>1
    <3> QED
      BY <1>1, <1>6, <2>1, <3>2 DEF One
  <2>2. CASE ~last
    BY <1>1, <1>6, <2>2 DEF One
  <2> QED
    BY <1>8, <2>1, <2>2
<1> QED
  BY <1>8, <1>9, <1>10, <1>11, <1>12 DEF last, ReadAnswered

LEMMA AclkKeepsTraffic ==
  ASSUME TrafficInv, BridgeInv', ArbProofs!ArbInv', Aclk
  PROVE  TrafficInv'
<1> PICK w \in BOOLEAN, b \in BOOLEAN, r \in BOOLEAN : AclkWith(w, b, r)
  BY DEF Aclk
<1>1. /\ UNCHANGED <<registers, aw, ar>>
      /\ cmdQueue' = IF Arb!awready THEN Append(cmdQueue, aw)
                     ELSE IF Arb!arready THEN Append(cmdQueue, ar) ELSE cmdQueue
      /\ cmdSeen' = cmdSeen
      /\ awvalid' = (awvalid /\ ~Arb!awready) /\ arvalid' = (arvalid /\ ~Arb!arready)
      /\ respQueue' = IF b THEN Tail(respQueue) ELSE respQueue
      /\ readQueue' = IF r THEN Tail(readQueue) ELSE readQueue
      /\ b => respQueue # <<>>
      /\ r => readQueue # <<>>
      /\ openWrites' = IF b THEN Tail(openWrites) ELSE openWrites
      /\ openReads' = IF ReadAnswered(r) THEN Tail(openReads) ELSE openReads
  BY AclkMoves DEF ReadAnswered
<1>2. /\ aw \in WriteCommands /\ ar \in ReadCommands
      /\ awvalid \in BOOLEAN /\ arvalid \in BOOLEAN
      /\ cmdQueue \in Seq(Commands)
      /\ Arb!awready => awvalid /\ ~Arb!arready
      /\ Arb!arready => arvalid /\ ~Arb!awready
  BY ArbFacts DEF TrafficInv
<1>3. cmdQueue' \in Seq(Commands)
  BY <1>1, <1>2 DEF Commands
<1>4. \E S : respQueue \in Seq(S)
  BY DEF TrafficInv, BridgeInv, QueuesSafe, Bracketed
<1>5. PICK S : readQueue \in Seq(S)
  BY DEF TrafficInv, BridgeInv, QueuesSafe, Bracketed
<1>6. /\ openWrites \in Seq(WriteBursts) /\ openReads \in Seq(ReadCommands)
      /\ \A i \in 1 .. Len(readQueue) : readQueue[i].last \in BOOLEAN
  BY DEF TrafficInv, QueuesTyped
<1>7. UNCHANGED <<Master!RespPending, Master!ReadPending>>
      /\ Master!RespPending \in {0, 1} /\ Master!ReadPending \in {0, 1}
  BY <1>1 DEF registers, Master!RespPending, Master!ReadPending
<1>8. /\ One(awvalid') = One(awvalid) - One(Arb!awready)
      /\ One(arvalid') = One(arvalid) - One(Arb!arready)
      /\ Len(openWrites') = Len(openWrites) - One(b)
      /\ Len(respQueue') = Len(respQueue) - One(b) /\ Len(respQueue) \in Nat
      /\ Len(openReads') = Len(openReads) - One(ReadAnswered(r))
      /\ LastsIn(readQueue') = LastsIn(readQueue) - One(ReadAnswered(r))
      /\ LastsIn(readQueue) \in Nat
      /\ openWrites' \in Seq(WriteBursts) /\ openReads' \in Seq(ReadCommands)
  BY AclkAnswers
<1>9. /\ WritesIn(cmdQueue') = WritesIn(cmdQueue) + One(Arb!awready)
      /\ ReadsIn(cmdQueue') = ReadsIn(cmdQueue) + One(Arb!arready)
      /\ WritesIn(cmdQueue) \in Nat /\ ReadsIn(cmdQueue) \in Nat
  <2>1. /\ aw.write = TRUE /\ ar.write = FALSE
        /\ aw.write \in BOOLEAN /\ ar.write \in BOOLEAN
    BY <1>2, KindOfCommand DEF Commands
  <2>2. WritesIn(cmdQueue) \in Nat /\ ReadsIn(cmdQueue) \in Nat
    BY <1>2, CountsTyped
  <2>3. CASE Arb!awready
    <3>1. cmdQueue' = Append(cmdQueue, aw) /\ ~Arb!arready
      BY <1>1, <1>2, <2>3
    <3>2. WritesIn(cmdQueue') = WritesIn(cmdQueue) + One(aw.write)
          /\ ReadsIn(cmdQueue') = ReadsIn(cmdQueue) + One(~aw.write)
      BY <1>2, <2>1, <3>1, CommandAppended
    <3> QED
      BY <2>1, <2>2, <2>3, <3>1, <3>2 DEF One
  <2>4. CASE Arb!arready
    <3>1. cmdQueue' = Append(cmdQueue, ar) /\ ~Arb!awready
      BY <1>1, <1>2, <2>4
    <3>2. WritesIn(cmdQueue') = WritesIn(cmdQueue) + One(ar.write)
          /\ ReadsIn(cmdQueue') = ReadsIn(cmdQueue) + One(~ar.write)
      BY <1>2, <2>1, <3>1, CommandAppended
    <3> QED
      BY <2>1, <2>2, <2>4, <3>1, <3>2 DEF One
  <2>5. CASE ~Arb!awready /\ ~Arb!arready
    BY <1>1, <2>2, <2>5 DEF One
  <2> QED
    BY <2>2, <2>3, <2>4, <2>5
<1>10. /\ Len(openWrites) = One(awvalid) + WritesIn(cmdQueue) + Master!RespPending + Len(respQueue)
      /\ Len(openReads) = One(arvalid) + ReadsIn(cmdQueue) + Master!ReadPending + LastsIn(readQueue)
  BY DEF TrafficInv, Accounted
<1>11. Accounted'
  <2>1. Len(openWrites') = One(awvalid') + WritesIn(cmdQueue') + Master!RespPending'
                             + Len(respQueue')
    <3> DEFINE open == Len(openWrites)        answers == Len(respQueue)
               one == One(awvalid)            writes == WritesIn(cmdQueue)
               pending == Master!RespPending  taken == One(b)
               granted == One(Arb!awready)
    <3>1. /\ one \in Int /\ writes \in Int /\ pending \in Int /\ answers \in Int
          /\ taken \in Int /\ granted \in Int
      BY <1>7, <1>8, <1>9 DEF One
    <3>2. open = one + writes + pending + answers
      BY <1>10
    <3>3. /\ Len(openWrites') = open - taken /\ One(awvalid') = one - granted
          /\ WritesIn(cmdQueue') = writes + granted /\ Master!RespPending' = pending
          /\ Len(respQueue') = answers - taken
      BY <1>7, <1>8, <1>9
    <3> HIDE DEF open, answers, one, writes, pending, taken, granted
    <3> QED
      BY <3>1, <3>2, <3>3
  <2>2. Len(openReads') = One(arvalid') + ReadsIn(cmdQueue') + Master!ReadPending'
                            + LastsIn(readQueue')
    <3> DEFINE open == Len(openReads)         answers == LastsIn(readQueue)
               one == One(arvalid)            reads == ReadsIn(cmdQueue)
               pending == Master!ReadPending  taken == One(ReadAnswered(r))
               granted == One(Arb!arready)
    <3>1. /\ one \in Int /\ reads \in Int /\ pending \in Int /\ answers \in Int
          /\ taken \in Int /\ granted \in Int
      BY <1>7, <1>8, <1>9 DEF One
    <3>2. open = one + reads + pending + answers
      BY <1>10
    <3>3. /\ Len(openReads') = open - taken /\ One(arvalid') = one - granted
          /\ ReadsIn(cmdQueue') = reads + granted /\ Master!ReadPending' = pending
          /\ LastsIn(readQueue') = answers - taken
      BY <1>7, <1>8, <1>9
    <3> HIDE DEF open, answers, one, reads, pending, taken, granted
    <3> QED
      BY <3>1, <3>2, <3>3
  <2> QED
    BY <2>1, <2>2 DEF Accounted
<1>12. state # "IDLE" => CmdOut' = CmdOut /\ cmdSeen # 0
  <2>1. state # "IDLE" => cmdSeen # 0
    BY DEF TrafficInv, Master!CmdInHand, CmdQueue!PopEmpty
  <2>2. cmdQueue' = cmdQueue \/ \E c : cmdQueue' = Append(cmdQueue, c)
    BY <1>1
  <2> QED
    BY <2>1, <2>2, CmdOutStays
<1>13. cmdRam' \in Seq(Commands \cup {Apb!ResetCmd}) /\ Len(cmdRam') = CmdDepth
  <2>1. /\ cmdRam \in Seq(Commands \cup {Apb!ResetCmd}) /\ Len(cmdRam) = CmdDepth
        /\ CmdDepth \in Nat \ {0}
    BY DepthsAssumption DEF TrafficInv, QueuesTyped
  <2>2. cmdRam' = cmdRam \/ (\E c \in Commands : cmdRam' = Append(Tail(cmdRam), c))
    BY <1>2 DEF AclkWith, Commands
  <2>3. ASSUME NEW c \in Commands, cmdRam' = Append(Tail(cmdRam), c)
        PROVE  cmdRam' \in Seq(Commands \cup {Apb!ResetCmd}) /\ Len(cmdRam') = CmdDepth
    <3>1. cmdRam # <<>>
      BY <2>1
    <3>2. Tail(cmdRam) \in Seq(Commands \cup {Apb!ResetCmd}) /\ Len(Tail(cmdRam)) = CmdDepth - 1
      BY <2>1, <3>1
    <3> QED
      BY <2>1, <2>3, <3>2
  <2> QED
    BY <2>1, <2>2, <2>3
<1>14. QueuesTyped'
  <2>1. \A i \in 1 .. Len(readQueue') : readQueue'[i].last \in BOOLEAN
    BY <1>1, <1>5, <1>6, TailTyped
  <2>2. dlydResp' \in BOOLEAN
    BY <1>1 DEF TrafficInv, QueuesTyped, registers
  <2> QED
    BY <1>8, <1>13, <2>1, <2>2 DEF QueuesTyped
<1>15. CmdOut'.write \in BOOLEAN
  BY <1>3, <1>13, OutTyped DEF CmdOut
<1>16. Master!CmdInHand'
  <2>1. state' = state /\ CmdQueue!PopEmpty' = CmdQueue!PopEmpty
    BY <1>1 DEF registers, CmdQueue!PopEmpty
  <2> QED
    BY <1>12, <1>15, <2>1
    DEF TrafficInv, Master!CmdInHand, Master!ReadStates, Master!WriteStates, Master!States
<1>17. Master!LastFlagged'
  <2>1. UNCHANGED <<state, pushReadReg, lastPushRead, beat>>
    BY <1>1 DEF registers
  <2> QED
    BY <1>12, <2>1 DEF TrafficInv, Master!LastFlagged
<1>18. LastComes'
  <2> SUFFICES ASSUME readQueue' # <<>>, ~readQueue'[Len(readQueue')].last
               PROVE  Master!ReadPending' = 1 \/ (state' # "IDLE" /\ ~CmdOut'.write)
    BY DEF LastComes
  <2>1. readQueue # <<>> /\ readQueue'[Len(readQueue')] = readQueue[Len(readQueue)]
    BY <1>1, <1>5, <1>6, TailTyped
  <2>2. state' = state
    BY <1>1 DEF registers
  <2> QED
    BY <1>7, <1>12, <2>1, <2>2 DEF TrafficInv, LastComes<1> QED
  BY <1>11, <1>14, <1>16, <1>17, <1>18 DEF TrafficInv

\* The two instances of ApbMaster agree on the pops, the pushes and the state.
LEMMA SameMoves ==
  /\ Apb!PopCmdQueue = Master!PopCmdQueue
  /\ Apb!PushReadBuffer = Master!PushReadBuffer
  /\ Apb!PushResponse = Master!PushResponse
BY DEF Apb!PopCmdQueue, Master!PopCmdQueue, Apb!PushRspRequest, Master!PushRspRequest,
       Apb!LastBeat, Master!LastBeat, Apb!PushReadBuffer, Master!PushReadBuffer,
       Apb!PushResponse, Master!PushResponse

\* An edge of pclk: what leaves the command queue and what enters the answer buffers.
LEMMA PclkMoves ==
  ASSUME TrafficInv, PclkEdge
  PROVE  /\ Master!Edge
         /\ Master!PopCmdQueue => cmdQueue # <<>> /\ CmdOut = Head(cmdQueue)
         /\ cmdQueue' = IF Master!PopCmdQueue THEN Tail(cmdQueue) ELSE cmdQueue
         /\ state' # "IDLE" => CmdOut' = CmdOut /\ ~CmdQueue!PopEmpty'
         /\ respQueue' = IF Master!PushResponse THEN Append(respQueue, Response)
                         ELSE respQueue
         /\ readQueue' = IF Master!PushReadBuffer THEN Append(readQueue, Beat)
                         ELSE readQueue
<1> USE DEF TrafficInv
<1>1. Master!Edge
  BY SameEdge DEF PclkEdge
<1>2. /\ cmdQueue' = IF Master!PopCmdQueue /\ cmdSeen # 0 THEN Tail(cmdQueue) ELSE cmdQueue
      /\ cmdSeen' \in (IF Master!PopCmdQueue /\ cmdSeen # 0 THEN cmdSeen - 1 ELSE cmdSeen)
                        .. Len(cmdQueue')
  BY SameMoves DEF PclkEdge, CmdQueue!PopEdge, CmdQueue!PopEmpty
<1>3. cmdSeen # 0 => cmdQueue # <<>> /\ CmdOut = Head(cmdQueue)
  <2>1. cmdSeen # 0 => cmdQueue # <<>>
    BY DEF BridgeInv, QueuesSafe, Bracketed
  <2> QED
    BY <2>1 DEF CmdOut
<1>4. Master!PopCmdQueue => cmdSeen # 0
  BY DEF Master!PopCmdQueue, Master!PushRspRequest, Master!CmdInHand, CmdQueue!PopEmpty
<1>5. ASSUME state' # "IDLE" PROVE CmdOut' = CmdOut /\ ~CmdQueue!PopEmpty'
  <2>1. ~Master!PopCmdQueue /\ cmdSeen # 0
    BY <1>1, <1>5, AddrSpaceAssumption, Master!Path DEF Master!CmdInHand, CmdQueue!PopEmpty
  <2>2. cmdQueue' = cmdQueue /\ cmdSeen' # 0
    <3>1. cmdSeen \in Nat /\ Len(cmdQueue) \in Nat
      BY DEF BridgeInv, QueuesSafe, Bracketed
    <3> QED
      BY <1>2, <2>1, <3>1
  <2> QED
    BY <1>3, <2>1, <2>2 DEF CmdOut, CmdQueue!PopEmpty
<1>6. respQueue' = IF Master!PushResponse THEN Append(respQueue, Response) ELSE respQueue
  BY SameMoves DEF PclkEdge, RespQueue!PushEdge, Master!PushResponse
<1>7. readQueue' = IF Master!PushReadBuffer THEN Append(readQueue, Beat) ELSE readQueue
  <2>1. Master!PushReadBuffer => ~ReadQueue!PushFull
    BY DEF BridgeInv, MasterInv, Master!PushReadBuffer
  <2> QED
    BY <2>1, SameMoves DEF PclkEdge, ReadQueue!PushEdge
<1> QED
  BY <1>1, <1>2, <1>3, <1>4, <1>5, <1>6, <1>7

LEMMA PclkKeepsTraffic ==
  ASSUME TrafficInv, BridgeInv', ArbProofs!ArbInv', PclkEdge
  PROVE  TrafficInv'
<1> DEFINE pop == Master!PopCmdQueue
           answered == Master!PushResponse
           push == Master!PushReadBuffer
           last == push /\ lastPushRead
           takenWrite == pop /\ CmdOut.write
           takenRead == pop /\ ~CmdOut.write
<1>1. /\ Master!Edge
      /\ pop => cmdQueue # <<>> /\ CmdOut = Head(cmdQueue)
      /\ cmdQueue' = IF pop THEN Tail(cmdQueue) ELSE cmdQueue
      /\ state' # "IDLE" => CmdOut' = CmdOut /\ ~CmdQueue!PopEmpty'
      /\ respQueue' = IF answered THEN Append(respQueue, Response) ELSE respQueue
      /\ readQueue' = IF push THEN Append(readQueue, Beat) ELSE readQueue
  BY PclkMoves
<1>2. /\ UNCHANGED <<openWrites, openReads, cmdRam, awvalid, arvalid>>
      /\ Master!CmdInHand /\ Master!LastFlagged /\ dlydResp \in BOOLEAN
      /\ dlydResp => state = "IDLE" /\ ~RespQueue!PushFull
  BY DEF PclkEdge, channels, TrafficInv, QueuesTyped, BridgeInv, MasterInv
<1>3. cmdQueue \in Seq(Commands)
  BY ArbFacts DEF TrafficInv
<1>4. PICK S : respQueue \in Seq(S)
  BY DEF TrafficInv, BridgeInv, QueuesSafe, Bracketed
<1>5. PICK T : readQueue \in Seq(T)
  BY DEF TrafficInv, BridgeInv, QueuesSafe, Bracketed
<1>6. \A i \in 1 .. Len(readQueue) : readQueue[i].last \in BOOLEAN
  BY DEF TrafficInv, QueuesTyped
<1>7. lastPushRead \in BOOLEAN /\ CmdOut.write \in BOOLEAN
  BY <1>2 DEF Master!LastFlagged, Master!CmdInHand
<1>8. Beat.last = lastPushRead
  BY DEF Beat
<1>9. /\ Master!ReadPending' = Master!ReadPending + One(takenRead) - One(last)
      /\ Master!RespPending' = Master!RespPending + One(takenWrite) - One(answered)
      /\ dlydResp' \in BOOLEAN
  BY <1>1, <1>2, AddrSpaceAssumption, Master!LastBeatFollowsPop, Master!ResponseFollowsPop
  DEF One
<1>10. cmdQueue' \in Seq(Commands)
  BY <1>1, <1>3
<1>11. QueuesTyped'
  <2>1. \A i \in 1 .. Len(readQueue') : readQueue'[i].last \in BOOLEAN
    <3>1. CASE push
      BY <1>1, <1>5, <1>6, <1>7, <1>8, <3>1, AppendTyped
    <3>2. CASE ~push
      BY <1>1, <1>6, <3>2
    <3> QED
      BY <3>1, <3>2
  <2> QED
    BY <1>2, <1>9, <2>1 DEF TrafficInv, QueuesTyped
<1>12. Master!CmdInHand'
  <2>1. CmdOut'.write \in BOOLEAN
    <3>1. cmdRam' \in Seq(Commands \cup {Apb!ResetCmd}) /\ Len(cmdRam') = CmdDepth
      BY <1>11 DEF QueuesTyped
    <3> QED
      BY <1>10, <3>1, OutTyped DEF CmdOut
  <2>2. (~CmdQueue!PopEmpty)' \in BOOLEAN
    BY DEF CmdQueue!PopEmpty
  <2> QED
    BY <1>1, <1>2, <2>1, <2>2, AddrSpaceAssumption, Master!EdgeKeepsCmdInHand
<1>13. Master!LastFlagged'
  BY <1>1, <1>2, AddrSpaceAssumption, Master!EdgeKeepsLastFlag
<1> HIDE DEF pop, answered, push, last, takenWrite, takenRead
<1>14. /\ WritesIn(cmdQueue') = WritesIn(cmdQueue) - One(takenWrite)
       /\ ReadsIn(cmdQueue') = ReadsIn(cmdQueue) - One(takenRead)
       /\ WritesIn(cmdQueue) \in Nat /\ ReadsIn(cmdQueue) \in Nat
  <2>1. WritesIn(cmdQueue) \in Nat /\ ReadsIn(cmdQueue) \in Nat
    BY <1>3, CountsTyped
  <2>2. CASE pop
    <3>1. /\ WritesIn(Tail(cmdQueue)) = WritesIn(cmdQueue) - One(Head(cmdQueue).write)
          /\ ReadsIn(Tail(cmdQueue)) = ReadsIn(cmdQueue) - One(~Head(cmdQueue).write)
      BY <1>1, <1>3, <1>7, <2>2, CommandTaken
    <3> QED
      BY <1>1, <2>1, <2>2, <3>1 DEF One, takenWrite, takenRead
  <2>3. CASE ~pop
    BY <1>1, <2>1, <2>3 DEF One, takenWrite, takenRead
  <2> QED
    BY <2>2, <2>3
<1>15. /\ LastsIn(readQueue') = LastsIn(readQueue) + One(last)
       /\ LastsIn(readQueue) \in Nat
  <2>1. LastsIn(readQueue) \in Nat
    BY <1>5, CountsTyped
  <2>2. CASE push
    <3>1. LastsIn(Append(readQueue, Beat)) = LastsIn(readQueue) + One(Beat.last)
      BY <1>5, <1>7, <1>8, BeatAppended
    <3> QED
      BY <1>1, <1>8, <2>1, <2>2, <3>1 DEF One, last
  <2>3. CASE ~push
    BY <1>1, <2>1, <2>3 DEF One, last
  <2> QED
    BY <2>2, <2>3
<1>16. Len(respQueue') = Len(respQueue) + One(answered) /\ Len(respQueue) \in Nat
  <2>1. CASE answered
    <3>1. respQueue \in Seq(S \cup {Response})
      BY <1>4, SeqMonotone
    <3> QED
      BY <1>1, <2>1, <3>1 DEF One
  <2>2. CASE ~answered
    BY <1>1, <1>4, <2>2 DEF One
  <2> QED
    BY <2>1, <2>2
<1>17. Accounted'
  <2>1. Len(openWrites') = One(awvalid') + WritesIn(cmdQueue') + Master!RespPending'
                             + Len(respQueue')
    <3> DEFINE one == One(awvalid)            writes == WritesIn(cmdQueue)
               pending == Master!RespPending  taken == One(takenWrite)
               given == One(answered)         answers == Len(respQueue)
    <3>1. /\ one \in Int /\ writes \in Int /\ pending \in Int /\ taken \in Int
          /\ given \in Int /\ answers \in Int
      BY <1>14, <1>16 DEF One, Master!RespPending
    <3>2. /\ Len(openWrites') = one + writes + pending + answers
          /\ One(awvalid') = one
      BY <1>2 DEF TrafficInv, Accounted
    <3>3. /\ WritesIn(cmdQueue') = writes - taken /\ Len(respQueue') = answers + given
          /\ Master!RespPending' = pending + taken - given
      BY <1>9, <1>14, <1>16
    <3> HIDE DEF one, writes, pending, taken, given, answers
    <3> QED
      BY <3>1, <3>2, <3>3
  <2>2. Len(openReads') = One(arvalid') + ReadsIn(cmdQueue') + Master!ReadPending'
                            + LastsIn(readQueue')
    <3> DEFINE one == One(arvalid)            reads == ReadsIn(cmdQueue)
               pending == Master!ReadPending  taken == One(takenRead)
               given == One(last)             answers == LastsIn(readQueue)
    <3>1. /\ one \in Int /\ reads \in Int /\ pending \in Int /\ taken \in Int
          /\ given \in Int /\ answers \in Int
      BY <1>14, <1>15 DEF One, Master!ReadPending
    <3>2. /\ Len(openReads') = one + reads + pending + answers
          /\ One(arvalid') = one
      BY <1>2 DEF TrafficInv, Accounted
    <3>3. /\ ReadsIn(cmdQueue') = reads - taken /\ LastsIn(readQueue') = answers + given
          /\ Master!ReadPending' = pending + taken - given
      BY <1>9, <1>14, <1>15
    <3> HIDE DEF one, reads, pending, taken, given, answers
    <3> QED
      BY <3>1, <3>2, <3>3
  <2> QED
    BY <2>1, <2>2 DEF Accounted
<1>18. LastComes'
  <2> SUFFICES ASSUME readQueue' # <<>>, ~readQueue'[Len(readQueue')].last
               PROVE  Master!ReadPending' = 1 \/ (state' # "IDLE" /\ ~CmdOut'.write)
    BY DEF LastComes
  <2>1. /\ push /\ ~lastPushRead => state # "IDLE" /\ state' # "IDLE" /\ ~CmdOut.write
        /\ state # "IDLE" /\ ~CmdOut.write /\ ~push /\ state' = "IDLE" =>
              Master!ReadPending' = 1
        /\ Master!ReadPending = 1 => push
    BY <1>1, <1>2, AddrSpaceAssumption, Master!ReadGoesOn DEF push
  <2>2. CASE push
    <3>1. readQueue'[Len(readQueue')] = Beat
      BY <1>1, <1>5, <1>6, <1>7, <1>8, <2>2, AppendTyped
    <3> QED
      BY <1>1, <1>8, <2>1, <2>2, <3>1
  <2>3. CASE ~push
    BY <1>1, <2>1, <2>3 DEF TrafficInv, LastComes
  <2> QED
    BY <2>2, <2>3
<1> QED
  BY <1>11, <1>12, <1>13, <1>17, <1>18 DEF TrafficInv

LEMMA SendsKeepTraffic ==
  ASSUME TrafficInv, BridgeInv', ArbProofs!ArbInv', SendWrite \/ SendRead \/ UNCHANGED vars
  PROVE  TrafficInv'
<1>1. /\ UNCHANGED <<cmdQueue, cmdSeen, cmdRam, respQueue, readQueue, registers>>
      /\ awvalid \in BOOLEAN /\ arvalid \in BOOLEAN
  BY ArbFacts
  DEF TrafficInv, SendWrite, SendRead, Arb!SendWrite, Arb!SendRead, Arb!queueVars, vars,
      queues, cmdVars, respVars, readVars
<1>2. \/ /\ UNCHANGED <<arvalid, openReads>> /\ ~awvalid /\ awvalid'
         /\ \E b \in WriteBursts : openWrites' = Append(openWrites, b)
      \/ /\ UNCHANGED <<awvalid, openWrites>> /\ ~arvalid /\ arvalid'
         /\ \E c \in ReadCommands : openReads' = Append(openReads, c)
      \/ UNCHANGED <<awvalid, arvalid, openWrites, openReads>>
  <2>1. CASE SendWrite
    BY <2>1 DEF SendWrite, Arb!SendWrite
  <2>2. CASE SendRead
    BY <2>2 DEF SendRead, Arb!SendRead
  <2>3. CASE UNCHANGED vars
    BY <2>3 DEF vars, channels, partners
  <2> QED
    BY <2>1, <2>2, <2>3
<1>3. /\ openWrites \in Seq(WriteBursts) /\ openReads \in Seq(ReadCommands)
  BY DEF TrafficInv, QueuesTyped
<1>4. QueuesTyped'
  <2>1. openWrites' \in Seq(WriteBursts) /\ openReads' \in Seq(ReadCommands)
    <3>1. ASSUME NEW b \in WriteBursts PROVE Append(openWrites, b) \in Seq(WriteBursts)
      BY <1>3
    <3>2. ASSUME NEW c \in ReadCommands PROVE Append(openReads, c) \in Seq(ReadCommands)
      BY <1>3
    <3> QED
      BY <1>2, <1>3, <3>1, <3>2
  <2>2. UNCHANGED <<cmdRam, readQueue, dlydResp>>
    BY <1>1 DEF registers
  <2> QED
    BY <2>1, <2>2 DEF TrafficInv, QueuesTyped
<1>5. CmdOut' = CmdOut /\ state' = state /\ CmdQueue!PopEmpty' = CmdQueue!PopEmpty
  BY <1>1 DEF CmdOut, CmdQueue!PopEmpty, registers
<1>6. Master!CmdInHand'
  BY <1>5
  DEF TrafficInv, Master!CmdInHand, Master!ReadStates, Master!WriteStates, Master!States
<1>7. Master!LastFlagged'
  BY <1>1, <1>5 DEF TrafficInv, Master!LastFlagged, registers
<1>8. UNCHANGED <<Master!ReadPending, Master!RespPending>>
  BY <1>1 DEF registers, Master!ReadPending, Master!RespPending
<1>9. LastComes'
  BY <1>1, <1>5, <1>8 DEF TrafficInv, LastComes
<1>10. /\ Len(openWrites') = Len(openWrites) + One(awvalid') - One(awvalid)
       /\ Len(openReads') = Len(openReads) + One(arvalid') - One(arvalid)
  BY <1>1, <1>2, <1>3 DEF One
<1>11. Accounted'
  <2> DEFINE w == One(awvalid)  w2 == One(awvalid')  inW == WritesIn(cmdQueue)
             r == One(arvalid)  r2 == One(arvalid')  inR == ReadsIn(cmdQueue)
             pw == Master!RespPending                outW == Len(respQueue)
             pr == Master!ReadPending                outR == LastsIn(readQueue)
  <2>1. /\ w \in Int /\ w2 \in Int /\ r \in Int /\ r2 \in Int /\ pw \in Int /\ pr \in Int
    BY DEF One, Master!RespPending, Master!ReadPending
  <2>2. /\ inW \in Int /\ inR \in Int /\ outW \in Int /\ outR \in Int
    <3>1. /\ cmdQueue \in Seq(Commands)
          /\ \E S : respQueue \in Seq(S) /\ \E T : readQueue \in Seq(T)
      BY ArbFacts DEF TrafficInv, BridgeInv, QueuesSafe, Bracketed
    <3> QED
      BY <3>1, CountsTyped
  <2>3. /\ Len(openWrites) = w + inW + pw + outW
        /\ Len(openReads) = r + inR + pr + outR
    BY DEF TrafficInv, Accounted
  <2>4. /\ Len(openWrites') = Len(openWrites) + w2 - w
        /\ Len(openReads') = Len(openReads) + r2 - r
        /\ WritesIn(cmdQueue') = inW /\ Master!RespPending' = pw /\ Len(respQueue') = outW
        /\ ReadsIn(cmdQueue') = inR /\ Master!ReadPending' = pr
        /\ LastsIn(readQueue') = outR
    BY <1>1, <1>8, <1>10
  <2>5. Accounted' = (/\ Len(openWrites') = w2 + WritesIn(cmdQueue') + Master!RespPending'
                                             + Len(respQueue')
                      /\ Len(openReads') = r2 + ReadsIn(cmdQueue') + Master!ReadPending'
                                             + LastsIn(readQueue'))
    BY DEF Accounted
  <2> HIDE DEF w, w2, inW, r, r2, inR, pw, outW, pr, outR
  <2> QED
    BY <2>1, <2>2, <2>3, <2>4, <2>5
<1> QED
  BY <1>4, <1>6, <1>7, <1>9, <1>11 DEF TrafficInv

LEMMA TrafficStep == TrafficInv /\ [Moves]_vars => TrafficInv'
<1> SUFFICES ASSUME TrafficInv, [Moves]_vars PROVE TrafficInv'
  OBVIOUS
<1>1. BridgeInv'
  BY BridgeStep DEF TrafficInv
<1>2. ArbProofs!ArbInv'
  <2>1. [ArbProofs!Next]_(ArbProofs!vars)
    BY BridgeStepsArb, SameArb
  <2>2. ArbProofs!ArbInv /\ CmdDepth \in Nat \ {0}
    BY DepthsAssumption DEF TrafficInv
  <2> QED
    BY <2>1, <2>2, ArbProofs!ArbInvAclk, ArbProofs!ArbInvOthers DEF ArbProofs!Next
<1> QED
  BY <1>1, <1>2, AclkKeepsTraffic, PclkKeepsTraffic, SendsKeepTraffic DEF Moves

\* Every burst the master has sent, and is not fully answered, is in one place:
\* still on the address channel, in the command queue, on its way out of the APB
\* side, or in an answer buffer.  The bridge loses none and makes none up.
THEOREM BurstsAreAccountedFor == Spec => []TrafficInv
BY TrafficInit, TrafficStep, StepsMove, PTL DEF Spec

----------------------------------------------------------------------------
(* The counters of power control.                                          *)

\* The bursts accepted and not yet answered, at most as many as the registers count.
CountsFit ==
  /\ Len(openWrites) - One(awvalid) \in 0 .. 2 ^ 6 - 1
  /\ Len(openReads) - One(arvalid) \in 0 .. 2 ^ 7 - 1

LEMMA TrafficFits == TrafficInv => CountsFit
<1> SUFFICES ASSUME TrafficInv PROVE CountsFit
  OBVIOUS
<1>1. /\ cmdQueue \in Seq(Commands)
      /\ \E S : respQueue \in Seq(S)
      /\ \E T : readQueue \in Seq(T)
      /\ Len(cmdQueue) <= CmdDepth /\ Len(respQueue) <= RespDepth
      /\ Len(readQueue) <= ReadDepth
      /\ {CmdDepth, RespDepth, ReadDepth} \subseteq Nat
  BY ArbFacts, DepthsAssumption DEF TrafficInv, BridgeInv, QueuesSafe, Bracketed
<1>2. /\ WritesIn(cmdQueue) \in Nat /\ WritesIn(cmdQueue) <= CmdDepth
      /\ ReadsIn(cmdQueue) \in Nat /\ ReadsIn(cmdQueue) <= CmdDepth
      /\ LastsIn(readQueue) \in Nat /\ LastsIn(readQueue) <= ReadDepth
      /\ Len(respQueue) \in Nat
  <2>1. PICK T : readQueue \in Seq(T)
    BY <1>1
  <2>2. PICK S : respQueue \in Seq(S)
    BY <1>1
  <2>3. WritesIn(cmdQueue) \in Nat /\ ReadsIn(cmdQueue) \in Nat
        /\ WritesIn(cmdQueue) <= Len(cmdQueue) /\ ReadsIn(cmdQueue) <= Len(cmdQueue)
    BY <1>1, CountsTyped
  <2>4. LastsIn(readQueue) \in Nat /\ LastsIn(readQueue) <= Len(readQueue)
    BY <2>1, CountsTyped
  <2> QED
    BY <1>1, <2>1, <2>2, <2>3, <2>4
<1>3. /\ Len(openWrites) = One(awvalid) + WritesIn(cmdQueue) + Master!RespPending
                             + Len(respQueue)
      /\ Len(openReads) = One(arvalid) + ReadsIn(cmdQueue) + Master!ReadPending
                             + LastsIn(readQueue)
      /\ One(awvalid) \in {0, 1} /\ One(arvalid) \in {0, 1}
      /\ Master!RespPending \in {0, 1} /\ Master!ReadPending \in {0, 1}
  BY DEF TrafficInv, Accounted, One, Master!RespPending, Master!ReadPending
<1>4. 2 ^ 6 - 1 = 63 /\ 2 ^ 7 - 1 = 127
  OBVIOUS
<1> DEFINE w == One(awvalid)  inW == WritesIn(cmdQueue)  pw == Master!RespPending
           r == One(arvalid)  inR == ReadsIn(cmdQueue)   pr == Master!ReadPending
           outW == Len(respQueue)                        outR == LastsIn(readQueue)
<1>5. /\ Len(openWrites) - w = inW + pw + outW /\ inW + pw + outW \in 0 .. 63
      /\ Len(openReads) - r = inR + pr + outR /\ inR + pr + outR \in 0 .. 127
  <2>1. /\ Len(openWrites) = w + inW + pw + outW /\ Len(openReads) = r + inR + pr + outR
        /\ w \in {0, 1} /\ r \in {0, 1} /\ pw \in {0, 1} /\ pr \in {0, 1}
        /\ inW \in Nat /\ inR \in Nat /\ outW \in Nat /\ outR \in Nat
        /\ inW <= CmdDepth /\ inR <= CmdDepth /\ outW <= RespDepth /\ outR <= ReadDepth
    BY <1>1, <1>2, <1>3
  <2>2. /\ CmdDepth <= 32 /\ RespDepth <= 16 /\ ReadDepth <= 32
        /\ CmdDepth \in Nat /\ RespDepth \in Nat /\ ReadDepth \in Nat
    BY <1>1, PowerDepthsAssumption
  <2> HIDE DEF w, inW, pw, outW, r, inR, pr, outR
  <2> QED
    BY <2>1, <2>2
<1>6. Len(openWrites) - w \in 0 .. 63 /\ Len(openReads) - r \in 0 .. 127
  <2> HIDE DEF w, inW, pw, outW, r, inR, pr, outR
  <2> QED
    BY <1>5
<1> QED
  BY <1>4, <1>6 DEF CountsFit

\* Power control only watches: its steps are steps of the bridge.
LEMMA PowerStepsBridge == [PowerNext]_powerVars => [Next]_vars
BY DEF PowerNext, AclkCounted, powerVars, historyVars, Next, Aclk

\* A count that fits its register is not cut off by it.
LEMMA FitsItsRegister ==
  ASSUME NEW bits \in Nat, NEW m \in 0 .. 2 ^ bits - 1
  PROVE  m % 2 ^ bits = m
<1> DEFINE size == 2 ^ bits
<1>1. size \in Int /\ m \in 0 .. size - 1
  OBVIOUS
<1>2. m % size = m
  <2> HIDE DEF size
  <2> QED
    BY <1>1
<1> QED
  BY <1>2

\* An edge of aclk as the counters see it.
LEMMA AclkKeepsCounts ==
  ASSUME TrafficInv, CountsFit, CountsFit', CountsAreTrue, AclkCounted
  PROVE  CountsAreTrue'
<1> PICK w \in BOOLEAN, b \in BOOLEAN, r \in BOOLEAN :
      /\ AclkWith(w, b, r)
      /\ ativ_writes' = Counted(ativ_writes, 6, Arb!awready, b)
      /\ ativ_reads' = Counted(ativ_reads, 7, Arb!arready, ReadAnswered(r))
  BY DEF AclkCounted
<1>1. /\ ativ_writes = Len(openWrites) - One(awvalid) /\ ativ_writes \in Nat
      /\ ativ_reads = Len(openReads) - One(arvalid) /\ ativ_reads \in Nat
  <2>1. 2 ^ 6 - 1 = 63 /\ 2 ^ 7 - 1 = 127
    OBVIOUS
  <2> QED
    BY <2>1 DEF CountsAreTrue, CountsFit, One
<1>2. /\ One(awvalid') = One(awvalid) - One(Arb!awready)
      /\ One(arvalid') = One(arvalid) - One(Arb!arready)
      /\ Len(openWrites') = Len(openWrites) - One(b) /\ Len(openWrites) \in Nat
      /\ Len(openReads') = Len(openReads) - One(ReadAnswered(r)) /\ Len(openReads) \in Nat
  BY AclkAnswers
<1> DEFINE a == One(awvalid)  g == One(Arb!awready)  t == One(b)
           c == One(arvalid)  h == One(Arb!arready)  u == One(ReadAnswered(r))
<1>3. /\ Len(openWrites') - One(awvalid') = ativ_writes + g - t
      /\ Len(openReads') - One(arvalid') = ativ_reads + h - u
  <2>1. /\ a \in Int /\ g \in Int /\ t \in Int /\ c \in Int /\ h \in Int /\ u \in Int
    BY DEF One
  <2>2. /\ One(awvalid') = a - g /\ Len(openWrites') = Len(openWrites) - t
        /\ One(arvalid') = c - h /\ Len(openReads') = Len(openReads) - u
        /\ ativ_writes = Len(openWrites) - a /\ ativ_reads = Len(openReads) - c
        /\ Len(openWrites) \in Nat /\ Len(openReads) \in Nat
    BY <1>1, <1>2
  <2> HIDE DEF a, g, t, c, h, u
  <2> QED
    BY <2>1, <2>2
<1>4. ativ_writes + g - t \in 0 .. 2 ^ 6 - 1 /\ ativ_reads + h - u \in 0 .. 2 ^ 7 - 1
  BY <1>3 DEF CountsFit
<1>5. Arb!awready \in BOOLEAN /\ Arb!arready \in BOOLEAN /\ ReadAnswered(r) \in BOOLEAN
  <2>1. r => Head(readQueue).last \in BOOLEAN
    <3>1. PICK S : readQueue \in Seq(S)
      BY DEF TrafficInv, BridgeInv, QueuesSafe, Bracketed
    <3>2. r => readQueue # <<>>
      BY AclkMoves
    <3> QED
      BY <3>1, <3>2, TailTyped DEF TrafficInv, QueuesTyped
  <2> QED
    BY <2>1 DEF Arb!awready, Arb!arready, ReadAnswered
<1>6. /\ ativ_writes' = Len(openWrites') - One(awvalid')
      /\ ativ_reads' = Len(openReads') - One(arvalid')
  <2>1. ativ_writes' = (ativ_writes + g - t) % 2 ^ 6
    BY <1>5 DEF Counted, One
  <2>2. ativ_reads' = (ativ_reads + h - u) % 2 ^ 7
    BY <1>5 DEF Counted, One
  <2> HIDE DEF g, t, h, u
  <2>3. (ativ_writes + g - t) % 2 ^ 6 = ativ_writes + g - t
    BY <1>4, FitsItsRegister
  <2>4. (ativ_reads + h - u) % 2 ^ 7 = ativ_reads + h - u
    BY <1>4, FitsItsRegister
  <2> QED
    BY <1>3, <2>1, <2>2, <2>3, <2>4
<1> QED
  BY <1>6 DEF CountsAreTrue, One

LEMMA OthersKeepCounts ==
  ASSUME TrafficInv, CountsAreTrue, PclkEdge \/ SendWrite \/ SendRead \/ UNCHANGED vars,
         UNCHANGED <<ativ_writes, ativ_reads>>
  PROVE  CountsAreTrue'
<1>1. openWrites \in Seq(WriteBursts) /\ openReads \in Seq(ReadCommands)
  BY DEF TrafficInv, QueuesTyped
<1>2. CASE PclkEdge \/ UNCHANGED vars
  BY <1>2 DEF PclkEdge, channels, partners, vars, CountsAreTrue
<1>3. CASE SendWrite
  <2>1. /\ ~awvalid /\ awvalid' /\ UNCHANGED <<arvalid, openReads>>
        /\ \E b \in WriteBursts : openWrites' = Append(openWrites, b)
    BY <1>3 DEF SendWrite, Arb!SendWrite
  <2>2. Len(openWrites') = Len(openWrites) + 1 /\ Len(openWrites) \in Nat
    BY <1>1, <2>1
  <2> QED
    BY <2>1, <2>2 DEF CountsAreTrue
<1>4. CASE SendRead
  <2>1. /\ ~arvalid /\ arvalid' /\ UNCHANGED <<awvalid, openWrites>>
        /\ \E c \in ReadCommands : openReads' = Append(openReads, c)
    BY <1>4 DEF SendRead, Arb!SendRead
  <2>2. Len(openReads') = Len(openReads) + 1 /\ Len(openReads) \in Nat
    BY <1>1, <2>1
  <2> QED
    BY <2>1, <2>2 DEF CountsAreTrue
<1> QED
  BY <1>2, <1>3, <1>4

\* The counters and the accounts of the bridge agree in every state.
THEOREM PowerInvariant == PowerSpec => [](TrafficInv /\ CountsAreTrue)
<1>1. PowerInit => TrafficInv /\ CountsAreTrue
  BY TrafficInit DEF PowerInit, HistoryInit, CountsAreTrue, Init, Arb!Init
<1>2. TrafficInv /\ [PowerNext]_powerVars => TrafficInv'
  BY PowerStepsBridge, StepsMove, TrafficStep
<1>3. TrafficInv => CountsFit
  BY TrafficFits
<1>4. TrafficInv /\ CountsFit /\ CountsFit' /\ CountsAreTrue /\ [PowerNext]_powerVars
        => CountsAreTrue'
  BY AclkKeepsCounts, OthersKeepCounts DEF PowerNext, powerVars, historyVars, Pclk, PclkWith
<1> QED
  BY <1>1, <1>2, <1>3, <1>4, PTL DEF PowerSpec

\* The counts of power control are those of the bursts accepted and not answered, and
\* never pass their registers, for all depths within the stated limits.
THEOREM PowerCountsAreTrue == PowerSpec => []CountsAreTrue
BY PowerInvariant, PTL

\* A command queue without a command of either kind is empty, and the control at rest.
LEMMA QueueEmpties ==
  ASSUME TrafficInv, WritesIn(cmdQueue) = 0, ReadsIn(cmdQueue) = 0
  PROVE  cmdQueue = <<>> /\ state = "IDLE"
<1>1. /\ cmdQueue \in Seq(Commands)
      /\ cmdSeen \in Nat /\ cmdSeen <= Len(cmdQueue)
  BY ArbFacts DEF TrafficInv, BridgeInv, QueuesSafe, Bracketed
<1>2. ASSUME cmdQueue # <<>> PROVE FALSE
  <2>1. Head(cmdQueue).write \in BOOLEAN
    BY <1>1, <1>2, KindOfCommand
  <2>2. /\ WritesIn(Tail(cmdQueue)) = WritesIn(cmdQueue) - One(Head(cmdQueue).write)
        /\ ReadsIn(Tail(cmdQueue)) = ReadsIn(cmdQueue) - One(~Head(cmdQueue).write)
    BY <1>1, <1>2, <2>1, CommandTaken
  <2>3. WritesIn(Tail(cmdQueue)) \in Nat /\ ReadsIn(Tail(cmdQueue)) \in Nat
    <3>1. Tail(cmdQueue) \in Seq(Commands)
      BY <1>1, <1>2
    <3> QED
      BY <3>1, CountsTyped
  <2> QED
    BY <2>1, <2>2, <2>3 DEF One
<1>3. state = "IDLE"
  BY <1>1, <1>2 DEF TrafficInv, Master!CmdInHand, CmdQueue!PopEmpty
<1> QED
  BY <1>2, <1>3

\* A read buffer without a last beat is empty, unless one is still to come.
LEMMA BufferEmpties ==
  ASSUME TrafficInv, state = "IDLE", LastsIn(readQueue) = 0, Master!ReadPending = 0
  PROVE  readQueue = <<>>
<1>1. PICK T : readQueue \in Seq(T)
  BY DEF TrafficInv, BridgeInv, QueuesSafe, Bracketed
<1>2. ASSUME readQueue # <<>> PROVE FALSE
  <2>1. readQueue[Len(readQueue)].last = TRUE
    <3>1. readQueue[Len(readQueue)].last
      BY <1>2 DEF TrafficInv, LastComes
    <3>2. readQueue[Len(readQueue)].last \in BOOLEAN
      BY <1>1, <1>2 DEF TrafficInv, QueuesTyped
    <3> QED
      BY <3>1, <3>2
  <2>2. LastsIn(readQueue) > 0
    BY <1>1, <1>2, <2>1, LastCounted
  <2> QED
    BY <2>2
<1> QED
  BY <1>2

\* When the counts report that nothing is pending, both clock domains are at rest.
THEOREM PowerNoPxMeansIdle == PowerSpec => []NoPxMeansIdle
<1>1. TrafficInv /\ CountsAreTrue => NoPxMeansIdle
  <2> SUFFICES ASSUME TrafficInv, CountsAreTrue, no_px
               PROVE  /\ cmdQueue = <<>> /\ respQueue = <<>> /\ readQueue = <<>>
                      /\ state = "IDLE" /\ ~dlydResp /\ ~pushReadReg
    BY DEF NoPxMeansIdle
  <2>1. /\ cmdQueue \in Seq(Commands)
        /\ \E S : respQueue \in Seq(S)
        /\ \E T : readQueue \in Seq(T)
        /\ cmdSeen \in Nat /\ cmdSeen <= Len(cmdQueue)
    BY ArbFacts DEF TrafficInv, BridgeInv, QueuesSafe, Bracketed
  <2>2. PICK T : readQueue \in Seq(T)
    BY <2>1
  <2>3. PICK S : respQueue \in Seq(S)
    BY <2>1
  <2>4. /\ Len(openWrites) - One(awvalid) = 0 /\ Len(openReads) - One(arvalid) = 0
        /\ One(awvalid) \in {0, 1} /\ One(arvalid) \in {0, 1}
        /\ Len(openWrites) \in Nat /\ Len(openReads) \in Nat
    BY DEF TrafficInv, QueuesTyped, CountsAreTrue, no_px, One
  <2>5. /\ WritesIn(cmdQueue) = 0 /\ ReadsIn(cmdQueue) = 0 /\ LastsIn(readQueue) = 0
        /\ Len(respQueue) = 0 /\ Master!RespPending = 0 /\ Master!ReadPending = 0
    <3> DEFINE w == One(awvalid)  inW == WritesIn(cmdQueue)  pw == Master!RespPending
               r == One(arvalid)  inR == ReadsIn(cmdQueue)   pr == Master!ReadPending
               outW == Len(respQueue)                        outR == LastsIn(readQueue)
    <3>1. /\ inW \in Nat /\ inR \in Nat /\ outW \in Nat /\ outR \in Nat
          /\ pw \in Nat /\ pr \in Nat
      BY <2>1, <2>2, <2>3, CountsTyped DEF Master!RespPending, Master!ReadPending
    <3>2. /\ Len(openWrites) = w + inW + pw + outW /\ Len(openReads) = r + inR + pr + outR
          /\ Len(openWrites) - w = 0 /\ Len(openReads) - r = 0 /\ w \in Int /\ r \in Int
      BY <2>4 DEF TrafficInv, Accounted
    <3>3. inW = 0 /\ inR = 0 /\ outR = 0 /\ outW = 0 /\ pw = 0 /\ pr = 0
      <4> HIDE DEF w, inW, pw, r, inR, pr, outW, outR
      <4> QED
        BY <3>1, <3>2
    <3> QED
      BY <3>3
  <2>6. cmdQueue = <<>> /\ state = "IDLE"
    BY <2>5, QueueEmpties
  <2>7. ~dlydResp /\ ~pushReadReg
    BY <2>5, <2>6 DEF Master!RespPending, Master!ReadPending
  <2>8. readQueue = <<>>
    BY <2>5, <2>6, BufferEmpties
  <2> QED
    BY <2>3, <2>5, <2>6, <2>7, <2>8
<1> QED
  BY <1>1, PowerInvariant, PTL
=============================================================================
