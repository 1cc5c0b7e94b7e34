--------------------------- MODULE X2pTraceProofs ---------------------------
(***************************************************************************)
(* The way of each burst through the whole bridge.  What is proved of the    *)
(* APB side alone holds of the one inside the bridge, for the queues deliver *)
(* what it relies on: the commands in the order they were sent, the words of *)
(* each write behind those of the write before.  So each read beat and each  *)
(* write response the master is offered answers the burst whose turn it is,  *)
(* as that burst asked, and nothing is left over.                            *)
(***************************************************************************)
EXTENDS X2pBridgeProofs, SequenceTheorems

Side == INSTANCE ApbSideProofs WITH
          cmd <- CmdOut, cmdReady <- ~CmdQueue!PopEmpty,
          word <- WordOut, wordReady <- ~WordQueue!PopEmpty,
          respFull <- RespQueue!PushFull, readFull <- ReadQueue!PushFull,
          writes <- made, Strobes <- {"all", "none", "some"}

\* What the APB side assumes of its constants holds of those of the bridge.
LEMMA SideAssumptions ==
  /\ LenWidth \in Nat
  /\ Commands \subseteq
       [write: BOOLEAN, burst: {Side!FIXED, Side!INCR, Side!WRAP, Side!RESERVED}, size: {0, 1, 2},
        len: 0 .. 2 ^ LenWidth - 1, id: Nat, addr: 0 .. AddrSpace - 1]
  /\ AddrSpace \in Nat \ {0} /\ AddrSpace % 64 = 0
BY BurstsAssumption, AddrSpaceAssumption
DEF Commands, FIXED, INCR, WRAP, RESERVED, Side!FIXED, Side!INCR, Side!WRAP, Side!RESERVED

\* The edge of the APB side inside the bridge is the edge of ApbMaster.
LEMMA SideEdge == Apb!Edge => Side!Edge
BY DEF
  Apb!WordBytes, Side!WordBytes, Apb!AlignSize, Side!AlignSize, Apb!FIXED,
  Side!FIXED, Apb!INCR, Side!INCR, Apb!WRAP, Side!WRAP, Apb!RESERVED,
  Side!RESERVED, Apb!Plus, Side!Plus, Apb!WordAligned, Side!WordAligned,
  Apb!BeatBytes, Side!BeatBytes, Apb!Container, Side!Container, Apb!WrapError,
  Side!WrapError, Apb!InitialCmdError, Side!InitialCmdError, Apb!Decode,
  Side!Decode, Apb!AddressFromSet, Side!AddressFromSet, Apb!BaseFromIncrBase,
  Side!BaseFromIncrBase, Apb!AddressFromIncrBase, Side!AddressFromIncrBase,
  Apb!AddressFromIncr, Side!AddressFromIncr, Apb!Penable, Side!Penable,
  Apb!DcdError, Side!DcdError, Apb!AnyError, Side!AnyError, Apb!LastBeat,
  Side!LastBeat, Apb!PopWriteBuff, Side!PopWriteBuff, Apb!NextPushRead,
  Side!NextPushRead, Apb!PushRspRequest, Side!PushRspRequest, Apb!PushResponse,
  Side!PushResponse, Apb!RespStatus, Side!RespStatus, Apb!NextBeat,
  Side!NextBeat, Apb!SetAddr, Side!SetAddr, Apb!IncrBaseAddr, Side!IncrBaseAddr,
  Apb!IncrAddr, Side!IncrAddr, Apb!NextAddress, Side!NextAddress, Apb!NextError,
  Side!NextError, Apb!NextRdError, Side!NextRdError, Apb!NextLastPushRead,
  Side!NextLastPushRead, Apb!NextPopRequest, Side!NextPopRequest,
  Apb!NextWriteBuffEmpty, Side!NextWriteBuffEmpty, Apb!NextWriteLastReg,
  Side!NextWriteLastReg, Apb!ControlRegisters, Side!ControlRegisters,
  Apb!AddressRegisters, Side!AddressRegisters, Apb!NoData, Side!NoData,
  Apb!NextPwdata, Side!NextPwdata, Apb!NextAxiData, Side!NextAxiData,
  Apb!DataRegisters, Side!DataRegisters, Apb!ResponseRegisters,
  Side!ResponseRegisters, Apb!Registers, Side!Registers, Apb!Idle, Side!Idle,
  Apb!Purge, Side!Purge, Apb!WSel, Side!WSel, Apb!NWSel, Side!NWSel,
  Apb!CheckOnStrobes, Side!CheckOnStrobes, Apb!AfterWrite, Side!AfterWrite,
  Apb!WEn, Side!WEn, Apb!NWEn, Side!NWEn, Apb!WDtWt, Side!WDtWt, Apb!WtStart,
  Side!WtStart, Apb!WResp, Side!WResp, Apb!RSel, Side!RSel, Apb!REn, Side!REn,
  Apb!NREn, Side!NREn, Apb!PrePurge, Side!PrePurge, Apb!RBufWt, Side!RBufWt,
  Apb!Edge, Side!Edge

\* What the two modules call by the same name is the same.
LEMMA SideMoves ==
  /\ Side!PopWriteBuff = Apb!PopWriteBuff /\ Side!PopCmdQueue = Apb!PopCmdQueue
  /\ Side!PushResponse = Apb!PushResponse /\ Side!PushReadBuffer = Apb!PushReadBuffer
  /\ Side!RespStatus = Apb!RespStatus /\ Side!PushRspRequest = Apb!PushRspRequest
  /\ Side!Starts = Starts /\ Side!ResetCmd = Apb!ResetCmd
BY DEF Side!PopWriteBuff, Apb!PopWriteBuff, Side!PopCmdQueue, Apb!PopCmdQueue,
       Side!PushRspRequest, Apb!PushRspRequest, Side!LastBeat, Apb!LastBeat,
       Side!PushResponse, Apb!PushResponse, Side!PushReadBuffer, Apb!PushReadBuffer,
       Side!RespStatus, Apb!RespStatus, Side!Starts, Starts, Side!ResetCmd, Apb!ResetCmd,
       Side!FIXED, Apb!FIXED

\* So are the rules of a burst.
LEMMA SideRules ==
  /\ \A a : Side!Decode(a) = Decode(a)
  /\ \A c, i : Side!AxiAddress(c, i) = AxiAddress(c, i)
  /\ \A c, i : Side!BadBeat(c, i) = BadBeat(c, i)
  /\ \A c, ss, i : Side!Refused(c, ss, i) = Refused(c, ss, i)
  /\ \A c, ss, n : Side!WritesUpTo(c, ss, n) = WritesUpTo(c, ss, n)
BY DEF Side!Decode, Decode, Side!AxiAddress, AxiAddress, Side!BadBeat, BadBeat,
       Side!Refused, Refused, Side!WritesUpTo, WritesUpTo, Side!BadWord, BadWord,
       Side!FIXED, FIXED, Side!INCR, INCR, Side!WRAP, WRAP, Side!RESERVED, RESERVED,
       Side!Plus, Plus, Side!BeatBytes, BeatBytes, Side!Container, Container,
       Side!InitialCmdError, InitialCmdError, Side!WrapError, WrapError,
       Side!WordBytes, WordBytes, Side!AlignSize, AlignSize

\* An edge of pclk is one of the APB side, and what the queues do at it is what the
\* APB side relies on.
LEMMA PclkTicks ==
  ASSUME TrafficInv, PclkEdge, PclkRecorded
  PROVE  Side!Tick
<1> USE DEF TrafficInv
<1>1. Side!Edge
  BY SideEdge DEF PclkEdge
<1>2. Side!HistoryFollows
  BY SideMoves DEF PclkRecorded, Side!HistoryFollows
<1>3. ASSUME ~CmdQueue!PopEmpty, ~Apb!PopCmdQueue
      PROVE  ~CmdQueue!PopEmpty' /\ CmdOut' = CmdOut
  <2>1. cmdQueue' = cmdQueue /\ cmdSeen' \in cmdSeen .. Len(cmdQueue')
    BY <1>3 DEF PclkEdge, CmdQueue!PopEdge, CmdQueue!PopEmpty
  <2>2. cmdSeen \in Nat /\ cmdSeen # 0
    BY <1>3 DEF BridgeInv, QueuesSafe, Bracketed, CmdQueue!PopEmpty
  <2>3. cmdSeen' # 0
    BY <2>1, <2>2
  <2> QED
    BY <2>1, <2>2, <2>3, CmdOutStays DEF CmdQueue!PopEmpty
<1>4. ASSUME ~WordQueue!PopEmpty, ~Apb!PopWriteBuff
      PROVE  ~WordQueue!PopEmpty'
  <2>1. wordSeen' \in wordSeen .. Len(wordQueue')
    BY <1>4 DEF PclkEdge, WordQueue!PopEdge, WordQueue!PopEmpty
  <2>2. wordSeen \in Nat /\ wordSeen # 0
    BY <1>4 DEF BridgeInv, QueuesSafe, Bracketed, WordQueue!PopEmpty
  <2> QED
    BY <2>1, <2>2 DEF WordQueue!PopEmpty
<1>5. /\ RespQueue!PushFull' => RespQueue!PushFull \/ Apb!PushResponse
      /\ ReadQueue!PushFull' => ReadQueue!PushFull \/ Apb!PushReadBuffer
  <2>1. /\ ~Apb!PushReadBuffer => readHeld' <= readHeld
        /\ ~Apb!PushResponse => respHeld' <= respHeld
        /\ QueuesSafe'
    BY PclkKeepsQueues DEF BridgeInv
  <2>2. /\ respHeld \in Nat /\ respHeld <= RespDepth /\ respHeld' \in Nat /\ RespDepth \in Nat
        /\ readHeld \in Nat /\ readHeld <= ReadDepth /\ readHeld' \in Nat /\ ReadDepth \in Nat
    BY <2>1, DepthsAssumption DEF BridgeInv, QueuesSafe, Bracketed
  <2> QED
    BY <2>1, <2>2 DEF RespQueue!PushFull, ReadQueue!PushFull
<1>6. Side!PinsKeep(Side!PopCmdQueue, Side!PopWriteBuff, Side!PushResponse,
                    Side!PushReadBuffer)
  BY <1>3, <1>4, <1>5, SideMoves DEF Side!PinsKeep
<1> QED
  BY <1>1, <1>2, <1>6 DEF Side!Tick

\* Between two edges of pclk the APB side sees the queues fill and its answers leave.
LEMMA OthersWait ==
  ASSUME TrafficInv,
         \/ \E w, b, r \in BOOLEAN : AclkWith(w, b, r) /\ AclkRecorded(r)
         \/ (SendWrite \/ SendRead) /\ UNCHANGED record
         \/ UNCHANGED historyVars
  PROVE  Side!Meanwhile
<1> USE DEF TrafficInv
<1>1. UNCHANGED <<registers, owner, popped, made, served>>
  <2>1. CASE \E w, b, r \in BOOLEAN : AclkWith(w, b, r) /\ AclkRecorded(r)
    BY <2>1 DEF AclkWith, AclkRecorded
  <2>2. CASE (SendWrite \/ SendRead) /\ UNCHANGED record
    BY <2>2 DEF SendWrite, SendRead, record
  <2>3. CASE UNCHANGED historyVars
    BY <2>3 DEF historyVars, vars, record
  <2> QED
    BY <2>1, <2>2, <2>3
<1>2. /\ cmdSeen' = cmdSeen /\ wordSeen' = wordSeen
      /\ respHeld' = respHeld /\ readHeld' = readHeld
      /\ cmdQueue' = cmdQueue \/ \E c : cmdQueue' = Append(cmdQueue, c)
  <2>1. CASE \E w, b, r \in BOOLEAN : AclkWith(w, b, r) /\ AclkRecorded(r)
    <3> PICK w \in BOOLEAN, b \in BOOLEAN, r \in BOOLEAN : AclkWith(w, b, r)
      BY <2>1
    <3>1. /\ cmdQueue' = IF Arb!awready THEN Append(cmdQueue, aw)
                         ELSE IF Arb!arready THEN Append(cmdQueue, ar) ELSE cmdQueue
          /\ cmdSeen' = cmdSeen
      BY AclkMoves
    <3> QED
      BY <3>1 DEF AclkWith, WordQueue!PushEdge, RespQueue!PopEdge, ReadQueue!PopEdge
  <2>2. CASE (SendWrite \/ SendRead) /\ UNCHANGED record
    BY <2>2 DEF SendWrite, SendRead, Arb!SendWrite, Arb!SendRead, Arb!queueVars, wordVars,
                respVars, readVars
  <2>3. CASE UNCHANGED historyVars
    BY <2>3 DEF historyVars, vars, queues, cmdVars, wordVars, respVars, readVars
  <2> QED
    BY <2>1, <2>2, <2>3
<1>3. cmdSeen # 0 => CmdOut' = CmdOut
  BY <1>2, CmdOutStays
<1>4. Side!PinsKeep(FALSE, FALSE, FALSE, FALSE)
  BY <1>2, <1>3 DEF Side!PinsKeep, CmdQueue!PopEmpty, WordQueue!PopEmpty,
                    RespQueue!PushFull, ReadQueue!PushFull
<1> QED
  BY <1>1, <1>4 DEF Side!Meanwhile, Side!registers, Side!history, registers

\* The command queue shows the APB side commands of the master, or the reset word.
LEMMA OutIsCommand ==
  ASSUME TrafficInv
  PROVE  Side!CmdTyped
<1>1. /\ cmdQueue \in Seq(Commands) /\ cmdRam \in Seq(Commands \cup {Apb!ResetCmd})
      /\ Len(cmdRam) = CmdDepth /\ CmdDepth \in Nat \ {0}
  BY ArbFacts, DepthsAssumption DEF TrafficInv, QueuesTyped
<1>2. CmdOut \in Commands \cup {Apb!ResetCmd}
  BY <1>1 DEF CmdOut
<1> QED
  BY <1>2, SideMoves DEF Side!CmdTyped

\* A step of the bridge with its record, with slaves that may answer anything; the
\* echoing ones answer a read with its address, as in X2pBridge.
HistoryMoves(slaves) ==
  \/ \E w, b, r \in BOOLEAN : AclkWith(w, b, r) /\ AclkRecorded(r)
  \/ PclkEdge /\ (slaves = "echoing" => Pclk) /\ PclkRecorded
  \/ (SendWrite \/ SendRead) /\ UNCHANGED record

LEMMA HistoryEchoes ==
  ASSUME NEW slaves
  PROVE  [HistoryNext]_historyVars => [HistoryMoves(slaves)]_historyVars
BY DEF HistoryNext, HistoryMoves, Pclk, PclkWith

----------------------------------------------------------------------------
(* The data of a read, as it travels from the slave to the read buffer.     *)

\* No command of the reserved burst type, and no two slaves with an address in common.
NoReserved == \A c \in Commands : c.burst # RESERVED
SlavesApart ==
  \A s, t \in Slaves :
    s # t => (FirstBlock[s] .. LastBlock[s]) \cap (FirstBlock[t] .. LastBlock[t]) = {}

\* A read accepted on the APB comes back with its address, and stays with its beat until
\* the push.
BeatAddress(i) == AxiAddress(owner, i)

DataInv ==
  /\ state = "REN" => prdata = BeatAddress(beat)
  /\ state = "RBUFWT" => axiData = BeatAddress(beat)
  /\ pushReadReg => axiData = BeatAddress(served)

SideReadInv(slaves) == Side!AddressedInv /\ (slaves = "echoing" => DataInv)

\* An address that is decoded at all selects one slave, which the multiplexer passes on.
LEMMA OneSlaveAnswers ==
  ASSUME SlavesApart, NEW a, Decode(a) # {}
  PROVE  \E s \in Slaves : Decode(a) = {s}
BY DEF SlavesApart, Decode

\* The answer of a read access stays with its beat until the beat is pushed.
LEMMA PclkKeepsReadData ==
  ASSUME SlavesApart, Side!AddressedInv, DataInv, Side!Tick, Pclk
  PROVE  DataInv'
<1>0. Side!OrderedInv /\ Side!ReadInv /\ Side!MasterInv /\ Side!Edge
  BY DEF Side!AddressedInv, Side!OrderedInv, Side!ReadInv, Side!Tick
<1>1. /\ pushReadReg' = Side!NextPushRead
      /\ axiData' = Side!NextAxiData
  BY <1>0, SideAssumptions, Side!StateMoves
  DEF Side!Registers, Side!ControlRegisters, Side!DataRegisters
<1>2. ASSUME state' = "REN" PROVE prdata' = BeatAddress(beat)'
  <2>1. state = "RSEL"
    BY <1>0, <1>2, SideAssumptions, Side!ReadMoves
  <2>2. owner' = owner /\ beat' = beat
    BY <1>0, <2>1, SideAssumptions, Side!ReadRegistersMove
  <2>3. paddr = BeatAddress(beat)
    BY <2>1, SideRules DEF Side!AddressedInv, Side!ReadAddrInv, Side!At, BeatAddress
  <2>4. psel = Decode(paddr) /\ psel # {}
    BY <1>0, <2>1, SideRules DEF Side!MasterInv, Side!SelectsDecoded, Side!Selecting
  <2>5. prdata' = paddr
    BY <2>1, <2>4, OneSlaveAnswers DEF Pclk, PclkWith, Mux
  <2> QED
    BY <2>2, <2>3, <2>5 DEF BeatAddress
<1>3. ASSUME state \in {"REN", "RBUFWT"}
      PROVE  /\ owner' = owner /\ served' = served /\ served = beat /\ ~CmdOut.write
             /\ axiData' = BeatAddress(beat)
  <2>1. owner' = owner /\ served' = served /\ served = beat /\ ~CmdOut.write
    BY <1>0, <1>3, SideAssumptions, Side!PushIsOfBeat
  <2>2. axiData' = BeatAddress(beat)
    BY <1>1, <1>3, <2>1 DEF Side!NextAxiData, Side!Penable, DataInv
  <2> QED
    BY <2>1, <2>2
<1>4. ASSUME state' = "RBUFWT" PROVE axiData' = BeatAddress(beat)'
  <2>1. state \in {"REN", "RBUFWT"} /\ ReadQueue!PushFull
    BY <1>0, <1>4, SideAssumptions, Side!ReadMoves
  <2>2. beat' = beat
    BY <1>0, <2>1, SideAssumptions, Side!BeatMoves
  <2> QED
    BY <1>3, <2>1, <2>2 DEF BeatAddress
<1>5. ASSUME pushReadReg' PROVE axiData' = BeatAddress(served)'
  <2>1. state \in {"REN", "RBUFWT"}
    BY <1>1, <1>5 DEF Side!NextPushRead
  <2> QED
    BY <1>3, <2>1 DEF BeatAddress
<1> QED
  BY <1>2, <1>4, <1>5 DEF DataInv, BeatAddress

\* After reset the APB side in the bridge is as ApbSide starts.
LEMMA SideResets == HistoryInit => Side!AtReset
<1> SUFFICES ASSUME HistoryInit PROVE Side!AtReset
  OBVIOUS
<1>1. /\ cmdQueue = <<>> /\ cmdSeen = 0 /\ wordSeen = 0 /\ respHeld = 0 /\ readHeld = 0
      /\ cmdRam = [i \in 1 .. CmdDepth |-> Apb!ResetCmd]
      /\ Apb!Reset /\ owner = Apb!ResetCmd /\ popped = <<>> /\ made = <<>> /\ served = 1
  BY DEF HistoryInit, Init, Arb!Init, Arb!CmdQueue!Init, WordQueue!Init, RespQueue!Init,
         ReadQueue!Init
<1>2. CmdOut = Side!ResetCmd
  BY <1>1, DepthsAssumption, SideMoves DEF CmdOut
<1>3. /\ CmdQueue!PopEmpty = TRUE /\ WordQueue!PopEmpty = TRUE
      /\ RespQueue!PushFull = FALSE /\ ReadQueue!PushFull = FALSE
  BY <1>1, DepthsAssumption
  DEF CmdQueue!PopEmpty, WordQueue!PopEmpty, RespQueue!PushFull, ReadQueue!PushFull
<1>4. Side!Reset
  BY <1>1 DEF Apb!Reset, Side!Reset, Apb!ResetWord, Side!ResetWord, Apb!NoData, Side!NoData
<1>5. WordOut = Side!ResetWord
  BY <1>3, <1>4 DEF WordOut, Side!Reset
<1> QED
  BY <1>1, <1>2, <1>3, <1>4, <1>5, SideMoves DEF Side!AtReset

\* So its read invariants hold at first,
LEMMA SideReadInit == ASSUME NEW slaves PROVE HistoryInit => SideReadInv(slaves)
<1> SUFFICES ASSUME HistoryInit PROVE SideReadInv(slaves)
  OBVIOUS
<1>1. Side!AddressedInv
  BY SideResets, Side!AddressedInit, SideAssumptions
<1>2. DataInv
  BY DEF HistoryInit, Init, Apb!Reset, DataInv
<1> QED
  BY <1>1, <1>2 DEF SideReadInv

\* and every step of the bridge keeps them: the queues only give it what it relies on.
LEMMA SideReadStep ==
  ASSUME NEW slaves, NoReserved, slaves = "echoing" => SlavesApart, TrafficInv, TrafficInv',
         SideReadInv(slaves), [HistoryMoves(slaves)]_historyVars
  PROVE  SideReadInv(slaves)'
<1>1. Side!CmdTyped' /\ Side!NoReserved
  BY OutIsCommand, PTL DEF NoReserved, Side!NoReserved, RESERVED, Side!RESERVED
<1>2. CASE PclkEdge /\ (slaves = "echoing" => Pclk) /\ PclkRecorded
  <2>1. Side!Tick
    BY <1>2, PclkTicks
  <2>2. Side!AddressedInv'
    BY <1>1, <2>1, SideAssumptions, Side!AddressedKept DEF SideReadInv
  <2> QED
    BY <1>2, <2>1, <2>2, PclkKeepsReadData DEF SideReadInv
<1>3. CASE ~(PclkEdge /\ (slaves = "echoing" => Pclk) /\ PclkRecorded)
  <2>1. Side!Meanwhile
    BY <1>3, OthersWait DEF HistoryMoves
  <2>2. Side!AddressedInv'
    BY <1>1, <2>1, SideAssumptions, Side!AddressedKept DEF SideReadInv
  <2>3. UNCHANGED <<state, beat, owner, pushReadReg, axiData, served, prdata>>
    <3>1. UNCHANGED prdata
      BY <1>3 DEF HistoryMoves, AclkWith, SendWrite, SendRead, historyVars, vars
    <3> QED
      BY <2>1, <3>1 DEF Side!Meanwhile, Side!registers, Side!history
  <2> QED
    BY <2>2, <2>3 DEF SideReadInv, DataInv, BeatAddress
<1> QED
  BY <1>2, <1>3

----------------------------------------------------------------------------
(* The commands in the queue are those the master has sent, in its order.   *)

\* The entries of the command queue of the kinds V are among the commands s, in their
\* order, the newest of them the n-th.
LinedUp(q, V, s, n) ==
  \A i \in 1 .. Len(q) :
    q[i].write \in V =>
      /\ n + 1 - Rest(q, "write", V, i) \in 1 .. Len(s)
      /\ q[i] = s[n + 1 - Rest(q, "write", V, i)]

\* A command taken from the queue leaves the others in line,
LEMMA LinePopped ==
  ASSUME NEW S, NEW q \in Seq(S), q # <<>>, NEW V, NEW s, NEW n \in Nat, LinedUp(q, V, s, n)
  PROVE  LinedUp(Tail(q), V, s, n)
<1> SUFFICES ASSUME NEW i \in 1 .. Len(Tail(q)), Tail(q)[i].write \in V
             PROVE  /\ n + 1 - Rest(Tail(q), "write", V, i) \in 1 .. Len(s)
                    /\ Tail(q)[i] = s[n + 1 - Rest(Tail(q), "write", V, i)]
  BY DEF LinedUp
<1>1. i \in Nat \ {0} /\ i + 1 \in 1 .. Len(q) /\ Tail(q)[i] = q[i + 1]
  OBVIOUS
<1>2. Rest(Tail(q), "write", V, i) = Rest(q, "write", V, i + 1)
  BY <1>1, RestOfTail
<1> QED
  BY <1>1, <1>2 DEF LinedUp

\* one that enters it must be the next one of its kind,
LEMMA LinePushed ==
  ASSUME NEW S, NEW q \in Seq(S), NEW d, NEW V, NEW s, NEW n \in Nat, LinedUp(q, V, s, n),
         Len(s) \in Nat, d.write \in V => n + 1 <= Len(s) /\ s[n + 1] = d
  PROVE  LinedUp(Append(q, d), V, s, n + One(d.write \in V))
<1> DEFINE a == Append(q, d)
           m == n + One(d.write \in V)
<1> SUFFICES ASSUME NEW i \in 1 .. Len(a), a[i].write \in V
             PROVE  /\ m + 1 - Rest(a, "write", V, i) \in 1 .. Len(s)
                    /\ a[i] = s[m + 1 - Rest(a, "write", V, i)]
  BY DEF LinedUp
<1>1. /\ Len(a) = Len(q) + 1 /\ a[Len(q) + 1] = d /\ \A j \in 1 .. Len(q) : a[j] = q[j]
      /\ Len(q) \in Nat
  <2>1. q \in Seq(S \cup {d})
    BY SeqMonotone
  <2> QED
    BY <2>1
<1>2. i \in 1 .. Len(q) + 1 /\ i \in Nat \ {0}
  BY <1>1
<1>3. Rest(a, "write", V, i) = Rest(q, "write", V, i) + One(d["write"] \in V)
  BY <1>2, RestAppended
<1>4. Rest(q, "write", V, i) \in Nat /\ One(d.write \in V) \in Nat
  BY <1>2, PlacesFinite DEF One
<1>5. m + 1 - Rest(a, "write", V, i) = n + 1 - Rest(q, "write", V, i)
  BY <1>3, <1>4
<1>6. CASE i \in 1 .. Len(q)
  BY <1>1, <1>5, <1>6 DEF LinedUp
<1>7. CASE i = Len(q) + 1
  <2>1. Rest(q, "write", V, i) = 0
    BY <1>1, <1>2, <1>7, PlacesFinite
  <2> HIDE DEF a, m
  <2> QED
    BY <1>1, <1>5, <1>7, <2>1
<1> QED
  BY <1>2, <1>6, <1>7

\* an answer removes an older command than those in the queue,
LEMMA LineAnswered ==
  ASSUME NEW S, NEW q \in Seq(S), NEW V, NEW T, NEW s \in Seq(T), NEW n \in Nat,
         LinedUp(q, V, s, n), Rest(q, "write", V, 1) < n, s # <<>>
  PROVE  LinedUp(q, V, Tail(s), n - 1)
<1> SUFFICES ASSUME NEW i \in 1 .. Len(q), q[i].write \in V
             PROVE  /\ (n - 1) + 1 - Rest(q, "write", V, i) \in 1 .. Len(Tail(s))
                    /\ q[i] = Tail(s)[(n - 1) + 1 - Rest(q, "write", V, i)]
  BY DEF LinedUp
<1> DEFINE k == n + 1 - Rest(q, "write", V, i)
<1>1. i \in Nat \ {0} /\ 1 \in Nat \ {0} /\ i \in Nat /\ 1 <= i
  OBVIOUS
<1>2. Rest(q, "write", V, i) \in Nat /\ Rest(q, "write", V, 1) \in Nat
  BY <1>1, PlacesFinite
<1>3. Rest(q, "write", V, i) <= Rest(q, "write", V, 1)
  BY <1>1, RestFalls
<1>4. k \in 2 .. Len(s) /\ q[i] = s[k]
  BY <1>2, <1>3 DEF LinedUp
<1>5. (n - 1) + 1 - Rest(q, "write", V, i) = k - 1
  BY <1>2
<1>6. Tail(s)[k - 1] = s[k] /\ Len(Tail(s)) = Len(s) - 1
  <2> HIDE DEF k
  <2> QED
    BY <1>4
<1> QED
  BY <1>4, <1>5, <1>6

\* and the master sends behind all of them.
LEMMA LineSent ==
  ASSUME NEW q, NEW V, NEW T, NEW s \in Seq(T), NEW n \in Nat, LinedUp(q, V, s, n), NEW x
  PROVE  LinedUp(q, V, Append(s, x), n)
<1>1. s \in Seq(T \cup {x})
  BY SeqMonotone
<1> QED
  BY <1>1 DEF LinedUp

\* With the command d that is offered and not accepted yet at the end of the line.
Line(q, V, s, offered, d) ==
  /\ offered \in BOOLEAN /\ (offered => s # <<>> /\ s[Len(s)] = d)
  /\ LinedUp(q, V, s, Len(s) - One(offered))

\* The master offers a command only when none is offered yet.
LEMMA LineOffer ==
  ASSUME NEW q, NEW V, NEW T, NEW s \in Seq(T), NEW d, NEW x, Line(q, V, s, FALSE, d)
  PROVE  Line(q, V, Append(s, x), TRUE, x)
<1>1. Len(s) \in Nat /\ LinedUp(q, V, s, Len(s))
  BY DEF Line, One
<1>2. LinedUp(q, V, Append(s, x), Len(s))
  BY <1>1, LineSent
<1>3. /\ Append(s, x) # <<>> /\ Len(Append(s, x)) = Len(s) + 1
      /\ Append(s, x)[Len(s) + 1] = x
  <2>1. s \in Seq(T \cup {x})
    BY SeqMonotone
  <2> QED
    BY <2>1
<1>4. Len(Append(s, x)) - One(TRUE) = Len(s)
  BY <1>1, <1>3 DEF One
<1> QED
  BY <1>2, <1>3, <1>4 DEF Line

\* The command offered is the next one to enter the queue,
LEMMA LineAccept ==
  ASSUME NEW S, NEW q \in Seq(S), NEW V, NEW T, NEW s \in Seq(T), NEW d,
         Line(q, V, s, TRUE, d), d.write \in V
  PROVE  Line(Append(q, d), V, s, FALSE, d)
<1>1. Len(s) \in Nat \ {0} /\ s[Len(s)] = d /\ LinedUp(q, V, s, Len(s) - 1)
  BY DEF Line, One
<1>2. (Len(s) - 1) + One(d.write \in V) = Len(s) /\ Len(s) - 1 \in Nat /\ Len(s) - One(FALSE) = Len(s)
  BY <1>1 DEF One
<1>3. LinedUp(Append(q, d), V, s, (Len(s) - 1) + One(d.write \in V))
  <2>1. (Len(s) - 1) + 1 <= Len(s) /\ s[(Len(s) - 1) + 1] = d
    BY <1>1
  <2> QED
    BY <1>1, <1>2, <2>1, LinePushed
<1> QED
  BY <1>2, <1>3 DEF Line

\* one of the other channel does not touch the line,
LEMMA LineOther ==
  ASSUME NEW S, NEW q \in Seq(S), NEW V, NEW T, NEW s \in Seq(T), NEW d, NEW x,
         NEW offered, Line(q, V, s, offered, x), d.write \notin V
  PROVE  Line(Append(q, d), V, s, offered, x)
<1> DEFINE n == Len(s) - One(offered)
<1>1. n \in Nat /\ LinedUp(q, V, s, n) /\ n + One(d.write \in V) = n
  BY DEF Line, One
<1>2. LinedUp(Append(q, d), V, s, n + One(d.write \in V))
  <2> HIDE DEF n
  <2> QED
    BY <1>1, LinePushed
<1> QED
  BY <1>1, <1>2 DEF Line

\* the APB side takes the oldest,
LEMMA LineTake ==
  ASSUME NEW S, NEW q \in Seq(S), q # <<>>, NEW V, NEW T, NEW s \in Seq(T), NEW d,
         NEW offered, Line(q, V, s, offered, d)
  PROVE  Line(Tail(q), V, s, offered, d)
<1> DEFINE n == Len(s) - One(offered)
<1>1. n \in Nat /\ LinedUp(q, V, s, n)
  BY DEF Line, One
<1>2. LinedUp(Tail(q), V, s, n)
  <2> HIDE DEF n
  <2> QED
    BY <1>1, LinePopped
<1> QED
  BY <1>2 DEF Line

\* and an answer is taken for one that has left the queue.
LEMMA LineAnswer ==
  ASSUME NEW S, NEW q \in Seq(S), NEW V, NEW T, NEW s \in Seq(T), NEW d, NEW offered,
         Line(q, V, s, offered, d), Rest(q, "write", V, 1) + One(offered) < Len(s)
  PROVE  Line(q, V, Tail(s), offered, d)
<1> DEFINE n == Len(s) - One(offered)
<1>1. /\ n \in Nat /\ LinedUp(q, V, s, n) /\ One(offered) \in Nat
      /\ offered => One(offered) = 1
  BY DEF Line, One
<1>2. Rest(q, "write", V, 1) \in Nat
  <2>1. 1 \in Nat \ {0}
    OBVIOUS
  <2> QED
    BY <2>1, PlacesFinite
<1>3. /\ s # <<>> /\ Len(Tail(s)) = Len(s) - 1 /\ Len(s) \in Nat
      /\ offered => Len(s) >= 2
  BY <1>1, <1>2
<1>4. LinedUp(q, V, Tail(s), n - 1)
  <2>1. Rest(q, "write", V, 1) < n
    BY <1>1, <1>2, <1>3
  <2> HIDE DEF n
  <2> QED
    BY <1>1, <1>3, <2>1, LineAnswered
<1>5. Len(Tail(s)) - One(offered) = n - 1
  BY <1>1, <1>3
<1>6. offered => Tail(s) # <<>> /\ Tail(s)[Len(Tail(s))] = d
  <2>1. offered => s[Len(s)] = d
    BY DEF Line
  <2>2. \A k \in 1 .. Len(s) - 1 : Tail(s)[k] = s[k + 1]
    BY <1>3
  <2>3. offered => Len(s) - 1 \in 1 .. Len(s) - 1 /\ (Len(s) - 1) + 1 = Len(s)
    BY <1>3
  <2>4. offered => Tail(s)[Len(s) - 1] = s[Len(s)]
    BY <2>2, <2>3
  <2>5. offered => Tail(s) # <<>>
    <3>1. Len(<<>>) = 0
      OBVIOUS
    <3>2. offered => Len(Tail(s)) # 0
      BY <1>3
    <3> QED
      BY <3>1, <3>2
  <2> QED
    BY <1>3, <2>1, <2>4, <2>5
<1> QED
  BY <1>4, <1>5, <1>6 DEF Line

\* The commands of the writes the master waits for.
CommandsOf(bursts) == [k \in 1 .. Len(bursts) |-> bursts[k].cmd]

LineInv ==
  /\ Line(cmdQueue, {FALSE}, openReads, arvalid, ar)
  /\ Line(cmdQueue, {TRUE}, CommandsOf(openWrites), awvalid, aw)

\* The commands of the bursts, under each of the operations on the list of bursts.
LEMMA CommandsOfBursts ==
  ASSUME NEW S, NEW s \in Seq(S)
  PROVE  /\ CommandsOf(s) \in Seq({b.cmd : b \in S}) /\ Len(CommandsOf(s)) = Len(s)
         /\ \A k \in 1 .. Len(s) : CommandsOf(s)[k] = s[k].cmd
         /\ s # <<>> => CommandsOf(Tail(s)) = Tail(CommandsOf(s))
         /\ \A b \in S : CommandsOf(Append(s, b)) = Append(CommandsOf(s), b.cmd)
<1>1. /\ CommandsOf(s) \in Seq({b.cmd : b \in S}) /\ Len(CommandsOf(s)) = Len(s)
      /\ \A k \in 1 .. Len(s) : CommandsOf(s)[k] = s[k].cmd
  BY DEF CommandsOf
<1>2. ASSUME s # <<>> PROVE CommandsOf(Tail(s)) = Tail(CommandsOf(s))
  <2>1. Tail(s) \in Seq(S) /\ CommandsOf(s) # <<>>
    BY <1>1, <1>2
  <2>2. CommandsOf(Tail(s)) \in Seq({b.cmd : b \in S}) /\ Tail(CommandsOf(s)) \in Seq({b.cmd : b \in S})
    BY <1>1, <2>1 DEF CommandsOf
  <2>3. Len(CommandsOf(Tail(s))) = Len(Tail(CommandsOf(s)))
    BY <1>1, <1>2, <2>1 DEF CommandsOf
  <2>4. \A k \in 1 .. Len(Tail(s)) : CommandsOf(Tail(s))[k] = Tail(CommandsOf(s))[k]
    BY <1>1, <1>2, <2>1 DEF CommandsOf
  <2> QED
    BY <1>1, <2>1, <2>2, <2>3, <2>4, SeqEqual DEF CommandsOf
<1>3. ASSUME NEW b \in S PROVE CommandsOf(Append(s, b)) = Append(CommandsOf(s), b.cmd)
  <2>1. Append(s, b) \in Seq(S)
    OBVIOUS
  <2>2. /\ CommandsOf(Append(s, b)) \in Seq({x.cmd : x \in S})
        /\ Append(CommandsOf(s), b.cmd) \in Seq({x.cmd : x \in S})
    BY <1>1, <2>1 DEF CommandsOf
  <2>3. Len(CommandsOf(Append(s, b))) = Len(Append(CommandsOf(s), b.cmd))
    BY <1>1, <2>1 DEF CommandsOf
  <2>4. \A k \in 1 .. Len(s) + 1 : CommandsOf(Append(s, b))[k] = Append(CommandsOf(s), b.cmd)[k]
    BY <1>1, <2>1 DEF CommandsOf
  <2> QED
    BY <1>1, <2>1, <2>2, <2>3, <2>4, SeqEqual DEF CommandsOf
<1> QED
  BY <1>1, <1>2, <1>3

\* At first the line is empty.
LEMMA LineInit == HistoryInit => LineInv
<1> SUFFICES ASSUME HistoryInit PROVE LineInv
  OBVIOUS
<1>1. /\ cmdQueue = <<>> /\ openReads = <<>> /\ openWrites = <<>>
      /\ awvalid = FALSE /\ arvalid = FALSE
  BY DEF HistoryInit, Init, Arb!Init, Arb!CmdQueue!Init
<1>2. \A V, s, n : LinedUp(<<>>, V, s, n)
  BY DEF LinedUp
<1> QED
  BY <1>1, <1>2 DEF LineInv, Line

\* The accounts leave room for what is in the line: an answer is of an earlier command.
LineFits ==
  /\ Rest(cmdQueue, "write", {FALSE}, 1) + One(arvalid) + LastsIn(readQueue)
       + Master!ReadPending = Len(openReads)
  /\ Rest(cmdQueue, "write", {TRUE}, 1) + One(awvalid) + Len(respQueue)
       + Master!RespPending = Len(openWrites)
  /\ Rest(cmdQueue, "write", {FALSE}, 1) \in Nat /\ Rest(cmdQueue, "write", {TRUE}, 1) \in Nat
  /\ One(arvalid) \in {0, 1} /\ One(awvalid) \in {0, 1}
  /\ LastsIn(readQueue) \in Nat /\ Len(respQueue) \in Nat
  /\ Master!ReadPending \in {0, 1} /\ Master!RespPending \in {0, 1}
  /\ openReads \in Seq(ReadCommands) /\ openWrites \in Seq(WriteBursts)
  /\ cmdQueue \in Seq(Commands)

\* These are the accounts of TrafficInv.
LEMMA TrafficLinesUp == ASSUME TrafficInv PROVE LineFits
<1>1. /\ One(arvalid) \in {0, 1} /\ One(awvalid) \in {0, 1}
      /\ Master!ReadPending \in {0, 1} /\ Master!RespPending \in {0, 1}
  BY DEF One, Master!ReadPending, Master!RespPending
<1>2. PICK S : readQueue \in Seq(S)
  BY DEF TrafficInv, BridgeInv, QueuesSafe, Bracketed
<1>3. PICK T : respQueue \in Seq(T)
  BY DEF TrafficInv, BridgeInv, QueuesSafe, Bracketed
<1>4. LastsIn(readQueue) \in Nat /\ Len(respQueue) \in Nat
  BY <1>2, <1>3, CountsTyped
<1>5. WritesIn(cmdQueue) \in Nat /\ ReadsIn(cmdQueue) \in Nat
  BY ArbFacts, CountsTyped DEF TrafficInv
<1>6. /\ WritesIn(cmdQueue) = Rest(cmdQueue, "write", {TRUE}, 1)
      /\ ReadsIn(cmdQueue) = Rest(cmdQueue, "write", {FALSE}, 1)
  BY DEF WritesIn, ReadsIn, Count
<1>7. /\ openReads \in Seq(ReadCommands) /\ openWrites \in Seq(WriteBursts)
      /\ cmdQueue \in Seq(Commands)
  BY ArbFacts DEF TrafficInv, QueuesTyped
<1>8. /\ Len(openWrites) = One(awvalid) + WritesIn(cmdQueue) + Master!RespPending + Len(respQueue)
      /\ Len(openReads) = One(arvalid) + ReadsIn(cmdQueue) + Master!ReadPending + LastsIn(readQueue)
  BY DEF TrafficInv, Accounted
<1> QED
  BY <1>1, <1>4, <1>5, <1>6, <1>7, <1>8 DEF LineFits

\* What has a length is not empty.
LEMMA NotEmpty ==
  ASSUME NEW q, Len(q) # 0
  PROVE  q # <<>>
OBVIOUS

\* An edge of aclk moves the command of one channel from the offer to the queue.
LEMMA AclkKeepsLine ==
  ASSUME TrafficInv, TrafficInv', LineInv, NEW w \in BOOLEAN, NEW b \in BOOLEAN,
         NEW r \in BOOLEAN, AclkWith(w, b, r)
  PROVE  LineInv'
<1>1. /\ aw' = aw /\ ar' = ar
      /\ cmdQueue' = IF Arb!awready THEN Append(cmdQueue, aw)
                     ELSE IF Arb!arready THEN Append(cmdQueue, ar) ELSE cmdQueue
      /\ awvalid' = (awvalid /\ ~Arb!awready) /\ arvalid' = (arvalid /\ ~Arb!arready)
      /\ openWrites' = IF b THEN Tail(openWrites) ELSE openWrites
      /\ openReads' = IF r /\ Head(readQueue).last THEN Tail(openReads) ELSE openReads
  BY AclkMoves
<1>2. /\ aw \in WriteCommands /\ ar \in ReadCommands
      /\ awvalid \in BOOLEAN /\ arvalid \in BOOLEAN /\ cmdQueue \in Seq(Commands)
      /\ Arb!awready => awvalid /\ ~Arb!arready
      /\ Arb!arready => arvalid /\ ~Arb!awready
  BY ArbFacts DEF TrafficInv
<1>3. aw.write = TRUE /\ ar.write = FALSE
  BY <1>2, KindOfCommand
<1>4. openReads \in Seq(ReadCommands) /\ openWrites \in Seq(WriteBursts)
  BY DEF TrafficInv, QueuesTyped
<1>5. LineFits'
  BY TrafficLinesUp, PTL
<1>6. /\ Rest(cmdQueue', "write", {FALSE}, 1) + One(arvalid') <= Len(openReads')
      /\ Rest(cmdQueue', "write", {TRUE}, 1) + One(awvalid') + Len(respQueue') <= Len(openWrites')
      /\ Rest(cmdQueue', "write", {FALSE}, 1) \in Nat /\ Rest(cmdQueue', "write", {TRUE}, 1) \in Nat
      /\ One(arvalid') \in Nat /\ One(awvalid') \in Nat /\ Len(respQueue') \in Nat
      /\ cmdQueue' \in Seq(Commands)
  <2> DEFINE x == Rest(cmdQueue', "write", {FALSE}, 1)  y == One(arvalid')
             u == Rest(cmdQueue', "write", {TRUE}, 1)   v == One(awvalid')
             l == LastsIn(readQueue')  p == Master!ReadPending'
             a == Len(respQueue')      t == Master!RespPending'
             m == Len(openReads')      n == Len(openWrites')
  <2>1. /\ x + y + l + p = m /\ u + v + a + t = n
        /\ x \in Nat /\ u \in Nat /\ y \in {0, 1} /\ v \in {0, 1} /\ l \in Nat /\ a \in Nat
        /\ p \in {0, 1} /\ t \in {0, 1} /\ cmdQueue' \in Seq(Commands)
    BY <1>5 DEF LineFits
  <2> HIDE DEF x, y, u, v, l, p, a, t, m, n
  <2>2. x + y <= m /\ u + v + a <= n /\ y \in Nat /\ v \in Nat
    BY <2>1
  <2> QED
    BY <2>1, <2>2 DEF x, y, u, v, l, p, a, t, m, n
<1>7. Line(cmdQueue', {FALSE}, openReads', arvalid', ar')
  <2>1. Line(cmdQueue', {FALSE}, openReads, arvalid', ar)
    <3>1. CASE Arb!arready
      BY <1>1, <1>2, <1>3, <1>4, <3>1, LineAccept DEF LineInv
    <3>2. CASE Arb!awready
      BY <1>1, <1>2, <1>3, <1>4, <3>2, LineOther DEF LineInv
    <3>3. CASE ~Arb!awready /\ ~Arb!arready
      BY <1>1, <1>2, <3>3 DEF LineInv
    <3> QED
      BY <3>1, <3>2, <3>3
  <2>2. CASE r /\ Head(readQueue).last
    <3>1. Len(openReads') = Len(openReads) - 1 /\ Len(openReads) \in Nat
      BY <2>2, AclkAnswers DEF ReadAnswered, One
    <3>2. Rest(cmdQueue', "write", {FALSE}, 1) + One(arvalid') < Len(openReads)
      BY <1>6, <3>1
    <3>3. Line(cmdQueue', {FALSE}, Tail(openReads), arvalid', ar)
      BY <1>4, <1>6, <2>1, <3>2, LineAnswer
    <3> QED
      BY <1>1, <2>2, <3>3
  <2>3. CASE ~(r /\ Head(readQueue).last)
    BY <1>1, <2>1, <2>3
  <2> QED
    BY <2>2, <2>3
<1>8. Line(cmdQueue', {TRUE}, CommandsOf(openWrites'), awvalid', aw')
  <2> DEFINE s == CommandsOf(openWrites)
  <2>0. s \in Seq({x.cmd : x \in WriteBursts}) /\ Len(s) = Len(openWrites)
    BY <1>4, CommandsOfBursts
  <2>1. Line(cmdQueue', {TRUE}, s, awvalid', aw)
    <3>0. Line(cmdQueue, {TRUE}, s, awvalid, aw)
      BY DEF LineInv
    <3> HIDE DEF s
    <3>1. CASE Arb!awready
      BY <1>1, <1>2, <1>3, <2>0, <3>0, <3>1, LineAccept
    <3>2. CASE Arb!arready
      BY <1>1, <1>2, <1>3, <2>0, <3>0, <3>2, LineOther
    <3>3. CASE ~Arb!awready /\ ~Arb!arready
      BY <1>1, <1>2, <3>0, <3>3
    <3> QED
      BY <3>1, <3>2, <3>3
  <2>2. CASE b
    <3>1. Len(openWrites') = Len(openWrites) - 1 /\ Len(openWrites) \in Nat
      BY <2>2, AclkAnswers DEF One
    <3>2. Rest(cmdQueue', "write", {TRUE}, 1) + One(awvalid') < Len(s)
      BY <1>6, <2>0, <3>1
    <3>3. Line(cmdQueue', {TRUE}, Tail(s), awvalid', aw)
      <4> HIDE DEF s
      <4> QED
        BY <1>6, <2>0, <2>1, <3>2, LineAnswer
    <3>4. Tail(s) = CommandsOf(Tail(openWrites))
      <4>1. openWrites # <<>>
        BY <1>6, <3>1, NotEmpty
      <4> QED
        BY <1>4, <4>1, CommandsOfBursts
    <3> QED
      BY <1>1, <2>2, <3>3, <3>4
  <2>3. CASE ~b
    BY <1>1, <2>1, <2>3
  <2> QED
    BY <2>2, <2>3
<1> QED
  BY <1>7, <1>8 DEF LineInv

\* An edge of pclk takes at most the oldest command.
LEMMA PclkKeepsLine == ASSUME TrafficInv, LineInv, PclkEdge PROVE LineInv'
<1>1. /\ Master!PopCmdQueue => cmdQueue # <<>>
      /\ cmdQueue' = IF Master!PopCmdQueue THEN Tail(cmdQueue) ELSE cmdQueue
  BY PclkMoves
<1>2. UNCHANGED <<awvalid, aw, arvalid, ar, openReads, openWrites>>
  BY DEF PclkEdge, channels
<1>3. /\ cmdQueue \in Seq(Commands) /\ openReads \in Seq(ReadCommands)
      /\ CommandsOf(openWrites) \in Seq({x.cmd : x \in WriteBursts})
  BY TrafficLinesUp, CommandsOfBursts DEF LineFits
<1>4. Line(cmdQueue', {FALSE}, openReads, arvalid, ar)
  BY <1>1, <1>3, LineTake DEF LineInv
<1>5. Line(cmdQueue', {TRUE}, CommandsOf(openWrites), awvalid, aw)
  BY <1>1, <1>3, LineTake DEF LineInv
<1> QED
  BY <1>2, <1>4, <1>5 DEF LineInv

\* A command is sent behind the others.
LEMMA SendsKeepLine ==
  ASSUME TrafficInv, LineInv, SendWrite \/ SendRead \/ UNCHANGED vars
  PROVE  LineInv'
<1>0. openReads \in Seq(ReadCommands) /\ openWrites \in Seq(WriteBursts)
  BY TrafficLinesUp DEF LineFits
<1>1. CASE SendWrite
  <2>1. PICK b \in WriteBursts : openWrites' = Append(openWrites, b) /\ aw' = b.cmd
    BY <1>1 DEF SendWrite
  <2>2. /\ ~awvalid /\ awvalid' = TRUE
        /\ UNCHANGED <<arvalid, ar, openReads, cmdQueue>>
    BY <1>1 DEF SendWrite, Arb!SendWrite, Arb!queueVars
  <2>3. /\ CommandsOf(openWrites') = Append(CommandsOf(openWrites), b.cmd)
        /\ CommandsOf(openWrites) \in Seq({x.cmd : x \in WriteBursts})
    BY <1>0, <2>1, CommandsOfBursts
  <2>4. Line(cmdQueue, {TRUE}, CommandsOf(openWrites), FALSE, aw)
    BY <2>2 DEF LineInv, Line
  <2>5. Line(cmdQueue, {TRUE}, CommandsOf(openWrites'), TRUE, b.cmd)
    BY <2>3, <2>4, LineOffer
  <2> QED
    BY <2>1, <2>2, <2>5 DEF LineInv
<1>2. CASE SendRead
  <2>1. openReads' = Append(openReads, ar')
    BY <1>2 DEF SendRead
  <2>2. /\ ~arvalid /\ arvalid' = TRUE
        /\ UNCHANGED <<awvalid, aw, openWrites, cmdQueue>>
    BY <1>2 DEF SendRead, Arb!SendRead, Arb!queueVars
  <2>4. Line(cmdQueue, {FALSE}, openReads, FALSE, ar)
    BY <2>2 DEF LineInv, Line
  <2>5. Line(cmdQueue, {FALSE}, openReads', TRUE, ar')
    BY <1>0, <2>1, <2>4, LineOffer
  <2> QED
    BY <2>1, <2>2, <2>5 DEF LineInv
<1>3. CASE UNCHANGED vars
  BY <1>3 DEF vars, channels, queues, cmdVars, partners, LineInv
<1> QED
  BY <1>1, <1>2, <1>3

----------------------------------------------------------------------------
(* The beats in the read buffer are those the master waits for, in order.   *)

\* The n-th beat of the read c is r, as the master may see it.
RightBeat(slaves, r, c, n) ==
  /\ n <= c.len /\ r.id = c.id /\ r.last = (n = c.len)
  /\ (\E j \in 0 .. n : BadBeat(c, j)) => r.error
  /\ (slaves = "echoing" /\ ~r.error) => r.data = AxiAddress(c, n)

\* The oldest read is answered first: its beats come before the first last flag.
ReadOf(q, i) == LastsIn(q) + 1 - Rest(q, "last", {TRUE}, i)

\* The number of the beat after a beat.
After(r, n) == IF r.last THEN 0 ELSE n + 1

\* The beats q are those of the reads s, ns their numbers and that of the next one.
InOrder(slaves, q, s, ns) ==
  /\ ns \in Seq(Nat) /\ Len(ns) = Len(q) + 1
  /\ \A i \in 1 .. Len(q) :
       /\ ReadOf(q, i) \in 1 .. Len(s)
       /\ RightBeat(slaves, q[i], s[ReadOf(q, i)], ns[i])
       /\ ns[i + 1] = After(q[i], ns[i])

\* A last flag taken makes the beats behind it those of one read earlier.
LEMMA ReadOfTail ==
  ASSUME NEW S, NEW q \in Seq(S), q # <<>>, NEW i \in 1 .. Len(Tail(q)),
         Head(q).last \in BOOLEAN
  PROVE  /\ ReadOf(Tail(q), i) = ReadOf(q, i + 1) - One(Head(q).last)
         /\ ReadOf(q, i + 1) \in Nat
         /\ Head(q).last => ReadOf(q, i + 1) >= 2
<1>1. /\ Len(q) \in Nat \ {0} /\ Len(Tail(q)) = Len(q) - 1
      /\ i \in Nat \ {0} /\ i + 1 \in Nat \ {0} /\ i + 1 \in Nat
      /\ 1 \in Nat \ {0} /\ 2 \in Nat \ {0} /\ 2 <= i + 1
  OBVIOUS
<1>2. Rest(Tail(q), "last", {TRUE}, i) = Rest(q, "last", {TRUE}, i + 1)
  BY <1>1, RestOfTail
<1>3. /\ LastsIn(Tail(q)) = LastsIn(q) - One(Head(q).last)
      /\ LastsIn(q) \in Nat
  BY BeatTaken, CountsTyped
<1>4. LastsIn(Tail(q)) = Rest(q, "last", {TRUE}, 1 + 1)
  BY <1>1, RestOfTail DEF LastsIn, Count
<1>5. Rest(q, "last", {TRUE}, i + 1) <= Rest(q, "last", {TRUE}, 2)
  BY <1>1, RestFalls
<1>6. Rest(q, "last", {TRUE}, i + 1) \in Nat /\ Rest(q, "last", {TRUE}, 2) \in Nat
  BY <1>1, PlacesFinite
<1>7. One(Head(q).last) = IF Head(q).last THEN 1 ELSE 0
  BY DEF One
<1> DEFINE r == Rest(q, "last", {TRUE}, i + 1)
           t == Rest(q, "last", {TRUE}, 2)
           l == LastsIn(q)
           o == One(Head(q).last)
           k == Rest(Tail(q), "last", {TRUE}, i)
           m == LastsIn(Tail(q))
<1>8. /\ k = r /\ m = l - o /\ l \in Nat /\ m = t /\ r <= t /\ r \in Nat /\ t \in Nat
      /\ o = IF Head(q).last THEN 1 ELSE 0
  BY <1>2, <1>3, <1>4, <1>5, <1>6, <1>7
<1>9. m + 1 - k = (l + 1 - r) - o /\ l + 1 - r \in Nat /\ (Head(q).last => l + 1 - r >= 2)
  <2> HIDE DEF r, t, l, o, k, m
  <2> QED
    BY <1>8
<1> QED
  BY <1>9 DEF ReadOf

\* The master takes the first beat, and with a last flag the first read,
LEMMA BeatsTaken ==
  ASSUME NEW slaves, NEW S, NEW q \in Seq(S), q # <<>>, NEW T, NEW s \in Seq(T),
         NEW ns, InOrder(slaves, q, s, ns), Head(q).last \in BOOLEAN
  PROVE  /\ InOrder(slaves, Tail(q), IF Head(q).last THEN Tail(s) ELSE s, Tail(ns))
         /\ Tail(ns)[1] = After(Head(q), ns[1])
         /\ Tail(ns)[Len(Tail(ns))] = ns[Len(ns)]
<1>1. /\ ns \in Seq(Nat) /\ Len(ns) = Len(q) + 1 /\ Len(q) \in Nat \ {0}
      /\ Len(Tail(q)) = Len(q) - 1
      /\ \A i \in 1 .. Len(q) - 1 : Tail(q)[i] = q[i + 1]
  BY DEF InOrder
<1>2. /\ Tail(ns) \in Seq(Nat) /\ Len(Tail(ns)) = Len(ns) - 1
      /\ \A i \in 1 .. Len(q) : Tail(ns)[i] = ns[i + 1]
  <2>1. ns # <<>>
    BY <1>1, NotEmpty
  <2> QED
    BY <1>1, <2>1
<1>3. ASSUME NEW i \in 1 .. Len(Tail(q))
      PROVE  LET t == IF Head(q).last THEN Tail(s) ELSE s IN
             /\ ReadOf(Tail(q), i) \in 1 .. Len(t)
             /\ RightBeat(slaves, Tail(q)[i], t[ReadOf(Tail(q), i)], Tail(ns)[i])
             /\ Tail(ns)[i + 1] = After(Tail(q)[i], Tail(ns)[i])
  <2> DEFINE k == ReadOf(q, i + 1)
  <2>1. i + 1 \in 1 .. Len(q) /\ i \in 1 .. Len(q) - 1 /\ i \in 1 .. Len(q)
    BY <1>1
  <2>2. /\ Tail(q)[i] = q[i + 1] /\ Tail(ns)[i] = ns[i + 1]
        /\ Tail(ns)[i + 1] = ns[(i + 1) + 1]
    BY <1>1, <1>2, <2>1
  <2>3. /\ k \in 1 .. Len(s) /\ RightBeat(slaves, q[i + 1], s[k], ns[i + 1])
        /\ ns[(i + 1) + 1] = After(q[i + 1], ns[i + 1])
    BY <2>1 DEF InOrder
  <2>4. /\ ReadOf(Tail(q), i) = k - One(Head(q).last)
        /\ Head(q).last => k >= 2
    BY ReadOfTail
  <2> HIDE DEF k
  <2>5. CASE Head(q).last
    <3>1. /\ s # <<>> /\ Len(Tail(s)) = Len(s) - 1 /\ Tail(s)[k - 1] = s[k]
      BY <2>3, <2>4, <2>5
    <3>2. ReadOf(Tail(q), i) = k - 1
      BY <2>4, <2>5 DEF One
    <3>3. k - 1 \in 1 .. Len(Tail(s))
      BY <2>3, <2>4, <2>5, <3>1
    <3>4. RightBeat(slaves, Tail(q)[i], Tail(s)[k - 1], Tail(ns)[i])
      BY <2>2, <2>3, <3>1
    <3> QED
      BY <2>2, <2>3, <2>5, <3>2, <3>3, <3>4
  <2>6. CASE ~Head(q).last
    <3>1. ReadOf(Tail(q), i) = k
      BY <2>3, <2>4, <2>6 DEF One
    <3> QED
      BY <2>2, <2>3, <2>6, <3>1
  <2> QED
    BY <2>5, <2>6
<1>4. Tail(ns)[1] = After(Head(q), ns[1])
  <2>1. 1 \in 1 .. Len(q) /\ Head(q) = q[1]
    BY <1>1
  <2> QED
    BY <1>2, <2>1 DEF InOrder
<1>5. Tail(ns)[Len(Tail(ns))] = ns[Len(ns)]
  BY <1>1, <1>2
<1>6. Len(Tail(ns)) = Len(Tail(q)) + 1
  BY <1>1, <1>2
<1> QED
  BY <1>2, <1>3, <1>4, <1>5, <1>6 DEF InOrder

\* the APB side adds the next beat of the first read without its last one,
LEMMA BeatPushed ==
  ASSUME NEW slaves, NEW S, NEW q \in Seq(S), NEW T, NEW s \in Seq(T), NEW ns,
         InOrder(slaves, q, s, ns),
         NEW r, r.last \in BOOLEAN, LastsIn(q) + 1 <= Len(s),
         RightBeat(slaves, r, s[LastsIn(q) + 1], ns[Len(ns)])
  PROVE  /\ InOrder(slaves, Append(q, r), s, Append(ns, After(r, ns[Len(ns)])))
         /\ Append(ns, After(r, ns[Len(ns)]))[1] = ns[1]
         /\ Append(ns, After(r, ns[Len(ns)]))[Len(ns) + 1] = After(r, ns[Len(ns)])
<1> DEFINE a == Append(q, r)
           n == Len(q)
           x == After(r, ns[n + 1])
           b == Append(ns, x)
<1>1. ns \in Seq(Nat) /\ Len(ns) = n + 1 /\ n \in Nat
  BY DEF InOrder
<1>2. ns[n + 1] \in Nat /\ x \in Nat
  BY <1>1 DEF After
<1>3. /\ b \in Seq(Nat) /\ Len(b) = n + 2 /\ b[n + 2] = x
      /\ \A i \in 1 .. n + 1 : b[i] = ns[i]
  <2> HIDE DEF x, n
  <2> QED
    BY <1>1, <1>2
<1>4. /\ Len(a) = n + 1 /\ a[n + 1] = r /\ \A i \in 1 .. n : a[i] = q[i]
  <2>1. q \in Seq(S \cup {r})
    BY SeqMonotone
  <2> QED
    BY <2>1
<1>5. LastsIn(q) \in Nat /\ Len(s) \in Nat
  BY CountsTyped
<1>6. ASSUME NEW i \in 1 .. n + 1
      PROVE  ReadOf(a, i) = ReadOf(q, i)
  <2>1. Rest(a, "last", {TRUE}, i) = Rest(q, "last", {TRUE}, i) + One(r["last"] \in {TRUE})
    <3>1. \A f, V : Rest(a, f, V, i) = Rest(q, f, V, i) + One(r[f] \in V)
      BY <1>6, RestAppended
    <3> QED
      BY <3>1
  <2>2. LastsIn(a) = LastsIn(q) + One(r.last)
    BY BeatAppended
  <2>3. One(r["last"] \in {TRUE}) = One(r.last) /\ One(r.last) \in Nat
    BY DEF One
  <2>4. Rest(q, "last", {TRUE}, i) \in Nat
    <3>1. i \in Nat \ {0}
      BY <1>1, <1>6
    <3> QED
      BY <3>1, PlacesFinite
  <2> DEFINE l == LastsIn(q)  o == One(r.last)  k == Rest(q, "last", {TRUE}, i)
             m == LastsIn(a)  j == Rest(a, "last", {TRUE}, i)
  <2>5. l \in Nat /\ o \in Nat /\ k \in Nat /\ m = l + o /\ j = k + o
    BY <1>5, <2>1, <2>2, <2>3, <2>4
  <2>6. m + 1 - j = l + 1 - k
    <3> HIDE DEF l, o, k, m, j
    <3> QED
      BY <2>5
  <2> QED
    BY <2>6 DEF ReadOf
<1>7. ASSUME NEW i \in 1 .. n + 1
      PROVE  /\ ReadOf(a, i) \in 1 .. Len(s)
             /\ RightBeat(slaves, a[i], s[ReadOf(a, i)], b[i])
             /\ b[i + 1] = After(a[i], b[i])
  <2>1. CASE i \in 1 .. n
    <3>1. /\ ReadOf(q, i) \in 1 .. Len(s) /\ RightBeat(slaves, q[i], s[ReadOf(q, i)], ns[i])
          /\ ns[i + 1] = After(q[i], ns[i])
      BY <2>1 DEF InOrder
    <3>2. a[i] = q[i] /\ b[i] = ns[i] /\ b[i + 1] = ns[i + 1]
      BY <1>1, <1>3, <1>4, <2>1
    <3> QED
      BY <1>6, <3>1, <3>2
  <2>2. CASE i = n + 1
    <3>1. ReadOf(q, i) = LastsIn(q) + 1
      <4>1. i \in Nat \ {0} /\ i > Len(q)
        BY <1>1, <2>2
      <4>2. Rest(q, "last", {TRUE}, i) = 0
        BY <4>1, PlacesFinite
      <4> QED
        BY <1>5, <4>2 DEF ReadOf
    <3>2. a[i] = r /\ b[i] = ns[n + 1] /\ b[i + 1] = x
      BY <1>1, <1>3, <1>4, <2>2
    <3>3. LastsIn(q) + 1 \in 1 .. Len(s)
      BY <1>5
    <3>4. RightBeat(slaves, r, s[LastsIn(q) + 1], ns[n + 1])
      BY <1>1
    <3> HIDE DEF a, b, n
    <3> QED
      BY <1>6, <3>1, <3>2, <3>3, <3>4
  <2> QED
    BY <1>1, <1>7, <2>1, <2>2
<1>8. InOrder(slaves, a, s, b)
  <2>1. Len(b) = Len(a) + 1
    BY <1>1, <1>3, <1>4
  <2> HIDE DEF b, x
  <2> QED
    BY <1>3, <1>4, <1>7, <2>1 DEF InOrder
<1> QED
  BY <1>1, <1>3, <1>8

\* and a read is sent behind the others.
LEMMA ReadSent ==
  ASSUME NEW slaves, NEW q, NEW T, NEW s \in Seq(T), NEW ns,
         InOrder(slaves, q, s, ns), NEW x
  PROVE  InOrder(slaves, q, Append(s, x), ns)
<1>1. s \in Seq(T \cup {x})
  BY SeqMonotone
<1>2. Len(Append(s, x)) = Len(s) + 1 /\ \A k \in 1 .. Len(s) : Append(s, x)[k] = s[k]
  BY <1>1
<1>3. ASSUME NEW i \in 1 .. Len(q)
      PROVE  /\ ReadOf(q, i) \in 1 .. Len(Append(s, x))
             /\ Append(s, x)[ReadOf(q, i)] = s[ReadOf(q, i)]
  <2>1. ReadOf(q, i) \in 1 .. Len(s) /\ Len(s) \in Nat
    BY DEF InOrder
  <2> QED
    BY <1>2, <2>1
<1> QED
  BY <1>3 DEF InOrder

\* The APB side still owes a beat of the read it has begun.
ReadInHand == ~owner.write /\ (state # "IDLE" \/ pushReadReg)

\* The beats in the buffer, and the read they are followed by.
BeatsInv(slaves) ==
  /\ InOrder(slaves, readQueue, openReads, numbers)
  /\ numbers[1] = beatsGot
  /\ numbers[Len(numbers)] = IF ReadInHand THEN served ELSE 0
  /\ ReadInHand =>
       LastsIn(readQueue) + 1 <= Len(openReads) /\ owner = openReads[LastsIn(readQueue) + 1]

\* At first no beat is waiting.
LEMMA BeatsInit == ASSUME NEW slaves PROVE HistoryInit => BeatsInv(slaves)
<1> SUFFICES ASSUME HistoryInit PROVE BeatsInv(slaves)
  OBVIOUS
<1>1. /\ readQueue = <<>> /\ openReads = <<>> /\ numbers = <<0>> /\ beatsGot = 0
      /\ state = "IDLE" /\ pushReadReg = FALSE
  BY DEF HistoryInit, Init, ReadQueue!Init, Apb!Reset
<1>2. numbers \in Seq(Nat) /\ Len(numbers) = 1 /\ numbers[1] = 0 /\ Len(readQueue) = 0
  BY <1>1
<1> QED
  BY <1>1, <1>2 DEF BeatsInv, InOrder, ReadInHand

\* An edge of aclk takes at most the first beat.
LEMMA AclkKeepsBeats ==
  ASSUME NEW slaves, TrafficInv, BeatsInv(slaves),
         NEW w \in BOOLEAN, NEW b \in BOOLEAN, NEW r \in BOOLEAN,
         AclkWith(w, b, r), AclkRecorded(r)
  PROVE  BeatsInv(slaves)'
<1>1. /\ readQueue' = IF r THEN Tail(readQueue) ELSE readQueue
      /\ r => readQueue # <<>>
      /\ openReads' = IF r /\ Head(readQueue).last THEN Tail(openReads) ELSE openReads
  BY AclkMoves
<1>2. /\ beatsGot' = IF r /\ Head(readQueue).last THEN 0 ELSE beatsGot + (IF r THEN 1 ELSE 0)
      /\ numbers' = IF r THEN Tail(numbers) ELSE numbers
      /\ UNCHANGED <<state, pushReadReg, owner, served>>
  BY DEF AclkWith, AclkRecorded, registers
<1>3. PICK S : readQueue \in Seq(S)
  BY DEF TrafficInv, BridgeInv, QueuesSafe, Bracketed
<1>4. /\ openReads \in Seq(ReadCommands) /\ Len(openReads) \in Nat
      /\ \A i \in 1 .. Len(readQueue) : readQueue[i].last \in BOOLEAN
  BY DEF TrafficInv, QueuesTyped
<1>5. ReadInHand' = ReadInHand
  BY <1>2 DEF ReadInHand
<1>6. CASE r
  <2>1. Head(readQueue).last \in BOOLEAN
    BY <1>1, <1>3, <1>4, <1>6, TailTyped
  <2>2. InOrder(slaves, readQueue, openReads, numbers) /\ numbers[1] = beatsGot
    BY DEF BeatsInv
  <2>3. /\ InOrder(slaves, readQueue', openReads', numbers')
        /\ numbers'[1] = After(Head(readQueue), numbers[1])
        /\ numbers'[Len(numbers')] = numbers[Len(numbers)]
    <3>1. readQueue # <<>> /\ readQueue' = Tail(readQueue) /\ numbers' = Tail(numbers)
      BY <1>1, <1>2, <1>6
    <3>2. openReads' = IF Head(readQueue).last THEN Tail(openReads) ELSE openReads
      BY <1>1, <1>6
    <3>3. /\ InOrder(slaves, Tail(readQueue),
                     IF Head(readQueue).last THEN Tail(openReads) ELSE openReads, Tail(numbers))
          /\ Tail(numbers)[1] = After(Head(readQueue), numbers[1])
          /\ Tail(numbers)[Len(Tail(numbers))] = numbers[Len(numbers)]
      <4>1. openReads \in Seq(ReadCommands) /\ readQueue # <<>>
        BY <1>4, <3>1
      <4>2. \A s \in Seq(ReadCommands) : \A ns :
              InOrder(slaves, readQueue, s, ns) =>
                /\ InOrder(slaves, Tail(readQueue),
                           IF Head(readQueue).last THEN Tail(s) ELSE s, Tail(ns))
                /\ Tail(ns)[1] = After(Head(readQueue), ns[1])
                /\ Tail(ns)[Len(Tail(ns))] = ns[Len(ns)]
        BY <1>3, <2>1, <4>1, BeatsTaken
      <4> QED
        BY <2>2, <4>1, <4>2
    <3> QED
      BY <3>1, <3>2, <3>3
  <2>4. beatsGot' = After(Head(readQueue), beatsGot)
    BY <1>2, <1>6 DEF After
  <2>5. /\ LastsIn(readQueue') = LastsIn(readQueue) - One(ReadAnswered(r))
        /\ LastsIn(readQueue) \in Nat
        /\ Len(openReads') = Len(openReads) - One(ReadAnswered(r))
        /\ LastsIn(readQueue') \in Nat
    <3>1. readQueue' \in Seq(S)
      BY <1>1, <1>3, <1>6
    <3> QED
      BY <3>1, AclkAnswers, CountsTyped
  <2>6. ASSUME ReadInHand
        PROVE  /\ LastsIn(readQueue') + 1 <= Len(openReads')
               /\ owner = openReads'[LastsIn(readQueue') + 1]
    <3> DEFINE l == LastsIn(readQueue)
    <3>1. l + 1 <= Len(openReads) /\ owner = openReads[l + 1]
      BY <2>6 DEF BeatsInv
    <3>2. CASE Head(readQueue).last
      <4>1. openReads' = Tail(openReads) /\ One(ReadAnswered(r)) = 1
        BY <1>1, <1>6, <3>2 DEF ReadAnswered, One
      <4>2. LastsIn(readQueue') = l - 1 /\ l \in Nat \ {0} /\ Len(openReads') = Len(openReads) - 1
        BY <2>5, <4>1
      <4>3. (l - 1) + 1 <= Len(openReads) - 1 /\ openReads # <<>>
        BY <1>4, <3>1, <4>2, NotEmpty
      <4>4. Tail(openReads)[(l - 1) + 1] = openReads[l + 1]
        <5> HIDE DEF l
        <5> QED
          BY <1>4, <3>1, <4>2, <4>3
      <4> QED
        BY <3>1, <4>1, <4>2, <4>3, <4>4
    <3>3. CASE ~Head(readQueue).last
      <4>1. openReads' = openReads /\ One(ReadAnswered(r)) = 0
        BY <1>1, <3>3 DEF ReadAnswered, One
      <4> QED
        BY <2>5, <3>1, <4>1
    <3> QED
      BY <3>2, <3>3
  <2> QED
    BY <1>2, <1>5, <2>2, <2>3, <2>4, <2>6 DEF BeatsInv
<1>7. CASE ~r
  <2>1. /\ readQueue' = readQueue /\ openReads' = openReads /\ numbers' = numbers
        /\ UNCHANGED <<owner, served>>
    BY <1>1, <1>2, <1>7
  <2>2. beatsGot' = beatsGot
    <3>1. beatsGot \in Nat
      BY DEF BeatsInv, InOrder
    <3> QED
      BY <1>2, <1>7, <3>1
  <2> QED
    BY <1>5, <2>1, <2>2 DEF BeatsInv
<1> QED
  BY <1>6, <1>7

\* Sending changes no beat.
LEMMA SendsKeepBeats ==
  ASSUME NEW slaves, TrafficInv, BeatsInv(slaves),
         ((SendWrite \/ SendRead) /\ UNCHANGED record) \/ UNCHANGED historyVars
  PROVE  BeatsInv(slaves)'
<1>1. /\ UNCHANGED <<readQueue, beatsGot, numbers, owner, served, state, pushReadReg>>
      /\ openReads' = openReads \/ \E x : openReads' = Append(openReads, x)
  <2>1. CASE (SendWrite \/ SendRead) /\ UNCHANGED record
    BY <2>1 DEF SendWrite, SendRead, record, registers, readVars
  <2>2. CASE UNCHANGED historyVars
    BY <2>2 DEF historyVars, vars, record, registers, queues, readVars, partners
  <2> QED
    BY <2>1, <2>2
<1>2. ReadInHand' = ReadInHand
  BY <1>1 DEF ReadInHand
<1>3. CASE openReads' = openReads
  BY <1>1, <1>2, <1>3 DEF BeatsInv
<1>4. CASE \E x : openReads' = Append(openReads, x)
  <2>1. PICK x : openReads' = Append(openReads, x)
    BY <1>4
  <2>2. openReads \in Seq(ReadCommands) /\ openReads \in Seq(ReadCommands \cup {x})
    BY SeqMonotone DEF TrafficInv, QueuesTyped
  <2>3. /\ Len(openReads') = Len(openReads) + 1
        /\ \A k \in 1 .. Len(openReads) : openReads'[k] = openReads[k]
    BY <2>1, <2>2
  <2>4. InOrder(slaves, readQueue, openReads', numbers)
    BY <2>1, <2>2, ReadSent DEF BeatsInv
  <2>5. ASSUME ReadInHand
        PROVE  /\ LastsIn(readQueue) + 1 <= Len(openReads')
               /\ owner = openReads'[LastsIn(readQueue) + 1]
    <3>1. LastsIn(readQueue) \in Nat /\ Len(openReads) \in Nat
      BY TrafficLinesUp DEF LineFits
    <3>2. LastsIn(readQueue) + 1 <= Len(openReads) /\ owner = openReads[LastsIn(readQueue) + 1]
      BY <2>5 DEF BeatsInv
    <3> QED
      BY <2>3, <3>1, <3>2
  <2> QED
    BY <1>1, <1>2, <2>4, <2>5 DEF BeatsInv
<1> QED
  BY <1>1, <1>3, <1>4

\* The read in hand has beats to come; one that is left has none.
LEMMA HandCounts ==
  ASSUME Side!ReadInv, ~owner.write
  PROVE  /\ served \in Nat /\ owner.len \in Nat
         /\ ReadInHand => served <= owner.len
         /\ ~ReadInHand => served = owner.len + 1
         /\ (state = "IDLE" /\ pushReadReg) => served = owner.len
<1> USE DEF Side!ReadInv
<1>2. served \in Nat /\ owner.len \in Nat /\ pushReadReg \in BOOLEAN
  BY SideAssumptions, Side!CommandFields DEF Side!Owned, Side!BeatInv
<1>3. CASE state = "IDLE"
  <2>1. served + Side!Pushing = owner.len + 1
    BY <1>3 DEF Side!BeatInv
  <2>2. Side!Pushing = IF pushReadReg THEN 1 ELSE 0
    BY DEF Side!Pushing
  <2> QED
    BY <1>2, <1>3, <2>1, <2>2 DEF ReadInHand
<1>4. CASE state # "IDLE"
  <2>1. state \in Side!ReadStates \cup {"PURGE"}
    BY <1>4 DEF Side!Owned, Side!States, Side!ReadStates, Side!WriteStates
  <2>2. beat = served + Side!Pushing /\ beat <= owner.len
    BY <2>1 DEF Side!BeatInv
  <2>3. Side!Pushing \in {0, 1}
    BY DEF Side!Pushing
  <2> QED
    BY <1>2, <1>4, <2>2, <2>3 DEF ReadInHand
<1> QED
  BY <1>3, <1>4

\* A beat that is pushed is the next one of the read in hand.
LEMMA PushIsRight ==
  ASSUME NEW slaves, SideReadInv(slaves), Side!PushReadBuffer
  PROVE  /\ ReadInHand /\ RightBeat(slaves, Beat, owner, served)
         /\ lastPushRead = (served = owner.len) /\ lastPushRead \in BOOLEAN
<1> USE DEF SideReadInv, Side!AddressedInv
<1>1. /\ ~owner.write /\ served <= owner.len
      /\ lastPushRead = (served = owner.len)
      /\ axiId = owner.id /\ (~rdError => pushReadReg)
  BY SideAssumptions, Side!OrderedBeats
<1>2. ASSUME ~rdError PROVE \A j \in 0 .. served : ~BadBeat(owner, j)
  BY <1>2, SideAssumptions, SideRules, Side!AddressedBeats DEF Side!GoodUpTo
<1>3. (slaves = "echoing" /\ ~rdError) => axiData = AxiAddress(owner, served)
  BY <1>1 DEF DataInv, BeatAddress
<1>4. ReadInHand
  BY <1>1 DEF Side!PushReadBuffer, ReadInHand
<1> QED
  BY <1>1, <1>2, <1>3, <1>4 DEF RightBeat, Beat

\* The command at the output of the queue is the oldest one sent and not in hand yet.
LEMMA NextRead ==
  ASSUME TrafficInv, LineInv, Starts, ~CmdOut.write
  PROVE  /\ LastsIn(readQueue) + Master!ReadPending + 1 \in 1 .. Len(openReads)
         /\ CmdOut = openReads[LastsIn(readQueue) + Master!ReadPending + 1]
<1>1. LineFits
  BY TrafficLinesUp
<1>2. cmdQueue # <<>> /\ CmdOut = cmdQueue[1] /\ 1 \in 1 .. Len(cmdQueue) /\ CmdOut \in Commands
  <2>1. cmdQueue # <<>>
    BY DEF Starts, CmdQueue!PopEmpty, TrafficInv, BridgeInv, QueuesSafe, Bracketed
  <2> QED
    BY <1>1, <2>1 DEF CmdOut, LineFits
<1>3. cmdQueue[1].write \in {FALSE}
  <2>1. CmdOut.write \in BOOLEAN
    BY <1>2, KindOfCommand
  <2> QED
    BY <1>2, <2>1
<1> DEFINE k == Len(openReads) - One(arvalid) + 1 - Rest(cmdQueue, "write", {FALSE}, 1)
<1>4. k \in 1 .. Len(openReads) /\ CmdOut = openReads[k]
  BY <1>2, <1>3 DEF LineInv, Line, LinedUp
<1>5. k = LastsIn(readQueue) + Master!ReadPending + 1
  <2> DEFINE x == Rest(cmdQueue, "write", {FALSE}, 1)  y == One(arvalid)
             l == LastsIn(readQueue)  p == Master!ReadPending  m == Len(openReads)
  <2>1. x + y + l + p = m /\ x \in Nat /\ y \in {0, 1} /\ l \in Nat /\ p \in {0, 1}
    BY <1>1 DEF LineFits
  <2>2. m - y + 1 - x = l + p + 1
    <3> HIDE DEF x, y, l, p, m
    <3> QED
      BY <2>1
  <2> QED
    BY <2>2
<1> QED
  BY <1>4, <1>5

\* An edge of pclk adds at most the beat the read in hand has come to, and a new read in hand is
\* the next one in line.
LEMMA PclkKeepsBeats ==
  ASSUME NEW slaves, TrafficInv, LineInv, BeatsInv(slaves), SideReadInv(slaves),
         SideReadInv(slaves)', Side!Tick, PclkEdge, PclkRecorded
  PROVE  BeatsInv(slaves)'
<1> DEFINE push == Side!PushReadBuffer
           l == LastsIn(readQueue)
           last == push /\ lastPushRead
<1>1. /\ readQueue' = IF push THEN Append(readQueue, Beat) ELSE readQueue
      /\ numbers' = IF push THEN Append(numbers, IF lastPushRead THEN 0 ELSE served + 1)
                    ELSE numbers
      /\ openReads' = openReads /\ beatsGot' = beatsGot
      /\ owner' = IF Starts THEN CmdOut ELSE owner
      /\ served' = IF Starts THEN 0 ELSE IF push THEN served + 1 ELSE served
  BY PclkMoves, SameMoves, SideMoves DEF PclkRecorded, PclkEdge
<1>2. /\ InOrder(slaves, readQueue, openReads, numbers) /\ numbers[1] = beatsGot
      /\ numbers[Len(numbers)] = IF ReadInHand THEN served ELSE 0
      /\ ReadInHand => l + 1 <= Len(openReads) /\ owner = openReads[l + 1]
      /\ numbers \in Seq(Nat) /\ Len(numbers) \in Nat \ {0}
  BY DEF BeatsInv, InOrder
<1>3. PICK S : readQueue \in Seq(S)
  BY DEF TrafficInv, BridgeInv, QueuesSafe, Bracketed
<1>4. openReads \in Seq(ReadCommands) /\ Len(openReads) \in Nat /\ l \in Nat
  BY <1>3, CountsTyped DEF TrafficInv, QueuesTyped
<1>5. push => /\ ReadInHand /\ RightBeat(slaves, Beat, owner, served)
              /\ lastPushRead = (served = owner.len) /\ lastPushRead \in BOOLEAN
  BY PushIsRight
<1>6. Beat.last = lastPushRead
  BY DEF Beat
\* The list of beats.
<1>7. /\ InOrder(slaves, readQueue', openReads', numbers') /\ numbers'[1] = beatsGot'
      /\ numbers'[Len(numbers')] =
           IF push THEN (IF lastPushRead THEN 0 ELSE served + 1) ELSE numbers[Len(numbers)]
      /\ LastsIn(readQueue') = l + One(last)
  <2>1. CASE push
    <3>1. After(Beat, numbers[Len(numbers)]) = IF lastPushRead THEN 0 ELSE served + 1
      BY <1>2, <1>5, <1>6, <2>1 DEF After
    <3>2. /\ RightBeat(slaves, Beat, openReads[l + 1], numbers[Len(numbers)])
          /\ Beat.last \in BOOLEAN /\ l + 1 <= Len(openReads)
      BY <1>2, <1>5, <1>6, <2>1
    <3>3. numbers' = Append(numbers, After(Beat, numbers[Len(numbers)]))
      BY <1>1, <2>1, <3>1
    <3>4. /\ InOrder(slaves, Append(readQueue, Beat), openReads, numbers')
          /\ numbers'[1] = numbers[1]
          /\ numbers'[Len(numbers) + 1] = After(Beat, numbers[Len(numbers)])
      BY <1>2, <1>3, <1>4, <3>2, <3>3, BeatPushed
    <3>5. Len(numbers') = Len(numbers) + 1
      <4>1. After(Beat, numbers[Len(numbers)]) \in Nat
        <5>1. numbers[Len(numbers)] \in Nat
          BY <1>2
        <5> QED
          BY <5>1 DEF After
      <4> QED
        BY <1>2, <3>3, <4>1
    <3>6. LastsIn(readQueue') = l + One(last)
      BY <1>1, <1>3, <1>6, <2>1, <3>2, BeatAppended
    <3> HIDE DEF push, l, last
    <3> QED
      BY <1>1, <1>2, <2>1, <3>1, <3>4, <3>5, <3>6
  <2>2. CASE ~push
    <3>1. l = l + One(last)
      BY <1>4, <2>2 DEF One
    <3> QED
      BY <1>1, <1>2, <2>2, <3>1
  <2> QED
    BY <2>1, <2>2
<1>8. Side!ReadInv /\ Side!ReadInv'
  BY DEF SideReadInv, Side!AddressedInv, Side!OrderedInv
<1>9. CASE ~Starts
  <2>1. owner' = owner /\ served' = IF push THEN served + 1 ELSE served
    BY <1>1, <1>9
  <2>2. CASE owner.write
    <3>1. ~ReadInHand /\ ~push /\ ~ReadInHand'
      BY <1>5, <2>1, <2>2 DEF ReadInHand
    <3> QED
      BY <1>2, <1>7, <3>1 DEF BeatsInv
  <2>3. CASE ~owner.write
    <3>1. /\ served \in Nat /\ owner.len \in Nat
          /\ ReadInHand => served <= owner.len
          /\ ~ReadInHand => served = owner.len + 1
      BY <1>8, <2>3, HandCounts
    <3>2. /\ ReadInHand' => served' <= owner.len
          /\ ~ReadInHand' => served' = owner.len + 1
      <4>1. (Side!ReadInv /\ ~owner.write) =>
              (ReadInHand => served <= owner.len) /\ (~ReadInHand => served = owner.len + 1)
        BY HandCounts
      <4>2. (Side!ReadInv /\ ~owner.write)' =>
              (ReadInHand => served <= owner.len)' /\ (~ReadInHand => served = owner.len + 1)'
        BY HandCounts, PTL
      <4> QED
        BY <1>8, <2>1, <2>3, <4>2
    <3>3. CASE push
      <4>1. ReadInHand /\ owner = openReads[l + 1] /\ l + 1 <= Len(openReads) /\ served' = served + 1
        BY <1>2, <1>5, <2>1, <3>3
      <4>2. CASE lastPushRead
        <5>0. served = owner.len
          BY <1>5, <3>3, <4>2
        <5>1. ~ReadInHand'
          BY <3>1, <3>2, <4>1, <5>0
        <5> QED
          BY <1>7, <3>3, <4>2, <5>1 DEF BeatsInv
      <4>3. CASE ~lastPushRead
        <5>0. served # owner.len /\ One(last) = 0
          BY <1>5, <3>3, <4>3 DEF One
        <5>1. ReadInHand'
          BY <3>1, <3>2, <4>1, <5>0
        <5>2. LastsIn(readQueue') = l
          BY <1>4, <1>7, <5>0
        <5> QED
          BY <1>1, <1>7, <2>1, <3>3, <4>1, <4>3, <5>1, <5>2 DEF BeatsInv
      <4> QED
        BY <4>2, <4>3
    <3>4. CASE ~push
      <4>1. ReadInHand' <=> ReadInHand
        BY <2>1, <3>1, <3>2, <3>4
      <4>2. LastsIn(readQueue') = l
        BY <1>1, <3>4
      <4> QED
        BY <1>1, <1>2, <1>7, <2>1, <3>4, <4>1, <4>2 DEF BeatsInv
    <3> QED
      BY <3>3, <3>4
  <2> QED
    BY <2>2, <2>3
<1>10. CASE Starts
  <2>1. state = "IDLE" /\ owner' = CmdOut /\ served' = 0
    BY <1>1, <1>10 DEF Starts
  <2>2. /\ push => lastPushRead
        /\ One(last) = Master!ReadPending
        /\ ~push => ~ReadInHand
    <3>1. push = pushReadReg
      BY <2>1 DEF Side!PushReadBuffer
    <3>2. push => served = owner.len
      BY <1>5, <1>8, <2>1, <3>1, HandCounts DEF ReadInHand
    <3> QED
      BY <1>5, <2>1, <3>1, <3>2 DEF One, Master!ReadPending, ReadInHand
  <2>3. numbers'[Len(numbers')] = 0
    BY <1>2, <1>7, <2>2
  <2>4. LastsIn(readQueue') = l + Master!ReadPending
    BY <1>7, <2>2
  <2>5. ReadInHand' <=> ~CmdOut.write
    <3>1. ~pushReadReg'
      BY <2>1, SideAssumptions, Side!StateMoves
      DEF Side!Tick, Side!Registers, Side!ControlRegisters, Side!NextPushRead
    <3>2. state' # "IDLE"
      BY <1>10, PclkMoves, SideAssumptions, Master!Path DEF Starts, TrafficInv, Master!CmdInHand
    <3> QED
      BY <2>1, <3>1, <3>2 DEF ReadInHand
  <2>6. ASSUME ReadInHand'
        PROVE  /\ LastsIn(readQueue') + 1 <= Len(openReads')
               /\ owner' = openReads'[LastsIn(readQueue') + 1]
    <3>1. ~CmdOut.write
      BY <2>5, <2>6
    <3>2. /\ l + Master!ReadPending + 1 \in 1 .. Len(openReads)
          /\ CmdOut = openReads[l + Master!ReadPending + 1]
      BY <1>10, <3>1, NextRead
    <3> QED
      BY <1>1, <1>4, <2>1, <2>4, <3>2
  <2> QED
    BY <1>7, <2>1, <2>3, <2>6 DEF BeatsInv
<1> QED
  BY <1>9, <1>10

\* The record and the counters are written beside the steps of the bridge.
LEMMA HistoryStepsBridge ==
  ASSUME NEW slaves
  PROVE  [HistoryMoves(slaves)]_historyVars => [Moves]_vars
BY DEF HistoryMoves, historyVars, Moves, Aclk

\* Each step of the counted bridge is one of the bridge with its record.
LEMMA PowerStepsHistory ==
  /\ PowerInit => HistoryInit
  /\ [PowerNext]_powerVars => [HistoryNext]_historyVars
BY DEF PowerInit, PowerNext, AclkCounted, powerVars, HistoryNext

\* So what is proved of the bridge with its record holds with the counters beside it.
LEMMA PowerImplementsHistory == PowerSpec => HistorySpec
BY PowerStepsHistory, PTL DEF PowerSpec, HistorySpec

\* The way of a read through the bridge.
ReadTraceInv(slaves) == TrafficInv /\ LineInv /\ SideReadInv(slaves) /\ BeatsInv(slaves)

\* The invariant of the reads holds at first,
LEMMA ReadTraceInit == ASSUME NEW slaves PROVE HistoryInit => ReadTraceInv(slaves)
BY TrafficInit, LineInit, SideReadInit, BeatsInit DEF HistoryInit, ReadTraceInv

\* every step keeps the line of commands,
LEMMA LineStep ==
  ASSUME NEW slaves, TrafficInv, TrafficInv', LineInv, [HistoryMoves(slaves)]_historyVars
  PROVE  LineInv'
<1>1. CASE \E w, b, r \in BOOLEAN : AclkWith(w, b, r) /\ AclkRecorded(r)
  BY <1>1, AclkKeepsLine
<1>2. CASE PclkEdge /\ PclkRecorded
  BY <1>2, PclkKeepsLine
<1>3. CASE SendWrite \/ SendRead \/ UNCHANGED historyVars
  BY <1>3, SendsKeepLine DEF historyVars
<1> QED
  BY <1>1, <1>2, <1>3 DEF HistoryMoves

\* and all of the invariant,
LEMMA ReadTraceStep ==
  ASSUME NEW slaves, NoReserved, slaves = "echoing" => SlavesApart, ReadTraceInv(slaves),
         [HistoryMoves(slaves)]_historyVars
  PROVE  ReadTraceInv(slaves)'
<1> USE DEF ReadTraceInv
<1>1. TrafficInv'
  BY TrafficStep, HistoryStepsBridge
<1>2. LineInv' /\ SideReadInv(slaves)'
  BY <1>1, LineStep, SideReadStep
<1>3. BeatsInv(slaves)'
  <2>1. CASE \E w, b, r \in BOOLEAN : AclkWith(w, b, r) /\ AclkRecorded(r)
    BY <2>1, AclkKeepsBeats
  <2>2. CASE PclkEdge /\ PclkRecorded
    BY <1>2, <2>2, PclkTicks, PclkKeepsBeats
  <2>3. CASE ((SendWrite \/ SendRead) /\ UNCHANGED record) \/ UNCHANGED historyVars
    BY <2>3, SendsKeepBeats
  <2> QED
    BY <2>1, <2>2, <2>3 DEF HistoryMoves
<1> QED
  BY <1>1, <1>2, <1>3

\* so it always holds.
LEMMA ReadsTraced ==
  ASSUME NoReserved, SlavesApart
  PROVE  HistorySpec => []ReadTraceInv("echoing")
<1>1. ReadTraceInv("echoing") /\ [HistoryNext]_historyVars => ReadTraceInv("echoing")'
  BY ReadTraceStep, HistoryEchoes
<1>2. HistoryInit => ReadTraceInv("echoing")
  BY ReadTraceInit
<1> QED
  BY <1>1, <1>2, PTL DEF HistorySpec

\* Every beat the master is offered is the next one of its oldest read, with the ID and
\* the last flag of its place, and unless it is an error with the answer of the slave at
\* its own address; no bad beat claims success.
THEOREM BeatsAreOfTheirReads ==
  ASSUME NoReserved, SlavesApart
  PROVE  PowerSpec => []BeatsAnswerReads
<1>1. ASSUME ReadTraceInv("echoing") PROVE BeatsAnswerReads
  <2> SUFFICES ASSUME rvalid
               PROVE  openReads # <<>> /\ RightBeat("echoing", Head(readQueue), Head(openReads), beatsGot)
    BY DEF BeatsAnswerReads, RightBeat
  <2> USE <1>1 DEF ReadTraceInv
  <2>1. PICK S : readQueue \in Seq(S)
    BY DEF TrafficInv, BridgeInv, QueuesSafe, Bracketed
  <2>2. readQueue # <<>> /\ 1 \in 1 .. Len(readQueue) /\ Head(readQueue) = readQueue[1]
    <3>1. readQueue # <<>>
      BY DEF rvalid, ReadQueue!PopEmpty, TrafficInv, BridgeInv, QueuesSafe, Bracketed
    <3> QED
      BY <2>1, <3>1
  <2>3. ReadOf(readQueue, 1) = 1
    <3>1. LastsIn(readQueue) \in Nat
      BY <2>1, CountsTyped
    <3> QED
      BY <3>1 DEF ReadOf, LastsIn, Count
  <2>4. 1 \in 1 .. Len(openReads) /\ RightBeat("echoing", readQueue[1], openReads[1], beatsGot)
    BY <2>2, <2>3 DEF BeatsInv, InOrder
  <2>5. openReads # <<>> /\ Head(openReads) = openReads[1]
    <3>1. openReads \in Seq(ReadCommands)
      BY DEF TrafficInv, QueuesTyped
    <3> QED
      BY <2>4, <3>1
  <2> QED
    BY <2>2, <2>4, <2>5
<1> QED
  BY <1>1, ReadsTraced, PowerImplementsHistory, PTL

----------------------------------------------------------------------------
(* The words on their way are those of the last bursts the master has sent. *)

\* The words a master may send, and the word d of a burst.
SentWords == [data : Nat, strobes : {"all", "none", "some"}, last : BOOLEAN]

WordAt(b, d) == [data |-> d, strobes |-> b.strobes[d + 1], last |-> d = b.cmd.len]

\* The burst a word belongs to, counted from the newest.
BurstOf(t, s, i) == s[Len(s) + 1 - Rest(t, "last", {TRUE}, i)]

\* The place in its burst of the word after a word.
Following(w) == IF w.last THEN 0 ELSE w.data + 1

\* The words t are the last ones of the bursts s, in their order, down to the end.
Owed(t, s) ==
  /\ \A i \in 1 .. Len(t) :
       /\ Rest(t, "last", {TRUE}, i) \in 1 .. Len(s)
       /\ t[i].data \in 0 .. BurstOf(t, s, i).cmd.len
       /\ t[i] = WordAt(BurstOf(t, s, i), t[i].data)
  /\ \A i \in 1 .. Len(t) - 1 : t[i + 1].data = Following(t[i])
  /\ t # <<>> => t[Len(t)].last

\* Without its first word the rest is still owed, and the next word follows it.
LEMMA OwedTaken ==
  ASSUME NEW t \in Seq(SentWords), t # <<>>, NEW s, Owed(t, s)
  PROVE  /\ Owed(Tail(t), s)
         /\ LastsIn(t) = LastsIn(Tail(t)) + One(Head(t).last)
         /\ Tail(t) # <<>> => Tail(t)[1].data = Following(Head(t))
<1>1. /\ Tail(t) \in Seq(SentWords) /\ Len(Tail(t)) = Len(t) - 1 /\ Len(t) \in Nat \ {0}
      /\ \A i \in 1 .. Len(t) - 1 : Tail(t)[i] = t[i + 1]
      /\ Head(t) = t[1] /\ Head(t) \in SentWords
  OBVIOUS
<1>2. ASSUME NEW i \in 1 .. Len(Tail(t))
      PROVE  /\ Rest(Tail(t), "last", {TRUE}, i) \in 1 .. Len(s)
             /\ Tail(t)[i].data \in 0 .. BurstOf(Tail(t), s, i).cmd.len
             /\ Tail(t)[i] = WordAt(BurstOf(Tail(t), s, i), Tail(t)[i].data)
  <2>1. i + 1 \in 1 .. Len(t) /\ Tail(t)[i] = t[i + 1] /\ i \in Nat \ {0}
    BY <1>1
  <2>2. Rest(Tail(t), "last", {TRUE}, i) = Rest(t, "last", {TRUE}, i + 1)
    BY <2>1, RestOfTail
  <2>3. BurstOf(Tail(t), s, i) = BurstOf(t, s, i + 1)
    BY <2>2 DEF BurstOf
  <2> QED
    BY <2>1, <2>2, <2>3 DEF Owed
<1>3. ASSUME NEW i \in 1 .. Len(Tail(t)) - 1
      PROVE  Tail(t)[i + 1].data = Following(Tail(t)[i])
  <2>1. i + 1 \in 1 .. Len(t) - 1 /\ i \in 1 .. Len(t) - 1
    BY <1>1
  <2>2. Tail(t)[i + 1] = t[(i + 1) + 1] /\ Tail(t)[i] = t[i + 1]
    BY <1>1, <2>1
  <2> QED
    BY <2>1, <2>2 DEF Owed
<1>4. ASSUME Tail(t) # <<>>
      PROVE  Tail(t)[Len(Tail(t))].last /\ Tail(t)[1].data = Following(Head(t))
  <2>1. Len(t) >= 2 /\ Tail(t)[Len(t) - 1] = t[(Len(t) - 1) + 1] /\ Tail(t)[1] = t[1 + 1]
    BY <1>1, <1>4
  <2>2. t[Len(t)].last /\ (Len(t) - 1) + 1 = Len(t)
    BY <1>1 DEF Owed
  <2>3. t[1 + 1].data = Following(t[1])
    <3>1. 1 \in 1 .. Len(t) - 1
      BY <1>1, <2>1
    <3> QED
      BY <3>1 DEF Owed
  <2> QED
    BY <1>1, <2>1, <2>2, <2>3
<1>5. LastsIn(t) = LastsIn(Tail(t)) + One(Head(t).last)
  <2>1. /\ LastsIn(Tail(t)) = LastsIn(t) - One(Head(t).last)
        /\ LastsIn(t) \in Nat
    <3>1. Head(t).last \in BOOLEAN
      BY <1>1 DEF SentWords
    <3> QED
      BY <3>1, BeatTaken, CountsTyped
  <2>2. One(Head(t).last) \in Nat
    BY DEF One
  <2> QED
    BY <2>1, <2>2
<1> QED
  BY <1>2, <1>3, <1>4, <1>5 DEF Owed

\* The words owed are none of a write that is answered.
LEMMA OwedAnswered ==
  ASSUME NEW t \in Seq(SentWords), NEW S, NEW s \in Seq(S), s # <<>>, Owed(t, s),
         LastsIn(t) < Len(s)
  PROVE  Owed(t, Tail(s))
<1>1. /\ Tail(s) \in Seq(S) /\ Len(Tail(s)) = Len(s) - 1 /\ Len(s) \in Nat
      /\ \A k \in 1 .. Len(s) - 1 : Tail(s)[k] = s[k + 1]
  OBVIOUS
<1>2. ASSUME NEW i \in 1 .. Len(t)
      PROVE  /\ Rest(t, "last", {TRUE}, i) \in 1 .. Len(Tail(s))
             /\ BurstOf(t, Tail(s), i) = BurstOf(t, s, i)
  <2> DEFINE k == Rest(t, "last", {TRUE}, i)
  <2>1. k \in 1 .. Len(s)
    BY DEF Owed
  <2>2. k <= LastsIn(t) /\ LastsIn(t) \in Nat
    <3>1. i \in Nat \ {0} /\ 1 \in Nat \ {0} /\ i \in Nat /\ 1 <= i
      OBVIOUS
    <3>2. k <= Rest(t, "last", {TRUE}, 1)
      BY <3>1, RestFalls
    <3> QED
      BY <3>2, CountsTyped DEF LastsIn, Count
  <2> HIDE DEF k
  <2>3. k \in 1 .. Len(s) - 1
    BY <1>1, <2>1, <2>2
  <2>4. Len(Tail(s)) + 1 - k \in 1 .. Len(s) - 1 /\ (Len(Tail(s)) + 1 - k) + 1 = Len(s) + 1 - k
    BY <1>1, <2>3
  <2>5. Tail(s)[Len(Tail(s)) + 1 - k] = s[Len(s) + 1 - k]
    BY <1>1, <2>4
  <2> QED
    BY <1>1, <2>3, <2>5 DEF BurstOf, k
<1> QED
  BY <1>2 DEF Owed

\* The words of one burst.
LEMMA WordsOfBurst ==
  ASSUME NEW b \in WriteBursts
  PROVE  /\ b.cmd.len \in Nat /\ WordsOf(b) \in Seq(SentWords)
         /\ Len(WordsOf(b)) = b.cmd.len + 1
         /\ \A i \in 1 .. b.cmd.len + 1 : WordsOf(b)[i] = WordAt(b, i - 1)
         /\ DOMAIN b.strobes = 1 .. b.cmd.len + 1
         /\ \A i \in 1 .. b.cmd.len + 1 : b.strobes[i] \in {"all", "none", "some"}
<1>1. b.cmd \in Commands
  BY DEF WriteCommands, Commands
<1>2. b.cmd.len \in Nat
  BY <1>1, SideAssumptions, Side!CommandFields
<1>3. b.strobes \in [1 .. b.cmd.len + 1 -> {"all", "none", "some"}]
  BY BurstsAssumption
<1> DEFINE n == b.cmd.len + 1
<1>4. \A i \in 1 .. n : /\ [data |-> i - 1, strobes |-> b.strobes[i], last |-> i = n] = WordAt(b, i - 1)
                        /\ WordAt(b, i - 1) \in SentWords
  <2> SUFFICES ASSUME NEW i \in 1 .. n
               PROVE  /\ [data |-> i - 1, strobes |-> b.strobes[i], last |-> i = n] = WordAt(b, i - 1)
                      /\ WordAt(b, i - 1) \in SentWords
    OBVIOUS
  <2>1. i - 1 \in Nat /\ (i - 1) + 1 = i /\ ((i - 1 = b.cmd.len) = (i = n))
    BY <1>2
  <2> QED
    BY <1>3, <2>1 DEF WordAt, SentWords
<1>5. WordsOf(b) = [i \in 1 .. n |-> [data |-> i - 1, strobes |-> b.strobes[i], last |-> i = n]]
  BY DEF WordsOf
<1>6. /\ WordsOf(b) \in Seq(SentWords) /\ Len(WordsOf(b)) = n
      /\ \A i \in 1 .. n : WordsOf(b)[i] = WordAt(b, i - 1)
  <2>1. n \in Nat
    BY <1>2
  <2> HIDE DEF n
  <2> QED
    BY <1>4, <1>5, <2>1
<1> QED
  BY <1>2, <1>3, <1>6

\* Two sequences one behind the other.
LEMMA Joined ==
  ASSUME NEW S, NEW t \in Seq(S), NEW u \in Seq(S)
  PROVE  /\ t \o u \in Seq(S) /\ Len(t \o u) = Len(t) + Len(u)
         /\ \A j \in 1 .. Len(t) : (t \o u)[j] = t[j]
         /\ \A j \in 1 .. Len(u) : (t \o u)[Len(t) + j] = u[j]
OBVIOUS

\* A sequence that carries on another one to one more last flag, at its end, has one
\* more in every count.
LEMMA RestLonger ==
  ASSUME NEW S, NEW t \in Seq(S), NEW v, NEW m \in Nat, NEW n \in Nat, Len(t) = m, Len(v) = n, m < n,
         \A j \in 1 .. m : v[j].last = t[j].last,
         \A j \in m + 1 .. n : v[j].last \in {TRUE} <=> j = n,
         NEW i \in 1 .. n
  PROVE  Rest(v, "last", {TRUE}, i) = Rest(t, "last", {TRUE}, i) + 1
<1> DEFINE P == Places(t, "last", {TRUE}, i)
           R == Places(v, "last", {TRUE}, i)
<1>1. i \in Nat \ {0}
  OBVIOUS
<1>2. IsFiniteSet(P)
  BY <1>1, PlacesFinite
<1>3. \A j : j \in R <=> j \in i .. n /\ v[j].last \in {TRUE}
  BY DEF Places
<1>4. \A j : j \in P <=> j \in i .. m /\ t[j].last \in {TRUE}
  BY DEF Places
<1> HIDE DEF P, R
<1>5. ASSUME NEW j
      PROVE  j \in R <=> j \in P \/ j = n
  <2>1. CASE j \in i .. m
    <3>1. j \in 1 .. m /\ j \in i .. n /\ j # n
      BY <1>1, <2>1
    <3>2. v[j].last = t[j].last
      BY <3>1
    <3> QED
      BY <1>3, <1>4, <2>1, <3>1, <3>2
  <2>2. CASE j \in i .. n /\ j \notin i .. m
    <3>1. j \in m + 1 .. n
      BY <1>1, <2>2
    <3>2. v[j].last \in {TRUE} <=> j = n
      BY <3>1
    <3> QED
      BY <1>3, <1>4, <2>2, <3>2
  <2>3. CASE j \notin i .. n
    <3>1. j \notin i .. m /\ j # n
      BY <1>1, <2>3
    <3> QED
      BY <1>3, <1>4, <2>3, <3>1
  <2> QED
    BY <2>1, <2>2, <2>3
<1>6. R = P \cup {n}
  BY <1>5
<1>7. n \notin P
  <2>1. n \notin i .. m
    BY <1>1
  <2> QED
    BY <1>4, <2>1
<1>8. Cardinality(R) = Cardinality(P) + 1
  BY <1>2, <1>6, <1>7, FS_AddElement
<1> QED
  BY <1>8 DEF Rest, P, R

\* The words of a burst the master sends behind the others.
LEMMA OwedSent ==
  ASSUME NEW b \in WriteBursts, NEW t \in Seq(SentWords), NEW S, NEW s \in Seq(S),
         Owed(t, s)
  PROVE  /\ t \o WordsOf(b) \in Seq(SentWords)
         /\ Owed(t \o WordsOf(b), Append(s, b))
         /\ LastsIn(t \o WordsOf(b)) = LastsIn(t) + 1
         /\ t \o WordsOf(b) # <<>>
         /\ (t \o WordsOf(b))[1].data = IF t = <<>> THEN 0 ELSE t[1].data
<1> DEFINE u == WordsOf(b)
           v == t \o u
           m == Len(t)
           k == b.cmd.len
           n == m + k + 1
           z == Append(s, b)
<1>1. /\ k \in Nat /\ u \in Seq(SentWords) /\ Len(u) = k + 1
      /\ \A j \in 1 .. k + 1 : u[j] = WordAt(b, j - 1)
  BY WordsOfBurst
<1>2. /\ v \in Seq(SentWords) /\ Len(v) = m + Len(u)
      /\ \A j \in 1 .. m : v[j] = t[j]
      /\ \A j \in 1 .. Len(u) : v[m + j] = u[j]
  <2>1. \A x, y \in Seq(SentWords) :
          /\ x \o y \in Seq(SentWords) /\ Len(x \o y) = Len(x) + Len(y)
          /\ \A j \in 1 .. Len(x) : (x \o y)[j] = x[j]
          /\ \A j \in 1 .. Len(y) : (x \o y)[Len(x) + j] = y[j]
    BY Joined
  <2> HIDE DEF u
  <2> QED
    BY <1>1, <2>1
<1>3. m \in Nat /\ n \in Nat /\ m < n /\ Len(v) = n
  <2>1. m \in Nat
    OBVIOUS
  <2> HIDE DEF v, m, k, u
  <2> QED
    BY <1>1, <1>2, <2>1
<1>4. /\ Len(z) = Len(s) + 1 /\ Len(s) \in Nat /\ z[Len(s) + 1] = b
      /\ \A j \in 1 .. Len(s) : z[j] = s[j]
  OBVIOUS
<1>5. Len(t) = m
  OBVIOUS
<1> HIDE DEF u, v, m, k, n, z
<1>6. ASSUME NEW j \in m + 1 .. n
      PROVE  /\ j - m - 1 \in 0 .. k /\ v[j] = WordAt(b, j - m - 1)
             /\ v[j].data = j - m - 1 /\ (v[j].last <=> j = n) /\ v[j].last \in BOOLEAN
  <2>1. /\ j - m \in 1 .. k + 1 /\ m + (j - m) = j /\ (j - m) - 1 = j - m - 1
        /\ j - m - 1 \in 0 .. k /\ (j - m - 1 = k <=> j = n)
    BY <1>1, <1>3 DEF n
  <2>2. v[j] = u[j - m]
    BY <1>1, <1>2, <2>1
  <2>3. u[j - m] = WordAt(b, (j - m) - 1)
    BY <1>1, <2>1
  <2>4. v[j] = WordAt(b, j - m - 1)
    BY <2>1, <2>2, <2>3
  <2>5. v[j].data = j - m - 1 /\ v[j].last = (j - m - 1 = k)
    BY <2>4 DEF WordAt, k
  <2> QED
    BY <2>1, <2>4, <2>5
<1> DEFINE Place(j) == v[j].data = j - m - 1 /\ (v[j].last <=> j = n)
<1>6a. \A j \in m + 1 .. n : Place(j)
  BY <1>6
<1>7. ASSUME NEW i \in 1 .. n
      PROVE  Rest(v, "last", {TRUE}, i) = Rest(t, "last", {TRUE}, i) + 1
  <2>1. \A j \in 1 .. m : v[j].last = t[j].last
    BY <1>2
  <2>2. \A j \in m + 1 .. n : v[j].last \in {TRUE} <=> j = n
    BY <1>6
  <2> QED
    BY <1>3, <1>5, <2>1, <2>2, RestLonger
<1>8. ASSUME NEW i \in 1 .. n
      PROVE  /\ Rest(v, "last", {TRUE}, i) \in 1 .. Len(z)
             /\ i <= m => BurstOf(v, z, i) = BurstOf(t, s, i)
             /\ i > m => BurstOf(v, z, i) = b
  <2> DEFINE r == Rest(t, "last", {TRUE}, i)
  <2>1. i \in Nat \ {0}
    BY <1>3
  <2>2. CASE i <= m
    <3>1. r \in 1 .. Len(s)
      BY <1>3, <1>5, <2>1, <2>2 DEF Owed
    <3>2. Rest(v, "last", {TRUE}, i) = r + 1
      BY <1>7
    <3> HIDE DEF r
    <3>3. Len(z) + 1 - (r + 1) = Len(s) + 1 - r /\ Len(s) + 1 - r \in 1 .. Len(s) /\ r + 1 \in 1 .. Len(z)
      BY <1>4, <3>1
    <3>4. z[Len(z) + 1 - (r + 1)] = s[Len(s) + 1 - r]
      BY <1>4, <3>3
    <3>5. BurstOf(v, z, i) = BurstOf(t, s, i)
      BY <3>2, <3>4 DEF BurstOf, r
    <3> QED
      BY <1>3, <2>1, <2>2, <3>2, <3>3, <3>5
  <2>3. CASE i > m
    <3>1. r = 0
      BY <1>5, <2>1, <2>3, PlacesFinite
    <3>2. Rest(v, "last", {TRUE}, i) = 1
      BY <1>7, <3>1
    <3>3. Len(z) + 1 - 1 = Len(s) + 1 /\ 1 \in 1 .. Len(z)
      BY <1>4
    <3>4. BurstOf(v, z, i) = b
      BY <1>4, <3>2, <3>3 DEF BurstOf
    <3> QED
      BY <1>3, <2>1, <2>3, <3>2, <3>3, <3>4
  <2> QED
    BY <1>3, <2>1, <2>2, <2>3
<1>9. ASSUME NEW i \in 1 .. Len(v)
      PROVE  /\ Rest(v, "last", {TRUE}, i) \in 1 .. Len(z)
             /\ v[i].data \in 0 .. BurstOf(v, z, i).cmd.len
             /\ v[i] = WordAt(BurstOf(v, z, i), v[i].data)
  <2>1. i \in 1 .. n /\ i \in Nat
    BY <1>3
  <2>2. CASE i <= m
    <3>1. i \in 1 .. m /\ i \in 1 .. Len(t) /\ v[i] = t[i]
      BY <1>2, <1>3, <1>5, <2>1, <2>2
    <3>2. t[i].data \in 0 .. BurstOf(t, s, i).cmd.len /\ t[i] = WordAt(BurstOf(t, s, i), t[i].data)
      BY <3>1 DEF Owed
    <3> QED
      BY <1>8, <2>1, <2>2, <3>1, <3>2
  <2>3. CASE i > m
    <3>1. i \in m + 1 .. n
      BY <1>3, <2>1, <2>3
    <3>2. BurstOf(v, z, i) = b
      BY <1>8, <2>1, <2>3
    <3> QED
      BY <1>6, <1>8, <2>1, <3>1, <3>2 DEF k
  <2> QED
    BY <1>3, <2>1, <2>2, <2>3
<1>10. ASSUME NEW i \in 1 .. Len(v) - 1
       PROVE  v[i + 1].data = Following(v[i])
  <2>1. i \in 1 .. n /\ i + 1 \in 1 .. n /\ i \in Nat
    BY <1>3
  <2>2. CASE i < m
    <3>1. /\ i \in 1 .. m /\ i + 1 \in 1 .. m /\ i \in 1 .. Len(t) - 1
      BY <1>3, <1>5, <2>1, <2>2
    <3> QED
      BY <1>2, <3>1 DEF Owed
  <2>3. CASE i = m
    <3>1. i \in 1 .. m /\ i + 1 \in m + 1 .. n /\ i + 1 - m - 1 = 0 /\ t # <<>>
      BY <1>3, <1>5, <2>1, <2>3
    <3>2. v[i] = t[Len(t)] /\ t[Len(t)].last
      BY <1>2, <1>5, <2>3, <3>1 DEF Owed
    <3>3. v[i + 1].data = i + 1 - m - 1
      BY <1>3, <1>6a, <2>1, <3>1
    <3> QED
      BY <3>1, <3>2, <3>3 DEF Following
  <2>4. CASE i > m
    <3>1. i \in m + 1 .. n /\ i + 1 \in m + 1 .. n /\ i # n /\ i + 1 - m - 1 = i - m - 1 + 1
      BY <1>3, <2>1, <2>4
    <3>2. v[i].data = i - m - 1 /\ ~v[i].last /\ v[i + 1].data = i + 1 - m - 1
      BY <1>3, <1>6a, <2>1, <3>1
    <3> QED
      BY <3>1, <3>2 DEF Following
  <2> QED
    BY <1>3, <2>1, <2>2, <2>3, <2>4
<1>11. v[Len(v)].last
  <2>1. n \in m + 1 .. n
    BY <1>3
  <2> QED
    BY <1>3, <1>6, <2>1
<1>12. Owed(v, z)
  BY <1>9, <1>10, <1>11 DEF Owed
<1>13. LastsIn(v) = LastsIn(t) + 1
  <2>1. 1 \in 1 .. n
    BY <1>3
  <2> QED
    BY <1>7, <2>1 DEF LastsIn, Count
<1>14. v # <<>> /\ v[1].data = IF t = <<>> THEN 0 ELSE t[1].data
  <2>1. v # <<>>
    BY <1>2, <1>3
  <2>2. CASE t = <<>>
    <3>1. m = 0
      BY <1>5, <2>2
    <3>2. 1 \in m + 1 .. n /\ 1 - m - 1 = 0
      BY <1>3, <3>1
    <3> QED
      BY <1>6, <2>1, <2>2, <3>2
  <2>3. CASE t # <<>>
    <3>1. 1 \in 1 .. m
      BY <1>5, <2>3
    <3> QED
      BY <1>2, <2>1, <2>3, <3>1
  <2> QED
    BY <2>2, <2>3
<1> QED
  BY <1>2, <1>12, <1>13, <1>14 DEF v, u, z

----------------------------------------------------------------------------
(* The writes: their words on the way in, and their answers on the way out. *)

\* The words in the write buffer and behind them those still with the master.
Flow == wordQueue \o toSend
Answered == Len(respQueue)

\* The write the APB side has begun and not answered yet; its words are all popped,
\* or not.
Held == owner.write /\ (state # "IDLE" \/ dlydResp)
Drained == Held /\ Len(popped) = owner.len + 1

\* The next word to pop, behind those of the bursts drained and answered.
WordsInv ==
  /\ wordQueue \in Seq(SentWords) /\ toSend \in Seq(SentWords)
  /\ Owed(Flow, openWrites)
  /\ LastsIn(Flow) + Answered + One(Drained) = Len(openWrites)
  /\ Flow # <<>> => Flow[1].data = IF Side!Unfinished THEN Len(popped) ELSE 0

\* What is recorded of the write in hand is of the oldest one not answered.
HandInv ==
  /\ \E S : apbWrites \in Seq(S)
  /\ dlydResp => state = "IDLE" /\ owner.write /\ Len(popped) = owner.len + 1
  /\ Held =>
       /\ Answered + 1 <= Len(openWrites)
       /\ owner = openWrites[Answered + 1].cmd
       /\ Len(popped) \in 0 .. owner.len + 1
       /\ \A j \in 1 .. Len(popped) : popped[j] = openWrites[Answered + 1].strobes[j]
  /\ Len(apbWrites) = Answered + One(Held)
  /\ Held => apbWrites[Answered + 1] = made

\* What is on its way out answers the oldest writes.
AnswersInv == \A k \in 1 .. Answered :
  LET b == openWrites[k] IN
    /\ respQueue[k] = [id |-> b.cmd.id, error |-> Refused(b.cmd, b.strobes, b.cmd.len)]
    /\ apbWrites[k] = WritesUpTo(b.cmd, b.strobes, b.cmd.len + 1)

\* What the APB side relies on at the output of the write buffer, and in its register.
SideFits == Side!WordFits /\ Side!AheadFits
WordRegTyped == wordReg \in Side!IssuedWords

----------------------------------------------------------------------------
(* The flow of words at its two ends.                                       *)

\* A word that enters the write buffer stays where it is in the flow,
LEMMA FlowPushed ==
  ASSUME NEW S, NEW q \in Seq(S), NEW t \in Seq(S), t # <<>>
  PROVE  /\ Append(q, Head(t)) \o Tail(t) = q \o t
         /\ Append(q, Head(t)) \in Seq(S) /\ Tail(t) \in Seq(S)
<1>1. /\ Head(t) \in S /\ Tail(t) \in Seq(S) /\ Len(Tail(t)) = Len(t) - 1
      /\ \A i \in 1 .. Len(Tail(t)) : Tail(t)[i] = t[i + 1]
      /\ Head(t) = t[1]
  OBVIOUS
<1>2. /\ Append(q, Head(t)) \in Seq(S) /\ Append(q, Head(t)) = q \o <<Head(t)>>
      /\ <<Head(t)>> \in Seq(S) /\ Len(<<Head(t)>>) = 1 /\ <<Head(t)>>[1] = Head(t)
  BY <1>1, AppendIsConcat
<1>3. (q \o <<Head(t)>>) \o Tail(t) = q \o (<<Head(t)>> \o Tail(t))
  BY <1>1, <1>2, ConcatAssociative
<1>4. <<Head(t)>> \o Tail(t) = t
  <2> DEFINE h == <<Head(t)>>
             r == Tail(t)
             v == h \o r
  <2>1. /\ v \in Seq(S) /\ Len(v) = Len(h) + Len(r)
        /\ \A j \in 1 .. Len(h) : v[j] = h[j]
        /\ \A j \in 1 .. Len(r) : v[Len(h) + j] = r[j]
    BY <1>1, <1>2, Joined
  <2>2. Len(h) = 1 /\ h[1] = t[1] /\ Len(r) = Len(t) - 1 /\ Len(t) \in Nat
        /\ \A i \in 1 .. Len(r) : r[i] = t[i + 1]
    BY <1>1, <1>2
  <2> HIDE DEF h, r, v
  <2>3. Len(v) = Len(t)
    BY <2>1, <2>2
  <2>4. ASSUME NEW i \in 1 .. Len(v) PROVE v[i] = t[i]
    <3>1. CASE i = 1
      BY <2>1, <2>2, <3>1
    <3>2. CASE i # 1
      <4>1. i - 1 \in 1 .. Len(r) /\ 1 + (i - 1) = i /\ (i - 1) + 1 = i
        BY <2>2, <2>3, <3>2
      <4>2. v[1 + (i - 1)] = r[i - 1] /\ r[i - 1] = t[(i - 1) + 1]
        BY <2>1, <2>2, <4>1
      <4> QED
        BY <4>1, <4>2
    <3> QED
      BY <3>1, <3>2
  <2>5. v = t
    BY <2>1, <2>3, <2>4, SeqEqual
  <2> QED
    BY <2>5 DEF v, h, r
<1> QED
  BY <1>1, <1>2, <1>3, <1>4

\* and the one that leaves it is the first.
LEMMA FlowPopped ==
  ASSUME NEW S, NEW q \in Seq(S), NEW t \in Seq(S), q # <<>>
  PROVE  /\ q \o t # <<>> /\ (q \o t)[1] = Head(q) /\ Head(q \o t) = Head(q)
         /\ Tail(q) \o t = Tail(q \o t) /\ Tail(q) \in Seq(S)
<1> DEFINE v == q \o t
           p == Tail(q)
           u == Tail(q) \o t
           w == Tail(v)
<1>1. /\ v \in Seq(S) /\ Len(v) = Len(q) + Len(t)
      /\ \A j \in 1 .. Len(q) : v[j] = q[j]
      /\ \A j \in 1 .. Len(t) : v[Len(q) + j] = t[j]
  BY Joined
<1>2. /\ p \in Seq(S) /\ Len(p) = Len(q) - 1 /\ Len(q) \in Nat \ {0} /\ Len(t) \in Nat
      /\ \A i \in 1 .. Len(p) : p[i] = q[i + 1]
      /\ Head(q) = q[1]
  OBVIOUS
<1>3. /\ u \in Seq(S) /\ Len(u) = Len(p) + Len(t)
      /\ \A j \in 1 .. Len(p) : u[j] = p[j]
      /\ \A j \in 1 .. Len(t) : u[Len(p) + j] = t[j]
  BY <1>2, Joined
<1>4. v # <<>> /\ v[1] = Head(q)
  <2> HIDE DEF v
  <2>1. Len(v) # 0
    BY <1>1, <1>2
  <2> QED
    BY <1>1, <1>2, <2>1, NotEmpty
<1>5. /\ w \in Seq(S) /\ Len(w) = Len(v) - 1 /\ Head(v) = v[1]
      /\ \A i \in 1 .. Len(w) : w[i] = v[i + 1]
  <2> HIDE DEF v
  <2> QED
    BY <1>1, <1>4
<1> HIDE DEF v, p, u, w
<1>6. Len(u) = Len(w)
  BY <1>1, <1>2, <1>3, <1>5
<1>7. ASSUME NEW i \in 1 .. Len(u) PROVE u[i] = w[i]
  <2>1. w[i] = v[i + 1] /\ i \in Nat
    BY <1>5, <1>6
  <2>2. CASE i <= Len(p)
    <3>1. i \in 1 .. Len(p) /\ i + 1 \in 1 .. Len(q)
      BY <1>2, <2>1, <2>2
    <3> QED
      BY <1>1, <1>2, <1>3, <2>1, <3>1
  <2>3. CASE i > Len(p)
    <3>1. /\ i - Len(p) \in 1 .. Len(t) /\ Len(p) + (i - Len(p)) = i
          /\ Len(q) + (i - Len(p)) = i + 1
      BY <1>2, <1>3, <2>1, <2>3
    <3>2. u[Len(p) + (i - Len(p))] = t[i - Len(p)] /\ v[Len(q) + (i - Len(p))] = t[i - Len(p)]
      BY <1>1, <1>3, <3>1
    <3> QED
      BY <2>1, <3>1, <3>2
  <2> QED
    BY <1>2, <2>1, <2>2, <2>3
<1>8. u = w
  BY <1>3, <1>5, <1>6, <1>7, SeqEqual
<1> QED
  BY <1>2, <1>4, <1>5, <1>8 DEF u, v, w, p

\* The answers and the write in hand are of writes the master has open.
LEMMA HandTyped ==
  ASSUME TrafficInv, HandInv
  PROVE  /\ Answered \in Nat /\ Len(openWrites) \in Nat /\ openWrites \in Seq(WriteBursts)
         /\ Answered <= Len(openWrites)
         /\ Held => /\ Answered + 1 \in 1 .. Len(openWrites)
                    /\ openWrites[Answered + 1] \in WriteBursts
                    /\ owner.len \in Nat /\ Len(popped) \in Nat
         /\ Side!Unfinished <=> Held /\ ~Drained
         /\ One(Drained) \in {0, 1} /\ One(Held) \in {0, 1}
<1>1. /\ Answered \in Nat /\ openWrites \in Seq(WriteBursts) /\ Len(openWrites) \in Nat
      /\ Answered <= Len(openWrites)
  <2>1. LineFits
    BY TrafficLinesUp
  <2> DEFINE x == Rest(cmdQueue, "write", {TRUE}, 1)  y == One(awvalid)
             a == Len(respQueue)  p == Master!RespPending  m == Len(openWrites)
  <2>2. x + y + a + p = m /\ x \in Nat /\ y \in {0, 1} /\ a \in Nat /\ p \in {0, 1}
    BY <2>1 DEF LineFits
  <2>3. a <= m
    <3> HIDE DEF x, y, a, p, m
    <3>1. m = x + y + a + p /\ x >= 0 /\ y >= 0 /\ p >= 0 /\ x \in Int /\ y \in Int /\ a \in Int /\ p \in Int
      BY <2>2
    <3> QED
      BY <3>1
  <2>4. openWrites \in Seq(WriteBursts)
    BY <2>1 DEF LineFits
  <2>5. Len(openWrites) \in Nat
    BY <2>4
  <2> QED
    BY <2>2, <2>3, <2>4, <2>5 DEF Answered
<1>2. ASSUME Held
      PROVE  /\ Answered + 1 \in 1 .. Len(openWrites) /\ openWrites[Answered + 1] \in WriteBursts
             /\ owner.len \in Nat /\ Len(popped) \in Nat /\ Len(popped) <= owner.len + 1
  <2>1. Answered + 1 \in 1 .. Len(openWrites)
    BY <1>1, <1>2 DEF HandInv
  <2>2. openWrites[Answered + 1] \in WriteBursts
    BY <1>1, <2>1
  <2>3. owner.len \in Nat
    BY <1>2, <2>2, WordsOfBurst DEF HandInv
  <2> QED
    BY <1>2, <2>1, <2>2, <2>3 DEF HandInv
<1>3. Side!Unfinished <=> Held /\ ~Drained
  <2>1. CASE Held
    <3>1. Len(popped) <= owner.len <=> Len(popped) # owner.len + 1
      BY <1>2, <2>1
    <3>2. dlydResp => Len(popped) = owner.len + 1
      BY DEF HandInv
    <3> QED
      BY <2>1, <3>1, <3>2 DEF Held, Drained, Side!Unfinished
  <2>2. CASE ~Held
    BY <2>2 DEF Held, Side!Unfinished
  <2> QED
    BY <2>1, <2>2
<1>4. One(Drained) \in {0, 1} /\ One(Held) \in {0, 1}
  BY DEF One
<1> QED
  BY <1>1, <1>2, <1>3, <1>4

\* The word the APB side gets next is one of the oldest write not drained yet.
Next1 == Answered + One(Drained) + 1

\* The first word of the flow is one of the oldest write not drained, while there is one in
\* hand the write in hand.
LEMMA FirstWord ==
  ASSUME TrafficInv, WordsInv, HandInv
  PROVE  /\ Flow \in Seq(SentWords)
         /\ Side!Unfinished => Flow # <<>> /\ Next1 = Answered + 1
         /\ Flow # <<>> => /\ Next1 \in 1 .. Len(openWrites)
                           /\ Flow[1].data \in 0 .. openWrites[Next1].cmd.len
                           /\ Flow[1] = WordAt(openWrites[Next1], Flow[1].data)
<1>1. Flow \in Seq(SentWords)
  BY Joined DEF WordsInv, Flow
<1>2. /\ Answered \in Nat /\ Len(openWrites) \in Nat
      /\ Side!Unfinished <=> Held /\ ~Drained
      /\ One(Drained) \in {0, 1}
      /\ Held => Answered + 1 <= Len(openWrites)
  BY HandTyped
<1>3. LastsIn(Flow) \in Nat /\ LastsIn(Flow) + Answered + One(Drained) = Len(openWrites)
  BY <1>1, CountsTyped DEF WordsInv
<1>4. Len(openWrites) + 1 - LastsIn(Flow) = Next1
  <2> DEFINE l == LastsIn(Flow)  o == One(Drained)  m == Len(openWrites)
  <2>1. l + Answered + o = m /\ l \in Int /\ Answered \in Int /\ o \in Int
    BY <1>2, <1>3
  <2> HIDE DEF l, o, m
  <2>2. m + 1 - l = Answered + o + 1
    BY <2>1
  <2> QED
    BY <2>2 DEF l, o, m, Next1
<1>5. ASSUME Side!Unfinished PROVE Flow # <<>> /\ Next1 = Answered + 1
  <2>1. One(Drained) = 0
    BY <1>2, <1>5 DEF One
  <2>2. LastsIn(Flow) # 0
    BY <1>2, <1>3, <1>5, <2>1
  <2> QED
    BY <1>2, <2>1, <2>2, CountsOfEmpty DEF Next1
<1>6. ASSUME Flow # <<>>
      PROVE  /\ Next1 \in 1 .. Len(openWrites)
             /\ Flow[1].data \in 0 .. openWrites[Next1].cmd.len
             /\ Flow[1] = WordAt(openWrites[Next1], Flow[1].data)
  <2>1. 1 \in 1 .. Len(Flow)
    BY <1>1, <1>6
  <2>2. /\ Rest(Flow, "last", {TRUE}, 1) \in 1 .. Len(openWrites)
        /\ Flow[1].data \in 0 .. BurstOf(Flow, openWrites, 1).cmd.len
        /\ Flow[1] = WordAt(BurstOf(Flow, openWrites, 1), Flow[1].data)
    BY <2>1 DEF WordsInv, Owed
  <2>3. Rest(Flow, "last", {TRUE}, 1) = LastsIn(Flow)
    BY DEF LastsIn, Count
  <2>4. BurstOf(Flow, openWrites, 1) = openWrites[Next1]
    BY <1>4, <2>3 DEF BurstOf
  <2>5. Next1 \in 1 .. Len(openWrites)
    <3>1. LastsIn(Flow) \in 1 .. Len(openWrites)
      BY <2>2, <2>3
    <3> QED
      BY <1>2, <1>4, <3>1
  <2> QED
    BY <2>2, <2>4, <2>5
<1> QED
  BY <1>1, <1>5, <1>6

\* The command at the output of the queue is the oldest write not begun yet.
LEMMA NextWrite ==
  ASSUME TrafficInv, LineInv, Starts, CmdOut.write
  PROVE  /\ Answered + Master!RespPending + 1 \in 1 .. Len(openWrites)
         /\ CmdOut = openWrites[Answered + Master!RespPending + 1].cmd
<1>1. LineFits
  BY TrafficLinesUp
<1>2. cmdQueue # <<>> /\ CmdOut = cmdQueue[1] /\ 1 \in 1 .. Len(cmdQueue) /\ CmdOut \in Commands
  <2>1. cmdQueue # <<>>
    BY DEF Starts, CmdQueue!PopEmpty, TrafficInv, BridgeInv, QueuesSafe, Bracketed
  <2> QED
    BY <1>1, <2>1 DEF CmdOut, LineFits
<1>3. cmdQueue[1].write \in {TRUE}
  <2>1. CmdOut.write \in BOOLEAN
    BY <1>2, KindOfCommand
  <2> QED
    BY <1>2, <2>1
<1>4. /\ Len(CommandsOf(openWrites)) = Len(openWrites)
      /\ \A k \in 1 .. Len(openWrites) : CommandsOf(openWrites)[k] = openWrites[k].cmd
  BY <1>1, CommandsOfBursts DEF LineFits
<1> DEFINE k == Len(openWrites) - One(awvalid) + 1 - Rest(cmdQueue, "write", {TRUE}, 1)
<1>5. k \in 1 .. Len(openWrites) /\ CmdOut = openWrites[k].cmd
  BY <1>2, <1>3, <1>4 DEF LineInv, Line, LinedUp
<1>6. k = Answered + Master!RespPending + 1
  <2> DEFINE x == Rest(cmdQueue, "write", {TRUE}, 1)  y == One(awvalid)
             l == Answered  p == Master!RespPending  m == Len(openWrites)
  <2>1. x + y + l + p = m /\ x \in Nat /\ y \in {0, 1} /\ l \in Nat /\ p \in {0, 1}
    BY <1>1 DEF LineFits, Answered
  <2>2. m - y + 1 - x = l + p + 1
    <3> HIDE DEF x, y, l, p, m
    <3> QED
      BY <2>1
  <2> QED
    BY <2>2
<1> QED
  BY <1>5, <1>6

\* In an idle cycle a write is drained when its answer is due.
LEMMA IdleDrained ==
  ASSUME HandInv, state = "IDLE"
  PROVE  /\ Drained <=> Held
         /\ Held <=> dlydResp
         /\ One(Drained) = Master!RespPending /\ One(Held) = One(Drained)
BY DEF HandInv, Held, Drained, One, Master!RespPending

\* So the word at the output of the write buffer is the one the APB side expects.
LEMMA WordsFitSide ==
  ASSUME TrafficInv, LineInv, WordsInv, HandInv, WordRegTyped
  PROVE  SideFits
<1>1. CASE WordQueue!PopEmpty
  <2>1. WordOut \in Side!IssuedWords
    BY <1>1 DEF WordOut, WordRegTyped
  <2> QED
    BY <1>1, <2>1 DEF SideFits, Side!WordFits, Side!AheadFits
<1>2. CASE ~WordQueue!PopEmpty
  <2>1. wordQueue # <<>> /\ WordOut = Head(wordQueue)
    BY <1>2 DEF WordOut, WordQueue!PopEmpty, TrafficInv, BridgeInv, QueuesSafe, Bracketed
  <2>2. Flow # <<>> /\ WordOut = Flow[1]
    BY <2>1, FlowPopped DEF WordsInv, Flow
  <2> DEFINE b == openWrites[Next1]
  <2>3. /\ WordOut \in SentWords
        /\ WordOut = WordAt(b, WordOut.data)
    BY <2>2, FirstWord
  <2>4. WordOut \in Side!IssuedWords
    BY <2>3 DEF SentWords, Side!IssuedWords
  <2>5. WordOut.data = IF Side!Unfinished THEN Len(popped) ELSE 0
    BY <2>2 DEF WordsInv
  <2>6. WordOut.last = (WordOut.data = b.cmd.len) /\ WordOut.last \in BOOLEAN
    BY <2>3 DEF WordAt, SentWords
  <2> HIDE DEF b
  <2>7. ASSUME Side!Unfinished
        PROVE  WordOut.data = Len(popped) /\ (WordOut.last <=> Len(popped) = owner.len)
    <3>1. b.cmd = owner
      BY <2>7, FirstWord, HandTyped DEF b, HandInv
    <3> QED
      BY <2>5, <2>6, <2>7, <3>1
  <2>8. ASSUME Side!Waiting PROVE WordOut.last <=> CmdOut.len = 0
    <3>1. state = "IDLE" /\ Starts /\ CmdOut.write
      BY <2>8 DEF Side!Waiting, Starts
    <3>2. ~Side!Unfinished
      BY <3>1 DEF Side!Unfinished
    <3>3. Answered + Master!RespPending + 1 = Next1
      BY <3>1, IdleDrained DEF Next1
    <3>4. CmdOut = b.cmd
      BY <3>1, <3>3, NextWrite DEF b
    <3> QED
      BY <2>5, <2>6, <3>2, <3>4
  <2> QED
    BY <1>2, <2>4, <2>5, <2>7, <2>8 DEF SideFits, Side!WordFits, Side!AheadFits
<1> QED
  BY <1>1, <1>2

\* At first no write is on its way.
LEMMA WritesInit == HistoryInit => WordsInv /\ HandInv /\ AnswersInv /\ Side!WriteDataInv
<1> SUFFICES ASSUME HistoryInit PROVE WordsInv /\ HandInv /\ AnswersInv /\ Side!WriteDataInv
  OBVIOUS
<1>1. /\ wordQueue = <<>> /\ toSend = <<>> /\ respQueue = <<>> /\ openWrites = <<>>
      /\ apbWrites = <<>> /\ state = "IDLE" /\ dlydResp = FALSE
  BY DEF HistoryInit, Init, WordQueue!Init, RespQueue!Init, Apb!Reset
<1>2. ~Held /\ ~Drained /\ One(Drained) = 0 /\ One(Held) = 0
  BY <1>1 DEF Held, Drained, One
<1>3. /\ Flow = <<>> /\ \A S : <<>> \in Seq(S)
      /\ Answered = 0 /\ Len(openWrites) = 0 /\ Len(apbWrites) = 0
  BY <1>1 DEF Flow, Answered
<1>4. Owed(<<>>, <<>>)
  <2>1. Len(<<>>) = 0 /\ 1 .. Len(<<>>) = {} /\ 1 .. Len(<<>>) - 1 = {}
    OBVIOUS
  <2> QED
    BY <2>1 DEF Owed
<1>5. WordsInv
  <2>1. LastsIn(Flow) = 0
    BY <1>3, CountsOfEmpty
  <2>2. LastsIn(Flow) + Answered + One(Drained) = Len(openWrites)
    BY <1>2, <1>3, <2>1
  <2> QED
    BY <1>1, <1>3, <1>4, <2>2 DEF WordsInv
<1>6. HandInv
  <2>1. Len(apbWrites) = Answered + One(Held)
    BY <1>2, <1>3
  <2>2. \E S : apbWrites \in Seq(S)
    BY <1>1, <1>3
  <2> QED
    BY <1>1, <1>2, <2>1, <2>2 DEF HandInv
<1>7. AnswersInv
  BY <1>3 DEF AnswersInv
<1>8. Side!WriteDataInv
  BY SideResets, Side!WriteDataInit, SideAssumptions
<1> QED
  BY <1>5, <1>6, <1>7, <1>8

\* The bridge sends the master's words on, unseen.
LEMMA AclkKeepsFlow ==
  ASSUME TrafficInv, WordsInv, NEW w \in BOOLEAN, NEW b \in BOOLEAN, NEW r \in BOOLEAN,
         AclkWith(w, b, r)
  PROVE  Flow' = Flow /\ wordQueue' \in Seq(SentWords) /\ toSend' \in Seq(SentWords)
<1>1. CASE w
  <2>1. ~WordQueue!PushFull /\ toSend # <<>> /\ toSend' = Tail(toSend)
    BY <1>1 DEF AclkWith, wready
  <2>2. wordQueue' = Append(wordQueue, Head(toSend))
    BY <1>1, <2>1 DEF AclkWith, WordQueue!PushEdge
  <2> QED
    BY <2>1, <2>2, FlowPushed DEF WordsInv, Flow
<1>2. CASE ~w
  BY <1>2 DEF AclkWith, WordQueue!PushEdge, WordsInv, Flow
<1> QED
  BY <1>1, <1>2

\* An edge of aclk takes at most the oldest answer, with its burst and its record.
LEMMA AclkKeepsWrites ==
  ASSUME TrafficInv, WordsInv, HandInv, AnswersInv,
         NEW w \in BOOLEAN, NEW b \in BOOLEAN, NEW r \in BOOLEAN,
         AclkWith(w, b, r), AclkRecorded(r)
  PROVE  WordsInv' /\ HandInv' /\ AnswersInv'
<1>1. /\ respQueue' = IF b THEN Tail(respQueue) ELSE respQueue
      /\ b => respQueue # <<>>
      /\ openWrites' = IF b THEN Tail(openWrites) ELSE openWrites
  BY AclkMoves
<1>2. /\ apbWrites' = IF b THEN Tail(apbWrites) ELSE apbWrites
      /\ UNCHANGED <<state, dlydResp, owner, popped, made>>
  BY DEF AclkWith, AclkRecorded, registers
<1>3. Flow' = Flow /\ wordQueue' \in Seq(SentWords) /\ toSend' \in Seq(SentWords)
  BY AclkKeepsFlow
<1>4. Held' = Held /\ Drained' = Drained /\ Side!Unfinished' = Side!Unfinished
  BY <1>2 DEF Held, Drained, Side!Unfinished
<1>5. CASE ~b
  <2>1. UNCHANGED <<respQueue, openWrites, apbWrites>>
    BY <1>1, <1>2, <1>5
  <2> QED
    BY <1>2, <1>3, <1>4, <2>1 DEF WordsInv, HandInv, AnswersInv, Answered, Owed, BurstOf
<1>6. CASE b
  <2>1. PICK S : respQueue \in Seq(S)
    BY DEF TrafficInv, BridgeInv, QueuesSafe, Bracketed
  <2>2. PICK R : apbWrites \in Seq(R)
    BY DEF HandInv
  <2>3. /\ openWrites \in Seq(WriteBursts) /\ Len(openWrites) \in Nat /\ Answered \in Nat
        /\ Answered <= Len(openWrites)
        /\ One(Drained) \in {0, 1} /\ One(Held) \in {0, 1}
        /\ Held => Answered + 1 \in 1 .. Len(openWrites)
    BY HandTyped
  <2>4. Answered # 0 /\ Answered = Len(respQueue)
    BY <1>1, <1>6, <2>1 DEF Answered
  <2>5. openWrites # <<>>
    BY <2>3, <2>4
  <2>6. /\ Answered' = Answered - 1
        /\ \A k \in 1 .. Answered - 1 : respQueue'[k] = respQueue[k + 1]
    BY <1>1, <1>6, <2>1, <2>4 DEF Answered
  <2>7. /\ Len(openWrites') = Len(openWrites) - 1
        /\ \A k \in 1 .. Len(openWrites) - 1 : openWrites'[k] = openWrites[k + 1]
    BY <1>1, <1>6, <2>3, <2>5
  <2>8. Len(apbWrites) = Answered + One(Held)
    BY DEF HandInv
  <2>9. /\ Len(apbWrites') = Len(apbWrites) - 1 /\ apbWrites' \in Seq(R)
        /\ \A k \in 1 .. Len(apbWrites) - 1 : apbWrites'[k] = apbWrites[k + 1]
    <3>1. apbWrites # <<>>
      BY <2>3, <2>4, <2>8
    <3> QED
      BY <1>2, <1>6, <2>2, <3>1
  <2>10. WordsInv'
    <3>1. /\ Flow \in Seq(SentWords) /\ LastsIn(Flow) \in Nat
          /\ LastsIn(Flow) + Answered + One(Drained) = Len(openWrites)
      BY FirstWord, CountsTyped DEF WordsInv
    <3> DEFINE l == LastsIn(Flow)  o == One(Drained)  m == Len(openWrites)
    <3>2. l < m /\ l + (Answered - 1) + o = m - 1
      <4>1. l \in Nat /\ o \in {0, 1} /\ m \in Nat /\ Answered \in Nat /\ Answered # 0
            /\ l + Answered + o = m
        BY <2>3, <2>4, <3>1
      <4> HIDE DEF l, o, m
      <4> QED
        BY <4>1
    <3>3. Owed(Flow, openWrites')
      BY <1>1, <1>6, <2>3, <2>5, <3>1, <3>2, OwedAnswered DEF WordsInv
    <3>4. LastsIn(Flow)' = LastsIn(Flow) /\ One(Drained)' = One(Drained)
      BY <1>3, <1>4
    <3>5. LastsIn(Flow)' + Answered' + One(Drained)' = Len(openWrites')
      BY <2>6, <2>7, <3>2, <3>4
    <3>6. Owed(Flow, openWrites)'
      BY <1>3, <3>3
    <3> QED
      BY <1>2, <1>3, <1>4, <3>5, <3>6 DEF WordsInv
  <2>11. HandInv'
    <3>1. Len(apbWrites') = Answered' + One(Held)'
      BY <1>4, <2>3, <2>6, <2>8, <2>9
    <3>2. ASSUME Held
          PROVE  /\ Answered' + 1 <= Len(openWrites')
                 /\ openWrites'[Answered' + 1] = openWrites[Answered + 1]
                 /\ apbWrites'[Answered' + 1] = apbWrites[Answered + 1]
      <4>1. Answered \in 1 .. Len(openWrites) - 1 /\ Answered \in 1 .. Len(apbWrites) - 1
        BY <2>3, <2>4, <2>8, <3>2 DEF One
      <4>2. Answered' + 1 = Answered
        BY <2>3, <2>6
      <4> QED
        BY <2>7, <2>9, <4>1, <4>2
    <3> QED
      BY <1>2, <1>4, <2>9, <3>1, <3>2 DEF HandInv
  <2>12. AnswersInv'
    <3>1. ASSUME NEW k \in 1 .. Answered'
          PROVE  /\ k + 1 \in 1 .. Answered /\ respQueue'[k] = respQueue[k + 1]
                 /\ openWrites'[k] = openWrites[k + 1] /\ apbWrites'[k] = apbWrites[k + 1]
      <4>1. /\ k + 1 \in 1 .. Answered /\ k \in 1 .. Answered - 1
            /\ k \in 1 .. Len(openWrites) - 1 /\ k \in 1 .. Len(apbWrites) - 1
        BY <2>3, <2>6, <2>8
      <4> QED
        BY <2>6, <2>7, <2>9, <4>1
    <3> QED
      BY <3>1 DEF AnswersInv
  <2> QED
    BY <2>10, <2>11, <2>12
<1> QED
  BY <1>5, <1>6

\* A write is sent with its words behind those of the others.
LEMMA SendWriteKeepsWrites ==
  ASSUME TrafficInv, WordsInv, HandInv, AnswersInv, SendWrite, UNCHANGED record
  PROVE  WordsInv' /\ HandInv' /\ AnswersInv'
<1>1. PICK b \in WriteBursts : /\ openWrites' = Append(openWrites, b)
                               /\ toSend' = toSend \o WordsOf(b)
  BY DEF SendWrite
<1>2. UNCHANGED <<wordQueue, respQueue, apbWrites, state, dlydResp, owner, popped, made>>
  BY DEF SendWrite, record, wordVars, respVars, registers
<1>3. Held' = Held /\ Drained' = Drained /\ Side!Unfinished' = Side!Unfinished
      /\ Answered' = Answered
  BY <1>2 DEF Held, Drained, Side!Unfinished, Answered
<1>4. /\ openWrites \in Seq(WriteBursts) /\ Len(openWrites) \in Nat /\ Answered \in Nat
      /\ Answered <= Len(openWrites)
      /\ Held => Answered + 1 \in 1 .. Len(openWrites)
      /\ One(Drained) \in {0, 1}
  BY HandTyped
<1>5. /\ Len(openWrites') = Len(openWrites) + 1
      /\ \A k \in 1 .. Len(openWrites) : openWrites'[k] = openWrites[k]
  BY <1>1, <1>4
<1>6. WordsInv'
  <2>1. Flow \in Seq(SentWords) /\ wordQueue \in Seq(SentWords) /\ toSend \in Seq(SentWords)
        /\ WordsOf(b) \in Seq(SentWords) /\ LastsIn(Flow) \in Nat
    BY FirstWord, WordsOfBurst, CountsTyped DEF WordsInv
  <2>2. Flow' = Flow \o WordsOf(b) /\ toSend' \in Seq(SentWords)
    <3>1. toSend' \in Seq(SentWords)
      BY <1>1, <2>1, Joined
    <3>2. (wordQueue \o toSend) \o WordsOf(b) = wordQueue \o (toSend \o WordsOf(b))
      BY <2>1, ConcatAssociative
    <3> QED
      BY <1>1, <1>2, <3>1, <3>2 DEF Flow
  <2>3. /\ Owed(Flow \o WordsOf(b), openWrites')
        /\ LastsIn(Flow \o WordsOf(b)) = LastsIn(Flow) + 1
        /\ Flow \o WordsOf(b) # <<>>
        /\ (Flow \o WordsOf(b))[1].data = IF Flow = <<>> THEN 0 ELSE Flow[1].data
    BY <1>1, <1>4, <2>1, OwedSent DEF WordsInv
  <2>4. Side!Unfinished => Flow # <<>>
    BY FirstWord
  <2>5. Flow'[1].data = IF Side!Unfinished THEN Len(popped) ELSE 0
    BY <2>2, <2>3, <2>4 DEF WordsInv
  <2>6. LastsIn(Flow)' + Answered' + One(Drained)' = Len(openWrites')
    <3> DEFINE l == LastsIn(Flow)  o == One(Drained)  m == Len(openWrites)
    <3>1. l + Answered + o = m
      BY DEF WordsInv
    <3>2. (l + 1) + Answered + o = m + 1
      <4>1. l \in Nat /\ o \in {0, 1} /\ m \in Nat
        BY <1>4, <2>1
      <4> HIDE DEF l, o, m
      <4> QED
        BY <1>4, <3>1, <4>1
    <3>3. LastsIn(Flow)' = l + 1 /\ One(Drained)' = o
      BY <1>3, <2>2, <2>3
    <3> HIDE DEF l, o, m
    <3>4. Len(openWrites') = m + 1
      BY <1>5 DEF m
    <3> QED
      BY <1>3, <3>2, <3>3, <3>4
  <2>7. Owed(Flow, openWrites)'
    BY <2>2, <2>3
  <2> QED
    BY <1>2, <1>3, <2>1, <2>2, <2>5, <2>6, <2>7 DEF WordsInv
<1>7. HandInv'
  <2>1. Held => Answered + 1 <= Len(openWrites')
                /\ openWrites'[Answered + 1] = openWrites[Answered + 1]
    BY <1>4, <1>5
  <2> QED
    BY <1>2, <1>3, <2>1 DEF HandInv
<1>8. AnswersInv'
  <2>1. \A k \in 1 .. Answered : openWrites'[k] = openWrites[k]
    BY <1>4, <1>5
  <2> QED
    BY <1>2, <1>3, <2>1 DEF AnswersInv
<1> QED
  BY <1>6, <1>7, <1>8

\* Nothing else the master sends touches the writes.
LEMMA SendsKeepWrites ==
  ASSUME TrafficInv, WordsInv, HandInv, AnswersInv,
         ((SendWrite \/ SendRead) /\ UNCHANGED record) \/ UNCHANGED historyVars
  PROVE  WordsInv' /\ HandInv' /\ AnswersInv'
<1>1. CASE SendWrite /\ UNCHANGED record
  BY <1>1, SendWriteKeepsWrites
<1>2. CASE (SendRead /\ UNCHANGED record) \/ UNCHANGED historyVars
  <2>1. UNCHANGED <<wordQueue, toSend, openWrites, respQueue, apbWrites, state, dlydResp, owner,
                    popped, made>>
    BY <1>2 DEF SendRead, record, historyVars, vars, queues, wordVars, respVars, registers,
                partners
  <2> QED
    BY <2>1 DEF WordsInv, HandInv, AnswersInv, Answered, Owed, BurstOf, Flow, Held, Drained,
                Side!Unfinished
<1> QED
  BY <1>1, <1>2

----------------------------------------------------------------------------
(* An edge of pclk.                                                         *)

\* What it does to the flow of words, the answers and the writes recorded.
LEMMA PclkMovesWrites ==
  ASSUME TrafficInv, WordsInv, HandInv, Side!WriteDataInv, Side!Tick, PclkEdge, PclkRecorded
  PROVE  /\ openWrites' = openWrites /\ toSend' = toSend
         /\ Apb!PopWriteBuff =>
              /\ ~WordQueue!PopEmpty /\ Flow # <<>> /\ WordOut = Flow[1] /\ Flow' = Tail(Flow)
              /\ wordQueue' \in Seq(SentWords)
         /\ ~Apb!PopWriteBuff => Flow' = Flow /\ wordQueue' = wordQueue
         /\ Apb!PushResponse <=> dlydResp
         /\ dlydResp => state = "IDLE" /\ respQueue' = Append(respQueue, Response)
         /\ ~dlydResp => respQueue' = respQueue
         /\ Answered' = Answered + Master!RespPending
         /\ Len(popped) \in Nat /\ WordOut.strobes \in {"all", "none", "some"}
         /\ popped' = IF Starts THEN IF Apb!PopWriteBuff THEN <<WordOut.strobes>> ELSE <<>>
                      ELSE IF Apb!PopWriteBuff THEN Append(popped, WordOut.strobes) ELSE popped
<1>1. openWrites' = openWrites /\ toSend' = toSend
  BY DEF PclkEdge
<1>2. ASSUME Apb!PopWriteBuff
      PROVE  /\ ~WordQueue!PopEmpty /\ Flow # <<>> /\ WordOut = Flow[1] /\ Flow' = Tail(Flow)
             /\ wordQueue' \in Seq(SentWords)
  <2>1. ~WordQueue!PopEmpty
    BY <1>2 DEF Apb!PopWriteBuff
  <2>2. wordQueue # <<>> /\ WordOut = Head(wordQueue)
    BY <2>1 DEF WordOut, WordQueue!PopEmpty, TrafficInv, BridgeInv, QueuesSafe, Bracketed
  <2>3. wordQueue' = Tail(wordQueue)
    BY <1>2, <2>1 DEF PclkEdge, WordQueue!PopEdge
  <2>4. /\ Flow # <<>> /\ Flow[1] = Head(wordQueue) /\ Tail(wordQueue) \o toSend = Tail(Flow)
        /\ Tail(wordQueue) \in Seq(SentWords)
    BY <2>2, FlowPopped DEF WordsInv, Flow
  <2> QED
    BY <1>1, <2>1, <2>2, <2>3, <2>4 DEF Flow
<1>3. ~Apb!PopWriteBuff => Flow' = Flow /\ wordQueue' = wordQueue
  BY <1>1 DEF PclkEdge, WordQueue!PopEdge, Flow
<1>4. (Apb!PushResponse <=> dlydResp) /\ (dlydResp => state = "IDLE")
  <2>1. dlydResp => state = "IDLE" /\ ~RespQueue!PushFull
    BY DEF Side!WriteDataInv, Side!MasterInv, Side!ResponseInv
  <2> QED
    BY <2>1 DEF Apb!PushResponse
<1>5. /\ dlydResp => respQueue' = Append(respQueue, Response)
      /\ ~dlydResp => respQueue' = respQueue
  BY <1>4, PclkMoves, SameMoves
<1>6. Answered' = Answered + Master!RespPending
  <2>1. PICK S : respQueue \in Seq(S)
    BY DEF TrafficInv, BridgeInv, QueuesSafe, Bracketed
  <2>2. respQueue \in Seq(S \cup {Response})
    BY <2>1, SeqMonotone
  <2>3. Len(Append(respQueue, Response)) = Len(respQueue) + 1 /\ Len(respQueue) \in Nat
    BY <2>2
  <2> QED
    BY <1>5, <2>3 DEF Answered, Master!RespPending
<1>7. /\ popped \in Seq({"all", "none", "some"}) /\ WordOut.strobes \in {"all", "none", "some"}
  <2>1. popped \in Seq({"all", "none", "some"} \cup {"none"}) /\ WordOut \in Side!IssuedWords
    BY DEF Side!WriteDataInv, Side!WriteInv, Side!WordInv, Side!WordFits
  <2>2. {"all", "none", "some"} \cup {"none"} = {"all", "none", "some"}
    OBVIOUS
  <2> QED
    BY <2>1, <2>2 DEF Side!IssuedWords
<1>8. /\ Len(popped) \in Nat
      /\ popped' = IF Starts THEN IF Apb!PopWriteBuff THEN <<WordOut.strobes>> ELSE <<>>
                   ELSE IF Apb!PopWriteBuff THEN Append(popped, WordOut.strobes) ELSE popped
  <2>1. /\ popped' = (IF Starts THEN <<>> ELSE popped)
                       \o (IF Apb!PopWriteBuff THEN <<WordOut.strobes>> ELSE <<>>)
    BY DEF PclkRecorded
  <2>2. /\ Append(popped, WordOut.strobes) = popped \o <<WordOut.strobes>>
        /\ popped \o <<>> = popped
        /\ <<>> \o <<>> = <<>>
        /\ Len(popped) \in Nat
    BY <1>7, AppendIsConcat
  <2>3. <<>> \o <<WordOut.strobes>> = <<WordOut.strobes>>
    <3>1. <<WordOut.strobes>> \in Seq({"all", "none", "some"})
      BY <1>7
    <3> QED
      BY <3>1, ConcatEmptySeq
  <2> QED
    BY <2>1, <2>2, <2>3
<1> QED
  BY <1>1, <1>2, <1>3, <1>4, <1>5, <1>6, <1>7, <1>8

\* The write in hand, and the ways an edge takes it.
LEMMA HandMoves ==
  ASSUME TrafficInv, HandInv, Side!WriteDataInv, Side!Tick, PclkEdge, PclkRecorded
  PROVE  /\ owner' = IF Starts THEN CmdOut ELSE owner
         /\ dlydResp' <=> state = "WRESP" /\ ~RespQueue!PushFull
         /\ dlydResp' \in BOOLEAN
         /\ state = "IDLE" /\ ~Starts => ~Held' /\ ~Apb!PopWriteBuff
         /\ Starts /\ ~CmdOut.write => ~Held' /\ ~Apb!PopWriteBuff
         /\ Starts /\ CmdOut.write => Held' /\ ~dlydResp'
         /\ state # "IDLE" /\ ~owner.write =>
              ~Held' /\ ~Held /\ ~Drained /\ ~Apb!PopWriteBuff /\ state # "WEN"
         /\ state # "IDLE" /\ owner.write =>
              /\ Held' /\ Held /\ ~dlydResp /\ ~Starts
              /\ dlydResp' =>
                   state' = "IDLE" /\ Len(popped) = owner.len + 1 /\ ~Apb!PopWriteBuff
<1> USE DEF Side!WriteDataInv
<1>1. /\ Master!Edge /\ Master!CmdInHand
      /\ Side!Registers
  BY PclkMoves, SideAssumptions, Side!StateMoves DEF TrafficInv, Side!Tick
<1>2. owner' = IF Starts THEN CmdOut ELSE owner
  BY DEF PclkRecorded
<1>3. (dlydResp' <=> state = "WRESP" /\ ~RespQueue!PushFull) /\ dlydResp' \in BOOLEAN
  <2>1. dlydResp' = IF Side!PushResponse THEN FALSE ELSE dlydResp \/ Side!PushRspRequest
    BY <1>1 DEF Side!Registers, Side!ResponseRegisters
  <2>2. (Side!PushResponse <=> dlydResp) /\ (dlydResp => state = "IDLE")
    BY DEF Side!PushResponse, Side!MasterInv, Side!ResponseInv
  <2>3. Side!PushRspRequest <=> state = "WRESP" /\ ~RespQueue!PushFull
    BY DEF Side!PushRspRequest
  <2> QED
    BY <2>1, <2>2, <2>3
<1>4. /\ state # "IDLE" => CmdOut = owner
      /\ state \in Side!ReadStates => ~owner.write
      /\ state \in Side!WriteStates => owner.write
  BY DEF Side!WriteInv, Side!Owned
<1>5. /\ state = "IDLE" =>
           \/ CmdQueue!PopEmpty /\ state' = "IDLE"
           \/ ~CmdQueue!PopEmpty /\ state' # "IDLE"
      /\ state # "IDLE" => (Master!PopCmdQueue <=> state' = "IDLE")
  BY <1>1, SideAssumptions, Master!Path
<1>6. Starts <=> state = "IDLE" /\ ~CmdQueue!PopEmpty
  BY DEF Starts
<1>7. ASSUME state = "IDLE", ~Starts PROVE ~Held' /\ ~Apb!PopWriteBuff
  <2>1. state' = "IDLE" /\ ~dlydResp'
    BY <1>3, <1>5, <1>6, <1>7
  <2> QED
    BY <1>6, <1>7, <2>1 DEF Held, Apb!PopWriteBuff
<1>8. ASSUME Starts, ~CmdOut.write PROVE ~Held' /\ ~Apb!PopWriteBuff
  BY <1>2, <1>8 DEF Held, Apb!PopWriteBuff
<1>9. ASSUME Starts, CmdOut.write PROVE Held' /\ ~dlydResp'
  BY <1>2, <1>3, <1>5, <1>6, <1>9 DEF Held
<1>10. ASSUME state # "IDLE", ~owner.write
       PROVE  ~Held' /\ ~Held /\ ~Drained /\ ~Apb!PopWriteBuff /\ state # "WEN"
  <2>1. owner' = owner /\ CmdOut = owner /\ state # "WEN"
    BY <1>2, <1>4, <1>6, <1>10 DEF Side!WriteStates
  <2> QED
    BY <1>10, <2>1 DEF Held, Drained, Apb!PopWriteBuff
<1>11. ASSUME state # "IDLE", owner.write
       PROVE  /\ Held' /\ Held /\ ~dlydResp /\ ~Starts
              /\ dlydResp' =>
                   state' = "IDLE" /\ Len(popped) = owner.len + 1 /\ ~Apb!PopWriteBuff
  <2>1. owner' = owner /\ CmdOut = owner /\ Held /\ ~dlydResp /\ ~Starts
    BY <1>2, <1>4, <1>6, <1>11 DEF Held, HandInv
  <2>2. state' = "IDLE" <=> dlydResp'
    BY <1>3, <1>4, <1>5, <1>11, <2>1
    DEF Master!PopCmdQueue, Master!PushRspRequest, Side!ReadStates
  <2>3. dlydResp' => Len(popped) = owner.len + 1 /\ ~Apb!PopWriteBuff
    BY <1>3 DEF Side!ProgressInv, Apb!PopWriteBuff
  <2> QED
    BY <1>11, <2>1, <2>2, <2>3 DEF Held
<1> QED
  BY <1>2, <1>3, <1>7, <1>8, <1>9, <1>10, <1>11

\* What an edge writes into the record of the slaves.
LEMMA SlavesRecord ==
  ASSUME TrafficInv, HandInv, Side!WriteDataInv, Side!Tick, PclkEdge, PclkRecorded
  PROVE  /\ \E S : apbWrites' \in Seq(S)
         /\ Len(apbWrites) \in Nat
         /\ Starts /\ CmdOut.write =>
              /\ Len(apbWrites') = Len(apbWrites) + 1
              /\ apbWrites'[Len(apbWrites) + 1] = <<>> /\ made' = <<>>
              /\ \A k \in 1 .. Len(apbWrites) : apbWrites'[k] = apbWrites[k]
         /\ state = "WEN" =>
              /\ Len(apbWrites') = Len(apbWrites)
              /\ Held => apbWrites'[Answered + 1] = made'
              /\ \A k \in 1 .. Answered : apbWrites'[k] = apbWrites[k]
         /\ ~(Starts /\ CmdOut.write) /\ state # "WEN" => apbWrites' = apbWrites
         /\ ~Starts /\ state # "WEN" => made' = made
<1> DEFINE write == [addr |-> paddr, sel |-> psel, data |-> pwdata]
           n == Len(apbWrites)
<1>1. apbWrites' = CASE Starts /\ CmdOut.write -> Append(apbWrites, <<>>)
                     [] state = "WEN" -> [apbWrites EXCEPT ![n] = Append(@, write)]
                     [] OTHER -> apbWrites
  BY DEF PclkEdge, SlavesSee, Starts
<1>2. made' = CASE Starts -> <<>> [] state = "WEN" -> Append(made, write) [] OTHER -> made
  BY DEF PclkRecorded
<1>3. PICK S : apbWrites \in Seq(S)
  BY DEF HandInv
<1>4. n \in Nat
  BY <1>3
<1>5. CASE Starts
  <2>1. state = "IDLE" /\ made' = <<>>
    BY <1>2, <1>5 DEF Starts
  <2>2. CASE CmdOut.write
    <3>1. apbWrites' = Append(apbWrites, <<>>)
      BY <1>5, <2>2 DEF PclkEdge, SlavesSee, Starts
    <3>2. apbWrites \in Seq(S \cup {<<>>})
      BY <1>3, SeqMonotone
    <3>3. /\ Append(apbWrites, <<>>) \in Seq(S \cup {<<>>})
          /\ Len(Append(apbWrites, <<>>)) = n + 1
          /\ Append(apbWrites, <<>>)[n + 1] = <<>>
          /\ \A k \in 1 .. n : Append(apbWrites, <<>>)[k] = apbWrites[k]
      <4>1. \A T, x : \A s \in Seq(T) : x \in T =>
              /\ Append(s, x) \in Seq(T) /\ Len(Append(s, x)) = Len(s) + 1
              /\ Append(s, x)[Len(s) + 1] = x
              /\ \A k \in 1 .. Len(s) : Append(s, x)[k] = s[k]
        OBVIOUS
      <4>2. <<>> \in S \cup {<<>>}
        OBVIOUS
      <4> QED
        BY <3>2, <4>1, <4>2
    <3>4. \E R : apbWrites' \in Seq(R)
      BY <3>1, <3>3
    <3> QED
      BY <1>4, <1>5, <2>1, <2>2, <3>1, <3>3, <3>4
  <2>3. CASE ~CmdOut.write
    <3>1. apbWrites' = apbWrites
      BY <1>1, <2>1, <2>3
    <3> QED
      BY <1>3, <1>4, <1>5, <2>1, <2>3, <3>1
  <2> QED
    BY <2>2, <2>3
<1>6. CASE ~Starts /\ state = "WEN"
  <2>1. /\ apbWrites' = [apbWrites EXCEPT ![n] = Append(apbWrites[n], write)]
        /\ made' = Append(made, write)
    BY <1>1, <1>2, <1>6
  <2>2. Held /\ n = Answered + 1 /\ Answered \in Nat
    <3>1. owner.write
      BY <1>6 DEF Side!WriteDataInv, Side!WriteInv, Side!Owned, Side!WriteStates
    <3>2. Held /\ One(Held) = 1
      BY <1>6, <3>1 DEF Held, One
    <3> QED
      BY <3>2, HandTyped DEF HandInv
  <2>3. apbWrites[n] = made
    BY <2>2 DEF HandInv
  <2> DEFINE v == Append(apbWrites[n], write)
  <2>4. apbWrites' = [apbWrites EXCEPT ![n] = v] /\ v = made'
    BY <2>1, <2>3
  <2> HIDE DEF v
  <2>5. /\ apbWrites \in Seq(S \cup {v}) /\ n \in 1 .. n /\ v \in S \cup {v}
        /\ DOMAIN apbWrites = 1 .. n
    BY <1>3, <2>2, SeqMonotone
  <2>6. /\ apbWrites' \in Seq(S \cup {v}) /\ Len(apbWrites') = n
        /\ apbWrites'[n] = v
        /\ \A k \in 1 .. n : k # n => apbWrites'[k] = apbWrites[k]
    <3>1. apbWrites' \in Seq(S \cup {v}) /\ Len(apbWrites') = n
      BY <2>4, <2>5, ExceptSeq
    <3> QED
      BY <2>4, <2>5, <3>1
  <2>7. \A k \in 1 .. Answered : apbWrites'[k] = apbWrites[k]
    <3>1. \A k \in 1 .. Answered : k \in 1 .. n /\ k # n
      BY <2>2
    <3> QED
      BY <2>6, <3>1
  <2>8. \E R : apbWrites' \in Seq(R)
    BY <2>6
  <2> QED
    BY <1>4, <1>6, <2>2, <2>4, <2>6, <2>7, <2>8
<1>7. CASE ~Starts /\ state # "WEN"
  <2>1. apbWrites' = apbWrites /\ made' = made
    BY <1>1, <1>2, <1>7
  <2> QED
    BY <1>3, <1>4, <1>7, <2>1
<1> QED
  BY <1>5, <1>6, <1>7

\* The write in hand after an edge.
WriteInHand ==
  /\ Answered + 1 <= Len(openWrites)
  /\ owner = openWrites[Answered + 1].cmd
  /\ Len(popped) \in 0 .. owner.len + 1
  /\ \A j \in 1 .. Len(popped) : popped[j] = openWrites[Answered + 1].strobes[j]

\* The command taken in an idle cycle is the oldest write not answered, and a word popped in
\* that cycle is its first.
LEMMA StartedInHand ==
  ASSUME TrafficInv, LineInv, WordsInv, HandInv, Side!WriteDataInv, Side!Tick, PclkEdge, PclkRecorded,
         Starts, CmdOut.write
  PROVE  WriteInHand'
<1>1. /\ openWrites' = openWrites
      /\ Apb!PopWriteBuff => WordOut = Flow[1] /\ Flow # <<>>
      /\ Answered' = Answered + Master!RespPending
      /\ popped' = IF Apb!PopWriteBuff THEN <<WordOut.strobes>> ELSE <<>>
      /\ owner' = CmdOut
  BY PclkMovesWrites, HandMoves
<1>2. state = "IDLE" /\ ~Side!Unfinished
  BY DEF Starts, Side!Unfinished
<1>3. Answered' + 1 = Next1
  BY <1>1, <1>2, IdleDrained DEF Next1
<1>4. Answered' + 1 \in 1 .. Len(openWrites) /\ CmdOut = openWrites[Answered' + 1].cmd
  BY <1>1, NextWrite
<1> DEFINE b == openWrites[Answered' + 1]
<1>5. b \in WriteBursts
  BY <1>4, HandTyped
<1>6. b.cmd.len \in Nat /\ owner' = b.cmd
  BY <1>1, <1>4, <1>5, WordsOfBurst
<1>7. /\ Len(popped') \in {0, 1}
      /\ \A j \in 1 .. Len(popped') : popped'[j] = b.strobes[j]
  <2>1. CASE Apb!PopWriteBuff
    <3>1. Flow[1].data = 0
      BY <1>1, <1>2, <2>1 DEF WordsInv
    <3>2. Flow[1] = WordAt(b, 0)
      BY <1>1, <1>3, <2>1, <3>1, FirstWord
    <3>3. WordOut.strobes = b.strobes[1]
      BY <1>1, <2>1, <3>2 DEF WordAt
    <3>4. popped' = <<b.strobes[1]>>
      BY <1>1, <2>1, <3>3
    <3> HIDE DEF b
    <3> QED
      BY <3>4
  <2>2. CASE ~Apb!PopWriteBuff
    BY <1>1, <2>2
  <2> QED
    BY <2>1, <2>2
<1>8. Len(popped') \in 0 .. owner'.len + 1
  BY <1>6, <1>7
<1>9. Answered' + 1 <= Len(openWrites')
  BY <1>1, <1>4
<1> QED
  BY <1>1, <1>4, <1>7, <1>8, <1>9 DEF WriteInHand

\* The words popped for a write in hand are its next ones.
LEMMA GoesOnInHand ==
  ASSUME TrafficInv, WordsInv, HandInv, Side!WriteDataInv, Side!Tick, PclkEdge, PclkRecorded,
         state # "IDLE", owner.write
  PROVE  WriteInHand' /\ Answered' = Answered
<1>1. Held /\ ~dlydResp /\ ~Starts /\ owner' = owner
  BY HandMoves
<1>2. /\ openWrites' = openWrites
      /\ Apb!PopWriteBuff => WordOut = Flow[1] /\ Flow # <<>>
      /\ popped' = IF Apb!PopWriteBuff THEN Append(popped, WordOut.strobes) ELSE popped
      /\ Answered' = Answered + Master!RespPending
      /\ Len(popped) \in Nat
  BY <1>1, PclkMovesWrites
<1>3. Answered' = Answered
  BY <1>1, <1>2, HandTyped DEF Master!RespPending
<1>4. WriteInHand
  BY <1>1 DEF HandInv, WriteInHand
<1> DEFINE b == openWrites[Answered + 1]
<1>5. CASE Apb!PopWriteBuff
  <2>1. Side!Unfinished
    BY <1>5, SideMoves, SideAssumptions, Side!PopsUnfinished DEF Side!WriteDataInv
  <2>2. /\ Flow[1].data = Len(popped) /\ Flow[1] = WordAt(b, Len(popped))
        /\ Len(popped) \in 0 .. b.cmd.len
    BY <1>2, <1>5, <2>1, FirstWord DEF WordsInv
  <2>3. WordOut.strobes = b.strobes[Len(popped) + 1]
    BY <1>2, <1>5, <2>2 DEF WordAt
  <2>4. /\ Len(popped') = Len(popped) + 1
        /\ popped'[Len(popped) + 1] = WordOut.strobes
        /\ \A j \in 1 .. Len(popped) : popped'[j] = popped[j]
    <3>1. popped \in Seq({"all", "none", "some"} \cup {"none"})
      BY DEF Side!WriteDataInv, Side!WriteInv, Side!WordInv
    <3>2. WordOut.strobes \in {"all", "none", "some"} \cup {"none"}
      BY PclkMovesWrites
    <3> QED
      BY <1>2, <1>5, <3>1, <3>2
  <2>5. ASSUME NEW j \in 1 .. Len(popped') PROVE popped'[j] = b.strobes[j]
    <3>1. CASE j = Len(popped) + 1
      BY <2>3, <2>4, <3>1
    <3>2. CASE j # Len(popped) + 1
      <4>1. j \in 1 .. Len(popped)
        BY <1>2, <2>4, <3>2
      <4> QED
        BY <1>4, <2>4, <4>1 DEF WriteInHand
    <3> QED
      BY <3>1, <3>2
  <2>6. Len(popped') \in 0 .. owner.len + 1
    BY <1>1, <1>2, <1>4, <2>2, <2>4, HandTyped DEF WriteInHand
  <2> QED
    BY <1>1, <1>2, <1>3, <1>4, <2>5, <2>6 DEF WriteInHand
<1>6. CASE ~Apb!PopWriteBuff
  BY <1>1, <1>2, <1>3, <1>4, <1>6 DEF WriteInHand
<1> QED
  BY <1>3, <1>5, <1>6

\* So what is recorded of the write in hand stays true.
LEMMA PclkKeepsHand ==
  ASSUME TrafficInv, LineInv, WordsInv, HandInv, Side!WriteDataInv, Side!Tick, PclkEdge, PclkRecorded
  PROVE  HandInv'
<1>1. \E S : apbWrites' \in Seq(S)
  BY SlavesRecord
<1>2. ASSUME dlydResp'
      PROVE  state' = "IDLE" /\ owner'.write /\ Len(popped') = owner'.len + 1
  <2>1. state = "WRESP"
    BY <1>2, HandMoves
  <2>2. state # "IDLE" /\ owner.write
    BY <2>1 DEF Side!WriteDataInv, Side!WriteInv, Side!Owned, Side!WriteStates
  <2>3. /\ state' = "IDLE" /\ Len(popped) = owner.len + 1 /\ ~Apb!PopWriteBuff
        /\ owner' = owner /\ ~Starts
    BY <1>2, <2>2, HandMoves
  <2> QED
    BY <2>2, <2>3, PclkMovesWrites
<1>3. ASSUME Held' PROVE WriteInHand'
  <2>1. (Starts /\ CmdOut.write) \/ (state # "IDLE" /\ owner.write)
    BY <1>3, HandMoves
  <2> QED
    BY <2>1, StartedInHand, GoesOnInHand
<1>4. /\ Len(apbWrites') = Answered' + One(Held')
      /\ Held' => apbWrites'[Answered' + 1] = made'
  <2>1. /\ Answered \in Nat /\ Len(apbWrites) = Answered + One(Held)
        /\ One(Held) \in {0, 1} /\ Answered' = Answered + Master!RespPending
    BY HandTyped, PclkMovesWrites DEF HandInv
  <2>2. CASE Starts /\ CmdOut.write
    <3>1. state = "IDLE" /\ Held'
      BY <2>2, HandMoves DEF Starts
    <3>2. One(Held) = Master!RespPending /\ One(Held') = 1
      BY <3>1, IdleDrained DEF One
    <3>3. Len(apbWrites) = Answered'
      BY <2>1, <3>2
    <3> QED
      BY <2>2, <3>1, <3>2, <3>3, SlavesRecord
  <2>3. CASE state = "IDLE" /\ ~(Starts /\ CmdOut.write)
    <3>1. ~Held' /\ state # "WEN"
      BY <2>3, HandMoves
    <3>2. One(Held) = Master!RespPending /\ One(Held') = 0
      BY <2>3, <3>1, IdleDrained DEF One
    <3>3. apbWrites' = apbWrites
      BY <2>3, <3>1, SlavesRecord
    <3>4. Len(apbWrites') = Answered' + One(Held')
      BY <2>1, <3>2, <3>3
    <3> QED
      BY <3>1, <3>4
  <2>4. CASE state # "IDLE"
    <3>1. ~Starts /\ ~dlydResp
      BY <2>4 DEF Starts, HandInv
    <3>2. Answered' = Answered
      BY <2>1, <3>1 DEF Master!RespPending
    <3>3. Held' <=> Held
      BY <2>4, HandMoves
    <3>4. One(Held') = One(Held)
      BY <3>3 DEF One
    <3>5. Len(apbWrites') = Len(apbWrites)
      BY <3>1, SlavesRecord
    <3>6. Held => apbWrites'[Answered + 1] = made'
      BY <3>1, SlavesRecord DEF HandInv
    <3> QED
      BY <2>1, <3>2, <3>3, <3>4, <3>5, <3>6
  <2> QED
    BY <2>2, <2>3, <2>4 DEF Starts
<1>5. Held' =>
       /\ Answered' + 1 <= Len(openWrites')
       /\ owner' = openWrites'[Answered' + 1].cmd
       /\ Len(popped') \in 0 .. owner'.len + 1
       /\ \A j \in 1 .. Len(popped') : popped'[j] = openWrites'[Answered' + 1].strobes[j]
  BY <1>3 DEF WriteInHand
<1> QED
  BY <1>1, <1>2, <1>4, <1>5 DEF HandInv

\* ApbSide calls a write unfinished while it is held and not drained.
LEMMA UnfinishedIs == TrafficInv /\ HandInv => (Side!Unfinished <=> Held /\ ~Drained)
BY HandTyped

\* A popped word leaves its write drained exactly when it was the last,
LEMMA PoppedWord ==
  ASSUME TrafficInv, LineInv, WordsInv, HandInv, HandInv', Side!WriteDataInv, Side!Tick,
         PclkEdge, PclkRecorded, Apb!PopWriteBuff
  PROVE  /\ Held' /\ Flow # <<>> /\ Len(popped') = Flow[1].data + 1
         /\ Drained' <=> Flow[1].last
         /\ Answered' = Answered + One(Drained)
<1>1. /\ WordOut = Flow[1] /\ Flow # <<>> /\ openWrites' = openWrites
      /\ Answered' = Answered + Master!RespPending
      /\ Len(popped) \in Nat
      /\ popped' = IF Starts THEN <<WordOut.strobes>> ELSE Append(popped, WordOut.strobes)
  BY PclkMovesWrites
<1> DEFINE d == Flow[1].data
<1>2. /\ Next1 \in 1 .. Len(openWrites)
      /\ d \in 0 .. openWrites[Next1].cmd.len
      /\ Flow[1].last = (d = openWrites[Next1].cmd.len)
      /\ d = IF Side!Unfinished THEN Len(popped) ELSE 0
      /\ openWrites[Next1].cmd.len \in Nat
  <2>1. /\ Next1 \in 1 .. Len(openWrites)
        /\ d \in 0 .. openWrites[Next1].cmd.len
        /\ Flow[1] = WordAt(openWrites[Next1], d)
    BY <1>1, FirstWord
  <2>2. Flow[1].last = (d = openWrites[Next1].cmd.len)
    BY <2>1 DEF WordAt
  <2>3. openWrites[Next1].cmd.len \in Nat
    <3>1. openWrites[Next1] \in WriteBursts
      BY <2>1, HandTyped
    <3> QED
      BY <3>1, WordsOfBurst
  <2> QED
    BY <1>1, <2>1, <2>2, <2>3 DEF WordsInv
<1>3. Held' => owner' = openWrites[Answered' + 1].cmd
  BY <1>1 DEF HandInv
<1> DEFINE l == openWrites[Next1].cmd.len
<1>4. ASSUME Held', Len(popped') = d + 1, Answered' + 1 = Next1
      PROVE  Drained' <=> Flow[1].last
  <2>1. owner'.len = l
    BY <1>3, <1>4
  <2>2. Drained' <=> Len(popped') = owner'.len + 1
    BY <1>4 DEF Drained
  <2>3. d \in Nat /\ l \in Nat
    BY <1>2
  <2> HIDE DEF d, l
  <2>4. d + 1 = l + 1 <=> d = l
    BY <2>3
  <2> QED
    BY <1>2, <1>4, <2>1, <2>2, <2>4 DEF l
<1>5. CASE Starts
  <2>1. state = "IDLE" /\ ~Side!Unfinished /\ Held'
    BY <1>5, HandMoves DEF Starts, Side!Unfinished
  <2>2. Answered' = Answered + One(Drained)
    BY <1>1, <2>1, IdleDrained
  <2>3. Len(popped') = d + 1
    BY <1>1, <1>2, <1>5, <2>1
  <2> QED
    BY <1>1, <1>4, <2>1, <2>2, <2>3 DEF Next1
<1>6. CASE ~Starts
  <2>1. state # "IDLE" /\ owner.write
    BY <1>6, HandMoves
  <2>2. Held' /\ Answered' = Answered
    BY <2>1, HandMoves, GoesOnInHand
  <2>3. Side!Unfinished
    BY <2>1, SideMoves, SideAssumptions, Side!PopsUnfinished DEF Side!WriteDataInv
  <2>4. Next1 = Answered + 1 /\ One(Drained) = 0 /\ Answered \in Nat
    BY <2>3, FirstWord, HandTyped DEF One
  <2>5. Len(popped') = d + 1
    <3>1. popped \in Seq({"all", "none", "some"} \cup {"none"})
      BY DEF Side!WriteDataInv, Side!WriteInv, Side!WordInv
    <3>2. WordOut.strobes \in {"all", "none", "some"} \cup {"none"}
      BY PclkMovesWrites
    <3>3. Len(Append(popped, WordOut.strobes)) = Len(popped) + 1
      BY <3>1, <3>2
    <3> QED
      BY <1>1, <1>2, <1>6, <2>3, <3>3
  <2> QED
    BY <1>1, <1>4, <2>2, <2>4, <2>5
<1> QED
  BY <1>5, <1>6

\* and without a pop the next word stays the next.
LEMMA NoWordPopped ==
  ASSUME TrafficInv, TrafficInv', LineInv, WordsInv, HandInv, HandInv', Side!WriteDataInv,
         Side!Tick, PclkEdge, PclkRecorded, ~Apb!PopWriteBuff
  PROVE  /\ Answered' + One(Drained') = Answered + One(Drained)
         /\ (IF Side!Unfinished' THEN Len(popped') ELSE 0)
              = (IF Side!Unfinished THEN Len(popped) ELSE 0)
<1>1. /\ Answered \in Nat /\ One(Drained) \in {0, 1}
      /\ Side!Unfinished <=> Held /\ ~Drained
  BY HandTyped
<1>2. Side!Unfinished' <=> Held' /\ ~Drained'
  <2>1. (TrafficInv /\ HandInv => (Side!Unfinished <=> Held /\ ~Drained))'
    BY UnfinishedIs, PTL
  <2> QED
    BY <2>1
<1>3. /\ popped' = IF Starts THEN <<>> ELSE popped
      /\ Answered' = Answered + Master!RespPending
  BY PclkMovesWrites
<1>4. CASE Starts /\ CmdOut.write
  <2>1. state = "IDLE" /\ ~Side!Unfinished /\ Held'
    BY <1>4, HandMoves DEF Starts, Side!Unfinished
  <2>2. Len(popped') = 0
    BY <1>3, <1>4
  <2>3. ~Drained'
    <3>1. Answered' + 1 \in 1 .. Len(openWrites) /\ CmdOut = openWrites[Answered' + 1].cmd
      BY <1>3, <1>4, NextWrite
    <3>2. CmdOut.len \in Nat /\ owner' = CmdOut
      BY <1>4, <3>1, HandTyped, WordsOfBurst, HandMoves
    <3>3. Len(popped') # owner'.len + 1
      BY <2>2, <3>2
    <3> QED
      BY <3>3 DEF Drained
  <2>4. Answered' = Answered + One(Drained) /\ One(Drained') = 0
    BY <1>3, <2>1, <2>3, IdleDrained DEF One
  <2> QED
    BY <1>1, <2>1, <2>2, <2>4
<1>5. CASE state = "IDLE" /\ ~(Starts /\ CmdOut.write)
  <2>1. ~Held' /\ ~Side!Unfinished /\ ~Side!Unfinished' /\ ~Drained'
    BY <1>2, <1>5, HandMoves DEF Side!Unfinished, Drained
  <2>2. Answered' = Answered + One(Drained) /\ One(Drained') = 0
    BY <1>3, <1>5, <2>1, IdleDrained DEF One
  <2> QED
    BY <1>1, <2>1, <2>2
<1>6. CASE state # "IDLE"
  <2>1. ~Starts /\ ~dlydResp
    BY <1>6 DEF Starts, HandInv
  <2>2. Answered' = Answered /\ popped' = popped
    BY <1>1, <1>3, <2>1 DEF Master!RespPending
  <2>3. Held' <=> Held
    BY <1>6, HandMoves
  <2>4. Drained' <=> Drained
    BY <2>1, <2>2, <2>3, HandMoves DEF Drained
  <2>5. One(Drained') = One(Drained)
    BY <2>4 DEF One
  <2> QED
    BY <1>1, <1>2, <2>2, <2>3, <2>4, <2>5
<1> QED
  BY <1>4, <1>5, <1>6 DEF Starts

\* So the words on their way stay those owed.
LEMMA PclkKeepsWords ==
  ASSUME TrafficInv, TrafficInv', LineInv, WordsInv, HandInv, HandInv', Side!WriteDataInv,
         Side!Tick, PclkEdge, PclkRecorded
  PROVE  WordsInv'
<1>1. openWrites' = openWrites /\ toSend' = toSend /\ toSend \in Seq(SentWords)
  BY PclkMovesWrites DEF WordsInv
<1>2. /\ Answered \in Nat /\ One(Drained) \in {0, 1} /\ Flow \in Seq(SentWords)
      /\ LastsIn(Flow) \in Nat
      /\ LastsIn(Flow) + Answered + One(Drained) = Len(openWrites)
  BY HandTyped, FirstWord, CountsTyped DEF WordsInv
<1>3. CASE Apb!PopWriteBuff
  <2>1. Flow # <<>> /\ Flow' = Tail(Flow) /\ wordQueue' \in Seq(SentWords)
    BY <1>3, PclkMovesWrites
  <2> DEFINE h == Flow[1]
  <2>2. /\ Held' /\ Len(popped') = h.data + 1
        /\ Drained' <=> h.last
        /\ Answered' = Answered + One(Drained)
    BY <1>3, PoppedWord
  <2>3. Head(Flow) = h
    BY <1>2, <2>1
  <2>4. /\ Owed(Tail(Flow), openWrites)
        /\ LastsIn(Flow) = LastsIn(Tail(Flow)) + One(h.last)
        /\ Tail(Flow) # <<>> => Tail(Flow)[1].data = Following(h)
    BY <1>2, <2>1, <2>3, OwedTaken DEF WordsInv
  <2>5. LastsIn(Flow)' + Answered' + One(Drained)' = Len(openWrites')
    <3> DEFINE t == LastsIn(Tail(Flow))  o == One(Drained)  n == One(h.last)
    <3>1. One(Drained)' = n /\ n \in {0, 1}
      BY <2>2 DEF One
    <3>2. LastsIn(Flow)' = t /\ t \in Nat
      <4>1. Tail(Flow) \in Seq(SentWords)
        BY <1>2, <2>1
      <4> QED
        BY <2>1, <4>1, CountsTyped
    <3>3. t + n + Answered + o = Len(openWrites)
      BY <1>2, <2>4
    <3>4. t + (Answered + o) + n = Len(openWrites)
      <4>1. t \in Int /\ o \in Int /\ n \in Int /\ Answered \in Int
        BY <1>2, <3>1, <3>2
      <4> HIDE DEF t, o, n
      <4> QED
        BY <3>3, <4>1
    <3> HIDE DEF t, o, n, h
    <3> QED
      BY <1>1, <2>2, <3>1, <3>2, <3>4 DEF o
  <2>6. Side!Unfinished' <=> ~h.last
    <3>1. (TrafficInv /\ HandInv => (Side!Unfinished <=> Held /\ ~Drained))'
      BY UnfinishedIs, PTL
    <3> QED
      BY <2>2, <3>1
  <2>7. Flow' # <<>> => Flow'[1].data = IF Side!Unfinished' THEN Len(popped') ELSE 0
    BY <2>1, <2>2, <2>4, <2>6 DEF Following
  <2>8. Owed(Flow, openWrites)'
    BY <1>1, <2>1, <2>4
  <2> QED
    BY <1>1, <2>1, <2>5, <2>7, <2>8 DEF WordsInv
<1>4. CASE ~Apb!PopWriteBuff
  <2>1. Flow' = Flow /\ wordQueue' = wordQueue
    BY <1>4, PclkMovesWrites
  <2>2. /\ Answered' + One(Drained') = Answered + One(Drained)
        /\ (IF Side!Unfinished' THEN Len(popped') ELSE 0)
              = (IF Side!Unfinished THEN Len(popped) ELSE 0)
    BY <1>4, NoWordPopped
  <2>3. LastsIn(Flow)' + Answered' + One(Drained)' = Len(openWrites')
    <3> DEFINE t == LastsIn(Flow)  o == One(Drained)  n == One(Drained')  a == Answered'
    <3>1. /\ LastsIn(Flow)' = t /\ One(Drained)' = n /\ t \in Int /\ o \in Int /\ Answered \in Int
          /\ n \in Int
      BY <1>2, <2>1 DEF One
    <3>2. a \in Int /\ t + Answered + o = Len(openWrites) /\ a + n = Answered + o
      BY <1>2, <2>2, PclkMovesWrites DEF Master!RespPending
    <3>3. t + a + n = Len(openWrites)
      <4> HIDE DEF t, o, n, a
      <4> QED
        BY <3>1, <3>2
    <3> QED
      BY <1>1, <3>1, <3>3
  <2>4. Flow' # <<>> => Flow'[1].data = IF Side!Unfinished' THEN Len(popped') ELSE 0
    BY <2>1, <2>2 DEF WordsInv
  <2>5. Owed(Flow, openWrites)'
    BY <1>1, <2>1 DEF WordsInv, Owed, BurstOf
  <2> QED
    BY <1>1, <2>1, <2>3, <2>4, <2>5 DEF WordsInv
<1> QED
  BY <1>3, <1>4

\* The answer of the write that is done.
LEMMA AnswerIsRight ==
  ASSUME TrafficInv, HandInv, Side!WriteDataInv, dlydResp
  PROVE  LET b == openWrites[Answered + 1] IN
           /\ Response = [id |-> b.cmd.id, error |-> Refused(b.cmd, b.strobes, b.cmd.len)]
           /\ apbWrites[Answered + 1] = WritesUpTo(b.cmd, b.strobes, b.cmd.len + 1)
<1> DEFINE b == openWrites[Answered + 1]
<1>1. state = "IDLE" /\ owner.write /\ Held /\ ~RespQueue!PushFull
  BY DEF HandInv, Held, Side!WriteDataInv, Side!MasterInv, Side!ResponseInv
<1>2. Side!PushResponse
  BY <1>1 DEF Side!PushResponse
<1>3. /\ Len(popped) = owner.len + 1
      /\ made = Side!WritesUpTo(owner, popped, owner.len + 1)
      /\ savedCmdId = owner.id
      /\ Side!RespStatus = Side!Refused(owner, popped, owner.len)
  BY <1>2, SideAssumptions, Side!AnswersAreTrue DEF Side!ResponseTellsTheTruth
<1>4. /\ b \in WriteBursts /\ owner = b.cmd /\ made = apbWrites[Answered + 1]
      /\ \A j \in 1 .. Len(popped) : popped[j] = b.strobes[j]
  BY <1>1, HandTyped DEF HandInv
<1>5. popped = b.strobes
  <2>1. b.strobes \in [1 .. b.cmd.len + 1 -> {"all", "none", "some"}]
    BY <1>4, BurstsAssumption
  <2>2. popped \in Seq({"all", "none", "some"} \cup {"none"})
    BY DEF Side!WriteDataInv, Side!WriteInv, Side!WordInv
  <2>3. popped = [j \in 1 .. Len(popped) |-> popped[j]]
    BY <2>2
  <2>4. b.strobes = [j \in 1 .. b.cmd.len + 1 |-> b.strobes[j]]
    BY <2>1
  <2>5. Len(popped) = b.cmd.len + 1
    BY <1>3, <1>4
  <2> HIDE DEF b
  <2> QED
    BY <1>4, <2>3, <2>4, <2>5
<1>6. apbWrites[Answered + 1] = WritesUpTo(b.cmd, b.strobes, b.cmd.len + 1)
  BY <1>3, <1>4, <1>5, SideRules
<1>7. Apb!RespStatus = Refused(b.cmd, b.strobes, b.cmd.len)
  <2>1. Side!Refused(owner, popped, owner.len) = Refused(owner, popped, owner.len)
    BY SideRules
  <2> QED
    BY <1>3, <1>4, <1>5, <2>1, SideMoves
<1> QED
  BY <1>3, <1>4, <1>6, <1>7 DEF Response

\* An edge of pclk adds at most the right answer to those on their way.
LEMMA PclkKeepsAnswers ==
  ASSUME TrafficInv, WordsInv, HandInv, AnswersInv, Side!WriteDataInv, Side!Tick,
         PclkEdge, PclkRecorded
  PROVE  AnswersInv'
<1>1. /\ openWrites' = openWrites
      /\ dlydResp => state = "IDLE" /\ respQueue' = Append(respQueue, Response)
      /\ ~dlydResp => respQueue' = respQueue
      /\ Answered' = Answered + Master!RespPending
  BY PclkMovesWrites
<1>2. Answered \in Nat /\ Len(apbWrites) = Answered + One(Held) /\ One(Held) \in {0, 1}
  BY HandTyped DEF HandInv
<1>3. \A k \in 1 .. Answered : k \in 1 .. Len(apbWrites)
  BY <1>2
<1>4. \A k \in 1 .. Answered : apbWrites'[k] = apbWrites[k]
  BY <1>3, SlavesRecord
<1>5. CASE ~dlydResp
  <2>1. Answered' = Answered
    BY <1>1, <1>2, <1>5 DEF Master!RespPending
  <2> QED
    BY <1>1, <1>4, <1>5, <2>1 DEF AnswersInv
<1>6. CASE dlydResp
  <2>1. Answered' = Answered + 1
    BY <1>1, <1>6 DEF Master!RespPending
  <2>2. apbWrites'[Answered + 1] = apbWrites[Answered + 1]
    <3>1. state # "WEN" /\ Held
      BY <1>1, <1>6 DEF HandInv, Held
    <3>2. Answered + 1 \in 1 .. Len(apbWrites)
      BY <1>2, <3>1 DEF One
    <3> QED
      BY <3>1, <3>2, SlavesRecord
  <2>3. /\ respQueue'[Answered + 1] = Response
        /\ \A k \in 1 .. Answered : respQueue'[k] = respQueue[k]
    <3>1. PICK S : respQueue \in Seq(S)
      BY DEF TrafficInv, BridgeInv, QueuesSafe, Bracketed
    <3>2. respQueue \in Seq(S \cup {Response})
      BY <3>1, SeqMonotone
    <3>3. /\ Append(respQueue, Response)[Len(respQueue) + 1] = Response
          /\ \A k \in 1 .. Len(respQueue) : Append(respQueue, Response)[k] = respQueue[k]
      BY <3>2
    <3> QED
      BY <1>1, <1>6, <3>3 DEF Answered
  <2>4. ASSUME NEW k \in 1 .. Answered'
        PROVE  LET b == openWrites[k] IN
                 /\ respQueue'[k] = [id |-> b.cmd.id,
                                     error |-> Refused(b.cmd, b.strobes, b.cmd.len)]
                 /\ apbWrites'[k] = WritesUpTo(b.cmd, b.strobes, b.cmd.len + 1)
    <3>1. CASE k = Answered + 1
      BY <1>6, <2>2, <2>3, <3>1, AnswerIsRight
    <3>2. CASE k # Answered + 1
      <4>1. k \in 1 .. Answered
        BY <1>2, <2>1, <3>2
      <4> QED
        BY <1>4, <2>3, <4>1 DEF AnswersInv
    <3> QED
      BY <3>1, <3>2
  <2> QED
    BY <1>1, <2>4 DEF AnswersInv
<1> QED
  BY <1>5, <1>6

\* The way of a write through the bridge.
WriteTraceInv ==
  TrafficInv /\ LineInv /\ Side!WriteDataInv /\ WordsInv /\ HandInv /\ AnswersInv

\* The invariant of the writes holds at first,
LEMMA WriteTraceInit == HistoryInit => WriteTraceInv
BY TrafficInit, LineInit, WritesInit DEF HistoryInit, WriteTraceInv

\* The registers of the APB side hold words the master may have sent.
LEMMA WordRegKept ==
  ASSUME Side!WriteDataInv, Side!Tick \/ Side!Meanwhile
  PROVE  WordRegTyped'
<1> USE DEF Side!WriteDataInv
<1>1. CASE Side!Tick
  BY <1>1, SideAssumptions, Side!TickKeepsPopped DEF WordRegTyped
<1>2. CASE Side!Meanwhile
  <2>1. wordReg' = wordReg
    BY <1>2 DEF Side!Meanwhile, Side!registers
  <2>2. wordReg \in Side!IssuedWords
    BY DEF Side!WriteInv, Side!WordInv
  <2>3. Side!IssuedWords' = Side!IssuedWords
    BY DEF Side!IssuedWords
  <2> QED
    BY <2>1, <2>2, <2>3 DEF WordRegTyped
<1> QED
  BY <1>1, <1>2

\* every step keeps it,
LEMMA WriteTraceStep ==
  ASSUME NEW slaves, NoReserved, WriteTraceInv,
         [HistoryMoves(slaves)]_historyVars
  PROVE  WriteTraceInv'
<1> USE DEF WriteTraceInv
<1>1. TrafficInv'
  BY TrafficStep, HistoryStepsBridge
<1>2. LineInv'
  BY <1>1, LineStep
<1>3. Side!CmdTyped' /\ Side!NoReserved
  BY <1>1, OutIsCommand, PTL DEF NoReserved, Side!NoReserved, RESERVED, Side!RESERVED
<1>4. /\ WordsInv' /\ HandInv' /\ AnswersInv'
      /\ Side!Tick \/ Side!Meanwhile
  <2>1. CASE PclkEdge /\ PclkRecorded
    <3>1. Side!Tick
      BY <2>1, PclkTicks
    <3>2. HandInv'
      BY <2>1, <3>1, PclkKeepsHand
    <3>3. WordsInv'
      BY <1>1, <2>1, <3>1, <3>2, PclkKeepsWords
    <3>4. AnswersInv'
      BY <2>1, <3>1, PclkKeepsAnswers
    <3> QED
      BY <3>1, <3>2, <3>3, <3>4
  <2>2. CASE \E w, b, r \in BOOLEAN : AclkWith(w, b, r) /\ AclkRecorded(r)
    BY <2>2, AclkKeepsWrites, OthersWait
  <2>3. CASE ((SendWrite \/ SendRead) /\ UNCHANGED record) \/ UNCHANGED historyVars
    BY <2>3, SendsKeepWrites, OthersWait
  <2> QED
    BY <2>1, <2>2, <2>3 DEF HistoryMoves
<1>5. SideFits'
  <2>1. WordRegTyped'
    BY <1>4, WordRegKept
  <2> QED
    BY <1>1, <1>2, <1>4, <2>1, WordsFitSide, PTL
<1>6. Side!WriteDataInv'
  BY <1>3, <1>4, <1>5, SideAssumptions, Side!WriteDataKept DEF SideFits
<1> QED
  BY <1>1, <1>2, <1>4, <1>6

\* so it always holds.
LEMMA WritesTraced ==
  ASSUME NoReserved
  PROVE  HistorySpec => []WriteTraceInv
<1>1. WriteTraceInv /\ [HistoryNext]_historyVars => WriteTraceInv'
  BY WriteTraceStep, HistoryEchoes
<1> QED
  BY <1>1, WriteTraceInit, PTL DEF HistorySpec

\* Every response stands for the write whose turn it is, with its ID and its status, and
\* the slaves have seen exactly the writes that burst asks for.
THEOREM ResponsesAreOfTheirWrites ==
  ASSUME NoReserved
  PROVE  PowerSpec => []ResponsesAnswerWrites
<1>1. ASSUME WriteTraceInv PROVE ResponsesAnswerWrites
  <2> USE <1>1 DEF WriteTraceInv
  <2>1. Answered \in Nat /\ Len(openWrites) \in Nat /\ Answered <= Len(openWrites)
    BY HandTyped
  <2>2. awvalid => Answered < Len(openWrites)
    <3>1. LineFits
      BY TrafficLinesUp
    <3> DEFINE x == Rest(cmdQueue, "write", {TRUE}, 1)  a == Len(respQueue)
               p == Master!RespPending  m == Len(openWrites)
    <3>2. x + One(awvalid) + a + p = m /\ x \in Nat /\ a \in Nat /\ p \in {0, 1}
      BY <3>1 DEF LineFits
    <3>4. ASSUME awvalid PROVE a < m
      <4>1. One(awvalid) = 1
        BY <3>4 DEF One
      <4>2. x + 1 + a + p = m
        BY <3>2, <4>1
      <4> HIDE DEF x, a, p, m
      <4> QED
        BY <3>2, <4>2
    <3> QED
      BY <3>4 DEF Answered
  <2>3. ASSUME NEW k \in 1 .. Len(respQueue), awvalid PROVE k < Len(openWrites)
    BY <2>1, <2>2, <2>3 DEF Answered
  <2> QED
    BY <2>1, <2>3 DEF ResponsesAnswerWrites, AnswersInv, Answered
<1> QED
  BY <1>1, WritesTraced, PowerImplementsHistory, PTL

\* When no last word is on its way, no word is.
LEMMA NoWordOnItsWay ==
  ASSUME WordsInv, LastsIn(Flow) = 0
  PROVE  wordQueue = <<>> /\ toSend = <<>>
<1>1. Flow \in Seq(SentWords)
  BY Joined DEF WordsInv, Flow
<1>2. ASSUME Flow # <<>> PROVE FALSE
  <2>1. Flow[Len(Flow)].last = TRUE
    <3>1. Flow[Len(Flow)].last
      BY <1>2 DEF WordsInv, Owed
    <3>2. Flow[Len(Flow)] \in SentWords
      BY <1>1, <1>2
    <3> QED
      BY <3>1, <3>2 DEF SentWords
  <2>2. \A q \in Seq(SentWords) : (q # <<>> /\ q[Len(q)].last = TRUE) => LastsIn(q) > 0
    BY LastCounted
  <2>3. LastsIn(Flow) > 0
    BY <1>1, <1>2, <2>1, <2>2
  <2> QED
    BY <2>3
<1> QED
  BY <1>2, ConcatEmptySeq DEF Flow, WordsInv

\* A master without an open write owes no word and has none in the write buffer.
THEOREM NoWordIsLeftOver ==
  ASSUME NoReserved
  PROVE  PowerSpec => []NothingLeftOver
<1>1. ASSUME WriteTraceInv PROVE NothingLeftOver
  <2> USE <1>1 DEF WriteTraceInv
  <2> SUFFICES ASSUME openWrites = <<>> PROVE wordQueue = <<>> /\ toSend = <<>>
    BY DEF NothingLeftOver
  <2>1. /\ Answered \in Nat /\ One(Drained) \in {0, 1} /\ Flow \in Seq(SentWords)
        /\ LastsIn(Flow) \in Nat /\ Len(openWrites) = 0
        /\ LastsIn(Flow) + Answered + One(Drained) = Len(openWrites)
    BY HandTyped, FirstWord, CountsTyped DEF WordsInv
  <2>2. LastsIn(Flow) = 0
    <3> DEFINE l == LastsIn(Flow)  o == One(Drained)
    <3> HIDE DEF l, o
    <3>1. l \in Nat /\ o \in {0, 1} /\ l + Answered + o = 0
      BY <2>1 DEF l, o
    <3> QED
      BY <2>1, <3>1 DEF l
  <2> QED
    BY <2>2, NoWordOnItsWay
<1> QED
  BY <1>1, WritesTraced, PowerImplementsHistory, PTL
=============================================================================
