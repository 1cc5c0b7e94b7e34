-------------------------- MODULE TestbenchProofs --------------------------
(***************************************************************************)
(* The environment around the bridge, for every set of bursts and every      *)
(* memory of the slaves: the monitor's one handle describes the burst in     *)
(* flight whenever the scoreboard looks into it, answers and accesses come   *)
(* only where the driver and the slave driver wait for them, a test leaves   *)
(* nothing unchecked, and the scoreboard reports no error.  TbInv follows    *)
(* one burst from the sequence through both agents and both monitors to the  *)
(* checkers: at most one is under way, and every access of it is counted     *)
(* three times, as a slave item used up, as a transaction of a queue and as  *)
(* a beat checked.  AlarmInv says which beat each of these accesses is.      *)
(***************************************************************************)
EXTENDS Testbench, X2pTraceProofs

----------------------------------------------------------------------------
(* Sequences.                                                               *)

IsSeq(q) == \E S : q \in Seq(S)

\* The operations on the lists of the monitors and of the scoreboard.
LEMMA ListsGrow ==
  ASSUME NEW q, IsSeq(q), NEW x
  PROVE  /\ Len(q) \in Nat /\ (Len(q) = 0 <=> q = <<>>)
         /\ IsSeq(Append(q, x)) /\ Len(Append(q, x)) = Len(q) + 1
         /\ q \o <<>> = q /\ q \o <<x>> = Append(q, x)
         /\ q # <<>> => IsSeq(Tail(q)) /\ Len(Tail(q)) = Len(q) - 1
<1>1. PICK S : q \in Seq(S)
  BY DEF IsSeq
<1>2. q \in Seq(S \cup {x})
  BY <1>1, SeqMonotone
<1>3. /\ Len(q) \in Nat /\ (Len(q) = 0 <=> q = <<>>)
      /\ q # <<>> => Tail(q) \in Seq(S) /\ Len(Tail(q)) = Len(q) - 1
  BY <1>1
<1>4. Append(q, x) \in Seq(S \cup {x}) /\ Len(Append(q, x)) = Len(q) + 1
  BY <1>2
<1>5. q \o <<>> = q
  BY <1>1, ConcatEmptySeq
<1>6. q \o <<x>> = Append(q, x)
  BY <1>2
<1> QED
  BY <1>3, <1>4, <1>5, <1>6 DEF IsSeq

LEMMA ShortLists == IsSeq(<<>>) /\ Len(<<>>) = 0 /\ \A x : IsSeq(<<x>>) /\ Len(<<x>>) = 1
<1>1. <<>> \in Seq({})
  OBVIOUS
<1>2. ASSUME NEW x PROVE <<x>> \in Seq({x})
  OBVIOUS
<1> QED
  BY <1>1, <1>2 DEF IsSeq

\* The monitor's array, written up to the count, has one word more.
LEMMA ResizedIsLonger ==
  ASSUME NEW d, IsSeq(d), NEW c \in Nat, c = 0 \/ Len(d) = c, NEW x
  PROVE  IsSeq(Axi!Resized(d, c, x)) /\ Len(Axi!Resized(d, c, x)) = c + 1
<1>1. PICK S : d \in Seq(S)
  BY DEF IsSeq
<1> DEFINE T == S \cup {x}
<1>2. d \in Seq(T)
  BY <1>1, SeqMonotone
<1>3. SubSeq(d, 1, c) \in Seq(T) /\ Len(SubSeq(d, 1, c)) = c
  <2>1. CASE c = 0
    BY <2>1, <1>2, SubSeqProperties
  <2>2. CASE c # 0
    BY <2>2, <1>2, SubSeqProperties
  <2> QED
    BY <2>1, <2>2
<1>4. x \in T
  OBVIOUS
<1> DEFINE s == SubSeq(d, 1, c)
<1>5. Append(s, x) \in Seq(T) /\ Len(Append(s, x)) = c + 1
  <2> HIDE DEF T, s
  <2> QED
    BY <1>3, <1>4 DEF s
<1> QED
  BY <1>5 DEF IsSeq, Axi!Resized

----------------------------------------------------------------------------
(* The bridge with the environment around it is the bridge of the trace       *)
(* proofs, with slaves that answer from their memory.                         *)

TbTrace == ReadTraceInv("any") /\ WriteTraceInv

LEMMA TbStepsHistory == [TbNext]_tbVars => [HistoryMoves("any")]_historyVars
<1> SUFFICES ASSUME [TbNext]_tbVars PROVE [HistoryMoves("any")]_historyVars
  OBVIOUS
<1>1. CASE TbAclk
  <2>1. PICK w, b, r : AclkWith(w, b, r) /\ AclkRecorded(r) /\ w \in BOOLEAN /\ b \in BOOLEAN /\ r \in BOOLEAN
    <3> DEFINE w == phase = "addr" /\ toSend # <<>> /\ wready
               b == bvalid /\ bready
               r == rvalid /\ rready
    <3>1. AclkWith(w, b, r) /\ AclkRecorded(r)
      BY <1>1 DEF TbAclk
    <3>2. w \in BOOLEAN /\ b \in BOOLEAN /\ r \in BOOLEAN
      OBVIOUS
    <3> QED
      BY <3>1, <3>2
  <2> QED
    BY <2>1 DEF HistoryMoves
<1>2. CASE TbPclk
  BY <1>2 DEF TbPclk, PclkWith, HistoryMoves
<1>3. CASE NextItem
  BY <1>3 DEF NextItem
<1>4. CASE DriveItem
  BY <1>4 DEF DriveItem, HistoryMoves
<1>5. CASE Check \/ Sample
  BY <1>5 DEF Check, Sample
<1>6. CASE UNCHANGED tbVars
  BY <1>6 DEF tbVars
<1> QED
  BY <1>1, <1>2, <1>3, <1>4, <1>5, <1>6 DEF TbNext

LEMMA TbTraceInit == TbInit => TbTrace
BY ReadTraceInit, WriteTraceInit DEF TbInit, TbTrace

LEMMA TbTraceStep == ASSUME NoReserved, TbTrace, [TbNext]_tbVars PROVE TbTrace'
BY TbStepsHistory, ReadTraceStep, WriteTraceStep DEF TbTrace

----------------------------------------------------------------------------
(* What the bridge looks like with no burst open, or with one.                *)

\* Everything that stands for a burst, counted.
LEMMA OpenCounted ==
  ASSUME TbTrace
  PROVE  /\ Len(openWrites) = One(awvalid) + WritesIn(cmdQueue) + Master!RespPending
                                + Len(respQueue)
         /\ Len(openReads) = One(arvalid) + ReadsIn(cmdQueue) + Master!ReadPending
                                + LastsIn(readQueue)
         /\ WritesIn(cmdQueue) \in Nat /\ ReadsIn(cmdQueue) \in Nat
         /\ Len(respQueue) \in Nat /\ LastsIn(readQueue) \in Nat
         /\ One(awvalid) \in {0, 1} /\ One(arvalid) \in {0, 1}
         /\ Master!RespPending \in {0, 1} /\ Master!ReadPending \in {0, 1}
<1> USE DEF TbTrace, ReadTraceInv, TrafficInv
<1>1. /\ cmdQueue \in Seq(Commands)
      /\ \E S : respQueue \in Seq(S)
      /\ \E T : readQueue \in Seq(T)
  BY ArbFacts DEF BridgeInv, QueuesSafe, Bracketed
<1>2. PICK T : readQueue \in Seq(T)
  BY <1>1
<1>3. PICK S : respQueue \in Seq(S)
  BY <1>1
<1>4. /\ WritesIn(cmdQueue) \in Nat /\ ReadsIn(cmdQueue) \in Nat
      /\ Len(respQueue) \in Nat /\ LastsIn(readQueue) \in Nat
  BY <1>1, <1>2, <1>3, CountsTyped
<1> QED
  BY <1>4 DEF Accounted, One, Master!RespPending, Master!ReadPending

\* Without an open burst the bridge is at rest.
LEMMA BridgeRests ==
  ASSUME TbTrace, openWrites = <<>>, openReads = <<>>
  PROVE  /\ ~awvalid /\ ~arvalid /\ cmdQueue = <<>> /\ state = "IDLE"
         /\ respQueue = <<>> /\ readQueue = <<>>
<1>1. /\ WritesIn(cmdQueue) = 0 /\ ReadsIn(cmdQueue) = 0 /\ LastsIn(readQueue) = 0
      /\ Len(respQueue) = 0 /\ Master!RespPending = 0 /\ Master!ReadPending = 0
      /\ One(awvalid) = 0 /\ One(arvalid) = 0
  <2> DEFINE w == One(awvalid)  inW == WritesIn(cmdQueue)  pw == Master!RespPending
             r == One(arvalid)  inR == ReadsIn(cmdQueue)   pr == Master!ReadPending
             outW == Len(respQueue)                        outR == LastsIn(readQueue)
             m == Len(openWrites)                          n == Len(openReads)
  <2>1. /\ inW \in Nat /\ inR \in Nat /\ outW \in Nat /\ outR \in Nat
        /\ pw \in {0, 1} /\ pr \in {0, 1} /\ w \in {0, 1} /\ r \in {0, 1}
        /\ m = w + inW + pw + outW /\ n = r + inR + pr + outR
    BY OpenCounted, Zenon
  <2>2. m = 0 /\ n = 0
    OBVIOUS
  <2>3. inW = 0 /\ inR = 0 /\ outR = 0 /\ outW = 0 /\ pw = 0 /\ pr = 0 /\ w = 0 /\ r = 0
    <3> HIDE DEF w, inW, pw, r, inR, pr, outW, outR, m, n
    <3> QED
      BY <2>1, <2>2
  <2> QED
    BY <2>3
<1> USE DEF TbTrace, ReadTraceInv
<1>2. cmdQueue = <<>> /\ state = "IDLE"
  BY <1>1, QueueEmpties
<1>3. readQueue = <<>>
  BY <1>1, <1>2, BufferEmpties
<1>4. respQueue = <<>>
  <2>1. PICK S : respQueue \in Seq(S)
    BY DEF TrafficInv, BridgeInv, QueuesSafe, Bracketed
  <2> QED
    BY <1>1, <2>1
<1>5. ~awvalid /\ ~arvalid
  BY <1>1 DEF One
<1> QED
  BY <1>2, <1>3, <1>4, <1>5

\* At most one burst is open, and it is the write, or the read, item.
OneOpen ==
  \/ openWrites = <<>> /\ openReads = <<>>
  \/ openWrites = <<item>> /\ openReads = <<>> /\ item.cmd.write = TRUE
  \/ openWrites = <<>> /\ openReads = <<item.cmd>> /\ item.cmd.write = FALSE

\* Then the burst is in one place: its command is offered, or in the queue, or its answer
\* is due.
LEMMA OnePlace ==
  ASSUME TbTrace, OneOpen
  PROVE  /\ One(awvalid) + One(arvalid) + (WritesIn(cmdQueue) + ReadsIn(cmdQueue))
              + (Master!RespPending + Master!ReadPending)
              + (Len(respQueue) + LastsIn(readQueue)) <= 1
         /\ openWrites = <<>> =>
              One(awvalid) + WritesIn(cmdQueue) + Master!RespPending + Len(respQueue) = 0
         /\ openReads = <<>> =>
              One(arvalid) + ReadsIn(cmdQueue) + Master!ReadPending + LastsIn(readQueue) = 0
<1> DEFINE w == One(awvalid)  inW == WritesIn(cmdQueue)  pw == Master!RespPending
           r == One(arvalid)  inR == ReadsIn(cmdQueue)   pr == Master!ReadPending
           outW == Len(respQueue)                        outR == LastsIn(readQueue)
           m == Len(openWrites)                          n == Len(openReads)
<1>1. /\ inW \in Nat /\ inR \in Nat /\ outW \in Nat /\ outR \in Nat
      /\ pw \in Nat /\ pr \in Nat /\ w \in Nat /\ r \in Nat
      /\ m = w + inW + pw + outW /\ n = r + inR + pr + outR
  BY OpenCounted
<1>2. m \in Nat /\ n \in Nat /\ m + n <= 1 /\ (openWrites = <<>> => m = 0) /\ (openReads = <<>> => n = 0)
  <2>1. CASE openWrites = <<>> /\ openReads = <<>>
    BY <2>1
  <2>2. CASE openWrites = <<item>> /\ openReads = <<>>
    BY <2>2
  <2>3. CASE openWrites = <<>> /\ openReads = <<item.cmd>>
    BY <2>3
  <2> QED
    BY <2>1, <2>2, <2>3 DEF OneOpen
<1>3. w + r + (inW + inR) + (pw + pr) + (outW + outR) <= 1
  <2> HIDE DEF w, inW, pw, r, inR, pr, outW, outR, m, n
  <2> QED
    BY <1>1, <1>2
<1>4. /\ openWrites = <<>> => w + inW + pw + outW = 0
      /\ openReads = <<>> => r + inR + pr + outR = 0
  <2> HIDE DEF w, inW, pw, r, inR, pr, outW, outR, m, n
  <2> QED
    BY <1>1, <1>2
<1> QED
  BY <1>3, <1>4

\* While the command is offered nothing of the burst is further on.
LEMMA OfferedIsAll ==
  ASSUME TbTrace, OneOpen, awvalid \/ arvalid
  PROVE  cmdQueue = <<>> /\ state = "IDLE" /\ respQueue = <<>> /\ readQueue = <<>>
<1>1. /\ WritesIn(cmdQueue) = 0 /\ ReadsIn(cmdQueue) = 0 /\ LastsIn(readQueue) = 0
      /\ Len(respQueue) = 0 /\ Master!ReadPending = 0
  <2> DEFINE w == One(awvalid)  inW == WritesIn(cmdQueue)  pw == Master!RespPending
             r == One(arvalid)  inR == ReadsIn(cmdQueue)   pr == Master!ReadPending
             outW == Len(respQueue)                        outR == LastsIn(readQueue)
  <2>1. w + r + (inW + inR) + (pw + pr) + (outW + outR) <= 1
    BY OnePlace
  <2>2. /\ inW \in Nat /\ inR \in Nat /\ outW \in Nat /\ outR \in Nat
        /\ pw \in {0, 1} /\ pr \in {0, 1} /\ w \in {0, 1} /\ r \in {0, 1}
    BY OpenCounted, Zenon
  <2>3. w = 1 \/ r = 1
    BY DEF One
  <2>4. inW = 0 /\ inR = 0 /\ outW = 0 /\ outR = 0 /\ pr = 0
    <3> HIDE DEF w, inW, pw, r, inR, pr, outW, outR
    <3> QED
      BY <2>1, <2>2, <2>3
  <2> QED
    BY <2>4
<1> USE DEF TbTrace, ReadTraceInv
<1>2. cmdQueue = <<>> /\ state = "IDLE"
  BY <1>1, QueueEmpties
<1>3. readQueue = <<>>
  BY <1>1, <1>2, BufferEmpties
<1>4. respQueue = <<>>
  <2>1. PICK S : respQueue \in Seq(S)
    BY DEF TrafficInv, BridgeInv, QueuesSafe, Bracketed
  <2> QED
    BY <1>1, <2>1
<1> QED
  BY <1>2, <1>3, <1>4

\* When all open writes are answered no word is still to be sent.
LEMMA AllSent ==
  ASSUME TbTrace, Len(respQueue) = Len(openWrites)
  PROVE  toSend = <<>>
<1> USE DEF TbTrace, WriteTraceInv
<1>1. /\ Answered \in Nat /\ One(Drained) \in {0, 1} /\ Flow \in Seq(SentWords)
      /\ LastsIn(Flow) + Answered + One(Drained) = Len(openWrites)
  BY HandTyped, FirstWord DEF WordsInv
<1>2. LastsIn(Flow) \in Nat
  BY <1>1, CountsTyped
<1>3. LastsIn(Flow) = 0
  <2> DEFINE l == LastsIn(Flow)  o == One(Drained)
  <2>1. l \in Nat /\ o \in {0, 1} /\ l + Answered + o = Answered /\ Answered \in Nat
    BY <1>1, <1>2 DEF Answered
  <2> HIDE DEF l, o
  <2>2. l = 0
    BY <2>1
  <2> QED
    BY <2>2 DEF l
<1> QED
  BY <1>3, NoWordOnItsWay

\* A response on its way out is that of the item, whose words are all sent.
LEMMA ResponseOfItem ==
  ASSUME TbTrace, OneOpen, respQueue # <<>>
  PROVE  /\ openWrites = <<item>> /\ openReads = <<>> /\ item.cmd.write = TRUE
         /\ ~awvalid /\ ~arvalid /\ toSend = <<>>
<1>1. ~awvalid /\ ~arvalid
  BY OfferedIsAll
<1>2. PICK S : respQueue \in Seq(S)
  BY DEF TbTrace, ReadTraceInv, TrafficInv, BridgeInv, QueuesSafe, Bracketed
<1>3. Len(respQueue) \in Nat \ {0}
  BY <1>2
<1>4. openWrites # <<>>
  <2> DEFINE w == One(awvalid)  inW == WritesIn(cmdQueue)  pw == Master!RespPending
             outW == Len(respQueue)
  <2>1. openWrites = <<>> => w + inW + pw + outW = 0
    BY OnePlace, Zenon
  <2>2. inW \in Nat /\ outW \in Nat \ {0} /\ pw \in {0, 1} /\ w \in {0, 1}
    BY <1>3, OpenCounted, Zenon
  <2>3. w + inW + pw + outW # 0
    <3> HIDE DEF w, inW, pw, outW
    <3> QED
      BY <2>2
  <2> QED
    BY <2>1, <2>3
<1>5. openWrites = <<item>> /\ openReads = <<>> /\ item.cmd.write = TRUE
  BY <1>4 DEF OneOpen
<1>6. Len(respQueue) = Len(openWrites)
  <2> DEFINE w == One(awvalid)  inW == WritesIn(cmdQueue)  pw == Master!RespPending
             outW == Len(respQueue)  m == Len(openWrites)
  <2>1. m = w + inW + pw + outW /\ inW \in Nat /\ pw \in {0, 1} /\ w \in {0, 1}
    BY OpenCounted, Zenon
  <2>2. m = 1 /\ outW \in Nat \ {0}
    BY <1>3, <1>5
  <2>3. outW = m
    <3> HIDE DEF w, inW, pw, outW, m
    <3> QED
      BY <2>1, <2>2
  <2> QED
    BY <2>3
<1> QED
  BY <1>1, <1>5, <1>6, AllSent

\* Without an open write there is no word to send.
LEMMA NoWriteNoWord ==
  ASSUME TbTrace, openWrites = <<>>
  PROVE  toSend = <<>>
<1>1. PICK S : respQueue \in Seq(S)
  BY DEF TbTrace, ReadTraceInv, TrafficInv, BridgeInv, QueuesSafe, Bracketed
<1> DEFINE w == One(awvalid)  inW == WritesIn(cmdQueue)  pw == Master!RespPending
           outW == Len(respQueue)  m == Len(openWrites)
<1>2. m = w + inW + pw + outW /\ inW \in Nat /\ pw \in {0, 1} /\ w \in {0, 1} /\ outW \in Nat
  BY OpenCounted, Zenon
<1>3. m = 0
  OBVIOUS
<1>4. outW = m
  <2> HIDE DEF w, inW, pw, outW, m
  <2> QED
    BY <1>2, <1>3
<1> QED
  BY <1>4, AllSent

\* A beat on its way out is the next one of the item.
LEMMA BeatOfItem ==
  ASSUME TbTrace, OneOpen, readQueue # <<>>
  PROVE  /\ openReads = <<item.cmd>> /\ openWrites = <<>> /\ item.cmd.write = FALSE
         /\ ~awvalid /\ ~arvalid /\ toSend = <<>>
         /\ Head(readQueue).last = (beatsGot = item.cmd.len)
<1>1. ~awvalid /\ ~arvalid
  BY OfferedIsAll
<1> USE DEF TbTrace, ReadTraceInv
<1>2. PICK S : readQueue \in Seq(S)
  BY DEF TrafficInv, BridgeInv, QueuesSafe, Bracketed
<1>3. 1 \in 1 .. Len(readQueue) /\ Head(readQueue) = readQueue[1]
  BY <1>2
<1>4. ReadOf(readQueue, 1) = 1
  <2>1. LastsIn(readQueue) \in Nat
    BY <1>2, CountsTyped
  <2> QED
    BY <2>1 DEF ReadOf, LastsIn, Count
<1>5. 1 \in 1 .. Len(openReads) /\ RightBeat("any", readQueue[1], openReads[1], beatsGot)
  BY <1>3, <1>4 DEF BeatsInv, InOrder
<1>6. openReads = <<item.cmd>> /\ openWrites = <<>> /\ item.cmd.write = FALSE
  <2>1. openReads # <<>>
    BY <1>5
  <2> QED
    BY <2>1 DEF OneOpen
<1>7. Head(readQueue).last = (beatsGot = item.cmd.len)
  BY <1>3, <1>5, <1>6 DEF RightBeat
<1> QED
  BY <1>1, <1>6, <1>7, NoWriteNoWord

\* The burst the APB side works for is the item.
LEMMA ItemInHand ==
  ASSUME TbTrace, OneOpen, state # "IDLE"
  PROVE  /\ owner = item.cmd /\ ~awvalid /\ ~arvalid
         /\ openWrites = <<item>> \/ openReads = <<item.cmd>>
<1>1. ~awvalid /\ ~arvalid
  BY OfferedIsAll
<1> USE DEF TbTrace, ReadTraceInv, WriteTraceInv
<1>2. owner.write \in BOOLEAN
  <2>1. owner \in Commands \cup {Side!ResetCmd}
    BY DEF SideReadInv, Side!AddressedInv, Side!OrderedInv, Side!ReadInv, Side!Owned
  <2> QED
    BY <2>1, SideMoves, KindOfCommand
<1>3. CASE owner.write
  <2>1. Answered \in Nat /\ Held
    BY <1>3, HandTyped DEF Held
  <2>2. Answered + 1 <= Len(openWrites) /\ owner = openWrites[Answered + 1].cmd
    BY <2>1 DEF HandInv
  <2>3. openWrites # <<>>
    BY <2>1, <2>2
  <2>4. openWrites = <<item>>
    BY <2>3 DEF OneOpen
  <2>5. Len(openWrites) = 1 /\ openWrites[1] = item
    BY <2>4
  <2>6. Answered + 1 = 1
    BY <2>1, <2>2, <2>5
  <2> QED
    BY <1>1, <2>2, <2>4, <2>5, <2>6
<1>4. CASE ~owner.write
  <2>1. LastsIn(readQueue) + 1 <= Len(openReads) /\ owner = openReads[LastsIn(readQueue) + 1]
    BY <1>4 DEF BeatsInv, ReadInHand
  <2>2. LastsIn(readQueue) \in Nat
    BY OpenCounted
  <2>3. openReads # <<>>
    BY <2>1, <2>2
  <2>4. openReads = <<item.cmd>>
    BY <2>3 DEF OneOpen
  <2>5. Len(openReads) = 1 /\ openReads[1] = item.cmd
    BY <2>4
  <2>6. LastsIn(readQueue) + 1 = 1
    BY <2>1, <2>2, <2>5
  <2> QED
    BY <1>1, <2>1, <2>4, <2>5, <2>6
<1> QED
  BY <1>2, <1>3, <1>4

\* What the address channels offer is the command of the item.
LEMMA OfferOfItem ==
  ASSUME TbTrace, OneOpen
  PROVE  /\ awvalid \in BOOLEAN /\ arvalid \in BOOLEAN
         /\ awvalid => openWrites = <<item>> /\ aw = item.cmd
         /\ arvalid => openReads = <<item.cmd>> /\ ar = item.cmd
<1> USE DEF TbTrace, ReadTraceInv, LineInv, Line
<1>1. awvalid \in BOOLEAN /\ arvalid \in BOOLEAN
  OBVIOUS
<1>2. ASSUME awvalid PROVE openWrites = <<item>> /\ aw = item.cmd
  <2>1. CommandsOf(openWrites) # <<>> /\ CommandsOf(openWrites)[Len(CommandsOf(openWrites))] = aw
    BY <1>2
  <2>2. openWrites = <<>> => CommandsOf(openWrites) = <<>>
    BY DEF CommandsOf
  <2>3. openWrites = <<item>>
    BY <2>1, <2>2 DEF OneOpen
  <2>4. openWrites \in Seq({item}) /\ Len(openWrites) = 1 /\ openWrites[1] = item
    BY <2>3
  <2>5. Len(CommandsOf(openWrites)) = 1 /\ CommandsOf(openWrites)[1] = item.cmd
    BY <2>4 DEF CommandsOf
  <2> QED
    BY <2>1, <2>3, <2>5
<1>3. ASSUME arvalid PROVE openReads = <<item.cmd>> /\ ar = item.cmd
  <2>1. openReads # <<>> /\ openReads[Len(openReads)] = ar
    BY <1>3
  <2>2. openReads = <<item.cmd>>
    BY <2>1 DEF OneOpen
  <2>3. Len(openReads) = 1 /\ openReads[1] = item.cmd
    BY <2>2
  <2> QED
    BY <2>1, <2>2, <2>3
<1> QED
  BY <1>1, <1>2, <1>3

\* When the APB side has done with the item no command is left.
LEMMA QueueIsDone ==
  ASSUME TbTrace, OneOpen, PclkEdge, TbTrace', state # "IDLE", state' = "IDLE"
  PROVE  cmdQueue' = <<>>
<1> USE DEF TbTrace, ReadTraceInv, TrafficInv
<1>1. Master!PopCmdQueue
  BY PclkMoves, AddrSpaceAssumption, Master!Path
<1>2. cmdQueue # <<>> /\ cmdQueue' = Tail(cmdQueue) /\ cmdQueue \in Seq(Commands)
  BY <1>1, PclkMoves, ArbFacts
<1>3. Head(cmdQueue).write \in BOOLEAN
  BY <1>2, KindOfCommand
<1>4. /\ WritesIn(cmdQueue') = WritesIn(cmdQueue) - One(Head(cmdQueue).write)
      /\ ReadsIn(cmdQueue') = ReadsIn(cmdQueue) - One(~Head(cmdQueue).write)
  BY <1>2, <1>3, CommandTaken
<1>5. WritesIn(cmdQueue') \in Nat /\ ReadsIn(cmdQueue') \in Nat
  <2>1. Tail(cmdQueue) \in Seq(Commands)
    BY <1>2
  <2> QED
    BY <1>2, <2>1, CountsTyped
<1>6. One(Head(cmdQueue).write) + One(~Head(cmdQueue).write) = 1
      /\ One(Head(cmdQueue).write) \in {0, 1} /\ One(~Head(cmdQueue).write) \in {0, 1}
  BY <1>3 DEF One
<1>7. WritesIn(cmdQueue') = 0 /\ ReadsIn(cmdQueue') = 0
  <2> DEFINE w == One(awvalid)  inW == WritesIn(cmdQueue)  pw == Master!RespPending
             r == One(arvalid)  inR == ReadsIn(cmdQueue)   pr == Master!ReadPending
             outW == Len(respQueue)                        outR == LastsIn(readQueue)
             x == One(Head(cmdQueue).write)  y == One(~Head(cmdQueue).write)
             u == WritesIn(cmdQueue')        v == ReadsIn(cmdQueue')
  <2>1. w + r + (inW + inR) + (pw + pr) + (outW + outR) <= 1
    BY OnePlace, Zenon
  <2>2. /\ inW \in Nat /\ inR \in Nat /\ outW \in Nat /\ outR \in Nat
        /\ pw \in {0, 1} /\ pr \in {0, 1} /\ w \in {0, 1} /\ r \in {0, 1}
    BY OpenCounted, Zenon
  <2>3. u = inW - x /\ v = inR - y /\ u \in Nat /\ v \in Nat /\ x + y = 1 /\ x \in {0, 1} /\ y \in {0, 1}
    BY <1>4, <1>5, <1>6, Zenon
  <2>4. u = 0 /\ v = 0
    <3> HIDE DEF w, inW, pw, r, inR, pr, outW, outR, x, y, u, v
    <3> QED
      BY <2>1, <2>2, <2>3
  <2> QED
    BY <2>4
<1>8. WritesIn(cmdQueue)' = 0 /\ ReadsIn(cmdQueue)' = 0 /\ TrafficInv'
  BY <1>7 DEF WritesIn, ReadsIn, Count, Rest, Places
<1>9. (TrafficInv /\ WritesIn(cmdQueue) = 0 /\ ReadsIn(cmdQueue) = 0
         => cmdQueue = <<>> /\ state = "IDLE")'
  BY QueueEmpties, PTL
<1> QED
  BY <1>8, <1>9

----------------------------------------------------------------------------
(* One burst after the other.                                                 *)

\* The beats of the item, and how many of them the monitor has seen on the APB.
Wanted == item.cmd.len + 1
Accessed == Wanted - slaveItems - Len(setup)

\* The monitor has handed out the handle of the item.
HandedOut ==
  phase \notin {"sync", "drive"} /\ IF item.cmd.write THEN toSend = <<>> ELSE openReads = <<>>

Sending == phase \in {"addr", "answer"}

\* Before the first burst, and between two: nobody waits for anything.
Clean ==
  /\ phase = "idle"
  /\ openWrites = <<>> /\ openReads = <<>> /\ toSend = <<>>
  /\ slaveItems = 0 /\ setup = <<>> /\ wrCnt = 0
  /\ Scb!NothingWaits /\ writeIdx = 0 /\ readIdx = 0 /\ toCover = <<>>

\* The driver has the one burst open while it sends it and waits for its answer.
Driven ==
  /\ item \in Items
  /\ phase \in {"idle", "sync", "drive", "addr", "answer"}
  /\ openWrites = IF Sending /\ item.cmd.write THEN <<item>> ELSE <<>>
  /\ openReads = IF Sending /\ ~item.cmd.write THEN <<item.cmd>> ELSE <<>>
  /\ phase = "addr" => awvalid \/ arvalid \/ toSend # <<>>
  /\ phase = "answer" => ~awvalid /\ ~arvalid /\ toSend = <<>>
  /\ Len(toSend) <= Wanted
  /\ \A i \in 1 .. Len(toSend) : toSend[i].last <=> i = Len(toSend)

\* The APB side has not come to the item yet.
Unstarted ==
  state = "IDLE" /\ (phase \in {"sync", "drive"} \/ awvalid \/ arvalid \/ cmdQueue # <<>>)

\* The slave items used up are no more than the accesses begun for the words popped, or
\* for the beats counted.
Serves(used) ==
  LET p == Len(popped) IN
  /\ state = "WTSTART" => used = 0
  /\ state = "WSEL" => used <= p - 1
  /\ state \in {"WEN", "NWEN"} => used <= p /\ (Side!Stale \/ used <= p - 1)
  /\ state \in {"NWSEL", "WDTWT"} => used <= p
  /\ state \in {"NREN", "RSEL"} => used <= beat
  /\ state \in {"REN", "RBUFWT"} => used <= beat + 1
Served == (Unstarted => Wanted - slaveItems = 0) /\ Serves(Wanted - slaveItems)

\* The monitor has an access in hand in its access cycle.
SlaveInv ==
  /\ slaveItems \in 0 .. Wanted
  /\ IsSeq(setup) /\ Len(setup) = One(state \in {"WEN", "REN"})
  /\ setup # <<>> => setup[1].write = item.cmd.write
  /\ Served

\* The handles: how far their arrays are written, and whose command they hold.
HandlesInv ==
  /\ wrCnt = IF toSend = <<>> THEN 0 ELSE Wanted - Len(toSend)
  /\ item.cmd.write =>
       /\ (phase \in {"idle", "addr", "answer"} /\ ~awvalid) => wrT.cmd = item.cmd
       /\ wrCnt > 0 => Len(wrT.data) = wrCnt
       /\ HandedOut => Len(wrT.data) = Wanted
  /\ ~item.cmd.write =>
       /\ (phase \in {"idle", "addr", "answer"} /\ ~arvalid) => rdT.cmd = item.cmd
       /\ beatsGot > 0 => Len(rdT.data) = beatsGot
       /\ HandedOut => Len(rdT.data) = Wanted

\* A checker with the handle of the item in its queue has checked a beat for each access
\* that is not in its other queue; without one it has not begun, or has checked all.
Checks(handles, q, idx, mine) ==
  IF ~mine THEN handles = 0 /\ q = <<>> /\ idx = 0
  ELSE IF ~HandedOut THEN handles = 0 /\ idx = 0 /\ Len(q) = Accessed
  ELSE \/ handles = 1 /\ idx \in 0 .. Wanted - 1 /\ idx + Len(q) = Accessed
       \/ handles = 0 /\ idx = 0 /\ q = <<>> /\ Accessed = Wanted

ScbInv ==
  /\ Checks(axiWrites, apbWriteQ, writeIdx, item.cmd.write)
  /\ Checks(axiReads, apbReadQ, readIdx, ~item.cmd.write)

\* The coverage collector still has every APB transaction of a burst it has not sampled.
CoverInv ==
  /\ toCover # <<>> => HandedOut /\ Len(toCover) = 1
  /\ (toCover # <<>> \/ ~HandedOut) => apbToCover >= Accessed

Busy == Driven /\ SlaveInv /\ HandlesInv /\ ScbInv /\ CoverInv

\* The reads are counted alike by the master and by the monitor.
Counters ==
  /\ IsSeq(wrT.data) /\ IsSeq(rdT.data)
  /\ IsSeq(apbWriteQ) /\ IsSeq(apbReadQ) /\ IsSeq(toCover)
  /\ rdCnt = beatsGot
  /\ openReads = <<>> => beatsGot = 0
  /\ apbToCover \in Nat /\ beatsGot \in Nat

TbInv == Counters /\ (Clean \/ Busy)

\* The commands the sequences may ask for.
LEMMA ItemTyped ==
  ASSUME NEW t \in Items
  PROVE  /\ t.cmd \in Commands /\ t.cmd.len \in Nat /\ t.cmd.write \in BOOLEAN
         /\ t.cmd.write => t \in WriteBursts
         /\ ~t.cmd.write => t.cmd \in ReadCommands
<1>1. CASE t \in WriteBursts
  <2>1. t.cmd \in Commands /\ t.cmd.write = TRUE
    <3>1. t.cmd \in WriteCommands
      BY <1>1 DEF WriteCommands
    <3> QED
      BY <3>1, KindOfCommand DEF Commands
  <2> QED
    BY <1>1, <2>1, WordsOfBurst
<1>2. CASE t \in {[cmd |-> c, strobes |-> <<>>] : c \in ReadCommands}
  <2>1. t.cmd \in ReadCommands
    BY <1>2
  <2>2. t.cmd \in Commands /\ t.cmd.write = FALSE
    BY <2>1, KindOfCommand DEF Commands
  <2> QED
    BY <2>1, <2>2, SideAssumptions, Side!CommandFields
<1> QED
  BY <1>1, <1>2 DEF Items

LEMMA DrivenIsOpen == Driven => OneOpen
<1> SUFFICES ASSUME Driven PROVE OneOpen
  OBVIOUS
<1>1. item.cmd.write \in BOOLEAN
  BY ItemTyped DEF Driven
<1> QED
  BY <1>1 DEF Driven, OneOpen

----------------------------------------------------------------------------
(* An edge of aclk.                                                           *)

TakesWord == phase = "addr" /\ toSend # <<>> /\ wready
SeesResponse == bvalid /\ bready
SeesBeat == rvalid /\ rready
LastWord == TakesWord /\ Head(toSend).last
LastBeatSeen == SeesBeat /\ Head(readQueue).last

\* What the edge does to the bridge and to the agents.
LEMMA AclkIs ==
  ASSUME TbTrace, TbAclk
  PROVE  /\ UNCHANGED <<registers, aw, ar, owner, popped, item, slaveItems, setup>>
         /\ awvalid' = (awvalid /\ ~Arb!awready) /\ arvalid' = (arvalid /\ ~Arb!arready)
         /\ cmdQueue' # <<>> => cmdQueue # <<>> \/ awvalid \/ arvalid
         /\ SeesResponse => respQueue # <<>>
         /\ SeesBeat => readQueue # <<>>
         /\ toSend' = IF TakesWord THEN Tail(toSend) ELSE toSend
         /\ openWrites' = IF SeesResponse THEN Tail(openWrites) ELSE openWrites
         /\ openReads' = IF LastBeatSeen THEN Tail(openReads) ELSE openReads
         /\ beatsGot' = IF LastBeatSeen THEN 0 ELSE beatsGot + (IF SeesBeat THEN 1 ELSE 0)
<1> DEFINE w == phase = "addr" /\ toSend # <<>> /\ wready
           b == bvalid /\ bready
           r == rvalid /\ rready
<1>1. AclkWith(w, b, r) /\ AclkRecorded(r) /\ w \in BOOLEAN /\ b \in BOOLEAN /\ r \in BOOLEAN
  BY DEF TbAclk
<1>2. w = TakesWord /\ b = SeesResponse /\ r = SeesBeat
  BY DEF TakesWord, SeesResponse, SeesBeat
<1>3. UNCHANGED <<slaveItems, setup>> /\ item' = item
  BY DEF TbAclk, slaveVars, Axi!DriverEdge
<1> HIDE DEF w, b, r
<1>4. /\ UNCHANGED <<registers, aw, ar>>
      /\ cmdQueue' = IF Arb!awready THEN Append(cmdQueue, aw)
                     ELSE IF Arb!arready THEN Append(cmdQueue, ar) ELSE cmdQueue
      /\ awvalid' = (awvalid /\ ~Arb!awready) /\ arvalid' = (arvalid /\ ~Arb!arready)
      /\ b => respQueue # <<>>
      /\ r => readQueue # <<>>
      /\ openWrites' = IF b THEN Tail(openWrites) ELSE openWrites
      /\ openReads' = IF r /\ Head(readQueue).last THEN Tail(openReads) ELSE openReads
  BY <1>1, AclkMoves DEF TbTrace, ReadTraceInv
<1>5. UNCHANGED <<owner, popped>>
  BY <1>1 DEF AclkRecorded
<1>6. toSend' = IF w THEN Tail(toSend) ELSE toSend
  BY <1>1 DEF AclkWith
<1>7. beatsGot' = IF r /\ Head(readQueue).last THEN 0 ELSE beatsGot + (IF r THEN 1 ELSE 0)
  BY <1>1 DEF AclkWith
<1>8. (Arb!awready => awvalid) /\ (Arb!arready => arvalid)
  BY ArbFacts DEF TbTrace, ReadTraceInv, TrafficInv
<1> QED
  BY <1>2, <1>3, <1>4, <1>5, <1>6, <1>7, <1>8 DEF LastBeatSeen

\* What it does to the driver and to the monitor.
LEMMA AclkAgents ==
  ASSUME TbTrace, TbAclk
  PROVE  /\ phase # "drive"
         /\ phase' = CASE phase = "sync" -> "drive"
                       [] phase = "addr" /\ ~awvalid' /\ ~arvalid' /\ toSend' = <<>> -> "answer"
                       [] phase = "answer" /\ IF item.cmd.write THEN SeesResponse ELSE LastBeatSeen
                            -> "idle"
                       [] OTHER -> phase
         /\ wrT'.cmd = (IF awvalid /\ Arb!awready THEN aw ELSE wrT.cmd)
         /\ wrT'.data = IF TakesWord THEN Axi!Resized(wrT.data, wrCnt, Head(toSend).data)
                        ELSE wrT.data
         /\ wrCnt' = IF LastWord THEN 0 ELSE IF TakesWord THEN wrCnt + 1 ELSE wrCnt
         /\ rdT'.cmd = (IF arvalid /\ Arb!arready THEN ar ELSE rdT.cmd)
         /\ rdT'.data = IF SeesBeat THEN Axi!Resized(rdT.data, rdCnt, Head(readQueue).data)
                        ELSE rdT.data
         /\ rdCnt' = IF LastBeatSeen THEN 0 ELSE IF SeesBeat THEN rdCnt + 1 ELSE rdCnt
<1> DEFINE awTaken == Carried(awvalid /\ Arb!awready, aw)
           arTaken == Carried(arvalid /\ Arb!arready, ar)
           word == IF TakesWord THEN <<Head(toSend)>> ELSE <<>>
           resp == IF SeesResponse THEN <<[error |-> Head(respQueue).error, data |-> Apb!NoData]>>
                   ELSE <<>>
           read == IF SeesBeat THEN <<Head(readQueue)>> ELSE <<>>
<1>1. /\ phase # "drive"
      /\ Axi!DriverEdge(awTaken, arTaken, resp, read, Axi!DoneSending(awvalid', arvalid', toSend'))
      /\ Axi!MonitorEdge(awTaken, word, arTaken, read)
  BY DEF TbAclk, TakesWord, SeesResponse, SeesBeat
<1>2. /\ word # <<>> <=> TakesWord
      /\ read # <<>> <=> SeesBeat
      /\ resp # <<>> <=> SeesResponse
      /\ TakesWord => word[1] = Head(toSend)
      /\ SeesBeat => read[1] = Head(readQueue)
      /\ awTaken # <<>> <=> awvalid /\ Arb!awready
      /\ arTaken # <<>> <=> arvalid /\ Arb!arready
      /\ awvalid /\ Arb!awready => awTaken[1] = aw
      /\ arvalid /\ Arb!arready => arTaken[1] = ar
  BY DEF Carried
<1> HIDE DEF awTaken, arTaken, word, resp, read
<1>3. phase' = CASE phase = "sync" -> "drive"
                 [] phase = "addr" /\ ~awvalid' /\ ~arvalid' /\ toSend' = <<>> -> "answer"
                 [] phase = "answer" /\ IF item.cmd.write THEN SeesResponse ELSE LastBeatSeen
                      -> "idle"
                 [] OTHER -> phase
  BY <1>1, <1>2 DEF Axi!DriverEdge, Axi!DoneSending, LastBeatSeen
<1>4. /\ wrT'.cmd = (IF awvalid /\ Arb!awready THEN aw ELSE wrT.cmd)
      /\ wrT'.data = IF TakesWord THEN Axi!Resized(wrT.data, wrCnt, Head(toSend).data)
                     ELSE wrT.data
      /\ wrCnt' = IF LastWord THEN 0 ELSE IF TakesWord THEN wrCnt + 1 ELSE wrCnt
  BY <1>1, <1>2 DEF Axi!MonitorEdge, Axi!Observed, Axi!NextCount, LastWord
<1>5. /\ rdT'.cmd = (IF arvalid /\ Arb!arready THEN ar ELSE rdT.cmd)
      /\ rdT'.data = IF SeesBeat THEN Axi!Resized(rdT.data, rdCnt, Head(readQueue).data)
                     ELSE rdT.data
      /\ rdCnt' = IF LastBeatSeen THEN 0 ELSE IF SeesBeat THEN rdCnt + 1 ELSE rdCnt
  BY <1>1, <1>2 DEF Axi!MonitorEdge, Axi!Observed, Axi!NextCount, LastBeatSeen
<1> QED
  BY <1>1, <1>3, <1>4, <1>5

\* What it does to the scoreboard and to the coverage collector.
LEMMA AclkObservers ==
  ASSUME Counters, TbAclk
  PROVE  /\ UNCHANGED <<apbWriteQ, apbReadQ, writeIdx, readIdx>>
         /\ axiWrites' = axiWrites + (IF LastWord THEN 1 ELSE 0)
         /\ axiReads' = axiReads + (IF LastBeatSeen THEN 1 ELSE 0)
         /\ (LastWord \/ LastBeatSeen) => \E x : toCover' = Append(toCover, x)
         /\ (~LastWord /\ ~LastBeatSeen) => toCover' = toCover
         /\ apbToCover' = apbToCover
<1> DEFINE word == IF TakesWord THEN <<Head(toSend)>> ELSE <<>>
           read == IF SeesBeat THEN <<Head(readQueue)>> ELSE <<>>
<1>1. /\ Scb!Received(Axi!Published(word), Axi!Published(read), <<>>)
      /\ Cover!Received(Axi!Published(word), Axi!Published(read), item, <<>>)
  BY DEF TbAclk, TakesWord, SeesBeat
<1>2. Axi!Published(word) = LastWord /\ Axi!Published(read) = LastBeatSeen
  BY DEF Axi!Published, LastWord, LastBeatSeen
<1> HIDE DEF word, read
<1>3. /\ axiWrites' = axiWrites + (IF LastWord THEN 1 ELSE 0)
      /\ axiReads' = axiReads + (IF LastBeatSeen THEN 1 ELSE 0)
      /\ apbWriteQ' = apbWriteQ \o <<>> /\ apbReadQ' = apbReadQ \o <<>>
      /\ UNCHANGED <<writeIdx, readIdx>>
  BY <1>1, <1>2 DEF Scb!Received
<1>4. /\ toCover' = IF LastWord \/ LastBeatSeen
                    THEN Append(toCover, [write |-> LastWord, burst |-> item.cmd]) ELSE toCover
      /\ apbToCover' = apbToCover + Len(<<>>)
  BY <1>1, <1>2 DEF Cover!Received
<1>5. apbWriteQ' = apbWriteQ /\ apbReadQ' = apbReadQ
  BY <1>3, ListsGrow DEF Counters
<1>6. apbToCover' = apbToCover
  BY <1>4, ShortLists DEF Counters
<1> QED
  BY <1>3, <1>4, <1>5, <1>6

\* Nothing happens between two bursts.
LEMMA AclkKeepsClean ==
  ASSUME TbTrace, Counters, Clean, TbAclk
  PROVE  Clean'
<1>1. respQueue = <<>> /\ readQueue = <<>> /\ ~awvalid /\ ~arvalid
  BY BridgeRests DEF Clean
<1>2. ~SeesResponse /\ ~SeesBeat /\ ~TakesWord
  BY <1>1, AclkIs DEF Clean, TakesWord
<1>3. ~LastWord /\ ~LastBeatSeen
  BY <1>2 DEF LastWord, LastBeatSeen
<1>4. phase' = "idle" /\ wrCnt' = 0
  BY <1>2, <1>3, AclkAgents DEF Clean
<1>5. openWrites' = <<>> /\ openReads' = <<>> /\ toSend' = <<>> /\ slaveItems' = 0 /\ setup' = <<>>
  BY <1>2, <1>3, AclkIs DEF Clean
<1>6. /\ axiWrites' = 0 /\ axiReads' = 0 /\ apbWriteQ' = <<>> /\ apbReadQ' = <<>>
      /\ writeIdx' = 0 /\ readIdx' = 0 /\ toCover' = <<>>
  BY <1>2, <1>3, AclkObservers DEF Clean, Scb!NothingWaits
<1> QED
  BY <1>4, <1>5, <1>6 DEF Clean, Scb!NothingWaits

\* An answer is seen only by a driver that waits for it.
LEMMA AnswersOfItem ==
  ASSUME TbTrace, Driven
  PROVE  /\ respQueue # <<>> => phase = "answer" /\ item.cmd.write = TRUE /\ openWrites = <<item>>
         /\ readQueue # <<>> => /\ phase = "answer" /\ item.cmd.write = FALSE
                                /\ openReads = <<item.cmd>>
                                /\ Head(readQueue).last = (beatsGot = item.cmd.len)
<1>1. ASSUME respQueue # <<>>
      PROVE  phase = "answer" /\ item.cmd.write = TRUE /\ openWrites = <<item>>
  <2>1. openWrites = <<item>> /\ item.cmd.write = TRUE /\ ~awvalid /\ ~arvalid /\ toSend = <<>>
    BY <1>1, DrivenIsOpen, ResponseOfItem
  <2>2. Sending
    BY <2>1 DEF Driven
  <2> QED
    BY <2>1, <2>2 DEF Driven, Sending
<1>2. ASSUME readQueue # <<>>
      PROVE  /\ phase = "answer" /\ item.cmd.write = FALSE /\ openReads = <<item.cmd>>
             /\ Head(readQueue).last = (beatsGot = item.cmd.len)
  <2>1. /\ openReads = <<item.cmd>> /\ item.cmd.write = FALSE /\ ~awvalid /\ ~arvalid /\ toSend = <<>>
        /\ Head(readQueue).last = (beatsGot = item.cmd.len)
    BY <1>2, DrivenIsOpen, BeatOfItem
  <2>2. Sending
    BY <2>1 DEF Driven
  <2> QED
    BY <2>1, <2>2 DEF Driven, Sending
<1> QED
  BY <1>1, <1>2

\* The words still to be sent, and the one taken.
LEMMA WordsTaken ==
  ASSUME TbTrace, Driven, toSend # <<>>
  PROVE  /\ Len(toSend) \in 1 .. Wanted /\ Len(Tail(toSend)) = Len(toSend) - 1
         /\ Head(toSend).last = (Len(toSend) = 1)
         /\ (Tail(toSend) = <<>>) = (Len(toSend) = 1)
         /\ \A i \in 1 .. Len(Tail(toSend)) : Tail(toSend)[i].last <=> i = Len(Tail(toSend))
         /\ phase = "addr" /\ item.cmd.write = TRUE
<1>1. toSend \in Seq(SentWords)
  BY DEF TbTrace, WriteTraceInv, WordsInv
<1>2. Len(toSend) \in Nat \ {0} /\ Len(toSend) <= Wanted
  BY <1>1 DEF Driven
<1>3. Tail(toSend) \in Seq(SentWords) /\ Len(Tail(toSend)) = Len(toSend) - 1
  BY <1>1
<1>4. toSend[1].last = (1 = Len(toSend)) /\ Head(toSend) = toSend[1]
  <2>1. toSend[1] \in SentWords
    BY <1>1, <1>2
  <2>2. toSend[1].last \in BOOLEAN
    BY <2>1 DEF SentWords
  <2>3. toSend[1].last <=> 1 = Len(toSend)
    <3>1. 1 \in 1 .. Len(toSend)
      BY <1>2
    <3>2. \A i \in 1 .. Len(toSend) : toSend[i].last <=> i = Len(toSend)
      BY DEF Driven
    <3> QED
      BY <3>1, <3>2
  <2> QED
    BY <1>1, <2>2, <2>3
<1>5. ASSUME NEW i \in 1 .. Len(Tail(toSend))
      PROVE  Tail(toSend)[i].last <=> i = Len(Tail(toSend))
  <2>1. Tail(toSend)[i] = toSend[i + 1] /\ i + 1 \in 1 .. Len(toSend)
    BY <1>1, <1>2, <1>3
  <2>2. toSend[i + 1].last <=> i + 1 = Len(toSend)
    BY <2>1 DEF Driven
  <2>3. i + 1 = Len(toSend) <=> i = Len(Tail(toSend))
    BY <1>2, <1>3
  <2> QED
    BY <2>1, <2>2, <2>3
<1>6. phase = "addr" /\ item.cmd.write = TRUE
  <2>1. openWrites # <<>>
    BY NoWriteNoWord
  <2>2. Sending /\ item.cmd.write
    BY <2>1 DEF Driven
  <2>3. item.cmd.write \in BOOLEAN
    BY ItemTyped DEF Driven
  <2> QED
    BY <2>2, <2>3 DEF Driven, Sending
<1>7. (Tail(toSend) = <<>>) = (Len(toSend) = 1)
  BY <1>2, <1>3
<1>8. Len(toSend) \in 1 .. Wanted
  <2>1. Wanted \in Nat
    BY ItemTyped DEF Driven, Wanted
  <2> QED
    BY <1>2, <2>1
<1>9. Head(toSend).last = (Len(toSend) = 1)
  BY <1>4
<1> QED
  BY <1>3, <1>5, <1>6, <1>7, <1>8, <1>9, Zenon

LEMMA AclkKeepsDriven ==
  ASSUME TbTrace, Driven, TbAclk
  PROVE  Driven'
<1>1. item' = item /\ item \in Items /\ item.cmd.write \in BOOLEAN
  BY AclkIs, ItemTyped DEF Driven
<1>2. SeesResponse => phase = "answer" /\ item.cmd.write = TRUE /\ openWrites = <<item>>
  BY AclkIs, AnswersOfItem
<1>3. LastBeatSeen => phase = "answer" /\ item.cmd.write = FALSE /\ openReads = <<item.cmd>>
  BY AclkIs, AnswersOfItem DEF LastBeatSeen
<1>4. TakesWord => phase = "addr" /\ toSend # <<>>
  BY DEF TakesWord
<1>5. /\ phase \in {"idle", "sync", "addr", "answer"}
      /\ phase = "sync" => phase' = "drive"
      /\ phase = "idle" => phase' = "idle"
      /\ phase = "addr" => phase' = IF ~awvalid' /\ ~arvalid' /\ toSend' = <<>>
                                    THEN "answer" ELSE "addr"
      /\ phase = "answer" => phase' = IF (IF item.cmd.write THEN SeesResponse ELSE LastBeatSeen)
                                      THEN "idle" ELSE "answer"
  BY AclkAgents DEF Driven
<1>6. Sending' <=> Sending /\ ~SeesResponse /\ ~LastBeatSeen
  BY <1>1, <1>2, <1>3, <1>5 DEF Sending
<1>7. Tail(<<item>>) = <<>> /\ Tail(<<item.cmd>>) = <<>>
  OBVIOUS
<1>8. openWrites' = IF Sending' /\ item.cmd.write THEN <<item>> ELSE <<>>
  <2>1. CASE SeesResponse
    BY <1>2, <1>6, <1>7, <2>1, AclkIs
  <2>2. CASE ~SeesResponse
    <3>1. openWrites' = openWrites
      BY <2>2, AclkIs
    <3>2. item.cmd.write => (Sending' <=> Sending)
      BY <1>3, <1>6, <2>2
    <3> QED
      BY <3>1, <3>2 DEF Driven
  <2> QED
    BY <2>1, <2>2
<1>9. openReads' = IF Sending' /\ ~item.cmd.write THEN <<item.cmd>> ELSE <<>>
  <2>1. CASE LastBeatSeen
    BY <1>3, <1>6, <1>7, <2>1, AclkIs
  <2>2. CASE ~LastBeatSeen
    <3>1. openReads' = openReads
      BY <2>2, AclkIs
    <3>2. ~item.cmd.write => (Sending' <=> Sending)
      BY <1>2, <1>6, <2>2
    <3> QED
      BY <3>1, <3>2 DEF Driven
  <2> QED
    BY <2>1, <2>2
<1>10. (awvalid' => awvalid) /\ (arvalid' => arvalid)
  BY AclkIs
<1>11. /\ phase' = "addr" => awvalid' \/ arvalid' \/ toSend' # <<>>
       /\ phase' = "answer" => ~awvalid' /\ ~arvalid' /\ toSend' = <<>>
  <2>1. phase = "answer" => toSend' = toSend
    BY <1>4, AclkIs
  <2> QED
    BY <1>5, <1>10, <2>1 DEF Driven
<1>12. Len(toSend') <= Wanted /\ \A i \in 1 .. Len(toSend') : toSend'[i].last <=> i = Len(toSend')
  <2>1. CASE TakesWord
    <3>1. toSend' = Tail(toSend) /\ toSend # <<>>
      BY <1>4, <2>1, AclkIs, Zenon
    <3>2. Len(toSend) \in 1 .. Wanted /\ Len(Tail(toSend)) = Len(toSend) - 1
      BY <3>1, WordsTaken, Zenon
    <3>3. Len(Tail(toSend)) <= Wanted
      <4> DEFINE n == Len(toSend)  m == Len(Tail(toSend))
      <4>1. n \in 1 .. Wanted /\ m = n - 1 /\ Wanted \in Nat
        BY <3>2, ItemTyped DEF Driven, Wanted
      <4> HIDE DEF n, m, Wanted
      <4>2. m <= Wanted
        BY <4>1
      <4> QED
        BY <4>2 DEF m
    <3> QED
      BY <3>1, <3>3, WordsTaken, Zenon
  <2>2. CASE ~TakesWord
    BY <2>2, AclkIs DEF Driven
  <2> QED
    BY <2>1, <2>2, Zenon
<1>13. Wanted' = Wanted
  BY <1>1 DEF Wanted
<1>14. phase' \in {"idle", "sync", "drive", "addr", "answer"}
  BY <1>1, <1>5
<1> QED
  BY <1>1, <1>8, <1>9, <1>11, <1>12, <1>13, <1>14 DEF Driven

\* The handle is handed out in the edge of the last word, or beat, and stays so.
LEMMA HandsOut ==
  ASSUME TbTrace, Driven, TbAclk
  PROVE  /\ LastWord => item.cmd.write = TRUE /\ ~HandedOut /\ HandedOut'
         /\ LastBeatSeen => item.cmd.write = FALSE /\ ~HandedOut /\ HandedOut'
         /\ (~LastWord /\ ~LastBeatSeen) => (HandedOut' <=> HandedOut)
<1>1. item' = item /\ item.cmd.write \in BOOLEAN
  BY AclkIs, ItemTyped DEF Driven
<1>2. /\ phase' \in {"sync", "drive"} <=> phase \in {"sync", "drive"}
      /\ phase # "drive"
  BY AclkAgents, Zenon DEF Driven
<1>3. ASSUME TakesWord
      PROVE  /\ item.cmd.write = TRUE /\ phase = "addr" /\ toSend # <<>>
             /\ toSend' = <<>> <=> LastWord
  BY <1>3, AclkIs, WordsTaken, Zenon DEF TakesWord, LastWord
<1>4. ASSUME LastBeatSeen
      PROVE  /\ item.cmd.write = FALSE /\ phase = "answer" /\ openReads # <<>>
             /\ openReads' = <<>>
  <2>1. /\ item.cmd.write = FALSE /\ phase = "answer" /\ openReads = <<item.cmd>>
        /\ openReads' = Tail(openReads)
    BY <1>4, AclkIs, AnswersOfItem DEF LastBeatSeen
  <2> QED
    BY <2>1
<1>5. ~TakesWord => toSend' = toSend
  BY AclkIs
<1>6. ~LastBeatSeen => openReads' = openReads
  BY AclkIs
<1>7. LastWord => TakesWord
  BY DEF LastWord
<1>8. /\ HandedOut <=> /\ phase \notin {"sync", "drive"}
                      /\ IF item.cmd.write THEN toSend = <<>> ELSE openReads = <<>>
      /\ HandedOut' <=> /\ phase' \notin {"sync", "drive"}
                       /\ IF item.cmd.write THEN toSend' = <<>> ELSE openReads' = <<>>
  BY <1>1 DEF HandedOut
<1>9. CASE item.cmd.write
  <2>1. ~LastBeatSeen
    BY <1>4, <1>9
  <2>2. LastWord => ~HandedOut /\ HandedOut'
    BY <1>2, <1>3, <1>7, <1>8, <1>9
  <2>3. ~LastWord => (HandedOut' <=> HandedOut)
    BY <1>2, <1>3, <1>5, <1>8, <1>9
  <2> QED
    BY <1>1, <1>9, <2>1, <2>2, <2>3
<1>10. CASE ~item.cmd.write
  <2>1. ~LastWord
    BY <1>3, <1>7, <1>10
  <2>2. LastBeatSeen => ~HandedOut /\ HandedOut'
    BY <1>2, <1>4, <1>8, <1>10
  <2>3. ~LastBeatSeen => (HandedOut' <=> HandedOut)
    BY <1>2, <1>6, <1>8, <1>10
  <2> QED
    BY <1>1, <1>10, <2>1, <2>2, <2>3
<1> QED
  BY <1>9, <1>10

\* The arrays of the handles are written up to the counts.
LEMMA ArraysGrow ==
  ASSUME TbTrace, Counters, Busy, TbAclk
  PROVE  /\ TakesWord => IsSeq(wrT'.data) /\ Len(wrT'.data) = wrCnt + 1
         /\ SeesBeat => IsSeq(rdT'.data) /\ Len(rdT'.data) = beatsGot + 1
<1> USE DEF Busy
<1>1. ASSUME TakesWord PROVE IsSeq(wrT'.data) /\ Len(wrT'.data) = wrCnt + 1
  <2>1. toSend # <<>>
    BY <1>1, Zenon DEF TakesWord
  <2>2. Len(toSend) \in 1 .. Wanted /\ item.cmd.write
    BY <2>1, WordsTaken, Zenon
  <2>3. Wanted \in Nat
    BY ItemTyped DEF Driven, Wanted
  <2>4. wrCnt = Wanted - Len(toSend)
    BY <2>1 DEF HandlesInv
  <2>5. wrCnt \in Nat
    <3> HIDE DEF Wanted
    <3> QED
      BY <2>2, <2>3, <2>4
  <2>6. wrCnt = 0 \/ Len(wrT.data) = wrCnt
    BY <2>2, <2>5 DEF HandlesInv
  <2>7. /\ IsSeq(Axi!Resized(wrT.data, wrCnt, Head(toSend).data))
        /\ Len(Axi!Resized(wrT.data, wrCnt, Head(toSend).data)) = wrCnt + 1
    BY <2>5, <2>6, ResizedIsLonger DEF Counters
  <2> QED
    BY <1>1, <2>7, AclkAgents
<1>2. ASSUME SeesBeat PROVE IsSeq(rdT'.data) /\ Len(rdT'.data) = beatsGot + 1
  <2>1. ~item.cmd.write
    BY <1>2, AclkIs, AnswersOfItem
  <2>2. rdCnt = beatsGot /\ beatsGot \in Nat /\ IsSeq(rdT.data)
    BY DEF Counters
  <2>3. beatsGot = 0 \/ Len(rdT.data) = beatsGot
    BY <2>1, <2>2 DEF HandlesInv
  <2>4. /\ IsSeq(Axi!Resized(rdT.data, beatsGot, Head(readQueue).data))
        /\ Len(Axi!Resized(rdT.data, beatsGot, Head(readQueue).data)) = beatsGot + 1
    BY <2>2, <2>3, ResizedIsLonger
  <2> QED
    BY <1>2, <2>2, <2>4, AclkAgents
<1> QED
  BY <1>1, <1>2

LEMMA AclkKeepsCounters ==
  ASSUME TbTrace, TbInv, TbAclk
  PROVE  Counters'
<1> USE DEF TbInv
<1>1. ~TakesWord => wrT'.data = wrT.data
  BY AclkAgents
<1>2. ~SeesBeat => rdT'.data = rdT.data
  BY AclkAgents
<1>3. CASE Clean
  <2>1. respQueue = <<>> /\ readQueue = <<>>
    BY <1>3, BridgeRests DEF Clean
  <2>2. ~TakesWord /\ ~SeesBeat
    BY <1>3, <2>1, AclkIs DEF Clean, TakesWord
  <2>3. ~LastWord /\ ~LastBeatSeen
    BY <2>2 DEF LastWord, LastBeatSeen
  <2>4. beatsGot \in Nat /\ beatsGot' = beatsGot + 0 /\ rdCnt' = rdCnt /\ openReads' = openReads
    BY <2>2, <2>3, AclkIs, AclkAgents DEF Counters
  <2>5. UNCHANGED <<apbWriteQ, apbReadQ, toCover, apbToCover>>
    BY <2>3, AclkObservers
  <2>6. beatsGot' = beatsGot
    BY <2>4
  <2> QED
    BY <1>1, <1>2, <2>2, <2>4, <2>5, <2>6 DEF Counters
<1>4. CASE Busy
  <2>1. IsSeq(wrT'.data) /\ IsSeq(rdT'.data)
    BY <1>1, <1>2, <1>4, ArraysGrow DEF Counters
  <2>2. UNCHANGED <<apbWriteQ, apbReadQ, apbToCover>>
    BY AclkObservers
  <2>3. IsSeq(toCover')
    BY AclkObservers, ListsGrow DEF Counters
  <2>4. LastBeatSeen => SeesBeat
    BY DEF LastBeatSeen
  <2>5. rdCnt = beatsGot /\ beatsGot \in Nat
    BY DEF Counters
  <2>6. rdCnt' = beatsGot' /\ beatsGot' \in Nat
    BY <2>4, <2>5, AclkIs, AclkAgents
  <2>7. ASSUME openReads' = <<>> PROVE beatsGot' = 0
    <3>1. CASE LastBeatSeen
      BY <3>1, AclkIs
    <3>2. CASE ~LastBeatSeen
      <4>1. openReads = <<>> /\ beatsGot = 0
        BY <2>7, <3>2, AclkIs DEF Counters
      <4>2. readQueue = <<>>
        BY <1>4, <4>1, AnswersOfItem DEF Busy
      <4>3. ~SeesBeat
        BY <4>2, AclkIs
      <4> QED
        BY <3>2, <4>1, <4>3, AclkIs
    <3> QED
      BY <3>1, <3>2
  <2> QED
    BY <2>1, <2>2, <2>3, <2>6, <2>7 DEF Counters
<1> QED
  BY <1>3, <1>4

LEMMA AclkKeepsSlave ==
  ASSUME TbTrace, Driven, SlaveInv, TbAclk
  PROVE  SlaveInv'
<1>1. UNCHANGED <<registers, item, slaveItems, setup, popped>>
  BY AclkIs
<1>2. Unstarted' => Unstarted
  BY <1>1, AclkIs, AclkAgents DEF Unstarted, Driven, registers
<1>3. Side!Stale' = Side!Stale
  BY <1>1 DEF Side!Stale, registers
<1>4. Served'
  <2>1. UNCHANGED <<state, beat, popped, slaveItems, item>>
    BY <1>1 DEF registers
  <2> QED
    BY <1>2, <1>3, <2>1 DEF SlaveInv, Served, Serves, Wanted
<1> QED
  BY <1>1, <1>4 DEF SlaveInv, Wanted, registers

LEMMA AclkKeepsHandles ==
  ASSUME TbTrace, Counters, Busy, TbAclk
  PROVE  HandlesInv'
<1> USE DEF Busy
<1>1. item' = item /\ item.cmd.write \in BOOLEAN /\ Wanted' = Wanted /\ Wanted \in Nat \ {0}
      /\ item.cmd.len + 1 = Wanted
  BY AclkIs, ItemTyped DEF Driven, Wanted
<1>2. wrCnt = (IF toSend = <<>> THEN 0 ELSE Wanted - Len(toSend))
  BY Zenon DEF HandlesInv
<1>3. ASSUME TakesWord
      PROVE  /\ toSend # <<>> /\ Len(toSend) \in 1 .. Wanted /\ toSend' = Tail(toSend)
             /\ Len(toSend') = Len(toSend) - 1
             /\ Head(toSend).last = (Len(toSend) = 1) /\ (toSend' = <<>>) = (Len(toSend) = 1)
  <2>1. toSend # <<>> /\ toSend' = Tail(toSend)
    BY <1>3, AclkIs DEF TakesWord
  <2> QED
    BY <2>1, WordsTaken
<1>4. LastWord => TakesWord
  BY DEF LastWord
<1>5. /\ wrCnt' = IF toSend' = <<>> THEN 0 ELSE Wanted - Len(toSend')
      /\ TakesWord => wrCnt + 1 = Wanted - Len(toSend) + 1
  <2>1. CASE TakesWord
    <3>1. wrCnt' = IF Len(toSend) = 1 THEN 0 ELSE wrCnt + 1
      BY <1>3, <2>1, AclkAgents DEF LastWord
    <3> DEFINE n == Len(toSend)  m == Len(toSend')
    <3>2. wrCnt = Wanted - n /\ m = n - 1 /\ n \in 1 .. Wanted
      BY <1>2, <1>3, <2>1
    <3>3. wrCnt + 1 = Wanted - m /\ wrCnt + 1 = Wanted - n + 1
      <4> HIDE DEF n, m, Wanted
      <4> QED
        BY <1>1, <3>2
    <3> QED
      BY <1>3, <2>1, <3>1, <3>3
  <2>2. CASE ~TakesWord
    BY <1>2, <1>4, <2>2, AclkIs, AclkAgents
  <2> QED
    BY <2>1, <2>2
<1>6. ASSUME item.cmd.write
      PROVE  /\ (phase' \in {"idle", "addr", "answer"} /\ ~awvalid') => wrT'.cmd = item.cmd
             /\ wrCnt' > 0 => Len(wrT'.data) = wrCnt'
             /\ HandedOut' => Len(wrT'.data) = Wanted
  <2>1. ASSUME phase' \in {"idle", "addr", "answer"}, ~awvalid' PROVE wrT'.cmd = item.cmd
    <3>1. phase \in {"idle", "addr", "answer"}
      BY <2>1, AclkAgents DEF Driven
    <3>2. CASE awvalid
      BY <2>1, <3>2, AclkIs, AclkAgents, DrivenIsOpen, OfferOfItem
    <3>3. CASE ~awvalid
      BY <1>6, <3>1, <3>3, AclkAgents DEF HandlesInv
    <3> QED
      BY <3>2, <3>3
  <2>2. CASE TakesWord
    <3>1. Len(wrT'.data) = wrCnt + 1
      BY <2>2, ArraysGrow
    <3>2. wrCnt' = 0 \/ wrCnt' = wrCnt + 1
      BY <2>2, AclkAgents
    <3>3. ASSUME HandedOut' PROVE Len(wrT'.data) = Wanted
      <4>1. toSend' = <<>>
        BY <1>1, <1>6, <3>3 DEF HandedOut
      <4>2. Len(toSend) = 1
        BY <1>3, <2>2, <4>1
      <4>3. wrCnt + 1 = Wanted - 1 + 1
        BY <1>5, <2>2, <4>2
      <4>4. Wanted - 1 + 1 = Wanted
        <5> HIDE DEF Wanted
        <5> QED
          BY <1>1
      <4> QED
        BY <3>1, <4>3, <4>4
    <3> QED
      BY <2>1, <3>1, <3>2, <3>3
  <2>3. CASE ~TakesWord
    <3>1. wrT'.data = wrT.data /\ wrCnt' = wrCnt
      BY <1>4, <2>3, AclkAgents
    <3>2. HandedOut' => HandedOut
      BY <1>1, <1>4, <1>6, <2>3, HandsOut
    <3> QED
      BY <1>6, <2>1, <3>1, <3>2 DEF HandlesInv
  <2> QED
    BY <2>2, <2>3
<1>7. ASSUME ~item.cmd.write
      PROVE  /\ (phase' \in {"idle", "addr", "answer"} /\ ~arvalid') => rdT'.cmd = item.cmd
             /\ beatsGot' > 0 => Len(rdT'.data) = beatsGot'
             /\ HandedOut' => Len(rdT'.data) = Wanted
  <2>1. ASSUME phase' \in {"idle", "addr", "answer"}, ~arvalid' PROVE rdT'.cmd = item.cmd
    <3>1. phase \in {"idle", "addr", "answer"}
      BY <2>1, AclkAgents DEF Driven
    <3>2. CASE arvalid
      BY <2>1, <3>2, AclkIs, AclkAgents, DrivenIsOpen, OfferOfItem
    <3>3. CASE ~arvalid
      BY <1>7, <3>1, <3>3, AclkAgents DEF HandlesInv
    <3> QED
      BY <3>2, <3>3
  <2>2. LastBeatSeen => SeesBeat
    BY DEF LastBeatSeen
  <2>3. beatsGot \in Nat
    BY DEF Counters
  <2>4. CASE SeesBeat
    <3>1. Len(rdT'.data) = beatsGot + 1
      BY <2>4, ArraysGrow
    <3>2. beatsGot' = 0 \/ beatsGot' = beatsGot + 1
      BY <2>4, AclkIs
    <3>3. ASSUME HandedOut' PROVE Len(rdT'.data) = Wanted
      <4>1. openReads # <<>> /\ Head(readQueue).last = (beatsGot = item.cmd.len)
        <5>1. openReads = <<item.cmd>> /\ Head(readQueue).last = (beatsGot = item.cmd.len)
          BY <2>4, AclkIs, AnswersOfItem
        <5> QED
          BY <5>1
      <4>2. ~HandedOut
        BY <1>7, <4>1 DEF HandedOut
      <4>3. LastBeatSeen
        BY <1>1, <1>7, <3>3, <4>2, HandsOut
      <4>4. beatsGot = item.cmd.len
        BY <4>1, <4>3 DEF LastBeatSeen
      <4> QED
        BY <1>1, <3>1, <4>4
    <3> QED
      BY <2>1, <3>1, <3>2, <3>3
  <2>5. CASE ~SeesBeat
    <3>1. rdT'.data = rdT.data /\ beatsGot' = beatsGot
      BY <2>2, <2>3, <2>5, AclkIs, AclkAgents
    <3>2. HandedOut' => HandedOut
      BY <1>1, <1>7, <2>2, <2>5, HandsOut
    <3> QED
      BY <1>7, <2>1, <3>1, <3>2 DEF HandlesInv
  <2> QED
    BY <2>4, <2>5
<1> QED
  BY <1>1, <1>5, <1>6, <1>7 DEF HandlesInv

\* A checker gets its handle in the edge the handle is handed out.
LEMMA AclkKeepsChecks ==
  ASSUME TbTrace, Counters, Busy, TbAclk
  PROVE  ScbInv' /\ CoverInv'
<1> USE DEF Busy
<1>1. /\ item' = item /\ item.cmd.write \in BOOLEAN /\ Wanted' = Wanted /\ Wanted \in Nat \ {0}
      /\ Accessed' = Accessed
  BY AclkIs, ItemTyped DEF Driven, Wanted, Accessed
<1>2. /\ LastWord => item.cmd.write = TRUE /\ ~HandedOut /\ HandedOut'
      /\ LastBeatSeen => item.cmd.write = FALSE /\ ~HandedOut /\ HandedOut'
      /\ (~LastWord /\ ~LastBeatSeen) => (HandedOut' <=> HandedOut)
  BY HandsOut
<1>3. /\ UNCHANGED <<apbWriteQ, apbReadQ, writeIdx, readIdx>>
      /\ axiWrites' = axiWrites + (IF LastWord THEN 1 ELSE 0)
      /\ axiReads' = axiReads + (IF LastBeatSeen THEN 1 ELSE 0)
      /\ (LastWord \/ LastBeatSeen) => \E x : toCover' = Append(toCover, x)
      /\ (~LastWord /\ ~LastBeatSeen) => toCover' = toCover
      /\ apbToCover' = apbToCover
  BY AclkObservers
<1>4. /\ Checks(axiWrites, apbWriteQ, writeIdx, item.cmd.write)
      /\ Checks(axiReads, apbReadQ, readIdx, ~item.cmd.write)
  BY DEF ScbInv
<1>5. 0 \in 0 .. Wanted - 1
  <2> HIDE DEF Wanted
  <2> QED
    BY <1>1
<1>6. ASSUME NEW handles, NEW q, NEW idx, NEW mine \in BOOLEAN, NEW news \in BOOLEAN,
             Checks(handles, q, idx, mine), news => mine /\ ~HandedOut /\ HandedOut',
             ~news => ~mine \/ (HandedOut' <=> HandedOut),
             IsSeq(q)
      PROVE  IF ~mine THEN handles + (IF news THEN 1 ELSE 0) = 0 /\ q = <<>> /\ idx = 0
             ELSE IF ~HandedOut' THEN /\ handles + (IF news THEN 1 ELSE 0) = 0
                                      /\ idx = 0 /\ Len(q) = Accessed'
             ELSE \/ /\ handles + (IF news THEN 1 ELSE 0) = 1 /\ idx \in 0 .. Wanted' - 1
                     /\ idx + Len(q) = Accessed'
                  \/ /\ handles + (IF news THEN 1 ELSE 0) = 0 /\ idx = 0 /\ q = <<>>
                     /\ Accessed' = Wanted'
  <2>1. Len(q) \in Nat
    BY <1>6, ListsGrow
  <2> HIDE DEF Wanted, Accessed, HandedOut
  <2>2. CASE news
    BY <1>1, <1>5, <1>6, <2>1, <2>2 DEF Checks
  <2>3. CASE ~news
    BY <1>1, <1>6, <2>1, <2>3 DEF Checks
  <2> QED
    BY <2>2, <2>3
<1>7. ScbInv'
  <2>1. Checks(axiWrites, apbWriteQ, writeIdx, item.cmd.write)'
    <3>1. LastWord \in BOOLEAN
      <4>1. TakesWord => Head(toSend).last = (Len(toSend) = 1)
        BY WordsTaken DEF TakesWord
      <4> QED
        BY <4>1 DEF LastWord, TakesWord
    <3>2. IsSeq(apbWriteQ)
      BY DEF Counters
    <3>3. LastWord => item.cmd.write /\ ~HandedOut /\ HandedOut'
      BY <1>2
    <3>4. ~LastWord => ~item.cmd.write \/ (HandedOut' <=> HandedOut)
      BY <1>2
    <3>5. IF ~item.cmd.write THEN axiWrites' = 0 /\ apbWriteQ = <<>> /\ writeIdx = 0
          ELSE IF ~HandedOut' THEN axiWrites' = 0 /\ writeIdx = 0 /\ Len(apbWriteQ) = Accessed'
          ELSE \/ /\ axiWrites' = 1 /\ writeIdx \in 0 .. Wanted' - 1
                  /\ writeIdx + Len(apbWriteQ) = Accessed'
               \/ axiWrites' = 0 /\ writeIdx = 0 /\ apbWriteQ = <<>> /\ Accessed' = Wanted'
      <4> HIDE DEF Wanted, Accessed, HandedOut, LastWord, Checks
      <4>1. axiWrites' = axiWrites + (IF LastWord THEN 1 ELSE 0)
        BY <1>3
      <4> QED
        BY <1>1, <1>4, <1>6, <3>1, <3>2, <3>3, <3>4, <4>1
    <3> QED
      BY <1>1, <1>3, <3>5 DEF Checks
  <2>2. Checks(axiReads, apbReadQ, readIdx, ~item.cmd.write)'
    <3>1. LastBeatSeen \in BOOLEAN
      <4>1. SeesBeat => Head(readQueue).last = (beatsGot = item.cmd.len)
        BY AclkIs, AnswersOfItem
      <4> QED
        BY <4>1 DEF LastBeatSeen, SeesBeat
    <3>2. IsSeq(apbReadQ)
      BY DEF Counters
    <3>3. LastBeatSeen => ~item.cmd.write /\ ~HandedOut /\ HandedOut'
      BY <1>2
    <3>4. ~LastBeatSeen => item.cmd.write \/ (HandedOut' <=> HandedOut)
      BY <1>2
    <3>5. IF item.cmd.write THEN axiReads' = 0 /\ apbReadQ = <<>> /\ readIdx = 0
          ELSE IF ~HandedOut' THEN axiReads' = 0 /\ readIdx = 0 /\ Len(apbReadQ) = Accessed'
          ELSE \/ /\ axiReads' = 1 /\ readIdx \in 0 .. Wanted' - 1
                  /\ readIdx + Len(apbReadQ) = Accessed'
               \/ axiReads' = 0 /\ readIdx = 0 /\ apbReadQ = <<>> /\ Accessed' = Wanted'
      <4> DEFINE mine == ~item.cmd.write
      <4>1. axiReads' = axiReads + (IF LastBeatSeen THEN 1 ELSE 0)
        BY <1>3
      <4>2. /\ mine \in BOOLEAN /\ Checks(axiReads, apbReadQ, readIdx, mine)
            /\ LastBeatSeen => mine /\ ~HandedOut /\ HandedOut'
            /\ ~LastBeatSeen => ~mine \/ (HandedOut' <=> HandedOut)
            /\ (item.cmd.write <=> ~mine)
        BY <1>1, <1>4, <3>3, <3>4
      <4> HIDE DEF Wanted, Accessed, HandedOut, LastBeatSeen, Checks, mine
      <4> QED
        BY <1>6, <3>1, <3>2, <4>1, <4>2
    <3> QED
      BY <1>1, <1>3, <3>5 DEF Checks
  <2> QED
    BY <2>1, <2>2 DEF ScbInv
<1>8. CoverInv'
  <2>1. CASE LastWord \/ LastBeatSeen
    <3>1. ~HandedOut /\ HandedOut' /\ toCover = <<>>
      BY <1>2, <2>1 DEF CoverInv
    <3>2. Len(toCover') = 1
      <4>1. PICK x : toCover' = Append(toCover, x)
        BY <1>3, <2>1
      <4>2. toCover' = <<x>>
        BY <3>1, <4>1
      <4> QED
        BY <4>2
    <3>3. apbToCover' >= Accessed'
      BY <1>1, <1>3, <3>1 DEF CoverInv
    <3> QED
      BY <3>1, <3>2, <3>3 DEF CoverInv
  <2>2. CASE ~LastWord /\ ~LastBeatSeen
    BY <1>1, <1>2, <1>3, <2>2 DEF CoverInv
  <2> QED
    BY <2>1, <2>2
<1> QED
  BY <1>7, <1>8

LEMMA AclkKeepsTb == ASSUME TbTrace, TbInv, TbAclk PROVE TbInv'
<1>1. Counters'
  BY AclkKeepsCounters
<1>2. CASE Clean
  BY <1>1, <1>2, AclkKeepsClean DEF TbInv
<1>3. CASE Busy
  <2>1. Driven' /\ SlaveInv' /\ HandlesInv'
    BY <1>3, AclkKeepsDriven, AclkKeepsSlave, AclkKeepsHandles DEF TbInv, Busy
  <2>2. ScbInv' /\ CoverInv'
    BY <1>3, AclkKeepsChecks DEF TbInv
  <2> QED
    BY <1>1, <2>1, <2>2 DEF TbInv, Busy
<1> QED
  BY <1>2, <1>3 DEF TbInv

----------------------------------------------------------------------------
(* An edge of pclk.                                                           *)

IsSetup == Apb!PselOut # {} /\ ~Apb!Penable

\* The slaves see a setup in the select states, and take it for a write in one of them.
LEMMA SetupIs ==
  ASSUME TbTrace
  PROVE  /\ IsSetup <=> state \in {"WSEL", "RSEL"}
         /\ Apb!Pwrite <=> state \in {"WSEL", "WEN"}
         /\ state \in Master!States
<1>1. Master!SelectsDecoded /\ state \in Master!States
  BY DEF TbTrace, ReadTraceInv, TrafficInv, Master!CmdInHand, BridgeInv, MasterInv
<1> QED
  BY <1>1 DEF IsSetup, Apb!PselOut, Apb!Penable, Apb!Pwrite, Master!SelectsDecoded, Master!Selecting

\* The invariants of the APB side, and its edge.
LEMMA SideFacts ==
  ASSUME TbTrace, PclkEdge, PclkRecorded
  PROVE  /\ Side!Tick /\ Side!Edge /\ Side!Registers /\ Side!HistoryFollows
         /\ Side!Owned /\ Side!WriteInv /\ Side!FlagInv /\ Side!OrderedInv /\ Master!CmdInHand
         /\ Master!Edge
<1>1. Side!Tick /\ Side!Edge /\ Side!HistoryFollows /\ Master!Edge /\ Master!CmdInHand
  BY PclkTicks, PclkMoves DEF TbTrace, ReadTraceInv, TrafficInv, Side!Tick
<1>2. Side!Registers
  BY <1>1, SideAssumptions, Side!StateMoves
<1> QED
  BY <1>1, <1>2
  DEF TbTrace, ReadTraceInv, WriteTraceInv, SideReadInv, Side!AddressedInv, Side!WriteDataInv,
      Side!WriteInv

\* Where the control comes from in the states of a write,
LEMMA WriteSources ==
  ASSUME TbTrace, PclkEdge, PclkRecorded
  PROVE  /\ state' = "WTSTART" => state \in {"IDLE", "WTSTART"}
         /\ state' = "NWEN" => state \in {"IDLE", "NWSEL", "WDTWT", "WTSTART"}
         /\ state' \in {"NWSEL", "WDTWT"} => state \in {"WEN", "NWEN", "WDTWT"}
         /\ state' = "WSEL" => state \in {"WEN", "NWEN"} /\ ~Side!Stale
         /\ state' = "WEN" => state = "WSEL"
         /\ state' = "NWEN" /\ state = "WDTWT" => Apb!PopWriteBuff
         /\ state \in {"WEN", "NWEN"} => ~Apb!PopWriteBuff
         /\ state = "IDLE" /\ state' # "IDLE" => Starts
<1>1. /\ Master!Edge /\ Master!CmdInHand /\ Side!Edge /\ Side!Owned
  BY SideFacts
<1>2. /\ state = "IDLE" => state' \in {"IDLE", "NWEN", "WTSTART", "NREN", "PURGE"}
      /\ state = "IDLE" /\ state' # "IDLE" => Starts
  BY <1>1, AddrSpaceAssumption, Master!Path DEF Starts
<1>3. state \in {"RSEL", "REN", "NREN", "RBUFWT", "PREPURGE"} =>
        state' \in {"RSEL", "REN", "NREN", "RBUFWT", "PREPURGE", "PURGE", "IDLE"}
  BY <1>1, AddrSpaceAssumption, Master!Path DEF Master!ReadStates
<1>4. state = "PURGE" => state' \in {"WRESP", "PURGE", "IDLE"}
  BY <1>1, AddrSpaceAssumption, Master!Path
<1>5. /\ state = "WSEL" => state' = "WEN"
      /\ state = "NWSEL" => state' = "NWEN"
      /\ state = "WDTWT" => state' = IF ~WordQueue!PopEmpty THEN "NWEN" ELSE "WDTWT"
      /\ state = "WTSTART" => state' \in {"NWEN", "WTSTART"}
      /\ state = "WRESP" => state' \in {"WRESP", "IDLE"}
      /\ state \in {"WEN", "NWEN"} => state' = Side!AfterWrite
  BY <1>1, SideAssumptions, Side!WriteMoves
<1>6. Side!AfterWrite \in {"WRESP", "WDTWT", "WSEL", "NWSEL", "PURGE"}
  BY SideAssumptions, Side!AfterWriteLands
<1>7. Side!AfterWrite = "WSEL" => ~Side!Stale
  BY DEF Side!AfterWrite, Side!Stale
<1>8. state = "WDTWT" /\ ~WordQueue!PopEmpty => Apb!PopWriteBuff
  BY <1>1 DEF Master!CmdInHand, Master!WriteStates, Apb!PopWriteBuff
<1>9. state \in {"WEN", "NWEN"} => ~Apb!PopWriteBuff
  BY DEF Apb!PopWriteBuff
<1>10. state \in Master!States
  BY <1>1 DEF Master!CmdInHand
<1> QED
  BY <1>2, <1>3, <1>4, <1>5, <1>6, <1>7, <1>8, <1>9, <1>10 DEF Master!States

\* and of a read.
LEMMA ReadSources ==
  ASSUME TbTrace, PclkEdge, PclkRecorded
  PROVE  /\ state' = "NREN" => state = "IDLE"
         /\ state' = "RSEL" => /\ state \in {"NREN", "REN", "RBUFWT"}
                               /\ beat' = IF state = "NREN" THEN beat ELSE beat + 1
         /\ state' = "REN" => state = "RSEL" /\ beat' = beat
         /\ state' = "RBUFWT" => state \in {"REN", "RBUFWT"} /\ beat' = beat
<1>1. Side!Edge /\ Side!Tick /\ Side!OrderedInv
  BY SideFacts
<1>2. /\ state' = "NREN" => state = "IDLE"
      /\ state' = "RSEL" => state \in {"NREN", "REN", "RBUFWT"}
      /\ state' = "REN" => state = "RSEL"
      /\ state' = "RBUFWT" => state \in {"REN", "RBUFWT"} /\ ReadQueue!PushFull
  BY <1>1, SideAssumptions, Side!ReadMoves
<1>3. /\ state = "RSEL" => beat' = beat
      /\ state = "NREN" => beat' = beat
  BY <1>1, SideAssumptions, Side!ReadRegistersMove
<1>4. state \in {"REN", "RBUFWT"} =>
        /\ ReadQueue!PushFull => beat' = beat /\ state' = "RBUFWT"
        /\ (~ReadQueue!PushFull /\ state' # "IDLE") => beat' = beat + 1
  BY <1>1, SideAssumptions, Side!BeatMoves
<1> QED
  BY <1>2, <1>3, <1>4

\* A setup uses up an item, and the accesses begun go on.
LEMMA PclkServes ==
  ASSUME TbTrace, TbTrace', PclkEdge, PclkRecorded, NEW u \in Nat, NEW v \in Nat, Serves(u),
         Starts => u = 0,
         v = IF state \in {"WSEL", "RSEL"} THEN u + 1 ELSE u
  PROVE  Serves(v)'
<1> DEFINE p == Len(popped)
           q == Len(popped')
<1>1. /\ Side!Tick /\ Side!WriteInv /\ Side!FlagInv /\ Side!Owned
  BY SideFacts
<1>2. Side!WriteInv' /\ Side!OrderedInv'
  BY DEF TbTrace, ReadTraceInv, WriteTraceInv, SideReadInv, Side!AddressedInv, Side!WriteDataInv
<1>3. /\ p \in Nat /\ q \in Nat
  BY <1>1, <1>2 DEF Side!WriteInv, Side!WordInv
<1>4. ASSUME state # "IDLE"
      PROVE  /\ Apb!PopWriteBuff => q = p + 1
             /\ ~Apb!PopWriteBuff => q = p
             /\ p <= q
  <2>1. /\ Side!PopWriteBuff => Len(popped') = Len(popped) + 1
        /\ ~Side!PopWriteBuff => popped' = popped
    BY <1>1, <1>4, SideAssumptions, Side!WordsMove
  <2> QED
    BY <1>3, <2>1, SideMoves
<1>5. ASSUME state \in {"WSEL", "NWSEL"}, ~Apb!PopWriteBuff PROVE Side!Stale'
  BY <1>1, <1>5, SideMoves, SideAssumptions, Side!NoWordIsStale
<1>6. state' = "NWEN" => q >= 1
  <2>1. state' = "NWEN" => Len(popped') \in 1 .. owner'.len + 1
    BY <1>2 DEF Side!WriteInv, Side!DrainInv, Side!InHand
  <2> QED
    BY <1>3, <2>1
<1>7. state' \in {"NREN"} => beat' >= 0
  <2>1. state' = "NREN" => beat' = served' + Side!Pushing' /\ served' \in Nat
    BY <1>2 DEF Side!OrderedInv, Side!ReadInv, Side!BeatInv, Side!ReadStates
  <2>2. Side!Pushing' \in {0, 1}
    BY DEF Side!Pushing
  <2> QED
    BY <2>1, <2>2
<1>8. state \in {"NREN", "RSEL", "REN", "RBUFWT"} => beat \in Nat
  <2>1. Side!OrderedInv
    BY SideFacts
  <2>2. state \in {"NREN", "RSEL", "REN", "RBUFWT"} => beat = served + Side!Pushing /\ served \in Nat
    BY <2>1 DEF Side!OrderedInv, Side!ReadInv, Side!BeatInv, Side!ReadStates
  <2>3. Side!Pushing \in {0, 1}
    BY DEF Side!Pushing
  <2> QED
    BY <2>2, <2>3
<1>9. /\ state = "WTSTART" => u = 0
      /\ state = "WSEL" => u <= p - 1
      /\ state \in {"WEN", "NWEN"} => u <= p /\ (Side!Stale \/ u <= p - 1)
      /\ state \in {"NWSEL", "WDTWT"} => u <= p
      /\ state \in {"NREN", "RSEL"} => u <= beat
      /\ state \in {"REN", "RBUFWT"} => u <= beat + 1
  BY DEF Serves
<1> HIDE DEF p, q
<1>10. ASSUME state' = "WTSTART" PROVE v = 0
  <2>1. state \in {"IDLE", "WTSTART"} /\ (state = "IDLE" => Starts)
    BY <1>10, WriteSources
  <2> QED
    BY <1>9, <2>1
<1>11. ASSUME state' = "WSEL" PROVE v <= q - 1
  <2>1. state \in {"WEN", "NWEN"} /\ ~Side!Stale /\ ~Apb!PopWriteBuff
    BY <1>11, WriteSources
  <2>2. q = p /\ u <= p - 1 /\ v = u
    BY <1>4, <1>9, <2>1
  <2> QED
    BY <2>2
<1>12. ASSUME state' = "WEN" PROVE v <= q /\ (Side!Stale' \/ v <= q - 1)
  <2>1. state = "WSEL"
    BY <1>12, WriteSources
  <2>2. v = u + 1 /\ u <= p - 1
    BY <1>9, <2>1
  <2>3. CASE Apb!PopWriteBuff
    <3>1. q = p + 1
      BY <1>4, <2>1, <2>3
    <3> QED
      BY <1>3, <2>2, <3>1
  <2>4. CASE ~Apb!PopWriteBuff
    <3>1. q = p /\ Side!Stale'
      BY <1>4, <1>5, <2>1, <2>4
    <3>2. v <= q
      BY <1>3, <2>2, <3>1
    <3> QED
      BY <3>1, <3>2
  <2> QED
    BY <2>3, <2>4
<1>13. ASSUME state' = "NWEN" PROVE v <= q /\ (Side!Stale' \/ v <= q - 1)
  <2>1. /\ state \in {"IDLE", "NWSEL", "WDTWT", "WTSTART"}
        /\ state = "IDLE" => Starts
        /\ state = "WDTWT" => Apb!PopWriteBuff
    BY <1>13, WriteSources
  <2>2. v = u
    BY <2>1
  <2>3. CASE state \in {"IDLE", "WTSTART"}
    <3>1. v = 0 /\ q >= 1
      BY <1>6, <1>9, <1>13, <2>1, <2>2, <2>3
    <3> QED
      BY <1>3, <3>1
  <2>4. CASE state \in {"NWSEL", "WDTWT"}
    <3>1. u <= p
      BY <1>9, <2>4
    <3>2. CASE Apb!PopWriteBuff
      <4>1. q = p + 1
        BY <1>4, <2>4, <3>2
      <4> QED
        BY <1>3, <2>2, <3>1, <4>1
    <3>3. CASE ~Apb!PopWriteBuff
      <4>1. q = p /\ Side!Stale'
        BY <1>4, <1>5, <2>1, <2>4, <3>3
      <4>2. v <= q
        BY <2>2, <3>1, <4>1
      <4> QED
        BY <4>1, <4>2
    <3> QED
      BY <3>2, <3>3
  <2> QED
    BY <2>1, <2>3, <2>4
<1>14. ASSUME state' \in {"NWSEL", "WDTWT"} PROVE v <= q
  <2>1. state \in {"WEN", "NWEN", "WDTWT"}
    BY <1>14, WriteSources
  <2>2. v = u /\ u <= p /\ p <= q
    BY <1>4, <1>9, <2>1
  <2> QED
    BY <1>3, <2>2
<1>15. ASSUME state' \in {"NREN", "RSEL"} PROVE v <= beat'
  <2>1. CASE state' = "NREN"
    <3>1. v = 0
      BY <2>1, ReadSources, WriteSources
    <3> QED
      BY <1>7, <2>1, <3>1
  <2>2. CASE state' = "RSEL"
    <3>1. /\ state \in {"NREN", "REN", "RBUFWT"}
          /\ beat' = IF state = "NREN" THEN beat ELSE beat + 1
      BY <2>2, ReadSources
    <3> QED
      BY <1>9, <3>1
  <2> QED
    BY <1>15, <2>1, <2>2
<1>16. ASSUME state' \in {"REN", "RBUFWT"} PROVE v <= beat' + 1
  <2>1. CASE state' = "REN"
    <3>1. state = "RSEL" /\ beat' = beat
      BY <2>1, ReadSources
    <3>2. v = u + 1 /\ u <= beat /\ beat \in Nat
      BY <1>8, <1>9, <3>1
    <3> QED
      BY <3>1, <3>2
  <2>2. CASE state' = "RBUFWT"
    <3>1. state \in {"REN", "RBUFWT"} /\ beat' = beat
      BY <2>2, ReadSources
    <3> QED
      BY <1>9, <3>1
  <2> QED
    BY <1>16, <2>1, <2>2
<1> QED
  BY <1>10, <1>11, <1>12, <1>13, <1>14, <1>15, <1>16 DEF Serves, q

\* What the edge does to the agents.
LEMMA PclkIs ==
  ASSUME TbPclk
  PROVE  /\ PclkEdge /\ PclkRecorded
         /\ UNCHANGED <<item, phase, wrT, rdT, wrCnt, rdCnt, awvalid, arvalid, openWrites, toSend,
                        openReads, beatsGot>>
         /\ slaveItems' = IF IsSetup /\ slaveItems > 0 THEN slaveItems - 1 ELSE slaveItems
         /\ (setup = <<>> /\ IsSetup) =>
              \E x : setup' = <<x>> /\ x.write = Apb!Pwrite
         /\ (setup # <<>> \/ ~IsSetup) => setup' = <<>>
<1>1. /\ PclkEdge /\ PclkRecorded
      /\ UNCHANGED <<item, phase, wrT, rdT, wrCnt, rdCnt>>
  BY DEF TbPclk, PclkWith, driverVars, monitorVars
<1>2. UNCHANGED <<awvalid, arvalid, openWrites, toSend, openReads, beatsGot>>
  BY <1>1 DEF PclkEdge, channels
<1>3. /\ Slave!DriverEdge(IsSetup, Apb!Pwrite, paddr, pwdata)
      /\ Slave!MonitorEdge(IsSetup, Apb!Pwrite, paddr)
  BY DEF TbPclk, IsSetup
<1>4. slaveItems' = IF IsSetup /\ slaveItems > 0 THEN slaveItems - 1 ELSE slaveItems
  BY <1>3 DEF Slave!DriverEdge
<1>5. setup' = IF setup = <<>> /\ IsSetup
               THEN <<[write |-> Apb!Pwrite, addr |-> Slave!Short(paddr)]>> ELSE <<>>
  BY <1>3 DEF Slave!MonitorEdge
<1> QED
  BY <1>1, <1>2, <1>4, <1>5

\* What it does to the observers: the access in hand, if there is one, goes to the queue
\* of its kind.
LEMMA PclkObservers ==
  ASSUME TbInv, TbPclk
  PROVE  /\ UNCHANGED <<axiWrites, axiReads, writeIdx, readIdx, toCover>>
         /\ setup = <<>> => UNCHANGED <<apbWriteQ, apbReadQ, apbToCover>>
         /\ (setup # <<>> /\ setup[1].write = TRUE) =>
              (\E x : apbWriteQ' = Append(apbWriteQ, x)) /\ apbReadQ' = apbReadQ
         /\ (setup # <<>> /\ setup[1].write = FALSE) =>
              (\E x : apbReadQ' = Append(apbReadQ, x)) /\ apbWriteQ' = apbWriteQ
         /\ setup # <<>> => apbToCover' = apbToCover + 1
<1> DEFINE seen == Slave!Published(pwdata)
<1>1. /\ Scb!Received(FALSE, FALSE, seen)
      /\ Cover!Received(FALSE, FALSE, item, seen)
  BY DEF TbPclk
<1>2. /\ setup = <<>> => seen = <<>>
      /\ setup # <<>> => \E x : seen = <<x>> /\ x.write = setup[1].write
  BY DEF Slave!Published
<1> HIDE DEF seen
<1>3. /\ axiWrites' = axiWrites + 0 /\ axiReads' = axiReads + 0
      /\ UNCHANGED <<writeIdx, readIdx>>
      /\ apbWriteQ' = apbWriteQ \o (IF seen # <<>> /\ seen[1].write = TRUE THEN seen ELSE <<>>)
      /\ apbReadQ' = apbReadQ \o (IF seen # <<>> /\ seen[1].write = FALSE THEN seen ELSE <<>>)
  BY <1>1 DEF Scb!Received
<1>4. toCover' = toCover /\ apbToCover' = apbToCover + Len(seen)
  BY <1>1 DEF Cover!Received
<1>5. axiWrites \in Nat /\ axiReads \in Nat
  <2>1. CASE Clean
    BY <2>1 DEF Clean, Scb!NothingWaits
  <2>2. CASE Busy
    <3>1. axiWrites = 0 \/ axiWrites = 1
      BY <2>2 DEF Busy, ScbInv, Checks
    <3>2. axiReads = 0 \/ axiReads = 1
      BY <2>2 DEF Busy, ScbInv, Checks
    <3> QED
      BY <3>1, <3>2
  <2> QED
    BY <2>1, <2>2 DEF TbInv
<1>6. axiWrites' = axiWrites /\ axiReads' = axiReads
  BY <1>3, <1>5
<1>7. IsSeq(apbWriteQ) /\ IsSeq(apbReadQ) /\ apbToCover \in Nat
  BY DEF TbInv, Counters
<1>8. ASSUME setup = <<>> PROVE UNCHANGED <<apbWriteQ, apbReadQ, apbToCover>>
  <2>1. apbWriteQ' = apbWriteQ \o <<>> /\ apbReadQ' = apbReadQ \o <<>> /\ seen = <<>>
    BY <1>2, <1>3, <1>8
  <2>2. apbToCover' = apbToCover + 0
    BY <1>4, <2>1, ShortLists
  <2> QED
    BY <1>7, <2>1, <2>2, ListsGrow
<1>9. ASSUME setup # <<>>
      PROVE  /\ setup[1].write = TRUE =>
                  (\E x : apbWriteQ' = Append(apbWriteQ, x)) /\ apbReadQ' = apbReadQ
             /\ setup[1].write = FALSE =>
                  (\E x : apbReadQ' = Append(apbReadQ, x)) /\ apbWriteQ' = apbWriteQ
             /\ apbToCover' = apbToCover + 1
  <2>1. PICK x : seen = <<x>> /\ x.write = setup[1].write
    BY <1>2, <1>9
  <2>2. seen # <<>> /\ seen[1] = x /\ Len(seen) = 1
    BY <2>1
  <2>3. /\ apbWriteQ \o <<>> = apbWriteQ /\ apbWriteQ \o <<x>> = Append(apbWriteQ, x)
        /\ apbReadQ \o <<>> = apbReadQ /\ apbReadQ \o <<x>> = Append(apbReadQ, x)
    BY <1>7, ListsGrow
  <2>4. apbToCover' = apbToCover + 1
    BY <1>4, <2>2
  <2>5. /\ apbWriteQ' = apbWriteQ \o (IF x.write = TRUE THEN <<x>> ELSE <<>>)
        /\ apbReadQ' = apbReadQ \o (IF x.write = FALSE THEN <<x>> ELSE <<>>)
    BY <1>3, <2>1, <2>2
  <2> QED
    BY <2>1, <2>3, <2>4, <2>5
<1> QED
  BY <1>3, <1>4, <1>6, <1>8, <1>9

LEMMA PclkKeepsClean ==
  ASSUME TbTrace, TbInv, Clean, TbPclk
  PROVE  Clean'
<1>1. state = "IDLE"
  BY BridgeRests DEF Clean
<1>2. ~IsSetup /\ setup = <<>>
  BY <1>1, SetupIs DEF Clean
<1> QED
  BY <1>2, PclkIs, PclkObservers DEF Clean, Scb!NothingWaits

\* The numbers of a burst in hand.
LEMMA Numbers ==
  ASSUME Driven, SlaveInv
  PROVE  /\ Wanted \in Nat \ {0} /\ Wanted = item.cmd.len + 1 /\ item.cmd.write \in BOOLEAN
         /\ slaveItems \in 0 .. Wanted /\ Wanted - slaveItems \in Nat
         /\ Len(setup) \in {0, 1} /\ (Len(setup) = 0 <=> setup = <<>>)
         /\ Accessed \in Int /\ Accessed <= Wanted - Len(setup)
<1>1. Wanted \in Nat \ {0} /\ Wanted = item.cmd.len + 1 /\ item.cmd.write \in BOOLEAN
  BY ItemTyped DEF Driven, Wanted
<1>2. slaveItems \in 0 .. Wanted
  BY DEF SlaveInv
<1>3. Len(setup) \in {0, 1} /\ (Len(setup) = 0 <=> setup = <<>>)
  BY ListsGrow DEF SlaveInv, One
<1>4. Wanted - slaveItems \in Nat /\ Accessed \in Int /\ Accessed <= Wanted - Len(setup)
  <2> DEFINE s == Len(setup)
  <2>1. Accessed = Wanted - slaveItems - s
    BY DEF Accessed
  <2> HIDE DEF Wanted, Accessed, s
  <2> QED
    BY <1>1, <1>2, <1>3, <2>1 DEF s
<1> QED
  BY <1>1, <1>2, <1>3, <1>4

\* A setup finds an item of the slave driver, and is of the kind of the burst.
LEMMA SetupIsServed ==
  ASSUME TbTrace, Driven, SlaveInv, state \in {"WSEL", "RSEL"}
  PROVE  slaveItems > 0 /\ setup = <<>> /\ item.cmd.write = (state = "WSEL")
<1>1. owner = item.cmd
  BY DrivenIsOpen, ItemInHand
<1>2. Side!Owned /\ Side!WriteInv /\ Side!OrderedInv
  BY DEF TbTrace, ReadTraceInv, WriteTraceInv, SideReadInv, Side!AddressedInv, Side!WriteDataInv,
         Side!WriteInv
<1>3. item.cmd.write = (state = "WSEL")
  BY <1>1, <1>2, Numbers DEF Side!Owned, Side!ReadStates, Side!WriteStates
<1>4. setup = <<>>
  <2>1. Len(setup) = 0
    BY DEF SlaveInv, One
  <2> QED
    BY <2>1, Numbers
<1>5. slaveItems > 0
  <2> DEFINE u == Wanted - slaveItems  p == Len(popped)
  <2>1. Serves(u)
    BY DEF SlaveInv, Served
  <2>2. CASE state = "WSEL"
    <3>1. u <= p - 1
      BY <2>1, <2>2 DEF Serves
    <3>2. p \in 1 .. owner.len + 1
      BY <1>2, <2>2 DEF Side!WriteInv, Side!DrainInv, Side!InHand
    <3>3. p \in 1 .. Wanted
      BY <1>1, <3>2, Numbers
    <3>4. Wanted \in Nat /\ slaveItems \in 0 .. Wanted
      BY Numbers
    <3>5. u = Wanted - slaveItems
      OBVIOUS
    <3> HIDE DEF u, p, Wanted
    <3> QED
      BY <3>1, <3>3, <3>4, <3>5
  <2>3. CASE state = "RSEL"
    <3>1. u <= beat
      BY <2>1, <2>3 DEF Serves
    <3>2. beat <= owner.len /\ beat \in Int
      <4>1. beat = served + Side!Pushing /\ served \in Nat /\ beat <= owner.len
        BY <1>2, <2>3 DEF Side!OrderedInv, Side!ReadInv, Side!BeatInv, Side!ReadStates
      <4>2. Side!Pushing \in {0, 1}
        BY DEF Side!Pushing
      <4> QED
        BY <4>1, <4>2
    <3>3. beat <= Wanted - 1 /\ item.cmd.len \in Nat
      <4>1. item.cmd.len \in Nat
        BY ItemTyped DEF Driven
      <4> QED
        BY <1>1, <3>2, <4>1, Numbers
    <3>4. Wanted \in Nat /\ slaveItems \in 0 .. Wanted
      BY Numbers
    <3>5. u = Wanted - slaveItems
      OBVIOUS
    <3> HIDE DEF u, Wanted
    <3> QED
      BY <3>1, <3>2, <3>3, <3>4, <3>5
  <2> QED
    BY <2>2, <2>3
<1> QED
  BY <1>3, <1>4, <1>5

\* A burst the APB side takes up is one it has not come to yet, and it comes to it once.
LEMMA TakenUpOnce ==
  ASSUME TbTrace, TbTrace', Driven, TbPclk
  PROVE  /\ Starts => Unstarted
         /\ Unstarted' => Unstarted /\ state = "IDLE"
<1> USE DEF TbTrace, ReadTraceInv, TrafficInv
<1>1. PclkEdge /\ UNCHANGED <<phase, awvalid, arvalid>>
  BY PclkIs
<1>2. ~CmdQueue!PopEmpty => cmdQueue # <<>>
  <2>1. cmdSeen \in Nat /\ cmdSeen <= Len(cmdQueue)
    BY DEF BridgeInv, QueuesSafe, Bracketed
  <2>2. cmdQueue = <<>> => Len(cmdQueue) = 0
    OBVIOUS
  <2>3. cmdQueue = <<>> => cmdSeen = 0
    BY <2>1, <2>2
  <2> QED
    BY <2>3 DEF CmdQueue!PopEmpty
<1>3. Starts => Unstarted
  BY <1>2 DEF Starts, Unstarted
<1>4. CASE state = "IDLE"
  <2>1. cmdQueue' = cmdQueue
    BY <1>1, <1>4, PclkMoves, AddrSpaceAssumption, Master!Path
  <2> QED
    BY <1>1, <1>3, <1>4, <2>1 DEF Unstarted
<1>5. CASE state # "IDLE"
  <2>1. /\ ~awvalid /\ ~arvalid
        /\ openWrites = <<item>> \/ openReads = <<item.cmd>>
    BY <1>5, DrivenIsOpen, ItemInHand
  <2>2. phase \notin {"sync", "drive"}
    BY <2>1 DEF Driven, Sending
  <2>3. state' = "IDLE" => cmdQueue' = <<>>
    BY <1>1, <1>5, DrivenIsOpen, QueueIsDone
  <2>4. ~Unstarted'
    BY <1>1, <2>1, <2>2, <2>3 DEF Unstarted
  <2> QED
    BY <1>3, <2>4
<1> QED
  BY <1>4, <1>5

LEMMA PclkKeepsSlave ==
  ASSUME TbTrace, TbTrace', Driven, SlaveInv, TbPclk
  PROVE  SlaveInv' /\ Wanted' = Wanted
<1>1. PclkEdge /\ PclkRecorded /\ item' = item
  BY PclkIs
<1>2. Wanted' = Wanted /\ item.cmd.write \in BOOLEAN
  BY <1>1, Numbers DEF Wanted
<1>3. /\ IsSetup <=> state \in {"WSEL", "RSEL"}
      /\ Apb!Pwrite <=> state \in {"WSEL", "WEN"}
  BY SetupIs
<1>4. slaveItems' = IF IsSetup THEN slaveItems - 1 ELSE slaveItems
  BY <1>3, PclkIs, SetupIsServed
<1>5. slaveItems' \in 0 .. Wanted
  <2>1. IsSetup => slaveItems > 0
    BY <1>3, SetupIsServed
  <2>2. slaveItems \in 0 .. Wanted /\ Wanted \in Nat
    BY Numbers
  <2> HIDE DEF Wanted, IsSetup
  <2> QED
    BY <1>4, <2>1, <2>2
<1>6. state' \in {"WEN", "REN"} <=> IsSetup
  BY <1>1, <1>3, SideFacts, SideAssumptions, Side!StateMoves
<1>7. /\ IsSeq(setup') /\ Len(setup') = One(state' \in {"WEN", "REN"})
      /\ setup' # <<>> => setup'[1].write = item.cmd.write
  <2>1. CASE IsSetup
    <3>1. setup = <<>> /\ item.cmd.write = (state = "WSEL")
      BY <1>3, <2>1, SetupIsServed
    <3>2. PICK x : setup' = <<x>> /\ x.write = Apb!Pwrite
      BY <2>1, <3>1, PclkIs
    <3>3. Len(setup') = 1 /\ setup'[1] = x /\ IsSeq(setup')
      BY <3>2, ShortLists
    <3>4. x.write = item.cmd.write
      BY <1>3, <2>1, <3>1, <3>2 DEF Apb!Pwrite
    <3> QED
      BY <1>6, <2>1, <3>3, <3>4 DEF One
  <2>2. CASE ~IsSetup
    <3>1. setup' = <<>>
      BY <2>2, PclkIs
    <3> QED
      BY <1>6, <2>2, <3>1, ShortLists DEF One
  <2> QED
    BY <2>1, <2>2
<1>8. Served'
  <2>1. PICK u \in Nat : u = Wanted - slaveItems
    BY Numbers
  <2>2. PICK v \in Nat : v = Wanted' - slaveItems'
    <3>1. Wanted' - slaveItems' \in Nat
      <4> DEFINE n == Wanted  m == Wanted'  k == slaveItems'
      <4>1. n \in Nat /\ m = n /\ k \in 0 .. n
        BY <1>2, <1>5, Numbers
      <4> HIDE DEF n, m, k
      <4>2. m - k \in Nat
        BY <4>1
      <4> QED
        BY <4>2 DEF m, k
    <3> QED
      BY <3>1
  <2>3. v = IF IsSetup THEN u + 1 ELSE u
    <3>1. Wanted \in Nat /\ slaveItems \in 0 .. Wanted
      BY Numbers
    <3> HIDE DEF Wanted, IsSetup
    <3> QED
      BY <1>2, <1>4, <2>1, <2>2, <3>1
  <2>4. Serves(u)
    BY <2>1 DEF SlaveInv, Served
  <2>5. /\ Starts => u = 0
        /\ Unstarted' => u = 0 /\ ~IsSetup
    BY <1>3, <2>1, TakenUpOnce DEF SlaveInv, Served
  <2>6. Serves(v)'
    <3>1. v = IF state \in {"WSEL", "RSEL"} THEN u + 1 ELSE u
      BY <1>3, <2>3
    <3> QED
      BY <1>1, <2>4, <2>5, <3>1, PclkServes
  <2>7. Serves(Wanted - slaveItems)'
    BY <2>2, <2>6 DEF Serves
  <2>8. Unstarted' => Wanted' - slaveItems' = 0
    BY <2>2, <2>3, <2>5
  <2> QED
    BY <2>7, <2>8 DEF Served
<1> QED
  BY <1>1, <1>2, <1>5, <1>7, <1>8 DEF SlaveInv

\* The accesses begun are counted on when the monitor hands one out.
LEMMA AccessedGrows ==
  ASSUME TbTrace, TbTrace', Driven, SlaveInv, TbPclk
  PROVE  /\ Accessed' = IF setup = <<>> THEN Accessed ELSE Accessed + 1
         /\ setup # <<>> => ~IsSetup
<1>1. /\ Len(setup') = IF IsSetup THEN 1 ELSE 0
      /\ setup # <<>> => ~IsSetup
      /\ slaveItems' = IF IsSetup THEN slaveItems - 1 ELSE slaveItems
  <2>1. IsSetup => setup = <<>> /\ slaveItems > 0
    BY SetupIs, SetupIsServed
  <2>2. CASE IsSetup
    <3>1. \E x : setup' = <<x>>
      BY <2>1, <2>2, PclkIs
    <3> QED
      BY <2>1, <2>2, <3>1, PclkIs, ShortLists
  <2>3. CASE ~IsSetup
    BY <2>3, PclkIs, ShortLists
  <2> QED
    BY <2>1, <2>2, <2>3
<1>2. /\ Wanted' = Wanted /\ Wanted \in Nat /\ slaveItems \in 0 .. Wanted
      /\ Len(setup) \in {0, 1} /\ (Len(setup) = 0 <=> setup = <<>>)
  BY PclkKeepsSlave, Numbers
<1>3. Accessed = Wanted - slaveItems - Len(setup) /\ Accessed' = Wanted' - slaveItems' - Len(setup')
  BY DEF Accessed
<1> DEFINE n == Wanted  m == Wanted'  a == Accessed  b == Accessed'
           l == Len(setup)  k == Len(setup')  i == slaveItems  j == slaveItems'
<1>4. /\ n \in Nat /\ m = n /\ i \in 0 .. n /\ l \in {0, 1}
      /\ a = n - i - l /\ b = m - j - k
  BY <1>2, <1>3
<1>5. /\ IsSetup => k = 1 /\ j = i - 1 /\ l = 0
      /\ ~IsSetup => k = 0 /\ j = i
  BY <1>1, <1>2
<1>6. (l = 0 => b = a) /\ (l = 1 => b = a + 1)
  <2> HIDE DEF n, m, a, b, l, k, i, j
  <2>1. CASE IsSetup
    BY <1>4, <1>5, <2>1
  <2>2. CASE ~IsSetup
    BY <1>4, <1>5, <2>2
  <2> QED
    BY <2>1, <2>2
<1> QED
  BY <1>1, <1>2, <1>6

\* A checker that is not done has the access in hand still before it.
LEMMA ChecksGrow ==
  ASSUME TbTrace, TbTrace', Driven, SlaveInv, TbPclk, HandedOut' <=> HandedOut,
         NEW handles, NEW q, NEW idx, NEW mine \in BOOLEAN, IsSeq(q),
         Checks(handles, q, idx, mine), NEW r,
         (setup # <<>> /\ mine) => \E x : r = Append(q, x),
         ~(setup # <<>> /\ mine) => r = q
  PROVE  /\ IsSeq(r)
         /\ IF ~mine THEN handles = 0 /\ r = <<>> /\ idx = 0
            ELSE IF ~HandedOut' THEN handles = 0 /\ idx = 0 /\ Len(r) = Accessed'
            ELSE \/ handles = 1 /\ idx \in 0 .. Wanted' - 1 /\ idx + Len(r) = Accessed'
                 \/ handles = 0 /\ idx = 0 /\ r = <<>> /\ Accessed' = Wanted'
<1>1. /\ Accessed' = IF setup = <<>> THEN Accessed ELSE Accessed + 1
      /\ Wanted' = Wanted /\ Wanted \in Nat /\ Accessed \in Int
      /\ setup # <<>> => Accessed <= Wanted - 1
  <2>1. Len(setup) \in {0, 1} /\ (Len(setup) = 0 <=> setup = <<>>) /\ Accessed <= Wanted - Len(setup)
    BY Numbers
  <2> QED
    BY <2>1, AccessedGrows, PclkKeepsSlave, Numbers
<1>2. CASE setup # <<>> /\ mine
  <2>1. PICK x : r = Append(q, x)
    BY <1>2
  <2>2. IsSeq(r) /\ Len(r) = Len(q) + 1 /\ Len(q) \in Nat
    BY <2>1, ListsGrow
  <2> DEFINE n == Wanted  m == Wanted'  a == Accessed  b == Accessed'  k == Len(q)  l == Len(r)
  <2>3. /\ b = a + 1 /\ m = n /\ n \in Nat /\ a \in Int /\ a <= n - 1 /\ l = k + 1 /\ k \in Nat
    BY <1>1, <1>2, <2>2
  <2>4. IF ~HandedOut THEN handles = 0 /\ idx = 0 /\ k = a
        ELSE \/ handles = 1 /\ idx \in 0 .. n - 1 /\ idx + k = a
             \/ handles = 0 /\ idx = 0 /\ q = <<>> /\ a = n
    BY <1>2 DEF Checks
  <2>5. IF ~HandedOut' THEN handles = 0 /\ idx = 0 /\ l = b
        ELSE handles = 1 /\ idx \in 0 .. m - 1 /\ idx + l = b
    <3> HIDE DEF n, m, a, b, k, l, HandedOut
    <3> QED
      BY <2>3, <2>4
  <2> QED
    BY <1>2, <2>2, <2>5
<1>3. CASE ~(setup # <<>> /\ mine)
  <2>1. r = q
    BY <1>3
  <2>2. mine => Accessed' = Accessed
    BY <1>1, <1>3
  <2> HIDE DEF Wanted, Accessed, HandedOut
  <2> QED
    BY <1>1, <2>1, <2>2 DEF Checks
<1> QED
  BY <1>2, <1>3

LEMMA PclkKeepsTb == ASSUME TbTrace, TbTrace', TbInv, TbPclk PROVE TbInv'
<1>1. /\ UNCHANGED <<item, phase, wrT, rdT, wrCnt, rdCnt, awvalid, arvalid, openWrites, toSend,
                     openReads, beatsGot>>
      /\ UNCHANGED <<axiWrites, axiReads, writeIdx, readIdx, toCover>>
      /\ setup = <<>> => UNCHANGED <<apbWriteQ, apbReadQ, apbToCover>>
      /\ (setup # <<>> /\ setup[1].write = TRUE) =>
           (\E x : apbWriteQ' = Append(apbWriteQ, x)) /\ apbReadQ' = apbReadQ
      /\ (setup # <<>> /\ setup[1].write = FALSE) =>
           (\E x : apbReadQ' = Append(apbReadQ, x)) /\ apbWriteQ' = apbWriteQ
      /\ setup # <<>> => apbToCover' = apbToCover + 1
  BY PclkIs, PclkObservers
<1>2. CASE Clean
  <2>1. Clean'
    BY <1>2, PclkKeepsClean
  <2>2. setup = <<>>
    BY <1>2 DEF Clean
  <2>3. Counters'
    BY <1>1, <2>2 DEF TbInv, Counters
  <2> QED
    BY <2>1, <2>3 DEF TbInv
<1>3. CASE Busy
  <2> USE <1>3 DEF Busy
  <2>1. SlaveInv' /\ Wanted' = Wanted
    BY PclkKeepsSlave
  <2>2. Driven'
    BY <1>1 DEF Driven, Sending, Wanted
  <2>3. HandedOut' <=> HandedOut
    BY <1>1 DEF HandedOut
  <2>4. HandlesInv'
    BY <1>1 DEF HandlesInv, HandedOut, Wanted
  <2>5. item.cmd.write \in BOOLEAN /\ (setup # <<>> => setup[1].write = item.cmd.write)
    BY Numbers DEF SlaveInv
  <2>6. IsSeq(apbWriteQ) /\ IsSeq(apbReadQ)
    BY DEF TbInv, Counters
  <2>7. IsSeq(apbWriteQ') /\ Checks(axiWrites, apbWriteQ, writeIdx, item.cmd.write)'
    <3>1. /\ (setup # <<>> /\ item.cmd.write) => \E x : apbWriteQ' = Append(apbWriteQ, x)
          /\ ~(setup # <<>> /\ item.cmd.write) => apbWriteQ' = apbWriteQ
      BY <1>1, <2>5
    <3>2. Checks(axiWrites, apbWriteQ, writeIdx, item.cmd.write)
      BY DEF ScbInv
    <3>3. /\ IsSeq(apbWriteQ')
          /\ IF ~item.cmd.write THEN axiWrites = 0 /\ apbWriteQ' = <<>> /\ writeIdx = 0
             ELSE IF ~HandedOut' THEN axiWrites = 0 /\ writeIdx = 0 /\ Len(apbWriteQ') = Accessed'
             ELSE \/ /\ axiWrites = 1 /\ writeIdx \in 0 .. Wanted' - 1
                     /\ writeIdx + Len(apbWriteQ') = Accessed'
                  \/ axiWrites = 0 /\ writeIdx = 0 /\ apbWriteQ' = <<>> /\ Accessed' = Wanted'
      <4> DEFINE mine == item.cmd.write
      <4>1. /\ mine \in BOOLEAN /\ Checks(axiWrites, apbWriteQ, writeIdx, mine)
            /\ (setup # <<>> /\ mine) => \E x : apbWriteQ' = Append(apbWriteQ, x)
            /\ ~(setup # <<>> /\ mine) => apbWriteQ' = apbWriteQ
        BY <2>5, <3>1, <3>2
      <4> HIDE DEF mine, Wanted, Accessed, HandedOut, Checks, Busy
      <4>2. /\ IsSeq(apbWriteQ')
            /\ IF ~mine THEN axiWrites = 0 /\ apbWriteQ' = <<>> /\ writeIdx = 0
               ELSE IF ~HandedOut' THEN axiWrites = 0 /\ writeIdx = 0 /\ Len(apbWriteQ') = Accessed'
               ELSE \/ /\ axiWrites = 1 /\ writeIdx \in 0 .. Wanted' - 1
                       /\ writeIdx + Len(apbWriteQ') = Accessed'
                    \/ axiWrites = 0 /\ writeIdx = 0 /\ apbWriteQ' = <<>> /\ Accessed' = Wanted'
        <5>1. Driven /\ SlaveInv
          BY DEF Busy
        <5> QED
          BY <2>3, <2>6, <4>1, <5>1, ChecksGrow
      <4> QED
        BY <4>2 DEF mine
    <3> QED
      BY <1>1, <3>3 DEF Checks
  <2>8. IsSeq(apbReadQ') /\ Checks(axiReads, apbReadQ, readIdx, ~item.cmd.write)'
    <3>1. /\ (setup # <<>> /\ ~item.cmd.write) => \E x : apbReadQ' = Append(apbReadQ, x)
          /\ ~(setup # <<>> /\ ~item.cmd.write) => apbReadQ' = apbReadQ
      BY <1>1, <2>5
    <3>2. Checks(axiReads, apbReadQ, readIdx, ~item.cmd.write)
      BY DEF ScbInv
    <3>3. /\ IsSeq(apbReadQ')
          /\ IF item.cmd.write THEN axiReads = 0 /\ apbReadQ' = <<>> /\ readIdx = 0
             ELSE IF ~HandedOut' THEN axiReads = 0 /\ readIdx = 0 /\ Len(apbReadQ') = Accessed'
             ELSE \/ /\ axiReads = 1 /\ readIdx \in 0 .. Wanted' - 1
                     /\ readIdx + Len(apbReadQ') = Accessed'
                  \/ axiReads = 0 /\ readIdx = 0 /\ apbReadQ' = <<>> /\ Accessed' = Wanted'
      <4> DEFINE mine == ~item.cmd.write
      <4>1. /\ mine \in BOOLEAN /\ Checks(axiReads, apbReadQ, readIdx, mine)
            /\ (setup # <<>> /\ mine) => \E x : apbReadQ' = Append(apbReadQ, x)
            /\ ~(setup # <<>> /\ mine) => apbReadQ' = apbReadQ
            /\ (item.cmd.write <=> ~mine)
        BY <2>5, <3>1, <3>2
      <4> HIDE DEF mine, Wanted, Accessed, HandedOut, Checks, Busy
      <4>2. /\ IsSeq(apbReadQ')
            /\ IF ~mine THEN axiReads = 0 /\ apbReadQ' = <<>> /\ readIdx = 0
               ELSE IF ~HandedOut' THEN axiReads = 0 /\ readIdx = 0 /\ Len(apbReadQ') = Accessed'
               ELSE \/ /\ axiReads = 1 /\ readIdx \in 0 .. Wanted' - 1
                       /\ readIdx + Len(apbReadQ') = Accessed'
                    \/ axiReads = 0 /\ readIdx = 0 /\ apbReadQ' = <<>> /\ Accessed' = Wanted'
        <5>1. Driven /\ SlaveInv
          BY DEF Busy
        <5> QED
          BY <2>3, <2>6, <4>1, <5>1, ChecksGrow
      <4> QED
        BY <4>1, <4>2
    <3> QED
      BY <1>1, <3>3 DEF Checks
  <2>9. CoverInv'
    <3>1. /\ Accessed' = IF setup = <<>> THEN Accessed ELSE Accessed + 1
          /\ Accessed \in Int /\ apbToCover \in Nat
      BY AccessedGrows, Numbers DEF TbInv, Counters
    <3>2. apbToCover >= Accessed => apbToCover' >= Accessed'
      <4> HIDE DEF Accessed, Busy
      <4> QED
        BY <1>1, <3>1
    <3> QED
      BY <1>1, <2>3, <3>2 DEF CoverInv
  <2>10. Counters'
    <3>1. apbToCover' \in Nat
      BY <1>1 DEF TbInv, Counters
    <3> QED
      BY <1>1, <2>7, <2>8, <3>1 DEF TbInv, Counters
  <2> QED
    BY <2>1, <2>2, <2>4, <2>7, <2>8, <2>9, <2>10 DEF TbInv, Busy, ScbInv
<1> QED
  BY <1>2, <1>3 DEF TbInv

----------------------------------------------------------------------------
(* Between the edges.                                                         *)

\* A checker that may not take a beat has none to take, once all accesses are begun.
LEMMA NothingToCheck ==
  ASSUME NEW handles, NEW q, NEW idx, NEW mine \in BOOLEAN, Checks(handles, q, idx, mine),
         IsSeq(q), HandedOut, Accessed = Wanted, Wanted \in Nat, ~(handles > 0 /\ q # <<>>)
  PROVE  handles = 0 /\ q = <<>> /\ idx = 0
<1>1. CASE ~mine
  BY <1>1 DEF Checks
<1>2. CASE mine
  <2> DEFINE n == Wanted  a == Accessed  k == Len(q)
  <2>1. \/ handles = 1 /\ idx \in 0 .. n - 1 /\ idx + k = a
        \/ handles = 0 /\ idx = 0 /\ q = <<>>
    BY <1>2 DEF Checks
  <2>2. k \in Nat /\ (k = 0 <=> q = <<>>) /\ n \in Nat /\ a = n
    BY ListsGrow
  <2>3. ~(handles = 1 /\ q # <<>>)
    OBVIOUS
  <2>4. ~(handles = 1 /\ idx \in 0 .. n - 1 /\ idx + k = a)
    <3> HIDE DEF n, a, k
    <3> QED
      BY <2>2, <2>3
  <2> QED
    BY <2>1, <2>4
<1> QED
  BY <1>1, <1>2

\* A burst that is over, and looked into by every observer, leaves nothing behind.
LEMMA RestsClean ==
  ASSUME TbTrace, TbInv, phase = "idle", slaveItems = 0, Settled
  PROVE  Clean
<1> SUFFICES ASSUME Busy PROVE Clean
  BY DEF TbInv
<1> USE DEF Busy
<1>1. openWrites = <<>> /\ openReads = <<>>
  BY DEF Driven, Sending
<1>2. toSend = <<>> /\ state = "IDLE"
  BY <1>1, NoWriteNoWord, BridgeRests
<1>3. setup = <<>> /\ Len(setup) = 0
  <2>1. Len(setup) = 0
    BY <1>2 DEF SlaveInv, One
  <2> QED
    BY <2>1, Numbers
<1>4. Wanted \in Nat \ {0} /\ Accessed = Wanted /\ item.cmd.write \in BOOLEAN
  <2>1. Wanted \in Nat \ {0}
    BY Numbers
  <2> HIDE DEF Wanted
  <2> QED
    BY <1>3, <2>1, Numbers DEF Accessed
<1>5. HandedOut
  BY <1>1, <1>2 DEF HandedOut
<1>6. /\ Checks(axiWrites, apbWriteQ, writeIdx, item.cmd.write)
      /\ Checks(axiReads, apbReadQ, readIdx, ~item.cmd.write)
      /\ IsSeq(apbWriteQ) /\ IsSeq(apbReadQ)
  BY DEF ScbInv, TbInv, Counters
<1>7. axiWrites = 0 /\ apbWriteQ = <<>> /\ writeIdx = 0
  <2>1. ~(axiWrites > 0 /\ apbWriteQ # <<>>)
    BY DEF Settled, Scb!CanCheckWrite
  <2> DEFINE mine == item.cmd.write
  <2>2. mine \in BOOLEAN /\ Checks(axiWrites, apbWriteQ, writeIdx, mine) /\ Wanted \in Nat
    BY <1>4, <1>6
  <2> HIDE DEF mine, Wanted, Accessed, HandedOut, Checks
  <2> QED
    BY <1>4, <1>5, <1>6, <2>1, <2>2, NothingToCheck
<1>8. axiReads = 0 /\ apbReadQ = <<>> /\ readIdx = 0
  <2>1. ~(axiReads > 0 /\ apbReadQ # <<>>)
    BY DEF Settled, Scb!CanCheckRead
  <2> DEFINE mine == ~item.cmd.write
  <2>2. mine \in BOOLEAN /\ Checks(axiReads, apbReadQ, readIdx, mine) /\ Wanted \in Nat
    BY <1>4, <1>6
  <2> HIDE DEF mine, Wanted, Accessed, HandedOut, Checks
  <2> QED
    BY <1>4, <1>5, <1>6, <2>1, <2>2, NothingToCheck
<1>9. toCover = <<>>
  <2>1. toCover # <<>> => apbToCover > 0
    <3>1. toCover # <<>> => apbToCover >= Accessed
      BY DEF CoverInv
    <3>2. apbToCover \in Nat
      BY DEF TbInv, Counters
    <3> HIDE DEF Wanted, Accessed
    <3> QED
      BY <1>4, <3>1, <3>2
  <2> QED
    BY <2>1 DEF Settled, Cover!CanSample
<1>10. wrCnt = 0
  BY <1>2 DEF HandlesInv
<1> QED
  BY <1>1, <1>2, <1>3, <1>7, <1>8, <1>9, <1>10 DEF Clean, Scb!NothingWaits

LEMMA NextItemKeepsTb == ASSUME TbTrace, TbInv, NextItem PROVE TbInv'
<1>1. Clean
  BY RestsClean DEF NextItem
<1>2. PICK t \in Items : Axi!Take(t) /\ slaveItems' = t.cmd.len + 1
  BY DEF NextItem
<1>3. /\ item' = t /\ phase' = "sync" /\ slaveItems' = t.cmd.len + 1
      /\ UNCHANGED <<historyVars, wrT, rdT, wrCnt, rdCnt, setup, axiWrites, axiReads,
                     apbWriteQ, apbReadQ, writeIdx, readIdx, toCover, apbToCover>>
  BY <1>2 DEF NextItem, Axi!Take, monitorVars, observers, scbVars, coverVars
<1>4. UNCHANGED <<openWrites, openReads, toSend, beatsGot, state, beat, popped, awvalid, arvalid,
                  cmdQueue>>
  <2>1. UNCHANGED vars /\ popped' = popped
    BY <1>3 DEF historyVars, record
  <2> QED
    BY <2>1 DEF vars, channels, queues, registers, cmdVars, partners
<1>5. /\ Wanted' = t.cmd.len + 1 /\ Wanted' \in Nat \ {0} /\ slaveItems' = Wanted'
      /\ t.cmd.write \in BOOLEAN
  <2>1. t.cmd.len \in Nat /\ t.cmd.write \in BOOLEAN
    BY ItemTyped
  <2> QED
    BY <1>3, <2>1 DEF Wanted
<1>6. /\ openWrites = <<>> /\ openReads = <<>> /\ toSend = <<>> /\ setup = <<>> /\ wrCnt = 0
      /\ axiWrites = 0 /\ axiReads = 0 /\ apbWriteQ = <<>> /\ apbReadQ = <<>>
      /\ writeIdx = 0 /\ readIdx = 0 /\ toCover = <<>>
  BY <1>1 DEF Clean, Scb!NothingWaits
<1>7. state = "IDLE"
  BY <1>6, BridgeRests
<1>8. beatsGot = 0 /\ apbToCover \in Nat
  BY <1>6 DEF TbInv, Counters
<1>9. Len(<<>>) = 0 /\ IsSeq(<<>>)
  BY ShortLists
<1>10. Counters'
  BY <1>3, <1>4 DEF TbInv, Counters
<1>11. Driven'
  <2>1. Len(toSend') = 0 /\ Len(toSend') <= Wanted'
    <3>1. Len(toSend') = 0
      BY <1>4, <1>6, <1>9
    <3> HIDE DEF Wanted
    <3> QED
      BY <1>5, <3>1
  <2> QED
    BY <1>3, <1>4, <1>6, <2>1 DEF Driven, Sending
<1>12. Wanted' - slaveItems' = 0 /\ Accessed' = 0
  <2>1. Len(setup') = 0
    BY <1>3, <1>6, <1>9
  <2>2. Accessed' = Wanted' - slaveItems' - Len(setup')
    BY DEF Accessed
  <2> HIDE DEF Wanted, Accessed
  <2> QED
    BY <1>5, <2>1, <2>2
<1>13. SlaveInv'
  <2>1. Served'
    BY <1>4, <1>7, <1>12 DEF Served, Serves
  <2>2. slaveItems' \in 0 .. Wanted'
    <3> HIDE DEF Wanted
    <3> QED
      BY <1>5
  <2> QED
    BY <1>3, <1>4, <1>6, <1>7, <1>9, <2>1, <2>2 DEF SlaveInv, One
<1>14. ~HandedOut'
  BY <1>3 DEF HandedOut
<1>15. HandlesInv'
  <2>1. wrCnt' = 0 /\ toSend' = <<>> /\ beatsGot' = 0 /\ phase' \notin {"idle", "addr", "answer"}
    BY <1>3, <1>4, <1>6, <1>8
  <2> HIDE DEF HandedOut
  <2> QED
    BY <1>14, <2>1 DEF HandlesInv
<1>16. ScbInv'
  <2>1. /\ axiWrites' = 0 /\ apbWriteQ' = <<>> /\ writeIdx' = 0 /\ Len(apbWriteQ') = Accessed'
        /\ axiReads' = 0 /\ apbReadQ' = <<>> /\ readIdx' = 0 /\ Len(apbReadQ') = Accessed'
    BY <1>3, <1>6, <1>9, <1>12
  <2> HIDE DEF HandedOut, Accessed, Wanted
  <2> QED
    BY <1>14, <2>1 DEF ScbInv, Checks
<1>17. CoverInv'
  <2>1. toCover' = <<>> /\ apbToCover' >= Accessed'
    BY <1>3, <1>6, <1>8, <1>12
  <2> QED
    BY <2>1 DEF CoverInv
<1> QED
  BY <1>10, <1>11, <1>13, <1>15, <1>16, <1>17 DEF TbInv, Busy

\* The driver starts on the item: its words are to be sent, or its read is open.
LEMMA DriveItemIs ==
  ASSUME TbTrace, Driven, DriveItem
  PROVE  /\ openWrites = <<>> /\ openReads = <<>> /\ toSend = <<>> /\ state = "IDLE"
         /\ phase = "drive" /\ phase' = "addr"
         /\ UNCHANGED <<item, registers, popped, slaveItems, setup, beatsGot, wrT, rdT, wrCnt,
                        rdCnt, observers>>
         /\ IF item.cmd.write
            THEN /\ awvalid' = TRUE /\ openWrites' = <<item>> /\ openReads' = <<>>
                 /\ Len(toSend') = Wanted
                 /\ \A i \in 1 .. Len(toSend') : toSend'[i].last <=> i = Len(toSend')
            ELSE /\ arvalid' = TRUE /\ openWrites' = <<>> /\ openReads' = <<item.cmd>>
                 /\ toSend' = <<>>
<1>1. /\ phase = "drive" /\ phase' = "addr" /\ item' = item
      /\ UNCHANGED <<record, slaveItems, setup, wrT, rdT, wrCnt, rdCnt, observers>>
  BY DEF DriveItem, Axi!Drive, monitorVars, slaveVars
<1>2. openWrites = <<>> /\ openReads = <<>>
  BY <1>1 DEF Driven, Sending
<1>3. toSend = <<>> /\ state = "IDLE"
  BY <1>2, NoWriteNoWord, BridgeRests
<1>4. popped' = popped
  BY <1>1 DEF record
<1>5. CASE item.cmd.write
  <2>1. SendWrite /\ openWrites' = Append(openWrites, item)
    BY <1>5 DEF DriveItem
  <2>2. /\ UNCHANGED <<registers, openReads, beatsGot>> /\ awvalid' = TRUE
        /\ \E b \in WriteBursts : openWrites' = Append(openWrites, b)
                                  /\ toSend' = toSend \o WordsOf(b)
    BY <2>1 DEF SendWrite, Arb!SendWrite
  <2>3. PICK b \in WriteBursts : openWrites' = Append(openWrites, b)
                                 /\ toSend' = toSend \o WordsOf(b)
    BY <2>2
  <2>4. openWrites' = <<item>> /\ openWrites' = <<b>>
    BY <1>2, <2>1, <2>3
  <2>5. b = item
    BY <2>4
  <2>6. /\ WordsOf(item) \in Seq(SentWords) /\ Len(WordsOf(item)) = Wanted
        /\ item.cmd.len \in Nat
        /\ \A i \in 1 .. Wanted : WordsOf(item)[i] = WordAt(item, i - 1)
    BY <2>5, WordsOfBurst DEF Wanted
  <2>7. toSend' = WordsOf(item)
    BY <1>3, <2>3, <2>5, <2>6
  <2>8. ASSUME NEW i \in 1 .. Len(toSend')
        PROVE  toSend'[i].last <=> i = Len(toSend')
    <3>1. toSend'[i] = WordAt(item, i - 1) /\ Len(toSend') = Wanted
      BY <2>6, <2>7
    <3>2. toSend'[i].last = (i - 1 = item.cmd.len)
      BY <3>1 DEF WordAt
    <3>3. i \in Int /\ Wanted = item.cmd.len + 1
      BY DEF Wanted
    <3>4. i - 1 = item.cmd.len <=> i = Wanted
      BY <2>6, <3>3
    <3> QED
      BY <3>1, <3>2, <3>4
  <2> QED
    BY <1>1, <1>2, <1>3, <1>4, <1>5, <2>2, <2>4, <2>6, <2>7, <2>8
<1>6. CASE ~item.cmd.write
  <2>1. SendRead /\ ar' = item.cmd
    BY <1>6 DEF DriveItem
  <2>2. /\ UNCHANGED <<registers, openWrites, toSend, beatsGot>> /\ arvalid' = TRUE
        /\ openReads' = Append(openReads, ar')
    BY <2>1 DEF SendRead, Arb!SendRead
  <2>3. openReads' = <<item.cmd>>
    BY <1>2, <2>1, <2>2
  <2> QED
    BY <1>1, <1>2, <1>3, <1>4, <1>6, <2>2, <2>3
<1> QED
  BY <1>5, <1>6

LEMMA DriveItemKeepsTb == ASSUME TbTrace, TbInv, DriveItem PROVE TbInv'
<1>1. Busy
  BY DEF DriveItem, Axi!Drive, TbInv, Clean
<1> USE <1>1 DEF Busy
<1>2. /\ openWrites = <<>> /\ openReads = <<>> /\ toSend = <<>> /\ state = "IDLE"
      /\ phase = "drive" /\ phase' = "addr"
      /\ UNCHANGED <<item, registers, popped, slaveItems, setup, beatsGot, wrT, rdT, wrCnt,
                     rdCnt, observers>>
      /\ IF item.cmd.write
         THEN /\ awvalid' = TRUE /\ openWrites' = <<item>> /\ openReads' = <<>>
              /\ Len(toSend') = Wanted
              /\ \A i \in 1 .. Len(toSend') : toSend'[i].last <=> i = Len(toSend')
         ELSE /\ arvalid' = TRUE /\ openWrites' = <<>> /\ openReads' = <<item.cmd>>
              /\ toSend' = <<>>
  BY DriveItemIs
<1>3. UNCHANGED <<state, beat, axiWrites, axiReads, apbWriteQ, apbReadQ, writeIdx, readIdx,
                  toCover, apbToCover>>
  BY <1>2 DEF registers, observers, scbVars, coverVars
<1>4. /\ Wanted' = Wanted /\ Wanted \in Nat \ {0} /\ item.cmd.write \in BOOLEAN
      /\ Accessed' = Accessed
  BY <1>2, Numbers DEF Wanted, Accessed
<1>5. beatsGot = 0 /\ wrCnt = 0 /\ ~HandedOut
  BY <1>2 DEF TbInv, Counters, HandlesInv, HandedOut
<1>6. /\ item.cmd.write => toSend' # <<>>
      /\ ~item.cmd.write => openReads' # <<>>
  <2>1. item.cmd.write => Len(toSend') # 0
    BY <1>2, <1>4
  <2> QED
    BY <1>2, <2>1
<1>7. ~HandedOut'
  BY <1>2, <1>4, <1>6 DEF HandedOut
<1>8. Counters'
  BY <1>2, <1>3, <1>5 DEF TbInv, Counters
<1>9. Driven'
  <2>1. Len(toSend') <= Wanted' /\ \A i \in 1 .. Len(toSend') : toSend'[i].last <=> i = Len(toSend')
    <3>1. CASE item.cmd.write
      <4>1. Len(toSend') = Wanted' /\ Wanted' \in Nat
        BY <1>2, <1>4, <3>1
      <4>2. Len(toSend') <= Wanted'
        BY <4>1
      <4> QED
        BY <1>2, <3>1, <4>2
    <3>2. CASE ~item.cmd.write
      <4>1. Len(toSend') = 0
        BY <1>2, <3>2, ShortLists
      <4>2. Len(toSend') <= Wanted'
        <5> HIDE DEF Wanted
        <5> QED
          BY <1>4, <4>1
      <4> QED
        BY <4>1, <4>2
    <3> QED
      BY <3>1, <3>2
  <2> QED
    BY <1>2, <1>4, <2>1 DEF Driven, Sending
<1>10. SlaveInv'
  <2>1. Unstarted
    BY <1>2 DEF Unstarted
  <2>2. Wanted' - slaveItems' = 0
    BY <1>2, <1>4, <2>1 DEF SlaveInv, Served
  <2>3. Served'
    BY <1>2, <1>3, <2>2 DEF Served, Serves
  <2> QED
    BY <1>2, <1>3, <1>4, <2>3 DEF SlaveInv
<1>11. HandlesInv'
  <2>1. wrCnt' = IF toSend' = <<>> THEN 0 ELSE Wanted' - Len(toSend')
    <3>1. CASE item.cmd.write
      <4>1. Wanted' - Len(toSend') = 0
        <5> DEFINE n == Wanted  m == Wanted'  k == Len(toSend')
        <5>1. n \in Nat /\ m = n /\ k = n
          BY <1>2, <1>4, <3>1
        <5> HIDE DEF n, m, k
        <5>2. m - k = 0
          BY <5>1
        <5> QED
          BY <5>2 DEF m, k
      <4> QED
        BY <1>2, <1>5, <1>6, <3>1, <4>1
    <3>2. CASE ~item.cmd.write
      BY <1>2, <1>5, <3>2
    <3> QED
      BY <3>1, <3>2
  <2>2. /\ item.cmd.write => awvalid'
        /\ ~item.cmd.write => arvalid'
        /\ wrCnt' = 0 /\ beatsGot' = 0 /\ item' = item
    BY <1>2, <1>5
  <2> HIDE DEF HandedOut, Wanted
  <2> QED
    BY <1>7, <2>1, <2>2 DEF HandlesInv
<1>12. ScbInv' /\ CoverInv'
  <2> HIDE DEF HandedOut, Wanted, Accessed
  <2> QED
    BY <1>2, <1>3, <1>4, <1>5, <1>7 DEF ScbInv, Checks, CoverInv
<1> QED
  BY <1>8, <1>9, <1>10, <1>11, <1>12 DEF TbInv

\* One turn of a checker that has a handle and an access.
LEMMA OneTurn ==
  ASSUME Driven, SlaveInv, NEW handles, NEW q, NEW idx, NEW mine \in BOOLEAN,
         Checks(handles, q, idx, mine), IsSeq(q), handles > 0, q # <<>>
  PROVE  /\ mine /\ HandedOut /\ IsSeq(Tail(q)) /\ handles = 1 /\ idx \in 0 .. Wanted - 1
         /\ IF idx + 1 >= Wanted
            THEN Tail(q) = <<>> /\ Accessed = Wanted
            ELSE idx + 1 \in 0 .. Wanted - 1 /\ idx + 1 + Len(Tail(q)) = Accessed
<1>1. ~(0 > 0)
  OBVIOUS
<1>2. mine /\ HandedOut /\ handles = 1 /\ idx \in 0 .. Wanted - 1 /\ idx + Len(q) = Accessed
  BY <1>1 DEF Checks
<1>3. /\ IsSeq(Tail(q)) /\ Len(Tail(q)) = Len(q) - 1 /\ Len(q) \in Nat /\ Len(q) # 0
      /\ (Len(Tail(q)) = 0 <=> Tail(q) = <<>>)
  <2>1. IsSeq(Tail(q)) /\ Len(Tail(q)) = Len(q) - 1 /\ Len(q) \in Nat /\ Len(q) # 0
    BY ListsGrow
  <2> QED
    BY <2>1, ListsGrow
<1>4. Wanted \in Nat \ {0} /\ Accessed \in Int /\ Accessed <= Wanted
  <2>1. Len(setup) \in {0, 1} /\ Accessed <= Wanted - Len(setup) /\ Wanted \in Nat \ {0}
        /\ Accessed \in Int
    BY Numbers
  <2> DEFINE l == Len(setup)
  <2>2. l \in {0, 1} /\ Accessed <= Wanted - l
    BY <2>1
  <2> HIDE DEF Wanted, Accessed, l
  <2> QED
    BY <2>1, <2>2
<1> DEFINE n == Wanted  a == Accessed  k == Len(q)  l == Len(Tail(q))
<1>5. /\ idx \in 0 .. n - 1 /\ idx + k = a /\ n \in Nat \ {0} /\ a \in Int /\ a <= n
      /\ k \in Nat /\ k # 0 /\ l = k - 1
  BY <1>2, <1>3, <1>4
<1>6. IF idx + 1 >= n THEN l = 0 /\ a = n ELSE idx + 1 \in 0 .. n - 1 /\ idx + 1 + l = a
  <2> HIDE DEF n, a, k, l
  <2> QED
    BY <1>5
<1> QED
  BY <1>2, <1>3, <1>6

\* The handle a checker looks into is all of the burst.
LEMMA HandleLooked ==
  ASSUME TbInv
  PROVE  /\ Scb!CanCheckWrite => /\ Busy /\ item.cmd.write = TRUE /\ HandedOut
                                 /\ Len(wrT.data) = Wanted
         /\ Scb!CanCheckRead => /\ Busy /\ item.cmd.write = FALSE /\ HandedOut
                                /\ Len(rdT.data) = Wanted
<1>1. ~(0 > 0)
  OBVIOUS
<1>2. Scb!CanCheckWrite \/ Scb!CanCheckRead => Busy
  BY <1>1 DEF TbInv, Clean, Scb!NothingWaits, Scb!CanCheckWrite, Scb!CanCheckRead
<1>3. ASSUME Scb!CanCheckWrite
      PROVE  item.cmd.write = TRUE /\ HandedOut /\ Len(wrT.data) = Wanted
  <2>1. Busy /\ axiWrites > 0
    BY <1>2, <1>3 DEF Scb!CanCheckWrite
  <2>2. item.cmd.write /\ HandedOut
    BY <1>1, <2>1 DEF Busy, ScbInv, Checks
  <2>3. item.cmd.write \in BOOLEAN
    BY <2>1, Numbers DEF Busy
  <2> QED
    BY <2>1, <2>2, <2>3 DEF Busy, HandlesInv
<1>4. ASSUME Scb!CanCheckRead
      PROVE  item.cmd.write = FALSE /\ HandedOut /\ Len(rdT.data) = Wanted
  <2>1. Busy /\ axiReads > 0
    BY <1>2, <1>4 DEF Scb!CanCheckRead
  <2>2. ~item.cmd.write /\ HandedOut
    BY <1>1, <2>1 DEF Busy, ScbInv, Checks
  <2>3. item.cmd.write \in BOOLEAN
    BY <2>1, Numbers DEF Busy
  <2> QED
    BY <2>1, <2>2, <2>3 DEF Busy, HandlesInv
<1> QED
  BY <1>2, <1>3, <1>4

\* What neither the checkers nor the coverage collector touches.
Untouched ==
  UNCHANGED <<phase, openWrites, openReads, toSend, beatsGot, awvalid, arvalid, cmdQueue, state,
              beat, popped, popRequest, writeLastReg, writeBuffEmpty, item, slaveItems, setup,
              wrT, rdT, wrCnt, rdCnt>>

LEMMA ObserversOnly == UNCHANGED <<historyVars, agents>> => Untouched
<1> SUFFICES ASSUME UNCHANGED <<historyVars, agents>> PROVE Untouched
  OBVIOUS
<1>1. UNCHANGED <<phase, item, slaveItems, setup, wrT, rdT, wrCnt, rdCnt>>
  BY DEF agents, driverVars, monitorVars, slaveVars
<1>2. UNCHANGED <<channels, queues, registers, partners, popped>>
  BY DEF historyVars, record, vars
<1>3. UNCHANGED <<openWrites, openReads, toSend, beatsGot, awvalid, arvalid, cmdQueue>>
  BY <1>2 DEF channels, queues, cmdVars, partners
<1>4. UNCHANGED <<state, beat, popRequest, writeLastReg, writeBuffEmpty>>
  BY <1>2 DEF registers
<1> QED
  BY <1>1, <1>2, <1>3, <1>4 DEF Untouched

LEMMA UntouchedKeeps ==
  ASSUME Untouched, Driven, SlaveInv, HandlesInv
  PROVE  /\ Driven' /\ SlaveInv' /\ HandlesInv' /\ Wanted' = Wanted /\ Accessed' = Accessed
         /\ HandedOut' <=> HandedOut
<1> USE DEF Untouched
<1>1. Wanted' = Wanted /\ Accessed' = Accessed
  BY DEF Wanted, Accessed
<1>2. HandedOut' <=> HandedOut
  BY DEF HandedOut
<1>3. Driven'
  BY <1>1 DEF Driven, Sending
<1>4. Served'
  <2>1. Side!Stale' = Side!Stale
    BY DEF Side!Stale
  <2> QED
    BY <1>1, <2>1 DEF SlaveInv, Served, Serves, Unstarted
<1>5. SlaveInv'
  BY <1>1, <1>4 DEF SlaveInv
<1>6. HandlesInv'
  <2> HIDE DEF HandedOut, Wanted
  <2> QED
    BY <1>1, <1>2 DEF HandlesInv
<1> QED
  BY <1>1, <1>2, <1>3, <1>5, <1>6

LEMMA CheckWriteKeepsTb ==
  ASSUME TbInv, Scb!CheckWrite, UNCHANGED <<historyVars, agents, coverVars>>
  PROVE  TbInv'
<1>1. /\ Scb!CanCheckWrite /\ axiWrites > 0 /\ apbWriteQ # <<>> /\ apbWriteQ' = Tail(apbWriteQ)
      /\ UNCHANGED <<axiReads, apbReadQ, readIdx>>
      /\ writeIdx' = IF writeIdx + 1 >= Len(wrT.data) THEN 0 ELSE writeIdx + 1
      /\ axiWrites' = IF writeIdx + 1 >= Len(wrT.data) THEN axiWrites - 1 ELSE axiWrites
  BY DEF Scb!CheckWrite, Scb!CanCheckWrite
<1>2. Busy /\ item.cmd.write = TRUE /\ HandedOut /\ Len(wrT.data) = Wanted
  BY <1>1, HandleLooked
<1>3. Untouched /\ UNCHANGED <<toCover, apbToCover>>
  BY ObserversOnly DEF coverVars
<1>4. Driven /\ SlaveInv /\ HandlesInv /\ ScbInv /\ CoverInv
  BY <1>2 DEF Busy
<1>5. /\ Driven' /\ SlaveInv' /\ HandlesInv' /\ Wanted' = Wanted /\ Accessed' = Accessed
      /\ HandedOut' <=> HandedOut
  BY <1>3, <1>4, UntouchedKeeps
<1>6. IsSeq(apbWriteQ) /\ Checks(axiWrites, apbWriteQ, writeIdx, item.cmd.write)
  BY <1>4 DEF TbInv, Counters, ScbInv
<1>7. /\ IsSeq(Tail(apbWriteQ)) /\ axiWrites = 1 /\ writeIdx \in 0 .. Wanted - 1
      /\ IF writeIdx + 1 >= Wanted
         THEN Tail(apbWriteQ) = <<>> /\ Accessed = Wanted
         ELSE /\ writeIdx + 1 \in 0 .. Wanted - 1
              /\ writeIdx + 1 + Len(Tail(apbWriteQ)) = Accessed
  <2> DEFINE mine == item.cmd.write
  <2>1. mine \in BOOLEAN /\ Checks(axiWrites, apbWriteQ, writeIdx, mine)
    BY <1>2, <1>6
  <2> HIDE DEF mine, Wanted, Accessed, HandedOut, Checks, Driven, SlaveInv
  <2> QED
    BY <1>1, <1>4, <1>6, <2>1, OneTurn
<1>8. item' = item
  BY <1>3 DEF Untouched
<1>9. ScbInv'
  <2>1. Checks(axiReads, apbReadQ, readIdx, ~item.cmd.write)'
    BY <1>1, <1>2, <1>4, <1>8 DEF ScbInv, Checks
  <2>2. \/ /\ axiWrites' = 1 /\ writeIdx' \in 0 .. Wanted' - 1
           /\ writeIdx' + Len(apbWriteQ') = Accessed'
        \/ axiWrites' = 0 /\ writeIdx' = 0 /\ apbWriteQ' = <<>> /\ Accessed' = Wanted'
    <3>1. /\ writeIdx' = IF writeIdx + 1 >= Wanted THEN 0 ELSE writeIdx + 1
          /\ axiWrites' = IF writeIdx + 1 >= Wanted THEN 0 ELSE 1
      <4> HIDE DEF Wanted
      <4> QED
        BY <1>1, <1>2, <1>7
    <3> HIDE DEF Wanted, Accessed
    <3> QED
      BY <1>1, <1>5, <1>7, <3>1
  <2>3. Checks(axiWrites, apbWriteQ, writeIdx, item.cmd.write)'
    <3> HIDE DEF Wanted, Accessed, HandedOut
    <3> QED
      BY <1>2, <1>5, <1>8, <2>2 DEF Checks
  <2> QED
    BY <2>1, <2>3 DEF ScbInv
<1>10. CoverInv'
  <2> HIDE DEF Accessed, HandedOut
  <2> QED
    BY <1>3, <1>4, <1>5 DEF CoverInv
<1>11. Counters'
  BY <1>1, <1>3, <1>7 DEF TbInv, Counters, Untouched
<1> QED
  BY <1>5, <1>9, <1>10, <1>11 DEF TbInv, Busy

LEMMA CheckReadKeepsTb ==
  ASSUME TbInv, Scb!CheckRead, UNCHANGED <<historyVars, agents, coverVars>>
  PROVE  TbInv'
<1>1. /\ Scb!CanCheckRead /\ axiReads > 0 /\ apbReadQ # <<>> /\ apbReadQ' = Tail(apbReadQ)
      /\ UNCHANGED <<axiWrites, apbWriteQ, writeIdx>>
      /\ readIdx' = IF readIdx + 1 >= Len(rdT.data) THEN 0 ELSE readIdx + 1
      /\ axiReads' = IF readIdx + 1 >= Len(rdT.data) THEN axiReads - 1 ELSE axiReads
  BY DEF Scb!CheckRead, Scb!CanCheckRead
<1>2. Busy /\ item.cmd.write = FALSE /\ HandedOut /\ Len(rdT.data) = Wanted
  BY <1>1, HandleLooked
<1>3. Untouched /\ UNCHANGED <<toCover, apbToCover>>
  BY ObserversOnly DEF coverVars
<1>4. Driven /\ SlaveInv /\ HandlesInv /\ ScbInv /\ CoverInv
  BY <1>2 DEF Busy
<1>5. /\ Driven' /\ SlaveInv' /\ HandlesInv' /\ Wanted' = Wanted /\ Accessed' = Accessed
      /\ HandedOut' <=> HandedOut
  BY <1>3, <1>4, UntouchedKeeps
<1>6. IsSeq(apbReadQ) /\ Checks(axiReads, apbReadQ, readIdx, ~item.cmd.write)
  BY <1>4 DEF TbInv, Counters, ScbInv
<1>7. /\ IsSeq(Tail(apbReadQ)) /\ axiReads = 1 /\ readIdx \in 0 .. Wanted - 1
      /\ IF readIdx + 1 >= Wanted
         THEN Tail(apbReadQ) = <<>> /\ Accessed = Wanted
         ELSE /\ readIdx + 1 \in 0 .. Wanted - 1
              /\ readIdx + 1 + Len(Tail(apbReadQ)) = Accessed
  <2> DEFINE mine == ~item.cmd.write
  <2>1. mine \in BOOLEAN /\ Checks(axiReads, apbReadQ, readIdx, mine)
    BY <1>2, <1>6
  <2> HIDE DEF mine, Wanted, Accessed, HandedOut, Checks, Driven, SlaveInv
  <2> QED
    BY <1>1, <1>4, <1>6, <2>1, OneTurn
<1>8. item' = item
  BY <1>3 DEF Untouched
<1>9. ScbInv'
  <2>1. Checks(axiWrites, apbWriteQ, writeIdx, item.cmd.write)'
    BY <1>1, <1>2, <1>4, <1>8 DEF ScbInv, Checks
  <2>2. \/ /\ axiReads' = 1 /\ readIdx' \in 0 .. Wanted' - 1
           /\ readIdx' + Len(apbReadQ') = Accessed'
        \/ axiReads' = 0 /\ readIdx' = 0 /\ apbReadQ' = <<>> /\ Accessed' = Wanted'
    <3>1. /\ readIdx' = IF readIdx + 1 >= Wanted THEN 0 ELSE readIdx + 1
          /\ axiReads' = IF readIdx + 1 >= Wanted THEN 0 ELSE 1
      <4> HIDE DEF Wanted
      <4> QED
        BY <1>1, <1>2, <1>7
    <3> HIDE DEF Wanted, Accessed
    <3> QED
      BY <1>1, <1>5, <1>7, <3>1
  <2>3. Checks(axiReads, apbReadQ, readIdx, ~item.cmd.write)'
    <3> HIDE DEF Wanted, Accessed, HandedOut
    <3> QED
      BY <1>2, <1>5, <1>8, <2>2 DEF Checks
  <2> QED
    BY <2>1, <2>3 DEF ScbInv
<1>10. CoverInv'
  <2> HIDE DEF Accessed, HandedOut
  <2> QED
    BY <1>3, <1>4, <1>5 DEF CoverInv
<1>11. Counters'
  BY <1>1, <1>3, <1>7 DEF TbInv, Counters, Untouched
<1> QED
  BY <1>5, <1>9, <1>10, <1>11 DEF TbInv, Busy

LEMMA SampleKeepsTb == ASSUME TbInv, Sample PROVE TbInv'
<1>1. /\ toCover # <<>> /\ apbToCover > 0 /\ toCover' = Tail(toCover) /\ apbToCover' = apbToCover - 1
      /\ UNCHANGED <<historyVars, agents, scbVars>>
  BY DEF Sample, Cover!Sample, Cover!CanSample
<1>2. Busy
  BY <1>1 DEF TbInv, Clean
<1>3. Driven /\ SlaveInv /\ HandlesInv /\ ScbInv /\ CoverInv
  BY <1>2 DEF Busy
<1>4. Untouched
  BY <1>1, ObserversOnly
<1>5. /\ Driven' /\ SlaveInv' /\ HandlesInv' /\ Wanted' = Wanted /\ Accessed' = Accessed
      /\ HandedOut' <=> HandedOut
  BY <1>3, <1>4, UntouchedKeeps
<1>6. UNCHANGED <<axiWrites, axiReads, apbWriteQ, apbReadQ, writeIdx, readIdx>>
  BY <1>1 DEF scbVars
<1>7. ScbInv'
  <2>1. item' = item
    BY <1>4 DEF Untouched
  <2> HIDE DEF Wanted, Accessed, HandedOut
  <2> QED
    BY <1>3, <1>5, <1>6, <2>1 DEF ScbInv, Checks
<1>8. HandedOut /\ toCover' = <<>>
  <2>1. HandedOut /\ Len(toCover) = 1 /\ IsSeq(toCover)
    BY <1>1, <1>3 DEF CoverInv, TbInv, Counters
  <2>2. IsSeq(Tail(toCover)) /\ Len(Tail(toCover)) = 0
    BY <1>1, <2>1, ListsGrow
  <2>3. Tail(toCover) = <<>>
    BY <2>2, ListsGrow
  <2> QED
    BY <1>1, <2>1, <2>3
<1>9. CoverInv'
  <2> HIDE DEF Accessed, HandedOut
  <2> QED
    BY <1>5, <1>8 DEF CoverInv
<1>10. Counters'
  <2>1. apbToCover' \in Nat
    BY <1>1 DEF TbInv, Counters
  <2> QED
    BY <1>4, <1>6, <1>8, <2>1, ShortLists DEF TbInv, Counters, Untouched
<1> QED
  BY <1>5, <1>7, <1>9, <1>10 DEF TbInv, Busy

----------------------------------------------------------------------------
(* The theorems.                                                              *)

LEMMA TbInvInit == TbInit => TbInv
<1> SUFFICES ASSUME TbInit PROVE TbInv
  OBVIOUS
<1>1. openWrites = <<>> /\ openReads = <<>> /\ toSend = <<>> /\ beatsGot = 0
  BY DEF TbInit, HistoryInit, Init
<1>2. phase = "idle" /\ wrT.data = <<>> /\ rdT.data = <<>> /\ wrCnt = 0 /\ rdCnt = 0
  BY DEF TbInit, Axi!Init, Axi!Emptyhanded
<1>3. slaveItems = 0 /\ setup = <<>>
  BY DEF TbInit, Slave!Init
<1>4. Scb!NothingWaits /\ writeIdx = 0 /\ readIdx = 0 /\ toCover = <<>> /\ apbToCover = 0
  BY DEF TbInit, Scb!Init, Cover!Init, Scb!NothingWaits
<1>5. Counters
  BY <1>1, <1>2, <1>4, ShortLists DEF Counters, Scb!NothingWaits
<1> QED
  BY <1>1, <1>2, <1>3, <1>4, <1>5 DEF TbInv, Clean

LEMMA TbInvStep == ASSUME TbTrace, TbTrace', TbInv, [TbNext]_tbVars PROVE TbInv'
<1>1. CASE TbAclk
  BY <1>1, AclkKeepsTb
<1>2. CASE TbPclk
  BY <1>2, PclkKeepsTb
<1>3. CASE NextItem
  BY <1>3, NextItemKeepsTb
<1>4. CASE DriveItem
  BY <1>4, DriveItemKeepsTb
<1>5. CASE Check
  <2>1. UNCHANGED <<historyVars, agents, coverVars>> /\ (Scb!CheckWrite \/ Scb!CheckRead)
    BY <1>5 DEF Check
  <2> QED
    BY <2>1, CheckWriteKeepsTb, CheckReadKeepsTb
<1>6. CASE Sample
  BY <1>6, SampleKeepsTb
<1>7. CASE UNCHANGED tbVars
  <2>1. UNCHANGED <<historyVars, agents, scbVars, coverVars>>
    BY <1>7 DEF tbVars, observers
  <2>2. Untouched
    BY <2>1, ObserversOnly
  <2>3. UNCHANGED <<axiWrites, axiReads, apbWriteQ, apbReadQ, writeIdx, readIdx, toCover, apbToCover>>
    BY <2>1 DEF scbVars, coverVars
  <2>4. Counters'
    BY <2>2, <2>3 DEF TbInv, Counters, Untouched
  <2>5. CASE Clean
    <3>1. Clean'
      BY <2>2, <2>3, <2>5 DEF Clean, Untouched, Scb!NothingWaits
    <3> QED
      BY <2>4, <3>1 DEF TbInv
  <2>6. CASE Busy
    <3>1. Driven /\ SlaveInv /\ HandlesInv /\ ScbInv /\ CoverInv /\ item' = item
      BY <2>2, <2>6 DEF Busy, Untouched
    <3>2. /\ Driven' /\ SlaveInv' /\ HandlesInv' /\ Wanted' = Wanted /\ Accessed' = Accessed
          /\ HandedOut' <=> HandedOut
      BY <2>2, <3>1, UntouchedKeeps
    <3>3. ScbInv' /\ CoverInv'
      <4> HIDE DEF Wanted, Accessed, HandedOut
      <4> QED
        BY <2>3, <3>1, <3>2 DEF ScbInv, Checks, CoverInv
    <3> QED
      BY <2>4, <3>2, <3>3 DEF TbInv, Busy
  <2> QED
    BY <2>5, <2>6 DEF TbInv
<1> QED
  BY <1>1, <1>2, <1>3, <1>4, <1>5, <1>6, <1>7 DEF TbNext

LEMMA TbHolds == ASSUME NoReserved PROVE TbSpec => [](TbTrace /\ TbInv)
<1>1. TbInit => TbTrace /\ TbInv
  BY TbTraceInit, TbInvInit
<1>2. TbTrace /\ TbInv /\ [TbNext]_tbVars => (TbTrace /\ TbInv)'
  BY TbTraceStep, TbInvStep
<1> QED
  BY <1>1, <1>2, PTL DEF TbSpec

\* The handle a checker looks into has the command of the item: the burst had accesses, so
\* its command is taken.
LEMMA HandleIsOfItem ==
  ASSUME TbTrace, TbInv
  PROVE  /\ Scb!CanCheckWrite => wrT.cmd = item.cmd
         /\ Scb!CanCheckRead => rdT.cmd = item.cmd
<1>1. ASSUME Driven, SlaveInv, NEW handles, NEW q, NEW idx, NEW mine \in BOOLEAN,
             Checks(handles, q, idx, mine), IsSeq(q), handles > 0, q # <<>>
      PROVE  ~awvalid /\ ~arvalid
  <2>1. idx \in 0 .. Wanted - 1 /\ HandedOut /\ mine
    BY <1>1, OneTurn
  <2>2. ~(0 > 0)
    OBVIOUS
  <2>3. idx + Len(q) = Accessed
    BY <1>1, <2>1, <2>2 DEF Checks
  <2>4. Len(q) \in Nat \ {0} /\ Wanted \in Nat /\ Len(setup) \in {0, 1}
        /\ Accessed = Wanted - slaveItems - Len(setup) /\ slaveItems \in 0 .. Wanted
    BY <1>1, ListsGrow, Numbers DEF Accessed
  <2>5. Wanted - slaveItems # 0
    <3> DEFINE n == Wanted  a == Accessed  k == Len(q)  l == Len(setup)
    <3>1. /\ idx \in 0 .. n - 1 /\ idx + k = a /\ k \in Nat \ {0} /\ n \in Nat /\ l \in {0, 1}
          /\ a = n - slaveItems - l /\ slaveItems \in 0 .. n
      BY <2>1, <2>3, <2>4
    <3> HIDE DEF n, a, k, l
    <3>2. n - slaveItems # 0
      BY <3>1
    <3> QED
      BY <3>2 DEF n
  <2>6. ~Unstarted
    BY <1>1, <2>5 DEF SlaveInv, Served
  <2>7. awvalid \/ arvalid => state = "IDLE"
    BY <1>1, DrivenIsOpen, OfferedIsAll
  <2> QED
    BY <2>6, <2>7 DEF Unstarted
<1>2. ASSUME Scb!CanCheckWrite PROVE wrT.cmd = item.cmd
  <2>1. Busy /\ item.cmd.write = TRUE /\ HandedOut
    BY <1>2, HandleLooked
  <2>2. Driven /\ SlaveInv /\ HandlesInv /\ ScbInv
    BY <2>1 DEF Busy
  <2>3. ~awvalid
    <3> DEFINE mine == item.cmd.write
    <3>1. /\ mine \in BOOLEAN /\ Checks(axiWrites, apbWriteQ, writeIdx, mine)
          /\ IsSeq(apbWriteQ) /\ axiWrites > 0 /\ apbWriteQ # <<>>
      BY <1>2, <2>1, <2>2 DEF ScbInv, TbInv, Counters, Scb!CanCheckWrite
    <3> HIDE DEF mine, Checks, Driven, SlaveInv, HandlesInv, ScbInv
    <3> QED
      BY <1>1, <2>2, <3>1
  <2>4. phase \in {"idle", "addr", "answer"}
    BY <2>1, <2>2 DEF HandedOut, Driven
  <2> QED
    BY <2>1, <2>2, <2>3, <2>4 DEF HandlesInv
<1>3. ASSUME Scb!CanCheckRead PROVE rdT.cmd = item.cmd
  <2>1. Busy /\ item.cmd.write = FALSE /\ HandedOut
    BY <1>3, HandleLooked
  <2>2. Driven /\ SlaveInv /\ HandlesInv /\ ScbInv
    BY <2>1 DEF Busy
  <2>3. ~arvalid
    <3> DEFINE mine == ~item.cmd.write
    <3>1. /\ mine \in BOOLEAN /\ Checks(axiReads, apbReadQ, readIdx, mine)
          /\ IsSeq(apbReadQ) /\ axiReads > 0 /\ apbReadQ # <<>>
      BY <1>3, <2>1, <2>2 DEF ScbInv, TbInv, Counters, Scb!CanCheckRead
    <3> HIDE DEF mine, Checks, Driven, SlaveInv, HandlesInv, ScbInv
    <3> QED
      BY <1>1, <2>2, <3>1
  <2>4. phase \in {"idle", "addr", "answer"}
    BY <2>1, <2>2 DEF HandedOut, Driven
  <2> QED
    BY <2>1, <2>2, <2>3, <2>4 DEF HandlesInv
<1> QED
  BY <1>2, <1>3

\* Whenever check_trans looks into the monitor's handle (gon_axi2apb_scb), the handle has the
\* command of the burst in flight and all of its words or beats, although the monitor
\* hands the same handle out for every burst and before its address is known.
THEOREM CheckedHandleIsTheBurst == ASSUME NoReserved PROVE TbSpec => []HandleIsTheBurst
<1>1. ASSUME TbTrace, TbInv PROVE HandleIsTheBurst
  <2>1. /\ Scb!CanCheckWrite => Len(wrT.data) = item.cmd.len + 1
        /\ Scb!CanCheckRead => Len(rdT.data) = item.cmd.len + 1
    BY <1>1, HandleLooked DEF Wanted
  <2> QED
    BY <1>1, <2>1, HandleIsOfItem DEF HandleIsTheBurst
<1> QED
  BY <1>1, TbHolds, PTL

\* A response or a beat comes only to a driver that waits for it and for its kind, and an
\* APB setup cycle only to a slave driver that has an item (gon_axi_master_driver,
\* gon_apb_slave_driver).
THEOREM AnswersAreAwaited == ASSUME NoReserved PROVE TbSpec => []AnswersAreMet
<1>1. ASSUME TbTrace, TbInv PROVE AnswersAreMet
  <2> USE <1>1
  <2>1. (bvalid => respQueue # <<>>) /\ (rvalid => readQueue # <<>>)
    <3>1. /\ respSeen \in Nat /\ respSeen <= Len(respQueue)
          /\ readSeen \in Nat /\ readSeen <= Len(readQueue)
      BY DEF TbTrace, ReadTraceInv, TrafficInv, BridgeInv, QueuesSafe, Bracketed
    <3>2. Len(<<>>) = 0
      BY ShortLists
    <3>3. (respQueue = <<>> => respSeen = 0) /\ (readQueue = <<>> => readSeen = 0)
      BY <3>1, <3>2
    <3> QED
      BY <3>3 DEF bvalid, rvalid, RespQueue!PopEmpty, ReadQueue!PopEmpty
  <2>2. CASE Clean
    <3>1. respQueue = <<>> /\ readQueue = <<>> /\ state = "IDLE"
      BY <2>2, BridgeRests DEF Clean
    <3>2. ~IsSetup
      BY <3>1, SetupIs
    <3> QED
      BY <2>1, <3>1, <3>2 DEF AnswersAreMet, IsSetup
  <2>3. CASE Busy
    <3>1. Driven /\ SlaveInv
      BY <2>3 DEF Busy
    <3>2. /\ respQueue # <<>> => phase = "answer" /\ item.cmd.write
          /\ readQueue # <<>> => phase = "answer" /\ ~item.cmd.write
      BY <3>1, AnswersOfItem
    <3>3. IsSetup => slaveItems > 0
      BY <3>1, SetupIs, SetupIsServed
    <3> QED
      BY <2>1, <3>2, <3>3 DEF AnswersAreMet, IsSetup
  <2> QED
    BY <2>2, <2>3 DEF TbInv
<1> QED
  BY <1>1, TbHolds, PTL

\* When a test is over, every access has met its beat and every beat its access: the queues
\* of check_trans (gon_axi2apb_scb) are empty and its beat counts are back at zero, and the
\* coverage collector has sampled every burst.
THEOREM NothingIsLeftUnchecked == ASSUME NoReserved PROVE TbSpec => []EverythingIsChecked
<1>1. ASSUME TbTrace, TbInv PROVE EverythingIsChecked
  <2> USE <1>1
  <2> SUFFICES ASSUME AtRest
               PROVE  /\ Scb!NothingWaits /\ writeIdx = 0 /\ readIdx = 0
                      /\ toCover = <<>> /\ setup = <<>>
    BY DEF EverythingIsChecked
  <2>1. phase = "idle" /\ Settled /\ ~(slaveItems > 0)
    BY DEF AtRest, InFlight
  <2>2. slaveItems = 0
    <3>1. CASE Clean
      BY <3>1 DEF Clean
    <3>2. CASE Busy
      <4>1. Wanted \in Nat /\ slaveItems \in 0 .. Wanted
        BY <3>2, Numbers DEF Busy
      <4> HIDE DEF Wanted
      <4> QED
        BY <2>1, <4>1
    <3> QED
      BY <3>1, <3>2 DEF TbInv
  <2>3. Clean
    BY <2>1, <2>2, RestsClean
  <2> QED
    BY <2>3 DEF Clean
<1> QED
  BY <1>1, TbHolds, PTL

----------------------------------------------------------------------------
(* No false alarm.                                                            *)

\* The driver drives one strobe value for all the words of a burst.
OneStrobe ==
  \A b \in WriteBursts : \A i, j \in 1 .. b.cmd.len + 1 : b.strobes[i] = b.strobes[j]

\* Every address a slave answers has sixteen bits (the shipped map is 0x400 to 0xfff).
InMonitorRange == \A a \in 0 .. AddrSpace - 1 : Decode(a) # {} => a < 2 ^ 16

\* Where the address predictor of the scoreboard wraps is where AXI does.
LEMMA WrapPoint ==
  ASSUME NEW a \in Nat, NEW n \in {2, 4, 8, 16}, NEW A \in Nat, A % 64 = 0, a < A, a % 4 = 0,
         NEW i \in 0 .. n - 1
  PROVE  LET p == (a \div 4) % n
             k == IF i < n - p THEN i ELSE i - n
         IN  (a + k * 4) % A = (a \div (n * 4)) * (n * 4) + ((a + i * 4) % (n * 4))
<1>1. PICK q \in Nat : a = 4 * q
  BY Z3
<1>2. PICK B \in Nat : A = 64 * B
  BY Z3
<1>3. a \div 4 = q
  BY <1>1, Z3
<1>4. CASE n = 2
  <2>0. q \div 2 \in Nat /\ q % 2 \in 0 .. 1 /\ q = 2 * (q \div 2) + (q % 2)
    BY Z3
  <2>1. PICK t \in Nat, p \in 0 .. 1 : q = 2 * t + p
    BY <2>0
  <2>2. q % 2 = p /\ (a \div 8) * 8 = 8 * t
    BY <1>1, <2>1, Z3
  <2>3. /\ i < 2 - p => (a + i * 4) % 8 = 4 * p + 4 * i
        /\ i >= 2 - p => (a + i * 4) % 8 = 4 * p + 4 * i - 8
    BY <1>1, <1>4, <2>1, Z3
  <2>4. /\ i < 2 - p => (a + i * 4) % A = a + i * 4
        /\ i >= 2 - p => (a + (i - 2) * 4) % A = a + (i - 2) * 4
    BY <1>1, <1>2, <1>4, <2>1, Z3
  <2>5. n * 4 = 8 /\ (a \div 4) % n = p
    BY <1>3, <1>4, <2>2
  <2>6. CASE i < 2 - p
    BY <1>1, <1>4, <2>1, <2>2, <2>3, <2>4, <2>5, <2>6
  <2>7. CASE i >= 2 - p
    BY <1>1, <1>4, <2>1, <2>2, <2>3, <2>4, <2>5, <2>7
  <2>8. i < 2 - p \/ i >= 2 - p
    BY <1>4, <2>1
  <2> QED
    BY <2>6, <2>7, <2>8
<1>5. CASE n = 4
  <2>0. q \div 4 \in Nat /\ q % 4 \in 0 .. 3 /\ q = 4 * (q \div 4) + (q % 4)
    BY Z3
  <2>1. PICK t \in Nat, p \in 0 .. 3 : q = 4 * t + p
    BY <2>0
  <2>2. q % 4 = p /\ (a \div 16) * 16 = 16 * t
    BY <1>1, <2>1, Z3
  <2>3. /\ i < 4 - p => (a + i * 4) % 16 = 4 * p + 4 * i
        /\ i >= 4 - p => (a + i * 4) % 16 = 4 * p + 4 * i - 16
    BY <1>1, <1>5, <2>1, Z3
  <2>4. /\ i < 4 - p => (a + i * 4) % A = a + i * 4
        /\ i >= 4 - p => (a + (i - 4) * 4) % A = a + (i - 4) * 4
    BY <1>1, <1>2, <1>5, <2>1, Z3
  <2>5. n * 4 = 16 /\ (a \div 4) % n = p
    BY <1>3, <1>5, <2>2
  <2>6. CASE i < 4 - p
    BY <1>1, <1>5, <2>1, <2>2, <2>3, <2>4, <2>5, <2>6
  <2>7. CASE i >= 4 - p
    BY <1>1, <1>5, <2>1, <2>2, <2>3, <2>4, <2>5, <2>7
  <2>8. i < 4 - p \/ i >= 4 - p
    BY <1>5, <2>1
  <2> QED
    BY <2>6, <2>7, <2>8
<1>6. CASE n = 8
  <2>0. q \div 8 \in Nat /\ q % 8 \in 0 .. 7 /\ q = 8 * (q \div 8) + (q % 8)
    BY Z3
  <2>1. PICK t \in Nat, p \in 0 .. 7 : q = 8 * t + p
    BY <2>0
  <2>2. q % 8 = p /\ (a \div 32) * 32 = 32 * t
    BY <1>1, <2>1, Z3
  <2>3. /\ i < 8 - p => (a + i * 4) % 32 = 4 * p + 4 * i
        /\ i >= 8 - p => (a + i * 4) % 32 = 4 * p + 4 * i - 32
    BY <1>1, <1>6, <2>1, Z3
  <2>4. /\ i < 8 - p => (a + i * 4) % A = a + i * 4
        /\ i >= 8 - p => (a + (i - 8) * 4) % A = a + (i - 8) * 4
    BY <1>1, <1>2, <1>6, <2>1, Z3
  <2>5. n * 4 = 32 /\ (a \div 4) % n = p
    BY <1>3, <1>6, <2>2
  <2>6. CASE i < 8 - p
    BY <1>1, <1>6, <2>1, <2>2, <2>3, <2>4, <2>5, <2>6
  <2>7. CASE i >= 8 - p
    BY <1>1, <1>6, <2>1, <2>2, <2>3, <2>4, <2>5, <2>7
  <2>8. i < 8 - p \/ i >= 8 - p
    BY <1>6, <2>1
  <2> QED
    BY <2>6, <2>7, <2>8
<1>7. CASE n = 16
  <2>0. q \div 16 \in Nat /\ q % 16 \in 0 .. 15 /\ q = 16 * (q \div 16) + (q % 16)
    BY Z3
  <2>1. PICK t \in Nat, p \in 0 .. 15 : q = 16 * t + p
    BY <2>0
  <2>2. q % 16 = p /\ (a \div 64) * 64 = 64 * t
    BY <1>1, <2>1, Z3
  <2>3. /\ i < 16 - p => (a + i * 4) % 64 = 4 * p + 4 * i
        /\ i >= 16 - p => (a + i * 4) % 64 = 4 * p + 4 * i - 64
    BY <1>1, <1>7, <2>1, Z3
  <2>4. /\ i < 16 - p => (a + i * 4) % A = a + i * 4
        /\ i >= 16 - p => (a + (i - 16) * 4) % A = a + (i - 16) * 4
    BY <1>1, <1>2, <1>7, <2>1, Z3
  <2>5. n * 4 = 64 /\ (a \div 4) % n = p
    BY <1>3, <1>7, <2>2
  <2>6. CASE i < 16 - p
    BY <1>1, <1>7, <2>1, <2>2, <2>3, <2>4, <2>5, <2>6
  <2>7. CASE i >= 16 - p
    BY <1>1, <1>7, <2>1, <2>2, <2>3, <2>4, <2>5, <2>7
  <2>8. i < 16 - p \/ i >= 16 - p
    BY <1>7, <2>1
  <2> QED
    BY <2>6, <2>7, <2>8
<1> QED
  BY <1>4, <1>5, <1>6, <1>7

\* At a beat that is not bad the address predictor gives the AXI address.
LEMMA ExpectedIsAxi ==
  ASSUME NoReserved, NEW c \in Commands, NEW i \in 0 .. c.len, ~BadBeat(c, i)
  PROVE  Scb!ExpectedAddress(c, i) = AxiAddress(c, i) /\ c.burst # RESERVED
<1>1. ~InitialCmdError(c) /\ ~WrapError(c) /\ c.burst # RESERVED
  BY DEF BadBeat, NoReserved
<1>2. c.burst \in {FIXED, INCR, WRAP} /\ c.len \in Nat /\ c.addr \in 0 .. AddrSpace - 1 /\ c.size \in {0, 1, 2}
  BY <1>1, BurstsAssumption DEF Commands
<1>3. BeatBytes(c) = 4 /\ c.addr % 4 = 0 /\ AddrSpace \in Nat /\ AddrSpace % 64 = 0
  <2>1. c.size = 2
    BY <1>1, <1>2 DEF InitialCmdError, AlignSize
  <2>2. 2 ^ 2 = 4
    BY Z3
  <2> QED
    BY <1>1, <2>1, <2>2, AddrSpaceAssumption DEF InitialCmdError, BeatBytes, WordBytes
<1>4. /\ Scb!BeatBytes(c) = BeatBytes(c)
      /\ \A a, n : Scb!Plus(a, n) = Plus(a, n)
      /\ Scb!FIXED = FIXED /\ Scb!INCR = INCR /\ Scb!WRAP = WRAP
  BY DEF Scb!BeatBytes, BeatBytes, Scb!Plus, Plus, Scb!FIXED, FIXED, Scb!INCR, INCR, Scb!WRAP, WRAP
<1>5. CASE c.burst = FIXED
  BY <1>1, <1>4, <1>5 DEF Scb!ExpectedAddress, AxiAddress, FIXED, INCR, WRAP, RESERVED
<1>6. CASE c.burst = INCR
  BY <1>1, <1>4, <1>6 DEF Scb!ExpectedAddress, AxiAddress, FIXED, INCR, WRAP, RESERVED
<1>7. CASE c.burst = WRAP
  <2> DEFINE n == c.len + 1  a == c.addr
  <2>1. n \in {2, 4, 8, 16} /\ i \in 0 .. n - 1 /\ a \in Nat /\ a < AddrSpace /\ a % 4 = 0
    <3>1. c.len \in {1, 3, 7, 15}
      BY <1>1, <1>7 DEF WrapError
    <3> QED
      BY <1>2, <1>3, <3>1
  <2>2. Container(c) = n * 4
    BY <1>3 DEF Container
  <2>3. AxiAddress(c, i) = (a \div (n * 4)) * (n * 4) + ((a + i * 4) % (n * 4))
    BY <1>3, <1>7, <2>2 DEF AxiAddress, FIXED, INCR, WRAP, RESERVED
  <2> DEFINE p == (a \div 4) % n
             k == IF i < n - p THEN i ELSE i - n
  <2>4. Scb!ExpectedAddress(c, i) = (a + k * 4) % AddrSpace
    <3> DEFINE m == IF i < c.len + 1 - p THEN i ELSE i - c.len - 1
    <3>1. Scb!ExpectedAddress(c, i) = Plus(c.addr, m * 4)
      BY <1>3, <1>4, <1>7 DEF Scb!ExpectedAddress, FIXED, INCR, WRAP
    <3>2. m = k
      <4>1. c.len \in Nat /\ i \in Nat
        BY <1>2
      <4>2. p \in Int
        BY <2>1
      <4> HIDE DEF p
      <4> QED
        BY <4>1, <4>2
    <3> HIDE DEF m, k, p
    <3> QED
      BY <3>1, <3>2 DEF Plus
  <2>5. (a + k * 4) % AddrSpace = (a \div (n * 4)) * (n * 4) + ((a + i * 4) % (n * 4))
    <3> HIDE DEF n, a
    <3> QED
      BY <1>3, <2>1, WrapPoint
  <2> QED
    BY <1>1, <2>3, <2>4, <2>5
<1> QED
  BY <1>2, <1>5, <1>6, <1>7

\* When all words are to be written and none is refused, each of them asks for a write.
LEMMA AllAreWritten ==
  ASSUME NEW c, NEW ss, NEW n \in Nat, \A i \in 1 .. n : ss[i] = "all", ~Refused(c, ss, n - 1)
  PROVE  Len(WritesUpTo(c, ss, n)) = n
<1> DEFINE T == {m \in 0 .. n : Len(WritesUpTo(c, ss, m)) # m}
<1> SUFFICES ASSUME T # {} PROVE FALSE
  OBVIOUS
<1>1. PICK m \in T : \A k \in T : m <= k
  <2>1. T \subseteq Nat
    OBVIOUS
  <2> HIDE DEF T
  <2> QED
    BY <2>1, SideAssumptions, Side!LeastNatural
<1>2. m # 0
  <2>1. WritesUpTo(c, ss, 0) = <<>>
    BY SideRules, SideAssumptions, Side!NoWrites
  <2> QED
    BY <2>1
<1>3. m - 1 \in Nat /\ m - 1 \notin T /\ m \in 1 .. n
  <2>1. m \in 0 .. n /\ m - 1 \in Nat
    BY <1>2
  <2>2. ~(m <= m - 1)
    BY <2>1
  <2> QED
    BY <1>1, <2>1, <2>2
<1>4. Len(WritesUpTo(c, ss, m - 1)) = m - 1
  BY <1>3
<1>5. Side!Wanted(c, ss, m) = <<Side!WriteOf(c, m)>>
  <2>1. ~Refused(c, ss, m - 1)
    BY <1>3 DEF Refused
  <2> QED
    BY <1>3, <2>1, SideRules DEF Side!Wanted
<1>6. WritesUpTo(c, ss, (m - 1) + 1) = WritesUpTo(c, ss, m - 1) \o Side!Wanted(c, ss, (m - 1) + 1)
  BY <1>3, SideRules, SideAssumptions, Side!WritesGrow
<1>7. (m - 1) + 1 = m
  BY <1>3
<1>8. \E S : WritesUpTo(c, ss, m - 1) \in Seq(S)
  <2>1. Side!WritesUpTo(c, ss, m - 1) \in Seq({Side!WriteOf(c, i) : i \in Nat})
    BY <1>3, SideAssumptions, Side!WritesAreFew
  <2> QED
    BY <2>1, SideRules
<1>9. Len(WritesUpTo(c, ss, m)) = Len(WritesUpTo(c, ss, m - 1)) + 1
  <2> DEFINE w == WritesUpTo(c, ss, m - 1)  x == Side!WriteOf(c, m)
  <2>1. IsSeq(w)
    BY <1>8 DEF IsSeq
  <2>2. WritesUpTo(c, ss, m) = w \o <<x>>
    BY <1>5, <1>6, <1>7
  <2> HIDE DEF w, x
  <2> QED
    BY <2>1, <2>2, ListsGrow DEF w
<1> QED
  BY <1>3, <1>4, <1>9

----------------------------------------------------------------------------
(* The accesses, one by one.                                                  *)

\* Entries of a list that grows at one end and shrinks at the other.
LEMMA ListsIndexed ==
  ASSUME NEW q, IsSeq(q), NEW x
  PROVE  /\ \A j \in 1 .. Len(q) : Append(q, x)[j] = q[j]
         /\ Append(q, x)[Len(q) + 1] = x
         /\ q # <<>> => /\ Head(q) = q[1] /\ Len(q) \in Nat \ {0}
                        /\ \A j \in 1 .. Len(q) - 1 : Tail(q)[j] = q[j + 1]
<1>1. PICK S : q \in Seq(S)
  BY DEF IsSeq
<1>2. q \in Seq(S \cup {x})
  BY <1>1, SeqMonotone
<1>3. /\ \A j \in 1 .. Len(q) : Append(q, x)[j] = q[j]
      /\ Append(q, x)[Len(q) + 1] = x
  BY <1>2
<1>4. ASSUME q # <<>>
      PROVE  Head(q) = q[1] /\ Len(q) \in Nat \ {0} /\ \A j \in 1 .. Len(q) - 1 : Tail(q)[j] = q[j + 1]
  BY <1>1, <1>4
<1> QED
  BY <1>3, <1>4

\* The accesses begun for the item, and how far they are.
Begun == Wanted - slaveItems
CountInv ==
  /\ (state # "IDLE" /\ owner.write) => Begun = Len(made) + One(state = "WEN")
  /\ state \in {"NREN", "RSEL", "PREPURGE"} => Begun = beat
  /\ state \in {"REN", "RBUFWT"} => Begun = beat + 1
  /\ (state = "PURGE" /\ ~owner.write) => Begun <= served

\* What an edge of pclk does to the count.
LEMMA BegunGrows ==
  ASSUME TbTrace, TbTrace', Driven, SlaveInv, TbPclk
  PROVE  /\ Begun \in Nat
         /\ Begun' = IF state \in {"WSEL", "RSEL"} THEN Begun + 1 ELSE Begun
         /\ Starts => Begun = 0
<1>1. /\ Wanted' = Wanted /\ Wanted \in Nat /\ slaveItems \in 0 .. Wanted
      /\ Wanted - slaveItems \in Nat
  BY PclkKeepsSlave, Numbers
<1>2. slaveItems' = IF state \in {"WSEL", "RSEL"} THEN slaveItems - 1 ELSE slaveItems
  BY PclkIs, SetupIs, SetupIsServed
<1>3. Starts => Wanted - slaveItems = 0
  BY TakenUpOnce DEF SlaveInv, Served
<1> DEFINE n == Wanted  m == Wanted'
<1>4. Begun = n - slaveItems /\ Begun' = m - slaveItems' /\ m = n /\ n \in Nat
  BY <1>1 DEF Begun
<1> HIDE DEF n, m
<1>5. Begun' = IF state \in {"WSEL", "RSEL"} THEN Begun + 1 ELSE Begun
  BY <1>1, <1>2, <1>4
<1> QED
  BY <1>1, <1>3, <1>5 DEF Begun

\* What is recorded of a write in its cycles is a list.
LEMMA MadeIsList ==
  ASSUME TbTrace, state \in {"WSEL", "WEN"}
  PROVE  IsSeq(made)
<1>1. Side!WordInv /\ Side!ProgressInv /\ Side!DrainInv
  BY DEF TbTrace, WriteTraceInv, Side!WriteDataInv, Side!WriteInv
<1>2. Len(popped) \in Nat /\ Len(popped) - 1 \in Nat
  <2>1. Len(popped) \in Nat
    BY <1>1 DEF Side!WordInv
  <2> QED
    BY <1>1, <2>1 DEF Side!DrainInv, Side!InHand
<1>3. \/ Side!Done(Len(popped) - 1)
      \/ Len(popped) >= 2 /\ Side!Done(Len(popped) - 2)
  BY <1>1 DEF Side!ProgressInv, Side!Writing
<1>4. PICK n \in Nat : made = Side!WritesUpTo(owner, popped, n)
  BY <1>2, <1>3 DEF Side!Done
<1>5. made \in Seq({Side!WriteOf(owner, i) : i \in Nat})
  BY <1>4, SideAssumptions, Side!WritesAreFew
<1> QED
  BY <1>5 DEF IsSeq

\* The record of the accesses made for the item, at an edge.
LEMMA RecordMoves ==
  ASSUME TbTrace, PclkEdge, PclkRecorded
  PROVE  /\ owner' = IF Starts THEN CmdOut ELSE owner
         /\ state # "IDLE" => ~Starts
         /\ Starts => Len(made') = 0 /\ served' = 0
         /\ state = "WEN" => Len(made) \in Nat /\ Len(made') = Len(made) + 1
         /\ ~Starts /\ state # "WEN" => made' = made
         /\ ~Starts => served' = IF Apb!PushReadBuffer THEN served + 1 ELSE served
<1>1. /\ owner' = IF Starts THEN CmdOut ELSE owner
      /\ made' = CASE Starts -> <<>>
                   [] state = "WEN" ->
                        Append(made, [addr |-> paddr, sel |-> psel, data |-> pwdata])
                   [] OTHER -> made
      /\ served' = IF Starts THEN 0 ELSE IF Apb!PushReadBuffer THEN served + 1 ELSE served
  BY DEF PclkRecorded
<1>2. state # "IDLE" => ~Starts
  BY DEF Starts
<1>3. state = "WEN" => IsSeq(made)
  BY MadeIsList
<1>4. state = "WEN" => Len(made) \in Nat /\ Len(made') = Len(made) + 1
  BY <1>1, <1>2, <1>3, ListsGrow
<1>5. Starts => Len(made') = 0
  BY <1>1, <1>2, ShortLists
<1> QED
  BY <1>1, <1>2, <1>4, <1>5

\* Where a purge comes from, and how the counter of beats moves out of idle.
LEMMA PurgeSources ==
  ASSUME TbTrace, PclkEdge, PclkRecorded
  PROVE  /\ state' = "NREN" => beat' = 0
         /\ state' = "PREPURGE" => \/ state = "NREN" /\ beat' = beat
                                   \/ state \in {"REN", "RBUFWT"} /\ beat' = beat + 1
         /\ (state' = "PURGE" /\ ~owner'.write) => state \in {"IDLE", "PREPURGE", "PURGE"}
         /\ state = "PREPURGE" => served' = beat /\ served \in Nat
         /\ state = "PURGE" => served \in Nat /\ served' \in {served, served + 1}
<1>1. /\ Side!Edge /\ Side!Tick /\ Side!OrderedInv /\ Side!Registers /\ Side!Owned
      /\ state \in Master!States
  BY SideFacts, SetupIs
<1>2. /\ state' = "PREPURGE" => state \in {"NREN", "REN", "RBUFWT"}
      /\ state \in {"REN", "RBUFWT"} /\ ReadQueue!PushFull => state' = "RBUFWT"
      /\ state' = "PURGE" => state \notin {"NREN", "RSEL", "REN", "RBUFWT"}
      /\ state' = "NREN" => state = "IDLE"
  BY <1>1, SideAssumptions, Side!ReadMoves
<1>3. /\ state = "NREN" => beat' = beat
      /\ state \in {"REN", "RBUFWT"} =>
          ((~ReadQueue!PushFull /\ state' # "IDLE") => beat' = beat + 1)
  BY <1>1, SideAssumptions, Side!ReadRegistersMove, Side!BeatMoves
<1>4. state = "IDLE" => beat' = 0
  BY <1>1 DEF Side!Registers, Side!ControlRegisters, Side!NextBeat, Side!NextPushRead
<1>5. (state' = "PURGE" /\ ~owner'.write) => state \in {"IDLE", "PREPURGE", "PURGE"}
  <2>1. state # "IDLE" => owner' = owner
    BY RecordMoves
  <2> QED
    BY <1>1, <1>2, <2>1 DEF Side!Owned, Side!WriteStates, Side!ReadStates, Master!States
<1>6. served \in Nat /\ (state # "IDLE" => served' = IF Apb!PushReadBuffer THEN served + 1 ELSE served)
  BY <1>1, RecordMoves DEF Side!OrderedInv, Side!ReadInv, Side!BeatInv
<1>7. ASSUME state = "PREPURGE" PROVE served' = beat
  <2>1. beat = served + Side!Pushing
    BY <1>1, <1>7 DEF Side!OrderedInv, Side!ReadInv, Side!BeatInv, Side!ReadStates
  <2>2. Apb!PushReadBuffer = pushReadReg
    BY <1>7 DEF Apb!PushReadBuffer
  <2> QED
    BY <1>6, <1>7, <2>1, <2>2 DEF Side!Pushing
<1> QED
  BY <1>2, <1>3, <1>4, <1>5, <1>6, <1>7

\* The accesses begun are those made, and for a read the beats the control has counted.
LEMMA PclkKeepsCount ==
  ASSUME TbTrace, TbTrace', Driven, SlaveInv, CountInv, TbPclk
  PROVE  CountInv'
<1>1. PclkEdge /\ PclkRecorded
  BY PclkIs
<1>2. /\ Begun \in Nat
      /\ Begun' = IF state \in {"WSEL", "RSEL"} THEN Begun + 1 ELSE Begun
      /\ Starts => Begun = 0
  BY BegunGrows
<1>3. /\ state' = "WEN" <=> state = "WSEL"
      /\ state = "IDLE" /\ state' # "IDLE" => Starts
  BY <1>1, SideFacts, SideAssumptions, Side!StateMoves, WriteSources
<1> HIDE DEF Begun
<1>4. (state' # "IDLE" /\ owner'.write) => Begun' = Len(made') + One(state' = "WEN")
  <2> SUFFICES ASSUME state' # "IDLE", owner'.write PROVE Begun' = Len(made') + One(state' = "WEN")
    OBVIOUS
  <2>1. CASE state = "IDLE"
    BY <1>1, <1>2, <1>3, <2>1, RecordMoves DEF One
  <2>2. CASE state # "IDLE"
    <3>1. owner' = owner /\ ~Starts
      BY <1>1, <2>2, RecordMoves
    <3>2. Begun = Len(made) + One(state = "WEN")
      BY <2>2, <3>1 DEF CountInv
    <3>3. state # "RSEL"
      <4>1. Side!Owned
        BY <1>1, SideFacts
      <4> QED
        BY <3>1, <4>1 DEF Side!Owned, Side!ReadStates
    <3>4. CASE state = "WEN"
      <4>1. Len(made) \in Nat /\ Len(made') = Len(made) + 1
        BY <1>1, <3>4, RecordMoves
      <4> QED
        BY <1>2, <1>3, <3>2, <3>4, <4>1 DEF One
    <3>5. CASE state = "WSEL"
      <4>1. made' = made
        BY <1>1, <3>1, <3>5, RecordMoves
      <4>2. Begun = Len(made) + 0 /\ Begun' = Begun + 1 /\ One(state' = "WEN") = 1
        BY <1>2, <1>3, <3>2, <3>5 DEF One
      <4>3. Len(made) = Len(made')
        BY <4>1
      <4> HIDE DEF One
      <4>4. Len(made) \in Nat
        BY <1>1, <3>5, MadeIsList, ListsGrow
      <4> QED
        BY <1>2, <4>2, <4>3, <4>4
    <3>6. CASE state \notin {"WEN", "WSEL"}
      <4>1. made' = made
        BY <1>1, <3>1, <3>6, RecordMoves
      <4> QED
        BY <1>2, <1>3, <3>2, <3>3, <3>6, <4>1 DEF One
    <3> QED
      BY <3>4, <3>5, <3>6
  <2> QED
    BY <2>1, <2>2
<1>5. state' \in {"NREN", "RSEL", "PREPURGE"} => Begun' = beat'
  <2>1. CASE state' = "NREN"
    BY <1>1, <1>2, <1>3, <2>1, ReadSources, PurgeSources
  <2>2. CASE state' = "RSEL"
    BY <1>1, <1>2, <2>2, ReadSources DEF CountInv
  <2>3. CASE state' = "PREPURGE"
    BY <1>1, <1>2, <2>3, PurgeSources DEF CountInv
  <2> QED
    BY <2>1, <2>2, <2>3
<1>6. state' \in {"REN", "RBUFWT"} => Begun' = beat' + 1
  BY <1>1, <1>2, ReadSources DEF CountInv
<1>7. (state' = "PURGE" /\ ~owner'.write) => Begun' <= served'
  <2> SUFFICES ASSUME state' = "PURGE", ~owner'.write PROVE Begun' <= served'
    OBVIOUS
  <2>1. state \in {"IDLE", "PREPURGE", "PURGE"} /\ Begun' = Begun
    BY <1>1, <1>2, PurgeSources
  <2>2. CASE state = "IDLE"
    BY <1>1, <1>2, <1>3, <2>1, <2>2, RecordMoves
  <2>3. CASE state = "PREPURGE"
    BY <1>1, <1>2, <2>1, <2>3, PurgeSources DEF CountInv
  <2>4. CASE state = "PURGE"
    <3>1. owner' = owner
      BY <1>1, <2>4, RecordMoves
    <3> QED
      BY <1>1, <1>2, <2>1, <2>4, <3>1, PurgeSources DEF CountInv
  <2> QED
    BY <2>1, <2>2, <2>3, <2>4
<1> QED
  BY <1>4, <1>5, <1>6, <1>7 DEF CountInv

\* A write access is that of the beat of as many as were made before it.
LEMMA WriteAccess ==
  ASSUME OneStrobe, TbTrace, Driven, state = "WEN"
  PROVE  /\ Len(made) \in Nat /\ pwdata = Len(made) /\ paddr = AxiAddress(item.cmd, Len(made))
         /\ ~BadBeat(item.cmd, Len(made)) /\ owner.write /\ item.cmd.write = TRUE
<1>1. Side!WordInv /\ Side!ProgressInv /\ Side!DrainInv /\ Side!Owned
  BY DEF TbTrace, WriteTraceInv, Side!WriteDataInv, Side!WriteInv
<1>2. owner = item.cmd /\ item.cmd.write \in BOOLEAN /\ item.cmd.len \in Nat /\ owner.write
  BY <1>1, DrivenIsOpen, ItemInHand, ItemTyped DEF Driven, Side!Owned, Side!WriteStates
<1>3. openWrites = <<item>> /\ item \in WriteBursts
  BY <1>2, DrivenIsOpen, ItemInHand, ItemTyped DEF Driven
<1>4. /\ Len(popped) \in 1 .. item.cmd.len + 1
      /\ \A j \in 1 .. Len(popped) : popped[j] = item.strobes[j]
  <2>1. Len(popped) \in 1 .. owner.len + 1
    BY <1>1 DEF Side!DrainInv, Side!InHand
  <2>2. Held
    BY <1>2 DEF Held
  <2>3. HandInv /\ Answered \in Nat
    BY HandTyped DEF TbTrace, WriteTraceInv
  <2>4. Answered + 1 <= Len(openWrites) /\ Len(openWrites) = 1 /\ openWrites[1] = item
    BY <1>3, <2>2, <2>3, ShortLists DEF HandInv
  <2>5. Answered + 1 = 1
    BY <2>3, <2>4
  <2> QED
    BY <1>2, <2>1, <2>2, <2>3, <2>4, <2>5 DEF HandInv
<1>5. PICK n \in Nat : Side!Writing(n) /\ n + 1 <= Len(popped)
  <2> DEFINE p == Len(popped)
  <2>1. Side!Writing(p - 1) \/ (p >= 2 /\ Side!Writing(p - 2))
    BY <1>1 DEF Side!ProgressInv
  <2>2. p \in Nat /\ p >= 1
    BY <1>2, <1>4
  <2> HIDE DEF p
  <2>3. CASE Side!Writing(p - 1)
    <3>1. p - 1 \in Nat /\ (p - 1) + 1 <= p
      BY <2>2
    <3> QED
      BY <2>3, <3>1 DEF p
  <2>4. CASE p >= 2 /\ Side!Writing(p - 2)
    <3>1. p - 2 \in Nat /\ (p - 2) + 1 <= p
      BY <2>2, <2>4
    <3> QED
      BY <2>4, <3>1 DEF p
  <2> QED
    BY <2>1, <2>3, <2>4
<1>6. /\ pwdata = n /\ popped[n + 1] = "all" /\ paddr = AxiAddress(owner, n)
      /\ made = WritesUpTo(owner, popped, n) /\ ~Refused(owner, popped, n)
  <2>1. (n + 1) - 1 = n
    OBVIOUS
  <2> QED
    BY <1>5, <2>1, SideRules DEF Side!Writing, Side!At, Side!Done, Side!Passed
<1>7. \A i \in 1 .. n : popped[i] = "all"
  <2> SUFFICES ASSUME NEW i \in 1 .. n PROVE popped[i] = "all"
    OBVIOUS
  <2>1. i \in 1 .. Len(popped) /\ n + 1 \in 1 .. Len(popped)
    BY <1>2, <1>4, <1>5
  <2>2. i \in 1 .. item.cmd.len + 1 /\ n + 1 \in 1 .. item.cmd.len + 1
    BY <1>2, <1>4, <2>1
  <2>3. item.strobes[i] = item.strobes[n + 1]
    BY <1>3, <2>2 DEF OneStrobe
  <2> QED
    BY <1>4, <1>6, <2>1, <2>3
<1>8. ~Refused(owner, popped, n - 1) /\ ~BadBeat(owner, n)
  <2>1. \A j \in 0 .. n : ~BadWord(owner, popped, j)
    BY <1>6 DEF Refused
  <2> QED
    BY <2>1 DEF Refused, BadWord
<1>9. Len(made) = n
  BY <1>6, <1>7, <1>8, AllAreWritten
<1> QED
  BY <1>2, <1>6, <1>8, <1>9

\* A read access is that of the beat the control has counted to, and the next to be pushed.
LEMMA ReadAccess ==
  ASSUME TbTrace, Driven, state = "REN"
  PROVE  /\ beat \in Nat /\ paddr = AxiAddress(item.cmd, beat) /\ ~BadBeat(item.cmd, beat)
         /\ served = beat /\ ~pushReadReg /\ ReadInHand /\ ~HandedOut /\ item.cmd.write = FALSE
<1>1. Side!ReadAddrInv /\ Side!BeatInv /\ Side!PushInv /\ Side!Owned
  BY DEF TbTrace, ReadTraceInv, SideReadInv, Side!AddressedInv, Side!OrderedInv, Side!ReadInv, Side!MasterInv
<1>2. owner = item.cmd /\ item.cmd.write \in BOOLEAN /\ ~owner.write
  BY <1>1, DrivenIsOpen, ItemInHand, ItemTyped DEF Driven, Side!Owned, Side!ReadStates
<1>3. openReads = <<item.cmd>> /\ openReads # <<>>
  BY <1>2, DrivenIsOpen, ItemInHand, ShortLists DEF Driven
<1>4. ~pushReadReg /\ beat = served /\ served \in Nat
  BY <1>1 DEF Side!PushInv, Side!BeatInv, Side!Pushing, Side!ReadStates
<1>5. paddr = AxiAddress(owner, beat) /\ ~BadBeat(owner, beat)
  BY <1>1, <1>4, SideRules DEF Side!ReadAddrInv, Side!At, Side!GoodUpTo
<1> QED
  BY <1>2, <1>3, <1>4, <1>5 DEF ReadInHand, HandedOut

----------------------------------------------------------------------------
(* What the checkers compare.                                                 *)

\* The words of a burst are numbered from zero, in the handle and on their way.
Numbered(d) == \A i \in 1 .. Len(d) : d[i] = i - 1
NumberedTo(t, n) == \A i \in 1 .. Len(t) : t[i].data = n - Len(t) + i - 1

\* The access the monitor has in hand is still on the bus, and what the bridge has of a read
\* is what the slave driver drives,
SetupInv ==
  /\ setup # <<>> => setup[1].addr = Slave!Short(paddr)
  /\ state = "REN" => prdata = slaveData

\* and those in a queue are of the beats from the one its checker has come to.
AtItsBeat(q, idx) ==
  \A j \in 1 .. Len(q) :
    /\ ~BadBeat(item.cmd, idx + j - 1) /\ q[j].addr = AxiAddress(item.cmd, idx + j - 1)
OfItsWord(q, idx) == \A j \in 1 .. Len(q) : q[j].data = idx + j - 1

\* The k-th beat is d, if its access is still to be checked.
Agrees(q, idx, k, d) == k \in idx .. idx + Len(q) - 1 => q[k + 1 - idx].data = d

\* What the slaves answered goes through the packer and the read buffer into the handle.
Behind == \A i \in 1 .. Len(readQueue) : numbers[i] < served
DataArrives(q, idx) ==
  /\ \A i \in 1 .. Len(readQueue) : Agrees(q, idx, numbers[i], readQueue[i].data)
  /\ (beatsGot > 0 \/ HandedOut) => \A i \in 1 .. Len(rdT.data) : Agrees(q, idx, i - 1, rdT.data[i])
  /\ (pushReadReg \/ state = "RBUFWT") => Agrees(q, idx, served, axiData)

Along ==
  /\ CountInv /\ SetupInv /\ NumberedTo(toSend, Wanted) /\ Behind
  /\ AtItsBeat(apbWriteQ, writeIdx) /\ OfItsWord(apbWriteQ, writeIdx)
  /\ AtItsBeat(apbReadQ, readIdx) /\ DataArrives(apbReadQ, readIdx)

AlarmInv == ~complaint /\ Numbered(wrT.data) /\ Along

\* With nothing observed or under way there is nothing to compare.
LEMMA QuietIs ==
  ASSUME state = "IDLE", setup = <<>>, toSend = <<>>, readQueue = <<>>,
         apbWriteQ = <<>>, apbReadQ = <<>>, readIdx \in Nat
  PROVE  Along
<1>1. CountInv /\ SetupInv
  BY DEF CountInv, SetupInv
<1>2. NumberedTo(toSend, Wanted) /\ Behind
  <2> HIDE DEF Wanted
  <2> QED
    BY ShortLists DEF NumberedTo, Behind
<1>3. /\ AtItsBeat(apbWriteQ, writeIdx) /\ OfItsWord(apbWriteQ, writeIdx)
      /\ AtItsBeat(apbReadQ, readIdx)
  BY ShortLists DEF AtItsBeat, OfItsWord
<1>4. DataArrives(apbReadQ, readIdx)
  <2>1. \A k, d : Agrees(apbReadQ, readIdx, k, d)
    BY ShortLists DEF Agrees
  <2> QED
    BY <2>1 DEF DataArrives
<1> QED
  BY <1>1, <1>2, <1>3, <1>4 DEF Along

\* So it is between two bursts.
LEMMA CleanIsQuiet == ASSUME TbTrace, Clean PROVE Along
<1>1. state = "IDLE" /\ readQueue = <<>>
  BY BridgeRests DEF Clean
<1>2. setup = <<>> /\ toSend = <<>> /\ apbWriteQ = <<>> /\ apbReadQ = <<>> /\ readIdx = 0
  BY DEF Clean, Scb!NothingWaits
<1> QED
  BY <1>1, <1>2, QuietIs

LEMMA AlarmInit == TbInit => AlarmInv
<1> SUFFICES ASSUME TbInit PROVE AlarmInv
  OBVIOUS
<1>1. /\ setup = <<>> /\ toSend = <<>> /\ readQueue = <<>> /\ state = "IDLE"
      /\ apbWriteQ = <<>> /\ apbReadQ = <<>> /\ readIdx = 0 /\ complaint = FALSE
  BY DEF TbInit, HistoryInit, Init, Slave!Init, Scb!Init, ReadQueue!Init, Apb!Reset
<1>2. wrT.data = <<>>
  BY DEF TbInit, Axi!Init, Axi!Emptyhanded
<1> QED
  BY <1>1, <1>2, QuietIs, ShortLists DEF AlarmInv, Numbered

\* A sequence starts when nothing is left of the burst before,
LEMMA NextItemKeepsAlarm == ASSUME TbTrace, TbInv, AlarmInv, NextItem PROVE AlarmInv'
<1>1. Clean
  BY RestsClean DEF NextItem
<1>2. state = "IDLE" /\ readQueue = <<>>
  BY <1>1, BridgeRests DEF Clean
<1>3. UNCHANGED <<state, readQueue, toSend, setup, apbWriteQ, apbReadQ, readIdx, complaint, wrT>>
  BY DEF NextItem, historyVars, vars, queues, partners, registers, readVars, monitorVars, observers,
         scbVars
<1>4. Along'
  <2>1. /\ state' = "IDLE" /\ setup' = <<>> /\ toSend' = <<>> /\ readQueue' = <<>>
        /\ apbWriteQ' = <<>> /\ apbReadQ' = <<>> /\ readIdx' = 0
    BY <1>1, <1>2, <1>3 DEF Clean, Scb!NothingWaits
  <2>2. (state = "IDLE" /\ setup = <<>> /\ toSend = <<>> /\ readQueue = <<>>
           /\ apbWriteQ = <<>> /\ apbReadQ = <<>> /\ readIdx \in Nat => Along)'
    BY QuietIs, PTL
  <2> QED
    BY <2>1, <2>2
<1> QED
  BY <1>3, <1>4 DEF AlarmInv, Numbered

\* and the driver starts on it before the bridge has come to it.
LEMMA DriveItemKeepsAlarm == ASSUME TbTrace, TbInv, AlarmInv, DriveItem PROVE AlarmInv'
<1>1. Busy /\ Along /\ Counters
  BY DEF TbInv, AlarmInv, DriveItem, Axi!Drive, Clean
<1>2. /\ openWrites = <<>> /\ openReads = <<>> /\ toSend = <<>> /\ state = "IDLE"
      /\ phase = "drive"
      /\ UNCHANGED <<item, registers, popped, slaveItems, setup, beatsGot, wrT, rdT, wrCnt,
                     rdCnt, observers>>
  BY <1>1, DriveItemIs DEF Busy
<1>3. readQueue = <<>>
  BY <1>2, BridgeRests
<1>4. setup = <<>> /\ apbWriteQ = <<>> /\ apbReadQ = <<>> /\ readIdx = 0
  <2>1. ~HandedOut
    BY <1>2 DEF HandedOut
  <2>2. setup = <<>> /\ Wanted - slaveItems = 0 /\ Wanted \in Nat /\ slaveItems \in Nat
    <3>1. Unstarted
      BY <1>2 DEF Unstarted
    <3>2. Len(setup) = 0 /\ IsSeq(setup)
      BY <1>1, <1>2 DEF Busy, SlaveInv, One
    <3> QED
      BY <1>1, <3>1, <3>2, ListsGrow, Numbers DEF Busy, SlaveInv, Served
  <2>3. Accessed = 0
    BY <2>2, ShortLists DEF Accessed
  <2> HIDE DEF Accessed, Wanted
  <2>4. Len(apbWriteQ) = 0 \/ apbWriteQ = <<>>
    BY <1>1, <2>1, <2>3 DEF Busy, ScbInv, Checks
  <2>5. (Len(apbReadQ) = 0 \/ apbReadQ = <<>>) /\ readIdx = 0
    BY <1>1, <2>1, <2>3 DEF Busy, ScbInv, Checks
  <2> QED
    BY <1>1, <2>2, <2>4, <2>5, ListsGrow DEF Counters
<1>5. readQueue' = readQueue /\ NumberedTo(toSend', Wanted')
  <2>1. CASE item.cmd.write
    <3>1. SendWrite /\ openWrites' = Append(openWrites, item)
      BY <2>1 DEF DriveItem
    <3>2. readQueue' = readQueue
      BY <3>1 DEF SendWrite, readVars
    <3>3. PICK b \in WriteBursts : openWrites' = Append(openWrites, b)
                                   /\ toSend' = toSend \o WordsOf(b)
      BY <3>1 DEF SendWrite
    <3>4. openWrites' = <<item>> /\ openWrites' = <<b>>
      BY <1>2, <3>1, <3>3
    <3>5. b = item
      BY <3>4
    <3>6. /\ WordsOf(item) \in Seq(SentWords) /\ Len(WordsOf(item)) = Wanted
          /\ item.cmd.len \in Nat /\ Wanted \in Nat
          /\ \A i \in 1 .. Wanted : WordsOf(item)[i] = WordAt(item, i - 1)
      BY <3>5, WordsOfBurst DEF Wanted
    <3>7. toSend' = WordsOf(item) /\ Wanted' = Wanted
      BY <1>2, <3>3, <3>5, <3>6 DEF Wanted
    <3> HIDE DEF Wanted
    <3>8. \A i \in 1 .. Len(toSend') : toSend'[i].data = Wanted' - Len(toSend') + i - 1
      <4> SUFFICES ASSUME NEW i \in 1 .. Len(toSend')
                   PROVE  toSend'[i].data = Wanted' - Len(toSend') + i - 1
        OBVIOUS
      <4>1. Len(toSend') = Wanted /\ toSend'[i] = WordAt(item, i - 1)
        BY <3>6, <3>7
      <4>2. toSend'[i].data = i - 1
        BY <4>1 DEF WordAt
      <4>3. i \in Int
        OBVIOUS
      <4> QED
        BY <3>6, <3>7, <4>1, <4>2, <4>3
    <3> QED
      BY <3>2, <3>8 DEF NumberedTo
  <2>2. CASE ~item.cmd.write
    <3>1. SendRead
      BY <2>2 DEF DriveItem
    <3>2. UNCHANGED <<readQueue, toSend>>
      BY <3>1 DEF SendRead, readVars
    <3> QED
      BY <1>2, <3>2, ShortLists DEF NumberedTo
  <2> QED
    BY <2>1, <2>2
<1>6. /\ UNCHANGED <<state, beat, setup, paddr, complaint, wrT, apbWriteQ, apbReadQ, writeIdx, readIdx>>
  BY <1>2 DEF registers, observers, scbVars
<1>7. CountInv' /\ SetupInv' /\ Behind'
  BY <1>2, <1>3, <1>4, <1>5, <1>6, ShortLists DEF CountInv, SetupInv, Behind
<1>8. /\ AtItsBeat(apbWriteQ, writeIdx)' /\ OfItsWord(apbWriteQ, writeIdx)'
      /\ AtItsBeat(apbReadQ, readIdx)' /\ DataArrives(apbReadQ, readIdx)'
  <2>1. \A k, d : Agrees(apbReadQ', readIdx', k, d)
    BY <1>4, <1>6, ShortLists DEF Agrees
  <2> QED
    BY <1>4, <1>6, <2>1, ShortLists DEF AtItsBeat, OfItsWord, DataArrives
<1> QED
  BY <1>1, <1>5, <1>6, <1>7, <1>8 DEF AlarmInv, Along, Numbered

(* At an edge of aclk.                                                        *)

\* What is on its way is lists, and each beat in the buffer has a number.
LEMMA OnTheWay ==
  ASSUME TbTrace
  PROVE  /\ IsSeq(toSend) /\ IsSeq(readQueue) /\ IsSeq(numbers)
         /\ Len(numbers) = Len(readQueue) + 1 /\ numbers[1] = beatsGot
         /\ \A i \in 1 .. Len(numbers) : numbers[i] \in Nat
         /\ numbers[Len(numbers)] = IF ReadInHand THEN served ELSE 0
<1>1. IsSeq(toSend)
  BY DEF TbTrace, WriteTraceInv, WordsInv, IsSeq
<1>2. IsSeq(readQueue)
  BY DEF TbTrace, ReadTraceInv, TrafficInv, BridgeInv, QueuesSafe, Bracketed, IsSeq
<1>3. BeatsInv("any")
  BY DEF TbTrace, ReadTraceInv
<1>4. numbers \in Seq(Nat) /\ Len(numbers) = Len(readQueue) + 1
  BY <1>3 DEF BeatsInv, InOrder
<1> QED
  BY <1>1, <1>2, <1>3, <1>4 DEF BeatsInv, IsSeq

\* The monitor's array keeps the words up to the count, and has the new one behind them.
LEMMA ResizedKeeps ==
  ASSUME NEW d, IsSeq(d), NEW c \in Nat, c = 0 \/ Len(d) = c, NEW x
  PROVE  /\ \A j \in 1 .. c : Axi!Resized(d, c, x)[j] = d[j]
         /\ Axi!Resized(d, c, x)[c + 1] = x
<1>1. CASE c = 0
  <2>1. SubSeq(d, 1, c) = <<>>
    BY <1>1 DEF IsSeq
  <2>2. Append(<<>>, x)[Len(<<>>) + 1] = x /\ Len(<<>>) = 0
    BY ShortLists, ListsIndexed
  <2>3. Append(<<>>, x)[c + 1] = x
    BY <1>1, <2>2
  <2> QED
    BY <1>1, <2>1, <2>3 DEF Axi!Resized
<1>2. CASE c # 0 /\ Len(d) = c
  <2>1. PICK S : d \in Seq(S)
    BY DEF IsSeq
  <2>2. /\ SubSeq(d, 1, c) \in Seq(S) /\ Len(SubSeq(d, 1, c)) = c
        /\ \A j \in 1 .. c : SubSeq(d, 1, c)[j] = d[j]
    BY <1>2, <2>1
  <2>3. IsSeq(SubSeq(d, 1, c))
    BY <2>2 DEF IsSeq
  <2>4. /\ \A j \in 1 .. c : Append(SubSeq(d, 1, c), x)[j] = SubSeq(d, 1, c)[j]
        /\ Append(SubSeq(d, 1, c), x)[c + 1] = x
    BY <2>2, <2>3, ListsIndexed
  <2> QED
    BY <2>2, <2>4 DEF Axi!Resized
<1> QED
  BY <1>1, <1>2

\* What the edge does to the beats and to what the APB side is at.
LEMMA AclkBeats ==
  ASSUME TbTrace, TbAclk
  PROVE  /\ readQueue' = IF SeesBeat THEN Tail(readQueue) ELSE readQueue
         /\ numbers' = IF SeesBeat THEN Tail(numbers) ELSE numbers
         /\ UNCHANGED <<made, served, complaint>>
<1> DEFINE w == TakesWord  b == SeesResponse  r == SeesBeat
<1>1. AclkWith(w, b, r) /\ AclkRecorded(r)
  BY DEF TbAclk, TakesWord, SeesResponse, SeesBeat
<1>2. r => ~ReadQueue!PopEmpty
  BY DEF SeesBeat, rvalid
<1>3. complaint' = complaint
  BY DEF TbAclk, Scb!Received
<1> HIDE DEF w, b, r
<1>4. readQueue' = IF r THEN Tail(readQueue) ELSE readQueue
  BY <1>1, <1>2 DEF AclkWith, ReadQueue!PopEdge
<1>5. numbers' = (IF r THEN Tail(numbers) ELSE numbers) /\ UNCHANGED <<made, served>>
  BY <1>1 DEF AclkRecorded
<1> QED
  BY <1>3, <1>4, <1>5 DEF r

\* The word taken is the one its place in the burst says.
LEMMA AclkKeepsNumbers ==
  ASSUME TbTrace, Counters, Busy, AlarmInv, TbAclk
  PROVE  Numbered(wrT'.data) /\ NumberedTo(toSend', Wanted)
<1>1. Numbered(wrT.data) /\ NumberedTo(toSend, Wanted) /\ IsSeq(toSend)
  BY OnTheWay DEF AlarmInv, Along
<1>2. CASE ~TakesWord
  BY <1>1, <1>2, AclkIs, AclkAgents
<1>3. CASE TakesWord
  <2> DEFINE n == Wanted  m == Len(toSend)  c == wrCnt  x == Head(toSend).data
  <2>1. toSend # <<>> /\ m \in 1 .. n /\ n \in Nat /\ Len(Tail(toSend)) = m - 1
    BY <1>3, WordsTaken, Numbers, Zenon DEF Busy, TakesWord
  <2>2. c = n - m
    BY <2>1 DEF Busy, HandlesInv
  <2>3. toSend' = Tail(toSend) /\ wrT'.data = Axi!Resized(wrT.data, c, x)
    BY <1>3, AclkIs, AclkAgents
  <2>4. c = 0 \/ Len(wrT.data) = c
    <3>1. item.cmd.write /\ c \in Nat
      <4>1. c \in Nat
        <5> HIDE DEF n, m, c
        <5> QED
          BY <2>1, <2>2
      <4> QED
        BY <2>1, <4>1, WordsTaken, Zenon DEF Busy
    <3> QED
      BY <3>1 DEF Busy, HandlesInv
  <2>5. Len(wrT'.data) = c + 1 /\ IsSeq(wrT.data)
    BY <1>3, ArraysGrow DEF Counters
  <2>6. \A i \in 1 .. m : toSend[i].data = n - m + i - 1
    BY <1>1 DEF NumberedTo
  <2>7. Head(toSend) = toSend[1] /\ \A i \in 1 .. m - 1 : Tail(toSend)[i] = toSend[i + 1]
    BY <1>1, <2>1, ListsIndexed
  <2>8. x = c
    <3>1. x = toSend[1].data
      BY <2>7
    <3> HIDE DEF n, m, c, x
    <3> QED
      BY <2>1, <2>2, <2>6, <3>1
  <2>9. c \in Nat
    <3> HIDE DEF n, m, c, x
    <3> QED
      BY <2>1, <2>2
  <2>10. /\ \A j \in 1 .. c : wrT'.data[j] = wrT.data[j]
         /\ wrT'.data[c + 1] = x
    BY <2>3, <2>4, <2>5, <2>9, ResizedKeeps
  <2>11. Numbered(wrT'.data)
    <3> SUFFICES ASSUME NEW i \in 1 .. Len(wrT'.data) PROVE wrT'.data[i] = i - 1
      BY DEF Numbered
    <3>1. i \in 1 .. c + 1 /\ (i = c + 1 \/ i \in 1 .. c)
      BY <2>5, <2>9
    <3>2. CASE i = c + 1
      BY <2>8, <2>9, <2>10, <3>2
    <3>3. CASE i \in 1 .. c
      <4>1. i \in 1 .. Len(wrT.data)
        BY <2>4, <2>9, <3>3
      <4> QED
        BY <1>1, <2>10, <3>3, <4>1 DEF Numbered
    <3> QED
      BY <3>1, <3>2, <3>3
  <2>12. NumberedTo(Tail(toSend), n)
    <3> SUFFICES ASSUME NEW i \in 1 .. m - 1
                 PROVE  Tail(toSend)[i].data = n - (m - 1) + i - 1
      BY <2>1 DEF NumberedTo
    <3>1. Tail(toSend)[i] = toSend[i + 1]
      BY <2>7
    <3> HIDE DEF n, m
    <3>2. i + 1 \in 1 .. m /\ toSend[i + 1].data = n - m + (i + 1) - 1
      BY <2>1, <2>6
    <3> QED
      BY <2>1, <3>1, <3>2
  <2> QED
    BY <2>3, <2>11, <2>12, Zenon
<1> QED
  BY <1>2, <1>3

\* The beat taken goes into the array at its own number.
LEMMA AclkKeepsData ==
  ASSUME TbTrace, Counters, Busy, AlarmInv, TbAclk
  PROVE  Behind' /\ DataArrives(apbReadQ, readIdx)'
<1>1. Behind /\ DataArrives(apbReadQ, readIdx)
  BY DEF AlarmInv, Along
<1>2. /\ UNCHANGED <<apbReadQ, readIdx, served, state, pushReadReg, axiData, item>>
      /\ readQueue' = IF SeesBeat THEN Tail(readQueue) ELSE readQueue
      /\ numbers' = IF SeesBeat THEN Tail(numbers) ELSE numbers
  BY AclkIs, AclkBeats, AclkObservers DEF registers
<1>3. /\ IsSeq(readQueue) /\ IsSeq(numbers) /\ Len(numbers) = Len(readQueue) + 1
      /\ numbers[1] = beatsGot /\ Len(readQueue) \in Nat
  BY OnTheWay, ListsGrow
<1> DEFINE A(k, d) == Agrees(apbReadQ, readIdx, k, d)
<1>4. \A k, d : Agrees(apbReadQ', readIdx', k, d) = A(k, d)
  BY <1>2
<1>5. (pushReadReg' \/ state' = "RBUFWT") => A(served', axiData')
  BY <1>1, <1>2 DEF DataArrives
<1>6. CASE ~SeesBeat
  <2>1. readQueue' = readQueue /\ numbers' = numbers /\ ~LastBeatSeen
    BY <1>2, <1>6 DEF LastBeatSeen
  <2>2. beatsGot' = beatsGot /\ rdT'.data = rdT.data
    <3>1. beatsGot' = beatsGot + 0 /\ beatsGot \in Nat
      BY <1>6, <2>1, AclkIs DEF Counters
    <3> QED
      BY <1>6, <3>1, AclkAgents
  <2>3. (beatsGot' > 0 \/ HandedOut') => \A i \in 1 .. Len(rdT'.data) : A(i - 1, rdT'.data[i])
    <3>1. CASE LastWord
      <4>1. item.cmd.write = TRUE
        BY <3>1, HandsOut DEF Busy
      <4>2. apbReadQ = <<>> /\ readIdx = 0
        BY <4>1 DEF Busy, ScbInv, Checks
      <4> QED
        BY <4>2, ShortLists DEF Agrees
    <3>2. CASE ~LastWord
      <4>1. HandedOut' <=> HandedOut
        BY <2>1, <3>2, HandsOut DEF Busy
      <4> HIDE DEF HandedOut, A
      <4> QED
        BY <1>1, <2>2, <4>1 DEF DataArrives, A
    <3> QED
      BY <3>1, <3>2
  <2>4. Behind'
    BY <1>1, <1>2, <2>1 DEF Behind
  <2>5. \A i \in 1 .. Len(readQueue') : A(numbers'[i], readQueue'[i].data)
    BY <1>1, <2>1 DEF DataArrives
  <2> HIDE DEF A, HandedOut
  <2> QED
    BY <1>4, <1>5, <2>3, <2>4, <2>5 DEF DataArrives
<1>7. CASE SeesBeat
  <2> DEFINE n == Len(readQueue)  c == beatsGot  x == Head(readQueue).data
  <2>1. readQueue # <<>> /\ ~item.cmd.write /\ readQueue' = Tail(readQueue) /\ numbers' = Tail(numbers)
    BY <1>2, <1>7, AclkIs, AnswersOfItem DEF Busy
  <2>2. n \in Nat \ {0} /\ Len(Tail(readQueue)) = n - 1 /\ numbers # <<>>
    BY <1>3, <2>1, ListsGrow, ShortLists
  <2>3. /\ Head(readQueue) = readQueue[1]
        /\ \A i \in 1 .. n - 1 : Tail(readQueue)[i] = readQueue[i + 1]
        /\ \A i \in 1 .. n : Tail(numbers)[i] = numbers[i + 1]
    <3>1. \A j \in 1 .. Len(numbers) - 1 : Tail(numbers)[j] = numbers[j + 1]
      BY <1>3, <2>2, ListsIndexed
    <3>2. Len(numbers) - 1 = n
      BY <1>3, <2>2
    <3> QED
      BY <1>3, <2>1, <3>1, <3>2, ListsIndexed
  <2>4. /\ \A i \in 1 .. n : numbers[i] < served
        /\ \A i \in 1 .. n : A(numbers[i], readQueue[i].data)
    BY <1>1 DEF Behind, DataArrives
  <2>5. Behind'
    <3> SUFFICES ASSUME NEW i \in 1 .. n - 1 PROVE Tail(numbers)[i] < served
      BY <1>2, <2>1, <2>2 DEF Behind
    <3>1. i \in 1 .. n /\ i + 1 \in 1 .. n
      BY <2>2
    <3> QED
      BY <2>3, <2>4, <3>1
  <2>6. \A i \in 1 .. Len(readQueue') : A(numbers'[i], readQueue'[i].data)
    <3> SUFFICES ASSUME NEW i \in 1 .. n - 1
                 PROVE  A(Tail(numbers)[i], Tail(readQueue)[i].data)
      BY <2>1, <2>2
    <3>1. i \in 1 .. n /\ i + 1 \in 1 .. n
      BY <2>2
    <3> HIDE DEF A
    <3> QED
      BY <2>3, <2>4, <3>1
  <2>7. c \in Nat /\ rdCnt = c /\ IsSeq(rdT.data) /\ (c = 0 \/ Len(rdT.data) = c)
    BY <2>1 DEF Counters, Busy, HandlesInv
  <2>8. rdT'.data = Axi!Resized(rdT.data, c, x) /\ Len(rdT'.data) = c + 1
    BY <1>7, <2>7, AclkAgents, ArraysGrow
  <2>9. /\ \A j \in 1 .. c : rdT'.data[j] = rdT.data[j]
        /\ rdT'.data[c + 1] = x
    BY <2>7, <2>8, ResizedKeeps
  <2>10. \A i \in 1 .. Len(rdT'.data) : A(i - 1, rdT'.data[i])
    <3> SUFFICES ASSUME NEW i \in 1 .. c + 1 PROVE A(i - 1, rdT'.data[i])
      BY <2>8
    <3>1. i = c + 1 \/ i \in 1 .. c
      BY <2>7
    <3>2. CASE i = c + 1
      <4>1. i - 1 = numbers[1] /\ rdT'.data[i] = readQueue[1].data /\ 1 \in 1 .. n
        BY <1>3, <2>2, <2>3, <2>7, <2>9, <3>2
      <4> HIDE DEF A
      <4> QED
        BY <2>4, <4>1
    <3>3. CASE i \in 1 .. c
      <4>1. c > 0 /\ i \in 1 .. Len(rdT.data) /\ rdT'.data[i] = rdT.data[i]
        BY <2>7, <2>9, <3>3
      <4> HIDE DEF HandedOut
      <4> QED
        BY <1>1, <4>1 DEF DataArrives
    <3> QED
      BY <3>1, <3>2, <3>3
  <2> HIDE DEF A, HandedOut
  <2> QED
    BY <1>4, <1>5, <2>5, <2>6, <2>10 DEF DataArrives
<1> QED
  BY <1>6, <1>7

LEMMA AclkKeepsAlarm == ASSUME TbTrace, TbTrace', TbInv, AlarmInv, TbAclk PROVE AlarmInv'
<1>1. complaint' = complaint /\ Counters
  BY AclkBeats DEF TbInv
<1>2. CASE Clean
  <2>1. Clean'
    BY <1>1, <1>2, AclkKeepsClean
  <2>2. (TbTrace /\ Clean => Along)'
    BY CleanIsQuiet, PTL
  <2>3. wrT'.data = wrT.data
    BY <1>2, AclkAgents DEF Clean, TakesWord
  <2> QED
    BY <1>1, <2>1, <2>2, <2>3 DEF AlarmInv, Numbered
<1>3. CASE Busy
  <2>1. /\ UNCHANGED <<state, beat, served, made, owner, paddr, item, slaveItems, setup, apbWriteQ,
                       apbReadQ, writeIdx, readIdx>>
        /\ UNCHANGED <<prdata, slaveData>>
    BY <1>1, AclkIs, AclkBeats, AclkObservers DEF registers, TbAclk, slaveVars, AclkWith
  <2>2. CountInv' /\ SetupInv' /\ Wanted' = Wanted
    BY <2>1 DEF AlarmInv, Along, CountInv, SetupInv, Begun, Wanted
  <2>3. /\ AtItsBeat(apbWriteQ, writeIdx)' /\ OfItsWord(apbWriteQ, writeIdx)'
        /\ AtItsBeat(apbReadQ, readIdx)'
    BY <2>1 DEF AlarmInv, Along, AtItsBeat, OfItsWord
  <2>4. Numbered(wrT.data)' /\ NumberedTo(toSend', Wanted)
    BY <1>1, <1>3, AclkKeepsNumbers
  <2>5. Behind' /\ DataArrives(apbReadQ, readIdx)'
    BY <1>1, <1>3, AclkKeepsData
  <2> HIDE DEF Wanted
  <2> QED
    BY <1>1, <2>2, <2>3, <2>4, <2>5 DEF AlarmInv, Along
<1> QED
  BY <1>2, <1>3 DEF TbInv

(* At an edge of pclk.                                                        *)

\* An access joins those of its queue, at the beat behind them.
LEMMA AccessJoins ==
  ASSUME NEW q, IsSeq(q), NEW idx \in Nat, NEW n \in Nat, idx + Len(q) = n, NEW x
  PROVE  /\ (/\ AtItsBeat(q, idx) /\ ~BadBeat(item.cmd, n) /\ x.addr = AxiAddress(item.cmd, n))
              => AtItsBeat(Append(q, x), idx)
         /\ (OfItsWord(q, idx) /\ x.data = n) => OfItsWord(Append(q, x), idx)
         /\ \A k, d : (Agrees(q, idx, k, d) /\ k # n) => Agrees(Append(q, x), idx, k, d)
         /\ Agrees(Append(q, x), idx, n, x.data)
<1> DEFINE l == Len(q)  r == Append(q, x)
<1>1. /\ l \in Nat /\ Len(r) = l + 1
      /\ \A j \in 1 .. l : r[j] = q[j]
      /\ r[l + 1] = x
  BY ListsGrow, ListsIndexed
<1>2. \A j \in 1 .. Len(r) : j \in 1 .. l \/ (j = l + 1 /\ idx + j - 1 = n)
  <2> HIDE DEF r
  <2> QED
    BY <1>1
<1>3. ASSUME AtItsBeat(q, idx), ~BadBeat(item.cmd, n), x.addr = AxiAddress(item.cmd, n)
      PROVE  AtItsBeat(r, idx)
  <2> SUFFICES ASSUME NEW j \in 1 .. Len(r)
               PROVE  /\ ~BadBeat(item.cmd, idx + j - 1)
                      /\ r[j].addr = AxiAddress(item.cmd, idx + j - 1)
    BY DEF AtItsBeat
  <2> HIDE DEF r
  <2> QED
    BY <1>1, <1>2, <1>3 DEF AtItsBeat
<1>4. ASSUME OfItsWord(q, idx), x.data = n PROVE OfItsWord(r, idx)
  <2> SUFFICES ASSUME NEW j \in 1 .. Len(r) PROVE r[j].data = idx + j - 1
    BY DEF OfItsWord
  <2> HIDE DEF r
  <2> QED
    BY <1>1, <1>2, <1>4 DEF OfItsWord
<1>5. ASSUME NEW k, NEW d, Agrees(q, idx, k, d), k # n PROVE Agrees(r, idx, k, d)
  <2> SUFFICES ASSUME k \in idx .. idx + Len(r) - 1 PROVE r[k + 1 - idx].data = d
    BY DEF Agrees
  <2> HIDE DEF r
  <2>1. k \in idx .. idx + l - 1 /\ k + 1 - idx \in 1 .. l
    BY <1>1, <1>5
  <2> QED
    BY <1>1, <1>5, <2>1 DEF Agrees
<1>6. Agrees(r, idx, n, x.data)
  <2>1. n + 1 - idx = l + 1
    BY <1>1
  <2> HIDE DEF r
  <2> QED
    BY <1>1, <2>1 DEF Agrees
<1> QED
  BY <1>3, <1>4, <1>5, <1>6

\* The monitor has the whole address of a beat that is not bad.
LEMMA GoodAddressIsShort ==
  ASSUME NoReserved, InMonitorRange, Driven, NEW n \in Nat, ~BadBeat(item.cmd, n)
  PROVE  Slave!Short(AxiAddress(item.cmd, n)) = AxiAddress(item.cmd, n)
<1> DEFINE a == AxiAddress(item.cmd, n)
<1>1. a \in 0 .. AddrSpace - 1
  <2>1. item.cmd \in Commands /\ item.cmd.burst # RESERVED
    BY ItemTyped DEF Driven, NoReserved
  <2>2. ~InitialCmdError(item.cmd) /\ ~WrapError(item.cmd)
    BY DEF BadBeat
  <2>3. Side!Legal(item.cmd)
    BY <2>1, <2>2, SideAssumptions
    DEF Side!Legal, Side!IsCommand, RESERVED, Side!RESERVED, Side!InitialCmdError, InitialCmdError,
        Side!WrapError, WrapError, Side!WordBytes, WordBytes, Side!AlignSize, AlignSize,
        Side!WRAP, WRAP
  <2> QED
    BY <2>3, SideAssumptions, Side!AddressInRange, SideRules
<1>2. Decode(a) # {}
  BY DEF BadBeat
<1>3. 2 ^ 16 = 65536
  BY Z3
<1>4. a \in Nat /\ a < 65536
  BY <1>1, <1>2, <1>3, AddrSpaceAssumption DEF InMonitorRange
<1> HIDE DEF a
<1>5. a % 65536 = a
  BY <1>4
<1> QED
  BY <1>3, <1>5 DEF Slave!Short, a

\* The monitor hands out the access it has in hand with what the pins carry now.
LEMMA PclkPublishes ==
  ASSUME TbTrace, TbInv, Busy, SetupInv, TbPclk
  PROVE  /\ complaint' = complaint
         /\ setup # <<>> <=> state \in {"WEN", "REN"}
         /\ UNCHANGED <<writeIdx, readIdx>>
         /\ state = "WEN" => /\ \E x : /\ apbWriteQ' = Append(apbWriteQ, x)
                                       /\ x.addr = Slave!Short(paddr) /\ x.data = pwdata
                             /\ apbReadQ' = apbReadQ
         /\ state = "REN" => /\ \E x : /\ apbReadQ' = Append(apbReadQ, x)
                                       /\ x.addr = Slave!Short(paddr) /\ x.data = prdata
                             /\ apbWriteQ' = apbWriteQ
         /\ state \notin {"WEN", "REN"} => UNCHANGED <<apbWriteQ, apbReadQ>>
<1> DEFINE seen == Slave!Published(pwdata)
<1>1. setup # <<>> <=> state \in {"WEN", "REN"}
  <2>1. IsSeq(setup) /\ Len(setup) = One(state \in {"WEN", "REN"})
    BY DEF Busy, SlaveInv
  <2> QED
    BY <2>1, ListsGrow DEF One
<1>2. Scb!Received(FALSE, FALSE, seen)
  BY DEF TbPclk
<1>3. /\ complaint' = complaint /\ UNCHANGED <<writeIdx, readIdx>>
      /\ apbWriteQ' = apbWriteQ \o (IF seen # <<>> /\ seen[1].write = TRUE THEN seen ELSE <<>>)
      /\ apbReadQ' = apbReadQ \o (IF seen # <<>> /\ seen[1].write = FALSE THEN seen ELSE <<>>)
  BY <1>2 DEF Scb!Received
<1>4. ASSUME setup # <<>>
      PROVE  \E x : /\ seen = <<x>> /\ x.write = item.cmd.write /\ x.addr = Slave!Short(paddr)
                    /\ x.data = IF item.cmd.write THEN pwdata ELSE slaveData
  <2>1. setup[1].write = item.cmd.write /\ setup[1].addr = Slave!Short(paddr)
    BY <1>4 DEF Busy, SlaveInv, SetupInv
  <2> QED
    BY <1>4, <2>1 DEF Slave!Published
<1>5. IsSeq(apbWriteQ) /\ IsSeq(apbReadQ)
  BY DEF TbInv, Counters
<1> HIDE DEF seen
<1>6. ASSUME NEW x, seen = <<x>>, x.write \in BOOLEAN
      PROVE  /\ apbWriteQ' = IF x.write THEN Append(apbWriteQ, x) ELSE apbWriteQ
             /\ apbReadQ' = IF x.write THEN apbReadQ ELSE Append(apbReadQ, x)
  <2>1. seen # <<>> /\ seen[1] = x
    BY <1>6
  <2>2. /\ apbWriteQ \o <<>> = apbWriteQ /\ apbWriteQ \o <<x>> = Append(apbWriteQ, x)
        /\ apbReadQ \o <<>> = apbReadQ /\ apbReadQ \o <<x>> = Append(apbReadQ, x)
    BY <1>5, ListsGrow
  <2>3. /\ apbWriteQ' = apbWriteQ \o (IF x.write = TRUE THEN <<x>> ELSE <<>>)
        /\ apbReadQ' = apbReadQ \o (IF x.write = FALSE THEN <<x>> ELSE <<>>)
    BY <1>3, <1>6, <2>1
  <2> QED
    BY <1>6, <2>2, <2>3
<1>7. item.cmd.write = (state = "WEN") \/ setup = <<>>
  <2>1. state \in {"WEN", "REN"} => owner = item.cmd
    BY DrivenIsOpen, ItemInHand DEF Busy
  <2>2. Side!Owned
    BY DEF TbTrace, ReadTraceInv, SideReadInv, Side!AddressedInv, Side!OrderedInv, Side!ReadInv
  <2>3. item.cmd.write \in BOOLEAN
    BY Numbers DEF Busy
  <2> QED
    BY <1>1, <2>1, <2>2, <2>3 DEF Side!Owned, Side!ReadStates, Side!WriteStates
<1>8. CASE setup = <<>>
  <2>1. state \notin {"WEN", "REN"}
    BY <1>1, <1>8
  <2> QED
    BY <1>1, <1>3, <1>8, <2>1, PclkObservers
<1>9. CASE setup # <<>>
  <2>1. PICK x : /\ seen = <<x>> /\ x.write = item.cmd.write /\ x.addr = Slave!Short(paddr)
                 /\ x.data = IF item.cmd.write THEN pwdata ELSE slaveData
    BY <1>4, <1>9
  <2>2. x.write = (state = "WEN")
    BY <1>7, <1>9, <2>1
  <2>3. /\ apbWriteQ' = IF x.write THEN Append(apbWriteQ, x) ELSE apbWriteQ
        /\ apbReadQ' = IF x.write THEN apbReadQ ELSE Append(apbReadQ, x)
    BY <1>6, <2>1, <2>2
  <2>4. state = "REN" => prdata = slaveData
    BY DEF SetupInv
  <2> QED
    BY <1>1, <1>3, <1>9, <2>1, <2>2, <2>3, <2>4
<1> QED
  BY <1>8, <1>9

\* The access handed out is of the beat behind those the checkers know of.
LEMMA NextAccess ==
  ASSUME Busy, setup # <<>>, NEW handles, NEW q, NEW idx, IsSeq(q), Checks(handles, q, idx, TRUE),
         Begun \in Nat
  PROVE  idx \in Nat /\ Len(q) \in Nat /\ idx + Len(q) = Begun - 1
         /\ (~HandedOut => idx = 0)
<1>1. /\ Wanted \in Nat /\ Accessed <= Wanted - 1 /\ Accessed = Begun - 1
  <2>1. Len(setup) = 1 /\ Accessed = Wanted - slaveItems - Len(setup) /\ Accessed <= Wanted - Len(setup)
    BY Numbers DEF Busy, Accessed
  <2>2. Accessed = Begun - Len(setup) /\ Wanted \in Nat
    BY <2>1, Numbers DEF Busy, Begun
  <2> HIDE DEF Accessed, Begun, Wanted
  <2> QED
    BY <2>1, <2>2
<1>2. Len(q) \in Nat
  BY ListsGrow
<1> HIDE DEF Accessed, Begun, Wanted, HandedOut
<1> QED
  BY <1>1, <1>2 DEF Checks

\* A write joins the accesses of the write checker with the address and the word of its beat,
LEMMA PclkKeepsWrites ==
  ASSUME NoReserved, OneStrobe, InMonitorRange, TbTrace, TbInv, Busy, AlarmInv, TbPclk, Begun \in Nat
  PROVE  AtItsBeat(apbWriteQ', writeIdx) /\ OfItsWord(apbWriteQ', writeIdx)
<1>1. AtItsBeat(apbWriteQ, writeIdx) /\ OfItsWord(apbWriteQ, writeIdx) /\ SetupInv /\ CountInv
  BY DEF AlarmInv, Along
<1>2. CASE state = "WEN"
  <2>1. PICK x : apbWriteQ' = Append(apbWriteQ, x) /\ x.addr = Slave!Short(paddr) /\ x.data = pwdata
    BY <1>1, <1>2, PclkPublishes
  <2> DEFINE n == Len(made)
  <2>2. /\ n \in Nat /\ pwdata = n /\ paddr = AxiAddress(item.cmd, n)
        /\ ~BadBeat(item.cmd, n) /\ owner.write /\ item.cmd.write = TRUE
    BY <1>2, WriteAccess DEF Busy
  <2>3. Begun = n + 1
    BY <1>1, <1>2, <2>2 DEF CountInv, One
  <2>4. IsSeq(apbWriteQ) /\ Checks(axiWrites, apbWriteQ, writeIdx, TRUE) /\ setup # <<>>
    BY <1>1, <1>2, <2>2, PclkPublishes DEF TbInv, Counters, Busy, ScbInv
  <2>5. writeIdx \in Nat /\ Len(apbWriteQ) \in Nat /\ writeIdx + Len(apbWriteQ) = Begun - 1
    BY <2>4, NextAccess
  <2> HIDE DEF n, Begun
  <2>6. writeIdx + Len(apbWriteQ) = n
    BY <2>2, <2>3, <2>5
  <2>7. x.addr = AxiAddress(item.cmd, n)
    BY <2>1, <2>2, GoodAddressIsShort DEF Busy
  <2> QED
    BY <1>1, <2>1, <2>2, <2>4, <2>5, <2>6, <2>7, AccessJoins
<1>3. CASE state # "WEN"
  <2>1. apbWriteQ' = apbWriteQ
    BY <1>1, <1>3, PclkPublishes
  <2> QED
    BY <1>1, <2>1
<1> QED
  BY <1>2, <1>3

\* and a read those of the read checker, with its address.
LEMMA PclkKeepsReads ==
  ASSUME NoReserved, InMonitorRange, TbTrace, TbInv, Busy, AlarmInv, TbPclk, Begun \in Nat
  PROVE  AtItsBeat(apbReadQ', readIdx)
<1>1. AtItsBeat(apbReadQ, readIdx) /\ SetupInv /\ CountInv
  BY DEF AlarmInv, Along
<1>2. CASE state = "REN"
  <2>1. PICK x : apbReadQ' = Append(apbReadQ, x) /\ x.addr = Slave!Short(paddr) /\ x.data = prdata
    BY <1>1, <1>2, PclkPublishes
  <2>2. /\ beat \in Nat /\ paddr = AxiAddress(item.cmd, beat) /\ ~BadBeat(item.cmd, beat)
        /\ item.cmd.write = FALSE
    BY <1>2, ReadAccess DEF Busy
  <2>3. Begun = beat + 1
    BY <1>1, <1>2 DEF CountInv
  <2>4. IsSeq(apbReadQ) /\ Checks(axiReads, apbReadQ, readIdx, TRUE) /\ setup # <<>>
    BY <1>1, <1>2, <2>2, PclkPublishes DEF TbInv, Counters, Busy, ScbInv
  <2>5. readIdx \in Nat /\ Len(apbReadQ) \in Nat /\ readIdx + Len(apbReadQ) = Begun - 1
    BY <2>4, NextAccess
  <2> HIDE DEF Begun
  <2>6. readIdx + Len(apbReadQ) = beat
    BY <2>2, <2>3, <2>5
  <2>7. x.addr = AxiAddress(item.cmd, beat)
    BY <2>1, <2>2, GoodAddressIsShort DEF Busy
  <2> QED
    BY <1>1, <2>1, <2>2, <2>4, <2>5, <2>6, <2>7, AccessJoins
<1>3. CASE state # "REN"
  <2>1. apbReadQ' = apbReadQ
    BY <1>1, <1>3, PclkPublishes
  <2> QED
    BY <1>1, <2>1
<1> QED
  BY <1>2, <1>3

\* A new command finds no beat of the read before in the buffer.
LEMMA StartsEmpty ==
  ASSUME TbTrace, Driven, Starts
  PROVE  readQueue = <<>> /\ ~Apb!PushReadBuffer
<1> USE DEF TbTrace, ReadTraceInv
<1>1. state = "IDLE" /\ cmdQueue # <<>>
  <2>1. cmdSeen \in Nat /\ cmdSeen <= Len(cmdQueue)
    BY DEF TrafficInv, BridgeInv, QueuesSafe, Bracketed
  <2>2. cmdQueue = <<>> => Len(cmdQueue) = 0
    OBVIOUS
  <2>3. cmdQueue = <<>> => cmdSeen = 0
    BY <2>1, <2>2
  <2> QED
    BY <2>3 DEF CmdQueue!PopEmpty, Starts
<1>2. LastsIn(readQueue) = 0 /\ Master!ReadPending = 0
  <2> DEFINE w == One(awvalid)  inW == WritesIn(cmdQueue)  pw == Master!RespPending
             r == One(arvalid)  inR == ReadsIn(cmdQueue)   pr == Master!ReadPending
             outW == Len(respQueue)                        outR == LastsIn(readQueue)
  <2>1. w + r + (inW + inR) + (pw + pr) + (outW + outR) <= 1
    BY DrivenIsOpen, OnePlace
  <2>2. /\ inW \in Nat /\ inR \in Nat /\ outW \in Nat /\ outR \in Nat
        /\ pw \in {0, 1} /\ pr \in {0, 1} /\ w \in {0, 1} /\ r \in {0, 1}
    BY OpenCounted, Zenon
  <2>3. ~(inW = 0 /\ inR = 0)
    BY <1>1, QueueEmpties
  <2>4. outR = 0 /\ pr = 0
    <3> HIDE DEF w, inW, pw, r, inR, pr, outW, outR
    <3> QED
      BY <2>1, <2>2, <2>3
  <2> QED
    BY <2>4
<1>3. readQueue = <<>>
  BY <1>1, <1>2, BufferEmpties
<1>4. ~Apb!PushReadBuffer
  BY <1>1, <1>2 DEF Apb!PushReadBuffer, Master!ReadPending
<1> QED
  BY <1>3, <1>4

\* The APB side pushes the beat it has come to, and it is the next in the buffer.
LEMMA PclkPushes ==
  ASSUME TbTrace, PclkEdge, PclkRecorded
  PROVE  /\ readQueue' = IF Apb!PushReadBuffer THEN Append(readQueue, Beat) ELSE readQueue
         /\ ~Apb!PushReadBuffer => numbers' = numbers
         /\ Apb!PushReadBuffer => \E y : numbers' = Append(numbers, y)
         /\ Apb!PushReadBuffer => ReadInHand /\ ~owner.write
<1>1. readQueue' = IF Apb!PushReadBuffer THEN Append(readQueue, Beat) ELSE readQueue
  BY PclkMoves, SameMoves DEF TbTrace, ReadTraceInv
<1>2. /\ ~Apb!PushReadBuffer => numbers' = numbers
      /\ Apb!PushReadBuffer => \E y : numbers' = Append(numbers, y)
  BY DEF PclkRecorded
<1>3. Apb!PushReadBuffer => ReadInHand
  BY SideMoves, PushIsRight DEF TbTrace, ReadTraceInv
<1> QED
  BY <1>1, <1>2, <1>3 DEF ReadInHand

\* Where the read data is and moves.
LEMMA PclkReadData ==
  ASSUME TbTrace, PclkEdge, PclkRecorded
  PROVE  /\ pushReadReg => state \in {"RSEL", "PREPURGE", "IDLE"}
         /\ (pushReadReg' \/ state' = "RBUFWT") => state \in {"REN", "RBUFWT"}
         /\ state = "REN" => axiData' = prdata
         /\ state = "RBUFWT" => axiData' = axiData
         /\ state \in {"REN", "RBUFWT"} => served' = served /\ ~Starts /\ ~Apb!PushReadBuffer
         /\ (Apb!PushReadBuffer /\ ~pushReadReg) => state = "PURGE" /\ ~owner.write
<1>1. /\ Side!Tick /\ Side!Edge /\ Side!Registers /\ Side!OrderedInv /\ Side!ReadInv /\ Side!MasterInv
  BY SideFacts DEF Side!OrderedInv, Side!ReadInv
<1>2. pushReadReg => state \in {"RSEL", "PREPURGE", "IDLE"}
  BY <1>1 DEF Side!MasterInv, Side!PushInv
<1>3. (pushReadReg' \/ state' = "RBUFWT") => state \in {"REN", "RBUFWT"}
  <2>1. pushReadReg' = Side!NextPushRead
    BY <1>1 DEF Side!Registers, Side!ControlRegisters
  <2>2. state' = "RBUFWT" => state \in {"REN", "RBUFWT"}
    BY <1>1, SideAssumptions, Side!ReadMoves
  <2> QED
    BY <2>1, <2>2 DEF Side!NextPushRead
<1>4. state \in {"REN", "RBUFWT"} => served' = served /\ ~CmdOut.write /\ ~Starts
  BY <1>1, SideAssumptions, SideMoves, Side!PushIsOfBeat
<1>5. state = "REN" => axiData' = prdata
  BY <1>1, <1>4 DEF Side!Registers, Side!DataRegisters, Side!NextAxiData, Side!Penable
<1>6. state = "RBUFWT" => axiData' = axiData
  BY <1>1, <1>4 DEF Side!Registers, Side!DataRegisters, Side!NextAxiData, Side!Penable
<1>7. state \in {"REN", "RBUFWT"} => ~Apb!PushReadBuffer
  BY <1>2 DEF Apb!PushReadBuffer
<1>8. (Apb!PushReadBuffer /\ ~pushReadReg) => state = "PURGE" /\ ~owner.write
  BY PclkPushes DEF Apb!PushReadBuffer
<1> QED
  BY <1>2, <1>3, <1>4, <1>5, <1>6, <1>7, <1>8

\* The beats in the buffer stay behind the one to come,
LEMMA PclkKeepsBehind ==
  ASSUME TbTrace, TbInv, Busy, AlarmInv, TbPclk
  PROVE  Behind'
<1>1. Behind /\ PclkEdge /\ PclkRecorded
  BY PclkIs DEF AlarmInv, Along
<1>2. CASE Starts
  <2>1. readQueue' = <<>>
    BY <1>1, <1>2, StartsEmpty, PclkPushes DEF Busy
  <2> QED
    BY <2>1, ShortLists DEF Behind
<1>3. CASE ~Starts /\ ~Apb!PushReadBuffer
  <2>1. readQueue' = readQueue /\ numbers' = numbers /\ served' = served
    BY <1>1, <1>3, PclkPushes, RecordMoves
  <2> QED
    BY <1>1, <2>1 DEF Behind
<1>4. CASE ~Starts /\ Apb!PushReadBuffer
  <2> DEFINE n == Len(readQueue)
  <2>1. /\ readQueue' = Append(readQueue, Beat) /\ served' = served + 1 /\ ReadInHand
        /\ \E y : numbers' = Append(numbers, y)
    BY <1>1, <1>4, PclkPushes, RecordMoves
  <2>2. /\ IsSeq(readQueue) /\ IsSeq(numbers) /\ Len(numbers) = n + 1 /\ n \in Nat
        /\ numbers[n + 1] = served
        /\ \A i \in 1 .. Len(numbers) : numbers[i] \in Nat
    BY <2>1, OnTheWay, ListsGrow
  <2>3. Len(readQueue') = n + 1 /\ \A i \in 1 .. n + 1 : numbers'[i] = numbers[i]
    BY <2>1, <2>2, ListsGrow, ListsIndexed
  <2>4. \A i \in 1 .. n : numbers[i] < served
    BY <1>1 DEF Behind
  <2> SUFFICES ASSUME NEW i \in 1 .. n + 1 PROVE numbers'[i] < served'
    BY <2>3 DEF Behind
  <2>5. numbers[i] \in Nat /\ served \in Nat /\ (i \in 1 .. n \/ i = n + 1)
    BY <2>2
  <2> HIDE DEF n
  <2> QED
    BY <2>1, <2>2, <2>3, <2>4, <2>5
<1> QED
  BY <1>2, <1>3, <1>4

\* and what the slave answered is what the handle will have.
LEMMA PclkKeepsData ==
  ASSUME TbTrace, TbTrace', TbInv, Busy, AlarmInv, TbPclk, Begun \in Nat
  PROVE  DataArrives(apbReadQ, readIdx)'
<1>1. DataArrives(apbReadQ, readIdx) /\ Behind /\ SetupInv /\ CountInv /\ PclkEdge /\ PclkRecorded
  BY PclkIs DEF AlarmInv, Along
<1>2. /\ UNCHANGED <<beatsGot, rdT, phase, item, toSend, openReads>> /\ readIdx' = readIdx
  BY <1>1, PclkIs, PclkPublishes
<1>3. HandedOut' <=> HandedOut
  BY <1>2 DEF HandedOut
<1>4. item.cmd.write \in BOOLEAN
  BY Numbers DEF Busy
<1>5. CASE item.cmd.write
  <2>1. apbReadQ = <<>> /\ readIdx = 0 /\ state # "REN"
    BY <1>4, <1>5, ReadAccess DEF Busy, ScbInv, Checks
  <2>2. apbReadQ' = <<>>
    BY <1>1, <2>1, PclkPublishes
  <2>3. \A k, d : Agrees(apbReadQ', readIdx', k, d)
    BY <1>2, <2>1, <2>2, ShortLists DEF Agrees
  <2> QED
    BY <2>3 DEF DataArrives
<1>6. CASE ~item.cmd.write /\ state = "REN"
  <2> DEFINE q == apbReadQ  n == beat
  <2>1. PICK x : apbReadQ' = Append(q, x) /\ x.data = prdata
    BY <1>1, <1>6, PclkPublishes
  <2>2. n \in Nat /\ served = n /\ ~pushReadReg /\ ReadInHand /\ ~HandedOut
    BY <1>6, ReadAccess DEF Busy
  <2>3. Begun = n + 1
    BY <1>1, <1>6 DEF CountInv
  <2>4. IsSeq(q) /\ Checks(axiReads, q, readIdx, TRUE) /\ setup # <<>>
    BY <1>1, <1>4, <1>6, PclkPublishes DEF TbInv, Counters, Busy, ScbInv
  <2>5. readIdx \in Nat /\ Len(q) \in Nat /\ readIdx + Len(q) = n
    <3>1. readIdx \in Nat /\ Len(q) \in Nat /\ readIdx + Len(q) = Begun - 1
      BY <2>4, NextAccess
    <3> HIDE DEF Begun
    <3> QED
      BY <2>2, <2>3, <3>1
  <2>6. /\ \A k, d : (Agrees(q, readIdx, k, d) /\ k # n) => Agrees(apbReadQ', readIdx', k, d)
        /\ Agrees(apbReadQ', readIdx', n, x.data)
    BY <1>2, <2>1, <2>2, <2>4, <2>5, AccessJoins
  <2>7. readQueue' = readQueue /\ numbers' = numbers /\ served' = served /\ axiData' = prdata
    BY <1>1, <1>6, PclkReadData, PclkPushes
  <2>8. \A i \in 1 .. Len(readQueue') : Agrees(apbReadQ', readIdx', numbers'[i], readQueue'[i].data)
    <3> SUFFICES ASSUME NEW i \in 1 .. Len(readQueue)
                 PROVE  Agrees(apbReadQ', readIdx', numbers[i], readQueue[i].data)
      BY <2>7
    <3>1. Agrees(q, readIdx, numbers[i], readQueue[i].data) /\ numbers[i] < served
      BY <1>1 DEF DataArrives, Behind
    <3>2. numbers[i] \in Nat
      <4>1. i \in 1 .. Len(numbers)
        BY OnTheWay, ListsGrow
      <4> QED
        BY <4>1, OnTheWay
    <3> QED
      BY <2>2, <2>6, <3>1, <3>2
  <2>9. beatsGot \in Nat /\ beatsGot <= n
    <3> DEFINE l == Len(readQueue)
    <3>1. /\ Len(numbers) = l + 1 /\ l \in Nat /\ numbers[1] = beatsGot /\ numbers[l + 1] = served
          /\ \A i \in 1 .. l : numbers[i] < served
          /\ beatsGot \in Nat
      BY <1>1, <2>2, OnTheWay, ListsGrow DEF Behind, TbInv, Counters
    <3> HIDE DEF l
    <3>2. CASE l = 0
      BY <2>2, <3>1, <3>2
    <3>3. CASE l # 0
      <4>1. 1 \in 1 .. l
        BY <3>1, <3>3
      <4> QED
        BY <2>2, <3>1, <4>1
    <3> QED
      BY <3>2, <3>3
  <2>10. (beatsGot' > 0 \/ HandedOut') =>
            \A i \in 1 .. Len(rdT'.data) : Agrees(apbReadQ', readIdx', i - 1, rdT'.data[i])
    <3> SUFFICES ASSUME beatsGot > 0, NEW i \in 1 .. Len(rdT.data)
                 PROVE  Agrees(apbReadQ', readIdx', i - 1, rdT.data[i])
      BY <1>2, <1>3, <2>2
    <3>1. Len(rdT.data) = beatsGot
      BY <1>6 DEF Busy, HandlesInv
    <3>2. Agrees(q, readIdx, i - 1, rdT.data[i])
      BY <1>1 DEF DataArrives
    <3>3. i - 1 # n
      <4>1. i \in 1 .. beatsGot
        BY <3>1
      <4> QED
        BY <2>2, <2>9, <4>1
    <3> QED
      BY <2>6, <3>2, <3>3
  <2>11. Agrees(apbReadQ', readIdx', served', axiData')
    BY <2>1, <2>2, <2>6, <2>7
  <2> HIDE DEF HandedOut
  <2> QED
    BY <2>8, <2>10, <2>11 DEF DataArrives
<1>7. CASE ~item.cmd.write /\ state # "REN"
  <2> DEFINE q == apbReadQ  n == Len(readQueue)
  <2>0. state # "WEN"
    <3>1. state = "WEN" => owner = item.cmd
      BY DrivenIsOpen, ItemInHand DEF Busy
    <3>2. Side!Owned
      BY DEF TbTrace, ReadTraceInv, SideReadInv, Side!AddressedInv, Side!OrderedInv, Side!ReadInv
    <3> QED
      BY <1>7, <3>1, <3>2 DEF Side!Owned, Side!WriteStates
  <2>1. apbReadQ' = q /\ setup = <<>>
    BY <1>1, <1>7, <2>0, PclkPublishes
  <2>2. (beatsGot' > 0 \/ HandedOut') =>
            \A i \in 1 .. Len(rdT'.data) : Agrees(apbReadQ', readIdx', i - 1, rdT'.data[i])
    <3> HIDE DEF HandedOut
    <3> QED
      BY <1>1, <1>2, <1>3, <2>1 DEF DataArrives
  <2>3. (pushReadReg' \/ state' = "RBUFWT") => Agrees(apbReadQ', readIdx', served', axiData')
    <3> SUFFICES ASSUME pushReadReg' \/ state' = "RBUFWT"
                 PROVE  Agrees(apbReadQ', readIdx', served', axiData')
      OBVIOUS
    <3>1. state = "RBUFWT" /\ served' = served /\ axiData' = axiData
      BY <1>1, <1>7, PclkReadData
    <3> QED
      BY <1>1, <1>2, <2>1, <3>1 DEF DataArrives
  <2>4. CASE ~Apb!PushReadBuffer
    <3>1. readQueue' = readQueue /\ numbers' = numbers
      BY <1>1, <2>4, PclkPushes
    <3> HIDE DEF HandedOut
    <3> QED
      BY <1>1, <1>2, <2>1, <2>2, <2>3, <3>1 DEF DataArrives
  <2>5. CASE Apb!PushReadBuffer
    <3>1. /\ readQueue' = Append(readQueue, Beat) /\ ReadInHand
          /\ \E y : numbers' = Append(numbers, y)
      BY <1>1, <2>5, PclkPushes
    <3>2. /\ IsSeq(readQueue) /\ IsSeq(numbers) /\ Len(numbers) = n + 1 /\ n \in Nat
          /\ numbers[n + 1] = served /\ served \in Nat
      <4>1. /\ IsSeq(readQueue) /\ IsSeq(numbers) /\ Len(numbers) = n + 1 /\ n \in Nat
            /\ numbers[n + 1] = served
        BY <3>1, OnTheWay, ListsGrow
      <4>2. n + 1 \in 1 .. Len(numbers)
        BY <4>1
      <4> QED
        BY <4>1, <4>2, OnTheWay
    <3>3. /\ Len(readQueue') = n + 1 /\ \A i \in 1 .. n + 1 : numbers'[i] = numbers[i]
          /\ \A i \in 1 .. n : readQueue'[i] = readQueue[i]
          /\ readQueue'[n + 1] = Beat
      BY <3>1, <3>2, ListsGrow, ListsIndexed
    <3>4. Agrees(q, readIdx, served, axiData)
      <4>1. CASE pushReadReg
        BY <1>1, <4>1 DEF DataArrives
      <4>2. CASE ~pushReadReg
        <5>1. state = "PURGE" /\ ~owner.write
          BY <1>1, <2>5, <4>2, PclkReadData
        <5>2. Begun <= served
          BY <1>1, <5>1 DEF CountInv
        <5>3. Accessed = Begun
          <6>1. Accessed = Wanted - slaveItems - Len(setup) /\ Len(setup) = 0
                /\ Wanted \in Nat /\ slaveItems \in Nat
            BY <2>1, ShortLists, Numbers DEF Busy, Accessed
          <6> HIDE DEF Wanted, Accessed
          <6> QED
            BY <6>1 DEF Begun
        <5>4. IsSeq(q) /\ Checks(axiReads, q, readIdx, TRUE)
          BY <1>4, <1>7 DEF TbInv, Counters, Busy, ScbInv
        <5>5. Len(q) \in Nat /\ (q = <<>> => Len(q) = 0) /\ Wanted \in Nat
          BY <5>4, ListsGrow, Numbers DEF Busy
        <5> HIDE DEF Wanted, Accessed, Begun, HandedOut, q
        <5>6. readIdx \in Nat /\ (readIdx + Len(q) = Accessed \/ (readIdx = 0 /\ q = <<>>))
          BY <5>3, <5>4, <5>5 DEF Checks
        <5>7. served \notin readIdx .. readIdx + Len(q) - 1
          BY <3>2, <5>2, <5>3, <5>5, <5>6
        <5> QED
          BY <5>7 DEF Agrees
      <4> QED
        BY <4>1, <4>2
    <3>5. \A i \in 1 .. Len(readQueue') : Agrees(apbReadQ', readIdx', numbers'[i], readQueue'[i].data)
      <4> SUFFICES ASSUME NEW i \in 1 .. n + 1
                   PROVE  Agrees(apbReadQ', readIdx', numbers'[i], readQueue'[i].data)
        BY <3>3
      <4>1. CASE i = n + 1
        <5>1. numbers'[i] = served /\ readQueue'[i].data = axiData
          BY <3>2, <3>3, <4>1 DEF Beat
        <5> QED
          BY <1>2, <2>1, <3>4, <5>1
      <4>2. CASE i \in 1 .. n
        <5>1. numbers'[i] = numbers[i] /\ readQueue'[i] = readQueue[i]
          BY <3>3, <4>2
        <5> QED
          BY <1>1, <1>2, <2>1, <4>2, <5>1 DEF DataArrives
      <4> QED
        BY <3>2, <4>1, <4>2
    <3> HIDE DEF HandedOut
    <3> QED
      BY <2>2, <2>3, <3>5 DEF DataArrives
  <2> QED
    BY <2>4, <2>5
<1> QED
  BY <1>4, <1>5, <1>6, <1>7

\* The bridge's multiplexer passes on the word of the one slave that is selected.
LEMMA PclkReadsSlave ==
  ASSUME SlavesApart, TbTrace, TbPclk, state' = "REN"
  PROVE  prdata' = slaveData'
<1>1. PclkEdge /\ PclkRecorded /\ PclkWith(slaveData')
  BY PclkIs DEF TbPclk
<1>2. Side!Edge /\ Side!MasterInv
  BY <1>1, SideFacts DEF Side!OrderedInv, Side!ReadInv
<1>3. state = "RSEL"
  BY <1>2, SideAssumptions, Side!ReadMoves
<1>4. psel = Decode(paddr) /\ psel # {}
  BY <1>2, <1>3, SideRules DEF Side!MasterInv, Side!SelectsDecoded, Side!Selecting
<1> QED
  BY <1>1, <1>3, <1>4, OneSlaveAnswers DEF PclkWith, Mux

LEMMA PclkKeepsAlarm ==
  ASSUME NoReserved, OneStrobe, SlavesApart, InMonitorRange,
         TbTrace, TbTrace', TbInv, AlarmInv, TbPclk
  PROVE  AlarmInv'
<1>1. /\ PclkEdge /\ PclkRecorded
      /\ UNCHANGED <<item, phase, wrT, toSend, beatsGot>>
  BY PclkIs
<1>2. CASE Clean
  <2>1. Clean'
    BY <1>2, PclkKeepsClean
  <2>2. (TbTrace /\ Clean => Along)'
    BY CleanIsQuiet, PTL
  <2>3. complaint' = complaint
    BY DEF TbPclk, Scb!Received
  <2> QED
    BY <1>1, <2>1, <2>2, <2>3 DEF AlarmInv, Numbered
<1>3. CASE Busy
  <2>1. Driven /\ SlaveInv /\ SetupInv /\ CountInv
    BY <1>3 DEF Busy, AlarmInv, Along
  <2>2. CountInv' /\ Begun \in Nat /\ Wanted' = Wanted
    BY <2>1, PclkKeepsCount, BegunGrows, PclkKeepsSlave
  <2>3. complaint' = complaint /\ UNCHANGED <<writeIdx, readIdx>>
    BY <1>3, <2>1, PclkPublishes
  <2>4. SetupInv'
    <3>1. ASSUME setup' # <<>> PROVE setup'[1].addr = Slave!Short(paddr) /\ state \in {"WSEL", "RSEL"}
      <4>1. Slave!MonitorEdge(IsSetup, Apb!Pwrite, paddr)
        BY DEF TbPclk, IsSetup
      <4>2. /\ setup' = IF setup = <<>> /\ IsSetup
                        THEN <<[write |-> Apb!Pwrite, addr |-> Slave!Short(paddr)]>> ELSE <<>>
            /\ setup = <<>> /\ IsSetup
        BY <3>1, <4>1 DEF Slave!MonitorEdge
      <4>3. setup' = <<[write |-> Apb!Pwrite, addr |-> Slave!Short(paddr)]>>
        BY <4>2
      <4> QED
        BY <4>2, <4>3, SetupIs
    <3>2. state \in {"WSEL", "RSEL"} => paddr' = paddr
      <4>1. /\ state' = "WEN" <=> state = "WSEL"
            /\ state' = "WSEL" => state \in {"WEN", "NWEN"}
            /\ state' = "RSEL" => state \in {"NREN", "REN", "RBUFWT"}
        BY <1>1, SideFacts, SideAssumptions, Side!StateMoves, WriteSources, ReadSources
      <4>2. Side!Registers
        BY <1>1, SideFacts
      <4> QED
        BY <4>1, <4>2 DEF Side!Registers, Side!AddressRegisters
    <3>3. state' = "REN" => prdata' = slaveData'
      BY PclkReadsSlave
    <3> QED
      BY <3>1, <3>2, <3>3 DEF SetupInv, Slave!Short
  <2>5. AtItsBeat(apbWriteQ, writeIdx)' /\ OfItsWord(apbWriteQ, writeIdx)'
    <3>1. AtItsBeat(apbWriteQ', writeIdx) /\ OfItsWord(apbWriteQ', writeIdx)
      BY <1>3, <2>2, PclkKeepsWrites
    <3> QED
      BY <1>1, <2>3, <3>1 DEF AtItsBeat, OfItsWord
  <2>6. AtItsBeat(apbReadQ, readIdx)'
    <3>1. AtItsBeat(apbReadQ', readIdx)
      BY <1>3, <2>2, PclkKeepsReads
    <3> QED
      BY <1>1, <2>3, <3>1 DEF AtItsBeat
  <2>7. Behind' /\ DataArrives(apbReadQ, readIdx)'
    BY <1>3, <2>2, PclkKeepsBehind, PclkKeepsData
  <2> HIDE DEF Wanted
  <2> QED
    BY <1>1, <2>2, <2>3, <2>4, <2>5, <2>6, <2>7 DEF AlarmInv, Along, Numbered, NumberedTo
<1> QED
  BY <1>2, <1>3 DEF TbInv

(* Between the edges.                                                         *)

\* A beat checked leaves the others at theirs.
LEMMA AccessLeaves ==
  ASSUME NEW q, IsSeq(q), q # <<>>, NEW idx \in Nat
  PROVE  /\ AtItsBeat(q, idx) => /\ AtItsBeat(Tail(q), idx + 1)
                                 /\ ~BadBeat(item.cmd, idx)
                                 /\ Head(q).addr = AxiAddress(item.cmd, idx)
         /\ OfItsWord(q, idx) => OfItsWord(Tail(q), idx + 1) /\ Head(q).data = idx
         /\ \A k, d : Agrees(q, idx, k, d) => Agrees(Tail(q), idx + 1, k, d)
         /\ \A d : Agrees(q, idx, idx, d) => Head(q).data = d
<1> DEFINE l == Len(q)  r == Tail(q)
<1>1. /\ l \in Nat \ {0} /\ Len(r) = l - 1 /\ Head(q) = q[1]
      /\ \A j \in 1 .. l - 1 : r[j] = q[j + 1]
  BY ListsGrow, ListsIndexed
<1>2. /\ 1 \in 1 .. l /\ idx + 1 - 1 = idx
      /\ \A j \in 1 .. Len(r) : j \in 1 .. l - 1 /\ j + 1 \in 1 .. l /\ idx + 1 + j - 1 = idx + (j + 1) - 1
  <2> HIDE DEF r
  <2> QED
    BY <1>1
<1> HIDE DEF r
<1>3. ASSUME AtItsBeat(q, idx)
      PROVE  AtItsBeat(r, idx + 1) /\ ~BadBeat(item.cmd, idx) /\ Head(q).addr = AxiAddress(item.cmd, idx)
  <2>1. ~BadBeat(item.cmd, idx) /\ q[1].addr = AxiAddress(item.cmd, idx)
    BY <1>2, <1>3 DEF AtItsBeat
  <2>2. ASSUME NEW j \in 1 .. Len(r)
        PROVE  /\ ~BadBeat(item.cmd, idx + 1 + j - 1)
               /\ r[j].addr = AxiAddress(item.cmd, idx + 1 + j - 1)
    <3>1. /\ ~BadBeat(item.cmd, idx + (j + 1) - 1)
          /\ q[j + 1].addr = AxiAddress(item.cmd, idx + (j + 1) - 1)
      BY <1>2, <1>3 DEF AtItsBeat
    <3> QED
      BY <1>1, <1>2, <3>1
  <2> QED
    BY <1>1, <2>1, <2>2 DEF AtItsBeat
<1>4. ASSUME OfItsWord(q, idx) PROVE OfItsWord(r, idx + 1) /\ Head(q).data = idx
  <2>1. q[1].data = idx
    BY <1>2, <1>4 DEF OfItsWord
  <2>2. ASSUME NEW j \in 1 .. Len(r) PROVE r[j].data = idx + 1 + j - 1
    BY <1>1, <1>2, <1>4 DEF OfItsWord
  <2> QED
    BY <1>1, <2>1, <2>2 DEF OfItsWord
<1>5. ASSUME NEW k, NEW d, Agrees(q, idx, k, d) PROVE Agrees(r, idx + 1, k, d)
  <2> SUFFICES ASSUME k \in idx + 1 .. idx + 1 + Len(r) - 1
               PROVE  r[k + 1 - (idx + 1)].data = d
    BY DEF Agrees
  <2>1. k \in idx .. idx + l - 1 /\ k + 1 - (idx + 1) \in 1 .. l - 1 /\ k + 1 - (idx + 1) + 1 = k + 1 - idx
    BY <1>1
  <2>2. q[k + 1 - idx].data = d
    BY <1>5, <2>1 DEF Agrees
  <2> QED
    BY <1>1, <2>1, <2>2
<1>6. ASSUME NEW d, Agrees(q, idx, idx, d) PROVE Head(q).data = d
  <2>1. idx \in idx .. idx + l - 1 /\ idx + 1 - idx = 1
    BY <1>1
  <2> QED
    BY <1>1, <1>6, <2>1 DEF Agrees
<1> QED
  BY <1>3, <1>4, <1>5, <1>6 DEF r

\* The address a checker predicts for a beat of the item is the one AXI has for it.
LEMMA Predicts ==
  ASSUME NoReserved, Driven, NEW i \in 0 .. Wanted - 1, ~BadBeat(item.cmd, i)
  PROVE  Scb!ExpectedAddress(item.cmd, i) = AxiAddress(item.cmd, i) /\ item.cmd.burst # Scb!RESERVED
<1>1. item.cmd \in Commands /\ item.cmd.len \in Nat
  BY ItemTyped DEF Driven
<1>2. i \in 0 .. item.cmd.len
  BY <1>1 DEF Wanted
<1> QED
  BY <1>1, <1>2, ExpectedIsAxi DEF RESERVED, Scb!RESERVED

\* So the write checker has nothing to report,
LEMMA CheckWriteKeepsAlarm ==
  ASSUME NoReserved, TbTrace, TbInv, AlarmInv, Scb!CheckWrite,
         UNCHANGED <<historyVars, agents, coverVars>>
  PROVE  AlarmInv'
<1>1. /\ Scb!CanCheckWrite /\ Busy /\ item.cmd.write = TRUE /\ HandedOut /\ Len(wrT.data) = Wanted
      /\ wrT.cmd = item.cmd
  BY HandleLooked, HandleIsOfItem DEF Scb!CheckWrite
<1>2. /\ Driven /\ SlaveInv /\ Counters /\ Along /\ ~complaint /\ Numbered(wrT.data)
      /\ Checks(axiWrites, apbWriteQ, writeIdx, TRUE) /\ IsSeq(apbWriteQ)
      /\ axiWrites > 0 /\ apbWriteQ # <<>>
  BY <1>1 DEF Busy, ScbInv, TbInv, Counters, AlarmInv, Scb!CanCheckWrite
<1>3. /\ writeIdx \in 0 .. Wanted - 1 /\ IsSeq(Tail(apbWriteQ))
      /\ (writeIdx + 1 >= Wanted) => Tail(apbWriteQ) = <<>>
  BY <1>2, OneTurn
<1>4. writeIdx \in Nat /\ Wanted \in Nat
  BY <1>2, <1>3, Numbers
<1>5. /\ AtItsBeat(Tail(apbWriteQ), writeIdx + 1) /\ OfItsWord(Tail(apbWriteQ), writeIdx + 1)
      /\ ~BadBeat(item.cmd, writeIdx) /\ Head(apbWriteQ).addr = AxiAddress(item.cmd, writeIdx)
      /\ Head(apbWriteQ).data = writeIdx
  BY <1>2, <1>4, AccessLeaves DEF Along
<1>6. ~Scb!Differs(wrT, writeIdx, Head(apbWriteQ))
  <2>1. /\ Scb!ExpectedAddress(wrT.cmd, writeIdx) = Head(apbWriteQ).addr
        /\ wrT.cmd.burst # Scb!RESERVED
    BY <1>1, <1>2, <1>3, <1>5, Predicts
  <2>2. ~(writeIdx >= Len(wrT.data)) /\ wrT.data[writeIdx + 1] = writeIdx
    <3> HIDE DEF Wanted
    <3>1. writeIdx + 1 \in 1 .. Len(wrT.data)
      BY <1>1, <1>3, <1>4
    <3>2. wrT.data[writeIdx + 1] = (writeIdx + 1) - 1
      BY <1>2, <3>1 DEF Numbered
    <3> QED
      BY <1>1, <1>3, <1>4, <3>2
  <2> QED
    BY <1>5, <2>1, <2>2 DEF Scb!Differs
<1>7. /\ complaint' = (complaint \/ Scb!Differs(wrT, writeIdx, Head(apbWriteQ)))
      /\ apbWriteQ' = Tail(apbWriteQ)
      /\ writeIdx' = IF writeIdx + 1 >= Len(wrT.data) THEN 0 ELSE writeIdx + 1
      /\ UNCHANGED <<apbReadQ, readIdx>>
  BY DEF Scb!CheckWrite
<1>8. UNCHANGED <<state, beat, owner, made, served, paddr, setup, slaveItems, prdata, slaveData, item,
                  phase, toSend, openReads, readQueue, numbers, beatsGot, wrT, rdT, pushReadReg, axiData>>
  BY DEF historyVars, vars, queues, readVars, registers, partners, record, agents, driverVars,
         monitorVars, slaveVars
<1>9. AtItsBeat(apbWriteQ, writeIdx)' /\ OfItsWord(apbWriteQ, writeIdx)'
  <2>1. CASE writeIdx + 1 >= Wanted
    <3>1. apbWriteQ' = <<>>
      BY <1>3, <1>7, <2>1
    <3> QED
      BY <3>1, ShortLists DEF AtItsBeat, OfItsWord
  <2>2. CASE ~(writeIdx + 1 >= Wanted)
    <3>1. writeIdx' = writeIdx + 1
      BY <1>1, <1>7, <2>2
    <3> QED
      BY <1>5, <1>7, <1>8, <3>1 DEF AtItsBeat, OfItsWord
  <2> QED
    BY <2>1, <2>2
<1>10. /\ CountInv' /\ SetupInv' /\ NumberedTo(toSend, Wanted)' /\ Behind'
       /\ AtItsBeat(apbReadQ, readIdx)' /\ DataArrives(apbReadQ, readIdx)' /\ Numbered(wrT.data)'
  <2>1. Begun' = Begun /\ Wanted' = Wanted /\ (HandedOut' <=> HandedOut)
    BY <1>8 DEF Begun, Wanted, HandedOut
  <2> HIDE DEF Begun, Wanted, HandedOut
  <2>2. CountInv' /\ SetupInv' /\ NumberedTo(toSend, Wanted)' /\ Behind'
    BY <1>2, <1>8, <2>1 DEF Along, CountInv, SetupInv, NumberedTo, Behind
  <2>3. AtItsBeat(apbReadQ, readIdx)' /\ DataArrives(apbReadQ, readIdx)' /\ Numbered(wrT.data)'
    BY <1>2, <1>7, <1>8, <2>1 DEF Along, AtItsBeat, DataArrives, Agrees, Numbered
  <2> QED
    BY <2>2, <2>3
<1>11. ~complaint'
  BY <1>2, <1>6, <1>7
<1> QED
  BY <1>9, <1>10, <1>11 DEF AlarmInv, Along

\* nor has the read checker,
LEMMA CheckReadKeepsAlarm ==
  ASSUME NoReserved, TbTrace, TbInv, AlarmInv, Scb!CheckRead,
         UNCHANGED <<historyVars, agents, coverVars>>
  PROVE  AlarmInv'
<1>1. /\ Scb!CanCheckRead /\ Busy /\ item.cmd.write = FALSE /\ HandedOut /\ Len(rdT.data) = Wanted
      /\ rdT.cmd = item.cmd
  BY HandleLooked, HandleIsOfItem DEF Scb!CheckRead
<1>2. /\ Driven /\ SlaveInv /\ Counters /\ Along /\ ~complaint /\ Numbered(wrT.data)
      /\ Checks(axiReads, apbReadQ, readIdx, TRUE) /\ IsSeq(apbReadQ)
      /\ axiReads > 0 /\ apbReadQ # <<>>
  BY <1>1 DEF Busy, ScbInv, TbInv, Counters, AlarmInv, Scb!CanCheckRead
<1>3. /\ readIdx \in 0 .. Wanted - 1 /\ IsSeq(Tail(apbReadQ))
      /\ (readIdx + 1 >= Wanted) => Tail(apbReadQ) = <<>>
  BY <1>2, OneTurn
<1>4. readIdx \in Nat /\ Wanted \in Nat
  BY <1>2, <1>3, Numbers
<1>5. /\ AtItsBeat(Tail(apbReadQ), readIdx + 1)
      /\ ~BadBeat(item.cmd, readIdx) /\ Head(apbReadQ).addr = AxiAddress(item.cmd, readIdx)
      /\ \A k, d : Agrees(apbReadQ, readIdx, k, d) => Agrees(Tail(apbReadQ), readIdx + 1, k, d)
      /\ \A d : Agrees(apbReadQ, readIdx, readIdx, d) => Head(apbReadQ).data = d
  BY <1>2, <1>4, AccessLeaves DEF Along
<1>6. ~Scb!Differs(rdT, readIdx, Head(apbReadQ))
  <2>1. /\ Scb!ExpectedAddress(rdT.cmd, readIdx) = Head(apbReadQ).addr
        /\ rdT.cmd.burst # Scb!RESERVED
    BY <1>1, <1>2, <1>3, <1>5, Predicts
  <2>2. ~(readIdx >= Len(rdT.data)) /\ rdT.data[readIdx + 1] = Head(apbReadQ).data
    <3>1. \A i \in 1 .. Len(rdT.data) : Agrees(apbReadQ, readIdx, i - 1, rdT.data[i])
      BY <1>1, <1>2 DEF Along, DataArrives
    <3> HIDE DEF Wanted
    <3>2. readIdx + 1 \in 1 .. Len(rdT.data) /\ readIdx + 1 - 1 = readIdx
      BY <1>1, <1>3, <1>4
    <3>3. Agrees(apbReadQ, readIdx, readIdx, rdT.data[readIdx + 1])
      <4>1. Agrees(apbReadQ, readIdx, (readIdx + 1) - 1, rdT.data[readIdx + 1])
        BY <3>1, <3>2, Zenon
      <4> QED
        BY <4>1, <3>2, <1>4, SMT DEF Agrees
    <3> QED
      BY <1>1, <1>3, <1>4, <1>5, <3>3
  <2> QED
    BY <2>1, <2>2 DEF Scb!Differs
<1>7. /\ complaint' = (complaint \/ Scb!Differs(rdT, readIdx, Head(apbReadQ)))
      /\ apbReadQ' = Tail(apbReadQ)
      /\ readIdx' = IF readIdx + 1 >= Len(rdT.data) THEN 0 ELSE readIdx + 1
      /\ UNCHANGED <<apbWriteQ, writeIdx>>
  BY DEF Scb!CheckRead
<1>8. UNCHANGED <<state, beat, owner, made, served, paddr, setup, slaveItems, prdata, slaveData, item,
                  phase, toSend, openReads, readQueue, numbers, beatsGot, wrT, rdT, pushReadReg, axiData>>
  BY DEF historyVars, vars, queues, readVars, registers, partners, record, agents, driverVars,
         monitorVars, slaveVars
<1>9. /\ AtItsBeat(apbReadQ, readIdx)'
      /\ \A k, d : Agrees(apbReadQ, readIdx, k, d) => Agrees(apbReadQ', readIdx', k, d)
  <2>1. CASE readIdx + 1 >= Wanted
    <3>1. apbReadQ' = <<>> /\ readIdx' = 0
      BY <1>1, <1>3, <1>7, <2>1
    <3> QED
      BY <3>1, ShortLists DEF AtItsBeat, Agrees
  <2>2. CASE ~(readIdx + 1 >= Wanted)
    <3>1. readIdx' = readIdx + 1
      BY <1>1, <1>7, <2>2
    <3> QED
      BY <1>5, <1>7, <1>8, <3>1 DEF AtItsBeat
  <2> QED
    BY <2>1, <2>2
<1>10. /\ CountInv' /\ SetupInv' /\ NumberedTo(toSend, Wanted)' /\ Behind'
       /\ AtItsBeat(apbWriteQ, writeIdx)' /\ OfItsWord(apbWriteQ, writeIdx)'
       /\ DataArrives(apbReadQ, readIdx)' /\ Numbered(wrT.data)'
  <2>1. Begun' = Begun /\ Wanted' = Wanted /\ (HandedOut' <=> HandedOut)
    BY <1>8 DEF Begun, Wanted, HandedOut
  <2> HIDE DEF Begun, Wanted, HandedOut
  <2>2. CountInv' /\ SetupInv' /\ NumberedTo(toSend, Wanted)' /\ Behind'
    BY <1>2, <1>8, <2>1 DEF Along, CountInv, SetupInv, NumberedTo, Behind
  <2>3. AtItsBeat(apbWriteQ, writeIdx)' /\ OfItsWord(apbWriteQ, writeIdx)' /\ Numbered(wrT.data)'
    BY <1>2, <1>7, <1>8 DEF Along, AtItsBeat, OfItsWord, Numbered
  <2>4. DataArrives(apbReadQ, readIdx)'
    BY <1>2, <1>8, <1>9, <2>1 DEF Along, DataArrives
  <2> QED
    BY <2>2, <2>3, <2>4
<1>11. ~complaint'
  BY <1>2, <1>6, <1>7
<1> QED
  BY <1>9, <1>10, <1>11 DEF AlarmInv, Along

\* and nothing else is looked at.
LEMMA IdleKeepsAlarm ==
  ASSUME AlarmInv, UNCHANGED <<historyVars, agents, scbVars>>
  PROVE  AlarmInv'
<1>1. UNCHANGED <<state, beat, owner, made, served, paddr, setup, slaveItems, prdata, slaveData, item,
                  phase, toSend, openReads, readQueue, numbers, beatsGot, wrT, rdT, pushReadReg, axiData>>
  BY DEF historyVars, vars, queues, readVars, registers, partners, record, agents, driverVars,
         monitorVars, slaveVars
<1>2. UNCHANGED <<apbWriteQ, apbReadQ, writeIdx, readIdx, complaint>>
  BY DEF scbVars
<1>3. Begun' = Begun /\ Wanted' = Wanted /\ (HandedOut' <=> HandedOut)
  BY <1>1 DEF Begun, Wanted, HandedOut
<1> HIDE DEF Begun, Wanted, HandedOut
<1>4. CountInv' /\ SetupInv' /\ NumberedTo(toSend, Wanted)' /\ Behind'
  BY <1>1, <1>3 DEF AlarmInv, Along, CountInv, SetupInv, NumberedTo, Behind
<1>5. AtItsBeat(apbWriteQ, writeIdx)' /\ OfItsWord(apbWriteQ, writeIdx)' /\ AtItsBeat(apbReadQ, readIdx)'
  BY <1>1, <1>2 DEF AlarmInv, Along, AtItsBeat, OfItsWord
<1>6. DataArrives(apbReadQ, readIdx)' /\ Numbered(wrT.data)'
  BY <1>1, <1>2, <1>3 DEF AlarmInv, Along, DataArrives, Agrees, Numbered
<1> QED
  BY <1>2, <1>4, <1>5, <1>6 DEF AlarmInv, Along

LEMMA AlarmStep ==
  ASSUME NoReserved, OneStrobe, SlavesApart, InMonitorRange,
         TbTrace, TbTrace', TbInv, AlarmInv, [TbNext]_tbVars
  PROVE  AlarmInv'
<1>1. CASE TbAclk
  BY <1>1, AclkKeepsAlarm
<1>2. CASE TbPclk
  BY <1>2, PclkKeepsAlarm
<1>3. CASE NextItem
  BY <1>3, NextItemKeepsAlarm
<1>4. CASE DriveItem
  BY <1>4, DriveItemKeepsAlarm
<1>5. CASE Check
  <2>1. UNCHANGED <<historyVars, agents, coverVars>> /\ (Scb!CheckWrite \/ Scb!CheckRead)
    BY <1>5 DEF Check
  <2> QED
    BY <2>1, CheckWriteKeepsAlarm, CheckReadKeepsAlarm
<1>6. CASE Sample
  BY <1>6, IdleKeepsAlarm DEF Sample
<1>7. CASE UNCHANGED tbVars
  BY <1>7, IdleKeepsAlarm DEF tbVars, observers
<1> QED
  BY <1>1, <1>2, <1>3, <1>4, <1>5, <1>6, <1>7 DEF TbNext

\* The scoreboard reports no error (check_trans of gon_axi2apb_scb): each access it takes is
\* at the address it predicts for the beat it has come to, with the word the driver sent or
\* the data the read buffer gave back, although the two monitors' transactions come in
\* different clock domains and the handle is the same for all bursts.  For a driver with one
\* strobe value for all words of a burst, since the monitor does not look at the strobes, and
\* for maps of disjoint slaves below 64 KB: the monitor keeps sixteen bits of an address, and
\* it takes read data before the multiplexer, which answers zero when two slaves are selected.
THEOREM ScoreboardIsQuiet ==
  ASSUME NoReserved, OneStrobe, SlavesApart, InMonitorRange
  PROVE  TbSpec => []NoFalseAlarm
<1>1. TbInit => TbTrace /\ TbInv /\ AlarmInv
  BY TbTraceInit, TbInvInit, AlarmInit
<1>2. TbTrace /\ TbInv /\ AlarmInv /\ [TbNext]_tbVars => (TbTrace /\ TbInv /\ AlarmInv)'
  <2>1. TbTrace /\ TbInv /\ [TbNext]_tbVars => (TbTrace /\ TbInv)'
    BY TbTraceStep, TbInvStep
  <2>2. TbTrace' /\ TbTrace /\ TbInv /\ AlarmInv /\ [TbNext]_tbVars => AlarmInv'
    BY AlarmStep
  <2> QED
    BY <2>1, <2>2
<1>3. AlarmInv => NoFalseAlarm
  BY DEF AlarmInv, NoFalseAlarm
<1> QED
  BY <1>1, <1>2, <1>3, PTL DEF TbSpec
=============================================================================
