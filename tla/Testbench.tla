----------------------------- MODULE Testbench -----------------------------
(***************************************************************************)
(* The UVM environment around the bridge: the sequences that start one burst *)
(* after the other, the AXI master agent, the APB slave agent, the           *)
(* scoreboard and the coverage collector, all woken by the edges of the two   *)
(* clocks.  What the processes do after an edge takes no time, so the next   *)
(* edge finds them waiting again, unless it is an edge of the other clock at  *)
(* the same instant.                                                         *)
(***************************************************************************)
EXTENDS X2pHistory, FiniteSets

CONSTANTS
  MaxItems,      \* bound on the bursts of a test
  NoItem

VARIABLES
  itemsLeft,     \* bursts the test has not started
  now,           \* the clocks that have had the edge still being reacted to
  item, phase, bready, rready, answers,                      \* AXI driver
  wrT, rdT, wrCnt, rdCnt,                                    \* AXI monitor
  mem, slaveItems, slaveData, setup,                         \* APB slave agent
  axiWrites, axiReads, apbWriteQ, apbReadQ, writeIdx, readIdx, complaint,
  toCover, apbToCover                                        \* coverage

Axi == INSTANCE AxiAgent
Slave == INSTANCE ApbAgent WITH NoData <- Apb!NoData
Scb == INSTANCE Scoreboard
Cover == INSTANCE Coverage

driverVars == <<item, phase, bready, rready, answers>>
monitorVars == <<wrT, rdT, wrCnt, rdCnt>>
slaveVars == <<mem, slaveItems, slaveData, setup>>
scbVars == <<axiWrites, axiReads, apbWriteQ, apbReadQ, writeIdx, readIdx, complaint>>
coverVars == <<toCover, apbToCover>>
observers == <<scbVars, coverVars>>
agents == <<driverVars, monitorVars, slaveVars>>
tbVars == <<historyVars, itemsLeft, now, agents, observers>>

\* What the sequences may ask for: a write burst, or a read.
Items == WriteBursts \cup {[cmd |-> c, strobes |-> <<>>] : c \in ReadCommands}

TbInit ==
  /\ HistoryInit /\ Axi!Init /\ Slave!Init /\ Scb!Init /\ Cover!Init
  /\ itemsLeft = MaxItems /\ now = {}
  \* what idle address channels carry is never looked at
  /\ aw = (CHOOSE b \in WriteBursts : TRUE).cmd /\ ar = CHOOSE c \in ReadCommands : TRUE

----------------------------------------------------------------------------
(* Time.                                                                    *)

Settled == ~Scb!CanCheckWrite /\ ~Scb!CanCheckRead /\ ~Cover!CanSample

EdgeOf(clock) ==
  /\ Settled \/ clock \notin now
  /\ now' = IF Settled' THEN {} ELSE now \cup {clock}

Reacts == now' = IF Settled' THEN {} ELSE now

(* The edges.                                                               *)

\* What a channel carries in the edge of its handshake.
Carried(happens, x) == IF happens THEN <<x>> ELSE <<>>

TbAclk ==
  /\ phase # "drive"
  /\ LET w == phase = "addr" /\ toSend # <<>> /\ wready
         b == bvalid /\ bready
         r == rvalid /\ rready
         awTaken == Carried(awvalid /\ Arb!awready, aw)
         arTaken == Carried(arvalid /\ Arb!arready, ar)
         word == IF w THEN <<Head(toSend)>> ELSE <<>>
         resp == IF b THEN <<[error |-> Head(respQueue).error, data |-> Apb!NoData]>> ELSE <<>>
         read == IF r THEN <<Head(readQueue)>> ELSE <<>>
     IN  /\ AclkWith(w, b, r) /\ AclkRecorded(r)
         /\ Axi!DriverEdge(awTaken, arTaken, resp, read,
                           Axi!DoneSending(awvalid', arvalid', toSend'))
         /\ Axi!MonitorEdge(awTaken, word, arTaken, read)
         /\ Scb!Received(Axi!Published(word), Axi!Published(read), <<>>)
         /\ Cover!Received(Axi!Published(word), Axi!Published(read), item, <<>>)
  /\ UNCHANGED <<itemsLeft, slaveVars>>
  /\ EdgeOf("aclk")

TbPclk ==
  /\ LET isSetup == Apb!PselOut # {} /\ ~Apb!Penable
         seen == Slave!Published(pwdata)
     IN  /\ Slave!DriverEdge(isSetup, Apb!Pwrite, paddr, pwdata)
         /\ PclkWith(slaveData') /\ PclkRecorded
         /\ Slave!MonitorEdge(isSetup, Apb!Pwrite, paddr)
         /\ Scb!Received(FALSE, FALSE, seen)
         /\ Cover!Received(FALSE, FALSE, item, seen)
  /\ UNCHANGED <<itemsLeft, driverVars, monitorVars>>
  /\ EdgeOf("pclk")

(* Between the edges.                                                       *)

\* A sequence starts: one AXI transfer, and a slave_ready item for each beat of
\* it, and it is over when all of them are.
NextItem ==
  /\ Settled /\ phase = "idle" /\ slaveItems = 0 /\ itemsLeft > 0
  /\ itemsLeft' = itemsLeft - 1
  /\ \E t \in Items : Axi!Take(t) /\ slaveItems' = t.cmd.len + 1
  /\ UNCHANGED <<historyVars, now, monitorVars, mem, slaveData, setup,
                 observers>>

DriveItem ==
  /\ Settled /\ Axi!Drive
  /\ IF item.cmd.write THEN SendWrite /\ openWrites' = Append(openWrites, item)
     ELSE SendRead /\ ar' = item.cmd
  /\ UNCHANGED <<record, itemsLeft, now, monitorVars, slaveVars, observers>>

Check ==
  /\ Scb!CheckWrite \/ Scb!CheckRead
  /\ UNCHANGED <<historyVars, itemsLeft, agents, coverVars>> /\ Reacts

Sample ==
  /\ Cover!Sample
  /\ UNCHANGED <<historyVars, itemsLeft, agents, scbVars>> /\ Reacts

TbNext == TbAclk \/ TbPclk \/ NextItem \/ DriveItem \/ Check \/ Sample

\* The clocks run, with the news they bring, and no process sleeps.
TbFairness ==
  /\ WF_tbVars(TbAclk /\ NewsAtAclk) /\ WF_tbVars(TbPclk /\ NewsAtPclk)
  /\ WF_tbVars(DriveItem) /\ WF_tbVars(Check) /\ WF_tbVars(Sample)

TbSpec == TbInit /\ [][TbNext]_tbVars
TbFairSpec == TbSpec /\ TbFairness

----------------------------------------------------------------------------
(* Properties.                                                              *)

InFlight == phase # "idle" \/ slaveItems > 0
AtRest == ~InFlight /\ Settled

\* The driver, the bridge and the slaves together are a memory, seen from the
\* sequences: a refinement that spans both clock domains, the four queues, the
\* control and the associative array of the slave.
Memory == INSTANCE AxiMemory WITH
            Bursts <- Items, NoBurst <- NoItem,
            Data <- {Apb!NoData} \cup {w.data : w \in Words},
            burst <- IF phase = "idle" THEN NoItem ELSE item,
            stored <- IF phase # "idle" /\ item.cmd.write
                      THEN item.cmd.len + 1 - slaveItems ELSE 0
ImplementsMemory == Memory!Spec

\* The scoreboard reports no error, whatever the burst and however the two
\* monitors' transactions come in, although the APB monitor has only sixteen
\* bits of the address and takes the read data before the bridge's multiplexer.
NoFalseAlarm == ~complaint

\* After a test nothing observed is left unchecked, and no AXI burst unsampled:
\* every beat had its APB access and every access its beat (check_trans waits
\* for one per beat; get_trans keeps the rest for later bursts).
EverythingIsChecked ==
  AtRest => /\ Scb!NothingWaits /\ writeIdx = 0 /\ readIdx = 0
            /\ toCover = <<>> /\ setup = <<>>

\* The beats of a burst that reach the slaves: none from a bad one on, and of a
\* write those that strobe a word.
Reaching(t) ==
  IF t.cmd.write THEN Len(WritesUpTo(t.cmd, t.strobes, t.cmd.len + 1))
  ELSE Cardinality({i \in 0 .. t.cmd.len : \A j \in 0 .. i : ~BadBeat(t.cmd, j)})
FullyServed(t) == Reaching(t) = t.cmd.len + 1

\* Both checkers together wait for one access per beat of the handle and have no
\* way out of that loop (check_trans): when the driver has its answer they must
\* have checked every access made, and stand where the burst left them, done with
\* it or at its first beat that never reached a slave, with nothing else in hand
\* that could be taken for that beat.
CheckersKeepUp ==
  (phase = "idle" /\ Settled /\ item # NoItem) =>
    /\ apbWriteQ = <<>> /\ apbReadQ = <<>> /\ setup = <<>>
    /\ <<axiWrites + axiReads, writeIdx + readIdx>> =
         IF FullyServed(item) THEN <<0, 0>> ELSE <<1, Reaching(item)>>

\* The monitor gives every burst the same handle, publishes it before its
\* address is known and writes the next burst into it: still, whenever the
\* scoreboard looks into it, it describes the one burst in flight, all of it.
HandleIsTheBurst ==
  /\ Scb!CanCheckWrite => wrT.cmd = item.cmd /\ Len(wrT.data) = item.cmd.len + 1
  /\ Scb!CanCheckRead => rdT.cmd = item.cmd /\ Len(rdT.data) = item.cmd.len + 1

\* The driver takes one transfer at a time and looks at a channel only when it
\* expects something there, and RREADY is never lowered: no answer may come at
\* any other time, and no access while the slave driver has no item.
AnswersAreMet ==
  /\ bvalid /\ bready => phase = "answer" /\ item.cmd.write
  /\ rvalid /\ rready => phase = "answer" /\ ~item.cmd.write
  /\ Apb!PselOut # {} /\ ~Apb!Penable => slaveItems > 0

\* The sequence of a burst that the bridge serves to the end comes to its own end:
\* its answer is seen and its slave_ready items are used up.
SequencesFinish == (InFlight /\ FullyServed(item)) ~> ~InFlight

\* T4 of the coverage plan (bins all_off) asks for bursts without strobes, so their
\* sequence must come to its end too.
EverySequenceFinishes == InFlight ~> ~InFlight

\* T1 to T3 of the coverage plan: what is sampled for a burst is its own address,
\* length and type (func_cover).
CoverageSamplesItsBurst ==
  [][Len(toCover') < Len(toCover) => Cover!SampledCmd = Head(toCover).burst]_tbVars
=============================================================================
