------------------------------- MODULE AxiArb -------------------------------
(***************************************************************************)
(* The AXI address side of the bridge: the arbiter DW_axi_x2p_arb that lets *)
(* one of the write address and read address channels into the single      *)
(* command queue per cycle, the part of DW_axi_x2p_p that pushes the queue, *)
(* and the command queue itself, as the Fifo it implements.  A ready is     *)
(* given for one cycle, decided a cycle ahead, and the push happens in that *)
(* cycle: the arbiter has to know beforehand that there will be room.       *)
(***************************************************************************)
EXTENDS Naturals, Sequences

CONSTANTS
  Writes,        \* the write commands the master may send
  Reads,         \* and the read commands
  CmdDepth       \* X2P_CMD_QUEUE_DEPTH

ASSUME CmdDepthAssumption == CmdDepth \in Nat \ {0}

VARIABLES
  awvalid, aw,   \* the write address channel, valid held until ready
  arvalid, ar,   \* the read address channel
  arbState,
  queue, held, seen,   \* the command queue
  overtaken      \* per channel, the commands of the other one let in while it waited

axiVars == <<awvalid, aw, arvalid, ar>>
queueVars == <<queue, held, seen>>
vars == <<axiVars, arbState, queueVars, overtaken>>

CmdQueue == INSTANCE Fifo WITH Data <- Writes \cup Reads, Depth <- CmdDepth

awready == arbState = "WREADY"
arready == arbState = "RREADY"

\* The queue has room (rdy_push), and has no second place left (rdy_push_af).
RdyPush == ~CmdQueue!PushFull

\* A mistake the properties must catch: the almost full level is one too high.
RdyPushAfLate == held >= CmdDepth
RdyPushAf == held >= CmdDepth - 1

Init ==
  /\ awvalid = FALSE /\ aw \in Writes
  /\ arvalid = FALSE /\ ar \in Reads
  /\ arbState = "IDLE"
  /\ CmdQueue!Init
  /\ overtaken = [aw |-> 0, ar |-> 0]

\* Mistakes the properties must catch: a write is followed by a look at writes
\* only, and reads are looked at first.
NextArbStateWriteFirst ==
  CASE arbState = "IDLE" ->
         IF RdyPush /\ awvalid THEN "WREADY"
         ELSE IF RdyPush /\ arvalid THEN "RREADY" ELSE "IDLE"
    [] OTHER -> "IDLE"
NextArbStateReadFirst ==
  CASE arbState = "IDLE" ->
         IF RdyPush /\ arvalid THEN "RREADY"
         ELSE IF RdyPush /\ awvalid THEN "WREADY" ELSE "IDLE"
    [] OTHER -> "IDLE"

NextArbState ==
  CASE arbState = "IDLE" ->
         IF RdyPush /\ awvalid THEN "WREADY"
         ELSE IF RdyPush /\ arvalid THEN "RREADY" ELSE "IDLE"
    [] arbState = "WREADY" ->
         IF ~arvalid THEN "IDLE" ELSE IF RdyPushAf THEN "RREADY_PEND" ELSE "RREADY"
    [] arbState = "RREADY" ->
         IF awvalid /\ ~RdyPushAf THEN "WREADY" ELSE "IDLE"
    [] arbState = "RREADY_PEND" ->
         IF RdyPush THEN "RREADY" ELSE "RREADY_PEND"

\* The ready of the arbiter is the valid the slave port sees, so a push is made
\* in every ready cycle, and the read word is taken when the read port pushes.
PushCmd == CmdQueue!PushEdge(awready \/ arready, IF arready THEN ar ELSE aw)

\* Being overtaken is counted no further than the properties look.
TooOften == 2

\* One edge of aclk; the master lowers its valid after the handshake.
Aclk ==
  /\ arbState' = NextArbState
  /\ PushCmd
  /\ awvalid' = (awvalid /\ ~awready)
  /\ arvalid' = (arvalid /\ ~arready)
  /\ UNCHANGED <<aw, ar>>
  /\ overtaken' = [aw |-> IF awready \/ ~awvalid THEN 0
                          ELSE overtaken.aw + (IF arready /\ overtaken.aw < TooOften THEN 1 ELSE 0),
                   ar |-> IF arready \/ ~arvalid THEN 0
                          ELSE overtaken.ar + (IF awready /\ overtaken.ar < TooOften THEN 1 ELSE 0)]

SendWrite ==
  /\ ~awvalid /\ awvalid' = TRUE /\ aw' \in Writes
  /\ UNCHANGED <<arvalid, ar, arbState, queueVars, overtaken>>

SendRead ==
  /\ ~arvalid /\ arvalid' = TRUE /\ ar' \in Reads
  /\ UNCHANGED <<awvalid, aw, arbState, queueVars, overtaken>>

\* The APB side takes a command, or only learns of new ones.
Pclk ==
  /\ \E pops \in BOOLEAN : CmdQueue!PopEdge(pops)
  /\ UNCHANGED <<axiVars, arbState, overtaken>>

Next == Aclk \/ SendWrite \/ SendRead \/ Pclk

\* Both clocks run, the APB side finishes one command after the other, and the
\* news of pops and pushes crosses the clock boundary.
Fairness ==
  /\ WF_vars(Aclk /\ held' = Len(queue'))
  /\ WF_vars(Pclk /\ queue # <<>> /\ (IF seen = 0 THEN seen' > 0 ELSE queue' # queue))

Spec == Init /\ [][Next]_vars
FairSpec == Spec /\ Fairness

----------------------------------------------------------------------------
\* The types of the arbiter's and the master's variables.
TypeOK ==
  /\ awvalid \in BOOLEAN /\ aw \in Writes
  /\ arvalid \in BOOLEAN /\ ar \in Reads
  /\ arbState \in {"IDLE", "WREADY", "RREADY", "RREADY_PEND"}
  /\ overtaken \in [aw : 0 .. TooOften, ar : 0 .. TooOften]

\* A channel is told ready only while it offers a command, and only when the
\* command queue takes it in that very cycle: no command is lost, doubled, or
\* made up, although the decision was taken a cycle earlier (ARB_STATES_PROC).
ReadyIsKept ==
  /\ awready => awvalid /\ RdyPush
  /\ arready => arvalid /\ RdyPush

\* The comment at arb 106-114: under contention reads and writes alternate.  A
\* waiting command sees at most one command of the other channel go first.
Alternates == overtaken.aw <= 1 /\ overtaken.ar <= 1

\* Every address the master offers is accepted.
WritesAreAccepted == awvalid ~> awready
ReadsAreAccepted == arvalid ~> arready
=============================================================================
