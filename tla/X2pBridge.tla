----------------------------- MODULE X2pBridge -----------------------------
(***************************************************************************)
(* The whole bridge (DW_axi_x2p): the arbiter and the slave port on aclk,  *)
(* the APB master on pclk, and the four queues between them, against an    *)
(* AXI master that may have several bursts outstanding and slaves that      *)
(* answer a read with its address.  A step is an edge of one of the clocks, *)
(* or the master raising an address valid.                                 *)
(***************************************************************************)
EXTENDS AxiBurst

CONSTANTS
  LenWidth,        \* bits of AxLEN
  WriteBursts,     \* what the master may write: [cmd, strobes], a class per beat
  ReadCommands,    \* and read
  CmdDepth,        \* X2P_CMD_QUEUE_DEPTH
  WriteDepth,      \* X2P_WRITE_BUFFER_DEPTH
  RespDepth,       \* X2P_WRITE_RESP_BUFFER_DEPTH
  ReadDepth,       \* X2P_READ_BUFFER_DEPTH
  MaxWrites,       \* bounds on the writes
  MaxReads         \* and reads the master has outstanding

ASSUME DepthsAssumption == {CmdDepth, WriteDepth, RespDepth, ReadDepth} \subseteq Nat \ {0}

VARIABLES
  \* the address channels and the arbiter
  awvalid, aw, arvalid, ar, arbState, overtaken,
  \* the queues; cmdRam holds the last CmdDepth commands pushed, oldest first
  cmdQueue, cmdHeld, cmdSeen, cmdRam,
  wordQueue, wordHeld, wordSeen,
  respQueue, respHeld, respSeen,
  readQueue, readHeld, readSeen,
  \* the registers of the APB side
  state, beat, error, rdError, pushReadReg, lastPushRead, popRequest,
  writeBuffEmpty, writeLastReg, baseAddr, address, paddr, psel, wordReg,
  pwdata, axiData, axiId, dlydResp, savedCmdId, savedError,
  prdata,          \* the answer to an APB read, while it is made
  \* the AXI master: bursts in the order sent, until they are answered
  openWrites,      \* [cmd, strobes]
  toSend,          \* the write words it has yet to send
  openReads,       \* commands
  beatsGot,        \* the beats taken of the first of them
  \* the slaves: the APB writes made for writes not yet answered, per burst
  apbWrites

channels == <<awvalid, aw, arvalid, ar, arbState, overtaken>>
cmdVars == <<cmdQueue, cmdHeld, cmdSeen>>
wordVars == <<wordQueue, wordHeld, wordSeen>>
respVars == <<respQueue, respHeld, respSeen>>
readVars == <<readQueue, readHeld, readSeen>>
queues == <<cmdVars, cmdRam, wordVars, respVars, readVars>>
registers ==
  <<state, beat, error, rdError, pushReadReg, lastPushRead, popRequest,
    writeBuffEmpty, writeLastReg, baseAddr, address, paddr, psel, wordReg,
    pwdata, axiData, axiId, dlydResp, savedCmdId, savedError>>
partners == <<openWrites, toSend, openReads, beatsGot, apbWrites>>
vars == <<channels, queues, registers, prdata, partners>>

Words == [data : 0 .. 2 ^ LenWidth - 1, strobes : {"all", "none", "some"}, last : BOOLEAN]
Responses == [id : Nat, error : BOOLEAN]
Beats == [data : {-1} \cup (0 .. AddrSpace - 1), id : Nat, error : BOOLEAN, last : BOOLEAN]
WriteCommands == {b.cmd : b \in WriteBursts}

\* The channel a command comes by gives its kind; a write has a class per beat.
ASSUME BurstsAssumption ==
  /\ LenWidth \in Nat
  /\ WriteCommands \cup ReadCommands \subseteq
       [write: BOOLEAN, burst: {FIXED, INCR, WRAP, RESERVED}, size: {0, 1, 2},
        len: 0 .. 2 ^ LenWidth - 1, id: Nat, addr: 0 .. AddrSpace - 1]
  /\ \A b \in WriteBursts :
       b.cmd.write /\ b.strobes \in [1 .. b.cmd.len + 1 -> {"all", "none", "some"}]
  /\ \A c \in ReadCommands : ~c.write

Arb == INSTANCE AxiArb WITH
         Writes <- WriteCommands, Reads <- ReadCommands,
         queue <- cmdQueue, held <- cmdHeld, seen <- cmdSeen
CmdQueue == INSTANCE Fifo WITH Data <- WriteCommands \cup ReadCommands, Depth <- CmdDepth,
              queue <- cmdQueue, held <- cmdHeld, seen <- cmdSeen
WordQueue == INSTANCE Fifo WITH Data <- Words, Depth <- WriteDepth,
               queue <- wordQueue, held <- wordHeld, seen <- wordSeen
RespQueue == INSTANCE Fifo WITH Data <- Responses, Depth <- RespDepth,
               queue <- respQueue, held <- respHeld, seen <- respSeen
ReadQueue == INSTANCE Fifo WITH Data <- Beats, Depth <- ReadDepth,
               queue <- readQueue, held <- readHeld, seen <- readSeen

\* The RAM is read without a clock: its output is the slot of the read pointer,
\* a command the flag does not show yet, or the oldest one when there is none.
CmdOut == IF cmdQueue = <<>> THEN Head(cmdRam) ELSE Head(cmdQueue)

\* The word at the output of the write buffer; only looked at when it is there.
WordOut == IF WordQueue!PopEmpty THEN wordReg ELSE Head(wordQueue)

Apb == INSTANCE ApbMaster WITH
         cmd <- CmdOut, cmdReady <- ~CmdQueue!PopEmpty,
         word <- WordOut, wordReady <- ~WordQueue!PopEmpty,
         respFull <- RespQueue!PushFull, readFull <- ReadQueue!PushFull

----------------------------------------------------------------------------
Init ==
  /\ Arb!Init
  /\ cmdRam = [i \in 1 .. CmdDepth |-> Apb!ResetCmd]
  /\ WordQueue!Init /\ RespQueue!Init /\ ReadQueue!Init
  /\ Apb!Reset /\ prdata = Apb!NoData
  /\ openWrites = <<>> /\ toSend = <<>> /\ openReads = <<>> /\ beatsGot = 0
  /\ apbWrites = <<>>

(* The slave port: a queue flag becomes a valid or a ready.                 *)
bvalid == ~RespQueue!PopEmpty
rvalid == ~ReadQueue!PopEmpty
wready == ~WordQueue!PushFull

\* One edge of aclk with the handshakes made at it; a valid or a ready without
\* its partner changes nothing.
AclkWith(wHandshake, bHandshake, rHandshake) ==
  /\ Arb!Aclk
  /\ cmdRam' = IF Arb!awready \/ Arb!arready
               THEN Append(Tail(cmdRam), IF Arb!arready THEN ar ELSE aw)
               ELSE cmdRam
  /\ wHandshake => wready /\ toSend # <<>>
  /\ WordQueue!PushEdge(wHandshake, IF wHandshake THEN Head(toSend) ELSE Apb!ResetWord)
  /\ toSend' = IF wHandshake THEN Tail(toSend) ELSE toSend
  /\ bHandshake => bvalid
  /\ RespQueue!PopEdge(bHandshake)
  /\ openWrites' = IF bHandshake THEN Tail(openWrites) ELSE openWrites
  /\ apbWrites' = IF bHandshake THEN Tail(apbWrites) ELSE apbWrites
  /\ rHandshake => rvalid
  /\ ReadQueue!PopEdge(rHandshake)
  /\ LET last == rHandshake /\ Head(readQueue).last IN
       /\ openReads' = IF last THEN Tail(openReads) ELSE openReads
       /\ beatsGot' = IF last THEN 0 ELSE beatsGot + (IF rHandshake THEN 1 ELSE 0)
  /\ UNCHANGED <<registers, prdata>>

Aclk == \E w, b, r \in BOOLEAN : AclkWith(w, b, r)

\* What the APB side pushes into the answer queues.
Response == [id |-> savedCmdId, error |-> Apb!RespStatus]
Beat == [data |-> axiData, id |-> axiId, error |-> rdError, last |-> lastPushRead]

\* The slaves see a write at the end of its access; the writes of a burst are
\* kept together, and a burst without any has an empty entry.
SlavesSee ==
  LET taken == state = "IDLE" /\ ~CmdQueue!PopEmpty /\ CmdOut.write
      write == [addr |-> paddr, sel |-> psel, data |-> pwdata]
  IN  apbWrites' = CASE taken -> Append(apbWrites, <<>>)
                     [] state = "WEN" ->
                          [apbWrites EXCEPT ![Len(apbWrites)] = Append(@, write)]
                     [] OTHER -> apbWrites

\* The multiplexer passes on the answer of the one selected slave, and zero
\* otherwise.
Mux(answer) == IF \E s \in Slaves : psel = {s} THEN answer ELSE Apb!NoData

\* One edge of pclk, but for what the slaves answer.
PclkEdge ==
  /\ Apb!Edge
  /\ CmdQueue!PopEdge(Apb!PopCmdQueue)
  /\ WordQueue!PopEdge(Apb!PopWriteBuff)
  /\ RespQueue!PushEdge(Apb!PushResponse, Response)
  /\ ReadQueue!PushEdge(Apb!PushReadBuffer, Beat)
  /\ SlavesSee
  /\ UNCHANGED <<channels, cmdRam, openWrites, toSend, openReads, beatsGot>>

\* A read select ends with the slave's answer for the access.
PclkWith(answer) ==
  /\ PclkEdge
  /\ prdata' = IF state = "RSEL" THEN Mux(answer) ELSE Apb!NoData

\* Here a slave answers a read with the address it is asked for.
Pclk == PclkWith(paddr)

WordsOf(b) ==
  [i \in 1 .. b.cmd.len + 1 |->
     [data |-> i - 1, strobes |-> b.strobes[i], last |-> i = b.cmd.len + 1]]

\* The master sends the address of a burst; its words may go ahead of it.
SendWrite ==
  /\ Len(openWrites) < MaxWrites
  /\ \E b \in WriteBursts :
       /\ Arb!SendWrite /\ aw' = b.cmd
       /\ openWrites' = Append(openWrites, b)
       /\ toSend' = toSend \o WordsOf(b)
  /\ UNCHANGED <<cmdRam, wordVars, respVars, readVars, registers, prdata, openReads,
                 beatsGot, apbWrites>>

SendRead ==
  /\ Len(openReads) < MaxReads
  /\ Arb!SendRead
  /\ openReads' = Append(openReads, ar')
  /\ UNCHANGED <<cmdRam, wordVars, respVars, readVars, registers, prdata, openWrites,
                 toSend, beatsGot, apbWrites>>

Next == Aclk \/ Pclk \/ SendWrite \/ SendRead

\* Both clocks run and the news of pushes and pops arrives (what the queues
\* promise: AsyncFifo, PushIsSeen and FullIsReleased); the master sends the
\* words it owes and takes every answer.
NewsAtAclk ==
  /\ cmdHeld' = Len(cmdQueue') /\ wordHeld' = Len(wordQueue')
  /\ respSeen' = Len(respQueue') /\ readSeen' = Len(readQueue')
NewsAtPclk ==
  /\ cmdSeen' = Len(cmdQueue') /\ wordSeen' = Len(wordQueue')
  /\ respHeld' = Len(respQueue') /\ readHeld' = Len(readQueue')

Fairness ==
  /\ WF_vars(Aclk /\ NewsAtAclk) /\ WF_vars(Pclk /\ NewsAtPclk)
  /\ WF_vars(\E b, r \in BOOLEAN : AclkWith(TRUE, b, r))
  /\ WF_vars(\E w, r \in BOOLEAN : AclkWith(w, TRUE, r))
  /\ WF_vars(\E w, b \in BOOLEAN : AclkWith(w, b, TRUE))

Spec == Init /\ [][Next]_vars
FairSpec == Spec /\ Fairness

----------------------------------------------------------------------------
(* Properties.                                                              *)

\* Every response on its way, in either clock domain, answers the write whose
\* turn it is, with its ID and its status, and stands for writes the slaves
\* have really seen: exactly those the burst asks for (testbench P3 and P4:
\* address and data come before the response).
ResponsesAnswerWrites ==
  /\ Len(respQueue) <= Len(openWrites)
  /\ \A k \in 1 .. Len(respQueue) :
       LET b == openWrites[k] IN
         /\ respQueue[k] = [id |-> b.cmd.id, error |-> Refused(b.cmd, b.strobes, b.cmd.len)]
         /\ apbWrites[k] = WritesUpTo(b.cmd, b.strobes, b.cmd.len + 1)
         /\ awvalid => k < Len(openWrites)

\* Every read beat the master is offered is the next one of its oldest read: ID,
\* last flag, and the answer of the slave at that beat's address; no bad beat
\* claims success (testbench P2).
BeatsAnswerReads ==
  rvalid =>
    /\ openReads # <<>>
    /\ LET c == Head(openReads)
           r == Head(readQueue)
       IN  /\ beatsGot <= c.len
           /\ r.id = c.id
           /\ r.last = (beatsGot = c.len)
           /\ (\E j \in 0 .. beatsGot : BadBeat(c, j)) => r.error
           /\ ~r.error => r.data = AxiAddress(c, beatsGot)

\* No answer is lost on its way out of the APB side, although each push is decided
\* a cycle before it is made and the count of the buffer lags: the delayed one
\* always finds room (push_read_buffer_reg, dlyd_resp).
AnswersFindRoom ==
  /\ Apb!PushReadBuffer => ~ReadQueue!PushFull
  /\ dlydResp => state = "IDLE" /\ ~RespQueue!PushFull

\* The pins toward the slaves follow the APB protocol.
Bus == INSTANCE ApbBus WITH
         Target <- Decode, sel <- Apb!PselOut, enable <- Apb!Penable, addr <- paddr,
         write <- Apb!Pwrite, data <- pwdata
FollowsApb == Bus!Spec

\* Once every write is answered no word of one is left behind, neither in the
\* buffer nor with the master: a refused burst is drained before its response.
NothingLeftOver ==
  (openWrites = <<>>) => (wordQueue = <<>> /\ toSend = <<>>)

\* Every write the master sends is answered, and every read, through four queues
\* and two clock domains (testbench P2 to P4 read as promises).
WritesAreAnswered == (openWrites # <<>>) ~> bvalid
ReadsAreAnswered == (openReads # <<>>) ~> rvalid
=============================================================================
