------------------------------ MODULE ApbSide ------------------------------
(***************************************************************************)
(* ApbMaster closed with the most general partners its pins can meet: a    *)
(* command queue and a write buffer that deliver at any moment, response   *)
(* and read buffers that may fill with any push and drain at any moment,   *)
(* and a slave whose answers are told apart by their number in the burst.  *)
(* Write words arrive in the order of the bursts they belong to, the last   *)
(* one of each marked, and may be there before their command is.           *)
(* History variables record what one command has done so far.              *)
(***************************************************************************)
EXTENDS ApbMaster, AxiBurst

CONSTANTS
  Commands,      \* the commands the command queue may deliver
  Strobes        \* the classes of write strobes: all set, none, or a mix

ASSUME LenWidthAssumption == LenWidth \in Nat
ASSUME CommandsAssumption ==
  Commands \subseteq
    [write: BOOLEAN, burst: {FIXED, INCR, WRAP, RESERVED}, size: {0, 1, 2},
     len: 0 .. 2 ^ LenWidth - 1, id: Nat, addr: 0 .. AddrSpace - 1]
ASSUME StrobesAssumption == Strobes \subseteq {"all", "none", "some"}

VARIABLES
  owner,         \* the command the control works for, or worked for last
  popped,        \* the strobes of its write words, in order of popping
  writes,        \* the APB writes made for it
  served         \* the number of its read beats pushed to the read buffer

history == <<owner, popped, writes, served>>
vars == <<pins, registers, history>>

Init ==
  /\ Reset
  /\ cmd = ResetCmd /\ cmdReady = FALSE
  /\ word = ResetWord /\ wordReady = FALSE
  /\ respFull = FALSE /\ readFull = FALSE /\ prdata = 0
  /\ owner = ResetCmd /\ popped = <<>> /\ writes = <<>> /\ served = 1

----------------------------------------------------------------------------
(* The effect of an edge on the pins and on the history.                    *)

Starts == state = "IDLE" /\ cmdReady

\* An emptied command queue shows any old command at its output.
BuffersFollow ==
  /\ cmdReady' = (cmdReady /\ ~PopCmdQueue)
  /\ IF PopCmdQueue THEN cmd' \in Commands ELSE UNCHANGED cmd
  /\ wordReady' = (wordReady /\ ~PopWriteBuff)
  /\ UNCHANGED word
  /\ respFull' \in {respFull, respFull \/ PushResponse}
  /\ readFull' \in {readFull, readFull \/ PushReadBuffer}
  /\ prdata' = IF Starts THEN 0 ELSE IF state = "REN" THEN prdata + 1 ELSE prdata

HistoryFollows ==
  /\ owner' = IF Starts THEN cmd ELSE owner
  /\ popped' = (IF Starts THEN <<>> ELSE popped)
               \o (IF PopWriteBuff THEN <<word.strobes>> ELSE <<>>)
  /\ writes' = CASE Starts -> <<>>
                 [] state = "WEN" ->
                      Append(writes, [addr |-> paddr, sel |-> psel, data |-> pwdata])
                 [] OTHER -> writes
  /\ served' = IF Starts THEN 0 ELSE IF PushReadBuffer THEN served + 1 ELSE served

Clock == Edge /\ BuffersFollow /\ HistoryFollows

----------------------------------------------------------------------------
(* The partners.                                                            *)

\* The write burst the next word belongs to is known while a write command is
\* in hand and still has words to come.
Unfinished == state # "IDLE" /\ owner.write /\ Len(popped) <= owner.len
Waiting == state = "IDLE" /\ cmdReady /\ cmd.write

\* A command stands at the output of the queue's RAM from the edge that wrote it,
\* and the flag follows when the pointer has crossed.
CommandArrives ==
  /\ ~cmdReady
  /\ cmdReady' \in BOOLEAN
  /\ \E c \in Commands :
       /\ (cmdReady' /\ c.write /\ wordReady) => (word.last <=> c.len = 0)
       /\ cmd' = c
  /\ UNCHANGED <<word, wordReady, respFull, readFull, prdata, registers, history>>

WordArrives ==
  /\ ~wordReady
  /\ \E s \in Strobes, last \in BOOLEAN :
       /\ Unfinished => (last <=> Len(popped) = owner.len)
       /\ Waiting => (last <=> cmd.len = 0)
       /\ word' = [data |-> IF Unfinished THEN Len(popped) ELSE 0,
                   strobes |-> s, last |-> last]
  /\ wordReady' = TRUE
  /\ UNCHANGED <<cmd, cmdReady, respFull, readFull, prdata, registers, history>>

RespDrains ==
  /\ respFull /\ respFull' = FALSE
  /\ UNCHANGED <<cmd, cmdReady, word, wordReady, readFull, prdata, registers, history>>

ReadDrains ==
  /\ readFull /\ readFull' = FALSE
  /\ UNCHANGED <<cmd, cmdReady, word, wordReady, respFull, prdata, registers, history>>

Next == Clock \/ CommandArrives \/ WordArrives \/ RespDrains \/ ReadDrains

\* The clock runs, the master sends the words of the write in hand and takes
\* the answers; nothing makes it send another command, or words of one.
Fairness ==
  /\ WF_vars(Clock)
  /\ WF_vars(WordArrives /\ (Unfinished \/ Waiting))
  /\ WF_vars(RespDrains)
  /\ WF_vars(ReadDrains)

Spec == Init /\ [][Next]_vars
FairSpec == Spec /\ Fairness

----------------------------------------------------------------------------
(* Properties.                                                              *)

\* The range of every register and pin; the beat counter has LenWidth bits.
Words == [data : {NoData} \cup (0 .. 2 ^ LenWidth - 1),
          strobes : {"all", "none", "some"}, last : BOOLEAN]
TypeOK ==
  /\ {cmd, owner} \subseteq Commands \cup {ResetCmd}
  /\ {word, wordReg} \subseteq Words
  /\ {cmdReady, wordReady, respFull, readFull} \subseteq BOOLEAN
  /\ state \in States
  /\ beat \in 0 .. 2 ^ LenWidth - 1
  /\ {error, rdError, pushReadReg, lastPushRead, popRequest, writeBuffEmpty,
      writeLastReg, dlydResp, savedError} \subseteq BOOLEAN
  /\ {baseAddr, address, paddr} \subseteq 0 .. AddrSpace - 1
  /\ psel \subseteq Slaves
  /\ {pwdata, axiData} \subseteq {NoData} \cup (0 .. 2 ^ LenWidth - 1)
  /\ prdata \in 0 .. 2 ^ LenWidth
  /\ {axiId, savedCmdId} \subseteq {c.id : c \in Commands \cup {ResetCmd}}
  /\ popped \in Seq(Strobes) /\ Len(popped) <= 2 ^ LenWidth
  /\ Len(writes) <= Len(popped)
  /\ served \in 0 .. 2 ^ LenWidth

IsPrefixOf(s, t) == Len(s) <= Len(t) /\ s = SubSeq(t, 1, Len(s))

\* The APB writes made so far are those the burst's words ask for, in order,
\* at the AXI address of each beat and with the data of that beat, and a
\* refused beat lets no later one through (CHK_ON_STROBES_PROC, NEXT_ADDR_PROC,
\* SEL_DATA).
WritesInOrder ==
  owner.write => IsPrefixOf(writes, WritesUpTo(owner, popped, Len(popped)))

\* A write response is pushed only when every word of the burst is popped and
\* every write it asks for is done; it carries the ID of that burst, and an
\* error exactly when a beat of it was refused (NEXT_ERROR_PROC, s_response).
ResponseTellsTheTruth ==
  PushResponse =>
    /\ owner.write
    /\ Len(popped) = owner.len + 1
    /\ writes = WritesUpTo(owner, popped, owner.len + 1)
    /\ savedCmdId = owner.id
    /\ RespStatus = Refused(owner, popped, owner.len)

\* Once a burst is in hand, only its own words are popped for it, however many
\* words of later bursts wait behind them (POP_WRITE_BUS_PROC).
PopsOwnWordsOnly ==
  (PopWriteBuff /\ state # "IDLE") =>
    Len(popped) <= owner.len /\ word.data = Len(popped)

\* A delayed response always finds room: it was only requested when there was,
\* so it leaves before the next command's ID replaces its own.
ResponseNeverWaits == dlydResp => state = "IDLE" /\ ~respFull

\* The read beats pushed are exactly those of the burst: the last flag is on
\* the last one and on no other, each carries the burst's ID, and a beat that
\* claims success carries the answer of its own APB access.
ReadBeatsInOrder ==
  PushReadBuffer =>
    /\ ~owner.write
    /\ served <= owner.len
    /\ lastPushRead = (served = owner.len)
    /\ axiId = owner.id
    /\ ~rdError => axiData = served

\* The n-th APB read of a burst is made at the AXI address of its n-th beat,
\* and no read is made at a bad beat or past the last one.
ReadsAtAxiAddress ==
  state = "REN" =>
    /\ prdata <= owner.len
    /\ paddr = AxiAddress(owner, prdata)
    /\ ~BadBeat(owner, prdata)

\* No beat at or after a bad address claims success.
BadBeatsFail ==
  PushReadBuffer =>
    ((\E j \in 0 .. served : BadBeat(owner, j)) => rdError)

\* A read command is left only when all its beats are in the read buffer, the
\* last one being pushed in the first idle cycle.
ReadIsComplete ==
  (state = "IDLE" /\ ~owner.write) => served + (IF PushReadBuffer THEN 1 ELSE 0) = owner.len + 1

\* Nothing is pushed into a full read buffer, although a push is decided a
\* cycle before it is made.
NoPushOnFull == PushReadBuffer => ~readFull

\* The pins toward the slaves follow the APB protocol.
Bus == INSTANCE ApbBus WITH
         Target <- Decode, sel <- PselOut, enable <- Penable, addr <- paddr,
         write <- Pwrite, data <- pwdata
FollowsApb == Bus!Spec

\* Once the control has left IDLE for a command it comes back to it.
CommandFinishes == (state # "IDLE") ~> (state = "IDLE")

\* The comment at s_control 856-858: the beats before a bad address were good
\* and their push is to carry no error.
GoodBeatsSucceed ==
  PushReadBuffer =>
    ((\A j \in 0 .. served : ~BadBeat(owner, j)) => ~rdError)
=============================================================================
