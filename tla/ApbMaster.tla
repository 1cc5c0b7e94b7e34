----------------------------- MODULE ApbMaster -----------------------------
(***************************************************************************)
(* The APB side of the bridge (DW_axi_x2p_s and the blocks it instantiates) *)
(* as one clocked machine: the control state machine of s_control, the     *)
(* address registers of s_addr_dcd, the write word register of s, the       *)
(* unpacker, the packer and the response register.  Every action is one    *)
(* edge of pclk in one control state: it chooses state', and Registers      *)
(* gives every other register its next value from state and state'.         *)
(*                                                                         *)
(* The pins are variables this module only reads: the output ends of the   *)
(* command queue and the write data buffer, the full flags of the response *)
(* and read data buffers, and PRDATA.  With equal AXI and APB widths every *)
(* AXI word is one APB word: apb_wd_sel stays 0, last_strobes is 1 from the *)
(* first pop on, and apb_read_last is set exactly in REN.                   *)
(***************************************************************************)
EXTENDS AddrDcd

CONSTANT
  LenWidth       \* bits of AxLEN and of the beat counter

VARIABLES
  \* pins
  cmd,           \* cmd_queue_wd: the word at the output of the command queue
  cmdReady,      \* ~cmd_queue_empty
  word,          \* hwword_int: the word at the output of the write buffer
  wordReady,     \* ~next_write_buff_empty
  respFull,      \* resp_rdy_n
  readFull,      \* read_buffer_full
  prdata,
  \* s_control
  state,
  beat,          \* apb_axi_beat
  error,
  rdError,       \* rd_error
  pushReadReg,   \* ~push_read_buffer_reg
  lastPushRead,  \* last_push_read
  popRequest,    \* pop_wr_buff_request
  writeBuffEmpty,
  writeLastReg,  \* write_buffer_last_reg
  \* s_addr_dcd
  baseAddr, address, paddr, psel,
  \* s, unpack, packer, response
  wordReg,       \* write_data_reg, write_strobes_reg, write_last_reg
  pwdata,        \* selected_data
  axiData,       \* axi_data_reg
  axiId,
  dlydResp, savedCmdId, savedError

pins == <<cmd, cmdReady, word, wordReady, respFull, readFull, prdata>>
registers ==
  <<state, beat, error, rdError, pushReadReg, lastPushRead, popRequest,
    writeBuffEmpty, writeLastReg, baseAddr, address, paddr, psel, wordReg,
    pwdata, axiData, axiId, dlydResp, savedCmdId, savedError>>

States == {"IDLE", "PURGE", "WSEL", "WEN", "NWSEL", "NWEN", "WDTWT", "WTSTART",
           "WRESP", "RSEL", "REN", "NREN", "RBUFWT", "PREPURGE"}

----------------------------------------------------------------------------
(* The APB outputs and the requests to the buffers.                         *)

Penable == state \in {"WEN", "REN"}
Pwrite == state \in {"WSEL", "WEN"}

\* A mistake the properties must catch: the select lines are not gated.
PselUngated == psel

PselOut == IF state \in {"WSEL", "WEN", "RSEL", "REN"} THEN psel ELSE {}

\* A mistake the properties must catch: a burst that cannot wrap is let through.
DcdErrorRangeOnly == Decode(address) = {}

DcdError == Decode(address) = {} \/ WrapError(cmd)
AnyError == DcdError \/ error \/ InitialCmdError(cmd)

\* A mistake the properties must catch: the length is taken for a count of beats.
LastBeatEarly == beat + 1 = cmd.len

LastBeat == beat = cmd.len

\* Mistakes the properties must catch: the word after the last one is popped
\* too, and a purge leaves the words of its burst in the buffer.
PopWriteBuffGreedy ==
  /\ cmd.write
  /\ wordReady
  /\ \/ state \in {"WSEL", "NWSEL"}
     \/ state \in {"IDLE", "WDTWT", "WTSTART"} /\ cmdReady
     \/ state = "PURGE" /\ ~wordReg.last
PopWriteBuffNoPurge ==
  /\ cmd.write
  /\ wordReady
  /\ \/ state \in {"WSEL", "NWSEL"} /\ ~writeLastReg
     \/ state \in {"IDLE", "WDTWT", "WTSTART"} /\ cmdReady

PopWriteBuff ==
  /\ cmd.write
  /\ wordReady
  /\ \/ state \in {"WSEL", "NWSEL"} /\ ~writeLastReg
     \/ state \in {"IDLE", "WDTWT", "WTSTART"} /\ cmdReady
     \/ state = "PURGE" /\ ~wordReg.last

\* A mistake the properties must catch: the push does not wait for room.
NextPushReadEager == ~cmd.write /\ state \in {"REN", "RBUFWT"}

\* A beat is put on the read buffer's input one cycle after it is ready,
\* except in a purge, which pushes whenever the buffer has room.
NextPushRead == ~cmd.write /\ ~readFull /\ state \in {"REN", "RBUFWT"}
PushReadBuffer ==
  IF state = "PURGE" /\ ~cmd.write THEN ~readFull ELSE pushReadReg

\* A mistake the properties must catch: the response does not wait for room.
PushRspRequestAnyway == state = "WRESP"

PushRspRequest == state = "WRESP" /\ ~respFull
PushResponse == dlydResp /\ ~respFull

\* A mistake the properties must catch: the error bit is used after it is cleared.
RespStatusLive == error

RespStatus == IF PushRspRequest THEN error ELSE savedError

PopCmdQueue ==
  \/ PushRspRequest
  \/ /\ state \in {"REN", "RBUFWT"} \/ (state = "PURGE" /\ ~cmd.write)
     /\ LastBeat /\ ~readFull /\ cmdReady

\* Mistakes the properties must catch: the counter has a bit too many, and the
\* beats of a purge are not counted.
NextBeatWide ==
  IF (state = "PURGE" /\ ~readFull) \/ NextPushRead
  THEN beat + 1
  ELSE IF state = "IDLE" THEN 0 ELSE beat
NextBeatNoPurge ==
  IF NextPushRead
  THEN (beat + 1) % 2 ^ LenWidth
  ELSE IF state = "IDLE" THEN 0 ELSE beat

NextBeat ==
  IF (state = "PURGE" /\ ~readFull) \/ NextPushRead
  THEN (beat + 1) % 2 ^ LenWidth
  ELSE IF state = "IDLE" THEN 0 ELSE beat

SetAddr == (state = "IDLE" /\ (cmd.write \/ cmdReady)) \/ (state = "WTSTART" /\ cmd.write)
IncrBaseAddr ==
  \/ PopWriteBuff /\ state # "PURGE"
  \/ state = "RSEL" /\ ~LastBeat
IncrAddr == state \in {"WSEL", "NWSEL"}

NextAddress ==
  CASE SetAddr -> AddressFromSet(cmd)
    [] ~SetAddr /\ IncrBaseAddr -> AddressFromIncrBase(cmd, baseAddr, address)
    [] ~SetAddr /\ ~IncrBaseAddr /\ IncrAddr -> AddressFromIncr(address)
    [] OTHER -> address

----------------------------------------------------------------------------
(* The registers other than state.                                          *)

(* Those that look at state' are for use in an action.                      *)

NextError ==
  /\ state' # "IDLE"
  /\ \/ error
     \/ state \in {"PURGE", "PREPURGE"}
     \/ state' = "PURGE" /\ (cmd.write \/ state = "IDLE")

NextRdError ==
  \/ rdError /\ state # "IDLE"
  \/ /\ cmdReady /\ ~cmd.write
     /\ InitialCmdError(cmd) \/ (DcdError /\ state # "IDLE")

NextLastPushRead ==
  /\ ~cmd.write
  /\ CASE state \in {"RSEL", "PURGE", "PREPURGE"} -> NextBeat = cmd.len
       [] state = "IDLE" -> state' = "PURGE" /\ cmd.len = 0
       [] OTHER -> lastPushRead

\* A word has one APB part, so each select asks for the next word.
NextPopRequest ==
  state \in {"WSEL", "NWSEL"} \/ (popRequest /\ state # "WRESP")

NextWriteBuffEmpty ==
  /\ ~PopWriteBuff
  /\ IF state \in {"WEN", "NWEN", "WDTWT"} THEN ~wordReady ELSE writeBuffEmpty

NextWriteLastReg ==
  /\ state' # "IDLE"
  /\ IF state \in {"WEN", "NWEN"} THEN wordReg.last ELSE writeLastReg

ControlRegisters ==
  /\ beat' = NextBeat
  /\ error' = NextError
  /\ rdError' = NextRdError
  /\ pushReadReg' = NextPushRead
  /\ lastPushRead' = NextLastPushRead
  /\ popRequest' = NextPopRequest
  /\ writeBuffEmpty' = NextWriteBuffEmpty
  /\ writeLastReg' = NextWriteLastReg

AddressRegisters ==
  /\ baseAddr' = IF SetAddr THEN cmd.addr
                 ELSE IF IncrBaseAddr THEN BaseFromIncrBase(cmd, baseAddr)
                 ELSE baseAddr
  /\ address' = NextAddress
  /\ IF state' \in {"WSEL", "RSEL"}
     THEN paddr' = NextAddress /\ psel' = Decode(address)
     ELSE UNCHANGED <<paddr, psel>>

\* The reset and cleared values of the read data register hold no beat.
NoData == -1

\* The unpacker latches the word on its way into a write cycle, the packer the
\* answer of a read cycle.
NextPwdata == IF state' = "WSEL" THEN wordReg.data ELSE pwdata

NextAxiData ==
  CASE Penable /\ ~cmd.write -> prdata
    [] state = "IDLE" -> NoData
    [] OTHER -> axiData

DataRegisters ==
  /\ wordReg' = IF PopWriteBuff THEN word ELSE wordReg
  /\ pwdata' = NextPwdata
  /\ axiData' = NextAxiData
  /\ axiId' = cmd.id

ResponseRegisters ==
  /\ dlydResp' = IF PushResponse THEN FALSE ELSE dlydResp \/ PushRspRequest
  /\ savedCmdId' = IF state = "IDLE" THEN cmd.id ELSE savedCmdId
  /\ savedError' = RespStatus

Registers == ControlRegisters /\ AddressRegisters /\ DataRegisters /\ ResponseRegisters

----------------------------------------------------------------------------
(* The control state machine, one action per state.                         *)

Idle ==
  /\ state = "IDLE"
  /\ \/ ~cmdReady /\ state' = "IDLE"
     \/ cmdReady /\ cmd.write /\ state' = (IF wordReady THEN "NWEN" ELSE "WTSTART")
     \/ cmdReady /\ ~cmd.write /\ state' = (IF InitialCmdError(cmd) THEN "PURGE" ELSE "NREN")
  /\ Registers

\* A mistake the properties must catch: a refused write is answered at once.
PurgeAtOnce ==
  /\ state = "PURGE"
  /\ state' = IF cmd.write THEN "WRESP"
              ELSE IF LastBeat /\ ~readFull THEN "IDLE" ELSE "PURGE"
  /\ Registers

\* Drain the rest of a refused burst: pop its words, or answer its beats.
Purge ==
  /\ state = "PURGE"
  /\ state' = IF cmd.write
              THEN IF wordReg.last THEN "WRESP" ELSE "PURGE"
              ELSE IF LastBeat /\ ~readFull THEN "IDLE" ELSE "PURGE"
  /\ Registers

WSel == state = "WSEL" /\ state' = "WEN" /\ Registers

NWSel == state = "NWSEL" /\ state' = "NWEN" /\ Registers

\* A mistake the properties must catch: strobes are checked and errors are not.
CheckOnStrobesAlone ==
  CASE wordReg.strobes = "all" -> "WSEL"
    [] wordReg.strobes = "none" ->
         IF wordReg.last THEN "WRESP" ELSE IF wordReady THEN "NWSEL" ELSE "WDTWT"
    [] OTHER -> "PURGE"

\* What to do with the word in wordReg: strobes all set go to the bus, none
\* set are skipped, and a mix, or any error, purges the burst.
CheckOnStrobes ==
  CASE ~AnyError /\ wordReg.strobes = "all" -> "WSEL"
    [] ~AnyError /\ wordReg.strobes = "none" ->
         IF wordReg.last THEN "WRESP" ELSE IF wordReady THEN "NWSEL" ELSE "WDTWT"
    [] OTHER -> "PURGE"

\* The end of an APB write, and the check of a word that needs no write.
AfterWrite ==
  CASE popRequest /\ writeLastReg -> "WRESP"
    [] popRequest /\ ~writeLastReg /\ writeBuffEmpty -> "WDTWT"
    [] OTHER -> CheckOnStrobes

WEn == state = "WEN" /\ state' = AfterWrite /\ Registers

NWEn == state = "NWEN" /\ state' = AfterWrite /\ Registers

WDtWt ==
  /\ state = "WDTWT"
  /\ state' = IF wordReady THEN "NWEN" ELSE "WDTWT"
  /\ Registers

WtStart ==
  /\ state = "WTSTART"
  /\ state' = IF wordReady THEN "NWEN" ELSE "WTSTART"
  /\ Registers

WResp ==
  /\ state = "WRESP"
  /\ state' = IF respFull THEN "WRESP" ELSE "IDLE"
  /\ Registers

RSel == state = "RSEL" /\ state' = "REN" /\ Registers

REn ==
  /\ state = "REN"
  /\ state' = CASE readFull -> "RBUFWT"
                [] ~readFull /\ LastBeat -> "IDLE"
                [] ~readFull /\ ~LastBeat /\ (DcdError \/ error) -> "PREPURGE"
                [] OTHER -> "RSEL"
  /\ Registers

NREn ==
  /\ state = "NREN"
  /\ state' = IF AnyError THEN "PREPURGE" ELSE "RSEL"
  /\ Registers

PrePurge == state = "PREPURGE" /\ state' = "PURGE" /\ Registers

\* A mistake the properties must catch: the wait for room is not given up.
RBufWtForever == state = "RBUFWT" /\ state' = "RBUFWT" /\ Registers

RBufWt ==
  /\ state = "RBUFWT"
  /\ state' = CASE readFull -> "RBUFWT"
                [] ~readFull /\ LastBeat -> "IDLE"
                [] ~readFull /\ ~LastBeat /\ AnyError -> "PREPURGE"
                [] OTHER -> "RSEL"
  /\ Registers

----------------------------------------------------------------------------
\* The reset values; the write word register resets to no strobe and not last.
ResetWord == [data |-> NoData, strobes |-> "none", last |-> FALSE]
ResetCmd == [write |-> FALSE, burst |-> FIXED, size |-> 0, len |-> 0, id |-> 0, addr |-> 0]

Reset ==
  /\ state = "IDLE" /\ beat = 0
  /\ error = FALSE /\ rdError = FALSE /\ pushReadReg = FALSE /\ lastPushRead = FALSE
  /\ popRequest = FALSE /\ writeBuffEmpty = FALSE /\ writeLastReg = FALSE
  /\ baseAddr = 0 /\ address = 0 /\ paddr = 0 /\ psel = {}
  /\ wordReg = ResetWord /\ pwdata = NoData /\ axiData = NoData /\ axiId = 0
  /\ dlydResp = FALSE /\ savedCmdId = 0 /\ savedError = FALSE

Edge ==
  \/ Idle \/ Purge
  \/ WSel \/ WEn \/ NWSel \/ NWEn \/ WDtWt \/ WtStart \/ WResp
  \/ RSel \/ REn \/ NREn \/ PrePurge \/ RBufWt
=============================================================================
