----------------------------- MODULE X2pHistory -----------------------------
(***************************************************************************)
(* The bridge with a record of what its APB side has done for the command   *)
(* in hand, as in ApbSide, and of which beats wait in the read buffer.  The *)
(* record is written beside the steps of the bridge and never looked at by  *)
(* them.                                                                   *)
(***************************************************************************)
EXTENDS X2pBridge

VARIABLES
  owner,         \* the command the control works for, or worked for last
  popped,        \* the strobes of its write words, in order of popping
  made,          \* the APB writes made for it
  served,        \* the number of its read beats pushed to the read buffer
  numbers        \* the number, in its burst, of each beat in the read buffer, and
                 \* of the next one to enter it

record == <<owner, popped, made, served, numbers>>
historyVars == <<vars, record>>

Starts == state = "IDLE" /\ ~CmdQueue!PopEmpty

HistoryInit ==
  /\ Init
  /\ owner = Apb!ResetCmd /\ popped = <<>> /\ made = <<>> /\ served = 1
  /\ numbers = <<0>>

AclkRecorded(rHandshake) ==
  /\ numbers' = IF rHandshake THEN Tail(numbers) ELSE numbers
  /\ UNCHANGED <<owner, popped, made, served>>

PclkRecorded ==
  /\ owner' = IF Starts THEN CmdOut ELSE owner
  /\ popped' = (IF Starts THEN <<>> ELSE popped)
               \o (IF Apb!PopWriteBuff THEN <<WordOut.strobes>> ELSE <<>>)
  /\ made' = CASE Starts -> <<>>
               [] state = "WEN" ->
                    Append(made, [addr |-> paddr, sel |-> psel, data |-> pwdata])
               [] OTHER -> made
  /\ served' = IF Starts THEN 0 ELSE IF Apb!PushReadBuffer THEN served + 1 ELSE served
  /\ numbers' = IF Apb!PushReadBuffer
                THEN Append(numbers, IF lastPushRead THEN 0 ELSE served + 1)
                ELSE numbers

HistoryNext ==
  \/ \E w, b, r \in BOOLEAN : AclkWith(w, b, r) /\ AclkRecorded(r)
  \/ Pclk /\ PclkRecorded
  \/ (SendWrite \/ SendRead) /\ UNCHANGED record

HistorySpec == HistoryInit /\ [][HistoryNext]_historyVars
=============================================================================
