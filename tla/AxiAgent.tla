------------------------------ MODULE AxiAgent ------------------------------
(***************************************************************************)
(* The AXI master agent of the testbench: gon_axi_master_driver, which       *)
(* drives one transfer at a time and waits for its answer, and               *)
(* gon_axi_master_monitor, which has one transaction handle for all writes   *)
(* and one for all reads and hands out the same handle again and again.      *)
(* Every operator is the part of one process in an edge of aclk; a handshake *)
(* is given by what it carries, <<x>>, or by <<>> when there is none.        *)
(***************************************************************************)
EXTENDS Naturals, Sequences

CONSTANT
  NoItem

VARIABLES
  \* the driver
  item,          \* the transfer it was given last
  phase,         \* "idle", "sync" (to the clock), "drive", "addr", "answer"
  bready, rready,
  answers,       \* the answers it saw
  \* the monitor: the two handles and the beats written into their arrays
  wrT, rdT,      \* [cmd, data]
  wrCnt, rdCnt

Emptyhanded == [cmd |-> NoItem, data |-> <<>>]

Init ==
  /\ item = NoItem /\ phase = "idle" /\ bready = FALSE /\ rready = FALSE
  /\ answers = <<>>
  /\ wrT = Emptyhanded /\ rdT = Emptyhanded /\ wrCnt = 0 /\ rdCnt = 0

\* get_next_item
Take(t) ==
  /\ item' = t /\ phase' = "sync" /\ answers' = <<>>
  /\ UNCHANGED <<bready, rready>>

\* The valids rise a moment after the edge the driver waited for.
Drive ==
  /\ phase = "drive" /\ phase' = "addr"
  /\ UNCHANGED <<item, bready, rready, answers>>

\* A mistake the properties must catch: the driver does not wait for its words.
DoneSendingEarly(awvalidNext, arvalidNext, wordsLeft) == ~awvalidNext /\ ~arvalidNext

\* Address and words are all taken (the join of the two channel tasks).
DoneSending(awvalidNext, arvalidNext, wordsLeft) ==
  ~awvalidNext /\ ~arvalidNext /\ wordsLeft = <<>>

\* BREADY rises after the write address and falls with the response; RREADY
\* rises after the first read address and stays.
DriverEdge(aw, ar, b, r, doneSending) ==
  LET answered == phase = "answer" /\
                  IF item.cmd.write THEN b # <<>> ELSE r # <<>> /\ r[1].last
      seen == IF phase # "answer" THEN <<>> ELSE IF item.cmd.write THEN b ELSE r
  IN  /\ phase' = CASE phase = "sync" -> "drive"
                    [] phase = "addr" /\ doneSending -> "answer"
                    [] answered -> "idle"
                    [] OTHER -> phase
      /\ bready' = IF answered /\ item.cmd.write THEN FALSE ELSE bready \/ aw # <<>>
      /\ rready' = (rready \/ ar # <<>>)
      /\ answers' = IF seen = <<>> THEN answers
                    ELSE Append(answers, [error |-> seen[1].error, data |-> seen[1].data])
      /\ UNCHANGED item

\* new[cnt + 1](data) keeps the first cnt words of the array.
Resized(data, cnt, word) == Append(SubSeq(data, 1, cnt), word)

\* A mistake the properties must catch: the count runs on after the last beat.
NextCountOn(cnt, beat) == cnt + Len(beat)

NextCount(cnt, beat) ==
  CASE beat = <<>> -> cnt
    [] beat # <<>> /\ beat[1].last -> 0
    [] OTHER -> cnt + 1

Observed(handle, cmd, cnt, beat) ==
  [cmd |-> IF cmd # <<>> THEN cmd[1] ELSE handle.cmd,
   data |-> IF beat # <<>> THEN Resized(handle.data, cnt, beat[1].data) ELSE handle.data]

\* A handle is handed out with the last beat of its data, whatever its address is.
Published(beat) == beat # <<>> /\ beat[1].last

MonitorEdge(aw, w, ar, r) ==
  /\ wrT' = Observed(wrT, aw, wrCnt, w) /\ wrCnt' = NextCount(wrCnt, w)
  /\ rdT' = Observed(rdT, ar, rdCnt, r) /\ rdCnt' = NextCount(rdCnt, r)
=============================================================================
