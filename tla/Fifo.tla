-------------------------------- MODULE Fifo --------------------------------
(***************************************************************************)
(* What the four queues of the bridge promise (DW_axi_x2p_cmd_queue,       *)
(* _write_data_buffer, _resp_buffer, _read_data_buffer): a first-in        *)
(* first-out queue of at most Depth words between two unrelated clocks.    *)
(* Each side decides with a count of its own that may lag: the push side   *)
(* may still count words already popped (held), the pop side may not yet   *)
(* see words already pushed (seen).  Neither may err the other way.        *)
(***************************************************************************)
EXTENDS Naturals, Sequences

CONSTANTS
  Data,   \* the words the queue carries
  Depth   \* the number of words it can hold

VARIABLES
  queue,  \* the words pushed and not yet popped, oldest first
  held,   \* push_word_count: the words the push side believes are held
  seen    \* pop_word_count: the words the pop side knows it may pop

fifoVars == <<queue, held, seen>>

PushFull == held = Depth
PopEmpty == seen = 0

Init ==
  /\ queue = <<>>
  /\ held = 0
  /\ seen = 0

(* A rising edge of the push clock.  A request on a full queue is ignored. *)
(* News of pops may arrive, so held may fall to what is really there.      *)
PushEdge(req, d) ==
  LET writes == req /\ ~PushFull IN
  /\ queue' = IF writes THEN Append(queue, d) ELSE queue
  /\ held' \in Len(queue') .. (IF writes THEN held + 1 ELSE held)
  /\ seen' = seen

(* A rising edge of the pop clock.  A request on an empty queue is ignored *)
(* and news of pushes may arrive.                                          *)
PopEdge(req) ==
  LET reads == req /\ ~PopEmpty IN
  /\ queue' = IF reads THEN Tail(queue) ELSE queue
  /\ seen' \in (IF reads THEN seen - 1 ELSE seen) .. Len(queue')
  /\ held' = held

Next ==
  \/ \E req \in BOOLEAN, d \in Data : PushEdge(req, d)
  \/ \E req \in BOOLEAN : PopEdge(req)

Spec == Init /\ [][Next]_fifoVars

(* The counts bracket the truth: the pop side never sees a word that is    *)
(* not there, the push side never forgets one that is, and the storage is  *)
(* never exceeded (what makes push_full and pop_empty safe to act on).     *)
FlagsSafe ==
  /\ queue \in Seq(Data)
  /\ seen \in Nat /\ held \in Nat
  /\ seen <= Len(queue)
  /\ Len(queue) <= held
  /\ held <= Depth
=============================================================================
