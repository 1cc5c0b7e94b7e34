------------------------------ MODULE AsyncFifo ------------------------------
(***************************************************************************)
(* The dual-clock FIFO of the bridge: DW_axi_x2p_bcm07 (two pointer        *)
(* controllers DW_axi_x2p_bcm05, each reading the other's pointer through  *)
(* a DW_axi_x2p_bcm21 synchronizer) and the DW_axi_x2p_bcm57 RAM, wired as *)
(* in DW_axi_x2p_cmd_queue and the three data buffers.                     *)
(*                                                                         *)
(* A step is a rising edge of one of the two unrelated clocks.  A pointer  *)
(* is the number a counter register stands for, 0 .. Modulus-1; its Gray   *)
(* code, what really crosses, is the subject of module GrayPointer, which  *)
(* justifies that a flop sampling it while it changes settles on the old   *)
(* value or on the new one.                                                *)
(***************************************************************************)
EXTENDS Integers, Sequences

CONSTANTS
  Data,        \* the words the queue carries
  ResetWord,   \* the all-zero word the RAM holds after reset
  Depth,       \* DEPTH
  CountWidth,  \* COUNT_WIDTH, bits of a pointer
  SyncDepth    \* flops of a synchronizer (X2P_DUAL_CLK_SYNC_DEPTH)

ASSUME DepthAssumption == Depth \in Nat \ {0}
ASSUME SyncAssumption == SyncDepth \in Nat \ {0}
ASSUME ResetWordAssumption == ResetWord \in Data

VARIABLES
  wrPtr,      \* push side: its pointer, and the value it had before
  wrPrev,     \*   its last change if the pop clock has not risen since
  rdFlops,    \* push side: the synchronizer that brings rdPtr over
  pushCount,  \* push side: registered word_count
  rdPtr,      \* pop side: the same four
  rdPrev,
  wrFlops,
  popCount,
  ram         \* the storage

pushVars == <<wrPtr, rdFlops, pushCount>>
popVars  == <<rdPtr, wrFlops, popCount>>
vars == <<pushVars, popVars, wrPrev, rdPrev, ram>>
-----------------------------------------------------------------------------
(* A depth that fills the address range counts over 2 * DEPTH values; any  *)
(* other over the next even number after DEPTH, centred in the code so     *)
(* that its two ends are Gray neighbours.                                  *)
PowerOfTwo == Depth = 2 ^ (CountWidth - 1)

Modulus == IF PowerOfTwo THEN 2 * Depth ELSE Depth + 2 - (Depth % 2)

Pointer == 0 .. Modulus - 1

(* succesive_count *)
Succ(p) == IF p = Modulus - 1 THEN 0 ELSE p + 1

(* next_word_count_int: the words between a read and a write pointer *)
Distance(rd, wr) == IF rd > wr THEN wr - rd + Modulus ELSE wr - rd

(* this_addr: where a pointer points in the RAM *)
Slot(p) == IF PowerOfTwo /\ p >= Depth THEN p - Depth ELSE p

Slots == 0 .. (IF PowerOfTwo THEN Depth ELSE Modulus) - 1

\* A mistake the properties must catch: the synchronizer is not clocked.
ShiftStuck(flops, sample) == flops

Shift(flops, sample) ==
  [i \in 1 .. SyncDepth |-> IF i = 1 THEN sample ELSE flops[i - 1]]
-----------------------------------------------------------------------------
\* A mistake the properties must catch: almost full is taken for full.
PushFullEarly == pushCount >= Depth - 1
PushFull == pushCount = Depth
PopEmpty == popCount = 0
PopWord  == ram[Slot(rdPtr)]

Init ==
  /\ wrPtr = 0 /\ wrPrev = 0 /\ rdPtr = 0 /\ rdPrev = 0
  /\ rdFlops = [i \in 1 .. SyncDepth |-> 0]
  /\ wrFlops = [i \in 1 .. SyncDepth |-> 0]
  /\ pushCount = 0 /\ popCount = 0
  /\ ram = [s \in Slots |-> ResetWord]

\* A mistake the properties must catch: a push on a full queue is not ignored.
PushAdvancesAnyway(req) == req

(* A rising edge of clk_push.  advance is inc_req and not at_end; the RAM  *)
(* is written when we_n is low, which is the same condition.               *)
PushAdvances(req) == req /\ ~PushFull

PushEdge(req, d) ==
  LET next == IF PushAdvances(req) THEN Succ(wrPtr) ELSE wrPtr IN
  /\ wrPtr' = next
  /\ wrPrev' = IF PushAdvances(req) THEN wrPtr ELSE wrPrev
  /\ ram' = IF PushAdvances(req) THEN [ram EXCEPT ![Slot(wrPtr)] = d] ELSE ram
  /\ pushCount' = Distance(rdFlops[SyncDepth], next)
  /\ \E sample \in {rdPtr, rdPrev} : rdFlops' = Shift(rdFlops, sample)
  /\ rdPrev' = rdPtr
  /\ UNCHANGED popVars

\* A mistake the properties must catch: a pop of an empty queue is not ignored.
PopAdvancesAnyway(req) == req

(* A rising edge of clk_pop. *)
PopAdvances(req) == req /\ ~PopEmpty

PopEdge(req) ==
  LET next == IF PopAdvances(req) THEN Succ(rdPtr) ELSE rdPtr IN
  /\ rdPtr' = next
  /\ rdPrev' = IF PopAdvances(req) THEN rdPtr ELSE rdPrev
  /\ popCount' = Distance(next, wrFlops[SyncDepth])
  /\ \E sample \in {wrPtr, wrPrev} : wrFlops' = Shift(wrFlops, sample)
  /\ wrPrev' = wrPtr
  /\ UNCHANGED <<pushVars, ram>>

PushClock == \E req \in BOOLEAN, d \in Data : PushEdge(req, d)
PopClock  == \E req \in BOOLEAN : PopEdge(req)

Next == PushClock \/ PopClock

Spec == Init /\ [][Next]_vars

(* Both clocks run, but nobody has to push or pop: an edge is owed only as *)
(* long as one without a request would still change a register.            *)
PushSettled ==
  /\ rdPrev = rdPtr /\ pushCount = Distance(rdPtr, wrPtr)
  /\ \A i \in 1 .. SyncDepth : rdFlops[i] = rdPtr

PopSettled ==
  /\ wrPrev = wrPtr /\ popCount = Distance(rdPtr, wrPtr)
  /\ \A i \in 1 .. SyncDepth : wrFlops[i] = wrPtr

FairSpec ==
  Spec /\ WF_vars(PushClock /\ ~PushSettled) /\ WF_vars(PopClock /\ ~PopSettled)
-----------------------------------------------------------------------------
TypeOK ==
  /\ wrPtr \in Pointer /\ wrPrev \in Pointer
  /\ rdPtr \in Pointer /\ rdPrev \in Pointer
  /\ rdFlops \in [1 .. SyncDepth -> Pointer]
  /\ wrFlops \in [1 .. SyncDepth -> Pointer]
  /\ pushCount \in 0 .. Depth
  /\ popCount \in 0 .. Depth
  /\ ram \in [Slots -> Data]

(* Each pointer moves forward only, so the copies of it further down a     *)
(* synchronizer are older.  Measured from the other side's pointer, the    *)
(* age of a copy can only make the push side overcount and the pop side    *)
(* undercount.                                                             *)
PushSideOrder ==
  /\ \A i \in 1 .. SyncDepth :
       /\ Distance(rdFlops[i], wrPtr) <= pushCount
       /\ Distance(rdPrev, wrPtr) <= Distance(rdFlops[i], wrPtr)
       /\ \A j \in 1 .. i : Distance(rdFlops[j], wrPtr) <= Distance(rdFlops[i], wrPtr)
  /\ Distance(rdPtr, wrPtr) <= Distance(rdPrev, wrPtr)

PopSideOrder ==
  /\ \A i \in 1 .. SyncDepth :
       /\ popCount <= Distance(rdPtr, wrFlops[i])
       /\ Distance(rdPtr, wrFlops[i]) <= Distance(rdPtr, wrPrev)
       /\ \A j \in 1 .. i : Distance(rdPtr, wrFlops[i]) <= Distance(rdPtr, wrFlops[j])
  /\ Distance(rdPtr, wrPrev) <= Distance(rdPtr, wrPtr)

PointerOrder == TypeOK /\ PushSideOrder /\ PopSideOrder

(* The queue the pointers and the RAM stand for. *)
Occupancy == Distance(rdPtr, wrPtr)

AtOffset(i) ==
  IF rdPtr + i < Modulus THEN rdPtr + i ELSE rdPtr + i - Modulus

queue == [i \in 1 .. Occupancy |-> ram[Slot(AtOffset(i - 1))]]

Abstract == INSTANCE Fifo WITH held <- pushCount, seen <- popCount

(* The FIFO implements the queue: no word is lost, duplicated, reordered   *)
(* or overwritten, whatever the two clocks and the requests do, and the    *)
(* flags err only on the safe side.                                        *)
ImplementsFifo == Abstract!Spec

(* A word in the RAM does not wait for ever: the pop side comes to see it. *)
PushIsSeen == (Occupancy > 0) ~> ~PopEmpty

(* A full flag that is only late is taken back: once a word has been       *)
(* popped the push side can push again.                                    *)
FullIsReleased == (Occupancy < Depth) ~> ~PushFull
=============================================================================
