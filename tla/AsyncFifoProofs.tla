--------------------------- MODULE AsyncFifoProofs ---------------------------
(***************************************************************************)
(* AsyncFifo implements Fifo for every depth, word set and synchronizer    *)
(* length: first the arithmetic of wrapping pointers, then the invariant   *)
(* PointerOrder, then the step simulation.                                 *)
(***************************************************************************)
EXTENDS AsyncFifo, TLAPS

USE DepthAssumption, SyncAssumption, ResetWordAssumption
-----------------------------------------------------------------------------
(* The counters have room for one value more than the words they count, so *)
(* a full queue and an empty one are told apart.                           *)
LEMMA ModulusExceedsDepth ==
  /\ Modulus \in Nat
  /\ Modulus > Depth
  /\ PowerOfTwo => Modulus = 2 * Depth
BY DEF Modulus

(* The distance between two pointers is a pointer-sized number, and zero   *)
(* from a pointer to itself.                                               *)
LEMMA DistanceType ==
  ASSUME NEW a \in Pointer, NEW b \in Pointer
  PROVE  /\ Distance(a, b) \in Pointer
         /\ Distance(a, b) \in Nat
         /\ Distance(a, a) = 0
         /\ Succ(a) \in Pointer
BY ModulusExceedsDepth DEF Pointer, Distance, Succ

(* Advancing the write pointer adds one word, unless the count would wrap. *)
LEMMA DistanceSuccWrite ==
  ASSUME NEW a \in Pointer, NEW b \in Pointer, Distance(a, b) < Depth
  PROVE  Distance(a, Succ(b)) = Distance(a, b) + 1
BY ModulusExceedsDepth DEF Pointer, Distance, Succ

(* Advancing the read pointer takes one word, if there is one. *)
LEMMA DistanceSuccRead ==
  ASSUME NEW a \in Pointer, NEW b \in Pointer, Distance(a, b) > 0
  PROVE  Distance(Succ(a), b) = Distance(a, b) - 1
BY ModulusExceedsDepth DEF Pointer, Distance, Succ

(* A synchronizer full of pointers still is after a shift. *)
LEMMA ShiftType ==
  ASSUME NEW flops \in [1 .. SyncDepth -> Pointer], NEW s \in Pointer
  PROVE  /\ Shift(flops, s) \in [1 .. SyncDepth -> Pointer]
         /\ \A i \in 1 .. SyncDepth :
              Shift(flops, s)[i] = IF i = 1 THEN s ELSE flops[i - 1]
BY DEF Shift
-----------------------------------------------------------------------------
(* The two distance chains hold after reset. *)
LEMMA OrderInit == Init => PointerOrder
<1> SUFFICES ASSUME Init PROVE PointerOrder
  OBVIOUS
<1>1. 0 \in Pointer /\ Distance(0, 0) = 0
  BY ModulusExceedsDepth DEF Pointer, Distance
<1>2. TypeOK
  BY <1>1 DEF Init, TypeOK
<1>3. PushSideOrder /\ PopSideOrder
  BY <1>1 DEF Init, PushSideOrder, PopSideOrder
<1>4. QED
  BY <1>2, <1>3 DEF PointerOrder

(* A push-clock edge keeps the chains, whatever the synchronizer catches:  *)
(* an advance lengthens every distance to the write pointer by the same    *)
(* one word, and only an edge that found pushCount below Depth advances.   *)
LEMMA OrderPushEdge ==
  ASSUME PointerOrder, NEW req \in BOOLEAN, NEW d \in Data, PushEdge(req, d)
  PROVE  PointerOrder'
<1> DEFINE next == IF PushAdvances(req) THEN Succ(wrPtr) ELSE wrPtr
           step == IF PushAdvances(req) THEN 1 ELSE 0
<1>1. /\ TypeOK /\ PushSideOrder /\ PopSideOrder
      /\ wrPtr \in Pointer /\ wrPrev \in Pointer
      /\ rdPtr \in Pointer /\ rdPrev \in Pointer
      /\ rdFlops \in [1 .. SyncDepth -> Pointer]
      /\ wrFlops \in [1 .. SyncDepth -> Pointer]
      /\ pushCount \in 0 .. Depth /\ popCount \in 0 .. Depth
  BY DEF PointerOrder, TypeOK
<1>2. /\ wrPtr' = next
      /\ wrPrev' = IF PushAdvances(req) THEN wrPtr ELSE wrPrev
      /\ pushCount' = Distance(rdFlops[SyncDepth], next)
      /\ rdPrev' = rdPtr
      /\ rdPtr' = rdPtr /\ wrFlops' = wrFlops /\ popCount' = popCount
  BY DEF PushEdge, popVars
<1>3. PICK s \in {rdPtr, rdPrev} : rdFlops' = Shift(rdFlops, s)
  BY DEF PushEdge
<1>4. /\ next \in Pointer /\ s \in Pointer
      /\ rdFlops' \in [1 .. SyncDepth -> Pointer]
      /\ \A i \in 1 .. SyncDepth : rdFlops'[i] = IF i = 1 THEN s ELSE rdFlops[i - 1]
  <2>1. next \in Pointer /\ s \in Pointer
    BY <1>1, DistanceType
  <2>2. Shift(rdFlops, s) \in [1 .. SyncDepth -> Pointer]
    BY <1>1, <2>1, ShiftType
  <2>3. \A i \in 1 .. SyncDepth :
          Shift(rdFlops, s)[i] = IF i = 1 THEN s ELSE rdFlops[i - 1]
    BY <1>1, <2>1, ShiftType
  <2>4. QED
    BY <1>3, <2>1, <2>2, <2>3
<1>5. \A a \in Pointer :
        Distance(a, wrPtr) <= pushCount => Distance(a, next) = Distance(a, wrPtr) + step
  <2> SUFFICES ASSUME NEW a \in Pointer, Distance(a, wrPtr) <= pushCount
               PROVE  Distance(a, next) = Distance(a, wrPtr) + step
    OBVIOUS
  <2>1. Distance(a, wrPtr) \in Nat
    BY <1>1, DistanceType
  <2>2. CASE PushAdvances(req)
    BY <1>1, <2>1, <2>2, DistanceSuccWrite DEF PushAdvances, PushFull
  <2>3. CASE ~PushAdvances(req)
    BY <2>1, <2>3
  <2>4. QED
    BY <2>2, <2>3
<1>6. /\ \A i \in 1 .. SyncDepth :
          /\ rdFlops[i] \in Pointer
          /\ Distance(rdFlops[i], wrPtr) \in Nat
          /\ Distance(rdFlops[i], wrPtr) <= pushCount
          /\ Distance(rdFlops[i], next) = Distance(rdFlops[i], wrPtr) + step
      /\ Distance(rdPtr, wrPtr) \in Nat /\ Distance(rdPrev, wrPtr) \in Nat
      /\ Distance(rdPtr, next) = Distance(rdPtr, wrPtr) + step
      /\ Distance(rdPrev, next) = Distance(rdPrev, wrPtr) + step
      /\ Distance(rdPtr, wrPtr) <= Distance(rdPrev, wrPtr)
      /\ Distance(rdPrev, wrPtr) <= pushCount
  <2>1. \A i \in 1 .. SyncDepth :
          /\ rdFlops[i] \in Pointer
          /\ Distance(rdFlops[i], wrPtr) \in Nat
          /\ Distance(rdFlops[i], wrPtr) <= pushCount
    BY <1>1, DistanceType DEF PushSideOrder
  <2>2. /\ Distance(rdPtr, wrPtr) \in Nat /\ Distance(rdPrev, wrPtr) \in Nat
        /\ Distance(rdPtr, wrPtr) <= Distance(rdPrev, wrPtr)
    BY <1>1, DistanceType DEF PushSideOrder
  <2>3. /\ 1 \in 1 .. SyncDepth
        /\ Distance(rdPrev, wrPtr) <= Distance(rdFlops[1], wrPtr)
    BY <1>1 DEF PushSideOrder
  <2>4. Distance(rdPrev, wrPtr) <= pushCount /\ Distance(rdPtr, wrPtr) <= pushCount
    BY <1>1, <2>1, <2>2, <2>3
  <2>5. QED
    BY <1>1, <1>5, <2>1, <2>2, <2>4
<1>7. TypeOK'
  <2>1. Distance(rdFlops[SyncDepth], next) \in 0 .. Depth
    <3>1. SyncDepth \in 1 .. SyncDepth
      OBVIOUS
    <3>2. CASE PushAdvances(req)
      BY <1>1, <1>6, <3>1, <3>2 DEF PushAdvances, PushFull
    <3>3. CASE ~PushAdvances(req)
      BY <1>1, <1>6, <3>1, <3>3
    <3>4. QED
      BY <3>2, <3>3
  <2>2. ram' \in [Slots -> Data]
    BY <1>1 DEF PushEdge, TypeOK
  <2>3. QED
    BY <1>1, <1>2, <1>4, <2>1, <2>2 DEF TypeOK
<1>8. PushSideOrder'
  <2>1. ASSUME NEW i \in 1 .. SyncDepth
        PROVE  /\ Distance(rdFlops'[i], next) <= pushCount'
               /\ Distance(rdPtr, next) <= Distance(rdFlops'[i], next)
    <3>1. SyncDepth \in 1 .. SyncDepth /\ (i # 1 => i - 1 \in 1 .. SyncDepth)
      OBVIOUS
    <3>2. CASE i = 1
      <4>1. Distance(rdPrev, wrPtr) <= Distance(rdFlops[SyncDepth], wrPtr)
        BY <1>1, <3>1 DEF PushSideOrder
      <4>2. rdFlops'[i] = s
        BY <1>4, <3>2
      <4>3. CASE s = rdPtr
        BY <1>2, <1>6, <3>1, <4>1, <4>2, <4>3
      <4>4. CASE s = rdPrev
        BY <1>2, <1>6, <3>1, <4>1, <4>2, <4>4
      <4>5. QED
        BY <1>3, <4>3, <4>4
    <3>3. CASE i # 1
      <4>1. rdFlops'[i] = rdFlops[i - 1]
        BY <1>4, <3>3
      <4>2. /\ Distance(rdFlops[i - 1], wrPtr) <= Distance(rdFlops[SyncDepth], wrPtr)
            /\ Distance(rdPrev, wrPtr) <= Distance(rdFlops[i - 1], wrPtr)
        BY <1>1, <3>1, <3>3 DEF PushSideOrder
      <4>3. QED
        BY <1>2, <1>6, <3>1, <3>3, <4>1, <4>2
    <3>4. QED
      BY <3>2, <3>3
  <2>2. ASSUME NEW i \in 1 .. SyncDepth, NEW j \in 1 .. i
        PROVE  Distance(rdFlops'[j], next) <= Distance(rdFlops'[i], next)
    <3>1. CASE i = 1
      <4>1. i = j
        BY <3>1
      <4>2. Distance(rdFlops'[i], next) \in Nat
        BY <1>4, DistanceType
      <4>3. QED
        BY <4>1, <4>2
    <3>2. CASE i # 1 /\ j = 1
      <4>1. /\ rdFlops'[j] = s /\ rdFlops'[i] = rdFlops[i - 1]
            /\ i - 1 \in 1 .. SyncDepth
        BY <1>4, <3>2
      <4>2. Distance(rdPrev, wrPtr) <= Distance(rdFlops[i - 1], wrPtr)
        BY <1>1, <4>1 DEF PushSideOrder
      <4>3. CASE s = rdPtr
        BY <1>6, <4>1, <4>2, <4>3
      <4>4. CASE s = rdPrev
        BY <1>6, <4>1, <4>2, <4>4
      <4>5. QED
        BY <1>3, <4>3, <4>4
    <3>3. CASE i # 1 /\ j # 1
      <4>1. /\ rdFlops'[j] = rdFlops[j - 1] /\ rdFlops'[i] = rdFlops[i - 1]
            /\ i - 1 \in 1 .. SyncDepth /\ j - 1 \in 1 .. SyncDepth
            /\ j - 1 \in 1 .. (i - 1)
        BY <1>4, <3>3
      <4>2. Distance(rdFlops[j - 1], wrPtr) <= Distance(rdFlops[i - 1], wrPtr)
        BY <1>1, <4>1 DEF PushSideOrder
      <4>3. QED
        BY <1>6, <4>1, <4>2
    <3>4. QED
      BY <3>1, <3>2, <3>3
  <2>3. Distance(rdPtr, next) <= Distance(rdPtr, next)
    BY <1>6
  <2>4. QED
    BY <1>2, <2>1, <2>2, <2>3 DEF PushSideOrder
<1>9. PopSideOrder'
  <2>1. \A i \in 1 .. SyncDepth :
          /\ Distance(rdPtr, wrFlops[i]) \in Nat
          /\ Distance(rdPtr, wrFlops[i]) <= Distance(rdPtr, wrPrev)
          /\ Distance(rdPtr, wrPrev) <= Distance(rdPtr, wrPtr)
    BY <1>1, DistanceType DEF PopSideOrder
  <2>2. Distance(rdPtr, wrPrev) \in Nat /\ Distance(rdPtr, wrPrev) <= Distance(rdPtr, wrPtr)
    BY <1>1, DistanceType DEF PopSideOrder
  <2>3. CASE PushAdvances(req)
    <3>1. wrPrev' = wrPtr /\ wrPtr' = next
      BY <1>2, <2>3
    <3>2. Distance(rdPtr, wrPtr) <= Distance(rdPtr, next)
      BY <1>6, <2>3
    <3>3. \A i \in 1 .. SyncDepth :
            /\ popCount <= Distance(rdPtr, wrFlops[i])
            /\ \A j \in 1 .. i : Distance(rdPtr, wrFlops[i]) <= Distance(rdPtr, wrFlops[j])
      BY <1>1 DEF PopSideOrder
    <3>4. \A i \in 1 .. SyncDepth : Distance(rdPtr, wrFlops[i]) <= Distance(rdPtr, wrPtr)
      BY <1>6, <2>1, <2>2
    <3>5. QED
      BY <1>2, <3>1, <3>2, <3>3, <3>4 DEF PopSideOrder
  <2>4. CASE ~PushAdvances(req)
    BY <1>1, <1>2, <1>6, <2>1, <2>2, <2>4 DEF PopSideOrder
  <2>5. QED
    BY <2>3, <2>4
<1>10. QED
  BY <1>7, <1>8, <1>9 DEF PointerOrder

(* A pop-clock edge keeps the chains: an advance shortens every distance   *)
(* from the read pointer by one word, and it only happens when the oldest  *)
(* copy of the write pointer still shows a word.                           *)
LEMMA OrderPopEdge ==
  ASSUME PointerOrder, NEW req \in BOOLEAN, PopEdge(req)
  PROVE  PointerOrder'
<1> DEFINE next == IF PopAdvances(req) THEN Succ(rdPtr) ELSE rdPtr
           step == IF PopAdvances(req) THEN 1 ELSE 0
<1>1. /\ TypeOK /\ PushSideOrder /\ PopSideOrder
      /\ wrPtr \in Pointer /\ wrPrev \in Pointer
      /\ rdPtr \in Pointer /\ rdPrev \in Pointer
      /\ rdFlops \in [1 .. SyncDepth -> Pointer]
      /\ wrFlops \in [1 .. SyncDepth -> Pointer]
      /\ pushCount \in 0 .. Depth /\ popCount \in 0 .. Depth
  BY DEF PointerOrder, TypeOK
<1>2. /\ rdPtr' = next
      /\ rdPrev' = IF PopAdvances(req) THEN rdPtr ELSE rdPrev
      /\ popCount' = Distance(next, wrFlops[SyncDepth])
      /\ wrPrev' = wrPtr
      /\ wrPtr' = wrPtr /\ rdFlops' = rdFlops /\ pushCount' = pushCount /\ ram' = ram
  BY DEF PopEdge, pushVars
<1>3. PICK s \in {wrPtr, wrPrev} : wrFlops' = Shift(wrFlops, s)
  BY DEF PopEdge
<1>4. /\ next \in Pointer /\ s \in Pointer
      /\ wrFlops' \in [1 .. SyncDepth -> Pointer]
      /\ \A i \in 1 .. SyncDepth : wrFlops'[i] = IF i = 1 THEN s ELSE wrFlops[i - 1]
  <2>1. next \in Pointer /\ s \in Pointer
    BY <1>1, DistanceType
  <2>2. Shift(wrFlops, s) \in [1 .. SyncDepth -> Pointer]
    BY <1>1, <2>1, ShiftType
  <2>3. \A i \in 1 .. SyncDepth :
          Shift(wrFlops, s)[i] = IF i = 1 THEN s ELSE wrFlops[i - 1]
    BY <1>1, <2>1, ShiftType
  <2>4. QED
    BY <1>3, <2>1, <2>2, <2>3
<1>5. \A b \in Pointer :
        popCount <= Distance(rdPtr, b) => Distance(next, b) = Distance(rdPtr, b) - step
  <2> SUFFICES ASSUME NEW b \in Pointer, popCount <= Distance(rdPtr, b)
               PROVE  Distance(next, b) = Distance(rdPtr, b) - step
    OBVIOUS
  <2>1. Distance(rdPtr, b) \in Nat
    BY <1>1, DistanceType
  <2>2. CASE PopAdvances(req)
    BY <1>1, <2>1, <2>2, DistanceSuccRead DEF PopAdvances, PopEmpty
  <2>3. CASE ~PopAdvances(req)
    BY <2>1, <2>3
  <2>4. QED
    BY <2>2, <2>3
<1>6. /\ \A i \in 1 .. SyncDepth :
          /\ wrFlops[i] \in Pointer
          /\ Distance(rdPtr, wrFlops[i]) \in Nat
          /\ popCount <= Distance(rdPtr, wrFlops[i])
          /\ Distance(next, wrFlops[i]) = Distance(rdPtr, wrFlops[i]) - step
      /\ Distance(rdPtr, wrPtr) \in Nat /\ Distance(rdPtr, wrPrev) \in Nat
      /\ Distance(next, wrPtr) = Distance(rdPtr, wrPtr) - step
      /\ Distance(next, wrPrev) = Distance(rdPtr, wrPrev) - step
      /\ Distance(rdPtr, wrPrev) <= Distance(rdPtr, wrPtr)
      /\ popCount <= Distance(rdPtr, wrPrev)
  <2>1. \A i \in 1 .. SyncDepth :
          /\ wrFlops[i] \in Pointer
          /\ Distance(rdPtr, wrFlops[i]) \in Nat
          /\ popCount <= Distance(rdPtr, wrFlops[i])
    BY <1>1, DistanceType DEF PopSideOrder
  <2>2. /\ Distance(rdPtr, wrPtr) \in Nat /\ Distance(rdPtr, wrPrev) \in Nat
        /\ Distance(rdPtr, wrPrev) <= Distance(rdPtr, wrPtr)
    BY <1>1, DistanceType DEF PopSideOrder
  <2>3. /\ 1 \in 1 .. SyncDepth
        /\ Distance(rdPtr, wrFlops[1]) <= Distance(rdPtr, wrPrev)
    BY <1>1 DEF PopSideOrder
  <2>4. popCount <= Distance(rdPtr, wrPrev) /\ popCount <= Distance(rdPtr, wrPtr)
    BY <1>1, <2>1, <2>2, <2>3
  <2>5. QED
    BY <1>1, <1>5, <2>1, <2>2, <2>4
<1>7. /\ step \in {0, 1} /\ step <= popCount
      /\ Distance(rdPtr, wrPtr) <= pushCount
  <2>1. step \in {0, 1} /\ step <= popCount
    BY <1>1 DEF PopAdvances, PopEmpty
  <2>2. Distance(rdPtr, wrPtr) <= Distance(rdPrev, wrPtr)
    BY <1>1 DEF PushSideOrder
  <2>3. /\ 1 \in 1 .. SyncDepth
        /\ Distance(rdPrev, wrPtr) <= Distance(rdFlops[1], wrPtr)
        /\ Distance(rdFlops[1], wrPtr) <= pushCount
    BY <1>1 DEF PushSideOrder
  <2>4. Distance(rdPrev, wrPtr) \in Nat /\ Distance(rdFlops[1], wrPtr) \in Nat
    BY <1>1, <2>3, DistanceType
  <2>5. QED
    BY <1>1, <1>6, <2>1, <2>2, <2>3, <2>4
<1>8. TypeOK'
  <2>1. Distance(next, wrFlops[SyncDepth]) \in 0 .. Depth
    <3>1. SyncDepth \in 1 .. SyncDepth
      OBVIOUS
    <3>2. Distance(rdPtr, wrFlops[SyncDepth]) <= Distance(rdPtr, wrPrev)
      BY <1>1, <3>1 DEF PopSideOrder
    <3>3. /\ Distance(rdPtr, wrFlops[SyncDepth]) \in Nat
          /\ popCount <= Distance(rdPtr, wrFlops[SyncDepth])
          /\ Distance(next, wrFlops[SyncDepth]) = Distance(rdPtr, wrFlops[SyncDepth]) - step
      BY <1>6, <3>1
    <3>4. Distance(rdPtr, wrFlops[SyncDepth]) <= Depth
      BY <1>1, <1>6, <1>7, <3>2, <3>3
    <3>5. QED
      BY <1>1, <1>7, <3>3, <3>4
  <2>2. QED
    BY <1>1, <1>2, <1>4, <2>1 DEF TypeOK
<1>9. PopSideOrder'
  <2>1. ASSUME NEW i \in 1 .. SyncDepth
        PROVE  /\ popCount' <= Distance(next, wrFlops'[i])
               /\ Distance(next, wrFlops'[i]) <= Distance(next, wrPtr)
    <3>1. SyncDepth \in 1 .. SyncDepth /\ (i # 1 => i - 1 \in 1 .. SyncDepth)
      OBVIOUS
    <3>2. CASE i = 1
      <4>1. Distance(rdPtr, wrFlops[SyncDepth]) <= Distance(rdPtr, wrPrev)
        BY <1>1, <3>1 DEF PopSideOrder
      <4>2. wrFlops'[i] = s
        BY <1>4, <3>2
      <4>3. CASE s = wrPtr
        BY <1>2, <1>6, <1>7, <3>1, <4>1, <4>2, <4>3
      <4>4. CASE s = wrPrev
        BY <1>2, <1>6, <1>7, <3>1, <4>1, <4>2, <4>4
      <4>5. QED
        BY <1>3, <4>3, <4>4
    <3>3. CASE i # 1
      <4>1. wrFlops'[i] = wrFlops[i - 1]
        BY <1>4, <3>3
      <4>2. /\ Distance(rdPtr, wrFlops[SyncDepth]) <= Distance(rdPtr, wrFlops[i - 1])
            /\ Distance(rdPtr, wrFlops[i - 1]) <= Distance(rdPtr, wrPrev)
        BY <1>1, <3>1, <3>3 DEF PopSideOrder
      <4>3. QED
        BY <1>2, <1>6, <1>7, <3>1, <3>3, <4>1, <4>2
    <3>4. QED
      BY <3>2, <3>3
  <2>2. ASSUME NEW i \in 1 .. SyncDepth, NEW j \in 1 .. i
        PROVE  Distance(next, wrFlops'[i]) <= Distance(next, wrFlops'[j])
    <3>1. CASE i = 1
      <4>1. i = j
        BY <3>1
      <4>2. Distance(next, wrFlops'[i]) \in Nat
        BY <1>4, DistanceType
      <4>3. QED
        BY <4>1, <4>2
    <3>2. CASE i # 1 /\ j = 1
      <4>1. /\ wrFlops'[j] = s /\ wrFlops'[i] = wrFlops[i - 1]
            /\ i - 1 \in 1 .. SyncDepth
        BY <1>4, <3>2
      <4>2. Distance(rdPtr, wrFlops[i - 1]) <= Distance(rdPtr, wrPrev)
        BY <1>1, <4>1 DEF PopSideOrder
      <4>3. CASE s = wrPtr
        BY <1>6, <1>7, <4>1, <4>2, <4>3
      <4>4. CASE s = wrPrev
        BY <1>6, <1>7, <4>1, <4>2, <4>4
      <4>5. QED
        BY <1>3, <4>3, <4>4
    <3>3. CASE i # 1 /\ j # 1
      <4>1. /\ wrFlops'[j] = wrFlops[j - 1] /\ wrFlops'[i] = wrFlops[i - 1]
            /\ i - 1 \in 1 .. SyncDepth /\ j - 1 \in 1 .. SyncDepth
            /\ j - 1 \in 1 .. (i - 1)
        BY <1>4, <3>3
      <4>2. Distance(rdPtr, wrFlops[i - 1]) <= Distance(rdPtr, wrFlops[j - 1])
        BY <1>1, <4>1 DEF PopSideOrder
      <4>3. QED
        BY <1>6, <1>7, <4>1, <4>2
    <3>4. QED
      BY <3>1, <3>2, <3>3
  <2>3. Distance(next, wrPtr) <= Distance(next, wrPtr)
    BY <1>6, <1>7
  <2>4. QED
    BY <1>2, <2>1, <2>2, <2>3 DEF PopSideOrder
<1>10. PushSideOrder'
  <2>1. \A i \in 1 .. SyncDepth :
          /\ Distance(rdFlops[i], wrPtr) <= pushCount
          /\ Distance(rdPrev, wrPtr) <= Distance(rdFlops[i], wrPtr)
          /\ \A j \in 1 .. i : Distance(rdFlops[j], wrPtr) <= Distance(rdFlops[i], wrPtr)
    BY <1>1 DEF PushSideOrder
  <2>2. /\ Distance(rdPrev, wrPtr) \in Nat
        /\ Distance(rdPtr, wrPtr) <= Distance(rdPrev, wrPtr)
        /\ \A i \in 1 .. SyncDepth : Distance(rdFlops[i], wrPtr) \in Nat
    BY <1>1, DistanceType DEF PushSideOrder
  <2>3. CASE PopAdvances(req)
    <3>1. rdPrev' = rdPtr /\ rdPtr' = next
      BY <1>2, <2>3
    <3>2. Distance(next, wrPtr) <= Distance(rdPtr, wrPtr)
      BY <1>6, <1>7
    <3>3. \A i \in 1 .. SyncDepth : Distance(rdPtr, wrPtr) <= Distance(rdFlops[i], wrPtr)
      BY <1>6, <2>1, <2>2
    <3>4. QED
      BY <1>2, <2>1, <3>1, <3>2, <3>3 DEF PushSideOrder
  <2>4. CASE ~PopAdvances(req)
    BY <1>2, <2>1, <2>2, <2>4 DEF PushSideOrder
  <2>5. QED
    BY <2>3, <2>4
<1>11. QED
  BY <1>8, <1>9, <1>10 DEF PointerOrder

(* The registers keep their ranges and the copies of each pointer their    *)
(* age order in every reachable state: the invariant of the run.           *)
THEOREM PointerOrderInvariant == Spec => []PointerOrder
<1>1. PointerOrder /\ [Next]_vars => PointerOrder'
  <2> SUFFICES ASSUME PointerOrder, [Next]_vars PROVE PointerOrder'
    OBVIOUS
  <2>1. CASE PushClock
    BY <2>1, OrderPushEdge DEF PushClock
  <2>2. CASE PopClock
    BY <2>2, OrderPopEdge DEF PopClock
  <2>3. CASE UNCHANGED vars
    BY <2>3 DEF vars, pushVars, popVars, PointerOrder, TypeOK, PushSideOrder, PopSideOrder
  <2>4. QED
    BY <2>1, <2>2, <2>3 DEF Next
<1>2. QED
  BY <1>1, OrderInit, PTL DEF Spec
-----------------------------------------------------------------------------
OccupancyFits ==
  /\ Occupancy \in 0 .. Depth
  /\ popCount <= Occupancy
  /\ Occupancy <= pushCount

(* The words held are the ones the pointers enclose, they fit, and the two *)
(* word counts bracket them.                                               *)
LEMMA OccupancyBounds == PointerOrder => OccupancyFits
<1> SUFFICES ASSUME PointerOrder PROVE OccupancyFits
  OBVIOUS
<1>1. /\ 1 \in 1 .. SyncDepth
      /\ rdPtr \in Pointer /\ wrPtr \in Pointer /\ rdPrev \in Pointer /\ wrPrev \in Pointer
      /\ rdFlops[1] \in Pointer /\ wrFlops[1] \in Pointer
      /\ pushCount \in 0 .. Depth /\ popCount \in 0 .. Depth
  BY DEF PointerOrder, TypeOK
<1>2. /\ Occupancy \in Nat
      /\ Distance(rdPrev, wrPtr) \in Nat /\ Distance(rdFlops[1], wrPtr) \in Nat
      /\ Distance(rdPtr, wrPrev) \in Nat /\ Distance(rdPtr, wrFlops[1]) \in Nat
  BY <1>1, DistanceType DEF Occupancy
<1>3. /\ Distance(rdFlops[1], wrPtr) <= pushCount
      /\ Distance(rdPrev, wrPtr) <= Distance(rdFlops[1], wrPtr)
      /\ Occupancy <= Distance(rdPrev, wrPtr)
  BY <1>1 DEF PointerOrder, PushSideOrder, Occupancy
<1>4. /\ popCount <= Distance(rdPtr, wrFlops[1])
      /\ Distance(rdPtr, wrFlops[1]) <= Distance(rdPtr, wrPrev)
      /\ Distance(rdPtr, wrPrev) <= Occupancy
  BY <1>1 DEF PointerOrder, PopSideOrder, Occupancy
<1>5. QED
  BY <1>1, <1>2, <1>3, <1>4 DEF OccupancyFits

(* The pointer at an offset within the occupied stretch is a pointer, and  *)
(* the one just past it is the write pointer, whose slot is none of those  *)
(* occupied as long as the queue is not full.                              *)
LEMMA OffsetSlots ==
  ASSUME rdPtr \in Pointer, wrPtr \in Pointer
  PROVE  /\ AtOffset(Occupancy) = wrPtr
         /\ Slot(wrPtr) \in Slots
         /\ \A i \in 0 .. Occupancy - 1 :
              /\ AtOffset(i) \in Pointer
              /\ Slot(AtOffset(i)) \in Slots
              /\ Occupancy < Depth => Slot(AtOffset(i)) # Slot(wrPtr)
BY ModulusExceedsDepth DEF AtOffset, Occupancy, Distance, Slot, Slots, Pointer

(* One step past the read pointer, every offset is one less. *)
LEMMA OffsetSucc ==
  ASSUME rdPtr \in Pointer, NEW i \in Nat, i + 1 < Modulus
  PROVE  (IF Succ(rdPtr) + i < Modulus THEN Succ(rdPtr) + i ELSE Succ(rdPtr) + i - Modulus)
           = AtOffset(i + 1)
BY ModulusExceedsDepth DEF AtOffset, Succ, Pointer

QueueReads ==
  /\ queue \in Seq(Data)
  /\ Len(queue) = Occupancy
  /\ \A i \in 1 .. Occupancy : queue[i] = ram[Slot(AtOffset(i - 1))]

(* The mapped queue is a sequence of words as long as the occupancy. *)
LEMMA QueueType == PointerOrder => QueueReads
<1> SUFFICES ASSUME PointerOrder PROVE QueueReads
  OBVIOUS
<1>1. Occupancy \in Nat
  BY OccupancyBounds DEF OccupancyFits
<1>2. /\ rdPtr \in Pointer /\ wrPtr \in Pointer /\ ram \in [Slots -> Data]
  BY DEF PointerOrder, TypeOK
<1>3. \A i \in 1 .. Occupancy : ram[Slot(AtOffset(i - 1))] \in Data
  <2> TAKE i \in 1 .. Occupancy
  <2>1. i - 1 \in 0 .. Occupancy - 1
    BY <1>1
  <2>2. QED
    BY <1>2, <2>1, OffsetSlots
<1>4. QED
  BY <1>1, <1>3 DEF queue, QueueReads

(* An edge of the push clock is an edge of the abstract push clock: an     *)
(* accepted word goes to the end, into a slot no held word occupies.       *)
LEMMA PushEdgeSimulates ==
  ASSUME PointerOrder, PointerOrder', NEW req \in BOOLEAN, NEW d \in Data, PushEdge(req, d)
  PROVE  Abstract!PushEdge(req, d)
<1> DEFINE writes == PushAdvances(req)
<1>1. /\ rdPtr \in Pointer /\ wrPtr \in Pointer /\ ram \in [Slots -> Data]
      /\ pushCount \in 0 .. Depth /\ pushCount' \in 0 .. Depth /\ popCount \in 0 .. Depth
      /\ rdFlops[SyncDepth] \in Pointer
      /\ Distance(rdFlops[SyncDepth], wrPtr) <= pushCount
  BY DEF PointerOrder, TypeOK, PushSideOrder
<1>2. /\ rdPtr' = rdPtr /\ popCount' = popCount
      /\ wrPtr' = IF writes THEN Succ(wrPtr) ELSE wrPtr
      /\ ram' = IF writes THEN [ram EXCEPT ![Slot(wrPtr)] = d] ELSE ram
      /\ pushCount' = Distance(rdFlops[SyncDepth], wrPtr')
  BY DEF PushEdge, popVars
<1>3. OccupancyFits /\ OccupancyFits' /\ QueueReads /\ QueueReads'
  BY OccupancyBounds, QueueType, PTL
<1>4. /\ queue \in Seq(Data) /\ Len(queue) = Occupancy
      /\ queue' \in Seq(Data) /\ Len(queue') = Occupancy'
      /\ Occupancy \in 0 .. Depth /\ Occupancy' \in 0 .. Depth
      /\ Occupancy <= pushCount /\ Occupancy' <= pushCount'
  BY <1>3 DEF OccupancyFits, QueueReads
<1>5. CASE writes
  <2>1. /\ wrPtr' = Succ(wrPtr) /\ ram' = [ram EXCEPT ![Slot(wrPtr)] = d]
        /\ pushCount < Depth /\ Occupancy < Depth
    BY <1>1, <1>2, <1>4, <1>5 DEF PushAdvances, PushFull
  <2>2. Occupancy' = Occupancy + 1
    BY <1>1, <1>2, <2>1, DistanceSuccWrite DEF Occupancy
  <2>3. pushCount' <= pushCount + 1
    <3>1. Distance(rdFlops[SyncDepth], wrPtr) < Depth
      BY <1>1, <2>1, DistanceType
    <3>2. QED
      BY <1>1, <1>2, <2>1, <3>1, DistanceType, DistanceSuccWrite
  <2>4. ASSUME NEW i \in 1 .. Occupancy
        PROVE  queue'[i] = queue[i]
    <3>1. /\ i \in 1 .. Occupancy' /\ i - 1 \in 0 .. Occupancy - 1
      BY <1>4, <2>2
    <3>2. /\ Slot(AtOffset(i - 1)) \in Slots /\ Slot(AtOffset(i - 1)) # Slot(wrPtr)
      BY <1>1, <2>1, <3>1, OffsetSlots
    <3>3. AtOffset(i - 1)' = AtOffset(i - 1)
      BY <1>2 DEF AtOffset
    <3>4. queue'[i] = ram'[Slot(AtOffset(i - 1))] /\ queue[i] = ram[Slot(AtOffset(i - 1))]
      BY <1>3, <3>1, <3>3 DEF QueueReads, Slot
    <3>5. QED
      BY <1>1, <2>1, <3>2, <3>4
  <2>5. queue'[Occupancy + 1] = d
    <3>1. Occupancy + 1 \in 1 .. Occupancy' /\ (Occupancy + 1) - 1 = Occupancy
      BY <1>4, <2>2
    <3>2. queue'[Occupancy + 1] = ram'[Slot(wrPtr)]
      <4>1. AtOffset(Occupancy) = wrPtr
        BY <1>1, OffsetSlots
      <4>2. \A i \in 1 .. Occupancy' :
              queue'[i] = ram'[Slot(IF rdPtr + (i - 1) < Modulus
                                    THEN rdPtr + (i - 1) ELSE rdPtr + (i - 1) - Modulus)]
        BY <1>2, <1>3 DEF QueueReads, AtOffset, Slot
      <4>3. QED
        BY <3>1, <4>1, <4>2 DEF AtOffset
    <3>3. QED
      BY <1>1, <2>1, <3>2, OffsetSlots
  <2>6. queue' = Append(queue, d)
    BY <1>4, <2>2, <2>4, <2>5
  <2>7. QED
    BY <1>1, <1>2, <1>4, <1>5, <2>1, <2>2, <2>3, <2>6
       DEF Abstract!PushEdge, Abstract!PushFull, PushAdvances, PushFull
<1>6. CASE ~writes
  <2>1. wrPtr' = wrPtr /\ ram' = ram /\ pushCount' <= pushCount
    BY <1>1, <1>2, <1>6
  <2>2. queue' = queue /\ Occupancy' = Occupancy
    BY <1>2, <2>1 DEF queue, Occupancy, AtOffset
  <2>3. QED
    BY <1>1, <1>2, <1>4, <1>6, <2>1, <2>2
       DEF Abstract!PushEdge, Abstract!PushFull, PushAdvances, PushFull
<1>7. QED
  BY <1>5, <1>6

(* An edge of the pop clock is an edge of the abstract pop clock: the word *)
(* taken is the oldest one.                                                *)
LEMMA PopEdgeSimulates ==
  ASSUME PointerOrder, PointerOrder', NEW req \in BOOLEAN, PopEdge(req)
  PROVE  Abstract!PopEdge(req)
<1> DEFINE reads == PopAdvances(req)
<1>1. /\ rdPtr \in Pointer /\ wrPtr \in Pointer /\ ram \in [Slots -> Data]
      /\ pushCount \in 0 .. Depth /\ popCount \in 0 .. Depth /\ popCount' \in 0 .. Depth
      /\ wrFlops[SyncDepth] \in Pointer
      /\ popCount <= Distance(rdPtr, wrFlops[SyncDepth])
  BY DEF PointerOrder, TypeOK, PopSideOrder
<1>2. /\ wrPtr' = wrPtr /\ pushCount' = pushCount /\ ram' = ram
      /\ rdPtr' = IF reads THEN Succ(rdPtr) ELSE rdPtr
      /\ popCount' = Distance(rdPtr', wrFlops[SyncDepth])
  BY DEF PopEdge, pushVars
<1>3. OccupancyFits /\ OccupancyFits' /\ QueueReads /\ QueueReads'
  BY OccupancyBounds, QueueType, PTL
<1>4. /\ queue \in Seq(Data) /\ Len(queue) = Occupancy
      /\ queue' \in Seq(Data) /\ Len(queue') = Occupancy'
      /\ Occupancy \in 0 .. Depth /\ Occupancy' \in 0 .. Depth
      /\ popCount <= Occupancy /\ popCount' <= Occupancy'
  BY <1>3 DEF OccupancyFits, QueueReads
<1>5. CASE reads
  <2>1. rdPtr' = Succ(rdPtr) /\ popCount > 0 /\ Occupancy > 0
    BY <1>1, <1>2, <1>4, <1>5 DEF PopAdvances, PopEmpty
  <2>2. Occupancy' = Occupancy - 1
    BY <1>1, <1>2, <2>1, DistanceSuccRead DEF Occupancy
  <2>3. popCount' >= popCount - 1
    <3>1. Distance(rdPtr, wrFlops[SyncDepth]) > 0
      BY <1>1, <2>1, DistanceType
    <3>2. QED
      BY <1>1, <1>2, <2>1, <3>1, DistanceType, DistanceSuccRead
  <2>4. ASSUME NEW i \in 1 .. Occupancy'
        PROVE  queue'[i] = queue[i + 1]
    <3>1. /\ i + 1 \in 1 .. Occupancy /\ i - 1 \in Nat /\ (i - 1) + 1 < Modulus
          /\ (i - 1) + 1 = (i + 1) - 1
      BY <1>4, <2>2, ModulusExceedsDepth
    <3>2. queue'[i] = ram[Slot(IF Succ(rdPtr) + (i - 1) < Modulus
                               THEN Succ(rdPtr) + (i - 1)
                               ELSE Succ(rdPtr) + (i - 1) - Modulus)]
      BY <1>2, <1>3, <2>1, <3>1 DEF QueueReads, AtOffset, Slot
    <3>3. queue'[i] = ram[Slot(AtOffset((i - 1) + 1))]
      BY <1>1, <3>1, <3>2, OffsetSucc
    <3>4. queue[i + 1] = ram[Slot(AtOffset((i + 1) - 1))]
      BY <1>3, <3>1 DEF QueueReads
    <3>5. QED
      BY <3>1, <3>3, <3>4
  <2>5. queue' = Tail(queue)
    BY <1>4, <2>1, <2>2, <2>4
  <2>6. QED
    BY <1>1, <1>2, <1>4, <1>5, <2>1, <2>2, <2>3, <2>5
       DEF Abstract!PopEdge, Abstract!PopEmpty, PopAdvances, PopEmpty
<1>6. CASE ~reads
  <2>1. rdPtr' = rdPtr /\ popCount' >= popCount
    BY <1>1, <1>2, <1>6
  <2>2. queue' = queue /\ Occupancy' = Occupancy
    BY <1>2, <2>1 DEF queue, Occupancy, AtOffset
  <2>3. QED
    BY <1>1, <1>2, <1>4, <1>6, <2>1, <2>2
       DEF Abstract!PopEdge, Abstract!PopEmpty, PopAdvances, PopEmpty
<1>7. QED
  BY <1>5, <1>6

(* Reset is the empty queue. *)
LEMMA InitSimulates == Init => Abstract!Init
<1> SUFFICES ASSUME Init PROVE Abstract!Init
  OBVIOUS
<1>1. PointerOrder
  BY OrderInit
<1>2. Occupancy = 0 /\ queue \in Seq(Data) /\ Len(queue) = Occupancy
  BY <1>1, QueueType DEF QueueReads, Init, Occupancy, Distance
<1>3. QED
  BY <1>2 DEF Init, Abstract!Init

(* The dual-clock FIFO implements the queue, for every depth, every word   *)
(* set and every synchronizer length: no pushed word is lost, overwritten, *)
(* duplicated or reordered, and both flags err only on the safe side.      *)
THEOREM AsyncFifoImplementsFifo == Spec => ImplementsFifo
<1>1. PointerOrder /\ PointerOrder' /\ [Next]_vars => [Abstract!Next]_(Abstract!fifoVars)
  <2> SUFFICES ASSUME PointerOrder, PointerOrder', [Next]_vars
               PROVE  [Abstract!Next]_(Abstract!fifoVars)
    OBVIOUS
  <2>1. CASE PushClock
    BY <2>1, PushEdgeSimulates DEF PushClock, Abstract!Next
  <2>2. CASE PopClock
    BY <2>2, PopEdgeSimulates DEF PopClock, Abstract!Next
  <2>3. CASE UNCHANGED vars
    <3>1. /\ rdPtr' = rdPtr /\ wrPtr' = wrPtr /\ ram' = ram
          /\ pushCount' = pushCount /\ popCount' = popCount
      BY <2>3 DEF vars, pushVars, popVars
    <3>2. queue' = queue
      BY <3>1 DEF queue, Occupancy, AtOffset
    <3>3. QED
      BY <3>1, <3>2 DEF Abstract!fifoVars
  <2>4. QED
    BY <2>1, <2>2, <2>3 DEF Next
<1>2. QED
  BY <1>1, InitSimulates, PointerOrderInvariant, PTL DEF Spec, ImplementsFifo, Abstract!Spec

(* Whenever the queue does not look empty, the RAM output that the pop     *)
(* side reads without a clock is the oldest word of the queue.             *)
THEOREM OutputIsHead == Spec => [](~PopEmpty => queue # <<>> /\ PopWord = Head(queue))
<1>1. ASSUME PointerOrder, ~PopEmpty PROVE queue # <<>> /\ PopWord = Head(queue)
  <2>1. OccupancyFits /\ QueueReads
    BY <1>1, OccupancyBounds, QueueType
  <2>2. rdPtr \in Pointer /\ popCount \in 0 .. Depth /\ popCount # 0 /\ Occupancy \in Nat
    BY <1>1, <2>1 DEF PointerOrder, TypeOK, PopEmpty, OccupancyFits
  <2>3. Occupancy >= 1
    BY <2>1, <2>2, DepthAssumption DEF OccupancyFits
  <2>4. AtOffset(0) = rdPtr
    BY <2>2, ModulusExceedsDepth DEF AtOffset, Pointer
  <2>5. queue[1] = ram[Slot(AtOffset(0))] /\ queue \in Seq(Data) /\ Len(queue) = Occupancy
    BY <2>1, <2>3, <2>2 DEF QueueReads
  <2> QED
    BY <2>2, <2>3, <2>4, <2>5 DEF PopWord
<1> QED
  BY <1>1, PointerOrderInvariant, PTL
=============================================================================
