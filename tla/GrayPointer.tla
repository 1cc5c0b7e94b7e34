----------------------------- MODULE GrayPointer -----------------------------
(***************************************************************************)
(* How a FIFO pointer crosses the clock boundary, bit by bit: the binary   *)
(* count of DW_axi_x2p_bcm05, its registered Gray code, and the first flop *)
(* of the DW_axi_x2p_bcm21 synchronizer on the other side, which may catch *)
(* each bit before or after its last change (the missampling that          *)
(* DW_axi_x2p_bcm21 itself injects in simulation).  AsyncFifo relies on    *)
(* what is shown here: whatever the flop catches decodes to the pointer    *)
(* before or after its last step, never to a third value.                  *)
(*                                                                         *)
(* A word is a function from its bit numbers to 0 and 1; Bits and Number   *)
(* relate it to the number the code counts with.                           *)
(***************************************************************************)
EXTENDS Naturals, FiniteSets

CONSTANT
  Depths         \* the queue depths examined

\* The queue wrappers "assume here that the DEPTH cannot exceed 256".
MaxDepth == 256

ASSUME DepthsAssumption == Depths \subseteq 1 .. MaxDepth

VARIABLES
  depth,         \* DEPTH of this queue; a parameter, it never changes
  countInt,      \* count_int, stored relative to START_VALUE_BUS
  grayInt,       \* this_addr_g_int, relative to START_VALUE_GRAY_BUS
  addrInt,       \* this_addr_int
  grayBefore,    \* last_data_dyn: grayInt before a change not yet settled
  flop,          \* sample_meta
  position,      \* the pointer AsyncFifo speaks of, and its value before
  positionBefore \*   the same change (neither is a register)

vars == <<depth, countInt, grayInt, addrInt, grayBefore, flop, position,
          positionBefore>>
-----------------------------------------------------------------------------
(* COUNT_WIDTH as the queue wrappers derive it from DEPTH. *)
CountWidth(d) == CHOOSE w \in 2 .. 9 : d <= 2 ^ (w - 1) /\ (w = 2 \/ d > 2 ^ (w - 2))

PowerOfTwo(d) == d = 2 ^ (CountWidth(d) - 1)

Modulus(d) == IF PowerOfTwo(d) THEN 2 * d ELSE d + 2 - (d % 2)

\* A mistake the properties must catch: an odd range is not centred in the code.
StartValueZero(d) == 0

StartValue(d) == (2 ^ CountWidth(d) - Modulus(d)) \div 2

(* DW_EFFECTIVE_DEPTH: the words of the RAM *)
EffectiveDepth(d) == IF PowerOfTwo(d) THEN d ELSE d + (IF d % 2 = 1 THEN 1 ELSE 2)

-----------------------------------------------------------------------------
(* Words of COUNT_WIDTH bits.                                              *)

Width == CountWidth(depth)
Words == [0 .. Width - 1 -> 0 .. 1]

Bits(n) == [i \in 0 .. Width - 1 |-> (n \div 2 ^ i) % 2]
Number(word) == CHOOSE n \in 0 .. 2 ^ Width - 1 : Bits(n) = word
Xor(v, w) == [i \in 0 .. Width - 1 |-> (v[i] + w[i]) % 2]

(* b ^ (b >> 1) *)
Bin2Gray(b) ==
  [i \in 0 .. Width - 1 |-> IF i = Width - 1 THEN b[i] ELSE (b[i] + b[i + 1]) % 2]

(* Bit i of the result is the exclusive or of bits i and up of g. *)
Gray2Bin(g) ==
  [i \in 0 .. Width - 1 |-> Cardinality({j \in i .. Width - 1 : g[j] = 1}) % 2]

Start == Bits(StartValue(depth))
StartGray == Bin2Gray(Start)

Count == Number(Xor(countInt, Start))

(* other_addr_decoded, of a word caught by the first flop *)
Decoded(word) == Number(Gray2Bin(Xor(word, StartGray)))

(* data_s_sel_0: bits chosen by select come from before the change *)
Caught(select) ==
  [i \in 0 .. Width - 1 |-> IF select[i] = 1 THEN grayBefore[i] ELSE grayInt[i]]
-----------------------------------------------------------------------------
Init ==
  /\ depth \in Depths
  /\ countInt = Bits(0) /\ grayInt = Bits(0) /\ addrInt = 0
  /\ grayBefore = Bits(0) /\ flop = Bits(0)
  /\ position = 0 /\ positionBefore = 0

SuccessiveCount ==
  IF ~PowerOfTwo(depth) /\ addrInt = Modulus(depth) - 1
  THEN StartValue(depth)
  ELSE (Count + 1) % 2 ^ Width

\* A mistake the properties must catch: the address wraps as a binary number.
SuccessiveAddrBinary == (addrInt + 1) % 2 ^ (Width - 1)

SuccessiveAddr ==
  IF ~PowerOfTwo(depth) /\ addrInt = Modulus(depth) - 1
  THEN 0
  ELSE (addrInt + 1) % 2 ^ (Width - 1)

(* The source clock rises and the pointer advances. *)
Advance ==
  /\ countInt' = Xor(Bits(SuccessiveCount), Start)
  /\ grayInt' = Xor(Bin2Gray(Bits(SuccessiveCount)), StartGray)
  /\ addrInt' = SuccessiveAddr
  /\ grayBefore' = grayInt
  /\ position' = (position + 1) % Modulus(depth)
  /\ positionBefore' = position
  /\ UNCHANGED <<depth, flop>>

(* The destination clock rises. *)
Sample ==
  /\ \E select \in Words : flop' = Caught(select)
  /\ grayBefore' = grayInt
  /\ positionBefore' = position
  /\ UNCHANGED <<depth, countInt, grayInt, addrInt, position>>

Next == Advance \/ Sample

Spec == Init /\ [][Next]_vars
-----------------------------------------------------------------------------
(* this_addr *)
RamAddress ==
  IF PowerOfTwo(depth) THEN Count % 2 ^ (Width - 1) ELSE addrInt

(* The registers, all zero after reset, stand for the pointer AsyncFifo    *)
(* counts with, and address the RAM word its Slot names, which exists.     *)
CountsPosition ==
  /\ Count = StartValue(depth) + position
  /\ Decoded(grayInt) = Count
  /\ RamAddress = IF PowerOfTwo(depth) THEN position % depth ELSE position
  /\ RamAddress < EffectiveDepth(depth)

(* However the bits of a changing pointer are caught, at every depth and   *)
(* across the wrap-around, the other side reads the pointer before or      *)
(* after its last step (the reason bcm05 sends Gray code and centres an    *)
(* odd count range on START_VALUE_BUS).                                    *)
FlopIsAPosition ==
  [][Decoded(flop') - StartValue(depth) \in {position, positionBefore}]_flop
=============================================================================
