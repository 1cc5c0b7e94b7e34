------------------------------ MODULE AddrDcd ------------------------------
(***************************************************************************)
(* The arithmetic of the APB address generator and of the slave decoder    *)
(* (DW_axi_x2p_s_addr_dcd, DW_axi_x2p_dcdr): which address follows which    *)
(* inside a burst, which slave a byte address selects, and which commands  *)
(* are rejected.  Addresses are bytes modulo AddrSpace; both data buses     *)
(* are one APB word (WordBytes) wide, as configured.                        *)
(***************************************************************************)
EXTENDS Integers

CONSTANTS
  AddrSpace,     \* number of byte addresses (2^32 in the configuration)
  BlockSize,     \* the granularity of the decoder, 1 KB
  Slaves,        \* the APB slaves, one select line each
  FirstBlock,    \* FirstBlock[s] .. LastBlock[s] are the blocks of slave s:
  LastBlock      \* X2P_START_PADDR_Sn and X2P_END_PADDR_Sn

\* The address space is a power of two, so the largest block a burst wraps in,
\* sixteen words, divides it.
ASSUME AddrSpaceAssumption == AddrSpace \in Nat \ {0} /\ AddrSpace % 64 = 0

WordBytes == 4
AlignSize == 2                                   \* APB_BUS_SIZE, in log2 bytes

FIXED == 0
INCR == 1
WRAP == 2
RESERVED == 3

Plus(a, n) == (a + n) % AddrSpace
WordAligned(a) == a - (a % WordBytes)

\* Bytes one beat advances, and the block a wrapping burst stays in.
BeatBytes(c) == 2 ^ c.size
Container(c) == (c.len + 1) * BeatBytes(c)

WrapError(c) == c.burst = WRAP /\ c.len \notin {1, 3, 7, 15}

\* A command narrower than the APB bus, or not aligned to it, is refused.
InitialCmdError(c) == c.size < AlignSize \/ c.addr % WordBytes # 0

\* The select lines of an address; none means a decode error.
Decode(a) == {s \in Slaves : a \div BlockSize \in FirstBlock[s] .. LastBlock[s]}

AddressFromSet(c) == IF c.write THEN WordAligned(c.addr) ELSE c.addr

BaseFromIncrBase(c, base) ==
  CASE c.burst = FIXED -> c.addr
    [] c.burst = WRAP /\ ~WrapError(c) ->
         (base - (base % Container(c))) + (Plus(base, BeatBytes(c)) % Container(c))
    [] OTHER -> Plus(base, BeatBytes(c))

\* A mistake the properties must catch: every read goes on to the next word.
AddressNextWord(c, base, address) == Plus(address, WordBytes)

AddressFromIncrBase(c, base, address) ==
  CASE c.burst = RESERVED -> address
    [] c.burst # RESERVED /\ c.write -> WordAligned(BaseFromIncrBase(c, base))
    [] c.burst = INCR /\ ~c.write -> Plus(address, WordBytes)
    [] OTHER -> BaseFromIncrBase(c, base)

AddressFromIncr(address) == Plus(address, WordBytes)
=============================================================================
