----------------------------- MODULE Scoreboard -----------------------------
(***************************************************************************)
(* gon_axi2apb_scb: transactions of both monitors in queues, and two checker *)
(* processes that wait for one APB access after the other for the AXI burst  *)
(* in hand.  An AXI transaction is a handle the monitor goes on writing to   *)
(* (wrT, rdT), so the queues of handles all name one object and only their   *)
(* length is kept; data.size(), burst_type and the rest are read from it     *)
(* when the checker runs.                                                    *)
(***************************************************************************)
EXTENDS AddrDcd, Sequences

VARIABLES
  wrT, rdT,                 \* the monitor's handles, only read here
  axiWrites, axiReads,      \* handles received and not done with
  apbWriteQ, apbReadQ,      \* apb_write_trans_q, apb_read_trans_q: [addr, data]
  writeIdx, readIdx,        \* the beat each checker has come to
  complaint                 \* a uvm_error was reported

Init ==
  /\ axiWrites = 0 /\ axiReads = 0 /\ apbWriteQ = <<>> /\ apbReadQ = <<>>
  /\ writeIdx = 0 /\ readIdx = 0 /\ complaint = FALSE

\* get_trans: the two FIFOs are emptied into the queues at once; an edge brings
\* one APB access at most.
Received(axiWrite, axiRead, apb) ==
  /\ axiWrites' = axiWrites + (IF axiWrite THEN 1 ELSE 0)
  /\ axiReads' = axiReads + (IF axiRead THEN 1 ELSE 0)
  /\ LET of(kind) == IF apb # <<>> /\ apb[1].write = kind THEN apb ELSE <<>> IN
       /\ apbWriteQ' = apbWriteQ \o of(TRUE)
       /\ apbReadQ' = apbReadQ \o of(FALSE)
  /\ UNCHANGED <<writeIdx, readIdx, complaint>>

\* A mistake the properties must catch: a wrapping burst is expected to wrap at
\* its own first address.
ExpectedAddressNoWrap(c, i) ==
  CASE c.burst \in {INCR, WRAP} -> Plus(c.addr, i * BeatBytes(c))
    [] c.burst = FIXED -> c.addr

\* The address predictor; wrap_ptr counts words of four bytes.
ExpectedAddress(c, i) ==
  CASE c.burst = INCR -> Plus(c.addr, i * BeatBytes(c))
    [] c.burst = FIXED -> c.addr
    [] c.burst = WRAP ->
         LET wrapPtr == (c.addr \div 4) % (c.len + 1)
         IN  Plus(c.addr, (IF i < c.len + 1 - wrapPtr THEN i ELSE i - c.len - 1)
                          * BeatBytes(c))

\* Beat i of the handle against one APB access; an array read past its end, or
\* a burst type it does not know, makes it report an error.
Differs(handle, i, apb) ==
  \/ i >= Len(handle.data)
  \/ handle.data[i + 1] # apb.data
  \/ handle.cmd.burst = RESERVED
  \/ ExpectedAddress(handle.cmd, i) # apb.addr

\* A mistake the properties must catch: a write is looked at when the next is there.
CanCheckWriteLate == axiWrites > 0 /\ Len(apbWriteQ) > 1

CanCheckWrite == axiWrites > 0 /\ apbWriteQ # <<>>
CanCheckRead == axiReads > 0 /\ apbReadQ # <<>>

\* One turn of a checker's inner loop; the array size is read again after it.
CheckWrite ==
  /\ CanCheckWrite
  /\ complaint' = (complaint \/ Differs(wrT, writeIdx, Head(apbWriteQ)))
  /\ apbWriteQ' = Tail(apbWriteQ)
  /\ LET done == writeIdx + 1 >= Len(wrT.data) IN
       /\ writeIdx' = IF done THEN 0 ELSE writeIdx + 1
       /\ axiWrites' = IF done THEN axiWrites - 1 ELSE axiWrites
  /\ UNCHANGED <<axiReads, apbReadQ, readIdx>>

CheckRead ==
  /\ CanCheckRead
  /\ complaint' = (complaint \/ Differs(rdT, readIdx, Head(apbReadQ)))
  /\ apbReadQ' = Tail(apbReadQ)
  /\ LET done == readIdx + 1 >= Len(rdT.data) IN
       /\ readIdx' = IF done THEN 0 ELSE readIdx + 1
       /\ axiReads' = IF done THEN axiReads - 1 ELSE axiReads
  /\ UNCHANGED <<axiWrites, apbWriteQ, writeIdx>>

NothingWaits == axiWrites = 0 /\ axiReads = 0 /\ apbWriteQ = <<>> /\ apbReadQ = <<>>
=============================================================================
