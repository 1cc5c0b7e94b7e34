------------------------------ MODULE Coverage ------------------------------
(***************************************************************************)
(* gon_axi2apb_cgm: func_cover takes an AXI transaction, then an APB one,     *)
(* and samples the AXI one.  What it samples is the monitor's handle at that  *)
(* moment; the queue keeps, for the properties, the command of the burst      *)
(* each entry was handed out for.                                             *)
(***************************************************************************)
EXTENDS Naturals, Sequences

VARIABLES
  wrT, rdT,      \* the monitor's handles, only read here
  toCover,       \* AXI transactions received: [write, burst]
  apbToCover     \* the number of APB transactions received

Init == toCover = <<>> /\ apbToCover = 0

Received(write, read, item, apb) ==
  /\ toCover' = IF write \/ read THEN Append(toCover, [write |-> write, burst |-> item.cmd])
                ELSE toCover
  /\ apbToCover' = apbToCover + Len(apb)

\* The command the covergroups are given.
SampledCmd == IF Head(toCover).write THEN wrT.cmd ELSE rdT.cmd

\* A mistake the properties must catch: one APB transaction is always kept back.
CanSampleLate == toCover # <<>> /\ apbToCover > 1

CanSample == toCover # <<>> /\ apbToCover > 0

Sample == CanSample /\ toCover' = Tail(toCover) /\ apbToCover' = apbToCover - 1
=============================================================================
