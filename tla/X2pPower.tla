------------------------------ MODULE X2pPower ------------------------------
(***************************************************************************)
(* The counters of DW_axi_x2p_power_ctrl_legacy beside the bridge: they     *)
(* watch the AXI channels, count the transactions outstanding of each kind, *)
(* and report with no_px that the bridge may be switched off.               *)
(***************************************************************************)
EXTENDS X2pHistory

\* The largest depths the queues may be given, by the comment at the registers.
ASSUME PowerDepthsAssumption == CmdDepth <= 32 /\ ReadDepth <= 32 /\ RespDepth <= 16

VARIABLES
  ativ_writes, ativ_reads      \* registers of 6 and of 7 bits

powerVars == <<historyVars, ativ_writes, ativ_reads>>

no_px == ativ_writes = 0 /\ ativ_reads = 0

\* A mistake the properties must catch: a push hides an answer of the same cycle.
CountedPushWins(n, bits, push, answered) ==
  (n + (IF push THEN 1 ELSE IF answered THEN -1 ELSE 0)) % 2 ^ bits

\* The next count: a push and a last answer in one cycle cancel out.
Counted(n, bits, push, answered) ==
  (n + (IF push THEN 1 ELSE 0) - (IF answered THEN 1 ELSE 0)) % 2 ^ bits

\* A mistake the properties must catch: any beat ends a read.
ReadAnsweredAnyBeat(rHandshake) == rHandshake

ReadAnswered(rHandshake) == rHandshake /\ Head(readQueue).last

PowerInit == HistoryInit /\ ativ_writes = 0 /\ ativ_reads = 0

\* The counters see a push of the command queue, and the answer the master takes.
AclkCounted == \E w, b, r \in BOOLEAN :
  /\ AclkWith(w, b, r) /\ AclkRecorded(r)
  /\ ativ_writes' = Counted(ativ_writes, 6, Arb!awready, b)
  /\ ativ_reads' = Counted(ativ_reads, 7, Arb!arready, ReadAnswered(r))

PowerNext ==
  \/ AclkCounted
  \/ /\ (Pclk /\ PclkRecorded) \/ ((SendWrite \/ SendRead) /\ UNCHANGED record)
     /\ UNCHANGED <<ativ_writes, ativ_reads>>

PowerSpec == PowerInit /\ [][PowerNext]_powerVars

----------------------------------------------------------------------------
(* Properties.                                                              *)

\* The counts are those of the bursts the bridge has accepted and the master has
\* no full answer to, so no answer ever comes without its burst and neither
\* count passes its register (ACTIVE_CNTS_PROC and the comment above it).
CountsAreTrue ==
  /\ ativ_writes = Len(openWrites) - (IF awvalid THEN 1 ELSE 0)
  /\ ativ_reads = Len(openReads) - (IF arvalid THEN 1 ELSE 0)

\* "There are no pending operation in the bridge" (no_px): both clock domains are
\* at rest, though the counters see aclk only.  Words sent ahead of their address
\* may be waiting.
NoPxMeansIdle ==
  no_px =>
    /\ cmdQueue = <<>> /\ respQueue = <<>> /\ readQueue = <<>>
    /\ state = "IDLE" /\ ~dlydResp /\ ~pushReadReg
=============================================================================
