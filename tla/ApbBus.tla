------------------------------- MODULE ApbBus -------------------------------
(***************************************************************************)
(* What an APB slave may rely on, whatever the master is doing: the bus is  *)
(* idle (no select), or in the setup cycle of a transfer (select without    *)
(* enable), or in its access cycle.  Setup is always followed by access of *)
(* the same transfer, access by idle or the setup of another one, and the   *)
(* selected slaves are exactly those the address decodes to.                *)
(***************************************************************************)
CONSTANT Target(_)     \* the slaves an address decodes to

VARIABLES sel, enable, addr, write, data

busVars == <<sel, enable, addr, write, data>>

Idle == sel = {} /\ ~enable
Setup == sel # {} /\ ~enable /\ sel = Target(addr)

Init == Idle

\* sel, enable, addr, write and data are the pins in one cycle; the primed
\* ones are the pins in the next.
StartTransfer == ~(sel # {} /\ ~enable) /\ Setup'
Access ==
  /\ sel # {} /\ ~enable
  /\ enable'
  /\ UNCHANGED <<sel, addr, write>>
  /\ write => UNCHANGED data
Release == ~(sel # {} /\ ~enable) /\ Idle'

Next == StartTransfer \/ Access \/ Release
Spec == Init /\ [][Next]_busVars
=============================================================================
