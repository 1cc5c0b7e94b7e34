------------------------------ MODULE ApbAgent ------------------------------
(***************************************************************************)
(* The APB slave agent of the testbench: gon_apb_slave_driver, which serves   *)
(* one access per slave_ready item from an associative array, and             *)
(* gon_apb_monitor, which takes an access apart at its setup edge and hands   *)
(* it out at the next edge with the data on the pins of the interface, which   *)
(* for a read is what the slave driver drives there.  Without PREADY on the bridge the items always    *)
(* say ready and never an error, as the sequences constrain them.             *)
(***************************************************************************)
EXTENDS Naturals, Sequences

CONSTANT
  NoData         \* the value of an address never written

VARIABLES
  mem,
  slaveItems,    \* the slave_ready items still to be served
  slaveData,     \* what the slave driver drives on PRDATA, until the next read
  setup          \* the access the monitor has seen the setup of: <<>> or one

Init == mem = <<>> /\ slaveItems = 0 /\ slaveData = NoData /\ setup = <<>>

\* The addresses of the agent have sixteen bits.
Short(addr) == addr % 2 ^ 16

\* The address, less the byte lane, chooses the word.
WordOf(addr) == Short(addr) - (addr % 4)
MemAt(addr) == IF WordOf(addr) \in DOMAIN mem THEN mem[WordOf(addr)] ELSE NoData

\* A mistake the properties must catch: a word once written is not written again.
StoredOnce(addr, data) ==
  [a \in DOMAIN mem \cup {WordOf(addr)} |-> IF a \in DOMAIN mem THEN mem[a] ELSE data]

Stored(addr, data) ==
  [a \in DOMAIN mem \cup {WordOf(addr)} |-> IF a = WordOf(addr) THEN data ELSE mem[a]]

\* An item is used up by the setup of an access; a write is stored there, and
\* the answer to a read is driven from there on.
DriverEdge(isSetup, write, addr, data) ==
  LET serves == isSetup /\ slaveItems > 0 IN
  /\ slaveItems' = IF serves THEN slaveItems - 1 ELSE slaveItems
  /\ mem' = IF serves /\ write THEN Stored(addr, data) ELSE mem
  /\ slaveData' = IF serves /\ ~write THEN MemAt(addr) ELSE slaveData

\* The monitor hands out its access at the edge after the setup.
Published(pwdata) ==
  IF setup = <<>> THEN <<>>
  ELSE <<[write |-> setup[1].write, addr |-> setup[1].addr,
          data |-> IF setup[1].write THEN pwdata ELSE slaveData]>>

MonitorEdge(isSetup, write, addr) ==
  setup' = IF setup = <<>> /\ isSetup THEN <<[write |-> write, addr |-> Short(addr)]>>
           ELSE <<>>
=============================================================================
