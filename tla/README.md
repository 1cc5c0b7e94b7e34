# AXI-to-APB bridge: a TLA+ verification of the RTL

The repository is a UVM environment (`src/env`, `src/seq_lib`, `src/test`,
`src/tb`, `src/vip_lib`) around a synthesizable bridge, the DesignWare
`DW_axi_x2p` (`src/rtl`). The bridge takes AXI bursts on `aclk` and makes single
APB accesses on an unrelated `pclk`. This directory models the bridge, checks it
with TLC and proves part of it with TLAPS. The line numbers below are those of
`src/`; `PROJECT.json` maps every definition to its lines.

## 1. Inventory

```
 aclk                            |                             pclk
 AXI AW,AR -> arb -> p --push--> cmd queue  (depth 4) --> s_control -> s_addr_dcd -> dcdr
 AXI W  ------------> p --push-> write data (depth 2) --> s (word) -> s_unpack -> PWDATA
 AXI B  <------------ p <-pop--- responses  (depth 2) <-- s_response        |
 AXI R  <------------ p <-pop--- read data  (depth 2) <-- s_packer <- mux <- PRDATA
```

| Component | Source (`src/rtl/DW_axi_x2p*`) | State | Operations | What is hard, what makes it correct |
|---|---|---|---|---|
| Dual-clock FIFO, four instances | `_bcm07`, `_bcm05`, `_bcm57`, `_cmd_queue`, `_write_data_buffer`, `_resp_buffer`, `_read_data_buffer` | a pointer, a count and a synchronizer on each side; RAM | push edge, pop edge | Two unrelated clocks; each side decides from a stale copy of the other's pointer; Gray codes sampled while they change; odd depths. Must be a bounded FIFO whose flags err on the safe side, and late flags must be taken back. |
| Synchronizer | `_bcm21` | flops | sample | Metastability: either old or new bit. |
| Address arbiter | `_arb` | `arb_state` | one edge | Ready decided one cycle before the push, with a count that lags. Every ready must find room; nobody is starved. |
| AXI slave port | `_p` | none of its own (FIFO flags become valids and readies) | push command, push word, pop B, pop R | One queue for two address channels. |
| Control | `_s_control` | 14 states, beat counter, error bits, request and last flags | one edge per state | Bursts with errors must be drained and nothing else; decisions use queue outputs that may be stale or already belong to the next command; delayed pushes. |
| Address generator, decoder | `_s_addr_dcd`, `_dcdr` | base address, address, PADDR, PSEL | set, increment base, increment | Three burst types, wrap boundary, block boundary, end of map. |
| Datapath | `_s`, `_s_unpack`, `_s_packer`, `_s_response` | write word, selected word, read word, ID, saved ID and status | pop, select, capture, push | The response leaves after its command does. |
| Top, multiplexer, constants | `.v`, `_mux`, `_cc_constants` | none | wiring | |
| Power control counters | `_power_ctrl_legacy` | two transaction counters | count a push, count a last answer | Both in one cycle; a count kept on one clock must tell that both sides are at rest. |
| AXI master agent | `src/vip_lib/gon_axi/gon_axi_master` | driver: the transfer it drives, BREADY, RREADY; monitor: two handles, two counters | drive, sample | The monitor publishes a handle that later handshakes still write, at times before its address is known. |
| APB slave agent | `src/vip_lib/gon_apb` | associative array, `slave_ready` items; monitor: the access it is in | answer, sample | Stores and answers at the setup edge; a sequence waits until its items are used up. |
| Scoreboard, subscriber | `src/env` | four transaction queues, a beat index of each checker | receive, check | One APB access per AXI beat is expected; addresses are predicted by another formula than the RTL's. |
| Coverage | `src/cov` | two transaction queues | receive, sample | Pairs one APB access with each AXI burst. |
| Clock/reset agent, sequences, tests, testbench | `src/vip_lib/gon_clk_reset`, `src/seq_lib`, `src/test`, `src/tb` | | stimulus; assertions P1 to P9 | A sequence joins two others, and hangs when one of them does. |

Everything here is exposed to one of three difficulties: the order of edges of
two clocks, information that is a cycle or more old when it is used, and a burst
that goes wrong in the middle. The testbench adds a fourth: objects that are
handed out and still written. `PROJECT.json` lists 34 such hazards with the
line where each bites and the properties that watch it.

## 2. Modules

| Module | Models | Kind |
|---|---|---|
| `Fifo` | what a queue promises | abstract specification |
| `AsyncFifo` | the pointer machine on two clocks | detailed; implements `Fifo` |
| `GrayPointer` | one pointer bit by bit, and the flop that samples it | justifies the sampling of `AsyncFifo` |
| `AxiArb` | arbiter, AXI address channels, command queue (a `Fifo`) | composition on `aclk` |
| `AxiBurst` | what a burst asks for, by the AXI rules | reference the bridge is compared with |
| `AddrDcd` | address arithmetic and slave decoding | operators |
| `ApbMaster` | control and datapath, one action per control state | detailed; pins are variables it reads |
| `ApbSide` | `ApbMaster` with the most general partners on its pins | closed system with its properties |
| `X2pBridge` | `AxiArb`, four `Fifo`s and `ApbMaster` between an AXI master and the slaves | composition of the whole bridge |
| `ApbBus` | the APB protocol seen by the slaves | abstract specification |
| `X2pHistory` | `X2pBridge` with a record of what its APB side did | history variables, for properties and proofs |
| `X2pPower` | the legacy power control counters beside `X2pHistory` | detailed |
| `AxiMemory` | what bridge and slaves promise a master that waits for its answers: a memory | abstract specification |
| `AxiAgent`, `ApbAgent` | driver and monitor of the two agents, one operator per process and edge | detailed |
| `Scoreboard`, `Coverage` | the two subscribers | detailed |
| `Testbench` | agents, scoreboard, coverage and sequences around `X2pHistory` | composition; implements `AxiMemory` |
| `AsyncFifoProofs`, `AxiArbProofs` | theorems of the queues and the arbiter | |
| `GrayPointerProofs` | the Gray coded pointer at every depth | |
| `ApbMasterProofs` | one edge of the APB side | |
| `ApbSideProofs` | theorems of the APB side: pins and bursts, then addresses, writes, answers and types | |
| `X2pBridgeProofs` | theorems of the whole bridge and of its power counters | |
| `X2pTraceProofs` | the way of each burst through the whole bridge | |
| `TestbenchProofs` | one burst after the other through the environment around it | |
| `MC...` | instances for TLC | |

**`AsyncFifo`.** A step is one edge of `clk_push` or of `clk_pop`. `wrPtr` is the
pointer register as a number, `wrPrev` its value before its last change as long
as the other clock has not risen since: the register is only changing then, and
a flop may catch either value. `VERIF_EN 1` of `bcm21` adds the same choice in
simulation. Edges of the two clocks that coincide are covered by their two
orders together with this choice. `rdFlops` and `wrFlops` are the synchronizers,
`pushCount` and `popCount` the registered `word_count`; `push_full` and
`pop_empty` are comparisons with the count, as in the code. The RAM has no read
clock: `PopWord` reads it as it is. The wrappers leave the error, half-full and
almost-empty outputs unconnected and they are left out. Reset is the initial
state: the testbench resets both sides once and together, and a reset of one side
alone is not modelled.

**`GrayPointer`.** The variables are the register's bits and the two values a
sampling flop can mix bit by bit. It chooses its depth in its initial
state and shows that the mix is always a position the pointer had, and that the
RAM address derived from it is in the RAM. That is why `AsyncFifo` may sample
whole numbers.

**`AxiArb`.** `Aclk` is one edge: next state of the arbiter and the push of the
command queue in the ready cycle. The AXI master (external) raises a valid,
keeps it and its payload until ready, and lowers it for at least one cycle
after. The queue is `Fifo` itself, so everything that holds here holds for every
implementation of it, `AsyncFifo` in particular. The command queue's almost-full
level is `DEPTH - 1`.

**`ApbMaster` and `ApbSide`.** Each control state is one action that chooses
`state'`; `Registers` then gives every other register its next value, exactly as
the RTL's combinational `next_` signals do. `ApbSide` lets commands and words
arrive, buffers fill and drain at any moment. It shares these facts with the AXI side,
and no others: words arrive in burst order, with `WLAST` on the last one (an AXI
rule and what the driver does, `gon_axi_master_driver.sv`), possibly before their
command; a command once shown stays until popped, and may stand at the RAM
output before the empty flag shows it; an emptied command queue shows
an arbitrary old word (the RAM is not cleared). `owner`, `popped`, `writes` and
`served` are history variables, used by properties and by the environment
(the number of words still owed), never by the control. A word's data is its
position in its burst and PRDATA is the number of the access: enough to tell a
lost, doubled or swapped beat.

With the AXI and APB widths both 32, as configured, an AXI word is one APB word:
`apb_wd_sel` stays 0, `last_strobes` is 1 and `apb_read_last` is set exactly in
`REN`. The 64:32 and wider configurations are not modelled.

**`X2pBridge`.** The wiring of `DW_axi_x2p.v` and of the slave port: the pins that
`ApbSide` leaves open are here the outputs of queues. `Aclk` is one edge of
`aclk` (arbiter, command push, and the handshakes of W, B and R, where a queue's
flag is the valid or the ready), `Pclk` one edge of `pclk` (`ApbMaster`'s edge,
the command and word pops, the response and beat pushes). `cmdRam` holds the
words of the command RAM, so an emptied queue shows exactly the stale command the
RAM has there. The AXI master may have several bursts outstanding and may send
words ahead of their address; the slaves answer a read with its address, so
that `BeatsAnswerReads` can tell whose answer a beat is. `openWrites`, `toSend`,
`openReads`, `beatsGot` and `apbWrites` describe the master and the slaves and are
never read by the bridge. The queues are `Fifo`, which `AsyncFifo` is proved to
implement.

**`X2pHistory`.** Beside each step of the bridge it writes down what `ApbSide` keeps too:
`owner`, the command in hand, `popped`, the strobes of the words taken for it, `made`, its
APB writes, and `served`, its beats pushed; and `numbers`, which beat of its burst each
entry of the read buffer is. No step reads them, so they change nothing of the bridge; the
proofs of `X2pTraceProofs` and `TestbenchProofs` need them to say which part of a burst is where.

**`X2pPower`.** `power_ctrl_legacy` is in the RTL but not instantiated by the
configured top; the module puts it beside the bridge, where it would be, on the
bridge's own AXI handshakes. Both counters have the code's widths (6 and 7 bits).

**`Testbench`.** The environment as the smoke test builds it. A test is a
series of up to `MaxItems` bursts; for each a sequence hands the AXI driver a
transfer and the APB driver one `slave_ready` item per beat, and is over when
all are (`gon_axi2apb_write_seq.sv`, `gon_axi2apb_read_seq.sv`). A step is an edge of a
clock, seen at once by the bridge, the driver and the monitor of that side, or
one thing a process does between two edges: a turn of a checker (`Check`), a
sample (`Sample`), the driver raising its valids (`DriveItem`, one picosecond
after the edge, hence the phase `drive`), the next sequence (`NextItem`). What the
processes do takes no time, so all of it is done (`Settled`) before the next edge,
with one exception: two edges may fall on one instant. `now` is the set of
clocks that have had the edge still being reacted to, and the other clock may
have its edge in the middle of the reactions.

In `AxiAgent` a handshake is given by what it carries, `<<x>>` or `<<>>`. The
monitor creates each handle once and publishes the same one for every burst, so
`wrT` and `rdT` are one record each, and a queue of such handles in the scoreboard
is a counter: all its entries are the same object. APB transactions
are created per access and are kept as a sequence. Their address has sixteen bits
(`Short`, `gon_apb_transaction.sv` 7), and the scoreboard compares it with a prediction of
32 bits. The read data in them is `slaveData`, what the slave driver drives on the one wire
that `gon_axi2apb_tb.sv` 86-88 leads to all three PRDATA inputs; the bridge takes the same
wire through its multiplexer. `toCover` also keeps, for the
property only, the burst each entry was published for.

`AxiMemory` is the abstract specification: a write burst stores its words one by one at
the addresses AXI gives its beats, and is answered when all are stored; a read is
answered with what is stored. It knows no clocks, queues, states or accesses, so the
refinement goes through both clock domains, the queues, the control, the
address generator and the slave's array (`mem`, indexed by 16 bits of the address
less the byte lane).

**Scaling.** The shipped map has three slaves at `400`, `800` and `c00` hex, 1 KB
each. The model keeps three adjacent blocks above a hole and below a hole, 16
bytes each in a space of 128, and beat counters of 2 bits instead of
`LEN_WIDTH`. Bursts of four beats then cross a block, run off the map and fill
the counter, which is what the size matters for. In the `Testbench` instances the three
blocks are the last ones below 64 KB, in a space of 128 KB, so that the last word the
monitor's sixteen bits can name is accessed and a burst runs past it.

## 3. Runs

| Run | Instance | Shows |
|---|---|---|
| `fifo_data_buffer` | depth 2, two flops, two words, fair | `PointerOrder`, `ImplementsFifo`, and that pushes and pops become known (`PushIsSeen`, `FullIsReleased`): the write, response and read buffers |
| `gray_pointer` | depths 1 to 9, 12 and 16, all in one run | `CountsPosition`, `FlopIsAPosition`, also at the depths that leave spare RAM words |
| `axi_arbiter` | depth 4, two writes, one read, fair | `ReadyIsKept`, `Alternates`, `WritesAreAccepted`, `ReadsAreAccepted` |
| `apb_mixed` | short reads and writes, two IDs, some off the map, all strobe classes, fair | what crosses from one command to the next: responses, stale outputs, pops, beats, bus protocol; and that every command ends (`CommandFinishes`) |
| `apb_bursts` | eight bursts of two to four beats, of every type, read and write | addresses, order, completeness, error beats, counter range, `NoPushOnFull` |
| `bridge` | two writes and one read outstanding; command queue and write buffer of 2, answer buffers of 1; power counters | `ResponsesAnswerWrites`, `BeatsAnswerReads`, `NothingLeftOver`, `AnswersFindRoom`, `CountsAreTrue`, `NoPxMeansIdle` |
| `bridge_progress` | one write and one read outstanding, write buffer of 1, fair | `WritesAreAnswered`, `ReadsAreAnswered` |
| `testbench` | every series of three bursts from seven, fair | `ImplementsMemory`, `NoFalseAlarm`, `EverythingIsChecked`, `CheckersKeepUp`, `HandleIsTheBurst`, `AnswersAreMet`, `SequencesFinish` |
| `apb_good_beats` | the read commands | violation, finding 1 |
| `apb_reserved_burst` | a read of burst type 3 | violation, finding 2 |
| `tb_unstrobed` | a write without strobes, fair | violation, finding 3 |
| `tb_coverage` | a burst of two beats, then others | violation, finding 4 |

*Bounds.* Depth 2 and two flops are the shipped values of three of the four
queues; the depth 4 of the command queue and odd depths are covered by the proof for
every depth, and by `gray_pointer` bit by bit; two different words are enough to tell a FIFO from something
else because the control never looks at them. Commands are drawn again and
again from the listed sets, so a run contains every sequence of them. The
interesting cases each set must contain are: a burst that starts good and goes
bad, one that starts bad, one that wraps in the middle, a wrap of illegal length,
a burst crossing blocks, an unaligned one, a one-beat burst and a full-length
one. Every queue flag may change between any two edges, so no timing is left out.

`bridge` keeps only what the composition can add. Three bursts outstanding are
one more than the command queue of 2 takes, so the arbiter's almost-full branches
are entered; the write buffer of 2 fills with the words of two bursts, and
answer buffers of 1 fill with every answer. A write is either one refused for the
strobes of its first word, with a word to drain, or a good one of one beat; the
read starts good and runs off the map at its third beat, so it holds a good beat,
the good beat of finding 1 and a bad one. The burst types and the other strobe
classes are the business of the `apb_` runs. `bridge_progress` bounds the
master at one write and one read at a time, sent again and again: the write makes one
access, is refused for the strobes of its second word and drained of its third; the read
runs off the map at its second beat.

In `testbench` `MaxItems` is 3: a burst, one that meets what it left behind in
handles, indices and the slave's array, and one more that meets what the second
left. The bursts are two writes of two beats that overlap (incrementing and
wrapping), a one-beat write on one address, one without strobes, a write and a read whose
second beat is off the map, and a wrapping read; `MaxWrites` and `MaxReads` of 1 lose nothing,
since the driver sends one burst at a time. Its write buffer of 1 makes the driver wait for room
in the middle of a burst.

*Fairness.* Clocks run for ever (`clk_reset` agent), so each side's edge is weakly
fair; but no request is ever forced. A plain `WF_vars(PopClock)` would do that,
since in a settled queue only an edge with a request changes anything, so
`AsyncFifo` owes an edge only while one without a request still changes a
register (`PushSettled`, `PopSettled`). `AxiArb` adds that the APB side takes
commands and that the news of pops and pushes crosses; the first is
`CommandFinishes` (and `WritesAreAnswered`, `ReadsAreAnswered`, in the whole
bridge), the second `PushIsSeen` and `FullIsReleased`. `ApbSide` assumes
that the master sends the words of the write in hand and takes its answers, as
AXI demands; nothing forces a command or a word of a later burst.
In `X2pBridge` each clock's edge that also brings the news of the other side
(`AclkNews`, `PclkNews`) is weakly fair, which is what `PushIsSeen` and
`FullIsReleased` say of `AsyncFifo`; the master sends the words of the bursts it has
addressed and takes every answer, and nothing forces a burst. `TbFairness` asks
the same of the two clocks in `Testbench`, and that no process sleeps that could go
on (`DriveItem`, `Check`, `Sample`), which is the simulator's scheduling; nothing forces
a sequence. The handshakes of the master need no fairness there: the driver makes
them with the edge.
`CHECK_DEADLOCK` is never turned off: a clock always has another edge. `overtaken` in `AxiArb` stops counting at 2
(`TooOften`), one more than `Alternates` allows.

*Other bounds.* `MaxWrites` and `MaxReads` bound the bursts outstanding,
`MaxItems` the length of a test; nothing else is bounded but by the code (`MaxDepth` of
`GrayPointer` is the depth the wrappers assume never to be exceeded).

*Mutants.* Next to the definition it perverts, each module keeps the mistakes
its properties must catch (`PushAdvancesAnyway`, `RdyPushAfLate`,
`PopWriteBuffGreedy`, ...). Each property is shown to fail when the definition is
replaced by one of them.

## 4. Findings

1. **`apb_good_beats`.** `s_control` 856-858 explains that a read error is delayed
   so that the beat whose push is in progress is not touched. The delay
   works for the `error` register, but `rd_error` (907), the bit that is really
   pushed with the beat, is set from the next beat's address in the cycle the
   last good beat waits for its push. A read burst that runs past the end of the
   map therefore answers SLVERR for its last good beat too. No bad beat claims
   success (`BadBeatsFail` holds), so the answer errs on the safe side.
2. **`apb_reserved_burst`.** `s_addr_dcd` 267 says that every burst type other
   than the ones listed counts as INCR. The branch advances the base address but
   leaves `next_address_from_incr_base` alone, so each beat of a read with
   `ARBURST = 3` is made at the first address. AXI reserves the value.
3. **`tb_unstrobed`.** A write sequence runs one `slave_ready` item per beat and
   joins all of them with its transfer. A beat without strobes makes no APB access,
   so its item is never used up and the sequence never ends; the scoreboard's
   write checker waits too. The coverage plan asks for such writes
   (`gon_axi2apb_cgm.sv` 82-85, bin `all_off`). The same happens to any beat off the
   map (`CheckersKeepUp` says where the checkers are left then: at the first beat that made no
   access, with nothing else in hand; the slave item left over keeps any later burst from being
   paired with it); `SequencesFinish` therefore speaks of bursts whose every beat reaches the slaves.
4. **`tb_coverage`.** `func_cover` takes one APB access for each AXI burst. After a
   burst of two beats it has one to spare, and samples the next write the moment
   the monitor hands it out, with the last data beat. For a one-beat burst that is
   before the address handshake, so it samples the address of the burst before.

The comment at `dcdr` 63 (error on no select *or more than one*) also goes
beyond the code, which only flags none; with disjoint blocks, as shipped, it
makes no difference and there is no run for it.

## 5. Proofs

All proofs are for every value of the constants, under the named assumptions of
the modules.

| Theorem | States | Assumptions |
|---|---|---|
| `FifoFlagsSafe` (`AxiArbProofs`) | `FlagsSafe` of the command queue: seen <= length <= held <= Depth | `CmdDepthAssumption` |
| `PointerOrderInvariant` (`AsyncFifoProofs`) | `[]PointerOrder` | `DepthAssumption`, `SyncAssumption`, `ResetWordAssumption` |
| `AsyncFifoImplementsFifo` | `Spec => Abstract!Spec` | the same |
| `OutputIsHead` | `[](~PopEmpty => PopWord = Head(queue))`: the RAM output is the oldest word | the same |
| `RegistersCountPosition` (`GrayPointerProofs`) | `[]CountsPosition` | `DepthsAssumption` of `GrayPointer`: depths from 1 to 256 |
| `SampledPointerIsAPosition` | `FlopIsAPosition` | the same |
| `ArbReadyIsKept`, `ArbAlternates` (`AxiArbProofs`) | `[]ReadyIsKept`, `[]Alternates` | `CmdDepthAssumption` |
| `PushFindsRoom` (`ApbSideProofs`) | `[]NoPushOnFull` | none |
| `ResponseIsPrompt` | `[]ResponseNeverWaits` | none |
| `ApbFollowed` | `Spec => Bus!Spec` | none |
| `OwnWordsPopped` | `[]PopsOwnWordsOnly` | `CommandsAssumption`, `LenWidthAssumption` |
| `ReadsAreComplete`, `BeatsPushedInOrder` | `[]ReadIsComplete`, `[]ReadBeatsInOrder` | the same |
| `TypesHold` | `[]TypeOK` | the same, `AddrSpaceAssumption` |
| `ReadsAtTheirAddress`, `BadBeatsAreFlagged` | `[]ReadsAtAxiAddress`, `[]BadBeatsFail` | the same, and `NoReserved` |
| `WritesMadeInOrder`, `ResponseIsTrue` | `[]WritesInOrder`, `[]ResponseTellsTheTruth` | the same, and `NoReserved` |
| `BridgeImplementsArb` (`X2pBridgeProofs`) | `Spec => Arb!Spec` | none |
| `BridgeArbitrates` | `[]ReadyIsKept`, `[]Alternates` in the whole bridge | `DepthsAssumption` |
| `BridgeInvariant` | every queue's counts bracket its length; the control's invariant | the same |
| `BridgeAnswersFindRoom` | `[]AnswersFindRoom` | the same |
| `BridgeFollowsApb` | `Spec => FollowsApb` with the real queues at the pins | the same |
| `BurstsAreAccountedFor` | `[]TrafficInv`: every burst sent and unanswered is in exactly one place | the same, `BurstsAssumption`, `AddrSpaceAssumption` |
| `PowerCountsAreTrue` | `[]CountsAreTrue` of `X2pPower` | the same, `PowerDepthsAssumption` |
| `PowerNoPxMeansIdle` | `[]NoPxMeansIdle` of `X2pPower` | the same |
| `BeatsAreOfTheirReads` (`X2pTraceProofs`) | `[]BeatsAnswerReads` | `DepthsAssumption`, `BurstsAssumption`, `AddrSpaceAssumption`, `NoReserved`, `SlavesApart` |
| `ResponsesAreOfTheirWrites`, `NoWordIsLeftOver` | `[]ResponsesAnswerWrites`, `[]NothingLeftOver` | the same without `SlavesApart` |
| `CheckedHandleIsTheBurst` (`TestbenchProofs`) | `[]HandleIsTheBurst` | the same |
| `AnswersAreAwaited` | `[]AnswersAreMet` | the same |
| `NothingIsLeftUnchecked` | `[]EverythingIsChecked` | the same |
| `ScoreboardIsQuiet` | `[]NoFalseAlarm` | the same, `OneStrobe`, `SlavesApart` and `InMonitorRange` |

*The FIFO.* `PointerOrder` is itself inductive. Pointers are numbers modulo
`Modulus`, where "older" has no meaning; the invariant measures everything as a
distance from one pointer instead. Seen from `wrPtr`, the copies of `rdPtr` get
farther the further they are down the synchronizer, and the registered count
is at least the farthest. Seen from `rdPtr`, the copies of `wrPtr` get nearer.
A push adds one to every distance on its side and is only made when the largest
is below `Depth`, so none wraps. The proof needs a few lemmas on `Succ` and
`Distance` and splits on which side's clock rises and whether it advances. The
refinement adds that a write goes to the slot after the last queued word, which
by `PointerOrder` is none of the queued ones.

*The Gray code.* Words are functions from bit numbers to 0 and 1, so that the provers can
reason about them; that a number is known by its bits is an induction over the bits from
the top (through the least bit that differs). `GrayInv` says that the registers hold
`At(position)`, the bits of the start value plus the position, and that the word a flop may
still catch is that of the position before. Adding one changes bit i of a number exactly when all
bits below are ones, so the Gray words of neighbours differ in the single bit where the run of
ones ends (`GrayStep`); since an odd range is centred, its last number is the complement of
its first, and their Gray words differ in the top bit alone (`GrayWrap`). A word mixed from two
that differ in one bit is one of the two (`CaughtIsOneOfBoth`). The depths are bounded by 256
because the wrappers' `COUNT_WIDTH` is a table that ends there.

*The arbiter.* `ReadyIsKept` alone is not inductive. The strengthening says that
`held` is in range, that `WREADY` and `RREADY` were entered with room which only
the ready's own push can take, that `RREADY_PEND` holds a waiting read, and how
`overtaken` depends on the state. `Alternates` uses the same invariant.

*The APB side.* `NoPushOnFull` needs that a registered push was requested with
room and that only a push fills the buffer. `ResponseNeverWaits` needs that
`dlydResp` is set only on leaving `WRESP` for `IDLE` with room. `ApbFollowed` needs
that a transfer is only begun from states in which no address register moves: PSEL
is decoded from the address register, PADDR is loaded from its next value, and
the proof shows that the two are the same address in the same edge and that it
passed the decode error check.

*The bursts.* Three inductive invariants on top of each other (`ApbSideProofs`).
`Owned` says that out of `IDLE` the queue output is the command in hand, and that the
states tell its kind: the control pops its command exactly when it returns to
`IDLE`. For reads, `BeatInv` says that the counter is the beats pushed plus the one
registered, so leaving at the last beat means that all are pushed, purged or not, and
`OrderInv` that answers, last flag and error bit belong to that beat. For writes,
`WordInv` says that the word offered is the next one owed, and `DrainInv` that the last
flag in the word register is set exactly when none is owed, and that each of the
control's copies of it (`writeLastReg`, `writeBuffEmpty`) agrees where it is used. All this is
needed because each decision is made in one state from a flag registered in
another.

*Addresses, writes and answers.* The second part of `ApbSideProofs` compares the APB side
with what AXI asks for. The reference is recursive over the beats, so it first shows by
induction on the beat (through the least beat that fails) that
the register `s_addr_dcd` increments is AXI's address of the beat: the wrap mask and the
block arithmetic become statements about quotients and remainders by 2^n. Over that,
`ProgressInv` ties the address register to the beat in hand, `AnswerInv` the error bit
and the answer pushed to that beat, `WordRegInv` and `FlagInv` the word
register and the control's copies of its flags to the next word owed, and `WriteInv` the
accesses made to the words taken so far. `NoReserved` says that no burst of
the instance has the reserved type: finding 2 shows that the theorems are false for those.
`TypesHold` needs the same addresses, since PADDR stays in the map
only because the increments do.

*The whole bridge.* The arbiter in the bridge is an instance of `AxiArb`, and the
bridge's steps are its steps or stutters, so its theorems carry over. The same
holds for `ApbMaster`: its edge in the bridge is the edge of `ApbMasterProofs`,
definition by definition (`SameEdge`), so `FollowsApb` holds with the real queues. The
counts of a queue keep their order whatever it carries (`Bracketed`), so a pop never
makes a buffer fuller than the APB side believes; with `MasterInv` that gives
`AnswersFindRoom`. Together with `AsyncFifoImplementsFifo` this shows the two sides'
assumptions about each other to be facts.

*The traffic of the bridge.* `TrafficInv` counts. A burst that the master has sent
and that is not answered is in one place: on its address channel, in the command queue,
in the hands of the APB side (its command popped, its answer not yet pushed), or in an
answer buffer, where only a response or a last beat counts (`Accounted`). Counting reads this
way needs that a last beat exists: `LastFlagged` (the last flag belongs to the
command in hand) and `LastComes` (a beat in the buffer that is not last is followed by
another or by the read still in hand). Reads and writes share the command queue, so the
two counts are cardinalities of sets of positions in it. A clock edge moves a burst
from one place to the next and leaves the sum. In `X2pPower` the counters equal these
sums, which the depths of the queues bound below 2^6 and 2^7, so they never wrap;
`no_px` then makes every term zero.

*The way of a burst.* `X2pTraceProofs` follows each burst from its address channel to its
answer. It first makes the APB side in the bridge (`Side`) an instance of `ApbSideProofs`.
The lemmas there speak of two kinds of step, an edge (`Tick`) and what may happen between
edges (`Meanwhile`): `PclkTicks` and `OthersWait` show that the bridge's steps are of these
kinds, so the invariants of the APB side hold inside it as soon as the queues keep the
environment's promises. Those are what is proved next:

* `LineInv`: the commands in the queue and then the one on its address channel are, for
  writes and for reads apart, the youngest of the open bursts, in order.
* `BeatsInv` for reads: the beats in the buffer, followed by the one being pushed, continue
  where the master stopped (`beatsGot`), burst after burst, each with the ID, last flag and
  answer of its place; `numbers` says which place that is. `DataInv` carries the slave's
  answer from the access to the push.
* `WordsInv` for writes: the words in the write buffer followed by those the master still
  has to send are, cut at the ends of bursts, what is left of the write in hand and then
  all of each write that waits. `WordsFitSide` concludes that the word shown is the next one of the
  write in hand, the one promise that the AXI side alone cannot give.
* `HandInv` and `AnswersInv`: the accesses the slaves saw are those of the writes answered
  and then the ones made for the write in hand; each response in the buffer is that of the
  write in its place.

Each conjunct is needed for another, since the side that pops sees only the head of a queue and
relies on the side that pushed for the rest. `NothingLeftOver` is then the case of no open write.
`SlavesApart` (no two slaves share an address, as in the shipped map) is needed because the multiplexer
passes on zero when two are selected. `NoReserved` is again finding 2.

*The environment.* `TestbenchProofs` follows one burst from the sequence through both
agents and both monitors to the checkers. The bridge in `Testbench` is that of the trace
proofs with other slaves, ones that answer from an array, so `X2pBridgeProofs` and
`X2pTraceProofs` speak of an edge whatever the slaves answer (`PclkEdge`,
`HistoryMoves`) and their invariants hold here too (`TbTrace`). `TbInv` says on top of them
that between two bursts nobody has anything left (`Clean`), and that in one (`Busy`):

* `Driven`: the driver has exactly the one burst open, while it sends it and waits for
  its answer; so by the traffic of the bridge that burst is in one place (`OnePlace`), and
  without it the bridge is at rest (`BridgeRests`).
* `SlaveInv`: the slave items used up are the accesses begun, bounded in each state of the
  control by the words popped or the beats counted (`Serves`), so a setup always finds one
  (`SetupIsServed`). What makes this inductive is that the control takes the burst up once:
  while it has not (`Unstarted`) no item is used, and it leaves it with an empty command queue
  (`QueueIsDone`).
* `HandlesInv`: the arrays of the handles are as long as the monitor's counts say, and full once
  handed out; the command is that of the item from its address handshake on.
* `ScbInv`: every access seen is in a queue of the scoreboard or is a beat checked, and a
  checker that is done has checked them all; `CoverInv`: the collector of the coverage has
  as many accesses as the burst it has not sampled.

The same count of accesses (`Accessed`) appears as items used up, as queued transactions and as
checked beats. `CheckedHandleIsTheBurst` needs all of it: a handle may be handed out before its
address is known, but then the burst is `Unstarted` and there is no access to check it against.
`NothingIsLeftUnchecked` is `RestsClean`: a burst that is over, looked into by every process, is
`Clean`, which is also what the next burst starts from.

`ScoreboardIsQuiet` needs to know which beat each counted access is. `AlarmInv` adds:

* `SetupInv`: the access the monitor has in hand is still on the bus, with its address in
  sixteen bits, and what the bridge took of a read is what the slave drives. The first needs
  `InMonitorRange` (every slave below 64 KB) to be the address of the beat
  (`GoodAddressIsShort`): for a slave above that the code's scoreboard reports ADDRCHK. The
  second needs `SlavesApart` (`PclkReadsSlave`): with two slaves selected the multiplexer answers
  zero while the monitor sees the word, and the scoreboard reports DATACHK. The shipped
  map (400 to fff hex, disjoint) satisfies both.
* `CountInv`: the accesses begun are those the control made for the write in hand, or its
  beat count for a read, so the next access is of beat number `Begun`. This is where
  `OneStrobe` is used: `gon_axi_master_driver.sv:84` drives one `t.strb` with all words of a
  burst. With strobes that change within a burst an access would be compared with the
  beat left out before it, as the monitor and the scoreboard do not look at strobes.
* `AtItsBeat`, `OfItsWord`: the transactions in a queue of the scoreboard are of the beats
  from the checker's index on, at the AXI address of the beat, which is what the checker
  predicts (`ExpectedAddress`, `WrapPoint`) at every beat that reaches a slave, and with
  the word that the driver numbered (`NumberedTo`).
* `DataArrives`: for a beat that is still to be checked, the slave's answer is the same in the
  transaction, in the packer's register, in the read buffer under its number and at its
  place in the handle. `Behind` keeps the beats in the buffer apart from the one at the packer.

*Only model-checked.* Liveness (`PushIsSeen`, `FullIsReleased`, the two `Accepted`
properties, `CommandFinishes`, `WritesAreAnswered`, `ReadsAreAnswered`,
`SequencesFinish`): fairness and ENABLED are beyond the prover. `ImplementsMemory`,
checked for the listed bursts: a proof would follow the slaves' array, word by word, through
the whole traffic of the bridge, on top of all the invariants above. A word is told apart by its
position in its burst, so this run does not tell the words of two bursts at the same position
apart: a stale word of an earlier burst is noticed only where the positions differ, as
in the overlapping writes and after the one-beat write. `CheckersKeepUp`: where the checkers
stand when the driver has its answer.

## 6. Plan

1. *Done:* FIFO (abstract, detailed, Gray code, proofs); arbiter; APB side; proofs of
   its pins, buffers and bursts.
2. *Done:* `X2pBridge` with the theorems carried over from its parts; the power
   counters.
3. *Done:* the agents, the scoreboard, the coverage and the memory they must
   make together (`Testbench` against `AxiMemory`).
4. *Done:* addresses, writes, answers and types of the APB side; the traffic of the
   bridge and the power counters.
5. *Done:* the APB side's theorems inside the bridge, and from them the way of each
   burst (`ResponsesAnswerWrites`, `BeatsAnswerReads`, `NothingLeftOver`).
6. *Done:* the environment's processes around the bridge (`HandleIsTheBurst`,
   `AnswersAreMet`, `EverythingIsChecked`, `NoFalseAlarm`), and the Gray code at every depth.
7. To come, proofs: `AsyncFifo` put in the place of each `Fifo` of the bridge, so that
   the theorems speak of the pointer machines without the step between; `ImplementsMemory`.
8. To come, models: an AXI side wider than the APB side (`apb_wd_sel`,
   `last_strobes`, `s_packer`'s shift), a configuration the RTL supports and this
   testbench does not build.

## 7. Not modelled

* `_endian*`, `_bcm99`: not instantiated by this configuration. The macros of
  `_cc_constants` are the constants of the `.cfg` files.
* `src/sim`: what the simulator wrote when it compiled the testbench (`rmapats.c`,
  `vc_hdrs.h`, `_vcs_pli_stub_.c`, `import_dpic.h` and the like: stub tables,
  prototypes and net maps of the tool) and its logs. These C files hold no behaviour of
  the bridge or of its testbench, so nothing is modelled from them; the system is
  the Verilog and SystemVerilog of the other directories.
* Wider AXI data than APB data; a reset of one clock domain alone; a reset in
  the middle of traffic (the testbench resets once, before it starts).
* A second item of the clock agent, which would start a second process toggling the
  same clock; the shipped sequence sends one. Clock periods: any order of edges is
  covered.
* Assertions P5 to P9 sample the APB pins on the AXI clock. `ApbBus` states the protocol
  on `pclk`, where it holds for every pair of clocks.
* The driver writes read data into an array the sequence sized, which drops beats past its
  end; `answers` keeps them all.
* Random constraints of the sequences: the models take any series of bursts from the
  listed sets instead. UVM phases, factory, reporting and configuration.
