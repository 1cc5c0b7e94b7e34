--------------------------- MODULE ApbSideProofs ---------------------------
(***************************************************************************)
(* Facts about the APB side that hold for every map, every set of commands  *)
(* and every burst length.  The first part is control: the pins keep the    *)
(* APB protocol, a push decided one cycle ahead never meets a full read     *)
(* buffer, a delayed response leaves in the first idle cycle, and nothing   *)
(* is mixed up between one burst and the next: the words popped are those   *)
(* of the burst in hand, the beats pushed are all of it, in order, the last *)
(* one marked.                                                              *)
(* The second part is addresses and data: each access is made at the AXI     *)
(* address of its beat, a bad beat and those after it fail, the APB writes  *)
(* are those the words ask for and no others, and a write response tells     *)
(* what became of them.  That part leaves out the burst type AXI reserves;   *)
(* every register stays in its range, that type included.                   *)
(***************************************************************************)
EXTENDS ApbSide, ApbMasterProofs, WellFoundedInduction, FiniteSetTheorems

----------------------------------------------------------------------------
(* Steps.  What follows asks little of the partners: anything may come with  *)
(* an edge or between two, as long as what is shown stays until it is taken  *)
(* and only a push fills a buffer.  The queues of the whole bridge, whose    *)
(* news arrive with the edges, are such partners too.                       *)

PinsKeep(takesCmd, takesWord, answers, pushes) ==
  /\ (cmdReady /\ ~takesCmd) => cmdReady' /\ cmd' = cmd
  /\ (wordReady /\ ~takesWord) => wordReady'
  /\ respFull' => respFull \/ answers
  /\ readFull' => readFull \/ pushes

\* An edge of this clock, and anything else.
Tick ==
  /\ Edge /\ HistoryFollows
  /\ PinsKeep(PopCmdQueue, PopWriteBuff, PushResponse, PushReadBuffer)
Meanwhile == UNCHANGED <<registers, history>> /\ PinsKeep(FALSE, FALSE, FALSE, FALSE)

LEMMA ClockTicks == Clock => Tick
BY DEF Clock, BuffersFollow, Tick, PinsKeep

LEMMA StepsAre == [Next]_vars => Tick \/ Meanwhile
<1> SUFFICES ASSUME [Next]_vars, ~Clock PROVE Meanwhile
  BY ClockTicks
<1> USE DEF Meanwhile, PinsKeep, registers, history
<1>1. CASE CommandArrives \/ WordArrives
  BY <1>1 DEF CommandArrives, WordArrives
<1>2. CASE RespDrains \/ ReadDrains
  BY <1>2 DEF RespDrains, ReadDrains
<1>3. CASE UNCHANGED vars
  BY <1>3 DEF vars, pins
<1> QED
  BY <1>1, <1>2, <1>3 DEF Next

\* The state at reset; what a slave may show then does not matter.
AtReset ==
  /\ Reset
  /\ cmd = ResetCmd /\ cmdReady = FALSE
  /\ word = ResetWord /\ wordReady = FALSE
  /\ respFull = FALSE /\ readFull = FALSE
  /\ owner = ResetCmd /\ popped = <<>> /\ writes = <<>> /\ served = 1

LEMMA InitResets == Init => AtReset
BY DEF Init, AtReset

----------------------------------------------------------------------------
(* The pins and the buffers.                                                *)

\* What the control state says of the other registers.
PushInv == pushReadReg => state \in {"RSEL", "PREPURGE", "IDLE"} /\ ~readFull
ResponseInv == dlydResp => state = "IDLE" /\ ~respFull
StateInv == state \in States

MasterInv == StateInv /\ SelectsDecoded /\ PushInv /\ ResponseInv

LEMMA MasterInit == AtReset => MasterInv
BY DEF AtReset, Reset, MasterInv, StateInv, SelectsDecoded, PushInv, ResponseInv, States, Selecting

LEMMA TickKeepsDecoded == MasterInv /\ Tick => SelectsDecoded'
<1> SUFFICES ASSUME MasterInv, Tick PROVE SelectsDecoded'
  OBVIOUS
<1>1. Edge /\ SelectsDecoded
  BY DEF Tick, MasterInv
<1>2. SelectsDecoded'
  BY <1>1, EdgeDecodes
<1> QED
  BY <1>2

LEMMA TickKeepsPushInv == MasterInv /\ Tick => PushInv'
<1> SUFFICES ASSUME MasterInv, Tick, pushReadReg'
             PROVE  state' \in {"RSEL", "PREPURGE", "IDLE"} /\ ~readFull'
  BY DEF PushInv
<1> USE DEF MasterInv
<1>1. Edge /\ NextPushRead
  BY StateMoves DEF Tick, Registers, ControlRegisters
<1>2. ~readFull /\ state \in {"REN", "RBUFWT"}
  BY <1>1 DEF NextPushRead
<1>3. ~PushReadBuffer
  BY <1>2 DEF PushReadBuffer, PushInv
<1>4. ~readFull'
  BY <1>2, <1>3 DEF Tick, PinsKeep
<1> QED
  BY <1>1, <1>2, <1>4, StateMoves

LEMMA TickKeepsResponseInv == MasterInv /\ Tick => ResponseInv'
<1> SUFFICES ASSUME MasterInv, Tick, dlydResp'
             PROVE  state' = "IDLE" /\ ~respFull'
  BY DEF ResponseInv
<1> USE DEF MasterInv
<1>1. Edge /\ dlydResp' = IF PushResponse THEN FALSE ELSE dlydResp \/ PushRspRequest
  BY StateMoves DEF Tick, Registers, ResponseRegisters
<1>2. ~PushResponse /\ PushRspRequest
  BY <1>1 DEF PushResponse, ResponseInv
<1>3. state = "WRESP" /\ ~respFull
  BY <1>2 DEF PushRspRequest
<1>4. ~respFull'
  BY <1>2, <1>3 DEF Tick, PinsKeep
<1> QED
  BY <1>1, <1>3, <1>4, StateMoves

LEMMA MasterKept == MasterInv /\ (Tick \/ Meanwhile) => MasterInv'
<1> SUFFICES ASSUME MasterInv, Tick \/ Meanwhile PROVE MasterInv'
  OBVIOUS
<1>1. CASE Tick
  <2>1. StateInv'
    BY <1>1, StateMoves DEF Tick, StateInv
  <2> QED
    BY <1>1, <2>1, TickKeepsDecoded, TickKeepsPushInv, TickKeepsResponseInv DEF MasterInv
<1>2. CASE Meanwhile
  BY <1>2 DEF Meanwhile, PinsKeep, registers, MasterInv, StateInv, SelectsDecoded, PushInv,
              ResponseInv, Decode
<1> QED
  BY <1>1, <1>2

LEMMA MasterStep == MasterInv /\ [Next]_vars => MasterInv'
BY MasterKept, StepsAre

THEOREM MasterInvariant == Spec => []MasterInv
BY InitResets, MasterInit, MasterStep, PTL DEF Spec

\* A push into the read buffer, decided a cycle before it is made, finds room.
THEOREM PushFindsRoom == Spec => []NoPushOnFull
<1>1. MasterInv => NoPushOnFull
  BY DEF MasterInv, PushInv, NoPushOnFull, PushReadBuffer
<1> QED
  BY <1>1, MasterInvariant, PTL

\* A write response that was requested is pushed in the next cycle, before the
\* next command can replace its ID.
THEOREM ResponseIsPrompt == Spec => []ResponseNeverWaits
<1>1. MasterInv => ResponseNeverWaits
  BY DEF MasterInv, ResponseInv, ResponseNeverWaits
<1> QED
  BY <1>1, MasterInvariant, PTL

----------------------------------------------------------------------------
(* The pins toward the slaves: every step of the bridge is a step of the    *)
(* APB protocol or leaves the pins alone.                                  *)

LEMMA PinsInit == Init => Bus!Init
BY DEF Init, Reset, Bus!Init, Bus!Idle, PselOut, Penable

LEMMA EdgeStepsBus == MasterInv /\ MasterInv' /\ Edge => Bus!Next
<1> SUFFICES ASSUME MasterInv, MasterInv', Edge PROVE Bus!Next
  OBVIOUS
<1>1. SelectsDecoded /\ SelectsDecoded' /\ Edge
  BY DEF MasterInv
<1> QED
  BY <1>1, EdgeOfPins
  DEF Bus!Next, Bus!Access, Bus!StartTransfer, Bus!Release, Bus!Setup, Bus!Idle, Decode

LEMMA OthersLeaveBus ==
  CommandArrives \/ WordArrives \/ RespDrains \/ ReadDrains \/ UNCHANGED vars
    => UNCHANGED Bus!busVars
BY DEF CommandArrives, WordArrives, RespDrains, ReadDrains, vars, registers,
       Bus!busVars, PselOut, Penable, Pwrite

\* The select, enable, address and data pins follow the APB protocol in every
\* behaviour: setup then access of one transfer, stable, and at the slave the
\* address decodes to.
THEOREM ApbFollowed == Spec => FollowsApb
<1>1. MasterInv /\ MasterInv' /\ [Next]_vars => [Bus!Next]_(Bus!busVars)
  BY EdgeStepsBus, OthersLeaveBus DEF Next, Clock
<1> QED
  BY <1>1, PinsInit, MasterInvariant, PTL DEF Spec, FollowsApb, Bus!Spec
----------------------------------------------------------------------------
(* The command in hand.                                                     *)

\* The command at the queue's output is the one in hand until it is popped, and the
\* states tell its kind.
Owned ==
  /\ {cmd, owner} \subseteq Commands \cup {ResetCmd}
  /\ state \in States /\ cmdReady \in BOOLEAN
  /\ state # "IDLE" => cmdReady /\ cmd = owner
  /\ state \in ReadStates => ~owner.write
  /\ state \in WriteStates => owner.write

LEMMA CommandFields ==
  ASSUME NEW c \in Commands \cup {ResetCmd}
  PROVE  /\ c.write \in BOOLEAN /\ c.len \in Nat
         /\ 2 ^ LenWidth \in Int /\ (c.len # 0 => c.len < 2 ^ LenWidth)
<1>1. 2 ^ LenWidth \in Int
  BY LenWidthAssumption
<1>2. CASE c = ResetCmd
  BY <1>1, <1>2 DEF ResetCmd
<1>3. CASE c \in Commands
  <2>1. c \in [write: BOOLEAN, burst: {FIXED, INCR, WRAP, RESERVED}, size: {0, 1, 2},
               len: 0 .. 2 ^ LenWidth - 1, id: Nat, addr: 0 .. AddrSpace - 1]
    BY <1>3, CommandsAssumption
  <2> QED
    BY <1>1, <2>1
<1> QED
  BY <1>2, <1>3

LEMMA OwnedInHand == Owned => CmdInHand
<1> SUFFICES ASSUME Owned PROVE CmdInHand
  OBVIOUS
<1>1. cmd.write \in BOOLEAN
  BY CommandFields DEF Owned
<1> QED
  <2>1. state # "IDLE" => cmdReady /\ cmd = owner
    BY DEF Owned
  <2>2. (state \in ReadStates => ~owner.write) /\ (state \in WriteStates => owner.write)
    BY DEF Owned
  <2>3. state \in ReadStates \cup WriteStates => state # "IDLE"
    BY DEF ReadStates, WriteStates
  <2>4. state \in States /\ cmdReady \in BOOLEAN
    BY DEF Owned
  <2> QED
    BY <1>1, <2>1, <2>2, <2>3, <2>4 DEF CmdInHand

LEMMA OwnedInit == AtReset => Owned
BY DEF AtReset, Reset, Owned, States, ReadStates, WriteStates

\* The queue's output, whether it is shown or not.
CmdTyped == cmd \in Commands \cup {ResetCmd} /\ cmdReady \in BOOLEAN

LEMMA TickKeepsOwned == ASSUME Owned, Tick, CmdTyped' PROVE Owned'
<1>1. /\ Edge /\ HistoryFollows
      /\ (cmdReady /\ ~PopCmdQueue) => cmdReady' /\ cmd' = cmd
  BY DEF Tick, PinsKeep
<1>2. state' \in States
  BY <1>1, StateMoves
<1>3. {cmd', owner'} \subseteq Commands \cup {ResetCmd} /\ cmdReady' \in BOOLEAN
  BY <1>1 DEF CmdTyped, HistoryFollows, Owned
<1>4. CASE state = "IDLE"
  BY <1>1, <1>2, <1>3, <1>4, OwnedInHand, Path
  DEF HistoryFollows, Owned, Starts, ReadStates, WriteStates
<1>5. CASE state # "IDLE"
  <2>1. owner' = owner
    BY <1>1, <1>5 DEF HistoryFollows, Starts
  <2>2. state' # "IDLE" => cmd' = cmd /\ cmdReady'
    BY <1>1, <1>5, OwnedInHand, Path DEF Owned
  <2>3. state \in ReadStates \cup WriteStates \cup {"PURGE"}
    BY <1>5 DEF Owned, States, ReadStates, WriteStates
  <2> QED
    BY <1>1, <1>2, <1>3, <1>5, <2>1, <2>2, <2>3, OwnedInHand, Path DEF Owned, ReadStates, WriteStates
<1> QED
  BY <1>4, <1>5

LEMMA OwnedKept ==
  ASSUME Owned, Tick \/ Meanwhile, CmdTyped'
  PROVE  Owned'
<1>1. CASE Tick
  BY <1>1, TickKeepsOwned
<1>2. CASE Meanwhile
  BY <1>2 DEF Meanwhile, PinsKeep, Owned, CmdTyped, registers, history
<1> QED
  BY <1>1, <1>2

LEMMA CmdStaysTyped == Owned /\ [Next]_vars => CmdTyped'
<1> SUFFICES ASSUME Owned, [Next]_vars PROVE CmdTyped'
  OBVIOUS
<1> USE DEF Owned, CmdTyped
<1>1. CASE Clock
  BY <1>1 DEF Clock, BuffersFollow
<1>2. CASE CommandArrives \/ WordArrives
  BY <1>2 DEF CommandArrives, WordArrives
<1>3. CASE RespDrains \/ ReadDrains
  BY <1>3 DEF RespDrains, ReadDrains
<1>4. CASE UNCHANGED vars
  BY <1>4 DEF vars, pins
<1> QED
  BY <1>1, <1>2, <1>3, <1>4 DEF Next

LEMMA OwnedStep == Owned /\ [Next]_vars => Owned'
BY OwnedKept, CmdStaysTyped, StepsAre

----------------------------------------------------------------------------
(* The beats of a read.                                                     *)

Pushing == IF pushReadReg THEN 1 ELSE 0

\* The counter counts the beats the read buffer has been given or is being given;
\* once the control is back in IDLE that is all of them.  An error is only
\* remembered for a purge, and a purge marks every beat.
BeatInv ==
  /\ served \in Nat /\ pushReadReg \in BOOLEAN /\ lastPushRead \in BOOLEAN
  /\ pushReadReg => ~owner.write
  /\ (state \in ReadStates \/ (state = "PURGE" /\ ~owner.write)) =>
       beat = served + Pushing /\ beat <= owner.len
  /\ (state = "IDLE" /\ ~owner.write) => served + Pushing = owner.len + 1

ReadInv == MasterInv /\ Owned /\ BeatInv

LEMMA BeatInit == AtReset => BeatInv
<1> SUFFICES ASSUME AtReset PROVE BeatInv
  OBVIOUS
<1>1. /\ state = "IDLE" /\ pushReadReg = FALSE /\ lastPushRead = FALSE
      /\ served = 1 /\ owner = ResetCmd
  BY DEF AtReset, Reset
<1>2. owner.len = 0 /\ Pushing = 0
  BY <1>1 DEF ResetCmd, Pushing
<1>3. served \in Nat /\ lastPushRead \in BOOLEAN /\ pushReadReg \in BOOLEAN /\ ~pushReadReg
  BY <1>1
<1>4. state \notin ReadStates \cup {"PURGE"}
  BY <1>1 DEF ReadStates
<1>5. served + Pushing = owner.len + 1
  BY <1>1, <1>2
<1> QED
  BY <1>3, <1>4, <1>5 DEF BeatInv

LEMMA TickKeepsBeats == ASSUME ReadInv, Tick PROVE BeatInv'
<1> USE DEF ReadInv
<1>1. Edge /\ Registers /\ HistoryFollows /\ ControlRegisters
  BY StateMoves DEF Tick, Registers
<1>2. /\ pushReadReg' = NextPushRead /\ beat' = NextBeat /\ lastPushRead' = NextLastPushRead
      /\ served' = IF Starts THEN 0 ELSE IF PushReadBuffer THEN served + 1 ELSE served
      /\ owner' = IF Starts THEN cmd ELSE owner
  BY <1>1 DEF ControlRegisters, HistoryFollows
<1>3. cmd.write \in BOOLEAN /\ cmd.len \in Nat /\ owner.write \in BOOLEAN /\ owner.len \in Nat
  BY CommandFields DEF Owned
<1>4. pushReadReg' \in BOOLEAN /\ lastPushRead' \in BOOLEAN /\ served' \in Nat
  BY <1>2 DEF NextPushRead, NextLastPushRead, BeatInv
<1>5. CASE state = "IDLE"
  <2>1. ~pushReadReg' /\ PushReadBuffer = pushReadReg /\ beat' = 0
    BY <1>2, <1>5 DEF NextPushRead, PushReadBuffer, NextBeat
  <2>2. CASE ~cmdReady
    <3>1. state' = "IDLE" /\ owner' = owner /\ served' = served + Pushing
      BY <1>1, <1>2, <1>5, <2>1, <2>2, OwnedInHand, Path DEF Starts, Pushing, BeatInv
    <3> QED
      BY <1>4, <1>5, <2>1, <3>1 DEF BeatInv, Pushing, ReadStates
  <2>3. CASE cmdReady
    <3>1. owner' = cmd /\ served' = 0 /\ state' # "IDLE"
      BY <1>1, <1>2, <1>5, <2>3, OwnedInHand, Path DEF Starts
    <3> QED
      BY <1>3, <1>4, <2>1, <3>1 DEF BeatInv, Pushing
  <2> QED
    BY <2>2, <2>3 DEF Owned
<1>6. CASE state \in WriteStates \/ (state = "PURGE" /\ owner.write)
  <2>1. owner' = owner /\ cmd = owner /\ owner.write
    BY <1>2, <1>6 DEF Starts, Owned, WriteStates
  <2>2. ~pushReadReg' /\ state' \notin ReadStates
    BY <1>1, <1>2, <1>6, <2>1, OwnedInHand, Path DEF NextPushRead, WriteStates, ReadStates
  <2> QED
    BY <1>4, <2>1, <2>2 DEF BeatInv
<1>7. CASE state \in ReadStates \/ (state = "PURGE" /\ ~owner.write)
  <2>1. owner' = owner /\ cmd = owner /\ ~owner.write /\ state # "IDLE"
    BY <1>2, <1>7 DEF Starts, Owned, ReadStates
  <2>2. beat = served + Pushing /\ beat <= owner.len /\ beat \in Nat /\ served \in Nat
    BY <1>7 DEF BeatInv, Pushing
  <2>3. beat # owner.len => (beat + 1) % 2 ^ LenWidth = beat + 1
    <3>1. 2 ^ LenWidth \in Int /\ (owner.len # 0 => owner.len < 2 ^ LenWidth)
      BY CommandFields DEF Owned
    <3> HIDE DEF ReadInv
    <3> QED
      BY <1>3, <2>2, <3>1
  <2>4. CASE state \in {"REN", "RBUFWT"}
    <3>1. ~pushReadReg /\ ~PushReadBuffer
      BY <2>4 DEF MasterInv, PushInv, PushReadBuffer
    <3>2. CASE readFull
      <4>1. ~pushReadReg' /\ served' = served /\ beat' = beat
        BY <1>2, <2>1, <2>4, <3>1, <3>2 DEF NextPushRead, NextBeat, Starts
      <4>2. state' # "IDLE"
        BY <1>1, <2>1, <2>4, <3>2, OwnedInHand, Path DEF PopCmdQueue, PushRspRequest
      <4> QED
        BY <1>4, <2>1, <2>2, <3>1, <4>1, <4>2 DEF BeatInv, Pushing
    <3>3. CASE ~readFull
      <4>1. /\ pushReadReg' /\ served' = served /\ beat' = (beat + 1) % 2 ^ LenWidth
            /\ state' # "PURGE"
        BY <1>1, <1>2, <2>1, <2>4, <3>1, <3>3, StateMoves DEF NextPushRead, NextBeat, Starts
      <4>2. state' = "IDLE" <=> beat = owner.len
        BY <1>1, <2>1, <2>4, <3>3, OwnedInHand, Path DEF PopCmdQueue, PushRspRequest, LastBeat, Owned
      <4> QED
        BY <1>3, <1>4, <2>1, <2>2, <2>3, <3>1, <4>1, <4>2 DEF BeatInv, Pushing, ReadStates
    <3> QED
      BY <3>2, <3>3
  <2>5. CASE state \in {"RSEL", "NREN", "PREPURGE"}
    <3>0. ~NextPushRead /\ NextBeat = beat /\ ~Starts /\ PushReadBuffer = pushReadReg
      BY <2>5 DEF NextPushRead, NextBeat, Starts, PushReadBuffer
    <3>1. ~pushReadReg' /\ beat' = beat /\ served' = served + Pushing
      BY <1>2, <3>0 DEF Pushing, BeatInv
    <3>2. state' # "IDLE"
      BY <1>1, <2>5, OwnedInHand, Path DEF PopCmdQueue, PushRspRequest
    <3> QED
      BY <1>4, <2>1, <2>2, <3>1, <3>2 DEF BeatInv, Pushing
  <2>6. CASE state = "PURGE" /\ ~owner.write
    <3>1. ~pushReadReg /\ (PushReadBuffer <=> ~readFull) /\ ~pushReadReg'
      BY <1>2, <2>1, <2>6 DEF MasterInv, PushInv, PushReadBuffer, NextPushRead
    <3>2. CASE readFull
      <4>1. served' = served /\ beat' = beat /\ state' # "IDLE"
        BY <1>1, <1>2, <2>1, <2>6, <3>1, <3>2, OwnedInHand, Path
        DEF NextBeat, NextPushRead, Starts, PopCmdQueue, PushRspRequest
      <4> QED
        BY <1>4, <2>1, <2>2, <3>1, <4>1 DEF BeatInv, Pushing
    <3>3. CASE ~readFull
      <4>1. served' = served + 1 /\ beat' = (beat + 1) % 2 ^ LenWidth
        BY <1>2, <2>1, <2>6, <3>1, <3>3 DEF NextBeat, Starts
      <4>2. state' = "IDLE" <=> beat = owner.len
        BY <1>1, <2>1, <2>6, <3>3, OwnedInHand, Path DEF PopCmdQueue, PushRspRequest, LastBeat, Owned
      <4>3. Pushing = 0 /\ Pushing' = 0
        BY <3>1 DEF Pushing
      <4>4. CASE state' = "IDLE"
        <5>1. served' + Pushing' = owner'.len + 1
          BY <1>3, <2>1, <2>2, <4>1, <4>2, <4>3, <4>4
        <5>2. state' \notin ReadStates \cup {"PURGE"}
          BY <4>4 DEF ReadStates
        <5> QED
          BY <1>4, <3>1, <5>1, <5>2 DEF BeatInv
      <4>5. CASE state' # "IDLE"
        <5>1. beat' = served' + Pushing' /\ beat' <= owner'.len
          BY <1>3, <2>1, <2>2, <2>3, <4>1, <4>2, <4>3, <4>5
        <5> QED
          BY <1>4, <3>1, <4>5, <5>1 DEF BeatInv
      <4> QED
        BY <4>4, <4>5
    <3> QED
      BY <3>2, <3>3
  <2> QED
    BY <1>7, <2>4, <2>5, <2>6 DEF ReadStates
<1> QED
  BY <1>5, <1>6, <1>7, CommandFields DEF Owned, States, ReadStates, WriteStates

LEMMA ReadKept ==
  ASSUME ReadInv, Tick \/ Meanwhile, CmdTyped'
  PROVE  ReadInv'
<1>1. CASE Tick
  BY <1>1, TickKeepsBeats, MasterKept, OwnedKept DEF ReadInv
<1>2. CASE Meanwhile
  <2>1. BeatInv'
    BY <1>2 DEF Meanwhile, ReadInv, BeatInv, Pushing, registers, history
  <2> QED
    BY <1>2, <2>1, MasterKept, OwnedKept DEF ReadInv
<1> QED
  BY <1>1, <1>2

LEMMA ReadStep == ReadInv /\ [Next]_vars => ReadInv'
BY ReadKept, CmdStaysTyped, StepsAre DEF ReadInv

\* A read command is left only when every beat of it is in the read buffer or
\* being pushed there in the first idle cycle, purged or not.
THEOREM ReadsAreComplete == Spec => []ReadIsComplete
<1>1. Init => ReadInv
  BY InitResets, MasterInit, OwnedInit, BeatInit DEF ReadInv
<1>2. ReadInv => ReadIsComplete
  BY DEF ReadInv, BeatInv, ReadIsComplete, PushReadBuffer, Pushing
<1> QED
  BY <1>1, <1>2, ReadStep, PTL DEF Spec
----------------------------------------------------------------------------
(* The words of a write.                                                    *)

IssuedWords == [data : Int, strobes : Strobes \cup {"none"}, last : BOOLEAN]

\* The word at the buffer's output is the next one of the burst in hand, or of the
\* one whose command waits.
WordFits ==
  /\ word \in IssuedWords /\ wordReady \in BOOLEAN
  /\ (wordReady /\ Unfinished) =>
       word.data = Len(popped) /\ (word.last <=> Len(popped) = owner.len)
  /\ (wordReady /\ Waiting) => (word.last <=> cmd.len = 0)

WordInv == WordFits /\ wordReg \in IssuedWords /\ popped \in Seq(Strobes \cup {"none"})

InHand == state \in {"WSEL", "WEN", "NWSEL", "NWEN", "WDTWT"} \/ (state = "PURGE" /\ owner.write)

\* The word register tells whether the burst is drained, and the control's own copy
\* of its last flag agrees where it decides on a pop or on the end.
DrainInv ==
  /\ state = "WTSTART" => popped = <<>>
  /\ InHand => /\ Len(popped) \in 1 .. owner.len + 1
               /\ wordReg.last <=> Len(popped) = owner.len + 1
  /\ state = "WDTWT" => ~wordReg.last
  /\ state \in {"WSEL", "NWSEL"} => (writeLastReg <=> wordReg.last)
  /\ (state \in {"WEN", "NWEN"} /\ popRequest /\ ~writeLastReg /\ writeBuffEmpty)
       => ~wordReg.last

WriteInv == Owned /\ WordInv /\ DrainInv

LEMMA WriteInit == AtReset => WordInv /\ DrainInv
<1> SUFFICES ASSUME AtReset PROVE WordInv /\ DrainInv
  OBVIOUS
<1>1. /\ state = "IDLE" /\ word = ResetWord /\ wordReg = ResetWord /\ wordReady = FALSE
      /\ popped = <<>>
  BY DEF AtReset, Reset
<1>2. ResetWord \in IssuedWords
  BY DEF ResetWord, IssuedWords, NoData
<1>3. WordInv
  <2>1. word \in IssuedWords /\ wordReg \in IssuedWords
    BY <1>1, <1>2
  <2>2. wordReady \in BOOLEAN /\ ~wordReady
    BY <1>1
  <2>3. popped \in Seq(Strobes \cup {"none"})
    BY <1>1
  <2> QED
    BY <2>1, <2>2, <2>3 DEF WordInv, WordFits
<1>4. DrainInv
  BY <1>1 DEF DrainInv, InHand
<1> QED
  BY <1>3, <1>4

LEMMA WriteMoves ==
  ASSUME Edge
  PROVE  /\ state = "WSEL" => state' = "WEN"
         /\ state = "NWSEL" => state' = "NWEN"
         /\ state = "WDTWT" => state' = IF wordReady THEN "NWEN" ELSE "WDTWT"
         /\ state = "WTSTART" => state' = IF wordReady THEN "NWEN" ELSE "WTSTART"
         /\ state = "WRESP" => state' \in {"WRESP", "IDLE"}
         /\ state \in {"WEN", "NWEN"} => state' = AfterWrite
BY DEF Edge, Idle, Purge, WSel, WEn, NWSel, NWEn, WDtWt, WtStart, WResp,
       RSel, REn, NREn, PrePurge, RBufWt

LEMMA AfterWriteLands ==
  /\ AfterWrite \in {"WRESP", "WDTWT", "WSEL", "NWSEL", "PURGE"}
  /\ AfterWrite = "WDTWT" =>
       (popRequest /\ ~writeLastReg /\ writeBuffEmpty) \/ ~wordReg.last
BY DEF AfterWrite, CheckOnStrobes

\* A pop outside of IDLE is one the burst in hand still has a word for.
LEMMA PopsUnfinished ==
  ASSUME WriteInv, PopWriteBuff, state # "IDLE"
  PROVE  Unfinished /\ wordReady /\ Len(popped) \in Nat /\ owner.len \in Nat
<1> USE DEF WriteInv
<1>1. cmd = owner /\ owner.write /\ owner.len \in Nat /\ wordReady
  BY CommandFields DEF Owned, PopWriteBuff
<1>2. Len(popped) \in Nat
  BY DEF WordInv
<1>3. CASE state = "WTSTART"
  <2>1. Len(popped) = 0
    BY <1>3 DEF DrainInv
  <2> QED
    BY <1>1, <2>1 DEF Unfinished
<1>4. CASE state # "WTSTART"
  <2>1. InHand /\ ~wordReg.last
    BY <1>1, <1>4 DEF PopWriteBuff, DrainInv, InHand
  <2>2. Len(popped) \in 1 .. owner.len + 1 /\ Len(popped) # owner.len + 1
    BY <2>1 DEF DrainInv
  <2> QED
    BY <1>1, <1>2, <2>2 DEF Unfinished
<1> QED
  BY <1>3, <1>4

\* What an edge does to the words, out of IDLE.
LEMMA WordsMove ==
  ASSUME WriteInv, Tick, state # "IDLE"
  PROVE  /\ owner' = owner
         /\ PopWriteBuff => /\ Len(popped') = Len(popped) + 1
                            /\ Len(popped') \in 1 .. owner.len + 1
                            /\ wordReg'.last <=> Len(popped') = owner.len + 1
                            /\ ~writeBuffEmpty'
         /\ ~PopWriteBuff => popped' = popped /\ wordReg' = wordReg
<1>1. Registers /\ HistoryFollows
  BY StateMoves DEF Tick
<1>2. owner' = owner /\ popped' = popped \o (IF PopWriteBuff THEN <<word.strobes>> ELSE <<>>)
  BY <1>1 DEF HistoryFollows, Starts
<1>3. /\ popped \in Seq(Strobes \cup {"none"}) /\ word.strobes \in Strobes \cup {"none"}
      /\ word.last \in BOOLEAN
  BY DEF WriteInv, WordInv, WordFits, IssuedWords
<1>4. /\ wordReg' = IF PopWriteBuff THEN word ELSE wordReg
      /\ PopWriteBuff => ~writeBuffEmpty'
  BY <1>1 DEF Registers, DataRegisters, ControlRegisters, NextWriteBuffEmpty
<1>5. CASE PopWriteBuff
  <2>1. popped' = Append(popped, word.strobes)
    BY <1>2, <1>3, <1>5
  <2>2. Len(popped') = Len(popped) + 1
    BY <1>3, <2>1
  <2>3. Unfinished /\ wordReady /\ Len(popped) \in Nat /\ owner.len \in Nat
    BY <1>5, PopsUnfinished
  <2>4. word.last <=> Len(popped) = owner.len
    BY <2>3 DEF WriteInv, WordInv, WordFits
  <2> QED
    BY <1>2, <1>4, <1>5, <2>2, <2>3, <2>4 DEF Unfinished
<1>6. CASE ~PopWriteBuff
  BY <1>2, <1>3, <1>4, <1>6
<1> QED
  BY <1>2, <1>5, <1>6

LEMMA TickKeepsPopped ==
  ASSUME WriteInv, Tick
  PROVE  wordReg' \in IssuedWords /\ popped' \in Seq(Strobes \cup {"none"})
<1> USE DEF WriteInv
<1>1. Registers /\ HistoryFollows
  BY StateMoves DEF Tick
<1>2. wordReg' \in IssuedWords
  BY <1>1 DEF WordInv, WordFits, Registers, DataRegisters
<1>3. popped' \in Seq(Strobes \cup {"none"})
  <2> DEFINE S == Strobes \cup {"none"}
             before == IF Starts THEN <<>> ELSE popped
             new == IF PopWriteBuff THEN <<word.strobes>> ELSE <<>>
  <2>1. before \in Seq(S)
    BY DEF WordInv
  <2>2. new \in Seq(S)
    <3>1. word.strobes \in S
      BY DEF WordInv, WordFits, IssuedWords
    <3> HIDE DEF S
    <3> QED
      BY <3>1
  <2>3. popped' = before \o new
    BY <1>1 DEF HistoryFollows
  <2> HIDE DEF before, new
  <2> QED
    BY <2>1, <2>2, <2>3
<1> QED
  BY <1>2, <1>3

\* In ApbSide no new word and no new command come with the edge.
LEMMA ClockKeepsFits == ASSUME WriteInv, Clock PROVE WordFits'
<1> USE DEF WriteInv
<1>1. Edge /\ Tick /\ BuffersFollow /\ HistoryFollows
  BY ClockTicks DEF Clock
<1>2. word' = word /\ wordReady' = (wordReady /\ ~PopWriteBuff)
  BY <1>1 DEF BuffersFollow
<1>3. word' \in IssuedWords /\ wordReady' \in BOOLEAN
  BY <1>1, <1>2 DEF WordInv, WordFits
<1>4. ASSUME wordReady', Unfinished' PROVE Unfinished /\ popped' = popped /\ owner' = owner
  <2>1. wordReady /\ ~PopWriteBuff /\ state' # "IDLE" /\ owner'.write
    BY <1>2, <1>4 DEF Unfinished
  <2>2. state # "IDLE"
    BY <1>1, <2>1, OwnedInHand, Path DEF PopWriteBuff, HistoryFollows, Starts
  <2>3. owner' = owner /\ popped' = popped
    BY <1>1, <2>1, <2>2, WordsMove
  <2> QED
    BY <1>4, <2>2, <2>3 DEF Unfinished
<1>5. ~Waiting'
  <2>1. state = "IDLE" => (state' # "IDLE" \/ ~cmdReady')
    BY <1>1, OwnedInHand, Path DEF BuffersFollow
  <2>2. (state # "IDLE" /\ state' = "IDLE") => ~cmdReady'
    BY <1>1, OwnedInHand, Path DEF BuffersFollow
  <2> QED
    BY <2>1, <2>2 DEF Waiting
<1> QED
  BY <1>2, <1>3, <1>4, <1>5 DEF WordInv, WordFits

LEMMA TickKeepsDrain == ASSUME WriteInv, Tick PROVE DrainInv'
<1> USE DEF WriteInv
<1>1. Edge /\ Registers /\ HistoryFollows
  BY StateMoves DEF Tick
<1>2. cmd.write \in BOOLEAN /\ owner.write \in BOOLEAN /\ cmd.len \in Nat /\ owner.len \in Nat
  BY CommandFields DEF Owned
<1>3. CASE state = "IDLE"
  <2>1. CASE ~cmdReady \/ ~cmd.write
    <3>1. state' = "IDLE" \/ (state' \in {"NREN", "PURGE"} /\ ~owner'.write)
      BY <1>1, <1>3, <2>1, OwnedInHand, Path DEF HistoryFollows, Starts
    <3> QED
      BY <3>1 DEF DrainInv, InHand
  <2>2. CASE cmdReady /\ cmd.write /\ ~wordReady
    <3>1. state' = "WTSTART"
      BY <1>1, <1>3, <2>2, OwnedInHand, Path
    <3>2. popped' = <<>>
      BY <1>1, <1>3, <2>2 DEF HistoryFollows, Starts, PopWriteBuff
    <3> QED
      BY <3>1, <3>2 DEF DrainInv, InHand
  <2>3. CASE cmdReady /\ cmd.write /\ wordReady
    <3>1. state' = "NWEN" /\ PopWriteBuff /\ owner' = cmd
      BY <1>1, <1>3, <2>3, OwnedInHand, Path DEF HistoryFollows, Starts, PopWriteBuff
    <3>2. popped' = <<word.strobes>> /\ Len(popped') = 1
      BY <1>1, <1>3, <2>3, <3>1 DEF HistoryFollows, Starts
    <3>3. wordReg' = word /\ ~writeBuffEmpty'
      BY <1>1, <3>1 DEF Registers, DataRegisters, ControlRegisters, NextWriteBuffEmpty
    <3>4. word.last <=> cmd.len = 0
      BY <1>3, <2>3 DEF WordInv, WordFits, Waiting
    <3>5. Len(popped') \in 1 .. owner'.len + 1 /\ (wordReg'.last <=> Len(popped') = owner'.len + 1)
      BY <1>2, <3>1, <3>2, <3>3, <3>4
    <3> QED
      BY <3>1, <3>3, <3>5 DEF DrainInv, InHand
  <2> QED
    BY <2>1, <2>2, <2>3
<1>4. CASE state \in ReadStates \cup {"WRESP"} \/ (state = "PURGE" /\ ~owner.write)
  <2>1. owner' = owner /\ cmd = owner
    BY <1>4, WordsMove DEF Owned, ReadStates
  <2>2. \/ state' \in {"WRESP", "IDLE"}
        \/ state' \in ReadStates \cup {"PURGE"} /\ ~owner'.write
    BY <1>1, <1>4, <2>1, OwnedInHand, Path, WriteMoves DEF Owned
  <2> QED
    BY <2>2 DEF DrainInv, InHand, ReadStates
<1>5. CASE state = "WTSTART" \/ InHand
  <2>1. owner' = owner /\ cmd = owner /\ owner.write /\ state # "IDLE" /\ cmdReady
    BY <1>5, WordsMove DEF Owned, WriteStates, InHand
  <2>2. state # "WTSTART" => InHand
    BY <1>5
  <2>3. ASSUME state # "WTSTART" \/ PopWriteBuff
        PROVE  /\ Len(popped') \in 1 .. owner'.len + 1
               /\ wordReg'.last <=> Len(popped') = owner'.len + 1
    BY <2>1, <2>2, <2>3, WordsMove DEF DrainInv
  <2>4. CASE state \in {"WTSTART", "WDTWT"}
    <3>1. CASE wordReady
      <4>1. PopWriteBuff /\ state' = "NWEN" /\ ~writeBuffEmpty'
        BY <1>1, <2>1, <2>4, <3>1, WordsMove, WriteMoves DEF PopWriteBuff
      <4> QED
        BY <2>3, <4>1 DEF DrainInv, InHand
    <3>2. CASE ~wordReady
      <4>1. ~PopWriteBuff /\ state' = state
        BY <1>1, <2>4, <3>2, WriteMoves DEF PopWriteBuff
      <4>2. popped' = popped /\ wordReg' = wordReg /\ owner' = owner
        BY <2>1, <4>1, WordsMove
      <4> QED
        BY <2>4, <4>1, <4>2 DEF DrainInv, InHand
    <3> QED
      BY <3>1, <3>2
  <2>5. CASE state \in {"WSEL", "NWSEL"}
    <3>1. state' \in {"WEN", "NWEN"} /\ (writeLastReg' <=> writeLastReg)
      BY <1>1, <2>5, WriteMoves DEF Registers, ControlRegisters, NextWriteLastReg
    <3>2. (~writeLastReg' /\ writeBuffEmpty') => ~wordReg'.last
      BY <2>1, <2>5, <3>1, WordsMove DEF DrainInv
    <3> QED
      BY <2>3, <2>5, <3>1, <3>2 DEF DrainInv, InHand
  <2>6. CASE state \in {"WEN", "NWEN"}
    <3>1. ~PopWriteBuff
      BY <2>6 DEF PopWriteBuff
    <3>2. popped' = popped /\ wordReg' = wordReg
      BY <2>1, <3>1, WordsMove
    <3>3. state' = AfterWrite /\ state' \in {"WRESP", "WDTWT", "WSEL", "NWSEL", "PURGE"}
      BY <1>1, <2>6, WriteMoves, AfterWriteLands
    <3>4. writeLastReg' <=> wordReg.last
      BY <1>1, <2>6, <3>3 DEF Registers, ControlRegisters, NextWriteLastReg
    <3>5. state' = "WDTWT" => ~wordReg'.last
      BY <2>6, <3>2, <3>3, AfterWriteLands DEF DrainInv
    <3> QED
      BY <2>3, <2>6, <3>2, <3>3, <3>4, <3>5 DEF DrainInv, InHand
  <2>7. CASE state = "PURGE"
    <3>1. state' \in {"WRESP", "PURGE"}
      BY <1>1, <2>1, <2>7, OwnedInHand, Path
    <3> QED
      BY <2>3, <2>7, <3>1 DEF DrainInv, InHand
  <2> QED
    BY <1>5, <2>4, <2>5, <2>6, <2>7 DEF InHand
<1> QED
  BY <1>2, <1>3, <1>4, <1>5 DEF Owned, States, ReadStates, InHand

LEMMA WriteKept ==
  ASSUME WriteInv, Tick \/ Meanwhile, CmdTyped', WordFits'
  PROVE  WriteInv'
<1>1. Owned'
  BY OwnedKept DEF WriteInv
<1>2. CASE Tick
  BY <1>1, <1>2, TickKeepsPopped, TickKeepsDrain DEF WriteInv, WordInv
<1>3. CASE Meanwhile
  <2>1. DrainInv' /\ wordReg' = wordReg /\ popped' = popped
    BY <1>3 DEF Meanwhile, WriteInv, DrainInv, InHand, registers, history
  <2> QED
    BY <1>1, <2>1 DEF WriteInv, WordInv
<1> QED
  BY <1>2, <1>3

LEMMA FitsStep == WriteInv /\ [Next]_vars => WordFits'
<1> SUFFICES ASSUME WriteInv, [Next]_vars PROVE WordFits'
  OBVIOUS
<1>1. CASE Clock
  BY <1>1, ClockKeepsFits
<1> USE DEF WriteInv, WordInv, registers, history
<1>2. CASE CommandArrives
  <2>1. state = "IDLE" /\ UNCHANGED <<word, wordReady, registers, history>>
    BY <1>2 DEF CommandArrives, Owned
  <2>2. (wordReady' /\ Waiting') => (word'.last <=> cmd'.len = 0)
    BY <1>2 DEF CommandArrives, Waiting
  <2> QED
    BY <2>1, <2>2 DEF WordFits, Unfinished
<1>3. CASE WordArrives
  <2>1. PICK s \in Strobes, last \in BOOLEAN :
          /\ Unfinished => (last <=> Len(popped) = owner.len)
          /\ Waiting => (last <=> cmd.len = 0)
          /\ word' = [data |-> IF Unfinished THEN Len(popped) ELSE 0,
                      strobes |-> s, last |-> last]
    BY <1>3 DEF WordArrives
  <2>2. /\ UNCHANGED <<cmd, cmdReady, registers, history>> /\ wordReady' = TRUE
    BY <1>3 DEF WordArrives
  <2>3. word' \in IssuedWords
    BY <2>1 DEF IssuedWords
  <2>4. (Unfinished' <=> Unfinished) /\ (Waiting' <=> Waiting)
    BY <2>2 DEF Unfinished, Waiting
  <2> QED
    BY <2>1, <2>2, <2>3, <2>4 DEF WordFits
<1>4. CASE RespDrains \/ ReadDrains
  BY <1>4 DEF RespDrains, ReadDrains, WordFits, Unfinished, Waiting
<1>5. CASE UNCHANGED vars
  BY <1>5 DEF vars, pins, WordFits, Unfinished, Waiting
<1> QED
  BY <1>1, <1>2, <1>3, <1>4, <1>5 DEF Next

LEMMA WriteStep == WriteInv /\ [Next]_vars => WriteInv'
BY WriteKept, FitsStep, CmdStaysTyped, StepsAre DEF WriteInv

\* Outside of IDLE only words of the burst in hand are popped, in their order,
\* however many of the next burst are behind them in the buffer.
THEOREM OwnWordsPopped == Spec => []PopsOwnWordsOnly
<1>1. Init => WriteInv
  BY InitResets, OwnedInit, WriteInit DEF WriteInv
<1>2. ASSUME WriteInv PROVE PopsOwnWordsOnly
  <2>1. SUFFICES ASSUME PopWriteBuff, state # "IDLE"
                 PROVE  Len(popped) <= owner.len /\ word.data = Len(popped)
    BY DEF PopsOwnWordsOnly
  <2>2. Unfinished /\ wordReady
    BY <1>2, <2>1, PopsUnfinished
  <2> QED
    BY <1>2, <2>2 DEF WriteInv, WordInv, WordFits, Unfinished
<1> QED
  BY <1>1, <1>2, WriteStep, PTL DEF Spec
----------------------------------------------------------------------------
(* What the beats of a read carry.                                          *)

\* The last flag is on for the beat of the counter, the ID is that of the burst, and
\* only a burst with an error is purged.
OrderInv ==
  /\ (state # "IDLE" \/ pushReadReg) => axiId = owner.id
  /\ state \in {"IDLE", "NREN", "RSEL", "REN", "RBUFWT"} => ~error
  /\ (state = "PREPURGE" \/ (state = "PURGE" /\ ~owner.write)) => rdError
  /\ (state \in {"REN", "RBUFWT"} \/ (state = "PURGE" /\ ~owner.write)) =>
       (lastPushRead <=> beat = owner.len)
  /\ pushReadReg => (lastPushRead <=> served = owner.len)

\* The n-th answer of a slave meets the n-th beat.
NumberInv ==
  /\ pushReadReg => axiData = served
  /\ state \in {"NREN", "RSEL", "REN"} => prdata = beat
  /\ state = "RBUFWT" => prdata = beat + 1 /\ axiData = beat

OrderedInv == ReadInv /\ OrderInv
NumberedInv == OrderedInv /\ NumberInv

LEMMA ReadMoves ==
  ASSUME Edge
  PROVE  /\ state' = "PREPURGE" => state \in {"NREN", "REN", "RBUFWT"} /\ AnyError
         /\ (state = "IDLE" /\ state' = "PURGE") => InitialCmdError(cmd) /\ cmdReady /\ ~cmd.write
         /\ state' = "NREN" => state = "IDLE"
         /\ state' = "RSEL" => state \in {"NREN", "REN", "RBUFWT"}
         /\ state' = "REN" => state = "RSEL"
         /\ state' = "RBUFWT" => state \in {"REN", "RBUFWT"} /\ readFull
         /\ state \in {"REN", "RBUFWT"} /\ readFull => state' = "RBUFWT"
         /\ state' = "PURGE" => state \notin {"NREN", "RSEL", "REN", "RBUFWT"}
<1>1. CASE Idle
  BY <1>1 DEF Idle
<1>2. CASE Purge
  BY <1>2 DEF Purge
<1>3. CASE WSel \/ NWSel \/ WDtWt \/ WtStart \/ WResp
  BY <1>3 DEF WSel, NWSel, WDtWt, WtStart, WResp
<1>4. CASE WEn \/ NWEn
  BY <1>4, AfterWriteLands DEF WEn, NWEn
<1>5. CASE RSel \/ PrePurge
  BY <1>5 DEF RSel, PrePurge
<1>6. CASE REn
  BY <1>6 DEF REn, AnyError
<1>7. CASE NREn
  BY <1>7 DEF NREn
<1>8. CASE RBufWt
  BY <1>8 DEF RBufWt
<1> QED
  BY <1>1, <1>2, <1>3, <1>4, <1>5, <1>6, <1>7, <1>8 DEF Edge

LEMMA TickKeepsOrder == ASSUME OrderedInv, Tick PROVE OrderInv'
<1> USE DEF OrderedInv, ReadInv
<1>1. Edge /\ Registers /\ HistoryFollows
  BY StateMoves DEF Tick
<1>2. /\ error' = NextError /\ rdError' = NextRdError /\ lastPushRead' = NextLastPushRead
      /\ pushReadReg' = NextPushRead /\ beat' = NextBeat
      /\ axiId' = cmd.id
      /\ owner' = IF Starts THEN cmd ELSE owner
      /\ served' = IF Starts THEN 0 ELSE IF PushReadBuffer THEN served + 1 ELSE served
  BY <1>1 DEF Registers, ControlRegisters, DataRegisters, HistoryFollows
<1>3. BeatInv'
  BY TickKeepsBeats
<1>4. /\ cmd.write \in BOOLEAN /\ owner.write \in BOOLEAN
      /\ cmd.len \in Nat /\ owner.len \in Nat
  BY CommandFields DEF Owned
<1>5. state # "IDLE" => cmd = owner /\ owner' = owner /\ cmdReady
  BY <1>2 DEF Owned, Starts
<1>6. (state' # "IDLE" \/ pushReadReg') => axiId' = owner'.id
  <2>1. CASE state = "IDLE"
    <3>1. ~pushReadReg' /\ (state' # "IDLE" => cmdReady)
      BY <1>1, <1>2, <2>1, OwnedInHand, Path DEF NextPushRead
    <3> QED
      BY <1>2, <2>1, <3>1 DEF Starts
  <2>2. CASE state # "IDLE"
    BY <1>2, <1>5, <2>2
  <2> QED
    BY <2>1, <2>2
<1>7. state' \in {"IDLE", "NREN", "RSEL", "REN", "RBUFWT"} => ~error'
  BY <1>1, <1>2, ReadMoves DEF NextError, OrderInv
<1>8. (state' = "PREPURGE" \/ (state' = "PURGE" /\ ~owner'.write)) => rdError'
  <2>1. CASE state' = "PREPURGE"
    <3>1. state \in {"NREN", "REN", "RBUFWT"} /\ (DcdError \/ InitialCmdError(cmd))
      BY <1>1, <2>1, ReadMoves DEF AnyError, OrderInv
    <3>2. cmdReady /\ ~cmd.write
      BY <1>5, <3>1 DEF Owned, ReadStates
    <3> QED
      BY <1>2, <3>1, <3>2 DEF NextRdError
  <2>2. CASE state' = "PURGE" /\ ~owner'.write /\ state = "IDLE"
    BY <1>1, <1>2, <2>2, ReadMoves DEF NextRdError
  <2>3. CASE state' = "PURGE" /\ ~owner'.write /\ state # "IDLE"
    <3>1. ~owner.write /\ state \notin {"NREN", "RSEL", "REN", "RBUFWT"}
      BY <1>1, <1>5, <2>3, ReadMoves
    <3>2. state \in {"PREPURGE", "PURGE"}
      BY <2>3, <3>1 DEF Owned, States, WriteStates
    <3> QED
      BY <1>2, <3>1, <3>2 DEF NextRdError, OrderInv
  <2> QED
    BY <2>1, <2>2, <2>3
<1>9. (state' \in {"REN", "RBUFWT"} \/ (state' = "PURGE" /\ ~owner'.write)) =>
        (lastPushRead' <=> beat' = owner'.len)
  <2>1. CASE state' = "REN"
    <3>1. state = "RSEL" /\ cmd = owner /\ owner' = owner /\ ~cmd.write
      BY <1>1, <1>5, <2>1, ReadMoves DEF Owned, ReadStates
    <3> QED
      BY <1>2, <2>1, <3>1 DEF NextLastPushRead
  <2>2. CASE state' = "RBUFWT"
    <3>1. /\ state \in {"REN", "RBUFWT"} /\ readFull
          /\ cmd = owner /\ owner' = owner /\ ~cmd.write
      BY <1>1, <1>5, <2>2, ReadMoves DEF Owned, ReadStates
    <3>2. beat' = beat
      BY <1>2, <3>1 DEF NextBeat, NextPushRead
    <3>3. lastPushRead' <=> lastPushRead
      BY <1>2, <3>1 DEF NextLastPushRead
    <3> QED
      BY <3>1, <3>2, <3>3 DEF OrderInv
  <2>3. CASE state' = "PURGE" /\ ~owner'.write /\ state = "IDLE"
    <3>1. cmdReady /\ ~cmd.write /\ owner' = cmd
      BY <1>1, <1>2, <2>3, ReadMoves DEF Starts
    <3>2. beat' = 0
      BY <1>2, <2>3 DEF NextBeat, NextPushRead
    <3>3. lastPushRead' <=> cmd.len = 0
      BY <1>2, <2>3, <3>1 DEF NextLastPushRead
    <3> QED
      BY <1>4, <3>1, <3>2, <3>3
  <2>4. CASE state' = "PURGE" /\ ~owner'.write /\ state # "IDLE"
    <3>1. ~owner.write /\ state \notin {"NREN", "RSEL", "REN", "RBUFWT"}
      BY <1>1, <1>5, <2>4, ReadMoves
    <3>2. state \in {"PREPURGE", "PURGE"} /\ cmd = owner /\ owner' = owner /\ ~cmd.write
      BY <1>5, <2>4, <3>1 DEF Owned, States, WriteStates
    <3> QED
      BY <1>2, <3>2 DEF NextLastPushRead
  <2> QED
    BY <2>1, <2>2, <2>3, <2>4
<1>10. ASSUME pushReadReg'
       PROVE  lastPushRead' <=> served' = owner'.len
  <2>1. state \in {"REN", "RBUFWT"} /\ ~readFull /\ ~cmd.write
    BY <1>2, <1>10 DEF NextPushRead
  <2>2. cmd = owner /\ owner' = owner /\ ~Starts
    BY <1>2, <1>5, <2>1 DEF Starts
  <2>3. ~pushReadReg /\ ~PushReadBuffer
    BY <2>1 DEF MasterInv, PushInv, PushReadBuffer
  <2>4. beat = served + 0 /\ served \in Nat
    BY <2>1, <2>3 DEF BeatInv, Pushing, ReadStates
  <2>5. served' = served /\ beat = served
    BY <1>2, <2>2, <2>3, <2>4
  <2>6. lastPushRead' <=> lastPushRead
    BY <1>2, <2>1 DEF NextLastPushRead
  <2>7. lastPushRead <=> beat = owner.len
    BY <2>1 DEF OrderInv
  <2> QED
    BY <2>2, <2>5, <2>6, <2>7
<1> QED
  BY <1>6, <1>7, <1>8, <1>9, <1>10 DEF OrderInv

\* What a push registered by this edge is a push of.
LEMMA PushIsOfBeat ==
  ASSUME ReadInv, Tick, state \in {"REN", "RBUFWT"}
  PROVE  /\ served' = served /\ served = beat /\ owner' = owner /\ beat \in Nat
         /\ ~cmd.write /\ ~Starts /\ (pushReadReg' <=> ~readFull)
<1> USE DEF ReadInv
<1>1. Registers /\ HistoryFollows
  BY StateMoves DEF Tick
<1>2. cmd = owner /\ owner' = owner /\ ~cmd.write /\ ~Starts
  BY <1>1 DEF HistoryFollows, Owned, ReadStates, Starts
<1>3. ~pushReadReg /\ ~PushReadBuffer
  BY DEF MasterInv, PushInv, PushReadBuffer
<1>4. beat = served + 0 /\ served \in Nat
  BY <1>3 DEF BeatInv, Pushing, ReadStates
<1>5. served' = served /\ (pushReadReg' <=> ~readFull)
  BY <1>1, <1>2, <1>3 DEF HistoryFollows, Registers, ControlRegisters, NextPushRead
<1> QED
  BY <1>2, <1>4, <1>5

LEMMA ClockKeepsNumbers == ASSUME NumberedInv, Clock PROVE NumberInv'
<1> USE DEF NumberedInv, OrderedInv
<1>1. Tick /\ Edge /\ Registers /\ BuffersFollow
  BY ClockTicks, StateMoves DEF Clock
<1>2. /\ pushReadReg' = NextPushRead /\ beat' = NextBeat /\ axiData' = NextAxiData
      /\ prdata' = IF Starts THEN 0 ELSE IF state = "REN" THEN prdata + 1 ELSE prdata
  BY <1>1 DEF Registers, ControlRegisters, DataRegisters, BuffersFollow
<1>3. BeatInv'
  BY <1>1, TickKeepsBeats
<1>4. state \in {"REN", "RBUFWT"} => prdata' = beat + 1 /\ axiData' = beat /\ ~cmd.write
  BY <1>1, <1>2, PushIsOfBeat DEF NextAxiData, Penable, NumberInv
<1>5. pushReadReg' => state \in {"REN", "RBUFWT"} /\ axiData' = served' /\ served' = beat
  <2>1. pushReadReg' => state \in {"REN", "RBUFWT"}
    BY <1>2 DEF NextPushRead
  <2> QED
    BY <1>1, <1>4, <2>1, PushIsOfBeat
<1>6. state' \in {"NREN", "RSEL", "REN"} => prdata' = beat'
  <2>1. CASE state' = "NREN"
    <3>1. state = "IDLE" /\ cmdReady
      BY <1>1, <2>1, OwnedInHand, Path, ReadMoves DEF ReadInv
    <3> QED
      BY <1>2, <3>1 DEF NextBeat, NextPushRead, Starts
  <2>2. CASE state' = "REN" \/ (state' = "RSEL" /\ state = "NREN")
    <3>1. state \in {"RSEL", "NREN"}
      BY <1>1, <2>2, ReadMoves
    <3> QED
      BY <1>2, <3>1 DEF NextBeat, NextPushRead, Starts, NumberInv
  <2>3. CASE state' = "RSEL" /\ state # "NREN"
    <3>1. state \in {"REN", "RBUFWT"} /\ ~readFull
      BY <1>1, <2>3, ReadMoves
    <3>2. pushReadReg'
      BY <1>1, <3>1, PushIsOfBeat
    <3>3. beat' = served' + 1
      BY <1>3, <2>3, <3>2 DEF BeatInv, Pushing, ReadStates
    <3> QED
      BY <1>4, <1>5, <3>1, <3>2, <3>3
  <2> QED
    BY <2>1, <2>2, <2>3
<1>7. state' = "RBUFWT" => prdata' = beat' + 1 /\ axiData' = beat'
  <2>1. state' = "RBUFWT" => state \in {"REN", "RBUFWT"} /\ readFull
    BY <1>1, ReadMoves
  <2>2. readFull /\ state \in {"REN", "RBUFWT"} => beat' = beat
    BY <1>2 DEF NextBeat, NextPushRead
  <2> QED
    BY <1>4, <2>1, <2>2
<1> QED
  BY <1>5, <1>6, <1>7 DEF NumberInv

LEMMA OrderKept ==
  ASSUME OrderedInv, Tick \/ Meanwhile, CmdTyped'
  PROVE  OrderedInv'
<1>1. ReadInv'
  BY ReadKept DEF OrderedInv
<1>2. CASE Tick
  BY <1>1, <1>2, TickKeepsOrder DEF OrderedInv
<1>3. CASE Meanwhile
  BY <1>1, <1>3 DEF Meanwhile, OrderedInv, OrderInv, registers, history
<1> QED
  BY <1>2, <1>3

LEMMA OrderStep == OrderedInv /\ [Next]_vars => OrderedInv'
BY OrderKept, CmdStaysTyped, StepsAre DEF OrderedInv, ReadInv

LEMMA NumberStep == NumberedInv /\ [Next]_vars => NumberedInv'
<1> SUFFICES ASSUME NumberedInv, [Next]_vars PROVE NumberInv'
  BY OrderStep DEF NumberedInv
<1>1. CASE Clock
  BY <1>1, ClockKeepsNumbers
<1> USE DEF NumberedInv, NumberInv, registers, history
<1>2. CASE CommandArrives \/ WordArrives
  BY <1>2 DEF CommandArrives, WordArrives
<1>3. CASE RespDrains \/ ReadDrains
  BY <1>3 DEF RespDrains, ReadDrains
<1>4. CASE UNCHANGED vars
  BY <1>4 DEF vars, pins
<1> QED
  BY <1>1, <1>2, <1>3, <1>4 DEF Next

\* What the invariant says of a push.
LEMMA OrderedBeats ==
  ASSUME OrderedInv, PushReadBuffer
  PROVE  /\ ~owner.write /\ served <= owner.len
         /\ lastPushRead = (served = owner.len)
         /\ axiId = owner.id /\ (~rdError => pushReadReg)
<1> USE DEF OrderedInv, ReadInv
<1>1. served \in Nat /\ lastPushRead \in BOOLEAN /\ owner.len \in Nat
  BY CommandFields DEF BeatInv, Owned
<1>2. CASE state = "PURGE" /\ ~cmd.write
  <2>1. ~owner.write /\ ~pushReadReg
    BY <1>2 DEF Owned, MasterInv, PushInv
  <2>2. beat = served + 0 /\ beat <= owner.len
    BY <1>2, <2>1 DEF BeatInv, Pushing
  <2>3. beat = served
    BY <1>1, <2>2
  <2>4. (lastPushRead <=> beat = owner.len) /\ rdError /\ axiId = owner.id
    BY <1>2, <2>1 DEF OrderInv
  <2> QED
    BY <1>1, <2>1, <2>2, <2>3, <2>4
<1>3. CASE ~(state = "PURGE" /\ ~cmd.write)
  <2>1. pushReadReg /\ ~owner.write
    BY <1>3 DEF PushReadBuffer, BeatInv
  <2>2. state \in {"RSEL", "PREPURGE", "IDLE"}
    BY <2>1 DEF MasterInv, PushInv
  <2>3. served <= owner.len
    <3>1. CASE state = "IDLE"
      <4>1. served + 1 = owner.len + 1
        BY <2>1, <3>1 DEF BeatInv, Pushing
      <4> QED
        BY <1>1, <4>1
    <3>2. CASE state # "IDLE"
      <4>1. beat = served + 1 /\ beat <= owner.len
        BY <2>1, <2>2, <3>2 DEF BeatInv, Pushing, ReadStates
      <4> QED
        BY <1>1, <4>1
    <3> QED
      BY <3>1, <3>2
  <2>4. (lastPushRead <=> served = owner.len) /\ axiId = owner.id
    BY <2>1 DEF OrderInv
  <2> QED
    BY <1>1, <2>1, <2>3, <2>4
<1> QED
  BY <1>2, <1>3

LEMMA OrderInit == AtReset => OrderInv
BY DEF AtReset, Reset, OrderInv

LEMMA NumberedInit == Init => NumberedInv
<1>1. Init => ReadInv
  BY InitResets, MasterInit, OwnedInit, BeatInit DEF ReadInv
<1>2. Init => OrderInv /\ NumberInv
  BY InitResets, OrderInit DEF Init, Reset, NumberInv
<1> QED
  BY <1>1, <1>2 DEF NumberedInv, OrderedInv

\* Every beat pushed is one of the burst in hand, marked as its last exactly when it
\* is, with its ID, and with the answer of its own access unless it is an error.
THEOREM BeatsPushedInOrder == Spec => []ReadBeatsInOrder
<1>1. NumberedInv => ReadBeatsInOrder
  BY OrderedBeats DEF NumberedInv, NumberInv, ReadBeatsInOrder
<1> QED
  BY <1>1, NumberedInit, NumberStep, PTL DEF Spec

----------------------------------------------------------------------------
(* Addresses and data.  First come facts about what any burst asks for: the  *)
(* address registers follow the AXI address of each beat, and the list of    *)
(* the APB writes a burst stands for grows word by word.                     *)

(* Numbers.                                                                 *)

\* Every set of naturals has a least element: induction without a parameter.
LEMMA LeastNatural ==
  ASSUME NEW T, T \subseteq Nat, T # {}
  PROVE  \E m \in T : \A k \in T : m <= k
<1> DEFINE R == {p \in Nat \X Nat : p[1] < p[2]}
<1>1. IsWellFoundedOn(R, Nat)
  BY NatLessThanWellFounded DEF OpToRel
<1>2. PICK m \in T : \A k \in T : ~(<<k, m>> \in R)
  <2> HIDE DEF R
  <2> QED
    BY <1>1, WFMin
<1>3. \A k \in T : m <= k
  <2> SUFFICES ASSUME NEW k \in T, ~(m <= k) PROVE FALSE
    OBVIOUS
  <2>1. k \in Nat /\ m \in Nat /\ k < m
    OBVIOUS
  <2>2. <<k, m>> \in R
    BY <2>1
  <2> QED
    BY <1>2, <2>2
<1> QED
  BY <1>3

\* A quotient and a remainder are unique.
LEMMA RemainderUnique ==
  ASSUME NEW q \in Int, NEW r \in Int, NEW s \in Int, NEW t \in Int, NEW M \in Nat,
         0 <= r, r < M, 0 <= t, t < M, M * q + r = M * s + t
  PROVE  r = t
OBVIOUS

LEMMA ModuloSteps ==
  ASSUME NEW x \in Nat, NEW n \in Nat, NEW M \in Nat \ {0}
  PROVE  ((x % M) + n) % M = (x + n) % M
<1> DEFINE y == (x % M) + n
<1>1. x % M \in Nat /\ x \div M \in Int /\ x = M * (x \div M) + (x % M)
  OBVIOUS
<1>2. y \in Nat /\ x + n \in Nat
  BY <1>1
<1>3. /\ y % M \in 0 .. M - 1 /\ (x + n) % M \in 0 .. M - 1
      /\ y = M * (y \div M) + (y % M) /\ y \div M \in Int
      /\ x + n = M * ((x + n) \div M) + ((x + n) % M) /\ (x + n) \div M \in Int
  <2> HIDE DEF y
  <2> QED
    BY <1>2
<1>4. M * ((x \div M) + (y \div M)) + (y % M) = M * ((x + n) \div M) + ((x + n) % M)
  <2>1. M * ((x \div M) + (y \div M)) = M * (x \div M) + M * (y \div M)
    BY <1>1, <1>3
  <2>2. x + n = M * (x \div M) + y
    BY <1>1
  <2> HIDE DEF y
  <2> QED
    BY <1>1, <1>2, <1>3, <2>1, <2>2
<1> HIDE DEF y
<1>5. y % M = (x + n) % M
  <2> DEFINE q == (x \div M) + (y \div M)
             r == y % M
             s == (x + n) \div M
             t == (x + n) % M
  <2>1. /\ q \in Int /\ r \in Int /\ s \in Int /\ t \in Int /\ M * q + r = M * s + t
        /\ 0 <= r /\ r < M /\ 0 <= t /\ t < M
    BY <1>1, <1>3, <1>4
  <2> HIDE DEF q, r, s, t
  <2>2. r = t
    BY <2>1, RemainderUnique
  <2> QED
    BY <2>2 DEF r, t
<1> QED
  BY <1>5 DEF y

----------------------------------------------------------------------------
(* The addresses of a burst.                                                *)

\* The commands the port can carry: lengths, sizes and addresses in range.
IsCommand(c) ==
  /\ c.write \in BOOLEAN /\ c.burst \in {FIXED, INCR, WRAP, RESERVED}
  /\ c.size \in {0, 1, 2} /\ c.len \in Nat /\ c.addr \in 0 .. AddrSpace - 1

\* Those the bridge puts on the APB.
Legal(c) == IsCommand(c) /\ ~InitialCmdError(c) /\ ~WrapError(c) /\ c.burst # RESERVED

LEMMA LegalFields ==
  ASSUME NEW c, Legal(c)
  PROVE  /\ BeatBytes(c) = 4 /\ c.addr % 4 = 0
         /\ c.burst = WRAP => Container(c) \in {8, 16, 32, 64}
         /\ c.burst \in {FIXED, INCR, WRAP} /\ c.addr \in Nat /\ c.addr < AddrSpace
         /\ AddrSpace \in Nat \ {0} /\ AddrSpace % 64 = 0
<1>1. c.size = 2 /\ c.addr % 4 = 0
  BY DEF Legal, IsCommand, InitialCmdError, AlignSize, WordBytes
<1>2. BeatBytes(c) = 4
  BY <1>1 DEF BeatBytes
<1>3. c.burst = WRAP => c.len \in {1, 3, 7, 15}
  BY DEF Legal, WrapError
<1>4. c.burst = WRAP => Container(c) \in {8, 16, 32, 64}
  BY <1>2, <1>3 DEF Container
<1> QED
  BY <1>1, <1>2, <1>4, AddrSpaceAssumption DEF Legal, IsCommand

\* The address of a beat, written out.
LEMMA AddressByType ==
  ASSUME NEW c, Legal(c), NEW i \in Nat
  PROVE  /\ c.burst = FIXED => AxiAddress(c, i) = c.addr
         /\ c.burst = INCR => AxiAddress(c, i) = (c.addr + 4 * i) % AddrSpace
         /\ c.burst = WRAP =>
              AxiAddress(c, i) = (c.addr \div Container(c)) * Container(c)
                                 + ((c.addr + 4 * i) % Container(c))
<1>1. i * BeatBytes(c) = 4 * i
  BY LegalFields
<1>2. CASE c.burst = FIXED
  BY <1>2 DEF AxiAddress, FIXED, INCR, WRAP, RESERVED
<1>3. CASE c.burst = INCR
  BY <1>1, <1>3 DEF AxiAddress, Plus, FIXED, INCR, WRAP, RESERVED
<1>4. CASE c.burst = WRAP
  BY <1>1, <1>4 DEF AxiAddress, FIXED, INCR, WRAP, RESERVED
<1> QED
  BY <1>2, <1>3, <1>4, LegalFields DEF FIXED, INCR, WRAP

\* The block of a wrapping burst: its beats stay inside, at words.
LEMMA WrapBlock ==
  ASSUME NEW a \in Nat, NEW n \in Nat, NEW C \in {8, 16, 32, 64},
         NEW A \in Nat, A % 64 = 0, a < A, a % 4 = 0
  PROVE  LET low == (a \div C) * C
             b == low + ((a + 4 * n) % C)
         IN  /\ low + (a % C) = a
             /\ b \in 0 .. A - 1 /\ b % 4 = 0
             /\ b - (b % C) = low /\ (b + 4) % C = (a + (4 * n + 4)) % C
<1> DEFINE m == 4 * n
<1>1. m \in Nat /\ m % 4 = 0
  OBVIOUS
<1> HIDE DEF m
<1>2. CASE C = 8
  BY <1>1, <1>2 DEF m
<1>3. CASE C = 16
  BY <1>1, <1>3 DEF m
<1>4. CASE C = 32
  BY <1>1, <1>4 DEF m
<1>5. CASE C = 64
  BY <1>1, <1>5 DEF m
<1> QED
  BY <1>2, <1>3, <1>4, <1>5

\* The first beat is at the address of the burst.
LEMMA FirstAddress ==
  ASSUME NEW c, Legal(c)
  PROVE  AxiAddress(c, 0) = c.addr
<1> DEFINE a == c.addr
<1>1. a \in Nat /\ AddrSpace \in Nat \ {0} /\ a < AddrSpace /\ a % 4 = 0 /\ AddrSpace % 64 = 0
  BY LegalFields
<1>2. /\ c.burst = FIXED => AxiAddress(c, 0) = a
      /\ c.burst = INCR => AxiAddress(c, 0) = (a + 4 * 0) % AddrSpace
      /\ c.burst = WRAP =>
           AxiAddress(c, 0) = (a \div Container(c)) * Container(c) + ((a + 4 * 0) % Container(c))
  BY AddressByType
<1>3. c.burst = WRAP => Container(c) \in {8, 16, 32, 64}
  BY LegalFields
<1> HIDE DEF a
<1>4. (a + 4 * 0) % AddrSpace = a
  BY <1>1
<1>5. \A C \in {8, 16, 32, 64} : (a \div C) * C + ((a + 4 * 0) % C) = a
  BY <1>1
<1> QED
  BY <1>2, <1>3, <1>4, <1>5, LegalFields DEF a

\* Every beat is at a word of the address space.
LEMMA AddressInRange ==
  ASSUME NEW c, Legal(c), NEW i \in Nat
  PROVE  AxiAddress(c, i) \in 0 .. AddrSpace - 1 /\ AxiAddress(c, i) % 4 = 0
<1>1. CASE c.burst = FIXED
  BY <1>1, LegalFields, AddressByType
<1>2. CASE c.burst = INCR
  <2> DEFINE x == c.addr + 4 * i
  <2>1. x \in Nat /\ x % 4 = 0 /\ AddrSpace \in Nat \ {0} /\ AddrSpace % 4 = 0
    BY LegalFields
  <2>2. AxiAddress(c, i) = x % AddrSpace
    BY <1>2, AddressByType
  <2> HIDE DEF x
  <2>3. x % AddrSpace \in 0 .. AddrSpace - 1 /\ x = AddrSpace * (x \div AddrSpace) + (x % AddrSpace)
    BY <2>1
  <2>4. (x % AddrSpace) % 4 = 0
    <3> DEFINE q == x \div AddrSpace
               k == AddrSpace \div 4
               r == x % AddrSpace
    <3>1. q \in Int /\ k \in Int /\ r \in Int /\ AddrSpace = 4 * k /\ x = AddrSpace * q + r
      BY <2>1, <2>3
    <3> HIDE DEF q, k, r
    <3>2. x = 4 * (k * q) + r /\ k * q \in Int
      BY <3>1
    <3>3. r % 4 = 0
      BY <2>1, <3>1, <3>2
    <3> QED
      BY <3>3 DEF r
  <2> QED
    BY <2>2, <2>3, <2>4
<1>3. CASE c.burst = WRAP
  <2> DEFINE C == Container(c)
  <2>1. AxiAddress(c, i) = (c.addr \div C) * C + ((c.addr + 4 * i) % C)
    BY <1>3, AddressByType
  <2>2. C \in {8, 16, 32, 64} /\ c.addr \in Nat
    BY <1>3, LegalFields
  <2>3. AddrSpace \in Nat /\ AddrSpace % 64 = 0 /\ c.addr < AddrSpace /\ c.addr % 4 = 0
    BY LegalFields
  <2> DEFINE a == c.addr
             b == (a \div C) * C + ((a + 4 * i) % C)
  <2> HIDE DEF C, a
  <2>4. b \in 0 .. AddrSpace - 1 /\ b % 4 = 0
    BY <2>2, <2>3, WrapBlock DEF a
  <2> QED
    BY <2>1, <2>4 DEF a
<1> QED
  BY <1>1, <1>2, <1>3, LegalFields

\* The base register goes from the address of one beat to that of the next.
LEMMA NextBase ==
  ASSUME NEW c, Legal(c), NEW i \in Nat
  PROVE  BaseFromIncrBase(c, AxiAddress(c, i)) = AxiAddress(c, i + 1)
<1>1. CASE c.burst = FIXED
  <2>1. AxiAddress(c, i + 1) = c.addr
    BY <1>1, AddressByType
  <2> QED
    BY <1>1, <2>1 DEF BaseFromIncrBase, FIXED, WRAP
<1>2. CASE c.burst = INCR
  <2>1. AxiAddress(c, i) = (c.addr + 4 * i) % AddrSpace
    BY <1>2, AddressByType
  <2>2. AxiAddress(c, i + 1) = (c.addr + 4 * (i + 1)) % AddrSpace
    BY <1>2, AddressByType
  <2>3. BaseFromIncrBase(c, AxiAddress(c, i)) = (AxiAddress(c, i) + 4) % AddrSpace
    BY <1>2, LegalFields DEF BaseFromIncrBase, Plus, FIXED, INCR, WRAP, RESERVED
  <2> DEFINE x == c.addr + 4 * i
  <2>4. x \in Nat /\ x + 4 = c.addr + 4 * (i + 1) /\ AddrSpace \in Nat \ {0}
    BY LegalFields
  <2> HIDE DEF x
  <2>5. ((x % AddrSpace) + 4) % AddrSpace = (x + 4) % AddrSpace
    BY <2>4, ModuloSteps
  <2> QED
    BY <2>1, <2>2, <2>3, <2>4, <2>5 DEF x
<1>3. CASE c.burst = WRAP
  <2> DEFINE C == Container(c)
             b == AxiAddress(c, i)
             low == (c.addr \div C) * C
  <2>1. b = low + ((c.addr + 4 * i) % C)
    BY <1>3, AddressByType
  <2>2. AxiAddress(c, i + 1) = low + ((c.addr + (4 * i + 4)) % C)
    <3>1. 4 * (i + 1) = 4 * i + 4
      OBVIOUS
    <3> QED
      BY <1>3, <3>1, AddressByType
  <2>3. BaseFromIncrBase(c, b) = (b - (b % C)) + (((b + 4) % AddrSpace) % C)
    BY <1>3, LegalFields DEF BaseFromIncrBase, Plus, Legal, FIXED, INCR, WRAP, RESERVED
  <2>4. b \in 0 .. AddrSpace - 1 /\ b % 4 = 0
    BY AddressInRange
  <2>5. C \in {8, 16, 32, 64}
    BY <1>3, LegalFields
  <2>6. b - (b % C) = low /\ (b + 4) % C = (c.addr + (4 * i + 4)) % C
    BY <2>1, <2>5, LegalFields, WrapBlock
  <2> HIDE DEF C, b, low
  <2>7. ((b + 4) % AddrSpace) % C = (b + 4) % C
    <3>1. AddrSpace \in Nat /\ AddrSpace % 64 = 0 /\ AddrSpace % 4 = 0
      BY AddrSpaceAssumption
    <3>2. CASE b + 4 < AddrSpace
      BY <2>4, <3>1, <3>2
    <3>3. CASE b + 4 = AddrSpace
      <4>1. (b + 4) % AddrSpace = 0
        BY <3>1, <3>3, <2>4
      <4> QED
        BY <2>4, <2>5, <3>1, <3>3, <4>1
    <3> QED
      BY <2>4, <3>1, <3>2, <3>3
  <2> QED
    BY <2>2, <2>3, <2>6, <2>7 DEF b
<1> QED
  BY <1>1, <1>2, <1>3, LegalFields

\* So does the address register, in reads and in writes.
LEMMA NextAddressOfBurst ==
  ASSUME NEW c, Legal(c), NEW i \in Nat, NEW a, c.write \/ a = AxiAddress(c, i)
  PROVE  AddressFromIncrBase(c, AxiAddress(c, i), a) = AxiAddress(c, i + 1)
<1>1. BaseFromIncrBase(c, AxiAddress(c, i)) = AxiAddress(c, i + 1)
  BY NextBase
<1>2. WordAligned(AxiAddress(c, i + 1)) = AxiAddress(c, i + 1)
  BY AddressInRange DEF WordAligned, WordBytes
<1>3. CASE c.write
  BY <1>1, <1>2, <1>3 DEF AddressFromIncrBase, Legal
<1>4. CASE ~c.write /\ c.burst = INCR
  <2>1. BaseFromIncrBase(c, a) = Plus(a, 4)
    BY <1>4, LegalFields DEF BaseFromIncrBase, FIXED, INCR, WRAP, RESERVED
  <2> QED
    BY <1>1, <1>4, <2>1 DEF AddressFromIncrBase, WordBytes, FIXED, INCR, WRAP, RESERVED
<1>5. CASE ~c.write /\ c.burst # INCR
  BY <1>1, <1>5 DEF AddressFromIncrBase, Legal
<1> QED
  BY <1>3, <1>4, <1>5

----------------------------------------------------------------------------
(* The writes of a burst.                                                   *)

\* What the i-th word asks for.
WriteOf(c, i) ==
  [addr |-> AxiAddress(c, i - 1), sel |-> Decode(AxiAddress(c, i - 1)), data |-> i - 1]
Wanted(c, ss, i) ==
  IF ss[i] = "all" /\ ~Refused(c, ss, i - 1) THEN <<WriteOf(c, i)>> ELSE <<>>

\* f lists what the first words ask for, for every number of words up to n.
Lists(f, c, ss, n) ==
  f = [i \in 0 .. n |-> IF i = 0 THEN <<>> ELSE f[i - 1] \o Wanted(c, ss, i)]

LEMMA ListsExist ==
  ASSUME NEW c, NEW ss, NEW n \in Nat
  PROVE  \E f : Lists(f, c, ss, n)
<1> DEFINE T == {k \in Nat : ~\E f : Lists(f, c, ss, k)}
<1>1. SUFFICES ASSUME T # {} PROVE FALSE
  OBVIOUS
<1>2. PICK m \in T : \A k \in T : m <= k
  <2>1. T \subseteq Nat
    OBVIOUS
  <2> HIDE DEF T
  <2> QED
    BY <1>1, <2>1, LeastNatural
<1>3. CASE m = 0
  <2> DEFINE f == [i \in 0 .. 0 |-> <<>>]
  <2>1. Lists(f, c, ss, 0)
    <3>1. f = [i \in 0 .. 0 |-> IF i = 0 THEN <<>> ELSE f[i - 1] \o Wanted(c, ss, i)]
      OBVIOUS
    <3> QED
      BY <3>1 DEF Lists
  <2> QED
    BY <1>3, <2>1
<1>4. CASE m # 0
  <2>1. m - 1 \in Nat /\ m - 1 \notin T
    BY <1>2, <1>4
  <2>2. PICK g : Lists(g, c, ss, m - 1)
    BY <2>1
  <2> DEFINE f == [i \in 0 .. m |-> IF i = m THEN g[m - 1] \o Wanted(c, ss, m) ELSE g[i]]
             F == [i \in 0 .. m |-> IF i = 0 THEN <<>> ELSE f[i - 1] \o Wanted(c, ss, i)]
  <2>3. ASSUME NEW i \in 0 .. m PROVE f[i] = F[i]
    <3>1. CASE i = m
      <4>1. m - 1 \in 0 .. m /\ m - 1 # m /\ m \in 0 .. m
        BY <2>1
      <4>2. f[m - 1] = g[m - 1] /\ f[m] = g[m - 1] \o Wanted(c, ss, m)
        BY <4>1
      <4>3. F[m] = f[m - 1] \o Wanted(c, ss, m)
        BY <1>4, <4>1
      <4> QED
        BY <3>1, <4>2, <4>3
    <3>2. CASE i # m
      <4>1. i \in 0 .. m - 1 /\ (i # 0 => i - 1 \in 0 .. m - 1 /\ i - 1 # m /\ i - 1 \in 0 .. m)
        BY <2>1, <3>2
      <4>2. g[i] = IF i = 0 THEN <<>> ELSE g[i - 1] \o Wanted(c, ss, i)
        BY <2>2, <4>1 DEF Lists
      <4> QED
        BY <3>2, <4>1, <4>2
    <3> QED
      BY <3>1, <3>2
  <2>4. f = F
    BY <2>3
  <2>5. Lists(f, c, ss, m)
    BY <2>4 DEF Lists
  <2> QED
    BY <2>5
<1> QED
  BY <1>3, <1>4

\* One list for fewer words is the beginning of any other, and depends on these
\* words alone.
LEMMA ListsAgree ==
  ASSUME NEW c, NEW ss, NEW tt, NEW n \in Nat, NEW m \in Nat, n <= m, NEW f, NEW g,
         Lists(f, c, ss, n), Lists(g, c, tt, m),
         \A i \in 1 .. n : Wanted(c, ss, i) = Wanted(c, tt, i)
  PROVE  \A i \in 0 .. n : f[i] = g[i]
<1> DEFINE T == {i \in 0 .. n : f[i] # g[i]}
<1>1. SUFFICES ASSUME T # {} PROVE FALSE
  OBVIOUS
<1>2. PICK k \in T : \A j \in T : k <= j
  <2>1. T \subseteq Nat
    OBVIOUS
  <2> HIDE DEF T
  <2> QED
    BY <1>1, <2>1, LeastNatural
<1>3. k \in 0 .. n /\ k \in 0 .. m
  OBVIOUS
<1>4. /\ f[k] = IF k = 0 THEN <<>> ELSE f[k - 1] \o Wanted(c, ss, k)
      /\ g[k] = IF k = 0 THEN <<>> ELSE g[k - 1] \o Wanted(c, tt, k)
  BY <1>3 DEF Lists
<1>5. k # 0 => f[k - 1] = g[k - 1]
  BY <1>2
<1> QED
  BY <1>2, <1>3, <1>4, <1>5

LEMMA WritesAreListed ==
  ASSUME NEW c, NEW ss, NEW n \in Nat
  PROVE  \E f : Lists(f, c, ss, n) /\ WritesUpTo(c, ss, n) = f[n]
<1> DEFINE asked == CHOOSE f : Lists(f, c, ss, n)
<1>1. Lists(asked, c, ss, n)
  BY ListsExist
<1>2. WritesUpTo(c, ss, n) = asked[n]
  BY DEF WritesUpTo, Lists, Wanted, WriteOf
<1> QED
  BY <1>1, <1>2

\* No word asks for nothing.
LEMMA NoWrites ==
  ASSUME NEW c, NEW ss
  PROVE  WritesUpTo(c, ss, 0) = <<>>
<1> DEFINE n == 0
<1>1. PICK f : Lists(f, c, ss, 0) /\ WritesUpTo(c, ss, 0) = f[0]
  BY WritesAreListed
<1>2. n \in 0 .. 0
  OBVIOUS
<1>3. f[n] = IF n = 0 THEN <<>> ELSE f[n - 1] \o Wanted(c, ss, n)
  BY <1>1, <1>2 DEF Lists
<1> QED
  BY <1>1, <1>3

\* Each word adds what it asks for.
LEMMA WritesGrow ==
  ASSUME NEW c, NEW ss, NEW n \in Nat
  PROVE  WritesUpTo(c, ss, n + 1) = WritesUpTo(c, ss, n) \o Wanted(c, ss, n + 1)
<1>1. PICK f : Lists(f, c, ss, n) /\ WritesUpTo(c, ss, n) = f[n]
  BY WritesAreListed
<1>2. PICK g : Lists(g, c, ss, n + 1) /\ WritesUpTo(c, ss, n + 1) = g[n + 1]
  BY WritesAreListed
<1>3. f[n] = g[n]
  BY <1>1, <1>2, ListsAgree
<1>4. g[n + 1] = g[n] \o Wanted(c, ss, n + 1)
  <2> DEFINE m == n + 1
  <2>1. m \in 0 .. m /\ m # 0 /\ m - 1 = n
    OBVIOUS
  <2> HIDE DEF m
  <2>2. g[m] = IF m = 0 THEN <<>> ELSE g[m - 1] \o Wanted(c, ss, m)
    BY <1>2, <2>1 DEF Lists, m
  <2> QED
    BY <2>1, <2>2 DEF m
<1> QED
  BY <1>1, <1>2, <1>3, <1>4

\* The writes of the first words do not depend on the words after them.
LEMMA WritesOfPrefix ==
  ASSUME NEW c, NEW ss, NEW tt, NEW n \in Nat, \A i \in 1 .. n : ss[i] = tt[i]
  PROVE  /\ WritesUpTo(c, ss, n) = WritesUpTo(c, tt, n)
         /\ \A i \in 0 .. n - 1 : Refused(c, ss, i) <=> Refused(c, tt, i)
<1>1. \A i \in 0 .. n - 1 : Refused(c, ss, i) <=> Refused(c, tt, i)
  BY DEF Refused, BadWord
<1>2. \A i \in 1 .. n : Wanted(c, ss, i) = Wanted(c, tt, i)
  BY <1>1 DEF Wanted
<1>3. PICK f : Lists(f, c, ss, n) /\ WritesUpTo(c, ss, n) = f[n]
  BY WritesAreListed
<1>4. PICK g : Lists(g, c, tt, n) /\ WritesUpTo(c, tt, n) = g[n]
  BY WritesAreListed
<1>5. f[n] = g[n]
  BY <1>2, <1>3, <1>4, ListsAgree
<1> QED
  BY <1>1, <1>3, <1>4, <1>5

\* The list of what a burst asks for is one of its writes, at most one for a word.
LEMMA WritesAreFew ==
  ASSUME NEW c, NEW ss, NEW n \in Nat
  PROVE  /\ WritesUpTo(c, ss, n) \in Seq({WriteOf(c, i) : i \in Nat})
         /\ Len(WritesUpTo(c, ss, n)) <= n
<1> DEFINE V == {WriteOf(c, i) : i \in Nat}
           S == Seq(V)
           Few(k) == WritesUpTo(c, ss, k) \in S /\ Len(WritesUpTo(c, ss, k)) <= k
           T == {k \in Nat : ~Few(k)}
<1>1. SUFFICES ASSUME T # {} PROVE FALSE
  OBVIOUS
<1>2. PICK m \in T : \A k \in T : m <= k
  <2>1. T \subseteq Nat
    OBVIOUS
  <2> HIDE DEF T
  <2> QED
    BY <1>1, <2>1, LeastNatural
<1>3. CASE m = 0
  <2>1. WritesUpTo(c, ss, 0) = <<>>
    BY NoWrites
  <2>2. <<>> \in S /\ Len(<<>>) <= 0
    OBVIOUS
  <2>3. Few(0)
    <3> HIDE DEF S
    <3> QED
      BY <2>1, <2>2
  <2> QED
    BY <1>2, <1>3, <2>3
<1>4. CASE m # 0
  <2> DEFINE k == m - 1
             w == WritesUpTo(c, ss, k)
             x == Wanted(c, ss, m)
  <2>1. k \in Nat /\ k \notin T /\ m = k + 1 /\ m \in Nat
    BY <1>2, <1>4
  <2>2. w \in S /\ Len(w) <= k
    BY <2>1
  <2>3. WritesUpTo(c, ss, m) = w \o x
    BY <2>1, WritesGrow
  <2>4. x \in S /\ Len(x) <= 1
    <3>1. x = <<>> \/ x = <<WriteOf(c, m)>>
      BY DEF Wanted
    <3>2. WriteOf(c, m) \in V
      BY <2>1
    <3>3. \A y \in V : <<y>> \in S /\ Len(<<y>>) <= 1
      <4> HIDE DEF V
      <4> QED
        OBVIOUS
    <3>4. <<>> \in S /\ Len(<<>>) <= 1
      OBVIOUS
    <3> HIDE DEF x, V, S
    <3> QED
      BY <3>1, <3>2, <3>3, <3>4
  <2> HIDE DEF w, x, S, k
  <2>5. w \o x \in S /\ Len(w \o x) <= m
    BY <2>1, <2>2, <2>4 DEF S
  <2> QED
    BY <1>2, <2>3, <2>5
<1> QED
  BY <1>3, <1>4

----------------------------------------------------------------------------
(* The burst in hand.                                                       *)

\* The command queue delivers no burst of the reserved type.
NoReserved == \A c \in Commands : c.burst # RESERVED

\* The burst in hand may go to the APB; At is the AXI address of its beats.
Clean == ~InitialCmdError(owner) /\ ~WrapError(owner)
At(i) == AxiAddress(owner, i)

LEMMA CommandsAreCommands ==
  ASSUME NEW c \in Commands \cup {ResetCmd}
  PROVE  IsCommand(c)
<1>1. CASE c = ResetCmd
  BY <1>1, AddrSpaceAssumption DEF ResetCmd, IsCommand
<1>2. CASE c \in Commands
  <2>1. c \in [write: BOOLEAN, burst: {FIXED, INCR, WRAP, RESERVED}, size: {0, 1, 2},
               len: 0 .. 2 ^ LenWidth - 1, id: Nat, addr: 0 .. AddrSpace - 1]
    BY <1>2, CommandsAssumption
  <2>2. c.len \in Nat
    BY <1>2, CommandFields
  <2> QED
    BY <2>1, <2>2 DEF IsCommand
<1> QED
  BY <1>1, <1>2

LEMMA CleanIsLegal ==
  ASSUME NoReserved, Owned, Clean
  PROVE  Legal(owner)
<1>1. IsCommand(owner)
  BY CommandsAreCommands DEF Owned
<1>2. owner.burst # RESERVED
  BY DEF NoReserved, Owned, ResetCmd, FIXED, RESERVED
<1> QED
  BY <1>1, <1>2 DEF Legal, Clean

----------------------------------------------------------------------------
(* Reads.                                                                   *)

GoodUpTo(n) == \A j \in 0 .. n : ~BadBeat(owner, j)

\* The beat whose address is in the registers: the next one, once the select of a
\* beat that is not the last has passed.
Addressed ==
  IF state \in {"REN", "RBUFWT"} /\ beat # owner.len THEN beat + 1 ELSE beat

\* The address registers are at the beat of the counter, or the next one once it is
\* selected, and no beat is selected unless all up to it are good.
ReadAddrInv ==
  /\ state = "NREN" => ~InitialCmdError(owner) /\ beat = 0
  /\ state \in {"RSEL", "REN", "RBUFWT"} => Clean /\ GoodUpTo(beat)
  /\ (state \in {"NREN", "RSEL", "REN", "RBUFWT"} /\ Clean) =>
       baseAddr = At(Addressed) /\ address = At(Addressed)
  /\ state \in {"RSEL", "REN"} => paddr = At(beat)
  /\ (state = "IDLE" /\ pushReadReg) => GoodUpTo(served)

AddressedInv == OrderedInv /\ ReadAddrInv

LEMMA ReadAddrInit == AtReset => ReadAddrInv
BY DEF AtReset, Reset, ReadAddrInv

\* How the counter moves in the cycles a read beat is answered.
LEMMA BeatMoves ==
  ASSUME OrderedInv, Tick, state \in {"REN", "RBUFWT"}
  PROVE  /\ beat \in Nat /\ beat <= owner.len /\ owner.len \in Nat
         /\ readFull => beat' = beat /\ state' = "RBUFWT"
         /\ ~readFull => served' = beat
         /\ (~readFull /\ state' # "IDLE") => beat' = beat + 1 /\ beat # owner.len
<1> USE DEF OrderedInv, ReadInv
<1>1. Edge /\ Registers /\ HistoryFollows
  BY StateMoves DEF Tick
<1>2. /\ beat' = NextBeat
      /\ served' = IF Starts THEN 0 ELSE IF PushReadBuffer THEN served + 1 ELSE served
  BY <1>1 DEF Registers, ControlRegisters, HistoryFollows
<1>3. cmd = owner /\ ~cmd.write /\ owner.len \in Nat /\ ~Starts
  BY CommandFields DEF Owned, ReadStates, Starts
<1>4. ~pushReadReg /\ ~PushReadBuffer
  BY DEF MasterInv, PushInv, PushReadBuffer
<1>5. beat = served + 0 /\ beat <= owner.len /\ served \in Nat
  BY <1>4 DEF BeatInv, Pushing, ReadStates
<1>6. readFull => beat' = beat /\ state' = "RBUFWT"
  BY <1>1, <1>2, ReadMoves DEF NextBeat, NextPushRead
<1>7. ~readFull => served' = beat
  BY <1>2, <1>3, <1>4, <1>5
<1>8. ASSUME ~readFull, state' # "IDLE" PROVE beat' = beat + 1 /\ beat # owner.len
  <2>1. beat # owner.len
    BY <1>1, <1>3, <1>8, OwnedInHand, Path DEF PopCmdQueue, LastBeat, Owned
  <2>2. beat' = (beat + 1) % 2 ^ LenWidth
    BY <1>2, <1>3, <1>8 DEF NextBeat, NextPushRead
  <2>3. 2 ^ LenWidth \in Int /\ (owner.len # 0 => owner.len < 2 ^ LenWidth)
    BY CommandFields DEF Owned
  <2> HIDE DEF OrderedInv, ReadInv
  <2> QED
    BY <1>3, <1>5, <2>1, <2>2, <2>3
<1> QED
  BY <1>3, <1>5, <1>6, <1>7, <1>8

\* What an edge does to the address registers in the cycles of a read.
LEMMA ReadRegistersMove ==
  ASSUME OrderedInv, Tick, state \in {"NREN", "RSEL", "REN", "RBUFWT"}
  PROVE  /\ owner' = owner /\ cmd = owner /\ ~owner.write
         /\ state = "RSEL" => /\ beat' = beat /\ paddr' = paddr
                              /\ LastBeat => baseAddr' = baseAddr /\ address' = address
                              /\ ~LastBeat =>
                                   /\ baseAddr' = BaseFromIncrBase(owner, baseAddr)
                                   /\ address' = AddressFromIncrBase(owner, baseAddr, address)
         /\ state # "RSEL" => baseAddr' = baseAddr /\ address' = address
         /\ state' = "RSEL" => paddr' = address /\ ~DcdError
         /\ state = "NREN" => beat' = beat
<1> USE DEF OrderedInv, ReadInv
<1>1. Edge /\ Registers /\ HistoryFollows
  BY StateMoves DEF Tick
<1>2. owner' = owner /\ cmd = owner /\ ~owner.write
  BY <1>1 DEF HistoryFollows, Starts, Owned, ReadStates
<1>3. ~SetAddr /\ ~PopWriteBuff /\ (IncrBaseAddr <=> state = "RSEL" /\ ~LastBeat) /\ ~IncrAddr
  BY <1>2 DEF SetAddr, PopWriteBuff, IncrBaseAddr, IncrAddr
<1>4. /\ baseAddr' = IF IncrBaseAddr THEN BaseFromIncrBase(cmd, baseAddr) ELSE baseAddr
      /\ address' = NextAddress
      /\ IF state' \in {"WSEL", "RSEL"}
         THEN paddr' = NextAddress /\ psel' = Decode(address)
         ELSE UNCHANGED <<paddr, psel>>
  BY <1>1, <1>3 DEF Registers, AddressRegisters
<1>5. NextAddress = IF IncrBaseAddr THEN AddressFromIncrBase(cmd, baseAddr, address) ELSE address
  BY <1>3 DEF NextAddress
<1>6. state \in {"RSEL", "NREN"} => beat' = beat
  BY <1>1 DEF Registers, ControlRegisters, NextBeat, NextPushRead
<1>7. state' = "RSEL" => ~DcdError /\ state # "RSEL"
  BY <1>1, StateMoves
<1>8. state = "RSEL" => state' = "REN"
  BY <1>1, StateMoves
<1> QED
  BY <1>2, <1>3, <1>4, <1>5, <1>6, <1>7, <1>8

LEMMA TickKeepsReadAddr ==
  ASSUME NoReserved, AddressedInv, Tick
  PROVE  ReadAddrInv'
<1> USE DEF AddressedInv, OrderedInv, ReadInv
<1>1. Edge /\ Registers /\ HistoryFollows
  BY StateMoves DEF Tick
<1>2. ASSUME Clean, NEW i \in Nat, baseAddr = At(i), address = At(i)
      PROVE  /\ BaseFromIncrBase(owner, baseAddr) = At(i + 1)
             /\ AddressFromIncrBase(owner, baseAddr, address) = At(i + 1)
  BY <1>2, CleanIsLegal, NextBase, NextAddressOfBurst DEF At
<1>3. CASE state' = "NREN"
  <2>1. state = "IDLE" /\ cmdReady /\ ~cmd.write
    BY <1>1, <1>3, OwnedInHand, Path, ReadMoves DEF Owned
  <2>2. ~InitialCmdError(cmd)
    BY <1>1, <1>3, <2>1
    DEF Edge, Idle, Purge, WSel, WEn, NWSel, NWEn, WDtWt, WtStart, WResp, RSel, REn, NREn,
        PrePurge, RBufWt
  <2>3. owner' = cmd /\ beat' = 0
    BY <1>1, <2>1 DEF HistoryFollows, Starts, Registers, ControlRegisters, NextBeat, NextPushRead
  <2>4. baseAddr' = cmd.addr /\ address' = cmd.addr
    BY <1>1, <2>1 DEF Registers, AddressRegisters, NextAddress, SetAddr, AddressFromSet
  <2>5. Clean' => AxiAddress(cmd, 0) = cmd.addr
    <3> SUFFICES ASSUME Clean' PROVE AxiAddress(cmd, 0) = cmd.addr
      OBVIOUS
    <3>1. Legal(cmd)
      <4>1. IsCommand(cmd) /\ cmd.burst # RESERVED
        BY CommandsAreCommands DEF Owned, NoReserved, ResetCmd, FIXED, RESERVED
      <4>2. ~InitialCmdError(cmd) /\ ~WrapError(cmd)
        BY <2>3 DEF Clean, InitialCmdError, WrapError
      <4> QED
        BY <4>1, <4>2 DEF Legal
    <3> QED
      BY <3>1, FirstAddress
  <2>6. ~InitialCmdError(owner')
    BY <2>2, <2>3
  <2> QED
    BY <1>3, <2>3, <2>4, <2>5, <2>6
    DEF ReadAddrInv, Addressed, At, InitialCmdError, AxiAddress, Container, BeatBytes, Plus
<1>4. CASE state' = "RSEL"
  <2>1. state \in {"NREN", "REN", "RBUFWT"}
    BY <1>1, <1>4, ReadMoves
  <2>2. owner' = owner /\ cmd = owner /\ baseAddr' = baseAddr /\ address' = address
        /\ paddr' = address /\ ~DcdError
    BY <1>4, <2>1, ReadRegistersMove
  <2>3. Clean
    BY <2>1, <2>2 DEF ReadAddrInv, Clean, DcdError
  <2>4. /\ beat' \in Nat /\ beat' = Addressed
        /\ GoodUpTo(beat' - 1)
    <3>1. CASE state = "NREN"
      BY <2>1, <3>1, ReadRegistersMove DEF ReadAddrInv, Addressed, GoodUpTo
    <3>2. CASE state \in {"REN", "RBUFWT"}
      <4>1. ~readFull
        BY <1>4, <3>2, BeatMoves
      <4> QED
        BY <1>4, <3>2, <4>1, BeatMoves DEF ReadAddrInv, Addressed
    <3> QED
      BY <2>1, <3>1, <3>2
  <2>5. baseAddr = At(beat') /\ address = At(beat')
    BY <2>1, <2>3, <2>4 DEF ReadAddrInv
  <2>6. ~BadBeat(owner, beat')
    BY <2>2, <2>3, <2>5 DEF BadBeat, Clean, DcdError, At
  <2>7. GoodUpTo(beat')
    BY <2>4, <2>6 DEF GoodUpTo
  <2>8. Clean' /\ (GoodUpTo(beat))' /\ (At(Addressed))' = At(beat') /\ (At(beat))' = At(beat')
    BY <1>4, <2>2, <2>3, <2>7 DEF GoodUpTo, BadBeat, Clean, At, Addressed
  <2> QED
    BY <1>4, <2>2, <2>5, <2>8 DEF ReadAddrInv
<1>5. CASE state' = "REN"
  <2>1. state = "RSEL"
    BY <1>1, <1>5, ReadMoves
  <2>2. /\ owner' = owner /\ cmd = owner /\ beat' = beat /\ paddr' = paddr
        /\ LastBeat => baseAddr' = baseAddr /\ address' = address
        /\ ~LastBeat => /\ baseAddr' = BaseFromIncrBase(owner, baseAddr)
                        /\ address' = AddressFromIncrBase(owner, baseAddr, address)
    BY <2>1, ReadRegistersMove
  <2>3. /\ Clean /\ GoodUpTo(beat) /\ baseAddr = At(beat) /\ address = At(beat)
        /\ paddr = At(beat)
    BY <2>1 DEF ReadAddrInv, Addressed
  <2>4. beat \in Nat
    BY <2>1 DEF BeatInv, Pushing, ReadStates
  <2>5. LastBeat <=> beat = owner.len
    BY <2>2 DEF LastBeat
  <2>6. ~LastBeat => baseAddr' = At(beat + 1) /\ address' = At(beat + 1)
    BY <1>2, <2>2, <2>3, <2>4
  <2>7. baseAddr' = At(Addressed') /\ address' = At(Addressed')
    BY <1>5, <2>2, <2>3, <2>5, <2>6 DEF Addressed
  <2>8. /\ Clean' /\ (GoodUpTo(beat))' /\ (At(Addressed))' = At(Addressed')
        /\ (At(beat))' = At(beat)
    BY <2>2, <2>3 DEF GoodUpTo, BadBeat, Clean, At
  <2> QED
    BY <1>5, <2>2, <2>3, <2>7, <2>8 DEF ReadAddrInv
<1>6. CASE state' = "RBUFWT"
  <2>1. state \in {"REN", "RBUFWT"} /\ readFull
    BY <1>1, <1>6, ReadMoves
  <2>2. owner' = owner /\ beat' = beat /\ baseAddr' = baseAddr /\ address' = address
    BY <2>1, ReadRegistersMove, BeatMoves
  <2>3. Addressed' = Addressed
    BY <1>6, <2>1, <2>2 DEF Addressed
  <2>4. Clean' /\ (GoodUpTo(beat))' /\ (At(Addressed))' = At(Addressed)
    BY <2>1, <2>2, <2>3 DEF GoodUpTo, BadBeat, Clean, At, ReadAddrInv
  <2>5. baseAddr = At(Addressed) /\ address = At(Addressed)
    BY <2>1 DEF ReadAddrInv
  <2> QED
    BY <1>6, <2>2, <2>4, <2>5 DEF ReadAddrInv
<1>7. (state' = "IDLE" /\ pushReadReg') => (GoodUpTo(served))'
  <2> SUFFICES ASSUME state' = "IDLE", pushReadReg' PROVE (GoodUpTo(served))'
    OBVIOUS
  <2>1. state \in {"REN", "RBUFWT"} /\ ~readFull
    BY <1>1 DEF Registers, ControlRegisters, NextPushRead
  <2>2. served' = beat /\ owner' = owner /\ GoodUpTo(beat)
    BY <2>1, BeatMoves, ReadRegistersMove DEF ReadAddrInv
  <2> QED
    BY <2>2 DEF GoodUpTo, BadBeat
<1>8. CASE state' \notin {"NREN", "RSEL", "REN", "RBUFWT"}
  BY <1>7, <1>8 DEF ReadAddrInv
<1> QED
  BY <1>3, <1>4, <1>5, <1>6, <1>8

LEMMA AddressedKept ==
  ASSUME NoReserved, AddressedInv, Tick \/ Meanwhile, CmdTyped'
  PROVE  AddressedInv'
<1>1. OrderedInv'
  BY OrderKept DEF AddressedInv
<1>2. CASE Tick
  BY <1>1, <1>2, TickKeepsReadAddr DEF AddressedInv
<1>3. CASE Meanwhile
  <2>1. ReadAddrInv'
    BY <1>3 DEF Meanwhile, AddressedInv, ReadAddrInv, Addressed, Clean, At, GoodUpTo, BadBeat,
                registers, history
  <2> QED
    BY <1>1, <2>1 DEF AddressedInv
<1> QED
  BY <1>2, <1>3

LEMMA AddressedStep == NoReserved /\ AddressedInv /\ [Next]_vars => AddressedInv'
BY AddressedKept, CmdStaysTyped, StepsAre DEF AddressedInv, OrderedInv, ReadInv

LEMMA AddressedInit == AtReset => AddressedInv
BY MasterInit, OwnedInit, BeatInit, OrderInit, ReadAddrInit
DEF AddressedInv, OrderedInv, ReadInv

\* Every APB read is made at the AXI address of its beat, in the order of the beats,
\* and none at a bad beat or past the last one, for every burst AXI allows.
THEOREM ReadsAtTheirAddress ==
  ASSUME NoReserved
  PROVE  Spec => []ReadsAtAxiAddress
<1>1. ASSUME AddressedInv, NumberedInv PROVE ReadsAtAxiAddress
  <2> SUFFICES ASSUME state = "REN"
               PROVE  /\ prdata <= owner.len /\ paddr = AxiAddress(owner, prdata)
                      /\ ~BadBeat(owner, prdata)
    BY DEF ReadsAtAxiAddress
  <2> USE <1>1 DEF AddressedInv, OrderedInv, ReadInv
  <2>1. prdata = beat /\ beat <= owner.len /\ beat \in Nat
    BY <1>1 DEF NumberedInv, NumberInv, BeatInv, Pushing, ReadStates
  <2>2. paddr = At(beat) /\ GoodUpTo(beat)
    BY DEF ReadAddrInv
  <2> QED
    BY <2>1, <2>2 DEF At, GoodUpTo
<1> QED
  BY <1>1, InitResets, AddressedInit, AddressedStep, NumberedInit, NumberStep, PTL DEF Spec

LEMMA AddressedBeats ==
  ASSUME AddressedInv, PushReadBuffer, ~rdError
  PROVE  GoodUpTo(served)
<1> USE DEF AddressedInv, OrderedInv, ReadInv
<1>1. ~(state = "PURGE" /\ ~cmd.write)
  BY DEF OrderInv, Owned
<1>2. pushReadReg /\ state \in {"RSEL", "IDLE"}
  BY <1>1 DEF PushReadBuffer, MasterInv, PushInv, OrderInv
<1>3. CASE state = "RSEL"
  <2>1. beat = served + 1 /\ served \in Nat
    BY <1>2, <1>3 DEF BeatInv, Pushing, ReadStates
  <2>2. GoodUpTo(beat)
    BY <1>3 DEF ReadAddrInv
  <2> QED
    BY <2>1, <2>2 DEF GoodUpTo
<1>4. CASE state = "IDLE"
  BY <1>2, <1>4 DEF ReadAddrInv
<1> QED
  BY <1>2, <1>3, <1>4

\* No beat at or after a bad address claims success, although the error bit of a beat
\* is registered a cycle after its address was checked.
THEOREM BadBeatsAreFlagged ==
  ASSUME NoReserved
  PROVE  Spec => []BadBeatsFail
<1>1. AddressedInv => BadBeatsFail
  BY AddressedBeats DEF BadBeatsFail, GoodUpTo
<1> QED
  BY <1>1, InitResets, AddressedInit, AddressedStep, PTL DEF Spec

----------------------------------------------------------------------------
(* Writes.                                                                  *)

\* The first n words of the burst in hand are good; the APB has seen what they ask for.
Passed(n) == ~Refused(owner, popped, n - 1)
Done(n) == writes = WritesUpTo(owner, popped, n)

\* After a word was written or skipped, no new one has come: the end of the burst, or
\* an empty buffer.  Otherwise the word register holds a word not checked yet.
Stale == popRequest /\ (writeLastReg \/ writeBuffEmpty)

\* A word on its way to the APB.
Writing(n) ==
  /\ pwdata = n /\ popped[n + 1] = "all"
  /\ Passed(n + 1) /\ Done(n) /\ paddr = At(n)

\* A word that is ahead of its command is the first of its burst.
AheadFits == (wordReady /\ ~Unfinished) => word.data = 0

\* The word register and the base register belong to the last word popped.
WordRegInv ==
  /\ InHand => popped[Len(popped)] = wordReg.strobes /\ wordReg.data = Len(popped) - 1
  /\ (state \in {"WSEL", "WEN", "NWSEL", "NWEN", "WDTWT"} /\ Clean) =>
       baseAddr = At(Len(popped) - 1)
  /\ AheadFits

\* What the control's copies of the buffer flags stand for.
FlagInv ==
  /\ state \in {"WSEL", "NWSEL"} => (writeLastReg \/ wordReady \/ writeBuffEmpty)
  /\ state \in {"IDLE", "WTSTART", "WDTWT"} => ~writeLastReg
  /\ (state \in {"WEN", "NWEN"} /\ Stale /\ writeLastReg) => wordReg.last
  /\ state \in {"IDLE", "WTSTART", "WDTWT", "WSEL", "NWSEL", "WEN", "NWEN"} => ~error

\* The address of a word not checked yet.
Unchecked == ~Stale /\ (Clean => address = At(Len(popped) - 1))

\* How far the burst is done.
ProgressInv ==
  LET p == Len(popped) IN
  /\ state = "WTSTART" => writes = <<>>
  /\ state = "WSEL" => Writing(p - 1)
  /\ state = "WEN" =>
       \/ Stale /\ Writing(p - 1)
       \/ Unchecked /\ p >= 2 /\ Writing(p - 2)
  /\ state \in {"NWSEL", "WDTWT"} => Passed(p) /\ Done(p)
  /\ state = "NWEN" =>
       \/ Stale /\ Passed(p) /\ Done(p)
       \/ Unchecked /\ Passed(p - 1) /\ Done(p - 1)
  /\ (state = "PURGE" /\ owner.write) => error /\ ~Passed(p) /\ Done(p)
  /\ state = "WRESP" => p = owner.len + 1 /\ Done(p) /\ (error <=> ~Passed(p))
  /\ (state = "IDLE" /\ owner.write) => p = owner.len + 1 /\ Done(p)

\* What is kept for the response.
AnswerInv ==
  /\ error \in BOOLEAN /\ savedError \in BOOLEAN
  /\ state # "IDLE" => savedCmdId = owner.id
  /\ dlydResp => /\ owner.write /\ savedCmdId = owner.id
                 /\ savedError <=> ~Passed(Len(popped))

WriteDataInv == MasterInv /\ WriteInv /\ WordRegInv /\ FlagInv /\ ProgressInv /\ AnswerInv

LEMMA WriteDataInit == AtReset => WriteDataInv
<1> SUFFICES ASSUME AtReset PROVE WordRegInv /\ FlagInv /\ ProgressInv /\ AnswerInv
  BY MasterInit, OwnedInit, WriteInit DEF WriteDataInv, WriteInv
<1>1. /\ state = "IDLE" /\ wordReady = FALSE /\ error = FALSE /\ savedError = FALSE
      /\ writeLastReg = FALSE /\ dlydResp = FALSE /\ owner = ResetCmd
  BY DEF AtReset, Reset
<1>2. ~owner.write
  BY <1>1 DEF ResetCmd
<1>3. WordRegInv
  BY <1>1 DEF WordRegInv, AheadFits, InHand
<1>4. FlagInv /\ AnswerInv
  BY <1>1 DEF FlagInv, AnswerInv
<1>5. ProgressInv
  BY <1>1, <1>2 DEF ProgressInv
<1> QED
  BY <1>3, <1>4, <1>5

\* What an edge does to the words of the write in hand, and what it leaves.
LEMMA WriteRegistersMove ==
  ASSUME WriteDataInv, Tick, state # "IDLE", owner.write
  PROVE  /\ owner' = owner /\ cmd = owner /\ cmdReady
         /\ Len(popped) \in Nat /\ owner.len \in Nat
         /\ PopWriteBuff => /\ Len(popped') = Len(popped) + 1 /\ ~writeBuffEmpty'
                            /\ popped'[Len(popped) + 1] = wordReg'.strobes
                            /\ wordReg'.data = Len(popped)
         /\ ~PopWriteBuff => popped' = popped /\ wordReg' = wordReg
         /\ state # "WEN" => writes' = writes
         /\ \A n \in 0 .. Len(popped) :
              /\ WritesUpTo(owner, popped', n) = WritesUpTo(owner, popped, n)
              /\ Refused(owner, popped', n - 1) <=> Refused(owner, popped, n - 1)
         /\ \A n \in 1 .. Len(popped) : popped'[n] = popped[n]
<1> USE DEF WriteDataInv
<1>1. Registers /\ HistoryFollows
  BY StateMoves DEF Tick
<1>2. owner' = owner /\ cmd = owner /\ cmdReady /\ owner.len \in Nat
  BY <1>1, CommandFields DEF WriteInv, Owned, HistoryFollows, Starts
<1>3. popped \in Seq(Strobes \cup {"none"}) /\ word.strobes \in Strobes \cup {"none"}
  BY DEF WriteInv, WordInv, WordFits, IssuedWords
<1>4. PopWriteBuff => popped' = Append(popped, word.strobes) /\ wordReg' = word
  <2>1. popped \o <<word.strobes>> = Append(popped, word.strobes)
    BY <1>3
  <2> QED
    BY <1>1, <2>1 DEF HistoryFollows, Starts, Registers, DataRegisters
<1>5. PopWriteBuff => word.data = Len(popped)
  BY PopsUnfinished DEF WriteInv, WordInv, WordFits
<1>6. ~PopWriteBuff => popped' = popped /\ wordReg' = wordReg
  BY WordsMove
<1>7. \A n \in 1 .. Len(popped) : popped'[n] = popped[n]
  BY <1>3, <1>4, <1>6
<1>8. ASSUME NEW n \in 0 .. Len(popped)
      PROVE  /\ WritesUpTo(owner, popped', n) = WritesUpTo(owner, popped, n)
             /\ Refused(owner, popped', n - 1) <=> Refused(owner, popped, n - 1)
  <2>1. n \in Nat /\ \A i \in 1 .. n : popped'[i] = popped[i]
    BY <1>3, <1>7
  <2>2. /\ WritesUpTo(owner, popped', n) = WritesUpTo(owner, popped, n)
        /\ \A i \in 0 .. n - 1 : Refused(owner, popped', i) <=> Refused(owner, popped, i)
    BY <2>1, WritesOfPrefix
  <2>3. CASE n = 0
    BY <2>2, <2>3 DEF Refused
  <2>4. CASE n # 0
    BY <2>1, <2>2, <2>4
  <2> QED
    BY <2>3, <2>4
<1>9. state # "WEN" => writes' = writes
  BY <1>1 DEF HistoryFollows, Starts
<1>10. PopWriteBuff => Len(popped') = Len(popped) + 1 /\ popped'[Len(popped) + 1] = word.strobes
                       /\ ~writeBuffEmpty'
  BY <1>1, <1>3, <1>4 DEF Registers, ControlRegisters, NextWriteBuffEmpty
<1>11. Len(popped) \in Nat
  BY <1>3
<1> QED
  BY <1>2, <1>4, <1>5, <1>6, <1>7, <1>8, <1>9, <1>10, <1>11

\* One word more is good, or the burst is refused from it on.
LEMMA PassedGrows ==
  ASSUME NEW n \in Nat
  PROVE  /\ Passed(0)
         /\ Passed(n + 1) <=> Passed(n) /\ ~BadWord(owner, popped, n)
<1>1. Passed(0)
  BY DEF Passed, Refused
<1>2. (n + 1) - 1 = n /\ 0 .. n = (0 .. n - 1) \cup {n}
  OBVIOUS
<1> QED
  BY <1>1, <1>2 DEF Passed, Refused

\* A word that is not written adds nothing.
LEMMA SkippedWord ==
  ASSUME NEW c, NEW ss, NEW n \in Nat, ss[n + 1] # "all" \/ Refused(c, ss, n)
  PROVE  WritesUpTo(c, ss, n + 1) = WritesUpTo(c, ss, n)
<1>1. Wanted(c, ss, n + 1) = <<>>
  BY DEF Wanted
<1>2. WritesUpTo(c, ss, n) \in Seq({WriteOf(c, i) : i \in Nat})
  BY WritesAreFew
<1> DEFINE V == {WriteOf(c, i) : i \in Nat}
           w == WritesUpTo(c, ss, n)
<1>3. w \o <<>> = w
  <2>1. w \in Seq(V)
    BY <1>2
  <2> HIDE DEF V, w
  <2> QED
    BY <2>1
<1> QED
  BY <1>1, <1>3, WritesGrow

\* A write begins: the first word is taken, or waited for.
LEMMA WriteStarts ==
  ASSUME NoReserved, WriteDataInv, Tick, state = "IDLE"
  PROVE  \/ state' = "IDLE" /\ UNCHANGED <<owner, popped, writes>> /\ ~PopWriteBuff
         \/ state' # "IDLE" /\ ~owner'.write /\ state' \in {"NREN", "PURGE"} /\ owner' = cmd
         \/ /\ owner' = cmd /\ owner'.write /\ writes' = <<>> /\ state' = "WTSTART"
            /\ popped' = <<>> /\ ~PopWriteBuff
         \/ /\ owner' = cmd /\ owner'.write /\ writes' = <<>> /\ state' = "NWEN"
            /\ PopWriteBuff /\ Len(popped') = 1 /\ popped'[1] = wordReg'.strobes
            /\ wordReg'.data = 0 /\ ~writeBuffEmpty'
            /\ Clean' => baseAddr' = (At(0))' /\ address' = (At(0))'
<1> USE DEF WriteDataInv
<1>1. Edge /\ Registers /\ HistoryFollows /\ Owned
  BY StateMoves DEF Tick, WriteInv
<1>2. CASE ~cmdReady
  BY <1>1, <1>2, OwnedInHand, Path DEF HistoryFollows, Starts, PopWriteBuff, WriteInv, WordInv
<1>3. CASE cmdReady /\ ~cmd.write
  BY <1>1, <1>3, OwnedInHand, Path DEF HistoryFollows, Starts
<1>4. CASE cmdReady /\ cmd.write /\ ~wordReady
  BY <1>1, <1>4, OwnedInHand, Path DEF HistoryFollows, Starts, PopWriteBuff
<1>5. CASE cmdReady /\ cmd.write /\ wordReady
  <2>1. /\ owner' = cmd /\ state' = "NWEN" /\ PopWriteBuff /\ writes' = <<>>
        /\ popped' = <<>> \o <<word.strobes>> /\ wordReg' = word /\ ~writeBuffEmpty'
    BY <1>1, <1>5, OwnedInHand, Path
    DEF HistoryFollows, Starts, PopWriteBuff, Registers, DataRegisters, ControlRegisters,
        NextWriteBuffEmpty
  <2>2. Len(popped') = 1 /\ popped'[1] = word.strobes
    BY <2>1
  <2>3. word.data = 0
    BY <1>5 DEF WordRegInv, AheadFits, Unfinished
  <2>4. baseAddr' = cmd.addr /\ address' = WordAligned(cmd.addr)
    BY <1>1, <1>5 DEF Registers, AddressRegisters, NextAddress, SetAddr, AddressFromSet
  <2>5. ASSUME Clean' PROVE AxiAddress(cmd, 0) = cmd.addr /\ WordAligned(cmd.addr) = cmd.addr
    <3>1. IsCommand(cmd) /\ cmd.burst # RESERVED
      BY <1>1, CommandsAreCommands DEF Owned, NoReserved, ResetCmd, FIXED, RESERVED
    <3>2. ~InitialCmdError(cmd) /\ ~WrapError(cmd)
      BY <2>1, <2>5 DEF Clean, InitialCmdError, WrapError
    <3>3. Legal(cmd)
      BY <3>1, <3>2 DEF Legal
    <3> QED
      BY <3>3, FirstAddress, LegalFields DEF WordAligned, WordBytes
  <2>6. (At(0))' = AxiAddress(cmd, 0)
    BY <2>1 DEF At, AxiAddress, Container, BeatBytes, Plus
  <2> QED
    BY <1>5, <2>1, <2>2, <2>3, <2>4, <2>5, <2>6
<1> QED
  BY <1>1, <1>2, <1>3, <1>4, <1>5 DEF Owned

\* The address registers in the cycles of a write: a pop takes them to the next word.
LEMMA WriteAddresses ==
  ASSUME NoReserved, WriteDataInv, Tick, owner.write,
         state \in {"WTSTART", "WDTWT", "WSEL", "NWSEL"}, PopWriteBuff, Clean
  PROVE  baseAddr' = At(Len(popped)) /\ address' = At(Len(popped))
<1> USE DEF WriteDataInv
<1>1. Registers /\ cmd = owner
  BY StateMoves DEF Tick, WriteInv, Owned
<1>2. Legal(owner)
  BY CleanIsLegal DEF WriteInv
<1>3. /\ baseAddr' = IF SetAddr THEN cmd.addr
                     ELSE IF IncrBaseAddr THEN BaseFromIncrBase(cmd, baseAddr) ELSE baseAddr
      /\ address' = NextAddress
  BY <1>1 DEF Registers, AddressRegisters
<1>4. CASE state = "WTSTART"
  <2>1. baseAddr' = owner.addr /\ address' = WordAligned(owner.addr)
    BY <1>1, <1>3, <1>4 DEF SetAddr, NextAddress, AddressFromSet
  <2>2. WordAligned(owner.addr) = owner.addr /\ AxiAddress(owner, 0) = owner.addr
    BY <1>2, FirstAddress, LegalFields DEF WordAligned, WordBytes
  <2>3. Len(popped) = 0
    BY <1>4 DEF WriteInv, DrainInv
  <2> QED
    BY <2>1, <2>2, <2>3 DEF At
<1>5. CASE state # "WTSTART"
  <2>1. ~SetAddr /\ IncrBaseAddr
    BY <1>5 DEF SetAddr, IncrBaseAddr
  <2>2. /\ baseAddr' = BaseFromIncrBase(owner, baseAddr)
        /\ address' = AddressFromIncrBase(owner, baseAddr, address)
    BY <1>1, <1>3, <2>1 DEF NextAddress
  <2>3. baseAddr = At(Len(popped) - 1) /\ Len(popped) - 1 \in Nat
    BY <1>5, WriteRegistersMove DEF WordRegInv, WriteInv, DrainInv, InHand
  <2>4. Len(popped) \in Nat /\ (Len(popped) - 1) + 1 = Len(popped)
    BY WriteRegistersMove
  <2> QED
    BY <1>2, <2>2, <2>3, <2>4, NextBase, NextAddressOfBurst DEF At
<1> QED
  BY <1>4, <1>5

LEMMA TickKeepsWordReg ==
  ASSUME NoReserved, WriteDataInv, Tick, AheadFits'
  PROVE  WordRegInv'
<1> USE DEF WriteDataInv
<1>1. Edge /\ Registers /\ HistoryFollows /\ Owned
  BY StateMoves DEF Tick, WriteInv
<1>2. InHand' => popped'[Len(popped')] = wordReg'.strobes /\ wordReg'.data = Len(popped') - 1
  <2> SUFFICES ASSUME InHand'
               PROVE  popped'[Len(popped')] = wordReg'.strobes /\ wordReg'.data = Len(popped') - 1
    OBVIOUS
  <2>1. CASE state = "IDLE"
    BY <1>1, <2>1, WriteStarts DEF InHand
  <2>2. CASE state # "IDLE"
    <3>1. owner' = owner
      BY <1>1, <2>2 DEF HistoryFollows, Starts
    <3>2. owner.write
      BY <1>1, <2>2, <3>1, OwnedInHand, Path
      DEF InHand, Owned, States, ReadStates, WriteStates
    <3>3. CASE PopWriteBuff
      <4>1. /\ Len(popped') = Len(popped) + 1 /\ Len(popped) \in Nat
            /\ popped'[Len(popped) + 1] = wordReg'.strobes /\ wordReg'.data = Len(popped)
        BY <2>2, <3>2, <3>3, WriteRegistersMove
      <4> QED
        BY <4>1
    <3>4. CASE ~PopWriteBuff
      <4>1. state # "WTSTART"
        BY <1>1, <2>2, <3>2, <3>4, WriteMoves DEF InHand, PopWriteBuff, Owned
      <4>2. InHand
        BY <1>1, <2>2, <3>2, <4>1, OwnedInHand, Path, WriteMoves DEF InHand, Owned, States, ReadStates
      <4> QED
        BY <2>2, <3>2, <3>4, <4>2, WriteRegistersMove DEF WordRegInv
    <3> QED
      BY <3>3, <3>4
  <2> QED
    BY <2>1, <2>2
<1>3. (state' \in {"WSEL", "WEN", "NWSEL", "NWEN", "WDTWT"} /\ Clean') =>
         baseAddr' = (At(Len(popped) - 1))'
  <2> SUFFICES ASSUME state' \in {"WSEL", "WEN", "NWSEL", "NWEN", "WDTWT"}, Clean'
               PROVE  baseAddr' = (At(Len(popped) - 1))'
    OBVIOUS
  <2>1. CASE state = "IDLE"
    <3>1. Len(popped') = 1 /\ baseAddr' = (At(0))'
      BY <2>1, WriteStarts
    <3>2. Len(popped') - 1 = 0
      BY <3>1
    <3> QED
      BY <3>1, <3>2 DEF At
  <2>2. CASE state # "IDLE"
    <3>1. owner' = owner
      BY <1>1, <2>2 DEF HistoryFollows, Starts
    <3>2. owner.write
      BY <1>1, <2>2, <3>1, OwnedInHand, Path
      DEF InHand, Owned, States, ReadStates, WriteStates
    <3>3. Clean /\ (At(Len(popped) - 1))' = At(Len(popped') - 1)
      BY <3>1 DEF Clean, At
    <3>4. state \in {"WTSTART", "WDTWT", "WSEL", "NWSEL", "WEN", "NWEN"}
      BY <1>1, <2>2, <3>2, OwnedInHand, Path, WriteMoves DEF Owned, States, ReadStates
    <3>5. CASE PopWriteBuff
      <4>1. state \notin {"WEN", "NWEN"} /\ Len(popped') - 1 = Len(popped)
        BY <2>2, <3>2, <3>5, WriteRegistersMove DEF PopWriteBuff
      <4>2. state \in {"WTSTART", "WDTWT", "WSEL", "NWSEL"}
        BY <3>4, <4>1
      <4> QED
        BY <3>2, <3>3, <3>5, <4>1, <4>2, WriteAddresses
    <3>6. CASE ~PopWriteBuff
      <4>1. state # "WTSTART" /\ popped' = popped
        BY <1>1, <2>2, <3>2, <3>6, WriteMoves, WriteRegistersMove DEF PopWriteBuff, Owned
      <4>2. ~SetAddr /\ ~IncrBaseAddr
        BY <3>4, <3>6, <4>1 DEF SetAddr, IncrBaseAddr
      <4>3. baseAddr' = baseAddr
        BY <1>1, <4>2 DEF Registers, AddressRegisters
      <4> QED
        BY <3>3, <3>4, <4>1, <4>3 DEF WordRegInv
    <3> QED
      BY <3>5, <3>6
  <2> QED
    BY <2>1, <2>2
<1> QED
  BY <1>2, <1>3 DEF WordRegInv

LEMMA TickKeepsFlags ==
  ASSUME WriteInv, FlagInv, Tick
  PROVE  FlagInv'
<1>1. Edge /\ Registers /\ HistoryFollows /\ Owned
  BY StateMoves DEF Tick, WriteInv
<1>2. /\ writeLastReg' = NextWriteLastReg /\ writeBuffEmpty' = NextWriteBuffEmpty
      /\ error' = NextError /\ (wordReady /\ ~PopWriteBuff => wordReady')
  BY <1>1 DEF Registers, ControlRegisters, Tick, PinsKeep
<1>3. state' \in {"WSEL", "NWSEL"} => state \in {"WEN", "NWEN"}
  BY <1>1, WriteMoves, OwnedInHand, Path DEF Owned, States, ReadStates
<1>4. state' \in {"WSEL", "NWSEL"} => (writeLastReg' \/ wordReady' \/ writeBuffEmpty')
  BY <1>2, <1>3 DEF NextWriteBuffEmpty, PopWriteBuff
<1>5. state' = "WTSTART" => state \in {"IDLE", "WTSTART"}
  BY <1>1, WriteMoves, AfterWriteLands, OwnedInHand, Path DEF Owned, States, ReadStates
<1>6. state' = "WDTWT" => state = "WDTWT" \/ (state \in {"WEN", "NWEN"} /\ ~wordReg.last)
  <2>1. state' = "WDTWT" => state \in {"WDTWT", "WEN", "NWEN"}
    BY <1>1, WriteMoves, OwnedInHand, Path DEF Owned, States, ReadStates
  <2>2. (state' = "WDTWT" /\ state \in {"WEN", "NWEN"}) => ~wordReg.last
    BY <1>1, WriteMoves, AfterWriteLands DEF WriteInv, DrainInv
  <2> QED
    BY <2>1, <2>2
<1>7. state' \in {"IDLE", "WTSTART", "WDTWT"} => ~writeLastReg'
  BY <1>2, <1>5, <1>6 DEF NextWriteLastReg, FlagInv
<1>8. ASSUME state' \in {"WEN", "NWEN"}, writeLastReg' PROVE wordReg'.last
  <2>1. state \in {"WSEL", "NWSEL"}
    <3>1. state \in {"IDLE", "WTSTART", "WDTWT", "WSEL", "NWSEL"}
      BY <1>1, <1>8, StateMoves, WriteMoves, AfterWriteLands, OwnedInHand, Path
      DEF Owned, States, ReadStates
    <3> QED
      BY <1>2, <1>8, <3>1 DEF NextWriteLastReg, FlagInv
  <2>2. writeLastReg /\ wordReg.last
    BY <1>2, <1>8, <2>1 DEF NextWriteLastReg, WriteInv, DrainInv
  <2>3. ~PopWriteBuff
    BY <2>1, <2>2 DEF PopWriteBuff
  <2> QED
    BY <2>1, <2>2, <2>3, WordsMove
<1>9. state' \in {"IDLE", "WTSTART", "WDTWT", "WSEL", "NWSEL", "WEN", "NWEN"} => ~error'
  <2>1. state' \in {"WTSTART", "WDTWT", "WSEL", "NWSEL", "WEN", "NWEN"} =>
          state \in {"IDLE", "WTSTART", "WDTWT", "WSEL", "NWSEL", "WEN", "NWEN"}
    BY <1>1, WriteMoves, OwnedInHand, Path DEF Owned, States, ReadStates
  <2> QED
    BY <1>2, <2>1 DEF NextError, FlagInv
<1> QED
  BY <1>4, <1>7, <1>8, <1>9 DEF FlagInv

LEMMA TickKeepsAnswer ==
  ASSUME NoReserved, WriteDataInv, Tick
  PROVE  AnswerInv'
<1> USE DEF WriteDataInv
<1>1. Edge /\ Registers /\ HistoryFollows /\ Owned
  BY StateMoves DEF Tick, WriteInv
<1>2. /\ error' = NextError /\ savedError' = RespStatus
      /\ savedCmdId' = IF state = "IDLE" THEN cmd.id ELSE savedCmdId
      /\ dlydResp' = IF PushResponse THEN FALSE ELSE dlydResp \/ PushRspRequest
  BY <1>1 DEF Registers, ControlRegisters, ResponseRegisters
<1>3. error' \in BOOLEAN /\ savedError' \in BOOLEAN
  BY <1>2 DEF NextError, RespStatus, AnswerInv
<1>4. state' # "IDLE" => savedCmdId' = owner'.id
  BY <1>1, <1>2, OwnedInHand, Path DEF HistoryFollows, Starts, AnswerInv
<1>5. ASSUME dlydResp'
      PROVE  /\ owner'.write /\ savedCmdId' = owner'.id
             /\ savedError' <=> ~(Passed(Len(popped)))'
  <2>1. PushRspRequest /\ state = "WRESP"
    BY <1>2, <1>5 DEF PushResponse, MasterInv, ResponseInv, PushRspRequest
  <2>2. owner.write /\ owner' = owner /\ popped' = popped
    BY <1>1, <2>1, WriteRegistersMove DEF PopWriteBuff, Owned, WriteStates
  <2>3. savedError' = error /\ (error <=> ~Passed(Len(popped)))
    BY <1>2, <2>1 DEF RespStatus, ProgressInv
  <2> QED
    BY <1>2, <2>1, <2>2, <2>3 DEF AnswerInv, Passed
<1> QED
  BY <1>3, <1>4, <1>5 DEF AnswerInv

\* At the end of a write cycle, or of a cycle that needs no write: either no new word
\* has come, or the register holds one that is not checked yet.
LEMMA AccessEnds ==
  ASSUME WriteDataInv, Tick, state \in {"WEN", "NWEN"}
  PROVE  LET p == Len(popped) IN
         /\ p \in Nat /\ p >= 1
         /\ \/ Stale /\ Passed(p) /\ writes' = WritesUpTo(owner, popped, p)
            \/ Unchecked /\ Passed(p - 1) /\ writes' = WritesUpTo(owner, popped, p - 1)
<1> DEFINE p == Len(popped)
<1> USE DEF WriteDataInv
<1>1. Registers /\ HistoryFollows /\ owner.write
  BY StateMoves DEF Tick, WriteInv, Owned, WriteStates
<1>2. p \in Nat /\ p >= 1
  BY <1>1, WriteRegistersMove DEF WriteInv, DrainInv, InHand
<1>3. CASE state = "NWEN"
  <2>1. writes' = writes
    BY <1>1, <1>3, WriteRegistersMove
  <2> QED
    BY <1>2, <1>3, <2>1 DEF ProgressInv, Done
<1>4. CASE state = "WEN"
  <2>1. ASSUME NEW n \in Nat, Writing(n)
        PROVE  writes' = WritesUpTo(owner, popped, n + 1)
    <3>1. writes' = Append(writes, [addr |-> paddr, sel |-> psel, data |-> pwdata])
      BY <1>1, <1>4 DEF HistoryFollows, Starts
    <3>2. psel = Decode(paddr)
      BY <1>4 DEF MasterInv, SelectsDecoded, Selecting
    <3>3. paddr = AxiAddress(owner, n) /\ pwdata = n /\ writes = WritesUpTo(owner, popped, n)
      BY <2>1 DEF Writing, At, Done
    <3>4. (n + 1) - 1 = n
      OBVIOUS
    <3>5. WriteOf(owner, n + 1) = [addr |-> paddr, sel |-> psel, data |-> pwdata]
      BY <3>2, <3>3, <3>4 DEF WriteOf
    <3>6. popped[n + 1] = "all" /\ ~Refused(owner, popped, n)
      BY <2>1, <3>4 DEF Writing, Passed
    <3>7. Wanted(owner, popped, n + 1) = <<WriteOf(owner, n + 1)>>
      BY <3>4, <3>6 DEF Wanted
    <3>8. WritesUpTo(owner, popped, n + 1) = WritesUpTo(owner, popped, n) \o <<WriteOf(owner, n + 1)>>
      BY <3>7, WritesGrow
    <3> DEFINE V == {WriteOf(owner, i) : i \in Nat}
    <3>9. writes \in Seq(V)
      BY <3>3, WritesAreFew
    <3>10. WriteOf(owner, n + 1) \in V
      OBVIOUS
    <3>11. \A s \in Seq(V), x \in V : s \o <<x>> = Append(s, x)
      <4> HIDE DEF V
      <4> QED
        OBVIOUS
    <3>12. writes \o <<WriteOf(owner, n + 1)>> = Append(writes, WriteOf(owner, n + 1))
      <4> HIDE DEF V
      <4> QED
        BY <3>9, <3>10, <3>11
    <3> QED
      BY <3>1, <3>3, <3>5, <3>8, <3>12
  <2>2. CASE Stale /\ Writing(p - 1)
    <3>1. p - 1 \in Nat /\ (p - 1) + 1 = p
      BY <1>2
    <3>2. writes' = WritesUpTo(owner, popped, p)
      BY <2>1, <2>2, <3>1
    <3> QED
      BY <1>2, <2>2, <3>1, <3>2 DEF Writing
  <2>3. CASE Unchecked /\ p >= 2 /\ Writing(p - 2)
    <3>1. p - 2 \in Nat /\ (p - 2) + 1 = p - 1
      BY <1>2, <2>3
    <3>2. writes' = WritesUpTo(owner, popped, p - 1)
      BY <2>1, <2>3, <3>1
    <3> QED
      BY <1>2, <2>3, <3>1, <3>2 DEF Writing
  <2> QED
    BY <1>4, <2>2, <2>3 DEF ProgressInv
<1> QED
  BY <1>3, <1>4

\* The check of a word decides as the burst asks.
LEMMA WordIsChecked ==
  ASSUME WriteDataInv, state \in {"WEN", "NWEN"}, Unchecked
  PROVE  LET i == Len(popped) - 1 IN
         /\ AfterWrite = CheckOnStrobes
         /\ AnyError <=> BadBeat(owner, i)
         /\ popped[Len(popped)] = wordReg.strobes /\ wordReg.data = i
         /\ wordReg.strobes \in {"all", "none", "some"}
<1> USE DEF WriteDataInv
<1>1. AfterWrite = CheckOnStrobes
  BY DEF AfterWrite, Unchecked, Stale
<1>2. ~error /\ cmd = owner
  BY DEF FlagInv, WriteInv, Owned
<1>3. AnyError <=> BadBeat(owner, Len(popped) - 1)
  BY <1>2 DEF AnyError, DcdError, BadBeat, Unchecked, Clean, At
<1>4. popped[Len(popped)] = wordReg.strobes /\ wordReg.data = Len(popped) - 1
  BY DEF WordRegInv, InHand
<1>5. wordReg.strobes \in {"all", "none", "some"}
  BY StrobesAssumption DEF WriteInv, WordInv, WordFits, IssuedWords
<1> QED
  BY <1>1, <1>3, <1>4, <1>5

\* Progress from a write cycle, or from one that needs no write.
LEMMA ProgressOfAccess ==
  ASSUME WriteDataInv, Tick, state \in {"WEN", "NWEN"}
  PROVE  ProgressInv'
<1> DEFINE p == Len(popped)
<1> USE DEF WriteDataInv
<1>1. Edge /\ Registers /\ owner.write /\ cmd.write
  BY StateMoves DEF Tick, WriteInv, Owned, WriteStates
<1>2. ~PopWriteBuff
  BY DEF PopWriteBuff
<1>3. /\ owner' = owner /\ popped' = popped /\ wordReg' = wordReg /\ owner.len \in Nat
      /\ p \in Nat /\ p >= 1
  BY <1>1, <1>2, WriteRegistersMove, AccessEnds
<1>4. state' = AfterWrite /\ state' \in {"WRESP", "WDTWT", "WSEL", "NWSEL", "PURGE"}
  BY <1>1, WriteMoves, AfterWriteLands
<1>5. error' <=> state' = "PURGE"
  BY <1>1, <1>4 DEF Registers, ControlRegisters, NextError, FlagInv
<1>6. wordReg.last => p = owner.len + 1
  BY DEF WriteInv, DrainInv, InHand
<1>7. \A n : (Passed(n))' <=> Passed(n)
  BY <1>3 DEF Passed, Refused, BadWord, BadBeat
<1>8. CASE Stale /\ Passed(p) /\ writes' = WritesUpTo(owner, popped, p)
  <2>1. state' \in {"WRESP", "WDTWT"} /\ (state' = "WRESP" => wordReg.last)
    BY <1>4, <1>8 DEF AfterWrite, Stale, FlagInv
  <2>2. (Done(p))' /\ (Passed(p))'
    BY <1>3, <1>7, <1>8 DEF Done
  <2> QED
    BY <1>3, <1>5, <1>6, <2>1, <2>2 DEF ProgressInv, Done, Passed
<1>9. CASE Unchecked /\ Passed(p - 1) /\ writes' = WritesUpTo(owner, popped, p - 1)
  <2> DEFINE i == p - 1
  <2>1. /\ state' = CheckOnStrobes /\ (AnyError <=> BadBeat(owner, i))
        /\ popped[p] = wordReg.strobes /\ wordReg.data = i
        /\ wordReg.strobes \in {"all", "none", "some"}
    BY <1>4, <1>9, WordIsChecked
  <2>2. i \in Nat /\ i + 1 = p
    BY <1>3
  <2>3. BadWord(owner, popped, i) <=> wordReg.strobes = "some" \/ AnyError
    BY <2>1, <2>2 DEF BadWord
  <2>4. Passed(p) <=> ~BadWord(owner, popped, i)
    BY <1>9, <2>2, PassedGrows
  <2>5. (popped[p] # "all" \/ ~Passed(p)) => writes' = WritesUpTo(owner, popped, p)
    BY <1>9, <2>2, SkippedWord DEF Passed
  <2>6. CASE ~AnyError /\ wordReg.strobes = "all"
    <3>1. state' = "WSEL" /\ Passed(p)
      BY <2>1, <2>3, <2>4, <2>6 DEF CheckOnStrobes
    <3>2. pwdata' = i
      BY <1>1, <2>1, <3>1 DEF Registers, DataRegisters, NextPwdata
    <3>3. address = At(i)
      BY <1>9, <2>1, <2>6 DEF Unchecked, BadBeat, Clean
    <3>4. paddr' = address
      BY <1>1, <3>1, AddressHolds DEF Registers, AddressRegisters
    <3>5. (Done(i))'
      BY <1>3, <1>9 DEF Done
    <3>6. (At(i))' = At(i)
      BY <1>3 DEF At
    <3>7. (Writing(i))'
      <4>1. popped'[i + 1] = "all" /\ (Passed(i + 1))'
        BY <1>3, <1>7, <2>1, <2>2, <2>6, <3>1
      <4> QED
        BY <1>3, <3>2, <3>3, <3>4, <3>5, <3>6, <4>1 DEF Writing, At
    <3>8. i = Len(popped') - 1
      BY <1>3
    <3> QED
      BY <3>1, <3>7, <3>8 DEF ProgressInv, Writing, Passed, Done, At
  <2>7. CASE ~AnyError /\ wordReg.strobes = "none"
    <3>1. state' \in {"WRESP", "NWSEL", "WDTWT"} /\ (state' = "WRESP" => wordReg.last)
      BY <2>1, <2>7 DEF CheckOnStrobes
    <3>2. (Passed(p))'
      BY <1>3, <1>7, <2>3, <2>4, <2>7
    <3>3. (Done(p))'
      BY <1>3, <2>1, <2>5, <2>7 DEF Done
    <3> QED
      BY <1>3, <1>5, <1>6, <3>1, <3>2, <3>3 DEF ProgressInv, Done, Passed
  <2>8. CASE AnyError \/ wordReg.strobes = "some"
    <3>1. state' = "PURGE"
      BY <2>1, <2>8 DEF CheckOnStrobes
    <3>2. ~(Passed(p))'
      BY <1>3, <1>7, <2>3, <2>4, <2>8
    <3>3. (Done(p))'
      BY <1>3, <2>3, <2>4, <2>5, <2>8 DEF Done
    <3> QED
      BY <1>3, <1>5, <3>1, <3>2, <3>3 DEF ProgressInv, Done, Passed
  <2> QED
    BY <2>1, <2>6, <2>7, <2>8
<1> QED
  BY <1>8, <1>9, AccessEnds

\* Progress while a refused burst is drained: a word more is refused too.
LEMMA ProgressOfPurge ==
  ASSUME WriteDataInv, Tick, state = "PURGE", owner.write
  PROVE  ProgressInv'
<1> DEFINE p == Len(popped)
<1> USE DEF WriteDataInv
<1>1. Edge /\ Registers /\ Owned
  BY StateMoves DEF Tick, WriteInv
<1>2. /\ owner' = owner /\ cmd = owner /\ writes' = writes /\ p \in Nat /\ p >= 1
      /\ owner.len \in Nat
      /\ WritesUpTo(owner, popped', p) = WritesUpTo(owner, popped, p)
      /\ Refused(owner, popped', p - 1) <=> Refused(owner, popped, p - 1)
  BY WriteRegistersMove DEF WriteInv, DrainInv, InHand
<1>3. state' = IF wordReg.last THEN "WRESP" ELSE "PURGE"
  BY <1>1, <1>2, OwnedInHand, Path
<1>4. error'
  BY <1>1, <1>3 DEF Registers, ControlRegisters, NextError
<1>5. Refused(owner, popped', p - 1) /\ writes' = WritesUpTo(owner, popped', p)
  BY <1>2 DEF ProgressInv, Passed, Done
<1>6. CASE PopWriteBuff
  <2>1. state' = "PURGE" /\ Len(popped') = p + 1
    BY <1>2, <1>3, <1>6, WriteRegistersMove DEF PopWriteBuff
  <2>2. Refused(owner, popped', p)
    BY <1>2, <1>5 DEF Refused
  <2>3. writes' = WritesUpTo(owner, popped', p + 1)
    BY <1>2, <1>5, <2>2, SkippedWord
  <2>4. (p + 1) - 1 = p
    BY <1>2
  <2>5. ~(Passed(Len(popped)))' /\ (Done(Len(popped)))'
    BY <1>2, <2>1, <2>2, <2>3, <2>4 DEF Passed, Done
  <2> QED
    BY <1>4, <2>1, <2>5 DEF ProgressInv
<1>7. CASE ~PopWriteBuff
  <2>1. popped' = popped
    BY <1>7, WriteRegistersMove
  <2>2. ~(Passed(Len(popped)))' /\ (Done(Len(popped)))'
    BY <1>2, <1>5, <2>1 DEF Passed, Done
  <2>3. state' = "WRESP" => p = owner.len + 1
    BY <1>3 DEF WriteInv, DrainInv, InHand
  <2> QED
    BY <1>2, <1>3, <1>4, <2>1, <2>2, <2>3 DEF ProgressInv
<1> QED
  BY <1>6, <1>7

\* A select that finds no word leaves the flags that say so.
LEMMA NoWordIsStale ==
  ASSUME WriteInv, FlagInv, Tick, state \in {"WSEL", "NWSEL"}, ~PopWriteBuff
  PROVE  Stale'
<1>1. Registers /\ Owned /\ Edge
  BY StateMoves DEF Tick, WriteInv
<1>2. cmd.write /\ state' # "IDLE"
  BY <1>1, WriteMoves DEF Owned, WriteStates
<1>3. writeLastReg \/ ~wordReady
  BY <1>2 DEF PopWriteBuff
<1>4. writeLastReg \/ writeBuffEmpty
  BY <1>3 DEF FlagInv
<1> QED
  BY <1>1, <1>2, <1>4
  DEF Registers, ControlRegisters, Stale, NextWriteLastReg, NextWriteBuffEmpty, NextPopRequest

\* Progress from a cycle that selects, skips or waits: a word that comes is not
\* checked yet.
LEMMA ProgressOfWait ==
  ASSUME NoReserved, WriteDataInv, Tick, state \in {"WTSTART", "WDTWT", "WSEL", "NWSEL"}
  PROVE  ProgressInv'
<1> DEFINE p == Len(popped)
<1> USE DEF WriteDataInv
<1>1. Edge /\ Registers /\ Owned /\ owner.write
  BY StateMoves DEF Tick, WriteInv, Owned, WriteStates
<1>2. /\ owner' = owner /\ cmd = owner /\ cmdReady /\ writes' = writes /\ p \in Nat
      /\ owner.len \in Nat
      /\ \A n \in 0 .. p :
           /\ WritesUpTo(owner, popped', n) = WritesUpTo(owner, popped, n)
           /\ Refused(owner, popped', n - 1) <=> Refused(owner, popped, n - 1)
  BY <1>1, WriteRegistersMove
<1>3. /\ writeLastReg' = NextWriteLastReg /\ writeBuffEmpty' = NextWriteBuffEmpty
      /\ popRequest' = NextPopRequest
  BY <1>1 DEF Registers, ControlRegisters
<1>4. \A n \in 0 .. p : ((Passed(n))' <=> Passed(n)) /\ ((Done(n))' <=> Done(n))
  BY <1>2 DEF Passed, Done
<1>5. /\ state = "WTSTART" => p = 0 /\ Passed(p) /\ Done(p)
      /\ state \in {"NWSEL", "WDTWT"} => Passed(p) /\ Done(p)
  BY PassedGrows, NoWrites DEF ProgressInv, WriteInv, DrainInv, Done
<1>6. ASSUME PopWriteBuff
      PROVE  /\ Len(popped') = p + 1 /\ Unchecked'
  <2>1. Len(popped') = p + 1 /\ ~writeBuffEmpty'
    BY <1>1, <1>6, WriteRegistersMove
  <2>2. ~writeLastReg
    BY <1>6 DEF PopWriteBuff, FlagInv
  <2>3. ~writeLastReg'
    BY <1>3, <2>2 DEF NextWriteLastReg
  <2>4. Clean' => address' = At(p)
    <3>1. Clean' <=> Clean
      BY <1>2 DEF Clean
    <3> QED
      BY <1>1, <1>6, <3>1, WriteAddresses
  <2>5. (At(Len(popped) - 1))' = At(p)
    <3>1. Len(popped') - 1 = p
      BY <1>2, <2>1
    <3> QED
      BY <1>2, <3>1 DEF At
  <2> QED
    BY <2>1, <2>3, <2>4, <2>5 DEF Unchecked, Stale
<1>7. CASE state \in {"WTSTART", "WDTWT"} /\ ~wordReady
  <2>1. state' = state /\ popped' = popped
    BY <1>1, <1>7, WriteMoves, WriteRegistersMove DEF PopWriteBuff
  <2> QED
    BY <1>2, <1>4, <1>7, <2>1 DEF ProgressInv
<1>8. CASE state = "NWSEL" \/ (state \in {"WTSTART", "WDTWT"} /\ wordReady)
  <2>1. state' = "NWEN" /\ Passed(p) /\ Done(p) /\ p \in 0 .. p
    BY <1>1, <1>2, <1>5, <1>8, WriteMoves
  <2>2. CASE PopWriteBuff
    <3>1. Len(popped') - 1 = p /\ Unchecked'
      BY <1>2, <1>6, <2>2
    <3>2. ~Refused(owner, popped', p - 1) /\ writes' = WritesUpTo(owner, popped', p)
      BY <1>2, <2>1 DEF Passed, Done
    <3>3. (Passed(Len(popped) - 1))' /\ (Done(Len(popped) - 1))'
      BY <1>2, <3>1, <3>2 DEF Passed, Done
    <3> QED
      BY <2>1, <3>1, <3>3 DEF ProgressInv
  <2>3. CASE ~PopWriteBuff
    <3>1. state = "NWSEL" /\ popped' = popped
      BY <1>1, <1>2, <1>8, <2>3, WriteRegistersMove DEF PopWriteBuff
    <3>2. Stale'
      BY <2>3, <3>1, NoWordIsStale
    <3>3. (Passed(Len(popped)))' /\ (Done(Len(popped)))'
      BY <1>2, <2>1, <3>1 DEF Passed, Done
    <3> QED
      BY <2>1, <3>2, <3>3 DEF ProgressInv
  <2> QED
    BY <2>2, <2>3
<1>9. CASE state = "WSEL"
  <2>1. state' = "WEN" /\ paddr' = paddr /\ pwdata' = pwdata /\ Writing(p - 1) /\ p >= 1
    BY <1>1, <1>9, WriteMoves
    DEF Registers, AddressRegisters, DataRegisters, NextPwdata, ProgressInv, WriteInv, DrainInv,
        InHand
  <2>2. /\ pwdata' = p - 1 /\ popped'[p] = "all" /\ paddr' = At(p - 1)
        /\ ~Refused(owner, popped', p - 1) /\ writes' = WritesUpTo(owner, popped', p - 1)
    <3>1. popped'[p] = popped[p]
      BY <1>1, <1>2, <1>9, <2>1, WriteRegistersMove
    <3>2. (p - 1) + 1 = p /\ p - 1 \in 0 .. p /\ p \in 0 .. p
      BY <1>2, <2>1
    <3> QED
      BY <1>2, <2>1, <3>1, <3>2 DEF Writing, Passed, Done
  <2>3. CASE PopWriteBuff
    <3>1. /\ Len(popped') - 2 = p - 1 /\ (p - 1) + 1 = p /\ Unchecked' /\ Len(popped') >= 2
      BY <1>2, <1>6, <2>1, <2>3
    <3>2. (Writing(Len(popped) - 2))'
      BY <1>2, <2>2, <3>1 DEF Writing, Passed, Done, At
    <3> QED
      BY <2>1, <3>1, <3>2 DEF ProgressInv
  <2>4. CASE ~PopWriteBuff
    <3>1. popped' = popped
      BY <1>1, <1>9, <2>4, WriteRegistersMove
    <3>2. Stale'
      BY <1>9, <2>4, NoWordIsStale
    <3>3. (p - 1) + 1 = p
      BY <1>2
    <3>4. (Writing(Len(popped) - 1))'
      BY <1>2, <2>2, <3>1, <3>3 DEF Writing, Passed, Done, At
    <3> QED
      BY <2>1, <3>2, <3>4 DEF ProgressInv
  <2> QED
    BY <2>3, <2>4
<1> QED
  BY <1>7, <1>8, <1>9

LEMMA TickKeepsProgress ==
  ASSUME NoReserved, WriteDataInv, Tick
  PROVE  ProgressInv'
<1> USE DEF WriteDataInv
<1>1. Edge /\ Registers /\ HistoryFollows /\ Owned
  BY StateMoves DEF Tick, WriteInv
<1>2. CASE state = "IDLE"
  <2>1. CASE state' = "IDLE" /\ UNCHANGED <<owner, popped, writes>>
    BY <1>2, <2>1 DEF ProgressInv, Done
  <2>2. CASE ~owner'.write /\ state' \in {"NREN", "PURGE"}
    BY <2>2 DEF ProgressInv
  <2>3. CASE state' = "WTSTART" /\ writes' = <<>>
    BY <2>3 DEF ProgressInv
  <2>4. CASE /\ owner' = cmd /\ writes' = <<>> /\ state' = "NWEN" /\ Len(popped') = 1
             /\ ~writeBuffEmpty'
             /\ Clean' => address' = (At(0))'
    <3>1. Len(popped') - 1 = 0
      BY <2>4
    <3>2. (Passed(Len(popped) - 1))' /\ (Done(Len(popped) - 1))'
      <4>1. \A j \in 0 .. 0 - 1 : FALSE
        OBVIOUS
      <4> QED
        BY <2>4, <3>1, <4>1, NoWrites DEF Passed, Refused, Done
    <3>3. ~writeLastReg'
      BY <1>1, <1>2, <2>4 DEF Registers, ControlRegisters, NextWriteLastReg, FlagInv
    <3>4. Unchecked'
      BY <2>4, <3>1, <3>3 DEF Unchecked, Stale, At
    <3> QED
      BY <2>4, <3>2, <3>4 DEF ProgressInv
  <2> QED
    BY <1>2, <2>1, <2>2, <2>3, <2>4, WriteStarts
<1>3. CASE state \in {"WTSTART", "WDTWT", "WSEL", "NWSEL"}
  BY <1>3, ProgressOfWait
<1>4. CASE state \in {"WEN", "NWEN"}
  BY <1>4, ProgressOfAccess
<1>5. CASE state = "PURGE" /\ owner.write
  BY <1>5, ProgressOfPurge
<1>6. CASE state = "WRESP"
  <2>1. owner.write /\ ~PopWriteBuff
    BY <1>1, <1>6 DEF Owned, WriteStates, PopWriteBuff
  <2>2. UNCHANGED <<owner, popped, writes>> /\ state' \in {"WRESP", "IDLE"}
    BY <1>1, <1>6, <2>1, WriteRegistersMove, WriteMoves
  <2>3. state' = "WRESP" => (error' <=> error)
    BY <1>1, <1>6, <2>2 DEF Registers, ControlRegisters, NextError
  <2> QED
    BY <1>6, <2>2, <2>3 DEF ProgressInv, Done, Passed
<1>7. CASE state \in ReadStates \/ (state = "PURGE" /\ ~owner.write)
  <2>1. owner' = owner /\ ~owner.write /\ cmd = owner
    BY <1>1, <1>7 DEF HistoryFollows, Starts, Owned, ReadStates
  <2>2. state' \in ReadStates \cup {"PURGE", "IDLE"}
    BY <1>1, <1>7, <2>1, OwnedInHand, Path
  <2> QED
    BY <2>1, <2>2 DEF ProgressInv, ReadStates
<1> QED
  BY <1>1, <1>2, <1>3, <1>4, <1>5, <1>6, <1>7 DEF Owned, States, ReadStates

LEMMA WriteDataKept ==
  ASSUME NoReserved, WriteDataInv, Tick \/ Meanwhile, CmdTyped', WordFits', AheadFits'
  PROVE  WriteDataInv'
<1>1. MasterInv' /\ WriteInv'
  BY MasterKept, WriteKept DEF WriteDataInv
<1>2. CASE Tick
  BY <1>1, <1>2, TickKeepsWordReg, TickKeepsFlags, TickKeepsProgress, TickKeepsAnswer
  DEF WriteDataInv
<1>3. CASE Meanwhile
  <2>1. UNCHANGED <<registers, history>> /\ (wordReady => wordReady')
    BY <1>3 DEF Meanwhile, PinsKeep
  <2>2. ProgressInv'
    BY <2>1 DEF WriteDataInv, ProgressInv, Writing, Stale, Unchecked, Passed, Done, Clean, At,
                Refused, BadWord, BadBeat, registers, history
  <2>3. AnswerInv'
    BY <2>1 DEF WriteDataInv, AnswerInv, Passed, registers, history
  <2>4. FlagInv'
    BY <2>1 DEF WriteDataInv, FlagInv, Stale, registers, history
  <2>5. WordRegInv'
    BY <2>1 DEF WriteDataInv, WordRegInv, InHand, Clean, At, registers, history
  <2> QED
    BY <1>1, <2>2, <2>3, <2>4, <2>5 DEF WriteDataInv
<1> QED
  BY <1>2, <1>3

LEMMA AheadStep ==
  ASSUME WriteDataInv, [Next]_vars
  PROVE  AheadFits'
<1> USE DEF WriteDataInv
<1>1. CASE Clock
  <2> SUFFICES ASSUME wordReady', ~Unfinished' PROVE word.data = 0 /\ word' = word
    BY DEF AheadFits
  <2>0. Edge /\ Tick /\ Owned
    BY <1>1, ClockTicks DEF Clock, WriteInv
  <2>1. word' = word /\ wordReady /\ ~PopWriteBuff
    BY <1>1 DEF Clock, BuffersFollow
  <2>2. ASSUME Unfinished PROVE FALSE
    <3>1. state # "IDLE" /\ owner.write /\ Len(popped) <= owner.len
      BY <2>2 DEF Unfinished
    <3>2. owner' = owner /\ popped' = popped /\ Len(popped) \in Nat /\ owner.len \in Nat
      BY <2>1, <3>1, WriteRegistersMove, <2>0
    <3>3. state' = "IDLE"
      BY <3>1, <3>2 DEF Unfinished
    <3>4. state = "WRESP"
      BY <2>0, <3>1, <3>3, OwnedInHand, Path DEF PopCmdQueue, PushRspRequest, Owned, ReadStates
    <3> QED
      BY <3>1, <3>2, <3>4 DEF ProgressInv
  <2> QED
    BY <2>1, <2>2 DEF WordRegInv, AheadFits
<1> USE DEF WordRegInv, AheadFits, Unfinished, registers, history
<1>2. CASE CommandArrives
  BY <1>2 DEF CommandArrives
<1>3. CASE WordArrives
  <2>1. /\ word'.data = IF Unfinished THEN Len(popped) ELSE 0
        /\ owner' = owner /\ popped' = popped /\ state' = state
    BY <1>3 DEF WordArrives
  <2> QED
    BY <2>1
<1>4. CASE RespDrains \/ ReadDrains
  BY <1>4 DEF RespDrains, ReadDrains
<1>5. CASE UNCHANGED vars
  BY <1>5 DEF vars, pins
<1> QED
  BY <1>1, <1>2, <1>3, <1>4, <1>5 DEF Next

LEMMA WriteDataStep == NoReserved /\ WriteDataInv /\ [Next]_vars => WriteDataInv'
BY WriteDataKept, FitsStep, AheadStep, CmdStaysTyped, StepsAre DEF WriteDataInv, WriteInv

\* A list of writes is the beginning of what one or two more words make of it.
LEMMA EarlierIsPrefix ==
  ASSUME NEW c, NEW ss, NEW n \in Nat
  PROVE  /\ IsPrefixOf(WritesUpTo(c, ss, n), WritesUpTo(c, ss, n))
         /\ IsPrefixOf(WritesUpTo(c, ss, n), WritesUpTo(c, ss, n + 1))
         /\ IsPrefixOf(WritesUpTo(c, ss, n), WritesUpTo(c, ss, n + 2))
<1> DEFINE V == {WriteOf(c, i) : i \in Nat}
<1>1. \A m \in Nat : WritesUpTo(c, ss, m) \in Seq(V)
  BY WritesAreFew
<1>2. \A m \in Nat : \E x \in Seq(V) : WritesUpTo(c, ss, m + 1) = WritesUpTo(c, ss, m) \o x
  <2> SUFFICES ASSUME NEW m \in Nat
               PROVE  \E x \in Seq(V) : WritesUpTo(c, ss, m + 1) = WritesUpTo(c, ss, m) \o x
    OBVIOUS
  <2>1. Wanted(c, ss, m + 1) = <<>> \/ Wanted(c, ss, m + 1) = <<WriteOf(c, m + 1)>>
    BY DEF Wanted
  <2>2. WriteOf(c, m + 1) \in V
    OBVIOUS
  <2>3. <<>> \in Seq(V) /\ \A y \in V : <<y>> \in Seq(V)
    <3> HIDE DEF V
    <3> QED
      OBVIOUS
  <2>4. Wanted(c, ss, m + 1) \in Seq(V)
    <3> HIDE DEF V
    <3> QED
      BY <2>1, <2>2, <2>3
  <2> HIDE DEF V
  <2> QED
    BY <2>4, WritesGrow
<1> HIDE DEF V
<1>3. \A s, x \in Seq(V) : IsPrefixOf(s, s \o x) /\ s = s \o <<>>
  <2> SUFFICES ASSUME NEW s \in Seq(V), NEW x \in Seq(V)
               PROVE  IsPrefixOf(s, s \o x) /\ s = s \o <<>>
    OBVIOUS
  <2>1. Len(s) <= Len(s \o x) /\ s \o x \in Seq(V)
    OBVIOUS
  <2>2. s = SubSeq(s \o x, 1, Len(s))
    OBVIOUS
  <2>3. s = s \o <<>>
    OBVIOUS
  <2> QED
    BY <2>1, <2>2, <2>3 DEF IsPrefixOf
<1>4. PICK x \in Seq(V) : WritesUpTo(c, ss, n + 1) = WritesUpTo(c, ss, n) \o x
  BY <1>2
<1>5. PICK y \in Seq(V) : WritesUpTo(c, ss, n + 2) = WritesUpTo(c, ss, n + 1) \o y
  <2>1. n + 1 \in Nat /\ (n + 1) + 1 = n + 2
    OBVIOUS
  <2> QED
    BY <1>2, <2>1
<1>6. \A s, t, u \in Seq(V) : (s \o t) \o u = s \o (t \o u) /\ t \o u \in Seq(V)
  OBVIOUS
<1>7. <<>> \in Seq(V)
  OBVIOUS
<1> DEFINE w == WritesUpTo(c, ss, n)
<1>8. w \in Seq(V)
  BY <1>1
<1>9. IsPrefixOf(w, w) /\ IsPrefixOf(w, w \o x)
  BY <1>3, <1>7, <1>8
<1>10. WritesUpTo(c, ss, n + 2) = w \o (x \o y) /\ x \o y \in Seq(V)
  <2>1. WritesUpTo(c, ss, n + 2) = (w \o x) \o y
    BY <1>4, <1>5
  <2> HIDE DEF w
  <2> QED
    BY <1>6, <1>8, <2>1
<1>11. IsPrefixOf(w, w \o (x \o y))
  BY <1>3, <1>8, <1>10
<1> QED
  BY <1>4, <1>9, <1>10, <1>11

\* The APB writes made so far are those the words ask for, in order, at the address and
\* with the data of their beats; a refused word lets no later one through.
THEOREM WritesMadeInOrder ==
  ASSUME NoReserved
  PROVE  Spec => []WritesInOrder
<1>1. ASSUME WriteDataInv PROVE WritesInOrder
  <2> SUFFICES ASSUME owner.write
               PROVE  IsPrefixOf(writes, WritesUpTo(owner, popped, Len(popped)))
    BY DEF WritesInOrder
  <2> DEFINE p == Len(popped)
  <2> USE <1>1 DEF WriteDataInv
  <2>1. p \in Nat /\ state \notin ReadStates /\ state \in States
    BY DEF WriteInv, WordInv, Owned
  <2>2. CASE writes = <<>> /\ popped = <<>>
    BY <2>2, NoWrites, EarlierIsPrefix
  <2>3. CASE Done(p)
    BY <2>1, <2>3, EarlierIsPrefix DEF Done
  <2>4. CASE Done(p - 1) /\ p >= 1
    <3>1. p - 1 \in Nat /\ (p - 1) + 1 = p
      BY <2>1, <2>4
    <3>2. IsPrefixOf(WritesUpTo(owner, popped, p - 1), WritesUpTo(owner, popped, (p - 1) + 1))
      BY <3>1, EarlierIsPrefix
    <3> QED
      BY <2>4, <3>1, <3>2 DEF Done
  <2>5. CASE Done(p - 2) /\ p >= 2
    <3>1. p - 2 \in Nat /\ (p - 2) + 2 = p
      BY <2>1, <2>5
    <3>2. IsPrefixOf(WritesUpTo(owner, popped, p - 2), WritesUpTo(owner, popped, (p - 2) + 2))
      BY <3>1, EarlierIsPrefix
    <3> QED
      BY <2>5, <3>1, <3>2 DEF Done
  <2>6. state \in {"WSEL", "WEN", "NWEN"} => p >= 1
    BY DEF WriteInv, DrainInv, InHand
  <2>7. state = "WTSTART" => writes = <<>> /\ popped = <<>>
    BY DEF ProgressInv, WriteInv, DrainInv
  <2>8. state \in {"WSEL", "WEN", "NWEN"} =>
          Done(p) \/ (Done(p - 1) /\ p >= 1) \/ (Done(p - 2) /\ p >= 2)
    BY <2>6 DEF ProgressInv, Writing
  <2>9. state \in {"NWSEL", "WDTWT", "PURGE", "WRESP", "IDLE"} => Done(p)
    BY DEF ProgressInv
  <2> QED
    BY <2>1, <2>2, <2>3, <2>4, <2>5, <2>7, <2>8, <2>9 DEF States, ReadStates
<1> QED
  BY <1>1, InitResets, WriteDataInit, WriteDataStep, PTL DEF Spec

LEMMA AnswersAreTrue == ASSUME WriteDataInv PROVE ResponseTellsTheTruth
<1> SUFFICES ASSUME PushResponse
             PROVE  /\ owner.write /\ Len(popped) = owner.len + 1
                    /\ writes = WritesUpTo(owner, popped, owner.len + 1)
                    /\ savedCmdId = owner.id
                    /\ RespStatus = Refused(owner, popped, owner.len)
  BY DEF ResponseTellsTheTruth
<1> USE DEF WriteDataInv
<1>1. dlydResp /\ state = "IDLE"
  BY DEF PushResponse, MasterInv, ResponseInv
<1>2. owner.write /\ savedCmdId = owner.id /\ (savedError <=> ~Passed(Len(popped)))
  BY <1>1 DEF AnswerInv
<1>3. Len(popped) = owner.len + 1 /\ Done(Len(popped)) /\ owner.len \in Nat
  BY <1>1, <1>2, CommandFields DEF ProgressInv, WriteInv, Owned
<1>4. Len(popped) - 1 = owner.len
  BY <1>3
<1>5. RespStatus <=> Refused(owner, popped, owner.len)
  BY <1>1, <1>2, <1>4 DEF RespStatus, PushRspRequest, Passed
<1>6. RespStatus \in BOOLEAN /\ Refused(owner, popped, owner.len) \in BOOLEAN
  BY DEF RespStatus, AnswerInv, Refused
<1> QED
  BY <1>2, <1>3, <1>5, <1>6 DEF Done

\* A write response leaves only when every word is popped and every write it asks for
\* is made; it has the ID of its burst, and an error exactly when a beat was refused.
THEOREM ResponseIsTrue ==
  ASSUME NoReserved
  PROVE  Spec => []ResponseTellsTheTruth
BY AnswersAreTrue, InitResets, WriteDataInit, WriteDataStep, PTL DEF Spec

----------------------------------------------------------------------------
(* The type invariant: it needs to know how far a burst may have come.      *)

Beats == 0 .. 2 ^ LenWidth - 1
Accesses == [addr : 0 .. AddrSpace - 1, sel : SUBSET Slaves, data : Int]

\* A write is never made without its word; in the cycles between a word and its write
\* there is one more word than writes, or two.
GrowInv ==
  LET p == Len(popped)
      n == Len(writes)
  IN  /\ writes \in Seq(Accesses)
      /\ state \in {"WSEL", "WEN"} => n <= p - 1
      /\ state = "WEN" => Stale \/ n <= p - 2
      /\ state = "NWEN" => Stale \/ n <= p - 1
      /\ wordReady => word.strobes \in Strobes

TypedInv == NumberedInv /\ WriteInv /\ FlagInv /\ TypeOK /\ GrowInv

\* A power of two counts the subsets of a set, so it is not zero.
LEMMA PowerPositive ==
  ASSUME NEW n \in Nat
  PROVE  2 ^ n \in Nat \ {0}
<1>1. IsFiniteSet(1 .. n) /\ Cardinality(1 .. n) = n
  BY FS_Interval
<1>2. IsFiniteSet(SUBSET (1 .. n)) /\ Cardinality(SUBSET (1 .. n)) = 2 ^ n
  BY <1>1, FS_SUBSET
<1>3. SUBSET (1 .. n) # {}
  OBVIOUS
<1> QED
  BY <1>2, <1>3, FS_EmptySet, FS_CardinalityType

LEMMA CommandRanges ==
  ASSUME NEW c \in Commands \cup {ResetCmd}
  PROVE  /\ 2 ^ LenWidth \in Nat \ {0} /\ 0 \in Beats
         /\ c.len \in Beats /\ c.write \in BOOLEAN /\ c.addr \in 0 .. AddrSpace - 1
<1>1. 2 ^ LenWidth \in Nat \ {0}
  BY LenWidthAssumption, PowerPositive
<1>2. c.len \in Nat /\ (c.len # 0 => c.len < 2 ^ LenWidth)
  BY CommandFields
<1>3. c.write \in BOOLEAN /\ c.addr \in 0 .. AddrSpace - 1
  BY CommandsAreCommands DEF IsCommand
<1> QED
  BY <1>1, <1>2, <1>3 DEF Beats

LEMMA PlusInRange ==
  ASSUME NEW a \in Nat, NEW n \in Nat
  PROVE  Plus(a, n) \in 0 .. AddrSpace - 1 /\ Plus(a, n) \in Nat
<1>1. AddrSpace \in Nat \ {0} /\ a + n \in Nat
  BY AddrSpaceAssumption
<1>2. (a + n) % AddrSpace \in 0 .. AddrSpace - 1
  BY <1>1
<1> QED
  BY <1>1, <1>2 DEF Plus

LEMMA AlignedInRange ==
  ASSUME NEW a \in 0 .. AddrSpace - 1
  PROVE  WordAligned(a) \in 0 .. AddrSpace - 1
<1>1. AddrSpace \in Nat \ {0}
  BY AddrSpaceAssumption
<1> QED
  BY <1>1 DEF WordAligned, WordBytes

LEMMA BlockInRange ==
  ASSUME NEW A \in Nat, A % 64 = 0, NEW b \in 0 .. A - 1, NEW y \in Nat,
         NEW C \in {2, 4, 8, 16, 32, 64}
  PROVE  (b - (b % C)) + (y % C) \in 0 .. A - 1
<1>1. CASE C = 2
  BY <1>1
<1>2. CASE C = 4
  BY <1>2
<1>3. CASE C = 8
  BY <1>3
<1>4. CASE C = 16
  BY <1>4
<1>5. CASE C = 32
  BY <1>5
<1>6. CASE C = 64
  BY <1>6
<1> QED
  BY <1>1, <1>2, <1>3, <1>4, <1>5, <1>6

\* No burst, refused or not, takes the address registers out of the address space.
LEMMA BaseInRange ==
  ASSUME NEW c, IsCommand(c), NEW b \in 0 .. AddrSpace - 1
  PROVE  BaseFromIncrBase(c, b) \in 0 .. AddrSpace - 1
<1>1. AddrSpace \in Nat /\ AddrSpace % 64 = 0 /\ b \in Nat
  BY AddrSpaceAssumption
<1>2. BeatBytes(c) \in {1, 2, 4}
  <2>1. 2 ^ 0 = 1 /\ 2 ^ 1 = 2 /\ 2 ^ 2 = 4
    OBVIOUS
  <2>2. c.size = 0 \/ c.size = 1 \/ c.size = 2
    BY DEF IsCommand
  <2> QED
    BY <2>1, <2>2 DEF BeatBytes
<1>3. CASE c.burst = FIXED
  BY <1>3 DEF BaseFromIncrBase, IsCommand, FIXED, WRAP
<1>4. CASE c.burst = WRAP /\ ~WrapError(c)
  <2> DEFINE C == Container(c)
             y == Plus(b, BeatBytes(c))
  <2>1. c.len \in {1, 3, 7, 15}
    BY <1>4 DEF WrapError
  <2>2. C \in {2, 4, 8, 16, 32, 64}
    BY <1>2, <2>1 DEF Container
  <2>3. y \in Nat
    BY <1>1, <1>2, PlusInRange
  <2>4. BaseFromIncrBase(c, b) = (b - (b % C)) + (y % C)
    BY <1>4 DEF BaseFromIncrBase, FIXED, WRAP
  <2> HIDE DEF C, y
  <2>5. (b - (b % C)) + (y % C) \in 0 .. AddrSpace - 1
    BY <1>1, <2>2, <2>3, BlockInRange
  <2> QED
    BY <2>4, <2>5
<1>5. CASE c.burst # FIXED /\ ~(c.burst = WRAP /\ ~WrapError(c))
  <2>1. BaseFromIncrBase(c, b) = Plus(b, BeatBytes(c))
    BY <1>5 DEF BaseFromIncrBase
  <2> QED
    BY <1>1, <1>2, <2>1, PlusInRange
<1> QED
  BY <1>3, <1>4, <1>5

LEMMA TypedInit == Init => TypedInv
<1> SUFFICES ASSUME Init PROVE TypedInv
  OBVIOUS
<1>1. NumberedInv
  BY NumberedInit
<1>2. WriteInv
  BY InitResets, OwnedInit, WriteInit DEF WriteInv
<1>3. FlagInv
  BY InitResets, WriteDataInit DEF WriteDataInv
<1>4. 2 ^ LenWidth \in Nat \ {0} /\ 0 \in Beats /\ AddrSpace \in Nat \ {0}
  BY CommandRanges, AddrSpaceAssumption
<1>5. /\ cmd = ResetCmd /\ owner = ResetCmd /\ word = ResetWord /\ wordReg = ResetWord
      /\ state = "IDLE" /\ beat = 0 /\ baseAddr = 0 /\ address = 0 /\ paddr = 0 /\ psel = {}
      /\ pwdata = NoData /\ axiData = NoData /\ prdata = 0 /\ axiId = 0 /\ savedCmdId = 0
      /\ popped = <<>> /\ writes = <<>> /\ served = 1
      /\ cmdReady = FALSE /\ wordReady = FALSE /\ respFull = FALSE /\ readFull = FALSE
      /\ error = FALSE /\ rdError = FALSE /\ pushReadReg = FALSE /\ lastPushRead = FALSE
      /\ popRequest = FALSE /\ writeBuffEmpty = FALSE /\ writeLastReg = FALSE
      /\ dlydResp = FALSE /\ savedError = FALSE
  BY DEF Init, Reset
<1>6. ResetWord \in Words
  BY DEF ResetWord, Words
<1>7. 0 \in {c.id : c \in Commands \cup {ResetCmd}}
  <2>1. ResetCmd.id = 0
    BY DEF ResetCmd
  <2> QED
    BY <2>1
<1>8. {baseAddr, address, paddr} \subseteq 0 .. AddrSpace - 1 /\ psel \subseteq Slaves
  BY <1>4, <1>5
<1>9. /\ beat \in 0 .. 2 ^ LenWidth - 1 /\ prdata \in 0 .. 2 ^ LenWidth
      /\ served \in 0 .. 2 ^ LenWidth
  BY <1>4, <1>5
<1>10. popped \in Seq(Strobes) /\ Len(popped) <= 2 ^ LenWidth /\ Len(writes) <= Len(popped)
  BY <1>4, <1>5
<1>11. writes \in Seq(Accesses)
  BY <1>5
<1>12. GrowInv
  BY <1>5, <1>11 DEF GrowInv
<1>13. TypeOK
  <2>1. /\ {cmd, owner} \subseteq Commands \cup {ResetCmd} /\ {word, wordReg} \subseteq Words
        /\ state \in States /\ {pwdata, axiData} \subseteq {NoData} \cup (0 .. 2 ^ LenWidth - 1)
        /\ {axiId, savedCmdId} \subseteq {c.id : c \in Commands \cup {ResetCmd}}
    BY <1>5, <1>6, <1>7 DEF States
  <2>2. /\ {cmdReady, wordReady, respFull, readFull} \subseteq BOOLEAN
        /\ {error, rdError, pushReadReg, lastPushRead, popRequest, writeBuffEmpty,
            writeLastReg, dlydResp, savedError} \subseteq BOOLEAN
    BY <1>5
  <2> QED
    BY <1>8, <1>9, <1>10, <2>1, <2>2 DEF TypeOK
<1> QED
  BY <1>1, <1>2, <1>3, <1>12, <1>13 DEF TypedInv

\* The registers that hold a bit, and the counter.
LEMMA ClockKeepsBits ==
  ASSUME TypedInv, Clock
  PROVE  /\ {cmdReady', wordReady', respFull', readFull'} \subseteq BOOLEAN
         /\ {error', rdError', pushReadReg', lastPushRead', popRequest', writeBuffEmpty',
             writeLastReg', dlydResp', savedError'} \subseteq BOOLEAN
         /\ beat' \in 0 .. 2 ^ LenWidth - 1
<1> USE DEF TypedInv, NumberedInv
<1>1. Registers /\ BuffersFollow
  BY StateMoves DEF Clock
<1>2. /\ error' \in BOOLEAN /\ rdError' \in BOOLEAN /\ pushReadReg' \in BOOLEAN
      /\ lastPushRead' \in BOOLEAN /\ popRequest' \in BOOLEAN /\ writeBuffEmpty' \in BOOLEAN
      /\ writeLastReg' \in BOOLEAN
  BY <1>1 DEF Registers, ControlRegisters, NextError, NextRdError, NextPushRead,
              NextLastPushRead, NextPopRequest, NextWriteBuffEmpty, NextWriteLastReg
<1>3. dlydResp' \in BOOLEAN /\ savedError' \in BOOLEAN
  <2>1. error \in BOOLEAN /\ savedError \in BOOLEAN
    BY DEF TypeOK
  <2> QED
    BY <1>1, <2>1 DEF Registers, ResponseRegisters, RespStatus
<1>4. /\ cmdReady' \in BOOLEAN /\ wordReady' \in BOOLEAN
      /\ respFull' \in BOOLEAN /\ readFull' \in BOOLEAN
  <2>1. respFull \in BOOLEAN /\ readFull \in BOOLEAN
    BY DEF TypeOK
  <2> QED
    BY <1>1, <2>1 DEF BuffersFollow
<1>5. beat' \in 0 .. 2 ^ LenWidth - 1
  <2>1. 2 ^ LenWidth \in Nat \ {0} /\ beat \in 0 .. 2 ^ LenWidth - 1
    BY CommandRanges DEF TypeOK
  <2>2. (beat + 1) % 2 ^ LenWidth \in 0 .. 2 ^ LenWidth - 1 /\ 0 \in 0 .. 2 ^ LenWidth - 1
    <3> DEFINE M == 2 ^ LenWidth
    <3>1. M \in Nat \ {0} /\ beat + 1 \in Nat
      BY <2>1
    <3> HIDE DEF M
    <3>2. (beat + 1) % M \in 0 .. M - 1 /\ 0 \in 0 .. M - 1
      BY <3>1
    <3> QED
      BY <3>2 DEF M
  <2>3. beat' \in {beat, 0, (beat + 1) % 2 ^ LenWidth}
    BY <1>1 DEF Registers, ControlRegisters, NextBeat
  <2> QED
    BY <2>1, <2>2, <2>3
<1> QED
  BY <1>2, <1>3, <1>4, <1>5

\* The address registers.
LEMMA ClockKeepsRange ==
  ASSUME TypedInv, Clock
  PROVE  /\ {baseAddr', address', paddr'} \subseteq 0 .. AddrSpace - 1
         /\ psel' \subseteq Slaves
<1> USE DEF TypedInv, NumberedInv
<1>1. Registers
  BY StateMoves DEF Clock
<1>2. /\ baseAddr \in 0 .. AddrSpace - 1 /\ address \in 0 .. AddrSpace - 1
      /\ paddr \in 0 .. AddrSpace - 1 /\ psel \subseteq Slaves
      /\ cmd \in Commands \cup {ResetCmd}
  BY DEF TypeOK
<1>3. IsCommand(cmd) /\ cmd.addr \in 0 .. AddrSpace - 1
  BY <1>2, CommandsAreCommands, CommandRanges
<1>4. BaseFromIncrBase(cmd, baseAddr) \in 0 .. AddrSpace - 1
  BY <1>2, <1>3, BaseInRange
<1>5. Plus(address, WordBytes) \in 0 .. AddrSpace - 1
  <2>1. address \in Nat /\ WordBytes \in Nat
    BY <1>2 DEF WordBytes
  <2> QED
    BY <2>1, PlusInRange
<1>6. AddressFromSet(cmd) \in 0 .. AddrSpace - 1
  BY <1>3, AlignedInRange DEF AddressFromSet
<1>7. AddressFromIncrBase(cmd, baseAddr, address) \in 0 .. AddrSpace - 1
  <2>1. /\ WordAligned(BaseFromIncrBase(cmd, baseAddr)) \in 0 .. AddrSpace - 1
    BY <1>4, AlignedInRange
  <2>2. AddressFromIncrBase(cmd, baseAddr, address) \in
          {address, WordAligned(BaseFromIncrBase(cmd, baseAddr)), Plus(address, WordBytes),
           BaseFromIncrBase(cmd, baseAddr)}
    BY DEF AddressFromIncrBase
  <2> QED
    BY <1>2, <1>4, <1>5, <2>1, <2>2
<1>8. NextAddress \in 0 .. AddrSpace - 1
  <2>1. NextAddress \in {AddressFromSet(cmd), AddressFromIncrBase(cmd, baseAddr, address),
                         Plus(address, WordBytes), address}
    BY DEF NextAddress, AddressFromIncr
  <2> QED
    BY <1>2, <1>5, <1>6, <1>7, <2>1
<1>9. /\ baseAddr' \in {cmd.addr, BaseFromIncrBase(cmd, baseAddr), baseAddr}
      /\ address' = NextAddress /\ paddr' \in {paddr, NextAddress}
      /\ psel' = psel \/ psel' = Decode(address)
  BY <1>1 DEF Registers, AddressRegisters
<1>10. Decode(address) \subseteq Slaves
  BY DEF Decode
<1> QED
  BY <1>2, <1>3, <1>4, <1>8, <1>9, <1>10

\* The data registers: an answer is latched only while the read beats last.
LEMMA ClockKeepsData ==
  ASSUME TypedInv, Clock
  PROVE  /\ {word', wordReg'} \subseteq Words
         /\ {pwdata', axiData'} \subseteq {NoData} \cup (0 .. 2 ^ LenWidth - 1)
         /\ prdata' \in 0 .. 2 ^ LenWidth
         /\ {axiId', savedCmdId'} \subseteq {c.id : c \in Commands \cup {ResetCmd}}
<1> USE DEF TypedInv, NumberedInv
<1>1. Registers /\ BuffersFollow /\ Owned
  BY StateMoves DEF Clock, WriteInv
<1>2. word' \in Words /\ wordReg' \in Words
  BY <1>1 DEF BuffersFollow, Registers, DataRegisters, TypeOK
<1>3. pwdata' \in {NoData} \cup (0 .. 2 ^ LenWidth - 1)
  <2>1. /\ wordReg.data \in {NoData} \cup (0 .. 2 ^ LenWidth - 1)
        /\ pwdata \in {NoData} \cup (0 .. 2 ^ LenWidth - 1)
    BY DEF TypeOK, Words
  <2> QED
    BY <1>1, <2>1 DEF Registers, DataRegisters, NextPwdata
<1>4. 2 ^ LenWidth \in Nat \ {0} /\ prdata \in 0 .. 2 ^ LenWidth /\ beat \in 0 .. 2 ^ LenWidth - 1
  BY CommandRanges DEF TypeOK
<1>5. state = "REN" => prdata \in 0 .. 2 ^ LenWidth - 1 /\ prdata + 1 \in 0 .. 2 ^ LenWidth
  BY <1>4 DEF NumberInv
<1>6. axiData' \in {NoData} \cup (0 .. 2 ^ LenWidth - 1)
  <2>1. (Penable /\ ~cmd.write) => state = "REN"
    BY <1>1 DEF Penable, Owned, WriteStates
  <2>2. axiData \in {NoData} \cup (0 .. 2 ^ LenWidth - 1)
    BY DEF TypeOK
  <2> QED
    BY <1>1, <1>5, <2>1, <2>2 DEF Registers, DataRegisters, NextAxiData
<1>7. prdata' \in 0 .. 2 ^ LenWidth
  BY <1>1, <1>4, <1>5 DEF BuffersFollow
<1>8. axiId' \in {c.id : c \in Commands \cup {ResetCmd}}
  BY <1>1 DEF Registers, DataRegisters, TypeOK
<1>9. savedCmdId' \in {c.id : c \in Commands \cup {ResetCmd}}
  BY <1>1 DEF Registers, ResponseRegisters, TypeOK
<1> QED
  BY <1>2, <1>3, <1>6, <1>7, <1>8, <1>9

\* The words popped and the beats pushed: as many as the burst has, at most.
LEMMA ClockKeepsCounts ==
  ASSUME TypedInv, Clock
  PROVE  /\ popped' \in Seq(Strobes) /\ Len(popped') <= 2 ^ LenWidth
         /\ served' \in 0 .. 2 ^ LenWidth
<1> USE DEF TypedInv, NumberedInv
<1>1. Tick /\ Registers /\ HistoryFollows /\ Owned
  BY ClockTicks, StateMoves DEF Clock, WriteInv
<1>2. /\ 2 ^ LenWidth \in Nat \ {0} /\ owner.len \in 0 .. 2 ^ LenWidth - 1
      /\ popped \in Seq(Strobes) /\ Len(popped) <= 2 ^ LenWidth /\ served \in 0 .. 2 ^ LenWidth
  BY CommandRanges DEF TypeOK, Beats
<1>3. PopWriteBuff => word.strobes \in Strobes
  BY DEF PopWriteBuff, GrowInv
<1>4. popped' \in Seq(Strobes) /\ Len(popped') <= 2 ^ LenWidth
  <2>1. CASE ~PopWriteBuff
    <3>1. popped' = (IF Starts THEN <<>> ELSE popped) \o <<>>
      BY <1>1, <2>1 DEF HistoryFollows
    <3>2. popped' = IF Starts THEN <<>> ELSE popped
      BY <1>2, <3>1
    <3> QED
      BY <1>2, <3>2
  <2>2. CASE PopWriteBuff /\ state = "IDLE"
    <3>1. Starts
      BY <1>1, <2>2 DEF PopWriteBuff, Starts, Owned
    <3>2. popped' = <<>> \o <<word.strobes>>
      BY <1>1, <2>2, <3>1 DEF HistoryFollows
    <3>3. popped' = <<word.strobes>>
      BY <3>2
    <3> QED
      BY <1>2, <1>3, <2>2, <3>3
  <2>3. CASE PopWriteBuff /\ state # "IDLE"
    <3>1. popped' = popped \o <<word.strobes>>
      BY <1>1, <2>3 DEF HistoryFollows, Starts
    <3>2. Len(popped') \in 1 .. owner.len + 1
      BY <1>1, <2>3, WordsMove
    <3>3. popped' \in Seq(Strobes)
      BY <1>2, <1>3, <2>3, <3>1
    <3> QED
      BY <1>2, <3>2, <3>3
  <2> QED
    BY <2>1, <2>2, <2>3
<1>5. served' \in 0 .. 2 ^ LenWidth
  <2>1. PushReadBuffer => served <= owner.len
    BY OrderedBeats
  <2>2. served' = IF Starts THEN 0 ELSE IF PushReadBuffer THEN served + 1 ELSE served
    BY <1>1 DEF HistoryFollows
  <2> QED
    BY <1>2, <2>1, <2>2
<1> QED
  BY <1>4, <1>5

\* A write is made in the access cycle of its word alone.
LEMMA ClockKeepsGrowth ==
  ASSUME TypedInv, Clock
  PROVE  GrowInv' /\ Len(writes') <= Len(popped')
<1> DEFINE p == Len(popped)
           n == Len(writes)
<1> USE DEF TypedInv, NumberedInv
<1>1. Tick /\ Edge /\ Registers /\ BuffersFollow /\ HistoryFollows /\ Owned
  BY ClockTicks, StateMoves DEF Clock, WriteInv
<1>2. wordReady' => word'.strobes \in Strobes
  BY <1>1 DEF BuffersFollow, GrowInv
<1>3. /\ writes \in Seq(Accesses) /\ n \in Nat /\ p \in Nat /\ n <= p
      /\ popped \in Seq(Strobes \cup {"none"})
  BY DEF GrowInv, WriteInv, WordInv, TypeOK
<1>4. CASE state = "IDLE" /\ ~cmdReady
  <2>1. ~Starts /\ ~PopWriteBuff /\ state' = "IDLE"
    BY <1>1, <1>4, OwnedInHand, Path DEF Starts, PopWriteBuff
  <2>2. popped' = popped /\ writes' = writes
    BY <1>1, <1>3, <1>4, <2>1 DEF HistoryFollows
  <2> QED
    BY <1>2, <1>3, <2>1, <2>2 DEF GrowInv
<1>5. CASE state = "IDLE" /\ cmdReady
  <2>1. Starts /\ state' \in {"NWEN", "WTSTART", "NREN", "PURGE"} /\ writes' = <<>>
    BY <1>1, <1>5, OwnedInHand, Path DEF Starts, HistoryFollows, Owned
  <2>2. popped' \in Seq(Strobes \cup {"none"}) /\ (state' = "NWEN" => Len(popped') = 1)
    <3>1. popped' = <<>> \o (IF PopWriteBuff THEN <<word.strobes>> ELSE <<>>)
      BY <1>1, <2>1 DEF HistoryFollows
    <3>2. word.strobes \in Strobes \cup {"none"}
      BY DEF WriteInv, WordInv, WordFits, IssuedWords
    <3>3. popped' \in Seq(Strobes \cup {"none"})
      <4> DEFINE S == Strobes \cup {"none"}
                 new == IF PopWriteBuff THEN <<word.strobes>> ELSE <<>>
      <4>1. new \in Seq(S)
        <5>1. word.strobes \in S
          BY <3>2
        <5> HIDE DEF S
        <5> QED
          BY <5>1
      <4>2. popped' = <<>> \o new
        BY <3>1
      <4> HIDE DEF S, new
      <4>3. popped' = new
        BY <4>1, <4>2
      <4> QED
        BY <4>1, <4>3 DEF S
    <3>4. state' = "NWEN" => PopWriteBuff
      BY <1>1, <1>5, <2>1, OwnedInHand, Path DEF PopWriteBuff, Owned
    <3> QED
      BY <3>1, <3>3, <3>4
  <2>3. writes' \in Seq(Accesses) /\ Len(writes') = 0 /\ Len(popped') \in Nat
    BY <2>1, <2>2
  <2>4. state' \notin {"WSEL", "WEN"} /\ (state' = "NWEN" => Len(writes') <= Len(popped') - 1)
    BY <2>1, <2>2, <2>3
  <2> QED
    BY <1>2, <2>3, <2>4 DEF GrowInv
<1>6. CASE state # "IDLE"
  <2>1. /\ owner' = owner
        /\ PopWriteBuff => Len(popped') = p + 1
        /\ ~PopWriteBuff => popped' = popped
    BY <1>1, <1>6, WordsMove
  <2>2. CASE state = "WEN"
    <3>1. writes' = Append(writes, [addr |-> paddr, sel |-> psel, data |-> pwdata])
      BY <1>1, <2>2 DEF HistoryFollows, Starts
    <3>2. [addr |-> paddr, sel |-> psel, data |-> pwdata] \in Accesses
      <4>1. pwdata \in Int /\ psel \in SUBSET Slaves /\ paddr \in 0 .. AddrSpace - 1
        <5>1. NoData \in Int /\ 2 ^ LenWidth \in Nat
          BY CommandRanges DEF NoData
        <5> QED
          BY <5>1 DEF TypeOK
      <4> QED
        BY <4>1 DEF Accesses
    <3>3. writes' \in Seq(Accesses) /\ Len(writes') = n + 1
      BY <1>3, <3>1, <3>2
    <3>4. ~PopWriteBuff /\ popped' = popped
      BY <2>1, <2>2 DEF PopWriteBuff
    <3>5. state' = AfterWrite /\ state' \in {"WRESP", "WDTWT", "WSEL", "NWSEL", "PURGE"}
      BY <1>1, <2>2, WriteMoves, AfterWriteLands
    <3>6. state' = "WSEL" => ~Stale
      BY <3>5 DEF AfterWrite, Stale
    <3>7. n <= p - 1 /\ (state' = "WSEL" => n <= p - 2)
      BY <2>2, <3>6 DEF GrowInv
    <3> QED
      BY <1>2, <1>3, <3>3, <3>4, <3>5, <3>7 DEF GrowInv
  <2>3. CASE state # "WEN"
    <3>1. writes' = writes /\ Len(popped') \in Nat /\ p <= Len(popped')
      BY <1>1, <1>3, <1>6, <2>1, <2>3 DEF HistoryFollows, Starts
    <3>2. ASSUME state' = "WSEL" PROVE n <= Len(popped') - 1
      <4>1. state = "NWEN" /\ state' = AfterWrite
        BY <1>1, <2>3, <3>2, StateMoves, WriteMoves
      <4>2. ~Stale
        BY <3>2, <4>1 DEF AfterWrite, Stale
      <4> QED
        BY <1>3, <3>1, <4>1, <4>2 DEF GrowInv
    <3>3. ASSUME state' = "WEN" PROVE n <= Len(popped') - 1 /\ (Stale' \/ n <= Len(popped') - 2)
      <4>1. state = "WSEL" /\ n <= p - 1
        BY <1>1, <3>3, StateMoves DEF GrowInv
      <4> QED
        BY <1>1, <1>3, <2>1, <3>1, <4>1, NoWordIsStale
    <3>4. ASSUME state' = "NWEN" PROVE Stale' \/ n <= Len(popped') - 1
      <4>1. state \in {"WTSTART", "WDTWT", "NWSEL"}
        BY <1>1, <1>6, <2>3, <3>4, StateMoves, WriteMoves, AfterWriteLands, OwnedInHand, Path
        DEF Owned, States, ReadStates
      <4>2. (state # "NWSEL") => PopWriteBuff
        BY <1>1, <3>4, <4>1, WriteMoves DEF PopWriteBuff, Owned, WriteStates
      <4> QED
        BY <1>1, <1>3, <2>1, <3>1, <4>1, <4>2, NoWordIsStale
    <3> QED
      BY <1>2, <1>3, <3>1, <3>2, <3>3, <3>4 DEF GrowInv
  <2> QED
    BY <2>2, <2>3
<1> QED
  BY <1>1, <1>4, <1>5, <1>6 DEF Owned

LEMMA TypedStep == TypedInv /\ [Next]_vars => TypedInv'
<1> SUFFICES ASSUME TypedInv, [Next]_vars PROVE FlagInv' /\ TypeOK' /\ GrowInv'
  BY NumberStep, WriteStep DEF TypedInv
<1>1. CASE Clock
  <2>1. FlagInv' /\ Owned'
    BY <1>1, ClockTicks, TickKeepsFlags, WriteStep DEF TypedInv, WriteInv, Next
  <2>2. TypeOK'
    BY <1>1, <2>1, ClockKeepsBits, ClockKeepsRange, ClockKeepsData, ClockKeepsCounts,
       ClockKeepsGrowth
    DEF TypeOK, Owned
  <2> QED
    BY <1>1, <2>1, <2>2, ClockKeepsGrowth
<1> USE DEF TypedInv, NumberedInv
<1>2. CASE CommandArrives
  <2>1. cmd' \in Commands /\ cmdReady' \in BOOLEAN
        /\ UNCHANGED <<word, wordReady, respFull, readFull, prdata, registers, history>>
    BY <1>2 DEF CommandArrives
  <2> QED
    BY <2>1 DEF TypeOK, GrowInv, FlagInv, Stale, registers, history
<1>3. CASE WordArrives
  <2>1. PICK s \in Strobes, last \in BOOLEAN :
          word' = [data |-> IF Unfinished THEN Len(popped) ELSE 0, strobes |-> s, last |-> last]
    BY <1>3 DEF WordArrives
  <2>2. /\ wordReady' = TRUE
        /\ UNCHANGED <<cmd, cmdReady, respFull, readFull, prdata, registers, history>>
    BY <1>3 DEF WordArrives
  <2>3. (IF Unfinished THEN Len(popped) ELSE 0) \in 0 .. 2 ^ LenWidth - 1
    <3>1. /\ 2 ^ LenWidth \in Nat \ {0} /\ owner.len \in 0 .. 2 ^ LenWidth - 1
          /\ Len(popped) \in Nat
      BY CommandRanges DEF TypeOK, Beats
    <3> QED
      BY <3>1 DEF Unfinished
  <2>4. s \in {"all", "none", "some"}
    BY StrobesAssumption
  <2>5. word' \in Words /\ word'.strobes \in Strobes
    BY <2>1, <2>3, <2>4 DEF Words
  <2> QED
    BY <2>2, <2>5 DEF TypeOK, GrowInv, FlagInv, Stale, registers, history
<1>4. CASE RespDrains \/ ReadDrains
  <2>1. /\ respFull' \in {respFull, FALSE} /\ readFull' \in {readFull, FALSE}
        /\ UNCHANGED <<cmd, cmdReady, word, wordReady, prdata, registers, history>>
    BY <1>4 DEF RespDrains, ReadDrains
  <2>2. {respFull', readFull'} \subseteq BOOLEAN
    BY <2>1 DEF TypeOK
  <2> QED
    BY <2>1, <2>2 DEF TypeOK, GrowInv, FlagInv, Stale, registers, history
<1>5. CASE UNCHANGED vars
  BY <1>5 DEF vars, pins, TypeOK, GrowInv, FlagInv, Stale, registers, history
<1> QED
  BY <1>1, <1>2, <1>3, <1>4, <1>5 DEF Next

\* Every register and pin stays in its range, for every burst, the reserved type
\* included: no address leaves the address space, no counter its width, and no more
\* words are popped, or writes made, than the burst has.
THEOREM TypesHold == Spec => []TypeOK
<1>1. TypedInv => TypeOK
  BY DEF TypedInv
<1> QED
  BY <1>1, TypedInit, TypedStep, PTL DEF Spec
=============================================================================
