-------------------------- MODULE ApbMasterProofs --------------------------
(***************************************************************************)
(* Facts about one edge of the APB master, whatever stands at its pins: for *)
(* the proofs about ApbSide and about the whole bridge.                    *)
(***************************************************************************)
EXTENDS ApbMaster, TLAPS

\* The states in which an APB transfer is on the bus.
Selecting == {"WSEL", "WEN", "RSEL", "REN"}

\* The control state machine moves along its own edges only; a write cycle is
\* begun only after a check that found no error, a read cycle likewise.
LEMMA StateMoves ==
  ASSUME Edge
  PROVE  /\ Registers /\ state' \in States
         /\ state = "WSEL" => state' = "WEN"
         /\ state = "RSEL" => state' = "REN"
         /\ state' = "WEN" => state = "WSEL"
         /\ state' = "REN" => state = "RSEL"
         /\ state' = "WSEL" => state \in {"WEN", "NWEN"} /\ ~DcdError
         /\ state' = "RSEL" => state \in {"REN", "NREN", "RBUFWT"} /\ ~DcdError
         /\ (state \in {"REN", "RBUFWT"} /\ ~readFull) => state' \in {"IDLE", "RSEL", "PREPURGE"}
         /\ (state = "WRESP" /\ ~respFull) => state' = "IDLE"
<1>1. CASE Idle
  BY <1>1 DEF Idle, States
<1>2. CASE Purge
  BY <1>2 DEF Purge, States
<1>3. CASE WSel \/ NWSel
  BY <1>3 DEF WSel, NWSel, States
<1>4. CASE WEn \/ NWEn
  BY <1>4 DEF WEn, NWEn, States, AfterWrite, CheckOnStrobes, AnyError
<1>5. CASE WDtWt \/ WtStart \/ WResp
  BY <1>5 DEF WDtWt, WtStart, WResp, States
<1>6. CASE RSel \/ PrePurge
  BY <1>6 DEF RSel, PrePurge, States
<1>7. CASE REn
  BY <1>7 DEF REn, States
<1>8. CASE NREn
  BY <1>8 DEF NREn, States, AnyError
<1>9. CASE RBufWt
  BY <1>9 DEF RBufWt, States, AnyError
<1> QED
  BY <1>1, <1>2, <1>3, <1>4, <1>5, <1>6, <1>7, <1>8, <1>9 DEF Edge

\* No address register moves in the states a transfer is prepared in, so the
\* address that was decoded is the address that is driven.
LEMMA AddressHolds ==
  ASSUME state \in {"WEN", "NWEN", "REN", "NREN", "RBUFWT"}
  PROVE  NextAddress = address
BY DEF NextAddress, SetAddr, IncrBaseAddr, IncrAddr, PopWriteBuff

\* On the bus, the select lines are the decode of the address beside them.
SelectsDecoded == state \in Selecting => psel = Decode(paddr) /\ psel # {}

LEMMA EdgeDecodes ==
  ASSUME SelectsDecoded, Edge
  PROVE  SelectsDecoded'
<1> SUFFICES ASSUME state' \in Selecting
             PROVE  psel' = Decode(paddr') /\ psel' # {}
  BY DEF SelectsDecoded, Decode
<1> USE DEF Selecting
<1>1. CASE state' \in {"WSEL", "RSEL"}
  <2>1. NextAddress = address /\ ~DcdError
    BY <1>1, StateMoves, AddressHolds
  <2>2. paddr' = address /\ psel' = Decode(address)
    BY <1>1, <2>1, StateMoves DEF Registers, AddressRegisters
  <2> QED
    BY <2>1, <2>2 DEF DcdError
<1>2. CASE state' \in {"WEN", "REN"}
  <2>1. state \in {"WSEL", "RSEL"} /\ UNCHANGED <<paddr, psel>>
    BY <1>2, StateMoves DEF Registers, AddressRegisters
  <2> QED
    BY <2>1 DEF SelectsDecoded
<1> QED
  BY <1>1, <1>2

\* An edge leaves a setup cycle for the access of the same transfer, and any other
\* cycle for the setup of a transfer or for an idle bus.
LEMMA EdgeOfPins ==
  ASSUME SelectsDecoded, SelectsDecoded', Edge
  PROVE  \/ /\ PselOut # {} /\ ~Penable /\ Penable'
            /\ UNCHANGED <<PselOut, paddr, Pwrite, pwdata>>
         \/ /\ ~(PselOut # {} /\ ~Penable)
            /\ PselOut' # {} /\ ~Penable' /\ PselOut' = Decode(paddr')
         \/ ~(PselOut # {} /\ ~Penable) /\ PselOut' = {} /\ ~Penable'
<1> USE DEF Selecting
<1>1. Registers
  BY StateMoves
<1>2. CASE state \in {"WSEL", "RSEL"}
  <2>1. state' = (IF state = "WSEL" THEN "WEN" ELSE "REN") /\ UNCHANGED <<paddr, psel, pwdata>>
    BY <1>1, <1>2, StateMoves DEF Registers, AddressRegisters, DataRegisters, NextPwdata
  <2>2. PselOut # {} /\ ~Penable /\ Penable'
    BY <1>2, <2>1 DEF SelectsDecoded, PselOut, Penable
  <2>3. UNCHANGED <<PselOut, paddr, Pwrite, pwdata>>
    BY <1>2, <2>1 DEF PselOut, Pwrite
  <2> QED
    BY <2>2, <2>3
<1>3. CASE state \notin {"WSEL", "RSEL"}
  <2>1. ~(PselOut # {} /\ ~Penable) /\ state' \notin {"WEN", "REN"}
    BY <1>3, StateMoves DEF PselOut, Penable
  <2>2. CASE state' \in {"WSEL", "RSEL"}
    BY <2>1, <2>2 DEF PselOut, Penable, SelectsDecoded, Decode
  <2>3. CASE state' \notin {"WSEL", "RSEL"}
    BY <2>1, <2>3 DEF PselOut, Penable
  <2> QED
    BY <2>2, <2>3
<1> QED
  BY <1>2, <1>3
----------------------------------------------------------------------------
(* The command in hand.                                                     *)

ReadStates == {"RSEL", "REN", "NREN", "RBUFWT", "PREPURGE"}
WriteStates == {"WSEL", "WEN", "NWSEL", "NWEN", "WDTWT", "WTSTART", "WRESP"}

\* The states tell the kind of the command at the queue's output, which stays
\* there until it is popped.
CmdInHand ==
  /\ state \in States /\ cmdReady \in BOOLEAN /\ cmd.write \in BOOLEAN
  /\ state # "IDLE" => cmdReady
  /\ state \in ReadStates => ~cmd.write
  /\ state \in WriteStates => cmd.write

\* The path of the control through the states, for the command in hand: it goes
\* back to IDLE exactly when it pops that command.
LEMMA Path ==
  ASSUME CmdInHand, Edge
  PROVE  /\ state = "IDLE" =>
              \/ ~cmdReady /\ state' = "IDLE"
              \/ cmdReady /\ cmd.write /\ state' = IF wordReady THEN "NWEN" ELSE "WTSTART"
              \/ cmdReady /\ ~cmd.write /\ state' \in {"NREN", "PURGE"}
         /\ state # "IDLE" => (PopCmdQueue <=> state' = "IDLE")
         /\ state = "IDLE" => ~PopCmdQueue
         /\ state \in ReadStates => state' \in ReadStates \cup {"PURGE", "IDLE"}
         /\ state \in WriteStates => state' \in WriteStates \cup {"PURGE", "IDLE"}
         /\ (state = "PURGE" /\ cmd.write) => state' = IF wordReg.last THEN "WRESP" ELSE "PURGE"
         /\ (state = "PURGE" /\ ~cmd.write) => state' \in {"PURGE", "IDLE"}
<1> USE DEF ReadStates, WriteStates, PopCmdQueue, PushRspRequest
<1>1. CASE Idle
  BY <1>1 DEF Idle, CmdInHand
<1>2. CASE Purge
  BY <1>2 DEF Purge, CmdInHand
<1>3. CASE WSel \/ NWSel
  BY <1>3 DEF WSel, NWSel, CmdInHand
<1>4. CASE WEn \/ NWEn
  BY <1>4 DEF WEn, NWEn, AfterWrite, CheckOnStrobes, CmdInHand
<1>5. CASE WDtWt \/ WtStart \/ WResp
  BY <1>5 DEF WDtWt, WtStart, WResp, CmdInHand
<1>6. CASE RSel \/ PrePurge
  BY <1>6 DEF RSel, PrePurge, CmdInHand
<1>7. CASE REn
  BY <1>7 DEF REn, CmdInHand
<1>8. CASE NREn
  BY <1>8 DEF NREn, CmdInHand
<1>9. CASE RBufWt
  BY <1>9 DEF RBufWt, CmdInHand
<1> QED
  BY <1>1, <1>2, <1>3, <1>4, <1>5, <1>6, <1>7, <1>8, <1>9 DEF Edge

LEMMA EdgeKeepsCmdInHand ==
  ASSUME CmdInHand, Edge, cmd'.write \in BOOLEAN, cmdReady' \in BOOLEAN,
         state' # "IDLE" => cmd' = cmd /\ cmdReady'
  PROVE  CmdInHand'
<1>1. state' \in States
  BY StateMoves
<1>2. state \in ReadStates \cup WriteStates \cup {"PURGE", "IDLE"}
  BY DEF CmdInHand, States, ReadStates, WriteStates
<1> QED
  BY <1>1, <1>2, Path DEF CmdInHand, ReadStates, WriteStates

\* The last flag is that of the beat about to be pushed, in each state a push is
\* made in or decided in.
LastFlagged ==
  /\ {pushReadReg, lastPushRead} \subseteq BOOLEAN
  /\ pushReadReg => state \in {"RSEL", "PREPURGE", "IDLE"}
  /\ (state \in {"REN", "RBUFWT"} \/ (state = "PURGE" /\ ~cmd.write)) =>
       lastPushRead = (beat = cmd.len)
  /\ (state \in {"RSEL", "PREPURGE"} /\ pushReadReg) => ~lastPushRead
  /\ (state = "IDLE" /\ pushReadReg) => lastPushRead

LEMMA EdgeKeepsLastFlag ==
  ASSUME CmdInHand, LastFlagged, Edge, state' # "IDLE" => cmd' = cmd
  PROVE  LastFlagged'
<1>1. Registers /\ state' \in States
  BY StateMoves
<1>2. pushReadReg' = NextPushRead /\ lastPushRead' = NextLastPushRead /\ beat' = NextBeat
  BY <1>1 DEF Registers, ControlRegisters
<1>3. {pushReadReg', lastPushRead'} \subseteq BOOLEAN
  BY <1>2 DEF NextPushRead, NextLastPushRead, LastFlagged
<1> USE DEF NextPushRead, NextLastPushRead, NextBeat, LastFlagged, CmdInHand, ReadStates,
            WriteStates, LastBeat
<1>4. CASE Idle
  BY <1>2, <1>3, <1>4 DEF Idle
<1>5. CASE Purge
  BY <1>2, <1>3, <1>5 DEF Purge
<1>6. CASE WSel \/ NWSel
  BY <1>2, <1>3, <1>6 DEF WSel, NWSel
<1>7. CASE WEn \/ NWEn
  BY <1>2, <1>3, <1>7 DEF WEn, NWEn, AfterWrite, CheckOnStrobes
<1>8. CASE WDtWt \/ WtStart \/ WResp
  BY <1>2, <1>3, <1>8 DEF WDtWt, WtStart, WResp
<1>9. CASE RSel \/ PrePurge
  BY <1>2, <1>3, <1>9 DEF RSel, PrePurge
<1>10. CASE REn
  BY <1>2, <1>3, <1>10 DEF REn
<1>11. CASE NREn
  BY <1>2, <1>3, <1>11 DEF NREn
<1>12. CASE RBufWt
  BY <1>2, <1>3, <1>12 DEF RBufWt
<1> QED
  BY <1>4, <1>5, <1>6, <1>7, <1>8, <1>9, <1>10, <1>11, <1>12 DEF Edge

\* A read whose last beat is registered and not yet pushed, and a response likewise.
ReadPending == IF state = "IDLE" /\ pushReadReg THEN 1 ELSE 0
RespPending == IF dlydResp THEN 1 ELSE 0

\* A read leaves the command queue with its last beat on the way, and nothing else
\* makes one.
LEMMA LastBeatFollowsPop ==
  ASSUME CmdInHand, LastFlagged, Edge
  PROVE  ReadPending' = ReadPending + (IF PopCmdQueue /\ ~cmd.write THEN 1 ELSE 0)
                          - (IF PushReadBuffer /\ lastPushRead THEN 1 ELSE 0)
<1>1. Registers
  BY StateMoves
<1>2. pushReadReg' = NextPushRead
  BY <1>1 DEF Registers, ControlRegisters
<1> USE DEF CmdInHand, LastFlagged, ReadPending, PushReadBuffer, PopCmdQueue, PushRspRequest,
            NextPushRead, LastBeat, ReadStates, WriteStates
<1>3. CASE state = "IDLE"
  <2>1. ~PopCmdQueue /\ ~pushReadReg' /\ (PushReadBuffer /\ lastPushRead <=> pushReadReg)
    BY <1>2, <1>3
  <2> QED
    BY <1>3, <2>1
<1>4. CASE state = "PURGE"
  BY <1>2, <1>4
<1>5. CASE state \in {"REN", "RBUFWT"}
  <2>1. state' = "IDLE" <=> PopCmdQueue
    BY <1>5, Path
  <2> QED
    BY <1>2, <1>5, <2>1
<1>6. CASE state \notin {"IDLE", "PURGE", "REN", "RBUFWT"}
  <2>1. ~(PopCmdQueue /\ ~cmd.write) /\ ~(PushReadBuffer /\ lastPushRead) /\ ~pushReadReg'
    BY <1>2, <1>6
  <2> QED
    BY <1>6, <2>1
<1> QED
  BY <1>3, <1>4, <1>5, <1>6

\* A write leaves the command queue with its response on the way.
LEMMA ResponseFollowsPop ==
  ASSUME CmdInHand, Edge, dlydResp \in BOOLEAN, dlydResp => state = "IDLE" /\ ~respFull
  PROVE  /\ RespPending' = RespPending + (IF PopCmdQueue /\ cmd.write THEN 1 ELSE 0)
                             - (IF PushResponse THEN 1 ELSE 0)
         /\ dlydResp' \in BOOLEAN
<1>1. Registers
  BY StateMoves
<1>2. dlydResp' = IF PushResponse THEN FALSE ELSE dlydResp \/ PushRspRequest
  BY <1>1 DEF Registers, ResponseRegisters
<1> USE DEF CmdInHand, PushResponse, PopCmdQueue, PushRspRequest, ReadStates, WriteStates
<1>3. dlydResp' \in BOOLEAN
  BY <1>2
<1>4. CASE dlydResp
  <2>1. PushResponse /\ ~dlydResp' /\ ~(PopCmdQueue /\ cmd.write)
    BY <1>2, <1>4
  <2> QED
    BY <1>3, <1>4, <2>1 DEF RespPending
<1>5. CASE ~dlydResp
  <2>1. ~PushResponse /\ (dlydResp' <=> PopCmdQueue /\ cmd.write)
    BY <1>2, <1>5
  <2> QED
    BY <1>3, <1>5, <2>1 DEF RespPending
<1> QED
  BY <1>4, <1>5

\* After a beat that is not the last one the read goes on, and it does not end with
\* none to follow.
LEMMA ReadGoesOn ==
  ASSUME CmdInHand, LastFlagged, Edge
  PROVE  /\ PushReadBuffer /\ ~lastPushRead => state # "IDLE" /\ state' # "IDLE" /\ ~cmd.write
         /\ state # "IDLE" /\ ~cmd.write /\ ~PushReadBuffer /\ state' = "IDLE" =>
              ReadPending' = 1
         /\ ReadPending = 1 => PushReadBuffer
<1>1. pushReadReg' = NextPushRead
  BY StateMoves DEF Registers, ControlRegisters
<1> USE DEF PushReadBuffer, ReadPending
<1>2. ASSUME PushReadBuffer, ~lastPushRead
      PROVE  state # "IDLE" /\ state' # "IDLE" /\ ~cmd.write
  <2>1. (state = "PURGE" /\ ~cmd.write) \/ state \in {"RSEL", "PREPURGE"}
    BY <1>2 DEF LastFlagged, CmdInHand
  <2>2. ~cmd.write /\ ~PopCmdQueue
    BY <1>2, <2>1
    DEF CmdInHand, ReadStates, LastFlagged, PopCmdQueue, PushRspRequest, LastBeat
  <2> QED
    BY <2>1, <2>2, Path
<1>3. ASSUME state # "IDLE", ~cmd.write, ~PushReadBuffer, state' = "IDLE"
      PROVE  ReadPending' = 1
  <2>1. PopCmdQueue
    BY <1>3, Path
  <2>2. ~readFull /\ state \in {"REN", "RBUFWT"}
    BY <1>3, <2>1 DEF PopCmdQueue, PushRspRequest, CmdInHand, WriteStates
  <2> QED
    BY <1>1, <1>3, <2>2 DEF NextPushRead
<1> QED
  BY <1>2, <1>3
=============================================================================
