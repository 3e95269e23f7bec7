--------------------------- MODULE SdcHostProofs ---------------------------
(***************************************************************************)
(* First the command handshake of SdcHost, for every timeout, buffer set,  *)
(* fault and however soon a request follows a timeout: a status is never   *)
(* taken for that of the wrong command, and no two commands share the      *)
(* wires.  Then the data of its requests.                                  *)
(***************************************************************************)
EXTENDS SdcHost, TLAPS

\* Between commands the command status is clear or about to be; a start that
\* waits for its edge finds it clear.
StatusInv ==
  /\ cmd_start => pc = "poll" /\ cmd_state = "IDLE" /\ cmd_int_status_reg = {}
  /\ cmd_int_rst => pc = "clear"
  /\ pc # "poll" => cmd_state = "IDLE"
  /\ pc \in {"idle", "isr"} => cmd_int_status_reg = {}
  /\ pc = "clear" => cmd_int_rst \/ cmd_int_status_reg = {}

\* The serial host works only for a command that is being executed, and an
\* answer is seen on the one edge that follows it.
SerialInv ==
  /\ cmd_state # "EXECUTE" =>
       ser_state \notin {"WRITE", "READ_WAIT"} /\ ~finish /\ ~start_xfr
  /\ start_xfr => ~finish /\ ser_state \in {"IDLE", "INIT"}
  /\ finish => ser_state = "IDLE"

HInv == StatusInv /\ SerialInv

LEMMA InitHInv == Init => HInv
BY DEF Init, HInv, StatusInv, SerialInv

-----------------------------------------------------------------------------
LEMMA PosedgeStatus == ASSUME HInv, Posedge PROVE StatusInv'
<1> USE DEF HInv, StatusInv
<1>1. /\ pc' = pc /\ cmd_start' = FALSE /\ cmd_int_rst' = FALSE /\ CmdMaster
  BY DEF Posedge, drvVars
<1>2. CASE cmd_state = "IDLE" /\ ~cmd_start
  <2>1. CmdIdle
    BY <1>1, <1>2 DEF CmdMaster, CmdTimeout, CmdFinish, CmdWait, CmdBusy
  <2>2. cmd_state' = "IDLE" BY <1>2, <2>1 DEF CmdIdle
  <2>3. cmd_int_status_reg' = IF cmd_int_rst THEN {} ELSE cmd_int_status_reg
    BY <1>2, <2>1 DEF CmdIdle, CmdReport
  <2> QED BY <1>1, <2>2, <2>3
<1>3. CASE cmd_state # "IDLE" \/ cmd_start
  <2>1. pc = "poll" BY <1>3
  <2> QED BY <1>1, <2>1
<1> QED BY <1>2, <1>3

LEMMA PosedgeSerial == ASSUME HInv, Posedge PROVE SerialInv'
<1> USE DEF HInv, SerialInv
<1>1. CmdMaster /\ CmdSerial BY DEF Posedge
<1>2. CASE SerialReset
  <2>1. ser_state' = "INIT" /\ finish' = FALSE BY <1>2 DEF SerialReset
  <2>2. cmd_state' # "EXECUTE" => ~start_xfr'
    BY <1>1 DEF CmdMaster, CmdIdle, CmdTimeout, CmdFinish, CmdWait, CmdBusy
  <2> QED BY <2>1, <2>2
<1>3. CASE ~SerialReset
  <2>1. Running /\ (SerialInit \/ SerialIdle \/ SerialAnswer \/ SerialMute
                    \/ SerialWait)
    BY <1>1, <1>3
       DEF CmdSerial, SerialInit, SerialIdle, SerialAnswer, SerialMute,
           SerialWait
  <2>2. CASE CmdIdle
    <3>1. SerialInit \/ SerialIdle
      BY <2>1, <2>2 DEF CmdIdle, SerialAnswer, SerialMute, SerialWait
    <3>2. ser_state' \in {"IDLE", "INIT"} /\ ~finish'
      BY <2>2, <3>1 DEF CmdIdle, SerialInit, SerialIdle
    <3>3. cmd_state' # "EXECUTE" => ~start_xfr' BY <2>2 DEF CmdIdle
    <3> QED BY <3>2, <3>3
  <2>3. CASE CmdTimeout BY <2>1, <2>3 DEF CmdTimeout, Running
  <2>4. CASE CmdFinish
    <3>1. ser_state = "IDLE" /\ ~start_xfr /\ finish
      BY <2>4 DEF CmdFinish
    <3>2. SerialIdle
      BY <2>1, <3>1 DEF SerialInit, SerialAnswer, SerialMute, SerialWait
    <3>3. ser_state' = "IDLE" /\ ~finish' BY <3>1, <3>2 DEF SerialIdle
    <3>4. ~start_xfr' BY <2>4 DEF CmdFinish
    <3> QED BY <3>3, <3>4
  <2>5. CASE CmdWait
    <3>1. cmd_state' = "EXECUTE" /\ ~start_xfr' /\ ~finish
      BY <2>5 DEF CmdWait
    <3>2. finish' => ser_state' = "IDLE"
      BY <2>1, <3>1
         DEF SerialInit, SerialIdle, SerialAnswer, SerialMute, SerialWait,
             serVars
    <3> QED BY <3>1, <3>2
  <2>6. CASE CmdBusy
    <3>1. /\ cmd_state # "EXECUTE" /\ cmd_state' # "EXECUTE"
          /\ ~start_xfr /\ ~start_xfr'
      BY <2>6 DEF CmdBusy
    <3>2. SerialInit \/ SerialIdle
      BY <2>1, <3>1 DEF SerialAnswer, SerialMute, SerialWait
    <3>3. ser_state' \in {"IDLE", "INIT"} /\ ~finish'
      BY <3>1, <3>2 DEF SerialInit, SerialIdle
    <3> QED BY <3>1, <3>3
  <2> QED BY <1>1, <2>2, <2>3, <2>4, <2>5, <2>6 DEF CmdMaster
<1> QED BY <1>2, <1>3

\* What the other steps leave alone.
LEMMA SerialUnchanged ==
  ASSUME HInv, UNCHANGED <<cmd_state, start_xfr, ser_state, finish>>
  PROVE  SerialInv'
BY DEF HInv, SerialInv

LEMMA StatusUnchanged ==
  ASSUME HInv,
         UNCHANGED <<cmd_state, cmd_int_status_reg, pc, cmd_start, cmd_int_rst>>
  PROVE  StatusInv'
BY DEF HInv, StatusInv

\* A command is sent from a state without one.
LEMMA SendStatus ==
  ASSUME HInv, NEW c, NEW d, Send(c, d),
         cmd_state = "IDLE", cmd_int_status_reg = {}, ~cmd_int_rst,
         UNCHANGED <<cmd_state, cmd_int_status_reg, cmd_int_rst>>
  PROVE  StatusInv'
BY DEF StatusInv, Send

LEMMA DriverStatus ==
  ASSUME HInv, Request \/ Driver \/ CardDetectIrq
  PROVE  StatusInv'
<1> USE DEF HInv, hwVars, cmdVars, serVars, pulses
<1>1. ASSUME Request PROVE StatusInv'
  <2>1. pc = "idle" /\ UNCHANGED <<cmd_state, cmd_int_status_reg, cmd_int_rst>>
    BY <1>1 DEF Request
  <2>2. cmd_state = "IDLE" /\ cmd_int_status_reg = {} /\ ~cmd_int_rst
    BY <2>1 DEF StatusInv
  <2>3. PICK r \in Requests : Send("sbc", "none") \/ Send("cmd", r.data)
    BY <1>1 DEF Request
  <2> QED BY <2>1, <2>2, <2>3, SendStatus
<1>2. ASSUME Poll PROVE StatusInv'
  <2>1. /\ pc = "poll" /\ pc' = "clear" /\ cmd_int_rst' = TRUE
        /\ cmd_int_status # {}
        /\ UNCHANGED <<cmd_state, cmd_int_status_reg, cmd_start>>
    BY <1>2 DEF Poll
  <2>2. cmd_state = "IDLE" /\ ~cmd_start
    BY <2>1 DEF cmd_int_status, StatusInv
  <2> QED BY <2>1, <2>2 DEF StatusInv
<1>3. ASSUME Cleared PROVE cmd_state = "IDLE" /\ cmd_int_status_reg = {}
                           /\ ~cmd_int_rst /\ ~cmd_start
  BY <1>3 DEF Cleared, software_reset, StatusInv
<1>4. ASSUME IsrCleared PROVE cmd_state = "IDLE" /\ cmd_int_status_reg = {}
                              /\ ~cmd_int_rst /\ ~cmd_start
  BY <1>4 DEF IsrCleared, software_reset, StatusInv
<1>5. ASSUME AfterSbc PROVE StatusInv'
  <2>1. /\ Cleared /\ Send("cmd", mrq.data)
        /\ UNCHANGED <<cmd_state, cmd_int_status_reg, cmd_int_rst>>
    BY <1>5 DEF AfterSbc
  <2> QED BY <1>3, <2>1, SendStatus
<1>6. ASSUME IsrStop PROVE StatusInv'
  <2>1. /\ IsrCleared /\ Send("stop", "none")
        /\ UNCHANGED <<cmd_state, cmd_int_status_reg, cmd_int_rst>>
    BY <1>6 DEF IsrStop
  <2> QED BY <1>4, <2>1, SendStatus
<1>7. ASSUME AfterCmd \/ AfterLast \/ IsrDone \/ IsrStray PROVE StatusInv'
  <2>1. /\ Cleared \/ IsrCleared
        /\ pc' = "idle"
        /\ UNCHANGED <<cmd_state, cmd_int_status_reg, cmd_start, cmd_int_rst>>
    BY <1>7 DEF AfterCmd, AfterLast, IsrDone, IsrStray, Done
  <2> QED BY <1>3, <1>4, <2>1 DEF StatusInv
<1>8. ASSUME DataIrq \/ CardDetectIrq PROVE StatusInv'
  <2>1. /\ pc = "idle" /\ pc' = "isr"
        /\ UNCHANGED <<cmd_state, cmd_int_status_reg, cmd_start, cmd_int_rst>>
    BY <1>8 DEF DataIrq, CardDetectIrq, Isr
  <2> QED BY <2>1 DEF StatusInv
<1> QED BY <1>1, <1>2, <1>5, <1>6, <1>7, <1>8 DEF Driver

LEMMA DriverSerial ==
  ASSUME HInv, Request \/ Driver \/ CardDetectIrq
  PROVE  UNCHANGED <<cmd_state, start_xfr, ser_state, finish>>
BY DEF Driver, Request, Poll, AfterSbc, AfterCmd, AfterLast, DataIrq,
       CardDetectIrq, Isr, IsrStop, IsrDone, IsrStray, hwVars, cmdVars, serVars

LEMMA InductiveH == HInv /\ [Next]_vars => HInv'
<1> SUFFICES ASSUME HInv, [Next]_vars PROVE HInv' OBVIOUS
<1>1. CASE Posedge BY <1>1, PosedgeStatus, PosedgeSerial DEF HInv
<1>2. CASE Request \/ Driver \/ CardDetectIrq
  BY <1>2, DriverStatus, DriverSerial, SerialUnchanged DEF HInv
<1>3. CASE BurstEnds \/ CardEnds \/ UNCHANGED vars
  <2>1. UNCHANGED <<cmd_state, cmd_int_status_reg, pc, cmd_start, cmd_int_rst,
                    start_xfr, ser_state, finish>>
    BY <1>3 DEF BurstEnds, CardEnds, vars, drvVars, pulses, cmdVars, serVars
  <2> QED BY <2>1, StatusUnchanged, SerialUnchanged DEF HInv
<1> QED BY <1>1, <1>2, <1>3 DEF Next, Driver

LEMMA InvarianceH == Spec => []HInv
BY InitHInv, InductiveH, PTL DEF Spec

-----------------------------------------------------------------------------
\* sdc_send_cmd may poll cmd_int_status at once: what it reads before the
\* edge that takes the start is never the status of the command before.
THEOREM StatusIsFresh == Spec => []CmdStatusFresh
<1>1. HInv => CmdStatusFresh
  BY DEF HInv, StatusInv, CmdStatusFresh, cmd_int_status
<1> QED BY <1>1, InvarianceH, PTL

\* sd_cmd_serial_host is off the wires before the next command starts: a
\* finished command has left it idle, a timed out one has reset it.
THEOREM CommandsDoNotOverlap == Spec => []OneCommand
<1>1. HInv => OneCommand
  BY DEF HInv, StatusInv, SerialInv, OneCommand
<1> QED BY <1>1, InvarianceH, PTL

-----------------------------------------------------------------------------
(***************************************************************************)
(* The data of SdcHost's requests, for every timeout, buffer set, fault    *)
(* and timing.  Unless a command with data has failed and left its         *)
(* transfer behind (armed), data is read into the mapped buffer, no data   *)
(* status is taken for that of another request, and a request that is      *)
(* reported good has its data.                                             *)
(*                                                                         *)
(* The argument: the controller is at rest except between the start of a   *)
(* command with data and the clearing of its status (AtWork), the driver   *)
(* leaves that span only over sdc_isr or a failed command, and in it the   *)
(* transfer goes through its stages one at a time.                         *)
(***************************************************************************)

\* A request with data is in progress.
WithData == active /\ mrq.data # "none"

\* What the driver's variables say of each other.
DriverInv ==
  /\ pc \in {"idle", "poll", "clear", "isr"}
  /\ pc \in {"poll", "clear"} =>
       active /\ cmd_data = IF op = "cmd" THEN mrq.data ELSE "none"
  /\ active /\ pc \in {"idle", "isr"} => host_data /\ op = "cmd"
  /\ host_data => WithData /\ (op = "stop" \/ pc \in {"idle", "isr"})
  /\ op = "stop" => host_data
  /\ active => outcome = "none"
  /\ data_int_rst => pc = "isr"
  /\ WithData /\ op # "sbc" => mapped = dma_addr

\* A transfer may be under way, or its status not cleared yet.
AtWork == /\ WithData /\ op = "cmd" /\ ~cmd_start
          /\ pc = "isr" => data_int_rst

\* Nothing of a transfer is left but a burst on the bus.
Still == /\ dat_state = "IDLE" /\ en_fifo = "none" /\ data_start = "none"
         /\ ~data_prepare_tx /\ dat_int_status = {}

\* A transfer goes from one stage to the next and is never in two of them.
Stages ==
  /\ data_start # "none" =>
       dat_state = "IDLE" /\ ~data_prepare_tx /\ dat_int_status = {}
  /\ data_prepare_tx => dat_state = "IDLE" /\ dat_int_status = {}
  /\ dat_state # "IDLE" => dat_int_status = {}
  /\ dat_state = "IDLE" /\ dat_int_status = {} => en_fifo = "none"
  /\ pc = "isr" =>
       dat_state = "IDLE" /\ data_start = "none" /\ ~data_prepare_tx

\* The transfer is that of the request, and so is its outcome.
Own ==
  /\ WithData /\ op = "sbc" => ~bursting
  /\ WithData /\ op # "sbc" => bus_adr = mapped
  /\ WithData /\ card # "idle" => card_cur
  /\ WithData /\ dat_int_status # {} => fresh
  /\ WithData /\ dat_int_status = {"CC"} => landed
  /\ host_data /\ pc = "isr" => fresh
  /\ host_data /\ pc # "idle" /\ DataOk => landed

DataInv == (AtWork \/ Still) /\ Stages /\ Own /\ RequestIntegrity

\* Together, after a command with data that failed not the second half.
DInv == HInv /\ DriverInv /\ (~armed => DataInv)

LEMMA InitDInv == Init => DInv
<1> SUFFICES ASSUME Init PROVE DInv OBVIOUS
<1>1. HInv BY InitHInv
<1>2. DriverInv BY DEF Init, DriverInv, WithData
<1>3. Still /\ Stages BY DEF Init, Still, Stages
<1>4. Own BY DEF Init, Own, WithData
<1>5. RequestIntegrity BY DEF Init, RequestIntegrity
<1> QED BY <1>1, <1>2, <1>3, <1>4, <1>5 DEF DInv, DataInv

-----------------------------------------------------------------------------
(* An edge of the SD clock.                                                *)

LEMMA PosedgeDriver == ASSUME DriverInv, Posedge PROVE DriverInv'
BY DEF DriverInv, WithData, Posedge, drvVars

\* The data master does one thing for one state.
LEMMA MasterCases ==
  ASSUME DataMaster
  PROVE  \/ dat_state = "IDLE" /\ DatIdle
         \/ dat_state = "START_RX_FIFO" /\ DatStartRx
         \/ dat_state = "START_TX_FIFO" /\ DatStartTx
         \/ /\ dat_state = "DATA_TRANSFER"
            /\ DatWait \/ DatComplete \/ DatFifoFault \/ DatTimeout
BY DEF DataMaster, DatIdle, DatStartRx, DatStartTx, DatWait, DatComplete,
       DatFifoFault, DatTimeout, Flowing

\* A controller at rest stays so, unless a command with data starts.
LEMMA PosedgeStill ==
  ASSUME Posedge, Still, cmd_start => cmd_data = "none"
  PROVE  Still'
<1>1. DatIdle
  BY DEF Posedge, Still, DataMaster, DatIdle, DatStartRx, DatStartTx, DatWait,
         DatComplete, DatFifoFault, DatTimeout, Flowing
<1>2. dat_state' = "IDLE" /\ en_fifo' = "none" /\ dat_int_status' = {}
  BY <1>1 DEF DatIdle, DatReport, Still
<1>3. data_start' = "none" /\ ~data_prepare_tx'
  BY DEF Posedge, DataStart, Still
<1> QED BY <1>2, <1>3 DEF Still

\* A command with data starts a transfer, of one kind.
LEMMA PosedgeStart ==
  ASSUME Posedge, Still, cmd_start
  PROVE  /\ dat_state' = "IDLE" /\ en_fifo' = "none" /\ dat_int_status' = {}
         /\ data_start' # "none" => ~data_prepare_tx'
<1>1. DatIdle
  BY DEF Posedge, Still, DataMaster, DatIdle, DatStartRx, DatStartTx, DatWait,
         DatComplete, DatFifoFault, DatTimeout, Flowing
<1>2. dat_state' = "IDLE" /\ en_fifo' = "none" /\ dat_int_status' = {}
  BY <1>1 DEF DatIdle, DatReport, Still
<1>3. data_start' # "none" => ~data_prepare_tx'
  BY DEF Posedge, DataStart
<1> QED BY <1>2, <1>3

LEMMA PosedgeStages ==
  ASSUME HInv, DriverInv, DataInv, Posedge
  PROVE  (AtWork \/ Still)' /\ Stages'
<1> USE DEF DataInv
<1>1. /\ UNCHANGED <<pc, op, active, mrq, armed>>
      /\ cmd_start' = FALSE /\ data_int_rst' = FALSE
      /\ DataStart /\ DataMaster
  BY DEF Posedge, drvVars
<1>2. CASE cmd_start
  <2>1. Still /\ pc = "poll" BY <1>2 DEF AtWork, HInv, StatusInv
  <2>2. active /\ cmd_data = IF op = "cmd" THEN mrq.data ELSE "none"
    BY <2>1 DEF DriverInv
  <2>3. CASE WithData /\ op = "cmd"
    <3>1. AtWork' BY <1>1, <2>1, <2>3 DEF AtWork, WithData
    <3>2. Stages' BY <1>1, <1>2, <2>1, PosedgeStart DEF Stages
    <3> QED BY <3>1, <3>2
  <2>4. CASE ~(WithData /\ op = "cmd")
    <3>1. cmd_data = "none" BY <2>2, <2>4 DEF WithData
    <3>2. Still' BY <2>1, <3>1, PosedgeStill
    <3> QED BY <3>2 DEF Still, Stages
  <2> QED BY <2>3, <2>4
<1>3. CASE ~cmd_start /\ Still
  <2>1. Still' BY <1>3, PosedgeStill
  <2> QED BY <2>1 DEF Still, Stages
<1>4. CASE ~cmd_start /\ ~Still /\ pc = "isr"
  <2>1. data_int_rst BY <1>4 DEF AtWork
  <2>2. dat_state = "IDLE" /\ data_start = "none" /\ ~data_prepare_tx
    BY <1>4 DEF Stages
  <2>3. dat_state' = "IDLE" /\ en_fifo' = "none" /\ dat_int_status' = {}
    BY <1>1, <2>1, <2>2, MasterCases DEF DatIdle, DatReport
  <2>4. data_start' = "none" /\ ~data_prepare_tx'
    BY <1>1, <1>4, <2>2 DEF DataStart
  <2> QED BY <2>3, <2>4 DEF Still, Stages
<1>5. CASE ~cmd_start /\ ~Still /\ pc # "isr"
  <2>1. AtWork' BY <1>1, <1>5 DEF AtWork, WithData
  <2>2. ~data_int_rst BY <1>5 DEF DriverInv
  <2>3. /\ ~data_prepare_tx => data_start' = "none" /\ ~data_prepare_tx'
        /\ data_start' # "none" => ~data_prepare_tx'
    BY <1>1, <1>5 DEF DataStart
  <2>4. CASE dat_state = "IDLE"
    <3>1. DatIdle BY <1>1, <2>4, MasterCases
    <3>2. dat_int_status' = dat_int_status /\ en_fifo' = "none"
      BY <2>2, <3>1 DEF DatIdle, DatReport
    <3>3. dat_state' # "IDLE" => data_start # "none"
      BY <3>1 DEF DatIdle
    <3>4. dat_int_status = {} \/ (data_start = "none" /\ ~data_prepare_tx)
      BY DEF Stages
    <3> SUFFICES Stages' BY <2>1
    <3>5. CASE data_start # "none"
      BY <1>1, <1>5, <2>3, <3>2, <3>5 DEF Stages
    <3>6. CASE data_start = "none"
      BY <1>1, <1>5, <2>3, <3>2, <3>3, <3>4, <3>6 DEF Stages
    <3> QED BY <3>5, <3>6
  <2>5. CASE dat_state # "IDLE"
    <3>1. data_start = "none" /\ ~data_prepare_tx /\ dat_int_status = {}
      BY <2>5 DEF Stages
    <3>2. data_start' = "none" /\ ~data_prepare_tx' BY <2>3, <3>1
    <3>3. \/ dat_state' # "IDLE" /\ dat_int_status' = {}
          \/ dat_state' = "IDLE" /\ dat_int_status' # {}
      BY <1>1, <2>2, <2>5, <3>1, MasterCases
         DEF DatStartRx, DatStartTx, DatWait, DatComplete, DatFifoFault,
             DatTimeout, DatReport
    <3> QED BY <1>1, <1>5, <2>1, <3>2, <3>3 DEF Stages
  <2> QED BY <2>4, <2>5
<1> QED BY <1>2, <1>3, <1>4, <1>5

\* What the card is told makes it send or receive for this request only.
LEMMA PosedgeCard ==
  ASSUME Posedge
  PROVE  /\ card' = card \/ card' = "idle" \/ card_cur'
         /\ card_cur => card_cur'
<1>1. CmdSerial BY DEF Posedge
<1>2. CASE Heard BY <1>2 DEF Heard
<1>3. CASE UNCHANGED <<card, card_cur>> BY <1>3
<1> QED BY <1>1, <1>2, <1>3
        DEF CmdSerial, SerialReset, SerialInit, SerialIdle, SerialAnswer,
            SerialMute, SerialWait

LEMMA PosedgeOwn ==
  ASSUME HInv, DriverInv, DataInv, Posedge
  PROVE  Own' /\ RequestIntegrity'
<1> USE DEF DataInv
<1>1. /\ UNCHANGED <<pc, op, active, mrq, mapped, host_data, data_stat,
                     outcome, dma_addr>>
      /\ DataMaster /\ Reload(dma_addr)
  BY DEF Posedge, drvVars
<1>2. CASE dat_state = "IDLE"
  <2>1. DatIdle BY <1>1, <1>2, MasterCases
  <2>2. /\ UNCHANGED <<bursting, landed>>
        /\ fresh => fresh'
        /\ dat_int_status' = {} \/ dat_int_status' = dat_int_status
    BY <2>1 DEF DatIdle, DatReport
  <2> QED BY <1>1, <2>2, PosedgeCard
          DEF Own, Reload, DriverInv, WithData, DataOk, RequestIntegrity
<1>3. CASE dat_state # "IDLE"
  <2>1. AtWork /\ pc # "isr" /\ dat_int_status = {} BY <1>3 DEF Still, Stages
  <2>2. WithData /\ op = "cmd" BY <2>1 DEF AtWork
  <2>3. host_data => pc = "idle" BY <2>1, <2>2 DEF DriverInv
  <2>4. ~data_int_rst BY <2>1 DEF DriverInv
  <2>5. /\ outcome = "none" /\ dma_addr = mapped /\ bus_adr = mapped
    BY <2>2 DEF DriverInv, Own, WithData
  <2>6. bus_adr' = mapped' BY <1>1, <2>5 DEF Reload
  <2>7. /\ dat_int_status' # {} => fresh'
        /\ dat_int_status' = {"CC"} => landed'
    <3>1. CASE dat_int_status' = {} BY <3>1
    <3>2. CASE DatComplete
      <4>1. card_cur /\ card # "idle"
        BY <2>2, <3>2 DEF DatComplete, Flowing, Own
      <4>2. \/ DatReport({"CC"}) /\ landed' = (card_cur /\ bus_adr = mapped)
            \/ DatReport({"CC", "EI", "CCRCE"})
        BY <3>2 DEF DatComplete
      <4>3. CASE DatReport({"CC"}) /\ landed' = (card_cur /\ bus_adr = mapped)
        BY <2>1, <2>4, <2>5, <4>1, <4>3 DEF DatReport
      <4>4. CASE DatReport({"CC", "EI", "CCRCE"})
        <5>1. "EI" \in dat_int_status' /\ fresh'
          BY <2>4, <4>4 DEF DatReport
        <5> QED BY <5>1
      <4> QED BY <4>2, <4>3, <4>4
    <3>3. CASE DatFifoFault BY <2>1, <3>3 DEF DatFifoFault, DatReport
    <3>4. CASE DatTimeout
      <4>1. "EI" \in dat_int_status' /\ fresh'
        BY <2>4, <3>4 DEF DatTimeout, DatReport
      <4> QED BY <4>1
    <3>5. CASE DatStartRx \/ DatStartTx \/ DatWait
      BY <2>1, <3>5 DEF DatStartRx, DatStartTx, DatWait, DatReport
    <3> QED BY <1>1, <1>3, <3>2, <3>3, <3>4, <3>5, MasterCases
  <2>8. WithData' /\ card' # "idle" => card_cur'
    BY <1>1, <2>2, PosedgeCard DEF Own, WithData
  <2> QED BY <1>1, <2>2, <2>3, <2>5, <2>6, <2>7, <2>8
          DEF Own, WithData, RequestIntegrity
<1> QED BY <1>2, <1>3

-----------------------------------------------------------------------------
(* The driver.                                                             *)

LEMMA RequestStep ==
  ASSUME HInv, DriverInv, Request
  PROVE  DriverInv'
<1> USE DEF DriverInv, WithData
<1>1. /\ pc = "idle" /\ ~data_int_rst /\ data_int_rst' = data_int_rst
      /\ active' = TRUE /\ host_data' = FALSE /\ outcome' = "none"
  BY DEF Request
<1>2. PICK r \in Requests :
        /\ mrq' = r
        /\ \/ r.sbc /\ Send("sbc", "none")
           \/ Send("cmd", r.data) /\ Map(r)
  BY DEF Request
<1>3. CASE Send("sbc", "none") BY <1>1, <1>3 DEF Send
<1>4. CASE Send("cmd", r.data) /\ Map(r) BY <1>1, <1>2, <1>4 DEF Send, Map
<1> QED BY <1>2, <1>3, <1>4

LEMMA RequestData ==
  ASSUME HInv, DriverInv, Request, ~armed => DataInv, ~armed'
  PROVE  DataInv'
<1>1. /\ pc = "idle" /\ ~active /\ pc' = "poll" /\ cmd_start' = TRUE
      /\ active' = TRUE /\ host_data' = FALSE /\ outcome' = "none"
      /\ UNCHANGED <<hwVars, card>>
      /\ op' = "sbc" \/ op' = "cmd"
  BY DEF Request, Send
<1>2. Still
  <2>1. CASE armed BY <2>1 DEF Request, AtRest, Still
  <2>2. CASE ~armed BY <1>1, <2>2 DEF DataInv, AtWork, WithData
  <2> QED BY <2>1, <2>2
<1>3. Still' BY <1>1, <1>2 DEF Still, hwVars, glueVars, datVars
<1>4. Stages' BY <1>3 DEF Still, Stages
<1>5. WithData' => /\ card' = "idle" /\ ~bursting'
                   /\ op' # "sbc" => bus_adr' = mapped'
  <2>1. PICK r \in Requests :
          /\ r.data # "none" => card = "idle" /\ ~bursting
          /\ mrq' = r
          /\ \/ Send("sbc", "none")
             \/ Send("cmd", r.data) /\ Map(r)
    BY DEF Request
  <2>2. CASE Send("sbc", "none")
    BY <1>1, <2>1, <2>2 DEF Send, WithData, hwVars, datVars
  <2>3. CASE Send("cmd", r.data) /\ Map(r)
    BY <1>1, <1>2, <2>1, <2>3 DEF Map, WithData, hwVars, datVars, Still
  <2> QED BY <2>1, <2>2, <2>3
<1>6. Own' BY <1>1, <1>3, <1>5 DEF Own, Still
<1>7. RequestIntegrity' BY <1>1 DEF RequestIntegrity
<1> QED BY <1>3, <1>4, <1>6, <1>7 DEF DataInv

\* Apart from Request and AfterSbc the driver changes only its own variables.
\* What it must look after is where it leaves AtWork, and what it makes of
\* the data status.
LEMMA KeepsData ==
  ASSUME DataInv, RequestIntegrity',
         UNCHANGED <<hwVars, bus_adr, card, card_cur, landed, fresh, mrq>>,
         AtWork' \/ Still,
         active' => active /\ mapped' = mapped /\ (op' = "sbc" <=> op = "sbc"),
         pc' = "isr" => /\ dat_state = "IDLE" /\ data_start = "none"
                        /\ ~data_prepare_tx,
         host_data' /\ pc' = "isr" => fresh,
         host_data' /\ pc' # "idle" /\ DataOk' => landed
  PROVE  DataInv'
<1>1. UNCHANGED <<dat_state, en_fifo, dat_int_status, bursting, data_start,
                  data_prepare_tx>>
  BY DEF hwVars, datVars, glueVars
<1>2. (AtWork \/ Still)' BY <1>1 DEF Still
<1>3. Stages' BY <1>1 DEF DataInv, Stages
<1>4. Own' BY <1>1 DEF DataInv, Own, WithData
<1> QED BY <1>2, <1>3, <1>4 DEF DataInv

\* A request that was not reported cannot have been reported wrongly.
LEMMA NotYet == ASSUME outcome' = "none" PROVE RequestIntegrity'
BY DEF RequestIntegrity

LEMMA PollStep ==
  ASSUME HInv, DriverInv, Poll
  PROVE  DriverInv' /\ (DataInv => DataInv')
<1>1. pc = "poll" /\ pc' = "clear" /\ active BY DEF Poll, DriverInv
<1>2. DriverInv' BY <1>1 DEF DriverInv, WithData, Poll
<1>3. ASSUME DataInv PROVE DataInv'
  <2>1. AtWork' \/ Still
    BY <1>1, <1>3 DEF DataInv, AtWork, WithData, Poll
  <2>2. RequestIntegrity' BY <1>1, NotYet DEF DriverInv, Poll
  <2> QED BY <1>1, <1>3, <2>1, <2>2, KeepsData
          DEF DataInv, Own, DataOk, Poll, cardVars
<1> QED BY <1>2, <1>3

LEMMA AfterSbcStep ==
  ASSUME HInv, DriverInv, AfterSbc
  PROVE  DriverInv' /\ (DataInv => DataInv')
<1>1. /\ pc = "clear" /\ op = "sbc" /\ pc' = "poll" /\ op' = "cmd"
      /\ cmd_data' = mrq.data /\ cmd_start' = TRUE /\ ~data_int_rst
      /\ Map(mrq)
      /\ UNCHANGED <<mrq, active, host_data, data_stat, outcome, hwVars,
                     cardVars, data_int_rst>>
  BY DEF AfterSbc, Send, Cleared, software_reset
<1>2. active /\ ~host_data /\ outcome = "none" BY <1>1 DEF DriverInv
<1>3. mrq.data # "none" => mapped' = dma_addr' BY <1>1 DEF Map
<1>4. DriverInv' BY <1>1, <1>2, <1>3 DEF DriverInv, WithData
<1>5. ASSUME DataInv PROVE DataInv'
  <2>1. Still BY <1>1, <1>5 DEF DataInv, AtWork
  <2>2. Still' BY <1>1, <2>1 DEF Still, hwVars, datVars, glueVars
  <2>3. Stages' BY <2>2 DEF Still, Stages
  <2>4. WithData => bus_adr' = mapped'
    BY <1>1, <1>5, <2>1 DEF DataInv, Own, Map, WithData, Still
  <2>5. Own'
    BY <1>1, <1>2, <1>5, <2>2, <2>4
       DEF DataInv, Own, WithData, Still, cardVars
  <2>6. RequestIntegrity' BY <1>1, <1>2, NotYet
  <2> QED BY <2>2, <2>3, <2>5, <2>6 DEF DataInv
<1> QED BY <1>4, <1>5

LEMMA AfterCmdStep ==
  ASSUME HInv, DriverInv, AfterCmd
  PROVE  DriverInv' /\ (DataInv => DataInv')
<1>1. /\ pc = "clear" /\ op = "cmd" /\ mrq.data # "none" /\ active
      /\ ~cmd_start /\ ~data_int_rst /\ outcome = "none"
  BY DEF AfterCmd, Cleared, software_reset, DriverInv
<1>2. /\ pc' = "idle" /\ host_data' = TRUE
      /\ UNCHANGED <<op, mrq, active, mapped, dma_addr, data_int_rst, outcome,
                     cmd_start, bus_adr, hwVars, cardVars>>
  BY DEF AfterCmd, pulses
<1>3. DriverInv' BY <1>1, <1>2 DEF DriverInv, WithData
<1>4. ASSUME DataInv PROVE DataInv'
  <2>1. AtWork' BY <1>1, <1>2 DEF AtWork, WithData
  <2>2. RequestIntegrity' BY <1>1, <1>2, NotYet
  <2> QED BY <1>2, <1>4, <2>1, <2>2, KeepsData DEF cardVars
<1> QED BY <1>3, <1>4

\* A command with data that failed is what the proviso is about; anything
\* else that ends a request leaves a controller at rest.
LEMMA AfterLastStep ==
  ASSUME HInv, DriverInv, AfterLast
  PROVE  DriverInv' /\ (DataInv /\ ~armed' => DataInv')
<1>1. /\ pc = "clear" /\ active /\ ~data_int_rst /\ outcome = "none"
  BY DEF AfterLast, Cleared, software_reset, DriverInv
<1>2. /\ pc' = "idle" /\ host_data' = FALSE /\ active' = FALSE /\ op' = "cmd"
      /\ outcome' = IF CmdOk THEN "ok" ELSE "error"
      /\ UNCHANGED <<mrq, data_int_rst, bus_adr, hwVars, card, card_cur,
                     landed, fresh>>
  BY DEF AfterLast, Done, pulses
<1>3. DriverInv' BY <1>1, <1>2 DEF DriverInv, WithData
<1>4. ASSUME DataInv, ~armed' PROVE DataInv'
  <2>1. op # "cmd" \/ mrq.data = "none" BY <1>4 DEF AfterLast
  <2>2. Still BY <1>4, <2>1 DEF DataInv, AtWork, WithData
  <2>3. outcome' = "ok" => mrq.data = "none" BY <1>2, <2>1 DEF AfterLast
  <2>4. RequestIntegrity' BY <1>2, <2>3 DEF RequestIntegrity
  <2> QED BY <1>2, <1>4, <2>2, <2>4, KeepsData
<1> QED BY <1>3, <1>4

\* The data status that sdc_isr reads for a request is its own.
LEMMA IsrStep ==
  ASSUME HInv, DriverInv, DataIrq \/ CardDetectIrq
  PROVE  DriverInv' /\ (DataInv => DataInv')
<1>1. /\ pc = "idle" /\ pc' = "isr" /\ data_int_rst' = TRUE
      /\ data_int_status_reg # {} /\ data_stat' = data_int_status_reg
      /\ UNCHANGED <<op, mrq, active, host_data, mapped, outcome, cmd_start,
                     dma_addr, bus_adr, hwVars, cardVars>>
  BY DEF DataIrq, CardDetectIrq, Isr
<1>2. DriverInv' BY <1>1 DEF DriverInv, WithData
<1>3. ASSUME DataInv PROVE DataInv'
  <2>1. dat_int_status # {} BY <1>1 DEF data_int_status_reg
  <2>2. AtWork' BY <1>1, <1>3, <2>1 DEF DataInv, AtWork, Still, WithData
  <2>3. dat_state = "IDLE" /\ data_start = "none" /\ ~data_prepare_tx
    BY <1>3, <2>1 DEF DataInv, Stages
  <2>4. WithData BY <1>1, <2>2 DEF AtWork, WithData
  <2>5. fresh BY <1>3, <2>1, <2>4 DEF DataInv, Own
  <2>6. data_stat' = {"CC"} => landed
    <3> SUFFICES ASSUME data_int_status_reg = {"CC"} PROVE landed
      BY <1>1
    <3>1. \A b \in dat_int_status : b = "CC"
      BY DEF data_int_status_reg
    <3>2. dat_int_status = {"CC"} BY <2>1, <3>1
    <3> QED BY <1>3, <2>4, <3>2 DEF DataInv, Own
  <2>7. RequestIntegrity'
    BY <1>1, <1>3 DEF DataInv, RequestIntegrity, cardVars
  <2> QED BY <1>1, <1>3, <2>2, <2>3, <2>5, <2>6, <2>7, KeepsData
          DEF DataOk, cardVars
<1> QED BY <1>2, <1>3

LEMMA IsrStopStep ==
  ASSUME HInv, DriverInv, IsrStop
  PROVE  DriverInv' /\ (DataInv => DataInv')
<1>1. /\ pc = "isr" /\ host_data /\ ~data_int_rst /\ op = "cmd" /\ WithData
      /\ outcome = "none"
  BY DEF IsrStop, IsrCleared, software_reset, DriverInv, WithData
<1>2. /\ pc' = "poll" /\ op' = "stop" /\ cmd_data' = "none"
      /\ UNCHANGED <<mrq, active, host_data, data_stat, mapped, outcome,
                     data_int_rst, dma_addr, bus_adr, hwVars, cardVars>>
  BY DEF IsrStop, Send
<1>3. DriverInv' BY <1>1, <1>2 DEF DriverInv, WithData
<1>4. ASSUME DataInv PROVE DataInv'
  <2>1. Still BY <1>1, <1>4 DEF DataInv, AtWork
  <2>2. DataOk' => landed BY <1>1, <1>2, <1>4 DEF DataInv, Own, DataOk
  <2>3. RequestIntegrity' BY <1>1, <1>2, NotYet
  <2> QED BY <1>1, <1>2, <1>4, <2>1, <2>2, <2>3, KeepsData DEF cardVars
<1> QED BY <1>3, <1>4

LEMMA IsrDoneStep ==
  ASSUME HInv, DriverInv, IsrDone
  PROVE  DriverInv' /\ (DataInv => DataInv')
<1>1. /\ pc # "idle" /\ active /\ ~data_int_rst /\ op # "sbc"
      /\ host_data /\ (pc = "clear" => op = "stop") /\ pc \in {"isr", "clear"}
  <2>1. CASE IsrCleared /\ host_data
    BY <2>1 DEF IsrCleared, software_reset, DriverInv, WithData
  <2>2. CASE Cleared /\ op = "stop"
    BY <2>2 DEF Cleared, software_reset, DriverInv, WithData
  <2> QED BY <2>1, <2>2 DEF IsrDone
<1>2. /\ pc' = "idle" /\ host_data' = FALSE /\ active' = FALSE /\ op' = "cmd"
      /\ outcome' = IF DataOk THEN "ok" ELSE "error"
      /\ UNCHANGED <<mrq, data_int_rst, bus_adr, hwVars, cardVars>>
  BY DEF IsrDone, Done, pulses
<1>3. DriverInv' BY <1>1, <1>2 DEF DriverInv, WithData
<1>4. ASSUME DataInv PROVE DataInv'
  <2>1. Still BY <1>1, <1>4 DEF DataInv, AtWork
  <2>2. DataOk => landed BY <1>1, <1>4 DEF DataInv, Own, DriverInv
  <2>3. RequestIntegrity' BY <1>2, <2>2 DEF RequestIntegrity, cardVars
  <2> QED BY <1>2, <1>4, <2>1, <2>3, KeepsData DEF cardVars
<1> QED BY <1>3, <1>4

LEMMA IsrStrayStep ==
  ASSUME HInv, DriverInv, IsrStray
  PROVE  DriverInv' /\ (DataInv => DataInv')
<1>1. pc = "isr" /\ ~host_data /\ ~active /\ ~data_int_rst
  BY DEF IsrStray, IsrCleared, software_reset, DriverInv
<1>2. /\ pc' = "idle"
      /\ UNCHANGED <<op, mrq, active, host_data, mapped, outcome, cmd_start,
                     data_int_rst, dma_addr, bus_adr, hwVars, cardVars>>
  BY DEF IsrStray, pulses
<1>3. DriverInv' BY <1>1, <1>2 DEF DriverInv, WithData
<1>4. ASSUME DataInv PROVE DataInv'
  <2>1. Still BY <1>1, <1>4 DEF DataInv, AtWork
  <2>2. RequestIntegrity'
    BY <1>2, <1>4 DEF DataInv, RequestIntegrity, cardVars
  <2> QED BY <1>1, <1>2, <1>4, <2>1, <2>2, KeepsData DEF cardVars
<1> QED BY <1>3, <1>4

-----------------------------------------------------------------------------
(* The rest: a burst or the card comes to its end.                         *)

LEMMA OthersStep ==
  ASSUME DriverInv, BurstEnds \/ CardEnds \/ UNCHANGED vars
  PROVE  DriverInv' /\ (DataInv => DataInv') /\ armed' = armed
<1>1. /\ UNCHANGED <<drvVars, pulses, cmd_data, dma_addr, glueVars, dat_state,
                     en_fifo, dat_int_status, card_cur, landed, fresh, armed>>
      /\ bursting' = bursting \/ ~bursting'
      /\ bus_adr' = bus_adr \/ bus_adr' = dma_addr
      /\ card' = card \/ card' = "idle"
  BY DEF BurstEnds, CardEnds, vars, cardVars, datVars, Reload
<1>2. DriverInv' BY <1>1 DEF DriverInv, WithData, drvVars, pulses
<1>3. ASSUME DataInv PROVE DataInv'
  <2>1. (AtWork \/ Still)' /\ Stages'
    BY <1>1, <1>3
       DEF DataInv, AtWork, WithData, Still, Stages, drvVars, pulses, glueVars
  <2>2. Own' BY <1>1, <1>3 DEF DataInv, Own, WithData, DataOk, DriverInv, drvVars
  <2>3. RequestIntegrity' BY <1>1, <1>3 DEF DataInv, RequestIntegrity, drvVars
  <2> QED BY <2>1, <2>2, <2>3 DEF DataInv
<1> QED BY <1>1, <1>2, <1>3

\* Only Request forgets a failed command with data, only AfterLast adds one.
LEMMA ArmedStep ==
  ASSUME Poll \/ AfterSbc \/ AfterCmd \/ DataIrq \/ CardDetectIrq \/ IsrStop
         \/ IsrDone \/ IsrStray \/ Posedge
  PROVE  armed' = armed
BY DEF Poll, AfterSbc, AfterCmd, DataIrq, CardDetectIrq, Isr, IsrStop, IsrDone,
       IsrStray, Posedge, cardVars

LEMMA InductiveD == DInv /\ [Next]_vars => DInv'
<1> SUFFICES ASSUME DInv, [Next]_vars PROVE DInv' OBVIOUS
<1> USE DEF DInv
<1>1. HInv' BY InductiveH
<1>2. CASE Posedge
  BY <1>1, <1>2, PosedgeDriver, PosedgeStages, PosedgeOwn, ArmedStep DEF DataInv
<1>3. CASE Request
  <2>1. DriverInv' BY <1>3, RequestStep
  <2>2. ~armed' => DataInv' BY <1>3, RequestData
  <2> QED BY <1>1, <2>1, <2>2
<1>4. CASE Poll BY <1>1, <1>4, PollStep, ArmedStep
<1>5. CASE AfterSbc BY <1>1, <1>5, AfterSbcStep, ArmedStep
<1>6. CASE AfterCmd BY <1>1, <1>6, AfterCmdStep, ArmedStep
<1>7. CASE AfterLast
  <2>1. ~armed' => ~armed BY <1>7 DEF AfterLast
  <2> QED BY <1>1, <1>7, <2>1, AfterLastStep
<1>8. CASE DataIrq \/ CardDetectIrq BY <1>1, <1>8, IsrStep, ArmedStep
<1>9. CASE IsrStop BY <1>1, <1>9, IsrStopStep, ArmedStep
<1>10. CASE IsrDone BY <1>1, <1>10, IsrDoneStep, ArmedStep
<1>11. CASE IsrStray BY <1>1, <1>11, IsrStrayStep, ArmedStep
<1>12. CASE BurstEnds \/ CardEnds \/ UNCHANGED vars
  BY <1>1, <1>12, OthersStep
<1> QED BY <1>2, <1>3, <1>4, <1>5, <1>6, <1>7, <1>8, <1>9, <1>10, <1>11, <1>12
        DEF Next

LEMMA InvarianceD == Spec => []DInv
BY InitDInv, InductiveD, PTL DEF Spec

-----------------------------------------------------------------------------
\* A buffer belongs to the controller from dma_map_sg to dma_unmap_sg, and no
\* longer: while words of a read go to memory it is mapped for the request in
\* progress, with the proviso of armed.
THEOREM BuffersOwned == Spec => []BufferOwned
<1>1. DInv => BufferOwned
  <2> SUFFICES ASSUME DInv, Flowing, ~armed PROVE bus_adr = mapped
    BY DEF BufferOwned
  <2>1. AtWork BY DEF DInv, DataInv, Flowing, Still
  <2> QED BY <2>1 DEF DInv, DataInv, AtWork, Own
<1> QED BY <1>1, InvarianceD, PTL

\* What sdc_isr takes for the end of a request is the status of its own
\* transfer, with the same proviso.
THEOREM DataStatusIsFresh == Spec => []DataStatusFresh
<1>1. DInv => DataStatusFresh
  BY DEF DInv, DataInv, Own, DataStatusFresh
<1> QED BY <1>1, InvarianceD, PTL

\* A request with data that sdc_request or sdc_isr reports good has its data
\* where it belongs, with the same proviso.
THEOREM RequestsAreSound == Spec => []RequestSound
<1>1. DInv => RequestSound
  BY DEF DInv, DataInv, RequestSound
<1> QED BY <1>1, InvarianceD, PTL
=============================================================================
