------------------------------ MODULE SdcHost -------------------------------
(***************************************************************************)
(* The Linux driver of the SD controller (fpga-axi-sdc.c) with the command *)
(* path and the data master it talks to.                                   *)
(*                                                                         *)
(* The driver runs sdc_request and the interrupt handler sdc_isr, one at a *)
(* time under host->lock; both send commands with sdc_send_cmd, which      *)
(* polls.  Every access to a register the hardware may change meanwhile is *)
(* a step of its own.  The hardware takes one step per rising edge of the  *)
(* SD clock, all parts at once.  What the FIFO and the AXI master do with  *)
(* the words is SdDataPath's subject: here a transfer has a buffer it goes *)
(* to, a card that sends or receives, and an end.                          *)
(***************************************************************************)
EXTENDS Naturals

CONSTANTS
  Bufs,           \* DMA buffers of requests
  NoBuf,
  InitDelay,      \* INIT_DELAY of sd_cmd_serial_host
  Clock,          \* ios.clock, Hz
  XferBlocks,     \* blocks of a request with data
  DataCmdFaults,  \* what may befall a command with data: "mute", "bad"
  DataFaults      \* what may befall the data: "CCRCE", "CFE"

ASSUME HostAssumption ==
  /\ NoBuf \notin Bufs /\ Bufs # {}
  /\ InitDelay \in Nat
  /\ Clock \in Nat /\ XferBlocks \in Nat
  /\ DataCmdFaults \subseteq {"mute", "bad"}
  /\ DataFaults \subseteq {"CCRCE", "CFE"}

VARIABLES
  \* the driver
  pc,               \* "idle": host->lock is free
  op,               \* the command being sent: "sbc", "cmd" or "stop"
  mrq,              \* the request in progress
  active,           \* host->mrq # NULL
  host_data,        \* host->data # NULL
  cmd_stat, data_stat,       \* the statuses as the driver read them
  mapped,           \* the buffer between dma_map_sg and dma_unmap_sg
  outcome,          \* what the last request was reported as
  \* registers
  cmd_start, cmd_int_rst, data_int_rst,
  cmd_data,         \* CMD_WITH_DATA of command_reg
  dma_addr, dat_int_enable,
  \* sd_cmd_master and sd_cmd_serial_host
  cmd_state, cmd_int_status_reg, start_xfr, go_idle,
  ser_state, counter, finish, resp_ok,
  \* the start of data transfers, sd_data_master, the DMA address
  data_prepare_tx, data_start, dat_state, en_fifo, dat_int_status,
  bursting,         \* an aborted transfer still has an AXI burst to finish
  bus_adr,          \* the buffer m_bus_adr_o points into
  \* the card and the history
  card,             \* what it does on the data lines: "idle","send","recv"
  card_cur,         \* and whether the request in progress asked for it
  landed,           \* the data of this request is where it belongs
  fresh,            \* the data status was set since this request began
  armed             \* a command with data failed, and the controller has not
                    \* been at rest at the start of a request since

drvVars == <<pc, op, mrq, active, host_data, cmd_stat, data_stat, mapped,
             outcome>>
pulses == <<cmd_start, cmd_int_rst, data_int_rst>>
cmdVars == <<cmd_state, cmd_int_status_reg, start_xfr, go_idle>>
serVars == <<ser_state, counter, finish, resp_ok>>
glueVars == <<data_prepare_tx, data_start>>
datVars == <<dat_state, en_fifo, dat_int_status, bursting>>
cardVars == <<card, card_cur, landed, fresh, armed>>
vars == <<drvVars, pulses, cmd_data, dma_addr, dat_int_enable, cmdVars,
          serVars, glueVars, datVars, bus_adr, cardVars>>

-----------------------------------------------------------------------------
(* Timeouts.  A register that reads back short of the wanted value is set  *)
(* to 0, which stops the watchdog.                                         *)

Fits(timeout, width) == IF timeout < 2 ^ width THEN timeout ELSE 0

\* CMD_TIMEOUT_MS of the SD clock, in a register of CMD_TIMEOUT_W bits.
cmd_timeout == Fits(Clock, 25)

\* 512-byte blocks over 4 wires plus BUSY_TIMEOUT_MS for each, in a register
\* of DATA_TIMEOUT_W bits.
data_timeout == Fits(XferBlocks * 1024 + (Clock \div 2) * XferBlocks, 28)

-----------------------------------------------------------------------------
(* What the driver reads.                                                  *)

cmd_int_status == IF cmd_state = "IDLE" THEN cmd_int_status_reg ELSE {}

data_int_status_reg ==
  {b \in dat_int_status : b = "CC" => en_fifo = "none" /\ ~bursting}

software_reset == cmd_start \/ data_int_rst \/ cmd_int_rst

-----------------------------------------------------------------------------
(* sd_cmd_master.                                                          *)

CmdReport(bits) ==
  cmd_int_status_reg' = IF cmd_int_rst THEN {} ELSE bits

CmdIdle ==
  /\ cmd_state = "IDLE"
  /\ go_idle' = FALSE
  /\ IF cmd_start
     THEN /\ start_xfr' = TRUE
          /\ cmd_state' = "EXECUTE"
          /\ CmdReport({})
     ELSE /\ UNCHANGED <<start_xfr, cmd_state>>
          /\ CmdReport(cmd_int_status_reg)

\* Mutant: the watchdog runs only while an answer is awaited.
Stuck_OnWire == ser_state = "READ_WAIT"

\* The watchdog outlasts whatever the wires and an answering card take: it
\* expires on a command that waits for an answer or was never sent.
Stuck == ser_state # "WRITE" /\ ~finish /\ ~start_xfr

\* Mutant: a command that timed out is left on the wires.
CmdTimeout_NoReset ==
  /\ cmd_state = "EXECUTE"
  /\ Stuck
  /\ cmd_timeout # 0
  /\ start_xfr' = FALSE
  /\ cmd_state' = "IDLE"
  /\ CmdReport(cmd_int_status_reg \cup {"CTE", "EI"})
  /\ UNCHANGED go_idle

CmdTimeout ==
  /\ cmd_state = "EXECUTE"
  /\ Stuck
  /\ cmd_timeout # 0
  /\ start_xfr' = FALSE
  /\ go_idle' = TRUE
  /\ cmd_state' = "IDLE"
  /\ CmdReport(cmd_int_status_reg \cup {"CTE", "EI"})

\* MMC_RSP_BUSY (R1b): the command that stops a transfer has it, and one of a
\* request without data may have it; then the card may be busy.
CmdFinish ==
  /\ cmd_state = "EXECUTE"
  /\ finish
  /\ start_xfr' = FALSE
  /\ \/ op = "stop" /\ cmd_state' = "BUSY_CHECK"
     \/ op \in {"sbc", "cmd"} /\ cmd_state' = "IDLE"
     \/ op = "cmd" /\ mrq.data = "none" /\ cmd_state' = "BUSY_CHECK"
  /\ CmdReport(cmd_int_status_reg
               \cup (IF resp_ok THEN {"CC"} ELSE {"CC", "EI", "CCRCE"}))
  /\ UNCHANGED go_idle

CmdWait ==
  /\ cmd_state = "EXECUTE" /\ ~finish
  /\ start_xfr' = FALSE
  /\ CmdReport(cmd_int_status_reg)
  /\ UNCHANGED <<cmd_state, go_idle>>

\* There is no watchdog here: the card must release the data line.
CmdBusy ==
  /\ cmd_state = "BUSY_CHECK"
  /\ cmd_state' \in {"BUSY_CHECK", "IDLE"}
  /\ CmdReport(cmd_int_status_reg)
  /\ UNCHANGED <<start_xfr, go_idle>>

CmdMaster == CmdIdle \/ CmdTimeout \/ CmdFinish \/ CmdWait \/ CmdBusy

-----------------------------------------------------------------------------
(* sd_cmd_serial_host and the card's command line.  go_idle resets it, and *)
(* it then takes InitDelay edges before it looks at start_xfr again.       *)

SerialReset ==
  /\ go_idle \/ go_idle'
  /\ ser_state' = "INIT" /\ counter' = 0 /\ finish' = FALSE
  /\ resp_ok' = FALSE
  /\ UNCHANGED <<card, card_cur>>

Running == ~go_idle /\ ~go_idle'

SerialInit ==
  /\ Running /\ ser_state = "INIT"
  /\ counter' = IF counter < InitDelay THEN counter + 1 ELSE 0
  /\ ser_state' = IF counter < InitDelay THEN "INIT" ELSE "IDLE"
  /\ UNCHANGED <<finish, resp_ok, card, card_cur>>

SerialIdle ==
  /\ Running /\ ser_state = "IDLE"
  /\ finish' = FALSE /\ resp_ok' = FALSE
  /\ ser_state' = IF start_xfr THEN "WRITE" ELSE "IDLE"
  /\ UNCHANGED <<counter, card, card_cur>>

\* A card that gets a command starts or stops what it does with the data.
Heard ==
  /\ card' = CASE op = "cmd" /\ cmd_data = "rx" -> "send"
               [] op = "cmd" /\ cmd_data = "tx" -> "recv"
               [] op = "stop" -> "idle"
               [] OTHER -> card
  /\ card_cur' = (op = "cmd" \/ card_cur)

Faults == IF op = "cmd" /\ cmd_data # "none" THEN DataCmdFaults
                                             ELSE {"mute", "bad"}

\* The card answers, well or with a response that fails its check.
SerialAnswer ==
  /\ Running /\ ser_state = "WRITE"
  /\ resp_ok' \in {TRUE} \cup {f # "bad" : f \in Faults \cap {"bad"}}
  /\ Heard
  /\ finish' = TRUE
  /\ ser_state' = "IDLE"
  /\ UNCHANGED counter

\* The command, or the answer to it, is lost.
SerialMute ==
  /\ Running /\ ser_state = "WRITE"
  /\ "mute" \in Faults
  /\ Heard \/ UNCHANGED <<card, card_cur>>
  /\ ser_state' = "READ_WAIT"
  /\ UNCHANGED <<counter, finish, resp_ok>>

SerialWait ==
  /\ Running /\ ser_state \in {"WRITE", "READ_WAIT"}
  /\ UNCHANGED <<serVars, card, card_cur>>

CmdSerial ==
  \/ SerialReset
  \/ SerialInit
  \/ SerialIdle
  \/ SerialAnswer
  \/ SerialMute
  \/ SerialWait

-----------------------------------------------------------------------------
(* axi_sdc_controller's start of data transfers.  A read is armed with the *)
(* command, a write when the command is complete.                          *)

\* Mutant: clearing the command status also forgets a write to be started.
DataStart_Cleared ==
  IF cmd_start
  THEN /\ data_start' = IF cmd_data = "rx" THEN "rx" ELSE "none"
       /\ data_prepare_tx' = (cmd_data = "tx")
  ELSE /\ data_start' = IF data_prepare_tx /\ ~cmd_int_rst
                           /\ "CC" \in cmd_int_status
                        THEN "tx" ELSE "none"
       /\ data_prepare_tx' = (data_prepare_tx /\ ~cmd_int_rst
                              /\ cmd_int_status = {})

DataStart ==
  IF cmd_start
  THEN /\ data_start' = IF cmd_data = "rx" THEN "rx" ELSE "none"
       /\ data_prepare_tx' = (cmd_data = "tx")
  ELSE /\ data_start' = IF data_prepare_tx /\ "CC" \in cmd_int_status
                        THEN "tx" ELSE "none"
       /\ data_prepare_tx' = (data_prepare_tx /\ cmd_int_status = {})

-----------------------------------------------------------------------------
(* sd_data_master, its conditions on the FIFO and the bus left open.       *)

DatReport(bits) ==
  /\ dat_int_status' = IF data_int_rst THEN {} ELSE dat_int_status \cup bits
  /\ fresh' = (fresh \/ bits # {})

DatIdle ==
  /\ dat_state = "IDLE"
  /\ en_fifo' = "none"
  /\ dat_state' = CASE data_start = "tx" -> "START_TX_FIFO"
                    [] data_start = "rx" -> "START_RX_FIFO"
                    [] OTHER -> "IDLE"
  /\ DatReport({})
  /\ UNCHANGED <<bursting, landed>>

DatStartRx ==
  /\ dat_state = "START_RX_FIFO"
  /\ en_fifo' = "rx"
  /\ dat_state' = "DATA_TRANSFER"
  /\ DatReport({})
  /\ UNCHANGED <<bursting, landed>>

\* Waits for the FIFO to be half full.
DatStartTx ==
  /\ dat_state = "START_TX_FIFO"
  /\ en_fifo' = "tx"
  /\ dat_state' \in {"START_TX_FIFO", "DATA_TRANSFER"}
  /\ DatReport({})
  /\ UNCHANGED <<bursting, landed>>

DatWait ==
  /\ dat_state = "DATA_TRANSFER"
  /\ DatReport({})
  /\ UNCHANGED <<dat_state, en_fifo, bursting, landed>>

\* The data of this transfer is flowing.
Flowing == /\ dat_state = "DATA_TRANSFER"
           /\ \/ en_fifo = "rx" /\ card = "send"
              \/ en_fifo = "tx" /\ card = "recv"

DatComplete ==
  /\ Flowing
  /\ dat_state' = "IDLE"
  /\ \/ DatReport({"CC"}) /\ landed' = (card_cur /\ bus_adr = mapped)
     \/ /\ "CCRCE" \in DataFaults
        /\ DatReport({"CC", "EI", "CCRCE"}) /\ UNCHANGED landed
  /\ UNCHANGED <<en_fifo, bursting>>

\* A burst may be on the bus when the FIFO overflows or runs dry.
DatFifoFault ==
  /\ Flowing
  /\ "CFE" \in DataFaults
  /\ dat_state' = "IDLE"
  /\ DatReport({"CFE", "EI"})
  /\ bursting' \in BOOLEAN
  /\ UNCHANGED <<en_fifo, landed>>

DatTimeout ==
  /\ dat_state = "DATA_TRANSFER"
  /\ data_timeout # 0
  /\ dat_state' = "IDLE"
  /\ DatReport({"CTE", "EI"})
  /\ UNCHANGED <<en_fifo, bursting, landed>>

DataMaster ==
  \/ DatIdle
  \/ DatStartRx
  \/ DatStartTx
  \/ DatWait
  \/ DatComplete
  \/ DatFifoFault
  \/ DatTimeout

\* The address follows dma_addr while no direction is on and the bus idle.
Reload(adr) ==
  bus_adr' = IF en_fifo' = "none" /\ ~bursting' THEN adr ELSE bus_adr

Posedge ==
  /\ CmdMaster
  /\ CmdSerial
  /\ DataStart
  /\ DataMaster
  /\ Reload(dma_addr)
  /\ cmd_start' = FALSE /\ cmd_int_rst' = FALSE /\ data_int_rst' = FALSE
  /\ UNCHANGED <<drvVars, cmd_data, dma_addr, dat_int_enable, armed>>

\* The burst that outlived its transfer ends.
BurstEnds ==
  /\ bursting
  /\ bursting' = FALSE
  /\ UNCHANGED <<drvVars, pulses, cmd_data, dma_addr, dat_int_enable, cmdVars,
                 serVars, glueVars, dat_state, en_fifo, dat_int_status,
                 cardVars>>
  /\ Reload(dma_addr)

\* A card that sent or took what it was asked for, or gave up.
CardEnds ==
  /\ card # "idle"
  /\ ~Flowing
  /\ card' = "idle"
  /\ UNCHANGED <<drvVars, pulses, cmd_data, dma_addr, dat_int_enable, cmdVars,
                 serVars, glueVars, datVars, bus_adr, card_cur, landed, fresh,
                 armed>>

-----------------------------------------------------------------------------
(* The driver.                                                             *)

hwVars == <<cmdVars, serVars, glueVars, datVars>>

NoRequest == [data |-> "none", sbc |-> FALSE, stop |-> FALSE]

\* What the mmc core asks for: a transfer of many blocks is announced (sbc)
\* or stopped (stop), not both.
Requests == {r \in [data : {"none", "rx", "tx"}, sbc : BOOLEAN, stop : BOOLEAN] :
               (r.sbc \/ r.stop) => (r.data # "none" /\ r.sbc # r.stop)}

\* sdc_send_cmd up to the write of argument, which starts the command.
Send(command, data) ==
  /\ op' = command
  /\ cmd_data' = data
  /\ cmd_start' = TRUE
  /\ pc' = "poll"

\* mmc_request_done and what is around it.  The local variables are gone.
Done(res) ==
  /\ pc' = "idle"
  /\ outcome' = res
  /\ active' = FALSE /\ host_data' = FALSE
  /\ mapped' = NoBuf
  /\ op' = "cmd" /\ cmd_stat' = {} /\ data_stat' = {}

\* dma_map_sg and sdc_setup_data_xfer, for a command with data.
Map(r) ==
  IF r.data = "none"
  THEN UNCHANGED <<mapped, dma_addr, bus_adr>>
  ELSE \E b \in Bufs :
         /\ mapped' = b /\ dma_addr' = b
         /\ bus_adr' = IF en_fifo = "none" /\ ~bursting THEN b ELSE bus_adr

\* Nothing of an earlier transfer is left in the controller.
AtRest == /\ dat_state = "IDLE" /\ en_fifo = "none" /\ ~bursting
          /\ data_start = "none" /\ ~data_prepare_tx /\ dat_int_status = {}

\* sdc_request up to its first command.  The mmc core issues a transfer when
\* the card has ended the last one; a burst left over from a transfer that
\* failed has long ended by then.
Request ==
  /\ pc = "idle" /\ ~active
  /\ \E r \in Requests :
       /\ r.data # "none" => card = "idle" /\ ~bursting
       /\ mrq' = r
       /\ IF r.sbc
          THEN Send("sbc", "none") /\ UNCHANGED <<mapped, dma_addr, bus_adr>>
          ELSE Send("cmd", r.data) /\ Map(r)
  /\ active' = TRUE /\ host_data' = FALSE
  /\ outcome' = "none" /\ landed' = FALSE /\ fresh' = FALSE
  /\ card_cur' = FALSE /\ armed' = (armed /\ ~AtRest)
  /\ UNCHANGED <<cmd_stat, data_stat, cmd_int_rst, data_int_rst,
                 dat_int_enable, hwVars, card>>

\* sdc_cmd_finish reads a status and asks for it to be cleared.
Poll ==
  /\ pc = "poll"
  /\ cmd_int_status # {}
  /\ cmd_stat' = cmd_int_status
  /\ cmd_int_rst' = TRUE
  /\ pc' = "clear"
  /\ UNCHANGED <<op, mrq, active, host_data, data_stat, mapped, outcome,
                 cmd_start, data_int_rst, cmd_data, dma_addr, dat_int_enable,
                 hwVars, bus_adr, cardVars>>

\* Mutant: the driver goes on with the next command at once.
Cleared_AtOnce == pc = "clear"

\* The driver waits for software_reset to read 0.
Cleared == pc = "clear" /\ ~software_reset

CmdOk == cmd_stat = {"CC"}

\* sbc is through: the command itself follows.
AfterSbc ==
  /\ Cleared /\ op = "sbc" /\ CmdOk
  /\ Send("cmd", mrq.data) /\ Map(mrq)
  /\ cmd_stat' = {}
  /\ UNCHANGED <<mrq, active, host_data, data_stat, outcome,
                 cmd_int_rst, data_int_rst, dat_int_enable, hwVars, cardVars>>

\* The command is through and its data is not: the interrupt takes over.
AfterCmd ==
  /\ Cleared /\ op = "cmd" /\ CmdOk /\ mrq.data # "none"
  /\ host_data' = TRUE
  /\ dat_int_enable' = TRUE
  /\ pc' = "idle" /\ cmd_stat' = {}
  /\ UNCHANGED <<op, mrq, active, data_stat, mapped, outcome,
                 pulses, cmd_data, dma_addr, hwVars, bus_adr, cardVars>>

\* Mutant: a request is done with its command, data or not.
AfterLast_WithData ==
  /\ Cleared
  /\ \/ op = "cmd"
     \/ op = "sbc" /\ ~CmdOk
  /\ Done(IF CmdOk THEN "ok" ELSE "error")
  /\ armed' = (armed \/ (op = "cmd" /\ mrq.data # "none" /\ ~CmdOk))
  /\ UNCHANGED <<mrq, pulses, cmd_data, dma_addr,
                 dat_int_enable, hwVars, bus_adr, card, card_cur, landed, fresh>>

\* A request without data, or whose sbc or command failed, is done.
AfterLast ==
  /\ Cleared
  /\ \/ op = "cmd" /\ (~CmdOk \/ mrq.data = "none")
     \/ op = "sbc" /\ ~CmdOk
  /\ Done(IF CmdOk THEN "ok" ELSE "error")
  /\ armed' = (armed \/ (op = "cmd" /\ mrq.data # "none" /\ ~CmdOk))
  /\ UNCHANGED <<mrq, pulses, cmd_data, dma_addr,
                 dat_int_enable, hwVars, bus_adr, card, card_cur, landed, fresh>>

\* Mutant: the interrupt is disabled, its status stays.
Isr_KeepsStatus(enabled) ==
  /\ pc = "idle"
  /\ enabled
  /\ data_int_status_reg # {}
  /\ data_stat' = data_int_status_reg
  /\ dat_int_enable' = FALSE
  /\ pc' = "isr"
  /\ UNCHANGED <<op, mrq, active, host_data, cmd_stat, mapped, outcome,
                 pulses, cmd_data, dma_addr, hwVars, bus_adr, cardVars>>

\* sdc_isr reads and clears the data status, be it for a data interrupt or
\* for the card detect switch.
Isr(enabled) ==
  /\ pc = "idle"
  /\ enabled
  /\ data_int_status_reg # {}
  /\ data_stat' = data_int_status_reg
  /\ dat_int_enable' = FALSE
  /\ data_int_rst' = TRUE
  /\ pc' = "isr"
  /\ UNCHANGED <<op, mrq, active, host_data, cmd_stat, mapped, outcome,
                 cmd_start, cmd_int_rst, cmd_data, dma_addr, hwVars, bus_adr,
                 cardVars>>

DataIrq == Isr(dat_int_enable /\ data_int_status_reg \cap {"CC", "EI"} # {})
CardDetectIrq == Isr(~dat_int_enable)

IsrCleared == pc = "isr" /\ ~software_reset

\* Mutant: any status with the complete bit counts as a success.
DataOk_AnyComplete == "CC" \in data_stat

DataOk == data_stat = {"CC"}

IsrStop ==
  /\ IsrCleared /\ host_data /\ mrq.stop
  /\ Send("stop", "none")
  /\ UNCHANGED <<mrq, active, host_data, cmd_stat, data_stat, mapped, outcome,
                 cmd_int_rst, data_int_rst, dma_addr, dat_int_enable, hwVars,
                 bus_adr, cardVars>>

IsrDone ==
  /\ \/ IsrCleared /\ host_data /\ ~mrq.stop
     \/ Cleared /\ op = "stop"
  /\ Done(IF DataOk THEN "ok" ELSE "error")
  /\ UNCHANGED <<mrq, pulses, cmd_data, dma_addr,
                 dat_int_enable, hwVars, bus_adr, cardVars>>

\* A status nobody waits for is dropped.
IsrStray ==
  /\ IsrCleared /\ ~host_data
  /\ pc' = "idle" /\ data_stat' = {}
  /\ UNCHANGED <<op, mrq, active, host_data, cmd_stat, mapped,
                 outcome, pulses, cmd_data, dma_addr, dat_int_enable, hwVars,
                 bus_adr, cardVars>>

Driver == \/ Poll \/ AfterSbc \/ AfterCmd \/ AfterLast
          \/ DataIrq \/ IsrStop \/ IsrDone \/ IsrStray

-----------------------------------------------------------------------------
Init ==
  /\ pc = "idle" /\ op = "cmd" /\ mrq = NoRequest /\ active = FALSE
  /\ host_data = FALSE /\ cmd_stat = {} /\ data_stat = {}
  /\ mapped = NoBuf /\ outcome = "none"
  /\ cmd_start = FALSE /\ cmd_int_rst = FALSE /\ data_int_rst = FALSE
  /\ cmd_data = "none" /\ dma_addr = NoBuf /\ dat_int_enable = FALSE
  /\ cmd_state = "IDLE" /\ cmd_int_status_reg = {} /\ start_xfr = FALSE
  /\ go_idle = FALSE
  /\ ser_state = "INIT" /\ counter = 0 /\ finish = FALSE
  /\ resp_ok = FALSE
  /\ data_prepare_tx = FALSE /\ data_start = "none"
  /\ dat_state = "IDLE" /\ en_fifo = "none" /\ dat_int_status = {}
  /\ bursting = FALSE /\ bus_adr = NoBuf
  /\ card = "idle" /\ card_cur = FALSE /\ landed = FALSE /\ fresh = FALSE
  /\ armed = FALSE

Next ==
  \/ Posedge
  \/ BurstEnds
  \/ CardEnds
  \/ Request
  \/ Poll
  \/ AfterSbc
  \/ AfterCmd
  \/ AfterLast
  \/ DataIrq
  \/ CardDetectIrq
  \/ IsrStop
  \/ IsrDone
  \/ IsrStray

Spec == Init /\ [][Next]_vars

\* The SD clock runs, the driver goes on, the bus serves its bursts.  An
\* edge counts only what the hardware owes: a silent card is no obstacle to
\* a watchdog, and a busy card lets go of the data line.
OwedEdge ==
  /\ Posedge
  /\ ser_state = "WRITE" => (SerialAnswer \/ SerialMute)
  /\ cmd_state = "EXECUTE" /\ Stuck /\ cmd_timeout # 0 => CmdTimeout
  /\ cmd_state = "BUSY_CHECK" => cmd_state' = "IDLE"
  /\ dat_state = "START_TX_FIFO" => dat_state' = "DATA_TRANSFER"
  /\ dat_state = "DATA_TRANSFER" /\ data_timeout # 0 => DatTimeout

Fairness == WF_vars(OwedEdge) /\ WF_vars(Driver) /\ WF_vars(BurstEnds)

FairSpec == Spec /\ Fairness

-----------------------------------------------------------------------------
(* What the driver and the controller must guarantee together.             *)

\* While data flows into memory for a read, the buffer it goes to is the one
\* that is mapped for the request in progress: no transfer into memory that
\* sdc_request or sdc_isr has given back.  Not so after a command with data
\* that failed, nor for the one burst on the bus at a FIFO fault.
BufferOwned ==
  Flowing /\ en_fifo = "rx" /\ ~armed => bus_adr = mapped

\* A request with data that is reported good has its data where it belongs.
RequestIntegrity ==
  outcome = "ok" /\ mrq.data # "none" => landed

\* It has, if the controller was at rest after any command with data that
\* had failed before.
RequestSound == ~armed => RequestIntegrity

\* A status that sdc_isr takes for the end of a request was raised by the
\* transfer of this request, not by one that came before, with the same
\* proviso.
DataStatusFresh == pc = "isr" /\ host_data /\ ~armed => fresh

\* While the write of argument waits for an edge of the SD clock, the status
\* of the previous command cannot be read for the new one.
CmdStatusFresh == pc = "poll" /\ cmd_start => cmd_int_status = {}

\* A command starts only when the one before it is off the wires, also after
\* a timeout and however soon the driver comes with it.
OneCommand ==
  cmd_start => cmd_state = "IDLE" /\ ser_state \notin {"WRITE", "READ_WAIT"}

\* Every request is reported.
RequestEnds == active ~> ~active
=============================================================================
