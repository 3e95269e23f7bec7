----------------------------- MODULE SdDataPath -----------------------------
(***************************************************************************)
(* The data path of the SD card controller: sd_data_master, the serial     *)
(* host that shifts blocks to and from the card, the FIFO and the AXI      *)
(* master of axi_sdc_controller.v, for one transfer of Blocks blocks of    *)
(* BlockWords words at a time.                                             *)
(*                                                                         *)
(* Two clocks drive it.  Posedge is one rising edge of the SD clock        *)
(* (clock_posedge): sd_data_master, the serial host and their FIFO port    *)
(* step together on it, each reading the registers of the others as they   *)
(* were.  The AXI side runs on the system clock and takes any number of    *)
(* steps between two edges, one action per handshake.  An edge is also a   *)
(* system clock.  Where a beat and the SD side meet in the FIFO on that    *)
(* one clock, they are one step (PosedgeWBeat, PosedgeRBeat); any other    *)
(* AXI step on the clock of an edge reads nothing that the edge changes,   *)
(* or the other way about, and comes just after it or just before.         *)
(*                                                                         *)
(* A word of the transfer is its number 1, 2, ..; word n belongs at word   *)
(* offset n - 1 of the DMA buffer.  Stale stands for a word of some        *)
(* earlier use of the FIFO memory.                                         *)
(***************************************************************************)
EXTENDS Naturals, Sequences, FiniteSets

CONSTANTS
  FifoSize,    \* 1 << fifo_addr_bits, the slots of fifo_mem
  BlockWords,  \* words of a block
  Blocks,      \* block_count_reg + 1
  BurstMax,    \* the most beats of one AXI burst
  MaxResp,     \* the value of m_axi_bresp_cnt that stops new write bursts
  Watchdog     \* TRUE: data_timeout_reg # 0

ASSUME DataPathAssumption ==
  /\ FifoSize \in Nat /\ FifoSize >= 4
  /\ BlockWords \in Nat \ {0}
  /\ Blocks \in Nat \ {0}
  /\ BurstMax \in Nat \ {0}
  /\ MaxResp \in Nat \ {0}
  /\ Watchdog \in BOOLEAN

VARIABLES
  start,            \* data_start_tx, data_start_rx: "none", "tx" or "rx"
  state,            \* sd_data_master.state
  en_tx_fifo, en_rx_fifo, d_write, d_read,
  int_status,       \* the bits of sd_data_master.int_status that are set
  data_int_rst,
  sh_state,         \* sd_data_serial_host.state
  transf_cnt,       \* words of the current block that went over the wires
  blkcnt_reg, we, rd, crc_ok,
  data_out,         \* the word the serial host assembled last
  fifo,             \* the words between fifo_out_pos and fifo_inp_pos
  fifo_dout,
  m_axi_cyc, m_axi_wvalid, m_axi_awvalid,
  beats,            \* beats of the current burst still to come
  m_axi_bresp_cnt, m_bus_error,
  m_bus_adr,        \* word offset from dma_addr_reg
  dir,              \* what the current or last transfer does: "tx" or "rx"
  mem,              \* "rx": the DMA buffer; offset -> word written there
  card              \* "tx": the words the card received, in order

masterVars == <<state, en_tx_fifo, en_rx_fifo, d_write, d_read, int_status>>
hostVars == <<sh_state, transf_cnt, blkcnt_reg, we, rd, crc_ok, data_out>>
fifoVars == <<fifo, fifo_dout>>
axiVars == <<m_axi_cyc, m_axi_wvalid, m_axi_awvalid, beats, m_axi_bresp_cnt,
             m_bus_error>>
ghostVars == <<dir, mem, card>>
vars == <<start, data_int_rst, masterVars, hostVars, fifoVars, axiVars,
          m_bus_adr, ghostVars>>

Words == Blocks * BlockWords
Offsets == 0 .. Words - 1
Stale == 0
Bits == {"CC", "EI", "CTE", "CCRCE", "CFE", "CBE"}

Lesser(a, b) == IF a <= b THEN a ELSE b

-----------------------------------------------------------------------------
(* The signals between the parts.                                          *)

data_busy == sh_state # "IDLE"
xfr_complete == ~data_busy
bus_cycle == m_axi_cyc \/ m_axi_bresp_cnt # 0
fifo_empty == fifo = <<>>
fifo_full == Len(fifo) = FifoSize - 1
fifo_free_len == FifoSize - 1 - Len(fifo)
fifo_ready == Len(fifo) >= FifoSize \div 2
enabled == en_rx_fifo \/ en_tx_fifo

\* Mutant: CC is shown at once, whatever the bus does.
data_int_status_unmasked == int_status

\* What a read of data_isr returns: CC waits for the bus, errors do not.
data_int_status_reg ==
  {b \in int_status : b = "CC" => ~enabled /\ ~bus_cycle}

\* An AXI burst starts when a third of the FIFO is free or filled, or to
\* drain what the card sent last.
tx_stb == en_tx_fifo /\ fifo_free_len >= FifoSize \div 3
\* Mutant: write bursts go on however many responses are outstanding.
rx_stb_uncounted ==
  /\ en_rx_fifo
  /\ Len(fifo) >= FifoSize \div 3 \/ (~fifo_empty /\ ~data_busy)

rx_stb == /\ en_rx_fifo
          /\ m_axi_bresp_cnt # MaxResp
          /\ Len(fifo) >= FifoSize \div 3 \/ (~fifo_empty /\ ~data_busy)

-----------------------------------------------------------------------------
(* sd_data_master, on a rising edge of the SD clock.                       *)

\* The bits set on this edge; a pending data_int_rst wins over all of them.
Report(bits) ==
  int_status' = IF data_int_rst THEN {} ELSE int_status \cup bits

MasterIdle ==
  /\ state = "IDLE"
  /\ en_tx_fifo' = FALSE /\ en_rx_fifo' = FALSE
  /\ d_write' = FALSE /\ d_read' = FALSE
  /\ state' = CASE start = "tx" -> "START_TX_FIFO"
                [] start = "rx" -> "START_RX_FIFO"
                [] OTHER -> "IDLE"
  /\ Report({})

MasterStartRx ==
  /\ state = "START_RX_FIFO"
  /\ en_rx_fifo' = TRUE /\ en_tx_fifo' = FALSE
  /\ d_read' = TRUE
  /\ state' = IF xfr_complete THEN state ELSE "DATA_TRANSFER"
  /\ UNCHANGED d_write
  /\ Report({})

MasterStartTx ==
  /\ state = "START_TX_FIFO"
  /\ en_rx_fifo' = FALSE /\ en_tx_fifo' = TRUE
  /\ IF fifo_ready
     THEN /\ d_write' = TRUE
          /\ state' = IF xfr_complete THEN state ELSE "DATA_TRANSFER"
     ELSE UNCHANGED <<d_write, state>>
  /\ UNCHANGED d_read
  /\ Report({})

\* Mutant: an empty transmit FIFO is no fault.
FifoFault_NoUnderrun == en_rx_fifo /\ fifo_full

FifoFault == (en_tx_fifo /\ fifo_empty) \/ (en_rx_fifo /\ fifo_full)

\* d_write and d_read together stop the serial host.
Abort(bits) ==
  /\ state' = "IDLE"
  /\ d_write' = TRUE /\ d_read' = TRUE
  /\ UNCHANGED <<en_tx_fifo, en_rx_fifo>>
  /\ Report(bits)

MasterFifoFault ==
  /\ state = "DATA_TRANSFER"
  /\ FifoFault
  /\ Abort({"CFE", "EI"})

\* Mutant: nothing ever expires.
MasterTimeout_Never == FALSE /\ Abort({"CTE", "EI"})

\* The watchdog may expire on any edge that finds the FIFO in order.
MasterTimeout ==
  /\ state = "DATA_TRANSFER"
  /\ ~FifoFault
  /\ Watchdog
  /\ Abort({"CTE", "EI"})

\* Mutant: a read is done as soon as the card is and the bus is idle.
TransferDone_Undrained == xfr_complete /\ ~bus_cycle

TransferDone == xfr_complete /\ ~bus_cycle /\ (en_tx_fifo \/ fifo_empty)

MasterComplete ==
  /\ state = "DATA_TRANSFER"
  /\ ~FifoFault
  /\ TransferDone
  /\ state' = "IDLE"
  /\ d_write' = FALSE /\ d_read' = FALSE
  /\ UNCHANGED <<en_tx_fifo, en_rx_fifo>>
  /\ Report({"CC"}
            \cup (IF crc_ok THEN {} ELSE {"CCRCE", "EI"})
            \cup (IF m_bus_error THEN {"CBE", "EI"} ELSE {}))

MasterWait ==
  /\ state = "DATA_TRANSFER"
  /\ ~FifoFault
  /\ ~TransferDone
  /\ d_write' = FALSE /\ d_read' = FALSE
  /\ UNCHANGED <<state, en_tx_fifo, en_rx_fifo>>
  /\ Report({})

DataMaster ==
  \/ MasterIdle
  \/ MasterStartRx
  \/ MasterStartTx
  \/ MasterFifoFault
  \/ MasterTimeout
  \/ MasterComplete
  \/ MasterWait

-----------------------------------------------------------------------------
(* sd_data_serial_host, on the same edge.  A word takes 8 or 32 edges; of  *)
(* these only the one that completes it and the edge after it, on which    *)
(* the FIFO moves, are told apart.  The card decides how long it takes and *)
(* whether a CRC or a response token is good.                              *)

\* The state the host leaves for: an abort wins over it.
Go(s) == sh_state' = IF d_write /\ d_read THEN "IDLE" ELSE s

HostIdle ==
  /\ sh_state = "IDLE"
  /\ transf_cnt' = 0 /\ we' = FALSE /\ rd' = FALSE
  /\ blkcnt_reg' = Blocks - 1
  /\ Go(CASE d_write /\ ~d_read -> "WRITE_DAT"
          [] d_read /\ ~d_write -> "READ_WAIT"
          [] OTHER -> "IDLE")
  /\ UNCHANGED <<crc_ok, data_out, card>>

\* Between two words, and while the card or the wires keep it waiting.
HostWait ==
  /\ data_busy
  /\ we' = FALSE /\ rd' = FALSE
  /\ Go(sh_state)
  /\ UNCHANGED <<transf_cnt, blkcnt_reg, crc_ok, data_out, card>>

HostWriteWord ==
  /\ sh_state = "WRITE_DAT"
  /\ ~rd
  /\ transf_cnt < BlockWords
  /\ card' = Append(card, fifo_dout)
  /\ transf_cnt' = transf_cnt + 1
  /\ rd' = TRUE
  /\ crc_ok' = FALSE
  /\ Go("WRITE_DAT")
  /\ UNCHANGED <<blkcnt_reg, we, data_out>>

HostWriteCrc ==
  /\ sh_state = "WRITE_DAT"
  /\ ~rd
  /\ transf_cnt = BlockWords
  /\ Go("WRITE_WAIT")
  /\ UNCHANGED <<transf_cnt, blkcnt_reg, we, rd, crc_ok, data_out, card>>

HostWriteToken ==
  /\ sh_state = "WRITE_WAIT"
  /\ Go("WRITE_DRT")
  /\ UNCHANGED <<transf_cnt, blkcnt_reg, we, rd, crc_ok, data_out, card>>

HostWriteVerdict ==
  /\ sh_state = "WRITE_DRT"
  /\ crc_ok' \in BOOLEAN
  /\ Go("WRITE_BUSY")
  /\ UNCHANGED <<transf_cnt, blkcnt_reg, we, rd, data_out, card>>

HostWriteNext ==
  /\ sh_state = "WRITE_BUSY"
  /\ IF blkcnt_reg # 0 /\ crc_ok
     THEN /\ transf_cnt' = 0
          /\ blkcnt_reg' = blkcnt_reg - 1
          /\ Go("WRITE_DAT")
     ELSE /\ Go("IDLE")
          /\ UNCHANGED <<transf_cnt, blkcnt_reg>>
  /\ UNCHANGED <<we, rd, crc_ok, data_out, card>>

HostReadStart ==
  /\ sh_state = "READ_WAIT"
  /\ transf_cnt' = 0
  /\ Go("READ_DAT")
  /\ UNCHANGED <<blkcnt_reg, we, rd, crc_ok, data_out, card>>

HostReadWord ==
  /\ sh_state = "READ_DAT"
  /\ ~we
  /\ transf_cnt < BlockWords
  /\ data_out' = (Blocks - 1 - blkcnt_reg) * BlockWords + transf_cnt + 1
  /\ we' = TRUE
  /\ transf_cnt' = transf_cnt + 1
  /\ crc_ok' = TRUE
  /\ Go("READ_DAT")
  /\ UNCHANGED <<blkcnt_reg, rd, card>>

HostReadCrc ==
  /\ sh_state = "READ_DAT"
  /\ ~we
  /\ transf_cnt = BlockWords
  /\ crc_ok' \in BOOLEAN
  /\ IF blkcnt_reg # 0 /\ crc_ok'
     THEN Go("READ_WAIT") /\ blkcnt_reg' = blkcnt_reg - 1
     ELSE Go("IDLE") /\ UNCHANGED blkcnt_reg
  /\ UNCHANGED <<transf_cnt, we, rd, data_out, card>>

SerialHost ==
  \/ HostIdle
  \/ HostWait
  \/ HostWriteWord
  \/ HostWriteCrc
  \/ HostWriteToken
  \/ HostWriteVerdict
  \/ HostWriteNext
  \/ HostReadStart
  \/ HostReadWord
  \/ HostReadCrc

-----------------------------------------------------------------------------
(* The FIFO.  fifo_dout is a register that follows the oldest word.        *)

\* A push when full is dropped.
Push(word) ==
  IF fifo_full
  THEN UNCHANGED fifoVars
  ELSE /\ fifo' = Append(fifo, word)
       /\ fifo_dout' = IF fifo_empty THEN word ELSE fifo_dout

Pop ==
  IF fifo_empty
  THEN UNCHANGED fifoVars
  ELSE /\ fifo' = Tail(fifo)
       /\ fifo_dout' = IF Len(fifo) > 1 THEN fifo[2] ELSE Stale

\* Mutant: a word that comes as the only one leaves is not forwarded.
PushPop_Unforwarded(word) ==
  CASE fifo_empty -> Push(word)
    [] fifo_full -> Pop
    [] OTHER -> /\ fifo' = Append(Tail(fifo), word)
                /\ fifo_dout' = IF Len(fifo) > 1 THEN fifo[2] ELSE Stale

\* Both on one system clock, by what the FIFO held before it.  A word that
\* comes as the only one leaves goes straight to the output register.
PushPop(word) ==
  CASE fifo_empty -> Push(word)
    [] fifo_full -> Pop
    [] OTHER -> /\ fifo' = Append(Tail(fifo), word)
                /\ fifo_dout' = IF Len(fifo) > 1 THEN fifo[2] ELSE word

\* Without a direction the FIFO is held in reset.  The output register, which
\* the beats of an aborted read still carry, may have taken a last word.
FifoReset ==
  /\ ~(en_rx_fifo' \/ en_tx_fifo')
  /\ fifo' = <<>>
  /\ fifo_dout' \in {fifo_dout, data_out, Stale}
                     \cup {fifo[i] : i \in 1 .. Len(fifo)}

FifoRuns == en_rx_fifo' \/ en_tx_fifo'

\* The serial host's port.
FifoPosedge ==
  \/ FifoReset
  \/ FifoRuns /\ CASE en_rx_fifo /\ we -> Push(data_out)
                    [] ~en_rx_fifo /\ rd -> Pop
                    [] OTHER -> UNCHANGED fifoVars

\* Mutant: the address runs on from one transfer to the next.
Reload_Never(busy, adr) == m_bus_adr' = adr

\* The address is reloaded while no direction is on and the bus is idle.
Reload(busy, adr) ==
  m_bus_adr' = IF busy \/ en_rx_fifo' \/ en_tx_fifo' THEN adr ELSE 0

\* The SD side on its edge.
SdEdge ==
  /\ DataMaster
  /\ SerialHost
  /\ start' = "none"
  /\ data_int_rst' = FALSE
  /\ UNCHANGED dir

Posedge ==
  /\ SdEdge
  /\ FifoPosedge
  /\ Reload(m_axi_cyc, m_bus_adr)
  /\ UNCHANGED <<axiVars, mem>>

-----------------------------------------------------------------------------
(* The AXI master, on the system clock.  A burst may be shorter than the   *)
(* FIFO allows: it ends at a 4KB boundary (SdBurst).                       *)

RxBurst ==
  /\ ~m_axi_cyc
  /\ rx_stb
  /\ \E n \in 1 .. Lesser(Len(fifo), BurstMax) : beats' = n
  /\ m_axi_cyc' = TRUE /\ m_axi_wvalid' = TRUE /\ m_axi_awvalid' = TRUE
  /\ UNCHANGED <<start, data_int_rst, masterVars, hostVars, fifoVars,
                 m_axi_bresp_cnt, m_bus_error, m_bus_adr, ghostVars>>

TxBurst ==
  /\ ~m_axi_cyc
  /\ tx_stb
  /\ \E n \in 1 .. Lesser(fifo_free_len, BurstMax) : beats' = n
  /\ m_axi_cyc' = TRUE
  /\ UNCHANGED <<start, data_int_rst, masterVars, hostVars, fifoVars,
                 m_axi_wvalid, m_axi_awvalid, m_axi_bresp_cnt, m_bus_error,
                 m_bus_adr, ghostVars>>

AwAccept ==
  /\ m_axi_awvalid
  /\ m_axi_awvalid' = FALSE
  /\ m_axi_bresp_cnt' = m_axi_bresp_cnt + 1
  /\ UNCHANGED <<start, data_int_rst, masterVars, hostVars, fifoVars,
                 m_axi_cyc, m_axi_wvalid, beats, m_bus_error, m_bus_adr,
                 ghostVars>>

LastBeat == beats = 1

\* A beat of a write burst.  The slave takes the address no later than the
\* last beat.  The beat carries fifo_dout whatever en_rx_fifo has become.
WriteBeat ==
  /\ m_axi_wvalid
  /\ LastBeat => ~m_axi_awvalid
  /\ mem' = [mem EXCEPT ![m_bus_adr] = fifo_dout]
  /\ beats' = beats - 1
  /\ m_axi_wvalid' = ~LastBeat /\ m_axi_cyc' = ~LastBeat
  /\ Reload(~LastBeat, m_bus_adr + 1)
  /\ UNCHANGED <<m_axi_awvalid, m_axi_bresp_cnt, m_bus_error>>

WBeat ==
  /\ UNCHANGED <<start, data_int_rst, masterVars, hostVars, dir, card>>
  /\ WriteBeat
  /\ IF en_rx_fifo THEN Pop ELSE UNCHANGED fifoVars

\* The serial host pushes on the clock of the beat.
PosedgeWBeat ==
  /\ en_rx_fifo /\ we
  /\ SdEdge
  /\ WriteBeat
  /\ FifoReset \/ (FifoRuns /\ PushPop(data_out))

\* The response to a burst whose last beat was taken.
BResp ==
  /\ m_axi_bresp_cnt > (IF m_axi_wvalid /\ ~m_axi_awvalid THEN 1 ELSE 0)
  /\ m_axi_bresp_cnt' = m_axi_bresp_cnt - 1
  /\ \E err \in BOOLEAN : m_bus_error' = (m_bus_error \/ err)
  /\ UNCHANGED <<start, data_int_rst, masterVars, hostVars, fifoVars,
                 m_axi_cyc, m_axi_wvalid, m_axi_awvalid, beats, m_bus_adr,
                 ghostVars>>

\* A beat of a read burst.  m_axi_rready needs en_rx_fifo low.
ReadBeat ==
  /\ m_axi_cyc /\ ~m_axi_wvalid
  /\ ~en_rx_fifo
  /\ beats' = beats - 1
  /\ m_axi_cyc' = ~LastBeat
  /\ Reload(~LastBeat, m_bus_adr + 1)
  /\ \E err \in BOOLEAN : m_bus_error' = (m_bus_error \/ err)
  /\ UNCHANGED <<m_axi_wvalid, m_axi_awvalid, m_axi_bresp_cnt, mem>>

RBeat ==
  /\ UNCHANGED <<start, data_int_rst, masterVars, hostVars, dir, card>>
  /\ ReadBeat
  /\ IF en_tx_fifo THEN Push(m_bus_adr + 1) ELSE UNCHANGED fifoVars

\* The serial host pops on the clock of the beat.
PosedgeRBeat ==
  /\ en_tx_fifo /\ rd
  /\ SdEdge
  /\ ReadBeat
  /\ FifoReset \/ (FifoRuns /\ PushPop(m_bus_adr + 1))

-----------------------------------------------------------------------------
(* What drives the data path: a command with data, and a write to data_isr *)
(* by a driver that has read a status.  The next command with data comes   *)
(* when the last status is cleared and, after an abort, the bus is quiet.  *)

CmdStart ==
  /\ start = "none" /\ state = "IDLE" /\ ~enabled
  /\ int_status = {} /\ ~data_int_rst
  /\ ~bus_cycle
  /\ \E d \in {"tx", "rx"} : start' = d /\ dir' = d
  /\ m_bus_error' = FALSE
  /\ mem' = [a \in Offsets |-> Stale]
  /\ card' = <<>>
  /\ UNCHANGED <<data_int_rst, masterVars, hostVars, fifoVars, m_axi_cyc,
                 m_axi_wvalid, m_axi_awvalid, beats, m_axi_bresp_cnt,
                 m_bus_adr>>

ClearStatus ==
  /\ data_int_status_reg # {}
  /\ ~data_int_rst
  /\ data_int_rst' = TRUE
  /\ UNCHANGED <<start, masterVars, hostVars, fifoVars, axiVars, m_bus_adr,
                 ghostVars>>

-----------------------------------------------------------------------------
Init ==
  /\ start = "none" /\ data_int_rst = FALSE
  /\ state = "IDLE" /\ int_status = {}
  /\ en_tx_fifo = FALSE /\ en_rx_fifo = FALSE
  /\ d_write = FALSE /\ d_read = FALSE
  /\ sh_state = "IDLE" /\ transf_cnt = 0 /\ blkcnt_reg = 0
  /\ we = FALSE /\ rd = FALSE /\ crc_ok = FALSE /\ data_out = Stale
  /\ fifo = <<>> /\ fifo_dout = Stale
  /\ m_axi_cyc = FALSE /\ m_axi_wvalid = FALSE /\ m_axi_awvalid = FALSE
  /\ beats = 0 /\ m_axi_bresp_cnt = 0 /\ m_bus_error = FALSE
  /\ m_bus_adr = 0
  /\ dir = "rx" /\ mem = [a \in Offsets |-> Stale] /\ card = <<>>

Next ==
  \/ Posedge
  \/ RxBurst
  \/ TxBurst
  \/ AwAccept
  \/ WBeat
  \/ BResp
  \/ RBeat
  \/ PosedgeWBeat
  \/ PosedgeRBeat
  \/ CmdStart
  \/ ClearStatus

Spec == Init /\ [][Next]_vars

\* The SD clock never stops, its watchdog counts edges, and the AXI slave
\* answers every request.  The card owes nothing: where it is the card that
\* lets the serial host go on, only edges on which it says nothing are sure.
SilentEdge ==
  /\ Posedge \/ PosedgeWBeat \/ PosedgeRBeat
  /\ sh_state \in {"READ_WAIT", "WRITE_WAIT", "WRITE_BUSY"} => HostWait

Fairness ==
  /\ WF_vars(SilentEdge)
  /\ WF_vars(\/ RxBurst \/ TxBurst \/ AwAccept \/ WBeat \/ BResp \/ RBeat
             \/ PosedgeWBeat \/ PosedgeRBeat)

FairSpec == Spec /\ Fairness

-----------------------------------------------------------------------------
(* What the data path must guarantee.                                      *)

\* Every register holds a value of its kind (types of SdDataPath).
TypeOK ==
  /\ start \in {"none", "tx", "rx"} /\ data_int_rst \in BOOLEAN
  /\ state \in {"IDLE", "START_TX_FIFO", "START_RX_FIFO", "DATA_TRANSFER"}
  /\ en_tx_fifo \in BOOLEAN /\ en_rx_fifo \in BOOLEAN
  /\ d_write \in BOOLEAN /\ d_read \in BOOLEAN
  /\ int_status \subseteq Bits
  /\ sh_state \in {"IDLE", "WRITE_DAT", "WRITE_WAIT", "WRITE_DRT",
                   "WRITE_BUSY", "READ_WAIT", "READ_DAT"}
  /\ transf_cnt \in 0 .. BlockWords
  /\ blkcnt_reg \in 0 .. Blocks - 1
  /\ we \in BOOLEAN /\ rd \in BOOLEAN /\ crc_ok \in BOOLEAN
  /\ data_out \in Nat
  /\ fifo \in Seq(Nat) /\ Len(fifo) < FifoSize /\ fifo_dout \in Nat
  /\ m_axi_cyc \in BOOLEAN /\ m_axi_wvalid \in BOOLEAN
  /\ m_axi_awvalid \in BOOLEAN
  /\ beats \in 0 .. BurstMax /\ m_axi_bresp_cnt \in 0 .. MaxResp
  /\ m_bus_error \in BOOLEAN /\ m_bus_adr \in Nat
  /\ dir \in {"tx", "rx"}
  /\ mem \in [Offsets -> Nat] /\ card \in Seq(Nat)

Completed == "CC" \in data_int_status_reg /\ "EI" \notin data_int_status_reg

\* A read that reports completion and no error has put every word the card
\* sent at its place in the DMA buffer: no word was dropped by a full FIFO,
\* left in the FIFO, written twice or lost with a failed AXI response.
ReadIntegrity == Completed /\ dir = "rx" => \A a \in Offsets : mem[a] = a + 1

\* A write that reports completion and no error has sent the card the words
\* of the DMA buffer in order, all of them and none that the FIFO ran out of.
WriteIntegrity ==
  Completed /\ dir = "tx" => card = [i \in 1 .. Words |-> i]

\* The beats of a write burst, those that follow an abort included, stay
\* inside the DMA buffer.
DmaInBuffer == m_axi_wvalid => m_bus_adr + beats <= Words

\* The registered FIFO output is the oldest word whenever there is one: what
\* the AXI burst and the serial host take is what was pushed first.
HeadIsOut == fifo # <<>> => fifo_dout = fifo[1]

\* Every transfer that is started ends with a status the driver can read.
TransferEnds == start # "none" ~> data_int_status_reg # {}

-----------------------------------------------------------------------------
(* Refinement.  A word has reached its place when it is in the buffer      *)
(* (read) or on the wires to the card (write).                             *)

Placed == IF dir = "rx"
          THEN Cardinality({a \in Offsets : mem[a] = a + 1})
          ELSE Cardinality({i \in 1 .. Len(card) : card[i] = i})

\* A transfer runs until its status shows, not merely until it is set.
Running == \/ start # "none" \/ state # "IDLE"
           \/ int_status = {"CC"} /\ data_int_status_reg = {}

Transfer == INSTANCE SdTransfer WITH
  running <- Running,
  moved <- Placed,
  dma <- bus_cycle,
  status <- data_int_status_reg

\* The data path keeps the promise of SdTransfer.
Refines == Transfer!TSpec
=============================================================================
