----------------------------- MODULE UartLink ------------------------------
(***************************************************************************)
(* One direction of a serial link between two instances of uart.v: the     *)
(* transmitter of one, with the register writes of the software there, and *)
(* the receiver of the other, whose RTSn is the CTSn of the transmitter.   *)
(* The other direction is the same and shares no register with this one.   *)
(*                                                                         *)
(* A step is one clock of both ends; they differ by any phase.  Bits are   *)
(* sent and sampled one by one, so that whether RTSn stops the transmitter *)
(* before the next byte is decided by the phases and not assumed.  The     *)
(* software reads and writes at any clock, and checks the status as all    *)
(* the drivers do: it neither reads an empty FIFO nor writes a full one.   *)
(***************************************************************************)
EXTENDS Naturals, Sequences

CONSTANTS
  Slots,     \* 1 << fifo_ptr_bits
  Bits,      \* data bits of a byte
  PhaseMax,  \* PHASE_MAX: clocks of a bit, less one
  Data,      \* the bytes that are written, in this order, over and over
  Urgent     \* the flow control characters, sent by way of xon_xoff_inp

\* A register of eight bits is a function from the places of its bits.
Byte == [0 .. Bits - 1 -> {0, 1}]
NUL == [i \in 0 .. Bits - 1 |-> 0]

ASSUME LinkAssumption ==
  /\ Slots \in Nat /\ Slots >= 2
  /\ Bits \in Nat \ {0}
  /\ PhaseMax \in Nat /\ PhaseMax >= 4
  /\ Data \in Seq(Byte \ Urgent) /\ Data # <<>>
  /\ Urgent \subseteq Byte \ {NUL}

VARIABLES
  \* the transmitter
  tx_buf,    \* the bytes from tx_out_pos to tx_inp_pos
  tx_stop, xon_xoff_inp, xon_xoff_out,
  tx_state, tx_phase, tx_rg, CTS0, TxD,
  \* the receiver
  rx_buf,    \* the bytes from rx_out_pos to rx_inp_pos
  rx_state, rx_phase, rx_rg, RTSn,
  \* history
  next,      \* the place in Data of the byte the software writes next
  got,       \* changes with each byte the software reads
  coming,    \* tx_rg is on the wire and not yet in rx_buf
  heard      \* the last flow control character that arrived

txVars == <<tx_buf, tx_stop, xon_xoff_inp, xon_xoff_out, tx_state, tx_phase,
            tx_rg, CTS0, TxD>>
rxVars == <<rx_buf, rx_state, rx_phase, rx_rg, RTSn>>
vars == <<txVars, rxVars, next, got, coming, heard>>

\* States: IDLE, START, then one for each bit that was sent or sampled.
IDLE == 0
START == 1
LAST == Bits + 1

PHASE_RXC == PhaseMax \div 2

rx_full == Len(rx_buf) = Slots - 1

tx_full == Len(tx_buf) = Slots - 1

-----------------------------------------------------------------------------
(* The transmitter.                                                        *)

TxTick == tx_phase = PhaseMax

\* Mutant: CTSn is not looked at twice.
Clear_Once == CTS0 = 0

\* Two samples of CTSn, a bit apart, allow a byte to start.
Clear == RTSn = 0 /\ CTS0 = 0

TxBetween ==
  /\ ~TxTick
  /\ tx_phase' = tx_phase + 1
  /\ UNCHANGED <<xon_xoff_out, tx_state, tx_rg, CTS0, TxD>>

\* What a tick does besides its state.
Sampled == tx_phase' = 0 /\ CTS0' = RTSn

\* Mutant: only the first character ever asked for is sent.
Changed_First == xon_xoff_out = NUL /\ xon_xoff_inp # NUL

\* A flow control character waits to be sent.
Changed == xon_xoff_inp # xon_xoff_out

TxIdle ==
  /\ TxTick /\ tx_state = IDLE
  /\ ~Clear \/ (~Changed /\ (tx_buf = <<>> \/ tx_stop))
  /\ Sampled
  /\ UNCHANGED <<xon_xoff_out, tx_state, tx_rg, TxD>>

StartBit == TxD' = 0 /\ tx_state' = START

\* A flow control character goes ahead of the FIFO and also when it is
\* stopped; a NUL only withdraws what was not sent yet.
TxUrgent ==
  /\ TxTick /\ tx_state = IDLE
  /\ Clear /\ Changed
  /\ Sampled
  /\ xon_xoff_out' = xon_xoff_inp
  /\ IF xon_xoff_inp # NUL
     THEN StartBit /\ tx_rg' = xon_xoff_inp
     ELSE UNCHANGED <<TxD, tx_state, tx_rg>>

\* This clock takes a byte from the FIFO.
TxPops == /\ TxTick /\ tx_state = IDLE
          /\ Clear /\ ~Changed /\ tx_buf # <<>> /\ ~tx_stop

TxByte ==
  /\ TxPops
  /\ Sampled
  /\ StartBit
  /\ tx_rg' = Head(tx_buf)
  /\ UNCHANGED xon_xoff_out

TxBit ==
  /\ TxTick /\ tx_state \in START .. Bits
  /\ Sampled
  /\ TxD' = tx_rg[tx_state - START]
  /\ tx_state' = tx_state + 1
  /\ UNCHANGED <<xon_xoff_out, tx_rg>>

TxStopBit ==
  /\ TxTick /\ tx_state = LAST
  /\ Sampled
  /\ TxD' = 1
  /\ tx_state' = IDLE
  /\ UNCHANGED <<xon_xoff_out, tx_rg>>

Transmit == TxBetween \/ TxIdle \/ TxUrgent \/ TxByte \/ TxBit \/ TxStopBit

Launch == tx_state = IDLE /\ tx_state' = START

-----------------------------------------------------------------------------
(* The receiver.  Its RxD is TxD.                                          *)

RxTick == rx_phase = PhaseMax

\* The falling edge of a start bit finds the phase at PHASE_RXC: every tick
\* is then in the middle of a bit.
RxBetween ==
  /\ ~RxTick
  /\ rx_phase' = IF rx_state = IDLE /\ TxD = 1 THEN PHASE_RXC ELSE rx_phase + 1
  /\ UNCHANGED <<rx_state, rx_rg>>

RxIdle ==
  /\ RxTick /\ rx_state = IDLE
  /\ rx_phase' = 0
  /\ rx_state' = IF TxD = 0 THEN START ELSE IDLE
  /\ UNCHANGED rx_rg

RxBit ==
  /\ RxTick /\ rx_state \in START .. Bits
  /\ rx_phase' = 0
  /\ rx_rg' = [rx_rg EXCEPT ![rx_state - START] = TxD]
  /\ rx_state' = rx_state + 1

\* In the middle of the stop bit.
RxPushes == RxTick /\ rx_state = LAST

RxPush ==
  /\ RxPushes
  /\ rx_phase' = 0
  /\ rx_state' = IDLE
  /\ UNCHANGED rx_rg

Receive ==
  /\ RxBetween \/ RxIdle \/ RxBit \/ RxPush
  /\ RTSn' = IF rx_full THEN 1 ELSE 0

-----------------------------------------------------------------------------
(* The software: at most one register access at each end in a clock.       *)

\* The software sets tx_buf to what the transmitter leaves of it, and more.
Rest == IF TxPops THEN Tail(tx_buf) ELSE tx_buf

WriteNothing == tx_buf' = Rest /\ UNCHANGED <<tx_stop, xon_xoff_inp, next>>

WriteByte ==
  /\ ~tx_full
  /\ tx_buf' = Append(Rest, Data[next])
  /\ next' = (next % Len(Data)) + 1
  /\ UNCHANGED <<tx_stop, xon_xoff_inp>>

WriteUrgent ==
  /\ xon_xoff_inp' \in Urgent
  /\ tx_buf' = Rest
  /\ UNCHANGED <<tx_stop, next>>

\* The bit CR_TX_STOP of the control register.
WriteControl ==
  /\ tx_stop' \in BOOLEAN
  /\ tx_buf' = Rest
  /\ UNCHANGED <<xon_xoff_inp, next>>

Write == WriteNothing \/ WriteByte \/ WriteUrgent \/ WriteControl

\* A byte pushed on a full FIFO makes rx_inp_pos equal to rx_out_pos: all
\* that was in it is lost.
Arrived(left) ==
  IF ~RxPushes THEN left
  ELSE IF Len(left) = Slots - 1 THEN <<>>
  ELSE Append(left, rx_rg)

ReadByte == rx_buf # <<>> /\ rx_buf' = Arrived(Tail(rx_buf)) /\ got' = ~got

ReadNothing == rx_buf' = Arrived(rx_buf) /\ UNCHANGED got

History ==
  /\ coming' = (Launch \/ (coming /\ ~RxPushes))
  /\ heard' = IF RxPushes /\ rx_rg \in Urgent THEN rx_rg ELSE heard

Clock == Transmit /\ Receive /\ Write /\ (ReadByte \/ ReadNothing) /\ History

Init ==
  /\ tx_buf = <<>> /\ tx_stop = FALSE
  /\ xon_xoff_inp = NUL /\ xon_xoff_out = NUL
  /\ tx_state = IDLE /\ tx_phase \in 0 .. PhaseMax /\ tx_rg = NUL
  /\ CTS0 = 1 /\ TxD = 1
  /\ rx_buf = <<>>
  /\ rx_state = IDLE /\ rx_phase = 0 /\ rx_rg = NUL /\ RTSn = 1
  /\ next = 1 /\ got = FALSE /\ coming = FALSE /\ heard = NUL

Next == Clock

Spec == Init /\ [][Next]_vars

\* The clock runs, and the software at the receiving end reads.
FairSpec == Spec /\ WF_vars(Clock /\ (rx_buf = <<>> \/ ReadByte))

-----------------------------------------------------------------------------
Channel == INSTANCE ByteChannel WITH
  chan <- rx_buf \o (IF coming THEN <<tx_rg>> ELSE <<>>) \o tx_buf

\* The link keeps the promise of ByteChannel: whatever the phases and
\* however slowly the receiver is read, RTSn stops the transmitter in time,
\* bits are sampled as they were sent, and nothing is lost.
Refines == Channel!BSpec

\* Software flow control converges: the character asked for last, if no
\* other follows, is the last one the other side gets, also when requests
\* overtook each other in xon_xoff_inp.
FlowConverges ==
  \A u \in Urgent : <>[](xon_xoff_inp = u) => <>[](heard = u)
=============================================================================
