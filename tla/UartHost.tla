----------------------------- MODULE UartHost ------------------------------
(***************************************************************************)
(* The Linux driver of the UART (fpga-axi-uart.c) with the registers it    *)
(* shares with uart.v.  Four actors take steps in any order: the tty layer *)
(* (write, stop, start, send_xchar, open and close), the interrupt handler *)
(* axi_uart_isr, the console (axi_uart_console_write), and the device.     *)
(* Every register access is a step.  port->lock keeps the first three      *)
(* apart, but startup and shutdown write the control register without it.  *)
(*                                                                         *)
(* What matters of a FIFO here is how many bytes it holds (UartLink has    *)
(* their order).                                                           *)
(***************************************************************************)
EXTENDS Naturals

CONSTANTS
  Slots,        \* 1 << fifo_ptr_bits
  MaxChars,     \* MAX_CHARS_PER_INTERRUPT
  MaxXmit,      \* bound: the bytes the ring of the tty holds
  ConsoleChars, \* bytes of a console message
  DrainInCall   \* bound: the bytes the device sends during one call of
                \* axi_uart_transmit

ASSUME UartAssumption ==
  /\ Slots \in Nat /\ Slots >= 4
  /\ MaxChars \in Nat \ {0}
  /\ MaxXmit \in Nat \ {0}
  /\ ConsoleChars \in Nat \ {0}
  /\ DrainInCall \in Nat

VARIABLES
  control,     \* the bits IE_RX, IE_TX and STOP of the control register
  tx_len, rx_len,
  lock,        \* who holds port->lock: "none", "tty", "isr", "con"
  port,        \* "closed", "irq" (request_irq done), "open", "stop_rx",
               \* "quiet" (control cleared, irq not freed)
  xmit,        \* bytes in the ring of the tty
  x_char,      \* port->x_char # 0
  tx_stopped,  \* uart_tx_stopped
  tty,         \* "start", "stop": between the change and its call
  isr,         \* "idle", "lock", "transmit", "receive"
  step,        \* where axi_uart_transmit is; it runs under the lock
  local,       \* its copy of control
  tx_cnt, drained,
  rx_cnt,      \* of axi_uart_receive
  con, saved, left  \* console_write: where, control as read, bytes to go

trVars == <<step, local, tx_cnt>>
conVars == <<con, saved, left>>
ttyVars == <<port, xmit, x_char, tx_stopped, tty>>
isrVars == <<isr, rx_cnt>>
devVars == <<control, tx_len, rx_len, drained>>
vars == <<devVars, lock, ttyVars, isrVars, trVars, conVars>>

Bits == {"IE_RX", "IE_TX", "STOP"}

tx_full == tx_len = Slots - 1
tx_irq == tx_len <= Slots \div 4
interrupt == \/ "IE_RX" \in control /\ rx_len > 0
             \/ "IE_TX" \in control /\ tx_irq

-----------------------------------------------------------------------------
(* The device.                                                             *)

Transmitting == step # "none"

\* A byte leaves the transmit FIFO.
Drain ==
  /\ tx_len > 0 /\ "STOP" \notin control
  /\ Transmitting => drained < DrainInCall
  /\ tx_len' = tx_len - 1
  /\ drained' = IF Transmitting THEN drained + 1 ELSE 0
  /\ UNCHANGED <<control, rx_len, lock, ttyVars, isrVars, trVars, conVars>>

\* A byte enters the receive FIFO; RTSn keeps it from overflowing.
Arrive ==
  /\ rx_len < Slots - 1
  /\ rx_len' = rx_len + 1
  /\ UNCHANGED <<control, tx_len, drained, lock, ttyVars, isrVars, trVars,
                 conVars>>

-----------------------------------------------------------------------------
(* axi_uart_transmit, called under the lock by the tty layer and the       *)
(* interrupt handler.                                                      *)

Call == step' = "read" /\ UNCHANGED <<local, tx_cnt, drained>>

SetControl(bits) == control' = bits /\ local' = bits

TrRead ==
  /\ step = "read"
  /\ local' = control
  /\ step' = "mask"
  /\ UNCHANGED <<devVars, lock, ttyVars, isrVars, tx_cnt, conVars>>

TrMask ==
  /\ step = "mask"
  /\ SetControl(local \ {"IE_TX"})
  /\ step' = "loop"
  /\ UNCHANGED <<tx_len, rx_len, drained, lock, ttyVars, isrVars, tx_cnt,
                 conVars>>

Looping == step = "loop" /\ tx_cnt < MaxChars

TrXChar ==
  /\ Looping /\ x_char
  /\ x_char' = FALSE
  /\ UNCHANGED <<devVars, lock, port, xmit, tx_stopped, tty, isrVars, trVars,
                 conVars>>

TrStopped ==
  /\ Looping /\ ~x_char /\ tx_stopped
  /\ SetControl(local \cup {"STOP"})
  /\ step' = "out"
  /\ UNCHANGED <<tx_len, rx_len, drained, lock, ttyVars, isrVars, tx_cnt,
                 conVars>>

\* Mutant: a transmitter that was stopped is not let go.
TrNext_KeepsStop ==
  /\ Looping /\ ~x_char /\ ~tx_stopped /\ xmit > 0
  /\ step' = "status"
  /\ UNCHANGED <<devVars, lock, ttyVars, isrVars, local, tx_cnt, conVars>>

TrNext ==
  /\ Looping /\ ~x_char /\ ~tx_stopped /\ xmit > 0
  /\ SetControl(local \ {"STOP"})
  /\ step' = "status"
  /\ UNCHANGED <<tx_len, rx_len, drained, lock, ttyVars, isrVars, tx_cnt,
                 conVars>>

TrEmpty ==
  /\ Looping /\ ~x_char /\ ~tx_stopped /\ xmit = 0
  /\ SetControl(local \ {"STOP"})
  /\ step' = "out"
  /\ UNCHANGED <<tx_len, rx_len, drained, lock, ttyVars, isrVars, tx_cnt,
                 conVars>>

\* Mutant: the status is not looked at.
TrStatus_Blind ==
  /\ step = "status"
  /\ step' = "char"
  /\ UNCHANGED <<devVars, lock, ttyVars, isrVars, local, tx_cnt, conVars>>

TrStatus ==
  /\ step = "status"
  /\ step' = IF tx_full THEN "arm" ELSE "char"
  /\ UNCHANGED <<devVars, lock, ttyVars, isrVars, local, tx_cnt, conVars>>

\* Mutant: the interrupt is not enabled.
TrArm_Never ==
  /\ step = "arm"
  /\ step' = "out"
  /\ UNCHANGED <<devVars, lock, ttyVars, isrVars, local, tx_cnt, conVars>>

TrArm ==
  /\ step = "arm"
  /\ SetControl(local \cup {"IE_TX"})
  /\ step' = "out"
  /\ UNCHANGED <<tx_len, rx_len, drained, lock, ttyVars, isrVars, tx_cnt,
                 conVars>>

\* uart.v ignores a byte written to a full FIFO.
WriteFifo == tx_len' = IF tx_full THEN tx_len ELSE tx_len + 1

TrChar ==
  /\ step = "char"
  /\ WriteFifo
  /\ xmit' = xmit - 1
  /\ tx_cnt' = tx_cnt + 1
  /\ step' = "loop"
  /\ UNCHANGED <<control, rx_len, drained, lock, port, x_char, tx_stopped,
                 tty, isrVars, local, conVars>>

TrMax ==
  /\ step = "loop" /\ tx_cnt = MaxChars
  /\ step' = "out"
  /\ UNCHANGED <<devVars, lock, ttyVars, isrVars, local, tx_cnt, conVars>>

\* Back to the caller: the handler goes on to receive, the tty unlocks.
TrReturn ==
  /\ step = "out"
  /\ step' = "none" /\ local' = {} /\ tx_cnt' = 0 /\ drained' = 0
  /\ IF lock = "isr"
     THEN isr' = "receive" /\ UNCHANGED <<lock, tty>>
     ELSE lock' = "none" /\ tty' = "idle" /\ UNCHANGED isr
  /\ UNCHANGED <<control, tx_len, rx_len, port, xmit, x_char, tx_stopped,
                 rx_cnt, conVars>>

TransmitStep ==
  \/ TrRead \/ TrMask \/ TrXChar \/ TrStopped \/ TrNext \/ TrEmpty
  \/ TrStatus \/ TrArm \/ TrChar \/ TrMax \/ TrReturn

-----------------------------------------------------------------------------
(* axi_uart_isr.                                                           *)

IsrStart ==
  /\ isr = "idle" /\ port # "closed"
  /\ interrupt
  /\ isr' = "lock"
  /\ UNCHANGED <<devVars, lock, ttyVars, rx_cnt, trVars, conVars>>

IsrLock ==
  /\ isr = "lock" /\ lock = "none"
  /\ lock' = "isr" /\ isr' = "transmit"
  /\ Call
  /\ UNCHANGED <<control, tx_len, rx_len, ttyVars, rx_cnt, conVars>>

\* Mutant: it goes on as long as there is a byte.
IsrReceive_Unbounded ==
  /\ isr = "receive" /\ rx_len > 0
  /\ rx_len' = rx_len - 1
  /\ rx_cnt' = rx_cnt + 1
  /\ UNCHANGED <<control, tx_len, drained, lock, ttyVars, isr, trVars,
                 conVars>>

\* axi_uart_receive looks at the status and reads a byte.
IsrReceive ==
  /\ isr = "receive" /\ rx_cnt < MaxChars /\ rx_len > 0
  /\ rx_len' = rx_len - 1
  /\ rx_cnt' = rx_cnt + 1
  /\ UNCHANGED <<control, tx_len, drained, lock, ttyVars, isr, trVars,
                 conVars>>

IsrEnd ==
  /\ isr = "receive"
  /\ rx_cnt = MaxChars \/ rx_len = 0
  /\ lock' = "none" /\ isr' = "idle" /\ rx_cnt' = 0
  /\ UNCHANGED <<devVars, ttyVars, trVars, conVars>>

-----------------------------------------------------------------------------
(* The tty layer.                                                          *)

\* uart_write puts a byte in the ring and calls start_tx unless stopped.
TtyWrite ==
  /\ port = "open" /\ tty = "idle" /\ lock = "none"
  /\ xmit < MaxXmit
  /\ xmit' = xmit + 1
  /\ IF tx_stopped
     THEN UNCHANGED <<lock, tty, trVars, drained>>
     ELSE lock' = "tty" /\ tty' = "call" /\ Call
  /\ UNCHANGED <<control, tx_len, rx_len, port, x_char, tx_stopped, isrVars,
                 conVars>>

\* stop_tty and start_tty change the flag before they take port->lock.
TtyStop ==
  /\ port = "open" /\ tty = "idle" /\ ~tx_stopped
  /\ tx_stopped' = TRUE /\ tty' = "stop"
  /\ UNCHANGED <<devVars, lock, port, xmit, x_char, isrVars, trVars, conVars>>

TtyStart ==
  /\ port = "open" /\ tty = "idle" /\ tx_stopped
  /\ tx_stopped' = FALSE /\ tty' = "start"
  /\ UNCHANGED <<devVars, lock, port, xmit, x_char, isrVars, trVars, conVars>>

\* stop_tx and start_tx.
TtyCall ==
  /\ tty \in {"stop", "start"} /\ lock = "none"
  /\ lock' = "tty" /\ tty' = "call"
  /\ Call
  /\ UNCHANGED <<control, tx_len, rx_len, port, xmit, x_char, tx_stopped,
                 isrVars, conVars>>

\* uart_send_xchar.
TtyXChar ==
  /\ port = "open" /\ tty = "idle" /\ lock = "none"
  /\ x_char' = TRUE
  /\ lock' = "tty" /\ tty' = "call"
  /\ Call
  /\ UNCHANGED <<control, tx_len, rx_len, port, xmit, tx_stopped, isrVars,
                 conVars>>

\* startup.
OpenIrq ==
  /\ port = "closed"
  /\ port' = "irq"
  /\ UNCHANGED <<devVars, lock, xmit, x_char, tx_stopped, tty, isrVars,
                 trVars, conVars>>

OpenControl ==
  /\ port = "irq"
  /\ control' = {"IE_RX"}
  /\ port' = "open"
  /\ UNCHANGED <<tx_len, rx_len, drained, lock, xmit, x_char, tx_stopped, tty,
                 isrVars, trVars, conVars>>

\* stop_rx, under the lock: nobody else changes control between its read and
\* its write.
CloseStopRx ==
  /\ port = "open" /\ tty = "idle" /\ lock = "none"
  /\ control' = control \ {"IE_RX"}
  /\ port' = "stop_rx"
  /\ UNCHANGED <<tx_len, rx_len, drained, lock, xmit, x_char, tx_stopped, tty,
                 isrVars, trVars, conVars>>

\* shutdown.
CloseControl ==
  /\ port = "stop_rx"
  /\ control' = {}
  /\ port' = "quiet"
  /\ UNCHANGED <<tx_len, rx_len, drained, lock, xmit, x_char, tx_stopped, tty,
                 isrVars, trVars, conVars>>

\* free_irq waits for the handler; the ring is freed and the tty is gone.
CloseIrq ==
  /\ port = "quiet" /\ isr = "idle"
  /\ port' = "closed"
  /\ xmit' = 0 /\ x_char' = FALSE /\ tx_stopped' = FALSE
  /\ UNCHANGED <<devVars, lock, tty, isrVars, trVars, conVars>>

-----------------------------------------------------------------------------
(* axi_uart_console_write.                                                 *)

ConLock ==
  /\ con = "idle" /\ lock = "none"
  /\ lock' = "con" /\ con' = "read" /\ left' = ConsoleChars
  /\ UNCHANGED <<devVars, ttyVars, isrVars, trVars, saved>>

ConRead ==
  /\ con = "read"
  /\ saved' = control
  /\ con' = "clear"
  /\ UNCHANGED <<devVars, lock, ttyVars, isrVars, trVars, left>>

\* Mutant: a stopped transmitter is left stopped.
ConClear_Keeps ==
  /\ con = "clear"
  /\ control' = saved
  /\ con' = "put"
  /\ UNCHANGED <<tx_len, rx_len, drained, lock, ttyVars, isrVars, trVars,
                 saved, left>>

ConClear ==
  /\ con = "clear"
  /\ control' = saved \ {"STOP"}
  /\ con' = "put"
  /\ UNCHANGED <<tx_len, rx_len, drained, lock, ttyVars, isrVars, trVars,
                 saved, left>>

ConPut ==
  /\ con = "put" /\ left > 0
  /\ ~tx_full
  /\ WriteFifo
  /\ left' = left - 1
  /\ UNCHANGED <<control, rx_len, drained, lock, ttyVars, isrVars, trVars,
                 con, saved>>

Unlock == lock' = "none" /\ con' = "idle" /\ saved' = {}

ConUnlock ==
  /\ con = "put" /\ left = 0 /\ "STOP" \notin saved
  /\ Unlock
  /\ UNCHANGED <<devVars, ttyVars, isrVars, trVars, left>>

\* Mutant: the control register is left as it is.
ConRestore_Never ==
  /\ con = "put" /\ left = 0 /\ "STOP" \in saved
  /\ tx_len = 0
  /\ Unlock
  /\ UNCHANGED <<devVars, ttyVars, isrVars, trVars, left>>

\* A transmitter that was stopped is stopped again when the FIFO is empty.
ConRestore ==
  /\ con = "put" /\ left = 0 /\ "STOP" \in saved
  /\ tx_len = 0
  /\ control' = saved
  /\ Unlock
  /\ UNCHANGED <<tx_len, rx_len, drained, ttyVars, isrVars, trVars, left>>

ConStep == ConRead \/ ConClear \/ ConPut \/ ConUnlock \/ ConRestore

-----------------------------------------------------------------------------
Init ==
  /\ control = {} /\ tx_len = 0 /\ rx_len = 0 /\ drained = 0
  /\ lock = "none"
  /\ port = "closed" /\ xmit = 0 /\ x_char = FALSE /\ tx_stopped = FALSE
  /\ tty = "idle"
  /\ isr = "idle" /\ rx_cnt = 0
  /\ step = "none" /\ local = {} /\ tx_cnt = 0
  /\ con = "idle" /\ saved = {} /\ left = 0

Next ==
  \/ Drain \/ Arrive
  \/ TransmitStep
  \/ IsrStart \/ IsrLock \/ IsrReceive \/ IsrEnd
  \/ TtyWrite \/ TtyStop \/ TtyStart \/ TtyCall \/ TtyXChar
  \/ OpenIrq \/ OpenControl \/ CloseStopRx \/ CloseControl \/ CloseIrq
  \/ ConLock \/ ConStep

Spec == Init /\ [][Next]_vars

\* The peer takes bytes (SF, as DrainInCall may hold it up), processors run,
\* and a spin lock is granted in the order in which it was asked for, to the
\* handler as to the others.
Fairness ==
  /\ SF_vars(Drain)
  /\ WF_vars(TransmitStep) /\ WF_vars(ConStep)
  /\ WF_vars(IsrStart) /\ WF_vars(IsrReceive \/ IsrEnd)
  /\ SF_vars(IsrLock) /\ SF_vars(TtyCall)
  /\ WF_vars(OpenControl) /\ WF_vars(CloseControl)

FairSpec == Spec /\ Fairness

-----------------------------------------------------------------------------
\* Every variable holds a value of its kind; the FIFOs never hold more than
\* they have slots for.
TypeOK ==
  /\ control \subseteq Bits /\ local \subseteq Bits /\ saved \subseteq Bits
  /\ tx_len \in 0 .. Slots - 1 /\ rx_len \in 0 .. Slots - 1
  /\ drained \in 0 .. DrainInCall
  /\ lock \in {"none", "tty", "isr", "con"}
  /\ port \in {"closed", "irq", "open", "stop_rx", "quiet"}
  /\ xmit \in 0 .. MaxXmit /\ x_char \in BOOLEAN /\ tx_stopped \in BOOLEAN
  /\ tty \in {"idle", "start", "stop", "call"}
  /\ isr \in {"idle", "lock", "transmit", "receive"}
  /\ rx_cnt \in 0 .. MaxChars
  /\ step \in {"none", "read", "mask", "loop", "status", "arm", "char", "out"}
  /\ tx_cnt \in 0 .. MaxChars
  /\ con \in {"idle", "read", "clear", "put"} /\ left \in 0 .. ConsoleChars

AtRest == port = "open" /\ lock = "none" /\ tty = "idle"

\* No lost wake-up: whenever nobody is about to call axi_uart_transmit, a
\* byte that may be sent has an interrupt waiting for room in the FIFO.
Armed == AtRest /\ xmit > 0 /\ ~tx_stopped => "IE_TX" \in control

\* Where there is something to send or to hold back, the transmitter is
\* stopped exactly as the tty wants it, also after a console message has
\* borrowed it.
StopKept ==
  AtRest /\ (tx_stopped \/ xmit > 0) => (tx_stopped <=> "STOP" \in control)

\* While the port is open, received bytes interrupt: what startup enabled
\* stays enabled.
RxOn == port = "open" /\ lock = "none" => "IE_RX" \in control

\* Every byte taken from the ring of the tty enters the FIFO: what the
\* driver knows from the status is still so when it writes.
NoDrop == [][xmit' < xmit /\ port' = "open" => tx_len' = tx_len + 1]_vars

\* Bytes of a tty that is not stopped keep going out, unless the console
\* always has something to say and takes all the room.
TxFlows ==
  <>[](con = "idle") =>
    \/ []<>(xmit = 0 \/ tx_stopped \/ port # "open")
    \/ []<><<TrChar>>_vars

\* A console message ends, also while the tty is stopped.
ConsoleEnds == con # "idle" ~> con = "idle"
=============================================================================
