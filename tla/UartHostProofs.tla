-------------------------- MODULE UartHostProofs ---------------------------
(***************************************************************************)
(* Theorems about UartHost, for every size of the FIFOs and of the ring:   *)
(* every variable keeps its type, no byte of the tty is dropped, no        *)
(* wake-up is lost, and the transmitter is stopped when the tty is.        *)
(***************************************************************************)
EXTENDS UartHost, TLAPS

-----------------------------------------------------------------------------
(* Types.  The lock tells who runs and where; the step of                  *)
(* axi_uart_transmit tells what it knows.                                  *)

\* Who holds the lock.
Holders ==
  /\ lock = "tty" <=> tty = "call"
  /\ lock = "isr" <=> isr \in {"transmit", "receive"}
  /\ lock = "con" <=> con # "idle"
  /\ step # "none" <=> (tty = "call" \/ isr = "transmit")
  /\ port # "open" => tty = "idle"

\* What axi_uart_transmit relies on: a character to take, and room for it.
Known ==
  /\ step \in {"status", "arm", "char"} => tx_cnt < MaxChars /\ xmit > 0
  /\ step = "char" => tx_len < Slots - 1
  /\ step \in {"none", "read", "mask"} => tx_cnt = 0

TInv == TypeOK /\ Holders /\ Known

LEMMA Sizes ==
  /\ Slots \in Nat /\ Slots >= 4
  /\ MaxChars \in Nat /\ MaxChars > 0 /\ MaxXmit \in Nat
  /\ ConsoleChars \in Nat /\ DrainInCall \in Nat
BY UartAssumption

LEMMA TypeInit == Init => TInv
<1> SUFFICES ASSUME Init PROVE TInv
  OBVIOUS
<1>1. TypeOK
  <2>1. xmit \in 0 .. MaxXmit /\ left \in 0 .. ConsoleChars
    BY Sizes DEF Init
  <2>2. drained \in 0 .. DrainInCall
    BY Sizes DEF Init
  <2>3. rx_cnt \in 0 .. MaxChars /\ tx_cnt \in 0 .. MaxChars
    BY Sizes DEF Init
  <2>4. tx_len \in 0 .. Slots - 1 /\ rx_len \in 0 .. Slots - 1
    BY Sizes DEF Init
  <2>5. x_char \in BOOLEAN /\ tx_stopped \in BOOLEAN
    BY DEF Init
  <2>6. control \subseteq Bits /\ local \subseteq Bits /\ saved \subseteq Bits
    BY DEF Init
  <2>7. /\ step = "none" /\ lock = "none" /\ port = "closed"
        /\ tty = "idle" /\ isr = "idle" /\ con = "idle"
    BY DEF Init
  <2> QED
    BY <2>1, <2>2, <2>3, <2>4, <2>5, <2>6, <2>7 DEF TypeOK
<1>2. Holders /\ Known
  BY DEF Init, Holders, Known
<1> QED
  BY <1>1, <1>2 DEF TInv

\* A step keeps the types and what axi_uart_transmit knows.
LEMMA TypeNext ==
  ASSUME TInv, [Next]_vars
  PROVE  TInv'
<1> USE Sizes DEF TypeOK, Bits, Holders, Known, TInv,
           vars, devVars, ttyVars, isrVars, trVars, conVars
<1>1. CASE Drain
  BY <1>1 DEF Drain, Transmitting
<1>2. CASE Arrive
  BY <1>2 DEF Arrive
<1>3. CASE TrRead
  BY <1>3 DEF TrRead
<1>4. CASE TrMask
  BY <1>4 DEF TrMask, SetControl
<1>5. CASE TrXChar
  BY <1>5 DEF TrXChar, Looping
<1>6. CASE TrStopped
  BY <1>6 DEF TrStopped, SetControl, Looping
<1>7. CASE TrNext
  BY <1>7 DEF TrNext, SetControl, Looping
<1>8. CASE TrEmpty
  BY <1>8 DEF TrEmpty, SetControl, Looping
<1>9. CASE TrStatus
  BY <1>9 DEF TrStatus, tx_full
<1>10. CASE TrArm
  BY <1>10 DEF TrArm, SetControl
<1>11. CASE TrChar
  BY <1>11 DEF TrChar, WriteFifo, tx_full
<1>12. CASE TrMax
  BY <1>12 DEF TrMax
<1>13. CASE TrReturn
  BY <1>13 DEF TrReturn
<1>14. CASE IsrStart
  BY <1>14 DEF IsrStart
<1>15. CASE IsrLock
  BY <1>15 DEF IsrLock, Call
<1>16. CASE IsrReceive
  BY <1>16 DEF IsrReceive
<1>17. CASE IsrEnd
  BY <1>17 DEF IsrEnd
<1>18. CASE TtyWrite
  <2>1. (xmit \in 0 .. MaxXmit)'
    BY <1>18 DEF TtyWrite, Call
  <2>2. TypeOK'
    BY <1>18, <2>1 DEF TtyWrite, Call
  <2>3. Holders' /\ Known'
    BY <1>18 DEF TtyWrite, Call
  <2> QED
    BY <2>2, <2>3
<1>19. CASE TtyStop
  BY <1>19 DEF TtyStop
<1>20. CASE TtyStart
  BY <1>20 DEF TtyStart
<1>21. CASE TtyCall
  BY <1>21 DEF TtyCall, Call
<1>22. CASE TtyXChar
  BY <1>22 DEF TtyXChar, Call
<1>23. CASE OpenIrq
  BY <1>23 DEF OpenIrq
<1>24. CASE OpenControl
  BY <1>24 DEF OpenControl
<1>25. CASE CloseStopRx
  BY <1>25 DEF CloseStopRx
<1>26. CASE CloseControl
  BY <1>26 DEF CloseControl
<1>27. CASE CloseIrq
  <2>1. (xmit \in 0 .. MaxXmit)'
    BY <1>27 DEF CloseIrq
  <2>2. TypeOK'
    BY <1>27, <2>1 DEF CloseIrq
  <2>3. Holders' /\ Known'
    BY <1>27 DEF CloseIrq
  <2> QED
    BY <2>2, <2>3
<1>28. CASE ConLock
  BY <1>28 DEF ConLock
<1>29. CASE ConRead
  BY <1>29 DEF ConRead
<1>30. CASE ConClear
  BY <1>30 DEF ConClear
<1>31. CASE ConPut
  BY <1>31 DEF ConPut, WriteFifo, tx_full
<1>32. CASE ConUnlock
  BY <1>32 DEF ConUnlock, Unlock
<1>33. CASE ConRestore
  BY <1>33 DEF ConRestore, Unlock
<1>34. CASE UNCHANGED vars
  BY <1>34
<1> QED
  BY <1>1, <1>2, <1>3, <1>4, <1>5, <1>6, <1>7, <1>8, <1>9, <1>10, <1>11, <1>12, <1>13, <1>14, <1>15, <1>16, <1>17, <1>18, <1>19, <1>20, <1>21, <1>22, <1>23, <1>24, <1>25, <1>26, <1>27, <1>28, <1>29, <1>30, <1>31, <1>32, <1>33, <1>34
     DEF Next, TransmitStep, ConStep

\* Every variable of the driver and the device keeps its type: the handler
\* takes no more than MAX_CHARS_PER_INTERRUPT, no FIFO overfills.
THEOREM TypeCorrect == Spec => []TypeOK
<1>1. Init => TInv
  BY TypeInit
<1>2. TInv /\ [Next]_vars => TInv'
  BY TypeNext
<1>3. TInv => TypeOK
  BY DEF TInv
<1> QED
  BY <1>1, <1>2, <1>3, PTL DEF Spec

\* A byte that axi_uart_transmit takes from the ring of the tty enters the
\* FIFO, although the status was read a step before: under the lock nobody
\* else fills the FIFO.
THEOREM NothingDropped == Spec => NoDrop
<1>1. ASSUME TInv, [Next]_vars
      PROVE  [xmit' < xmit /\ port' = "open" => tx_len' = tx_len + 1]_vars
  <2> SUFFICES ASSUME Next, xmit' < xmit, port' = "open"
               PROVE  tx_len' = tx_len + 1
    BY <1>1
  <2>0. xmit \in Nat
    BY <1>1, Sizes DEF TInv, TypeOK
  <2> USE <2>0 DEF devVars, ttyVars, isrVars, trVars, conVars
  <2>1. CASE TrChar
    <3>1. tx_len \in 0 .. Slots - 1 /\ tx_len < Slots - 1
      BY <1>1, <2>1 DEF TInv, TypeOK, Known, TrChar
    <3> QED
      BY <2>1, <3>1, Sizes DEF TrChar, WriteFifo, tx_full
  <2>2. CASE CloseIrq
    BY <2>2 DEF CloseIrq
  <2>3. CASE TtyWrite
    BY <2>3 DEF TtyWrite, Call
  <2>4. CASE TransmitStep /\ ~TrChar
    BY <2>4 DEF TransmitStep, TrRead, TrMask, TrXChar, TrStopped, TrNext,
                TrEmpty, TrStatus, TrArm, TrMax, TrReturn
  <2>5. CASE Drain \/ Arrive \/ IsrStart \/ IsrLock \/ IsrReceive \/ IsrEnd
    BY <2>5 DEF Drain, Arrive, IsrStart, IsrLock, IsrReceive, IsrEnd, Call
  <2>6. CASE TtyStop \/ TtyStart \/ TtyCall \/ TtyXChar
    BY <2>6 DEF TtyStop, TtyStart, TtyCall, TtyXChar, Call
  <2>7. CASE OpenIrq \/ OpenControl \/ CloseStopRx \/ CloseControl
    BY <2>7 DEF OpenIrq, OpenControl, CloseStopRx, CloseControl
  <2>8. CASE ConLock \/ ConStep
    BY <2>8 DEF ConLock, ConStep, ConRead, ConClear, ConPut, ConUnlock,
                ConRestore, Unlock
  <2> QED
    BY <2>1, <2>2, <2>3, <2>4, <2>5, <2>6, <2>7, <2>8 DEF Next
<1> QED
  BY <1>1, TypeInit, TypeNext, PTL DEF Spec, NoDrop

-----------------------------------------------------------------------------
(* The control register.  While the tty has nothing to announce, what the  *)
(* register says is right at three places: when nobody is in               *)
(* axi_uart_transmit, when somebody leaves it, and in the copy the console *)
(* took.  (A tty that has just been started or stopped calls               *)
(* axi_uart_transmit next.)                                                *)

\* A port that is not open has nothing to send.
Unused ==
  port \in {"closed", "irq"} => xmit = 0 /\ ~x_char /\ ~tx_stopped

\* The bytes sent in a call and those left were in the ring when it began.
Share == xmit + tx_cnt <= MaxXmit

\* Each byte sent in a call is in the FIFO or has left it during the call.
Served == step # "none" => tx_cnt <= tx_len + drained

\* A call ends with the ring empty or the FIFO full: either it may send all
\* the ring holds, or more than the device takes meanwhile.
CallSuffices == MaxXmit <= MaxChars \/ Slots - 1 + DrainInCall < MaxChars

Sends == xmit > 0 /\ ~tx_stopped

ArmedAround ==
  port = "open" /\ Sends =>
    /\ step = "none" /\ tty = "idle" => "IE_TX" \in control
    /\ step = "out" /\ tty \in {"idle", "call"} => "IE_TX" \in control
    /\ con \in {"clear", "put"} /\ tty = "idle" => "IE_TX" \in saved

ArmInv == Unused /\ Share /\ Served /\ ArmedAround

\* A step keeps a waiting byte and its interrupt together.
LEMMA ArmNext ==
  ASSUME CallSuffices, TInv, ArmInv, [Next]_vars
  PROVE  ArmInv'
<1> USE Sizes DEF Unused, Share, Served, Sends, ArmedAround, ArmInv, TInv,
           TypeOK, Holders, Known, vars, devVars, ttyVars, isrVars, trVars, conVars
<1>1. CASE Drain
  BY <1>1 DEF Drain, Transmitting
<1>2. CASE Arrive
  BY <1>2 DEF Arrive
<1>3. CASE TrRead
  BY <1>3 DEF TrRead
<1>4. CASE TrMask
  BY <1>4 DEF TrMask, SetControl
<1>5. CASE TrXChar
  BY <1>5 DEF TrXChar, Looping
<1>6. CASE TrStopped
  BY <1>6 DEF TrStopped, SetControl, Looping
<1>7. CASE TrNext
  BY <1>7 DEF TrNext, SetControl, Looping
<1>8. CASE TrEmpty
  BY <1>8 DEF TrEmpty, SetControl, Looping
<1>9. CASE TrStatus
  BY <1>9 DEF TrStatus, tx_full
<1>10. CASE TrArm
  BY <1>10 DEF TrArm, SetControl
<1>11. CASE TrChar
  BY <1>11 DEF TrChar, WriteFifo, tx_full
<1>12. CASE TrMax
  BY <1>12 DEF TrMax, CallSuffices
<1>13. CASE TrReturn
  BY <1>13 DEF TrReturn
<1>14. CASE IsrStart
  BY <1>14 DEF IsrStart
<1>15. CASE IsrLock
  BY <1>15 DEF IsrLock, Call
<1>16. CASE IsrReceive
  BY <1>16 DEF IsrReceive
<1>17. CASE IsrEnd
  BY <1>17 DEF IsrEnd
<1>18. CASE TtyWrite
  BY <1>18 DEF TtyWrite, Call
<1>19. CASE TtyStop
  BY <1>19 DEF TtyStop
<1>20. CASE TtyStart
  BY <1>20 DEF TtyStart
<1>21. CASE TtyCall
  BY <1>21 DEF TtyCall, Call
<1>22. CASE TtyXChar
  BY <1>22 DEF TtyXChar, Call
<1>23. CASE OpenIrq
  BY <1>23 DEF OpenIrq
<1>24. CASE OpenControl
  BY <1>24 DEF OpenControl
<1>25. CASE CloseStopRx
  BY <1>25 DEF CloseStopRx
<1>26. CASE CloseControl
  BY <1>26 DEF CloseControl
<1>27. CASE CloseIrq
  BY <1>27 DEF CloseIrq
<1>28. CASE ConLock
  BY <1>28 DEF ConLock
<1>29. CASE ConRead
  BY <1>29 DEF ConRead
<1>30. CASE ConClear
  BY <1>30 DEF ConClear
<1>31. CASE ConPut
  BY <1>31 DEF ConPut, WriteFifo, tx_full
<1>32. CASE ConUnlock
  BY <1>32 DEF ConUnlock, Unlock
<1>33. CASE ConRestore
  BY <1>33 DEF ConRestore, Unlock
<1>34. CASE UNCHANGED vars
  BY <1>34
<1> QED
  BY <1>1, <1>2, <1>3, <1>4, <1>5, <1>6, <1>7, <1>8, <1>9, <1>10, <1>11, <1>12, <1>13, <1>14, <1>15, <1>16, <1>17, <1>18, <1>19, <1>20, <1>21, <1>22, <1>23, <1>24, <1>25, <1>26, <1>27, <1>28, <1>29, <1>30, <1>31, <1>32, <1>33, <1>34
     DEF Next, TransmitStep, ConStep

\* No wake-up of the transmitter is lost, when MAX_CHARS_PER_INTERRUPT exceeds
\* what the ring holds or what the device can take during a call: a byte that may be sent and finds no room has the
\* interrupt enabled, whatever tty, handler, console and device do meanwhile.
THEOREM NoLostWakeUp == ASSUME CallSuffices PROVE Spec => []Armed
<1>1. Init => ArmInv
  BY Sizes DEF Init, ArmInv, Unused, Share, Served, ArmedAround, Sends
<1>2. TInv /\ ArmInv /\ [Next]_vars => ArmInv'
  BY ArmNext
<1>3. TInv /\ ArmInv => Armed
  BY DEF TInv, Holders, ArmInv, ArmedAround, Sends, Armed, AtRest
<1> QED
  BY <1>1, <1>2, <1>3, TypeInit, TypeNext, PTL DEF Spec

-----------------------------------------------------------------------------
\* A call that sends has let the transmitter go.
Going ==
  step \in {"status", "arm", "char"} \/ (step = "loop" /\ tx_cnt > 0) =>
    /\ "STOP" \notin local
    /\ port = "open" => "STOP" \notin control
    /\ tty \in {"idle", "call"} => ~tx_stopped

Wants == tx_stopped \/ xmit > 0

StopAround ==
  port = "open" /\ Wants =>
    /\ step = "none" /\ tty = "idle" /\ con \in {"idle", "read"} =>
         (tx_stopped <=> "STOP" \in control)
    /\ step = "out" /\ tty \in {"idle", "call"} =>
         (tx_stopped <=> "STOP" \in control)
    /\ con \in {"clear", "put"} /\ tty = "idle" =>
         (tx_stopped <=> "STOP" \in saved)
    /\ con = "put" /\ tty = "idle" => "STOP" \notin control

StopInv == Unused /\ Going /\ StopAround

\* A step keeps the bit of the control register and the tty in agreement.
LEMMA StopNext ==
  ASSUME TInv, StopInv, [Next]_vars
  PROVE  StopInv'
<1> USE Sizes DEF Unused, Going, Wants, StopAround, StopInv, TInv,
           TypeOK, Holders, Known, vars, devVars, ttyVars, isrVars, trVars, conVars
<1>1. CASE Drain
  BY <1>1 DEF Drain, Transmitting
<1>2. CASE Arrive
  BY <1>2 DEF Arrive
<1>3. CASE TrRead
  BY <1>3 DEF TrRead
<1>4. CASE TrMask
  BY <1>4 DEF TrMask, SetControl
<1>5. CASE TrXChar
  BY <1>5 DEF TrXChar, Looping
<1>6. CASE TrStopped
  BY <1>6 DEF TrStopped, SetControl, Looping
<1>7. CASE TrNext
  BY <1>7 DEF TrNext, SetControl, Looping
<1>8. CASE TrEmpty
  BY <1>8 DEF TrEmpty, SetControl, Looping
<1>9. CASE TrStatus
  BY <1>9 DEF TrStatus, tx_full
<1>10. CASE TrArm
  BY <1>10 DEF TrArm, SetControl
<1>11. CASE TrChar
  BY <1>11 DEF TrChar, WriteFifo, tx_full
<1>12. CASE TrMax
  BY <1>12 DEF TrMax
<1>13. CASE TrReturn
  BY <1>13 DEF TrReturn
<1>14. CASE IsrStart
  BY <1>14 DEF IsrStart
<1>15. CASE IsrLock
  BY <1>15 DEF IsrLock, Call
<1>16. CASE IsrReceive
  BY <1>16 DEF IsrReceive
<1>17. CASE IsrEnd
  BY <1>17 DEF IsrEnd
<1>18. CASE TtyWrite
  BY <1>18 DEF TtyWrite, Call
<1>19. CASE TtyStop
  BY <1>19 DEF TtyStop
<1>20. CASE TtyStart
  BY <1>20 DEF TtyStart
<1>21. CASE TtyCall
  BY <1>21 DEF TtyCall, Call
<1>22. CASE TtyXChar
  BY <1>22 DEF TtyXChar, Call
<1>23. CASE OpenIrq
  BY <1>23 DEF OpenIrq
<1>24. CASE OpenControl
  BY <1>24 DEF OpenControl
<1>25. CASE CloseStopRx
  BY <1>25 DEF CloseStopRx
<1>26. CASE CloseControl
  BY <1>26 DEF CloseControl
<1>27. CASE CloseIrq
  BY <1>27 DEF CloseIrq
<1>28. CASE ConLock
  BY <1>28 DEF ConLock
<1>29. CASE ConRead
  BY <1>29 DEF ConRead
<1>30. CASE ConClear
  BY <1>30 DEF ConClear
<1>31. CASE ConPut
  BY <1>31 DEF ConPut, WriteFifo, tx_full
<1>32. CASE ConUnlock
  BY <1>32 DEF ConUnlock, Unlock
<1>33. CASE ConRestore
  BY <1>33 DEF ConRestore, Unlock
<1>34. CASE UNCHANGED vars
  BY <1>34
<1> QED
  BY <1>1, <1>2, <1>3, <1>4, <1>5, <1>6, <1>7, <1>8, <1>9, <1>10, <1>11, <1>12, <1>13, <1>14, <1>15, <1>16, <1>17, <1>18, <1>19, <1>20, <1>21, <1>22, <1>23, <1>24, <1>25, <1>26, <1>27, <1>28, <1>29, <1>30, <1>31, <1>32, <1>33, <1>34
     DEF Next, TransmitStep, ConStep

\* The transmitter is stopped exactly when the tty is, also after a console
\* message that had to let it go, for every length of message and ring.
THEOREM StopIsKept == Spec => []StopKept
<1>1. Init => StopInv
  BY DEF Init, StopInv, Unused, Going, StopAround, Wants
<1>2. TInv /\ StopInv /\ [Next]_vars => StopInv'
  BY StopNext
<1>3. ASSUME TInv, StopInv, AtRest, Wants
      PROVE  tx_stopped <=> "STOP" \in control
  <2>1. step = "none" /\ con = "idle"
    BY <1>3 DEF TInv, Holders, AtRest
  <2> QED
    BY <2>1, <1>3 DEF StopInv, StopAround, AtRest
<1>4. ASSUME TInv, StopInv
      PROVE  StopKept
  <2>1. CASE AtRest /\ Wants
    BY <1>3, <1>4, <2>1 DEF StopKept
  <2>2. CASE ~(AtRest /\ Wants)
    BY <2>2 DEF StopKept, Wants
  <2> QED
    BY <2>1, <2>2
<1> QED
  BY <1>1, <1>2, <1>4, TypeInit, TypeNext, PTL DEF Spec
=============================================================================
