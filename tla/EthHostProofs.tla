--------------------------- MODULE EthHostProofs ----------------------------
(***************************************************************************)
(* Proofs about EthHost, for every ring and whether or not the interface   *)
(* is closed with packets waiting.                                         *)
(***************************************************************************)
EXTENDS EthHost, TLAPS

\* How far b is ahead of a on the ring.
Ahead(a, b) == IF a <= b THEN b - a ELSE b - a + Ring

\* What RingsOwned needs to be kept, for the receive ring ..
RxInv ==
  /\ rx_inp \in Slot /\ rx_pkt_out \in Slot /\ rx_out \in Slot
  /\ rx_start \in BOOLEAN
  /\ rx_ring = Between(rx_out, rx_inp)
  /\ Ahead(rx_out, rx_pkt_out) <= Ahead(rx_out, rx_inp)
  /\ rx_start => rx_pkt_out # rx_inp

\* .. and for the other, which is empty while the interface is closed.
TxInv ==
  /\ tx_inp \in Slot /\ tx_pkt_out \in Slot /\ tx_out \in Slot
  /\ tx_start \in BOOLEAN /\ stopped \in BOOLEAN /\ up \in BOOLEAN
  /\ tx_ring = Between(tx_out, tx_inp)
  /\ Ahead(tx_out, tx_pkt_out) <= Ahead(tx_out, tx_inp)
  /\ tx_start => tx_pkt_out # tx_inp
  /\ ~stopped => Free(tx_inp, tx_out) # 0
  /\ ~up /\ pc \notin {"close_wait", "close_drain"} => tx_out = tx_inp

Locations ==
  Fills \cup {"idle", "isr_clear", "isr_rx", "isr_tx", "isr_end", "mtu_wait",
              "mtu_end", "open_end", "close_wait", "close_drain"}

\* The rest of TypeOK: the flags of either side ..
FlagInv ==
  /\ rx_enable \in BOOLEAN /\ tx_enable \in BOOLEAN
  /\ int_enable \in BOOLEAN /\ int_status \in BOOLEAN
  /\ irq \in BOOLEAN /\ cont \in BOOLEAN

\* .. and where the driver is; open runs on a closed interface.
PcInv ==
  /\ pc \in Locations
  /\ pc \in {"open_fill", "open_end"} => ~up

IInv == RxInv /\ TxInv /\ FlagInv /\ PcInv

-----------------------------------------------------------------------------
\* The ring has at least four slots.
LEMMA RingFacts == Ring \in Int /\ Ring >= 4 /\ (Ring - 1) \div 2 >= 1
  BY RingAssumption

\* The position after a slot is a slot.
LEMMA SuccSlot == \A a \in Slot : succ(a) \in Slot /\ succ(a) # a
  BY RingFacts DEF succ, Slot

\* A slot is added at the end.
LEMMA Grows ==
  ASSUME NEW a \in Slot, NEW b \in Slot, succ(b) # a
  PROVE  Between(a, succ(b)) = Between(a, b) \cup {b}
  BY RingFacts DEF Between, succ, Slot

\* A slot is taken from the front.
LEMMA Shrinks ==
  ASSUME NEW a \in Slot, NEW b \in Slot, a # b
  PROVE  Between(succ(a), b) = Between(a, b) \ {a}
  BY RingFacts DEF Between, succ, Slot

\* Nothing is between a position and itself.
LEMMA Nothing == \A a \in Slot : Between(a, a) = {}
  BY RingFacts DEF Between, Slot

\* A position further on has fewer slots before the end.
LEMMA Later ==
  ASSUME NEW a \in Slot, NEW b \in Slot, NEW c \in Slot, Ahead(a, b) <= Ahead(a, c)
  PROVE  Between(b, c) \subseteq Between(a, c)
  BY RingFacts DEF Between, Ahead, Slot

\* The end moves on.
LEMMA EndMoves ==
  ASSUME NEW a \in Slot, NEW b \in Slot, NEW c \in Slot,
         Ahead(a, b) <= Ahead(a, c), succ(c) # a
  PROVE  Ahead(a, b) <= Ahead(a, succ(c)) /\ b # succ(c)
  BY RingFacts DEF Ahead, succ, Slot

\* The hardware moves on.
LEMMA MiddleMoves ==
  ASSUME NEW a \in Slot, NEW b \in Slot, NEW c \in Slot,
         Ahead(a, b) <= Ahead(a, c), b # c
  PROVE  Ahead(a, succ(b)) <= Ahead(a, c)
  BY RingFacts DEF Ahead, succ, Slot

\* The driver follows; there was something to follow to.
LEMMA StartMoves ==
  ASSUME NEW a \in Slot, NEW b \in Slot, NEW c \in Slot,
         Ahead(a, b) <= Ahead(a, c), a # b
  PROVE  Ahead(succ(a), b) <= Ahead(succ(a), c) /\ a # c
  BY RingFacts DEF Ahead, succ, Slot

\* Free in terms of positions.
LEMMA FreeFacts ==
  ASSUME NEW a \in Slot, NEW b \in Slot
  PROVE  /\ Free(a, b) # 0 <=> succ(a) # b
         /\ Enough(a, b) => Free(a, b) # 0
         /\ Ahead(a, a) = 0
         /\ Ahead(a, b) <= Ahead(a, a) => b = a
  BY RingFacts DEF Free, Enough, succ, Slot, Ahead

\* succ is injective.
LEMMA SuccOnce == \A a, b \in Slot : succ(a) = succ(b) => a = b
  BY RingFacts DEF succ, Slot

-----------------------------------------------------------------------------
\* Initially both rings are empty.
LEMMA InitInv == Init => IInv
<1> SUFFICES ASSUME Init PROVE IInv
  OBVIOUS
<1>1. 0 \in Slot /\ Between(0, 0) = {} /\ Ahead(0, 0) <= Ahead(0, 0)
  BY RingFacts, Nothing DEF Slot, Ahead
<1>2. Free(0, 0) # 0
  BY RingFacts DEF Free
<1>3. RxInv
  BY <1>1 DEF Init, RxInv
<1>4. TxInv
  BY <1>1, <1>2 DEF Init, TxInv
<1>5. FlagInv /\ PcInv
  BY DEF Init, FlagInv, PcInv, Locations
<1> QED
  BY <1>3, <1>4, <1>5 DEF IInv

\* The flags stay flags.
LEMMA FlagsKept == FlagInv /\ [Next]_vars => FlagInv'
<1> SUFFICES ASSUME FlagInv, [Next]_vars PROVE FlagInv'
  OBVIOUS
<1>1. CASE RxStart \/ RxEnd \/ TxStart \/ TxEnd
  BY <1>1 DEF RxStart, RxEnd, TxStart, TxEnd, FlagInv, controlVars
<1>2. CASE IrqTaken \/ Xmit \/ IsrLock \/ IsrClear \/ IsrRx
  BY <1>2 DEF IrqTaken, Xmit, IsrLock, IsrClear, IsrRx, FlagInv, controlVars
<1>3. CASE IsrTx \/ IsrEnd \/ MtuLock \/ MtuDispose \/ MtuEnd
  BY <1>3 DEF IsrTx, IsrEnd, MtuLock, MtuDispose, MtuEnd, FlagInv, controlVars
<1>4. CASE OpenLock \/ OpenEnd \/ CloseLock \/ CloseDispose
  BY <1>4 DEF OpenLock, OpenEnd, CloseLock, CloseDispose, FlagInv, controlVars
<1>5. CASE CloseDrain \/ CloseEnd \/ AddBuffer \/ Filled
  BY <1>5 DEF CloseDrain, CloseEnd, AddBuffer, Filled, FlagInv, controlVars
<1>6. CASE UNCHANGED vars
  BY <1>6 DEF vars, FlagInv, controlVars
<1> QED
  BY <1>1, <1>2, <1>3, <1>4, <1>5, <1>6 DEF Next, Holder

\* The driver is at one of its places.
LEMMA PcKept == PcInv /\ [Next]_vars => PcInv'
<1> SUFFICES ASSUME PcInv, [Next]_vars PROVE PcInv'
  OBVIOUS
<1>1. CASE RxStart \/ RxEnd \/ TxStart \/ TxEnd
  BY <1>1 DEF RxStart, RxEnd, TxStart, TxEnd, PcInv, Locations, Fills
<1>2. CASE IrqTaken \/ Xmit \/ IsrLock \/ IsrClear \/ IsrRx
  BY <1>2 DEF IrqTaken, Xmit, IsrLock, IsrClear, IsrRx, PcInv, Locations, Fills
<1>3. CASE IsrTx \/ IsrEnd \/ MtuLock \/ MtuDispose \/ MtuEnd
  BY <1>3 DEF IsrTx, IsrEnd, MtuLock, MtuDispose, MtuEnd, PcInv, Locations, Fills
<1>4. CASE OpenLock \/ OpenEnd \/ CloseLock \/ CloseDispose
  BY <1>4 DEF OpenLock, OpenEnd, CloseLock, CloseDispose, PcInv, Locations, Fills
<1>5. CASE CloseDrain \/ CloseEnd \/ AddBuffer \/ Filled
  BY <1>5 DEF CloseDrain, CloseEnd, AddBuffer, Filled, PcInv, Locations, Fills
<1>6. CASE UNCHANGED vars
  BY <1>6 DEF vars, PcInv, Locations, Fills
<1> QED
  BY <1>1, <1>2, <1>3, <1>4, <1>5, <1>6 DEF Next, Holder

rxState == <<rxVars, rx_pkt_out, rx_start>>
txRing == <<txVars, tx_pkt_out, tx_start, stopped, up>>

Closing == pc \in {"close_wait", "close_drain"}

TxAlone == UNCHANGED txRing /\ (Closing => Closing')

\* What does not touch the receive ring.
LEMMA RxUnchanged == RxInv /\ UNCHANGED rxState => RxInv'
  BY DEF RxInv, rxState, rxVars, Between, Ahead, Slot

\* The receive ring: added to, used, taken from and emptied.
LEMMA RxKept == RxInv /\ [Next]_vars => RxInv'
<1> SUFFICES ASSUME RxInv, [Next]_vars PROVE RxInv'
  OBVIOUS
<1>1. CASE AddBuffer
  <2>1. rx_ring' = Between(rx_out, succ(rx_inp))
    BY <1>1, Grows DEF AddBuffer, RxInv
  <2>2. Ahead(rx_out, rx_pkt_out) <= Ahead(rx_out, succ(rx_inp)) /\ rx_pkt_out # succ(rx_inp)
    BY <1>1, EndMoves DEF AddBuffer, RxInv
  <2>3. UNCHANGED <<rx_out, rx_pkt_out, rx_start>> /\ rx_inp' = succ(rx_inp)
    BY <1>1 DEF AddBuffer, hwVars
  <2> QED
    BY <2>1, <2>2, <2>3, SuccSlot DEF RxInv, Between, Ahead, Slot
<1>2. CASE RxStart
  BY <1>2 DEF RxStart, RxInv, rxVars, Between, Ahead, Slot
<1>3. CASE RxEnd
  <2>1. Ahead(rx_out, succ(rx_pkt_out)) <= Ahead(rx_out, rx_inp)
    BY <1>3, MiddleMoves DEF RxEnd, RxInv
  <2>2. UNCHANGED rxVars /\ rx_pkt_out' = succ(rx_pkt_out) /\ rx_start' = FALSE
    BY <1>3 DEF RxEnd
  <2> QED
    BY <2>1, <2>2, SuccSlot DEF RxInv, rxVars, Between, Ahead, Slot
<1>4. CASE IsrRx
  <2>1. CASE rx_out = rx_pkt_out
    BY <1>4, <2>1, RxUnchanged DEF IsrRx, rxState, rxVars, hwVars
  <2>2. CASE rx_out # rx_pkt_out
    <3>1. Ahead(succ(rx_out), rx_pkt_out) <= Ahead(succ(rx_out), rx_inp) /\ rx_out # rx_inp
      BY <2>2, StartMoves DEF RxInv
    <3>2. rx_ring' = Between(succ(rx_out), rx_inp)
      BY <1>4, <2>2, <3>1, Shrinks DEF IsrRx, RxInv
    <3>3. UNCHANGED <<rx_inp, rx_pkt_out, rx_start>> /\ rx_out' = succ(rx_out)
      BY <1>4, <2>2 DEF IsrRx, hwVars
    <3> QED
      BY <3>1, <3>2, <3>3, SuccSlot DEF RxInv, Between, Ahead, Slot
  <2> QED
    BY <2>1, <2>2
<1>5. CASE MtuDispose \/ CloseDispose
  <2>1. /\ ~rx_start /\ UNCHANGED <<rx_inp, rx_start>>
        /\ rx_out' = rx_inp /\ rx_pkt_out' = rx_inp /\ rx_ring' = {}
    BY <1>5 DEF MtuDispose, CloseDispose, Dispose, RxQuiet, RxInv
  <2> QED
    BY <2>1, Nothing DEF RxInv, Between, Ahead, Slot
<1>6. CASE UNCHANGED rxState
  BY <1>6, RxUnchanged
<1>7. \/ AddBuffer \/ RxStart \/ RxEnd \/ IsrRx \/ MtuDispose \/ CloseDispose
      \/ UNCHANGED rxState
  <2>1. CASE TxStart \/ TxEnd \/ IrqTaken \/ Xmit \/ IsrLock \/ MtuLock \/ OpenLock \/ CloseLock
    BY <2>1 DEF TxStart, TxEnd, IrqTaken, Xmit, IsrLock, MtuLock, OpenLock,
                CloseLock, rxState, rxVars, hwVars
  <2>2. CASE Filled \/ IsrClear \/ IsrTx \/ IsrEnd \/ MtuEnd \/ OpenEnd \/ CloseDrain \/ CloseEnd
    BY <2>2 DEF Filled, IsrClear, IsrTx, IsrEnd, MtuEnd, OpenEnd, CloseDrain,
                CloseEnd, rxState, rxVars, hwVars
  <2>3. CASE UNCHANGED vars
    BY <2>3 DEF vars, rxState, rxVars, hwVars
  <2> QED
    BY <2>1, <2>2, <2>3 DEF Next, Holder
<1> QED
  BY <1>1, <1>2, <1>3, <1>4, <1>5, <1>6, <1>7

\* What does not touch the transmit ring and does not leave a close.
LEMMA TxUnchanged == TxInv /\ TxAlone => TxInv'
  BY DEF TxInv, TxAlone, txRing, txVars, Closing, Between, Ahead, Free, Slot

\* The driver puts away a packet.
LEMMA TxDoneKeeps ==
  ASSUME TxInv, tx_out # tx_pkt_out, TxDone, up \/ Closing,
         UNCHANGED <<tx_inp, tx_pkt_out, tx_start, stopped, up>>, up \/ Closing'
  PROVE  TxInv'
<1>1. Ahead(succ(tx_out), tx_pkt_out) <= Ahead(succ(tx_out), tx_inp) /\ tx_out # tx_inp
  BY StartMoves DEF TxInv
<1>2. tx_ring' = Between(succ(tx_out), tx_inp)
  BY <1>1, Shrinks DEF TxDone, TxInv
<1>3. succ(tx_out) \in Slot /\ Free(tx_inp, succ(tx_out)) # 0
  BY <1>1, SuccSlot, SuccOnce, FreeFacts DEF TxInv
<1>4. tx_out' = succ(tx_out)
  BY DEF TxDone
<1> QED
  BY <1>1, <1>2, <1>3, <1>4 DEF TxInv, Closing, Between, Ahead, Free, Slot

\* The transmit ring: added to, sent, taken from, and drained by a close; the
\* queue is stopped when it is full and woken only when it is not.
LEMMA TxKept == TxInv /\ PcInv /\ [Next]_vars => TxInv'
<1> SUFFICES ASSUME TxInv, PcInv, [Next]_vars PROVE TxInv'
  OBVIOUS
<1>1. CASE Xmit
  <2>1. Free(tx_inp, tx_out) # 0 /\ succ(tx_inp) # tx_out
    BY <1>1, FreeFacts DEF Xmit, TxInv
  <2>2. tx_ring' = Between(tx_out, succ(tx_inp))
    BY <1>1, <2>1, Grows DEF Xmit, TxInv
  <2>3. Ahead(tx_out, tx_pkt_out) <= Ahead(tx_out, succ(tx_inp)) /\ tx_pkt_out # succ(tx_inp)
    BY <2>1, EndMoves DEF TxInv
  <2>4. /\ UNCHANGED <<tx_out, tx_pkt_out, tx_start, up>> /\ tx_inp' = succ(tx_inp)
        /\ up /\ stopped' = (Free(succ(tx_inp), tx_out) = 0)
    BY <1>1 DEF Xmit, hwVars
  <2>5. tx_inp' \in Slot /\ (~stopped' => Free(tx_inp', tx_out') # 0) /\ stopped' \in BOOLEAN
    BY <2>4, SuccSlot DEF TxInv
  <2> QED
    BY <2>2, <2>3, <2>4, <2>5 DEF TxInv, Between, Ahead, Slot
<1>2. CASE TxStart
  BY <1>2 DEF TxStart, TxInv, txVars, Between, Ahead, Free, Slot
<1>3. CASE TxEnd
  <2>1. Ahead(tx_out, succ(tx_pkt_out)) <= Ahead(tx_out, tx_inp)
    BY <1>3, MiddleMoves DEF TxEnd, TxInv
  <2>2. /\ UNCHANGED <<txVars, stopped, up, pc>>
        /\ tx_pkt_out' = succ(tx_pkt_out) /\ tx_start' = FALSE
    BY <1>3 DEF TxEnd
  <2> QED
    BY <2>1, <2>2, SuccSlot DEF TxInv, txVars, Between, Ahead, Free, Slot
<1>4. CASE IsrTx
  <2>1. CASE tx_out = tx_pkt_out
    BY <1>4, <2>1, TxUnchanged DEF IsrTx, TxAlone, txRing, txVars, hwVars, Closing
  <2>2. CASE tx_out # tx_pkt_out
    <3>1. tx_out # tx_inp
      BY <2>2, StartMoves DEF TxInv
    <3>2. up
      BY <1>4, <3>1 DEF IsrTx, TxInv
    <3> QED
      BY <1>4, <2>2, <3>2, TxDoneKeeps DEF IsrTx, hwVars
  <2> QED
    BY <2>1, <2>2
<1>5. CASE CloseDrain
  BY <1>5, TxDoneKeeps DEF CloseDrain, hwVars, Closing
<1>6. CASE IsrEnd
  <2>1. UNCHANGED <<txVars, tx_pkt_out, tx_start, up>> /\ ~Closing
    BY <1>6 DEF IsrEnd, hwVars, Closing
  <2>2. stopped' \in BOOLEAN /\ (~stopped' => Free(tx_inp, tx_out) # 0)
    BY <1>6, FreeFacts DEF IsrEnd, TxInv
  <2> QED
    BY <2>1, <2>2 DEF TxInv, txVars, Closing, Between, Ahead, Free, Slot
<1>7. CASE OpenEnd
  <2>1. tx_out = tx_inp /\ Free(tx_inp, tx_out) # 0
    <3>1. ~up /\ pc = "open_end"
      BY <1>7 DEF OpenEnd, PcInv
    <3>2. tx_out = tx_inp
      BY <3>1 DEF TxInv
    <3> QED
      BY <3>2, SuccSlot, FreeFacts DEF TxInv
  <2>2. UNCHANGED <<txVars, tx_pkt_out, tx_start>> /\ stopped' = FALSE /\ up' = TRUE
    BY <1>7 DEF OpenEnd, hwVars
  <2> QED
    BY <2>1, <2>2 DEF TxInv, txVars, Between, Ahead, Free, Slot
<1>8. CASE CloseEnd
  <2>1. tx_pkt_out = tx_inp /\ ~tx_start
    BY <1>8, FreeFacts DEF CloseEnd, TxInv
  <2>2. UNCHANGED <<txVars, tx_start, stopped, up>> /\ tx_pkt_out' = tx_out /\ tx_out = tx_inp
    BY <1>8 DEF CloseEnd
  <2> QED
    BY <2>1, <2>2 DEF TxInv, txVars, Between, Ahead, Free, Slot
<1>9. CASE CloseLock
  BY <1>9 DEF CloseLock, TxInv, txVars, hwVars, Between, Ahead, Free, Slot
<1>10. CASE TxAlone
  BY <1>10, TxUnchanged
<1>11. \/ Xmit \/ TxStart \/ TxEnd \/ IsrTx \/ CloseDrain \/ IsrEnd \/ OpenEnd
       \/ CloseEnd \/ CloseLock \/ TxAlone
  <2>1. CASE RxStart \/ RxEnd \/ IrqTaken \/ IsrLock \/ MtuLock \/ OpenLock
    BY <2>1 DEF RxStart, RxEnd, IrqTaken, IsrLock, MtuLock, OpenLock,
                TxAlone, Closing, txRing, txVars, hwVars
  <2>2. CASE AddBuffer \/ Filled \/ IsrClear \/ IsrRx \/ MtuDispose \/ MtuEnd \/ CloseDispose
    BY <2>2 DEF AddBuffer, Filled, IsrClear, IsrRx, MtuDispose, MtuEnd,
                CloseDispose, Fills, TxAlone, Closing, txRing, txVars, hwVars
  <2>3. CASE UNCHANGED vars
    BY <2>3 DEF vars, TxAlone, Closing, txRing, txVars, hwVars
  <2> QED
    BY <2>1, <2>2, <2>3 DEF Next, Holder
<1> QED
  BY <1>1, <1>2, <1>3, <1>4, <1>5, <1>6, <1>7, <1>8, <1>9, <1>10, <1>11

-----------------------------------------------------------------------------
\* The inductive invariant.
LEMMA Inductive == Spec => []IInv
<1>1. IInv /\ [Next]_vars => IInv'
  BY FlagsKept, PcKept, RxKept, TxKept DEF IInv
<1> QED
  BY InitInv, <1>1, PTL DEF Spec

\* Driver and hardware keep their positions in the rings and their registers
\* in range (ring_mask, line 338 of fpga-axi-eth.c), for every ring.
THEOREM TypeCorrect == Spec => []TypeOK
<1>1. IInv => TypeOK
  BY DEF IInv, RxInv, TxInv, FlagInv, PcInv, Locations, TypeOK, Between
<1> QED
  BY Inductive, <1>1, PTL

\* For every ring: what the hardware may use is mapped, the driver frees each
\* buffer once and none too early, and a packet finds a descriptor, whatever
\* xmit, the interrupt handler, open, close, change_mtu and the hardware do
\* when, and also when a close is asked for with packets waiting.
THEOREM BuffersOwned == Spec => []RingsOwned
<1>1. IInv => RingsOwned
  BY Later DEF IInv, RxInv, TxInv, RingsOwned, Held, Owned, QueueHasRoom
<1> QED
  BY Inductive, <1>1, PTL
=============================================================================
