------------------------------ MODULE EthHost -------------------------------
(***************************************************************************)
(* The Linux driver of the Ethernet controller (fpga-axi-eth.c) with the   *)
(* descriptor rings and the interrupt of ethernet.v.  priv->lock keeps     *)
(* xmit, the interrupt handler, open, close and change_mtu apart; what one *)
(* of them does between two accesses to what the hardware changes is a     *)
(* step, and the hardware takes its own steps in between.                  *)
(*                                                                         *)
(* A slot of a ring holds a mapped buffer or not.  The driver writes its   *)
(* rx_inp and tx_inp and those of the hardware in one statement, so that   *)
(* each is one variable; rx_out and tx_out are the driver's.  How a frame  *)
(* gets in and out of its buffer is EthDma's.                              *)
(***************************************************************************)
EXTENDS Integers

CONSTANTS
  Ring,        \* descriptors of a ring, ring_mask + 1
  CloseQueued  \* bound: the interface is closed also while packets wait

\* With two descriptors a full ring would be woken at once.
ASSUME RingAssumption ==
  Ring \in Nat /\ Ring >= 4 /\ CloseQueued \in BOOLEAN

VARIABLES
  rx_inp, tx_inp,
  rx_pkt_out, tx_pkt_out,   \* the hardware's
  rx_start, tx_start,       \* a frame is on its way
  rx_enable, tx_enable, int_enable,
  int_status,               \* rx_int or tx_int
  rx_ring, tx_ring,         \* the slots that hold a buffer
  rx_out, tx_out,
  stopped,                  \* netif_queue_stopped
  up,                       \* the stack may call xmit
  irq,                      \* a processor is in axi_eth_isr, before the lock
  pc,                       \* where the holder of the lock is
  cont                      \* of axi_eth_isr

hwVars == <<rx_pkt_out, tx_pkt_out, rx_start, tx_start>>
controlVars == <<rx_enable, tx_enable, int_enable>>
rxVars == <<rx_inp, rx_out, rx_ring>>
txVars == <<tx_inp, tx_out, tx_ring>>
vars == <<hwVars, controlVars, int_status, rxVars, txVars, stopped, up, irq,
          pc, cont>>

Slot == 0 .. Ring - 1

\* Mutant: the ring mask is forgotten.
succ_Unmasked(i) == i + 1

succ(i) == IF i = Ring - 1 THEN 0 ELSE i + 1

\* The slots from a up to b.
Between(a, b) ==
  IF a <= b THEN {s \in Slot : a <= s /\ s < b} ELSE {s \in Slot : s < b \/ a <= s}

\* tx_ring_free
Free(inp, out) == IF out > inp THEN out - inp - 1 ELSE out - inp - 1 + Ring

Enough(inp, out) == Free(inp, out) >= (Ring - 1) \div 2

Fills == {"isr_fill", "mtu_fill", "open_fill"}

-----------------------------------------------------------------------------
(* The hardware.                                                           *)

\* A frame comes and there is a descriptor for it.
RxStart ==
  /\ rx_enable /\ ~rx_start /\ rx_inp # rx_pkt_out
  /\ rx_start' = TRUE
  /\ UNCHANGED <<rx_pkt_out, tx_pkt_out, tx_start, controlVars, int_status,
                 rxVars, txVars, stopped, up, irq, pc, cont>>

RxEnd ==
  /\ rx_start
  /\ rx_start' = FALSE /\ rx_pkt_out' = succ(rx_pkt_out) /\ int_status' = TRUE
  /\ UNCHANGED <<tx_pkt_out, tx_start, controlVars, rxVars, txVars, stopped,
                 up, irq, pc, cont>>

TxStart ==
  /\ tx_enable /\ ~tx_start /\ tx_inp # tx_pkt_out
  /\ tx_start' = TRUE
  /\ UNCHANGED <<rx_pkt_out, tx_pkt_out, rx_start, controlVars, int_status,
                 rxVars, txVars, stopped, up, irq, pc, cont>>

TxEnd ==
  /\ tx_start
  /\ tx_start' = FALSE /\ tx_pkt_out' = succ(tx_pkt_out) /\ int_status' = TRUE
  /\ UNCHANGED <<rx_pkt_out, rx_start, controlVars, rxVars, txVars, stopped,
                 up, irq, pc, cont>>

\* The interrupt is a level; a processor takes it and waits for the lock.
IrqTaken ==
  /\ int_enable /\ int_status /\ ~irq
  /\ pc \notin {"isr_fill", "isr_rx", "isr_clear", "isr_tx", "isr_end"}
  /\ irq' = TRUE
  /\ UNCHANGED <<hwVars, controlVars, int_status, rxVars, txVars, stopped, up,
                 pc, cont>>

-----------------------------------------------------------------------------
(* axi_eth_add_rx_buffers, called from three places.                       *)

AddBuffer ==
  /\ pc \in Fills /\ succ(rx_inp) # rx_out
  /\ rx_ring' = rx_ring \cup {rx_inp} /\ rx_inp' = succ(rx_inp)
  /\ UNCHANGED <<hwVars, controlVars, int_status, rx_out, txVars, stopped, up,
                 irq, pc, cont>>

\* The ring is full, or there is no memory.
Filled ==
  /\ pc \in Fills
  /\ pc' = CASE pc = "isr_fill" -> "isr_clear"
             [] pc = "mtu_fill" -> "mtu_end"
             [] pc = "open_fill" -> "open_end"
  /\ UNCHANGED <<hwVars, controlVars, int_status, rxVars, txVars, stopped, up,
                 irq, cont>>

-----------------------------------------------------------------------------
(* axi_eth_xmit.  QueueHasRoom says that its ring is never full; a packet  *)
(* that is dropped changes nothing here.                                   *)
Xmit ==
  /\ pc = "idle" /\ up /\ ~stopped
  /\ tx_ring' = tx_ring \cup {tx_inp} /\ tx_inp' = succ(tx_inp)
  /\ stopped' = (Free(tx_inp', tx_out) = 0)
  /\ UNCHANGED <<hwVars, controlVars, int_status, rxVars, tx_out, up, irq, pc,
                 cont>>

-----------------------------------------------------------------------------
(* axi_eth_isr.                                                            *)

IsrLock ==
  /\ irq /\ pc = "idle"
  /\ irq' = FALSE /\ pc' = "isr_fill" /\ cont' = FALSE
  /\ UNCHANGED <<hwVars, controlVars, int_status, rxVars, txVars, stopped, up>>

IsrClear ==
  /\ pc = "isr_clear"
  /\ int_status' = FALSE /\ pc' = "isr_rx"
  /\ UNCHANGED <<hwVars, controlVars, rxVars, txVars, stopped, up, irq, cont>>

\* axi_eth_rx_done, for one frame; good or bad, its buffer leaves the ring.
IsrRx ==
  /\ pc = "isr_rx" /\ pc' = "isr_tx"
  /\ IF rx_out # rx_pkt_out
     THEN /\ rx_ring' = rx_ring \ {rx_out} /\ rx_out' = succ(rx_out)
          /\ cont' = TRUE
     ELSE cont' = FALSE /\ UNCHANGED <<rx_ring, rx_out>>
  /\ UNCHANGED <<hwVars, controlVars, int_status, rx_inp, txVars, stopped, up,
                 irq>>

\* axi_eth_tx_done, for one packet.
TxDone == tx_ring' = tx_ring \ {tx_out} /\ tx_out' = succ(tx_out)

IsrTx ==
  /\ pc = "isr_tx"
  /\ IF tx_out # tx_pkt_out
     THEN TxDone /\ pc' = "isr_fill"
     ELSE pc' = (IF cont THEN "isr_fill" ELSE "isr_end") /\ UNCHANGED <<tx_ring, tx_out>>
  /\ UNCHANGED <<hwVars, controlVars, int_status, rxVars, tx_inp, stopped, up,
                 irq, cont>>

\* Mutant: the interrupt is acknowledged on the way out, too.
IsrEnd_Clears ==
  /\ pc = "isr_end" /\ pc' = "idle"
  /\ stopped' = (stopped /\ ~Enough(tx_inp, tx_out))
  /\ int_status' = FALSE
  /\ UNCHANGED <<hwVars, controlVars, rxVars, txVars, up, irq, cont>>

IsrEnd ==
  /\ pc = "isr_end" /\ pc' = "idle"
  /\ stopped' = (stopped /\ ~Enough(tx_inp, tx_out))
  /\ UNCHANGED <<hwVars, controlVars, int_status, rxVars, txVars, up, irq, cont>>

-----------------------------------------------------------------------------
(* axi_eth_change_mtu, to a larger one: all receive buffers are replaced.  *)

\* Mutant: the frame that is being received is not waited for.
RxQuiet_Early == ~rx_enable

RxQuiet == ~rx_start

\* The receive ring is emptied, and the hardware told so.
Dispose ==
  /\ rx_ring' = rx_ring \ Between(rx_out, rx_inp)
  /\ rx_out' = rx_inp /\ rx_pkt_out' = rx_inp

MtuLock ==
  /\ pc = "idle" /\ pc' = "mtu_wait"
  /\ rx_enable' = FALSE
  /\ UNCHANGED <<hwVars, tx_enable, int_enable, int_status, rxVars, txVars,
                 stopped, up, irq, cont>>

MtuDispose ==
  /\ pc = "mtu_wait" /\ RxQuiet
  /\ Dispose
  /\ pc' = "mtu_fill"
  /\ UNCHANGED <<tx_pkt_out, rx_start, tx_start, controlVars, int_status,
                 rx_inp, txVars, stopped, up, irq, cont>>

\* It enables the receiver of a closed interface as well.
MtuEnd ==
  /\ pc = "mtu_end" /\ pc' = "idle"
  /\ rx_enable' = TRUE
  /\ UNCHANGED <<hwVars, tx_enable, int_enable, int_status, rxVars, txVars,
                 stopped, up, irq, cont>>

-----------------------------------------------------------------------------
(* axi_eth_dev_open, axi_eth_dev_close.                                    *)

OpenLock ==
  /\ pc = "idle" /\ ~up
  /\ pc' = "open_fill"
  /\ UNCHANGED <<hwVars, controlVars, int_status, rxVars, txVars, stopped, up,
                 irq, cont>>

OpenEnd ==
  /\ pc = "open_end" /\ pc' = "idle"
  /\ int_enable' = TRUE /\ rx_enable' = TRUE /\ tx_enable' = TRUE
  /\ stopped' = FALSE /\ up' = TRUE
  /\ UNCHANGED <<hwVars, int_status, rxVars, txVars, irq, cont>>

\* The stack lets no xmit begin any more before it calls close.
CloseLock ==
  /\ pc = "idle" /\ up
  /\ CloseQueued \/ tx_pkt_out = tx_inp
  /\ pc' = "close_wait" /\ up' = FALSE
  /\ int_enable' = FALSE /\ rx_enable' = FALSE /\ tx_enable' = FALSE
  /\ UNCHANGED <<hwVars, int_status, rxVars, txVars, stopped, irq, cont>>

CloseDispose ==
  /\ pc = "close_wait" /\ RxQuiet /\ ~tx_start
  /\ Dispose
  /\ pc' = "close_drain"
  /\ UNCHANGED <<tx_pkt_out, rx_start, tx_start, controlVars, int_status,
                 rx_inp, txVars, stopped, up, irq, cont>>

\* It polls tx_pkt_out for each packet that was queued.
CloseDrain ==
  /\ pc = "close_drain" /\ tx_out # tx_inp /\ tx_out # tx_pkt_out
  /\ TxDone
  /\ UNCHANGED <<hwVars, controlVars, int_status, rxVars, tx_inp, stopped, up,
                 irq, pc, cont>>

CloseEnd ==
  /\ pc = "close_drain" /\ tx_out = tx_inp
  /\ tx_pkt_out' = tx_out
  /\ pc' = "idle"
  /\ UNCHANGED <<rx_pkt_out, rx_start, tx_start, controlVars, int_status,
                 rxVars, txVars, stopped, up, irq, cont>>

-----------------------------------------------------------------------------
Init ==
  /\ rx_inp = 0 /\ tx_inp = 0 /\ rx_pkt_out = 0 /\ tx_pkt_out = 0
  /\ rx_start = FALSE /\ tx_start = FALSE
  /\ rx_enable = FALSE /\ tx_enable = FALSE /\ int_enable = FALSE
  /\ int_status = FALSE
  /\ rx_ring = {} /\ tx_ring = {} /\ rx_out = 0 /\ tx_out = 0
  /\ stopped = FALSE /\ up = FALSE /\ irq = FALSE
  /\ pc = "idle" /\ cont = FALSE

\* What the holder of the lock does next.
Holder ==
  \/ AddBuffer \/ Filled
  \/ IsrClear \/ IsrRx \/ IsrTx \/ IsrEnd
  \/ MtuDispose \/ MtuEnd
  \/ OpenEnd
  \/ CloseDispose \/ CloseDrain \/ CloseEnd

Next ==
  \/ RxStart \/ RxEnd \/ TxStart \/ TxEnd \/ IrqTaken
  \/ Xmit \/ IsrLock \/ MtuLock \/ OpenLock \/ CloseLock
  \/ Holder

Spec == Init /\ [][Next]_vars

\* Frames end, packets are sent, interrupts are taken; who holds the lock goes
\* on, and the spin lock is fair to the handler.  Nothing is assumed of when
\* frames come, or of what the stack does.
FairSpec ==
  /\ Spec
  /\ WF_vars(RxEnd) /\ WF_vars(TxStart) /\ WF_vars(TxEnd)
  /\ WF_vars(IrqTaken) /\ WF_vars(Holder) /\ SF_vars(IsrLock)

-----------------------------------------------------------------------------
\* The registers and positions stay in range.
TypeOK ==
  /\ rx_inp \in Slot /\ rx_pkt_out \in Slot /\ rx_out \in Slot
  /\ tx_inp \in Slot /\ tx_pkt_out \in Slot /\ tx_out \in Slot
  /\ rx_start \in BOOLEAN /\ tx_start \in BOOLEAN
  /\ rx_enable \in BOOLEAN /\ tx_enable \in BOOLEAN
  /\ int_enable \in BOOLEAN /\ int_status \in BOOLEAN
  /\ rx_ring \subseteq Slot /\ tx_ring \subseteq Slot
  /\ stopped \in BOOLEAN /\ up \in BOOLEAN
  /\ irq \in BOOLEAN /\ cont \in BOOLEAN
  /\ pc \in Fills \cup {"idle", "isr_clear", "isr_rx", "isr_tx", "isr_end",
                        "mtu_wait", "mtu_end", "open_end", "close_wait",
                        "close_drain"}

\* The slots that hold a buffer are those between the driver's positions:
\* nothing is leaked, freed twice or overwritten.
Held ==
  /\ rx_ring = Between(rx_out, rx_inp)
  /\ tx_ring = Between(tx_out, tx_inp)

\* What the hardware may still use is mapped; with a frame on its way its
\* descriptor is one of them.
Owned ==
  /\ Between(rx_pkt_out, rx_inp) \subseteq rx_ring
  /\ Between(tx_pkt_out, tx_inp) \subseteq tx_ring
  /\ rx_start => rx_pkt_out # rx_inp
  /\ tx_start => tx_pkt_out # tx_inp

\* A packet always finds room: xmit (line 336) never polls for it.
QueueHasRoom == ~stopped => Free(tx_inp, tx_out) # 0

\* No DMA into memory that was given back, no buffer lost, no packet without
\* a descriptor, whatever open, close, change_mtu, xmit, the interrupt handler
\* and the hardware do when.
RingsOwned == Held /\ Owned /\ QueueHasRoom

\* Close comes to its end: it waits for what is active only (line 592).
CloseEnds == pc \in {"close_wait", "close_drain"} ~> pc = "idle"

\* When the interrupt handler gets to its end (it stays while frames come), no
\* interrupt is lost: a queue that was stopped goes on, and a frame that was
\* received is handed over, up to a close.
Wakes ==
  []<>(pc = "idle") =>
    /\ stopped ~> ~stopped \/ ~up
    /\ \A s \in Slot :
         s \in Between(rx_out, rx_pkt_out) ~> s \notin Between(rx_out, rx_pkt_out) \/ ~up

Flows == CloseEnds /\ Wakes
=============================================================================
