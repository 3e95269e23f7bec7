------------------------------- MODULE EthDma ------------------------------
(***************************************************************************)
(* Both directions of ethernet.v.  They share no register, so that one at  *)
(* a time is enough: the other is not enabled.                             *)
(***************************************************************************)
EXTENDS EthTx, EthRx

VARIABLE way  \* bound: the direction that is enabled

vars == <<unit, way, txVars, rxVars>>

Init == unit \in Units /\ way \in {"tx", "rx"} /\ TxInit /\ RxInit

Next ==
  /\ UNCHANGED <<unit, way>>
  /\ \/ way = "tx" /\ TxNext /\ UNCHANGED rxVars
     \/ way = "rx" /\ RxNext /\ UNCHANGED txVars

Spec == Init /\ [][Next]_vars

\* The MAC gives and takes, the bus answers.
FairSpec ==
  /\ Spec
  /\ WF_vars(way = "tx" /\ TxOwed /\ UNCHANGED <<unit, way, rxVars>>)
  /\ WF_vars(way = "rx" /\ RxOwed /\ UNCHANGED <<unit, way, txVars>>)

-----------------------------------------------------------------------------
\* Neither FIFO overfills (lines 395 and 543): a word that comes on a full
\* one would empty it.
FifosHold == Len(tx_buf) < Fifo /\ Len(rx_buf) < Fifo

\* What goes over the bus is what the descriptor allows: no burst crosses a
\* page (lines 410 and 551), what is read holds bytes of the packet and finds
\* room, and what is written are bytes of the buffer, however long the frame
\* (line 541).
BusSafe == FifosHold /\ TxBurstOK /\ RxBurstOK /\ RxInBuffer

\* Every packet and every frame that was started is finished and the ring
\* moves on: tx_start and rx_start fall (lines 368 and 375).
Ends == TxEnds /\ RxEnds
=============================================================================
