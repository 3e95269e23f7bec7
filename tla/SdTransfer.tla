----------------------------- MODULE SdTransfer -----------------------------
(***************************************************************************)
(* What the data path of the SD controller promises to a driver, for one   *)
(* transfer at a time: words arrive one by one and never twice; "complete" *)
(* without an error means that every word arrived and that the bus is      *)
(* quiet, and quiet it stays until the next transfer.  An error may be     *)
(* reported at any time, and then the bus may still be busy: the           *)
(* "complete" bit of a failed transfer appears only when it no longer is.  *)
(***************************************************************************)
EXTENDS Naturals

CONSTANT Words  \* of one transfer

VARIABLES
  running,  \* a transfer was started and has not ended
  moved,    \* words that reached their place
  dma,      \* an AXI transaction is outstanding
  status    \* the status bits, as a driver reads them

tvars == <<running, moved, dma, status>>

TInit ==
  /\ running = FALSE /\ moved = 0 /\ dma = FALSE /\ status = {}

\* A command with data.
TStart ==
  /\ ~running /\ ~dma /\ status = {}
  /\ running' = TRUE /\ moved' = 0
  /\ UNCHANGED <<dma, status>>

\* One word, or none, and whatever the bus does meanwhile.
TMove ==
  /\ running \/ dma \/ "EI" \in status
  /\ moved' \in {moved, moved + 1}
  /\ moved' <= Words
  /\ dma' \in BOOLEAN
  /\ UNCHANGED <<running, status>>

TFinish ==
  /\ running
  /\ moved = Words
  /\ running' = FALSE
  /\ dma' = FALSE
  /\ status' = {"CC"}
  /\ UNCHANGED moved

\* A CRC or bus error, a FIFO error or a timeout ends the transfer.  The bus
\* goes on, unless it comes to rest just then.
TFail ==
  /\ running
  /\ running' = FALSE
  /\ \E bad \in SUBSET {"CCRCE", "CBE", "CFE", "CTE"} :
       bad # {} /\ status' = {"EI"} \cup bad
  /\ moved' \in {moved, moved + 1}
  /\ moved' <= Words
  /\ dma' \in {FALSE, dma}

\* The bus of a failed transfer has come to rest.
TSettle ==
  /\ "EI" \in status
  /\ dma' = FALSE
  /\ status' = status \cup {"CC"}
  /\ UNCHANGED <<running, moved>>

\* A word of a failed transfer may still be on its way.
TClear ==
  /\ status # {}
  /\ status' = {}
  /\ moved' = moved \/ ("EI" \in status /\ moved' = moved + 1)
  /\ moved' <= Words
  /\ dma' \in {FALSE, dma}
  /\ UNCHANGED running

TNext == TStart \/ TMove \/ TFinish \/ TFail \/ TSettle \/ TClear

TSpec == TInit /\ [][TNext]_tvars
=============================================================================
