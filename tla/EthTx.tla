------------------------------- MODULE EthTx -------------------------------
(***************************************************************************)
(* The transmit DMA of ethernet.v: it reads the packet of a descriptor     *)
(* over AXI in bursts, moves it to the alignment of the stream, and gives  *)
(* it to the MAC through a FIFO.  A step is one clock.                     *)
(*                                                                         *)
(* tx_buf is the FIFO from tx_burst_out to tx_burst_inp.  The slave that   *)
(* is read takes the address at once and delivers each beat at any clock;  *)
(* m_axi_rd_err only shows in a status register no driver reads.           *)
(***************************************************************************)
EXTENDS EthBus

VARIABLES
  tx_start, tx_axis_start, tx_axis_stop, tx_m_axi_stop,
  tx_buf, tx_burst_head, tx_burst_tail,
  tx_pkt_addr, tx_pkt_size, tx_pkt_offs, tx_word_left, tx_axis_byte_offs,
  r_adr, r_left,  \* the burst being read: next address, beats to come
  sent            \* history: bytes of the packet the MAC took

txDesc == <<tx_pkt_addr, tx_pkt_size>>
txBurst == <<r_adr, r_left>>
txVars == <<tx_start, tx_axis_start, tx_axis_stop, tx_m_axi_stop, tx_buf,
            tx_burst_head, tx_burst_tail, txDesc, tx_pkt_offs, tx_word_left,
            tx_axis_byte_offs, txBurst, sent>>

m_axi_rd_cyc == r_left > 0

tx_burst_free_len == Fifo - 1 - Len(tx_buf)

shift == tx_pkt_addr % Word

byte_last == LET last == (tx_pkt_size + Word - unit) % Word IN last - (last % unit)

-----------------------------------------------------------------------------
(* The stream to the MAC.                                                  *)

tx_axis_tvalid == tx_buf # <<>>

\* Mutant: the word that waits in tx_burst_head is not thought of.
tx_axis_tlast_NoTail ==
  tx_m_axi_stop /\ Len(tx_buf) = 1 /\ tx_axis_byte_offs = byte_last

tx_axis_tlast ==
  /\ tx_m_axi_stop /\ ~tx_burst_tail
  /\ Len(tx_buf) = 1 /\ tx_axis_byte_offs = byte_last

tx_axis_tdata == [i \in 0 .. unit - 1 |-> Head(tx_buf)[tx_axis_byte_offs + i]]

\* The lanes that count.
tx_axis_tkeep ==
  IF tx_axis_tlast /\ tx_pkt_size % Word # 0
  THEN {i \in 0 .. unit - 1 : i < tx_pkt_size % Word}
  ELSE 0 .. unit - 1

Pops == tx_axis_tlast \/ tx_axis_byte_offs = Word - unit

\* The MAC takes a unit, or not.
TxStream(ready) ==
  IF tx_axis_tvalid /\ ready
  THEN /\ tx_axis_byte_offs' = (tx_axis_byte_offs + unit) % Word
       /\ tx_axis_stop' = (tx_axis_stop \/ tx_axis_tlast)
       /\ sent' = sent + unit
  ELSE UNCHANGED <<tx_axis_byte_offs, tx_axis_stop, sent>>

\* What the stream leaves in the FIFO.
Kept(ready) ==
  IF tx_axis_tvalid /\ ready /\ Pops THEN Tail(tx_buf) ELSE tx_buf

-----------------------------------------------------------------------------
(* The bus.                                                                *)

\* Memory holds at each address the byte that belongs there.
rdata == [i \in Lanes |-> r_adr + i]

tx_burst_araddr == Aligned(tx_pkt_addr + tx_pkt_offs)

tx_burst_arlen ==
  (IF tx_word_left >= tx_burst_free_len THEN tx_burst_free_len ELSE tx_word_left) - 1

\* The low lanes are what is left of one word, the others begin the next.
Joined ==
  [i \in Lanes |-> IF i < Word - shift THEN tx_burst_head[i]
                                       ELSE rdata[i - (Word - shift)]]

\* The bytes of the last word read do not fill one that is sent.
TailNeeded == (tx_pkt_size - 1) % Word < Word - shift

\* A beat: words of the packet are moved down to lane 0.
Beat(ready) ==
  /\ m_axi_rd_cyc
  /\ IF shift = 0
     THEN /\ tx_buf' = Append(Kept(ready), rdata)
          /\ UNCHANGED <<tx_burst_head, tx_burst_tail>>
     ELSE /\ tx_burst_head' = [i \in Lanes |->
               IF i + shift < Word THEN rdata[i + shift] ELSE Junk]
          /\ tx_burst_tail' = (tx_burst_tail \/ TailNeeded)
          /\ tx_buf' = IF tx_pkt_offs # 0
                       THEN Append(Kept(ready), Joined) ELSE Kept(ready)
  /\ tx_m_axi_stop' = (tx_m_axi_stop \/ tx_word_left <= 1)
  /\ tx_pkt_offs' = CASE tx_word_left <= 1 -> tx_pkt_size
                      [] tx_word_left > 1 /\ tx_pkt_offs = 0 -> Word - shift
                      [] OTHER -> tx_pkt_offs + Word
  /\ tx_word_left' = tx_word_left - 1
  /\ r_left' = r_left - 1 /\ r_adr' = r_adr + Word

NoBeat(ready) ==
  /\ m_axi_rd_cyc
  /\ tx_buf' = Kept(ready)
  /\ UNCHANGED <<tx_m_axi_stop, tx_burst_head, tx_burst_tail, tx_pkt_offs,
                 tx_word_left, txBurst>>

\* All was read: what is left in tx_burst_head follows when there is room.
TailWord(ready) ==
  /\ ~m_axi_rd_cyc /\ tx_m_axi_stop
  /\ IF tx_burst_tail /\ tx_burst_free_len # 0
     THEN tx_buf' = Append(Kept(ready), tx_burst_head) /\ tx_burst_tail' = FALSE
     ELSE tx_buf' = Kept(ready) /\ UNCHANGED tx_burst_tail
  /\ UNCHANGED <<tx_m_axi_stop, tx_burst_head, tx_pkt_offs, tx_word_left,
                 txBurst>>

Unread == ~m_axi_rd_cyc /\ ~tx_m_axi_stop

\* A burst is worth it: half a FIFO, or all that is left of the packet.
Room ==
  /\ tx_word_left >= min_burst => tx_burst_free_len >= min_burst
  /\ tx_burst_free_len # 0

NoRoom(ready) ==
  /\ Unread /\ ~Room
  /\ tx_buf' = Kept(ready)
  /\ UNCHANGED <<tx_m_axi_stop, tx_burst_head, tx_burst_tail, tx_pkt_offs,
                 tx_word_left, txBurst>>

TxBurst(ready) ==
  /\ Unread /\ Room
  /\ r_adr' = tx_burst_araddr
  /\ r_left' = len4k(tx_burst_araddr, tx_burst_arlen) + 1
  /\ tx_buf' = Kept(ready)
  /\ UNCHANGED <<tx_m_axi_stop, tx_burst_head, tx_burst_tail, tx_pkt_offs,
                 tx_word_left>>

-----------------------------------------------------------------------------
\* Nothing to send; the packet before needs a clock to be put away.
TxReset ==
  /\ ~tx_start
  /\ IF tx_axis_stop \/ tx_m_axi_stop
     THEN tx_start' = FALSE
     ELSE tx_start' \in BOOLEAN
  /\ tx_buf' = <<>>
  /\ tx_axis_start' = FALSE /\ tx_axis_stop' = FALSE /\ tx_m_axi_stop' = FALSE
  /\ UNCHANGED <<tx_burst_head, tx_burst_tail, txDesc, tx_pkt_offs,
                 tx_word_left, tx_axis_byte_offs, txBurst, sent>>

\* A descriptor is read from the ring.
TxFetch ==
  /\ tx_start /\ ~tx_axis_start
  /\ tx_axis_start' = TRUE
  /\ tx_pkt_addr' \in Adrs /\ tx_pkt_size' \in Sizes
  /\ tx_pkt_offs' = 0 /\ tx_axis_byte_offs' = 0 /\ tx_burst_tail' = FALSE
  /\ tx_word_left' = WordsOf(tx_pkt_addr', tx_pkt_size')
  /\ sent' = 0
  /\ UNCHANGED <<tx_start, tx_axis_stop, tx_m_axi_stop, tx_buf, tx_burst_head,
                 txBurst>>

TxRun(ready) ==
  /\ tx_start /\ tx_axis_start
  /\ TxStream(ready)
  /\ \/ Beat(ready) \/ NoBeat(ready) \/ TailWord(ready) \/ NoRoom(ready)
     \/ TxBurst(ready)
  /\ tx_start' = ~(tx_axis_stop /\ tx_m_axi_stop)
  /\ UNCHANGED <<tx_axis_start, txDesc>>

TxInit ==
  /\ tx_start = FALSE /\ tx_axis_start = FALSE
  /\ tx_axis_stop = FALSE /\ tx_m_axi_stop = FALSE
  /\ tx_buf = <<>> /\ tx_burst_head = [i \in Lanes |-> Junk]
  /\ tx_burst_tail = FALSE
  /\ tx_pkt_addr = 0 /\ tx_pkt_size = 0 /\ tx_pkt_offs = 0
  /\ tx_word_left = 0 /\ tx_axis_byte_offs = 0
  /\ r_adr = 0 /\ r_left = 0 /\ sent = 0

TxNext == TxReset \/ TxFetch \/ \E ready \in BOOLEAN : TxRun(ready)

\* A clock on which the MAC and the slave do what they are asked to.
TxOwed ==
  \/ tx_start /\ TxFetch
  \/ TxRun(TRUE) /\ (m_axi_rd_cyc => r_left' < r_left)

-----------------------------------------------------------------------------
\* What the MAC is offered are the bytes of the packet, one after the other,
\* whatever the alignment of the packet and its length, with tlast on the
\* last of them and tkeep on no byte beyond.
TxIntegrity ==
  tx_start /\ tx_axis_start /\ tx_axis_tvalid =>
    /\ tx_axis_tlast <=> sent + unit >= tx_pkt_size
    /\ tx_axis_tkeep = {i \in 0 .. unit - 1 : sent + i < tx_pkt_size}
    /\ \A i \in tx_axis_tkeep : tx_axis_tdata[i] = tx_pkt_addr + sent + i

\* No word is read that holds no byte of the packet, no burst crosses a page.
TxBurstOK ==
  m_axi_rd_cyc =>
    /\ InPage(r_adr, r_left - 1)
    /\ r_adr + r_left * Word <= Aligned(tx_pkt_addr + tx_pkt_size - 1) + Word
    /\ r_adr >= Aligned(tx_pkt_addr)

\* Every packet that was started is finished, and the ring moves on.
TxEnds == tx_start ~> ~tx_start
=============================================================================
