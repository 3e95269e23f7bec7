------------------------------- MODULE EthRx -------------------------------
(***************************************************************************)
(* The receive DMA of ethernet.v: it takes a frame from the MAC through a  *)
(* FIFO, moves it to the alignment of the buffer, and writes it over AXI   *)
(* in bursts.  A step is one clock.                                        *)
(*                                                                         *)
(* rx_buf is the FIFO from rx_burst_out to rx_burst_inp, rx_part the word  *)
(* at rx_burst_inp that is being filled.  The slave that is written takes  *)
(* the address at any time before it answers.  wlast, computed one beat    *)
(* ahead in the code, is the beat m_axi_wcnt = m_axi_awlen.                *)
(***************************************************************************)
EXTENDS EthBus, FiniteSets

VARIABLES
  rx_start, rx_axis_start, rx_axis_stop, rx_m_axi_stop0, rx_m_axi_stop,
  rx_bad_frame,
  rx_buf, rx_part, rx_axis_byte_offs, rx_axis_keep,
  rx_addr, rx_size,           \* of the descriptor at rx_pkt_out
  rx_done, rx_status,
  rx_pkt_addr, rx_word_left, rx_wfirst,  \* rx_wstrb: "part", "all", "none"
  rx_burst_tail,
  m_axi_wr_cyc, m_axi_wvalid, m_axi_wcnt, m_axi_awlen, m_axi_wr_err,
  frame,                      \* length of the frame that is coming
  came,                       \* history: bytes of it the FIFO took
  w_adr,                      \* slave: address of the next beat
  filled                      \* history: bytes of it in memory, in place

rxStream == <<rx_axis_stop, rx_bad_frame, rx_part, rx_axis_byte_offs,
              rx_axis_keep, came>>
rxDesc == <<rx_addr, rx_size, frame>>
rxReport == <<rx_done, rx_status>>
rxWalk == <<rx_pkt_addr, rx_word_left, rx_wfirst, rx_burst_tail, filled>>
rxBus == <<m_axi_wr_cyc, m_axi_wvalid, m_axi_wcnt, m_axi_awlen, m_axi_wr_err,
           w_adr>>
rxVars == <<rx_start, rx_axis_start, rx_m_axi_stop0, rx_m_axi_stop, rx_buf,
            rxStream, rxDesc, rxReport, rxWalk, rxBus>>

rx_burst_data_len == Len(rx_buf)

JunkWord == [i \in Lanes |-> Junk]

\* Where a word of the stream is moved to, when the stream has full words.
rx_shift == IF unit > 1 THEN rx_addr % Word ELSE 0

rx_axis_keep_cnt == rx_axis_keep + rx_shift

\* Mutant: the last word is never moved over the end of a word.
rx_burst_1p_Never == FALSE

\* The last word of the stream, moved, makes two words of memory.
rx_burst_1p == rx_shift # 0 /\ rx_axis_stop /\ rx_axis_keep_cnt > Word

-----------------------------------------------------------------------------
(* The stream from the MAC.                                                *)

\* Mutant: the FIFO is filled to its last word.
Full_Late == Len(rx_buf) = Fifo

Full == Len(rx_buf) = Fifo - 1

\* Mutant: a full FIFO stops the stream, also when nobody empties it any more.
rx_axis_tready_NoDrain == rx_axis_start /\ ~rx_axis_stop /\ ~Full

\* Once the bus has stopped, the rest of a frame too long is taken and lost.
rx_axis_tready ==
  rx_axis_start /\ ~rx_axis_stop /\ (~Full \/ rx_m_axi_stop)

\* The unit the MAC offers; the last one may be short.
Offered == IF frame - came < unit THEN frame - came ELSE unit

rx_axis_tlast == came + unit >= frame

Placed ==
  [i \in Lanes |-> IF i \in rx_axis_byte_offs .. rx_axis_byte_offs + Offered - 1
                   THEN came + (i - rx_axis_byte_offs) ELSE rx_part[i]]

\* What the stream adds to the FIFO, with error: the MAC found it bad.
Added(take) ==
  IF take /\ ~rx_m_axi_stop /\ (rx_axis_tlast \/ rx_axis_byte_offs >= Word - unit)
  THEN <<Placed>> ELSE <<>>

RxStream(take) ==
  IF ~take THEN UNCHANGED rxStream
  ELSE
    /\ rx_axis_tready
    /\ came' = came + Offered
    /\ rx_part' = IF rx_axis_tlast \/ rx_axis_byte_offs >= Word - unit
                  THEN JunkWord ELSE Placed
    /\ IF rx_axis_tlast
       THEN /\ rx_axis_keep' = Offered
            /\ rx_bad_frame' \in BOOLEAN
            /\ rx_axis_stop' = TRUE
            /\ UNCHANGED rx_axis_byte_offs
       ELSE /\ rx_axis_byte_offs' = IF rx_axis_byte_offs >= Word - unit
                                    THEN 0 ELSE rx_axis_byte_offs + unit
            /\ UNCHANGED <<rx_axis_stop, rx_axis_keep, rx_bad_frame>>

-----------------------------------------------------------------------------
(* The bus.                                                                *)

FirstOut == IF rx_buf = <<>> THEN JunkWord ELSE Head(rx_buf)

wdata ==
  [i \in Lanes |-> IF i < rx_shift THEN rx_burst_tail[i] ELSE FirstOut[i - rx_shift]]

rx_word_last == rx_word_left <= 1

rx_m_axi_last ==
  rx_axis_stop /\ Len(rx_buf) = (IF rx_burst_1p THEN 0 ELSE 1)

\* Mutant: the first word of a buffer is written from its start.
wstrb_Whole ==
  {i \in Lanes :
     /\ rx_wfirst # "none"
     /\ rx_word_last => (rx_addr + rx_size) % Word = 0 \/ i < (rx_addr + rx_size) % Word}

\* The lanes written: the first word and the last one of a buffer are parts.
wstrb ==
  {i \in Lanes :
     /\ rx_wfirst # "none"
     /\ rx_wfirst = "part" => i >= rx_addr % Word
     /\ rx_word_last => (rx_addr + rx_size) % Word = 0 \/ i < (rx_addr + rx_size) % Word}

\* The bytes of the frame in memory, in place, with this beat.
FilledNow ==
  IF /\ wstrb # {}
     /\ w_adr + (CHOOSE i \in wstrb : \A j \in wstrb : i <= j) = rx_addr + filled
     /\ \A i \in wstrb : w_adr + i < rx_addr + came => wdata[i] = w_adr + i - rx_addr
  THEN filled + Cardinality(wstrb)
  ELSE filled

WBeat(take) ==
  /\ m_axi_wr_cyc /\ m_axi_wvalid
  /\ IF rx_buf # <<>>
     THEN /\ rx_burst_tail' = [i \in Lanes |->
                IF i < rx_shift THEN Head(rx_buf)[i + Word - rx_shift] ELSE Junk]
          /\ rx_buf' = Tail(rx_buf) \o Added(take)
     ELSE rx_buf' = Added(take) /\ UNCHANGED rx_burst_tail
  /\ IF m_axi_wcnt = m_axi_awlen
     THEN m_axi_wvalid' = FALSE /\ UNCHANGED m_axi_wcnt
     ELSE m_axi_wcnt' = m_axi_wcnt + 1 /\ UNCHANGED m_axi_wvalid
  /\ rx_pkt_addr' =
       IF rx_m_axi_last
       THEN rx_pkt_addr + rx_axis_byte_offs + rx_axis_keep_cnt
              - (IF rx_burst_1p THEN Word ELSE 0)
       ELSE Aligned(rx_pkt_addr) + Word
  /\ rx_m_axi_stop0' = (rx_m_axi_stop0 \/ rx_m_axi_last \/ rx_word_last)
  /\ rx_wfirst' = IF rx_m_axi_last \/ rx_word_last THEN "none" ELSE "all"
  /\ rx_word_left' = (rx_word_left - 1) % Range14
  /\ filled' = FilledNow
  /\ w_adr' = w_adr + Word
  /\ UNCHANGED <<rx_m_axi_stop, rxReport, m_axi_wr_cyc, m_axi_awlen,
                 m_axi_wr_err>>

\* The slave answers a burst, good or not; each answer writes the report.
Answer(take) ==
  /\ m_axi_wr_cyc /\ ~m_axi_wvalid
  /\ m_axi_wr_cyc' = FALSE
  /\ m_axi_wr_err' \in {m_axi_wr_err, TRUE}
  /\ rx_m_axi_stop' = (rx_m_axi_stop \/ rx_m_axi_stop0)
  /\ rx_done' = rx_pkt_addr - rx_addr
  /\ rx_status' = <<m_axi_wr_err, rx_bad_frame>>
  /\ rx_buf' = rx_buf \o Added(take)
  /\ UNCHANGED <<rx_m_axi_stop0, rxWalk, m_axi_wvalid, m_axi_wcnt,
                 m_axi_awlen, w_adr>>

BusWaits(take) ==
  /\ m_axi_wr_cyc
  /\ rx_buf' = rx_buf \o Added(take)
  /\ UNCHANGED <<rx_m_axi_stop0, rx_m_axi_stop, rxReport, rxWalk, rxBus>>

\* A burst is worth it: half a FIFO, or all that will come.
WorthIt ==
  /\ rx_axis_stop \/ rx_burst_data_len >= min_burst
  /\ rx_burst_data_len # 0 \/ rx_burst_1p
  /\ ~rx_m_axi_stop

NoBurst(take) ==
  /\ ~m_axi_wr_cyc /\ ~WorthIt
  /\ rx_buf' = rx_buf \o Added(take)
  /\ UNCHANGED <<rx_m_axi_stop0, rx_m_axi_stop, rxReport, rxWalk, rxBus>>

rx_burst_awlen ==
  IF rx_word_left >= rx_burst_data_len THEN rx_burst_data_len ELSE rx_word_left

RxBurst(take) ==
  /\ ~m_axi_wr_cyc /\ WorthIt
  /\ m_axi_wr_cyc' = TRUE /\ m_axi_wvalid' = TRUE /\ m_axi_wcnt' = 0
  /\ w_adr' = Aligned(rx_pkt_addr)
  /\ m_axi_awlen' = len4k(Aligned(rx_pkt_addr),
                          IF rx_burst_1p THEN rx_burst_awlen ELSE rx_burst_awlen - 1)
  /\ rx_buf' = rx_buf \o Added(take)
  /\ UNCHANGED <<rx_m_axi_stop0, rx_m_axi_stop, rxReport, rxWalk,
                 m_axi_wr_err>>

-----------------------------------------------------------------------------
\* The MAC offers a frame and there is a descriptor for it; what was received
\* before needs a clock to be put away.
RxReset ==
  /\ ~rx_start
  /\ IF rx_axis_stop \/ rx_m_axi_stop
     THEN rx_start' = FALSE
     ELSE rx_start' \in BOOLEAN
  /\ rx_buf' = <<>> /\ rx_part' = JunkWord
  /\ rx_axis_start' = FALSE /\ rx_axis_stop' = FALSE
  /\ rx_m_axi_stop0' = FALSE /\ rx_m_axi_stop' = FALSE
  /\ UNCHANGED <<rx_bad_frame, rx_axis_byte_offs, rx_axis_keep, came, rxDesc,
                 rxReport, rxWalk, rxBus>>

\* A descriptor is read from the ring.
RxFetch ==
  /\ rx_start /\ ~rx_axis_start
  /\ rx_axis_start' = TRUE
  /\ rx_addr' \in Adrs /\ rx_size' \in Sizes /\ frame' \in Frames
  /\ rx_axis_byte_offs' = IF unit > 1 THEN 0 ELSE rx_addr' % Word
  /\ rx_done' = 0 /\ rx_status' = <<FALSE, TRUE>>
  /\ rx_wfirst' = "part" /\ rx_word_left' = WordsOf(rx_addr', rx_size')
  /\ rx_pkt_addr' = rx_addr' /\ rx_burst_tail' = JunkWord
  /\ rx_bad_frame' = TRUE /\ m_axi_wr_err' = FALSE
  /\ came' = 0 /\ filled' = 0
  /\ UNCHANGED <<rx_start, rx_axis_stop, rx_m_axi_stop0, rx_m_axi_stop,
                 rx_buf, rx_part, rx_axis_keep, m_axi_wr_cyc, m_axi_wvalid,
                 m_axi_wcnt, m_axi_awlen, w_adr>>

RxRun(take) ==
  /\ rx_start /\ rx_axis_start
  /\ RxStream(take)
  /\ \/ WBeat(take) \/ Answer(take) \/ BusWaits(take) \/ NoBurst(take)
     \/ RxBurst(take)
  /\ rx_start' = ~(rx_axis_stop /\ rx_m_axi_stop)
  /\ UNCHANGED <<rx_axis_start, rxDesc>>

RxInit ==
  /\ rx_start = FALSE /\ rx_axis_start = FALSE /\ rx_axis_stop = FALSE
  /\ rx_m_axi_stop0 = FALSE /\ rx_m_axi_stop = FALSE /\ rx_bad_frame = FALSE
  /\ rx_buf = <<>> /\ rx_part = JunkWord /\ rx_axis_byte_offs = 0
  /\ rx_axis_keep = 0 /\ rx_addr = 0 /\ rx_size = 0
  /\ rx_done = 0 /\ rx_status = <<FALSE, FALSE>>
  /\ rx_pkt_addr = 0 /\ rx_word_left = 0 /\ rx_wfirst = "none"
  /\ rx_burst_tail = JunkWord
  /\ m_axi_wr_cyc = FALSE /\ m_axi_wvalid = FALSE /\ m_axi_wcnt = 0
  /\ m_axi_awlen = 0 /\ m_axi_wr_err = FALSE
  /\ frame = 0 /\ came = 0 /\ w_adr = 0 /\ filled = 0

RxNext == RxReset \/ RxFetch \/ \E take \in BOOLEAN : RxRun(take)

\* A clock on which the MAC and the slave do what they are asked to.
RxOwed ==
  \/ rx_start /\ RxFetch
  \/ RxRun(rx_axis_tready) /\ (m_axi_wr_cyc => rxBus' # rxBus)

-----------------------------------------------------------------------------
\* However long the frame, only bytes of its buffer are written.
RxInBuffer ==
  m_axi_wvalid =>
    \A i \in wstrb : w_adr + i \in rx_addr .. rx_addr + rx_size - 1

\* No burst crosses a page, and each beat that writes has its word.
RxBurstOK ==
  m_axi_wvalid =>
    /\ InPage(w_adr, m_axi_awlen - m_axi_wcnt)
    /\ rx_buf # <<>> \/ rx_burst_1p \/ wstrb = {}

Received == rx_start /\ rx_axis_stop /\ rx_m_axi_stop

\* A frame that fits its buffer is all there when its descriptor is handed
\* over, in place, with its length and the verdict of the MAC.
RxIntegrity ==
  Received /\ frame <= rx_size =>
    rx_done = frame /\ filled >= frame /\ rx_status[2] = rx_bad_frame

\* Every frame that was started is finished, and the ring moves on.
RxEnds == rx_start ~> ~rx_start
=============================================================================
