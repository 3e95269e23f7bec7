---------------------------- MODULE EthDmaProofs ----------------------------
(***************************************************************************)
(* EthDma, for every width of word and stream, FIFO, page, and descriptor: *)
(* what goes over the bus is what the descriptor allows, and every byte of *)
(* a packet or a frame gets to its place.                                  *)
(*                                                                         *)
(* A clock moves words between memory, FIFO and stream, each with its own  *)
(* alignment, so that the invariant says of each word that is under way    *)
(* which bytes of the packet it holds: a word is moved by a beat at one    *)
(* end and by the stream at the other, and nothing else says that they     *)
(* agree.                                                                  *)
(***************************************************************************)
EXTENDS EthDma, SequenceTheorems, FiniteSetTheorems, TLAPS

Bytes == [Lanes -> Int]

Span(n) == n * Word  \* the bytes of n words

OnWord(n) == n % Word = 0  \* a word begins at n

-----------------------------------------------------------------------------
(* The transmitter.                                                        *)

TxType ==
  /\ tx_start \in BOOLEAN /\ tx_axis_start \in BOOLEAN
  /\ tx_axis_stop \in BOOLEAN /\ tx_m_axi_stop \in BOOLEAN
  /\ tx_burst_tail \in BOOLEAN
  /\ tx_buf \in Seq(Bytes) /\ Len(tx_buf) < Fifo
  /\ tx_burst_head \in Bytes
  /\ tx_pkt_addr \in Nat /\ tx_pkt_size \in Nat /\ tx_pkt_offs \in Nat
  /\ tx_word_left \in Nat /\ tx_axis_byte_offs \in Nat
  /\ r_adr \in Nat /\ r_left \in Nat /\ sent \in Nat
  /\ tx_axis_start => tx_pkt_size > Word

\* Between packets.
TxIdle ==
  /\ ~tx_axis_start =>
       /\ tx_buf = <<>> /\ ~tx_axis_stop /\ ~tx_m_axi_stop /\ r_left = 0
  /\ tx_axis_stop => tx_buf = <<>> /\ tx_m_axi_stop /\ ~tx_burst_tail
  /\ tx_start \/ ~tx_axis_start \/ (tx_axis_stop /\ tx_m_axi_stop)

\* The words read so far and the words to come are those of the packet; a
\* burst is of words to come, stays in its page and has room in the FIFO.
TxWalk ==
  /\ tx_axis_start /\ ~tx_m_axi_stop =>
       /\ tx_word_left >= 1
       /\ tx_burst_araddr + Span(tx_word_left)
            = Aligned(tx_pkt_addr + tx_pkt_size - 1) + Word
       /\ tx_pkt_offs # 0 => Aligned(tx_pkt_addr + tx_pkt_offs) = tx_pkt_addr + tx_pkt_offs
  /\ r_left > 0 =>
       /\ tx_axis_start /\ ~tx_m_axi_stop
       /\ r_adr = tx_burst_araddr /\ r_left <= tx_word_left
       /\ (r_adr % Page) + Span(r_left) <= Page
       /\ Len(tx_buf) + r_left < Fifo

\* Each word has the bytes of its place, as far as the packet goes.
TxWords(buf, at) ==
  \A j \in 1 .. Len(buf), i \in Lanes :
    at + Span(j - 1) + i < tx_pkt_size =>
      buf[j][i] = tx_pkt_addr + at + Span(j - 1) + i

\* The stream is at byte s of the packet, lane o of the first word of buf.
TxAt(buf, s, o) ==
  /\ o <= s /\ OnWord(s - o)
  /\ o <= Word - unit
  /\ unit = Word => o = 0
  /\ buf = <<>> => o = 0
  /\ buf # <<>> => s < tx_pkt_size
  /\ TxWords(buf, s - o)

\* Where in the packet the next word for the FIFO is.
Pushed == (sent - tx_axis_byte_offs) + Span(Len(tx_buf))

TxPlaces ==
  tx_axis_start /\ ~tx_axis_stop =>
    /\ TxAt(tx_buf, sent, tx_axis_byte_offs)
    /\ tx_burst_tail => shift # 0 /\ tx_pkt_offs # 0 /\ TailNeeded
    /\ ~tx_m_axi_stop =>
         /\ shift # 0 /\ tx_pkt_offs # 0 => (tx_burst_tail <=> TailNeeded)
         /\ Pushed = IF shift = 0 \/ tx_pkt_offs = 0 THEN tx_pkt_offs
                     ELSE tx_pkt_offs - (Word - shift)
    /\ tx_m_axi_stop =>
         Pushed = Aligned(tx_pkt_size - 1) + (IF tx_burst_tail THEN 0 ELSE Word)

\* tx_burst_head has the low lanes of that word.
TxHead ==
  /\ tx_axis_start /\ ~tx_axis_stop /\ shift # 0 /\ tx_pkt_offs # 0
  /\ ~tx_m_axi_stop \/ tx_burst_tail
  => \A i \in Lanes : i + shift < Word =>
       tx_burst_head[i] = tx_pkt_addr + Pushed + i

TxInv == TxType /\ TxIdle /\ TxWalk /\ TxPlaces /\ TxHead

-----------------------------------------------------------------------------
(* The receiver.                                                           *)

RxType ==
  /\ rx_start \in BOOLEAN /\ rx_axis_start \in BOOLEAN
  /\ rx_axis_stop \in BOOLEAN /\ rx_m_axi_stop0 \in BOOLEAN
  /\ rx_m_axi_stop \in BOOLEAN
  /\ rx_buf \in Seq(Bytes) /\ Len(rx_buf) < Fifo
  /\ rx_part \in Bytes /\ rx_burst_tail \in Bytes
  /\ rx_addr \in Nat /\ rx_size \in Nat /\ frame \in Nat /\ came \in Nat
  /\ rx_axis_byte_offs \in Nat /\ rx_axis_keep \in Nat
  /\ rx_pkt_addr \in Nat /\ rx_word_left \in Nat /\ rx_word_left < Range14
  /\ rx_wfirst \in {"part", "all", "none"}
  /\ m_axi_wr_cyc \in BOOLEAN /\ m_axi_wvalid \in BOOLEAN
  /\ m_axi_wcnt \in Nat /\ m_axi_awlen \in Nat /\ w_adr \in Nat
  /\ rx_axis_start => rx_size > Word /\ frame > Word

\* Between frames, and when the bus has stopped.
RxIdle ==
  /\ ~rx_axis_start =>
       /\ rx_buf = <<>> /\ ~rx_axis_stop
       /\ ~rx_m_axi_stop0 /\ ~rx_m_axi_stop /\ ~m_axi_wr_cyc
  /\ m_axi_wvalid => m_axi_wr_cyc
  /\ rx_m_axi_stop <=> rx_m_axi_stop0 /\ ~m_axi_wr_cyc
  /\ rx_start \/ ~rx_axis_start \/ (rx_axis_stop /\ rx_m_axi_stop)
  /\ rx_axis_start /\ ~rx_axis_stop => came < frame

\* Where the next beat goes, and the beats to come.
Beats == m_axi_awlen + 1 - m_axi_wcnt
Extra == IF rx_burst_1p THEN 1 ELSE 0
Here == Aligned(rx_pkt_addr)

\* The words to come are those of the buffer; a burst has a word for each
\* beat, and stays in its page.
RxWalk ==
  /\ rx_axis_start /\ ~rx_m_axi_stop0 =>
       /\ rx_word_left >= 1
       /\ Here + Span(rx_word_left) = Aligned(rx_addr + rx_size - 1) + Word
       /\ m_axi_wvalid => w_adr = Here
       /\ \/ rx_wfirst = "part" /\ rx_pkt_addr = rx_addr
          \/ /\ rx_wfirst = "all" /\ Here = rx_pkt_addr
             /\ rx_pkt_addr >= Aligned(rx_addr) + Word
  /\ m_axi_wvalid =>
       /\ Beats >= 1 /\ Beats <= Len(rx_buf) + Extra
       /\ Beats <= rx_word_left + Extra
       /\ (w_adr % Page) + Span(Beats) <= Page
       /\ rx_m_axi_stop0 => rx_wfirst = "none" /\ rx_word_left = 0

\* The place in the frame of lane i of the j-th word from address h on.
Place(h, j, i) == (h - rx_addr) + rx_shift + Span(j - 1) + i

\* The words of buf go to address h and on, and part, filled to lane b, after
\* them; c bytes came, and the last word has keep bytes from lane b on.
RxFrame(buf, h, c, stop, part, b, keep) ==
  /\ b <= Word - unit
  /\ unit = Word => b = 0
  /\ ~stop => /\ c < frame /\ c = Place(h, Len(buf) + 1, b)
              /\ \A i \in Lanes : i < b /\ Place(h, Len(buf) + 1, i) >= 0 =>
                   part[i] = Place(h, Len(buf) + 1, i)
  /\ stop => /\ c = frame /\ keep >= 1 /\ keep <= unit
             /\ frame = Place(h, Len(buf), b) + keep
  /\ \A j \in 1 .. Len(buf), i \in Lanes :
       Place(h, j, i) >= 0 /\ Place(h, j, i) < c => buf[j][i] = Place(h, j, i)

RxPlaces ==
  rx_axis_start /\ ~rx_m_axi_stop0 =>
    /\ RxFrame(rx_buf, Here, came, rx_axis_stop, rx_part, rx_axis_byte_offs,
               rx_axis_keep)
    /\ rx_axis_stop => rx_buf # <<>> \/ rx_burst_1p
    /\ filled = IF rx_wfirst = "part" THEN 0 ELSE Here - rx_addr
    /\ rx_wfirst = "all" =>
         \A i \in Lanes : i < rx_shift /\ (Here - rx_addr) + i < came =>
           rx_burst_tail[i] = (Here - rx_addr) + i

\* A frame that fits is in memory when the bus stops.
RxDone ==
  rx_axis_start /\ rx_m_axi_stop0 /\ frame <= rx_size =>
    /\ rx_axis_stop /\ ~m_axi_wvalid
    /\ rx_pkt_addr = rx_addr + frame /\ filled >= frame
    /\ rx_m_axi_stop => rx_done = frame /\ rx_status[2] = rx_bad_frame

RxInv == RxType /\ RxIdle /\ RxWalk /\ RxPlaces /\ RxDone

IInv == unit \in {1, Word} /\ TxInv /\ RxInv
-----------------------------------------------------------------------------
(* Words and pages.                                                        *)

LEMMA Widths ==
  /\ Word \in Nat /\ Word >= 1 /\ Fifo \in Nat /\ Fifo >= 4
  /\ Page \in Nat /\ Page >= 1 /\ Range14 \in Nat
BY BusAssumption DEF Range14

LEMMA DivMod ==
  ASSUME NEW n \in Nat, n > 0, NEW a \in Nat
  PROVE  /\ a \div n \in Nat /\ a % n \in 0 .. n - 1
         /\ a = n * (a \div n) + (a % n)
OBVIOUS

LEMMA ModOfSum ==
  ASSUME NEW n \in Nat, n > 0, NEW q \in Nat, NEW r \in 0 .. n - 1
  PROVE  (n * q + r) % n = r /\ (n * q + r) \div n = q
OBVIOUS

LEMMA NextWord ==
  ASSUME NEW n \in Int
  PROVE  /\ Span(n) \in Int /\ Span(n + 1) = Span(n) + Word
         /\ Span(n - 1) = Span(n) - Word
         /\ Span(0) = 0 /\ Span(1) = Word
BY Widths DEF Span

LEMMA Multiples ==
  ASSUME NEW n \in Nat
  PROVE  /\ Span(n) \in Nat
         /\ n >= 1 => Span(n) >= Word
         /\ n >= 2 => Span(n) >= Word + Word
         /\ n <= Span(n)
<1>1. Span(n) \in Nat /\ n <= Span(n) BY Widths DEF Span
<1>2. n >= 1 => Span(n) >= Word
  <2>1. n >= 1 => Span(n - 1) >= 0 BY Widths DEF Span
  <2> QED BY <2>1, NextWord, Widths
<1>3. n >= 2 => Span(n) >= Word + Word
  <2>1. n >= 2 => (n - 2) * Word >= 0 BY Widths
  <2>2. (n - 2) * Word = Span(n) - Word - Word BY Widths DEF Span
  <2> QED BY <1>1, <2>1, <2>2, Widths
<1> QED BY <1>1, <1>2, <1>3

LEMMA SpanMono ==
  ASSUME NEW n \in Nat, NEW m \in Nat, n <= m
  PROVE  Span(n) <= Span(m)
<1>1. Span(n) \in Nat /\ Span(m) \in Nat BY Multiples
<1>2. (m - n) * Word >= 0 BY Widths
<1>3. (m - n) * Word = Span(m) - Span(n) BY Widths DEF Span
<1> QED BY <1>1, <1>2, <1>3

LEMMA AlignedDown ==
  ASSUME NEW a \in Nat
  PROVE  /\ a % Word \in 0 .. Word - 1 /\ a % Word = a - Aligned(a)
         /\ Aligned(a) \in Nat /\ Aligned(a) <= a /\ a < Aligned(a) + Word
         /\ OnWord(Aligned(a))
<1> DEFINE q == a \div Word
           r == a % Word
<1>1. q \in Nat /\ r \in 0 .. Word - 1 /\ a = Word * q + r BY Widths, DivMod
<1> HIDE DEF q, r
<1>2. Word * q \in Nat BY <1>1, Widths
<1>3. (Word * q + 0) % Word = 0 BY <1>1, Widths, ModOfSum
<1>4. Aligned(a) = a - r BY DEF Aligned, r
<1>5. Aligned(a) = Word * q BY <1>1, <1>2, <1>4, Widths
<1>6. OnWord(Aligned(a)) BY <1>2, <1>3, <1>5, Widths DEF OnWord
<1>7. /\ r = a - Aligned(a) /\ Aligned(a) \in Nat /\ Aligned(a) <= a
      /\ a < Aligned(a) + Word
  BY <1>1, <1>2, <1>4, <1>5, Widths
<1> QED BY <1>1, <1>6, <1>7 DEF r

LEMMA AlignedSum ==
  ASSUME NEW a \in Nat, OnWord(a), NEW r \in 0 .. Word - 1
  PROVE  Aligned(a + r) = a /\ (a + r) % Word = r
<1> DEFINE q == a \div Word
<1>1. q \in Nat /\ a = Word * q BY Widths, DivMod DEF OnWord
<1> HIDE DEF q
<1>2. (Word * q + r) % Word = r BY <1>1, Widths, ModOfSum
<1>3. (a + r) % Word = r BY <1>1, <1>2
<1> QED BY <1>3, Widths DEF Aligned

LEMMA AlignedItself ==
  ASSUME NEW a \in Nat
  PROVE  OnWord(a) <=> Aligned(a) = a
<1>1. a % Word = a - Aligned(a) /\ Aligned(a) \in Nat BY AlignedDown
<1> QED BY <1>1 DEF OnWord

LEMMA MultipleSum ==
  ASSUME NEW a \in Nat, OnWord(a), NEW b \in Nat, OnWord(b)
  PROVE  OnWord(a + b) /\ (a >= b => OnWord(a - b))
<1> DEFINE p == a \div Word
           q == b \div Word
<1>1. p \in Nat /\ a = Word * p /\ q \in Nat /\ b = Word * q
  BY Widths, DivMod DEF OnWord
<1> HIDE DEF p, q
<1>2. OnWord(a + b)
  <2>1. (Word * (p + q) + 0) % Word = 0 BY <1>1, Widths, ModOfSum
  <2>2. a + b = Word * (p + q) + 0 BY <1>1, Widths
  <2> QED BY <2>1, <2>2 DEF OnWord
<1>3. ASSUME a >= b PROVE OnWord(a - b)
  <2>1. p >= q
    <3>1. SUFFICES ASSUME q >= p + 1 PROVE FALSE BY <1>1
    <3>2. Word * (q - p - 1) >= 0 BY <1>1, <3>1, Widths
    <3>3. Word * (q - p - 1) = Word * q - Word * p - Word BY <1>1, Widths
    <3> QED BY <1>1, <1>3, <3>2, <3>3, Widths
  <2>2. (Word * (p - q) + 0) % Word = 0 BY <1>1, <2>1, Widths, ModOfSum
  <2>3. a - b = Word * (p - q) + 0 BY <1>1, Widths
  <2> QED BY <2>2, <2>3 DEF OnWord
<1> QED BY <1>2, <1>3

LEMMA SpanIsMultiple ==
  ASSUME NEW n \in Nat
  PROVE  Span(n) \in Nat /\ OnWord(Span(n))
<1>1. (Word * n + 0) % Word = 0 BY Widths, ModOfSum
<1>2. Span(n) = Word * n + 0 BY Widths DEF Span
<1> QED BY <1>1, <1>2, Multiples DEF OnWord

LEMMA MultipleNext ==
  ASSUME NEW a \in Nat, OnWord(a)
  PROVE  OnWord(a + Word) /\ (a >= Word => OnWord(a - Word))
<1>1. (Word * 1 + 0) % Word = 0 BY Widths, ModOfSum
<1>2. OnWord(Word) BY <1>1, Widths DEF OnWord
<1> QED BY <1>2, Widths, MultipleSum

LEMMA MultipleGap ==
  ASSUME NEW a \in Nat, OnWord(a), NEW b \in Nat, OnWord(b), a < b
  PROVE  a + Word <= b
<1>1. SUFFICES ASSUME b < a + Word PROVE FALSE BY Widths
<1>2. b - a \in 0 .. Word - 1 BY <1>1, Widths
<1>3. (a + (b - a)) % Word = b - a BY <1>2, AlignedSum
<1>4. a + (b - a) = b OBVIOUS
<1>5. b - a = 0 BY <1>3, <1>4 DEF OnWord
<1> QED BY <1>5

LEMMA AlignedMono ==
  ASSUME NEW a \in Nat, NEW b \in Nat, a <= b
  PROVE  Aligned(a) <= Aligned(b)
<1>1. SUFFICES ASSUME Aligned(b) < Aligned(a) PROVE FALSE BY AlignedDown
<1>2. Aligned(b) + Word <= Aligned(a) BY <1>1, AlignedDown, MultipleGap
<1> QED BY <1>2, AlignedDown, Widths

LEMMA WordsCounted ==
  ASSUME NEW a \in Nat, NEW n \in Nat, n >= 1
  PROVE  /\ WordsOf(a, n) \in Nat
         /\ Aligned(a) + Span(WordsOf(a, n)) = Aligned(a + n - 1) + Word
         /\ WordsOf(a, n) < n + 2 * Word
<1> DEFINE s == a % Word
           m == s + n - 1
           q == m \div Word
           r == m % Word
<1>1. s \in 0 .. Word - 1 /\ Aligned(a) \in Nat /\ a = Aligned(a) + s
      /\ OnWord(Aligned(a))
  BY AlignedDown
<1>2. m \in Nat BY <1>1
<1>3. q \in Nat /\ r \in 0 .. Word - 1 /\ m = Word * q + r
  BY <1>2, Widths, DivMod
<1>4. WordsOf(a, n) = (Word + m) \div Word BY <1>1, Widths DEF WordsOf
<1> HIDE DEF s, q, r
<1>5. Word + m = Word * (q + 1) + r BY <1>3, Widths
<1>6. WordsOf(a, n) = q + 1
  <2>1. (Word * (q + 1) + r) \div Word = q + 1 BY <1>3, Widths, ModOfSum
  <2> QED BY <1>4, <1>5, <2>1
<1>7. Aligned(a + n - 1) = Aligned(a) + Word * q
  <2>1. (Word * q + 0) % Word = 0 BY <1>3, Widths, ModOfSum
  <2>2. Word * q \in Nat BY <1>3, Widths
  <2>3. OnWord(Aligned(a) + Word * q)
    BY <1>1, <2>1, <2>2, Widths, MultipleSum DEF OnWord
  <2>4. a + n - 1 = Aligned(a) + Word * q + r
    <3> DEFINE p == Word * q
               z == Aligned(a)
    <3>1. p \in Nat /\ z \in Nat /\ a = z + s /\ s + n - 1 = p + r
      BY <1>1, <1>3, <2>2
    <3> HIDE DEF p, z
    <3> QED BY <1>1, <1>3, <3>1, Widths DEF p, z
  <2> QED BY <1>1, <1>3, <2>2, <2>3, <2>4, AlignedSum
<1>8. Span(WordsOf(a, n)) = Word * q + Word BY <1>3, <1>6, Widths DEF Span
<1>9. q <= m
  <2>1. q <= Word * q BY <1>3, Widths
  <2> QED BY <1>3, <2>1, Widths
<1> QED BY <1>1, <1>3, <1>6, <1>7, <1>8, <1>9, Widths

LEMMA BurstsFit ==
  ASSUME NEW a \in Nat, OnWord(a), NEW len \in Nat
  PROVE  /\ len4k(a, len) \in 0 .. len
         /\ (a % Page) + Span(len4k(a, len) + 1) <= Page
<1> DEFINE k == Page \div Word
           q == a \div Word
           t == q \div k
           u == q % k
           n == len4k(a, len)
<1>1. k \in Nat /\ k >= 1 /\ Page = Word * k
  <2> DEFINE m == Page \div (Fifo * Word)
  <2>1. Fifo * Word \in Nat /\ Fifo * Word > 0 BY Widths
  <2>2. m \in Nat /\ Page = (Fifo * Word) * m
    BY <2>1, Widths, BusAssumption, DivMod
  <2> HIDE DEF m
  <2>3. Fifo * m \in Nat BY <2>2, Widths
  <2>4. Page = Word * (Fifo * m) + 0 BY <2>2, Widths
  <2>5. k = Fifo * m BY <2>3, <2>4, Widths, ModOfSum
  <2>6. k \in Nat /\ Page = Word * k BY <2>3, <2>4, <2>5, Widths
  <2> HIDE DEF k
  <2>7. k # 0 BY <2>6, Widths
  <2> QED BY <2>6, <2>7
<1>2. q \in Nat /\ a = Word * q BY Widths, DivMod DEF OnWord
<1>3. t \in Nat /\ u \in 0 .. k - 1 /\ q = k * t + u
  <2> HIDE DEF k, q
  <2> QED BY <1>1, <1>2, DivMod
<1>4. /\ n = IF k - 1 - u >= len THEN len ELSE (k - 1 - u) % Fifo
  BY DEF len4k
<1> HIDE DEF k, q, t, u, n
<1>5. n \in 0 .. len /\ n <= k - 1 - u
  <2>1. CASE k - 1 - u >= len BY <1>1, <1>3, <1>4, <2>1
  <2>2. CASE k - 1 - u < len
    <3> DEFINE v == k - 1 - u
    <3>1. v \in Nat /\ v < len BY <1>1, <1>3, <2>2
    <3> HIDE DEF v
    <3>2. v % Fifo \in 0 .. v
      <4>1. /\ v \div Fifo \in Nat /\ v % Fifo \in 0 .. Fifo - 1
            /\ v = Fifo * (v \div Fifo) + (v % Fifo)
        BY <3>1, Widths, DivMod
      <4>2. Fifo * (v \div Fifo) >= 0 BY <4>1, Widths
      <4> QED BY <3>1, <4>1, <4>2, Widths
    <3>3. n = v % Fifo BY <1>1, <1>3, <1>4, <2>2 DEF v
    <3> QED BY <3>1, <3>2, <3>3 DEF v
  <2> QED BY <1>1, <1>3, <2>1, <2>2
<1>6. a % Page = Word * u
  <2>1. a = Page * t + Word * u
    <3>1. a = Word * (k * t + u) BY <1>2, <1>3
    <3>2. Word * (k * t + u) = (Word * k) * t + Word * u
      BY <1>1, <1>3, Widths
    <3> QED BY <1>1, <3>1, <3>2
  <2>2. Word * u \in 0 .. Page - 1
    <3>1. Word * u >= 0 /\ Word * (k - 1 - u) >= 0 BY <1>1, <1>3, Widths
    <3>2. Word * (k - 1 - u) = Word * k - Word - Word * u
      BY <1>1, <1>3, Widths
    <3> QED BY <1>1, <1>3, <3>1, <3>2, Widths
  <2>3. (Page * t + Word * u) % Page = Word * u
    <3> DEFINE z == Word * u
    <3> HIDE DEF z
    <3>1. z \in 0 .. Page - 1 BY <2>2 DEF z
    <3>2. (Page * t + z) % Page = z BY <1>3, <3>1, Widths, ModOfSum
    <3> QED BY <3>2 DEF z
  <2> QED BY <2>1, <2>3
<1>7. Word * (k - 1 - u - n) >= 0 BY <1>1, <1>3, <1>5, Widths
<1>8. Word * (k - 1 - u - n) = Page - Word * u - Span(n + 1)
  BY <1>1, <1>3, <1>5, Widths DEF Span
<1>9. Word * u \in Int /\ Span(n + 1) \in Int
  BY <1>1, <1>3, <1>5, Widths, NextWord
<1> DEFINE z == Word * u
           y == Word * (k - 1 - u - n)
<1>10. y >= 0 /\ y = Page - z - Span(n + 1) /\ z \in Int BY <1>7, <1>8, <1>9
<1> HIDE DEF z, y
<1>11. z + Span(n + 1) <= Page BY <1>9, <1>10, Widths
<1> QED BY <1>5, <1>6, <1>11 DEF n, z

\* The beats that are left of a burst that stays in its page.
LEMMA StaysInPage ==
  ASSUME NEW a \in Nat, NEW b \in Nat, b >= 2, (a % Page) + Span(b) <= Page
  PROVE  ((a + Word) % Page) + Span(b - 1) <= Page
<1> DEFINE q == a \div Page
           r == a % Page
<1>1. q \in Nat /\ r \in 0 .. Page - 1 /\ a = Page * q + r
  BY Widths, DivMod
<1>2. Span(b) >= Word + Word BY Multiples
<1> HIDE DEF q, r
<1>3. r + Word \in 0 .. Page - 1
  <2>1. Span(b) \in Nat /\ r + Span(b) <= Page BY Multiples DEF r
  <2> QED BY <1>1, <1>2, <2>1, Widths
<1>4. (Page * q + (r + Word)) % Page = r + Word
  BY <1>1, <1>3, Widths, ModOfSum
<1>5. a + Word = Page * q + (r + Word)
  <2>1. Page * q \in Nat BY <1>1, Widths
  <2> QED BY <1>1, <2>1, Widths
<1>6. (a + Word) % Page = r + Word BY <1>4, <1>5
<1>7. Span(b - 1) = Span(b) - Word BY NextWord
<1>8. Span(b) \in Int BY NextWord
<1> QED BY <1>1, <1>6, <1>7, <1>8, Widths DEF r
-----------------------------------------------------------------------------
(* The stream of the transmitter.                                          *)

\* The bounds that the two sides of the FIFO share.
LEMMA TxFacts ==
  ASSUME TxInv, tx_axis_start
  PROVE  /\ tx_pkt_addr \in Nat /\ tx_pkt_size \in Nat /\ tx_pkt_offs \in Nat
         /\ tx_pkt_size > Word /\ tx_pkt_size - 1 \in Nat
         /\ shift \in Nat /\ shift < Word
         /\ Aligned(tx_pkt_addr) = tx_pkt_addr - shift
         /\ sent \in Nat /\ tx_axis_byte_offs \in Nat /\ tx_word_left \in Nat
         /\ Word \in Nat /\ Word >= 1
<1>1. tx_pkt_addr \in Nat /\ tx_pkt_addr % Word = tx_pkt_addr - Aligned(tx_pkt_addr)
      /\ tx_pkt_addr % Word \in 0 .. Word - 1 /\ Aligned(tx_pkt_addr) \in Nat
  BY AlignedDown DEF TxInv, TxType
<1> QED BY <1>1, Widths DEF TxInv, TxType, shift

LEMMA TxBuffer ==
  ASSUME TxInv
  PROVE  /\ tx_buf \in Seq(Bytes) /\ Len(tx_buf) \in Nat /\ Len(tx_buf) < Fifo
         /\ Span(Len(tx_buf)) \in Nat
         /\ tx_buf # <<>> => Len(tx_buf) >= 1
<1>1. tx_buf \in Seq(Bytes) /\ Len(tx_buf) < Fifo BY DEF TxInv, TxType
<1>2. Len(tx_buf) \in Nat BY <1>1, LenProperties
<1>3. tx_buf # <<>> => Len(tx_buf) >= 1 BY <1>1, <1>2, EmptySeq
<1> QED BY <1>1, <1>2, <1>3, Multiples

\* While there is something to read, the word to be pushed is in the packet.
LEMMA TxUnread ==
  ASSUME TxInv, tx_axis_start, ~tx_axis_stop, ~tx_m_axi_stop
  PROVE  Pushed < tx_pkt_size /\ Pushed \in Nat /\ tx_pkt_offs < tx_pkt_size
<1> DEFINE l == tx_pkt_addr + tx_pkt_size - 1
           w == Span(tx_word_left)
<1>1. l \in Nat /\ Aligned(l) \in Nat /\ Aligned(l) <= l
  <2>1. l \in Nat BY TxFacts
  <2> HIDE DEF l
  <2> QED BY <2>1, AlignedDown
<1>2. w \in Nat /\ w >= Word
  <2>1. tx_word_left >= 1 BY DEF TxInv, TxWalk
  <2> QED BY <2>1, TxFacts, Multiples
<1>3. /\ Aligned(tx_pkt_addr + tx_pkt_offs) + w = Aligned(l) + Word
      /\ tx_pkt_offs # 0 =>
           Aligned(tx_pkt_addr + tx_pkt_offs) = tx_pkt_addr + tx_pkt_offs
  BY DEF TxInv, TxWalk, tx_burst_araddr
<1> HIDE DEF w
<1>4. tx_pkt_offs < tx_pkt_size
  <2>1. CASE tx_pkt_offs = 0 BY <2>1, TxFacts, Widths
  <2>2. CASE tx_pkt_offs # 0
    <3> DEFINE z == Aligned(l)
    <3>1. z \in Nat /\ z <= l /\ tx_pkt_addr + tx_pkt_offs + w = z + Word
      BY <1>1, <1>3, <2>2
    <3> HIDE DEF z
    <3> QED BY <1>2, <3>1, TxFacts
  <2> QED BY <2>1, <2>2
<1>5. Pushed = IF shift = 0 \/ tx_pkt_offs = 0 THEN tx_pkt_offs
               ELSE tx_pkt_offs - (Word - shift)
  BY DEF TxInv, TxPlaces
<1>6. Pushed \in Nat
  <2>1. tx_axis_byte_offs <= sent BY DEF TxInv, TxPlaces, TxAt
  <2> QED BY <2>1, TxFacts, TxBuffer DEF Pushed
<1> QED BY <1>4, <1>5, <1>6, TxFacts

\* Pushed in the other cases.
LEMMA TxRead ==
  ASSUME TxInv, tx_axis_start, ~tx_axis_stop, tx_m_axi_stop
  PROVE  /\ Pushed = Aligned(tx_pkt_size - 1) + (IF tx_burst_tail THEN 0 ELSE Word)
         /\ Aligned(tx_pkt_size - 1) \in Nat /\ Aligned(tx_pkt_size - 1) < tx_pkt_size
         /\ tx_pkt_size <= Aligned(tx_pkt_size - 1) + Word
<1>1. Aligned(tx_pkt_size - 1) \in Nat /\ Aligned(tx_pkt_size - 1) <= tx_pkt_size - 1
      /\ tx_pkt_size - 1 < Aligned(tx_pkt_size - 1) + Word
  BY TxFacts, AlignedDown
<1> QED BY <1>1, TxFacts, Widths DEF TxInv, TxPlaces

LEMMA ByteLast ==
  ASSUME TxInv, tx_axis_start, unit \in {1, Word}
  PROVE  byte_last = IF unit = 1 THEN (tx_pkt_size - 1) % Word ELSE 0
<1> DEFINE n == tx_pkt_size - 1
<1>1. n \in Nat BY TxFacts
<1>2. CASE unit = 1
  <2>1. (tx_pkt_size + Word - unit) % Word = n % Word
    <3> DEFINE a == Aligned(n)
               r == n % Word
    <3>1. a \in Nat /\ OnWord(a) /\ r \in 0 .. Word - 1 /\ n = a + r
      BY <1>1, AlignedDown
    <3> HIDE DEF a, r, n
    <3>2. OnWord(a + Word) BY <3>1, MultipleNext
    <3>5. a + Word \in Nat BY <3>1, Widths
    <3>3. ((a + Word) + r) % Word = r BY <3>1, <3>2, <3>5, AlignedSum
    <3>4. tx_pkt_size + Word - unit = (a + Word) + r
      BY <1>2, <3>1, TxFacts, Widths DEF n
    <3> QED BY <3>3, <3>4 DEF r
  <2>2. n % Word \in Nat BY <1>1, AlignedDown
  <2> HIDE DEF n
  <2>3. (n % Word) % 1 = 0 BY <2>2
  <2>4. byte_last = (n % Word) - ((n % Word) % 1)
    BY <1>2, <2>1 DEF byte_last
  <2> QED BY <1>2, <2>2, <2>3, <2>4 DEF n
<1>3. CASE unit = Word /\ unit # 1
  <2>1. tx_pkt_size + Word - unit = tx_pkt_size BY <1>3, TxFacts, Widths
  <2> DEFINE r == tx_pkt_size % Word
  <2>2. r \in 0 .. Word - 1 BY TxFacts, AlignedDown
  <2>3. byte_last = r - (r % Word) BY <1>3, <2>1 DEF byte_last
  <2> HIDE DEF r
  <2>4. (Word * 0 + r) % Word = r BY <2>2, Widths, ModOfSum
  <2>5. r % Word = r BY <2>2, <2>4, Widths
  <2> QED BY <1>3, <2>2, <2>3, <2>5
<1> QED BY <1>2, <1>3

\* The stream ends where the packet does.
LEMMA TxLast ==
  ASSUME TxInv, unit \in {1, Word}, tx_axis_start, tx_buf # <<>>
  PROVE  /\ ~tx_axis_stop /\ Len(tx_buf) >= 1
         /\ tx_axis_tlast <=> sent + unit >= tx_pkt_size
         /\ tx_axis_tlast => /\ sent - tx_axis_byte_offs = Aligned(tx_pkt_size - 1)
                             /\ Len(tx_buf) = 1
<1> DEFINE S == sent - tx_axis_byte_offs
           n == tx_pkt_size - 1
<1>1. ~tx_axis_stop BY DEF TxInv, TxIdle
<1>2. Len(tx_buf) >= 1 BY TxFacts, EmptySeq
<1>3. /\ S \in Nat /\ OnWord(S) /\ sent < tx_pkt_size
      /\ tx_axis_byte_offs <= Word - unit /\ sent = S + tx_axis_byte_offs
      /\ unit = Word => tx_axis_byte_offs = 0
  <2>1. TxAt(tx_buf, sent, tx_axis_byte_offs) BY <1>1 DEF TxInv, TxPlaces
  <2> QED BY <2>1, TxFacts DEF TxAt
<1>4. /\ n \in Nat /\ n = tx_pkt_size - 1 /\ n % Word = n - Aligned(n)
      /\ Aligned(n) \in Nat /\ Aligned(n) <= n /\ n < Aligned(n) + Word
  BY TxFacts, AlignedDown
<1>5. /\ Pushed = S + Span(Len(tx_buf))
      /\ Len(tx_buf) >= 2 => Span(Len(tx_buf)) >= Word + Word
      /\ Span(Len(tx_buf)) >= Word
  BY <1>2, TxBuffer, Multiples DEF Pushed
<1>6. tx_axis_tlast <=> /\ tx_m_axi_stop /\ ~tx_burst_tail /\ Len(tx_buf) = 1
                        /\ tx_axis_byte_offs = byte_last
  BY DEF tx_axis_tlast
<1> DEFINE p == Span(Len(tx_buf))
           z == Aligned(n)
           m == n % Word
<1>7. p \in Nat BY TxBuffer
<1>8. byte_last = IF unit = 1 THEN m ELSE 0 BY ByteLast
<1>9. tx_m_axi_stop /\ ~tx_burst_tail => Pushed = z + Word
  BY <1>1, TxRead
<1>10. ~tx_m_axi_stop \/ tx_burst_tail => Pushed <= n
  <2>1. CASE ~tx_m_axi_stop
    <3>1. Pushed < tx_pkt_size /\ Pushed \in Nat BY <1>1, <2>1, TxUnread
    <3> QED BY <1>4, <3>1, TxFacts
  <2>2. CASE tx_m_axi_stop /\ tx_burst_tail BY <1>1, <1>4, <2>2, TxRead
  <2> QED BY <2>1, <2>2
<1>11. Len(tx_buf) = 1 => p = Word BY TxBuffer, NextWord
<1> HIDE DEF S, n, p, z, m
<1>12. /\ n \in Nat /\ tx_pkt_size = n + 1 /\ m = n - z /\ z \in Nat
       /\ z <= n /\ n < z + Word
  BY <1>4, TxFacts DEF z, m
<1>15. /\ Pushed = S + p /\ p >= Word /\ p \in Nat
       /\ Len(tx_buf) >= 2 => p >= Word + Word
  BY <1>5, <1>7 DEF p
<1>16. S \in Nat BY <1>3
<1>13. tx_axis_tlast => S = z /\ sent + unit >= tx_pkt_size /\ Len(tx_buf) = 1
  BY <1>3, <1>6, <1>8, <1>9, <1>11, <1>12, <1>15, <1>16, Widths
<1>14. ~tx_axis_tlast => sent + unit < tx_pkt_size
  <2>6. /\ S \in Int /\ z \in Int /\ p \in Int /\ Word \in Int
        /\ tx_axis_byte_offs \in Int
    BY <1>12, <1>15, <1>16, TxFacts, Widths
  <2>5. S + Word <= n => sent + unit < tx_pkt_size
    <3>1. sent + unit <= S + Word
      <4>1. sent = S + tx_axis_byte_offs /\ tx_axis_byte_offs <= Word - unit
        BY <1>3
      <4>2. unit \in Int BY <2>6
      <4> QED BY ONLY <4>1, <4>2, <2>6
    <3>2. sent + unit \in Int BY TxFacts, <2>6
    <3> QED BY ONLY <1>12, <2>6, <3>1, <3>2
  <2>1. CASE ~tx_m_axi_stop \/ tx_burst_tail
    <3>1. S + p <= n BY <1>10, <1>15, <2>1
    <3>2. S + Word <= n BY <1>12, <1>15, <1>16, <3>1, Widths
    <3> QED BY <3>2, <2>5
  <2>2. CASE tx_m_axi_stop /\ ~tx_burst_tail /\ Len(tx_buf) >= 2
    <3>1. S + p = z + Word /\ p >= Word + Word BY <1>9, <1>15, <2>2
    <3>2. S + Word <= z BY ONLY <3>1, <2>6
    <3>3. S + Word <= n BY ONLY <3>2, <2>6, <1>12
    <3> QED BY <3>3, <2>5
  <2>3. CASE tx_m_axi_stop /\ ~tx_burst_tail /\ Len(tx_buf) = 1
    <3>1. S = z
      <4>1. S + p = z + Word /\ p = Word BY <1>9, <1>11, <1>15, <2>3
      <4> QED BY ONLY <4>1, <2>6
    <3>2. ~tx_axis_tlast => tx_axis_byte_offs # (IF unit = 1 THEN m ELSE 0)
      BY <1>6, <1>8, <2>3
    <3> HAVE ~tx_axis_tlast
    <3>3. tx_axis_byte_offs # (IF unit = 1 THEN m ELSE 0) BY <3>2
    <3>4. CASE unit = 1
      <4>1. S + tx_axis_byte_offs + 1 < n + 1 \/ tx_axis_byte_offs >= m
        BY ONLY <1>12, <3>1, <2>6
      <4>2. tx_axis_byte_offs # m BY <3>3, <3>4
      <4>3. S + tx_axis_byte_offs < n + 1 BY <1>3, <1>12
      <4>4. S + tx_axis_byte_offs + 1 < n + 1
        BY ONLY <1>12, <3>1, <2>6, <4>1, <4>2, <4>3
      <4>5. sent + unit = S + tx_axis_byte_offs + 1 BY <1>3, <3>4
      <4> QED BY <1>12, <4>4, <4>5
    <3>5. CASE unit = Word /\ unit # 1 BY <1>3, <3>3, <3>5
    <3> QED BY <3>4, <3>5
  <2>4. Len(tx_buf) >= 2 \/ Len(tx_buf) = 1
    <3>1. Len(tx_buf) \in Nat BY TxBuffer
    <3> QED BY <1>2, <3>1
  <2> QED BY <2>1, <2>2, <2>3, <2>4
<1>17. tx_axis_tlast <=> sent + unit >= tx_pkt_size
  <2>1. sent + unit \in Int /\ tx_pkt_size \in Int BY TxFacts
  <2> QED BY <1>13, <1>14, <2>1
<1> QED BY <1>1, <1>2, <1>13, <1>17 DEF S, z, n

\* What the stream leaves behind, taken or not.
LEMMA TxStreamed ==
  ASSUME NEW ready, TxInv, unit \in {1, Word}, tx_axis_start, TxStream(ready)
  PROVE  /\ Kept(ready) \in Seq(Bytes) /\ Len(Kept(ready)) \in Nat
         /\ Len(Kept(ready)) <= Len(tx_buf)
         /\ sent' \in Nat /\ tx_axis_byte_offs' \in Nat /\ tx_axis_stop' \in BOOLEAN
         /\ tx_axis_stop' =>
              Kept(ready) = <<>> /\ tx_m_axi_stop /\ ~tx_burst_tail
         /\ ~tx_axis_stop' =>
              /\ ~tx_axis_stop
              /\ TxAt(Kept(ready), sent', tx_axis_byte_offs')
              /\ (sent' - tx_axis_byte_offs') + Span(Len(Kept(ready))) = Pushed
<1> DEFINE o == tx_axis_byte_offs
<1>1. CASE ~(tx_axis_tvalid /\ ready)
  <2>1. /\ Kept(ready) = tx_buf /\ sent' = sent /\ o' = o
        /\ tx_axis_stop' = tx_axis_stop
    BY <1>1 DEF TxStream, Kept
  <2>2. sent \in Nat /\ o \in Nat BY TxFacts
  <2>3. tx_axis_stop \in BOOLEAN BY DEF TxInv, TxType
  <2>4. tx_axis_stop => tx_buf = <<>> /\ tx_m_axi_stop /\ ~tx_burst_tail
    BY DEF TxInv, TxIdle
  <2>5. ~tx_axis_stop => TxAt(tx_buf, sent, o) BY DEF TxInv, TxPlaces
  <2>6. tx_buf \in Seq(Bytes) /\ Len(tx_buf) \in Nat BY TxBuffer
  <2> QED BY <2>1, <2>2, <2>3, <2>4, <2>5, <2>6 DEF Pushed
<1>2. CASE tx_axis_tvalid /\ ready
  <2>1. tx_buf # <<>> BY <1>2 DEF tx_axis_tvalid
  <2>2. /\ o' = (o + unit) % Word /\ sent' = sent + unit
        /\ tx_axis_stop' = (tx_axis_stop \/ tx_axis_tlast)
        /\ Kept(ready) = IF Pops THEN Tail(tx_buf) ELSE tx_buf
    BY <1>2 DEF TxStream, Kept
  <2>3. /\ tx_buf \in Seq(Bytes) /\ Len(tx_buf) \in Nat /\ Len(tx_buf) >= 1
        /\ Tail(tx_buf) \in Seq(Bytes) /\ Len(Tail(tx_buf)) = Len(tx_buf) - 1
        /\ \A j \in 1 .. Len(tx_buf) - 1 : Tail(tx_buf)[j] = tx_buf[j + 1]
    BY <2>1, TxBuffer, HeadTailProperties
  <2>4. /\ ~tx_axis_stop /\ (tx_axis_tlast <=> sent + unit >= tx_pkt_size)
        /\ tx_axis_tlast => Len(tx_buf) = 1
    BY <2>1, TxLast
  <2>5. sent \in Nat /\ o \in Nat /\ tx_pkt_size \in Nat /\ Word \in Nat /\ Word >= 1
        /\ unit \in Nat /\ unit >= 1
    BY TxFacts
  <2>6. o' \in Nat
    <3>1. o + unit \in Nat BY <2>5
    <3> QED BY <2>2, <3>1, AlignedDown
  <2>7. /\ Kept(ready) \in Seq(Bytes) /\ Len(Kept(ready)) \in Nat
        /\ Len(Kept(ready)) <= Len(tx_buf) /\ sent' \in Nat
    BY <2>2, <2>3, <2>5
  <2>8. ASSUME tx_axis_tlast
        PROVE  Kept(ready) = <<>> /\ tx_m_axi_stop /\ ~tx_burst_tail
    <3>1. Len(tx_buf) = 1 BY <2>4, <2>8
    <3>3. Len(Tail(tx_buf)) = 0 BY <2>3, <3>1
    <3>2. Kept(ready) = Tail(tx_buf) BY <2>2, <2>8 DEF Pops
    <3> QED BY <2>3, <2>8, <3>2, <3>3, EmptySeq DEF tx_axis_tlast
  <2>9. ASSUME ~tx_axis_tlast
        PROVE  /\ TxAt(Kept(ready), sent', o')
               /\ (sent' - o') + Span(Len(Kept(ready))) = Pushed
    <3>1. TxAt(tx_buf, sent, o) BY <2>4 DEF TxInv, TxPlaces
    <3>2. /\ o <= sent /\ OnWord(sent - o) /\ o <= Word - unit
          /\ unit = Word => o = 0
          /\ TxWords(tx_buf, sent - o)
      BY <3>1 DEF TxAt
    <3>3. sent' < tx_pkt_size BY <2>2, <2>4, <2>5, <2>9
    <3>4. CASE o = Word - unit
      <4>1. Kept(ready) = Tail(tx_buf) BY <2>2, <3>4 DEF Pops
      <4>2. o' = 0
        <5>1. OnWord(Word)
          <6>1. OnWord(0 + Word) BY MultipleNext, Widths DEF OnWord
          <6> QED BY <6>1, Widths
        <5>2. o + unit = Word BY <2>5, <3>4
        <5> QED BY <2>2, <5>1, <5>2 DEF OnWord
      <4>3. sent' - o' = (sent - o) + Word BY <2>2, <2>5, <3>4, <4>2
      <4>4. OnWord(sent' - o')
        <5>1. sent - o \in Nat BY <2>5, <3>2
        <5> QED BY <3>2, <4>3, <5>1, MultipleNext
      <4>5. TxWords(Tail(tx_buf), sent' - o')
        <5> SUFFICES ASSUME NEW j \in 1 .. Len(Tail(tx_buf)), NEW i \in Lanes,
                            (sent' - o') + Span(j - 1) + i < tx_pkt_size
                     PROVE  Tail(tx_buf)[j][i]
                              = tx_pkt_addr + (sent' - o') + Span(j - 1) + i
          BY DEF TxWords
        <5>1. j \in 1 .. Len(tx_buf) - 1 /\ j + 1 \in 1 .. Len(tx_buf)
              /\ j - 1 \in Int /\ (j + 1) - 1 = (j - 1) + 1
          BY <2>3
        <5>2. Tail(tx_buf)[j] = tx_buf[j + 1] BY <2>3, <5>1
        <5>3. Span((j + 1) - 1) = Span(j - 1) + Word /\ Span(j - 1) \in Int
          BY <5>1, NextWord
        <5>4. i \in Int BY <2>5 DEF Lanes
        <5>5. (sent - o) + Span((j + 1) - 1) + i = (sent' - o') + Span(j - 1) + i
          BY <2>5, <4>3, <5>3, <5>4
        <5>6. (sent - o) + Span((j + 1) - 1) + i < tx_pkt_size BY <5>5
        <5>7. tx_buf[j + 1][i] = tx_pkt_addr + (sent - o) + Span((j + 1) - 1) + i
          BY <3>2, <5>1, <5>6 DEF TxWords
        <5> QED BY <2>5, <4>3, <5>2, <5>3, <5>4, <5>7, TxFacts
      <4>6. Span(Len(Tail(tx_buf))) = Span(Len(tx_buf)) - Word
            /\ Span(Len(tx_buf)) \in Int
        BY <2>3, NextWord
      <4>7. (sent' - o') + Span(Len(Kept(ready))) = Pushed
        BY <2>5, <4>1, <4>3, <4>6 DEF Pushed
      <4>8. 0 <= Word - unit BY <2>5, TxFacts
      <4> QED
        BY <2>5, <2>7, <3>3, <4>1, <4>2, <4>4, <4>5, <4>7, <4>8 DEF TxAt
    <3>5. CASE o # Word - unit
      <4>1. unit = 1 /\ o + 1 <= Word - 1 BY <2>5, <3>2, <3>5, TxFacts
      <4>2. Kept(ready) = tx_buf BY <2>2, <2>9, <3>5 DEF Pops
      <4>3. o' = o + 1
        <5>1. (Word * 0 + (o + 1)) % Word = o + 1
          BY <2>5, <4>1, Widths, ModOfSum
        <5> QED BY <2>2, <2>5, <4>1, <5>1
      <4>4. sent' - o' = sent - o /\ o' <= sent' BY <2>2, <2>5, <3>2, <4>1, <4>3
      <4>5. unit = Word => o' = 0 BY <2>5, <4>1
      <4> QED
        BY <2>1, <2>5, <3>2, <3>3, <4>1, <4>2, <4>3, <4>4, <4>5 DEF TxAt, Pushed
    <3> QED BY <3>4, <3>5
  <2>10. tx_axis_stop' = tx_axis_tlast /\ tx_axis_tlast \in BOOLEAN
    BY <2>2, <2>4 DEF tx_axis_tlast
  <2> QED BY <2>2, <2>4, <2>5, <2>6, <2>7, <2>8, <2>9, <2>10
<1> QED BY <1>1, <1>2

\* A word with the bytes of its place may follow.
LEMMA TxAppend ==
  ASSUME NEW k \in Seq(Bytes), NEW s \in Nat, NEW o \in Nat, NEW w \in Bytes,
         tx_pkt_size \in Nat, TxAt(k, s, o), (s - o) + Span(Len(k)) < tx_pkt_size,
         \A i \in Lanes : (s - o) + Span(Len(k)) + i < tx_pkt_size =>
            w[i] = tx_pkt_addr + (s - o) + Span(Len(k)) + i
  PROVE  /\ Append(k, w) \in Seq(Bytes) /\ Len(Append(k, w)) = Len(k) + 1
         /\ TxAt(Append(k, w), s, o)
         /\ (s - o) + Span(Len(Append(k, w))) = (s - o) + Span(Len(k)) + Word
<1>1. /\ Append(k, w) \in Seq(Bytes) /\ Append(k, w) # <<>> /\ Len(k) \in Nat
      /\ Len(Append(k, w)) = Len(k) + 1
      /\ \A j \in 1 .. Len(k) : Append(k, w)[j] = k[j]
      /\ Append(k, w)[Len(k) + 1] = w
  BY AppendProperties, LenProperties
<1>2. TxWords(Append(k, w), s - o)
  <2> SUFFICES ASSUME NEW j \in 1 .. Len(k) + 1, NEW i \in Lanes,
                      (s - o) + Span(j - 1) + i < tx_pkt_size
               PROVE  Append(k, w)[j][i] = tx_pkt_addr + (s - o) + Span(j - 1) + i
    BY <1>1 DEF TxWords
  <2>1. CASE j \in 1 .. Len(k) BY <1>1, <2>1 DEF TxAt, TxWords
  <2>2. CASE j = Len(k) + 1
    <3>1. j - 1 = Len(k) BY <1>1, <2>2
    <3> QED BY <1>1, <2>2, <3>1
  <2> QED BY <1>1, <2>1, <2>2
<1>3. Span(Len(k) + 1) = Span(Len(k)) + Word /\ Span(Len(k)) \in Nat
      /\ (Len(k) = 0 => Span(Len(k)) = 0)
  BY <1>1, NextWord, Multiples
<1>4. s < tx_pkt_size
  <2>1. CASE k = <<>>
    <3>1. Len(k) = 0 /\ o = 0 BY <2>1, EmptySeq DEF TxAt
    <3> QED BY <1>3, <3>1
  <2>2. CASE k # <<>> BY <2>2 DEF TxAt
  <2> QED BY <2>1, <2>2
<1> QED BY <1>1, <1>2, <1>3, <1>4, Widths DEF TxAt

-----------------------------------------------------------------------------
(* The bus of the transmitter.                                             *)

\* A clock of a packet, as the stream sees it.
TxOn(ready) ==
  /\ tx_start /\ tx_axis_start
  /\ TxStream(ready)
  /\ tx_start' = ~(tx_axis_stop /\ tx_m_axi_stop)
  /\ UNCHANGED <<unit, tx_axis_start, txDesc>>

LEMMA TxSame ==
  ASSUME UNCHANGED <<unit, txDesc>>
  PROVE  /\ tx_pkt_addr' = tx_pkt_addr /\ tx_pkt_size' = tx_pkt_size
         /\ shift' = shift /\ (TailNeeded' <=> TailNeeded)
         /\ TxAt(tx_buf', sent', tx_axis_byte_offs')
              => TxAt(tx_buf, sent, tx_axis_byte_offs)'
<1>1. /\ tx_pkt_addr' = tx_pkt_addr /\ tx_pkt_size' = tx_pkt_size /\ unit' = unit
  BY DEF txDesc
<1>2. shift' = shift BY <1>1 DEF shift
<1>3. TailNeeded' <=> TailNeeded BY <1>1, <1>2 DEF TailNeeded
<1>4. TxWords(tx_buf', sent' - tx_axis_byte_offs')
        => TxWords(tx_buf, sent - tx_axis_byte_offs)'
  BY <1>1 DEF TxWords, Span
<1> QED BY <1>1, <1>2, <1>3, <1>4 DEF TxAt, OnWord

\* Nothing is pushed.
LEMMA TxQuiet ==
  ASSUME NEW ready, TxInv, unit \in {1, Word}, TxOn(ready), tx_buf' = Kept(ready)
  PROVE  /\ tx_buf' \in Seq(Bytes) /\ Len(tx_buf') \in Nat
         /\ Len(tx_buf') <= Len(tx_buf)
         /\ sent' \in Nat /\ tx_axis_byte_offs' \in Nat /\ tx_axis_stop' \in BOOLEAN
         /\ tx_axis_stop' => tx_buf' = <<>> /\ tx_m_axi_stop /\ ~tx_burst_tail
         /\ ~tx_axis_stop' => /\ ~tx_axis_stop
                              /\ TxAt(tx_buf, sent, tx_axis_byte_offs)'
                              /\ Pushed' = Pushed
<1>1. tx_axis_start /\ TxStream(ready) /\ UNCHANGED <<unit, txDesc>> BY DEF TxOn
<1>2. ~tx_axis_stop' => TxAt(tx_buf, sent, tx_axis_byte_offs)'
  BY <1>1, TxStreamed, TxSame
<1>3. ~tx_axis_stop' => Pushed' = Pushed
  BY <1>1, TxStreamed DEF Pushed, Span
<1> QED BY <1>1, <1>2, <1>3, TxStreamed

\* A word is pushed.
LEMMA TxPush ==
  ASSUME NEW ready, TxInv, unit \in {1, Word}, TxOn(ready), NEW w \in Bytes,
         tx_buf' = Append(Kept(ready), w), ~tx_m_axi_stop \/ tx_burst_tail,
         Pushed < tx_pkt_size,
         \A i \in Lanes :
           Pushed + i < tx_pkt_size => w[i] = tx_pkt_addr + Pushed + i
  PROVE  /\ tx_buf' \in Seq(Bytes) /\ Len(tx_buf') \in Nat
         /\ Len(tx_buf') <= Len(tx_buf) + 1
         /\ sent' \in Nat /\ tx_axis_byte_offs' \in Nat
         /\ ~tx_axis_stop /\ ~tx_axis_stop' /\ tx_axis_stop' \in BOOLEAN
         /\ TxAt(tx_buf, sent, tx_axis_byte_offs)'
         /\ Pushed' = Pushed + Word
<1> DEFINE k == Kept(ready)
<1>1. tx_axis_start /\ TxStream(ready) /\ UNCHANGED <<unit, txDesc>> BY DEF TxOn
<1>2. /\ k \in Seq(Bytes) /\ Len(k) \in Nat /\ Len(k) <= Len(tx_buf)
      /\ sent' \in Nat /\ tx_axis_byte_offs' \in Nat /\ tx_axis_stop' \in BOOLEAN
      /\ tx_axis_stop' => tx_m_axi_stop /\ ~tx_burst_tail
      /\ ~tx_axis_stop' => /\ ~tx_axis_stop
                           /\ TxAt(k, sent', tx_axis_byte_offs')
                           /\ (sent' - tx_axis_byte_offs') + Span(Len(k)) = Pushed
  BY <1>1, TxStreamed
<1>3. ~tx_axis_stop' BY <1>2
<1>4. tx_pkt_addr \in Nat /\ tx_pkt_size \in Nat BY <1>1, TxFacts
<1>5. Span(Len(k)) \in Nat BY <1>2, Multiples
<1> HIDE DEF k
<1>6. \A i \in Lanes :
        (sent' - tx_axis_byte_offs') + Span(Len(k)) + i < tx_pkt_size =>
          w[i] = tx_pkt_addr + (sent' - tx_axis_byte_offs') + Span(Len(k)) + i
  <2> TAKE i \in Lanes
  <2>1. i \in Int BY Widths DEF Lanes
  <2>2. tx_pkt_addr + Pushed + i
          = tx_pkt_addr + (sent' - tx_axis_byte_offs') + Span(Len(k)) + i
    BY <1>2, <1>3, <1>4, <1>5, <2>1
  <2> QED BY <1>2, <1>3, <2>2
<1>7. /\ Append(k, w) \in Seq(Bytes) /\ Len(Append(k, w)) = Len(k) + 1
      /\ TxAt(Append(k, w), sent', tx_axis_byte_offs')
      /\ (sent' - tx_axis_byte_offs') + Span(Len(Append(k, w)))
           = (sent' - tx_axis_byte_offs') + Span(Len(k)) + Word
  BY <1>2, <1>3, <1>4, <1>6, TxAppend
<1>8. tx_buf' = Append(k, w) BY DEF k
<1>9. TxAt(tx_buf, sent, tx_axis_byte_offs)' BY <1>1, <1>7, <1>8, TxSame
<1>10. Pushed' = Pushed + Word
  <2>1. Pushed' = (sent' - tx_axis_byte_offs') + Span(Len(tx_buf'))
    BY DEF Pushed, Span
  <2> QED BY <1>2, <1>3, <1>7, <1>8, <2>1
<1>11. Len(tx_buf') \in Nat /\ Len(tx_buf') <= Len(tx_buf) + 1
  <2>1. Len(tx_buf) \in Nat BY TxBuffer
  <2> QED BY <1>2, <1>7, <1>8, <2>1
<1> QED BY <1>2, <1>3, <1>7, <1>8, <1>9, <1>10, <1>11

\* What a clock of a packet leaves as it was.
LEMMA TxKeeps ==
  ASSUME NEW ready, TxInv, unit \in {1, Word}, TxOn(ready),
         tx_m_axi_stop => tx_m_axi_stop', tx_m_axi_stop' \in BOOLEAN,
         tx_burst_tail' \in BOOLEAN, tx_axis_stop' \in BOOLEAN,
         tx_buf' \in Seq(Bytes), Len(tx_buf') < Fifo, tx_burst_head' \in Bytes,
         tx_pkt_offs' \in Nat, tx_word_left' \in Nat, tx_axis_byte_offs' \in Nat,
         r_adr' \in Nat, r_left' \in Nat, sent' \in Nat,
         tx_axis_stop' => tx_buf' = <<>> /\ tx_m_axi_stop' /\ ~tx_burst_tail'
  PROVE  TxType' /\ TxIdle'
<1>1. /\ tx_start' \in BOOLEAN /\ tx_axis_start' = tx_axis_start
      /\ tx_pkt_addr' = tx_pkt_addr /\ tx_pkt_size' = tx_pkt_size
      /\ tx_axis_start
  BY DEF TxOn, txDesc
<1>2. TxType' BY <1>1 DEF TxInv, TxType
<1>3. tx_start' \/ (tx_axis_stop' /\ tx_m_axi_stop')
  <2>1. tx_start' \/ (tx_axis_stop /\ tx_m_axi_stop) BY DEF TxOn
  <2>2. tx_axis_stop => tx_axis_stop' BY DEF TxOn, TxStream
  <2> QED BY <2>1, <2>2
<1> QED BY <1>1, <1>2, <1>3 DEF TxIdle

\* Where the next word to be read is.
LEMMA TxReading ==
  ASSUME TxInv, tx_axis_start, ~tx_m_axi_stop
  PROVE  /\ tx_burst_araddr \in Nat /\ OnWord(tx_burst_araddr)
         /\ Aligned(tx_pkt_addr + tx_pkt_size - 1) \in Nat
         /\ Aligned(tx_pkt_addr + tx_pkt_size - 1) <= tx_pkt_addr + tx_pkt_size - 1
         /\ tx_pkt_addr + tx_pkt_size - 1
              < Aligned(tx_pkt_addr + tx_pkt_size - 1) + Word
         /\ tx_word_left >= 1 /\ Span(tx_word_left) \in Nat
         /\ tx_burst_araddr + Span(tx_word_left)
              = Aligned(tx_pkt_addr + tx_pkt_size - 1) + Word
         /\ tx_pkt_offs # 0 => tx_burst_araddr = tx_pkt_addr + tx_pkt_offs
         /\ tx_pkt_offs = 0 => tx_burst_araddr = tx_pkt_addr - shift
         /\ shift = 0 => tx_burst_araddr = tx_pkt_addr + tx_pkt_offs
<1>1. tx_pkt_addr + tx_pkt_offs \in Nat /\ tx_pkt_addr + tx_pkt_size - 1 \in Nat
  BY TxFacts
<1>2. /\ tx_word_left >= 1
      /\ tx_burst_araddr + Span(tx_word_left)
           = Aligned(tx_pkt_addr + tx_pkt_size - 1) + Word
      /\ tx_pkt_offs # 0 => tx_burst_araddr = tx_pkt_addr + tx_pkt_offs
  BY DEF TxInv, TxWalk, tx_burst_araddr
<1>3. tx_pkt_offs = 0 => tx_burst_araddr = tx_pkt_addr - shift
  BY TxFacts DEF tx_burst_araddr
<1>4. tx_burst_araddr \in Nat /\ OnWord(tx_burst_araddr)
  BY <1>1, AlignedDown DEF tx_burst_araddr
<1>5. /\ Aligned(tx_pkt_addr + tx_pkt_size - 1) \in Nat
      /\ Aligned(tx_pkt_addr + tx_pkt_size - 1) <= tx_pkt_addr + tx_pkt_size - 1
      /\ tx_pkt_addr + tx_pkt_size - 1
           < Aligned(tx_pkt_addr + tx_pkt_size - 1) + Word
  BY <1>1, AlignedDown
<1>6. Span(tx_word_left) \in Nat BY TxFacts, Multiples
<1>7. shift = 0 => tx_burst_araddr = tx_pkt_addr + tx_pkt_offs
  BY <1>2, <1>3, TxFacts
<1> QED BY <1>2, <1>3, <1>4, <1>5, <1>6, <1>7

\* Nothing is read and nothing is pushed.
LEMMA TxCarries ==
  ASSUME NEW ready, TxInv, unit \in {1, Word}, TxOn(ready), tx_buf' = Kept(ready),
         UNCHANGED <<tx_m_axi_stop, tx_burst_head, tx_burst_tail, tx_pkt_offs,
                     tx_word_left>>,
         r_adr' \in Nat, r_left' \in Nat
  PROVE  /\ TxType' /\ TxIdle' /\ TxPlaces' /\ TxHead'
         /\ tx_burst_araddr' = tx_burst_araddr
         /\ Aligned(tx_pkt_addr + tx_pkt_size - 1)'
              = Aligned(tx_pkt_addr + tx_pkt_size - 1)
         /\ tx_axis_start' /\ Len(tx_buf') \in Nat /\ Len(tx_buf') <= Len(tx_buf)
<1>1. tx_axis_start /\ tx_axis_start' = tx_axis_start /\ UNCHANGED <<unit, txDesc>>
  BY DEF TxOn
<1>2. /\ tx_pkt_addr' = tx_pkt_addr /\ tx_pkt_size' = tx_pkt_size
      /\ shift' = shift /\ (TailNeeded' <=> TailNeeded)
  BY <1>1, TxSame
<1>3. /\ tx_buf' \in Seq(Bytes) /\ Len(tx_buf') \in Nat
      /\ Len(tx_buf') <= Len(tx_buf)
      /\ sent' \in Nat /\ tx_axis_byte_offs' \in Nat /\ tx_axis_stop' \in BOOLEAN
      /\ tx_axis_stop' => tx_buf' = <<>> /\ tx_m_axi_stop /\ ~tx_burst_tail
      /\ ~tx_axis_stop' => /\ ~tx_axis_stop
                           /\ TxAt(tx_buf, sent, tx_axis_byte_offs)'
                           /\ Pushed' = Pushed
  BY TxQuiet
<1>4. TxType' /\ TxIdle'
  <2>1. Len(tx_buf') < Fifo BY <1>3, TxBuffer, Widths
  <2>2. /\ tx_m_axi_stop \in BOOLEAN /\ tx_burst_tail \in BOOLEAN
        /\ tx_burst_head \in Bytes /\ tx_pkt_offs \in Nat /\ tx_word_left \in Nat
    BY DEF TxInv, TxType
  <2> QED BY <1>3, <2>1, <2>2, TxKeeps
<1>5. TxPlaces'
  <2> SUFFICES ASSUME ~tx_axis_stop' PROVE TxPlaces' BY DEF TxPlaces
  <2>1. /\ tx_burst_tail => shift # 0 /\ tx_pkt_offs # 0 /\ TailNeeded
        /\ ~tx_m_axi_stop =>
             /\ shift # 0 /\ tx_pkt_offs # 0 => (tx_burst_tail <=> TailNeeded)
             /\ Pushed = IF shift = 0 \/ tx_pkt_offs = 0 THEN tx_pkt_offs
                         ELSE tx_pkt_offs - (Word - shift)
        /\ tx_m_axi_stop =>
             Pushed = Aligned(tx_pkt_size - 1) + (IF tx_burst_tail THEN 0 ELSE Word)
    BY <1>1, <1>3 DEF TxInv, TxPlaces
  <2>2. Aligned(tx_pkt_size - 1)' = Aligned(tx_pkt_size - 1) BY <1>2 DEF Aligned
  <2> QED BY <1>2, <1>3, <2>1, <2>2 DEF TxPlaces
<1>6. TxHead'
  <2>1. TxHead BY DEF TxInv
  <2> QED BY <1>1, <1>2, <1>3, <2>1 DEF TxHead, Lanes
<1>7. /\ tx_burst_araddr' = tx_burst_araddr
      /\ Aligned(tx_pkt_addr + tx_pkt_size - 1)'
           = Aligned(tx_pkt_addr + tx_pkt_size - 1)
  BY <1>2 DEF tx_burst_araddr, Aligned
<1> QED BY <1>1, <1>3, <1>4, <1>5, <1>6, <1>7

LEMMA NoBeatStep ==
  ASSUME NEW ready, TxInv, unit \in {1, Word}, TxOn(ready), NoBeat(ready)
  PROVE  TxInv'
<1>1. r_adr \in Nat /\ r_left \in Nat BY DEF TxInv, TxType
<1>2. /\ tx_buf' = Kept(ready) /\ r_adr' = r_adr /\ r_left' = r_left
      /\ UNCHANGED <<tx_m_axi_stop, tx_burst_head, tx_burst_tail, tx_pkt_offs,
                     tx_word_left>>
  BY DEF NoBeat, txBurst
<1>3. /\ TxType' /\ TxIdle' /\ TxPlaces' /\ TxHead'
      /\ tx_burst_araddr' = tx_burst_araddr
      /\ Aligned(tx_pkt_addr + tx_pkt_size - 1)'
           = Aligned(tx_pkt_addr + tx_pkt_size - 1)
      /\ tx_axis_start' /\ Len(tx_buf') \in Nat /\ Len(tx_buf') <= Len(tx_buf)
  BY <1>1, <1>2, TxCarries
<1>4. TxWalk'
  <2>1. tx_axis_start /\ tx_pkt_addr' = tx_pkt_addr /\ tx_pkt_size' = tx_pkt_size
    BY DEF TxOn, txDesc
  <2>2. TxWalk /\ Len(tx_buf) \in Nat BY TxBuffer DEF TxInv
  <2>3. tx_axis_start' /\ ~tx_m_axi_stop' =>
          /\ tx_word_left' >= 1
          /\ tx_burst_araddr' + Span(tx_word_left)'
               = Aligned(tx_pkt_addr + tx_pkt_size - 1)' + Word
          /\ tx_pkt_offs' # 0 =>
               Aligned(tx_pkt_addr + tx_pkt_offs)' = (tx_pkt_addr + tx_pkt_offs)'
    BY <1>2, <1>3, <2>1, <2>2 DEF TxWalk, Span, tx_burst_araddr
  <2>4. r_left' > 0 =>
          /\ tx_axis_start' /\ ~tx_m_axi_stop'
          /\ r_adr' = tx_burst_araddr' /\ r_left' <= tx_word_left'
          /\ (r_adr' % Page) + Span(r_left)' <= Page
          /\ Len(tx_buf') + r_left' < Fifo
    BY <1>1, <1>2, <1>3, <2>1, <2>2, Widths DEF TxWalk, Span
  <2> QED BY <2>3, <2>4 DEF TxWalk
<1> QED BY <1>3, <1>4 DEF TxInv

\* A clock on which no word is being read and none is asked for.
LEMMA RestStep ==
  ASSUME NEW ready, TxInv, unit \in {1, Word}, TxOn(ready), r_left = 0,
         tx_buf' = Kept(ready),
         UNCHANGED <<tx_m_axi_stop, tx_burst_head, tx_burst_tail, tx_pkt_offs,
                     tx_word_left, txBurst>>
  PROVE  TxInv'
<1>1. r_adr \in Nat /\ r_left \in Nat BY DEF TxInv, TxType
<1>2. r_adr' = r_adr /\ r_left' = r_left /\ tx_word_left' = tx_word_left
  BY DEF txBurst
<1>3. /\ TxType' /\ TxIdle' /\ TxPlaces' /\ TxHead'
      /\ tx_burst_araddr' = tx_burst_araddr
      /\ Aligned(tx_pkt_addr + tx_pkt_size - 1)'
           = Aligned(tx_pkt_addr + tx_pkt_size - 1)
  BY <1>1, <1>2, TxCarries
<1>4. TxWalk'
  <2>1. tx_axis_start /\ tx_pkt_addr' = tx_pkt_addr /\ tx_pkt_size' = tx_pkt_size
    BY DEF TxOn, txDesc
  <2>2. TxWalk BY DEF TxInv
  <2>3. tx_axis_start' /\ ~tx_m_axi_stop' =>
          /\ tx_word_left' >= 1
          /\ tx_burst_araddr' + Span(tx_word_left)'
               = Aligned(tx_pkt_addr + tx_pkt_size - 1)' + Word
          /\ tx_pkt_offs' # 0 =>
               Aligned(tx_pkt_addr + tx_pkt_offs)' = (tx_pkt_addr + tx_pkt_offs)'
    BY <1>2, <1>3, <2>1, <2>2 DEF TxWalk, Span, tx_burst_araddr
  <2>4. ~(r_left' > 0) BY <1>2
  <2> QED BY <2>3, <2>4 DEF TxWalk
<1> QED BY <1>3, <1>4 DEF TxInv

LEMMA TxBurstStep ==
  ASSUME NEW ready, TxInv, unit \in {1, Word}, TxOn(ready), TxBurst(ready)
  PROVE  TxInv'
<1> DEFINE room == tx_burst_free_len
           len == tx_burst_arlen
<1>1. /\ tx_axis_start /\ ~tx_m_axi_stop
      /\ tx_pkt_addr' = tx_pkt_addr /\ tx_pkt_size' = tx_pkt_size
  BY DEF TxOn, TxBurst, Unread, txDesc
<1>2. /\ r_adr' = tx_burst_araddr /\ r_left' = len4k(tx_burst_araddr, len) + 1
      /\ tx_buf' = Kept(ready) /\ room # 0
      /\ UNCHANGED <<tx_m_axi_stop, tx_burst_head, tx_burst_tail, tx_pkt_offs,
                     tx_word_left>>
  BY DEF TxBurst, Room
<1>3. room \in Nat /\ room >= 1 /\ room = Fifo - 1 - Len(tx_buf)
      /\ Len(tx_buf) \in Nat
  BY <1>2, TxBuffer, Widths DEF tx_burst_free_len
<1>4. tx_word_left \in Nat /\ tx_word_left >= 1 BY <1>1, TxFacts, TxReading
<1>5. len \in Nat /\ len + 1 <= room /\ len + 1 <= tx_word_left
  BY <1>3, <1>4 DEF tx_burst_arlen
<1>6. tx_burst_araddr \in Nat /\ OnWord(tx_burst_araddr) BY <1>1, TxReading
<1> HIDE DEF room, len
<1>7. /\ len4k(tx_burst_araddr, len) \in 0 .. len
      /\ (tx_burst_araddr % Page) + Span(len4k(tx_burst_araddr, len) + 1) <= Page
  BY <1>5, <1>6, BurstsFit
<1>8. /\ r_left' \in Nat /\ r_adr' \in Nat /\ r_left' <= room
      /\ r_left' <= tx_word_left
      /\ (r_adr' % Page) + Span(r_left') <= Page
  BY <1>2, <1>3, <1>4, <1>5, <1>6, <1>7
<1>9. /\ TxType' /\ TxIdle' /\ TxPlaces' /\ TxHead'
      /\ tx_burst_araddr' = tx_burst_araddr
      /\ Aligned(tx_pkt_addr + tx_pkt_size - 1)'
           = Aligned(tx_pkt_addr + tx_pkt_size - 1)
      /\ tx_axis_start' /\ Len(tx_buf') \in Nat /\ Len(tx_buf') <= Len(tx_buf)
  BY <1>2, <1>8, TxCarries
<1>10. TxWalk'
  <2>1. TxWalk BY DEF TxInv
  <2>2. /\ tx_word_left' >= 1
        /\ tx_burst_araddr' + Span(tx_word_left)'
             = Aligned(tx_pkt_addr + tx_pkt_size - 1)' + Word
        /\ tx_pkt_offs' # 0 =>
             Aligned(tx_pkt_addr + tx_pkt_offs)' = (tx_pkt_addr + tx_pkt_offs)'
    BY <1>1, <1>2, <1>9, <2>1 DEF TxWalk, Span, tx_burst_araddr
  <2>3. Len(tx_buf') + r_left' < Fifo BY <1>3, <1>8, <1>9, Widths
  <2>4. (r_adr' % Page) + Span(r_left)' <= Page BY <1>8 DEF Span
  <2>5. tx_axis_start' /\ ~tx_m_axi_stop' /\ r_adr' = tx_burst_araddr'
        /\ r_left' <= tx_word_left'
    BY <1>1, <1>2, <1>8, <1>9
  <2> QED BY <2>2, <2>3, <2>4, <2>5 DEF TxWalk
<1> QED BY <1>9, <1>10 DEF TxInv

LEMMA TailWordStep ==
  ASSUME NEW ready, TxInv, unit \in {1, Word}, TxOn(ready), TailWord(ready)
  PROVE  TxInv'
<1>1. /\ tx_m_axi_stop /\ r_left = 0 /\ tx_axis_start
      /\ tx_pkt_addr' = tx_pkt_addr /\ tx_pkt_size' = tx_pkt_size
      /\ shift' = shift /\ (TailNeeded' <=> TailNeeded)
      /\ r_left \in Nat /\ r_adr \in Nat
  <2>1. r_left \in Nat /\ r_adr \in Nat BY DEF TxInv, TxType
  <2>2. tx_axis_start /\ UNCHANGED <<unit, txDesc>> BY DEF TxOn
  <2> QED BY <2>1, <2>2, TxSame DEF TailWord, m_axi_rd_cyc
<1>2. CASE ~(tx_burst_tail /\ tx_burst_free_len # 0)
  <2>1. /\ tx_buf' = Kept(ready)
        /\ UNCHANGED <<tx_m_axi_stop, tx_burst_head, tx_burst_tail, tx_pkt_offs,
                       tx_word_left, txBurst>>
    BY <1>2 DEF TailWord
  <2> QED BY <1>1, <2>1, RestStep
<1>3. CASE tx_burst_tail /\ tx_burst_free_len # 0
  <2>1. /\ tx_buf' = Append(Kept(ready), tx_burst_head) /\ tx_burst_tail' = FALSE
        /\ tx_m_axi_stop' = tx_m_axi_stop /\ tx_burst_head' = tx_burst_head
        /\ tx_pkt_offs' = tx_pkt_offs /\ tx_word_left' = tx_word_left
        /\ r_adr' = r_adr /\ r_left' = r_left
    BY <1>3 DEF TailWord, txBurst
  <2>2. ~tx_axis_stop BY <1>3 DEF TxInv, TxIdle
  <2>3. shift # 0 /\ tx_pkt_offs # 0 /\ TailNeeded
    BY <1>1, <1>3, <2>2 DEF TxInv, TxPlaces
  <2> DEFINE n == tx_pkt_size - 1
             z == Aligned(n)
  <2>4. Pushed = z /\ z \in Nat /\ z <= n /\ n < z + Word /\ n % Word = n - z
        /\ n \in Nat /\ tx_pkt_size = n + 1
    <3>1. n \in Nat /\ tx_pkt_size = n + 1 BY <1>1, TxFacts
    <3>2. Pushed = z BY <1>1, <1>3, <2>2, TxRead, TxFacts
    <3> HIDE DEF n
    <3>3. z \in Nat /\ z <= n /\ n < z + Word /\ n % Word = n - z
      BY <3>1, AlignedDown
    <3> QED BY <3>1, <3>2, <3>3
  <2>5. n - z < Word - shift BY <2>3, <2>4 DEF TailNeeded
  <2> HIDE DEF n, z
  <2>6. \A i \in Lanes :
          Pushed + i < tx_pkt_size => tx_burst_head[i] = tx_pkt_addr + Pushed + i
    <3> TAKE i \in Lanes
    <3>1. i \in Int BY Widths DEF Lanes
    <3>2. Pushed + i < tx_pkt_size => i + shift < Word
      BY <1>1, <2>4, <2>5, <3>1, TxFacts
    <3>3. i + shift < Word => tx_burst_head[i] = tx_pkt_addr + Pushed + i
      BY <1>1, <1>3, <2>2, <2>3 DEF TxInv, TxHead
    <3> QED BY <3>2, <3>3
  <2>7. tx_burst_head \in Bytes /\ tx_pkt_offs \in Nat /\ tx_word_left \in Nat
    BY DEF TxInv, TxType
  <2>8. Pushed < tx_pkt_size BY <2>4
  <2>9. /\ tx_buf' \in Seq(Bytes) /\ Len(tx_buf') \in Nat
        /\ Len(tx_buf') <= Len(tx_buf) + 1
        /\ sent' \in Nat /\ tx_axis_byte_offs' \in Nat
        /\ ~tx_axis_stop' /\ tx_axis_stop' \in BOOLEAN
        /\ TxAt(tx_buf, sent, tx_axis_byte_offs)'
        /\ Pushed' = Pushed + Word
    BY <1>3, <2>1, <2>6, <2>7, <2>8, TxPush
  <2>10. Len(tx_buf') < Fifo
    <3>1. Len(tx_buf) \in Nat /\ Fifo \in Nat /\ Len(tx_buf) < Fifo
      BY TxBuffer, Widths
    <3>2. Fifo - 1 - Len(tx_buf) # 0 BY <1>3 DEF tx_burst_free_len
    <3> QED BY <2>9, <3>1, <3>2
  <2>11. TxType' /\ TxIdle'
    <3>1. tx_m_axi_stop' \in BOOLEAN /\ tx_burst_tail' \in BOOLEAN
      BY <2>1 DEF TxInv, TxType
    <3> QED BY <1>1, <2>1, <2>7, <2>9, <2>10, <3>1, TxKeeps
  <2>12. TxWalk' BY <1>1, <2>1 DEF TxWalk
  <2>13. TxPlaces'
    <3>1. Aligned(tx_pkt_size - 1)' = z BY <1>1 DEF Aligned, z, n
    <3> QED BY <1>1, <2>1, <2>4, <2>9, <3>1 DEF TxPlaces
  <2>14. TxHead' BY <1>1, <2>1 DEF TxHead
  <2> QED BY <2>11, <2>12, <2>13, <2>14 DEF TxInv
<1> QED BY <1>2, <1>3

\* The reading of a word, whatever its lanes go to.
LEMMA BeatWalk ==
  ASSUME NEW ready, TxInv, unit \in {1, Word}, TxOn(ready), Beat(ready),
         Len(tx_buf') \in Nat, Len(tx_buf') <= Len(tx_buf) + 1
  PROVE  /\ TxWalk' /\ Len(tx_buf') < Fifo
         /\ ~tx_m_axi_stop /\ tx_m_axi_stop' \in BOOLEAN
         /\ tx_pkt_offs' \in Nat /\ tx_pkt_offs' # 0 /\ tx_word_left' \in Nat
         /\ r_adr = tx_burst_araddr /\ r_adr \in Nat
         /\ r_adr' \in Nat /\ r_left' \in Nat
<1>1. /\ r_left \in Nat /\ r_left >= 1 /\ r_adr \in Nat
      /\ tx_axis_start /\ tx_axis_start' = tx_axis_start
      /\ tx_pkt_addr' = tx_pkt_addr /\ tx_pkt_size' = tx_pkt_size
      /\ shift' = shift
  <2>1. r_left \in Nat /\ r_adr \in Nat BY DEF TxInv, TxType
  <2>2. tx_axis_start /\ UNCHANGED <<unit, tx_axis_start, txDesc>> BY DEF TxOn
  <2>3. r_left > 0 BY DEF Beat, m_axi_rd_cyc
  <2> QED BY <2>1, <2>2, <2>3, TxSame
<1>2. /\ ~tx_m_axi_stop /\ r_adr = tx_burst_araddr /\ r_left <= tx_word_left
      /\ (r_adr % Page) + Span(r_left) <= Page
      /\ Len(tx_buf) + r_left < Fifo
  BY <1>1 DEF TxInv, TxWalk
<1>3. /\ tx_m_axi_stop' = (tx_m_axi_stop \/ tx_word_left <= 1)
      /\ tx_pkt_offs' = CASE tx_word_left <= 1 -> tx_pkt_size
                          [] tx_word_left > 1 /\ tx_pkt_offs = 0 -> Word - shift
                          [] OTHER -> tx_pkt_offs + Word
      /\ tx_word_left' = tx_word_left - 1
      /\ r_left' = r_left - 1 /\ r_adr' = r_adr + Word
  BY DEF Beat
<1>4. tx_word_left \in Nat /\ tx_word_left >= 1 BY <1>1, <1>2, TxFacts
<1>5. tx_pkt_offs' \in Nat /\ tx_pkt_offs' # 0
  <2>1. /\ tx_pkt_offs \in Nat /\ tx_pkt_size \in Nat /\ tx_pkt_size > Word
        /\ shift \in Nat /\ shift < Word /\ Word \in Nat
    BY <1>1, TxFacts
  <2>2. CASE tx_word_left <= 1 BY <1>3, <2>1, <2>2
  <2>3. CASE tx_word_left > 1 /\ tx_pkt_offs = 0 BY <1>3, <2>1, <2>3
  <2>4. CASE tx_word_left > 1 /\ tx_pkt_offs # 0 BY <1>3, <2>1, <2>4
  <2> QED BY <1>4, <2>2, <2>3, <2>4
<1>6. tx_m_axi_stop' \in BOOLEAN /\ (tx_m_axi_stop' <=> tx_word_left <= 1)
  BY <1>2, <1>3
<1>7. /\ r_left' \in Nat /\ r_adr' \in Nat /\ tx_word_left' \in Nat
      /\ Len(tx_buf') + r_left' < Fifo
      /\ Len(tx_buf') < Fifo
  <2>1. Len(tx_buf) \in Nat BY TxBuffer
  <2>4. /\ r_left' = r_left - 1 /\ r_adr' = r_adr + Word
        /\ tx_word_left' = tx_word_left - 1
    BY <1>3
  <2>5. r_left \in Nat /\ r_left >= 1 /\ r_adr \in Nat /\ Word \in Nat
    BY <1>1, Widths
  <2>2. r_left' \in Nat /\ r_adr' \in Nat /\ tx_word_left' \in Nat
    BY ONLY <1>4, <2>4, <2>5
  <2>3. Len(tx_buf') + r_left' < Fifo BY <1>1, <1>2, <1>3, <2>1, Widths
  <2> QED BY <2>2, <2>3, Widths
<1>8. ASSUME ~tx_m_axi_stop'
      PROVE  /\ tx_word_left' >= 1 /\ tx_burst_araddr' = tx_burst_araddr + Word
             /\ tx_burst_araddr' + Span(tx_word_left)'
                  = Aligned(tx_pkt_addr + tx_pkt_size - 1)' + Word
             /\ Aligned(tx_pkt_addr + tx_pkt_offs)' = (tx_pkt_addr + tx_pkt_offs)'
  <2>1. tx_word_left > 1 BY <1>4, <1>6, <1>8
  <2>2. /\ tx_burst_araddr \in Nat /\ OnWord(tx_burst_araddr)
        /\ tx_burst_araddr + Span(tx_word_left)
             = Aligned(tx_pkt_addr + tx_pkt_size - 1) + Word
        /\ tx_pkt_offs # 0 => tx_burst_araddr = tx_pkt_addr + tx_pkt_offs
        /\ tx_pkt_offs = 0 => tx_burst_araddr = tx_pkt_addr - shift
        /\ Aligned(tx_pkt_addr + tx_pkt_size - 1) \in Nat
    BY <1>1, <1>2, TxReading
  <2>3. tx_pkt_addr + tx_pkt_offs' = tx_burst_araddr + Word
    <3>1. tx_pkt_offs' = IF tx_pkt_offs = 0 THEN Word - shift ELSE tx_pkt_offs + Word
      <4>1. ~(tx_word_left <= 1) BY <1>4, <2>1
      <4>2. CASE tx_pkt_offs = 0 BY <1>3, <2>1, <4>1, <4>2
      <4>3. CASE tx_pkt_offs # 0 BY <1>3, <2>1, <4>1, <4>3
      <4> QED BY <4>2, <4>3
    <3>2. /\ tx_pkt_addr \in Nat /\ tx_pkt_offs \in Nat /\ shift \in Nat
          /\ Word \in Nat
      BY <1>1, TxFacts
    <3>3. CASE tx_pkt_offs = 0 BY <2>2, <3>1, <3>2, <3>3
    <3>4. CASE tx_pkt_offs # 0 BY <2>2, <3>1, <3>2, <3>4
    <3> QED BY <3>3, <3>4
  <2>4. tx_burst_araddr + Word \in Nat /\ OnWord(tx_burst_araddr + Word)
    BY <2>2, MultipleNext, Widths
  <2>5. Aligned(tx_burst_araddr + Word) = tx_burst_araddr + Word
    BY <2>4, AlignedItself
  <2>6. tx_burst_araddr' = tx_burst_araddr + Word
    BY <1>1, <2>3, <2>5 DEF tx_burst_araddr, Aligned
  <2>7. Aligned(tx_pkt_addr + tx_pkt_offs)' = (tx_pkt_addr + tx_pkt_offs)'
    BY <1>1, <2>3, <2>5 DEF Aligned
  <2>8. Span(tx_word_left)' = Span(tx_word_left) - Word
        /\ Span(tx_word_left) \in Int
    <3>1. Span(tx_word_left)' = Span(tx_word_left - 1) BY <1>3 DEF Span
    <3> QED BY <1>4, <3>1, NextWord
  <2>9. Aligned(tx_pkt_addr + tx_pkt_size - 1)'
          = Aligned(tx_pkt_addr + tx_pkt_size - 1)
    BY <1>1 DEF Aligned
  <2> DEFINE z == Aligned(tx_pkt_addr + tx_pkt_size - 1)
  <2>10. tx_word_left' >= 1 BY <1>3, <1>4, <2>1
  <2>11. tx_burst_araddr' + Span(tx_word_left)' = z + Word
    <3>1. tx_burst_araddr + Span(tx_word_left) = z + Word /\ z \in Nat BY <2>2
    <3> HIDE DEF z
    <3> QED BY <2>2, <2>6, <2>8, <3>1, Widths
  <2> QED BY <2>6, <2>7, <2>9, <2>10, <2>11
<1>9. ASSUME r_left' > 0
      PROVE  /\ ~tx_m_axi_stop' /\ r_adr' = tx_burst_araddr'
             /\ r_left' <= tx_word_left'
             /\ (r_adr' % Page) + Span(r_left)' <= Page
  <2>1. r_left >= 2 BY <1>1, <1>3, <1>9
  <2>2. ~tx_m_axi_stop' /\ r_left' <= tx_word_left'
    BY <1>1, <1>2, <1>3, <1>4, <1>6, <2>1
  <2>3. r_adr' = tx_burst_araddr' BY <1>2, <1>3, <1>8, <2>2
  <2>4. ((r_adr + Word) % Page) + Span(r_left - 1) <= Page
    BY <1>1, <1>2, <2>1, StaysInPage
  <2> QED BY <1>3, <2>2, <2>3, <2>4 DEF Span
<1>10. TxWalk' BY <1>1, <1>7, <1>8, <1>9 DEF TxWalk
<1> QED BY <1>1, <1>2, <1>5, <1>6, <1>7, <1>10

\* What a beat finds.
LEMMA BeatFinds ==
  ASSUME NEW ready, TxInv, unit \in {1, Word}, TxOn(ready), Beat(ready)
  PROVE  /\ tx_axis_start /\ tx_axis_start' = tx_axis_start
         /\ ~tx_m_axi_stop /\ ~tx_axis_stop
         /\ tx_pkt_addr' = tx_pkt_addr /\ tx_pkt_size' = tx_pkt_size
         /\ shift' = shift /\ (TailNeeded' <=> TailNeeded)
         /\ Aligned(tx_pkt_size - 1)' = Aligned(tx_pkt_size - 1)
         /\ rdata \in Bytes /\ \A i \in Lanes : rdata[i] = r_adr + i
         /\ tx_burst_head \in Bytes /\ tx_burst_tail \in BOOLEAN
         /\ r_adr = tx_burst_araddr /\ tx_word_left \in Nat /\ tx_word_left >= 1
         /\ Pushed \in Nat /\ Pushed < tx_pkt_size
         /\ Pushed = IF shift = 0 \/ tx_pkt_offs = 0 THEN tx_pkt_offs
                     ELSE tx_pkt_offs - (Word - shift)
         /\ tx_burst_tail => shift # 0 /\ tx_pkt_offs # 0 /\ TailNeeded
<1>1. /\ tx_axis_start /\ tx_axis_start' = tx_axis_start
      /\ UNCHANGED <<unit, txDesc>>
  BY DEF TxOn
<1>2. r_left > 0 /\ r_adr \in Nat BY DEF Beat, m_axi_rd_cyc, TxInv, TxType
<1>3. ~tx_m_axi_stop /\ r_adr = tx_burst_araddr BY <1>2 DEF TxInv, TxWalk
<1>4. ~tx_axis_stop BY <1>3 DEF TxInv, TxIdle
<1>5. /\ tx_pkt_addr' = tx_pkt_addr /\ tx_pkt_size' = tx_pkt_size
      /\ shift' = shift /\ (TailNeeded' <=> TailNeeded)
      /\ Aligned(tx_pkt_size - 1)' = Aligned(tx_pkt_size - 1)
  <2>1. /\ tx_pkt_addr' = tx_pkt_addr /\ tx_pkt_size' = tx_pkt_size
        /\ shift' = shift /\ (TailNeeded' <=> TailNeeded)
    BY <1>1, TxSame
  <2> QED BY <2>1 DEF Aligned
<1>6. rdata \in Bytes /\ \A i \in Lanes : rdata[i] = r_adr + i
  BY <1>2, Widths DEF rdata, Bytes, Lanes
<1>7. tx_burst_head \in Bytes /\ tx_burst_tail \in BOOLEAN
  BY DEF TxInv, TxType
<1>8. tx_word_left \in Nat /\ tx_word_left >= 1
  BY <1>1, <1>3, TxFacts, TxReading
<1>9. Pushed \in Nat /\ Pushed < tx_pkt_size BY <1>1, <1>3, <1>4, TxUnread
<1>10. /\ Pushed = IF shift = 0 \/ tx_pkt_offs = 0 THEN tx_pkt_offs
                   ELSE tx_pkt_offs - (Word - shift)
       /\ tx_burst_tail => shift # 0 /\ tx_pkt_offs # 0 /\ TailNeeded
  BY <1>1, <1>3, <1>4 DEF TxInv, TxPlaces
<1> QED BY <1>1, <1>3, <1>4, <1>5, <1>6, <1>7, <1>8, <1>9, <1>10

LEMMA PushedOnWord ==
  ASSUME TxInv, tx_axis_start, ~tx_axis_stop
  PROVE  OnWord(Pushed)
<1>1. TxAt(tx_buf, sent, tx_axis_byte_offs) BY DEF TxInv, TxPlaces
<1>2. sent - tx_axis_byte_offs \in Nat /\ OnWord(sent - tx_axis_byte_offs)
  BY <1>1, TxFacts DEF TxAt
<1>3. Len(tx_buf) \in Nat BY TxBuffer
<1>4. Span(Len(tx_buf)) \in Nat /\ OnWord(Span(Len(tx_buf)))
  BY <1>3, SpanIsMultiple
<1> QED BY <1>2, <1>4, MultipleSum DEF Pushed

\* A packet that is aligned to its words.
LEMMA BeatAligned ==
  ASSUME NEW ready, TxInv, unit \in {1, Word}, TxOn(ready), Beat(ready), shift = 0
  PROVE  TxInv'
<1> USE BeatFinds
<1>1. /\ tx_buf' = Append(Kept(ready), rdata)
      /\ tx_burst_head' = tx_burst_head /\ tx_burst_tail' = tx_burst_tail
      /\ tx_m_axi_stop' = (tx_m_axi_stop \/ tx_word_left <= 1)
      /\ tx_pkt_offs' = CASE tx_word_left <= 1 -> tx_pkt_size
                          [] tx_word_left > 1 /\ tx_pkt_offs = 0 -> Word - shift
                          [] OTHER -> tx_pkt_offs + Word
  BY DEF Beat
<1>2. Pushed = tx_pkt_offs /\ r_adr = tx_pkt_addr + Pushed /\ ~tx_burst_tail
  BY TxReading
<1>3. \A i \in Lanes :
        Pushed + i < tx_pkt_size => rdata[i] = tx_pkt_addr + Pushed + i
  BY <1>2
<1>4. /\ tx_buf' \in Seq(Bytes) /\ Len(tx_buf') \in Nat
      /\ Len(tx_buf') <= Len(tx_buf) + 1
      /\ sent' \in Nat /\ tx_axis_byte_offs' \in Nat
      /\ ~tx_axis_stop' /\ tx_axis_stop' \in BOOLEAN
      /\ TxAt(tx_buf, sent, tx_axis_byte_offs)'
      /\ Pushed' = Pushed + Word
  BY <1>1, <1>3, TxPush
<1>5. /\ TxWalk' /\ Len(tx_buf') < Fifo
      /\ ~tx_m_axi_stop /\ tx_m_axi_stop' \in BOOLEAN
      /\ tx_pkt_offs' \in Nat /\ tx_word_left' \in Nat
      /\ r_adr' \in Nat /\ r_left' \in Nat
  BY <1>4, BeatWalk
<1>6. TxType' /\ TxIdle' BY <1>1, <1>4, <1>5, TxKeeps
<1>7. ~tx_m_axi_stop' => tx_pkt_offs' = Pushed + Word
  <2> SUFFICES ASSUME ~tx_m_axi_stop' PROVE tx_pkt_offs' = Pushed + Word
    OBVIOUS
  <2>1. ~(tx_word_left <= 1) BY <1>1
  <2>2. tx_word_left > 1 BY <2>1
  <2>3. CASE tx_pkt_offs = 0 BY <1>1, <1>2, <2>1, <2>2, <2>3, Widths
  <2>4. CASE tx_pkt_offs # 0 BY <1>1, <1>2, <2>1, <2>2, <2>4
  <2> QED BY <2>3, <2>4
<1>8. tx_m_axi_stop' => Pushed = Aligned(tx_pkt_size - 1)
  <2> SUFFICES ASSUME tx_m_axi_stop' PROVE Pushed = Aligned(tx_pkt_size - 1)
    OBVIOUS
  <2>1. tx_word_left = 1 BY <1>1, <1>5
  <2> DEFINE n == tx_pkt_size - 1
             m == tx_pkt_addr + tx_pkt_size - 1
  <2>2. /\ Span(tx_word_left) = Word /\ m < Aligned(m) + Word /\ Aligned(m) <= m
        /\ r_adr + Span(tx_word_left) = Aligned(m) + Word /\ Aligned(m) \in Nat
    BY <2>1, TxReading, NextWord
  <2>3. OnWord(Pushed) BY PushedOnWord
  <2>4. m = tx_pkt_addr + n /\ n \in Nat /\ tx_pkt_addr \in Nat BY TxFacts
  <2> HIDE DEF n
  <2>5. n - Pushed \in 0 .. Word - 1
    <3> DEFINE z == Aligned(m)
    <3>1. z \in Nat /\ m < z + Word /\ z <= m /\ tx_pkt_addr + Pushed + Word = z + Word
      BY <1>2, <2>2
    <3> HIDE DEF z, m
    <3> QED BY <2>4, <3>1, Widths
  <2>6. Aligned(Pushed + (n - Pushed)) = Pushed BY <2>3, <2>5, AlignedSum
  <2>7. Pushed + (n - Pushed) = n BY <2>4
  <2> QED BY <2>6, <2>7 DEF n
<1>9. TxPlaces' BY <1>1, <1>2, <1>4, <1>5, <1>7, <1>8 DEF TxPlaces
<1>10. TxHead'
  <2>1. shift' = 0 OBVIOUS
  <2> QED BY <2>1 DEF TxHead
<1> QED BY <1>5, <1>6, <1>9, <1>10 DEF TxInv

\* What stays in tx_burst_head.
LEMMA HeadIs ==
  ASSUME NEW ready, TxInv, unit \in {1, Word}, TxOn(ready), Beat(ready), shift # 0
  PROVE  /\ tx_burst_head' \in Bytes
         /\ \A i \in Lanes : i + shift < Word =>
              tx_burst_head'[i] = r_adr + shift + i
         /\ tx_burst_tail' = (tx_burst_tail \/ TailNeeded)
         /\ tx_burst_tail' \in BOOLEAN
<1>1. tx_burst_head' = [i \in Lanes |->
        IF i + shift < Word THEN rdata[i + shift] ELSE Junk]
  BY DEF Beat
<1>2. /\ rdata \in Bytes /\ \A i \in Lanes : rdata[i] = r_adr + i
      /\ shift \in Nat /\ Word \in Nat /\ tx_burst_tail \in BOOLEAN /\ r_adr \in Nat
  BY BeatFinds, TxFacts DEF TxInv, TxType
<1>3. \A i \in Lanes : i + shift < Word => i + shift \in Lanes
  BY <1>2 DEF Lanes
<1>4. \A i \in Lanes : i + shift < Word => rdata[i + shift] = r_adr + shift + i
  <2> TAKE i \in Lanes
  <2> HAVE i + shift < Word
  <2>1. rdata[i + shift] = r_adr + (i + shift) BY <1>2, <1>3
  <2>2. i \in Int BY Widths DEF Lanes
  <2> QED BY <1>2, <2>1, <2>2
<1>5. tx_burst_head' \in Bytes
  <2>1. \A i \in Lanes : (IF i + shift < Word THEN rdata[i + shift] ELSE Junk) \in Int
    BY <1>2, <1>3 DEF Bytes, Junk
  <2> QED BY <1>1, <2>1 DEF Bytes
<1>6. tx_burst_tail' = (tx_burst_tail \/ TailNeeded) BY DEF Beat
<1>7. TailNeeded \in BOOLEAN BY DEF TailNeeded
<1> QED BY <1>1, <1>2, <1>4, <1>5, <1>6, <1>7

\* The first word of a packet that is not: it only fills tx_burst_head.
LEMMA BeatFirst ==
  ASSUME NEW ready, TxInv, unit \in {1, Word}, TxOn(ready), Beat(ready), shift # 0,
         tx_pkt_offs = 0
  PROVE  TxInv'
<1> USE BeatFinds
<1>1. /\ tx_buf' = Kept(ready)
      /\ tx_m_axi_stop' = (tx_m_axi_stop \/ tx_word_left <= 1)
      /\ tx_pkt_offs' = CASE tx_word_left <= 1 -> tx_pkt_size
                          [] tx_word_left > 1 /\ tx_pkt_offs = 0 -> Word - shift
                          [] OTHER -> tx_pkt_offs + Word
  BY DEF Beat
<1>2. Pushed = 0 /\ r_adr = tx_pkt_addr - shift /\ ~tx_burst_tail
  BY TxReading
<1>3. tx_word_left > 1
  <2> SUFFICES ASSUME tx_word_left = 1 PROVE FALSE OBVIOUS
  <2> DEFINE m == tx_pkt_addr + tx_pkt_size - 1
             z == Aligned(m)
  <2>1. /\ Span(tx_word_left) = Word /\ m < z + Word /\ z \in Nat
        /\ r_adr + Span(tx_word_left) = z + Word
    BY TxReading, NextWord
  <2>2. m \in Int /\ m - tx_pkt_addr >= Word /\ tx_pkt_addr \in Nat
        /\ shift \in Nat /\ Word \in Nat
    BY TxFacts
  <2> HIDE DEF m, z
  <2> QED BY <1>2, <2>1, <2>2
<1>4. /\ tx_buf' \in Seq(Bytes) /\ Len(tx_buf') \in Nat
      /\ Len(tx_buf') <= Len(tx_buf)
      /\ sent' \in Nat /\ tx_axis_byte_offs' \in Nat /\ tx_axis_stop' \in BOOLEAN
      /\ tx_axis_stop' => tx_buf' = <<>> /\ tx_m_axi_stop /\ ~tx_burst_tail
      /\ ~tx_axis_stop' => /\ TxAt(tx_buf, sent, tx_axis_byte_offs)'
                           /\ Pushed' = Pushed
  BY <1>1, TxQuiet
<1>5. ~tx_axis_stop' BY <1>4
<1>6. Len(tx_buf') <= Len(tx_buf) + 1 BY <1>4, TxBuffer
<1>7. /\ TxWalk' /\ Len(tx_buf') < Fifo
      /\ ~tx_m_axi_stop /\ tx_m_axi_stop' \in BOOLEAN
      /\ tx_pkt_offs' \in Nat /\ tx_pkt_offs' # 0 /\ tx_word_left' \in Nat
      /\ r_adr' \in Nat /\ r_left' \in Nat
  BY <1>4, <1>6, BeatWalk
<1>8. /\ tx_burst_head' \in Bytes
      /\ \A i \in Lanes : i + shift < Word => tx_burst_head'[i] = r_adr + shift + i
      /\ tx_burst_tail' = (tx_burst_tail \/ TailNeeded)
      /\ tx_burst_tail' \in BOOLEAN
  BY HeadIs
<1>9. TxType' /\ TxIdle' BY <1>4, <1>5, <1>7, <1>8, TxKeeps
<1>10. tx_pkt_offs' = Word - shift /\ ~tx_m_axi_stop'
  <2>1. ~(tx_word_left <= 1) BY <1>3
  <2> QED BY <1>1, <1>3, <2>1
<1>11. TxPlaces'
  <2>1. tx_burst_tail' <=> TailNeeded' BY <1>2, <1>8
  <2>2. /\ shift' \in Int /\ Word \in Int /\ shift' # 0 BY TxFacts
  <2>3. Pushed' = tx_pkt_offs' - (Word - shift')
    BY <1>2, <1>4, <1>5, <1>10, <2>2
  <2> QED BY <1>4, <1>5, <1>7, <1>10, <2>1, <2>2, <2>3 DEF TxPlaces
<1>12. TxHead'
  <2> SUFFICES ASSUME NEW i \in Lanes, i + shift < Word
               PROVE  tx_burst_head'[i] = tx_pkt_addr + Pushed' + i
    BY DEF TxHead, Lanes
  <2>1. tx_burst_head'[i] = r_adr + shift + i BY <1>8
  <2>2. i \in Int BY Widths DEF Lanes
  <2>3. Pushed' = 0 BY <1>2, <1>4, <1>5
  <2>4. tx_pkt_addr \in Nat /\ shift \in Nat BY TxFacts
  <2> QED BY <1>2, <2>1, <2>2, <2>3, <2>4
<1> QED BY <1>7, <1>9, <1>11, <1>12 DEF TxInv

\* Each later word of it is joined to what was left of the one before.
LEMMA BeatJoined ==
  ASSUME NEW ready, TxInv, unit \in {1, Word}, TxOn(ready), Beat(ready), shift # 0,
         tx_pkt_offs # 0
  PROVE  TxInv'
<1> USE BeatFinds
<1>1. /\ tx_buf' = Append(Kept(ready), Joined)
      /\ tx_m_axi_stop' = (tx_m_axi_stop \/ tx_word_left <= 1)
      /\ tx_pkt_offs' = CASE tx_word_left <= 1 -> tx_pkt_size
                          [] tx_word_left > 1 /\ tx_pkt_offs = 0 -> Word - shift
                          [] OTHER -> tx_pkt_offs + Word
  BY DEF Beat
<1>2. /\ tx_pkt_addr \in Nat /\ shift \in Nat /\ shift < Word /\ Word \in Nat
      /\ tx_pkt_offs \in Nat /\ tx_pkt_size \in Nat
  BY TxFacts
<1>3. r_adr = tx_pkt_addr + Pushed + (Word - shift)
  <2>1. r_adr = tx_pkt_addr + tx_pkt_offs BY TxReading
  <2>2. Pushed = tx_pkt_offs - (Word - shift) OBVIOUS
  <2> QED BY <1>2, <2>1, <2>2
<1>4. Joined \in Bytes /\ \A i \in Lanes : Joined[i] = tx_pkt_addr + Pushed + i
  <2>1. \A i \in Lanes : Joined[i] = IF i < Word - shift THEN tx_burst_head[i]
                                     ELSE rdata[i - (Word - shift)]
    BY DEF Joined
  <2>2. ASSUME NEW i \in Lanes PROVE Joined[i] = tx_pkt_addr + Pushed + i
    <3>1. i \in 0 .. Word - 1 BY DEF Lanes
    <3>2. CASE i < Word - shift
      <4>1. i + shift < Word BY <1>2, <3>1, <3>2
      <4>2. tx_burst_head[i] = tx_pkt_addr + Pushed + i
        BY <4>1 DEF TxInv, TxHead
      <4> QED BY <2>1, <3>2, <4>2
    <3>3. CASE ~(i < Word - shift)
      <4>1. i - (Word - shift) \in Lanes BY <1>2, <3>1, <3>3 DEF Lanes
      <4>2. rdata[i - (Word - shift)] = r_adr + (i - (Word - shift)) BY <4>1
      <4>3. Joined[i] = r_adr + (i - (Word - shift)) BY <2>1, <3>3, <4>2
      <4> QED BY <1>2, <1>3, <3>1, <4>3
    <3> QED BY <3>2, <3>3
  <2>3. Joined \in Bytes
    <3>1. \A i \in Lanes : tx_pkt_addr + Pushed + i \in Int
      BY <1>2 DEF Lanes
    <3>2. Joined = [i \in Lanes |-> Joined[i]] BY DEF Joined
    <3>3. \A i \in Lanes : Joined[i] \in Int BY <2>2, <3>1
    <3> HIDE DEF Joined
    <3> QED BY <3>2, <3>3 DEF Bytes
  <2> QED BY <2>2, <2>3
<1>5. /\ tx_buf' \in Seq(Bytes) /\ Len(tx_buf') \in Nat
      /\ Len(tx_buf') <= Len(tx_buf) + 1
      /\ sent' \in Nat /\ tx_axis_byte_offs' \in Nat
      /\ ~tx_axis_stop' /\ tx_axis_stop' \in BOOLEAN
      /\ TxAt(tx_buf, sent, tx_axis_byte_offs)'
      /\ Pushed' = Pushed + Word
  BY <1>1, <1>4, TxPush
<1>6. /\ TxWalk' /\ Len(tx_buf') < Fifo
      /\ ~tx_m_axi_stop /\ tx_m_axi_stop' \in BOOLEAN
      /\ tx_pkt_offs' \in Nat /\ tx_pkt_offs' # 0 /\ tx_word_left' \in Nat
      /\ r_adr' \in Nat /\ r_left' \in Nat
  BY <1>5, BeatWalk
<1>7. /\ tx_burst_head' \in Bytes
      /\ \A i \in Lanes : i + shift < Word => tx_burst_head'[i] = r_adr + shift + i
      /\ tx_burst_tail' = (tx_burst_tail \/ TailNeeded)
      /\ tx_burst_tail' \in BOOLEAN
  BY HeadIs
<1>8. TxType' /\ TxIdle' BY <1>5, <1>6, <1>7, TxKeeps
<1>9. tx_burst_tail' <=> TailNeeded BY <1>7
<1>10. ~tx_m_axi_stop' => tx_pkt_offs' = tx_pkt_offs + Word
  <2> SUFFICES ASSUME ~tx_m_axi_stop' PROVE tx_pkt_offs' = tx_pkt_offs + Word
    OBVIOUS
  <2>1. ~(tx_word_left <= 1) BY <1>1
  <2>2. tx_word_left > 1 BY <2>1
  <2> QED BY <1>1, <2>1, <2>2
<1>11. tx_m_axi_stop' =>
         Pushed + Word = Aligned(tx_pkt_size - 1) + (IF TailNeeded THEN 0 ELSE Word)
  <2> SUFFICES ASSUME tx_m_axi_stop'
               PROVE  Pushed + Word = Aligned(tx_pkt_size - 1)
                                        + (IF TailNeeded THEN 0 ELSE Word)
    OBVIOUS
  <2>1. tx_word_left = 1
    <3>1. tx_word_left <= 1 BY <1>1
    <3> QED BY <3>1
  <2> DEFINE n == tx_pkt_size - 1
             m == tx_pkt_addr + tx_pkt_size - 1
  <2>2. /\ Span(tx_word_left) = Word /\ m < Aligned(m) + Word /\ Aligned(m) <= m
        /\ r_adr + Span(tx_word_left) = Aligned(m) + Word /\ Aligned(m) \in Nat
    BY <2>1, TxReading, NextWord
  <2>3. OnWord(Pushed) /\ OnWord(Pushed + Word) /\ Pushed + Word \in Nat
    BY <1>2, PushedOnWord, MultipleNext
  <2>4. m = tx_pkt_addr + n /\ n \in Nat BY <1>2, TxFacts
  <2>5. n >= Pushed + (Word - shift) /\ n < Pushed + (Word - shift) + Word
    <3> DEFINE z == Aligned(m)
    <3>1. z \in Nat /\ m < z + Word /\ z <= m /\ r_adr + Word = z + Word
      BY <2>2
    <3> HIDE DEF z, m, n
    <3> QED BY <1>2, <1>3, <2>4, <3>1
  <2>6. TailNeeded <=> n % Word < Word - shift BY DEF TailNeeded
  <2>7. CASE n < Pushed + Word
    <3>1. n - Pushed \in 0 .. Word - 1 BY <1>2, <2>4, <2>5, <2>7
    <3>2. Aligned(Pushed + (n - Pushed)) = Pushed
          /\ (Pushed + (n - Pushed)) % Word = n - Pushed
      BY <2>3, <3>1, AlignedSum
    <3>3. Pushed + (n - Pushed) = n BY <2>4
    <3>4. ~TailNeeded BY <1>2, <2>4, <2>5, <2>6, <3>2, <3>3
    <3> QED BY <3>2, <3>3, <3>4
  <2>8. CASE n >= Pushed + Word
    <3> DEFINE p == Pushed + Word
    <3>1. n - p \in 0 .. Word - 1 /\ n - p < Word - shift
      BY <1>2, <2>4, <2>5, <2>8
    <3>2. Aligned(p + (n - p)) = p /\ (p + (n - p)) % Word = n - p
      BY <2>3, <3>1, AlignedSum
    <3>3. p + (n - p) = n BY <1>2, <2>4
    <3>4. TailNeeded BY <2>6, <3>1, <3>2, <3>3
    <3> QED BY <1>2, <3>2, <3>3, <3>4
  <2> QED BY <1>2, <2>4, <2>7, <2>8
<1>12. TxPlaces'
  <2>1. Pushed + Word = (tx_pkt_offs + Word) - (Word - shift)
    BY <1>2
  <2>2. ~tx_m_axi_stop' => Pushed' = tx_pkt_offs' - (Word - shift')
    BY <1>5, <1>10, <2>1
  <2>3. tx_m_axi_stop' =>
          Pushed' = Aligned(tx_pkt_size - 1)'
                      + (IF tx_burst_tail' THEN 0 ELSE Word)
    BY <1>5, <1>9, <1>11
  <2>4. shift' # 0 /\ (tx_burst_tail' <=> TailNeeded') BY <1>9
  <2> QED BY <1>5, <1>6, <2>2, <2>3, <2>4 DEF TxPlaces
<1>13. TxHead'
  <2> SUFFICES ASSUME NEW i \in Lanes, i + shift < Word
               PROVE  tx_burst_head'[i] = tx_pkt_addr + Pushed' + i
    BY DEF TxHead, Lanes
  <2>1. tx_burst_head'[i] = r_adr + shift + i BY <1>7
  <2>2. i \in Int BY Widths DEF Lanes
  <2>3. Pushed' = Pushed + Word /\ Pushed \in Nat BY <1>5
  <2>4. r_adr = tx_pkt_addr + Pushed + (Word - shift) BY <1>3
  <2>5. r_adr + shift + i = tx_pkt_addr + (Pushed + Word) + i
    BY ONLY <1>2, <2>2, <2>3, <2>4
  <2> QED BY ONLY <2>1, <2>3, <2>5
<1> QED BY <1>6, <1>8, <1>12, <1>13 DEF TxInv

LEMMA TxRunStep ==
  ASSUME NEW ready, TxInv, unit \in {1, Word}, unit' = unit, TxRun(ready)
  PROVE  TxInv'
<1>1. TxOn(ready) BY DEF TxRun, TxOn
<1>2. CASE Beat(ready)
  <2>1. CASE shift = 0 BY <1>1, <1>2, <2>1, BeatAligned
  <2>2. CASE shift # 0 /\ tx_pkt_offs = 0 BY <1>1, <1>2, <2>2, BeatFirst
  <2>3. CASE shift # 0 /\ tx_pkt_offs # 0 BY <1>1, <1>2, <2>3, BeatJoined
  <2> QED BY <2>1, <2>2, <2>3
<1>3. CASE NoBeat(ready) BY <1>1, <1>3, NoBeatStep
<1>4. CASE TailWord(ready) BY <1>1, <1>4, TailWordStep
<1>5. CASE NoRoom(ready)
  <2>1. r_left \in Nat /\ ~(r_left > 0)
    BY <1>5 DEF NoRoom, Unread, m_axi_rd_cyc, TxInv, TxType
  <2>2. /\ tx_buf' = Kept(ready)
        /\ UNCHANGED <<tx_m_axi_stop, tx_burst_head, tx_burst_tail, tx_pkt_offs,
                       tx_word_left, txBurst>>
    BY <1>5 DEF NoRoom
  <2> QED BY <1>1, <2>1, <2>2, RestStep
<1>6. CASE TxBurst(ready) BY <1>1, <1>6, TxBurstStep
<1> QED BY <1>2, <1>3, <1>4, <1>5, <1>6 DEF TxRun

LEMMA TxResetStep ==
  ASSUME TxInv, unit' = unit, TxReset
  PROVE  TxInv'
<1>1. /\ ~tx_start /\ tx_start' \in BOOLEAN
      /\ tx_buf' = <<>> /\ tx_axis_start' = FALSE /\ tx_axis_stop' = FALSE
      /\ tx_m_axi_stop' = FALSE
      /\ tx_burst_head' = tx_burst_head /\ tx_burst_tail' = tx_burst_tail
      /\ tx_pkt_addr' = tx_pkt_addr /\ tx_pkt_size' = tx_pkt_size
      /\ tx_pkt_offs' = tx_pkt_offs /\ tx_word_left' = tx_word_left
      /\ tx_axis_byte_offs' = tx_axis_byte_offs /\ r_adr' = r_adr
      /\ r_left' = r_left /\ sent' = sent
  BY DEF TxReset, txDesc, txBurst
<1>2. r_left = 0
  <2>1. ~tx_axis_start \/ tx_m_axi_stop BY <1>1 DEF TxInv, TxIdle
  <2>2. r_left \in Nat BY DEF TxInv, TxType
  <2>3. CASE ~tx_axis_start BY <2>3 DEF TxInv, TxIdle
  <2>4. CASE tx_m_axi_stop BY <2>2, <2>4 DEF TxInv, TxWalk
  <2> QED BY <2>1, <2>3, <2>4
<1>3. TxType'
  <2>1. tx_buf' \in Seq(Bytes) /\ Len(tx_buf') < Fifo BY <1>1, EmptySeq, Widths
  <2> QED BY <1>1, <2>1 DEF TxInv, TxType
<1>4. TxIdle' BY <1>1, <1>2 DEF TxIdle
<1>5. TxWalk' BY <1>1, <1>2 DEF TxWalk
<1>6. TxPlaces' /\ TxHead' BY <1>1 DEF TxPlaces, TxHead
<1> QED BY <1>3, <1>4, <1>5, <1>6 DEF TxInv

LEMMA TxFetchStep ==
  ASSUME TxInv, unit \in {1, Word}, unit' = unit, TxFetch
  PROVE  TxInv'
<1>1. /\ tx_start /\ ~tx_axis_start /\ tx_axis_start' = TRUE
      /\ tx_pkt_addr' \in Adrs /\ tx_pkt_size' \in Sizes
      /\ tx_pkt_offs' = 0 /\ tx_axis_byte_offs' = 0 /\ tx_burst_tail' = FALSE
      /\ tx_word_left' = WordsOf(tx_pkt_addr', tx_pkt_size')
      /\ sent' = 0 /\ tx_start' = tx_start /\ tx_axis_stop' = tx_axis_stop
      /\ tx_m_axi_stop' = tx_m_axi_stop /\ tx_buf' = tx_buf
      /\ tx_burst_head' = tx_burst_head /\ r_adr' = r_adr /\ r_left' = r_left
  BY DEF TxFetch, txBurst
<1>2. tx_buf = <<>> /\ ~tx_axis_stop /\ ~tx_m_axi_stop /\ r_left = 0
  BY <1>1 DEF TxInv, TxIdle
<1> DEFINE a == tx_pkt_addr'
           n == tx_pkt_size'
<1>3. a \in Nat /\ n \in Nat /\ n > Word /\ n >= 1
  <2>1. a \in Nat /\ n \in Nat /\ n > Word BY <1>1, BusAssumption
  <2> QED BY <2>1, Widths
<1>4. WordsOf(a, n) \in Nat
      /\ Aligned(a) + Span(WordsOf(a, n)) = Aligned(a + n - 1) + Word
  BY <1>3, WordsCounted
<1>5. TxType'
  <2>1. tx_buf' \in Seq(Bytes) /\ Len(tx_buf') < Fifo
    BY <1>1 DEF TxInv, TxType
  <2> QED BY <1>1, <1>3, <1>4, <2>1 DEF TxInv, TxType
<1>6. TxIdle' BY <1>1, <1>2 DEF TxIdle
<1>7. TxWalk'
  <2>1. tx_burst_araddr' = Aligned(a)
    <3>1. a + 0 = a
      <4> HIDE DEF a
      <4> QED BY <1>3
    <3> QED BY <1>1, <3>1 DEF tx_burst_araddr, Aligned
  <2>2. Aligned(tx_pkt_addr + tx_pkt_size - 1)' = Aligned(a + n - 1)
    BY DEF Aligned
  <2>3. Span(tx_word_left)' = Span(WordsOf(a, n)) BY <1>1 DEF Span
  <2>4. tx_word_left' >= 1
    <3> DEFINE z == Aligned(a + n - 1)
               w == WordsOf(a, n)
    <3>1. /\ z \in Nat /\ a + n - 1 < z + Word /\ Aligned(a) <= a
          /\ Aligned(a) \in Nat
      <4> HIDE DEF a, n
      <4>1. a + n - 1 \in Nat BY <1>3
      <4> QED BY <1>3, <4>1, AlignedDown
    <3>2. w \in Nat /\ Aligned(a) + Span(w) = z + Word BY <1>4
    <3>3. Span(0) = 0 BY NextWord
    <3> DEFINE b == Aligned(a)
    <3> SUFFICES ASSUME w = 0 PROVE FALSE BY <1>1, <3>2
    <3> HIDE DEF z, w, a, n, b
    <3>4. b = z + Word /\ b <= a BY <3>1, <3>2, <3>3 DEF b
    <3> QED BY <1>3, <3>1, <3>4, Widths
  <2> QED BY <1>1, <1>2, <1>4, <2>1, <2>2, <2>3, <2>4 DEF TxWalk
<1>8. TxPlaces'
  <2>1. Span(Len(tx_buf))' = 0
    <3>1. Len(tx_buf') = 0 BY <1>1, <1>2, EmptySeq
    <3>2. Span(0) = 0 BY NextWord
    <3> QED BY <3>1, <3>2 DEF Span
  <2>2. Pushed' = 0 BY <1>1, <2>1 DEF Pushed
  <2>3. TxAt(tx_buf, sent, tx_axis_byte_offs)'
    <3>1. Len(tx_buf') = 0 BY <1>1, <1>2, EmptySeq
    <3>2. OnWord(0) BY AlignedItself, Widths, SpanIsMultiple, NextWord
    <3>3. 0 <= Word - unit BY Widths
    <3>4. TxWords(tx_buf, sent - tx_axis_byte_offs)' BY <3>1 DEF TxWords
    <3> QED BY <1>1, <1>2, <3>2, <3>3, <3>4 DEF TxAt, OnWord
  <2> QED BY <1>1, <1>2, <2>2, <2>3 DEF TxPlaces
<1>9. TxHead' BY <1>1 DEF TxHead
<1> QED BY <1>5, <1>6, <1>7, <1>8, <1>9 DEF TxInv

LEMMA TxInitInv ==
  ASSUME TxInit
  PROVE  TxInv
<1>1. TxType
  <2>1. tx_buf \in Seq(Bytes) /\ Len(tx_buf) < Fifo
    BY EmptySeq, Widths DEF TxInit
  <2>2. tx_burst_head \in Bytes BY DEF TxInit, Bytes, Junk
  <2> QED BY <2>1, <2>2 DEF TxInit, TxType
<1>2. TxIdle /\ TxPlaces /\ TxHead BY DEF TxInit, TxIdle, TxPlaces, TxHead
<1>3. TxWalk BY DEF TxInit, TxWalk
<1> QED BY <1>1, <1>2, <1>3 DEF TxInv

LEMMA TxNextStep ==
  ASSUME TxInv, unit \in {1, Word}, unit' = unit, TxNext
  PROVE  TxInv'
BY TxResetStep, TxFetchStep, TxRunStep DEF TxNext

\* The variables of the transmitter are all that TxInv is about.
LEMMA TxStill ==
  ASSUME TxInv, unit' = unit, UNCHANGED txVars
  PROVE  TxInv'
<1>1. /\ tx_start' = tx_start /\ tx_axis_start' = tx_axis_start
      /\ tx_axis_stop' = tx_axis_stop /\ tx_m_axi_stop' = tx_m_axi_stop
      /\ tx_buf' = tx_buf /\ tx_burst_head' = tx_burst_head
      /\ tx_burst_tail' = tx_burst_tail /\ tx_pkt_addr' = tx_pkt_addr
      /\ tx_pkt_size' = tx_pkt_size /\ tx_pkt_offs' = tx_pkt_offs
      /\ tx_word_left' = tx_word_left
      /\ tx_axis_byte_offs' = tx_axis_byte_offs /\ r_adr' = r_adr
      /\ r_left' = r_left /\ sent' = sent
  BY DEF txVars, txDesc, txBurst
<1>2. TxType' BY <1>1 DEF TxInv, TxType
<1>3. TxIdle' BY <1>1 DEF TxInv, TxIdle
<1>4. TxWalk' BY <1>1 DEF TxInv, TxWalk, tx_burst_araddr, Aligned, Span
<1>5. Pushed' = Pushed BY <1>1 DEF Pushed, Span
<1>6. shift' = shift /\ (TailNeeded' <=> TailNeeded)
  BY <1>1 DEF shift, TailNeeded
<1>7. TxPlaces'
  <2>1. TxAt(tx_buf, sent, tx_axis_byte_offs)'
          <=> TxAt(tx_buf, sent, tx_axis_byte_offs)
    BY <1>1 DEF TxAt, TxWords, OnWord, Span
  <2>2. Aligned(tx_pkt_size - 1)' = Aligned(tx_pkt_size - 1)
    BY <1>1 DEF Aligned
  <2> QED BY <1>1, <1>5, <1>6, <2>1, <2>2 DEF TxInv, TxPlaces
<1>8. TxHead' BY <1>1, <1>5, <1>6 DEF TxInv, TxHead, Lanes
<1> QED BY <1>2, <1>3, <1>4, <1>7, <1>8 DEF TxInv

-----------------------------------------------------------------------------
(* What it shows of the transmitter.                                       *)

LEMMA TxBurstIsOK ==
  ASSUME TxInv
  PROVE  TxBurstOK /\ Len(tx_buf) < Fifo
<1>1. Len(tx_buf) < Fifo BY DEF TxInv, TxType
<1>2. ASSUME m_axi_rd_cyc
      PROVE  /\ InPage(r_adr, r_left - 1)
             /\ r_adr + r_left * Word
                  <= Aligned(tx_pkt_addr + tx_pkt_size - 1) + Word
             /\ r_adr >= Aligned(tx_pkt_addr)
  <2>1. /\ tx_axis_start /\ ~tx_m_axi_stop
        /\ r_adr = tx_burst_araddr /\ r_left <= tx_word_left
        /\ (r_adr % Page) + Span(r_left) <= Page /\ r_left \in Nat
    BY <1>2 DEF m_axi_rd_cyc, TxInv, TxWalk, TxType
  <2>2. /\ tx_burst_araddr \in Nat /\ tx_word_left \in Nat
        /\ tx_burst_araddr + Span(tx_word_left)
             = Aligned(tx_pkt_addr + tx_pkt_size - 1) + Word
    BY <2>1, TxFacts, TxReading
  <2>3. Span(r_left) <= Span(tx_word_left) /\ Span(r_left) \in Nat
        /\ Span(tx_word_left) \in Nat
    BY <2>1, <2>2, SpanMono, Multiples
  <2>4. InPage(r_adr, r_left - 1)
    <3>1. (r_left - 1) + 1 = r_left BY <2>1
    <3> QED BY <2>1, <3>1 DEF InPage, Span
  <2>5. r_adr + Span(r_left) <= tx_burst_araddr + Span(tx_word_left)
    BY <2>1, <2>2, <2>3
  <2>6. r_adr >= Aligned(tx_pkt_addr)
    <3>1. tx_pkt_addr \in Nat /\ tx_pkt_addr + tx_pkt_offs \in Nat
          /\ tx_pkt_addr <= tx_pkt_addr + tx_pkt_offs
      BY <2>1, TxFacts
    <3>2. Aligned(tx_pkt_addr) <= Aligned(tx_pkt_addr + tx_pkt_offs)
      BY <3>1, AlignedMono
    <3>3. Aligned(tx_pkt_addr) \in Nat /\ r_adr \in Nat
      BY <2>1, <2>2, <3>1, AlignedDown
    <3> QED BY <2>1, <3>2, <3>3 DEF tx_burst_araddr
  <2> QED BY <2>2, <2>4, <2>5, <2>6 DEF Span
<1> QED BY <1>1, <1>2 DEF TxBurstOK

LEMMA TxIsIntact ==
  ASSUME TxInv, unit \in {1, Word}
  PROVE  TxIntegrity
<1> SUFFICES ASSUME tx_start, tx_axis_start, tx_axis_tvalid
             PROVE  /\ tx_axis_tlast <=> sent + unit >= tx_pkt_size
                    /\ tx_axis_tkeep = {i \in 0 .. unit - 1 : sent + i < tx_pkt_size}
                    /\ \A i \in tx_axis_tkeep :
                         tx_axis_tdata[i] = tx_pkt_addr + sent + i
  BY DEF TxIntegrity
<1>1. tx_buf # <<>> BY DEF tx_axis_tvalid
<1>2. /\ ~tx_axis_stop /\ Len(tx_buf) >= 1
      /\ tx_axis_tlast <=> sent + unit >= tx_pkt_size
      /\ tx_axis_tlast => sent - tx_axis_byte_offs = Aligned(tx_pkt_size - 1)
  BY <1>1, TxLast
<1>3. /\ sent \in Nat /\ tx_axis_byte_offs \in Nat /\ tx_pkt_size \in Nat
      /\ tx_pkt_size - 1 \in Nat /\ tx_pkt_addr \in Nat
      /\ Word \in Nat /\ Word >= 1 /\ unit \in Nat /\ unit >= 1 /\ unit <= Word
  BY TxFacts
<1>4. TxAt(tx_buf, sent, tx_axis_byte_offs) BY <1>2 DEF TxInv, TxPlaces
<1>5. /\ tx_axis_byte_offs <= sent /\ sent < tx_pkt_size
      /\ tx_axis_byte_offs <= Word - unit /\ (unit = Word => tx_axis_byte_offs = 0)
      /\ TxWords(tx_buf, sent - tx_axis_byte_offs)
  BY <1>1, <1>4 DEF TxAt
<1>6. tx_axis_tkeep = {i \in 0 .. unit - 1 : sent + i < tx_pkt_size}
  <2>1. CASE ~tx_axis_tlast
    <3>1. \A i \in 0 .. unit - 1 : sent + i < tx_pkt_size
      BY <1>2, <1>3, <2>1
    <3>2. tx_axis_tkeep = 0 .. unit - 1 BY <2>1 DEF tx_axis_tkeep
    <3> QED BY <3>1, <3>2
  <2>2. CASE tx_axis_tlast
    <3> DEFINE n == tx_pkt_size - 1
               z == Aligned(n)
               r == tx_pkt_size % Word
    <3>1. z \in Nat /\ OnWord(z) /\ z <= n /\ n < z + Word
      BY <1>3, AlignedDown
    <3>2. sent - tx_axis_byte_offs = z BY <1>2, <2>2
    <3>3. r = tx_pkt_size - z \/ (r = 0 /\ tx_pkt_size = z + Word)
      <4>1. CASE n + 1 < z + Word
        <5>1. tx_pkt_size - z \in 0 .. Word - 1 BY <1>3, <3>1, <4>1
        <5>2. (z + (tx_pkt_size - z)) % Word = tx_pkt_size - z
          BY <3>1, <5>1, AlignedSum
        <5>3. z + (tx_pkt_size - z) = tx_pkt_size BY <1>3, <3>1
        <5> QED BY <5>2, <5>3
      <4>2. CASE n + 1 = z + Word
        <5>1. tx_pkt_size = z + Word BY <1>3, <3>1, <4>2
        <5>2. OnWord(z + Word) BY <3>1, MultipleNext
        <5> QED BY <5>1, <5>2 DEF OnWord
      <4> HIDE DEF z
      <4> QED BY <1>3, <3>1, <4>1, <4>2
    <3>4. tx_axis_tkeep = IF r # 0 THEN {i \in 0 .. unit - 1 : i < r}
                          ELSE 0 .. unit - 1
      BY <2>2 DEF tx_axis_tkeep
    <3> HIDE DEF z, r, n
    <3>5. ASSUME NEW i \in 0 .. unit - 1
          PROVE  (r # 0 => i < r) <=> sent + i < tx_pkt_size
      <4>1. z <= tx_pkt_size - 1 /\ z \in Nat BY <3>1 DEF n
      <4>2. CASE unit = Word
        <5>1. sent = z BY <1>3, <1>5, <3>2, <4>1, <4>2
        <5>2. CASE r = tx_pkt_size - z
          BY <1>3, <3>5, <4>1, <4>2, <5>1, <5>2
        <5>3. CASE r = 0 /\ tx_pkt_size = z + Word
          BY <1>3, <3>5, <4>1, <4>2, <5>1, <5>3
        <5> QED BY <3>3, <5>2, <5>3
      <4>3. CASE unit = 1
        <5>1. i = 0 /\ sent + i < tx_pkt_size BY <1>3, <1>5, <3>5, <4>3
        <5>2. r # 0 => r > 0 BY <1>3, <3>3, <4>1
        <5> QED BY <5>1, <5>2
      <4> QED BY <4>2, <4>3
    <3> QED BY <3>4, <3>5
  <2> QED BY <2>1, <2>2
<1>7. ASSUME NEW i \in tx_axis_tkeep
      PROVE  tx_axis_tdata[i] = tx_pkt_addr + sent + i
  <2>1. i \in 0 .. unit - 1 /\ sent + i < tx_pkt_size BY <1>6, <1>7
  <2>2. tx_axis_tdata[i] = Head(tx_buf)[tx_axis_byte_offs + i]
    BY <2>1 DEF tx_axis_tdata
  <2>3. Head(tx_buf) = tx_buf[1] /\ 1 \in 1 .. Len(tx_buf)
    BY <1>1, <1>2, TxBuffer, HeadTailProperties
  <2>4. tx_axis_byte_offs + i \in Lanes BY <1>3, <1>5, <2>1 DEF Lanes
  <2>5. (sent - tx_axis_byte_offs) + Span(1 - 1) + (tx_axis_byte_offs + i) = sent + i
    <3>1. 1 - 1 = 0 /\ Span(0) = 0 BY NextWord
    <3> QED BY <1>3, <2>1, <3>1
  <2>6. tx_buf[1][tx_axis_byte_offs + i]
          = tx_pkt_addr + (sent - tx_axis_byte_offs) + Span(1 - 1)
              + (tx_axis_byte_offs + i)
    BY <1>5, <2>1, <2>3, <2>4, <2>5 DEF TxWords
  <2>7. 1 - 1 = 0 /\ Span(0) = 0 BY NextWord
  <2> QED BY <1>3, <2>1, <2>2, <2>3, <2>6, <2>7
<1> QED BY <1>2, <1>6, <1>7

-----------------------------------------------------------------------------
(* The stream of the receiver.                                             *)

LEMMA RxFacts ==
  ASSUME RxInv, rx_axis_start, unit \in {1, Word}
  PROVE  /\ rx_addr \in Nat /\ rx_size \in Nat /\ rx_size > Word
         /\ frame \in Nat /\ frame > Word /\ came \in Nat
         /\ rx_axis_byte_offs \in Nat /\ rx_axis_keep \in Nat
         /\ Word \in Nat /\ Word >= 1 /\ unit \in Nat /\ unit >= 1 /\ unit <= Word
         /\ rx_shift \in Nat /\ rx_shift < Word
         /\ rx_shift # 0 => unit = Word
<1>1. /\ rx_addr \in Nat /\ rx_size \in Nat /\ rx_size > Word
      /\ frame \in Nat /\ frame > Word /\ came \in Nat
      /\ rx_axis_byte_offs \in Nat /\ rx_axis_keep \in Nat
  BY DEF RxInv, RxType
<1>2. rx_addr % Word \in 0 .. Word - 1 BY <1>1, AlignedDown
<1>3. Word \in Nat /\ Word >= 1 BY Widths
<1>4. unit \in Nat /\ unit >= 1 /\ unit <= Word BY <1>3
<1>5. rx_shift \in Nat /\ rx_shift < Word /\ (rx_shift # 0 => unit = Word)
  BY <1>2, <1>3, <1>4 DEF rx_shift
<1> QED BY <1>1, <1>3, <1>4, <1>5

LEMMA RxBuffer ==
  ASSUME RxInv
  PROVE  /\ rx_buf \in Seq(Bytes) /\ Len(rx_buf) \in Nat /\ Len(rx_buf) < Fifo
         /\ rx_buf # <<>> => Len(rx_buf) >= 1
         /\ rx_buf = <<>> => Len(rx_buf) = 0
         /\ rx_part \in Bytes
<1>1. rx_buf \in Seq(Bytes) /\ Len(rx_buf) < Fifo /\ rx_part \in Bytes
  BY DEF RxInv, RxType
<1>2. Len(rx_buf) \in Nat BY <1>1, LenProperties
<1>3. /\ rx_buf # <<>> => Len(rx_buf) >= 1
      /\ rx_buf = <<>> => Len(rx_buf) = 0
  BY <1>1, <1>2, EmptySeq
<1> QED BY <1>1, <1>2, <1>3

\* What the MAC offers, and the word it goes to.
LEMMA RxOffer ==
  ASSUME RxInv, rx_axis_start, unit \in {1, Word}, ~rx_axis_stop
  PROVE  /\ Offered \in Nat /\ Offered >= 1 /\ Offered <= unit
         /\ Placed \in Bytes
         /\ rx_axis_tlast \in BOOLEAN
         /\ rx_axis_tlast => came + Offered = frame
         /\ ~rx_axis_tlast => Offered = unit /\ came + unit < frame
<1>1. came < frame BY DEF RxInv, RxIdle
<1>2. /\ Offered \in Nat /\ Offered >= 1 /\ Offered <= unit
      /\ rx_axis_tlast => came + Offered = frame
      /\ ~rx_axis_tlast => Offered = unit /\ came + unit < frame
  BY <1>1, RxFacts DEF Offered, rx_axis_tlast
<1>3. Placed \in Bytes
  <2>1. \A i \in Lanes :
          (IF i \in rx_axis_byte_offs .. rx_axis_byte_offs + Offered - 1
           THEN came + (i - rx_axis_byte_offs) ELSE rx_part[i]) \in Int
    <3>1. \A i \in Lanes : i \in Int BY Widths DEF Lanes
    <3>2. \A i \in Lanes : rx_part[i] \in Int BY RxBuffer DEF Bytes
    <3> QED BY <3>1, <3>2, RxFacts
  <2> QED BY <2>1 DEF Placed, Bytes
<1> QED BY <1>2, <1>3 DEF rx_axis_tlast

\* The FIFO takes a word only when it has room.
LEMMA RxAdded ==
  ASSUME NEW take \in BOOLEAN, RxInv, rx_axis_start, unit \in {1, Word},
         RxStream(take)
  PROVE  /\ \/ Added(take) = <<>>
            \/ /\ take /\ ~rx_axis_stop /\ ~rx_m_axi_stop /\ Len(rx_buf) + 1 < Fifo
               /\ Added(take) = <<Placed>> /\ Placed \in Bytes
               /\ rx_axis_tlast \/ rx_axis_byte_offs >= Word - unit
         /\ Added(take) \in Seq(Bytes) /\ Len(Added(take)) \in 0 .. 1
<1>1. CASE Added(take) = <<>> BY <1>1, EmptySeq
<1>2. CASE Added(take) # <<>>
  <2>1. /\ take /\ ~rx_m_axi_stop /\ Added(take) = <<Placed>>
        /\ rx_axis_tlast \/ rx_axis_byte_offs >= Word - unit
    BY <1>2 DEF Added
  <2>2. ~rx_axis_stop /\ Len(rx_buf) # Fifo - 1
    BY <2>1 DEF RxStream, rx_axis_tready, Full
  <2>3. Placed \in Bytes BY <2>2, RxOffer
  <2>4. <<Placed>> \in Seq(Bytes) /\ Len(<<Placed>>) = 1 BY <2>3
  <2>5. Len(rx_buf) + 1 < Fifo BY <2>2, RxBuffer, Widths
  <2>6. Added(take) \in Seq(Bytes) /\ Len(Added(take)) \in 0 .. 1
    <3>1. Added(take) = <<Placed>> BY <2>1
    <3>2. Added(take) \in Seq(Bytes) /\ Len(Added(take)) = 1
      BY ONLY <2>4, <3>1, Zenon
    <3> QED BY <3>2
  <2>7. take /\ ~rx_axis_stop /\ ~rx_m_axi_stop BY <2>1, <2>2
  <2> QED BY <2>1, <2>3, <2>5, <2>6, <2>7
<1> QED BY <1>1, <1>2

\* The FIFO with what was added.
LEMMA RxJoined ==
  ASSUME NEW take \in BOOLEAN, RxInv, rx_axis_start, unit \in {1, Word},
         RxStream(take)
  PROVE  /\ rx_buf \o Added(take) \in Seq(Bytes)
         /\ Len(rx_buf \o Added(take)) = Len(rx_buf) + Len(Added(take))
         /\ Len(rx_buf \o Added(take)) < Fifo
         /\ \A j \in 1 .. Len(rx_buf) : (rx_buf \o Added(take))[j] = rx_buf[j]
         /\ Added(take) = <<Placed>> =>
              (rx_buf \o Added(take))[Len(rx_buf) + 1] = Placed
<1>1. /\ rx_buf \in Seq(Bytes) /\ Len(rx_buf) \in Nat /\ Len(rx_buf) < Fifo
      /\ Added(take) \in Seq(Bytes) /\ Len(Added(take)) \in 0 .. 1
      /\ Len(Added(take)) = 0 \/ Len(rx_buf) + 1 < Fifo
  BY RxBuffer, RxAdded, EmptySeq
<1>2. /\ rx_buf \o Added(take) \in Seq(Bytes)
      /\ Len(rx_buf \o Added(take)) = Len(rx_buf) + Len(Added(take))
      /\ \A j \in 1 .. Len(rx_buf) + Len(Added(take)) :
           (rx_buf \o Added(take))[j] =
             IF j <= Len(rx_buf) THEN rx_buf[j] ELSE Added(take)[j - Len(rx_buf)]
  BY <1>1, ConcatProperties
<1>3. Len(rx_buf \o Added(take)) < Fifo BY <1>1, <1>2, Widths
<1>4. \A j \in 1 .. Len(rx_buf) : (rx_buf \o Added(take))[j] = rx_buf[j]
  BY <1>1, <1>2
<1>5. ASSUME Added(take) = <<Placed>>
      PROVE  (rx_buf \o Added(take))[Len(rx_buf) + 1] = Placed
  <2>1. Len(Added(take)) = 1 /\ Added(take)[1] = Placed BY <1>5
  <2>2. (Len(rx_buf) + 1) - Len(rx_buf) = 1 /\ ~(Len(rx_buf) + 1 <= Len(rx_buf))
        /\ Len(rx_buf) + 1 \in 1 .. Len(rx_buf) + Len(Added(take))
    BY <1>1, <2>1
  <2> QED BY <1>2, <2>1, <2>2
<1> QED BY <1>2, <1>3, <1>4, <1>5

\* The FIFO when its first word was taken out.
LEMMA RxPopped ==
  ASSUME NEW take \in BOOLEAN, RxInv, rx_axis_start, unit \in {1, Word},
         RxStream(take), rx_buf # <<>>
  PROVE  /\ Tail(rx_buf) \o Added(take) \in Seq(Bytes)
         /\ Len(Tail(rx_buf) \o Added(take)) = Len(rx_buf \o Added(take)) - 1
         /\ \A j \in 1 .. Len(Tail(rx_buf) \o Added(take)) :
              (Tail(rx_buf) \o Added(take))[j] = (rx_buf \o Added(take))[j + 1]
         /\ Head(rx_buf) = (rx_buf \o Added(take))[1] /\ Head(rx_buf) \in Bytes
<1> DEFINE a == Added(take)
           t == Tail(rx_buf)
<1>1. /\ rx_buf \in Seq(Bytes) /\ Len(rx_buf) \in Nat /\ Len(rx_buf) >= 1
      /\ a \in Seq(Bytes) /\ Len(a) \in Nat
  BY RxBuffer, RxAdded
<1>2. /\ t \in Seq(Bytes) /\ Len(t) = Len(rx_buf) - 1
      /\ \A j \in 1 .. Len(t) : t[j] = rx_buf[j + 1]
      /\ Head(rx_buf) = rx_buf[1] /\ Head(rx_buf) \in Bytes
  BY <1>1, HeadTailProperties
<1> HIDE DEF a, t
<1>3. /\ rx_buf \o a \in Seq(Bytes) /\ Len(rx_buf \o a) = Len(rx_buf) + Len(a)
      /\ \A j \in 1 .. Len(rx_buf) + Len(a) :
           (rx_buf \o a)[j] =
             IF j <= Len(rx_buf) THEN rx_buf[j] ELSE a[j - Len(rx_buf)]
  BY <1>1, ConcatProperties
<1>4. /\ t \o a \in Seq(Bytes) /\ Len(t \o a) = Len(t) + Len(a)
      /\ \A j \in 1 .. Len(t) + Len(a) :
           (t \o a)[j] = IF j <= Len(t) THEN t[j] ELSE a[j - Len(t)]
  BY <1>1, <1>2, ConcatProperties
<1>5. ASSUME NEW j \in 1 .. Len(t \o a)
      PROVE  (t \o a)[j] = (rx_buf \o a)[j + 1]
  <2>1. j + 1 \in 1 .. Len(rx_buf) + Len(a) /\ j \in 1 .. Len(t) + Len(a)
    BY <1>1, <1>2, <1>4
  <2>2. CASE j <= Len(t)
    <3>1. j + 1 <= Len(rx_buf) /\ j \in 1 .. Len(t) BY <1>1, <1>2, <2>1, <2>2
    <3> QED BY <1>2, <1>3, <1>4, <2>1, <2>2, <3>1
  <2>3. CASE ~(j <= Len(t))
    <3>1. ~(j + 1 <= Len(rx_buf)) /\ (j + 1) - Len(rx_buf) = j - Len(t)
      BY <1>1, <1>2, <2>1, <2>3
    <3> QED BY <1>3, <1>4, <2>1, <2>3, <3>1
  <2> QED BY <2>2, <2>3
<1>6. Head(rx_buf) = (rx_buf \o a)[1] BY <1>1, <1>2, <1>3
<1> QED BY <1>1, <1>2, <1>3, <1>4, <1>5, <1>6 DEF a, t

\* The places of a word follow one another.
LEMMA PlaceOf ==
  ASSUME NEW h \in Int, NEW j \in Int, NEW i \in Int, rx_addr \in Int,
         rx_shift \in Int
  PROVE  /\ Place(h, j, i) \in Int
         /\ Place(h, j, i) = Place(h, j, 0) + i
         /\ Place(h, j + 1, i) = Place(h, j, i) + Word
         /\ Place(h + Word, j, i) = Place(h, j + 1, i)
         /\ Place(h, 1, i) = (h - rx_addr) + rx_shift + i
         /\ Place(h, 0, i) = (h - rx_addr) + rx_shift + i - Word
<1>1. Span(j - 1) \in Int /\ Span((j + 1) - 1) = Span(j - 1) + Word
  <2>1. (j + 1) - 1 = (j - 1) + 1 OBVIOUS
  <2> QED BY <2>1, NextWord
<1>2. Span(1 - 1) = 0 /\ Span(0 - 1) = 0 - Word
  <2>1. Span(0) = 0 /\ Span(0 - 1) = Span(0) - Word BY NextWord
  <2> QED BY <2>1, Widths
<1> QED BY <1>1, <1>2, Widths DEF Place

LEMMA PlaceMono ==
  ASSUME NEW h \in Int, NEW j \in Nat, NEW k \in Nat, j <= k, NEW i \in Lanes,
         rx_addr \in Int, rx_shift \in Int
  PROVE  Place(h, j, i) < Place(h, k + 1, 0)
<1>1. j - 1 <= k - 1 /\ (k + 1) - 1 = (k - 1) + 1 /\ i < Word /\ i \in Int
  BY Widths DEF Lanes
<1>2. Span((k + 1) - 1) = Span(k) /\ Span(k) \in Int /\ Span(j - 1) \in Int
      /\ Span(j) = Span(j - 1) + Word
  <2>1. (k + 1) - 1 = k /\ (j - 1) + 1 = j OBVIOUS
  <2>2. Span((j - 1) + 1) = Span(j - 1) + Word BY NextWord
  <2> QED BY <2>1, <2>2, NextWord
<1>3. Span(j) <= Span(k) BY SpanMono
<1> QED BY <1>1, <1>2, <1>3, Widths DEF Place

\* The words after the first, one word on.
LEMMA FramePopped ==
  ASSUME NEW p \in Seq(Bytes), NEW q \in Seq(Bytes), Len(q) = Len(p) - 1,
         \A j \in 1 .. Len(q) : q[j] = p[j + 1],
         NEW h \in Int, NEW c \in Int, NEW stop, NEW part, NEW b \in Int, NEW keep,
         rx_addr \in Int, rx_shift \in Int, RxFrame(p, h, c, stop, part, b, keep)
  PROVE  RxFrame(q, h + Word, c, stop, part, b, keep)
<1>1. Len(p) \in Nat /\ Len(q) \in Nat /\ (Len(q) + 1) + 1 = Len(p) + 1
      /\ Len(q) + 1 = Len(p)
  BY LenProperties
<1>2. \A i \in Int : /\ Place(h + Word, Len(q) + 1, i) = Place(h, Len(p) + 1, i)
                     /\ Place(h + Word, Len(q), i) = Place(h, Len(p), i)
  <2> TAKE i \in Int
  <2>2. \A j \in Int : Place(h + Word, j, i) = Place(h, j + 1, i) BY PlaceOf
  <2>1. Place(h + Word, Len(q) + 1, i) = Place(h, (Len(q) + 1) + 1, i)
        /\ Place(h + Word, Len(q), i) = Place(h, Len(q) + 1, i)
    <3>1. Len(q) \in Int /\ Len(q) + 1 \in Int BY <1>1
    <3>2. Place(h + Word, Len(q) + 1, i) = Place(h, (Len(q) + 1) + 1, i)
      BY <2>2, <3>1
    <3>3. Place(h + Word, Len(q), i) = Place(h, Len(q) + 1, i)
      BY <2>2, <3>1
    <3> QED BY <3>2, <3>3
  <2> QED BY <1>1, <2>1
<1>3. \A i \in Lanes : i \in Int BY Widths DEF Lanes
<1>4. ASSUME NEW j \in 1 .. Len(q), NEW i \in Lanes,
             Place(h + Word, j, i) >= 0, Place(h + Word, j, i) < c
      PROVE  q[j][i] = Place(h + Word, j, i)
  <2>1. j + 1 \in 1 .. Len(p) BY <1>1
  <2>2. Place(h + Word, j, i) = Place(h, j + 1, i)
    <3>1. j \in Int /\ i \in Int BY <1>1, <1>3
    <3> QED BY <3>1, PlaceOf
  <2>3. p[j + 1][i] = Place(h, j + 1, i) BY <1>4, <2>1, <2>2 DEF RxFrame
  <2> QED BY <2>2, <2>3
<1>5. ~stop => /\ c < frame /\ c = Place(h + Word, Len(q) + 1, b)
               /\ \A i \in Lanes : i < b /\ Place(h + Word, Len(q) + 1, i) >= 0 =>
                    part[i] = Place(h + Word, Len(q) + 1, i)
  BY <1>2, <1>3 DEF RxFrame
<1>6. stop => /\ c = frame /\ keep >= 1 /\ keep <= unit
              /\ frame = Place(h + Word, Len(q), b) + keep
  BY <1>2 DEF RxFrame
<1>7. b <= Word - unit /\ (unit = Word => b = 0) BY DEF RxFrame
<1> QED BY <1>4, <1>5, <1>6, <1>7 DEF RxFrame

\* What came goes on where the last of it stopped.
LEMMA FrameStreamed ==
  ASSUME NEW take \in BOOLEAN, RxInv, rx_axis_start, unit \in {1, Word},
         RxStream(take), ~rx_m_axi_stop, NEW h \in Int,
         RxFrame(rx_buf, h, came, rx_axis_stop, rx_part, rx_axis_byte_offs,
                 rx_axis_keep)
  PROVE  RxFrame(rx_buf \o Added(take), h, came', rx_axis_stop', rx_part',
                 rx_axis_byte_offs', rx_axis_keep')
<1> DEFINE b == rx_axis_byte_offs
           p == rx_buf \o Added(take)
           l == Len(rx_buf)
<1>1. /\ rx_addr \in Int /\ rx_shift \in Int /\ b \in Nat /\ came \in Nat
      /\ frame \in Nat /\ l \in Nat /\ Word \in Nat /\ Word >= 1
      /\ unit \in Nat /\ unit >= 1 /\ unit <= Word
      /\ rx_buf \in Seq(Bytes)
  BY RxFacts, RxBuffer
<1>2. CASE ~take
  <2>1. Added(take) = <<>> /\ p = rx_buf BY <1>1, <1>2, ConcatEmptySeq DEF Added
  <2>2. /\ came' = came /\ rx_axis_stop' = rx_axis_stop /\ rx_part' = rx_part
        /\ rx_axis_byte_offs' = b /\ rx_axis_keep' = rx_axis_keep
    BY <1>2 DEF RxStream, rxStream
  <2> QED BY <2>1, <2>2
<1>3. CASE take
  <2>1. ~rx_axis_stop BY <1>3 DEF RxStream, rx_axis_tready
  <2>2. /\ came' = came + Offered
        /\ rx_part' = IF rx_axis_tlast \/ b >= Word - unit THEN JunkWord ELSE Placed
        /\ rx_axis_tlast => /\ rx_axis_keep' = Offered /\ rx_axis_stop' = TRUE
                            /\ rx_axis_byte_offs' = b
        /\ ~rx_axis_tlast =>
             /\ rx_axis_byte_offs' = IF b >= Word - unit THEN 0 ELSE b + unit
             /\ rx_axis_stop' = rx_axis_stop
    BY <1>3 DEF RxStream
  <2>3. /\ Offered \in Nat /\ Offered >= 1 /\ Offered <= unit
        /\ rx_axis_tlast \in BOOLEAN
        /\ rx_axis_tlast => came + Offered = frame
        /\ ~rx_axis_tlast => Offered = unit /\ came + unit < frame
    BY <2>1, RxOffer
  <2>4. /\ b <= Word - unit /\ (unit = Word => b = 0)
        /\ came < frame /\ came = Place(h, l + 1, b)
        /\ \A i \in Lanes : i < b /\ Place(h, l + 1, i) >= 0 =>
             rx_part[i] = Place(h, l + 1, i)
        /\ \A j \in 1 .. l, i \in Lanes :
             Place(h, j, i) >= 0 /\ Place(h, j, i) < came =>
               rx_buf[j][i] = Place(h, j, i)
    BY <2>1 DEF RxFrame
  <2>5. /\ Place(h, l + 1, 0) \in Int
        /\ \A i \in Int : Place(h, l + 1, i) = Place(h, l + 1, 0) + i
        /\ \A i \in Int : Place(h, (l + 1) + 1, i) = Place(h, l + 1, i) + Word
    <3>1. l + 1 \in Int BY <1>1
    <3>2. Place(h, l + 1, 0) \in Int BY <1>1, <3>1, PlaceOf
    <3>3. ASSUME NEW i \in Int
          PROVE  Place(h, l + 1, i) = Place(h, l + 1, 0) + i
      BY <1>1, <3>1, PlaceOf
    <3>4. ASSUME NEW i \in Int
          PROVE  Place(h, (l + 1) + 1, i) = Place(h, l + 1, i) + Word
      BY <1>1, <3>1, PlaceOf
    <3> QED BY <3>2, <3>3, <3>4
  <2>6. \A i \in Lanes : i \in Int /\ i >= 0 /\ i < Word BY <1>1 DEF Lanes
  <2>11. came = Place(h, l + 1, 0) + b
    <3>1. Place(h, l + 1, b) = Place(h, l + 1, 0) + b BY <1>1, <2>5
    <3> QED BY <2>4, <3>1
  <2>12. b <= Word - unit /\ (unit = Word => b = 0) BY <2>4
  <2>7. \A i \in Lanes :
          Place(h, l + 1, i) >= 0 /\ Place(h, l + 1, i) < came' =>
            Placed[i] = Place(h, l + 1, i)
    <3> TAKE i \in Lanes
    <3> HAVE Place(h, l + 1, i) >= 0 /\ Place(h, l + 1, i) < came'
    <3>1. Placed[i] = IF i \in b .. b + Offered - 1 THEN came + (i - b)
                      ELSE rx_part[i]
      BY DEF Placed
    <3>2. Place(h, l + 1, i) = came + (i - b) /\ i \in Int
      <4>1. i \in Int /\ Place(h, l + 1, i) = Place(h, l + 1, 0) + i
        BY <2>5, <2>6
      <4> QED BY <1>1, <2>5, <2>11, <4>1
    <3>3. CASE i < b
      BY <1>1, <2>3, <2>4, <3>1, <3>2, <3>3
    <3>4. CASE i >= b
      <4>1. i \in b .. b + Offered - 1 BY <1>1, <2>2, <2>3, <3>2, <3>4
      <4> QED BY <3>1, <3>2, <4>1
    <3> QED BY <1>1, <3>2, <3>3, <3>4
  <2>8. \A j \in 1 .. l, i \in Lanes : Place(h, j, i) < came
    <3> TAKE j \in 1 .. l, i \in Lanes
    <3>1. Place(h, j, i) < Place(h, l + 1, 0) BY <1>1, PlaceMono
    <3>2. j \in Int /\ i \in Int BY <1>1, <2>6
    <3>3. Place(h, j, i) \in Int BY <1>1, <3>2, PlaceOf
    <3>4. Place(h, l + 1, 0) \in Int BY <2>5
    <3> QED BY <1>1, <2>11, <3>1, <3>3, <3>4
  <2>9. CASE rx_axis_tlast \/ b >= Word - unit
    <3>1. Added(take) = <<Placed>> BY <1>3, <2>9 DEF Added
    <3>2. /\ p \in Seq(Bytes) /\ Len(p) = l + 1
          /\ \A j \in 1 .. l : p[j] = rx_buf[j]
          /\ p[l + 1] = Placed
      <4>1. /\ p \in Seq(Bytes) /\ Len(p) = l + Len(Added(take))
            /\ \A j \in 1 .. l : p[j] = rx_buf[j]
            /\ p[l + 1] = Placed
        BY <3>1, RxJoined
      <4> QED BY <3>1, <4>1
    <3> HIDE DEF p, l
    <3>3. \A j \in 1 .. Len(p), i \in Lanes :
            Place(h, j, i) >= 0 /\ Place(h, j, i) < came' =>
              p[j][i] = Place(h, j, i)
      <4> TAKE j \in 1 .. Len(p), i \in Lanes
      <4>1. CASE j \in 1 .. l BY <2>4, <2>8, <3>2, <4>1
      <4>2. CASE j = l + 1 BY <2>7, <3>2, <4>2
      <4> QED BY <1>1, <3>2, <4>1, <4>2
    <3>4. CASE rx_axis_tlast
      <4>1. /\ came' = frame /\ rx_axis_stop' /\ rx_axis_keep' >= 1
            /\ rx_axis_keep' <= unit /\ rx_axis_byte_offs' = b
        BY <2>2, <2>3, <3>4
      <4>2. frame = Place(h, Len(p), b) + rx_axis_keep'
        BY <2>2, <2>3, <2>4, <3>2, <3>4
      <4> QED BY <2>12, <3>3, <4>1, <4>2 DEF RxFrame, p
    <3>5. CASE ~rx_axis_tlast
      <4>1. b = Word - unit BY <1>1, <2>4, <2>9, <3>5
      <4>2. /\ rx_axis_byte_offs' = 0 /\ ~rx_axis_stop'
            /\ came' = came + unit /\ came' < frame
        BY <1>1, <2>1, <2>2, <2>3, <3>5, <4>1
      <4>3. came' = Place(h, Len(p) + 1, 0)
        <5>1. Place(h, (l + 1) + 1, 0) = Place(h, l + 1, 0) + Word BY <2>5
        <5>2. Place(h, l + 1, 0) \in Int BY <2>5
        <5>3. came' = Place(h, l + 1, 0) + Word
          <6>1. came = Place(h, l + 1, 0) + b /\ b + unit = Word
            BY <1>1, <2>11, <4>1
          <6>2. came' = came + unit BY <4>2
          <6>3. b \in Int /\ unit \in Int BY <1>1, <2>4
          <6> QED BY ONLY <5>2, <6>1, <6>2, <6>3
        <5> QED BY <3>2, <5>1, <5>3
      <4>4. \A i \in Lanes : ~(i < 0) BY <2>6
      <4>5. 0 <= Word - unit BY <1>1
      <4> QED BY <1>1, <3>3, <4>2, <4>3, <4>4, <4>5 DEF RxFrame, p
    <3> QED BY <3>4, <3>5
  <2>10. CASE ~(rx_axis_tlast \/ b >= Word - unit)
    <3>1. Added(take) = <<>> /\ p = rx_buf
      BY <1>1, <2>10, ConcatEmptySeq DEF Added
    <3>2. unit = 1 /\ unit # Word /\ b + 1 <= Word - unit BY <1>1, <2>4, <2>10
    <3>3. /\ rx_axis_byte_offs' = b + 1 /\ ~rx_axis_stop' /\ rx_part' = Placed
          /\ came' = came + 1 /\ came' < frame
      BY <1>1, <2>1, <2>2, <2>3, <2>10, <3>2
    <3>4. came' = Place(h, l + 1, b + 1)
      <4>1. Place(h, l + 1, b + 1) = Place(h, l + 1, 0) + (b + 1)
            /\ Place(h, l + 1, b) = Place(h, l + 1, 0) + b
        BY <1>1, <2>5
      <4> QED BY <1>1, <2>4, <2>5, <3>3, <4>1
    <3>5. \A i \in Lanes : i < b + 1 /\ Place(h, l + 1, i) >= 0 =>
            rx_part'[i] = Place(h, l + 1, i)
      <4> TAKE i \in Lanes
      <4> HAVE i < b + 1 /\ Place(h, l + 1, i) >= 0
      <4>1. Place(h, l + 1, i) = Place(h, l + 1, 0) + i
            /\ Place(h, l + 1, b + 1) = Place(h, l + 1, 0) + (b + 1)
        BY <1>1, <2>5, <2>6
      <4>3. Place(h, l + 1, 0) \in Int /\ i \in Int /\ b \in Int
        BY <1>1, <2>4, <2>5, <2>6
      <4>2. Place(h, l + 1, i) < came'
        BY ONLY <3>4, <4>1, <4>3, i < b + 1
      <4> QED BY <2>7, <3>3, <4>2
    <3>6. \A j \in 1 .. l, i \in Lanes :
            Place(h, j, i) >= 0 /\ Place(h, j, i) < came' =>
              rx_buf[j][i] = Place(h, j, i)
      BY <2>4, <2>8
    <3> QED BY <3>1, <3>2, <3>3, <3>4, <3>5, <3>6 DEF RxFrame
  <2> QED BY <2>9, <2>10
<1> QED BY <1>2, <1>3

\* A clock of a frame, as the stream sees it.
RxOn(take) ==
  /\ rx_start /\ rx_axis_start
  /\ RxStream(take)
  /\ rx_start' = ~(rx_axis_stop /\ rx_m_axi_stop)
  /\ UNCHANGED <<unit, rx_axis_start, rxDesc>>

LEMMA RxStreamed ==
  ASSUME NEW take \in BOOLEAN, RxInv, unit \in {1, Word}, RxOn(take)
  PROVE  /\ rx_axis_start /\ rx_axis_start' = rx_axis_start /\ RxStream(take)
         /\ rx_addr' = rx_addr /\ rx_size' = rx_size /\ frame' = frame
         /\ unit' = unit /\ rx_shift' = rx_shift
         /\ came' \in Nat /\ rx_axis_byte_offs' \in Nat /\ rx_axis_keep' \in Nat
         /\ rx_part' \in Bytes /\ rx_axis_stop' \in BOOLEAN
         /\ ~rx_axis_stop' => came' < frame
         /\ rx_axis_stop => /\ rx_axis_stop' /\ Added(take) = <<>>
                            /\ came' = came /\ rx_axis_keep' = rx_axis_keep
                            /\ rx_axis_byte_offs' = rx_axis_byte_offs
                            /\ rx_bad_frame' = rx_bad_frame
         /\ ~rx_axis_stop /\ rx_axis_stop' /\ ~rx_m_axi_stop =>
              Added(take) = <<Placed>>
         /\ Extra <= Extra' /\ Extra \in {0, 1} /\ Extra' \in {0, 1}
         /\ rx_burst_1p => rx_burst_1p'
<1>1. /\ rx_axis_start /\ rx_axis_start' = rx_axis_start /\ RxStream(take)
      /\ rx_addr' = rx_addr /\ rx_size' = rx_size /\ frame' = frame
      /\ unit' = unit
  BY DEF RxOn, rxDesc
<1>2. rx_shift' = rx_shift BY <1>1 DEF rx_shift
<1>3. /\ came \in Nat /\ rx_axis_byte_offs \in Nat /\ rx_axis_keep \in Nat
      /\ unit \in Nat /\ rx_part \in Bytes /\ rx_axis_stop \in BOOLEAN
      /\ ~rx_axis_stop => came < frame
  BY <1>1, RxFacts DEF RxInv, RxType, RxIdle
<1>4. JunkWord \in Bytes BY DEF JunkWord, Junk, Bytes
<1>5. CASE ~take
  <2>1. /\ came' = came /\ rx_axis_stop' = rx_axis_stop /\ rx_part' = rx_part
        /\ rx_axis_byte_offs' = rx_axis_byte_offs /\ rx_axis_keep' = rx_axis_keep
        /\ rx_bad_frame' = rx_bad_frame
    BY <1>1, <1>5 DEF RxStream, rxStream
  <2>2. rx_burst_1p' = rx_burst_1p
    BY <1>2, <2>1 DEF rx_burst_1p, rx_axis_keep_cnt
  <2>3. Extra' = Extra /\ Extra \in {0, 1} BY <2>2 DEF Extra
  <2>4. Added(take) = <<>> BY <1>5 DEF Added
  <2> QED BY <1>1, <1>2, <1>3, <2>1, <2>2, <2>3, <2>4
<1>6. CASE take
  <2>1. ~rx_axis_stop BY <1>1, <1>6 DEF RxStream, rx_axis_tready
  <2>2. /\ came' = came + Offered
        /\ rx_part' = IF rx_axis_tlast \/ rx_axis_byte_offs >= Word - unit
                      THEN JunkWord ELSE Placed
        /\ rx_axis_tlast => /\ rx_axis_keep' = Offered /\ rx_axis_stop' = TRUE
                            /\ rx_axis_byte_offs' = rx_axis_byte_offs
        /\ ~rx_axis_tlast =>
             /\ rx_axis_byte_offs' = IF rx_axis_byte_offs >= Word - unit THEN 0
                                     ELSE rx_axis_byte_offs + unit
             /\ rx_axis_stop' = rx_axis_stop /\ rx_axis_keep' = rx_axis_keep
    BY <1>1, <1>6 DEF RxStream
  <2>3. /\ Offered \in Nat /\ Offered >= 1 /\ Offered <= unit
        /\ Placed \in Bytes /\ rx_axis_tlast \in BOOLEAN
        /\ ~rx_axis_tlast => Offered = unit /\ came + unit < frame
    BY <1>1, <2>1, RxOffer
  <2>4. came' \in Nat /\ rx_axis_byte_offs' \in Nat /\ rx_axis_keep' \in Nat
    <3>1. CASE rx_axis_tlast BY <1>3, <2>2, <2>3, <3>1
    <3>2. CASE ~rx_axis_tlast BY <1>3, <2>2, <2>3, <3>2
    <3> QED BY <3>1, <3>2
  <2>5. rx_part' \in Bytes BY <1>4, <2>2, <2>3
  <2>6. rx_axis_stop' \in BOOLEAN /\ (rx_axis_stop' <=> rx_axis_tlast)
    <3>1. CASE rx_axis_tlast BY <2>2, <3>1
    <3>2. CASE ~rx_axis_tlast BY <1>3, <2>1, <2>2, <3>2
    <3> QED BY <3>1, <3>2
  <2>7. ~rx_axis_stop' => came' < frame BY <2>2, <2>3, <2>6
  <2>8. rx_axis_stop' /\ ~rx_m_axi_stop => Added(take) = <<Placed>>
    BY <1>6, <2>6 DEF Added
  <2>9. ~rx_burst_1p BY <2>1 DEF rx_burst_1p
  <2>10. Extra = 0 /\ Extra' \in {0, 1} BY <2>9 DEF Extra
  <2>11. Extra <= Extra' BY <2>10
  <2> QED
    BY <1>1, <1>2, <2>1, <2>4, <2>5, <2>6, <2>7, <2>8, <2>9, <2>10, <2>11
<1> QED BY <1>5, <1>6

\* The words stay where they are.
LEMMA RxPlacesStay ==
  ASSUME NEW take \in BOOLEAN, RxInv, unit \in {1, Word}, RxOn(take),
         rx_buf' = rx_buf \o Added(take), UNCHANGED <<rx_m_axi_stop0, rxWalk>>
  PROVE  RxPlaces'
<1> SUFFICES ASSUME ~rx_m_axi_stop0 PROVE RxPlaces'
  BY DEF RxPlaces
<1>1. /\ rx_axis_start /\ RxStream(take)
      /\ rx_addr' = rx_addr /\ frame' = frame /\ unit' = unit
      /\ rx_shift' = rx_shift
  BY RxStreamed
<1>2. ~rx_m_axi_stop BY DEF RxInv, RxIdle
<1>3. /\ RxFrame(rx_buf, Here, came, rx_axis_stop, rx_part, rx_axis_byte_offs,
                 rx_axis_keep)
      /\ rx_axis_stop => rx_buf # <<>> \/ rx_burst_1p
      /\ filled = IF rx_wfirst = "part" THEN 0 ELSE Here - rx_addr
      /\ rx_wfirst = "all" =>
           \A i \in Lanes : i < rx_shift /\ (Here - rx_addr) + i < came =>
             rx_burst_tail[i] = (Here - rx_addr) + i
  BY <1>1 DEF RxInv, RxPlaces
<1>4. /\ Here \in Nat /\ rx_addr \in Nat /\ rx_shift \in Nat /\ Word \in Nat
      /\ rx_axis_byte_offs \in Nat /\ Len(rx_buf) \in Nat
  BY <1>1, RxFacts, RxBuffer, AlignedDown DEF Here, RxInv, RxType
<1>5. RxFrame(rx_buf \o Added(take), Here, came', rx_axis_stop', rx_part',
              rx_axis_byte_offs', rx_axis_keep')
  BY <1>1, <1>2, <1>3, <1>4, FrameStreamed
<1>6. Here' = Here /\ rx_wfirst' = rx_wfirst /\ filled' = filled
      /\ rx_burst_tail' = rx_burst_tail
  BY DEF rxWalk, Here, Aligned
<1>7. RxFrame(rx_buf, Here, came, rx_axis_stop, rx_part, rx_axis_byte_offs,
              rx_axis_keep)'
  BY <1>1, <1>5, <1>6 DEF RxFrame, Place, Span, Lanes
<1>8. rx_axis_stop' => rx_buf' # <<>> \/ rx_burst_1p'
  <2>1. /\ rx_buf' \in Seq(Bytes)
        /\ Len(rx_buf') = Len(rx_buf) + Len(Added(take))
        /\ Len(Added(take)) \in Nat
    BY <1>1, RxJoined, RxAdded
  <2>2. CASE rx_axis_stop
    <3>1. rx_buf # <<>> => rx_buf' # <<>> BY <2>1, RxBuffer, EmptySeq
    <3> QED BY <1>3, <2>2, <3>1, RxStreamed
  <2>3. CASE ~rx_axis_stop
    <3> SUFFICES ASSUME rx_axis_stop' PROVE rx_buf' # <<>> OBVIOUS
    <3>1. Added(take) = <<Placed>> BY <1>2, <2>3, RxStreamed
    <3>2. Len(Added(take)) = 1 BY <3>1
    <3> QED BY <1>4, <2>1, <3>2, EmptySeq
  <2> QED BY <2>2, <2>3
<1>9. ASSUME rx_wfirst = "all", NEW i \in Lanes, i < rx_shift,
             (Here - rx_addr) + i < came'
      PROVE  rx_burst_tail[i] = (Here - rx_addr) + i
  <2>1. CASE rx_axis_stop
    <3>1. came' = came BY <2>1, RxStreamed
    <3> QED BY <1>3, <1>9, <3>1
  <2>2. CASE ~rx_axis_stop
    <3>1. came = Place(Here, Len(rx_buf) + 1, rx_axis_byte_offs)
      BY <1>3, <2>2 DEF RxFrame
    <3>2. Span((Len(rx_buf) + 1) - 1) \in Nat
      <4>1. (Len(rx_buf) + 1) - 1 = Len(rx_buf) BY <1>4
      <4> QED BY <1>4, <4>1, Multiples
    <3>3. i \in Int BY <1>4 DEF Lanes
    <3>4. (Here - rx_addr) + i < came
      BY <1>4, <1>9, <3>1, <3>2, <3>3 DEF Place
    <3> QED BY <1>3, <1>9, <3>4
  <2> QED BY <2>1, <2>2
<1>10. /\ (Here - rx_addr)' = Here - rx_addr
       /\ filled' = IF rx_wfirst' = "part" THEN 0 ELSE (Here - rx_addr)'
  BY <1>1, <1>3, <1>6
<1> QED BY <1>1, <1>6, <1>7, <1>8, <1>9, <1>10 DEF RxPlaces, Lanes

\* What a clock of a frame leaves as it was.
LEMMA RxKeeps ==
  ASSUME NEW take \in BOOLEAN, RxInv, unit \in {1, Word}, RxOn(take),
         rx_m_axi_stop0' \in BOOLEAN, rx_m_axi_stop' \in BOOLEAN,
         rx_buf' \in Seq(Bytes), Len(rx_buf') < Fifo, rx_burst_tail' \in Bytes,
         rx_pkt_addr' \in Nat, rx_word_left' \in Nat, rx_word_left' < Range14,
         rx_wfirst' \in {"part", "all", "none"},
         m_axi_wr_cyc' \in BOOLEAN, m_axi_wvalid' \in BOOLEAN,
         m_axi_wcnt' \in Nat, m_axi_awlen' \in Nat, w_adr' \in Nat,
         m_axi_wvalid' => m_axi_wr_cyc',
         rx_m_axi_stop' <=> rx_m_axi_stop0' /\ ~m_axi_wr_cyc',
         rx_m_axi_stop => rx_m_axi_stop'
  PROVE  RxType' /\ RxIdle'
<1>1. /\ rx_axis_start /\ rx_axis_start' = rx_axis_start
      /\ rx_addr' = rx_addr /\ rx_size' = rx_size /\ frame' = frame
      /\ came' \in Nat /\ rx_axis_byte_offs' \in Nat /\ rx_axis_keep' \in Nat
      /\ rx_part' \in Bytes /\ rx_axis_stop' \in BOOLEAN
      /\ ~rx_axis_stop' => came' < frame
      /\ rx_axis_stop => rx_axis_stop'
  BY RxStreamed
<1>2. rx_start' \in BOOLEAN /\ (rx_start' \/ (rx_axis_stop /\ rx_m_axi_stop))
  BY DEF RxOn
<1>3. RxType' BY <1>1, <1>2 DEF RxInv, RxType
<1>4. RxIdle' BY <1>1, <1>2 DEF RxIdle
<1> QED BY <1>3, <1>4

-----------------------------------------------------------------------------
(* The bus of the receiver.                                                *)

\* What a clock without a beat leaves behind.
LEMMA RxStays ==
  ASSUME NEW take \in BOOLEAN, RxInv, unit \in {1, Word}, RxOn(take),
         rx_buf' = rx_buf \o Added(take), UNCHANGED rxWalk
  PROVE  /\ rx_buf' \in Seq(Bytes) /\ Len(rx_buf') \in Nat /\ Len(rx_buf') < Fifo
         /\ Len(rx_buf') >= Len(rx_buf) /\ Here' = Here
         /\ Aligned(rx_addr)' = Aligned(rx_addr)
         /\ Aligned(rx_addr + rx_size - 1)' = Aligned(rx_addr + rx_size - 1)
         /\ rx_burst_tail' \in Bytes /\ rx_pkt_addr' \in Nat
         /\ rx_word_left' \in Nat /\ rx_word_left' < Range14
         /\ rx_wfirst' \in {"part", "all", "none"}
         /\ rx_pkt_addr' = rx_pkt_addr /\ rx_word_left' = rx_word_left
         /\ rx_wfirst' = rx_wfirst /\ filled' = filled
<1>1. /\ rx_axis_start /\ RxStream(take) /\ rx_addr' = rx_addr
      /\ rx_size' = rx_size
  BY RxStreamed
<1>2. /\ rx_buf' \in Seq(Bytes) /\ Len(rx_buf') < Fifo
      /\ Len(rx_buf') = Len(rx_buf) + Len(Added(take))
      /\ Len(Added(take)) \in Nat /\ Len(rx_buf) \in Nat
  BY <1>1, RxJoined, RxAdded, RxBuffer
<1>3. /\ rx_pkt_addr' = rx_pkt_addr /\ rx_word_left' = rx_word_left
      /\ rx_wfirst' = rx_wfirst /\ filled' = filled
      /\ rx_burst_tail' = rx_burst_tail
  BY DEF rxWalk
<1>4. /\ rx_burst_tail \in Bytes /\ rx_pkt_addr \in Nat
      /\ rx_word_left \in Nat /\ rx_word_left < Range14
      /\ rx_wfirst \in {"part", "all", "none"}
  BY DEF RxInv, RxType
<1>5. /\ Here' = Here /\ Aligned(rx_addr)' = Aligned(rx_addr)
      /\ Aligned(rx_addr + rx_size - 1)' = Aligned(rx_addr + rx_size - 1)
  BY <1>1, <1>3 DEF Here, Aligned
<1>6. Len(rx_buf') \in Nat /\ Len(rx_buf') >= Len(rx_buf) BY <1>2
<1> QED BY <1>2, <1>3, <1>4, <1>5, <1>6

\* The part of RxWalk that is about the words to come.
LEMMA RxWalkStays ==
  ASSUME NEW take \in BOOLEAN, RxInv, unit \in {1, Word}, RxOn(take),
         rx_buf' = rx_buf \o Added(take), UNCHANGED <<rx_m_axi_stop0, rxWalk>>
  PROVE  rx_axis_start' /\ ~rx_m_axi_stop0' =>
           /\ rx_word_left' >= 1
           /\ Here' + Span(rx_word_left)' = Aligned(rx_addr + rx_size - 1)' + Word
           /\ \/ rx_wfirst' = "part" /\ rx_pkt_addr' = rx_addr'
              \/ /\ rx_wfirst' = "all" /\ Here' = rx_pkt_addr'
                 /\ rx_pkt_addr' >= Aligned(rx_addr)' + Word
<1>1. /\ rx_axis_start /\ rx_addr' = rx_addr BY RxStreamed
<1>2. /\ Here' = Here /\ Aligned(rx_addr)' = Aligned(rx_addr)
      /\ Aligned(rx_addr + rx_size - 1)' = Aligned(rx_addr + rx_size - 1)
      /\ rx_pkt_addr' = rx_pkt_addr /\ rx_word_left' = rx_word_left
      /\ rx_wfirst' = rx_wfirst
  BY RxStays
<1>3. Span(rx_word_left)' = Span(rx_word_left) BY <1>2 DEF Span
<1> QED BY <1>1, <1>2, <1>3 DEF RxInv, RxWalk

\* The bus rests, and nothing is counted.
LEMMA RxRestStep ==
  ASSUME NEW take \in BOOLEAN, RxInv, unit \in {1, Word}, RxOn(take),
         rx_buf' = rx_buf \o Added(take),
         UNCHANGED <<rx_m_axi_stop0, rx_m_axi_stop, rxReport, rxWalk, rxBus>>
  PROVE  RxInv'
<1>1. /\ rx_m_axi_stop0' = rx_m_axi_stop0 /\ rx_m_axi_stop' = rx_m_axi_stop
      /\ rx_done' = rx_done /\ rx_status' = rx_status
      /\ m_axi_wr_cyc' = m_axi_wr_cyc /\ m_axi_wvalid' = m_axi_wvalid
      /\ m_axi_wcnt' = m_axi_wcnt /\ m_axi_awlen' = m_axi_awlen /\ w_adr' = w_adr
      /\ UNCHANGED rxWalk /\ UNCHANGED <<rx_m_axi_stop0, rxWalk>>
  BY DEF rxReport, rxBus
<1>2. /\ rx_axis_start /\ rx_addr' = rx_addr /\ rx_size' = rx_size
      /\ frame' = frame
      /\ Extra <= Extra' /\ Extra \in {0, 1} /\ Extra' \in {0, 1}
      /\ rx_axis_stop => rx_axis_stop' /\ rx_bad_frame' = rx_bad_frame
  BY RxStreamed
<1>3. /\ rx_buf' \in Seq(Bytes) /\ Len(rx_buf') \in Nat /\ Len(rx_buf') < Fifo
      /\ Len(rx_buf') >= Len(rx_buf) /\ Here' = Here
      /\ rx_burst_tail' \in Bytes /\ rx_pkt_addr' \in Nat
      /\ rx_word_left' \in Nat /\ rx_word_left' < Range14
      /\ rx_wfirst' \in {"part", "all", "none"}
      /\ rx_pkt_addr' = rx_pkt_addr /\ rx_word_left' = rx_word_left
      /\ rx_wfirst' = rx_wfirst /\ filled' = filled
  BY <1>1, RxStays
<1>4. RxType' /\ RxIdle'
  <2>1. /\ rx_m_axi_stop0 \in BOOLEAN /\ rx_m_axi_stop \in BOOLEAN
        /\ m_axi_wr_cyc \in BOOLEAN /\ m_axi_wvalid \in BOOLEAN
        /\ m_axi_wcnt \in Nat /\ m_axi_awlen \in Nat /\ w_adr \in Nat
        /\ m_axi_wvalid => m_axi_wr_cyc
        /\ rx_m_axi_stop <=> rx_m_axi_stop0 /\ ~m_axi_wr_cyc
    BY DEF RxInv, RxType, RxIdle
  <2> QED BY <1>1, <1>3, <2>1, RxKeeps
<1>5. RxPlaces' BY <1>1, RxPlacesStay
<1>6. RxWalk'
  <2>1. rx_axis_start' /\ ~rx_m_axi_stop0' =>
           /\ rx_word_left' >= 1
           /\ Here' + Span(rx_word_left)' = Aligned(rx_addr + rx_size - 1)' + Word
           /\ \/ rx_wfirst' = "part" /\ rx_pkt_addr' = rx_addr'
              \/ /\ rx_wfirst' = "all" /\ Here' = rx_pkt_addr'
                 /\ rx_pkt_addr' >= Aligned(rx_addr)' + Word
    BY <1>1, RxWalkStays
  <2>2. RxWalk BY DEF RxInv
  <2>3. rx_axis_start' /\ ~rx_m_axi_stop0' /\ m_axi_wvalid' => w_adr' = Here'
    BY <1>1, <1>2, <1>3, <2>2 DEF RxWalk
  <2>4. ASSUME m_axi_wvalid'
        PROVE  /\ Beats' >= 1 /\ Beats' <= Len(rx_buf') + Extra'
               /\ Beats' <= rx_word_left' + Extra'
               /\ (w_adr' % Page) + Span(Beats)' <= Page
               /\ rx_m_axi_stop0' => rx_wfirst' = "none" /\ rx_word_left' = 0
    <3>1. Beats' = Beats BY <1>1 DEF Beats
    <3>2. /\ Beats >= 1 /\ Beats <= Len(rx_buf) + Extra
          /\ Beats <= rx_word_left + Extra
          /\ (w_adr % Page) + Span(Beats) <= Page
          /\ rx_m_axi_stop0 => rx_wfirst = "none" /\ rx_word_left = 0
      BY <1>1, <2>2, <2>4 DEF RxWalk
    <3>3. Beats \in Int /\ Len(rx_buf) \in Nat /\ rx_word_left \in Nat
      BY RxBuffer DEF Beats, RxInv, RxType
    <3>4. Span(Beats)' = Span(Beats) BY <3>1 DEF Span
    <3>5. Beats' <= Len(rx_buf') + Extra' /\ Beats' <= rx_word_left' + Extra'
      <4>1. /\ Extra \in Int /\ Extra' \in Int /\ Extra <= Extra'
            /\ Len(rx_buf') \in Int /\ Len(rx_buf') >= Len(rx_buf)
            /\ rx_word_left' = rx_word_left
        BY <1>2, <1>3
      <4>2. Beats <= Len(rx_buf') + Extra' BY <3>2, <3>3, <4>1
      <4>3. Beats <= rx_word_left + Extra'
        <5>1. Beats <= rx_word_left + Extra BY <3>2
        <5>2. /\ Beats \in Int /\ rx_word_left \in Int /\ Extra \in Int
              /\ Extra' \in Int /\ Extra <= Extra'
          BY <3>3, <4>1
        <5>3. \A a, b, x, y \in Int : a <= b + x /\ x <= y => a <= b + y
          OBVIOUS
        <5> QED BY <5>1, <5>2, <5>3, Zenon
      <4> QED BY <3>1, <4>1, <4>2, <4>3
    <3> QED BY <1>1, <1>3, <3>1, <3>2, <3>4, <3>5
  <2> QED BY <2>1, <2>3, <2>4 DEF RxWalk
<1>7. RxDone'
  <2>1. RxDone BY DEF RxInv
  <2> QED BY <1>1, <1>2, <1>3, <2>1 DEF RxDone
<1> QED BY <1>4, <1>5, <1>6, <1>7 DEF RxInv

LEMMA AnswerStep ==
  ASSUME NEW take \in BOOLEAN, RxInv, unit \in {1, Word}, RxOn(take), Answer(take)
  PROVE  RxInv'
<1>1. /\ m_axi_wr_cyc /\ ~m_axi_wvalid /\ m_axi_wr_cyc' = FALSE
      /\ rx_m_axi_stop' = (rx_m_axi_stop \/ rx_m_axi_stop0)
      /\ rx_done' = rx_pkt_addr - rx_addr
      /\ rx_status' = <<m_axi_wr_err, rx_bad_frame>>
      /\ rx_buf' = rx_buf \o Added(take)
      /\ rx_m_axi_stop0' = rx_m_axi_stop0 /\ m_axi_wvalid' = m_axi_wvalid
      /\ m_axi_wcnt' = m_axi_wcnt /\ m_axi_awlen' = m_axi_awlen /\ w_adr' = w_adr
      /\ UNCHANGED rxWalk /\ UNCHANGED <<rx_m_axi_stop0, rxWalk>>
  BY DEF Answer
<1>2. /\ rx_axis_start /\ rx_addr' = rx_addr /\ rx_size' = rx_size
      /\ frame' = frame
      /\ rx_axis_stop => rx_axis_stop' /\ rx_bad_frame' = rx_bad_frame
  BY RxStreamed
<1>3. /\ rx_buf' \in Seq(Bytes) /\ Len(rx_buf') \in Nat /\ Len(rx_buf') < Fifo
      /\ rx_burst_tail' \in Bytes /\ rx_pkt_addr' \in Nat
      /\ rx_word_left' \in Nat /\ rx_word_left' < Range14
      /\ rx_wfirst' \in {"part", "all", "none"}
      /\ rx_pkt_addr' = rx_pkt_addr /\ filled' = filled
  BY <1>1, RxStays
<1>4. RxType' /\ RxIdle'
  <2>1. /\ rx_m_axi_stop0 \in BOOLEAN /\ rx_m_axi_stop \in BOOLEAN
        /\ m_axi_wvalid \in BOOLEAN
        /\ m_axi_wcnt \in Nat /\ m_axi_awlen \in Nat /\ w_adr \in Nat
        /\ rx_m_axi_stop => rx_m_axi_stop0
    BY DEF RxInv, RxType, RxIdle
  <2>2. rx_m_axi_stop' \in BOOLEAN /\ (rx_m_axi_stop' <=> rx_m_axi_stop0)
    BY <1>1, <2>1
  <2>3. /\ m_axi_wr_cyc' \in BOOLEAN /\ ~m_axi_wr_cyc' /\ ~m_axi_wvalid'
        /\ m_axi_wvalid' \in BOOLEAN
        /\ m_axi_wcnt' \in Nat /\ m_axi_awlen' \in Nat /\ w_adr' \in Nat
        /\ rx_m_axi_stop0' \in BOOLEAN
    BY <1>1, <2>1
  <2>4. /\ rx_m_axi_stop' <=> rx_m_axi_stop0' /\ ~m_axi_wr_cyc'
        /\ rx_m_axi_stop => rx_m_axi_stop'
    BY <1>1, <2>1, <2>2, <2>3
  <2> QED BY <1>3, <2>2, <2>3, <2>4, RxKeeps
<1>5. RxPlaces' BY <1>1, RxPlacesStay
<1>6. RxWalk'
  <2>1. rx_axis_start' /\ ~rx_m_axi_stop0' =>
           /\ rx_word_left' >= 1
           /\ Here' + Span(rx_word_left)' = Aligned(rx_addr + rx_size - 1)' + Word
           /\ \/ rx_wfirst' = "part" /\ rx_pkt_addr' = rx_addr'
              \/ /\ rx_wfirst' = "all" /\ Here' = rx_pkt_addr'
                 /\ rx_pkt_addr' >= Aligned(rx_addr)' + Word
    BY <1>1, RxWalkStays
  <2>2. ~m_axi_wvalid' BY <1>1
  <2> QED BY <2>1, <2>2 DEF RxWalk
<1>7. RxDone'
  <2> SUFFICES ASSUME rx_m_axi_stop0, frame <= rx_size PROVE RxDone'
    BY <1>1, <1>2 DEF RxDone
  <2>1. /\ rx_axis_stop /\ rx_pkt_addr = rx_addr + frame /\ filled >= frame
    BY <1>2 DEF RxInv, RxDone
  <2>2. rx_done' = frame
    <3>1. rx_addr \in Nat /\ frame \in Nat BY <1>2, RxFacts
    <3> QED BY <1>1, <2>1, <3>1
  <2>3. rx_status'[2] = rx_bad_frame' BY <1>1, <1>2, <2>1
  <2> QED BY <1>1, <1>2, <1>3, <2>1, <2>2, <2>3 DEF RxDone
<1> QED BY <1>4, <1>5, <1>6, <1>7 DEF RxInv

LEMMA RxBurstStep ==
  ASSUME NEW take \in BOOLEAN, RxInv, unit \in {1, Word}, RxOn(take), RxBurst(take)
  PROVE  RxInv'
<1> DEFINE len == IF rx_burst_1p THEN rx_burst_awlen ELSE rx_burst_awlen - 1
<1>1. /\ ~m_axi_wr_cyc /\ ~rx_m_axi_stop
      /\ rx_burst_data_len # 0 \/ rx_burst_1p
      /\ m_axi_wr_cyc' = TRUE /\ m_axi_wvalid' = TRUE /\ m_axi_wcnt' = 0
      /\ w_adr' = Here /\ m_axi_awlen' = len4k(Here, len)
      /\ rx_buf' = rx_buf \o Added(take)
      /\ rx_m_axi_stop0' = rx_m_axi_stop0 /\ rx_m_axi_stop' = rx_m_axi_stop
      /\ rx_done' = rx_done /\ rx_status' = rx_status
      /\ UNCHANGED rxWalk /\ UNCHANGED <<rx_m_axi_stop0, rxWalk>>
  BY DEF RxBurst, WorthIt, Here, rxReport
<1>2. /\ rx_axis_start /\ rx_addr' = rx_addr
      /\ Extra <= Extra' /\ Extra \in {0, 1} /\ Extra' \in {0, 1}
  BY RxStreamed
<1>3. ~rx_m_axi_stop0 BY <1>1 DEF RxInv, RxIdle
<1>4. /\ rx_buf' \in Seq(Bytes) /\ Len(rx_buf') \in Nat /\ Len(rx_buf') < Fifo
      /\ Len(rx_buf') >= Len(rx_buf) /\ Here' = Here
      /\ rx_burst_tail' \in Bytes /\ rx_pkt_addr' \in Nat
      /\ rx_word_left' \in Nat /\ rx_word_left' < Range14
      /\ rx_wfirst' \in {"part", "all", "none"}
      /\ rx_word_left' = rx_word_left
  BY <1>1, RxStays
<1>5. rx_word_left \in Nat /\ rx_word_left >= 1 /\ Len(rx_buf) \in Nat
  BY <1>2, <1>3, RxBuffer DEF RxInv, RxType, RxWalk
<1>6. len \in Nat /\ len + 1 <= Len(rx_buf) + Extra /\ len + 1 <= rx_word_left + Extra
  <2>1. CASE rx_burst_1p
    BY <1>5, <2>1 DEF rx_burst_awlen, rx_burst_data_len, Extra
  <2>2. CASE ~rx_burst_1p
    BY <1>1, <1>5, <2>2 DEF rx_burst_awlen, rx_burst_data_len, Extra
  <2> QED BY <2>1, <2>2
<1>7. Here \in Nat /\ OnWord(Here)
  BY AlignedDown DEF Here, RxInv, RxType
<1> HIDE DEF len
<1>8. /\ len4k(Here, len) \in 0 .. len
      /\ (Here % Page) + Span(len4k(Here, len) + 1) <= Page
  BY <1>6, <1>7, BurstsFit
<1>9. m_axi_awlen' \in Nat /\ Beats' = len4k(Here, len) + 1
  BY <1>1, <1>6, <1>8 DEF Beats
<1>10. RxType' /\ RxIdle'
  <2>1. rx_m_axi_stop0 \in BOOLEAN /\ rx_m_axi_stop \in BOOLEAN
    BY DEF RxInv, RxType
  <2> QED BY <1>1, <1>3, <1>4, <1>7, <1>9, <2>1, RxKeeps
<1>11. RxPlaces' BY <1>1, RxPlacesStay
<1>12. RxWalk'
  <2>1. rx_axis_start' /\ ~rx_m_axi_stop0' =>
           /\ rx_word_left' >= 1
           /\ Here' + Span(rx_word_left)' = Aligned(rx_addr + rx_size - 1)' + Word
           /\ \/ rx_wfirst' = "part" /\ rx_pkt_addr' = rx_addr'
              \/ /\ rx_wfirst' = "all" /\ Here' = rx_pkt_addr'
                 /\ rx_pkt_addr' >= Aligned(rx_addr)' + Word
    BY <1>1, RxWalkStays
  <2>2. Beats' >= 1 /\ Beats' <= Len(rx_buf') + Extra'
        /\ Beats' <= rx_word_left' + Extra'
    BY <1>2, <1>4, <1>5, <1>6, <1>8, <1>9
  <2>3. (w_adr' % Page) + Span(Beats)' <= Page
    BY <1>1, <1>8, <1>9 DEF Span
  <2> QED BY <1>1, <1>3, <1>4, <2>1, <2>2, <2>3 DEF RxWalk
<1>13. RxDone' BY <1>1, <1>3 DEF RxDone
<1> QED BY <1>10, <1>11, <1>12, <1>13 DEF RxInv

-----------------------------------------------------------------------------
(* A beat of the receiver.                                                 *)

LEMMA LastWord ==
  ASSUME NEW n \in Nat, n >= 1
  PROVE  IF n % Word = 0 THEN Aligned(n - 1) + Word = n
         ELSE Aligned(n - 1) + (n % Word) = n /\ n % Word \in 1 .. Word - 1
<1> DEFINE z == Aligned(n - 1)
           r == (n - 1) - z
<1>1. /\ n - 1 \in Nat /\ z \in Nat /\ OnWord(z) /\ r \in 0 .. Word - 1
      /\ n = z + (r + 1)
  <2>1. n - 1 \in Nat OBVIOUS
  <2>2. z \in Nat /\ z <= n - 1 /\ n - 1 < z + Word /\ OnWord(z)
    BY <2>1, AlignedDown
  <2> QED BY <2>1, <2>2, Widths
<1> HIDE DEF z, r
<1>2. CASE r + 1 < Word
  <2>1. r + 1 \in 0 .. Word - 1 BY <1>1, <1>2, Widths
  <2>2. (z + (r + 1)) % Word = r + 1 BY <1>1, <2>1, AlignedSum
  <2>3. n % Word = r + 1 BY <1>1, <2>2
  <2>4. r + 1 # 0 /\ r + 1 \in 1 .. Word - 1 BY <1>1, <2>1, Widths
  <2> QED BY <1>1, <2>3, <2>4 DEF z
<1>3. CASE ~(r + 1 < Word)
  <2>1. n = z + Word BY <1>1, <1>3, Widths
  <2>2. OnWord(z + Word) BY <1>1, MultipleNext
  <2>3. n % Word = 0 BY <2>1, <2>2 DEF OnWord
  <2> QED BY <2>1, <2>3 DEF z
<1> QED BY <1>2, <1>3

\* The first lane of a beat that may be written, and the lane after the last.
Low == IF rx_wfirst = "part" THEN rx_addr % Word ELSE 0
Top == IF rx_word_last /\ (rx_addr + rx_size) % Word # 0
       THEN (rx_addr + rx_size) % Word ELSE Word

\* Where a beat is, while there are words to come.
LEMMA WBeatPlace ==
  ASSUME RxInv, unit \in {1, Word}, rx_axis_start, ~rx_m_axi_stop0
  PROVE  /\ Here \in Nat /\ OnWord(Here) /\ Low \in Nat /\ Top \in Nat
         /\ rx_word_left \in Nat /\ rx_word_left >= 1
         /\ 0 <= Low /\ Low < Top /\ Top <= Word
         /\ Here + Low >= rx_addr /\ Here + Top <= rx_addr + rx_size
         /\ filled \in Nat /\ Here + Low = rx_addr + filled
         /\ rx_word_left = 1 => Here + Word >= rx_addr + rx_size
         /\ rx_word_left = 1 /\ Top # Word => Here + Top = rx_addr + rx_size
         /\ rx_word_left >= 2 => Top = Word
         /\ rx_wfirst = "part" => /\ rx_pkt_addr = rx_addr /\ Here <= rx_addr
                                  /\ Low = rx_addr % Word
                                  /\ Here + Low = rx_addr
         /\ rx_wfirst # "part" => /\ rx_wfirst = "all" /\ rx_pkt_addr = Here
                                  /\ Here >= rx_addr /\ Low = 0
                                  /\ Here >= Aligned(rx_addr) + Word
         /\ Here >= Aligned(rx_addr)
<1> DEFINE n == rx_addr + rx_size
<1>1. /\ rx_addr \in Nat /\ rx_size \in Nat /\ rx_size > Word
      /\ Word \in Nat /\ Word >= 1 /\ rx_pkt_addr \in Nat
      /\ rx_word_left \in Nat
  BY RxFacts DEF RxInv, RxType
<1>2. /\ rx_word_left >= 1
      /\ Here + Span(rx_word_left) = Aligned(n - 1) + Word
      /\ \/ rx_wfirst = "part" /\ rx_pkt_addr = rx_addr
         \/ /\ rx_wfirst = "all" /\ Here = rx_pkt_addr
            /\ rx_pkt_addr >= Aligned(rx_addr) + Word
  <2>1. RxWalk BY DEF RxInv
  <2>2. rx_word_left >= 1 BY <2>1 DEF RxWalk
  <2>3. Here + Span(rx_word_left) = Aligned(rx_addr + rx_size - 1) + Word
    BY <2>1 DEF RxWalk
  <2>4. \/ rx_wfirst = "part" /\ rx_pkt_addr = rx_addr
        \/ /\ rx_wfirst = "all" /\ Here = rx_pkt_addr
           /\ rx_pkt_addr >= Aligned(rx_addr) + Word
    BY <2>1 DEF RxWalk
  <2>5. n - 1 = rx_addr + rx_size - 1 BY <1>1
  <2> QED BY <2>2, <2>3, <2>4, <2>5
<1>3. filled = IF rx_wfirst = "part" THEN 0 ELSE Here - rx_addr
  BY DEF RxInv, RxPlaces
<1>4. Here \in Nat /\ OnWord(Here) BY <1>1, AlignedDown DEF Here
<1>5. /\ Aligned(rx_addr) \in Nat /\ rx_addr % Word = rx_addr - Aligned(rx_addr)
      /\ rx_addr % Word \in 0 .. Word - 1 /\ rx_addr < Aligned(rx_addr) + Word
      /\ Aligned(rx_addr) <= rx_addr
  BY <1>1, AlignedDown
<1>6. /\ n \in Nat /\ n >= 1 /\ n - 1 \in Nat /\ n - 1 >= rx_addr + Word
  BY <1>1
<1>7. IF n % Word = 0 THEN Aligned(n - 1) + Word = n
      ELSE Aligned(n - 1) + (n % Word) = n /\ n % Word \in 1 .. Word - 1
  BY <1>6, LastWord
<1>8. Aligned(n - 1) \in Nat /\ Aligned(n - 1) <= n - 1
      /\ n - 1 < Aligned(n - 1) + Word
  BY <1>6, AlignedDown
<1>9. Aligned(n - 1) >= Aligned(rx_addr) + Word
  <2>1. rx_addr = Aligned(rx_addr) + (rx_addr % Word) /\ OnWord(Aligned(rx_addr))
    BY <1>1, <1>5, AlignedDown
  <2>2. OnWord(Aligned(rx_addr) + Word) BY <1>5, <2>1, MultipleNext
  <2>3. Aligned(rx_addr) + Word \in Nat /\ Aligned(rx_addr) + Word <= n - 1
    BY ONLY <1>1, <1>5, <1>6
  <2>4. Aligned(Aligned(rx_addr) + Word) = Aligned(rx_addr) + Word
    BY <2>2, <2>3, AlignedItself
  <2> QED BY <1>6, <2>3, <2>4, AlignedMono
<1> HIDE DEF n
<1>10. CASE rx_wfirst = "part"
  <2>1. Here = Aligned(rx_addr) /\ rx_pkt_addr = rx_addr
    BY <1>2, <1>10 DEF Here
  <2>2. Low = rx_addr % Word /\ filled = 0 BY <1>3, <1>10 DEF Low
  <2>3. Here + Low = rx_addr /\ Here <= rx_addr /\ Low \in Nat /\ Low < Word
        /\ Low >= 0 /\ filled \in Nat /\ Here + Low = rx_addr + filled
    BY <1>1, <1>5, <2>1, <2>2
  <2>4. rx_word_left # 1
    <3> SUFFICES ASSUME rx_word_left = 1 PROVE FALSE OBVIOUS
    <3>1. Span(rx_word_left) = Word BY NextWord
    <3>2. Here = Aligned(n - 1) BY <1>1, <1>2, <1>4, <1>8, <3>1
    <3> QED BY <1>1, <1>5, <1>9, <2>1, <3>2
  <2>5. rx_word_left >= 2 BY <1>1, <1>2, <2>4
  <2>6. Top = Word BY <1>1, <2>5 DEF Top, rx_word_last
  <2>7. Here + Top <= n
    <3>1. Span(rx_word_left) \in Nat /\ Span(rx_word_left) >= Word + Word
      BY <1>1, <2>5, Multiples
    <3> QED BY <1>1, <1>2, <1>4, <1>6, <1>8, <2>6, <3>1
  <2>8. Here >= rx_addr - Low BY <1>1, <1>4, <2>3
  <2> QED BY <1>1, <1>2, <1>4, <1>10, <2>1, <2>2, <2>3, <2>4, <2>5, <2>6, <2>7 DEF n
<1>11. CASE rx_wfirst # "part"
  <2>1. /\ rx_wfirst = "all" /\ Here = rx_pkt_addr
        /\ Here >= Aligned(rx_addr) + Word
    BY <1>2, <1>11
  <2>2. Low = 0 /\ filled = Here - rx_addr BY <1>3, <1>11 DEF Low
  <2>3. /\ Here >= rx_addr /\ Here + Low >= rx_addr /\ filled \in Nat
        /\ Here + Low = rx_addr + filled /\ Here >= Aligned(rx_addr)
    BY <1>1, <1>4, <1>5, <2>1, <2>2
  <2>4. CASE rx_word_left = 1
    <3>1. Span(rx_word_left) = Word BY <2>4, NextWord
    <3>2. Here = Aligned(n - 1) BY <1>1, <1>2, <1>4, <1>8, <3>1
    <3>3. CASE n % Word = 0
      <4>1. Top = Word BY <3>3 DEF Top, n
      <4>2. Here + Word = n BY <1>7, <3>2, <3>3
      <4> QED BY <1>1, <1>2, <1>4, <1>6, <2>1, <2>2, <2>3, <2>4, <4>1, <4>2, <1>11 DEF n
    <3>4. CASE n % Word # 0
      <4>1. Top = n % Word BY <2>4, <3>4 DEF Top, n, rx_word_last
      <4>2. Here + Top = n /\ Top \in 1 .. Word - 1 BY <1>7, <3>2, <3>4, <4>1
      <4>3. Top \in Nat /\ 0 < Top /\ Top <= Word /\ Here + Word >= n
        BY <1>1, <1>4, <1>6, <4>2
      <4> QED BY <1>1, <1>2, <1>4, <1>6, <2>1, <2>2, <2>3, <2>4, <4>2, <4>3, <1>11 DEF n
    <3> QED BY <3>3, <3>4
  <2>5. CASE rx_word_left # 1
    <3>1. rx_word_left >= 2 BY <1>1, <1>2, <2>5
    <3>2. Top = Word BY <1>1, <3>1 DEF Top, rx_word_last
    <3>3. Here + Top <= n
      <4>1. Span(rx_word_left) \in Nat /\ Span(rx_word_left) >= Word + Word
        BY <1>1, <3>1, Multiples
      <4> QED BY <1>1, <1>2, <1>4, <1>6, <1>8, <3>2, <4>1
    <3> QED BY <1>1, <1>2, <1>4, <2>1, <2>2, <2>3, <3>1, <3>2, <3>3, <1>11 DEF n
  <2> QED BY <2>4, <2>5
<1> QED BY <1>10, <1>11

\* The lanes written are those from Low to Top.
LEMMA StrobeIs ==
  ASSUME RxInv, unit \in {1, Word}, rx_axis_start, ~rx_m_axi_stop0
  PROVE  wstrb = Low .. Top - 1
<1>1. /\ Low \in Nat /\ Top \in Nat /\ Low < Top /\ Top <= Word
      /\ rx_wfirst = "part" => Low = rx_addr % Word
      /\ rx_wfirst # "part" => rx_wfirst = "all" /\ Low = 0
  BY WBeatPlace
<1>2. rx_wfirst # "none" BY <1>1
<1>3. Word \in Nat BY Widths
<1>4. ASSUME NEW i \in Lanes
      PROVE  /\ (rx_wfirst = "part" => i >= rx_addr % Word) <=> i >= Low
             /\ (rx_word_last => (rx_addr + rx_size) % Word = 0
                                   \/ i < (rx_addr + rx_size) % Word) <=> i < Top
  <2>1. i \in Int /\ i >= 0 /\ i < Word BY <1>3 DEF Lanes
  <2>2. (rx_wfirst = "part" => i >= rx_addr % Word) <=> i >= Low
    <3>1. CASE rx_wfirst = "part" BY <1>1, <3>1
    <3>2. CASE rx_wfirst # "part" BY <1>1, <2>1, <3>2
    <3> QED BY <3>1, <3>2
  <2>3. (rx_word_last => (rx_addr + rx_size) % Word = 0
                           \/ i < (rx_addr + rx_size) % Word) <=> i < Top
    <3>1. CASE rx_word_last /\ (rx_addr + rx_size) % Word # 0
      <4>1. Top = (rx_addr + rx_size) % Word BY <3>1 DEF Top
      <4> QED BY <3>1, <4>1
    <3>2. CASE ~(rx_word_last /\ (rx_addr + rx_size) % Word # 0)
      <4>1. Top = Word BY <3>2 DEF Top
      <4>2. i < Top BY <2>1, <4>1
      <4> QED BY <3>2, <4>2
    <3> QED BY <3>1, <3>2
  <2> QED BY <2>2, <2>3
<1>5. \A i \in Lanes : i \in wstrb <=> i >= Low /\ i < Top
  <2> TAKE i \in Lanes
  <2>1. i \in wstrb <=>
          /\ rx_wfirst # "none"
          /\ rx_wfirst = "part" => i >= rx_addr % Word
          /\ rx_word_last => (rx_addr + rx_size) % Word = 0
                               \/ i < (rx_addr + rx_size) % Word
    BY DEF wstrb
  <2> QED BY <1>2, <1>4, <2>1
<1>6. \A i : i \in wstrb => i \in Lanes BY DEF wstrb
<1>7. \A i : i \in Low .. Top - 1 <=> i \in Lanes /\ i >= Low /\ i < Top
  BY <1>1, <1>3 DEF Lanes
<1>8. \A i : i \in wstrb <=> i \in Low .. Top - 1
  BY <1>5, <1>6, <1>7
<1> QED BY <1>8

\* A beat without a word in the FIFO is the one the last word was moved into.
LEMMA EmptyBeat ==
  ASSUME RxInv, unit \in {1, Word}, rx_axis_start, m_axi_wvalid
  PROVE  /\ Beats \in Int /\ Beats >= 1 /\ Extra \in {0, 1}
         /\ Len(rx_buf) \in Nat
         /\ Beats <= Len(rx_buf) + Extra /\ Beats <= rx_word_left + Extra
         /\ rx_buf = <<>> => rx_burst_1p
         /\ rx_m_axi_stop0 => Beats = 1
         /\ rx_m_axi_last => Beats = 1
         /\ rx_m_axi_last <=> rx_axis_stop /\ Len(rx_buf) + Extra = 1
<1>1. /\ Beats >= 1 /\ Beats <= Len(rx_buf) + Extra
      /\ Beats <= rx_word_left + Extra
      /\ rx_m_axi_stop0 => rx_word_left = 0
  BY DEF RxInv, RxWalk
<1>2. Beats \in Int /\ Len(rx_buf) \in Nat
  BY RxBuffer DEF Beats, RxInv, RxType
<1>3. Extra \in {0, 1} /\ (Extra = 1 <=> rx_burst_1p) BY DEF Extra
<1>4. rx_buf = <<>> => rx_burst_1p
  <2> SUFFICES ASSUME rx_buf = <<>> PROVE rx_burst_1p OBVIOUS
  <2>1. Len(rx_buf) = 0 BY RxBuffer
  <2>2. Extra # 0 BY <1>1, <1>2, <2>1
  <2> QED BY <1>3, <2>2
<1>5. rx_m_axi_stop0 => Beats = 1
  <2> SUFFICES ASSUME rx_m_axi_stop0 PROVE Beats = 1 OBVIOUS
  <2>1. Beats <= Extra /\ Extra <= 1 BY <1>1, <1>2, <1>3
  <2> QED BY <1>1, <1>2, <1>3, <2>1
<1>6. rx_m_axi_last <=> rx_axis_stop /\ Len(rx_buf) + Extra = 1
  <2>1. CASE rx_burst_1p
    <3>1. Extra = 1 BY <1>3, <2>1
    <3>2. Len(rx_buf) + Extra = 1 <=> Len(rx_buf) = 0 BY <1>2, <3>1
    <3> QED BY <2>1, <3>2 DEF rx_m_axi_last
  <2>2. CASE ~rx_burst_1p
    <3>1. Extra = 0 BY <1>3, <2>2
    <3>2. Len(rx_buf) + Extra = 1 <=> Len(rx_buf) = 1 BY <1>2, <3>1
    <3> QED BY <2>2, <3>2 DEF rx_m_axi_last
  <2> QED BY <2>1, <2>2
<1>7. rx_m_axi_last => Beats = 1
  <2> SUFFICES ASSUME rx_m_axi_last PROVE Beats = 1 OBVIOUS
  <2>1. Beats <= 1 BY <1>1, <1>6
  <2> QED BY <1>1, <1>2, <2>1
<1> QED BY <1>1, <1>2, <1>3, <1>4, <1>5, <1>6, <1>7

\* What the last words are, when the whole frame is in the FIFO.
LEMMA LastBytes ==
  ASSUME RxInv, unit \in {1, Word}, rx_axis_start, ~rx_m_axi_stop0, rx_axis_stop
  PROVE  /\ came = frame /\ rx_axis_keep >= 1 /\ rx_axis_keep <= unit
         /\ frame = Place(Here, Len(rx_buf), rx_axis_byte_offs) + rx_axis_keep
         /\ rx_shift + rx_axis_byte_offs + rx_axis_keep \in Nat
         /\ rx_shift # 0 => rx_axis_byte_offs = 0
         /\ rx_burst_1p => /\ rx_shift # 0 /\ rx_axis_byte_offs = 0
                           /\ rx_axis_keep <= Word
                           /\ rx_axis_keep + rx_shift > Word
         /\ ~rx_burst_1p => rx_shift + rx_axis_byte_offs + rx_axis_keep <= Word
<1>1. RxFrame(rx_buf, Here, came, rx_axis_stop, rx_part, rx_axis_byte_offs,
              rx_axis_keep)
  BY DEF RxInv, RxPlaces
<1>2. /\ came = frame /\ rx_axis_keep >= 1 /\ rx_axis_keep <= unit
      /\ frame = Place(Here, Len(rx_buf), rx_axis_byte_offs) + rx_axis_keep
      /\ rx_axis_byte_offs <= Word - unit
      /\ unit = Word => rx_axis_byte_offs = 0
  BY <1>1 DEF RxFrame
<1>3. /\ rx_axis_byte_offs \in Nat /\ rx_axis_keep \in Nat
      /\ Word \in Nat /\ Word >= 1 /\ unit \in Nat /\ unit >= 1 /\ unit <= Word
      /\ rx_shift \in Nat /\ rx_shift < Word /\ (rx_shift # 0 => unit = Word)
  BY RxFacts
<1>4. rx_shift # 0 => rx_axis_byte_offs = 0 BY <1>2, <1>3
<1>5. CASE rx_burst_1p
  <2>1. rx_shift # 0 /\ rx_axis_keep + rx_shift > Word
    BY <1>5 DEF rx_burst_1p, rx_axis_keep_cnt
  <2> QED BY <1>2, <1>3, <1>4, <1>5, <2>1
<1>6. CASE ~rx_burst_1p
  <2>1. rx_shift = 0 \/ ~(rx_axis_keep + rx_shift > Word)
    BY <1>6 DEF rx_burst_1p, rx_axis_keep_cnt
  <2>2. rx_shift + rx_axis_byte_offs + rx_axis_keep <= Word
    <3>1. CASE rx_shift = 0 BY <1>2, <1>3, <3>1
    <3>2. CASE rx_shift # 0
      <4>1. rx_axis_byte_offs = 0 /\ ~(rx_axis_keep + rx_shift > Word)
        BY <1>4, <2>1, <3>2
      <4> QED BY <1>3, <4>1
    <3> QED BY <3>1, <3>2
  <2> QED BY <1>2, <1>3, <1>4, <1>6, <2>2
<1> QED BY <1>5, <1>6

\* Each lane written has the byte of its place.
LEMMA WBeatBytes ==
  ASSUME RxInv, unit \in {1, Word}, rx_axis_start, ~rx_m_axi_stop0, m_axi_wvalid,
         NEW i \in Low .. Top - 1, (Here - rx_addr) + i < came
  PROVE  wdata[i] = (Here - rx_addr) + i
<1>1. /\ Here \in Nat /\ Low \in Nat /\ Top \in Nat /\ Top <= Word /\ 0 <= Low
      /\ Here + Low >= rx_addr
      /\ rx_wfirst = "part" => Low = rx_addr % Word
      /\ rx_wfirst # "part" => rx_wfirst = "all"
  BY WBeatPlace
<1>2. /\ rx_addr \in Nat /\ Word \in Nat /\ Word >= 1 /\ came \in Nat
      /\ frame \in Nat
      /\ rx_shift \in Nat /\ rx_shift < Word
      /\ Len(rx_buf) \in Nat
      /\ rx_axis_byte_offs \in Nat /\ rx_axis_keep \in Nat
  BY RxFacts, RxBuffer
<1>3. i \in Lanes /\ i \in Int /\ i >= Low /\ i < Word BY <1>1, <1>2 DEF Lanes
<1>4. wdata[i] = IF i < rx_shift THEN rx_burst_tail[i] ELSE FirstOut[i - rx_shift]
  BY <1>3 DEF wdata
<1>5. CASE i < rx_shift
  <2>1. rx_wfirst = "all"
    <3> SUFFICES ASSUME rx_wfirst = "part" PROVE FALSE BY <1>1
    <3>1. rx_shift = 0 \/ rx_shift = Low BY <1>1 DEF rx_shift
    <3> QED BY <1>1, <1>2, <1>3, <1>5, <3>1
  <2>2. \A k \in Lanes : k < rx_shift /\ (Here - rx_addr) + k < came =>
          rx_burst_tail[k] = (Here - rx_addr) + k
    BY <2>1 DEF RxInv, RxPlaces
  <2> QED BY <1>3, <1>4, <1>5, <2>2
<1>6. CASE ~(i < rx_shift)
  <2>1. i - rx_shift \in Lanes /\ i - rx_shift \in Int
    BY <1>2, <1>3, <1>6 DEF Lanes
  <2>2. CASE rx_buf = <<>>
    <3>1. rx_burst_1p BY <2>2, EmptyBeat
    <3>2. rx_axis_stop BY <3>1 DEF rx_burst_1p
    <3>3. /\ came = frame /\ rx_axis_byte_offs = 0 /\ rx_axis_keep <= Word
          /\ frame = Place(Here, Len(rx_buf), rx_axis_byte_offs) + rx_axis_keep
      BY <3>1, <3>2, LastBytes
    <3>4. Len(rx_buf) = 0 BY <2>2, RxBuffer
    <3>5. Place(Here, 0, 0) = (Here - rx_addr) + rx_shift + 0 - Word
      BY <1>1, <1>2, PlaceOf
    <3>6. frame = (Here - rx_addr) + rx_shift + 0 - Word + rx_axis_keep
      BY <3>3, <3>4, <3>5
    <3>7. frame <= (Here - rx_addr) + i
      BY <1>1, <1>2, <1>3, <1>6, <3>3, <3>6
    <3> QED BY <1>1, <1>2, <1>3, <3>3, <3>7
  <2>3. CASE rx_buf # <<>>
    <3>1. 1 \in 1 .. Len(rx_buf) BY <1>2, <2>3, RxBuffer
    <3>2. Place(Here, 1, i - rx_shift) = (Here - rx_addr) + i
      <4>1. Place(Here, 1, i - rx_shift) = (Here - rx_addr) + rx_shift + (i - rx_shift)
        BY <1>1, <1>2, <2>1, PlaceOf
      <4> QED BY <1>1, <1>2, <1>3, <4>1
    <3>3. (Here - rx_addr) + i >= 0 BY <1>1, <1>2, <1>3
    <3>4. \A j \in 1 .. Len(rx_buf), k \in Lanes :
            Place(Here, j, k) >= 0 /\ Place(Here, j, k) < came =>
              rx_buf[j][k] = Place(Here, j, k)
      BY DEF RxInv, RxPlaces, RxFrame
    <3>5. rx_buf[1][i - rx_shift] = (Here - rx_addr) + i
      BY <2>1, <3>1, <3>2, <3>3, <3>4
    <3>6. FirstOut = rx_buf[1]
      <4>1. rx_buf \in Seq(Bytes) BY RxBuffer
      <4> QED BY <2>3, <4>1, HeadTailProperties DEF FirstOut
    <3> QED BY <1>4, <1>6, <3>5, <3>6
  <2> QED BY <2>2, <2>3
<1> QED BY <1>5, <1>6

\* With this beat, memory is filled up to the last lane written.
LEMMA WBeatFills ==
  ASSUME RxInv, unit \in {1, Word}, rx_axis_start, ~rx_m_axi_stop0, m_axi_wvalid
  PROVE  FilledNow = (Here - rx_addr) + Top
<1>1. /\ Here \in Nat /\ Low \in Nat /\ Top \in Nat /\ Low < Top
      /\ filled \in Nat /\ Here + Low = rx_addr + filled
  BY WBeatPlace
<1>2. rx_addr \in Nat BY RxFacts
<1>3. w_adr = Here BY DEF RxInv, RxWalk
<1>4. wstrb = Low .. Top - 1 BY StrobeIs
<1>5. wstrb # {} /\ Low \in wstrb
  <2>1. Low <= Top - 1 /\ Low \in Low .. Top - 1 BY <1>1
  <2>2. Low \in wstrb BY <1>4, <2>1
  <2> QED BY <2>2
<1>6. (CHOOSE i \in wstrb : \A j \in wstrb : i <= j) = Low
  <2> DEFINE m == CHOOSE i \in wstrb : \A j \in wstrb : i <= j
  <2>1. \A j \in wstrb : Low <= j BY <1>1, <1>4
  <2>2. m \in wstrb /\ \A j \in wstrb : m <= j BY <1>5, <2>1, Zenon
  <2> HIDE DEF m
  <2>3. m = Low
    <3>1. m \in Int /\ Low <= m /\ m <= Low BY <1>1, <1>4, <1>5, <2>2
    <3> QED BY <1>1, <3>1
  <2> QED BY <2>3 DEF m
<1>7. \A i \in wstrb : w_adr + i < rx_addr + came => wdata[i] = w_adr + i - rx_addr
  <2> TAKE i \in wstrb
  <2> HAVE w_adr + i < rx_addr + came
  <2>1. i \in Low .. Top - 1 /\ i \in Int /\ came \in Nat
    BY <1>1, <1>4, RxFacts
  <2>2. (Here - rx_addr) + i < came BY <1>1, <1>2, <1>3, <2>1
  <2>3. wdata[i] = (Here - rx_addr) + i BY <2>1, <2>2, WBeatBytes
  <2> QED BY <1>1, <1>2, <1>3, <2>1, <2>3
<1>8. Cardinality(wstrb) = Top - Low
  <2>1. Low <= Top - 1 /\ (Top - 1) - Low + 1 = Top - Low BY <1>1
  <2>2. Cardinality(Low .. Top - 1) = (Top - 1) - Low + 1
    BY <1>1, <2>1, FS_Interval
  <2> QED BY <1>4, <2>1, <2>2
<1>9. w_adr + (CHOOSE i \in wstrb : \A j \in wstrb : i <= j) = rx_addr + filled
  BY <1>1, <1>3, <1>6
<1>10. FilledNow = filled + Cardinality(wstrb)
  BY <1>5, <1>7, <1>9 DEF FilledNow
<1> QED BY <1>1, <1>2, <1>8, <1>10

\* What a beat leaves in the FIFO, and what it takes along.
LEMMA WBeatBuffer ==
  ASSUME NEW take \in BOOLEAN, RxInv, unit \in {1, Word}, RxOn(take), WBeat(take)
  PROVE  /\ rx_buf' \in Seq(Bytes) /\ Len(rx_buf') \in Nat /\ Len(rx_buf') < Fifo
         /\ rx_buf = <<>> => rx_buf' = Added(take)
         /\ rx_buf # <<>> => /\ rx_buf' = Tail(rx_buf) \o Added(take)
                             /\ Len(rx_buf') + 1 = Len(rx_buf) + Len(Added(take))
                             /\ rx_burst_tail' =
                                  [i \in Lanes |->
                                     IF i < rx_shift
                                     THEN Head(rx_buf)[i + Word - rx_shift]
                                     ELSE Junk]
         /\ rx_burst_tail' \in Bytes
<1>1. rx_axis_start /\ RxStream(take) BY RxStreamed
<1>2. /\ rx_buf # <<>> =>
           /\ rx_buf' = Tail(rx_buf) \o Added(take)
           /\ rx_burst_tail' = [i \in Lanes |->
                IF i < rx_shift THEN Head(rx_buf)[i + Word - rx_shift] ELSE Junk]
      /\ rx_buf = <<>> => rx_buf' = Added(take) /\ rx_burst_tail' = rx_burst_tail
  BY DEF WBeat
<1>3. /\ Added(take) \in Seq(Bytes) /\ Len(Added(take)) \in 0 .. 1
  BY <1>1, RxAdded
<1>4. CASE rx_buf = <<>>
  <2>1. Len(rx_buf') < Fifo /\ Len(rx_buf') \in Nat BY <1>2, <1>3, <1>4, Widths
  <2>2. rx_burst_tail \in Bytes BY DEF RxInv, RxType
  <2> QED BY <1>2, <1>3, <1>4, <2>1, <2>2
<1>5. CASE rx_buf # <<>>
  <2>1. /\ rx_buf' \in Seq(Bytes)
        /\ Len(rx_buf') = Len(rx_buf \o Added(take)) - 1
        /\ Head(rx_buf) \in Bytes
    BY <1>1, <1>2, <1>5, RxPopped
  <2>2. /\ Len(rx_buf \o Added(take)) = Len(rx_buf) + Len(Added(take))
        /\ Len(rx_buf \o Added(take)) < Fifo
    BY <1>1, RxJoined
  <2>3. Len(rx_buf') \in Nat BY <2>1, LenProperties
  <2>4. /\ Len(rx_buf') < Fifo
        /\ Len(rx_buf') + 1 = Len(rx_buf) + Len(Added(take))
    BY <1>3, <2>1, <2>2, <2>3, RxBuffer, Widths
  <2>5. rx_burst_tail' \in Bytes
    <3>1. /\ Word \in Nat /\ Word >= 1 /\ rx_shift \in Nat /\ rx_shift < Word
      BY <1>1, RxFacts
    <3>2. ASSUME NEW i \in Lanes
          PROVE  (IF i < rx_shift THEN Head(rx_buf)[i + Word - rx_shift]
                  ELSE Junk) \in Int
      <4>1. CASE i < rx_shift
        <5>1. i + Word - rx_shift \in Lanes BY <3>1, <4>1 DEF Lanes
        <5>2. Head(rx_buf)[i + Word - rx_shift] \in Int BY <2>1, <5>1 DEF Bytes
        <5> QED BY <4>1, <5>2
      <4>2. CASE ~(i < rx_shift) BY <4>2 DEF Junk
      <4> QED BY <4>1, <4>2
    <3> QED BY <1>2, <1>5, <3>2 DEF Bytes
  <2> QED BY <1>2, <1>5, <2>1, <2>3, <2>4, <2>5
<1> QED BY <1>4, <1>5

\* The registers a beat sets.
LEMMA WBeatSets ==
  ASSUME NEW take \in BOOLEAN, RxInv, unit \in {1, Word}, RxOn(take), WBeat(take)
  PROVE  /\ m_axi_wr_cyc /\ m_axi_wvalid /\ ~rx_m_axi_stop
         /\ m_axi_wr_cyc' = m_axi_wr_cyc /\ rx_m_axi_stop' = rx_m_axi_stop
         /\ m_axi_wvalid' \in BOOLEAN
         /\ m_axi_wvalid' => Beats' = Beats - 1 /\ Beats >= 2
         /\ ~m_axi_wvalid' <=> Beats = 1
         /\ m_axi_wcnt' \in Nat /\ m_axi_awlen' \in Nat
         /\ w_adr' = w_adr + Word /\ filled' = FilledNow
         /\ rx_m_axi_stop0' = (rx_m_axi_stop0 \/ rx_m_axi_last \/ rx_word_last)
         /\ rx_wfirst' = IF rx_m_axi_last \/ rx_word_last THEN "none" ELSE "all"
         /\ rx_word_left \in Nat
         /\ rx_word_left' \in Nat /\ rx_word_left' < Range14
         /\ rx_word_left >= 1 => rx_word_left' = rx_word_left - 1
         /\ rx_m_axi_last =>
              rx_pkt_addr' = rx_pkt_addr + rx_axis_byte_offs + rx_axis_keep_cnt
                               - (IF rx_burst_1p THEN Word ELSE 0)
         /\ ~rx_m_axi_last => rx_pkt_addr' = Here + Word
<1>1. /\ m_axi_wr_cyc /\ m_axi_wvalid
      /\ m_axi_wr_cyc' = m_axi_wr_cyc /\ rx_m_axi_stop' = rx_m_axi_stop
      /\ m_axi_awlen' = m_axi_awlen
      /\ m_axi_wcnt = m_axi_awlen => ~m_axi_wvalid' /\ m_axi_wcnt' = m_axi_wcnt
      /\ m_axi_wcnt # m_axi_awlen =>
           m_axi_wcnt' = m_axi_wcnt + 1 /\ m_axi_wvalid' = m_axi_wvalid
      /\ w_adr' = w_adr + Word /\ filled' = FilledNow
      /\ rx_word_left' = (rx_word_left - 1) % Range14
      /\ rx_m_axi_stop0' = (rx_m_axi_stop0 \/ rx_m_axi_last \/ rx_word_last)
      /\ rx_wfirst' = IF rx_m_axi_last \/ rx_word_last THEN "none" ELSE "all"
  BY DEF WBeat
<1>2. /\ m_axi_wcnt \in Nat /\ m_axi_awlen \in Nat
      /\ rx_word_left \in Nat /\ rx_word_left < Range14
      /\ m_axi_wvalid \in BOOLEAN
      /\ rx_m_axi_stop <=> rx_m_axi_stop0 /\ ~m_axi_wr_cyc
  BY DEF RxInv, RxType, RxIdle
<1>3. Beats >= 1 BY <1>1 DEF RxInv, RxWalk
<1>4. /\ m_axi_wvalid' \in BOOLEAN /\ m_axi_wcnt' \in Nat
      /\ m_axi_wvalid' => Beats' = Beats - 1 /\ Beats >= 2
      /\ ~m_axi_wvalid' <=> Beats = 1
  <2>1. CASE m_axi_wcnt = m_axi_awlen
    <3>1. Beats = 1 BY <1>2, <2>1 DEF Beats
    <3>2. m_axi_wvalid' = FALSE BY <2>1 DEF WBeat
    <3> QED BY <1>1, <1>2, <2>1, <3>1, <3>2
  <2>2. CASE m_axi_wcnt # m_axi_awlen
    <3>1. Beats # 1 /\ Beats \in Int BY <1>2, <2>2 DEF Beats
    <3>2. Beats >= 2 BY <1>3, <3>1
    <3>3. Beats' = Beats - 1 BY <1>1, <1>2, <2>2 DEF Beats
    <3>4. m_axi_wvalid' /\ m_axi_wvalid' \in BOOLEAN /\ m_axi_wcnt' \in Nat
      BY <1>1, <1>2, <2>2
    <3> QED BY <3>1, <3>2, <3>3, <3>4
  <2> QED BY <2>1, <2>2
<1>5. /\ rx_word_left' \in Nat /\ rx_word_left' < Range14
      /\ rx_word_left >= 1 => rx_word_left' = rx_word_left - 1
  BY <1>1, <1>2 DEF Range14
<1>6. ~rx_m_axi_stop BY <1>1, <1>2
<1>7. /\ rx_m_axi_last =>
           rx_pkt_addr' = rx_pkt_addr + rx_axis_byte_offs + rx_axis_keep_cnt
                            - (IF rx_burst_1p THEN Word ELSE 0)
      /\ ~rx_m_axi_last => rx_pkt_addr' = Here + Word
  BY DEF WBeat, Here
<1>8. m_axi_awlen' \in Nat BY <1>1, <1>2
<1> QED BY <1>1, <1>2, <1>4, <1>5, <1>6, <1>7, <1>8

\* The types after a beat.
LEMMA WBeatKeeps ==
  ASSUME NEW take \in BOOLEAN, RxInv, unit \in {1, Word}, RxOn(take), WBeat(take)
  PROVE  RxType' /\ RxIdle'
<1>1. rx_axis_start BY RxStreamed
<1>2. /\ rx_buf' \in Seq(Bytes) /\ Len(rx_buf') < Fifo /\ rx_burst_tail' \in Bytes
  BY WBeatBuffer
<1>3. /\ m_axi_wr_cyc /\ ~rx_m_axi_stop
      /\ m_axi_wr_cyc' = m_axi_wr_cyc /\ rx_m_axi_stop' = rx_m_axi_stop
      /\ m_axi_wvalid' \in BOOLEAN
      /\ m_axi_wcnt' \in Nat /\ m_axi_awlen' \in Nat
      /\ w_adr' = w_adr + Word
      /\ rx_m_axi_stop0' = (rx_m_axi_stop0 \/ rx_m_axi_last \/ rx_word_last)
      /\ rx_wfirst' = IF rx_m_axi_last \/ rx_word_last THEN "none" ELSE "all"
      /\ rx_word_left' \in Nat /\ rx_word_left' < Range14
  BY WBeatSets
<1>4. /\ Word \in Nat /\ Word >= 1 /\ rx_shift \in Nat
      /\ rx_axis_byte_offs \in Nat /\ rx_axis_keep \in Nat
      /\ w_adr \in Nat /\ rx_pkt_addr \in Nat
      /\ m_axi_wr_cyc \in BOOLEAN /\ rx_m_axi_stop \in BOOLEAN
  BY <1>1, RxFacts DEF RxInv, RxType
<1>5. rx_pkt_addr' \in Nat
  <2>1. CASE rx_m_axi_last
    <3>1. rx_pkt_addr' = rx_pkt_addr + rx_axis_byte_offs + rx_axis_keep_cnt
                            - (IF rx_burst_1p THEN Word ELSE 0)
      BY <2>1, WBeatSets
    <3>2. CASE rx_burst_1p
      <4>1. rx_axis_keep_cnt > Word BY <3>2 DEF rx_burst_1p
      <4> QED BY <1>4, <3>1, <3>2, <4>1 DEF rx_axis_keep_cnt
    <3>3. CASE ~rx_burst_1p BY <1>4, <3>1, <3>3 DEF rx_axis_keep_cnt
    <3> QED BY <3>2, <3>3
  <2>2. CASE ~rx_m_axi_last
    <3>1. rx_pkt_addr' = Here + Word BY <2>2, WBeatSets
    <3>2. Here \in Nat BY <1>4, AlignedDown DEF Here
    <3> QED BY <1>4, <3>1, <3>2
  <2> QED BY <2>1, <2>2
<1>6. rx_m_axi_stop0' \in BOOLEAN
  BY <1>3 DEF rx_m_axi_last, rx_word_last
<1>7. rx_wfirst' \in {"part", "all", "none"} BY <1>3
<1>8. /\ m_axi_wvalid' => m_axi_wr_cyc'
      /\ m_axi_wr_cyc' \in BOOLEAN /\ rx_m_axi_stop' \in BOOLEAN
      /\ w_adr' \in Nat
      /\ rx_m_axi_stop => rx_m_axi_stop'
  BY <1>3, <1>4
<1>9. rx_m_axi_stop' <=> rx_m_axi_stop0' /\ ~m_axi_wr_cyc'
  <2>1. ~rx_m_axi_stop' /\ m_axi_wr_cyc' BY <1>3
  <2> QED BY <2>1
<1> QED BY <1>2, <1>3, <1>5, <1>6, <1>7, <1>8, <1>9, RxKeeps

\* While there are words to come, a beat goes on by a word.
LEMMA WBeatGoesOn ==
  ASSUME NEW take \in BOOLEAN, RxInv, unit \in {1, Word}, RxOn(take), WBeat(take),
         ~rx_m_axi_stop0'
  PROVE  /\ ~rx_m_axi_stop0 /\ ~rx_m_axi_last /\ ~rx_word_last
         /\ rx_buf # <<>>
         /\ rx_word_left \in Nat /\ rx_word_left >= 2
         /\ rx_word_left' = rx_word_left - 1
         /\ rx_wfirst' = "all"
         /\ Here \in Nat /\ Here' = Here + Word /\ rx_pkt_addr' = Here'
         /\ Aligned(rx_addr)' = Aligned(rx_addr) /\ Aligned(rx_addr) \in Nat
         /\ Here >= Aligned(rx_addr) /\ w_adr = Here
<1>1. /\ rx_axis_start /\ rx_addr' = rx_addr BY RxStreamed
<1>2. /\ m_axi_wvalid
      /\ rx_m_axi_stop0' = (rx_m_axi_stop0 \/ rx_m_axi_last \/ rx_word_last)
      /\ rx_wfirst' = IF rx_m_axi_last \/ rx_word_last THEN "none" ELSE "all"
      /\ rx_word_left >= 1 => rx_word_left' = rx_word_left - 1
      /\ ~rx_m_axi_last => rx_pkt_addr' = Here + Word
  BY WBeatSets
<1>3. ~rx_m_axi_stop0 /\ ~rx_m_axi_last /\ ~rx_word_last BY <1>2
<1>4. /\ Here \in Nat /\ OnWord(Here) /\ rx_word_left \in Nat
      /\ Here >= Aligned(rx_addr)
  BY <1>1, <1>3, WBeatPlace
<1>5. rx_word_left >= 2 BY <1>3, <1>4 DEF rx_word_last
<1>6. rx_buf # <<>>
  <2> SUFFICES ASSUME rx_buf = <<>> PROVE FALSE OBVIOUS
  <2>1. rx_burst_1p BY <1>1, <1>2, EmptyBeat
  <2>2. rx_axis_stop BY <2>1 DEF rx_burst_1p
  <2>3. Len(rx_buf) = 0 BY RxBuffer
  <2> QED BY <1>3, <2>1, <2>2, <2>3 DEF rx_m_axi_last
<1>7. rx_pkt_addr' = Here + Word BY <1>2, <1>3
<1>8. Here' = Here + Word
  <2>1. OnWord(Here + Word) /\ Here + Word \in Nat BY <1>4, MultipleNext, Widths
  <2>2. Aligned(Here + Word) = Here + Word BY <2>1, AlignedItself
  <2>3. Here' = Aligned(rx_pkt_addr') BY DEF Here, Aligned
  <2> QED BY <1>7, <2>2, <2>3
<1>9. Aligned(rx_addr)' = Aligned(rx_addr) /\ Aligned(rx_addr) \in Nat
  <2>1. rx_addr \in Nat BY <1>1, RxFacts
  <2> QED BY <1>1, <2>1, AlignedDown DEF Aligned
<1>10. w_adr = Here BY <1>1, <1>2, <1>3 DEF RxInv, RxWalk
<1>11. rx_word_left' = rx_word_left - 1 BY <1>2, <1>4, <1>5
<1> QED BY <1>2, <1>3, <1>4, <1>5, <1>6, <1>7, <1>8, <1>9, <1>10, <1>11

LEMMA WBeatWalk ==
  ASSUME NEW take \in BOOLEAN, RxInv, unit \in {1, Word}, RxOn(take), WBeat(take)
  PROVE  RxWalk'
<1>1. /\ rx_axis_start /\ rx_addr' = rx_addr /\ rx_size' = rx_size
      /\ Extra <= Extra' /\ Extra \in {0, 1} /\ Extra' \in {0, 1}
  BY RxStreamed
<1>2. /\ m_axi_wvalid
      /\ m_axi_wvalid' => Beats' = Beats - 1 /\ Beats >= 2
      /\ w_adr' = w_adr + Word
      /\ rx_m_axi_stop0' = (rx_m_axi_stop0 \/ rx_m_axi_last \/ rx_word_last)
      /\ rx_wfirst' = IF rx_m_axi_last \/ rx_word_last THEN "none" ELSE "all"
      /\ rx_word_left >= 1 => rx_word_left' = rx_word_left - 1
  BY WBeatSets
<1>3. ASSUME ~rx_m_axi_stop0'
      PROVE  /\ rx_word_left' >= 1
             /\ Here' + Span(rx_word_left)' = Aligned(rx_addr + rx_size - 1)' + Word
             /\ w_adr' = Here'
             /\ rx_wfirst' = "all" /\ Here' = rx_pkt_addr'
             /\ rx_pkt_addr' >= Aligned(rx_addr)' + Word
  <2>1. /\ ~rx_m_axi_stop0
        /\ rx_word_left \in Nat /\ rx_word_left >= 2
        /\ rx_word_left' = rx_word_left - 1
        /\ rx_wfirst' = "all"
        /\ Here \in Nat /\ Here' = Here + Word /\ rx_pkt_addr' = Here'
        /\ Aligned(rx_addr)' = Aligned(rx_addr) /\ Aligned(rx_addr) \in Nat
        /\ Here >= Aligned(rx_addr) /\ w_adr = Here
    BY <1>3, WBeatGoesOn
  <2>2. Here + Span(rx_word_left) = Aligned(rx_addr + rx_size - 1) + Word
    BY <1>1, <2>1 DEF RxInv, RxWalk
  <2>3. Span(rx_word_left)' = Span(rx_word_left) - Word
        /\ Span(rx_word_left) \in Int
    <3>1. Span(rx_word_left - 1) = Span(rx_word_left) - Word
          /\ Span(rx_word_left) \in Int
      <4>1. rx_word_left \in Int BY <2>1
      <4> QED BY <4>1, NextWord
    <3>2. Span(rx_word_left)' = Span(rx_word_left - 1) BY <2>1 DEF Span
    <3> QED BY <3>1, <3>2
  <2>4. Aligned(rx_addr + rx_size - 1)' = Aligned(rx_addr + rx_size - 1)
    BY <1>1 DEF Aligned
  <2>5. Here' + Span(rx_word_left)' = Here + Span(rx_word_left)
    BY <2>1, <2>3, Widths
  <2>6. rx_word_left' >= 1 /\ rx_pkt_addr' >= Aligned(rx_addr)' + Word
    BY <2>1, Widths
  <2>7. w_adr' = Here' BY <1>2, <2>1
  <2> QED BY <2>1, <2>2, <2>4, <2>5, <2>6, <2>7
<1>4. ASSUME m_axi_wvalid'
      PROVE  /\ Beats' >= 1 /\ Beats' <= Len(rx_buf') + Extra'
             /\ Beats' <= rx_word_left' + Extra'
             /\ (w_adr' % Page) + Span(Beats)' <= Page
             /\ rx_m_axi_stop0' => rx_wfirst' = "none" /\ rx_word_left' = 0
  <2>1. Beats' = Beats - 1 /\ Beats >= 2 BY <1>2, <1>4
  <2>2. /\ Beats \in Int /\ Beats <= Len(rx_buf) + Extra
        /\ Beats <= rx_word_left + Extra /\ Len(rx_buf) \in Nat
        /\ rx_m_axi_stop0 => Beats = 1
        /\ rx_m_axi_last => Beats = 1
    BY <1>1, <1>2, EmptyBeat
  <2>3. ~rx_m_axi_stop0 /\ ~rx_m_axi_last BY <2>1, <2>2
  <2>4. rx_word_left \in Nat /\ rx_word_left >= 1 /\ w_adr = Here /\ Here \in Nat
    BY <1>1, <1>2, <2>3, WBeatPlace DEF RxInv, RxWalk
  <2>5. rx_word_left' = rx_word_left - 1 BY <1>2, <2>4
  <2>6. rx_buf # <<>>
    <3> SUFFICES ASSUME rx_buf = <<>> PROVE FALSE OBVIOUS
    <3>1. Len(rx_buf) = 0 BY RxBuffer
    <3> QED BY <1>1, <2>1, <2>2, <3>1
  <2>7. Len(rx_buf') >= Len(rx_buf) - 1 /\ Len(rx_buf') \in Int
    <3>1. /\ Len(rx_buf') + 1 = Len(rx_buf) + Len(Added(take))
          /\ Len(rx_buf') \in Nat
      BY <2>6, WBeatBuffer
    <3>2. Len(Added(take)) \in Nat BY RxStreamed, RxAdded
    <3> QED BY <2>2, <3>1, <3>2
  <2>8. \A x, y, n, b, c \in Int :
          b <= n + x /\ x <= y /\ c >= n - 1 => b - 1 <= c + y
    OBVIOUS
  <2>9. Beats' <= Len(rx_buf') + Extra' /\ Beats' <= rx_word_left' + Extra'
    <3>1. /\ Extra \in Int /\ Extra' \in Int /\ rx_word_left \in Int
          /\ rx_word_left' \in Int /\ rx_word_left' >= rx_word_left - 1
          /\ Len(rx_buf) \in Int
      BY <1>1, <2>2, <2>4, <2>5
    <3>2. Beats - 1 <= Len(rx_buf') + Extra'
      BY <1>1, <2>2, <2>7, <2>8, <3>1, Zenon
    <3>3. Beats - 1 <= rx_word_left' + Extra'
      BY <1>1, <2>2, <2>8, <3>1, Zenon
    <3> QED BY <2>1, <3>2, <3>3
  <2>10. (w_adr' % Page) + Span(Beats)' <= Page
    <3>1. (w_adr % Page) + Span(Beats) <= Page
      BY <1>2 DEF RxInv, RxWalk
    <3>2. Beats \in Nat /\ Beats >= 2 /\ w_adr \in Nat BY <2>1, <2>2, <2>4
    <3>3. ((w_adr + Word) % Page) + Span(Beats - 1) <= Page
      BY <3>1, <3>2, StaysInPage
    <3>4. Span(Beats)' = Span(Beats - 1) BY <2>1 DEF Span
    <3> QED BY <1>2, <3>3, <3>4
  <2>11. rx_m_axi_stop0' => rx_wfirst' = "none" /\ rx_word_left' = 0
    <3> SUFFICES ASSUME rx_m_axi_stop0' PROVE rx_wfirst' = "none" /\ rx_word_left' = 0
      OBVIOUS
    <3>1. rx_word_last BY <1>2, <2>3
    <3>2. rx_word_left = 1 BY <2>4, <3>1 DEF rx_word_last
    <3> QED BY <1>2, <2>5, <3>1, <3>2
  <2>12. Beats' >= 1 BY <2>1, <2>2
  <2> QED BY <2>9, <2>10, <2>11, <2>12
<1> QED BY <1>3, <1>4 DEF RxWalk

\* The words that are left go where they went before.
LEMMA WBeatPlaces ==
  ASSUME NEW take \in BOOLEAN, RxInv, unit \in {1, Word}, RxOn(take), WBeat(take)
  PROVE  RxPlaces'
<1> SUFFICES ASSUME ~rx_m_axi_stop0' PROVE RxPlaces'
  BY DEF RxPlaces
<1> DEFINE p == rx_buf \o Added(take)
<1>1. /\ rx_axis_start /\ RxStream(take)
      /\ rx_addr' = rx_addr /\ frame' = frame /\ unit' = unit
      /\ rx_shift' = rx_shift
      /\ came' \in Nat /\ rx_axis_byte_offs' \in Nat
      /\ rx_burst_1p => rx_burst_1p'
      /\ rx_axis_stop => Added(take) = <<>>
  BY RxStreamed
<1>2. m_axi_wvalid /\ ~rx_m_axi_stop /\ filled' = FilledNow BY WBeatSets
<1>3. /\ ~rx_m_axi_stop0 /\ ~rx_m_axi_last /\ rx_buf # <<>>
      /\ rx_word_left >= 2 /\ rx_wfirst' = "all"
      /\ Here \in Nat /\ Here' = Here + Word
  BY WBeatGoesOn
<1>4. /\ rx_addr \in Int /\ rx_addr \in Nat /\ rx_shift \in Nat /\ rx_shift \in Int
      /\ rx_shift < Word /\ Word \in Nat /\ Word >= 1
      /\ Len(rx_buf) \in Nat
  BY <1>1, RxFacts, RxBuffer
<1>5. RxFrame(p, Here, came', rx_axis_stop', rx_part', rx_axis_byte_offs',
              rx_axis_keep')
  <2>1. RxFrame(rx_buf, Here, came, rx_axis_stop, rx_part, rx_axis_byte_offs,
                rx_axis_keep)
    BY <1>1, <1>3 DEF RxInv, RxPlaces
  <2> QED BY <1>1, <1>2, <1>3, <2>1, FrameStreamed
<1>6. /\ rx_buf' \in Seq(Bytes) /\ p \in Seq(Bytes) /\ Len(rx_buf') = Len(p) - 1
      /\ \A j \in 1 .. Len(rx_buf') : rx_buf'[j] = p[j + 1]
      /\ Head(rx_buf) = p[1] /\ Len(p) = Len(rx_buf) + Len(Added(take))
  <2>1. rx_buf' = Tail(rx_buf) \o Added(take) BY <1>3, WBeatBuffer
  <2> QED BY <1>1, <1>3, <2>1, RxPopped, RxJoined
<1> HIDE DEF p
<1>7. RxFrame(rx_buf', Here + Word, came', rx_axis_stop', rx_part',
              rx_axis_byte_offs', rx_axis_keep')
  <2>1. Here \in Int /\ came' \in Int /\ rx_axis_byte_offs' \in Int
    BY <1>1, <1>3
  <2> QED BY <1>4, <1>5, <1>6, <2>1, FramePopped
<1>8. RxFrame(rx_buf, Here, came, rx_axis_stop, rx_part, rx_axis_byte_offs,
              rx_axis_keep)'
  BY <1>1, <1>3, <1>7 DEF RxFrame, Place, Span, Lanes
<1>9. rx_axis_stop' => rx_buf' # <<>> \/ rx_burst_1p'
  <2> SUFFICES ASSUME rx_axis_stop', ~rx_burst_1p' PROVE rx_buf' # <<>>
    OBVIOUS
  <2>1. ~rx_burst_1p BY <1>1
  <2>2. Len(rx_buf') >= 1
    <3>1. CASE rx_axis_stop
      <4>1. Len(Added(take)) = 0 BY <1>1, <3>1
      <4>2. Len(rx_buf) # 1 BY <1>3, <2>1, <3>1 DEF rx_m_axi_last
      <4>3. Len(rx_buf) >= 1 BY <1>3, RxBuffer
      <4> QED BY <1>4, <1>6, <4>1, <4>2, <4>3
    <3>2. CASE ~rx_axis_stop
      <4>1. Added(take) = <<Placed>> BY <1>2, <3>2, RxStreamed
      <4>2. Len(Added(take)) = 1 BY <4>1
      <4>3. Len(rx_buf) >= 1 BY <1>3, RxBuffer
      <4> QED BY <1>4, <1>6, <4>2, <4>3
    <3> QED BY <3>1, <3>2
  <2> QED BY <1>6, <2>2, EmptySeq
<1>10. filled' = Here' - rx_addr
  <2>1. FilledNow = (Here - rx_addr) + Top BY <1>1, <1>2, <1>3, WBeatFills
  <2>2. Top = Word BY <1>1, <1>3, WBeatPlace
  <2> QED BY <1>2, <1>3, <1>4, <2>1, <2>2
<1>11. ASSUME NEW i \in Lanes, i < rx_shift, (Here' - rx_addr) + i < came'
       PROVE  rx_burst_tail'[i] = (Here' - rx_addr) + i
  <2> DEFINE k == i + Word - rx_shift
  <2>1. i \in Int /\ i >= 0 /\ k \in Lanes /\ k \in Int
    BY <1>4, <1>11 DEF Lanes
  <2>2. rx_burst_tail'[i] = Head(rx_buf)[k]
    BY <1>3, <1>11, WBeatBuffer
  <2>3. Place(Here, 1, k) = (Here' - rx_addr) + i
    <3>1. Place(Here, 1, k) = (Here - rx_addr) + rx_shift + k
      BY <1>3, <1>4, <2>1, PlaceOf
    <3> QED BY <1>3, <1>4, <2>1, <3>1
  <2>4. (Here' - rx_addr) + i >= 0
    <3>1. Here + Top <= rx_addr + rx_size /\ Here + Low >= rx_addr
          /\ Low \in Nat /\ Top \in Nat /\ Low < Top /\ Top <= Word
      BY <1>1, <1>3, WBeatPlace
    <3> QED BY <1>3, <1>4, <2>1, <3>1
  <2>5. \A j \in 1 .. Len(p), l \in Lanes :
          Place(Here, j, l) >= 0 /\ Place(Here, j, l) < came' =>
            p[j][l] = Place(Here, j, l)
    BY <1>5 DEF RxFrame
  <2>6. 1 \in 1 .. Len(p)
    <3>1. Len(Added(take)) \in Nat BY <1>1, RxAdded
    <3>2. Len(rx_buf) >= 1 BY <1>3, RxBuffer
    <3> QED BY <1>4, <1>6, <3>1, <3>2
  <2> HIDE DEF k
  <2>7. p[1][k] = (Here' - rx_addr) + i
    BY <1>11, <2>1, <2>3, <2>4, <2>5, <2>6
  <2> QED BY <1>6, <2>2, <2>7
<1>12. /\ (Here - rx_addr)' = Here' - rx_addr
       /\ filled' = IF rx_wfirst' = "part" THEN 0 ELSE (Here - rx_addr)'
  BY <1>1, <1>3, <1>10
<1>13. \A i \in Lanes : i < rx_shift' /\ (Here - rx_addr)' + i < came' =>
          rx_burst_tail'[i] = (Here - rx_addr)' + i
  BY <1>1, <1>11, <1>12
<1> QED BY <1>8, <1>9, <1>12, <1>13 DEF RxPlaces, Lanes

\* The beat that ends the bus has brought the whole frame, if it fits.
LEMMA WBeatDone ==
  ASSUME NEW take \in BOOLEAN, RxInv, unit \in {1, Word}, RxOn(take), WBeat(take)
  PROVE  RxDone'
<1>1. /\ rx_axis_start /\ rx_addr' = rx_addr /\ rx_size' = rx_size
      /\ frame' = frame
      /\ rx_axis_stop => rx_axis_stop'
  BY RxStreamed
<1>2. /\ m_axi_wvalid /\ ~rx_m_axi_stop /\ rx_m_axi_stop' = rx_m_axi_stop
      /\ filled' = FilledNow
      /\ Beats = 1 => ~m_axi_wvalid'
      /\ rx_m_axi_stop0' = (rx_m_axi_stop0 \/ rx_m_axi_last \/ rx_word_last)
      /\ rx_m_axi_last =>
           rx_pkt_addr' = rx_pkt_addr + rx_axis_byte_offs + rx_axis_keep_cnt
                            - (IF rx_burst_1p THEN Word ELSE 0)
  BY WBeatSets
<1> SUFFICES ASSUME rx_m_axi_stop0', frame <= rx_size
             PROVE  /\ rx_axis_stop /\ ~m_axi_wvalid'
                    /\ rx_pkt_addr' = rx_addr + frame /\ filled' >= frame
  <2>1. ~rx_m_axi_stop' BY <1>2
  <2> QED BY <1>1, <2>1 DEF RxDone
<1>3. ~rx_m_axi_stop0 BY <1>1, <1>2 DEF RxInv, RxDone
<1>4. /\ rx_addr \in Nat /\ rx_size \in Nat /\ frame \in Nat /\ frame > Word
      /\ came \in Nat /\ rx_axis_byte_offs \in Nat /\ rx_axis_keep \in Nat
      /\ Word \in Nat /\ Word >= 1 /\ rx_shift \in Nat /\ rx_shift < Word
      /\ Len(rx_buf) \in Nat /\ rx_pkt_addr \in Nat
      /\ rx_addr \in Int /\ rx_shift \in Int
  BY <1>1, RxFacts, RxBuffer DEF RxInv, RxType
<1>5. /\ Here \in Nat /\ Top \in Nat /\ rx_word_left \in Nat /\ rx_word_left >= 1
      /\ rx_word_left = 1 => Here + Word >= rx_addr + rx_size
      /\ rx_word_left = 1 /\ Top # Word => Here + Top = rx_addr + rx_size
      /\ rx_word_left >= 2 => Top = Word
      /\ rx_wfirst = "part" => Here <= rx_addr
      /\ rx_wfirst # "part" => rx_pkt_addr = Here
  BY <1>1, <1>3, WBeatPlace
<1>6. /\ Extra \in {0, 1} /\ Beats \in Int /\ Beats >= 1
      /\ Beats <= Len(rx_buf) + Extra
      /\ rx_buf = <<>> => rx_burst_1p
      /\ rx_m_axi_last => Beats = 1
      /\ rx_m_axi_last <=> rx_axis_stop /\ Len(rx_buf) + Extra = 1
  BY <1>1, <1>2, EmptyBeat
<1>7. ASSUME rx_axis_stop
      PROVE  /\ came = frame /\ rx_axis_keep >= 1
             /\ frame = Place(Here, Len(rx_buf), 0) + rx_axis_byte_offs
                          + rx_axis_keep
             /\ rx_burst_1p => /\ rx_shift # 0 /\ rx_axis_byte_offs = 0
                               /\ rx_axis_keep <= Word
                               /\ rx_axis_keep + rx_shift > Word
             /\ ~rx_burst_1p =>
                  rx_shift + rx_axis_byte_offs + rx_axis_keep <= Word
  <2>1. Place(Here, Len(rx_buf), rx_axis_byte_offs)
          = Place(Here, Len(rx_buf), 0) + rx_axis_byte_offs
    <3>1. Len(rx_buf) \in Int /\ rx_axis_byte_offs \in Int /\ Here \in Int
      BY <1>4, <1>5
    <3> QED BY <1>4, <3>1, PlaceOf
  <2> QED BY <1>1, <1>3, <1>7, <2>1, LastBytes
<1>8. rx_m_axi_last
  <2> SUFFICES ASSUME ~rx_m_axi_last PROVE FALSE OBVIOUS
  <2>1. rx_word_left = 1
    <3>1. rx_word_last BY <1>2, <1>3
    <3> QED BY <1>5, <3>1 DEF rx_word_last
  <2>2. Here + Word >= rx_addr + frame BY <1>4, <1>5, <2>1
  <2>3. \A n \in Nat : n >= 1 =>
          Place(Here, n, 0) >= (Here - rx_addr) + rx_shift
    <3> TAKE n \in Nat
    <3> HAVE n >= 1
    <3>1. Span(n - 1) \in Nat
      <4>1. n - 1 \in Nat OBVIOUS
      <4> QED BY <4>1, Multiples
    <3> QED BY <1>4, <1>5, <3>1 DEF Place
  <2>4. \A n \in Nat : n >= 2 =>
          Place(Here, n, 0) >= (Here - rx_addr) + rx_shift + Word
    <3> TAKE n \in Nat
    <3> HAVE n >= 2
    <3>1. Span(n - 1) \in Nat /\ Span(n - 1) >= Word
      <4>1. n - 1 \in Nat /\ n - 1 >= 1 OBVIOUS
      <4> QED BY <4>1, Multiples
    <3> QED BY <1>4, <1>5, <3>1 DEF Place
  <2>5. \A n \in Nat : Place(Here, n, 0) \in Int
    BY <1>4, <1>5, PlaceOf
  <2>6. CASE rx_axis_stop
    <3>1. Len(rx_buf) + Extra # 1 BY <1>6, <2>6
    <3>2. CASE rx_burst_1p
      <4>1. Len(rx_buf) >= 1 BY <1>4, <3>1, <3>2 DEF Extra
      <4>2. Place(Here, Len(rx_buf), 0) >= (Here - rx_addr) + rx_shift
        BY <1>4, <2>3, <4>1
      <4>3. frame = Place(Here, Len(rx_buf), 0) + rx_axis_byte_offs + rx_axis_keep
            /\ rx_axis_keep + rx_shift > Word /\ rx_axis_byte_offs = 0
        BY <1>7, <2>6, <3>2
      <4>4. Place(Here, Len(rx_buf), 0) \in Int BY <1>4, <2>5
      <4> QED BY <1>4, <1>5, <2>2, <4>2, <4>3, <4>4
    <3>3. CASE ~rx_burst_1p
      <4>1. rx_buf # <<>> BY <1>6, <3>3
      <4>2. Len(rx_buf) >= 2
        <5>1. Len(rx_buf) # 1 BY <1>4, <3>1, <3>3 DEF Extra
        <5>2. Len(rx_buf) >= 1 BY <4>1, RxBuffer
        <5>3. \A n \in Nat : n # 1 /\ n >= 1 => n >= 2 OBVIOUS
        <5> QED BY <1>4, <5>1, <5>2, <5>3
      <4>3. Place(Here, Len(rx_buf), 0) >= (Here - rx_addr) + rx_shift + Word
        BY <1>4, <2>4, <4>2
      <4>4. frame = Place(Here, Len(rx_buf), 0) + rx_axis_byte_offs + rx_axis_keep
            /\ rx_axis_keep >= 1
        BY <1>7, <2>6
      <4>5. Place(Here, Len(rx_buf), 0) \in Int BY <1>4, <2>5
      <4> QED BY <1>4, <1>5, <2>2, <4>3, <4>4, <4>5
    <3> QED BY <3>2, <3>3
  <2>7. CASE ~rx_axis_stop
    <3>1. /\ came < frame
          /\ came = Place(Here, Len(rx_buf) + 1, rx_axis_byte_offs)
      BY <1>1, <1>3, <2>7 DEF RxInv, RxPlaces, RxFrame
    <3>2. ~rx_burst_1p BY <2>7 DEF rx_burst_1p
    <3>3. Len(rx_buf) >= 1 BY <1>6, <3>2, RxBuffer
    <3>4. Len(rx_buf) + 1 \in Nat /\ Len(rx_buf) + 1 >= 2 BY <1>4, <3>3
    <3>5. /\ Place(Here, Len(rx_buf) + 1, 0) >= (Here - rx_addr) + rx_shift + Word
          /\ Place(Here, Len(rx_buf) + 1, 0) \in Int
      BY <2>4, <2>5, <3>4
    <3>6. came = Place(Here, Len(rx_buf) + 1, 0) + rx_axis_byte_offs
      <4>1. Len(rx_buf) + 1 \in Int /\ rx_axis_byte_offs \in Int /\ Here \in Int
        BY <1>4, <1>5
      <4> QED BY <1>4, <3>1, <4>1, PlaceOf
    <3> QED BY <1>4, <1>5, <2>2, <3>1, <3>5, <3>6
  <2> QED BY <2>6, <2>7
<1>9. rx_axis_stop /\ Len(rx_buf) + Extra = 1 /\ ~m_axi_wvalid'
  BY <1>2, <1>6, <1>8
<1> DEFINE w == IF rx_burst_1p THEN Word ELSE 0
           s == rx_shift + rx_axis_byte_offs + rx_axis_keep
<1>10. frame = (Here - rx_addr) + s - w
  <2>1. frame = Place(Here, Len(rx_buf), 0) + rx_axis_byte_offs + rx_axis_keep
    BY <1>7, <1>9
  <2>2. CASE rx_burst_1p
    <3>1. Len(rx_buf) = 0 BY <1>4, <1>9, <2>2 DEF Extra
    <3>2. Place(Here, 0, 0) = (Here - rx_addr) + rx_shift + 0 - Word
      BY <1>4, <1>5, PlaceOf
    <3> QED BY <1>4, <1>5, <2>1, <2>2, <3>1, <3>2
  <2>3. CASE ~rx_burst_1p
    <3>1. Len(rx_buf) = 1 BY <1>4, <1>9, <2>3 DEF Extra
    <3>2. Place(Here, 1, 0) = (Here - rx_addr) + rx_shift + 0
      BY <1>4, <1>5, PlaceOf
    <3> QED BY <1>4, <1>5, <2>1, <2>3, <3>1, <3>2
  <2> QED BY <2>2, <2>3
<1>11. s - w <= Word /\ s \in Nat /\ w \in Nat
  <2>1. CASE rx_burst_1p
    <3>1. rx_axis_byte_offs = 0 /\ rx_axis_keep <= Word BY <1>7, <1>9, <2>1
    <3> QED BY <1>4, <2>1, <3>1
  <2>2. CASE ~rx_burst_1p BY <1>4, <1>7, <1>9, <2>2
  <2> QED BY <2>1, <2>2
<1>12. rx_pkt_addr = Here
  <2> SUFFICES ASSUME rx_wfirst = "part" PROVE FALSE BY <1>5
  <2>1. Here <= rx_addr BY <1>5
  <2> HIDE DEF w, s
  <2> QED BY <1>4, <1>5, <1>10, <1>11, <2>1
<1>13. rx_pkt_addr' = rx_addr + frame
  <2>1. rx_pkt_addr' = rx_pkt_addr + rx_axis_byte_offs + (rx_axis_keep + rx_shift) - w
    BY <1>2, <1>8 DEF rx_axis_keep_cnt
  <2>2. rx_pkt_addr' = Here + s - w
    BY <1>4, <1>5, <1>11, <1>12, <2>1
  <2> HIDE DEF w, s
  <2> QED BY <1>4, <1>5, <1>10, <1>11, <2>2
<1>14. filled' >= frame
  <2>1. filled' = (Here - rx_addr) + Top BY <1>1, <1>2, <1>3, WBeatFills
  <2> HIDE DEF w, s
  <2>2. CASE Top = Word BY <1>4, <1>5, <1>10, <1>11, <2>1, <2>2
  <2>3. CASE Top # Word
    <3>1. rx_word_left = 1 BY <1>5, <2>3
    <3>2. Here + Top = rx_addr + rx_size BY <1>5, <2>3, <3>1
    <3> QED BY <1>4, <1>5, <2>1, <3>2
  <2> QED BY <2>2, <2>3
<1> QED BY <1>9, <1>13, <1>14

LEMMA WBeatStep ==
  ASSUME NEW take \in BOOLEAN, RxInv, unit \in {1, Word}, RxOn(take), WBeat(take)
  PROVE  RxInv'
BY WBeatKeeps, WBeatWalk, WBeatPlaces, WBeatDone DEF RxInv

-----------------------------------------------------------------------------
(* The receiver as a whole.                                                *)

LEMMA RxRunStep ==
  ASSUME NEW take \in BOOLEAN, RxInv, unit \in {1, Word}, unit' = unit, RxRun(take)
  PROVE  RxInv'
<1>1. RxOn(take) BY DEF RxRun, RxOn
<1>2. CASE WBeat(take) BY <1>1, <1>2, WBeatStep
<1>3. CASE Answer(take) BY <1>1, <1>3, AnswerStep
<1>4. CASE BusWaits(take) BY <1>1, <1>4, RxRestStep DEF BusWaits
<1>5. CASE NoBurst(take) BY <1>1, <1>5, RxRestStep DEF NoBurst
<1>6. CASE RxBurst(take) BY <1>1, <1>6, RxBurstStep
<1> QED BY <1>2, <1>3, <1>4, <1>5, <1>6 DEF RxRun

LEMMA RxResetStep ==
  ASSUME RxInv, unit' = unit, RxReset
  PROVE  RxInv'
<1>1. /\ ~rx_start /\ rx_start' \in BOOLEAN
      /\ rx_buf' = <<>> /\ rx_part' = JunkWord
      /\ rx_axis_start' = FALSE /\ rx_axis_stop' = FALSE
      /\ rx_m_axi_stop0' = FALSE /\ rx_m_axi_stop' = FALSE
      /\ rx_axis_byte_offs' = rx_axis_byte_offs /\ rx_axis_keep' = rx_axis_keep
      /\ came' = came /\ rx_addr' = rx_addr /\ rx_size' = rx_size
      /\ frame' = frame /\ rx_pkt_addr' = rx_pkt_addr
      /\ rx_word_left' = rx_word_left /\ rx_wfirst' = rx_wfirst
      /\ rx_burst_tail' = rx_burst_tail /\ m_axi_wr_cyc' = m_axi_wr_cyc
      /\ m_axi_wvalid' = m_axi_wvalid /\ m_axi_wcnt' = m_axi_wcnt
      /\ m_axi_awlen' = m_axi_awlen /\ w_adr' = w_adr
  BY DEF RxReset, rxDesc, rxWalk, rxBus
<1>2. ~m_axi_wr_cyc /\ ~m_axi_wvalid
  <2>1. ~rx_axis_start \/ rx_m_axi_stop BY <1>1 DEF RxInv, RxIdle
  <2> QED BY <2>1 DEF RxInv, RxIdle
<1>3. RxType'
  <2>1. rx_buf' \in Seq(Bytes) /\ Len(rx_buf') < Fifo BY <1>1, EmptySeq, Widths
  <2>2. rx_part' \in Bytes BY <1>1 DEF JunkWord, Junk, Bytes
  <2> QED BY <1>1, <2>1, <2>2 DEF RxInv, RxType
<1>4. RxIdle' BY <1>1, <1>2 DEF RxIdle
<1>5. RxWalk' BY <1>1, <1>2 DEF RxWalk
<1>6. RxPlaces' /\ RxDone' BY <1>1 DEF RxPlaces, RxDone
<1> QED BY <1>3, <1>4, <1>5, <1>6 DEF RxInv

LEMMA RxFetchStep ==
  ASSUME RxInv, unit \in {1, Word}, unit' = unit, RxFetch
  PROVE  RxInv'
<1>1. /\ rx_start /\ ~rx_axis_start /\ rx_axis_start' = TRUE
      /\ rx_addr' \in Adrs /\ rx_size' \in Sizes /\ frame' \in Frames
      /\ rx_axis_byte_offs' = IF unit > 1 THEN 0 ELSE rx_addr' % Word
      /\ rx_wfirst' = "part" /\ rx_word_left' = WordsOf(rx_addr', rx_size')
      /\ rx_pkt_addr' = rx_addr' /\ rx_burst_tail' = JunkWord
      /\ came' = 0 /\ filled' = 0
      /\ rx_start' = rx_start /\ rx_axis_stop' = rx_axis_stop
      /\ rx_m_axi_stop0' = rx_m_axi_stop0 /\ rx_m_axi_stop' = rx_m_axi_stop
      /\ rx_buf' = rx_buf /\ rx_part' = rx_part /\ rx_axis_keep' = rx_axis_keep
      /\ m_axi_wr_cyc' = m_axi_wr_cyc /\ m_axi_wvalid' = m_axi_wvalid
      /\ m_axi_wcnt' = m_axi_wcnt /\ m_axi_awlen' = m_axi_awlen
      /\ w_adr' = w_adr
  BY DEF RxFetch
<1>2. /\ rx_buf = <<>> /\ ~rx_axis_stop /\ ~rx_m_axi_stop0 /\ ~rx_m_axi_stop
      /\ ~m_axi_wr_cyc /\ ~m_axi_wvalid
  BY <1>1 DEF RxInv, RxIdle
<1> DEFINE a == rx_addr'
           n == rx_size'
<1>3. /\ a \in Nat /\ n \in Nat /\ n > Word /\ n >= 1
      /\ n + 2 * Word < Range14
      /\ frame' \in Nat /\ frame' > Word
      /\ Word \in Nat /\ Word >= 1 /\ unit \in Nat /\ unit >= 1 /\ unit <= Word
  <2>1. a \in Nat /\ n \in Nat /\ n > Word /\ n + 2 * Word < Range14
        /\ frame' \in Nat /\ frame' > Word
    BY <1>1, BusAssumption
  <2>2. Word \in Nat /\ Word >= 1 BY Widths
  <2> QED BY <2>1, <2>2
<1>4. /\ WordsOf(a, n) \in Nat /\ WordsOf(a, n) < n + 2 * Word
      /\ Aligned(a) + Span(WordsOf(a, n)) = Aligned(a + n - 1) + Word
  BY <1>3, WordsCounted
<1>5. /\ a % Word \in 0 .. Word - 1 /\ a % Word = a - Aligned(a)
      /\ Aligned(a) \in Nat
  BY <1>3, AlignedDown
<1>6. rx_axis_byte_offs' \in Nat
  <2>1. CASE unit > 1 BY <1>1, <2>1
  <2>2. CASE ~(unit > 1) BY <1>1, <1>5, <2>2
  <2> QED BY <2>1, <2>2
<1>7. RxType'
  <2>1. rx_buf' \in Seq(Bytes) /\ Len(rx_buf') < Fifo
    BY <1>1 DEF RxInv, RxType
  <2>2. rx_burst_tail' \in Bytes BY <1>1 DEF JunkWord, Junk, Bytes
  <2>3. rx_word_left' \in Nat /\ rx_word_left' < Range14
    <3> HIDE DEF n, a
    <3>1. WordsOf(a, n) < Range14 BY <1>3, <1>4, Widths
    <3> QED BY <1>1, <1>4, <3>1 DEF n, a
  <2> QED BY <1>1, <1>3, <1>6, <2>1, <2>2, <2>3 DEF RxInv, RxType
<1>8. RxIdle'
  <2>1. came' < frame'
    <3>1. \A m \in Nat : m > Word => 0 < m BY <1>3
    <3> QED BY <1>1, <1>3, <3>1
  <2> QED BY <1>1, <1>2, <2>1 DEF RxIdle
<1>9. Here' = Aligned(a) BY <1>1 DEF Here, Aligned
<1>10. RxWalk'
  <2>1. rx_word_left' >= 1
    <3> DEFINE k == WordsOf(a, n)
               z == Aligned(a)
               e == Aligned(a + n - 1)
    <3>1. a + n - 1 \in Nat /\ a <= a + n - 1
      <4> HIDE DEF a, n
      <4> QED BY <1>3
    <3>2. e \in Nat /\ z \in Nat /\ z <= e
      BY <1>3, <1>5, <3>1, AlignedDown, AlignedMono
    <3>3. z + Span(k) = e + Word /\ k \in Nat BY <1>4
    <3> HIDE DEF k, z, e
    <3>4. k # 0
      <4> SUFFICES ASSUME k = 0 PROVE FALSE OBVIOUS
      <4>1. Span(k) = 0 BY NextWord
      <4> QED BY <1>3, <3>2, <3>3, <4>1
    <3>5. k >= 1 BY <3>3, <3>4
    <3> QED BY <1>1, <3>5 DEF k
  <2>2. Here' + Span(rx_word_left)' = Aligned(rx_addr + rx_size - 1)' + Word
    <3>1. Span(rx_word_left)' = Span(WordsOf(a, n)) BY <1>1 DEF Span
    <3>2. Aligned(rx_addr + rx_size - 1)' = Aligned(a + n - 1) BY DEF Aligned
    <3> QED BY <1>4, <1>9, <3>1, <3>2
  <2> QED BY <1>1, <1>2, <2>1, <2>2 DEF RxWalk
<1>11. RxPlaces'
  <2> DEFINE b == rx_axis_byte_offs'
             s == rx_shift'
             h == Here'
  <2>1. s = IF unit > 1 THEN a % Word ELSE 0 BY DEF rx_shift
  <2>2. /\ b \in Nat /\ b <= Word - unit /\ (unit = Word => b = 0)
        /\ s \in Nat /\ s + b = a % Word
    <3>1. b = IF unit > 1 THEN 0 ELSE a % Word BY <1>1
    <3> DEFINE r == a % Word
    <3>2. r \in Nat /\ r <= Word - 1
      <4>1. r \in 0 .. Word - 1 BY <1>5
      <4> HIDE DEF r
      <4> QED BY <1>3, <4>1
    <3>3. b = (IF unit > 1 THEN 0 ELSE r) /\ s = (IF unit > 1 THEN 0 + r ELSE 0)
      BY <2>1, <3>1, <3>2
    <3> HIDE DEF b, s, r
    <3>4. CASE unit > 1
      <4>1. b = 0 /\ s = r BY <3>2, <3>3, <3>4
      <4>2. /\ b \in Nat /\ b <= Word - unit /\ (unit = Word => b = 0)
            /\ s \in Nat /\ s + b = r
        BY <1>3, <3>2, <4>1
      <4> QED BY <4>2 DEF r
    <3>5. CASE ~(unit > 1)
      <4>1. unit = 1 BY <1>3, <3>5
      <4>2. b = r /\ s = 0 BY <3>3, <3>5
      <4>3. unit = Word => b = 0 BY <1>3, <3>2, <4>1, <4>2
      <4>4. /\ b \in Nat /\ b <= Word - unit /\ s \in Nat /\ s + b = r
        BY <1>3, <3>2, <4>1, <4>2
      <4> QED BY <4>3, <4>4 DEF r
    <3> QED BY <3>4, <3>5
  <2>3. h = a - (a % Word)
    <3> HIDE DEF a, h
    <3> QED BY <1>3, <1>5, <1>9 DEF h
  <2>4. Len(rx_buf') = 0 /\ Span(0) = 0 BY <1>1, <1>2, NextWord
  <2>5. ASSUME NEW i \in Int
        PROVE  Place(Here, Len(rx_buf) + 1, i)' = i - b
    <3>1. Place(Here, Len(rx_buf) + 1, i)'
            = (h - a) + s + Span((Len(rx_buf') + 1) - 1) + i
      BY DEF Place, Span
    <3>2. (Len(rx_buf') + 1) - 1 = 0 BY <2>4
    <3>3. a \in Int /\ a % Word \in Int BY <1>3, <1>5
    <3> HIDE DEF a, b, s, h
    <3> QED BY <2>2, <2>3, <2>4, <3>1, <3>2, <3>3
  <2>6. Place(Here, Len(rx_buf) + 1, rx_axis_byte_offs)' = 0
    <3>1. Place(Here, Len(rx_buf) + 1, rx_axis_byte_offs)'
            = (h - a) + s + Span((Len(rx_buf') + 1) - 1) + b
      BY DEF Place, Span
    <3>2. (Len(rx_buf') + 1) - 1 = 0 BY <2>4
    <3>3. a \in Int /\ a % Word \in Int BY <1>3, <1>5
    <3> HIDE DEF a, b, s, h
    <3> QED BY <2>2, <2>3, <2>4, <3>1, <3>2, <3>3
  <2>7. came' = 0 /\ came' < frame'
    <3>1. \A m \in Nat : m > Word => 0 < m BY <1>3
    <3> QED BY <1>1, <1>3, <3>1
  <2>8. \A i \in Lanes :
          ~(i < rx_axis_byte_offs' /\ Place(Here, Len(rx_buf) + 1, i)' >= 0)
    <3> TAKE i \in Lanes
    <3>1. i \in Int BY <1>3 DEF Lanes
    <3>2. Place(Here, Len(rx_buf) + 1, i)' = i - b BY <2>5, <3>1
    <3> QED BY <1>6, <3>1, <3>2
  <2>9. ~rx_axis_stop' /\ \A j \in 1 .. Len(rx_buf') : FALSE
    BY <1>1, <1>2, <2>4
  <2>10. RxFrame(rx_buf, Here, came, rx_axis_stop, rx_part, rx_axis_byte_offs,
                 rx_axis_keep)'
    <3> QED BY <2>2, <2>6, <2>7, <2>8, <2>9 DEF RxFrame, Lanes
  <2> QED BY <1>1, <2>9, <2>10 DEF RxPlaces
<1>12. RxDone' BY <1>1, <1>2 DEF RxDone
<1> QED BY <1>7, <1>8, <1>10, <1>11, <1>12 DEF RxInv

LEMMA RxNextStep ==
  ASSUME RxInv, unit \in {1, Word}, unit' = unit, RxNext
  PROVE  RxInv'
<1>1. CASE RxReset BY <1>1, RxResetStep
<1>2. CASE RxFetch BY <1>2, RxFetchStep
<1>3. ASSUME NEW take \in BOOLEAN, RxRun(take)
      PROVE  RxInv'
  BY <1>3, RxRunStep
<1> QED BY <1>1, <1>2, <1>3 DEF RxNext

LEMMA RxInitInv ==
  ASSUME RxInit
  PROVE  RxInv
<1>1. RxType
  <2>1. JunkWord \in Bytes BY DEF JunkWord, Junk, Bytes
  <2>2. rx_buf \in Seq(Bytes) /\ Len(rx_buf) < Fifo
    BY EmptySeq, Widths DEF RxInit
  <2>3. 0 < Range14 BY DEF Range14
  <2>4. /\ rx_part \in Bytes /\ rx_burst_tail \in Bytes
        /\ rx_word_left \in Nat /\ rx_word_left < Range14
    BY <2>1, <2>3 DEF RxInit
  <2> QED BY <2>2, <2>4 DEF RxInit, RxType
<1>2. RxIdle /\ RxWalk /\ RxPlaces /\ RxDone
  BY DEF RxInit, RxIdle, RxWalk, RxPlaces, RxDone
<1> QED BY <1>1, <1>2 DEF RxInv

\* The receiver is as it was.
LEMMA RxStill ==
  ASSUME RxInv, UNCHANGED rxVars, unit' = unit
  PROVE  RxInv'
<1>1. /\ rx_start' = rx_start /\ rx_axis_start' = rx_axis_start
      /\ rx_m_axi_stop0' = rx_m_axi_stop0 /\ rx_m_axi_stop' = rx_m_axi_stop
      /\ rx_buf' = rx_buf /\ rx_axis_stop' = rx_axis_stop
      /\ rx_bad_frame' = rx_bad_frame /\ rx_part' = rx_part
      /\ rx_axis_byte_offs' = rx_axis_byte_offs /\ rx_axis_keep' = rx_axis_keep
      /\ came' = came /\ rx_addr' = rx_addr /\ rx_size' = rx_size
      /\ frame' = frame /\ rx_done' = rx_done /\ rx_status' = rx_status
      /\ rx_pkt_addr' = rx_pkt_addr /\ rx_word_left' = rx_word_left
      /\ rx_wfirst' = rx_wfirst /\ rx_burst_tail' = rx_burst_tail
      /\ filled' = filled /\ m_axi_wr_cyc' = m_axi_wr_cyc
      /\ m_axi_wvalid' = m_axi_wvalid /\ m_axi_wcnt' = m_axi_wcnt
      /\ m_axi_awlen' = m_axi_awlen /\ w_adr' = w_adr
  BY DEF rxVars, rxStream, rxDesc, rxReport, rxWalk, rxBus
<1>2. RxType' /\ RxIdle' BY <1>1 DEF RxInv, RxType, RxIdle
<1>3. rx_shift' = rx_shift /\ (rx_burst_1p' <=> rx_burst_1p)
  BY <1>1 DEF rx_shift, rx_burst_1p, rx_axis_keep_cnt
<1>4. Beats' = Beats /\ Extra' = Extra /\ Here' = Here
  BY <1>1, <1>3 DEF Beats, Extra, Here, Aligned
<1>5. RxWalk' BY <1>1, <1>4 DEF RxInv, RxWalk, Aligned, Span
<1>6. RxPlaces'
  BY <1>1, <1>3, <1>4 DEF RxInv, RxPlaces, RxFrame, Place, Span, Lanes
<1>7. RxDone' BY <1>1 DEF RxInv, RxDone
<1> QED BY <1>2, <1>5, <1>6, <1>7 DEF RxInv

\* What the invariant says of the bus.
LEMMA RxIsOK ==
  ASSUME RxInv, unit \in {1, Word}
  PROVE  RxBurstOK /\ RxInBuffer /\ Len(rx_buf) < Fifo
<1>1. Len(rx_buf) < Fifo BY RxBuffer
<1> SUFFICES ASSUME m_axi_wvalid
             PROVE  /\ InPage(w_adr, m_axi_awlen - m_axi_wcnt)
                    /\ rx_buf # <<>> \/ rx_burst_1p \/ wstrb = {}
                    /\ \A i \in wstrb :
                         w_adr + i \in rx_addr .. rx_addr + rx_size - 1
  BY <1>1 DEF RxBurstOK, RxInBuffer
<1>2. rx_axis_start BY DEF RxInv, RxIdle
<1>3. InPage(w_adr, m_axi_awlen - m_axi_wcnt)
  <2>1. (w_adr % Page) + Span(Beats) <= Page BY DEF RxInv, RxWalk
  <2>2. Beats = (m_axi_awlen - m_axi_wcnt) + 1 BY DEF Beats, RxInv, RxType
  <2> QED BY <2>1, <2>2 DEF InPage, Span
<1>4. rx_buf # <<>> \/ rx_burst_1p BY <1>2, EmptyBeat
<1>5. ASSUME NEW i \in wstrb
      PROVE  w_adr + i \in rx_addr .. rx_addr + rx_size - 1
  <2>1. CASE rx_m_axi_stop0
    <3>1. rx_wfirst = "none" BY <2>1 DEF RxInv, RxWalk
    <3> QED BY <1>5, <3>1 DEF wstrb
  <2>2. CASE ~rx_m_axi_stop0
    <3>1. /\ Here \in Nat /\ Low \in Nat /\ Top \in Nat
          /\ Here + Low >= rx_addr /\ Here + Top <= rx_addr + rx_size
      BY <1>2, <2>2, WBeatPlace
    <3>2. i \in Low .. Top - 1 BY <1>2, <1>5, <2>2, StrobeIs
    <3>3. w_adr = Here BY <1>2, <2>2 DEF RxInv, RxWalk
    <3>4. rx_addr \in Nat /\ rx_size \in Nat BY <1>2, RxFacts
    <3> QED BY <3>1, <3>2, <3>3, <3>4
  <2> QED BY <2>1, <2>2
<1> QED BY <1>3, <1>4, <1>5

\* What it says of a frame that is handed over.
LEMMA RxIsIntact ==
  ASSUME RxInv
  PROVE  RxIntegrity
<1> SUFFICES ASSUME rx_start, rx_axis_stop, rx_m_axi_stop, frame <= rx_size
             PROVE  /\ rx_done = frame /\ filled >= frame
                    /\ rx_status[2] = rx_bad_frame
  BY DEF RxIntegrity, Received
<1>1. rx_axis_start /\ rx_m_axi_stop0 BY DEF RxInv, RxIdle
<1> QED BY <1>1 DEF RxInv, RxDone

-----------------------------------------------------------------------------
(* Both.                                                                   *)

LEMMA InitInv == Init => IInv
<1> SUFFICES ASSUME Init PROVE IInv OBVIOUS
<1>1. unit \in {1, Word} BY BusAssumption DEF Init
<1>2. TxInv BY TxInitInv DEF Init
<1>3. RxInv BY RxInitInv DEF Init
<1> QED BY <1>1, <1>2, <1>3 DEF IInv

LEMMA NextInv == IInv /\ [Next]_vars => IInv'
<1> SUFFICES ASSUME IInv, [Next]_vars PROVE IInv' OBVIOUS
<1>1. unit' = unit /\ unit \in {1, Word} /\ TxInv /\ RxInv
  BY DEF IInv, Next, vars
<1>2. CASE TxNext /\ UNCHANGED rxVars
  BY <1>1, <1>2, TxNextStep, RxStill DEF IInv
<1>3. CASE RxNext /\ UNCHANGED txVars
  BY <1>1, <1>3, RxNextStep, TxStill DEF IInv
<1>4. CASE UNCHANGED vars
  <2>1. UNCHANGED txVars /\ UNCHANGED rxVars BY <1>4 DEF vars
  <2> QED BY <1>1, <2>1, TxStill, RxStill DEF IInv
<1> QED BY <1>2, <1>3, <1>4 DEF Next

\* Each direction keeps its registers, its FIFO and its burst in step, clock
\* by clock: the inductive invariant of the two state machines of ethernet.v
\* (lines 419 and 553).
THEOREM DmaInv == Spec => []IInv
BY InitInv, NextInv, PTL DEF Spec

\* Whatever the alignment of a buffer and the width of the stream, no FIFO
\* overfills and no burst crosses a page (ethernet.v lines 395, 410, 543 and
\* 551), no beat reads or writes beyond its packet or buffer, however long the
\* frame (line 541).
THEOREM BusIsSafe == Spec => []BusSafe
<1>1. IInv => BusSafe
  BY TxBurstIsOK, RxIsOK DEF IInv, BusSafe, FifosHold
<1> QED BY <1>1, DmaInv, PTL

\* The bytes of a packet go to the MAC as they are in memory, each once and in
\* their order, with the last one marked: the words of memory, moved to the
\* alignment of the stream (ethernet.v lines 459 to 482), are the words of the
\* packet.
THEOREM PacketsIntact == Spec => []TxIntegrity
<1>1. IInv => TxIntegrity BY TxIsIntact DEF IInv
<1> QED BY <1>1, DmaInv, PTL

\* A frame that fits its buffer is there, each byte in its place, when its
\* descriptor is handed over, with its length and the verdict of the MAC,
\* also when its last word falls on two words of memory (rx_burst_1p,
\* ethernet.v line 535).
THEOREM FramesIntact == Spec => []RxIntegrity
<1>1. IInv => RxIntegrity BY RxIsIntact DEF IInv
<1> QED BY <1>1, DmaInv, PTL
=============================================================================
