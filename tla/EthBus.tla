------------------------------- MODULE EthBus ------------------------------
(***************************************************************************)
(* What the transmit and the receive DMA of ethernet.v share: the widths,  *)
(* words as lanes of bytes, and the length of an AXI burst that may not    *)
(* cross a page.                                                           *)
(*                                                                         *)
(* A byte is known by where it belongs: on the way out by its address in   *)
(* memory, on the way in by its number in the frame.                       *)
(***************************************************************************)
EXTENDS Integers, Sequences

CONSTANTS
  Word,    \* dma_word_bytes
  Units,   \* the values of axis_word_bytes to be considered
  Fifo,    \* burst_size, in words
  Page,    \* bytes an AXI burst may not cross a multiple of (4096)
  Adrs,    \* DMA addresses of descriptors
  Sizes,   \* sizes of descriptors
  Frames   \* lengths of frames that arrive

\* One more than the largest value of a register of pkt_size_bits_range.
Range14 == 16384

\* A frame is longer than a word (at least 60 bytes), and a buffer with the
\* words around it can be counted in 14 bits (it has 9014 bytes at most).
ASSUME BusAssumption ==
  /\ Word \in Nat \ {0} /\ Units \subseteq {1, Word}
  /\ Fifo \in Nat /\ Fifo >= 4 /\ Fifo % 2 = 0
  /\ Page \in Nat /\ Page > 0 /\ Page % (Fifo * Word) = 0
  /\ Adrs \subseteq Nat
  /\ \A n \in Sizes \cup Frames : n \in Nat /\ n > Word
  /\ \A n \in Sizes : n + 2 * Word < Range14

VARIABLE unit  \* axis_word_bytes, fixed

Junk == -1  \* a byte that belongs nowhere

Lanes == 0 .. Word - 1

min_burst == Fifo \div 2

Aligned(a) == a - (a % Word)

\* The number of words that hold n bytes from address a on.
WordsOf(a, n) == (n + (a % Word) + Word - 1) \div Word

\* The AXI length (one less than the beats) of a burst at a of at most len:
\* to the end of the page, inverted address bits say how far that is.
len4k(a, len) ==
  LET inPage == (Page \div Word) - 1 - ((a \div Word) % (Page \div Word))
  IN IF inPage >= len THEN len ELSE inPage % Fifo

\* A burst at a of AXI length len stays in its page.
InPage(a, len) == (a % Page) + (len + 1) * Word <= Page

=============================================================================
