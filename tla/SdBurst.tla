------------------------------ MODULE SdBurst ------------------------------
(***************************************************************************)
(* How long an AXI burst of the SD controller is: the FIFO positions, the  *)
(* burst length computed from them and from the DMA address, and the beat  *)
(* counter of axi_sdc_controller.v, with the wrap-around of each register. *)
(* SdDataPath takes from here that a burst has at least one beat and never *)
(* more than the FIFO can serve.                                           *)
(*                                                                         *)
(* The sizes are counts, not widths: Fifo stands for 1 << fifo_addr_bits,  *)
(* Page for the words of 4KB, Cap for the beats an AXI length can express, *)
(* Memory for the words of the DMA address space.                          *)
(***************************************************************************)
EXTENDS Naturals

CONSTANTS Fifo, Page, Cap, Memory

ASSUME BurstAssumption ==
  /\ Fifo \in Nat /\ Fifo >= 4
  /\ Page \in Nat /\ Page >= Fifo /\ Page % Fifo = 0
  /\ Cap \in Nat /\ Cap >= 2
  /\ Memory \in Nat /\ Memory >= Page /\ Memory % Page = 0

VARIABLES
  en,                           \* "rx": en_rx_fifo, "tx": en_tx_fifo, "none"
  fifo_inp_pos, fifo_out_pos,
  m_bus_adr,                    \* word address
  m_axi_cyc, m_axi_wvalid,
  axi_len,                      \* m_axi_awlen or m_axi_arlen
  m_axi_wcnt,                   \* of a read burst, the slave's own count
  m_axi_wlast

fifoVars == <<fifo_inp_pos, fifo_out_pos>>
vars == <<en, fifoVars, m_bus_adr, m_axi_cyc, m_axi_wvalid, axi_len,
          m_axi_wcnt, m_axi_wlast>>

-----------------------------------------------------------------------------
\* Mutant: one bit too many.
fifo_inp_nxt_wide == (fifo_inp_pos + 1) % (2 * Fifo)

fifo_inp_nxt == (fifo_inp_pos + 1) % Fifo
fifo_out_nxt == (fifo_out_pos + 1) % Fifo
fifo_data_len == (fifo_inp_pos + Fifo - fifo_out_pos) % Fifo
fifo_free_len == (fifo_out_pos + Fifo - fifo_inp_nxt) % Fifo
fifo_full == fifo_inp_nxt = fifo_out_pos
fifo_empty == fifo_inp_pos = fifo_out_pos

\* A full third makes a burst; a read of the card is also drained below it,
\* once the card is done.
tx_stb == en = "tx" /\ fifo_free_len >= Fifo \div 3
rx_stb == en = "rx" /\ ~fifo_empty

\* m_bus_adr_o[11:2], and the low bits of the address inverted.
in_page == m_bus_adr % Page
to_fifo_end == Fifo - 1 - (m_bus_adr % Fifo)

\* Mutants: no 4KB rule; the count itself for a length; a stop at every
\* multiple of the FIFO size.
burst_len_unbounded(n) == n - 1
burst_len_count(n) == IF (in_page + n) % Page >= in_page THEN n ELSE to_fifo_end
burst_len_aligned(n) == IF n - 1 <= to_fifo_end THEN n - 1 ELSE to_fifo_end

\* tx_burst_len and rx_burst_len, for n words free or filled.  The sum keeps
\* the width of m_bus_adr_o[11:2].
burst_len(n) ==
  IF (in_page + n) % Page >= in_page THEN n - 1 ELSE to_fifo_end

axlen(n) == IF burst_len(n) < Cap - 1 THEN burst_len(n) ELSE Cap - 1

-----------------------------------------------------------------------------
Push == IF fifo_full THEN UNCHANGED fifoVars
        ELSE fifo_inp_pos' = fifo_inp_nxt /\ UNCHANGED fifo_out_pos

Pop == IF fifo_empty THEN UNCHANGED fifoVars
       ELSE fifo_out_pos' = fifo_out_nxt /\ UNCHANGED fifo_inp_pos

\* sd_data_master switches a direction on for a new dma_addr_reg, with the
\* bus at rest, and off at any time, which empties the FIFO.
Enable ==
  /\ en = "none" /\ ~m_axi_cyc
  /\ en' \in {"rx", "tx"}
  /\ m_bus_adr' \in 0 .. Memory - 1
  /\ UNCHANGED <<fifoVars, m_axi_cyc, m_axi_wvalid, axi_len, m_axi_wcnt,
                 m_axi_wlast>>

Disable ==
  /\ en # "none"
  /\ en' = "none"
  /\ fifo_inp_pos' = 0 /\ fifo_out_pos' = 0
  /\ UNCHANGED <<m_bus_adr, m_axi_cyc, m_axi_wvalid, axi_len, m_axi_wcnt,
                 m_axi_wlast>>

\* The serial host's port of the FIFO.
HostPort ==
  /\ \/ en = "rx" /\ Push
     \/ en = "tx" /\ Pop
  /\ UNCHANGED <<en, m_bus_adr, m_axi_cyc, m_axi_wvalid, axi_len, m_axi_wcnt,
                 m_axi_wlast>>

Burst ==
  /\ ~m_axi_cyc
  /\ tx_stb \/ rx_stb
  /\ m_axi_cyc' = TRUE
  /\ m_axi_wcnt' = 0
  /\ IF en = "rx"
     THEN /\ axi_len' = axlen(fifo_data_len)
          /\ m_axi_wlast' = (burst_len(fifo_data_len) = 0)
          /\ m_axi_wvalid' = TRUE
     ELSE /\ axi_len' = axlen(fifo_free_len)
          /\ UNCHANGED <<m_axi_wlast, m_axi_wvalid>>
  /\ UNCHANGED <<en, fifoVars, m_bus_adr>>

NextAdr == m_bus_adr' = (m_bus_adr + 1) % Memory

\* Mutant: the last beat is marked one beat late.
WBeat_Late ==
  /\ m_axi_cyc /\ m_axi_wvalid
  /\ IF en = "rx" THEN Pop ELSE UNCHANGED fifoVars
  /\ NextAdr
  /\ IF m_axi_wlast
     THEN m_axi_wvalid' = FALSE /\ m_axi_cyc' = FALSE
          /\ UNCHANGED <<m_axi_wcnt, m_axi_wlast>>
     ELSE /\ m_axi_wlast' = (m_axi_wcnt = axi_len)
          /\ m_axi_wcnt' = m_axi_wcnt + 1
          /\ UNCHANGED <<m_axi_wvalid, m_axi_cyc>>
  /\ UNCHANGED <<en, axi_len>>

WBeat ==
  /\ m_axi_cyc /\ m_axi_wvalid
  /\ IF en = "rx" THEN Pop ELSE UNCHANGED fifoVars
  /\ NextAdr
  /\ IF m_axi_wlast
     THEN m_axi_wvalid' = FALSE /\ m_axi_cyc' = FALSE
          /\ UNCHANGED <<m_axi_wcnt, m_axi_wlast>>
     ELSE /\ m_axi_wlast' = (m_axi_wcnt + 1 = axi_len)
          /\ m_axi_wcnt' = m_axi_wcnt + 1
          /\ UNCHANGED <<m_axi_wvalid, m_axi_cyc>>
  /\ UNCHANGED <<en, axi_len>>

RBeat ==
  /\ m_axi_cyc /\ ~m_axi_wvalid
  /\ en # "rx"
  /\ IF en = "tx" THEN Push ELSE UNCHANGED fifoVars
  /\ NextAdr
  /\ IF m_axi_wcnt = axi_len
     THEN m_axi_cyc' = FALSE /\ UNCHANGED m_axi_wcnt
     ELSE m_axi_wcnt' = m_axi_wcnt + 1 /\ UNCHANGED m_axi_cyc
  /\ UNCHANGED <<en, m_axi_wvalid, axi_len, m_axi_wlast>>

Init ==
  /\ en = "none" /\ fifo_inp_pos = 0 /\ fifo_out_pos = 0
  /\ m_bus_adr = 0
  /\ m_axi_cyc = FALSE /\ m_axi_wvalid = FALSE
  /\ axi_len = 0 /\ m_axi_wcnt = 0 /\ m_axi_wlast = FALSE

Next == Enable \/ Disable \/ HostPort \/ Burst \/ WBeat \/ RBeat

Spec == Init /\ [][Next]_vars

-----------------------------------------------------------------------------
beats_left == axi_len - m_axi_wcnt + 1

\* Every register holds a value of its width; a burst counts its beats up to
\* its length and no further.
TypeOK ==
  /\ en \in {"none", "rx", "tx"}
  /\ fifo_inp_pos \in 0 .. Fifo - 1 /\ fifo_out_pos \in 0 .. Fifo - 1
  /\ m_bus_adr \in 0 .. Memory - 1
  /\ m_axi_cyc \in BOOLEAN /\ m_axi_wvalid \in BOOLEAN
  /\ m_axi_wlast \in BOOLEAN
  /\ axi_len \in 0 .. Cap - 1
  /\ m_axi_wcnt \in 0 .. axi_len

\* An AXI burst cannot cross a 4KB boundary: the beats still to come are all
\* in the page of the address.
BurstInPage == m_axi_cyc => in_page + beats_left <= Page

\* A burst that has started can be served to its end: the FIFO holds the
\* words a write burst still has to take, or has room for those a read burst
\* still brings, whatever the card does meanwhile.
BurstCovered ==
  m_axi_cyc => /\ en = "rx" => beats_left <= fifo_data_len
               /\ en = "tx" => beats_left <= fifo_free_len

\* m_axi_wlast marks the beat the slave expects to be the last one.
LastBeatMarked == m_axi_wvalid => (m_axi_wlast <=> m_axi_wcnt = axi_len)

\* A burst is as long as it may be: it takes all there is, or ends with the
\* page, or has all the beats AXI allows.
BurstMaximal ==
  [][m_axi_cyc' /\ ~m_axi_cyc =>
       \/ axi_len' + 1 = IF en = "rx" THEN fifo_data_len ELSE fifo_free_len
       \/ in_page + axi_len' + 1 = Page
       \/ axi_len' = Cap - 1]_vars
=============================================================================
