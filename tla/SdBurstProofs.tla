--------------------------- MODULE SdBurstProofs ---------------------------
(***************************************************************************)
(* SdBurst, for every size of the FIFO, the page, the burst and the memory *)
(* that BurstAssumption allows: no burst crosses a 4KB boundary, and every *)
(* burst can be served to its end.                                         *)
(***************************************************************************)
EXTENDS SdBurst, TLAPS

-----------------------------------------------------------------------------
(* Arithmetic of registers that wrap around.                               *)

LEMMA ModOfSmall ==
  ASSUME NEW n \in Nat, n > 0, NEW a \in Nat, a < 2 * n
  PROVE  a % n = IF a < n THEN a ELSE a - n
<1>1. CASE a < n BY <1>1
<1>2. CASE a >= n BY <1>2
<1> QED BY <1>1, <1>2

LEMMA DivMod ==
  ASSUME NEW n \in Nat, n > 0, NEW a \in Nat
  PROVE  /\ a \div n \in Nat /\ a % n \in 0 .. n - 1
         /\ a = n * (a \div n) + (a % n)
OBVIOUS

LEMMA ModOfSum ==
  ASSUME NEW n \in Nat, n > 0, NEW q \in Nat, NEW r \in 0 .. n - 1
  PROVE  (n * q + r) % n = r
OBVIOUS

\* The low bits of an address, where its page ends: m_bus_adr_o[8:2] is
\* m_bus_adr_o[11:2] less whole multiples of the FIFO size.
LEMMA LowBits ==
  ASSUME NEW f \in Nat, f > 0, NEW p \in Nat, p > 0, p % f = 0,
         NEW a \in Nat, NEW r \in 0 .. f - 1, a % p = p - f + r
  PROVE  a % f = r
<1> DEFINE k == p \div f
           q == a \div p
<1>1. k \in Nat /\ p = f * k BY DivMod
<1>2. q \in Nat /\ a = p * q + (p - f + r) BY DivMod
<1>3. k >= 1 BY <1>1
<1>4. k * q + k - 1 \in Nat
  <2>1. k * q \in Nat BY <1>1, <1>2
  <2> QED BY <2>1, <1>1, <1>3
<1>5. a = f * (k * q + k - 1) + r
  <2>1. p * q = f * (k * q) BY <1>1, <1>2
  <2>2. f * (k * q + k - 1) = f * (k * q) + f * k - f BY <1>1, <1>2
  <2> QED BY <2>1, <2>2, <1>1, <1>2
<1> HIDE DEF k, q
<1> QED BY <1>4, <1>5, ModOfSum

\* The next address stays in the page, unless it was the last of it.
LEMMA NextInPage ==
  ASSUME NEW p \in Nat, p > 0, NEW m \in Nat, m > 0, m % p = 0,
         NEW a \in 0 .. m - 1, (a % p) + 1 < p
  PROVE  (a + 1) % m = a + 1 /\ (a + 1) % p = (a % p) + 1
<1> DEFINE k == m \div p
           q == a \div p
           r == a % p
<1>1. k \in Nat /\ m = p * k BY DivMod
<1>2. q \in Nat /\ r \in 0 .. p - 1 /\ a = p * q + r BY DivMod
<1>3. r + 1 \in 0 .. p - 1 BY <1>2
<1>4. (p * q + (r + 1)) % p = r + 1
  <2> HIDE DEF q, r
  <2> QED BY <1>2, <1>3, ModOfSum
<1>5. a + 1 = p * q + (r + 1)
  <2>1. p * q \in Nat BY <1>2
  <2> QED BY <1>2, <2>1
<1>6. (a + 1) % p = r + 1 BY <1>4, <1>5
<1>7. a + 1 # m BY <1>3, <1>6
<1>8. (a + 1) % m = a + 1 BY <1>7, ModOfSmall
<1> QED BY <1>6, <1>8

\* The sizes without their divisibility.
LEMMA Sizes ==
  /\ Fifo \in Nat /\ Fifo >= 4 /\ Page \in Nat /\ Page >= Fifo
  /\ Cap \in Nat /\ Cap >= 2 /\ Memory \in Nat /\ Memory >= Page
BY BurstAssumption

-----------------------------------------------------------------------------
(* The FIFO: how many words its positions hold, and what a push and a pop   *)
(* do to that number.                                                      *)

Held(i, o) == IF i >= o THEN i - o ELSE i + Fifo - o

LEMMA Distances ==
  ASSUME NEW i \in 0 .. Fifo - 1, NEW o \in 0 .. Fifo - 1
  PROVE  /\ (i + 1) % Fifo = IF i = Fifo - 1 THEN 0 ELSE i + 1
         /\ (i + Fifo - o) % Fifo = Held(i, o)
         /\ (o + Fifo - ((i + 1) % Fifo)) % Fifo = Fifo - 1 - Held(i, o)
<1> USE Sizes
<1>1. (i + 1) % Fifo = IF i = Fifo - 1 THEN 0 ELSE i + 1 BY ModOfSmall
<1>2. (i + Fifo - o) % Fifo = Held(i, o) BY ModOfSmall DEF Held
<1>3. (o + Fifo - ((i + 1) % Fifo)) % Fifo = Fifo - 1 - Held(i, o)
  <2> DEFINE j == (i + 1) % Fifo
  <2>1. j \in 0 .. Fifo - 1 /\ j = IF i = Fifo - 1 THEN 0 ELSE i + 1 BY <1>1
  <2> HIDE DEF j
  <2>2. (o + Fifo - j) % Fifo = IF o + Fifo - j < Fifo THEN o + Fifo - j
                                                       ELSE o - j
    BY <2>1, ModOfSmall
  <2>3. (o + Fifo - j) % Fifo = Fifo - 1 - Held(i, o)
    BY <2>1, <2>2 DEF Held
  <2> QED BY <2>3 DEF j
<1> QED BY <1>1, <1>2, <1>3

Positions == fifo_inp_pos \in 0 .. Fifo - 1 /\ fifo_out_pos \in 0 .. Fifo - 1

LEMMA Lengths ==
  Positions => /\ fifo_data_len = Held(fifo_inp_pos, fifo_out_pos)
               /\ fifo_data_len \in 0 .. Fifo - 1
               /\ fifo_free_len = Fifo - 1 - fifo_data_len
               /\ fifo_empty <=> fifo_data_len = 0
               /\ fifo_full <=> fifo_free_len = 0
<1> USE Sizes DEF Positions
<1> SUFFICES ASSUME Positions
             PROVE  /\ fifo_data_len = Held(fifo_inp_pos, fifo_out_pos)
                    /\ fifo_data_len \in 0 .. Fifo - 1
                    /\ fifo_free_len = Fifo - 1 - fifo_data_len
                    /\ fifo_empty <=> fifo_data_len = 0
                    /\ fifo_full <=> fifo_free_len = 0
  OBVIOUS
<1>1. fifo_data_len = Held(fifo_inp_pos, fifo_out_pos)
  BY Distances DEF fifo_data_len
<1>2. fifo_free_len = Fifo - 1 - Held(fifo_inp_pos, fifo_out_pos)
  BY Distances DEF fifo_free_len, fifo_inp_nxt
<1>3. fifo_inp_nxt = IF fifo_inp_pos = Fifo - 1 THEN 0 ELSE fifo_inp_pos + 1
  BY Distances DEF fifo_inp_nxt
<1>4. Held(fifo_inp_pos, fifo_out_pos) \in 0 .. Fifo - 1 BY DEF Held
<1>5. fifo_empty <=> fifo_data_len = 0 BY <1>1 DEF fifo_empty, Held
<1>6. fifo_full <=> fifo_free_len = 0 BY <1>2, <1>3 DEF fifo_full, Held
<1> QED BY <1>1, <1>2, <1>4, <1>5, <1>6

LEMMA LengthsNext ==
  Positions' => /\ fifo_data_len' = Held(fifo_inp_pos', fifo_out_pos')
                /\ fifo_data_len' \in 0 .. Fifo - 1
                /\ fifo_free_len' = Fifo - 1 - fifo_data_len'
<1>1. (Positions => /\ fifo_data_len = Held(fifo_inp_pos, fifo_out_pos)
                    /\ fifo_data_len \in 0 .. Fifo - 1
                    /\ fifo_free_len = Fifo - 1 - fifo_data_len
                    /\ fifo_empty <=> fifo_data_len = 0
                    /\ fifo_full <=> fifo_free_len = 0)'
  BY Lengths, PTL
<1> QED BY <1>1 DEF Held

LEMMA PushLength ==
  ASSUME Positions, Push
  PROVE  /\ Positions'
         /\ fifo_data_len' = IF fifo_free_len = 0 THEN fifo_data_len
                                                  ELSE fifo_data_len + 1
<1> USE Sizes
<1>1. CASE fifo_full
  <2>1. UNCHANGED fifoVars BY <1>1 DEF Push
  <2> QED BY <1>1, <2>1, Lengths
         DEF fifoVars, Positions, fifo_data_len
<1>2. CASE ~fifo_full
  <2>1. /\ fifo_inp_pos' = fifo_inp_nxt /\ fifo_out_pos' = fifo_out_pos
    BY <1>2 DEF Push
  <2>2. fifo_inp_nxt = IF fifo_inp_pos = Fifo - 1 THEN 0 ELSE fifo_inp_pos + 1
    BY Distances DEF fifo_inp_nxt, Positions
  <2>3. Positions' BY <2>1, <2>2 DEF Positions
  <2>4. fifo_data_len' = fifo_data_len + 1
    BY <1>2, <2>1, <2>2, <2>3, Lengths, LengthsNext
       DEF fifo_full, Held, Positions
  <2> QED BY <1>2, <2>3, <2>4, Lengths
<1> QED BY <1>1, <1>2

LEMMA PopLength ==
  ASSUME Positions, Pop
  PROVE  /\ Positions'
         /\ fifo_data_len' = IF fifo_data_len = 0 THEN fifo_data_len
                                                  ELSE fifo_data_len - 1
<1> USE Sizes
<1>1. CASE fifo_empty
  <2>1. UNCHANGED fifoVars BY <1>1 DEF Pop
  <2> QED BY <1>1, <2>1, Lengths
         DEF fifoVars, Positions, fifo_data_len
<1>2. CASE ~fifo_empty
  <2>1. /\ fifo_out_pos' = fifo_out_nxt /\ fifo_inp_pos' = fifo_inp_pos
    BY <1>2 DEF Pop
  <2>2. fifo_out_nxt = IF fifo_out_pos = Fifo - 1 THEN 0 ELSE fifo_out_pos + 1
    BY Distances DEF fifo_out_nxt, Positions
  <2>3. Positions' BY <2>1, <2>2 DEF Positions
  <2>4. fifo_data_len' = fifo_data_len - 1
    BY <1>2, <2>1, <2>2, <2>3, Lengths, LengthsNext
       DEF fifo_empty, Held, Positions
  <2> QED BY <1>2, <2>3, <2>4, Lengths
<1> QED BY <1>1, <1>2

\* A burst length for n words is below n and reaches the end of the page at
\* most; a shorter one than n ends exactly there.
LEMMA BurstLength ==
  ASSUME m_bus_adr \in 0 .. Memory - 1, NEW n \in 1 .. Fifo - 1
  PROVE  /\ burst_len(n) \in 0 .. n - 1
         /\ in_page \in 0 .. Page - 1
         /\ in_page + burst_len(n) + 1 <= Page
         /\ burst_len(n) # n - 1 => in_page + burst_len(n) + 1 = Page
<1> USE BurstAssumption
<1>1. in_page \in 0 .. Page - 1 BY DivMod DEF in_page
<1>2. (in_page + n) % Page = IF in_page + n < Page THEN in_page + n
                                                   ELSE in_page + n - Page
  BY <1>1, ModOfSmall
<1>3. CASE in_page + n < Page
  <2>1. (in_page + n) % Page >= in_page BY <1>1, <1>2, <1>3
  <2>2. burst_len(n) = n - 1 BY <2>1 DEF burst_len
  <2> QED BY <1>1, <1>3, <2>2
<1>4. CASE in_page + n >= Page
  <2>1. in_page - (Page - Fifo) \in 0 .. Fifo - 1 BY <1>1, <1>4
  <2>2. m_bus_adr % Fifo = in_page - (Page - Fifo)
    <3> DEFINE r == in_page - (Page - Fifo)
    <3>1. r \in 0 .. Fifo - 1 BY <2>1
    <3>2. m_bus_adr % Page = Page - Fifo + r BY <1>1 DEF in_page
    <3>3. m_bus_adr \in Nat /\ Fifo > 0 /\ Page > 0 OBVIOUS
    <3> HIDE DEF r
    <3>4. m_bus_adr % Fifo = r BY <3>1, <3>2, <3>3, LowBits
    <3> QED BY <3>4 DEF r
  <2>3. to_fifo_end = Page - 1 - in_page BY <2>1, <2>2, <1>1 DEF to_fifo_end
  <2>4. burst_len(n) = Page - 1 - in_page
    BY <1>1, <1>2, <1>4, <2>3 DEF burst_len
  <2> QED BY <1>1, <1>4, <2>4
<1> QED BY <1>1, <1>3, <1>4

-----------------------------------------------------------------------------
\* What the direction and the handshakes have to do with each other.
Modes ==
  /\ m_axi_wvalid => m_axi_cyc
  /\ m_axi_cyc /\ en = "rx" => m_axi_wvalid
  /\ m_axi_cyc /\ en = "tx" => ~m_axi_wvalid

IInv == TypeOK /\ Modes /\ BurstInPage /\ BurstCovered /\ LastBeatMarked

LEMMA InitInv == Init => IInv
<1> SUFFICES ASSUME Init PROVE IInv OBVIOUS
<1>1. TypeOK
  <2>1. /\ fifo_inp_pos \in 0 .. Fifo - 1 /\ fifo_out_pos \in 0 .. Fifo - 1
        /\ m_bus_adr \in 0 .. Memory - 1
        /\ axi_len \in 0 .. Cap - 1 /\ m_axi_wcnt \in 0 .. axi_len
    BY Sizes DEF Init
  <2>2. /\ en \in {"none", "rx", "tx"} /\ m_axi_cyc \in BOOLEAN
        /\ m_axi_wvalid \in BOOLEAN /\ m_axi_wlast \in BOOLEAN
    BY DEF Init
  <2> QED BY <2>1, <2>2 DEF TypeOK
<1>2. Modes /\ BurstInPage /\ BurstCovered /\ LastBeatMarked
  BY DEF Init, Modes, BurstInPage, BurstCovered, LastBeatMarked
<1> QED BY <1>1, <1>2 DEF IInv

\* The numeric and the other half of TypeOK.
Numbers ==
  /\ Positions
  /\ m_bus_adr \in 0 .. Memory - 1
  /\ axi_len \in 0 .. Cap - 1 /\ m_axi_wcnt \in 0 .. axi_len

Flags ==
  /\ en \in {"none", "rx", "tx"} /\ m_axi_cyc \in BOOLEAN
  /\ m_axi_wvalid \in BOOLEAN /\ m_axi_wlast \in BOOLEAN

LEMMA TypeParts == TypeOK <=> Numbers /\ Flags
BY DEF TypeOK, Numbers, Flags, Positions

LEMMA EnableInv == ASSUME IInv, Enable PROVE IInv'
<1> USE DEF Enable
<1>1. Numbers /\ Flags BY TypeParts DEF IInv
<1>2. Numbers' BY <1>1 DEF Numbers, Positions, fifoVars
<1>3. Flags' BY <1>1 DEF Flags
<1>4. TypeOK' BY <1>2, <1>3 DEF TypeOK, Numbers, Flags, Positions
<1>5. Modes' /\ BurstInPage' /\ BurstCovered' /\ LastBeatMarked'
  BY DEF IInv, Modes, BurstInPage, BurstCovered, LastBeatMarked
<1> QED BY <1>4, <1>5 DEF IInv

LEMMA DisableInv == ASSUME IInv, Disable PROVE IInv'
<1> USE DEF Disable
<1>1. Numbers /\ Flags BY TypeParts DEF IInv
<1>2. Numbers' BY <1>1, Sizes DEF Numbers, Positions
<1>3. Flags' BY <1>1 DEF Flags
<1>4. TypeOK' BY <1>2, <1>3 DEF TypeOK, Numbers, Flags, Positions
<1>5. Modes' /\ LastBeatMarked' BY DEF IInv, Modes, LastBeatMarked
<1>6. BurstInPage' BY DEF IInv, BurstInPage, in_page, beats_left
<1>7. BurstCovered' BY DEF BurstCovered
<1> QED BY <1>4, <1>5, <1>6, <1>7 DEF IInv

\* The card's side of the FIFO never takes from a burst what it relies on.
LEMMA HostPortInv == ASSUME IInv, HostPort PROVE IInv'
<1> USE DEF HostPort
<1>1. Numbers /\ Flags BY TypeParts DEF IInv
<1>2. Positions BY <1>1 DEF Numbers
<1>3. Positions' BY <1>2, PushLength, PopLength
<1>4. Numbers' BY <1>1, <1>3 DEF Numbers
<1>5. Flags' BY <1>1 DEF Flags
<1>6. TypeOK' BY <1>4, <1>5 DEF TypeOK, Numbers, Flags, Positions
<1>7. Modes' /\ LastBeatMarked' BY DEF IInv, Modes, LastBeatMarked
<1>8. BurstInPage' BY DEF IInv, BurstInPage, in_page, beats_left
<1>9. BurstCovered'
  <2>1. SUFFICES ASSUME m_axi_cyc
                 PROVE  /\ en = "rx" => beats_left <= fifo_data_len'
                        /\ en = "tx" => beats_left <= fifo_free_len'
    BY DEF BurstCovered, beats_left
  <2>2. beats_left \in Nat BY <1>1 DEF Numbers, beats_left
  <2>3. ASSUME en = "rx" PROVE beats_left <= fifo_data_len'
    <3>1. Push BY <2>3
    <3>2. beats_left <= fifo_data_len BY <2>1, <2>3 DEF IInv, BurstCovered
    <3> QED BY <1>2, <2>2, <3>1, <3>2, PushLength, Lengths, Sizes
  <2>4. ASSUME en = "tx" PROVE beats_left <= fifo_free_len'
    <3>1. Pop BY <2>4
    <3>2. beats_left <= fifo_free_len BY <2>1, <2>4 DEF IInv, BurstCovered
    <3> QED BY <1>2, <1>3, <2>2, <3>1, <3>2, PopLength, Lengths, LengthsNext,
               Sizes
  <2> QED BY <2>3, <2>4
<1> QED BY <1>6, <1>7, <1>8, <1>9 DEF IInv

\* What a new burst is, for the n words that are there or fit.
LEMMA BurstStart ==
  ASSUME Numbers, NEW n \in 1 .. Fifo - 1
  PROVE  /\ axlen(n) \in 0 .. Cap - 1
         /\ axlen(n) + 1 <= n
         /\ in_page + axlen(n) + 1 <= Page
         /\ \/ axlen(n) + 1 = n
            \/ in_page + axlen(n) + 1 = Page
            \/ axlen(n) = Cap - 1
         /\ burst_len(n) = 0 <=> axlen(n) = 0
<1> USE Sizes
<1>1. /\ burst_len(n) \in 0 .. n - 1
      /\ in_page \in 0 .. Page - 1
      /\ in_page + burst_len(n) + 1 <= Page
      /\ burst_len(n) # n - 1 => in_page + burst_len(n) + 1 = Page
  BY BurstLength DEF Numbers
<1>2. axlen(n) = IF burst_len(n) < Cap - 1 THEN burst_len(n) ELSE Cap - 1
  BY DEF axlen
<1> QED BY <1>1, <1>2

LEMMA BurstAmount ==
  ASSUME IInv, Burst
  PROVE  /\ en = "rx" => fifo_data_len \in 1 .. Fifo - 1
         /\ en # "rx" => en = "tx" /\ fifo_free_len \in 1 .. Fifo - 1
<1> USE Sizes
<1>1. Positions /\ en \in {"none", "rx", "tx"}
  BY TypeParts DEF IInv, Numbers, Flags
<1>2. tx_stb \/ rx_stb BY DEF Burst
<1>3. ASSUME en = "rx" PROVE fifo_data_len \in 1 .. Fifo - 1
  <2>1. ~fifo_empty BY <1>2, <1>3 DEF tx_stb, rx_stb
  <2> QED BY <1>1, <2>1, Lengths
<1>4. ASSUME en # "rx" PROVE en = "tx" /\ fifo_free_len \in 1 .. Fifo - 1
  <2>1. en = "tx" /\ fifo_free_len >= Fifo \div 3
    BY <1>2, <1>4 DEF tx_stb, rx_stb
  <2>2. Fifo \div 3 \in Nat /\ Fifo \div 3 >= 1 OBVIOUS
  <2>3. fifo_free_len \in 0 .. Fifo - 1 BY <1>1, Lengths
  <2> QED BY <2>1, <2>2, <2>3
<1> QED BY <1>3, <1>4

LEMMA BurstInv == ASSUME IInv, Burst PROVE IInv'
<1> USE Sizes
<1>1. Numbers /\ Flags BY TypeParts DEF IInv
<1>2. /\ m_axi_cyc' = TRUE /\ m_axi_wcnt' = 0 /\ en' = en
      /\ m_bus_adr' = m_bus_adr
      /\ fifo_inp_pos' = fifo_inp_pos /\ fifo_out_pos' = fifo_out_pos
      /\ ~m_axi_cyc
  BY DEF Burst, fifoVars
<1>3. in_page' = in_page /\ fifo_data_len' = fifo_data_len
      /\ fifo_free_len' = fifo_free_len
  BY <1>2 DEF in_page, fifo_data_len, fifo_free_len, fifo_inp_nxt
<1>4. CASE en = "rx"
  <2> DEFINE n == fifo_data_len
  <2>1. n \in 1 .. Fifo - 1 BY <1>4, BurstAmount
  <2>2. /\ axi_len' = axlen(n) /\ m_axi_wvalid' = TRUE
        /\ m_axi_wlast' = (burst_len(n) = 0)
    BY <1>4 DEF Burst
  <2> HIDE DEF n
  <2>3. /\ axlen(n) \in 0 .. Cap - 1 /\ axlen(n) + 1 <= n
        /\ in_page + axlen(n) + 1 <= Page
        /\ burst_len(n) = 0 <=> axlen(n) = 0
    BY <1>1, <2>1, BurstStart
  <2>4. beats_left' = axlen(n) + 1 BY <1>2, <2>2, <2>3 DEF beats_left
  <2>5. Numbers' BY <1>1, <1>2, <2>2, <2>3 DEF Numbers, Positions
  <2>6. Flags' BY <1>1, <1>2, <2>2 DEF Flags
  <2>7. TypeOK' BY <2>5, <2>6 DEF TypeOK, Numbers, Flags, Positions
  <2>8. Modes' BY <1>2, <1>4, <2>2 DEF Modes
  <2>9. BurstInPage'
    <3>1. in_page \in Nat BY <1>1, DivMod DEF in_page, Numbers
    <3> QED BY <1>3, <2>3, <2>4, <3>1 DEF BurstInPage
  <2>10. BurstCovered'
    BY <1>2, <1>3, <1>4, <2>3, <2>4 DEF BurstCovered, n
  <2>11. LastBeatMarked' BY <1>2, <2>2, <2>3 DEF LastBeatMarked
  <2> QED BY <2>7, <2>8, <2>9, <2>10, <2>11 DEF IInv
<1>5. CASE en # "rx"
  <2> DEFINE n == fifo_free_len
  <2>1. en = "tx" /\ n \in 1 .. Fifo - 1 BY <1>5, BurstAmount
  <2>2. /\ axi_len' = axlen(n) /\ m_axi_wvalid' = m_axi_wvalid
        /\ m_axi_wlast' = m_axi_wlast
    BY <1>5 DEF Burst
  <2>3. ~m_axi_wvalid BY <1>2 DEF IInv, Modes
  <2> HIDE DEF n
  <2>4. /\ axlen(n) \in 0 .. Cap - 1 /\ axlen(n) + 1 <= n
        /\ in_page + axlen(n) + 1 <= Page
    BY <1>1, <2>1, BurstStart
  <2>5. beats_left' = axlen(n) + 1 BY <1>2, <2>2, <2>4 DEF beats_left
  <2>6. Numbers' BY <1>1, <1>2, <2>2, <2>4 DEF Numbers, Positions
  <2>7. Flags' BY <1>1, <1>2, <2>2 DEF Flags
  <2>8. TypeOK' BY <2>6, <2>7 DEF TypeOK, Numbers, Flags, Positions
  <2>9. Modes' BY <1>2, <2>1, <2>2, <2>3 DEF Modes
  <2>10. BurstInPage'
    <3>1. in_page \in Nat BY <1>1, DivMod DEF in_page, Numbers
    <3> QED BY <1>3, <2>4, <2>5, <3>1 DEF BurstInPage
  <2>11. BurstCovered'
    BY <1>2, <1>3, <2>1, <2>4, <2>5 DEF BurstCovered, n
  <2>12. LastBeatMarked' BY <2>2, <2>3 DEF LastBeatMarked
  <2> QED BY <2>8, <2>9, <2>10, <2>11, <2>12 DEF IInv
<1> QED BY <1>4, <1>5

LEMMA NextAdrInPage ==
  ASSUME Numbers, NextAdr
  PROVE  /\ m_bus_adr' \in 0 .. Memory - 1
         /\ in_page + 1 < Page => in_page' = in_page + 1
<1> USE Sizes, BurstAssumption
<1>1. m_bus_adr \in 0 .. Memory - 1 BY DEF Numbers
<1>2. m_bus_adr' \in 0 .. Memory - 1
  <2>1. m_bus_adr + 1 \in Nat BY <1>1
  <2> QED BY <2>1, DivMod DEF NextAdr
<1>3. ASSUME in_page + 1 < Page PROVE in_page' = in_page + 1
  <2>1. /\ Page \in Nat /\ Page > 0 /\ Memory \in Nat /\ Memory > 0
        /\ Memory % Page = 0
    OBVIOUS
  <2>2. (m_bus_adr % Page) + 1 < Page BY <1>3 DEF in_page
  <2>3. (m_bus_adr + 1) % Memory = m_bus_adr + 1
        /\ (m_bus_adr + 1) % Page = (m_bus_adr % Page) + 1
    BY ONLY <1>1, <2>1, <2>2, NextInPage
  <2> QED BY <2>3 DEF NextAdr, in_page
<1> QED BY <1>2, <1>3

LEMMA WBeatInv == ASSUME IInv, WBeat PROVE IInv'
<1> USE Sizes
<1>1. Numbers /\ Flags BY TypeParts DEF IInv
<1>2. m_axi_cyc /\ m_axi_wvalid /\ NextAdr /\ en' = en /\ axi_len' = axi_len
  BY DEF WBeat
<1>3. en # "tx" BY <1>2 DEF IInv, Modes
<1>4. m_axi_wlast <=> m_axi_wcnt = axi_len
  BY <1>2 DEF IInv, LastBeatMarked
<1>5. in_page + beats_left <= Page /\ in_page \in Nat
  <2>1. in_page \in Nat BY <1>1, DivMod DEF in_page, Numbers
  <2> QED BY <1>2, <2>1 DEF IInv, BurstInPage
<1>6. /\ Positions'
      /\ en = "rx" => fifo_data_len' = IF fifo_data_len = 0
                                       THEN 0 ELSE fifo_data_len - 1
  <2>1. CASE en = "rx"
    <3>1. Pop BY <2>1 DEF WBeat
    <3> QED BY <1>1, <3>1, PopLength DEF Numbers
  <2>2. CASE en # "rx"
    BY <1>1, <2>2 DEF WBeat, fifoVars, Numbers, Positions
  <2> QED BY <2>1, <2>2
<1>7. CASE m_axi_wlast
  <2>1. /\ m_axi_wvalid' = FALSE /\ m_axi_cyc' = FALSE
        /\ m_axi_wcnt' = m_axi_wcnt /\ m_axi_wlast' = m_axi_wlast
    BY <1>7 DEF WBeat
  <2>2. Numbers' BY <1>1, <1>2, <1>6, <2>1, NextAdrInPage DEF Numbers
  <2>3. Flags' BY <1>1, <1>2, <2>1 DEF Flags
  <2>4. TypeOK' BY <2>2, <2>3 DEF TypeOK, Numbers, Flags, Positions
  <2> QED BY <2>1, <2>4
         DEF IInv, Modes, BurstInPage, BurstCovered, LastBeatMarked
<1>8. CASE ~m_axi_wlast
  <2>1. /\ m_axi_wvalid' = m_axi_wvalid /\ m_axi_cyc' = m_axi_cyc
        /\ m_axi_wcnt' = m_axi_wcnt + 1
        /\ m_axi_wlast' = (m_axi_wcnt + 1 = axi_len)
    BY <1>8 DEF WBeat
  <2>2. m_axi_wcnt + 1 \in 0 .. axi_len BY <1>1, <1>4, <1>8 DEF Numbers
  <2>3. Numbers' BY <1>1, <1>2, <1>6, <2>1, <2>2, NextAdrInPage DEF Numbers
  <2>4. Flags' BY <1>1, <1>2, <2>1 DEF Flags
  <2>5. TypeOK' BY <2>3, <2>4 DEF TypeOK, Numbers, Flags, Positions
  <2>6. beats_left \in Nat /\ beats_left >= 2 /\ beats_left' = beats_left - 1
    BY <1>1, <1>2, <2>1, <2>2 DEF Numbers, beats_left
  <2>7. in_page' = in_page + 1 BY <1>1, <1>2, <1>5, <2>6, NextAdrInPage
  <2>8. BurstInPage' BY <1>5, <2>6, <2>7 DEF BurstInPage
  <2>9. BurstCovered'
    <3>1. ASSUME en = "rx" PROVE beats_left' <= fifo_data_len'
      <4>1. beats_left <= fifo_data_len
        BY <1>2, <3>1 DEF IInv, BurstCovered
      <4>2. fifo_data_len \in 0 .. Fifo - 1 BY <1>1, Lengths DEF Numbers
      <4> QED BY <1>6, <2>6, <3>1, <4>1, <4>2
    <3> QED BY <1>2, <1>3, <3>1 DEF BurstCovered
  <2>10. Modes' BY <1>2, <2>1 DEF IInv, Modes
  <2>11. LastBeatMarked' BY <1>2, <2>1 DEF LastBeatMarked
  <2> QED BY <2>5, <2>8, <2>9, <2>10, <2>11 DEF IInv
<1> QED BY <1>7, <1>8

LEMMA RBeatInv == ASSUME IInv, RBeat PROVE IInv'
<1> USE Sizes
<1>1. Numbers /\ Flags BY TypeParts DEF IInv
<1>2. /\ m_axi_cyc /\ ~m_axi_wvalid /\ en # "rx" /\ NextAdr
      /\ en' = en /\ axi_len' = axi_len /\ m_axi_wvalid' = m_axi_wvalid
      /\ m_axi_wlast' = m_axi_wlast
  BY DEF RBeat
<1>3. in_page + beats_left <= Page /\ in_page \in Nat
  <2>1. in_page \in Nat BY <1>1, DivMod DEF in_page, Numbers
  <2> QED BY <1>2, <2>1 DEF IInv, BurstInPage
<1>4. /\ Positions'
      /\ en = "tx" => fifo_data_len' = IF fifo_free_len = 0
                                       THEN fifo_data_len
                                       ELSE fifo_data_len + 1
  <2>1. CASE en = "tx"
    <3>1. Push BY <2>1 DEF RBeat
    <3> QED BY <1>1, <3>1, PushLength DEF Numbers
  <2>2. CASE en # "tx"
    BY <1>1, <2>2 DEF RBeat, fifoVars, Numbers, Positions
  <2> QED BY <2>1, <2>2
<1>5. CASE m_axi_wcnt = axi_len
  <2>1. m_axi_cyc' = FALSE /\ m_axi_wcnt' = m_axi_wcnt
    BY <1>5 DEF RBeat
  <2>2. Numbers' BY <1>1, <1>2, <1>4, <2>1, NextAdrInPage DEF Numbers
  <2>3. Flags' BY <1>1, <1>2, <2>1 DEF Flags
  <2>4. TypeOK' BY <2>2, <2>3 DEF TypeOK, Numbers, Flags, Positions
  <2> QED BY <1>2, <2>1, <2>4
         DEF IInv, Modes, BurstInPage, BurstCovered, LastBeatMarked
<1>6. CASE m_axi_wcnt # axi_len
  <2>1. m_axi_cyc' = m_axi_cyc /\ m_axi_wcnt' = m_axi_wcnt + 1
    BY <1>6 DEF RBeat
  <2>2. m_axi_wcnt + 1 \in 0 .. axi_len BY <1>1, <1>6 DEF Numbers
  <2>3. Numbers' BY <1>1, <1>2, <1>4, <2>1, <2>2, NextAdrInPage DEF Numbers
  <2>4. Flags' BY <1>1, <1>2, <2>1 DEF Flags
  <2>5. TypeOK' BY <2>3, <2>4 DEF TypeOK, Numbers, Flags, Positions
  <2>6. beats_left \in Nat /\ beats_left >= 2 /\ beats_left' = beats_left - 1
    BY <1>1, <1>2, <2>1, <2>2 DEF Numbers, beats_left
  <2>7. in_page' = in_page + 1 BY <1>1, <1>2, <1>3, <2>6, NextAdrInPage
  <2>8. BurstInPage' BY <1>3, <2>6, <2>7 DEF BurstInPage
  <2>9. BurstCovered'
    <3>1. ASSUME en = "tx" PROVE beats_left' <= fifo_free_len'
      <4>1. beats_left <= fifo_free_len
        BY <1>2, <3>1 DEF IInv, BurstCovered
      <4>2. /\ fifo_data_len \in 0 .. Fifo - 1
            /\ fifo_free_len = Fifo - 1 - fifo_data_len
        BY <1>1, Lengths DEF Numbers
      <4>3. fifo_free_len' = Fifo - 1 - fifo_data_len'
        BY <1>4, LengthsNext
      <4> QED BY <1>4, <2>6, <3>1, <4>1, <4>2, <4>3
    <3> QED BY <1>2, <3>1 DEF BurstCovered
  <2>10. Modes' BY <1>2, <2>1 DEF IInv, Modes
  <2>11. LastBeatMarked' BY <1>2 DEF LastBeatMarked
  <2> QED BY <2>5, <2>8, <2>9, <2>10, <2>11 DEF IInv
<1> QED BY <1>5, <1>6

LEMMA StutterInv == ASSUME IInv, UNCHANGED vars PROVE IInv'
BY DEF IInv, vars, fifoVars, TypeOK, Modes, BurstInPage, BurstCovered,
       LastBeatMarked, in_page, beats_left, fifo_data_len, fifo_free_len,
       fifo_inp_nxt

LEMMA Inductive == IInv /\ [Next]_vars => IInv'
BY EnableInv, DisableInv, HostPortInv, BurstInv, WBeatInv, RBeatInv,
   StutterInv
   DEF Next

LEMMA Invariance == Spec => []IInv
BY InitInv, Inductive, PTL DEF Spec

-----------------------------------------------------------------------------
\* The registers of the AXI master keep their types: a beat counter never
\* runs past the length of its burst (axi_sdc_controller.v).
THEOREM TypeCorrect == Spec => []TypeOK
<1>1. IInv => TypeOK BY DEF IInv
<1> QED BY <1>1, Invariance, PTL

\* "AXI burst cannot cross a 4KB boundary", whatever the DMA address, the
\* fill of the FIFO and their sizes.
THEOREM BurstsInPage == Spec => []BurstInPage
<1>1. IInv => BurstInPage BY DEF IInv
<1> QED BY <1>1, Invariance, PTL

\* No burst outruns the FIFO: a write burst never sends a word that is not
\* there, a read burst never brings one that does not fit.
THEOREM BurstsCovered == Spec => []BurstCovered
<1>1. IInv => BurstCovered BY DEF IInv
<1> QED BY <1>1, Invariance, PTL

\* m_axi_wlast is right on every beat of a write burst.
THEOREM LastBeatsMarked == Spec => []LastBeatMarked
<1>1. IInv => LastBeatMarked BY DEF IInv
<1> QED BY <1>1, Invariance, PTL

\* The 4KB rule costs no more than it must: every burst takes all there is,
\* or ends with the page, or has every beat AXI can express.
THEOREM BurstsMaximal == Spec => BurstMaximal
<1> DEFINE Longest == m_axi_cyc' /\ ~m_axi_cyc =>
             \/ axi_len' + 1 = IF en = "rx" THEN fifo_data_len
                                            ELSE fifo_free_len
             \/ in_page + axi_len' + 1 = Page
             \/ axi_len' = Cap - 1
<1>1. IInv /\ [Next]_vars => Longest
  <2> SUFFICES ASSUME IInv, [Next]_vars, m_axi_cyc', ~m_axi_cyc
               PROVE  Longest
    OBVIOUS
  <2>1. Burst
    BY DEF Next, vars, Enable, Disable, HostPort, WBeat, RBeat
  <2>2. Numbers BY TypeParts DEF IInv
  <2>3. CASE en = "rx"
    <3>1. fifo_data_len \in 1 .. Fifo - 1 BY <2>1, <2>3, BurstAmount
    <3>2. axi_len' = axlen(fifo_data_len) BY <2>1, <2>3 DEF Burst
    <3> QED BY <2>2, <2>3, <3>1, <3>2, BurstStart
  <2>4. CASE en # "rx"
    <3>1. fifo_free_len \in 1 .. Fifo - 1 BY <2>1, <2>4, BurstAmount
    <3>2. axi_len' = axlen(fifo_free_len) BY <2>1, <2>4 DEF Burst
    <3> QED BY <2>2, <2>4, <3>1, <3>2, BurstStart
  <2> QED BY <2>3, <2>4
<1>2. IInv /\ [Next]_vars => [Longest]_vars BY <1>1
<1> QED BY <1>2, Invariance, PTL DEF Spec, BurstMaximal
=============================================================================
