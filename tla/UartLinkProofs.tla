--------------------------- MODULE UartLinkProofs ---------------------------
(***************************************************************************)
(* The serial link is a channel: for every size of the FIFO, every number  *)
(* of bits, every clock divider from five on and every phase between the   *)
(* two ends, the bytes that are read are those that were written, in their *)
(* order, however slowly they are read.                                    *)
(*                                                                         *)
(* Phases says where the receiver is while a byte is on the wire: as many  *)
(* clocks behind the transmitter as the middle of a bit is after its edge. *)
(* So each bit is sampled while it is on the wire (Wire, Sampling), and    *)
(* the byte enters the FIFO before the transmitter looks at RTSn the last  *)
(* time before the next one, late enough to see it (Room).                 *)
(***************************************************************************)
EXTENDS UartLink, SequenceTheorems, TLAPS

TypeOK ==
  /\ tx_buf \in Seq(Byte) /\ rx_buf \in Seq(Byte) /\ Len(rx_buf) < Slots
  /\ xon_xoff_inp \in Urgent \cup {NUL} /\ xon_xoff_out \in Urgent \cup {NUL}
  /\ tx_state \in IDLE .. LAST /\ tx_phase \in 0 .. PhaseMax
  /\ tx_rg \in Byte /\ rx_rg \in Byte /\ TxD \in {0, 1}
  /\ next \in 1 .. Len(Data) /\ coming \in BOOLEAN /\ got \in BOOLEAN

\* The receiver takes the bit before the one that is on the wire, or, after the
\* middle of it, that one.
Before == IF tx_state = IDLE THEN LAST ELSE tx_state - 1

\* The phase of the transmitter at which the receiver samples.
Middle == PhaseMax - PHASE_RXC

Phases ==
  IF ~coming
  THEN tx_state = IDLE /\ rx_state = IDLE /\ rx_phase \in {0, PHASE_RXC}
  ELSE IF tx_phase <= Middle
       THEN rx_state = Before /\ rx_phase = tx_phase + PHASE_RXC
       ELSE /\ tx_state # IDLE /\ rx_state = tx_state
            /\ rx_phase = tx_phase - Middle - 1

Wire == TxD = IF tx_state = IDLE THEN 1
              ELSE IF tx_state = START THEN 0 ELSE tx_rg[tx_state - 2]

Sampling ==
  coming => \A i \in 0 .. Bits - 1 : i + 2 <= rx_state => rx_rg[i] = tx_rg[i]

\* A byte on the wire has its place, and so has one that may start.  RTSn is a
\* clock late, when the transmitter is not yet at its tick.
Room ==
  /\ coming => Len(rx_buf) <= Slots - 2
  /\ ~coming /\ RTSn = 0 => Len(rx_buf) <= Slots - 2 \/ tx_phase = Middle + 1

IInv == TypeOK /\ Phases /\ Wire /\ Sampling /\ Room

-----------------------------------------------------------------------------
(* The phases.                                                             *)

LEMMA Half ==
  /\ PHASE_RXC \in Nat /\ Middle \in Nat /\ PhaseMax \in Nat /\ Bits \in Nat
  /\ PHASE_RXC >= 2 /\ PHASE_RXC <= Middle /\ Middle + PHASE_RXC = PhaseMax
  /\ Bits >= 1 /\ Slots \in Nat /\ Slots >= 2
BY LinkAssumption DEF PHASE_RXC, Middle

LEMMA Bytes ==
  /\ NUL \in Byte /\ Urgent \subseteq Byte /\ NUL \notin Urgent
  /\ Data \in Seq(Byte) /\ Len(Data) \in Nat \ {0}
  /\ \A i \in 1 .. Len(Data) : Data[i] \in Byte
<1>1. NUL \in Byte BY DEF NUL, Byte
<1>2. Urgent \subseteq Byte /\ NUL \notin Urgent BY LinkAssumption
<1>3. Data \in Seq(Byte \ Urgent) /\ Data # <<>> BY LinkAssumption
<1>4. Data \in Seq(Byte) BY <1>3, SeqMonotonic
<1>5. Len(Data) \in Nat \ {0} BY <1>3, EmptySeq
<1>6. \A i \in 1 .. Len(Data) : Data[i] \in Byte BY <1>4, ElementOfSeq
<1> QED BY <1>1, <1>2, <1>4, <1>5, <1>6

\* What a clock does to the transmitter, by what is on the wire.
LEMMA TxMoves ==
  ASSUME IInv, Transmit
  PROVE  /\ tx_phase' = IF TxTick THEN 0 ELSE tx_phase + 1
         /\ tx_rg' \in Byte /\ xon_xoff_out' \in Urgent \cup {NUL}
         /\ coming => tx_rg' = tx_rg /\ ~TxPops
         /\ ~TxTick => tx_state' = tx_state /\ tx_rg' = tx_rg /\ TxD' = TxD
         /\ TxTick /\ coming => /\ tx_state \in START .. LAST
                                /\ tx_state' = IF tx_state = LAST THEN IDLE
                                               ELSE tx_state + 1
                                /\ TxD' = IF tx_state = LAST THEN 1
                                          ELSE tx_rg[tx_state - 1]
         /\ ~coming => \/ tx_state' = IDLE /\ TxD' = 1 /\ tx_rg' = tx_rg
                       \/ tx_state' = START /\ TxD' = 0 /\ TxTick /\ RTSn = 0
<1> USE DEF IDLE, START, LAST
<1>0. /\ tx_state \in 0 .. Bits + 1 /\ tx_phase \in 0 .. PhaseMax
      /\ tx_rg \in Byte /\ xon_xoff_inp \in Urgent \cup {NUL}
      /\ xon_xoff_out \in Urgent \cup {NUL} /\ coming \in BOOLEAN
      /\ tx_buf \in Seq(Byte)
  BY DEF IInv, TypeOK
<1>1. ~coming => tx_state = IDLE /\ TxD = 1 BY DEF IInv, Phases, Wire
<1>2. coming /\ TxTick => tx_state # IDLE
  BY Half DEF IInv, Phases, TxTick
<1>3. CASE TxBetween
  BY <1>0, <1>1, <1>3 DEF TxBetween, TxTick, TxPops
<1>4. CASE TxIdle
  BY <1>0, <1>1, <1>2, <1>4 DEF TxIdle, Sampled, TxTick
<1>5. CASE TxUrgent
  BY <1>0, <1>1, <1>2, <1>5, Bytes
  DEF TxUrgent, Sampled, TxTick, StartBit, Clear
<1>6. CASE TxByte
  <2>1. Head(tx_buf) \in Byte
    BY <1>0, <1>6, HeadTailProperties DEF TxByte, TxPops
  <2> QED BY <1>0, <1>1, <1>2, <1>6, <2>1
          DEF TxByte, TxPops, Sampled, TxTick, StartBit, Clear
<1>7. CASE TxBit
  <2>1. coming /\ ~TxPops /\ tx_state # LAST
    BY <1>0, <1>1, <1>7, Half DEF TxBit, TxPops
  <2> QED BY <1>0, <1>7, <2>1, Half DEF TxBit, Sampled, TxTick
<1>8. CASE TxStopBit
  <2>1. coming /\ ~TxPops /\ tx_state = LAST
    BY <1>0, <1>1, <1>8, Half DEF TxStopBit, TxPops
  <2> QED BY <1>0, <1>8, <2>1, Half DEF TxStopBit, Sampled, TxTick
<1> QED BY <1>3, <1>4, <1>5, <1>6, <1>7, <1>8 DEF Transmit

\* And to the receiver.
LEMMA RxMoves ==
  ASSUME IInv, Receive
  PROVE  /\ ~coming => /\ rx_phase' = PHASE_RXC /\ rx_state' = IDLE
                       /\ rx_rg' = rx_rg /\ ~RxPushes
         /\ coming /\ tx_phase # Middle =>
              /\ rx_phase' = rx_phase + 1 /\ rx_state' = rx_state
              /\ rx_rg' = rx_rg /\ ~RxPushes
         /\ coming /\ tx_phase = Middle =>
              /\ rx_phase' = 0
              /\ rx_state' = tx_state
              /\ RxPushes <=> tx_state = IDLE
              /\ rx_rg' = IF tx_state \in START + 1 .. LAST
                          THEN [rx_rg EXCEPT ![tx_state - 2] = tx_rg[tx_state - 2]]
                          ELSE rx_rg
<1> USE DEF IDLE, START, LAST
<1>0. /\ tx_state \in 0 .. Bits + 1 /\ tx_phase \in 0 .. PhaseMax
      /\ TxD = IF tx_state = 0 THEN 1
               ELSE IF tx_state = 1 THEN 0 ELSE tx_rg[tx_state - 2]
  BY DEF IInv, TypeOK, Wire
<1>1. CASE ~coming
  <2>1. TxD = 1 /\ rx_state = IDLE /\ ~RxTick
    BY <1>0, <1>1, Half DEF IInv, Phases, RxTick
  <2> QED BY <1>1, <2>1, Half
          DEF Receive, RxBetween, RxIdle, RxBit, RxPush, RxPushes
<1>2. CASE coming /\ tx_phase # Middle
  <2>1. ~RxTick /\ rx_phase \in Nat
    BY <1>0, <1>2, Half DEF IInv, Phases, RxTick
  <2>2. rx_state = IDLE => TxD = 0
    BY <1>0, <1>2, Half DEF IInv, Phases, Before
  <2>3. RxBetween
    BY <2>1 DEF Receive, RxIdle, RxBit, RxPush, RxPushes
  <2> QED BY <1>2, <2>1, <2>2, <2>3 DEF RxBetween, RxPushes
<1>3. CASE coming /\ tx_phase = Middle
  <2>1. RxTick /\ rx_state = Before
    BY <1>0, <1>3, Half DEF IInv, Phases, RxTick
  <2>2. CASE tx_state = IDLE
    <3>1. rx_state = LAST /\ RxPush
      BY <2>1, <2>2, Half
      DEF Before, Receive, RxBetween, RxIdle, RxBit, RxPush
    <3> QED BY <1>3, <2>2, <3>1, Half DEF RxPush
  <2>3. CASE tx_state = START
    <3>1. rx_state = IDLE /\ RxIdle /\ TxD = 0
      BY <1>0, <2>1, <2>3, Half
      DEF Before, Receive, RxBetween, RxBit, RxPush, RxPushes
    <3> QED BY <1>3, <2>3, <3>1, Half DEF RxIdle, RxPushes
  <2>4. CASE tx_state \in START + 1 .. LAST
    <3>1. /\ rx_state = tx_state - 1 /\ rx_state \in START .. Bits
          /\ TxD = tx_rg[tx_state - 2]
      BY <1>0, <2>1, <2>4, Half DEF Before
    <3>2. RxBit
      BY <2>1, <3>1, Half
      DEF Receive, RxBetween, RxIdle, RxPush, RxPushes
    <3>3. rx_state - START = tx_state - 2 /\ rx_state + 1 = tx_state
      BY <2>4, <3>1, Half
    <3>4. rx_rg' = [rx_rg EXCEPT ![tx_state - 2] = tx_rg[tx_state - 2]]
          /\ rx_state' = tx_state /\ rx_phase' = 0
      BY <3>1, <3>2, <3>3 DEF RxBit
    <3>5. ~RxPushes /\ tx_state # IDLE BY <2>4, <3>1, Half DEF RxPushes
    <3> QED BY <1>3, <2>4, <3>4, <3>5
  <2> QED BY <1>0, <2>2, <2>3, <2>4, Half
<1> QED BY <1>0, <1>1, <1>2, <1>3 DEF IInv, TypeOK

\* A byte is on the wire from its start bit to the middle of its stop bit.
LEMMA Coming ==
  ASSUME IInv, Clock
  PROVE  /\ coming /\ ~(tx_phase = Middle /\ tx_state = IDLE) => coming'
         /\ coming /\ tx_phase = Middle /\ tx_state = IDLE => ~coming'
         /\ ~coming => (coming' <=> tx_state' = START)
         /\ coming' \in BOOLEAN
<1>1. coming' = (Launch \/ (coming /\ ~RxPushes)) /\ Receive
  BY Zenon DEF Clock, History
<1>2. coming => ~Launch
  <2>1. coming /\ TxTick => tx_state # IDLE
    BY Half DEF IInv, Phases, TxTick
  <2>2. ~TxTick => tx_state' = tx_state BY TxMoves DEF Clock
  <2> QED BY <2>1, <2>2 DEF Launch, IDLE, START
<1>3. coming => (RxPushes <=> tx_phase = Middle /\ tx_state = IDLE)
  BY <1>1, RxMoves
<1>4. ~coming => (Launch <=> tx_state' = START)
  BY DEF IInv, Phases, Launch
<1>5. coming' \in BOOLEAN BY Zenon, <1>1
<1> QED BY Zenon, <1>1, <1>2, <1>3, <1>4, <1>5

LEMMA PhasesKept == ASSUME IInv, Clock PROVE Phases' /\ Wire'
<1> USE DEF IDLE, START, LAST
<1>0. /\ tx_state \in 0 .. Bits + 1 /\ tx_phase \in 0 .. PhaseMax
      /\ Phases /\ Wire /\ Transmit /\ Receive
      /\ Middle' = Middle /\ PHASE_RXC' = PHASE_RXC
  BY DEF IInv, TypeOK, Clock, Middle, PHASE_RXC
<1>1. CASE ~coming
  <2>1. CASE tx_state' = IDLE /\ TxD' = 1
    <3>1. ~coming' BY <1>1, <2>1, Coming
    <3> QED BY <1>0, <1>1, <2>1, <3>1, RxMoves DEF Phases, Wire
  <2>2. CASE tx_state' = START /\ TxD' = 0 /\ TxTick
    <3>1. coming' BY <1>1, <2>2, Coming
    <3>2. tx_phase' = 0 BY <1>0, <2>2, TxMoves
    <3>3. rx_state' = IDLE /\ rx_phase' = PHASE_RXC BY <1>0, <1>1, RxMoves
    <3> QED BY <1>0, <2>2, <3>1, <3>2, <3>3, Half DEF Phases, Wire, Before
  <2> QED BY <1>0, <1>1, <2>1, <2>2, TxMoves
<1>2. CASE coming /\ tx_phase < Middle
  <2>1. coming' BY <1>2, Coming, Half
  <2>2. ~TxTick BY <1>0, <1>2, Half DEF TxTick
  <2>3. /\ tx_phase' = tx_phase + 1 /\ tx_state' = tx_state
        /\ tx_rg' = tx_rg /\ TxD' = TxD
    BY <1>0, <2>2, TxMoves
  <2>4. rx_phase' = rx_phase + 1 /\ rx_state' = rx_state
    BY <1>0, <1>2, RxMoves, Half
  <2> QED BY <1>0, <1>2, <2>1, <2>3, <2>4, Half DEF Phases, Wire, Before
<1>3. CASE coming /\ tx_phase = Middle
  <2>1. ~TxTick BY <1>0, <1>3, Half DEF TxTick
  <2>2. /\ tx_phase' = tx_phase + 1 /\ tx_state' = tx_state
        /\ tx_rg' = tx_rg /\ TxD' = TxD
    BY <1>0, <2>1, TxMoves
  <2>3. rx_phase' = 0 /\ rx_state' = tx_state BY <1>0, <1>3, RxMoves
  <2>4. coming' <=> tx_state # IDLE BY <1>3, Coming
  <2> QED BY <1>0, <1>3, <2>2, <2>3, <2>4, Half DEF Phases, Wire
<1>4. CASE coming /\ tx_phase > Middle
  <2>1. coming' BY <1>0, <1>4, Coming, Half
  <2>2. rx_phase' = rx_phase + 1 /\ rx_state' = rx_state
    BY <1>0, <1>4, RxMoves, Half
  <2>3. CASE ~TxTick
    <3>1. /\ tx_phase' = tx_phase + 1 /\ tx_state' = tx_state
          /\ tx_rg' = tx_rg /\ TxD' = TxD
      BY <1>0, <2>3, TxMoves
    <3> QED BY <1>0, <1>4, <2>1, <2>2, <3>1, Half DEF Phases, Wire
  <2>4. CASE TxTick
    <3>1. /\ tx_phase' = 0 /\ tx_state \in START .. LAST /\ tx_rg' = tx_rg
          /\ tx_state' = IF tx_state = LAST THEN IDLE ELSE tx_state + 1
          /\ TxD' = IF tx_state = LAST THEN 1 ELSE tx_rg[tx_state - 1]
      BY <1>0, <1>4, <2>4, TxMoves
    <3>2. rx_state = tx_state /\ rx_phase = PHASE_RXC - 1
      BY <1>0, <1>4, <2>4, Half DEF Phases, TxTick
    <3>3. Phases'
      BY <1>0, <2>1, <2>2, <3>1, <3>2, Half DEF Phases, Before
    <3>4. Wire' BY <3>1, Half DEF Wire
    <3> QED BY <3>3, <3>4
  <2> QED BY <2>3, <2>4
<1> QED BY <1>0, <1>1, <1>2, <1>3, <1>4, Half DEF IInv, TypeOK

LEMMA SamplingKept == ASSUME IInv, Clock PROVE Sampling'
<1> USE DEF IDLE, START, LAST
<1>0. /\ tx_state \in 0 .. Bits + 1 /\ tx_phase \in 0 .. PhaseMax
      /\ Phases /\ Wire /\ Transmit /\ Receive /\ rx_rg \in Byte
  BY DEF IInv, TypeOK, Clock
<1> SUFFICES ASSUME coming', NEW i \in 0 .. Bits - 1, i + 2 <= rx_state'
             PROVE  rx_rg'[i] = tx_rg'[i]
  BY DEF Sampling
<1>1. CASE ~coming
  BY <1>0, <1>1, RxMoves
<1>2. CASE coming /\ tx_phase # Middle
  <2>1. rx_state' = rx_state /\ rx_rg' = rx_rg BY <1>0, <1>2, RxMoves
  <2>2. tx_rg' = tx_rg BY <1>0, <1>2, TxMoves
  <2> QED BY <1>2, <2>1, <2>2 DEF IInv, Sampling
<1>3. CASE coming /\ tx_phase = Middle
  <2>1. /\ rx_state' = tx_state
        /\ rx_rg' = IF tx_state \in START + 1 .. LAST
                    THEN [rx_rg EXCEPT ![tx_state - 2] = tx_rg[tx_state - 2]]
                    ELSE rx_rg
    BY <1>0, <1>3, RxMoves
  <2>2. tx_rg' = tx_rg BY <1>0, <1>3, TxMoves
  <2>3. rx_state = Before BY <1>0, <1>3, Half DEF Phases
  <2>4. tx_state \in START + 1 .. LAST BY <1>0, <2>1, Half
  <2>5. rx_state = tx_state - 1 BY <2>3, <2>4, Half DEF Before
  <2>6. rx_rg' = [rx_rg EXCEPT ![tx_state - 2] = tx_rg[tx_state - 2]]
    BY <2>1, <2>4
  <2>7. CASE i = tx_state - 2
    <3>1. rx_rg'[i] = tx_rg[i] BY <1>0, <2>6, <2>7 DEF Byte
    <3> QED BY <2>2, <3>1
  <2>8. CASE i # tx_state - 2
    <3>1. i + 2 <= rx_state BY <2>1, <2>4, <2>5, <2>8, Half
    <3>2. rx_rg[i] = tx_rg[i] BY <1>3, <3>1 DEF IInv, Sampling
    <3>3. rx_rg'[i] = rx_rg[i] BY <1>0, <2>6, <2>8 DEF Byte
    <3> QED BY <2>2, <3>2, <3>3
  <2> QED BY <2>7, <2>8
<1> QED BY <1>1, <1>2, <1>3

\* The byte that enters the FIFO is the one that was sent.
LEMMA PushesSent == ASSUME IInv, RxPushes, coming PROVE rx_rg = tx_rg
<1>1. \A i \in 0 .. Bits - 1 : rx_rg[i] = tx_rg[i]
  BY Half DEF IInv, Sampling, RxPushes, LAST
<1>2. /\ rx_rg \in [0 .. Bits - 1 -> {0, 1}]
      /\ tx_rg \in [0 .. Bits - 1 -> {0, 1}]
  BY DEF IInv, TypeOK, Byte
<1>3. /\ rx_rg = [i \in 0 .. Bits - 1 |-> rx_rg[i]]
      /\ tx_rg = [i \in 0 .. Bits - 1 |-> tx_rg[i]]
  BY Zenon, <1>2
<1>4. [i \in 0 .. Bits - 1 |-> rx_rg[i]] = [i \in 0 .. Bits - 1 |-> tx_rg[i]]
  BY Zenon, <1>1
<1> QED BY Zenon, <1>3, <1>4

\* What the software leaves of the FIFO, and what is in it after the clock.
Left == IF got' = got THEN rx_buf ELSE Tail(rx_buf)

LEMMA Reads ==
  ASSUME IInv, Clock
  PROVE  /\ Left \in Seq(Byte) /\ Len(Left) <= Len(rx_buf) /\ Len(Left) \in Nat
         /\ got' # got => rx_buf # <<>>
         /\ got' \in BOOLEAN
         /\ rx_buf' = IF RxPushes THEN Append(Left, rx_rg) ELSE Left
         /\ RxPushes => coming /\ Len(Left) <= Slots - 2
<1>0. rx_buf \in Seq(Byte) /\ got \in BOOLEAN /\ Len(rx_buf) \in Nat
      /\ coming \in BOOLEAN
  BY LenProperties DEF IInv, TypeOK
<1>1. ReadByte \/ ReadNothing BY DEF Clock
<1>2. ReadByte => got' # got /\ rx_buf # <<>> /\ got' \in BOOLEAN
  <2>1. ReadByte => got' = ~got /\ rx_buf # <<>> BY Zenon DEF ReadByte
  <2>2. CASE got = TRUE BY Zenon, <2>1, <2>2
  <2>3. CASE got = FALSE BY Zenon, <2>1, <2>3
  <2> QED BY <1>0, <2>2, <2>3
<1>3. rx_buf' = Arrived(Left)
  BY <1>1, <1>2 DEF ReadByte, ReadNothing, Left
<1>4. got' # got => rx_buf # <<>> BY <1>1, <1>2 DEF ReadNothing
<1>5. got' \in BOOLEAN BY <1>0, <1>1, <1>2 DEF ReadNothing
<1>6. Left \in Seq(Byte) /\ Len(Left) <= Len(rx_buf) /\ Len(Left) \in Nat
  BY <1>0, <1>4, HeadTailProperties, LenProperties DEF Left
<1>7. RxPushes => coming BY RxMoves DEF Clock
<1>8. RxPushes => Len(Left) <= Slots - 2
  BY <1>0, <1>6, <1>7, Half DEF IInv, Room
<1>9. RxPushes => Len(Left) # Slots - 1 BY <1>6, <1>8, Half
<1>10. rx_buf' = IF RxPushes THEN Append(Left, rx_rg) ELSE Left
  <2>1. CASE RxPushes BY <1>3, <1>9, <2>1 DEF Arrived
  <2>2. CASE ~RxPushes BY <1>3, <2>2 DEF Arrived
  <2> QED BY <2>1, <2>2
<1> QED BY <1>4, <1>5, <1>6, <1>7, <1>8, <1>10

LEMMA RoomKept == ASSUME IInv, Clock PROVE Room' /\ Len(rx_buf') < Slots
<1>0. /\ Len(rx_buf) \in Nat /\ Len(rx_buf) < Slots /\ coming \in BOOLEAN
      /\ tx_phase \in 0 .. PhaseMax
  BY LenProperties DEF IInv, TypeOK
<1>1. /\ Left \in Seq(Byte) /\ Len(Left) <= Len(rx_buf) /\ Len(Left) \in Nat
      /\ rx_buf' = IF RxPushes THEN Append(Left, rx_rg) ELSE Left
      /\ RxPushes => coming /\ Len(Left) <= Slots - 2
  BY Reads
<1>2. Len(rx_buf') = IF RxPushes THEN Len(Left) + 1 ELSE Len(Left)
  BY <1>1, AppendProperties DEF IInv, TypeOK
<1>3. Len(rx_buf') < Slots BY <1>0, <1>1, <1>2, Half
<1>4. RTSn' = IF rx_full THEN 1 ELSE 0 BY DEF Clock, Receive
<1>5. RTSn' = 0 => Len(rx_buf) <= Slots - 2
  BY <1>0, <1>4, Half DEF rx_full
<1>6. Middle' = Middle BY DEF Middle, PHASE_RXC
<1>7. CASE RxPushes
  <2>1. coming /\ tx_phase = Middle BY <1>1, <1>7, RxMoves DEF Clock
  <2>2. tx_state = IDLE BY <1>7, <2>1, RxMoves DEF Clock
  <2>3. ~coming' BY <2>1, <2>2, Coming
  <2>4. ~TxTick BY <2>1, Half DEF TxTick
  <2>5. tx_phase' = Middle + 1 BY <2>1, <2>4, TxMoves DEF Clock
  <2> QED BY <1>3, <1>6, <2>3, <2>5 DEF Room
<1>8. CASE ~RxPushes
  <2>1. Len(rx_buf') <= Len(rx_buf) /\ Len(rx_buf') \in Nat
    BY <1>0, <1>1, <1>2, <1>8
  <2>2. RTSn' = 0 => Len(rx_buf') <= Slots - 2
    BY <1>0, <1>5, <2>1, Half
  <2>3. CASE coming
    BY <1>0, <1>3, <1>6, <2>1, <2>2, <2>3, Half DEF Room, IInv
  <2>4. CASE ~coming /\ coming'
    <3>1. TxTick /\ RTSn = 0
      BY <2>4, Coming, TxMoves DEF Clock, IDLE, START
    <3>2. tx_phase # Middle + 1 BY <3>1, Half DEF TxTick
    <3>3. Len(rx_buf) <= Slots - 2
      BY <2>4, <3>1, <3>2 DEF IInv, Room
    <3> QED BY <1>0, <1>3, <2>1, <2>4, <3>3, Half DEF Room
  <2>5. CASE ~coming /\ ~coming' BY <1>3, <2>2, <2>5 DEF Room
  <2> QED BY <1>0, <2>3, <2>4, <2>5
<1> QED BY <1>7, <1>8

\* What the software does to the other FIFO.
LEMMA Writes ==
  ASSUME IInv, Clock
  PROVE  /\ Rest \in Seq(Byte)
         /\ xon_xoff_inp' \in Urgent \cup {NUL}
         /\ \/ tx_buf' = Rest /\ next' = next
            \/ /\ tx_buf' = Append(Rest, Data[next])
               /\ next' = (next % Len(Data)) + 1
         /\ next' \in 1 .. Len(Data) /\ Data[next] \in Byte
<1>1. Rest \in Seq(Byte)
  BY HeadTailProperties DEF IInv, TypeOK, Rest, TxPops
<1>2. Data[next] \in Byte BY Bytes DEF IInv, TypeOK
<1>3. (next % Len(Data)) + 1 \in 1 .. Len(Data)
  BY Bytes DEF IInv, TypeOK
<1>4. \/ tx_buf' = Rest /\ next' = next
      \/ /\ tx_buf' = Append(Rest, Data[next])
         /\ next' = (next % Len(Data)) + 1
  BY DEF Clock, Write, WriteNothing, WriteByte, WriteUrgent, WriteControl
<1>5. xon_xoff_inp' \in Urgent \cup {NUL}
  BY DEF Clock, Write, WriteNothing, WriteByte, WriteUrgent, WriteControl,
         IInv, TypeOK
<1>6. next' \in 1 .. Len(Data) BY <1>3, <1>4 DEF IInv, TypeOK
<1> QED BY <1>1, <1>2, <1>4, <1>5, <1>6

LEMMA TypeKept == ASSUME IInv, Clock PROVE TypeOK'
<1>1. tx_buf' \in Seq(Byte) /\ xon_xoff_inp' \in Urgent \cup {NUL}
      /\ next' \in 1 .. Len(Data)
  BY Writes, AppendProperties
<1>2. rx_buf' \in Seq(Byte) /\ got' \in BOOLEAN
  <2>1. rx_rg \in Byte BY DEF IInv, TypeOK
  <2>2. Append(Left, rx_rg) \in Seq(Byte) BY <2>1, Reads, AppendProperties
  <2> QED BY <2>2, Reads
<1>3. Len(rx_buf') < Slots BY RoomKept
<1>4. /\ tx_phase' \in 0 .. PhaseMax /\ tx_rg' \in Byte
      /\ xon_xoff_out' \in Urgent \cup {NUL}
  BY TxMoves, Half DEF Clock, IInv, TypeOK, TxTick
<1>5. tx_state' \in IDLE .. LAST
  BY TxMoves, Half DEF Clock, IInv, TypeOK, Phases, IDLE, START, LAST
<1>6. coming' \in BOOLEAN BY Coming
<1>7. TxD' \in {0, 1}
  <2>1. tx_state - 1 \in 0 .. Bits - 1 => tx_rg[tx_state - 1] \in {0, 1}
    BY DEF IInv, TypeOK, Byte
  <2>2. tx_state \in START .. LAST /\ tx_state # LAST => tx_state - 1 \in 0 .. Bits - 1
    BY Half DEF START, LAST
  <2> QED BY <2>1, <2>2, TxMoves DEF Clock, IInv, TypeOK
<1>8. rx_rg' \in Byte
  <2>1. ASSUME tx_state \in START + 1 .. LAST
        PROVE  [rx_rg EXCEPT ![tx_state - 2] = tx_rg[tx_state - 2]] \in Byte
    <3>1. tx_state - 2 \in 0 .. Bits - 1 BY <2>1, Half DEF START, LAST
    <3>2. rx_rg \in [0 .. Bits - 1 -> {0, 1}]
          /\ tx_rg[tx_state - 2] \in {0, 1}
      BY <3>1 DEF IInv, TypeOK, Byte
    <3> QED BY <3>1, <3>2 DEF Byte
  <2> QED BY <2>1, RxMoves DEF Clock, IInv, TypeOK
<1> QED BY <1>1, <1>2, <1>3, <1>4, <1>5, <1>6, <1>7, <1>8, RoomKept
        DEF TypeOK, Byte, NUL, IDLE, LAST

LEMMA Inductive == IInv /\ [Next]_vars => IInv'
<1> SUFFICES ASSUME IInv, [Next]_vars PROVE IInv' OBVIOUS
<1>1. CASE Next
  <2>1. Clock BY <1>1 DEF Next
  <2> QED BY <2>1, TypeKept, PhasesKept, SamplingKept, RoomKept DEF IInv
<1>2. CASE UNCHANGED vars
  BY <1>2
  DEF vars, txVars, rxVars, IInv, TypeOK, Phases, Wire, Sampling, Room, Before,
      Middle, PHASE_RXC, Byte, NUL, IDLE, START, LAST
<1> QED BY <1>1, <1>2

LEMMA InitIInv == Init => IInv
<1> SUFFICES ASSUME Init PROVE IInv OBVIOUS
<1>1. Len(rx_buf) = 0 BY DEF Init
<1>2. TypeOK
  <2>1. <<>> \in Seq(Byte) BY EmptySeq
  <2>2. 1 \in 1 .. Len(Data) BY Bytes
  <2>3. 0 \in IDLE .. LAST BY Half DEF IDLE, LAST
  <2>4. Len(rx_buf) < Slots BY <1>1, Half
  <2>5. /\ tx_state \in IDLE .. LAST /\ tx_phase \in 0 .. PhaseMax
        /\ next \in 1 .. Len(Data) /\ TxD \in {0, 1}
    BY <2>2, <2>3 DEF Init, IDLE
  <2>6. /\ tx_rg \in Byte /\ rx_rg \in Byte /\ tx_buf \in Seq(Byte)
        /\ rx_buf \in Seq(Byte) /\ xon_xoff_inp \in Urgent \cup {NUL}
        /\ xon_xoff_out \in Urgent \cup {NUL}
    BY <2>1, Bytes DEF Init
  <2>7. coming \in BOOLEAN /\ got \in BOOLEAN BY DEF Init
  <2> QED BY <2>4, <2>5, <2>6, <2>7 DEF TypeOK
<1>3. Phases /\ Wire /\ Sampling
  BY Half DEF Init, Phases, Wire, Sampling
<1>4. Room BY <1>1, Half DEF Init, Room
<1> QED BY <1>2, <1>3, <1>4 DEF IInv

-----------------------------------------------------------------------------
(* The channel.                                                            *)

\* The byte on the wire.
OnWire == IF coming THEN <<tx_rg>> ELSE <<>>

LEMMA TailOfConcat ==
  ASSUME NEW S, NEW a \in Seq(S), NEW b \in Seq(S), a # <<>>
  PROVE  Tail(a \o b) = Tail(a) \o b /\ a \o b # <<>>
<1>1. /\ Len(a) \in Nat \ {0} /\ Len(b) \in Nat
      /\ a \o b \in Seq(S) /\ Len(a \o b) = Len(a) + Len(b)
  BY EmptySeq, LenProperties, ConcatProperties
<1>2. a \o b # <<>> BY <1>1, EmptySeq
<1>3. /\ Tail(a) \in Seq(S) /\ Len(Tail(a)) = Len(a) - 1
      /\ Tail(a \o b) \in Seq(S) /\ Len(Tail(a \o b)) = Len(a) + Len(b) - 1
  BY <1>1, <1>2, HeadTailProperties
<1>4. /\ Tail(a) \o b \in Seq(S)
      /\ Len(Tail(a) \o b) = Len(a) + Len(b) - 1
  BY <1>1, <1>3, ConcatProperties
<1>5. ASSUME NEW i \in 1 .. Len(a) + Len(b) - 1
      PROVE  Tail(a \o b)[i] = (Tail(a) \o b)[i]
  <2>1. Tail(a \o b)[i] = (a \o b)[i + 1]
    BY <1>1, <1>2, <1>3, HeadTailProperties
  <2>2. (a \o b)[i + 1] = IF i + 1 <= Len(a) THEN a[i + 1]
                                             ELSE b[i + 1 - Len(a)]
    <3>1. i + 1 \in 1 .. Len(a) + Len(b) BY <1>1
    <3> QED BY <3>1, ConcatProperties
  <2>3. (Tail(a) \o b)[i] = IF i <= Len(a) - 1 THEN Tail(a)[i]
                                               ELSE b[i - (Len(a) - 1)]
    <3>1. i \in 1 .. Len(Tail(a)) + Len(b) BY <1>1, <1>3
    <3> QED BY <1>3, <3>1, ConcatProperties
  <2>4. CASE i + 1 <= Len(a)
    <3>1. i \in 1 .. Len(Tail(a)) BY <1>1, <1>3, <2>4
    <3>2. Tail(a)[i] = a[i + 1] BY <3>1, HeadTailProperties
    <3> QED BY <1>1, <2>1, <2>2, <2>3, <2>4, <3>2
  <2>5. CASE i + 1 > Len(a)
    <3>1. i + 1 - Len(a) = i - (Len(a) - 1) BY <1>1
    <3> QED BY <1>1, <2>1, <2>2, <2>3, <2>5, <3>1
  <2> QED BY <1>1, <2>4, <2>5
<1> QED BY <1>2, <1>3, <1>4, <1>5, SeqEqual

\* That \o is associative, under a name.
Regroups(a, b, c) == (a \o b) \o c = a \o (b \o c)

LEMMA Regrouping ==
  ASSUME NEW S, NEW a \in Seq(S), NEW b \in Seq(S), NEW c \in Seq(S)
  PROVE  Regroups(a, b, c)
BY ConcatAssociative DEF Regroups

LEMMA HeadThenTail ==
  ASSUME NEW S, NEW s \in Seq(S), s # <<>>
  PROVE  <<Head(s)>> \o Tail(s) = s
<1>1. /\ Head(s) \in S /\ Tail(s) \in Seq(S) /\ Len(Tail(s)) = Len(s) - 1
      /\ \A i \in 1 .. Len(Tail(s)) : Tail(s)[i] = s[i + 1]
  BY HeadTailProperties
<1>2. /\ <<Head(s)>> \in Seq(S) /\ Len(<<Head(s)>>) = 1
      /\ <<Head(s)>>[1] = s[1] /\ Len(s) \in Nat \ {0}
  BY <1>1, EmptySeq, LenProperties
<1>3. /\ <<Head(s)>> \o Tail(s) \in Seq(S)
      /\ Len(<<Head(s)>> \o Tail(s)) = Len(s)
      /\ \A i \in 1 .. Len(s) :
           (<<Head(s)>> \o Tail(s))[i] = IF i <= 1 THEN <<Head(s)>>[i]
                                         ELSE Tail(s)[i - 1]
  BY <1>1, <1>2, ConcatProperties
<1>4. ASSUME NEW i \in 1 .. Len(s) PROVE (<<Head(s)>> \o Tail(s))[i] = s[i]
  <2>1. CASE i = 1 BY <1>2, <1>3, <2>1
  <2>2. CASE i > 1
    <3>1. i - 1 \in 1 .. Len(Tail(s)) BY <1>1, <1>2, <2>2
    <3>2. Tail(s)[i - 1] = s[i] BY <1>1, <3>1
    <3> QED BY <1>3, <2>2, <3>2
  <2> QED BY <1>2, <2>1, <2>2
<1> QED BY <1>3, <1>4, SeqEqual

\* A sequence of two parts can be taken apart again.
Cut(a, b, ab) ==
  /\ Len(a) \in 0 .. Len(ab)
  /\ SubSeq(ab, 1, Len(a)) = a
  /\ SubSeq(ab, Len(a) + 1, Len(ab)) = b

LEMMA Parts ==
  ASSUME NEW S, NEW a \in Seq(S), NEW b \in Seq(S)
  PROVE  Cut(a, b, a \o b)
<1>1. /\ Len(a) \in Nat /\ Len(b) \in Nat /\ a \o b \in Seq(S)
      /\ Len(a \o b) = Len(a) + Len(b)
      /\ \A i \in 1 .. Len(a) + Len(b) :
           (a \o b)[i] = IF i <= Len(a) THEN a[i] ELSE b[i - Len(a)]
  BY LenProperties, ConcatProperties
<1>2. \A i \in 1 .. Len(a) + Len(b) : (a \o b)[i] \in S
  BY <1>1, ElementOfSeq
<1>3. SubSeq(a \o b, 1, Len(a)) = a
  <2>1. /\ SubSeq(a \o b, 1, Len(a)) \in Seq(S)
        /\ Len(SubSeq(a \o b, 1, Len(a))) = IF 1 <= Len(a) THEN Len(a) - 1 + 1
                                                           ELSE 0
        /\ \A i \in 1 .. Len(a) - 1 + 1 :
             SubSeq(a \o b, 1, Len(a))[i] = (a \o b)[1 + i - 1]
    BY <1>1, <1>2, SubSeqProperties
  <2>2. Len(SubSeq(a \o b, 1, Len(a))) = Len(a) BY <1>1, <2>1
  <2>3. \A i \in 1 .. Len(a) : SubSeq(a \o b, 1, Len(a))[i] = a[i]
    BY <1>1, <2>1
  <2> QED BY <2>1, <2>2, <2>3, SeqEqual
<1>4. SubSeq(a \o b, Len(a) + 1, Len(a) + Len(b)) = b
  <2> DEFINE c == SubSeq(a \o b, Len(a) + 1, Len(a) + Len(b))
             m == Len(a) + 1
             n == Len(a) + Len(b)
  <2>1. m \in Int /\ n \in Int /\ \A i \in m .. n : (a \o b)[i] \in S
    BY <1>1, <1>2
  <2>2. /\ c \in Seq(S)
        /\ Len(c) = IF m <= n THEN n - m + 1 ELSE 0
        /\ \A i \in 1 .. n - m + 1 : c[i] = (a \o b)[m + i - 1]
    BY <2>1, SubSeqProperties
  <2>3. Len(c) = Len(b) BY <1>1, <2>2
  <2>4. ASSUME NEW i \in 1 .. Len(b) PROVE c[i] = b[i]
    <3>1. c[i] = (a \o b)[Len(a) + i] BY <1>1, <2>2
    <3>2. (a \o b)[Len(a) + i] = b[i] BY <1>1
    <3> QED BY <3>1, <3>2
  <2> QED BY <2>2, <2>3, <2>4, SeqEqual
<1> QED BY <1>1, <1>3, <1>4 DEF Cut

\* What is left after a byte was taken.
LEMMA WayLeft ==
  ASSUME IInv, Clock
  PROVE  /\ OnWire \in Seq(Byte) /\ tx_buf \in Seq(Byte)
         /\ rx_buf \o OnWire \in Seq(Byte)
         /\ Left \o OnWire \in Seq(Byte)
         /\ got' # got =>
              /\ rx_buf \o OnWire \o tx_buf # <<>>
              /\ Tail(rx_buf \o OnWire \o tx_buf) = Left \o OnWire \o tx_buf
         /\ got' = got =>
              rx_buf \o OnWire \o tx_buf = Left \o OnWire \o tx_buf
<1>0. /\ rx_buf \in Seq(Byte) /\ tx_buf \in Seq(Byte) /\ tx_rg \in Byte
      /\ Left \in Seq(Byte)
  BY Reads DEF IInv, TypeOK
<1>1. OnWire \in Seq(Byte)
  <2>1. <<tx_rg>> \in Seq(Byte) BY <1>0
  <2> QED BY <2>1, EmptySeq DEF OnWire
<1>2. rx_buf \o OnWire \in Seq(Byte) /\ Left \o OnWire \in Seq(Byte)
  BY <1>0, <1>1, ConcatProperties
<1>3. ASSUME got' # got
      PROVE  /\ rx_buf \o OnWire \o tx_buf # <<>>
             /\ Tail(rx_buf \o OnWire \o tx_buf) = Left \o OnWire \o tx_buf
  <2>1. rx_buf # <<>> /\ Left = Tail(rx_buf) BY <1>3, Reads DEF Left
  <2>2. rx_buf \o OnWire # <<>>
        /\ Tail(rx_buf \o OnWire) = Tail(rx_buf) \o OnWire
    BY <1>0, <1>1, <2>1, TailOfConcat
  <2>3. /\ rx_buf \o OnWire \o tx_buf # <<>>
        /\ Tail(rx_buf \o OnWire \o tx_buf) = Tail(rx_buf \o OnWire) \o tx_buf
    BY <1>0, <1>2, <2>2, TailOfConcat
  <2> QED BY <2>1, <2>2, <2>3
<1> QED BY <1>0, <1>1, <1>2, <1>3 DEF Left

\* The bytes that are put, and the step of the channel that puts them and lets
\* others in ahead of them.
Put == IF tx_buf' = Rest /\ next' = next THEN <<>> ELSE <<Data[next]>>

LEMMA PutFacts ==
  ASSUME IInv, Clock
  PROVE  /\ tx_buf' = Rest \o Put /\ Put \in Seq(Byte)
         /\ \E put \in BOOLEAN :
              /\ next' = IF put THEN (next % Len(Data)) + 1 ELSE next
              /\ Put = IF put THEN <<Data[next]>> ELSE <<>>
<1>1. /\ Rest \in Seq(Byte) /\ Data[next] \in Byte
      /\ \/ tx_buf' = Rest /\ next' = next
         \/ /\ tx_buf' = Append(Rest, Data[next])
            /\ next' = (next % Len(Data)) + 1
  BY Writes
<1>2. <<Data[next]>> \in Seq(Byte) BY <1>1
<1>3. CASE tx_buf' = Rest /\ next' = next
  BY <1>1, <1>3, EmptySeq, ConcatEmptySeq DEF Put
<1>4. CASE ~(tx_buf' = Rest /\ next' = next)
  BY <1>1, <1>2, <1>4, AppendIsConcat DEF Put
<1> QED BY <1>3, <1>4

LEMMA ChannelStep ==
  ASSUME IInv, Clock,
         NEW ahead \in {<<>>} \cup {<<u>> : u \in Urgent},
         NEW k \in 0 .. Len(Left \o OnWire \o tx_buf),
         (rx_buf \o OnWire \o tx_buf)' =
           SubSeq(Left \o OnWire \o tx_buf, 1, k) \o ahead
             \o SubSeq(Left \o OnWire \o tx_buf, k + 1,
                       Len(Left \o OnWire \o tx_buf))
             \o Put
  PROVE  Channel!BNext
<1>1. PICK put \in BOOLEAN :
        /\ next' = IF put THEN (next % Len(Data)) + 1 ELSE next
        /\ Put = IF put THEN <<Data[next]>> ELSE <<>>
  BY PutFacts
<1>2. PICK take \in BOOLEAN : take <=> got' # got
  OBVIOUS
<1>3. got' = IF take THEN ~got ELSE got
  BY <1>2, Reads DEF IInv, TypeOK
<1>4. /\ take => rx_buf \o OnWire \o tx_buf # <<>>
      /\ (IF take THEN Tail(rx_buf \o OnWire \o tx_buf)
          ELSE rx_buf \o OnWire \o tx_buf) = Left \o OnWire \o tx_buf
  BY <1>2, WayLeft
<1> DEFINE chan == rx_buf \o (IF coming THEN <<tx_rg>> ELSE <<>>) \o tx_buf
           left == IF take THEN Tail(chan) ELSE chan
<1>5. left = Left \o OnWire \o tx_buf BY <1>4 DEF OnWire
<1>6. k \in 0 .. Len(left) BY <1>5
<1>7. chan' = SubSeq(left, 1, k) \o ahead \o SubSeq(left, k + 1, Len(left))
                \o (IF put THEN <<Data[next]>> ELSE <<>>)
  BY <1>1, <1>5 DEF OnWire
<1>8. take => chan # <<>> BY <1>4 DEF OnWire
<1> HIDE DEF left
<1>9. /\ take => chan # <<>>
      /\ got' = IF take THEN ~got ELSE got
      /\ next' = IF put THEN (next % Len(Data)) + 1 ELSE next
      /\ \E j \in 0 .. Len(left) :
           chan' = SubSeq(left, 1, j) \o ahead \o SubSeq(left, j + 1, Len(left))
                     \o (IF put THEN <<Data[next]>> ELSE <<>>)
  BY Zenon, <1>1, <1>3, <1>6, <1>7, <1>8
<1> QED BY ZenonT(60), <1>9 DEF Channel!BNext, left

\* What is on its way is taken apart for a byte to squeeze in.
LEMMA PartsStep ==
  ASSUME IInv, Clock,
         NEW ahead \in {<<>>} \cup {<<u>> : u \in Urgent},
         NEW a \in Seq(Byte), NEW b \in Seq(Byte),
         a \o b = Left \o OnWire \o tx_buf,
         (rx_buf \o OnWire \o tx_buf)' = a \o ahead \o b \o Put
  PROVE  Channel!BNext
<1> DEFINE way == Left \o OnWire \o tx_buf
<1>1. /\ Len(a) \in 0 .. Len(way)
      /\ SubSeq(way, 1, Len(a)) = a
      /\ SubSeq(way, Len(a) + 1, Len(way)) = b
  <2>1. Cut(a, b, a \o b) BY Parts
  <2> QED BY <2>1 DEF Cut
<1>2. (rx_buf \o OnWire \o tx_buf)' =
        SubSeq(way, 1, Len(a)) \o ahead \o SubSeq(way, Len(a) + 1, Len(way)) \o Put
  BY <1>1
<1> QED BY <1>1, <1>2, ChannelStep

\* The byte on the wire enters the FIFO, stays on the wire, or there is none.
LEMMA Arrives ==
  ASSUME IInv, Clock, ~Launch
  PROVE  Rest = tx_buf /\ rx_buf' \o OnWire' = Left \o OnWire
<1>0. /\ coming' = (coming /\ ~RxPushes) /\ Transmit /\ Receive
      /\ Left \in Seq(Byte) /\ (RxPushes => coming)
      /\ rx_buf' = IF RxPushes THEN Append(Left, rx_rg) ELSE Left
      /\ tx_rg \in Byte /\ coming \in BOOLEAN
  BY Reads DEF Clock, History, IInv, TypeOK
<1>1. ~TxPops
  BY <1>0, Half
  DEF Transmit, TxBetween, TxIdle, TxUrgent, TxByte, TxBit, TxStopBit, TxPops,
      StartBit, Launch, IDLE, START, LAST
<1>2. Rest = tx_buf BY <1>1 DEF Rest
<1>3. CASE RxPushes
  <2>1. OnWire' = <<>> /\ OnWire = <<tx_rg>> BY <1>0, <1>3 DEF OnWire
  <2>2. rx_buf' = Append(Left, tx_rg) BY <1>0, <1>3, PushesSent
  <2>3. rx_buf' = Left \o <<tx_rg>> /\ rx_buf' \in Seq(Byte)
    BY <1>0, <2>2, AppendIsConcat, AppendProperties
  <2>4. rx_buf' \o <<>> = rx_buf' BY <2>3, ConcatEmptySeq
  <2> QED BY <1>2, <2>1, <2>3, <2>4
<1>4. CASE ~RxPushes
  <2>1. coming' = coming /\ rx_buf' = Left BY <1>0, <1>4
  <2>2. coming => tx_rg' = tx_rg BY <1>0, TxMoves
  <2> QED BY <1>2, <2>1, <2>2 DEF OnWire
<1> QED BY <1>3, <1>4

\* A byte that is launched comes from the FIFO or is urgent.
LEMMA Launches ==
  ASSUME IInv, Clock, Launch
  PROVE  /\ OnWire = <<>> /\ OnWire' = <<tx_rg'>> /\ rx_buf' = Left
         /\ \/ tx_buf # <<>> /\ tx_rg' = Head(tx_buf) /\ Rest = Tail(tx_buf)
            \/ tx_rg' \in Urgent /\ Rest = tx_buf
<1>0. /\ Transmit /\ Receive /\ tx_state = IDLE /\ tx_state' = START
      /\ (RxPushes => coming)
      /\ rx_buf' = IF RxPushes THEN Append(Left, rx_rg) ELSE Left
  BY Reads DEF Clock, Launch
<1>1. TxUrgent \/ TxByte
  BY <1>0 DEF Transmit, TxBetween, TxIdle, TxBit, TxStopBit, IDLE, START, LAST
<1>2. ~coming
  BY <1>1, Half DEF IInv, Phases, TxUrgent, TxByte, TxPops, TxTick
<1>3. coming' BY <1>0, <1>2, Coming
<1>4. OnWire = <<>> /\ OnWire' = <<tx_rg'>> /\ rx_buf' = Left
  BY <1>0, <1>2, <1>3 DEF OnWire
<1>5. CASE TxByte BY <1>4, <1>5 DEF TxByte, TxPops, Rest
<1>6. CASE TxUrgent
  BY <1>0, <1>4, <1>6
  DEF TxUrgent, StartBit, TxPops, Rest, IInv, TypeOK, IDLE, START
<1> QED BY <1>1, <1>5, <1>6

LEMMA ClockStep == ASSUME IInv, Clock PROVE Channel!BNext
<1>0. /\ Left \in Seq(Byte) /\ OnWire \in Seq(Byte) /\ tx_buf \in Seq(Byte)
      /\ Left \o OnWire \in Seq(Byte) /\ Rest \in Seq(Byte)
      /\ tx_buf' = Rest \o Put /\ Put \in Seq(Byte) /\ <<>> \in Seq(Byte)
  BY Reads, WayLeft, PutFacts, Writes, EmptySeq
<1>1. CASE ~Launch
  <2> DEFINE way == Left \o OnWire \o tx_buf
  <2>1. rx_buf' \o OnWire' \o tx_buf' = Left \o OnWire \o (tx_buf \o Put)
    BY <1>0, <1>1, Arrives
  <2>2. Left \o OnWire \o (tx_buf \o Put) = way \o Put
    <3>1. Regroups(Left \o OnWire, tx_buf, Put) BY Zenon, <1>0, Regrouping
    <3> QED BY Zenon, <3>1 DEF Regroups
  <2>3. way \in Seq(Byte) /\ way \o <<>> = way
    BY <1>0, ConcatProperties, ConcatEmptySeq
  <2>4. (rx_buf \o OnWire \o tx_buf)' = way \o <<>> \o <<>> \o Put
    BY <2>1, <2>2, <2>3
  <2> QED BY <1>0, <2>3, <2>4, PartsStep
<1>2. CASE Launch
  <2>0. /\ OnWire = <<>> /\ OnWire' = <<tx_rg'>> /\ rx_buf' = Left
        /\ \/ tx_buf # <<>> /\ tx_rg' = Head(tx_buf) /\ Rest = Tail(tx_buf)
           \/ tx_rg' \in Urgent /\ Rest = tx_buf
    BY <1>2, Launches
  <2>1. Left \o OnWire = Left BY <1>0, <2>0, ConcatEmptySeq
  <2>2. CASE tx_buf # <<>> /\ tx_rg' = Head(tx_buf) /\ Rest = Tail(tx_buf)
    <3> DEFINE h == <<Head(tx_buf)>>
    <3>1. h \in Seq(Byte) /\ h \o Rest = tx_buf
      <4>1. Head(tx_buf) \in Byte BY <1>0, <2>2, HeadTailProperties
      <4> QED BY <1>0, <2>2, <4>1, HeadThenTail
    <3>2. rx_buf' \o OnWire' \o tx_buf' = Left \o h \o (Rest \o Put)
      BY <1>0, <2>0, <2>2
    <3>3. Left \o h \o (Rest \o Put) = Left \o tx_buf \o Put
      <4>1. Left \o h \in Seq(Byte) BY <1>0, <3>1, ConcatProperties
      <4>2. Left \o h \o (Rest \o Put) = Left \o h \o Rest \o Put
        <5>1. Regroups(Left \o h, Rest, Put) BY Zenon, <1>0, <4>1, Regrouping
        <5> QED BY Zenon, <5>1 DEF Regroups
      <4>3. Left \o h \o Rest = Left \o (h \o Rest)
        <5>1. Regroups(Left, h, Rest) BY Zenon, <1>0, <3>1, Regrouping
        <5> QED BY Zenon, <5>1 DEF Regroups
      <4> QED BY <3>1, <4>2, <4>3
    <3>4. /\ Left \o tx_buf \in Seq(Byte)
          /\ Left \o tx_buf \o <<>> = Left \o tx_buf
      BY <1>0, ConcatProperties, ConcatEmptySeq
    <3>5. (rx_buf \o OnWire \o tx_buf)' = Left \o tx_buf \o <<>> \o <<>> \o Put
      BY <3>2, <3>3, <3>4
    <3> QED BY <1>0, <2>1, <3>4, <3>5, PartsStep
  <2>3. CASE tx_rg' \in Urgent /\ Rest = tx_buf
    <3>1. PICK u \in Urgent : u = tx_rg' BY <2>3
    <3>2. <<u>> \in Seq(Byte) BY <3>1, Bytes
    <3>3. Left \o <<u>> \in Seq(Byte) BY <1>0, <3>2, ConcatProperties
    <3>4. rx_buf' \o OnWire' \o tx_buf' = Left \o <<u>> \o (tx_buf \o Put)
      BY <1>0, <2>0, <2>3, <3>1
    <3>5. (rx_buf \o OnWire \o tx_buf)' = Left \o <<u>> \o tx_buf \o Put
      <4>1. Regroups(Left \o <<u>>, tx_buf, Put)
        BY Zenon, <1>0, <3>3, Regrouping
      <4> QED BY Zenon, <3>4, <4>1 DEF Regroups
    <3>6. <<u>> \in {<<>>} \cup {<<v>> : v \in Urgent} BY <3>1
    <3> QED BY <1>0, <2>1, <3>5, <3>6, PartsStep
  <2> QED BY <2>0, <2>2, <2>3
<1> QED BY <1>1, <1>2

-----------------------------------------------------------------------------
(* The results.                                                            *)

LEMMA Always == Spec => []IInv
<1> QED BY InitIInv, Inductive, PTL DEF Spec

\* A receive FIFO is never pushed when it is full, however slowly it is read:
\* RTSn stops the transmitter of the other end in time.
THEOREM NoOverrun == Spec => [](RxPushes => ~rx_full)
<1>1. IInv => (RxPushes => ~rx_full)
  <2> SUFFICES ASSUME IInv, RxPushes PROVE ~rx_full OBVIOUS
  <2>1. coming
    BY Half DEF IInv, Phases, RxPushes, LAST, IDLE
  <2> QED BY <2>1, Half, LenProperties DEF IInv, TypeOK, Room, rx_full
<1> QED BY <1>1, Always, PTL

\* The link keeps the promise of ByteChannel (property Refines): what is read
\* is what was written, each byte once and in its order, with urgent bytes
\* in between.
THEOREM LinkIsChannel == Spec => Refines
<1>1. Init => Channel!BInit
  <2> SUFFICES ASSUME Init PROVE Channel!BInit OBVIOUS
  <2>1. rx_buf = <<>> /\ tx_buf = <<>> /\ coming = FALSE /\ next = 1 /\ got = FALSE
    BY DEF Init
  <2>2. <<>> \o <<>> \o <<>> = <<>>
    BY EmptySeq, ConcatEmptySeq
  <2> QED BY <2>1, <2>2 DEF Channel!BInit
<1>2. IInv /\ [Next]_vars => [Channel!BNext]_(Channel!bvars)
  <2> SUFFICES ASSUME IInv, [Next]_vars PROVE [Channel!BNext]_(Channel!bvars)
    OBVIOUS
  <2>1. CASE Next BY <2>1, ClockStep DEF Next
  <2>2. CASE UNCHANGED vars
    BY <2>2 DEF vars, txVars, rxVars, Channel!bvars
  <2> QED BY <2>1, <2>2
<1> QED BY <1>1, <1>2, Always, PTL DEF Spec, Refines, Channel!BSpec
=============================================================================
