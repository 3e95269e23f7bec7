------------------------- MODULE SdDataPathProofs --------------------------
(***************************************************************************)
(* SdDataPath, for every size: the registers keep their types, the         *)
(* registered FIFO output is the oldest word, the DMA of a read stays in   *)
(* its buffer, and a transfer that is reported complete has moved every    *)
(* word to its place.                                                      *)
(***************************************************************************)
EXTENDS SdDataPath, FiniteSetTheorems, TLAPS

-----------------------------------------------------------------------------
(* Type correctness.  The invariant is needed in three parts that different *)
(* actions disturb; AxiType says why the counters stay in their ranges.    *)

MasterType ==
  /\ start \in {"none", "tx", "rx"} /\ data_int_rst \in BOOLEAN
  /\ state \in {"IDLE", "START_TX_FIFO", "START_RX_FIFO", "DATA_TRANSFER"}
  /\ en_tx_fifo \in BOOLEAN /\ en_rx_fifo \in BOOLEAN
  /\ d_write \in BOOLEAN /\ d_read \in BOOLEAN
  /\ int_status \subseteq Bits

HostType ==
  /\ sh_state \in {"IDLE", "WRITE_DAT", "WRITE_WAIT", "WRITE_DRT",
                   "WRITE_BUSY", "READ_WAIT", "READ_DAT"}
  /\ transf_cnt \in 0 .. BlockWords
  /\ blkcnt_reg \in 0 .. Blocks - 1
  /\ we \in BOOLEAN /\ rd \in BOOLEAN /\ crc_ok \in BOOLEAN
  /\ data_out \in Nat
  /\ card \in Seq(Nat)

FifoType == fifo \in Seq(Nat) /\ Len(fifo) < FifoSize /\ fifo_dout \in Nat

\* A burst in progress has beats to come; an address that was not accepted
\* left room in the response counter.
AxiType ==
  /\ m_axi_cyc \in BOOLEAN /\ m_axi_wvalid \in BOOLEAN
  /\ m_axi_awvalid \in BOOLEAN
  /\ beats \in 0 .. BurstMax /\ m_axi_bresp_cnt \in 0 .. MaxResp
  /\ m_bus_error \in BOOLEAN
  /\ m_axi_cyc => beats # 0
  /\ m_axi_wvalid => m_axi_cyc
  /\ m_axi_awvalid => m_axi_bresp_cnt # MaxResp

BufferType ==
  /\ m_bus_adr \in Nat /\ dir \in {"tx", "rx"} /\ mem \in [Offsets -> Nat]

TInv == MasterType /\ HostType /\ FifoType /\ AxiType /\ BufferType

LEMMA Sizes ==
  /\ FifoSize \in Nat /\ FifoSize >= 4 /\ BlockWords \in Nat \ {0}
  /\ Blocks \in Nat \ {0} /\ BurstMax \in Nat \ {0} /\ MaxResp \in Nat \ {0}
BY DataPathAssumption

LEMMA InitTInv == Init => TInv
<1> SUFFICES ASSUME Init PROVE TInv OBVIOUS
<1> USE Sizes DEF Init
<1>1. MasterType BY DEF MasterType
<1>2. HostType
  <2>1. transf_cnt \in 0 .. BlockWords /\ blkcnt_reg \in 0 .. Blocks - 1
        /\ data_out \in Nat /\ card \in Seq(Nat)
    BY DEF Stale
  <2> QED BY <2>1 DEF HostType
<1>3. FifoType BY DEF FifoType, Stale
<1>4. AxiType
  <2>1. beats \in 0 .. BurstMax /\ m_axi_bresp_cnt \in 0 .. MaxResp OBVIOUS
  <2> QED BY <2>1 DEF AxiType
<1>5. BufferType BY DEF BufferType, Stale
<1> QED BY <1>1, <1>2, <1>3, <1>4, <1>5 DEF TInv

-----------------------------------------------------------------------------
(* One edge of the SD clock.                                               *)

LEMMA DataMasterType ==
  ASSUME MasterType, DataMaster, start' = "none", data_int_rst' = FALSE
  PROVE  MasterType'
<1> USE DEF MasterType
<1>1. ASSUME NEW bits, bits \subseteq Bits, Report(bits)
      PROVE  int_status' \subseteq Bits
  BY <1>1 DEF Report
<1>2. CASE MasterIdle
  <2>1. int_status' \subseteq Bits BY <1>1, <1>2 DEF MasterIdle
  <2> QED BY <1>2, <2>1 DEF MasterIdle
<1>3. CASE MasterStartRx
  <2>1. int_status' \subseteq Bits BY <1>1, <1>3 DEF MasterStartRx
  <2> QED BY <1>3, <2>1 DEF MasterStartRx
<1>4. CASE MasterStartTx
  <2>1. int_status' \subseteq Bits BY <1>1, <1>4 DEF MasterStartTx
  <2> QED BY <1>4, <2>1 DEF MasterStartTx
<1>5. ASSUME NEW bits, bits \subseteq Bits, Abort(bits) PROVE MasterType'
  <2>1. int_status' \subseteq Bits BY <1>1, <1>5 DEF Abort
  <2> QED BY <1>5, <2>1 DEF Abort
<1>6. CASE MasterFifoFault
  BY <1>5, <1>6 DEF MasterFifoFault, Bits
<1>7. CASE MasterTimeout
  BY <1>5, <1>7 DEF MasterTimeout, Bits
<1>8. CASE MasterComplete
  <2>1. int_status' \subseteq Bits
    <3>1. {"CC"} \cup (IF crc_ok THEN {} ELSE {"CCRCE", "EI"})
                 \cup (IF m_bus_error THEN {"CBE", "EI"} ELSE {})
          \subseteq Bits
      BY DEF Bits
    <3> QED BY <1>1, <1>8, <3>1 DEF MasterComplete
  <2> QED BY <1>8, <2>1 DEF MasterComplete
<1>9. CASE MasterWait
  <2>1. int_status' \subseteq Bits BY <1>1, <1>9 DEF MasterWait
  <2> QED BY <1>9, <2>1 DEF MasterWait
<1> QED BY <1>2, <1>3, <1>4, <1>6, <1>7, <1>8, <1>9 DEF DataMaster

LEMMA SerialHostType ==
  ASSUME HostType, FifoType, SerialHost
  PROVE  HostType'
<1> USE Sizes DEF HostType
<1>1. CASE HostIdle
  <2>1. sh_state' \in {"IDLE", "WRITE_DAT", "READ_WAIT"}
    <3>1. CASE d_write /\ ~d_read BY <1>1, <3>1 DEF HostIdle, Go
    <3>2. CASE d_read /\ ~d_write BY <1>1, <3>2 DEF HostIdle, Go
    <3>3. CASE ~(d_write /\ ~d_read) /\ ~(d_read /\ ~d_write)
      BY <1>1, <3>3 DEF HostIdle, Go
    <3> QED BY <3>1, <3>2, <3>3
  <2>2. /\ transf_cnt' = 0 /\ we' = FALSE /\ rd' = FALSE
        /\ blkcnt_reg' = Blocks - 1
        /\ UNCHANGED <<crc_ok, data_out, card>>
    BY <1>1 DEF HostIdle
  <2>3. transf_cnt' \in 0 .. BlockWords /\ blkcnt_reg' \in 0 .. Blocks - 1
    BY <2>2
  <2> QED BY <2>1, <2>2, <2>3
<1>2. CASE HostWait BY <1>2 DEF HostWait, Go
<1>3. CASE HostWriteWord
  <2>1. card' \in Seq(Nat) BY <1>3 DEF HostWriteWord, FifoType
  <2>2. transf_cnt' \in 0 .. BlockWords BY <1>3 DEF HostWriteWord
  <2>3. /\ rd' = TRUE /\ crc_ok' = FALSE
        /\ UNCHANGED <<blkcnt_reg, we, data_out>>
        /\ sh_state' \in {"IDLE", "WRITE_DAT"}
    BY <1>3 DEF HostWriteWord, Go
  <2> QED BY <2>1, <2>2, <2>3
<1>4. CASE HostWriteCrc BY <1>4 DEF HostWriteCrc, Go
<1>5. CASE HostWriteToken BY <1>5 DEF HostWriteToken, Go
<1>6. CASE HostWriteVerdict BY <1>6 DEF HostWriteVerdict, Go
<1>7. CASE HostWriteNext BY <1>7 DEF HostWriteNext, Go
<1>8. CASE HostReadStart BY <1>8 DEF HostReadStart, Go
<1>9. CASE HostReadWord
  <2>1. data_out' \in Nat
    <3>1. Blocks - 1 - blkcnt_reg \in Nat OBVIOUS
    <3>2. (Blocks - 1 - blkcnt_reg) * BlockWords \in Nat BY <3>1
    <3> QED BY <1>9, <3>2 DEF HostReadWord
  <2> QED BY <1>9, <2>1 DEF HostReadWord, Go
<1>10. CASE HostReadCrc BY <1>10 DEF HostReadCrc, Go
<1> QED BY <1>1, <1>2, <1>3, <1>4, <1>5, <1>6, <1>7, <1>8, <1>9, <1>10
        DEF SerialHost

LEMMA PushType ==
  ASSUME FifoType, NEW w \in Nat, Push(w)
  PROVE  FifoType'
<1>1. CASE fifo_full BY <1>1 DEF FifoType, Push, fifoVars
<1>2. CASE ~fifo_full
  <2>1. fifo' = Append(fifo, w) /\ fifo_dout' \in {w, fifo_dout}
    BY <1>2 DEF Push
  <2>2. fifo' \in Seq(Nat) /\ Len(fifo') = Len(fifo) + 1
    BY <2>1 DEF FifoType
  <2>3. Len(fifo) \in Nat /\ Len(fifo) < FifoSize /\ Len(fifo) # FifoSize - 1
    BY <1>2 DEF FifoType, fifo_full
  <2>4. Len(fifo') < FifoSize BY <2>2, <2>3, Sizes
  <2> QED BY <2>1, <2>2, <2>4 DEF FifoType
<1> QED BY <1>1, <1>2

LEMMA PopType ==
  ASSUME FifoType, Pop
  PROVE  FifoType'
<1>1. CASE fifo_empty BY <1>1 DEF FifoType, Pop, fifoVars
<1>2. CASE ~fifo_empty
  <2>1. /\ fifo \in Seq(Nat) /\ fifo # <<>>
        /\ fifo' = Tail(fifo)
        /\ fifo_dout' = IF Len(fifo) > 1 THEN fifo[2] ELSE Stale
    BY <1>2 DEF FifoType, Pop, fifo_empty
  <2>2. fifo' \in Seq(Nat) /\ Len(fifo') = Len(fifo) - 1 BY <2>1
  <2>3. Len(fifo') < FifoSize
    BY <2>1, <2>2, Sizes DEF FifoType
  <2>4. fifo_dout' \in Nat BY <2>1 DEF Stale
  <2> QED BY <2>2, <2>3, <2>4 DEF FifoType
<1> QED BY <1>1, <1>2

LEMMA PushPopType ==
  ASSUME FifoType, NEW w \in Nat, PushPop(w)
  PROVE  FifoType'
<1>1. CASE fifo_empty \/ fifo_full
  <2>1. Push(w) \/ Pop BY <1>1 DEF PushPop
  <2> QED BY <2>1, PushType, PopType
<1>2. CASE ~fifo_empty /\ ~fifo_full
  <2>1. /\ fifo \in Seq(Nat) /\ fifo # <<>>
        /\ fifo' = Append(Tail(fifo), w)
        /\ fifo_dout' = IF Len(fifo) > 1 THEN fifo[2] ELSE w
    BY <1>2 DEF FifoType, PushPop, fifo_empty
  <2>2. fifo' \in Seq(Nat) /\ Len(fifo') = Len(fifo) BY <2>1
  <2>3. fifo_dout' \in Nat BY <2>1
  <2> QED BY <2>2, <2>3 DEF FifoType
<1> QED BY <1>1, <1>2

LEMMA FifoUnchanged ==
  ASSUME FifoType, UNCHANGED fifoVars
  PROVE  FifoType'
BY DEF FifoType, fifoVars

LEMMA FifoResetType ==
  ASSUME FifoType, HostType, FifoReset
  PROVE  FifoType'
<1>1. fifo_dout' \in Nat
  <2>1. \A i \in 1 .. Len(fifo) : fifo[i] \in Nat BY DEF FifoType
  <2>2. data_out \in Nat /\ fifo_dout \in Nat /\ Stale \in Nat
    BY DEF FifoType, HostType, Stale
  <2> QED BY <2>1, <2>2 DEF FifoReset
<1>2. fifo' = <<>> BY DEF FifoReset
<1> QED BY <1>1, <1>2, Sizes DEF FifoType

LEMMA FifoPosedgeType ==
  ASSUME FifoType, HostType, FifoPosedge
  PROVE  FifoType'
<1>1. CASE FifoReset BY <1>1, FifoResetType
<1>2. CASE ~FifoReset
  <2>1. Push(data_out) \/ Pop \/ UNCHANGED fifoVars
    BY <1>2 DEF FifoPosedge
  <2> QED BY <2>1, PushType, PopType, FifoUnchanged DEF HostType
<1> QED BY <1>1, <1>2

LEMMA SdEdgeType ==
  ASSUME TInv, SdEdge
  PROVE  MasterType' /\ HostType'
<1>1. MasterType' BY DataMasterType DEF TInv, SdEdge
<1>2. HostType' BY SerialHostType DEF TInv, SdEdge
<1> QED BY <1>1, <1>2

LEMMA PosedgeTInv == ASSUME TInv, Posedge PROVE TInv'
<1> USE DEF TInv, Posedge
<1>1. MasterType' /\ HostType' BY SdEdgeType
<1>2. FifoType' BY FifoPosedgeType
<1>3. AxiType' BY DEF AxiType, axiVars
<1>4. BufferType' BY DEF BufferType, Reload, SdEdge
<1> QED BY <1>1, <1>2, <1>3, <1>4

-----------------------------------------------------------------------------
(* The AXI master and the driver.                                          *)

LEMMA BurstTInv == ASSUME TInv, RxBurst \/ TxBurst PROVE TInv'
<1> USE Sizes DEF TInv
<1>1. ASSUME NEW m \in Nat, NEW n \in 1 .. Lesser(m, BurstMax)
      PROVE  n \in 0 .. BurstMax /\ n # 0
  BY DEF Lesser
<1>2. Len(fifo) \in Nat /\ fifo_free_len \in Nat
  BY DEF FifoType, fifo_free_len
<1>3. beats' \in 0 .. BurstMax /\ beats' # 0
  BY <1>1, <1>2 DEF RxBurst, TxBurst
<1>4. MasterType' /\ HostType' /\ FifoType' /\ BufferType'
  <2>1. UNCHANGED <<start, data_int_rst, masterVars, hostVars, fifoVars,
                    m_bus_adr, ghostVars>>
    BY DEF RxBurst, TxBurst
  <2>2. MasterType' /\ HostType'
    BY <2>1 DEF MasterType, HostType, masterVars, hostVars, ghostVars
  <2>3. FifoType' BY <2>1 DEF FifoType, fifoVars
  <2>4. BufferType'
    BY <2>1 DEF BufferType, ghostVars
  <2> QED BY <2>2, <2>3, <2>4
<1>5. CASE RxBurst
  <2>1. m_axi_bresp_cnt # MaxResp BY <1>5 DEF RxBurst, rx_stb
  <2> QED BY <1>3, <1>4, <1>5, <2>1 DEF RxBurst, AxiType
<1>6. CASE TxBurst
  BY <1>3, <1>4, <1>6 DEF TxBurst, AxiType
<1> QED BY <1>5, <1>6

LEMMA AwAcceptTInv == ASSUME TInv, AwAccept PROVE TInv'
<1> USE Sizes DEF TInv
<1>1. MasterType' /\ HostType' /\ FifoType' /\ BufferType'
  BY DEF AwAccept, MasterType, HostType, FifoType, BufferType,
         masterVars, hostVars, fifoVars, ghostVars
<1>2. m_axi_bresp_cnt' \in 0 .. MaxResp BY DEF AwAccept, AxiType
<1>3. AxiType' BY <1>2 DEF AwAccept, AxiType
<1> QED BY <1>1, <1>3

\* A beat, whichever way its word goes.
LEMMA BeatAxiType ==
  ASSUME AxiType, m_axi_cyc,
         beats' = beats - 1, m_axi_cyc' = ~LastBeat,
         m_axi_wvalid' = (m_axi_wvalid /\ ~LastBeat),
         m_axi_awvalid' = m_axi_awvalid,
         m_axi_bresp_cnt' = m_axi_bresp_cnt,
         m_bus_error' \in BOOLEAN
  PROVE  AxiType'
<1>1. beats \in 1 .. BurstMax BY Sizes DEF AxiType
<1>2. beats' \in 0 .. BurstMax /\ (~LastBeat => beats' # 0)
  BY <1>1, Sizes DEF LastBeat
<1> QED BY <1>2 DEF AxiType

\* The registers of a beat, whatever else happens on its clock.
LEMMA WriteBeatType ==
  ASSUME AxiType, BufferType, FifoType, WriteBeat, dir' = dir
  PROVE  AxiType' /\ BufferType'
<1>1. m_axi_cyc /\ m_axi_wvalid BY DEF WriteBeat, AxiType
<1>2. AxiType' BY <1>1, BeatAxiType DEF WriteBeat, AxiType
<1>3. mem' \in [Offsets -> Nat] BY DEF WriteBeat, BufferType, FifoType
<1>4. m_bus_adr' \in Nat BY DEF WriteBeat, Reload, BufferType
<1> QED BY <1>2, <1>3, <1>4 DEF BufferType

LEMMA ReadBeatType ==
  ASSUME AxiType, BufferType, ReadBeat, dir' = dir
  PROVE  AxiType' /\ BufferType'
<1>1. m_bus_error' \in BOOLEAN BY DEF ReadBeat, AxiType
<1>2. m_axi_wvalid' = (m_axi_wvalid /\ ~LastBeat) BY DEF ReadBeat, AxiType
<1>3. AxiType' BY <1>1, <1>2, BeatAxiType DEF ReadBeat
<1>4. m_bus_adr' \in Nat BY DEF ReadBeat, Reload, BufferType
<1> QED BY <1>3, <1>4 DEF ReadBeat, BufferType

LEMMA WBeatTInv == ASSUME TInv, WBeat PROVE TInv'
<1> USE DEF TInv
<1>1. MasterType' /\ HostType'
  BY DEF WBeat, MasterType, HostType, masterVars, hostVars
<1>2. FifoType'
  <2>1. Pop \/ UNCHANGED fifoVars BY DEF WBeat
  <2> QED BY <2>1, PopType, FifoUnchanged
<1>3. AxiType' /\ BufferType' BY WriteBeatType DEF WBeat
<1> QED BY <1>1, <1>2, <1>3

LEMMA RBeatTInv == ASSUME TInv, RBeat PROVE TInv'
<1> USE DEF TInv
<1>1. MasterType' /\ HostType'
  BY DEF RBeat, MasterType, HostType, masterVars, hostVars
<1>2. FifoType'
  <2>1. Push(m_bus_adr + 1) \/ UNCHANGED fifoVars BY DEF RBeat
  <2>2. m_bus_adr + 1 \in Nat BY DEF BufferType
  <2> QED BY <2>1, <2>2, PushType, FifoUnchanged
<1>3. AxiType' /\ BufferType' BY ReadBeatType DEF RBeat
<1> QED BY <1>1, <1>2, <1>3

\* A beat on the clock of an edge.
LEMMA PosedgeBeatTInv ==
  ASSUME TInv, PosedgeWBeat \/ PosedgeRBeat
  PROVE  TInv'
<1> USE DEF TInv
<1>1. MasterType' /\ HostType' /\ dir' = dir
  BY SdEdgeType DEF PosedgeWBeat, PosedgeRBeat, SdEdge
<1>2. FifoType'
  <2>1. data_out \in Nat /\ m_bus_adr + 1 \in Nat
    BY DEF HostType, BufferType
  <2>2. FifoReset \/ PushPop(data_out) \/ PushPop(m_bus_adr + 1)
    BY DEF PosedgeWBeat, PosedgeRBeat
  <2> QED BY <2>1, <2>2, FifoResetType, PushPopType
<1>3. AxiType' /\ BufferType'
  BY <1>1, WriteBeatType, ReadBeatType DEF PosedgeWBeat, PosedgeRBeat
<1> QED BY <1>1, <1>2, <1>3

LEMMA BRespTInv == ASSUME TInv, BResp PROVE TInv'
<1> USE DEF TInv
<1>1. MasterType' /\ HostType' /\ FifoType' /\ BufferType'
  BY DEF BResp, MasterType, HostType, FifoType, BufferType,
         masterVars, hostVars, fifoVars, ghostVars
<1>2. m_axi_bresp_cnt' \in 0 .. MaxResp /\ m_axi_bresp_cnt' # MaxResp
  BY Sizes DEF BResp, AxiType
<1>3. m_bus_error' \in BOOLEAN BY DEF BResp, AxiType
<1>4. AxiType' BY <1>2, <1>3 DEF BResp, AxiType
<1> QED BY <1>1, <1>4

LEMMA DriverTInv == ASSUME TInv, CmdStart \/ ClearStatus PROVE TInv'
<1> USE DEF TInv
<1>1. CASE CmdStart
  <2>1. MasterType' BY <1>1 DEF CmdStart, MasterType, masterVars
  <2>2. HostType'
    BY <1>1 DEF CmdStart, HostType, hostVars
  <2>3. FifoType' BY <1>1, FifoUnchanged DEF CmdStart
  <2>4. AxiType' BY <1>1 DEF CmdStart, AxiType
  <2>5. BufferType' BY <1>1 DEF CmdStart, BufferType, Stale
  <2> QED BY <2>1, <2>2, <2>3, <2>4, <2>5
<1>2. CASE ClearStatus
  BY <1>2 DEF ClearStatus, MasterType, HostType, FifoType, AxiType, BufferType,
              masterVars, hostVars, fifoVars, axiVars, ghostVars
<1> QED BY <1>1, <1>2

LEMMA StutterTInv == ASSUME TInv, UNCHANGED vars PROVE TInv'
BY DEF TInv, vars, MasterType, HostType, FifoType, AxiType, BufferType,
       masterVars, hostVars, fifoVars, axiVars, ghostVars

LEMMA NextTInv == TInv /\ [Next]_vars => TInv'
BY PosedgeTInv, BurstTInv, AwAcceptTInv, WBeatTInv, BRespTInv, RBeatTInv,
   PosedgeBeatTInv, DriverTInv, StutterTInv
   DEF Next

LEMMA InvarianceT == Spec => []TInv
BY InitTInv, NextTInv, PTL DEF Spec

-----------------------------------------------------------------------------
(* The output register of the FIFO.                                        *)

LEMMA PushHead ==
  ASSUME FifoType, HeadIsOut, NEW w \in Nat, Push(w)
  PROVE  HeadIsOut'
<1>1. CASE fifo_full BY <1>1 DEF Push, fifoVars, HeadIsOut
<1>2. CASE ~fifo_full /\ fifo_empty
  <2>1. fifo' = <<w>> /\ fifo_dout' = w
    BY <1>2 DEF Push, fifo_empty
  <2> QED BY <2>1 DEF HeadIsOut
<1>3. CASE ~fifo_full /\ ~fifo_empty
  <2>1. /\ fifo \in Seq(Nat) /\ fifo # <<>>
        /\ fifo' = Append(fifo, w) /\ fifo_dout' = fifo_dout
    BY <1>3 DEF Push, fifo_empty, FifoType
  <2>2. fifo'[1] = fifo[1] BY <2>1
  <2> QED BY <2>1, <2>2 DEF HeadIsOut
<1> QED BY <1>1, <1>2, <1>3

LEMMA PopHead ==
  ASSUME FifoType, HeadIsOut, Pop
  PROVE  HeadIsOut'
<1>1. CASE fifo_empty BY <1>1 DEF Pop, fifoVars, HeadIsOut
<1>2. CASE ~fifo_empty
  <2>1. /\ fifo \in Seq(Nat) /\ fifo # <<>> /\ fifo' = Tail(fifo)
        /\ fifo_dout' = IF Len(fifo) > 1 THEN fifo[2] ELSE Stale
    BY <1>2 DEF Pop, fifo_empty, FifoType
  <2>2. fifo' # <<>> => Len(fifo) > 1 /\ fifo'[1] = fifo[2] BY <2>1
  <2> QED BY <2>1, <2>2 DEF HeadIsOut
<1> QED BY <1>1, <1>2

\* The word that is pushed comes to the front at once when it is the only
\* one that stays.
LEMMA PushPopHead ==
  ASSUME FifoType, HeadIsOut, NEW w \in Nat, PushPop(w)
  PROVE  HeadIsOut'
<1>1. CASE fifo_empty \/ fifo_full
  <2>1. Push(w) \/ Pop BY <1>1 DEF PushPop
  <2> QED BY <2>1, PushHead, PopHead
<1>2. CASE ~fifo_empty /\ ~fifo_full
  <2>1. /\ fifo \in Seq(Nat) /\ fifo # <<>>
        /\ fifo' = Append(Tail(fifo), w)
        /\ fifo_dout' = IF Len(fifo) > 1 THEN fifo[2] ELSE w
    BY <1>2 DEF FifoType, PushPop, fifo_empty
  <2> DEFINE t == Tail(fifo)
  <2>2. t \in Seq(Nat) /\ Len(t) = Len(fifo) - 1 /\ Len(fifo) \in Nat
        /\ (Len(fifo) > 1 => t[1] = fifo[2])
    BY <2>1
  <2>3. fifo' = Append(t, w) BY <2>1
  <2> HIDE DEF t
  <2>4. fifo'[1] = IF Len(t) >= 1 THEN t[1] ELSE w BY <2>2, <2>3
  <2>5. fifo'[1] = IF Len(fifo) > 1 THEN fifo[2] ELSE w BY <2>2, <2>4
  <2> QED BY <2>1, <2>5 DEF HeadIsOut
<1> QED BY <1>1, <1>2

LEMMA NextHead == TInv /\ HeadIsOut /\ [Next]_vars => HeadIsOut'
<1> SUFFICES ASSUME TInv, HeadIsOut, [Next]_vars PROVE HeadIsOut' OBVIOUS
<1> USE DEF TInv
<1>1. CASE UNCHANGED fifoVars BY <1>1 DEF fifoVars, HeadIsOut
<1>2. CASE FifoReset BY <1>2 DEF FifoReset, HeadIsOut
<1>3. data_out \in Nat /\ m_bus_adr + 1 \in Nat
  BY DEF HostType, BufferType
<1>4. CASE Posedge
  <2>1. FifoReset \/ Push(data_out) \/ Pop \/ UNCHANGED fifoVars
    BY <1>4 DEF Posedge, FifoPosedge
  <2> QED BY <1>1, <1>2, <1>3, <2>1, PushHead, PopHead
<1>5. CASE WBeat
  <2>1. Pop \/ UNCHANGED fifoVars BY <1>5 DEF WBeat
  <2> QED BY <1>1, <2>1, PopHead
<1>6. CASE RBeat
  <2>1. Push(m_bus_adr + 1) \/ UNCHANGED fifoVars BY <1>6 DEF RBeat
  <2> QED BY <1>1, <1>3, <2>1, PushHead
<1>7. CASE PosedgeWBeat \/ PosedgeRBeat
  <2>1. FifoReset \/ PushPop(data_out) \/ PushPop(m_bus_adr + 1)
    BY <1>7 DEF PosedgeWBeat, PosedgeRBeat
  <2> QED BY <1>2, <1>3, <2>1, PushPopHead
<1>8. CASE ~(Posedge \/ WBeat \/ RBeat \/ PosedgeWBeat \/ PosedgeRBeat)
  <2>1. UNCHANGED fifoVars
    BY <1>8 DEF Next, vars, RxBurst, TxBurst, AwAccept, BResp, CmdStart,
                ClearStatus
  <2> QED BY <1>1, <2>1
<1> QED BY <1>4, <1>5, <1>6, <1>7, <1>8

-----------------------------------------------------------------------------
\* Every register of the data path keeps its type: the FIFO never holds more
\* than it has slots for, the response counter never passes the value that
\* stops new bursts, no burst counts below its last beat.
THEOREM TypeCorrect == Spec => []TypeOK
<1>1. TInv => TypeOK
  BY DEF TInv, TypeOK, MasterType, HostType, FifoType, AxiType, BufferType
<1> QED BY <1>1, InvarianceT, PTL

\* What the AXI burst and the serial host take from the FIFO is the word that
\* was pushed first, though they read a register and not the memory.
THEOREM OutputIsHead == Spec => []HeadIsOut
<1>1. Init => HeadIsOut BY DEF Init, HeadIsOut
<1> QED BY <1>1, NextHead, InvarianceT, PTL DEF Spec

-----------------------------------------------------------------------------
(* Where a transfer stands.                                                *)

Finished == "CC" \in int_status /\ "EI" \notin int_status
Starting == state \in {"START_TX_FIFO", "START_RX_FIFO"}
Aborted == d_write /\ d_read

\* The directions agree; a transfer begins with its status clear; without a
\* direction the FIFO is empty and the bus finishes what it had begun.
PhaseInv ==
  /\ en_rx_fifo => dir = "rx"
  /\ en_tx_fifo => dir = "tx"
  /\ start # "none" => start = dir /\ state = "IDLE" /\ ~enabled /\ ~m_axi_cyc
  /\ start # "none" \/ state # "IDLE" => int_status = {} /\ ~data_int_rst
  /\ state = "START_RX_FIFO" => dir = "rx"
  /\ state = "START_TX_FIFO" => dir = "tx"
  /\ state = "DATA_TRANSFER" => enabled
  /\ ~enabled => fifo = <<>> /\ sh_state = "IDLE" /\ ~d_write /\ ~d_read
  /\ ~enabled /\ ~m_axi_cyc => m_bus_adr = 0
  /\ m_axi_cyc => (m_axi_wvalid <=> dir = "rx")

\* What the master asks of the serial host, and how far the host is.
HostInv ==
  /\ state = "IDLE" /\ enabled =>
       Aborted \/ (sh_state = "IDLE" /\ ~d_write /\ ~d_read)
  /\ state # "IDLE" => ~Aborted
  /\ Starting /\ ~enabled => ~m_axi_cyc /\ ~we /\ ~rd
  /\ "CC" \in int_status => sh_state = "IDLE" /\ ~d_write /\ ~d_read

Sent(cnt) == (Blocks - 1 - blkcnt_reg) * BlockWords + cnt

-----------------------------------------------------------------------------
(* A read.                                                                 *)

Bound ==
  /\ en_rx_fifo => m_bus_adr + Len(fifo) <= Words
  /\ m_axi_wvalid => m_bus_adr + beats <= Words
  /\ m_axi_wvalid /\ en_rx_fifo => beats <= Len(fifo)

\* The words that were assembled: in memory, in the FIFO or about to be.
Assembled == m_bus_adr + Len(fifo) + (IF we THEN 1 ELSE 0)

RxHost ==
  /\ ~d_write /\ ~rd
  /\ sh_state \in {"IDLE", "READ_WAIT", "READ_DAT"}
  /\ we => sh_state = "READ_DAT" /\ data_out = Assembled
  /\ sh_state = "IDLE" => ~we
  /\ sh_state = "IDLE" /\ state = "START_RX_FIFO" => Assembled = 0
  /\ sh_state = "IDLE" /\ state = "DATA_TRANSFER" =>
       ~d_read /\ (crc_ok => Assembled = Words)
  /\ sh_state = "READ_WAIT" => Assembled = Sent(0)
  /\ sh_state = "READ_DAT" =>
       Assembled = Sent(transf_cnt) /\ (d_read => transf_cnt = 0)
  /\ sh_state = "READ_DAT" => state = "DATA_TRANSFER"

RxWords ==
  /\ \A i \in 1 .. Len(fifo) : fifo[i] = m_bus_adr + i
  /\ \A a \in Offsets : a < m_bus_adr => mem[a] = a + 1

RxInv ==
  dir = "rx" =>
    /\ Bound
    /\ state # "IDLE" => RxHost /\ RxWords
    /\ Finished => /\ ~m_axi_cyc /\ fifo = <<>>
                   /\ \A a \in Offsets : mem[a] = a + 1

-----------------------------------------------------------------------------
(* A write.                                                                *)

\* The words the FIFO has let go of.
Popped == Len(card) - (IF rd THEN 1 ELSE 0)

TxHost ==
  /\ ~d_read /\ ~we
  /\ sh_state \in {"IDLE", "WRITE_DAT", "WRITE_WAIT", "WRITE_DRT",
                   "WRITE_BUSY"}
  /\ rd => sh_state = "WRITE_DAT" /\ fifo # <<>> /\ card # <<>>
  /\ state = "START_TX_FIFO" =>
       /\ sh_state \in {"IDLE", "WRITE_DAT"}
       /\ Len(card) = 0
       /\ d_write \/ sh_state # "IDLE" => fifo_ready
  /\ sh_state = "IDLE" /\ state = "DATA_TRANSFER" =>
       ~d_write /\ (crc_ok => Len(card) = Words)
  /\ sh_state = "WRITE_DAT" => Len(card) = Sent(transf_cnt)
  /\ sh_state \in {"WRITE_WAIT", "WRITE_DRT", "WRITE_BUSY"} =>
       Len(card) = Sent(BlockWords) /\ ~d_write

TxWords ==
  /\ \A i \in 1 .. Len(card) : card[i] = i
  /\ \A i \in 1 .. Len(fifo) : fifo[i] = Popped + i
  /\ m_bus_adr = Popped + Len(fifo)

TxInv ==
  dir = "tx" =>
    /\ start # "none" => card = <<>>
    /\ en_tx_fifo /\ m_axi_cyc => beats <= fifo_free_len
    /\ state # "IDLE" => TxHost /\ TxWords
    /\ Finished => /\ \A i \in 1 .. Len(card) : card[i] = i
                   /\ Len(card) = Words

FlowInv == PhaseInv /\ HostInv /\ RxInv /\ TxInv

-----------------------------------------------------------------------------
(* Sizes and lengths.                                                      *)

LEMMA Products ==
  ASSUME NEW b \in 0 .. Blocks - 1
  PROVE  /\ (Blocks - 1 - b) * BlockWords \in Nat
         /\ (Blocks - 1 - b) * BlockWords + BlockWords <= Words
         /\ b = 0 => (Blocks - 1 - b) * BlockWords + BlockWords = Words
         /\ b # 0 => (Blocks - 1 - (b - 1)) * BlockWords
                      = (Blocks - 1 - b) * BlockWords + BlockWords
         /\ b = Blocks - 1 => (Blocks - 1 - b) * BlockWords = 0
<1> USE Sizes
<1>1. PICK k \in Nat : k = Blocks - 1 - b OBVIOUS
<1>2. /\ k * BlockWords \in Nat
      /\ (k + 1) * BlockWords = k * BlockWords + BlockWords
  OBVIOUS
<1>3. b = 0 => k + 1 = Blocks BY <1>1
<1>4. PICK d \in Nat : Blocks = k + 1 + d
  <2>1. b \in Nat /\ Blocks = k + 1 + b BY <1>1
  <2> QED BY <2>1
<1>5. Words = (k + 1) * BlockWords + d * BlockWords /\ d * BlockWords \in Nat
  BY <1>4 DEF Words
<1>6. b # 0 => Blocks - 1 - (b - 1) = k + 1 BY <1>1
<1>7. b = Blocks - 1 => k = 0 BY <1>1
<1> QED BY <1>1, <1>2, <1>3, <1>5, <1>6, <1>7 DEF Words

LEMMA WordsNat == Words \in Nat
BY Sizes DEF Words

LEMMA Lengths ==
  ASSUME FifoType, HostType
  PROVE  /\ Len(fifo) \in Nat /\ (fifo_empty <=> Len(fifo) = 0)
         /\ Len(card) \in Nat
BY DEF FifoType, HostType, fifo_empty

\* What a step on the AXI side that moves no word leaves alone.
Still == UNCHANGED <<start, data_int_rst, masterVars, hostVars, fifoVars,
                     m_bus_adr, ghostVars>>

LEMMA StillParts ==
  ASSUME Still
  PROVE  /\ RxHost' <=> RxHost
         /\ RxWords' <=> RxWords
         /\ TxHost' <=> TxHost
         /\ TxWords' <=> TxWords
         /\ Finished' <=> Finished
         /\ enabled' <=> enabled
         /\ fifo_empty' <=> fifo_empty
         /\ fifo_free_len' = fifo_free_len
<1> USE DEF Still, masterVars, hostVars, fifoVars, ghostVars
<1>1. Assembled' = Assembled /\ Popped' = Popped
  BY DEF Assembled, Popped
<1>2. Sent(0)' = Sent(0) /\ Sent(transf_cnt)' = Sent(transf_cnt)
      /\ Sent(BlockWords)' = Sent(BlockWords)
  BY DEF Sent
<1>3. RxHost' <=> RxHost BY <1>1, <1>2 DEF RxHost
<1>4. RxWords' <=> RxWords BY DEF RxWords
<1>5. TxHost' <=> TxHost BY <1>1, <1>2 DEF TxHost, fifo_ready
<1>6. TxWords' <=> TxWords BY <1>1 DEF TxWords
<1> QED BY <1>3, <1>4, <1>5, <1>6
        DEF Finished, enabled, fifo_empty, fifo_free_len

\* Such a step has to answer only for the bus.
LEMMA StillFlow ==
  ASSUME FlowInv, Still,
         m_axi_cyc' => enabled \/ m_axi_cyc,
         m_axi_cyc' => (m_axi_wvalid' <=> dir = "rx"),
         ~enabled /\ ~m_axi_cyc' => m_bus_adr = 0,
         dir = "rx" => Bound',
         dir = "rx" /\ Finished => ~m_axi_cyc',
         dir = "tx" => (en_tx_fifo /\ m_axi_cyc' => beats' <= fifo_free_len)
  PROVE  FlowInv'
<1> USE StillParts DEF FlowInv, masterVars, hostVars, fifoVars, ghostVars
<1>1. PhaseInv' BY DEF PhaseInv, Still
<1>2. HostInv' BY DEF HostInv, Starting, Aborted, Still
<1>3. RxInv' BY DEF RxInv, Still
<1>4. TxInv' BY DEF TxInv, Still
<1> QED BY <1>1, <1>2, <1>3, <1>4

LEMMA RxBurstFlow == ASSUME TInv, FlowInv, RxBurst PROVE FlowInv'
<1> USE DEF FlowInv
<1>1. Still /\ en_rx_fifo /\ dir = "rx" /\ ~en_tx_fifo
  BY DEF RxBurst, Still, rx_stb, PhaseInv
<1>2. beats' \in Nat /\ beats' <= Len(fifo) /\ fifo # <<>>
  <2>1. PICK n \in 1 .. Lesser(Len(fifo), BurstMax) : beats' = n
    BY DEF RxBurst
  <2>2. n \in Nat /\ n >= 1 /\ n <= Len(fifo)
    BY <2>1, Lengths, Sizes DEF Lesser, TInv
  <2>3. Len(fifo) # 0 BY <2>2
  <2> QED BY <2>1, <2>2, <2>3
<1>3. Bound'
  <2>1. m_bus_adr + Len(fifo) <= Words BY <1>1 DEF RxInv, Bound
  <2>2. m_bus_adr \in Nat BY DEF TInv, BufferType
  <2>3. Len(fifo) \in Nat BY Lengths DEF TInv
  <2>4. \A a, b, c, w \in Nat : b <= c /\ a + c <= w => a + b <= w OBVIOUS
  <2>5. m_bus_adr + beats' <= Words
    BY <1>2, <2>1, <2>2, <2>3, <2>4, WordsNat
  <2> QED BY <1>1, <1>2, <2>1, <2>5
          DEF Bound, Still, fifoVars, masterVars
<1>4. ~Finished BY <1>1, <1>2 DEF RxInv
<1> QED BY <1>1, <1>3, <1>4, StillFlow DEF RxBurst, enabled

LEMMA TxBurstFlow == ASSUME TInv, FlowInv, TxBurst PROVE FlowInv'
<1> USE DEF FlowInv
<1>1. Still /\ en_tx_fifo /\ dir = "tx" /\ m_axi_cyc' /\ ~m_axi_cyc
  BY DEF TxBurst, Still, tx_stb, PhaseInv
<1>2. ~m_axi_wvalid' BY <1>1 DEF TxBurst, TInv, AxiType
<1>3. beats' <= fifo_free_len
  <2>1. PICK n \in 1 .. Lesser(fifo_free_len, BurstMax) : beats' = n
    BY DEF TxBurst
  <2>2. fifo_free_len \in Nat
    BY Sizes DEF fifo_free_len, TInv, FifoType
  <2> QED BY <2>1, <2>2, Sizes DEF Lesser
<1> QED BY <1>1, <1>2, <1>3, StillFlow DEF enabled

LEMMA AwAcceptFlow == ASSUME TInv, FlowInv, AwAccept PROVE FlowInv'
<1>1. Still /\ UNCHANGED <<m_axi_cyc, m_axi_wvalid, beats>>
  BY DEF AwAccept, Still
<1> QED BY <1>1, StillFlow
        DEF FlowInv, PhaseInv, RxInv, TxInv, Bound, Still, fifoVars, masterVars

LEMMA BRespFlow == ASSUME TInv, FlowInv, BResp PROVE FlowInv'
<1>1. Still /\ UNCHANGED <<m_axi_cyc, m_axi_wvalid, beats>>
  BY DEF BResp, Still
<1> QED BY <1>1, StillFlow
        DEF FlowInv, PhaseInv, RxInv, TxInv, Bound, Still, fifoVars, masterVars

LEMMA ClearStatusFlow == ASSUME TInv, FlowInv, ClearStatus PROVE FlowInv'
<1> USE DEF FlowInv, ClearStatus, masterVars, hostVars, fifoVars, axiVars,
            ghostVars
<1>0. int_status # {}
  BY DEF data_int_status_reg
<1>1. PhaseInv' BY <1>0 DEF PhaseInv, enabled
<1>2. HostInv' BY DEF HostInv, Starting, Aborted, Finished, enabled
<1>3. /\ Assembled' = Assembled /\ Popped' = Popped
      /\ Sent(0)' = Sent(0) /\ Sent(transf_cnt)' = Sent(transf_cnt)
      /\ Sent(BlockWords)' = Sent(BlockWords)
  BY DEF Assembled, Popped, Sent
<1>4. state = "IDLE" BY <1>0 DEF PhaseInv
<1>5. RxInv' BY <1>4 DEF RxInv, Bound, Finished
<1>6. TxInv' BY <1>0, <1>4 DEF TxInv, Finished, fifo_free_len
<1> QED BY <1>1, <1>2, <1>5, <1>6

LEMMA CmdStartFlow == ASSUME TInv, FlowInv, CmdStart PROVE FlowInv'
<1> USE DEF FlowInv, CmdStart, masterVars, hostVars, fifoVars
<1>0. ~m_axi_cyc /\ ~m_axi_wvalid /\ m_bus_adr = 0
  BY DEF bus_cycle, TInv, AxiType, PhaseInv
<1>1. PhaseInv' BY <1>0 DEF PhaseInv, enabled
<1>2. HostInv' BY DEF HostInv, Starting, Aborted, Finished, enabled
<1>3. RxInv'
  BY <1>0, WordsNat DEF RxInv, Bound, Finished, enabled
<1>4. TxInv' BY <1>0 DEF TxInv, Finished
<1> QED BY <1>1, <1>2, <1>3, <1>4

LEMMA WBeatFlow == ASSUME TInv, HeadIsOut, FlowInv, WBeat PROVE FlowInv'
<1> USE DEF FlowInv, masterVars, hostVars, fifoVars, WriteBeat, Reload
<1>1. /\ m_axi_cyc /\ m_axi_wvalid /\ dir = "rx" /\ ~en_tx_fifo
      /\ beats \in Nat \ {0} /\ m_bus_adr \in Nat /\ mem \in [Offsets -> Nat]
      /\ Len(fifo) \in Nat /\ fifo \in Seq(Nat)
  BY DEF WBeat, TInv, AxiType, BufferType, FifoType, PhaseInv
<1>2. m_bus_adr + beats <= Words /\ (en_rx_fifo => beats <= Len(fifo))
  BY <1>1 DEF RxInv, Bound
<1>3. m_bus_adr \in Offsets
  BY <1>1, <1>2, WordsNat DEF Offsets
<1>4. /\ UNCHANGED <<start, data_int_rst, dir, card, state, en_tx_fifo,
                     en_rx_fifo, d_write, d_read, int_status, sh_state,
                     transf_cnt, blkcnt_reg, we, rd, crc_ok, data_out>>
      /\ Finished' = Finished /\ enabled' = enabled /\ ~Finished
  BY <1>1 DEF WBeat, Finished, enabled, RxInv
<1>5. beats' = beats - 1 /\ m_axi_wvalid' = m_axi_cyc'
      /\ (m_axi_cyc' <=> beats # 1)
  BY <1>1 DEF WBeat, LastBeat
<1>6. CASE en_rx_fifo
  <2>1. fifo # <<>> /\ fifo_dout = fifo[1]
    BY <1>1, <1>2, <1>6 DEF HeadIsOut
  <2>2. fifo' = Tail(fifo)
    BY <1>6, <2>1 DEF WBeat, Pop, fifo_empty
  <2>3. /\ Len(fifo') = Len(fifo) - 1
        /\ \A i \in 1 .. Len(fifo') : fifo'[i] = fifo[i + 1]
    BY <1>1, <2>1, <2>2
  <2>4. m_bus_adr' = m_bus_adr + 1 BY <1>6 DEF WBeat, enabled
  <2>5. PhaseInv' /\ HostInv'
    BY <1>1, <1>4, <1>5, <1>6
       DEF PhaseInv, HostInv, Starting, Aborted, enabled
  <2>6. Bound'
    BY <1>1, <1>2, <1>4, <1>5, <1>6, <2>3, <2>4, WordsNat DEF Bound, RxInv
  <2>7. ASSUME state # "IDLE" PROVE RxHost' /\ RxWords'
    <3>1. RxHost /\ RxWords BY <1>1, <2>7 DEF RxInv
    <3>2. Assembled' = Assembled
      BY <1>1, <1>4, <2>3, <2>4 DEF Assembled
    <3>3. Sent(0)' = Sent(0) /\ Sent(transf_cnt)' = Sent(transf_cnt)
      BY <1>4 DEF Sent
    <3>4. RxHost' BY <1>4, <3>1, <3>2, <3>3 DEF RxHost
    <3>5. \A i \in 1 .. Len(fifo') : fifo'[i] = m_bus_adr' + i
      BY <1>1, <2>3, <2>4, <3>1 DEF RxWords
    <3>6. fifo_dout = m_bus_adr + 1
      BY <1>1, <1>2, <1>6, <2>1, <3>1 DEF RxWords
    <3>7. mem' = [mem EXCEPT ![m_bus_adr] = m_bus_adr + 1]
      BY <3>6 DEF WBeat
    <3>8. ASSUME NEW a \in Offsets, a < m_bus_adr' PROVE mem'[a] = a + 1
      BY <1>1, <1>3, <2>4, <3>1, <3>7, <3>8, WordsNat DEF RxWords, Offsets
    <3> QED BY <3>4, <3>5, <3>8 DEF RxWords
  <2>8. RxInv' BY <1>4, <2>6, <2>7 DEF RxInv
  <2>9. TxInv' BY <1>1, <1>4 DEF TxInv
  <2> QED BY <2>5, <2>8, <2>9
<1>7. CASE ~en_rx_fifo
  <2>1. ~enabled /\ state = "IDLE" /\ UNCHANGED fifoVars
    BY <1>1, <1>7 DEF WBeat, PhaseInv, HostInv, enabled, Starting, TInv,
                      MasterType
  <2>2. m_bus_adr' = IF m_axi_cyc' THEN m_bus_adr + 1 ELSE 0
    <3>1. ~en_rx_fifo' /\ ~en_tx_fifo' BY <1>1, <1>4, <1>7
    <3>2. Reload(beats # 1, m_bus_adr + 1) BY DEF WBeat, LastBeat
    <3> QED BY <1>5, <3>1, <3>2 DEF Reload
  <2>3. PhaseInv' /\ HostInv'
    BY <1>1, <1>4, <1>5, <2>1, <2>2
       DEF PhaseInv, HostInv, Starting, Aborted, enabled
  <2>4. Bound'
    BY <1>1, <1>2, <1>4, <1>5, <1>7, <2>2, WordsNat DEF Bound
  <2>5. RxInv' BY <1>4, <2>1, <2>4 DEF RxInv
  <2>6. TxInv' BY <1>1, <1>4 DEF TxInv
  <2> QED BY <2>3, <2>5, <2>6
<1> QED BY <1>6, <1>7

LEMMA PoppedNat == ASSUME HostType, TxHost PROVE Popped \in Nat
<1>1. card \in Seq(Nat) /\ (rd => card # <<>>) BY DEF HostType, TxHost
<1> QED BY <1>1 DEF Popped

LEMMA RBeatFlow == ASSUME TInv, HeadIsOut, FlowInv, RBeat PROVE FlowInv'
<1> USE DEF FlowInv, masterVars, hostVars, fifoVars, ReadBeat, Reload
<1>1. /\ m_axi_cyc /\ ~m_axi_wvalid /\ dir = "tx" /\ ~en_rx_fifo
      /\ beats \in Nat \ {0} /\ m_bus_adr \in Nat
      /\ Len(fifo) \in Nat /\ fifo \in Seq(Nat)
  BY DEF RBeat, TInv, AxiType, BufferType, FifoType, PhaseInv
<1>2. /\ UNCHANGED <<start, data_int_rst, dir, card, mem, state, en_tx_fifo,
                     en_rx_fifo, d_write, d_read, int_status, sh_state,
                     transf_cnt, blkcnt_reg, we, rd, crc_ok, data_out,
                     m_axi_wvalid>>
      /\ Finished' = Finished /\ enabled' = enabled /\ Popped' = Popped
      /\ Sent(transf_cnt)' = Sent(transf_cnt)
      /\ Sent(BlockWords)' = Sent(BlockWords)
  BY DEF RBeat, Finished, enabled, Popped, Sent
<1>3. beats' = beats - 1 /\ (m_axi_cyc' <=> beats # 1)
  BY <1>1 DEF RBeat, LastBeat
<1>4. RxInv' BY <1>1, <1>2 DEF RxInv
<1>5. CASE en_tx_fifo
  <2>1. beats <= FifoSize - 1 - Len(fifo) /\ ~fifo_full
    <3>1. beats <= FifoSize - 1 - Len(fifo)
      BY <1>1, <1>5 DEF TxInv, fifo_free_len
    <3> QED BY <1>1, <3>1, Sizes DEF fifo_full
  <2>2. /\ fifo' = Append(fifo, m_bus_adr + 1)
        /\ m_bus_adr' = m_bus_adr + 1
    BY <1>5, <2>1 DEF RBeat, Push, enabled
  <2>3. Len(fifo') = Len(fifo) + 1 /\ fifo' # <<>>
        /\ \A i \in 1 .. Len(fifo') :
             fifo'[i] = IF i = Len(fifo) + 1 THEN m_bus_adr + 1 ELSE fifo[i]
    BY <1>1, <2>2
  <2>4. PhaseInv' /\ HostInv'
    BY <1>1, <1>2, <1>3, <1>5
       DEF PhaseInv, HostInv, Starting, Aborted, enabled
  <2>5. beats' <= fifo_free_len'
    BY <1>1, <1>3, <2>1, <2>3, Sizes DEF fifo_free_len
  <2>6. ASSUME state # "IDLE" PROVE TxHost' /\ TxWords'
    <3>1. TxHost /\ TxWords BY <1>1, <2>6 DEF TxInv
    <3>2. fifo_ready => fifo_ready'
      BY <1>1, <2>3, Sizes DEF fifo_ready
    <3>3. TxHost' BY <1>2, <2>3, <3>1, <3>2 DEF TxHost
    <3>4. Popped \in Nat
      BY <3>1, PoppedNat DEF TInv
    <3>5. m_bus_adr' = Popped + Len(fifo')
      BY <1>1, <2>2, <2>3, <3>1, <3>4 DEF TxWords
    <3>6. ASSUME NEW i \in 1 .. Len(fifo') PROVE fifo'[i] = Popped + i
      <4>1. i \in 1 .. Len(fifo) \/ i = Len(fifo) + 1 BY <1>1, <2>3
      <4>2. CASE i \in 1 .. Len(fifo)
        <5>1. i # Len(fifo) + 1 BY <1>1, <4>2
        <5> QED BY <2>3, <3>1, <4>2, <5>1 DEF TxWords
      <4>3. CASE i = Len(fifo) + 1
        <5>1. m_bus_adr = Popped + Len(fifo) BY <3>1 DEF TxWords
        <5>2. fifo'[i] = m_bus_adr + 1 BY <2>3, <4>3
        <5>3. Len(fifo) \in Nat BY <1>1
        <5> QED BY <3>4, <4>3, <5>1, <5>2, <5>3
      <4> QED BY <4>1, <4>2, <4>3
    <3> QED BY <1>2, <3>1, <3>3, <3>5, <3>6 DEF TxWords
  <2>7. start = "none" BY <1>5 DEF PhaseInv, enabled
  <2>8. TxInv' BY <1>2, <2>5, <2>6, <2>7 DEF TxInv
  <2> QED BY <1>4, <2>4, <2>8
<1>6. CASE ~en_tx_fifo
  <2>1. ~enabled /\ state = "IDLE" /\ UNCHANGED fifoVars /\ start = "none"
    BY <1>1, <1>6 DEF RBeat, PhaseInv, HostInv, enabled, Starting, TInv,
                      MasterType
  <2>2. ~m_axi_cyc' => m_bus_adr' = 0
    <3>1. ~en_rx_fifo' /\ ~en_tx_fifo' BY <1>1, <1>2, <1>6
    <3>2. Reload(beats # 1, m_bus_adr + 1) BY DEF RBeat, LastBeat
    <3> QED BY <1>3, <3>1, <3>2 DEF Reload
  <2>3. PhaseInv' /\ HostInv'
    BY <1>1, <1>2, <1>3, <2>1, <2>2
       DEF PhaseInv, HostInv, Starting, Aborted, enabled
  <2>4. TxInv' BY <1>2, <1>6, <2>1 DEF TxInv
  <2> QED BY <1>4, <2>3, <2>4
<1> QED BY <1>5, <1>6

-----------------------------------------------------------------------------
(* One edge of the SD clock, by the state of sd_data_master.               *)

\* Some edges have a beat of a burst on their clock.
AnyEdge == Posedge \/ PosedgeWBeat \/ PosedgeRBeat

LEMMA EdgeParts ==
  ASSUME AnyEdge
  PROVE  /\ DataMaster /\ SerialHost
         /\ start' = "none" /\ data_int_rst' = FALSE /\ dir' = dir
BY DEF AnyEdge, Posedge, PosedgeWBeat, PosedgeRBeat, SdEdge

\* No burst begins on an edge, and its address and its beats go together.
LEMMA EdgeBus ==
  ASSUME TInv, AnyEdge
  PROVE  /\ ~m_axi_cyc => /\ Posedge
                          /\ UNCHANGED <<m_axi_cyc, m_axi_wvalid, beats, mem>>
         /\ m_axi_cyc' => m_axi_cyc /\ m_axi_wvalid' = m_axi_wvalid
         /\ m_axi_wvalid' =>
              m_axi_wvalid /\ m_bus_adr' + beats' = m_bus_adr + beats
         /\ ~m_axi_cyc' /\ ~en_rx_fifo' /\ ~en_tx_fifo' => m_bus_adr' = 0
<1>1. /\ m_axi_wvalid => m_axi_cyc
      /\ beats \in Nat /\ m_bus_adr \in Nat
      /\ m_axi_cyc \in BOOLEAN /\ m_axi_wvalid \in BOOLEAN
  BY Sizes DEF TInv, AxiType, BufferType
<1>2. CASE Posedge
  BY <1>1, <1>2 DEF Posedge, axiVars, Reload
<1>3. CASE PosedgeWBeat
  <2>1. WriteBeat BY <1>3 DEF PosedgeWBeat
  <2>2. m_axi_wvalid' => m_axi_cyc' /\ beats' = beats - 1 BY <2>1 DEF WriteBeat
  <2>3. m_axi_cyc' => m_bus_adr' = m_bus_adr + 1
    BY <2>1 DEF WriteBeat, Reload
  <2>4. m_axi_wvalid' => m_bus_adr' + beats' = m_bus_adr + beats
    BY <1>1, <2>2, <2>3
  <2> QED BY <1>1, <2>1, <2>4 DEF WriteBeat, Reload
<1>4. CASE PosedgeRBeat
  <2>1. ReadBeat BY <1>4 DEF PosedgeRBeat
  <2> QED BY <1>1, <2>1 DEF ReadBeat, Reload
<1> QED BY <1>2, <1>3, <1>4 DEF AnyEdge

\* A transfer that has not begun to move words has no beat on an edge.
LEMMA PlainEdge ==
  ASSUME TInv, Posedge
  PROVE  /\ AnyEdge
         /\ UNCHANGED <<m_axi_cyc, m_axi_wvalid, beats, mem>>
         /\ m_bus_adr' = IF m_axi_cyc \/ en_rx_fifo' \/ en_tx_fifo'
                         THEN m_bus_adr ELSE 0
BY DEF AnyEdge, Posedge, axiVars, Reload

\* A serial host that is idle and asked nothing stays idle.
LEMMA HostRests ==
  ASSUME SerialHost, sh_state = "IDLE", ~d_write, ~d_read
  PROVE  /\ sh_state' = "IDLE" /\ ~we' /\ ~rd'
         /\ UNCHANGED <<crc_ok, data_out, card>>
<1>1. HostIdle
  BY DEF SerialHost, HostWait, data_busy, HostWriteWord, HostWriteCrc,
         HostWriteToken, HostWriteVerdict, HostWriteNext, HostReadStart,
         HostReadWord, HostReadCrc
<1> QED BY <1>1 DEF HostIdle, Go

LEMMA HostAborts ==
  ASSUME SerialHost, Aborted
  PROVE  sh_state' = "IDLE"
BY DEF SerialHost, Aborted, Go, HostIdle, HostWait, HostWriteWord,
       HostWriteCrc, HostWriteToken, HostWriteVerdict, HostWriteNext,
       HostReadStart, HostReadWord, HostReadCrc

LEMMA MasterByState ==
  ASSUME MasterType, DataMaster
  PROVE  /\ state = "IDLE" => MasterIdle
         /\ state = "START_RX_FIFO" => MasterStartRx
         /\ state = "START_TX_FIFO" => MasterStartTx
         /\ state = "DATA_TRANSFER" =>
              \/ MasterWait
              \/ MasterComplete
              \/ MasterFifoFault
              \/ MasterTimeout
BY DEF DataMaster, MasterType, MasterIdle, MasterStartRx, MasterStartTx,
       MasterFifoFault, MasterTimeout, MasterComplete, MasterWait

LEMMA IdleEdge ==
  ASSUME TInv, FlowInv, AnyEdge, state = "IDLE"
  PROVE  FlowInv'
<1> USE EdgeParts DEF FlowInv
<1>1. MasterIdle BY MasterByState DEF TInv
<1>2. /\ ~en_tx_fifo' /\ ~en_rx_fifo' /\ ~enabled' /\ ~d_write' /\ ~d_read'
      /\ fifo' = <<>>
  <2>1. /\ ~en_tx_fifo' /\ ~en_rx_fifo' /\ ~enabled' /\ ~d_write' /\ ~d_read'
    BY <1>1 DEF MasterIdle, enabled
  <2>2. FifoReset
    BY <2>1 DEF AnyEdge, Posedge, PosedgeWBeat, PosedgeRBeat, FifoPosedge,
                FifoRuns
  <2> QED BY <2>1, <2>2 DEF FifoReset
<1>3. state' = CASE start = "tx" -> "START_TX_FIFO"
                 [] start = "rx" -> "START_RX_FIFO"
                 [] OTHER -> "IDLE"
  BY <1>1 DEF MasterIdle
<1>4. Aborted \/ (sh_state = "IDLE" /\ ~d_write /\ ~d_read)
  BY DEF PhaseInv, HostInv
<1>5. sh_state' = "IDLE"
  BY <1>4, HostRests, HostAborts
<1>6. int_status' \in {{}, int_status}
  BY <1>1 DEF MasterIdle, Report
<1>7. Finished' => Finished /\ UNCHANGED card /\ state' = "IDLE"
  <2>1. Finished' => Finished BY <1>6 DEF Finished
  <2>2. Finished => UNCHANGED card
    BY HostRests DEF HostInv, Finished
  <2>3. Finished => start = "none" BY DEF PhaseInv, Finished
  <2> QED BY <1>3, <2>1, <2>2, <2>3
<1>8. ASSUME start # "none"
      PROVE  /\ ~m_axi_cyc /\ ~enabled /\ int_status' = {}
             /\ ~we' /\ ~rd' /\ UNCHANGED card
             /\ start = dir /\ m_bus_adr' = 0
  <2>1. ~m_axi_cyc /\ ~enabled /\ start = dir /\ int_status = {}
    BY <1>8 DEF PhaseInv
  <2>2. ~we' /\ ~rd' /\ UNCHANGED card
    BY <2>1, HostRests DEF PhaseInv
  <2> QED BY <1>2, <1>6, <2>1, <2>2, EdgeBus
<1>9. PhaseInv'
  <2>1. m_axi_cyc' => (m_axi_wvalid' <=> dir' = "rx")
    BY EdgeBus DEF PhaseInv
  <2>2. ~m_axi_cyc' => m_bus_adr' = 0 BY <1>2, EdgeBus
  <2>3. state' # "IDLE" => start # "none" /\ int_status' = {}
    BY <1>3, <1>8
  <2>4. state' = "START_RX_FIFO" => dir' = "rx" BY <1>3, <1>8
  <2>5. state' = "START_TX_FIFO" => dir' = "tx" BY <1>3, <1>8
  <2>6. state' # "DATA_TRANSFER" BY <1>3
  <2> QED BY <1>2, <1>5, <2>1, <2>2, <2>3, <2>4, <2>5, <2>6 DEF PhaseInv
<1>10. HostInv'
  <2>1. state' # "IDLE" => ~we' /\ ~rd' /\ ~m_axi_cyc'
    BY <1>3, <1>8, EdgeBus
  <2> QED BY <1>2, <1>5, <2>1 DEF HostInv, Starting, Aborted
<1>11. Len(fifo') = 0 /\ Len(fifo) \in Nat
  BY <1>2, Lengths DEF TInv
<1>12. RxInv'
  <2>1. SUFFICES ASSUME dir = "rx" PROVE RxInv' BY DEF RxInv
  <2>2. Bound'
    BY <1>2, <2>1, EdgeBus DEF RxInv, Bound
  <2>3. state' # "IDLE" => RxHost' /\ RxWords'
    <3>1. SUFFICES ASSUME state' # "IDLE" PROVE RxHost' /\ RxWords' OBVIOUS
    <3>2. state' = "START_RX_FIFO" BY <1>3, <1>8, <2>1, <3>1
    <3>3. ~we' /\ ~rd' /\ m_bus_adr' = 0 BY <1>3, <1>8, <3>1
    <3>4. Assembled' = 0 BY <1>11, <3>3 DEF Assembled
    <3>5. RxHost' BY <1>2, <1>5, <3>2, <3>3, <3>4 DEF RxHost
    <3>6. RxWords' BY <1>11, <3>3, WordsNat DEF RxWords, Offsets
    <3> QED BY <3>5, <3>6
  <2>4. Finished' => ~m_axi_cyc' /\ \A a \in Offsets : mem'[a] = a + 1
    BY <1>7, <2>1, EdgeBus DEF RxInv
  <2> QED BY <1>2, <2>2, <2>3, <2>4 DEF RxInv
<1>13. TxInv'
  <2>1. SUFFICES ASSUME dir = "tx" PROVE TxInv' BY DEF TxInv
  <2>2. state' # "IDLE" => TxHost' /\ TxWords'
    <3>1. SUFFICES ASSUME state' # "IDLE" PROVE TxHost' /\ TxWords' OBVIOUS
    <3>2. state' = "START_TX_FIFO" BY <1>3, <1>8, <2>1, <3>1
    <3>3. ~we' /\ ~rd' /\ m_bus_adr' = 0 /\ card' = <<>>
      BY <1>3, <1>8, <2>1, <3>1 DEF TxInv
    <3>4. Len(card') = 0 BY <3>3
    <3>5. TxHost' BY <1>2, <1>5, <3>2, <3>3, <3>4 DEF TxHost
    <3>6. Popped' = 0 BY <3>3, <3>4 DEF Popped
    <3>7. TxWords' BY <1>11, <3>3, <3>4, <3>6 DEF TxWords
    <3> QED BY <3>5, <3>7
  <2>3. Finished' =>
          (\A i \in 1 .. Len(card') : card'[i] = i) /\ Len(card') = Words
    BY <1>7, <2>1 DEF TxInv
  <2> QED BY <1>2, <2>2, <2>3 DEF TxInv
<1> QED BY <1>9, <1>10, <1>12, <1>13

\* The words sent or assembled never exceed the transfer.
LEMMA SentBounds ==
  ASSUME HostType
  PROVE  /\ Sent(0) \in Nat /\ Sent(transf_cnt) \in Nat
         /\ Sent(transf_cnt) <= Words /\ Sent(BlockWords) <= Words
         /\ Sent(0) <= Words
         /\ Sent(transf_cnt) = Sent(0) + transf_cnt
         /\ Sent(BlockWords) = Sent(0) + BlockWords
<1> DEFINE p == (Blocks - 1 - blkcnt_reg) * BlockWords
<1>1. p \in Nat /\ p + BlockWords <= Words BY Products DEF HostType
<1>2. transf_cnt \in Nat /\ transf_cnt <= BlockWords /\ BlockWords \in Nat
  BY Sizes DEF HostType
<1>3. Sent(0) = p + 0 /\ Sent(transf_cnt) = p + transf_cnt
      /\ Sent(BlockWords) = p + BlockWords
  BY DEF Sent
<1> HIDE DEF p
<1> QED BY <1>1, <1>2, <1>3, WordsNat

\* Before its first edge in a start state, nothing has happened yet.
LEMMA StartIsQuiet ==
  ASSUME FlowInv, Starting, ~enabled
  PROVE  /\ ~m_axi_cyc /\ ~we /\ ~rd /\ fifo = <<>> /\ m_bus_adr = 0
         /\ sh_state = "IDLE" /\ ~d_write /\ ~d_read
BY DEF FlowInv, PhaseInv, HostInv

LEMMA StartRxEdge ==
  ASSUME TInv, FlowInv, Posedge, state = "START_RX_FIFO"
  PROVE  FlowInv'
<1> USE PlainEdge, EdgeParts DEF FlowInv
<1>1. MasterStartRx BY MasterByState DEF TInv
<1>2. /\ en_rx_fifo' /\ ~en_tx_fifo' /\ enabled'
      /\ d_read' /\ d_write' = d_write
      /\ int_status' = {} /\ ~Finished'
      /\ state' = IF sh_state = "IDLE" THEN state ELSE "DATA_TRANSFER"
  BY <1>1 DEF MasterStartRx, Report, PhaseInv, Finished, enabled,
              xfr_complete, data_busy
<1>3. dir = "rx" /\ RxHost /\ RxWords /\ Bound /\ ~en_tx_fifo
  BY DEF PhaseInv, RxInv
<1>4. ~we /\ ~rd /\ ~d_write /\ sh_state \in {"IDLE", "READ_WAIT"}
  BY <1>3 DEF RxHost
<1>5. UNCHANGED fifoVars
  BY <1>2, <1>4 DEF Posedge, FifoPosedge, FifoReset
<1>6. m_bus_adr' = m_bus_adr BY <1>2
<1>7. /\ ~we' /\ ~rd'
      /\ \/ sh_state' = sh_state /\ (sh_state # "IDLE" => UNCHANGED blkcnt_reg)
         \/ sh_state = "IDLE" /\ sh_state' = "READ_WAIT"
            /\ blkcnt_reg' = Blocks - 1
         \/ sh_state = "READ_WAIT" /\ sh_state' = "READ_DAT"
            /\ transf_cnt' = 0 /\ UNCHANGED blkcnt_reg
  <2>1. CASE sh_state = "IDLE"
    <3>1. HostIdle
      BY <2>1 DEF SerialHost, HostWait, data_busy, HostWriteWord,
         HostWriteCrc, HostWriteToken, HostWriteVerdict, HostWriteNext,
         HostReadStart, HostReadWord, HostReadCrc
    <3> QED BY <1>4, <2>1, <3>1 DEF HostIdle, Go
  <2>2. CASE sh_state = "READ_WAIT"
    <3>1. HostWait \/ HostReadStart
      BY <2>2 DEF SerialHost, HostIdle, HostWriteWord,
         HostWriteCrc, HostWriteToken, HostWriteVerdict, HostWriteNext,
         HostReadWord, HostReadCrc
    <3> QED BY <1>4, <2>2, <3>1 DEF HostWait, HostReadStart, Go
  <2> QED BY <1>4, <2>1, <2>2
<1>8. PhaseInv' BY <1>2, <1>3 DEF PhaseInv
<1>9. HostInv'
  BY <1>2, <1>4, <1>3 DEF HostInv, Starting, Aborted
<1>10. /\ m_bus_adr + Len(fifo) <= Words
       /\ m_axi_wvalid => beats <= Len(fifo)
       /\ Len(fifo) \in Nat /\ m_bus_adr \in Nat
  <2>0. Len(fifo) \in Nat /\ m_bus_adr \in Nat
    BY Lengths DEF TInv, BufferType
  <2>1. CASE enabled BY <1>3, <2>0, <2>1 DEF Bound, enabled
  <2>2. CASE ~enabled
    <3>1. Len(fifo) = 0 /\ m_bus_adr = 0 /\ ~m_axi_wvalid
      BY <2>2, StartIsQuiet DEF Starting, TInv, AxiType
    <3> QED BY <3>1, <2>0, WordsNat
  <2> QED BY <2>1, <2>2
<1>11. Bound' BY <1>3, <1>5, <1>6, <1>10 DEF Bound, fifoVars
<1>12. Assembled' = m_bus_adr + Len(fifo) /\ Assembled' = Assembled
  BY <1>4, <1>5, <1>6, <1>7, <1>10 DEF Assembled, fifoVars
<1>13. RxWords' BY <1>3, <1>5, <1>6 DEF RxWords, fifoVars
<1>14. RxHost'
  <2>1. CASE sh_state' = "IDLE"
    BY <1>2, <1>3, <1>4, <1>7, <1>12, <2>1 DEF RxHost
  <2>2. CASE sh_state' = "READ_WAIT"
    <3>1. Assembled' = Sent(0)'
      <4>1. CASE sh_state = "IDLE"
        <5>1. Assembled' = 0 BY <1>3, <1>12, <4>1 DEF RxHost
        <5>2. Blocks - 1 \in 0 .. Blocks - 1 BY Sizes
        <5>3. Sent(0)' = 0 BY <1>7, <2>2, <4>1, <5>2, Products DEF Sent
        <5> QED BY <5>1, <5>3
      <4>2. CASE sh_state # "IDLE"
        BY <1>3, <1>7, <1>12, <2>2, <4>2 DEF RxHost, Sent
      <4> QED BY <4>1, <4>2
    <3> QED BY <1>2, <1>4, <1>7, <2>2, <3>1 DEF RxHost
  <2>3. CASE sh_state' = "READ_DAT"
    <3>1. Assembled' = Sent(transf_cnt)'
      BY <1>3, <1>4, <1>7, <1>12, <2>3 DEF RxHost, Sent
    <3> QED BY <1>2, <1>4, <1>7, <2>3, <3>1 DEF RxHost
  <2> QED BY <1>4, <1>7, <2>1, <2>2, <2>3
<1>15. RxInv' BY <1>2, <1>11, <1>13, <1>14 DEF RxInv
<1>16. TxInv' BY <1>3 DEF TxInv
<1> QED BY <1>8, <1>9, <1>15, <1>16

LEMMA StartTxEdge ==
  ASSUME TInv, HeadIsOut, FlowInv, Posedge, state = "START_TX_FIFO"
  PROVE  FlowInv'
<1> USE PlainEdge, EdgeParts DEF FlowInv
<1>1. MasterStartTx BY MasterByState DEF TInv
<1>2. /\ en_tx_fifo' /\ ~en_rx_fifo' /\ enabled' /\ d_read' = d_read
      /\ int_status' = {} /\ ~Finished'
      /\ d_write' = (fifo_ready \/ d_write)
      /\ state' = IF fifo_ready /\ sh_state # "IDLE" THEN "DATA_TRANSFER"
                  ELSE state
  BY <1>1 DEF MasterStartTx, Report, PhaseInv, Finished, enabled,
              xfr_complete, data_busy, TInv, MasterType
<1>3. dir = "tx" /\ TxHost /\ TxWords /\ ~en_rx_fifo
  BY DEF PhaseInv, TxInv
<1>4. /\ ~we /\ ~rd /\ ~d_read /\ card = <<>> /\ Len(card) = 0
      /\ sh_state \in {"IDLE", "WRITE_DAT"}
      /\ (d_write \/ sh_state # "IDLE" => fifo_ready)
  <2>1. card = <<>> BY <1>3 DEF TxHost, TInv, HostType
  <2> QED BY <1>3, <2>1 DEF TxHost
<1>5. UNCHANGED fifoVars
  BY <1>2, <1>3, <1>4 DEF Posedge, FifoPosedge, FifoReset
<1>6. m_bus_adr' = m_bus_adr BY <1>2
<1>7. Len(fifo) \in Nat /\ m_bus_adr = Len(fifo)
      /\ \A i \in 1 .. Len(fifo) : fifo[i] = i
  <2>1. Popped = 0 /\ Len(fifo) \in Nat BY <1>4, Lengths DEF Popped, TInv
  <2> QED BY <1>3, <2>1 DEF TxWords
<1>8. PhaseInv' BY <1>2, <1>3 DEF PhaseInv
<1>9. HostInv'
  BY <1>2, <1>4, <1>3 DEF HostInv, Starting, Aborted
<1>10. RxInv' BY <1>3 DEF RxInv
<1>11. en_tx_fifo' /\ m_axi_cyc' => beats' <= fifo_free_len'
  BY <1>3, <1>5, StartIsQuiet DEF TxInv, fifo_free_len, fifoVars, Starting,
                                  enabled
<1>12. ASSUME ~rd', ~we', card' = card,
              \/ sh_state' = "IDLE" /\ sh_state = "IDLE"
              \/ sh_state' = "WRITE_DAT" /\ Sent(transf_cnt)' = 0
                 /\ (sh_state # "IDLE" \/ d_write)
       PROVE  TxHost' /\ TxWords'
  <2>1. Popped' = 0 BY <1>4, <1>12 DEF Popped
  <2>2. TxWords'
    BY <1>4, <1>5, <1>6, <1>7, <1>12, <2>1 DEF TxWords, fifoVars
  <2>3. fifo_ready' = fifo_ready BY <1>5 DEF fifo_ready, fifoVars
  <2>4. TxHost' BY <1>2, <1>4, <1>12, <2>3 DEF TxHost
  <2> QED BY <2>2, <2>4
<1>13. TxHost' /\ TxWords'
  <2>1. CASE sh_state = "IDLE"
    <3>1. HostIdle
      BY <2>1 DEF SerialHost, HostWait, data_busy, HostWriteWord,
         HostWriteCrc, HostWriteToken, HostWriteVerdict, HostWriteNext,
         HostReadStart, HostReadWord, HostReadCrc
    <3>2. /\ ~rd' /\ ~we' /\ card' = card /\ transf_cnt' = 0
          /\ blkcnt_reg' = Blocks - 1
          /\ sh_state' = IF d_write THEN "WRITE_DAT" ELSE "IDLE"
      BY <1>4, <3>1 DEF HostIdle, Go
    <3>3. Sent(transf_cnt)' = 0
      <4>1. Blocks - 1 \in 0 .. Blocks - 1 BY Sizes
      <4> QED BY <3>2, <4>1, Products DEF Sent
    <3> QED BY <1>12, <2>1, <3>2, <3>3
  <2>2. CASE sh_state = "WRITE_DAT"
    <3>1. Sent(transf_cnt) = 0 /\ Sent(0) = 0 /\ transf_cnt = 0
      <4>1. Sent(transf_cnt) = 0 BY <1>3, <1>4, <2>2 DEF TxHost
      <4>2. transf_cnt \in Nat BY Sizes DEF TInv, HostType
      <4> QED BY <4>1, <4>2, SentBounds DEF TInv
    <3>2. HostWait \/ HostWriteWord
      BY <2>2, <3>1, Sizes DEF SerialHost, HostIdle, HostWriteCrc,
         HostWriteToken, HostWriteVerdict, HostWriteNext,
         HostReadStart, HostReadWord, HostReadCrc
    <3>3. CASE HostWait
      <4>1. /\ ~rd' /\ ~we' /\ card' = card /\ sh_state' = "WRITE_DAT"
            /\ UNCHANGED <<transf_cnt, blkcnt_reg>>
        BY <1>4, <2>2, <3>3 DEF HostWait, Go
      <4>2. Sent(transf_cnt)' = 0 BY <3>1, <4>1 DEF Sent
      <4> QED BY <1>12, <2>2, <4>1, <4>2
    <3>4. CASE HostWriteWord
      <4>1. /\ rd' /\ ~we' /\ sh_state' = "WRITE_DAT"
            /\ card' = Append(card, fifo_dout) /\ transf_cnt' = 1
            /\ UNCHANGED blkcnt_reg
        BY <1>4, <2>2, <3>1, <3>4 DEF HostWriteWord, Go
      <4>2. fifo_ready /\ fifo # <<>> /\ fifo_dout = 1
        <5>1. fifo_ready BY <1>4, <2>2
        <5>2. Len(fifo) >= 1 BY <1>7, <5>1, Sizes DEF fifo_ready
        <5>3. fifo # <<>> BY <5>2
        <5> QED BY <1>7, <5>1, <5>2, <5>3 DEF HeadIsOut
      <4>3. card' = <<1>> BY <1>4, <4>1, <4>2
      <4>4. Len(card') = 1 /\ card'[1] = 1 /\ card' # <<>> BY <4>3
      <4>5. Popped' = 0 BY <4>1, <4>4 DEF Popped
      <4>6. TxWords'
        BY <1>5, <1>6, <1>7, <4>4, <4>5 DEF TxWords, fifoVars
      <4>7. Sent(transf_cnt)' = 1
        <5> DEFINE p == (Blocks - 1 - blkcnt_reg) * BlockWords
        <5>1. p \in Nat BY Products DEF TInv, HostType
        <5>2. p + 0 = 0 BY <3>1 DEF Sent
        <5>3. Sent(transf_cnt)' = p + 1 BY <4>1 DEF Sent
        <5> HIDE DEF p
        <5> QED BY <5>1, <5>2, <5>3
      <4>8. TxHost'
        BY <1>2, <1>4, <1>5, <2>2, <4>1, <4>2, <4>4, <4>7
           DEF TxHost, fifoVars
      <4> QED BY <4>6, <4>8
    <3> QED BY <3>2, <3>3, <3>4
  <2> QED BY <1>4, <2>1, <2>2
<1>14. TxInv' BY <1>2, <1>11, <1>13 DEF TxInv
<1> QED BY <1>8, <1>9, <1>10, <1>14

-----------------------------------------------------------------------------
(* An edge with words on the wires.                                        *)

LEMMA TransferEdge ==
  ASSUME TInv, FlowInv, AnyEdge, state = "DATA_TRANSFER"
  PROVE  /\ PhaseInv' /\ HostInv'
         /\ UNCHANGED <<en_rx_fifo, en_tx_fifo>> /\ enabled' /\ ~Aborted
         /\ \/ MasterWait /\ state' = state /\ ~Finished'
               /\ ~FifoFault /\ ~d_write' /\ ~d_read'
            \/ MasterComplete /\ state' = "IDLE" /\ (Finished' => crc_ok)
               /\ sh_state = "IDLE" /\ sh_state' = "IDLE" /\ ~FifoFault
               /\ ~d_write /\ ~d_read /\ ~bus_cycle
            \/ state' = "IDLE" /\ ~Finished'
               /\ int_status' \in {{"CFE", "EI"}, {"CTE", "EI"}}
<1> USE EdgeParts DEF FlowInv
<1>0. enabled /\ int_status = {} /\ ~data_int_rst /\ ~Aborted
  BY DEF PhaseInv, HostInv
<1>1. \/ MasterWait /\ state' = state /\ ~d_write' /\ ~d_read' /\ int_status' = {}
      \/ MasterComplete /\ state' = "IDLE"
      \/ /\ state' = "IDLE" /\ d_write' /\ d_read'
         /\ int_status' \in {{"CFE", "EI"}, {"CTE", "EI"}}
  <2>1. MasterWait \/ MasterComplete \/ MasterFifoFault \/ MasterTimeout
    BY MasterByState DEF TInv
  <2>2. CASE MasterWait BY <1>0, <2>2 DEF MasterWait, Report
  <2>3. CASE MasterComplete BY <2>3 DEF MasterComplete
  <2>4. CASE MasterFifoFault BY <1>0, <2>4 DEF MasterFifoFault, Abort, Report
  <2>5. CASE MasterTimeout BY <1>0, <2>5 DEF MasterTimeout, Abort, Report
  <2> QED BY <2>1, <2>2, <2>3, <2>4, <2>5
<1>2. UNCHANGED <<en_rx_fifo, en_tx_fifo>>
  BY MasterByState
     DEF TInv, MasterWait, MasterComplete, MasterFifoFault,
         MasterTimeout, Abort
<1>3. enabled' BY <1>0, <1>2 DEF enabled
<1>4. ASSUME MasterComplete
      PROVE  /\ sh_state = "IDLE" /\ ~d_write /\ ~d_read
             /\ ~d_write' /\ ~d_read' /\ sh_state' = "IDLE"
             /\ Finished' => crc_ok
             /\ ~bus_cycle
  <2>1. sh_state = "IDLE"
    BY <1>4 DEF MasterComplete, TransferDone, xfr_complete, data_busy
  <2>2. ~d_write /\ ~d_read
    <3>1. CASE dir = "rx" BY <2>1, <3>1 DEF RxInv, RxHost
    <3>2. CASE dir = "tx" BY <2>1, <3>2 DEF TxInv, TxHost
    <3> QED BY <3>1, <3>2 DEF TInv, BufferType
  <2>3. sh_state' = "IDLE" BY <2>1, <2>2, HostRests
  <2>4. ~crc_ok => "EI" \in int_status'
    BY <1>0, <1>4 DEF MasterComplete, Report
  <2> QED BY <1>4, <2>1, <2>2, <2>3, <2>4
          DEF MasterComplete, TransferDone, Finished
<1>5. PhaseInv' BY <1>1, <1>2, <1>3, EdgeBus DEF PhaseInv
<1>6. HostInv'
  BY <1>1, <1>3, <1>4 DEF HostInv, Starting, Aborted, Finished
<1>7. MasterWait => ~FifoFault BY DEF MasterWait
<1>8. MasterComplete => ~FifoFault BY DEF MasterComplete
<1> QED BY <1>0, <1>1, <1>2, <1>3, <1>4, <1>5, <1>6, <1>7, <1>8 DEF Finished

LEMMA PushFacts ==
  ASSUME FifoType, NEW w \in Nat, Push(w)
  PROVE  /\ Len(fifo) \in Nat /\ Len(fifo') \in Nat
         /\ Len(fifo) <= Len(fifo') /\ Len(fifo') <= Len(fifo) + 1
         /\ ~fifo_full =>
              /\ Len(fifo') = Len(fifo) + 1
              /\ fifo'[Len(fifo) + 1] = w
              /\ \A i \in 1 .. Len(fifo) : fifo'[i] = fifo[i]
<1>1. fifo \in Seq(Nat) BY DEF FifoType
<1>2. CASE fifo_full BY <1>1, <1>2 DEF Push, fifoVars
<1>3. CASE ~fifo_full
  <2>1. fifo' = Append(fifo, w) BY <1>3 DEF Push
  <2> QED BY <1>1, <2>1
<1> QED BY <1>2, <1>3

LEMMA PushPopFacts ==
  ASSUME FifoType, NEW w \in Nat, PushPop(w), fifo # <<>>
  PROVE  /\ Len(fifo) \in Nat \ {0} /\ Len(fifo') \in Nat
         /\ Len(fifo') = IF fifo_full THEN Len(fifo) - 1 ELSE Len(fifo)
         /\ \A i \in 1 .. Len(fifo) - 1 : fifo'[i] = fifo[i + 1]
         /\ ~fifo_full => fifo'[Len(fifo)] = w
<1> DEFINE t == Tail(fifo)
<1>1. /\ Len(fifo) \in Nat \ {0} /\ t \in Seq(Nat) /\ Len(t) = Len(fifo) - 1
      /\ \A i \in 1 .. Len(fifo) - 1 : t[i] = fifo[i + 1]
  BY DEF FifoType
<1>2. fifo' = IF fifo_full THEN t ELSE Append(t, w)
  BY DEF PushPop, Pop, fifo_empty
<1> HIDE DEF t
<1>3. CASE fifo_full BY <1>1, <1>2, <1>3
<1>4. CASE ~fifo_full
  <2>1. fifo' = Append(t, w) BY <1>2, <1>4
  <2>2. Len(fifo') = Len(t) + 1 /\ fifo'[Len(t) + 1] = w
        /\ \A i \in 1 .. Len(t) : fifo'[i] = t[i]
    BY <1>1, <2>1
  <2> QED BY <1>1, <1>4, <2>2
<1> QED BY <1>3, <1>4

LEMMA AssembledBounds ==
  ASSUME TInv, RxHost, state = "DATA_TRANSFER", en_rx_fifo, Bound
  PROVE  Assembled \in Nat /\ Assembled <= Words
<1>1. Len(fifo) \in Nat /\ m_bus_adr \in Nat
  BY Lengths DEF TInv, BufferType
<1>2. Assembled \in Nat BY <1>1 DEF Assembled
<1>3. CASE sh_state = "IDLE"
  BY <1>1, <1>3, WordsNat DEF RxHost, Assembled, Bound
<1>4. CASE sh_state = "READ_WAIT" BY <1>4, SentBounds DEF RxHost, TInv
<1>5. CASE sh_state = "READ_DAT" BY <1>5, SentBounds DEF RxHost, TInv
<1> QED BY <1>2, <1>3, <1>4, <1>5 DEF RxHost

\* What the host assembles and what the FIFO takes on the next edge.
LEMMA ReadHostStep ==
  ASSUME TInv, RxHost, SerialHost, state = "DATA_TRANSFER", ~Aborted
  PROVE  /\ ~rd'
         /\ \/ /\ ~we' /\ sh_state' = sh_state /\ sh_state # "IDLE"
               /\ UNCHANGED <<transf_cnt, blkcnt_reg>>
            \/ ~we' /\ sh_state = "IDLE" /\ sh_state' = "IDLE" /\ UNCHANGED crc_ok
            \/ /\ sh_state = "READ_WAIT" /\ sh_state' = "READ_DAT" /\ ~we'
               /\ transf_cnt' = 0 /\ UNCHANGED blkcnt_reg
            \/ /\ sh_state = "READ_DAT" /\ sh_state' = "READ_DAT" /\ ~we /\ we'
               /\ data_out' = Sent(transf_cnt) + 1
               /\ transf_cnt' = transf_cnt + 1 /\ UNCHANGED blkcnt_reg
            \/ /\ sh_state = "READ_DAT" /\ ~we /\ ~we'
               /\ transf_cnt = BlockWords
               /\ \/ /\ sh_state' = "READ_WAIT" /\ blkcnt_reg # 0
                     /\ blkcnt_reg' = blkcnt_reg - 1
                  \/ sh_state' = "IDLE" /\ (crc_ok' => blkcnt_reg = 0)
<1>1. ~rd BY DEF RxHost
<1>2. CASE sh_state = "IDLE"
  <2>1. ~d_write /\ ~d_read BY <1>2 DEF RxHost
  <2> QED BY <1>2, <2>1, HostRests
<1>3. CASE sh_state = "READ_WAIT"
  <2>1. ~we BY <1>3 DEF RxHost
  <2>2. HostWait \/ HostReadStart
    BY <1>3 DEF SerialHost, HostIdle, HostWriteWord, HostWriteCrc,
       HostWriteToken, HostWriteVerdict, HostWriteNext, HostReadWord,
       HostReadCrc
  <2> QED BY <1>1, <1>3, <2>1, <2>2 DEF HostWait, HostReadStart, Go, Aborted
<1>4. CASE sh_state = "READ_DAT"
  <2>1. HostWait \/ HostReadWord \/ HostReadCrc
    BY <1>4 DEF SerialHost, HostIdle, HostWriteWord, HostWriteCrc,
       HostWriteToken, HostWriteVerdict, HostWriteNext, HostReadStart
  <2>2. CASE HostWait BY <1>4, <2>2 DEF HostWait, Go, Aborted
  <2>3. CASE HostReadWord
    BY <1>1, <1>4, <2>3 DEF HostReadWord, Go, Aborted, Sent
  <2>4. CASE HostReadCrc
    BY <1>1, <1>4, <2>4 DEF HostReadCrc, Go, Aborted
  <2> QED BY <2>1, <2>2, <2>3, <2>4
<1> QED BY <1>2, <1>3, <1>4 DEF RxHost

\* The FIFO of a read after an edge: it holds what was assembled, less what
\* a beat has taken, unless it overflows.
LEMMA ReadPort ==
  ASSUME TInv, HeadIsOut, FlowInv, AnyEdge, state = "DATA_TRANSFER",
         dir = "rx"
  PROVE  /\ Len(fifo') \in Nat /\ m_bus_adr' \in Nat
         /\ m_bus_adr' + Len(fifo') <= Assembled
         /\ m_axi_wvalid' => beats' <= Len(fifo')
         /\ ~FifoFault => m_bus_adr' + Len(fifo') = Assembled /\ RxWords'
<1> USE EdgeParts DEF FlowInv
<1>1. /\ en_rx_fifo /\ ~en_tx_fifo /\ en_rx_fifo' /\ ~en_tx_fifo'
      /\ RxHost /\ RxWords /\ Bound
  BY TransferEdge DEF PhaseInv, RxInv, enabled
<1>2. /\ Len(fifo) \in Nat /\ m_bus_adr \in Nat /\ fifo \in Seq(Nat)
      /\ data_out \in Nat /\ beats \in Nat /\ mem \in [Offsets -> Nat]
  BY Lengths, Sizes DEF TInv, BufferType, FifoType, HostType, AxiType
<1>3. CASE Posedge
  <2>0. m_bus_adr' = m_bus_adr /\ UNCHANGED <<m_axi_wvalid, beats, mem>>
    BY <1>1, <1>3, PlainEdge
  <2>1. IF we THEN Push(data_out) ELSE UNCHANGED fifoVars
    BY <1>1, <1>3 DEF Posedge, FifoPosedge, FifoReset
  <2>2. /\ Len(fifo') \in Nat /\ Len(fifo) <= Len(fifo')
        /\ m_bus_adr + Len(fifo') <= Assembled
    <3>1. CASE we
      <4>1. /\ Len(fifo') \in Nat /\ Len(fifo) <= Len(fifo')
            /\ Len(fifo') <= Len(fifo) + 1
        BY <1>2, <2>1, <3>1, PushFacts DEF TInv
      <4> QED BY <1>2, <3>1, <4>1 DEF Assembled
    <3>2. CASE ~we BY <1>2, <2>1, <3>2 DEF Assembled, fifoVars
    <3> QED BY <3>1, <3>2
  <2>3. m_axi_wvalid => beats <= Len(fifo')
    <3>1. m_axi_wvalid => beats <= Len(fifo) BY <1>1 DEF Bound
    <3> QED BY <1>2, <2>2, <3>1
  <2>4. ASSUME ~FifoFault
        PROVE  m_bus_adr + Len(fifo') = Assembled /\ RxWords'
    <3>1. ~fifo_full BY <1>1, <2>4 DEF FifoFault
    <3>2. CASE we
      <4>1. /\ Len(fifo') = Len(fifo) + 1 /\ fifo'[Len(fifo) + 1] = data_out
            /\ \A i \in 1 .. Len(fifo) : fifo'[i] = fifo[i]
        BY <1>2, <2>1, <3>1, <3>2, PushFacts DEF TInv
      <4>2. Assembled = m_bus_adr + Len(fifo')
        BY <1>2, <3>2, <4>1 DEF Assembled
      <4>3. data_out = m_bus_adr + Len(fifo) + 1
        BY <1>1, <1>2, <3>2, <4>1, <4>2 DEF RxHost
      <4>4. ASSUME NEW i \in 1 .. Len(fifo') PROVE fifo'[i] = m_bus_adr + i
        <5>1. i \in 1 .. Len(fifo) \/ i = Len(fifo) + 1 BY <1>2, <4>1
        <5>2. CASE i \in 1 .. Len(fifo) BY <1>1, <4>1, <5>2 DEF RxWords
        <5>3. CASE i = Len(fifo) + 1 BY <1>2, <4>1, <4>3, <5>3
        <5> QED BY <5>1, <5>2, <5>3
      <4> QED BY <1>1, <2>0, <4>2, <4>4 DEF RxWords
    <3>3. CASE ~we
      BY <1>1, <1>2, <2>0, <2>1, <3>3 DEF Assembled, RxWords, fifoVars
    <3> QED BY <3>2, <3>3
  <2> QED BY <1>2, <2>0, <2>2, <2>3, <2>4
<1>4. CASE PosedgeWBeat
  <2>1. /\ we /\ WriteBeat /\ PushPop(data_out) /\ m_axi_wvalid
        /\ beats' = beats - 1
    BY <1>1, <1>4 DEF PosedgeWBeat, FifoReset, WriteBeat
  <2>2. m_bus_adr' = m_bus_adr + 1 BY <1>1, <2>1 DEF WriteBeat, Reload
  <2>3. beats <= Len(fifo) /\ beats # 0 /\ m_bus_adr + beats <= Words
    BY <1>1, <2>1 DEF Bound, TInv, AxiType
  <2>4. fifo # <<>> /\ Len(fifo) # 0 BY <1>2, <2>3
  <2>5. /\ Len(fifo') \in Nat
        /\ Len(fifo') = IF fifo_full THEN Len(fifo) - 1 ELSE Len(fifo)
        /\ \A i \in 1 .. Len(fifo) - 1 : fifo'[i] = fifo[i + 1]
        /\ ~fifo_full => fifo'[Len(fifo)] = data_out
    BY <1>2, <2>1, <2>4, PushPopFacts DEF TInv
  <2>6. Assembled = m_bus_adr + Len(fifo) + 1 BY <2>1 DEF Assembled
  <2>7. m_bus_adr' + Len(fifo') <= Assembled
    <3>1. /\ m_bus_adr \in Nat /\ Len(fifo) \in Nat /\ Len(fifo') \in Nat
          /\ Len(fifo') <= Len(fifo)
      BY <1>2, <2>5
    <3> QED BY <2>2, <2>6, <3>1
  <2>8. beats' <= Len(fifo') BY <1>2, <2>1, <2>3, <2>5
  <2>9. ASSUME ~FifoFault
        PROVE  m_bus_adr' + Len(fifo') = Assembled /\ RxWords'
    <3>1. ~fifo_full BY <1>1, <2>9 DEF FifoFault
    <3>2. Len(fifo') = Len(fifo) /\ fifo'[Len(fifo)] = data_out BY <2>5, <3>1
    <3>3. m_bus_adr' + Len(fifo') = Assembled BY <1>2, <2>2, <2>6, <3>2
    <3>4. data_out = m_bus_adr + Len(fifo) + 1
      BY <1>1, <2>1, <2>6 DEF RxHost
    <3>5. ASSUME NEW i \in 1 .. Len(fifo') PROVE fifo'[i] = m_bus_adr' + i
      <4>1. i \in Nat /\ (i \in 1 .. Len(fifo) - 1 \/ i = Len(fifo))
        BY <1>2, <3>2
      <4>2. CASE i \in 1 .. Len(fifo) - 1
        <5>1. i + 1 \in 1 .. Len(fifo) BY <1>2, <4>2
        <5>2. fifo[i + 1] = m_bus_adr + (i + 1) BY <1>1, <5>1 DEF RxWords
        <5> QED BY <1>2, <2>2, <2>5, <4>1, <4>2, <5>2
      <4>3. CASE i = Len(fifo) BY <1>2, <2>2, <3>2, <3>4, <4>3
      <4> QED BY <4>1, <4>2, <4>3
    <3>6. fifo_dout = m_bus_adr + 1
      <4>1. 1 \in 1 .. Len(fifo) BY <1>2, <2>4
      <4> QED BY <1>1, <2>4, <4>1 DEF HeadIsOut, RxWords
    <3>7. mem' = [mem EXCEPT ![m_bus_adr] = m_bus_adr + 1]
      BY <2>1, <3>6 DEF WriteBeat
    <3>8. m_bus_adr \in Offsets BY <1>2, <2>3, WordsNat DEF Offsets
    <3>9. ASSUME NEW a \in Offsets, a < m_bus_adr' PROVE mem'[a] = a + 1
      <4>1. CASE a = m_bus_adr BY <1>2, <3>7, <3>8, <4>1
      <4>2. CASE a # m_bus_adr
        <5>1. a \in Nat /\ m_bus_adr \in Nat BY <1>2, WordsNat DEF Offsets
        <5>2. a < m_bus_adr BY <2>2, <3>9, <4>2, <5>1
        <5>3. mem[a] = a + 1 BY <1>1, <5>2 DEF RxWords
        <5> QED BY <1>2, <3>7, <4>2, <5>3
      <4> QED BY <4>1, <4>2
    <3> QED BY <3>3, <3>5, <3>9 DEF RxWords
  <2>10. Len(fifo') \in Nat BY <2>5
  <2>11. m_bus_adr' \in Nat BY <1>2, <2>2
  <2> QED BY <2>7, <2>8, <2>9, <2>10, <2>11
<1>5. ~PosedgeRBeat BY <1>1 DEF PosedgeRBeat, ReadBeat
<1> QED BY <1>3, <1>4, <1>5 DEF AnyEdge

LEMMA ReadEdge ==
  ASSUME TInv, HeadIsOut, FlowInv, AnyEdge, state = "DATA_TRANSFER", dir = "rx"
  PROVE  FlowInv'
<1> USE EdgeParts DEF FlowInv
<1>1. /\ en_rx_fifo /\ ~en_tx_fifo /\ en_rx_fifo' /\ ~en_tx_fifo'
      /\ RxHost /\ RxWords /\ Bound
  BY TransferEdge DEF PhaseInv, RxInv, enabled
<1>2. Len(fifo) \in Nat /\ m_bus_adr \in Nat
  BY Lengths DEF TInv, BufferType
<1>4. /\ Len(fifo') \in Nat /\ m_bus_adr' \in Nat
      /\ m_bus_adr' + Len(fifo') <= Assembled
  BY ReadPort
<1>5. Bound'
  <2>1. m_bus_adr' + Len(fifo') <= Words
    BY <1>1, <1>4, AssembledBounds, WordsNat
  <2>2. m_axi_wvalid' => beats' <= Len(fifo') BY ReadPort
  <2>3. m_axi_wvalid' => m_bus_adr' + beats' <= Words
    BY <1>1, EdgeBus DEF Bound
  <2> QED BY <1>1, <2>1, <2>2, <2>3 DEF Bound
<1>6. ASSUME ~FifoFault
      PROVE  m_bus_adr' + Len(fifo') = Assembled /\ RxWords'
  BY <1>6, ReadPort
<1>7. ASSUME state' # "IDLE" PROVE RxHost' /\ RxWords'
  <2>1. ~FifoFault /\ ~d_write' /\ ~d_read' /\ ~Aborted
        /\ state' = "DATA_TRANSFER"
    BY <1>7, TransferEdge
  <2>2. m_bus_adr' + Len(fifo') = Assembled /\ RxWords' BY <1>6, <2>1
  <2>3. Assembled \in Nat BY <1>1, AssembledBounds
  <2>4. Assembled' = Assembled + (IF we' THEN 1 ELSE 0)
    BY <1>1, <1>2, <1>4, <2>2 DEF Assembled
  <2>5. ~rd' BY <1>1, <2>1, ReadHostStep
  <2>6. CASE ~we' /\ sh_state' = sh_state /\ sh_state # "IDLE"
             /\ UNCHANGED <<transf_cnt, blkcnt_reg>>
    <3>1. Sent(0)' = Sent(0) /\ Sent(transf_cnt)' = Sent(transf_cnt)
      BY <2>6 DEF Sent
    <3>2. Assembled' = Assembled BY <2>3, <2>4, <2>6
    <3> QED BY <1>1, <2>1, <2>2, <2>5, <2>6, <3>1, <3>2 DEF RxHost
  <2>7. CASE ~we' /\ sh_state = "IDLE" /\ sh_state' = "IDLE" /\ UNCHANGED crc_ok
    <3>1. Assembled' = Assembled BY <2>3, <2>4, <2>7
    <3> QED BY <1>1, <2>1, <2>2, <2>5, <2>7, <3>1 DEF RxHost
  <2>8. CASE /\ sh_state = "READ_WAIT" /\ sh_state' = "READ_DAT" /\ ~we'
             /\ transf_cnt' = 0 /\ UNCHANGED blkcnt_reg
    <3>1. Sent(transf_cnt)' = Sent(0) BY <2>8 DEF Sent
    <3>2. Assembled' = Assembled BY <2>3, <2>4, <2>8
    <3> QED BY <1>1, <2>1, <2>2, <2>5, <2>8, <3>1, <3>2 DEF RxHost
  <2>9. CASE /\ sh_state = "READ_DAT" /\ sh_state' = "READ_DAT" /\ ~we /\ we'
             /\ data_out' = Sent(transf_cnt) + 1
             /\ transf_cnt' = transf_cnt + 1 /\ UNCHANGED blkcnt_reg
    <3>1. Assembled' = Sent(transf_cnt) + 1
      BY <1>1, <2>4, <2>9 DEF RxHost
    <3>2. Sent(transf_cnt)' = Sent(transf_cnt) + 1
      <4> DEFINE p == (Blocks - 1 - blkcnt_reg) * BlockWords
      <4>1. p \in Nat /\ transf_cnt \in Nat
        BY Products, Sizes DEF TInv, HostType
      <4>2. Sent(transf_cnt) = p + transf_cnt
            /\ Sent(transf_cnt)' = p + (transf_cnt + 1)
        BY <2>9 DEF Sent
      <4> HIDE DEF p
      <4> QED BY <4>1, <4>2
    <3> QED BY <2>1, <2>2, <2>5, <2>9, <3>1, <3>2 DEF RxHost
  <2>10. CASE /\ sh_state = "READ_DAT" /\ ~we /\ ~we'
              /\ transf_cnt = BlockWords
              /\ \/ /\ sh_state' = "READ_WAIT" /\ blkcnt_reg # 0
                    /\ blkcnt_reg' = blkcnt_reg - 1
                 \/ sh_state' = "IDLE" /\ (crc_ok' => blkcnt_reg = 0)
    <3>1. Assembled' = Sent(BlockWords)
      BY <1>1, <2>3, <2>4, <2>10 DEF RxHost
    <3>2. CASE sh_state' = "READ_WAIT"
      <4> DEFINE q == (Blocks - 1 - (blkcnt_reg - 1)) * BlockWords
      <4>1. blkcnt_reg \in 0 .. Blocks - 1 /\ blkcnt_reg # 0
            /\ blkcnt_reg' = blkcnt_reg - 1
        BY <2>10, <3>2 DEF TInv, HostType
      <4>2. q = Sent(BlockWords) BY <4>1, Products DEF Sent
      <4>3. Sent(0)' = q + 0 BY <4>1 DEF Sent
      <4>4. Sent(BlockWords) \in Nat BY SentBounds, Sizes DEF TInv
      <4>5. Sent(0)' = Sent(BlockWords) BY <4>2, <4>3, <4>4
      <4> QED BY <2>1, <2>2, <2>5, <2>10, <3>1, <3>2, <4>5 DEF RxHost
    <3>3. CASE sh_state' = "IDLE" /\ (crc_ok' => blkcnt_reg = 0)
      <4>1. blkcnt_reg = 0 => Sent(BlockWords) = Words
        BY Products DEF Sent, TInv, HostType
      <4> QED BY <2>1, <2>2, <2>5, <2>10, <3>1, <3>3, <4>1 DEF RxHost
    <3> QED BY <2>10, <3>2, <3>3
  <2> QED BY <1>1, <2>1, <2>2, <2>6, <2>7, <2>8, <2>9, <2>10, ReadHostStep
<1>8. ASSUME Finished'
      PROVE  ~m_axi_cyc' /\ fifo' = <<>> /\ \A a \in Offsets : mem'[a] = a + 1
  <2>1. MasterComplete /\ crc_ok /\ sh_state = "IDLE" /\ ~bus_cycle
    BY <1>8, TransferEdge
  <2>2. fifo = <<>> /\ ~m_axi_cyc
    BY <1>1, <2>1 DEF MasterComplete, TransferDone, fifo_empty, bus_cycle
  <2>3. ~we /\ Assembled = Words BY <1>1, <2>1 DEF RxHost
  <2>4. m_bus_adr = Words
    <3>1. Len(fifo) = 0 BY <2>2
    <3> QED BY <1>2, <2>3, <3>1 DEF Assembled
  <2>5. \A a \in Offsets : mem[a] = a + 1
    BY <1>1, <2>4, WordsNat DEF RxWords, Offsets
  <2>6. Posedge /\ m_axi_cyc' = m_axi_cyc /\ mem' = mem BY <2>2, EdgeBus
  <2>7. fifo' = fifo
    BY <1>1, <2>3, <2>6 DEF Posedge, FifoPosedge, FifoReset, fifoVars
  <2> QED BY <2>2, <2>5, <2>6, <2>7
<1>9. RxInv' BY <1>5, <1>7, <1>8 DEF RxInv
<1>10. TxInv' BY DEF TxInv
<1> QED BY <1>9, <1>10, TransferEdge

\* What the host sends and whether the FIFO moves on the next edge.
LEMMA WriteHostStep ==
  ASSUME TInv, TxHost, SerialHost, state = "DATA_TRANSFER", ~Aborted
  PROVE  /\ ~we'
         /\ \/ /\ ~rd' /\ sh_state' = sh_state /\ sh_state # "IDLE"
               /\ UNCHANGED <<card, transf_cnt, blkcnt_reg>>
            \/ /\ ~rd' /\ sh_state = "IDLE" /\ sh_state' = "IDLE"
               /\ UNCHANGED <<card, crc_ok>>
            \/ /\ sh_state = "WRITE_DAT" /\ sh_state' = "WRITE_DAT" /\ ~rd /\ rd'
               /\ card' = Append(card, fifo_dout)
               /\ transf_cnt' = transf_cnt + 1 /\ UNCHANGED blkcnt_reg
            \/ /\ sh_state # "IDLE" /\ ~rd /\ ~rd' /\ UNCHANGED <<card, blkcnt_reg>>
               /\ sh_state = "WRITE_DAT" => transf_cnt = BlockWords
               /\ sh_state' \in {"WRITE_WAIT", "WRITE_DRT", "WRITE_BUSY"}
            \/ /\ sh_state = "WRITE_BUSY" /\ ~rd' /\ UNCHANGED card
               /\ \/ /\ sh_state' = "WRITE_DAT" /\ blkcnt_reg # 0
                     /\ blkcnt_reg' = blkcnt_reg - 1 /\ transf_cnt' = 0
                  \/ /\ sh_state' = "IDLE" /\ (crc_ok' => blkcnt_reg = 0)
<1>1. ~we /\ (rd => sh_state = "WRITE_DAT") BY DEF TxHost
<1>2. CASE sh_state = "IDLE"
  <2>1. ~d_write /\ ~d_read BY <1>2 DEF TxHost
  <2> QED BY <1>2, <2>1, HostRests
<1>3. CASE sh_state = "WRITE_DAT"
  <2>1. HostWait \/ HostWriteWord \/ HostWriteCrc
    BY <1>3 DEF SerialHost, HostIdle, HostWriteToken, HostWriteVerdict,
       HostWriteNext, HostReadStart, HostReadWord, HostReadCrc
  <2>2. CASE HostWait BY <1>3, <2>2 DEF HostWait, Go, Aborted
  <2>3. CASE HostWriteWord
    BY <1>1, <1>3, <2>3 DEF HostWriteWord, Go, Aborted
  <2>4. CASE HostWriteCrc
    BY <1>1, <1>3, <2>4 DEF HostWriteCrc, Go, Aborted
  <2> QED BY <2>1, <2>2, <2>3, <2>4
<1>4. CASE sh_state = "WRITE_WAIT" \/ sh_state = "WRITE_DRT"
  <2>1. HostWait \/ HostWriteToken \/ HostWriteVerdict
    BY <1>4 DEF SerialHost, HostIdle, HostWriteWord, HostWriteCrc,
       HostWriteNext, HostReadStart, HostReadWord, HostReadCrc
  <2>2. CASE HostWait BY <1>4, <2>2 DEF HostWait, Go, Aborted
  <2>3. CASE HostWriteToken
    BY <1>1, <1>4, <2>3 DEF HostWriteToken, Go, Aborted
  <2>4. CASE HostWriteVerdict
    BY <1>1, <1>4, <2>4 DEF HostWriteVerdict, Go, Aborted
  <2> QED BY <2>1, <2>2, <2>3, <2>4
<1>5. CASE sh_state = "WRITE_BUSY"
  <2>1. HostWait \/ HostWriteNext
    BY <1>5 DEF SerialHost, HostIdle, HostWriteWord, HostWriteCrc,
       HostWriteToken, HostWriteVerdict, HostReadStart, HostReadWord,
       HostReadCrc
  <2>2. CASE HostWait BY <1>5, <2>2 DEF HostWait, Go, Aborted
  <2>3. CASE HostWriteNext
    BY <1>1, <1>5, <2>3 DEF HostWriteNext, Go, Aborted
  <2> QED BY <2>1, <2>2, <2>3
<1> QED BY <1>2, <1>3, <1>4, <1>5 DEF TxHost

\* Each word of a block that goes out is one word more for the card.
LEMMA WriteCount ==
  ASSUME TInv, TxHost, SerialHost, state = "DATA_TRANSFER", ~Aborted,
         sh_state' = "WRITE_DAT"
  PROVE  Len(card') = Sent(transf_cnt)'
<1> DEFINE p == (Blocks - 1 - blkcnt_reg) * BlockWords
<1>1. /\ p \in Nat /\ transf_cnt \in Nat /\ card \in Seq(Nat) /\ Len(card) \in Nat
      /\ BlockWords \in Nat /\ blkcnt_reg \in 0 .. Blocks - 1
      /\ fifo_dout \in Nat
  BY Products, Sizes DEF TInv, HostType, FifoType
<1>2. CASE sh_state = "WRITE_DAT" /\ UNCHANGED <<card, transf_cnt, blkcnt_reg>>
  BY <1>2 DEF TxHost, Sent
<1>3. CASE /\ sh_state = "WRITE_DAT" /\ card' = Append(card, fifo_dout)
           /\ transf_cnt' = transf_cnt + 1 /\ UNCHANGED blkcnt_reg
  <2>1. Len(card) = p + transf_cnt /\ Sent(transf_cnt)' = p + (transf_cnt + 1)
    BY <1>3 DEF TxHost, Sent
  <2>2. Len(card') = Len(card) + 1 BY <1>1, <1>3
  <2> HIDE DEF p
  <2> QED BY <1>1, <2>1, <2>2
<1>4. CASE /\ sh_state = "WRITE_BUSY" /\ card' = card /\ blkcnt_reg # 0
           /\ blkcnt_reg' = blkcnt_reg - 1 /\ transf_cnt' = 0
  <2> DEFINE q == (Blocks - 1 - (blkcnt_reg - 1)) * BlockWords
  <2>1. q = p + BlockWords BY <1>1, <1>4, Products
  <2>2. Len(card') = p + BlockWords /\ Sent(transf_cnt)' = q + 0
    BY <1>4 DEF TxHost, Sent
  <2> HIDE DEF p, q
  <2> QED BY <1>1, <2>1, <2>2
<1> QED BY <1>2, <1>3, <1>4, WriteHostStep

\* The FIFO of a write after an edge: it holds what was fetched and has not
\* gone to the card.
LEMMA WritePort ==
  ASSUME TInv, FlowInv, AnyEdge, state = "DATA_TRANSFER", dir = "tx"
  PROVE  /\ Len(fifo') \in Nat /\ m_bus_adr' = Len(card) + Len(fifo')
         /\ \A i \in 1 .. Len(fifo') : fifo'[i] = Len(card) + i
         /\ m_axi_cyc' => beats' <= fifo_free_len'
<1> USE EdgeParts DEF FlowInv
<1>1. /\ ~en_rx_fifo /\ en_tx_fifo /\ ~en_rx_fifo' /\ en_tx_fifo'
      /\ TxHost /\ TxWords
      /\ m_axi_cyc => beats <= fifo_free_len
  BY TransferEdge DEF PhaseInv, TxInv, enabled
<1>2. /\ Len(fifo) \in Nat /\ m_bus_adr \in Nat /\ fifo \in Seq(Nat)
      /\ Len(card) \in Nat /\ card \in Seq(Nat) /\ Popped \in Nat
      /\ beats \in Nat
  BY <1>1, Lengths, PoppedNat, Sizes
     DEF TInv, BufferType, FifoType, HostType, AxiType
<1>3. CASE Posedge
  <2>1. IF rd THEN Pop ELSE UNCHANGED fifoVars
    BY <1>1, <1>3 DEF Posedge, FifoPosedge, FifoReset
  <2>2. m_bus_adr' = m_bus_adr /\ UNCHANGED <<m_axi_cyc, beats>>
    BY <1>1, <1>3, PlainEdge
  <2>3. /\ Len(fifo') \in Nat /\ Len(fifo') <= Len(fifo)
        /\ m_bus_adr = Len(card) + Len(fifo')
        /\ \A i \in 1 .. Len(fifo') : fifo'[i] = Len(card) + i
    <3>1. CASE rd
      <4>1. fifo # <<>> BY <1>1, <3>1 DEF TxHost
      <4>2. fifo' = Tail(fifo) BY <2>1, <3>1, <4>1 DEF Pop, fifo_empty
      <4>3. /\ Len(fifo') = Len(fifo) - 1 /\ Len(fifo) # 0
            /\ \A i \in 1 .. Len(fifo') : fifo'[i] = fifo[i + 1]
        BY <1>2, <4>1, <4>2
      <4>0. Popped \in Nat /\ Len(card) \in Nat BY <1>2
      <4>4. Popped + 1 = Len(card) BY <4>0, <3>1 DEF Popped
      <4>5. Len(fifo') \in Nat /\ Len(fifo') <= Len(fifo) BY <1>2, <4>3
      <4>6. m_bus_adr = Len(card) + Len(fifo')
        <5>1. m_bus_adr = Popped + Len(fifo) BY <1>1 DEF TxWords
        <5>2. Len(fifo) = Len(fifo') + 1 BY <1>2, <4>3
        <5> QED BY <4>0, <4>4, <4>5, <5>1, <5>2
      <4>7. ASSUME NEW i \in 1 .. Len(fifo') PROVE fifo'[i] = Len(card) + i
        <5>1. i \in Nat /\ i + 1 \in 1 .. Len(fifo) BY <1>2, <4>3
        <5>2. fifo'[i] = Popped + (i + 1) BY <1>1, <4>3, <5>1 DEF TxWords
        <5> QED BY <4>0, <4>4, <5>1, <5>2
      <4> QED BY <4>5, <4>6, <4>7
    <3>2. CASE ~rd
      <4>1. Popped = Len(card) /\ fifo' = fifo
        BY <1>2, <2>1, <3>2 DEF Popped, fifoVars
      <4> QED BY <1>1, <1>2, <4>1 DEF TxWords
    <3> QED BY <3>1, <3>2
  <2>4. m_axi_cyc' => beats' <= fifo_free_len'
    <3>1. \A c, f, l, m \in Nat : c <= f - 1 - l /\ m <= l => c <= f - 1 - m
      OBVIOUS
    <3>2. m_axi_cyc => beats <= FifoSize - 1 - Len(fifo)
      BY <1>1 DEF fifo_free_len
    <3>3. m_axi_cyc => beats <= FifoSize - 1 - Len(fifo')
      BY <1>2, <2>3, <3>1, <3>2, Sizes
    <3> QED BY <2>2, <3>3 DEF fifo_free_len
  <2> QED BY <2>2, <2>3, <2>4
<1>4. CASE PosedgeRBeat
  <2>1. /\ rd /\ PushPop(m_bus_adr + 1) /\ m_axi_cyc /\ beats' = beats - 1
        /\ m_bus_adr' = m_bus_adr + 1
    BY <1>1, <1>4 DEF PosedgeRBeat, FifoReset, ReadBeat, Reload
  <2>2. fifo # <<>> BY <1>1, <2>1 DEF TxHost
  <2>3. beats <= FifoSize - 1 - Len(fifo) /\ ~fifo_full
    <3>1. beats <= FifoSize - 1 - Len(fifo) /\ beats # 0
      BY <1>1, <2>1 DEF fifo_free_len, TInv, AxiType
    <3> QED BY <1>2, <3>1, Sizes DEF fifo_full
  <2>4. m_bus_adr + 1 \in Nat BY <1>2
  <2>5. /\ Len(fifo) # 0 /\ Len(fifo') = Len(fifo)
        /\ \A i \in 1 .. Len(fifo) - 1 : fifo'[i] = fifo[i + 1]
        /\ fifo'[Len(fifo)] = m_bus_adr + 1
    BY <2>1, <2>2, <2>3, <2>4, PushPopFacts DEF TInv
  <2>6. Popped + 1 = Len(card) BY <1>2, <2>1 DEF Popped
  <2>7. m_bus_adr = Popped + Len(fifo) BY <1>1 DEF TxWords
  <2>0. Popped \in Nat /\ Len(card) \in Nat /\ Len(fifo) \in Nat BY <1>2
  <2>8. m_bus_adr' = Len(card) + Len(fifo')
    <3>1. Len(fifo') = Len(fifo) /\ m_bus_adr' = m_bus_adr + 1 BY <2>1, <2>5
    <3>2. \A c, l, q, a \in Nat : q + 1 = c /\ a = q + l => a + 1 = c + l
      OBVIOUS
    <3> QED BY <1>2, <2>0, <2>6, <2>7, <3>1, <3>2
  <2>9. ASSUME NEW i \in 1 .. Len(fifo') PROVE fifo'[i] = Len(card) + i
    <3>1. i \in Nat /\ (i \in 1 .. Len(fifo) - 1 \/ i = Len(fifo))
      BY <1>2, <2>5
    <3>2. CASE i \in 1 .. Len(fifo) - 1
      <4>1. i + 1 \in 1 .. Len(fifo) BY <1>2, <3>2
      <4>2. fifo[i + 1] = Popped + (i + 1) BY <1>1, <4>1 DEF TxWords
      <4>3. fifo'[i] = fifo[i + 1] BY <2>5, <3>2
      <4>4. \A c, q, j \in Nat : q + 1 = c => q + (j + 1) = c + j OBVIOUS
      <4> QED BY <2>0, <2>6, <3>1, <4>2, <4>3, <4>4
    <3>3. CASE i = Len(fifo)
      <4>1. fifo'[i] = m_bus_adr + 1 BY <2>5, <3>3
      <4> QED BY <2>0, <2>6, <2>7, <3>3, <4>1
    <3> QED BY <3>1, <3>2, <3>3
  <2>10. beats' <= fifo_free_len'
    BY <1>2, <2>1, <2>3, <2>5, Sizes DEF fifo_free_len
  <2> QED BY <1>2, <2>5, <2>8, <2>9, <2>10
<1>5. ~PosedgeWBeat BY <1>1 DEF PosedgeWBeat
<1> QED BY <1>3, <1>4, <1>5 DEF AnyEdge

LEMMA WriteEdge ==
  ASSUME TInv, HeadIsOut, FlowInv, AnyEdge, state = "DATA_TRANSFER", dir = "tx"
  PROVE  FlowInv'
<1> USE EdgeParts DEF FlowInv
<1>1. /\ ~en_rx_fifo /\ en_tx_fifo /\ ~en_rx_fifo' /\ en_tx_fifo'
      /\ TxHost /\ TxWords
  BY TransferEdge DEF PhaseInv, TxInv, enabled
<1>2. /\ Len(fifo) \in Nat /\ m_bus_adr \in Nat /\ fifo \in Seq(Nat)
      /\ Len(card) \in Nat /\ card \in Seq(Nat) /\ Popped \in Nat
      /\ fifo_dout \in Nat
  BY <1>1, Lengths, PoppedNat DEF TInv, BufferType, FifoType, HostType
<1>4. /\ Len(fifo') \in Nat /\ m_bus_adr' = Len(card) + Len(fifo')
      /\ \A i \in 1 .. Len(fifo') : fifo'[i] = Len(card) + i
  BY WritePort
<1>5. en_tx_fifo' /\ m_axi_cyc' => beats' <= fifo_free_len' BY WritePort
<1>6. ASSUME ~rd', card' = card PROVE TxWords'
  <2>1. Popped' = Len(card) BY <1>2, <1>6 DEF Popped
  <2> QED BY <1>1, <1>2, <1>4, <1>6, <2>1 DEF TxWords
<1>7. ASSUME state' # "IDLE" PROVE TxHost' /\ TxWords'
  <2>1. ~FifoFault /\ ~d_write' /\ ~d_read' /\ ~Aborted
        /\ state' = "DATA_TRANSFER"
    BY <1>7, TransferEdge
  <2>2. fifo # <<>> BY <1>1, <2>1 DEF FifoFault, fifo_empty
  <2>3. ~we' BY <1>1, <2>1, WriteHostStep
  <2>4. CASE /\ ~rd' /\ sh_state' = sh_state /\ sh_state # "IDLE"
             /\ UNCHANGED <<card, transf_cnt, blkcnt_reg>>
    <3>1. Sent(BlockWords)' = Sent(BlockWords)
          /\ Sent(transf_cnt)' = Sent(transf_cnt)
      BY <2>4 DEF Sent
    <3> QED BY <1>1, <1>6, <2>1, <2>3, <2>4, <3>1 DEF TxHost
  <2>5. CASE /\ ~rd' /\ sh_state = "IDLE" /\ sh_state' = "IDLE"
             /\ UNCHANGED <<card, crc_ok>>
    BY <1>1, <1>6, <2>1, <2>3, <2>5 DEF TxHost
  <2>6. CASE /\ sh_state = "WRITE_DAT" /\ sh_state' = "WRITE_DAT" /\ ~rd /\ rd'
             /\ card' = Append(card, fifo_dout)
             /\ transf_cnt' = transf_cnt + 1 /\ UNCHANGED blkcnt_reg
    <3>1. fifo' = fifo
      BY <1>1, <2>6
         DEF AnyEdge, Posedge, PosedgeWBeat, PosedgeRBeat, FifoPosedge,
             FifoReset, fifoVars
    <3>2. Len(fifo) >= 1 BY <1>2, <2>2
    <3>3. fifo_dout = Len(card) + 1
      BY <1>4, <2>2, <3>1, <3>2 DEF HeadIsOut
    <3>4. /\ Len(card') = Len(card) + 1 /\ card' # <<>>
          /\ card'[Len(card) + 1] = Len(card) + 1
          /\ \A i \in 1 .. Len(card) : card'[i] = card[i]
      <4> DEFINE n == Len(card) + 1
      <4>1. n \in Nat /\ n = Len(card) + 1 /\ card \in Seq(Nat) BY <1>2
      <4>2. card' = Append(card, n) BY <2>6, <3>3
      <4> HIDE DEF n
      <4> QED BY <4>1, <4>2
    <3>5. Popped' = Len(card) BY <1>2, <2>6, <3>4 DEF Popped
    <3>6. ASSUME NEW i \in 1 .. Len(card') PROVE card'[i] = i
      <4>1. i \in 1 .. Len(card) \/ i = Len(card) + 1 BY <1>2, <3>4
      <4>2. CASE i \in 1 .. Len(card) BY <1>1, <3>4, <4>2 DEF TxWords
      <4> QED BY <3>4, <4>1, <4>2
    <3>7. TxWords' BY <1>1, <1>4, <3>5, <3>6 DEF TxWords
    <3>8. Len(card') = Sent(transf_cnt)'
      BY <1>1, <2>1, <2>6, WriteCount
    <3>9. TxHost' BY <2>1, <2>2, <2>3, <2>6, <3>1, <3>4, <3>8 DEF TxHost
    <3> QED BY <3>7, <3>9
  <2>7. CASE /\ sh_state # "IDLE" /\ ~rd /\ ~rd' /\ UNCHANGED <<card, blkcnt_reg>>
             /\ sh_state = "WRITE_DAT" => transf_cnt = BlockWords
             /\ sh_state' \in {"WRITE_WAIT", "WRITE_DRT", "WRITE_BUSY"}
    <3>1. Len(card) = Sent(BlockWords) BY <1>1, <2>7 DEF TxHost
    <3>2. Sent(BlockWords)' = Sent(BlockWords) BY <2>7 DEF Sent
    <3> QED BY <1>6, <2>1, <2>3, <2>7, <3>1, <3>2 DEF TxHost
  <2>8. CASE /\ sh_state = "WRITE_BUSY" /\ ~rd' /\ UNCHANGED card
             /\ \/ /\ sh_state' = "WRITE_DAT" /\ blkcnt_reg # 0
                   /\ blkcnt_reg' = blkcnt_reg - 1 /\ transf_cnt' = 0
                \/ /\ sh_state' = "IDLE" /\ (crc_ok' => blkcnt_reg = 0)
    <3>1. Len(card) = Sent(BlockWords) BY <1>1, <2>8 DEF TxHost
    <3>2. CASE sh_state' = "WRITE_DAT"
      <4>1. Len(card') = Sent(transf_cnt)'
        BY <1>1, <2>1, <3>2, WriteCount
      <4> QED BY <1>6, <2>1, <2>3, <2>8, <3>2, <4>1 DEF TxHost
    <3>3. CASE sh_state' = "IDLE" /\ (crc_ok' => blkcnt_reg = 0)
      <4>1. blkcnt_reg = 0 => Sent(BlockWords) = Words
        BY Products DEF Sent, TInv, HostType
      <4> QED BY <1>6, <2>1, <2>3, <2>8, <3>1, <3>3, <4>1 DEF TxHost
    <3> QED BY <2>8, <3>2, <3>3
  <2> QED BY <1>1, <2>1, <2>4, <2>5, <2>6, <2>7, <2>8, WriteHostStep
<1>8. ASSUME Finished'
      PROVE  (\A i \in 1 .. Len(card') : card'[i] = i) /\ Len(card') = Words
  <2>1. crc_ok /\ sh_state = "IDLE" BY <1>8, TransferEdge
  <2>2. Len(card) = Words /\ ~d_write /\ ~d_read
    BY <1>1, <2>1 DEF TxHost
  <2>3. card' = card BY <2>1, <2>2, HostRests
  <2> QED BY <1>1, <2>2, <2>3 DEF TxWords
<1>9. TxInv' BY <1>5, <1>7, <1>8 DEF TxInv
<1>10. RxInv' BY DEF RxInv
<1> QED BY <1>9, <1>10, TransferEdge

-----------------------------------------------------------------------------
\* Before the transfer moves words there is no beat on an edge.
LEMMA StartIsPlain ==
  ASSUME FlowInv, AnyEdge, Starting
  PROVE  Posedge
<1>1. ~(en_rx_fifo /\ we) /\ ~(en_tx_fifo /\ rd)
  BY DEF FlowInv, PhaseInv, RxInv, TxInv, Starting, RxHost, TxHost
<1> QED BY <1>1 DEF AnyEdge, PosedgeWBeat, PosedgeRBeat

LEMMA EdgeFlow == ASSUME TInv, HeadIsOut, FlowInv, AnyEdge PROVE FlowInv'
BY IdleEdge, StartIsPlain, StartRxEdge, StartTxEdge, ReadEdge, WriteEdge
   DEF TInv, MasterType, BufferType, Starting

LEMMA InitFlow == Init => FlowInv
<1> SUFFICES ASSUME Init PROVE FlowInv OBVIOUS
<1> USE DEF Init
<1>1. PhaseInv BY DEF PhaseInv, enabled
<1>2. HostInv BY DEF HostInv, Starting, Finished, enabled
<1>3. RxInv BY DEF RxInv, Bound, Finished
<1>4. TxInv BY DEF TxInv
<1> QED BY <1>1, <1>2, <1>3, <1>4 DEF FlowInv

LEMMA StutterFlow == ASSUME FlowInv, UNCHANGED vars PROVE FlowInv'
<1>1. Still /\ UNCHANGED <<m_axi_cyc, m_axi_wvalid, beats>>
  BY DEF vars, axiVars, Still
<1> QED BY <1>1, StillFlow
        DEF FlowInv, PhaseInv, RxInv, TxInv, Bound, Still, fifoVars, masterVars

LEMMA NextFlow == TInv /\ HeadIsOut /\ FlowInv /\ [Next]_vars => FlowInv'
BY EdgeFlow, RxBurstFlow, TxBurstFlow, AwAcceptFlow, WBeatFlow, BRespFlow,
   RBeatFlow, CmdStartFlow, ClearStatusFlow, StutterFlow
   DEF Next, AnyEdge

LEMMA InvarianceFlow == Spec => []FlowInv
BY InitFlow, NextFlow, InvarianceT, OutputIsHead, PTL DEF Spec

\* A completed transfer is a finished one.
LEMMA CompletedFinished == Completed => Finished
BY DEF Completed, Finished, data_int_status_reg

-----------------------------------------------------------------------------
\* The DMA engine writes nothing outside the buffer of the read, not even
\* with the beats that follow a FIFO fault or a timeout.
THEOREM DmaStaysInBuffer == Spec => []DmaInBuffer
<1>1. TInv /\ FlowInv => DmaInBuffer
  BY DEF TInv, AxiType, FlowInv, PhaseInv, RxInv, Bound, DmaInBuffer
<1> QED BY <1>1, InvarianceT, InvarianceFlow, PTL

\* A read that reports completion has put every word at its place.
THEOREM ReadsAreWhole == Spec => []ReadIntegrity
<1>1. FlowInv => ReadIntegrity
  BY CompletedFinished DEF FlowInv, RxInv, ReadIntegrity
<1> QED BY <1>1, InvarianceFlow, PTL

\* A write that reports completion has sent every word once and in order.
THEOREM WritesAreWhole == Spec => []WriteIntegrity
<1>1. TInv /\ FlowInv => WriteIntegrity
  <2> SUFFICES ASSUME TInv, FlowInv, Completed, dir = "tx"
               PROVE  card = [i \in 1 .. Words |-> i]
    BY DEF WriteIntegrity
  <2>1. Len(card) = Words /\ \A i \in 1 .. Len(card) : card[i] = i
    BY CompletedFinished DEF FlowInv, TxInv
  <2>2. card \in Seq(Nat) BY DEF TInv, HostType
  <2>3. card = [i \in 1 .. Len(card) |-> card[i]] BY <2>2
  <2> QED BY <2>1, <2>3
<1> QED BY <1>1, InvarianceT, InvarianceFlow, PTL

-----------------------------------------------------------------------------
(* The refinement of SdTransfer: first, what its steps need to know beyond  *)
(* FlowInv.                                                                 *)

\* A status that can be reported: complete, or an error and what it is; a
\* transfer that has ended has one, and a driver clears no other.
StatusInv ==
  /\ "EI" \notin int_status => int_status \subseteq {"CC"}
  /\ "EI" \in int_status =>
       \E b \in {"CCRCE", "CBE", "CFE", "CTE"} : b \in int_status
  /\ state = "IDLE" /\ enabled => int_status # {}
  /\ data_int_rst => data_int_status_reg # {}

\* The bus is not quiet between the address and the response of a burst.
BusInv ==
  /\ m_axi_awvalid => m_axi_wvalid
  /\ m_axi_wvalid /\ ~m_axi_awvalid => m_axi_bresp_cnt # 0

\* From its start to its last beat, a read has written nothing yet at the
\* addresses ahead.
AheadInv ==
  dir = "rx" /\ (start # "none" \/ state # "IDLE" \/ enabled \/ m_axi_cyc) =>
    \A a \in Offsets : a >= m_bus_adr => mem[a] = Stale

\* The card is sent no more words than the transfer has, nor in a read.
CardInv ==
  /\ Len(card) <= Words
  /\ dir = "rx" => sh_state \in {"IDLE", "READ_WAIT", "READ_DAT"}
  /\ dir = "tx" /\ sh_state = "WRITE_DAT" => Len(card) = Sent(transf_cnt)

MoveInv == StatusInv /\ BusInv /\ AheadInv /\ CardInv

LEMMA InitMove == Init => MoveInv
<1> SUFFICES ASSUME Init PROVE MoveInv OBVIOUS
<1> USE DEF Init
<1>1. StatusInv BY DEF StatusInv, enabled
<1>2. BusInv BY DEF BusInv
<1>3. AheadInv BY DEF AheadInv
<1>4. CardInv BY WordsNat DEF CardInv
<1> QED BY <1>1, <1>2, <1>3, <1>4 DEF MoveInv

\* What a driver reads when a transfer has gone well, and when it has not.
LEMMA StatusRead ==
  ASSUME StatusInv
  PROVE  /\ "EI" \in int_status => "EI" \in data_int_status_reg
         /\ enabled \/ bus_cycle => data_int_status_reg = int_status \ {"CC"}
         /\ ~(enabled \/ bus_cycle) => data_int_status_reg = int_status
         /\ int_status # {} /\ "EI" \notin int_status => int_status = {"CC"}
BY DEF StatusInv, data_int_status_reg

\* The bus has something outstanding on every step of it.
LEMMA BusBusy ==
  ASSUME TInv, BusInv
  PROVE  /\ AwAccept => bus_cycle /\ bus_cycle'
         /\ WBeat => bus_cycle /\ bus_cycle'
         /\ BResp => bus_cycle
         /\ RBeat => bus_cycle
         /\ RxBurst => enabled /\ bus_cycle'
         /\ TxBurst => enabled /\ bus_cycle'
<1>1. m_axi_bresp_cnt \in Nat BY Sizes DEF TInv, AxiType
<1>2. AwAccept => bus_cycle /\ bus_cycle'
  BY <1>1 DEF AwAccept, BusInv, TInv, AxiType, bus_cycle
<1>3. WBeat => bus_cycle /\ bus_cycle'
  BY <1>1 DEF WBeat, WriteBeat, BusInv, TInv, AxiType, bus_cycle
<1>4. BResp => bus_cycle BY <1>1 DEF BResp, bus_cycle
<1>5. RBeat => bus_cycle BY DEF RBeat, ReadBeat, bus_cycle
<1>6. RxBurst => enabled /\ bus_cycle'
  BY DEF RxBurst, rx_stb, bus_cycle, enabled
<1>7. TxBurst => enabled /\ bus_cycle'
  BY DEF TxBurst, tx_stb, bus_cycle, enabled
<1> QED BY <1>2, <1>3, <1>4, <1>5, <1>6, <1>7

OnBus == RxBurst \/ TxBurst \/ AwAccept \/ WBeat \/ BResp \/ RBeat

LEMMA OnBusKeeps ==
  ASSUME OnBus
  PROVE  /\ UNCHANGED <<start, data_int_rst, masterVars, hostVars, dir, card>>
         /\ enabled' = enabled
BY DEF OnBus, RxBurst, TxBurst, AwAccept, WBeat, BResp, RBeat, masterVars,
       ghostVars, enabled

LEMMA OnBusMove ==
  ASSUME TInv, FlowInv, MoveInv, OnBus
  PROVE  MoveInv'
<1> USE OnBusKeeps DEF MoveInv
<1>1. StatusInv'
  <2>1. ASSUME data_int_rst PROVE data_int_status_reg' # {}
    <3>1. CASE "EI" \in int_status
      BY <3>1 DEF data_int_status_reg, masterVars
    <3>2. CASE "EI" \notin int_status
      <4>1. ~enabled /\ ~bus_cycle
        BY <2>1, <3>2, StatusRead DEF StatusInv
      <4> QED BY <4>1, BusBusy DEF OnBus
    <3> QED BY <3>1, <3>2
  <2> QED BY <2>1 DEF StatusInv, masterVars
<1>2. BusInv'
  <2>1. m_axi_bresp_cnt \in Nat BY Sizes DEF TInv, AxiType
  <2>2. CASE RxBurst BY <2>2 DEF RxBurst, BusInv
  <2>3. CASE TxBurst BY <2>3 DEF TxBurst, BusInv
  <2>4. CASE AwAccept BY <2>1, <2>4 DEF AwAccept, BusInv
  <2>5. CASE WBeat BY <2>5 DEF WBeat, WriteBeat, BusInv
  <2>6. CASE BResp BY <2>1, <2>6 DEF BResp, BusInv
  <2>7. CASE RBeat BY <2>7 DEF RBeat, ReadBeat, BusInv
  <2> QED BY <2>2, <2>3, <2>4, <2>5, <2>6, <2>7 DEF OnBus
<1>3. AheadInv'
  <2>1. SUFFICES ASSUME dir = "rx" PROVE AheadInv' BY DEF AheadInv
  <2>2. CASE RxBurst \/ TxBurst \/ AwAccept \/ BResp
    <3>1. UNCHANGED <<mem, m_bus_adr>> /\ (m_axi_cyc' => enabled \/ m_axi_cyc)
      <4>1. CASE RxBurst \/ TxBurst
        BY <4>1, BusBusy DEF RxBurst, TxBurst, ghostVars
      <4>2. CASE AwAccept \/ BResp BY <4>2 DEF AwAccept, BResp, ghostVars
      <4> QED BY <2>2, <4>1, <4>2
    <3> QED BY <3>1 DEF AheadInv, masterVars
  <2>3. CASE WBeat
    <3>1. m_bus_adr \in Nat /\ mem \in [Offsets -> Nat] /\ m_axi_cyc
      BY <2>3 DEF TInv, BufferType, WBeat, WriteBeat, AxiType
    <3>2. m_axi_cyc' \/ enabled => m_bus_adr' = m_bus_adr + 1
      BY <2>3 DEF WBeat, WriteBeat, Reload, enabled, masterVars
    <3>3. start = "none" /\ (state # "IDLE" => enabled)
      BY <3>1 DEF FlowInv, PhaseInv, HostInv, Starting, TInv, MasterType
    <3>4. ASSUME NEW a \in Offsets, m_axi_cyc' \/ enabled, a >= m_bus_adr'
          PROVE  mem'[a] = Stale
      <4>1. a \in Nat BY WordsNat DEF Offsets
      <4>2. a >= m_bus_adr /\ a # m_bus_adr BY <3>1, <3>2, <3>4, <4>1
      <4>3. mem[a] = Stale BY <2>1, <3>1, <4>2 DEF AheadInv
      <4> QED BY <2>3, <3>1, <4>2, <4>3 DEF WBeat, WriteBeat
    <3> QED BY <3>3, <3>4 DEF AheadInv, masterVars
  <2>4. ~RBeat BY <2>1 DEF RBeat, ReadBeat, FlowInv, PhaseInv
  <2> QED BY <2>2, <2>3, <2>4 DEF OnBus
<1>4. CardInv' BY DEF CardInv, Sent, hostVars
<1> QED BY <1>1, <1>2, <1>3, <1>4

LEMMA CmdStartMove ==
  ASSUME TInv, FlowInv, MoveInv, CmdStart
  PROVE  MoveInv'
<1> USE DEF MoveInv, CmdStart, masterVars, hostVars
<1>1. StatusInv' BY DEF StatusInv, enabled
<1>2. BusInv' BY DEF BusInv
<1>3. AheadInv' BY DEF AheadInv
<1>4. CardInv' BY WordsNat DEF CardInv, FlowInv, PhaseInv
<1> QED BY <1>1, <1>2, <1>3, <1>4

LEMMA ClearStatusMove ==
  ASSUME TInv, FlowInv, MoveInv, ClearStatus
  PROVE  MoveInv'
<1> USE DEF MoveInv, ClearStatus, masterVars, hostVars, axiVars, ghostVars
<1>1. StatusInv'
  BY DEF StatusInv, data_int_status_reg, enabled, bus_cycle
<1>2. BusInv' BY DEF BusInv
<1>3. AheadInv' BY DEF AheadInv, enabled
<1>4. CardInv' BY DEF CardInv, Sent
<1> QED BY <1>1, <1>2, <1>3, <1>4

\* The host sends the card one word on an edge, or none.
LEMMA CardStep ==
  ASSUME SerialHost
  PROVE  \/ card' = card
         \/ /\ sh_state = "WRITE_DAT" /\ transf_cnt < BlockWords
            /\ card' = Append(card, fifo_dout)
BY DEF SerialHost, HostIdle, HostWait, HostWriteWord, HostWriteCrc,
       HostWriteToken, HostWriteVerdict, HostWriteNext, HostReadStart,
       HostReadWord, HostReadCrc

LEMMA EdgeMove ==
  ASSUME TInv, HeadIsOut, FlowInv, MoveInv, AnyEdge
  PROVE  MoveInv'
<1> USE EdgeParts DEF MoveInv
<1>0. FlowInv' BY EdgeFlow
<1>1. StatusInv'
  <2>1. CASE state = "IDLE"
    <3>1. MasterIdle BY <2>1, MasterByState DEF TInv
    <3>2. int_status' \in {{}, int_status} /\ ~enabled'
      BY <3>1 DEF MasterIdle, Report, enabled
    <3> QED BY <3>2 DEF StatusInv
  <2>2. CASE Starting
    <3>1. state' # "IDLE"
      BY <2>2, MasterByState
         DEF Starting, TInv, MasterStartRx, MasterStartTx
    <3>2. int_status' = {} BY <1>0, <3>1 DEF FlowInv, PhaseInv
    <3> QED BY <3>1, <3>2 DEF StatusInv
  <2>3. CASE state = "DATA_TRANSFER"
    <3>1. CASE state' # "IDLE"
      BY <1>0, <3>1 DEF StatusInv, FlowInv, PhaseInv
    <3>2. CASE int_status' \in {{"CFE", "EI"}, {"CTE", "EI"}}
      BY <3>2 DEF StatusInv
    <3>3. CASE MasterComplete
      <4>1. int_status' = {"CC"}
                  \cup (IF crc_ok THEN {} ELSE {"CCRCE", "EI"})
                  \cup (IF m_bus_error THEN {"CBE", "EI"} ELSE {})
        BY <2>3, <3>3 DEF MasterComplete, Report, FlowInv, PhaseInv
      <4> QED BY <4>1 DEF StatusInv
    <3> QED BY <2>3, <3>1, <3>2, <3>3, TransferEdge
  <2> QED BY <2>1, <2>2, <2>3 DEF TInv, MasterType, Starting
<1>2. BusInv'
  <2>1. CASE Posedge BY <2>1 DEF BusInv, Posedge, axiVars
  <2>2. CASE PosedgeWBeat BY <2>2 DEF BusInv, PosedgeWBeat, WriteBeat
  <2>3. CASE PosedgeRBeat BY <2>3 DEF BusInv, PosedgeRBeat, ReadBeat
  <2> QED BY <2>1, <2>2, <2>3 DEF AnyEdge
<1>3. AheadInv'
  <2> DEFINE busy == start # "none" \/ state # "IDLE" \/ enabled \/ m_axi_cyc
  <2>1. ASSUME state # "IDLE" PROVE en_rx_fifo' \/ en_tx_fifo'
    <3>1. CASE Starting
      BY <3>1, MasterByState DEF Starting, TInv, MasterStartRx, MasterStartTx
    <3>2. CASE state = "DATA_TRANSFER"
      BY <3>2, TransferEdge DEF enabled
    <3> QED BY <2>1, <3>1, <3>2 DEF TInv, MasterType, Starting
  <2>2. ASSUME state = "IDLE"
        PROVE  /\ ~en_rx_fifo' /\ ~en_tx_fifo' /\ ~enabled'
               /\ state' # "IDLE" => start # "none"
    <3>1. MasterIdle BY <2>2, MasterByState DEF TInv
    <3> QED BY <3>1 DEF MasterIdle, enabled
  <2>3. busy' => busy BY <2>1, <2>2, EdgeBus
  <2>4. CASE Posedge
    <3>1. busy' => m_bus_adr' = m_bus_adr
      <4>1. start # "none" => m_bus_adr = 0 BY DEF FlowInv, PhaseInv
      <4>2. m_axi_cyc \/ en_rx_fifo' \/ en_tx_fifo' => m_bus_adr' = m_bus_adr
        BY <2>4, PlainEdge
      <4>3. m_bus_adr' \in {0, m_bus_adr} BY <2>4, PlainEdge
      <4> QED BY <2>1, <2>2, <4>1, <4>2, <4>3, EdgeBus
    <3> QED BY <2>3, <2>4, <3>1, PlainEdge DEF AheadInv
  <2>5. CASE PosedgeWBeat
    <3>1. m_bus_adr \in Nat /\ mem \in [Offsets -> Nat] /\ m_axi_cyc
          /\ WriteBeat
      BY <2>5 DEF TInv, BufferType, PosedgeWBeat, WriteBeat, AxiType
    <3>2. start = "none" BY <3>1 DEF FlowInv, PhaseInv
    <3>3. busy' => m_axi_cyc' \/ en_rx_fifo' \/ en_tx_fifo'
      BY <2>1, <2>2, <3>2
    <3>4. busy' => m_bus_adr' = m_bus_adr + 1
      BY <3>1, <3>3 DEF WriteBeat, Reload
    <3>5. ASSUME NEW a \in Offsets, busy', dir = "rx", a >= m_bus_adr'
          PROVE  mem'[a] = Stale
      <4>1. a \in Nat BY WordsNat DEF Offsets
      <4>2. a >= m_bus_adr /\ a # m_bus_adr BY <3>1, <3>4, <3>5, <4>1
      <4>3. mem[a] = Stale BY <2>3, <3>5, <4>2 DEF AheadInv
      <4> QED BY <3>1, <4>2, <4>3 DEF WriteBeat
    <3> QED BY <3>5 DEF AheadInv
  <2>6. CASE PosedgeRBeat
    <3>1. dir # "rx"
      BY <2>6 DEF PosedgeRBeat, ReadBeat, FlowInv, PhaseInv
    <3> QED BY <3>1 DEF AheadInv
  <2> QED BY <2>4, <2>5, <2>6 DEF AnyEdge
<1>4. CardInv'
  <2>1. Len(card') <= Words
    <3>1. CASE card' = card BY <3>1 DEF CardInv
    <3>2. CASE /\ sh_state = "WRITE_DAT" /\ transf_cnt < BlockWords
               /\ card' = Append(card, fifo_dout)
      <4>1. dir = "tx" BY <3>2 DEF CardInv, TInv, BufferType
      <4>2. Len(card) = Sent(transf_cnt) BY <3>2, <4>1 DEF CardInv
      <4> DEFINE p == (Blocks - 1 - blkcnt_reg) * BlockWords
      <4>3. /\ p \in Nat /\ transf_cnt \in Nat /\ BlockWords \in Nat
            /\ p + BlockWords <= Words
        BY Products, Sizes DEF TInv, HostType
      <4>4. Len(card) = p + transf_cnt BY <4>2 DEF Sent
      <4>5. Len(card') = Len(card) + 1
        BY <3>2 DEF TInv, HostType, FifoType
      <4> HIDE DEF p
      <4> QED BY <3>2, <4>3, <4>4, <4>5, WordsNat
    <3> QED BY <3>1, <3>2, CardStep
  <2>2. CASE state' # "IDLE"
    BY <1>0, <2>1, <2>2 DEF CardInv, FlowInv, RxInv, TxInv, RxHost, TxHost
  <2>3. CASE state = "IDLE"
    <3>1. sh_state' = "IDLE"
      BY <2>3, HostRests, HostAborts DEF FlowInv, PhaseInv, HostInv
    <3> QED BY <2>1, <3>1 DEF CardInv
  <2>4. CASE state = "DATA_TRANSFER"
    <3>1. ~Aborted BY <2>4, TransferEdge
    <3>2. dir = "rx" => sh_state' \in {"IDLE", "READ_WAIT", "READ_DAT"}
      BY <2>4, <3>1, ReadHostStep DEF FlowInv, RxInv, RxHost
    <3>3. dir = "tx" /\ sh_state' = "WRITE_DAT"
            => Len(card') = Sent(transf_cnt)'
      BY <2>4, <3>1, WriteCount DEF FlowInv, TxInv
    <3> QED BY <2>1, <3>2, <3>3 DEF CardInv
  <2>5. Starting => state' # "IDLE"
    BY MasterByState
       DEF Starting, TInv, MasterStartRx, MasterStartTx
  <2> QED BY <2>2, <2>3, <2>4, <2>5 DEF TInv, MasterType, Starting
<1> QED BY <1>1, <1>2, <1>3, <1>4

LEMMA StutterMove == ASSUME MoveInv, UNCHANGED vars PROVE MoveInv'
BY DEF vars, MoveInv, StatusInv, BusInv, AheadInv, CardInv, Sent, enabled,
       data_int_status_reg, bus_cycle, masterVars, hostVars, axiVars, ghostVars

LEMMA NextMove ==
  TInv /\ HeadIsOut /\ FlowInv /\ MoveInv /\ [Next]_vars => MoveInv'
BY EdgeMove, OnBusMove, CmdStartMove, ClearStatusMove, StutterMove
   DEF Next, OnBus, AnyEdge

LEMMA InvarianceMove == Spec => []MoveInv
BY InitMove, NextMove, InvarianceT, OutputIsHead, InvarianceFlow, PTL DEF Spec

-----------------------------------------------------------------------------
(* The words at their place.                                               *)

InPlace == IF dir = "rx" THEN {a \in Offsets : mem[a] = a + 1}
                         ELSE {i \in 1 .. Len(card) : card[i] = i}

LEMMA PlacedBounds ==
  ASSUME TInv, CardInv
  PROVE  IsFiniteSet(InPlace) /\ Placed \in Nat /\ Placed <= Words
<1>1. Placed = Cardinality(InPlace) BY DEF Placed, InPlace
<1>2. Len(card) \in Nat BY DEF TInv, HostType
<1>3. IsFiniteSet(Offsets) /\ Cardinality(Offsets) = Words
  <2>1. /\ IsFiniteSet(Offsets)
        /\ Cardinality(Offsets) = IF 0 > Words - 1 THEN 0 ELSE (Words - 1) - 0 + 1
    BY FS_Interval, WordsNat DEF Offsets
  <2> QED BY <2>1, WordsNat
<1>4. IsFiniteSet(1 .. Len(card)) /\ Cardinality(1 .. Len(card)) = Len(card)
  <2>1. /\ IsFiniteSet(1 .. Len(card))
        /\ Cardinality(1 .. Len(card))
             = IF 1 > Len(card) THEN 0 ELSE Len(card) - 1 + 1
    BY <1>2, FS_Interval
  <2> QED BY <1>2, <2>1
<1>5. CASE dir = "rx"
  <2>1. InPlace \subseteq Offsets BY <1>5 DEF InPlace
  <2> QED BY <1>1, <1>3, <2>1, FS_Subset, FS_CardinalityType, WordsNat
<1>6. CASE dir # "rx"
  <2>1. InPlace \subseteq 1 .. Len(card) BY <1>6 DEF InPlace
  <2>2. IsFiniteSet(InPlace) /\ Cardinality(InPlace) <= Len(card)
    BY <1>4, <2>1, FS_Subset
  <2>3. Cardinality(InPlace) \in Nat BY <2>2, FS_CardinalityType
  <2> QED BY <1>1, <1>2, <2>2, <2>3, WordsNat DEF CardInv
<1> QED BY <1>5, <1>6

\* One word more is at its place, or none.
Gains(x) == InPlace' \in {InPlace, InPlace \cup {x}}

LEMMA PlacedGrows ==
  ASSUME TInv, CardInv, NEW x, Gains(x)
  PROVE  Placed' \in {Placed, Placed + 1}
<1>1. Placed = Cardinality(InPlace) /\ Placed' = Cardinality(InPlace')
  BY DEF Placed, InPlace
<1>2. IsFiniteSet(InPlace) /\ Placed \in Nat BY PlacedBounds
<1>3. Cardinality(InPlace \cup {x})
        = IF x \in InPlace THEN Cardinality(InPlace) ELSE Cardinality(InPlace) + 1
  BY <1>2, FS_AddElement
<1> QED BY <1>1, <1>3 DEF Gains

LEMMA PlacedDone ==
  ASSUME TInv, FlowInv, MoveInv, Finished
  PROVE  Placed = Words
<1>1. CASE dir = "rx"
  <2>1. InPlace = Offsets
    BY <1>1 DEF InPlace, FlowInv, RxInv
  <2>2. Cardinality(Offsets)
          = IF 0 > Words - 1 THEN 0 ELSE (Words - 1) - 0 + 1
    BY FS_Interval, WordsNat DEF Offsets
  <2> QED BY <1>1, <2>1, <2>2, WordsNat DEF Placed, InPlace
<1>2. CASE dir # "rx"
  <2>1. dir = "tx" BY <1>2 DEF TInv, BufferType
  <2>2. InPlace = 1 .. Words
    BY <1>2, <2>1 DEF InPlace, FlowInv, TxInv
  <2>3. Cardinality(1 .. Words) = IF 1 > Words THEN 0 ELSE Words - 1 + 1
    BY FS_Interval, WordsNat
  <2>4. Placed = Cardinality(1 .. Words) BY <1>2, <2>2 DEF Placed, InPlace
  <2>5. Cardinality(1 .. Words) = Words BY <2>3, WordsNat
  <2> QED BY <2>4, <2>5
<1> QED BY <1>1, <1>2

LEMMA PlacedKept ==
  ASSUME dir' = dir, mem' = mem, dir = "rx" \/ card' = card
  PROVE  Placed' = Placed
BY DEF Placed

\* An edge of the SD clock.
LEMMA PlacedOnEdge ==
  ASSUME TInv, MoveInv, AnyEdge, mem' = mem
  PROVE  /\ Placed' \in {Placed, Placed + 1}
         /\ sh_state # "WRITE_DAT" => Placed' = Placed
<1> USE EdgeParts DEF MoveInv
<1>1. CASE card' = card BY <1>1, PlacedKept
<1>2. CASE /\ sh_state = "WRITE_DAT" /\ transf_cnt < BlockWords
           /\ card' = Append(card, fifo_dout)
  <2>1. dir = "tx" BY <1>2 DEF CardInv, TInv, BufferType
  <2>2. card \in Seq(Nat) /\ Len(card) \in Nat /\ fifo_dout \in Nat
    BY DEF TInv, HostType, FifoType
  <2>3. /\ Len(card') = Len(card) + 1
        /\ \A i \in 1 .. Len(card) : card'[i] = card[i]
    BY <1>2, <2>2
  <2>4. 1 .. Len(card') = (1 .. Len(card)) \cup {Len(card) + 1}
    BY <2>2, <2>3
  <2>5. Gains(Len(card) + 1)
    <3> DEFINE n == Len(card) + 1
               old == {i \in 1 .. Len(card) : card[i] = i}
    <3>1. InPlace = old BY <2>1 DEF InPlace
    <3>2. InPlace' = {i \in (1 .. Len(card)) \cup {n} : card'[i] = i}
      BY <2>1, <2>4 DEF InPlace
    <3>3. InPlace' = {i \in 1 .. Len(card) : card'[i] = i}
                       \cup {i \in {n} : card'[i] = i}
      BY <3>2
    <3>4. {i \in 1 .. Len(card) : card'[i] = i} = old BY <2>3
    <3>5. {i \in {n} : card'[i] = i} \in {{}, {n}} OBVIOUS
    <3> HIDE DEF n, old
    <3>6. InPlace' \in {old, old \cup {n}} BY <3>3, <3>4, <3>5
    <3> QED BY <3>1, <3>6 DEF n, Gains
  <2> QED BY <1>2, <2>5, PlacedGrows
<1> QED BY <1>1, <1>2, CardStep

\* A beat of a write burst.
LEMMA PlacedOnBeat ==
  ASSUME TInv, FlowInv, MoveInv, WriteBeat, dir' = dir
  PROVE  Placed' \in {Placed, Placed + 1}
<1>1. dir = "rx" /\ dir' = dir /\ m_axi_cyc /\ mem \in [Offsets -> Nat]
  BY DEF WriteBeat, TInv, AxiType, BufferType, FlowInv, PhaseInv
<1>2. mem' = [mem EXCEPT ![m_bus_adr] = fifo_dout] BY DEF WriteBeat
<1>3. m_bus_adr \in Offsets => mem[m_bus_adr] # m_bus_adr + 1
  <2>1. SUFFICES ASSUME m_bus_adr \in Offsets
                 PROVE  mem[m_bus_adr] # m_bus_adr + 1
    OBVIOUS
  <2>2. m_bus_adr \in Nat BY DEF TInv, BufferType
  <2>3. mem[m_bus_adr] = 0
    BY <1>1, <2>1, <2>2 DEF MoveInv, AheadInv, Stale
  <2> QED BY <2>2, <2>3
<1>4. Gains(m_bus_adr)
  <2>1. \A a \in Offsets : a # m_bus_adr => mem'[a] = mem[a]
    BY <1>1, <1>2
  <2>2. m_bus_adr \in Offsets =>
          m_bus_adr \notin InPlace
    BY <1>1, <1>3 DEF InPlace
  <2>3. CASE m_bus_adr \in Offsets /\ mem'[m_bus_adr] = m_bus_adr + 1
    <3>1. \A a : a \in InPlace' <=> a \in InPlace \/ a = m_bus_adr
      BY <1>1, <2>1, <2>3 DEF InPlace
    <3> QED BY <3>1 DEF Gains
  <2>4. CASE ~(m_bus_adr \in Offsets /\ mem'[m_bus_adr] = m_bus_adr + 1)
    <3>1. \A a : a \in InPlace' <=> a \in InPlace
      BY <1>1, <2>1, <2>2, <2>4 DEF InPlace
    <3> QED BY <3>1 DEF Gains
  <2> QED BY <2>3, <2>4
<1> QED BY <1>4, PlacedGrows DEF MoveInv

-----------------------------------------------------------------------------
(* Every step is a step of SdTransfer, or none.                            *)

Promised == Transfer!TNext \/ UNCHANGED Transfer!tvars

\* What a driver sees does not change; words may move.
LEMMA MoveStep ==
  ASSUME Running \/ bus_cycle \/ "EI" \in data_int_status_reg,
         Placed' \in {Placed, Placed + 1}, Placed' <= Words,
         bus_cycle' \in BOOLEAN,
         Running' = Running, data_int_status_reg' = data_int_status_reg
  PROVE  Promised
BY DEF Promised, Transfer!TNext, Transfer!TMove

LEMMA NoStep ==
  ASSUME Placed' = Placed, bus_cycle' = bus_cycle,
         Running' = Running, data_int_status_reg' = data_int_status_reg
  PROVE  Promised
BY DEF Promised, Transfer!tvars

\* The bus comes to rest after a transfer has ended: "complete" shows.
LEMMA QuietStep ==
  ASSUME TInv, FlowInv, MoveInv,
         UNCHANGED <<start, state, int_status>>, start = "none", state = "IDLE",
         "CC" \in int_status, enabled \/ bus_cycle, ~enabled', ~bus_cycle',
         Placed' = Placed
  PROVE  Promised
<1>0. bus_cycle' = FALSE BY DEF bus_cycle
<1>1. data_int_status_reg = int_status \ {"CC"}
  BY StatusRead DEF MoveInv
<1>2. data_int_status_reg' = int_status BY DEF data_int_status_reg
<1>3. CASE "EI" \in int_status
  <2>1. data_int_status_reg' = data_int_status_reg \cup {"CC"} BY <1>1, <1>2
  <2>2. "EI" \in data_int_status_reg /\ Running = FALSE /\ Running' = FALSE
    BY <1>1, <1>3 DEF Running
  <2> QED BY <1>0, <2>1, <2>2 DEF Promised, Transfer!TNext, Transfer!TSettle
<1>4. CASE "EI" \notin int_status
  <2>1. int_status = {"CC"} BY <1>4, StatusRead DEF MoveInv
  <2>2. Running /\ Running' = FALSE /\ data_int_status_reg' = {"CC"}
    BY <1>1, <1>2, <2>1 DEF Running
  <2>3. Placed = Words BY <1>4, PlacedDone DEF Finished
  <2> QED BY <1>0, <2>2, <2>3 DEF Promised, Transfer!TNext, Transfer!TFinish
<1> QED BY <1>3, <1>4

\* The count of SdTransfer stays in its range.
Fits == Placed \in Nat /\ Placed <= Words

\* An ended transfer that has run well is one whose end does not show yet.
LEMMA RunningNow ==
  ASSUME StatusInv, PhaseInv
  PROVE  Running <=> \/ start # "none" \/ state # "IDLE"
                     \/ int_status = {"CC"} /\ (enabled \/ bus_cycle)
BY StatusRead DEF Running, data_int_status_reg

LEMMA OnBusPromised ==
  ASSUME TInv, FlowInv, MoveInv, Fits', OnBus
  PROVE  Promised
<1> USE OnBusKeeps DEF masterVars, FlowInv, MoveInv
<1>1. Placed' <= Words BY DEF Fits
<1>2. Placed' \in {Placed, Placed + 1} /\ (~WBeat => Placed' = Placed)
  <2>1. CASE WBeat BY <2>1, PlacedOnBeat DEF WBeat
  <2>2. CASE ~WBeat
    <3>1. UNCHANGED <<dir, mem, card>>
      BY <2>2 DEF OnBus, RxBurst, TxBurst, AwAccept, BResp, RBeat, ReadBeat,
                ghostVars
    <3> QED BY <3>1, PlacedKept
  <2> QED BY <2>1, <2>2
<1>3. bus_cycle \in BOOLEAN /\ bus_cycle' \in BOOLEAN BY DEF bus_cycle
<1>4. enabled \/ bus_cycle
  BY BusBusy DEF OnBus
<1>5. CASE enabled' \/ bus_cycle'
  <2>1. data_int_status_reg' = data_int_status_reg
    BY <1>4, <1>5 DEF data_int_status_reg
  <2>2. Running' = Running BY <2>1 DEF Running
  <2>3. Running \/ bus_cycle \/ "EI" \in data_int_status_reg
    <3>1. CASE enabled /\ state = "IDLE"
      BY <1>4, <3>1, StatusRead, RunningNow DEF StatusInv
    <3>2. CASE ~enabled BY <1>4, <3>2
    <3>3. CASE state # "IDLE" BY <3>3 DEF Running
    <3> QED BY <3>1, <3>2, <3>3
  <2> QED BY <1>1, <1>2, <1>3, <2>1, <2>2, <2>3, MoveStep
<1>6. CASE ~enabled' /\ ~bus_cycle'
  <2>1. ~enabled /\ bus_cycle /\ Placed' = Placed
    BY <1>2, <1>4, <1>6, BusBusy
  <2>2. CASE "CC" \in int_status
    <3>1. start = "none" /\ state = "IDLE" BY <2>2 DEF PhaseInv
    <3> QED BY <1>6, <2>1, <2>2, <3>1, QuietStep
  <2>3. CASE "CC" \notin int_status
    <3>1. data_int_status_reg' = data_int_status_reg
      BY <2>3 DEF data_int_status_reg
    <3>2. Running' = Running BY <3>1 DEF Running
    <3> QED BY <1>1, <1>2, <1>3, <2>1, <3>1, <3>2, MoveStep
  <2> QED BY <2>2, <2>3
<1> QED BY <1>5, <1>6

LEMMA CmdStartPromised ==
  ASSUME TInv, FlowInv, CmdStart
  PROVE  Promised
<1> USE DEF CmdStart, masterVars
<1>1. ~Running /\ data_int_status_reg = {} /\ data_int_status_reg' = {}
  BY DEF Running, data_int_status_reg
<1>2. Running' = TRUE BY DEF Running
<1>3. bus_cycle' = bus_cycle /\ ~bus_cycle BY DEF bus_cycle
<1>4. Placed' = 0
  <2>1. {a \in Offsets : mem'[a] = a + 1} = {}
    <3>1. ASSUME NEW a \in Offsets PROVE mem'[a] # a + 1
      BY WordsNat DEF Offsets, Stale
    <3> QED BY <3>1
  <2>2. {i \in 1 .. Len(card') : card'[i] = i} = {}
    <3>1. Len(card') = 0 OBVIOUS
    <3> QED BY <3>1
  <2> QED BY <2>1, <2>2, FS_EmptySet DEF Placed
<1> QED BY <1>1, <1>2, <1>3, <1>4 DEF Promised, Transfer!TNext, Transfer!TStart

LEMMA ClearStatusPromised ==
  ASSUME ClearStatus
  PROVE  Promised
BY NoStep
   DEF ClearStatus, masterVars, axiVars, ghostVars, Placed, bus_cycle, Running,
       data_int_status_reg, enabled

LEMMA StutterPromised ==
  ASSUME UNCHANGED vars
  PROVE  Promised
BY NoStep
   DEF vars, masterVars, axiVars, ghostVars, Placed, bus_cycle, Running,
       data_int_status_reg, enabled

LEMMA EdgePromised ==
  ASSUME TInv, HeadIsOut, FlowInv, FlowInv', MoveInv, Fits', AnyEdge
  PROVE  Promised
<1> USE EdgeParts DEF FlowInv, MoveInv
<1>1. Placed' <= Words BY DEF Fits
<1>2. Placed' \in {Placed, Placed + 1}
      /\ (sh_state # "WRITE_DAT" /\ ~PosedgeWBeat => Placed' = Placed)
  <2>1. CASE PosedgeWBeat BY <2>1, PlacedOnBeat DEF PosedgeWBeat
  <2>2. CASE Posedge \/ PosedgeRBeat
    <3>1. mem' = mem BY <2>2, PlainEdge DEF PosedgeRBeat, ReadBeat
    <3> QED BY <3>1, PlacedOnEdge
  <2> QED BY <2>1, <2>2 DEF AnyEdge
<1>3. /\ bus_cycle \in BOOLEAN /\ bus_cycle' \in BOOLEAN
      /\ ~bus_cycle => Posedge /\ bus_cycle' = bus_cycle
      /\ PosedgeWBeat => m_axi_wvalid /\ bus_cycle'
  BY DEF bus_cycle, AnyEdge, Posedge, PosedgeWBeat, PosedgeRBeat, WriteBeat,
         ReadBeat, axiVars, BusInv, TInv, AxiType
<1>4. CASE state = "IDLE"
  <2>1. MasterIdle BY <1>4, MasterByState DEF TInv
  <2>2. ~enabled' BY <2>1 DEF MasterIdle, enabled
  <2>3. int_status' = IF data_int_rst THEN {} ELSE int_status
    BY <2>1 DEF MasterIdle, Report
  <2>4. "CC" \in int_status /\ ~bus_cycle' => Placed' = Placed
    BY <1>2, <1>3 DEF HostInv
  <2>5. Placed' = Placed \/ "EI" \in data_int_status_reg
    <3>1. CASE sh_state = "IDLE" /\ ~PosedgeWBeat BY <1>2, <3>1
    <3>2. CASE sh_state # "IDLE"
      <4>1. enabled BY <3>2 DEF PhaseInv
      <4>2. int_status # {} /\ "CC" \notin int_status
        BY <1>4, <3>2, <4>1 DEF StatusInv, HostInv
      <4> QED BY <4>2, StatusRead
    <3>3. CASE PosedgeWBeat
      <4>1. m_axi_cyc /\ dir = "rx" /\ enabled
        BY <1>3, <3>3 DEF PosedgeWBeat, TInv, AxiType, PhaseInv, enabled
      <4>2. int_status # {} /\ ~Finished
        BY <1>4, <4>1 DEF StatusInv, RxInv
      <4> QED BY <4>2, StatusRead DEF Finished
    <3> QED BY <3>1, <3>2, <3>3
  <2>6. CASE data_int_rst
    <3>1. start = "none" /\ state' = "IDLE" /\ data_int_status_reg # {}
      BY <2>1, <2>6 DEF PhaseInv, MasterIdle, StatusInv
    <3>2. int_status' = {} /\ data_int_status_reg' = {}
      BY <2>3, <2>6 DEF data_int_status_reg
    <3>3. Running = FALSE /\ Running' = FALSE
      BY <1>4, <3>1, <3>2 DEF Running
    <3> QED BY <1>1, <1>2, <1>3, <2>5, <3>1, <3>2, <3>3
            DEF Promised, Transfer!TNext, Transfer!TClear
  <2>7. CASE ~data_int_rst /\ start # "none"
    <3>1. state' # "IDLE" /\ int_status = {} /\ int_status' = {}
      BY <2>1, <2>3, <2>7 DEF MasterIdle, PhaseInv, TInv, MasterType
    <3>2. Placed' = Placed /\ bus_cycle' = bus_cycle
      <4>1. ~m_axi_cyc /\ sh_state = "IDLE" BY <2>7 DEF PhaseInv
      <4>2. Posedge /\ ~PosedgeWBeat
        BY <4>1, EdgeBus DEF PosedgeWBeat, WriteBeat, TInv, AxiType
      <4> QED BY <1>2, <4>1, <4>2 DEF bus_cycle, Posedge, axiVars
    <3>3. data_int_status_reg' = data_int_status_reg
      BY <3>1 DEF data_int_status_reg
    <3>4. Running' = Running BY <2>7, <3>1 DEF Running
    <3> QED BY <3>2, <3>3, <3>4, NoStep
  <2>8. CASE ~data_int_rst /\ start = "none"
    <3>1. state' = "IDLE" /\ int_status' = int_status
      BY <2>1, <2>3, <2>8 DEF MasterIdle
    <3>2. CASE /\ "CC" \in int_status /\ ~bus_cycle'
               /\ (enabled \/ bus_cycle)
      BY <1>4, <2>2, <2>4, <2>8, <3>1, <3>2, QuietStep
    <3>3. CASE ~(/\ "CC" \in int_status /\ ~bus_cycle'
                 /\ (enabled \/ bus_cycle))
      <4>1. data_int_status_reg' = data_int_status_reg
        BY <1>3, <2>2, <3>1, <3>3 DEF data_int_status_reg
      <4>2. Running' = Running BY <1>4, <2>8, <3>1, <4>1 DEF Running
      <4>3. CASE Placed' = Placed /\ bus_cycle' = bus_cycle
        BY <4>1, <4>2, <4>3, NoStep
      <4>4. CASE "EI" \in data_int_status_reg \/ bus_cycle
        BY <1>1, <1>2, <1>3, <4>1, <4>2, <4>4, MoveStep
      <4> QED BY <1>3, <2>5, <4>3, <4>4
    <3> QED BY <3>2, <3>3
  <2> QED BY <2>6, <2>7, <2>8
<1>5. CASE state # "IDLE" /\ state' # "IDLE"
  <2>1. int_status = {} /\ int_status' = {} BY <1>5 DEF PhaseInv
  <2>2. data_int_status_reg' = data_int_status_reg
    BY <2>1 DEF data_int_status_reg
  <2>3. Running = TRUE /\ Running' = TRUE BY <1>5 DEF Running
  <2> QED BY <1>1, <1>2, <1>3, <2>2, <2>3, MoveStep
<1>6. CASE state # "IDLE" /\ state' = "IDLE"
  <2>1. state = "DATA_TRANSFER"
    BY <1>6, MasterByState
       DEF TInv, MasterType, MasterStartRx, MasterStartTx
  <2>2. Running = TRUE /\ int_status = {} /\ ~data_int_rst /\ enabled'
    BY <1>6, <2>1, TransferEdge DEF Running, PhaseInv, enabled
  <2>3. start' = "none" OBVIOUS
  <2>4. ASSUME "EI" \in int_status',
               NEW b \in {"CCRCE", "CBE", "CFE", "CTE"}, b \in int_status',
               int_status' \subseteq Bits
        PROVE  Promised
    <3> DEFINE bad == int_status' \ {"CC", "EI"}
    <3>1. data_int_status_reg' = int_status' \ {"CC"}
      BY <2>2 DEF data_int_status_reg
    <3>2. bad \in SUBSET {"CCRCE", "CBE", "CFE", "CTE"} /\ bad # {}
      BY <2>4 DEF Bits
    <3>3. data_int_status_reg' = {"EI"} \cup bad BY <2>4, <3>1
    <3>4. Running' = FALSE BY <1>6, <2>3, <2>4 DEF Running
    <3> QED BY <1>1, <1>2, <1>3, <2>2, <3>2, <3>3, <3>4
            DEF Promised, Transfer!TNext, Transfer!TFail
  <2>5. CASE MasterComplete /\ sh_state = "IDLE"
    <3>1. int_status' = {"CC"}
                  \cup (IF crc_ok THEN {} ELSE {"CCRCE", "EI"})
                  \cup (IF m_bus_error THEN {"CBE", "EI"} ELSE {})
      BY <2>2, <2>5 DEF MasterComplete, Report
    <3>2. CASE crc_ok /\ ~m_bus_error
      <4>1. int_status' = {"CC"} BY <3>1, <3>2
      <4>2. data_int_status_reg' = {} /\ data_int_status_reg = {}
        BY <2>2, <4>1 DEF data_int_status_reg
      <4>3. Running' = TRUE BY <4>1, <4>2 DEF Running
      <4>4. ~bus_cycle BY <2>5 DEF MasterComplete, TransferDone
      <4>5. ~PosedgeWBeat
        BY <4>4 DEF PosedgeWBeat, WriteBeat, bus_cycle, TInv, AxiType
      <4> QED BY <1>2, <1>3, <2>2, <2>5, <4>2, <4>3, <4>4, <4>5, NoStep
    <3>3. CASE ~crc_ok
      <4>1. "EI" \in int_status' /\ "CCRCE" \in int_status'
            /\ int_status' \subseteq Bits
        BY <3>1, <3>3 DEF Bits
      <4> QED BY <2>4, <4>1
    <3>4. CASE m_bus_error
      <4>1. "EI" \in int_status' /\ "CBE" \in int_status'
            /\ int_status' \subseteq Bits
        BY <3>1, <3>4 DEF Bits
      <4> QED BY <2>4, <4>1
    <3> QED BY <3>2, <3>3, <3>4
  <2>6. CASE int_status' \in {{"CFE", "EI"}, {"CTE", "EI"}}
    <3>1. CASE int_status' = {"CFE", "EI"} BY <2>4, <3>1 DEF Bits
    <3>2. CASE int_status' = {"CTE", "EI"} BY <2>4, <3>2 DEF Bits
    <3> QED BY <2>6, <3>1, <3>2
  <2> QED BY <1>6, <2>1, <2>5, <2>6, TransferEdge
<1> QED BY <1>4, <1>5, <1>6

LEMMA NextPromised ==
  /\ TInv /\ HeadIsOut /\ FlowInv /\ FlowInv' /\ MoveInv /\ Fits'
  /\ [Next]_vars
  => Promised
BY EdgePromised, OnBusPromised, CmdStartPromised, ClearStatusPromised,
   StutterPromised
   DEF Next, OnBus, AnyEdge

LEMMA InitPromised == Init => Transfer!TInit
<1> SUFFICES ASSUME Init PROVE Transfer!TInit OBVIOUS
<1> USE DEF Init
<1>1. Running = FALSE /\ bus_cycle = FALSE /\ data_int_status_reg = {}
  BY DEF Running, bus_cycle, data_int_status_reg
<1>2. Placed = 0
  <2>1. {a \in Offsets : mem[a] = a + 1} = {}
    <3>1. ASSUME NEW a \in Offsets PROVE mem[a] # a + 1
      BY WordsNat DEF Offsets, Stale
    <3> QED BY <3>1
  <2> QED BY <2>1, FS_EmptySet DEF Placed
<1> QED BY <1>1, <1>2 DEF Transfer!TInit

\* The data path keeps the promise of SdTransfer: a driver that sees
\* "complete" without an error sees it once every word has arrived and the
\* bus is quiet, and no word arrives twice.
THEOREM PromiseKept == Spec => Refines
<1>1. TInv /\ MoveInv => Fits
  BY PlacedBounds DEF MoveInv, Fits
<1>2. [Transfer!TNext]_Transfer!tvars <=> Promised
  BY DEF Promised
<1> QED
  BY <1>1, <1>2, InitPromised, NextPromised, InvarianceT, OutputIsHead,
     InvarianceFlow, InvarianceMove, PTL
     DEF Spec, Refines, Transfer!TSpec
=============================================================================
