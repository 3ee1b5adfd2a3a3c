------------------------ MODULE GandivaAxiLiteProofs ------------------------
(***************************************************************************)
(* Proofs about the AXI4-Lite bridge, for any address space, any number of *)
(* lanes and any byte values.                                              *)
(***************************************************************************)
EXTENDS GandivaAxiLite, TLAPS

LEMMA ZeroType == ZeroAddr \in Addr /\ ZeroData \in Data
BY BusAssumption DEF ZeroAddr, ZeroData, Data

LEMMA MergeType ==
    ASSUME NEW old \in Data, NEW new \in Data, NEW strb \in SUBSET Lanes
    PROVE  Merge(old, new, strb) \in Data
BY DEF Merge, Data

(* The registers of the bridge and of the slave keep their types.          *)
LEMMA TypeInit == Init => TypeOK
BY ZeroType DEF Init, TypeOK, States, Resps

LEMMA BridgeType ==
    ASSUME TypeOK, NEW awready \in BOOLEAN, NEW wready \in BOOLEAN,
           NEW arready \in BOOLEAN, Bridge(awready, wready, arready)
    PROVE  /\ state' \in States
           /\ addr_q' \in Addr /\ wdata_q' \in Data /\ wstrb_q' \in SUBSET Lanes
           /\ rdata_q' \in Data /\ resp_q' \in Resps
           /\ aw_done' \in BOOLEAN /\ w_done' \in BOOLEAN
           /\ req_write_q' \in BOOLEAN
<1>1. CASE Idle
  BY <1>1 DEF TypeOK, Idle
<1>2. CASE TakeRequest
  BY <1>2 DEF TypeOK, TakeRequest, Requests, States
<1>3. CASE WriteAddr(awready, wready)
  BY <1>3 DEF TypeOK, WriteAddr, States, m_axi_awvalid, m_axi_wvalid
<1>4. CASE WriteResp
  BY <1>4 DEF TypeOK, WriteResp, States
<1>5. CASE ReadAddr(arready)
  BY <1>5 DEF TypeOK, ReadAddr, States
<1>6. CASE ReadData
  BY <1>6 DEF TypeOK, ReadData, States
<1>7. CASE Done
  BY <1>7 DEF TypeOK, Done, States
<1> QED
  BY <1>1, <1>2, <1>3, <1>4, <1>5, <1>6, <1>7 DEF Bridge

LEMMA WriteSideType ==
    ASSUME TypeOK, NEW awready \in BOOLEAN, NEW wready \in BOOLEAN,
           SlaveWriteSide(awready, wready)
    PROVE  /\ s_aw' \in BOOLEAN /\ s_w' \in BOOLEAN
           /\ s_waddr' \in Addr /\ s_wdata' \in Data /\ s_wstrb' \in SUBSET Lanes
           /\ bvalid' \in BOOLEAN /\ bresp' \in Resps
           /\ s_mem' \in [Addr -> Data]
<1>1. CASE SlaveTakes(awready, wready)
  BY <1>1 DEF TypeOK, SlaveTakes, m_axi_awvalid, m_axi_wvalid
<1>2. CASE SlaveWrites
  <2>1. Merge(s_mem[s_waddr], s_wdata, s_wstrb) \in Data
    BY MergeType DEF TypeOK
  <2> QED
    BY <1>2, <2>1 DEF TypeOK, SlaveWrites
<1>3. CASE SlaveWriteAcked
  BY <1>3, ZeroType DEF TypeOK, SlaveWriteAcked, Resps
<1> QED
  BY <1>1, <1>2, <1>3 DEF SlaveWriteSide

LEMMA ReadSideType ==
    ASSUME TypeOK, NEW arready \in BOOLEAN, SlaveReadSide(arready)
    PROVE  /\ s_ar' \in BOOLEAN /\ s_araddr' \in Addr
           /\ rvalid' \in BOOLEAN /\ rdata' \in Data /\ rresp' \in Resps
<1>1. CASE SlaveTakesAr(arready)
  BY <1>1 DEF TypeOK, SlaveTakesAr, m_axi_arvalid
<1>2. CASE SlaveReads
  BY <1>2 DEF TypeOK, SlaveReads
<1>3. CASE SlaveReadAcked
  BY <1>3, ZeroType DEF TypeOK, SlaveReadAcked, Resps
<1> QED
  BY <1>1, <1>2, <1>3 DEF SlaveReadSide

LEMMA TypeStep == TypeOK /\ [Next]_vars => TypeOK'
<1> SUFFICES ASSUME TypeOK, [Next]_vars PROVE TypeOK'
  OBVIOUS
<1>1. CASE Next
  <2> PICK awready \in BOOLEAN, wready \in BOOLEAN, arready \in BOOLEAN :
        Tick(awready, wready, arready)
    BY <1>1 DEF Next
  <2> QED
    BY BridgeType, WriteSideType, ReadSideType DEF Tick, TypeOK
<1>2. CASE UNCHANGED vars
  BY <1>2 DEF vars, bridgeVars, writeVars, readVars, TypeOK
<1> QED
  BY <1>1, <1>2

(* Every register stays in its declared range.                             *)
THEOREM TypeCorrect == SafeSpec => []TypeOK
<1>1. Init => TypeOK
  BY TypeInit
<1>2. TypeOK /\ [Next]_vars => TypeOK'
  BY TypeStep
<1> QED
  BY <1>1, <1>2, PTL DEF SafeSpec

---------------------------------------------------------------------------
(* The handshake invariant.  Neither part is inductive alone: what the     *)
(* slave holds is the request only because the bridge does not touch its   *)
(* request registers before the slave has let go of it.                    *)
IInv == TypeOK /\ OneTransfer /\ PayloadIntact

LEMMA HandshakeStep ==
    ASSUME IInv, NEW awready \in BOOLEAN, NEW wready \in BOOLEAN,
           NEW arready \in BOOLEAN, Tick(awready, wready, arready)
    PROVE  OneTransfer' /\ PayloadIntact'
<1> USE DEF IInv, TypeOK, OneTransfer, PayloadIntact, Tick, States,
            m_axi_awvalid, m_axi_wvalid, m_axi_arvalid, m_axi_bready,
            m_axi_rready, SlaveWriteSide, SlaveTakes, SlaveWrites,
            SlaveWriteAcked, SlaveReadSide, SlaveTakesAr, SlaveReads,
            SlaveReadAcked
<1>1. CASE Idle
  BY <1>1 DEF Idle
<1>2. CASE TakeRequest
  <2>1. PICK req \in Requests :
          /\ req_write_q' = req.write
          /\ state' = IF req.write THEN "S_WADDR" ELSE "S_RADDR"
    BY <1>2 DEF TakeRequest
  <2>2. req.write \in BOOLEAN
    BY DEF Requests
  <2>3. state = "S_IDLE" /\ ~aw_done' /\ ~w_done'
    BY <1>2 DEF TakeRequest
  <2>4. UNCHANGED <<s_aw, s_w, s_ar, bvalid, rvalid>>
    BY <2>3
  <2>5. CASE req.write
    BY <2>1, <2>3, <2>4, <2>5
  <2>6. CASE ~req.write
    BY <2>1, <2>3, <2>4, <2>6
  <2> QED
    BY <2>5, <2>6
<1>3. CASE WriteAddr(awready, wready)
  BY <1>3 DEF WriteAddr
<1>4. CASE WriteResp
  <2>1. s_ar' = s_ar /\ rvalid' = rvalid
    BY <1>4 DEF WriteResp
  <2>2. CASE bvalid
    <3>1. SlaveWriteAcked
      BY <1>4, <2>2 DEF WriteResp
    <3> QED
      BY <1>4, <2>1, <2>2, <3>1 DEF WriteResp
  <2>3. CASE ~bvalid
    <3>1. state' = state /\ UNCHANGED <<addr_q, wdata_q, wstrb_q, req_write_q>>
      BY <1>4, <2>3 DEF WriteResp
    <3>2. /\ s_aw /\ s_w /\ s_aw' /\ s_w' /\ s_waddr' = s_waddr
          /\ s_wdata' = s_wdata /\ s_wstrb' = s_wstrb
      <4>1. state = "S_WRESP" /\ s_aw /\ s_w
        BY <1>4 DEF WriteResp
      <4>2. CASE SlaveTakes(awready, wready)
        BY <4>1, <4>2
      <4>3. CASE SlaveWrites
        BY <4>1, <4>3
      <4> QED
        BY <2>3, <4>2, <4>3
    <3> QED
      BY <1>4, <2>1, <3>1, <3>2 DEF WriteResp
  <2> QED
    BY <2>2, <2>3
<1>5. CASE ReadAddr(arready)
  BY <1>5 DEF ReadAddr
<1>6. CASE ReadData
  <2>1. UNCHANGED <<s_aw, s_w, bvalid>>
    BY <1>6 DEF ReadData
  <2>2. CASE rvalid
    <3>1. SlaveReadAcked
      BY <1>6, <2>2 DEF ReadData
    <3> QED
      BY <1>6, <2>1, <2>2, <3>1 DEF ReadData
  <2>3. CASE ~rvalid
    <3>1. state' = state /\ UNCHANGED <<addr_q, req_write_q>>
      BY <1>6, <2>3 DEF ReadData
    <3>2. s_ar /\ s_ar' /\ s_araddr' = s_araddr
      <4>1. state = "S_RDATA" /\ s_ar
        BY <1>6 DEF ReadData
      <4>2. CASE SlaveTakesAr(arready)
        BY <4>1, <4>2
      <4>3. CASE SlaveReads
        BY <4>1, <4>3
      <4> QED
        BY <2>3, <4>2, <4>3
    <3> QED
      BY <1>6, <2>1, <3>1, <3>2 DEF ReadData
  <2> QED
    BY <2>2, <2>3
<1>7. CASE Done
  BY <1>7 DEF Done
<1> QED
  BY <1>1, <1>2, <1>3, <1>4, <1>5, <1>6, <1>7 DEF Bridge

LEMMA IInvInit == Init => IInv
<1> SUFFICES ASSUME Init PROVE IInv
  OBVIOUS
<1>1. TypeOK
  BY TypeInit
<1>2. OneTransfer /\ PayloadIntact
  BY DEF Init, OneTransfer, PayloadIntact
<1> QED
  BY <1>1, <1>2 DEF IInv

LEMMA IInvStep == IInv /\ [Next]_vars => IInv'
<1> SUFFICES ASSUME IInv, [Next]_vars PROVE IInv'
  OBVIOUS
<1>1. TypeOK'
  BY TypeStep DEF IInv
<1>2. CASE Next
  <2> PICK awready \in BOOLEAN, wready \in BOOLEAN, arready \in BOOLEAN :
        Tick(awready, wready, arready)
    BY <1>2 DEF Next
  <2> QED
    BY <1>1, HandshakeStep DEF IInv
<1>3. CASE UNCHANGED vars
  BY <1>1, <1>3 DEF vars, bridgeVars, writeVars, readVars, IInv, OneTransfer,
                    PayloadIntact
<1> QED
  BY <1>2, <1>3

LEMMA Invariance == SafeSpec => []IInv
<1>1. Init => IInv
  BY IInvInit
<1>2. IInv /\ [Next]_vars => IInv'
  BY IInvStep
<1> QED
  BY <1>1, <1>2, PTL DEF SafeSpec

(* One transaction at a time, taken once on each channel.                  *)
THEOREM TransferOnce == SafeSpec => []OneTransfer
<1>1. IInv => OneTransfer
  BY DEF IInv
<1> QED
  BY <1>1, Invariance, PTL

(* The slave holds exactly the address, data and strobes requested.        *)
THEOREM PayloadKept == SafeSpec => []PayloadIntact
<1>1. IInv => PayloadIntact
  BY DEF IInv
<1> QED
  BY <1>1, Invariance, PTL

---------------------------------------------------------------------------
(* A raised VALID falls only after its transfer: the bridge leaves S_WADDR *)
(* and S_RADDR, and clears a VALID, only on the slave's READY, at which    *)
(* edge the slave takes the payload.                                       *)
LEMMA HoldStepLemma == IInv /\ [Next]_vars => [HoldStep]_vars
<1> SUFFICES ASSUME IInv, Next PROVE HoldStep
  OBVIOUS
<1> PICK awready \in BOOLEAN, wready \in BOOLEAN, arready \in BOOLEAN :
        Tick(awready, wready, arready)
  BY DEF Next
<1> USE DEF IInv, TypeOK, HoldStep, OneTransfer, m_axi_awvalid, m_axi_wvalid,
            m_axi_arvalid
<1>1. CASE state = "S_WADDR"
  <2>1. WriteAddr(awready, wready)
    BY <1>1 DEF Tick, Bridge, Idle, TakeRequest, WriteAddr, WriteResp,
                ReadAddr, ReadData, Done
  <2>2. CASE SlaveTakes(awready, wready)
    BY <1>1, <2>1, <2>2 DEF WriteAddr, SlaveTakes
  <2>3. CASE SlaveWrites
    BY <1>1, <2>1, <2>3 DEF WriteAddr, SlaveWrites
  <2> QED
    BY <1>1, <2>2, <2>3 DEF Tick, SlaveWriteSide, SlaveWriteAcked, m_axi_bready
<1>2. CASE state = "S_RADDR"
  <2>1. ReadAddr(arready)
    BY <1>2 DEF Tick, Bridge, Idle, TakeRequest, WriteAddr, WriteResp,
                ReadAddr, ReadData, Done
  <2>2. CASE SlaveTakesAr(arready)
    BY <1>2, <2>1, <2>2 DEF ReadAddr, SlaveTakesAr
  <2> QED
    BY <1>2, <2>2 DEF Tick, SlaveReadSide, SlaveReads, SlaveReadAcked,
                      m_axi_rready
<1> QED
  BY <1>1, <1>2

(* The AXI rule: VALID, once raised, holds with its payload until READY.   *)
THEOREM ValidsHold == SafeSpec => ValidHeld
<1>1. IInv /\ [Next]_vars => [HoldStep]_vars
  BY HoldStepLemma
<1> QED
  BY <1>1, Invariance, PTL DEF SafeSpec, ValidHeld

---------------------------------------------------------------------------
(* Refinement.  A step of the bridge and its slave is a step of the atomic *)
(* memory, or leaves what it shows unchanged.                              *)
LEMMA BusInit == Init => Bus!Init
<1> SUFFICES ASSUME Init PROVE Bus!Init
  OBVIOUS
<1>1. busPhase = "idle"
  BY DEF Init, busPhase
<1>2. busReq \in Bus!Requests
  BY ZeroType DEF Init, busReq, Bus!Requests, Bus!Data, Data
<1>3. busRdata \in Bus!Data /\ busResp \in Bus!Resps
  BY ZeroType DEF Init, busRdata, busResp, Bus!Data, Data, Bus!Resps
<1>4. s_mem \in [Addr -> Bus!Data]
  BY DEF Init, Bus!Data, Data
<1> QED
  BY <1>1, <1>2, <1>3, <1>4 DEF Bus!Init

(* A side of the slave with nothing taken does not move what the bus shows. *)
LEMMA WriteSideQuiet ==
    ASSUME IInv, NEW awready, NEW wready, SlaveWriteSide(awready, wready),
           ~s_aw
    PROVE  ~bvalid /\ UNCHANGED <<bvalid, bresp, s_mem>>
BY DEF IInv, OneTransfer, SlaveWriteSide, SlaveTakes, SlaveWrites,
       SlaveWriteAcked

LEMMA ReadSideQuiet ==
    ASSUME IInv, NEW arready, SlaveReadSide(arready), ~s_ar
    PROVE  ~rvalid /\ UNCHANGED <<rvalid, rdata, rresp>>
BY DEF IInv, OneTransfer, SlaveReadSide, SlaveTakesAr, SlaveReads,
       SlaveReadAcked

(* The slave's store is the bus's.                                         *)
LEMMA PerformWrite ==
    ASSUME IInv, SlaveWrites, state \in {"S_WADDR", "S_WRESP"},
           state' \in {"S_WADDR", "S_WRESP"},
           ~rvalid, UNCHANGED <<rvalid, busReq, rdata_q>>
    PROVE  Bus!Perform
<1>1. req_write_q /\ ~bvalid /\ bvalid' /\ s_aw /\ s_w
  BY DEF IInv, PayloadIntact, SlaveWrites
<1>2. busPhase = "accepted" /\ busPhase' = "performed"
  BY <1>1 DEF busPhase
<1>3. busResp' = bresp' /\ bresp' \in Bus!Resps
  BY <1>1 DEF busResp, SlaveWrites, Resps, Bus!Resps
<1>4. busReq.write /\ busReq.addr = s_waddr /\ busReq.wdata = s_wdata
      /\ busReq.wstrb = s_wstrb
  BY <1>1 DEF busReq, IInv, PayloadIntact
<1>5. s_mem' = IF busResp' = "OKAY"
               THEN [s_mem EXCEPT ![busReq.addr] =
                       Bus!Merge(@, busReq.wdata, busReq.wstrb)]
               ELSE s_mem
  BY <1>3, <1>4 DEF SlaveWrites, Merge, Bus!Merge
<1>6. busRdata' = busRdata
  BY DEF busRdata
<1> QED
  BY <1>2, <1>3, <1>4, <1>5, <1>6 DEF Bus!Perform

LEMMA PerformRead ==
    ASSUME IInv, SlaveReads, state = "S_RDATA", state' = "S_RDATA",
           ~bvalid, UNCHANGED <<bvalid, s_mem, busReq>>
    PROVE  Bus!Perform
<1>1. ~req_write_q /\ ~rvalid /\ rvalid' /\ s_ar
  BY DEF IInv, PayloadIntact, SlaveReads
<1>2. busPhase = "accepted" /\ busPhase' = "performed"
  BY <1>1 DEF busPhase
<1>3. busResp' = rresp' /\ rresp' \in Bus!Resps
  BY <1>1 DEF busResp, SlaveReads, Resps, Bus!Resps
<1>4. ~busReq.write /\ busReq.addr = s_araddr
  BY <1>1 DEF busReq, IInv, PayloadIntact
<1>5. busRdata' = s_mem[busReq.addr]
  BY <1>1, <1>4 DEF SlaveReads, busRdata
<1> QED
  BY <1>2, <1>3, <1>4, <1>5 DEF Bus!Perform

LEMMA BusStep == IInv /\ [Next]_vars => [Bus!Next]_(Bus!vars)
<1> SUFFICES ASSUME IInv, [Next]_vars PROVE [Bus!Next]_(Bus!vars)
  OBVIOUS
<1>0. CASE UNCHANGED vars
  BY <1>0 DEF vars, bridgeVars, writeVars, readVars, Bus!vars, busPhase,
              busReq, busRdata, busResp
<1> SUFFICES ASSUME Next PROVE [Bus!Next]_(Bus!vars)
  BY <1>0
<1> PICK awready \in BOOLEAN, wready \in BOOLEAN, arready \in BOOLEAN :
        Tick(awready, wready, arready)
  BY DEF Next
<1>a. SlaveWriteSide(awready, wready) /\ SlaveReadSide(arready)
  BY DEF Tick
<1>b. ~s_aw => ~bvalid /\ UNCHANGED <<bvalid, bresp, s_mem>>
  BY <1>a, WriteSideQuiet
<1>c. ~s_ar => ~rvalid /\ UNCHANGED <<rvalid, rdata, rresp>>
  BY <1>a, ReadSideQuiet
<1>d. /\ state \in {"S_IDLE", "S_DONE"} => ~s_aw /\ ~s_ar
      /\ state \in {"S_RADDR", "S_RDATA"} => ~s_aw
      /\ state \in {"S_WADDR", "S_WRESP", "S_RADDR"} => ~s_ar
  BY DEF IInv, OneTransfer
<1>1. CASE Idle
  BY <1>1, <1>b, <1>c, <1>d
     DEF Idle, Bus!vars, busPhase, busReq, busRdata, busResp
<1>2. CASE TakeRequest
  <2>1. state = "S_IDLE" /\ ~s_aw /\ ~s_ar /\ UNCHANGED <<rdata_q, resp_q>>
    BY <1>2, <1>d DEF TakeRequest
  <2>2. UNCHANGED <<busRdata, busResp, s_mem>>
    BY <2>1, <1>b, <1>c DEF busRdata, busResp
  <2>3. state' \in {"S_WADDR", "S_RADDR"}
    BY <1>2 DEF TakeRequest
  <2>4. busPhase = "idle" /\ busPhase' = "accepted"
    BY <2>1, <2>3, <1>b, <1>c DEF busPhase
  <2>5. busReq' \in Bus!Requests
    BY <1>2 DEF TakeRequest, Requests, Bus!Requests, Data, Bus!Data, busReq
  <2> QED
    BY <2>2, <2>4, <2>5 DEF Bus!Accept, Bus!Next
<1>3. CASE WriteAddr(awready, wready)
  <2>1. /\ state = "S_WADDR" /\ state' \in {"S_WADDR", "S_WRESP"}
        /\ UNCHANGED <<busReq, rdata_q, resp_q>>
    BY <1>3 DEF WriteAddr, busReq
  <2>2. ~rvalid /\ UNCHANGED <<rvalid, rdata, rresp>>
    BY <2>1, <1>c, <1>d
  <2>3. CASE SlaveWrites
    BY <2>1, <2>2, <2>3, PerformWrite DEF Bus!Next
  <2>4. CASE SlaveTakes(awready, wready)
    BY <2>1, <2>2, <2>4
       DEF SlaveTakes, Bus!vars, busPhase, busRdata, busResp
  <2> QED
    BY <1>a, <2>1, <2>3, <2>4 DEF SlaveWriteSide, SlaveWriteAcked, m_axi_bready
<1>4. CASE WriteResp
  <2>1. state = "S_WRESP" /\ UNCHANGED <<busReq, rdata_q>>
    BY <1>4 DEF WriteResp, busReq
  <2>2. ~rvalid /\ UNCHANGED <<rvalid, rdata, rresp>>
    BY <2>1, <1>c, <1>d
  <2>3. CASE bvalid
    <3>1. SlaveWriteAcked
      BY <1>a, <2>1, <2>3 DEF SlaveWriteSide, SlaveWrites, m_axi_bready
    <3> QED
      BY <1>4, <2>1, <2>2, <2>3, <3>1
         DEF WriteResp, SlaveWriteAcked, Bus!vars, busPhase, busRdata, busResp
  <2>4. CASE ~bvalid
    <3>1. state' = "S_WRESP" /\ resp_q' = resp_q
      BY <1>4, <2>4 DEF WriteResp
    <3>2. CASE SlaveWrites
      BY <2>1, <2>2, <3>1, <3>2, PerformWrite DEF Bus!Next
    <3>3. CASE SlaveTakes(awready, wready)
      BY <2>1, <2>2, <3>1, <3>3
         DEF SlaveTakes, Bus!vars, busPhase, busRdata, busResp
    <3> QED
      BY <1>a, <2>4, <3>2, <3>3 DEF SlaveWriteSide, SlaveWriteAcked
  <2> QED
    BY <2>3, <2>4
<1>5. CASE ReadAddr(arready)
  <2>1. /\ state = "S_RADDR" /\ state' \in {"S_RADDR", "S_RDATA"}
        /\ UNCHANGED <<busReq, rdata_q, resp_q>>
    BY <1>5 DEF ReadAddr, busReq
  <2> QED
    BY <2>1, <1>b, <1>c, <1>d DEF Bus!vars, busPhase, busRdata, busResp
<1>6. CASE ReadData
  <2>1. state = "S_RDATA" /\ UNCHANGED busReq
    BY <1>6 DEF ReadData, busReq
  <2>2. ~bvalid /\ UNCHANGED <<bvalid, bresp, s_mem>>
    BY <2>1, <1>b, <1>d
  <2>3. CASE rvalid
    <3>1. SlaveReadAcked
      BY <1>a, <2>1, <2>3 DEF SlaveReadSide, SlaveReads, m_axi_rready
    <3> QED
      BY <1>6, <2>1, <2>2, <2>3, <3>1
         DEF ReadData, SlaveReadAcked, Bus!vars, busPhase, busRdata, busResp
  <2>4. CASE ~rvalid
    <3>1. state' = "S_RDATA" /\ UNCHANGED <<rdata_q, resp_q>>
      BY <1>6, <2>4 DEF ReadData
    <3>2. CASE SlaveReads
      BY <2>1, <2>2, <3>1, <3>2, PerformRead DEF Bus!Next
    <3>3. CASE SlaveTakesAr(arready)
      BY <2>1, <2>2, <3>1, <3>3
         DEF SlaveTakesAr, Bus!vars, busPhase, busRdata, busResp
    <3> QED
      BY <1>a, <2>4, <3>2, <3>3 DEF SlaveReadSide, SlaveReadAcked
  <2> QED
    BY <2>3, <2>4
<1>7. CASE Done
  <2>1. /\ state = "S_DONE" /\ state' = "S_IDLE"
        /\ UNCHANGED <<busReq, rdata_q, resp_q>>
    BY <1>7 DEF Done, busReq
  <2>2. UNCHANGED <<busRdata, busResp, s_mem>>
    BY <2>1, <1>b, <1>c, <1>d DEF busRdata, busResp
  <2>3. busPhase = "performed" /\ busPhase' = "idle"
    BY <2>1, <1>b, <1>c, <1>d DEF busPhase
  <2> QED
    BY <2>1, <2>2, <2>3 DEF Bus!Complete, Bus!Next
<1> QED
  BY <1>1, <1>2, <1>3, <1>4, <1>5, <1>6, <1>7 DEF Tick, Bridge

(* The bridge and its slave implement an atomic memory, for any number of  *)
(* words, lanes and byte values: every accepted request is performed once, *)
(* on the requested word, before it is answered with its own response.     *)
THEOREM BridgeRefinesBus == SafeSpec => ImplementsBus
<1>1. Init => Bus!Init
  BY BusInit
<1>2. IInv /\ [Next]_vars => [Bus!Next]_(Bus!vars)
  BY BusStep
<1> QED
  BY <1>1, <1>2, Invariance, PTL DEF SafeSpec, ImplementsBus, Bus!Spec
=============================================================================
