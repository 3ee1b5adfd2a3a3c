--------------------------- MODULE GandivaAxiLite ---------------------------
(***************************************************************************)
(* rtl/gandiva_axi_lite.sv: the AXI4-Lite master bridge of the data port,  *)
(* joined to a memory slave.  A clock edge moves both sides at once: the   *)
(* bridge by the action of its current state, the slave by its five        *)
(* channels.  The slave accepts AW and W in either order and after any     *)
(* delay, and answers when it likes with any response.                     *)
(***************************************************************************)
CONSTANTS Addr, Lanes, Byte

Data == [Lanes -> Byte]
Resps == {"OKAY", "SLVERR"}
Requests == [write : BOOLEAN, addr : Addr, wdata : Data, wstrb : SUBSET Lanes]
States == {"S_IDLE", "S_WADDR", "S_WRESP", "S_RADDR", "S_RDATA", "S_DONE"}

Merge(old, wdata, wstrb) ==
    [k \in Lanes |-> IF k \in wstrb THEN wdata[k] ELSE old[k]]

ASSUME BusAssumption == Addr # {} /\ Byte # {}

(* Reset values.                                                           *)
ZeroAddr == CHOOSE a \in Addr : TRUE
ZeroData == [k \in Lanes |-> CHOOSE b \in Byte : TRUE]

VARIABLES
    state, addr_q, wdata_q, wstrb_q, rdata_q, resp_q, aw_done, w_done,
    req_write_q,        \* history: direction of the request being served
    s_aw, s_w, s_ar,    \* slave: address, data, read address taken
    s_waddr, s_wdata, s_wstrb, s_araddr,
    bvalid, bresp, rvalid, rdata, rresp,
    s_mem

bridgeVars == <<state, addr_q, wdata_q, wstrb_q, rdata_q, resp_q, aw_done,
                w_done, req_write_q>>
writeVars == <<s_aw, s_w, s_waddr, s_wdata, s_wstrb, bvalid, bresp, s_mem>>
readVars == <<s_ar, s_araddr, rvalid, rdata, rresp>>
vars == <<bridgeVars, writeVars, readVars>>

TypeOK ==
    /\ state \in States
    /\ addr_q \in Addr /\ wdata_q \in Data /\ wstrb_q \in SUBSET Lanes
    /\ rdata_q \in Data /\ resp_q \in Resps
    /\ aw_done \in BOOLEAN /\ w_done \in BOOLEAN /\ req_write_q \in BOOLEAN
    /\ s_aw \in BOOLEAN /\ s_w \in BOOLEAN /\ s_ar \in BOOLEAN
    /\ s_waddr \in Addr /\ s_wdata \in Data /\ s_wstrb \in SUBSET Lanes
    /\ s_araddr \in Addr
    /\ bvalid \in BOOLEAN /\ bresp \in Resps
    /\ rvalid \in BOOLEAN /\ rdata \in Data /\ rresp \in Resps
    /\ s_mem \in [Addr -> Data]

---------------------------------------------------------------------------
(* Outputs of the bridge.                                                  *)
req_ready == state = "S_IDLE"
rsp_valid == state = "S_DONE"
m_axi_awvalid == state = "S_WADDR" /\ ~aw_done
m_axi_wvalid  == state = "S_WADDR" /\ ~w_done
m_axi_bready  == state = "S_WRESP"
m_axi_arvalid == state = "S_RADDR"
m_axi_rready  == state = "S_RDATA"

---------------------------------------------------------------------------
(* The bridge's FSM, one action per state and outcome.                     *)

Idle ==
    /\ state = "S_IDLE"
    /\ aw_done' = FALSE /\ w_done' = FALSE
    /\ UNCHANGED <<state, addr_q, wdata_q, wstrb_q, rdata_q, resp_q, req_write_q>>

(* Seeded fault: reads and writes go down each other's path.               *)
TakeRequest_Crossed ==
    /\ state = "S_IDLE"
    /\ \E req \in Requests :
         /\ addr_q' = req.addr /\ wdata_q' = req.wdata /\ wstrb_q' = req.wstrb
         /\ req_write_q' = req.write
         /\ state' = IF req.write THEN "S_RADDR" ELSE "S_WADDR"
    /\ aw_done' = FALSE /\ w_done' = FALSE
    /\ UNCHANGED <<rdata_q, resp_q>>

TakeRequest ==
    /\ state = "S_IDLE"
    /\ \E req \in Requests :
         /\ addr_q' = req.addr /\ wdata_q' = req.wdata /\ wstrb_q' = req.wstrb
         /\ req_write_q' = req.write
         /\ state' = IF req.write THEN "S_WADDR" ELSE "S_RADDR"
    /\ aw_done' = FALSE /\ w_done' = FALSE
    /\ UNCHANGED <<rdata_q, resp_q>>

(* Seeded faults: one handshake is enough; both must fall on one edge; the *)
(* W flag is set by the AW handshake.                                      *)
WriteAddr_Either(awready, wready) ==
    /\ state = "S_WADDR"
    /\ aw_done' = (aw_done \/ (m_axi_awvalid /\ awready))
    /\ w_done'  = (w_done \/ (m_axi_wvalid /\ wready))
    /\ state' = IF aw_done' \/ w_done' THEN "S_WRESP" ELSE "S_WADDR"
    /\ UNCHANGED <<addr_q, wdata_q, wstrb_q, rdata_q, resp_q, req_write_q>>
WriteAddr_Together(awready, wready) ==
    /\ state = "S_WADDR"
    /\ aw_done' = (aw_done \/ (m_axi_awvalid /\ awready))
    /\ w_done'  = (w_done \/ (m_axi_wvalid /\ wready))
    /\ state' = IF /\ m_axi_awvalid /\ awready
                   /\ m_axi_wvalid /\ wready
                THEN "S_WRESP" ELSE "S_WADDR"
    /\ UNCHANGED <<addr_q, wdata_q, wstrb_q, rdata_q, resp_q, req_write_q>>
WriteAddr_SharedFlag(awready, wready) ==
    /\ state = "S_WADDR"
    /\ aw_done' = (aw_done \/ (m_axi_awvalid /\ awready))
    /\ w_done'  = (w_done \/ (m_axi_awvalid /\ awready))
    /\ state' = IF aw_done' /\ w_done' THEN "S_WRESP" ELSE "S_WADDR"
    /\ UNCHANGED <<addr_q, wdata_q, wstrb_q, rdata_q, resp_q, req_write_q>>

WriteAddr(awready, wready) ==
    /\ state = "S_WADDR"
    /\ aw_done' = (aw_done \/ (m_axi_awvalid /\ awready))
    /\ w_done'  = (w_done \/ (m_axi_wvalid /\ wready))
    /\ state' = IF aw_done' /\ w_done' THEN "S_WRESP" ELSE "S_WADDR"
    /\ UNCHANGED <<addr_q, wdata_q, wstrb_q, rdata_q, resp_q, req_write_q>>

WriteResp ==
    /\ state = "S_WRESP"
    /\ state' = IF bvalid THEN "S_DONE" ELSE "S_WRESP"
    /\ resp_q' = IF bvalid THEN bresp ELSE resp_q
    /\ UNCHANGED <<addr_q, wdata_q, wstrb_q, rdata_q, aw_done, w_done, req_write_q>>

ReadAddr(arready) ==
    /\ state = "S_RADDR"
    /\ state' = IF arready THEN "S_RDATA" ELSE "S_RADDR"
    /\ UNCHANGED <<addr_q, wdata_q, wstrb_q, rdata_q, resp_q, aw_done, w_done,
                   req_write_q>>

(* Seeded fault: the read response is not latched.                         *)
ReadData_NoResp ==
    /\ state = "S_RDATA"
    /\ state' = IF rvalid THEN "S_DONE" ELSE "S_RDATA"
    /\ rdata_q' = IF rvalid THEN rdata ELSE rdata_q
    /\ UNCHANGED <<addr_q, wdata_q, wstrb_q, resp_q, aw_done, w_done, req_write_q>>

ReadData ==
    /\ state = "S_RDATA"
    /\ state' = IF rvalid THEN "S_DONE" ELSE "S_RDATA"
    /\ rdata_q' = IF rvalid THEN rdata ELSE rdata_q
    /\ resp_q' = IF rvalid THEN rresp ELSE resp_q
    /\ UNCHANGED <<addr_q, wdata_q, wstrb_q, aw_done, w_done, req_write_q>>

(* Seeded fault: the state register counts on into an unused code.         *)
Done_Unencoded ==
    /\ state = "S_DONE"
    /\ state' = "3'd6"
    /\ UNCHANGED <<addr_q, wdata_q, wstrb_q, rdata_q, resp_q, aw_done, w_done,
                   req_write_q>>

Done ==
    /\ state = "S_DONE"
    /\ state' = "S_IDLE"
    /\ UNCHANGED <<addr_q, wdata_q, wstrb_q, rdata_q, resp_q, aw_done, w_done,
                   req_write_q>>

Bridge(awready, wready, arready) ==
    \/ Idle \/ TakeRequest \/ WriteAddr(awready, wready) \/ WriteResp
    \/ ReadAddr(arready) \/ ReadData \/ Done

---------------------------------------------------------------------------
(* The slave (the testbench's memory BFM, with any wait states and any     *)
(* response); it forgets a transfer once it has been answered.             *)

SlaveTakes(awready, wready) ==
    /\ s_aw' = (s_aw \/ (m_axi_awvalid /\ awready))
    /\ s_waddr' = IF m_axi_awvalid /\ awready THEN addr_q ELSE s_waddr
    /\ s_w' = (s_w \/ (m_axi_wvalid /\ wready))
    /\ s_wdata' = IF m_axi_wvalid /\ wready THEN wdata_q ELSE s_wdata
    /\ s_wstrb' = IF m_axi_wvalid /\ wready THEN wstrb_q ELSE s_wstrb
    /\ UNCHANGED <<bvalid, bresp, s_mem>>

SlaveWrites ==
    /\ s_aw /\ s_w /\ ~bvalid
    /\ bvalid' = TRUE
    /\ bresp' \in Resps
    /\ s_mem' = IF bresp' = "OKAY"
                THEN [s_mem EXCEPT ![s_waddr] = Merge(@, s_wdata, s_wstrb)]
                ELSE s_mem
    /\ UNCHANGED <<s_aw, s_w, s_waddr, s_wdata, s_wstrb>>

SlaveWriteAcked ==
    /\ bvalid /\ m_axi_bready
    /\ bvalid' = FALSE /\ s_aw' = FALSE /\ s_w' = FALSE
    /\ bresp' = "OKAY" /\ s_waddr' = ZeroAddr
    /\ s_wdata' = ZeroData /\ s_wstrb' = {}
    /\ UNCHANGED s_mem

SlaveWriteSide(awready, wready) ==
    \/ ~(bvalid /\ m_axi_bready) /\ SlaveTakes(awready, wready)
    \/ SlaveWrites
    \/ SlaveWriteAcked

SlaveTakesAr(arready) ==
    /\ s_ar' = (s_ar \/ (m_axi_arvalid /\ arready))
    /\ s_araddr' = IF m_axi_arvalid /\ arready THEN addr_q ELSE s_araddr
    /\ UNCHANGED <<rvalid, rdata, rresp>>

SlaveReads ==
    /\ s_ar /\ ~rvalid
    /\ rvalid' = TRUE
    /\ rdata' = s_mem[s_araddr]
    /\ rresp' \in Resps
    /\ UNCHANGED <<s_ar, s_araddr>>

SlaveReadAcked ==
    /\ rvalid /\ m_axi_rready
    /\ rvalid' = FALSE /\ s_ar' = FALSE
    /\ s_araddr' = ZeroAddr /\ rdata' = ZeroData /\ rresp' = "OKAY"

SlaveReadSide(arready) ==
    \/ ~(rvalid /\ m_axi_rready) /\ SlaveTakesAr(arready)
    \/ SlaveReads
    \/ SlaveReadAcked

---------------------------------------------------------------------------
Tick(awready, wready, arready) ==
    /\ Bridge(awready, wready, arready)
    /\ SlaveWriteSide(awready, wready)
    /\ SlaveReadSide(arready)

Init ==
    /\ state = "S_IDLE" /\ aw_done = FALSE /\ w_done = FALSE
    /\ addr_q = ZeroAddr /\ wdata_q = ZeroData /\ wstrb_q = {}
    /\ rdata_q = ZeroData /\ resp_q = "OKAY" /\ req_write_q = FALSE
    /\ s_aw = FALSE /\ s_w = FALSE /\ s_ar = FALSE
    /\ s_waddr = ZeroAddr /\ s_wdata = ZeroData /\ s_wstrb = {}
    /\ s_araddr = ZeroAddr
    /\ bvalid = FALSE /\ bresp = "OKAY"
    /\ rvalid = FALSE /\ rdata = ZeroData /\ rresp = "OKAY"
    /\ s_mem \in [Addr -> Data]

Next == \E awready, wready, arready \in BOOLEAN : Tick(awready, wready, arready)

(* A slave that is offered a transfer takes it at last, and answers.       *)
Fairness ==
    /\ WF_vars(\E w, a \in BOOLEAN : Tick(TRUE, w, a) /\ m_axi_awvalid)
    /\ WF_vars(\E w, a \in BOOLEAN : Tick(w, TRUE, a) /\ m_axi_wvalid)
    /\ WF_vars(\E w, a \in BOOLEAN : Tick(w, a, TRUE) /\ m_axi_arvalid)
    /\ WF_vars(Next /\ SlaveWrites)
    /\ WF_vars(Next /\ SlaveReads)
    /\ WF_vars(Next /\ (WriteResp \/ ReadData \/ Done))

SafeSpec == Init /\ [][Next]_vars

Spec == SafeSpec /\ Fairness

---------------------------------------------------------------------------
(* Properties.                                                             *)

(* A VALID that the bridge has raised stays up, with the same payload,     *)
(* until the slave takes it (the AXI rule the header claims).              *)
HoldStep ==
    /\ m_axi_awvalid /\ ~s_aw' => m_axi_awvalid' /\ addr_q' = addr_q
    /\ m_axi_wvalid /\ ~s_w' => /\ m_axi_wvalid'
                                /\ wdata_q' = wdata_q /\ wstrb_q' = wstrb_q
    /\ m_axi_arvalid /\ ~s_ar' => m_axi_arvalid' /\ addr_q' = addr_q
ValidHeld == [][HoldStep]_vars

(* One transaction at a time, transferred once on each channel: the bridge *)
(* offers an address or data only if the slave has not yet taken it, goes  *)
(* on only when it has, and leaves nothing behind when it is idle.         *)
OneTransfer ==
    /\ state = "S_WADDR" => (s_aw <=> aw_done) /\ (s_w <=> w_done)
    /\ state = "S_WRESP" => s_aw /\ s_w
    /\ state = "S_RDATA" => s_ar
    /\ state \in {"S_IDLE", "S_DONE"} => ~s_aw /\ ~s_w /\ ~s_ar
    /\ state \in {"S_RADDR", "S_RDATA"} => ~s_aw /\ ~s_w
    /\ state \in {"S_RADDR", "S_WADDR", "S_WRESP"} => ~s_ar
    /\ bvalid => s_aw /\ s_w
    /\ rvalid => s_ar

(* What the slave holds is what was requested.                             *)
PayloadIntact ==
    /\ s_aw => s_waddr = addr_q
    /\ s_w => s_wdata = wdata_q /\ s_wstrb = wstrb_q
    /\ s_ar => s_araddr = addr_q
    /\ state \in {"S_WADDR", "S_WRESP"} => req_write_q
    /\ state \in {"S_RADDR", "S_RDATA"} => ~req_write_q

(* Every accepted request is answered.                                     *)
RequestAnswered == (~req_ready) ~> rsp_valid

---------------------------------------------------------------------------
(* Refinement: the access is performed when the slave performs it, and the *)
(* answer upstream is the slave's.                                         *)
busPhase == CASE state = "S_IDLE"           -> "idle"
              [] state = "S_DONE"           -> "performed"
              [] bvalid \/ rvalid           -> "performed"
              [] OTHER                      -> "accepted"
busReq == [write |-> req_write_q, addr |-> addr_q, wdata |-> wdata_q,
           wstrb |-> wstrb_q]
busRdata == IF rvalid THEN rdata ELSE rdata_q
busResp == IF bvalid THEN bresp ELSE IF rvalid THEN rresp ELSE resp_q

Bus == INSTANCE GandivaBus
       WITH bus_phase <- busPhase, bus_req <- busReq, bus_rdata <- busRdata,
            bus_resp <- busResp, bus_mem <- s_mem

(* The bridge and its slave are an atomic memory: stores are performed     *)
(* once, with their strobes, on the requested word, loads return its       *)
(* value, and the response is the one of this very access.                 *)
ImplementsBus == Bus!Spec
=============================================================================
