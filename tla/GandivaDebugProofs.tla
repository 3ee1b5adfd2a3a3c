------------------------- MODULE GandivaDebugProofs -------------------------
(***************************************************************************)
(* Proofs about the debug module, for any registers, words, bus and memory *)
(* map, and any distance between two DR scans of at least three clocks.    *)
(***************************************************************************)
EXTENDS GandivaDebug, TLAPS

(* Where in the time between two scans each step of a request falls: the   *)
(* scan is applied a clock after it ends, the memory answers two clocks    *)
(* later.  Hence a scan finds no other one, and no access not yet made.    *)
Paced ==
    /\ dm.dmi # None => gap = GAP
    /\ dm.resumereq \/ dm.mreq # None => gap = GAP - 1
    /\ soc # None => gap = GAP - 2

(* The engine is busy with the system bus only while an access is owed an  *)
(* answer, and a scan that will take it away finds no command waiting.     *)
BusServed ==
    /\ dm.eng \in {"E_SB_RD", "E_SB_WR"} => dm.mreq # None \/ soc # None
    /\ dm.mreq # None \/ soc # None =>
          dm.eng \in {"E_SB_RD", "E_SB_WR"}
    /\ dm.dmi \in ScansSB => ~dm.abs_busy

(* The hart answers in the clock after it has performed a command, and is  *)
(* busy no longer than the request stands.                                 *)
Handshake ==
    /\ hart.ar_done => hart.ar_busy
    /\ hart.ar_busy => hart.ar_done \/ dm.ar = None

(* A resume pulse finds the hart halted; a reset does so for one clock.    *)
Halts ==
    /\ dm.resumereq => hart.dbg_mode
    /\ dm.ndmreset /\ hart.dbg_mode => gap = GAP - 1

DInv == TypeOK /\ EngineServes /\ Paced /\ BusServed /\ Handshake /\ Halts

---------------------------------------------------------------------------
(* Types.                                                                  *)

ArType   == [op : {"ar"}, write : BOOLEAN, regno : Regs, wdata : Val] \union {None}
MreqType == [op : {"mem"}, write : BOOLEAN, addr : Addr, wdata : Val] \union {None}
SbcsType == [autoincrement : BOOLEAN, readonaddr : BOOLEAN]
DmType ==
    [dmactive : BOOLEAN, ndmreset : BOOLEAN, haltreq : BOOLEAN,
     resumereq : BOOLEAN, abs_busy : BOOLEAN, data0 : Val, ar : ArType,
     sbcs : SbcsType, sbaddress0 : Addr, sbdata0 : Val, mreq : MreqType,
     eng : {"E_IDLE", "E_AR_WAIT", "E_SB_RD", "E_SB_WR"},
     dmi : Scans \union {None}]
HartType == [dbg_mode : BOOLEAN, halt_req : BOOLEAN, ar_busy : BOOLEAN, ar_done : BOOLEAN]

LEMMA TypeParts ==
    TypeOK <=> /\ dm \in DmType /\ hart \in HartType
               /\ gpr \in [Regs -> Val] /\ mem \in [Mapped -> Val]
               /\ soc \in [op : {"ready"}, rdata : Val] \union {None}
               /\ gap \in 0 .. GAP
BY DEF TypeOK, DmType, HartType, ArType, MreqType, SbcsType

(* The DMI writes, one by one.                                             *)
LEMMA ScanCases ==
    ASSUME NEW s \in Scans
    PROVE  \/ s.op = "data0" /\ s.val \in Val
           \/ s.op = "inactive"
           \/ /\ s.op = "dmcontrol"
              /\ s.ndmreset \in BOOLEAN /\ s.haltreq \in BOOLEAN /\ s.resumereq \in BOOLEAN
           \/ s.op = "command" /\ s.write \in BOOLEAN /\ s.reg \in Regs
           \/ s.op = "sbcs" /\ s.sbcs \in SbcsType
           \/ s.op = "sbaddress0" /\ s.addr \in Addr /\ s \in ScansSB
           \/ s.op = "sbdata0" /\ s.val \in Val /\ s \in ScansSB
BY DEF Scans, ScansSB, SbcsType

(* A request is not the absence of one.                                    *)
LEMMA NotNone ==
    /\ \A s \in Scans : s # None
    /\ \A a, b, c : [op |-> "ar", write |-> a, regno |-> b, wdata |-> c] # None
    /\ \A a, b, c : [op |-> "mem", write |-> a, addr |-> b, wdata |-> c] # None
    /\ \A a : [op |-> "ready", rdata |-> a] # None
<1>1. \A s \in Scans : s.op # "none"
  BY ScanCases
<1> QED
  BY <1>1 DEF None

LEMMA AddrFacts == 0 \in Addr /\ \A x \in Addr : (x + 1) % ADDRS \in Addr
BY DebugAssumption DEF Addr

LEMMA SbAccessType ==
    ASSUME NEW d \in DmType, NEW w \in BOOLEAN, NEW a \in Addr, NEW v \in Val
    PROVE  sb_access(d, w, a, v) \in DmType
BY DEF sb_access, DmType, MreqType

LEMMA DmiWriteType ==
    ASSUME NEW d \in DmType, NEW s \in Scans \union {None}, TypeOK
    PROVE  dmi_write(d, s) \in DmType
<1>1. CASE s.op = "none"
  BY <1>1 DEF dmi_write
<1>2. CASE s.op = "data0" /\ s.val \in Val
  BY <1>2 DEF dmi_write, DmType
<1>3. CASE s.op = "inactive"
  BY <1>3 DEF dmi_write, DmType
<1>4. CASE /\ s.op = "dmcontrol" /\ s.ndmreset \in BOOLEAN
           /\ s.haltreq \in BOOLEAN /\ s.resumereq \in BOOLEAN
  BY <1>4, TypeParts DEF dmi_write, dmcontrol, DmType, HartType
<1>5. CASE s.op = "command" /\ s.write \in BOOLEAN /\ s.reg \in Regs
  BY <1>5 DEF dmi_write, start_access_reg, Request, DmType, ArType
<1>6. CASE s.op = "sbcs" /\ s.sbcs \in SbcsType
  BY <1>6 DEF dmi_write, DmType
<1>7. CASE s.op = "sbaddress0" /\ s.addr \in Addr
  <2>1. [d EXCEPT !.sbaddress0 = s.addr] \in DmType
    BY <1>7 DEF DmType
  <2> QED
    BY <1>7, <2>1, SbAccessType, DebugAssumption DEF dmi_write
<1>8. CASE s.op = "sbdata0" /\ s.val \in Val
  <2>1. [d EXCEPT !.sbdata0 = s.val] \in DmType /\ d.sbaddress0 \in Addr
    BY <1>8 DEF DmType
  <2> QED
    BY <1>8, <2>1, SbAccessType DEF dmi_write
<1> QED
  BY <1>1, <1>2, <1>3, <1>4, <1>5, <1>6, <1>7, <1>8, ScanCases DEF None

(* What the latched DMI write s makes of each register of d.               *)
DmiEffect(d, s, w) ==
    LET start == s.op = "command" /\ ~d.abs_busy
        read  == s.op = "sbaddress0" /\ d.sbcs.readonaddr
    IN  /\ w.resumereq = IF s.op = "dmcontrol" THEN s.resumereq /\ hart.dbg_mode
                         ELSE d.resumereq
        /\ w.ndmreset = IF s.op = "dmcontrol" THEN s.ndmreset
                        ELSE s.op # "inactive" /\ d.ndmreset
        /\ w.abs_busy = (d.abs_busy \/ s.op = "command")
        /\ w.ar = IF start THEN Request(d, s) ELSE d.ar
        /\ w.data0 = IF s.op = "data0" THEN s.val ELSE d.data0
        /\ w.sbcs = IF s.op = "sbcs" THEN s.sbcs ELSE d.sbcs
        /\ w.sbaddress0 = IF s.op = "sbaddress0" THEN s.addr ELSE d.sbaddress0
        /\ w.sbdata0 = IF s.op = "sbdata0" THEN s.val ELSE d.sbdata0
        /\ w.mreq = IF s.op = "sbdata0"
                    THEN [op |-> "mem", write |-> TRUE, addr |-> d.sbaddress0, wdata |-> s.val]
                    ELSE IF read
                    THEN [op |-> "mem", write |-> FALSE, addr |-> s.addr, wdata |-> 0]
                    ELSE d.mreq
        /\ w.eng = IF start THEN "E_AR_WAIT" ELSE IF s.op = "sbdata0" THEN "E_SB_WR"
                   ELSE IF read THEN "E_SB_RD" ELSE d.eng

LEMMA DmiWriteFields ==
    ASSUME NEW d \in DmType, NEW s \in Scans \union {None}, TypeOK
    PROVE  DmiEffect(d, s, dmi_write(d, s))
<1> USE DEF DmType, HartType, DmiEffect
<1>t. hart \in HartType
  BY TypeParts
<1>1. CASE s.op = "none"
  BY <1>1, <1>t DEF dmi_write
<1>2. CASE s.op = "data0" /\ s.val \in Val
  BY <1>2, <1>t DEF dmi_write
<1>3. CASE s.op = "inactive"
  BY <1>3, <1>t DEF dmi_write
<1>4. CASE /\ s.op = "dmcontrol" /\ s.ndmreset \in BOOLEAN
           /\ s.haltreq \in BOOLEAN /\ s.resumereq \in BOOLEAN
  BY <1>4, <1>t DEF dmi_write, dmcontrol
<1>5. CASE s.op = "command" /\ s.write \in BOOLEAN /\ s.reg \in Regs
  BY <1>5, <1>t DEF dmi_write, start_access_reg
<1>6. CASE s.op = "sbcs" /\ s.sbcs \in SbcsType
  BY <1>6, <1>t DEF dmi_write
<1>7. CASE s.op = "sbaddress0" /\ s.addr \in Addr
  BY <1>7, <1>t DEF dmi_write, sb_access
<1>8. CASE s.op = "sbdata0" /\ s.val \in Val
  BY <1>8, <1>t DEF dmi_write, sb_access
<1> QED
  BY <1>1, <1>2, <1>3, <1>4, <1>5, <1>6, <1>7, <1>8, ScanCases DEF None

LEMMA RdataType ==
    ASSUME TypeOK PROVE dbg_ar_rdata \subseteq Val
<1>1. dm.ar # None => dm.ar.regno \in Regs
  BY TypeParts DEF DmType, ArType
<1> QED
  BY <1>1, TypeParts, DebugAssumption DEF dbg_ar_rdata

LEMMA EngineType ==
    ASSUME NEW d \in DmType, NEW v \in Val, TypeOK
    PROVE  engine(d, v) \in DmType
<1> USE DEF DmType
<1>1. engine_AR(d, v) \in DmType
  BY ZenonT(60) DEF engine_AR, ArType
<1>2. engine_SB(d) \in DmType
  <2>1. sb_increment(d) \in Addr
    BY TypeParts, AddrFacts DEF sb_increment
  <2>2. soc # None => soc.rdata \in Val
    BY TypeParts
  <2> QED
    BY <2>1, <2>2 DEF engine_SB, MreqType
<1> QED
  BY <1>1, <1>2 DEF engine

(* What the engine makes of each register of d.                            *)
EngineEffect(d, v, e) ==
    LET retire == dm.eng = "E_AR_WAIT" /\ hart.ar_done
        bus    == dm.eng \in {"E_SB_RD", "E_SB_WR"}
        ready  == bus /\ soc # None
    IN  /\ e.resumereq = d.resumereq /\ e.ndmreset = d.ndmreset /\ e.sbcs = d.sbcs
        /\ e.abs_busy = (d.abs_busy /\ ~retire)
        /\ e.ar = IF retire THEN None ELSE d.ar
        /\ e.data0 = IF retire /\ ~dm.ar.write THEN v ELSE d.data0
        /\ e.mreq = IF bus THEN None ELSE d.mreq
        /\ e.sbaddress0 = IF ready THEN sb_increment(d) ELSE d.sbaddress0
        /\ e.sbdata0 = IF ready /\ dm.eng = "E_SB_RD" THEN soc.rdata ELSE d.sbdata0
        /\ e.eng = IF retire \/ ready THEN "E_IDLE" ELSE d.eng

LEMMA EngineFields ==
    ASSUME NEW d \in DmType, NEW v \in Val, TypeOK
    PROVE  EngineEffect(d, v, engine(d, v))
<1> USE DEF DmType, EngineEffect
<1>1. CASE dm.eng = "E_AR_WAIT"
  BY <1>1 DEF engine, engine_AR
<1>2. CASE dm.eng = "E_SB_RD"
  BY <1>2 DEF engine, engine_SB
<1>3. CASE dm.eng = "E_SB_WR"
  BY <1>3 DEF engine, engine_SB
<1>4. CASE dm.eng = "E_IDLE"
  BY <1>4 DEF engine
<1> QED
  BY <1>1, <1>2, <1>3, <1>4, TypeParts

LEMMA WrittenType ==
    ASSUME NEW K, NEW g \in [K -> Val], NEW h \in Written(g) PROVE h \in [K -> Val]
BY DEF Written

LEMMA OneWritten ==
    ASSUME NEW g, NEW k \in DOMAIN g, NEW x \in Val PROVE [g EXCEPT ![k] = x] \in Written(g)
<1> DEFINE F(a, b) == [g EXCEPT ![a] = b]
<1>1. Written(g) = {g} \union {F(a, b) : a \in DOMAIN g, b \in Val}
  BY DEF Written
<1>2. [g EXCEPT ![k] = x] = F(k, x)
  OBVIOUS
<1> HIDE DEF F
<1>3. F(k, x) \in {F(a, b) : a \in DOMAIN g, b \in Val}
  BY SMT
<1> QED
  BY <1>1, <1>2, <1>3

LEMMA TypeInit == Init => TypeOK
<1> SUFFICES ASSUME Init PROVE TypeOK
  OBVIOUS
<1>1. dm \in DmType
  BY DebugAssumption, AddrFacts DEF Init, DmType, ArType, MreqType, SbcsType
<1>2. hart \in HartType
  BY DEF Init, hart_Reset, HartType
<1> QED
  BY <1>1, <1>2, TypeParts, DebugAssumption DEF Init

LEMMA TypeTick ==
    ASSUME TypeOK, NEW scan \in Scans \union {None}, NEW now \in BOOLEAN, Tick(scan, now)
    PROVE  /\ dm' \in DmType /\ hart' \in HartType
           /\ gpr' \in [Regs -> Val] /\ mem' \in [Mapped -> Val]
           /\ soc' \in [op : {"ready"}, rdata : Val] \union {None}
<1>t. /\ dm \in DmType /\ hart \in HartType /\ gpr \in [Regs -> Val]
      /\ mem \in [Mapped -> Val]
  BY TypeParts
<1>a. dm.ar # None => dm.ar.regno \in Regs /\ dm.ar.wdata \in Val /\ dm.ar.write \in BOOLEAN
  BY <1>t DEF DmType, ArType
<1>m. dm.mreq # None =>
        dm.mreq.addr \in Addr /\ dm.mreq.wdata \in Val /\ dm.mreq.write \in BOOLEAN
  BY <1>t DEF DmType, MreqType
<1>1. dm' \in DmType
  <2>1. PICK v \in dbg_ar_rdata : dm_Clock(scan, v)
    BY DEF Tick
  <2>2. [dm EXCEPT !.resumereq = FALSE] \in DmType /\ dm.dmi \in Scans \union {None}
    BY <1>t DEF DmType
  <2>3. dmi_write([dm EXCEPT !.resumereq = FALSE], dm.dmi) \in DmType
    BY <2>2, DmiWriteType
  <2>4. engine(dmi_write([dm EXCEPT !.resumereq = FALSE], dm.dmi), v) \in DmType
    BY <2>1, <2>3, EngineType, RdataType
  <2> DEFINE e == engine(dmi_write([dm EXCEPT !.resumereq = FALSE], dm.dmi), v)
  <2>5. dm' = [e EXCEPT !.dmi = scan]
    BY <2>1 DEF dm_Clock
  <2> HIDE DEF e
  <2>6. e \in DmType
    BY <2>4 DEF e
  <2> QED
    BY <2>5, <2>6 DEF DmType
<1>2. hart' \in HartType
  BY <1>t DEF Tick, hart_Clock, hart_Reset, HartType, dbg_do, dbg_haltreq, DmType
<1>3. gpr' \in [Regs -> Val]
  <2>1. CASE dbg_do /\ dm.ar.write
    BY <2>1, <1>t, <1>a DEF Tick, gpr_Clock, dbg_do
  <2>2. CASE ~(dbg_do /\ dm.ar.write) /\ hart.dbg_mode
    BY <2>2, <1>t DEF Tick, gpr_Clock
  <2>3. CASE ~(dbg_do /\ dm.ar.write) /\ ~hart.dbg_mode
    BY <2>3, <1>t, WrittenType DEF Tick, gpr_Clock
  <2> QED
    BY <2>1, <2>2, <2>3
<1>4. mem' \in [Mapped -> Val]
  <2>1. \A m \in [Mapped -> Val] : StoresOf(m) \subseteq [Mapped -> Val]
    BY WrittenType DEF StoresOf
  <2>2. dm.mreq # None => \A m \in [Mapped -> Val] : Patched(m) \in [Mapped -> Val]
    BY <1>m DEF Patched
  <2> QED
    BY <1>t, <2>1, <2>2 DEF Tick, mem_Clock
<1>5. soc' \in [op : {"ready"}, rdata : Val] \union {None}
  <2>1. CASE dm.mreq = None
    BY <2>1 DEF Tick, mem_Clock
  <2>2. CASE dm.mreq # None
    <3>1. (IF dm.mreq.write THEN 0 ELSE Loaded) \in Val
      BY <1>t, <1>m, <2>2, DebugAssumption DEF Loaded
    <3>2. soc' = [op |-> "ready", rdata |-> IF dm.mreq.write THEN 0 ELSE Loaded]
      BY <2>2 DEF Tick, mem_Clock
    <3> QED
      BY <3>1, <3>2
  <2> QED
    BY <2>1, <2>2
<1> QED
  BY <1>1, <1>2, <1>3, <1>4, <1>5

(* A step is a clock; with it a scan ends, or does not.                    *)
LEMMA NextCases ==
    ASSUME Next
    PROVE  \E scan \in Scans \union {None}, now \in BOOLEAN :
              /\ Tick(scan, now)
              /\ scan # None => gap = 0 /\ gap' = GAP /\ Polite(scan)
              /\ scan = None => gap' = IF gap = 0 THEN 0 ELSE gap - 1
<1>1. CASE Scan
  BY <1>1, NotNone DEF Scan, UpdateDR
<1>2. CASE \E now \in BOOLEAN : Clock(now)
  BY <1>2 DEF Clock
<1> QED
  BY <1>1, <1>2 DEF Next

LEMMA TypeStep == TypeOK /\ [Next]_vars => TypeOK'
<1> SUFFICES ASSUME TypeOK, [Next]_vars PROVE TypeOK'
  OBVIOUS
<1>1. CASE UNCHANGED vars
  BY <1>1 DEF vars, TypeOK
<1>2. CASE Next
  <2>1. PICK scan \in Scans \union {None}, now \in BOOLEAN :
              /\ Tick(scan, now)
              /\ scan # None => gap' = GAP
              /\ scan = None => gap' = IF gap = 0 THEN 0 ELSE gap - 1
    BY <1>2, NextCases
  <2>2. gap' \in 0 .. GAP
    BY <2>1, TypeParts, DebugAssumption
  <2>3. /\ dm' \in DmType /\ hart' \in HartType
        /\ gpr' \in [Regs -> Val] /\ mem' \in [Mapped -> Val]
        /\ soc' \in [op : {"ready"}, rdata : Val] \union {None}
    BY <2>1, TypeTick
  <2> QED
    BY <2>2, <2>3 DEF TypeOK, DmType, HartType, ArType, MreqType, SbcsType
<1> QED
  BY <1>1, <1>2

(* The registers, the requests and the handshake keep their types, and the *)
(* engine never enters a state that no arm of case (eng) leaves            *)
(* (gandiva_debug.sv: E_AR and E_SB_WAIT), for every bus and every memory  *)
(* map, an auto-incremented address outside the memory included.           *)
THEOREM TypeCorrect == Spec => []TypeOK
BY TypeInit, TypeStep, PTL DEF Spec

---------------------------------------------------------------------------
(* One clock of the debug module, register by register.  The engine's      *)
(* assignments come last, but only an abstract command can meet a DMI      *)
(* write: an access is over before the next scan ends.                     *)
DmNext(scan) ==
    LET s     == dm.dmi
        start == s.op = "command" /\ ~dm.abs_busy
        read  == s.op = "sbaddress0" /\ dm.sbcs.readonaddr
    IN  /\ dm'.dmi = scan
        /\ dm'.resumereq = IF s.op = "dmcontrol" THEN s.resumereq /\ hart.dbg_mode
                           ELSE FALSE
        /\ dm'.ndmreset = IF s.op = "dmcontrol" THEN s.ndmreset
                          ELSE s.op # "inactive" /\ dm.ndmreset
        /\ dm'.abs_busy = (~hart.ar_done /\ (dm.abs_busy \/ s.op = "command"))
        /\ dm'.ar = IF hart.ar_done THEN None ELSE IF start THEN Request(dm, s) ELSE dm.ar
        /\ dm'.sbcs = IF s.op = "sbcs" THEN s.sbcs ELSE dm.sbcs
        /\ dm'.sbaddress0 = IF s.op = "sbaddress0" THEN s.addr
                            ELSE IF soc # None /\ dm.sbcs.autoincrement
                            THEN (dm.sbaddress0 + 1) % ADDRS ELSE dm.sbaddress0
        /\ dm'.sbdata0 = IF s.op = "sbdata0" THEN s.val
                         ELSE IF soc # None /\ dm.eng = "E_SB_RD" THEN soc.rdata
                         ELSE dm.sbdata0
        /\ dm'.mreq = IF s.op = "sbdata0"
                      THEN [op |-> "mem", write |-> TRUE, addr |-> dm.sbaddress0,
                            wdata |-> s.val]
                      ELSE IF read
                      THEN [op |-> "mem", write |-> FALSE, addr |-> s.addr, wdata |-> 0]
                      ELSE None
        /\ dm'.eng = IF hart.ar_done \/ soc # None THEN "E_IDLE"
                     ELSE IF start THEN "E_AR_WAIT"
                     ELSE IF s.op = "sbdata0" THEN "E_SB_WR"
                     ELSE IF read THEN "E_SB_RD" ELSE dm.eng

LEMMA DmStep ==
    ASSUME DInv, NEW scan \in Scans \union {None}, NEW v \in dbg_ar_rdata,
           dm_Clock(scan, v)
    PROVE  /\ DmNext(scan)
           /\ dm'.data0 = IF hart.ar_done /\ ~dm.ar.write THEN v
                          ELSE IF dm.dmi.op = "data0" THEN dm.dmi.val ELSE dm.data0
<1> DEFINE d == [dm EXCEPT !.resumereq = FALSE]
           w == dmi_write(d, dm.dmi)
           e == engine(w, v)
<1>t. TypeOK /\ dm \in DmType /\ hart \in HartType /\ v \in Val
  BY TypeParts, RdataType DEF DInv
<1>1. d \in DmType /\ dm.dmi \in Scans \union {None} /\ d.resumereq = FALSE
  BY <1>t DEF DmType
<1>2. /\ d.ndmreset = dm.ndmreset /\ d.abs_busy = dm.abs_busy /\ d.ar = dm.ar
      /\ d.data0 = dm.data0 /\ d.sbcs = dm.sbcs /\ d.sbaddress0 = dm.sbaddress0
      /\ d.sbdata0 = dm.sbdata0 /\ d.mreq = dm.mreq /\ d.eng = dm.eng
  BY <1>t DEF DmType
<1> HIDE DEF d
<1>3. Request(d, dm.dmi) = Request(dm, dm.dmi)
  BY <1>2 DEF Request
<1>4. w \in DmType
  BY <1>1, <1>t, DmiWriteType
<1>5. DmiEffect(d, dm.dmi, w)
  BY <1>1, <1>t, DmiWriteFields
<1>6. EngineEffect(w, v, e)
  BY <1>4, <1>t, EngineFields
<1> HIDE DEF w
<1>7. e \in DmType
  BY <1>4, <1>t, EngineType
<1>8. dm' = [e EXCEPT !.dmi = scan]
  BY DEF dm_Clock, e, w, d
<1> HIDE DEF e
<1>9. /\ dm'.dmi = scan
      /\ dm'.resumereq = e.resumereq /\ dm'.ndmreset = e.ndmreset
      /\ dm'.abs_busy = e.abs_busy /\ dm'.ar = e.ar /\ dm'.data0 = e.data0
      /\ dm'.sbcs = e.sbcs /\ dm'.sbaddress0 = e.sbaddress0 /\ dm'.sbdata0 = e.sbdata0
      /\ dm'.mreq = e.mreq /\ dm'.eng = e.eng
  BY <1>7, <1>8 DEF DmType
(* When which client is served.                                            *)
<1>10. hart.ar_done => dm.eng = "E_AR_WAIT" /\ dm.abs_busy
  BY DEF DInv, EngineServes
<1>11. dm.mreq # None \/ soc # None => dm.eng \in {"E_SB_RD", "E_SB_WR"}
  BY DEF DInv, EngineServes
<1>12. dm.eng \in {"E_SB_RD", "E_SB_WR"} => dm.dmi = None
  BY TypeParts, DebugAssumption DEF DInv, BusServed, Paced
<1>13. dm.eng = "E_AR_WAIT" => dm.dmi.op \notin {"sbaddress0", "sbdata0"}
  <2>1. dm.dmi.op \in {"sbaddress0", "sbdata0"} => dm.dmi \in ScansSB
    BY <1>1, ScanCases DEF None
  <2> QED
    BY <2>1 DEF DInv, EngineServes, BusServed
<1>14. dm.dmi = None => dm.dmi.op = "none"
  BY DEF None
<1>15. dm.eng \in {"E_IDLE", "E_AR_WAIT", "E_SB_RD", "E_SB_WR"} /\ hart.ar_done \in BOOLEAN
  BY <1>t DEF DmType, HartType
<1>16. /\ w.resumereq = IF dm.dmi.op = "dmcontrol" THEN dm.dmi.resumereq /\ hart.dbg_mode
                         ELSE FALSE
       /\ dm'.resumereq = w.resumereq
  BY <1>1, <1>5, <1>6, <1>9 DEF DmiEffect, EngineEffect
<1>17. CASE dm.eng = "E_IDLE"
  <2>1. ~hart.ar_done /\ soc = None /\ dm.mreq = None
    BY <1>10, <1>11, <1>17
  <2> QED
    BY <1>2, <1>3, <1>5, <1>6, <1>9, <1>16, <1>17, <2>1, ZenonT(60)
       DEF DmNext, DmiEffect, EngineEffect
<1>18. CASE dm.eng = "E_AR_WAIT"
  <2>1. soc = None /\ dm.mreq = None /\ dm.dmi.op \notin {"sbaddress0", "sbdata0"}
    BY <1>11, <1>13, <1>18
  <2>2. CASE hart.ar_done
    BY <1>2, <1>3, <1>5, <1>6, <1>9, <1>10, <1>16, <1>18, <2>1, <2>2, ZenonT(60)
       DEF DmNext, DmiEffect, EngineEffect
  <2>3. CASE ~hart.ar_done
    BY <1>2, <1>3, <1>5, <1>6, <1>9, <1>16, <1>18, <2>1, <2>3, ZenonT(60)
       DEF DmNext, DmiEffect, EngineEffect
  <2> QED
    BY <1>15, <2>2, <2>3
<1>19. CASE dm.eng \in {"E_SB_RD", "E_SB_WR"}
  <2>1. ~hart.ar_done /\ dm.dmi.op = "none"
    BY <1>10, <1>12, <1>14, <1>19
  <2> QED
    BY <1>2, <1>3, <1>5, <1>6, <1>9, <1>16, <1>19, <2>1, ZenonT(60)
       DEF DmNext, DmiEffect, EngineEffect, sb_increment
<1> QED
  BY <1>15, <1>17, <1>18, <1>19

(* One clock of the hart's debug controller.                               *)
LEMMA HartStep ==
    ASSUME TypeOK, NEW now \in BOOLEAN, hart_Clock(now)
    PROVE  /\ hart'.ar_done <=> ~dm.ndmreset /\ dbg_do
           /\ hart'.ar_busy <=> ~dm.ndmreset /\ dm.ar # None /\ (hart.ar_busy \/ dbg_do)
           /\ hart'.dbg_mode => ~dm.ndmreset
           /\ hart.dbg_mode => (hart'.dbg_mode <=> ~dm.ndmreset /\ ~dm.resumereq)
           /\ dbg_do <=> hart.dbg_mode /\ dm.ar # None /\ ~hart.ar_busy
BY TypeParts DEF hart_Clock, hart_Reset, dbg_do, HartType, DmType

LEMMA SocStep == mem_Clock => (soc' # None <=> dm.mreq # None)
BY NotNone DEF mem_Clock

(* Facts every part of the invariant uses: what a step does, and where in  *)
(* the time between two scans it can happen.                               *)
LEMMA Pace ==
    ASSUME DInv, NEW scan \in Scans \union {None}, NEW now \in BOOLEAN, Tick(scan, now),
           scan # None => gap = 0 /\ gap' = GAP /\ Polite(scan),
           scan = None => gap' = IF gap = 0 THEN 0 ELSE gap - 1
    PROVE  /\ DmNext(scan)
           /\ dm.dmi # None => /\ scan = None /\ gap = GAP /\ gap' = GAP - 1
                               /\ dm.mreq = None /\ soc = None /\ ~dm.resumereq
                               /\ ~(dm.ndmreset /\ hart.dbg_mode)
           /\ dm.mreq # None => /\ scan = None /\ gap' = GAP - 2
                                /\ dm.dmi = None /\ soc = None
           /\ dm.dmi.op # "none" => dm.dmi # None
           /\ dm.dmi = None => dm.dmi.op = "none"
           /\ dm.dmi.op \in {"sbaddress0", "sbdata0"} => ~dm.abs_busy
<1>1. DmNext(scan)
  BY DmStep DEF Tick
<1>2. gap \in 0 .. GAP /\ GAP \in Nat /\ GAP >= 2
  BY TypeParts, DebugAssumption DEF DInv
<1>3. dm.dmi # None => /\ scan = None /\ gap = GAP /\ gap' = GAP - 1
                       /\ dm.mreq = None /\ soc = None /\ ~dm.resumereq
                       /\ ~(dm.ndmreset /\ hart.dbg_mode)
  BY <1>2 DEF DInv, Paced, Halts
<1>4. dm.mreq # None => scan = None /\ gap' = GAP - 2 /\ dm.dmi = None /\ soc = None
  BY <1>2 DEF DInv, Paced
<1>5. dm.dmi \in Scans \union {None}
  BY TypeParts DEF DInv, DmType
<1>6. dm.dmi.op \in {"sbaddress0", "sbdata0"} => ~dm.abs_busy
  BY <1>5, ScanCases DEF None, DInv, BusServed
<1> QED
  BY <1>1, <1>3, <1>4, <1>6 DEF None

LEMMA InvTick ==
    ASSUME DInv, NEW scan \in Scans \union {None}, NEW now \in BOOLEAN, Tick(scan, now),
           scan # None => gap = 0 /\ gap' = GAP /\ Polite(scan),
           scan = None => gap' = IF gap = 0 THEN 0 ELSE gap - 1
    PROVE  (EngineServes /\ Paced /\ BusServed /\ Handshake /\ Halts)'
<1> DEFINE SB == {"E_SB_RD", "E_SB_WR"}
<1>t. TypeOK /\ dm \in DmType /\ hart \in HartType
  BY TypeParts DEF DInv
<1>b. /\ dm.abs_busy \in BOOLEAN /\ hart.ar_done \in BOOLEAN
      /\ dm.eng \in {"E_IDLE", "E_AR_WAIT", "E_SB_RD", "E_SB_WR"}
  BY <1>t DEF DmType, HartType
<1>p. /\ DmNext(scan)
      /\ dm.dmi # None => /\ scan = None /\ gap = GAP /\ gap' = GAP - 1
                          /\ dm.mreq = None /\ soc = None /\ ~dm.resumereq
                          /\ ~(dm.ndmreset /\ hart.dbg_mode)
      /\ dm.mreq # None => scan = None /\ gap' = GAP - 2 /\ dm.dmi = None /\ soc = None
      /\ dm.dmi.op # "none" => dm.dmi # None
      /\ dm.dmi = None => dm.dmi.op = "none"
      /\ dm.dmi.op \in {"sbaddress0", "sbdata0"} => ~dm.abs_busy
  BY Pace
<1>h. /\ hart'.ar_done <=> ~dm.ndmreset /\ dbg_do
      /\ hart'.ar_busy <=> ~dm.ndmreset /\ dm.ar # None /\ (hart.ar_busy \/ dbg_do)
      /\ hart'.dbg_mode => ~dm.ndmreset
      /\ hart.dbg_mode => (hart'.dbg_mode <=> ~dm.ndmreset /\ ~dm.resumereq)
      /\ dbg_do <=> hart.dbg_mode /\ dm.ar # None /\ ~hart.ar_busy
  BY <1>t, HartStep DEF Tick
<1>s. soc' # None <=> dm.mreq # None
  BY SocStep DEF Tick
<1>e. /\ dm.abs_busy <=> dm.eng = "E_AR_WAIT"
      /\ dm.ar # None <=> dm.abs_busy
      /\ hart.ar_done => dm.abs_busy
      /\ dm.mreq # None \/ soc # None <=> dm.eng \in SB
      /\ dm.mreq = None \/ soc = None
      /\ hart.ar_done => hart.ar_busy
      /\ hart.ar_busy => hart.ar_done \/ dm.ar = None
  BY DEF DInv, EngineServes, BusServed, Handshake
(* A request is answered before the next DMI write: what mreq' stands for. *)
<1>m. /\ dm'.mreq # None => dm.dmi # None /\ dm.dmi.op \in {"sbaddress0", "sbdata0"}
      /\ dm'.mreq # None => dm'.eng \in SB
      /\ dm.dmi.op \in {"sbaddress0", "sbdata0"} /\ dm'.eng \in SB =>
            dm'.mreq # None
  BY <1>p, <1>e, NotNone DEF DmNext
<1>1. EngineServes'
  <2>1. (dm.abs_busy <=> dm.eng = "E_AR_WAIT")'
    BY <1>b, <1>e, <1>p DEF DmNext
  <2>2. (dm.ar # None <=> dm.abs_busy)'
    <3>1. Request(dm, dm.dmi) # None
      BY NotNone DEF Request
    <3>2. /\ dm'.abs_busy = (~hart.ar_done /\ (dm.abs_busy \/ dm.dmi.op = "command"))
          /\ dm'.ar = IF hart.ar_done THEN None
                      ELSE IF dm.dmi.op = "command" /\ ~dm.abs_busy
                      THEN Request(dm, dm.dmi) ELSE dm.ar
      BY <1>p DEF DmNext
    <3> QED
      BY <3>1, <3>2, <1>b, <1>e
  <2>3. (hart.ar_done => dm.abs_busy)'
    BY <1>b, <1>e, <1>h, <1>p DEF DmNext
  <2>4. soc' # None => dm'.eng \in SB
    BY <1>b, <1>e, <1>s, <1>p DEF DmNext
  <2>5. dm'.mreq = None \/ soc' = None
    BY <1>m, <1>s, <1>p
  <2> QED
    BY <2>1, <2>2, <2>3, <2>4, <2>5, <1>m DEF EngineServes
<1>2. Paced'
  <2>1. dm'.dmi # None => gap' = GAP
    BY <1>p DEF DmNext
  <2>2. dm'.resumereq \/ dm'.mreq # None => gap' = GAP - 1
    BY <1>p, <1>m DEF DmNext
  <2>3. soc' # None => gap' = GAP - 2
    BY <1>p, <1>s
  <2> QED
    BY <2>1, <2>2, <2>3 DEF Paced
<1>3. BusServed'
  <2>1. dm'.eng \in SB => dm'.mreq # None \/ soc' # None
    <3>1. CASE dm.dmi.op \in {"sbaddress0", "sbdata0"}
      BY <3>1, <1>m
    <3>2. CASE dm.dmi.op \notin {"sbaddress0", "sbdata0"}
      BY <3>2, <1>b, <1>e, <1>s, <1>p DEF DmNext
    <3> QED
      BY <3>1, <3>2
  <2>2. dm'.dmi \in ScansSB => ~dm'.abs_busy
    <3>1. SUFFICES ASSUME dm'.dmi \in ScansSB PROVE ~dm'.abs_busy
      OBVIOUS
    <3>2. scan \in ScansSB /\ scan # None
      BY <3>1, <1>p, NotNone DEF DmNext, Scans
    <3>3. dm.dmi.op = "none" /\ ~dm.abs_busy
      BY <3>2, <1>p DEF Polite
    <3> QED
      BY <3>3, <1>p DEF DmNext
  <2> QED
    BY <2>1, <2>2, <1>1 DEF BusServed, EngineServes
<1>4. Handshake'
  <2>1. hart.ar_done => dm'.ar = None
    BY <1>p DEF DmNext
  <2> QED
    BY <2>1, <1>h, <1>e DEF Handshake
<1>5. Halts'
  <2>1. dm'.resumereq => hart.dbg_mode /\ dm.dmi # None
    BY <1>p DEF DmNext
  <2>2. dm'.ndmreset => dm.ndmreset \/ dm.dmi # None
    BY <1>p DEF DmNext
  <2> QED
    BY <2>1, <2>2, <1>h, <1>p DEF Halts
<1> QED
  BY <1>1, <1>2, <1>3, <1>4, <1>5

LEMMA InvInit == Init => DInv
<1> SUFFICES ASSUME Init PROVE DInv
  OBVIOUS
<1>1. TypeOK
  BY TypeInit
<1>2. dm.dmi \notin ScansSB
  BY NotNone DEF Init, Scans
<1> QED
  BY <1>1, <1>2 DEF Init, hart_Reset, DInv, EngineServes, Paced, BusServed, Handshake, Halts

LEMMA InvStep == DInv /\ [Next]_vars => DInv'
<1> SUFFICES ASSUME DInv, [Next]_vars PROVE DInv'
  OBVIOUS
<1>1. TypeOK'
  BY TypeStep DEF DInv
<1>2. CASE UNCHANGED vars
  BY <1>1, <1>2 DEF vars, DInv, EngineServes, Paced, BusServed, Handshake, Halts
<1>3. CASE Next
  <2>1. PICK scan \in Scans \union {None}, now \in BOOLEAN :
              /\ Tick(scan, now)
              /\ scan # None => gap = 0 /\ gap' = GAP /\ Polite(scan)
              /\ scan = None => gap' = IF gap = 0 THEN 0 ELSE gap - 1
    BY <1>3, NextCases
  <2> QED
    BY <1>1, <2>1, InvTick DEF DInv
<1> QED
  BY <1>2, <1>3

LEMMA Inductive == Spec => []DInv
BY InvInit, InvStep, PTL DEF Spec

(* The engine's state and its clients' requests always agree, in both      *)
(* directions, so that every answer finds the state waiting for it         *)
(* (gandiva_debug.sv, case eng), for every spacing of scans of at least    *)
(* three clocks.                                                           *)
THEOREM EngineAgrees == Spec => []EngineServes
BY Inductive, PTL DEF DInv

(* A command on a halted hart is answered in one clock and retired in the  *)
(* next, whatever resume, reset or scan falls between (core: dbg_ar_done;  *)
(* debug module: E_AR_WAIT).                                               *)
THEOREM CommandsAnswered == Spec => AnsweredInTwo
<1>1. ASSUME DInv, [Next]_vars
      PROVE  [/\ dm.abs_busy /\ hart.dbg_mode /\ ~dm.ndmreset /\ ~hart.ar_done => hart'.ar_done
              /\ dm.abs_busy /\ hart.ar_done => ~dm'.abs_busy]_vars
  <2>1. CASE UNCHANGED vars
    BY <2>1
  <2>2. CASE Next
    <3>1. PICK scan \in Scans \union {None}, now \in BOOLEAN :
              /\ Tick(scan, now)
              /\ scan # None => gap = 0 /\ gap' = GAP /\ Polite(scan)
              /\ scan = None => gap' = IF gap = 0 THEN 0 ELSE gap - 1
      BY <2>2, NextCases
    <3>2. hart.ar_done => ~dm'.abs_busy
      BY <1>1, <3>1, Pace DEF DmNext
    <3>3. /\ hart'.ar_done <=> ~dm.ndmreset /\ dbg_do
          /\ dbg_do <=> hart.dbg_mode /\ dm.ar # None /\ ~hart.ar_busy
      BY <1>1, <3>1, HartStep DEF Tick, DInv
    <3> QED
      BY <1>1, <3>2, <3>3 DEF DInv, EngineServes, Handshake
  <2> QED
    BY <1>1, <2>1, <2>2
<1> QED
  BY Inductive, <1>1, PTL DEF Spec, AnsweredInTwo

(* The one-clock resume pulse always meets a halted hart, and the hart     *)
(* leaves debug mode on it (core: dbg_resumereq; debug module: dmcontrol). *)
THEOREM ResumesHeard == Spec => ResumeHeard
<1>1. ASSUME DInv, [Next]_vars
      PROVE  [dm.resumereq => hart.dbg_mode /\ ~hart'.dbg_mode]_vars
  <2>1. CASE UNCHANGED vars
    BY <2>1
  <2>2. CASE Next
    <3>1. PICK scan \in Scans \union {None}, now \in BOOLEAN : Tick(scan, now)
      BY <2>2, NextCases
    <3>2. hart.dbg_mode => (hart'.dbg_mode <=> ~dm.ndmreset /\ ~dm.resumereq)
      BY <1>1, <3>1, HartStep DEF Tick, DInv
    <3> QED
      BY <1>1, <3>2 DEF DInv, Halts
  <2> QED
    BY <1>1, <2>1, <2>2
<1> QED
  BY Inductive, <1>1, PTL DEF Spec, ResumeHeard

---------------------------------------------------------------------------
(* Refinement: the debug module implements the port of GandivaDebugPort.   *)

(* What the port needs besides: a resume never overtakes a command that    *)
(* could be performed, the hart answers while it is still halted, and the  *)
(* engine waits for the kind of access that was requested.                 *)
Agreed ==
    /\ dm.resumereq => dm.ar = None \/ hart.ar_busy
    /\ hart.ar_done => hart.dbg_mode
    /\ dm.mreq # None => (dm.mreq.write <=> dm.eng = "E_SB_WR")

RInv == DInv /\ Agreed

LEMMA AgreedTick ==
    ASSUME RInv, NEW scan \in Scans \union {None}, NEW now \in BOOLEAN, Tick(scan, now),
           scan # None => gap = 0 /\ gap' = GAP /\ Polite(scan),
           scan = None => gap' = IF gap = 0 THEN 0 ELSE gap - 1
    PROVE  Agreed'
<1>t. DInv /\ TypeOK /\ dm \in DmType /\ hart \in HartType
  BY TypeParts DEF RInv, DInv
<1>p. /\ DmNext(scan)
      /\ dm.dmi # None => soc = None /\ ~(dm.ndmreset /\ hart.dbg_mode)
      /\ dm.dmi.op # "none" => dm.dmi # None
      /\ dm.dmi.op \in {"sbaddress0", "sbdata0"} => ~dm.abs_busy
  BY <1>t, Pace
<1>h. /\ hart'.ar_done <=> ~dm.ndmreset /\ dbg_do
      /\ hart'.ar_busy <=> ~dm.ndmreset /\ dm.ar # None /\ (hart.ar_busy \/ dbg_do)
      /\ hart.dbg_mode => (hart'.dbg_mode <=> ~dm.ndmreset /\ ~dm.resumereq)
      /\ dbg_do <=> hart.dbg_mode /\ dm.ar # None /\ ~hart.ar_busy
  BY <1>t, HartStep DEF Tick
<1>1. (dm.resumereq => dm.ar = None \/ hart.ar_busy)'
  <2>1. SUFFICES ASSUME dm'.resumereq PROVE dm'.ar = None \/ hart'.ar_busy
    OBVIOUS
  <2>2. dm.dmi.op = "dmcontrol" /\ hart.dbg_mode
    BY <2>1, <1>p DEF DmNext
  <2>3. ~dm.ndmreset
    BY <2>2, <1>p
  <2>4. dm'.ar = None \/ dm'.ar = dm.ar
    BY <2>2, <1>p DEF DmNext
  <2> QED
    BY <2>2, <2>3, <2>4, <1>h
<1>2. (hart.ar_done => hart.dbg_mode)'
  BY <1>h DEF RInv, Agreed
<1>3. (dm.mreq # None => (dm.mreq.write <=> dm.eng = "E_SB_WR"))'
  <2>1. ~(hart.ar_done /\ ~dm.abs_busy)
    BY <1>t DEF DInv, EngineServes
  <2>2. CASE dm.dmi.op = "sbdata0"
    <3>1. dm'.mreq.write = TRUE /\ dm'.eng = "E_SB_WR"
      BY <2>1, <2>2, <1>p DEF DmNext
    <3> QED
      BY <3>1
  <2>3. CASE dm.dmi.op = "sbaddress0" /\ dm.sbcs.readonaddr
    <3>1. dm'.mreq.write = FALSE /\ dm'.eng = "E_SB_RD"
      BY <2>1, <2>3, <1>p DEF DmNext
    <3> QED
      BY <3>1
  <2>4. CASE dm.dmi.op # "sbdata0" /\ ~(dm.dmi.op = "sbaddress0" /\ dm.sbcs.readonaddr)
    BY <2>4, <1>p DEF DmNext
  <2> QED
    BY <2>2, <2>3, <2>4
<1> QED
  BY <1>1, <1>2, <1>3 DEF Agreed

LEMMA RInvInductive == Spec => []RInv
<1>1. Init => RInv
  BY InvInit DEF Init, hart_Reset, RInv, Agreed
<1>2. RInv /\ [Next]_vars => RInv'
  <2> SUFFICES ASSUME RInv, [Next]_vars PROVE RInv'
    OBVIOUS
  <2>1. DInv'
    BY InvStep DEF RInv
  <2>2. CASE UNCHANGED vars
    BY <2>1, <2>2 DEF vars, RInv, Agreed
  <2>3. CASE Next
    <3>1. PICK scan \in Scans \union {None}, now \in BOOLEAN :
              /\ Tick(scan, now)
              /\ scan # None => gap = 0 /\ gap' = GAP /\ Polite(scan)
              /\ scan = None => gap' = IF gap = 0 THEN 0 ELSE gap - 1
      BY <2>3, NextCases
    <3> QED
      BY <2>1, <3>1, AgreedTick DEF RInv
  <2> QED
    BY <2>2, <2>3
<1> QED
  BY <1>1, <1>2, PTL DEF Spec

LEMMA PortInit == Init => Port!Init
<1> SUFFICES ASSUME Init PROVE Port!Init
  OBVIOUS
<1>1. Command = Port!None /\ Access = Port!None
  BY DEF Init, Command, Access, Port!None, None
<1> QED
  BY <1>1 DEF Init, hart_Reset, Port!Init, Port!None, None

LEMMA SameWritten == \A f : Port!Written(f) = Written(f)
BY DEF Written, Port!Written

(* The hart writes its registers only when the port lets it.               *)
LEMMA HartRegsStep ==
    ASSUME TypeOK, gpr_Clock, ~(dbg_do /\ dm.ar.write /\ ~dm.ndmreset)
    PROVE  Port!HartRegs
<1>t. gpr \in [Regs -> Val]
  BY TypeParts
<1>1. gpr \in Written(gpr) /\ gpr \in Port!Written(gpr)
  BY DEF Written, Port!Written
<1>2. CASE dbg_do /\ dm.ar.write
  <2>1. dm.ndmreset /\ dm.ar.regno \in Regs /\ dm.ar.wdata \in Val
    BY <1>2, TypeParts DEF dbg_do, DmType, ArType
  <2>2. gpr' = [gpr EXCEPT ![dm.ar.regno] = dm.ar.wdata]
    BY <1>2 DEF gpr_Clock
  <2>3. gpr' \in Port!Written(gpr)
    <3>1. dm.ar.regno \in DOMAIN gpr
      BY <1>t, <2>1
    <3>2. gpr' \in Written(gpr)
      BY <2>1, <2>2, <3>1, OneWritten
    <3> QED
      BY <3>2, SameWritten
  <2> QED
    BY <2>1, <2>3 DEF Port!HartRegs, Port!Loose
<1>3. CASE ~(dbg_do /\ dm.ar.write)
  <2>1. gpr' \in IF hart.dbg_mode THEN {gpr} ELSE Port!Written(gpr)
    BY <1>3 DEF gpr_Clock, Written, Port!Written
  <2> QED
    BY <1>1, <2>1 DEF Port!HartRegs, Port!Loose
<1> QED
  BY <1>2, <1>3

LEMMA PortRegisters ==
    ASSUME RInv, NEW scan \in Scans \union {None}, NEW now \in BOOLEAN, Tick(scan, now),
           scan # None => gap = 0 /\ gap' = GAP /\ Polite(scan),
           scan = None => gap' = IF gap = 0 THEN 0 ELSE gap - 1
    PROVE  Port!RegisterSide
<1>t. DInv /\ TypeOK /\ dm \in DmType /\ hart \in HartType /\ gpr_Clock
  BY TypeParts DEF RInv, DInv, Tick
<1>b. /\ dm.abs_busy \in BOOLEAN /\ hart.ar_done \in BOOLEAN /\ hart.dbg_mode \in BOOLEAN
      /\ dm.ndmreset \in BOOLEAN
      /\ dm.ar # None => dm.ar.write \in BOOLEAN
  BY <1>t DEF DmType, HartType, ArType
<1>v. PICK v \in dbg_ar_rdata : dm_Clock(scan, v)
  BY DEF Tick
<1>d. /\ dm'.abs_busy = (~hart.ar_done /\ (dm.abs_busy \/ dm.dmi.op = "command"))
      /\ dm'.ar = IF hart.ar_done THEN None
                  ELSE IF dm.dmi.op = "command" /\ ~dm.abs_busy
                  THEN Request(dm, dm.dmi) ELSE dm.ar
      /\ dm'.data0 = IF hart.ar_done /\ ~dm.ar.write THEN v
                     ELSE IF dm.dmi.op = "data0" THEN dm.dmi.val ELSE dm.data0
  BY <1>t, <1>v, DmStep DEF DmNext
<1>h. /\ hart'.ar_done <=> ~dm.ndmreset /\ dbg_do
      /\ dbg_do <=> hart.dbg_mode /\ dm.ar # None /\ ~hart.ar_busy
  BY <1>t, HartStep DEF Tick
<1>e. /\ dm.ar # None <=> dm.abs_busy
      /\ hart.ar_done => dm.abs_busy /\ hart.ar_busy /\ hart.dbg_mode
      /\ hart.ar_busy => hart.ar_done \/ dm.ar = None
  BY <1>t DEF DInv, EngineServes, Handshake, RInv, Agreed
<1>n. Port!None = None /\ None.op = "none"
  BY DEF Port!None, None
<1>0. ~(hart.ar_done /\ ~dm.ar.write) => Port!Data0
  BY <1>d DEF Port!Data0
<1>1. CASE ~dm.abs_busy
  <2>1. Command = None /\ ~dbg_do /\ ~hart.ar_done /\ ~hart'.ar_done
    BY <1>1, <1>h, <1>e DEF Command
  <2>2. Port!HartRegs /\ Port!Data0
    BY <2>1, <1>0, <1>t, HartRegsStep
  <2>3. CASE dm.dmi.op = "command"
    <3>1. dm'.abs_busy /\ dm'.ar = Request(dm, dm.dmi)
      BY <1>1, <1>d, <2>1, <2>3
    <3>2. Command' = [op |-> "pending", write |-> dm.dmi.write, reg |-> dm.dmi.reg,
                      val |-> dm.data0]
      BY <3>1, <2>1 DEF Command, Request
    <3> QED
      BY <2>1, <2>2, <2>3, <3>2, <1>n DEF Port!Issue, Port!RegisterSide
  <2>4. CASE dm.dmi.op # "command"
    <3>1. ~dm'.abs_busy
      BY <1>1, <1>d, <2>4
    <3>2. Command' = Command
      BY <3>1, <2>1 DEF Command, None
    <3> QED
      BY <2>2, <2>4, <3>2 DEF Port!NoCommand, Port!RegisterSide
  <2> QED
    BY <2>3, <2>4
<1>2. CASE dm.abs_busy /\ hart.ar_done
  <2>1. ~dbg_do /\ hart.dbg_mode /\ dm.ar # None
    BY <1>2, <1>h, <1>e
  <2>2. Port!HartRegs
    BY <2>1, <1>t, HartRegsStep
  <2>3. Command' = None
    <3>1. ~dm'.abs_busy
      BY <1>2, <1>d
    <3> QED
      BY <3>1 DEF Command, None
  <2>4. CASE dm.ar.write
    <3>1. Command.op = "performed"
      BY <1>2, <2>4 DEF Command
    <3> QED
      BY <2>2, <2>3, <2>4, <3>1, <1>0, <1>n DEF Port!Finish, Port!RegisterSide
  <2>5. CASE ~dm.ar.write
    <3>1. Command.op = "pending" /\ ~Command.write /\ Command.reg = dm.ar.regno
      BY <1>2, <2>5, <2>1, <1>b DEF Command
    <3>2. dm'.data0 = gpr[dm.ar.regno]
      <4>1. v = gpr[dm.ar.regno]
        BY <1>v, <2>1 DEF dbg_ar_rdata
      <4> QED
        BY <4>1, <1>2, <2>5, <1>d
    <3> QED
      BY <2>1, <2>2, <2>3, <3>1, <3>2, <1>n DEF Port!ReadReg, Port!RegisterSide
  <2> QED
    BY <2>4, <2>5
<1>3. CASE dm.abs_busy /\ ~hart.ar_done
  <2>1. ~hart.ar_busy /\ dm.ar # None /\ dm'.abs_busy /\ dm'.ar = dm.ar /\ Port!Data0
    BY <1>3, <1>e, <1>d, <1>0
  <2>2. Command = [op |-> "pending", write |-> dm.ar.write, reg |-> dm.ar.regno,
                   val |-> dm.ar.wdata]
    BY <1>3 DEF Command
  <2>3. Command' = [op |-> IF hart'.ar_done /\ dm.ar.write THEN "performed" ELSE "pending",
                    write |-> dm.ar.write, reg |-> dm.ar.regno, val |-> dm.ar.wdata]
    BY <2>1 DEF Command
  <2>4. CASE dbg_do /\ dm.ar.write /\ ~dm.ndmreset
    <3>1. Command' = [Command EXCEPT !.op = "performed"]
      <4>1. hart'.ar_done
        BY <2>4, <1>h
      <4>2. Command' = [op |-> "performed", write |-> dm.ar.write, reg |-> dm.ar.regno,
                        val |-> dm.ar.wdata]
        BY <2>3, <2>4, <4>1
      <4>3. \A a, b, c : [[op |-> "pending", write |-> a, reg |-> b, val |-> c]
                             EXCEPT !.op = "performed"]
                        = [op |-> "performed", write |-> a, reg |-> b, val |-> c]
        OBVIOUS
      <4> QED
        BY <2>2, <4>2, <4>3
    <3>2. gpr' = [gpr EXCEPT ![Command.reg] = Command.val]
      BY <2>2, <2>4, <1>t DEF gpr_Clock
    <3>3. Command.op = "pending" /\ Command.write
      BY <2>2, <2>4
    <3> QED
      BY <2>1, <2>4, <3>1, <3>2, <3>3, <1>h DEF Port!WriteReg, Port!RegisterSide
  <2>5. CASE ~(dbg_do /\ dm.ar.write /\ ~dm.ndmreset)
    <3>1. Command' = Command
      <4>1. ~(hart'.ar_done /\ dm.ar.write)
        BY <2>5, <1>h
      <4> QED
        BY <2>2, <2>3, <4>1
    <3>2. Command # Port!None
      BY <2>2, <1>n
    <3> QED
      BY <2>1, <2>5, <3>1, <3>2, <1>t, HartRegsStep DEF Port!NoCommand, Port!RegisterSide
  <2> QED
    BY <2>4, <2>5
<1> QED
  BY <1>1, <1>2, <1>3, <1>b

(* So do its stores: in every clock the port allows at least as many.      *)
LEMMA HartMemStep == \A m : m \in Port!HartMem(m) /\ StoresOf(m) \subseteq Port!HartMem(m)
<1> SUFFICES ASSUME NEW m
             PROVE  m \in Port!HartMem(m) /\ StoresOf(m) \subseteq Port!HartMem(m)
  OBVIOUS
<1>1. m \in Written(m)
  BY DEF Written
<1> QED
  BY <1>1, SameWritten DEF StoresOf, Port!HartMem, Port!Loose

LEMMA PortMemory ==
    ASSUME RInv, NEW scan \in Scans \union {None}, NEW now \in BOOLEAN, Tick(scan, now),
           scan # None => gap = 0 /\ gap' = GAP /\ Polite(scan),
           scan = None => gap' = IF gap = 0 THEN 0 ELSE gap - 1
    PROVE  Port!MemorySide
<1>t. DInv /\ TypeOK /\ dm \in DmType /\ mem_Clock
  BY TypeParts DEF RInv, DInv, Tick
<1>b. /\ dm.mreq # None => dm.mreq.write \in BOOLEAN
      /\ dm.dmi \in Scans \union {None}
  BY <1>t DEF DmType, MreqType
<1>p. /\ DmNext(scan)
      /\ dm.dmi # None => dm.mreq = None /\ soc = None
      /\ dm.mreq # None => dm.dmi = None /\ soc = None
      /\ dm.dmi = None => dm.dmi.op = "none"
      /\ dm.dmi.op # "none" => dm.dmi # None
      /\ dm.dmi.op \in {"sbaddress0", "sbdata0"} => ~dm.abs_busy
  BY <1>t, Pace
<1>e. /\ dm.mreq # None \/ soc # None <=> dm.eng \in {"E_SB_RD", "E_SB_WR"}
      /\ dm.eng = "E_AR_WAIT" <=> dm.abs_busy
      /\ hart.ar_done => dm.abs_busy
      /\ dm.mreq # None => (dm.mreq.write <=> dm.eng = "E_SB_WR")
  BY <1>t DEF DInv, EngineServes, BusServed, RInv, Agreed
<1>n. Port!None = None /\ None.op = "none"
  BY DEF Port!None, None
<1>s. soc' # None <=> dm.mreq # None
  BY <1>t, SocStep
<1>c. Port!Configure
  BY <1>p DEF DmNext, Port!Configure
<1>1. CASE dm.mreq # None
  <2>1. /\ dm.dmi.op = "none" /\ soc = None /\ ~hart.ar_done
        /\ dm'.mreq = None /\ dm'.eng = dm.eng
        /\ dm'.sbaddress0 = dm.sbaddress0 /\ dm'.sbdata0 = dm.sbdata0
    BY <1>1, <1>p, <1>e DEF DmNext
  <2>2. Access = [op |-> "pending", write |-> dm.mreq.write, addr |-> dm.mreq.addr,
                  val |-> dm.mreq.wdata]
    BY <1>1, <2>1 DEF Access
  <2>3. Access' = [op |-> "performed", write |-> dm'.eng = "E_SB_WR", val |-> soc'.rdata]
    BY <1>1, <1>s, <2>1 DEF Access, None
  <2>4. CASE dm.mreq.write
    <3>1. \/ mem' \in StoresOf(Patched(mem))
          \/ \E m \in StoresOf(mem) : mem' = Patched(m)
      BY <1>1, <1>t, <2>4 DEF mem_Clock
    <3>2. \A m : Patched(m) = Port!Stored(m)
      BY <2>2 DEF Patched, Port!Stored
    <3>3. \/ mem' \in Port!HartMem(Port!Stored(mem))
          \/ \E m \in Port!HartMem(mem) : mem' = Port!Stored(m)
      BY <3>1, <3>2, HartMemStep
    <3>4. soc' = [op |-> "ready", rdata |-> 0]
      BY <1>1, <1>t, <2>4 DEF mem_Clock
    <3>5. dm'.eng = "E_SB_WR" /\ soc'.rdata = 0
      BY <1>1, <1>e, <2>1, <2>4, <3>4
    <3>6. Access' = [op |-> "performed", write |-> TRUE, val |-> 0]
      BY <2>3, <3>5
    <3> QED
      BY <1>c, <2>1, <2>2, <2>4, <3>3, <3>6 DEF Port!Perform, Port!MemorySide
  <2>5. CASE ~dm.mreq.write
    <3>1. mem' \in Port!HartMem(mem)
      BY <2>5, <1>t, HartMemStep DEF mem_Clock
    <3>2. soc' = [op |-> "ready", rdata |-> Loaded]
      BY <1>1, <1>t, <2>5 DEF mem_Clock
    <3>3. (dm'.eng = "E_SB_WR") = FALSE /\ soc'.rdata = Loaded
      BY <1>1, <1>e, <2>1, <2>5, <3>2
    <3>4. Loaded = Port!MemoryWord
      BY <2>2 DEF Loaded, Port!MemoryWord
    <3>5. Access' = [op |-> "performed", write |-> FALSE, val |-> Port!MemoryWord]
      BY <2>3, <3>3, <3>4
    <3> QED
      BY <1>c, <2>1, <2>2, <2>5, <3>1, <3>5 DEF Port!Perform, Port!MemorySide
  <2> QED
    BY <2>4, <2>5
<1>m. ASSUME dm.mreq = None PROVE mem' \in Port!HartMem(mem)
  BY <1>m, <1>t, HartMemStep DEF mem_Clock
<1>2. CASE dm.mreq = None /\ soc # None
  <2>1. /\ dm.dmi.op = "none" /\ dm.eng \in {"E_SB_RD", "E_SB_WR"}
        /\ dm'.mreq = None /\ soc' = None
        /\ dm'.sbaddress0 = IF dm.sbcs.autoincrement THEN (dm.sbaddress0 + 1) % ADDRS
                            ELSE dm.sbaddress0
        /\ dm'.sbdata0 = IF dm.eng = "E_SB_WR" THEN dm.sbdata0 ELSE soc.rdata
    BY <1>2, <1>p, <1>e, <1>s DEF DmNext
  <2>2. Access = [op |-> "performed", write |-> dm.eng = "E_SB_WR", val |-> soc.rdata]
    BY <1>2 DEF Access
  <2>3. Access' = None
    BY <2>1 DEF Access, None
  <2>4. dm'.sbdata0 = IF Access.write THEN dm.sbdata0 ELSE Access.val
    BY <2>1, <2>2
  <2>5. Access.op = "performed"
    BY <2>2
  <2> QED
    BY <1>2, <1>c, <1>m, <1>n, <2>1, <2>3, <2>4, <2>5 DEF Port!Complete, Port!MemorySide
<1>3. CASE dm.mreq = None /\ soc = None
  <2>1. Access = None /\ soc' = None
    BY <1>3, <1>s DEF Access, None
  <2>2. dm'.mreq = None => Access' = None
    BY <2>1 DEF Access, None
  <2>3. dm'.mreq # None => Access' = [op |-> "pending", write |-> dm'.mreq.write,
                                      addr |-> dm'.mreq.addr, val |-> dm'.mreq.wdata]
    BY <2>1 DEF Access
  <2>4. CASE dm.dmi.op = "sbdata0"
    <3>1. /\ dm'.sbdata0 = dm.dmi.val /\ dm'.sbaddress0 = dm.sbaddress0
          /\ dm'.mreq = [op |-> "mem", write |-> TRUE, addr |-> dm.sbaddress0,
                         wdata |-> dm.dmi.val]
      BY <1>3, <2>4, <1>p DEF DmNext
    <3>2. Access' = [op |-> "pending", write |-> TRUE, addr |-> dm.sbaddress0,
                     val |-> dm.dmi.val]
      BY <2>3, <3>1, NotNone
    <3> QED
      BY <1>3, <1>c, <1>m, <1>n, <2>1, <2>4, <3>1, <3>2 DEF Port!SetData, Port!MemorySide
  <2>5. CASE dm.dmi.op = "sbaddress0"
    <3>1. /\ dm'.sbaddress0 = dm.dmi.addr /\ dm'.sbdata0 = dm.sbdata0
          /\ dm'.mreq = IF dm.sbcs.readonaddr
                        THEN [op |-> "mem", write |-> FALSE, addr |-> dm.dmi.addr, wdata |-> 0]
                        ELSE None
      BY <1>3, <2>5, <1>p DEF DmNext
    <3>2. Access' = IF dm.sbcs.readonaddr
                    THEN [op |-> "pending", write |-> FALSE, addr |-> dm.dmi.addr, val |-> 0]
                    ELSE None
      <4>1. CASE dm.sbcs.readonaddr
        <5>1. dm'.mreq = [op |-> "mem", write |-> FALSE, addr |-> dm.dmi.addr, wdata |-> 0]
          BY <3>1, <4>1
        <5>2. dm'.mreq # None
          BY <5>1, NotNone
        <5> QED
          BY <4>1, <5>1, <5>2, <2>3
      <4>2. CASE ~dm.sbcs.readonaddr
        BY <2>2, <3>1, <4>2
      <4> QED
        BY <4>1, <4>2
    <3> QED
      BY <1>3, <1>c, <1>m, <1>n, <2>1, <2>5, <3>1, <3>2 DEF Port!SetAddress, Port!MemorySide
  <2>6. CASE dm.dmi.op \notin {"sbaddress0", "sbdata0"}
    <3>1. dm'.sbaddress0 = dm.sbaddress0 /\ dm'.sbdata0 = dm.sbdata0 /\ dm'.mreq = None
      BY <1>3, <2>6, <1>p DEF DmNext
    <3> QED
      BY <1>3, <1>c, <1>m, <1>n, <2>1, <2>2, <2>6, <3>1 DEF Port!NoAccess, Port!MemorySide
  <2> QED
    BY <2>4, <2>5, <2>6
<1> QED
  BY <1>1, <1>2, <1>3

LEMMA PortStep == RInv /\ [Next]_vars => [Port!Next]_(Port!vars)
<1> SUFFICES ASSUME RInv, [Next]_vars PROVE [Port!Next]_(Port!vars)
  OBVIOUS
<1>1. CASE UNCHANGED vars
  BY <1>1 DEF vars, Port!vars, Command, Access
<1>2. CASE Next
  <2>1. PICK scan \in Scans \union {None}, now \in BOOLEAN :
              /\ Tick(scan, now)
              /\ scan # None => gap = 0 /\ gap' = GAP /\ Polite(scan)
              /\ scan = None => gap' = IF gap = 0 THEN 0 ELSE gap - 1
    BY <1>2, NextCases
  <2> QED
    BY <2>1, PortRegisters, PortMemory DEF Port!Next
<1> QED
  BY <1>1, <1>2

(* The debugger's view holds of the debug module, the hart and the memory  *)
(* path together (gandiva_debug.sv, core debug controller, gandiva_soc.sv):*)
(* every command and every access is performed once, with the operands it  *)
(* was written with, commands only on a halted hart, and the engine never  *)
(* returns the value of one client to the other.                           *)
THEOREM PortImplemented == Spec => ImplementsPort
BY RInvInductive, PortInit, PortStep, PTL DEF Spec, ImplementsPort, Port!Spec
=============================================================================
