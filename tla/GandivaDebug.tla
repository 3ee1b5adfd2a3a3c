---------------------------- MODULE GandivaDebug ----------------------------
(***************************************************************************)
(* rtl/gandiva_debug.sv from the DMI write on: the registers of the debug  *)
(* module and its abstract-command and system-bus engine, joined to the    *)
(* hart's side of the handshake (the debug controller of gandiva_core.sv)  *)
(* and to the memory path of gandiva_soc.sv.  One step is one clock.       *)
(*                                                                         *)
(* The hart is abstracted to whether it is halting or halted; while it     *)
(* runs it may change any register and any word, and may ask for a halt    *)
(* itself (ebreak, trigger, single step).  The 32-bit words and registers  *)
(* are small sets, addresses are word addresses of a bus of ADDRS words    *)
(* (2^30), of which the instruction and the data memory take up Mapped.    *)
(* A DR scan is one DMI write, and two of them are at least GAP + 1 clocks *)
(* apart (a scan shifts 41 bits).  A request port is None while its valid  *)
(* bit is 0: its payload is not read then.                                 *)
(***************************************************************************)
EXTENDS Naturals

CONSTANTS Regs, Val, ADDRS, Mapped, GAP

ASSUME DebugAssumption ==
    /\ 0 \in Val /\ Val \subseteq Nat /\ Regs # {}
    /\ ADDRS \in Nat \ {0} /\ Mapped \subseteq 0 .. (ADDRS - 1)
    /\ GAP \in Nat /\ GAP >= 2

VARIABLES dm,        \* registers and outputs of the debug module
          hart,      \* debug controller of the core
          gpr,       \* registers an abstract command reaches
          soc,       \* dm_mem_ready with dm_mem_rdata, or None
          mem,       \* instruction and data memory
          gap        \* clocks until the next DR scan can end

vars == <<dm, hart, gpr, soc, mem, gap>>

Addr == 0 .. (ADDRS - 1)
None == [op |-> "none"]

(* DMI writes (dmi_we_addr, dmi_we_data).                                  *)
ScansSB == [op : {"sbaddress0"}, addr : Addr] \union [op : {"sbdata0"}, val : Val]
Scans ==
    [op : {"data0"}, val : Val]
    \union {[op |-> "inactive"]}      \* dmcontrol with dmactive = 0
    \union [op : {"dmcontrol"}, ndmreset : BOOLEAN, haltreq : BOOLEAN, resumereq : BOOLEAN]
    \union [op : {"command"}, write : BOOLEAN, reg : Regs]
    \union [op : {"sbcs"}, sbcs : [autoincrement : BOOLEAN, readonaddr : BOOLEAN]]
    \union ScansSB

---------------------------------------------------------------------------
(* Wires between the debug module and the hart.                            *)
dbg_haltreq == dm.haltreq /\ dm.dmactive
dbg_do      == hart.dbg_mode /\ dm.ar # None /\ ~hart.ar_busy
(* The read ports belong to the pipeline when the hart is not halted.      *)
dbg_ar_rdata == IF dm.ar = None THEN {0}
                ELSE IF hart.dbg_mode THEN {gpr[dm.ar.regno]} ELSE Val

---------------------------------------------------------------------------
(* Debug module: the latched DMI write.                                    *)

Request(d, s) == [op |-> "ar", write |-> s.write, regno |-> s.reg, wdata |-> d.data0]

(* Seeded fault: the engine is not told that a command waits for it.       *)
start_access_reg_NoWait(d, s) == [d EXCEPT !.abs_busy = TRUE, !.ar = Request(d, s)]
start_access_reg(d, s) ==
    [d EXCEPT !.abs_busy = TRUE, !.ar = Request(d, s), !.eng = "E_AR_WAIT"]

(* Seeded fault: a resume request is sent to a running hart too.           *)
dmcontrol_AnyHart(d, s) ==
    [d EXCEPT !.dmactive = TRUE, !.ndmreset = s.ndmreset, !.haltreq = s.haltreq,
              !.resumereq = s.resumereq]
dmcontrol(d, s) ==
    [d EXCEPT !.dmactive = TRUE, !.ndmreset = s.ndmreset, !.haltreq = s.haltreq,
              !.resumereq = s.resumereq /\ hart.dbg_mode]

(* Seeded fault: the engine goes to the wait state that is declared for it. *)
sb_access_Wait(d, write, addr, wdata) ==
    [d EXCEPT !.mreq = [op |-> "mem", write |-> write, addr |-> addr, wdata |-> wdata],
              !.eng = "E_SB_WAIT"]
sb_access(d, write, addr, wdata) ==
    [d EXCEPT !.mreq = [op |-> "mem", write |-> write, addr |-> addr, wdata |-> wdata],
              !.eng = IF write THEN "E_SB_WR" ELSE "E_SB_RD"]

dmi_write(d, s) ==
    CASE s.op = "none"       -> d
      [] s.op = "data0"      -> [d EXCEPT !.data0 = s.val]
      [] s.op = "inactive"   ->
           [d EXCEPT !.dmactive = FALSE, !.haltreq = FALSE, !.ndmreset = FALSE]
      [] s.op = "dmcontrol"  -> dmcontrol(d, s)
      [] s.op = "command"    -> IF d.abs_busy THEN d ELSE start_access_reg(d, s)
      [] s.op = "sbcs"       -> [d EXCEPT !.sbcs = s.sbcs]
      [] s.op = "sbaddress0" ->
           LET e == [d EXCEPT !.sbaddress0 = s.addr]
           IN  IF d.sbcs.readonaddr THEN sb_access(e, FALSE, s.addr, 0) ELSE e
      [] s.op = "sbdata0"    ->
           sb_access([d EXCEPT !.sbdata0 = s.val], TRUE, d.sbaddress0, s.val)

---------------------------------------------------------------------------
(* Debug module: the engine.  It looks at the registers as they were, and  *)
(* its assignments come last: they win over those of the DMI write.        *)
(* The address register has 32 bits; it may well point outside the memory. *)
sb_increment(d) == IF dm.sbcs.autoincrement THEN (dm.sbaddress0 + 1) % ADDRS
                                            ELSE d.sbaddress0

(* Seeded fault: data0 takes the read port after a write too.              *)
engine_AR_Always(d, rdata) ==
    IF hart.ar_done
    THEN [d EXCEPT !.ar = None, !.abs_busy = FALSE, !.eng = "E_IDLE", !.data0 = rdata]
    ELSE d
engine_AR(d, rdata) ==
    IF hart.ar_done
    THEN [d EXCEPT !.ar = None, !.abs_busy = FALSE, !.eng = "E_IDLE",
                   !.data0 = IF dm.ar.write THEN @ ELSE rdata]
    ELSE d

engine_SB(d) ==
    IF soc # None
    THEN [d EXCEPT !.mreq = None, !.sbaddress0 = sb_increment(d), !.eng = "E_IDLE",
                   !.sbdata0 = IF dm.eng = "E_SB_RD" THEN soc.rdata ELSE @]
    ELSE [d EXCEPT !.mreq = None]

engine(d, rdata) ==
    CASE dm.eng = "E_AR_WAIT" -> engine_AR(d, rdata)
      [] dm.eng \in {"E_SB_RD", "E_SB_WR"} -> engine_SB(d)
      [] OTHER -> d

(* resumereq is a pulse; the scan that ends now is applied next clock.     *)
dm_Clock(scan, rdata) ==
    dm' = [engine(dmi_write([dm EXCEPT !.resumereq = FALSE], dm.dmi), rdata)
             EXCEPT !.dmi = scan]

---------------------------------------------------------------------------
(* Hart: debug controller, and the registers the handshake reaches.        *)
hart_Reset == [dbg_mode |-> FALSE, halt_req |-> FALSE, ar_busy |-> FALSE, ar_done |-> FALSE]

(* `now': the pipeline is drained, if a halt is under way; otherwise the   *)
(* program itself asks for a halt.                                         *)
(* Seeded fault: the hart stays busy after its first command.              *)
hart_Clock_StaysBusy(now) ==
    hart' =
      IF dm.ndmreset THEN hart_Reset
      ELSE [dbg_mode |-> IF hart.dbg_mode THEN ~dm.resumereq ELSE hart.halt_req /\ now,
            halt_req |-> IF hart.halt_req THEN ~now
                         ELSE ~hart.dbg_mode /\ (dbg_haltreq \/ now),
            ar_busy  |-> hart.ar_busy \/ dbg_do,
            ar_done  |-> dbg_do]
hart_Clock(now) ==
    hart' =
      IF dm.ndmreset THEN hart_Reset
      ELSE [dbg_mode |-> IF hart.dbg_mode THEN ~dm.resumereq ELSE hart.halt_req /\ now,
            halt_req |-> IF hart.halt_req THEN ~now
                         ELSE ~hart.dbg_mode /\ (dbg_haltreq \/ now),
            ar_busy  |-> dm.ar # None /\ (hart.ar_busy \/ dbg_do),
            ar_done  |-> dbg_do]

Written(f) == {f} \union {[f EXCEPT ![k] = v] : k \in DOMAIN f, v \in Val}

gpr_Clock ==
    gpr' \in IF dbg_do /\ dm.ar.write
             THEN {[gpr EXCEPT ![dm.ar.regno] = dm.ar.wdata]}
             ELSE IF hart.dbg_mode THEN {gpr} ELSE Written(gpr)

---------------------------------------------------------------------------
(* SoC: memory path of the debug module, next to the hart's own stores.    *)
StoresOf(m) == IF hart.dbg_mode THEN {m} ELSE Written(m)
(* A write outside both memories is dropped, a read there returns 0.       *)
Patched(m)  == IF dm.mreq.addr \in Mapped
               THEN [m EXCEPT ![dm.mreq.addr] = dm.mreq.wdata] ELSE m
Loaded      == IF dm.mreq.addr \in Mapped THEN mem[dm.mreq.addr] ELSE 0

mem_Clock ==
    /\ mem' \in IF dm.mreq # None /\ dm.mreq.write
                THEN StoresOf(Patched(mem)) \union {Patched(m) : m \in StoresOf(mem)}
                ELSE StoresOf(mem)
    /\ soc' = IF dm.mreq = None THEN None
              ELSE [op |-> "ready", rdata |-> IF dm.mreq.write THEN 0 ELSE Loaded]

---------------------------------------------------------------------------
Init ==
    /\ dm = [dmactive |-> FALSE, ndmreset |-> FALSE, haltreq |-> FALSE, resumereq |-> FALSE,
             abs_busy |-> FALSE, data0 |-> 0, ar |-> None,
             sbcs |-> [autoincrement |-> FALSE, readonaddr |-> FALSE],
             sbaddress0 |-> 0, sbdata0 |-> 0, mreq |-> None,
             eng |-> "E_IDLE", dmi |-> None]
    /\ hart = hart_Reset
    /\ gpr \in [Regs -> Val] /\ mem \in [Mapped -> Val]
    /\ soc = None /\ gap = 0

(* A debugger that reads abstractcs.busy before it uses the system bus;    *)
(* the debug module does not look (see AnySpec).                           *)
Polite(scan) == scan \in ScansSB => ~dm.abs_busy

Tick(scan, now) ==
    /\ \E rdata \in dbg_ar_rdata : dm_Clock(scan, rdata)
    /\ hart_Clock(now)
    /\ gpr_Clock
    /\ mem_Clock

Clock(now) ==
    /\ Tick(None, now)
    /\ gap' = IF gap = 0 THEN 0 ELSE gap - 1

UpdateDR(scan) ==
    /\ gap = 0
    /\ \E now \in BOOLEAN : Tick(scan, now)
    /\ gap' = GAP

Scan == \E scan \in Scans : Polite(scan) /\ UpdateDR(scan)

Next == Scan \/ \E now \in BOOLEAN : Clock(now)

Spec == Init /\ [][Next]_vars

(* The same with a debugger that writes what it likes, and a clock that    *)
(* goes on ticking.                                                        *)
AnyScan == \E scan \in Scans : UpdateDR(scan)
AnySpec ==
    /\ Init /\ [][AnyScan \/ \E now \in BOOLEAN : Clock(now)]_vars
    /\ WF_vars(\E now \in BOOLEAN : Clock(now))

---------------------------------------------------------------------------
(* Properties.                                                             *)

(* Types; in particular the engine is never in E_AR or E_SB_WAIT, which    *)
(* gandiva_debug.sv declares and no arm of case (eng) would ever leave.    *)
TypeOK ==
    /\ dm \in [dmactive : BOOLEAN, ndmreset : BOOLEAN, haltreq : BOOLEAN,
               resumereq : BOOLEAN, abs_busy : BOOLEAN, data0 : Val,
               ar : [op : {"ar"}, write : BOOLEAN, regno : Regs, wdata : Val] \union {None},
               sbcs : [autoincrement : BOOLEAN, readonaddr : BOOLEAN],
               sbaddress0 : Addr, sbdata0 : Val,
               mreq : [op : {"mem"}, write : BOOLEAN, addr : Addr, wdata : Val] \union {None},
               eng : {"E_IDLE", "E_AR_WAIT", "E_SB_RD", "E_SB_WR"},
               dmi : Scans \union {None}]
    /\ hart \in [dbg_mode : BOOLEAN, halt_req : BOOLEAN, ar_busy : BOOLEAN, ar_done : BOOLEAN]
    /\ gpr \in [Regs -> Val] /\ mem \in [Mapped -> Val]
    /\ soc \in [op : {"ready"}, rdata : Val] \union {None}
    /\ gap \in 0 .. GAP

(* One engine serves two clients (gandiva_debug.sv, case eng): it is busy  *)
(* with an abstract command exactly while the command is owed an answer,   *)
(* so the answer of the core and the answer of the memory always find the  *)
(* state that waits for them, and a debugger that polls abstractcs.busy    *)
(* never waits for a command the engine has left.                          *)
EngineServes ==
    /\ dm.abs_busy <=> dm.eng = "E_AR_WAIT"
    /\ dm.ar # None <=> dm.abs_busy
    /\ hart.ar_done => dm.abs_busy
    /\ dm.mreq # None \/ soc # None => dm.eng \in {"E_SB_RD", "E_SB_WR"}
    /\ dm.mreq = None \/ soc = None

(* Refinement mapping: the command and the access in progress.             *)
Command ==
    IF ~dm.abs_busy THEN None
    ELSE [op |-> IF hart.ar_done /\ dm.ar.write THEN "performed" ELSE "pending",
          write |-> dm.ar.write, reg |-> dm.ar.regno, val |-> dm.ar.wdata]

Access ==
    CASE dm.mreq # None -> [op |-> "pending", write |-> dm.mreq.write,
                            addr |-> dm.mreq.addr, val |-> dm.mreq.wdata]
      [] soc # None     -> [op |-> "performed", write |-> dm.eng = "E_SB_WR",
                            val |-> soc.rdata]
      [] OTHER          -> None

Port == INSTANCE GandivaDebugPort WITH
            halted <- hart.dbg_mode, reset <- dm.ndmreset, regs <- gpr, dmi <- dm.dmi,
            data0 <- dm.data0, cmd <- Command, sbcs <- dm.sbcs,
            sbaddress0 <- dm.sbaddress0, sbdata0 <- dm.sbdata0, sb <- Access

(* The debugger's view: commands and accesses are performed once each,     *)
(* with the operands they were written with, commands only on a halted     *)
(* hart, however the halt, the resume, the reset and the scans fall.       *)
ImplementsPort == Port!Spec

(* A command on a halted hart is answered and retired in two clocks, also  *)
(* right after another one, or when it was written while the hart ran, or  *)
(* when a resume or a reset follows it: the debugger of the test bench     *)
(* relies on it and never polls abstractcs.busy.                           *)
AnsweredInTwo ==
    [][/\ dm.abs_busy /\ hart.dbg_mode /\ ~dm.ndmreset /\ ~hart.ar_done => hart'.ar_done
       /\ dm.abs_busy /\ hart.ar_done => ~dm'.abs_busy]_vars

(* The resume request is a pulse of one clock, sent for a hart that was    *)
(* halted a clock ago: it still finds it halted, and the hart leaves.      *)
ResumeHeard == [][dm.resumereq => hart.dbg_mode /\ ~hart'.dbg_mode]_vars

(* Registers can be accessed "through the abstract command interface while *)
(* halted, plus system-bus memory access" (docs/debug.md): a command that  *)
(* stands on a halted hart is over at some time, unless the hart is        *)
(* resumed or reset first, and the next one can be written.                *)
HaltedAccess == (dm.abs_busy /\ hart.dbg_mode) ~> (~dm.abs_busy \/ ~hart.dbg_mode)
=============================================================================
