--------------------------- MODULE MCGandivaCore ---------------------------
(***************************************************************************)
(* Small instances of the pipeline for TLC: bytes of one bit (XLEN = 4),   *)
(* registers x0 .. x2, four words of data memory and sixteen bytes of      *)
(* program.                                                                *)
(***************************************************************************)
EXTENDS GandivaRefinement, Sequences

---------------------------------------------------------------------------
(* Leaf data paths.                                                        *)
ByteWise(f(_, _), a, b) ==
    WordOf([k \in 0 .. 3 |-> f(ByteOf(a, k), ByteOf(b, k))])

MCAlu(f, a, b) ==
    LET Or(x, y)     == IF x > y THEN x ELSE y
        AndNot(x, y) == IF y = 0 THEN x ELSE 0
        Xor(x, y)    == IF x = y THEN 0 ELSE 1
    IN CASE f = "add" -> Add(a, b)
         [] f = "rs"  -> ByteWise(Or, a, b)
         [] f = "rc"  -> ByteWise(AndNot, a, b)
         [] OTHER     -> ByteWise(Xor, a, b)

MCBranch(f, a, b) == IF f = "ne" THEN a # b ELSE a = b

MCMulDiv(f, a, b) == IF f = "div" THEN IF b = 0 THEN XMOD - 1 ELSE a \div b
                     ELSE (a * b) % XMOD

MCAmo(f, old, b) == IF f = "add" THEN Add(old, b) ELSE b

---------------------------------------------------------------------------
(* Instructions.                                                           *)
Base == [IllegalInstr EXCEPT !.op = "fence", !.len = 2]
Alu(rd, rs1, rs2) == [Base EXCEPT !.op = "alu", !.rd = rd, !.rs1 = rs1, !.rs2 = rs2]
Addi(rd, rs1, n)  == [Base EXCEPT !.op = "alui", !.rd = rd, !.rs1 = rs1, !.imm = n]
Lui(rd, n)        == [Base EXCEPT !.op = "lui", !.rd = rd, !.imm = n]
Load(rd, rs1, n, width) == [Base EXCEPT !.op = "load", !.rd = rd, !.rs1 = rs1,
                                        !.imm = n, !.width = width]
Store(rs2, rs1, n, width) == [Base EXCEPT !.op = "store", !.rs1 = rs1,
                                !.rs2 = rs2, !.imm = n, !.width = width]
Md(fn, rd, rs1, rs2) == [Base EXCEPT !.op = "md", !.fn = fn, !.rd = rd,
                                     !.rs1 = rs1, !.rs2 = rs2, !.len = 4]
Lr(rd, rs1) == [Base EXCEPT !.op = "lr", !.rd = rd, !.rs1 = rs1, !.len = 4]
Sc(rd, rs1, rs2) == [Base EXCEPT !.op = "sc", !.rd = rd, !.rs1 = rs1,
                                 !.rs2 = rs2, !.len = 4]
Amo(fn, rd, rs1, rs2) == [Base EXCEPT !.op = "amo", !.fn = fn, !.rd = rd,
                                      !.rs1 = rs1, !.rs2 = rs2, !.len = 4]
Branch(fn, rs1, rs2, off) == [Base EXCEPT !.op = "branch", !.fn = fn,
                                !.rs1 = rs1, !.rs2 = rs2, !.imm = off % XMOD]
Jal(rd, off) == [Base EXCEPT !.op = "jal", !.rd = rd, !.imm = off % XMOD]
Jalr(rd, rs1, n) == [Base EXCEPT !.op = "jalr", !.rd = rd, !.rs1 = rs1, !.imm = n]
Csr(fn, rd, name, rs1) == [Base EXCEPT !.op = "csr", !.fn = fn, !.rd = rd,
                              !.csr = name, !.rs1 = rs1, !.len = 4]
System(op) == [Base EXCEPT !.op = op]
Long(i) == [i EXCEPT !.len = 4]
Nop == Base
Spin == Jal(0, 0)

(* Lays instructions out from address `at'; what is not the start of an    *)
(* instruction decodes as illegal.                                         *)
RECURSIVE Place(_, _)
Place(s, at) == IF s = << >> \/ at >= XMOD THEN << >>
                ELSE <<[at |-> at, i |-> Head(s)]>>
                     \o Place(Tail(s), at + Head(s).len)

ProgramOf(s, handler) ==
    LET placed == Place(s, 0) \o Place(handler, 8)
    IN [p \in Evens |->
          IF \E k \in 1 .. Len(placed) : placed[k].at = p
          THEN placed[CHOOSE k \in 1 .. Len(placed) : placed[k].at = p].i
          ELSE IllegalInstr]

Blocks(menu, n) == [1 .. n -> menu]

---------------------------------------------------------------------------
(* Starting states.                                                        *)
InitCsr == [MIE |-> FALSE, MPIE |-> FALSE, ie |-> FALSE, mtvec |-> 8,
            mepc |-> 0, mcause |-> "none", mscratch |-> 0, minstret |-> 0]

InitDbg == [mode |-> FALSE, halt_req |-> FALSE, step_active |-> FALSE,
            dpc |-> 0, cause |-> "none", cap_valid |-> FALSE, dpc_cap |-> 0,
            ebreakm |-> FALSE, step |-> FALSE, dscratch0 |-> 0,
            ar_busy |-> FALSE, ar_done |-> FALSE]

InitMem == [x \in MemWords |-> CASE x = 0 -> 6 [] x = 1 -> 9
                                 [] x = 2 -> 13 [] x = 3 -> 1]

Start(x1, x2) == [pc |-> 0, regs |-> [r \in Regs \ {0} |-> IF r = 1 THEN x1 ELSE x2],
                  mem |-> InitMem, csr |-> InitCsr, dbg |-> InitDbg]

Quiet == [irq |-> FALSE, haltreq |-> FALSE, resumereq |-> FALSE,
          bht_taken |-> FALSE, ras_top |-> NoTarget, ar |-> NoAccess]

---------------------------------------------------------------------------
(* Data hazards: four of these in a row that lose no forward, then a       *)
(* branch to itself.                                                       *)
DataMenu == {Alu(1, 1, 2), Load(1, 2, 0, 4), Load(2, 1, 1, 2),
             Store(1, 2, 1, 4), Store(2, 1, 0, 1), Lr(1, 2), Sc(2, 2, 1),
             Amo("add", 2, 1, 2), Md("mul", 1, 2, 1), Md("div", 2, 2, 1)}

DataPrograms == {f \in {ProgramOf(s \o <<Spin>>, << >>) : s \in Blocks(DataMenu, 4)} :
                   Scheduled(f)}
DataStates == {Start(5, 8)}
DataInputs == {Quiet}

(* The same without the exclusion.                                         *)
ForwardPrograms == {ProgramOf(<<Addi(1, 0, 2), Store(2, 0, 1, 4), Alu(2, 1, 1), Spin>>,
                              << >>)}

---------------------------------------------------------------------------
(* Control flow: branches, calls and returns, traps and interrupts, with   *)
(* any direction and some return addresses predicted.  The handler at 8    *)
(* reads mepc and returns.                                                 *)
ControlMenu == {Branch("ne", 1, 2, 4), Long(Branch("eq", 2, 0, -2)), Jal(1, 4),
                Jalr(0, 1, 0), System("ecall"), System("mret"),
                Csr("rw", 2, "mstatus", 1), Csr("rs", 2, "minstret", 0),
                Long(Addi(2, 0, 6)), Md("mul", 1, 1, 2)}

Handler == <<Csr("rs", 1, "mepc", 0), System("mret"), Spin>>

ControlPrograms == {ProgramOf(s, Handler) : s \in Blocks(ControlMenu, 3)}

ControlStates ==
    {[Start(4, 2) EXCEPT !.csr.MIE = TRUE, !.csr.ie = TRUE, !.csr.mepc = 2]}

ControlInputs ==
    {[Quiet EXCEPT !.irq = q, !.bht_taken = t, !.ras_top = r] :
        q, t \in BOOLEAN, r \in {NoTarget, 6}}

---------------------------------------------------------------------------
(* Debug: halt requests at any time, resume and abstract register writes   *)
(* while halted.  These programs never stall: see LostAtHalt.              *)
DebugMenu == {Load(1, 0, 4, 4), Long(Store(1, 0, 4, 4)),
              Branch("ne", 1, 2, -2), System("ecall")}

StallFree(s) == \A k \in 1 .. (Len(s) - 1) :
                    IsLoad(s[k]) => s[k].rd \notin Reads(s[k + 1])

DebugPrograms == {ProgramOf(s \o <<Spin>>, <<Csr("rs", 2, "mepc", 0), Spin>>) :
                    s \in {b \in Blocks(DebugMenu, 2) : StallFree(b)}}

WriteReg(r, w) == [valid |-> TRUE, write |-> TRUE, csr |-> FALSE, gpr |-> r,
                   name |-> "dpc", wdata |-> w]
WriteCsr(n, w) == [valid |-> TRUE, write |-> TRUE, csr |-> TRUE, gpr |-> 0,
                   name |-> n, wdata |-> w]

DebugInputs ==
    {Quiet, [Quiet EXCEPT !.haltreq = TRUE], [Quiet EXCEPT !.resumereq = TRUE],
     [Quiet EXCEPT !.ar = WriteReg(1, 3)],
     [Quiet EXCEPT !.ar = WriteCsr("dcsr", 1)],
     [Quiet EXCEPT !.ar = WriteCsr("dpc", 2)]}

DebugStates == {Start(4, 2)}

(* A load followed by its use, and a halt request in the stall cycle.      *)
LostAtHalt == {ProgramOf(<<Load(1, 0, 4, 4), Addi(2, 1, 1), Addi(1, 0, 5), Spin>>, << >>)}
HaltInputs == {Quiet, [Quiet EXCEPT !.haltreq = TRUE],
               [Quiet EXCEPT !.resumereq = TRUE]}

(* An EBREAK that enters debug mode, with an instruction right behind it.  *)
EbreakPrograms == {ProgramOf(<<System("ebreak"), Addi(2, 2, 1), Spin>>, << >>)}
EbreakStates == {[Start(4, 2) EXCEPT !.dbg.ebreakm = TRUE]}

---------------------------------------------------------------------------
(* Single step from the halted state, through every kind of instruction,   *)
(* with interrupts pending; the debugger keeps asking to resume or not.    *)
StepMenu == (ControlMenu \ {Jal(1, 4)}) \union
            {System("ebreak"), Load(1, 2, 1, 4), Addi(2, 1, 1),
             Amo("add", 2, 1, 2), System("illegal")}

StepPrograms == {ProgramOf(s, Handler) : s \in Blocks(StepMenu, 2)}

StepStates ==
    {[Start(4, 2) EXCEPT !.csr.MIE = TRUE, !.csr.ie = TRUE,
                         !.dbg.mode = TRUE, !.dbg.step = TRUE,
                         !.dbg.ebreakm = e] : e \in BOOLEAN}

StepInputs == {[Quiet EXCEPT !.irq = q, !.resumereq = r] : q, r \in BOOLEAN}

(* Three families in one run: stepping starts halted, the other two        *)
(* running, and the family with halt requests has no interrupt enabled.    *)
(* No instruction of the first two changes dbg.step, and none and no       *)
(* abstract write of the third changes csr.ie, so they tell which pins the *)
(* environment of a family drives.                                         *)
ControlDebugPrograms == ControlPrograms \union StepPrograms \union DebugPrograms
ControlDebugStates   == ControlStates \union StepStates \union DebugStates
ControlDebugInputs   == ControlInputs \union StepInputs \union DebugInputs

ControlDebugInit ==
    /\ Init
    /\ imem \in IF ~csr.ie THEN DebugPrograms
               ELSE IF dbg.step THEN StepPrograms
               ELSE ControlPrograms
ControlDebugNext ==
    \E in \in IF ~csr.ie THEN DebugInputs
             ELSE IF dbg.step THEN StepInputs
             ELSE ControlInputs :
        Tick(in)
ControlDebugSpec ==
    ControlDebugInit /\ [][ControlDebugNext]_vars /\ WF_vars(ControlDebugNext)

---------------------------------------------------------------------------
(* An idle loop, `j .', with an enabled interrupt line held high.          *)
IdlePrograms == {ProgramOf(<<Spin>>, <<Nop, Spin>>)}
IdleStates == {[Start(4, 2) EXCEPT !.csr.MIE = TRUE, !.csr.ie = TRUE]}
IdleInputs == {[Quiet EXCEPT !.irq = TRUE]}
=============================================================================
