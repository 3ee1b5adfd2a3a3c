----------------------------- MODULE GandivaISA -----------------------------
(***************************************************************************)
(* What the core promises to software and to a debugger: a machine that    *)
(* executes one instruction at a time, in program order, each one whole.   *)
(* An interrupt is taken between two instructions; a halt stops the        *)
(* machine between two instructions, and a resume goes on from there.      *)
(* GandivaCore is shown to implement this specification.                   *)
(***************************************************************************)
EXTENDS GandivaArch

VARIABLES
    imem,       \* instruction starting at each even byte address
    arch_pc,    \* address of the next instruction
    arch_regs,  \* x1 .. x31
    arch_mem,   \* data memory, byte by byte
    arch_resv,  \* LR/SC reservation
    arch_csr,   \* machine CSRs
    arch_mode,  \* "run", "step", "halting" (will execute no more), "halted"
    arch_dcsr   \* dcsr.ebreakm, dcsr.step and dscratch0

vars == <<imem, arch_pc, arch_regs, arch_mem, arch_resv, arch_csr,
          arch_mode, arch_dcsr>>

Modes == {"run", "step", "halting", "halted"}

NoReservation == [valid |-> FALSE, addr |-> 0]

TypeOK ==
    /\ arch_pc \in Word
    /\ arch_regs \in [Regs \ {0} -> Word]
    /\ arch_mem \in [Word -> Byte]
    /\ arch_resv \in [valid : BOOLEAN, addr : Word]
    /\ arch_csr \in CsrState
    /\ arch_mode \in Modes
    /\ arch_dcsr \in [ebreakm : BOOLEAN, step : BOOLEAN, dscratch0 : Word]

---------------------------------------------------------------------------
(* Reading and writing the architectural state.                            *)

(* The fetch address ignores bit 0.                                        *)
InstrAt(p) == imem[p - (p % 2)]

Reg(r) == IF r = 0 THEN 0 ELSE arch_regs[r]

SetReg(r, w) == IF r = 0 THEN arch_regs ELSE [arch_regs EXCEPT ![r] = w]

Alive == arch_mode \in {"run", "step"}

I == InstrAt(arch_pc)

SeqNext == Add(arch_pc, I.len)

(* An interrupt can follow only an instruction that is not control flow    *)
(* and does not access a CSR, and only in free-running mode.               *)
Interruptible ==
    /\ arch_mode = "run"
    /\ arch_csr.MIE /\ arch_csr.ie
    /\ ~IsControl(I) /\ I.op \notin {"csr", "mret"}

(* A single step, and a halt request, stop the machine right behind an     *)
(* instruction.                                                            *)
ModeAfter ==
    arch_mode' \in (IF arch_mode = "step" THEN {"halting"} ELSE {"run", "halting"})

(* The instruction completes and execution goes on at `next', or an        *)
(* interrupt is taken right behind it.                                     *)
Complete(next) ==
    /\ \/ /\ arch_pc' = next
          /\ arch_csr' = CountRetire(arch_csr)
       \/ /\ Interruptible
          /\ arch_pc' = arch_csr.mtvec
          /\ arch_csr' = TrapEnter(CountRetire(arch_csr), next, "irq")
    /\ ModeAfter
    /\ UNCHANGED <<imem, arch_dcsr>>

---------------------------------------------------------------------------
(* One action per class of instruction.                                    *)

ExecAlu ==
    /\ Alive /\ I.op \in {"alu", "alui", "lui", "auipc", "fence"}
    /\ arch_regs' = IF I.op = "fence" THEN arch_regs
                    ELSE SetReg(I.rd, AluResult(I, arch_pc, Reg(I.rs1), Reg(I.rs2)))
    /\ Complete(SeqNext)
    /\ UNCHANGED <<arch_mem, arch_resv>>

ExecMulDiv ==
    /\ Alive /\ IsMd(I)
    /\ arch_regs' = SetReg(I.rd, MdOp(I.fn, Reg(I.rs1), Reg(I.rs2)))
    /\ Complete(SeqNext)
    /\ UNCHANGED <<arch_mem, arch_resv>>

ExecLoad ==
    /\ Alive /\ IsLoad(I)
    /\ arch_regs' = SetReg(I.rd, LoadValue(arch_mem, Add(Reg(I.rs1), I.imm),
                                           I.width, I.uns))
    /\ Complete(SeqNext)
    /\ UNCHANGED <<arch_mem, arch_resv>>

ExecStore ==
    /\ Alive /\ IsStore(I)
    /\ arch_mem' = StoreValue(arch_mem, Add(Reg(I.rs1), I.imm), I.width,
                              Reg(I.rs2))
    /\ arch_resv' = NoReservation
    /\ Complete(SeqNext)
    /\ UNCHANGED arch_regs

ExecLr ==
    /\ Alive /\ I.op = "lr"
    /\ LET a == AlignWord(Reg(I.rs1))
       IN /\ arch_regs' = SetReg(I.rd, LoadValue(arch_mem, a, 4, TRUE))
          /\ arch_resv' = [valid |-> TRUE, addr |-> a]
    /\ Complete(SeqNext)
    /\ UNCHANGED arch_mem

ExecSc ==
    /\ Alive /\ I.op = "sc"
    /\ LET a  == AlignWord(Reg(I.rs1))
           ok == arch_resv.valid /\ arch_resv.addr = a
       IN /\ arch_regs' = SetReg(I.rd, IF ok THEN 0 ELSE 1)
          /\ arch_mem' = IF ok THEN StoreValue(arch_mem, a, 4, Reg(I.rs2))
                         ELSE arch_mem
    /\ arch_resv' = NoReservation
    /\ Complete(SeqNext)

ExecAmo ==
    /\ Alive /\ I.op = "amo"
    /\ LET a   == AlignWord(Reg(I.rs1))
           old == LoadValue(arch_mem, a, 4, TRUE)
       IN /\ arch_regs' = SetReg(I.rd, old)
          /\ arch_mem' = StoreValue(arch_mem, a, 4, AmoOp(I.fn, old, Reg(I.rs2)))
    /\ Complete(SeqNext)
    /\ UNCHANGED arch_resv

ExecBranch ==
    /\ Alive /\ I.op = "branch"
    /\ Complete(IF BrTaken(I.fn, Reg(I.rs1), Reg(I.rs2))
                THEN Add(arch_pc, I.imm) ELSE SeqNext)
    /\ UNCHANGED <<arch_regs, arch_mem, arch_resv>>

ExecJump ==
    /\ Alive /\ I.op \in {"jal", "jalr"}
    /\ arch_regs' = SetReg(I.rd, SeqNext)
    /\ LET t == Add(Reg(I.rs1), I.imm)
       IN Complete(IF I.op = "jal" THEN Add(arch_pc, I.imm) ELSE t - (t % 2))
    /\ UNCHANGED <<arch_mem, arch_resv>>

(* A CSR instruction returns the old value; a write to minstret replaces   *)
(* the count instead of adding to it.                                      *)
ExecCsr ==
    /\ Alive /\ I.op = "csr" /\ ~CsrRoFault(I)
    /\ LET old     == CsrRead(arch_csr, I.csr)
           written == CsrWrite(arch_csr, I.csr, CsrNewValue(I, old, Reg(I.rs1)))
       IN /\ arch_regs' = SetReg(I.rd, old)
          /\ arch_csr' = IF ~CsrWrites(I) THEN CountRetire(arch_csr)
                         ELSE IF I.csr = "minstret" THEN written
                         ELSE CountRetire(written)
    /\ arch_pc' = SeqNext
    /\ ModeAfter
    /\ UNCHANGED <<imem, arch_mem, arch_resv, arch_dcsr>>

ExecMret ==
    /\ Alive /\ I.op = "mret"
    /\ arch_pc' = arch_csr.mepc
    /\ arch_csr' = CountRetire(TrapReturn(arch_csr))
    /\ ModeAfter
    /\ UNCHANGED <<imem, arch_regs, arch_mem, arch_resv, arch_dcsr>>

(* A synchronous exception: no effect but the trap, and no retirement.     *)
TakeTrap ==
    /\ Alive
    /\ LET cause == ArchTrap(I, arch_dcsr.ebreakm)
       IN /\ cause # "none"
          /\ arch_csr' = TrapEnter(arch_csr, arch_pc, cause)
    /\ arch_pc' = arch_csr.mtvec
    /\ ModeAfter
    /\ UNCHANGED <<imem, arch_regs, arch_mem, arch_resv, arch_dcsr>>

Exec == \/ ExecAlu \/ ExecMulDiv \/ ExecLoad \/ ExecStore \/ ExecLr
        \/ ExecSc \/ ExecAmo \/ ExecBranch \/ ExecJump \/ ExecCsr
        \/ ExecMret \/ TakeTrap

---------------------------------------------------------------------------
(* The debugger's view.                                                    *)

(* The machine stops before the next instruction: on request, or in front  *)
(* of an EBREAK that enters debug mode.                                    *)
Stop ==
    /\ Alive
    /\ arch_mode' = "halting"
    /\ UNCHANGED <<imem, arch_pc, arch_regs, arch_mem, arch_resv, arch_csr,
                   arch_dcsr>>

Halt ==
    /\ arch_mode = "halting"
    /\ arch_mode' = "halted"
    /\ UNCHANGED <<imem, arch_pc, arch_regs, arch_mem, arch_resv, arch_csr,
                   arch_dcsr>>

Resume ==
    /\ arch_mode = "halted"
    /\ arch_mode' = IF arch_dcsr.step THEN "step" ELSE "run"
    /\ UNCHANGED <<imem, arch_pc, arch_regs, arch_mem, arch_resv, arch_csr,
                   arch_dcsr>>

(* Abstract-command writes while halted.                                   *)
DebugWriteReg ==
    /\ arch_mode = "halted"
    /\ \E r \in Regs, w \in Word : arch_regs' = SetReg(r, w)
    /\ UNCHANGED <<imem, arch_pc, arch_mem, arch_resv, arch_csr, arch_mode,
                   arch_dcsr>>

DebugWriteCsr ==
    /\ arch_mode = "halted"
    /\ \E w \in Word :
         \/ /\ \E n \in CsrNames : arch_csr' = CsrWrite(arch_csr, n, w)
            /\ UNCHANGED <<arch_pc, arch_dcsr>>
         \/ /\ arch_pc' = w
            /\ UNCHANGED <<arch_csr, arch_dcsr>>
         \/ /\ arch_dcsr' = [arch_dcsr EXCEPT !.dscratch0 = w]
            /\ UNCHANGED <<arch_csr, arch_pc>>
         \/ /\ \E e, s \in BOOLEAN :
                 arch_dcsr' = [arch_dcsr EXCEPT !.ebreakm = e, !.step = s]
            /\ UNCHANGED <<arch_csr, arch_pc>>
    /\ UNCHANGED <<imem, arch_regs, arch_mem, arch_resv, arch_mode>>

---------------------------------------------------------------------------
Init ==
    /\ TypeOK
    /\ imem \in [{p \in Word : p % 2 = 0} -> Instrs]
    /\ arch_mode # "halting"

Next == Exec \/ Stop \/ Halt \/ Resume \/ DebugWriteReg \/ DebugWriteCsr

Spec == Init /\ [][Next]_vars
=============================================================================
