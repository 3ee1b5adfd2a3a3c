------------------------- MODULE GandivaRefinement -------------------------
(***************************************************************************)
(* The pipeline implements the one-instruction-at-a-time machine.          *)
(*                                                                         *)
(* An instruction takes effect, as a whole, at the clock edge at which it  *)
(* leaves EX: every trap and every redirect is decided there.  What it has *)
(* not yet done in MEM and WB is added to the memory, to the reservation   *)
(* and to the register file by the mapping below.                          *)
(***************************************************************************)
EXTENDS GandivaCore

(* The data memory by bytes, with the store or AMO in MEM completed.       *)
mem_bytes == [x \in Word |-> ByteOf(mem[x \div 4], x % 4)]

amo_old == mem[exmem.amo_addr \div 4]

abs_mem ==
    CASE exmem.valid /\ exmem.mem_we ->
           StoreValue(mem_bytes, exmem.result, exmem.instr.width,
                      exmem.store_data)
      [] amo_is("sc") /\ sc_ok ->
           StoreValue(mem_bytes, AlignWord(exmem.amo_addr), 4, exmem.amo_b)
      [] amo_is("amo") ->
           StoreValue(mem_bytes, AlignWord(exmem.amo_addr), 4,
                      AmoOp(exmem.instr.fn, amo_old, exmem.amo_b))
      [] OTHER -> mem_bytes

(* The value the instruction in MEM will write back.                       *)
pending_result ==
    CASE amo_is("sc") -> IF sc_ok THEN 0 ELSE 1
      [] amo_is("lr") \/ amo_is("amo") -> amo_old
      [] exmem.mem_re -> LoadValue(mem_bytes, exmem.result, exmem.instr.width,
                                   exmem.instr.uns)
      [] OTHER -> exmem.result

abs_regs ==
    [r \in Regs \ {0} |->
        IF exmem.valid /\ exmem.reg_we /\ exmem.instr.rd = r THEN pending_result
        ELSE IF rf_we /\ memwb.rd = r THEN memwb.result
        ELSE regs[r]]

abs_resv ==
    IF amo_is("lr")
    THEN [valid |-> TRUE, addr |-> AlignWord(exmem.amo_addr)]
    ELSE IF ~resv.valid \/ amo_is("sc") \/ (exmem.valid /\ exmem.mem_we)
    THEN [valid |-> FALSE, addr |-> 0]
    ELSE resv

(* The oldest instruction that has not left EX, or where fetch goes on.    *)
abs_pc == IF dbg.mode THEN dbg.dpc
          ELSE IF dbg.cap_valid THEN dbg.dpc_cap
          ELSE IF idex.valid THEN idex.pc
          ELSE IF ifid.valid THEN ifid.pc
          ELSE pc

abs_mode == IF dbg.mode THEN "halted"
            ELSE IF dbg.halt_req /\ ~idex.valid /\ ~ifid.valid THEN "halting"
            ELSE IF dbg.step_active THEN "step"
            ELSE "run"

abs_dcsr == [ebreakm |-> dbg.ebreakm, step |-> dbg.step,
             dscratch0 |-> dbg.dscratch0]

ISA == INSTANCE GandivaISA
       WITH arch_pc <- abs_pc, arch_regs <- abs_regs, arch_mem <- abs_mem,
            arch_resv <- abs_resv, arch_csr <- csr, arch_mode <- abs_mode,
            arch_dcsr <- abs_dcsr

(* Every behaviour of the pipeline is a behaviour of the sequential        *)
(* machine: forwarding, stalls, two-beat accesses, prediction, flushes,    *)
(* interrupts and debug entry never lose, repeat, reorder or half-execute  *)
(* an instruction.                                                         *)
ImplementsISA == ISA!Spec

---------------------------------------------------------------------------
(* An instruction that leaves EX, and a multiplication or division that    *)
(* starts there, has the current values of its source registers, whatever  *)
(* is still in flight behind it ("full operand forwarding").               *)
OperandsCurrent ==
    (ex_commit /\ ~mem_beat_stall /\ ~IsMd(idex.instr)) \/ md_start =>
        /\ NeedsRs1(idex.instr) /\ idex.instr.rs1 # 0 =>
              fwd_rs1 = abs_regs[idex.instr.rs1]
        /\ UsesRs2(idex.instr) /\ idex.instr.rs2 # 0 =>
              fwd_rs2 = abs_regs[idex.instr.rs2]

(* Where execution goes on after the instruction in EX.                    *)
successors ==
    CASE RedirectTrap                       -> {csr.mtvec}
      [] idex.instr.op = "mret"             -> {csr.mepc}
      [] idex.instr.op = "jalr"             -> {jalr_target}
      [] idex.instr.op \in {"jal", "branch"} -> {br_actual_next}
      [] OTHER                              -> {seq_next, csr.mtvec}

(* The next instruction to execute changes only because one has left EX,   *)
(* and then to its successor, or because the debugger wrote dpc: a stall,  *)
(* a halt request or a resume never skips an instruction.                  *)
NoInstructionDropped ==
    [][abs_pc' # abs_pc =>
          dbg.mode \/ (ex_active /\ abs_pc' \in successors)]_vars

(* Once the PC to resume at is captured, nothing past it executes: the     *)
(* instruction behind an EBREAK into debug mode is squashed.               *)
NothingRunsPastCapture ==
    dbg.cap_valid /\ idex.valid => idex.pc = dbg.dpc_cap

(* The pipeline never wedges: the stalls of load-use, muldiv and two-beat  *)
(* accesses all end, and another instruction leaves EX, or the debugger    *)
(* has halted the hart.  (An access in MEM is no progress: EX/MEM stays    *)
(* valid all the time that a first beat lasts.)                            *)
AlwaysProgress == []<>(ex_active \/ dbg.mode)

(* An enabled interrupt whose line stays high is taken ("the core accepts  *)
(* the standard machine interrupt lines, gated by mstatus.MIE and mie"),   *)
(* unless software disables it first.                                      *)
InterruptTaken ==
    (\A in \in Inputs : in.irq) =>
        ((csr.MIE /\ csr.ie) ~> (~csr.MIE \/ ~csr.ie))

(* A halt request drains the pipeline and a single step comes back.        *)
HaltReached == (dbg.halt_req \/ dbg.step_active) ~> dbg.mode

---------------------------------------------------------------------------
(* Programs whose order of instructions never loses a forward.             *)

(* An access that may hold EX for a second beat.                           *)
TwoBeat(i) == ((IsLoad(i) \/ IsStore(i)) /\ i.width > 1) \/ i.op = "amo"

Reads(i) == (IF NeedsRs1(i) THEN {i.rs1} ELSE {})
            \union (IF UsesRs2(i) THEN {i.rs2} ELSE {})

(* c may keep b in EX for a cycle after a's value has left WB.             *)
LosesForward(a, c, b) ==
    /\ WritesRd(a) /\ a.rd # 0 /\ a.rd \in Reads(b)
    /\ TwoBeat(c) /\ ~(WritesRd(c) /\ c.rd = a.rd)
    /\ ~IsMd(b)

(* Where fetch may go behind address p of program f: behind a branch or    *)
(* jump, whose target is predicted, anywhere.                              *)
FetchedBehind(f, p) ==
    LET i == f[p - (p % 2)]
    IN IF IsControl(i) THEN Word ELSE {Add(p, i.len)}

(* No three instructions that are fetched in a row lose a forward.         *)
Scheduled(f) ==
    \A p \in Word : \A q \in FetchedBehind(f, p) : \A n \in FetchedBehind(f, q) :
        ~LosesForward(f[p - (p % 2)], f[q - (q % 2)], f[n - (n % 2)])

=============================================================================
