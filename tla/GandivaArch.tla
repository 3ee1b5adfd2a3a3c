---------------------------- MODULE GandivaArch ----------------------------
(***************************************************************************)
(* Data types and architectural functions shared by the one-instruction-   *)
(* at-a-time machine (GandivaISA) and the five-stage pipeline              *)
(* (GandivaCore) of the Gandiva RV32IMAC core.                             *)
(*                                                                         *)
(* A word is an integer of four NB-valued bytes: NB = 256 is the core, a   *)
(* smaller NB is the same machine with narrower bytes.  The leaf data      *)
(* paths (gandiva_alu, gandiva_branch, gandiva_muldiv, the AMO operator)   *)
(* are operator parameters: what the pipeline does must not depend on      *)
(* what they compute.                                                      *)
(***************************************************************************)
EXTENDS Integers

CONSTANTS
    NB,                \* values of a byte (256)
    NREG,              \* integer registers, x0 included (32)
    NINSTRET,          \* modulus of minstret (2^64)
    AluOp(_, _, _),    \* gandiva_alu: op, a, b
    BrTaken(_, _, _),  \* gandiva_branch: op, a, b
    MdOp(_, _, _),     \* gandiva_muldiv: op, a, b
    AmoOp(_, _, _)     \* amo_res: op, old memory word, rs2

XMOD == NB * NB * NB * NB
Word == 0 .. (XMOD - 1)
Byte == 0 .. (NB - 1)
Regs == 0 .. (NREG - 1)
InstretVal == 0 .. (NINSTRET - 1)

ASSUME WidthAssumption ==
    /\ NB \in Nat /\ NB >= 2 /\ NB % 2 = 0
    /\ NREG \in Nat /\ NREG >= 1
    /\ NINSTRET \in Nat /\ NINSTRET >= 2

---------------------------------------------------------------------------
(* Instructions, as gandiva_decode (and the inline AMO decode) sees them.  *)

Ops == {"alu", "alui", "lui", "auipc", "load", "store", "lr", "sc", "amo",
        "md", "branch", "jal", "jalr", "csr", "fence", "ecall", "ebreak",
        "mret", "illegal"}

CsrNames == {"mstatus", "mie", "mtvec", "mscratch", "mepc", "minstret",
             "mhartid"}

(* Registers of the debug spec that the core keeps outside gandiva_csr.    *)
DebugCsrNames == {"dcsr", "dpc", "dscratch0"}

Funcs == {"add", "xor", "eq", "ne", "mul", "div", "swap", "rw", "rs", "rc"}

Instrs == [op : Ops, fn : Funcs, rd : Regs, rs1 : Regs, rs2 : Regs,
           imm : Word, width : {1, 2, 4}, uns : BOOLEAN,
           csr : CsrNames, len : {2, 4}]

(* What a malformed or mixed-up fetch decodes to.                          *)
IllegalInstr == [op |-> "illegal", fn |-> "add", rd |-> 0, rs1 |-> 0,
                 rs2 |-> 0, imm |-> 0, width |-> 4, uns |-> FALSE,
                 csr |-> "mscratch", len |-> 4]

IsLoad(i)    == i.op = "load"
IsStore(i)   == i.op = "store"
IsAtomic(i)  == i.op \in {"lr", "sc", "amo"}
IsMd(i)      == i.op = "md"
IsControl(i) == i.op \in {"branch", "jal", "jalr"}

WritesRd(i) == i.op \in {"alu", "alui", "lui", "auipc", "load", "md", "jal",
                         "jalr", "csr"} \/ IsAtomic(i)

(* id_needs_rs1 of the core and uses_rs2 of the decoder: which operands    *)
(* the load-use interlock looks at.                                        *)
NeedsRs1(i) == i.op \notin {"lui", "auipc", "jal"}
UsesRs2(i)  == i.op \in {"alu", "md", "branch", "store"} \/ IsAtomic(i)

---------------------------------------------------------------------------
(* Words and bytes.                                                        *)

Add(a, b) == (a + b) % XMOD

ByteOf(w, k) == CASE k = 0 -> w % NB
                  [] k = 1 -> (w \div NB) % NB
                  [] k = 2 -> (w \div (NB * NB)) % NB
                  [] k = 3 -> (w \div (NB * NB * NB)) % NB

WordOf(b) == b[0] + NB * b[1] + NB * NB * b[2] + NB * NB * NB * b[3]

SignFill(b) == IF b >= NB \div 2 THEN NB - 1 ELSE 0

(* The low `width' of the four bytes b, zero- or sign-extended.            *)
Extend(b, width, uns) ==
    WordOf([k \in 0 .. 3 |-> IF k < width THEN b[k]
                             ELSE IF uns THEN 0 ELSE SignFill(b[width - 1])])

(* A load or store of `width' bytes at any address, wrapping at the top.   *)
LoadValue(bytes, a, width, uns) ==
    Extend([k \in 0 .. 3 |-> bytes[Add(a, k)]], width, uns)

StoreValue(bytes, a, width, w) ==
    [x \in Word |-> IF (x - a) % XMOD < width THEN ByteOf(w, (x - a) % XMOD)
                    ELSE bytes[x]]

AlignWord(a) == a - (a % 4)

(* The operand b of the ALU and, in `use_pc' instructions, operand a.      *)
AluResult(i, pc, a, b) ==
    CASE i.op = "lui"   -> i.imm
      [] i.op = "auipc" -> Add(pc, i.imm)
      [] i.op = "alui"  -> AluOp(i.fn, a, i.imm)
      [] i.op = "alu"   -> AluOp(i.fn, a, b)
      [] OTHER          -> Add(a, i.imm)

---------------------------------------------------------------------------
(* The machine CSRs that the pipeline's control depends on.  mstatus is    *)
(* reduced to MIE and MPIE, mie to one enable for one interrupt line.      *)

Causes == {"none", "illegal", "ecall", "ebreak", "irq"}

CsrState == [MIE : BOOLEAN, MPIE : BOOLEAN, ie : BOOLEAN, mtvec : Word,
             mepc : Word, mcause : Causes, mscratch : Word,
             minstret : InstretVal]

Bit(b) == IF b THEN 1 ELSE 0

CsrRead(c, name) ==
    CASE name = "mstatus"  -> Bit(c.MIE) + 2 * Bit(c.MPIE)
      [] name = "mie"      -> Bit(c.ie)
      [] name = "mtvec"    -> c.mtvec
      [] name = "mscratch" -> c.mscratch
      [] name = "mepc"     -> c.mepc
      [] name = "minstret" -> c.minstret % XMOD
      [] OTHER             -> 0

(* A write to minstret replaces its low word.                              *)
SetLow(count, w) == (count - (count % XMOD) + w) % NINSTRET

CsrWrite(c, name, w) ==
    CASE name = "mstatus"  -> [c EXCEPT !.MIE = w % 2 = 1,
                                        !.MPIE = (w \div 2) % 2 = 1]
      [] name = "mie"      -> [c EXCEPT !.ie = w % 2 = 1]
      [] name = "mtvec"    -> [c EXCEPT !.mtvec = w]
      [] name = "mscratch" -> [c EXCEPT !.mscratch = w]
      [] name = "mepc"     -> [c EXCEPT !.mepc = w]
      [] name = "minstret" -> [c EXCEPT !.minstret = SetLow(@, w)]
      [] OTHER             -> c

(* trap_set: save the context, disable interrupts.                         *)
TrapEnter(c, epc, cause) ==
    [c EXCEPT !.mepc = epc, !.mcause = cause, !.MPIE = c.MIE, !.MIE = FALSE]

(* mret: pop the interrupt-enable stack.                                   *)
TrapReturn(c) == [c EXCEPT !.MIE = c.MPIE, !.MPIE = TRUE]

CountRetire(c) == [c EXCEPT !.minstret = (@ + 1) % NINSTRET]

(* csr_wval for CSRRW, CSRRS and CSRRC, with the three bit operations of a *)
(* word given byte by byte through AluOp.                                  *)
CsrNewValue(i, old, src) ==
    CASE i.fn = "rw" -> src
      [] i.fn = "rs" -> AluOp("rs", old, src)
      [] OTHER       -> AluOp("rc", old, src)

(* CSRRS and CSRRC with rs1 = x0 do not write.                             *)
CsrWrites(i) == i.op = "csr" /\ ~(i.fn # "rw" /\ i.rs1 = 0)

ReadOnlyCsrs == {"mhartid"}

(* A write to a read-only CSR is an illegal instruction.                   *)
CsrRoFault(i) == CsrWrites(i) /\ i.csr \in ReadOnlyCsrs

(* The synchronous trap an instruction raises, "none" if it raises none.   *)
ArchTrap(i, ebreakm) ==
    CASE i.op = "illegal" \/ CsrRoFault(i) -> "illegal"
      [] i.op = "ecall"                    -> "ecall"
      [] i.op = "ebreak" /\ ~ebreakm       -> "ebreak"
      [] OTHER                             -> "none"

(* The leaf data paths return words.                                       *)
ASSUME LeafAssumption ==
    \A f \in Funcs, a, b \in Word :
        /\ AluOp(f, a, b) \in Word
        /\ MdOp(f, a, b) \in Word
        /\ AmoOp(f, a, b) \in Word
        /\ BrTaken(f, a, b) \in BOOLEAN
=============================================================================
