------------------------- MODULE GandivaCoreProofs -------------------------
(***************************************************************************)
(* Type correctness and the control invariants of the pipeline, for every  *)
(* program, input sequence, byte width, register count, BTB size, division *)
(* latency and leaf data path.                                             *)
(***************************************************************************)
EXTENDS GandivaCore, TLAPS

---------------------------------------------------------------------------
(* Arithmetic of words and bytes.                                          *)

LEMMA WidthFacts ==
    /\ XMOD \in Nat /\ XMOD >= 16
    /\ XMOD \div 4 \in Nat /\ XMOD \div 4 >= 4 /\ XMOD = 4 * (XMOD \div 4)
<1>1. PICK m \in Nat : NB = 2 * m /\ m >= 1
  <2>1. NB \div 2 \in Nat /\ NB = 2 * (NB \div 2) /\ NB \div 2 >= 1
    BY WidthAssumption
  <2> QED
    BY <2>1
<1>2. m * m \in Nat /\ m * m >= 1 /\ NB * NB = 4 * (m * m)
  BY <1>1
<1> DEFINE q == (m * m) * (m * m)
<1>3. q \in Nat /\ q >= 1
  BY <1>2
<1>4. XMOD = (NB * NB) * (NB * NB)
  BY WidthAssumption DEF XMOD
<1>5. XMOD = 16 * q
  BY <1>2, <1>4
<1> QED
  BY <1>3, <1>5

LEMMA SmallWords == 0 \in Word /\ 1 \in Word /\ 2 \in Word /\ 3 \in Word
BY WidthFacts DEF Word

LEMMA AddType ==
    ASSUME NEW a \in Int, NEW b \in Int PROVE Add(a, b) \in Word
BY WidthFacts DEF Add, Word

LEMMA EvenPart ==
    ASSUME NEW p \in Word PROVE p - (p % 2) \in Evens /\ p - (p % 2) \in Word
BY WidthFacts DEF Word, Evens

LEMMA ByteOfType ==
    ASSUME NEW w \in Word, NEW k \in 0 .. 3 PROVE ByteOf(w, k) \in Byte
<1>1. NB \in Nat /\ NB >= 2 /\ w \in Nat
  BY WidthAssumption, WidthFacts DEF Word
<1>2. NB * NB \in Nat /\ NB * NB > 0
  BY <1>1
<1>3. NB * NB * NB \in Nat /\ NB * NB * NB > 0
  BY <1>1, <1>2
<1>4. /\ w \div NB \in Nat /\ w \div (NB * NB) \in Nat
      /\ w \div (NB * NB * NB) \in Nat
  BY <1>1, <1>2, <1>3
<1>5. \A x \in Nat : x % NB \in Byte
  BY <1>1 DEF Byte
<1>6. k = 0 \/ k = 1 \/ k = 2 \/ k = 3
  OBVIOUS
<1> QED
  BY <1>1, <1>4, <1>5, <1>6 DEF ByteOf

LEMMA WordOfType ==
    ASSUME NEW b \in [0 .. 3 -> Byte] PROVE WordOf(b) \in Word
<1>1. NB \in Nat /\ NB >= 2
  BY WidthAssumption
<1>2. \A k \in 0 .. 3 : b[k] \in Nat /\ b[k] <= NB - 1
  BY <1>1 DEF Byte
<1> DEFINE n2 == NB * NB
           n3 == NB * NB * NB
<1>3. n2 \in Nat /\ n3 \in Nat /\ n3 = n2 * NB /\ XMOD = n3 * NB
  BY <1>1 DEF XMOD
<1>4. NB * b[1] \in Nat /\ NB * b[1] <= n2 - NB
  <2>1. b[1] \in Nat /\ b[1] <= NB - 1
    BY <1>2
  <2>2. NB * b[1] <= NB * (NB - 1)
    BY <1>1, <2>1
  <2> QED
    BY <1>1, <2>1, <2>2
<1>5. n2 * b[2] \in Nat /\ n2 * b[2] <= n3 - n2
  <2>1. b[2] \in Nat /\ b[2] <= NB - 1
    BY <1>2
  <2> HIDE DEF n2
  <2>2. n2 * b[2] <= n2 * (NB - 1)
    BY <1>1, <1>3, <2>1
  <2> QED
    BY <1>1, <1>3, <2>1, <2>2
<1>6. n3 * b[3] \in Nat /\ n3 * b[3] <= XMOD - n3
  <2>1. b[3] \in Nat /\ b[3] <= NB - 1
    BY <1>2
  <2> HIDE DEF n3
  <2>2. n3 * b[3] <= n3 * (NB - 1)
    BY <1>1, <1>3, <2>1
  <2> QED
    BY <1>1, <1>3, <2>1, <2>2
<1>7. b[0] \in Nat /\ b[0] <= NB - 1
  BY <1>2
<1>8. WordOf(b) = b[0] + NB * b[1] + n2 * b[2] + n3 * b[3]
  BY DEF WordOf
<1> HIDE DEF n2, n3
<1> QED
  BY <1>1, <1>3, <1>4, <1>5, <1>6, <1>7, <1>8, WidthFacts DEF Word

LEMMA ExtendType ==
    ASSUME NEW b \in [0 .. 3 -> Byte], NEW width \in {1, 2, 4}, NEW uns
    PROVE  Extend(b, width, uns) \in Word
<1>1. NB \in Nat /\ NB >= 2
  BY WidthAssumption
<1>2. b[width - 1] \in Byte
  BY DEF Byte
<1>3. 0 \in Byte /\ SignFill(b[width - 1]) \in Byte
  BY <1>1 DEF SignFill, Byte
<1>4. [k \in 0 .. 3 |-> IF k < width THEN b[k]
                        ELSE IF uns THEN 0 ELSE SignFill(b[width - 1])]
      \in [0 .. 3 -> Byte]
  BY <1>3
<1> QED
  BY <1>4, WordOfType DEF Extend

---------------------------------------------------------------------------
(* Architectural functions.                                                *)

LEMMA AluType ==
    ASSUME NEW i \in Instrs, NEW p \in Word, NEW a \in Word, NEW b \in Word
    PROVE  AluResult(i, p, a, b) \in Word
<1>1. i.imm \in Word /\ i.fn \in Funcs
  BY DEF Instrs
<1>2. Word \subseteq Int
  BY WidthFacts DEF Word
<1>3. /\ Add(p, i.imm) \in Word /\ Add(a, i.imm) \in Word
      /\ AluOp(i.fn, a, i.imm) \in Word /\ AluOp(i.fn, a, b) \in Word
  BY <1>1, <1>2, AddType, LeafAssumption
<1> QED
  BY <1>1, <1>3 DEF AluResult

LEMMA CsrReadType ==
    ASSUME NEW c \in CsrState, NEW name PROVE CsrRead(c, name) \in Word
<1>1. /\ c.mtvec \in Word /\ c.mepc \in Word /\ c.mscratch \in Word
      /\ c.minstret \in Nat
  BY WidthAssumption DEF CsrState, InstretVal
<1>2. c.minstret % XMOD \in Word
  BY <1>1, WidthFacts DEF Word
<1>3. Bit(c.ie) \in Word /\ Bit(c.MIE) + 2 * Bit(c.MPIE) \in Word
  BY SmallWords DEF Bit
<1> QED
  BY <1>1, <1>2, <1>3, SmallWords DEF CsrRead

LEMMA CsrNewValueType ==
    ASSUME NEW i \in Instrs, NEW old \in Word, NEW src \in Word
    PROVE  CsrNewValue(i, old, src) \in Word
BY LeafAssumption DEF CsrNewValue, Funcs

LEMMA CsrWriteType ==
    ASSUME NEW c \in CsrState, NEW name, NEW w \in Word
    PROVE  CsrWrite(c, name, w) \in CsrState
<1>1. SetLow(c.minstret, w) \in InstretVal
  <2>1. c.minstret \in Nat /\ w \in Nat /\ XMOD \in Nat /\ XMOD > 0
    BY WidthAssumption, WidthFacts DEF Word, InstretVal, CsrState
  <2>2. c.minstret - (c.minstret % XMOD) + w \in Nat
    BY <2>1
  <2> QED
    BY <2>2, WidthAssumption DEF SetLow, InstretVal
<1> QED
  BY <1>1 DEF CsrWrite, CsrState

LEMMA TrapEnterType ==
    ASSUME NEW c \in CsrState, NEW epc \in Word, NEW cause \in Causes
    PROVE  TrapEnter(c, epc, cause) \in CsrState
BY DEF TrapEnter, CsrState

LEMMA TrapReturnType ==
    ASSUME NEW c \in CsrState PROVE TrapReturn(c) \in CsrState
BY DEF TrapReturn, CsrState

LEMMA CountRetireType ==
    ASSUME NEW c \in CsrState PROVE CountRetire(c) \in CsrState
<1>1. (c.minstret + 1) % NINSTRET \in InstretVal
  BY WidthAssumption DEF CsrState, InstretVal
<1> QED
  BY <1>1 DEF CountRetire, CsrState

LEMMA ArchTrapType ==
    ASSUME NEW i, NEW e PROVE ArchTrap(i, e) \in Causes
BY DEF ArchTrap, Causes

---------------------------------------------------------------------------
(* The wires, from the types of the registers.                             *)

LEMMA BubbleTypes ==
    /\ IllegalInstr \in Instrs
    /\ IfidBubble \in IfidType /\ IdexBubble \in IdexType
    /\ ExmemBubble \in ExmemType /\ MemwbBubble \in MemwbType
    /\ MdIdle \in MdType /\ BtbEmpty \in BtbType
<1>1. 0 \in Word /\ 0 \in Regs
  BY SmallWords, WidthAssumption DEF Regs
<1>2. IllegalInstr \in Instrs
  BY <1>1 DEF IllegalInstr, Instrs, Ops, Funcs, CsrNames
<1>3. 0 \in 0 .. DIV_CYCLES
  BY CoreAssumption
<1>4. "mul" \in Funcs
  BY DEF Funcs
<1>5. IfidBubble \in IfidType
  BY <1>1, <1>2 DEF IfidBubble, IfidType
<1>6. IdexBubble \in IdexType
  BY <1>1, <1>2 DEF IdexBubble, IdexType
<1>7. ExmemBubble \in ExmemType
  BY <1>1, <1>2 DEF ExmemBubble, ExmemType
<1>8. MemwbBubble \in MemwbType
  BY <1>1 DEF MemwbBubble, MemwbType
<1>9. MdIdle \in MdType
  BY <1>1, <1>3, <1>4 DEF MdIdle, MdType
<1>10. BtbEmpty \in BtbType
  BY <1>1 DEF BtbEmpty, BtbType
<1> QED
  BY <1>2, <1>5, <1>6, <1>7, <1>8, <1>9, <1>10

LEMMA FetchedType ==
    ASSUME TypeOK, NEW p \in Word
    PROVE  InstrAt(p) \in Instrs /\ fetched_instr \in Instrs
BY EvenPart, BubbleTypes DEF TypeOK, InstrAt, fetched_instr

LEMMA OperandTypes ==
    ASSUME TypeOK
    PROVE  /\ fwd_rs1 \in Word /\ fwd_rs2 \in Word /\ alu_y \in Word
           /\ \A r \in Regs : RegRead(r) \in Word
<1>1. /\ exmem.result \in Word /\ memwb.result \in Word
      /\ idex.rdata1 \in Word /\ idex.rdata2 \in Word
      /\ idex.instr \in Instrs /\ idex.pc \in Word
  BY DEF TypeOK, ExmemType, MemwbType, IdexType
<1>2. fwd_rs1 \in Word /\ fwd_rs2 \in Word
  BY <1>1 DEF fwd_rs1, fwd_rs2, Forwarded
<1>3. alu_y \in Word
  BY <1>1, <1>2, AluType DEF alu_y
<1>4. \A r \in Regs : RegRead(r) \in Word
  BY <1>1, SmallWords DEF TypeOK, RegRead
<1> QED
  BY <1>2, <1>3, <1>4

LEMMA TargetTypes ==
    ASSUME TypeOK
    PROVE  /\ seq_next \in Word /\ br_target \in Word
           /\ jalr_target \in Word /\ br_actual_next \in Word
           /\ \A in : redirect_target(in) \in Word
<1>1. /\ idex.pc \in Word /\ idex.instr.imm \in Word
      /\ idex.pc \in Int /\ idex.instr.imm \in Int
      /\ idex.instr.len \in Int
  BY WidthFacts DEF TypeOK, IdexType, Instrs, Word
<1>2. seq_next \in Word /\ br_target \in Word
  BY <1>1, AddType DEF seq_next, br_target
<1>3. jalr_target \in Word
  <2> DEFINE t == Add(fwd_rs1, idex.instr.imm)
  <2>1. t \in Word
    <3>1. fwd_rs1 \in Int
      BY OperandTypes, WidthFacts DEF Word
    <3> QED
      BY <1>1, <3>1, AddType
  <2>2. jalr_target = t - (t % 2)
    BY DEF jalr_target
  <2> HIDE DEF t
  <2> QED
    BY <2>1, <2>2, EvenPart
<1>4. br_actual_next \in Word
  BY <1>2 DEF br_actual_next
<1>5. csr.mtvec \in Word /\ csr.mepc \in Word
  BY DEF TypeOK, CsrState
<1>6. \A in : redirect_target(in) \in Word
  BY <1>3, <1>4, <1>5 DEF redirect_target
<1> QED
  BY <1>2, <1>3, <1>4, <1>6

LEMMA DmemWordType == TypeOK => dmem_word \in MemWords
<1> SUFFICES ASSUME TypeOK PROVE dmem_word \in MemWords
  OBVIOUS
<1>1. exmem.result \in Word /\ exmem.amo_addr \in Word
  BY DEF TypeOK, ExmemType
<1>2. \A w \in Word : w \div 4 \in MemWords
  BY WidthFacts DEF Word, MemWords
<1>3. \A x \in Nat : x % (XMOD \div 4) \in MemWords
  BY WidthFacts DEF MemWords
<1>4. (exmem.result \div 4) + (IF beat2 THEN 1 ELSE 0) \in Nat
  BY <1>1, WidthFacts DEF Word
<1> QED
  BY <1>1, <1>2, <1>3, <1>4 DEF dmem_word

LEMMA LoadTypes ==
    ASSUME TypeOK
    PROVE  /\ dmem_rdata \in Word /\ load_data \in Word /\ mem_result \in Word
<1>1. dmem_rdata \in Word
  BY DmemWordType DEF TypeOK, dmem_rdata
<1>2. /\ exmem.instr \in Instrs /\ exmem.result \in Word
      /\ exmem.instr.width \in {1, 2, 4} /\ ld_w0 \in Word
  BY DEF TypeOK, ExmemType, Instrs
<1>3. exmem_addr_lo \in 0 .. 3
  BY <1>2, WidthFacts DEF exmem_addr_lo, Word
<1>4. ASSUME NEW k \in 0 .. 3 PROVE LoadLane(k) \in Byte
  <2>1. CASE k + exmem_addr_lo < 4
    <3>1. k + exmem_addr_lo \in 0 .. 3
      BY <1>3, <2>1
    <3> QED
      BY <1>1, <1>2, <2>1, <3>1, ByteOfType DEF LoadLane
  <2>2. CASE ~(k + exmem_addr_lo < 4)
    <3>1. k + exmem_addr_lo - 4 \in 0 .. 3
      BY <1>3, <2>2
    <3>2. 0 \in Byte
      BY WidthAssumption DEF Byte
    <3>3. ByteOf(dmem_rdata, k + exmem_addr_lo - 4) \in Byte
      BY <1>1, <3>1, ByteOfType
    <3> QED
      BY <1>3, <2>2, <3>2, <3>3 DEF LoadLane
  <2> QED
    BY <2>1, <2>2
<1>5. load_data \in Word
  BY <1>2, <1>4, ExtendType DEF load_data
<1>6. mem_result \in Word
  BY <1>1, <1>2, <1>5, SmallWords DEF mem_result, amo_wb
<1> QED
  BY <1>1, <1>5, <1>6

---------------------------------------------------------------------------
(* One lemma per clocked block.                                            *)

LEMMA BtbIdxType ==
    ASSUME NEW p \in Word
    PROVE  BtbIdx(p) \in 0 .. (NBTB - 1) /\ BtbTag(p) \in Nat
<1>1. p \div 2 \in Nat /\ NBTB \in Nat /\ NBTB > 0
  BY CoreAssumption, WidthFacts DEF Word
<1> QED
  BY <1>1 DEF BtbIdx, BtbTag

LEMMA FetchType ==
    ASSUME TypeOK, NEW in \in InputType, Fetch(in)
    PROVE  /\ pc' \in Word /\ straddle' \in BOOLEAN /\ strad_lo' \in Word
           /\ ifid' \in IfidType
<1>1. /\ pc \in Word /\ straddle \in BOOLEAN /\ strad_lo \in Word
      /\ ifid \in IfidType /\ IfidBubble \in IfidType /\ dbg.dpc \in Word
  BY BubbleTypes DEF TypeOK, DbgType
<1>2. redirect_target(in) \in Word
  BY TargetTypes
<1>3. pc - (pc % 2) \in Word
  BY <1>1, EvenPart
<1>4. predict_taken_f(in) => predict_target_f(in) \in Word
  <2>1. in.ras_top # NoTarget => in.ras_top \in Word
    BY DEF InputType
  <2>2. btb[BtbIdx(pc)].tgt \in Word
    BY <1>1, BtbIdxType DEF TypeOK, BtbType
  <2> QED
    BY <2>1, <2>2 DEF predict_taken_f, predict_target_f, ras_predict
<1>5. Add(pc, fetched_len) \in Word
  <2>1. pc \in Int /\ fetched_len \in Int
    BY <1>1, WidthFacts DEF Word, fetched_len
  <2> QED
    BY <2>1, AddType
<1>6. predict_taken_f(in) \in BOOLEAN
  BY DEF predict_taken_f, ras_predict, predict_taken, f_is_ret, btb_hit
<1>7. CASE FetchRedirect(in)
  BY <1>1, <1>2, <1>7 DEF FetchRedirect
<1>8. CASE FetchResume(in)
  BY <1>1, <1>8 DEF FetchResume
<1>9. CASE FetchFreeze(in)
  BY <1>1, <1>9 DEF FetchFreeze
<1>10. CASE FetchHold(in)
  BY <1>1, <1>10 DEF FetchHold, fetchVars
<1>11. CASE FetchStraddle(in)
  BY <1>1, <1>3, <1>11 DEF FetchStraddle
<1>12. CASE FetchNext(in)
  <2>1. fetched_instr \in Instrs
    BY <1>1, FetchedType
  <2>2. (IF predict_taken_f(in) THEN predict_target_f(in) ELSE 0) \in Word
    BY <1>4, SmallWords
  <2>3. ifid' \in IfidType
    BY <1>1, <1>6, <1>12, <2>1, <2>2 DEF FetchNext, IfidType
  <2> QED
    BY <1>1, <1>4, <1>5, <1>12, <2>3 DEF FetchNext
<1> QED
  BY <1>7, <1>8, <1>9, <1>10, <1>11, <1>12 DEF Fetch

LEMMA IdExType ==
    ASSUME TypeOK, NEW in \in InputType, IdEx(in) PROVE idex' \in IdexType
<1>1. ifid \in IfidType /\ idex \in IdexType /\ IdexBubble \in IdexType
  BY BubbleTypes DEF TypeOK
<1>2. /\ ifid.pc \in Word /\ ifid.instr \in Instrs
      /\ ifid.pred_taken \in BOOLEAN /\ ifid.pred_target \in Word
  BY <1>1 DEF IfidType
<1>3. ifid.instr.rs1 \in Regs /\ ifid.instr.rs2 \in Regs
  BY <1>2 DEF Instrs
<1>4. RegRead(ifid.instr.rs1) \in Word /\ RegRead(ifid.instr.rs2) \in Word
  BY <1>3, OperandTypes
<1>5. [valid |-> TRUE, pc |-> ifid.pc, instr |-> ifid.instr,
       pred_taken |-> ifid.pred_taken, pred_target |-> ifid.pred_target,
       rdata1 |-> RegRead(ifid.instr.rs1),
       rdata2 |-> RegRead(ifid.instr.rs2)] \in IdexType
  BY <1>2, <1>4 DEF IdexType
<1> QED
  BY <1>1, <1>5 DEF IdEx

LEMMA ExMemType ==
    ASSUME TypeOK, ExMem PROVE exmem' \in ExmemType
<1>1. /\ exmem \in ExmemType /\ ExmemBubble \in ExmemType
      /\ idex.instr \in Instrs /\ md.result \in Word
  BY BubbleTypes DEF TypeOK, IdexType, MdType
<1>2. csr_rdata \in Word
  BY CsrReadType DEF TypeOK, csr_rdata
<1>3. ex_result \in Word
  BY <1>1, <1>2, OperandTypes, TargetTypes DEF ex_result
<1>4. /\ (WritesRd(idex.instr) /\ ~ex_trap) \in BOOLEAN
      /\ (IsLoad(idex.instr) /\ ~ex_trap) \in BOOLEAN
      /\ (IsStore(idex.instr) /\ ~ex_trap) \in BOOLEAN
      /\ (IsAtomic(idex.instr) /\ ~ex_trap) \in BOOLEAN
  BY DEF WritesRd, IsLoad, IsStore, IsAtomic, ex_trap
<1>5. [valid |-> TRUE, instr |-> idex.instr, result |-> ex_result,
       store_data |-> fwd_rs2, amo_addr |-> fwd_rs1, amo_b |-> fwd_rs2,
       reg_we |-> WritesRd(idex.instr) /\ ~ex_trap,
       mem_re |-> IsLoad(idex.instr) /\ ~ex_trap,
       mem_we |-> IsStore(idex.instr) /\ ~ex_trap,
       is_amo |-> IsAtomic(idex.instr) /\ ~ex_trap] \in ExmemType
  BY <1>1, <1>3, <1>4, OperandTypes DEF ExmemType
<1> QED
  BY <1>1, <1>5 DEF ExMem

LEMMA MemWbType ==
    ASSUME TypeOK, MemWb PROVE memwb' \in MemwbType
<1>1. /\ exmem.instr.rd \in Regs /\ exmem.reg_we \in BOOLEAN
      /\ MemwbBubble \in MemwbType
  BY BubbleTypes DEF TypeOK, ExmemType, Instrs
<1>2. mem_result \in Word
  BY LoadTypes
<1>3. [valid |-> TRUE, rd |-> exmem.instr.rd, result |-> mem_result,
       reg_we |-> exmem.reg_we] \in MemwbType
  BY <1>1, <1>2 DEF MemwbType
<1> QED
  BY <1>1, <1>3 DEF MemWb

LEMMA RegWriteType ==
    ASSUME TypeOK, NEW in \in InputType, RegWrite(in)
    PROVE  regs' \in [Regs \ {0} -> Word]
<1>1. /\ in.ar.gpr \in Regs /\ in.ar.wdata \in Word
      /\ memwb.rd \in Regs /\ memwb.result \in Word
  BY DEF TypeOK, MemwbType, InputType
<1> QED
  BY <1>1 DEF RegWrite, TypeOK

LEMMA DataMemType ==
    ASSUME TypeOK, DataMem PROVE mem' \in [MemWords -> Word]
<1> DEFINE old == mem[dmem_word]
           new == [k \in 0 .. 3 |-> IF dmem_be(k) THEN dmem_wbyte(k)
                                    ELSE ByteOf(old, k)]
<1>1. dmem_word \in MemWords /\ old \in Word
  BY DmemWordType DEF TypeOK
<1>2. /\ exmem.instr.fn \in Funcs /\ exmem.instr.width \in {1, 2, 4}
      /\ exmem.amo_b \in Word /\ exmem.store_data \in Word /\ ld_w0 \in Word
  BY DEF TypeOK, ExmemType, Instrs
<1>3. AmoOp(exmem.instr.fn, ld_w0, exmem.amo_b) \in Word
  BY <1>2, LeafAssumption
<1>4. ASSUME NEW k \in 0 .. 3, dmem_be(k) PROVE dmem_wbyte(k) \in Byte
  <2>1. CASE amo_here
    BY <1>2, <1>3, <2>1, ByteOfType DEF dmem_wbyte
  <2>2. CASE ~amo_here
    <3>1. StoreLane(k) \in 0 .. (exmem.instr.width - 1)
      BY <1>4, <2>2 DEF dmem_be
    <3>2. StoreLane(k) \in 0 .. 3
      BY <1>2, <3>1
    <3> QED
      BY <1>2, <2>2, <3>2, ByteOfType DEF dmem_wbyte, amo_rmw_b2, amo_is
  <2> QED
    BY <2>1, <2>2
<1>5. new \in [0 .. 3 -> Byte]
  BY <1>1, <1>4, ByteOfType
<1>6. WordOf(new) \in Word
  BY <1>5, WordOfType
<1>7. mem' = IF ~dmem_we THEN mem ELSE [mem EXCEPT ![dmem_word] = WordOf(new)]
  BY DEF DataMem
<1> HIDE DEF new
<1> QED
  BY <1>1, <1>6, <1>7 DEF TypeOK

LEMMA MemSideType ==
    ASSUME TypeOK, SecondBeat, Reservation
    PROVE  /\ beat2' \in BOOLEAN /\ ld_w0' \in Word
           /\ resv' \in [valid : BOOLEAN, addr : Word]
<1>1. mem_beat_stall \in BOOLEAN
  BY DEF mem_beat_stall, amo_rmw_b1
<1>2. AlignWord(exmem.amo_addr) \in Word
  <2>1. exmem.amo_addr \in Word
    BY DEF TypeOK, ExmemType
  <2> QED
    BY <2>1, WidthFacts DEF AlignWord, Word
<1>3. resv' \in [valid : BOOLEAN, addr : Word]
  BY <1>2 DEF TypeOK, Reservation
<1> QED
  BY <1>1, <1>3, LoadTypes DEF SecondBeat, TypeOK

LEMMA MdTypes ==
    ASSUME TypeOK, MulDiv, MdInflight
    PROVE  md' \in MdType /\ md_inflight' \in BOOLEAN
<1>1. /\ md \in MdType /\ md.left \in 0 .. DIV_CYCLES /\ md.fn \in Funcs
      /\ md.a \in Word /\ md.b \in Word /\ md.result \in Word
      /\ idex.instr.fn \in Funcs /\ DIV_CYCLES \in Nat \ {0}
  BY CoreAssumption DEF TypeOK, MdType, IdexType, Instrs
<1>2. MdOp(md.fn, md.a, md.b) \in Word
  BY <1>1, LeafAssumption
<1>3. MdCycles(idex.instr.fn, fwd_rs1, fwd_rs2) \in 0 .. DIV_CYCLES
  BY <1>1 DEF MdCycles
<1>4. CASE md_busy
  <2>1. md.left - 1 \in 0 .. DIV_CYCLES
    BY <1>1, <1>4 DEF md_busy
  <2> QED
    BY <1>1, <1>2, <1>4, <2>1 DEF MulDiv, MdInflight, TypeOK, MdType, md_start
<1>5. CASE ~md_busy /\ md_start
  BY <1>1, <1>3, <1>5, OperandTypes DEF MulDiv, MdInflight, TypeOK, MdType
<1>6. CASE ~md_busy /\ ~md_start
  BY <1>1, <1>6 DEF MulDiv, MdInflight, TypeOK, MdType
<1> QED
  BY <1>4, <1>5, <1>6

LEMMA CsrUpdateType ==
    ASSUME TypeOK, NEW in \in InputType, CsrUpdate(in)
    PROVE  csr' \in CsrState
<1> DEFINE counted == IF ex_retire /\ ~(csr_we_eff /\ idex.instr.csr = "minstret")
                      THEN CountRetire(csr) ELSE csr
<1>1. counted \in CsrState
  BY CountRetireType DEF TypeOK
<1>2. /\ idex.pc \in Word /\ idex.instr \in Instrs
      /\ in.ar.wdata \in Word
  BY DEF TypeOK, IdexType, InputType
<1>3. ex_cause \in Causes /\ "irq" \in Causes
  BY ArchTrapType DEF ex_cause, Causes
<1>4. csr_rdata \in Word
  BY CsrReadType DEF TypeOK, csr_rdata
<1>5. CsrNewValue(idex.instr, csr_rdata, fwd_rs1) \in Word
  BY <1>2, <1>4, OperandTypes, CsrNewValueType
<1>6. csr' = CASE RedirectTrap -> TrapEnter(counted, idex.pc, ex_cause)
               [] take_irq(in) -> TrapEnter(counted, seq_next, "irq")
               [] RedirectMret -> TrapReturn(counted)
               [] csr_we_eff ->
                    CsrWrite(counted, idex.instr.csr,
                             CsrNewValue(idex.instr, csr_rdata, fwd_rs1))
               [] dbg_csr_we(in) -> CsrWrite(counted, in.ar.name, in.ar.wdata)
               [] OTHER -> counted
  BY DEF CsrUpdate
<1> HIDE DEF counted
<1>7. /\ TrapEnter(counted, idex.pc, ex_cause) \in CsrState
      /\ TrapEnter(counted, seq_next, "irq") \in CsrState
  BY <1>1, <1>2, <1>3, TargetTypes, TrapEnterType
<1>8. TrapReturn(counted) \in CsrState
  BY <1>1, TrapReturnType
<1>9. /\ CsrWrite(counted, idex.instr.csr,
                  CsrNewValue(idex.instr, csr_rdata, fwd_rs1)) \in CsrState
      /\ CsrWrite(counted, in.ar.name, in.ar.wdata) \in CsrState
  BY <1>1, <1>2, <1>5, CsrWriteType
<1> QED
  BY <1>1, <1>6, <1>7, <1>8, <1>9

LEMMA BtbUpdateType ==
    ASSUME TypeOK, BtbUpdate PROVE btb' \in [0 .. (NBTB - 1) -> BtbType]
<1>1. /\ btb \in [0 .. (NBTB - 1) -> BtbType]
      /\ BtbIdx(idex.pc) \in 0 .. (NBTB - 1)
      /\ BtbTag(idex.pc) \in Nat
  BY BtbIdxType DEF TypeOK, IdexType
<1>2. [valid |-> TRUE, tag |-> BtbTag(idex.pc), tgt |-> br_target,
       isjal |-> idex.instr.op = "jal"] \in BtbType
  BY <1>1, TargetTypes DEF BtbType
<1> QED
  BY <1>1, <1>2 DEF BtbUpdate

LEMMA DebugControlType ==
    ASSUME TypeOK, NEW in \in InputType, DebugControl(in)
    PROVE  dbg' \in DbgType
<1>1. /\ dbg \in DbgType /\ pc \in Word /\ idex.pc \in Word
      /\ in.ar.wdata \in Word /\ in.ar.valid \in BOOLEAN
  BY DEF TypeOK, IdexType, InputType
<1>2. /\ dbg.mode \in BOOLEAN /\ dbg.halt_req \in BOOLEAN
      /\ dbg.step_active \in BOOLEAN /\ dbg.dpc \in Word
      /\ dbg.cause \in {"none", "ebreak", "haltreq", "step"}
      /\ dbg.cap_valid \in BOOLEAN /\ dbg.dpc_cap \in Word
      /\ dbg.ebreakm \in BOOLEAN /\ dbg.step \in BOOLEAN
      /\ dbg.dscratch0 \in Word /\ dbg.ar_busy \in BOOLEAN
  BY <1>1 DEF DbgType
<1>3. dbg_do(in) \in BOOLEAN
  BY DEF dbg_do
<1> QED
  BY <1>1, <1>2, <1>3 DEF DebugControl, DbgType

---------------------------------------------------------------------------
LEMMA TypeInit == Init => TypeOK
<1> SUFFICES ASSUME Init PROVE TypeOK
  OBVIOUS
<1>1. imem \in [Evens -> Instrs]
  BY CoreAssumption DEF Init
<1>2. /\ pc \in Word /\ regs \in [Regs \ {0} -> Word]
      /\ mem \in [MemWords -> Word] /\ csr \in CsrState /\ dbg \in DbgType
  BY EnvironmentAssumption DEF Init, StartType
<1>3. btb \in [0 .. (NBTB - 1) -> BtbType]
  BY BubbleTypes DEF Init
<1> QED
  BY <1>1, <1>2, <1>3, BubbleTypes, SmallWords DEF Init, TypeOK

LEMMA TypeStep == TypeOK /\ [Next]_vars => TypeOK'
<1> SUFFICES ASSUME TypeOK, [Next]_vars PROVE TypeOK'
  OBVIOUS
<1>1. CASE Next
  <2>1. PICK in \in InputType : Tick(in)
    BY <1>1, EnvironmentAssumption DEF Next
  <2>2. /\ pc' \in Word /\ straddle' \in BOOLEAN /\ strad_lo' \in Word
        /\ ifid' \in IfidType /\ idex' \in IdexType
    BY <2>1, FetchType, IdExType DEF Tick
  <2>3. exmem' \in ExmemType /\ memwb' \in MemwbType
    BY <2>1, ExMemType, MemWbType DEF Tick
  <2>4. regs' \in [Regs \ {0} -> Word] /\ mem' \in [MemWords -> Word]
    BY <2>1, RegWriteType, DataMemType DEF Tick
  <2>5. /\ beat2' \in BOOLEAN /\ ld_w0' \in Word
        /\ resv' \in [valid : BOOLEAN, addr : Word]
        /\ md' \in MdType /\ md_inflight' \in BOOLEAN
    BY <2>1, MemSideType, MdTypes DEF Tick
  <2>6. /\ csr' \in CsrState /\ btb' \in [0 .. (NBTB - 1) -> BtbType]
        /\ dbg' \in DbgType
    BY <2>1, CsrUpdateType, BtbUpdateType, DebugControlType DEF Tick
  <2>7. imem' = imem
    BY <2>1 DEF Tick
  <2> QED
    BY <2>2, <2>3, <2>4, <2>5, <2>6, <2>7 DEF TypeOK
<1>2. CASE UNCHANGED vars
  BY <1>2 DEF vars, fetchVars, TypeOK
<1> QED
  BY <1>1, <1>2

(* Every register and memory of the core stays in its declared range, for  *)
(* any width, program, input sequence and leaf data path: in particular    *)
(* every address reaching the data memory and every BTB index is in range. *)
THEOREM TypeCorrect == Spec => []TypeOK
<1>1. Init => TypeOK
  BY TypeInit
<1>2. TypeOK /\ [Next]_vars => TypeOK'
  BY TypeStep
<1> QED
  BY <1>1, <1>2, PTL DEF Spec

---------------------------------------------------------------------------
(* The strengthenings: what the front end, the muldiv unit and MEM         *)
(* remember from one clock edge to the next.                               *)

(* A captured lower half is the one at the current PC.                     *)
StraddleKept == straddle => strad_lo = pc - (pc % 2)

(* A BTB entry that matches an address was made by the branch or jump      *)
(* there: index and tag together are the whole address.                    *)
BtbSound ==
    \A p \in Word :
        /\ btb[BtbIdx(p)].valid
        /\ btb[BtbIdx(p)].tag = BtbTag(p)
        => InstrAt(p).op \in {"branch", "jal"}

FetchInv == /\ StraddleKept /\ BtbSound
            /\ FetchMatchesProgram /\ PredictionSound

(* The muldiv unit works for the instruction in EX, which no instruction   *)
(* in MEM outlives but one on its second beat.                             *)
MdInv ==
    /\ md_inflight => /\ idex.valid /\ IsMd(idex.instr)
                      /\ md.fn = idex.instr.fn
    /\ md_inflight <=> (md.left > 0 \/ md.done)
    /\ ~(md.left > 0 /\ md.done)
    /\ md_inflight /\ exmem.valid => beat2 /\ ~md.done

(* What MEM does with an instruction is what EX decoded.                   *)
ExmemKind ==
    exmem.valid => /\ exmem.mem_re => IsLoad(exmem.instr)
                   /\ exmem.mem_we => IsStore(exmem.instr)
                   /\ exmem.is_amo => IsAtomic(exmem.instr)

CInv == /\ TypeOK /\ FetchInv /\ LoadUseInterlock /\ MdInv
        /\ ExmemKind /\ BeatCoherent /\ HaltedIsQuiet

---------------------------------------------------------------------------
(* The front end.                                                          *)

LEMMA BtbAddress ==
    ASSUME NEW p \in Word, NEW q \in Word,
           BtbIdx(p) = BtbIdx(q), BtbTag(p) = BtbTag(q)
    PROVE  p - (p % 2) = q - (q % 2)
<1>1. /\ p \in Nat /\ q \in Nat /\ p \div 2 \in Nat /\ q \div 2 \in Nat
      /\ NBTB \in Nat /\ NBTB > 0
  BY CoreAssumption, WidthFacts DEF Word
<1>2. \A x \in Nat : x = NBTB * (x \div NBTB) + (x % NBTB)
  BY <1>1
<1>3. p \div 2 = q \div 2
  BY <1>1, <1>2 DEF BtbIdx, BtbTag
<1> QED
  BY <1>1, <1>3

LEMMA FetchedIsProgram ==
    ASSUME StraddleKept PROVE fetched_instr = InstrAt(pc)
BY DEF StraddleKept, fetched_instr

LEMMA StraddleStep ==
    ASSUME TypeOK, StraddleKept, NEW in \in InputType, Fetch(in)
    PROVE  StraddleKept'
BY DEF StraddleKept, Fetch, FetchRedirect, FetchResume, FetchFreeze,
       FetchHold, FetchStraddle, FetchNext, fetchVars

LEMMA BtbStep ==
    ASSUME TypeOK, BtbSound, FetchMatchesProgram, BtbUpdate, UNCHANGED imem
    PROVE  BtbSound'
<1> SUFFICES ASSUME NEW p \in Word, btb'[BtbIdx(p)].valid,
                    btb'[BtbIdx(p)].tag = BtbTag(p)
             PROVE  InstrAt(p).op \in {"branch", "jal"}
  BY DEF BtbSound, InstrAt
<1>1. idex.pc \in Word /\ btb \in [0 .. (NBTB - 1) -> BtbType]
  BY DEF TypeOK, IdexType
<1>2. BtbIdx(p) \in 0 .. (NBTB - 1) /\ BtbIdx(idex.pc) \in 0 .. (NBTB - 1)
  BY <1>1, BtbIdxType
<1>3. CASE btb'[BtbIdx(p)] = btb[BtbIdx(p)]
  BY <1>3 DEF BtbSound
<1>4. CASE btb'[BtbIdx(p)] # btb[BtbIdx(p)]
  <2>1. ex_active /\ br_actual_taken
    BY <1>4 DEF BtbUpdate
  <2>2. idex.valid /\ idex.instr.op \in {"jal", "branch"}
    BY <2>1 DEF ex_active, br_actual_taken, br_taken
  <2>3. BtbIdx(p) = BtbIdx(idex.pc) /\ BtbTag(p) = BtbTag(idex.pc)
    BY <1>1, <1>2, <1>4 DEF BtbUpdate
  <2>4. InstrAt(p) = InstrAt(idex.pc)
    BY <1>1, <2>3, BtbAddress DEF InstrAt
  <2> QED
    BY <2>2, <2>4 DEF FetchMatchesProgram
<1> QED
  BY <1>3, <1>4

LEMMA IfidStep ==
    ASSUME TypeOK, FetchInv, NEW in \in InputType, Fetch(in), UNCHANGED imem
    PROVE  ifid'.valid => /\ ifid'.instr = InstrAt(ifid'.pc)
                          /\ ifid'.pred_taken => IsControl(ifid'.instr)
<1>1. CASE FetchNext(in)
  <2>1. fetched_instr = InstrAt(pc)
    BY FetchedIsProgram DEF FetchInv
  <2>2. /\ ifid'.instr = fetched_instr /\ ifid'.pc = pc
        /\ ifid'.pred_taken = predict_taken_f(in)
    BY <1>1 DEF FetchNext
  <2>3. predict_taken_f(in) => IsControl(fetched_instr)
    <3>1. pc \in Word
      BY DEF TypeOK
    <3>2. btb_hit => fetched_instr.op \in {"branch", "jal"}
      BY <2>1, <3>1 DEF btb_hit, FetchInv, BtbSound
    <3> QED
      BY <3>2 DEF predict_taken_f, predict_taken, ras_predict, f_is_ret, IsControl
  <2> QED
    BY <2>1, <2>2, <2>3
<1>2. CASE FetchHold(in)
  BY <1>2 DEF FetchHold, fetchVars, FetchInv, FetchMatchesProgram,
              PredictionSound
<1>3. CASE ~FetchNext(in) /\ ~FetchHold(in)
  BY <1>3 DEF Fetch, FetchRedirect, FetchResume, FetchFreeze, FetchStraddle,
              IfidBubble
<1> QED
  BY <1>1, <1>2, <1>3

LEMMA FetchStep ==
    ASSUME TypeOK, FetchInv, NEW in \in InputType, Tick(in)
    PROVE  FetchInv'
<1>1. Fetch(in) /\ IdEx(in) /\ BtbUpdate /\ UNCHANGED imem
  BY DEF Tick
<1>2. StraddleKept' /\ BtbSound'
  BY <1>1, StraddleStep, BtbStep DEF FetchInv
<1>3. ifid'.valid => /\ ifid'.instr = InstrAt(ifid'.pc)
                     /\ ifid'.pred_taken => IsControl(ifid'.instr)
  BY <1>1, IfidStep
<1>4. idex'.valid => /\ idex'.instr = InstrAt(idex'.pc)
                     /\ idex'.pred_taken => IsControl(idex'.instr)
  BY <1>1 DEF IdEx, IdexBubble, FetchInv, FetchMatchesProgram, PredictionSound
<1>5. FetchMatchesProgram'
  BY <1>1, <1>3, <1>4 DEF FetchMatchesProgram, InstrAt
<1>6. PredictionSound'
  BY <1>3, <1>4 DEF PredictionSound
<1> QED
  BY <1>2, <1>5, <1>6 DEF FetchInv

---------------------------------------------------------------------------
(* The interlock, the muldiv unit and MEM.                                 *)

LEMMA InterlockStep ==
    ASSUME TypeOK, LoadUseInterlock, NEW in \in InputType, IdEx(in), ExMem
    PROVE  LoadUseInterlock'
<1>1. CASE mem_beat_stall
  BY <1>1 DEF LoadUseInterlock, IdEx, ExMem, ex_freeze
<1>2. CASE ~mem_beat_stall /\ ~ex_commit
  BY <1>2 DEF LoadUseInterlock, ExMem, ExmemBubble
<1>3. CASE ~mem_beat_stall /\ ex_commit
  <2>1. /\ exmem'.instr = idex.instr /\ idex.valid /\ ~ex_freeze
        /\ exmem'.mem_re => IsLoad(idex.instr)
        /\ exmem'.is_amo => IsAtomic(idex.instr)
    BY <1>3 DEF ExMem, ex_commit, ex_freeze
  <2>2. CASE idex'.valid
    <3>1. ifid.valid /\ idex'.instr = ifid.instr /\ ~load_use_stall
      BY <2>1, <2>2 DEF IdEx, IdexBubble
    <3> QED
      BY <2>1, <3>1 DEF LoadUseInterlock, load_use_stall
  <2> QED
    BY <2>2 DEF LoadUseInterlock
<1> QED
  BY <1>1, <1>2, <1>3

LEMMA MdStep ==
    ASSUME TypeOK, MdInv, NEW in \in InputType, IdEx(in), ExMem, SecondBeat,
           MulDiv, MdInflight
    PROVE  MdInv'
<1>1. /\ md.left \in Nat /\ md.done \in BOOLEAN /\ md \in MdType
      /\ DIV_CYCLES \in Nat /\ DIV_CYCLES > 0
      /\ md_inflight \in BOOLEAN /\ beat2 \in BOOLEAN
  BY CoreAssumption DEF TypeOK, MdType
(* Nothing in flight and nothing started.                                  *)
<1>2. CASE ~md_inflight /\ ~md_start
  <2>1. md.left = 0 /\ ~md.done
    BY <1>1, <1>2 DEF MdInv
  <2>2. md'.left = 0 /\ ~md'.done /\ ~md_inflight'
    BY <1>1, <1>2, <2>1 DEF MulDiv, MdInflight, md_busy, MdType
  <2> QED
    BY <2>2 DEF MdInv
(* The instruction in EX starts the unit and is held there.                *)
<1>3. CASE md_start
  <2>1. /\ ~md_inflight /\ md.left = 0 /\ ~md.done
        /\ idex.valid /\ IsMd(idex.instr)
    BY <1>1, <1>3 DEF MdInv, md_start
  <2>2. md_stall /\ idex' = idex
    BY <2>1 DEF md_stall, IdEx, ex_freeze
  <2>3. /\ md'.left > 0 /\ ~md'.done /\ md'.fn = idex.instr.fn
        /\ md_inflight'
    <3>1. ~md_busy
      BY <2>1 DEF md_busy
    <3>2. /\ md'.left = MdCycles(idex.instr.fn, fwd_rs1, fwd_rs2)
          /\ md'.done = FALSE /\ md'.fn = idex.instr.fn
      BY <1>3, <3>1 DEF MulDiv
    <3>3. MdCycles(idex.instr.fn, fwd_rs1, fwd_rs2) > 0
      BY <1>1 DEF MdCycles
    <3>4. md_inflight'
      BY <1>3, <2>1 DEF MdInflight
    <3> QED
      BY <3>2, <3>3, <3>4
  <2>4. exmem'.valid => beat2'
    BY <2>2 DEF ExMem, ex_commit, ExmemBubble, SecondBeat
  <2> QED
    BY <2>1, <2>2, <2>3, <2>4 DEF MdInv
(* It works on; MEM empties behind a second beat.                          *)
<1>4. CASE md_inflight /\ ~md.done
  <2>1. /\ md.left > 0 /\ idex.valid /\ IsMd(idex.instr)
        /\ md.fn = idex.instr.fn /\ (exmem.valid => beat2)
    BY <1>4 DEF MdInv
  <2>2. md_stall /\ idex' = idex
    BY <1>4, <2>1 DEF md_stall, IdEx, ex_freeze
  <2>3. ~mem_beat_stall
    BY <2>1 DEF mem_beat_stall, mem_mis, amo_rmw_b1, amo_is, amo_here
  <2>4. ~exmem'.valid
    BY <2>2, <2>3 DEF ExMem, ex_commit, ExmemBubble
  <2>5. /\ md'.fn = md.fn /\ md'.left = md.left - 1
        /\ (md'.done <=> md.left = 1) /\ md_inflight'
    BY <1>1, <1>4, <2>1 DEF MulDiv, MdInflight, md_busy, MdType
  <2>6. (md'.left > 0 \/ md'.done) /\ ~(md'.left > 0 /\ md'.done)
    BY <1>1, <2>1, <2>5
  <2> QED
    BY <2>1, <2>2, <2>4, <2>5, <2>6 DEF MdInv
(* The result is taken.                                                    *)
<1>5. CASE md_inflight /\ md.done
  <2>1. md.left = 0
    BY <1>1, <1>5 DEF MdInv
  <2>2. md'.left = 0 /\ ~md'.done /\ ~md_inflight'
    BY <1>1, <1>5, <2>1 DEF MulDiv, MdInflight, md_busy, md_start, MdType
  <2> QED
    BY <2>2 DEF MdInv
<1> QED
  BY <1>2, <1>3, <1>4, <1>5

LEMMA MdTaken == MdInv => MdResultTaken
<1> SUFFICES ASSUME MdInv, md.done PROVE MdResultTaken
  BY DEF MdResultTaken
<1>1. /\ md_inflight /\ idex.valid /\ IsMd(idex.instr)
      /\ md.fn = idex.instr.fn /\ ~exmem.valid
  BY DEF MdInv
<1>2. ~mem_beat_stall
  BY <1>1 DEF mem_beat_stall, mem_mis, amo_rmw_b1, amo_is, amo_here
<1>3. ex_commit
  BY <1>1 DEF ex_commit, md_stall, to_debug_now, ebreak_to_debug, IsMd
<1> QED
  BY <1>1, <1>2, <1>3 DEF MdResultTaken

LEMMA KindStep ==
    ASSUME ExmemKind, ExMem PROVE ExmemKind'
BY DEF ExmemKind, ExMem, ExmemBubble

LEMMA BeatStep ==
    ASSUME TypeOK, ExmemKind, BeatCoherent, ExMem, SecondBeat, DataMem
    PROVE  BeatCoherent'
<1> SUFFICES ASSUME beat2' PROVE BeatCoherent'
  BY DEF BeatCoherent
<1>1. mem_beat_stall /\ exmem' = exmem /\ ld_w0' = dmem_rdata
  BY DEF SecondBeat, ExMem
<1>2. ~beat2 /\ (mem_mis \/ amo_is("amo"))
  BY <1>1 DEF mem_beat_stall, amo_rmw_b1
<1>3. (mem_mis \/ amo_is("amo"))'
  BY <1>1, <1>2 DEF mem_mis, amo_is, amo_here, exmem_addr_lo
<1>4. ASSUME amo_here \/ exmem.mem_re
      PROVE  ld_w0' = mem'[(IF amo_here THEN exmem.amo_addr
                            ELSE exmem.result) \div 4]
  <2>1. exmem.valid
    BY <1>2 DEF mem_mis, amo_is, amo_here
  <2>2. ~dmem_we
    BY <1>2, <1>4, <2>1 DEF dmem_we, ExmemKind, IsLoad, IsStore, IsAtomic,
                            amo_is, amo_here, amo_rmw_b2, mem_mis
  <2>3. mem' = mem
    BY <2>2 DEF DataMem
  <2>4. exmem.result \div 4 \in MemWords
    BY WidthFacts DEF TypeOK, ExmemType, Word, MemWords
  <2>5. (exmem.result \div 4 + 0) % (XMOD \div 4) = exmem.result \div 4
    BY <2>4, WidthFacts DEF MemWords
  <2>6. dmem_word = (IF amo_here THEN exmem.amo_addr ELSE exmem.result) \div 4
    BY <1>2, <2>5 DEF dmem_word
  <2> QED
    BY <1>1, <2>3, <2>6 DEF dmem_rdata
<1> QED
  BY <1>1, <1>3, <1>4 DEF BeatCoherent, amo_here

---------------------------------------------------------------------------
(* Debug mode.  A drained pipeline stays drained: nothing is fetched under *)
(* dbg_freeze, and an empty pipeline redirects nowhere.                    *)

LEMMA DrainedStays ==
    ASSUME TypeOK, NEW in \in InputType, Tick(in), pipe_drained,
           ~md_inflight, dbg_freeze(in)
    PROVE  pipe_drained' /\ ~md_inflight'
<1>1. ~ifid.valid /\ ~idex.valid /\ ~exmem.valid /\ ~memwb.valid
  BY DEF pipe_drained
<1>2. ~md_stall /\ ~md_start /\ ~mem_beat_stall /\ ~ex_active /\ ~take_irq(in)
  BY <1>1 DEF md_stall, md_start, mem_beat_stall, mem_mis, amo_rmw_b1, amo_is,
              amo_here, ex_active, take_irq
<1>3. ~redirect(in)
  BY <1>2 DEF redirect, RedirectTrap, RedirectMret, RedirectJalr, RedirectBranch
<1>4. ifid' = IfidBubble
  BY <1>3 DEF Tick, Fetch, FetchRedirect, FetchResume, FetchFreeze, FetchHold,
              FetchStraddle, FetchNext, Fetching
<1>5. idex' = IdexBubble
  BY <1>1, <1>2 DEF Tick, IdEx, ex_freeze
<1>6. exmem' = ExmemBubble /\ memwb' = MemwbBubble
  BY <1>1, <1>2 DEF Tick, ExMem, MemWb, ex_commit
<1>7. ~md_inflight'
  BY <1>2 DEF Tick, MdInflight
<1> QED
  BY <1>4, <1>5, <1>6, <1>7 DEF pipe_drained, IfidBubble, IdexBubble,
                                ExmemBubble, MemwbBubble

LEMMA HaltedStep ==
    ASSUME TypeOK, MdInv, HaltedIsQuiet, NEW in \in InputType, Tick(in)
    PROVE  HaltedIsQuiet'
<1> SUFFICES ASSUME dbg'.mode PROVE pipe_drained' /\ ~md_inflight'
  BY DEF HaltedIsQuiet
<1>1. CASE EnterDebug
  <2>1. pipe_drained /\ dbg.halt_req
    BY <1>1 DEF EnterDebug
  <2>2. ~md_inflight
    BY <2>1 DEF MdInv, pipe_drained
  <2>3. dbg_freeze(in)
    BY <2>1 DEF dbg_freeze
  <2> QED
    BY <2>1, <2>2, <2>3, DrainedStays
<1>2. CASE ~EnterDebug
  <2>1. dbg.mode
    BY <1>2 DEF Tick, DebugControl
  <2>2. pipe_drained /\ ~md_inflight /\ dbg_freeze(in)
    BY <2>1 DEF HaltedIsQuiet, dbg_freeze
  <2> QED
    BY <2>2, DrainedStays
<1> QED
  BY <1>1, <1>2

---------------------------------------------------------------------------
LEMMA CInvInit == Init => CInv
<1> SUFFICES ASSUME Init PROVE CInv
  OBVIOUS
<1>1. TypeOK
  BY TypeInit
<1>2. FetchInv
  <2>1. BtbSound
    BY BtbIdxType DEF Init, BtbSound, BtbEmpty
  <2> QED
    BY <2>1 DEF Init, FetchInv, StraddleKept, FetchMatchesProgram,
                PredictionSound, IfidBubble, IdexBubble
<1>3. LoadUseInterlock /\ ExmemKind
  BY DEF Init, LoadUseInterlock, ExmemKind, ExmemBubble
<1>4. MdInv
  BY DEF Init, MdInv, MdIdle
<1>5. BeatCoherent
  BY DEF Init, BeatCoherent
<1>6. HaltedIsQuiet
  BY DEF Init, HaltedIsQuiet, pipe_drained, IfidBubble, IdexBubble,
         ExmemBubble, MemwbBubble
<1> QED
  BY <1>1, <1>2, <1>3, <1>4, <1>5, <1>6 DEF CInv

LEMMA CInvStep == CInv /\ [Next]_vars => CInv'
<1> SUFFICES ASSUME CInv, [Next]_vars PROVE CInv'
  OBVIOUS
<1> USE DEF CInv
<1>1. TypeOK'
  BY TypeStep
<1>2. CASE Next
  <2>1. PICK in \in InputType : Tick(in)
    BY <1>2, EnvironmentAssumption DEF Next
  <2>2. FetchInv'
    BY <2>1, FetchStep
  <2>3. LoadUseInterlock' /\ ExmemKind'
    BY <2>1, InterlockStep, KindStep DEF Tick
  <2>4. MdInv'
    BY <2>1, MdStep DEF Tick
  <2>5. BeatCoherent'
    BY <2>1, BeatStep DEF Tick
  <2>6. HaltedIsQuiet'
    BY <2>1, HaltedStep
  <2> QED
    BY <1>1, <2>2, <2>3, <2>4, <2>5, <2>6
<1>3. CASE UNCHANGED vars
  <2> USE <1>3 DEF vars, fetchVars
  <2>1. FetchInv'
    BY DEF FetchInv, StraddleKept, BtbSound, FetchMatchesProgram,
           PredictionSound, InstrAt
  <2>2. LoadUseInterlock' /\ ExmemKind' /\ MdInv'
    BY DEF LoadUseInterlock, ExmemKind, MdInv
  <2>3. BeatCoherent'
    BY DEF BeatCoherent, mem_mis, exmem_addr_lo, amo_is, amo_here
  <2>4. HaltedIsQuiet'
    BY DEF HaltedIsQuiet, pipe_drained
  <2> QED
    BY <1>1, <2>1, <2>2, <2>3, <2>4
<1> QED
  BY <1>2, <1>3

LEMMA Invariance == Spec => []CInv
<1>1. Init => CInv
  BY CInvInit
<1>2. CInv /\ [Next]_vars => CInv'
  BY CInvStep
<1> QED
  BY <1>1, <1>2, PTL DEF Spec

(* Whatever redirect, stall, trap or halt falls between the two beats of a *)
(* straddling fetch, ID and EX hold instructions of the program.           *)
THEOREM FetchFaithful == Spec => []FetchMatchesProgram
<1>1. CInv => FetchMatchesProgram
  BY DEF CInv, FetchInv
<1> QED
  BY <1>1, Invariance, PTL

(* Only control flow is ever predicted taken, however addresses alias in   *)
(* the BTB.                                                                *)
THEOREM PredictionsChecked == Spec => []PredictionSound
<1>1. CInv => PredictionSound
  BY DEF CInv, FetchInv
<1> QED
  BY <1>1, Invariance, PTL

(* A load or atomic in MEM never has its consumer in EX.                   *)
THEOREM Interlocked == Spec => []LoadUseInterlock
<1>1. CInv => LoadUseInterlock
  BY DEF CInv
<1> QED
  BY <1>1, Invariance, PTL

(* The one-cycle result of the muldiv unit is always taken, by the         *)
(* instruction that asked for it, for any division latency.                *)
THEOREM ResultNeverLost == Spec => []MdResultTaken
<1>1. CInv => MdResultTaken
  BY MdTaken DEF CInv
<1> QED
  BY <1>1, Invariance, PTL

(* A second beat completes the access of the first, on unchanged memory.   *)
THEOREM BeatsCohere == Spec => []BeatCoherent
<1>1. CInv => BeatCoherent
  BY DEF CInv
<1> QED
  BY <1>1, Invariance, PTL

(* Debug mode is entered and left with an empty pipeline.                  *)
THEOREM DebugQuiet == Spec => []HaltedIsQuiet
<1>1. CInv => HaltedIsQuiet
  BY DEF CInv
<1> QED
  BY <1>1, Invariance, PTL
=============================================================================
