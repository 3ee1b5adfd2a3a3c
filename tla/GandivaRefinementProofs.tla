---------------------- MODULE GandivaRefinementProofs ----------------------
(***************************************************************************)
(* The pipeline against the one-instruction-at-a-time machine, for every   *)
(* program, input sequence, width, latency and leaf data path.             *)
(*                                                                         *)
(* First operand forwarding: the only way an instruction reads a stale     *)
(* operand is that it was held in EX by a first beat in MEM while the      *)
(* operand left WB.  Then the refinement: apart from that, a halt request  *)
(* that drops the instruction in ID and an instruction that runs past an   *)
(* EBREAK into debug mode, every clock edge is a step of the sequential    *)
(* machine.                                                                *)
(***************************************************************************)
EXTENDS GandivaMemoryProofs

(* The results in flight that are bound for register r.                    *)
InMem(r) == exmem.valid /\ exmem.reg_we /\ exmem.instr.rd = r
InWb(r)  == rf_we /\ memwb.rd = r

(* The registers the instruction in EX reads.                              *)
Sources == {r \in Regs \ {0} : \/ NeedsRs1(idex.instr) /\ idex.instr.rs1 = r
                               \/ UsesRs2(idex.instr) /\ idex.instr.rs2 = r}

(* While a first beat holds an instruction other than a multiplication or  *)
(* division in EX, no operand of it leaves WB unless a younger result for  *)
(* the same register is in MEM.  The run core_lost_forward shows a program *)
(* for which this fails.                                                   *)
NoLostForward ==
    mem_beat_stall /\ idex.valid /\ ~IsMd(idex.instr) =>
        \A r \in Sources : InWb(r) => InMem(r)

(* An operand latched in ID is still what the register file holds, unless  *)
(* forwarding replaces it.  A multiplication or division has taken its     *)
(* operands once it is in flight.                                          *)
Held(r, rdata) == r # 0 /\ ~InMem(r) /\ ~InWb(r) => rdata = regs[r]

Latched ==
    idex.valid /\ ~md_inflight =>
        /\ NeedsRs1(idex.instr) => Held(idex.instr.rs1, idex.rdata1)
        /\ UsesRs2(idex.instr) => Held(idex.instr.rs2, idex.rdata2)

---------------------------------------------------------------------------
LEMMA SourceTypes ==
    ASSUME TypeOK
    PROVE  /\ idex.instr.rs1 \in Regs /\ idex.instr.rs2 \in Regs
           /\ ifid.instr.rs1 \in Regs /\ ifid.instr.rs2 \in Regs
           /\ memwb.rd \in Regs /\ regs \in [Regs \ {0} -> Word]
BY DEF TypeOK, IdexType, IfidType, Instrs, MemwbType

(* What is read in ID is what the register file holds at the next edge.    *)
LEMMA ReadThrough ==
    ASSUME TypeOK, HaltedIsQuiet, NEW in \in InputType, RegWrite(in),
           ifid.valid, NEW r \in Regs, r # 0
    PROVE  RegRead(r) = regs'[r]
<1>1. ~dbg_gpr_we(in)
  BY DEF HaltedIsQuiet, pipe_drained, dbg_gpr_we, dbg_do
<1>2. regs \in [Regs \ {0} -> Word]
  BY DEF TypeOK
<1> QED
  BY <1>1, <1>2 DEF RegWrite, RegRead

(* A register nobody is about to write keeps its value while EX is held.   *)
LEMMA RegKept ==
    ASSUME TypeOK, HaltedIsQuiet, NEW in \in InputType, RegWrite(in),
           idex.valid, NEW r \in Regs, r # 0, ~InWb(r)
    PROVE  regs'[r] = regs[r]
<1>1. ~dbg_gpr_we(in)
  BY DEF HaltedIsQuiet, pipe_drained, dbg_gpr_we, dbg_do
<1>2. regs \in [Regs \ {0} -> Word]
  BY DEF TypeOK
<1> QED
  BY <1>1, <1>2 DEF RegWrite, InWb

LEMMA LatchedStep ==
    ASSUME CInv, Latched, NoLostForward, NEW in \in InputType, Tick(in)
    PROVE  Latched'
<1>t. TypeOK /\ HaltedIsQuiet /\ MdInv
  BY DEF CInv
<1>s. /\ idex.instr.rs1 \in Regs /\ idex.instr.rs2 \in Regs
      /\ ifid.instr.rs1 \in Regs /\ ifid.instr.rs2 \in Regs
  BY <1>t, SourceTypes
<1>k. IdEx(in) /\ ExMem /\ MemWb /\ RegWrite(in) /\ MdInflight
  BY DEF Tick
<1> SUFFICES ASSUME idex'.valid, ~md_inflight'
             PROVE  /\ NeedsRs1(idex'.instr) => Held(idex.instr.rs1, idex.rdata1)'
                    /\ UsesRs2(idex'.instr) => Held(idex.instr.rs2, idex.rdata2)'
  BY DEF Latched
(* A new instruction enters EX.                                            *)
<1>1. CASE ~ex_freeze
  <2>1. /\ ifid.valid
        /\ idex'.instr = ifid.instr
        /\ idex'.rdata1 = RegRead(ifid.instr.rs1)
        /\ idex'.rdata2 = RegRead(ifid.instr.rs2)
    BY <1>1, <1>k DEF IdEx, IdexBubble
  <2>2. /\ ifid.instr.rs1 # 0 => RegRead(ifid.instr.rs1) = regs'[ifid.instr.rs1]
        /\ ifid.instr.rs2 # 0 => RegRead(ifid.instr.rs2) = regs'[ifid.instr.rs2]
    BY <1>t, <1>s, <1>k, <2>1, ReadThrough
  <2> QED
    BY <2>1, <2>2 DEF Held
(* The unit starts or works: it has its operands.                          *)
<1>2. CASE ex_freeze /\ idex.valid /\ IsMd(idex.instr)
  <2>1. ~mem_beat_stall => ~md.done
    BY <1>2 DEF ex_freeze, md_stall
  <2>2. mem_beat_stall => ~md.done
    BY <1>t, MdTaken DEF MdResultTaken
  <2>3. md_inflight \/ md_start
    <3>1. md.left \in Nat /\ md_inflight \in BOOLEAN
      BY <1>t, CoreAssumption DEF TypeOK, MdType
    <3> QED
      BY <1>t, <1>2, <3>1 DEF MdInv, md_start, md_busy
  <2> QED
    BY <1>k, <2>1, <2>2, <2>3 DEF MdInflight
(* Any other instruction is held by a first beat.                          *)
<1>3. CASE ex_freeze /\ ~(idex.valid /\ IsMd(idex.instr))
  <2>1. mem_beat_stall /\ idex' = idex /\ exmem' = exmem
    BY <1>3, <1>k DEF ex_freeze, md_stall, IdEx, ExMem
  <2>2. idex.valid /\ ~IsMd(idex.instr) /\ ~md_inflight
    BY <1>t, <1>3, <2>1 DEF MdInv
  <2>3. ASSUME NEW r \in Regs, NEW v, r \in Sources, Held(r, v)
        PROVE  Held(r, v)'
    <3>1. r # 0 /\ (InWb(r) => InMem(r)) /\ (InMem(r) <=> InMem(r)')
      BY <2>1, <2>2, <2>3 DEF NoLostForward, Sources, InMem
    <3>2. CASE InMem(r)
      BY <3>1, <3>2 DEF Held
    <3>3. CASE ~InMem(r)
      <4>1. ~InWb(r)
        BY <3>1, <3>3
      <4>2. regs'[r] = regs[r]
        BY <1>t, <1>k, <2>2, <3>1, <4>1, RegKept
      <4>3. v = regs[r]
        BY <2>3, <3>1, <3>3, <4>1 DEF Held
      <4> QED
        BY <4>2, <4>3 DEF Held
    <3> QED
      BY <3>2, <3>3
  <2>4. PICK r1, r2, v1, v2 : /\ r1 = idex.instr.rs1 /\ r2 = idex.instr.rs2
                              /\ v1 = idex.rdata1 /\ v2 = idex.rdata2
    OBVIOUS
  <2>5. NeedsRs1(idex.instr) => Held(r1, v1)'
    <3>1. CASE r1 = 0
      BY <3>1 DEF Held
    <3>2. CASE r1 # 0 /\ NeedsRs1(idex.instr)
      <4>1. r1 \in Regs /\ r1 \in Sources /\ Held(r1, v1)
        BY <1>s, <2>2, <2>4, <3>2 DEF Sources, Latched
      <4> QED
        BY <4>1, <2>3
    <3> QED
      BY <3>1, <3>2
  <2>6. UsesRs2(idex.instr) => Held(r2, v2)'
    <3>1. CASE r2 = 0
      BY <3>1 DEF Held
    <3>2. CASE r2 # 0 /\ UsesRs2(idex.instr)
      <4>1. r2 \in Regs /\ r2 \in Sources /\ Held(r2, v2)
        BY <1>s, <2>2, <2>4, <3>2 DEF Sources, Latched
      <4> QED
        BY <4>1, <2>3
    <3> QED
      BY <3>1, <3>2
  <2> QED
    BY <2>1, <2>4, <2>5, <2>6 DEF Held
<1> QED
  BY <1>1, <1>2, <1>3

(* What is forwarded is what the register will hold, as the interlock      *)
(* keeps the consumer of a load or atomic out of EX.                       *)
LEMMA ForwardsCurrent ==
    ASSUME CInv, idex.valid, NEW r \in Regs, r # 0, NEW rdata, Held(r, rdata),
           r \in Sources
    PROVE  Forwarded(r, rdata) = abs_regs[r]
<1>1. CASE InMem(r)
  <2>1. ~exmem.mem_re /\ ~exmem.is_amo
    BY <1>1 DEF CInv, LoadUseInterlock, Sources, InMem
  <2>2. pending_result = exmem.result
    BY <2>1 DEF pending_result, amo_is, amo_here
  <2> QED
    BY <1>1, <2>2 DEF Forwarded, abs_regs, InMem
<1>2. CASE ~InMem(r) /\ InWb(r)
  BY <1>2 DEF Forwarded, abs_regs, InMem, InWb, rf_we
<1>3. CASE ~InMem(r) /\ ~InWb(r)
  BY <1>3 DEF Forwarded, abs_regs, InMem, InWb, rf_we, Held
<1> QED
  BY <1>1, <1>2, <1>3

LEMMA LatchedCurrent == CInv /\ Latched => OperandsCurrent
<1> SUFFICES ASSUME CInv, Latched,
                    (ex_commit /\ ~mem_beat_stall /\ ~IsMd(idex.instr)) \/ md_start
             PROVE  /\ NeedsRs1(idex.instr) /\ idex.instr.rs1 # 0 =>
                          fwd_rs1 = abs_regs[idex.instr.rs1]
                    /\ UsesRs2(idex.instr) /\ idex.instr.rs2 # 0 =>
                          fwd_rs2 = abs_regs[idex.instr.rs2]
  BY DEF OperandsCurrent
<1>1. idex.valid /\ ~md_inflight
  BY DEF ex_commit, md_start, CInv, MdInv
<1>2. idex.instr.rs1 \in Regs /\ idex.instr.rs2 \in Regs
  BY SourceTypes DEF CInv
<1>3. ASSUME NeedsRs1(idex.instr), idex.instr.rs1 # 0
      PROVE  fwd_rs1 = abs_regs[idex.instr.rs1]
  <2>1. idex.instr.rs1 \in Sources /\ Held(idex.instr.rs1, idex.rdata1)
    BY <1>1, <1>2, <1>3 DEF Sources, Latched
  <2> QED
    BY <1>1, <1>2, <1>3, <2>1, ForwardsCurrent DEF fwd_rs1
<1>4. ASSUME UsesRs2(idex.instr), idex.instr.rs2 # 0
      PROVE  fwd_rs2 = abs_regs[idex.instr.rs2]
  <2>1. idex.instr.rs2 \in Sources /\ Held(idex.instr.rs2, idex.rdata2)
    BY <1>1, <1>2, <1>4 DEF Sources, Latched
  <2> QED
    BY <1>1, <1>2, <1>4, <2>1, ForwardsCurrent DEF fwd_rs2
<1> QED
  BY <1>3, <1>4

(* "Full operand forwarding" (gandiva_core.sv): every instruction that     *)
(* leaves EX, and every multiplication or division that starts, has the    *)
(* current values of its registers, in every execution in which no operand *)
(* leaves WB while a first beat in MEM holds its reader in EX.  So the     *)
(* loss shown by core_lost_forward is the only one.                        *)
THEOREM OperandsForwarded == Spec /\ []NoLostForward => []OperandsCurrent
<1>1. Init => Latched
  BY DEF Init, IdexBubble, Latched
<1>2. CInv /\ Latched /\ NoLostForward /\ [Next]_vars => Latched'
  <2> SUFFICES ASSUME CInv, Latched, NoLostForward, [Next]_vars PROVE Latched'
    OBVIOUS
  <2>1. CASE Next
    BY <2>1, LatchedStep, EnvironmentAssumption DEF Next
  <2>2. CASE UNCHANGED vars
    BY <2>2 DEF vars, Latched, Held, InMem, InWb, rf_we
  <2> QED
    BY <2>1, <2>2
<1> QED
  BY <1>1, <1>2, Invariance, LatchedCurrent, PTL DEF Spec

---------------------------------------------------------------------------
(* The refinement: what it excludes, and the invariant it needs.           *)

(* A halt request does not fall on a cycle in which a stall holds an       *)
(* instruction in ID: the freeze would drop it.  The run core_lost_at_halt *)
(* shows a program for which this fails.                                   *)
IdKept(in) ==
    dbg_freeze(in) /\ fe_stall /\ ifid.valid => redirect(in) \/ to_debug_now

Calm == \E in \in Inputs : Tick(in) /\ IdKept(in)

(* The debugger does not resume the hart in the cycle of a register write. *)
OneRequest == \A in \in Inputs : ~(in.ar.valid /\ in.ar.write /\ in.resumereq)

(* The core starts with no halt under way.                                 *)
NoHaltAtStart == \A s \in InitStates : ~s.dbg.halt_req /\ ~s.dbg.cap_valid

(* Where fetch went on behind an instruction.                              *)
PredictedNext(r) == IF r.pred_taken THEN r.pred_target
                    ELSE Add(r.pc, r.instr.len)

(* The PCs in the pipeline follow the predictions without a gap.           *)
PcChain ==
    ~dbg.cap_valid =>
    /\ ifid.valid => pc = PredictedNext(ifid)
    /\ idex.valid => PredictedNext(idex) = IF ifid.valid THEN ifid.pc ELSE pc

(* Only a 4-byte instruction is fetched in two beats.                      *)
StraddleLong == straddle => ~c_is_comp

(* No prediction without a predictor.                                      *)
PredConfigured ==
    ~BPRED => /\ ifid.valid => ~ifid.pred_taken
              /\ idex.valid => ~idex.pred_taken

(* A halt empties ID, a captured PC is that of an EBREAK, and the second   *)
(* instruction of a single step is never behind the first one.             *)
DbgInv ==
    /\ dbg.mode => ~dbg.halt_req /\ ~dbg.cap_valid
    /\ dbg.cap_valid => /\ dbg.halt_req /\ dbg.ebreakm
                        /\ InstrAt(dbg.dpc_cap).op = "ebreak"
    /\ dbg.halt_req => ~ifid.valid
    /\ dbg.step_active /\ idex.valid => dbg.halt_req

(* x0 reads as 0.                                                          *)
ZeroRead == idex.valid => /\ idex.instr.rs1 = 0 => idex.rdata1 = 0
                          /\ idex.instr.rs2 = 0 => idex.rdata2 = 0

(* The operands the muldiv unit works on are those the architecture has,   *)
(* and its result is theirs.                                               *)
MdOperands ==
    /\ md_inflight => /\ md.a = ISA!Reg(idex.instr.rs1)
                      /\ md.b = ISA!Reg(idex.instr.rs2)
    /\ md.done => md.result = MdOp(md.fn, md.a, md.b)

(* Everything but the operands of the muldiv unit.                         *)
PInv == /\ CInv /\ Latched /\ FirstBeat /\ PcChain /\ StraddleLong
        /\ PredConfigured /\ DbgInv /\ ZeroRead

RInv == PInv /\ MdOperands

---------------------------------------------------------------------------
(* The architectural functions are the same in both specifications.        *)

LEMMA SameWords ==
    /\ ISA!XMOD = XMOD /\ ISA!Word = Word /\ ISA!Byte = Byte
    /\ ISA!Regs = Regs /\ ISA!Instrs = Instrs /\ ISA!CsrState = CsrState
    /\ ISA!CsrNames = CsrNames
    /\ \A a, b : ISA!Add(a, b) = Add(a, b)
    /\ \A a : ISA!AlignWord(a) = AlignWord(a)
<1>1. ISA!XMOD = XMOD /\ ISA!Regs = Regs /\ ISA!Byte = Byte /\ ISA!CsrNames = CsrNames
  BY DEF ISA!XMOD, XMOD, ISA!Regs, Regs, ISA!Byte, Byte, ISA!CsrNames, CsrNames
<1>2. ISA!Word = Word
  BY <1>1 DEF ISA!Word, Word
<1>3. ISA!Instrs = Instrs
  BY <1>1, <1>2, Zenon DEF ISA!Instrs, Instrs, ISA!Ops, Ops, ISA!Funcs, Funcs
<1>4. ISA!CsrState = CsrState
  BY <1>2, Zenon DEF ISA!CsrState, CsrState, ISA!Causes, Causes, ISA!InstretVal, InstretVal
<1>5. \A a, b : ISA!Add(a, b) = Add(a, b)
  BY <1>1 DEF ISA!Add, Add
<1>6. \A a : ISA!AlignWord(a) = AlignWord(a)
  BY DEF ISA!AlignWord, AlignWord
<1> QED
  BY <1>1, <1>2, <1>3, <1>4, <1>5, <1>6

LEMMA SameData ==
    /\ \A i, p, a, b : ISA!AluResult(i, p, a, b) = AluResult(i, p, a, b)
    /\ \A m, a, w, v : ISA!StoreValue(m, a, w, v) = StoreValue(m, a, w, v)
    /\ \A m, a, w, u : ISA!LoadValue(m, a, w, u) = LoadValue(m, a, w, u)
<1>1. \A i, p, a, b : ISA!AluResult(i, p, a, b) = AluResult(i, p, a, b)
  BY SameWords DEF ISA!AluResult, AluResult
<1>2. \A m, a, w, v : ISA!StoreValue(m, a, w, v) = StoreValue(m, a, w, v)
  BY DEF ISA!StoreValue, StoreValue, ISA!ByteOf, ByteOf, ISA!Word, Word, ISA!XMOD, XMOD
<1>3. \A m, a, w, u : ISA!LoadValue(m, a, w, u) = LoadValue(m, a, w, u)
  BY SameWords DEF ISA!LoadValue, LoadValue, ISA!Extend, Extend, ISA!WordOf, WordOf,
                   ISA!SignFill, SignFill
<1> QED
  BY <1>1, <1>2, <1>3

LEMMA SameKinds ==
    ASSUME NEW i
    PROVE  /\ ISA!IsLoad(i) = IsLoad(i) /\ ISA!IsStore(i) = IsStore(i)
           /\ ISA!IsMd(i) = IsMd(i) /\ ISA!IsControl(i) = IsControl(i)
           /\ ISA!CsrWrites(i) = CsrWrites(i) /\ ISA!CsrRoFault(i) = CsrRoFault(i)
           /\ \A e : ISA!ArchTrap(i, e) = ArchTrap(i, e)
<1>1. /\ ISA!IsLoad(i) = IsLoad(i) /\ ISA!IsStore(i) = IsStore(i)
      /\ ISA!IsMd(i) = IsMd(i) /\ ISA!IsControl(i) = IsControl(i)
  BY DEF ISA!IsLoad, IsLoad, ISA!IsStore, IsStore, ISA!IsMd, IsMd, ISA!IsControl, IsControl
<1>2. ISA!CsrWrites(i) = CsrWrites(i)
  BY DEF ISA!CsrWrites, CsrWrites
<1>3. ISA!CsrRoFault(i) = CsrRoFault(i)
  BY <1>2 DEF ISA!CsrRoFault, CsrRoFault, ISA!ReadOnlyCsrs, ReadOnlyCsrs
<1>4. \A e : ISA!ArchTrap(i, e) = ArchTrap(i, e)
  BY <1>3 DEF ISA!ArchTrap, ArchTrap
<1> QED
  BY <1>1, <1>2, <1>3, <1>4

LEMMA SameCsrs ==
    /\ \A c, n : ISA!CsrRead(c, n) = CsrRead(c, n)
    /\ \A c, n, w : ISA!CsrWrite(c, n, w) = CsrWrite(c, n, w)
    /\ \A i, o, s : ISA!CsrNewValue(i, o, s) = CsrNewValue(i, o, s)
    /\ \A c, p, x : ISA!TrapEnter(c, p, x) = TrapEnter(c, p, x)
    /\ \A c : /\ ISA!TrapReturn(c) = TrapReturn(c)
              /\ ISA!CountRetire(c) = CountRetire(c)
<1>1. \A c, n : ISA!CsrRead(c, n) = CsrRead(c, n)
  BY SameWords DEF ISA!CsrRead, CsrRead, ISA!Bit, Bit
<1>2. \A c, n, w : ISA!CsrWrite(c, n, w) = CsrWrite(c, n, w)
  BY SameWords DEF ISA!CsrWrite, CsrWrite, ISA!SetLow, SetLow
<1>3. \A i, o, s : ISA!CsrNewValue(i, o, s) = CsrNewValue(i, o, s)
  BY DEF ISA!CsrNewValue, CsrNewValue
<1>4. /\ \A c, p, x : ISA!TrapEnter(c, p, x) = TrapEnter(c, p, x)
      /\ \A c : /\ ISA!TrapReturn(c) = TrapReturn(c)
                /\ ISA!CountRetire(c) = CountRetire(c)
  BY DEF ISA!TrapEnter, TrapEnter, ISA!TrapReturn, TrapReturn, ISA!CountRetire, CountRetire
<1> QED
  BY <1>1, <1>2, <1>3, <1>4

---------------------------------------------------------------------------
(* The control invariants.                                                 *)

(* A redirect comes from an instruction that leaves EX and empties ID.     *)
LEMMA RedirectFlushes ==
    ASSUME NEW in, redirect(in), Fetch(in), IdEx(in)
    PROVE  /\ ex_active /\ ~ex_freeze
           /\ ~ifid'.valid /\ ~idex'.valid /\ ~straddle'
           /\ pc' = redirect_target(in)
<1>1. ex_active
  BY DEF redirect, RedirectTrap, RedirectMret, RedirectJalr, RedirectBranch,
         take_irq, ex_active
<1>2. ~ex_freeze
  BY <1>1 DEF ex_active
<1>3. FetchRedirect(in)
  BY DEF Fetch, FetchRedirect, FetchResume, FetchFreeze, FetchHold, FetchStraddle,
         FetchNext, Fetching
<1>4. idex' = IdexBubble /\ ifid' = IfidBubble
  BY <1>2, <1>3 DEF IdEx, FetchRedirect
<1> QED
  BY <1>1, <1>2, <1>3, <1>4 DEF FetchRedirect, IdexBubble, IfidBubble

(* What happens to ID and the PC without a redirect, outside debug mode.   *)
LEMMA FetchCases ==
    ASSUME NEW in, ~redirect(in), ~dbg.mode, Fetch(in)
    PROVE  \/ /\ dbg_freeze(in)
              /\ ~ifid'.valid /\ pc' = pc /\ straddle' = straddle
           \/ /\ ~dbg_freeze(in) /\ fe_stall
              /\ ifid' = ifid /\ pc' = pc /\ straddle' = straddle
           \/ /\ ~dbg_freeze(in) /\ ~fe_stall
              /\ ~ifid'.valid /\ pc' = pc /\ ~c_is_comp
           \/ /\ ~dbg_freeze(in) /\ ~fe_stall /\ FetchNext(in)
BY DEF Fetch, FetchRedirect, FetchResume, FetchFreeze, FetchHold, FetchStraddle,
       FetchNext, Fetching, dbg_resume_now, IfidBubble, fetchVars, need_straddle

(* EX takes the instruction in ID, a bubble, or keeps its own.             *)
LEMMA IdExCases ==
    ASSUME NEW in, IdEx(in)
    PROVE  \/ ex_freeze /\ idex' = idex
           \/ /\ ~ex_freeze /\ (redirect(in) \/ load_use_stall \/ ~ifid.valid)
              /\ ~idex'.valid
           \/ /\ ~ex_freeze /\ ~redirect(in) /\ ~load_use_stall /\ ifid.valid
              /\ idex'.valid /\ idex'.pc = ifid.pc /\ idex'.instr = ifid.instr
              /\ idex'.pred_taken = ifid.pred_taken
              /\ idex'.pred_target = ifid.pred_target
              /\ idex'.rdata1 = RegRead(ifid.instr.rs1)
              /\ idex'.rdata2 = RegRead(ifid.instr.rs2)
BY DEF IdEx, IdexBubble

(* Debug mode keeps the pipeline empty.                                    *)
LEMMA EmptyStays ==
    ASSUME CInv, NEW in \in InputType, Tick(in), dbg.mode \/ EnterDebug
    PROVE  /\ pipe_drained /\ ~md_inflight /\ ~redirect(in)
           /\ ~ifid'.valid /\ ~idex'.valid /\ ~exmem'.valid /\ ~memwb'.valid
           /\ ~md_inflight'
<1>1. pipe_drained /\ ~md_inflight /\ dbg_freeze(in)
  BY DEF CInv, HaltedIsQuiet, EnterDebug, MdInv, pipe_drained, dbg_freeze
<1>2. ~redirect(in)
  BY <1>1 DEF redirect, RedirectTrap, RedirectMret, RedirectJalr, RedirectBranch,
              take_irq, ex_active, pipe_drained
<1>3. pipe_drained' /\ ~md_inflight'
  BY <1>1, DrainedStays DEF CInv
<1> QED
  BY <1>1, <1>2, <1>3 DEF pipe_drained

LEMMA LengthFetched ==
    ASSUME CInv, StraddleLong
    PROVE  fetched_instr = InstrAt(pc) /\ fetched_instr.len = fetched_len
<1>1. fetched_instr = InstrAt(pc)
  BY FetchedIsProgram DEF CInv, FetchInv, StraddleKept, fetched_instr
<1>2. InstrAt(pc).len \in {2, 4}
  BY FetchedType DEF CInv, TypeOK, Instrs
<1> QED
  BY <1>1, <1>2 DEF fetched_len, StraddleLong, c_is_comp

LEMMA PcChainStep ==
    ASSUME CInv, PcChain, StraddleLong, NEW in \in InputType, Tick(in), IdKept(in)
    PROVE  PcChain'
<1> SUFFICES ASSUME ~dbg'.cap_valid
             PROVE  /\ ifid'.valid => pc' = PredictedNext(ifid')
                    /\ idex'.valid => PredictedNext(idex')
                                        = IF ifid'.valid THEN ifid'.pc ELSE pc'
  BY DEF PcChain, PredictedNext
<1>k. Fetch(in) /\ IdEx(in) /\ DebugControl(in)
  BY DEF Tick
<1>1. CASE dbg.mode \/ EnterDebug
  BY <1>1, EmptyStays
<1>2. CASE redirect(in)
  BY <1>2, <1>k, RedirectFlushes
<1>3. CASE ~dbg.mode /\ ~EnterDebug /\ ~redirect(in)
  <2>1. ~dbg.cap_valid /\ ~to_debug_now
    BY <1>3, <1>k DEF DebugControl, to_debug_now
  <2>2. /\ ifid.valid => pc = PredictedNext(ifid)
        /\ idex.valid => PredictedNext(idex) = IF ifid.valid THEN ifid.pc ELSE pc
    BY <2>1 DEF PcChain
  <2>3. ~ex_freeze /\ idex'.valid => PredictedNext(idex') = pc
    BY <1>k, <2>2, IdExCases DEF PredictedNext
  <2>4. ~dbg_freeze(in) \/ ~fe_stall \/ ~ifid.valid
    BY <1>3, <2>1 DEF IdKept
  <2>5. ex_freeze => fe_stall /\ idex' = idex
    BY <1>k DEF ex_freeze, fe_stall, IdEx
  <2>6. fe_stall /\ ~ex_freeze => ~idex'.valid
    BY <1>k, IdExCases DEF ex_freeze, fe_stall
  <2>a. CASE dbg_freeze(in) /\ ~ifid'.valid /\ pc' = pc
    BY <2>a, <2>2, <2>3, <2>4, <2>5
  <2>b. CASE ~dbg_freeze(in) /\ fe_stall /\ ifid' = ifid /\ pc' = pc
    BY <2>b, <2>2, <2>5, <2>6
  <2>c. CASE ~fe_stall /\ ~ifid'.valid /\ pc' = pc
    BY <2>c, <2>3, <2>5
  <2>d. CASE ~fe_stall /\ FetchNext(in)
    <3>1. /\ ifid'.valid /\ ifid'.pc = pc /\ ifid'.instr = fetched_instr
          /\ ifid'.pred_taken = predict_taken_f(in)
          /\ predict_taken_f(in) => ifid'.pred_target = predict_target_f(in)
          /\ pc' = IF predict_taken_f(in) THEN predict_target_f(in)
                   ELSE Add(pc, fetched_len)
      BY <2>d DEF FetchNext
    <3>2. pc' = PredictedNext(ifid')
      BY <3>1, LengthFetched DEF PredictedNext
    <3> QED
      BY <2>d, <2>3, <2>5, <3>1, <3>2
  <2> QED
    BY <1>3, <1>k, <2>a, <2>b, <2>c, <2>d, FetchCases
<1> QED
  BY <1>1, <1>2, <1>3

LEMMA StraddleLongStep ==
    ASSUME CInv, StraddleLong, NEW in \in InputType, Tick(in)
    PROVE  StraddleLong'
<1>k. Fetch(in) /\ IdEx(in) /\ imem' = imem
  BY DEF Tick
<1>1. CASE redirect(in)
  BY <1>1, <1>k, RedirectFlushes DEF StraddleLong
<1>2. CASE ~redirect(in) /\ dbg.mode
  BY <1>2, <1>k DEF Fetch, FetchRedirect, FetchResume, FetchFreeze, FetchHold,
     FetchStraddle, FetchNext, Fetching, StraddleLong, c_is_comp, InstrAt, dbg_freeze
<1>3. CASE ~redirect(in) /\ ~dbg.mode
  BY <1>3, <1>k, FetchCases DEF FetchNext, StraddleLong, c_is_comp, InstrAt
<1> QED
  BY <1>1, <1>2, <1>3

LEMMA PredConfiguredStep ==
    ASSUME CInv, PredConfigured, NEW in \in InputType, Tick(in)
    PROVE  PredConfigured'
<1>k. Fetch(in) /\ IdEx(in)
  BY DEF Tick
<1> SUFFICES ASSUME ~BPRED
             PROVE  /\ ifid'.valid => ~ifid'.pred_taken
                    /\ idex'.valid => ~idex'.pred_taken
  BY DEF PredConfigured
<1>1. ~predict_taken_f(in)
  BY DEF predict_taken_f, ras_predict, f_is_ret, predict_taken, btb_hit
<1>2. ifid'.valid => ~ifid'.pred_taken
  BY <1>1, <1>k DEF PredConfigured, Fetch, FetchRedirect, FetchResume, FetchFreeze,
     FetchHold, FetchStraddle, FetchNext, IfidBubble, fetchVars
<1>3. idex'.valid => ~idex'.pred_taken
  BY <1>k, IdExCases DEF PredConfigured
<1> QED
  BY <1>2, <1>3

LEMMA ZeroReadStep ==
    ASSUME ZeroRead, NEW in, IdEx(in)
    PROVE  ZeroRead'
BY IdExCases DEF ZeroRead, RegRead

LEMMA DbgInvStep ==
    ASSUME CInv, DbgInv, NEW in \in InputType, Tick(in)
    PROVE  DbgInv'
<1>k. Fetch(in) /\ IdEx(in) /\ DebugControl(in) /\ imem' = imem
  BY DEF Tick
<1>b. dbg.mode \in BOOLEAN /\ dbg.halt_req \in BOOLEAN /\ dbg.cap_valid \in BOOLEAN
  BY DEF CInv, TypeOK, DbgType
<1>1. dbg'.mode => ~dbg'.halt_req /\ ~dbg'.cap_valid
  BY <1>k, <1>b DEF DebugControl, DbgInv, ebreak_to_debug
<1>2. dbg'.cap_valid => /\ dbg'.halt_req /\ dbg'.ebreakm
                        /\ InstrAt(dbg.dpc_cap)'.op = "ebreak"
  <2> SUFFICES ASSUME dbg'.cap_valid
               PROVE  /\ dbg'.halt_req /\ dbg'.ebreakm
                      /\ InstrAt(dbg.dpc_cap)'.op = "ebreak"
    OBVIOUS
  <2>1. ~EnterDebug /\ ~dbg.mode /\ (dbg.cap_valid \/ ebreak_to_debug)
    BY <1>k, <1>b DEF DebugControl, DbgInv, ebreak_to_debug
  <2>2. dbg'.ebreakm = dbg.ebreakm /\ dbg'.halt_req
    BY <1>k, <2>1 DEF DebugControl, DbgInv, to_debug_now, dbg_local_we, dbg_do
  <2>3. CASE ebreak_to_debug
    <3>1. dbg'.dpc_cap = idex.pc
      BY <1>k, <2>3 DEF DebugControl
    <3> QED
      BY <1>k, <2>2, <2>3, <3>1 DEF ebreak_to_debug, CInv, FetchInv,
         FetchMatchesProgram, InstrAt
  <2>4. CASE ~ebreak_to_debug
    <3>1. dbg'.dpc_cap = dbg.dpc_cap
      BY <1>k, <2>4 DEF DebugControl
    <3> QED
      BY <1>k, <2>1, <2>2, <2>4, <3>1 DEF DbgInv, InstrAt
  <2> QED
    BY <2>3, <2>4
<1>3. dbg'.halt_req => ~ifid'.valid
  <2> SUFFICES ASSUME dbg'.halt_req PROVE ~ifid'.valid
    OBVIOUS
  <2>1. ~EnterDebug /\ ~dbg.mode /\ dbg_freeze(in)
    BY <1>k, <1>b DEF DebugControl, DbgInv, dbg_freeze
  <2> QED
    BY <1>k, <2>1, RedirectFlushes, FetchCases
<1>4. dbg'.step_active /\ idex'.valid => dbg'.halt_req
  <2> SUFFICES ASSUME dbg'.step_active, idex'.valid PROVE dbg'.halt_req
    OBVIOUS
  <2>1. ~EnterDebug /\ ~dbg.mode
    BY EmptyStays
  <2>2. dbg.step_active
    BY <1>k, <2>1 DEF DebugControl, dbg_resume_now
  <2>3. dbg.halt_req \/ step_halt_now
    BY <1>k, <2>1, <2>2, IdExCases DEF DbgInv, step_halt_now
  <2> QED
    BY <1>k, <2>1, <2>3 DEF DebugControl
<1> QED
  BY <1>1, <1>2, <1>3, <1>4 DEF DbgInv

---------------------------------------------------------------------------
(* What MEM and WB still owe to the architectural state.                   *)

LEMMA RegsHeld ==
    ASSUME CInv, NEW in \in InputType, Tick(in), mem_beat_stall, ~dbg_gpr_we(in)
    PROVE  abs_regs' = abs_regs
<1>1. exmem' = exmem /\ memwb' = MemwbBubble /\ ~rf_we'
  BY DEF Tick, ExMem, MemWb, MemwbBubble, rf_we
<1>2. pending_result' = pending_result
  BY BeatHeld DEF CInv, Tick
<1>3. regs \in [Regs \ {0} -> Word] /\ memwb.rd \in Regs
  BY SourceTypes DEF CInv
<1>4. ASSUME NEW r \in Regs \ {0}
      PROVE  regs'[r] = IF rf_we /\ memwb.rd = r THEN memwb.result ELSE regs[r]
  BY <1>3 DEF Tick, RegWrite
<1> QED
  BY <1>1, <1>2, <1>4 DEF abs_regs

LEMMA RegsMove ==
    ASSUME CInv, NEW in \in InputType, Tick(in), ~mem_beat_stall, ~dbg_gpr_we(in)
    PROVE  abs_regs' = [r \in Regs \ {0} |->
                          IF exmem'.valid /\ exmem'.reg_we /\ exmem'.instr.rd = r
                          THEN pending_result' ELSE abs_regs[r]]
<1>1. /\ rf_we' = (exmem.valid /\ exmem.reg_we)
      /\ rf_we' => memwb'.rd = exmem.instr.rd /\ memwb'.result = pending_result
  <2>1. exmem.reg_we \in BOOLEAN /\ exmem.valid \in BOOLEAN
    BY DEF CInv, TypeOK, ExmemType
  <2>2. CASE exmem.valid
    <3>1. mem_result = pending_result
      BY <2>2, ResultDone DEF CInv
    <3> QED
      BY <2>1, <2>2, <3>1 DEF Tick, MemWb, rf_we
  <2>3. CASE ~exmem.valid
    BY <2>1, <2>3 DEF Tick, MemWb, MemwbBubble, rf_we
  <2> QED
    BY <2>2, <2>3
<1>3. regs \in [Regs \ {0} -> Word] /\ memwb.rd \in Regs
  BY SourceTypes DEF CInv
<1>4. ASSUME NEW r \in Regs \ {0}
      PROVE  regs'[r] = IF rf_we /\ memwb.rd = r THEN memwb.result ELSE regs[r]
  BY <1>3 DEF Tick, RegWrite
<1>5. ASSUME NEW r \in Regs \ {0}
      PROVE  abs_regs[r] = IF exmem.valid /\ exmem.reg_we /\ exmem.instr.rd = r
                           THEN pending_result
                           ELSE IF rf_we /\ memwb.rd = r THEN memwb.result ELSE regs[r]
  BY DEF abs_regs
<1>6. abs_regs' = [r \in Regs \ {0} |->
        IF exmem'.valid /\ exmem'.reg_we /\ exmem'.instr.rd = r THEN pending_result'
        ELSE IF rf_we' /\ memwb'.rd = r THEN memwb'.result
        ELSE regs'[r]]
  BY DEF abs_regs
<1>7. ASSUME NEW r \in Regs \ {0}
      PROVE  (IF rf_we' /\ memwb'.rd = r THEN memwb'.result ELSE regs'[r]) = abs_regs[r]
  BY <1>1, <1>4, <1>5
<1> QED
  BY <1>6, <1>7

(* The reservation MEM leaves is the architectural one.                    *)
LEMMA ResvMove ==
    ASSUME TypeOK, Reservation
    PROVE  /\ resv'.valid <=> abs_resv.valid
           /\ resv'.valid => resv' = abs_resv
           /\ ~resv'.valid => abs_resv = [valid |-> FALSE, addr |-> 0]
<1>1. resv \in [valid : BOOLEAN, addr : Word]
  BY DEF TypeOK
<1> QED
  BY <1>1 DEF Reservation, abs_resv

LEMMA ResvNext ==
    ASSUME TypeOK, Reservation
    PROVE  abs_resv' = IF amo_is("lr")'
                       THEN [valid |-> TRUE, addr |-> AlignWord(exmem'.amo_addr)]
                       ELSE IF amo_is("sc")' \/ (exmem'.valid /\ exmem'.mem_we)
                       THEN [valid |-> FALSE, addr |-> 0]
                       ELSE abs_resv
BY ResvMove DEF abs_resv

LEMMA ResvHeld ==
    ASSUME CInv, Reservation, ExMem, mem_beat_stall
    PROVE  abs_resv' = abs_resv
<1>1. exmem' = exmem
  BY DEF ExMem
<1>2. ~amo_is("sc") /\ ~amo_is("lr") /\ ~amo_is("sc")' /\ ~amo_is("lr")'
  BY <1>1, Kinds DEF CInv, mem_beat_stall, amo_rmw_b1, amo_is, amo_here
<1>3. CASE exmem.valid /\ exmem.mem_we
  BY <1>1, <1>2, <1>3 DEF abs_resv
<1>4. CASE ~(exmem.valid /\ exmem.mem_we)
  BY <1>1, <1>2, <1>4, ResvNext DEF CInv
<1> QED
  BY <1>3, <1>4

(* When no instruction leaves EX and the debugger writes no register, the  *)
(* registers, the memory and the reservation are as they were.             *)
LEMMA DataHeld ==
    ASSUME CInv, FirstBeat, NEW in \in InputType, Tick(in), ~dbg_gpr_we(in),
           mem_beat_stall \/ ~ex_commit
    PROVE  /\ abs_regs' = abs_regs /\ abs_mem' = abs_mem /\ abs_resv' = abs_resv
<1>k. /\ TypeOK /\ ExmemKind /\ BeatCoherent
      /\ DataMem /\ ExMem /\ SecondBeat /\ Reservation
  BY DEF CInv, Tick
<1>1. CASE mem_beat_stall
  BY <1>1, <1>k, RegsHeld, BeatHeld, ResvHeld
<1>2. CASE ~mem_beat_stall
  <2>1. ~exmem'.valid
    BY <1>2, <1>k DEF ExMem, ExmemBubble
  <2>2. abs_mem' = mem_bytes'
    BY <2>1 DEF abs_mem, amo_is, amo_here
  <2>3. abs_resv' = abs_resv
    BY <1>k, <2>1, ResvNext DEF amo_is, amo_here
  <2>4. abs_regs' = [r \in Regs \ {0} |-> abs_regs[r]]
    BY <1>2, <2>1, RegsMove
  <2>5. abs_regs = [r \in Regs \ {0} |-> abs_regs[r]]
    BY DEF abs_regs
  <2> QED
    BY <1>2, <1>k, <2>2, <2>3, <2>4, <2>5, MemDone
<1> QED
  BY <1>1, <1>2

LEMMA FirstBeatStep ==
    ASSUME CInv, FirstBeat, NEW in \in InputType, Tick(in)
    PROVE  FirstBeat'
<1>1. CASE mem_beat_stall
  BY <1>1, BeatHeld DEF CInv, Tick
<1>2. CASE ~mem_beat_stall
  BY <1>2 DEF Tick, SecondBeat, FirstBeat
<1> QED
  BY <1>1, <1>2

---------------------------------------------------------------------------
(* The operands.                                                           *)

LEMMA OperandsRead ==
    ASSUME CInv, Latched, ZeroRead,
           (ex_commit /\ ~mem_beat_stall /\ ~IsMd(idex.instr)) \/ md_start
    PROVE  /\ NeedsRs1(idex.instr) => fwd_rs1 = ISA!Reg(idex.instr.rs1)
           /\ UsesRs2(idex.instr) => fwd_rs2 = ISA!Reg(idex.instr.rs2)
<1>1. OperandsCurrent /\ idex.valid
  BY LatchedCurrent DEF ex_commit, md_start
<1>2. /\ idex.instr.rs1 = 0 => fwd_rs1 = 0
      /\ idex.instr.rs2 = 0 => fwd_rs2 = 0
  BY <1>1 DEF ZeroRead, fwd_rs1, fwd_rs2, Forwarded
<1> QED
  BY <1>1, <1>2 DEF OperandsCurrent, ISA!Reg

LEMMA MdOperandsStep ==
    ASSUME CInv, Latched, ZeroRead, FirstBeat, MdOperands,
           NEW in \in InputType, Tick(in)
    PROVE  MdOperands'
<1>k. IdEx(in) /\ MulDiv /\ MdInflight /\ MdInv /\ HaltedIsQuiet
  BY DEF Tick, CInv
<1>t. md \in MdType /\ md.left \in Nat /\ md.done \in BOOLEAN
  BY CoreAssumption DEF CInv, TypeOK, MdType
<1>1. md'.done => md'.result = MdOp(md'.fn, md'.a, md'.b)
  <2>1. CASE md_busy
    BY <1>k, <1>t, <2>1 DEF MulDiv, MdType
  <2>2. CASE ~md_busy
    BY <1>k, <1>t, <2>2 DEF MulDiv, MdType
  <2> QED
    BY <2>1, <2>2
<1>2. ASSUME md_inflight'
      PROVE  /\ md'.a = ISA!Reg(idex.instr.rs1)'
             /\ md'.b = ISA!Reg(idex.instr.rs2)'
  <2>1. ~md.done /\ (md_inflight \/ md_start)
    BY <1>k, <1>2 DEF MdInflight
  <2>2. idex.valid /\ IsMd(idex.instr) /\ md_stall
    BY <1>k, <2>1 DEF MdInv, md_start, md_stall
  <2>3. idex' = idex /\ ~ex_commit
    BY <1>k, <2>2 DEF IdEx, ex_freeze, ex_commit
  <2>4. ~dbg_gpr_we(in)
    BY <1>k, <2>2 DEF HaltedIsQuiet, pipe_drained, dbg_gpr_we, dbg_do
  <2>5. abs_regs' = abs_regs
    BY <2>3, <2>4, DataHeld
  <2>6. /\ ISA!Reg(idex.instr.rs1)' = ISA!Reg(idex.instr.rs1)
        /\ ISA!Reg(idex.instr.rs2)' = ISA!Reg(idex.instr.rs2)
    BY <2>3, <2>5 DEF ISA!Reg
  <2>7. CASE md_inflight
    <3>1. md.a = ISA!Reg(idex.instr.rs1) /\ md.b = ISA!Reg(idex.instr.rs2)
      BY <2>7 DEF MdOperands
    <3>2. md'.a = md.a /\ md'.b = md.b
      BY <1>k, <1>t, <2>7 DEF MulDiv, md_start, MdType
    <3> QED
      BY <2>6, <3>1, <3>2
  <2>8. CASE ~md_inflight
    <3>1. md_start /\ ~md_busy
      BY <2>1, <2>8 DEF md_start
    <3>2. md'.a = fwd_rs1 /\ md'.b = fwd_rs2
      BY <1>k, <3>1 DEF MulDiv
    <3>3. NeedsRs1(idex.instr) /\ UsesRs2(idex.instr)
      BY <2>2 DEF IsMd, NeedsRs1, UsesRs2
    <3> QED
      BY <2>6, <3>1, <3>2, <3>3, OperandsRead
  <2> QED
    BY <2>7, <2>8
<1> QED
  BY <1>1, <1>2 DEF MdOperands

---------------------------------------------------------------------------
(* Steps that execute no instruction.                                      *)

(* The instruction in EX takes effect at this clock edge.                  *)
Leaves == ex_active /\ ~to_debug_now

LEMMA LeavesIs == Leaves <=> ex_commit /\ ~mem_beat_stall
BY DEF Leaves, ex_active, ex_commit, ex_freeze

(* No trap, interrupt, CSR write or retirement.                            *)
LEMMA CsrHeld ==
    ASSUME CInv, NEW in \in InputType, Tick(in), ~Leaves, ~dbg_csr_we(in)
    PROVE  csr' = csr
<1>1. ~ex_retire
  BY LeavesIs DEF ex_retire
<1>2. ex_active => /\ idex.instr.op = "ebreak" /\ dbg.ebreakm /\ dbg_freeze(in)
  BY DEF Leaves, to_debug_now, ebreak_to_debug, dbg_freeze
<1>3. ~RedirectTrap /\ ~RedirectMret /\ ~csr_we_eff /\ ~take_irq(in)
  <2>1. CASE ex_active
    <3>1. ex_cause = "none" /\ ~CsrWrites(idex.instr)
      BY <1>2, <2>1 DEF ex_cause, ArchTrap, CsrRoFault, CsrWrites
    <3> QED
      BY <1>2, <2>1, <3>1 DEF RedirectTrap, RedirectMret, csr_we_eff, take_irq, ex_trap
  <2>2. CASE ~ex_active
    BY <2>2 DEF RedirectTrap, RedirectMret, csr_we_eff, take_irq, ex_active
  <2> QED
    BY <2>1, <2>2
<1> QED
  BY <1>1, <1>3 DEF Tick, CsrUpdate

LEMMA DcsrWritten ==
    ASSUME NEW r \in [ebreakm : BOOLEAN, step : BOOLEAN, dscratch0 : Word],
           NEW e \in BOOLEAN, NEW s \in BOOLEAN
    PROVE  [r EXCEPT !.ebreakm = e, !.step = s]
             = [ebreakm |-> e, step |-> s, dscratch0 |-> r.dscratch0]
<1>1. PICK q : q = [r EXCEPT !.ebreakm = e, !.step = s]
  OBVIOUS
<1>2. q \in [ebreakm : BOOLEAN, step : BOOLEAN, dscratch0 : Word]
  BY <1>1
<1>3. q.ebreakm = e /\ q.step = s /\ q.dscratch0 = r.dscratch0
  BY <1>1
<1>4. q = [ebreakm |-> q.ebreakm, step |-> q.step, dscratch0 |-> q.dscratch0]
  BY <1>2
<1> QED
  BY <1>1, <1>3, <1>4

(* In debug mode: a resume, a write of the debugger, or nothing.           *)
LEMMA HaltedSteps ==
    ASSUME RInv, OneRequest, NEW in \in Inputs, Tick(in), dbg.mode
    PROVE  ISA!Next \/ UNCHANGED ISA!vars
<1>i. in \in InputType
  BY EnvironmentAssumption
<1>c. CInv /\ DbgInv /\ FirstBeat
  BY DEF RInv, PInv
<1>e. /\ pipe_drained /\ ~redirect(in)
      /\ ~ifid'.valid /\ ~idex'.valid /\ ~exmem'.valid /\ ~memwb'.valid
  BY <1>i, <1>c, EmptyStays
<1>p. /\ ~ifid.valid /\ ~idex.valid /\ ~exmem.valid /\ ~memwb.valid
  BY <1>e DEF pipe_drained
<1>l. ~Leaves /\ ~ex_commit
  BY <1>p DEF Leaves, ex_active, ex_commit
<1>d. /\ dbg'.mode = ~in.resumereq /\ ~dbg'.halt_req /\ ~dbg'.cap_valid
      /\ dbg'.step_active = IF in.resumereq THEN dbg.step ELSE dbg.step_active
      /\ dbg'.dpc = IF dbg_local_we(in, "dpc") THEN in.ar.wdata ELSE dbg.dpc
      /\ dbg'.ebreakm = IF dbg_local_we(in, "dcsr")
                        THEN (in.ar.wdata \div 2) % 2 = 1 ELSE dbg.ebreakm
      /\ dbg'.step = IF dbg_local_we(in, "dcsr")
                     THEN in.ar.wdata % 2 = 1 ELSE dbg.step
      /\ dbg'.dscratch0 = IF dbg_local_we(in, "dscratch0")
                          THEN in.ar.wdata ELSE dbg.dscratch0
  <2>1. ~EnterDebug /\ ~ebreak_to_debug /\ ~dbg.halt_req /\ ~dbg.cap_valid
    BY <1>c DEF EnterDebug, ebreak_to_debug, DbgInv
  <2>2. dbg.mode \in BOOLEAN /\ in.resumereq \in BOOLEAN
    BY <1>i, <1>c DEF CInv, TypeOK, DbgType, InputType
  <2> QED
    BY <2>1, <2>2 DEF Tick, DebugControl, dbg_resume_now
<1>m. abs_mode = "halted" /\ abs_pc = dbg.dpc /\ imem' = imem
  BY DEF abs_mode, abs_pc, Tick
<1>n. abs_mem' = abs_mem /\ abs_resv' = abs_resv
  <2>1. CInv /\ FirstBeat /\ ~mem_beat_stall
    BY <1>c, <1>p DEF mem_beat_stall, mem_mis, amo_rmw_b1, amo_is, amo_here
  <2>2. mem_bytes' = abs_mem
    BY <2>1, MemDone DEF CInv, Tick
  <2>3. abs_mem' = mem_bytes'
    BY <1>e DEF abs_mem, amo_is, amo_here
  <2>4. abs_resv' = abs_resv
    BY <1>c, <1>e, ResvNext DEF CInv, Tick, amo_is, amo_here
  <2> QED
    BY <2>2, <2>3, <2>4
<1>r. abs_regs = regs /\ abs_regs' = regs'
  <2>1. regs \in [Regs \ {0} -> Word] /\ regs' \in [Regs \ {0} -> Word]
    <3>1. TypeOK'
      BY <1>c, TypeStep DEF CInv, Next
    <3> QED
      BY <1>c, <3>1 DEF CInv, TypeOK
  <2>2. /\ abs_regs = [r \in Regs \ {0} |-> regs[r]]
        /\ abs_regs' = [r \in Regs \ {0} |-> regs'[r]]
    BY <1>p, <1>e DEF abs_regs, rf_we
  <2> QED
    BY <2>1, <2>2
<1>1. CASE in.resumereq
  <2>1. ~(dbg_do(in) /\ in.ar.write)
    BY <1>1 DEF OneRequest, dbg_do
  <2>2. ~dbg_gpr_we(in) /\ ~dbg_csr_we(in) /\ \A n : ~dbg_local_we(in, n)
    BY <2>1 DEF dbg_gpr_we, dbg_csr_we, dbg_local_we
  <2>3. csr' = csr /\ regs' = regs
    <3>1. ~rf_we
      BY <1>p DEF rf_we
    <3> QED
      BY <1>i, <1>c, <1>l, <2>2, <3>1, CsrHeld DEF Tick, RegWrite
  <2>4. pc' = dbg.dpc
    BY <1>1, <1>e DEF Tick, Fetch, FetchRedirect, FetchResume, FetchFreeze, FetchHold,
       FetchStraddle, FetchNext, Fetching, dbg_resume_now
  <2>5. abs_pc' = abs_pc /\ abs_dcsr' = abs_dcsr
    BY <1>1, <1>d, <1>e, <1>m, <2>2, <2>4 DEF abs_pc, abs_dcsr
  <2>6. abs_mode' = IF dbg.step THEN "step" ELSE "run"
    BY <1>1, <1>d DEF abs_mode
  <2>7. ISA!Resume
    BY <1>m, <1>n, <1>r, <2>3, <2>5, <2>6 DEF ISA!Resume, abs_dcsr
  <2> QED
    BY <2>7 DEF ISA!Next
<1>2. CASE ~in.resumereq
  <2>m. abs_mode' = abs_mode /\ abs_pc' = dbg'.dpc
    BY <1>2, <1>d, <1>m DEF abs_mode, abs_pc
  <2>w. ~rf_we
    BY <1>p DEF rf_we
  <2>1. CASE dbg_gpr_we(in)
    <3>1. ~dbg_csr_we(in) /\ \A n : ~dbg_local_we(in, n)
      BY <2>1 DEF dbg_gpr_we, dbg_csr_we, dbg_local_we
    <3>2. csr' = csr /\ abs_pc' = abs_pc /\ abs_dcsr' = abs_dcsr
      BY <1>i, <1>c, <1>d, <1>l, <1>m, <2>m, <3>1, CsrHeld DEF abs_dcsr
    <3>3. PICK g \in Regs, w \in Word : g = in.ar.gpr /\ w = in.ar.wdata
      BY <1>i DEF InputType
    <3>4. regs' = IF g # 0 THEN [regs EXCEPT ![g] = w] ELSE regs
      BY <2>1, <3>3 DEF Tick, RegWrite
    <3>5. abs_regs' = ISA!SetReg(g, w)
      BY <1>r, <3>4 DEF ISA!SetReg
    <3>6. ISA!DebugWriteReg
      BY <1>m, <1>n, <2>m, <3>2, <3>3, <3>5, SameWords DEF ISA!DebugWriteReg
    <3> QED
      BY <3>6 DEF ISA!Next
  <2>2. CASE ~dbg_gpr_we(in)
    <3>r. abs_regs' = abs_regs
      BY <1>r, <2>2, <2>w DEF Tick, RegWrite
    <3>w. PICK w \in Word : w = in.ar.wdata
      BY <1>i DEF InputType
    <3>1. CASE dbg_csr_we(in)
      <4>1. \A n \in DebugCsrNames : ~dbg_local_we(in, n)
        BY <3>1 DEF dbg_csr_we, dbg_local_we
      <4>2. abs_pc' = abs_pc /\ abs_dcsr' = abs_dcsr
        BY <1>d, <1>m, <2>m, <4>1 DEF abs_dcsr, DebugCsrNames
      <4>3. in.ar.name \in CsrNames
        BY <1>i, <3>1 DEF InputType, dbg_csr_we
      <4>4. csr' = CsrWrite(csr, in.ar.name, w)
        <5>1. ~ex_retire /\ ~RedirectTrap /\ ~RedirectMret /\ ~csr_we_eff /\ ~take_irq(in)
          BY <1>p DEF ex_retire, ex_commit, RedirectTrap, RedirectMret, csr_we_eff,
                      take_irq, ex_active
        <5> QED
          BY <3>w, <3>1, <5>1 DEF Tick, CsrUpdate
      <4>5. ISA!DebugWriteCsr
        BY <1>m, <1>n, <2>m, <3>r, <3>w, <4>2, <4>3, <4>4, SameWords, SameCsrs
           DEF ISA!DebugWriteCsr
      <4> QED
        BY <4>5 DEF ISA!Next
    <3>2. CASE ~dbg_csr_we(in)
      <4>1. csr' = csr
        BY <1>i, <1>c, <1>l, <3>2, CsrHeld
      <4>2. CASE dbg_local_we(in, "dpc")
        <5>1. abs_pc' = w /\ abs_dcsr' = abs_dcsr
          BY <1>d, <2>m, <3>w, <4>2 DEF abs_dcsr, dbg_local_we
        <5>2. ISA!DebugWriteCsr
          BY <1>m, <1>n, <2>m, <3>r, <3>w, <4>1, <5>1, SameWords DEF ISA!DebugWriteCsr
        <5> QED
          BY <5>2 DEF ISA!Next
      <4>3. CASE dbg_local_we(in, "dscratch0")
        <5>1. abs_pc' = abs_pc /\ abs_dcsr' = [abs_dcsr EXCEPT !.dscratch0 = w]
          BY <1>d, <1>m, <2>m, <3>w, <4>3 DEF abs_dcsr, dbg_local_we
        <5>2. ISA!DebugWriteCsr
          BY <1>m, <1>n, <2>m, <3>r, <3>w, <4>1, <5>1, SameWords DEF ISA!DebugWriteCsr
        <5> QED
          BY <5>2 DEF ISA!Next
      <4>4. CASE dbg_local_we(in, "dcsr")
        <5>1. PICK e, s \in BOOLEAN : /\ e = ((in.ar.wdata \div 2) % 2 = 1)
                                      /\ s = (in.ar.wdata % 2 = 1)
          OBVIOUS
        <5>2. /\ abs_pc' = abs_pc
              /\ abs_dcsr' = [abs_dcsr EXCEPT !.ebreakm = e, !.step = s]
          <6>1. ~dbg_local_we(in, "dpc") /\ ~dbg_local_we(in, "dscratch0")
            BY <4>4 DEF dbg_local_we
          <6>2. abs_pc' = abs_pc /\ dbg'.dscratch0 = dbg.dscratch0
            BY <1>d, <1>m, <2>m, <6>1
          <6>3. dbg'.ebreakm = e /\ dbg'.step = s
            BY <1>d, <4>4, <5>1, Zenon
          <6>4. abs_dcsr' = [ebreakm |-> e, step |-> s, dscratch0 |-> dbg.dscratch0]
            BY <6>2, <6>3, Zenon DEF abs_dcsr
          <6> QED
            <7>1. PICK r : r = abs_dcsr
              OBVIOUS
            <7>2. r \in [ebreakm : BOOLEAN, step : BOOLEAN, dscratch0 : Word]
              BY <1>c, <7>1 DEF CInv, TypeOK, DbgType, abs_dcsr
            <7>3. r.dscratch0 = dbg.dscratch0
              BY <7>1 DEF abs_dcsr
            <7>4. [r EXCEPT !.ebreakm = e, !.step = s]
                    = [ebreakm |-> e, step |-> s, dscratch0 |-> r.dscratch0]
              BY <5>1, <7>2, DcsrWritten
            <7> QED
              BY <6>2, <6>4, <7>1, <7>3, <7>4
        <5>3. \E f, t \in BOOLEAN : abs_dcsr' = [abs_dcsr EXCEPT !.ebreakm = f, !.step = t]
          BY <5>1, <5>2, Zenon
        <5>4. ISA!DebugWriteCsr
          BY <1>m, <1>n, <2>m, <3>r, <3>w, <4>1, <5>2, <5>3, SameWords, Zenon
             DEF ISA!DebugWriteCsr
        <5> QED
          BY <5>4 DEF ISA!Next
      <4>5. CASE /\ ~dbg_local_we(in, "dpc") /\ ~dbg_local_we(in, "dcsr")
                 /\ ~dbg_local_we(in, "dscratch0")
        <5>1. abs_pc' = abs_pc /\ abs_dcsr' = abs_dcsr
          BY <1>d, <1>m, <2>m, <4>5 DEF abs_dcsr
        <5> QED
          BY <1>m, <1>n, <2>m, <3>r, <4>1, <5>1 DEF ISA!vars
      <4> QED
        BY <4>2, <4>3, <4>4, <4>5
    <3> QED
      BY <3>1, <3>2
  <2> QED
    BY <2>1, <2>2
<1> QED
  BY <1>1, <1>2

(* The drained core enters debug mode.                                     *)
LEMMA EnterSteps ==
    ASSUME RInv, NEW in \in InputType, Tick(in), ~dbg.mode, EnterDebug
    PROVE  ISA!Halt
<1>c. CInv /\ FirstBeat
  BY DEF RInv, PInv
<1>e. pipe_drained /\ ~redirect(in)
  BY <1>c, EmptyStays
<1>p. /\ ~ifid.valid /\ ~idex.valid /\ ~exmem.valid /\ ~memwb.valid
  BY <1>e DEF pipe_drained
<1>l. ~Leaves /\ ~ex_commit
  BY <1>p DEF Leaves, ex_active, ex_commit
<1>w. ~dbg_gpr_we(in) /\ ~dbg_csr_we(in) /\ \A n : ~dbg_local_we(in, n)
  BY DEF dbg_gpr_we, dbg_csr_we, dbg_local_we, dbg_do
<1>1. abs_regs' = abs_regs /\ abs_mem' = abs_mem /\ abs_resv' = abs_resv /\ csr' = csr
  BY <1>c, <1>l, <1>w, DataHeld, CsrHeld
<1>2. abs_mode = "halting" /\ abs_mode' = "halted"
  BY <1>p DEF abs_mode, EnterDebug, Tick, DebugControl
<1>3. abs_pc' = abs_pc /\ abs_dcsr' = abs_dcsr /\ imem' = imem
  BY <1>p, <1>w DEF abs_pc, abs_dcsr, Tick, DebugControl
<1> QED
  BY <1>1, <1>2, <1>3 DEF ISA!Halt

(* No instruction leaves EX: at most the machine stops.                    *)
LEMMA HeldSteps ==
    ASSUME RInv, NothingRunsPastCapture, NEW in \in InputType, Tick(in), IdKept(in),
           ~dbg.mode, ~EnterDebug, ~Leaves
    PROVE  ISA!Stop \/ UNCHANGED ISA!vars
<1>c. CInv /\ FirstBeat /\ DbgInv
  BY DEF RInv, PInv
<1>k. Fetch(in) /\ IdEx(in) /\ DebugControl(in) /\ imem' = imem
  BY DEF Tick
<1>w. ~dbg_gpr_we(in) /\ ~dbg_csr_we(in) /\ \A n : ~dbg_local_we(in, n)
  BY DEF dbg_gpr_we, dbg_csr_we, dbg_local_we, dbg_do
<1>1. abs_regs' = abs_regs /\ abs_mem' = abs_mem /\ abs_resv' = abs_resv /\ csr' = csr
  BY <1>c, <1>w, LeavesIs, DataHeld, CsrHeld
<1>d. /\ ~dbg'.mode /\ abs_dcsr' = abs_dcsr
      /\ dbg'.step_active = dbg.step_active
      /\ dbg.halt_req => dbg'.halt_req
      /\ dbg'.cap_valid = (dbg.cap_valid \/ ebreak_to_debug)
      /\ dbg'.dpc_cap = IF ebreak_to_debug THEN idex.pc ELSE dbg.dpc_cap
  BY <1>k, <1>w DEF DebugControl, abs_dcsr, dbg_resume_now
<1>2. abs_pc' = abs_pc
  <2>1. CASE dbg.cap_valid \/ ebreak_to_debug
    BY <1>d, <2>1 DEF abs_pc, NothingRunsPastCapture, ebreak_to_debug
  <2>2. CASE ~dbg.cap_valid /\ ~ebreak_to_debug
    <3>1. ~ex_active /\ ~to_debug_now
      BY <2>2 DEF Leaves, to_debug_now
    <3>2. ~redirect(in)
      BY <3>1, <1>k, RedirectFlushes
    <3>3. /\ abs_pc = IF idex.valid THEN idex.pc ELSE IF ifid.valid THEN ifid.pc ELSE pc
          /\ abs_pc' = IF idex'.valid THEN idex'.pc
                       ELSE IF ifid'.valid THEN ifid'.pc ELSE pc'
      BY <1>d, <2>2 DEF abs_pc
    <3>4. CASE idex.valid
      <4>1. ex_freeze
        BY <3>1, <3>4 DEF ex_active
      <4>2. idex' = idex
        BY <1>k, <4>1 DEF IdEx
      <4> QED
        BY <3>3, <3>4, <4>2
    <3>5. CASE ~idex.valid /\ ex_freeze
      <4>1. fe_stall /\ idex' = idex
        BY <1>k, <3>5 DEF ex_freeze, fe_stall, IdEx
      <4>2. ~dbg_freeze(in) \/ ~ifid.valid
        BY <3>1, <3>2, <4>1 DEF IdKept
      <4> QED
        BY <1>k, <3>2, <3>3, <3>5, <4>1, <4>2, FetchCases
    <3>6. CASE ~idex.valid /\ ~ex_freeze
      <4>1. ~load_use_stall /\ ~fe_stall
        BY <3>6 DEF load_use_stall, fe_stall, ex_freeze
      <4>2. CASE ifid.valid
        BY <1>k, <3>2, <3>3, <3>6, <4>1, <4>2, IdExCases
      <4>3. CASE ~ifid.valid
        <5>1. ~idex'.valid
          BY <1>k, <3>6, <4>3 DEF IdEx, IdexBubble
        <5>2. IF ifid'.valid THEN ifid'.pc = pc ELSE pc' = pc
          <6>1. FetchNext(in) => ifid'.valid /\ ifid'.pc = pc
            BY DEF FetchNext
          <6> QED
            BY <1>k, <3>2, <4>1, <6>1, FetchCases
        <5> QED
          BY <3>3, <3>6, <4>3, <5>1, <5>2
      <4> QED
        BY <4>2, <4>3
    <3> QED
      BY <3>4, <3>5, <3>6
  <2> QED
    BY <2>1, <2>2
<1>3. \/ abs_mode' = abs_mode
      \/ abs_mode \in {"run", "step"} /\ abs_mode' = "halting"
  <2>1. CASE dbg.halt_req /\ ~idex.valid /\ ~ifid.valid
    <3>1. dbg_freeze(in) /\ ~redirect(in)
      BY <2>1 DEF dbg_freeze, redirect, RedirectTrap, RedirectMret, RedirectJalr,
                  RedirectBranch, take_irq, ex_active
    <3>2. ~ifid'.valid /\ ~idex'.valid
      BY <1>k, <2>1, <3>1, FetchCases, IdExCases
    <3> QED
      BY <1>d, <2>1, <3>2 DEF abs_mode
  <2>2. CASE ~(dbg.halt_req /\ ~idex.valid /\ ~ifid.valid)
    BY <1>d, <2>2 DEF abs_mode
  <2> QED
    BY <2>1, <2>2
<1>4. CASE abs_mode' = abs_mode
  BY <1>1, <1>2, <1>d, <1>k, <1>4 DEF ISA!vars
<1>5. CASE abs_mode \in {"run", "step"} /\ abs_mode' = "halting"
  BY <1>1, <1>2, <1>d, <1>k, <1>5 DEF ISA!Stop, ISA!Alive
<1> QED
  BY <1>3, <1>4, <1>5

---------------------------------------------------------------------------
(* An instruction leaves EX.                                               *)

LEMMA LeavesFacts ==
    ASSUME RInv, NothingRunsPastCapture, Leaves
    PROVE  /\ idex.valid /\ idex.instr \in Instrs /\ idex.pc \in Word
           /\ ~ex_freeze /\ ~md_stall /\ ~mem_beat_stall /\ ex_commit
           /\ ~dbg.mode /\ ~dbg.cap_valid /\ ~ebreak_to_debug /\ ~EnterDebug
           /\ abs_pc = idex.pc /\ ISA!I = idex.instr /\ ISA!SeqNext = seq_next
           /\ abs_mode = IF dbg.step_active THEN "step" ELSE "run"
           /\ ISA!Alive
<1>c. CInv /\ DbgInv
  BY DEF RInv, PInv
<1>1. idex.valid /\ ~ex_freeze /\ ~ebreak_to_debug
  BY DEF Leaves, ex_active, to_debug_now
<1>2. ~md_stall /\ ~mem_beat_stall /\ ex_commit
  BY <1>1, LeavesIs DEF ex_freeze
<1>3. idex.instr \in Instrs /\ idex.pc \in Word
  BY <1>c DEF CInv, TypeOK, IdexType
<1>4. ~dbg.mode /\ ~EnterDebug
  BY <1>c, <1>1 DEF CInv, HaltedIsQuiet, pipe_drained, EnterDebug
<1>5. idex.instr = InstrAt(idex.pc)
  BY <1>c, <1>1 DEF CInv, FetchInv, FetchMatchesProgram
<1>6. ~dbg.cap_valid
  BY <1>c, <1>1, <1>4, <1>5 DEF DbgInv, NothingRunsPastCapture, ebreak_to_debug
<1>7. abs_pc = idex.pc
  BY <1>1, <1>4, <1>6 DEF abs_pc
<1>8. ISA!I = idex.instr
  BY <1>5, <1>7 DEF ISA!I, ISA!InstrAt, InstrAt
<1>9. ISA!SeqNext = seq_next
  BY <1>7, <1>8, SameWords DEF ISA!SeqNext, seq_next
<1>10. abs_mode = IF dbg.step_active THEN "step" ELSE "run"
  BY <1>1, <1>4 DEF abs_mode
<1>11. ISA!Alive
  BY <1>10 DEF ISA!Alive
<1> QED
  BY <1>1, <1>2, <1>3, <1>4, <1>6, <1>7, <1>8, <1>9, <1>10, <1>11

LEMMA LeavesControl ==
    ASSUME RInv, NothingRunsPastCapture, NEW in \in InputType, Tick(in), IdKept(in), Leaves
    PROVE  /\ abs_pc' = IF redirect(in) THEN redirect_target(in) ELSE PredictedNext(idex)
           /\ ISA!ModeAfter /\ abs_dcsr' = abs_dcsr /\ imem' = imem
<1>c. CInv /\ DbgInv /\ PcChain
  BY DEF RInv, PInv
<1>k. Fetch(in) /\ IdEx(in) /\ DebugControl(in) /\ imem' = imem
  BY DEF Tick
<1>f. /\ idex.valid /\ ~ex_freeze /\ ~md_stall /\ ~mem_beat_stall
      /\ ~dbg.mode /\ ~dbg.cap_valid /\ ~ebreak_to_debug /\ ~EnterDebug
      /\ abs_mode = IF dbg.step_active THEN "step" ELSE "run"
  BY LeavesFacts
<1>w. \A n : ~dbg_local_we(in, n)
  BY <1>f DEF dbg_local_we, dbg_do
<1>d. /\ ~dbg'.mode /\ ~dbg'.cap_valid /\ abs_dcsr' = abs_dcsr
      /\ dbg'.step_active = dbg.step_active
      /\ dbg.halt_req => dbg'.halt_req
  BY <1>k, <1>f, <1>w DEF DebugControl, abs_dcsr, dbg_resume_now
<1>1. abs_pc' = IF idex'.valid THEN idex'.pc ELSE IF ifid'.valid THEN ifid'.pc ELSE pc'
  BY <1>d DEF abs_pc
<1>2. abs_pc' = IF redirect(in) THEN redirect_target(in) ELSE PredictedNext(idex)
  <2>1. CASE redirect(in)
    BY <1>k, <1>1, <2>1, RedirectFlushes
  <2>2. CASE ~redirect(in)
    <3>1. PredictedNext(idex) = IF ifid.valid THEN ifid.pc ELSE pc
      BY <1>c, <1>f DEF PcChain
    <3>2. CASE ifid.valid /\ ~load_use_stall
      BY <1>k, <1>f, <1>1, <2>2, <3>1, <3>2, IdExCases
    <3>3. CASE ifid.valid /\ load_use_stall
      <4>1. ~idex'.valid /\ fe_stall
        BY <1>k, <1>f, <3>3 DEF IdEx, IdexBubble, fe_stall
      <4>2. ~dbg_freeze(in)
        BY <1>f, <2>2, <3>3, <4>1 DEF IdKept, to_debug_now
      <4>3. ifid' = ifid
        BY <1>k, <1>f, <2>2, <4>1, <4>2, FetchCases
      <4> QED
        BY <1>1, <2>2, <3>1, <3>3, <4>1, <4>3
    <3>4. CASE ~ifid.valid
      <4>1. ~idex'.valid /\ ~fe_stall
        BY <1>k, <1>f, <3>4 DEF IdEx, IdexBubble, fe_stall, load_use_stall
      <4>2. FetchNext(in) => ifid'.valid /\ ifid'.pc = pc
        BY DEF FetchNext
      <4>3. IF ifid'.valid THEN ifid'.pc = pc ELSE pc' = pc
        BY <1>k, <1>f, <2>2, <4>1, <4>2, FetchCases
      <4> QED
        BY <1>1, <2>2, <3>1, <3>4, <4>1, <4>3
    <3> QED
      BY <3>2, <3>3, <3>4
  <2> QED
    BY <2>1, <2>2
<1>4. ISA!ModeAfter
  <2>1. CASE dbg.step_active
    <3>1. dbg.halt_req /\ ~ifid.valid /\ dbg_freeze(in)
      BY <1>c, <1>f, <2>1 DEF DbgInv, dbg_freeze
    <3>2. ~ifid'.valid /\ ~idex'.valid
      BY <1>k, <1>f, <3>1, RedirectFlushes, FetchCases, IdExCases
    <3> QED
      BY <1>d, <1>f, <2>1, <3>1, <3>2 DEF ISA!ModeAfter, abs_mode
  <2>2. CASE ~dbg.step_active
    <3>1. abs_mode' \in {"run", "halting"}
      BY <1>d, <2>2 DEF abs_mode
    <3> QED
      BY <1>f, <2>2, <3>1 DEF ISA!ModeAfter
  <2> QED
    BY <2>1, <2>2
<1> QED
  BY <1>2, <1>4, <1>d, <1>k

(* Where execution goes on behind the instruction in EX.                   *)
ex_next == CASE idex.instr.op = "jalr"              -> jalr_target
             [] idex.instr.op \in {"jal", "branch"} -> br_actual_next
             [] OTHER                               -> seq_next

(* A prediction that EX does not correct was right.                        *)
LEMMA Predicted ==
    ASSUME RInv, ex_active, ~RedirectJalr, ~RedirectBranch
    PROVE  PredictedNext(idex) = ex_next
<1>c. PredictionSound /\ PredConfigured
  BY DEF RInv, PInv, CInv, FetchInv
<1>1. idex.valid /\ PredictedNext(idex) = pred_next
  BY DEF ex_active, PredictedNext, pred_next, seq_next
<1>2. CASE idex.instr.op = "jalr"
  <2>1. ~Mispredicted(jalr_target, TRUE)
    BY <1>2 DEF RedirectJalr
  <2> QED
    BY <1>1, <1>2, <2>1 DEF Mispredicted, ex_next
<1>3. CASE idex.instr.op \in {"jal", "branch"}
  <2>1. ~Mispredicted(br_actual_next, br_actual_taken)
    BY <1>3 DEF RedirectBranch
  <2>2. ex_next = br_actual_next
    BY <1>3 DEF ex_next
  <2>3. CASE BPRED
    BY <1>1, <2>1, <2>2, <2>3 DEF Mispredicted
  <2>4. CASE ~BPRED
    BY <1>1, <1>c, <2>1, <2>2, <2>4 DEF Mispredicted, br_actual_next, pred_next,
                                        PredConfigured
  <2> QED
    BY <2>3, <2>4
<1>4. CASE ~IsControl(idex.instr)
  BY <1>c, <1>1, <1>4 DEF PredictionSound, pred_next, ex_next, IsControl
<1> QED
  BY <1>2, <1>3, <1>4 DEF IsControl

(* An instruction that does not trap and is neither a CSR access nor MRET  *)
(* completes, and an interrupt may be taken behind it.                     *)
LEMMA Completes ==
    ASSUME RInv, NothingRunsPastCapture, NEW in \in InputType, Tick(in), IdKept(in), Leaves,
           ~ex_trap, idex.instr.op \notin {"csr", "mret"}
    PROVE  ISA!Complete(ex_next)
<1>c. CInv /\ DbgInv
  BY DEF RInv, PInv
<1>f. /\ idex.valid /\ ~mem_beat_stall /\ ex_commit /\ ~dbg.mode
      /\ abs_mode = IF dbg.step_active THEN "step" ELSE "run"
      /\ ISA!I = idex.instr /\ ISA!SeqNext = seq_next
  BY LeavesFacts
<1>m. /\ abs_pc' = IF redirect(in) THEN redirect_target(in) ELSE PredictedNext(idex)
      /\ ISA!ModeAfter /\ abs_dcsr' = abs_dcsr /\ imem' = imem
  BY LeavesControl
<1>1. ex_retire /\ ~RedirectTrap /\ ~RedirectMret /\ ~csr_we_eff /\ ~dbg_csr_we(in)
  BY <1>f DEF ex_retire, RedirectTrap, RedirectMret, csr_we_eff, CsrWrites, dbg_csr_we,
              dbg_do
<1>2. csr' = IF take_irq(in) THEN TrapEnter(CountRetire(csr), seq_next, "irq")
             ELSE CountRetire(csr)
  BY <1>1 DEF Tick, CsrUpdate
<1>a. ex_active
  BY DEF Leaves
<1>3. CASE take_irq(in)
  <2>1. /\ ~IsControl(idex.instr) /\ irq_req(in) /\ ~dbg_freeze(in) /\ redirect(in)
    BY <1>3 DEF take_irq, redirect
  <2>2. ex_next = seq_next
    BY <2>1 DEF ex_next, IsControl
  <2>3. redirect_target(in) = csr.mtvec
    BY <1>1, <2>1 DEF redirect_target, RedirectJalr, RedirectBranch, IsControl
  <2>4. ~dbg.step_active
    BY <1>c, <1>f, <2>1 DEF DbgInv, dbg_freeze
  <2>5. ISA!Interruptible
    BY <1>f, <2>1, <2>4, SameKinds DEF ISA!Interruptible, irq_req
  <2>6. csr' = ISA!TrapEnter(ISA!CountRetire(csr), ex_next, "irq")
    BY <1>2, <1>3, <2>2, SameCsrs
  <2> QED
    BY <1>m, <2>1, <2>3, <2>5, <2>6 DEF ISA!Complete
<1>4. CASE ~take_irq(in)
  <2>1. abs_pc' = ex_next
    <3>1. CASE RedirectJalr
      <4>1. redirect(in) /\ idex.instr.op = "jalr"
        BY <3>1 DEF redirect, RedirectJalr
      <4>2. redirect_target(in) = jalr_target
        BY <1>1, <3>1, <4>1 DEF redirect_target, RedirectBranch
      <4> QED
        BY <1>m, <4>1, <4>2 DEF ex_next
    <3>2. CASE RedirectBranch
      <4>1. redirect(in) /\ idex.instr.op \in {"jal", "branch"}
        BY <3>2 DEF redirect, RedirectBranch
      <4>2. redirect_target(in) = br_actual_next
        BY <1>1, <3>2, <4>1 DEF redirect_target, RedirectJalr
      <4> QED
        BY <1>m, <4>1, <4>2 DEF ex_next
    <3>3. CASE ~RedirectJalr /\ ~RedirectBranch
      <4>1. ~redirect(in)
        BY <1>1, <1>4, <3>3 DEF redirect
      <4> QED
        BY <1>a, <1>m, <3>3, <4>1, Predicted
    <3> QED
      BY <3>1, <3>2, <3>3
  <2>2. csr' = ISA!CountRetire(csr)
    BY <1>2, <1>4, SameCsrs
  <2> QED
    BY <1>m, <2>1, <2>2 DEF ISA!Complete
<1> QED
  BY <1>3, <1>4

(* What EX hands to MEM, and what that makes of the registers.             *)
LEMMA Issued ==
    ASSUME RInv, NothingRunsPastCapture, NEW in \in InputType, Tick(in), Leaves
    PROVE  /\ exmem'.valid /\ exmem'.instr = idex.instr
           /\ exmem'.result = ex_result
           /\ exmem'.store_data = fwd_rs2 /\ exmem'.amo_addr = fwd_rs1
           /\ exmem'.amo_b = fwd_rs2
           /\ exmem'.reg_we = (WritesRd(idex.instr) /\ ~ex_trap)
           /\ exmem'.mem_re = (IsLoad(idex.instr) /\ ~ex_trap)
           /\ exmem'.mem_we = (IsStore(idex.instr) /\ ~ex_trap)
           /\ exmem'.is_amo = (IsAtomic(idex.instr) /\ ~ex_trap)
           /\ mem_bytes' = abs_mem
           /\ abs_regs' = IF WritesRd(idex.instr) /\ ~ex_trap
                          THEN ISA!SetReg(idex.instr.rd, pending_result') ELSE abs_regs
<1>c. CInv /\ FirstBeat
  BY DEF RInv, PInv
<1>f. ~mem_beat_stall /\ ex_commit /\ ~dbg.mode /\ idex.instr \in Instrs
  BY LeavesFacts
<1>w. ~dbg_gpr_we(in)
  BY <1>f DEF dbg_gpr_we, dbg_do
<1>1. /\ exmem'.valid /\ exmem'.instr = idex.instr
      /\ exmem'.result = ex_result
      /\ exmem'.store_data = fwd_rs2 /\ exmem'.amo_addr = fwd_rs1
      /\ exmem'.amo_b = fwd_rs2
      /\ exmem'.reg_we = (WritesRd(idex.instr) /\ ~ex_trap)
      /\ exmem'.mem_re = (IsLoad(idex.instr) /\ ~ex_trap)
      /\ exmem'.mem_we = (IsStore(idex.instr) /\ ~ex_trap)
      /\ exmem'.is_amo = (IsAtomic(idex.instr) /\ ~ex_trap)
  BY <1>f DEF Tick, ExMem
<1>2. mem_bytes' = abs_mem
  BY <1>c, <1>f, MemDone DEF CInv, Tick
<1>3. abs_regs' = [r \in Regs \ {0} |->
                     IF exmem'.valid /\ exmem'.reg_we /\ exmem'.instr.rd = r
                     THEN pending_result' ELSE abs_regs[r]]
  BY <1>c, <1>f, <1>w, RegsMove
<1>4. PICK rd, w : rd = idex.instr.rd /\ w = pending_result'
  OBVIOUS
<1>5. rd \in Regs
  BY <1>f, <1>4 DEF Instrs
<1>6. abs_regs = [r \in Regs \ {0} |-> abs_regs[r]]
  BY DEF abs_regs
<1>7. abs_regs' = IF WritesRd(idex.instr) /\ ~ex_trap THEN ISA!SetReg(rd, w) ELSE abs_regs
  <2>1. CASE WritesRd(idex.instr) /\ ~ex_trap
    <3>1. abs_regs' = [r \in Regs \ {0} |-> IF rd = r THEN w ELSE abs_regs[r]]
      BY <1>1, <1>3, <1>4, <2>1
    <3> QED
      BY <1>5, <1>6, <2>1, <3>1 DEF ISA!SetReg
  <2>2. CASE ~(WritesRd(idex.instr) /\ ~ex_trap)
    <3>1. abs_regs' = [r \in Regs \ {0} |-> abs_regs[r]]
      BY <1>1, <1>3, <2>2
    <3> QED
      BY <1>6, <2>2, <3>1
  <2> QED
    BY <2>1, <2>2
<1> QED
  BY <1>1, <1>2, <1>4, <1>7

(* Nothing but a store or an atomic touches the memory or the reservation. *)
LEMMA NoAccessLeft ==
    ASSUME RInv, NothingRunsPastCapture, NEW in \in InputType, Tick(in), Leaves,
           ex_trap \/ (~IsStore(idex.instr) /\ ~IsAtomic(idex.instr))
    PROVE  abs_mem' = abs_mem /\ abs_resv' = abs_resv
<1>1. /\ ~exmem'.mem_we /\ ~exmem'.is_amo /\ mem_bytes' = abs_mem
  BY Issued
<1>2. ~amo_is("lr")' /\ ~amo_is("sc")' /\ ~amo_is("amo")'
  BY <1>1 DEF amo_is, amo_here
<1>3. abs_resv' = abs_resv
  BY <1>1, <1>2, ResvNext DEF RInv, PInv, CInv, Tick
<1>4. abs_mem' = mem_bytes'
  BY <1>1, <1>2 DEF abs_mem
<1> QED
  BY <1>1, <1>3, <1>4

---------------------------------------------------------------------------
(* Class by class, the instruction that leaves EX does what the sequential *)
(* machine does.                                                           *)

Executes(in) ==
    RInv /\ NothingRunsPastCapture /\ Tick(in) /\ IdKept(in) /\ Leaves

(* Fields of the CSR file that are all equal make it equal.                *)
LEMMA SameFields ==
    ASSUME NEW c \in CsrState, NEW d \in CsrState,
           c.MIE = d.MIE, c.MPIE = d.MPIE, c.ie = d.ie, c.mtvec = d.mtvec,
           c.mepc = d.mepc, c.mcause = d.mcause, c.mscratch = d.mscratch,
           c.minstret = d.minstret
    PROVE  c = d
BY DEF CsrState

(* Counting a retirement commutes with every other write.                  *)
LEMMA CountCommutes ==
    ASSUME NEW c \in CsrState, NEW n \in CsrNames, n # "minstret", NEW w \in Word
    PROVE  CsrWrite(CountRetire(c), n, w) = CountRetire(CsrWrite(c, n, w))
<1>1. PICK x : x = CsrWrite(CountRetire(c), n, w)
  OBVIOUS
<1>2. PICK y : y = CountRetire(CsrWrite(c, n, w))
  OBVIOUS
<1>3. x \in CsrState /\ y \in CsrState
  BY <1>1, <1>2, CsrWriteType, CountRetireType
<1>4. PICK u \in CsrState : u = CountRetire(c)
  BY CountRetireType
<1>5. PICK v \in CsrState : v = CsrWrite(c, n, w)
  BY CsrWriteType
<1>6. /\ u.MIE = c.MIE /\ u.MPIE = c.MPIE /\ u.ie = c.ie /\ u.mtvec = c.mtvec
      /\ u.mepc = c.mepc /\ u.mcause = c.mcause /\ u.mscratch = c.mscratch
      /\ u.minstret = (c.minstret + 1) % NINSTRET
  BY <1>4 DEF CountRetire, CsrState
<1>7. /\ y.MIE = v.MIE /\ y.MPIE = v.MPIE /\ y.ie = v.ie /\ y.mtvec = v.mtvec
      /\ y.mepc = v.mepc /\ y.mcause = v.mcause /\ y.mscratch = v.mscratch
      /\ y.minstret = (v.minstret + 1) % NINSTRET
  BY <1>2, <1>5 DEF CountRetire, CsrState
<1>8. /\ x.MIE = y.MIE /\ x.MPIE = y.MPIE /\ x.ie = y.ie /\ x.mtvec = y.mtvec
      /\ x.mepc = y.mepc /\ x.mcause = y.mcause /\ x.mscratch = y.mscratch
      /\ x.minstret = y.minstret
  <2>1. x = CsrWrite(u, n, w)
    BY <1>1, <1>4
  <2>2. CASE n = "mstatus"
    BY <1>5, <1>6, <1>7, <2>1, <2>2 DEF CsrWrite, CsrState
  <2>3. CASE n = "mie"
    BY <1>5, <1>6, <1>7, <2>1, <2>3 DEF CsrWrite, CsrState
  <2>4. CASE n = "mtvec"
    BY <1>5, <1>6, <1>7, <2>1, <2>4 DEF CsrWrite, CsrState
  <2>5. CASE n = "mscratch"
    BY <1>5, <1>6, <1>7, <2>1, <2>5 DEF CsrWrite, CsrState
  <2>6. CASE n = "mepc"
    BY <1>5, <1>6, <1>7, <2>1, <2>6 DEF CsrWrite, CsrState
  <2>7. CASE n = "mhartid"
    BY <1>5, <1>6, <1>7, <2>1, <2>7 DEF CsrWrite, CsrState
  <2> QED
    BY <2>2, <2>3, <2>4, <2>5, <2>6, <2>7 DEF CsrNames
<1> QED
  BY <1>1, <1>2, <1>3, <1>8, SameFields

LEMMA CountReturn ==
    ASSUME NEW c \in CsrState
    PROVE  TrapReturn(CountRetire(c)) = CountRetire(TrapReturn(c))
<1>1. PICK x : x = TrapReturn(CountRetire(c))
  OBVIOUS
<1>2. PICK y : y = CountRetire(TrapReturn(c))
  OBVIOUS
<1>3. x \in CsrState /\ y \in CsrState
  BY <1>1, <1>2, TrapReturnType, CountRetireType
<1>4. PICK u \in CsrState : u = CountRetire(c)
  BY CountRetireType
<1>5. PICK v \in CsrState : v = TrapReturn(c)
  BY TrapReturnType
<1>6. /\ u.MIE = c.MIE /\ u.MPIE = c.MPIE /\ u.ie = c.ie /\ u.mtvec = c.mtvec
      /\ u.mepc = c.mepc /\ u.mcause = c.mcause /\ u.mscratch = c.mscratch
      /\ u.minstret = (c.minstret + 1) % NINSTRET
  BY <1>4 DEF CountRetire, CsrState
<1>7. /\ v.MIE = c.MPIE /\ v.MPIE = TRUE /\ v.ie = c.ie /\ v.mtvec = c.mtvec
      /\ v.mepc = c.mepc /\ v.mcause = c.mcause /\ v.mscratch = c.mscratch
      /\ v.minstret = c.minstret
  BY <1>5 DEF TrapReturn, CsrState
<1>8. /\ y.MIE = v.MIE /\ y.MPIE = v.MPIE /\ y.ie = v.ie /\ y.mtvec = v.mtvec
      /\ y.mepc = v.mepc /\ y.mcause = v.mcause /\ y.mscratch = v.mscratch
      /\ y.minstret = (v.minstret + 1) % NINSTRET
  BY <1>2, <1>5 DEF CountRetire, CsrState
<1>9. /\ x.MIE = u.MPIE /\ x.MPIE = TRUE /\ x.ie = u.ie /\ x.mtvec = u.mtvec
      /\ x.mepc = u.mepc /\ x.mcause = u.mcause /\ x.mscratch = u.mscratch
      /\ x.minstret = u.minstret
  BY <1>1, <1>4 DEF TrapReturn, CsrState
<1>10. /\ x.MIE = y.MIE /\ x.MPIE = y.MPIE /\ x.ie = y.ie /\ x.mtvec = y.mtvec
       /\ x.mepc = y.mepc /\ x.mcause = y.mcause /\ x.mscratch = y.mscratch
       /\ x.minstret = y.minstret
  BY <1>6, <1>7, <1>8, <1>9
<1> QED
  BY <1>1, <1>2, <1>3, <1>10, SameFields

LEMMA TrapSteps ==
    ASSUME NEW in \in InputType, Executes(in), ex_trap
    PROVE  ISA!TakeTrap
<1>x. RInv /\ NothingRunsPastCapture /\ Tick(in) /\ IdKept(in) /\ Leaves
  BY DEF Executes
<1>f. /\ ISA!Alive /\ ISA!I = idex.instr /\ abs_pc = idex.pc /\ ~dbg.mode
  BY <1>x, LeavesFacts
<1>m. /\ abs_pc' = IF redirect(in) THEN redirect_target(in) ELSE PredictedNext(idex)
      /\ ISA!ModeAfter /\ abs_dcsr' = abs_dcsr /\ imem' = imem
  BY <1>x, LeavesControl
<1>o. idex.instr.op \in {"illegal", "csr", "ecall", "ebreak"}
  BY DEF ex_trap, ex_cause, ArchTrap, CsrRoFault, CsrWrites
<1>n. /\ ~RedirectMret /\ ~RedirectJalr /\ ~RedirectBranch /\ ~take_irq(in)
      /\ ~csr_we_eff /\ ~dbg_csr_we(in) /\ ~ex_retire
  BY <1>f, <1>o DEF RedirectMret, RedirectJalr, RedirectBranch, take_irq, csr_we_eff,
                    dbg_csr_we, dbg_do, ex_retire
<1>r. RedirectTrap /\ redirect(in)
  BY <1>x DEF Leaves, RedirectTrap, redirect
<1>1. redirect(in) /\ redirect_target(in) = csr.mtvec
  BY <1>n, <1>r DEF redirect_target
<1>2. csr' = TrapEnter(csr, idex.pc, ex_cause)
  BY <1>x, <1>n, <1>r DEF Tick, CsrUpdate
<1>3. ISA!ArchTrap(ISA!I, abs_dcsr.ebreakm) = ex_cause /\ ex_cause # "none"
  BY <1>f, SameKinds DEF ex_cause, ex_trap, abs_dcsr
<1>4. csr' = ISA!TrapEnter(csr, abs_pc, ex_cause)
  BY <1>f, <1>2, SameCsrs
<1>5. abs_regs' = abs_regs /\ abs_mem' = abs_mem /\ abs_resv' = abs_resv
  BY <1>x, Issued, NoAccessLeft
<1> QED
  BY <1>f, <1>m, <1>1, <1>3, <1>4, <1>5 DEF ISA!TakeTrap

(* A result that EX already has.                                           *)
LEMMA PlainResult ==
    ASSUME NEW in \in InputType, Executes(in), ~ex_trap,
           ~IsLoad(idex.instr), ~IsAtomic(idex.instr)
    PROVE  pending_result' = ex_result
<1>1. exmem'.result = ex_result /\ ~exmem'.mem_re /\ ~exmem'.is_amo
  BY Issued DEF Executes
<1> QED
  BY <1>1 DEF pending_result, amo_is, amo_here

LEMMA ExecFacts ==
    ASSUME NEW in \in InputType, Executes(in)
    PROVE  /\ ISA!Alive /\ ISA!I = idex.instr /\ abs_pc = idex.pc
           /\ ISA!SeqNext = seq_next
           /\ ~IsMd(idex.instr) /\ NeedsRs1(idex.instr) =>
                 fwd_rs1 = ISA!Reg(idex.instr.rs1)
           /\ ~IsMd(idex.instr) /\ UsesRs2(idex.instr) =>
                 fwd_rs2 = ISA!Reg(idex.instr.rs2)
<1>1. /\ ISA!Alive /\ ISA!I = idex.instr /\ abs_pc = idex.pc
      /\ ISA!SeqNext = seq_next /\ ex_commit /\ ~mem_beat_stall
  BY LeavesFacts DEF Executes
<1> QED
  BY <1>1, OperandsRead DEF Executes, RInv, PInv

LEMMA AluSteps ==
    ASSUME NEW in \in InputType, Executes(in), ~ex_trap,
           idex.instr.op \in {"alu", "alui", "lui", "auipc", "fence"}
    PROVE  ISA!ExecAlu
<1>k. ~IsLoad(idex.instr) /\ ~IsAtomic(idex.instr) /\ ~IsStore(idex.instr)
      /\ ~IsMd(idex.instr)
  BY DEF IsLoad, IsAtomic, IsStore, IsMd
<1>f. /\ ISA!Alive /\ ISA!I = idex.instr /\ abs_pc = idex.pc
      /\ ISA!SeqNext = seq_next
      /\ NeedsRs1(idex.instr) => fwd_rs1 = ISA!Reg(idex.instr.rs1)
      /\ UsesRs2(idex.instr) => fwd_rs2 = ISA!Reg(idex.instr.rs2)
  BY <1>k, ExecFacts
<1>1. ISA!Complete(seq_next)
  <2>1. ex_next = seq_next
    BY DEF ex_next
  <2>2. ISA!Complete(ex_next)
    BY Completes DEF Executes
  <2> QED
    BY <2>1, <2>2
<1>2. abs_mem' = abs_mem /\ abs_resv' = abs_resv
  BY <1>k, NoAccessLeft DEF Executes
<1>3. abs_regs' = IF WritesRd(idex.instr) THEN ISA!SetReg(idex.instr.rd, ex_result)
                  ELSE abs_regs
  BY <1>k, Issued, PlainResult DEF Executes
<1>4. WritesRd(idex.instr) <=> idex.instr.op # "fence"
  BY <1>k DEF WritesRd
<1>5. idex.instr.op # "fence" =>
        ex_result = ISA!AluResult(idex.instr, abs_pc, ISA!Reg(idex.instr.rs1),
                                  ISA!Reg(idex.instr.rs2))
  <2>1. ex_result = AluResult(idex.instr, idex.pc, fwd_rs1, fwd_rs2)
    BY <1>k DEF ex_result, alu_y
  <2>2. idex.instr.op # "fence" =>
          AluResult(idex.instr, idex.pc, fwd_rs1, fwd_rs2)
          = AluResult(idex.instr, idex.pc, ISA!Reg(idex.instr.rs1),
                      ISA!Reg(idex.instr.rs2))
    BY <1>f DEF AluResult, NeedsRs1, UsesRs2
  <2> QED
    BY <1>f, <2>1, <2>2, SameData
<1>6. abs_regs' = IF idex.instr.op = "fence" THEN abs_regs
                  ELSE ISA!SetReg(idex.instr.rd,
                         ISA!AluResult(idex.instr, abs_pc, ISA!Reg(idex.instr.rs1),
                                       ISA!Reg(idex.instr.rs2)))
  BY <1>3, <1>4, <1>5
<1> QED
  BY <1>f, <1>1, <1>2, <1>6 DEF ISA!ExecAlu

LEMMA MulDivSteps ==
    ASSUME NEW in \in InputType, Executes(in), ~ex_trap, IsMd(idex.instr)
    PROVE  ISA!ExecMulDiv
<1>k. ~IsLoad(idex.instr) /\ ~IsAtomic(idex.instr) /\ ~IsStore(idex.instr)
      /\ WritesRd(idex.instr) /\ idex.instr.op = "md"
  BY DEF IsLoad, IsAtomic, IsStore, IsMd, WritesRd
<1>f. ISA!Alive /\ ISA!I = idex.instr /\ ISA!SeqNext = seq_next
  BY ExecFacts
<1>1. ISA!Complete(seq_next)
  <2>1. ex_next = seq_next
    BY <1>k DEF ex_next
  <2>2. ISA!Complete(ex_next)
    BY <1>k, Completes DEF Executes
  <2> QED
    BY <2>1, <2>2
<1>2. abs_mem' = abs_mem /\ abs_resv' = abs_resv
  BY <1>k, NoAccessLeft DEF Executes
<1>3. abs_regs' = ISA!SetReg(idex.instr.rd, md.result)
  <2>1. ex_result = md.result
    BY <1>k DEF ex_result
  <2> QED
    BY <1>k, <2>1, Issued, PlainResult DEF Executes
<1>4. md.result = MdOp(idex.instr.fn, ISA!Reg(idex.instr.rs1), ISA!Reg(idex.instr.rs2))
  <2>1. md.done
    BY DEF Executes, Leaves, ex_active, ex_freeze, md_stall
  <2>2. md_inflight /\ md.fn = idex.instr.fn
    BY <2>1 DEF Executes, RInv, PInv, CInv, MdInv
  <2> QED
    BY <2>1, <2>2 DEF Executes, RInv, MdOperands
<1> QED
  BY <1>f, <1>1, <1>2, <1>3, <1>4, SameKinds DEF ISA!ExecMulDiv

LEMMA LoadSteps ==
    ASSUME NEW in \in InputType, Executes(in), ~ex_trap, IsLoad(idex.instr)
    PROVE  ISA!ExecLoad
<1>k. ~IsAtomic(idex.instr) /\ ~IsStore(idex.instr) /\ ~IsMd(idex.instr)
      /\ WritesRd(idex.instr) /\ idex.instr.op = "load" /\ NeedsRs1(idex.instr)
  BY DEF IsLoad, IsAtomic, IsStore, IsMd, WritesRd, NeedsRs1
<1>f. /\ ISA!Alive /\ ISA!I = idex.instr /\ ISA!SeqNext = seq_next
      /\ fwd_rs1 = ISA!Reg(idex.instr.rs1)
  BY <1>k, ExecFacts
<1>1. ISA!Complete(seq_next)
  <2>1. ex_next = seq_next
    BY <1>k DEF ex_next
  <2>2. ISA!Complete(ex_next)
    BY <1>k, Completes DEF Executes
  <2> QED
    BY <2>1, <2>2
<1>2. abs_mem' = abs_mem /\ abs_resv' = abs_resv
  BY <1>k, NoAccessLeft DEF Executes
<1>3. abs_regs' = ISA!SetReg(idex.instr.rd, pending_result')
  BY <1>k, Issued DEF Executes
<1>4. ex_result = Add(fwd_rs1, idex.instr.imm)
  BY <1>k DEF ex_result, alu_y, AluResult
<1>5. pending_result' = LoadValue(abs_mem, ex_result, idex.instr.width, idex.instr.uns)
  <2>1. /\ exmem'.instr = idex.instr /\ exmem'.result = ex_result
        /\ exmem'.mem_re /\ ~exmem'.is_amo /\ mem_bytes' = abs_mem
    BY <1>k, Issued DEF Executes
  <2> QED
    BY <2>1 DEF pending_result, amo_is, amo_here
<1>6. abs_regs' = ISA!SetReg(idex.instr.rd,
                    ISA!LoadValue(abs_mem, ISA!Add(ISA!Reg(idex.instr.rs1), idex.instr.imm),
                                  idex.instr.width, idex.instr.uns))
  BY <1>f, <1>3, <1>4, <1>5, SameWords, SameData
<1> QED
  BY <1>f, <1>1, <1>2, <1>6, SameKinds DEF ISA!ExecLoad

LEMMA StoreSteps ==
    ASSUME NEW in \in InputType, Executes(in), ~ex_trap, IsStore(idex.instr)
    PROVE  ISA!ExecStore
<1>k. ~IsAtomic(idex.instr) /\ ~IsMd(idex.instr) /\ ~WritesRd(idex.instr)
      /\ idex.instr.op = "store" /\ NeedsRs1(idex.instr) /\ UsesRs2(idex.instr)
  BY DEF IsAtomic, IsStore, IsMd, WritesRd, NeedsRs1, UsesRs2
<1>f. /\ ISA!Alive /\ ISA!I = idex.instr /\ ISA!SeqNext = seq_next
      /\ fwd_rs1 = ISA!Reg(idex.instr.rs1) /\ fwd_rs2 = ISA!Reg(idex.instr.rs2)
  BY <1>k, ExecFacts
<1>1. ISA!Complete(seq_next)
  <2>1. ex_next = seq_next
    BY <1>k DEF ex_next
  <2>2. ISA!Complete(ex_next)
    BY <1>k, Completes DEF Executes
  <2> QED
    BY <2>1, <2>2
<1>2. /\ exmem'.valid /\ exmem'.instr = idex.instr /\ exmem'.result = ex_result
      /\ exmem'.store_data = fwd_rs2 /\ exmem'.mem_we /\ ~exmem'.is_amo
      /\ mem_bytes' = abs_mem /\ abs_regs' = abs_regs
  BY <1>k, Issued DEF Executes
<1>3. ex_result = Add(fwd_rs1, idex.instr.imm)
  BY <1>k DEF ex_result, alu_y, AluResult
<1>4. abs_mem' = StoreValue(abs_mem, ex_result, idex.instr.width, fwd_rs2)
  BY <1>2 DEF abs_mem, amo_is, amo_here
<1>5. abs_resv' = ISA!NoReservation
  <2>1. ~amo_is("lr")'
    BY <1>2 DEF amo_is, amo_here
  <2> QED
    BY <1>2, <2>1, ResvNext DEF Executes, RInv, PInv, CInv, Tick, ISA!NoReservation
<1>6. abs_mem' = ISA!StoreValue(abs_mem, ISA!Add(ISA!Reg(idex.instr.rs1), idex.instr.imm),
                                idex.instr.width, ISA!Reg(idex.instr.rs2))
  BY <1>f, <1>3, <1>4, SameWords, SameData
<1> QED
  BY <1>f, <1>1, <1>2, <1>5, <1>6, SameKinds DEF ISA!ExecStore

(* What an atomic finds in MEM.                                            *)
LEMMA AtomicIssued ==
    ASSUME NEW in \in InputType, Executes(in), ~ex_trap, IsAtomic(idex.instr)
    PROVE  /\ ISA!Alive /\ ISA!I = idex.instr /\ ISA!Complete(ISA!SeqNext)
           /\ exmem'.instr = idex.instr /\ ~(exmem'.valid /\ exmem'.mem_we)
           /\ ~exmem'.mem_re
           /\ amo_is("lr")' <=> idex.instr.op = "lr"
           /\ amo_is("sc")' <=> idex.instr.op = "sc"
           /\ amo_is("amo")' <=> idex.instr.op = "amo"
           /\ mem_bytes' = abs_mem
           /\ exmem'.amo_addr = ISA!Reg(idex.instr.rs1)
           /\ exmem'.amo_b = ISA!Reg(idex.instr.rs2)
           /\ amo_old' = ISA!LoadValue(abs_mem, ISA!AlignWord(ISA!Reg(idex.instr.rs1)),
                                       4, TRUE)
           /\ abs_regs' = ISA!SetReg(idex.instr.rd, pending_result')
<1>k. /\ ~IsStore(idex.instr) /\ ~IsLoad(idex.instr) /\ ~IsMd(idex.instr)
      /\ WritesRd(idex.instr) /\ idex.instr.op \in {"lr", "sc", "amo"}
      /\ NeedsRs1(idex.instr) /\ UsesRs2(idex.instr)
  BY DEF IsAtomic, IsStore, IsLoad, IsMd, WritesRd, NeedsRs1, UsesRs2
<1>f. /\ ISA!Alive /\ ISA!I = idex.instr /\ ISA!SeqNext = seq_next
      /\ fwd_rs1 = ISA!Reg(idex.instr.rs1) /\ fwd_rs2 = ISA!Reg(idex.instr.rs2)
  BY <1>k, ExecFacts
<1>1. ISA!Complete(ISA!SeqNext)
  <2>1. ex_next = seq_next
    BY <1>k DEF ex_next
  <2>2. ISA!Complete(ex_next)
    BY <1>k, Completes DEF Executes
  <2> QED
    BY <1>f, <2>1, <2>2
<1>2. /\ exmem'.valid /\ exmem'.instr = idex.instr
      /\ exmem'.amo_addr = fwd_rs1 /\ exmem'.amo_b = fwd_rs2
      /\ ~exmem'.mem_we /\ ~exmem'.mem_re /\ exmem'.is_amo /\ mem_bytes' = abs_mem
      /\ abs_regs' = ISA!SetReg(idex.instr.rd, pending_result')
  BY <1>k, Issued DEF Executes
<1>3. /\ amo_is("lr")' <=> idex.instr.op = "lr"
      /\ amo_is("sc")' <=> idex.instr.op = "sc"
      /\ amo_is("amo")' <=> idex.instr.op = "amo"
  BY <1>2 DEF amo_is, amo_here
<1>4. amo_old' = LoadValue(abs_mem, AlignWord(fwd_rs1), 4, TRUE)
  <2>1. PICK m : m = mem'
    OBVIOUS
  <2>2. m \in [MemWords -> Word]
    BY <2>1, DataMemType DEF Executes, RInv, PInv, CInv, Tick
  <2>3. fwd_rs1 \in Word
    BY OperandTypes DEF Executes, RInv, PInv, CInv
  <2>4. mem_bytes' = [x \in Word |-> ByteOf(m[x \div 4], x % 4)]
    BY <2>1 DEF mem_bytes
  <2>5. amo_old' = m[fwd_rs1 \div 4]
    BY <1>2, <2>1 DEF amo_old
  <2> QED
    <3>1. PICK a \in Word : a = fwd_rs1
      BY <2>3
    <3>2. LoadValue([x \in Word |-> ByteOf(m[x \div 4], x % 4)], AlignWord(a), 4, TRUE)
            = m[a \div 4]
      BY <2>2, <3>1, WordLoaded
    <3> QED
      BY <1>2, <2>4, <2>5, <3>1, <3>2, Zenon
<1> QED
  BY <1>f, <1>1, <1>2, <1>3, <1>4, SameWords, SameData

LEMMA LrSteps ==
    ASSUME NEW in \in InputType, Executes(in), ~ex_trap, idex.instr.op = "lr"
    PROVE  ISA!ExecLr
<1>a. IsAtomic(idex.instr)
  BY DEF IsAtomic
<1>1. /\ ISA!Alive /\ ISA!I = idex.instr /\ ISA!Complete(ISA!SeqNext)
      /\ ~(exmem'.valid /\ exmem'.mem_we) /\ ~exmem'.mem_re
      /\ amo_is("lr")' /\ ~amo_is("sc")' /\ ~amo_is("amo")'
      /\ mem_bytes' = abs_mem /\ exmem'.amo_addr = ISA!Reg(idex.instr.rs1)
      /\ amo_old' = ISA!LoadValue(abs_mem, ISA!AlignWord(ISA!Reg(idex.instr.rs1)), 4, TRUE)
      /\ abs_regs' = ISA!SetReg(idex.instr.rd, pending_result')
  BY <1>a, AtomicIssued
<1>2. pending_result' = amo_old' /\ abs_mem' = abs_mem
  BY <1>1 DEF pending_result, abs_mem
<1>3. abs_resv' = [valid |-> TRUE, addr |-> ISA!AlignWord(ISA!Reg(idex.instr.rs1))]
  BY <1>1, SameWords, ResvNext DEF Executes, RInv, PInv, CInv, Tick
<1> QED
  BY <1>1, <1>2, <1>3 DEF ISA!ExecLr

LEMMA ScSteps ==
    ASSUME NEW in \in InputType, Executes(in), ~ex_trap, idex.instr.op = "sc"
    PROVE  ISA!ExecSc
<1>a. IsAtomic(idex.instr)
  BY DEF IsAtomic
<1>1. /\ ISA!Alive /\ ISA!I = idex.instr /\ ISA!Complete(ISA!SeqNext)
      /\ ~(exmem'.valid /\ exmem'.mem_we) /\ ~exmem'.mem_re
      /\ ~amo_is("lr")' /\ amo_is("sc")' /\ ~amo_is("amo")'
      /\ mem_bytes' = abs_mem /\ exmem'.amo_addr = ISA!Reg(idex.instr.rs1)
      /\ exmem'.amo_b = ISA!Reg(idex.instr.rs2)
      /\ abs_regs' = ISA!SetReg(idex.instr.rd, pending_result')
  BY <1>a, AtomicIssued
<1>2. abs_resv' = ISA!NoReservation
  BY <1>1, ResvNext DEF Executes, RInv, PInv, CInv, Tick, ISA!NoReservation
<1>3. sc_ok' <=> /\ abs_resv.valid
                 /\ abs_resv.addr = ISA!AlignWord(ISA!Reg(idex.instr.rs1))
  <2>1. /\ resv'.valid <=> abs_resv.valid
        /\ resv'.valid => resv' = abs_resv
    BY ResvMove DEF Executes, RInv, PInv, CInv, Tick
  <2> QED
    BY <1>1, <2>1, SameWords DEF sc_ok
<1>4. pending_result' = IF sc_ok' THEN 0 ELSE 1
  BY <1>1 DEF pending_result
<1>5. abs_mem' = IF sc_ok' THEN ISA!StoreValue(abs_mem,
                                  ISA!AlignWord(ISA!Reg(idex.instr.rs1)), 4,
                                  ISA!Reg(idex.instr.rs2))
                 ELSE abs_mem
  BY <1>1, SameWords, SameData DEF abs_mem
<1>6. /\ abs_regs' = ISA!SetReg(idex.instr.rd,
                       IF /\ abs_resv.valid
                          /\ abs_resv.addr = ISA!AlignWord(ISA!Reg(idex.instr.rs1))
                       THEN 0 ELSE 1)
      /\ abs_mem' = IF /\ abs_resv.valid
                       /\ abs_resv.addr = ISA!AlignWord(ISA!Reg(idex.instr.rs1))
                    THEN ISA!StoreValue(abs_mem, ISA!AlignWord(ISA!Reg(idex.instr.rs1)),
                                        4, ISA!Reg(idex.instr.rs2))
                    ELSE abs_mem
  BY <1>1, <1>3, <1>4, <1>5
<1> QED
  BY <1>1, <1>2, <1>6 DEF ISA!ExecSc

LEMMA AmoSteps ==
    ASSUME NEW in \in InputType, Executes(in), ~ex_trap, idex.instr.op = "amo"
    PROVE  ISA!ExecAmo
<1>a. IsAtomic(idex.instr)
  BY DEF IsAtomic
<1>1. /\ ISA!Alive /\ ISA!I = idex.instr /\ ISA!Complete(ISA!SeqNext)
      /\ exmem'.instr = idex.instr /\ ~(exmem'.valid /\ exmem'.mem_we)
      /\ ~exmem'.mem_re
      /\ ~amo_is("lr")' /\ ~amo_is("sc")' /\ amo_is("amo")'
      /\ mem_bytes' = abs_mem /\ exmem'.amo_addr = ISA!Reg(idex.instr.rs1)
      /\ exmem'.amo_b = ISA!Reg(idex.instr.rs2)
      /\ amo_old' = ISA!LoadValue(abs_mem, ISA!AlignWord(ISA!Reg(idex.instr.rs1)), 4, TRUE)
      /\ abs_regs' = ISA!SetReg(idex.instr.rd, pending_result')
  BY <1>a, AtomicIssued
<1>2. pending_result' = amo_old'
  BY <1>1 DEF pending_result
<1>3. abs_mem' = ISA!StoreValue(abs_mem, ISA!AlignWord(ISA!Reg(idex.instr.rs1)), 4,
                   AmoOp(idex.instr.fn, amo_old', ISA!Reg(idex.instr.rs2)))
  BY <1>1, SameWords, SameData DEF abs_mem
<1>4. abs_resv' = abs_resv
  BY <1>1, ResvNext DEF Executes, RInv, PInv, CInv, Tick
<1> QED
  BY <1>1, <1>2, <1>3, <1>4 DEF ISA!ExecAmo

LEMMA BranchSteps ==
    ASSUME NEW in \in InputType, Executes(in), ~ex_trap, idex.instr.op = "branch"
    PROVE  ISA!ExecBranch
<1>k. /\ ~IsStore(idex.instr) /\ ~IsMd(idex.instr) /\ ~IsAtomic(idex.instr)
      /\ ~WritesRd(idex.instr) /\ NeedsRs1(idex.instr) /\ UsesRs2(idex.instr)
  BY DEF IsAtomic, IsStore, IsMd, WritesRd, NeedsRs1, UsesRs2
<1>f. /\ ISA!Alive /\ ISA!I = idex.instr /\ abs_pc = idex.pc /\ ISA!SeqNext = seq_next
      /\ fwd_rs1 = ISA!Reg(idex.instr.rs1) /\ fwd_rs2 = ISA!Reg(idex.instr.rs2)
  BY <1>k, ExecFacts
<1>1. ISA!Complete(ex_next)
  BY Completes DEF Executes
<1>2. ex_next = IF BrTaken(idex.instr.fn, ISA!Reg(idex.instr.rs1), ISA!Reg(idex.instr.rs2))
                THEN ISA!Add(abs_pc, idex.instr.imm) ELSE ISA!SeqNext
  BY <1>f, SameWords DEF ex_next, br_actual_next, br_actual_taken, br_taken, br_target
<1>3. abs_regs' = abs_regs /\ abs_mem' = abs_mem /\ abs_resv' = abs_resv
  BY <1>k, Issued, NoAccessLeft DEF Executes
<1> QED
  BY <1>f, <1>1, <1>2, <1>3 DEF ISA!ExecBranch

LEMMA JumpSteps ==
    ASSUME NEW in \in InputType, Executes(in), ~ex_trap, idex.instr.op \in {"jal", "jalr"}
    PROVE  ISA!ExecJump
<1>k. /\ ~IsStore(idex.instr) /\ ~IsMd(idex.instr) /\ ~IsAtomic(idex.instr)
      /\ ~IsLoad(idex.instr) /\ WritesRd(idex.instr)
      /\ idex.instr.op = "jalr" => NeedsRs1(idex.instr)
  BY DEF IsAtomic, IsStore, IsMd, IsLoad, WritesRd, NeedsRs1
<1>f. /\ ISA!Alive /\ ISA!I = idex.instr /\ abs_pc = idex.pc /\ ISA!SeqNext = seq_next
      /\ idex.instr.op = "jalr" => fwd_rs1 = ISA!Reg(idex.instr.rs1)
  BY <1>k, ExecFacts
<1>1. ISA!Complete(ex_next)
  BY Completes DEF Executes
<1>2. PICK t : t = ISA!Add(ISA!Reg(idex.instr.rs1), idex.instr.imm)
  OBVIOUS
<1>3. ex_next = IF idex.instr.op = "jal" THEN ISA!Add(abs_pc, idex.instr.imm)
                ELSE t - (t % 2)
  <2>1. CASE idex.instr.op = "jal"
    BY <1>f, <2>1, SameWords DEF ex_next, br_actual_next, br_actual_taken, br_target
  <2>2. CASE idex.instr.op = "jalr"
    BY <1>f, <1>2, <2>2, SameWords DEF ex_next, jalr_target
  <2> QED
    BY <2>1, <2>2
<1>4. abs_regs' = ISA!SetReg(idex.instr.rd, ISA!SeqNext)
  <2>1. ex_result = seq_next
    BY <1>k DEF ex_result, IsMd
  <2>2. pending_result' = ex_result
    BY <1>k, PlainResult
  <2> QED
    BY <1>f, <1>k, <2>1, <2>2, Issued DEF Executes
<1>5. abs_mem' = abs_mem /\ abs_resv' = abs_resv
  BY <1>k, NoAccessLeft DEF Executes
<1> QED
  BY <1>f, <1>1, <1>2, <1>3, <1>4, <1>5 DEF ISA!ExecJump

(* A CSR access and MRET exclude interrupts, and neither predicts.         *)
LEMMA CsrSteps ==
    ASSUME NEW in \in InputType, Executes(in), ~ex_trap, idex.instr.op = "csr"
    PROVE  ISA!ExecCsr
<1>x. RInv /\ NothingRunsPastCapture /\ Tick(in) /\ IdKept(in) /\ Leaves
  BY DEF Executes
<1>k. /\ ~IsStore(idex.instr) /\ ~IsMd(idex.instr) /\ ~IsAtomic(idex.instr)
      /\ ~IsLoad(idex.instr) /\ WritesRd(idex.instr) /\ NeedsRs1(idex.instr)
  BY DEF IsAtomic, IsStore, IsMd, IsLoad, WritesRd, NeedsRs1
<1>f. /\ ISA!Alive /\ ISA!I = idex.instr /\ ISA!SeqNext = seq_next
      /\ fwd_rs1 = ISA!Reg(idex.instr.rs1)
  BY <1>k, ExecFacts
<1>g. idex.valid /\ ~dbg.mode /\ ex_commit /\ ~mem_beat_stall /\ idex.instr \in Instrs
  BY <1>x, LeavesFacts
<1>m. /\ abs_pc' = IF redirect(in) THEN redirect_target(in) ELSE PredictedNext(idex)
      /\ ISA!ModeAfter /\ abs_dcsr' = abs_dcsr /\ imem' = imem
  BY <1>x, LeavesControl
<1>n. /\ ~RedirectTrap /\ ~RedirectMret /\ ~RedirectJalr /\ ~RedirectBranch
      /\ ~take_irq(in) /\ ~redirect(in) /\ ~dbg_csr_we(in) /\ ex_retire
  BY <1>g DEF RedirectTrap, RedirectMret, RedirectJalr, RedirectBranch, take_irq,
              redirect, dbg_csr_we, dbg_do, ex_retire
<1>1. abs_pc' = ISA!SeqNext
  <2>1. PredictedNext(idex) = ex_next
    BY <1>x, <1>n, Predicted DEF Leaves
  <2> QED
    BY <1>f, <1>m, <1>n, <2>1 DEF ex_next
<1>2. ~CsrRoFault(idex.instr)
  BY <1>g DEF ex_trap, ex_cause, ArchTrap
<1>3. csr_we_eff <=> CsrWrites(idex.instr)
  BY <1>x, <1>g DEF csr_we_eff, Leaves
<1>c. csr \in CsrState /\ idex.instr.csr \in CsrNames /\ idex.instr.fn \in Funcs
  BY <1>x, <1>g DEF RInv, PInv, CInv, TypeOK, Instrs
<1>v. PICK v : v = CsrNewValue(idex.instr, csr_rdata, fwd_rs1)
  OBVIOUS
<1>w. v \in Word
  <2>1. csr_rdata \in Word
    BY <1>c, CsrReadType DEF csr_rdata
  <2>2. fwd_rs1 \in Word
    BY <1>x, OperandTypes DEF RInv, PInv, CInv
  <2> QED
    BY <1>g, <1>v, <2>1, <2>2, CsrNewValueType
<1>4. csr' = IF ~CsrWrites(idex.instr) THEN CountRetire(csr)
             ELSE IF idex.instr.csr = "minstret" THEN CsrWrite(csr, idex.instr.csr, v)
             ELSE CountRetire(CsrWrite(csr, idex.instr.csr, v))
  <2>1. CASE ~CsrWrites(idex.instr)
    BY <1>x, <1>n, <1>3, <2>1 DEF Tick, CsrUpdate
  <2>2. CASE CsrWrites(idex.instr) /\ idex.instr.csr = "minstret"
    BY <1>x, <1>n, <1>3, <1>v, <2>2 DEF Tick, CsrUpdate
  <2>3. CASE CsrWrites(idex.instr) /\ idex.instr.csr # "minstret"
    <3>1. csr' = CsrWrite(CountRetire(csr), idex.instr.csr, v)
      BY <1>x, <1>n, <1>3, <1>v, <2>3 DEF Tick, CsrUpdate
    <3> QED
      BY <1>c, <1>w, <2>3, <3>1, CountCommutes
  <2> QED
    BY <2>1, <2>2, <2>3
<1>5. /\ csr_rdata = ISA!CsrRead(csr, idex.instr.csr)
      /\ v = ISA!CsrNewValue(idex.instr, ISA!CsrRead(csr, idex.instr.csr),
                             ISA!Reg(idex.instr.rs1))
  BY <1>f, <1>v, SameCsrs DEF csr_rdata
<1>6. abs_regs' = ISA!SetReg(idex.instr.rd, csr_rdata)
  <2>1. ex_result = csr_rdata
    BY <1>k DEF ex_result, IsMd
  <2>2. pending_result' = ex_result
    BY <1>k, PlainResult
  <2> QED
    BY <1>k, <1>x, <2>1, <2>2, Issued
<1>7. abs_mem' = abs_mem /\ abs_resv' = abs_resv
  BY <1>k, <1>x, NoAccessLeft
<1>8. csr' = IF ~ISA!CsrWrites(idex.instr) THEN ISA!CountRetire(csr)
             ELSE IF idex.instr.csr = "minstret" THEN ISA!CsrWrite(csr, idex.instr.csr, v)
             ELSE ISA!CountRetire(ISA!CsrWrite(csr, idex.instr.csr, v))
  BY <1>4, SameCsrs, SameKinds
<1>9. ~ISA!CsrRoFault(idex.instr)
  BY <1>2, SameKinds
<1> QED
  BY <1>f, <1>m, <1>1, <1>5, <1>6, <1>7, <1>8, <1>9 DEF ISA!ExecCsr

LEMMA MretSteps ==
    ASSUME NEW in \in InputType, Executes(in), ~ex_trap, idex.instr.op = "mret"
    PROVE  ISA!ExecMret
<1>x. RInv /\ NothingRunsPastCapture /\ Tick(in) /\ IdKept(in) /\ Leaves
  BY DEF Executes
<1>k. /\ ~IsStore(idex.instr) /\ ~IsAtomic(idex.instr) /\ ~WritesRd(idex.instr)
      /\ ~CsrWrites(idex.instr)
  BY DEF IsAtomic, IsStore, WritesRd, CsrWrites
<1>f. ISA!Alive /\ ISA!I = idex.instr
  BY ExecFacts
<1>g. idex.valid /\ ~dbg.mode /\ ex_commit /\ ~mem_beat_stall
  BY <1>x, LeavesFacts
<1>m. /\ abs_pc' = IF redirect(in) THEN redirect_target(in) ELSE PredictedNext(idex)
      /\ ISA!ModeAfter /\ abs_dcsr' = abs_dcsr /\ imem' = imem
  BY <1>x, LeavesControl
<1>n. /\ ~RedirectTrap /\ RedirectMret /\ ~RedirectJalr /\ ~RedirectBranch
      /\ ~take_irq(in) /\ redirect(in) /\ ~dbg_csr_we(in) /\ ~csr_we_eff /\ ex_retire
  BY <1>x, <1>k, <1>g DEF Leaves, RedirectTrap, RedirectMret, RedirectJalr,
     RedirectBranch, take_irq, redirect, dbg_csr_we, dbg_do, csr_we_eff, ex_retire
<1>1. abs_pc' = csr.mepc
  BY <1>m, <1>n DEF redirect_target
<1>2. csr' = TrapReturn(CountRetire(csr))
  BY <1>x, <1>n DEF Tick, CsrUpdate
<1>3. csr \in CsrState
  BY <1>x DEF RInv, PInv, CInv, TypeOK
<1>4. csr' = ISA!CountRetire(ISA!TrapReturn(csr))
  BY <1>2, <1>3, CountReturn, SameCsrs
<1>5. abs_regs' = abs_regs /\ abs_mem' = abs_mem /\ abs_resv' = abs_resv
  BY <1>k, <1>x, Issued, NoAccessLeft
<1> QED
  BY <1>f, <1>m, <1>1, <1>4, <1>5 DEF ISA!ExecMret

LEMMA ExecSteps ==
    ASSUME NEW in \in InputType, Executes(in)
    PROVE  ISA!Next
<1>1. CASE ex_trap
  BY <1>1, TrapSteps DEF ISA!Next, ISA!Exec
<1>2. CASE ~ex_trap
  <2>1. idex.valid /\ idex.instr.op \in Ops /\ ~ebreak_to_debug /\ ~dbg.mode
    BY LeavesFacts DEF Executes, Instrs
  <2>2. idex.instr.op \notin {"illegal", "ecall", "ebreak"}
    BY <1>2, <2>1 DEF ex_trap, ex_cause, ArchTrap, ebreak_to_debug
  <2>3. \/ idex.instr.op \in {"alu", "alui", "lui", "auipc", "fence"}
        \/ IsMd(idex.instr) \/ IsLoad(idex.instr) \/ IsStore(idex.instr)
        \/ idex.instr.op \in {"lr", "sc", "amo", "branch", "jal", "jalr", "csr", "mret"}
    BY <2>1, <2>2 DEF Ops, IsMd, IsLoad, IsStore
  <2>4. ISA!Exec
    BY <1>2, <2>3, AluSteps, MulDivSteps, LoadSteps, StoreSteps, LrSteps, ScSteps,
       AmoSteps, BranchSteps, JumpSteps, CsrSteps, MretSteps DEF ISA!Exec
  <2> QED
    BY <2>4 DEF ISA!Next
<1> QED
  BY <1>1, <1>2

LEMMA Simulates ==
    ASSUME OneRequest, RInv, NothingRunsPastCapture, Calm
    PROVE  ISA!Next \/ UNCHANGED ISA!vars
<1>1. PICK in \in Inputs : Tick(in) /\ IdKept(in)
  BY DEF Calm
<1>2. in \in InputType
  BY EnvironmentAssumption
<1>3. CASE dbg.mode
  BY <1>1, <1>3, HaltedSteps
<1>4. CASE ~dbg.mode /\ EnterDebug
  BY <1>1, <1>2, <1>4, EnterSteps DEF ISA!Next
<1>5. CASE ~dbg.mode /\ ~EnterDebug /\ ~Leaves
  BY <1>1, <1>2, <1>5, HeldSteps DEF ISA!Next
<1>6. CASE Leaves
  BY <1>1, <1>2, <1>6, ExecSteps DEF Executes
<1> QED
  BY <1>3, <1>4, <1>5, <1>6

LEMMA RInvInit ==
    ASSUME NoHaltAtStart, Init
    PROVE  RInv
<1>1. CInv
  BY CInvInit
<1>2. PICK s \in InitStates : dbg = s.dbg
  BY DEF Init
<1>3. ~dbg.halt_req /\ ~dbg.cap_valid
  BY <1>2 DEF NoHaltAtStart
<1>4. ~ifid.valid /\ ~idex.valid /\ ~beat2 /\ ~straddle /\ ~md_inflight /\ ~md.done
  BY DEF Init, IfidBubble, IdexBubble, MdIdle
<1>5. DbgInv
  BY <1>3, <1>4 DEF DbgInv
<1> QED
  BY <1>1, <1>4, <1>5 DEF RInv, PInv, Latched, FirstBeat, PcChain, StraddleLong,
     PredConfigured, ZeroRead, MdOperands

LEMMA RInvStep ==
    ASSUME RInv, NoLostForward, [Calm]_vars
    PROVE  RInv'
<1>c. /\ CInv /\ Latched /\ FirstBeat /\ PcChain /\ StraddleLong /\ PredConfigured
      /\ DbgInv /\ ZeroRead /\ MdOperands
  BY DEF RInv, PInv
<1>1. CASE Calm
  <2>1. PICK in \in Inputs : Tick(in) /\ IdKept(in)
    BY <1>1 DEF Calm
  <2>2. in \in InputType
    BY EnvironmentAssumption
  <2>3. CInv'
    BY <1>c, <2>1, CInvStep DEF Next
  <2>4. Latched' /\ FirstBeat'
    BY <1>c, <2>1, <2>2, LatchedStep, FirstBeatStep
  <2>5. PcChain' /\ StraddleLong' /\ PredConfigured' /\ DbgInv'
    BY <1>c, <2>1, <2>2, PcChainStep, StraddleLongStep, PredConfiguredStep, DbgInvStep
  <2>6. ZeroRead' /\ MdOperands'
    BY <1>c, <2>1, <2>2, ZeroReadStep, MdOperandsStep DEF Tick
  <2> QED
    BY <2>3, <2>4, <2>5, <2>6 DEF RInv, PInv
<1>2. CASE UNCHANGED vars
  <2> USE <1>2 DEF vars, fetchVars
  <2>1. CInv'
    BY <1>c, CInvStep
  <2>2. Latched'
    BY <1>c DEF Latched, Held, InMem, InWb, rf_we
  <2>3. FirstBeat'
    BY <1>c DEF FirstBeat, mem_bytes
  <2>4. PcChain' /\ StraddleLong' /\ PredConfigured' /\ DbgInv' /\ ZeroRead'
    BY <1>c DEF PcChain, PredictedNext, StraddleLong, c_is_comp, PredConfigured,
                DbgInv, InstrAt, ZeroRead
  <2>5. abs_regs' = abs_regs
    BY DEF abs_regs, pending_result, amo_is, amo_here, sc_ok, amo_old, mem_bytes, rf_we
  <2>6. MdOperands'
    BY <1>c, <2>5 DEF MdOperands, ISA!Reg
  <2> QED
    BY <2>1, <2>2, <2>3, <2>4, <2>6 DEF RInv, PInv
<1> QED
  BY <1>1, <1>2

LEMMA Stutters == UNCHANGED vars => UNCHANGED ISA!vars
<1> SUFFICES ASSUME UNCHANGED vars PROVE UNCHANGED ISA!vars
  OBVIOUS
<1> USE DEF vars, fetchVars
<1>1. abs_pc' = abs_pc /\ abs_mode' = abs_mode /\ abs_dcsr' = abs_dcsr
  BY DEF abs_pc, abs_mode, abs_dcsr
<1>2. mem_bytes' = mem_bytes /\ amo_old' = amo_old
  BY DEF mem_bytes, amo_old
<1>3. pending_result' = pending_result
  BY <1>2 DEF pending_result, amo_is, amo_here, sc_ok
<1>4. abs_regs' = abs_regs
  BY <1>3 DEF abs_regs, rf_we
<1>5. abs_mem' = abs_mem
  BY <1>2 DEF abs_mem, amo_is, amo_here, sc_ok
<1>6. abs_resv' = abs_resv
  BY DEF abs_resv, amo_is, amo_here
<1> QED
  BY <1>1, <1>4, <1>5, <1>6 DEF ISA!vars

LEMMA InitSimulates ==
    ASSUME NoHaltAtStart, Init
    PROVE  ISA!Init
<1>t. TypeOK
  BY TypeInit
<1>p. /\ ~ifid.valid /\ ~idex.valid /\ ~exmem.valid /\ ~memwb.valid
      /\ resv = [valid |-> FALSE, addr |-> 0]
  BY DEF Init, IfidBubble, IdexBubble, ExmemBubble, MemwbBubble
<1>1. PICK s \in InitStates : dbg = s.dbg
  BY DEF Init
<1>2. ~dbg.halt_req /\ ~dbg.cap_valid
  BY <1>1 DEF NoHaltAtStart
<1>3. abs_pc \in Word
  BY <1>t, <1>p, <1>2 DEF abs_pc, TypeOK, DbgType
<1>4. abs_regs \in [Regs \ {0} -> Word]
  BY <1>t, <1>p DEF abs_regs, rf_we, TypeOK
<1>5. abs_mem \in [Word -> Byte]
  <2>1. abs_mem = mem_bytes
    BY <1>p DEF abs_mem, amo_is, amo_here
  <2>2. ASSUME NEW x \in Word PROVE ByteOf(mem[x \div 4], x % 4) \in Byte
    BY <1>t, AddressFacts, ByteOfType DEF TypeOK
  <2> QED
    BY <2>1, <2>2 DEF mem_bytes
<1>6. abs_resv \in [valid : BOOLEAN, addr : Word]
  BY <1>p, SmallWords DEF abs_resv, amo_is, amo_here
<1>7. csr \in CsrState
  BY <1>t DEF TypeOK
<1>8. abs_mode \in ISA!Modes /\ abs_mode # "halting"
  BY <1>2 DEF abs_mode, ISA!Modes
<1>9. abs_dcsr \in [ebreakm : BOOLEAN, step : BOOLEAN, dscratch0 : Word]
  BY <1>t DEF abs_dcsr, TypeOK, DbgType
<1>10. ISA!TypeOK
  BY <1>3, <1>4, <1>5, <1>6, <1>7, <1>8, <1>9, SameWords DEF ISA!TypeOK
<1>11. imem \in [{p \in ISA!Word : p % 2 = 0} -> ISA!Instrs]
  BY <1>t, SameWords DEF TypeOK, Evens
<1> QED
  BY <1>8, <1>10, <1>11 DEF ISA!Init

(* The pipeline implements the sequential machine: in every execution in   *)
(* which no forward is lost under a first beat, no halt request drops the  *)
(* instruction in ID and nothing runs past an EBREAK into debug mode,      *)
(* every clock edge is one whole instruction, one debugger operation or    *)
(* nothing at all.  So those three, each shown by a run of its own, are    *)
(* the only ways in which the pipeline departs from program order.         *)
THEOREM PipelineImplementsISA ==
    ASSUME OneRequest, NoHaltAtStart
    PROVE  Spec /\ []NoLostForward /\ []NothingRunsPastCapture /\ [][Calm]_vars
             => ImplementsISA
<1>1. Init => RInv
  BY RInvInit
<1>2. RInv /\ NoLostForward /\ [Calm]_vars => RInv'
  BY RInvStep
<1>3. Init => ISA!Init
  BY InitSimulates
<1>4. RInv /\ NothingRunsPastCapture /\ [Calm]_vars => [ISA!Next]_ISA!vars
  BY Simulates, Stutters
<1> QED
  BY <1>1, <1>2, <1>3, <1>4, PTL DEF Spec, ImplementsISA, ISA!Spec

---------------------------------------------------------------------------
(* Without a debugger.                                                     *)

(* No debugger is attached: no halt or resume request ever comes, and the  *)
(* core starts outside debug mode with EBREAK trapping to software.        *)
NoDebugger ==
    /\ \A in \in Inputs : ~in.haltreq /\ ~in.resumereq
    /\ \A s \in InitStates :
         /\ ~s.dbg.mode /\ ~s.dbg.halt_req /\ ~s.dbg.cap_valid
         /\ ~s.dbg.ebreakm /\ ~s.dbg.step_active

DebugIdle == /\ ~dbg.mode /\ ~dbg.halt_req /\ ~dbg.cap_valid
             /\ ~dbg.ebreakm /\ ~dbg.step_active

LEMMA IdleStep ==
    ASSUME NoDebugger, DebugIdle, [Next]_vars
    PROVE  DebugIdle' /\ [Calm]_vars
<1>1. CASE Next
  <2>1. PICK in \in Inputs : Tick(in)
    BY <1>1 DEF Next
  <2>2. ~in.haltreq /\ ~in.resumereq
    BY DEF NoDebugger
  <2>3. ~to_debug_now /\ ~step_halt_now /\ ~ebreak_to_debug /\ ~EnterDebug
    BY DEF DebugIdle, to_debug_now, ebreak_to_debug, step_halt_now, EnterDebug
  <2>4. ~dbg_freeze(in)
    BY <2>2, <2>3 DEF dbg_freeze, DebugIdle
  <2>5. ~dbg_local_we(in, "dcsr") /\ ~dbg_resume_now(in)
    BY DEF DebugIdle, dbg_local_we, dbg_do, dbg_resume_now
  <2>6. DebugIdle'
    BY <2>1, <2>2, <2>3, <2>5 DEF DebugIdle, Tick, DebugControl
  <2> QED
    BY <2>1, <2>4, <2>6 DEF Calm, IdKept
<1>2. CASE UNCHANGED vars
  BY <1>2 DEF vars, DebugIdle
<1> QED
  BY <1>1, <1>2

LEMMA UndebuggedQuiet ==
    ASSUME NoDebugger
    PROVE  Spec => []NothingRunsPastCapture /\ [][Calm]_vars
<1>1. Init => DebugIdle
  BY DEF Init, DebugIdle, NoDebugger
<1>2. DebugIdle /\ [Next]_vars => DebugIdle' /\ [Calm]_vars
  BY IdleStep
<1>3. DebugIdle => NothingRunsPastCapture
  BY DEF DebugIdle, NothingRunsPastCapture
<1> QED
  BY <1>1, <1>2, <1>3, PTL DEF Spec

(* Without a debugger the lost forward is the only departure: a program    *)
(* for which none occurs runs on the pipeline, interrupts, traps and       *)
(* mispredictions included, as it does one instruction at a time.          *)
THEOREM UndebuggedImplementsISA ==
    ASSUME NoDebugger
    PROVE  Spec /\ []NoLostForward => ImplementsISA
<1>1. OneRequest /\ NoHaltAtStart
  BY DEF NoDebugger, OneRequest, NoHaltAtStart
<1>2. Spec => []NothingRunsPastCapture /\ [][Calm]_vars
  BY UndebuggedQuiet
<1>3. Spec /\ []NoLostForward /\ []NothingRunsPastCapture /\ [][Calm]_vars
        => ImplementsISA
  BY <1>1, PipelineImplementsISA
<1> QED
  BY <1>2, <1>3, PTL

---------------------------------------------------------------------------
(* A condition on the program alone.                                       *)

(* Every program to be run is scheduled.                                   *)
AllScheduled == \A f \in Programs : Scheduled(f)

(* A load or atomic in MEM writes its register, and nothing does that the  *)
(* decoder does not say.                                                   *)
ExmemWrites ==
    exmem.valid => /\ exmem.mem_re \/ exmem.is_amo => exmem.reg_we
                   /\ exmem.reg_we => WritesRd(exmem.instr)

(* The instruction at p was fetched right before the one at q.             *)
Before(p, q) == q = Add(p, InstrAt(p).len) \/ IsControl(InstrAt(p))

(* The instruction in MEM comes from some q, the one in EX was fetched     *)
(* right behind it and the writer in WB right before it.                   *)
InARow ==
    exmem.valid =>
        \E q \in Word :
            /\ exmem.instr = InstrAt(q)
            /\ idex.valid => Before(q, idex.pc)
            /\ rf_we => \E p \in Word : /\ memwb.rd = InstrAt(p).rd
                                        /\ WritesRd(InstrAt(p)) /\ Before(p, q)

SInv == RInv /\ Scheduled(imem) /\ ExmemWrites /\ InARow

LEMMA ScheduledForwards == SInv => NoLostForward
<1> SUFFICES ASSUME SInv, mem_beat_stall, idex.valid, ~IsMd(idex.instr),
                    NEW r \in Sources, InWb(r)
             PROVE  InMem(r)
  BY DEF NoLostForward
<1>c. CInv /\ Scheduled(imem) /\ ExmemWrites /\ InARow
  BY DEF SInv, RInv, PInv
<1>1. exmem.valid /\ TwoBeat(exmem.instr)
  <2>1. CASE mem_mis
    <3>1. exmem.valid /\ (IsLoad(exmem.instr) \/ IsStore(exmem.instr))
      BY <1>c, <2>1 DEF mem_mis, CInv, ExmemKind
    <3>2. exmem.instr.width > 1
      BY <2>1 DEF mem_mis
    <3> QED
      BY <3>1, <3>2 DEF TwoBeat
  <2>2. CASE amo_rmw_b1
    BY <2>2 DEF amo_rmw_b1, amo_is, amo_here, TwoBeat
  <2> QED
    BY <2>1, <2>2 DEF mem_beat_stall
<1>2. rf_we /\ memwb.rd = r
  BY DEF InWb
<1>3. PICK q \in Word, p \in Word :
         /\ exmem.instr = InstrAt(q) /\ Before(q, idex.pc)
         /\ memwb.rd = InstrAt(p).rd /\ WritesRd(InstrAt(p)) /\ Before(p, q)
  BY <1>c, <1>1, <1>2 DEF InARow
<1>4. ~IsControl(InstrAt(q))
  BY <1>1, <1>3 DEF TwoBeat, IsControl, IsLoad, IsStore
<1>5. idex.pc = Add(q, InstrAt(q).len)
  BY <1>3, <1>4 DEF Before
<1>6. ~LosesForward(InstrAt(p), InstrAt(q), InstrAt(idex.pc))
  <2>1. q \in FetchedBehind(imem, p)
    BY <1>3 DEF Before, FetchedBehind, InstrAt
  <2>2. idex.pc \in FetchedBehind(imem, q)
    BY <1>4, <1>5 DEF FetchedBehind, InstrAt
  <2> QED
    BY <1>c, <2>1, <2>2 DEF Scheduled, InstrAt
<1>7. InstrAt(p).rd # 0 /\ InstrAt(p).rd \in Reads(InstrAt(idex.pc))
  <2>1. idex.instr = InstrAt(idex.pc)
    BY <1>c DEF CInv, FetchInv, FetchMatchesProgram
  <2> QED
    BY <1>2, <1>3, <2>1 DEF Sources, Reads
<1>8. ~IsMd(InstrAt(idex.pc))
  BY <1>c DEF CInv, FetchInv, FetchMatchesProgram
<1>9. WritesRd(exmem.instr) /\ exmem.instr.rd = r
  BY <1>1, <1>2, <1>3, <1>6, <1>7, <1>8 DEF LosesForward
<1>10. exmem.mem_re \/ exmem.is_amo
  <2>1. ~IsStore(exmem.instr)
    BY <1>9 DEF WritesRd, IsStore, IsAtomic
  <2> QED
    BY <1>c, <1>1, <2>1 DEF mem_beat_stall, mem_mis, amo_rmw_b1, amo_is, amo_here,
                           CInv, ExmemKind
<1> QED
  BY <1>c, <1>1, <1>9, <1>10 DEF ExmemWrites, InMem

LEMMA InARowStep ==
    ASSUME RInv, ExmemWrites, InARow, NEW in \in InputType, Tick(in)
    PROVE  ExmemWrites' /\ InARow'
<1>c. CInv /\ PcChain /\ DbgInv
  BY DEF RInv, PInv
<1>k. Fetch(in) /\ IdEx(in) /\ ExMem /\ MemWb /\ imem' = imem
  BY DEF Tick
<1>1. CASE mem_beat_stall
  <2>1. exmem' = exmem /\ idex' = idex /\ ~rf_we'
    BY <1>1, <1>k DEF ExMem, IdEx, MemWb, ex_freeze, MemwbBubble, rf_we
  <2> QED
    BY <1>k, <2>1 DEF ExmemWrites, InARow, Before, InstrAt
<1>2. CASE ~mem_beat_stall /\ ~ex_commit
  BY <1>2, <1>k DEF ExMem, ExmemBubble, ExmemWrites, InARow
<1>3. CASE ~mem_beat_stall /\ ex_commit
  <2>1. /\ exmem'.valid /\ exmem'.instr = idex.instr
        /\ exmem'.reg_we = (WritesRd(idex.instr) /\ ~ex_trap)
        /\ exmem'.mem_re = (IsLoad(idex.instr) /\ ~ex_trap)
        /\ exmem'.is_amo = (IsAtomic(idex.instr) /\ ~ex_trap)
    BY <1>3, <1>k DEF ExMem
  <2>2. ExmemWrites'
    BY <2>1 DEF ExmemWrites, WritesRd, IsLoad
  <2>3. idex.valid /\ ~ex_freeze /\ idex.instr = InstrAt(idex.pc) /\ idex.pc \in Word
    BY <1>3, <1>c DEF ex_commit, ex_freeze, CInv, FetchInv, FetchMatchesProgram, TypeOK,
                     IdexType
  <2>4. ASSUME idex'.valid PROVE Before(idex.pc, idex'.pc)
    <3>1. ifid.valid /\ idex'.pc = ifid.pc
      BY <1>k, <2>3, <2>4, IdExCases
    <3>2. ~dbg.cap_valid
      BY <1>c, <3>1 DEF DbgInv
    <3>3. ifid.pc = PredictedNext(idex)
      BY <1>c, <2>3, <3>1, <3>2 DEF PcChain
    <3>4. idex.pred_taken => IsControl(idex.instr)
      BY <1>c, <2>3 DEF CInv, FetchInv, PredictionSound
    <3> QED
      BY <2>3, <3>1, <3>3, <3>4 DEF Before, PredictedNext
  <2>5. ASSUME rf_we'
        PROVE  \E p \in Word : /\ memwb'.rd = InstrAt(p).rd
                               /\ WritesRd(InstrAt(p)) /\ Before(p, idex.pc)
    <3>1. exmem.valid /\ exmem.reg_we /\ memwb'.rd = exmem.instr.rd
      BY <1>3, <1>k, <2>5 DEF MemWb, rf_we, MemwbBubble
    <3>2. PICK q \in Word : exmem.instr = InstrAt(q) /\ Before(q, idex.pc)
      BY <2>3, <3>1 DEF InARow
    <3> QED
      BY <3>1, <3>2 DEF ExmemWrites
  <2>7. InARow'
    BY <1>k, <2>1, <2>3, <2>4, <2>5 DEF InARow, Before, InstrAt
  <2> QED
    BY <2>2, <2>7
<1> QED
  BY <1>1, <1>2, <1>3

LEMMA SInvInit ==
    ASSUME NoHaltAtStart, AllScheduled, Init
    PROVE  SInv
<1>1. RInv
  BY RInvInit
<1>2. Scheduled(imem)
  BY DEF Init, AllScheduled
<1>3. ExmemWrites /\ InARow
  BY DEF Init, ExmemBubble, ExmemWrites, InARow
<1> QED
  BY <1>1, <1>2, <1>3 DEF SInv

LEMMA SInvStep == SInv /\ [Calm]_vars => SInv'
<1> SUFFICES ASSUME SInv, [Calm]_vars PROVE SInv'
  OBVIOUS
<1>c. RInv /\ Scheduled(imem) /\ ExmemWrites /\ InARow
  BY DEF SInv
<1>1. RInv'
  BY <1>c, ScheduledForwards, RInvStep
<1>2. imem' = imem
  BY DEF Calm, Tick, vars
<1>3. Scheduled(imem)'
  BY <1>c, <1>2 DEF Scheduled, FetchedBehind
<1>4. ExmemWrites' /\ InARow'
  <2>1. CASE Calm
    <3>1. PICK in \in Inputs : Tick(in)
      BY <2>1 DEF Calm
    <3> QED
      BY <1>c, <3>1, InARowStep, EnvironmentAssumption
  <2>2. CASE UNCHANGED vars
    BY <1>c, <2>2 DEF vars, fetchVars, ExmemWrites, InARow, Before, InstrAt, rf_we
  <2> QED
    BY <2>1, <2>2
<1> QED
  BY <1>1, <1>3, <1>4 DEF SInv

(* A program in which no access of two beats stands between a result and   *)
(* its reader never loses a forward, wherever the predictor sends fetch:   *)
(* under a debugger the pipeline departs from program order only by a halt *)
(* request on a stall and by an EBREAK into debug mode.                    *)
THEOREM ScheduledImplementsISA ==
    ASSUME OneRequest, NoHaltAtStart, AllScheduled
    PROVE  Spec /\ []NothingRunsPastCapture /\ [][Calm]_vars
             => ImplementsISA /\ []OperandsCurrent
<1>1. Init => SInv
  BY SInvInit
<1>2. SInv /\ [Calm]_vars => SInv'
  BY SInvStep
<1>3. SInv => NoLostForward
  BY ScheduledForwards
<1>4. Spec /\ [][Calm]_vars => []NoLostForward
  BY <1>1, <1>2, <1>3, PTL DEF Spec
<1>5. Spec /\ []NoLostForward /\ []NothingRunsPastCapture /\ [][Calm]_vars
        => ImplementsISA
  BY PipelineImplementsISA
<1>6. Spec /\ []NoLostForward => []OperandsCurrent
  BY OperandsForwarded
<1> QED
  BY <1>4, <1>5, <1>6, PTL

(* With no debugger attached, every such program runs on the pipeline as   *)
(* it does one instruction at a time, under every sequence of interrupts   *)
(* and predictions: nothing is assumed of the execution.                   *)
THEOREM ScheduledUndebugged ==
    ASSUME NoDebugger, AllScheduled
    PROVE  Spec => ImplementsISA /\ []OperandsCurrent
<1>1. OneRequest /\ NoHaltAtStart
  BY DEF NoDebugger, OneRequest, NoHaltAtStart
<1>2. Spec => []NothingRunsPastCapture /\ [][Calm]_vars
  BY UndebuggedQuiet
<1>3. Spec /\ []NothingRunsPastCapture /\ [][Calm]_vars
        => ImplementsISA /\ []OperandsCurrent
  BY <1>1, ScheduledImplementsISA
<1> QED
  BY <1>2, <1>3, PTL

=============================================================================
