---------------------------- MODULE GandivaCore ----------------------------
(***************************************************************************)
(* The five-stage in-order pipeline of rtl/gandiva_core.sv, clock edge by  *)
(* clock edge, in its default configuration (SECURE = 0, triggers unarmed).*)
(*                                                                         *)
(* A combinational wire of the RTL is a state function of the same name; a *)
(* wire that depends on an input of the core takes the input record `in'.  *)
(* A clocked block is an action that gives the next value of its own       *)
(* registers; one clock edge, Tick(in), is their conjunction.              *)
(*                                                                         *)
(* A pipeline register whose valid bit is clear holds its Bubble value:    *)
(* the RTL leaves the other fields as they were and reads none of them.    *)
(***************************************************************************)
EXTENDS GandivaArch

CONSTANTS
    Programs,     \* instruction memories to run: functions from Evens
    InitStates,   \* architectural states to start from
    Inputs,       \* what the pins of the core may show at a clock edge
    NBTB,         \* BTB entries (2^BTB_BITS)
    BPRED,        \* branch prediction configured
    DIV_CYCLES    \* clock edges an ordinary division takes (33)

Evens == {p \in Word : p % 2 = 0}
LinkRegs == {1, 5}
NoTarget == -1   \* empty return-address stack
NoAccess == [valid |-> FALSE, write |-> FALSE, csr |-> FALSE,
             gpr |-> 0, name |-> "dpc", wdata |-> 0]

ASSUME CoreAssumption ==
    /\ Programs \subseteq [Evens -> Instrs]
    /\ NBTB \in Nat \ {0}
    /\ DIV_CYCLES \in Nat \ {0}
    /\ BPRED \in BOOLEAN

VARIABLES
    imem,      \* instruction memory (never written by the core)
    mem,       \* data memory, word by word
    regs,      \* register file
    csr,       \* gandiva_csr
    pc, straddle, strad_lo,
    ifid, idex, exmem, memwb,
    md,        \* gandiva_muldiv
    md_inflight,
    beat2, ld_w0,
    resv,
    btb,
    dbg        \* debug controller

fetchVars == <<pc, straddle, strad_lo, ifid>>
vars == <<imem, mem, regs, csr, fetchVars, idex, exmem, memwb, md,
          md_inflight, beat2, ld_w0, resv, btb, dbg>>

---------------------------------------------------------------------------
(* Pipeline registers.                                                     *)

IfidType == [valid : BOOLEAN, pc : Word, instr : Instrs,
             pred_taken : BOOLEAN, pred_target : Word]
IfidBubble == [valid |-> FALSE, pc |-> 0, instr |-> IllegalInstr,
               pred_taken |-> FALSE, pred_target |-> 0]

IdexType == [valid : BOOLEAN, pc : Word, instr : Instrs,
             pred_taken : BOOLEAN, pred_target : Word,
             rdata1 : Word, rdata2 : Word]
IdexBubble == [valid |-> FALSE, pc |-> 0, instr |-> IllegalInstr,
               pred_taken |-> FALSE, pred_target |-> 0,
               rdata1 |-> 0, rdata2 |-> 0]

ExmemType == [valid : BOOLEAN, instr : Instrs, result : Word,
              store_data : Word, amo_addr : Word, amo_b : Word,
              reg_we : BOOLEAN, mem_re : BOOLEAN, mem_we : BOOLEAN,
              is_amo : BOOLEAN]
ExmemBubble == [valid |-> FALSE, instr |-> IllegalInstr, result |-> 0,
                store_data |-> 0, amo_addr |-> 0, amo_b |-> 0,
                reg_we |-> FALSE, mem_re |-> FALSE, mem_we |-> FALSE,
                is_amo |-> FALSE]

MemwbType == [valid : BOOLEAN, rd : Regs, result : Word, reg_we : BOOLEAN]
MemwbBubble == [valid |-> FALSE, rd |-> 0, result |-> 0, reg_we |-> FALSE]

MdType == [left : 0 .. DIV_CYCLES, fn : Funcs, a : Word, b : Word,
           done : BOOLEAN, result : Word]
MdIdle == [left |-> 0, fn |-> "mul", a |-> 0, b |-> 0, done |-> FALSE,
           result |-> 0]

BtbType == [valid : BOOLEAN, tag : Nat, tgt : Word, isjal : BOOLEAN]
BtbEmpty == [valid |-> FALSE, tag |-> 0, tgt |-> 0, isjal |-> FALSE]

DbgType == [mode : BOOLEAN, halt_req : BOOLEAN, step_active : BOOLEAN,
            dpc : Word, cause : {"none", "ebreak", "haltreq", "step"},
            cap_valid : BOOLEAN, dpc_cap : Word, ebreakm : BOOLEAN,
            step : BOOLEAN, dscratch0 : Word, ar_busy : BOOLEAN,
            ar_done : BOOLEAN]

(* Word addresses of the data memory.                                      *)
MemWords == 0 .. ((XMOD \div 4) - 1)

InputType == [irq : BOOLEAN, haltreq : BOOLEAN, resumereq : BOOLEAN,
              bht_taken : BOOLEAN, ras_top : Word \union {NoTarget},
              ar : [valid : BOOLEAN, write : BOOLEAN, csr : BOOLEAN,
                    gpr : Regs, name : CsrNames \union DebugCsrNames,
                    wdata : Word]]

StartType == [pc : Word, regs : [Regs \ {0} -> Word], mem : [MemWords -> Word],
              csr : CsrState, dbg : DbgType]

ASSUME EnvironmentAssumption ==
    /\ Inputs \subseteq InputType
    /\ InitStates \subseteq StartType

---------------------------------------------------------------------------
(* IF: fetch, and the prediction looked up with it.                        *)

InstrAt(p) == imem[p - (p % 2)]
OddHalf(p) == (p \div 2) % 2 = 1

c_is_comp == InstrAt(pc).len = 2
need_straddle == ~c_is_comp /\ OddHalf(pc) /\ ~straddle

(* The second beat joins the upper half fetched now to the lower half      *)
(* captured from address strad_lo; halves of different instructions make   *)
(* up no instruction of the program.                                       *)
fetched_instr ==
    IF straddle /\ strad_lo # pc - (pc % 2) THEN IllegalInstr ELSE InstrAt(pc)
fetched_len == IF straddle \/ ~c_is_comp THEN 4 ELSE 2

BtbIdx(p) == (p \div 2) % NBTB
BtbTag(p) == (p \div 2) \div NBTB

(* Seeded fault: the tag is not compared.                                  *)
btb_hit_NoTag == BPRED /\ btb[BtbIdx(pc)].valid

btb_hit == /\ BPRED
           /\ btb[BtbIdx(pc)].valid
           /\ btb[BtbIdx(pc)].tag = BtbTag(pc)

(* The BHT's direction and the RAS's top entry are inputs here: EX checks  *)
(* every prediction, so any direction and any return address are allowed.  *)
predict_taken(in) == btb_hit /\ (btb[BtbIdx(pc)].isjal \/ in.bht_taken)

f_is_ret == /\ BPRED
            /\ fetched_instr.op = "jalr"
            /\ fetched_instr.rs1 \in LinkRegs
            /\ fetched_instr.rd \notin LinkRegs

ras_predict(in) == f_is_ret /\ in.ras_top # NoTarget

predict_taken_f(in) == ras_predict(in) \/ predict_taken(in)
predict_target_f(in) == IF ras_predict(in) THEN in.ras_top
                        ELSE btb[BtbIdx(pc)].tgt

---------------------------------------------------------------------------
(* ID: register read and the load-use interlock.                           *)

rf_we == memwb.valid /\ memwb.reg_we

RegRead(r) == IF r = 0 THEN 0
              ELSE IF rf_we /\ memwb.rd = r THEN memwb.result
              ELSE regs[r]

(* Seeded fault: atomics, whose value also comes from MEM, are forgotten.  *)
load_use_stall_LoadsOnly ==
    /\ idex.valid /\ IsLoad(idex.instr) /\ idex.instr.rd # 0
    /\ ifid.valid
    /\ \/ idex.instr.rd = ifid.instr.rs1 /\ NeedsRs1(ifid.instr)
       \/ idex.instr.rd = ifid.instr.rs2 /\ UsesRs2(ifid.instr)

load_use_stall ==
    /\ idex.valid /\ (IsLoad(idex.instr) \/ IsAtomic(idex.instr))
    /\ idex.instr.rd # 0
    /\ ifid.valid
    /\ \/ idex.instr.rd = ifid.instr.rs1 /\ NeedsRs1(ifid.instr)
       \/ idex.instr.rd = ifid.instr.rs2 /\ UsesRs2(ifid.instr)

---------------------------------------------------------------------------
(* MEM: one word per clock edge.  An access that crosses a word boundary   *)
(* and an AMO<op> take a second beat.                                      *)

exmem_addr_lo == exmem.result % 4

mem_mis == /\ exmem.valid /\ (exmem.mem_re \/ exmem.mem_we)
           /\ \/ exmem.instr.width = 4 /\ exmem_addr_lo # 0
              \/ exmem.instr.width = 2 /\ exmem_addr_lo = 3

amo_here   == exmem.valid /\ exmem.is_amo
amo_is(op) == amo_here /\ exmem.instr.op = op
amo_rmw_b1 == amo_is("amo") /\ ~beat2
amo_rmw_b2 == amo_is("amo") /\ beat2
sc_ok == resv.valid /\ resv.addr = AlignWord(exmem.amo_addr)

mem_beat_stall == (mem_mis /\ ~beat2) \/ amo_rmw_b1

dmem_word == IF amo_here THEN exmem.amo_addr \div 4
             ELSE ((exmem.result \div 4) + (IF beat2 THEN 1 ELSE 0))
                  % (XMOD \div 4)
dmem_rdata == mem[dmem_word]
(* Seeded fault: an AMO writes on its load beat already.                   *)
dmem_we_EarlyAmo == \/ exmem.valid /\ exmem.mem_we
                    \/ amo_is("sc") /\ sc_ok
                    \/ amo_is("amo")

dmem_we == \/ exmem.valid /\ exmem.mem_we
           \/ amo_is("sc") /\ sc_ok
           \/ amo_rmw_b2

(* Lane k of this beat is byte 4*beat + k - offset of the store.           *)
StoreLane(k) == (IF beat2 THEN 4 ELSE 0) + k - exmem_addr_lo
dmem_be(k) == amo_here \/ StoreLane(k) \in 0 .. (exmem.instr.width - 1)
dmem_wbyte(k) ==
    IF amo_rmw_b2 THEN ByteOf(AmoOp(exmem.instr.fn, ld_w0, exmem.amo_b), k)
    ELSE IF amo_here THEN ByteOf(exmem.amo_b, k)
    ELSE ByteOf(exmem.store_data, StoreLane(k))

(* Load assembly: the two captured words, shifted by the byte offset.      *)
LoadLane(k) ==
    LET lane == k + exmem_addr_lo
    IN IF lane < 4 THEN ByteOf(IF beat2 THEN ld_w0 ELSE dmem_rdata, lane)
       ELSE IF beat2 THEN ByteOf(dmem_rdata, lane - 4) ELSE 0

load_data == Extend([k \in 0 .. 3 |-> LoadLane(k)], exmem.instr.width,
                    exmem.instr.uns)

amo_wb == CASE exmem.instr.op = "lr" -> dmem_rdata
            [] exmem.instr.op = "sc" -> IF sc_ok THEN 0 ELSE 1
            [] OTHER                 -> ld_w0

mem_result == IF amo_here THEN amo_wb
              ELSE IF exmem.mem_re THEN load_data
              ELSE exmem.result

---------------------------------------------------------------------------
(* EX: operands, stalls, debug entry, traps and redirects.                 *)

(* Seeded fault: the older result wins.                                    *)
ForwardedOldest(r, rdata) ==
    IF memwb.valid /\ memwb.reg_we /\ memwb.rd # 0 /\ memwb.rd = r
    THEN memwb.result
    ELSE IF exmem.valid /\ exmem.reg_we /\ exmem.instr.rd # 0 /\ exmem.instr.rd = r
    THEN exmem.result
    ELSE rdata

Forwarded(r, rdata) ==
    IF exmem.valid /\ exmem.reg_we /\ exmem.instr.rd # 0 /\ exmem.instr.rd = r
    THEN exmem.result
    ELSE IF memwb.valid /\ memwb.reg_we /\ memwb.rd # 0 /\ memwb.rd = r
    THEN memwb.result
    ELSE rdata

fwd_rs1 == Forwarded(idex.instr.rs1, idex.rdata1)
fwd_rs2 == Forwarded(idex.instr.rs2, idex.rdata2)
alu_y   == AluResult(idex.instr, idex.pc, fwd_rs1, fwd_rs2)

md_busy  == md.left > 0
(* Seeded fault: the unit starts again in the cycle of its result.         *)
md_start_Again == idex.valid /\ IsMd(idex.instr) /\ ~md_busy

md_start == idex.valid /\ IsMd(idex.instr) /\ ~md_inflight /\ ~md_busy
md_stall == idex.valid /\ IsMd(idex.instr) /\ ~md.done

fe_stall  == load_use_stall \/ md_stall \/ mem_beat_stall
ex_freeze == md_stall \/ mem_beat_stall

ebreak_to_debug == /\ idex.valid /\ idex.instr.op = "ebreak"
                   /\ dbg.ebreakm /\ ~dbg.mode
to_debug_now == ebreak_to_debug
step_halt_now == dbg.step_active /\ ifid.valid /\ ~dbg.mode
(* Seeded fault: a halt request is a pulse.                                *)
dbg_freeze_Pulse(in) == \/ dbg.mode \/ in.haltreq
                        \/ to_debug_now \/ step_halt_now

dbg_freeze(in) == \/ dbg.mode \/ dbg.halt_req \/ in.haltreq
                  \/ to_debug_now \/ step_halt_now
dbg_resume_now(in) == dbg.mode /\ in.resumereq
pipe_drained == ~ifid.valid /\ ~idex.valid /\ ~exmem.valid /\ ~memwb.valid

ex_cause == ArchTrap(idex.instr, dbg.ebreakm)
ex_trap  == idex.valid /\ ex_cause # "none"

irq_req(in) == csr.MIE /\ csr.ie /\ in.irq
(* Seeded fault: an interrupt is taken on any instruction, with the        *)
(* sequential PC as mepc.                                                  *)
take_irq_Any(in) == /\ idex.valid /\ ~ex_freeze /\ irq_req(in) /\ ~ex_trap
                    /\ ~dbg_freeze(in)

take_irq(in) == /\ idex.valid /\ ~ex_freeze /\ irq_req(in) /\ ~ex_trap
                /\ ~dbg_freeze(in)
                /\ ~IsControl(idex.instr) /\ idex.instr.op \notin {"csr", "mret"}

seq_next    == Add(idex.pc, idex.instr.len)
br_target   == Add(idex.pc, idex.instr.imm)
jalr_target == LET t == Add(fwd_rs1, idex.instr.imm) IN t - (t % 2)
br_taken    == /\ idex.instr.op = "branch"
               /\ BrTaken(idex.instr.fn, fwd_rs1, fwd_rs2)
br_actual_taken == idex.instr.op = "jal" \/ br_taken
br_actual_next  == IF br_actual_taken THEN br_target ELSE seq_next
pred_next       == IF idex.pred_taken THEN idex.pred_target ELSE seq_next

(* Without a predictor IF went on at seq_next, and any taken transfer      *)
(* flushes.                                                                *)
Mispredicted(next, taken) == IF BPRED THEN next # pred_next ELSE taken

ex_active == idex.valid /\ ~ex_freeze

RedirectTrap == ex_active /\ ex_trap
RedirectMret == ex_active /\ idex.instr.op = "mret"
RedirectJalr == /\ ex_active /\ idex.instr.op = "jalr"
                /\ Mispredicted(jalr_target, TRUE)
RedirectBranch == /\ ex_active /\ idex.instr.op \in {"jal", "branch"}
                  /\ Mispredicted(br_actual_next, br_actual_taken)

redirect(in) == \/ RedirectTrap \/ RedirectMret \/ RedirectJalr
                \/ RedirectBranch \/ take_irq(in)

redirect_target(in) ==
    CASE RedirectTrap   -> csr.mtvec
      [] RedirectMret   -> csr.mepc
      [] RedirectJalr   -> jalr_target
      [] RedirectBranch -> br_actual_next
      [] OTHER          -> csr.mtvec

csr_rdata == CsrRead(csr, idex.instr.csr)

ex_result == CASE idex.instr.op \in {"jal", "jalr"} -> seq_next
               [] idex.instr.op = "csr"             -> csr_rdata
               [] IsMd(idex.instr)                  -> md.result
               [] OTHER                             -> alu_y

ex_commit == idex.valid /\ ~md_stall /\ ~to_debug_now
ex_retire == ex_commit /\ ~mem_beat_stall /\ ~ex_trap

---------------------------------------------------------------------------
(* Abstract register access by the debug module.                           *)

dbg_do(in) == dbg.mode /\ in.ar.valid /\ ~dbg.ar_busy
dbg_gpr_we(in) == dbg_do(in) /\ in.ar.write /\ ~in.ar.csr
dbg_csr_we(in) == /\ dbg_do(in) /\ in.ar.write /\ in.ar.csr
                  /\ in.ar.name \notin DebugCsrNames
dbg_local_we(in, name) == /\ dbg_do(in) /\ in.ar.write /\ in.ar.csr
                          /\ in.ar.name = name

---------------------------------------------------------------------------
(* The clocked blocks.  Fetch has one action per branch of its always_ff.  *)

(* Seeded fault: a redirect between the two beats keeps the straddle flag. *)
FetchRedirect_KeepsStraddle(in) ==
    /\ redirect(in)
    /\ pc' = redirect_target(in)
    /\ ifid' = IfidBubble
    /\ UNCHANGED <<straddle, strad_lo>>

FetchRedirect(in) ==
    /\ redirect(in)
    /\ pc' = redirect_target(in)
    /\ ifid' = IfidBubble /\ straddle' = FALSE
    /\ UNCHANGED strad_lo

(* Seeded fault: resume ignores dpc.                                       *)
FetchResume_KeepsPc(in) ==
    /\ ~redirect(in) /\ dbg_resume_now(in)
    /\ ifid' = IfidBubble /\ straddle' = FALSE
    /\ UNCHANGED <<pc, strad_lo>>

FetchResume(in) ==
    /\ ~redirect(in) /\ dbg_resume_now(in)
    /\ pc' = dbg.dpc
    /\ ifid' = IfidBubble /\ straddle' = FALSE
    /\ UNCHANGED strad_lo

FetchFreeze(in) ==
    /\ ~redirect(in) /\ ~dbg_resume_now(in) /\ dbg_freeze(in)
    /\ ifid' = IfidBubble
    /\ UNCHANGED <<pc, straddle, strad_lo>>

Fetching(in) == ~redirect(in) /\ ~dbg_resume_now(in) /\ ~dbg_freeze(in)

FetchHold(in) ==
    /\ Fetching(in) /\ fe_stall
    /\ UNCHANGED fetchVars

FetchStraddle(in) ==
    /\ Fetching(in) /\ ~fe_stall /\ need_straddle
    /\ strad_lo' = pc - (pc % 2) /\ straddle' = TRUE
    /\ ifid' = IfidBubble
    /\ UNCHANGED pc

FetchNext(in) ==
    /\ Fetching(in) /\ ~fe_stall /\ ~need_straddle
    /\ ifid' = [valid |-> TRUE, pc |-> pc, instr |-> fetched_instr,
                pred_taken |-> predict_taken_f(in),
                pred_target |-> IF predict_taken_f(in)
                                THEN predict_target_f(in) ELSE 0]
    /\ straddle' = FALSE
    /\ pc' = IF predict_taken_f(in) THEN predict_target_f(in)
             ELSE Add(pc, fetched_len)
    /\ UNCHANGED strad_lo

Fetch(in) == \/ FetchRedirect(in) \/ FetchResume(in) \/ FetchFreeze(in)
             \/ FetchHold(in) \/ FetchStraddle(in) \/ FetchNext(in)

(* ID/EX holds while EX is frozen; a bubble follows a redirect, a load-use *)
(* stall or an empty ID.                                                   *)
IdEx(in) ==
    idex' = IF ex_freeze THEN idex
            ELSE IF redirect(in) \/ load_use_stall \/ ~ifid.valid THEN IdexBubble
            ELSE [valid |-> TRUE, pc |-> ifid.pc, instr |-> ifid.instr,
                  pred_taken |-> ifid.pred_taken,
                  pred_target |-> ifid.pred_target,
                  rdata1 |-> RegRead(ifid.instr.rs1),
                  rdata2 |-> RegRead(ifid.instr.rs2)]

(* A trapping instruction goes on down the pipeline and writes nothing.    *)
ExMem ==
    exmem' = IF mem_beat_stall THEN exmem
             ELSE IF ~ex_commit THEN ExmemBubble
             ELSE [valid |-> TRUE, instr |-> idex.instr, result |-> ex_result,
                   store_data |-> fwd_rs2, amo_addr |-> fwd_rs1,
                   amo_b |-> fwd_rs2,
                   reg_we |-> WritesRd(idex.instr) /\ ~ex_trap,
                   mem_re |-> IsLoad(idex.instr) /\ ~ex_trap,
                   mem_we |-> IsStore(idex.instr) /\ ~ex_trap,
                   is_amo |-> IsAtomic(idex.instr) /\ ~ex_trap]

(* Nothing retires in the cycle of a first beat.                           *)
MemWb ==
    memwb' = IF mem_beat_stall \/ ~exmem.valid THEN MemwbBubble
             ELSE [valid |-> TRUE, rd |-> exmem.instr.rd,
                   result |-> mem_result, reg_we |-> exmem.reg_we]

RegWrite(in) ==
    regs' = IF dbg_gpr_we(in) /\ in.ar.gpr # 0
            THEN [regs EXCEPT ![in.ar.gpr] = in.ar.wdata]
            ELSE IF ~dbg_gpr_we(in) /\ rf_we /\ memwb.rd # 0
            THEN [regs EXCEPT ![memwb.rd] = memwb.result]
            ELSE regs

DataMem ==
    mem' = IF ~dmem_we THEN mem
           ELSE [mem EXCEPT ![dmem_word] =
                   WordOf([k \in 0 .. 3 |-> IF dmem_be(k) THEN dmem_wbyte(k)
                                            ELSE ByteOf(@, k)])]

(* Seeded fault: the second beat follows a second beat only.               *)
SecondBeat_Never ==
    /\ beat2' = (mem_beat_stall /\ beat2)
    /\ ld_w0' = IF mem_beat_stall THEN dmem_rdata ELSE ld_w0

SecondBeat ==
    /\ beat2' = mem_beat_stall
    /\ ld_w0' = IF mem_beat_stall THEN dmem_rdata ELSE ld_w0

(* Seeded fault: a plain store leaves the reservation standing.            *)
Reservation_KeptByStores ==
    resv' = IF amo_is("lr")
            THEN [valid |-> TRUE, addr |-> AlignWord(exmem.amo_addr)]
            ELSE IF amo_is("sc") THEN [valid |-> FALSE, addr |-> resv.addr]
            ELSE resv

Reservation ==
    resv' = IF amo_is("lr")
            THEN [valid |-> TRUE, addr |-> AlignWord(exmem.amo_addr)]
            ELSE IF amo_is("sc") \/ (exmem.valid /\ exmem.mem_we)
            THEN [valid |-> FALSE, addr |-> resv.addr]
            ELSE resv

(* Seeded fault: one iteration too many.                                   *)
MdCycles_OffByOne(fn, a, b) ==
    IF fn = "div" /\ b # 0 /\ ~(a = XMOD \div 2 /\ b = XMOD - 1)
    THEN DIV_CYCLES + 1 ELSE 1

(* gandiva_muldiv: operands are latched at start and the result is shown   *)
(* for one cycle.  A multiplication, a division by zero and the signed     *)
(* overflow take one cycle, any other division DIV_CYCLES ("div" stands    *)
(* for the signed DIV and REM).                                            *)
MdCycles(fn, a, b) ==
    IF fn = "div" /\ b # 0 /\ ~(a = XMOD \div 2 /\ b = XMOD - 1)
    THEN DIV_CYCLES ELSE 1

MulDiv ==
    md' = IF md_busy
          THEN [md EXCEPT !.left = @ - 1, !.done = md.left = 1,
                          !.result = IF md.left = 1 THEN MdOp(md.fn, md.a, md.b)
                                     ELSE @]
          ELSE IF md_start
          THEN [left |-> MdCycles(idex.instr.fn, fwd_rs1, fwd_rs2),
                fn |-> idex.instr.fn, a |-> fwd_rs1, b |-> fwd_rs2,
                done |-> FALSE, result |-> md.result]
          ELSE [md EXCEPT !.done = FALSE]

(* Seeded fault: the in-flight flag is never cleared.                      *)
MdInflight_Sticky == md_inflight' = (md_inflight \/ md_start)

MdInflight ==
    md_inflight' = IF md.done THEN FALSE ELSE md_inflight \/ md_start

(* gandiva_csr: a trap or an interrupt over MRET over a CSR write; the     *)
(* retirement counter moves in the same cycle.                             *)
csr_we_eff == ~dbg.mode /\ ex_active /\ CsrWrites(idex.instr) /\ ~ex_trap

CsrUpdate(in) ==
    LET counted == IF ex_retire /\ ~(csr_we_eff /\ idex.instr.csr = "minstret")
                   THEN CountRetire(csr) ELSE csr
    IN csr' = CASE RedirectTrap -> TrapEnter(counted, idex.pc, ex_cause)
                [] take_irq(in) -> TrapEnter(counted, seq_next, "irq")
                [] RedirectMret -> TrapReturn(counted)
                [] csr_we_eff ->
                     CsrWrite(counted, idex.instr.csr,
                              CsrNewValue(idex.instr, csr_rdata, fwd_rs1))
                [] dbg_csr_we(in) ->
                     CsrWrite(counted, in.ar.name, in.ar.wdata)
                [] OTHER -> counted

BtbUpdate ==
    btb' = IF /\ BPRED /\ ex_active /\ ~ex_trap
              /\ br_actual_taken
           THEN [btb EXCEPT ![BtbIdx(idex.pc)] =
                   [valid |-> TRUE, tag |-> BtbTag(idex.pc), tgt |-> br_target,
                    isjal |-> idex.instr.op = "jal"]]
           ELSE btb

(* Seeded fault: debug mode is entered before WB is empty.                 *)
EnterDebug_NotDrained == /\ dbg.halt_req /\ ~dbg.mode
                         /\ ~ifid.valid /\ ~idex.valid

(* The debug controller: drain to halt, resume, single step.               *)
EnterDebug == dbg.halt_req /\ ~dbg.mode /\ pipe_drained

DebugControl(in) ==
    dbg' = [mode |-> IF EnterDebug THEN TRUE
                     ELSE dbg.mode /\ ~in.resumereq,
            halt_req |-> IF EnterDebug THEN FALSE
                         ELSE dbg.halt_req \/
                              (~dbg.mode /\ (in.haltreq \/ to_debug_now
                                             \/ step_halt_now)),
            step_active |-> IF EnterDebug THEN FALSE
                            ELSE IF dbg_resume_now(in) THEN dbg.step
                            ELSE dbg.step_active,
            dpc |-> IF EnterDebug
                    THEN IF dbg.cap_valid THEN dbg.dpc_cap ELSE pc
                    ELSE IF dbg_local_we(in, "dpc") THEN in.ar.wdata
                    ELSE dbg.dpc,
            cause |-> IF ~EnterDebug THEN dbg.cause
                      ELSE IF dbg.cap_valid THEN "ebreak"
                      ELSE IF dbg.step_active THEN "step" ELSE "haltreq",
            cap_valid |-> IF EnterDebug THEN FALSE
                          ELSE dbg.cap_valid \/ ebreak_to_debug,
            dpc_cap |-> IF ebreak_to_debug THEN idex.pc ELSE dbg.dpc_cap,
            ebreakm |-> IF dbg_local_we(in, "dcsr")
                        THEN (in.ar.wdata \div 2) % 2 = 1 ELSE dbg.ebreakm,
            step |-> IF dbg_local_we(in, "dcsr")
                     THEN in.ar.wdata % 2 = 1 ELSE dbg.step,
            dscratch0 |-> IF dbg_local_we(in, "dscratch0")
                          THEN in.ar.wdata ELSE dbg.dscratch0,
            ar_busy |-> in.ar.valid /\ (dbg.ar_busy \/ dbg_do(in)),
            ar_done |-> dbg_do(in)]

---------------------------------------------------------------------------
(* A clock edge: every block at once.                                      *)
Tick(in) ==
    /\ Fetch(in) /\ IdEx(in) /\ ExMem /\ MemWb
    /\ RegWrite(in) /\ DataMem /\ SecondBeat /\ Reservation
    /\ MulDiv /\ MdInflight /\ CsrUpdate(in) /\ BtbUpdate
    /\ DebugControl(in)
    /\ UNCHANGED imem

(* An empty pipeline at an instruction boundary: reset, or the moment      *)
(* after a debugger's resume, which may have set any architectural state.  *)
Init ==
    /\ imem \in Programs
    /\ \E s \in InitStates :
         /\ pc = s.pc /\ regs = s.regs /\ mem = s.mem /\ csr = s.csr
         /\ dbg = s.dbg
    /\ straddle = FALSE /\ strad_lo = 0
    /\ ifid = IfidBubble /\ idex = IdexBubble
    /\ exmem = ExmemBubble /\ memwb = MemwbBubble
    /\ md = MdIdle /\ md_inflight = FALSE
    /\ beat2 = FALSE /\ ld_w0 = 0
    /\ resv = [valid |-> FALSE, addr |-> 0]
    /\ btb = [x \in 0 .. (NBTB - 1) |-> BtbEmpty]

Next == \E in \in Inputs : Tick(in)

(* The clock never stops.                                                  *)
Fairness == WF_vars(Next)

Spec == Init /\ [][Next]_vars /\ Fairness

---------------------------------------------------------------------------
(* Properties.                                                             *)

TypeOK ==
    /\ imem \in [Evens -> Instrs]
    /\ mem \in [MemWords -> Word]
    /\ regs \in [Regs \ {0} -> Word]
    /\ csr \in CsrState
    /\ pc \in Word /\ straddle \in BOOLEAN /\ strad_lo \in Word
    /\ ifid \in IfidType /\ idex \in IdexType
    /\ exmem \in ExmemType /\ memwb \in MemwbType
    /\ md \in MdType /\ md_inflight \in BOOLEAN
    /\ beat2 \in BOOLEAN /\ ld_w0 \in Word
    /\ resv \in [valid : BOOLEAN, addr : Word]
    /\ btb \in [0 .. (NBTB - 1) -> BtbType]
    /\ dbg \in DbgType

(* A load, LR, SC or AMO in MEM, whose value exists only at the end of the *)
(* cycle, never has its consumer in EX, where exmem.result would be        *)
(* forwarded in its place: the load-use interlock keeps them apart.        *)
LoadUseInterlock ==
    /\ exmem.valid /\ idex.valid
    /\ exmem.mem_re \/ exmem.is_amo
    /\ exmem.instr.rd # 0
    => /\ NeedsRs1(idex.instr) => idex.instr.rs1 # exmem.instr.rd
       /\ UsesRs2(idex.instr) => idex.instr.rs2 # exmem.instr.rd

(* The result of the muldiv unit is shown for one cycle only: in that      *)
(* cycle the instruction that started it is in EX and leaves EX, whatever  *)
(* MEM is doing.  A second beat downstream must never swallow it.          *)
MdResultTaken ==
    md.done => /\ idex.valid /\ IsMd(idex.instr) /\ md.fn = idex.instr.fn
               /\ ex_commit /\ ~mem_beat_stall

(* Only control flow is predicted taken, since only control flow is        *)
(* checked against its prediction in EX: neither aliasing in the BTB nor   *)
(* an interrupt, trap or halt in between makes another instruction hit.    *)
PredictionSound ==
    /\ ifid.valid /\ ifid.pred_taken => IsControl(ifid.instr)
    /\ idex.valid /\ idex.pred_taken => IsControl(idex.instr)

(* Every instruction in ID and EX is the one the program has at its PC: a  *)
(* straddling fetch never joins halves of two instructions, whatever       *)
(* redirect, stall or halt falls between its two beats.                    *)
FetchMatchesProgram ==
    /\ ifid.valid => ifid.instr = InstrAt(ifid.pc)
    /\ idex.valid => idex.instr = InstrAt(idex.pc)

(* The second beat belongs to the access that made the first, and the word *)
(* captured on the first beat is still what the memory holds.              *)
BeatCoherent ==
    beat2 => /\ mem_mis \/ amo_is("amo")
             /\ amo_here \/ exmem.mem_re =>
                   ld_w0 = mem[(IF amo_here THEN exmem.amo_addr
                                ELSE exmem.result) \div 4]

(* Nothing is in flight in debug mode, so that the debugger's use of the   *)
(* register-file and CSR ports meets no instruction's.                     *)
HaltedIsQuiet == dbg.mode => pipe_drained /\ ~md_inflight
=============================================================================
