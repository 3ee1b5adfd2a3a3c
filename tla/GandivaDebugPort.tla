-------------------------- MODULE GandivaDebugPort --------------------------
(***************************************************************************)
(* What the debug module promises the debugger behind the DMI: an abstract *)
(* command is performed once, on a halted hart, with the value data0 had   *)
(* when it was written; a system-bus access is performed once, in order,   *)
(* whatever the hart does.  A step is what one clock may do at most: the   *)
(* register side and the memory side move independently.                   *)
(***************************************************************************)
EXTENDS Naturals

CONSTANTS Regs,    \* GPRs and CSRs of the hart
          Val,     \* words
          ADDRS,   \* words of the bus
          Mapped   \* those that are memory

None == [op |-> "none"]

VARIABLES halted, reset,                  \* the hart
          regs, mem,                      \* its registers, the shared memory
          dmi,                            \* DMI write about to be applied
          data0, cmd,                     \* abstract commands
          sbcs, sbaddress0, sbdata0, sb   \* system-bus accesses

vars == <<halted, reset, regs, mem, dmi, data0, cmd, sbcs, sbaddress0, sbdata0, sb>>

Init ==
    /\ halted = FALSE /\ reset = FALSE
    /\ regs \in [Regs -> Val] /\ mem \in [Mapped -> Val]
    /\ dmi = None /\ data0 = 0 /\ cmd = None
    /\ sbcs = [autoincrement |-> FALSE, readonaddr |-> FALSE]
    /\ sbaddress0 = 0 /\ sbdata0 = 0 /\ sb = None

---------------------------------------------------------------------------
(* The hart changes its registers and the memory only while it runs.       *)
Loose == ~halted \/ reset
Written(f) == {f} \union {[f EXCEPT ![k] = v] : k \in DOMAIN f, v \in Val}
HartRegs == regs' \in IF Loose THEN Written(regs) ELSE {regs}
HartMem(m) == IF Loose THEN Written(m) ELSE {m}

Data0 == data0' = IF dmi.op = "data0" THEN dmi.val ELSE data0

Issue ==
    /\ cmd = None /\ dmi.op = "command"
    /\ cmd' = [op |-> "pending", write |-> dmi.write, reg |-> dmi.reg, val |-> data0]
    /\ HartRegs /\ Data0

ReadReg ==
    /\ cmd.op = "pending" /\ ~cmd.write /\ halted
    /\ data0' = regs[cmd.reg] /\ cmd' = None
    /\ HartRegs

WriteReg ==
    /\ cmd.op = "pending" /\ cmd.write /\ halted /\ ~reset
    /\ regs' = [regs EXCEPT ![cmd.reg] = cmd.val]
    /\ cmd' = [cmd EXCEPT !.op = "performed"]
    /\ Data0

Finish ==
    /\ cmd.op = "performed"
    /\ cmd' = None
    /\ HartRegs /\ Data0

(* A command written while another is in progress is dropped.              *)
NoCommand ==
    /\ cmd # None \/ dmi.op # "command"
    /\ UNCHANGED cmd
    /\ HartRegs /\ Data0

RegisterSide == Issue \/ ReadReg \/ WriteReg \/ Finish \/ NoCommand

---------------------------------------------------------------------------
Configure == sbcs' = IF dmi.op = "sbcs" THEN dmi.sbcs ELSE sbcs

SetAddress ==
    /\ sb = None /\ dmi.op = "sbaddress0"
    /\ sbaddress0' = dmi.addr
    /\ sb' = IF sbcs.readonaddr
             THEN [op |-> "pending", write |-> FALSE, addr |-> dmi.addr, val |-> 0]
             ELSE None
    /\ UNCHANGED sbdata0
    /\ mem' \in HartMem(mem)

SetData ==
    /\ sb = None /\ dmi.op = "sbdata0"
    /\ sbdata0' = dmi.val
    /\ sb' = [op |-> "pending", write |-> TRUE, addr |-> sbaddress0, val |-> dmi.val]
    /\ UNCHANGED sbaddress0
    /\ mem' \in HartMem(mem)

(* Outside the memory there is nothing to write, and 0 to read.            *)
Stored(m)  == IF sb.addr \in Mapped THEN [m EXCEPT ![sb.addr] = sb.val] ELSE m
MemoryWord == IF sb.addr \in Mapped THEN mem[sb.addr] ELSE 0

(* A store of the hart to the same word on the same clock may win or lose. *)
Perform ==
    /\ sb.op = "pending"
    /\ IF sb.write
       THEN /\ \/ mem' \in HartMem(Stored(mem))
               \/ \E m \in HartMem(mem) : mem' = Stored(m)
            /\ sb' = [op |-> "performed", write |-> TRUE, val |-> 0]
       ELSE /\ mem' \in HartMem(mem)
            /\ sb' = [op |-> "performed", write |-> FALSE, val |-> MemoryWord]
    /\ UNCHANGED <<sbaddress0, sbdata0>>

Complete ==
    /\ sb.op = "performed"
    /\ sb' = None
    /\ sbdata0' = IF sb.write THEN sbdata0 ELSE sb.val
    /\ sbaddress0' = IF sbcs.autoincrement THEN (sbaddress0 + 1) % ADDRS ELSE sbaddress0
    /\ mem' \in HartMem(mem)

NoAccess ==
    /\ sb = None /\ dmi.op \notin {"sbaddress0", "sbdata0"}
    /\ UNCHANGED <<sb, sbaddress0, sbdata0>>
    /\ mem' \in HartMem(mem)

MemorySide == Configure /\ (SetAddress \/ SetData \/ Perform \/ Complete \/ NoAccess)

---------------------------------------------------------------------------
(* The debugger writes what it likes; the hart halts, resumes, is reset.   *)
Next == RegisterSide /\ MemorySide

Spec == Init /\ [][Next]_vars
=============================================================================
