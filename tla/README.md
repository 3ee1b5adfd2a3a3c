# Gandiva: a TLA+ model of the core, its debugger and its software

Gandiva is a RV32IMAC core in SystemVerilog: a single-issue five-stage pipeline
with branch prediction, misaligned accesses, atomics, machine-mode traps,
external debug, and a small SoC around it.  The repository also holds the C
programs that run on it: a FreeRTOS demo with its board support and a port of
CoreMark.  This directory models the parts in which mistakes hide best: the
clock-by-clock control of the pipeline, of the bus bridge and of the debug
module, the preemptive tasks of the demo, and CoreMark's pointer surgery.  TLC
checks them against specifications of what each part promises, and TLAPS proves
the safety properties of pipeline, bridge, debug module and demo for every
value of their constants.

## 1. The system

| Part | State | Operations | Talks to |
|---|---|---|---|
| `rtl/gandiva_core.sv` pipeline | PC, straddle half, IF/ID, ID/EX, EX/MEM, MEM/WB, beat2 + first word, reservation, BTB/BHT/RAS, debug controller | one clock edge moves every block at once | all below |
| `rtl/common/gandiva_csr.sv` | mstatus, mie, mtvec, mepc, mcause, mtval, counters, PMP registers | trap > mret > write; counters | EX stage, debug access |
| `rtl/common/gandiva_muldiv.sv` | FSM, latched operands, quotient/remainder | start, iterate, one-cycle `done` | EX stage |
| `rtl/common/gandiva_regfile.sv` | x1..x31 | write-first reads, one write | ID, WB, debug access |
| decode, immgen, rvc, alu, branch | none | combinational leaf cells | ID, EX |
| `rtl/gandiva_axi_lite.sv` | FSM, captured request, per-channel flags | one outstanding AXI4-Lite transaction | core data port, slave |
| `rtl/gandiva_debug.sv` | TAP, DMI registers, one engine for abstract commands and system bus | halt/resume/reset requests, register and memory accesses | debug controller of the core, SoC memory path |
| `rtl/gandiva_trigger.sv` | tdata registers | match in EX, to debug or to exception | EX stage |
| `rtl/gandiva_uart.sv` | shifters, FIFO, baud counters | transmit, receive | SoC bus, serial line |
| `rtl/gandiva_soc.sv` | memories, mtime/mtimecmp/msip | address decode | core ports |
| pmp, regfile_ecc, SECURE overlay | PMP entries, ECC words, user CSRs | checks, correction, delegation | optional configurations |
| `tools/golden_rv32im.py` | registers, CSRs, memory | `step`: one instruction | co-simulation oracle |
| `rtos/app/main.c`, `rtos/bsp` | queue, semaphore, counters; console | three tasks of different priority: produce, consume, spin | FreeRTOS kernel (external), UART, timer tick |
| `coremark/src` | linked list, matrices, text, checksums | search, reverse, sort, remove; multiply; scan; calibrate, validate | clock of the port |
| `dhrystone`, `embench` | benchmark data | fixed statement mixes, start/stop trigger | none |

What is hard here: results that exist for one cycle only; a consumer held in EX
while its producer leaves WB; accesses that take two edges; a prediction that
nobody checks; fetches of one instruction in two beats with a redirect between
them; interrupts, halts and EBREAKs that arrive in the middle of all of that.
In the debug module one engine state serves two clients, and requests are pulses
to a hart that may be halting, resuming or in reset.  In the demo a tick may
fall between any two instructions, also between the check and the store of
`uart_putc`.  CoreMark sorts a list in place with a comparison that rewrites the
data it compares, and scans text that has just been corrupted.
`PROJECT.json` lists each of these hazards at its line, with the properties that
watch it.

What makes each part correct: the pipeline executes what the one-instruction-
at-a-time machine executes, and goes on for ever; a debugger sees instruction
boundaries and loses nothing; the muldiv result is taken in the cycle it is
shown; the bridge is, to its client, an atomic memory; the debug module performs
each command and each access once, with the operands it was given; the demo
loses no item and no character and ends exactly when there is a tick; CoreMark
leaves its data as it found them and computes the published checksums.

## 2. Modules

| Module | What it is |
|---|---|
| `GandivaArch` | Words, instructions, CSRs: data types and architectural functions both sides use.  ALU, branch, muldiv and AMO arithmetic are operator parameters. |
| `GandivaISA` | Abstract specification: one instruction at a time, one action per class of instruction, plus halt, resume, step and debugger writes. |
| `GandivaCore` | The pipeline.  A wire of the RTL is a state function of the same name, a clocked block is an action, `Tick(in)` is one clock edge. |
| `GandivaRefinement` | The refinement mapping from pipeline to `GandivaISA` and the properties that need it. |
| `GandivaMemoryProofs` | Lemmas: the data memory beat by beat against the architectural memory. |
| `GandivaRefinementProofs` | Operand forwarding and the refinement to `GandivaISA`, proved, with the exact conditions under which they hold. |
| `MCGandivaCore` + `core_*.cfg` | Instances for TLC. |
| `GandivaCoreProofs` | Type correctness of the pipeline, its inductive invariant and its safety theorems. |
| `GandivaBus` | Abstract specification: an atomic memory that answers one request at a time. |
| `GandivaAxiLite` | The AXI4-Lite bridge and a slave with any delays and responses. |
| `MCGandivaAxiLite` + `axi.cfg` | Instance for TLC. |
| `GandivaAxiLiteProofs` | The bridge's inductive invariant, safety theorems and refinement. |
| `GandivaDebugPort` | Abstract specification: what a debugger is promised behind the DMI. |
| `GandivaDebug` + `debug_module.cfg`, `debug_hang.cfg` | DMI registers and engine of the debug module, joined to the hart's debug controller and to the SoC's memory path. |
| `GandivaDebugProofs` | The debug module's inductive invariant, safety theorems and refinement. |
| `GandivaRtos` + `rtos*.cfg` | The FreeRTOS demo, its console driver and the UART transmitter. |
| `GandivaRtosProofs` | Where each task is and what is in the queue then: the demo's inductive invariant and its theorems; what stands on the console: whole lines, in order. |
| `CoreMarkUtil` | 16-bit arithmetic, exclusive or and the CRC; `Loop`, the form every counted loop of the program is given. |
| `CoreMarkList`, `CoreMarkMatrix`, `CoreMarkState` | The data and the functions of the three benchmarks. |
| `CoreMark` | `main`, `iterate`, `core_bench_list`, the merge sort and `calc_func` as a state machine. |
| `MCCoreMark` + `coremark.cfg` | The builds of the port. |
| `CoreMarkOperatorProofs` | Lemmas: what the functions of the benchmarks compute or keep, for every size. |
| `CoreMarkProofs` | CoreMark's inductive invariant and its safety theorems. |

How to read `GandivaCore` beside the RTL.  `ifid`, `idex`, `exmem`, `memwb` are
the pipeline registers as records; an invalid one is its `Bubble`, since the RTL
reads no other field of it.  Pins are a record `in`: interrupt line, halt and
resume requests, the abstract access of the debug module, and two values the
predictor is free to choose, the BHT's direction and the top of the
return-address stack: EX checks both, so allowing every value covers every state of
those tables.  The BTB is exact, because a BTB hit on an instruction that is
not control flow would never be corrected.  An instruction is a decoded record
with its length; the second beat of a straddling fetch joins two halves, and
halves of different instructions make `IllegalInstr`.

An instruction takes effect in the abstract machine at the edge at which it
leaves EX, where every trap and redirect is decided.  `abs_regs`, `abs_mem` and
`abs_resv` complete what is still in MEM and WB; `abs_pc` is the oldest
instruction that has not left EX.

In `GandivaAxiLite` the slave is external: it may take AW and W in either order
and after any delay, and answer OKAY or SLVERR.  The testbench's memory
(`tb/tb_gandiva_axi.sv`) is one such slave.  `req_write_q` is a history
variable: the bridge keeps the direction of a request only in its state.

`GandivaDebug` has one step per clock, as `GandivaCore`.  `dm` holds the registers
of the debug module, `hart` the four flip-flops of the core's debug controller
that the handshake reads.  The assignments of a DMI write are applied first and
those of the engine after them, as in the always block: the last one wins.  The
hart is abstracted to whether it is halting or halted; while it runs it may
change any register and any word, and ask for a halt by itself.  The refinement
mapping reads off a pending command from `abs_busy`, the request port and
`ar_done`, and a pending access from the memory port and the SoC's answer.  Two
DR scans are at least `GAP + 1` clocks apart (41 bits are shifted in between).
A system-bus address is a word address of the whole 32-bit bus, on which the
auto-increment wraps; `Mapped` are the words that are instruction or data memory,
a write elsewhere is dropped and a read returns 0, as in `gandiva_soc.sv`.
**Assumption `Polite`:** a debugger does not start a system-bus access while
`abstractcs.busy` is set.  The debug module does not enforce it: `AnySpec` is the
same system without the assumption, and there the engine is taken away from a
waiting command (finding 5).  The passing run and the proofs are about `Spec`,
with the assumption; for commands written to a halted hart it always holds,
since they are over in two clocks, before the next scan can end.

In `GandivaRtos` a FreeRTOS call is one atomic step, and the switch it may cause
is another (`Dispatch`).  The kernel is not in the repository; it is modelled by
what `main.c` relies on.  A line is two or three pieces, each sent the way
`uart_putc` sends a character.  Tick counts are kept only as far as they are
compared.  **Timing assumption:** a context switch, which saves and restores
thirty registers, takes longer than a frame of 20 cycles at the divisor that
`uart_init` sets, so a frame that a task left behind is over when the next task
runs.  Without `uart_init` this is false, and `NoByteLost` fails.

`CoreMark` computes what the program computes, to the bit, in one context with
the memory block on the stack.  A trial of the calibration is one step: it
leaves the data as it found them (`ListRestored` and `DataRestored` say so) and
its checksums are overwritten.

Operators marked "Seeded fault" are variants of the definition that follows
them, each a plausible bug.  They are used by no specification; each of them
makes TLC find a violation of the property that `PROJECT.json` pairs it with.

## 3. Runs

All core runs use bytes of one bit (XLEN = 4), registers x0..x2, four words of
data memory, sixteen bytes of program, a two-entry BTB, a three-cycle division
and a one-bit `minstret`.  Narrow words keep the state finite without changing
control: four byte lanes, all four offsets, word wrap-around and both beats are
there.  Three registers are enough for a producer, a consumer and a bystander.
Two BTB entries alias, and a counter of one bit wraps.

| Run | Result | What it shows |
|---|---|---|
| `core_data` | pass | All programs of four instructions from a menu of ten (ALU, aligned and misaligned loads and stores, LR/SC/AMO, mul/div) except the pattern of `core_lost_forward`: `ImplementsISA`, `OperandsCurrent`, `LoadUseInterlock`, `MdResultTaken`, `BeatCoherent`, `AlwaysProgress`.  Four instructions fill ID, EX, MEM and WB. |
| `core_control` | pass | All programs of three control, trap, CSR and mul instructions with a trap handler; every branch direction, two return-stack contents, interrupts at any edge.  Single step from debug mode over two instructions of every kind, interrupts pending, `ebreakm` on and off.  Halt requests, resumes and abstract writes (x1, dcsr, dpc) at any edge, for all programs of two loads, stores, branches and traps that never stall: `ImplementsISA`, `PredictionSound`, `FetchMatchesProgram`, `HaltedIsQuiet`, `HaltReached`. |
| `core_lost_forward` | violation | See finding 1. |
| `core_lost_at_halt` | violation | See finding 2. |
| `core_ebreak_leak` | violation | See finding 3. |
| `core_irq_starved` | violation | See finding 4. |
| `axi` | pass | Two words of one one-bit lane (the proofs cover any lanes), every request, every delay, every response: `ImplementsBus`, `OneTransfer`, `PayloadIntact`, `ValidHeld`, `RequestAnswered`. |
| `debug_module` | pass | One register, a bus of three words of which two are memory, one-bit data, scans three clocks apart; halts, resumes, resets and every DMI write at any time: `ImplementsPort`, `EngineServes`, `AnsweredInTwo`, `ResumeHeard`. |
| `debug_hang` | violation | See finding 5. |
| `rtos` | pass | Eight items, queue of four, delays of five ticks as in `main.c`, two of the Worker's six reports, with and without the tick: `WorkAccounted`, `ReportsInOrder`, `LinesWhole`, `NoByteLost`, `NegStalls`, `Completes`. |
| `rtos_torn` | violation | See finding 6. |
| `coremark` | pass | Performance, validation and profile seeds, 2000 and 6000 bytes, 1 or 2 iterations executed, and calibration at five speeds: `NoCellLost`, `RunsSorted`, `ListRestored`, `DataRestored`, `ScanInBounds`, `BlocksDisjoint`, `Validated`, `RunLength`, `Terminates`. |

In the last of the three families of `core_control` (`DebugPrograms`) an input record raises
one debug request at a time.  Nothing is lost
by that: a halt request has no effect in debug mode, a resume and an abstract
access have none outside it, and the debug module starts one command at a time
from one DMI write.

Why the other bounds are enough.  `debug_module`: commands and accesses never
look at which register or which value they have, the three words are needed for
an increment inside the memory, one out of it and one that wraps, and a distance of three clocks between scans,
the least after which a system-bus access is over, admits every behaviour of
the real one, which is more than forty.  `rtos`: the constants are the program's but for the Worker's reports,
and two reports are enough for a line to be torn and for the Worker to go on
after it.  `coremark`: the data are the program's own, and
an iteration starts from the data of the first (`ListRestored`), so two show
what more would; `ITER_CAP` bounds those executed, not those counted.  A second
is `TPS = 1000` ticks and the clock wraps at `CLOCK_MOD = 85899`, the ratio of
50 MHz to 2^32; the speeds reach from calibrations of four trials to ones of a
single trial in which the clock nearly wraps.

**Fairness.**  `GandivaCore` assumes only that the clock ticks (`WF_vars(Next)`).
`GandivaAxiLite` assumes in addition that a slave that is offered a transfer
takes it at last and answers it, without which no master can promise anything;
nothing is assumed of the bridge but that it is clocked.  `GandivaRtos` assumes
that the CPU executes, that a pending switch is made, that frames end, and that
the timer interrupt comes again and again when it is armed; nothing is assumed
of a single task.  `CoreMark` assumes that the CPU executes.  `GandivaDebug`
needs no fairness, since `AnsweredInTwo` counts clocks; `AnySpec` assumes that the
clock ticks, so that `HaltedAccess` does not fail just because it stops.

`AlwaysProgress` asks for an instruction to leave EX again and again (`ex_active`),
which none of the three stalls allows; a valid EX/MEM would not do, since it stays
valid for as long as a first beat lasts.

## 4. Findings

1. **A forwarded operand is lost across a second beat.**  `a` writes x1, `c` is
   a misaligned access or an AMO, `b` reads x1.  While `c` makes its first beat,
   `a` is in WB and `b` is held in EX; `memwb_valid` is cleared for that cycle,
   and in the next one nothing forwards x1, so `b` uses the value it read in ID
   before `a` wrote.  The documentation promises full forwarding.
2. **A halt request drops the instruction waiting in ID.**  `dbg_freeze` clears
   IF/ID before the stall is looked at; `dpc` is already past the instruction.
3. **The instruction behind an EBREAK into debug mode executes.**  `id_bubble`
   does not include `to_debug_now`.  A single step masks this, since fetch is
   frozen behind the first instruction.
4. **Interrupts starve in a loop of control flow.**  `take_irq` waits for an
   instruction that is not a branch, jump or CSR access; `j .` has none.
5. **A system-bus access makes the debug module forget a command.**  A command
   written while the hart runs waits for it to halt.  A write of `sbdata0`, or of
   `sbaddress0` with `sbreadonaddr`, takes the engine without looking at
   `abs_busy`; when the hart halts and performs the command, no state waits for
   its answer, `abstractcs.busy` stays set and every later command is dropped.
6. **The demo's transcript can be torn.**  The Worker prints `[W]run@T` in
   several calls without a lock.  A tick in the middle of it wakes the Producer,
   whose `[P]send:N` then stands inside the Worker's line, where the harness,
   which matches whole lines, does not see it.  The lines of the other tasks are
   never mixed with one another (`LinesWhole`, in `rtos`).

The passing core runs exclude the programs in which 1 and 2 can bite
(`Scheduled` in `GandivaRefinement`, `StallFree` in `MCGandivaCore`), and 3 by `ebreakm` being clear
outside single step; everything else about those behaviours is checked.
`debug_module` excludes 5 by `Polite`.

## 5. Proofs

TLAPS checks these for every value of the constants that the assumptions
`WidthAssumption`, `LeafAssumption`, `CoreAssumption`, `EnvironmentAssumption`,
`BusAssumption`, `DebugAssumption` and `RtosAssumption` admit: any byte width,
register count, BTB size, division length, program, start state and input set;
any number of items, queue length, delay and number of the Worker's reports.
For CoreMark the assumptions are those of `CoreMark.tla`, below.
TLC evaluates the same assumptions on every run.

*Bridge* (`GandivaAxiLiteProofs`).  The inductive invariant is
`IInv == TypeOK /\ OneTransfer /\ PayloadIntact`: the flags agree with what the
slave has taken, and what it has taken is the request.  `ValidHeld` and the
refinement `SafeSpec => Bus!Spec` follow from it, one step per FSM action and
per channel of the slave.

*Pipeline* (`GandivaCoreProofs`).  Type correctness is
proved first, one lemma per clocked block.  `CInv` adds what the properties need
to be inductive:

- `BtbSound`: every valid BTB entry was installed by a branch or JAL that the
  program has at that very address.  With a full tag compare only that
  instruction can hit, hence `PredictionSound`.
- `StraddleKept`: while `straddle` is set, the captured half is that of the
  instruction at `pc`.  Hence `FetchMatchesProgram`.
- `MdInv`: `md_inflight` says exactly that the unit is busy or done (never
  both), and then its instruction is in EX.  Meanwhile MEM holds nothing but an
  access on its second beat, and that one has left when `done` is shown.  Hence `MdResultTaken`.
- `ExmemKind`: the control bits in EX/MEM agree with the instruction there, so
  that `beat2` can belong only to the access that made the first beat.

From `CInv` follow `LoadUseInterlock`, `MdResultTaken`, `PredictionSound`,
`FetchMatchesProgram`, `BeatCoherent` and `HaltedIsQuiet`.

*Operands* (`GandivaRefinementProofs`).  `OperandsCurrent` fails in general
(finding 1), so it is proved with the hypothesis `NoLostForward`: while a first
beat in MEM holds an instruction in EX, no operand of it leaves WB unless a
younger result for the same register is in MEM.  The invariant is `Latched`: an
operand read in ID is what the register file holds, unless the forwarding network
will replace it.  The theorem therefore says that the loss of finding 1 is the
only one: `core_data`, whose programs satisfy the hypothesis, shows that it can
be met, and `core_lost_forward` that it cannot be dropped.

*Memory* (`GandivaMemoryProofs`).  Lemmas on byte lanes: two beats on adjacent
words write exactly the bytes of the access and a load joined from two words
reads exactly its bytes, for every address, the wrap at the end of memory
included.  `FirstBeat` adds to `CInv` that between the two beats of a store the
bytes of the first word are in the memory.

*Refinement* (`GandivaRefinementProofs`).  `ImplementsISA` fails in general
(findings 1 to 3).  `PipelineImplementsISA` proves it for every execution in which

- `NoLostForward` holds (finding 1, `core_lost_forward`);
- every edge is `Calm`: no halt request falls on a cycle in which a stall holds an
  instruction in ID (finding 2, `core_lost_at_halt`);
- `NothingRunsPastCapture` holds (finding 3, `core_ebreak_leak`).

So these three are the only departures from program order that a safety
argument can see.  Two assumptions on the environment remain: the hart is not resumed in the
very cycle of an abstract register write (`OneRequest`; the debug module retires
a command before the next scan can end, see `AnsweredInTwo`), and no halt is
under way at the start (`NoHaltAtStart`; reset clears both flags).
`UndebuggedImplementsISA` is the case with no debugger: of the hypotheses only
`NoLostForward` is left, the others follow.

That one is about executions; `Scheduled(f)` is about the program: no three
instructions that can be fetched in a row are a result, an access that may take
two beats and a reader of the result.  Behind a branch or jump any instruction can be
fetched, since its target is predicted.  `SInv` adds to `RInv` that the
instructions in WB, MEM and EX stand in such a row (`InARow`); hence
`NoLostForward`, and `ScheduledUndebugged` proves `ImplementsISA` and
`OperandsCurrent` from conditions on program and pins alone.  The programs of
`core_data` are filtered by the same `Scheduled`, so the instance that TLC
checks there is one of those the theorem is about.

The inductive invariant `RInv` adds to `CInv` and `Latched`

- `FirstBeat`, so that the memory the mapping shows does not move between beats;
- `PcChain`: the PCs in ID and IF are where the predictions of the older
  instructions lead, so that an instruction that leaves EX without a redirect
  hands `abs_pc` on correctly; with `StraddleLong` and `PredConfigured`;
- `DbgInv`: a halt under way has emptied ID, and a captured PC is an EBREAK's;
- `ZeroRead` and `MdOperands`: x0 reads as 0, and the muldiv unit works on the
  operands that its instruction still has when the result is taken.

An edge at which nothing leaves EX leaves the mapped state alone (`HeldSteps`),
enters debug mode (`EnterSteps`) or is the debugger's (`HaltedSteps`); one at
which an instruction leaves EX is the step of its class, one lemma for each.
`RInv` and the hypotheses were checked with TLC on the instances of the core
runs before they were proved.

*Debug module* (`GandivaDebugProofs`).  `DInv` is inductive: the engine and its
clients agree (`EngineServes`); each step of a request has its place in the time
between two scans (`Paced`); the engine works for the system bus exactly while
an access is owed an answer, and a scan that will take the engine finds no
command waiting (`BusServed`); the hart is busy with a command no longer than
the request stands (`Handshake`); a resume pulse finds the hart halted
(`Halts`).  `Paced` and `BusServed` are where `GAP >= 2` and `Polite` enter.
The type invariant is proved first, for every memory map: the address register
may leave the memory, and the engine never enters `E_AR` or `E_SB_WAIT`, two
states that are declared and that nothing would leave.
`AnsweredInTwo` and `ResumeHeard` follow.  For the refinement `RInv` adds
`Agreed`: a resume never overtakes a command that could be performed, and the
engine waits for the kind of access that was requested.  Then every clock is shown to be a step of `GandivaDebugPort`, hart, command and access one
after the other.

*Demo* (`GandivaRtosProofs`).  `DemoInv` says for each place of each task what
the other tasks can be doing then: the Consumer, of the highest priority, is in the
middle of something only when the others are not running, and the Producer's
loop counter, the queue, the semaphore and the two counters of the Consumer
differ by what those places say (`Places`, `Accounts`).  From it follow
`WorkAccounted`, `NoByteLost` and `NegStalls`, the last for at least two items:
with one the demo would pass without a tick.  It also follows that the Producer never leaves
its loop, so that leaving out its `vTaskDelete` loses nothing.

*Console* (`GandivaRtosProofs`, second part).  `LineInv` adds to it that what a task still
has to print is the rest of one line (`Script`), that only the task whose turn
it is is within a line (`Turns`) and that the console ends with the part it has
printed (`Tied`); hence `LinesWhole`.  `OrderInv` counts the complete lines of
each kind and ties them to the counters of `DemoInv`; hence `ReportsInOrder`.
`DemoInv`, `LineInv` and `OrderInv` were checked with TLC on the instance of
`rtos` before they were proved.

*CoreMark* (`CoreMarkOperatorProofs`, `CoreMarkProofs`).  The theorems are about
every block size, seed and speed that the assumptions admit, not only those of the
builds that TLC runs.  What the code relies on, and the assumptions therefore say:

- `InputsAssumption`: seeds are not negative, and the list has three cells at
  least, since `core_list_remove` is called with the second and takes the third.
- `SeedsAssumption`: the first two seeds are equal (`core_main.c` asks for it),
  and the low byte of the seed turns no character of the text into a comma: such
  a comma would be skipped when the corruption is undone.
- `IndexAssumption`: the pseudo-random indices of the list are distinct; with two
  equal ones the last sort could leave two cells exchanged.
- `SlackAssumption`: a block is not just one or two bytes larger than its
  matrices; `align_mem` may need three.
- `ClockAssumption`: the clock wraps after 22 to 100 seconds (85.9 s at 50 MHz),
  and ten iterations do not wrap it.

TLC evaluates all five for the builds of `MCCoreMark`, so the builds of the port
meet them.  Induction over data is avoided in one place for all: a loop is
`Loop(turns, init, body)`, and `LoopValue` and `LoopInvariant` say what it
computes from what each turn does, by an induction over a set of numbers
(`SetInduction`, from the least element of a set of numbers).  With them each list
function is described by an order of the cells: `arr` is a permutation of `1 .. N`
and `ListAt(next, arr, N, l)` says that the list from `l` is linked in that order.
A search turn mirrors `arr` and moves one element, a removal moves one element to
the end, a pass of the sort changes `arr` only by moving the cell taken from `q`
down (`TakeQIs`).

`Base` says where the program is and for what it sorts; `Working` is inductive
together with it and has a part for each thing an iteration disturbs:

- `Shape`: there is an `arr` in which the cells are linked as the statement that
  comes next leaves them.  In a merge these are three segments: merged cells, what is left of
  p's run, and the rest behind q; the runs not yet merged are in order, the
  merged ones are of twice the size, and the last merged cell may stand before
  both heads.  `AtPass`, `AtMerge` and `AtElement` are these shapes, stated for any order `R`.
- `Order(data, cmp)` is that order, and the reason why a comparison that rewrites
  its operands still sorts: it relates only data that were `Touched` (cached, or
  rebuilt), and a touched datum keeps its key until the sort ends, so the order
  only grows (`OrderCache`, `OrderRegen`).
- `HeapOK`: each cell has its own datum but while one is removed, and only low
  bytes of data change.  An ordered list of two or more cells has all data touched; hence
  the last sort has rebuilt every datum (`Rebuild`), and `ListRestored`.
- `Matrix` and `Text`: A is as it was made or with `val` added, the text is as it
  was made or corrupted once; each is undone modulo 2^16 (`AddConstUndone`) or by
  xoring twice (`CorruptTwice`).
- `Call`: a zero is ahead of the scan.  The text ends with two zeros and the
  period of the corruption is at least 34, so one of them survives (`CorruptIs`).

`Timed` is a separate invariant for the calibration: a trial that has not lasted a
second is far from wrapping the clock, so the next one, of ten times the length,
is measured correctly, and the factor chosen from it gives at least 10 seconds,
and less than 22 unless the trial alone took more.  `RunLength` follows, and `BlocksDisjoint`
from arithmetic on the layout.  The parts of `Base`, `Working` and `Timed` were
checked with TLC as invariants of `coremark` before they were proved.

**Only model-checked.**  `AlwaysProgress`,
`HaltReached`, `RequestAnswered`, `Completes` and `Terminates`, since liveness
under fairness is out of this prover's reach; and `Validated`, that the
checksums of the builds are the published numbers: it is the outcome of some
ten thousand steps on given data, which is executed by TLC and is not a
statement for every value of the constants.

## 6. Not modelled

- Armed triggers, the SECURE overlay (U-mode, PMP, N extension), Zihpm events,
  `mcycle`, `mtval`, writes to `mcause`, `minstreth`, CSR immediate forms (the
  same path with another operand), vectored interrupt lines (one line, one
  enable).
- Arithmetic of the leaf cells, and their encodings.
- Self-modifying code: `imem` is constant.
- Reset in the middle of execution; `Init` is an empty pipeline in any
  architectural state of `InitStates`.
- In the debug module: `resumeack` (set with the first resume and never cleared;
  only a debugger reads it), `havereset`, `cmderr` and unsupported commands,
  `sberror` and the access size, DMI reads, and the shifting of bits through TAP
  and DTM.
- The UART's bit timing and receiver, the CLINT's counters, the address map the
  hart's own accesses see: data paths, or logic that no software in the repository exercises.
- PMP, the ECC register file and armed triggers: optional or unarmed in the
  default configuration; planned below.
- FreeRTOS itself (not in the repository), assertion and trap stubs of the BSP.
- CoreMark's printing (`ee_printf` and the report), command-line parsing, type
  checks and other contexts; Dhrystone and the board support of Embench.
- Testbenches and tools.

## 7. Plan

Done: pipeline, ISA, bridge; debug module with its port specification; FreeRTOS
demo; CoreMark; every safety property of pipeline, bridge, debug module, demo
and CoreMark but the published checksums, and the three refinements, proved.  To
prove next: a condition on program and requests from which `Calm` follows.  To model after that: `GandivaCsr`
(full trap stack, counters, WARL fields, PMP locks), `GandivaMulDiv` (the
divider's FSM against Euclidean division), exact BHT, history and return stack,
shown to implement the free inputs used here, triggers, and the SECURE overlay.
