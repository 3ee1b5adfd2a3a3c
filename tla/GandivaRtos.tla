---------------------------- MODULE GandivaRtos ----------------------------
(***************************************************************************)
(* The FreeRTOS demo (rtos/app/main.c) on its board support package        *)
(* (rtos/bsp/bsp.c) and the transmitter of the UART (rtl/gandiva_uart.sv). *)
(*                                                                         *)
(* Three tasks of different priority share one CPU, a queue, a counting    *)
(* semaphore and the console.  The FreeRTOS kernel is not in the           *)
(* repository: its calls are modelled by what main.c relies on, each one   *)
(* atomic, with the switch they may cause as a step of its own.            *)
(*                                                                         *)
(* A line of the transcript is a short sequence of pieces (head, number,   *)
(* end of line); each piece is sent the way uart_putc sends a character:   *)
(* wait until TXBUSY reads 0, then store to TXDATA.  A tick may come       *)
(* between the two.  Tick counts are abstracted to what is compared: the   *)
(* ticks the Producer still sleeps, and whether the count has moved since  *)
(* the Worker last sampled it.                                             *)
(***************************************************************************)
EXTENDS Naturals, Sequences

CONSTANTS NUM_ITEMS,    \* items the Producer sends
          QUEUE_LEN,    \* capacity of xQueue
          DELAY,        \* pdMS_TO_TICKS(5)
          REPORTS       \* lines the Worker prints

ASSUME RtosAssumption ==
    /\ NUM_ITEMS \in Nat \ {0} /\ QUEUE_LEN \in Nat \ {0}
    /\ DELAY \in Nat \ {0} /\ REPORTS \in Nat

VARIABLES
    neg,       \* NEG_NO_TICK build: the timer is never armed
    cur,       \* whose registers are in the CPU
    st,        \* kernel state of each task
    delay,     \* ticks until the Producer wakes up
    pc,        \* next statement of each context
    out,       \* pieces a context has still to send
    free,      \* the context has read TXBUSY = 0 and not stored yet
    i,         \* vProducer: loop counter
    consumed,  \* g_consumed
    taken,     \* g_sem_taken
    ticked,    \* vWorker: now # last
    reports,   \* vWorker: lines reported
    queue,     \* xQueue
    sem,       \* xSem
    uart,      \* transmitter: fast divisor, busy, a store was ignored
    console,   \* pieces the transmitter has accepted
    tohost     \* last word stored to TOHOST (0: none)

kernel == <<cur, st, delay>>
app    == <<i, consumed, taken, ticked, reports>>
ipc    == <<queue, sem>>
io     == <<uart, console, tohost>>
vars   == <<neg, kernel, pc, out, free, app, ipc, io>>

---------------------------------------------------------------------------
(* Contexts, priorities and lines.                                         *)
Tasks    == {"C", "P", "W"}
Contexts == Tasks \union {"main"}
(* Seeded fault: both communicating tasks at one priority, time-sliced.    *)
Prio_Equal == [C |-> 2, P |-> 2, W |-> 1]
Prio == [C |-> 3, P |-> 2, W |-> 1]

Plain    == {"boot", "neg", "sem", "done"}
Numbered == {"send", "got", "run"}
Pieces   == [line : Plain \union Numbered, part : {"head", "num", "eol"}, val : Nat]

Piece(line, part, n) == [line |-> line, part |-> part, val |-> n]
Line(line, n) == <<Piece(line, "head", n), Piece(line, "num", n), Piece(line, "eol", n)>>
Text(line)    == <<Piece(line, "head", 0), Piece(line, "eol", 0)>>

(* main runs until the scheduler starts; then the ready task of highest    *)
(* priority does.                                                          *)
Ready(t)   == st[t] = "ready"
IsTop(t)   == IF t = "main" THEN pc["main"] # "gone"
              ELSE /\ pc["main"] = "gone" /\ Ready(t)
                   /\ \A u \in Tasks : Ready(u) => Prio[u] <= Prio[t]
Running(t) == cur = t /\ IsTop(t)

(* The context has nothing left to send and is about to run statement s.   *)
At(t, s) == Running(t) /\ out[t] = << >> /\ pc[t] = s

Goto(t, s)        == pc' = [pc EXCEPT ![t] = s]
Say(t, pieces, s) == out' = [out EXCEPT ![t] = pieces] /\ Goto(t, s)
Block(t, why)     == st' = [st EXCEPT ![t] = why]
Wake(t, why)      == st' = [st EXCEPT ![t] = IF @ = why THEN "ready" ELSE @]

---------------------------------------------------------------------------
(* Console.                                                                *)
uart_putc_Poll(t) ==
    /\ Running(t) /\ out[t] # << >> /\ ~free[t]
    /\ ~uart.busy
    /\ free' = [free EXCEPT ![t] = TRUE]
    /\ UNCHANGED <<neg, kernel, pc, out, app, ipc, io>>

(* tx_load: a store while the shifter is busy is ignored.                  *)
uart_putc_Store(t) ==
    /\ Running(t) /\ out[t] # << >> /\ free[t]
    /\ free' = [free EXCEPT ![t] = FALSE]
    /\ out' = [out EXCEPT ![t] = Tail(@)]
    /\ IF uart.busy
       THEN uart' = [uart EXCEPT !.lost = TRUE] /\ UNCHANGED console
       ELSE uart' = [uart EXCEPT !.busy = TRUE]
            /\ console' = Append(console, Head(out[t]))
    /\ UNCHANGED <<neg, kernel, pc, app, ipc, tohost>>

TxDone ==
    /\ uart.busy
    /\ uart' = [uart EXCEPT !.busy = FALSE]
    /\ UNCHANGED <<neg, kernel, pc, out, free, app, ipc, console, tohost>>

---------------------------------------------------------------------------
(* main: before the scheduler starts no interrupt is enabled.              *)
(* Seeded fault: the divisor keeps its reset value.                        *)
uart_init_Absent == uart
uart_init == [uart EXCEPT !.fast = TRUE]

main_Boot ==
    /\ At("main", "boot")
    /\ uart' = uart_init
    /\ Say("main", Text("boot"), "create")
    /\ UNCHANGED <<neg, kernel, free, app, ipc, console, tohost>>

(* Seeded fault: the semaphore starts with a unit.                         *)
main_Create_OneUnit ==
    /\ At("main", "create")
    /\ queue' = << >> /\ sem' = 1
    /\ st' = [t \in Tasks |-> "ready"]
    /\ Say("main", IF neg THEN Text("neg") ELSE << >>, "start")
    /\ UNCHANGED <<neg, cur, delay, free, app, io>>

main_Create ==
    /\ At("main", "create")
    /\ queue' = << >> /\ sem' = 0
    /\ st' = [t \in Tasks |-> "ready"]
    /\ Say("main", IF neg THEN Text("neg") ELSE << >>, "start")
    /\ UNCHANGED <<neg, cur, delay, free, app, io>>

vTaskStartScheduler ==
    /\ At("main", "start")
    /\ Goto("main", "gone")
    /\ UNCHANGED <<neg, kernel, out, free, app, ipc, io>>

---------------------------------------------------------------------------
(* Kernel.                                                                 *)

(* A context switch saves and restores the register file, which takes      *)
(* longer than a frame at the divisor uart_init sets.                      *)
Dispatch(t) ==
    /\ t # cur /\ IsTop(t)
    /\ cur' = t
    /\ uart' = [uart EXCEPT !.busy = @ /\ ~uart.fast]
    /\ UNCHANGED <<neg, st, delay, pc, out, free, app, ipc, console, tohost>>

(* Seeded fault: the Producer is woken one tick late.                      *)
Tick_Late ==
    /\ ~neg /\ pc["main"] = "gone" /\ \E t \in Tasks : Running(t)
    /\ ticked' = TRUE
    /\ IF st["P"] = "delay"
       THEN /\ delay' = delay - 1
            /\ st' = IF delay = 0 THEN [st EXCEPT !["P"] = "ready"] ELSE st
       ELSE UNCHANGED <<delay, st>>
    /\ UNCHANGED <<neg, cur, pc, out, free, i, consumed, taken, reports, ipc, io>>

(* Machine timer interrupt, xTaskIncrementTick.                            *)
Tick ==
    /\ ~neg /\ pc["main"] = "gone" /\ \E t \in Tasks : Running(t)
    /\ ticked' = TRUE
    /\ IF st["P"] = "delay"
       THEN /\ delay' = delay - 1
            /\ st' = IF delay = 1 THEN [st EXCEPT !["P"] = "ready"] ELSE st
       ELSE UNCHANGED <<delay, st>>
    /\ UNCHANGED <<neg, cur, pc, out, free, i, consumed, taken, reports, ipc, io>>

---------------------------------------------------------------------------
(* vProducer.                                                              *)
xQueueSend ==
    /\ At("P", "send") /\ i <= NUM_ITEMS
    /\ IF Len(queue) < QUEUE_LEN
       THEN /\ queue' = Append(queue, i)
            /\ Wake("C", "queue")
            /\ Say("P", Line("send", i), "give")
       ELSE /\ Block("P", "space")
            /\ UNCHANGED <<queue, out, pc>>
    /\ UNCHANGED <<neg, cur, delay, free, app, sem, io>>

(* Seeded fault: the waiting Consumer is not woken.                        *)
xSemaphoreGive_NoWake ==
    /\ At("P", "give")
    /\ sem' = IF sem < NUM_ITEMS THEN sem + 1 ELSE sem
    /\ Goto("P", "delay")
    /\ UNCHANGED <<neg, kernel, out, free, app, queue, io>>

xSemaphoreGive ==
    /\ At("P", "give")
    /\ sem' = IF sem < NUM_ITEMS THEN sem + 1 ELSE sem
    /\ Wake("C", "sem")
    /\ Goto("P", "delay")
    /\ UNCHANGED <<neg, cur, delay, out, free, app, queue, io>>

(* Seeded fault: a delay of no ticks.                                      *)
vTaskDelay_Zero ==
    /\ At("P", "delay")
    /\ i' = i + 1
    /\ Goto("P", "send")
    /\ UNCHANGED <<neg, kernel, out, free, consumed, taken, ticked, reports, ipc, io>>

vTaskDelay ==
    /\ At("P", "delay")
    /\ Block("P", "delay") /\ delay' = DELAY
    /\ i' = i + 1
    /\ Goto("P", "send")
    /\ UNCHANGED <<neg, cur, out, free, consumed, taken, ticked, reports, ipc, io>>

(* The loop ends with vTaskDelete, which is never reached: the Consumer,   *)
(* of higher priority, is in sim_pass for ever before the last delay ends. *)

---------------------------------------------------------------------------
(* vConsumer.                                                              *)
(* Seeded fault: a block time of 0 instead of portMAX_DELAY.               *)
xSemaphoreTake_NoWait ==
    /\ At("C", "take")
    /\ IF sem > 0
       THEN /\ sem' = sem - 1 /\ taken' = taken + 1
            /\ Say("C", Text("sem"), "receive")
       ELSE /\ Goto("C", "receive")
            /\ UNCHANGED <<sem, taken, out>>
    /\ UNCHANGED <<neg, kernel, free, i, consumed, ticked, reports, queue, io>>

xSemaphoreTake ==
    /\ At("C", "take")
    /\ IF sem > 0
       THEN /\ sem' = sem - 1 /\ taken' = taken + 1
            /\ Say("C", Text("sem"), "receive")
            /\ UNCHANGED st
       ELSE /\ Block("C", "sem")
            /\ UNCHANGED <<sem, taken, out, pc>>
    /\ UNCHANGED <<neg, cur, delay, free, i, consumed, ticked, reports, queue, io>>

xQueueReceive ==
    /\ At("C", "receive")
    /\ IF queue # << >>
       THEN /\ queue' = Tail(queue) /\ consumed' = consumed + 1
            /\ Wake("P", "space")
            /\ Say("C", Line("got", Head(queue)), "check")
       ELSE /\ Block("C", "queue")
            /\ UNCHANGED <<queue, consumed, out, pc>>
    /\ UNCHANGED <<neg, cur, delay, free, i, taken, ticked, reports, sem, io>>

vConsumer_Check ==
    /\ At("C", "check")
    /\ IF consumed = NUM_ITEMS THEN Say("C", Text("done"), "pass")
                               ELSE Say("C", << >>, "take")
    /\ UNCHANGED <<neg, kernel, free, app, ipc, io>>

sim_pass ==
    /\ At("C", "pass")
    /\ tohost' = 1
    /\ UNCHANGED <<neg, kernel, pc, out, free, app, ipc, uart, console>>

---------------------------------------------------------------------------
(* vWorker: `enter' reads the tick count into last, `spin' is one turn of  *)
(* the loop.                                                               *)
vWorker_Enter ==
    /\ At("W", "enter")
    /\ ticked' = FALSE
    /\ Goto("W", "spin")
    /\ UNCHANGED <<neg, kernel, out, free, i, consumed, taken, reports, ipc, io>>

vWorker_Spin ==
    /\ At("W", "spin")
    /\ ticked' = FALSE
    /\ IF ticked /\ reports < REPORTS
       THEN Say("W", Line("run", 0), "spin") /\ reports' = reports + 1
       ELSE UNCHANGED <<out, pc, reports>>
    /\ UNCHANGED <<neg, kernel, free, i, consumed, taken, ipc, io>>

---------------------------------------------------------------------------
(* The first statement of each context.                                    *)
Entry == [main |-> "boot", C |-> "take", P |-> "send", W |-> "enter"]

Init ==
    /\ neg \in BOOLEAN
    /\ cur = "main" /\ st = [t \in Tasks |-> "none"] /\ delay = 0
    /\ pc = [t \in Contexts |-> Entry[t]]
    /\ out = [t \in Contexts |-> << >>] /\ free = [t \in Contexts |-> FALSE]
    /\ i = 1 /\ consumed = 0 /\ taken = 0 /\ ticked = FALSE /\ reports = 0
    /\ queue = << >> /\ sem = 0
    /\ uart = [fast |-> FALSE, busy |-> FALSE, lost |-> FALSE]
    /\ console = << >> /\ tohost = 0

Producer == xQueueSend \/ xSemaphoreGive \/ vTaskDelay
Consumer == xSemaphoreTake \/ xQueueReceive \/ vConsumer_Check \/ sim_pass
Worker   == vWorker_Enter \/ vWorker_Spin
Main     == main_Boot \/ main_Create \/ vTaskStartScheduler
Putc     == \E t \in Contexts : uart_putc_Poll(t) \/ uart_putc_Store(t)
Cpu      == Main \/ Producer \/ Consumer \/ Worker \/ Putc
Switch   == \E t \in Tasks : Dispatch(t)

Next == Cpu \/ Switch \/ Tick \/ TxDone

(* The CPU executes, a pending switch is made, frames end, and the timer   *)
(* interrupt comes again and again (2000 cycles apart: tasks run between). *)
Fairness == WF_vars(Cpu) /\ WF_vars(Switch) /\ WF_vars(TxDone) /\ WF_vars(Tick)

Spec == Init /\ [][Next]_vars /\ Fairness

---------------------------------------------------------------------------
(* Properties.                                                             *)

(* Types; in particular a delay never runs below 0 and xSem never exceeds  *)
(* its maximum count.                                                      *)
TypeOK ==
    /\ neg \in BOOLEAN
    /\ cur \in Contexts
    /\ st \in [Tasks -> {"none", "ready", "delay", "sem", "queue", "space"}]
    /\ delay \in 0 .. DELAY
    /\ pc \in [Contexts -> {"boot", "create", "start", "gone", "send", "give", "delay",
                            "take", "receive", "check", "pass", "enter", "spin"}]
    /\ out \in [Contexts -> Seq(Pieces)] /\ free \in [Contexts -> BOOLEAN]
    /\ i \in 1 .. (NUM_ITEMS + 1) /\ consumed \in Nat /\ taken \in Nat
    /\ ticked \in BOOLEAN /\ reports \in 0 .. REPORTS
    /\ queue \in Seq(1 .. NUM_ITEMS) /\ sem \in 0 .. NUM_ITEMS
    /\ uart \in [fast : BOOLEAN, busy : BOOLEAN, lost : BOOLEAN]
    /\ console \in Seq(Pieces) /\ tohost \in {0, 1}

Holding(t, s) == IF pc[t] = s THEN 1 ELSE 0

(* The semaphore counts the work that is available (main.c: "signal one    *)
(* unit of work available"): every queued item is either announced by a    *)
(* unit, or held by the Consumer that took its unit, or still to be        *)
(* announced by the Producer that queued it.  Hence xQueueReceive never    *)
(* blocks, and the Producer's back-pressure is never needed.               *)
WorkAccounted ==
    /\ Len(queue) = sem + Holding("C", "receive") + Holding("P", "give")
    /\ st["C"] # "queue" /\ st["P"] # "space"

(* What stands at position k of the console.                               *)
Shows(k, line, part) == console[k].line = line /\ console[k].part = part

(* No such piece stands between positions j and k.                         *)
NoneBetween(j, k, line, part) == \A l \in (j + 1) .. (k - 1) : ~Shows(l, line, part)

(* "[C]got:N" begins at k: the one before it, d pieces back, is got:N-1    *)
(* (none is, when d = k), "[P]send:N" is complete, and a "[C]sem" is that  *)
(* was not there for another.                                              *)
GotInTurn(k) ==
    LET n == console[k].val
    IN /\ \E d \in 1 .. k :
             /\ IF d = k THEN n = 1
                ELSE Shows(k - d, "got", "head") /\ console[k - d].val = n - 1
             /\ NoneBetween(k - d, k, "got", "head")
       /\ \E d \in 1 .. (k - 1) : console[k - d] = Piece("send", "eol", n)
       /\ \E d \in 1 .. (k - 1) : /\ Shows(k - d, "sem", "eol")
                                  /\ NoneBetween(k - d, k, "got", "head")

(* "[C]sem" begins at k: no other has since the last "[C]got".             *)
SemInTurn(k) ==
    \E d \in 1 .. k : /\ d = k \/ Shows(k - d, "got", "head")
                      /\ NoneBetween(k - d, k, "sem", "head")

(* Values are received in the order sent, no "[C]got:N" begins before      *)
(* "[P]send:N" and its "[C]sem" are complete, and there is one "[C]sem" to *)
(* each: the order run_rtos.py checks at the end holds at every moment.    *)
(* The Producer prints before it gives, so the Consumer that preempts it   *)
(* cannot overtake the line.                                               *)
ReportsInOrder ==
    \A k \in 1 .. Len(console) :
        /\ Shows(k, "got", "head") => GotInTurn(k)
        /\ Shows(k, "sem", "head") => SemInTurn(k)

(* q may stand right after p when lines are not mixed.                     *)
Follows(p, q) ==
    IF p.part = "eol" THEN q.part = "head"
    ELSE /\ q.line = p.line /\ q.val = p.val
         /\ q.part = IF p.part = "head" /\ p.line \in Numbered THEN "num" ELSE "eol"

(* Only the Worker wrote between positions j and k.                        *)
WorkerBetween(j, k) == \A l \in (j + 1) .. (k - 1) : console[l].line = "run"

(* The lines of main, the Producer and the Consumer are never mixed with   *)
(* one another, although all three print without a lock: each piece of     *)
(* theirs follows the one before it, d pieces back, whatever the Worker    *)
(* wrote between.                                                          *)
LinesWhole ==
    \A k \in 1 .. Len(console) : console[k].line # "run" =>
        \E d \in 1 .. k :
            /\ IF d = k THEN console[k].part = "head"
               ELSE console[k - d].line # "run" /\ Follows(console[k - d], console[k])
            /\ WorkerBetween(k - d, k)

(* uart_putc checks TXBUSY and stores later, possibly after another task   *)
(* has used the transmitter: no character is ever dropped by it.           *)
NoByteLost == ~uart.lost

(* "With no tick ... the Producer stalls after item 1, the Consumer        *)
(* starves, and [DONE]ok is NEVER reached" (main.c, NEG_NO_TICK).          *)
NegStalls == neg => consumed <= 1 /\ i <= 2 /\ tohost = 0

(* With the tick the demo always ends, every item received once.           *)
Completes == ~neg ~> (tohost = 1 /\ consumed = NUM_ITEMS /\ taken = NUM_ITEMS
                      /\ \A n \in 1 .. NUM_ITEMS : \E k \in 1 .. Len(console) :
                            console[k] = Piece("got", "eol", n))

(* A complete line as run_rtos.py sees it: from one end of line to the     *)
(* next.                                                                   *)
OwnLine(k) == (k = 1 \/ console[k - 1].part = "eol")
              /\ k + 2 <= Len(console)
              /\ SubSeq(console, k, k + 2) = Line(console[k].line, console[k].val)

(* "Transcript vocabulary (stable, machine-checkable)" (main.c): whenever  *)
(* the demo has ended, every "[P]send:N" is a line of its own.             *)
TranscriptReadable ==
    tohost = 1 => \A n \in 1 .. NUM_ITEMS :
        \E k \in 1 .. Len(console) :
            console[k] = Piece("send", "head", n) /\ OwnLine(k)
=============================================================================
