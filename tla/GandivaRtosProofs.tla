-------------------------- MODULE GandivaRtosProofs --------------------------
(***************************************************************************)
(* Proofs about the FreeRTOS demo, for any number of items, queue length,  *)
(* delay and number of reports; then about its transcript: lines are not   *)
(* mixed, and are in order.                                                *)
(***************************************************************************)
EXTENDS GandivaRtos, TLAPS

(* The statements each context has, and the ways it can wait.              *)
Places ==
    /\ pc["main"] \in {"boot", "create", "start", "gone"}
    /\ pc["C"] \in {"take", "receive", "check", "pass"}
    /\ pc["P"] \in {"send", "give", "delay"}
    /\ pc["W"] \in {"enter", "spin"}
    /\ st["C"] \in {"none", "ready", "sem"}
    /\ st["P"] \in {"none", "ready", "delay"}
    /\ st["W"] \in {"none", "ready"}

(* Until the scheduler starts no task has run; then all are created.       *)
Started ==
    /\ pc["main"] # "gone" =>
          /\ pc["C"] = "take" /\ pc["P"] = "send" /\ i = 1 /\ consumed = 0 /\ taken = 0
          /\ queue = << >> /\ sem = 0
          /\ \A t \in Tasks : st[t] \in {"none", "ready"}
    /\ pc["main"] \in {"start", "gone"} => \A t \in Tasks : st[t] # "none"

(* The Consumer waits only for a unit that is not there, the Producer only *)
(* for ticks that are still to come.                                       *)
Waits ==
    /\ st["C"] = "sem" => pc["C"] = "take" /\ sem = 0
    /\ st["P"] = "delay" => pc["P"] = "send" /\ delay >= 1

(* Items queued, units given and items received, against the two loops.    *)
Accounts ==
    /\ consumed + Len(queue) = (i - 1) + Holding("P", "give") + Holding("P", "delay")
    /\ sem + taken = (i - 1) + Holding("P", "delay")
    /\ taken = consumed + Holding("C", "receive")

(* Where the loops end.                                                    *)
Ends ==
    /\ pc["P"] # "send" => i <= NUM_ITEMS
    /\ pc["C"] \in {"take", "receive"} => consumed < NUM_ITEMS
    /\ pc["C"] = "pass" => consumed = NUM_ITEMS
    /\ tohost = 1 => pc["C"] = "pass"

(* Without the tick the Producer does not come back from its first delay.  *)
Stalled == neg => i = 1 \/ (i = 2 /\ st["P"] = "delay")

(* The transmitter is idle for the context that has just seen it idle, and *)
(* for one that sees itself resumed.                                       *)
Idle ==
    /\ pc["main"] # "boot" => uart.fast
    /\ free[cur] => ~uart.busy
    /\ ~uart.lost

DemoInv == TypeOK /\ Places /\ Started /\ Waits /\ Accounts /\ Ends /\ Stalled /\ Idle

---------------------------------------------------------------------------
(* Who runs.                                                               *)

LEMMA PrioFacts == Prio["C"] = 3 /\ Prio["P"] = 2 /\ Prio["W"] = 1
BY DEF Prio

LEMMA AtFacts ==
    ASSUME NEW s
    PROVE  /\ At("main", s) => /\ cur = "main" /\ out["main"] = << >> /\ pc["main"] = s
                               /\ pc["main"] # "gone"
           /\ At("C", s) => /\ cur = "C" /\ out["C"] = << >> /\ pc["C"] = s
                            /\ pc["main"] = "gone" /\ st["C"] = "ready"
           /\ At("P", s) => /\ cur = "P" /\ out["P"] = << >> /\ pc["P"] = s
                            /\ pc["main"] = "gone" /\ st["P"] = "ready" /\ st["C"] # "ready"
           /\ At("W", s) => /\ cur = "W" /\ out["W"] = << >> /\ pc["W"] = s
                            /\ pc["main"] = "gone" /\ st["W"] = "ready"
                            /\ st["C"] # "ready" /\ st["P"] # "ready"
BY PrioFacts DEF At, Running, IsTop, Ready, Tasks

LEMMA TaskRuns ==
    ASSUME NEW t \in Tasks, Running(t) PROVE cur = t /\ pc["main"] = "gone"
BY DEF Running, IsTop, Tasks

LEMMA PieceTypes ==
    /\ \A n \in Nat : /\ Line("send", n) \in Seq(Pieces) /\ Line("got", n) \in Seq(Pieces)
                      /\ Line("run", n) \in Seq(Pieces)
    /\ \A l \in Plain : Text(l) \in Seq(Pieces)
<1>1. \A l \in Plain \union Numbered, p \in {"head", "num", "eol"}, n \in Nat :
         Piece(l, p, n) \in Pieces
  BY DEF Piece, Pieces
<1>2. \A a, b, c \in Pieces : <<a, b, c>> \in Seq(Pieces) /\ <<a, b>> \in Seq(Pieces)
  OBVIOUS
<1> QED
  BY <1>1, <1>2 DEF Line, Text, Numbered

LEMMA AppendType ==
    ASSUME NEW S, NEW s \in Seq(S), NEW e \in S PROVE Append(s, e) \in Seq(S)
OBVIOUS

LEMMA HeadTailType ==
    ASSUME NEW S, NEW s \in Seq(S), s # << >> PROVE Head(s) \in S /\ Tail(s) \in Seq(S)
OBVIOUS

---------------------------------------------------------------------------
(* Types.                                                                  *)
Pcs == {"boot", "create", "start", "gone", "send", "give", "delay",
        "take", "receive", "check", "pass", "enter", "spin"}
Sts == {"none", "ready", "delay", "sem", "queue", "space"}

LEMMA GotoType ==
    ASSUME TypeOK, NEW t \in Contexts, NEW s \in Pcs, Goto(t, s) PROVE pc' \in [Contexts -> Pcs]
BY DEF TypeOK, Goto, Pcs

LEMMA SayType ==
    ASSUME TypeOK, NEW t \in Contexts, NEW s \in Pcs, NEW p \in Seq(Pieces), Say(t, p, s)
    PROVE  out' \in [Contexts -> Seq(Pieces)] /\ pc' \in [Contexts -> Pcs]
BY GotoType DEF TypeOK, Say

LEMMA StType ==
    ASSUME TypeOK, NEW t \in Tasks, NEW why \in Sts, Block(t, why) \/ Wake(t, why)
    PROVE  st' \in [Tasks -> Sts]
BY DEF TypeOK, Block, Wake, Sts

LEMMA TypeInit == Init => TypeOK
<1> SUFFICES ASSUME Init PROVE TypeOK
  OBVIOUS
<1>1. pc \in [Contexts -> Pcs]
  BY DEF Init, Entry, Contexts, Tasks, Pcs
<1>2. << >> \in Seq(Pieces) /\ << >> \in Seq(1 .. NUM_ITEMS)
  OBVIOUS
<1>3. out \in [Contexts -> Seq(Pieces)] /\ console \in Seq(Pieces)
  BY <1>2 DEF Init
<1>4. /\ uart \in [fast : BOOLEAN, busy : BOOLEAN, lost : BOOLEAN]
      /\ st \in [Tasks -> Sts] /\ free \in [Contexts -> BOOLEAN] /\ cur \in Contexts
  BY DEF Init, Sts, Contexts
<1>5. /\ delay \in 0 .. DELAY /\ i \in 1 .. (NUM_ITEMS + 1) /\ sem \in 0 .. NUM_ITEMS
      /\ reports \in 0 .. REPORTS
  BY RtosAssumption DEF Init
<1> QED
  BY <1>1, <1>2, <1>3, <1>4, <1>5 DEF Init, TypeOK, Pcs, Sts

LEMMA TypeConsole ==
    ASSUME TypeOK, Putc \/ TxDone \/ Switch PROVE TypeOK'
<1> USE DEF kernel, app, ipc, io
<1>1. ASSUME NEW t \in Contexts, uart_putc_Poll(t) PROVE TypeOK'
  BY <1>1 DEF TypeOK, uart_putc_Poll
<1>2. ASSUME NEW t \in Contexts, uart_putc_Store(t) PROVE TypeOK'
  <2>1. Head(out[t]) \in Pieces /\ Tail(out[t]) \in Seq(Pieces)
    BY <1>2 DEF TypeOK, uart_putc_Store
  <2>2. out' \in [Contexts -> Seq(Pieces)] /\ free' \in [Contexts -> BOOLEAN]
    BY <1>2, <2>1 DEF TypeOK, uart_putc_Store
  <2>3. console' \in Seq(Pieces)
    <3>1. console \in Seq(Pieces) /\ console' \in {console, Append(console, Head(out[t]))}
      BY <1>2 DEF TypeOK, uart_putc_Store
    <3> QED
      BY <2>1, <3>1, AppendType
  <2>4. uart' \in [fast : BOOLEAN, busy : BOOLEAN, lost : BOOLEAN]
    BY <1>2 DEF TypeOK, uart_putc_Store
  <2> QED
    BY <1>2, <2>2, <2>3, <2>4 DEF TypeOK, uart_putc_Store
<1>3. ASSUME TxDone PROVE TypeOK'
  BY <1>3 DEF TypeOK, TxDone
<1>4. ASSUME NEW t \in Tasks, Dispatch(t) PROVE TypeOK'
  BY <1>4 DEF TypeOK, Dispatch, Contexts
<1> QED
  BY <1>1, <1>2, <1>3, <1>4 DEF Putc, Switch

LEMMA TypeKernel ==
    ASSUME DemoInv, Main \/ Tick PROVE TypeOK'
<1> USE DEF kernel, app, ipc, io
<1>t. TypeOK /\ "main" \in Contexts /\ "P" \in Tasks
  BY DEF DemoInv, Contexts, Tasks
<1>1. CASE main_Boot
  <2>1. Text("boot") \in Seq(Pieces)
    BY PieceTypes DEF Plain
  <2>2. out' \in [Contexts -> Seq(Pieces)] /\ pc' \in [Contexts -> Pcs]
    BY <1>1, <1>t, <2>1, SayType DEF main_Boot, Pcs
  <2> QED
    BY <1>1, <1>t, <2>2 DEF TypeOK, main_Boot, uart_init, Pcs
<1>2. CASE main_Create
  <2>1. (IF neg THEN Text("neg") ELSE << >>) \in Seq(Pieces)
    BY PieceTypes DEF Plain
  <2>2. out' \in [Contexts -> Seq(Pieces)] /\ pc' \in [Contexts -> Pcs]
    BY <1>2, <1>t, <2>1, SayType DEF main_Create, Pcs
  <2>3. st' \in [Tasks -> Sts]
    BY <1>2 DEF main_Create, Sts
  <2> QED
    BY <1>2, <1>t, <2>2, <2>3, RtosAssumption DEF TypeOK, main_Create, Pcs, Sts
<1>3. CASE vTaskStartScheduler
  BY <1>3, <1>t, GotoType DEF TypeOK, vTaskStartScheduler, Pcs
<1>4. CASE Tick
  <2>1. st' \in [Tasks -> Sts]
    BY <1>4, <1>t DEF TypeOK, Tick, Sts
  <2>2. delay' \in 0 .. DELAY
    BY <1>4, <1>t, RtosAssumption DEF TypeOK, Tick, DemoInv, Waits
  <2> QED
    BY <1>4, <1>t, <2>1, <2>2 DEF TypeOK, Tick, Sts
<1> QED
  BY <1>1, <1>2, <1>3, <1>4 DEF Main

LEMMA TypeTasks ==
    ASSUME DemoInv, Producer \/ Consumer \/ Worker PROVE TypeOK'
<1> USE DEF kernel, app, ipc, io
<1>t. TypeOK /\ Tasks \subseteq Contexts /\ "C" \in Tasks /\ "P" \in Tasks /\ "W" \in Tasks
  BY DEF DemoInv, Contexts, Tasks
<1>1. CASE xQueueSend
  <2>1. i \in 1 .. NUM_ITEMS /\ Line("send", i) \in Seq(Pieces)
    BY <1>1, <1>t, PieceTypes, RtosAssumption DEF TypeOK, xQueueSend
  <2>2. out' \in [Contexts -> Seq(Pieces)] /\ pc' \in [Contexts -> Pcs]
    BY <1>1, <1>t, <2>1, SayType DEF TypeOK, xQueueSend, Pcs
  <2>3. st' \in [Tasks -> Sts]
    BY <1>1, <1>t, StType DEF xQueueSend, Sts
  <2>4. queue' \in Seq(1 .. NUM_ITEMS)
    <3>1. queue \in Seq(1 .. NUM_ITEMS) /\ queue' \in {queue, Append(queue, i)}
      BY <1>1, <1>t DEF TypeOK, xQueueSend
    <3> QED
      BY <2>1, <3>1, AppendType, Zenon
  <2> QED
    BY <1>1, <1>t, <2>2, <2>3, <2>4 DEF TypeOK, xQueueSend, Pcs, Sts
<1>2. CASE xSemaphoreGive
  <2>1. pc' \in [Contexts -> Pcs] /\ st' \in [Tasks -> Sts]
    BY <1>2, <1>t, GotoType, StType DEF xSemaphoreGive, Pcs, Sts
  <2>2. sem' \in 0 .. NUM_ITEMS
    BY <1>2, <1>t, RtosAssumption DEF TypeOK, xSemaphoreGive
  <2> QED
    BY <1>2, <1>t, <2>1, <2>2 DEF TypeOK, xSemaphoreGive, Pcs, Sts
<1>3. CASE vTaskDelay
  <2>1. pc' \in [Contexts -> Pcs] /\ st' \in [Tasks -> Sts]
    BY <1>3, <1>t, GotoType, StType DEF vTaskDelay, Pcs, Sts
  <2>2. delay' \in 0 .. DELAY /\ i' \in 1 .. (NUM_ITEMS + 1)
    BY <1>3, <1>t, AtFacts, RtosAssumption DEF TypeOK, DemoInv, Ends, vTaskDelay
  <2> QED
    BY <1>3, <1>t, <2>1, <2>2 DEF TypeOK, vTaskDelay, Pcs, Sts
<1>4. CASE xSemaphoreTake
  <2>1. Text("sem") \in Seq(Pieces)
    BY PieceTypes DEF Plain
  <2>2. out' \in [Contexts -> Seq(Pieces)] /\ pc' \in [Contexts -> Pcs]
    BY <1>4, <1>t, <2>1, SayType DEF TypeOK, xSemaphoreTake, Pcs
  <2>3. st' \in [Tasks -> Sts]
    BY <1>4, <1>t, StType DEF TypeOK, xSemaphoreTake, Sts
  <2>4. sem' \in 0 .. NUM_ITEMS /\ taken' \in Nat
    BY <1>4, <1>t, RtosAssumption DEF TypeOK, xSemaphoreTake
  <2> QED
    BY <1>4, <1>t, <2>2, <2>3, <2>4 DEF TypeOK, xSemaphoreTake, Pcs, Sts
<1>5. CASE xQueueReceive
  <2>1. queue # << >> => /\ Head(queue) \in Nat /\ Line("got", Head(queue)) \in Seq(Pieces)
                         /\ Tail(queue) \in Seq(1 .. NUM_ITEMS)
    <3>1. queue # << >> => Head(queue) \in 1 .. NUM_ITEMS /\ Tail(queue) \in Seq(1 .. NUM_ITEMS)
      BY <1>t, HeadTailType, Zenon DEF TypeOK
    <3>2. \A n \in 1 .. NUM_ITEMS : n \in Nat
      BY RtosAssumption
    <3> QED
      BY <3>1, <3>2, PieceTypes, Zenon
  <2>2. out' \in [Contexts -> Seq(Pieces)] /\ pc' \in [Contexts -> Pcs]
    BY <1>5, <1>t, <2>1, SayType DEF TypeOK, xQueueReceive, Pcs
  <2>3. st' \in [Tasks -> Sts]
    BY <1>5, <1>t, StType DEF TypeOK, xQueueReceive, Sts
  <2>4. queue' \in Seq(1 .. NUM_ITEMS) /\ consumed' \in Nat
    <3>1. CASE queue = << >>
      BY <1>5, <1>t, <3>1 DEF TypeOK, xQueueReceive
    <3>2. CASE queue # << >>
      <4>1. queue' = Tail(queue) /\ consumed' = consumed + 1
        BY <1>5, <3>2 DEF xQueueReceive
      <4>2. consumed \in Nat
        BY <1>t DEF TypeOK
      <4>3. queue' \in Seq(1 .. NUM_ITEMS)
        BY <2>1, <3>2, <4>1, Zenon
      <4> QED
        BY <4>1, <4>2, <4>3
    <3> QED
      BY <3>1, <3>2
  <2> QED
    BY <1>5, <1>t, <2>2, <2>3, <2>4 DEF TypeOK, xQueueReceive, Pcs, Sts
<1>6. CASE vConsumer_Check
  <2>1. Text("done") \in Seq(Pieces) /\ << >> \in Seq(Pieces)
    BY PieceTypes DEF Plain
  <2>2. out' \in [Contexts -> Seq(Pieces)] /\ pc' \in [Contexts -> Pcs]
    BY <1>6, <1>t, <2>1, SayType DEF vConsumer_Check, Pcs
  <2> QED
    BY <1>6, <1>t, <2>2 DEF TypeOK, vConsumer_Check, Pcs
<1>7. CASE sim_pass
  BY <1>7, <1>t DEF TypeOK, sim_pass
<1>8. CASE vWorker_Enter
  BY <1>8, <1>t, GotoType DEF TypeOK, vWorker_Enter, Pcs
<1>9. CASE vWorker_Spin
  <2>1. Line("run", 0) \in Seq(Pieces)
    BY PieceTypes
  <2>2. out' \in [Contexts -> Seq(Pieces)] /\ pc' \in [Contexts -> Pcs]
    BY <1>9, <1>t, <2>1, SayType DEF TypeOK, vWorker_Spin, Pcs
  <2>3. reports' \in 0 .. REPORTS
    BY <1>9, <1>t, RtosAssumption DEF TypeOK, vWorker_Spin
  <2> QED
    BY <1>9, <1>t, <2>2, <2>3 DEF TypeOK, vWorker_Spin, Pcs
<1> QED
  BY <1>1, <1>2, <1>3, <1>4, <1>5, <1>6, <1>7, <1>8, <1>9 DEF Producer, Consumer, Worker

---------------------------------------------------------------------------
(* Control: where the contexts are and what they have done.                *)
Control == Places /\ Started /\ Waits /\ Accounts /\ Ends /\ Stalled

LEMMA ControlFrame ==
    ASSUME DemoInv, UNCHANGED <<neg, st, delay, i, consumed, taken, queue, sem, tohost>>,
           \A t \in Contexts \ {"W"} : pc'[t] = pc[t],
           pc'["W"] \in {"enter", "spin"}
    PROVE  Control'
<1>1. pc'["main"] = pc["main"] /\ pc'["C"] = pc["C"] /\ pc'["P"] = pc["P"]
  BY DEF Contexts, Tasks
<1>2. Places' /\ Started' /\ Waits'
  BY <1>1 DEF DemoInv, Places, Started, Waits
<1>3. Accounts' /\ Ends' /\ Stalled'
  BY <1>1 DEF DemoInv, Accounts, Ends, Stalled, Holding
<1> QED
  BY <1>2, <1>3 DEF Control

LEMMA ControlMain ==
    ASSUME DemoInv, Main PROVE Control'
<1> USE DEF kernel, app, ipc, io
<1>t. TypeOK /\ "main" \in Contexts /\ "C" \in Contexts /\ "P" \in Contexts /\ "W" \in Contexts
  BY DEF DemoInv, Contexts, Tasks
<1>p. ASSUME NEW s, Goto("main", s)
      PROVE  /\ pc'["main"] = s /\ pc'["C"] = pc["C"] /\ pc'["P"] = pc["P"]
             /\ pc'["W"] = pc["W"]
  BY <1>t, <1>p DEF Goto, TypeOK
<1>1. CASE main_Boot
  <2>1. /\ pc["main"] = "boot" /\ pc'["main"] = "create" /\ pc'["C"] = pc["C"]
        /\ pc'["P"] = pc["P"] /\ pc'["W"] = pc["W"]
    BY <1>1, <1>p, AtFacts DEF main_Boot, Say
  <2>2. Places' /\ Started' /\ Waits'
    BY <1>1, <2>1 DEF DemoInv, Places, Started, Waits, main_Boot
  <2>3. Accounts' /\ Ends' /\ Stalled'
    BY <1>1, <2>1 DEF DemoInv, Accounts, Ends, Stalled, Holding, main_Boot
  <2> QED
    BY <2>2, <2>3 DEF Control
<1>2. CASE main_Create
  <2>1. /\ pc["main"] = "create" /\ pc'["main"] = "start" /\ pc'["C"] = pc["C"]
        /\ pc'["P"] = pc["P"] /\ pc'["W"] = pc["W"]
    BY <1>2, <1>p, AtFacts DEF main_Create, Say
  <2>2. \A t \in Tasks : st'[t] = "ready"
    BY <1>2 DEF main_Create
  <2>3. pc["C"] = "take" /\ pc["P"] = "send" /\ i = 1 /\ consumed = 0 /\ taken = 0
        /\ queue = << >> /\ sem = 0
    BY <2>1 DEF DemoInv, Started
  <2>4. Places' /\ Started' /\ Waits'
    BY <1>2, <2>1, <2>2, <2>3 DEF DemoInv, Places, Started, Waits, main_Create, Tasks
  <2>5. Accounts' /\ Ends' /\ Stalled'
    BY <1>2, <2>1, <2>3 DEF DemoInv, Accounts, Ends, Stalled, Holding, main_Create
  <2> QED
    BY <2>4, <2>5 DEF Control
<1>3. CASE vTaskStartScheduler
  <2>1. /\ pc["main"] = "start" /\ pc'["main"] = "gone" /\ pc'["C"] = pc["C"]
        /\ pc'["P"] = pc["P"] /\ pc'["W"] = pc["W"]
    BY <1>3, <1>p, AtFacts DEF vTaskStartScheduler
  <2>2. Places' /\ Started' /\ Waits'
    BY <1>3, <2>1 DEF DemoInv, Places, Started, Waits, vTaskStartScheduler
  <2>3. Accounts' /\ Ends' /\ Stalled'
    BY <1>3, <2>1 DEF DemoInv, Accounts, Ends, Stalled, Holding, vTaskStartScheduler
  <2> QED
    BY <2>2, <2>3 DEF Control
<1> QED
  BY <1>1, <1>2, <1>3 DEF Main

LEMMA ControlTick ==
    ASSUME DemoInv, Tick PROVE Control'
<1> USE DEF kernel, app, ipc, io
<1>t. TypeOK /\ "C" \in Tasks /\ "P" \in Tasks /\ "W" \in Tasks
  BY DEF DemoInv, Tasks
<1>1. st'["C"] = st["C"] /\ st'["W"] = st["W"] /\ pc["main"] = "gone" /\ ~neg
  BY <1>t DEF TypeOK, Tick
<1>2. \/ st["P"] # "delay" /\ st'["P"] = st["P"] /\ delay' = delay
      \/ st["P"] = "delay" /\ delay = 1 /\ st'["P"] = "ready"
      \/ st["P"] = "delay" /\ delay # 1 /\ delay' = delay - 1 /\ st'["P"] = "delay"
  BY <1>t DEF TypeOK, Tick
<1>3. Places' /\ Ends' /\ Stalled' /\ Accounts'
  BY <1>1, <1>2 DEF DemoInv, Places, Ends, Stalled, Accounts, Holding, Tick
<1>4. Started'
  BY <1>1, <1>2 DEF DemoInv, Started, Tick, Tasks
<1>5. Waits'
  <2>1. delay \in Nat
    BY <1>t, RtosAssumption DEF TypeOK
  <2> QED
    BY <1>1, <1>2, <2>1 DEF DemoInv, Waits, Tick
<1> QED
  BY <1>3, <1>4, <1>5 DEF Control

(* The same accounts, with the types the arithmetic needs.                 *)
Books ==
    /\ Len(queue) \in Nat /\ sem \in Nat /\ taken \in Nat /\ consumed \in Nat
    /\ i \in Nat /\ i >= 1 /\ delay \in Nat
    /\ Holding("C", "receive") \in Nat /\ Holding("P", "give") \in Nat
    /\ Holding("P", "delay") \in Nat
    /\ consumed + Len(queue) = (i - 1) + Holding("P", "give") + Holding("P", "delay")
    /\ sem + taken = (i - 1) + Holding("P", "delay")
    /\ taken = consumed + Holding("C", "receive")

LEMMA Counts == DemoInv => Books
<1> SUFFICES ASSUME DemoInv PROVE Books
  OBVIOUS
<1>1. TypeOK
  BY DEF DemoInv
<1>2. Len(queue) \in Nat
  BY <1>1 DEF TypeOK
<1>3. /\ Holding("C", "receive") \in Nat /\ Holding("P", "give") \in Nat
      /\ Holding("P", "delay") \in Nat
  BY DEF Holding
<1>4. /\ sem \in Nat /\ taken \in Nat /\ consumed \in Nat
      /\ i \in Nat /\ i >= 1 /\ delay \in Nat
  BY <1>1, RtosAssumption DEF TypeOK
<1> QED
  BY <1>2, <1>3, <1>4 DEF DemoInv, Accounts, Books

(* When the Producer runs, the Consumer has taken all there was.           *)
LEMMA ProducerAlone ==
    ASSUME DemoInv, NEW s, At("P", s)
    PROVE  /\ pc["P"] = s /\ st["P"] = "ready" /\ pc["main"] = "gone"
           /\ st["C"] = "sem" /\ pc["C"] = "take" /\ sem = 0
<1>1. /\ pc["P"] = s /\ st["P"] = "ready" /\ pc["main"] = "gone" /\ st["C"] # "ready"
  BY AtFacts
<1>2. st["C"] = "sem"
  BY <1>1 DEF DemoInv, Places, Started, Tasks
<1> QED
  BY <1>1, <1>2 DEF DemoInv, Waits

LEMMA ControlProducer ==
    ASSUME DemoInv, Producer PROVE Control'
<1> USE DEF kernel, app, ipc, io
<1>t. /\ TypeOK /\ "C" \in Tasks /\ "P" \in Tasks /\ "W" \in Tasks
      /\ "main" \in Contexts /\ "C" \in Contexts /\ "P" \in Contexts /\ "W" \in Contexts
  BY DEF DemoInv, Contexts, Tasks
<1>c. Books
  BY Counts
<1>p. ASSUME NEW s, Goto("P", s)
      PROVE  /\ pc'["P"] = s /\ pc'["C"] = pc["C"] /\ pc'["main"] = pc["main"]
             /\ pc'["W"] = pc["W"]
  BY <1>t, <1>p DEF Goto, TypeOK
<1>1. CASE xQueueSend
  <2>1. /\ pc["P"] = "send" /\ st["P"] = "ready" /\ pc["main"] = "gone"
        /\ st["C"] = "sem" /\ pc["C"] = "take" /\ sem = 0 /\ i <= NUM_ITEMS
    BY <1>1, ProducerAlone DEF xQueueSend
  <2>2. Len(queue) = 0
    BY <2>1, <1>c DEF Books, DemoInv, Accounts, Holding
  <2>3. queue' = Append(queue, i) /\ Wake("C", "queue") /\ Goto("P", "give")
    BY <1>1, <2>2, RtosAssumption DEF xQueueSend, Say
  <2>4. Len(queue') = Len(queue) + 1
    BY <2>3, <1>t DEF TypeOK
  <2>5. \A t \in Tasks : st'[t] = st[t]
    BY <2>1, <2>3, <1>t DEF TypeOK, Wake
  <2>6. /\ pc'["P"] = "give" /\ pc'["C"] = pc["C"] /\ pc'["main"] = pc["main"]
        /\ pc'["W"] = pc["W"]
    BY <2>3, <1>p
  <2>7. Places' /\ Started' /\ Waits'
    BY <1>1, <1>t, <2>1, <2>5, <2>6 DEF DemoInv, Places, Started, Waits, xQueueSend
  <2>8. Accounts' /\ Ends' /\ Stalled'
    BY <1>1, <1>t, <2>1, <2>4, <2>5, <2>6, <1>c
       DEF Books, DemoInv, Accounts, Ends, Stalled, Holding, xQueueSend
  <2> QED
    BY <2>7, <2>8 DEF Control
<1>2. CASE xSemaphoreGive
  <2>1. /\ pc["P"] = "give" /\ st["P"] = "ready" /\ pc["main"] = "gone"
        /\ st["C"] = "sem" /\ pc["C"] = "take" /\ sem = 0
    BY <1>2, ProducerAlone DEF xSemaphoreGive
  <2>2. sem' = 1
    BY <1>2, <2>1, RtosAssumption DEF xSemaphoreGive
  <2>3. st'["C"] = "ready" /\ st'["P"] = st["P"] /\ st'["W"] = st["W"]
    BY <1>2, <1>t, <2>1 DEF TypeOK, Wake, xSemaphoreGive
  <2>4. /\ pc'["P"] = "delay" /\ pc'["C"] = pc["C"] /\ pc'["main"] = pc["main"]
        /\ pc'["W"] = pc["W"]
    BY <1>2, <1>p DEF xSemaphoreGive
  <2>5. Places' /\ Started' /\ Waits'
    BY <1>2, <2>1, <2>3, <2>4 DEF DemoInv, Places, Started, Waits, xSemaphoreGive, Tasks
  <2>6. Accounts' /\ Ends' /\ Stalled'
    BY <1>2, <2>1, <2>2, <2>3, <2>4, <1>c
       DEF Books, DemoInv, Accounts, Ends, Stalled, Holding, xSemaphoreGive
  <2> QED
    BY <2>5, <2>6 DEF Control
<1>3. CASE vTaskDelay
  <2>1. /\ pc["P"] = "delay" /\ st["P"] = "ready" /\ pc["main"] = "gone"
        /\ st["C"] = "sem" /\ pc["C"] = "take" /\ sem = 0
    BY <1>3, ProducerAlone DEF vTaskDelay
  <2>2. st'["P"] = "delay" /\ st'["C"] = st["C"] /\ st'["W"] = st["W"] /\ delay' >= 1
    BY <1>3, <1>t, RtosAssumption DEF TypeOK, Block, vTaskDelay
  <2>3. /\ pc'["P"] = "send" /\ pc'["C"] = pc["C"] /\ pc'["main"] = pc["main"]
        /\ pc'["W"] = pc["W"] /\ i' = i + 1
    BY <1>3, <1>p DEF vTaskDelay
  <2>4. Places' /\ Started' /\ Waits'
    BY <1>3, <2>1, <2>2, <2>3 DEF DemoInv, Places, Started, Waits, vTaskDelay, Tasks
  <2>5. Accounts'
    <3>1. /\ Holding("P", "delay") = 1 /\ Holding("P", "delay")' = 0
          /\ Holding("P", "give") = 0 /\ Holding("P", "give")' = 0
          /\ Holding("C", "receive")' = Holding("C", "receive")
      BY <2>1, <2>3 DEF Holding
    <3>2. UNCHANGED <<sem, taken, consumed, queue>>
      BY <1>3 DEF vTaskDelay
    <3> QED
      BY <2>3, <3>1, <3>2, <1>c, SMTT(30) DEF Books, Accounts
  <2>6. Ends' /\ Stalled'
    BY <1>3, <2>1, <2>2, <2>3, <1>c DEF Books, DemoInv, Ends, Stalled, vTaskDelay
  <2> QED
    BY <2>4, <2>5, <2>6 DEF Control
<1> QED
  BY <1>1, <1>2, <1>3 DEF Producer

LEMMA ControlConsumer ==
    ASSUME DemoInv, Consumer PROVE Control'
<1> USE DEF kernel, app, ipc, io
<1>t. /\ TypeOK /\ "C" \in Tasks /\ "P" \in Tasks /\ "W" \in Tasks
      /\ "main" \in Contexts /\ "C" \in Contexts /\ "P" \in Contexts /\ "W" \in Contexts
  BY DEF DemoInv, Contexts, Tasks
<1>c. Books
  BY Counts
<1>p. ASSUME NEW s, Goto("C", s)
      PROVE  /\ pc'["C"] = s /\ pc'["P"] = pc["P"] /\ pc'["main"] = pc["main"]
             /\ pc'["W"] = pc["W"]
  BY <1>t, <1>p DEF Goto, TypeOK
<1>a. ASSUME NEW s, At("C", s)
      PROVE  pc["C"] = s /\ st["C"] = "ready" /\ pc["main"] = "gone"
  BY <1>a, AtFacts
<1>1. CASE xSemaphoreTake /\ sem > 0
  <2>1. /\ pc["C"] = "take" /\ st["C"] = "ready" /\ pc["main"] = "gone"
        /\ sem' = sem - 1 /\ taken' = taken + 1 /\ UNCHANGED st /\ Goto("C", "receive")
    BY <1>1, <1>a DEF xSemaphoreTake, Say
  <2>2. /\ pc'["C"] = "receive" /\ pc'["P"] = pc["P"] /\ pc'["main"] = pc["main"]
        /\ pc'["W"] = pc["W"]
    BY <2>1, <1>p
  <2>3. Places' /\ Started' /\ Waits'
    BY <1>1, <2>1, <2>2 DEF DemoInv, Places, Started, Waits, xSemaphoreTake
  <2>4. Accounts'
    BY <1>1, <2>1, <2>2, <1>c DEF Books, DemoInv, Accounts, Holding, xSemaphoreTake
  <2>5. Ends' /\ Stalled'
    BY <1>1, <2>1, <2>2 DEF DemoInv, Ends, Stalled, xSemaphoreTake
  <2> QED
    BY <2>3, <2>4, <2>5 DEF Control
<1>2. CASE xSemaphoreTake /\ ~(sem > 0)
  <2>1. /\ pc["C"] = "take" /\ st["C"] = "ready" /\ pc["main"] = "gone"
        /\ Block("C", "sem") /\ UNCHANGED <<sem, taken, pc>> /\ sem = 0
    BY <1>2, <1>a, <1>c DEF Books, xSemaphoreTake
  <2>2. st'["C"] = "sem" /\ st'["P"] = st["P"] /\ st'["W"] = st["W"]
    BY <1>t, <2>1 DEF TypeOK, Block
  <2>3. Places' /\ Started' /\ Waits'
    BY <1>2, <2>1, <2>2 DEF DemoInv, Places, Started, Waits, xSemaphoreTake, Tasks
  <2>4. Accounts' /\ Ends' /\ Stalled'
    BY <1>2, <2>1, <2>2 DEF DemoInv, Accounts, Holding, Ends, Stalled, xSemaphoreTake
  <2> QED
    BY <2>3, <2>4 DEF Control
<1>3. CASE xQueueReceive
  <2>1. pc["C"] = "receive" /\ st["C"] = "ready" /\ pc["main"] = "gone"
    BY <1>3, <1>a DEF xQueueReceive
  <2>2. Len(queue) >= 1
    <3>1. Holding("C", "receive") = 1
      BY <2>1 DEF Holding
    <3> QED
      BY <3>1, <1>c, SMTT(30) DEF Books
  <2>3. queue # << >> /\ Len(Tail(queue)) = Len(queue) - 1
    BY <2>2, <1>t DEF TypeOK
  <2>4. /\ queue' = Tail(queue) /\ consumed' = consumed + 1 /\ Wake("P", "space")
        /\ Goto("C", "check")
    BY <1>3, <2>3 DEF xQueueReceive, Say
  <2>5. /\ pc'["C"] = "check" /\ pc'["P"] = pc["P"] /\ pc'["main"] = pc["main"]
        /\ pc'["W"] = pc["W"]
    BY <2>4, <1>p
  <2>6. \A t \in Tasks : st'[t] = st[t]
    BY <2>4, <1>t DEF DemoInv, TypeOK, Wake, Places
  <2>7. Places' /\ Started' /\ Waits'
    BY <1>3, <1>t, <2>1, <2>5, <2>6 DEF DemoInv, Places, Started, Waits, xQueueReceive
  <2>8. Accounts'
    <3>1. /\ Holding("C", "receive") = 1 /\ Holding("C", "receive")' = 0
          /\ Holding("P", "give")' = Holding("P", "give")
          /\ Holding("P", "delay")' = Holding("P", "delay")
      BY <2>1, <2>5 DEF Holding
    <3>2. /\ sem' = sem /\ taken' = taken /\ i' = i /\ consumed' = consumed + 1
          /\ Len(queue') = Len(queue) - 1
      BY <1>3, <2>3, <2>4 DEF xQueueReceive
    <3> QED
      BY <3>1, <3>2, <1>c DEF Books, Accounts
  <2>9. Ends' /\ Stalled'
    BY <1>3, <1>t, <2>1, <2>5, <2>6 DEF DemoInv, Ends, Stalled, xQueueReceive
  <2> QED
    BY <2>7, <2>8, <2>9 DEF Control
<1>4. CASE vConsumer_Check
  <2>1. /\ pc["C"] = "check" /\ st["C"] = "ready" /\ pc["main"] = "gone"
        /\ Goto("C", IF consumed = NUM_ITEMS THEN "pass" ELSE "take")
    BY <1>4, <1>a DEF vConsumer_Check, Say
  <2>2. /\ pc'["C"] = IF consumed = NUM_ITEMS THEN "pass" ELSE "take"
        /\ pc'["P"] = pc["P"] /\ pc'["main"] = pc["main"] /\ pc'["W"] = pc["W"]
    BY <2>1, <1>p
  <2>3. consumed <= NUM_ITEMS
    BY <1>t, <1>c, RtosAssumption DEF Books, TypeOK, DemoInv, Accounts, Ends, Holding, Places
  <2>4. Places' /\ Started' /\ Waits'
    BY <1>4, <2>1, <2>2 DEF DemoInv, Places, Started, Waits, vConsumer_Check
  <2>5. Accounts'
    BY <1>4, <2>1, <2>2, <1>c DEF Books, DemoInv, Accounts, Holding, vConsumer_Check
  <2>6. Ends' /\ Stalled'
    BY <1>4, <2>1, <2>2, <2>3, <1>c, RtosAssumption DEF Books, DemoInv, Ends, Stalled, vConsumer_Check
  <2> QED
    BY <2>4, <2>5, <2>6 DEF Control
<1>5. CASE sim_pass
  <2>1. pc["C"] = "pass"
    BY <1>5, <1>a DEF sim_pass
  <2> QED
    BY <1>5, <2>1 DEF DemoInv, Control, Places, Started, Waits, Accounts, Holding, Ends,
                      Stalled, sim_pass
<1> QED
  BY <1>1, <1>2, <1>3, <1>4, <1>5 DEF Consumer

LEMMA ControlStep ==
    ASSUME DemoInv, Next PROVE Control'
<1> USE DEF kernel, app, ipc, io
<1>t. TypeOK /\ "W" \in Contexts /\ pc["W"] \in {"enter", "spin"}
  BY DEF DemoInv, Contexts, Tasks, Places
<1>1. CASE Putc \/ TxDone \/ Switch
  <2>1. UNCHANGED <<neg, st, delay, pc, i, consumed, taken, queue, sem, tohost>>
    BY <1>1 DEF Putc, uart_putc_Poll, uart_putc_Store, TxDone, Switch, Dispatch
  <2> QED
    BY <1>t, <2>1, ControlFrame
<1>2. CASE Worker
  <2>1. UNCHANGED <<neg, st, delay, i, consumed, taken, queue, sem, tohost>>
    BY <1>2 DEF Worker, vWorker_Enter, vWorker_Spin
  <2>2. pc' = pc \/ pc' = [pc EXCEPT !["W"] = "spin"]
    BY <1>2 DEF Worker, vWorker_Enter, vWorker_Spin, Say, Goto
  <2>3. pc'["W"] \in {"enter", "spin"} /\ \A t \in Contexts \ {"W"} : pc'[t] = pc[t]
    BY <1>t, <2>2 DEF TypeOK
  <2> QED
    BY <2>1, <2>3, ControlFrame
<1> QED
  BY <1>1, <1>2, ControlMain, ControlTick, ControlProducer, ControlConsumer DEF Next, Cpu

LEMMA IdleStep ==
    ASSUME DemoInv, Next PROVE Idle'
<1> USE DEF kernel, app, ipc, io
<1>t. /\ TypeOK /\ Idle /\ Control'
      /\ uart \in [fast : BOOLEAN, busy : BOOLEAN, lost : BOOLEAN]
  BY ControlStep DEF DemoInv, TypeOK
<1>m. CASE UNCHANGED <<uart, free, cur>> /\ pc["main"] # "boot"
  BY <1>m, <1>t DEF Idle
<1>1. ASSUME NEW t \in Contexts, uart_putc_Poll(t) PROVE Idle'
  BY <1>1, <1>t DEF uart_putc_Poll, Idle, TypeOK, Running
<1>2. ASSUME NEW t \in Contexts, uart_putc_Store(t) PROVE Idle'
  <2>1. cur = t /\ ~uart.busy
    BY <1>2, <1>t DEF uart_putc_Store, Running, Idle
  <2>2. uart' = [uart EXCEPT !.busy = TRUE] /\ free'[t] = FALSE /\ UNCHANGED <<cur, pc>>
    BY <1>2, <1>t, <2>1 DEF uart_putc_Store, TypeOK
  <2> QED
    BY <1>t, <2>1, <2>2 DEF Idle
<1>3. CASE TxDone
  BY <1>3, <1>t DEF TxDone, Idle
<1>4. ASSUME NEW t \in Tasks, Dispatch(t) PROVE Idle'
  <2>1. pc["main"] = "gone"
    BY <1>4 DEF Dispatch, IsTop, Tasks
  <2>2. uart.fast
    BY <1>t, <2>1 DEF Idle
  <2> QED
    BY <1>4, <1>t, <2>2 DEF Dispatch, Idle
<1>5. CASE main_Boot
  BY <1>5, <1>t DEF main_Boot, uart_init, Idle
<1>6. CASE main_Create
  BY <1>6, <1>m, AtFacts DEF main_Create
<1>7. CASE vTaskStartScheduler
  BY <1>7, <1>m, AtFacts DEF vTaskStartScheduler
<1>8. CASE Tick
  BY <1>8, <1>m DEF Tick
<1>9. CASE Producer
  BY <1>9, <1>m, AtFacts DEF Producer, xQueueSend, xSemaphoreGive, vTaskDelay
<1>10. CASE Consumer
  BY <1>10, <1>m, AtFacts
     DEF Consumer, xSemaphoreTake, xQueueReceive, vConsumer_Check, sim_pass
<1>11. CASE Worker
  BY <1>11, <1>m, AtFacts DEF Worker, vWorker_Enter, vWorker_Spin
<1> QED
  BY <1>1, <1>2, <1>3, <1>4, <1>5, <1>6, <1>7, <1>8, <1>9, <1>10, <1>11
     DEF Next, Cpu, Main, Putc, Switch

LEMMA DemoInit == Init => DemoInv
<1> SUFFICES ASSUME Init PROVE DemoInv
  OBVIOUS
<1>1. /\ pc["main"] = "boot" /\ pc["C"] = "take" /\ pc["P"] = "send" /\ pc["W"] = "enter"
      /\ st["C"] = "none" /\ st["P"] = "none" /\ st["W"] = "none" /\ ~free[cur]
      /\ \A t \in Tasks : st[t] = "none"
  BY DEF Init, Entry, Contexts, Tasks
<1>2. Places /\ Started /\ Waits /\ Stalled
  BY <1>1 DEF Init, Places, Started, Waits, Stalled
<1>3. Accounts /\ Ends
  BY <1>1, RtosAssumption DEF Init, Accounts, Ends, Holding
<1>4. Idle
  BY <1>1 DEF Init, Idle
<1> QED
  BY <1>2, <1>3, <1>4, TypeInit DEF DemoInv

LEMMA DemoStep == DemoInv /\ [Next]_vars => DemoInv'
<1> SUFFICES ASSUME DemoInv, [Next]_vars PROVE DemoInv'
  OBVIOUS
<1>1. CASE UNCHANGED vars
  <2>1. TypeOK' /\ Idle'
    BY <1>1 DEF DemoInv, TypeOK, Idle, vars, kernel, app, ipc, io
  <2>2. Places' /\ Started' /\ Waits' /\ Accounts' /\ Ends' /\ Stalled'
    BY <1>1 DEF DemoInv, Places, Started, Waits, Accounts, Holding, Ends, Stalled,
                vars, kernel, app, ipc, io
  <2> QED
    BY <2>1, <2>2 DEF DemoInv
<1>2. CASE Next
  <2>1. TypeOK'
    BY <1>2, TypeConsole, TypeKernel, TypeTasks DEF DemoInv, Next, Cpu
  <2>2. Control' /\ Idle'
    BY <1>2, ControlStep, IdleStep
  <2> QED
    BY <2>1, <2>2 DEF DemoInv, Control
<1> QED
  BY <1>1, <1>2

LEMMA DemoInvariant == Spec => []DemoInv
BY DemoInit, DemoStep, PTL DEF Spec

---------------------------------------------------------------------------
(* Every queued item is announced, held or about to be announced (main.c,  *)
(* xSemaphoreGive after xQueueSend, xSemaphoreTake before xQueueReceive);  *)
(* no call on the queue ever blocks, whatever its length.                  *)
THEOREM WorkConserved == Spec => []WorkAccounted
<1>1. DemoInv => WorkAccounted
  <2> SUFFICES ASSUME DemoInv PROVE WorkAccounted
    OBVIOUS
  <2>1. Books
    BY Counts
  <2>2. Len(queue) = sem + Holding("C", "receive") + Holding("P", "give")
    <3> DEFINE n == Len(queue)
               r == Holding("C", "receive")
               g == Holding("P", "give")
               d == Holding("P", "delay")
    <3>1. /\ n \in Nat /\ sem \in Nat /\ taken \in Nat /\ consumed \in Nat /\ i \in Nat
          /\ r \in Nat /\ g \in Nat /\ d \in Nat
          /\ consumed + n = (i - 1) + g + d /\ sem + taken = (i - 1) + d
          /\ taken = consumed + r
      BY <2>1 DEF Books
    <3> HIDE DEF n, r, g, d
    <3>2. n = sem + r + g
      BY <3>1
    <3> QED
      BY <3>2 DEF n, r, g
  <2> QED
    BY <2>2 DEF WorkAccounted, DemoInv, Places
<1> QED
  BY <1>1, DemoInvariant, PTL

(* The variables of the demo keep their types: the delay never passes 0,   *)
(* the loop counter never passes NUM_ITEMS + 1, xSem its maximum count.    *)
THEOREM TypeCorrect == Spec => []TypeOK
BY DemoInvariant, PTL DEF DemoInv

(* uart_putc never stores to a busy transmitter, although another task may *)
(* have used it since it read TXBUSY (bsp.c, uart_putc).                   *)
THEOREM BytesSent == Spec => []NoByteLost
BY DemoInvariant, PTL DEF DemoInv, Idle, NoByteLost

(* The NEG_NO_TICK build stalls after its first item and never passes      *)
(* (main.c).  The claim needs a second item to wait for: with NUM_ITEMS    *)
(* equal to 1 the demo would pass without a tick.                          *)
THEOREM NegativeControl ==
    ASSUME NUM_ITEMS > 1 PROVE Spec => []NegStalls
<1>1. DemoInv => NegStalls
  <2> SUFFICES ASSUME DemoInv, neg PROVE consumed <= 1 /\ i <= 2 /\ tohost = 0
    BY DEF NegStalls
  <2>1. Books
    BY Counts
  <2>2. i = 1 \/ (i = 2 /\ st["P"] = "delay" /\ pc["P"] = "send")
    BY DEF DemoInv, Stalled, Waits
  <2>3. consumed <= 1 /\ i <= 2
    BY <2>1, <2>2 DEF Books, Holding
  <2>4. pc["C"] # "pass"
    BY <2>1, <2>3, RtosAssumption, SMTT(30) DEF Books, DemoInv, Ends
  <2>5. tohost \in {0, 1}
    BY DEF DemoInv, TypeOK
  <2> QED
    BY <2>3, <2>4, <2>5 DEF DemoInv, Ends
<1> QED
  BY <1>1, DemoInvariant, PTL

(* The Producer never leaves its loop: when its last delay is over, the    *)
(* Consumer of higher priority is in sim_pass for ever, so the vTaskDelete *)
(* that follows the loop in vProducer is not reached.                      *)
THEOREM LoopNeverLeft == Spec => [](At("P", "send") => i <= NUM_ITEMS)
<1>1. DemoInv => (At("P", "send") => i <= NUM_ITEMS)
  <2> SUFFICES ASSUME DemoInv, At("P", "send") PROVE i <= NUM_ITEMS
    OBVIOUS
  <2>1. Books
    BY Counts
  <2>2. pc["P"] = "send" /\ pc["C"] = "take" /\ sem = 0
    BY ProducerAlone
  <2>3. consumed < NUM_ITEMS
    BY <2>2 DEF DemoInv, Ends
  <2>4. consumed = i - 1
    BY <2>1, <2>2 DEF Books, Holding
  <2> QED
    BY <2>1, <2>3, <2>4, RtosAssumption DEF Books
<1> QED
  BY <1>1, DemoInvariant, PTL

---------------------------------------------------------------------------
(* What a context may have left of a line it prints.                       *)
TextLeft(line) == {Text(line), <<Piece(line, "eol", 0)>>, << >>}
LineLeft(line, n) == {Line(line, n), <<Piece(line, "num", n), Piece(line, "eol", n)>>,
                      <<Piece(line, "eol", n)>>, << >>}

(* What each context has left to print, by the statement that comes next.  *)
Script ==
    /\ out["main"] \in TextLeft("boot") \union TextLeft("neg")
    /\ pc["C"] = "take"    => out["C"] = << >>
    /\ pc["C"] = "receive" => out["C"] \in TextLeft("sem")
    /\ pc["C"] = "check"   => out["C"] \in LineLeft("got", consumed)
    /\ pc["C"] = "pass"    => out["C"] \in TextLeft("done")
    /\ pc["P"] = "give"    => out["P"] \in LineLeft("send", i)
    /\ pc["P"] # "give"    => out["P"] = << >>
    /\ out["W"] \in LineLeft("run", 0)

(* main, the Consumer and the Producer take turns: each has printed its    *)
(* line when another can begin one.                                        *)
Turns ==
    /\ pc["main"] # "gone" => out["C"] = << >> /\ out["P"] = << >>
    /\ pc["main"] = "gone" => out["main"] = << >>
    /\ out["C"] # << >> => st["C"] = "ready"
    /\ out["P"] # << >> => st["C"] = "sem"

Own == {"main", "C", "P"}

(* The last piece that is not the Worker's, at k (0: there is none), and   *)
(* the piece that comes next.                                              *)
Tied ==
    \E k \in 0 .. Len(console) :
        /\ WorkerBetween(k, Len(console) + 1)
        /\ k = 0 => \A t \in Own : out[t] # << >> => Head(out[t]).part = "head"
        /\ k # 0 => /\ console[k].line # "run"
                    /\ \A t \in Own : out[t] # << >> => Follows(console[k], Head(out[t]))
                    /\ (\A t \in Own : out[t] = << >>) => console[k].part = "eol"

LineInv == Script /\ Turns /\ Tied /\ LinesWhole

---------------------------------------------------------------------------
(* The Consumer is about to begin a line.                                  *)
Begins == out["C"] # << >> /\ Head(out["C"]).part = "head"

(* The queue holds the next values.                                        *)
Queued == \A n \in 1 .. Len(queue) : queue[n] = consumed + n

(* The last "[C]got" on the console is v's (0: there is none).             *)
LastGot(v) ==
    \E k \in 0 .. Len(console) :
        /\ NoneBetween(k, Len(console) + 1, "got", "head")
        /\ k # 0 => Shows(k, "got", "head")
        /\ v = IF k = 0 THEN 0 ELSE console[k].val

(* "[P]send:n" is complete.                                                *)
Sent(n) == \E k \in 1 .. Len(console) : console[k] = Piece("send", "eol", n)

(* A "[C]sem" is complete and no "[C]got" has begun since.                 *)
SemDone ==
    \E k \in 1 .. Len(console) :
        Shows(k, "sem", "eol") /\ NoneBetween(k, Len(console) + 1, "got", "head")

(* No "[C]sem" has begun since the last "[C]got", or at all.               *)
SemUsed ==
    \E k \in 0 .. Len(console) :
        /\ k # 0 => Shows(k, "got", "head")
        /\ NoneBetween(k, Len(console) + 1, "sem", "head")

(* The last "[C]got" is that of the last item received, unless its line is *)
(* about to begin.                                                         *)
GotsShown == LastGot(IF pc["C"] = "check" /\ Begins THEN consumed - 1 ELSE consumed)

(* "[P]send:N" is complete for every unit given, and before it is given.   *)
SendsShown ==
    /\ \A n \in 1 .. (sem + taken) : Sent(n)
    /\ pc["P"] = "give" /\ out["P"] = << >> => Sent(i)

(* A "[C]sem" is complete when a "[C]got" may begin, and used when the     *)
(* next may.                                                               *)
SemsShown ==
    /\ pc["C"] = "receive" /\ out["C"] = << >> => SemDone
    /\ pc["C"] = "check" /\ Begins => SemDone
    /\ pc["C"] \in {"take", "pass"} => SemUsed
    /\ pc["C"] = "receive" /\ Begins => SemUsed
    /\ pc["C"] = "check" /\ ~Begins => SemUsed

OrderInv == Queued /\ GotsShown /\ SendsShown /\ SemsShown /\ ReportsInOrder

---------------------------------------------------------------------------
(* Lines, and what is left of them.                                        *)

(* The first piece of what is left, and the one that follows it.           *)
Unbroken(s, line, n) ==
    /\ Head(s).line = line /\ Head(s).val = n
    /\ Tail(s) = << >> => Head(s).part = "eol"
    /\ Tail(s) # << >> => /\ Head(s).part # "eol" /\ Follows(Head(s), Head(Tail(s)))
                          /\ Head(Tail(s)).part # "head"

LEMMA TextLeftFacts ==
    ASSUME NEW line \in Plain, NEW s \in TextLeft(line), s # << >>
    PROVE  Tail(s) \in TextLeft(line) /\ Unbroken(s, line, 0)
<1> DEFINE h == Piece(line, "head", 0)
           e == Piece(line, "eol", 0)
<1>1. /\ h.line = line /\ h.val = 0 /\ h.part = "head"
      /\ e.line = line /\ e.val = 0 /\ e.part = "eol"
  BY DEF Piece
<1>2. line \notin Numbered
  BY DEF Plain, Numbered
<1>3. Follows(h, e)
  BY <1>1, <1>2 DEF Follows
<1>4. s = <<h, e>> \/ s = <<e>>
  BY DEF TextLeft, Text
<1> HIDE DEF h, e
<1>5. CASE s = <<h, e>>
  <2>1. Head(s) = h /\ Tail(s) = <<e>> /\ Tail(s) # << >> /\ Head(Tail(s)) = e
    BY <1>5
  <2> QED
    BY <2>1, <1>1, <1>3 DEF Unbroken, TextLeft, e
<1>6. CASE s = <<e>>
  <2>1. Head(s) = e /\ Tail(s) = << >>
    BY <1>6
  <2> QED
    BY <2>1, <1>1 DEF Unbroken, TextLeft
<1> QED
  BY <1>4, <1>5, <1>6

LEMMA LineLeftFacts ==
    ASSUME NEW line \in Numbered, NEW n, NEW s \in LineLeft(line, n), s # << >>
    PROVE  Tail(s) \in LineLeft(line, n) /\ Unbroken(s, line, n)
<1> DEFINE h == Piece(line, "head", n)
           m == Piece(line, "num", n)
           e == Piece(line, "eol", n)
<1>1. /\ h.line = line /\ h.val = n /\ h.part = "head"
      /\ m.line = line /\ m.val = n /\ m.part = "num"
      /\ e.line = line /\ e.val = n /\ e.part = "eol"
  BY DEF Piece
<1>2. Follows(h, m) /\ Follows(m, e)
  BY <1>1 DEF Follows
<1>3. s = <<h, m, e>> \/ s = <<m, e>> \/ s = <<e>>
  BY DEF LineLeft, Line
<1> HIDE DEF h, m, e
<1>4. CASE s = <<h, m, e>>
  <2>1. Head(s) = h /\ Tail(s) = <<m, e>> /\ Tail(s) # << >> /\ Head(Tail(s)) = m
    BY <1>4
  <2> QED
    BY <2>1, <1>1, <1>2 DEF Unbroken, LineLeft, m, e
<1>5. CASE s = <<m, e>>
  <2>1. Head(s) = m /\ Tail(s) = <<e>> /\ Tail(s) # << >> /\ Head(Tail(s)) = e
    BY <1>5
  <2> QED
    BY <2>1, <1>1, <1>2 DEF Unbroken, LineLeft, e
<1>6. CASE s = <<e>>
  <2>1. Head(s) = e /\ Tail(s) = << >>
    BY <1>6
  <2> QED
    BY <2>1, <1>1 DEF Unbroken, LineLeft
<1> QED
  BY <1>3, <1>4, <1>5, <1>6

(* A line as it is handed to Say.                                          *)
LEMMA WholeLine ==
    /\ \A line : /\ Text(line) \in TextLeft(line) /\ << >> \in TextLeft(line)
                 /\ Text(line) # << >> /\ Head(Text(line)).part = "head"
    /\ \A line, n : /\ Line(line, n) \in LineLeft(line, n) /\ << >> \in LineLeft(line, n)
                    /\ Line(line, n) # << >> /\ Head(Line(line, n)).part = "head"
<1>1. \A line : Head(Text(line)) = Piece(line, "head", 0) /\ Text(line) # << >>
  BY DEF Text
<1>2. \A line, n : Head(Line(line, n)) = Piece(line, "head", n) /\ Line(line, n) # << >>
  BY DEF Line
<1>3. \A line, n : Piece(line, "head", n).part = "head"
  BY DEF Piece
<1> QED
  BY <1>1, <1>2, <1>3 DEF TextLeft, LineLeft

---------------------------------------------------------------------------
(* What the actions do to the pieces.                                      *)

LEMMA SayEffect ==
    ASSUME TypeOK, NEW t \in Contexts, NEW p, NEW s, Say(t, p, s)
    PROVE  /\ out'[t] = p /\ pc'[t] = s
           /\ \A u \in Contexts : u # t => out'[u] = out[u] /\ pc'[u] = pc[u]
BY DEF TypeOK, Say, Goto

LEMMA GotoEffect ==
    ASSUME TypeOK, NEW t \in Contexts, NEW s, Goto(t, s)
    PROVE  pc'[t] = s /\ \A u \in Contexts : u # t => pc'[u] = pc[u]
BY DEF TypeOK, Goto

LEMMA StoreEffect ==
    ASSUME DemoInv, NEW t \in Contexts, uart_putc_Store(t)
    PROVE  /\ out[t] # << >> /\ cur = t
           /\ t = "main" => pc["main"] # "gone"
           /\ t # "main" => pc["main"] = "gone" /\ st[t] = "ready"
           /\ t = "P" => st["C"] = "sem"
           /\ console' = Append(console, Head(out[t]))
           /\ out'[t] = Tail(out[t]) /\ \A u \in Contexts : u # t => out'[u] = out[u]
           /\ UNCHANGED <<pc, st, i, consumed, taken, queue, sem>>
<1>1. out[t] # << >> /\ Running(t) /\ cur = t
  BY DEF uart_putc_Store, Running
<1>2. ~uart.busy
  BY <1>1 DEF uart_putc_Store, DemoInv, Idle
<1>3. /\ console' = Append(console, Head(out[t]))
      /\ out'[t] = Tail(out[t]) /\ \A u \in Contexts : u # t => out'[u] = out[u]
      /\ UNCHANGED <<pc, st, i, consumed, taken, queue, sem>>
  BY <1>2 DEF uart_putc_Store, DemoInv, TypeOK, kernel, app, ipc
<1>4. /\ t = "main" => pc["main"] # "gone"
      /\ t # "main" => pc["main"] = "gone" /\ st[t] = "ready"
  BY <1>1 DEF Running, IsTop, Ready
<1>5. t = "P" => st["C"] # "ready"
  BY <1>1, PrioFacts DEF Running, IsTop, Ready, Tasks
<1>6. t = "P" => st["C"] = "sem"
  BY <1>4, <1>5 DEF DemoInv, Places, Started, Tasks
<1> QED
  BY <1>1, <1>3, <1>4, <1>6

LEMMA Grow ==
    ASSUME TypeOK, NEW p, console' = Append(console, p)
    PROVE  /\ Len(console) \in Nat /\ Len(console') = Len(console) + 1
           /\ console'[Len(console) + 1] = p
           /\ \A k \in 1 .. Len(console) : console'[k] = console[k]
<1>1. console \in Seq(Pieces)
  BY DEF TypeOK
<1> QED
  BY <1>1

(* Every step, by what it does to the pieces.                              *)
Quiet ==
    /\ UNCHANGED <<out, console, consumed, queue, i, sem, taken>>
    /\ pc'["C"] = pc["C"] /\ pc'["P"] = pc["P"] /\ st'["C"] = st["C"]
    /\ pc'["main"] = "gone" <=> pc["main"] = "gone"

LEMMA StepKinds ==
    ASSUME DemoInv, Next
    PROVE  \/ Quiet \/ main_Boot \/ main_Create \/ vTaskStartScheduler
           \/ xQueueSend \/ xSemaphoreGive \/ vTaskDelay
           \/ xSemaphoreTake \/ xQueueReceive \/ vConsumer_Check
           \/ vWorker_Spin /\ Say("W", Line("run", 0), "spin")
           \/ \E t \in Contexts : uart_putc_Store(t)
<1> USE DEF kernel, app, ipc, io
<1>t. /\ TypeOK /\ "C" \in Contexts /\ "P" \in Contexts /\ "W" \in Contexts
      /\ "main" \in Contexts /\ "C" \in Tasks /\ "P" \in Tasks
  BY DEF DemoInv, Contexts, Tasks
<1>1. ASSUME NEW t \in Contexts, uart_putc_Poll(t) PROVE Quiet
  BY <1>1 DEF uart_putc_Poll, Quiet
<1>2. CASE TxDone
  BY <1>2 DEF TxDone, Quiet
<1>3. ASSUME NEW t \in Tasks, Dispatch(t) PROVE Quiet
  BY <1>3 DEF Dispatch, Quiet
<1>4. CASE Tick
  <2>1. st'["C"] = st["C"]
    BY <1>4, <1>t DEF Tick, TypeOK
  <2> QED
    BY <1>4, <2>1 DEF Tick, Quiet
<1>5. CASE sim_pass
  BY <1>5 DEF sim_pass, Quiet
<1>6. CASE vWorker_Enter
  <2>1. pc'["C"] = pc["C"] /\ pc'["P"] = pc["P"] /\ pc'["main"] = pc["main"]
    BY <1>6, <1>t, GotoEffect DEF vWorker_Enter
  <2> QED
    BY <1>6, <2>1 DEF vWorker_Enter, Quiet
<1>7. CASE vWorker_Spin
  BY <1>7 DEF vWorker_Spin, Quiet
<1> QED
  BY <1>1, <1>2, <1>3, <1>4, <1>5, <1>6, <1>7
     DEF Next, Cpu, Main, Producer, Consumer, Worker, Putc, Switch

LEMMA QueuedStep ==
    ASSUME DemoInv, Queued, Next PROVE Queued'
<1> USE DEF kernel, app, ipc, io
<1>b. Books
  BY Counts
<1>q. queue \in Seq(1 .. NUM_ITEMS) /\ consumed \in Nat /\ i \in Nat /\ Len(queue) \in Nat
  BY <1>b DEF Books, DemoInv, TypeOK
<1>1. CASE UNCHANGED <<queue, consumed>>
  BY <1>1 DEF Queued
<1>2. CASE queue' = << >>
  <2>1. Len(queue') = 0
    BY <1>2
  <2> QED
    BY <2>1 DEF Queued
<1>3. CASE xQueueSend
  <2>1. /\ pc["P"] = "send" /\ pc["C"] = "take" /\ sem = 0
    BY <1>3, ProducerAlone DEF xQueueSend
  <2>2. Len(queue) = 0 /\ consumed + 1 = i
    BY <1>b, <2>1 DEF Books, Holding
  <2>3. queue' = Append(queue, i) /\ consumed' = consumed
    BY <1>3, <2>2, RtosAssumption DEF xQueueSend
  <2>4. Len(queue') = 1 /\ queue'[1] = i
    BY <1>q, <2>2, <2>3
  <2> QED
    BY <1>q, <2>2, <2>3, <2>4 DEF Queued
<1>4. CASE xQueueReceive /\ queue # << >>
  <2>1. queue' = Tail(queue) /\ consumed' = consumed + 1
    BY <1>4 DEF xQueueReceive
  <2>2. Len(queue') = Len(queue) - 1 /\ \A n \in 1 .. Len(queue') : queue'[n] = queue[n + 1]
    BY <1>q, <1>4, <2>1
  <2> DEFINE m == Len(queue)
             m2 == Len(queue')
  <2>3. m2 = m - 1 /\ m \in Nat
    BY <1>q, <2>2
  <2>4. ASSUME NEW n \in 1 .. m2 PROVE queue'[n] = consumed' + n
    <3>1. n + 1 \in 1 .. m /\ n \in Nat
      BY <2>3
    <3>2. queue[n + 1] = consumed + (n + 1)
      BY <3>1 DEF Queued
    <3>3. queue'[n] = queue[n + 1]
      BY <2>2
    <3> QED
      BY <1>q, <2>1, <3>1, <3>2, <3>3
  <2> QED
    BY <2>4 DEF Queued
<1> QED
  <2>1. CASE Quiet
    BY <2>1, <1>1 DEF Quiet
  <2>2. ASSUME NEW t \in Contexts, uart_putc_Store(t) PROVE Queued'
    BY <2>2, <1>1 DEF uart_putc_Store
  <2>3. CASE main_Boot \/ vTaskStartScheduler \/ xSemaphoreGive \/ vTaskDelay
             \/ xSemaphoreTake \/ vConsumer_Check \/ vWorker_Spin
    BY <2>3, <1>1 DEF main_Boot, vTaskStartScheduler, xSemaphoreGive, vTaskDelay,
                      xSemaphoreTake, vConsumer_Check, vWorker_Spin
  <2>4. CASE main_Create
    BY <2>4, <1>2 DEF main_Create
  <2>5. CASE xQueueReceive /\ queue = << >>
    BY <2>5, <1>1 DEF xQueueReceive
  <2> QED
    BY <2>1, <2>2, <2>3, <2>4, <2>5, <1>3, <1>4, StepKinds

LEMMA ScriptStep ==
    ASSUME DemoInv, Queued, Script, Turns, Next PROVE Script' /\ Turns'
<1> USE DEF kernel, app, ipc, io
<1>t. /\ TypeOK /\ "C" \in Contexts /\ "P" \in Contexts /\ "W" \in Contexts
      /\ "main" \in Contexts /\ "C" \in Tasks /\ "P" \in Tasks
  BY DEF DemoInv, Contexts, Tasks
<1>p. /\ pc["C"] \in {"take", "receive", "check", "pass"} /\ pc["P"] \in {"send", "give", "delay"}
  BY DEF DemoInv, Places
<1>0. CASE Quiet
  BY <1>0 DEF Quiet, Script, Turns
<1>1. CASE main_Boot
  <2>1. /\ out'["main"] = Text("boot") /\ pc'["main"] = "create"
        /\ out'["C"] = out["C"] /\ out'["P"] = out["P"] /\ out'["W"] = out["W"]
        /\ pc'["C"] = pc["C"] /\ pc'["P"] = pc["P"] /\ pc["main"] = "boot"
    BY <1>1, <1>t, SayEffect, AtFacts DEF main_Boot
  <2> QED
    BY <1>1, <2>1, WholeLine DEF main_Boot, Script, Turns
<1>2. CASE main_Create
  <2>1. /\ out'["main"] = (IF neg THEN Text("neg") ELSE << >>) /\ pc'["main"] = "start"
        /\ out'["C"] = out["C"] /\ out'["P"] = out["P"] /\ out'["W"] = out["W"]
        /\ pc'["C"] = pc["C"] /\ pc'["P"] = pc["P"] /\ pc["main"] = "create"
    BY <1>2, <1>t, SayEffect, AtFacts DEF main_Create
  <2>2. out'["main"] \in TextLeft("boot") \union TextLeft("neg")
    BY <2>1, WholeLine
  <2> QED
    BY <1>2, <2>1, <2>2 DEF main_Create, Script, Turns
<1>3. CASE vTaskStartScheduler
  <2>1. /\ out["main"] = << >> /\ pc["main"] = "start" /\ pc'["main"] = "gone"
        /\ pc'["C"] = pc["C"] /\ pc'["P"] = pc["P"]
    BY <1>3, <1>t, GotoEffect, AtFacts DEF vTaskStartScheduler
  <2> QED
    BY <1>3, <2>1 DEF vTaskStartScheduler, Script, Turns
<1>4. CASE xQueueSend
  <2>1. /\ pc["P"] = "send" /\ pc["main"] = "gone"
        /\ st["C"] = "sem" /\ pc["C"] = "take" /\ sem = 0
    BY <1>4, ProducerAlone DEF xQueueSend
  <2>2. Books
    BY Counts
  <2>3. Len(queue) = 0
    BY <2>1, <2>2 DEF Books, Holding
  <2>4. Wake("C", "queue") /\ Say("P", Line("send", i), "give")
    BY <1>4, <2>3, RtosAssumption DEF xQueueSend
  <2>5. /\ out'["P"] = Line("send", i) /\ pc'["P"] = "give"
        /\ out'["C"] = out["C"] /\ out'["main"] = out["main"] /\ out'["W"] = out["W"]
        /\ pc'["C"] = pc["C"] /\ pc'["main"] = pc["main"]
    BY <1>t, <2>4, SayEffect
  <2>6. st'["C"] = "sem"
    BY <1>t, <2>1, <2>4 DEF Wake, TypeOK
  <2> QED
    BY <1>4, <2>1, <2>5, <2>6, WholeLine DEF xQueueSend, Script, Turns
<1>5. CASE xSemaphoreGive
  <2>1. /\ pc["P"] = "give" /\ pc["main"] = "gone" /\ out["P"] = << >>
        /\ st["C"] = "sem" /\ pc["C"] = "take"
    BY <1>5, ProducerAlone, AtFacts DEF xSemaphoreGive
  <2>2. pc'["P"] = "delay" /\ pc'["C"] = pc["C"] /\ pc'["main"] = pc["main"]
    BY <1>5, <1>t, GotoEffect DEF xSemaphoreGive
  <2> QED
    BY <1>5, <2>1, <2>2 DEF xSemaphoreGive, Script, Turns
<1>6. CASE vTaskDelay
  <2>1. pc["P"] = "delay" /\ pc["main"] = "gone" /\ out["P"] = << >> /\ pc["C"] = "take"
    BY <1>6, ProducerAlone, AtFacts DEF vTaskDelay
  <2>2. pc'["P"] = "send" /\ pc'["C"] = pc["C"] /\ pc'["main"] = pc["main"]
    BY <1>6, <1>t, GotoEffect DEF vTaskDelay
  <2> QED
    BY <1>6, <2>1, <2>2 DEF vTaskDelay, Script, Turns
<1>7. CASE xSemaphoreTake
  <2>1. pc["C"] = "take" /\ pc["main"] = "gone" /\ st["C"] = "ready" /\ out["C"] = << >>
    BY <1>7, AtFacts DEF xSemaphoreTake
  <2>2. out["P"] = << >>
    BY <2>1 DEF Turns
  <2>3. CASE sem > 0
    <3>1. /\ out'["C"] = Text("sem") /\ pc'["C"] = "receive"
          /\ out'["P"] = out["P"] /\ out'["main"] = out["main"] /\ out'["W"] = out["W"]
          /\ pc'["P"] = pc["P"] /\ pc'["main"] = pc["main"] /\ st' = st
      BY <1>7, <1>t, <2>3, SayEffect DEF xSemaphoreTake
    <3> QED
      BY <1>7, <2>1, <2>2, <3>1, WholeLine DEF xSemaphoreTake, Script, Turns
  <2>4. CASE ~(sem > 0)
    <3>1. UNCHANGED <<out, pc, i, consumed>>
      BY <1>7, <2>4 DEF xSemaphoreTake
    <3> QED
      BY <2>1, <2>2, <3>1 DEF Script, Turns
  <2> QED
    BY <2>3, <2>4
<1>8. CASE xQueueReceive
  <2>1. pc["C"] = "receive" /\ pc["main"] = "gone" /\ st["C"] = "ready" /\ out["C"] = << >>
    BY <1>8, AtFacts DEF xQueueReceive
  <2>2. out["P"] = << >>
    BY <2>1 DEF Turns
  <2>3. CASE queue # << >>
    <3>1. /\ out'["C"] = Line("got", Head(queue)) /\ pc'["C"] = "check"
          /\ out'["P"] = out["P"] /\ out'["main"] = out["main"] /\ out'["W"] = out["W"]
          /\ pc'["P"] = pc["P"] /\ pc'["main"] = pc["main"]
          /\ consumed' = consumed + 1 /\ Wake("P", "space")
      BY <1>8, <1>t, <2>3, SayEffect DEF xQueueReceive
    <3>2. st'["C"] = "ready"
      BY <3>1, <1>t, <2>1 DEF Wake, TypeOK
    <3>3. Head(queue) = consumed'
      <4>1. queue \in Seq(1 .. NUM_ITEMS) /\ Len(queue) \in Nat /\ Len(queue) # 0
        BY <1>t, <2>3 DEF TypeOK
      <4>2. 1 \in 1 .. Len(queue) /\ Head(queue) = queue[1]
        BY <4>1
      <4>3. queue[1] = consumed + 1
        BY <4>2 DEF Queued
      <4> QED
        BY <3>1, <4>2, <4>3
    <3> QED
      BY <1>8, <2>1, <2>2, <3>1, <3>2, <3>3, WholeLine DEF xQueueReceive, Script, Turns
  <2>4. CASE queue = << >>
    <3>1. UNCHANGED <<out, pc, i, consumed>>
      BY <1>8, <2>4 DEF xQueueReceive
    <3> QED
      BY <2>1, <2>2, <3>1 DEF Script, Turns
  <2> QED
    BY <2>3, <2>4
<1>9. CASE vConsumer_Check
  <2>1. pc["C"] = "check" /\ pc["main"] = "gone" /\ st["C"] = "ready" /\ out["C"] = << >>
    BY <1>9, AtFacts DEF vConsumer_Check
  <2>2. out["P"] = << >>
    BY <2>1 DEF Turns
  <2>3. /\ \/ out'["C"] = Text("done") /\ pc'["C"] = "pass"
           \/ out'["C"] = << >> /\ pc'["C"] = "take"
        /\ out'["P"] = out["P"] /\ out'["main"] = out["main"] /\ out'["W"] = out["W"]
        /\ pc'["P"] = pc["P"] /\ pc'["main"] = pc["main"] /\ st' = st
    BY <1>9, <1>t, SayEffect DEF vConsumer_Check
  <2> QED
    BY <1>9, <2>1, <2>2, <2>3, WholeLine DEF vConsumer_Check, Script, Turns
<1>10. CASE vWorker_Spin /\ Say("W", Line("run", 0), "spin")
  <2>1. /\ out'["W"] = Line("run", 0)
        /\ out'["P"] = out["P"] /\ out'["main"] = out["main"] /\ out'["C"] = out["C"]
        /\ pc'["P"] = pc["P"] /\ pc'["main"] = pc["main"] /\ pc'["C"] = pc["C"]
    BY <1>10, <1>t, SayEffect
  <2> QED
    BY <1>10, <2>1, WholeLine DEF vWorker_Spin, Script, Turns
<1>11. ASSUME NEW t \in Contexts, uart_putc_Store(t) PROVE Script' /\ Turns'
  <2>1. /\ out[t] # << >>
        /\ t = "main" => pc["main"] # "gone"
        /\ t # "main" => pc["main"] = "gone" /\ st[t] = "ready"
        /\ t = "P" => st["C"] = "sem"
        /\ out'[t] = Tail(out[t]) /\ \A u \in Contexts : u # t => out'[u] = out[u]
        /\ UNCHANGED <<pc, st, i, consumed, taken, queue, sem>>
    BY <1>11, StoreEffect
  <2>2. Turns'
    BY <1>t, <2>1 DEF Turns
  <2>3. CASE t = "main"
    <3>1. out'["main"] \in TextLeft("boot") \union TextLeft("neg")
      BY <2>1, <2>3, TextLeftFacts DEF Script, Plain
    <3> QED
      BY <1>t, <2>1, <2>2, <2>3, <3>1 DEF Script
  <2>4. CASE t = "C"
    <3>1. /\ pc["C"] = "take"    => out'["C"] = << >>
          /\ pc["C"] = "receive" => out'["C"] \in TextLeft("sem")
          /\ pc["C"] = "check"   => out'["C"] \in LineLeft("got", consumed)
          /\ pc["C"] = "pass"    => out'["C"] \in TextLeft("done")
      BY <2>1, <2>4, TextLeftFacts, LineLeftFacts DEF Script, Plain, Numbered
    <3> QED
      BY <1>t, <2>1, <2>2, <2>4, <3>1 DEF Script
  <2>5. CASE t = "P"
    <3>1. /\ pc["P"] = "give" => out'["P"] \in LineLeft("send", i)
          /\ pc["P"] # "give" => out'["P"] = << >>
      BY <2>1, <2>5, LineLeftFacts DEF Script, Numbered
    <3> QED
      BY <1>t, <2>1, <2>2, <2>5, <3>1 DEF Script
  <2>6. CASE t = "W"
    <3>1. out'["W"] \in LineLeft("run", 0)
      BY <2>1, <2>6, LineLeftFacts DEF Script, Numbered
    <3> QED
      BY <1>t, <2>1, <2>2, <2>6, <3>1 DEF Script
  <2> QED
    BY <2>3, <2>4, <2>5, <2>6 DEF Contexts, Tasks
<1> QED
  BY <1>0, <1>1, <1>2, <1>3, <1>4, <1>5, <1>6, <1>7, <1>8, <1>9, <1>10, <1>11, StepKinds

---------------------------------------------------------------------------
(* Lines are whole.                                                        *)

(* What the context that stores a piece is printing.                       *)
LEMMA StoresOf ==
    ASSUME DemoInv, Script, NEW t \in Contexts, out[t] # << >>
    PROVE  /\ t = "main" => \E l \in {"boot", "neg"} : Unbroken(out[t], l, 0)
           /\ t = "P" => pc["P"] = "give" /\ Unbroken(out[t], "send", i)
           /\ t = "W" => Unbroken(out[t], "run", 0)
           /\ t = "C" => \/ pc["C"] = "receive" /\ Unbroken(out[t], "sem", 0)
                         \/ pc["C"] = "check" /\ Unbroken(out[t], "got", consumed)
                         \/ pc["C"] = "pass" /\ Unbroken(out[t], "done", 0)
<1>1. CASE t = "main"
  BY <1>1, TextLeftFacts DEF Script, Plain
<1>2. CASE t = "P"
  BY <1>2, LineLeftFacts DEF Script, Numbered
<1>3. CASE t = "W"
  BY <1>3, LineLeftFacts DEF Script, Numbered
<1>4. CASE t = "C"
  BY <1>4, TextLeftFacts, LineLeftFacts DEF Script, Plain, Numbered, DemoInv, Places
<1> QED
  BY <1>1, <1>2, <1>3, <1>4 DEF Contexts, Tasks

(* The piece an owner of lines stores ends its line or is followed by the  *)
(* next one, and no other owner is printing.                               *)
LEMMA OwnAlone ==
    ASSUME DemoInv, Script, Turns, NEW t \in Own, uart_putc_Store(t)
    PROVE  /\ \A u \in Own : u # t => out[u] = << >>
           /\ Head(out[t]).line # "run"
           /\ Tail(out[t]) = << >> => Head(out[t]).part = "eol"
           /\ Tail(out[t]) # << >> => Follows(Head(out[t]), Head(Tail(out[t])))
<1>t. t \in Contexts
  BY DEF Own, Contexts, Tasks
<1>1. /\ out[t] # << >>
      /\ t = "main" => pc["main"] # "gone"
      /\ t # "main" => pc["main"] = "gone" /\ st[t] = "ready"
      /\ t = "P" => st["C"] = "sem"
  BY <1>t, StoreEffect
<1>2. \A u \in Own : u # t => out[u] = << >>
  BY <1>1 DEF Turns, Own
<1>3. \E l \in {"boot", "neg", "send", "sem", "got", "done"} : \E n : Unbroken(out[t], l, n)
  BY <1>1, <1>t, StoresOf DEF Own
<1> QED
  BY <1>2, <1>3 DEF Unbroken

LEMMA TiedSame ==
    ASSUME Tied, console' = console, \A u \in Own : out'[u] = out[u] PROVE Tied'
BY DEF Tied, WorkerBetween

LEMMA TiedSay ==
    ASSUME Tied, console' = console, NEW t \in Own,
           \A u \in Own : out[u] = << >>, \A u \in Own : u # t => out'[u] = << >>,
           out'[t] = << >> \/ Head(out'[t]).part = "head"
    PROVE  Tied'
<1>1. PICK k \in 0 .. Len(console) :
        /\ WorkerBetween(k, Len(console) + 1)
        /\ k # 0 => console[k].line # "run" /\ console[k].part = "eol"
  BY DEF Tied
<1>2. \A u \in Own : out'[u] # << >> => Head(out'[u]).part = "head"
  OBVIOUS
<1>3. k # 0 => \A u \in Own : out'[u] # << >> => Follows(console'[k], Head(out'[u]))
  BY <1>1, <1>2 DEF Follows
<1>4. WorkerBetween(k, Len(console) + 1)'
  BY <1>1 DEF WorkerBetween
<1> QED
  BY <1>1, <1>2, <1>3, <1>4 DEF Tied

LEMMA WholeStore ==
    ASSUME DemoInv, Script, Turns, Tied, LinesWhole, NEW t \in Contexts, uart_putc_Store(t)
    PROVE  Tied' /\ LinesWhole'
<1>0. TypeOK
  BY DEF DemoInv
<1>p. PICK p : p = Head(out[t])
  OBVIOUS
<1>l. PICK L \in Nat : L = Len(console)
  BY <1>0 DEF TypeOK
<1>1. /\ out[t] # << >> /\ console' = Append(console, p)
      /\ out'[t] = Tail(out[t]) /\ \A u \in Contexts : u # t => out'[u] = out[u]
  BY <1>p, StoreEffect
<1>2. /\ L \in Nat /\ Len(console') = L + 1 /\ console'[L + 1] = p
      /\ \A k \in 1 .. L : console'[k] = console[k]
  BY <1>0, <1>l, <1>1, Grow
<1>3. PICK b \in 0 .. L :
        /\ WorkerBetween(b, L + 1)
        /\ b = 0 => \A u \in Own : out[u] # << >> => Head(out[u]).part = "head"
        /\ b # 0 => /\ console[b].line # "run"
                    /\ \A u \in Own : out[u] # << >> => Follows(console[b], Head(out[u]))
                    /\ (\A u \in Own : out[u] = << >>) => console[b].part = "eol"
  BY <1>l DEF Tied
<1>4. \A j, k \in 0 .. (L + 1) : WorkerBetween(j, k) => WorkerBetween(j, k)'
  BY <1>2 DEF WorkerBetween
<1>5. ASSUME NEW k \in 1 .. L, console'[k].line # "run"
      PROVE  \E d \in 1 .. k :
                /\ IF d = k THEN console'[k].part = "head"
                   ELSE console'[k - d].line # "run" /\ Follows(console'[k - d], console'[k])
                /\ WorkerBetween(k - d, k)'
  <2>1. PICK d \in 1 .. k :
                /\ IF d = k THEN console[k].part = "head"
                   ELSE console[k - d].line # "run" /\ Follows(console[k - d], console[k])
                /\ WorkerBetween(k - d, k)
    BY <1>l, <1>2, <1>5 DEF LinesWhole
  <2>2. k - d \in 0 .. (L + 1) /\ k \in 0 .. (L + 1) /\ (d # k => k - d \in 1 .. L)
    BY <1>2
  <2>3. WorkerBetween(k - d, k)'
    BY <1>4, <2>1, <2>2
  <2> QED
    BY <1>2, <2>1, <2>2, <2>3
<1>6. CASE t \in Own
  <2>1. /\ \A u \in Own : u # t => out[u] = << >>
        /\ p.line # "run"
        /\ Tail(out[t]) = << >> => p.part = "eol"
        /\ Tail(out[t]) # << >> => Follows(p, Head(Tail(out[t])))
    BY <1>p, <1>6, OwnAlone
  <2>2. \A u \in Own : u # t => out'[u] = << >>
    BY <1>1, <2>1 DEF Own, Contexts, Tasks
  <2>3. WorkerBetween(L + 1, L + 2)'
    BY <1>2 DEF WorkerBetween
  <2>4. Tied'
    <3>1. L + 1 \in 0 .. Len(console') /\ L + 1 # 0 /\ Len(console') + 1 = L + 2
      BY <1>2
    <3>2. \A u \in Own : out'[u] # << >> => Follows(p, Head(out'[u]))
      BY <1>1, <2>1, <2>2
    <3>3. (\A u \in Own : out'[u] = << >>) => p.part = "eol"
      BY <1>1, <1>6, <2>1
    <3> QED
      BY <1>2, <2>1, <2>3, <3>1, <3>2, <3>3 DEF Tied
  <2>5. \E d \in 1 .. (L + 1) :
           /\ IF d = L + 1 THEN p.part = "head"
              ELSE console'[L + 1 - d].line # "run" /\ Follows(console'[L + 1 - d], p)
           /\ WorkerBetween(L + 1 - d, L + 1)'
    <3> DEFINE d == L + 1 - b
    <3>1. d \in 1 .. (L + 1) /\ L + 1 - d = b /\ (d = L + 1 <=> b = 0) /\ b \in 0 .. (L + 1)
          /\ L + 1 \in 0 .. (L + 1)
      BY <1>2
    <3>2. WorkerBetween(b, L + 1)'
      BY <1>3, <1>4, <3>1
    <3>3. IF b = 0 THEN p.part = "head"
          ELSE console'[b].line # "run" /\ Follows(console'[b], p)
      <4>1. b # 0 => b \in 1 .. L
        BY <1>2
      <4> QED
        BY <1>p, <1>1, <1>2, <1>3, <1>6, <4>1
    <3> QED
      BY <3>1, <3>2, <3>3
  <2> QED
    BY <1>2, <1>5, <2>4, <2>5 DEF LinesWhole
<1>7. CASE t \notin Own
  <2>1. t = "W" /\ \A u \in Own : out'[u] = out[u]
    BY <1>1, <1>7 DEF Own, Contexts, Tasks
  <2>2. p.line = "run"
    BY <1>p, <1>1, <2>1, StoresOf DEF Unbroken
  <2>3. WorkerBetween(b, L + 2)'
    BY <1>2, <1>3, <2>2 DEF WorkerBetween
  <2>4. Tied'
    <3>1. b \in 0 .. Len(console') /\ Len(console') + 1 = L + 2 /\ (b # 0 => b \in 1 .. L)
      BY <1>2
    <3> QED
      BY <1>2, <1>3, <2>1, <2>3, <3>1 DEF Tied
  <2> QED
    BY <1>2, <1>5, <2>2, <2>4 DEF LinesWhole
<1> QED
  BY <1>6, <1>7

(* Every other step leaves the console alone; an owner begins a line only  *)
(* when no owner is printing.                                              *)
LEMMA WholeStep ==
    ASSUME DemoInv, Script, Turns, Tied, LinesWhole, Next PROVE Tied' /\ LinesWhole'
<1> USE DEF kernel, app, ipc, io
<1>t. /\ TypeOK /\ Own \subseteq Contexts /\ "main" \in Own /\ "C" \in Own /\ "P" \in Own
      /\ "W" \in Contexts /\ "W" \notin Own
  BY DEF DemoInv, Contexts, Tasks, Own
<1>0. console' = console => LinesWhole'
  BY DEF LinesWhole, WorkerBetween
<1>1. ASSUME NEW t \in Own, \A u \in Own : out[u] = << >>, NEW p, NEW s, Say(t, p, s),
             p = << >> \/ Head(p).part = "head", console' = console
      PROVE  Tied'
  <2>1. out'[t] = p /\ \A u \in Own : u # t => out'[u] = << >>
    BY <1>1, <1>t, SayEffect
  <2> QED
    BY <1>1, <2>1, TiedSay
<1>2. ASSUME pc["main"] # "gone", out["main"] = << >> PROVE \A u \in Own : out[u] = << >>
  BY <1>2 DEF Turns, Own
<1>3. ASSUME pc["main"] = "gone", st["C"] = "ready", out["C"] = << >>
      PROVE  \A u \in Own : out[u] = << >>
  BY <1>3 DEF Turns, Own
<1>4. ASSUME pc["main"] = "gone", st["C"] = "sem", out["P"] = << >>
      PROVE  \A u \in Own : out[u] = << >>
  BY <1>4 DEF Turns, Own
<1>5. CASE out' = out /\ console' = console
  BY <1>0, <1>5, TiedSame
<1>6. CASE main_Boot
  <2>1. At("main", "boot") /\ Say("main", Text("boot"), "create") /\ console' = console
    BY <1>6 DEF main_Boot
  <2> QED
    BY <1>0, <1>1, <1>2, <1>t, <2>1, AtFacts, WholeLine
<1>7. CASE main_Create
  <2>1. At("main", "create") /\ console' = console
    BY <1>7 DEF main_Create
  <2>2. PICK p : Say("main", p, "start") /\ (p = << >> \/ p = Text("neg"))
    BY <1>7 DEF main_Create
  <2> QED
    BY <1>0, <1>1, <1>2, <1>t, <2>1, <2>2, AtFacts, WholeLine
<1>8. CASE xQueueSend
  <2>1. console' = console /\ At("P", "send")
    BY <1>8 DEF xQueueSend
  <2>2. CASE Say("P", Line("send", i), "give")
    BY <1>0, <1>1, <1>4, <1>t, <2>1, <2>2, AtFacts, ProducerAlone, WholeLine
  <2> QED
    BY <1>5, <1>8, <2>1, <2>2 DEF xQueueSend
<1>9. CASE xSemaphoreTake
  <2>1. console' = console /\ At("C", "take")
    BY <1>9 DEF xSemaphoreTake
  <2>2. CASE Say("C", Text("sem"), "receive")
    BY <1>0, <1>1, <1>3, <1>t, <2>1, <2>2, AtFacts, WholeLine
  <2> QED
    BY <1>5, <1>9, <2>1, <2>2 DEF xSemaphoreTake
<1>10. CASE xQueueReceive
  <2>1. console' = console /\ At("C", "receive")
    BY <1>10 DEF xQueueReceive
  <2>2. CASE Say("C", Line("got", Head(queue)), "check")
    BY <1>0, <1>1, <1>3, <1>t, <2>1, <2>2, AtFacts, WholeLine
  <2> QED
    BY <1>5, <1>10, <2>1, <2>2 DEF xQueueReceive
<1>11. CASE vConsumer_Check
  <2>1. console' = console /\ At("C", "check")
    BY <1>11 DEF vConsumer_Check
  <2>2. PICK p, s : Say("C", p, s) /\ (p = << >> \/ p = Text("done"))
    BY <1>11 DEF vConsumer_Check
  <2> QED
    BY <1>0, <1>1, <1>3, <1>t, <2>1, <2>2, AtFacts, WholeLine
<1>12. CASE vWorker_Spin /\ Say("W", Line("run", 0), "spin")
  <2>1. console' = console /\ \A u \in Own : out'[u] = out[u]
    BY <1>12, <1>t, SayEffect DEF vWorker_Spin
  <2> QED
    BY <1>0, <2>1, TiedSame
<1>13. CASE Quiet \/ vTaskStartScheduler \/ xSemaphoreGive \/ vTaskDelay
  BY <1>5, <1>13 DEF Quiet, vTaskStartScheduler, xSemaphoreGive, vTaskDelay
<1> QED
  BY <1>6, <1>7, <1>8, <1>9, <1>10, <1>11, <1>12, <1>13, StepKinds, WholeStore

LEMMA LineInit == Init => Queued /\ LineInv
<1> SUFFICES ASSUME Init PROVE Queued /\ LineInv
  OBVIOUS
<1>1. /\ \A t \in Contexts : out[t] = << >>
      /\ pc["main"] = "boot" /\ pc["C"] = "take" /\ pc["P"] = "send"
      /\ Len(console) = 0 /\ Len(queue) = 0
  BY DEF Init, Entry, Contexts, Tasks
<1>2. /\ out["main"] = << >> /\ out["C"] = << >> /\ out["P"] = << >> /\ out["W"] = << >>
      /\ \A t \in Own : out[t] = << >>
  BY <1>1 DEF Contexts, Tasks, Own
<1>3. Queued /\ LinesWhole
  BY <1>1 DEF Queued, LinesWhole
<1>4. Script /\ Turns
  BY <1>1, <1>2 DEF Script, Turns, TextLeft, LineLeft
<1>5. Tied
  BY <1>1, <1>2 DEF Tied, WorkerBetween
<1> QED
  BY <1>3, <1>4, <1>5 DEF LineInv

LEMMA LineStep == DemoInv /\ Queued /\ LineInv /\ [Next]_vars => Queued' /\ LineInv'
<1> SUFFICES ASSUME DemoInv, Queued, LineInv, [Next]_vars PROVE Queued' /\ LineInv'
  OBVIOUS
<1>1. CASE UNCHANGED vars
  <2>1. UNCHANGED <<out, pc, st, console, consumed, i, queue>>
    BY <1>1 DEF vars, kernel, app, ipc, io
  <2>2. Queued' /\ LinesWhole'
    BY <2>1 DEF LineInv, Queued, LinesWhole, WorkerBetween
  <2>3. Script' /\ Turns'
    BY <2>1 DEF LineInv, Script, Turns
  <2>4. Tied'
    BY <2>1, TiedSame DEF LineInv
  <2> QED
    BY <2>2, <2>3, <2>4 DEF LineInv
<1>2. CASE Next
  BY <1>2, QueuedStep, ScriptStep, WholeStep DEF LineInv
<1> QED
  BY <1>1, <1>2

LEMMA LineInvariant == Spec => [](DemoInv /\ Queued /\ LineInv)
<1>1. Init => DemoInv /\ Queued /\ LineInv
  BY DemoInit, LineInit
<1>2. DemoInv /\ Queued /\ LineInv /\ [Next]_vars => (DemoInv /\ Queued /\ LineInv)'
  BY DemoStep, LineStep
<1> QED
  BY <1>1, <1>2, PTL DEF Spec

(* main, the Producer and the Consumer print without a lock (main.c,       *)
(* uart_puts), and their lines are never mixed with one another: the       *)
(* priorities and the semaphore let one begin only when no other is in the *)
(* middle of one.  The Worker's, of the lowest priority, may be.           *)
THEOREM LinesNeverMixed == Spec => []LinesWhole
BY LineInvariant, PTL DEF LineInv

---------------------------------------------------------------------------
(* Lines are in order.                                                     *)

GotHead(p) == p.line = "got" /\ p.part = "head"
SemHead(p) == p.line = "sem" /\ p.part = "head"

(* What stays true of the console when p is accepted, and what becomes so. *)
LEMMA Accepted ==
    ASSUME TypeOK, NEW p, console' = Append(console, p), NEW n
    PROVE  /\ ~GotHead(p) /\ LastGot(n) => LastGot(n)'
           /\ ~GotHead(p) /\ SemDone => SemDone'
           /\ ~SemHead(p) /\ SemUsed => SemUsed'
           /\ Sent(n) => Sent(n)'
           /\ GotHead(p) => LastGot(p.val)' /\ SemUsed'
           /\ p = Piece("send", "eol", n) => Sent(n)'
           /\ p.line = "sem" /\ p.part = "eol" => SemDone'
<1>l. PICK L \in Nat : L = Len(console)
  BY DEF TypeOK
<1>1. /\ Len(console') = L + 1 /\ console'[L + 1] = p
      /\ \A k \in 1 .. L : console'[k] = console[k]
  BY <1>l, Grow
<1>2. /\ L + 1 \in 1 .. Len(console') /\ L + 1 \in 0 .. Len(console') /\ L + 1 # 0
      /\ \A k \in 1 .. L : k \in 1 .. Len(console')
      /\ \A k \in 0 .. L : k \in 0 .. Len(console') /\ (k # 0 => k \in 1 .. L)
  BY <1>1
<1>3. ASSUME NEW k \in 0 .. L, NEW line, NEW part,
             NoneBetween(k, Len(console) + 1, line, part), ~(p.line = line /\ p.part = part)
      PROVE  NoneBetween(k, Len(console) + 1, line, part)'
  <2>1. ASSUME NEW l \in (k + 1) .. (L + 1) PROVE ~Shows(l, line, part)'
    <3>1. CASE l = L + 1
      BY <1>1, <1>3, <3>1 DEF Shows
    <3>2. CASE l # L + 1
      <4>1. l \in 1 .. L /\ l \in (k + 1) .. (Len(console) + 1 - 1)
        BY <1>l, <3>2
      <4> QED
        BY <1>1, <1>3, <4>1 DEF NoneBetween, Shows
    <3> QED
      BY <3>1, <3>2
  <2>2. (k + 1) .. (Len(console') + 1 - 1) = (k + 1) .. (L + 1)
    BY <1>1
  <2> QED
    BY <2>1, <2>2 DEF NoneBetween
<1>4. \A line, part : NoneBetween(L + 1, Len(console) + 1, line, part)'
  <2>1. (L + 1 + 1) .. (Len(console') + 1 - 1) = {}
    BY <1>1
  <2> QED
    BY <2>1 DEF NoneBetween
<1>5. ASSUME ~GotHead(p), LastGot(n) PROVE LastGot(n)'
  <2>1. PICK k \in 0 .. L : /\ NoneBetween(k, Len(console) + 1, "got", "head")
                            /\ k # 0 => Shows(k, "got", "head")
                            /\ n = IF k = 0 THEN 0 ELSE console[k].val
    BY <1>l, <1>5 DEF LastGot
  <2>2. NoneBetween(k, Len(console) + 1, "got", "head")'
    BY <1>3, <1>5, <2>1 DEF GotHead
  <2> QED
    BY <1>1, <1>2, <2>1, <2>2 DEF LastGot, Shows
<1>6. ASSUME ~GotHead(p), SemDone PROVE SemDone'
  <2>1. PICK k \in 1 .. L : /\ NoneBetween(k, Len(console) + 1, "got", "head")
                            /\ Shows(k, "sem", "eol")
    BY <1>l, <1>6 DEF SemDone
  <2>2. NoneBetween(k, Len(console) + 1, "got", "head")' /\ k \in 0 .. L
    BY <1>3, <1>6, <2>1 DEF GotHead
  <2> QED
    BY <1>1, <1>2, <2>1, <2>2 DEF SemDone, Shows
<1>7. ASSUME ~SemHead(p), SemUsed PROVE SemUsed'
  <2>1. PICK k \in 0 .. L : /\ NoneBetween(k, Len(console) + 1, "sem", "head")
                            /\ k # 0 => Shows(k, "got", "head")
    BY <1>l, <1>7 DEF SemUsed
  <2>2. NoneBetween(k, Len(console) + 1, "sem", "head")'
    BY <1>3, <1>7, <2>1 DEF SemHead
  <2> QED
    BY <1>1, <1>2, <2>1, <2>2 DEF SemUsed, Shows
<1>8. Sent(n) => Sent(n)'
  BY <1>l, <1>1, <1>2 DEF Sent
<1>9. GotHead(p) => LastGot(p.val)' /\ SemUsed'
  BY <1>1, <1>2, <1>4 DEF LastGot, SemUsed, Shows, GotHead
<1>10. p = Piece("send", "eol", n) => Sent(n)'
  BY <1>1, <1>2 DEF Sent
<1>11. p.line = "sem" /\ p.part = "eol" => SemDone'
  BY <1>1, <1>2, <1>4 DEF SemDone, Shows
<1> QED
  BY <1>5, <1>6, <1>7, <1>8, <1>9, <1>10, <1>11

(* A new piece does not disturb the order of the others; its own is due to *)
(* what stood on the console before it.                                    *)
LEMMA OrderGrow ==
    ASSUME TypeOK, NEW p, console' = Append(console, p), ReportsInOrder,
           GotHead(p) => LastGot(p.val - 1) /\ Sent(p.val) /\ SemDone /\ p.val \in Nat,
           SemHead(p) => SemUsed
    PROVE  ReportsInOrder'
<1>l. PICK L \in Nat : L = Len(console)
  BY DEF TypeOK
<1>1. /\ Len(console') = L + 1 /\ console'[L + 1] = p
      /\ \A k \in 1 .. L : console'[k] = console[k]
  BY <1>l, Grow
<1>2. \A j \in 0 .. L, k \in 1 .. (L + 1) : \A line, part :
         NoneBetween(j, k, line, part) => NoneBetween(j, k, line, part)'
  <2> SUFFICES ASSUME NEW j \in 0 .. L, NEW k \in 1 .. (L + 1), NEW line, NEW part,
                      NoneBetween(j, k, line, part), NEW l \in (j + 1) .. (k - 1)
               PROVE  ~Shows(l, line, part)'
    BY DEF NoneBetween
  <2>1. l \in 1 .. L
    OBVIOUS
  <2> QED
    BY <1>1, <2>1 DEF NoneBetween, Shows
<1>3. ASSUME NEW k \in 1 .. L, GotInTurn(k) PROVE GotInTurn(k)'
  <2> DEFINE n == console[k].val
  <2>1. console'[k] = console[k]
    BY <1>1
  <2>2. PICK d \in 1 .. k : /\ IF d = k THEN n = 1
                               ELSE Shows(k - d, "got", "head") /\ console[k - d].val = n - 1
                            /\ NoneBetween(k - d, k, "got", "head")
    BY <1>3 DEF GotInTurn
  <2>3. PICK e \in 1 .. (k - 1) : console[k - e] = Piece("send", "eol", n)
    BY <1>3 DEF GotInTurn
  <2>4. PICK f \in 1 .. (k - 1) : /\ Shows(k - f, "sem", "eol")
                                  /\ NoneBetween(k - f, k, "got", "head")
    BY <1>3 DEF GotInTurn
  <2>5. /\ k - d \in 0 .. L /\ (d # k => k - d \in 1 .. L) /\ k \in 1 .. (L + 1)
        /\ k - e \in 1 .. L /\ k - f \in 1 .. L /\ k - f \in 0 .. L
    OBVIOUS
  <2>6. NoneBetween(k - d, k, "got", "head")' /\ NoneBetween(k - f, k, "got", "head")'
    BY <1>2, <2>2, <2>4, <2>5
  <2>7. IF d = k THEN n = 1
        ELSE Shows(k - d, "got", "head")' /\ console'[k - d].val = n - 1
    BY <1>1, <2>2, <2>5 DEF Shows
  <2>8. console'[k - e] = Piece("send", "eol", n) /\ Shows(k - f, "sem", "eol")'
    BY <1>1, <2>3, <2>4, <2>5 DEF Shows
  <2> QED
    BY <2>1, <2>6, <2>7, <2>8 DEF GotInTurn
<1>4. ASSUME NEW k \in 1 .. L, SemInTurn(k) PROVE SemInTurn(k)'
  <2>1. PICK d \in 1 .. k : /\ d = k \/ Shows(k - d, "got", "head")
                            /\ NoneBetween(k - d, k, "sem", "head")
    BY <1>4 DEF SemInTurn
  <2>2. k - d \in 0 .. L /\ (d # k => k - d \in 1 .. L) /\ k \in 1 .. (L + 1)
    OBVIOUS
  <2>3. NoneBetween(k - d, k, "sem", "head")' /\ (d = k \/ Shows(k - d, "got", "head")')
    BY <1>1, <1>2, <2>1, <2>2 DEF Shows
  <2> QED
    BY <2>3 DEF SemInTurn
<1>5. ASSUME GotHead(p) PROVE GotInTurn(L + 1)'
  <2> DEFINE n == p.val
  <2>1. LastGot(n - 1) /\ Sent(n) /\ SemDone /\ n \in Nat
    BY <1>5
  <2>2. PICK a \in 0 .. L : /\ NoneBetween(a, L + 1, "got", "head")
                            /\ a # 0 => Shows(a, "got", "head")
                            /\ n - 1 = IF a = 0 THEN 0 ELSE console[a].val
    BY <1>l, <2>1 DEF LastGot
  <2>3. PICK b \in 1 .. L : console[b] = Piece("send", "eol", n)
    BY <1>l, <2>1 DEF Sent
  <2>4. PICK c \in 1 .. L : /\ Shows(c, "sem", "eol")
                            /\ NoneBetween(c, L + 1, "got", "head")
    BY <1>l, <2>1 DEF SemDone
  <2>5. PICK d \in 1 .. (L + 1), e \in 1 .. L, f \in 1 .. L :
           L + 1 - d = a /\ L + 1 - e = b /\ L + 1 - f = c
    <3>1. /\ L + 1 - a \in 1 .. (L + 1) /\ L + 1 - (L + 1 - a) = a
          /\ L + 1 - b \in 1 .. L /\ L + 1 - (L + 1 - b) = b
          /\ L + 1 - c \in 1 .. L /\ L + 1 - (L + 1 - c) = c
      OBVIOUS
    <3> QED
      BY <3>1
  <2>6. /\ (d = L + 1 <=> a = 0) /\ (a # 0 => a \in 1 .. L) /\ L + 1 \in 1 .. (L + 1)
        /\ L + 1 - 1 = L /\ c \in 0 .. L /\ (n - 1 = 0 => n = 1)
    BY <2>1, <2>5
  <2>7. NoneBetween(a, L + 1, "got", "head")' /\ NoneBetween(c, L + 1, "got", "head")'
    BY <1>2, <2>2, <2>4, <2>6
  <2>8. IF d = L + 1 THEN n = 1
        ELSE Shows(a, "got", "head")' /\ console'[a].val = n - 1
    BY <1>1, <2>2, <2>6 DEF Shows
  <2>9. console'[b] = Piece("send", "eol", n) /\ Shows(c, "sem", "eol")'
    BY <1>1, <2>3, <2>4 DEF Shows
  <2>10. PICK q \in Nat : q = L + 1
    OBVIOUS
  <2>11. /\ d \in 1 .. q /\ e \in 1 .. (q - 1) /\ f \in 1 .. (q - 1)
         /\ q - d = a /\ q - e = b /\ q - f = c /\ console'[q].val = n
    BY <1>1, <2>5, <2>6, <2>10
  <2>12. \E x \in 1 .. q :
            /\ IF x = q THEN console'[q].val = 1
               ELSE Shows(q - x, "got", "head")' /\ console'[q - x].val = console'[q].val - 1
            /\ NoneBetween(q - x, q, "got", "head")'
    BY <2>7, <2>8, <2>10, <2>11
  <2>13. \E x \in 1 .. (q - 1) : console'[q - x] = Piece("send", "eol", console'[q].val)
    BY <2>9, <2>11
  <2>14. \E x \in 1 .. (q - 1) : /\ Shows(q - x, "sem", "eol")'
                                  /\ NoneBetween(q - x, q, "got", "head")'
    BY <2>7, <2>9, <2>10, <2>11
  <2>15. GotInTurn(q)'
    BY <2>12, <2>13, <2>14 DEF GotInTurn
  <2> QED
    BY <2>10, <2>15
<1>6. ASSUME SemHead(p) PROVE SemInTurn(L + 1)'
  <2>1. PICK a \in 0 .. L : /\ a # 0 => Shows(a, "got", "head")
                            /\ NoneBetween(a, L + 1, "sem", "head")
    BY <1>l, <1>6 DEF SemUsed
  <2>2. PICK d \in 1 .. (L + 1) : L + 1 - d = a
    <3>1. L + 1 - a \in 1 .. (L + 1) /\ L + 1 - (L + 1 - a) = a
      OBVIOUS
    <3> QED
      BY <3>1
  <2>3. (d = L + 1 <=> a = 0) /\ (a # 0 => a \in 1 .. L) /\ L + 1 \in 1 .. (L + 1)
    BY <2>2
  <2>4. NoneBetween(a, L + 1, "sem", "head")' /\ (d = L + 1 \/ Shows(a, "got", "head")')
    BY <1>1, <1>2, <2>1, <2>3 DEF Shows
  <2> QED
    BY <2>2, <2>4 DEF SemInTurn
<1>7. ASSUME NEW k \in 1 .. (L + 1)
      PROVE  /\ Shows(k, "got", "head")' => GotInTurn(k)'
             /\ Shows(k, "sem", "head")' => SemInTurn(k)'
  <2>1. CASE k = L + 1
    BY <1>1, <1>5, <1>6, <2>1 DEF Shows, GotHead, SemHead
  <2>2. CASE k # L + 1
    <3>1. k \in 1 .. L /\ console'[k] = console[k]
      BY <1>1, <2>2
    <3> QED
      BY <1>l, <1>3, <1>4, <3>1 DEF ReportsInOrder, Shows
  <2> QED
    BY <2>1, <2>2
<1> QED
  BY <1>1, <1>7 DEF ReportsInOrder

(* What is on the console does not depend on anything else.                *)
LEMMA SameConsole ==
    ASSUME console' = console
    PROVE  /\ \A n : LastGot(n) => LastGot(n)'
           /\ \A n : Sent(n) => Sent(n)'
           /\ (SemDone => SemDone') /\ (SemUsed => SemUsed')
           /\ ReportsInOrder => ReportsInOrder'
<1>1. \A j, k, line, part : NoneBetween(j, k, line, part) <=> NoneBetween(j, k, line, part)'
  BY DEF NoneBetween, Shows
<1>2. \A k, line, part : Shows(k, line, part) <=> Shows(k, line, part)'
  BY DEF Shows
<1>3. \A n : LastGot(n) => LastGot(n)'
  BY <1>1, <1>2 DEF LastGot
<1>4. /\ \A n : Sent(n) => Sent(n)'
      /\ (SemDone => SemDone') /\ (SemUsed => SemUsed')
  BY <1>1, <1>2 DEF Sent, SemDone, SemUsed
<1>5. \A k : /\ GotInTurn(k) => GotInTurn(k)'
             /\ SemInTurn(k) => SemInTurn(k)'
  BY <1>1, <1>2 DEF GotInTurn, SemInTurn
<1>6. ReportsInOrder => ReportsInOrder'
  BY <1>2, <1>5 DEF ReportsInOrder
<1> QED
  BY <1>3, <1>4, <1>6

LEMMA ConsumerSame ==
    ASSUME GotsShown, SemsShown, console' = console,
           pc'["C"] = pc["C"], out'["C"] = out["C"], consumed' = consumed
    PROVE  GotsShown' /\ SemsShown'
<1>1. Begins <=> Begins'
  BY DEF Begins
<1>2. SemsShown'
  BY <1>1, SameConsole DEF SemsShown
<1>3. PICK v : v = (IF pc["C"] = "check" /\ Begins THEN consumed - 1 ELSE consumed)
  OBVIOUS
<1>4. LastGot(v)' /\ v = (IF pc["C"] = "check" /\ Begins THEN consumed - 1 ELSE consumed)'
  BY <1>1, <1>3, SameConsole DEF GotsShown
<1> QED
  BY <1>2, <1>4 DEF GotsShown

LEMMA ProducerSame ==
    ASSUME SendsShown, console' = console, sem' + taken' = sem + taken,
           pc'["P"] = pc["P"], out'["P"] = out["P"], i' = i
    PROVE  SendsShown'
<1>1. \A n \in 1 .. (sem' + taken') : Sent(n)'
  BY SameConsole DEF SendsShown
<1>2. PICK v : v = i
  OBVIOUS
<1>3. pc["P"] = "give" /\ out["P"] = << >> => Sent(v)' /\ v = i'
  BY <1>2, SameConsole DEF SendsShown
<1>4. pc'["P"] = "give" /\ out'["P"] = << >> => Sent(i)'
  BY <1>3
<1> QED
  BY <1>1, <1>4 DEF SendsShown

(* A piece is accepted.                                                    *)
LEMMA OrderStore ==
    ASSUME DemoInv, Script, GotsShown, SendsShown, SemsShown, ReportsInOrder,
           NEW t \in Contexts, uart_putc_Store(t)
    PROVE  GotsShown' /\ SendsShown' /\ SemsShown' /\ ReportsInOrder'
<1>t. TypeOK /\ "C" \in Contexts /\ "P" \in Contexts
  BY DEF DemoInv, Contexts, Tasks
<1>b. Books
  BY Counts
<1>p. PICK p : p = Head(out[t])
  OBVIOUS
<1>v. PICK v : v = (IF pc["C"] = "check" /\ Begins THEN consumed - 1 ELSE consumed)
  OBVIOUS
<1>i. PICK j : j = i
  OBVIOUS
<1>1. /\ out[t] # << >> /\ console' = Append(console, p)
      /\ out'[t] = Tail(out[t]) /\ \A u \in Contexts : u # t => out'[u] = out[u]
      /\ UNCHANGED <<pc, st, i, consumed, taken, queue, sem>>
  BY <1>p, StoreEffect
<1>2. \A n : /\ ~GotHead(p) /\ LastGot(n) => LastGot(n)'
             /\ ~GotHead(p) /\ SemDone => SemDone'
             /\ ~SemHead(p) /\ SemUsed => SemUsed'
             /\ Sent(n) => Sent(n)'
             /\ GotHead(p) => LastGot(p.val)' /\ SemUsed'
             /\ p = Piece("send", "eol", n) => Sent(n)'
             /\ p.line = "sem" /\ p.part = "eol" => SemDone'
  BY <1>t, <1>1, Accepted
<1>3. LastGot(v)
  BY <1>v DEF GotsShown
<1>4. /\ t = "main" => p.line \in {"boot", "neg"}
      /\ t = "P" => pc["P"] = "give" /\ Unbroken(out[t], "send", i)
      /\ t = "W" => p.line = "run"
      /\ t = "C" => \/ pc["C"] = "receive" /\ Unbroken(out[t], "sem", 0)
                    \/ pc["C"] = "check" /\ Unbroken(out[t], "got", consumed)
                    \/ pc["C"] = "pass" /\ Unbroken(out[t], "done", 0)
  BY <1>p, <1>1, StoresOf DEF Unbroken
<1>5. SendsShown'
  <2>1. \A n \in 1 .. (sem' + taken') : Sent(n)'
    BY <1>1, <1>2 DEF SendsShown
  <2>2. ASSUME pc'["P"] = "give", out'["P"] = << >> PROVE Sent(j)'
    <3>1. CASE t # "P"
      BY <1>t, <1>i, <1>1, <1>2, <2>2, <3>1 DEF SendsShown
    <3>2. CASE t = "P"
      <4>1. p.line = "send" /\ p.val = j /\ p.part = "eol"
        BY <1>p, <1>i, <1>1, <1>4, <2>2, <3>2 DEF Unbroken
      <4>2. p \in Pieces
        <5>1. out[t] \in Seq(Pieces)
          BY <1>t DEF TypeOK
        <5> QED
          BY <1>p, <1>1, <5>1, HeadTailType
      <4>3. p = Piece("send", "eol", j)
        BY <4>1, <4>2 DEF Pieces, Piece
      <4> QED
        BY <1>2, <4>3
    <3> QED
      BY <3>1, <3>2
  <2>3. j = i'
    BY <1>i, <1>1
  <2> QED
    BY <2>1, <2>2, <2>3 DEF SendsShown
<1>6. CASE t # "C"
  <2>1. ~GotHead(p) /\ ~SemHead(p)
    BY <1>p, <1>4, <1>6 DEF GotHead, SemHead, Unbroken, Contexts, Tasks
  <2>2. out'["C"] = out["C"] /\ pc' = pc /\ consumed' = consumed /\ (Begins <=> Begins')
    BY <1>t, <1>1, <1>6 DEF Begins
  <2>3. LastGot(v)' /\ v = (IF pc["C"] = "check" /\ Begins THEN consumed - 1 ELSE consumed)'
    BY <1>2, <1>3, <1>v, <2>1, <2>2
  <2>4. GotsShown'
    BY <2>3 DEF GotsShown
  <2>5. SemsShown'
    BY <1>2, <2>1, <2>2 DEF SemsShown
  <2>6. ReportsInOrder'
    BY <1>t, <1>1, <2>1, OrderGrow
  <2> QED
    BY <1>5, <2>4, <2>5, <2>6
<1>7. CASE t = "C"
  <2>1. /\ Tail(out["C"]) = << >> => p.part = "eol"
        /\ ~Begins'
        /\ Begins <=> p.part = "head"
    BY <1>p, <1>1, <1>4, <1>7 DEF Unbroken, Begins
  <2>2. PICK c : c = consumed
    OBVIOUS
  <2>3. ASSUME LastGot(c)' PROVE GotsShown'
    <3>1. c = (IF pc["C"] = "check" /\ Begins THEN consumed - 1 ELSE consumed)'
      BY <1>1, <2>1, <2>2
    <3> QED
      BY <2>3, <3>1 DEF GotsShown
  <2>4. CASE pc["C"] = "receive" /\ Unbroken(out[t], "sem", 0)
    <3>1. p.line = "sem" /\ ~GotHead(p) /\ v = c
      BY <1>p, <1>v, <2>2, <2>4 DEF Unbroken, GotHead
    <3>2. GotsShown'
      BY <1>2, <1>3, <2>3, <3>1
    <3>3. SemHead(p) => SemUsed
      BY <2>1, <2>4 DEF SemHead, SemsShown
    <3>4. ReportsInOrder'
      BY <1>t, <1>1, <3>1, <3>3, OrderGrow
    <3>5. out'["C"] = << >> => SemDone'
      BY <1>1, <1>2, <1>7, <2>1, <3>1
    <3>6. SemsShown'
      BY <1>1, <2>1, <2>4, <3>5 DEF SemsShown
    <3> QED
      BY <1>5, <3>2, <3>4, <3>6
  <2>5. CASE pc["C"] = "check" /\ Unbroken(out[t], "got", consumed)
    <3>1. p.line = "got" /\ p.val = c /\ ~SemHead(p)
      BY <1>p, <2>2, <2>5 DEF Unbroken, SemHead
    <3>2. CASE Begins
      <4>1. GotHead(p)
        BY <2>1, <3>1, <3>2 DEF GotHead
      <4>2. v = c - 1 /\ LastGot(c - 1)
        BY <1>v, <1>3, <2>2, <2>5, <3>2
      <4>3. c \in Nat /\ sem \in Nat /\ taken = c
        BY <1>b, <2>2, <2>5 DEF Books, Holding
      <4>4. c >= 1
        <5>1. PICK k \in 0 .. Len(console) :
                 c - 1 = IF k = 0 THEN 0 ELSE console[k].val
          BY <4>2 DEF LastGot
        <5>2. k # 0 => console[k].val \in Nat
          <6>1. k # 0 => console[k] \in Pieces
            BY <1>t DEF TypeOK
          <6> QED
            BY <6>1 DEF Pieces
        <5> QED
          BY <4>3, <5>1, <5>2
      <4>5. Sent(c)
        <5>1. c \in 1 .. (sem + taken)
          BY <4>3, <4>4
        <5> QED
          BY <5>1 DEF SendsShown
      <4>6. SemDone
        BY <2>5, <3>2 DEF SemsShown
      <4>7. ReportsInOrder'
        BY <1>t, <1>1, <3>1, <4>2, <4>3, <4>5, <4>6, OrderGrow
      <4>8. GotsShown'
        BY <1>2, <2>3, <3>1, <4>1
      <4>9. SemsShown'
        BY <1>1, <1>2, <2>1, <2>5, <4>1 DEF SemsShown
      <4> QED
        BY <1>5, <4>7, <4>8, <4>9
    <3>3. CASE ~Begins
      <4>1. ~GotHead(p) /\ v = c
        BY <1>v, <2>1, <2>2, <3>3 DEF GotHead
      <4>2. GotsShown'
        BY <1>2, <1>3, <2>3, <4>1
      <4>3. SemsShown'
        BY <1>1, <1>2, <2>1, <2>5, <3>1, <3>3 DEF SemsShown
      <4>4. ReportsInOrder'
        BY <1>t, <1>1, <3>1, <4>1, OrderGrow
      <4> QED
        BY <1>5, <4>2, <4>3, <4>4
    <3> QED
      BY <3>2, <3>3
  <2>6. CASE pc["C"] = "pass" /\ Unbroken(out[t], "done", 0)
    <3>1. ~GotHead(p) /\ ~SemHead(p) /\ v = c
      BY <1>p, <1>v, <2>2, <2>6 DEF Unbroken, GotHead, SemHead
    <3>2. GotsShown'
      BY <1>2, <1>3, <2>3, <3>1
    <3>3. SemsShown'
      BY <1>1, <1>2, <2>6, <3>1 DEF SemsShown
    <3>4. ReportsInOrder'
      BY <1>t, <1>1, <3>1, OrderGrow
    <3> QED
      BY <1>5, <3>2, <3>3, <3>4
  <2> QED
    BY <1>4, <1>7, <2>4, <2>5, <2>6
<1> QED
  BY <1>6, <1>7

(* The Consumer goes from statement to statement.                          *)
LEMMA OrderConsumer ==
    ASSUME DemoInv, GotsShown, SemsShown,
           xSemaphoreTake \/ xQueueReceive \/ vConsumer_Check
    PROVE  GotsShown' /\ SemsShown'
<1> USE DEF kernel, app, ipc, io
<1>t. TypeOK /\ "C" \in Contexts /\ "C" \in Tasks
  BY DEF DemoInv, Contexts, Tasks
<1>b. Books
  BY Counts
<1>c. PICK c \in Nat : c = consumed
  BY <1>b DEF Books
<1>1. CASE xSemaphoreTake
  <2>1. pc["C"] = "take" /\ console' = console /\ consumed' = consumed
    BY <1>1, AtFacts DEF xSemaphoreTake
  <2>2. CASE sem > 0
    <3>1. out'["C"] = Text("sem") /\ pc'["C"] = "receive"
      BY <1>1, <1>t, <2>2, SayEffect DEF xSemaphoreTake
    <3>2. LastGot(c)' /\ SemUsed' /\ out'["C"] # << >>
      BY <1>c, <2>1, <3>1, SameConsole, WholeLine DEF GotsShown, SemsShown
    <3>3. c = (IF pc["C"] = "check" /\ Begins THEN consumed - 1 ELSE consumed)'
      BY <1>c, <2>1, <3>1
    <3>4. GotsShown'
      BY <3>2, <3>3 DEF GotsShown
    <3> QED
      BY <3>1, <3>2, <3>4 DEF SemsShown
  <2>3. CASE ~(sem > 0)
    BY <1>1, <2>1, <2>3, ConsumerSame DEF xSemaphoreTake
  <2> QED
    BY <2>2, <2>3
<1>2. CASE xQueueReceive
  <2>1. pc["C"] = "receive" /\ out["C"] = << >> /\ console' = console
    BY <1>2, AtFacts DEF xQueueReceive
  <2>2. CASE queue # << >>
    <3>1. /\ out'["C"] = Line("got", Head(queue)) /\ pc'["C"] = "check"
          /\ consumed' = consumed + 1
      BY <1>2, <1>t, <2>2, SayEffect DEF xQueueReceive
    <3>2. LastGot(c)' /\ SemDone'
      BY <1>c, <2>1, <3>1, SameConsole DEF GotsShown, SemsShown
    <3>3. Begins'
      BY <3>1, WholeLine DEF Begins
    <3>4. c = (IF pc["C"] = "check" /\ Begins THEN consumed - 1 ELSE consumed)'
      BY <1>c, <3>1, <3>3
    <3>5. GotsShown'
      BY <3>2, <3>4 DEF GotsShown
    <3> QED
      BY <3>1, <3>2, <3>3, <3>5 DEF SemsShown
  <2>3. CASE queue = << >>
    BY <1>2, <2>1, <2>3, ConsumerSame DEF xQueueReceive
  <2> QED
    BY <2>2, <2>3
<1>3. CASE vConsumer_Check
  <2>1. pc["C"] = "check" /\ ~Begins /\ console' = console /\ consumed' = consumed
    BY <1>3, AtFacts DEF vConsumer_Check, Begins
  <2>2. pc'["C"] \in {"take", "pass"}
    BY <1>3, <1>t, SayEffect DEF vConsumer_Check
  <2>3. LastGot(c)' /\ SemUsed'
    BY <1>c, <2>1, SameConsole DEF GotsShown, SemsShown
  <2>4. c = (IF pc["C"] = "check" /\ Begins THEN consumed - 1 ELSE consumed)'
    BY <1>c, <2>1, <2>2
  <2>5. GotsShown'
    BY <2>3, <2>4 DEF GotsShown
  <2> QED
    BY <2>2, <2>3, <2>5 DEF SemsShown
<1> QED
  BY <1>1, <1>2, <1>3

(* The Producer queues, prints, gives and sleeps.                          *)
LEMMA OrderProducer ==
    ASSUME DemoInv, SendsShown, xQueueSend \/ xSemaphoreGive \/ vTaskDelay
    PROVE  SendsShown'
<1> USE DEF kernel, app, ipc, io
<1>t. TypeOK /\ "P" \in Contexts
  BY DEF DemoInv, Contexts, Tasks
<1>b. Books
  BY Counts
<1>1. CASE xQueueSend
  <2>1. console' = console /\ sem' = sem /\ taken' = taken /\ i' = i
    BY <1>1 DEF xQueueSend
  <2>2. CASE Say("P", Line("send", i), "give")
    <3>1. out'["P"] # << >>
      BY <1>t, <2>2, SayEffect, WholeLine
    <3> QED
      BY <2>1, <3>1, SameConsole DEF SendsShown
  <2>3. CASE UNCHANGED <<out, pc>>
    BY <2>1, <2>3, ProducerSame
  <2> QED
    BY <1>1, <2>2, <2>3 DEF xQueueSend
<1>2. CASE xSemaphoreGive
  <2>1. pc["P"] = "give" /\ out["P"] = << >> /\ sem = 0 /\ console' = console /\ taken' = taken
    BY <1>2, ProducerAlone, AtFacts DEF xSemaphoreGive
  <2>2. pc'["P"] = "delay"
    BY <1>2, <1>t, GotoEffect DEF xSemaphoreGive
  <2>3. sem' = 1
    BY <1>2, <2>1, RtosAssumption DEF xSemaphoreGive
  <2>4. taken \in Nat /\ sem + taken = i - 1 /\ i \in Nat
    BY <1>b, <2>1 DEF Books, Holding
  <2>5. PICK j : j = i
    OBVIOUS
  <2>6. Sent(j)'
    BY <2>1, <2>5, SameConsole DEF SendsShown
  <2>7. ASSUME NEW n \in 1 .. (sem' + taken') PROVE Sent(n)'
    <3>1. n = j \/ n \in 1 .. (sem + taken)
      BY <2>1, <2>3, <2>4, <2>5
    <3>2. n \in 1 .. (sem + taken) => Sent(n)'
      BY <2>1, SameConsole DEF SendsShown
    <3> QED
      BY <2>6, <3>1, <3>2
  <2> QED
    BY <2>2, <2>7 DEF SendsShown
<1>3. CASE vTaskDelay
  <2>1. pc'["P"] = "send" /\ console' = console /\ sem' = sem /\ taken' = taken
    BY <1>3, <1>t, GotoEffect DEF vTaskDelay
  <2> QED
    BY <2>1, SameConsole DEF SendsShown
<1> QED
  BY <1>1, <1>2, <1>3

LEMMA OrderStep ==
    ASSUME DemoInv, Script, GotsShown, SendsShown, SemsShown, ReportsInOrder, Next
    PROVE  GotsShown' /\ SendsShown' /\ SemsShown' /\ ReportsInOrder'
<1> USE DEF kernel, app, ipc, io
<1>t. /\ TypeOK /\ "C" \in Contexts /\ "P" \in Contexts /\ "W" \in Contexts /\ "main" \in Contexts
  BY DEF DemoInv, Contexts, Tasks
<1>b. Books
  BY Counts
<1>1. ASSUME NEW t \in Contexts, uart_putc_Store(t)
      PROVE  GotsShown' /\ SendsShown' /\ SemsShown' /\ ReportsInOrder'
  BY <1>1, OrderStore
<1>2. CASE xSemaphoreTake \/ xQueueReceive \/ vConsumer_Check
  <2>1. /\ pc'["P"] = pc["P"] /\ out'["P"] = out["P"] /\ i' = i /\ console' = console
    BY <1>2, <1>t, SayEffect DEF xSemaphoreTake, xQueueReceive, vConsumer_Check
  <2>2. sem' + taken' = sem + taken
    <3>1. sem \in Nat /\ taken \in Nat
      BY <1>b DEF Books
    <3>2. (sem' = sem - 1 /\ taken' = taken + 1) \/ (sem' = sem /\ taken' = taken)
      BY <1>2 DEF xSemaphoreTake, xQueueReceive, vConsumer_Check
    <3> QED
      BY <3>1, <3>2
  <2> QED
    BY <1>2, <2>1, <2>2, OrderConsumer, ProducerSame, SameConsole
<1>3. CASE xQueueSend \/ xSemaphoreGive \/ vTaskDelay
  <2>1. /\ pc'["C"] = pc["C"] /\ out'["C"] = out["C"] /\ consumed' = consumed
        /\ console' = console
    BY <1>3, <1>t, SayEffect, GotoEffect DEF xQueueSend, xSemaphoreGive, vTaskDelay
  <2> QED
    BY <1>3, <2>1, OrderProducer, ConsumerSame, SameConsole
<1>4. ASSUME /\ pc'["C"] = pc["C"] /\ out'["C"] = out["C"] /\ consumed' = consumed
             /\ pc'["P"] = pc["P"] /\ out'["P"] = out["P"] /\ i' = i
             /\ console' = console /\ sem' = sem /\ taken' = taken
      PROVE  GotsShown' /\ SendsShown' /\ SemsShown' /\ ReportsInOrder'
  BY <1>4, ConsumerSame, ProducerSame, SameConsole
<1>5. CASE main_Boot
  BY <1>4, <1>5, <1>t, SayEffect DEF main_Boot
<1>6. CASE main_Create
  <2>1. sem = 0
    BY <1>6, AtFacts DEF main_Create, DemoInv, Started
  <2> QED
    BY <1>4, <1>6, <1>t, <2>1, SayEffect DEF main_Create
<1>7. CASE vTaskStartScheduler
  BY <1>4, <1>7, <1>t, GotoEffect DEF vTaskStartScheduler
<1>8. CASE vWorker_Spin /\ Say("W", Line("run", 0), "spin")
  BY <1>4, <1>8, <1>t, SayEffect DEF vWorker_Spin
<1>9. CASE Quiet
  BY <1>4, <1>9 DEF Quiet
<1> QED
  BY <1>1, <1>2, <1>3, <1>5, <1>6, <1>7, <1>8, <1>9, StepKinds

LEMMA OrderInit == Init => OrderInv
<1> SUFFICES ASSUME Init PROVE OrderInv
  OBVIOUS
<1>1. /\ pc["C"] = "take" /\ pc["P"] = "send" /\ Len(console) = 0
      /\ consumed = 0 /\ sem = 0 /\ taken = 0
  BY DEF Init, Entry, Contexts, Tasks
<1>2. \A line, part : NoneBetween(0, Len(console) + 1, line, part)
  BY <1>1 DEF NoneBetween
<1>3. LastGot(0) /\ SemUsed
  BY <1>1, <1>2 DEF LastGot, SemUsed
<1>4. GotsShown /\ SemsShown /\ SendsShown
  BY <1>1, <1>3 DEF GotsShown, SemsShown, SendsShown
<1>5. ReportsInOrder
  BY <1>1 DEF ReportsInOrder
<1> QED
  BY <1>4, <1>5, LineInit DEF OrderInv

LEMMA OrderInvariant == Spec => []OrderInv
<1> DEFINE Inv == DemoInv /\ LineInv /\ OrderInv
<1>1. Init => Inv
  BY DemoInit, LineInit, OrderInit
<1>2. Inv /\ [Next]_vars => Inv'
  <2> SUFFICES ASSUME DemoInv, LineInv, OrderInv, [Next]_vars PROVE OrderInv'
    BY DemoStep, LineStep DEF OrderInv
  <2>1. Queued'
    BY LineStep DEF OrderInv
  <2>2. CASE Next
    BY <2>1, <2>2, OrderStep DEF LineInv, OrderInv
  <2>3. CASE UNCHANGED vars
    <3>1. UNCHANGED <<pc, out, consumed, i, console, sem, taken>>
      BY <2>3 DEF vars, kernel, app, ipc, io
    <3> QED
      BY <2>1, <3>1, ConsumerSame, ProducerSame, SameConsole DEF OrderInv
  <2> QED
    BY <2>2, <2>3
<1> QED
  BY <1>1, <1>2, PTL DEF Spec

(* What run_rtos.py checks of a complete transcript holds of the console   *)
(* at every moment, for any number of items: values are received in the    *)
(* order sent, and no "[C]got:N" begins before "[P]send:N" and a "[C]sem"  *)
(* of its own are complete (main.c, vProducer prints before it gives;      *)
(* vConsumer takes and prints before it receives).                         *)
THEOREM TranscriptInOrder == Spec => []ReportsInOrder
BY OrderInvariant, PTL DEF OrderInv
=============================================================================
