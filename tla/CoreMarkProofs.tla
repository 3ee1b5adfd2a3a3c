--------------------------- MODULE CoreMarkProofs ---------------------------
(***************************************************************************)
(* Proofs about CoreMark, for every build that meets the assumptions: any  *)
(* block size, any seeds, any speed.  The inductive invariant is           *)
(* Base /\ Working; Timed is the one of the calibration.                   *)
(***************************************************************************)
EXTENDS CoreMark, CoreMarkOperatorProofs

---------------------------------------------------------------------------
(* Where the program is, and what the sort under way, or the last one, is  *)
(* for.                                                                    *)

(* The records keep their fields.                                          *)
Fields ==
    /\ DOMAIN bl = {"finder_idx", "i", "retval", "found", "missed", "idx", "remover"}
    /\ DOMAIN ms = {"list", "p", "q", "tail", "insize", "nmerges", "psize", "qsize", "cmp", "ret"}
    /\ DOMAIN ca = {"c", "val", "k", "crc", "p", "track", "final"}
    /\ DOMAIN run = {"iterations", "i", "clock", "start", "stop", "secs"}
    /\ DOMAIN res = {"crc", "crclist", "crcmatrix", "crcstate"}

(* The build does not change, and the seeds are those of the build.        *)
Env == inp \in Inputs /\ (pc # "start" => seed = DefaultSeeds(inp.seed))

(* Statements of the sort and of calc_func, and before the first           *)
(* iteration.                                                              *)
Sorting == pc \in {"pass", "merge", "element"}
Calculating == pc \in {"default", "matrix", "scan"}
Preparing == pc \in {"start", "inits"} \/ (Sorting /\ ms.ret = "inits")

(* The sort under way, or the last one, and what follows it.               *)
Control ==
    /\ \/ Sorting \/ Calculating
       \/ pc \in {"start", "inits", "calibrate", "iterate", "find", "remove", "undo", "finish",
                  "validate", "done"}
    /\ ms.ret \in {"inits", "remove", "finish"}
    /\ ms.cmp = IF ms.ret = "remove" THEN "complex" ELSE "idx"
    /\ pc \in {"start", "inits"} => ms.ret = "inits"
    /\ pc \in {"undo", "remove"} => ms.ret \in {"remove", "finish"}
    /\ pc = "finish" => ms.ret = "finish"
    /\ Calculating => ms.ret = "remove"
    /\ pc = "find" => bl.finder_idx \in {1, -1} /\ (bl.finder_idx = -1 => ms.ret = "finish")
Base == Fields /\ Env /\ Control

(* The control part of the invariant holds at the start of main.           *)
LEMMA BaseInit == Init => Base
BY DEF Init, Base, Fields, Env, Control, Sorting, Calculating, Sort

(* Every step keeps the control part.                                      *)
LEMMA BaseStep == Base /\ [Next]_vars => Base'
<1> SUFFICES ASSUME Base, [Next]_vars PROVE Base'
  OBVIOUS
<1> USE DEF Base
<1>1. CASE Main
  <2>1. CASE main_Start
    BY <2>1 DEF main_Start, Fields, Env, Control, Sorting, Calculating, Sort
  <2>2. CASE main_Inits
    BY <2>2 DEF main_Inits, Fields, Env, Control, Sorting, Calculating
  <2>3. CASE main_Trial
    BY <2>3 DEF main_Trial, Fields, Env, Control, Sorting, Calculating, start_time, stop_time, Work
  <2>4. CASE main_SetIterations
    BY <2>4 DEF main_SetIterations, Fields, Env, Control, Sorting, Calculating
  <2>5. CASE main_Validate
    BY <2>5 DEF main_Validate, Fields, Env, Control, Sorting, Calculating
  <2> QED BY <1>1, <2>1, <2>2, <2>3, <2>4, <2>5 DEF Main
<1>2. CASE ListOps
  <2>1. CASE iterate
    BY <2>1 DEF iterate, Bench, start_time, Fields, Env, Control, Sorting, Calculating
  <2>2. CASE Find_Turn
    <3>1. UNCHANGED <<inp, pc, seed, ms, ca, res, run>>
      BY <2>2 DEF Find_Turn
    <3>2. DOMAIN bl' = DOMAIN bl /\ bl'.finder_idx = bl.finder_idx
      BY <2>2, ZenonT(40) DEF Find_Turn, Fields
    <3> QED BY <3>1, <3>2 DEF Fields, Env, Control, Sorting, Calculating
  <2>3. CASE Find_End
    BY <2>3 DEF Find_End, Sort, Fields, Env, Control, Sorting, Calculating
  <2>4. CASE List_Remove
    BY <2>4 DEF List_Remove, Fields, Env, Control, Sorting, Calculating
  <2>5. CASE List_Undo
    BY <2>5 DEF List_Undo, Sort, Fields, Env, Control, Sorting, Calculating
  <2>6. CASE Finish
    <3>1. UNCHANGED <<inp, seed, ms, ca>> /\ pc = "finish" /\ pc' \in {"find", "validate"}
      BY <2>6 DEF Finish, Bench
    <3>2. DOMAIN bl' = DOMAIN bl /\ (pc' = "find" => bl'.finder_idx \in {1, -1})
      BY <2>6 DEF Finish, Bench, Fields
    <3>3. DOMAIN run' = DOMAIN run
      BY <2>6 DEF Finish, Bench, Fields, Work, stop_time
    <3>4. DOMAIN res' = DOMAIN res
      BY <2>6 DEF Finish, Fields
    <3> QED BY <3>1, <3>2, <3>3, <3>4 DEF Fields, Env, Control, Sorting, Calculating
  <2> QED BY <1>2, <2>1, <2>2, <2>3, <2>4, <2>5, <2>6 DEF ListOps
<1>3. CASE SortOps
  <2>1. CASE Pass_Start
    BY <2>1 DEF Pass_Start, Fields, Env, Control, Sorting, Calculating
  <2>2. CASE Merge_Start
    BY <2>2 DEF Merge_Start, Fields, Env, Control, Sorting, Calculating
  <2>3. CASE Merge_Element
    <3>1. UNCHANGED <<inp, pc, seed, bl, ca, res, run>>
      BY <2>3 DEF Merge_Element
    <3>2. DOMAIN ms' = DOMAIN ms /\ ms'.ret = ms.ret /\ ms'.cmp = ms.cmp
      BY <2>3 DEF Merge_Element, Append_Cell, Fields
    <3> QED BY <3>1, <3>2 DEF Fields, Env, Control, Sorting, Calculating
  <2>4. CASE Merge_End
    BY <2>4 DEF Merge_End, Fields, Env, Control, Sorting, Calculating
  <2>5. CASE Pass_End
    <3>1. UNCHANGED <<inp, seed, bl, ca, res, run>> /\ pc = "merge" /\ pc' \in {ms.ret, "pass"}
      BY <2>5 DEF Pass_End
    <3>2. DOMAIN ms' = DOMAIN ms /\ ms'.ret = ms.ret /\ ms'.cmp = ms.cmp
      BY <2>5 DEF Pass_End, Fields
    <3> QED BY <3>1, <3>2 DEF Fields, Env, Control, Sorting, Calculating
  <2> QED BY <1>3, <2>1, <2>2, <2>3, <2>4, <2>5 DEF SortOps
<1>4. CASE CalcOps
  <2>1. CASE calc_func
    <3>1. UNCHANGED <<inp, seed, bl, ms, res, run>> /\ pc = "element" /\ pc' \in {"scan", "matrix", "default"}
      BY <2>1 DEF calc_func
    <3>2. ms.ret = "remove"
      <4>1. ms.cmp = "complex"
        BY <2>1 DEF calc_func, Uncached
      <4> QED BY <4>1 DEF Control
    <3>3. DOMAIN ca' = DOMAIN ca
      BY <2>1 DEF calc_func, Fields
    <3> QED BY <3>1, <3>2, <3>3 DEF Fields, Env, Control, Sorting, Calculating
  <2>2. CASE calc_Default
    BY <2>2 DEF calc_Default, Return, Fields, Env, Control, Sorting, Calculating
  <2>3. CASE matrix_Step
    BY <2>3 DEF matrix_Step, Fields, Env, Control, Sorting, Calculating
  <2>4. CASE matrix_Return
    BY <2>4 DEF matrix_Return, Return, Fields, Env, Control, Sorting, Calculating
  <2>5. CASE state_Token
    BY <2>5 DEF state_Token, Fields, Env, Control, Sorting, Calculating
  <2>6. CASE state_Corrupt
    BY <2>6 DEF state_Corrupt, Fields, Env, Control, Sorting, Calculating
  <2>7. CASE state_Return
    BY <2>7 DEF state_Return, Return, Fields, Env, Control, Sorting, Calculating
  <2> QED BY <1>4, <2>1, <2>2, <2>3, <2>4, <2>5, <2>6, <2>7 DEF CalcOps
<1>5. CASE Halt \/ UNCHANGED vars
  BY <1>5 DEF Halt, vars, Fields, Env, Control, Sorting, Calculating
<1> QED BY <1>1, <1>2, <1>3, <1>4, <1>5 DEF Next

---------------------------------------------------------------------------
(* Time and memory.                                                        *)

(* The list and sort operations and the computed comparisons.              *)
Inner == \/ Find_Turn \/ Find_End \/ List_Remove \/ List_Undo \/ SortOps \/ CalcOps
Outer == {"start", "calibrate", "iterate", "validate", "done"}

(* They do not touch the clock, the number of iterations or the report.    *)
LEMMA InnerStep ==
    ASSUME Base, Inner \/ main_Start
    PROVE  /\ UNCHANGED <<inp, run, home, report>> /\ Preparing' = Preparing
           /\ pc' \notin Outer /\ (main_Start \/ pc \notin Outer)
<1>0. Control' /\ Control
  BY BaseStep DEF Base, Inner, Next, Main, ListOps
<1>1. CASE main_Start
  BY <1>1 DEF main_Start, Preparing, Sorting, Sort, Outer
<1>2. CASE Find_Turn
  BY <1>2 DEF Find_Turn, Preparing, Sorting, Outer
<1>3. CASE Find_End
  BY <1>3 DEF Find_End, Preparing, Sorting, Outer, Sort
<1>4. CASE List_Remove
  BY <1>4 DEF List_Remove, Preparing, Sorting, Outer
<1>5. CASE List_Undo
  BY <1>5 DEF List_Undo, Preparing, Sorting, Outer, Sort
<1>6. CASE SortOps
  <2>1. UNCHANGED <<inp, run, home, report>> /\ pc \in {"pass", "merge", "element"}
    BY <1>6 DEF SortOps, Pass_Start, Merge_Start, Merge_Element, Merge_End, Pass_End
  <2>2. ms'.ret = ms.ret
    BY <1>6 DEF SortOps, Pass_Start, Merge_Start, Merge_Element, Append_Cell, Merge_End, Pass_End, Base, Fields
  <2>3. pc' \in {"pass", "merge", "element", ms.ret}
    BY <1>6 DEF SortOps, Pass_Start, Merge_Start, Merge_Element, Merge_End, Pass_End
  <2> QED BY <1>0, <2>1, <2>2, <2>3 DEF Preparing, Sorting, Outer, Control
<1>7. CASE CalcOps
  <2>1. UNCHANGED <<inp, run, home, report, ms>> /\ pc \in {"element", "default", "matrix", "scan"}
    BY <1>7 DEF CalcOps, calc_func, calc_Default, matrix_Step, matrix_Return, state_Token, state_Corrupt, state_Return
  <2>2. pc' \in {"element", "default", "matrix", "scan"}
    BY <1>7 DEF CalcOps, calc_func, calc_Default, matrix_Step, matrix_Return, state_Token, state_Corrupt, state_Return, Return
  <2>3. ms.ret = "remove"
    <3>1. CASE calc_func
      BY <1>0, <3>1 DEF calc_func, Uncached, Control
    <3>2. CASE pc # "element"
      BY <1>0, <2>1, <3>2 DEF Control, Calculating
    <3> QED BY <1>7, <3>1, <3>2 DEF CalcOps, calc_Default, matrix_Step, matrix_Return, state_Token, state_Corrupt, state_Return
  <2> QED BY <2>1, <2>2, <2>3 DEF Preparing, Sorting, Outer
<1> QED BY <1>1, <1>2, <1>3, <1>4, <1>5, <1>6, <1>7 DEF Inner

(* Ticks a run of all iterations takes.                                    *)
Ticks == inp.tpi * run.iterations

(* What main knows of the speed when it calibrates, and how long the run   *)
(* is that it chooses.                                                     *)
Timed ==
    /\ run.iterations \in Nat /\ run.secs \in Nat /\ run.clock \in 0 .. (CLOCK_MOD - 1)
    /\ inp.iterations = 0 =>
         /\ Preparing => run.iterations = 0 /\ run.secs = 0
         /\ pc = "calibrate" =>
              IF run.secs < 1 THEN 10 * Ticks < CLOCK_MOD
              ELSE Ticks < CLOCK_MOD /\ run.secs = Ticks \div TPS
         /\ ~Preparing /\ pc # "calibrate" => Ticks \in (10 * TPS) .. (100 * TPS) /\ Ticks < CLOCK_MOD
    /\ ~Preparing /\ pc \notin Outer => run.start = run.clock
    /\ pc \in {"validate", "done"} =>
         run.start \in 0 .. (CLOCK_MOD - 1) /\ run.stop = (run.start + Ticks) % CLOCK_MOD

(* What the assumptions say of the build.                                  *)
LEMMA InputFacts ==
    ASSUME Env
    PROVE  /\ TPS \in Nat /\ TPS > 0 /\ CLOCK_MOD \in Nat /\ CLOCK_MOD > 0
           /\ 22 * TPS <= CLOCK_MOD /\ CLOCK_MOD <= 100 * TPS
           /\ inp.iterations \in Nat /\ inp.tpi \in Nat /\ inp.tpi > 0 /\ 10 * inp.tpi < CLOCK_MOD
           /\ inp.clock \in 0 .. (CLOCK_MOD - 1)
           /\ inp.total \in Nat /\ size \in Nat /\ size >= 120
           /\ inp.seed \in [1 .. 3 -> Nat]
BY InputsAssumption, ClockAssumption DEF Env, size

(* The calibration part holds at the start of main.                        *)
LEMMA TimedInit == Init => Timed
<1> SUFFICES ASSUME Init PROVE Timed
  OBVIOUS
<1>1. Env
  BY DEF Init, Env
<1>2. inp.iterations \in Nat /\ inp.clock \in 0 .. (CLOCK_MOD - 1)
  BY <1>1, InputFacts
<1> QED BY <1>2 DEF Init, Timed, Preparing, Outer

(* A difference of two readings of a clock that wraps once.                *)
LEMMA ModAdd ==
    ASSUME NEW m \in Nat, m > 0, NEW x \in 0 .. (m - 1), NEW y \in 0 .. (m - 1)
    PROVE  /\ (x + y) % m \in 0 .. (m - 1)
           /\ (((x + y) % m) - x) % m = y
<1>1. CASE x + y < m
  <2>1. (x + y) % m = x + y
    BY <1>1
  <2>2. (x + y) - x = y /\ y % m = y
    OBVIOUS
  <2> QED BY <1>1, <2>1, <2>2
<1>2. CASE x + y >= m
  <2>1. (x + y) % m = x + y - m
    <3>1. (m * 1 + (x + y - m)) % m = x + y - m
      <4> DEFINE r == x + y - m
      <4>1. r \in Nat /\ r < m
        BY <1>2
      <4> HIDE DEF r
      <4>2. (m * 1 + r) % m = r
        BY <4>1, ModUnique
      <4> QED BY <4>2 DEF r
    <3>2. m * 1 + (x + y - m) = x + y
      OBVIOUS
    <3> QED BY <3>1, <3>2
  <2>2. (y - m) % m = y
    <3> DEFINE z == y - m
               d == z \div m
               r == z % m
    <3>1. z \in Int /\ d \in Int /\ r \in 0 .. (m - 1) /\ z = m * d + r
      BY Halves
    <3> HIDE DEF d, r
    <3>2. m * (d + 1) = y - r
      BY <3>1
    <3>3. d + 1 = 0
      <4>1. ~(d + 1 >= 1)
        <5> SUFFICES ASSUME d >= 0 PROVE FALSE
          BY <3>1
        <5>1. m * d >= 0
          BY <3>1
        <5> QED BY <3>1, <5>1
      <4>2. ~(d + 1 <= -1)
        <5> SUFFICES ASSUME d <= -2 PROVE FALSE
          BY <3>1
        <5>1. m * (-2 - d) >= 0
          BY <3>1
        <5>2. m * (-2 - d) = m * (-2) - m * d
          BY <3>1
        <5> QED BY <3>1, <5>1, <5>2
      <4> QED BY <3>1, <4>1, <4>2
    <3>4. r = y
      BY <3>1, <3>2, <3>3
    <3> QED BY <3>4 DEF r
  <2>3. (x + y - m) - x = y - m
    OBVIOUS
  <2> QED BY <1>2, <2>1, <2>2, <2>3
<1> QED BY <1>1, <1>2

(* The factor main chooses makes a run of 10 seconds or more, and of less  *)
(* than 22 unless one trial alone took more.                               *)
LEMMA Factor ==
    ASSUME NEW t \in Nat, t > 0, NEW P \in Nat, NEW s \in Nat, s >= 1, s = P \div t,
           NEW m \in Nat, 22 * t <= m, m <= 100 * t, P < m
    PROVE  P * (1 + 10 \div s) \in (10 * t) .. (100 * t) /\ P * (1 + 10 \div s) < m
<1>1. P \div t \in Nat /\ P % t \in 0 .. (t - 1) /\ P = (t * (P \div t)) + (P % t)
  BY DivMod
<1> DEFINE r == P % t
<1>2. r \in 0 .. (t - 1) /\ P = t * s + r
  BY <1>1
<1> HIDE DEF r
<1>3. CASE s > 10
  <2>1. 10 \div s = 0
    BY <1>3
  <2>2. P * (1 + 10 \div s) = P
    BY <2>1
  <2>3. t * (s - 10) >= 0
    BY <1>3
  <2>4. P >= 10 * t
    BY <1>2, <2>3
  <2> QED BY <2>2, <2>4
<1>4. CASE s = 1
  <2>1. P * (1 + 10 \div s) = 11 * P /\ P = t + r
    BY <1>2, <1>4
  <2> QED BY <1>2, <2>1
<1>5. CASE s = 2
  <2>1. P * (1 + 10 \div s) = 6 * P /\ P = 2 * t + r
    BY <1>2, <1>5
  <2> QED BY <1>2, <2>1
<1>6. CASE s = 3
  <2>1. P * (1 + 10 \div s) = 4 * P /\ P = 3 * t + r
    BY <1>2, <1>6
  <2> QED BY <1>2, <2>1
<1>7. CASE s = 4
  <2>1. P * (1 + 10 \div s) = 3 * P /\ P = 4 * t + r
    BY <1>2, <1>7
  <2> QED BY <1>2, <2>1
<1>8. CASE s = 5
  <2>1. P * (1 + 10 \div s) = 3 * P /\ P = 5 * t + r
    BY <1>2, <1>8
  <2> QED BY <1>2, <2>1
<1>9. CASE s \in 6 .. 10
  <2>1. 10 \div s = 1
    BY <1>9
  <2>2. P * (1 + 10 \div s) = 2 * P
    BY <2>1
  <2>3. t * (s - 6) >= 0 /\ t * (10 - s) >= 0
    BY <1>9
  <2>4. P >= 6 * t /\ P <= 10 * t + r
    BY <1>2, <2>3
  <2> QED BY <1>2, <2>2, <2>4
<1> QED BY <1>3, <1>4, <1>5, <1>6, <1>7, <1>8, <1>9

(* Every step keeps the calibration part.                                  *)
LEMMA TimedStep == Base /\ Timed /\ [Next]_vars => Timed'
<1> SUFFICES ASSUME Base, Timed, [Next]_vars PROVE Timed'
  OBVIOUS
<1>0. Env /\ Control /\ Fields
  BY DEF Base
<1>a. Base'
  BY BaseStep
<1>b. /\ TPS \in Nat /\ TPS > 0 /\ CLOCK_MOD \in Nat /\ CLOCK_MOD > 0
      /\ 22 * TPS <= CLOCK_MOD /\ CLOCK_MOD <= 100 * TPS
      /\ inp.iterations \in Nat /\ inp.tpi \in Nat /\ inp.tpi > 0 /\ 10 * inp.tpi < CLOCK_MOD
  BY <1>0, InputFacts
<1>1. CASE Inner \/ main_Start
  <2>1. UNCHANGED <<inp, run>> /\ Preparing' = Preparing /\ pc' \notin Outer /\ (main_Start \/ pc \notin Outer)
    BY <1>1, InnerStep
  <2>2. Ticks' = Ticks
    BY <2>1 DEF Ticks
  <2>3. main_Start => Preparing /\ Preparing'
    BY <2>1 DEF main_Start, Preparing
  <2>4. pc' \notin {"calibrate", "validate", "done"}
    BY <2>1 DEF Outer
  <2>5. ~main_Start => pc # "calibrate"
    BY <2>1 DEF Outer
  <2> QED BY <2>1, <2>2, <2>3, <2>4, <2>5 DEF Timed
<1>2. CASE main_Inits
  <2>1. inp' = inp /\ pc = "inits" /\ Preparing /\ ~Preparing' /\ pc' \in {"calibrate", "iterate"} /\ pc' \in Outer
    BY <1>2 DEF main_Inits, Preparing, Sorting, Outer
  <2>2. run'.clock = run.clock /\ run'.secs = run.secs /\ run'.iterations \in Nat
    BY <1>2, <1>0 DEF main_Inits, Fields, Timed
  <2>3. ASSUME inp.iterations = 0 PROVE pc' = "calibrate" /\ run'.iterations = 1 /\ run'.secs = 0 /\ Ticks' = inp.tpi
    <3>1. run.iterations = 0 /\ run.secs = 0
      BY <2>1, <2>3 DEF Timed
    <3>2. pc' = "calibrate" /\ run'.iterations = 1
      BY <1>0, <1>2, <3>1 DEF main_Inits, Fields
    <3> QED BY <1>b, <2>1, <2>2, <3>1, <3>2 DEF Ticks
  <2>4. pc' \notin {"validate", "done"}
    BY <2>1
  <2>5. run.clock \in 0 .. (CLOCK_MOD - 1) /\ run.secs \in Nat
    BY DEF Timed
  <2> QED BY <1>b, <2>1, <2>2, <2>3, <2>4, <2>5 DEF Timed
<1>3. CASE main_Trial
  <2> DEFINE it == run.iterations * 10
             P == inp.tpi * it
             c == run.clock
             c2 == (c + P) % CLOCK_MOD
             secs == ((c2 - c) % CLOCK_MOD) \div TPS
  <2>1. inp' = inp /\ pc' = pc /\ pc = "calibrate" /\ run.secs < 1
    BY <1>3 DEF main_Trial
  <2>2. run'.iterations = it /\ run'.clock = c2 /\ run'.secs = secs
    BY <1>0, <1>3 DEF main_Trial, Fields, start_time, stop_time, Work, get_time, time_in_secs
  <2>3. it \in Nat /\ P \in Nat /\ c \in 0 .. (CLOCK_MOD - 1) /\ P = 10 * Ticks /\ Ticks \in Nat
    BY <1>b DEF Timed, Ticks
  <2>4. Ticks' = P
    BY <2>1, <2>2 DEF Ticks
  <2> HIDE DEF P
  <2>5. c2 \in 0 .. (CLOCK_MOD - 1)
    BY <1>b, <2>3
  <2>6. secs \in Nat
    <3> DEFINE g == (c2 - c) % CLOCK_MOD
    <3> HIDE DEF c2, c
    <3>1. g \in Nat
      BY <1>b, <2>3, <2>5
    <3> HIDE DEF g
    <3>2. g \div TPS \in Nat
      BY <1>b, <3>1
    <3> QED BY <3>2 DEF g
  <2>7. ~Preparing' /\ pc' \in Outer /\ pc' \notin {"validate", "done"}
    BY <2>1 DEF Preparing, Sorting, Outer
  <2>8. ASSUME inp.iterations = 0
        PROVE  IF secs < 1 THEN 10 * P < CLOCK_MOD ELSE P < CLOCK_MOD /\ secs = P \div TPS
    <3>1. P < CLOCK_MOD
      BY <2>1, <2>3, <2>8 DEF Timed
    <3>2. (c2 - c) % CLOCK_MOD = P
      <4> HIDE DEF c
      <4>1. P \in 0 .. (CLOCK_MOD - 1)
        BY <1>b, <2>3, <3>1
      <4> QED BY <1>b, <2>3, <4>1, ModAdd
    <3> HIDE DEF c2, c
    <3>3. secs = P \div TPS
      BY <3>2
    <3> HIDE DEF secs
    <3>4. P \div TPS \in Nat /\ P % TPS \in 0 .. (TPS - 1) /\ P = (TPS * (P \div TPS)) + (P % TPS)
      BY <1>b, <2>3, DivMod
    <3>5. CASE secs < 1
      <4>1. P \div TPS = 0
        BY <3>3, <3>4, <3>5
      <4>2. TPS * (P \div TPS) = 0
        BY <1>b, <4>1
      <4> QED BY <1>b, <2>3, <3>4, <3>5, <4>2
    <3> QED BY <3>1, <3>3, <3>5
  <2> HIDE DEF it, c, c2, secs
  <2>9. ~(pc' # "calibrate")
    BY <2>1
  <2> QED BY <2>1, <2>2, <2>3, <2>4, <2>5, <2>6, <2>7, <2>8, <2>9 DEF Timed
<1>4. CASE main_SetIterations
  <2> DEFINE f == 1 + 10 \div run.secs
  <2>1. inp' = inp /\ pc' = "iterate" /\ pc = "calibrate" /\ run.secs >= 1
    BY <1>4 DEF main_SetIterations
  <2>2. run'.iterations = run.iterations * f /\ run'.clock = run.clock /\ run'.secs = run.secs
    BY <1>0, <1>4 DEF main_SetIterations, Fields
  <2>3. run.iterations \in Nat /\ run.secs \in Nat /\ run.clock \in 0 .. (CLOCK_MOD - 1)
    BY DEF Timed
  <2>4. f \in Nat
    BY <2>1, <2>3
  <2>5. Ticks \in Nat /\ Ticks' = Ticks * f
    <3> HIDE DEF f
    <3> QED BY <1>b, <2>1, <2>2, <2>3, <2>4 DEF Ticks
  <2>6. ASSUME inp.iterations = 0
        PROVE  Ticks * f \in (10 * TPS) .. (100 * TPS) /\ Ticks * f < CLOCK_MOD
    <3> DEFINE P == Ticks
               s == run.secs
    <3>1. P < CLOCK_MOD /\ s = P \div TPS /\ P \in Nat /\ s \in Nat /\ s >= 1
      BY <2>1, <2>3, <2>5, <2>6 DEF Timed
    <3> HIDE DEF P, s
    <3>2. P * (1 + 10 \div s) \in (10 * TPS) .. (100 * TPS) /\ P * (1 + 10 \div s) < CLOCK_MOD
      BY <1>b, <3>1, Factor
    <3> QED BY <3>2 DEF P, s
  <2>7. run'.iterations \in Nat
    <3> HIDE DEF f
    <3> QED BY <2>2, <2>3, <2>4
  <2>8. ~Preparing' /\ pc' \in Outer /\ pc' \notin {"validate", "done", "calibrate"}
    BY <2>1 DEF Preparing, Sorting, Outer
  <2> HIDE DEF f
  <2> QED BY <2>1, <2>2, <2>3, <2>5, <2>6, <2>7, <2>8 DEF Timed
<1>5. CASE iterate
  <2>1. inp' = inp /\ pc' = "find" /\ pc = "iterate"
    BY <1>5 DEF iterate, Bench
  <2>2. /\ run'.iterations = run.iterations /\ run'.clock = run.clock /\ run'.secs = run.secs
        /\ run'.start = run.clock
    BY <1>0, <1>5 DEF iterate, Fields, start_time
  <2>3. Ticks' = Ticks
    BY <2>1, <2>2 DEF Ticks
  <2>4. ~Preparing' /\ ~Preparing /\ pc # "calibrate" /\ pc' \notin {"calibrate", "validate", "done"}
    BY <2>1 DEF Preparing, Sorting
  <2> QED BY <2>1, <2>2, <2>3, <2>4 DEF Timed
<1>6. CASE Finish
  <2>1. inp' = inp /\ pc = "finish" /\ pc' \in {"find", "validate"} /\ ~Preparing /\ ~Preparing' /\ pc \notin Outer
    BY <1>6 DEF Finish, Bench, Preparing, Sorting, Outer
  <2>2. run.iterations \in Nat /\ run.secs \in Nat /\ run.clock \in 0 .. (CLOCK_MOD - 1) /\ run.start = run.clock
    BY <2>1 DEF Timed
  <2>3. Ticks \in Nat
    BY <1>b, <2>2 DEF Ticks
  <2>4. CASE pc' = "find"
    <3>1. run'.iterations = run.iterations /\ run'.clock = run.clock /\ run'.secs = run.secs /\ run'.start = run.start
      BY <1>0, <1>6, <2>4 DEF Finish, Bench, Fields, stop_time, Work
    <3>2. Ticks' = Ticks
      BY <2>1, <3>1 DEF Ticks
    <3> QED BY <2>1, <2>2, <2>4, <3>1, <3>2 DEF Timed
  <2>5. CASE pc' = "validate"
    <3>1. /\ run'.iterations = run.iterations /\ run'.secs = run.secs /\ run'.start = run.start
          /\ run'.clock = (run.clock + Ticks) % CLOCK_MOD /\ run'.stop = (run.clock + Ticks) % CLOCK_MOD
      BY <1>0, <1>6, <2>5 DEF Finish, Bench, Fields, stop_time, Work, Ticks
    <3>2. Ticks' = Ticks
      BY <2>1, <3>1 DEF Ticks
    <3>3. (run.clock + Ticks) % CLOCK_MOD \in 0 .. (CLOCK_MOD - 1)
      BY <1>b, <2>2, <2>3
    <3>4. pc' \in Outer
      BY <2>5 DEF Outer
    <3> QED BY <2>1, <2>2, <2>5, <3>1, <3>2, <3>3, <3>4 DEF Timed
  <2> QED BY <2>1, <2>4, <2>5
<1>7. CASE main_Validate
  <2>1. UNCHANGED <<inp, run>> /\ pc = "validate" /\ pc' = "done"
    BY <1>7 DEF main_Validate
  <2>2. Ticks' = Ticks /\ ~Preparing /\ ~Preparing' /\ pc' \in Outer
    BY <2>1 DEF Ticks, Preparing, Sorting, Outer
  <2> QED BY <2>1, <2>2 DEF Timed
<1>8. CASE Halt \/ UNCHANGED vars
  <2>1. UNCHANGED vars
    BY <1>8 DEF Halt
  <2> QED BY <2>1 DEF vars, Timed, Ticks, Preparing, Sorting, Outer
<1> QED BY <1>1, <1>2, <1>3, <1>4, <1>5, <1>6, <1>7, <1>8 DEF Next, Main, ListOps, Inner

(* A calibrated run takes 10 to 100 seconds on the clock, for every speed  *)
(* at which ten iterations do not wrap it: the factor of core_main.c, and  *)
(* the one wrap of the 32-bit clock that get_time undoes.                  *)
THEOREM RunLengthTheorem == Spec => []RunLength
<1>1. Init => Base /\ Timed
  BY BaseInit, TimedInit
<1>2. Base /\ Timed /\ [Next]_vars => (Base /\ Timed)'
  BY BaseStep, TimedStep
<1>3. Base /\ Timed => RunLength
  <2> SUFFICES ASSUME Base, Timed, pc = "done", inp.iterations = 0
               PROVE  get_time(run) \in (10 * TPS) .. (100 * TPS)
    BY DEF RunLength
  <2>1. CLOCK_MOD \in Nat /\ CLOCK_MOD > 0 /\ TPS \in Nat /\ inp.tpi \in Nat
    BY InputFacts DEF Base
  <2>2. ~Preparing /\ pc # "calibrate"
    BY DEF Preparing, Sorting
  <2>3. Ticks \in (10 * TPS) .. (100 * TPS) /\ Ticks < CLOCK_MOD
    BY <2>2 DEF Timed
  <2> DEFINE T == Ticks
             x == run.start
  <2>4. x \in 0 .. (CLOCK_MOD - 1) /\ run.stop = (x + T) % CLOCK_MOD
    BY DEF Timed
  <2>5. T \in 0 .. (CLOCK_MOD - 1)
    BY <2>1, <2>3
  <2> HIDE DEF T, x
  <2>6. (((x + T) % CLOCK_MOD) - x) % CLOCK_MOD = T
    BY <2>1, <2>4, <2>5, ModAdd
  <2>7. get_time(run) = T
    BY <2>4, <2>6 DEF get_time, x
  <2> QED BY <2>3, <2>7 DEF T
<1> QED BY <1>1, <1>2, <1>3, PTL DEF Spec

(* List and matrices stay in the blocks that main gives them, for every    *)
(* TOTAL_DATA_SIZE, wherever the stack array starts.                       *)
THEOREM BlocksDisjointTheorem == Spec => []BlocksDisjoint
<1>1. Base => BlocksDisjoint
  <2> SUFFICES ASSUME Base, NEW base \in 0 .. 3
               PROVE  /\ (8 + 4) * ListSize(size) <= size
                      /\ MatrixLayout(size, base + size).end <= base + 2 * size
    BY DEF BlocksDisjoint
  <2>1. size \in Nat /\ size >= 120 /\ inp.total \in Nat
    BY InputFacts DEF Base
  <2>2. \A n \in 0 .. size : size - 8 * n * n \notin {1, 2}
    <3> SUFFICES ASSUME NEW n \in 0 .. size PROVE size - 8 * n * n \notin {1, 2}
      OBVIOUS
    <3>1. n \in 0 .. inp.total
      BY <2>1 DEF size
    <3> QED BY <3>1, SlackAssumption DEF Base, Env, size
  <2> QED BY <2>1, <2>2, BlocksFit
<1> QED BY <1>1, BaseInit, BaseStep, PTL DEF Spec

---------------------------------------------------------------------------
(* The data iterations start from, and how far the list, the matrices and  *)
(* the text are from them.                                                 *)

(* Cells of the list, and what core_list_init, core_init_matrix and        *)
(* core_init_state made.                                                   *)
Items == ListSize(size) - 1
D0 == core_list_init(size, seed[1]).data
M0 == core_init_matrix(size, seed[1] + seed[2] * 65536)
T0 == core_init_state(size, seed[1])

(* Numbers that are folded into checksums.                                 *)
Numbers ==
    /\ res.crc \in Words
    /\ bl.i \in Nat /\ bl.idx \in Int /\ bl.found \in Int /\ bl.missed \in Int /\ bl.retval \in Int
    /\ pc # "find" => bl.retval \in Words

(* Cells and data are paired; of a datum only the low byte changes.        *)
HeapOK ==
    /\ heap \in HeapsOf(Items)
    /\ pc # "undo" => heap.info = Identity(Items)
    /\ \A c \in 1 .. Items : /\ heap.data[c].idx = D0[c].idx
                             /\ heap.data[c].data16 \div 256 = D0[c].data16 \div 256

(* The list is not being worked on.                                        *)
Rested == \/ pc \in {"inits", "calibrate", "iterate", "finish", "validate", "done"}
          \/ pc = "find" /\ bl.i = 0

(* The cells are linked in the order of arr, with the parts that the       *)
(* statement that comes next leaves open.                                  *)
ShapeAt(arr) ==
    /\ pc = "pass" => AtPass(heap.next, arr, Items, ms, Order(heap.data, ms.cmp))
    /\ pc = "merge" => \E a \in 0 .. Items :
                          AtMerge(heap.next, arr, Items, a, ms, Order(heap.data, ms.cmp))
    /\ InMerge => \E a, b, s \in 0 .. Items :
                     AtElement(heap.next, arr, Items, a, b, s, ms, Order(heap.data, ms.cmp))
    /\ pc = "undo" => RemovedAt(heap, arr, Items, list, bl.remover)
    /\ Rested \/ pc \in {"find", "remove"} => ListAt(heap.next, arr, Items, list)
    /\ pc = "remove" /\ ms.ret = "remove" => Ascending(arr, 1, Items, Order(heap.data, "complex"))
    /\ Rested => Ascending(arr, 1, Items, Order(D0, "idx"))
Shape == \E arr \in Perms(Items) : ShapeAt(arr)

(* home is the cell with the least idx.                                    *)
Home == home \in 1 .. Items /\ \A c \in 1 .. Items : D0[home].idx <= D0[c].idx

(* Matrix A is as it was made, or with val added.                          *)
Matrix ==
    /\ mat \in Matrices(MatrixN(size)) /\ mat.B = M0.B
    /\ mat.A = IF pc = "matrix" /\ ca.k \in 1 .. 5
               THEN [e \in DOMAIN M0.A |-> S16(M0.A[e] + ca.val)] ELSE M0.A

(* The text is as it was made, or corrupted.                               *)
Text == blk = IF pc = "scan" /\ ca.k = 1 THEN corrupt(T0, seed[1], MinPeriod(ca.val)) ELSE T0

(* calc_func works for a datum that is not cached, and a zero is ahead of  *)
(* the scan.                                                               *)
Call ==
    /\ ca.c \in 1 .. Items /\ ~Cached(heap.data[ca.c]) /\ ca.val \in Nat /\ ca.val < 256
    /\ pc = "matrix" => ca.k \in 0 .. 6 /\ ca.crc \in Words
    /\ pc = "scan" => /\ ca.k \in {0, 1} /\ ca.p \in Nat /\ ca.track \in Counters /\ ca.final \in Counters
                      /\ \E z \in ca.p .. (size - 1) : blk[z] = 0

(* The inductive invariant.                                                *)
Working ==
    /\ Numbers
    /\ pc # "start" => HeapOK /\ Shape
    /\ Rested => heap.data = D0
    /\ ~Preparing => Home /\ Matrix /\ Text
    /\ Calculating => Call

(* Checksums over the list are words.                                      *)
LEMMA CrcFromType ==
    ASSUME NEW N \in Nat, NEW h \in HeapsOf(N), NEW l \in 1 .. N, NEW finder \in 0 .. N, NEW crc \in Words
    PROVE  CrcFrom(h, l, finder, crc) \in Words
<1> DEFINE cells == Chain(h, finder)
           n == Len(cells)
           v == Datum(h, l).data16
           body == [k \in 1 .. n |-> [c \in Words |-> crc16(v, c)]]
<1>1. n \in Nat
  <2>1. h.next \in [1 .. N -> 0 .. N]
    BY DEF HeapsOf
  <2>2. cells \in Seq(1 .. N)
    BY <2>1, ChainType
  <2> QED BY <2>2
<1>2. v \in Int
  <2>1. h.info[l] \in 1 .. N
    BY DEF HeapsOf
  <2>2. h.data[h.info[l]] \in Data
    BY <2>1 DEF HeapsOf
  <2> QED BY <2>2 DEF Datum, Data, Words
<1>3. CrcFrom(h, l, finder, crc) = Loop(n, crc, body)
  BY DEF CrcFrom
<1> HIDE DEF n, v
<1>4. \A k \in 1 .. n : \A x \in Words : body[k][x] \in Words
  BY <1>2, CrcType
<1> HIDE DEF body
<1>5. Loop(n, crc, body) \in Words
  BY <1>1, <1>4, LoopKeeps
<1> QED BY <1>3, <1>5

(* Seeds are numbers.                                                      *)
LEMMA SeedType ==
    ASSUME NEW s \in [1 .. 3 -> Nat]
    PROVE  DefaultSeeds(s)[1] \in Nat /\ DefaultSeeds(s)[2] \in Nat /\ DefaultSeeds(s)[3] \in Nat
<1>1. CASE s = <<0, 0, 0>>
  BY <1>1 DEF DefaultSeeds
<1>2. CASE s = <<1, 0, 0>>
  <2>1. s # <<0, 0, 0>>
    BY <1>2
  <2>2. DefaultSeeds(s) = <<13333, 13333, 102>>
    BY <1>2, <2>1 DEF DefaultSeeds
  <2> QED BY <2>2
<1>3. CASE s # <<0, 0, 0>> /\ s # <<1, 0, 0>>
  <2>1. DefaultSeeds(s) = s
    BY <1>3 DEF DefaultSeeds
  <2> QED BY <2>1
<1> QED BY <1>1, <1>2, <1>3

(* What the assumptions say of a build.                                    *)
LEMMA BuildFacts ==
    ASSUME NEW b \in Inputs, NEW sd, sd = DefaultSeeds(b.seed), NEW sz, sz = b.total \div 3
    PROVE  /\ sd[1] \in Nat /\ sd[2] \in Nat /\ sd[3] \in Nat /\ sd[1] = sd[2]
           /\ sz \in Nat /\ sz >= 120
           /\ \A c \in Characters \union {0} : xor8(c, sd[1] % 256) # COMMA
           /\ \A c, e \in DOMAIN core_list_init(sz, sd[1]).data :
                 core_list_init(sz, sd[1]).data[c].idx = core_list_init(sz, sd[1]).data[e].idx => c = e
<1>1. b.seed \in [1 .. 3 -> Nat] /\ b.total \in Nat /\ b.total >= 360
  BY InputsAssumption
<1>2. sd[1] \in Nat /\ sd[2] \in Nat /\ sd[3] \in Nat
  BY <1>1, SeedType
<1>3. sd[1] = sd[2] /\ \A c \in Characters \union {0} : xor8(c, sd[1] % 256) # COMMA
  BY SeedsAssumption
<1>4. \A c, e \in DOMAIN core_list_init(sz, sd[1]).data :
                 core_list_init(sz, sd[1]).data[c].idx = core_list_init(sz, sd[1]).data[e].idx => c = e
  BY IndexAssumption
<1>5. sz \in Nat /\ sz >= 120
  BY <1>1
<1> QED BY <1>2, <1>3, <1>4, <1>5

(* The list has three cells or more, all with different indices, once      *)
(* main_Start is done.                                                     *)
LEMMA Prepared ==
    ASSUME Base, pc # "start"
    PROVE  /\ seed[1] \in Nat /\ seed[2] = seed[1] /\ seed[3] \in Nat
           /\ \A c \in Characters \union {0} : xor8(c, seed[1] % 256) # COMMA
           /\ size \in Nat /\ size >= 120 /\ Items \in Nat /\ Items >= 3
           /\ D0 \in [1 .. Items -> Fresh] /\ D0 \in [1 .. Items -> Data]
           /\ \A c, e \in 1 .. Items : D0[c].idx = D0[e].idx => c = e
           /\ M0 \in Matrices(MatrixN(size)) /\ MatrixN(size) \in Nat
           /\ \A e \in 0 .. (MatrixN(size) * MatrixN(size) - 1) : M0.A[e] \in Bytes
           /\ T0 \in [0 .. (size - 1) -> Characters \union {COMMA, 0}]
           /\ T0[size - 1] = 0 /\ T0[size - 2] = 0
<1> DEFINE s1 == seed[1]
           sz == size
<1>1. inp \in Inputs /\ seed = DefaultSeeds(inp.seed)
  BY DEF Base, Env
<1>2. /\ seed[1] \in Nat /\ seed[2] \in Nat /\ seed[3] \in Nat /\ seed[1] = seed[2]
      /\ size \in Nat /\ size >= 120
      /\ \A c \in Characters \union {0} : xor8(c, seed[1] % 256) # COMMA
      /\ \A c, e \in DOMAIN D0 : D0[c].idx = D0[e].idx => c = e
  BY <1>1, BuildFacts, ZenonT(40) DEF size, D0
<1>3. Items \in Nat /\ Items >= 3 /\ D0 \in [1 .. Items -> Fresh]
  BY <1>2, ListInitIs DEF Items, D0
<1>4. D0 \in [1 .. Items -> Data] /\ DOMAIN D0 = 1 .. Items
  BY <1>3 DEF Fresh
<1>5. seed[1] + seed[2] * 65536 \in Nat
  BY <1>2
<1>6. /\ M0 \in Matrices(MatrixN(size)) 
      /\ \A e \in 0 .. (MatrixN(size) * MatrixN(size) - 1) : M0.A[e] \in Bytes
  BY <1>2, <1>5, InitMatrixType DEF M0
<1>7. MatrixN(size) \in Nat
  BY <1>2, MatrixNIs
<1>8. /\ T0 \in [0 .. (size - 1) -> Characters \union {COMMA, 0}]
      /\ T0[size - 1] = 0 /\ T0[size - 2] = 0
  BY <1>2, InitStateIs DEF T0
<1> QED BY <1>2, <1>3, <1>4, <1>6, <1>7, <1>8

(* No step but main_Start changes the seeds and what is made from them.    *)
LEMMA Same ==
    ASSUME Base, [Next]_vars, pc # "start"
    PROVE  /\ pc' # "start" /\ seed' = seed /\ size' = size /\ Items' = Items
           /\ D0' = D0 /\ M0' = M0 /\ T0' = T0
<1>1. seed' = seed /\ inp' = inp
  BY DEF Next, Main, ListOps, SortOps, CalcOps, Halt, vars, main_Start, main_Inits, main_Trial,
     main_SetIterations, main_Validate, iterate, Find_Turn, Find_End, List_Remove, List_Undo, Finish,
     Pass_Start, Merge_Start, Merge_Element, Merge_End, Pass_End, calc_func, calc_Default, matrix_Step,
     matrix_Return, state_Token, state_Corrupt, state_Return
<1>2. pc' # "start"
  <2>1. CASE Inner
    BY <2>1, InnerStep DEF Outer
  <2>2. CASE ~Inner
    BY <2>2 DEF Inner, Next, Main, ListOps, Halt, vars, main_Start, main_Inits, main_Trial,
     main_SetIterations, main_Validate, iterate, Finish, Bench
  <2> QED BY <2>1, <2>2
<1>3. size' = size
  BY <1>1 DEF size
<1> QED BY <1>1, <1>2, <1>3 DEF Items, D0, M0, T0

---------------------------------------------------------------------------
(* The operations of core_bench_list.                                      *)

(* The list as core_bench_list sees it: linked, and its head a cell.       *)
LEMMA ListOf ==
    ASSUME Base, Working, pc # "start", Rested \/ pc \in {"find", "remove"}
    PROVE  /\ heap \in HeapsOf(Items) /\ heap.info = Identity(Items)
           /\ \E arr \in Perms(Items) : ListAt(heap.next, arr, Items, list)
<1>1. HeapOK /\ Shape
  BY DEF Working
<1>2. PICK arr \in Perms(Items) : ShapeAt(arr)
  BY <1>1 DEF Shape
<1>3. pc # "undo"
  BY DEF Rested
<1> QED BY <1>1, <1>2, <1>3 DEF ShapeAt, HeapOK

(* A turn of the find loop (find, reverse, move) keeps all cells in one    *)
(* list and no datum changes.                                              *)
LEMMA FindTurnIs ==
    ASSUME Base, Working, Find_Turn
    PROVE  /\ heap' \in HeapsOf(Items) /\ heap'.info = heap.info /\ heap'.data = heap.data
           /\ \E new \in Perms(Items) : ListAt(heap'.next, new, Items, list')
           /\ bl'.i = bl.i + 1 /\ bl'.idx \in Int /\ bl'.found \in Int /\ bl'.missed \in Int
           /\ bl'.retval \in Int /\ bl'.finder_idx = bl.finder_idx
<1> DEFINE N == Items
           rev == core_list_reverse(heap, list)
           key == [data16 |-> bl.i % 256, idx |-> bl.idx]
           this == core_list_find(heap, list, key)
<1>0. pc = "find" /\ pc # "start"
  BY DEF Find_Turn
<1>1. N \in Nat /\ N >= 3
  BY <1>0, Prepared
<1>2. heap \in HeapsOf(N) /\ \E arr \in Perms(N) : ListAt(heap.next, arr, N, list)
  BY <1>0, ListOf
<1>3. PICK arr \in Perms(N) : ListAt(heap.next, arr, N, list)
  BY <1>2
<1>4. arr \in [1 .. N -> 1 .. N]
  BY <1>1, PermFacts
<1>5. list \in 0 .. N
  BY <1>1, <1>3, <1>4 DEF ListAt
<1>6. this \in 0 .. N
  <2> HIDE DEF key
  <2> QED BY <1>1, <1>2, <1>5, FindType
<1>7. /\ rev.list = arr[N] /\ rev.heap \in HeapsOf(N) /\ rev.heap.info = heap.info
      /\ rev.heap.data = heap.data /\ ListAt(rev.heap.next, Mirror(arr, N), N, arr[N])
  BY <1>1, <1>2, <1>3, ReverseIs
<1>8. Mirror(arr, N) \in Perms(N)
  BY <1>1, MirrorIsPerm
<1> DEFINE h == rev.heap
           l == rev.list
           rv == bl.retval
<1>9. rv \in Int /\ bl.i \in Nat /\ bl.idx \in Int /\ bl.found \in Int /\ bl.missed \in Int
  BY DEF Working, Numbers
<1>10. \A c \in 1 .. N : Datum(h, c).data16 \in Nat
  <2> SUFFICES ASSUME NEW c \in 1 .. N PROVE Datum(h, c).data16 \in Nat
    OBVIOUS
  <2>1. h.info[c] \in 1 .. N
    BY <1>7 DEF HeapsOf
  <2>2. h.data[h.info[c]] \in Data
    BY <1>7, <2>1 DEF HeapsOf
  <2> QED BY <2>2 DEF Datum, Data, Words
<1>11. \A x \in Nat : Bit(x, 1) \in Nat /\ Bit(x, 256) \in Nat /\ Bit(x, 512) \in Nat
  BY DEF Bit
<1> HIDE DEF rev, this, key
<1>12. /\ DOMAIN bl = {"finder_idx", "i", "retval", "found", "missed", "idx", "remover"}
  BY DEF Base, Fields
<1>13. CASE this = NULL
  <2> DEFINE x == Datum(h, h.next[l]).data16
  <2>1. list' = l /\ heap' = h
    BY <1>13 DEF Find_Turn, rev, this, key
  <2>2. /\ bl'.i = bl.i + 1 /\ bl'.idx = (IF bl.idx >= 0 THEN bl.idx + 1 ELSE bl.idx) /\ bl'.found = bl.found
        /\ bl'.missed = bl.missed + 1 /\ bl'.retval = rv + Bit(x, 256) /\ bl'.finder_idx = bl.finder_idx
    BY <1>12, <1>13, ZenonT(40) DEF Find_Turn, rev, this, key
  <2>3. h.next[l] \in 1 .. N
    <3>1. 1 \in 1 .. (N - 1)
      BY <1>1
    <3>2. h.next[Mirror(arr, N)[1]] = Mirror(arr, N)[2]
      BY <1>7, <3>1 DEF ListAt, Linked
    <3>3. Mirror(arr, N)[1] = arr[N] /\ Mirror(arr, N)[2] = arr[N - 1]
      BY <1>1 DEF Mirror
    <3>4. arr[N - 1] \in 1 .. N
      BY <1>1, <1>4
    <3> QED BY <1>7, <3>2, <3>3, <3>4
  <2>4. x \in Nat
    BY <2>3, <1>10
  <2> HIDE DEF x
  <2>5. rv + Bit(x, 256) \in Int
    BY <1>9, <1>11, <2>4
  <2> QED BY <1>7, <1>8, <1>9, <2>1, <2>2, <2>5
<1>14. CASE this # NULL
  <2> DEFINE x == Datum(h, this).data16
  <2>1. list' = l /\ heap' = MoveNextToFront(h, l, this)
    BY <1>14 DEF Find_Turn, rev, this, key
  <2>2. /\ bl'.i = bl.i + 1 /\ bl'.idx = (IF bl.idx >= 0 THEN bl.idx + 1 ELSE bl.idx) /\ bl'.found = bl.found + 1
        /\ bl'.missed = bl.missed /\ bl'.retval = rv + Bit(x, 1) * Bit(x, 512) /\ bl'.finder_idx = bl.finder_idx
    <3> DEFINE y == Bit(x, 1) * Bit(x, 512)
    <3>1. bl' = [[bl EXCEPT !.i = @ + 1, !.idx = IF @ >= 0 THEN @ + 1 ELSE @]
                    EXCEPT !.found = @ + 1, !.retval = @ + y]
      BY <1>14 DEF Find_Turn, rev, this, key
    <3> HIDE DEF y
    <3>2. /\ bl'.i = bl.i + 1 /\ bl'.idx = (IF bl.idx >= 0 THEN bl.idx + 1 ELSE bl.idx) /\ bl'.found = bl.found + 1
          /\ bl'.missed = bl.missed /\ bl'.retval = rv + y /\ bl'.finder_idx = bl.finder_idx
      BY <1>12, <3>1
    <3> QED BY <3>2 DEF y
  <2>3. this \in 1 .. N
    BY <1>1, <1>6, <1>14 DEF NULL
  <2>4. x \in Nat
    BY <2>3, <1>10
  <2> HIDE DEF x
  <2>5. Bit(x, 1) \in Nat /\ Bit(x, 512) \in Nat
    BY <1>11, <2>4
  <2>6. rv + Bit(x, 1) * Bit(x, 512) \in Int
    BY <1>9, <2>5
  <2> HIDE DEF h, l, rv
  <2>7. ListAt(h.next, Mirror(arr, N), N, l) /\ h \in HeapsOf(N)
    BY <1>7 DEF h, l
  <2>8. /\ MoveNextToFront(h, l, this) \in HeapsOf(N)
        /\ MoveNextToFront(h, l, this).info = h.info
        /\ MoveNextToFront(h, l, this).data = h.data
        /\ \E new \in Perms(N) : ListAt(MoveNextToFront(h, l, this).next, new, N, l)
    BY <1>1, <1>8, <2>3, <2>7, MoveNextToFrontIs
  <2>9. h.info = heap.info /\ h.data = heap.data
    BY <1>7 DEF h
  <2> QED BY <1>9, <2>1, <2>2, <2>6, <2>8, <2>9
<1> QED BY <1>13, <1>14

(* List_Remove takes one cell out and keeps the data.                      *)
LEMMA RemoveStepIs ==
    ASSUME Base, Working, List_Remove
    PROVE  /\ heap' \in HeapsOf(Items) /\ heap'.data = heap.data
           /\ \E new \in Perms(Items) : RemovedAt(heap', new, Items, list', bl'.remover)
           /\ bl'.i = bl.i /\ bl'.idx = bl.idx /\ bl'.found = bl.found /\ bl'.missed = bl.missed
           /\ bl'.retval \in Words
<1> DEFINE N == Items
           h == core_list_remove(heap, heap.next[list])
           key == [data16 |-> (bl.i - 1) % 256, idx |-> bl.idx]
           at == core_list_find(h, list, key)
           finder == IF at = NULL THEN h.next[list] ELSE at
<1>0. pc = "remove" /\ pc # "start"
  BY DEF List_Remove
<1>1. N \in Nat /\ N >= 3
  BY <1>0, Prepared
<1>2. heap \in HeapsOf(N) /\ heap.info = Identity(N) /\ \E arr \in Perms(N) : ListAt(heap.next, arr, N, list)
  BY <1>0, ListOf
<1>3. PICK arr \in Perms(N) : ListAt(heap.next, arr, N, list)
  BY <1>2
<1>4. list \in 1 .. N
  BY <1>1, <1>3, PermFacts DEF ListAt
<1>5. /\ h \in HeapsOf(N) /\ h.data = heap.data
      /\ \E new \in Perms(N) : RemovedAt(h, new, N, list, heap.next[heap.next[list]])
  BY <1>1, <1>2, <1>3, RemoveIs
<1>6. /\ heap' = h /\ list' = list /\ bl'.remover = heap.next[heap.next[list]]
      /\ bl'.i = bl.i /\ bl'.idx = bl.idx /\ bl'.found = bl.found /\ bl'.missed = bl.missed
      /\ bl'.retval = CrcFrom(h, list, finder, bl.retval)
  BY DEF List_Remove, Base, Fields
<1>7. bl.retval \in Words
  BY <1>0 DEF Working, Numbers
<1> HIDE DEF h, key
<1>8. at \in 0 .. N
  BY <1>1, <1>4, <1>5, FindType
<1>9. finder \in 0 .. N
  BY <1>4, <1>5, <1>8 DEF HeapsOf
<1> HIDE DEF finder
<1>10. CrcFrom(h, list, finder, bl.retval) \in Words
  BY <1>1, <1>4, <1>5, <1>7, <1>9, CrcFromType
<1> QED BY <1>5, <1>6, <1>10

(* List_Undo puts the cell back.                                           *)
LEMMA UndoStepIs ==
    ASSUME Base, Working, List_Undo
    PROVE  /\ heap' \in HeapsOf(Items) /\ heap'.data = heap.data /\ heap'.info = Identity(Items)
           /\ \E new \in Perms(Items) : ListAt(heap'.next, new, Items, list')
           /\ bl'.i = bl.i /\ bl'.idx = bl.idx /\ bl'.found = bl.found /\ bl'.missed = bl.missed
           /\ bl'.retval = bl.retval
<1> DEFINE N == Items
<1>0. pc = "undo" /\ pc # "start"
  BY DEF List_Undo
<1>1. N \in Nat /\ N >= 3
  BY <1>0, Prepared
<1>2. heap \in HeapsOf(N) /\ Shape
  BY <1>0 DEF Working, HeapOK
<1>3. PICK arr \in Perms(N) : RemovedAt(heap, arr, N, list, bl.remover)
  BY <1>0, <1>2 DEF Shape, ShapeAt
<1>4. /\ heap' = core_list_undo_remove(heap, bl.remover, heap.next[list]) /\ list' = list
      /\ bl'.i = bl.i /\ bl'.idx = bl.idx /\ bl'.found = bl.found /\ bl'.missed = bl.missed
      /\ bl'.retval = bl.retval
  BY DEF List_Undo, Base, Fields
<1> DEFINE r == bl.remover
<1> HIDE DEF r
<1>5. RemovedAt(heap, arr, N, list, r) /\ heap' = core_list_undo_remove(heap, r, heap.next[list])
  BY <1>3, <1>4 DEF r
<1>6. /\ core_list_undo_remove(heap, r, heap.next[list]) \in HeapsOf(N)
      /\ core_list_undo_remove(heap, r, heap.next[list]).data = heap.data
      /\ core_list_undo_remove(heap, r, heap.next[list]).info = Identity(N)
      /\ \E new \in Perms(N) : ListAt(core_list_undo_remove(heap, r, heap.next[list]).next, new, N, list)
  BY <1>1, <1>2, <1>5, UndoIs
<1> QED BY <1>4, <1>5, <1>6

(* The checksum of an iteration is a word.                                 *)
LEMMA FinishIs ==
    ASSUME Base, Working, Finish
    PROVE  res'.crc \in Words
<1> DEFINE N == Items
           retval == CrcFrom(heap, list, heap.next[list], bl.retval)
<1>0. pc = "finish" /\ pc # "start" /\ Rested
  BY DEF Finish, Rested
<1>1. N \in Nat /\ N >= 3
  BY <1>0, Prepared
<1>2. heap \in HeapsOf(N) /\ \E arr \in Perms(N) : ListAt(heap.next, arr, N, list)
  BY <1>0, ListOf
<1>3. PICK arr \in Perms(N) : ListAt(heap.next, arr, N, list)
  BY <1>2
<1>4. list \in 1 .. N
  BY <1>1, <1>3, PermFacts DEF ListAt
<1>5. heap.next[list] \in 0 .. N
  BY <1>2, <1>4 DEF HeapsOf
<1>6. bl.retval \in Words /\ res.crc \in Words
  BY <1>0 DEF Working, Numbers
<1>7. retval \in Words
  BY <1>1, <1>2, <1>4, <1>5, <1>6, CrcFromType
<1>8. res'.crc = crcu16(retval, res.crc)
  BY DEF Finish, Base, Fields
<1> HIDE DEF retval
<1>9. retval \in Int
  BY <1>7 DEF Words
<1> QED BY <1>6, <1>8, <1>9, CrcType

---------------------------------------------------------------------------
(* calc_func and the two benchmarks it calls.                              *)

(* Once the preparation is over it stays over.                             *)
LEMMA WasReady ==
    ASSUME Base, [Next]_vars, ~Preparing', ~main_Inits
    PROVE  ~Preparing /\ pc # "start"
<1>1. CASE Inner \/ main_Start
  BY <1>1, InnerStep DEF Preparing
<1>2. CASE ~Inner /\ ~main_Start /\ ~UNCHANGED vars
  <2>1. pc \notin {"start", "inits"} /\ ~Sorting
    BY <1>2 DEF Inner, Next, Main, ListOps, Halt, main_Trial, main_SetIterations, main_Validate, iterate,
       Finish, Sorting
  <2> QED BY <2>1 DEF Preparing
<1>3. CASE UNCHANGED vars
  <2>1. Preparing' = Preparing
    BY <1>3 DEF vars, Preparing, Sorting
  <2> QED BY <2>1 DEF Preparing
<1> QED BY <1>1, <1>2, <1>3

(* Steps outside calc_func.                                                *)
Plain == \/ main_Start \/ main_Trial \/ main_SetIterations \/ main_Validate \/ ListOps \/ SortOps

(* They leave the locals of calc_func, the matrices and the text alone.    *)
LEMMA PlainStep ==
    ASSUME Base, Plain
    PROVE  /\ UNCHANGED <<ca, mat, blk>> /\ ~Calculating /\ ~Calculating'
<1>1. UNCHANGED <<ca, mat, blk>> /\ ~Calculating
  BY DEF Plain, ListOps, SortOps, main_Start, main_Trial, main_SetIterations, main_Validate, iterate, Find_Turn,
     Find_End, List_Remove, List_Undo, Finish, Pass_Start, Merge_Start, Merge_Element, Merge_End, Pass_End,
     Calculating
<1>2. ms.ret \notin {"default", "matrix", "scan"}
  BY DEF Base, Control
<1>3. pc' \notin {"default", "matrix", "scan"}
  BY <1>1, <1>2 DEF Plain, ListOps, SortOps, main_Start, main_Trial, main_SetIterations, main_Validate, iterate, Find_Turn,
     Find_End, List_Remove, List_Undo, Finish, Pass_Start, Merge_Start, Merge_Element, Merge_End, Pass_End,
     Bench, Calculating
<1> QED BY <1>1, <1>3 DEF Calculating

(* The steps of the program, by what they may do to matrices and text.     *)
LEMMA Split ==
    ASSUME [Next]_vars
    PROVE  main_Inits \/ Plain \/ CalcOps \/ UNCHANGED vars
BY DEF Next, Main, Plain, Halt

(* While two cells are compared, p and q are cells, each with its own      *)
(* datum.                                                                  *)
LEMMA ElementOfMerge ==
    ASSUME Base, Working, pc = "element", Comparing
    PROVE  /\ ms.p \in 1 .. Items /\ ms.q \in 1 .. Items
           /\ heap \in HeapsOf(Items) /\ heap.info = Identity(Items)
           /\ heap.info[ms.p] = ms.p /\ heap.info[ms.q] = ms.q
<1> DEFINE N == Items
<1>1. N \in Nat /\ N >= 3
  BY Prepared
<1>2. HeapOK /\ Shape
  BY DEF Working
<1>3. PICK arr \in Perms(N) : ShapeAt(arr)
  BY <1>2 DEF Shape
<1>4. PICK a \in 0 .. N, b \in 0 .. N, s \in 0 .. N :
          AtElement(heap.next, arr, N, a, b, s, ms, Order(heap.data, ms.cmp))
  BY <1>3 DEF ShapeAt, InMerge
<1>5. arr \in [1 .. N -> 1 .. N]
  BY <1>1, PermFacts
<1>6. ms.psize = b - a /\ ms.psize > 0 /\ ms.q # NULL
  BY <1>4 DEF AtElement, Sizes, Comparing, QEmpty
<1>7. ms.p = arr[a + 1] /\ b # N /\ ms.q = arr[b + 1]
  BY <1>4, <1>6 DEF AtElement
<1>8. a + 1 \in 1 .. N /\ b + 1 \in 1 .. N
  BY <1>1, <1>6, <1>7
<1>9. ms.p \in 1 .. N /\ ms.q \in 1 .. N
  BY <1>5, <1>7, <1>8
<1>10. heap \in HeapsOf(N) /\ heap.info = Identity(N)
  BY <1>2 DEF HeapOK
<1> QED BY <1>9, <1>10 DEF Identity

(* calc_func is called for a cell whose datum is not cached.               *)
LEMMA CalcFuncIs ==
    ASSUME Base, Working, calc_func
    PROVE  /\ ca'.c \in 1 .. Items /\ ~Cached(heap.data[ca'.c]) /\ ca'.val \in Nat /\ ca'.val < 256
           /\ ca'.k = 0 /\ ca'.crc = 0 /\ ca'.p = 0 /\ ca'.track = Zeros /\ ca'.final = Zeros
<1> DEFINE u == IF ms.p \in Uncached THEN ms.p ELSE ms.q
           c == heap.info[u]
           d == heap.data[c]
<1>1. pc = "element" /\ Uncached # {}
  BY DEF calc_func
<1>2. Comparing /\ u \in Uncached /\ u \in {ms.p, ms.q}
  BY <1>1 DEF Uncached
<1>3. u \in 1 .. Items /\ c = u /\ heap \in HeapsOf(Items)
  BY <1>1, <1>2, ElementOfMerge
<1>4. ~Cached(d)
  BY <1>2 DEF Uncached, Datum
<1>5. ca' = [c |-> c, val |-> Dtype(d), k |-> 0, crc |-> 0, p |-> 0, track |-> Zeros, final |-> Zeros]
  BY DEF calc_func
<1>6. d.data16 \in Nat
  <2> HIDE DEF u
  <2>1. heap.data \in [1 .. Items -> Data]
    BY <1>3 DEF HeapsOf
  <2>2. d \in Data
    BY <1>3, <2>1
  <2> QED BY <2>2 DEF Data, Words
<1>7. Dtype(d) \in Nat /\ Dtype(d) < 256
  <2> DEFINE y == (d.data16 \div 8) % 16
  <2>1. y \in 0 .. 15
    <3> HIDE DEF d
    <3> QED BY <1>6
  <2>2. Dtype(d) = y * 17
    BY DEF Dtype
  <2> HIDE DEF y
  <2> QED BY <2>1, <2>2
<1> HIDE DEF u
<1>8. ca'.c = c /\ ca'.val = Dtype(d)
  BY <1>5
<1> QED BY <1>3, <1>4, <1>5, <1>7, <1>8

(* 0 is a word.                                                            *)
LEMMA ZeroIsWord == 0 \in Words
BY DEF Words

(* The text consists of bytes, corrupted or not.                           *)
LEMMA TextIs ==
    ASSUME Base, Working, ~Preparing
    PROVE  blk \in [0 .. (size - 1) -> Bytes]
<1>1. pc # "start"
  BY DEF Preparing
<1>2. /\ size \in Nat /\ size >= 120 /\ T0 \in [0 .. (size - 1) -> Characters \union {COMMA, 0}]
      /\ T0[size - 1] = 0 /\ T0[size - 2] = 0 /\ seed[1] \in Nat
  BY <1>1, Prepared
<1>3. CASE blk = T0
  BY <1>2, <1>3, CharactersAreBytes
<1>4. CASE pc = "scan" /\ blk = corrupt(T0, seed[1], MinPeriod(ca.val))
  <2>1. ca.val \in Nat
    BY <1>4 DEF Working, Call, Calculating
  <2> DEFINE st == MinPeriod(ca.val)
             s1 == seed[1]
  <2>2. st \in Nat /\ st >= 2
    BY <2>1 DEF MinPeriod
  <2> HIDE DEF st, s1
  <2>3. s1 \in Nat /\ size >= 2
    BY <1>2 DEF s1
  <2>4. corrupt(T0, s1, st) \in [0 .. (size - 1) -> Bytes]
    BY <1>2, <2>2, <2>3, CorruptIs
  <2> QED BY <1>4, <2>4 DEF st, s1
<1> QED BY <1>3, <1>4 DEF Working, Text

(* matrix_test adds val to A, computes C four times and takes val out of A *)
(* again; its checksum is a word.                                          *)
LEMMA MatrixStepIs ==
    ASSUME Base, Working, matrix_Step
    PROVE  /\ mat' \in Matrices(MatrixN(size)) /\ mat'.B = M0.B
           /\ mat'.A = IF ca'.k \in 1 .. 5
                       THEN [e \in DOMAIN M0.A |-> S16(M0.A[e] + ca'.val)] ELSE M0.A
           /\ ca'.k \in 0 .. 6 /\ ca'.crc \in Words
           /\ ca'.c = ca.c /\ ca'.val = ca.val
<1> DEFINE N == MatrixN(size)
           NN == N * N
           val == ca.val
<1>0. pc = "matrix" /\ ca.k < 6 /\ pc # "start" /\ ~Preparing
  BY DEF matrix_Step, Preparing, Sorting
<1>1. val \in Nat /\ val < 256 /\ ca.k \in 0 .. 6 /\ ca.crc \in Words
  BY <1>0 DEF Working, Call, Calculating
<1>2. /\ mat \in Matrices(N) /\ mat.B = M0.B
      /\ mat.A = IF ca.k \in 1 .. 5 THEN [e \in DOMAIN M0.A |-> S16(M0.A[e] + val)] ELSE M0.A
  BY <1>0 DEF Working, Matrix
<1>3. M0 \in Matrices(N) /\ N \in Nat /\ \A e \in 0 .. (NN - 1) : M0.A[e] \in Bytes
  BY <1>0, Prepared
<1>4. mat' = matrix_step(mat, val, ca.k) /\ ca'.k = ca.k + 1 /\ ca'.c = ca.c /\ ca'.val = ca.val
      /\ ca'.crc = matrix_crc(mat', val, ca.k, ca.crc)
  BY DEF matrix_Step, Base, Fields
<1> HIDE DEF N, NN, val
<1>5. DOMAIN M0.A = 0 .. (NN - 1)
  BY <1>3 DEF Matrices, NN
<1> DEFINE k == ca.k
<1>k. mat' = matrix_step(mat, val, k) /\ val \in Int
  BY <1>1, <1>4
<1> HIDE DEF k
<1>6. /\ mat' \in Matrices(N) /\ mat'.B = M0.B
      /\ mat'.A = IF ca'.k \in 1 .. 5
                  THEN [e \in DOMAIN M0.A |-> S16(M0.A[e] + val)] ELSE M0.A
  <2>1. CASE ca.k = 0
    <3>1. mat' \in Matrices(N) /\ mat'.A = [e \in 0 .. (N * N - 1) |-> S16(mat.A[e] + val)] /\ mat'.B = mat.B
      <4> DEFINE v == val
      <4>1. mat' = matrix_add_const(mat, v)
        BY <1>k, <2>1 DEF k, matrix_step
      <4>2. v \in Int
        BY <1>k
      <4> HIDE DEF v
      <4>3. mat' \in Matrices(N) /\ mat'.A = Shifted(N, mat.A, v) /\ mat'.B = mat.B
        BY <1>2, <1>3, <4>1, <4>2, StepA
      <4> QED BY <4>3 DEF v, Shifted
    <3>2. mat.A = M0.A
      BY <1>2, <2>1
    <3>3. ca'.k \in 1 .. 5
      BY <1>4, <2>1
    <3> QED BY <1>2, <1>5, <3>1, <3>2, <3>3 DEF NN
  <2>2. CASE ca.k \in 1 .. 4
    <3>1. mat' \in Matrices(N) /\ mat'.A = mat.A /\ mat'.B = mat.B
      <4>1. k \in 1 .. 4
        BY <2>2 DEF k
      <4> QED BY <1>2, <1>3, <1>k, <4>1, StepC
    <3>2. ca.k \in 1 .. 5 /\ ca'.k \in 1 .. 5
      BY <1>4, <2>2
    <3> QED BY <1>2, <3>1, <3>2
  <2>3. CASE ca.k = 5
    <3>1. mat' \in Matrices(N) /\ mat'.A = [e \in 0 .. (N * N - 1) |-> S16(mat.A[e] + (-val))] /\ mat'.B = mat.B
      <4> DEFINE v == -val
      <4>1. mat' = matrix_add_const(mat, v)
        BY <1>k, <2>3 DEF k, matrix_step
      <4>2. v \in Int
        BY <1>k
      <4> HIDE DEF v
      <4>3. mat' \in Matrices(N) /\ mat'.A = Shifted(N, mat.A, v) /\ mat'.B = mat.B
        BY <1>2, <1>3, <4>1, <4>2, StepA
      <4> QED BY <4>3 DEF v, Shifted
    <3>2. mat.A = [e \in 0 .. (NN - 1) |-> S16(M0.A[e] + val)]
      BY <1>2, <1>5, <2>3
    <3>3. \A e \in 0 .. (NN - 1) : S16(S16(M0.A[e] + val) + (-val)) = M0.A[e]
      BY <1>1, <1>3, AddConstUndone DEF Bytes
    <3>4. mat'.A = [e \in 0 .. (NN - 1) |-> M0.A[e]]
      BY <3>1, <3>2, <3>3 DEF NN
    <3>5. M0.A \in [0 .. (NN - 1) -> Int]
      BY <1>3 DEF Matrices, NN
    <3>6. mat'.A = M0.A
      BY <3>4, <3>5
    <3>7. ~(ca'.k \in 1 .. 5)
      BY <1>4, <2>3
    <3> QED BY <1>2, <3>1, <3>6, <3>7
  <2> QED BY <1>0, <1>1, <2>1, <2>2, <2>3
<1>7. ca'.crc \in Words
  <2>1. CASE ca.k \in 1 .. 4
    <3>1. matrix_big(val) \in Int
      BY <1>1, S16Type DEF matrix_big
    <3>2. matrix_sum(mat', matrix_big(val)) \in Int
      BY <1>3, <1>6, <3>1, MatrixSumType
    <3>3. ca'.crc = crc16(matrix_sum(mat', matrix_big(val)), ca.crc)
      BY <1>4, <2>1 DEF matrix_crc
    <3> QED BY <1>1, <3>2, <3>3, CrcType
  <2>2. CASE ca.k \notin 1 .. 4
    BY <1>1, <1>4, <2>2 DEF matrix_crc
  <2> QED BY <2>1, <2>2
<1>8. ca'.k \in 0 .. 6
  BY <1>0, <1>1, <1>4
<1> QED BY <1>4, <1>6, <1>7, <1>8 DEF N, val

(* A scanned token leaves a zero ahead.                                    *)
LEMMA TokenIs ==
    ASSUME Base, Working, state_Token
    PROVE  /\ ca'.p \in Nat /\ ca'.track \in Counters /\ ca'.final \in Counters
           /\ \E z \in ca'.p .. (size - 1) : blk[z] = 0
           /\ ca'.k = ca.k /\ ca'.c = ca.c /\ ca'.val = ca.val
<1> DEFINE p == ca.p
           tr == ca.track
           t == core_state_transition(blk, p, tr)
<1>0. pc = "scan" /\ pc # "start" /\ ~Preparing
  BY DEF state_Token, Preparing, Sorting
<1>1. /\ p \in Nat /\ tr \in Counters /\ ca.final \in Counters
      /\ \E z \in p .. (size - 1) : blk[z] = 0
  BY <1>0 DEF Working, Call, Calculating
<1>2. size \in Nat /\ blk \in [0 .. (size - 1) -> Bytes]
  BY <1>0, TextIs, Prepared
<1>3. /\ ca'.p = t.p /\ ca'.track = t.track /\ ca'.final = Bump(ca.final, {t.state})
      /\ ca'.k = ca.k /\ ca'.c = ca.c /\ ca'.val = ca.val
  BY DEF state_Token, Base, Fields
<1> HIDE DEF p, tr
<1>4. PICK z \in p .. (size - 1) : blk[z] = 0
  BY <1>1
<1>5. t.p \in p .. z /\ t.track \in Counters
  BY <1>1, <1>2, <1>4, TransitionIs
<1> HIDE DEF t
<1>6. t.p \in Nat /\ z \in t.p .. (size - 1)
  BY <1>1, <1>2, <1>4, <1>5
<1>7. Bump(ca.final, {t.state}) \in Counters
  BY <1>1, BumpType
<1> QED BY <1>3, <1>4, <1>5, <1>6, <1>7

(* Corruption leaves a zero in the text.                                   *)
LEMMA CorruptStepIs ==
    ASSUME Base, Working, state_Corrupt
    PROVE  /\ blk' = corrupt(T0, seed[1], MinPeriod(ca'.val))
           /\ \E z \in 0 .. (size - 1) : blk'[z] = 0
           /\ ca'.k = 1 /\ ca'.p = 0 /\ ca'.c = ca.c /\ ca'.val = ca.val
           /\ ca'.track = ca.track /\ ca'.final = ca.final
<1>0. pc = "scan" /\ pc # "start" /\ ~Preparing /\ ca.k = 0
  BY DEF state_Corrupt, Preparing, Sorting
<1>1. ca.val \in Nat
  BY <1>0 DEF Working, Call, Calculating
<1>2. /\ size \in Nat /\ size >= 120 /\ T0 \in [0 .. (size - 1) -> Characters \union {COMMA, 0}]
      /\ T0[size - 1] = 0 /\ T0[size - 2] = 0 /\ seed[1] \in Nat
  BY <1>0, Prepared
<1>3. blk = T0
  BY <1>0 DEF Working, Text
<1>4. /\ blk' = corrupt(T0, seed[1], MinPeriod(ca.val))
      /\ ca'.k = 1 /\ ca'.p = 0 /\ ca'.c = ca.c /\ ca'.val = ca.val
      /\ ca'.track = ca.track /\ ca'.final = ca.final
  BY <1>3 DEF state_Corrupt, Base, Fields
<1> DEFINE st == MinPeriod(ca.val)
           s1 == seed[1]
<1>5. st \in Nat /\ st >= 2
  BY <1>1 DEF MinPeriod
<1> HIDE DEF st, s1
<1>6. s1 \in Nat /\ size >= 2
  BY <1>2 DEF s1
<1>7. \E z \in 0 .. (size - 1) : corrupt(T0, s1, st)[z] = 0
  BY <1>2, <1>5, <1>6, CorruptIs
<1> QED BY <1>4, <1>7 DEF s1, st

(* The second corruption restores the text.                                *)
LEMMA StateReturnIs ==
    ASSUME Base, Working, state_Return
    PROVE  blk' = T0 /\ state_crc(ca.final, ca.track, res.crc) \in Words
<1>0. pc = "scan" /\ pc # "start" /\ ~Preparing /\ ca.k = 1
  BY DEF state_Return, Preparing, Sorting
<1>1. ca.final \in Counters /\ ca.track \in Counters /\ res.crc \in Words
  BY <1>0 DEF Working, Call, Calculating, Numbers
<1>2. /\ T0 \in [0 .. (size - 1) -> Characters \union {COMMA, 0}] /\ seed[1] \in Nat /\ seed[2] = seed[1]
      /\ \A c \in Characters \union {0} : xor8(c, seed[1] % 256) # COMMA
  BY <1>0, Prepared
<1>3. blk = corrupt(T0, seed[1], MinPeriod(ca.val))
  BY <1>0 DEF Working, Text
<1> DEFINE st == MinPeriod(ca.val)
           s1 == seed[1]
<1>4. blk' = corrupt(corrupt(T0, s1, st), s1, st)
  BY <1>2, <1>3 DEF state_Return
<1> HIDE DEF st, s1
<1>5. corrupt(corrupt(T0, s1, st), s1, st) = T0
  BY <1>2, CorruptTwice DEF s1
<1> QED BY <1>1, <1>4, <1>5, StateCrcType

(* calc_func folds its result into a checksum that is a word.              *)
LEMMA ReturnIs ==
    ASSUME Base, Working, NEW r, r.crc \in Words, DOMAIN r = DOMAIN res, NEW retval \in Int, Return(r, retval)
    PROVE  res'.crc \in Words
<1>1. res'.crc = crcu16(retval, r.crc)
  BY DEF Return, Base, Fields
<1> QED BY <1>1, CrcType

(* Every step keeps the part about numbers.                                *)
LEMMA NumbersStep == ASSUME Base, Working, [Next]_vars PROVE Numbers'
<1>0. Numbers
  BY DEF Working
<1>1. CASE iterate
  BY <1>0, <1>1, ZeroIsWord DEF iterate, Bench, Numbers
<1>2. CASE Find_Turn
  <2>1. UNCHANGED <<pc, res>> /\ pc = "find"
    BY <1>2 DEF Find_Turn
  <2> QED BY <1>0, <1>2, <2>1, FindTurnIs DEF Numbers
<1>3. CASE Find_End
  <2> DEFINE x == bl.retval + bl.found * 4 - bl.missed
  <2>1. /\ res' = res /\ bl'.i = bl.i /\ bl'.idx = bl.idx /\ bl'.found = bl.found /\ bl'.missed = bl.missed
        /\ bl'.retval = U16(x)
    BY <1>3 DEF Find_End, Base, Fields
  <2>2. x \in Int
    BY <1>0 DEF Numbers
  <2> HIDE DEF x
  <2>3. U16(x) \in Words /\ U16(x) \in Int
    BY <2>2 DEF U16, Words
  <2> QED BY <1>0, <2>1, <2>3 DEF Numbers
<1>4. CASE List_Remove
  <2>1. res' = res
    BY <1>4 DEF List_Remove
  <2>2. bl'.retval \in Words /\ bl'.retval \in Int
    BY <1>4, RemoveStepIs DEF Words
  <2> QED BY <1>0, <1>4, <2>1, <2>2, RemoveStepIs DEF Numbers
<1>5. CASE List_Undo
  <2>1. res' = res /\ pc = "undo"
    BY <1>5 DEF List_Undo
  <2> QED BY <1>0, <1>5, <2>1, UndoStepIs DEF Numbers
<1>6. CASE Finish
  <2>1. res'.crc \in Words
    BY <1>6, FinishIs
  <2>2. pc = "finish" /\ (bl' = bl \/ (pc' = "find" /\ \E f \in {1, -1} :
            bl' = [finder_idx |-> f, i |-> 0, retval |-> 0, found |-> 0,
                   missed |-> 0, idx |-> f, remover |-> NULL]))
    BY <1>6 DEF Finish, Bench
  <2>3. CASE bl' = bl
    BY <1>0, <2>1, <2>2, <2>3 DEF Numbers
  <2>4. CASE bl' # bl
    BY <2>1, <2>2, <2>4 DEF Numbers
  <2> QED BY <2>3, <2>4
<1>7. CASE calc_Default
  <2> DEFINE v == heap.data[ca.c].data16
  <2>1. pc = "default" /\ bl' = bl /\ Return(res, v)
    BY <1>7 DEF calc_Default
  <2>2. ca.c \in 1 .. Items /\ HeapOK
    BY <2>1 DEF Working, Calculating, Call
  <2>3. heap.data \in [1 .. Items -> Data]
    BY <2>2 DEF HeapOK, HeapsOf
  <2>4. v \in Int
    <3>1. heap.data[ca.c] \in Data
      BY <2>2, <2>3
    <3> QED BY <3>1 DEF Data, Words
  <2> HIDE DEF v
  <2>5. res.crc \in Words
    BY <1>0 DEF Numbers
  <2>6. res'.crc \in Words
    BY <2>1, <2>4, <2>5, ReturnIs
  <2> QED BY <1>0, <2>1, <2>6 DEF Numbers
<1>8. CASE matrix_Return
  <2> DEFINE v == crc16(ca.crc, res.crc)
             r == [res EXCEPT !.crcmatrix = IF @ = 0 THEN v ELSE @]
  <2>1. pc = "matrix" /\ bl' = bl /\ Return(r, v)
    BY <1>8 DEF matrix_Return
  <2>2. ca.crc \in Words /\ res.crc \in Words
    BY <1>0, <2>1 DEF Working, Calculating, Call, Numbers
  <2>3. ca.crc \in Int
    BY <2>2 DEF Words
  <2>4. v \in Words
    BY <2>2, <2>3, CrcType
  <2>5. v \in Int
    BY <2>4 DEF Words
  <2> HIDE DEF v
  <2>6. r.crc = res.crc /\ DOMAIN r = DOMAIN res
    BY DEF Base, Fields
  <2> HIDE DEF r
  <2>7. res'.crc \in Words
    BY <2>1, <2>2, <2>5, <2>6, ReturnIs
  <2> QED BY <1>0, <2>1, <2>7 DEF Numbers
<1>9. CASE state_Return
  <2> DEFINE v == state_crc(ca.final, ca.track, res.crc)
             r == [res EXCEPT !.crcstate = IF @ = 0 THEN v ELSE @]
  <2>1. pc = "scan" /\ bl' = bl /\ Return(r, v)
    BY <1>9 DEF state_Return
  <2>2. v \in Words /\ res.crc \in Words
    BY <1>0, <1>9, StateReturnIs DEF Numbers
  <2>3. v \in Int
    BY <2>2 DEF Words
  <2> HIDE DEF v
  <2>4. r.crc = res.crc /\ DOMAIN r = DOMAIN res
    BY DEF Base, Fields
  <2> HIDE DEF r
  <2>5. res'.crc \in Words
    BY <2>1, <2>2, <2>3, <2>4, ReturnIs
  <2> QED BY <1>0, <2>1, <2>5 DEF Numbers
<1>10. CASE \/ main_Start \/ main_Inits \/ main_Trial \/ main_SetIterations \/ main_Validate \/ SortOps
            \/ calc_func \/ matrix_Step \/ state_Token \/ state_Corrupt \/ UNCHANGED vars
  <2>1. UNCHANGED <<res, bl>> /\ (pc = "find" => pc' = "find")
    BY <1>10 DEF SortOps, vars, main_Start, main_Inits, main_Trial, main_SetIterations, main_Validate,
       Pass_Start, Merge_Start, Merge_Element, Merge_End, Pass_End, calc_func, matrix_Step, state_Token, state_Corrupt
  <2> QED BY <1>0, <2>1 DEF Numbers
<1> QED BY <1>1, <1>2, <1>3, <1>4, <1>5, <1>6, <1>7, <1>8, <1>9, <1>10
        DEF Next, Main, ListOps, CalcOps, Halt

(* Every step keeps the part about the matrices.                           *)
LEMMA MatrixStep == ASSUME Base, Working, [Next]_vars, ~Preparing' PROVE Matrix'
<1>1. CASE main_Inits
  <2>1. pc = "inits" /\ pc # "start" /\ mat' = M0 /\ pc' # "matrix"
    BY <1>1 DEF main_Inits, M0
  <2>2. size' = size /\ M0' = M0
    BY <2>1, Same
  <2>3. M0 \in Matrices(MatrixN(size))
    BY <2>1, Prepared
  <2> QED BY <2>1, <2>2, <2>3 DEF Matrix
<1>2. CASE ~main_Inits
  <2>1. ~Preparing /\ pc # "start" /\ Matrix
    BY <1>2, WasReady DEF Working
  <2>2. size' = size /\ M0' = M0
    BY <2>1, Same
  <2>3. CASE matrix_Step
    <3>1. pc' = "matrix"
      BY <2>3 DEF matrix_Step
    <3> QED BY <2>2, <2>3, <3>1, MatrixStepIs DEF Matrix
  <2>4. CASE calc_func
    <3>1. mat' = mat /\ pc # "matrix"
      BY <2>4 DEF calc_func
    <3>2. ca'.k = 0
      BY <2>4, CalcFuncIs
    <3> QED BY <2>1, <2>2, <3>1, <3>2 DEF Matrix
  <2>5. CASE matrix_Return
    <3>1. mat' = mat /\ pc = "matrix" /\ ca.k = 6 /\ pc' # "matrix"
      BY <2>5 DEF matrix_Return, Return
    <3> QED BY <2>1, <2>2, <3>1 DEF Matrix
  <2>6. CASE calc_Default \/ state_Token \/ state_Corrupt \/ state_Return
    <3>1. mat' = mat /\ pc # "matrix" /\ pc' # "matrix"
      BY <2>6 DEF calc_Default, state_Token, state_Corrupt, state_Return, Return
    <3> QED BY <2>1, <2>2, <3>1 DEF Matrix
  <2>7. CASE Plain
    <3>1. mat' = mat /\ pc # "matrix" /\ pc' # "matrix"
      BY <2>7, PlainStep DEF Calculating
    <3> QED BY <2>1, <2>2, <3>1 DEF Matrix
  <2>8. CASE UNCHANGED vars
    BY <2>1, <2>2, <2>8 DEF Matrix, vars
  <2> QED BY <1>2, <2>3, <2>4, <2>5, <2>6, <2>7, <2>8, Split DEF CalcOps
<1> QED BY <1>1, <1>2

(* Every step keeps the part about the text.                               *)
LEMMA TextStep == ASSUME Base, Working, [Next]_vars, ~Preparing' PROVE Text'
<1>1. CASE main_Inits
  <2>1. pc = "inits" /\ pc # "start" /\ blk' = T0 /\ pc' # "scan"
    BY <1>1 DEF main_Inits, T0
  <2>2. size' = size /\ T0' = T0 /\ seed' = seed
    BY <2>1, Same
  <2> QED BY <2>1, <2>2 DEF Text
<1>2. CASE ~main_Inits
  <2>1. ~Preparing /\ pc # "start" /\ Text
    BY <1>2, WasReady DEF Working
  <2>2. size' = size /\ T0' = T0 /\ seed' = seed
    BY <2>1, Same
  <2>3. CASE state_Token
    <3>1. blk' = blk /\ pc' = pc
      BY <2>3 DEF state_Token
    <3> QED BY <2>1, <2>2, <2>3, <3>1, TokenIs DEF Text
  <2>4. CASE calc_func
    <3>1. blk' = blk /\ pc # "scan"
      BY <2>4 DEF calc_func
    <3>2. ca'.k = 0
      BY <2>4, CalcFuncIs
    <3> QED BY <2>1, <2>2, <3>1, <3>2 DEF Text
  <2>5. CASE state_Corrupt
    <3>1. pc' = "scan"
      BY <2>5 DEF state_Corrupt
    <3> QED BY <2>1, <2>2, <2>5, <3>1, CorruptStepIs DEF Text
  <2>6. CASE state_Return
    <3>1. pc' # "scan"
      BY <2>6 DEF state_Return, Return
    <3> QED BY <2>1, <2>2, <2>6, <3>1, StateReturnIs DEF Text
  <2>7. CASE calc_Default \/ matrix_Step \/ matrix_Return
    <3>1. blk' = blk /\ pc # "scan" /\ pc' # "scan"
      BY <2>7 DEF calc_Default, matrix_Step, matrix_Return, Return
    <3> QED BY <2>1, <2>2, <3>1 DEF Text
  <2>8. CASE Plain
    <3>1. blk' = blk /\ pc # "scan" /\ pc' # "scan"
      BY <2>8, PlainStep DEF Calculating
    <3> QED BY <2>1, <2>2, <3>1 DEF Text
  <2>9. CASE UNCHANGED vars
    BY <2>1, <2>2, <2>9 DEF Text, vars
  <2> QED BY <1>2, <2>3, <2>4, <2>5, <2>6, <2>7, <2>8, <2>9, Split DEF CalcOps
<1> QED BY <1>1, <1>2

(* Every step keeps the part about calc_func.                              *)
LEMMA CallStep == ASSUME Base, Working, [Next]_vars, Calculating' PROVE Call'
<1>1. CASE calc_func
  <2>1. pc = "element" /\ pc # "start" /\ UNCHANGED <<heap, blk>> /\ ms.cmp = "complex" /\ pc # "scan"
    BY <1>1 DEF calc_func, Uncached
  <2>2. size' = size /\ Items' = Items
    BY <2>1, Same
  <2>3. ~Preparing
    BY <2>1 DEF Base, Control, Preparing
  <2>4. blk = T0
    BY <2>1, <2>3 DEF Working, Text
  <2>5. size \in Nat /\ size >= 120 /\ T0[size - 1] = 0
    BY <2>1, Prepared
  <2>6. \E z \in 0 .. (size - 1) : blk[z] = 0
    BY <2>4, <2>5
  <2> QED BY <1>1, <2>1, <2>2, <2>6, CalcFuncIs, StatesAre, ZeroIsWord DEF Call
<1>2. CASE matrix_Step
  <2>1. pc = "matrix" /\ pc # "start" /\ pc' = "matrix" /\ UNCHANGED heap /\ Calculating
    BY <1>2 DEF matrix_Step, Calculating
  <2>2. Items' = Items /\ Call
    BY <2>1, Same DEF Working
  <2> QED BY <1>2, <2>1, <2>2, MatrixStepIs DEF Call
<1>3. CASE state_Token
  <2>1. pc = "scan" /\ pc # "start" /\ pc' = "scan" /\ UNCHANGED <<heap, blk>> /\ Calculating
    BY <1>3 DEF state_Token, Calculating
  <2>2. Items' = Items /\ Call /\ size' = size
    BY <2>1, Same DEF Working
  <2> QED BY <1>3, <2>1, <2>2, TokenIs DEF Call
<1>4. CASE state_Corrupt
  <2>1. pc = "scan" /\ pc # "start" /\ pc' = "scan" /\ UNCHANGED heap /\ Calculating
    BY <1>4 DEF state_Corrupt, Calculating
  <2>2. Items' = Items /\ Call /\ size' = size
    BY <2>1, Same DEF Working
  <2> QED BY <1>4, <2>1, <2>2, CorruptStepIs DEF Call
<1>5. CASE calc_Default \/ matrix_Return \/ state_Return \/ main_Inits
  BY <1>5 DEF calc_Default, matrix_Return, state_Return, Return, main_Inits, Calculating
<1>6. CASE Plain
  BY <1>6, PlainStep
<1>7. CASE UNCHANGED vars
  <2>1. Calculating /\ pc # "start"
    BY <1>7 DEF vars, Calculating
  <2>2. Call /\ size' = size /\ Items' = Items
    BY <2>1, Same DEF Working
  <2> QED BY <1>7, <2>2 DEF vars, Call
<1> QED BY <1>1, <1>2, <1>3, <1>4, <1>5, <1>6, <1>7, Split DEF CalcOps

---------------------------------------------------------------------------
(* One element of a merge.                                                 *)

(* What cmp_idx makes of the two data it is called for; with cmp_complex   *)
(* both are cached.                                                        *)
LEMMA RegeneratedIs ==
    ASSUME Base, Working, Merge_Element
    PROVE  /\ Regenerated \in HeapsOf(Items) /\ Regenerated.next = heap.next /\ Regenerated.info = heap.info
           /\ \A c \in 1 .. Items : /\ Regenerated.data[c].idx = heap.data[c].idx
                                    /\ Regenerated.data[c].data16 \div 256 = heap.data[c].data16 \div 256
           /\ Grows(Order(heap.data, ms.cmp), Order(Regenerated.data, ms.cmp), Items)
           /\ Comparing => /\ Touched(ms.cmp, Regenerated.data[ms.p])
                           /\ Touched(ms.cmp, Regenerated.data[ms.q])
<1> DEFINE N == Items
<1>0. pc = "element" /\ pc # "start" /\ Uncached = {} /\ HeapOK
  BY DEF Merge_Element, Working
<1>1. N \in Nat /\ heap \in HeapsOf(N)
  BY <1>0, Prepared DEF HeapOK
<1>2. heap.data \in [1 .. N -> Data]
  BY <1>1 DEF HeapsOf
<1>3. CASE ms.cmp = "idx" /\ Comparing
  <2>1. ms.p \in 1 .. N /\ ms.q \in 1 .. N /\ heap.info[ms.p] = ms.p /\ heap.info[ms.q] = ms.q
    BY <1>0, <1>3, ElementOfMerge
  <2> DEFINE p == ms.p
             q == ms.q
             h2 == Rebuilt(heap, p, q)
  <2>2. Regenerated = h2
    BY <1>3, <2>1 DEF Regenerated, Rebuilt
  <2> HIDE DEF p, q
  <2>3. p \in 1 .. N /\ q \in 1 .. N
    BY <2>1 DEF p, q
  <2> HIDE DEF h2
  <2>4. /\ h2 \in HeapsOf(N) /\ h2.next = heap.next /\ h2.info = heap.info
        /\ \A c \in 1 .. N : /\ h2.data[c].idx = heap.data[c].idx
                             /\ h2.data[c].data16 \div 256 = heap.data[c].data16 \div 256
        /\ \A c \in 1 .. N : h2.data[c] = heap.data[c] \/ h2.data[c] = Regen(heap.data[c])
        /\ Regen(h2.data[p]) = h2.data[p] /\ Regen(h2.data[q]) = h2.data[q]
    BY <1>1, <2>3, RegenerateIs DEF h2
  <2>5. h2.data \in [1 .. N -> Data]
    BY <2>4 DEF HeapsOf
  <2>6. Grows(Order(heap.data, "idx"), Order(h2.data, "idx"), N)
    BY <1>1, <1>2, <2>4, <2>5, OrderRegen
  <2>7. Touched("idx", h2.data[p]) /\ Touched("idx", h2.data[q])
    BY <2>4 DEF Touched
  <2> QED BY <1>3, <2>2, <2>4, <2>6, <2>7 DEF p, q
<1>4. CASE ~(ms.cmp = "idx" /\ Comparing)
  <2>1. Regenerated = heap
    BY <1>4 DEF Regenerated
  <2>2. Grows(Order(heap.data, ms.cmp), Order(heap.data, ms.cmp), N)
    BY DEF Grows
  <2>3. ASSUME Comparing PROVE Touched(ms.cmp, heap.data[ms.p]) /\ Touched(ms.cmp, heap.data[ms.q])
    <3>1. ms.cmp = "complex"
      BY <1>4, <2>3 DEF Base, Control
    <3>2. heap.info[ms.p] = ms.p /\ heap.info[ms.q] = ms.q
      BY <1>0, <2>3, ElementOfMerge
    <3>3. Cached(Datum(heap, ms.p)) /\ Cached(Datum(heap, ms.q))
      BY <1>0, <2>3, <3>1 DEF Uncached
    <3> QED BY <3>1, <3>2, <3>3 DEF Touched, Datum
  <2> QED BY <1>1, <2>1, <2>2, <2>3
<1> QED BY <1>3, <1>4

(* One element of a merge: whichever run it comes from, all cells stay     *)
(* linked and the merged part is in order.                                 *)
LEMMA MergeElementIs ==
    ASSUME Base, Working, Merge_Element
    PROVE  /\ heap' \in HeapsOf(Items) /\ heap'.info = heap.info
           /\ \A c \in 1 .. Items : /\ heap'.data[c].idx = heap.data[c].idx
                                    /\ heap'.data[c].data16 \div 256 = heap.data[c].data16 \div 256
           /\ ms'.cmp = ms.cmp
           /\ \E arr \in Perms(Items) : \E a, b, s \in 0 .. Items :
                 AtElement(heap'.next, arr, Items, a, b, s, ms', Order(heap'.data, ms.cmp))
<1> DEFINE N == Items
           h == Regenerated
           R == Order(heap.data, ms.cmp)
           R2 == Order(h.data, ms.cmp)
<1>0. pc = "element" /\ pc # "start" /\ (ms.psize > 0 \/ ~QEmpty)
  BY DEF Merge_Element
<1>1. N \in Nat /\ N >= 3 /\ HeapOK /\ Shape
  BY <1>0, Prepared DEF Working
<1>2. PICK arr \in Perms(N) : \E a, b, s \in 0 .. N : AtElement(heap.next, arr, N, a, b, s, ms, R)
  BY <1>0, <1>1 DEF Shape, ShapeAt, InMerge
<1>3. PICK a \in 0 .. N, b \in 0 .. N, s \in 0 .. N : AtElement(heap.next, arr, N, a, b, s, ms, R)
  BY <1>2
<1>4. /\ h \in HeapsOf(N) /\ h.next = heap.next /\ h.info = heap.info /\ Grows(R, R2, N)
      /\ \A c \in 1 .. N : /\ h.data[c].idx = heap.data[c].idx
                           /\ h.data[c].data16 \div 256 = heap.data[c].data16 \div 256
      /\ Comparing => Touched(ms.cmp, h.data[ms.p]) /\ Touched(ms.cmp, h.data[ms.q])
  BY RegeneratedIs
<1>5. Append_Cell(h)
  BY DEF Merge_Element
<1>6. heap.info = Identity(N)
  BY <1>0, <1>1 DEF HeapOK
<1> HIDE DEF h, R
<1>7. AtElement(h.next, arr, N, a, b, s, ms, R2)
  <2> HIDE DEF R2
  <2> QED BY <1>1, <1>3, <1>4, AtElementGrows
<1>8. h.next \in [1 .. N -> 0 .. N] /\ h.data \in [1 .. N -> Data]
  BY <1>4 DEF HeapsOf
<1>9. arr \in [1 .. N -> 1 .. N]
  BY <1>1, PermFacts
<1>10. /\ ms.psize = b - a /\ (b > a => ms.p = arr[a + 1])
       /\ ms.q = (IF b = N THEN NULL ELSE arr[b + 1]) /\ b \in a .. N /\ ms.qsize \in Nat
  BY <1>7 DEF AtElement, Sizes, Parts
<1>11. b < N => ms.q \in 1 .. N /\ ms.q # NULL
  BY <1>1, <1>9, <1>10 DEF NULL
<1>12. b > a => ms.p \in 1 .. N
  <2>1. b > a => a + 1 \in 1 .. N
    BY <1>1, <1>10
  <2> QED BY <1>9, <1>10, <2>1
<1> DEFINE e == IF TakeP(h) THEN ms.p ELSE ms.q
<1>13. /\ heap' = IF ms.tail = NULL THEN h ELSE [h EXCEPT !.next[ms.tail] = e]
       /\ ms' = [ms EXCEPT !.list = IF ms.tail = NULL THEN e ELSE @, !.tail = e,
                           !.p = IF TakeP(h) THEN h.next[e] ELSE @,
                           !.q = IF TakeP(h) THEN @ ELSE h.next[e],
                           !.psize = IF TakeP(h) THEN @ - 1 ELSE @,
                           !.qsize = IF TakeP(h) THEN @ ELSE @ - 1]
  BY <1>5 DEF Append_Cell
<1>14. heap'.next = Appended(h.next, ms, e) /\ heap'.info = h.info /\ heap'.data = h.data
       /\ heap' = [next |-> Appended(h.next, ms, e), info |-> h.info, data |-> h.data]
  <2>1. h = [next |-> h.next, info |-> h.info, data |-> h.data]
    BY <1>4 DEF HeapsOf
  <2> HIDE DEF e
  <2> QED BY <1>13, <2>1 DEF Appended
<1>15. ms'.cmp = ms.cmp /\ ms'.insize = ms.insize /\ ms'.nmerges = ms.nmerges /\ ms'.tail = e
       /\ ms'.list = (IF ms.tail = NULL THEN e ELSE ms.list)
  <2> HIDE DEF e
  <2> QED BY <1>13 DEF Base, Fields
<1>16. TakeP(h) => ms'.p = h.next[e] /\ ms'.q = ms.q /\ ms'.psize = ms.psize - 1 /\ ms'.qsize = ms.qsize
  <2> HIDE DEF e
  <2> QED BY <1>13 DEF Base, Fields
<1>17. ~TakeP(h) => ms'.p = ms.p /\ ms'.q = h.next[e] /\ ms'.psize = ms.psize /\ ms'.qsize = ms.qsize - 1
  <2> HIDE DEF e
  <2> QED BY <1>13 DEF Base, Fields
<1>18. b < N /\ ms.qsize > 0 => ~QEmpty
  BY <1>10, <1>11 DEF QEmpty
<1>19. b > a /\ ~QEmpty => /\ Comparing /\ Datum(h, ms.p) = h.data[ms.p] /\ Datum(h, ms.q) = h.data[ms.q]
                           /\ b < N /\ ms.p \in 1 .. N /\ ms.q \in 1 .. N
  <2> SUFFICES ASSUME b > a, ~QEmpty
               PROVE  /\ Comparing /\ Datum(h, ms.p) = h.data[ms.p] /\ Datum(h, ms.q) = h.data[ms.q]
                      /\ b < N /\ ms.p \in 1 .. N /\ ms.q \in 1 .. N
    OBVIOUS
  <2>1. Comparing
    BY <1>10 DEF Comparing
  <2>2. b < N
    <3>1. b # N
      BY <1>10 DEF QEmpty
    <3> QED BY <1>1, <3>1
  <2> QED BY <1>4, <1>6, <1>11, <1>12, <2>1, <2>2 DEF Datum, Identity
<1>20. ASSUME b > a, ~QEmpty
       PROVE  /\ TakeP(h) <=> KeyOf(h, ms.cmp, ms.p) <= KeyOf(h, ms.cmp, ms.q)
              /\ TakeP(h) => ms.q \in R2[ms.p]
              /\ ~TakeP(h) => ms.p \in R2[ms.q]
  <2>1. TakeP(h) <=> KeyOf(h, ms.cmp, ms.p) <= KeyOf(h, ms.cmp, ms.q)
    BY <1>10, <1>19, <1>20 DEF TakeP, KeyOf, Comparing
  <2> DEFINE p == ms.p
             q == ms.q
             cmp == ms.cmp
  <2>2. /\ p \in 1 .. N /\ q \in 1 .. N
        /\ Touched(cmp, h.data[p]) /\ Touched(cmp, h.data[q])
    BY <1>4, <1>19, <1>20
  <2> HIDE DEF p, q, cmp
  <2>3. KeyOf(h, cmp, p) \in Nat /\ KeyOf(h, cmp, q) \in Nat
    BY <1>1, <1>4, <2>2, KeyType
  <2>4. /\ q \in Order(h.data, cmp)[p] <=> KeyOf(h, cmp, p) <= KeyOf(h, cmp, q)
        /\ p \in Order(h.data, cmp)[q] <=> KeyOf(h, cmp, q) <= KeyOf(h, cmp, p)
    BY <1>1, <1>8, <2>2, OrderIs DEF KeyOf
  <2>5. /\ q \in Order(h.data, cmp)[p] \/ ~(KeyOf(h, cmp, p) <= KeyOf(h, cmp, q))
        /\ p \in Order(h.data, cmp)[q] \/ KeyOf(h, cmp, p) <= KeyOf(h, cmp, q)
    BY <2>3, <2>4
  <2> QED BY <2>1, <2>5 DEF p, q, cmp
<1> HIDE DEF e, R2
<1>21. CASE TakeP(h)
  <2>1. ms.psize > 0
    BY <1>21 DEF TakeP
  <2>2. b > a /\ e = ms.p /\ e = arr[a + 1]
    BY <1>10, <1>21, <2>1 DEF e
  <2>3. b < N /\ ms.qsize > 0 => arr[b + 1] \in R2[arr[a + 1]]
    <3> SUFFICES ASSUME b < N, ms.qsize > 0 PROVE arr[b + 1] \in R2[arr[a + 1]]
      OBVIOUS
    <3>1. ms.q = arr[b + 1]
      BY <1>10
    <3> QED BY <1>18, <1>20, <1>21, <2>2, <3>1
  <2> DEFINE m2 == ms'
             m == ms
  <2>4. /\ m2.list = (IF m.tail = NULL THEN arr[a + 1] ELSE m.list) /\ m2.tail = arr[a + 1]
        /\ m2.p = h.next[arr[a + 1]] /\ m2.q = m.q /\ m2.psize = m.psize - 1 /\ m2.qsize = m.qsize
        /\ m2.insize = m.insize /\ m2.nmerges = m.nmerges
    BY <1>15, <1>16, <1>21, <2>2
  <2> HIDE DEF m2, m
  <2>5. /\ Appended(h.next, m, arr[a + 1]) \in [1 .. N -> 0 .. N]
        /\ AtElement(Appended(h.next, m, arr[a + 1]), arr, N, a + 1, b, s, m2, R2)
    <3>1. AtElement(h.next, arr, N, a, b, s, m, R2) /\ (b < N /\ m.qsize > 0 => arr[b + 1] \in R2[arr[a + 1]])
      BY <1>7, <2>3 DEF m
    <3> QED BY <1>1, <1>8, <2>2, <2>4, <3>1, TakePIs
  <2>6. a + 1 \in 0 .. N
    BY <1>1, <1>10, <2>2
  <2>7. heap'.next \in [1 .. N -> 0 .. N] /\ AtElement(heap'.next, arr, N, a + 1, b, s, ms', R2)
    BY <1>14, <2>2, <2>5 DEF m2, m
  <2>8. heap' \in HeapsOf(N)
    BY <1>4, <1>14, <2>7 DEF HeapsOf
  <2> QED BY <1>4, <1>14, <1>15, <2>6, <2>7, <2>8 DEF R2
<1>22. CASE ~TakeP(h)
  <2>1. ~QEmpty
    BY <1>0, <1>22 DEF TakeP
  <2>2. b < N /\ ms.qsize > 0
    <3>1. b # N /\ ms.qsize # 0
      BY <1>10, <2>1 DEF QEmpty
    <3> QED BY <1>1, <1>10, <3>1
  <2>3. e = ms.q /\ e = arr[b + 1]
    BY <1>10, <1>22, <2>2 DEF e
  <2>4. b > a => arr[a + 1] \in R2[arr[b + 1]]
    BY <1>10, <1>20, <1>22, <2>1, <2>3 DEF e
  <2> DEFINE m2 == ms'
             m == ms
             new == Down(arr, a + 1, b + 1)
  <2>5. /\ m2.list = (IF m.tail = NULL THEN arr[b + 1] ELSE m.list) /\ m2.tail = arr[b + 1]
        /\ m2.p = m.p /\ m2.q = h.next[arr[b + 1]] /\ m2.psize = m.psize /\ m2.qsize = m.qsize - 1
        /\ m2.insize = m.insize /\ m2.nmerges = m.nmerges
    BY <1>15, <1>17, <1>22, <2>3
  <2> HIDE DEF m2, m
  <2>6. /\ Appended(h.next, m, arr[b + 1]) \in [1 .. N -> 0 .. N]
        /\ AtElement(Appended(h.next, m, arr[b + 1]), new, N, a + 1, b + 1, s, m2, R2)
    <3>1. AtElement(h.next, arr, N, a, b, s, m, R2) /\ b < N /\ m.qsize > 0
      BY <1>7, <2>2 DEF m
    <3> QED BY <1>1, <1>8, <2>4, <2>5, <3>1, TakeQIs
  <2>7. a + 1 \in 1 .. N /\ b + 1 \in (a + 1) .. N
    BY <1>1, <1>10, <2>2
  <2>8. new \in Perms(N)
    BY <1>1, <2>7, DownIsPerm
  <2> HIDE DEF new
  <2>9. heap'.next \in [1 .. N -> 0 .. N] /\ AtElement(heap'.next, new, N, a + 1, b + 1, s, ms', R2)
    BY <1>14, <2>3, <2>6 DEF m2, m
  <2>10. heap' \in HeapsOf(N)
    BY <1>4, <1>14, <2>9 DEF HeapsOf
  <2>11. a + 1 \in 0 .. N /\ b + 1 \in 0 .. N
    BY <1>1, <2>7
  <2> QED BY <1>4, <1>14, <1>15, <2>8, <2>9, <2>10, <2>11 DEF R2
<1> QED BY <1>21, <1>22

---------------------------------------------------------------------------
(* The list part of the invariant, action by action.                       *)

(* The list part of the invariant.                                         *)
Held == HeapOK /\ Shape /\ (Rested => heap.data = D0)

(* Only the low byte of a datum changed.                                   *)
Kept(N, data, data2) ==
    \A c \in 1 .. N : /\ data2[c].idx = data[c].idx
                      /\ data2[c].data16 \div 256 = data[c].data16 \div 256

(* A step that changes the low bytes of data only keeps cells and data     *)
(* paired.                                                                 *)
LEMMA HeapOKStep ==
    ASSUME Base, [Next]_vars, pc # "start", HeapOK, heap' \in HeapsOf(Items),
           pc' # "undo" => heap'.info = Identity(Items), Kept(Items, heap.data, heap'.data)
    PROVE  HeapOK'
<1>1. Items' = Items /\ D0' = D0
  BY Same
<1>2. \A c \in 1 .. Items : /\ heap'.data[c].idx = D0[c].idx
                            /\ heap'.data[c].data16 \div 256 = D0[c].data16 \div 256
  BY DEF HeapOK, Kept
<1> QED BY <1>1, <1>2 DEF HeapOK

(* No datum changed.                                                       *)
LEMMA SameKept == \A N, data : Kept(N, data, data)
BY DEF Kept

(* A step into rest keeps the list part, when the list is in order and     *)
(* every datum is as it was made.                                          *)
LEMMA RestHeld ==
    ASSUME Base, [Next]_vars, pc # "start", HeapOK, Rested',
           heap' \in HeapsOf(Items), heap'.info = Identity(Items), heap'.data = D0,
           NEW arr \in Perms(Items), ListAt(heap'.next, arr, Items, list'),
           Ascending(arr, 1, Items, Order(D0, "idx"))
    PROVE  Held'
<1>1. Items' = Items /\ D0' = D0
  BY Same
<1>2. HeapOK'
  BY <1>1 DEF HeapOK
<1>3. pc' \notin {"pass", "merge", "undo", "remove", "element", "default", "matrix", "scan"}
  BY DEF Rested
<1>4. ShapeAt(arr)'
  BY <1>1, <1>3 DEF ShapeAt, InMerge
<1>5. Shape'
  BY <1>1, <1>4 DEF Shape
<1> QED BY <1>1, <1>2, <1>5 DEF Held

(* At rest the list is in order and every datum is as it was made.         *)
LEMMA AtRest ==
    ASSUME Base, Working, pc # "start", Rested
    PROVE  /\ HeapOK /\ heap \in HeapsOf(Items) /\ heap.info = Identity(Items) /\ heap.data = D0
           /\ \E arr \in Perms(Items) : /\ ListAt(heap.next, arr, Items, list)
                                        /\ Ascending(arr, 1, Items, Order(D0, "idx"))
<1>1. HeapOK /\ Shape /\ heap.data = D0
  BY DEF Working
<1>2. pc # "undo"
  BY DEF Rested
<1> QED BY <1>1, <1>2 DEF Shape, ShapeAt, HeapOK

(* The head of an ordered list is home.                                    *)
LEMMA HomeIs ==
    ASSUME Base, Working, pc # "start", Rested, ~Preparing
    PROVE  list = home
<1> DEFINE N == Items
<1>1. /\ N \in Nat /\ N >= 3 /\ D0 \in [1 .. N -> Data]
      /\ \A c, e \in 1 .. N : D0[c].idx = D0[e].idx => c = e
  BY Prepared
<1>2. PICK arr \in Perms(N) : ListAt(heap.next, arr, N, list) /\ Ascending(arr, 1, N, Order(D0, "idx"))
  BY AtRest
<1>3. \A c \in 1 .. N : D0[arr[1]].idx <= D0[c].idx
  BY <1>1, <1>2, AscendingFirst
<1>4. list = arr[1] /\ list \in 1 .. N
  BY <1>1, <1>2, PermFacts DEF ListAt
<1>5. home \in 1 .. N /\ \A c \in 1 .. N : D0[home].idx <= D0[c].idx
  BY DEF Working, Home
<1>6. D0[list].idx <= D0[home].idx /\ D0[home].idx <= D0[list].idx
  BY <1>3, <1>4, <1>5
<1>7. D0[list] \in Data /\ D0[home] \in Data
  BY <1>1, <1>4, <1>5
<1>8. D0[list].idx \in Nat /\ D0[home].idx \in Nat
  BY <1>7 DEF Data
<1>9. D0[list].idx = D0[home].idx
  BY <1>6, <1>8
<1> QED BY <1>1, <1>4, <1>5, <1>9

(* Steps from rest to rest keep the list part.                             *)
LEMMA RestToRest ==
    ASSUME Base, Working, [Next]_vars, pc # "start", Rested, Rested', heap' = heap, list' = list
    PROVE  Held'
<1>1. /\ HeapOK /\ heap \in HeapsOf(Items) /\ heap.info = Identity(Items) /\ heap.data = D0
      /\ \E arr \in Perms(Items) : /\ ListAt(heap.next, arr, Items, list)
                                   /\ Ascending(arr, 1, Items, Order(D0, "idx"))
  BY AtRest
<1>2. PICK arr \in Perms(Items) : /\ ListAt(heap.next, arr, Items, list)
                                  /\ Ascending(arr, 1, Items, Order(D0, "idx"))
  BY <1>1
<1> QED BY <1>1, <1>2, RestHeld

(* A step to the start of a pass keeps the list part.                      *)
LEMMA SortHeld ==
    ASSUME Base, [Next]_vars, pc # "start", HeapOK, pc' = "pass",
           heap' \in HeapsOf(Items), heap'.info = Identity(Items), Kept(Items, heap.data, heap'.data),
           NEW arr \in Perms(Items), AtPass(heap'.next, arr, Items, ms', Order(heap'.data, ms'.cmp))
    PROVE  Held'
<1>1. Items' = Items /\ D0' = D0
  BY Same
<1>2. HeapOK'
  BY HeapOKStep
<1>3. ~Rested'
  BY DEF Rested
<1>4. ShapeAt(arr)'
  BY <1>1, <1>3 DEF ShapeAt, InMerge
<1>5. Shape'
  BY <1>1, <1>4 DEF Shape
<1> QED BY <1>2, <1>3, <1>5 DEF Held

(* A list about to be sorted consists of runs of one cell.                 *)
LEMMA FirstPass ==
    ASSUME NEW N \in Nat, NEW next, NEW arr, NEW l, ListAt(next, arr, N, l), NEW cmp, NEW ret, NEW R
    PROVE  AtPass(next, arr, N, Sort(l, cmp, ret), R)
<1>1. \A k \in 1 .. (N - 1) : k % 1 = 0
  OBVIOUS
<1> QED BY <1>1 DEF AtPass, Sort, Runs

(* A step to a point between two merges keeps the list part.               *)
LEMMA MergeHeld ==
    ASSUME Base, [Next]_vars, pc # "start", HeapOK, pc' = "merge",
           heap' \in HeapsOf(Items), heap'.info = Identity(Items), Kept(Items, heap.data, heap'.data),
           NEW arr \in Perms(Items), NEW a \in 0 .. Items,
           AtMerge(heap'.next, arr, Items, a, ms', Order(heap'.data, ms'.cmp))
    PROVE  Held'
<1>1. Items' = Items /\ D0' = D0
  BY Same
<1>2. HeapOK'
  BY HeapOKStep
<1>3. ~Rested'
  BY DEF Rested
<1>4. ShapeAt(arr)'
  BY <1>1, <1>3 DEF ShapeAt, InMerge
<1>5. Shape'
  BY <1>1, <1>4 DEF Shape
<1> QED BY <1>2, <1>3, <1>5 DEF Held

(* A step to a point inside a merge keeps the list part.                   *)
LEMMA ElementHeld ==
    ASSUME Base, [Next]_vars, pc # "start", HeapOK, InMerge',
           heap' \in HeapsOf(Items), heap'.info = Identity(Items), Kept(Items, heap.data, heap'.data),
           NEW arr \in Perms(Items), NEW a \in 0 .. Items, NEW b \in 0 .. Items, NEW s \in 0 .. Items,
           AtElement(heap'.next, arr, Items, a, b, s, ms', Order(heap'.data, ms'.cmp))
    PROVE  Held'
<1>1. Items' = Items /\ D0' = D0
  BY Same
<1>2. pc' \in {"element", "default", "matrix", "scan"}
  BY DEF InMerge
<1>3. ~Rested'
  BY <1>2 DEF Rested
<1>4. HeapOK'
  BY HeapOKStep
<1>5. ShapeAt(arr)'
  BY <1>1, <1>2, <1>3 DEF ShapeAt, InMerge
<1>6. Shape'
  BY <1>1, <1>5 DEF Shape
<1> QED BY <1>3, <1>4, <1>6 DEF Held

(* main_Start establishes the list part.                                   *)
LEMMA StartHeld ==
    ASSUME Base, main_Start
    PROVE  Held'
<1> DEFINE N == Items
           sd == seed'[1]
           h == core_list_init(size, sd)
<1>1. pc = "start" /\ pc' = "pass" /\ heap' = h /\ ms' = Sort(1, "idx", "inits") /\ inp' = inp
  BY DEF main_Start
<1>2. size' = size /\ Items' = N
  BY <1>1 DEF size, Items
<1>3. size \in Nat /\ size >= 120 /\ sd \in Nat
  <2>1. inp \in Inputs /\ seed' = DefaultSeeds(inp.seed)
    BY DEF main_Start, Base, Env
  <2> QED BY <2>1, BuildFacts DEF size
<1>4. D0' = h.data
  BY <1>2 DEF D0
<1> HIDE DEF sd
<1>5. /\ N \in Nat /\ N >= 3 /\ h \in HeapsOf(N) /\ h.info = Identity(N)
      /\ \E arr \in Perms(N) : ListAt(h.next, arr, N, 1)
  BY <1>3, ListInitIs DEF Items
<1> HIDE DEF h
<1>6. HeapOK'
  BY <1>1, <1>2, <1>4, <1>5 DEF HeapOK
<1>7. PICK arr \in Perms(N) : ListAt(h.next, arr, N, 1)
  BY <1>5
<1>8. AtPass(heap'.next, arr, N, ms', Order(heap'.data, ms'.cmp))
  BY <1>1, <1>5, <1>7, FirstPass
<1>9. ~Rested'
  BY <1>1 DEF Rested
<1>10. ShapeAt(arr)'
  BY <1>1, <1>2, <1>8, <1>9 DEF ShapeAt, InMerge
<1>11. Shape'
  BY <1>2, <1>10 DEF Shape
<1> QED BY <1>6, <1>9, <1>11 DEF Held

(* The other steps of main keep it.                                        *)
LEMMA MainHeld ==
    ASSUME Base, Working, main_Inits \/ main_Trial \/ main_SetIterations \/ main_Validate
    PROVE  Held'
<1>1. [Next]_vars
  BY DEF Next, Main
<1>2. pc # "start" /\ Rested /\ Rested' /\ heap' = heap /\ list' = list
  BY DEF main_Inits, main_Trial, main_SetIterations, main_Validate, Rested
<1> QED BY <1>1, <1>2, RestToRest

(* A new iteration keeps it: the list is the one from home.                *)
LEMMA BenchHeld ==
    ASSUME Base, Working, iterate \/ Finish
    PROVE  Held'
<1>1. [Next]_vars
  BY DEF Next, ListOps
<1>2. pc # "start" /\ Rested /\ ~Preparing /\ heap' = heap
  BY DEF iterate, Finish, Rested, Preparing, Sorting
<1>3. list = home
  BY <1>2, HomeIs
<1>4. list' = list
  BY <1>3 DEF iterate, Finish, Bench
<1>5. Rested'
  BY DEF iterate, Finish, Bench, Rested
<1> QED BY <1>1, <1>2, <1>4, <1>5, RestToRest

(* A turn of the find loop keeps it.                                       *)
LEMMA FindTurnHeld ==
    ASSUME Base, Working, Find_Turn
    PROVE  Held'
<1> DEFINE N == Items
<1>1. [Next]_vars /\ pc = "find" /\ pc # "start" /\ pc' = "find"
  BY DEF Next, ListOps, Find_Turn
<1>2. HeapOK /\ heap.info = Identity(N)
  BY <1>1, ListOf DEF Working
<1>3. /\ heap' \in HeapsOf(N) /\ heap'.info = heap.info /\ heap'.data = heap.data
      /\ \E new \in Perms(N) : ListAt(heap'.next, new, N, list')
      /\ bl'.i = bl.i + 1
  BY FindTurnIs
<1>4. PICK new \in Perms(N) : ListAt(heap'.next, new, N, list')
  BY <1>3
<1>5. ~Rested'
  BY <1>1, <1>3 DEF Rested, Working, Numbers
<1>6. HeapOK'
  BY <1>1, <1>2, <1>3, SameKept, HeapOKStep
<1>7. Items' = N
  BY <1>1, Same
<1>8. ShapeAt(new)'
  BY <1>1, <1>4, <1>5, <1>7 DEF ShapeAt, InMerge
<1>9. Shape'
  BY <1>7, <1>8 DEF Shape
<1> QED BY <1>5, <1>6, <1>9 DEF Held

(* The end of the find loop keeps it.                                      *)
LEMMA FindEndHeld ==
    ASSUME Base, Working, Find_End
    PROVE  Held'
<1> DEFINE N == Items
<1>1. [Next]_vars /\ pc = "find" /\ pc # "start" /\ heap' = heap /\ list' = list
  BY DEF Next, ListOps, Find_End
<1>2. HeapOK /\ heap \in HeapsOf(N) /\ heap.info = Identity(N)
      /\ \E arr \in Perms(N) : ListAt(heap.next, arr, N, list)
  BY <1>1, ListOf DEF Working
<1>3. PICK arr \in Perms(N) : ListAt(heap.next, arr, N, list)
  BY <1>2
<1>4. N \in Nat
  BY <1>1, Prepared
<1>5. CASE bl.finder_idx > 0
  <2>1. pc' = "pass" /\ ms' = Sort(list, "complex", "remove")
    BY <1>5 DEF Find_End
  <2>2. AtPass(heap'.next, arr, N, ms', Order(heap'.data, ms'.cmp))
    BY <1>1, <1>3, <1>4, <2>1, FirstPass
  <2>3. Kept(N, heap.data, heap'.data)
    BY <1>1, SameKept
  <2> QED BY <1>1, <1>2, <2>1, <2>2, <2>3, SortHeld
<1>6. CASE ~(bl.finder_idx > 0)
  <2>1. pc' = "remove" /\ ms' = ms
    BY <1>6 DEF Find_End
  <2>2. ms.ret = "finish"
    BY <1>1, <1>6 DEF Base, Control
  <2>3. ~Rested' /\ pc' # "undo"
    BY <2>1 DEF Rested
  <2>4. HeapOK'
    BY <1>1, <1>2, SameKept, HeapOKStep
  <2>5. Items' = N
    BY <1>1, Same
  <2>6. ShapeAt(arr)'
    BY <1>1, <1>3, <2>1, <2>2, <2>3, <2>5 DEF ShapeAt, InMerge
  <2>7. Shape'
    BY <2>5, <2>6 DEF Shape
  <2> QED BY <2>3, <2>4, <2>7 DEF Held
<1> QED BY <1>5, <1>6

(* List_Remove keeps it.                                                   *)
LEMMA RemoveHeld ==
    ASSUME Base, Working, List_Remove
    PROVE  Held'
<1> DEFINE N == Items
<1>1. [Next]_vars /\ pc = "remove" /\ pc # "start" /\ pc' = "undo"
  BY DEF Next, ListOps, List_Remove
<1>2. HeapOK
  BY <1>1 DEF Working
<1>3. /\ heap' \in HeapsOf(N) /\ heap'.data = heap.data
      /\ \E new \in Perms(N) : RemovedAt(heap', new, N, list', bl'.remover)
  BY RemoveStepIs
<1>4. PICK new \in Perms(N) : RemovedAt(heap', new, N, list', bl'.remover)
  BY <1>3
<1>5. ~Rested'
  BY <1>1 DEF Rested
<1>6. HeapOK'
  BY <1>1, <1>2, <1>3, SameKept, HeapOKStep
<1>7. Items' = N
  BY <1>1, Same
<1>8. ShapeAt(new)'
  BY <1>1, <1>4, <1>5, <1>7 DEF ShapeAt, InMerge
<1>9. Shape'
  BY <1>7, <1>8 DEF Shape
<1> QED BY <1>5, <1>6, <1>9 DEF Held

(* List_Undo keeps it.                                                     *)
LEMMA UndoHeld ==
    ASSUME Base, Working, List_Undo
    PROVE  Held'
<1> DEFINE N == Items
<1>1. [Next]_vars /\ pc = "undo" /\ pc # "start" /\ pc' = "pass" /\ ms' = Sort(list, "idx", "finish") /\ list' = list
  BY DEF Next, ListOps, List_Undo
<1>2. HeapOK /\ N \in Nat
  BY <1>1, Prepared DEF Working
<1>3. /\ heap' \in HeapsOf(N) /\ heap'.data = heap.data /\ heap'.info = Identity(N)
      /\ \E new \in Perms(N) : ListAt(heap'.next, new, N, list')
  BY UndoStepIs
<1>4. PICK new \in Perms(N) : ListAt(heap'.next, new, N, list)
  BY <1>1, <1>3
<1>5. AtPass(heap'.next, new, N, ms', Order(heap'.data, ms'.cmp))
  BY <1>1, <1>2, <1>4, FirstPass
<1>6. Kept(N, heap.data, heap'.data)
  BY <1>3, SameKept
<1> QED BY <1>1, <1>2, <1>3, <1>5, <1>6, SortHeld

(* What the list part says in a sort.                                      *)
LEMMA InSort ==
    ASSUME Base, Working, pc \in {"pass", "merge", "element", "default", "matrix", "scan"}
    PROVE  /\ pc # "start" /\ HeapOK /\ heap \in HeapsOf(Items) /\ heap.info = Identity(Items)
           /\ heap.next \in [1 .. Items -> 0 .. Items] /\ heap.data \in [1 .. Items -> Data]
           /\ Items \in Nat /\ Items >= 3 /\ \E arr \in Perms(Items) : ShapeAt(arr)
<1>1. pc # "start" /\ HeapOK /\ Shape
  BY DEF Working
<1>2. Items \in Nat /\ Items >= 3
  BY <1>1, Prepared
<1>3. heap \in HeapsOf(Items) /\ heap.info = Identity(Items)
  BY <1>1 DEF HeapOK
<1>4. heap.next \in [1 .. Items -> 0 .. Items] /\ heap.data \in [1 .. Items -> Data]
  BY <1>3 DEF HeapsOf
<1> QED BY <1>1, <1>2, <1>3, <1>4 DEF Shape

(* The start of a pass keeps it.                                           *)
LEMMA PassStartHeld ==
    ASSUME Base, Working, Pass_Start
    PROVE  Held'
<1> DEFINE N == Items
           m == ms
           m2 == ms'
           R == Order(heap.data, ms.cmp)
<1>1. [Next]_vars /\ pc = "pass" /\ pc # "start" /\ pc' = "merge" /\ heap' = heap
  BY DEF Next, SortOps, Pass_Start
<1>2. /\ HeapOK /\ heap \in HeapsOf(N) /\ heap.info = Identity(N)
      /\ heap.next \in [1 .. N -> 0 .. N] /\ N \in Nat /\ N > 0 /\ \E arr \in Perms(N) : ShapeAt(arr)
  BY <1>1, InSort
<1>3. PICK arr \in Perms(N) : ShapeAt(arr)
  BY <1>2
<1>4. AtPass(heap.next, arr, N, m, R)
  BY <1>1, <1>3 DEF ShapeAt
<1>5. m2.p = m.list /\ m2.list = NULL /\ m2.tail = NULL /\ m2.nmerges = 0 /\ m2.insize = m.insize /\ m2.cmp = m.cmp
  BY DEF Pass_Start, Base, Fields
<1> HIDE DEF m, m2, R
<1>6. AtMerge(heap.next, arr, N, 0, m2, R)
  BY <1>2, <1>4, <1>5, PassStartIs
<1>7. AtMerge(heap'.next, arr, N, 0, ms', Order(heap'.data, ms'.cmp))
  BY <1>1, <1>5, <1>6 DEF m, m2, R
<1>8. 0 \in 0 .. N /\ Kept(N, heap.data, heap'.data)
  BY <1>1, <1>2, SameKept
<1> QED BY <1>1, <1>2, <1>7, <1>8, MergeHeld

(* The start of a merge keeps it.                                          *)
LEMMA MergeStartHeld ==
    ASSUME Base, Working, Merge_Start
    PROVE  Held'
<1> DEFINE N == Items
           m == ms
           m2 == ms'
           R == Order(heap.data, ms.cmp)
<1>1. [Next]_vars /\ pc = "merge" /\ pc # "start" /\ pc' = "element" /\ heap' = heap /\ m.p # NULL
  BY DEF Next, SortOps, Merge_Start
<1>2. /\ HeapOK /\ heap \in HeapsOf(N) /\ heap.info = Identity(N)
      /\ heap.next \in [1 .. N -> 0 .. N] /\ N \in Nat /\ N > 0 /\ \E arr \in Perms(N) : ShapeAt(arr)
  BY <1>1, InSort
<1>3. PICK arr \in Perms(N) : ShapeAt(arr)
  BY <1>2
<1>4. PICK a \in 0 .. N : AtMerge(heap.next, arr, N, a, m, R)
  BY <1>1, <1>3 DEF ShapeAt
<1>5. /\ m2.list = m.list /\ m2.tail = m.tail /\ m2.p = m.p /\ m2.insize = m.insize
      /\ m2.nmerges = m.nmerges + 1 /\ m2.qsize = m.insize
      /\ m2.psize = Len(Walk(heap.next, m.p, m.insize))
      /\ m2.q = heap.next[Last(Walk(heap.next, m.p, m.insize))] /\ m2.cmp = m.cmp
  BY DEF Merge_Start, Base, Fields
<1> HIDE DEF m, m2, R
<1>6. PICK b \in Nat : AtElement(heap.next, arr, N, a, b, a, m2, R)
  BY <1>1, <1>2, <1>4, <1>5, MergeStartIs
<1>7. b \in 0 .. N
  BY <1>6 DEF AtElement, Parts
<1>8. AtElement(heap'.next, arr, N, a, b, a, ms', Order(heap'.data, ms'.cmp))
  BY <1>1, <1>5, <1>6 DEF m, m2, R
<1>9. Kept(N, heap.data, heap'.data) /\ InMerge'
  BY <1>1, SameKept DEF InMerge
<1> QED BY <1>1, <1>2, <1>7, <1>8, <1>9, ElementHeld

(* An element of a merge keeps it.                                         *)
LEMMA MergeElementHeld ==
    ASSUME Base, Working, Merge_Element
    PROVE  Held'
<1> DEFINE N == Items
<1>1. [Next]_vars /\ pc = "element" /\ pc # "start" /\ pc' = "element"
  BY DEF Next, SortOps, Merge_Element
<1>2. HeapOK /\ heap.info = Identity(N)
  BY <1>1, InSort
<1>3. /\ heap' \in HeapsOf(N) /\ heap'.info = heap.info /\ Kept(N, heap.data, heap'.data) /\ ms'.cmp = ms.cmp
      /\ \E arr \in Perms(N) : \E a, b, s \in 0 .. N :
            AtElement(heap'.next, arr, N, a, b, s, ms', Order(heap'.data, ms.cmp))
  BY MergeElementIs DEF Kept
<1>4. PICK arr \in Perms(N) : \E a, b, s \in 0 .. N :
            AtElement(heap'.next, arr, N, a, b, s, ms', Order(heap'.data, ms'.cmp))
  BY <1>3
<1>5. PICK a \in 0 .. N, b \in 0 .. N, s \in 0 .. N :
            AtElement(heap'.next, arr, N, a, b, s, ms', Order(heap'.data, ms'.cmp))
  BY <1>4
<1>6. InMerge'
  BY <1>1 DEF InMerge
<1> QED BY <1>1, <1>2, <1>3, <1>5, <1>6, ElementHeld

(* The end of a merge keeps it.                                            *)
LEMMA MergeEndHeld ==
    ASSUME Base, Working, Merge_End
    PROVE  Held'
<1> DEFINE N == Items
           m == ms
           m2 == ms'
           R == Order(heap.data, ms.cmp)
<1>1. /\ [Next]_vars /\ pc = "element" /\ pc # "start" /\ pc' = "merge" /\ heap' = heap
      /\ m.psize = 0 /\ (m.qsize = 0 \/ m.q = NULL)
  BY DEF Next, SortOps, Merge_End, QEmpty
<1>2. /\ HeapOK /\ heap \in HeapsOf(N) /\ heap.info = Identity(N)
      /\ heap.next \in [1 .. N -> 0 .. N] /\ N \in Nat /\ N > 0 /\ \E arr \in Perms(N) : ShapeAt(arr)
  BY <1>1, InSort
<1>3. PICK arr \in Perms(N) : ShapeAt(arr)
  BY <1>2
<1>4. PICK a \in 0 .. N, b \in 0 .. N, s \in 0 .. N : AtElement(heap.next, arr, N, a, b, s, m, R)
  BY <1>1, <1>3 DEF ShapeAt, InMerge
<1>5. /\ m2.list = m.list /\ m2.tail = m.tail /\ m2.p = m.q /\ m2.insize = m.insize
      /\ m2.nmerges = m.nmerges /\ m2.cmp = m.cmp
  BY DEF Merge_End, Base, Fields
<1> HIDE DEF m, m2, R
<1>6. AtMerge(heap.next, arr, N, a, m2, R)
  BY <1>1, <1>2, <1>4, <1>5, MergeEndIs
<1>7. AtMerge(heap'.next, arr, N, a, ms', Order(heap'.data, ms'.cmp))
  BY <1>1, <1>5, <1>6 DEF m, m2, R
<1>8. Kept(N, heap.data, heap'.data)
  BY <1>1, SameKept
<1> QED BY <1>1, <1>2, <1>7, <1>8, MergeHeld

(* A sort by idx has rebuilt every datum it compared, and it compared      *)
(* every datum: the data are as core_list_init made them.                  *)
LEMMA Rebuild ==
    ASSUME NEW N \in Nat, NEW data \in [1 .. N -> Data], NEW data0 \in [1 .. N -> Fresh],
           Kept(N, data0, data), \A c \in 1 .. N : Touched("idx", data[c])
    PROVE  data = data0
<1> SUFFICES ASSUME NEW c \in 1 .. N PROVE data[c] = data0[c]
  OBVIOUS
<1> DEFINE d == data[c]
           e == data0[c]
<1>1. d \in Data /\ e \in Data /\ e.data16 = (e.data16 \div 256) * 257
  BY DEF Fresh
<1>2. Regen(d) = d /\ d.idx = e.idx /\ d.data16 \div 256 = e.data16 \div 256
  BY DEF Touched, Kept
<1> HIDE DEF d, e
<1>3. d.data16 = (d.data16 \div 256) * 257
  BY <1>1, <1>2, RegenIs
<1>4. d.data16 = e.data16
  BY <1>1, <1>2, <1>3
<1>5. d = [data16 |-> d.data16, idx |-> d.idx] /\ e = [data16 |-> e.data16, idx |-> e.idx]
  BY <1>1 DEF Data
<1> QED BY <1>2, <1>4, <1>5 DEF d, e

(* The end of a pass keeps the list part, also when it is the last pass    *)
(* and core_list_mergesort returns.                                        *)
LEMMA PassEndHeld ==
    ASSUME Base, Working, Pass_End
    PROVE  Held'
<1> DEFINE N == Items
           m == ms
           R == Order(heap.data, ms.cmp)
           nx == [heap.next EXCEPT ![m.tail] = NULL]
<1>1. [Next]_vars /\ pc = "merge" /\ pc # "start" /\ m.p = NULL
  BY DEF Next, SortOps, Pass_End
<1>2. /\ HeapOK /\ heap \in HeapsOf(N) /\ heap.info = Identity(N) /\ heap.data \in [1 .. N -> Data]
      /\ heap.next \in [1 .. N -> 0 .. N] /\ N \in Nat /\ N > 0 /\ N >= 2 /\ \E arr \in Perms(N) : ShapeAt(arr)
  BY <1>1, InSort
<1>3. PICK arr \in Perms(N) : ShapeAt(arr)
  BY <1>2
<1>4. PICK a \in 0 .. N : AtMerge(heap.next, arr, N, a, m, R)
  BY <1>1, <1>3 DEF ShapeAt
<1>5. heap' = [heap EXCEPT !.next = nx]
  BY DEF Pass_End
<1>6. heap = [next |-> heap.next, info |-> heap.info, data |-> heap.data]
  BY <1>2 DEF HeapsOf
<1>7. m.insize \in Nat /\ m.insize > 0
  BY <1>4 DEF AtMerge
<1> HIDE DEF m, R
<1>8. /\ nx \in [1 .. N -> 0 .. N] /\ ListAt(nx, arr, N, m.list) /\ Runs(arr, 1, N, m.insize * 2, R)
      /\ m.nmerges <= 1 => Ascending(arr, 1, N, R)
  BY <1>1, <1>2, <1>4, PassEndIs
<1> HIDE DEF nx
<1>9. heap'.next = nx /\ heap'.info = heap.info /\ heap'.data = heap.data
      /\ heap' = [next |-> nx, info |-> heap.info, data |-> heap.data]
  BY <1>5, <1>6
<1>10. heap' \in HeapsOf(N) /\ heap'.info = Identity(N)
  BY <1>2, <1>8, <1>9 DEF HeapsOf
<1>11. Kept(N, heap.data, heap'.data)
  BY <1>9, SameKept
<1>12. CASE m.nmerges > 1 \/ ~(m.nmerges <= 1)
  <2>1. pc' = "pass" /\ ms'.insize = m.insize * 2 /\ ms'.list = m.list /\ ms'.cmp = ms.cmp
    <3>1. ~(ms.nmerges <= 1)
      BY <1>4, <1>12 DEF AtMerge, m
    <3> QED BY <3>1 DEF Pass_End, Base, Fields, m
  <2> DEFINE w == m.insize * 2
  <2>2. w \in Nat /\ w > 0
    BY <1>7
  <2>3. AtPass(heap'.next, arr, N, ms', R)
    <3> HIDE DEF w
    <3>1. Runs(arr, 1, N, w, R) /\ ms'.insize = w
      BY <1>8, <2>1 DEF w
    <3> QED BY <1>8, <1>9, <2>1, <2>2, <3>1 DEF AtPass
  <2>4. R = Order(heap'.data, ms'.cmp)
    BY <1>9, <2>1 DEF R
  <2> QED BY <1>1, <1>2, <1>10, <1>11, <2>1, <2>3, <2>4, SortHeld
<1>13. CASE m.nmerges <= 1
  <2>1. pc' = ms.ret /\ list' = m.list /\ ms' = ms
    BY <1>13 DEF Pass_End, m
  <2>2. ListAt(heap'.next, arr, N, list') /\ Ascending(arr, 1, N, R)
    BY <1>8, <1>9, <1>13, <2>1
  <2>3. ms.ret \in {"inits", "remove", "finish"} /\ ms.cmp = IF ms.ret = "remove" THEN "complex" ELSE "idx"
    BY DEF Base, Control
  <2>4. CASE ms.ret = "remove"
    <3>1. pc' = "remove" /\ ~Rested' /\ pc' # "undo" /\ R = Order(heap'.data, "complex")
      BY <1>9, <2>1, <2>3, <2>4 DEF Rested, R
    <3>2. HeapOK'
      BY <1>1, <1>2, <1>10, <1>11, HeapOKStep
    <3>3. Items' = N
      BY <1>1, Same
    <3>4. ShapeAt(arr)'
      BY <2>2, <3>1, <3>3 DEF ShapeAt, InMerge
    <3>5. Shape'
      BY <3>3, <3>4 DEF Shape
    <3> QED BY <3>1, <3>2, <3>5 DEF Held
  <2>5. CASE ms.ret # "remove"
    <3>1. Rested' /\ ms.cmp = "idx"
      BY <2>1, <2>3, <2>5 DEF Rested
    <3>2. Ascending(arr, 1, N, Order(heap.data, "idx"))
      BY <2>2, <3>1 DEF R
    <3>3. \A c \in 1 .. N : Touched("idx", heap.data[c])
      BY <1>2, <3>2, AscendingTouched
    <3>4. Kept(N, D0, heap.data) /\ D0 \in [1 .. N -> Fresh]
      BY <1>1, <1>2, Prepared DEF HeapOK, Kept
    <3>5. heap.data = D0
      BY <1>2, <3>3, <3>4, Rebuild
    <3> QED BY <1>1, <1>2, <1>9, <1>10, <2>2, <3>1, <3>2, <3>5, RestHeld
  <2> QED BY <2>4, <2>5
<1>14. m.nmerges \in Nat
  BY <1>4 DEF AtMerge
<1> QED BY <1>12, <1>13, <1>14

(* A step of calc_func that leaves the heap alone keeps it.                *)
LEMMA StillHeld ==
    ASSUME Base, Working, [Next]_vars, InMerge, InMerge', heap' = heap, ms' = ms
    PROVE  Held'
<1> DEFINE N == Items
<1>1. pc \in {"pass", "merge", "element", "default", "matrix", "scan"}
  BY DEF InMerge
<1>2. /\ pc # "start" /\ HeapOK /\ heap \in HeapsOf(N) /\ heap.info = Identity(N) /\ \E arr \in Perms(N) : ShapeAt(arr)
  BY <1>1, InSort
<1>3. PICK arr \in Perms(N) : \E a, b, s \in 0 .. N :
            AtElement(heap.next, arr, N, a, b, s, ms, Order(heap.data, ms.cmp))
  BY <1>2 DEF ShapeAt
<1>4. PICK a \in 0 .. N, b \in 0 .. N, s \in 0 .. N :
            AtElement(heap.next, arr, N, a, b, s, ms, Order(heap.data, ms.cmp))
  BY <1>3
<1>5. AtElement(heap'.next, arr, N, a, b, s, ms', Order(heap'.data, ms'.cmp))
  BY <1>4
<1>6. Kept(N, heap.data, heap'.data)
  BY SameKept
<1> QED BY <1>2, <1>5, <1>6, ElementHeld

(* A result that is cached while the sort runs keeps it: no pair that was  *)
(* compared has it.                                                        *)
LEMMA ReturnHeld ==
    ASSUME Base, Working, [Next]_vars, Calculating, ms' = ms, NEW r, NEW retval \in Int, Return(r, retval)
    PROVE  Held'
<1> DEFINE N == Items
           c == ca.c
           d2 == [heap.data EXCEPT ![c] = Cache(@, retval)]
<1>1. pc \in {"pass", "merge", "element", "default", "matrix", "scan"} /\ InMerge /\ ms.cmp = "complex"
  BY DEF Calculating, InMerge, Base, Control
<1>2. /\ pc # "start" /\ HeapOK /\ heap \in HeapsOf(N) /\ heap.info = Identity(N) /\ heap.data \in [1 .. N -> Data]
      /\ N \in Nat /\ \E arr \in Perms(N) : ShapeAt(arr)
  BY <1>1, InSort
<1>3. PICK arr \in Perms(N) : \E a, b, s \in 0 .. N :
            AtElement(heap.next, arr, N, a, b, s, ms, Order(heap.data, ms.cmp))
  BY <1>1, <1>2 DEF ShapeAt
<1>4. PICK a \in 0 .. N, b \in 0 .. N, s \in 0 .. N :
            AtElement(heap.next, arr, N, a, b, s, ms, Order(heap.data, ms.cmp))
  BY <1>3
<1>5. c \in 1 .. N /\ ~Cached(heap.data[c])
  BY DEF Working, Call
<1>6. pc' = "element" /\ heap' = [heap EXCEPT !.data = d2]
  BY DEF Return
<1> HIDE DEF c
<1>7. heap = [next |-> heap.next, info |-> heap.info, data |-> heap.data]
  BY <1>2 DEF HeapsOf
<1> DEFINE x == Cache(heap.data[c], retval)
<1>8. x \in Data /\ x.idx = heap.data[c].idx /\ x.data16 \div 256 = heap.data[c].data16 \div 256
  BY <1>2, <1>5, CacheIs, ZenonT(40)
<1>9. d2 = [heap.data EXCEPT ![c] = x]
  OBVIOUS
<1> HIDE DEF x, d2
<1>10. /\ d2 \in [1 .. N -> Data]
       /\ \A e \in 1 .. N : d2[e] = IF e = c THEN x ELSE heap.data[e]
  BY <1>2, <1>5, <1>8, <1>9
<1>11. Kept(N, heap.data, d2)
  BY <1>8, <1>10 DEF Kept
<1>12. Grows(Order(heap.data, "complex"), Order(d2, "complex"), N)
  <2>1. \A e \in 1 .. N : d2[e] = heap.data[e] \/ ~Cached(heap.data[e])
    BY <1>5, <1>10
  <2> QED BY <1>2, <1>10, <2>1, OrderCache
<1>13. heap'.next = heap.next /\ heap'.info = heap.info /\ heap'.data = d2
       /\ heap' = [next |-> heap.next, info |-> heap.info, data |-> d2]
  BY <1>6, <1>7
<1>14. heap' \in HeapsOf(N)
  BY <1>2, <1>10, <1>13 DEF HeapsOf
<1> DEFINE R == Order(heap.data, "complex")
           R2 == Order(d2, "complex")
           m == ms
           nx == heap.next
<1> HIDE DEF R, R2, m, nx
<1>15. AtElement(nx, arr, N, a, b, s, m, R) /\ Grows(R, R2, N)
  BY <1>1, <1>4, <1>12 DEF R, R2, m, nx
<1>16. AtElement(nx, arr, N, a, b, s, m, R2)
  BY <1>2, <1>15, AtElementGrows
<1>17. AtElement(heap'.next, arr, N, a, b, s, ms', Order(heap'.data, ms'.cmp))
  BY <1>1, <1>13, <1>16 DEF R2, m, nx
<1>18. InMerge' /\ Kept(N, heap.data, heap'.data)
  BY <1>6, <1>11, <1>13 DEF InMerge
<1> QED BY <1>2, <1>13, <1>14, <1>17, <1>18, ElementHeld

(* Every step of calc_func keeps it.                                       *)
LEMMA CalcHeld ==
    ASSUME Base, Working, CalcOps
    PROVE  Held'
<1>0. [Next]_vars
  BY DEF Next
<1>1. CASE calc_func \/ matrix_Step \/ state_Token \/ state_Corrupt
  <2>1. UNCHANGED <<heap, ms>> /\ InMerge /\ InMerge'
    BY <1>1 DEF calc_func, matrix_Step, state_Token, state_Corrupt, InMerge
  <2> QED BY <1>0, <2>1, StillHeld
<1>2. CASE calc_Default
  <2> DEFINE v == heap.data[ca.c].data16
  <2>1. pc = "default" /\ Calculating /\ ms' = ms /\ Return(res, v)
    BY <1>2 DEF calc_Default, Calculating
  <2>2. ca.c \in 1 .. Items /\ heap.data \in [1 .. Items -> Data]
    BY <2>1, InSort DEF Working, Call
  <2>3. heap.data[ca.c] \in Data
    BY <2>2
  <2>4. v \in Int
    BY <2>3 DEF Data, Words
  <2> HIDE DEF v
  <2> QED BY <1>0, <2>1, <2>4, ReturnHeld
<1>3. CASE matrix_Return
  <2> DEFINE v == crc16(ca.crc, res.crc)
             r == [res EXCEPT !.crcmatrix = IF @ = 0 THEN v ELSE @]
  <2>1. pc = "matrix" /\ Calculating /\ ms' = ms /\ Return(r, v)
    BY <1>3 DEF matrix_Return, Calculating
  <2>2. ca.crc \in Words /\ res.crc \in Words
    BY <2>1 DEF Working, Call, Numbers
  <2>3. ca.crc \in Int
    BY <2>2 DEF Words
  <2>4. v \in Words
    BY <2>2, <2>3, CrcType
  <2>5. v \in Int
    BY <2>4 DEF Words
  <2> HIDE DEF v, r
  <2> QED BY <1>0, <2>1, <2>5, ReturnHeld
<1>4. CASE state_Return
  <2> DEFINE v == state_crc(ca.final, ca.track, res.crc)
             r == [res EXCEPT !.crcstate = IF @ = 0 THEN v ELSE @]
  <2>1. pc = "scan" /\ Calculating /\ ms' = ms /\ Return(r, v)
    BY <1>4 DEF state_Return, Calculating
  <2>2. v \in Words
    BY <1>4, StateReturnIs
  <2>3. v \in Int
    BY <2>2 DEF Words
  <2> HIDE DEF v, r
  <2> QED BY <1>0, <2>1, <2>3, ReturnHeld
<1> QED BY <1>1, <1>2, <1>3, <1>4 DEF CalcOps

(* Every step keeps the list part.                                         *)
LEMMA HeldStep == ASSUME Base, Working, [Next]_vars, pc' # "start" PROVE Held'
<1>1. CASE Main
  BY <1>1, StartHeld, MainHeld DEF Main
<1>2. CASE ListOps
  BY <1>2, BenchHeld, FindTurnHeld, FindEndHeld, RemoveHeld, UndoHeld DEF ListOps
<1>3. CASE SortOps
  BY <1>3, PassStartHeld, MergeStartHeld, MergeElementHeld, MergeEndHeld, PassEndHeld DEF SortOps
<1>4. CASE CalcOps
  BY <1>4, CalcHeld
<1>5. CASE UNCHANGED vars
  <2>1. pc # "start"
    BY <1>5 DEF vars
  <2>2. Items' = Items /\ D0' = D0
    BY <2>1, Same
  <2>3. HeapOK /\ Shape /\ (Rested => heap.data = D0)
    BY <2>1 DEF Working
  <2>4. HeapOK'
    BY <1>5, <2>2, <2>3 DEF vars, HeapOK
  <2>5. PICK arr \in Perms(Items) : ShapeAt(arr)
    BY <2>3 DEF Shape
  <2>6. ShapeAt(arr)'
    BY <1>5, <2>2, <2>5 DEF vars, ShapeAt, InMerge, Rested
  <2>7. Shape'
    BY <2>2, <2>6 DEF Shape
  <2>8. Rested' => heap'.data = D0'
    BY <1>5, <2>2, <2>3 DEF vars, Rested
  <2> QED BY <2>4, <2>7, <2>8 DEF Held
<1> QED BY <1>1, <1>2, <1>3, <1>4, <1>5 DEF Next, Halt

(* Every step keeps home.                                                  *)
LEMMA HomeStep == ASSUME Base, Working, [Next]_vars, ~Preparing' PROVE Home'
<1> DEFINE N == Items
<1>1. CASE main_Inits
  <2>1. pc = "inits" /\ pc # "start" /\ Rested /\ home' = list
    BY <1>1 DEF main_Inits, Rested
  <2>2. Items' = N /\ D0' = D0
    BY <2>1, Same
  <2>3. N \in Nat /\ N >= 3 /\ N >= 2 /\ D0 \in [1 .. N -> Data]
    BY <2>1, Prepared
  <2>4. PICK arr \in Perms(N) : ListAt(heap.next, arr, N, list) /\ Ascending(arr, 1, N, Order(D0, "idx"))
    BY <2>1, AtRest
  <2>5. \A c \in 1 .. N : D0[arr[1]].idx <= D0[c].idx
    BY <2>3, <2>4, AscendingFirst
  <2>6. list = arr[1] /\ list \in 1 .. N
    BY <2>3, <2>4, PermFacts DEF ListAt
  <2> QED BY <2>1, <2>2, <2>5, <2>6 DEF Home
<1>2. CASE ~main_Inits
  <2>1. ~Preparing /\ pc # "start" /\ Home
    BY <1>2, WasReady DEF Working
  <2>2. Items' = N /\ D0' = D0
    BY <2>1, Same
  <2>3. home' = home
    BY <1>2, <2>1 DEF Next, Main, ListOps, SortOps, CalcOps, Halt, vars, main_Start, main_Trial,
       main_SetIterations, main_Validate, iterate, Find_Turn, Find_End, List_Remove, List_Undo, Finish,
       Pass_Start, Merge_Start, Merge_Element, Merge_End, Pass_End, calc_func, calc_Default, matrix_Step,
       matrix_Return, state_Token, state_Corrupt, state_Return
  <2> QED BY <2>1, <2>2, <2>3 DEF Home
<1> QED BY <1>1, <1>2

(* The invariant holds at the start of main.                               *)
LEMMA WorkingInit == Init => Working
BY ZeroIsWord DEF Init, Working, Numbers, Rested, Preparing, Calculating

(* The invariant is inductive.                                             *)
LEMMA WorkingStep == Base /\ Working /\ [Next]_vars => Working'
<1> SUFFICES ASSUME Base, Working, [Next]_vars PROVE Working'
  OBVIOUS
<1>1. Numbers'
  BY NumbersStep
<1>2. pc' # "start" => HeapOK' /\ Shape' /\ (Rested' => heap'.data = D0')
  BY HeldStep DEF Held
<1>3. Rested' => pc' # "start"
  BY DEF Rested
<1>4. ~Preparing' => Home' /\ Matrix' /\ Text'
  BY HomeStep, MatrixStep, TextStep
<1>5. Calculating' => Call'
  BY CallStep
<1> QED BY <1>1, <1>2, <1>3, <1>4, <1>5 DEF Working

(* It holds in every state.                                                *)
LEMMA Invariant == Spec => [](Base /\ Working)
<1>1. Init => Base /\ Working
  BY BaseInit, WorkingInit
<1>2. Base /\ Working /\ [Next]_vars => (Base /\ Working)'
  BY BaseStep, WorkingStep
<1> QED BY <1>1, <1>2, PTL DEF Spec

---------------------------------------------------------------------------
(* The properties.                                                         *)

(* The merged part, while a merge is under way: the first a cells.         *)
LEMMA MergedIs ==
    ASSUME NEW N \in Nat, heap \in HeapsOf(N), NEW arr \in Perms(N), NEW a, NEW b,
           Parts(heap.next, arr, N, a, b, ms)
    PROVE  Merged = Segment(arr, 1, a)
<1>1. /\ arr \in [1 .. N -> 1 .. N] /\ \A i, j \in 1 .. N : arr[i] = arr[j] => i = j
  BY PermFacts
<1>2. a \in 0 .. N /\ ms.list = (IF a = 0 THEN NULL ELSE arr[1]) /\ ms.tail = (IF a = 0 THEN NULL ELSE arr[a])
      /\ Linked(heap.next, arr, 1, a)
  BY DEF Parts
<1>3. CASE a = 0
  <2>1. Segment(arr, 1, a) = << >>
    BY <1>3 DEF Segment
  <2> QED BY <1>2, <1>3, <2>1 DEF Merged
<1>4. CASE a > 0
  <2> DEFINE nx == [heap.next EXCEPT ![arr[a]] = NULL]
             h2 == [heap EXCEPT !.next[ms.tail] = NULL]
  <2>1. a \in 1 .. N /\ arr[a] \in 1 .. N
    BY <1>1, <1>2, <1>4
  <2>2. heap.next \in [1 .. N -> 0 .. N]
    BY DEF HeapsOf
  <2>3. nx \in [1 .. N -> 0 .. N] /\ nx[arr[a]] = NULL
    BY <2>1, <2>2 DEF NULL
  <2>4. h2.next = nx
    BY <1>2, <1>4 DEF HeapsOf
  <2>5. ms.tail # NULL /\ ms.list = arr[1]
    BY <1>2, <1>4, <2>1 DEF NULL
  <2>6. Linked(nx, arr, 1, a)
    <3> SUFFICES ASSUME NEW k \in 1 .. (a - 1) PROVE nx[arr[k]] = arr[k + 1]
      BY DEF Linked
    <3>1. k \in 1 .. N /\ k # a
      BY <2>1
    <3>2. arr[k] # arr[a] /\ arr[k] \in 1 .. N
      BY <1>1, <2>1, <3>1
    <3>3. heap.next[arr[k]] = arr[k + 1]
      BY <1>2 DEF Linked
    <3> QED BY <2>2, <3>2, <3>3
  <2>7. Len(nx) = N
    BY <2>3, SegmentIsSeq
  <2> HIDE DEF nx
  <2>8. Walk(nx, arr[1], N + 1) = Segment(arr, 1, a)
    <3> DEFINE lo == 1
               n == N + 1
               p == arr[1]
    <3>1. /\ lo \in 1 .. (N + 1) /\ a \in (lo - 1) .. N /\ n \in Nat /\ n >= a + 1 - lo
          /\ p = (IF a < lo THEN NULL ELSE arr[lo]) /\ Linked(nx, arr, lo, a)
      BY <2>1, <2>6
    <3>a. n = a + 1 - lo \/ (n >= a + 1 - lo /\ (a < lo \/ nx[arr[a]] = NULL))
      BY <2>3, <3>1
    <3>b. p = (IF a < lo THEN NULL ELSE arr[lo])
      BY <3>1
    <3> HIDE DEF lo, n, p
    <3>2. Walk(nx, p, n) = Segment(arr, lo, a)
      <4>1. Along(nx, N, arr, lo, a, p, n)
        BY <1>1, <2>3, <3>1, <3>a, <3>b DEF Along
      <4> QED BY <4>1, WalkSegment
    <3> QED BY <3>2 DEF lo, n, p
  <2>9. Merged = Chain(h2, arr[1])
    BY <2>5 DEF Merged
  <2> HIDE DEF h2
  <2> QED BY <2>4, <2>7, <2>8, <2>9 DEF Chain
<1> QED BY <1>2, <1>3, <1>4

(* The rest of the list, from place lo on.                                 *)
LEMMA RestIs ==
    ASSUME NEW N \in Nat, heap \in HeapsOf(N), NEW arr \in Perms(N), NEW lo \in 1 .. (N + 1),
           Linked(heap.next, arr, lo, N), lo <= N => heap.next[arr[N]] = NULL,
           NEW p, p = IF lo = N + 1 THEN NULL ELSE arr[lo]
    PROVE  Chain(heap, p) = Segment(arr, lo, N)
<1>1. arr \in [1 .. N -> 1 .. N]
  BY PermFacts
<1>2. heap.next \in [1 .. N -> 0 .. N]
  BY DEF HeapsOf
<1>3. Len(heap.next) = N
  BY <1>2, SegmentIsSeq
<1> DEFINE n == N + 1
           hi == N
<1>4. hi \in (lo - 1) .. N /\ n \in Nat /\ n >= hi + 1 - lo
  OBVIOUS
<1>5. p = IF hi < lo THEN NULL ELSE arr[lo]
  OBVIOUS
<1>6. (hi < lo \/ heap.next[arr[hi]] = NULL) /\ Linked(heap.next, arr, lo, hi)
  OBVIOUS
<1> DEFINE nx == heap.next
<1>7. nx \in [1 .. N -> 0 .. N] /\ Linked(nx, arr, lo, hi)
  BY <1>2, <1>6
<1>8. n = hi + 1 - lo \/ (n >= hi + 1 - lo /\ (hi < lo \/ nx[arr[hi]] = NULL))
  BY <1>4, <1>6
<1> HIDE DEF n, hi, nx
<1>9. Walk(nx, p, n) = Segment(arr, lo, hi)
  <2>1. Along(nx, N, arr, lo, hi, p, n)
    BY <1>1, <1>4, <1>5, <1>7, <1>8 DEF Along
  <2> QED BY <2>1, WalkSegment
<1> QED BY <1>3, <1>9 DEF Chain, n, hi, nx

(* Whatever next pointers are stale, the cells are those of arr.           *)
LEMMA AllCellsAre ==
    ASSUME Base, Working, pc # "start", NEW arr \in Perms(Items), ShapeAt(arr)
    PROVE  AllCells = arr
<1> DEFINE N == Items
<1>1. N \in Nat /\ N >= 3 /\ heap \in HeapsOf(N)
  BY Prepared DEF Working, HeapOK
<1>2. arr \in [1 .. N -> 1 .. N]
  BY <1>1, PermFacts
<1>3. heap.next \in [1 .. N -> 0 .. N]
  BY <1>1 DEF HeapsOf
<1>4. \A l : ListAt(heap.next, arr, N, l) => Chain(heap, l) = arr
  BY <1>1, <1>3, ChainIs
<1>5. CASE pc = "pass"
  <2>1. ListAt(heap.next, arr, N, ms.list)
    BY <1>5 DEF ShapeAt, AtPass
  <2>2. AllCells = Chain(heap, ms.list)
    BY <1>5 DEF AllCells, InMerge
  <2> QED BY <1>4, <2>1, <2>2
<1>6. CASE pc = "merge"
  <2>1. PICK a \in 0 .. N : AtMerge(heap.next, arr, N, a, ms, Order(heap.data, ms.cmp))
    BY <1>6 DEF ShapeAt
  <2>2. Parts(heap.next, arr, N, a, a, ms) /\ ms.p = IF a = N THEN NULL ELSE arr[a + 1]
    BY <2>1 DEF AtMerge
  <2>3. Linked(heap.next, arr, a + 1, N) /\ (a < N => heap.next[arr[N]] = NULL)
    BY <2>2 DEF Parts
  <2>4. Merged = Segment(arr, 1, a)
    BY <1>1, <2>2, MergedIs
  <2> DEFINE lo == a + 1
             p == ms.p
  <2>5. lo \in 1 .. (N + 1) /\ (lo <= N => heap.next[arr[N]] = NULL) /\ Linked(heap.next, arr, lo, N)
    BY <1>1, <2>3
  <2>6. p = IF lo = N + 1 THEN NULL ELSE arr[lo]
    BY <1>1, <2>2
  <2> HIDE DEF lo, p
  <2>7. Chain(heap, p) = Segment(arr, lo, N)
    BY <1>1, <2>5, <2>6, RestIs
  <2>8. Segment(arr, 1, a) \o Segment(arr, a + 1, N) = Segment(arr, 1, N)
    <3> DEFINE one == 1
    <3>1. one \in 1 .. (N + 1) /\ a \in (one - 1) .. N /\ N \in a .. N
      BY <1>1
    <3> HIDE DEF one
    <3>2. Segment(arr, one, a) \o Segment(arr, a + 1, N) = Segment(arr, one, N)
      BY <1>1, <1>2, <3>1, JoinSegments
    <3> QED BY <3>2 DEF one
  <2>9. Segment(arr, 1, N) = arr
    BY <1>1, <1>2, WholeSegment
  <2>10. AllCells = Merged \o Chain(heap, ms.p)
    BY <1>6 DEF AllCells, InMerge
  <2> QED BY <2>4, <2>7, <2>8, <2>9, <2>10 DEF lo, p
<1>7. CASE InMerge
  <2>1. PICK a \in 0 .. N, b \in 0 .. N, s \in 0 .. N :
            AtElement(heap.next, arr, N, a, b, s, ms, Order(heap.data, ms.cmp))
    BY <1>7 DEF ShapeAt
  <2>2. /\ Parts(heap.next, arr, N, a, b, ms) /\ ms.psize = b - a /\ (b > a => ms.p = arr[a + 1])
        /\ ms.q = IF b = N THEN NULL ELSE arr[b + 1]
    BY <2>1 DEF AtElement, Sizes
  <2>3. /\ Linked(heap.next, arr, a + 1, b) /\ Linked(heap.next, arr, b + 1, N)
        /\ (b < N => heap.next[arr[N]] = NULL) /\ b \in a .. N
    BY <2>2 DEF Parts
  <2>4. Merged = Segment(arr, 1, a)
    BY <1>1, <2>2, MergedIs
  <2> DEFINE lo == b + 1
             q == ms.q
  <2>5. lo \in 1 .. (N + 1) /\ (lo <= N => heap.next[arr[N]] = NULL) /\ Linked(heap.next, arr, lo, N)
    BY <1>1, <2>3
  <2>6. q = IF lo = N + 1 THEN NULL ELSE arr[lo]
    BY <1>1, <2>2
  <2> HIDE DEF lo, q
  <2>7. Chain(heap, q) = Segment(arr, lo, N)
    BY <1>1, <2>5, <2>6, RestIs
  <2>8. Walk(heap.next, ms.p, ms.psize) = Segment(arr, a + 1, b)
    <3>1. CASE b > a
      <4> DEFINE nx == heap.next
                 lo1 == a + 1
                 p == ms.p
                 n == ms.psize
      <4>1. lo1 \in 1 .. (N + 1) /\ b \in (lo1 - 1) .. N /\ ~(b < lo1) /\ n = b + 1 - lo1 /\ n \in Nat
        BY <1>1, <2>2, <2>3, <3>1
      <4>2. nx \in [1 .. N -> 0 .. N] /\ Linked(nx, arr, lo1, b) /\ p = arr[lo1]
        BY <1>3, <2>2, <2>3, <3>1
      <4> HIDE DEF nx, lo1, p, n
      <4>3. Along(nx, N, arr, lo1, b, p, n)
        BY <1>1, <1>2, <4>1, <4>2 DEF Along
      <4>4. Walk(nx, p, n) = Segment(arr, lo1, b)
        BY <4>3, WalkSegment
      <4> QED BY <4>4 DEF nx, lo1, p, n
    <3>2. CASE b = a
      <4>1. ms.psize = 0
        BY <2>2, <3>2
      <4>2. Segment(arr, a + 1, b) = << >>
        <5>1. b + 1 - (a + 1) = 0
          BY <3>2
        <5> QED BY <5>1 DEF Segment
      <4> QED BY <4>1, <4>2, WalkZero
    <3> QED BY <2>3, <3>1, <3>2
  <2>9. (Segment(arr, 1, a) \o Segment(arr, a + 1, b)) \o Segment(arr, b + 1, N) = Segment(arr, 1, N)
    <3> DEFINE one == 1
    <3>1. one \in 1 .. (N + 1) /\ a \in (one - 1) .. N /\ b \in a .. N /\ b \in (one - 1) .. N /\ N \in b .. N
      BY <1>1, <2>3
    <3> HIDE DEF one
    <3>2. Segment(arr, one, a) \o Segment(arr, a + 1, b) = Segment(arr, one, b)
      BY <1>1, <1>2, <3>1, JoinSegments
    <3>3. Segment(arr, one, b) \o Segment(arr, b + 1, N) = Segment(arr, one, N)
      BY <1>1, <1>2, <3>1, JoinSegments
    <3> QED BY <3>2, <3>3 DEF one
  <2>10. Segment(arr, 1, N) = arr
    BY <1>1, <1>2, WholeSegment
  <2>12. AllCells = (Merged \o Walk(heap.next, ms.p, ms.psize)) \o Chain(heap, ms.q)
    BY <1>7 DEF AllCells, InMerge
  <2> QED BY <2>4, <2>7, <2>8, <2>9, <2>10, <2>12 DEF lo, q
<1>8. CASE pc = "undo"
  <2>1. RemovedAt(heap, arr, N, list, bl.remover)
    BY <1>8 DEF ShapeAt
  <2> DEFINE nx == heap.next
             one == 1
             hi == N - 1
             n == N + 1
             l == list
  <2>2. l = arr[1] /\ Linked(nx, arr, one, hi) /\ nx[arr[hi]] = NULL /\ bl.remover = arr[N]
    BY <2>1 DEF RemovedAt
  <2>3. /\ one \in 1 .. (N + 1) /\ hi \in (one - 1) .. N /\ ~(hi < one) /\ n >= hi + 1 - one /\ n \in Nat
        /\ l = arr[one] /\ nx \in [1 .. N -> 0 .. N]
    BY <1>1, <1>3, <2>2
  <2>4. Len(nx) = N
    BY <1>1, <1>3, SegmentIsSeq
  <2> HIDE DEF nx, one, hi, n, l
  <2>5. Along(nx, N, arr, one, hi, l, n)
    BY <1>1, <1>2, <2>2, <2>3 DEF Along
  <2>6. Walk(nx, l, n) = Segment(arr, one, hi)
    BY <2>5, WalkSegment
  <2>7. Chain(heap, list) = Segment(arr, 1, hi)
    BY <2>4, <2>6 DEF Chain, nx, one, n, l
  <2>8. Segment(arr, one, hi) \o Segment(arr, hi + 1, N) = Segment(arr, one, N)
    <3>1. N \in hi .. N
      BY <1>1 DEF hi
    <3> QED BY <1>1, <1>2, <2>3, <3>1, JoinSegments
  <2>9. Segment(arr, hi + 1, N) = <<arr[N]>>
    <3>1. hi + 1 = N /\ N + 1 - N = 1
      BY <1>1 DEF hi
    <3>2. Segment(arr, N, N) = [j \in 1 .. 1 |-> arr[N + j - 1]]
      BY <3>1 DEF Segment
    <3>3. arr[N + 1 - 1] = arr[N]
      BY <1>1
    <3>4. Segment(arr, N, N) = <<arr[N]>>
      BY <3>2, <3>3
    <3> QED BY <3>1, <3>4
  <2>10. Segment(arr, 1, N) = arr
    BY <1>1, <1>2, WholeSegment
  <2>11. AllCells = Chain(heap, list) \o <<bl.remover>>
    BY <1>8 DEF AllCells, InMerge
  <2> QED BY <2>2, <2>7, <2>8, <2>9, <2>10, <2>11 DEF one
<1>9. CASE pc \notin {"pass", "merge", "undo"} /\ ~InMerge
  <2>1. Rested \/ pc \in {"find", "remove"}
    BY <1>9 DEF Base, Control, Sorting, Calculating, InMerge, Rested
  <2>2. ListAt(heap.next, arr, N, list)
    BY <2>1 DEF ShapeAt
  <2> QED BY <1>4, <1>9, <2>2 DEF AllCells
<1> QED BY <1>5, <1>6, <1>7, <1>8, <1>9

(* The in-place reversal, moves, removal and merge sort of                 *)
(* core_list_join.c never lose a cell, reach one twice or tie the list     *)
(* into a loop, and no two cells share a datum, for a list of any length.  *)
THEOREM NoCellLostTheorem == Spec => []NoCellLost
<1>1. Base /\ Working => NoCellLost
  <2> SUFFICES ASSUME Base, Working, pc # "start"
               PROVE  /\ Len(AllCells) = Len(heap.next)
                      /\ ToSet(AllCells) = Cells(heap)
                      /\ {heap.info[c] : c \in Cells(heap)} = DOMAIN heap.data
    BY DEF NoCellLost
  <2> DEFINE N == Items
  <2>1. N \in Nat /\ N >= 3 /\ HeapOK /\ heap \in HeapsOf(N)
    BY Prepared DEF Working, HeapOK
  <2>2. PICK arr \in Perms(N) : ShapeAt(arr)
    BY DEF Working, Shape
  <2>3. AllCells = arr
    BY <2>2, AllCellsAre
  <2>4. /\ arr \in [1 .. N -> 1 .. N] /\ DOMAIN arr = 1 .. N /\ Len(arr) = N
        /\ \A c \in 1 .. N : \E i \in 1 .. N : arr[i] = c
        /\ \A i, j \in 1 .. N : arr[i] = arr[j] => i = j
    BY <2>1, PermFacts
  <2>5. /\ heap.next \in [1 .. N -> 0 .. N] /\ heap.info \in [1 .. N -> 1 .. N] /\ DOMAIN heap.data = 1 .. N
    BY <2>1 DEF HeapsOf
  <2>6. Len(heap.next) = N /\ Cells(heap) = 1 .. N
    BY <2>1, <2>5, SegmentIsSeq DEF Cells
  <2>7. ToSet(arr) = 1 .. N
    <3>1. ToSet(arr) = {arr[i] : i \in 1 .. N}
      BY <2>4 DEF ToSet
    <3>2. \A c : c \in {arr[i] : i \in 1 .. N} <=> c \in 1 .. N
      BY <2>4, ZenonT(40)
    <3> QED BY <3>1, <3>2
  <2>8. \A d \in 1 .. N : \E c \in 1 .. N : heap.info[c] = d
    <3>1. CASE pc # "undo"
      <4>1. heap.info = Identity(N)
        BY <2>1, <3>1 DEF HeapOK
      <4> QED BY <4>1 DEF Identity
    <3>2. CASE pc = "undo"
      <4> DEFINE u == arr[2]
                 r == bl.remover
      <4>1. heap.info = [Identity(N) EXCEPT ![u] = r, ![r] = u] /\ r = arr[N]
        BY <2>2, <3>2 DEF ShapeAt, RemovedAt
      <4>a. 2 \in 1 .. N /\ N \in 1 .. N
        BY <2>1
      <4>2. u \in 1 .. N /\ r \in 1 .. N
        BY <2>4, <4>1, <4>a
      <4> HIDE DEF u, r
      <4>3. \A c \in 1 .. N : heap.info[c] = IF c = r THEN u ELSE IF c = u THEN r ELSE c
        BY <4>1, <4>2 DEF Identity
      <4> SUFFICES ASSUME NEW d \in 1 .. N PROVE \E c \in 1 .. N : heap.info[c] = d
        OBVIOUS
      <4>4. CASE d = r
        <5>1. u = r => heap.info[r] = d
          BY <4>2, <4>3, <4>4
        <5>2. u # r => heap.info[u] = d
          BY <4>2, <4>3, <4>4
        <5> QED BY <4>2, <5>1, <5>2
      <4>5. CASE d = u
        BY <4>2, <4>3, <4>5
      <4>6. CASE d # u /\ d # r
        BY <4>3, <4>6
      <4> QED BY <4>4, <4>5, <4>6
    <3> QED BY <3>1, <3>2
  <2>9. {heap.info[c] : c \in 1 .. N} = 1 .. N
    <3>1. \A d : d \in {heap.info[c] : c \in 1 .. N} <=> d \in 1 .. N
      BY <2>5, <2>8
    <3> QED BY <3>1
  <2> QED BY <2>3, <2>4, <2>5, <2>6, <2>7, <2>9
<1> QED BY <1>1, Invariant, PTL

(* Runs in the sense of the invariant are runs in the sense of RunsSorted. *)
LEMMA InOrderIs ==
    ASSUME NEW N \in Nat, heap \in HeapsOf(N), heap.info = Identity(N), NEW arr \in [1 .. N -> 1 .. N], NEW cmp, NEW w,
           Len(arr) = N, Runs(arr, 1, N, w, Order(heap.data, cmp))
    PROVE  InOrder(arr, w, cmp)
<1> SUFFICES ASSUME NEW k \in 1 .. (N - 1), k % w # 0
             PROVE  CompareKey(cmp, Datum(heap, arr[k])) <= CompareKey(cmp, Datum(heap, arr[k + 1]))
  BY DEF InOrder
<1> DEFINE c == arr[k]
           e == arr[k + 1]
<1>1. c \in 1 .. N /\ e \in 1 .. N
  OBVIOUS
<1>2. e \in Order(heap.data, cmp)[c]
  BY DEF Runs
<1>3. heap.data \in [1 .. N -> Data] /\ Datum(heap, c) = heap.data[c] /\ Datum(heap, e) = heap.data[e]
  BY <1>1 DEF HeapsOf, Datum, Identity
<1> HIDE DEF c, e
<1>4. CompareKey(cmp, heap.data[c]) <= CompareKey(cmp, heap.data[e])
  BY <1>1, <1>2, <1>3, OrderIs
<1> QED BY <1>3, <1>4 DEF c, e

(* Between two passes of core_list_mergesort all runs of insize cells are  *)
(* in order, and it returns only an ordered list, also when calc_func      *)
(* computes and caches the values during the sort.                         *)
THEOREM RunsSortedTheorem == Spec => []RunsSorted
<1>1. Base /\ Working => RunsSorted
  <2> SUFFICES ASSUME Base, Working PROVE RunsSorted
    OBVIOUS
  <2> DEFINE N == Items
  <2>1. CASE pc = "pass"
    <3>1. /\ heap \in HeapsOf(N) /\ heap.info = Identity(N) /\ heap.next \in [1 .. N -> 0 .. N]
          /\ N \in Nat /\ N > 0 /\ \E arr \in Perms(N) : ShapeAt(arr)
      BY <2>1, InSort
    <3>2. PICK arr \in Perms(N) : ShapeAt(arr)
      BY <3>1
    <3>3. ListAt(heap.next, arr, N, ms.list) /\ Runs(arr, 1, N, ms.insize, Order(heap.data, ms.cmp))
      BY <2>1, <3>2 DEF ShapeAt, AtPass
    <3>4. Chain(heap, ms.list) = arr
      BY <3>1, <3>3, ChainIs
    <3>5. arr \in [1 .. N -> 1 .. N] /\ Len(arr) = N
      BY <3>1, PermFacts
    <3>6. InOrder(arr, ms.insize, ms.cmp)
      BY <3>1, <3>3, <3>5, InOrderIs
    <3>7. pc # ms.ret
      BY <2>1 DEF Base, Control
    <3> QED BY <3>4, <3>6, <3>7 DEF RunsSorted
  <2>2. CASE pc # "pass" /\ pc = ms.ret
    <3>1. /\ pc \in {"inits", "remove", "finish"} /\ ms.cmp = (IF ms.ret = "remove" THEN "complex" ELSE "idx")
          /\ pc # "start" /\ (pc = "remove" \/ Rested)
      BY <2>2 DEF Base, Control, Rested
    <3>2. HeapOK /\ Shape
      BY <3>1 DEF Working
    <3>3. PICK arr \in Perms(N) : ShapeAt(arr)
      BY <3>2 DEF Shape
    <3>4. N \in Nat /\ N > 0
      BY <3>1, Prepared
    <3>5. heap \in HeapsOf(N) /\ heap.info = Identity(N)
      BY <3>1, <3>2 DEF HeapOK
    <3>6. heap.next \in [1 .. N -> 0 .. N]
      BY <3>5 DEF HeapsOf
    <3>7. ListAt(heap.next, arr, N, list)
      BY <3>1, <3>3 DEF ShapeAt
    <3>8. Chain(heap, list) = arr
      BY <3>4, <3>6, <3>7, ChainIs
    <3>9. Ascending(arr, 1, N, Order(heap.data, ms.cmp))
      <4>1. CASE pc = "remove"
        BY <2>2, <3>1, <3>3, <4>1 DEF ShapeAt
      <4>2. CASE pc # "remove"
        <5>1. heap.data = D0 /\ ms.cmp = "idx" /\ Rested
          BY <2>2, <3>1, <4>2 DEF Working
        <5> QED BY <3>3, <5>1 DEF ShapeAt
      <4> QED BY <4>1, <4>2
    <3>10. arr \in [1 .. N -> 1 .. N] /\ Len(arr) = N
      BY <3>4, PermFacts
    <3> DEFINE w == Len(heap.data) + 1
    <3>11. Runs(arr, 1, N, w, Order(heap.data, ms.cmp))
      BY <3>9 DEF Runs, Ascending
    <3> HIDE DEF w
    <3>12. InOrder(arr, w, ms.cmp)
      BY <3>4, <3>5, <3>10, <3>11, InOrderIs
    <3> QED BY <2>2, <3>8, <3>12 DEF RunsSorted, w
  <2> QED BY <2>1, <2>2 DEF RunsSorted
<1> QED BY <1>1, Invariant, PTL

(* core_bench_list leaves the list as core_list_init made it: same head,   *)
(* same order, same data.                                                  *)
THEOREM ListRestoredTheorem == Spec => []ListRestored
<1>1. Base /\ Working => ListRestored
  <2> SUFFICES ASSUME Base, Working, (pc = "find" /\ bl.i = 0) \/ pc = "validate"
               PROVE  /\ list = home /\ heap.data = core_list_init(size, seed[1]).data
                      /\ LET cells == Chain(heap, list)
                         IN \A k \in 1 .. (Len(cells) - 1) :
                               Datum(heap, cells[k]).idx < Datum(heap, cells[k + 1]).idx
    BY DEF ListRestored
  <2> DEFINE N == Items
  <2>1. pc # "start" /\ Rested /\ ~Preparing
    BY DEF Rested, Preparing, Sorting
  <2>2. list = home
    BY <2>1, HomeIs
  <2>3. /\ heap \in HeapsOf(N) /\ heap.info = Identity(N) /\ heap.data = D0
        /\ \E arr \in Perms(N) : ListAt(heap.next, arr, N, list) /\ Ascending(arr, 1, N, Order(D0, "idx"))
    BY <2>1, AtRest
  <2>4. PICK arr \in Perms(N) : ListAt(heap.next, arr, N, list) /\ Ascending(arr, 1, N, Order(D0, "idx"))
    BY <2>3
  <2>5. /\ N \in Nat /\ N > 0 /\ D0 \in [1 .. N -> Data]
        /\ \A c, e \in 1 .. N : D0[c].idx = D0[e].idx => c = e
    BY <2>1, Prepared
  <2>6. heap.next \in [1 .. N -> 0 .. N]
    BY <2>3 DEF HeapsOf
  <2>7. Chain(heap, list) = arr
    BY <2>4, <2>5, <2>6, ChainIs
  <2>8. /\ arr \in [1 .. N -> 1 .. N] /\ Len(arr) = N /\ \A i, j \in 1 .. N : arr[i] = arr[j] => i = j
    BY <2>5, PermFacts
  <2>9. \A k \in 1 .. (N - 1) : Datum(heap, arr[k]).idx < Datum(heap, arr[k + 1]).idx
    <3> SUFFICES ASSUME NEW k \in 1 .. (N - 1)
                 PROVE  Datum(heap, arr[k]).idx < Datum(heap, arr[k + 1]).idx
      OBVIOUS
    <3> DEFINE c == arr[k]
               e == arr[k + 1]
    <3>1. c \in 1 .. N /\ e \in 1 .. N /\ c # e
      BY <2>5, <2>8
    <3>2. e \in Order(D0, "idx")[c]
      BY <2>4 DEF Ascending
    <3>3. Datum(heap, c) = D0[c] /\ Datum(heap, e) = D0[e]
      BY <2>3, <3>1 DEF Datum, Identity
    <3> HIDE DEF c, e
    <3>4. CompareKey("idx", D0[c]) <= CompareKey("idx", D0[e])
      BY <2>5, <3>1, <3>2, OrderIs
    <3>5. D0[c].idx <= D0[e].idx /\ D0[c].idx # D0[e].idx
      BY <2>5, <3>1, <3>4 DEF CompareKey
    <3>6. D0[c] \in Data /\ D0[e] \in Data
      BY <2>5, <3>1
    <3>7. D0[c].idx \in Nat /\ D0[e].idx \in Nat
      BY <3>6 DEF Data
    <3>8. D0[c].idx < D0[e].idx
      BY <3>5, <3>7
    <3> QED BY <3>3, <3>8 DEF c, e
  <2> QED BY <2>2, <2>3, <2>7, <2>8, <2>9 DEF D0
<1> QED BY <1>1, Invariant, PTL

(* calc_func leaves matrix A and the text of the state benchmark as they   *)
(* were, whatever wraps in 16 bits.                                        *)
THEOREM DataRestoredTheorem == Spec => []DataRestored
<1>1. Base /\ Working => DataRestored
  <2> SUFFICES ASSUME Base, Working, (pc = "element" /\ ms.cmp = "complex") \/ pc = "validate"
               PROVE  mat.A = M0.A /\ mat.B = M0.B /\ blk = T0
    BY DEF DataRestored, M0, T0
  <2>1. ~Preparing /\ pc # "matrix" /\ pc # "scan"
    BY DEF Preparing, Sorting, Base, Control
  <2> QED BY <2>1 DEF Working, Matrix, Text
<1> QED BY <1>1, Invariant, PTL

(* core_bench_state does not scan beyond its block, corrupted or not.      *)
THEOREM ScanInBoundsTheorem == Spec => []ScanInBounds
<1>1. Base /\ Working => ScanInBounds
  <2> SUFFICES ASSUME Base, Working, pc = "scan" PROVE ca.p \in 0 .. (size - 1)
    BY DEF ScanInBounds
  <2>1. size \in Nat
    BY Prepared
  <2>2. ca.p \in Nat /\ \E z \in ca.p .. (size - 1) : blk[z] = 0
    BY DEF Working, Call, Calculating
  <2> QED BY <2>1, <2>2
<1> QED BY <1>1, Invariant, PTL

=============================================================================
