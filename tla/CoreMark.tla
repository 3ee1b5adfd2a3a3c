------------------------------ MODULE CoreMark ------------------------------
(***************************************************************************)
(* The CoreMark program of coremark/src as it runs on Gandiva: main,       *)
(* iterate, the list benchmark with its in-place merge sort, and the state *)
(* and matrix benchmarks that the first sort calls through calc_func.  One *)
(* action is one turn of a loop that changes the list, one comparison      *)
(* result computed, one token scanned or one matrix operation.             *)
(*                                                                         *)
(* Time is counted in ticks of the 32-bit clock of core_portme.c, which    *)
(* wraps at CLOCK_MOD; an iteration takes inp.tpi of them.  The data an    *)
(* iteration works on do not depend on time.                               *)
(***************************************************************************)
EXTENDS CoreMarkList, CoreMarkMatrix, CoreMarkState

CONSTANTS Inputs,       \* builds: seeds, iterations, TOTAL_DATA_SIZE and ticks per iteration
          ITER_CAP,     \* bound: iterations executed of those asked for
          TPS,          \* EE_TICKS_PER_SEC
          CLOCK_MOD     \* 2^32 in the program

VARIABLES
    inp,     \* the build
    pc,      \* next statement
    seed,    \* results[0].seed1 .. seed3
    heap,    \* cells and data of the list
    home,    \* results[0].list
    list,    \* local list of core_bench_list
    bl,      \* other locals of core_bench_list
    ms,      \* locals of core_list_mergesort
    ca,      \* locals of calc_func and of the benchmark it calls
    mat,     \* results[0].mat
    blk,     \* memblock[3], the text of the state benchmark
    res,     \* results[0].crc, crclist, crcmatrix, crcstate
    run,     \* iterations, loop counter of iterate, clock and its readings
    report   \* known_id and total_errors

vars == <<inp, pc, seed, heap, home, list, bl, ms, ca, mat, blk, res, run, report>>

size == inp.total \div 3         \* all three algorithms are executed

---------------------------------------------------------------------------
(* main: seeds, blocks and initial data.                                   *)
DefaultSeeds(s) ==
    CASE s = <<0, 0, 0>> -> <<0, 0, 102>>
      [] s = <<1, 0, 0>> -> <<13333, 13333, 102>>        \* 0x3415
      [] OTHER           -> s

(* The builds have seeds that are not negative and blocks in which the     *)
(* list has at least three cells, which core_list_remove relies on.        *)
ASSUME InputsAssumption ==
    /\ TPS \in Nat \ {0} /\ CLOCK_MOD \in Nat \ {0} /\ ITER_CAP \in Nat \ {0}
    /\ \A b \in Inputs :
          /\ b.seed \in [1 .. 3 -> Nat] /\ \A k \in 1 .. 3 : b.seed[k] < 32768
          /\ b.total \in Nat /\ b.total >= 360
          /\ b.iterations \in Nat /\ b.tpi \in Nat \ {0} /\ b.clock \in 0 .. (CLOCK_MOD - 1)

(* The clock wraps after 22 to 100 seconds (2^32 ticks of 50 MHz: 85.9 s), *)
(* and ten iterations do not wrap it.                                      *)
ASSUME ClockAssumption ==
    /\ 22 * TPS <= CLOCK_MOD /\ CLOCK_MOD <= 100 * TPS
    /\ \A b \in Inputs : 10 * b.tpi < CLOCK_MOD

(* "Must be identical to first for iterations to be identical"             *)
(* (core_main.c, of the second seed); and no character becomes a comma     *)
(* when it is corrupted.                                                   *)
ASSUME SeedsAssumption ==
    \A b \in Inputs : LET s == DefaultSeeds(b.seed)
                      IN /\ s[1] = s[2]
                         /\ \A c \in Characters \union {0} : xor8(c, s[1] % 256) # COMMA

(* No matrices fill a block up to the last byte or two: align_mem may need *)
(* three bytes.                                                            *)
ASSUME SlackAssumption ==
    \A b \in Inputs : \A n \in 0 .. b.total : (b.total \div 3) - 8 * n * n \notin {1, 2}

(* The pseudo-random indices of the list are distinct.                     *)
ASSUME IndexAssumption ==
    \A b \in Inputs : LET d == core_list_init(b.total \div 3, DefaultSeeds(b.seed)[1]).data
                      IN \A c, e \in DOMAIN d : d[c].idx = d[e].idx => c = e

Sort(l, cmp, ret) == [list |-> l, p |-> NULL, q |-> NULL, tail |-> NULL, insize |-> 1,
                      nmerges |-> 0, psize |-> 0, qsize |-> 0, cmp |-> cmp, ret |-> ret]

main_Start ==
    /\ pc = "start"
    /\ seed' = DefaultSeeds(inp.seed)
    /\ heap' = core_list_init(size, seed'[1])
    /\ ms' = Sort(1, "idx", "inits")
    /\ pc' = "pass"
    /\ UNCHANGED <<inp, home, list, bl, ca, mat, blk, res, run, report>>

main_Inits ==
    /\ pc = "inits"
    /\ home' = list
    /\ mat' = core_init_matrix(size, seed[1] + seed[2] * 65536)
    /\ blk' = core_init_state(size, seed[1])
    /\ run' = IF run.iterations = 0 THEN [run EXCEPT !.iterations = 1] ELSE run
    /\ pc' = IF run.iterations = 0 THEN "calibrate" ELSE "iterate"
    /\ UNCHANGED <<inp, seed, heap, list, bl, ms, ca, res, report>>

---------------------------------------------------------------------------
(* Time.                                                                   *)
start_time(r) == [r EXCEPT !.start = r.clock]
Work(r) == [r EXCEPT !.clock = (@ + inp.tpi * r.iterations) % CLOCK_MOD]
stop_time(r) == [r EXCEPT !.stop = r.clock]
get_time(r) == (r.stop - r.start) % CLOCK_MOD
time_in_secs(ticks) == ticks \div TPS

(* One trial of ten times as many iterations; it leaves the data as it     *)
(* found them (Restored) and its checksums are overwritten by iterate.     *)
main_Trial ==
    /\ pc = "calibrate" /\ run.secs < 1
    /\ LET r == stop_time(Work(start_time([run EXCEPT !.iterations = @ * 10])))
       IN run' = [r EXCEPT !.secs = time_in_secs(get_time(r))]
    /\ UNCHANGED <<inp, pc, seed, heap, home, list, bl, ms, ca, mat, blk, res, report>>

(* Seeded fault: iterations *= 10 / divisor.                               *)
main_SetIterations_Short ==
    /\ pc = "calibrate" /\ run.secs >= 1
    /\ run' = [run EXCEPT !.iterations = @ * (10 \div run.secs)]
    /\ pc' = "iterate"
    /\ UNCHANGED <<inp, seed, heap, home, list, bl, ms, ca, mat, blk, res, report>>

(* secs is whole seconds and at least 1, so divisor is never 0.            *)
main_SetIterations ==
    /\ pc = "calibrate" /\ run.secs >= 1
    /\ run' = [run EXCEPT !.iterations = @ * (1 + 10 \div run.secs)]
    /\ pc' = "iterate"
    /\ UNCHANGED <<inp, seed, heap, home, list, bl, ms, ca, mat, blk, res, report>>

---------------------------------------------------------------------------
(* iterate and core_bench_list.                                            *)
Bench(finder_idx) ==
    /\ list' = home
    /\ bl' = [finder_idx |-> finder_idx, i |-> 0, retval |-> 0, found |-> 0,
              missed |-> 0, idx |-> finder_idx, remover |-> NULL]
    /\ pc' = "find"

iterate ==
    /\ pc = "iterate"
    /\ run' = [start_time(run) EXCEPT !.i = 0]
    /\ res' = [crc |-> 0, crclist |-> 0, crcmatrix |-> 0, crcstate |-> 0]
    /\ Bench(1)
    /\ UNCHANGED <<inp, seed, heap, home, ms, ca, mat, blk, report>>

Bit(x, weight) == (x \div weight) % 2

Find_Turn ==
    /\ pc = "find" /\ bl.i < seed[3]
    /\ LET this == core_list_find(heap, list, [data16 |-> bl.i % 256, idx |-> bl.idx])
           rev  == core_list_reverse(heap, list)
           d    == Datum(rev.heap, this).data16
           next == [bl EXCEPT !.i = @ + 1, !.idx = IF @ >= 0 THEN @ + 1 ELSE @]
       IN /\ list' = rev.list
          /\ IF this = NULL
             THEN /\ heap' = rev.heap
                  /\ bl' = [next EXCEPT !.missed = @ + 1,
                              !.retval = @ + Bit(Datum(rev.heap, rev.heap.next[rev.list]).data16, 256)]
             ELSE /\ heap' = MoveNextToFront(rev.heap, rev.list, this)
                  /\ bl' = [next EXCEPT !.found = @ + 1,
                              !.retval = @ + Bit(d, 1) * Bit(d, 512)]
    /\ UNCHANGED <<inp, pc, seed, home, ms, ca, mat, blk, res, run, report>>

Find_End ==
    /\ pc = "find" /\ bl.i >= seed[3]
    /\ bl' = [bl EXCEPT !.retval = U16(@ + bl.found * 4 - bl.missed)]
    /\ IF bl.finder_idx > 0
       THEN pc' = "pass" /\ ms' = Sort(list, "complex", "remove")
       ELSE pc' = "remove" /\ UNCHANGED ms
    /\ UNCHANGED <<inp, seed, heap, home, list, ca, mat, blk, res, run, report>>

(* crc of the head's datum, once per cell from the given one on.           *)
CrcFrom(h, l, finder, crc) ==
    LET cells == Chain(h, finder)
    IN Loop(Len(cells), crc,
            [k \in 1 .. Len(cells) |-> [c \in Words |-> crc16(Datum(h, l).data16, c)]])

List_Remove ==
    /\ pc = "remove"
    /\ LET item   == heap.next[list]
           h      == core_list_remove(heap, item)
           at     == core_list_find(h, list, [data16 |-> (bl.i - 1) % 256, idx |-> bl.idx])
           finder == IF at = NULL THEN h.next[list] ELSE at
       IN /\ heap' = h
          /\ bl' = [bl EXCEPT !.remover = heap.next[item],
                              !.retval = CrcFrom(h, list, finder, @)]
    /\ pc' = "undo"
    /\ UNCHANGED <<inp, seed, home, list, ms, ca, mat, blk, res, run, report>>

List_Undo ==
    /\ pc = "undo"
    /\ heap' = core_list_undo_remove(heap, bl.remover, heap.next[list])
    /\ bl' = [bl EXCEPT !.remover = NULL]
    /\ ms' = Sort(list, "idx", "finish")
    /\ pc' = "pass"
    /\ UNCHANGED <<inp, seed, home, list, ca, mat, blk, res, run, report>>

Min2(a, b) == IF a < b THEN a ELSE b

(* The end of core_bench_list and the rest of iterate's loop body.         *)
Finish ==
    /\ pc = "finish"
    /\ LET retval == CrcFrom(heap, list, heap.next[list], bl.retval)
           crc    == crcu16(retval, res.crc)
           last   == run.i + 1 >= Min2(run.iterations, ITER_CAP)
       IN IF bl.finder_idx > 0
          THEN /\ res' = [res EXCEPT !.crc = crc]
               /\ Bench(-1)
               /\ UNCHANGED run
          ELSE /\ res' = [res EXCEPT !.crc = crc, !.crclist = IF run.i = 0 THEN crc ELSE @]
               /\ IF last
                  THEN /\ run' = stop_time(Work(run))
                       /\ pc' = "validate"
                       /\ UNCHANGED <<list, bl>>
                  ELSE run' = [run EXCEPT !.i = @ + 1] /\ Bench(1)
    /\ UNCHANGED <<inp, seed, heap, home, ms, ca, mat, blk, report>>

---------------------------------------------------------------------------
(* core_list_mergesort.                                                    *)
Pass_Start ==
    /\ pc = "pass"
    /\ ms' = [ms EXCEPT !.p = ms.list, !.list = NULL, !.tail = NULL, !.nmerges = 0]
    /\ pc' = "merge"
    /\ UNCHANGED <<inp, seed, heap, home, list, bl, ca, mat, blk, res, run, report>>

Merge_Start ==
    /\ pc = "merge" /\ ms.p # NULL
    /\ LET run1 == Walk(heap.next, ms.p, ms.insize)
       IN ms' = [ms EXCEPT !.nmerges = @ + 1, !.psize = Len(run1),
                           !.q = heap.next[Last(run1)], !.qsize = ms.insize]
    /\ pc' = "element"
    /\ UNCHANGED <<inp, seed, heap, home, list, bl, ca, mat, blk, res, run, report>>

(* The merge takes its next cell from p or from q and appends it.          *)
(* Seeded fault: qsize is not looked at.                                   *)
QEmpty_EndOnly == ms.q = NULL
QEmpty == ms.qsize = 0 \/ ms.q = NULL
TakeP(h) == \/ ms.psize > 0 /\ QEmpty
            \/ /\ ms.psize > 0 /\ ~QEmpty
               /\ CompareKey(ms.cmp, Datum(h, ms.p)) <= CompareKey(ms.cmp, Datum(h, ms.q))

Append_Cell(h) ==
    LET e == IF TakeP(h) THEN ms.p ELSE ms.q
    IN /\ heap' = IF ms.tail = NULL THEN h ELSE [h EXCEPT !.next[ms.tail] = e]
       /\ ms' = [ms EXCEPT !.list = IF ms.tail = NULL THEN e ELSE @, !.tail = e,
                           !.p = IF TakeP(h) THEN h.next[e] ELSE @,
                           !.q = IF TakeP(h) THEN @ ELSE h.next[e],
                           !.psize = IF TakeP(h) THEN @ - 1 ELSE @,
                           !.qsize = IF TakeP(h) THEN @ ELSE @ - 1]

Comparing == ms.psize > 0 /\ ~QEmpty

(* cmp_complex asks calc_func for both values, a's first.                  *)
Uncached == {c \in {ms.p, ms.q} : /\ ms.cmp = "complex" /\ Comparing
                                  /\ ~Cached(Datum(heap, c))}

Regenerated == IF ms.cmp = "idx" /\ Comparing
               THEN [heap EXCEPT !.data = [c \in DOMAIN @ |->
                       IF c \in {heap.info[ms.p], heap.info[ms.q]} THEN Regen(@[c]) ELSE @[c]]]
               ELSE heap

Merge_Element ==
    /\ pc = "element" /\ (ms.psize > 0 \/ ~QEmpty)
    /\ Uncached = {}
    /\ Append_Cell(Regenerated)
    /\ UNCHANGED <<inp, pc, seed, home, list, bl, ca, mat, blk, res, run, report>>

Merge_End ==
    /\ pc = "element" /\ ms.psize = 0 /\ QEmpty
    /\ ms' = [ms EXCEPT !.p = ms.q]
    /\ pc' = "merge"
    /\ UNCHANGED <<inp, seed, heap, home, list, bl, ca, mat, blk, res, run, report>>

(* Seeded fault: insize is not doubled.                                    *)
Pass_End_SameSize ==
    /\ pc = "merge" /\ ms.p = NULL
    /\ heap' = [heap EXCEPT !.next[ms.tail] = NULL]
    /\ IF ms.nmerges <= 1
       THEN pc' = ms.ret /\ list' = ms.list /\ UNCHANGED ms
       ELSE pc' = "pass" /\ UNCHANGED <<ms, list>>
    /\ UNCHANGED <<inp, seed, home, bl, ca, mat, blk, res, run, report>>

Pass_End ==
    /\ pc = "merge" /\ ms.p = NULL
    /\ heap' = [heap EXCEPT !.next[ms.tail] = NULL]
    /\ IF ms.nmerges <= 1
       THEN pc' = ms.ret /\ list' = ms.list /\ UNCHANGED ms
       ELSE pc' = "pass" /\ ms' = [ms EXCEPT !.insize = @ * 2] /\ UNCHANGED list
    /\ UNCHANGED <<inp, seed, home, bl, ca, mat, blk, res, run, report>>

---------------------------------------------------------------------------
(* calc_func, for the datum cell c.                                        *)
Flag(d)  == d.data16 % 8
Dtype(d) == ((d.data16 \div 8) % 16) * 17

calc_func ==
    /\ pc = "element" /\ Uncached # {}
    /\ LET c == heap.info[IF ms.p \in Uncached THEN ms.p ELSE ms.q]
           d == heap.data[c]
       IN /\ ca' = [c |-> c, val |-> Dtype(d), k |-> 0, crc |-> 0, p |-> 0,
                    track |-> Zeros, final |-> Zeros]
          /\ pc' = CASE Flag(d) = 0 -> "scan" [] Flag(d) = 1 -> "matrix" [] OTHER -> "default"
    /\ UNCHANGED <<inp, seed, heap, home, list, bl, ms, mat, blk, res, run, report>>

Return(r, retval) ==
    /\ res' = [r EXCEPT !.crc = crcu16(retval, @)]
    /\ heap' = [heap EXCEPT !.data[ca.c] = Cache(@, retval)]
    /\ pc' = "element"

calc_Default ==
    /\ pc = "default"
    /\ Return(res, heap.data[ca.c].data16)
    /\ UNCHANGED <<inp, seed, home, list, bl, ms, ca, mat, blk, run, report>>

(* core_bench_matrix and matrix_test.                                      *)
matrix_Step ==
    /\ pc = "matrix" /\ ca.k < 6
    /\ mat' = matrix_step(mat, ca.val, ca.k)
    /\ ca' = [ca EXCEPT !.k = @ + 1, !.crc = matrix_crc(mat', ca.val, ca.k, @)]
    /\ UNCHANGED <<inp, pc, seed, heap, home, list, bl, ms, blk, res, run, report>>

matrix_Return ==
    /\ pc = "matrix" /\ ca.k = 6
    /\ LET retval == crc16(ca.crc, res.crc)
       IN Return([res EXCEPT !.crcmatrix = IF @ = 0 THEN retval ELSE @], retval)
    /\ UNCHANGED <<inp, seed, home, list, bl, ms, ca, mat, blk, run, report>>

(* core_bench_state: scan (k = 0), corrupt, scan (k = 1), undo.            *)
state_Token ==
    /\ pc = "scan" /\ ByteAt(blk, ca.p) # 0
    /\ LET t == core_state_transition(blk, ca.p, ca.track)
       IN ca' = [ca EXCEPT !.p = t.p, !.track = t.track,
                           !.final = Bump(@, {t.state})]
    /\ UNCHANGED <<inp, pc, seed, heap, home, list, bl, ms, mat, blk, res, run, report>>

state_Corrupt ==
    /\ pc = "scan" /\ ByteAt(blk, ca.p) = 0 /\ ca.k = 0
    /\ blk' = corrupt(blk, seed[1], MinPeriod(ca.val))
    /\ ca' = [ca EXCEPT !.k = 1, !.p = 0]
    /\ UNCHANGED <<inp, pc, seed, heap, home, list, bl, ms, mat, res, run, report>>

state_Return ==
    /\ pc = "scan" /\ ByteAt(blk, ca.p) = 0 /\ ca.k = 1
    /\ blk' = corrupt(blk, seed[2], MinPeriod(ca.val))
    /\ LET retval == state_crc(ca.final, ca.track, res.crc)
       IN Return([res EXCEPT !.crcstate = IF @ = 0 THEN retval ELSE @], retval)
    /\ UNCHANGED <<inp, seed, home, list, bl, ms, ca, mat, run, report>>

---------------------------------------------------------------------------
(* main: validation and report.                                            *)
KnownSeedCrc == <<35330, 31493, 20143, 59893, 6386>>   \* 0x8a02 0x7b05 0x4eaf 0xe9f5 0x18f2
list_known_crc   == <<54448, 13120, 27257, 59156, 58305>>
matrix_known_crc == <<48722, 4505, 22024, 8151, 1863>>
state_known_crc  == <<24135, 14783, 58788, 36410, 36228>>

SeedCrc == crc16(size, crc16(seed[3], crc16(seed[2], crc16(seed[1], 0))))

main_Validate ==
    /\ pc = "validate"
    /\ LET known == SelectInSeq(KnownSeedCrc, LAMBDA x : x = SeedCrc)
           wrong == {f \in {"list", "matrix", "state"} :
                       CASE f = "list"   -> res.crclist # list_known_crc[known]
                         [] f = "matrix" -> res.crcmatrix # matrix_known_crc[known]
                         [] f = "state"  -> res.crcstate # state_known_crc[known]}
       IN report' = [known_id |-> known - 1,
                     total_errors |-> IF known = 0 THEN -1 ELSE Cardinality(wrong)]
    /\ pc' = "done"
    /\ UNCHANGED <<inp, seed, heap, home, list, bl, ms, ca, mat, blk, res, run>>

(* main returns and start.S loops.                                         *)
Halt == pc = "done" /\ UNCHANGED vars

---------------------------------------------------------------------------
Init ==
    /\ inp \in Inputs
    /\ pc = "start" /\ seed = <<0, 0, 0>>
    /\ heap = [next |-> << >>, info |-> << >>, data |-> << >>] /\ home = NULL /\ list = NULL
    /\ bl = [finder_idx |-> 0, i |-> 0, retval |-> 0, found |-> 0, missed |-> 0,
             idx |-> 0, remover |-> NULL]
    /\ ms = Sort(NULL, "idx", "inits")
    /\ ca = [c |-> 0, val |-> 0, k |-> 0, crc |-> 0, p |-> 0, track |-> Zeros, final |-> Zeros]
    /\ mat = [N |-> 0, A |-> << >>, B |-> << >>, C |-> << >>] /\ blk = << >>
    /\ res = [crc |-> 0, crclist |-> 0, crcmatrix |-> 0, crcstate |-> 0]
    /\ run = [iterations |-> inp.iterations, i |-> 0, clock |-> inp.clock, start |-> 0,
              stop |-> 0, secs |-> 0]
    /\ report = [known_id |-> -1, total_errors |-> 0]

Main     == main_Start \/ main_Inits \/ main_Trial \/ main_SetIterations \/ main_Validate
ListOps  == iterate \/ Find_Turn \/ Find_End \/ List_Remove \/ List_Undo \/ Finish
SortOps  == Pass_Start \/ Merge_Start \/ Merge_Element \/ Merge_End \/ Pass_End
CalcOps  == calc_func \/ calc_Default \/ matrix_Step \/ matrix_Return
            \/ state_Token \/ state_Corrupt \/ state_Return

Next == Main \/ ListOps \/ SortOps \/ CalcOps \/ Halt

(* The CPU goes on executing until main has returned.  (A step is enabled  *)
(* in every state, so this is weak fairness of Next, put without ENABLED.) *)
Fairness == []<><<Next>>_vars \/ <>[](pc = "done")

Spec == Init /\ [][Next]_vars /\ Fairness

---------------------------------------------------------------------------
(* Properties.                                                             *)

(* Cells of the merged part, of what is left of p's run and of the rest,   *)
(* when a sort is under way; the list and the removed cell otherwise.      *)
InMerge == pc \in {"element", "default", "matrix", "scan"}
Merged == IF ms.tail = NULL THEN << >>
          ELSE Chain([heap EXCEPT !.next[ms.tail] = NULL], ms.list)
AllCells ==
    CASE pc = "pass"  -> Chain(heap, ms.list)
      [] pc = "merge" -> Merged \o Chain(heap, ms.p)
      [] InMerge      -> Merged \o Walk(heap.next, ms.p, ms.psize) \o Chain(heap, ms.q)
      [] pc = "undo"  -> Chain(heap, list) \o <<bl.remover>>
      [] OTHER        -> Chain(heap, list)

(* In-place reversal, moves, removal and merging never lose a cell, reach  *)
(* one twice or tie the list into a loop, whatever next pointers are stale *)
(* in the middle of a merge; and no two cells ever share a datum.          *)
NoCellLost ==
    pc # "start" => /\ Len(AllCells) = Len(heap.next)
                    /\ ToSet(AllCells) = Cells(heap)
                    /\ {heap.info[c] : c \in Cells(heap)} = DOMAIN heap.data

InOrder(cells, width, cmp) ==
    \A k \in 1 .. (Len(cells) - 1) :
        k % width # 0 => CompareKey(cmp, Datum(heap, cells[k]))
                           <= CompareKey(cmp, Datum(heap, cells[k + 1]))

(* Between passes every run of insize cells is in order, also when the     *)
(* values compared are computed, and cached, while the sort runs; and the  *)
(* sort stops only when the whole list is in order.                        *)
RunsSorted ==
    /\ pc = "pass" => InOrder(Chain(heap, ms.list), ms.insize, ms.cmp)
    /\ pc = ms.ret => InOrder(Chain(heap, list), Len(heap.data) + 1, ms.cmp)

(* "At the end of this function, the list is back to original state"       *)
(* (core_list_join.c): same head, same order, every datum rebuilt, so that *)
(* every iteration starts from the same list.                              *)
ListRestored ==
    (pc = "find" /\ bl.i = 0) \/ pc = "validate" =>
        /\ list = home /\ heap.data = core_list_init(size, seed[1]).data
        /\ LET cells == Chain(heap, list)
           IN \A k \in 1 .. (Len(cells) - 1) :
                 Datum(heap, cells[k]).idx < Datum(heap, cells[k + 1]).idx

(* "After the last step, matrix A is back to original contents"            *)
(* (core_matrix.c), and the text of the state benchmark is as before its   *)
(* corruption, whenever calc_func has returned.                            *)
DataRestored ==
    (pc = "element" /\ ms.cmp = "complex") \/ pc = "validate" =>
        LET m == core_init_matrix(size, seed[1] + seed[2] * 65536)
        IN mat.A = m.A /\ mat.B = m.B /\ blk = core_init_state(size, seed[1])

(* The scan has no bound but the terminating zero: corruption, which also  *)
(* hits the zeros, never lets it run out of its block.                     *)
ScanInBounds == pc = "scan" => ca.p \in 0 .. (size - 1)

(* The list and the matrices (rounded up to a multiple of 4, wherever the  *)
(* stack array starts) stay in their own blocks.                           *)
BlocksDisjoint ==
    pc = "inits" => \A base \in 0 .. 3 :
        /\ (8 + 4) * ListSize(size) <= size
        /\ MatrixLayout(size, base + size).end <= base + 2 * size

(* With the seeds of the builds the checksums are the published ones.      *)
Validated == pc = "done" => report.known_id >= 0 /\ report.total_errors = 0

(* "Iterations: if set to 0, iterations will be automatically determined   *)
(* such that the benchmark will run between 10 to 100 secs" (core_main.c), *)
(* for every speed at which ten iterations do not wrap the clock.          *)
RunLength ==
    pc = "done" /\ inp.iterations = 0 => get_time(run) \in (10 * TPS) .. (100 * TPS)

(* The benchmark ends: no sort, scan or calibration goes on for ever.      *)
Terminates == <>(pc = "done")
=============================================================================
