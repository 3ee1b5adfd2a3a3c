---------------------------- MODULE CoreMarkList ----------------------------
(***************************************************************************)
(* The list of coremark/src/core_list_join.c as it lies in memory: cells   *)
(* 1, 2, ... with a next pointer and a pointer to a datum.  Pointers are   *)
(* cell numbers and 0 is NULL.  A heap h has fields                        *)
(*   next, info : functions on cells,                                      *)
(*   data       : function from data to [data16, idx].                     *)
(***************************************************************************)
EXTENDS CoreMarkUtil, SequencesExt

NULL == 0
PER_ITEM == 20        \* 16 + sizeof(struct list_data_s)

Heaps == [next : Seq(Nat), info : Seq(Nat), data : Seq([data16 : Nat, idx : Nat])]

(* Cells met from p, at most n of them.                                    *)
Walk(next, p, n) ==
    Loop(n, [cells |-> << >>, at |-> p],
         [k \in 1 .. n |-> [x \in [cells : Seq(Nat), at : Nat] |->
             IF x.at = NULL THEN x
             ELSE [cells |-> Append(x.cells, x.at), at |-> next[x.at]]]]).cells

Cells(h) == DOMAIN h.next
Chain(h, p) == Walk(h.next, p, Len(h.next) + 1)
Datum(h, c) == h.data[h.info[c]]
Position(cells, c) == CHOOSE k \in DOMAIN cells : cells[k] = c

---------------------------------------------------------------------------
copy_info(to, from) == [to EXCEPT !.data16 = from.data16, !.idx = from.idx]

(* A cell and a datum are taken while the one after each is in the block   *)
(* of size cells; memblock and datablock advance together.                 *)
core_list_insert_new(h, point, info, size) ==
    LET new == Len(h.next) + 1
    IN IF new >= size THEN h
       ELSE [next |-> [c \in 1 .. new |-> CASE c = new -> h.next[point]
                                            [] c = point -> new
                                            [] OTHER -> h.next[c]],
             info |-> Append(h.info, new),
             data |-> Append(h.data, copy_info([data16 |-> 0, idx |-> 0], info))]

ListSize(blksize) == (blksize \div PER_ITEM) - 2

(* core_list_init up to its final sort by idx: head and tail, then items   *)
(* behind the head until the block is full, then the indices in list       *)
(* order (the tail keeps 0x7fff).                                          *)
ItemData(k, seed) ==
    LET dat == (xor16(seed, k) % 16) * 8 + (k % 8)
    IN dat * 256 + dat

ItemIdx(k, size, seed) ==
    IF k < size \div 5 THEN k
    ELSE or16(((k + 1) % 8) * 256, xor16(k, seed)) % 16384

core_list_init(blksize, seed) ==
    LET size == ListSize(blksize)
        head == [next |-> <<NULL>>, info |-> <<1>>,
                 data |-> <<[data16 |-> 32896, idx |-> 0]>>]        \* 0x8080
        tail == [data16 |-> 65535, idx |-> 32767]
        item(k) == [data16 |-> ItemData(k, seed), idx |-> 32767]
        full == Loop(size, core_list_insert_new(head, 1, tail, size),
                     [k \in 1 .. size |-> [h \in Heaps |->
                         core_list_insert_new(h, 1, item(k - 1), size)]])
        order == Chain(full, 1)
    IN [full EXCEPT !.data =
          [c \in DOMAIN full.data |->
             LET k == Position(order, c) - 1
             IN IF k \in 1 .. (Len(order) - 2)
                THEN [full.data[c] EXCEPT !.idx = ItemIdx(k, size, seed)]
                ELSE full.data[c]]]

---------------------------------------------------------------------------
(* info.idx is signed: a negative one means a search by data.              *)
core_list_find(h, list, info) ==
    LET cells == Chain(h, list)
        hits == {k \in DOMAIN cells :
                   IF info.idx >= 0 THEN Datum(h, cells[k]).idx = info.idx
                   ELSE Datum(h, cells[k]).data16 % 256 = info.data16}
    IN IF hits = {} THEN NULL ELSE cells[Min(hits)]

core_list_reverse(h, list) ==
    LET cells == Chain(h, list)
        prev(c) == CASE c \notin ToSet(cells) -> h.next[c]
                     [] c = list -> NULL
                     [] OTHER -> cells[Position(cells, c) - 1]
    IN [list |-> Last(cells),
        heap |-> [h EXCEPT !.next = [c \in Cells(h) |-> prev(c)]]]

(* Unlinks the cell after item, with item's datum in it.                   *)
core_list_remove(h, item) ==
    LET ret == h.next[item]
    IN [h EXCEPT !.info = [@ EXCEPT ![item] = h.info[ret], ![ret] = h.info[item]],
                 !.next = [@ EXCEPT ![item] = h.next[ret], ![ret] = NULL]]

core_list_undo_remove(h, removed, modified) ==
    [h EXCEPT !.info = [@ EXCEPT ![removed] = h.info[modified],
                                 ![modified] = h.info[removed]],
              !.next = [@ EXCEPT ![removed] = h.next[modified],
                                 ![modified] = removed]]

(* Seeded fault: list->next = finder before finder->next = list->next.     *)
MoveNextToFront_Swapped(h, list, found) ==
    LET finder == h.next[found]
    IN IF finder = NULL THEN h
       ELSE [h EXCEPT !.next = [@ EXCEPT ![found] = h.next[finder],
                                         ![list] = finder, ![finder] = finder]]

(* Found: the cell after the one found moves to the front.                 *)
MoveNextToFront(h, list, found) ==
    LET finder == h.next[found]
    IN IF finder = NULL THEN h
       ELSE LET unlinked == [h.next EXCEPT ![found] = h.next[finder]]
                second   == unlinked[list]
            IN [h EXCEPT !.next = [unlinked EXCEPT ![finder] = second,
                                                   ![list] = finder]]

---------------------------------------------------------------------------
(* Comparison.  A datum is cached when bit 7 is set.                       *)
Cached(d) == (d.data16 \div 128) % 2 = 1
Cache(d, val) == [d EXCEPT !.data16 = (@ \div 256) * 256 + 128 + (val % 128)]

(* Seeded fault: the datum is left as it is.                               *)
Regen_Missing(d) == d

(* cmp_idx called with res = NULL: the low byte is rebuilt from the high.  *)
Regen(d) == [d EXCEPT !.data16 = (@ \div 256) * 257]

CompareKey(cmp, d) == IF cmp = "complex" THEN d.data16 % 128 ELSE d.idx
=============================================================================
