----------------------- MODULE CoreMarkOperatorProofs -----------------------
(***************************************************************************)
(* What the operators of CoreMark compute, for every size of the blocks:   *)
(* loops, the list and its in-place sort, the checksums, the matrices and  *)
(* the text of the state benchmark.                                        *)
(***************************************************************************)
EXTENDS CoreMarkList, CoreMarkMatrix, CoreMarkState, WellFoundedInduction, SequenceTheorems,
        FiniteSetTheorems, TLAPS

---------------------------------------------------------------------------
(* Loops.  Induction is over a set, so that the prover can use it.         *)

(* A set of numbers that is not empty has a least one.                     *)
LEMMA LeastNat ==
    ASSUME NEW T \in SUBSET Nat, T # {}
    PROVE  \E m \in T : \A k \in T : m <= k
<1> DEFINE R == {ss \in Nat \X Nat : ss[1] < ss[2]}
<1>1. IsWellFoundedOn(R, Nat)
  BY NatLessThanWellFounded DEF OpToRel
<1>2. PICK m \in T : \A k \in T : ~(<<k, m>> \in R)
  BY <1>1, WFMin
<1>3. ASSUME NEW k \in T PROVE m <= k
  <2>1. <<k, m>> \in Nat \X Nat /\ <<k, m>>[1] = k /\ <<k, m>>[2] = m
    OBVIOUS
  <2>2. ~(<<k, m>> \in R)
    BY <1>2
  <2>3. ~(<<k, m>>[1] < <<k, m>>[2])
    BY <2>1, <2>2, Zenon
  <2>4. ~(k < m) /\ k \in Int /\ m \in Int
    BY <2>1, <2>3
  <2> QED BY <2>4
<1> QED BY <1>3

(* Induction, with the numbers that have the property as a set.            *)
LEMMA SetInduction ==
    ASSUME NEW S, 0 \in S, \A n \in Nat : n \in S => n + 1 \in S
    PROVE  \A n \in Nat : n \in S
<1> SUFFICES ASSUME Nat \ S # {} PROVE FALSE
  OBVIOUS
<1>1. PICK m \in Nat \ S : \A k \in Nat \ S : m <= k
  BY LeastNat
<1>2. m # 0 /\ m - 1 \in Nat /\ m - 1 \in S
  BY <1>1
<1> QED BY <1>1, <1>2

(* f[k] is the value after k turns.                                        *)
Unrolled(f, turns, init, body) ==
    f[0] = init /\ \A k \in 1 .. turns : f[k] = body[k][f[k - 1]]

(* A loop has a value after each of its turns.                             *)
LEMMA LoopExists ==
    ASSUME NEW turns \in Nat, NEW init, NEW body
    PROVE  \E f : Unrolled(f, turns, init, body)
<1> DEFINE F(n, f) == f[0] = init /\ \A k \in 1 .. n : f[k] = body[k][f[k - 1]]
           S == {n \in Nat : \E f : F(n, f)}
<1>1. 0 \in S
  <2> DEFINE f == [k \in 0 .. 0 |-> init]
  <2>1. F(0, f)
    OBVIOUS
  <2> QED BY <2>1
<1>2. ASSUME NEW n \in Nat, n \in S PROVE n + 1 \in S
  <2>1. PICK f : F(n, f)
    BY <1>2
  <2> DEFINE g == [k \in 0 .. (n + 1) |-> IF k = n + 1 THEN body[k][f[n]] ELSE f[k]]
  <2>2. ASSUME NEW k \in 1 .. (n + 1) PROVE g[k] = body[k][g[k - 1]]
    <3>1. k = n + 1 \/ k \in 1 .. n
      OBVIOUS
    <3>2. g[k - 1] = f[k - 1]
      OBVIOUS
    <3> QED BY <2>1, <3>1, <3>2
  <2>3. g[0] = init
    BY <2>1
  <2>4. F(n + 1, g)
    BY <2>2, <2>3
  <2>5. \E e : F(n + 1, e)
    <3> HIDE DEF g, F
    <3> QED BY <2>4
  <2> QED BY <2>5
<1>3. \A n \in Nat : n \in S
  <2> HIDE DEF S
  <2> QED BY <1>1, <1>2, SetInduction
<1> QED BY <1>3 DEF Unrolled

(* The value of a loop is the one after its last turn.                     *)
LEMMA LoopUnfold ==
    ASSUME NEW n \in Nat, NEW init, NEW body
    PROVE  \E f : Unrolled(f, n, init, body) /\ Loop(n, init, body) = f[n]
<1>0. PICK e : Unrolled(e, n, init, body)
  BY LoopExists
<1> DEFINE F(f) == f = [k \in 0 .. n |-> IF k = 0 THEN init ELSE body[k][f[k - 1]]]
           after == CHOOSE f : F(f)
<1>1. \E f : F(f)
  <2> DEFINE g == [k \in 0 .. n |-> e[k]]
  <2>2. ASSUME NEW k \in 0 .. n
        PROVE  g[k] = IF k = 0 THEN init ELSE body[k][g[k - 1]]
    BY <1>0 DEF Unrolled
  <2>3. F(g)
    BY <2>2
  <2> QED
    <3> HIDE DEF g, F
    <3> QED BY <2>3
<1>2. F(after)
  <2> HIDE DEF F
  <2> QED BY <1>1
<1>3. Loop(n, init, body) = after[n]
  BY DEF Loop
<1>4. Unrolled(after, n, init, body)
  <2> HIDE DEF after
  <2> QED BY <1>2 DEF Unrolled
<1> QED
  <2> HIDE DEF after
  <2> QED BY <1>3, <1>4

(* What a loop computes, when the value after every turn is known.         *)
LEMMA LoopValue ==
    ASSUME NEW n \in Nat, NEW init, NEW body, NEW val,
           val[0] = init,
           \A k \in 1 .. n : body[k][val[k - 1]] = val[k]
    PROVE  Loop(n, init, body) = val[n]
<1>1. PICK f : Unrolled(f, n, init, body) /\ Loop(n, init, body) = f[n]
  BY LoopUnfold
<1> DEFINE S == {k \in Nat : k \in 0 .. n => f[k] = val[k]}
<1>3. 0 \in S
  BY <1>1 DEF Unrolled
<1>4. ASSUME NEW k \in Nat, k \in S PROVE k + 1 \in S
  <2> SUFFICES ASSUME k + 1 \in 0 .. n PROVE f[k + 1] = val[k + 1]
    OBVIOUS
  <2>1. f[k + 1] = body[k + 1][f[k]] /\ f[k] = val[k]
    BY <1>1, <1>4 DEF Unrolled
  <2> QED BY <2>1
<1>5. \A k \in Nat : k \in S
  <2> HIDE DEF S
  <2> QED BY <1>3, <1>4, SetInduction
<1> QED BY <1>1, <1>5

(* A loop keeps what every turn keeps.                                     *)
LEMMA LoopInvariant ==
    ASSUME NEW n \in Nat, NEW init, NEW body, NEW Good,
           init \in Good[0],
           \A k \in 1 .. n : \A x \in Good[k - 1] : body[k][x] \in Good[k]
    PROVE  Loop(n, init, body) \in Good[n]
<1>1. PICK f : Unrolled(f, n, init, body) /\ Loop(n, init, body) = f[n]
  BY LoopUnfold
<1> DEFINE S == {k \in Nat : k \in 0 .. n => f[k] \in Good[k]}
<1>3. 0 \in S
  BY <1>1 DEF Unrolled
<1>4. ASSUME NEW k \in Nat, k \in S PROVE k + 1 \in S
  <2> SUFFICES ASSUME k + 1 \in 0 .. n PROVE f[k + 1] \in Good[k + 1]
    OBVIOUS
  <2>1. f[k + 1] = body[k + 1][f[k]] /\ f[k] \in Good[k]
    BY <1>1, <1>4 DEF Unrolled
  <2> QED BY <2>1
<1>5. \A k \in Nat : k \in S
  <2> HIDE DEF S
  <2> QED BY <1>3, <1>4, SetInduction
<1> QED BY <1>1, <1>5

(* The value of a loop is in every set that each turn maps into itself.    *)
LEMMA LoopKeeps ==
    ASSUME NEW n \in Nat, NEW init, NEW body, NEW Good,
           init \in Good,
           \A k \in 1 .. n : \A x \in Good : body[k][x] \in Good
    PROVE  Loop(n, init, body) \in Good
<1> DEFINE G == [k \in 0 .. n |-> Good]
<1>1. init \in G[0] /\ \A k \in 1 .. n : \A x \in G[k - 1] : body[k][x] \in G[k]
  OBVIOUS
<1>2. Loop(n, init, body) \in G[n]
  <2> HIDE DEF G
  <2> QED BY <1>1, LoopInvariant
<1> QED BY <1>2

---------------------------------------------------------------------------
(* Sequences and walks along next pointers.                                *)

(* A function on 1 .. n is a sequence of length n.                         *)
LEMMA SegmentIsSeq ==
    ASSUME NEW S, NEW n \in Nat, NEW s \in [1 .. n -> S]
    PROVE  s \in Seq(S) /\ Len(s) = n /\ DOMAIN s = 1 .. n
OBVIOUS

(* Appending to a sequence extends it by one place.                        *)
LEMMA AppendSegment ==
    ASSUME NEW S, NEW n \in Nat, NEW s \in [1 .. n -> S], NEW e \in S
    PROVE  Append(s, e) = [k \in 1 .. (n + 1) |-> IF k = n + 1 THEN e ELSE s[k]]
<1>1. s \in Seq(S) /\ Len(s) = n
  OBVIOUS
<1>2. Append(s, e) \in Seq(S) /\ Len(Append(s, e)) = n + 1
  BY <1>1
<1>3. DOMAIN Append(s, e) = 1 .. (n + 1)
  BY <1>2
<1>4. \A k \in 1 .. (n + 1) : Append(s, e)[k] = IF k = n + 1 THEN e ELSE s[k]
  BY <1>1
<1>5. Append(s, e) \in [1 .. (n + 1) -> S]
  BY <1>2, LenProperties
<1> QED BY <1>3, <1>4, <1>5

(* The cells next leads to from p, up to a NULL or to the n-th.            *)
Path(next, N, seg, len, p) ==
    /\ N \in Nat /\ next \in [1 .. N -> 0 .. N]
    /\ len \in Nat /\ seg \in [1 .. len -> 1 .. N]
    /\ \A j \in 1 .. (len - 1) : next[seg[j]] = seg[j + 1]
    /\ p = IF len = 0 THEN NULL ELSE seg[1]

(* Walk meets the cells of a path.                                         *)
LEMMA WalkPath ==
    ASSUME NEW N, NEW next, NEW len, NEW seg, NEW n \in Nat, NEW p,
           Path(next, N, seg, len, p),
           n = len \/ (n >= len /\ (len = 0 \/ next[seg[len]] = NULL))
    PROVE  Walk(next, p, n) = seg
<1> USE DEF Path
<1> DEFINE S == [cells : Seq(Nat), at : Nat]
           body == [k \in 1 .. n |-> [x \in S |->
                        IF x.at = NULL THEN x
                        ELSE [cells |-> Append(x.cells, x.at), at |-> next[x.at]]]]
           m(k) == IF k < len THEN k ELSE len
           cells(k) == [j \in 1 .. m(k) |-> seg[j]]
           at(k) == IF k < len THEN seg[k + 1] ELSE IF len = 0 THEN NULL ELSE next[seg[len]]
           init == [cells |-> << >>, at |-> p]
           val == [k \in 0 .. n |-> [cells |-> cells(k), at |-> at(k)]]
<1>1. val[0] = init
  BY DEF NULL
<1>2. ASSUME NEW k \in 1 .. n PROVE body[k][val[k - 1]] = val[k]
  <2>1. m(k - 1) \in Nat /\ cells(k - 1) \in [1 .. m(k - 1) -> Nat]
    OBVIOUS
  <2>2. cells(k - 1) \in Seq(Nat) /\ at(k - 1) \in Nat
    BY <2>1 DEF NULL
  <2>3. val[k - 1] \in S /\ val[k - 1].cells = cells(k - 1) /\ val[k - 1].at = at(k - 1)
    BY <2>2
  <2>a. val[k] = [cells |-> cells(k), at |-> at(k)]
        /\ val[k - 1] = [cells |-> cells(k - 1), at |-> at(k - 1)]
    <3> HIDE DEF cells, at
    <3> QED OBVIOUS
  <2>4. CASE k <= len
    <3>1. at(k - 1) = seg[k] /\ seg[k] # NULL
      BY <2>4 DEF NULL
    <3>2. body[k][val[k - 1]] = [cells |-> Append(cells(k - 1), seg[k]), at |-> next[seg[k]]]
      <4> HIDE DEF cells, at, val
      <4> QED BY <2>3, <3>1
    <3>3. Append(cells(k - 1), seg[k]) = cells(k)
      <4>1. cells(k - 1) \in [1 .. (k - 1) -> Nat] /\ seg[k] \in Nat
        BY <2>4
      <4>2. Append(cells(k - 1), seg[k])
              = [j \in 1 .. ((k - 1) + 1) |-> IF j = (k - 1) + 1 THEN seg[k] ELSE cells(k - 1)[j]]
        <5> HIDE DEF cells
        <5>1. k - 1 \in Nat
          OBVIOUS
        <5> QED BY <4>1, <5>1, AppendSegment
      <4> QED BY <2>4, <4>2, SMTT(30)
    <3>4. next[seg[k]] = at(k)
      BY <2>4
    <3> HIDE DEF cells, at, val, body
    <3> QED BY <2>a, <3>2, <3>3, <3>4
  <2>5. CASE k > len
    <3>1. at(k - 1) = NULL /\ at(k) = NULL /\ cells(k) = cells(k - 1)
      BY <2>5 DEF NULL
    <3>2. body[k][val[k - 1]] = val[k - 1]
      <4> HIDE DEF cells, at, val
      <4> QED BY <2>3, <3>1
    <3> HIDE DEF cells, at, val, body
    <3>3. val[k] = [cells |-> cells(k - 1), at |-> at(k - 1)]
      BY <2>a, <3>1
    <3>4. val[k] = val[k - 1]
      BY <2>a, <3>3
    <3> QED BY <3>2, <3>4
  <2> HIDE DEF cells, at, val, body
  <2>6. k <= len \/ k > len
    OBVIOUS
  <2> QED BY <2>4, <2>5, <2>6
<1>3. Loop(n, init, body) = val[n]
  <2> HIDE DEF init, body, val
  <2>1. \A k \in 1 .. n : body[k][val[k - 1]] = val[k]
    BY <1>2
  <2>2. val[0] = init /\ n \in Nat
    BY <1>1
  <2> HIDE DEF Path
  <2> QED BY <2>1, <2>2, LoopValue
<1>4. val[n].cells = seg
  OBVIOUS
<1> QED BY <1>3, <1>4 DEF Walk

(* A function on 1 .. n is a sequence over every larger set.               *)
LEMMA IntoSeq ==
    ASSUME NEW n \in Nat, NEW S, NEW T, S \subseteq T, NEW f \in [1 .. n -> S]
    PROVE  f \in Seq(T) /\ Len(f) = n /\ f \in [1 .. n -> T]
<1>1. f \in [1 .. n -> T]
  OBVIOUS
<1> QED BY <1>1, SegmentIsSeq

(* A sequence over a set is one over every larger set.                     *)
LEMMA SubsetSeq ==
    ASSUME NEW S, NEW T, S \subseteq T, NEW q \in Seq(S)
    PROVE  q \in Seq(T)
<1>1. Len(q) \in Nat /\ q \in [1 .. Len(q) -> S]
  OBVIOUS
<1> QED BY <1>1, IntoSeq

---------------------------------------------------------------------------
(* Orders of the cells: arr[k] is the cell at place k.                     *)

(* The orders in which N cells can be linked.                              *)
Perms(N) == {arr \in [1 .. N -> 1 .. N] :
               /\ \A i, j \in 1 .. N : arr[i] = arr[j] => i = j
               /\ \A c \in 1 .. N : \E i \in 1 .. N : arr[i] = c}

(* The element at hi moves down to lo, and back up.                        *)
Down(arr, lo, hi) == [k \in DOMAIN arr |-> IF k = lo THEN arr[hi]
                        ELSE IF k \in (lo + 1) .. hi THEN arr[k - 1] ELSE arr[k]]
Up(arr, lo, hi) == [k \in DOMAIN arr |-> IF k = hi THEN arr[lo]
                        ELSE IF k \in lo .. (hi - 1) THEN arr[k + 1] ELSE arr[k]]
Mirror(arr, N) == [k \in 1 .. N |-> arr[N + 1 - k]]

(* Moving an element down gives an order of the same cells.                *)
LEMMA DownIsPerm ==
    ASSUME NEW N \in Nat, NEW arr \in Perms(N), NEW lo \in 1 .. N, NEW hi \in lo .. N
    PROVE  Down(arr, lo, hi) \in Perms(N)
<1> DEFINE new == Down(arr, lo, hi)
           at(k) == IF k = lo THEN hi ELSE IF k \in (lo + 1) .. hi THEN k - 1 ELSE k
<1>1. arr \in [1 .. N -> 1 .. N] /\ DOMAIN arr = 1 .. N
  BY DEF Perms
<1>2. \A k \in 1 .. N : at(k) \in 1 .. N /\ new[k] = arr[at(k)]
  BY <1>1 DEF Down
<1>3. new \in [1 .. N -> 1 .. N]
  <2>1. new = [k \in 1 .. N |-> new[k]]
    BY <1>1 DEF Down
  <2>2. \A k \in 1 .. N : new[k] \in 1 .. N
    <3> HIDE DEF new, at
    <3> QED BY <1>1, <1>2
  <2> HIDE DEF new
  <2> QED BY <2>1, <2>2
<1>4. \A i, j \in 1 .. N : new[i] = new[j] => i = j
  <2> SUFFICES ASSUME NEW i \in 1 .. N, NEW j \in 1 .. N, new[i] = new[j] PROVE i = j
    OBVIOUS
  <2>1. at(i) = at(j)
    <3> HIDE DEF new, at
    <3> QED BY <1>2, SMTT(30) DEF Perms
  <2> QED BY <2>1
<1>5. \A c \in 1 .. N : \E i \in 1 .. N : new[i] = c
  <2> SUFFICES ASSUME NEW c \in 1 .. N PROVE \E i \in 1 .. N : new[i] = c
    OBVIOUS
  <2>1. PICK i \in 1 .. N : arr[i] = c
    BY DEF Perms
  <2> DEFINE j == IF i = hi THEN lo ELSE IF i \in lo .. (hi - 1) THEN i + 1 ELSE i
  <2>2. j \in 1 .. N /\ at(j) = i
    OBVIOUS
  <2> HIDE DEF new, at, j
  <2> QED BY <1>2, <2>1, <2>2
<1> QED BY <1>3, <1>4, <1>5 DEF Perms

(* Moving an element up gives an order of the same cells.                  *)
LEMMA UpIsPerm ==
    ASSUME NEW N \in Nat, NEW arr \in Perms(N), NEW lo \in 1 .. N, NEW hi \in lo .. N
    PROVE  Up(arr, lo, hi) \in Perms(N)
<1> DEFINE new == Up(arr, lo, hi)
           at(k) == IF k = hi THEN lo ELSE IF k \in lo .. (hi - 1) THEN k + 1 ELSE k
<1>1. arr \in [1 .. N -> 1 .. N] /\ DOMAIN arr = 1 .. N
  BY DEF Perms
<1>2. \A k \in 1 .. N : at(k) \in 1 .. N /\ new[k] = arr[at(k)]
  BY <1>1 DEF Up
<1>3. new \in [1 .. N -> 1 .. N]
  <2>1. new = [k \in 1 .. N |-> new[k]]
    BY <1>1 DEF Up
  <2>2. \A k \in 1 .. N : new[k] \in 1 .. N
    <3> HIDE DEF new, at
    <3> QED BY <1>1, <1>2
  <2> HIDE DEF new
  <2> QED BY <2>1, <2>2
<1>4. \A i, j \in 1 .. N : new[i] = new[j] => i = j
  <2> SUFFICES ASSUME NEW i \in 1 .. N, NEW j \in 1 .. N, new[i] = new[j] PROVE i = j
    OBVIOUS
  <2>1. at(i) = at(j)
    <3> HIDE DEF new, at
    <3> QED BY <1>2, SMTT(30) DEF Perms
  <2> QED BY <2>1
<1>5. \A c \in 1 .. N : \E i \in 1 .. N : new[i] = c
  <2> SUFFICES ASSUME NEW c \in 1 .. N PROVE \E i \in 1 .. N : new[i] = c
    OBVIOUS
  <2>1. PICK i \in 1 .. N : arr[i] = c
    BY DEF Perms
  <2> DEFINE j == IF i = lo THEN hi ELSE IF i \in (lo + 1) .. hi THEN i - 1 ELSE i
  <2>2. j \in 1 .. N /\ at(j) = i
    OBVIOUS
  <2> HIDE DEF new, at, j
  <2> QED BY <1>2, <2>1, <2>2
<1> QED BY <1>3, <1>4, <1>5 DEF Perms

(* A reversed order is an order of the same cells.                         *)
LEMMA MirrorIsPerm ==
    ASSUME NEW N \in Nat, NEW arr \in Perms(N)
    PROVE  Mirror(arr, N) \in Perms(N)
<1> DEFINE new == Mirror(arr, N)
<1>1. arr \in [1 .. N -> 1 .. N]
  BY DEF Perms
<1>2. new \in [1 .. N -> 1 .. N]
  BY <1>1 DEF Mirror
<1>3. \A i, j \in 1 .. N : new[i] = new[j] => i = j
  <2> SUFFICES ASSUME NEW i \in 1 .. N, NEW j \in 1 .. N, new[i] = new[j] PROVE i = j
    OBVIOUS
  <2>1. N + 1 - i \in 1 .. N /\ N + 1 - j \in 1 .. N /\ arr[N + 1 - i] = arr[N + 1 - j]
    BY DEF Mirror
  <2>2. N + 1 - i = N + 1 - j
    BY <2>1 DEF Perms
  <2> QED BY <2>2
<1>4. \A c \in 1 .. N : \E i \in 1 .. N : new[i] = c
  <2> SUFFICES ASSUME NEW c \in 1 .. N PROVE \E i \in 1 .. N : new[i] = c
    OBVIOUS
  <2>1. PICK i \in 1 .. N : arr[i] = c
    BY DEF Perms
  <2>2. N + 1 - i \in 1 .. N /\ N + 1 - (N + 1 - i) = i
    OBVIOUS
  <2>3. new[N + 1 - i] = c
    BY <2>1, <2>2 DEF Mirror
  <2> QED BY <2>2, <2>3
<1> QED BY <1>2, <1>3, <1>4 DEF Perms

(* Quotient and remainder.                                                 *)
LEMMA DivMod ==
    ASSUME NEW a \in Nat, NEW w \in Nat, w > 0
    PROVE  /\ a \div w \in Nat /\ a % w \in 0 .. (w - 1)
           /\ a = (w * (a \div w)) + (a % w)
OBVIOUS

(* The remainder of w * q + r is r.                                        *)
LEMMA ModUnique ==
    ASSUME NEW q \in Nat, NEW r \in Nat, NEW w \in Nat, r < w
    PROVE  (w * q + r) % w = r
<1> DEFINE a == w * q + r
           d == a \div w
           m == a % w
<1>1. a \in Nat /\ d \in Nat /\ m \in 0 .. (w - 1) /\ a = w * d + m
  BY DivMod
<1>2. w * q + r = w * d + m
  BY <1>1
<1>3. d = q
  <2> HIDE DEF d, m
  <2>1. d \in Int /\ q \in Int /\ m \in Int
    BY <1>1
  <2>2. CASE d < q
    <3>1. PICK e \in Nat : q = d + 1 + e
      BY <2>1, <2>2
    <3>2. w * q = w * d + w + w * e /\ w * e >= 0
      BY <2>1, <3>1
    <3> QED BY <1>1, <1>2, <2>1, <3>2
  <2>3. CASE q < d
    <3>1. PICK e \in Nat : d = q + 1 + e
      BY <2>1, <2>3
    <3>2. w * d = w * q + w + w * e /\ w * e >= 0
      BY <2>1, <3>1
    <3> QED BY <1>1, <1>2, <2>1, <3>2
  <2> QED BY <2>1, <2>2, <2>3
<1>4. m = r
  <2> HIDE DEF d, m
  <2> QED BY <1>1, <1>2, <1>3
<1> QED BY <1>4

(* The remainder of a multiple of w is 0.                                  *)
LEMMA Multiple ==
    ASSUME NEW q \in Nat, NEW w \in Nat, w > 0
    PROVE  (w * q) % w = 0
<1> DEFINE r == 0
<1>1. r \in Nat /\ r < w
  OBVIOUS
<1>2. (w * q + r) % w = r
  <2> HIDE DEF r
  <2> QED BY <1>1, ModUnique
<1>3. w * q + r = w * q
  OBVIOUS
<1> QED BY <1>2, <1>3

(* No multiple of w lies strictly between two neighbouring ones.           *)
LEMMA InsideBlock ==
    ASSUME NEW a \in Nat, NEW k \in Nat, NEW w \in Nat, a % w = 0, a < k, k < a + w
    PROVE  k % w # 0
<1>1. a = w * (a \div w) /\ a \div w \in Nat
  BY DivMod
<1>2. PICK r \in Nat : k = a + r /\ r > 0 /\ r < w
  OBVIOUS
<1>3. k = w * (a \div w) + r
  BY <1>1, <1>2
<1>4. k % w = r
  BY <1>1, <1>2, <1>3, ModUnique, ZenonT(40)
<1> QED BY <1>2, <1>4

(* The next multiple of w.                                                 *)
LEMMA NextBlock ==
    ASSUME NEW a \in Nat, NEW w \in Nat, w > 0, a % w = 0
    PROVE  (a + w) % w = 0
<1>1. a = w * (a \div w) /\ a \div w \in Nat
  BY DivMod
<1> DEFINE q == (a \div w) + 1
<1>2. a + w = w * q /\ q \in Nat
  BY <1>1
<1>3. (w * q) % w = 0
  <2> HIDE DEF q
  <2> QED BY <1>2, Multiple
<1> QED BY <1>2, <1>3

(* A multiple of 2 * w is one of w.                                        *)
LEMMA HalfBlock ==
    ASSUME NEW a \in Nat, NEW w \in Nat, w > 0, a % (2 * w) = 0
    PROVE  a % w = 0
<1>1. a = (2 * w) * (a \div (2 * w)) /\ a \div (2 * w) \in Nat
  BY DivMod
<1> DEFINE q == 2 * (a \div (2 * w))
<1>2. a = w * q /\ q \in Nat
  BY <1>1
<1>3. (w * q) % w = 0
  <2> HIDE DEF q
  <2> QED BY <1>2, Multiple
<1> QED BY <1>2, <1>3

(* The values of data and heaps with N cells.                              *)
Data == [data16 : Words, idx : Nat]
HeapsOf(N) == [next : [1 .. N -> 0 .. N], info : [1 .. N -> 1 .. N], data : [1 .. N -> Data]]

(* next leads from arr[lo] to arr[hi].                                     *)
Linked(next, arr, lo, hi) == \A k \in lo .. (hi - 1) : next[arr[k]] = arr[k + 1]

(* The list from l consists of all cells, in the order of arr.             *)
ListAt(next, arr, N, l) == l = arr[1] /\ Linked(next, arr, 1, N) /\ next[arr[N]] = NULL

(* An order has every cell once.                                           *)
LEMMA PermFacts ==
    ASSUME NEW N \in Nat, NEW arr \in Perms(N)
    PROVE  /\ arr \in [1 .. N -> 1 .. N] /\ DOMAIN arr = 1 .. N
           /\ arr \in Seq(1 .. N) /\ Len(arr) = N
           /\ \A i, j \in 1 .. N : arr[i] = arr[j] => i = j
           /\ \A c \in 1 .. N : \E i \in 1 .. N : arr[i] = c
BY DEF Perms

(* The cells from place lo to place hi.                                    *)
Segment(arr, lo, hi) == [j \in 1 .. (hi + 1 - lo) |-> arr[lo + j - 1]]

(* A segment is a sequence of cells.                                       *)
LEMMA SegmentType ==
    ASSUME NEW N \in Nat, NEW arr \in [1 .. N -> 1 .. N], NEW lo \in 1 .. (N + 1),
           NEW hi \in (lo - 1) .. N
    PROVE  /\ hi + 1 - lo \in Nat
           /\ Segment(arr, lo, hi) \in [1 .. (hi + 1 - lo) -> 1 .. N]
           /\ Segment(arr, lo, hi) \in Seq(1 .. N)
           /\ Len(Segment(arr, lo, hi)) = hi + 1 - lo
<1> DEFINE len == hi + 1 - lo
           seg == Segment(arr, lo, hi)
<1>1. \A j \in 1 .. len : lo + j - 1 \in 1 .. N
  OBVIOUS
<1>2. len \in Nat
  OBVIOUS
<1>3. seg = [j \in 1 .. len |-> arr[lo + j - 1]]
  BY DEF Segment
<1> HIDE DEF len, seg
<1>4. seg \in [1 .. len -> 1 .. N]
  BY <1>1, <1>2, <1>3
<1>5. seg \in Seq(1 .. N) /\ Len(seg) = len
  BY <1>2, <1>4, SegmentIsSeq
<1> QED BY <1>2, <1>4, <1>5 DEF len, seg

(* A walk of n cells from p passes the cells of arr from lo to hi.         *)
Along(next, N, arr, lo, hi, p, n) ==
    /\ N \in Nat /\ next \in [1 .. N -> 0 .. N] /\ arr \in [1 .. N -> 1 .. N]
    /\ lo \in 1 .. (N + 1) /\ hi \in (lo - 1) .. N /\ Linked(next, arr, lo, hi)
    /\ p = (IF hi < lo THEN NULL ELSE arr[lo])
    /\ n \in Nat
    /\ n = hi + 1 - lo \/ (n >= hi + 1 - lo /\ (hi < lo \/ next[arr[hi]] = NULL))

(* Such a walk meets the cells of that segment, in this order.             *)
LEMMA WalkSegment ==
    ASSUME NEW N, NEW next, NEW arr, NEW lo, NEW hi, NEW p, NEW n,
           Along(next, N, arr, lo, hi, p, n)
    PROVE  Walk(next, p, n) = Segment(arr, lo, hi)
<1> DEFINE len == hi + 1 - lo
           seg == Segment(arr, lo, hi)
<1> USE DEF Along
<1>1. len \in Nat /\ seg \in [1 .. len -> 1 .. N]
  BY SegmentType
<1>2. \A j \in 1 .. (len - 1) : next[seg[j]] = seg[j + 1]
  <2> SUFFICES ASSUME NEW j \in 1 .. (len - 1) PROVE next[seg[j]] = seg[j + 1]
    OBVIOUS
  <2>1. lo + j - 1 \in lo .. (hi - 1) /\ seg[j] = arr[lo + j - 1]
        /\ seg[j + 1] = arr[(lo + j - 1) + 1]
    BY DEF Segment
  <2> HIDE DEF seg, len
  <2> QED BY <2>1 DEF Linked
<1>3. p = IF len = 0 THEN NULL ELSE seg[1]
  BY DEF Segment
<1>4. n = len \/ (n >= len /\ (len = 0 \/ next[seg[len]] = NULL))
  <2>1. len # 0 => seg[len] = arr[hi]
    BY DEF Segment
  <2>2. len = 0 <=> hi < lo
    OBVIOUS
  <2> HIDE DEF seg
  <2> QED BY <2>1, <2>2
<1> HIDE DEF len, seg
<1>5. Path(next, N, seg, len, p)
  BY <1>1, <1>2, <1>3 DEF Path
<1>6. Walk(next, p, n) = seg
  BY <1>4, <1>5, WalkPath
<1> QED BY <1>6 DEF seg

(* The cells of a list that is linked in the order of arr are arr.         *)
LEMMA ChainIs ==
    ASSUME NEW N \in Nat, N > 0, NEW h, h.next \in [1 .. N -> 0 .. N], NEW arr \in Perms(N),
           NEW l, ListAt(h.next, arr, N, l)
    PROVE  Chain(h, l) = arr
<1>1. arr \in [1 .. N -> 1 .. N]
  BY DEF Perms
<1>a. Len(h.next) = N
  <2> DEFINE f == h.next
  <2>1. f \in [1 .. N -> 0 .. N]
    OBVIOUS
  <2>2. Len(f) = N
    <3> HIDE DEF f
    <3> QED BY <2>1, SegmentIsSeq
  <2> QED BY <2>2
<1>2. N + 1 >= N /\ \A j \in 1 .. (N - 1) : h.next[arr[j]] = arr[j + 1]
  BY DEF ListAt, Linked
<1>3. l = IF N = 0 THEN NULL ELSE arr[1]
  BY DEF ListAt
<1>4. Walk(h.next, l, N + 1) = arr
  <2>1. Path(h.next, N, arr, N, l)
    BY <1>1, <1>2, <1>3 DEF Path
  <2> QED BY <2>1, WalkPath DEF ListAt
<1> QED BY <1>a, <1>4 DEF Chain

(* core_list_reverse links the same cells in the opposite order and        *)
(* returns the last as the head.                                           *)
LEMMA ReverseIs ==
    ASSUME NEW N \in Nat, N > 0, NEW h \in HeapsOf(N), NEW arr \in Perms(N),
           NEW l, ListAt(h.next, arr, N, l)
    PROVE  /\ core_list_reverse(h, l).list = arr[N]
           /\ core_list_reverse(h, l).heap \in HeapsOf(N)
           /\ core_list_reverse(h, l).heap.info = h.info
           /\ core_list_reverse(h, l).heap.data = h.data
           /\ ListAt(core_list_reverse(h, l).heap.next, Mirror(arr, N), N, arr[N])
<1> DEFINE prev(c) == CASE c \notin ToSet(arr) -> h.next[c]
                        [] c = l -> NULL
                        [] OTHER -> arr[Position(arr, c) - 1]
           new == [c \in 1 .. N |-> prev(c)]
           r == core_list_reverse(h, l)
<1>1. Chain(h, l) = arr /\ h.next \in [1 .. N -> 0 .. N] /\ Cells(h) = 1 .. N
  BY ChainIs DEF HeapsOf, Cells
<1>2. Last(arr) = arr[N]
  BY PermFacts DEF Last
<1>3. r = [list |-> arr[N], heap |-> [h EXCEPT !.next = new]]
  BY <1>1, <1>2 DEF core_list_reverse
<1>a. /\ DOMAIN arr = 1 .. N /\ \A k \in 1 .. N : arr[k] \in 1 .. N
      /\ \A i, j \in 1 .. N : arr[i] = arr[j] => i = j
      /\ \A c \in 1 .. N : \E i \in 1 .. N : arr[i] = c
  BY DEF Perms
<1>4. \A c \in 1 .. N : c \in ToSet(arr)
  BY <1>a DEF ToSet
<1>5. \A k \in 1 .. N : Position(arr, arr[k]) = k
  BY PermFacts DEF Position
<1>6. l = arr[1]
  BY DEF ListAt
<1>7. new[arr[1]] = NULL /\ \A k \in 2 .. N : new[arr[k]] = arr[k - 1]
  <2>1. arr[1] \in 1 .. N /\ prev(arr[1]) = NULL
    BY <1>4, <1>6, PermFacts
  <2>2. ASSUME NEW k \in 2 .. N PROVE arr[k] \in 1 .. N /\ prev(arr[k]) = arr[k - 1]
    <3>1. arr[k] \in 1 .. N /\ arr[k] # l /\ k \in 1 .. N
      <4>1. k \in 1 .. N /\ 1 \in 1 .. N /\ k # 1
        OBVIOUS
      <4> QED BY <1>6, <1>a, <4>1
    <3> QED BY <1>4, <1>5, <3>1
  <2> QED BY <2>1, <2>2
<1>8. new \in [1 .. N -> 0 .. N]
  <2> SUFFICES ASSUME NEW c \in 1 .. N PROVE new[c] \in 0 .. N
    OBVIOUS
  <2>1. PICK k \in 1 .. N : arr[k] = c
    BY PermFacts
  <2>2. k = 1 \/ k \in 2 .. N
    OBVIOUS
  <2>3. \A j \in 1 .. N : arr[j] \in 1 .. N
    BY PermFacts
  <2> HIDE DEF new
  <2> QED BY <1>7, <2>1, <2>2, <2>3 DEF NULL
<1>9. ListAt(new, Mirror(arr, N), N, arr[N])
  <2>1. Mirror(arr, N)[1] = arr[N] /\ Mirror(arr, N)[N] = arr[1]
    BY DEF Mirror
  <2>2. ASSUME NEW k \in 1 .. (N - 1) PROVE new[Mirror(arr, N)[k]] = Mirror(arr, N)[k + 1]
    <3>1. N + 1 - k \in 2 .. N /\ Mirror(arr, N)[k] = arr[N + 1 - k]
          /\ Mirror(arr, N)[k + 1] = arr[(N + 1 - k) - 1]
      BY DEF Mirror
    <3> HIDE DEF new
    <3> QED BY <1>7, <3>1
  <2> HIDE DEF new
  <2> QED BY <1>7, <2>1, <2>2 DEF ListAt, Linked
<1> HIDE DEF new, r
<1>10. r.list = arr[N] /\ r.heap = [h EXCEPT !.next = new]
  BY <1>3
<1>11. r.heap \in HeapsOf(N) /\ r.heap.info = h.info /\ r.heap.data = h.data /\ r.heap.next = new
  BY <1>8, <1>10 DEF HeapsOf
<1> QED BY <1>9, <1>10, <1>11 DEF r

(* Neighbouring segments make one.                                         *)
LEMMA JoinSegments ==
    ASSUME NEW N \in Nat, NEW arr \in [1 .. N -> 1 .. N], NEW lo \in 1 .. (N + 1),
           NEW mid \in (lo - 1) .. N, NEW hi \in mid .. N
    PROVE  Segment(arr, lo, mid) \o Segment(arr, mid + 1, hi) = Segment(arr, lo, hi)
<1> DEFINE s == Segment(arr, lo, mid)
           t == Segment(arr, mid + 1, hi)
           u == Segment(arr, lo, hi)
           n == mid + 1 - lo
           k == hi - mid
<1>1. n \in Nat /\ k \in Nat /\ hi + 1 - lo = n + k /\ hi + 1 - (mid + 1) = k
  OBVIOUS
<1>2. s \in Seq(1 .. N) /\ Len(s) = n /\ \A j \in 1 .. n : s[j] = arr[lo + j - 1]
  BY SegmentType DEF Segment
<1>3. t \in Seq(1 .. N) /\ Len(t) = k /\ \A j \in 1 .. k : t[j] = arr[mid + 1 + j - 1]
  <2> DEFINE lo2 == mid + 1
  <2>1. lo2 \in 1 .. (N + 1) /\ hi \in (lo2 - 1) .. N
    OBVIOUS
  <2> HIDE DEF lo2
  <2>a. Segment(arr, lo2, hi) \in Seq(1 .. N) /\ Len(Segment(arr, lo2, hi)) = hi + 1 - lo2
    BY <2>1, SegmentType
  <2>2. t \in Seq(1 .. N) /\ Len(t) = hi + 1 - (mid + 1)
    BY <2>a DEF lo2
  <2>3. \A j \in 1 .. (hi + 1 - (mid + 1)) : t[j] = arr[mid + 1 + j - 1]
    BY DEF Segment
  <2> QED BY <1>1, <2>2, <2>3
<1>4. u \in Seq(1 .. N) /\ Len(u) = n + k /\ \A j \in 1 .. (n + k) : u[j] = arr[lo + j - 1]
  <2>1. hi \in (lo - 1) .. N
    OBVIOUS
  <2>2. u \in Seq(1 .. N) /\ Len(u) = hi + 1 - lo
    BY <2>1, SegmentType
  <2>3. \A j \in 1 .. (hi + 1 - lo) : u[j] = arr[lo + j - 1]
    BY DEF Segment
  <2> QED BY <1>1, <2>2, <2>3
<1> DEFINE v == s \o t
<1> HIDE DEF s, t, u
<1>5. v \in Seq(1 .. N) /\ Len(v) = n + k
      /\ \A j \in 1 .. (n + k) : v[j] = IF j <= n THEN s[j] ELSE t[j - n]
  <2> DEFINE C == 1 .. N
  <2> HIDE DEF C, n, k
  <2>1. s \in Seq(C) /\ t \in Seq(C) /\ Len(s) = n /\ Len(t) = k
    BY <1>2, <1>3 DEF C
  <2>2. v \in Seq(C) /\ Len(v) = Len(s) + Len(t)
        /\ \A j \in 1 .. (Len(s) + Len(t)) : v[j] = IF j <= Len(s) THEN s[j] ELSE t[j - Len(s)]
    BY <2>1, ConcatProperties
  <2> QED BY <2>1, <2>2 DEF C
<1> HIDE DEF v
<1>6. \A j \in 1 .. (n + k) : v[j] = u[j]
  <2> SUFFICES ASSUME NEW j \in 1 .. (n + k) PROVE v[j] = u[j]
    OBVIOUS
  <2>1. CASE j <= n
    BY <1>1, <1>2, <1>4, <1>5, <2>1
  <2>2. CASE j > n
    <3>1. j - n \in 1 .. k /\ mid + 1 + (j - n) - 1 = lo + j - 1
      BY <1>1, <2>2
    <3>2. v[j] = t[j - n] /\ t[j - n] = arr[mid + 1 + (j - n) - 1]
      BY <1>1, <1>3, <1>5, <2>2, <3>1
    <3> QED BY <1>4, <3>1, <3>2
  <2> QED BY <1>1, <2>1, <2>2
<1>7. v = u
  BY <1>4, <1>5, <1>6
<1> QED BY <1>7 DEF s, t, u, v

(* The segment from the first to the last cell is all of them.             *)
LEMMA WholeSegment ==
    ASSUME NEW N \in Nat, NEW arr \in [1 .. N -> 1 .. N]
    PROVE  Segment(arr, 1, N) = arr
BY DEF Segment

(* A walk of no cells meets none.                                          *)
LEMMA WalkZero == ASSUME NEW next, NEW p PROVE Walk(next, p, 0) = << >>
<1> DEFINE init == [cells |-> << >>, at |-> p]
           body == [k \in 1 .. 0 |-> [x \in [cells : Seq(Nat), at : Nat] |->
                       IF x.at = NULL THEN x
                       ELSE [cells |-> Append(x.cells, x.at), at |-> next[x.at]]]]
           val == [k \in {0} |-> init]
<1>1. Walk(next, p, 0) = Loop(0, init, body).cells
  BY DEF Walk
<1> HIDE DEF body
<1> DEFINE z == 0
<1>2. val[0] = init /\ z \in Nat
  OBVIOUS
<1>b. \A k \in 1 .. z : body[k][val[k - 1]] = val[k]
  OBVIOUS
<1> HIDE DEF val, z, init
<1>a. Loop(z, init, body) = val[z]
  BY <1>2, <1>b, LoopValue
<1>3. Loop(0, init, body) = init
  BY <1>2, <1>a DEF z
<1> QED BY <1>1, <1>3 DEF init

(* A walk meets cells only.                                                *)
LEMMA WalkType ==
    ASSUME NEW N \in Nat, NEW next \in [1 .. N -> 0 .. N], NEW p \in 0 .. N, NEW n \in Nat
    PROVE  Walk(next, p, n) \in Seq(1 .. N)
<1> DEFINE S == [cells : Seq(Nat), at : Nat]
           Good == [cells : Seq(1 .. N), at : 0 .. N]
           init == [cells |-> << >>, at |-> p]
           body == [k \in 1 .. n |-> [x \in S |->
                       IF x.at = NULL THEN x
                       ELSE [cells |-> Append(x.cells, x.at), at |-> next[x.at]]]]
<1>1. init \in Good
  OBVIOUS
<1>2. \A k \in 1 .. n : \A x \in Good : body[k][x] \in Good
  <2> SUFFICES ASSUME NEW k \in 1 .. n, NEW x \in Good PROVE body[k][x] \in Good
    OBVIOUS
  <2>1. x.cells \in Seq(1 .. N) /\ x.at \in 0 .. N
    OBVIOUS
  <2>2. x \in S
    <3> DEFINE C == 1 .. N
               cells == x.cells
    <3>1. C \subseteq Nat /\ cells \in Seq(C)
      BY <2>1
    <3> HIDE DEF C, cells
    <3>2. cells \in Seq(Nat)
      BY <3>1, SubsetSeq
    <3> QED BY <2>1, <3>2 DEF cells
  <2>3. CASE x.at = NULL
    BY <2>2, <2>3
  <2>4. CASE x.at # NULL
    <3>1. x.at \in 1 .. N
      BY <2>1, <2>4 DEF NULL
    <3>2. Append(x.cells, x.at) \in Seq(1 .. N) /\ next[x.at] \in 0 .. N
      BY <2>1, <3>1
    <3> QED BY <2>2, <2>4, <3>2
  <2> QED BY <2>3, <2>4
<1>3. Walk(next, p, n) = Loop(n, init, body).cells
  BY DEF Walk
<1> HIDE DEF Good, init, body
<1>4. Loop(n, init, body) \in Good
  BY <1>1, <1>2, LoopKeeps
<1> QED BY <1>3, <1>4 DEF Good

(* A list consists of cells.                                               *)
LEMMA ChainType ==
    ASSUME NEW N \in Nat, NEW h, h.next \in [1 .. N -> 0 .. N], NEW p \in 0 .. N
    PROVE  Chain(h, p) \in Seq(1 .. N) /\ Len(h.next) = N
<1> DEFINE f == h.next
<1>1. f \in [1 .. N -> 0 .. N]
  OBVIOUS
<1> HIDE DEF f
<1>2. Len(f) = N
  BY <1>1, SegmentIsSeq
<1> DEFINE n == N + 1
<1>3. n \in Nat
  OBVIOUS
<1> HIDE DEF n
<1>4. Walk(f, p, n) \in Seq(1 .. N)
  BY <1>1, <1>3, WalkType
<1> QED BY <1>2, <1>4 DEF Chain, f, n

(* core_list_find returns a cell or NULL.                                  *)
LEMMA FindType ==
    ASSUME NEW N \in Nat, NEW h \in HeapsOf(N), NEW p \in 0 .. N, NEW info
    PROVE  core_list_find(h, p, info) \in 0 .. N
<1> DEFINE cells == Chain(h, p)
           hits == {k \in DOMAIN cells :
                      IF info.idx >= 0 THEN Datum(h, cells[k]).idx = info.idx
                      ELSE Datum(h, cells[k]).data16 % 256 = info.data16}
<1>1. cells \in Seq(1 .. N)
  <2>1. h.next \in [1 .. N -> 0 .. N]
    BY DEF HeapsOf
  <2> QED BY <2>1, ChainType
<1>2. core_list_find(h, p, info) = IF hits = {} THEN NULL ELSE cells[Min(hits)]
  BY DEF core_list_find
<1>3. hits \subseteq DOMAIN cells
  OBVIOUS
<1> HIDE DEF cells, hits
<1>4. DOMAIN cells \subseteq Nat /\ \A k \in DOMAIN cells : cells[k] \in 1 .. N
  BY <1>1
<1>5. ASSUME hits # {} PROVE Min(hits) \in DOMAIN cells
  <2>1. PICK m \in hits : \A k \in hits : m <= k
    BY <1>3, <1>4, <1>5, LeastNat
  <2>2. Min(hits) \in hits
    BY <2>1 DEF Min
  <2> QED BY <1>3, <2>2
<1>6. CASE hits = {}
  BY <1>2, <1>6 DEF NULL
<1>7. CASE hits # {}
  <2>1. cells[Min(hits)] \in 1 .. N
    BY <1>4, <1>5, <1>7
  <2> QED BY <1>2, <1>7, <2>1
<1> QED BY <1>6, <1>7

---------------------------------------------------------------------------
(* The operations of core_bench_list on a whole list.                      *)

(* core_bench_list: moving the cell after the one found behind the head    *)
(* links the same cells in another order, and the head stays.              *)
LEMMA MoveNextToFrontIs ==
    ASSUME NEW N \in Nat, N > 0, NEW h \in HeapsOf(N), NEW arr \in Perms(N),
           NEW l, ListAt(h.next, arr, N, l), NEW found \in 1 .. N
    PROVE  /\ MoveNextToFront(h, l, found) \in HeapsOf(N)
           /\ MoveNextToFront(h, l, found).info = h.info
           /\ MoveNextToFront(h, l, found).data = h.data
           /\ \E new \in Perms(N) : ListAt(MoveNextToFront(h, l, found).next, new, N, l)
<1>1. PICK i \in 1 .. N : arr[i] = found
  BY DEF Perms
<1>2. CASE i = N
  <2>1. h.next[found] = NULL
    BY <1>1, <1>2 DEF ListAt
  <2>2. MoveNextToFront(h, l, found) = h
    BY <2>1 DEF MoveNextToFront
  <2> QED BY <2>2
<1>3. CASE i < N
  <2> DEFINE next == h.next
             unlinked == [next EXCEPT ![arr[i]] = next[arr[i + 1]]]
             to == [unlinked EXCEPT ![arr[i + 1]] = unlinked[l], ![l] = arr[i + 1]]
             new == Down(arr, 2, i + 1)
  <2>1. next \in [1 .. N -> 0 .. N] /\ arr \in [1 .. N -> 1 .. N] /\ DOMAIN arr = 1 .. N
    BY DEF HeapsOf, Perms
  <2>2. l = arr[1] /\ next[arr[N]] = NULL /\ \A k \in 1 .. (N - 1) : next[arr[k]] = arr[k + 1]
    BY DEF ListAt, Linked
  <2>3. \A j, k \in 1 .. N : arr[j] = arr[k] => j = k
    BY DEF Perms
  <2>4. arr[i] = found /\ h.next[found] = arr[i + 1] /\ arr[i + 1] # NULL
        /\ i \in 1 .. N /\ i + 1 \in 1 .. N /\ 1 \in 1 .. N /\ 2 \in 1 .. N
    <3>1. i \in 1 .. (N - 1) /\ i \in 1 .. N /\ i + 1 \in 1 .. N /\ 1 \in 1 .. N /\ 2 \in 1 .. N
      BY <1>3
    <3>2. next[arr[i]] = arr[i + 1] /\ arr[i + 1] \in 1 .. N
      BY <2>1, <2>2, <3>1
    <3> QED BY <1>1, <3>1, <3>2 DEF NULL
  <2>5. MoveNextToFront(h, l, found) = [h EXCEPT !.next = to]
    BY <2>4 DEF MoveNextToFront
  <2>6. to \in [1 .. N -> 0 .. N]
    BY <2>1, <2>2, <2>4
  <2>7. new \in Perms(N)
    <3>1. i + 1 \in 2 .. N
      BY <1>3
    <3> QED BY <2>4, <3>1, DownIsPerm
  <2>8. \A k \in 1 .. N : to[arr[k]] = CASE k = 1 -> arr[i + 1]
                                        [] k = i + 1 -> (IF i = 1 THEN next[arr[2]] ELSE arr[2])
                                        [] k = i /\ k # 1 -> next[arr[i + 1]]
                                        [] OTHER -> next[arr[k]]
    <3> HIDE DEF next
    <3> SUFFICES ASSUME NEW k \in 1 .. N
                 PROVE  to[arr[k]] = CASE k = 1 -> arr[i + 1]
                                        [] k = i + 1 -> (IF i = 1 THEN next[arr[2]] ELSE arr[2])
                                        [] k = i /\ k # 1 -> next[arr[i + 1]]
                                        [] OTHER -> next[arr[k]]
      OBVIOUS
    <3>0. arr[k] \in 1 .. N /\ arr[i] \in 1 .. N /\ arr[i + 1] \in 1 .. N /\ l \in 1 .. N
          /\ l # arr[i + 1] /\ arr[i] # arr[i + 1]
      <4>1. arr[k] \in 1 .. N /\ arr[i] \in 1 .. N /\ arr[i + 1] \in 1 .. N /\ l \in 1 .. N
        BY <2>1, <2>2, <2>4
      <4>2. i # i + 1 /\ 1 # i + 1
        OBVIOUS
      <4> QED BY <2>2, <2>3, <2>4, <4>1, <4>2
    <3>1. to[arr[k]] = IF arr[k] = l THEN arr[i + 1]
                       ELSE IF arr[k] = arr[i + 1] THEN unlinked[l] ELSE unlinked[arr[k]]
      BY <2>1, <3>0
    <3>2. /\ unlinked[l] = IF l = arr[i] THEN next[arr[i + 1]] ELSE next[l]
          /\ unlinked[arr[k]] = IF arr[k] = arr[i] THEN next[arr[i + 1]] ELSE next[arr[k]]
      BY <2>1, <3>0
    <3>3. /\ arr[k] = l <=> k = 1
          /\ arr[k] = arr[i + 1] <=> k = i + 1
          /\ arr[k] = arr[i] <=> k = i
          /\ l = arr[i] <=> i = 1
      BY <2>2, <2>3, <2>4
    <3>4. next[l] = arr[2] \/ N = 1
      BY <2>2
    <3> QED BY <1>3, <3>1, <3>2, <3>3, <3>4
  <2>9. ListAt(to, new, N, l)
    <3>1. \A k \in 1 .. N : new[k] = IF k = 2 THEN arr[i + 1]
                              ELSE IF k \in 3 .. (i + 1) THEN arr[k - 1] ELSE arr[k]
      BY <2>1 DEF Down
    <3> HIDE DEF to, new, next
    <3>2. new[1] = l
      BY <2>2, <2>4, <3>1
    <3>3. ASSUME NEW k \in 1 .. (N - 1) PROVE to[new[k]] = new[k + 1]
      <4>1. CASE k = 1
        <5>1. new[1] = arr[1] /\ new[2] = arr[i + 1] /\ to[arr[1]] = arr[i + 1]
          BY <2>4, <2>8, <3>1
        <5> QED BY <4>1, <5>1
      <4>2. CASE k = 2
        <5>1. k + 1 \in 1 .. N /\ k + 1 = 3
          BY <4>2
        <5>2. new[2] = arr[i + 1] /\ new[3] = IF i = 1 THEN arr[3] ELSE arr[2]
          BY <2>4, <3>1, <5>1
        <5>3. to[arr[i + 1]] = IF i = 1 THEN next[arr[2]] ELSE arr[2]
          BY <2>4, <2>8
        <5>4. next[arr[2]] = arr[2 + 1]
          BY <2>2, <4>2
        <5> QED BY <4>2, <5>1, <5>2, <5>3, <5>4
      <4>3. CASE k \in 3 .. i
        <5>1. new[k] = arr[k - 1] /\ new[k + 1] = arr[k] /\ k - 1 \in 1 .. (N - 1) /\ k - 1 \in 1 .. N
          BY <3>1, <4>3, <2>4
        <5>2. to[arr[k - 1]] = next[arr[k - 1]]
          BY <2>8, <4>3, <5>1
        <5>3. next[arr[k - 1]] = arr[(k - 1) + 1]
          BY <2>2, <5>1
        <5> QED BY <5>1, <5>2, <5>3
      <4>4. CASE k = i + 1 /\ k > 2
        <5>1. new[k] = arr[i] /\ new[k + 1] = arr[k + 1] /\ i # 1
          BY <3>1, <4>4, <2>4
        <5>2. to[arr[i]] = next[arr[i + 1]]
          BY <2>4, <2>8, <4>4
        <5>3. next[arr[i + 1]] = arr[(i + 1) + 1]
          BY <2>2, <4>4
        <5> QED BY <4>4, <5>1, <5>2, <5>3
      <4>5. CASE k > i + 1
        <5>1. new[k] = arr[k] /\ new[k + 1] = arr[k + 1] /\ k \in 1 .. N /\ k # 1 /\ k # i /\ k # i + 1
          BY <3>1, <4>5, <2>4
        <5>2. to[arr[k]] = next[arr[k]]
          BY <2>8, <5>1
        <5> QED BY <2>2, <5>1, <5>2
      <4> QED BY <4>1, <4>2, <4>3, <4>4, <4>5
    <3>4. to[new[N]] = NULL
      <4>1. CASE i + 1 < N
        <5>1. new[N] = arr[N] /\ N \in 1 .. N /\ N # 1 /\ N # i /\ N # i + 1
          BY <3>1, <4>1, <2>4
        <5> QED BY <2>2, <2>8, <5>1
      <4>2. CASE i + 1 = N /\ i # 1
        <5>1. new[N] = arr[i] /\ to[arr[i]] = next[arr[i + 1]]
          BY <2>4, <2>8, <3>1, <4>2
        <5> QED BY <2>2, <4>2, <5>1
      <4>3. CASE i + 1 = N /\ i = 1
        <5>1. new[N] = arr[i + 1] /\ to[arr[i + 1]] = next[arr[2]]
          BY <2>4, <2>8, <3>1, <4>3
        <5> QED BY <2>2, <4>3, <5>1
      <4> QED BY <1>3, <4>1, <4>2, <4>3
    <3> QED BY <3>2, <3>3, <3>4 DEF ListAt, Linked
  <2> HIDE DEF to, new
  <2>10. MoveNextToFront(h, l, found).next = to /\ MoveNextToFront(h, l, found).info = h.info
         /\ MoveNextToFront(h, l, found).data = h.data
         /\ MoveNextToFront(h, l, found) \in HeapsOf(N)
    BY <2>5, <2>6 DEF HeapsOf
  <2> QED BY <2>7, <2>9, <2>10
<1> QED BY <1>2, <1>3

(* core_list_remove and core_list_undo_remove of the cell after the second. *)
Identity(N) == [c \in 1 .. N |-> c]

(* Cell r is out of the list, and m has its datum.                         *)
RemovedAt(h, arr, N, l, r) ==
    /\ l = arr[1] /\ Linked(h.next, arr, 1, N - 1) /\ h.next[arr[N - 1]] = NULL /\ r = arr[N]
    /\ h.info = [Identity(N) EXCEPT ![arr[2]] = r, ![r] = arr[2]]

(* core_list_remove of the second cell takes the third out of the list and *)
(* leaves the others linked.                                               *)
LEMMA RemoveIs ==
    ASSUME NEW N \in Nat, N >= 3, NEW h \in HeapsOf(N), NEW arr \in Perms(N),
           NEW l, ListAt(h.next, arr, N, l), h.info = Identity(N)
    PROVE  /\ core_list_remove(h, h.next[l]) \in HeapsOf(N)
           /\ core_list_remove(h, h.next[l]).data = h.data
           /\ \E new \in Perms(N) :
                 RemovedAt(core_list_remove(h, h.next[l]), new, N, l, h.next[h.next[l]])
<1> DEFINE next == h.next
           to == [next EXCEPT ![arr[2]] = next[arr[3]], ![arr[3]] = NULL]
           info == [Identity(N) EXCEPT ![arr[2]] = arr[3], ![arr[3]] = arr[2]]
           new == Up(arr, 3, N)
           r == core_list_remove(h, h.next[l])
<1>1. next \in [1 .. N -> 0 .. N] /\ arr \in [1 .. N -> 1 .. N] /\ DOMAIN arr = 1 .. N
  BY DEF HeapsOf, Perms
<1>2. l = arr[1] /\ next[arr[N]] = NULL /\ \A k \in 1 .. (N - 1) : next[arr[k]] = arr[k + 1]
  BY DEF ListAt, Linked
<1>3. \A j, k \in 1 .. N : arr[j] = arr[k] => j = k
  BY DEF Perms
<1>4. h.next[l] = arr[2] /\ h.next[arr[2]] = arr[3] /\ arr[2] \in 1 .. N /\ arr[3] \in 1 .. N
      /\ arr[2] # arr[3]
  <2>1. 1 \in 1 .. (N - 1) /\ 2 \in 1 .. (N - 1) /\ 2 \in 1 .. N /\ 3 \in 1 .. N
    OBVIOUS
  <2>2. next[arr[1]] = arr[1 + 1] /\ next[arr[2]] = arr[2 + 1]
    BY <1>2, <2>1
  <2>3. arr[2] \in 1 .. N /\ arr[3] \in 1 .. N
    BY <1>1, <2>1
  <2>4. 2 # 3
    OBVIOUS
  <2>5. arr[2] # arr[3]
    BY <1>3, <2>1, <2>4
  <2> QED BY <1>2, <2>2, <2>3, <2>5
<1>5. h.info[arr[2]] = arr[2] /\ h.info[arr[3]] = arr[3]
  BY <1>4 DEF Identity
<1>6. r = [h EXCEPT !.info = info, !.next = to]
  BY <1>4, <1>5 DEF core_list_remove
<1>7. to \in [1 .. N -> 0 .. N] /\ info \in [1 .. N -> 1 .. N]
  <2>1. next[arr[3]] \in 0 .. N /\ NULL \in 0 .. N
    <3> HIDE DEF next
    <3> QED BY <1>1, <1>4 DEF NULL
  <2>2. Identity(N) \in [1 .. N -> 1 .. N]
    BY DEF Identity
  <2> HIDE DEF next
  <2> QED BY <1>1, <1>4, <2>1, <2>2
<1>8. new \in Perms(N)
  BY UpIsPerm
<1>9. \A k \in 1 .. N : new[k] = IF k = N THEN arr[3] ELSE IF k \in 3 .. (N - 1) THEN arr[k + 1] ELSE arr[k]
  BY <1>1 DEF Up
<1>10. \A k \in 1 .. N : to[arr[k]] = CASE k = 2 -> next[arr[3]] [] k = 3 -> NULL [] OTHER -> next[arr[k]]
  <2> HIDE DEF next
  <2> SUFFICES ASSUME NEW k \in 1 .. N
               PROVE  to[arr[k]] = CASE k = 2 -> next[arr[3]] [] k = 3 -> NULL [] OTHER -> next[arr[k]]
    OBVIOUS
  <2>1. arr[k] \in 1 .. N /\ (arr[k] = arr[2] <=> k = 2) /\ (arr[k] = arr[3] <=> k = 3)
    <3>1. 2 \in 1 .. N /\ 3 \in 1 .. N
      OBVIOUS
    <3> QED BY <1>1, <1>3, <3>1
  <2> QED BY <1>1, <1>4, <2>1
<1>11. RemovedAt(r, new, N, l, arr[3])
  <2> HIDE DEF to, new, next, info
  <2>1. r.next = to /\ r.info = info
    BY <1>6 DEF HeapsOf
  <2>2. l = new[1] /\ new[N] = arr[3] /\ new[2] = arr[2]
    BY <1>2, <1>9
  <2>3. ASSUME NEW k \in 1 .. (N - 2) PROVE to[new[k]] = new[k + 1]
    <3>1. CASE k = 1
      <4>1. to[arr[1]] = next[arr[1]] /\ new[1] = arr[1] /\ next[arr[1]] = arr[2] /\ new[2] = arr[2]
        BY <1>2, <1>4, <1>9, <1>10
      <4> QED BY <3>1, <4>1
    <3>2. CASE k = 2
      <4>1. to[arr[2]] = next[arr[3]] /\ new[2] = arr[2] /\ new[3] = arr[4] /\ 3 \in 1 .. (N - 1)
        BY <1>9, <1>10, <3>2
      <4>2. next[arr[3]] = arr[3 + 1]
        BY <1>2, <4>1
      <4> QED BY <3>2, <4>1, <4>2
    <3>3. CASE k >= 3
      <4>1. new[k] = arr[k + 1] /\ new[k + 1] = arr[(k + 1) + 1] /\ k + 1 \in 1 .. (N - 1)
            /\ k + 1 \in 1 .. N
        BY <1>9, <3>3
      <4>2. to[arr[k + 1]] = next[arr[k + 1]]
        BY <1>10, <3>3, <4>1
      <4> QED BY <1>2, <4>1, <4>2
    <3> QED BY <3>1, <3>2, <3>3
  <2>4. to[new[N - 1]] = NULL
    <3>1. CASE N = 3
      <4>1. new[2] = arr[2] /\ to[arr[2]] = next[arr[3]]
        BY <1>9, <1>10
      <4> QED BY <1>2, <3>1, <4>1
    <3>2. CASE N > 3
      <4>1. new[N - 1] = arr[(N - 1) + 1] /\ to[arr[N]] = next[arr[N]]
        BY <1>9, <1>10, <3>2
      <4> QED BY <1>2, <4>1
    <3> QED BY <3>1, <3>2
  <2>5. Linked(r.next, new, 1, N - 1)
    BY <2>1, <2>3 DEF Linked
  <2>6. r.info = [Identity(N) EXCEPT ![new[2]] = arr[3], ![arr[3]] = new[2]]
    BY <2>1, <2>2 DEF info
  <2> QED BY <2>1, <2>2, <2>4, <2>5, <2>6 DEF RemovedAt
<1>12. r \in HeapsOf(N) /\ r.data = h.data
  <2> HIDE DEF to, info
  <2> QED BY <1>6, <1>7 DEF HeapsOf
<1> HIDE DEF new, r
<1> QED BY <1>4, <1>8, <1>11, <1>12 DEF r

(* core_list_undo_remove puts the cell back and every datum to its cell.   *)
LEMMA UndoIs ==
    ASSUME NEW N \in Nat, N >= 3, NEW h \in HeapsOf(N), NEW arr \in Perms(N),
           NEW l, NEW rem, RemovedAt(h, arr, N, l, rem)
    PROVE  /\ core_list_undo_remove(h, rem, h.next[l]) \in HeapsOf(N)
           /\ core_list_undo_remove(h, rem, h.next[l]).data = h.data
           /\ core_list_undo_remove(h, rem, h.next[l]).info = Identity(N)
           /\ \E new \in Perms(N) :
                 ListAt(core_list_undo_remove(h, rem, h.next[l]).next, new, N, l)
<1> DEFINE next == h.next
           to == [next EXCEPT ![arr[N]] = next[arr[2]], ![arr[2]] = arr[N]]
           info == [h.info EXCEPT ![arr[N]] = h.info[arr[2]], ![arr[2]] = h.info[arr[N]]]
           new == Down(arr, 3, N)
           r == core_list_undo_remove(h, rem, h.next[l])
<1>1. next \in [1 .. N -> 0 .. N] /\ arr \in [1 .. N -> 1 .. N] /\ DOMAIN arr = 1 .. N
  BY DEF HeapsOf, Perms
<1>2. l = arr[1] /\ next[arr[N - 1]] = NULL /\ rem = arr[N]
      /\ \A k \in 1 .. (N - 2) : next[arr[k]] = arr[k + 1]
  BY DEF RemovedAt, Linked
<1>3. \A j, k \in 1 .. N : arr[j] = arr[k] => j = k
  BY DEF Perms
<1>4. h.next[l] = arr[2] /\ arr[2] \in 1 .. N /\ arr[N] \in 1 .. N /\ arr[2] # arr[N]
  <2>1. 1 \in 1 .. (N - 2) /\ 2 \in 1 .. N /\ N \in 1 .. N /\ N # 2
    OBVIOUS
  <2>2. next[arr[1]] = arr[1 + 1]
    BY <1>2, <2>1
  <2>3. arr[2] \in 1 .. N /\ arr[N] \in 1 .. N
    BY <1>1, <2>1
  <2>5. arr[2] # arr[N]
    BY <1>3, <2>1
  <2> QED BY <1>2, <2>2, <2>3, <2>5
<1>5. info = Identity(N)
  <2>1. h.info = [Identity(N) EXCEPT ![arr[2]] = arr[N], ![arr[N]] = arr[2]]
    BY <1>2 DEF RemovedAt
  <2>2. h.info[arr[2]] = arr[N] /\ h.info[arr[N]] = arr[2]
    BY <1>4, <2>1 DEF Identity
  <2>3. DOMAIN info = 1 .. N /\ \A c \in 1 .. N : info[c] = c
    BY <1>4, <2>1, <2>2 DEF Identity
  <2>4. info = [c \in 1 .. N |-> info[c]]
    BY <2>1 DEF Identity
  <2> HIDE DEF info
  <2> QED BY <2>3, <2>4 DEF Identity
<1>6. r = [h EXCEPT !.info = info, !.next = to]
  BY <1>2, <1>4 DEF core_list_undo_remove
<1>7. to \in [1 .. N -> 0 .. N] /\ info \in [1 .. N -> 1 .. N]
  <2>1. next[arr[2]] \in 0 .. N /\ arr[N] \in 0 .. N
    <3> HIDE DEF next
    <3> QED BY <1>1, <1>4
  <2>2. Identity(N) \in [1 .. N -> 1 .. N]
    BY DEF Identity
  <2> HIDE DEF next, info
  <2> QED BY <1>1, <1>4, <1>5, <2>1, <2>2
<1>8. new \in Perms(N)
  BY DownIsPerm
<1>9. \A k \in 1 .. N : new[k] = IF k = 3 THEN arr[N] ELSE IF k \in 4 .. N THEN arr[k - 1] ELSE arr[k]
  BY <1>1 DEF Down
<1>10. \A k \in 1 .. N : to[arr[k]] = CASE k = N -> next[arr[2]] [] k = 2 -> arr[N] [] OTHER -> next[arr[k]]
  <2> HIDE DEF next
  <2> SUFFICES ASSUME NEW k \in 1 .. N
               PROVE  to[arr[k]] = CASE k = N -> next[arr[2]] [] k = 2 -> arr[N] [] OTHER -> next[arr[k]]
    OBVIOUS
  <2>1. arr[k] \in 1 .. N /\ (arr[k] = arr[2] <=> k = 2) /\ (arr[k] = arr[N] <=> k = N) /\ N # 2
    <3>1. 2 \in 1 .. N /\ N \in 1 .. N
      OBVIOUS
    <3>2. arr[k] \in 1 .. N /\ N # 2
      BY <1>1, SMTT(30)
    <3>3. arr[k] = arr[2] => k = 2
      BY <1>3, <3>1
    <3>4. arr[k] = arr[N] => k = N
      BY <1>3, <3>1
    <3> QED BY <3>2, <3>3, <3>4
  <2> QED BY <1>1, <1>4, <2>1
<1>11. ListAt(to, new, N, l)
  <2> HIDE DEF to, new, next, info
  <2>2. l = new[1]
    BY <1>2, <1>9
  <2>3. ASSUME NEW k \in 1 .. (N - 1) PROVE to[new[k]] = new[k + 1]
    <3>1. CASE k = 1
      <4>1. to[arr[1]] = next[arr[1]] /\ new[1] = arr[1] /\ next[arr[1]] = arr[1 + 1] /\ new[2] = arr[2]
        BY <1>2, <1>9, <1>10
      <4> QED BY <3>1, <4>1
    <3>2. CASE k = 2
      <4>1. to[arr[2]] = arr[N] /\ new[2] = arr[2] /\ new[3] = arr[N]
        BY <1>9, <1>10, <3>2
      <4> QED BY <3>2, <4>1
    <3>3. CASE k = 3
      <4>1. to[arr[N]] = next[arr[2]] /\ new[3] = arr[N] /\ new[4] = arr[3] /\ 2 \in 1 .. (N - 2)
        BY <1>9, <1>10, <3>3
      <4>2. next[arr[2]] = arr[2 + 1]
        BY <1>2, <4>1
      <4> QED BY <3>3, <4>1, <4>2
    <3>4. CASE k >= 4
      <4>1. new[k] = arr[k - 1] /\ new[k + 1] = arr[(k - 1) + 1] /\ k - 1 \in 1 .. (N - 2)
            /\ k - 1 \in 1 .. N
        BY <1>9, <3>4
      <4>2. to[arr[k - 1]] = next[arr[k - 1]]
        BY <1>10, <3>4, <4>1
      <4> QED BY <1>2, <4>1, <4>2
    <3> QED BY <3>1, <3>2, <3>3, <3>4
  <2>4. to[new[N]] = NULL
    <3>1. CASE N = 3
      <4>1. new[N] = arr[N] /\ to[arr[N]] = next[arr[2]]
        BY <1>9, <1>10, <3>1
      <4> QED BY <1>2, <3>1, <4>1
    <3>2. CASE N > 3
      <4>1. new[N] = arr[N - 1] /\ to[arr[N - 1]] = next[arr[N - 1]]
        BY <1>9, <1>10, <3>2
      <4> QED BY <1>2, <4>1
    <3> QED BY <3>1, <3>2
  <2> QED BY <2>2, <2>3, <2>4 DEF ListAt, Linked
<1>12. r \in HeapsOf(N) /\ r.data = h.data /\ r.next = to /\ r.info = info
  <2> HIDE DEF to, info
  <2> QED BY <1>6, <1>7 DEF HeapsOf
<1> HIDE DEF new, to, info, r
<1> QED BY <1>5, <1>8, <1>11, <1>12 DEF r

---------------------------------------------------------------------------
(* core_list_mergesort.                                                    *)

(* A merge under way.  arr lists the cells: 1 .. a are merged, a + 1 .. b  *)
(* are left of p's run and the rest hangs on q; the current merge began at *)
(* s.  R[c] is the set of the cells that may follow c in an ordered list.  *)
Parts(next, arr, N, a, b, m) ==
    /\ a \in 0 .. N /\ b \in a .. N
    /\ m.list = (IF a = 0 THEN NULL ELSE arr[1])
    /\ m.tail = (IF a = 0 THEN NULL ELSE arr[a])
    /\ Linked(next, arr, 1, a) /\ Linked(next, arr, a + 1, b) /\ Linked(next, arr, b + 1, N)
    /\ b < N => next[arr[N]] = NULL

(* Neighbours are in order but at multiples of w; and everywhere.          *)
Runs(arr, lo, hi, w, R) == \A k \in lo .. (hi - 1) : k % w # 0 => arr[k + 1] \in R[arr[k]]
Ascending(arr, lo, hi, R) == \A k \in lo .. (hi - 1) : arr[k + 1] \in R[arr[k]]

(* psize and qsize, and where the merge under way began.                   *)
Sizes(N, a, b, s, m) ==
    /\ m.insize \in Nat /\ m.insize > 0 /\ m.nmerges \in Nat /\ m.nmerges > 0
    /\ m.psize = b - a /\ m.qsize \in 0 .. m.insize
    /\ s \in 0 .. a /\ s % (2 * m.insize) = 0
    /\ b <= s + 2 * m.insize
    /\ b < N => b + m.qsize = s + 2 * m.insize
    /\ m.nmerges = 1 => s = 0

(* What was merged last may stand before both heads.                       *)
Heads(arr, N, a, b, s, m, R) ==
    a > s => /\ b > a => arr[a + 1] \in R[arr[a]]
             /\ b < N /\ m.qsize > 0 => arr[b + 1] \in R[arr[a]]

(* core_list_mergesort between two elements of a merge.                    *)
AtElement(next, arr, N, a, b, s, m, R) ==
    /\ Parts(next, arr, N, a, b, m)
    /\ Sizes(N, a, b, s, m)
    /\ b > a => m.p = arr[a + 1]
    /\ m.q = IF b = N THEN NULL ELSE arr[b + 1]
    /\ Runs(arr, 1, a, 2 * m.insize, R)
    /\ Ascending(arr, a + 1, b, R)
    /\ Runs(arr, b + 1, N, m.insize, R)
    /\ Heads(arr, N, a, b, s, m, R)

(* Cell e is appended to the merged part.                                  *)
Appended(next, m, e) == IF m.tail = NULL THEN next ELSE [next EXCEPT ![m.tail] = e]

(* Taking the next cell from p, when it may stand before q, keeps all      *)
(* cells linked, the merged part in order and the rest in runs.            *)
LEMMA TakePIs ==
    ASSUME NEW N \in Nat, NEW next \in [1 .. N -> 0 .. N], NEW arr \in Perms(N),
           NEW a, NEW b, NEW s, NEW m, NEW R, AtElement(next, arr, N, a, b, s, m, R),
           b > a, b < N /\ m.qsize > 0 => arr[b + 1] \in R[arr[a + 1]],
           NEW m2,
           m2.list = (IF m.tail = NULL THEN arr[a + 1] ELSE m.list), m2.tail = arr[a + 1],
           m2.p = next[arr[a + 1]], m2.q = m.q, m2.psize = m.psize - 1, m2.qsize = m.qsize,
           m2.insize = m.insize, m2.nmerges = m.nmerges
    PROVE  /\ Appended(next, m, arr[a + 1]) \in [1 .. N -> 0 .. N]
           /\ AtElement(Appended(next, m, arr[a + 1]), arr, N, a + 1, b, s, m2, R)
<1> DEFINE to == Appended(next, m, arr[a + 1])
<1>1. a \in 0 .. N /\ b \in 0 .. N /\ a + 1 \in 1 .. N /\ b \in (a + 1) .. N /\ s \in 0 .. a
  BY DEF AtElement, Parts, Sizes
<1>2. arr \in [1 .. N -> 1 .. N] /\ \A j, k \in 1 .. N : arr[j] = arr[k] => j = k
  BY DEF Perms
<1>3. m.tail = (IF a = 0 THEN NULL ELSE arr[a]) /\ arr[a + 1] \in 1 .. N /\ (a > 0 => arr[a] \in 1 .. N)
  BY <1>1, <1>2 DEF AtElement, Parts
<1>4. to \in [1 .. N -> 0 .. N]
  <2>1. arr[a + 1] \in 0 .. N
    BY <1>3
  <2> QED BY <2>1 DEF Appended
<1>5. \A k \in 1 .. N : to[arr[k]] = IF k = a THEN arr[a + 1] ELSE next[arr[k]]
  <2> SUFFICES ASSUME NEW k \in 1 .. N PROVE to[arr[k]] = IF k = a THEN arr[a + 1] ELSE next[arr[k]]
    OBVIOUS
  <2>1. CASE a = 0
    BY <1>3, <2>1 DEF Appended, NULL
  <2>2. CASE a > 0
    <3>1. a \in 1 .. N /\ arr[k] \in 1 .. N /\ m.tail = arr[a] /\ m.tail # NULL
      <4>1. a \in 1 .. N
        BY <1>1, <2>2
      <4>2. arr[k] \in 1 .. N /\ arr[a] \in 1 .. N
        BY <1>2, <4>1
      <4>3. m.tail = arr[a]
        BY <1>3, <2>2
      <4> QED BY <4>1, <4>2, <4>3 DEF NULL
    <3>2. arr[k] = arr[a] <=> k = a
      BY <1>2, <3>1
    <3> QED BY <3>1, <3>2 DEF Appended
  <2> QED BY <1>1, <2>1, <2>2
<1> HIDE DEF to
<1>6. Parts(to, arr, N, a + 1, b, m2)
  <2>1. m2.list = arr[1] /\ m2.tail = arr[a + 1] /\ a + 1 # 0
    BY <1>1, <1>3 DEF AtElement, Parts, NULL
  <2>2. Linked(to, arr, 1, a + 1)
    <3> SUFFICES ASSUME NEW k \in 1 .. ((a + 1) - 1) PROVE to[arr[k]] = arr[k + 1]
      BY DEF Linked
    <3>1. k \in 1 .. N /\ (k = a \/ k \in 1 .. (a - 1))
      BY <1>1
    <3>2. k \in 1 .. (a - 1) => next[arr[k]] = arr[k + 1]
      BY DEF AtElement, Parts, Linked
    <3> QED BY <1>1, <1>5, <3>1, <3>2
  <2>3. Linked(to, arr, (a + 1) + 1, b)
    <3> SUFFICES ASSUME NEW k \in ((a + 1) + 1) .. (b - 1) PROVE to[arr[k]] = arr[k + 1]
      BY DEF Linked
    <3>1. k \in 1 .. N /\ k # a /\ k \in (a + 1) .. (b - 1)
      BY <1>1
    <3>2. next[arr[k]] = arr[k + 1]
      BY <3>1 DEF AtElement, Parts, Linked
    <3> QED BY <1>5, <3>1, <3>2
  <2>4. Linked(to, arr, b + 1, N)
    <3> SUFFICES ASSUME NEW k \in (b + 1) .. (N - 1) PROVE to[arr[k]] = arr[k + 1]
      BY <1>1 DEF Linked
    <3>1. k \in 1 .. N /\ k # a
      BY <1>1
    <3>2. next[arr[k]] = arr[k + 1]
      BY DEF AtElement, Parts, Linked
    <3> QED BY <1>5, <3>1, <3>2
  <2>5. b < N => to[arr[N]] = NULL
    <3> SUFFICES ASSUME b < N PROVE to[arr[N]] = NULL
      OBVIOUS
    <3>1. N \in 1 .. N /\ N # a
      BY <1>1
    <3>2. next[arr[N]] = NULL
      BY DEF AtElement, Parts
    <3> QED BY <1>5, <3>1, <3>2
  <2> QED BY <1>1, <2>1, <2>2, <2>3, <2>4, <2>5 DEF Parts
<1>7. Sizes(N, a + 1, b, s, m2)
  BY <1>1 DEF AtElement, Sizes
<1>8. b > a + 1 => m2.p = arr[(a + 1) + 1]
  <2> SUFFICES ASSUME b > a + 1 PROVE m2.p = arr[(a + 1) + 1]
    OBVIOUS
  <2>1. a + 1 \in (a + 1) .. (b - 1)
    BY <1>1
  <2> QED BY <2>1 DEF AtElement, Parts, Linked
<1>9. m2.q = IF b = N THEN NULL ELSE arr[b + 1]
  BY DEF AtElement
<1>10. Runs(arr, 1, a + 1, 2 * m2.insize, R)
  <2> SUFFICES ASSUME NEW k \in 1 .. a, k % (2 * m.insize) # 0 PROVE arr[k + 1] \in R[arr[k]]
    BY <1>1 DEF Runs
  <2>1. CASE k < a
    BY <1>1, <2>1 DEF AtElement, Runs
  <2>2. CASE k = a
    <3>1. a # s
      BY <2>2 DEF AtElement, Sizes
    <3> QED BY <1>1, <2>2, <3>1 DEF AtElement, Heads
  <2> QED BY <1>1, <2>1, <2>2
<1>11. Ascending(arr, (a + 1) + 1, b, R)
  BY <1>1 DEF AtElement, Ascending
<1>12. Runs(arr, b + 1, N, m2.insize, R)
  BY DEF AtElement
<1>13. Heads(arr, N, a + 1, b, s, m2, R)
  <2>1. b > a + 1 => arr[(a + 1) + 1] \in R[arr[a + 1]]
    BY <1>1 DEF AtElement, Ascending
  <2> QED BY <2>1 DEF Heads
<1>14. AtElement(to, arr, N, a + 1, b, s, m2, R)
  BY <1>6, <1>7, <1>8, <1>9, <1>10, <1>11, <1>12, <1>13 DEF AtElement
<1> QED BY <1>4, <1>14 DEF to

(* Taking the next cell from q, when it may stand before p: the order of   *)
(* the cells changes, none is lost.                                        *)
LEMMA TakeQIs ==
    ASSUME NEW N \in Nat, NEW next \in [1 .. N -> 0 .. N], NEW arr \in Perms(N),
           NEW a, NEW b, NEW s, NEW m, NEW R, AtElement(next, arr, N, a, b, s, m, R),
           b < N, m.qsize > 0, b > a => arr[a + 1] \in R[arr[b + 1]],
           NEW m2,
           m2.list = (IF m.tail = NULL THEN arr[b + 1] ELSE m.list), m2.tail = arr[b + 1],
           m2.p = m.p, m2.q = next[arr[b + 1]], m2.psize = m.psize, m2.qsize = m.qsize - 1,
           m2.insize = m.insize, m2.nmerges = m.nmerges
    PROVE  /\ Appended(next, m, arr[b + 1]) \in [1 .. N -> 0 .. N]
           /\ AtElement(Appended(next, m, arr[b + 1]), Down(arr, a + 1, b + 1),
                        N, a + 1, b + 1, s, m2, R)
<1> DEFINE to == Appended(next, m, arr[b + 1])
           new == Down(arr, a + 1, b + 1)
           w == m.insize
<1>1. a \in 0 .. N /\ b \in a .. N /\ b + 1 \in (a + 1) .. N /\ b + 1 \in 1 .. N /\ s \in 0 .. a
  BY DEF AtElement, Parts, Sizes
<1>2. arr \in [1 .. N -> 1 .. N] /\ DOMAIN arr = 1 .. N
      /\ \A j, k \in 1 .. N : arr[j] = arr[k] => j = k
  BY DEF Perms
<1>3. m.tail = (IF a = 0 THEN NULL ELSE arr[a]) /\ arr[b + 1] \in 1 .. N /\ (a > 0 => arr[a] \in 1 .. N)
  BY <1>1, <1>2 DEF AtElement, Parts
<1>4. to \in [1 .. N -> 0 .. N]
  <2>1. arr[b + 1] \in 0 .. N
    BY <1>3
  <2> QED BY <2>1 DEF Appended
<1>5. \A k \in 1 .. N : to[arr[k]] = IF k = a THEN arr[b + 1] ELSE next[arr[k]]
  <2> SUFFICES ASSUME NEW k \in 1 .. N PROVE to[arr[k]] = IF k = a THEN arr[b + 1] ELSE next[arr[k]]
    OBVIOUS
  <2>1. CASE a = 0
    BY <1>3, <2>1 DEF Appended, NULL
  <2>2. CASE a > 0
    <3>1. a \in 1 .. N /\ arr[k] \in 1 .. N /\ m.tail = arr[a] /\ m.tail # NULL
      <4>1. a \in 1 .. N
        BY <1>1, <2>2
      <4>2. arr[k] \in 1 .. N /\ arr[a] \in 1 .. N
        BY <1>2, <4>1
      <4>3. m.tail = arr[a]
        BY <1>3, <2>2
      <4> QED BY <4>1, <4>2, <4>3 DEF NULL
    <3>2. arr[k] = arr[a] <=> k = a
      BY <1>2, <3>1
    <3> QED BY <3>1, <3>2 DEF Appended
  <2> QED BY <1>1, <2>1, <2>2
<1>6. \A k \in 1 .. N : new[k] = IF k = a + 1 THEN arr[b + 1]
                             ELSE IF k \in (a + 2) .. (b + 1) THEN arr[k - 1] ELSE arr[k]
  BY <1>1, <1>2 DEF Down
<1> HIDE DEF to, new
<1>7. Parts(to, new, N, a + 1, b + 1, m2)
  <2>1. m2.list = new[1] /\ m2.tail = new[a + 1] /\ a + 1 # 0
    <3>1. a > 0 => m.tail # NULL /\ m.list = arr[1]
      BY <1>3 DEF AtElement, Parts, NULL
    <3>2. a = 0 => m.tail = NULL
      BY <1>3
    <3>3. 1 \in 1 .. N /\ a + 1 \in 1 .. N
      BY <1>1
    <3> QED BY <1>1, <1>6, <3>1, <3>2, <3>3
  <2>2. Linked(to, new, 1, a + 1)
    <3> SUFFICES ASSUME NEW k \in 1 .. ((a + 1) - 1) PROVE to[new[k]] = new[k + 1]
      BY DEF Linked
    <3>1. k \in 1 .. N /\ k + 1 \in 1 .. N /\ (k = a \/ k \in 1 .. (a - 1))
      BY <1>1
    <3>2. k \in 1 .. (a - 1) => next[arr[k]] = arr[k + 1]
      BY DEF AtElement, Parts, Linked
    <3>a. /\ k # a + 1 /\ k \notin (a + 2) .. (b + 1)
          /\ k + 1 = a + 1 <=> k = a
          /\ k + 1 \notin (a + 2) .. (b + 1)
      <4>1. a \in Int /\ k \in Int /\ k <= a
        BY <1>1
      <4> QED BY <4>1
    <3>3. new[k] = arr[k] /\ new[k + 1] = IF k = a THEN arr[b + 1] ELSE arr[k + 1]
      BY <1>6, <3>1, <3>a
    <3> QED BY <1>1, <1>5, <3>1, <3>2, <3>3
  <2>3. Linked(to, new, (a + 1) + 1, b + 1)
    <3> SUFFICES ASSUME NEW k \in ((a + 1) + 1) .. ((b + 1) - 1) PROVE to[new[k]] = new[k + 1]
      BY DEF Linked
    <3>1. k \in 1 .. N /\ k + 1 \in 1 .. N /\ k - 1 \in 1 .. N /\ k - 1 # a
          /\ k - 1 \in (a + 1) .. (b - 1) /\ (k - 1) + 1 = k
      BY <1>1
    <3>2. next[arr[k - 1]] = arr[(k - 1) + 1]
      BY <3>1 DEF AtElement, Parts, Linked
    <3>3. new[k] = arr[k - 1] /\ new[k + 1] = arr[k]
      <4>1. k # a + 1 /\ k \in (a + 2) .. (b + 1) /\ k + 1 # a + 1
            /\ k + 1 \in (a + 2) .. (b + 1) /\ (k + 1) - 1 = k
        <5>1. a \in Int /\ b \in Int /\ k \in Int /\ a + 2 <= k /\ k <= b
          BY <1>1
        <5> QED BY <5>1
      <4> QED BY <1>6, <3>1, <4>1
    <3> QED BY <1>5, <3>1, <3>2, <3>3
  <2>4. Linked(to, new, (b + 1) + 1, N)
    <3> SUFFICES ASSUME NEW k \in ((b + 1) + 1) .. (N - 1) PROVE to[new[k]] = new[k + 1]
      BY DEF Linked
    <3>1. k \in 1 .. N /\ k + 1 \in 1 .. N /\ k # a /\ k \in (b + 1) .. (N - 1)
      BY <1>1
    <3>2. next[arr[k]] = arr[k + 1]
      BY <3>1 DEF AtElement, Parts, Linked
    <3>3. new[k] = arr[k] /\ new[k + 1] = arr[k + 1]
      <4>1. k # a + 1 /\ k \notin (a + 2) .. (b + 1) /\ k + 1 # a + 1
            /\ k + 1 \notin (a + 2) .. (b + 1)
        <5>1. a \in Int /\ b \in Int /\ k \in Int /\ a <= b /\ b + 2 <= k
          BY <1>1
        <5> QED BY <5>1
      <4> QED BY <1>6, <3>1, <4>1
    <3> QED BY <1>5, <3>1, <3>2, <3>3
  <2>5. b + 1 < N => to[new[N]] = NULL
    <3> SUFFICES ASSUME b + 1 < N PROVE to[new[N]] = NULL
      OBVIOUS
    <3>1. N \in 1 .. N /\ N # a
      BY <1>1
    <3>2. next[arr[N]] = NULL
      BY DEF AtElement, Parts
    <3>3. new[N] = arr[N]
      BY <1>1, <1>6, <3>1
    <3> QED BY <1>5, <3>1, <3>2, <3>3
  <2>6. a + 1 \in 0 .. N /\ b + 1 \in (a + 1) .. N
    BY <1>1
  <2> QED BY <2>1, <2>2, <2>3, <2>4, <2>5, <2>6 DEF Parts
<1>8. Sizes(N, a + 1, b + 1, s, m2)
  <2>1. Sizes(N, a, b, s, m)
    BY DEF AtElement
  <2>2. s \in 0 .. (a + 1) /\ (b + 1) - (a + 1) = b - a
    BY <1>1
  <2>3. m.qsize - 1 \in 0 .. m.insize /\ (b + 1) + (m.qsize - 1) = b + m.qsize
        /\ b + 1 <= s + 2 * m.insize
    <3>1. /\ w \in Nat /\ m.qsize \in 0 .. w /\ m.qsize > 0 /\ b \in Nat /\ s \in Nat
          /\ b + m.qsize = s + 2 * w
      BY <1>1, <2>1 DEF Sizes
    <3> DEFINE qs == m.qsize
    <3> HIDE DEF w, qs
    <3>2. w \in Nat /\ qs \in 0 .. w /\ qs > 0 /\ b \in Nat /\ s \in Nat /\ b + qs = s + 2 * w
      BY <3>1 DEF qs
    <3>3. qs - 1 \in 0 .. w /\ (b + 1) + (qs - 1) = b + qs /\ b + 1 <= s + 2 * w
      BY <3>2
    <3> QED BY <3>3 DEF w, qs
  <2> QED BY <2>1, <2>2, <2>3 DEF Sizes
<1>9. b + 1 > a + 1 => m2.p = new[(a + 1) + 1]
  <2> SUFFICES ASSUME b > a PROVE m2.p = new[(a + 1) + 1]
    BY <1>1
  <2>1. (a + 1) + 1 \in 1 .. N /\ (a + 1) + 1 \in (a + 2) .. (b + 1) /\ ((a + 1) + 1) - 1 = a + 1
    BY <1>1
  <2>2. new[(a + 1) + 1] = arr[a + 1]
    BY <1>1, <1>6, <2>1
  <2> QED BY <2>2 DEF AtElement
<1>10. m2.q = IF b + 1 = N THEN NULL ELSE new[(b + 1) + 1]
  <2>1. CASE b + 1 = N
    BY <2>1 DEF AtElement, Parts
  <2>2. CASE b + 1 # N
    <3>1. b + 1 \in (b + 1) .. (N - 1) /\ (b + 1) + 1 \in 1 .. N
      BY <1>1, <2>2
    <3>2. next[arr[b + 1]] = arr[(b + 1) + 1]
      BY <3>1 DEF AtElement, Parts, Linked
    <3>3. new[(b + 1) + 1] = arr[(b + 1) + 1]
      BY <1>1, <1>6, <3>1
    <3> QED BY <2>2, <3>2, <3>3
  <2> QED BY <2>1, <2>2
<1>11. Runs(new, 1, a + 1, 2 * m2.insize, R)
  <2> SUFFICES ASSUME NEW k \in 1 .. ((a + 1) - 1), k % (2 * m.insize) # 0
               PROVE  new[k + 1] \in R[new[k]]
    BY DEF Runs
  <2>0. k \in 1 .. N /\ k + 1 \in 1 .. N /\ k <= a
    BY <1>1
  <2>1. CASE k < a
    <3>1. new[k] = arr[k] /\ new[k + 1] = arr[k + 1]
      BY <1>1, <1>6, <2>0, <2>1
    <3>2. arr[k + 1] \in R[arr[k]]
      BY <1>1, <2>1 DEF AtElement, Runs
    <3> QED BY <3>1, <3>2
  <2>2. CASE k = a
    <3>1. a # s
      BY <2>2 DEF AtElement, Sizes
    <3>2. new[k] = arr[k] /\ new[k + 1] = arr[b + 1]
      BY <1>1, <1>6, <2>0, <2>2
    <3>3. arr[b + 1] \in R[arr[a]]
      BY <1>1, <2>2, <3>1 DEF AtElement, Heads
    <3> QED BY <2>2, <3>2, <3>3
  <2> QED BY <1>1, <2>0, <2>1, <2>2
<1>12. Ascending(new, (a + 1) + 1, b + 1, R)
  <2> SUFFICES ASSUME NEW k \in ((a + 1) + 1) .. ((b + 1) - 1) PROVE new[k + 1] \in R[new[k]]
    BY DEF Ascending
  <2>1. k \in 1 .. N /\ k + 1 \in 1 .. N /\ k - 1 \in (a + 1) .. (b - 1) /\ (k - 1) + 1 = k
    BY <1>1
  <2>2. new[k] = arr[k - 1] /\ new[k + 1] = arr[k]
    <3>1. k # a + 1 /\ k \in (a + 2) .. (b + 1) /\ k + 1 # a + 1
          /\ k + 1 \in (a + 2) .. (b + 1) /\ (k + 1) - 1 = k
      <4>1. a \in Int /\ b \in Int /\ k \in Int /\ a + 2 <= k /\ k <= b
        BY <1>1
      <4> QED BY <4>1
    <3> QED BY <1>6, <2>1, <3>1
  <2>3. arr[(k - 1) + 1] \in R[arr[k - 1]]
    BY <2>1 DEF AtElement, Ascending
  <2> QED BY <2>1, <2>2, <2>3
<1>13. Runs(new, (b + 1) + 1, N, m2.insize, R)
  <2> SUFFICES ASSUME NEW k \in ((b + 1) + 1) .. (N - 1), k % m.insize # 0
               PROVE  new[k + 1] \in R[new[k]]
    BY DEF Runs
  <2>1. k \in 1 .. N /\ k + 1 \in 1 .. N /\ k \in (b + 1) .. (N - 1)
    BY <1>1
  <2>2. new[k] = arr[k] /\ new[k + 1] = arr[k + 1]
    <3>1. k # a + 1 /\ k \notin (a + 2) .. (b + 1) /\ k + 1 # a + 1
          /\ k + 1 \notin (a + 2) .. (b + 1)
      <4>1. a \in Int /\ b \in Int /\ k \in Int /\ a <= b /\ b + 2 <= k
        BY <1>1
      <4> QED BY <4>1
    <3> QED BY <1>6, <2>1, <3>1
  <2>3. arr[k + 1] \in R[arr[k]]
    BY <2>1 DEF AtElement, Runs
  <2> QED BY <2>2, <2>3
<1>14. Heads(new, N, a + 1, b + 1, s, m2, R)
  <2>1. new[a + 1] = arr[b + 1]
    BY <1>1, <1>6
  <2>2. ASSUME b + 1 > a + 1 PROVE new[(a + 1) + 1] \in R[new[a + 1]]
    <3>1. b > a /\ (a + 1) + 1 \in 1 .. N /\ (a + 1) + 1 \in (a + 2) .. (b + 1)
          /\ ((a + 1) + 1) - 1 = a + 1
      BY <1>1, <2>2
    <3>2. new[(a + 1) + 1] = arr[a + 1]
      BY <1>1, <1>6, <3>1
    <3> QED BY <2>1, <3>1, <3>2
  <2>3. ASSUME b + 1 < N, m2.qsize > 0 PROVE new[(b + 1) + 1] \in R[new[a + 1]]
    <3>1. /\ w \in Nat /\ w > 0 /\ m.qsize \in 0 .. w /\ s \in Nat /\ s % (2 * w) = 0
          /\ b + m.qsize = s + 2 * w
      BY <1>1 DEF AtElement, Sizes
    <3> HIDE DEF w
    <3>2. s % w = 0
      BY <3>1, HalfBlock
    <3>3. (s + w) % w = 0
      BY <3>1, <3>2, NextBlock
    <3>4. s + w \in Nat /\ b + 1 \in Nat /\ s + w < b + 1 /\ b + 1 < (s + w) + w
      BY <1>1, <2>3, <3>1
    <3>5. (b + 1) % w # 0
      BY <3>1, <3>3, <3>4, InsideBlock
    <3>6. b + 1 \in (b + 1) .. (N - 1) /\ (b + 1) + 1 \in 1 .. N
      BY <1>1, <2>3
    <3>7. arr[(b + 1) + 1] \in R[arr[b + 1]]
      BY <3>5, <3>6 DEF AtElement, Runs, w
    <3>8. new[(b + 1) + 1] = arr[(b + 1) + 1]
      BY <1>1, <1>6, <3>6
    <3> QED BY <2>1, <3>7, <3>8
  <2> QED BY <2>2, <2>3 DEF Heads
<1>15. AtElement(to, new, N, a + 1, b + 1, s, m2, R)
  BY <1>7, <1>8, <1>9, <1>10, <1>11, <1>12, <1>13, <1>14 DEF AtElement
<1> QED BY <1>4, <1>15 DEF to, new

(* Between two merges of a pass: 1 .. a are merged.                        *)
AtMerge(next, arr, N, a, m, R) ==
    /\ Parts(next, arr, N, a, a, m)
    /\ m.insize \in Nat /\ m.insize > 0 /\ m.nmerges \in Nat
    /\ m.p = IF a = N THEN NULL ELSE arr[a + 1]
    /\ Runs(arr, 1, a, 2 * m.insize, R)
    /\ Runs(arr, a + 1, N, m.insize, R)
    /\ a = N \/ a % (2 * m.insize) = 0
    /\ m.nmerges = 0 => a = 0
    /\ m.nmerges <= 1 => a <= 2 * m.insize

(* Between two passes.                                                     *)
AtPass(next, arr, N, m, R) ==
    /\ ListAt(next, arr, N, m.list)
    /\ m.insize \in Nat /\ m.insize > 0
    /\ Runs(arr, 1, N, m.insize, R)

(* A pass begins with nothing merged.                                      *)
LEMMA PassStartIs ==
    ASSUME NEW N \in Nat, N > 0, NEW next \in [1 .. N -> 0 .. N], NEW arr \in Perms(N),
           NEW m, NEW R, AtPass(next, arr, N, m, R), NEW m2,
           m2.p = m.list, m2.list = NULL, m2.tail = NULL, m2.nmerges = 0, m2.insize = m.insize
    PROVE  AtMerge(next, arr, N, 0, m2, R)
<1>1. Linked(next, arr, 1, 0) /\ Linked(next, arr, 0 + 1, 0) /\ Linked(next, arr, 0 + 1, N)
      /\ next[arr[N]] = NULL
  BY DEF Linked, AtPass, ListAt
<1>2. Parts(next, arr, N, 0, 0, m2)
  BY <1>1 DEF Parts
<1>3. Runs(arr, 1, 0, 2 * m2.insize, R) /\ Runs(arr, 0 + 1, N, m2.insize, R)
  BY DEF Runs, AtPass
<1>4. m2.insize \in Nat /\ m2.insize > 0 /\ m2.p = arr[0 + 1]
  BY DEF AtPass, ListAt
<1>5. 0 % (2 * m2.insize) = 0
  <2> DEFINE w == m2.insize
  <2>1. 2 * w \in Nat /\ 2 * w > 0
    BY <1>4
  <2> HIDE DEF w
  <2>2. ((2 * w) * 0) % (2 * w) = 0
    BY <2>1, Multiple
  <2> QED BY <2>1, <2>2 DEF w
<1> QED BY <1>2, <1>3, <1>4, <1>5 DEF AtMerge

(* A merge begins with two runs, p of insize cells at most and q behind    *)
(* it.                                                                     *)
LEMMA MergeStartIs ==
    ASSUME NEW N \in Nat, NEW next \in [1 .. N -> 0 .. N], NEW arr \in Perms(N),
           NEW a, NEW m, NEW R, AtMerge(next, arr, N, a, m, R), m.p # NULL, NEW m2,
           m2.list = m.list, m2.tail = m.tail, m2.p = m.p, m2.insize = m.insize,
           m2.nmerges = m.nmerges + 1, m2.qsize = m.insize,
           m2.psize = Len(Walk(next, m.p, m.insize)),
           m2.q = next[Last(Walk(next, m.p, m.insize))]
    PROVE  \E b \in Nat : AtElement(next, arr, N, a, b, a, m2, R)
<1> DEFINE w == m.insize
           len == IF w < N - a THEN w ELSE N - a
           b == a + len
           run1 == Segment(arr, a + 1, b)
<1>1. w \in Nat /\ w > 0 /\ a \in 0 .. N /\ a # N
  BY DEF AtMerge, Parts
<1>2. len \in Nat /\ len > 0 /\ b \in Nat /\ b \in (a + 1) .. N /\ a + 1 \in 1 .. N /\ len <= w
      /\ (b < N => len = w) /\ b - a = len
  BY <1>1
<1>3. arr \in [1 .. N -> 1 .. N]
  BY DEF Perms
<1>4. m.p = arr[a + 1]
  BY <1>1 DEF AtMerge
<1>5. Linked(next, arr, a + 1, N) /\ next[arr[N]] = NULL
  BY <1>1 DEF AtMerge, Parts
<1>6. Walk(next, m.p, w) = run1
  <2> DEFINE lo == a + 1
             p == m.p
             seg == Segment(arr, lo, b)
  <2>1. lo \in 1 .. (N + 1) /\ b \in (lo - 1) .. N /\ ~(b < lo)
    BY <1>1, <1>2
  <2>2. Linked(next, arr, lo, b)
    <3>1. \A k \in (a + 1) .. (b - 1) : k \in (a + 1) .. (N - 1)
      <4> HIDE DEF b
      <4> QED BY <1>1, <1>2
    <3> HIDE DEF b
    <3> QED BY <1>5, <3>1 DEF Linked
  <2>3. p = IF b < lo THEN NULL ELSE arr[lo]
    BY <1>4, <2>1
  <2>4. w = b + 1 - lo \/ (w >= b + 1 - lo /\ (b < lo \/ next[arr[b]] = NULL))
    <3>1. b + 1 - lo = len /\ (b = N \/ b < N)
      BY <1>1, <1>2
    <3> HIDE DEF b, len, w
    <3> QED BY <1>1, <1>2, <1>5, <3>1
  <2> HIDE DEF w, b, lo, p
  <2>5. Walk(next, p, w) = Segment(arr, lo, b)
    <3>1. Along(next, N, arr, lo, b, p, w)
      BY <1>1, <1>3, <2>1, <2>2, <2>3, <2>4 DEF Along
    <3> QED BY <3>1, WalkSegment
  <2> QED BY <2>5 DEF lo, p
<1>7. Len(run1) = len /\ Last(run1) = arr[b]
  <2> DEFINE lo == a + 1
  <2>0. lo \in 1 .. (N + 1) /\ b \in (lo - 1) .. N /\ b + 1 - lo = len
    <3>1. lo \in 1 .. (N + 1) /\ b + 1 - lo = len
      BY <1>1, <1>2
    <3> HIDE DEF b, len
    <3> QED BY <1>1, <1>2, <3>1
  <2>3. run1 \in Seq(1 .. N) /\ Len(run1) = len
    <3> HIDE DEF len, b, lo
    <3>1. Len(Segment(arr, lo, b)) = b + 1 - lo /\ Segment(arr, lo, b) \in Seq(1 .. N)
      BY <1>3, <2>0, SegmentType
    <3> QED BY <2>0, <3>1 DEF lo
  <2>4. len \in 1 .. len /\ (a + 1) + len - 1 = b /\ len \in 1 .. (b + 1 - (a + 1))
    BY <1>1, <1>2, SMTT(30)
  <2>5. run1[len] = arr[b]
    <3> HIDE DEF b, len
    <3>1. run1[len] = arr[(a + 1) + len - 1]
      BY <2>4 DEF Segment
    <3> QED BY <2>4, <3>1
  <2> QED BY <2>3, <2>5 DEF Last
<1>8. m2.psize = len /\ m2.q = next[arr[b]]
  BY <1>6, <1>7
<1> HIDE DEF w, len, b, run1
<1>9. m2.q = IF b = N THEN NULL ELSE arr[b + 1]
  <2>1. CASE b = N
    BY <1>5, <1>8, <2>1
  <2>2. CASE b # N
    <3>1. b \in (a + 1) .. (N - 1)
      BY <1>1, <1>2, <2>2
    <3> QED BY <1>5, <1>8, <2>2, <3>1 DEF Linked
  <2> QED BY <2>1, <2>2
<1>10. Parts(next, arr, N, a, b, m2)
  <2>1. Linked(next, arr, a + 1, b) /\ Linked(next, arr, b + 1, N)
    <3>1. \A k \in (a + 1) .. (b - 1) : k \in (a + 1) .. (N - 1)
      BY <1>1, <1>2
    <3>2. \A k \in (b + 1) .. (N - 1) : k \in (a + 1) .. (N - 1)
      BY <1>1, <1>2
    <3> QED BY <1>5, <3>1, <3>2 DEF Linked
  <2>2. b \in a .. N
    BY <1>1, <1>2
  <2> QED BY <1>1, <1>5, <2>1, <2>2 DEF Parts, AtMerge
<1>11. Sizes(N, a, b, a, m2)
  <2>1. a % (2 * m2.insize) = 0 /\ m2.insize = w
    BY <1>1 DEF AtMerge, w
  <2>2. m2.nmerges \in Nat /\ m2.nmerges > 0 /\ (m2.nmerges = 1 => a = 0)
    BY DEF AtMerge
  <2>3. m2.qsize = w /\ w \in 0 .. w /\ a \in 0 .. a
    BY <1>1 DEF w
  <2>4. b <= a + 2 * w /\ (b < N => b + w = a + 2 * w) /\ m2.psize = b - a
    BY <1>1, <1>2, <1>8
  <2> QED BY <1>1, <2>1, <2>2, <2>3, <2>4 DEF Sizes
<1>12. a % w = 0
  BY <1>1, HalfBlock DEF AtMerge, w
<1>13. Ascending(arr, a + 1, b, R)
  <2> SUFFICES ASSUME NEW k \in (a + 1) .. (b - 1) PROVE arr[k + 1] \in R[arr[k]]
    BY DEF Ascending
  <2>1. k \in Nat /\ a \in Nat /\ a < k /\ k < a + w /\ k \in (a + 1) .. (N - 1)
    BY <1>1, <1>2
  <2>2. k % w # 0
    BY <1>1, <1>12, <2>1, InsideBlock
  <2> QED BY <2>1, <2>2 DEF AtMerge, Runs, w
<1>14. Runs(arr, b + 1, N, m2.insize, R)
  <2>1. \A k \in (b + 1) .. (N - 1) : k \in (a + 1) .. (N - 1)
    BY <1>1, <1>2
  <2> QED BY <2>1 DEF AtMerge, Runs
<1>15. Heads(arr, N, a, b, a, m2, R)
  BY <1>1 DEF Heads
<1>16. AtElement(next, arr, N, a, b, a, m2, R)
  BY <1>4, <1>9, <1>10, <1>11, <1>13, <1>14, <1>15 DEF AtElement, AtMerge
<1> QED BY <1>2, <1>16

(* When both runs are used up the merged part is a number of whole runs of *)
(* twice the size, or all.                                                 *)
LEMMA MergeEndIs ==
    ASSUME NEW N \in Nat, NEW next \in [1 .. N -> 0 .. N], NEW arr \in Perms(N),
           NEW a, NEW b, NEW s, NEW m, NEW R, AtElement(next, arr, N, a, b, s, m, R),
           m.psize = 0, m.qsize = 0 \/ m.q = NULL, NEW m2,
           m2.list = m.list, m2.tail = m.tail, m2.p = m.q, m2.insize = m.insize,
           m2.nmerges = m.nmerges
    PROVE  AtMerge(next, arr, N, a, m2, R)
<1> DEFINE w == m.insize
<1>1. a \in 0 .. N /\ b \in a .. N /\ w \in Nat /\ w > 0 /\ b - a = 0 /\ s \in 0 .. a
  BY DEF AtElement, Parts, Sizes
<1>2. a = b
  BY <1>1
<1>3. arr \in [1 .. N -> 1 .. N]
  BY DEF Perms
<1>4. a = N \/ a % (2 * w) = 0
  <2> SUFFICES ASSUME a # N PROVE a % (2 * w) = 0
    OBVIOUS
  <2>1. b < N /\ b + 1 \in 1 .. N /\ b # N
    BY <1>1, <1>2
  <2>2. m.q = arr[b + 1] /\ arr[b + 1] \in 1 .. N
    BY <1>3, <2>1 DEF AtElement
  <2>3. m.qsize = 0
    BY <2>2 DEF NULL
  <2>4. b + 0 = s + 2 * w /\ s % (2 * w) = 0
    BY <2>1, <2>3 DEF AtElement, Sizes
  <2>a. w \in Int /\ w > 0 /\ s \in Nat /\ a \in Int /\ a = b
    BY <1>1, <1>2
  <2> HIDE DEF w
  <2>b. a = s + 2 * w
    BY <2>4, <2>a
  <2> DEFINE v == 2 * w
  <2>5. v \in Nat /\ v > 0 /\ s \in Nat /\ s % v = 0 /\ a = s + v
    BY <2>4, <2>a, <2>b
  <2> HIDE DEF v
  <2>6. (s + v) % v = 0
    BY <2>5, NextBlock
  <2> QED BY <2>5, <2>6 DEF v
<1>5. m.nmerges \in Nat /\ m.nmerges > 0 /\ (m.nmerges = 1 => s = 0) /\ b <= s + 2 * w
  BY DEF AtElement, Sizes
<1>6. m2.nmerges <= 1 => a <= 2 * w
  BY <1>1, <1>2, <1>5
<1>7. Parts(next, arr, N, a, a, m2) /\ m2.p = (IF a = N THEN NULL ELSE arr[a + 1])
      /\ Runs(arr, 1, a, 2 * m2.insize, R) /\ Runs(arr, a + 1, N, m2.insize, R)
  BY <1>2 DEF AtElement, Parts
<1> QED BY <1>1, <1>4, <1>5, <1>6, <1>7 DEF AtMerge

(* After a pass the runs are twice as long, and after a pass of one merge  *)
(* the list is in order.                                                   *)
LEMMA PassEndIs ==
    ASSUME NEW N \in Nat, N > 0, NEW next \in [1 .. N -> 0 .. N], NEW arr \in Perms(N),
           NEW a, NEW m, NEW R, AtMerge(next, arr, N, a, m, R), m.p = NULL
    PROVE  /\ m.tail \in 1 .. N
           /\ [next EXCEPT ![m.tail] = NULL] \in [1 .. N -> 0 .. N]
           /\ ListAt([next EXCEPT ![m.tail] = NULL], arr, N, m.list)
           /\ Runs(arr, 1, N, m.insize * 2, R)
           /\ m.nmerges <= 1 => Ascending(arr, 1, N, R)
<1> DEFINE to == [next EXCEPT ![m.tail] = NULL]
           w == m.insize
<1>1. arr \in [1 .. N -> 1 .. N] /\ \A i, j \in 1 .. N : arr[i] = arr[j] => i = j
  BY DEF Perms
<1>2. a = N
  <2>1. a \in 0 .. N /\ m.p = IF a = N THEN NULL ELSE arr[a + 1]
    BY DEF AtMerge, Parts
  <2>2. a # N => a + 1 \in 1 .. N /\ m.p = arr[a + 1]
    BY <2>1
  <2> QED BY <1>1, <2>2 DEF NULL
<1>3. m.tail = arr[N] /\ m.list = arr[1] /\ Linked(next, arr, 1, N)
  BY <1>2 DEF AtMerge, Parts
<1>4. m.tail \in 1 .. N /\ N \in 1 .. N
  BY <1>1, <1>3
<1>5. to \in [1 .. N -> 0 .. N] /\ to[arr[N]] = NULL
  BY <1>3, <1>4 DEF NULL
<1>6. Linked(to, arr, 1, N)
  <2> SUFFICES ASSUME NEW k \in 1 .. (N - 1) PROVE to[arr[k]] = arr[k + 1]
    BY DEF Linked
  <2>1. k \in 1 .. N /\ k # N
    OBVIOUS
  <2>2. arr[k] # arr[N] /\ arr[k] \in 1 .. N
    BY <1>1, <1>4, <2>1
  <2> QED BY <1>3, <2>2 DEF Linked
<1>7. w \in Nat /\ w > 0 /\ Runs(arr, 1, N, 2 * w, R) /\ (m.nmerges <= 1 => N <= 2 * w)
  BY <1>2 DEF AtMerge
<1> HIDE DEF w
<1>8. 2 * w = w * 2 /\ 2 * w \in Nat
  BY <1>7
<1>9. ASSUME m.nmerges <= 1 PROVE Ascending(arr, 1, N, R)
  <2> SUFFICES ASSUME NEW k \in 1 .. (N - 1) PROVE arr[k + 1] \in R[arr[k]]
    BY DEF Ascending
  <2> DEFINE v == 2 * w
  <2>1. k \in Nat /\ 0 \in Nat /\ 0 < k /\ k < 0 + v /\ v \in Nat /\ v > 0
    BY <1>7, <1>9
  <2> HIDE DEF v
  <2>2. 0 % v = 0
    <3>1. (v * 0) % v = 0
      BY <2>1, Multiple
    <3> QED BY <2>1, <3>1
  <2>3. k % v # 0
    BY <2>1, <2>2, InsideBlock
  <2> QED BY <1>7, <2>3 DEF Runs, v
<1> QED BY <1>3, <1>4, <1>5, <1>6, <1>7, <1>8, <1>9 DEF ListAt, w

---------------------------------------------------------------------------
(* Words, exclusive or and checksums.                                      *)

(* Division with remainder of an integer.                                  *)
LEMMA Halves ==
    ASSUME NEW x \in Int, NEW w \in Nat, w > 0
    PROVE  x \div w \in Int /\ x % w \in 0 .. (w - 1) /\ x = w * (x \div w) + (x % w)
OBVIOUS

(* Exclusive or gives a pattern of its width.                              *)
LEMMA XorType ==
    ASSUME NEW a \in Int, NEW b \in Int
    PROVE  /\ xor1(a, b) \in 0 .. 1 /\ xor2(a, b) \in 0 .. 3 /\ xor4(a, b) \in 0 .. 15
           /\ xor8(a, b) \in Bytes /\ xor16(a, b) \in Words
<1>1. \A x, y \in Int : xor1(x, y) \in 0 .. 1
  BY DEF xor1
<1>2. \A x \in Int : x \div 2 \in Int /\ x % 2 \in Int
  OBVIOUS
<1>3. \A x \in Int : x \div 4 \in Int /\ x % 4 \in Int
  OBVIOUS
<1>4. \A x \in Int : x \div 16 \in Int /\ x % 16 \in Int
  OBVIOUS
<1>5. \A x \in Int : x \div 256 \in Int /\ x % 256 \in Int
  OBVIOUS
<1>6. \A x, y \in Int : xor2(x, y) \in 0 .. 3
  BY <1>1, <1>2 DEF xor2
<1>7. \A x, y \in Int : xor4(x, y) \in 0 .. 15
  BY <1>6, <1>3 DEF xor4
<1>8. \A x, y \in Int : xor8(x, y) \in Bytes
  BY <1>7, <1>4 DEF xor8, Bytes
<1>9. \A x, y \in Int : xor16(x, y) \in Words
  <2> SUFFICES ASSUME NEW x \in Int, NEW y \in Int PROVE xor16(x, y) \in Words
    OBVIOUS
  <2> DEFINE hi == xor8(x \div 256, y \div 256)
             lo == xor8(x % 256, y % 256)
  <2>1. hi \in Bytes /\ lo \in Bytes
    BY <1>5, <1>8
  <2>2. xor16(x, y) = 256 * hi + lo
    BY DEF xor16
  <2> HIDE DEF hi, lo
  <2> QED BY <2>1, <2>2 DEF Bytes, Words
<1> QED BY <1>1, <1>6, <1>7, <1>8, <1>9

(* The quotient and the remainder of a number with two digits to base w.   *)
LEMMA Digits ==
    ASSUME NEW w \in Nat, w > 0, NEW h \in Nat, NEW l \in 0 .. (w - 1)
    PROVE  (w * h + l) \div w = h /\ (w * h + l) % w = l
<1>1. (w * h + l) % w = l
  BY ModUnique
<1>2. w * h + l = w * ((w * h + l) \div w) + l
  <2> DEFINE x == w * h + l
  <2>1. x \in Int
    OBVIOUS
  <2> HIDE DEF x
  <2>2. x = w * (x \div w) + (x % w)
    BY <2>1, Halves
  <2> QED BY <1>1, <2>2 DEF x
<1> DEFINE d == (w * h + l) \div w
<1>3. d \in Int
  <2>1. w * h + l \in Int
    OBVIOUS
  <2> QED BY <2>1
<1> HIDE DEF d
<1>4. w * h + l = w * d + l
  BY <1>2 DEF d
<1>5. w * (h - d) = 0
  BY <1>3, <1>4
<1>6. d = h
  BY <1>3, <1>5
<1> QED BY <1>1, <1>6 DEF d

(* Xoring twice with the same byte changes nothing.                        *)
LEMMA XorTwice ==
    ASSUME NEW a \in Bytes, NEW b \in Bytes
    PROVE  xor8(xor8(a, b), b) = a
<1>1. \A x, y \in 0 .. 1 : xor1(xor1(x, y), y) = x /\ xor1(x, y) \in 0 .. 1
  BY DEF xor1
<1>2. \A x, y \in 0 .. 3 : xor2(xor2(x, y), y) = x /\ xor2(x, y) \in 0 .. 3
  <2> SUFFICES ASSUME NEW x \in 0 .. 3, NEW y \in 0 .. 3
               PROVE  xor2(xor2(x, y), y) = x /\ xor2(x, y) \in 0 .. 3
    OBVIOUS
  <2>1. x \div 2 \in 0 .. 1 /\ x % 2 \in 0 .. 1 /\ y \div 2 \in 0 .. 1 /\ y % 2 \in 0 .. 1
        /\ x = 2 * (x \div 2) + (x % 2)
    OBVIOUS
  <2> DEFINE hi == xor1(x \div 2, y \div 2)
             lo == xor1(x % 2, y % 2)
  <2>2. hi \in 0 .. 1 /\ lo \in 0 .. 1 /\ xor1(hi, y \div 2) = x \div 2 /\ xor1(lo, y % 2) = x % 2
    BY <1>1, <2>1
  <2>3. xor2(x, y) = 2 * hi + lo
    BY DEF xor2
  <2> HIDE DEF hi, lo
  <2>4. (2 * hi + lo) \div 2 = hi /\ (2 * hi + lo) % 2 = lo /\ 2 * hi + lo \in 0 .. 3
    BY <2>2
  <2> QED BY <2>1, <2>2, <2>3, <2>4 DEF xor2
<1>3. \A x, y \in 0 .. 15 : xor4(xor4(x, y), y) = x /\ xor4(x, y) \in 0 .. 15
  <2> SUFFICES ASSUME NEW x \in 0 .. 15, NEW y \in 0 .. 15
               PROVE  xor4(xor4(x, y), y) = x /\ xor4(x, y) \in 0 .. 15
    OBVIOUS
  <2>1. x \div 4 \in 0 .. 3 /\ x % 4 \in 0 .. 3 /\ y \div 4 \in 0 .. 3 /\ y % 4 \in 0 .. 3
        /\ x = 4 * (x \div 4) + (x % 4)
    OBVIOUS
  <2> DEFINE hi == xor2(x \div 4, y \div 4)
             lo == xor2(x % 4, y % 4)
  <2>2. hi \in 0 .. 3 /\ lo \in 0 .. 3 /\ xor2(hi, y \div 4) = x \div 4 /\ xor2(lo, y % 4) = x % 4
    BY <1>2, <2>1
  <2>3. xor4(x, y) = 4 * hi + lo
    BY DEF xor4
  <2> HIDE DEF hi, lo
  <2>4. (4 * hi + lo) \div 4 = hi /\ (4 * hi + lo) % 4 = lo /\ 4 * hi + lo \in 0 .. 15
    BY <2>2
  <2> QED BY <2>1, <2>2, <2>3, <2>4 DEF xor4
<1> DEFINE hi == xor4(a \div 16, b \div 16)
           lo == xor4(a % 16, b % 16)
<1>4. a \div 16 \in 0 .. 15 /\ a % 16 \in 0 .. 15 /\ b \div 16 \in 0 .. 15 /\ b % 16 \in 0 .. 15
      /\ a = 16 * (a \div 16) + (a % 16)
  BY DEF Bytes
<1>5. hi \in 0 .. 15 /\ lo \in 0 .. 15 /\ xor4(hi, b \div 16) = a \div 16 /\ xor4(lo, b % 16) = a % 16
  BY <1>3, <1>4
<1>6. xor8(a, b) = 16 * hi + lo
  BY DEF xor8
<1> HIDE DEF hi, lo
<1>7. (16 * hi + lo) \div 16 = hi /\ (16 * hi + lo) % 16 = lo
  BY <1>5
<1> QED BY <1>4, <1>5, <1>6, <1>7 DEF xor8

(* Checksums are words.                                                    *)
LEMMA CrcType ==
    ASSUME NEW crc \in Words
    PROVE  /\ \A data \in Bytes : crcu8(data, crc) \in Words
           /\ \A v \in Int : crcu16(v, crc) \in Words /\ crc16(v, crc) \in Words /\ crcu32(v, crc) \in Words
<1>1. \A b \in 0 .. 1, c \in Words : crc_bit(b, c) \in Words
  <2> SUFFICES ASSUME NEW b \in 0 .. 1, NEW c \in Words PROVE crc_bit(b, c) \in Words
    OBVIOUS
  <2> DEFINE x == xor16(c, 16386)
  <2>1. x \in Words
    BY XorType DEF Words
  <2> HIDE DEF x
  <2>2. (x \div 2) + 32768 \in Words /\ c \div 2 \in Words
    BY <2>1 DEF Words
  <2> QED BY <2>2 DEF crc_bit, x
<1>2. \A data \in Bytes, c \in Words : crcu8(data, c) \in Words
  <2> SUFFICES ASSUME NEW data \in Bytes, NEW c \in Words PROVE crcu8(data, c) \in Words
    OBVIOUS
  <2> DEFINE S == [data : Bytes, crc : Words]
             body == [k \in 1 .. 8 |-> [x \in S |->
                        [data |-> x.data \div 2, crc |-> crc_bit(x.data % 2, x.crc)]]]
             init == [data |-> data, crc |-> c]
  <2>1. init \in S
    OBVIOUS
  <2>2. \A k \in 1 .. 8 : \A x \in S : body[k][x] \in S
    <3> SUFFICES ASSUME NEW x \in S PROVE [data |-> x.data \div 2, crc |-> crc_bit(x.data % 2, x.crc)] \in S
      OBVIOUS
    <3>1. x.data \div 2 \in Bytes /\ x.data % 2 \in 0 .. 1 /\ x.crc \in Words
      BY DEF Bytes
    <3> QED BY <1>1, <3>1
  <2>3. crcu8(data, c) = Loop(8, init, body).crc
    BY DEF crcu8
  <2> HIDE DEF init, body, S
  <2>4. Loop(8, init, body) \in S
    BY <2>1, <2>2, LoopKeeps
  <2> QED BY <2>3, <2>4 DEF S
<1>3. \A v \in Int, c \in Words : crcu16(v, c) \in Words
  <2> SUFFICES ASSUME NEW v \in Int, NEW c \in Words PROVE crcu16(v, c) \in Words
    OBVIOUS
  <2>1. v % 256 \in Bytes /\ (v \div 256) % 256 \in Bytes
    BY DEF Bytes
  <2> QED BY <1>2, <2>1 DEF crcu16
<1>4. \A v \in Int, c \in Words : crc16(v, c) \in Words
  <2> SUFFICES ASSUME NEW v \in Int, NEW c \in Words PROVE crc16(v, c) \in Words
    OBVIOUS
  <2>1. U16(v) \in Int
    BY DEF U16
  <2> QED BY <1>3, <2>1 DEF crc16
<1>5. \A v \in Int, c \in Words : crcu32(v, c) \in Words
  <2> SUFFICES ASSUME NEW v \in Int, NEW c \in Words PROVE crcu32(v, c) \in Words
    OBVIOUS
  <2>1. v \div 65536 \in Int
    OBVIOUS
  <2> QED BY <1>4, <2>1 DEF crcu32
<1> QED BY <1>2, <1>3, <1>4, <1>5

---------------------------------------------------------------------------
(* The list that core_list_init builds.                                    *)

(* A datum whose low byte is a copy of its high byte.                      *)
Fresh == {d \in Data : d.data16 = (d.data16 \div 256) * 257}

(* The list of n cells before it is sorted: 1, n, n - 1, ..., 2.           *)
InitNext(n) == [c \in 1 .. n |-> IF c = 1 /\ n > 1 THEN n ELSE IF c <= 2 THEN NULL ELSE c - 1]
Unsorted(n) == {h \in Heaps : h.next = InitNext(n) /\ h.info = Identity(n)
                              /\ h.data \in [1 .. n -> Fresh]}

(* core_list_insert_new behind the head, while there is space.             *)
LEMMA InsertNewIs ==
    ASSUME NEW n \in Nat, n >= 1, NEW h \in Unsorted(n), NEW sz \in Nat,
           NEW d \in Fresh
    PROVE  core_list_insert_new(h, 1, d, sz) \in
             IF n + 1 >= sz THEN Unsorted(n) ELSE Unsorted(n + 1)
<1>1. h \in Heaps /\ h.next = InitNext(n) /\ h.info = Identity(n) /\ h.data \in [1 .. n -> Fresh]
  BY DEF Unsorted
<1>2. InitNext(n) \in [1 .. n -> Nat] /\ InitNext(n + 1) \in [1 .. (n + 1) -> Nat]
      /\ Identity(n) \in [1 .. n -> Nat] /\ Identity(n + 1) \in [1 .. (n + 1) -> Nat]
  BY DEF InitNext, Identity, NULL
<1>3. Len(h.next) = n
  <2>1. Len(InitNext(n)) = n
    BY <1>2, SegmentIsSeq
  <2> QED BY <1>1, <2>1
<1>4. CASE n + 1 >= sz
  BY <1>3, <1>4 DEF core_list_insert_new
<1>5. CASE ~(n + 1 >= sz)
  <2> DEFINE new == n + 1
             next == [c \in 1 .. new |-> CASE c = new -> h.next[1]
                                            [] c = 1 -> new
                                            [] OTHER -> h.next[c]]
             copy == copy_info([data16 |-> 0, idx |-> 0], d)
             r == core_list_insert_new(h, 1, d, sz)
  <2>1. r = [next |-> next, info |-> Append(h.info, new), data |-> Append(h.data, copy)]
    BY <1>3, <1>5 DEF core_list_insert_new
  <2>2. copy = d
    BY DEF copy_info, Fresh, Data
  <2>3. next = InitNext(new)
    <3> SUFFICES ASSUME NEW c \in 1 .. new PROVE next[c] = InitNext(new)[c]
      BY DEF InitNext
    <3>1. /\ h.next[1] = IF n > 1 THEN n ELSE NULL
          /\ c \in 1 .. n => h.next[c] = IF c = 1 /\ n > 1 THEN n ELSE IF c <= 2 THEN NULL ELSE c - 1
      BY <1>1 DEF InitNext
    <3>2. CASE c = new
      BY <3>1, <3>2 DEF InitNext
    <3>3. CASE c = 1
      BY <3>3 DEF InitNext
    <3>4. CASE c # 1 /\ c # new
      <4>1. c \in 1 .. n
        BY <3>4
      <4> QED BY <3>1, <3>4, <4>1 DEF InitNext
    <3> QED BY <3>2, <3>3, <3>4
  <2>4. Append(h.info, new) = Identity(new)
    <3>1. Append(Identity(n), new) = [k \in 1 .. (n + 1) |-> IF k = n + 1 THEN new ELSE Identity(n)[k]]
      BY <1>2, AppendSegment, SMTT(30)
    <3> QED BY <1>1, <3>1 DEF Identity
  <2>5. Append(h.data, d) \in [1 .. new -> Fresh]
    <3> DEFINE data == h.data
    <3>1. data \in [1 .. n -> Fresh]
      BY <1>1
    <3> HIDE DEF data
    <3>2. Append(data, d) = [k \in 1 .. (n + 1) |-> IF k = n + 1 THEN d ELSE data[k]]
      BY <3>1, AppendSegment
    <3>3. \A k \in 1 .. (n + 1) : (IF k = n + 1 THEN d ELSE data[k]) \in Fresh
      BY <3>1
    <3> QED BY <3>2, <3>3 DEF data
  <2>6. r \in Heaps
    <3> HIDE DEF r, next
    <3>1. new \in Nat /\ Fresh \subseteq [data16 : Nat, idx : Nat]
      BY DEF Fresh, Data, Words
    <3> HIDE DEF new
    <3> DEFINE data == Append(h.data, d)
    <3>2. data \in [1 .. new -> Fresh]
      BY <2>5
    <3> HIDE DEF data
    <3> DEFINE T == [data16 : Nat, idx : Nat]
    <3>a. Fresh \subseteq T
      BY <3>1
    <3> HIDE DEF T
    <3>b. data \in Seq(T)
      BY <3>1, <3>2, <3>a, IntoSeq
    <3>3. data \in Seq([data16 : Nat, idx : Nat])
      BY <3>b DEF T
    <3>4. InitNext(new) \in Seq(Nat) /\ Identity(new) \in Seq(Nat)
      <4>1. InitNext(new) \in [1 .. new -> Nat] /\ Identity(new) \in [1 .. new -> Nat]
        BY <1>2 DEF new
      <4> QED BY <3>1, <4>1, SegmentIsSeq
    <3> QED BY <2>1, <2>2, <2>3, <2>4, <3>3, <3>4 DEF Heaps, data
  <2>7. r.next = InitNext(new) /\ r.info = Identity(new) /\ r.data \in [1 .. new -> Fresh]
    <3> HIDE DEF r, next, copy, new
    <3> QED BY <2>1, <2>2, <2>3, <2>4, <2>5
  <2> QED BY <1>5, <2>6, <2>7 DEF Unsorted
<1> QED BY <1>4, <1>5

(* core_list_init writes the same value to both bytes of a datum.          *)
LEMMA ItemIsFresh ==
    ASSUME NEW k \in Nat, NEW sd \in Nat
    PROVE  [data16 |-> ItemData(k, sd), idx |-> 32767] \in Fresh
<1> DEFINE x == xor16(sd, k)
           dat == (x % 16) * 8 + (k % 8)
<1>1. x \in Nat
  BY XorType DEF Words
<1> HIDE DEF x
<1>2. dat \in Nat /\ dat < 128
  BY <1>1
<1>3. ItemData(k, sd) = dat * 256 + dat
  BY DEF ItemData, x
<1> HIDE DEF dat
<1>4. dat * 256 + dat \in Words /\ (dat * 256 + dat) \div 256 = dat /\ dat * 256 + dat = dat * 257
  BY <1>2 DEF Words
<1> QED BY <1>3, <1>4 DEF Fresh, Data

(* Indices of the list are numbers.                                        *)
LEMMA ItemIdxType ==
    ASSUME NEW k \in Nat, NEW sz \in Int, NEW sd \in Nat
    PROVE  ItemIdx(k, sz, sd) \in Nat
<1> DEFINE a == ((k + 1) % 8) * 256
           b == xor16(k, sd)
<1>1. a \in Int /\ b \in Int
  BY XorType DEF Words
<1> HIDE DEF a, b
<1>2. xor16(a, b) \in Int
  BY <1>1, XorType DEF Words
<1> DEFINE y == xor16(a, b)
<1> HIDE DEF y
<1>3. ((a + b + y) \div 2) % 16384 \in Nat
  BY <1>1, <1>2 DEF y
<1> QED BY <1>3 DEF ItemIdx, or16, a, b, y

(* core_list_init builds a list of as many cells as its block has room     *)
(* for, with every datum fresh and paired with its cell.                   *)
LEMMA ListInitIs ==
    ASSUME NEW blksize \in Nat, blksize >= 120, NEW sd \in Nat,
           NEW N, N = ListSize(blksize) - 1
    PROVE  /\ N \in Nat /\ N >= 3
           /\ core_list_init(blksize, sd) \in HeapsOf(N)
           /\ core_list_init(blksize, sd).info = Identity(N)
           /\ core_list_init(blksize, sd).data \in [1 .. N -> Fresh]
           /\ \E arr \in Perms(N) : ListAt(core_list_init(blksize, sd).next, arr, N, 1)
<1> DEFINE sz == ListSize(blksize)
           head == [next |-> <<NULL>>, info |-> <<1>>,
                    data |-> <<[data16 |-> 32896, idx |-> 0]>>]
           tail == [data16 |-> 65535, idx |-> 32767]
           item(k) == [data16 |-> ItemData(k, sd), idx |-> 32767]
           init == core_list_insert_new(head, 1, tail, sz)
           body == [k \in 1 .. sz |-> [h \in Heaps |->
                         core_list_insert_new(h, 1, item(k - 1), sz)]]
           full == Loop(sz, init, body)
           r == core_list_init(blksize, sd)
<1>1. sz \in Nat /\ sz >= 4 /\ N = sz - 1 /\ N \in Nat /\ N >= 3
  BY DEF ListSize, PER_ITEM
<1> HIDE DEF sz
<1>2. init \in Unsorted(2)
  <2> DEFINE d1 == [data16 |-> 32896, idx |-> 0]
             one == 1
  <2>1. d1 \in Fresh /\ tail \in Fresh
    BY DEF Fresh, Data, Words
  <2>2. <<NULL>> = InitNext(1) /\ <<1>> = Identity(1)
    <3>1. <<NULL>> = [c \in 1 .. 1 |-> NULL] /\ <<1>> = [c \in 1 .. 1 |-> c]
      OBVIOUS
    <3> QED BY <3>1 DEF InitNext, Identity
  <2>3. <<NULL>> \in Seq(Nat) /\ <<1>> \in Seq(Nat)
    BY DEF NULL
  <2>4. Fresh \subseteq [data16 : Nat, idx : Nat]
    BY DEF Fresh, Data, Words
  <2> HIDE DEF d1, tail
  <2>5. <<d1>> \in [1 .. 1 -> Fresh] /\ <<d1>> \in Seq([data16 : Nat, idx : Nat])
    BY <2>1, <2>4
  <2>6. head \in Heaps
    BY <2>3, <2>5 DEF Heaps, d1
  <2>7. head.next = InitNext(1) /\ head.info = Identity(1) /\ head.data \in [1 .. 1 -> Fresh]
    BY <2>2, <2>5 DEF d1
  <2> HIDE DEF head
  <2>8. head \in Unsorted(one) /\ one \in Nat /\ one >= 1
    BY <2>6, <2>7 DEF Unsorted
  <2> HIDE DEF one
  <2>9. init \in IF one + 1 >= sz THEN Unsorted(one) ELSE Unsorted(one + 1)
    BY <1>1, <2>1, <2>8, InsertNewIs
  <2> QED BY <1>1, <2>9 DEF one
<1> HIDE DEF init
<1>3. full \in Unsorted(N)
  <2> DEFINE n(k) == IF k + 2 < sz THEN k + 2 ELSE sz - 1
             Good == [k \in 0 .. sz |-> Unsorted(n(k))]
  <2>1. init \in Good[0]
    BY <1>1, <1>2
  <2>2. \A k \in 1 .. sz : \A x \in Good[k - 1] : body[k][x] \in Good[k]
    <3> HIDE DEF Good, body
    <3> SUFFICES ASSUME NEW k \in 1 .. sz, NEW x \in Good[k - 1] PROVE body[k][x] \in Good[k]
      OBVIOUS
    <3> USE DEF Good, body
    <3>1. x \in Unsorted(n(k - 1)) /\ x \in Heaps /\ n(k - 1) \in Nat /\ n(k - 1) >= 2
      BY <1>1 DEF Unsorted
    <3>2. item(k - 1) \in Fresh
      BY <1>1, ItemIsFresh
    <3>3. body[k][x] = core_list_insert_new(x, 1, item(k - 1), sz)
      BY <3>1
    <3>4. n(k) = IF n(k - 1) + 1 >= sz THEN n(k - 1) ELSE n(k - 1) + 1
      BY <1>1
    <3>5. Good[k] = Unsorted(n(k))
      OBVIOUS
    <3> HIDE DEF item, body, n, Good
    <3> DEFINE n1 == n(k - 1)
               d == item(k - 1)
    <3>6. x \in Unsorted(n1) /\ n1 \in Nat /\ n1 >= 2 /\ d \in Fresh
      BY <3>1, <3>2
    <3> HIDE DEF n1, d
    <3>7. core_list_insert_new(x, 1, d, sz) \in
             IF n1 + 1 >= sz THEN Unsorted(n1) ELSE Unsorted(n1 + 1)
      BY <1>1, <3>6, InsertNewIs
    <3>8. core_list_insert_new(x, 1, d, sz) \in Unsorted(n(k))
      BY <3>4, <3>7 DEF n1
    <3> QED BY <3>3, <3>5, <3>8 DEF d
  <2>3. Good[sz] = Unsorted(N)
    BY <1>1
  <2> HIDE DEF Good, body
  <2>4. full \in Good[sz]
    BY <1>1, <2>1, <2>2, LoopInvariant
  <2> QED BY <2>3, <2>4
<1> HIDE DEF full
<1>4. full \in Heaps /\ full.next = InitNext(N) /\ full.info = Identity(N) /\ full.data \in [1 .. N -> Fresh]
  BY <1>3 DEF Unsorted
<1> DEFINE order == Chain(full, 1)
           pos(c) == Position(order, c) - 1
           datum(c) == IF pos(c) \in 1 .. (Len(order) - 2)
                       THEN [full.data[c] EXCEPT !.idx = ItemIdx(pos(c), sz, sd)]
                       ELSE full.data[c]
           data == [c \in DOMAIN full.data |-> datum(c)]
<1>5. r = [full EXCEPT !.data = data]
  BY DEF core_list_init, sz, full, init
<1>6. data \in [1 .. N -> Fresh]
  <2>1. DOMAIN full.data = 1 .. N
    BY <1>4
  <2> SUFFICES ASSUME NEW c \in 1 .. N PROVE datum(c) \in Fresh
    BY <2>1
  <2>2. full.data[c] \in Fresh
    BY <1>4
  <2>3. CASE pos(c) \in 1 .. (Len(order) - 2)
    <3> DEFINE p == pos(c)
               e == full.data[c]
    <3>1. p \in Nat
      <4> DEFINE len == Len(order) - 2
      <4> HIDE DEF p, len
      <4>1. p \in 1 .. len
        BY <2>3 DEF p, len
      <4> QED BY <4>1
    <3> HIDE DEF p
    <3>a. sz \in Int
      BY <1>1
    <3>2. ItemIdx(p, sz, sd) \in Nat
      BY <3>a, <3>1, ItemIdxType
    <3> DEFINE i == ItemIdx(p, sz, sd)
    <3> HIDE DEF i, e
    <3>3. [e EXCEPT !.idx = i] \in Fresh
      BY <2>2, <3>2 DEF Fresh, Data, e, i
    <3> QED BY <2>3, <3>3 DEF p, e, i
  <2>4. CASE ~(pos(c) \in 1 .. (Len(order) - 2))
    BY <2>2, <2>4
  <2> QED BY <2>3, <2>4
<1> HIDE DEF data
<1>7. r.next = InitNext(N) /\ r.info = Identity(N) /\ r.data = data
      /\ r = [next |-> InitNext(N), info |-> Identity(N), data |-> data]
  <2> HIDE DEF r
  <2> QED BY <1>4, <1>5 DEF Heaps
<1> HIDE DEF r
<1>8. r \in HeapsOf(N)
  <2>1. InitNext(N) \in [1 .. N -> 0 .. N] /\ Identity(N) \in [1 .. N -> 1 .. N]
    BY <1>1 DEF InitNext, Identity, NULL
  <2>2. data \in [1 .. N -> Data]
    BY <1>6 DEF Fresh
  <2> QED BY <1>7, <2>1, <2>2 DEF HeapsOf
<1>9. \E arr \in Perms(N) : ListAt(r.next, arr, N, 1)
  <2> DEFINE at(k) == IF k = 1 THEN 1 ELSE N + 2 - k
             arr == [k \in 1 .. N |-> at(k)]
  <2>1. \A k \in 1 .. N : at(k) \in 1 .. N /\ at(at(k)) = k
    BY <1>1
  <2>2. arr \in Perms(N)
    <3>1. arr \in [1 .. N -> 1 .. N] /\ \A k \in 1 .. N : arr[k] = at(k)
      BY <2>1
    <3>2. \A c \in 1 .. N : \E i \in 1 .. N : arr[i] = c
      BY <2>1, <3>1
    <3>3. \A i, j \in 1 .. N : arr[i] = arr[j] => i = j
      BY <2>1, <3>1
    <3> QED BY <3>1, <3>2, <3>3 DEF Perms
  <2>3. Linked(InitNext(N), arr, 1, N)
    <3> SUFFICES ASSUME NEW k \in 1 .. (N - 1) PROVE InitNext(N)[arr[k]] = arr[k + 1]
      BY DEF Linked
    <3>1. k \in 1 .. N /\ k + 1 \in 1 .. N /\ arr[k] = at(k) /\ at(k) \in 1 .. N /\ arr[k + 1] = N + 2 - (k + 1)
      BY <1>1, <2>1, SMTT(30)
    <3>2. InitNext(N)[at(k)] = IF at(k) = 1 THEN N ELSE IF at(k) = 2 THEN NULL ELSE at(k) - 1
      BY <1>1, <3>1 DEF InitNext
    <3>3. CASE k = 1
      BY <3>1, <3>2, <3>3
    <3>4. CASE k # 1
      <4>1. at(k) = N + 2 - k /\ at(k) # 1 /\ at(k) # 2
        BY <1>1, <3>1, <3>4
      <4> QED BY <3>1, <3>2, <4>1
    <3> QED BY <3>3, <3>4
  <2>4. arr[1] = 1 /\ arr[N] = 2
    BY <1>1
  <2>5. InitNext(N)[2] = NULL
    BY <1>1 DEF InitNext
  <2>6. ListAt(r.next, arr, N, 1)
    BY <1>7, <2>3, <2>4, <2>5 DEF ListAt
  <2> QED BY <2>2, <2>6
<1> QED BY <1>1, <1>6, <1>7, <1>8, <1>9 DEF r

---------------------------------------------------------------------------
(* Comparisons, and the data they rewrite.                                 *)

(* A datum whose key does not change any more in a sort by cmp; and        *)
(* Order(data, cmp)[c], the cells that may stand behind cell c.            *)
Touched(cmp, d) == IF cmp = "complex" THEN Cached(d) ELSE Regen(d) = d
Order(data, cmp) ==
    [c \in DOMAIN data |->
        {e \in DOMAIN data : /\ Touched(cmp, data[c]) /\ Touched(cmp, data[e])
                             /\ CompareKey(cmp, data[c]) <= CompareKey(cmp, data[e])}]

(* Regenerating a datum rebuilds its low byte, and only that, and a second *)
(* time changes nothing.                                                   *)
LEMMA RegenIs ==
    ASSUME NEW d \in Data
    PROVE  /\ Regen(d) \in Data /\ Regen(d).idx = d.idx
           /\ Regen(d).data16 \div 256 = d.data16 \div 256
           /\ Regen(Regen(d)) = Regen(d)
           /\ Regen(d).data16 = (d.data16 \div 256) * 257
<1> DEFINE x == d.data16
           hi == x \div 256
<1>1. x \in Words /\ d.idx \in Nat /\ d = [data16 |-> x, idx |-> d.idx]
  BY DEF Data
<1>2. hi \in Nat /\ hi < 256
  <2> HIDE DEF x
  <2> QED BY <1>1 DEF Words
<1>3. Regen(d) = [data16 |-> hi * 257, idx |-> d.idx]
  BY <1>1 DEF Regen
<1> HIDE DEF hi
<1>4. hi * 257 \in Words /\ (hi * 257) \div 256 = hi
  BY <1>2 DEF Words
<1> DEFINE r == Regen(d)
<1>5. r.data16 = hi * 257 /\ r.idx = d.idx /\ r = [data16 |-> hi * 257, idx |-> d.idx] /\ r \in Data
  BY <1>1, <1>3, <1>4 DEF Data
<1>6. Regen(r) = [data16 |-> ((hi * 257) \div 256) * 257, idx |-> d.idx]
  <2> HIDE DEF r
  <2> QED BY <1>5 DEF Regen
<1> QED BY <1>3, <1>4, <1>5, <1>6 DEF hi

(* Caching a result sets bit 7 and changes the low byte only.              *)
LEMMA CacheIs ==
    ASSUME NEW d \in Data, NEW v \in Int
    PROVE  /\ Cache(d, v) \in Data /\ Cache(d, v).idx = d.idx
           /\ Cache(d, v).data16 \div 256 = d.data16 \div 256
           /\ Cached(Cache(d, v))
<1> DEFINE x == d.data16
           hi == x \div 256
           y == hi * 256 + 128 + (v % 128)
<1>1. x \in Words /\ d.idx \in Nat /\ d = [data16 |-> x, idx |-> d.idx]
  BY DEF Data
<1>2. hi \in Nat /\ hi < 256
  <2> HIDE DEF x
  <2> QED BY <1>1 DEF Words
<1>3. Cache(d, v) = [data16 |-> y, idx |-> d.idx]
  BY <1>1 DEF Cache
<1> HIDE DEF hi
<1>4. y \in Words /\ y \div 256 = hi /\ (y \div 128) % 2 = 1
  <2> DEFINE r == v % 128
  <2>1. r \in 0 .. 127
    OBVIOUS
  <2> HIDE DEF r
  <2>2. hi * 256 + 128 + r \in Words
    BY <1>2, <2>1 DEF Words
  <2>3. (hi * 256 + 128 + r) \div 256 = hi
    BY <1>2, <2>1
  <2>4. (hi * 256 + 128 + r) \div 128 = 2 * hi + 1
    BY <1>2, <2>1
  <2>5. (2 * hi + 1) % 2 = 1
    BY <1>2
  <2> QED BY <2>2, <2>3, <2>4, <2>5 DEF r
<1> HIDE DEF y
<1> QED BY <1>1, <1>3, <1>4 DEF Data, Cached, hi

(* S allows what R allows.                                                 *)
Grows(R, S, N) == \A c \in 1 .. N : R[c] \subseteq S[c]

(* The cells that may follow a cell.                                       *)
LEMMA OrderIs ==
    ASSUME NEW N \in Nat, NEW data \in [1 .. N -> Data], NEW cmp, NEW c \in 1 .. N, NEW e
    PROVE  e \in Order(data, cmp)[c] <=>
             /\ e \in 1 .. N /\ Touched(cmp, data[c]) /\ Touched(cmp, data[e])
             /\ CompareKey(cmp, data[c]) <= CompareKey(cmp, data[e])
BY DEF Order

(* Regenerating a datum takes no pair of cells out of the order by idx.    *)
LEMMA OrderRegen ==
    ASSUME NEW N \in Nat, NEW data \in [1 .. N -> Data], NEW data2 \in [1 .. N -> Data],
           \A c \in 1 .. N : data2[c] = data[c] \/ data2[c] = Regen(data[c])
    PROVE  Grows(Order(data, "idx"), Order(data2, "idx"), N)
<1> SUFFICES ASSUME NEW c \in 1 .. N, NEW e \in Order(data, "idx")[c] PROVE e \in Order(data2, "idx")[c]
  BY DEF Grows
<1>1. /\ e \in 1 .. N /\ Touched("idx", data[c]) /\ Touched("idx", data[e])
      /\ CompareKey("idx", data[c]) <= CompareKey("idx", data[e])
  BY OrderIs
<1>2. data2[c] = data[c] /\ data2[e] = data[e]
  BY <1>1 DEF Touched
<1> QED BY <1>1, <1>2, OrderIs

(* Caching a result takes no pair of cells out of the order by results.    *)
LEMMA OrderCache ==
    ASSUME NEW N \in Nat, NEW data \in [1 .. N -> Data], NEW data2 \in [1 .. N -> Data],
           \A c \in 1 .. N : data2[c] = data[c] \/ ~Cached(data[c])
    PROVE  Grows(Order(data, "complex"), Order(data2, "complex"), N)
<1> SUFFICES ASSUME NEW c \in 1 .. N, NEW e \in Order(data, "complex")[c]
             PROVE  e \in Order(data2, "complex")[c]
  BY DEF Grows
<1>1. /\ e \in 1 .. N /\ Touched("complex", data[c]) /\ Touched("complex", data[e])
      /\ CompareKey("complex", data[c]) <= CompareKey("complex", data[e])
  BY OrderIs
<1>2. data2[c] = data[c] /\ data2[e] = data[e]
  BY <1>1 DEF Touched
<1> QED BY <1>1, <1>2, OrderIs

(* What is in order stays in order when the order grows.                   *)
LEMMA RunsGrow ==
    ASSUME NEW N \in Nat, NEW arr \in [1 .. N -> 1 .. N], NEW R, NEW S, Grows(R, S, N),
           NEW lo \in Nat, lo >= 1, NEW hi \in Int, hi <= N
    PROVE  /\ \A w : Runs(arr, lo, hi, w, R) => Runs(arr, lo, hi, w, S)
           /\ Ascending(arr, lo, hi, R) => Ascending(arr, lo, hi, S)
<1>1. \A k \in lo .. (hi - 1) : arr[k] \in 1 .. N
  <2>1. \A k \in lo .. (hi - 1) : k \in 1 .. N
    OBVIOUS
  <2> QED BY <2>1
<1>2. \A k \in lo .. (hi - 1) : arr[k + 1] \in R[arr[k]] => arr[k + 1] \in S[arr[k]]
  BY <1>1 DEF Grows
<1> QED BY <1>2 DEF Runs, Ascending

(* A merge goes on undisturbed when the order grows.                       *)
LEMMA AtElementGrows ==
    ASSUME NEW N \in Nat, NEW next, NEW arr \in Perms(N), NEW a, NEW b, NEW s, NEW m, NEW R, NEW S,
           AtElement(next, arr, N, a, b, s, m, R), Grows(R, S, N)
    PROVE  AtElement(next, arr, N, a, b, s, m, S)
<1>1. arr \in [1 .. N -> 1 .. N]
  BY DEF Perms
<1>2. a \in 0 .. N /\ b \in a .. N /\ s \in 0 .. a
  BY DEF AtElement, Parts, Sizes
<1>3. Runs(arr, 1, a, 2 * m.insize, S) /\ Ascending(arr, a + 1, b, S) /\ Runs(arr, b + 1, N, m.insize, S)
  <2> DEFINE lo1 == a + 1
             lo2 == b + 1
             w2 == 2 * m.insize
  <2>1. lo1 \in Nat /\ lo1 >= 1 /\ lo2 \in Nat /\ lo2 >= 1 /\ a \in Int /\ a <= N /\ b \in Int /\ b <= N
    BY <1>2
  <2>2. Runs(arr, 1, a, w2, R) /\ Ascending(arr, lo1, b, R) /\ Runs(arr, lo2, N, m.insize, R)
    BY DEF AtElement
  <2> HIDE DEF lo1, lo2, w2
  <2>3. Runs(arr, 1, a, w2, S)
    BY <1>1, <2>1, <2>2, RunsGrow, SMTT(30)
  <2>4. Ascending(arr, lo1, b, S)
    BY <1>1, <2>1, <2>2, RunsGrow
  <2>5. Runs(arr, lo2, N, m.insize, S)
    BY <1>1, <2>1, <2>2, RunsGrow
  <2> QED BY <2>3, <2>4, <2>5 DEF lo1, lo2, w2
<1>4. Heads(arr, N, a, b, s, m, S)
  <2>1. a > s => a \in 1 .. N
    BY <1>2
  <2>2. a > s => arr[a] \in 1 .. N
    BY <1>1, <2>1
  <2> QED BY <2>2 DEF AtElement, Heads, Grows
<1> QED BY <1>3, <1>4 DEF AtElement

(* In an ordered list the first datum is the least.                        *)
LEMMA AscendingFirst ==
    ASSUME NEW N \in Nat, NEW data \in [1 .. N -> Data], NEW arr \in Perms(N), N >= 2,
           Ascending(arr, 1, N, Order(data, "idx"))
    PROVE  \A c \in 1 .. N : data[arr[1]].idx <= data[c].idx
<1>1. arr \in [1 .. N -> 1 .. N] /\ \A c \in 1 .. N : \E i \in 1 .. N : arr[i] = c
  BY DEF Perms
<1> DEFINE T == {k \in Nat : k + 1 \in 1 .. N => data[arr[1]].idx <= data[arr[k + 1]].idx}
<1>2. \A k \in 1 .. N : data[arr[k]].idx \in Nat
  BY <1>1 DEF Data
<1>3. 0 \in T
  BY <1>2
<1>4. ASSUME NEW n \in Nat, n \in T PROVE n + 1 \in T
  <2> SUFFICES ASSUME (n + 1) + 1 \in 1 .. N PROVE data[arr[1]].idx <= data[arr[(n + 1) + 1]].idx
    OBVIOUS
  <2>1. n + 1 \in 1 .. (N - 1) /\ n + 1 \in 1 .. N /\ 1 \in 1 .. N
    OBVIOUS
  <2>2. data[arr[1]].idx <= data[arr[n + 1]].idx
    BY <1>4, <2>1
  <2>3. arr[(n + 1) + 1] \in Order(data, "idx")[arr[n + 1]]
    BY <2>1 DEF Ascending
  <2>4. arr[n + 1] \in 1 .. N
    BY <1>1, <2>1
  <2>5. data[arr[n + 1]].idx <= data[arr[(n + 1) + 1]].idx
    <3> DEFINE c == arr[n + 1]
               e == arr[(n + 1) + 1]
               cmp == "idx"
    <3>1. c \in 1 .. N /\ e \in Order(data, cmp)[c]
      BY <2>3, <2>4
    <3> HIDE DEF c, e, cmp
    <3>2. CompareKey(cmp, data[c]) <= CompareKey(cmp, data[e])
      BY <3>1, OrderIs
    <3> QED BY <3>2 DEF CompareKey, c, e, cmp
  <2> HIDE DEF T
  <2> QED BY <1>2, <2>1, <2>2, <2>5
<1> HIDE DEF T
<1>5. \A n \in Nat : n \in T
  BY <1>3, <1>4, SetInduction
<1>6. ASSUME NEW c \in 1 .. N PROVE data[arr[1]].idx <= data[c].idx
  <2>1. PICK i \in 1 .. N : arr[i] = c
    BY <1>1
  <2>2. i - 1 \in Nat /\ (i - 1) + 1 = i
    OBVIOUS
  <2>3. i - 1 \in T
    BY <1>5, <2>2
  <2> QED BY <2>1, <2>2, <2>3 DEF T
<1> QED BY <1>6

(* In an ordered list every datum was compared at least once.              *)
LEMMA AscendingTouched ==
    ASSUME NEW N \in Nat, NEW data \in [1 .. N -> Data], NEW arr \in Perms(N), N >= 2, NEW cmp,
           Ascending(arr, 1, N, Order(data, cmp))
    PROVE  \A c \in 1 .. N : Touched(cmp, data[c])
<1>1. arr \in [1 .. N -> 1 .. N] /\ \A c \in 1 .. N : \E i \in 1 .. N : arr[i] = c
  BY DEF Perms
<1> SUFFICES ASSUME NEW c \in 1 .. N PROVE Touched(cmp, data[c])
  OBVIOUS
<1>2. PICK i \in 1 .. N : arr[i] = c
  BY <1>1
<1>3. CASE i < N
  <2>1. i \in 1 .. (N - 1)
    BY <1>3
  <2>2. arr[i + 1] \in Order(data, cmp)[c]
    BY <1>2, <2>1 DEF Ascending
  <2> QED BY <2>2, OrderIs
<1>4. CASE i = N
  <2>1. N - 1 \in 1 .. (N - 1) /\ N - 1 \in 1 .. N /\ (N - 1) + 1 = N
    OBVIOUS
  <2>2. arr[(N - 1) + 1] \in Order(data, cmp)[arr[N - 1]]
    BY <2>1 DEF Ascending
  <2>3. c \in Order(data, cmp)[arr[N - 1]] /\ arr[N - 1] \in 1 .. N
    BY <1>1, <1>2, <1>4, <2>1, <2>2
  <2> QED BY <2>3, OrderIs
<1> QED BY <1>3, <1>4

(* What the data of cell c are compared by.                                *)
KeyOf(h, cmp, c) == CompareKey(cmp, h.data[c])

(* Keys are numbers.                                                       *)
LEMMA KeyType ==
    ASSUME NEW N \in Nat, NEW h \in HeapsOf(N), NEW cmp, NEW c \in 1 .. N
    PROVE  KeyOf(h, cmp, c) \in Nat
<1>1. h.data[c] \in Data
  BY DEF HeapsOf
<1>2. h.data[c].idx \in Nat /\ h.data[c].data16 \in Nat
  BY <1>1 DEF Data, Words
<1> DEFINE x == h.data[c].data16
<1>3. x % 128 \in Nat
  <2> HIDE DEF x
  <2>1. x \in Nat
    BY <1>2 DEF x
  <2> QED BY <2>1
<1> QED BY <1>2, <1>3 DEF KeyOf, CompareKey

(* The data of cells p and q regenerated.                                  *)
Rebuilt(h, p, q) ==
    [h EXCEPT !.data = [c \in DOMAIN h.data |-> IF c \in {p, q} THEN Regen(h.data[c]) ELSE h.data[c]]]

(* cmp_idx rebuilds the two data it compares and nothing else.             *)
LEMMA RegenerateIs ==
    ASSUME NEW N \in Nat, NEW h \in HeapsOf(N), NEW p \in 1 .. N, NEW q \in 1 .. N,
           NEW h2,
           h2 = Rebuilt(h, p, q)
    PROVE  /\ h2 \in HeapsOf(N) /\ h2.next = h.next /\ h2.info = h.info
           /\ \A c \in 1 .. N : /\ h2.data[c].idx = h.data[c].idx
                                /\ h2.data[c].data16 \div 256 = h.data[c].data16 \div 256
           /\ \A c \in 1 .. N : h2.data[c] = h.data[c] \/ h2.data[c] = Regen(h.data[c])
           /\ Regen(h2.data[p]) = h2.data[p] /\ Regen(h2.data[q]) = h2.data[q]
<1> DEFINE d == h.data
           d2 == [c \in DOMAIN d |-> IF c \in {p, q} THEN Regen(d[c]) ELSE d[c]]
<1>1. d \in [1 .. N -> Data] /\ h.next \in [1 .. N -> 0 .. N] /\ h.info \in [1 .. N -> 1 .. N]
  BY DEF HeapsOf
<1>2. \A c \in 1 .. N : d[c] \in Data /\ Regen(d[c]) \in Data /\ Regen(Regen(d[c])) = Regen(d[c])
  <2> HIDE DEF d
  <2>1. \A c \in 1 .. N : d[c] \in Data
    BY <1>1
  <2> QED BY <2>1, RegenIs
<1>3. h2.data = d2 /\ h2.next = h.next /\ h2.info = h.info
      /\ h2 = [next |-> h.next, info |-> h.info, data |-> d2]
  <2>1. h = [next |-> h.next, info |-> h.info, data |-> d]
    BY DEF HeapsOf
  <2>2. h2 = [h EXCEPT !.data = d2]
    BY DEF Rebuilt
  <2> HIDE DEF d2, d
  <2> QED BY <2>1, <2>2
<1> HIDE DEF d
<1>4. \A c \in 1 .. N : d2[c] = IF c \in {p, q} THEN Regen(d[c]) ELSE d[c]
  BY <1>1
<1>5. DOMAIN d2 = 1 .. N /\ d2 = [c \in 1 .. N |-> d2[c]]
  BY <1>1
<1> HIDE DEF d2
<1>6. d2 \in [1 .. N -> Data]
  BY <1>2, <1>4, <1>5
<1>7. h2 \in HeapsOf(N)
  BY <1>1, <1>3, <1>6 DEF HeapsOf
<1>8. \A c \in 1 .. N : d2[c] = d[c] \/ d2[c] = Regen(d[c])
  BY <1>4
<1>9. \A c \in 1 .. N : d2[c].idx = d[c].idx /\ d2[c].data16 \div 256 = d[c].data16 \div 256
  BY <1>2, <1>8, RegenIs
<1>10. Regen(d2[p]) = d2[p] /\ Regen(d2[q]) = d2[q]
  BY <1>2, <1>4
<1> QED BY <1>3, <1>7, <1>8, <1>9, <1>10 DEF d

---------------------------------------------------------------------------
(* The matrices.                                                           *)

(* core_init_matrix chooses a size whose matrices are smaller than the     *)
(* block.                                                                  *)
LEMMA MatrixNIs ==
    ASSUME NEW blksize \in Nat, blksize > 0
    PROVE  /\ MatrixN(blksize) \in Nat /\ MatrixN(blksize) <= blksize
           /\ 8 * MatrixN(blksize) * MatrixN(blksize) < blksize
<1> DEFINE S == {n \in 0 .. blksize : n * n * 8 < blksize}
           T == {blksize - n : n \in S}
<1>1. 0 \in S
  OBVIOUS
<1>2. T \in SUBSET Nat /\ T # {}
  BY <1>1
<1>3. PICK t \in T : \A u \in T : t <= u
  BY <1>2, LeastNat
<1>4. PICK x \in S : t = blksize - x
  BY <1>3
<1>5. \A y \in S : x >= y
  <2> SUFFICES ASSUME NEW y \in S PROVE x >= y
    OBVIOUS
  <2>1. t <= blksize - y
    BY <1>3
  <2> QED BY <1>4, <2>1
<1>6. Max(S) \in S
  <2> HIDE DEF S
  <2> QED BY <1>5 DEF Max
<1>7. MatrixN(blksize) = Max(S)
  BY DEF MatrixN
<1> DEFINE m == Max(S)
<1>8. m \in Nat /\ m <= blksize /\ m * m * 8 < blksize
  BY <1>6
<1> HIDE DEF m
<1>9. 8 * m * m = m * m * 8
  BY <1>8
<1> QED BY <1>7, <1>8, <1>9 DEF m

(* align_mem gives the next multiple of 4.                                 *)
LEMMA AlignMem ==
    ASSUME NEW x \in Nat, x > 0
    PROVE  /\ align_mem(x) \in Nat /\ align_mem(x) >= x /\ align_mem(x) <= x + 3
           /\ align_mem(x) % 4 = 0
           /\ x % 4 = 0 => align_mem(x) = x
BY DEF align_mem

(* List and matrices stay in their blocks.                                 *)
LEMMA BlocksFit ==
    ASSUME NEW sz \in Nat, sz >= 120, \A n \in 0 .. sz : sz - 8 * n * n \notin {1, 2},
           NEW base \in 0 .. 3
    PROVE  /\ (8 + 4) * ListSize(sz) <= sz
           /\ MatrixLayout(sz, base + sz).end <= base + 2 * sz
<1> DEFINE n == MatrixN(sz)
           nn == n * n
           A == align_mem(base + sz)
           y == A + 4 * nn
<1>1. (8 + 4) * ListSize(sz) <= sz
  BY DEF ListSize, PER_ITEM
<1>2. n \in Nat /\ n <= sz /\ 8 * n * n < sz
  BY MatrixNIs
<1> HIDE DEF n
<1>3. n \in 0 .. sz /\ nn \in Nat /\ 8 * n * n = 8 * nn
  BY <1>2
<1>4. sz - 8 * n * n \notin {1, 2}
  BY <1>3
<1>5. sz - 8 * nn >= 3
  <2> HIDE DEF nn
  <2>1. sz - 8 * nn \notin {1, 2}
    BY <1>3, <1>4
  <2> QED BY <1>2, <1>3, <2>1
<1>6. base + sz \in Nat /\ base + sz > 0
  OBVIOUS
<1>7. A \in Nat /\ A <= base + sz + 3 /\ A >= base + sz /\ A % 4 = 0
  <2> DEFINE x == base + sz
  <2>1. x \in Nat /\ x > 0
    OBVIOUS
  <2> HIDE DEF x
  <2>2. align_mem(x) \in Nat /\ align_mem(x) >= x /\ align_mem(x) <= x + 3 /\ align_mem(x) % 4 = 0
    BY <2>1, AlignMem
  <2> QED BY <2>2 DEF x
<1> HIDE DEF nn, A
<1>8. y \in Nat /\ y > 0 /\ y % 4 = 0
  BY <1>3, <1>7
<1>9. (A + 2 * nn) + 2 * nn = y
  BY <1>3, <1>7
<1> HIDE DEF y
<1>10. align_mem(y) = y
  BY <1>8, AlignMem
<1>11. MatrixLayout(sz, base + sz).end = align_mem((A + 2 * nn) + 2 * nn) + 4 * nn
  BY DEF MatrixLayout, A, nn, n
<1>12. MatrixLayout(sz, base + sz).end = y + 4 * nn
  BY <1>9, <1>10, <1>11
<1>13. y + 4 * nn <= base + 2 * sz
  BY <1>3, <1>5, <1>7 DEF y
<1> QED BY <1>1, <1>12, <1>13

(* A constant added to a signed short and taken out again, with the        *)
(* wrapping of 16 bits.                                                    *)
LEMMA AddConstUndone ==
    ASSUME NEW a \in Nat, a < 256, NEW v \in Nat, v < 256
    PROVE  S16(S16(a + v) + (-v)) = a /\ S16(a + v) \in Int
<1>1. S16(a + v) = a + v
  BY DEF S16
<1>2. S16((a + v) + (-v)) = a
  BY DEF S16
<1> QED BY <1>1, <1>2

(* The matrices, as the program's values.                                  *)
Matrices(N) == [N : {N}, A : [0 .. (N * N - 1) -> Int], B : [0 .. (N * N - 1) -> Int],
                C : [0 .. (N * N - 1) -> Int]]

(* A signed short is an integer.                                           *)
LEMMA S16Type == \A x \in Int : S16(x) \in Int
BY DEF S16

(* A sum over the columns is an integer.                                   *)
LEMMA OverType ==
    ASSUME NEW m, m.N \in Nat, NEW f, \A j \in 0 .. (m.N - 1) : f[j] \in Int
    PROVE  Over(m, f) \in Int
<1> DEFINE n == m.N
           body == [k \in 1 .. n |-> [sum \in Int |-> sum + f[k - 1]]]
<1>1. n \in Nat
  OBVIOUS
<1>2. \A j \in 0 .. (n - 1) : f[j] \in Int
  OBVIOUS
<1>3. Over(m, f) = Loop(n, 0, body)
  BY DEF Over
<1> HIDE DEF n
<1>4. \A k \in 1 .. n : \A x \in Int : body[k][x] \in Int
  <2> SUFFICES ASSUME NEW k \in 1 .. n, NEW x \in Int PROVE body[k][x] \in Int
    OBVIOUS
  <2>1. k - 1 \in 0 .. (n - 1)
    BY <1>1
  <2>2. f[k - 1] \in Int
    BY <1>2, <2>1
  <2> QED BY <2>2
<1> HIDE DEF body
<1>5. Loop(n, 0, body) \in Int
  BY <1>1, <1>4, LoopKeeps
<1> QED BY <1>3, <1>5

(* Row r and column c are an element of the matrix.                        *)
LEMMA ElementOf ==
    ASSUME NEW N \in Nat, NEW r \in 0 .. (N - 1), NEW c \in 0 .. (N - 1)
    PROVE  r * N + c \in 0 .. (N * N - 1)
<1>1. r * N <= (N - 1) * N
  <2>1. N - 1 - r \in Nat
    OBVIOUS
  <2>2. (N - 1 - r) * N >= 0
    BY <2>1
  <2>3. (N - 1 - r) * N = (N - 1) * N - r * N
    OBVIOUS
  <2> QED BY <2>2, <2>3
<1>2. (N - 1) * N = N * N - N
  OBVIOUS
<1> QED BY <1>1, <1>2

(* Every element has a row and a column.                                   *)
LEMMA RowCol ==
    ASSUME NEW N \in Nat, NEW k \in 0 .. (N * N - 1)
    PROVE  k \div N \in 0 .. (N - 1) /\ k % N \in 0 .. (N - 1)
<1>1. N > 0
  OBVIOUS
<1> DEFINE d == k \div N
           r == k % N
<1>2. d \in Nat /\ r \in 0 .. (N - 1) /\ k = N * d + r
  BY <1>1, DivMod
<1> HIDE DEF d, r
<1>3. d < N
  <2> SUFFICES ASSUME d >= N PROVE FALSE
    BY <1>2
  <2>1. N * (d - N) >= 0 /\ N * (d - N) = N * d - N * N
    BY <1>2
  <2> QED BY <1>2, <2>1
<1> QED BY <1>2, <1>3 DEF d, r

(* Products of elements are integers: none lies outside the matrices.      *)
LEMMA ProductType ==
    ASSUME NEW N \in Nat, NEW m \in Matrices(N), NEW k \in 0 .. (N * N - 1), NEW j \in 0 .. (N - 1)
    PROVE  Product(m, k, j) \in Int
<1>1. m.N = N /\ m.A \in [0 .. (N * N - 1) -> Int] /\ m.B \in [0 .. (N * N - 1) -> Int]
  BY DEF Matrices
<1> DEFINE r == k \div N
           c == k % N
<1>2. r \in 0 .. (N - 1) /\ c \in 0 .. (N - 1)
  BY RowCol
<1>3. Product(m, k, j) = m.A[r * N + j] * m.B[j * N + c]
  BY <1>1 DEF Product, Row, Col
<1> HIDE DEF r, c
<1>4. r * N + j \in 0 .. (N * N - 1) /\ j * N + c \in 0 .. (N * N - 1)
  BY <1>2, ElementOf
<1>5. m.A[r * N + j] \in Int /\ m.B[j * N + c] \in Int
  BY <1>1, <1>4
<1> QED BY <1>3, <1>5

(* A new C leaves A and B alone.                                           *)
LEMMA SetC ==
    ASSUME NEW N \in Nat, NEW m \in Matrices(N), NEW C, C \in [0 .. (N * N - 1) -> Int]
    PROVE  /\ [m EXCEPT !.C = C] \in Matrices(N)
           /\ [m EXCEPT !.C = C].A = m.A /\ [m EXCEPT !.C = C].B = m.B
BY DEF Matrices

(* Steps 1 to 4 of matrix_test change C only.                              *)
LEMMA StepC ==
    ASSUME NEW N \in Nat, NEW m \in Matrices(N), NEW val \in Int, NEW k \in 1 .. 4
    PROVE  /\ matrix_step(m, val, k) \in Matrices(N)
           /\ matrix_step(m, val, k).A = m.A /\ matrix_step(m, val, k).B = m.B
<1> DEFINE D == 0 .. (N * N - 1)
<1>1. m.N = N /\ m.A \in [D -> Int] /\ m.B \in [D -> Int] /\ m.C \in [D -> Int] /\ DOMAIN m.C = D
  BY DEF Matrices
<1>2. CASE k = 1
  <2> DEFINE C == [e \in D |-> m.A[e] * val]
  <2>1. C \in [D -> Int]
    BY <1>1
  <2>2. matrix_step(m, val, k) = [m EXCEPT !.C = C]
    BY <1>1, <1>2 DEF matrix_step, matrix_mul_const
  <2> HIDE DEF C
  <2> QED BY <2>1, <2>2, SetC
<1>3. CASE k = 2
  <2> DEFINE f(e) == [j \in Cols(m) |-> m.A[e * m.N + j] * m.B[j]]
             C == [e \in D |-> IF e < m.N THEN Over(m, f(e)) ELSE m.C[e]]
  <2>1. C \in [D -> Int]
    <3> SUFFICES ASSUME NEW e \in D PROVE (IF e < m.N THEN Over(m, f(e)) ELSE m.C[e]) \in Int
      OBVIOUS
    <3>1. m.C[e] \in Int
      BY <1>1
    <3>2. ASSUME e < m.N PROVE Over(m, f(e)) \in Int
      <4>1. \A j \in 0 .. (m.N - 1) : f(e)[j] \in Int
        <5> SUFFICES ASSUME NEW j \in 0 .. (N - 1) PROVE m.A[e * N + j] * m.B[j] \in Int
          BY <1>1 DEF Cols
        <5>1. e \in 0 .. (N - 1)
          BY <1>1, <3>2
        <5>2. e * N + j \in D
          BY <5>1, ElementOf
        <5>3. 0 * N + j \in D /\ 0 * N + j = j
          <6>1. 0 \in 0 .. (N - 1)
            OBVIOUS
          <6> QED BY <6>1, ElementOf
        <5> HIDE DEF D
        <5>4. m.A[e * N + j] \in Int /\ m.B[j] \in Int
          BY <1>1, <5>2, <5>3
        <5> QED BY <5>4
      <4> HIDE DEF f
      <4> QED BY <1>1, <4>1, OverType
    <3> QED BY <3>1, <3>2
  <2>2. matrix_step(m, val, k) = [m EXCEPT !.C = C]
    BY <1>1, <1>3 DEF matrix_step, matrix_mul_vect
  <2> HIDE DEF C
  <2> QED BY <2>1, <2>2, SetC
<1>4. CASE k = 3
  <2> DEFINE f(e) == [j \in Cols(m) |-> Product(m, e, j)]
             C == [e \in D |-> Over(m, f(e))]
  <2>1. C \in [D -> Int]
    <3> SUFFICES ASSUME NEW e \in D PROVE Over(m, f(e)) \in Int
      OBVIOUS
    <3>1. \A j \in 0 .. (m.N - 1) : f(e)[j] \in Int
      BY <1>1, ProductType DEF Cols
    <3> HIDE DEF f
    <3> QED BY <1>1, <3>1, OverType
  <2>2. matrix_step(m, val, k) = [m EXCEPT !.C = C]
    BY <1>1, <1>4 DEF matrix_step, matrix_mul_matrix
  <2> HIDE DEF C
  <2> QED BY <2>1, <2>2, SetC
<1>5. CASE k = 4
  <2> DEFINE f(e) == [j \in Cols(m) |-> bit_extract(Product(m, e, j), 4, 16)
                                   * bit_extract(Product(m, e, j), 32, 128)]
             C == [e \in D |-> Over(m, f(e))]
  <2>1. C \in [D -> Int]
    <3> SUFFICES ASSUME NEW e \in D PROVE Over(m, f(e)) \in Int
      OBVIOUS
    <3>0. \A x \in Int : bit_extract(x, 4, 16) \in Int /\ bit_extract(x, 32, 128) \in Int
      BY DEF bit_extract
    <3>1. \A j \in 0 .. (m.N - 1) : f(e)[j] \in Int
      <4> SUFFICES ASSUME NEW j \in 0 .. (N - 1)
                   PROVE  bit_extract(Product(m, e, j), 4, 16) * bit_extract(Product(m, e, j), 32, 128) \in Int
        BY <1>1 DEF Cols
      <4> DEFINE x == Product(m, e, j)
                 y == bit_extract(x, 4, 16)
                 z == bit_extract(x, 32, 128)
      <4>1. x \in Int
        BY ProductType
      <4> HIDE DEF x
      <4>2. y \in Int /\ z \in Int
        BY <3>0, <4>1
      <4> HIDE DEF y, z
      <4>3. y * z \in Int
        BY <4>2
      <4> QED BY <4>3 DEF x, y, z
    <3> HIDE DEF f
    <3> QED BY <1>1, <3>1, OverType
  <2>2. matrix_step(m, val, k) = [m EXCEPT !.C = C]
    BY <1>1, <1>5 DEF matrix_step, matrix_mul_matrix_bitextract
  <2> HIDE DEF C
  <2> QED BY <2>1, <2>2, SetC
<1> QED BY <1>2, <1>3, <1>4, <1>5

(* A with v added to every element.                                        *)
Shifted(N, A, v) == [e \in 0 .. (N * N - 1) |-> S16(A[e] + v)]

(* Steps 0 and 5 of matrix_test change every element of A.                 *)
LEMMA StepA ==
    ASSUME NEW N \in Nat, NEW m \in Matrices(N), NEW v \in Int
    PROVE  /\ matrix_add_const(m, v) \in Matrices(N)
           /\ matrix_add_const(m, v).A = Shifted(N, m.A, v)
           /\ matrix_add_const(m, v).B = m.B
<1> DEFINE D == 0 .. (N * N - 1)
           A == [e \in D |-> S16(m.A[e] + v)]
<1>1. m.A \in [D -> Int] /\ DOMAIN m.A = D
  BY DEF Matrices
<1>2. A \in [D -> Int]
  <2> HIDE DEF D
  <2>1. \A e \in D : m.A[e] + v \in Int
    BY <1>1
  <2> QED BY <2>1, S16Type
<1>3. matrix_add_const(m, v) = [m EXCEPT !.A = A]
  <2> HIDE DEF D
  <2> QED BY <1>1 DEF matrix_add_const
<1> HIDE DEF A
<1>4. [m EXCEPT !.A = A] \in Matrices(N) /\ [m EXCEPT !.A = A].A = A /\ [m EXCEPT !.A = A].B = m.B
  BY <1>2 DEF Matrices
<1>5. A = Shifted(N, m.A, v)
  BY DEF A, Shifted
<1> QED BY <1>3, <1>4, <1>5

(* The sum over the result is an integer.                                  *)
LEMMA MatrixSumType ==
    ASSUME NEW N \in Nat, NEW m \in Matrices(N), NEW clipval \in Int
    PROVE  matrix_sum(m, clipval) \in Int
<1> DEFINE S == [tmp : Int, ret : Int]
           prev(k) == IF k = 0 THEN 0 ELSE m.C[k - 1]
           turn(k, x) == IF x.tmp + m.C[k] > clipval THEN [tmp |-> 0, ret |-> x.ret + 10]
                         ELSE [tmp |-> x.tmp + m.C[k],
                               ret |-> x.ret + IF m.C[k] > prev(k) THEN 1 ELSE 0]
           n == m.N * m.N
           init == [tmp |-> 0, ret |-> 0]
           body == [k \in 1 .. n |-> [x \in S |-> turn(k - 1, x)]]
<1>1. m.N = N /\ m.C \in [0 .. (N * N - 1) -> Int]
  BY DEF Matrices
<1>2. n \in Nat /\ n = N * N
  BY <1>1
<1>3. matrix_sum(m, clipval) = S16(Loop(n, init, body).ret)
  BY DEF matrix_sum
<1>4. \A k \in 1 .. n : \A x \in S : body[k][x] \in S
  <2> SUFFICES ASSUME NEW k \in 1 .. n, NEW x \in S PROVE turn(k - 1, x) \in S
    OBVIOUS
  <2>1. k - 1 \in 0 .. (N * N - 1)
    BY <1>2
  <2>2. m.C[k - 1] \in Int
    BY <1>1, <2>1
  <2>3. x.tmp + m.C[k - 1] \in Int /\ x.ret + 10 \in Int /\ x.ret + 1 \in Int /\ x.ret + 0 \in Int
    BY <2>2
  <2> QED BY <2>3
<1>5. init \in S
  OBVIOUS
<1> HIDE DEF S, init, body, n
<1>6. Loop(n, init, body) \in S
  BY <1>2, <1>4, <1>5, LoopKeeps
<1>7. Loop(n, init, body).ret \in Int
  BY <1>6 DEF S
<1> QED BY <1>3, <1>7, S16Type

(* core_init_matrix fills both matrices, A with bytes.                     *)
LEMMA InitMatrixType ==
    ASSUME NEW blksize \in Nat, blksize > 0, NEW sd \in Nat
    PROVE  /\ core_init_matrix(blksize, sd) \in Matrices(MatrixN(blksize))
           /\ \A e \in 0 .. (MatrixN(blksize) * MatrixN(blksize) - 1) :
                 core_init_matrix(blksize, sd).A[e] \in Bytes
<1> DEFINE N == MatrixN(blksize)
           n == N * N
           D == 0 .. (n - 1)
           At(k) == [seed : Nat, B : [1 .. k -> Int]]
           S == [k \in 0 .. n |-> At(k)]
           init == [seed |-> IF sd = 0 THEN 1 ELSE sd, B |-> << >>]
           T == [seed : Nat, B : Seq(Int)]
           body == [k \in 1 .. (N * N) |-> [x \in T |->
                         LET s == (k * x.seed) % 65536
                         IN [seed |-> s, B |-> Append(x.B, S16(s + k))]]]
           made == Loop(N * N, init, body)
           B == [k \in 0 .. (N * N - 1) |-> made.B[k + 1]]
           A == [k \in DOMAIN B |-> S16(B[k] + k + 1) % 256]
           C == [k \in DOMAIN B |-> 0]
<1>1. N \in Nat
  BY MatrixNIs
<1>2. core_init_matrix(blksize, sd) = [N |-> N, B |-> B, A |-> A, C |-> C]
  BY DEF core_init_matrix
<1> HIDE DEF N
<1>3. n \in Nat
  BY <1>1
<1>4. init \in S[0]
  BY <1>3
<1>5. \A k \in 1 .. n : \A x \in S[k - 1] : body[k][x] \in S[k]
  <2> HIDE DEF n, S, body
  <2> SUFFICES ASSUME NEW k \in 1 .. n, NEW x \in S[k - 1] PROVE body[k][x] \in S[k]
    OBVIOUS
  <2>1. x \in [seed : Nat, B : [1 .. (k - 1) -> Int]] /\ k - 1 \in Nat
    BY <1>3 DEF S
  <2>2. x \in T
    <3>1. x.B \in [1 .. (k - 1) -> Int] /\ x.seed \in Nat /\ x = [seed |-> x.seed, B |-> x.B]
      BY <2>1
    <3> DEFINE xB == x.B
               k1 == k - 1
    <3>2. xB \in [1 .. k1 -> Int] /\ k1 \in Nat
      BY <2>1, <3>1
    <3> HIDE DEF xB, k1
    <3>3. xB \in Seq(Int)
      BY <3>2, SegmentIsSeq
    <3> QED BY <3>1, <3>3 DEF xB
  <2> DEFINE s == (k * x.seed) % 65536
             e == S16(s + k)
  <2>3. s \in Nat
    BY <2>1
  <2>4. body[k][x] = [seed |-> s, B |-> Append(x.B, e)]
    BY <2>2 DEF body, n
  <2> HIDE DEF s
  <2>5. e \in Int
    BY <2>3, S16Type
  <2> HIDE DEF e
  <2>6. Append(x.B, e) \in [1 .. k -> Int]
    <3> DEFINE xB == x.B
               k1 == k - 1
    <3>1. xB \in [1 .. k1 -> Int] /\ k1 \in Nat /\ k1 + 1 = k
      BY <2>1
    <3> HIDE DEF xB, k1
    <3>2. Append(xB, e) = [i \in 1 .. (k1 + 1) |-> IF i = k1 + 1 THEN e ELSE xB[i]]
      <4> DEFINE Z == Int
      <4>1. xB \in [1 .. k1 -> Z] /\ e \in Z
        BY <2>5, <3>1
      <4> HIDE DEF Z
      <4> QED BY <3>1, <4>1, AppendSegment
    <3>3. \A i \in 1 .. (k1 + 1) : (IF i = k1 + 1 THEN e ELSE xB[i]) \in Int
      BY <2>5, <3>1
    <3>4. Append(xB, e) \in [1 .. (k1 + 1) -> Int]
      BY <3>2, <3>3
    <3> QED BY <3>1, <3>4 DEF xB
  <2>7. S[k] = At(k)
    <3> HIDE DEF At
    <3> QED BY <1>3 DEF S
  <2> QED BY <2>3, <2>4, <2>6, <2>7
<1> HIDE DEF init, body, S
<1>6. made \in S[n]
  BY <1>3, <1>4, <1>5, LoopInvariant
<1>7. made \in [seed : Nat, B : [1 .. n -> Int]]
  <2>1. S[n] = At(n)
    <3> HIDE DEF At, n
    <3> QED BY <1>3 DEF S
  <2> HIDE DEF made, n
  <2> QED BY <1>6, <2>1
<1> HIDE DEF made
<1>8. B \in [D -> Int] /\ DOMAIN B = D
  <2>1. \A k \in D : k + 1 \in 1 .. n
    BY <1>3
  <2> HIDE DEF n
  <2>2. made.B \in [1 .. n -> Int]
    BY <1>7
  <2>3. \A k \in D : made.B[k + 1] \in Int
    BY <2>1, <2>2
  <2> QED BY <2>3 DEF n
<1> HIDE DEF B
<1>9. \A e \in D : A[e] \in Bytes
  <2> SUFFICES ASSUME NEW e \in D PROVE A[e] \in Bytes
    OBVIOUS
  <2>1. B[e] \in Int /\ e \in Int
    BY <1>8
  <2> DEFINE y == S16(B[e] + e + 1)
  <2>2. y \in Int
    BY <2>1, S16Type
  <2> HIDE DEF y
  <2>3. y % 256 \in Bytes
    BY <2>2 DEF Bytes
  <2>4. A[e] = y % 256
    BY <1>8 DEF y
  <2> QED BY <2>3, <2>4
<1>10. A \in [D -> Int] /\ C \in [D -> Int]
  <2>1. DOMAIN A = D /\ \A e \in D : A[e] \in Int
    BY <1>8, <1>9 DEF Bytes
  <2>2. A = [e \in D |-> A[e]]
    BY <1>8
  <2> HIDE DEF A
  <2>3. A \in [D -> Int]
    BY <2>1, <2>2
  <2> QED BY <1>8, <2>3
<1> HIDE DEF A, C
<1>11. [N |-> N, B |-> B, A |-> A, C |-> C] \in Matrices(N)
  BY <1>8, <1>10 DEF Matrices
<1> QED BY <1>2, <1>9, <1>11 DEF N

---------------------------------------------------------------------------
(* The text of the state benchmark.                                        *)

(* The characters of the text are bytes.                                   *)
LEMMA CharactersAreBytes == \A c \in Characters \union {COMMA, 0} : c \in Bytes
BY DEF Characters, COMMA, Bytes

(* Four characters.                                                        *)
LEMMA FourOf ==
    ASSUME NEW S, NEW a \in S, NEW b \in S, NEW c \in S, NEW d \in S
    PROVE  <<a, b, c, d>> \in Seq(S)
OBVIOUS

(* Eight characters.                                                       *)
LEMMA EightOf ==
    ASSUME NEW S, NEW a \in S, NEW b \in S, NEW c \in S, NEW d \in S,
           NEW e \in S, NEW f \in S, NEW g \in S, NEW h \in S
    PROVE  <<a, b, c, d, e, f, g, h>> \in Seq(S)
OBVIOUS

(* core_init_state chooses among patterns of known characters.             *)
LEMMA PatternType ==
    ASSUME NEW sd \in Nat
    PROVE  Pattern(sd) \in Seq(Characters)
<1> DEFINE n == ((sd \div 8) % 4) + 1
<1>1. n \in 1 .. 4
  OBVIOUS
<1>a. /\ 43 \in Characters /\ 45 \in Characters /\ 46 \in Characters /\ 48 \in Characters
      /\ 49 \in Characters /\ 50 \in Characters /\ 51 \in Characters /\ 52 \in Characters
      /\ 53 \in Characters /\ 54 \in Characters /\ 55 \in Characters /\ 56 \in Characters
      /\ 70 \in Characters /\ 84 \in Characters /\ 94 \in Characters /\ 101 \in Characters
      /\ 113 \in Characters /\ 122 \in Characters
  BY DEF Characters
<1>2. \A i \in 1 .. 4 : intpat[i] \in Seq(Characters)
  <2>1. intpat[1] \in Seq(Characters)
    <3>1. intpat[1] = <<53, 48, 49, 50>>
      BY DEF intpat
    <3>2. <<53, 48, 49, 50>> \in Seq(Characters)
      BY <1>a, FourOf
    <3> QED BY <3>1, <3>2
  <2>2. intpat[2] \in Seq(Characters)
    <3>1. intpat[2] = <<49, 50, 51, 52>>
      BY DEF intpat
    <3>2. <<49, 50, 51, 52>> \in Seq(Characters)
      BY <1>a, FourOf
    <3> QED BY <3>1, <3>2
  <2>3. intpat[3] \in Seq(Characters)
    <3>1. intpat[3] = <<45, 56, 55, 52>>
      BY DEF intpat
    <3>2. <<45, 56, 55, 52>> \in Seq(Characters)
      BY <1>a, FourOf
    <3> QED BY <3>1, <3>2
  <2>4. intpat[4] \in Seq(Characters)
    <3>1. intpat[4] = <<43, 49, 50, 50>>
      BY DEF intpat
    <3>2. <<43, 49, 50, 50>> \in Seq(Characters)
      BY <1>a, FourOf
    <3> QED BY <3>1, <3>2
  <2>5. \A i \in 1 .. 4 : i = 1 \/ i = 2 \/ i = 3 \/ i = 4
    OBVIOUS
  <2> QED BY <2>1, <2>2, <2>3, <2>4, <2>5
<1>3. \A i \in 1 .. 4 : floatpat[i] \in Seq(Characters)
  <2>1. floatpat[1] \in Seq(Characters)
    <3>1. floatpat[1] = <<51, 53, 46, 53, 52, 52, 48, 48>>
      BY DEF floatpat
    <3>2. <<51, 53, 46, 53, 52, 52, 48, 48>> \in Seq(Characters)
      BY <1>a, EightOf
    <3> QED BY <3>1, <3>2
  <2>2. floatpat[2] \in Seq(Characters)
    <3>1. floatpat[2] = <<46, 49, 50, 51, 52, 53, 48, 48>>
      BY DEF floatpat
    <3>2. <<46, 49, 50, 51, 52, 53, 48, 48>> \in Seq(Characters)
      BY <1>a, EightOf
    <3> QED BY <3>1, <3>2
  <2>3. floatpat[3] \in Seq(Characters)
    <3>1. floatpat[3] = <<45, 49, 49, 48, 46, 55, 48, 48>>
      BY DEF floatpat
    <3>2. <<45, 49, 49, 48, 46, 55, 48, 48>> \in Seq(Characters)
      BY <1>a, EightOf
    <3> QED BY <3>1, <3>2
  <2>4. floatpat[4] \in Seq(Characters)
    <3>1. floatpat[4] = <<43, 48, 46, 54, 52, 52, 48, 48>>
      BY DEF floatpat
    <3>2. <<43, 48, 46, 54, 52, 52, 48, 48>> \in Seq(Characters)
      BY <1>a, EightOf
    <3> QED BY <3>1, <3>2
  <2>5. \A i \in 1 .. 4 : i = 1 \/ i = 2 \/ i = 3 \/ i = 4
    OBVIOUS
  <2> QED BY <2>1, <2>2, <2>3, <2>4, <2>5
<1>4. \A i \in 1 .. 4 : scipat[i] \in Seq(Characters)
  <2>1. scipat[1] \in Seq(Characters)
    <3>1. scipat[1] = <<53, 46, 53, 48, 48, 101, 43, 51>>
      BY DEF scipat
    <3>2. <<53, 46, 53, 48, 48, 101, 43, 51>> \in Seq(Characters)
      BY <1>a, EightOf
    <3> QED BY <3>1, <3>2
  <2>2. scipat[2] \in Seq(Characters)
    <3>1. scipat[2] = <<45, 46, 49, 50, 51, 101, 45, 50>>
      BY DEF scipat
    <3>2. <<45, 46, 49, 50, 51, 101, 45, 50>> \in Seq(Characters)
      BY <1>a, EightOf
    <3> QED BY <3>1, <3>2
  <2>3. scipat[3] \in Seq(Characters)
    <3>1. scipat[3] = <<45, 56, 55, 101, 43, 56, 51, 50>>
      BY DEF scipat
    <3>2. <<45, 56, 55, 101, 43, 56, 51, 50>> \in Seq(Characters)
      BY <1>a, EightOf
    <3> QED BY <3>1, <3>2
  <2>4. scipat[4] \in Seq(Characters)
    <3>1. scipat[4] = <<43, 48, 46, 54, 101, 45, 49, 50>>
      BY DEF scipat
    <3>2. <<43, 48, 46, 54, 101, 45, 49, 50>> \in Seq(Characters)
      BY <1>a, EightOf
    <3> QED BY <3>1, <3>2
  <2>5. \A i \in 1 .. 4 : i = 1 \/ i = 2 \/ i = 3 \/ i = 4
    OBVIOUS
  <2> QED BY <2>1, <2>2, <2>3, <2>4, <2>5
<1>5. \A i \in 1 .. 4 : errpat[i] \in Seq(Characters)
  <2>1. errpat[1] \in Seq(Characters)
    <3>1. errpat[1] = <<84, 48, 46, 51, 101, 45, 49, 70>>
      BY DEF errpat
    <3>2. <<84, 48, 46, 51, 101, 45, 49, 70>> \in Seq(Characters)
      BY <1>a, EightOf
    <3> QED BY <3>1, <3>2
  <2>2. errpat[2] \in Seq(Characters)
    <3>1. errpat[2] = <<45, 84, 46, 84, 43, 43, 84, 113>>
      BY DEF errpat
    <3>2. <<45, 84, 46, 84, 43, 43, 84, 113>> \in Seq(Characters)
      BY <1>a, EightOf
    <3> QED BY <3>1, <3>2
  <2>3. errpat[3] \in Seq(Characters)
    <3>1. errpat[3] = <<49, 84, 51, 46, 52, 101, 52, 122>>
      BY DEF errpat
    <3>2. <<49, 84, 51, 46, 52, 101, 52, 122>> \in Seq(Characters)
      BY <1>a, EightOf
    <3> QED BY <3>1, <3>2
  <2>4. errpat[4] \in Seq(Characters)
    <3>1. errpat[4] = <<51, 52, 46, 48, 101, 45, 84, 94>>
      BY DEF errpat
    <3>2. <<51, 52, 46, 48, 101, 45, 84, 94>> \in Seq(Characters)
      BY <1>a, EightOf
    <3> QED BY <3>1, <3>2
  <2>5. \A i \in 1 .. 4 : i = 1 \/ i = 2 \/ i = 3 \/ i = 4
    OBVIOUS
  <2> QED BY <2>1, <2>2, <2>3, <2>4, <2>5
<1> HIDE DEF n
<1>6. Pattern(sd) = intpat[n] \/ Pattern(sd) = floatpat[n] \/ Pattern(sd) = scipat[n] \/ Pattern(sd) = errpat[n]
  BY DEF Pattern, n
<1> QED BY <1>1, <1>2, <1>3, <1>4, <1>5, <1>6

(* The text consists of known characters and commas and ends with two      *)
(* zeros at least.                                                         *)
LEMMA InitStateIs ==
    ASSUME NEW sz \in Nat, sz >= 120, NEW sd \in Nat
    PROVE  /\ core_init_state(sz, sd) \in [0 .. (sz - 1) -> Characters \union {COMMA, 0}]
           /\ core_init_state(sz, sd)[sz - 1] = 0 /\ core_init_state(sz, sd)[sz - 2] = 0
<1> DEFINE X == Characters \union {COMMA}
           T == [text : Seq(Nat), buf : Seq(Nat), seed : Nat]
           S == {x \in [text : Seq(X), buf : Seq(X), seed : Nat] : Len(x.text) <= sz - 2}
           item(x) == IF x.buf = << >> THEN << >> ELSE Append(x.buf, COMMA)
           n == sz \div 5 + 2
           init == [text |-> << >>, buf |-> << >>, seed |-> sd]
           turn(x) == IF Len(x.text) + Len(x.buf) + 1 >= sz - 1 THEN x
                      ELSE [text |-> x.text \o item(x), buf |-> Pattern(x.seed + 1),
                            seed |-> x.seed + 1]
           body == [k \in 1 .. (sz \div 5 + 2) |-> [x \in T |-> turn(x)]]
           text == Loop(n, init, body).text
<1>1. n \in Nat
  OBVIOUS
<1>2. init \in S
  OBVIOUS
<1>3. X \subseteq Nat /\ COMMA \in X
  BY DEF Characters, COMMA
<1>4. \A x \in S : x \in T
  <2> HIDE DEF X
  <2> SUFFICES ASSUME NEW x \in S PROVE x \in T
    OBVIOUS
  <2>1. \A q \in Seq(X) : q \in Seq(Nat)
    BY <1>3, SubsetSeq
  <2> QED BY <2>1
<1>5. ASSUME NEW x \in S PROVE turn(x) \in S
  <2> HIDE DEF X
  <2>1. x.text \in Seq(X) /\ x.buf \in Seq(X) /\ x.seed \in Nat /\ Len(x.text) <= sz - 2
    OBVIOUS
  <2>2. CASE Len(x.text) + Len(x.buf) + 1 >= sz - 1
    BY <2>2
  <2>3. CASE ~(Len(x.text) + Len(x.buf) + 1 >= sz - 1)
    <3>1. item(x) \in Seq(X) /\ Len(item(x)) <= Len(x.buf) + 1
      BY <1>3, <2>1
    <3>2. Pattern(x.seed + 1) \in Seq(X)
      <4>1. Pattern(x.seed + 1) \in Seq(Characters)
        BY <2>1, PatternType
      <4>2. Seq(Characters) \subseteq Seq(X)
        BY DEF X
      <4> QED BY <4>1, <4>2
    <3>3. x.seed + 1 \in Nat
      BY <2>1
    <3> DEFINE it == item(x)
               tx == x.text
               ln == Len(x.buf)
    <3>4. it \in Seq(X) /\ tx \in Seq(X) /\ Len(it) <= ln + 1 /\ ln \in Nat /\ Len(tx) + ln + 1 < sz - 1
      BY <2>1, <2>3, <3>1
    <3> HIDE DEF it, tx, ln
    <3>5. tx \o it \in Seq(X) /\ Len(tx \o it) = Len(tx) + Len(it) /\ Len(tx) \in Nat /\ Len(it) \in Nat
      BY <3>4
    <3>6. Len(tx \o it) <= sz - 2
      BY <3>4, <3>5
    <3> DEFINE r == [text |-> tx \o it, buf |-> Pattern(x.seed + 1), seed |-> x.seed + 1]
    <3>7. r \in S
      BY <3>2, <3>3, <3>5, <3>6
    <3>8. turn(x) = r
      BY <2>3 DEF tx, it
    <3> QED BY <3>7, <3>8
  <2> QED BY <2>2, <2>3
<1>6. \A k \in 1 .. n : \A x \in S : body[k][x] \in S
  <2> HIDE DEF S, turn, T
  <2> QED BY <1>4, <1>5
<1>7. core_init_state(sz, sd) = [k \in 0 .. (sz - 1) |-> IF k < Len(text) THEN text[k + 1] ELSE 0]
  BY DEF core_init_state
<1> HIDE DEF S, init, body, n
<1>8. Loop(n, init, body) \in S
  BY <1>1, <1>2, <1>6, LoopKeeps
<1>9. text \in Seq(X) /\ Len(text) <= sz - 2 /\ Len(text) \in Nat
  <2> DEFINE lp == Loop(n, init, body)
  <2> HIDE DEF lp, X
  <2>1. lp.text \in Seq(X) /\ Len(lp.text) <= sz - 2
    BY <1>8 DEF S, lp
  <2> QED BY <2>1 DEF lp
<1> HIDE DEF text
<1>10. \A k \in 0 .. (sz - 1) : (IF k < Len(text) THEN text[k + 1] ELSE 0) \in Characters \union {COMMA, 0}
  <2> SUFFICES ASSUME NEW k \in 0 .. (sz - 1), k < Len(text) PROVE text[k + 1] \in X
    OBVIOUS
  <2>1. k + 1 \in 1 .. Len(text)
    BY <1>9
  <2> HIDE DEF X
  <2> QED BY <1>9, <2>1
<1>11. sz - 1 \in 0 .. (sz - 1) /\ sz - 2 \in 0 .. (sz - 1) /\ ~(sz - 1 < Len(text)) /\ ~(sz - 2 < Len(text))
  BY <1>9
<1> QED BY <1>7, <1>10, <1>11

(* core_bench_state: corrupting a second time with the same seed and       *)
(* period undoes the corruption, when no byte became a comma.              *)
LEMMA CorruptTwice ==
    ASSUME NEW D, NEW text \in [D -> Characters \union {COMMA, 0}], NEW sd \in Nat, NEW step,
           \A c \in Characters \union {0} : xor8(c, sd % 256) # COMMA
    PROVE  corrupt(corrupt(text, sd, step), sd, step) = text
<1> DEFINE s == sd % 256
           one == corrupt(text, sd, step)
<1>1. s \in Bytes
  BY DEF Bytes
<1>2. DOMAIN text = D /\ DOMAIN one = D
  BY DEF corrupt
<1>3. \A k \in D : one[k] = IF k % step = 0 /\ text[k] # COMMA THEN xor8(text[k], s) ELSE text[k]
  BY <1>2 DEF corrupt
<1> HIDE DEF one
<1>4. \A k \in D : (IF k % step = 0 /\ one[k] # COMMA THEN xor8(one[k], s) ELSE one[k]) = text[k]
  <2> SUFFICES ASSUME NEW k \in D
               PROVE  (IF k % step = 0 /\ one[k] # COMMA THEN xor8(one[k], s) ELSE one[k]) = text[k]
    OBVIOUS
  <2>1. text[k] \in Characters \union {COMMA, 0} /\ text[k] \in Bytes
    BY CharactersAreBytes
  <2>2. CASE k % step = 0 /\ text[k] # COMMA
    <3>1. one[k] = xor8(text[k], s) /\ one[k] # COMMA
      BY <1>3, <2>1, <2>2
    <3>2. xor8(xor8(text[k], s), s) = text[k]
      BY <1>1, <2>1, XorTwice
    <3> QED BY <2>2, <3>1, <3>2
  <2>3. CASE ~(k % step = 0 /\ text[k] # COMMA)
    BY <1>3, <2>3
  <2> QED BY <2>2, <2>3
<1>5. corrupt(one, sd, step) = [k \in D |-> IF k % step = 0 /\ one[k] # COMMA THEN xor8(one[k], s) ELSE one[k]]
  BY <1>2 DEF corrupt
<1>6. corrupt(one, sd, step) = [k \in D |-> text[k]]
  BY <1>4, <1>5
<1> QED BY <1>6 DEF one

(* A corrupted text still has a zero, because the period is more than one  *)
(* byte and two neighbours are zero.                                       *)
LEMMA CorruptIs ==
    ASSUME NEW sz \in Nat, sz >= 2, NEW text \in [0 .. (sz - 1) -> Characters \union {COMMA, 0}],
           text[sz - 1] = 0, text[sz - 2] = 0, NEW sd \in Nat, NEW step \in Nat, step >= 2
    PROVE  /\ corrupt(text, sd, step) \in [0 .. (sz - 1) -> Bytes]
           /\ \E z \in 0 .. (sz - 1) : corrupt(text, sd, step)[z] = 0
<1> DEFINE D == 0 .. (sz - 1)
           one == corrupt(text, sd, step)
<1>1. DOMAIN text = D /\ one = [k \in D |-> IF k % step = 0 /\ text[k] # COMMA
                                           THEN xor8(text[k], sd % 256) ELSE text[k]]
  BY DEF corrupt
<1>2. one \in [D -> Bytes]
  <2> SUFFICES ASSUME NEW k \in D
               PROVE  (IF k % step = 0 /\ text[k] # COMMA THEN xor8(text[k], sd % 256) ELSE text[k]) \in Bytes
    BY <1>1
  <2>1. text[k] \in Bytes
    BY CharactersAreBytes
  <2>2. text[k] \in Int /\ sd % 256 \in Int
    BY <2>1 DEF Bytes
  <2> QED BY <2>1, <2>2, XorType
<1>3. sz - 1 \in D /\ sz - 2 \in D
  OBVIOUS
<1>4. (sz - 1) % step # 0 \/ (sz - 2) % step # 0
  <2> SUFFICES ASSUME (sz - 2) % step = 0 PROVE (sz - 1) % step # 0
    OBVIOUS
  <2>1. sz - 2 \in Nat /\ sz - 1 \in Nat /\ sz - 2 < sz - 1 /\ sz - 1 < (sz - 2) + step
    OBVIOUS
  <2> QED BY <2>1, InsideBlock
<1>5. \E z \in D : one[z] = 0
  BY <1>1, <1>3, <1>4
<1> QED BY <1>2, <1>5

(* The states of the scanner, and counters for them.                       *)
States == DOMAIN Zeros
Counters == [States -> Nat]

(* They are the eight of CORE_STATE.                                       *)
LEMMA StatesAre ==
    /\ States = {CORE_STATE[k] : k \in 1 .. 8}
    /\ \A k \in 1 .. 8 : CORE_STATE[k] \in States
    /\ "START" \in States /\ "INVALID" \in States /\ "S1" \in States /\ "S2" \in States
    /\ "INT" \in States /\ "FLOAT" \in States /\ "EXPONENT" \in States /\ "SCIENTIFIC" \in States
    /\ Zeros \in Counters
<1>1. States = {CORE_STATE[k] : k \in 1 .. 8}
  BY DEF States, Zeros
<1>2. /\ CORE_STATE[1] = "START" /\ CORE_STATE[2] = "INVALID" /\ CORE_STATE[3] = "S1"
      /\ CORE_STATE[4] = "S2" /\ CORE_STATE[5] = "INT" /\ CORE_STATE[6] = "FLOAT"
      /\ CORE_STATE[7] = "EXPONENT" /\ CORE_STATE[8] = "SCIENTIFIC"
  BY DEF CORE_STATE
<1>3. /\ 1 \in 1 .. 8 /\ 2 \in 1 .. 8 /\ 3 \in 1 .. 8 /\ 4 \in 1 .. 8
      /\ 5 \in 1 .. 8 /\ 6 \in 1 .. 8 /\ 7 \in 1 .. 8 /\ 8 \in 1 .. 8
  OBVIOUS
<1>4. \A k \in 1 .. 8 : CORE_STATE[k] \in States
  BY <1>1
<1>5. Zeros \in Counters
  BY <1>1 DEF Zeros, Counters
<1> QED BY <1>1, <1>2, <1>3, <1>4, <1>5

(* Counters stay counters.                                                 *)
LEMMA BumpType ==
    ASSUME NEW counts \in Counters, NEW S
    PROVE  Bump(counts, S) \in Counters
BY DEF Bump, Counters

(* The scanner moves between its states.                                   *)
LEMMA NextStateType ==
    ASSUME NEW s, NEW c
    PROVE  NextState(s, c) \in States
BY StatesAre DEF NextState

(* The checksum of the counters is a word.                                 *)
LEMMA StateCrcType ==
    ASSUME NEW final \in Counters, NEW track \in Counters, NEW crc \in Words
    PROVE  state_crc(final, track, crc) \in Words
<1> DEFINE body == [k \in 1 .. 8 |-> [c \in Words |->
                      crcu32(track[CORE_STATE[k]], crcu32(final[CORE_STATE[k]], c))]]
<1>1. \A k \in 1 .. 8 : \A x \in Words : body[k][x] \in Words
  <2> SUFFICES ASSUME NEW k \in 1 .. 8, NEW x \in Words
               PROVE  crcu32(track[CORE_STATE[k]], crcu32(final[CORE_STATE[k]], x)) \in Words
    OBVIOUS
  <2>1. track[CORE_STATE[k]] \in Int /\ final[CORE_STATE[k]] \in Int
    BY StatesAre DEF Counters
  <2> QED BY <2>1, CrcType
<1>2. state_crc(final, track, crc) = Loop(8, crc, body)
  BY DEF state_crc
<1> HIDE DEF body
<1>3. Loop(8, crc, body) \in Words
  BY <1>1, LoopKeeps
<1> QED BY <1>2, <1>3

(* core_state_transition does not pass a zero: it stops at the first one   *)
(* behind p at the latest.                                                 *)
LEMMA TransitionIs ==
    ASSUME NEW sz \in Nat, NEW text \in [0 .. (sz - 1) -> Bytes], NEW p \in Nat,
           NEW z \in p .. (sz - 1), text[z] = 0, NEW track \in Counters
    PROVE  /\ core_state_transition(text, p, track).p \in p .. z
           /\ core_state_transition(text, p, track).state \in States
           /\ core_state_transition(text, p, track).track \in Counters
<1> DEFINE Ends(e) == ByteAt(text, e) \in {0, COMMA}
           First(e) == Ends(e) /\ \A q \in p .. (e - 1) : ~Ends(q)
           E == p .. (p + Cardinality(DOMAIN text))
           stop == CHOOSE e \in E : First(e)
           turn(x) == LET t == NextState(x.state, ByteAt(text, x.p))
                      IN [p |-> x.p + 1, state |-> t, track |-> Bump(x.track, Counted(x.state, t))]
           T == [p : Nat, state : DOMAIN Zeros, track : [DOMAIN Zeros -> Nat]]
           n == stop - p
           init == [p |-> p, state |-> "START", track |-> track]
           body == [k \in 1 .. (stop - p) |-> [x \in T |-> IF x.state = "INVALID" THEN x ELSE turn(x)]]
           end == Loop(n, init, body)
<1>1. Cardinality(DOMAIN text) = sz
  <2>1. DOMAIN text = 0 .. (sz - 1) /\ 0 \in Int /\ sz - 1 \in Int /\ ~(0 > sz - 1)
    OBVIOUS
  <2>2. Cardinality(0 .. (sz - 1)) = IF 0 > sz - 1 THEN 0 ELSE (sz - 1) - 0 + 1
    BY <2>1, FS_Interval
  <2> QED BY <2>1, <2>2
<1>2. ByteAt(text, z) = 0 /\ Ends(z)
  BY DEF ByteAt
<1>3. stop \in E /\ First(stop)
  <2> DEFINE H == {e \in Nat : e \in p .. z /\ Ends(e)}
  <2>1. z \in H /\ H \in SUBSET Nat
    BY <1>2
  <2> HIDE DEF Ends
  <2>2. PICK e \in H : \A q \in H : e <= q
    <3> HIDE DEF H
    <3> QED BY <2>1, LeastNat
  <2>3. e \in E
    BY <1>1, <2>2
  <2>4. First(e)
    <3> SUFFICES ASSUME NEW q \in p .. (e - 1) PROVE ~Ends(q)
      BY <2>2
    <3>1. q \in Nat /\ q \in p .. z /\ ~(e <= q)
      BY <2>2
    <3> QED BY <2>2, <3>1
  <2> HIDE DEF E, First
  <2> QED BY <2>3, <2>4
<1>4. stop \in p .. z /\ n \in Nat /\ Ends(stop) /\ stop \in Nat
  <2> HIDE DEF stop, Ends
  <2>1. stop \in Nat /\ stop >= p
    BY <1>1, <1>3
  <2>2. ~(z < stop)
    <3> SUFFICES ASSUME z < stop PROVE FALSE
      OBVIOUS
    <3>1. z \in p .. (stop - 1)
      BY <2>1
    <3> QED BY <1>2, <1>3, <3>1
  <2> QED BY <1>3, <2>1, <2>2
<1> HIDE DEF stop
<1> DEFINE G(k) == {x \in T : x.p \in p .. (p + k) /\ (x.state # "INVALID" => x.p = p + k)}
           Good == [k \in 0 .. n |-> G(k)]
<1>5. init \in Good[0]
  <2>1. init \in T
    BY StatesAre DEF States, Counters
  <2>2. init \in G(0)
    BY <2>1
  <2> HIDE DEF G, init
  <2> QED BY <1>4, <2>2
<1>6. \A k \in 1 .. n : \A x \in Good[k - 1] : body[k][x] \in Good[k]
  <2> HIDE DEF Good, body
  <2> SUFFICES ASSUME NEW k \in 1 .. n, NEW x \in Good[k - 1] PROVE body[k][x] \in Good[k]
    OBVIOUS
  <2>0. k \in Nat /\ k - 1 \in 0 .. n /\ k \in 0 .. n
    BY <1>4
  <2>1. x \in G(k - 1) /\ Good[k] = G(k)
    <3> HIDE DEF G
    <3> QED BY <2>0 DEF Good
  <2>2. x \in T /\ x.p \in p .. (p + (k - 1)) /\ (x.state # "INVALID" => x.p = p + (k - 1))
    BY <2>1
  <2>3. body[k][x] = IF x.state = "INVALID" THEN x ELSE turn(x)
    BY <2>2 DEF body
  <2>4. CASE x.state = "INVALID"
    <3>1. x.p \in p .. (p + k)
      BY <2>0, <2>2
    <3>2. x \in G(k)
      BY <2>2, <2>4, <3>1
    <3> QED BY <2>1, <2>3, <2>4, <3>2
  <2>5. CASE x.state # "INVALID"
    <3> DEFINE t == NextState(x.state, ByteAt(text, x.p))
               u == Bump(x.track, Counted(x.state, t))
    <3>1. t \in States
      BY NextStateType
    <3>2. x.track \in Counters
      BY <2>2 DEF Counters, States
    <3>3. u \in Counters
      BY <3>2, BumpType
    <3>4. turn(x) = [p |-> x.p + 1, state |-> t, track |-> u]
      OBVIOUS
    <3> HIDE DEF t, u, turn
    <3>5. x.p + 1 = p + k /\ p + k \in Nat /\ p + k \in p .. (p + k)
      BY <2>0, <2>2, <2>5
    <3>6. turn(x) \in T
      BY <3>1, <3>3, <3>4, <3>5 DEF States, Counters
    <3>7. turn(x) \in G(k)
      BY <3>4, <3>5, <3>6
    <3> QED BY <2>1, <2>3, <2>5, <3>7
  <2> QED BY <2>4, <2>5
<1>7. core_state_transition(text, p, track)
        = IF end.state # "INVALID" /\ ByteAt(text, end.p) = COMMA THEN [end EXCEPT !.p = @ + 1] ELSE end
  BY DEF core_state_transition, stop
<1> HIDE DEF init, body, Good
<1>8. end \in Good[n]
  <2> HIDE DEF n
  <2> QED BY <1>4, <1>5, <1>6, LoopInvariant
<1> HIDE DEF end
<1>9. end \in G(n)
  <2> HIDE DEF G, n
  <2> QED BY <1>4, <1>8 DEF Good
<1>10. end \in T /\ end.p \in p .. stop /\ (end.state # "INVALID" => end.p = stop)
  BY <1>4, <1>9
<1>11. CASE end.state # "INVALID" /\ ByteAt(text, end.p) = COMMA
  <2>1. stop # z
    BY <1>2, <1>10, <1>11 DEF COMMA
  <2>2. end.p + 1 \in p .. z
    BY <1>4, <1>10, <1>11, <2>1
  <2> DEFINE r == [end EXCEPT !.p = @ + 1]
  <2>3. r.p = end.p + 1 /\ r.state = end.state /\ r.track = end.track
    BY <1>10
  <2>4. core_state_transition(text, p, track) = r
    BY <1>7, <1>11
  <2> HIDE DEF r
  <2> QED BY <1>10, <2>2, <2>3, <2>4 DEF States, Counters
<1>12. CASE ~(end.state # "INVALID" /\ ByteAt(text, end.p) = COMMA)
  <2>1. end.p \in p .. z
    BY <1>4, <1>10
  <2> QED BY <1>7, <1>10, <1>12, <2>1 DEF States, Counters
<1> QED BY <1>11, <1>12

=============================================================================
