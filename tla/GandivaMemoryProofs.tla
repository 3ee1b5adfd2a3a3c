------------------------ MODULE GandivaMemoryProofs ------------------------
(***************************************************************************)
(* The data memory of the pipeline, beat by beat, against the architect-   *)
(* ural memory: byte lanes, misaligned accesses in two beats and atomics,  *)
(* for every byte width and address, wrap-around included.                 *)
(***************************************************************************)
EXTENDS GandivaRefinement, GandivaCoreProofs

---------------------------------------------------------------------------
(* Words and bytes.                                                        *)

(* w has quotient q and remainder r.                                       *)
DivRem(w, n, q, r) == n > 0 /\ r < n /\ w = n * q + r

LEMMA DivUnique ==
    ASSUME NEW w \in Nat, NEW n \in Nat, NEW q \in Nat, NEW r \in Nat, DivRem(w, n, q, r)
    PROVE  w \div n = q /\ w % n = r
<1>0. n > 0 /\ r < n /\ w = n * q + r
  BY DEF DivRem
<1> DEFINE d == w \div n
           m == w % n
<1>1. d \in Nat /\ m \in Nat /\ m < n /\ w = n * d + m
  BY <1>0
<1> HIDE DEF d, m
<1>2. ~(d > q)
  <2> SUFFICES ASSUME d > q PROVE FALSE
    OBVIOUS
  <2>1. PICK e \in Nat : d = q + 1 + e
    <3>1. d - q - 1 \in Nat /\ d = q + 1 + (d - q - 1)
      BY <1>1
    <3> QED
      BY <3>1
  <2>2. n * d = n * q + n + n * e /\ n * e \in Nat /\ n * q \in Nat
    BY <2>1
  <2> QED
    BY <1>0, <1>1, <2>2
<1>3. ~(d < q)
  <2> SUFFICES ASSUME d < q PROVE FALSE
    OBVIOUS
  <2>1. PICK e \in Nat : q = d + 1 + e
    <3>1. q - d - 1 \in Nat /\ q = d + 1 + (q - d - 1)
      BY <1>1
    <3> QED
      BY <3>1
  <2>2. n * q = n * d + n + n * e /\ n * e \in Nat /\ n * d \in Nat
    BY <1>1, <2>1
  <2> QED
    BY <1>0, <1>1, <2>2
<1>4. d = q
  BY <1>1, <1>2, <1>3
<1>5. m = r
  BY <1>0, <1>1, <1>4
<1> QED
  BY <1>4, <1>5 DEF d, m

LEMMA BytesOf ==
    ASSUME NEW w
    PROVE  /\ ByteOf(w, 0) = w % NB /\ ByteOf(w, 1) = (w \div NB) % NB
           /\ ByteOf(w, 2) = (w \div (NB * NB)) % NB
           /\ ByteOf(w, 3) = (w \div (NB * NB * NB)) % NB
BY DEF ByteOf

(* A byte written to a word is read back from it.                          *)
LEMMA ByteOfWord ==
    ASSUME NEW b \in [0 .. 3 -> Byte], NEW k \in 0 .. 3
    PROVE  ByteOf(WordOf(b), k) = b[k]
<1>1. NB \in Nat /\ NB >= 2
  BY WidthAssumption
<1>2. \A j \in 0 .. 3 : b[j] \in Nat /\ b[j] < NB
  BY <1>1 DEF Byte
<1>b0. PICK b0 \in Nat : b0 = b[0] /\ b0 < NB
  BY <1>2
<1>b1. PICK b1 \in Nat : b1 = b[1] /\ b1 < NB
  BY <1>2
<1>b2. PICK b2 \in Nat : b2 = b[2] /\ b2 < NB
  BY <1>2
<1>b3. PICK b3 \in Nat : b3 = b[3] /\ b3 < NB
  BY <1>2
<1>n2. PICK n2 \in Nat : n2 = NB * NB
  BY <1>1
<1>n3. PICK n3 \in Nat : n3 = NB * NB * NB /\ n3 = n2 * NB
  BY <1>1, <1>n2
<1>3. PICK w \in Nat : w = b0 + NB * b1 + n2 * b2 + n3 * b3
  BY <1>1
<1>4. WordOf(b) = w
  BY <1>b0, <1>b1, <1>b2, <1>b3, <1>n2, <1>n3, <1>3 DEF WordOf
<1>h2. PICK h2 \in Nat : h2 = b2 + NB * b3
  BY <1>1
<1>h1. PICK h1 \in Nat : h1 = b1 + NB * h2
  BY <1>1
<1>5. n2 * h2 = n2 * b2 + n3 * b3
  BY <1>1, <1>n2, <1>n3, <1>h2
<1>6. DivRem(w, NB, h1, b0)
  <2>1. NB * h1 = NB * b1 + n2 * h2
    BY <1>1, <1>n2, <1>h1
  <2> QED
    BY <1>1, <1>b0, <1>3, <1>5, <2>1 DEF DivRem
<1>7. NB * b1 \in Nat /\ NB * b1 <= n2 - NB /\ n2 > 0
  <2>1. NB * b1 <= NB * (NB - 1) /\ NB * (NB - 1) = n2 - NB /\ NB * b1 \in Nat
    BY <1>1, <1>b1, <1>n2
  <2> QED
    BY <1>1, <1>n2, <2>1
<1>8. DivRem(w, n2, h2, b0 + NB * b1)
  BY <1>1, <1>b0, <1>3, <1>5, <1>7 DEF DivRem
<1>9. n2 * b2 \in Nat /\ n2 * b2 <= n3 - n2 /\ n3 > 0
  <2>1. n2 * b2 <= n2 * (NB - 1) /\ n2 * (NB - 1) = n3 - n2 /\ n2 * b2 \in Nat
    BY <1>1, <1>b2, <1>n3
  <2> QED
    BY <1>1, <1>7, <2>1
<1>10. DivRem(w, n3, b3, b0 + NB * b1 + n2 * b2)
  BY <1>1, <1>b0, <1>3, <1>7, <1>9 DEF DivRem
<1>11. w % NB = b0 /\ w \div NB = h1
  BY <1>1, <1>6, DivUnique
<1>12. h1 % NB = b1
  <2>1. DivRem(h1, NB, h2, b1)
    BY <1>1, <1>b1, <1>h1 DEF DivRem
  <2> QED
    BY <1>1, <2>1, DivUnique
<1>13. w \div n2 = h2
  BY <1>7, <1>8, DivUnique
<1>14. h2 % NB = b2
  <2>1. DivRem(h2, NB, b3, b2)
    BY <1>1, <1>b2, <1>h2 DEF DivRem
  <2> QED
    BY <1>1, <2>1, DivUnique
<1>15. w \div n3 = b3
  <2>1. b0 + NB * b1 + n2 * b2 \in Nat
    BY <1>7, <1>9
  <2> QED
    BY <1>10, <2>1, DivUnique
<1>16. b3 % NB = b3
  BY <1>1, <1>b3
<1>17. k = 0 \/ k = 1 \/ k = 2 \/ k = 3
  OBVIOUS
<1>18. /\ ByteOf(w, 0) = b0 /\ ByteOf(w, 1) = b1 /\ ByteOf(w, 2) = b2
       /\ ByteOf(w, 3) = b3
  BY <1>n2, <1>n3, <1>11, <1>12, <1>13, <1>14, <1>15, <1>16, BytesOf
<1> QED
  BY <1>b0, <1>b1, <1>b2, <1>b3, <1>4, <1>17, <1>18

(* A word is its bytes.                                                    *)
LEMMA WordOfBytes ==
    ASSUME NEW w \in Word
    PROVE  WordOf([k \in 0 .. 3 |-> ByteOf(w, k)]) = w
<1>1. NB \in Nat /\ NB >= 2 /\ w \in Nat /\ w < XMOD
  BY WidthAssumption, WidthFacts DEF Word
<1>d. \A x \in Nat : /\ x \div NB \in Nat /\ x % NB \in Nat /\ x % NB < NB
                      /\ x = NB * (x \div NB) + (x % NB)
  BY <1>1
<1>q1. PICK q1 \in Nat : q1 = w \div NB
  BY <1>1, <1>d
<1>r0. PICK r0 \in Nat : r0 = w % NB /\ r0 < NB /\ w = NB * q1 + r0
  BY <1>1, <1>d, <1>q1
<1>q2. PICK q2 \in Nat : q2 = q1 \div NB
  BY <1>d
<1>r1. PICK r1 \in Nat : r1 = q1 % NB /\ r1 < NB /\ q1 = NB * q2 + r1
  BY <1>d, <1>q2
<1>q3. PICK q3 \in Nat : q3 = q2 \div NB
  BY <1>d
<1>r2. PICK r2 \in Nat : r2 = q2 % NB /\ r2 < NB /\ q2 = NB * q3 + r2
  BY <1>d, <1>q3
<1>n2. PICK n2 \in Nat : n2 = NB * NB
  BY <1>1
<1>n3. PICK n3 \in Nat : n3 = NB * NB * NB /\ n3 = n2 * NB
  BY <1>1, <1>n2
<1>2. w = n2 * q2 + (r0 + NB * r1)
  <2>1. NB * q1 = n2 * q2 + NB * r1
    BY <1>1, <1>r1, <1>n2
  <2> QED
    BY <1>1, <1>r0, <2>1
<1>3. n2 * q2 = n3 * q3 + n2 * r2
  BY <1>1, <1>r2, <1>n3
<1>4. NB * r1 \in Nat /\ NB * r1 <= n2 - NB /\ n2 > 0
  <2>1. NB * r1 <= NB * (NB - 1) /\ NB * (NB - 1) = n2 - NB /\ NB * r1 \in Nat
    BY <1>1, <1>r1, <1>n2
  <2> QED
    BY <1>1, <1>n2, <2>1
<1>5. n2 * r2 \in Nat /\ n2 * r2 <= n3 - n2 /\ n3 > 0 /\ n3 * q3 \in Nat
  <2>1. n2 * r2 \in Nat /\ n2 * (NB - 1) = n3 - n2
    BY <1>1, <1>n3
  <2>2. n2 * r2 <= n2 * (NB - 1)
    BY <1>1, <1>r2
  <2> QED
    BY <1>1, <1>4, <2>1, <2>2
<1>6. w \div n2 = q2
  <2>1. DivRem(w, n2, q2, r0 + NB * r1)
    BY <1>1, <1>r0, <1>2, <1>4 DEF DivRem
  <2> QED
    BY <1>1, <1>4, <2>1, DivUnique
<1>7. w \div n3 = q3
  <2>1. DivRem(w, n3, q3, r0 + NB * r1 + n2 * r2)
    BY <1>1, <1>r0, <1>2, <1>3, <1>4, <1>5 DEF DivRem
  <2> QED
    BY <1>1, <1>4, <1>5, <2>1, DivUnique
<1>8. q3 < NB
  <2> SUFFICES ASSUME q3 >= NB PROVE FALSE
    BY <1>1
  <2>1. XMOD = n3 * NB
    BY <1>1, <1>n3 DEF XMOD
  <2>2. n3 * q3 >= n3 * NB
    BY <1>1
  <2> QED
    BY <1>1, <1>2, <1>3, <1>4, <1>5, <2>1, <2>2
<1>9. q3 % NB = q3
  BY <1>1, <1>8
<1>10. /\ ByteOf(w, 0) = r0 /\ ByteOf(w, 1) = r1 /\ ByteOf(w, 2) = r2
       /\ ByteOf(w, 3) = q3
  <2>1. ByteOf(w, 0) = r0 /\ ByteOf(w, 1) = r1
    BY <1>q1, <1>r0, <1>r1, BytesOf
  <2>2. ByteOf(w, 2) = r2
    BY <1>r2, <1>n2, <1>6, BytesOf, Zenon
  <2>3. ByteOf(w, 3) = q3
    BY <1>n3, <1>7, <1>9, BytesOf, Zenon
  <2> QED
    BY <2>1, <2>2, <2>3
<1>11. WordOf([k \in 0 .. 3 |-> ByteOf(w, k)]) = r0 + NB * r1 + n2 * r2 + n3 * q3
  BY <1>n2, <1>n3, <1>10 DEF WordOf
<1> QED
  BY <1>2, <1>3, <1>4, <1>5, <1>11

---------------------------------------------------------------------------
(* Where a byte lies in an access.                                         *)

(* The offset of address x in an access at a, wrapping at the top.         *)
Off(x, a) == (x - a) % XMOD

LEMMA ModNear ==
    ASSUME NEW n \in Nat, n > 0, NEW y \in Int, -n <= y, y < n
    PROVE  y % n = IF y >= 0 THEN y ELSE y + n
<1> DEFINE q == y \div n
           r == y % n
<1>1. q \in Int /\ r \in Nat /\ r < n /\ y = n * q + r
  OBVIOUS
<1> HIDE DEF q, r
<1>2. CASE y >= 0
  <2>1. ~(q <= -1)
    <3> SUFFICES ASSUME q <= -1 PROVE FALSE
      OBVIOUS
    <3>1. n * q <= -n
      BY <1>1
    <3> QED
      BY <1>1, <1>2, <3>1
  <2>2. ~(q >= 1)
    <3> SUFFICES ASSUME q >= 1 PROVE FALSE
      OBVIOUS
    <3>1. n * q >= n
      BY <1>1
    <3> QED
      BY <1>1, <3>1
  <2>3. q = 0
    BY <1>1, <2>1, <2>2
  <2> QED
    BY <1>1, <1>2, <2>3 DEF r
<1>3. CASE y < 0
  <2>1. ~(q <= -2)
    <3> SUFFICES ASSUME q <= -2 PROVE FALSE
      OBVIOUS
    <3>1. n * q <= -(2 * n)
      BY <1>1
    <3> QED
      BY <1>1, <3>1
  <2>2. ~(q >= 0)
    <3> SUFFICES ASSUME q >= 0 PROVE FALSE
      OBVIOUS
    <3>1. n * q >= 0
      BY <1>1
    <3> QED
      BY <1>1, <1>3, <3>1
  <2>3. q = -1
    BY <1>1, <2>1, <2>2
  <2> QED
    BY <1>1, <1>3, <2>3 DEF r
<1> QED
  BY <1>2, <1>3

LEMMA OffNear ==
    ASSUME NEW x \in Word, NEW a \in Word
    PROVE  Off(x, a) = IF x >= a THEN x - a ELSE x - a + XMOD
<1>1. XMOD \in Nat /\ XMOD > 0 /\ x - a \in Int /\ -XMOD <= x - a /\ x - a < XMOD
  BY WidthFacts DEF Word
<1>2. (x - a) % XMOD = IF x - a >= 0 THEN x - a ELSE x - a + XMOD
  BY <1>1, ModNear
<1> QED
  BY <1>1, <1>2, WidthFacts DEF Off, Word

(* The word after that of a.                                               *)
NextWord(a) == ((a \div 4) + 1) % (XMOD \div 4)

LEMMA NextWordIs ==
    ASSUME NEW a \in Word
    PROVE  NextWord(a) = IF (a \div 4) + 1 = XMOD \div 4 THEN 0 ELSE (a \div 4) + 1
<1>1. PICK m \in Nat : m = XMOD \div 4 /\ m >= 4 /\ XMOD = 4 * m
  BY WidthFacts
<1>2. PICK c \in Nat : c = (a \div 4) + 1 /\ c <= m
  BY <1>1 DEF Word
<1>3. c % m = IF c = m THEN 0 ELSE c
  <2>1. CASE c = m
    <3>1. DivRem(c, m, 1, 0)
      BY <1>1, <2>1 DEF DivRem
    <3> QED
      BY <2>1, <3>1, DivUnique
  <2>2. CASE c # m
    <3>1. DivRem(c, m, 0, c)
      BY <1>1, <1>2, <2>2 DEF DivRem
    <3> QED
      BY <2>2, <3>1, DivUnique
  <2> QED
    BY <2>1, <2>2
<1> QED
  BY <1>1, <1>2, <1>3 DEF NextWord

LEMMA Lanes ==
    ASSUME NEW x \in Word, NEW a \in Word
    PROVE  /\ Off(x, a) \in Nat
           /\ x \div 4 = a \div 4 /\ x % 4 >= a % 4 => Off(x, a) = (x % 4) - (a % 4)
           /\ x \div 4 = a \div 4 /\ x % 4 < a % 4 => Off(x, a) > 7
           /\ x \div 4 = NextWord(a) => Off(x, a) = 4 + (x % 4) - (a % 4)
           /\ x \div 4 # a \div 4 /\ x \div 4 # NextWord(a) => Off(x, a) >= 4
<1>1. PICK m \in Nat : m = XMOD \div 4 /\ m >= 4 /\ XMOD = 4 * m
  BY WidthFacts
<1>2. PICK xw, k \in Nat : xw = x \div 4 /\ k = x % 4 /\ k < 4 /\ x = 4 * xw + k
  BY WidthFacts DEF Word
<1>3. PICK aw, l \in Nat : aw = a \div 4 /\ l = a % 4 /\ l < 4 /\ a = 4 * aw + l
  BY WidthFacts DEF Word
<1>4. xw < m /\ aw < m
  BY <1>1, <1>2, <1>3 DEF Word
<1>5. Off(x, a) = IF x >= a THEN x - a ELSE x - a + 4 * m
  BY <1>1, OffNear
<1>6. NextWord(a) = IF aw + 1 = m THEN 0 ELSE aw + 1
  BY <1>1, <1>3, NextWordIs
<1> QED
  BY <1>1, <1>2, <1>3, <1>4, <1>5, <1>6

---------------------------------------------------------------------------
(* Stores, beat by beat.                                                   *)

(* What the first beat of a store has written.                             *)
FirstBeat ==
    beat2 /\ exmem.valid /\ exmem.mem_we =>
        \A x \in Word :
            /\ x \div 4 = exmem.result \div 4
            /\ Off(x, exmem.result) < exmem.instr.width
            => mem_bytes[x] = ByteOf(exmem.store_data, Off(x, exmem.result))

LEMMA AddressFacts ==
    ASSUME NEW x \in Word
    PROVE  x \div 4 \in MemWords /\ x % 4 \in 0 .. 3
BY WidthFacts DEF Word, MemWords

LEMMA ExmemTypes ==
    ASSUME TypeOK
    PROVE  /\ exmem.result \in Word /\ exmem.amo_addr \in Word
           /\ exmem.store_data \in Word /\ exmem.amo_b \in Word
           /\ exmem.instr \in Instrs /\ exmem.instr.width \in {1, 2, 4}
           /\ exmem.instr.rd \in Regs /\ exmem.instr.fn \in Funcs
           /\ exmem_addr_lo \in 0 .. 3
<1>1. exmem.result \in Word /\ exmem.instr \in Instrs
  BY DEF TypeOK, ExmemType
<1>2. exmem_addr_lo \in 0 .. 3
  BY <1>1, WidthFacts DEF Word, exmem_addr_lo
<1> QED
  BY <1>1, <1>2 DEF TypeOK, ExmemType, Instrs

(* One write port: the bytes of one word, by lane.                         *)
LEMMA BytesWritten ==
    ASSUME TypeOK, DataMem, dmem_we, NEW x \in Word
    PROVE  mem_bytes'[x] = IF x \div 4 = dmem_word /\ dmem_be(x % 4)
                           THEN dmem_wbyte(x % 4) ELSE mem_bytes[x]
<1> DEFINE old == mem[dmem_word]
           new == [k \in 0 .. 3 |-> IF dmem_be(k) THEN dmem_wbyte(k)
                                    ELSE ByteOf(old, k)]
<1>1. dmem_word \in MemWords /\ old \in Word /\ mem \in [MemWords -> Word]
  BY DmemWordType DEF TypeOK
<1>2. x \div 4 \in MemWords /\ x % 4 \in 0 .. 3
  BY AddressFacts
<1>3. AmoOp(exmem.instr.fn, ld_w0, exmem.amo_b) \in Word
  BY ExmemTypes, LeafAssumption DEF TypeOK
<1>4. ASSUME NEW k \in 0 .. 3, dmem_be(k) PROVE dmem_wbyte(k) \in Byte
  <2>1. CASE amo_here
    BY <1>3, <2>1, ExmemTypes, ByteOfType DEF dmem_wbyte
  <2>2. CASE ~amo_here
    <3>1. StoreLane(k) \in 0 .. (exmem.instr.width - 1)
      BY <1>4, <2>2 DEF dmem_be
    <3>2. StoreLane(k) \in 0 .. 3
      BY <3>1, ExmemTypes
    <3> QED
      BY <2>2, <3>2, ExmemTypes, ByteOfType DEF dmem_wbyte, amo_rmw_b2, amo_is
  <2> QED
    BY <2>1, <2>2
<1>5. new \in [0 .. 3 -> Byte]
  BY <1>1, <1>4, ByteOfType
<1>6. mem' = [mem EXCEPT ![dmem_word] = WordOf(new)]
  BY DEF DataMem
<1>7. /\ mem_bytes'[x] = ByteOf(mem'[x \div 4], x % 4)
      /\ mem_bytes[x] = ByteOf(mem[x \div 4], x % 4)
  BY DEF mem_bytes
<1>8. CASE x \div 4 # dmem_word
  BY <1>1, <1>2, <1>6, <1>7, <1>8
<1>9. CASE x \div 4 = dmem_word
  <2>1. mem'[x \div 4] = WordOf(new)
    BY <1>1, <1>2, <1>6, <1>9
  <2>2. ByteOf(WordOf(new), x % 4) = new[x % 4]
    BY <1>2, <1>5, ByteOfWord
  <2> QED
    BY <1>2, <1>7, <1>9, <2>1, <2>2
<1> QED
  BY <1>8, <1>9

(* The kinds of access in MEM exclude each other.                          *)
LEMMA Kinds ==
    ASSUME ExmemKind
    PROVE  /\ exmem.valid /\ exmem.mem_we => ~amo_here /\ ~exmem.mem_re
           /\ amo_here => /\ exmem.instr.op \in {"lr", "sc", "amo"}
                          /\ ~(exmem.mem_we) /\ ~(exmem.mem_re) /\ ~mem_mis
BY DEF ExmemKind, amo_here, mem_mis, IsLoad, IsStore, IsAtomic

(* A beat of a store writes the bytes of the store that lie in its word.   *)
LEMMA StoreBeat ==
    ASSUME TypeOK, ExmemKind, DataMem, exmem.valid, exmem.mem_we, NEW x \in Word
    PROVE  LET o == Off(x, exmem.result)
               w == IF beat2 THEN NextWord(exmem.result) ELSE exmem.result \div 4
           IN mem_bytes'[x] = IF x \div 4 = w /\ o < exmem.instr.width
                              THEN ByteOf(exmem.store_data, o) ELSE mem_bytes[x]
<1> DEFINE a == exmem.result
           w == IF beat2 THEN NextWord(a) ELSE a \div 4
<1>1. a \in Word /\ a \div 4 \in MemWords /\ exmem.instr.width \in {1, 2, 4}
  BY ExmemTypes, AddressFacts
<1>2. ~amo_here /\ dmem_we
  BY Kinds DEF dmem_we
<1>3. dmem_word = w
  <2>1. CASE beat2
    BY <1>2, <2>1 DEF dmem_word, NextWord
  <2>2. CASE ~beat2
    <3>1. PICK m \in Nat : m = XMOD \div 4 /\ m > 0
      BY WidthFacts
    <3>2. PICK c \in Nat : c = a \div 4 /\ c < m
      BY <1>1, <3>1 DEF MemWords
    <3>3. c % m = c
      BY <3>1, <3>2
    <3>4. dmem_word = (a \div 4 + 0) % (XMOD \div 4)
      BY <1>2, <2>2 DEF dmem_word
    <3> QED
      BY <2>2, <3>1, <3>2, <3>3, <3>4
  <2> QED
    BY <2>1, <2>2
<1>4. mem_bytes'[x] = IF x \div 4 = w /\ dmem_be(x % 4)
                      THEN dmem_wbyte(x % 4) ELSE mem_bytes[x]
  BY <1>2, <1>3, BytesWritten
<1>5. /\ dmem_be(x % 4) <=> StoreLane(x % 4) \in 0 .. (exmem.instr.width - 1)
      /\ dmem_wbyte(x % 4) = ByteOf(exmem.store_data, StoreLane(x % 4))
  BY <1>2 DEF dmem_be, dmem_wbyte, amo_rmw_b2, amo_is
<1>6. StoreLane(x % 4) = (IF beat2 THEN 4 ELSE 0) + (x % 4) - (a % 4)
  BY DEF StoreLane, exmem_addr_lo
<1>7. x % 4 \in 0 .. 3 /\ a % 4 \in 0 .. 3
  BY <1>1, AddressFacts
<1>8. /\ Off(x, a) \in Nat
      /\ x \div 4 = a \div 4 /\ x % 4 >= a % 4 => Off(x, a) = (x % 4) - (a % 4)
      /\ x \div 4 = a \div 4 /\ x % 4 < a % 4 => Off(x, a) > 7
      /\ x \div 4 = NextWord(a) => Off(x, a) = 4 + (x % 4) - (a % 4)
  BY <1>1, Lanes
<1>9. ASSUME x \div 4 = w
      PROVE  /\ dmem_be(x % 4) <=> Off(x, a) < exmem.instr.width
             /\ Off(x, a) < exmem.instr.width => StoreLane(x % 4) = Off(x, a)
  BY <1>1, <1>5, <1>6, <1>7, <1>8, <1>9
<1> QED
  BY <1>4, <1>5, <1>9

(* An access that fits in its word does not reach the next one.            *)
LEMMA Fits ==
    ASSUME TypeOK, exmem.valid, exmem.mem_we \/ exmem.mem_re, ~mem_mis, NEW x \in Word,
           Off(x, exmem.result) < exmem.instr.width
    PROVE  x \div 4 = exmem.result \div 4
<1> DEFINE a == exmem.result
<1>1. a \in Word /\ exmem.instr.width \in {1, 2, 4} /\ x % 4 \in 0 .. 3
  BY ExmemTypes, AddressFacts
<1>2. a % 4 \in 0 .. 3 /\ (a % 4) + exmem.instr.width <= 4
  BY <1>1, AddressFacts DEF mem_mis, exmem_addr_lo
<1>3. /\ x \div 4 = NextWord(a) => Off(x, a) = 4 + (x % 4) - (a % 4)
      /\ x \div 4 # a \div 4 /\ x \div 4 # NextWord(a) => Off(x, a) >= 4
      /\ Off(x, a) \in Nat
  BY <1>1, Lanes
<1> QED
  BY <1>1, <1>2, <1>3

(* The word of an atomic, as an access of four bytes.                      *)
LEMMA Aligned ==
    ASSUME NEW a \in Word, NEW x \in Word
    PROVE  /\ AlignWord(a) \in Word
           /\ Off(x, AlignWord(a)) < 4 <=> x \div 4 = a \div 4
           /\ x \div 4 = a \div 4 => Off(x, AlignWord(a)) = x % 4
<1>1. /\ AlignWord(a) \in Word /\ AlignWord(a) % 4 = 0
      /\ AlignWord(a) \div 4 = a \div 4
  BY WidthFacts DEF AlignWord, Word
<1>2. PICK b \in Word : b = AlignWord(a)
  BY <1>1
<1>3. x % 4 \in 0 .. 3
  BY AddressFacts
<1>4. /\ Off(x, b) \in Nat
      /\ x \div 4 = b \div 4 /\ x % 4 >= b % 4 => Off(x, b) = (x % 4) - (b % 4)
      /\ x \div 4 = NextWord(b) => Off(x, b) = 4 + (x % 4) - (b % 4)
      /\ x \div 4 # b \div 4 /\ x \div 4 # NextWord(b) => Off(x, b) >= 4
  BY Lanes
<1> QED
  BY <1>1, <1>2, <1>3, <1>4

LEMMA AtomicWrite ==
    ASSUME TypeOK, DataMem, dmem_we, amo_here, NEW v,
           \A k \in 0 .. 3 : dmem_wbyte(k) = ByteOf(v, k)
    PROVE  mem_bytes' = StoreValue(mem_bytes, AlignWord(exmem.amo_addr), 4, v)
<1> DEFINE a == exmem.amo_addr
<1>1. a \in Word
  BY ExmemTypes
<1>2. ASSUME NEW x \in Word
      PROVE  mem_bytes'[x] = StoreValue(mem_bytes, AlignWord(a), 4, v)[x]
  <2>1. mem_bytes'[x] = IF x \div 4 = a \div 4 THEN ByteOf(v, x % 4) ELSE mem_bytes[x]
    <3>1. dmem_word = a \div 4 /\ dmem_be(x % 4) /\ x % 4 \in 0 .. 3
      BY AddressFacts DEF dmem_word, dmem_be
    <3> QED
      BY <3>1, BytesWritten
  <2>2. /\ AlignWord(a) \in Word
        /\ Off(x, AlignWord(a)) < 4 <=> x \div 4 = a \div 4
        /\ x \div 4 = a \div 4 => Off(x, AlignWord(a)) = x % 4
    BY <1>1, Aligned
  <2>3. StoreValue(mem_bytes, AlignWord(a), 4, v)[x] =
          IF Off(x, AlignWord(a)) < 4 THEN ByteOf(v, Off(x, AlignWord(a))) ELSE mem_bytes[x]
    BY DEF StoreValue, Off
  <2> QED
    BY <2>1, <2>2, <2>3
<1>3. /\ mem_bytes' = [x \in Word |-> mem_bytes'[x]]
      /\ StoreValue(mem_bytes, AlignWord(a), 4, v)
           = [x \in Word |-> StoreValue(mem_bytes, AlignWord(a), 4, v)[x]]
  BY DEF mem_bytes, StoreValue
<1> QED
  BY <1>2, <1>3

(* An access that completes leaves the memory the architecture has had     *)
(* since the instruction left EX.                                          *)
LEMMA MemDone ==
    ASSUME TypeOK, ExmemKind, BeatCoherent, FirstBeat, DataMem, ~mem_beat_stall
    PROVE  mem_bytes' = abs_mem
<1>1. CASE exmem.valid /\ exmem.mem_we
  <2> DEFINE a == exmem.result
             s == StoreValue(mem_bytes, a, exmem.instr.width, exmem.store_data)
  <2>2. a \in Word /\ ~amo_here
    BY <1>1, ExmemTypes, Kinds
  <2>1. abs_mem = s
    BY <1>1, <2>2 DEF abs_mem, amo_is
  <2>3. beat2 <=> mem_mis
    BY <2>2 DEF BeatCoherent, amo_is, mem_beat_stall
  <2>4. ASSUME NEW x \in Word PROVE mem_bytes'[x] = s[x]
    <3>1. s[x] = IF Off(x, a) < exmem.instr.width THEN ByteOf(exmem.store_data, Off(x, a))
                 ELSE mem_bytes[x]
      BY DEF StoreValue, Off
    <3>2. mem_bytes'[x] = IF /\ x \div 4 = (IF beat2 THEN NextWord(a) ELSE a \div 4)
                             /\ Off(x, a) < exmem.instr.width
                          THEN ByteOf(exmem.store_data, Off(x, a)) ELSE mem_bytes[x]
      BY <1>1, StoreBeat
    <3>3. CASE ~(Off(x, a) < exmem.instr.width)
      BY <3>1, <3>2, <3>3
    <3>4. CASE Off(x, a) < exmem.instr.width /\ ~beat2
      <4>1. x \div 4 = a \div 4
        BY <1>1, <2>3, <3>4, Fits
      <4> QED
        BY <3>1, <3>2, <3>4, <4>1
    <3>5. CASE Off(x, a) < exmem.instr.width /\ beat2
      <4>1. x \div 4 = a \div 4 \/ x \div 4 = NextWord(a)
        <5>1. x \div 4 # a \div 4 /\ x \div 4 # NextWord(a) => Off(x, a) >= 4
          BY <2>2, Lanes
        <5>2. Off(x, a) \in Nat /\ exmem.instr.width \in {1, 2, 4}
          BY <2>2, Lanes, ExmemTypes
        <5> QED
          BY <3>5, <5>1, <5>2
      <4>2. x \div 4 = a \div 4 => mem_bytes[x] = ByteOf(exmem.store_data, Off(x, a))
        BY <1>1, <3>5 DEF FirstBeat
      <4> QED
        BY <3>1, <3>2, <3>5, <4>1, <4>2
    <3> QED
      BY <3>3, <3>4, <3>5
  <2>5. mem_bytes' = [x \in Word |-> mem_bytes'[x]] /\ s = [x \in Word |-> s[x]]
    BY DEF mem_bytes, StoreValue
  <2> HIDE DEF s
  <2> QED
    BY <2>1, <2>4, <2>5
<1>2. CASE amo_is("sc") /\ sc_ok
  <2>1. amo_here /\ dmem_we /\ ~amo_rmw_b2 /\ ~(exmem.valid /\ exmem.mem_we)
    BY <1>2, Kinds DEF amo_is, dmem_we, amo_rmw_b2
  <2>2. \A k \in 0 .. 3 : dmem_wbyte(k) = ByteOf(exmem.amo_b, k)
    BY <2>1 DEF dmem_wbyte
  <2>3. abs_mem = StoreValue(mem_bytes, AlignWord(exmem.amo_addr), 4, exmem.amo_b)
    BY <1>2, <2>1 DEF abs_mem, amo_is
  <2> QED
    BY <2>1, <2>2, <2>3, AtomicWrite
<1>3. CASE amo_is("amo")
  <2>1. amo_here /\ beat2 /\ amo_rmw_b2 /\ dmem_we /\ ~(exmem.valid /\ exmem.mem_we)
    BY <1>3, Kinds DEF amo_is, amo_rmw_b1, amo_rmw_b2, mem_beat_stall, dmem_we
  <2>2. ld_w0 = amo_old
    BY <2>1 DEF BeatCoherent, amo_old
  <2>3. \A k \in 0 .. 3 :
          dmem_wbyte(k) = ByteOf(AmoOp(exmem.instr.fn, amo_old, exmem.amo_b), k)
    BY <2>1, <2>2 DEF dmem_wbyte
  <2>4. abs_mem = StoreValue(mem_bytes, AlignWord(exmem.amo_addr), 4,
                             AmoOp(exmem.instr.fn, amo_old, exmem.amo_b))
    BY <1>3, <2>1 DEF abs_mem, amo_is
  <2> QED
    BY <2>1, <2>3, <2>4, AtomicWrite
<1>4. CASE /\ ~(exmem.valid /\ exmem.mem_we) /\ ~(amo_is("sc") /\ sc_ok)
           /\ ~amo_is("amo")
  <2>1. ~dmem_we
    BY <1>4 DEF dmem_we, amo_rmw_b2
  <2>2. mem' = mem /\ abs_mem = mem_bytes
    BY <1>4, <2>1 DEF DataMem, abs_mem
  <2> QED
    BY <2>2 DEF mem_bytes
<1> QED
  BY <1>1, <1>2, <1>3, <1>4

LEMMA StoreAgain ==
    ASSUME NEW m, NEW n, NEW a, NEW width, NEW v,
           \A x \in Word : ~(Off(x, a) < width) => m[x] = n[x]
    PROVE  StoreValue(m, a, width, v) = StoreValue(n, a, width, v)
<1>1. \A x \in Word : (IF Off(x, a) < width THEN ByteOf(v, Off(x, a)) ELSE m[x])
                    = (IF Off(x, a) < width THEN ByteOf(v, Off(x, a)) ELSE n[x])
  OBVIOUS
<1>2. /\ StoreValue(m, a, width, v) =
           [x \in Word |-> IF Off(x, a) < width THEN ByteOf(v, Off(x, a)) ELSE m[x]]
      /\ StoreValue(n, a, width, v) =
           [x \in Word |-> IF Off(x, a) < width THEN ByteOf(v, Off(x, a)) ELSE n[x]]
  BY DEF StoreValue, Off
<1> QED
  BY <1>1, <1>2

(* A first beat changes nothing the architecture sees.                     *)
LEMMA BeatHeld ==
    ASSUME TypeOK, ExmemKind, DataMem, ExMem, SecondBeat, mem_beat_stall
    PROVE  abs_mem' = abs_mem /\ FirstBeat' /\ pending_result' = pending_result
<1>e. exmem' = exmem /\ exmem.valid
  BY DEF ExMem, mem_beat_stall, mem_mis, amo_rmw_b1, amo_is, amo_here
<1>1. CASE exmem.mem_we
  <2>1. ~amo_here /\ ~amo_here' /\ ~beat2 /\ ~exmem.mem_re
    BY <1>e, <1>1, Kinds DEF mem_beat_stall, amo_rmw_b1, amo_is, amo_here
  <2>2. PICK a, width, v : /\ a = exmem.result /\ width = exmem.instr.width
                           /\ v = exmem.store_data
    OBVIOUS
  <2>3. ASSUME NEW x \in Word
        PROVE  mem_bytes'[x] = IF x \div 4 = a \div 4 /\ Off(x, a) < width
                               THEN ByteOf(v, Off(x, a)) ELSE mem_bytes[x]
    BY <1>e, <1>1, <2>1, <2>2, StoreBeat
  <2>4. /\ abs_mem = StoreValue(mem_bytes, a, width, v)
        /\ abs_mem' = StoreValue(mem_bytes', a, width, v)
    BY <1>e, <1>1, <2>1, <2>2 DEF abs_mem, amo_is
  <2>5. abs_mem' = abs_mem
    <3>1. \A x \in Word : ~(Off(x, a) < width) => mem_bytes'[x] = mem_bytes[x]
      BY <2>3
    <3>2. PICK m, n : m = mem_bytes' /\ n = mem_bytes
      OBVIOUS
    <3> QED
      BY <2>4, <3>1, <3>2, StoreAgain
  <2>6. FirstBeat'
    BY <1>e, <2>2, <2>3 DEF FirstBeat
  <2>7. pending_result' = pending_result
    BY <1>e, <2>1 DEF pending_result, amo_is
  <2> QED
    BY <2>5, <2>6, <2>7
<1>2. CASE ~exmem.mem_we
  <2>1. mem' = mem
    <3>1. ~amo_is("sc") /\ ~amo_rmw_b2
      BY Kinds DEF mem_beat_stall, amo_rmw_b1, amo_rmw_b2, amo_is
    <3> QED
      BY <1>2, <3>1 DEF DataMem, dmem_we
  <2>2. ~amo_is("sc") /\ ~amo_is("sc")'
    BY <1>e, Kinds DEF mem_beat_stall, amo_rmw_b1, amo_is, amo_here
  <2>3. /\ amo_is("amo")' = amo_is("amo") /\ amo_is("lr")' = amo_is("lr")
        /\ amo_old' = amo_old /\ mem_bytes' = mem_bytes
    BY <1>e, <2>1 DEF amo_is, amo_here, amo_old, mem_bytes
  <2>4. abs_mem' = abs_mem
    BY <1>e, <1>2, <2>2, <2>3 DEF abs_mem
  <2>5. pending_result' = pending_result
    BY <1>e, <2>2, <2>3 DEF pending_result
  <2>6. FirstBeat'
    BY <1>e, <1>2 DEF FirstBeat
  <2> QED
    BY <2>4, <2>5, <2>6
<1> QED
  BY <1>1, <1>2

---------------------------------------------------------------------------
(* Loads.                                                                  *)

LEMMA LoadAddress ==
    ASSUME NEW a \in Word, NEW k \in 0 .. 3
    PROVE  /\ Add(a, k) \in Word
           /\ k + (a % 4) < 4  => /\ Add(a, k) \div 4 = a \div 4
                                  /\ Add(a, k) % 4 = k + (a % 4)
           /\ k + (a % 4) >= 4 => /\ Add(a, k) \div 4 = NextWord(a)
                                  /\ Add(a, k) % 4 = k + (a % 4) - 4
<1>1. PICK m \in Nat : m = XMOD \div 4 /\ m >= 4 /\ XMOD = 4 * m
  BY WidthFacts
<1>2. PICK aw, l \in Nat : aw = a \div 4 /\ l = a % 4 /\ l < 4 /\ a = 4 * aw + l /\ aw < m
  BY <1>1 DEF Word
<1>3. Add(a, k) = IF a + k < XMOD THEN a + k ELSE a + k - XMOD
  <2>0. a \in Nat /\ k \in Nat
    BY <1>1 DEF Word
  <2>1. PICK s \in Nat : s = a + k /\ s < 2 * XMOD
    BY <1>1 DEF Word
  <2>2. CASE s < XMOD
    <3>1. DivRem(s, XMOD, 0, s)
      BY <1>1, <2>2 DEF DivRem
    <3> QED
      BY <1>1, <2>1, <2>2, <3>1, DivUnique DEF Add
  <2>3. CASE s >= XMOD
    <3>1. DivRem(s, XMOD, 1, s - XMOD) /\ s - XMOD \in Nat
      BY <1>1, <2>1, <2>3 DEF DivRem
    <3>2. s % XMOD = s - XMOD
      BY <1>1, <3>1, DivUnique
    <3>3. Add(a, k) = s % XMOD
      BY <2>1 DEF Add
    <3> QED
      BY <1>1, <2>0, <2>1, <2>3, <3>2, <3>3
  <2> QED
    BY <1>1, <2>2, <2>3
<1>4. NextWord(a) = IF aw + 1 = m THEN 0 ELSE aw + 1
  BY <1>1, <1>2, NextWordIs
<1>5. Add(a, k) \in Word
  BY <1>1, <1>2, <1>3 DEF Word
<1> QED
  BY <1>1, <1>2, <1>3, <1>4, <1>5

LEMMA ExtendLow ==
    ASSUME NEW b, NEW c, NEW width \in {1, 2, 4}, NEW uns,
           \A k \in 0 .. (width - 1) : b[k] = c[k]
    PROVE  Extend(b, width, uns) = Extend(c, width, uns)
<1>1. b[width - 1] = c[width - 1]
  OBVIOUS
<1>2. \A k \in 0 .. 3 :
        (IF k < width THEN b[k] ELSE IF uns THEN 0 ELSE SignFill(b[width - 1]))
      = (IF k < width THEN c[k] ELSE IF uns THEN 0 ELSE SignFill(c[width - 1]))
  BY <1>1
<1> QED
  BY <1>2 DEF Extend

(* What MEM hands to WB is the value the architecture has had since the    *)
(* instruction left EX.                                                    *)
LEMMA ResultDone ==
    ASSUME TypeOK, ExmemKind, BeatCoherent, exmem.valid, ~mem_beat_stall
    PROVE  mem_result = pending_result
<1>1. CASE amo_here
  <2>1. exmem.instr.op \in {"lr", "sc", "amo"} /\ ~exmem.mem_re
    BY <1>1, Kinds
  <2>2. dmem_rdata = amo_old
    BY <1>1 DEF dmem_rdata, dmem_word, amo_old
  <2>3. exmem.instr.op = "amo" => ld_w0 = amo_old
    BY <1>1 DEF BeatCoherent, amo_old, mem_beat_stall, amo_rmw_b1, amo_is
  <2>4. mem_result = amo_wb
    BY <1>1 DEF mem_result
  <2> QED
    BY <1>1, <2>1, <2>2, <2>3, <2>4 DEF amo_wb, pending_result, amo_is
<1>2. CASE ~amo_here /\ exmem.mem_re
  <2> DEFINE a == exmem.result
             width == exmem.instr.width
             bytes == [k \in 0 .. 3 |-> mem_bytes[Add(a, k)]]
             lanes == [k \in 0 .. 3 |-> LoadLane(k)]
  <2>1. a \in Word /\ width \in {1, 2, 4} /\ a % 4 \in 0 .. 3 /\ exmem_addr_lo = a % 4
    BY ExmemTypes, AddressFacts DEF exmem_addr_lo
  <2>2. beat2 <=> mem_mis
    BY <1>2 DEF BeatCoherent, amo_is, mem_beat_stall
  <2>3. dmem_rdata = IF beat2 THEN mem[NextWord(a)] ELSE mem[a \div 4]
    <3>1. CASE beat2
      BY <1>2, <3>1 DEF dmem_rdata, dmem_word, NextWord
    <3>2. CASE ~beat2
      <4>1. PICK m \in Nat : m = XMOD \div 4 /\ m > 0
        BY WidthFacts
      <4>2. PICK c \in Nat : c = a \div 4 /\ c < m
        BY <2>1, <4>1, AddressFacts DEF MemWords
      <4>3. c % m = c
        BY <4>1, <4>2
      <4>4. dmem_word = (a \div 4 + 0) % (XMOD \div 4)
        BY <1>2, <3>2 DEF dmem_word
      <4> QED
        BY <3>2, <4>1, <4>2, <4>3, <4>4 DEF dmem_rdata
    <3> QED
      BY <3>1, <3>2
  <2>4. beat2 => ld_w0 = mem[a \div 4]
    BY <1>2 DEF BeatCoherent
  <2>5. ASSUME NEW k \in 0 .. (width - 1) PROVE lanes[k] = bytes[k]
    <3>1. k \in 0 .. 3
      BY <2>1
    <3>2. /\ Add(a, k) \in Word
          /\ k + (a % 4) < 4  => /\ Add(a, k) \div 4 = a \div 4
                                 /\ Add(a, k) % 4 = k + (a % 4)
          /\ k + (a % 4) >= 4 => /\ Add(a, k) \div 4 = NextWord(a)
                                 /\ Add(a, k) % 4 = k + (a % 4) - 4
      BY <2>1, <3>1, LoadAddress
    <3>3. mem_bytes[Add(a, k)] = ByteOf(mem[Add(a, k) \div 4], Add(a, k) % 4)
      BY <3>2 DEF mem_bytes
    <3>4. CASE k + (a % 4) < 4
      <4>1. LoadLane(k) = ByteOf(IF beat2 THEN ld_w0 ELSE dmem_rdata, k + (a % 4))
        BY <2>1, <3>4 DEF LoadLane
      <4> QED
        BY <2>3, <2>4, <3>1, <3>2, <3>3, <3>4, <4>1
    <3>5. CASE k + (a % 4) >= 4
      <4>1. beat2
        BY <1>2, <2>1, <2>2, <3>5 DEF mem_mis
      <4>2. LoadLane(k) = ByteOf(dmem_rdata, k + (a % 4) - 4)
        BY <2>1, <3>1, <3>5, <4>1 DEF LoadLane
      <4> QED
        BY <2>3, <3>1, <3>2, <3>3, <3>5, <4>1, <4>2
    <3> QED
      BY <2>1, <3>1, <3>4, <3>5
  <2>6. load_data = Extend(lanes, width, exmem.instr.uns)
    BY DEF load_data
  <2>7. LoadValue(mem_bytes, a, width, exmem.instr.uns) = Extend(bytes, width, exmem.instr.uns)
    BY DEF LoadValue
  <2>8. Extend(lanes, width, exmem.instr.uns) = Extend(bytes, width, exmem.instr.uns)
    <3> HIDE DEF lanes, bytes
    <3> QED
      BY <2>1, <2>5, ExtendLow
  <2> QED
    BY <1>2, <2>6, <2>7, <2>8 DEF mem_result, pending_result, amo_is
<1>3. CASE ~amo_here /\ ~exmem.mem_re
  BY <1>3 DEF mem_result, pending_result, amo_is
<1> QED
  BY <1>1, <1>2, <1>3

(* A word is a load of four bytes at its address.                          *)
LEMMA WordLoaded ==
    ASSUME NEW m \in [MemWords -> Word], NEW a \in Word
    PROVE  LoadValue([x \in Word |-> ByteOf(m[x \div 4], x % 4)],
                     AlignWord(a), 4, TRUE) = m[a \div 4]
<1>1. /\ AlignWord(a) \in Word /\ AlignWord(a) % 4 = 0
      /\ AlignWord(a) \div 4 = a \div 4
  BY WidthFacts DEF AlignWord, Word
<1>2. PICK b \in Word : b = AlignWord(a)
  BY <1>1
<1>3. PICK w \in Word : w = m[a \div 4]
  BY AddressFacts
<1>m. PICK bytes : bytes = [x \in Word |-> ByteOf(m[x \div 4], x % 4)]
  OBVIOUS
<1>4. ASSUME NEW k \in 0 .. 3 PROVE bytes[Add(b, k)] = ByteOf(w, k)
  <2>1. k + (b % 4) < 4 /\ k + (b % 4) = k
    BY <1>1, <1>2
  <2>2. Add(b, k) \in Word /\ Add(b, k) \div 4 = b \div 4 /\ Add(b, k) % 4 = k
    BY <2>1, LoadAddress
  <2> QED
    BY <1>1, <1>2, <1>3, <1>m, <2>2
<1>5. [k \in 0 .. 3 |-> bytes[Add(b, k)]] = [k \in 0 .. 3 |-> ByteOf(w, k)]
  BY <1>4
<1>6. Extend([k \in 0 .. 3 |-> ByteOf(w, k)], 4, TRUE) = WordOf([k \in 0 .. 3 |-> ByteOf(w, k)])
  BY DEF Extend
<1>7. LoadValue(bytes, b, 4, TRUE) = w
  BY <1>5, <1>6, WordOfBytes DEF LoadValue
<1> QED
  BY <1>2, <1>3, <1>m, <1>7
=============================================================================
