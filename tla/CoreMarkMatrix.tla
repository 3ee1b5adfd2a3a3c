--------------------------- MODULE CoreMarkMatrix ---------------------------
(***************************************************************************)
(* coremark/src/core_matrix.c: N x N matrices stored by rows, MATDAT a     *)
(* signed short and MATRES a signed 32-bit integer.                        *)
(***************************************************************************)
EXTENDS CoreMarkUtil, FiniteSetsExt

(* Seeded fault: N = i, the first size that does not fit.                  *)
MatrixN_OneMore(blksize) == Max({n \in 0 .. blksize : n * n * 8 < blksize}) + 1

(* The largest N whose matrices are smaller than the block.                *)
MatrixN(blksize) == Max({n \in 0 .. blksize : n * n * 8 < blksize})

(* Element by element, by rows: the next seed, and from it and the order   *)
(* of the element its values in B and A.                                   *)
core_init_matrix(blksize, seed) ==
    LET N == MatrixN(blksize)
        made == Loop(N * N, [seed |-> IF seed = 0 THEN 1 ELSE seed, B |-> << >>],
                     [k \in 1 .. (N * N) |-> [x \in [seed : Nat, B : Seq(Int)] |->
                         LET s == (k * x.seed) % 65536
                         IN [seed |-> s, B |-> Append(x.B, S16(s + k))]]])
        B == [k \in 0 .. (N * N - 1) |-> made.B[k + 1]]
    IN [N |-> N, B |-> B,
        A |-> [k \in DOMAIN B |-> S16(B[k] + k + 1) % 256],
        C |-> [k \in DOMAIN B |-> 0]]

(* Offsets of A, B, C and of the end of C for a block at offset `at'.      *)
MatrixLayout(blksize, at) ==
    LET NN == MatrixN(blksize) * MatrixN(blksize)
        A == align_mem(at)
        B == A + 2 * NN
        C == align_mem(B + 2 * NN)
    IN [A |-> A, B |-> B, C |-> C, end |-> C + 4 * NN]

matrix_big(x) == S16(61440 + x)               \* 0xf000 | x, x < 0x1000
bit_extract(x, low, range) == (x \div low) % range      \* 2^from, 2^to

Row(m, k) == k \div m.N
Col(m, k) == k % m.N

(* Sum of f[j] over the columns j.                                         *)
Cols(m) == 0 .. (m.N - 1)
Over(m, f) == Loop(m.N, 0, [k \in 1 .. m.N |-> [sum \in Int |-> sum + f[k - 1]]])

matrix_add_const(m, val) == [m EXCEPT !.A = [k \in DOMAIN @ |-> S16(@[k] + val)]]
matrix_mul_const(m, val) == [m EXCEPT !.C = [k \in DOMAIN @ |-> m.A[k] * val]]

(* Only the first row of C is written.                                     *)
matrix_mul_vect(m) ==
    [m EXCEPT !.C = [k \in DOMAIN @ |->
        IF k < m.N THEN Over(m, [j \in Cols(m) |-> m.A[k * m.N + j] * m.B[j]]) ELSE @[k]]]

Product(m, k, j) == m.A[Row(m, k) * m.N + j] * m.B[j * m.N + Col(m, k)]

matrix_mul_matrix(m) ==
    [m EXCEPT !.C = [k \in DOMAIN @ |-> Over(m, [j \in Cols(m) |-> Product(m, k, j)])]]

matrix_mul_matrix_bitextract(m) ==
    [m EXCEPT !.C = [k \in DOMAIN @ |->
        Over(m, [j \in Cols(m) |-> bit_extract(Product(m, k, j), 4, 16)
                                   * bit_extract(Product(m, k, j), 32, 128)])]]

matrix_sum(m, clipval) ==
    LET prev(k) == IF k = 0 THEN 0 ELSE m.C[k - 1]
        turn(k, x) == IF x.tmp + m.C[k] > clipval THEN [tmp |-> 0, ret |-> x.ret + 10]
                      ELSE [tmp |-> x.tmp + m.C[k],
                            ret |-> x.ret + IF m.C[k] > prev(k) THEN 1 ELSE 0]
    IN S16(Loop(m.N * m.N, [tmp |-> 0, ret |-> 0],
                [k \in 1 .. (m.N * m.N) |->
                    [x \in [tmp : Int, ret : Int] |-> turn(k - 1, x)]]).ret)

(* Seeded fault: the constant is not taken out of A again.                 *)
matrix_step_NoUndo(m, val, k) ==
    CASE k = 0 -> matrix_add_const(m, val)
      [] k = 1 -> matrix_mul_const(m, val)
      [] k = 2 -> matrix_mul_vect(m)
      [] k = 3 -> matrix_mul_matrix(m)
      [] k = 4 -> matrix_mul_matrix_bitextract(m)
      [] k = 5 -> m

(* matrix_test: step 0 adds val to A, steps 1 to 4 compute C and fold its  *)
(* sum into the crc, step 5 takes val out of A again.                      *)
matrix_step(m, val, k) ==
    CASE k = 0 -> matrix_add_const(m, val)
      [] k = 1 -> matrix_mul_const(m, val)
      [] k = 2 -> matrix_mul_vect(m)
      [] k = 3 -> matrix_mul_matrix(m)
      [] k = 4 -> matrix_mul_matrix_bitextract(m)
      [] k = 5 -> matrix_add_const(m, -val)

matrix_crc(m, val, k, crc) ==
    IF k \in 1 .. 4 THEN crc16(matrix_sum(m, matrix_big(val)), crc) ELSE crc
=============================================================================
