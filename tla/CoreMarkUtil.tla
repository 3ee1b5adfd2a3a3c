---------------------------- MODULE CoreMarkUtil ----------------------------
(***************************************************************************)
(* coremark/src/core_util.c and the fixed-width arithmetic of the port     *)
(* (core_portme.h).  A 16-bit datum is kept as its bit pattern             *)
(* 0 .. 65535; S16 gives the value of a pattern as a signed short.         *)
(***************************************************************************)
EXTENDS Integers, Sequences

(* The loops of the program: what `turns' turns make of init, where        *)
(* body[k][x] is what turn k makes of x.                                   *)
Loop(turns, init, body) ==
    LET after[k \in 0 .. turns] == IF k = 0 THEN init ELSE body[k][after[k - 1]]
    IN after[turns]

U16(x) == x % 65536
S16(x) == ((x + 32768) % 65536) - 32768

(* C's ^ and | on patterns of 1, 2, 4, 8 and 16 bits.                      *)
xor1(a, b)  == (a + b) % 2
xor2(a, b)  == 2 * xor1(a \div 2, b \div 2) + xor1(a % 2, b % 2)
xor4(a, b)  == 4 * xor2(a \div 4, b \div 4) + xor2(a % 4, b % 4)
xor8(a, b)  == 16 * xor4(a \div 16, b \div 16) + xor4(a % 16, b % 16)
xor16(a, b) == 256 * xor8(a \div 256, b \div 256) + xor8(a % 256, b % 256)
or16(a, b)  == (a + b + xor16(a, b)) \div 2

(* align_mem: the next multiple of 4.                                      *)
align_mem(x) == 4 + ((x - 1) \div 4) * 4

(* Seeded fault: the carry is not shifted into the top bit.                *)
crc_bit_NoCarry(b, crc) == IF (b + crc) % 2 = 1 THEN xor16(crc, 16386) \div 2
                           ELSE crc \div 2

(* One turn of crcu8's loop: bit b of the datum is shifted into crc.       *)
crc_bit(b, crc) == IF (b + crc) % 2 = 1
                   THEN (xor16(crc, 16386) \div 2) + 32768   \* 0x4002, 0x8000
                   ELSE crc \div 2

Bytes == {x \in Nat : x < 256}
Words == {x \in Nat : x < 65536}

crcu8(data, crc) ==
    Loop(8, [data |-> data, crc |-> crc],
         [k \in 1 .. 8 |-> [x \in [data : Bytes, crc : Words] |->
             [data |-> x.data \div 2, crc |-> crc_bit(x.data % 2, x.crc)]]]).crc

crcu16(newval, crc) == crcu8((newval \div 256) % 256, crcu8(newval % 256, crc))
crc16(newval, crc)  == crcu16(U16(newval), crc)
crcu32(newval, crc) == crc16(newval \div 65536, crc16(newval, crc))
=============================================================================
