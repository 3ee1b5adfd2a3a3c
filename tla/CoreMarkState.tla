---------------------------- MODULE CoreMarkState ----------------------------
(***************************************************************************)
(* coremark/src/core_state.c: a machine that classifies comma-separated    *)
(* numbers in a block of bytes that ends with zeros.                       *)
(***************************************************************************)
EXTENDS CoreMarkUtil, FiniteSets

COMMA == 44
CORE_STATE == <<"START", "INVALID", "S1", "S2", "INT", "FLOAT", "EXPONENT", "SCIENTIFIC">>

(* The patterns, as character codes.                                       *)
intpat   == <<<<53, 48, 49, 50>>, <<49, 50, 51, 52>>, <<45, 56, 55, 52>>, <<43, 49, 50, 50>>>>
floatpat == <<<<51, 53, 46, 53, 52, 52, 48, 48>>, <<46, 49, 50, 51, 52, 53, 48, 48>>,
              <<45, 49, 49, 48, 46, 55, 48, 48>>, <<43, 48, 46, 54, 52, 52, 48, 48>>>>
scipat   == <<<<53, 46, 53, 48, 48, 101, 43, 51>>, <<45, 46, 49, 50, 51, 101, 45, 50>>,
              <<45, 56, 55, 101, 43, 56, 51, 50>>, <<43, 48, 46, 54, 101, 45, 49, 50>>>>
errpat   == <<<<84, 48, 46, 51, 101, 45, 49, 70>>, <<45, 84, 46, 84, 43, 43, 84, 113>>,
              <<49, 84, 51, 46, 52, 101, 52, 122>>, <<51, 52, 46, 48, 101, 45, 84, 94>>>>

(* Their characters: + - . digits and the letters F T ^ e q z.              *)
Characters == {43, 45, 46} \union 48 .. 56 \union {70, 84, 94, 101, 113, 122}

Pattern(seed) ==
    LET n == ((seed \div 8) % 4) + 1
    IN CASE seed % 8 \in 0 .. 2 -> intpat[n]
         [] seed % 8 \in 3 .. 4 -> floatpat[n]
         [] seed % 8 \in 5 .. 6 -> scipat[n]
         [] OTHER               -> errpat[n]

(* A pattern is written, with a comma, only once the next one was chosen   *)
(* and the space for it checked; the rest of the block is zero.  A turn    *)
(* but the first writes five bytes or more, so there are no more turns     *)
(* than size \div 5 + 2.                                                   *)
core_init_state(size, seed) ==
    LET item(x) == IF x.buf = << >> THEN << >> ELSE Append(x.buf, COMMA)
        text == Loop(size \div 5 + 2, [text |-> << >>, buf |-> << >>, seed |-> seed],
                     [k \in 1 .. (size \div 5 + 2) |->
                         [x \in [text : Seq(Nat), buf : Seq(Nat), seed : Nat] |->
                             IF Len(x.text) + Len(x.buf) + 1 >= size - 1 THEN x
                             ELSE [text |-> x.text \o item(x), buf |-> Pattern(x.seed + 1),
                                   seed |-> x.seed + 1]]]).text
    IN [k \in 0 .. (size - 1) |-> IF k < Len(text) THEN text[k + 1] ELSE 0]

ee_isdigit(c) == c \in 48 .. 57
Sign(c) == c \in {43, 45}
Point(c) == c = 46
Exp(c) == c \in {69, 101}

NextState(s, c) ==
    CASE s = "START" /\ ee_isdigit(c)      -> "INT"
      [] s = "START" /\ Sign(c)            -> "S1"
      [] s = "START" /\ Point(c)           -> "FLOAT"
      [] s = "S1" /\ ee_isdigit(c)         -> "INT"
      [] s = "S1" /\ Point(c)              -> "FLOAT"
      [] s = "INT" /\ Point(c)             -> "FLOAT"
      [] s = "INT" /\ ee_isdigit(c)        -> "INT"
      [] s = "FLOAT" /\ Exp(c)             -> "S2"
      [] s = "FLOAT" /\ ee_isdigit(c)      -> "FLOAT"
      [] s = "S2" /\ Sign(c)               -> "EXPONENT"
      [] s = "EXPONENT" /\ ee_isdigit(c)   -> "SCIENTIFIC"
      [] s = "SCIENTIFIC" /\ ee_isdigit(c) -> "SCIENTIFIC"
      [] OTHER                             -> "INVALID"

(* Counters a transition from s to t increments.                           *)
Counted(s, t) ==
    CASE s = "START"      -> {"START"} \union ({t} \intersect {"INVALID"})
      [] s = "SCIENTIFIC" -> {t} \intersect {"INVALID"}
      [] OTHER            -> {s} \ {t}

Zeros == [s \in {CORE_STATE[k] : k \in 1 .. 8} |-> 0]
Bump(counts, S) == [s \in DOMAIN counts |-> counts[s] + IF s \in S THEN 1 ELSE 0]

(* Past the block a scan reads what lies there; it stops here.             *)
ByteAt(blk, p) == IF p \in DOMAIN blk THEN blk[p] ELSE 0

(* One call: from p to behind the comma or the invalid character, or to    *)
(* the terminating zero.                                                   *)
core_state_transition(blk, p, track) ==
    LET Ends(e) == ByteAt(blk, e) \in {0, COMMA}
        stop == CHOOSE e \in p .. (p + Cardinality(DOMAIN blk)) : Ends(e) /\ \A q \in p .. (e - 1) : ~Ends(q)
        turn(x) == LET t == NextState(x.state, ByteAt(blk, x.p))
                   IN [p |-> x.p + 1, state |-> t, track |-> Bump(x.track, Counted(x.state, t))]
        end == Loop(stop - p, [p |-> p, state |-> "START", track |-> track],
                    [k \in 1 .. (stop - p) |->
                        [x \in [p : Nat, state : DOMAIN Zeros, track : [DOMAIN Zeros -> Nat]] |->
                            IF x.state = "INVALID" THEN x ELSE turn(x)]])
    IN IF end.state # "INVALID" /\ ByteAt(blk, end.p) = COMMA
       THEN [end EXCEPT !.p = @ + 1] ELSE end

(* Every step-th byte but commas is xored with the low byte of seed.       *)
corrupt(blk, seed, step) ==
    [k \in DOMAIN blk |-> IF k % step = 0 /\ blk[k] # COMMA
                          THEN xor8(blk[k], seed % 256) ELSE blk[k]]

(* Seeded fault: the period is only kept from being zero.                  *)
MinPeriod_One(dtype) == IF dtype < 1 THEN 1 ELSE dtype

(* The smallest corruption period calc_func allows.                        *)
MinPeriod(dtype) == IF dtype < 34 THEN 34 ELSE dtype    \* 0x22

state_crc(final, track, crc) ==
    Loop(8, crc, [k \in 1 .. 8 |-> [c \in Words |->
        crcu32(track[CORE_STATE[k]], crcu32(final[CORE_STATE[k]], c))]])
=============================================================================
