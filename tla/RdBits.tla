------------------------------- MODULE RdBits -------------------------------
(***************************************************************************)
(* The bit vectors of rdbits.c: an array of words and the greatest bit     *)
(* that may be used.  A word is the set of the bits that are 1 in it.      *)
(***************************************************************************)
EXTENDS Integers, FiniteSetsExt

CONSTANT WordBits       \* bits of a word, 32 in the code

ASSUME BitsAssumption == WordBits \in Nat \ {0}

\* rd_bitvec_init().
rd_bitvec_init(max) ==
    [rbv_max |-> max, rbv_b |-> [w \in 0..max \div WordBits |-> {}]]

Buckets(v) == Cardinality(DOMAIN v.rbv_b)

\* rd_bitvec_op() with RD_BITVEC_OP_SET: bits out of range are not set.
rd_bitvec_set(v, i) ==
    IF i > v.rbv_max THEN v
    ELSE [v EXCEPT !.rbv_b[i \div WordBits] = @ \cup {i % WordBits}]

\* rd_bitvec_op() with RD_BITVEC_OP_RESET.
rd_bitvec_reset(v, i) ==
    IF i > v.rbv_max THEN v
    ELSE [v EXCEPT !.rbv_b[i \div WordBits] = @ \ {i % WordBits}]

\* rd_bitvec_op() with RD_BITVEC_OP_TEST.
rd_bitvec_test(v, i) ==
    i <= v.rbv_max /\ i % WordBits \in v.rbv_b[i \div WordBits]

\* rd_bitvec_fxs() with RD_BITVEC_OP_FFS: one more than the lowest bit, or all
\* the bits of the words if none is set.
rd_bitvec_ffs(v) ==
    LET used == {w \in DOMAIN v.rbv_b : v.rbv_b[w] # {}}
    IN  IF used = {} THEN Buckets(v) * WordBits
        ELSE Min(used) * WordBits + Min(v.rbv_b[Min(used)]) + 1

\* Variant with a fault: the leading zeros are not taken from the word's bits.
HighestZeros(word) == WordBits - 1 - Max(word)

\* One more than the highest bit of a word, from the zeros above it.
Highest(word) == WordBits - (WordBits - 1 - Max(word))

\* rd_bitvec_fxs() with RD_BITVEC_OP_FLS: one more than the highest bit, but a
\* word whose top bit is set has no leading zeros and is taken for empty.  When
\* no word is left the word before the first is returned.
rd_bitvec_fls(v) ==
    LET used == {w \in DOMAIN v.rbv_b :
                    v.rbv_b[w] # {} /\ Max(v.rbv_b[w]) # WordBits - 1}
    IN  IF used = {} THEN -WordBits
        ELSE Max(used) * WordBits + Highest(v.rbv_b[Max(used)])
=============================================================================
