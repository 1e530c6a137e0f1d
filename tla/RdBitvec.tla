------------------------------ MODULE RdBitvec ------------------------------
(***************************************************************************)
(* A bit vector of rdbits.c as its users see it: a set of small numbers,   *)
(* with its smallest and greatest member.                                  *)
(***************************************************************************)
EXTENDS RdBits

CONSTANT BitsMax        \* max_val of the vector

ASSUME BitvecAssumption == BitsMax \in Nat

VARIABLES
    rbv,        \* the vector
    members     \* history: the bits set and not reset

bitVars == <<rbv, members>>

BitInit == rbv = rd_bitvec_init(BitsMax) /\ members = {}

\* rd_bitvec_set() and rd_bitvec_reset(), of numbers out of range too.
SetBit(i) ==
    /\ rbv' = rd_bitvec_set(rbv, i)
    /\ members' = (members \cup {i}) \cap (0..BitsMax)
ResetBit(i) ==
    /\ rbv' = rd_bitvec_reset(rbv, i)
    /\ members' = members \ {i}

BitNext == \E i \in 0..BitsMax + 1 : SetBit(i) \/ ResetBit(i)

BitSpec == BitInit /\ [][BitNext]_bitVars

\* The members that rd_bitvec_fls() takes into account: none of a word whose
\* top bit is a member.
TopOfWord(i) == (i \div WordBits) * WordBits + (WordBits - 1)
Shown(S) == {i \in S : TopOfWord(i) \notin S}

\* A bit vector is a set however its members spread over the words:
\* rd_bitvec_test() tells membership, and a number out of range is not a member
\* and disturbs no other.  rd_bitvec_ffs() counts the least member from 1, and
\* returns the bits of all words, not 0 as ffs(3), if there is none.
\* rd_bitvec_fls() counts the greatest member from 1, as rdbits.c:90 claims, if
\* and only if that is not the top bit of its word: a word with its top bit set
\* is passed over with all that is in it, and when no word is left the result
\* is the (wrapped) number of the word before the first.
BitsAreASet ==
    /\ \A i \in 0..BitsMax + 1 : rd_bitvec_test(rbv, i) = (i \in members)
    /\ rd_bitvec_ffs(rbv) = IF members = {} THEN (BitsMax \div WordBits + 1) * WordBits
                            ELSE Min(members) + 1
    /\ members # {} =>
          (rd_bitvec_fls(rbv) = Max(members) + 1 <=>
              Max(members) % WordBits # WordBits - 1)
    /\ rd_bitvec_fls(rbv) = IF Shown(members) = {} THEN -WordBits
                            ELSE Max(Shown(members)) + 1
=============================================================================
