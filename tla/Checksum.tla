------------------------------ MODULE Checksum ------------------------------
(***************************************************************************)
(* The Internet checksum of src/src/ipv4/checksum.c, and its incremental   *)
(* update in ip_forward.  A word is below Base, which is 2^16 in the code. *)
(***************************************************************************)
EXTENDS Integers

CONSTANT Base

ASSUME BaseAssumption == Base \in Nat /\ Base > 1

Word == 0..(Base - 1)

\* One turn of the folding loop.
Carried(sum) == (sum % Base) + (sum \div Base)

\* The loop of csum_fold and of csum_update16: a sum of 32 bits has no carry
\* left after two turns, and a turn without a carry changes nothing.
Folded(sum) == Carried(Carried(sum))

\* ~x of a word x.
Complement(x) == Base - 1 - x

csum_fold(sum) == Complement(Folded(sum))

\* Fault variant: the update as a plain subtraction modulo 2^16.
csum_update16_plain(old_csum, old_field, new_field) ==
    (old_csum + old_field + Base - new_field) % Base

csum_update16(old_csum, old_field, new_field) ==
    Complement(Folded(Complement(old_csum) + Complement(old_field) + new_field))
=============================================================================
