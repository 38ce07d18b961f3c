------------------------------- MODULE Prefix -------------------------------
(***************************************************************************)
(* Addresses and prefixes as strings of bits, most significant bit first.  *)
(* The code keeps both as 32-bit integers and takes the bits out one by    *)
(* one (bit_at of src/src/route/fib.c); W is the width of an address.      *)
(***************************************************************************)
EXTENDS Integers, Sequences

CONSTANT W

ASSUME WAssumption == W \in Nat

Bit == {0, 1}

Addr == [1..W -> Bit]

Prefixes == UNION {[1..n -> Bit] : n \in 0..W}

\* The first plen bits of an address: prefix &= mask, with the mask of plen.
Mask(a, plen) == [i \in 1..plen |-> a[i]]

\* p is an initial part of s: the walk along the bits of s passes p.
Covers(p, s) ==
    /\ Len(p) <= Len(s)
    /\ \A i \in 1..Len(p) : p[i] = s[i]
=============================================================================
