----------------------------- MODULE ByteStream -----------------------------
(***************************************************************************)
(* What a TCP connection promises its two applications: a byte stream in   *)
(* each direction.  Bytes are numbered in the order they are written.      *)
(* Bytes may stop arriving, but what arrives is in order and complete up   *)
(* to there, and end of file is seen only after the last byte.             *)
(***************************************************************************)
EXTENDS Naturals, Sequences

CONSTANTS Ends, MaxBytes

VARIABLES
    wrote,      \* wrote[e]: bytes the application at e has written
    got,        \* got[e]: bytes the application at e has read
    closed,     \* ends whose application has closed
    eof         \* eof[e]: the application at e has seen end of file

vars == <<wrote, got, closed, eof>>

Other(e) == CHOOSE p \in Ends : p # e

Init ==
    /\ wrote = [e \in Ends |-> 0]
    /\ got = [e \in Ends |-> <<>>]
    /\ closed = {}
    /\ eof = [e \in Ends |-> FALSE]

Write(e) ==
    /\ e \notin closed
    /\ \E n \in (wrote[e] + 1)..MaxBytes[e] : wrote' = [wrote EXCEPT ![e] = n]
    /\ UNCHANGED <<got, closed, eof>>

Read(e) ==
    /\ e \notin closed
    /\ ~eof[e]
    /\ \E n \in (Len(got[e]) + 1)..wrote[Other(e)] :
          got' = [got EXCEPT ![e] = [k \in 1..n |-> k]]
    /\ UNCHANGED <<wrote, closed, eof>>

SeeEof(e) ==
    /\ e \notin closed
    /\ Other(e) \in closed
    /\ Len(got[e]) = wrote[Other(e)]
    /\ eof' = [eof EXCEPT ![e] = TRUE]
    /\ UNCHANGED <<wrote, got, closed>>

Close(e) ==
    /\ closed' = closed \cup {e}
    /\ UNCHANGED <<wrote, got, eof>>

Next == \E e \in Ends : Write(e) \/ Read(e) \/ SeeEof(e) \/ Close(e)

Spec == Init /\ [][Next]_vars

=============================================================================
