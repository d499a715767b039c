----------------------------- MODULE ByteStream -----------------------------
(***************************************************************************)
(* What reading an open file promises: each call hands out, in one or more *)
(* pieces, the bytes that follow those handed out before, none twice and   *)
(* none left out, and nothing of a file opened earlier.  How many it hands *)
(* out is not promised.                                                    *)
(***************************************************************************)
EXTENDS Integers, Sequences

VARIABLES size,   \* bytes in the open file
          place,  \* the next byte to hand out
          given   \* the bytes the present call has handed out

vars == <<size, place, given>>

From(k, n) == [i \in 1 .. n |-> k + i - 1]

Init == size \in Nat /\ place = 0 /\ given = <<>>

Ask == given' = <<>> /\ place' = place
Start == given' = <<>> /\ place' = 0 /\ size' \in Nat    \* perhaps of another file
Give ==
  \E n \in 1 .. size - place :
    /\ given' = given \o From(place, n)
    /\ place' = place + n

Next == Start \/ ((Ask \/ Give) /\ UNCHANGED size)

Spec == Init /\ [][Next]_vars
=============================================================================
