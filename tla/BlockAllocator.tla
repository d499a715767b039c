--------------------------- MODULE BlockAllocator ---------------------------
(***************************************************************************)
(* What a heap promises its clients: a set of owned blocks, each handed    *)
(* out at an address where it overlaps no other owned block, and kept      *)
(* until its owner gives it back.  A request may be refused (a stutter).   *)
(***************************************************************************)
EXTENDS Integers, Functions

CONSTANTS Addresses,  \* addresses a block may start at
          Sizes       \* sizes a client may ask for

VARIABLE live         \* owned blocks: start address -> size

Disjoint(p, m, q, n) == p + m <= q \/ q + n <= p

Init == live = [p \in {} |-> 0]

(* The block that becomes an owned one.                                    *)
Alloc(n) ==
  \E p \in DOMAIN live' \ DOMAIN live :
    /\ p \in Addresses
    /\ \A q \in DOMAIN live : Disjoint(p, n, q, live[q])
    /\ live' = [q \in DOMAIN live \cup {p} |-> IF q = p THEN n ELSE live[q]]

Free(p) == live' = Restrict(live, DOMAIN live \ {p})

Next ==
  \/ \E n \in Sizes : Alloc(n)
  \/ \E p \in DOMAIN live : Free(p)

Spec == Init /\ [][Next]_live
=============================================================================
