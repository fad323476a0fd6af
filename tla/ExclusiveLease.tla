--------------------------- MODULE ExclusiveLease ---------------------------
(***************************************************************************)
(* What a lock service promises, without tables, tokens or clocks: every   *)
(* key has at most one owner, and ownership never passes from one caller   *)
(* to another in one step.  Between two owners the key is free, because    *)
(* the first one released it, was forced out, or let its lease lapse.      *)
(***************************************************************************)
CONSTANTS Key, Token, NoOwner

VARIABLE owner   \* owner[k]: the caller that owns k now

Init == owner = [k \in Key |-> NoOwner]

Acquire(k, t) ==
    /\ owner[k] = NoOwner
    /\ owner' = [owner EXCEPT ![k] = t]

(* Several keys may become free at once: one tick can end many leases. *)
Release(K) ==
    /\ K # {}
    /\ owner' = [k \in Key |-> IF k \in K THEN NoOwner ELSE owner[k]]

Next ==
    \/ \E K \in SUBSET Key : Release(K)
    \/ \E k \in Key, t \in Token : Acquire(k, t)

Spec == Init /\ [][Next]_owner
=============================================================================
