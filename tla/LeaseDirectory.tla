--------------------------- MODULE LeaseDirectory ---------------------------
(***************************************************************************)
(* What the registry promises its clients, without threads, locks or RPCs: *)
(* a bounded directory of leases.  A lease belongs to the session that it  *)
(* was granted to, is never handed to another one while it lasts, and ends *)
(* only when its release was asked for, when the directory closes, or when *)
(* it has aged Term times since it was granted or last renewed.            *)
(*                                                                         *)
(* What clients ask for and when the directory is open is not for the      *)
(* directory to decide: open and asked change as they like.                *)
(***************************************************************************)
EXTENDS Integers, FiniteSets, Functions

CONSTANTS
    Name,       \* what can be leased
    Owner,      \* who can hold a lease
    Term,       \* how often a lease may age before it expires
    Capacity    \* how many leases there may be at once

VARIABLES
    lease,   \* [leased name -> its lease]
    open,    \* input: the directory is open
    asked    \* input: the names of which a release is asked for

Lease == [owner : Owner, credit : 0 .. Term]

Init == lease = [n \in {} |-> n]

Grant(n) ==
    /\ open
    /\ n \notin DOMAIN lease
    /\ Cardinality(DOMAIN lease) < Capacity
    /\ lease' \in [DOMAIN lease \cup {n} -> Lease]
    /\ lease'[n].credit = Term
    /\ \A m \in DOMAIN lease : lease'[m] = lease[m]

Renew(n) ==
    /\ n \in DOMAIN lease
    /\ lease' = [m \in DOMAIN lease |->
                   [owner  |-> lease[m].owner,
                    credit |-> IF m = n THEN Term ELSE lease[m].credit]]

Release(n) ==
    /\ n \in DOMAIN lease
    /\ n \in asked
    /\ lease' = Restrict(lease, DOMAIN lease \ {n})

(* All leases age together, and none that has already run out.             *)
Age ==
    /\ \A n \in DOMAIN lease : lease[n].credit > 0
    /\ lease' = [n \in DOMAIN lease |-> [lease[n] EXCEPT !.credit = @ - 1]]

(* The leases that have run out, all of them and no other, end.            *)
Expire ==
    lease' = Restrict(lease, {n \in DOMAIN lease : lease[n].credit > 0})

Wipe ==
    /\ open => ~open'
    /\ lease' = [n \in {} |-> n]

Next ==
    \/ \E n \in Name : Grant(n) \/ Renew(n) \/ Release(n)
    \/ Age
    \/ Expire
    \/ Wipe

Spec == Init /\ [][Next]_lease

=============================================================================
