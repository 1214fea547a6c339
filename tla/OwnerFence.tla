----------------------------- MODULE OwnerFence -----------------------------
(***************************************************************************)
(* What the runtime owner lease promises to everything that writes under   *)
(* it.  At any moment at most one owner epoch passes Assert, the           *)
(* write-fencing predicate every runtime-owned transaction evaluates.  An  *)
(* epoch that has been displaced by another one never passes it again.     *)
(*                                                                         *)
(* Wall-clock time is absent here.  RuntimeOwner models the lease row, its *)
(* expiry times and the processes that compete for it, and implements this *)
(* specification.  The ledger modules use this one as their owner.         *)
(***************************************************************************)
CONSTANTS
    Epochs,     \* owner epochs; every process life draws a fresh one
    NoEpoch     \* no lease row was ever written

ASSUME NoEpochAssumption == NoEpoch \notin Epochs

VARIABLES
    owner,      \* the epoch recorded in the lease row
    valid,      \* the recorded lease has not expired
    retired     \* epochs that owned the lease and were displaced

ownerVars == <<owner, valid, retired>>

OwnerTypeOK ==
    /\ owner \in Epochs \cup {NoEpoch}
    /\ valid \in BOOLEAN
    /\ retired \subseteq Epochs

OwnerInit ==
    /\ owner = NoEpoch
    /\ valid = FALSE
    /\ retired = {}

\* The write fence: epoch e owns an unexpired lease.
Holds(e) == owner = e /\ valid

\* An epoch acquires the lease, or prolongs the one it has.
Take(e) ==
    /\ e \notin retired
    /\ owner = e \/ ~valid
    /\ owner' = e
    /\ valid' = TRUE
    /\ retired' = retired \cup ({owner} \ {e, NoEpoch})

\* The lease runs out, or its owner gives it back.
Lapse ==
    /\ valid
    /\ valid' = FALSE
    /\ UNCHANGED <<owner, retired>>

OwnerNext == Lapse \/ \E e \in Epochs : Take(e)

OwnerSpec == OwnerInit /\ [][OwnerNext]_ownerVars
=============================================================================
