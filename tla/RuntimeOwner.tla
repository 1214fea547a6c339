---------------------------- MODULE RuntimeOwner ----------------------------
(***************************************************************************)
(* The singleton owner lease of internal/control and the processes that    *)
(* compete for it: a runtime (internal/runtime Service) that claims the    *)
(* lease at start, renews it from a heartbeat goroutine and releases it at *)
(* close, and an operator command (cmd/agentic-stream/operator.go) that    *)
(* claims it, makes one change and releases it.                            *)
(*                                                                         *)
(* Claim and Renew read the clock before their transaction begins and use  *)
(* that reading inside it, so each is two steps here and the clock may     *)
(* move, and another process may commit, between them.  The owner instance *)
(* is a function of the epoch in every caller, so the pair is one value.   *)
(***************************************************************************)
EXTENDS Naturals, TLAPS

CONSTANTS
    Runtimes,   \* epochs of runtime process lives
    Operators,  \* epochs of operator commands
    NoEpoch,    \* the lease row does not exist
    Lease,      \* the lease duration, in clock ticks
    MaxTime     \* bound: the clock stops here

Epochs == Runtimes \cup Operators

ASSUME LeaseAssumption == Lease \in Nat \ {0}
ASSUME MaxTimeAssumption == MaxTime \in Nat
ASSUME EpochAssumption == NoEpoch \notin Epochs
ASSUME KindAssumption == Runtimes \cap Operators = {}

VARIABLES
    now,            \* the wall clock all processes share
    leaseEpoch,     \* runtime_owner.owner_epoch
    leaseUntil,     \* runtime_owner.lease_until
    phase,          \* what each process is doing with the lease
    readAt,         \* the clock reading of the pending transaction
    renewedAt,      \* lastRenewed of the heartbeat loop
    claimed         \* history: epochs whose claim has committed

vars == <<now, leaseEpoch, leaseUntil, phase, readAt, renewedAt, claimed>>

Phases == {"new", "claiming", "starting", "ready", "renewing", "reclaiming",
           "lost", "stopped"}

TypeOK ==
    /\ now \in Nat
    /\ leaseEpoch \in Epochs \cup {NoEpoch}
    /\ leaseUntil \in Nat
    /\ phase \in [Epochs -> Phases]
    /\ readAt \in [Epochs -> Nat]
    /\ renewedAt \in [Epochs -> Nat]
    /\ claimed \subseteq Epochs

Init ==
    /\ now = 0
    /\ leaseEpoch = NoEpoch
    /\ leaseUntil = 0
    /\ phase = [e \in Epochs |-> "new"]
    /\ readAt = [e \in Epochs |-> 0]
    /\ renewedAt = [e \in Epochs |-> 0]
    /\ claimed = {}

\* The fence predicate of a transaction committed at time t.
HoldsLease(e, t) == leaseEpoch = e /\ leaseUntil > t

\* Fault: the upsert takes an unexpired lease of another epoch.
ClaimUnexpired(e) == TRUE

\* The upsert takes the row when it is absent, when the claimant already has
\* it, or when another epoch's lease had expired at the claimant's reading.
ClaimLease(e) ==
    \/ leaseEpoch = NoEpoch
    \/ leaseEpoch = e
    \/ leaseUntil <= readAt[e]

Tick ==
    /\ now < MaxTime
    /\ now' = now + 1
    /\ UNCHANGED <<leaseEpoch, leaseUntil, phase, readAt, renewedAt, claimed>>

\* ClaimAndRecover reads the clock and waits for the write lock.
BeginClaim(e) ==
    /\ phase[e] = "new"
    /\ phase' = [phase EXCEPT ![e] = "claiming"]
    /\ readAt' = [readAt EXCEPT ![e] = now]
    /\ UNCHANGED <<now, leaseEpoch, leaseUntil, renewedAt, claimed>>

\* The claim transaction commits: the row was taken and the closing Assert,
\* which reads the clock again, found the new lease unexpired.
CommitClaim(e) ==
    /\ phase[e] = "claiming"
    /\ ClaimLease(e)
    /\ readAt[e] + Lease > now
    /\ leaseEpoch' = e
    /\ leaseUntil' = readAt[e] + Lease
    /\ phase' = [phase EXCEPT ![e] = "starting"]
    /\ claimed' = claimed \cup {e}
    /\ UNCHANGED <<now, readAt, renewedAt>>

\* The claim is refused or its transaction rolls back; the process exits.
FailClaim(e) ==
    /\ phase[e] = "claiming"
    /\ ~ClaimLease(e) \/ readAt[e] + Lease <= now
    /\ phase' = [phase EXCEPT ![e] = "stopped"]
    /\ UNCHANGED <<now, leaseEpoch, leaseUntil, readAt, renewedAt, claimed>>

\* The heartbeat goroutine of a runtime starts and dates the claim.
StartHeartbeat(e) ==
    /\ e \in Runtimes
    /\ phase[e] = "starting"
    /\ phase' = [phase EXCEPT ![e] = "ready"]
    /\ renewedAt' = [renewedAt EXCEPT ![e] = now]
    /\ UNCHANGED <<now, leaseEpoch, leaseUntil, readAt, claimed>>

\* A heartbeat fires; Renew reads the clock.
BeginRenew(e) ==
    /\ phase[e] = "ready"
    /\ phase' = [phase EXCEPT ![e] = "renewing"]
    /\ readAt' = [readAt EXCEPT ![e] = now]
    /\ UNCHANGED <<now, leaseEpoch, leaseUntil, renewedAt, claimed>>

\* The renewal UPDATE matches the row; evidence reclamation is next.
CommitRenew(e) ==
    /\ phase[e] = "renewing"
    /\ HoldsLease(e, readAt[e])
    /\ leaseUntil' = readAt[e] + Lease
    /\ phase' = [phase EXCEPT ![e] = "reclaiming"]
    /\ UNCHANGED <<now, leaseEpoch, readAt, renewedAt, claimed>>

\* Reclamation succeeds and the heartbeat dates the renewal.
RecordRenewal(e) ==
    /\ phase[e] = "reclaiming"
    /\ phase' = [phase EXCEPT ![e] = "ready"]
    /\ renewedAt' = [renewedAt EXCEPT ![e] = now]
    /\ UNCHANGED <<now, leaseEpoch, leaseUntil, readAt, claimed>>

\* Fault: the heartbeat retries for ever.
RetryForEver(e) == "ready"
\* LeaseLapsed: the heartbeat gives up after a whole lease without a renewal.
AfterFailedRenewal(e) == IF now - renewedAt[e] >= Lease THEN "lost" ELSE "ready"

\* The renewal matches no row or errors, or the reclamation after it errors:
\* the heartbeat retries until the lease has lapsed.
FailRenew(e) ==
    /\ phase[e] \in {"renewing", "reclaiming"}
    /\ phase' = [phase EXCEPT ![e] = AfterFailedRenewal(e)]
    /\ UNCHANGED <<now, leaseEpoch, leaseUntil, readAt, renewedAt, claimed>>

\* Close stops the heartbeat first, then expires the row if it is still its
\* own; an operator command does the same when its change is done.
Release(e) ==
    /\ phase[e] \in {"starting", "ready", "lost"}
    /\ phase' = [phase EXCEPT ![e] = "stopped"]
    /\ leaseUntil' = IF leaseEpoch = e THEN now ELSE leaseUntil
    /\ UNCHANGED <<now, leaseEpoch, readAt, renewedAt, claimed>>

\* The process dies at any point and leaves the row as it is.
Crash(e) ==
    /\ phase[e] # "stopped"
    /\ phase' = [phase EXCEPT ![e] = "stopped"]
    /\ UNCHANGED <<now, leaseEpoch, leaseUntil, readAt, renewedAt, claimed>>

Heartbeat(e) ==
    BeginRenew(e) \/ CommitRenew(e) \/ RecordRenewal(e) \/ FailRenew(e)

Next ==
    \/ Tick
    \/ \E e \in Epochs :
        \/ BeginClaim(e) \/ CommitClaim(e) \/ FailClaim(e)
        \/ StartHeartbeat(e) \/ Heartbeat(e)
        \/ Release(e) \/ Crash(e)

Spec == Init /\ [][Next]_vars

\* The clock advances and the heartbeat goroutine of a live process is
\* scheduled: time.NewTicker keeps firing until the loop returns.
Fairness ==
    /\ WF_vars(Tick)
    /\ \A e \in Runtimes : WF_vars(StartHeartbeat(e)) /\ WF_vars(Heartbeat(e))

FairSpec == Spec /\ Fairness

-----------------------------------------------------------------------------
(* Properties *)

\* The lease row under its processes implements the write fence: ownership
\* passes only from an expired lease, every commit of a claim is unexpired,
\* and a displaced epoch never holds the lease again (claimOwnerLeaseSQL with
\* the closing Assert of claimAndRecover).
Fence == INSTANCE OwnerFence WITH
            owner   <- leaseEpoch,
            valid   <- leaseUntil > now,
            retired <- claimed \ {leaseEpoch}

ImplementsFence == Fence!OwnerSpec

\* Why the row can be trusted across the gap between a clock reading and its
\* transaction: the recorded owner has claimed, a process claims at most once,
\* no reading is ahead of the clock, and a row nobody wrote is expired.
OwnershipInv ==
    /\ leaseEpoch \in claimed \cup {NoEpoch}
    /\ leaseEpoch = NoEpoch => leaseUntil = 0
    /\ \A e \in Epochs :
        /\ phase[e] \in {"new", "claiming"} => e \notin claimed
        /\ readAt[e] <= now

\* Service.Ready() answers nil: the process still serves.
Serving(e) == phase[e] \in {"starting", "ready", "renewing", "reclaiming"}

\* A runtime whose lease another epoch took stops serving: the heartbeat
\* notices within a lease of its last renewal (renewOrLoseLease), unless the
\* bounded clock ends first.
DisplacedStopsServing ==
    \A e \in Runtimes :
        (e \in claimed /\ leaseEpoch # e)
            ~> (~Serving(e) \/ renewedAt[e] + Lease > MaxTime)

-----------------------------------------------------------------------------
(* Proofs: the owner lease implements the write fence for every set of     *)
(* processes, every lease duration and every clock.                        *)

\* The inductive invariant: types and the discipline of claims.
IInv == TypeOK /\ OwnershipInv

LEMMA InitIInv == Init => IInv
  BY EpochAssumption DEF Init, IInv, TypeOK, OwnershipInv, Phases

\* Every step of the clock, of a process or of the row keeps the invariant.
LEMMA StepIInv == IInv /\ [Next]_vars => IInv'
  <1> SUFFICES ASSUME IInv, [Next]_vars PROVE IInv'
    OBVIOUS
  <1> USE LeaseAssumption, MaxTimeAssumption, EpochAssumption
        DEF IInv, TypeOK, OwnershipInv, Phases
  <1>1. CASE Tick
    BY <1>1 DEF Tick
  <1>2. ASSUME NEW e \in Epochs, BeginClaim(e) PROVE IInv'
    BY <1>2 DEF BeginClaim
  <1>3. ASSUME NEW e \in Epochs, CommitClaim(e) PROVE IInv'
    BY <1>3 DEF CommitClaim
  <1>4. ASSUME NEW e \in Epochs, FailClaim(e) PROVE IInv'
    BY <1>4 DEF FailClaim
  <1>5. ASSUME NEW e \in Epochs, StartHeartbeat(e) PROVE IInv'
    BY <1>5 DEF StartHeartbeat
  <1>6. ASSUME NEW e \in Epochs, BeginRenew(e) PROVE IInv'
    BY <1>6 DEF BeginRenew
  <1>7. ASSUME NEW e \in Epochs, CommitRenew(e) PROVE IInv'
    BY <1>7 DEF CommitRenew, HoldsLease
  <1>8. ASSUME NEW e \in Epochs, RecordRenewal(e) PROVE IInv'
    BY <1>8 DEF RecordRenewal
  <1>9. ASSUME NEW e \in Epochs, FailRenew(e) PROVE IInv'
    BY <1>9 DEF FailRenew, AfterFailedRenewal
  <1>10. ASSUME NEW e \in Epochs, Release(e) PROVE IInv'
    BY <1>10 DEF Release
  <1>11. ASSUME NEW e \in Epochs, Crash(e) PROVE IInv'
    BY <1>11 DEF Crash
  <1>12. CASE UNCHANGED vars
    BY <1>12 DEF vars
  <1> QED
    BY <1>1, <1>2, <1>3, <1>4, <1>5, <1>6, <1>7, <1>8, <1>9, <1>10, <1>11,
       <1>12 DEF Next, Heartbeat

\* The lease row is always well typed: claims, renewals, releases and crashes
\* leave runtime_owner and every process in a state the code names.
THEOREM TypeCorrect == Spec => []TypeOK
  <1>1. IInv => TypeOK
    BY DEF IInv
  <1> QED
    BY InitIInv, StepIInv, <1>1, PTL DEF Spec

\* The discipline of claims holds in every reachable state, for every lease
\* duration: a clock reading taken before a transaction is never ahead of it.
THEOREM OwnershipCorrect == Spec => []OwnershipInv
  <1>1. IInv => OwnershipInv
    BY DEF IInv
  <1> QED
    BY InitIInv, StepIInv, <1>1, PTL DEF Spec

\* A claim commits only over an expired lease and is itself unexpired.
LEMMA ClaimIsTake ==
  ASSUME IInv, NEW e \in Epochs, CommitClaim(e)
  PROVE  Fence!Take(e)
  <1> USE LeaseAssumption, EpochAssumption
        DEF IInv, TypeOK, OwnershipInv, CommitClaim, ClaimLease
  <1>1. e \notin claimed
    OBVIOUS
  <1>2. leaseEpoch = e \/ ~(leaseUntil > now)
    OBVIOUS
  <1>3. leaseUntil' > now'
    OBVIOUS
  <1>4. claimed' \ {leaseEpoch'}
          = (claimed \ {leaseEpoch}) \cup ({leaseEpoch} \ {e, NoEpoch})
    OBVIOUS
  <1> QED
    BY <1>1, <1>2, <1>3, <1>4 DEF Fence!Take

\* A renewal prolongs the lease it already has, or leaves it expired.
LEMMA RenewIsTakeOrLapse ==
  ASSUME IInv, NEW e \in Epochs, CommitRenew(e)
  PROVE  [Fence!OwnerNext]_(Fence!ownerVars)
  <1> USE LeaseAssumption, EpochAssumption
        DEF IInv, TypeOK, OwnershipInv, CommitRenew, HoldsLease
  <1>1. CASE leaseUntil' > now'
    <2>1. (leaseUntil' > now') = TRUE
      BY <1>1
    <2> QED
      BY <1>1, <2>1 DEF Fence!Take, Fence!OwnerNext
  <1>2. CASE ~(leaseUntil' > now')
    <2>1. (leaseUntil' > now') = FALSE
      BY <1>2
    <2> QED
      BY <2>1 DEF Fence!Lapse, Fence!OwnerNext, Fence!ownerVars
  <1> QED
    BY <1>1, <1>2

LEMMA InitFence == Init => Fence!OwnerInit
  BY DEF Init, Fence!OwnerInit

\* Every step of the detailed lease is a step of the fence or leaves it alone.
LEMMA StepFence == IInv /\ [Next]_vars => [Fence!OwnerNext]_(Fence!ownerVars)
  <1> SUFFICES ASSUME IInv, [Next]_vars
               PROVE  [Fence!OwnerNext]_(Fence!ownerVars)
    OBVIOUS
  <1> USE DEF IInv, TypeOK, OwnershipInv, Fence!ownerVars
  <1>1. CASE Tick
    BY <1>1 DEF Tick, Fence!OwnerNext, Fence!Lapse
  <1>2. ASSUME NEW e \in Epochs, CommitClaim(e)
        PROVE  [Fence!OwnerNext]_(Fence!ownerVars)
    BY <1>2, ClaimIsTake DEF Fence!OwnerNext
  <1>3. ASSUME NEW e \in Epochs, CommitRenew(e)
        PROVE  [Fence!OwnerNext]_(Fence!ownerVars)
    BY <1>3, RenewIsTakeOrLapse
  <1>4. ASSUME NEW e \in Epochs, Release(e)
        PROVE  [Fence!OwnerNext]_(Fence!ownerVars)
    BY <1>4 DEF Release, Fence!OwnerNext, Fence!Lapse
  <1>5. ASSUME NEW e \in Epochs,
               BeginClaim(e) \/ FailClaim(e) \/ StartHeartbeat(e)
                 \/ BeginRenew(e) \/ RecordRenewal(e) \/ FailRenew(e)
                 \/ Crash(e)
        PROVE  [Fence!OwnerNext]_(Fence!ownerVars)
    BY <1>5 DEF BeginClaim, FailClaim, StartHeartbeat, BeginRenew,
                RecordRenewal, FailRenew, Crash
  <1>6. CASE UNCHANGED vars
    BY <1>6 DEF vars
  <1> QED
    BY <1>1, <1>2, <1>3, <1>4, <1>5, <1>6 DEF Next, Heartbeat

\* The lease row, its expiry times and its competing processes implement the
\* write fence: what ClaimAndRecover, Renew and Release may do to the row is
\* what OwnerFence allows, whatever the clock does between their steps.
THEOREM RuntimeOwnerImplementsFence == Spec => ImplementsFence
  <1>1. IInv /\ [Next]_vars => [Fence!OwnerNext]_(Fence!ownerVars)
    BY StepFence
  <1> QED
    BY InitIInv, StepIInv, InitFence, <1>1, PTL
       DEF Spec, ImplementsFence, Fence!OwnerSpec
=============================================================================
