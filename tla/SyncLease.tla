------------------------------ MODULE SyncLease ------------------------------
(***************************************************************************)
(* The per-sync mutual exclusion of sync-sidecar: pods that run the same    *)
(* sync compete for one Kubernetes Lease object.  The admission init        *)
(* container acquires it, the sidecar renews it in the background and       *)
(* deletes it when it ends.                                                 *)
(*                                                                          *)
(* Time is counted in renewal intervals (leaseRenewInterval).  A write of   *)
(* the Lease is conditional on the resourceVersion read before: "outdated"  *)
(* marks a pod whose copy of the object was overwritten or deleted since.   *)
(***************************************************************************)
EXTENDS Naturals

CONSTANTS
    Pods,           \* the pods created for runs of the sync
    NoLease,        \* the Lease object does not exist
    LeaseDuration,  \* leaseDurationSeconds, in renewal intervals
    MaxAttempts,    \* leaseAcquireMaxAttempts
    MaxDelay,       \* intervals a pod may go without a successful renewal
    MaxSkew,        \* how far clocks and request times make a lease look older
    PutAnswers,     \* how the API server may answer the PUT of a Lease deleted meanwhile
    RenewerFails    \* whether a sidecar may come up without a renewer

ASSUME LeaseAssumption ==
    /\ NoLease \notin Pods
    /\ LeaseDuration \in Nat \ {0}
    /\ MaxAttempts \in Nat \ {0}
    /\ MaxDelay \in Nat
    /\ MaxSkew \in Nat
    /\ PutAnswers \subseteq {"conflict", "notFound", "created"}
    /\ RenewerFails \in BOOLEAN

VARIABLES
    holder,    \* spec.holderIdentity of the Lease, or NoLease
    age,       \* intervals since its spec.renewTime
    pc,        \* where each pod is
    tries,     \* attempts made by runLeaseAcquire
    seen,      \* what the last GET of the pod returned, until its write
    since,     \* intervals since the pod's last successful write of the Lease
    lost,      \* pods with leaseLost set
    released,  \* pods with leaseReleased set
    renewers   \* pods whose sidecar has a renewer and its signal handler

vars == <<holder, age, pc, tries, seen, since, lost, released, renewers>>

Init ==
    /\ holder = NoLease /\ age = 0
    /\ pc = [p \in Pods |-> "pending"]
    /\ tries = [p \in Pods |-> 0]
    /\ seen = [p \in Pods |-> "nothing"]
    /\ since = [p \in Pods |-> 0]
    /\ lost = {} /\ released = {} /\ renewers = {}

-----------------------------------------------------------------------------
(* The Lease object *)

LeaseIsStale_OffByOne(skew) == age + skew >= LeaseDuration

(* leaseIsStale, by a clock that is ahead by skew. *)
LeaseIsStale(skew) == age + skew > LeaseDuration

(* The Lease changes: what q has read of it is no longer the current version. *)
Outdated(q) == IF seen[q] \in {"stale", "own"} THEN "outdated" ELSE seen[q]

(* The Lease that p has read and wants to PUT was deleted since. *)
Deleted(p) == seen[p] = "outdated" /\ holder = NoLease

(* A PUT is accepted when it carries the current version, or creates the Lease anew. *)
PutAccepted(p) ==
    seen[p] \in {"stale", "own"} \/ (Deleted(p) /\ "created" \in PutAnswers)

(* A POST is accepted when there is no Lease. *)
WriteAccepted(p) == PutAccepted(p) \/ (seen[p] = "absent" /\ holder = NoLease)

(* The PUT is answered with "not found", which do() does not report as an error. *)
PutNotFound(p) ==
    /\ Deleted(p) /\ "notFound" \in PutAnswers
    /\ seen' = [seen EXCEPT ![p] = "nothing"]
    /\ since' = [since EXCEPT ![p] = 0]
    /\ UNCHANGED <<holder, age, tries, lost, released, renewers>>

(* A POST or PUT of the Lease by p that the API server accepts. *)
Write(p) ==
    /\ holder' = p /\ age' = 0
    /\ seen' = [q \in Pods |-> IF q = p THEN "nothing" ELSE Outdated(q)]

(* Release: an unconditional DELETE; when it fails that is only logged. *)
Release(p) ==
    /\ released' = released \cup {p}
    /\ \/ holder' = NoLease /\ seen' = [q \in Pods |-> Outdated(q)]
       \/ UNCHANGED <<holder, seen>>
    /\ UNCHANGED age

-----------------------------------------------------------------------------
(* The admission init container: runLeaseAcquire and Acquire *)

(* The CronJob or ReadHandler creates a pod of the sync.  ReadHandler refuses *)
(* to while IsSyncLeaseHeld, a CronJob does not ask.                           *)
CreatePod(p) ==
    /\ pc[p] = "pending"
    /\ pc' = [pc EXCEPT ![p] = "acquire"]
    /\ UNCHANGED <<holder, age, tries, seen, since, lost, released, renewers>>

LastAttempt_Exceeded(p) == tries[p] = MaxAttempts

LastAttempt(p) == tries[p] + 1 = MaxAttempts

(* An attempt failed: after the last one the init container gives up. *)
Retry(p) ==
    /\ tries' = [tries EXCEPT ![p] = @ + 1]
    /\ pc' = IF LastAttempt(p) THEN [pc EXCEPT ![p] = "ended"] ELSE pc

(* GET of the Lease: absent or stale, and p goes on to write it; held, or an error. *)
AcquireGet(p) ==
    /\ pc[p] = "acquire" /\ seen[p] = "nothing"
    /\ \/ /\ holder = NoLease
          /\ seen' = [seen EXCEPT ![p] = "absent"]
          /\ UNCHANGED <<pc, tries>>
       \/ /\ holder # NoLease /\ \E k \in 0..MaxSkew : LeaseIsStale(k)
          /\ seen' = [seen EXCEPT ![p] = "stale"]
          /\ UNCHANGED <<pc, tries>>
       \/ Retry(p) /\ UNCHANGED seen
    /\ UNCHANGED <<holder, age, since, lost, released, renewers>>

(* POST or PUT: acquired, or accepted by the server with the answer lost. *)
AcquireWrite(p) ==
    /\ pc[p] = "acquire" /\ WriteAccepted(p)
    /\ Write(p)
    /\ \/ /\ pc' = [pc EXCEPT ![p] = "starting"]
          /\ since' = [since EXCEPT ![p] = 0]
          /\ UNCHANGED tries
       \/ Retry(p) /\ UNCHANGED since
    /\ UNCHANGED <<lost, released, renewers>>

(* Acquire takes "not found" for success: it returns true and no Lease exists. *)
AcquireNotFound(p) ==
    /\ pc[p] = "acquire"
    /\ PutNotFound(p)
    /\ pc' = [pc EXCEPT ![p] = "starting"]

(* The POST or PUT met a conflict, or an error. *)
AcquireRefused(p) ==
    /\ pc[p] = "acquire" /\ seen[p] # "nothing"
    /\ seen' = [seen EXCEPT ![p] = "nothing"]
    /\ Retry(p)
    /\ UNCHANGED <<holder, age, since, lost, released, renewers>>

-----------------------------------------------------------------------------
(* The sidecar: startLeaseRenewer, Renew, the signal handlers, ReleaseSyncLease *)

(* The remaining init containers are through and the sidecar runs: with a      *)
(* renewer, or, when its environment is incomplete or no client can be built,  *)
(* "WITHOUT lease renewal".                                                     *)
StartSidecar(p) ==
    /\ pc[p] = "starting"
    /\ pc' = [pc EXCEPT ![p] = "running"]
    /\ \/ renewers' = renewers \cup {p}
       \/ RenewerFails /\ UNCHANGED renewers
    /\ UNCHANGED <<holder, age, tries, seen, since, lost, released>>

Renewing(p) == pc[p] \in {"running", "stopping"} /\ p \in renewers \ lost

HoldsLease_Any(p) == holder # NoLease

(* Renew: the Lease exists and names this pod. *)
HoldsLease(p) == holder = p

(* GET of Renew; an error changes nothing and is tried again. *)
RenewGet(p) ==
    /\ Renewing(p) /\ seen[p] = "nothing"
    /\ IF HoldsLease(p)
       THEN seen' = [seen EXCEPT ![p] = "own"] /\ UNCHANGED lost
       ELSE lost' = lost \cup {p} /\ UNCHANGED seen
    /\ UNCHANGED <<holder, age, pc, tries, since, released, renewers>>

(* PUT of Renew: renewed, or accepted by the server with the answer lost. *)
RenewPut(p) ==
    /\ Renewing(p) /\ PutAccepted(p)
    /\ Write(p)
    /\ since' \in {since, [since EXCEPT ![p] = 0]}
    /\ UNCHANGED <<pc, tries, lost, released, renewers>>

(* So does Renew; the next GET finds out. *)
RenewNotFound(p) == Renewing(p) /\ PutNotFound(p) /\ UNCHANGED pc

(* PUT of Renew refused as a conflict: the lease is lost. *)
RenewConflict(p) ==
    /\ Renewing(p) /\ seen[p] = "outdated"
    /\ seen' = [seen EXCEPT ![p] = "nothing"]
    /\ lost' = lost \cup {p}
    /\ UNCHANGED <<holder, age, pc, tries, since, released, renewers>>

(* PUT of Renew failed: tried again at the next tick. *)
RenewError(p) ==
    /\ Renewing(p) /\ seen[p] \in {"own", "outdated"}
    /\ seen' = [seen EXCEPT ![p] = "nothing"]
    /\ UNCHANGED <<holder, age, pc, tries, since, lost, released, renewers>>

(* SIGTERM: the task was cancelled, or the lease lost and the pod terminated. *)
(* The sidecar closes its pipes and finishes what it is doing; a pod that is   *)
(* not that far just ends.                                                      *)
Terminate(p) ==
    /\ pc[p] \in {"acquire", "starting", "running"}
    /\ pc' = [pc EXCEPT ![p] = IF @ = "running" THEN "stopping" ELSE "ended"]
    /\ UNCHANGED <<holder, age, tries, seen, since, lost, released, renewers>>

(* The SIGTERM handler of startLeaseRenewer releases the lease at once. *)
SignalRelease(p) ==
    /\ pc[p] = "stopping" /\ p \in renewers \ (lost \cup released)
    /\ Release(p)
    /\ UNCHANGED <<pc, tries, since, lost, renewers>>

MustRelease_Again(p) == p \notin lost

(* The early returns of ReleaseSyncLease. *)
MustRelease(p) == p \notin lost \cup released

(* Run returned and the deferred ReleaseSyncLease is called. *)
Finish(p) ==
    /\ pc[p] \in {"running", "stopping"}
    /\ IF MustRelease(p)
       THEN Release(p)
       ELSE UNCHANGED <<holder, age, seen, released>>
    /\ pc' = [pc EXCEPT ![p] = "ended"]
    /\ UNCHANGED <<tries, since, lost, renewers>>

(* The pod ends without releasing: killed, evicted, or os.Exit on an error. *)
Die(p) ==
    /\ pc[p] \in {"acquire", "starting", "running", "stopping"}
    /\ pc' = [pc EXCEPT ![p] = "ended"]
    /\ UNCHANGED <<holder, age, tries, seen, since, lost, released, renewers>>

-----------------------------------------------------------------------------
(* p believes to hold the lease. *)
Holding(p) == pc[p] \in {"starting", "running", "stopping"} /\ p \notin lost \cup released

(* p renews its lease, or is still to start the sidecar that will. *)
Kept(p) == Holding(p) /\ (pc[p] = "starting" \/ p \in renewers)

(* An interval passes; no holder with a renewer is later than MaxDelay with its *)
(* renewal (a sidecar without one is any time late).                             *)
Tick ==
    /\ \A p \in Pods : Kept(p) => since[p] < MaxDelay
    /\ age' = IF age <= LeaseDuration THEN age + 1 ELSE age
    /\ since' = [p \in Pods |-> IF Holding(p) /\ since[p] < MaxDelay THEN since[p] + 1 ELSE since[p]]
    /\ UNCHANGED <<holder, pc, tries, seen, lost, released, renewers>>

Acquiring(p) ==
    CreatePod(p) \/ AcquireGet(p) \/ AcquireWrite(p) \/ AcquireNotFound(p) \/ AcquireRefused(p)

Renewal(p) ==
    RenewGet(p) \/ RenewPut(p) \/ RenewNotFound(p) \/ RenewConflict(p) \/ RenewError(p)

Ending(p) == Terminate(p) \/ SignalRelease(p) \/ Finish(p) \/ Die(p)

Next ==
    \/ \E p \in Pods : Acquiring(p) \/ StartSidecar(p) \/ Renewal(p) \/ Ending(p)
    \/ Tick

Spec == Init /\ [][Next]_vars

(***************************************************************************)
(* The renewer's ticker fires for ever and its calls are answered some day;  *)
(* the kubelet terminates a pod whose sidecar has asked for it.               *)
(***************************************************************************)
Fairness == \A p \in Pods :
    /\ WF_vars(RenewGet(p))
    /\ WF_vars(RenewPut(p) \/ RenewNotFound(p) \/ RenewConflict(p))
    /\ WF_vars(p \in lost /\ Terminate(p))

FairSpec == Spec /\ Fairness

-----------------------------------------------------------------------------
(* Properties *)

(* The type invariant of the lease protocol. *)
TypeOK ==
    /\ holder \in Pods \cup {NoLease}
    /\ age \in 0..(LeaseDuration + 1)
    /\ pc \in [Pods -> {"pending", "acquire", "starting", "running", "stopping", "ended"}]
    /\ tries \in [Pods -> 0..MaxAttempts]
    /\ seen \in [Pods -> {"nothing", "absent", "stale", "own", "outdated"}]
    /\ since \in [Pods -> 0..MaxDelay]
    /\ lost \subseteq Pods /\ released \subseteq Pods /\ renewers \subseteq Pods

(* Renewals are never so late that a lease looks stale while its holder lives. *)
Timely == MaxDelay + MaxSkew <= LeaseDuration

(* No two pods run the sync at the same time: a pod whose sidecar starts or    *)
(* runs, and has not been told to stop, is alone, whatever the other pods       *)
(* acquire, give up, cancel or release in between.  It takes timely renewals,    *)
(* and so a renewer in every sidecar: RenewerFails refutes it.                   *)
OneRun ==
    \A p, q \in Pods :
        pc[p] \in {"starting", "running"} /\ pc[q] \in {"starting", "running"} => p = q

(* A pod's lease is neither taken over nor deleted by another pod while the    *)
(* pod relies on it: it changes hands only after the holder let it go.          *)
LeaseKept ==
    [][holder # NoLease /\ Holding(holder) /\ holder' # holder => holder \in released']_vars

(* A lease is deleted by the pod that holds it: ReleaseSyncLease must not       *)
(* "delete a lease that another pod has since taken over".                      *)
ReleasesOwnLease ==
    [][holder # NoLease /\ holder' = NoLease => holder \in released']_vars

(* The lease is a mutex for the sync's read phase: two sidecars, one of them    *)
(* perhaps finishing after a SIGTERM, never read and load the sync together.    *)
ReadPhaseExclusive ==
    \A p, q \in Pods :
        pc[p] \in {"running", "stopping"} /\ pc[q] \in {"running", "stopping"} => p = q

(* A pod that was too late and lost its lease, or never had it, does not run on *)
(* without: its renewer finds out and terminates the pod, or gets the lease.    *)
(* A sidecar that came up without a renewer is the exception: it never asks.    *)
UsurpedPodStops ==
    \A p \in Pods : p \in renewers /\ pc[p] = "running" /\ holder # p
                       ~> pc[p] # "running" \/ holder = p
=============================================================================
