--------------------------- MODULE SyncLease_proofs ---------------------------
(***************************************************************************)
(* Proofs about SyncLease, for any number of pods and any durations: the    *)
(* type invariant, and, when renewals are timely, that two pods never run    *)
(* the sync together and that no pod loses the lease it relies on.           *)
(***************************************************************************)
EXTENDS SyncLease, TLAPS

(* Where a pod may be. *)
Places == {"pending", "acquire", "starting", "running", "stopping", "ended"}

(* A pod that still acquires has attempts left. *)
TypeInv ==
    /\ TypeOK
    /\ \A p \in Pods : pc[p] \in {"pending", "acquire"} => tries[p] < MaxAttempts

(* A pod that relies on the lease holds it, and its copy of the Lease is current. *)
HolderInv ==
    \A p \in Pods : Holding(p) => /\ holder = p
                                  /\ age <= since[p]
                                  /\ seen[p] \in {"nothing", "own"}

(* Who has read a stale Lease, in a version still current, overwrites nobody's. *)
StaleInv == \A q \in Pods : seen[q] = "stale" => \A p \in Pods : ~Holding(p)

(* Who has read its own Lease, in a version still current, holds it. *)
OwnInv == \A q \in Pods : seen[q] = "own" => holder = q

(* No pod that runs, or may still run, has lost or released the lease. *)
ActiveInv ==
    \A p \in Pods : pc[p] \in {"pending", "acquire", "starting", "running"}
                        => p \notin lost \cup released

(* Every sidecar that runs has its renewer. *)
RenewerInv == \A p \in Pods : pc[p] \in {"running", "stopping"} => p \in renewers

(* The API server does not answer "not found" to a PUT. *)
NeverNotFound == "notFound" \notin PutAnswers

(* No sidecar comes up without its renewer. *)
AlwaysRenewed == ~RenewerFails

(* The inductive invariant. *)
LeaseInv == HolderInv /\ StaleInv /\ OwnInv /\ ActiveInv

-----------------------------------------------------------------------------
(* The type invariant holds initially. *)
LEMMA TypeInit == Init => TypeInv
BY LeaseAssumption DEF Init, TypeInv, TypeOK

(* The type invariant is preserved by every step. *)
LEMMA TypeStep == TypeInv /\ [Next]_vars => TypeInv'
<1> SUFFICES ASSUME TypeInv, [Next]_vars PROVE TypeInv'
  OBVIOUS
<1>1. ASSUME NEW p \in Pods, pc[p] = "acquire", Retry(p)
      PROVE  /\ tries' \in [Pods -> 0..MaxAttempts]
             /\ pc' \in [Pods -> Places]
             /\ \A q \in Pods : pc'[q] \in {"pending", "acquire"} => tries'[q] < MaxAttempts
  <2>1. tries[p] + 1 <= MaxAttempts /\ tries[p] \in Nat
    BY <1>1, LeaseAssumption DEF TypeInv, TypeOK
  <2>2. tries'[p] = tries[p] + 1 /\ \A q \in Pods : q # p => tries'[q] = tries[q]
    BY <1>1 DEF Retry, TypeInv, TypeOK
  <2>3. tries' \in [Pods -> 0..MaxAttempts]
    BY <1>1, <2>1, LeaseAssumption DEF Retry, TypeInv, TypeOK
  <2>4. pc' \in [Pods -> Places] /\ \A q \in Pods : q # p => pc'[q] = pc[q]
    BY <1>1 DEF Retry, TypeInv, TypeOK, Places
  <2>5. pc'[p] = "acquire" => tries'[p] < MaxAttempts
    BY <1>1, <2>1, <2>2, LeaseAssumption DEF Retry, LastAttempt, TypeInv, TypeOK
  <2>6. pc'[p] \in {"acquire", "ended"}
    BY <1>1 DEF Retry, TypeInv, TypeOK
  <2> QED
    BY <2>2, <2>3, <2>4, <2>5, <2>6 DEF TypeInv
<1>2. ASSUME NEW p \in Pods, CreatePod(p) PROVE TypeInv'
  BY <1>2 DEF CreatePod, TypeInv, TypeOK
<1>3. ASSUME NEW p \in Pods, AcquireGet(p) PROVE TypeInv'
  <2>1. UNCHANGED <<holder, age, since, lost, released, renewers>> /\ pc[p] = "acquire"
    BY <1>3 DEF AcquireGet
  <2>2. seen' \in [Pods -> {"nothing", "absent", "stale", "own", "outdated"}]
    BY <1>3 DEF AcquireGet, TypeInv, TypeOK
  <2>3. Retry(p) \/ UNCHANGED <<pc, tries>>
    BY <1>3 DEF AcquireGet
  <2> QED
    BY <1>1, <2>1, <2>2, <2>3 DEF TypeInv, TypeOK, Places
<1>4. ASSUME NEW p \in Pods, AcquireWrite(p) PROVE TypeInv'
  <2>1. UNCHANGED <<lost, released, renewers>> /\ pc[p] = "acquire" /\ holder' = p /\ age' = 0
    BY <1>4 DEF AcquireWrite, Write
  <2>2. seen' \in [Pods -> {"nothing", "absent", "stale", "own", "outdated"}]
    BY <1>4 DEF AcquireWrite, Write, Outdated, TypeInv, TypeOK
  <2>3. since' \in [Pods -> 0..MaxDelay]
    BY <1>4, LeaseAssumption DEF AcquireWrite, TypeInv, TypeOK
  <2>4. Retry(p) \/ (pc' = [pc EXCEPT ![p] = "starting"] /\ UNCHANGED tries)
    BY <1>4 DEF AcquireWrite
  <2>5. age' \in 0..(LeaseDuration + 1)
    BY <2>1, LeaseAssumption
  <2> QED
    BY <1>1, <2>1, <2>2, <2>3, <2>4, <2>5 DEF TypeInv, TypeOK, Places
<1>5. ASSUME NEW p \in Pods, AcquireRefused(p) PROVE TypeInv'
  BY <1>1, <1>5 DEF AcquireRefused, TypeInv, TypeOK, Places
<1>6. ASSUME NEW p \in Pods, StartSidecar(p) \/ Terminate(p) \/ Die(p) PROVE TypeInv'
  BY <1>6 DEF StartSidecar, Terminate, Die, TypeInv, TypeOK
<1>7. ASSUME NEW p \in Pods, RenewGet(p) \/ RenewConflict(p) \/ RenewError(p) PROVE TypeInv'
  BY <1>7 DEF RenewGet, RenewConflict, RenewError, TypeInv, TypeOK
<1>8. ASSUME NEW p \in Pods, RenewPut(p) PROVE TypeInv'
  <2>1. /\ UNCHANGED <<pc, tries, lost, released, renewers>> /\ holder' = p
        /\ age' \in 0..(LeaseDuration + 1)
    BY <1>8, LeaseAssumption DEF RenewPut, Write
  <2>2. seen' \in [Pods -> {"nothing", "absent", "stale", "own", "outdated"}]
    BY <1>8 DEF RenewPut, Write, Outdated, TypeInv, TypeOK
  <2>3. since' \in [Pods -> 0..MaxDelay]
    BY <1>8, LeaseAssumption DEF RenewPut, TypeInv, TypeOK
  <2> QED
    BY <2>1, <2>2, <2>3 DEF TypeInv, TypeOK
<1>9. ASSUME NEW p \in Pods, SignalRelease(p) \/ Finish(p) PROVE TypeInv'
  <2>1. Release(p) \/ UNCHANGED <<holder, age, seen, released>>
    BY <1>9 DEF SignalRelease, Finish
  <2>2. /\ holder' \in Pods \cup {NoLease} /\ age' = age /\ released' \subseteq Pods
        /\ seen' \in [Pods -> {"nothing", "absent", "stale", "own", "outdated"}]
    BY <2>1 DEF Release, Outdated, TypeInv, TypeOK
  <2>3. UNCHANGED <<tries, since, lost, renewers>> /\ pc' \in {pc, [pc EXCEPT ![p] = "ended"]}
    BY <1>9 DEF SignalRelease, Finish
  <2> QED
    BY <2>2, <2>3 DEF TypeInv, TypeOK
<1>10. CASE Tick
  <2>1. age' \in 0..(LeaseDuration + 1)
    BY <1>10, LeaseAssumption DEF Tick, TypeInv, TypeOK
  <2>2. since' \in [Pods -> 0..MaxDelay]
    BY <1>10, LeaseAssumption DEF Tick, TypeInv, TypeOK
  <2> QED
    BY <1>10, <2>1, <2>2 DEF Tick, TypeInv, TypeOK
<1>11. CASE UNCHANGED vars
  BY <1>11 DEF vars, TypeInv, TypeOK
<1>12. ASSUME NEW p \in Pods, PutNotFound(p),
               UNCHANGED pc \/ pc' = [pc EXCEPT ![p] = "starting"]
       PROVE  TypeInv'
  <2>1. since' \in [Pods -> 0..MaxDelay]
    BY <1>12, LeaseAssumption DEF PutNotFound, TypeInv, TypeOK
  <2> QED
    BY <1>12, <2>1 DEF PutNotFound, TypeInv, TypeOK
<1> QED
  BY <1>2, <1>3, <1>4, <1>5, <1>6, <1>7, <1>8, <1>9, <1>10, <1>11, <1>12
  DEF Next, Acquiring, Renewal, Ending, AcquireNotFound, RenewNotFound

(* The lease protocol's state has its type in every reachable state. *)
THEOREM LeaseTypeCorrect == Spec => []TypeOK
<1>1. TypeInv => TypeOK
  BY DEF TypeInv
<1> QED
  BY <1>1, TypeInit, TypeStep, PTL DEF Spec

-----------------------------------------------------------------------------
(* The inductive invariant holds initially. *)
LEMMA LeaseInit == Init => LeaseInv
BY DEF Init, LeaseInv, HolderInv, StaleInv, OwnInv, ActiveInv, Holding

(* Every sidecar has its renewer initially: none runs. *)
LEMMA RenewerInit == Init => RenewerInv
BY DEF Init, RenewerInv

(* A sidecar that starts has its renewer, and no step takes it away. *)
LEMMA RenewerStep == ASSUME AlwaysRenewed, TypeInv, RenewerInv, [Next]_vars PROVE RenewerInv'
<1>1. ASSUME NEW p \in Pods, StartSidecar(p) PROVE RenewerInv'
  BY <1>1 DEF StartSidecar, AlwaysRenewed, RenewerInv, TypeInv, TypeOK
<1>2. ASSUME NEW p \in Pods, Acquiring(p) PROVE RenewerInv'
  BY <1>2 DEF Acquiring, CreatePod, AcquireGet, AcquireWrite, AcquireNotFound, PutNotFound,
         AcquireRefused, Retry, RenewerInv, TypeInv, TypeOK
<1>3. ASSUME NEW p \in Pods, Renewal(p) PROVE RenewerInv'
  BY <1>3 DEF Renewal, RenewGet, RenewPut, RenewNotFound, PutNotFound, RenewConflict,
         RenewError, RenewerInv
<1>4. ASSUME NEW p \in Pods, Ending(p) PROVE RenewerInv'
  BY <1>4 DEF Ending, Terminate, SignalRelease, Finish, Die, RenewerInv, TypeInv, TypeOK
<1>5. CASE Tick \/ UNCHANGED vars
  BY <1>5 DEF Tick, vars, RenewerInv
<1> QED
  BY <1>1, <1>2, <1>3, <1>4, <1>5 DEF Next

(* The steps of a pod that does not hold the lease yet, but for the write. *)
LEMMA AcquiringStep ==
    ASSUME Timely, TypeInv, LeaseInv, NEW p \in Pods,
           CreatePod(p) \/ AcquireGet(p) \/ AcquireRefused(p)
    PROVE  LeaseInv'
<1>1. /\ pc[p] \in {"pending", "acquire"} /\ pc'[p] \in {"acquire", "ended"}
      /\ \A q \in Pods : q # p => pc'[q] = pc[q] /\ seen'[q] = seen[q]
      /\ UNCHANGED <<holder, age, since, lost, released>>
  BY DEF CreatePod, AcquireGet, AcquireRefused, Retry, TypeInv, TypeOK
<1>2. \A q \in Pods : Holding(q)' => q # p /\ Holding(q)
  BY <1>1 DEF Holding
<1>3. HolderInv'
  BY <1>1, <1>2 DEF LeaseInv, HolderInv
<1>4. seen'[p] = "stale" /\ seen[p] # "stale" => \A q \in Pods : ~Holding(q)
  <2> SUFFICES ASSUME seen'[p] = "stale", seen[p] # "stale", NEW q \in Pods, Holding(q)
               PROVE  FALSE
    OBVIOUS
  <2>1. PICK k \in 0..MaxSkew : LeaseIsStale(k)
    BY DEF CreatePod, AcquireGet, AcquireRefused, TypeInv, TypeOK
  <2>2. age <= since[q] /\ since[q] <= MaxDelay /\ age \in Nat /\ since[q] \in Nat
    BY LeaseAssumption DEF LeaseInv, HolderInv, TypeInv, TypeOK
  <2> QED
    BY <2>1, <2>2, LeaseAssumption DEF LeaseIsStale, Timely
<1>5. StaleInv'
  BY <1>1, <1>2, <1>4 DEF LeaseInv, StaleInv
<1>6. seen'[p] = "own" => seen[p] = "own"
  BY DEF CreatePod, AcquireGet, AcquireRefused, TypeInv, TypeOK
<1>7. OwnInv'
  BY <1>1, <1>6 DEF LeaseInv, OwnInv
<1>8. ActiveInv'
  BY <1>1 DEF LeaseInv, ActiveInv
<1> QED
  BY <1>3, <1>5, <1>7, <1>8 DEF LeaseInv

(* The write that acquires the lease meets no pod that relies on it. *)
LEMMA AcquireWriteStep ==
    ASSUME TypeInv, LeaseInv, NEW p \in Pods, AcquireWrite(p)
    PROVE  LeaseInv' /\ \A q \in Pods : ~Holding(q)
<1>1. \A q \in Pods : ~Holding(q)
  <2>1. seen[p] = "stale" \/ holder = NoLease \/ seen[p] = "own"
    BY DEF AcquireWrite, WriteAccepted, PutAccepted, Deleted
  <2>2. CASE seen[p] = "stale"
    BY <2>2 DEF LeaseInv, StaleInv
  <2>3. CASE holder = NoLease
    BY <2>3, LeaseAssumption DEF LeaseInv, HolderInv
  <2>4. CASE seen[p] = "own"
    <3>1. holder = p /\ pc[p] = "acquire"
      BY <2>4 DEF LeaseInv, OwnInv, AcquireWrite
    <3> QED
      BY <3>1 DEF LeaseInv, HolderInv, Holding
  <2> QED
    BY <2>1, <2>2, <2>3, <2>4
<1>2. /\ pc[p] = "acquire" /\ pc'[p] \in {"starting", "acquire", "ended"}
      /\ \A q \in Pods : q # p => pc'[q] = pc[q]
      /\ holder' = p /\ age' = 0 /\ UNCHANGED <<lost, released>>
      /\ since'[p] \in Nat
  BY LeaseAssumption DEF AcquireWrite, Write, Retry, TypeInv, TypeOK
<1>3. /\ seen'[p] = "nothing"
      /\ \A q \in Pods : seen'[q] # "stale" /\ seen'[q] # "own"
  BY DEF AcquireWrite, Write, Outdated
<1>4. \A q \in Pods : Holding(q)' => q = p
  BY <1>1, <1>2 DEF Holding
<1>5. HolderInv'
  BY <1>2, <1>3, <1>4 DEF HolderInv
<1>6. StaleInv' /\ OwnInv'
  BY <1>3 DEF StaleInv, OwnInv
<1>7. ActiveInv'
  BY <1>2 DEF LeaseInv, ActiveInv
<1> QED
  BY <1>1, <1>5, <1>6, <1>7 DEF LeaseInv

(* The renewer's steps: a running pod is never found to have lost the lease. *)
LEMMA RenewalStep ==
    ASSUME NeverNotFound, TypeInv, LeaseInv, NEW p \in Pods, Renewal(p)
    PROVE  LeaseInv' /\ (holder # NoLease /\ Holding(holder) => holder' = holder)
<1>1. /\ pc[p] \in {"running", "stopping"} /\ p \notin lost
      /\ UNCHANGED <<pc, released>> /\ p \in Pods
  BY DEF Renewal, RenewGet, RenewPut, RenewNotFound, PutNotFound, RenewConflict, RenewError,
         Renewing
<1>2. CASE RenewGet(p)
  <2>1. CASE holder = p
    <3>1. /\ UNCHANGED <<holder, age, pc, since, lost, released>>
          /\ seen'[p] = "own" /\ \A q \in Pods : q # p => seen'[q] = seen[q]
      BY <1>2, <2>1 DEF RenewGet, HoldsLease, TypeInv, TypeOK
    <3>2. \A q \in Pods : Holding(q)' = Holding(q)
      BY <3>1 DEF Holding
    <3> QED
      BY <2>1, <3>1, <3>2 DEF LeaseInv, HolderInv, StaleInv, OwnInv, ActiveInv
  <2>2. CASE holder # p
    <3>1. UNCHANGED <<holder, age, pc, seen, since, released>> /\ lost' = lost \cup {p}
      BY <1>2, <2>2 DEF RenewGet, HoldsLease
    <3>2. pc[p] # "running"
      BY <1>1, <2>2 DEF LeaseInv, HolderInv, ActiveInv, Holding
    <3>3. \A q \in Pods : Holding(q)' => Holding(q)
      BY <3>1 DEF Holding
    <3> QED
      BY <1>1, <3>1, <3>2, <3>3 DEF LeaseInv, HolderInv, StaleInv, OwnInv, ActiveInv
  <2> QED
    BY <2>1, <2>2
<1>3. CASE RenewPut(p)
  <2>1. \A q \in Pods : Holding(q) => q = p /\ holder = p
    <3>1. seen[p] = "stale" \/ seen[p] = "own" \/ holder = NoLease
      BY <1>3 DEF RenewPut, PutAccepted, Deleted
    <3> QED
      BY <3>1, LeaseAssumption DEF LeaseInv, StaleInv, OwnInv, HolderInv
  <2>2. /\ UNCHANGED <<pc, lost, released>> /\ holder' = p /\ age' = 0
        /\ seen'[p] = "nothing" /\ \A q \in Pods : seen'[q] # "stale" /\ seen'[q] # "own"
        /\ since'[p] \in Nat
    BY <1>3, LeaseAssumption DEF RenewPut, Write, Outdated, TypeInv, TypeOK
  <2>3. \A q \in Pods : Holding(q)' => q = p
    BY <2>1, <2>2 DEF Holding
  <2>4. HolderInv'
    BY <2>2, <2>3 DEF HolderInv
  <2>5. StaleInv' /\ OwnInv' /\ ActiveInv'
    BY <2>2 DEF LeaseInv, StaleInv, OwnInv, ActiveInv
  <2> QED
    BY <2>1, <2>2, <2>4, <2>5 DEF LeaseInv, TypeInv, TypeOK
<1>4. CASE RenewConflict(p) \/ RenewError(p)
  <2>1. /\ UNCHANGED <<holder, age, pc, since, released>>
        /\ seen'[p] = "nothing" /\ \A q \in Pods : q # p => seen'[q] = seen[q]
        /\ lost' = lost \/ (seen[p] = "outdated" /\ lost' = lost \cup {p})
    BY <1>4 DEF RenewConflict, RenewError, TypeInv, TypeOK
  <2>2. \A q \in Pods : Holding(q)' => Holding(q)
    BY <2>1 DEF Holding
  <2>3. pc[p] = "running" => seen[p] # "outdated"
    BY <1>1 DEF LeaseInv, HolderInv, ActiveInv, Holding
  <2> QED
    BY <1>1, <2>1, <2>2, <2>3 DEF LeaseInv, HolderInv, StaleInv, OwnInv, ActiveInv
<1>5. ~RenewNotFound(p)
  BY DEF RenewNotFound, PutNotFound, NeverNotFound
<1> QED
  BY <1>2, <1>3, <1>4, <1>5 DEF Renewal, RenewGet, RenewConflict, RenewError

(* The steps that end a pod: it deletes the lease only while it relies on it. *)
LEMMA EndingStep ==
    ASSUME TypeInv, LeaseInv, NEW p \in Pods, Ending(p)
    PROVE  LeaseInv' /\ (Holding(holder) /\ holder' # holder => holder \in released')
<1>1. CASE Terminate(p) \/ Die(p) \/ (Finish(p) /\ ~MustRelease(p))
  <2>1. /\ UNCHANGED <<holder, age, seen, since, lost, released>>
        /\ \A q \in Pods : q # p => pc'[q] = pc[q]
        /\ \/ pc'[p] = "ended"
           \/ pc[p] = "running" /\ pc'[p] = "stopping"
    BY <1>1 DEF Terminate, Die, Finish, TypeInv, TypeOK
  <2>2. \A q \in Pods : Holding(q)' => Holding(q)
    BY <2>1 DEF Holding
  <2> QED
    BY <2>1, <2>2 DEF LeaseInv, HolderInv, StaleInv, OwnInv, ActiveInv
<1>2. CASE SignalRelease(p) \/ (Finish(p) /\ MustRelease(p))
  <2>1. /\ pc[p] \in {"running", "stopping"} /\ p \notin lost \cup released
        /\ Release(p) /\ UNCHANGED <<tries, since, lost>>
        /\ pc'[p] \in {"stopping", "ended"} /\ \A q \in Pods : q # p => pc'[q] = pc[q]
    BY <1>2 DEF SignalRelease, Finish, MustRelease, TypeInv, TypeOK
  <2>2. holder = p
    BY <2>1 DEF Holding, LeaseInv, HolderInv
  <2>3. released' = released \cup {p} /\ age' = age
    BY <2>1 DEF Release
  <2>4. \A q \in Pods : ~Holding(q)'
    BY <2>1, <2>2, <2>3 DEF Holding, LeaseInv, HolderInv
  <2>5. HolderInv' /\ StaleInv'
    BY <2>4 DEF HolderInv, StaleInv
  <2>6. OwnInv'
    BY <2>1 DEF Release, Outdated, LeaseInv, OwnInv
  <2>7. ActiveInv'
    BY <2>1, <2>3 DEF LeaseInv, ActiveInv
  <2> QED
    BY <2>2, <2>3, <2>5, <2>6, <2>7 DEF LeaseInv
<1> QED
  BY <1>1, <1>2 DEF Ending

(* Every step preserves the invariant, and takes the lease from nobody. *)
LEMMA LeaseStep ==
    ASSUME Timely, NeverNotFound, TypeInv, RenewerInv, LeaseInv, [Next]_vars
    PROVE  /\ LeaseInv'
           /\ holder # NoLease /\ Holding(holder) /\ holder' # holder => holder \in released'
<1>1. ASSUME NEW p \in Pods, CreatePod(p) \/ AcquireGet(p) \/ AcquireRefused(p)
      PROVE  LeaseInv' /\ holder' = holder
  <2>1. holder' = holder
    BY <1>1 DEF CreatePod, AcquireGet, AcquireRefused
  <2> QED
    BY <1>1, <2>1, AcquiringStep
<1>2. ASSUME NEW p \in Pods, AcquireWrite(p)
      PROVE  LeaseInv' /\ (holder # NoLease => ~Holding(holder))
  BY <1>2, AcquireWriteStep DEF TypeInv, TypeOK
<1>3. ASSUME NEW p \in Pods, StartSidecar(p) PROVE LeaseInv' /\ holder' = holder
  <2>1. /\ UNCHANGED <<holder, age, seen, since, lost, released>>
        /\ pc[p] = "starting" /\ pc'[p] = "running"
        /\ \A q \in Pods : q # p => pc'[q] = pc[q]
    BY <1>3 DEF StartSidecar, TypeInv, TypeOK
  <2>2. \A q \in Pods : Holding(q)' => Holding(q)
    BY <2>1 DEF Holding
  <2> QED
    BY <2>1, <2>2 DEF LeaseInv, HolderInv, StaleInv, OwnInv, ActiveInv
<1>4. CASE Tick
  <2>1. /\ UNCHANGED <<holder, pc, seen, lost, released>> /\ age' <= age + 1
        /\ \A q \in Pods : Holding(q) => since'[q] = since[q] + 1
        /\ age \in Nat /\ age' \in Nat
    BY <1>4, LeaseAssumption DEF Tick, Kept, Holding, RenewerInv, TypeInv, TypeOK
  <2>2. \A q \in Pods : Holding(q)' = Holding(q) /\ since[q] \in Nat
    BY <2>1, LeaseAssumption DEF Holding, TypeInv, TypeOK
  <2>3. HolderInv'
    BY <2>1, <2>2 DEF LeaseInv, HolderInv
  <2> QED
    BY <2>1, <2>2, <2>3 DEF LeaseInv, StaleInv, OwnInv, ActiveInv
<1>5. CASE UNCHANGED vars
  <2>1. \A q \in Pods : Holding(q)' = Holding(q)
    BY <1>5 DEF vars, Holding
  <2> QED
    BY <1>5, <2>1 DEF vars, LeaseInv, HolderInv, StaleInv, OwnInv, ActiveInv
<1>6. ASSUME NEW p \in Pods PROVE ~AcquireNotFound(p)
  BY DEF AcquireNotFound, PutNotFound, NeverNotFound
<1> QED
  BY <1>1, <1>2, <1>3, <1>4, <1>5, <1>6, RenewalStep, EndingStep DEF Next, Acquiring

(* Two pods never run the sync at the same time, however many pods there are   *)
(* and whatever they do, as long as every sidecar has its renewer, renewals are  *)
(* timely and the API server never answers "not found" to the PUT of a Lease.    *)
THEOREM MutualExclusion ==
    ASSUME Timely, NeverNotFound, AlwaysRenewed PROVE Spec => []OneRun
<1>1. LeaseInv => OneRun
  BY DEF LeaseInv, HolderInv, ActiveInv, Holding, OneRun
<1>2. TypeInv /\ RenewerInv /\ LeaseInv /\ [Next]_vars => RenewerInv' /\ LeaseInv'
  BY LeaseStep, RenewerStep
<1> QED
  BY <1>1, <1>2, TypeInit, TypeStep, RenewerInit, LeaseInit, PTL DEF Spec

(* No pod's lease is taken over or deleted by another pod while it relies on it, *)
(* under the same assumptions.                                                    *)
THEOREM HolderKeepsLease ==
    ASSUME Timely, NeverNotFound, AlwaysRenewed PROVE Spec => LeaseKept
<1>1. TypeInv /\ RenewerInv /\ LeaseInv /\ [Next]_vars => RenewerInv' /\ LeaseInv'
  BY LeaseStep, RenewerStep
<1>2. TypeInv /\ RenewerInv /\ LeaseInv /\ [Next]_vars =>
        [holder # NoLease /\ Holding(holder) /\ holder' # holder => holder \in released']_vars
  BY LeaseStep
<1> QED
  BY <1>1, <1>2, TypeInit, TypeStep, RenewerInit, LeaseInit, PTL DEF Spec, LeaseKept
===============================================================================
