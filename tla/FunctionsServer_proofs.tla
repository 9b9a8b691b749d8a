------------------------ MODULE FunctionsServer_proofs ------------------------
(***************************************************************************)
(* Proofs about FunctionsServer, for any number of workspaces, requests and  *)
(* workers, whatever hangs, dies, times out, is evicted or shut down: the    *)
(* type invariant; that no worker is left running without an owner; that     *)
(* what a live worker owes is on its way, once; and that an eviction cuts    *)
(* off only executions whose client has given up.                            *)
(***************************************************************************)
EXTENDS FunctionsServer, FiniteSetTheorems, SequenceTheorems, TLAPS

-----------------------------------------------------------------------------
(* The inductive invariant.                                                  *)

(* The types of the variables. *)
InMsgs == {Msg("init", None)} \cup [type : {"exec", "proxyResponse"}, exec : Executions]
OutMsgs == {Msg("ready", None)} \cup [type : {"result", "proxyRequest"}, exec : Executions]
Runs == [exec : Executions, calls : Nat, state : {"run", "call"}]
WorkerRecs == [life : Lives, inbox : Seq(InMsgs), outbox : Seq(OutMsgs), running : SUBSET Runs]
Spawns == [worker : Workers \cup {None}, waiters : Seq(Executions)]

ClientType ==
    /\ client \in [Requests -> {"idle", "waiting", "ok", "error", "gone"}]
    /\ waited \in [Requests -> 0 .. ClientTimeout]
    /\ units \in [Requests -> SUBSET Workspaces]
PoolType ==
    /\ pool \in [Workspaces -> Workers \cup {None}] /\ idle \in [Workspaces -> 0 .. (Ttl + 1)]
SpawnType == spawning \in [Workspaces -> Spawns]
DebugType == debugger \in [Requests -> Workers \cup {None}]
WorkerType == worker \in [Workers -> WorkerRecs]
PendingType == pending \in [Workers -> SUBSET Executions]
IoType == io \in [Workers -> SUBSET Executions]
SmallType ==
    /\ process \in {"up", "draining", "closing", "exited"} /\ faults \in 0 .. MaxFaults
    /\ cut \in SUBSET Executions
    /\ DOMAIN targets \in SUBSET Requests /\ \A r \in DOMAIN targets : targets[r] \in SUBSET Workspaces
TypeInv ==
    ClientType /\ PoolType /\ SpawnType /\ DebugType /\ WorkerType /\ PendingType /\ IoType /\ SmallType

(* Who would terminate a worker: the pool, a spawn, or a run of the debugger.  *)
(* No two of them share one, a workspace has one at a time, and one that has    *)
(* not been started has none.                                                   *)
Live(rec) == rec.life \in {"alive", "hung"}
Owned(w) ==
    \/ \E s \in Workspaces : pool[s] = w
    \/ \E s \in Workspaces : spawning[s].worker = w
    \/ \E r \in Requests : debugger[r] = w
OwnAt(w) ==
    /\ \A s, t \in Workspaces : pool[s] = w /\ pool[t] = w => s = t
    /\ \A s, t \in Workspaces : spawning[s].worker = w /\ spawning[t].worker = w => s = t
    /\ \A r, q \in Requests : debugger[r] = w /\ debugger[q] = w => r = q
    /\ \A s, t \in Workspaces : ~(pool[s] = w /\ spawning[t].worker = w)
    /\ \A s \in Workspaces, r \in Requests : ~(pool[s] = w /\ debugger[r] = w)
    /\ \A s \in Workspaces, r \in Requests : ~(spawning[s].worker = w /\ debugger[r] = w)
    /\ Live(worker[w]) => Owned(w)
    /\ worker[w].life = "unused" => ~Owned(w) /\ worker[w] = Unused /\ pending[w] = {}
OwnInv == \A w \in Workers : OwnAt(w)
PlaceInv == \A s \in Workspaces : spawning[s].worker # None => pool[s] = None

(* Executions of the pool belong to requests that were sent, those of the      *)
(* debugger to runs of the debugger.                                           *)
Asked(e) ==
    /\ e[1] \in Requests /\ e[2] \in Workspaces /\ client[e[1]] # "idle"
    /\ e[1] \in DOMAIN targets /\ e[2] \in targets[e[1]]
AskedInv ==
    /\ \A r \in Requests : \A s \in units[r] : r \in DOMAIN targets /\ s \in targets[r]
    /\ \A w \in Workers : \A e \in pending[w] : Asked(e)
    /\ \A s \in Workspaces : \A i \in DOMAIN spawning[s].waiters :
         Asked(spawning[s].waiters[i]) /\ spawning[s].waiters[i][2] = s
    /\ \A r \in Requests : debugger[r] # None =>
         /\ r \in DOMAIN targets /\ targets[r] = {}
         /\ process # "exited" => client[r] \in {"waiting", "gone"}

(* A worker was used no longer ago than the clients it works for have waited.  *)
AgeInv ==
    \A s \in Workspaces : pool[s] # None =>
        \A e \in pending[pool[s]] : client[e[1]] = "waiting" => idle[s] <= waited[e[1]]
CutInv == \A e \in cut : client[e[1]] \notin {"idle", "waiting"}

(* Nobody awaits a spawn twice, or awaits a spawn and a worker. *)
WaitInv ==
    \A s \in Workspaces :
        /\ \A i, j \in DOMAIN spawning[s].waiters : spawning[s].waiters[i] = spawning[s].waiters[j] => i = j
        /\ \A i \in DOMAIN spawning[s].waiters : \A w \in Workers : spawning[s].waiters[i] \notin pending[w]

(* Where an execution is in a worker: on its way there, run, on its way back;   *)
(* at one place, as long as it is owed.                                         *)
Inbound(rec, e, i) == i \in DOMAIN rec.inbox /\ rec.inbox[i] = Msg("exec", e)
Run(rec, e, x) == x \in rec.running /\ x.exec = e
Outbound(rec, e, i) == i \in DOMAIN rec.outbox /\ rec.outbox[i] = Msg("result", e)
In(rec, e) == \E i \in Nat : Inbound(rec, e, i)
Executing(rec, e) == \E x \in Runs : Run(rec, e, x)
Out(rec, e) == \E i \in Nat : Outbound(rec, e, i)
InOnce(rec, e) == \A i, j \in Nat : Inbound(rec, e, i) /\ Inbound(rec, e, j) => i = j
RunOnce(rec, e) == \A x, y \in Runs : Run(rec, e, x) /\ Run(rec, e, y) => x = y
OutOnce(rec, e) == \A i, j \in Nat : Outbound(rec, e, i) /\ Outbound(rec, e, j) => i = j
Somewhere(rec, e) == In(rec, e) \/ Executing(rec, e) \/ Out(rec, e)
Once(rec, e) ==
    /\ InOnce(rec, e) /\ RunOnce(rec, e) /\ OutOnce(rec, e)
    /\ ~(In(rec, e) /\ Executing(rec, e)) /\ ~(In(rec, e) /\ Out(rec, e)) /\ ~(Executing(rec, e) /\ Out(rec, e))
Owes(rec, owed) ==
    \A e \in Requests \X Workspaces : Once(rec, e) /\ (Somewhere(rec, e) <=> e \in owed)
WorkInv == \A w \in Workers : Live(worker[w]) => Owes(worker[w], pending[w])

Inv == TypeInv /\ OwnInv /\ PlaceInv /\ AskedInv /\ AgeInv /\ CutInv /\ WaitInv /\ WorkInv

-----------------------------------------------------------------------------
(* Data.                                                                     *)

(* Messages. *)
LEMMA MsgFacts ==
    /\ Msg("init", None) \in InMsgs /\ Msg("ready", None) \in OutMsgs
    /\ \A e \in Executions : /\ Msg("exec", e) \in InMsgs /\ Msg("proxyResponse", e) \in InMsgs
                             /\ Msg("result", e) \in OutMsgs /\ Msg("proxyRequest", e) \in OutMsgs
    /\ \A e, d : /\ Msg("init", None) # Msg("exec", e) /\ Msg("proxyResponse", d) # Msg("exec", e)
                 /\ Msg("ready", None) # Msg("result", e) /\ Msg("proxyRequest", d) # Msg("result", e)
                 /\ Msg("exec", d) = Msg("exec", e) <=> d = e
                 /\ Msg("result", d) = Msg("result", e) <=> d = e
BY DEF Msg, InMsgs, OutMsgs

(* ... and what a channel may hold. *)
LEMMA MsgKinds ==
    /\ \A m \in InMsgs : /\ m.type \in {"init", "exec", "proxyResponse"} /\ m = Msg(m.type, m.exec)
                         /\ m.type # "init" => m.exec \in Executions
    /\ \A m \in OutMsgs : /\ m.type \in {"ready", "result", "proxyRequest"} /\ m = Msg(m.type, m.exec)
                          /\ m.type # "ready" => m.exec \in Executions
BY DEF Msg, InMsgs, OutMsgs

(* Executions of the pool are executions. *)
LEMMA PoolExecutions ==
    /\ Requests \X Workspaces \subseteq Executions
    /\ \A r \in Requests : <<r, None>> \in Executions /\ <<r, None>> \notin Requests \X Workspaces
    /\ \A e \in Executions : e[1] \in Requests /\ e = <<e[1], e[2]>>
                             /\ (e[2] \in Workspaces => e \in Requests \X Workspaces)
BY NoneAssumption DEF Executions

(* What Append and Tail do to the elements of a sequence. *)
LEMMA Appended ==
    ASSUME NEW S, NEW q \in Seq(S), NEW e \in S
    PROVE  /\ Append(q, e) \in Seq(S) /\ Len(Append(q, e)) = Len(q) + 1
           /\ DOMAIN Append(q, e) = 1 .. (Len(q) + 1) /\ DOMAIN q = 1 .. Len(q) /\ Len(q) \in Nat
           /\ \A j \in 1 .. Len(q) : Append(q, e)[j] = q[j]
           /\ Append(q, e)[Len(q) + 1] = e
OBVIOUS

(* So for the rest of a sequence. *)
LEMMA Tailed ==
    ASSUME NEW S, NEW q \in Seq(S), q # <<>>
    PROVE  /\ Tail(q) \in Seq(S) /\ DOMAIN Tail(q) = 1 .. (Len(q) - 1)
           /\ DOMAIN q = 1 .. Len(q) /\ Len(q) \in Nat /\ Len(q) # 0
           /\ Head(q) = q[1] /\ Head(q) \in S
           /\ \A j \in 1 .. (Len(q) - 1) : Tail(q)[j] = q[j + 1]
OBVIOUS

(* And for two sequences after one another. *)
LEMMA Joined ==
    ASSUME NEW S, NEW p \in Seq(S), NEW n \in Nat, NEW q \in [1 .. n -> S]
    PROVE  /\ p \o q \in Seq(S)
           /\ DOMAIN (p \o q) = 1 .. (Len(p) + n) /\ DOMAIN p = 1 .. Len(p) /\ Len(p) \in Nat
           /\ \A i \in 1 .. Len(p) : (p \o q)[i] = p[i]
           /\ \A i \in 1 .. n : (p \o q)[Len(p) + i] = q[i]
<1>1. q \in Seq(S) /\ Len(q) = n
  OBVIOUS
<1>2. p \o q \in Seq(S) /\ DOMAIN (p \o q) = 1 .. (Len(p) + n) /\ DOMAIN p = 1 .. Len(p) /\ Len(p) \in Nat
  BY <1>1
<1>3. \A i \in 1 .. Len(p) : (p \o q)[i] = p[i]
  BY <1>1
<1>4. ASSUME NEW i \in 1 .. n
      PROVE  (p \o q)[Len(p) + i] = q[i]
  BY <1>1, <1>4
<1>5. QED
  BY <1>2, <1>3, <1>4

-----------------------------------------------------------------------------
(* Records of workers.                                                       *)

(* Their fields. *)
LEMMA RecFields ==
    ASSUME NEW rec \in WorkerRecs
    PROVE  /\ rec.life \in Lives /\ rec.inbox \in Seq(InMsgs) /\ rec.outbox \in Seq(OutMsgs)
           /\ rec.running \in SUBSET Runs
BY DEF WorkerRecs

(* Post() adds a message for a worker that lives. *)
LEMMA PostFacts ==
    ASSUME NEW rec \in WorkerRecs, NEW m \in InMsgs
    PROVE  /\ Post(rec, m) \in WorkerRecs /\ Post(rec, m).life = rec.life
           /\ Post(rec, m).outbox = rec.outbox /\ Post(rec, m).running = rec.running
           /\ Live(rec) => Post(rec, m).inbox = Append(rec.inbox, m)
<1>1. rec.inbox \in Seq(InMsgs) /\ Append(rec.inbox, m) \in Seq(InMsgs)
  BY RecFields, Appended
<1> DEFINE new == [rec EXCEPT !.inbox = Append(@, m)]
<1>2. /\ new \in WorkerRecs /\ new.life = rec.life /\ new.outbox = rec.outbox /\ new.running = rec.running
      /\ new.inbox = Append(rec.inbox, m)
  BY <1>1 DEF WorkerRecs
<1>3. Post(rec, m) = IF Live(rec) THEN new ELSE rec
  BY DEF Post, Live
<1> HIDE DEF new
<1>4. QED
  BY <1>2, <1>3

(* Workers that start, and that are stopped. *)
LEMMA LifeFacts ==
    /\ Starting \in WorkerRecs /\ Starting.life = "alive" /\ Starting.inbox = <<Msg("init", None)>>
    /\ Starting.outbox = <<>> /\ Starting.running = {}
    /\ \A life \in Lives : Stopped(life) \in WorkerRecs /\ Stopped(life).life = life
    /\ Unused \in WorkerRecs /\ Unused.life = "unused" /\ Unused.outbox = <<>>
<1>1. \A S : \A m \in S : <<m>> \in Seq(S) /\ <<>> \in Seq(S)
  OBVIOUS
<1>2. <<Msg("init", None)>> \in Seq(InMsgs) /\ <<>> \in Seq(InMsgs) /\ <<>> \in Seq(OutMsgs) /\ {} \in SUBSET Runs
  BY <1>1, MsgFacts, Zenon
<1>3. {"alive", "unused"} \subseteq Lives
  BY DEF Lives
<1>4. \A life \in Lives : Stopped(life) \in WorkerRecs /\ Stopped(life).life = life
  BY <1>2 DEF WorkerRecs, Stopped
<1>5. Unused \in WorkerRecs /\ Unused.life = "unused" /\ Unused.outbox = <<>> /\ Unused.running = {}
  BY <1>2, <1>3 DEF WorkerRecs, Unused
<1> DEFINE box == <<Msg("init", None)>>
           new == [Unused EXCEPT !.life = "alive", !.inbox = box]
<1>6. box \in Seq(InMsgs) /\ Starting = new
  BY <1>2 DEF Starting
<1> HIDE DEF box
<1>7. /\ new \in WorkerRecs /\ new.life = "alive" /\ new.inbox = box
      /\ new.outbox = Unused.outbox /\ new.running = Unused.running
  BY <1>3, <1>5, <1>6 DEF WorkerRecs
<1> HIDE DEF new
<1>8. QED
  BY <1>4, <1>5, <1>6, <1>7 DEF box

(* What a step does to the inbox: nothing, a message more, or the first one taken. *)
LEMMA InboxPlaces ==
    ASSUME NEW rec \in WorkerRecs, NEW new \in WorkerRecs, NEW e
    PROVE  /\ new.inbox = rec.inbox =>
                (In(new, e) <=> In(rec, e)) /\ (InOnce(rec, e) => InOnce(new, e))
           /\ \A m \in InMsgs : new.inbox = Append(rec.inbox, m) /\ m # Msg("exec", e) =>
                (In(new, e) <=> In(rec, e)) /\ (InOnce(rec, e) => InOnce(new, e))
           /\ \A m \in InMsgs : new.inbox = Append(rec.inbox, m) /\ m = Msg("exec", e) =>
                In(new, e) /\ (~In(rec, e) => InOnce(new, e))
           /\ rec.inbox # <<>> /\ new.inbox = Tail(rec.inbox) /\ Head(rec.inbox) # Msg("exec", e) =>
                (In(new, e) <=> In(rec, e)) /\ (InOnce(rec, e) => InOnce(new, e))
           /\ rec.inbox # <<>> /\ new.inbox = Tail(rec.inbox) /\ Head(rec.inbox) = Msg("exec", e) =>
                In(rec, e) /\ (InOnce(rec, e) => ~In(new, e) /\ InOnce(new, e))
<1>1. rec.inbox \in Seq(InMsgs)
  BY RecFields
<1>2. ASSUME new.inbox = rec.inbox
      PROVE  (In(new, e) <=> In(rec, e)) /\ (InOnce(rec, e) => InOnce(new, e))
  BY <1>2 DEF Inbound, In, InOnce
<1>3. ASSUME NEW m \in InMsgs, new.inbox = Append(rec.inbox, m)
      PROVE  /\ m # Msg("exec", e) => (In(new, e) <=> In(rec, e)) /\ (InOnce(rec, e) => InOnce(new, e))
             /\ m = Msg("exec", e) => In(new, e) /\ (~In(rec, e) => InOnce(new, e))
  <2> DEFINE k == Len(rec.inbox)
  <2>1. /\ DOMAIN new.inbox = 1 .. (k + 1) /\ DOMAIN rec.inbox = 1 .. k /\ k \in Nat
        /\ \A j \in 1 .. k : new.inbox[j] = rec.inbox[j]
        /\ new.inbox[k + 1] = m
    BY <1>1, <1>3, Appended
  <2> HIDE DEF k
  <2>2. \A i \in Nat : Inbound(new, e, i) <=> Inbound(rec, e, i) \/ (i = k + 1 /\ m = Msg("exec", e))
    BY <2>1 DEF Inbound
  <2>3. k + 1 \in Nat
    BY <2>1
  <2>4. QED
    BY <2>2, <2>3 DEF In, InOnce
<1>4. ASSUME rec.inbox # <<>>, new.inbox = Tail(rec.inbox)
      PROVE  /\ Head(rec.inbox) # Msg("exec", e) =>
                  (In(new, e) <=> In(rec, e)) /\ (InOnce(rec, e) => InOnce(new, e))
             /\ Head(rec.inbox) = Msg("exec", e) =>
                  In(rec, e) /\ (InOnce(rec, e) => ~In(new, e) /\ InOnce(new, e))
  <2> DEFINE k == Len(rec.inbox)
  <2>1. /\ DOMAIN new.inbox = 1 .. (k - 1) /\ DOMAIN rec.inbox = 1 .. k /\ k \in Nat /\ k # 0
        /\ \A j \in 1 .. (k - 1) : new.inbox[j] = rec.inbox[j + 1]
        /\ Head(rec.inbox) = rec.inbox[1]
    BY <1>1, <1>4, Tailed
  <2> HIDE DEF k
  <2>2. \A i \in Nat : i \in 1 .. (k - 1) <=> i # 0 /\ i + 1 \in 1 .. k
    BY <2>1
  <2>3. \A i \in Nat : Inbound(new, e, i) <=> i # 0 /\ Inbound(rec, e, i + 1)
    BY <2>1, <2>2 DEF Inbound
  <2>4. (Inbound(rec, e, 1) <=> Head(rec.inbox) = Msg("exec", e)) /\ ~Inbound(rec, e, 0)
    BY <2>1 DEF Inbound
  <2>5. ASSUME NEW i \in Nat, Inbound(rec, e, i), i # 1
        PROVE  In(new, e)
    <3>1. i - 1 \in Nat /\ i - 1 # 0 /\ (i - 1) + 1 = i
      BY <2>4, <2>5
    <3>2. Inbound(new, e, i - 1)
      BY <2>3, <2>5, <3>1
    <3>3. QED
      BY <3>1, <3>2 DEF In
  <2>6. In(new, e) => In(rec, e)
    BY <2>3 DEF In
  <2>7. InOnce(rec, e) => InOnce(new, e)
    BY <2>3 DEF InOnce
  <2>8. CASE Head(rec.inbox) # Msg("exec", e)
    <3>1. In(rec, e) => In(new, e)
      <4>1. SUFFICES ASSUME NEW i \in Nat, Inbound(rec, e, i) PROVE In(new, e)
        BY DEF In
      <4>2. i # 1
        BY <2>4, <2>8, <4>1
      <4>3. QED
        BY <2>5, <4>1, <4>2
    <3>2. QED
      BY <2>6, <2>7, <2>8, <3>1
  <2>9. CASE Head(rec.inbox) = Msg("exec", e)
    <3>1. Inbound(rec, e, 1)
      BY <2>4, <2>9
    <3>2. In(rec, e)
      BY <3>1 DEF In
    <3>3. ASSUME InOnce(rec, e), NEW i \in Nat, Inbound(new, e, i) PROVE FALSE
      <4>1. i + 1 \in Nat /\ i + 1 # 1 /\ Inbound(rec, e, i + 1)
        BY <2>3, <3>3
      <4>2. QED
        BY <3>1, <3>3, <4>1 DEF InOnce
    <3>4. QED
      BY <2>7, <2>9, <3>2, <3>3 DEF In
  <2>10. QED
    BY <2>8, <2>9
<1>5. QED
  BY <1>2, <1>3, <1>4

(* So for the outbox. *)
LEMMA OutboxPlaces ==
    ASSUME NEW rec \in WorkerRecs, NEW new \in WorkerRecs, NEW e
    PROVE  /\ new.outbox = rec.outbox =>
                (Out(new, e) <=> Out(rec, e)) /\ (OutOnce(rec, e) => OutOnce(new, e))
           /\ \A m \in OutMsgs : new.outbox = Append(rec.outbox, m) /\ m # Msg("result", e) =>
                (Out(new, e) <=> Out(rec, e)) /\ (OutOnce(rec, e) => OutOnce(new, e))
           /\ \A m \in OutMsgs : new.outbox = Append(rec.outbox, m) /\ m = Msg("result", e) =>
                Out(new, e) /\ (~Out(rec, e) => OutOnce(new, e))
           /\ rec.outbox # <<>> /\ new.outbox = Tail(rec.outbox) /\ Head(rec.outbox) # Msg("result", e) =>
                (Out(new, e) <=> Out(rec, e)) /\ (OutOnce(rec, e) => OutOnce(new, e))
           /\ rec.outbox # <<>> /\ new.outbox = Tail(rec.outbox) /\ Head(rec.outbox) = Msg("result", e) =>
                Out(rec, e) /\ (OutOnce(rec, e) => ~Out(new, e) /\ OutOnce(new, e))
<1>1. rec.outbox \in Seq(OutMsgs)
  BY RecFields
<1>2. ASSUME new.outbox = rec.outbox
      PROVE  (Out(new, e) <=> Out(rec, e)) /\ (OutOnce(rec, e) => OutOnce(new, e))
  BY <1>2 DEF Outbound, Out, OutOnce
<1>3. ASSUME NEW m \in OutMsgs, new.outbox = Append(rec.outbox, m)
      PROVE  /\ m # Msg("result", e) => (Out(new, e) <=> Out(rec, e)) /\ (OutOnce(rec, e) => OutOnce(new, e))
             /\ m = Msg("result", e) => Out(new, e) /\ (~Out(rec, e) => OutOnce(new, e))
  <2> DEFINE k == Len(rec.outbox)
  <2>1. /\ DOMAIN new.outbox = 1 .. (k + 1) /\ DOMAIN rec.outbox = 1 .. k /\ k \in Nat
        /\ \A j \in 1 .. k : new.outbox[j] = rec.outbox[j]
        /\ new.outbox[k + 1] = m
    BY <1>1, <1>3, Appended
  <2> HIDE DEF k
  <2>2. \A i \in Nat : Outbound(new, e, i) <=> Outbound(rec, e, i) \/ (i = k + 1 /\ m = Msg("result", e))
    BY <2>1 DEF Outbound
  <2>3. k + 1 \in Nat
    BY <2>1
  <2>4. QED
    BY <2>2, <2>3 DEF Out, OutOnce
<1>4. ASSUME rec.outbox # <<>>, new.outbox = Tail(rec.outbox)
      PROVE  /\ Head(rec.outbox) # Msg("result", e) =>
                  (Out(new, e) <=> Out(rec, e)) /\ (OutOnce(rec, e) => OutOnce(new, e))
             /\ Head(rec.outbox) = Msg("result", e) =>
                  Out(rec, e) /\ (OutOnce(rec, e) => ~Out(new, e) /\ OutOnce(new, e))
  <2> DEFINE k == Len(rec.outbox)
  <2>1. /\ DOMAIN new.outbox = 1 .. (k - 1) /\ DOMAIN rec.outbox = 1 .. k /\ k \in Nat /\ k # 0
        /\ \A j \in 1 .. (k - 1) : new.outbox[j] = rec.outbox[j + 1]
        /\ Head(rec.outbox) = rec.outbox[1]
    BY <1>1, <1>4, Tailed
  <2> HIDE DEF k
  <2>2. \A i \in Nat : i \in 1 .. (k - 1) <=> i # 0 /\ i + 1 \in 1 .. k
    BY <2>1
  <2>3. \A i \in Nat : Outbound(new, e, i) <=> i # 0 /\ Outbound(rec, e, i + 1)
    BY <2>1, <2>2 DEF Outbound
  <2>4. (Outbound(rec, e, 1) <=> Head(rec.outbox) = Msg("result", e)) /\ ~Outbound(rec, e, 0)
    BY <2>1 DEF Outbound
  <2>5. ASSUME NEW i \in Nat, Outbound(rec, e, i), i # 1
        PROVE  Out(new, e)
    <3>1. i - 1 \in Nat /\ i - 1 # 0 /\ (i - 1) + 1 = i
      BY <2>4, <2>5
    <3>2. Outbound(new, e, i - 1)
      BY <2>3, <2>5, <3>1
    <3>3. QED
      BY <3>1, <3>2 DEF Out
  <2>6. Out(new, e) => Out(rec, e)
    BY <2>3 DEF Out
  <2>7. OutOnce(rec, e) => OutOnce(new, e)
    BY <2>3 DEF OutOnce
  <2>8. CASE Head(rec.outbox) # Msg("result", e)
    <3>1. Out(rec, e) => Out(new, e)
      <4>1. SUFFICES ASSUME NEW i \in Nat, Outbound(rec, e, i) PROVE Out(new, e)
        BY DEF Out
      <4>2. i # 1
        BY <2>4, <2>8, <4>1
      <4>3. QED
        BY <2>5, <4>1, <4>2
    <3>2. QED
      BY <2>6, <2>7, <2>8, <3>1
  <2>9. CASE Head(rec.outbox) = Msg("result", e)
    <3>1. Outbound(rec, e, 1)
      BY <2>4, <2>9
    <3>2. Out(rec, e)
      BY <3>1 DEF Out
    <3>3. ASSUME OutOnce(rec, e), NEW i \in Nat, Outbound(new, e, i) PROVE FALSE
      <4>1. i + 1 \in Nat /\ i + 1 # 1 /\ Outbound(rec, e, i + 1)
        BY <2>3, <3>3
      <4>2. QED
        BY <3>1, <3>3, <4>1 DEF OutOnce
    <3>4. QED
      BY <2>7, <2>9, <3>2, <3>3 DEF Out
  <2>10. QED
    BY <2>8, <2>9
<1>5. QED
  BY <1>2, <1>3, <1>4

(* What a step does to the executions under way. *)
LEMMA RunPlaces ==
    ASSUME NEW rec \in WorkerRecs, NEW new \in WorkerRecs, NEW e
    PROVE  /\ new.running = rec.running =>
                (Executing(new, e) <=> Executing(rec, e)) /\ (RunOnce(rec, e) => RunOnce(new, e))
           /\ \A x \in Runs : new.running = rec.running \cup {x} /\ x.exec # e =>
                (Executing(new, e) <=> Executing(rec, e)) /\ (RunOnce(rec, e) => RunOnce(new, e))
           /\ \A x \in Runs : new.running = rec.running \cup {x} /\ x.exec = e =>
                Executing(new, e) /\ (~Executing(rec, e) => RunOnce(new, e))
           /\ \A x \in rec.running : new.running = rec.running \ {x} /\ x.exec # e =>
                (Executing(new, e) <=> Executing(rec, e)) /\ (RunOnce(rec, e) => RunOnce(new, e))
           /\ \A x \in rec.running : new.running = rec.running \ {x} /\ x.exec = e =>
                Executing(rec, e) /\ (RunOnce(rec, e) => ~Executing(new, e) /\ RunOnce(new, e))
<1>1. rec.running \in SUBSET Runs
  BY RecFields
<1>2. QED
  BY <1>1 DEF Run, Executing, RunOnce

(* Executions that go on: each one is as before but for its state. *)
LEMMA RunMoves ==
    ASSUME NEW rec \in WorkerRecs, NEW new \in WorkerRecs, NEW e, NEW f,
           \A x \in rec.running : f[x] \in Runs /\ f[x].exec = x.exec,
           new.running = {f[x] : x \in rec.running}
    PROVE  (Executing(new, e) <=> Executing(rec, e)) /\ (RunOnce(rec, e) => RunOnce(new, e))
<1>1. rec.running \in SUBSET Runs
  BY RecFields
<1>2. \A y : Run(new, e, y) => \E x \in Runs : Run(rec, e, x) /\ y = f[x]
  BY <1>1 DEF Run
<1>3. \A x : Run(rec, e, x) => f[x] \in Runs /\ Run(new, e, f[x])
  BY DEF Run
<1>4. Executing(new, e) <=> Executing(rec, e)
  BY <1>2, <1>3 DEF Executing
<1>5. RunOnce(rec, e) => RunOnce(new, e)
  BY <1>2 DEF RunOnce
<1>6. QED
  BY <1>4, <1>5

-----------------------------------------------------------------------------
(* What a worker owes, message by message.                                   *)

(* A message that carries one execution carries no other. *)
LEMMA OneExec ==
    \A m : \A e, d \in Requests \X Workspaces :
        /\ m = Msg("exec", d) /\ e # d => m # Msg("exec", e)
        /\ m = Msg("result", d) /\ e # d => m # Msg("result", e)
BY MsgFacts

(* A message to a worker: an execution it now owes, or another message. *)
LEMMA OwesPosted ==
    ASSUME NEW rec \in WorkerRecs, NEW new \in WorkerRecs, NEW owed, Owes(rec, owed),
           NEW m \in InMsgs,
           new.inbox = Append(rec.inbox, m), new.outbox = rec.outbox, new.running = rec.running
    PROVE  /\ (\A e \in Requests \X Workspaces : m # Msg("exec", e)) => Owes(new, owed)
           /\ \A d \in Requests \X Workspaces :
                m = Msg("exec", d) /\ d \notin owed => Owes(new, owed \cup {d})
<1>1. ASSUME NEW e \in Requests \X Workspaces, m # Msg("exec", e)
      PROVE  Once(new, e) /\ (Somewhere(new, e) <=> e \in owed)
  BY <1>1, InboxPlaces, OutboxPlaces, RunPlaces, Zenon DEF Owes, Once, Somewhere
<1>2. ASSUME NEW e \in Requests \X Workspaces, m = Msg("exec", e), e \notin owed
      PROVE  Once(new, e) /\ Somewhere(new, e)
  BY <1>2, InboxPlaces, OutboxPlaces, RunPlaces, Zenon DEF Owes, Once, Somewhere
<1>3. QED
  BY <1>1, <1>2, OneExec DEF Owes

(* A worker that starts owes nothing. *)
LEMMA OwesStarting == Owes(Starting, {})
<1>1. ASSUME NEW e \in Requests \X Workspaces
      PROVE  Once(Starting, e) /\ ~Somewhere(Starting, e)
  <2>1. /\ \A i \in Nat : ~Inbound(Starting, e, i) /\ ~Outbound(Starting, e, i)
        /\ \A x \in Runs : ~Run(Starting, e, x)
    BY LifeFacts, MsgFacts DEF Inbound, Outbound, Run
  <2>2. QED
    BY <2>1 DEF Once, Somewhere, In, Out, Executing, InOnce, OutOnce, RunOnce
<1>2. QED
  BY <1>1 DEF Owes

(* A message of a worker is taken: a result is no longer owed. *)
LEMMA OwesTaken ==
    ASSUME NEW rec \in WorkerRecs, NEW new \in WorkerRecs, NEW owed, Owes(rec, owed),
           rec.outbox # <<>>,
           new.outbox = Tail(rec.outbox), new.inbox = rec.inbox, new.running = rec.running
    PROVE  /\ (\A e \in Requests \X Workspaces : Head(rec.outbox) # Msg("result", e)) => Owes(new, owed)
           /\ \A d \in Requests \X Workspaces : Head(rec.outbox) = Msg("result", d) => Owes(new, owed \ {d})
<1>1. ASSUME NEW e \in Requests \X Workspaces, Head(rec.outbox) # Msg("result", e)
      PROVE  Once(new, e) /\ (Somewhere(new, e) <=> e \in owed)
  BY <1>1, InboxPlaces, OutboxPlaces, RunPlaces, Zenon DEF Owes, Once, Somewhere
<1>2. ASSUME NEW e \in Requests \X Workspaces, Head(rec.outbox) = Msg("result", e)
      PROVE  Once(new, e) /\ ~Somewhere(new, e)
  BY <1>2, InboxPlaces, OutboxPlaces, RunPlaces, Zenon DEF Owes, Once, Somewhere
<1>3. QED
  BY <1>1, <1>2, OneExec DEF Owes

(* The worker takes a message to it: it starts, executes, or goes on with an execution. *)
LEMMA OwesInit ==
    ASSUME NEW rec \in WorkerRecs, NEW new \in WorkerRecs, NEW owed, Owes(rec, owed),
           rec.inbox # <<>>, new.inbox = Tail(rec.inbox),
           \A e \in Requests \X Workspaces : Head(rec.inbox) # Msg("exec", e),
           \/ new.running = rec.running /\ \E m \in OutMsgs :
                new.outbox = Append(rec.outbox, m) /\ \A e : m # Msg("result", e)
           \/ new.outbox = rec.outbox /\ \A e :
                (Executing(new, e) <=> Executing(rec, e)) /\ (RunOnce(rec, e) => RunOnce(new, e))
    PROVE  Owes(new, owed)
<1>1. ASSUME NEW e \in Requests \X Workspaces
      PROVE  Once(new, e) /\ (Somewhere(new, e) <=> e \in owed)
  <2>1. (In(new, e) <=> In(rec, e)) /\ (InOnce(rec, e) => InOnce(new, e))
    BY InboxPlaces, Zenon
  <2>2. (Out(new, e) <=> Out(rec, e)) /\ (OutOnce(rec, e) => OutOnce(new, e))
    BY OutboxPlaces, Zenon
  <2>3. (Executing(new, e) <=> Executing(rec, e)) /\ (RunOnce(rec, e) => RunOnce(new, e))
    BY RunPlaces, Zenon
  <2>4. QED
    BY <2>1, <2>2, <2>3, Zenon DEF Owes, Once, Somewhere
<1>2. QED
  BY <1>1 DEF Owes

(* An execution begins. *)
LEMMA OwesBegun ==
    ASSUME NEW rec \in WorkerRecs, NEW new \in WorkerRecs, NEW owed, Owes(rec, owed),
           rec.inbox # <<>>, new.inbox = Tail(rec.inbox), new.outbox = rec.outbox,
           NEW x \in Runs, new.running = rec.running \cup {x}, Head(rec.inbox) = Msg("exec", x.exec)
    PROVE  Owes(new, owed)
<1>1. ASSUME NEW e \in Requests \X Workspaces, e # x.exec
      PROVE  Once(new, e) /\ (Somewhere(new, e) <=> e \in owed)
  <2>1. Head(rec.inbox) # Msg("exec", e)
    BY <1>1, MsgFacts
  <2>2. QED
    BY <1>1, <2>1, InboxPlaces, OutboxPlaces, RunPlaces, Zenon DEF Owes, Once, Somewhere
<1>2. ASSUME NEW e \in Requests \X Workspaces, x.exec = e
      PROVE  Once(new, e) /\ (Somewhere(new, e) <=> e \in owed)
  <2>1. Head(rec.inbox) = Msg("exec", e)
    BY <1>2
  <2>2. QED
    BY <1>2, <2>1, InboxPlaces, OutboxPlaces, RunPlaces, Zenon DEF Owes, Once, Somewhere
<1>3. QED
  BY <1>1, <1>2 DEF Owes

(* An execution asks for I/O. *)
LEMMA OwesCalled ==
    ASSUME NEW rec \in WorkerRecs, NEW new \in WorkerRecs, NEW owed, Owes(rec, owed),
           new.inbox = rec.inbox, NEW m \in OutMsgs,
           new.outbox = Append(rec.outbox, m), \A e : m # Msg("result", e),
           \A e : (Executing(new, e) <=> Executing(rec, e)) /\ (RunOnce(rec, e) => RunOnce(new, e))
    PROVE  Owes(new, owed)
<1>1. ASSUME NEW e \in Requests \X Workspaces
      PROVE  Once(new, e) /\ (Somewhere(new, e) <=> e \in owed)
  BY InboxPlaces, OutboxPlaces, Zenon DEF Owes, Once, Somewhere
<1>2. QED
  BY <1>1 DEF Owes

(* An execution returns its result. *)
LEMMA OwesReturned ==
    ASSUME NEW rec \in WorkerRecs, NEW new \in WorkerRecs, NEW owed, Owes(rec, owed),
           new.inbox = rec.inbox, NEW x \in rec.running, x \in Runs, new.running = rec.running \ {x},
           new.outbox = Append(rec.outbox, Msg("result", x.exec))
    PROVE  Owes(new, owed)
<1>1. x.exec \in Executions /\ Msg("result", x.exec) \in OutMsgs
  BY MsgFacts DEF Runs
<1>2. ASSUME NEW e \in Requests \X Workspaces, e # x.exec
      PROVE  Once(new, e) /\ (Somewhere(new, e) <=> e \in owed)
  <2>1. Msg("result", x.exec) # Msg("result", e)
    BY <1>2, MsgFacts
  <2>2. /\ (In(new, e) <=> In(rec, e)) /\ (InOnce(rec, e) => InOnce(new, e))
        /\ (Out(new, e) <=> Out(rec, e)) /\ (OutOnce(rec, e) => OutOnce(new, e))
    BY <1>1, <2>1, InboxPlaces, OutboxPlaces
  <2>3. (Executing(new, e) <=> Executing(rec, e)) /\ (RunOnce(rec, e) => RunOnce(new, e))
    BY <1>2, RunPlaces
  <2>4. QED
    BY <2>2, <2>3, Zenon DEF Owes, Once, Somewhere
<1>3. ASSUME NEW e \in Requests \X Workspaces, x.exec = e
      PROVE  Once(new, e) /\ (Somewhere(new, e) <=> e \in owed)
  <2>1. /\ (In(new, e) <=> In(rec, e)) /\ (InOnce(rec, e) => InOnce(new, e))
        /\ Out(new, e) /\ (~Out(rec, e) => OutOnce(new, e))
    BY <1>1, <1>3, InboxPlaces, OutboxPlaces
  <2>2. Executing(rec, e) /\ (RunOnce(rec, e) => ~Executing(new, e) /\ RunOnce(new, e))
    BY <1>3, RunPlaces
  <2>3. QED
    BY <2>1, <2>2, Zenon DEF Owes, Once, Somewhere
<1>4. QED
  BY <1>2, <1>3 DEF Owes

(* Everyone who awaited the start of a worker has it execute its request. *)
LEMMA OwesPosts ==
    ASSUME NEW rec \in WorkerRecs, NEW new \in WorkerRecs, NEW owed, Owes(rec, owed),
           NEW waiters \in Seq(Requests \X Workspaces), NEW posts \in [DOMAIN waiters -> InMsgs], NEW asked,
           \A i \in DOMAIN waiters : posts[i] = Msg("exec", waiters[i]),
           asked = {waiters[i] : i \in DOMAIN waiters},
           \A i, j \in DOMAIN waiters : waiters[i] = waiters[j] => i = j,
           \A i \in DOMAIN waiters : waiters[i] \notin owed,
           new.inbox = rec.inbox \o posts,
           new.outbox = rec.outbox, new.running = rec.running
    PROVE  Owes(new, owed \cup asked)
<1> DEFINE k == Len(rec.inbox)
           n == Len(waiters)
<1>1. rec.inbox \in Seq(InMsgs) /\ n \in Nat /\ k \in Nat /\ DOMAIN waiters = 1 .. n
  BY RecFields
<1>2. \A i \in 1 .. n : posts[i] = Msg("exec", waiters[i])
  BY <1>1
<1>3. new.inbox = rec.inbox \o posts
  OBVIOUS
<1>4. posts \in [1 .. n -> InMsgs]
  BY <1>1
<1>5. /\ DOMAIN new.inbox = 1 .. (k + n) /\ DOMAIN rec.inbox = 1 .. k
      /\ \A i \in 1 .. k : new.inbox[i] = rec.inbox[i]
      /\ \A i \in 1 .. n : new.inbox[k + i] = posts[i]
  <2> DEFINE box == rec.inbox
  <2>1. box \in Seq(InMsgs) /\ n \in Nat /\ posts \in [1 .. n -> InMsgs]
    BY <1>1, <1>4
  <2> HIDE DEF n, box
  <2>2. /\ DOMAIN (box \o posts) = 1 .. (Len(box) + n) /\ DOMAIN box = 1 .. Len(box)
        /\ \A i \in 1 .. Len(box) : (box \o posts)[i] = box[i]
        /\ \A i \in 1 .. n : (box \o posts)[Len(box) + i] = posts[i]
    BY ONLY <2>1, Joined
  <2>3. QED
    BY <1>3, <2>2 DEF box
<1> HIDE DEF k, n
<1>6. ASSUME NEW e \in Requests \X Workspaces
      PROVE  /\ \A i \in Nat : Inbound(rec, e, i) => Inbound(new, e, i)
             /\ \A i \in Nat : Inbound(new, e, i) => \/ Inbound(rec, e, i)
                                                     \/ \E j \in 1 .. n : i = k + j /\ waiters[j] = e
             /\ \A j \in 1 .. n : waiters[j] = e => k + j \in Nat /\ Inbound(new, e, k + j)
  <2>1. \A i \in Nat : Inbound(rec, e, i) => Inbound(new, e, i)
    BY <1>1, <1>5 DEF Inbound
  <2>2. \A j \in 1 .. n : (Msg("exec", waiters[j]) = Msg("exec", e) <=> waiters[j] = e)
    BY MsgFacts, Zenon
  <2>3. \A j \in 1 .. n : waiters[j] = e => k + j \in Nat /\ Inbound(new, e, k + j)
    <3>1. ASSUME NEW j \in 1 .. n, waiters[j] = e
          PROVE  k + j \in Nat /\ k + j \in 1 .. (k + n) /\ new.inbox[k + j] = Msg("exec", e)
      <4>1. k + j \in Nat /\ k + j \in 1 .. (k + n)
        BY <1>1
      <4>2. new.inbox[k + j] = posts[j]
        BY <1>5
      <4>3. QED
        BY <1>2, <3>1, <4>1, <4>2
    <3>2. QED
      BY <1>5, <3>1 DEF Inbound
  <2>4. ASSUME NEW i \in Nat, Inbound(new, e, i), ~Inbound(rec, e, i)
        PROVE  \E j \in 1 .. n : i = k + j /\ waiters[j] = e
    <3>1. i \in 1 .. (k + n) /\ ~(i \in 1 .. k)
      BY <1>5, <2>4 DEF Inbound
    <3>2. i - k \in 1 .. n /\ k + (i - k) = i
      BY <1>1, <3>1
    <3>3. posts[i - k] = Msg("exec", e)
      BY <1>5, <2>4, <3>2 DEF Inbound
    <3>4. QED
      BY <1>1, <1>2, <2>2, <3>2, <3>3
  <2>5. QED
    BY <2>1, <2>3, <2>4
<1>7. ASSUME NEW e \in Requests \X Workspaces
      PROVE  /\ (Out(new, e) <=> Out(rec, e)) /\ (OutOnce(rec, e) => OutOnce(new, e))
             /\ (Executing(new, e) <=> Executing(rec, e)) /\ (RunOnce(rec, e) => RunOnce(new, e))
  BY OutboxPlaces, RunPlaces, Zenon
<1>8. ASSUME NEW e \in Requests \X Workspaces, \A j \in 1 .. n : waiters[j] # e
      PROVE  Once(new, e) /\ (Somewhere(new, e) <=> e \in owed)
  <2>1. \A i \in Nat : Inbound(new, e, i) <=> Inbound(rec, e, i)
    BY <1>6, <1>8
  <2>2. (In(new, e) <=> In(rec, e)) /\ (InOnce(rec, e) => InOnce(new, e))
    BY <2>1 DEF In, InOnce
  <2>3. QED
    BY <1>7, <2>2, Zenon DEF Owes, Once, Somewhere
<1>9. ASSUME NEW e \in Requests \X Workspaces, NEW h \in 1 .. n, waiters[h] = e
      PROVE  Once(new, e) /\ Somewhere(new, e)
  <2>1. e \notin owed
    BY <1>1, <1>9
  <2>2. ~In(rec, e) /\ ~Executing(rec, e) /\ ~Out(rec, e) /\ OutOnce(rec, e) /\ RunOnce(rec, e)
    BY <2>1, Zenon DEF Owes, Once, Somewhere
  <2>3. \A i \in Nat : ~Inbound(rec, e, i)
    BY <2>2 DEF In
  <2>4. \A i \in Nat : Inbound(new, e, i) => i = k + h
    <3>1. ASSUME NEW i \in Nat, Inbound(new, e, i) PROVE i = k + h
      <4>1. PICK j \in 1 .. n : i = k + j /\ waiters[j] = e
        BY <1>6, <2>3, <3>1
      <4>2. j = h
        BY <1>1, <1>9, <4>1
      <4>3. QED
        BY <4>1, <4>2
    <3>2. QED
      BY <3>1
  <2>5. In(new, e) /\ InOnce(new, e)
    BY <1>6, <1>9, <2>4 DEF In, InOnce
  <2>6. QED
    BY <1>7, <2>2, <2>5, Zenon DEF Once, Somewhere
<1>10. QED
  BY <1>1, <1>8, <1>9, ZenonT(40) DEF Owes

-----------------------------------------------------------------------------
(* What a step may do without a second look.                                 *)

(* Bounds of the clocks. *)
LEMMA Clocks == Ttl \in Nat /\ ClientTimeout \in Nat /\ UdfTimeout \in Nat /\ ClientTimeout <= Ttl
BY ConstantsAssumption

(* Types of what a step leaves alone. *)
LEMMA TypesKept ==
    ASSUME TypeInv
    PROVE  /\ UNCHANGED clients => ClientType'
           /\ UNCHANGED <<pool, idle>> => PoolType'
           /\ UNCHANGED spawning => SpawnType'
           /\ UNCHANGED debugger => DebugType'
           /\ UNCHANGED worker => WorkerType'
           /\ UNCHANGED pending => PendingType'
           /\ UNCHANGED io => IoType'
           /\ UNCHANGED <<process, faults, cut, targets>> => SmallType'
BY DEF TypeInv, clients, ClientType, PoolType, SpawnType, DebugType, WorkerType, PendingType, IoType, SmallType

(* Nothing changes hands, and no worker starts. *)
LEMMA OwnKept ==
    ASSUME OwnInv, PlaceInv, pool' = pool, debugger' = debugger,
           \A s \in Workspaces : spawning'[s].worker = spawning[s].worker,
           \A w \in Workers : /\ Live(worker'[w]) => Live(worker[w])
                              /\ worker'[w].life = "unused" => worker'[w] = worker[w] /\ pending'[w] = pending[w]
    PROVE  OwnInv' /\ PlaceInv'
<1>1. PlaceInv'
  BY DEF PlaceInv
<1>2. ASSUME NEW w \in Workers
      PROVE  Owned(w)' <=> Owned(w)
  BY DEF Owned
<1>3. ASSUME NEW w \in Workers
      PROVE  Live(worker'[w]) => Owned(w)'
  BY <1>2 DEF OwnInv, OwnAt
<1>4. ASSUME NEW w \in Workers, worker'[w].life = "unused"
      PROVE  ~Owned(w)' /\ worker'[w] = Unused /\ pending'[w] = {}
  BY <1>2, <1>4 DEF OwnInv, OwnAt
<1>5. QED
  BY <1>1, <1>3, <1>4 DEF OwnInv, OwnAt, Live

(* Whatever is new was asked for. *)
LEMMA AskedKept ==
    ASSUME AskedInv, targets' = targets,
           \A r \in Requests : units'[r] \subseteq units[r] /\ (client[r] # "idle" => client'[r] # "idle"),
           \A w \in Workers : \A e \in pending'[w] : Asked(e) \/ e \in pending[w],
           \A s \in Workspaces : \A i \in DOMAIN spawning'[s].waiters :
              LET e == spawning'[s].waiters[i] IN
              (Asked(e) /\ e[2] = s) \/ (i \in DOMAIN spawning[s].waiters /\ e = spawning[s].waiters[i]),
           \A r \in Requests : debugger'[r] # None =>
              \/ /\ debugger[r] # None
                 /\ process' # "exited" => process # "exited" /\ (client'[r] = client[r] \/ client'[r] = "gone")
              \/ r \in DOMAIN targets /\ targets[r] = {} /\ client'[r] = "waiting"
    PROVE  AskedInv'
<1>1. ASSUME NEW e, Asked(e)
      PROVE  Asked(e)'
  BY <1>1 DEF Asked
<1>2. \A r \in Requests : \A s \in units'[r] : r \in DOMAIN targets' /\ s \in targets'[r]
  BY DEF AskedInv
<1>3. ASSUME NEW w \in Workers, NEW e \in pending'[w]
      PROVE  Asked(e)'
  BY <1>1, <1>3 DEF AskedInv
<1>4. ASSUME NEW s \in Workspaces, NEW i \in DOMAIN spawning'[s].waiters
      PROVE  Asked(spawning[s].waiters[i])' /\ spawning'[s].waiters[i][2] = s
  <2>1. Asked(spawning'[s].waiters[i]) /\ spawning'[s].waiters[i][2] = s
    BY <1>4 DEF AskedInv
  <2>2. QED
    BY <2>1 DEF Asked
<1>5. ASSUME NEW r \in Requests, debugger'[r] # None
      PROVE  /\ r \in DOMAIN targets' /\ targets'[r] = {}
             /\ process' # "exited" => client'[r] \in {"waiting", "gone"}
  BY <1>5 DEF AskedInv
<1>6. QED
  BY <1>2, <1>3, <1>4, <1>5 DEF AskedInv

(* No worker is used, and nothing is owed that was not. *)
LEMMA AgeKept ==
    ASSUME AgeInv, waited' = waited,
           \A s \in Workspaces : pool'[s] # None => idle'[s] = idle[s],
           \A s \in Workspaces : pool'[s] # None => pool'[s] = pool[s] /\ pending'[pool[s]] \subseteq pending[pool[s]],
           \A w \in Workers : \A e \in pending'[w] : client'[e[1]] = "waiting" => client[e[1]] = "waiting",
           \A s \in Workspaces : pool'[s] # None => pool'[s] \in Workers
    PROVE  AgeInv'
BY DEF AgeInv

(* No execution is cut off, and no client takes up again. *)
LEMMA CutKept ==
    ASSUME CutInv, cut' = cut, cut \subseteq Executions,
           \A r \in Requests : client[r] \notin {"idle", "waiting"} => client'[r] \notin {"idle", "waiting"}
    PROVE  CutInv'
BY PoolExecutions DEF CutInv

(* Nobody new awaits a spawn. *)
LEMMA WaitKept ==
    ASSUME WaitInv, \A s \in Workspaces : spawning'[s].waiters = spawning[s].waiters,
           \A w \in Workers : pending'[w] \subseteq pending[w]
    PROVE  WaitInv'
BY DEF WaitInv

(* Workers that are touched still owe what is awaited of them. *)
LEMMA WorkKept ==
    ASSUME WorkInv,
           \A w \in Workers : \/ worker'[w] = worker[w] /\ pending'[w] = pending[w]
                              \/ ~Live(worker'[w])
                              \/ Owes(worker'[w], pending'[w])
    PROVE  WorkInv'
<1>1. ASSUME NEW w \in Workers, Live(worker'[w])
      PROVE  Owes(worker'[w], pending'[w])
  BY <1>1 DEF WorkInv
<1>2. QED
  BY <1>1 DEF WorkInv, Owes, Live

-----------------------------------------------------------------------------
(* Steps that only touch one worker.                                         *)

(* The step of one worker or of its channels that owns, asks and owes nothing new. *)
Touches(w) ==
    /\ UNCHANGED <<process, clients, manager, pending, cut, targets>>
    /\ worker' \in [Workers -> WorkerRecs] /\ io' \in [Workers -> SUBSET Executions] /\ faults' \in 0 .. MaxFaults
    /\ \A v \in Workers \ {w} : worker'[v] = worker[v]
    /\ \/ worker'[w] = worker[w]
       \/ /\ worker[w].life # "unused" /\ worker'[w].life # "unused"
          /\ Live(worker'[w]) => Live(worker[w]) /\ Owes(worker'[w], pending[w])

(* Such a step keeps the invariant. *)
LEMMA TouchKeeps ==
    ASSUME Inv, NEW w \in Workers, Touches(w)
    PROVE  Inv'
<1>1. /\ UNCHANGED clients /\ UNCHANGED <<client, waited, units>> /\ UNCHANGED <<pool, idle, spawning, debugger>>
      /\ UNCHANGED <<process, pending, cut, targets>>
      /\ \A v \in Workers \ {w} : worker'[v] = worker[v]
      /\ \/ worker'[w] = worker[w]
         \/ /\ worker[w].life # "unused" /\ worker'[w].life # "unused"
            /\ Live(worker'[w]) => Live(worker[w]) /\ Owes(worker'[w], pending[w])
  BY DEF Touches, clients, manager
<1>2. TypeInv'
  <2>1. WorkerType' /\ IoType' /\ SmallType'
    BY DEF Touches, WorkerType, IoType, SmallType, Inv, TypeInv
  <2>2. QED
    BY <1>1, <2>1, TypesKept DEF TypeInv, Inv
<1>3. OwnInv' /\ PlaceInv'
  BY <1>1, OwnKept DEF Inv
<1>4. AskedInv'
  BY <1>1, AskedKept DEF Inv
<1>5. AgeInv' /\ CutInv' /\ WaitInv'
  <2>1. \A s \in Workspaces : pool'[s] # None => pool'[s] \in Workers
    BY <1>1 DEF Inv, TypeInv, PoolType
  <2>2. AgeInv'
    BY <1>1, <2>1, AgeKept DEF Inv
  <2>3. CutInv'
    BY <1>1, CutKept DEF Inv, TypeInv, SmallType
  <2>4. WaitInv'
    BY <1>1, WaitKept DEF Inv
  <2>5. QED
    BY <2>2, <2>3, <2>4
<1>6. WorkInv'
  BY <1>1, WorkKept DEF Inv
<1>7. QED
  BY <1>2, <1>3, <1>4, <1>5, <1>6 DEF Inv

(* A worker with a record of its own has been started. *)
LEMMA Started ==
    ASSUME Inv, NEW w \in Workers, worker[w].outbox # <<>> \/ Live(worker[w])
    PROVE  /\ worker[w].life # "unused" /\ worker[w] \in WorkerRecs
           /\ Live(worker[w]) => Owes(worker[w], pending[w])
<1>1. worker[w] \in WorkerRecs
  BY DEF Inv, TypeInv, WorkerType
<1>2. worker[w].life # "unused"
  BY LifeFacts DEF Inv, OwnInv, OwnAt, Live
<1>3. QED
  BY <1>1, <1>2 DEF Inv, WorkInv

(* What it takes to touch a worker. *)
LEMMA TouchesIf ==
    ASSUME Inv, NEW w \in Workers, NEW new \in WorkerRecs,
           UNCHANGED <<process, clients, manager, pending, cut, targets>>,
           worker' = [worker EXCEPT ![w] = new],
           io' \in [Workers -> SUBSET Executions], faults' \in 0 .. MaxFaults,
           \/ new = worker[w]
           \/ /\ worker[w].life # "unused" /\ new.life # "unused"
              /\ Live(new) => Live(worker[w]) /\ Owes(new, pending[w])
    PROVE  Touches(w)
<1>1. worker \in [Workers -> WorkerRecs]
  BY DEF Inv, TypeInv, WorkerType
<1>2. worker' \in [Workers -> WorkerRecs] /\ worker'[w] = new /\ \A v \in Workers \ {w} : worker'[v] = worker[v]
  BY <1>1
<1>3. QED
  BY <1>2 DEF Touches

(* The first message is taken from a channel. *)
LEMMA TakeFacts ==
    ASSUME NEW rec \in WorkerRecs
    PROVE  /\ rec.inbox # <<>> =>
                LET taken == [rec EXCEPT !.inbox = Tail(@)] IN
                /\ taken \in WorkerRecs /\ taken.life = rec.life /\ taken.inbox = Tail(rec.inbox)
                /\ taken.outbox = rec.outbox /\ taken.running = rec.running
                /\ Head(rec.inbox) \in InMsgs
           /\ rec.outbox # <<>> =>
                LET taken == [rec EXCEPT !.outbox = Tail(@)] IN
                /\ taken \in WorkerRecs /\ taken.life = rec.life /\ taken.outbox = Tail(rec.outbox)
                /\ taken.inbox = rec.inbox /\ taken.running = rec.running
                /\ Head(rec.outbox) \in OutMsgs
<1>1. ASSUME rec.inbox # <<>>
      PROVE  LET taken == [rec EXCEPT !.inbox = Tail(@)] IN
                /\ taken \in WorkerRecs /\ taken.life = rec.life /\ taken.inbox = Tail(rec.inbox)
                /\ taken.outbox = rec.outbox /\ taken.running = rec.running
                /\ Head(rec.inbox) \in InMsgs
  <2>1. Tail(rec.inbox) \in Seq(InMsgs) /\ Head(rec.inbox) \in InMsgs
    BY <1>1, RecFields, Tailed
  <2>2. QED
    BY <2>1 DEF WorkerRecs
<1>2. ASSUME rec.outbox # <<>>
      PROVE  LET taken == [rec EXCEPT !.outbox = Tail(@)] IN
                /\ taken \in WorkerRecs /\ taken.life = rec.life /\ taken.outbox = Tail(rec.outbox)
                /\ taken.inbox = rec.inbox /\ taken.running = rec.running
                /\ Head(rec.outbox) \in OutMsgs
  <2>1. Tail(rec.outbox) \in Seq(OutMsgs) /\ Head(rec.outbox) \in OutMsgs
    BY <1>2, RecFields, Tailed
  <2>2. QED
    BY <2>1 DEF WorkerRecs
<1>3. QED
  BY <1>1, <1>2

(* The worker takes a message. *)
LEMMA WorkerMessageTouches ==
    ASSUME Inv, NEW w \in Workers, WorkerMessage(w), UNCHANGED targets
    PROVE  Touches(w)
<1> DEFINE rec == worker[w]
           message == Head(rec.inbox)
           taken == [rec EXCEPT !.inbox = Tail(@)]
           began == [taken EXCEPT !.outbox = Append(@, Msg("ready", None))]
           runs == [taken EXCEPT !.running = @ \cup {Running(message.exec, 0, "run")}]
           moved == {IF x.exec = message.exec /\ x.state = "call" THEN [x EXCEPT !.state = "run"] ELSE x : x \in taken.running}
           goes == [taken EXCEPT !.running = moved]
           new == CASE message.type = "init" -> began [] message.type = "exec" -> runs [] OTHER -> goes
<1>1. /\ Live(rec) /\ rec.life = "alive" /\ rec.inbox # <<>> /\ worker' = [worker EXCEPT ![w] = new]
      /\ UNCHANGED <<process, clients, manager, pending, cut, targets>> /\ UNCHANGED <<io, faults>>
  BY DEF WorkerMessage, Alive, Live
<1>2. rec \in WorkerRecs /\ rec.life # "unused" /\ Owes(rec, pending[w])
  BY <1>1, Started
<1>3. /\ taken \in WorkerRecs /\ taken.life = rec.life /\ taken.inbox = Tail(rec.inbox)
      /\ taken.outbox = rec.outbox /\ taken.running = rec.running
      /\ message \in InMsgs
  BY <1>1, <1>2, TakeFacts
<1>4. io' \in [Workers -> SUBSET Executions] /\ faults' \in 0 .. MaxFaults
  BY <1>1 DEF Inv, TypeInv, IoType, SmallType
<1> HIDE DEF taken, message, rec
<1>5. message.type \in {"init", "exec", "proxyResponse"} /\ message = Msg(message.type, message.exec)
  BY <1>3, MsgKinds
<1>6. CASE message.type = "init"
  <2>1. Append(taken.outbox, Msg("ready", None)) \in Seq(OutMsgs)
    BY <1>3, MsgFacts, RecFields, Appended
  <2>2. /\ began \in WorkerRecs /\ began.life = taken.life /\ began.inbox = taken.inbox
        /\ began.outbox = Append(taken.outbox, Msg("ready", None)) /\ began.running = taken.running
    BY <1>3, <2>1 DEF WorkerRecs
  <2>3. \A e \in Requests \X Workspaces : message # Msg("exec", e)
    BY <1>5, <1>6 DEF Msg
  <2>4. new = began
    BY <1>6
  <2> HIDE DEF began, new
  <2>5. \E m \in OutMsgs : began.outbox = Append(rec.outbox, m) /\ \A e : m # Msg("result", e)
    BY <1>3, <2>2, MsgFacts
  <2>6. Owes(began, pending[w])
    BY <1>1, <1>2, <1>3, <2>2, <2>3, <2>5, OwesInit DEF message
  <2>7. QED
    BY <1>1, <1>2, <1>3, <1>4, <2>2, <2>4, <2>6, TouchesIf DEF rec
<1>7. CASE message.type = "exec"
  <2> DEFINE x == Running(message.exec, 0, "run")
  <2>1. x \in Runs /\ x.exec = message.exec
    BY <1>3, <1>7, MsgKinds DEF Running, Runs
  <2> HIDE DEF x
  <2>2. /\ runs \in WorkerRecs /\ runs.life = taken.life /\ runs.inbox = taken.inbox
        /\ runs.outbox = taken.outbox /\ runs.running = taken.running \cup {x}
    BY <1>3, <2>1 DEF WorkerRecs, x
  <2>3. new = runs
    BY <1>7
  <2> HIDE DEF runs, new
  <2>4. Head(rec.inbox) = Msg("exec", x.exec)
    BY <1>5, <1>7, <2>1 DEF message
  <2>5. Owes(runs, pending[w])
    BY <1>1, <1>2, <1>3, <2>1, <2>2, <2>4, OwesBegun
  <2>6. QED
    BY <1>1, <1>2, <1>3, <1>4, <2>2, <2>3, <2>5, TouchesIf DEF rec
<1>8. CASE message.type = "proxyResponse"
  <2> DEFINE f == [x \in taken.running |->
                     IF x.exec = message.exec /\ x.state = "call" THEN [x EXCEPT !.state = "run"] ELSE x]
  <2>1. rec.running \in SUBSET Runs
    BY <1>2, RecFields
  <2>2. \A x \in Runs : [x EXCEPT !.state = "run"] \in Runs /\ [x EXCEPT !.state = "run"].exec = x.exec
    BY DEF Runs
  <2>3. \A x \in rec.running : f[x] \in Runs /\ f[x].exec = x.exec
    BY <1>3, <2>1, <2>2
  <2>4. moved = {f[x] : x \in rec.running}
    BY <1>3
  <2> HIDE DEF moved, f
  <2>5. moved \in SUBSET Runs
    BY <2>3, <2>4
  <2>6. /\ goes \in WorkerRecs /\ goes.life = taken.life /\ goes.inbox = taken.inbox
        /\ goes.outbox = taken.outbox /\ goes.running = moved
    BY <1>3, <2>5 DEF WorkerRecs
  <2>7. new = goes
    BY <1>8
  <2> HIDE DEF goes, new
  <2>8. \A e : (Executing(goes, e) <=> Executing(rec, e)) /\ (RunOnce(rec, e) => RunOnce(goes, e))
    BY <1>2, <2>3, <2>4, <2>6, RunMoves
  <2>9. \A e \in Requests \X Workspaces : message # Msg("exec", e)
    BY <1>5, <1>8 DEF Msg
  <2>10. Owes(goes, pending[w])
    BY <1>1, <1>2, <1>3, <2>6, <2>8, <2>9, OwesInit DEF message
  <2>11. QED
    BY <1>1, <1>2, <1>3, <1>4, <2>6, <2>7, <2>10, TouchesIf DEF rec
<1>9. QED
  BY <1>5, <1>6, <1>7, <1>8

(* A function asks for I/O. *)
LEMMA CallTouches ==
    ASSUME Inv, NEW w \in Workers, NEW x \in worker[w].running, Call(w, x), UNCHANGED targets
    PROVE  Touches(w)
<1> DEFINE rec == worker[w]
           y == Running(x.exec, x.calls + 1, "call")
           m == Msg("proxyRequest", x.exec)
           new == [rec EXCEPT !.running = (@ \ {x}) \cup {y}, !.outbox = Append(@, m)]
<1>1. /\ Live(rec) /\ worker' = [worker EXCEPT ![w] = new]
      /\ UNCHANGED <<process, clients, manager, pending, cut, targets>> /\ UNCHANGED <<io, faults>>
  <2>1. worker \in [Workers -> WorkerRecs]
    BY DEF Inv, TypeInv, WorkerType
  <2>2. worker' = [worker EXCEPT ![w].running = (@ \ {x}) \cup {y}, ![w].outbox = Append(@, m)]
    BY DEF Call
  <2>3. worker' = [worker EXCEPT ![w] = new]
    BY <2>1, <2>2
  <2>4. QED
    BY <2>3 DEF Call, Alive, Live
<1>2. rec \in WorkerRecs /\ rec.life # "unused" /\ Owes(rec, pending[w])
  BY <1>1, Started
<1>3. io' \in [Workers -> SUBSET Executions] /\ faults' \in 0 .. MaxFaults
  BY <1>1 DEF Inv, TypeInv, IoType, SmallType
<1>4. x \in Runs /\ rec.running \in SUBSET Runs /\ rec.outbox \in Seq(OutMsgs)
  BY <1>2, RecFields
<1>5. y \in Runs /\ y.exec = x.exec /\ x.exec \in Executions
  BY <1>4 DEF Running, Runs
<1>6. y \in Runs /\ y.exec = x.exec /\ m \in OutMsgs /\ \A e : m # Msg("result", e)
  BY <1>5, MsgFacts, Zenon
<1>7. x \in rec.running
  OBVIOUS
<1> HIDE DEF rec, y, m
<1>8. Append(rec.outbox, m) \in Seq(OutMsgs)
  BY <1>4, <1>6, Appended
<1>9. /\ new \in WorkerRecs /\ new.life = rec.life /\ new.inbox = rec.inbox
      /\ new.outbox = Append(rec.outbox, m) /\ new.running = (rec.running \ {x}) \cup {y}
  BY <1>2, <1>4, <1>6, <1>8 DEF WorkerRecs
<1> HIDE DEF new
<1>10. \A e : (Executing(new, e) <=> Executing(rec, e)) /\ (RunOnce(rec, e) => RunOnce(new, e))
  BY <1>4, <1>6, <1>7, <1>9 DEF Executing, RunOnce, Run
<1>11. Owes(new, pending[w])
  BY <1>2, <1>6, <1>9, <1>10, OwesCalled
<1>12. QED
  BY <1>1, <1>2, <1>3, <1>9, <1>11, TouchesIf DEF rec

(* A chain ends. *)
LEMMA ReturnTouches ==
    ASSUME Inv, NEW w \in Workers, NEW x \in worker[w].running, Return(w, x), UNCHANGED targets
    PROVE  Touches(w)
<1> DEFINE rec == worker[w]
           m == Msg("result", x.exec)
           new == [rec EXCEPT !.running = @ \ {x}, !.outbox = @ \o <<m>>]
<1>1. /\ Live(rec) /\ worker' = [worker EXCEPT ![w] = new]
      /\ UNCHANGED <<process, clients, manager, pending, cut, targets>> /\ UNCHANGED <<io, faults>>
  <2>1. worker \in [Workers -> WorkerRecs]
    BY DEF Inv, TypeInv, WorkerType
  <2>2. worker' = [worker EXCEPT ![w].running = @ \ {x}, ![w].outbox = @ \o <<m>>]
    BY DEF Return, Answers
  <2> HIDE DEF m
  <2>3. worker' = [worker EXCEPT ![w] = new]
    BY <2>1, <2>2
  <2>4. QED
    BY <2>3 DEF Return, Alive, Live
<1>2. rec \in WorkerRecs /\ rec.life # "unused" /\ Owes(rec, pending[w])
  BY <1>1, Started
<1>3. io' \in [Workers -> SUBSET Executions] /\ faults' \in 0 .. MaxFaults
  BY <1>1 DEF Inv, TypeInv, IoType, SmallType
<1>4. x \in Runs /\ rec.running \in SUBSET Runs /\ rec.outbox \in Seq(OutMsgs)
  BY <1>2, RecFields
<1>5. m \in OutMsgs
  BY <1>4, MsgFacts DEF Runs
<1>6. x \in rec.running
  OBVIOUS
<1> HIDE DEF rec, m
<1>7. rec.outbox \o <<m>> = Append(rec.outbox, m) /\ Append(rec.outbox, m) \in Seq(OutMsgs)
  BY <1>4, <1>5, AppendIsConcat, Appended
<1>8. new = [rec EXCEPT !.running = @ \ {x}, !.outbox = Append(@, m)]
  BY <1>7
<1> HIDE DEF new
<1>9. /\ new \in WorkerRecs /\ new.life = rec.life /\ new.inbox = rec.inbox
      /\ new.outbox = Append(rec.outbox, m) /\ new.running = rec.running \ {x}
  BY <1>2, <1>4, <1>5, <1>7, <1>8 DEF WorkerRecs
<1>10. Owes(new, pending[w])
  BY <1>2, <1>4, <1>6, <1>9, OwesReturned DEF m
<1>11. QED
  BY <1>1, <1>2, <1>3, <1>9, <1>10, TouchesIf DEF rec

(* A worker hangs. *)
LEMMA HangTouches ==
    ASSUME Inv, NEW w \in Workers, Hang(w), UNCHANGED targets
    PROVE  Touches(w)
<1> DEFINE rec == worker[w]
           new == [rec EXCEPT !.life = "hung"]
<1>1. /\ Live(rec) /\ worker' = [worker EXCEPT ![w] = new]
      /\ UNCHANGED <<process, clients, manager, pending, cut, targets>> /\ UNCHANGED io
      /\ faults < MaxFaults /\ faults' = faults + 1
  <2>1. worker \in [Workers -> WorkerRecs]
    BY DEF Inv, TypeInv, WorkerType
  <2>2. worker' = [worker EXCEPT ![w] = new]
    BY <2>1 DEF Hang
  <2>3. QED
    BY <2>2 DEF Hang, Alive, Live
<1>2. rec \in WorkerRecs /\ rec.life # "unused" /\ Owes(rec, pending[w])
  BY <1>1, Started
<1>3. io' \in [Workers -> SUBSET Executions] /\ faults' \in 0 .. MaxFaults
  BY <1>1, ConstantsAssumption DEF Inv, TypeInv, IoType, SmallType
<1> HIDE DEF rec
<1>4. /\ new \in WorkerRecs /\ new.life = "hung" /\ new.inbox = rec.inbox
      /\ new.outbox = rec.outbox /\ new.running = rec.running
  BY <1>2 DEF WorkerRecs, Lives
<1> HIDE DEF new
<1>5. Owes(new, pending[w])
  BY <1>2, <1>4 DEF Owes, Once, Somewhere, In, Out, Executing, InOnce, OutOnce, RunOnce, Inbound, Outbound, Run
<1>6. QED
  BY <1>1, <1>2, <1>3, <1>4, <1>5, TouchesIf DEF rec

(* The main process has done the I/O. *)
LEMMA IoDoneTouches ==
    ASSUME Inv, NEW w \in Workers, NEW exec \in io[w], IoDone(w, exec), UNCHANGED targets
    PROVE  Touches(w)
<1> DEFINE rec == worker[w]
           m == Msg("proxyResponse", exec)
           new == Post(rec, m)
<1>1. /\ worker' = [worker EXCEPT ![w] = new] /\ io' = [io EXCEPT ![w] = @ \ {exec}]
      /\ UNCHANGED <<process, clients, manager, pending, cut, targets>> /\ UNCHANGED faults
  BY DEF IoDone
<1>2. rec \in WorkerRecs /\ io \in [Workers -> SUBSET Executions] /\ faults \in 0 .. MaxFaults
  BY DEF Inv, TypeInv, WorkerType, IoType, SmallType
<1>3. io' \in [Workers -> SUBSET Executions] /\ faults' \in 0 .. MaxFaults
  BY <1>1, <1>2
<1>4. m \in InMsgs /\ \A e \in Requests \X Workspaces : m # Msg("exec", e)
  BY <1>2, MsgFacts
<1>5. CASE Live(rec)
  <2>1. rec.life # "unused" /\ Owes(rec, pending[w])
    BY <1>5, Started
  <2> HIDE DEF rec, m
  <2>2. /\ new \in WorkerRecs /\ new.life = rec.life /\ new.inbox = Append(rec.inbox, m)
        /\ new.outbox = rec.outbox /\ new.running = rec.running
    BY <1>2, <1>4, <1>5, PostFacts
  <2> HIDE DEF new
  <2>3. Owes(new, pending[w])
    BY <1>2, <1>4, <2>1, <2>2, OwesPosted
  <2>4. QED
    BY <1>1, <1>3, <1>5, <2>1, <2>2, <2>3, TouchesIf DEF rec
<1>6. CASE ~Live(rec)
  <2>1. new = rec
    BY <1>6 DEF Post, Live
  <2> HIDE DEF new
  <2>2. QED
    BY <1>1, <1>2, <1>3, <2>1, TouchesIf
<1>7. QED
  BY <1>5, <1>6

-----------------------------------------------------------------------------
(* Requests.                                                                 *)

(* A request is sent. *)
LEMMA SendKeeps ==
    ASSUME Inv, NEW r \in Requests, Send(r), UNCHANGED targets
    PROVE  Inv'
<1>1. /\ UNCHANGED <<process, waited, units, pool, idle, spawning, debugger, worker, pending, io, faults, cut, targets>>
      /\ client[r] = "idle" /\ client' = [client EXCEPT ![r] = "waiting"] /\ process # "exited"
  BY DEF Send, manager
<1>2. client \in [Requests -> {"idle", "waiting", "ok", "error", "gone"}]
  BY DEF Inv, TypeInv, ClientType
<1>3. client'[r] = "waiting" /\ \A q \in Requests \ {r} : client'[q] = client[q]
  BY <1>1, <1>2
<1>4. TypeInv'
  <2>1. ClientType'
    BY <1>1, <1>2 DEF Inv, TypeInv, ClientType
  <2>2. QED
    BY <1>1, <2>1, TypesKept DEF TypeInv, Inv
<1>5. OwnInv' /\ PlaceInv'
  BY <1>1, OwnKept DEF Inv
<1>6. AskedInv'
  BY <1>1, <1>3, AskedKept DEF Inv, AskedInv
<1>7. AgeInv'
  <2>1. \A w \in Workers : \A e \in pending[w] : client[e[1]] # "idle" /\ e[1] \in Requests
    BY DEF Inv, AskedInv, Asked
  <2>2. \A w \in Workers : \A e \in pending'[w] : client'[e[1]] = "waiting" => client[e[1]] = "waiting"
    BY <1>1, <1>3, <2>1
  <2>3. \A s \in Workspaces : pool'[s] # None => pool'[s] \in Workers
    BY <1>1 DEF Inv, TypeInv, PoolType
  <2>4. QED
    BY <1>1, <2>2, <2>3, AgeKept DEF Inv
<1>8. CutInv'
  BY <1>1, <1>3, CutKept DEF Inv, TypeInv, SmallType
<1>9. WaitInv' /\ WorkInv'
  BY <1>1, WaitKept, WorkKept DEF Inv
<1>10. QED
  BY <1>4, <1>5, <1>6, <1>7, <1>8, <1>9 DEF Inv

(* A target of a request is executed by the worker of its workspace. *)
LEMMA HandleNowKeeps ==
    ASSUME Inv, NEW r \in Requests, NEW s \in Workspaces, Handle(r, s), pool[s] # None, UNCHANGED targets
    PROVE  Inv'
<1> DEFINE w == pool[s]
           exec == <<r, s>>
           rec == worker[w]
           m == Msg("exec", exec)
           new == Post(rec, m)
<1>1. /\ UNCHANGED <<process, client, waited, units, pool, spawning, debugger, io, faults, cut, targets>>
      /\ client[r] # "idle" /\ s \in units[r] /\ ~Dispatched(r, s)
      /\ idle' = [idle EXCEPT ![s] = 0] /\ pending' = [pending EXCEPT ![w] = @ \cup {exec}]
      /\ worker' = [worker EXCEPT ![w] = new]
  BY DEF Handle, Dispatch, clients, Used
<1>2. /\ w \in Workers /\ rec \in WorkerRecs /\ exec \in Requests \X Workspaces /\ exec \in Executions
      /\ worker \in [Workers -> WorkerRecs] /\ pending \in [Workers -> SUBSET Executions]
      /\ idle \in [Workspaces -> 0 .. (Ttl + 1)] /\ pool \in [Workspaces -> Workers \cup {None}]
  BY PoolExecutions DEF Inv, TypeInv, PoolType, WorkerType, PendingType
<1>3. m \in InMsgs
  BY <1>2, MsgFacts
<1>4. rec.life # "unused"
  BY <1>2 DEF Inv, OwnInv, OwnAt, Owned
<1>5. exec \notin pending[w] /\ Asked(exec)
  BY <1>1, <1>2 DEF Dispatched, Asked, Inv, AskedInv
<1>6. \A i \in DOMAIN spawning[s].waiters : spawning[s].waiters[i] # exec
  BY <1>1 DEF Dispatched
<1>7. pool[s] = w
  OBVIOUS
<1> HIDE DEF w, exec, rec, m
<1>8. /\ new \in WorkerRecs /\ new.life = rec.life /\ (Live(rec) => new.inbox = Append(rec.inbox, m))
      /\ new.outbox = rec.outbox /\ new.running = rec.running
  BY <1>2, <1>3, PostFacts
<1> HIDE DEF new
<1>9. Live(new) => Owes(new, pending[w] \cup {exec})
  <2>1. SUFFICES ASSUME Live(rec) PROVE Owes(new, pending[w] \cup {exec})
    BY <1>8 DEF Live
  <2>2. Owes(rec, pending[w])
    BY <1>2, <2>1 DEF Inv, WorkInv, rec
  <2>3. QED
    BY <1>2, <1>3, <1>5, <1>8, <2>1, <2>2, OwesPosted DEF m
<1>10. /\ worker' \in [Workers -> WorkerRecs] /\ worker'[w] = new
       /\ \A v \in Workers \ {w} : worker'[v] = worker[v]
       /\ pending' \in [Workers -> SUBSET Executions] /\ pending'[w] = pending[w] \cup {exec}
       /\ \A v \in Workers \ {w} : pending'[v] = pending[v]
       /\ idle' \in [Workspaces -> 0 .. (Ttl + 1)] /\ idle'[s] = 0 /\ \A q \in Workspaces \ {s} : idle'[q] = idle[q]
  BY <1>1, <1>2, <1>8, Clocks
<1>11. TypeInv'
  <2>1. PoolType' /\ WorkerType' /\ PendingType'
    BY <1>1, <1>2, <1>10 DEF PoolType, WorkerType, PendingType
  <2>2. QED
    BY <1>1, <2>1, TypesKept DEF TypeInv, Inv, clients
<1>12. OwnInv' /\ PlaceInv'
  <2>1. \A v \in Workers : /\ Live(worker'[v]) => Live(worker[v])
                           /\ worker'[v].life = "unused" => worker'[v] = worker[v] /\ pending'[v] = pending[v]
    BY <1>4, <1>8, <1>10 DEF Live, rec
  <2>2. QED
    BY <1>1, <2>1, OwnKept DEF Inv
<1>13. AskedInv'
  <2>1. \A v \in Workers : \A e \in pending'[v] : Asked(e) \/ e \in pending[v]
    BY <1>5, <1>10
  <2>2. QED
    BY <1>1, <2>1, AskedKept DEF Inv
<1>14. AgeInv'
  <2>1. ASSUME NEW q \in Workspaces, pool'[q] # None, NEW e \in pending'[pool'[q]], client'[e[1]] = "waiting"
        PROVE  idle'[q] <= waited'[e[1]]
    <3>1. pool'[q] = pool[q] /\ pool[q] \in Workers
      BY <1>1, <1>2, <2>1
    <3>2. CASE q = s
      <4>1. pending'[w] \subseteq Executions
        BY <1>2, <1>10
      <4>2. e[1] \in Requests
        BY <1>7, <2>1, <3>1, <3>2, <4>1, PoolExecutions
      <4>3. waited'[e[1]] \in Nat
        BY <1>1, <4>2, Clocks DEF Inv, TypeInv, ClientType
      <4>4. QED
        BY <1>10, <3>2, <4>3
    <3>3. CASE q # s
      <4>1. pool[q] # w
        BY <1>2, <1>7, <3>1, <3>3 DEF Inv, OwnInv, OwnAt
      <4>2. QED
        BY <1>1, <1>10, <2>1, <3>1, <3>3, <4>1 DEF Inv, AgeInv
    <3>4. QED
      BY <3>2, <3>3
  <2>2. QED
    BY <2>1 DEF AgeInv
<1>15. CutInv'
  BY <1>1, CutKept DEF Inv, TypeInv, SmallType
<1>16. WaitInv'
  <2>1. ASSUME NEW q \in Workspaces, NEW i \in DOMAIN spawning[q].waiters, NEW v \in Workers
        PROVE  spawning[q].waiters[i] \notin pending'[v]
    <3>1. spawning[q].waiters[i] \notin pending[v] /\ spawning[q].waiters[i][2] = q
      BY DEF Inv, WaitInv, AskedInv
    <3>2. spawning[q].waiters[i] # exec
      BY <1>6, <3>1 DEF exec
    <3>3. QED
      BY <1>10, <3>1, <3>2
  <2>2. QED
    BY <1>1, <2>1 DEF WaitInv, Inv
<1>17. WorkInv'
  BY <1>9, <1>10, WorkKept DEF Inv
<1>18. QED
  BY <1>11, <1>12, <1>13, <1>14, <1>15, <1>16, <1>17 DEF Inv

(* ... or awaits its start. *)
LEMMA AwaitKeeps ==
    ASSUME Inv, NEW r \in Requests, NEW s \in Workspaces, client[r] # "idle", s \in units[r], ~Dispatched(r, s),
           UNCHANGED <<pending, units, client, debugger, process, targets>>,
           spawning'[s].waiters = Append(spawning[s].waiters, <<r, s>>),
           \A q \in Workspaces \ {s} : spawning'[q] = spawning[q]
    PROVE  AskedInv' /\ WaitInv'
<1> DEFINE exec == <<r, s>>
           old == spawning[s].waiters
           now == spawning'[s].waiters
           n == Len(old)
<1>1. Asked(exec) /\ exec[2] = s /\ exec \in Executions
  BY PoolExecutions DEF Inv, AskedInv, Asked
<1>2. (\A i \in DOMAIN old : old[i] # exec) /\ \A w \in Workers : exec \notin pending[w]
  BY DEF Dispatched
<1>3. old \in Seq(Executions)
  BY DEF Inv, TypeInv, SpawnType, Spawns
<1> HIDE DEF exec
<1>4. now = Append(old, exec)
  BY DEF exec
<1> HIDE DEF old, now
<1>5. /\ DOMAIN now = 1 .. (n + 1) /\ DOMAIN old = 1 .. n /\ n \in Nat
      /\ \A j \in 1 .. n : now[j] = old[j]
      /\ now[n + 1] = exec
  BY <1>1, <1>3, <1>4, Appended
<1> HIDE DEF n
<1>6. \A i \in DOMAIN now : (i \in DOMAIN old /\ now[i] = old[i]) \/ (i = n + 1 /\ i \notin DOMAIN old /\ now[i] = exec)
  BY <1>5
<1> HIDE <1>5
<1>7. AskedInv'
  <2>1. ASSUME NEW q \in Workspaces, NEW i \in DOMAIN spawning'[q].waiters
        PROVE  LET e == spawning'[q].waiters[i] IN
               (Asked(e) /\ e[2] = q) \/ (i \in DOMAIN spawning[q].waiters /\ e = spawning[q].waiters[i])
    <3>1. CASE q = s
      <4>1. i \in DOMAIN now
        BY <3>1 DEF now
      <4>2. CASE now[i] = exec
        <5>1. Asked(now[i]) /\ now[i][2] = s
          BY <1>1, <4>2
        <5>2. QED
          BY <3>1, <5>1 DEF now, Asked
      <4>3. CASE i \in DOMAIN old /\ now[i] = old[i]
        BY <3>1, <4>3 DEF old, now
      <4>4. QED
        BY <1>6, <4>1, <4>2, <4>3
    <3>2. CASE q # s
      BY <3>2
    <3>3. QED
      BY <3>1, <3>2
  <2>2. QED
    BY <2>1, AskedKept DEF Inv
<1>8. WaitInv'
  <2>1. ASSUME NEW q \in Workspaces
        PROVE  /\ \A i, j \in DOMAIN spawning'[q].waiters : spawning'[q].waiters[i] = spawning'[q].waiters[j] => i = j
               /\ \A i \in DOMAIN spawning'[q].waiters : \A w \in Workers : spawning'[q].waiters[i] \notin pending'[w]
    <3>1. CASE q # s
      BY <3>1 DEF Inv, WaitInv
    <3>2. CASE q = s
      <4>1. /\ \A i, j \in DOMAIN old : old[i] = old[j] => i = j
            /\ \A i \in DOMAIN old : \A w \in Workers : old[i] \notin pending[w]
        BY DEF Inv, WaitInv, old
      <4>2. \A i, j \in DOMAIN now : now[i] = now[j] => i = j
        BY <1>2, <1>6, <4>1
      <4>3. \A i \in DOMAIN now : \A w \in Workers : now[i] \notin pending[w]
        BY <1>2, <1>6, <4>1
      <4>4. QED
        BY <3>2, <4>2, <4>3 DEF now
    <3>3. QED
      BY <3>1, <3>2
  <2>2. QED
    BY <2>1 DEF WaitInv
<1>9. QED
  BY <1>7, <1>8

(* ... that is under way. *)
LEMMA HandleAwaitKeeps ==
    ASSUME Inv, NEW r \in Requests, NEW s \in Workspaces, Handle(r, s), pool[s] = None, Awaited(s),
    UNCHANGED targets
    PROVE  Inv'
<1> DEFINE exec == <<r, s>>
<1>1. /\ UNCHANGED <<process, client, waited, units, pool, idle, debugger, worker, pending, io, faults, cut, targets>>
      /\ UNCHANGED clients /\ client[r] # "idle" /\ s \in units[r] /\ ~Dispatched(r, s)
      /\ spawning' = [spawning EXCEPT ![s].waiters = Append(@, exec)]
  BY DEF Handle, Dispatch, clients
<1>2. spawning \in [Workspaces -> Spawns] /\ exec \in Executions
  BY PoolExecutions DEF Inv, TypeInv, SpawnType
<1> HIDE DEF exec
<1>3. Append(spawning[s].waiters, exec) \in Seq(Executions)
  BY <1>2, Appended DEF Spawns
<1>4. /\ spawning' \in [Workspaces -> Spawns]
      /\ spawning'[s].waiters = Append(spawning[s].waiters, exec) /\ spawning'[s].worker = spawning[s].worker
      /\ \A q \in Workspaces \ {s} : spawning'[q] = spawning[q]
  BY <1>1, <1>2, <1>3 DEF Spawns
<1>5. TypeInv'
  <2>1. SpawnType'
    BY <1>4 DEF SpawnType
  <2>2. QED
    BY <1>1, <2>1, TypesKept DEF TypeInv, Inv
<1>6. AskedInv' /\ WaitInv'
  BY <1>1, <1>4, AwaitKeeps DEF exec
<1>7. OwnInv' /\ PlaceInv'
  BY <1>1, <1>4, OwnKept DEF Inv
<1>8. AgeInv' /\ CutInv' /\ WorkInv'
  BY <1>1 DEF Inv, AgeInv, CutInv, WorkInv
<1>9. QED
  BY <1>5, <1>6, <1>7, <1>8 DEF Inv

(* A worker that has not been started. *)
LEMMA FreshFacts ==
    ASSUME Inv, NEW fresh \in Fresh
    PROVE  /\ fresh \in Workers /\ fresh # None /\ worker[fresh].life = "unused" /\ pending[fresh] = {}
           /\ ~Owned(fresh)
BY NoneAssumption DEF Fresh, Inv, OwnInv, OwnAt

(* A worker that nothing happens to. *)
LEMMA OwnOther ==
    ASSUME OwnInv, NEW w \in Workers,
           \A s \in Workspaces : pool'[s] = w <=> pool[s] = w,
           \A s \in Workspaces : spawning'[s].worker = w <=> spawning[s].worker = w,
           \A r \in Requests : debugger'[r] = w <=> debugger[r] = w,
           worker'[w] = worker[w], pending'[w] = pending[w]
    PROVE  OwnAt(w)'
BY DEF OwnInv, OwnAt, Owned, Live

(* The first request of a workspace has its worker started. *)
LEMMA HandleSpawnKeeps ==
    ASSUME Inv, NEW r \in Requests, NEW s \in Workspaces, Handle(r, s), pool[s] = None, ~Awaited(s),
    UNCHANGED targets
    PROVE  Inv'
<1> DEFINE exec == <<r, s>>
<1>1. /\ UNCHANGED <<process, client, waited, units, pool, idle, debugger, pending, io, faults, cut, targets>>
      /\ UNCHANGED clients /\ client[r] # "idle" /\ s \in units[r] /\ ~Dispatched(r, s) /\ spawning[s].worker = None
  BY DEF Handle, Dispatch, clients, Awaited
<1>2. PICK fresh \in Fresh :
         /\ worker' = [worker EXCEPT ![fresh] = Starting]
         /\ spawning' = [spawning EXCEPT ![s] = [worker |-> fresh, waiters |-> Append(@.waiters, exec)]]
  BY DEF Handle, Dispatch
<1>3. /\ fresh \in Workers /\ fresh # None /\ worker[fresh].life = "unused" /\ pending[fresh] = {}
      /\ ~Owned(fresh)
  BY FreshFacts
<1>4. /\ spawning \in [Workspaces -> Spawns] /\ exec \in Executions /\ worker \in [Workers -> WorkerRecs]
      /\ Starting \in WorkerRecs /\ Starting.life = "alive"
  BY PoolExecutions, LifeFacts DEF Inv, TypeInv, SpawnType, WorkerType
<1> HIDE DEF exec
<1>5. Append(spawning[s].waiters, exec) \in Seq(Executions)
  BY <1>4, Appended DEF Spawns
<1>6. /\ spawning' \in [Workspaces -> Spawns]
      /\ spawning'[s].waiters = Append(spawning[s].waiters, exec) /\ spawning'[s].worker = fresh
      /\ \A q \in Workspaces \ {s} : spawning'[q] = spawning[q]
  BY <1>2, <1>3, <1>4, <1>5 DEF Spawns
<1>7. /\ worker' \in [Workers -> WorkerRecs] /\ worker'[fresh] = Starting
      /\ \A v \in Workers \ {fresh} : worker'[v] = worker[v]
  BY <1>2, <1>3, <1>4
<1>8. TypeInv'
  <2>1. SpawnType' /\ WorkerType'
    BY <1>6, <1>7 DEF SpawnType, WorkerType
  <2>2. QED
    BY <1>1, <2>1, TypesKept DEF TypeInv, Inv
<1>9. AskedInv' /\ WaitInv'
  BY <1>1, <1>6, AwaitKeeps DEF exec
<1>10. OwnInv'
  <2>1. ASSUME NEW w \in Workers, w # fresh PROVE OwnAt(w)'
    <3>1. w # None
      BY NoneAssumption
    <3>2. \A q \in Workspaces : spawning'[q].worker = w <=> spawning[q].worker = w
      BY <1>1, <1>6, <2>1, <3>1
    <3>3. QED
      BY <1>1, <1>7, <2>1, <3>2, OwnOther DEF Inv
  <2>2. OwnAt(fresh)'
    <3>1. /\ \A q \in Workspaces : pool'[q] # fresh
          /\ \A q \in Requests : debugger'[q] # fresh
          /\ \A q \in Workspaces : spawning'[q].worker = fresh => q = s
      BY <1>1, <1>3, <1>6 DEF Owned
    <3>2. worker'[fresh].life = "alive" /\ spawning'[s].worker = fresh
      BY <1>4, <1>6, <1>7
    <3>3. QED
      BY <3>1, <3>2 DEF OwnAt, Owned
  <2>3. QED
    BY <2>1, <2>2 DEF OwnInv
<1>11. PlaceInv'
  BY <1>1, <1>6 DEF Inv, PlaceInv
<1>12. AgeInv' /\ CutInv'
  BY <1>1 DEF Inv, AgeInv, CutInv
<1>13. WorkInv'
  BY <1>1, <1>3, <1>7, OwesStarting, WorkKept DEF Inv
<1>14. QED
  BY <1>8, <1>9, <1>10, <1>11, <1>12, <1>13 DEF Inv

(* The debugger starts a worker of its own. *)
LEMMA UdfRunKeeps ==
    ASSUME Inv, NEW r \in Requests, UdfRun(r), UNCHANGED targets
    PROVE  Inv'
<1>1. /\ UNCHANGED <<process, waited, units, pool, idle, spawning, pending, io, faults, cut, targets>>
      /\ process # "exited" /\ client[r] = "idle" /\ client' = [client EXCEPT ![r] = "waiting"]
      /\ r \in DOMAIN targets /\ targets[r] = {}
  BY DEF UdfRun, Made, IsDebug
<1>2. PICK fresh \in Fresh :
         /\ worker' = [worker EXCEPT ![fresh] = Starting]
         /\ debugger' = [debugger EXCEPT ![r] = fresh]
  BY DEF UdfRun
<1>3. /\ fresh \in Workers /\ fresh # None /\ worker[fresh].life = "unused" /\ pending[fresh] = {}
      /\ ~Owned(fresh)
  BY FreshFacts
<1>4. /\ debugger \in [Requests -> Workers \cup {None}] /\ worker \in [Workers -> WorkerRecs]
      /\ client \in [Requests -> {"idle", "waiting", "ok", "error", "gone"}]
      /\ Starting \in WorkerRecs /\ Starting.life = "alive"
  BY LifeFacts DEF Inv, TypeInv, DebugType, WorkerType, ClientType
<1>5. /\ debugger' \in [Requests -> Workers \cup {None}] /\ debugger'[r] = fresh
      /\ \A q \in Requests \ {r} : debugger'[q] = debugger[q]
      /\ client'[r] = "waiting" /\ \A q \in Requests \ {r} : client'[q] = client[q]
  BY <1>1, <1>2, <1>3, <1>4
<1>6. debugger[r] = None
  BY <1>1, <1>4 DEF Inv, AskedInv
<1>7. /\ worker' \in [Workers -> WorkerRecs] /\ worker'[fresh] = Starting
      /\ \A v \in Workers \ {fresh} : worker'[v] = worker[v]
  BY <1>2, <1>3, <1>4
<1>8. TypeInv'
  <2>1. DebugType' /\ WorkerType'
    BY <1>5, <1>7 DEF DebugType, WorkerType
  <2>2. ClientType'
    BY <1>1, <1>4 DEF Inv, TypeInv, ClientType
  <2>3. QED
    BY <1>1, <2>1, <2>2, TypesKept DEF TypeInv, Inv
<1>9. OwnInv'
  <2>1. ASSUME NEW w \in Workers, w # fresh PROVE OwnAt(w)'
    <3>1. w # None
      BY NoneAssumption
    <3>2. \A q \in Requests : debugger'[q] = w <=> debugger[q] = w
      BY <1>5, <1>6, <2>1, <3>1
    <3>3. QED
      BY <1>1, <1>7, <2>1, <3>2, OwnOther DEF Inv
  <2>2. OwnAt(fresh)'
    <3>1. /\ \A q \in Workspaces : pool'[q] # fresh /\ spawning'[q].worker # fresh
          /\ \A q \in Requests : debugger'[q] = fresh => q = r
      BY <1>1, <1>3, <1>5 DEF Owned
    <3>2. worker'[fresh].life = "alive" /\ debugger'[r] = fresh
      BY <1>4, <1>5, <1>7
    <3>3. QED
      BY <3>1, <3>2 DEF OwnAt, Owned
  <2>3. QED
    BY <2>1, <2>2 DEF OwnInv
<1>10. PlaceInv'
  BY <1>1 DEF Inv, PlaceInv
<1>11. AskedInv'
  <2>1. \A q \in Requests : debugger'[q] # None =>
              \/ /\ debugger[q] # None
                 /\ process' # "exited" => process # "exited" /\ (client'[q] = client[q] \/ client'[q] = "gone")
              \/ q \in DOMAIN targets /\ targets[q] = {} /\ client'[q] = "waiting"
    BY <1>1, <1>5
  <2>2. \A q \in Requests : client[q] # "idle" => client'[q] # "idle"
    BY <1>1, <1>5
  <2>3. QED
    BY <1>1, <2>1, <2>2, AskedKept DEF Inv
<1>12. AgeInv'
  <2>1. \A w \in Workers : \A e \in pending[w] : client[e[1]] # "idle" /\ e[1] \in Requests
    BY DEF Inv, AskedInv, Asked
  <2>2. \A w \in Workers : \A e \in pending'[w] : client'[e[1]] = "waiting" => client[e[1]] = "waiting"
    BY <1>1, <1>5, <2>1
  <2>3. \A s \in Workspaces : pool'[s] # None => pool'[s] \in Workers
    BY <1>1 DEF Inv, TypeInv, PoolType
  <2>4. QED
    BY <1>1, <2>2, <2>3, AgeKept DEF Inv
<1>13. CutInv'
  BY <1>1, <1>5, CutKept DEF Inv, TypeInv, SmallType
<1>14. WaitInv'
  BY <1>1, WaitKept DEF Inv
<1>15. WorkInv'
  BY <1>1, <1>3, <1>7, OwesStarting, WorkKept DEF Inv
<1>16. QED
  BY <1>8, <1>9, <1>10, <1>11, <1>12, <1>13, <1>14, <1>15 DEF Inv

-----------------------------------------------------------------------------
(* Messages of workers.                                                      *)

(* The first message of a worker. *)
Taken(w) == [worker[w] EXCEPT !.outbox = Tail(@)]

(* ... when it is taken. *)
LEMMA TakenFacts ==
    ASSUME Inv, NEW w \in Workers, worker[w].outbox # <<>>
    PROVE  /\ worker[w] \in WorkerRecs /\ worker[w].life # "unused"
           /\ Taken(w) \in WorkerRecs /\ Taken(w).life = worker[w].life
           /\ Taken(w).outbox = Tail(worker[w].outbox) /\ Taken(w).inbox = worker[w].inbox
           /\ Taken(w).running = worker[w].running
           /\ Head(worker[w].outbox) \in OutMsgs
           /\ Live(worker[w]) => Owes(worker[w], pending[w])
BY Started, TakeFacts DEF Taken

(* A message that is not a result leaves what the worker owes as it is. *)
LEMMA TakenOwes ==
    ASSUME Inv, NEW w \in Workers, worker[w].outbox # <<>>, Live(worker[w]),
           Head(worker[w].outbox).type \in {"ready", "proxyRequest"}
    PROVE  Owes(Taken(w), pending[w])
<1> DEFINE rec == worker[w]
           new == Taken(w)
<1>1. /\ rec \in WorkerRecs /\ new \in WorkerRecs /\ new.outbox = Tail(rec.outbox) /\ new.inbox = rec.inbox
      /\ new.running = rec.running /\ rec.outbox # <<>> /\ Owes(rec, pending[w])
  BY TakenFacts
<1>2. \A e \in Requests \X Workspaces : Head(rec.outbox) # Msg("result", e)
  BY DEF Msg
<1> HIDE DEF rec, new
<1>3. Owes(new, pending[w])
  BY <1>1, <1>2, OwesTaken
<1>4. QED
  BY <1>3 DEF new

(* I/O is asked for. *)
LEMMA ProxyTouches ==
    ASSUME Inv, NEW w \in Workers, OnMessage(w), Head(worker[w].outbox).type = "proxyRequest", UNCHANGED targets
    PROVE  Touches(w)
<1>1. /\ UNCHANGED <<process, clients, manager, pending, cut, targets>> /\ UNCHANGED faults
      /\ worker[w].outbox # <<>> /\ worker' = [worker EXCEPT ![w] = Taken(w)]
      /\ io' = [io EXCEPT ![w] = @ \cup {Head(worker[w].outbox).exec}]
  BY DEF OnMessage, Taken
<1>2. /\ worker[w].life # "unused" /\ Taken(w) \in WorkerRecs /\ Taken(w).life = worker[w].life
      /\ Head(worker[w].outbox).exec \in Executions
  BY <1>1, TakenFacts, MsgKinds
<1>3. io' \in [Workers -> SUBSET Executions] /\ faults' \in 0 .. MaxFaults
  BY <1>1, <1>2 DEF Inv, TypeInv, IoType, SmallType
<1>4. Live(worker[w]) => Owes(Taken(w), pending[w])
  BY <1>1, TakenOwes
<1>5. QED
  BY <1>1, <1>2, <1>3, <1>4, TouchesIf DEF Live

(* The debugger's worker is ready. *)
LEMMA ReadyDebugTouches ==
    ASSUME Inv, NEW w \in Workers, worker[w].outbox # <<>>, Head(worker[w].outbox).type = "ready",
           NEW r \in Requests, debugger[r] = w,
           worker' = [worker EXCEPT ![w] = Post(Taken(w), Msg("exec", <<r, None>>))],
           UNCHANGED <<process, clients, manager, pending, io, faults, cut, targets>>
    PROVE  Touches(w)
<1> DEFINE mid == Taken(w)
           exec == <<r, None>>
           m == Msg("exec", exec)
           new == Post(mid, m)
<1>1. /\ mid \in WorkerRecs /\ mid.life = worker[w].life /\ worker[w].life # "unused"
      /\ Live(worker[w]) => Owes(mid, pending[w])
  BY TakenFacts, TakenOwes
<1>2. m \in InMsgs /\ \A e \in Requests \X Workspaces : m # Msg("exec", e)
  BY MsgFacts, PoolExecutions
<1>3. io' \in [Workers -> SUBSET Executions] /\ faults' \in 0 .. MaxFaults
  BY DEF Inv, TypeInv, IoType, SmallType
<1>4. worker' = [worker EXCEPT ![w] = new]
  OBVIOUS
<1> HIDE DEF mid, m
<1>5. /\ new \in WorkerRecs /\ new.life = mid.life /\ (Live(mid) => new.inbox = Append(mid.inbox, m))
      /\ new.outbox = mid.outbox /\ new.running = mid.running
  BY <1>1, <1>2, PostFacts
<1> HIDE DEF new
<1>6. Live(mid) => Owes(new, pending[w])
  <2>1. SUFFICES ASSUME Live(mid) PROVE Owes(new, pending[w])
    OBVIOUS
  <2>2. Owes(mid, pending[w])
    BY <1>1, <2>1 DEF Live
  <2>3. QED
    BY <1>1, <1>2, <1>5, <2>1, <2>2, OwesPosted
<1>7. QED
  BY <1>1, <1>3, <1>4, <1>5, <1>6, TouchesIf DEF Live

(* A worker that was spawned is ready: it goes to the pool, and those who awaited *)
(* it are served.                                                                 *)
LEMMA ReadyPoolKeeps ==
    ASSUME Inv, NEW w \in Workers, worker[w].outbox # <<>>, Head(worker[w].outbox).type = "ready",
           NEW s \in Workspaces, spawning[s].worker = w, NEW new,
           pool' = [pool EXCEPT ![s] = w], idle' = [idle EXCEPT ![s] = 0],
           spawning' = [spawning EXCEPT ![s] = Nothing],
           pending' = [pending EXCEPT ![w] =
                          @ \cup {spawning[s].waiters[i] : i \in DOMAIN spawning[s].waiters}],
           worker' = [worker EXCEPT ![w] = new],
           new = [Taken(w) EXCEPT !.inbox =
                     IF Taken(w).life \in {"alive", "hung"}
                     THEN @ \o [i \in DOMAIN spawning[s].waiters |-> Msg("exec", spawning[s].waiters[i])] ELSE @],
           UNCHANGED <<process, clients, debugger, io, faults, cut, targets>>
    PROVE  Inv'
<1> DEFINE mid == Taken(w)
           waiters == spawning[s].waiters
           posts == [i \in DOMAIN waiters |-> Msg("exec", waiters[i])]
           asked == {waiters[i] : i \in DOMAIN waiters}
<1>1. /\ mid \in WorkerRecs /\ mid.life = worker[w].life /\ worker[w].life # "unused"
      /\ Live(worker[w]) => Owes(mid, pending[w])
  BY TakenFacts, TakenOwes
<1>2. /\ pool \in [Workspaces -> Workers \cup {None}] /\ idle \in [Workspaces -> 0 .. (Ttl + 1)]
      /\ spawning \in [Workspaces -> Spawns] /\ pending \in [Workers -> SUBSET Executions]
      /\ worker \in [Workers -> WorkerRecs] /\ w # None
  BY NoneAssumption DEF Inv, TypeInv, PoolType, SpawnType, PendingType, WorkerType
<1>3. /\ UNCHANGED <<client, waited, units>> /\ pool[s] = None
  BY <1>2 DEF clients, Inv, PlaceInv
<1>4. /\ waiters \in Seq(Executions)
      /\ \A i \in DOMAIN waiters : Asked(waiters[i]) /\ waiters[i][2] = s
      /\ \A i, j \in DOMAIN waiters : waiters[i] = waiters[j] => i = j
      /\ \A i \in DOMAIN waiters : \A v \in Workers : waiters[i] \notin pending[v]
  BY <1>2 DEF Spawns, Inv, AskedInv, WaitInv
<1>5. \A i \in DOMAIN waiters : waiters[i] \in Executions
  BY <1>4
<1>6. waiters \in Seq(Requests \X Workspaces)
  <2>1. \A i \in DOMAIN waiters : waiters[i] \in Requests \X Workspaces
    BY <1>4, <1>5, PoolExecutions DEF Asked
  <2> HIDE DEF waiters
  <2>2. QED
    BY <1>4, <2>1
<1>7. asked \subseteq Executions /\ \A e \in asked : Asked(e) /\ e[2] = s
  BY <1>4, <1>5
<1>8. /\ pool' \in [Workspaces -> Workers \cup {None}] /\ pool'[s] = w
      /\ \A q \in Workspaces \ {s} : pool'[q] = pool[q]
      /\ idle' \in [Workspaces -> 0 .. (Ttl + 1)] /\ idle'[s] = 0
      /\ \A q \in Workspaces \ {s} : idle'[q] = idle[q]
  BY <1>2, Clocks
<1>9. /\ spawning' \in [Workspaces -> Spawns] /\ spawning'[s].worker = None /\ spawning'[s].waiters = <<>>
      /\ \A q \in Workspaces \ {s} : spawning'[q] = spawning[q]
  <2>1. Nothing \in Spawns /\ Nothing.worker = None /\ Nothing.waiters = <<>>
    BY DEF Nothing, Spawns
  <2>2. QED
    BY <1>2, <2>1
<1> HIDE DEF mid, waiters
<1>10. pending' = [pending EXCEPT ![w] = @ \cup asked]
  BY DEF waiters
<1>11. new = [mid EXCEPT !.inbox = IF Live(mid) THEN @ \o posts ELSE @]
  BY DEF mid, waiters, Live
<1> HIDE DEF asked
<1>12. /\ pending' \in [Workers -> SUBSET Executions] /\ pending'[w] = pending[w] \cup asked
       /\ \A v \in Workers \ {w} : pending'[v] = pending[v]
  BY <1>2, <1>7, <1>10
<1>13. mid.inbox \o posts \in Seq(InMsgs)
  <2> DEFINE n == Len(waiters)
  <2>1. posts \in [1 .. n -> InMsgs] /\ n \in Nat
    BY <1>4, <1>5, MsgFacts
  <2>2. mid.inbox \in Seq(InMsgs)
    BY <1>1, RecFields
  <2> HIDE DEF n, posts
  <2>3. QED
    BY <2>1, <2>2, Joined
<1> HIDE DEF posts
<1>14. /\ new \in WorkerRecs /\ new.life = mid.life /\ (Live(mid) => new.inbox = mid.inbox \o posts)
       /\ new.outbox = mid.outbox /\ new.running = mid.running
  <2>1. CASE Live(mid)
    BY <1>1, <1>11, <1>13, <2>1 DEF WorkerRecs
  <2>2. CASE ~Live(mid)
    <3>1. new = [mid EXCEPT !.inbox = mid.inbox]
      BY <1>11, <2>2
    <3>2. mid.inbox \in Seq(InMsgs)
      BY <1>1, RecFields
    <3>3. QED
      BY <1>1, <2>2, <3>1, <3>2 DEF WorkerRecs
  <2>3. QED
    BY <2>1, <2>2
<1>15. Live(new) => Owes(new, pending[w] \cup asked)
  <2>1. SUFFICES ASSUME Live(mid) PROVE Owes(new, pending[w] \cup asked)
    BY <1>14 DEF Live
  <2>2. Owes(mid, pending[w])
    BY <1>1, <2>1 DEF Live
  <2>3. new.inbox = mid.inbox \o posts
    BY <1>14, <2>1
  <2>4. /\ posts \in [DOMAIN waiters -> InMsgs] /\ \A i \in DOMAIN waiters : posts[i] = Msg("exec", waiters[i])
    BY <1>5, MsgFacts DEF posts
  <2>5. /\ \A i \in DOMAIN waiters : waiters[i] \notin pending[w]
        /\ asked = {waiters[i] : i \in DOMAIN waiters}
    BY <1>4 DEF asked
  <2> DEFINE owed == pending[w]
  <2>6. /\ mid \in WorkerRecs /\ new \in WorkerRecs /\ Owes(mid, owed) /\ waiters \in Seq(Requests \X Workspaces)
        /\ posts \in [DOMAIN waiters -> InMsgs] /\ (\A i \in DOMAIN waiters : posts[i] = Msg("exec", waiters[i]))
        /\ asked = {waiters[i] : i \in DOMAIN waiters}
        /\ (\A i, j \in DOMAIN waiters : waiters[i] = waiters[j] => i = j)
        /\ (\A i \in DOMAIN waiters : waiters[i] \notin owed)
        /\ new.inbox = mid.inbox \o posts /\ new.outbox = mid.outbox /\ new.running = mid.running
    BY <1>1, <1>4, <1>6, <1>14, <2>2, <2>3, <2>4, <2>5
  <2> HIDE DEF owed
  <2>7. Owes(new, owed \cup asked)
    BY ONLY <2>6, OwesPosts
  <2>8. QED
    BY <2>7 DEF owed
<1>16. /\ worker' \in [Workers -> WorkerRecs] /\ worker'[w] = new
       /\ \A v \in Workers \ {w} : worker'[v] = worker[v]
  BY <1>2, <1>14
<1>17. TypeInv'
  <2>1. PoolType' /\ SpawnType' /\ PendingType' /\ WorkerType'
    BY <1>8, <1>9, <1>12, <1>16 DEF PoolType, SpawnType, PendingType, WorkerType
  <2>2. QED
    BY <2>1, TypesKept DEF TypeInv, Inv
<1>18. OwnInv'
  <2>1. ASSUME NEW v \in Workers, v # w PROVE OwnAt(v)'
    <3>1. v # None
      BY NoneAssumption
    <3>2. \A q \in Workspaces : /\ pool'[q] = v <=> pool[q] = v
                                /\ spawning'[q].worker = v <=> spawning[q].worker = v
      BY <1>3, <1>8, <1>9, <2>1, <3>1
    <3>3. QED
      BY <1>12, <1>16, <2>1, <3>2, OwnOther DEF Inv
  <2>2. OwnAt(w)'
    <3>1. /\ \A q \in Workspaces : pool[q] # w /\ (spawning[q].worker = w => q = s)
          /\ \A r \in Requests : debugger[r] # w
      BY DEF Inv, OwnInv, OwnAt
    <3>2. /\ \A q \in Workspaces : spawning'[q].worker # w /\ (pool'[q] = w => q = s)
          /\ \A r \in Requests : debugger'[r] # w
      BY <1>2, <1>8, <1>9, <3>1
    <3>3. worker'[w].life # "unused" /\ pool'[s] = w
      BY <1>1, <1>8, <1>14, <1>16
    <3>4. QED
      BY <3>2, <3>3 DEF OwnAt, Owned
  <2>3. QED
    BY <2>1, <2>2 DEF OwnInv
<1>19. PlaceInv'
  BY <1>8, <1>9 DEF Inv, PlaceInv
<1>20. AskedInv'
  <2>1. \A v \in Workers : \A e \in pending'[v] : Asked(e) \/ e \in pending[v]
    BY <1>7, <1>12
  <2>2. ASSUME NEW q \in Workspaces, NEW i \in DOMAIN spawning'[q].waiters
        PROVE  i \in DOMAIN spawning[q].waiters /\ spawning'[q].waiters[i] = spawning[q].waiters[i]
    BY <1>9, <2>2
  <2>3. QED
    BY <1>3, <2>1, <2>2, AskedKept DEF Inv
<1>21. AgeInv'
  <2>1. ASSUME NEW q \in Workspaces, pool'[q] # None, NEW e \in pending'[pool'[q]], client'[e[1]] = "waiting"
        PROVE  idle'[q] <= waited'[e[1]]
    <3>1. CASE q = s
      <4>1. e \in Executions
        BY <1>8, <1>12, <2>1, <3>1
      <4>2. waited'[e[1]] \in Nat
        BY <1>3, <4>1, PoolExecutions, Clocks DEF Inv, TypeInv, ClientType
      <4>3. QED
        BY <1>8, <3>1, <4>2
    <3>2. CASE q # s
      <4>1. pool'[q] = pool[q] /\ pool[q] \in Workers
        BY <1>2, <1>8, <2>1, <3>2
      <4>2. pool[q] # w
        BY DEF Inv, OwnInv, OwnAt
      <4>3. QED
        BY <1>3, <1>8, <1>12, <2>1, <3>2, <4>1, <4>2 DEF Inv, AgeInv
    <3>3. QED
      BY <3>1, <3>2
  <2>2. QED
    BY <2>1 DEF AgeInv
<1>22. CutInv'
  BY <1>3, CutKept DEF Inv, TypeInv, SmallType
<1>23. WaitInv'
  <2>1. ASSUME NEW q \in Workspaces, q # s
        PROVE  /\ \A i, j \in DOMAIN spawning[q].waiters : spawning[q].waiters[i] = spawning[q].waiters[j] => i = j
               /\ \A i \in DOMAIN spawning[q].waiters : \A v \in Workers : spawning[q].waiters[i] \notin pending'[v]
    <3>1. \A i \in DOMAIN spawning[q].waiters : spawning[q].waiters[i][2] = q
      BY DEF Inv, AskedInv
    <3>2. \A i \in DOMAIN spawning[q].waiters : spawning[q].waiters[i] \notin asked
      BY <1>7, <2>1, <3>1
    <3>3. QED
      BY <1>12, <3>2 DEF Inv, WaitInv
  <2>2. DOMAIN spawning'[s].waiters = {}
    BY <1>9
  <2>3. QED
    BY <1>9, <2>1, <2>2, ZenonT(40) DEF WaitInv
<1>24. WorkInv'
  BY <1>12, <1>15, <1>16, WorkKept DEF Inv
<1>25. QED
  BY <1>17, <1>18, <1>19, <1>20, <1>21, <1>22, <1>23, <1>24 DEF Inv

(* A result of a worker resolves the promise of its request. *)
LEMMA ResultPoolKeeps ==
    ASSUME Inv, NEW w \in Workers, worker[w].outbox # <<>>, Head(worker[w].outbox).type = "result",
           NEW exec, Head(worker[w].outbox).exec = exec, exec \in pending[w],
           pending' = [pending EXCEPT ![w] = @ \ {exec}],
           units' = [units EXCEPT ![exec[1]] = @ \ {exec[2]}],
           Responded(exec[1], units[exec[1]] \ {exec[2]}),
           worker' = [worker EXCEPT ![w] = Taken(w)],
           UNCHANGED <<process, manager, waited, io, faults, cut, targets>>
    PROVE  Inv'
<1> DEFINE rec == worker[w]
           new == Taken(w)
<1>1. /\ rec \in WorkerRecs /\ new \in WorkerRecs /\ new.life = rec.life /\ rec.life # "unused"
      /\ new.outbox = Tail(rec.outbox) /\ new.inbox = rec.inbox /\ new.running = rec.running
      /\ Live(rec) => Owes(rec, pending[w])
  BY TakenFacts
<1>2. /\ worker \in [Workers -> WorkerRecs] /\ pending \in [Workers -> SUBSET Executions]
      /\ units \in [Requests -> SUBSET Workspaces]
      /\ client \in [Requests -> {"idle", "waiting", "ok", "error", "gone"}]
  BY DEF Inv, TypeInv, WorkerType, PendingType, ClientType
<1>3. Asked(exec) /\ exec \in Executions
  BY <1>2 DEF Inv, AskedInv
<1>4. exec \in Requests \X Workspaces /\ exec[1] \in Requests
  BY <1>3, PoolExecutions DEF Asked
<1>5. Head(rec.outbox) = Msg("result", exec)
  BY TakenFacts, MsgKinds
<1>6. /\ UNCHANGED <<pool, idle, spawning, debugger>> /\ UNCHANGED <<process, waited, io, faults, cut, targets>>
  BY DEF manager
<1> HIDE DEF rec, new
<1>7. Live(new) => Owes(new, pending[w] \ {exec})
  <2>1. SUFFICES ASSUME Live(rec) PROVE Owes(new, pending[w] \ {exec})
    BY <1>1 DEF Live
  <2>2. rec.outbox # <<>>
    BY DEF rec
  <2>3. QED
    BY <1>1, <1>4, <1>5, <2>1, <2>2, OwesTaken
<1>8. /\ worker' \in [Workers -> WorkerRecs] /\ worker'[w] = new
      /\ \A v \in Workers \ {w} : worker'[v] = worker[v]
      /\ pending' \in [Workers -> SUBSET Executions] /\ pending'[w] = pending[w] \ {exec}
      /\ \A v \in Workers \ {w} : pending'[v] = pending[v]
  BY <1>1, <1>2 DEF new
<1>9. /\ units' \in [Requests -> SUBSET Workspaces] /\ \A r \in Requests : units'[r] \subseteq units[r]
      /\ client' \in [Requests -> {"idle", "waiting", "ok", "error", "gone"}]
      /\ \A r \in Requests : client'[r] = client[r] \/ (r = exec[1] /\ client[r] = "waiting" /\ client'[r] = "ok")
  BY <1>2, <1>4 DEF Responded
<1>10. TypeInv'
  <2>1. WorkerType' /\ PendingType'
    BY <1>8 DEF WorkerType, PendingType
  <2>2. ClientType'
    BY <1>6, <1>9 DEF ClientType, Inv, TypeInv
  <2>3. QED
    BY <1>6, <2>1, <2>2, TypesKept DEF TypeInv, Inv
<1>11. OwnInv' /\ PlaceInv'
  <2>1. \A v \in Workers : /\ Live(worker'[v]) => Live(worker[v])
                           /\ worker'[v].life = "unused" => worker'[v] = worker[v] /\ pending'[v] = pending[v]
    BY <1>1, <1>8 DEF Live, rec
  <2>2. QED
    BY <1>6, <2>1, OwnKept DEF Inv
<1>12. AskedInv'
  <2>1. \A r \in Requests : debugger[r] # None => r # exec[1]
    BY <1>3 DEF Asked, Inv, AskedInv
  <2>2. \A v \in Workers : \A e \in pending'[v] : e \in pending[v]
    BY <1>8
  <2>3. \A r \in Requests : client[r] # "idle" => client'[r] # "idle"
    BY <1>9
  <2>4. \A r \in Requests : debugger'[r] # None =>
                 /\ debugger[r] # None
                 /\ process' # "exited" => process # "exited" /\ client'[r] = client[r]
    BY <1>6, <1>9, <2>1
  <2>5. QED
    BY <1>6, <1>9, <2>2, <2>3, <2>4, AskedKept DEF Inv
<1>13. AgeInv'
  <2>1. \A v \in Workers : pending'[v] \subseteq pending[v]
    BY <1>8
  <2>2. \A v \in Workers : \A e \in pending'[v] : client'[e[1]] = "waiting" => client[e[1]] = "waiting"
    BY <1>8, <1>9, PoolExecutions
  <2>3. \A s \in Workspaces : pool'[s] # None => pool'[s] \in Workers
    BY <1>6 DEF Inv, TypeInv, PoolType
  <2>4. QED
    BY <1>6, <2>1, <2>2, <2>3, AgeKept DEF Inv
<1>14. CutInv'
  BY <1>6, <1>9, CutKept DEF Inv, TypeInv, SmallType
<1>15. WaitInv'
  BY <1>6, <1>8, WaitKept DEF Inv
<1>16. WorkInv'
  BY <1>7, <1>8, WorkKept DEF Inv
<1>17. QED
  BY <1>10, <1>11, <1>12, <1>13, <1>14, <1>15, <1>16 DEF Inv

-----------------------------------------------------------------------------
(* Steps that end something: workers are stopped by their owners, and clients *)
(* are answered or give up.                                                   *)

(* A worker loses its owner only when it is stopped. *)
Ends ==
    /\ UNCHANGED <<units, spawning, pending, waited, targets>>
    /\ \A s \in Workspaces : \/ pool'[s] = pool[s] /\ idle'[s] = idle[s]
                             \/ pool'[s] = None /\ (pool[s] \in Workers => ~Live(worker'[pool[s]]))
    /\ \A r \in Requests : \/ debugger'[r] = debugger[r]
                           \/ debugger'[r] = None /\ (debugger[r] \in Workers => ~Live(worker'[debugger[r]]))
    /\ \A w \in Workers : worker'[w] = worker[w] \/ (~Live(worker'[w]) /\ worker'[w].life # "unused"
                                                    /\ worker[w].life # "unused")
    /\ \A r \in Requests : client'[r] = client[r] \/ (client[r] = "waiting" /\ client'[r] \in {"ok", "error", "gone"})
    /\ process' # "exited" =>
         /\ process # "exited"
         /\ \A r \in Requests : debugger'[r] # None => client'[r] = client[r] \/ client'[r] = "gone"

(* Such a step keeps the invariant. *)
LEMMA EndsKeeps ==
    ASSUME Inv, Ends, TypeInv', CutInv'
    PROVE  Inv'
<1>1. pool \in [Workspaces -> Workers \cup {None}] /\ debugger \in [Requests -> Workers \cup {None}]
  BY DEF Inv, TypeInv, PoolType, DebugType
<1>2. ASSUME NEW w \in Workers PROVE OwnAt(w)'
  <2>1. /\ w # None
        /\ \A s \in Workspaces : pool'[s] = w => pool[s] = w
        /\ \A s \in Workspaces : spawning'[s].worker = w <=> spawning[s].worker = w
        /\ \A r \in Requests : debugger'[r] = w => debugger[r] = w
    BY NoneAssumption DEF Ends
  <2>2. OwnAt(w)
    BY DEF Inv, OwnInv
  <2>3. Live(worker'[w]) => Owned(w)'
    <3>1. SUFFICES ASSUME Live(worker'[w]) PROVE Owned(w)'
      OBVIOUS
    <3>2. worker'[w] = worker[w] /\ Owned(w)
      BY <2>2, <3>1 DEF Ends, OwnAt
    <3>3. /\ \A s \in Workspaces : pool[s] = w => pool'[s] = w
          /\ \A r \in Requests : debugger[r] = w => debugger'[r] = w
      BY <3>1 DEF Ends
    <3>4. QED
      BY <2>1, <3>2, <3>3 DEF Owned
  <2>4. ASSUME worker'[w].life = "unused"
        PROVE  ~Owned(w)' /\ worker'[w] = Unused /\ pending'[w] = {}
    BY <2>1, <2>2, <2>4 DEF Ends, OwnAt, Owned
  <2>5. /\ \A s, t \in Workspaces : pool'[s] = w /\ pool'[t] = w => s = t
        /\ \A s, t \in Workspaces : spawning'[s].worker = w /\ spawning'[t].worker = w => s = t
        /\ \A r, q \in Requests : debugger'[r] = w /\ debugger'[q] = w => r = q
        /\ \A s, t \in Workspaces : ~(pool'[s] = w /\ spawning'[t].worker = w)
        /\ \A s \in Workspaces, r \in Requests : ~(pool'[s] = w /\ debugger'[r] = w)
        /\ \A s \in Workspaces, r \in Requests : ~(spawning'[s].worker = w /\ debugger'[r] = w)
    BY <2>1, <2>2 DEF OwnAt
  <2>6. QED
    BY <2>3, <2>4, <2>5 DEF OwnAt, Live
<1>3. OwnInv'
  BY <1>2 DEF OwnInv
<1>4. PlaceInv'
  BY DEF Ends, Inv, PlaceInv
<1>5. AskedInv'
  <2>1. \A r \in Requests : client[r] # "idle" => client'[r] # "idle"
    BY DEF Ends
  <2>2. \A r \in Requests : debugger'[r] # None =>
                 /\ debugger[r] # None
                 /\ process' # "exited" => process # "exited" /\ (client'[r] = client[r] \/ client'[r] = "gone")
    BY DEF Ends
  <2>3. units' = units /\ spawning' = spawning /\ pending' = pending /\ targets' = targets
    BY DEF Ends
  <2>4. QED
    BY <2>1, <2>2, <2>3, AskedKept DEF Inv
<1>6. AgeInv'
  <2>1. \A s \in Workspaces : pool'[s] # None => pool'[s] = pool[s] /\ idle'[s] = idle[s] /\ pool'[s] \in Workers
    BY <1>1 DEF Ends
  <2>2. \A w \in Workers : \A e \in pending[w] : e[1] \in Requests
    BY DEF Inv, AskedInv, Asked
  <2>3. waited' = waited /\ pending' = pending
    BY DEF Ends
  <2>4. \A w \in Workers : \A e \in pending'[w] : client'[e[1]] = "waiting" => client[e[1]] = "waiting"
    BY <2>2, <2>3 DEF Ends
  <2>5. QED
    BY <2>1, <2>3, <2>4, AgeKept DEF Inv
<1>7. WaitInv'
  BY WaitKept DEF Inv, Ends
<1>8. WorkInv'
  <2>1. \A w \in Workers : (worker'[w] = worker[w] /\ pending'[w] = pending[w]) \/ ~Live(worker'[w])
    BY DEF Ends
  <2>2. QED
    BY <2>1, WorkKept DEF Inv
<1>9. QED
  BY <1>3, <1>4, <1>5, <1>6, <1>7, <1>8 DEF Inv

(* The debugger's worker is stopped, and its client answered. *)
LEMMA DebugEnds ==
    ASSUME Inv, NEW r \in Requests, NEW w \in Workers, debugger[r] = w, NEW answer \in {"ok", "error"},
           client' = [client EXCEPT ![r] = IF @ = "waiting" THEN answer ELSE @],
           debugger' = [debugger EXCEPT ![r] = None],
           worker' = [worker EXCEPT ![w] = Stopped("terminated")],
           UNCHANGED <<process, pool, idle, spawning, pending, waited, units, io, faults, cut, targets>>
    PROVE  Inv'
<1>1. /\ client \in [Requests -> {"idle", "waiting", "ok", "error", "gone"}]
      /\ debugger \in [Requests -> Workers \cup {None}] /\ worker \in [Workers -> WorkerRecs]
  BY DEF Inv, TypeInv, ClientType, DebugType, WorkerType
<1>2. Stopped("terminated") \in WorkerRecs /\ Stopped("terminated").life = "terminated"
  BY LifeFacts DEF Lives
<1>3. /\ client' \in [Requests -> {"idle", "waiting", "ok", "error", "gone"}]
      /\ \A q \in Requests : client'[q] = client[q] \/ (q = r /\ client[q] = "waiting" /\ client'[q] = answer)
      /\ debugger' \in [Requests -> Workers \cup {None}] /\ debugger'[r] = None
      /\ \A q \in Requests \ {r} : debugger'[q] = debugger[q]
      /\ worker' \in [Workers -> WorkerRecs] /\ worker'[w] = Stopped("terminated")
      /\ \A v \in Workers \ {w} : worker'[v] = worker[v]
  BY <1>1, <1>2
<1>4. worker[w].life # "unused"
  BY DEF Inv, OwnInv, OwnAt, Owned
<1>5. TypeInv'
  <2>1. WorkerType' /\ DebugType'
    BY <1>3 DEF WorkerType, DebugType
  <2>2. ClientType'
    BY <1>3 DEF ClientType, Inv, TypeInv
  <2>3. QED
    BY <2>1, <2>2, TypesKept DEF TypeInv, Inv
<1>6. CutInv'
  BY <1>3, CutKept DEF Inv, TypeInv, SmallType
<1>7. ~Live(worker'[w]) /\ worker'[w].life # "unused"
  BY <1>2, <1>3 DEF Live
<1>8. process # "exited" \/ process' = "exited"
  OBVIOUS
<1>9. Ends
  BY <1>3, <1>4, <1>7, <1>8 DEF Ends
<1>10. QED
  BY <1>5, <1>6, <1>9, EndsKeeps

(* A message of a worker is handled. *)
LEMMA OnMessageKeeps ==
    ASSUME Inv, NEW w \in Workers, OnMessage(w), UNCHANGED targets
    PROVE  Inv'
<1> DEFINE message == Head(worker[w].outbox)
<1>1. /\ worker[w].outbox # <<>> /\ UNCHANGED <<process, faults, cut, targets>>
      /\ \/ message.type = "ready" /\ Ready(w, Taken(w)) /\ UNCHANGED io
         \/ message.type = "result" /\ Result(w, message.exec, Taken(w)) /\ UNCHANGED io
         \/ message.type = "proxyRequest"
  BY DEF OnMessage, Taken
<1>2. CASE message.type = "proxyRequest"
  BY <1>2, ProxyTouches, TouchKeeps
<1>3. CASE message.type = "ready" /\ Ready(w, Taken(w)) /\ UNCHANGED io
  <2>1. CASE \E r \in Requests : /\ debugger[r] = w
                                 /\ worker' = [worker EXCEPT ![w] = Post(Taken(w), Msg("exec", <<r, None>>))]
                                 /\ UNCHANGED <<manager, pending, clients>>
    <3>1. Touches(w)
      BY <1>1, <1>3, <2>1, ReadyDebugTouches
    <3>2. QED
      BY <3>1, TouchKeeps
  <2>2. ASSUME NEW s \in WorkspaceOf(w),
               LET waiters == spawning[s].waiters
                   posts == [i \in DOMAIN waiters |-> Msg("exec", waiters[i])] IN
               /\ pool' = [pool EXCEPT ![s] = w] /\ idle' = [idle EXCEPT ![s] = 0]
               /\ spawning' = [spawning EXCEPT ![s] = Nothing]
               /\ pending' = [pending EXCEPT ![w] = @ \cup {waiters[i] : i \in DOMAIN waiters}]
               /\ worker' = [worker EXCEPT ![w] = [Taken(w) EXCEPT !.inbox =
                                IF Taken(w).life \in {"alive", "hung"} THEN @ \o posts ELSE @]]
               /\ UNCHANGED <<debugger, clients>>
        PROVE  Inv'
    <3>1. s \in Workspaces /\ spawning[s].worker = w
      BY DEF WorkspaceOf
    <3> DEFINE new == [Taken(w) EXCEPT !.inbox =
                     IF Taken(w).life \in {"alive", "hung"}
                     THEN @ \o [i \in DOMAIN spawning[s].waiters |-> Msg("exec", spawning[s].waiters[i])] ELSE @]
    <3>2. worker' = [worker EXCEPT ![w] = new]
      BY <2>2
    <3>3. \E rec : rec = new /\ worker' = [worker EXCEPT ![w] = rec]
      BY <3>2
    <3> HIDE DEF new
    <3>4. PICK rec : rec = new /\ worker' = [worker EXCEPT ![w] = rec]
      BY <3>3
    <3>5. QED
      BY <1>1, <1>3, <2>2, <3>1, <3>4, ReadyPoolKeeps, Zenon DEF new
  <2>3. QED
    BY <1>3, <2>1, <2>2 DEF Ready
<1>4. CASE message.type = "result" /\ Result(w, message.exec, Taken(w)) /\ UNCHANGED io
  <2> DEFINE exec == message.exec
  <2>1. message \in OutMsgs /\ exec \in Executions /\ exec[1] \in Requests
    BY <1>1, <1>4, TakenFacts, MsgKinds, PoolExecutions
  <2>2. \/ /\ exec \in pending[w]
           /\ pending' = [pending EXCEPT ![w] = @ \ {exec}]
           /\ units' = [units EXCEPT ![exec[1]] = @ \ {exec[2]}]
           /\ Responded(exec[1], units[exec[1]] \ {exec[2]})
           /\ worker' = [worker EXCEPT ![w] = Taken(w)]
           /\ UNCHANGED <<manager, waited>>
        \/ /\ debugger[exec[1]] = w
           /\ Responded(exec[1], {})
           /\ debugger' = [debugger EXCEPT ![exec[1]] = None]
           /\ worker' = [worker EXCEPT ![w] = Stopped("terminated")]
           /\ UNCHANGED <<pool, idle, spawning, pending, waited, units>>
    BY <1>4 DEF Result
  <2>3. CASE exec \in pending[w] /\ pending' = [pending EXCEPT ![w] = @ \ {exec}]
             /\ units' = [units EXCEPT ![exec[1]] = @ \ {exec[2]}]
             /\ Responded(exec[1], units[exec[1]] \ {exec[2]})
             /\ worker' = [worker EXCEPT ![w] = Taken(w)]
             /\ UNCHANGED <<manager, waited>>
    BY <1>1, <1>4, <2>3, ResultPoolKeeps
  <2>4. CASE debugger[exec[1]] = w /\ Responded(exec[1], {})
             /\ debugger' = [debugger EXCEPT ![exec[1]] = None]
             /\ worker' = [worker EXCEPT ![w] = Stopped("terminated")]
             /\ UNCHANGED <<pool, idle, spawning, pending, waited, units>>
    <3>1. client' = [client EXCEPT ![exec[1]] = IF @ = "waiting" THEN "ok" ELSE @]
      BY <2>4 DEF Responded
    <3>2. QED
      BY <1>1, <1>4, <2>1, <2>4, <3>1, DebugEnds
  <2>5. QED
    BY <2>2, <2>3, <2>4
<1>5. QED
  BY <1>1, <1>2, <1>3, <1>4

(* A worker dies; if it is the debugger's, the client is answered. *)
LEMMA DieKeeps ==
    ASSUME Inv, NEW w \in Workers, Die(w), UNCHANGED targets
    PROVE  Inv'
<1>1. /\ UNCHANGED <<process, waited, units, pool, idle, spawning, pending, io, cut, targets>>
      /\ faults < MaxFaults /\ faults' = faults + 1 /\ worker[w].life = "alive" /\ process # "exited"
      /\ client' = [r \in Requests |-> IF debugger[r] = w /\ client[r] = "waiting" THEN "error" ELSE client[r]]
      /\ debugger' = [r \in Requests |-> IF debugger[r] = w THEN None ELSE debugger[r]]
  BY DEF Die, Alive
<1>2. PICK n \in 0 .. Len(worker[w].outbox) :
         worker' = [worker EXCEPT ![w] = [Stopped("dead") EXCEPT !.outbox = SubSeq(worker[w].outbox, 1, n)]]
  BY DEF Die
<1> DEFINE new == [Stopped("dead") EXCEPT !.outbox = SubSeq(worker[w].outbox, 1, n)]
<1>3. /\ client \in [Requests -> {"idle", "waiting", "ok", "error", "gone"}]
      /\ debugger \in [Requests -> Workers \cup {None}] /\ worker \in [Workers -> WorkerRecs]
      /\ worker[w].outbox \in Seq(OutMsgs)
  BY RecFields DEF Inv, TypeInv, ClientType, DebugType, WorkerType
<1>4. new \in WorkerRecs /\ new.life = "dead"
  <2> DEFINE box == worker[w].outbox
             sent == SubSeq(box, 1, n)
  <2>1. box \in Seq(OutMsgs) /\ n \in 0 .. Len(box)
    BY <1>3
  <2> HIDE DEF box
  <2>2. sent \in Seq(OutMsgs)
    BY <2>1
  <2>3. Stopped("dead") \in WorkerRecs /\ Stopped("dead").life = "dead"
    BY LifeFacts DEF Lives
  <2> HIDE DEF sent
  <2>4. new = [Stopped("dead") EXCEPT !.outbox = sent]
    BY DEF sent, box
  <2>5. QED
    BY <2>2, <2>3, <2>4 DEF WorkerRecs
<1>5. worker' = [worker EXCEPT ![w] = new]
  BY <1>2
<1> HIDE DEF new
<1>6. /\ client' \in [Requests -> {"idle", "waiting", "ok", "error", "gone"}]
      /\ \A r \in Requests : client'[r] = client[r]
                             \/ (debugger[r] = w /\ client[r] = "waiting" /\ client'[r] = "error")
      /\ debugger' \in [Requests -> Workers \cup {None}]
      /\ \A r \in Requests : \/ debugger'[r] = debugger[r] /\ debugger[r] # w
                             \/ debugger'[r] = None /\ debugger[r] = w
      /\ worker' \in [Workers -> WorkerRecs] /\ worker'[w] = new
      /\ \A v \in Workers \ {w} : worker'[v] = worker[v]
  BY <1>1, <1>3, <1>4, <1>5
<1>7. TypeInv'
  <2>1. WorkerType' /\ DebugType'
    BY <1>6 DEF WorkerType, DebugType
  <2>2. ClientType'
    BY <1>1, <1>6 DEF ClientType, Inv, TypeInv
  <2>3. SmallType'
    BY <1>1, ConstantsAssumption DEF SmallType, Inv, TypeInv
  <2>4. QED
    BY <1>1, <2>1, <2>2, <2>3, TypesKept DEF TypeInv, Inv
<1>8. CutInv'
  BY <1>1, <1>6, CutKept DEF Inv, TypeInv, SmallType
<1>9. ~Live(worker'[w]) /\ worker'[w].life # "unused"
  BY <1>4, <1>6 DEF Live
<1>10. Ends
  BY <1>1, <1>6, <1>9 DEF Ends
<1>11. QED
  BY <1>7, <1>8, <1>10, EndsKeeps

(* The debugger's timer. *)
LEMMA UdfTimeoutsKeeps ==
    ASSUME Inv, NEW r \in Requests, UdfTimeouts(r), UNCHANGED targets
    PROVE  Inv'
<1>1. debugger[r] \in Workers
  BY DEF UdfTimeouts, Inv, TypeInv, DebugType
<1>2. QED
  BY <1>1, DebugEnds DEF UdfTimeouts

(* A client gives up. *)
LEMMA GiveUpKeeps ==
    ASSUME Inv, NEW r \in Requests, GiveUp(r), UNCHANGED targets
    PROVE  Inv'
<1>1. /\ UNCHANGED <<process, waited, units, pool, idle, spawning, debugger, worker, pending, io, faults, cut, targets>>
      /\ client[r] = "waiting" /\ client' = [client EXCEPT ![r] = "gone"]
  BY DEF GiveUp, manager
<1>2. client \in [Requests -> {"idle", "waiting", "ok", "error", "gone"}]
  BY DEF Inv, TypeInv, ClientType
<1>3. /\ client' \in [Requests -> {"idle", "waiting", "ok", "error", "gone"}]
      /\ client'[r] = "gone" /\ \A q \in Requests \ {r} : client'[q] = client[q]
  BY <1>1, <1>2
<1>4. TypeInv'
  <2>1. ClientType'
    BY <1>1, <1>3 DEF ClientType, Inv, TypeInv
  <2>2. QED
    BY <1>1, <2>1, TypesKept DEF TypeInv, Inv
<1>5. CutInv'
  BY <1>1, <1>3, CutKept DEF Inv, TypeInv, SmallType
<1>6. Ends
  BY <1>1, <1>3 DEF Ends
<1>7. QED
  BY <1>4, <1>5, <1>6, EndsKeeps

(* An eviction: the clients of what it cuts off have given up, as they waited no *)
(* shorter than the worker was not used.                                         *)
LEMMA EvictKeeps ==
    ASSUME Inv, Evict, UNCHANGED targets
    PROVE  Inv'
<1> DEFINE gone == {pool[s] : s \in Expired}
<1>1. /\ UNCHANGED <<process, client, waited, units, spawning, debugger, pending, io, faults, targets>>
      /\ worker' = [w \in Workers |-> IF w \in gone THEN Stopped("terminated") ELSE worker[w]]
      /\ cut' = cut \cup UNION {pending[w] : w \in gone}
      /\ pool' = [s \in Workspaces |-> IF s \in Expired THEN None ELSE pool[s]]
      /\ idle' = [s \in Workspaces |-> IF s \in Expired THEN 0 ELSE idle[s]]
      /\ UNCHANGED clients /\ process # "exited"
  BY DEF Evict, clients
<1>2. /\ pool \in [Workspaces -> Workers \cup {None}] /\ idle \in [Workspaces -> 0 .. (Ttl + 1)]
      /\ worker \in [Workers -> WorkerRecs] /\ pending \in [Workers -> SUBSET Executions] /\ cut \in SUBSET Executions
      /\ waited \in [Requests -> 0 .. ClientTimeout]
      /\ client \in [Requests -> {"idle", "waiting", "ok", "error", "gone"}]
  BY DEF Inv, TypeInv, PoolType, WorkerType, PendingType, SmallType, ClientType
<1>3. Stopped("terminated") \in WorkerRecs /\ Stopped("terminated").life = "terminated"
  BY LifeFacts DEF Lives
<1>4. /\ \A s \in Expired : s \in Workspaces /\ pool[s] # None /\ pool[s] \in Workers /\ idle[s] > Ttl
      /\ \A s \in Expired : pool[s] \in gone
      /\ gone \subseteq Workers /\ \A w \in gone : \E s \in Expired : pool[s] = w
  BY <1>2 DEF Expired
<1>5. \A w \in gone : worker[w].life # "unused"
  BY <1>4 DEF Inv, OwnInv, OwnAt, Owned
<1> HIDE DEF gone
<1>6. /\ worker' \in [Workers -> WorkerRecs]
      /\ \A w \in Workers : worker'[w] = IF w \in gone THEN Stopped("terminated") ELSE worker[w]
      /\ pool' \in [Workspaces -> Workers \cup {None}] /\ idle' \in [Workspaces -> 0 .. (Ttl + 1)]
      /\ \A s \in Workspaces : (pool'[s] = pool[s] /\ idle'[s] = idle[s]) \/ (pool'[s] = None /\ s \in Expired)
  BY <1>1, <1>2, <1>3, Clocks
<1>7. ASSUME NEW w \in gone, NEW e \in pending[w]
      PROVE  client[e[1]] \notin {"idle", "waiting"} /\ e \in Executions
  <2>1. PICK s \in Expired : pool[s] = w
    BY <1>4
  <2>2. Asked(e) /\ e \in Executions /\ e[1] \in Requests
    BY <1>2, <1>4 DEF Inv, AskedInv, Asked
  <2>3. client[e[1]] = "waiting" => idle[s] <= waited[e[1]]
    BY <1>4, <2>1 DEF Inv, AgeInv
  <2>4. idle[s] \in Nat /\ idle[s] > Ttl /\ waited[e[1]] \in Nat /\ waited[e[1]] <= ClientTimeout
    BY <1>2, <1>4, <2>2, Clocks
  <2>5. QED
    BY <2>2, <2>3, <2>4, Clocks DEF Asked
<1>8. cut' \in SUBSET Executions
  BY <1>1, <1>2, <1>7
<1>9. CutInv'
  BY <1>1, <1>7 DEF Inv, CutInv
<1>10. TypeInv'
  <2>1. WorkerType' /\ PoolType'
    BY <1>6 DEF WorkerType, PoolType
  <2>2. SmallType'
    BY <1>1, <1>8 DEF SmallType, Inv, TypeInv
  <2>3. QED
    BY <1>1, <2>1, <2>2, TypesKept DEF TypeInv, Inv
<1>11. \A w \in gone : ~Live(worker'[w]) /\ worker'[w].life # "unused"
  BY <1>3, <1>4, <1>6 DEF Live
<1>12. Ends
  <2>1. \A s \in Workspaces : \/ pool'[s] = pool[s] /\ idle'[s] = idle[s]
                              \/ pool'[s] = None /\ (pool[s] \in Workers => ~Live(worker'[pool[s]]))
    BY <1>4, <1>6, <1>11
  <2>2. \A w \in Workers : worker'[w] = worker[w] \/ (~Live(worker'[w]) /\ worker'[w].life # "unused"
                                                     /\ worker[w].life # "unused")
    BY <1>5, <1>6, <1>11
  <2>3. QED
    BY <1>1, <2>1, <2>2 DEF Ends
<1>13. QED
  BY <1>9, <1>10, <1>12, EndsKeeps

(* The shutdown: it begins, stops the workers of the pool, and ends. *)
LEMMA ShutdownKeeps ==
    ASSUME Inv, Stop \/ TerminateAll \/ Exit, UNCHANGED targets
    PROVE  Inv'
<1>1. /\ pool \in [Workspaces -> Workers \cup {None}] /\ worker \in [Workers -> WorkerRecs]
      /\ client \in [Requests -> {"idle", "waiting", "ok", "error", "gone"}] /\ cut \in SUBSET Executions
  BY DEF Inv, TypeInv, PoolType, WorkerType, ClientType, SmallType
<1>2. CASE Stop
  <2>1. /\ UNCHANGED <<client, waited, units, pool, idle, spawning, debugger, worker, pending, io, faults, cut, targets>>
        /\ UNCHANGED clients /\ process = "up" /\ process' = "draining"
    BY <1>2 DEF Stop, clients, manager
  <2>2. TypeInv'
    <3>1. SmallType'
      BY <2>1 DEF SmallType, Inv, TypeInv
    <3>2. QED
      BY <2>1, <3>1, TypesKept DEF TypeInv, Inv
  <2>3. CutInv'
    BY <2>1 DEF Inv, CutInv
  <2>4. Ends
    BY <2>1 DEF Ends
  <2>5. QED
    BY <2>2, <2>3, <2>4, EndsKeeps
<1>3. CASE TerminateAll
  <2>1. /\ UNCHANGED <<client, waited, units, spawning, debugger, pending, io, faults, cut, targets>>
        /\ UNCHANGED clients /\ process = "draining" /\ process' = "closing"
        /\ worker' = [w \in Workers |-> IF \E s \in Workspaces : pool[s] = w THEN Stopped("terminated") ELSE worker[w]]
        /\ pool' = [s \in Workspaces |-> None] /\ idle' = [s \in Workspaces |-> 0]
    BY <1>3 DEF TerminateAll, clients
  <2>2. Stopped("terminated") \in WorkerRecs /\ Stopped("terminated").life = "terminated"
    BY LifeFacts DEF Lives
  <2>3. /\ worker' \in [Workers -> WorkerRecs]
        /\ \A w \in Workers : (\E s \in Workspaces : pool[s] = w) => worker'[w] = Stopped("terminated")
        /\ \A w \in Workers : ~(\E s \in Workspaces : pool[s] = w) => worker'[w] = worker[w]
        /\ pool' \in [Workspaces -> Workers \cup {None}] /\ idle' \in [Workspaces -> 0 .. (Ttl + 1)]
        /\ \A s \in Workspaces : pool'[s] = None
    BY <1>1, <2>1, <2>2, Clocks
  <2>4. TypeInv'
    <3>1. WorkerType' /\ PoolType'
      BY <2>3 DEF WorkerType, PoolType
    <3>2. SmallType'
      BY <2>1 DEF SmallType, Inv, TypeInv
    <3>3. QED
      BY <2>1, <3>1, <3>2, TypesKept DEF TypeInv, Inv
  <2>5. CutInv'
    BY <2>1 DEF Inv, CutInv
  <2>6. \A w \in Workers : (\E s \in Workspaces : pool[s] = w) =>
             ~Live(worker'[w]) /\ worker'[w].life # "unused" /\ worker[w].life # "unused"
    BY <2>2, <2>3 DEF Live, Inv, OwnInv, OwnAt, Owned
  <2>7. \A s \in Workspaces : pool'[s] = None /\ (pool[s] \in Workers => ~Live(worker'[pool[s]]))
    BY <2>3, <2>6
  <2>8. \A w \in Workers : worker'[w] = worker[w] \/ (~Live(worker'[w]) /\ worker'[w].life # "unused"
                                                     /\ worker[w].life # "unused")
    BY <2>3, <2>6
  <2>9. Ends
    BY <2>1, <2>7, <2>8 DEF Ends
  <2>10. QED
    BY <2>4, <2>5, <2>9, EndsKeeps
<1>4. CASE Exit
  <2>1. /\ UNCHANGED <<waited, units, pool, idle, spawning, debugger, worker, pending, io, faults, cut, targets>>
        /\ process' = "exited"
        /\ client' = [r \in Requests |-> IF client[r] = "waiting" THEN "error" ELSE client[r]]
    BY <1>4 DEF Exit, manager
  <2>2. /\ client' \in [Requests -> {"idle", "waiting", "ok", "error", "gone"}]
        /\ \A r \in Requests : client'[r] = client[r] \/ (client[r] = "waiting" /\ client'[r] = "error")
    BY <1>1, <2>1
  <2>3. TypeInv'
    <3>1. ClientType'
      BY <2>1, <2>2 DEF ClientType, Inv, TypeInv
    <3>2. SmallType'
      BY <2>1 DEF SmallType, Inv, TypeInv
    <3>3. QED
      BY <2>1, <3>1, <3>2, TypesKept DEF TypeInv, Inv
  <2>4. CutInv'
    BY <1>1, <2>1, <2>2, CutKept DEF Inv
  <2>5. Ends
    BY <2>1, <2>2 DEF Ends
  <2>6. QED
    BY <2>3, <2>4, <2>5, EndsKeeps
<1>5. QED
  BY <1>2, <1>3, <1>4

(* Time passes: clients wait as long as workers go unused. *)
LEMMA TickKeeps ==
    ASSUME Inv, Tick, UNCHANGED targets
    PROVE  Inv'
<1>1. /\ UNCHANGED <<process, client, units, pool, spawning, debugger, worker, pending, io, faults, cut, targets>>
      /\ waited' = [r \in Requests |-> IF client[r] = "waiting" THEN waited[r] + 1 ELSE waited[r]]
      /\ idle' = [s \in Workspaces |-> IF pool[s] # None /\ idle[s] <= Ttl THEN idle[s] + 1 ELSE idle[s]]
      /\ \A r \in Requests : ~(client[r] = "waiting" /\ waited[r] = ClientTimeout)
  BY DEF Tick
<1>2. /\ waited \in [Requests -> 0 .. ClientTimeout] /\ idle \in [Workspaces -> 0 .. (Ttl + 1)]
      /\ pool \in [Workspaces -> Workers \cup {None}] /\ pending \in [Workers -> SUBSET Executions]
  BY DEF Inv, TypeInv, ClientType, PoolType, PendingType
<1>3. /\ waited' \in [Requests -> 0 .. ClientTimeout]
      /\ \A r \in Requests : client[r] = "waiting" => waited'[r] = waited[r] + 1
  BY <1>1, <1>2, Clocks
<1>4. /\ idle' \in [Workspaces -> 0 .. (Ttl + 1)]
      /\ \A s \in Workspaces : idle'[s] = idle[s] \/ idle'[s] = idle[s] + 1
  BY <1>1, <1>2, Clocks
<1>5. TypeInv'
  <2>1. ClientType' /\ PoolType'
    BY <1>1, <1>3, <1>4 DEF ClientType, PoolType, Inv, TypeInv
  <2>2. QED
    BY <1>1, <2>1, TypesKept DEF TypeInv, Inv
<1>6. AgeInv'
  <2>1. ASSUME NEW s \in Workspaces, pool[s] # None, NEW e \in pending[pool[s]], client[e[1]] = "waiting"
        PROVE  idle'[s] <= waited'[e[1]]
    <3>1. e \in Executions /\ e[1] \in Requests
      BY <1>2, <2>1, PoolExecutions
    <3>2. idle[s] <= waited[e[1]]
      BY <2>1 DEF Inv, AgeInv
    <3>3. waited'[e[1]] = waited[e[1]] + 1 /\ waited[e[1]] \in Nat /\ idle[s] \in Nat
      BY <1>2, <1>3, <2>1, <3>1, Clocks
    <3>4. QED
      BY <1>4, <3>2, <3>3
  <2>2. QED
    BY <1>1, <2>1 DEF AgeInv
<1>7. OwnInv' /\ PlaceInv' /\ AskedInv' /\ CutInv' /\ WaitInv' /\ WorkInv'
  <2>1. OwnInv' /\ PlaceInv'
    BY <1>1, OwnKept DEF Inv
  <2>2. AskedInv'
    BY <1>1, AskedKept DEF Inv
  <2>3. QED
    BY <1>1, <2>1, <2>2 DEF Inv, CutInv, WaitInv, WorkInv
<1>8. QED
  BY <1>5, <1>6, <1>7 DEF Inv

-----------------------------------------------------------------------------
(* The theorems.                                                             *)

(* The invariant holds when the server starts. *)
LEMMA InitInv == Init => Inv
<1> SUFFICES ASSUME Init PROVE Inv
  OBVIOUS
<1>1. /\ process = "up" /\ client = [r \in Requests |-> "idle"] /\ waited = [r \in Requests |-> 0]
      /\ pool = [s \in Workspaces |-> None] /\ idle = [s \in Workspaces |-> 0]
      /\ spawning = [s \in Workspaces |-> Nothing] /\ debugger = [r \in Requests |-> None]
      /\ worker = [w \in Workers |-> Unused] /\ pending = [w \in Workers |-> {}] /\ io = [w \in Workers |-> {}]
      /\ faults = 0 /\ cut = {} /\ units = [r \in Requests |-> IF Made(r) THEN targets[r] ELSE {}]
  BY DEF Init
<1>2. DOMAIN targets \in SUBSET Requests /\ \A r \in DOMAIN targets : targets[r] \in SUBSET Workspaces
  <2>1. targets \in UNION {[made -> SUBSET Workspaces] : made \in SUBSET Requests}
    BY ConstantsAssumption DEF Init
  <2>2. PICK made \in SUBSET Requests : targets \in [made -> SUBSET Workspaces]
    BY <2>1
  <2>3. QED
    BY <2>2
<1>3. /\ Nothing \in Spawns /\ Nothing.worker = None /\ Nothing.waiters = <<>> /\ DOMAIN <<>> = {}
      /\ Unused \in WorkerRecs /\ Unused.life = "unused"
  BY LifeFacts DEF Nothing, Spawns
<1>4. TypeInv
  <2>1. ClientType
    <3>1. \A r \in Requests : (IF Made(r) THEN targets[r] ELSE {}) \in SUBSET Workspaces
      BY <1>2 DEF Made
    <3>2. QED
      BY <1>1, <3>1, Clocks DEF ClientType
  <2>2. PoolType /\ SpawnType /\ DebugType
    BY <1>1, <1>3, Clocks DEF PoolType, SpawnType, DebugType
  <2>3. WorkerType /\ PendingType /\ IoType
    BY <1>1, <1>3 DEF WorkerType, PendingType, IoType
  <2>4. SmallType
    BY <1>1, <1>2, ConstantsAssumption DEF SmallType
  <2>5. QED
    BY <2>1, <2>2, <2>3, <2>4 DEF TypeInv
<1>5. OwnInv /\ PlaceInv
  <2>1. \A s \in Workspaces : pool[s] = None /\ spawning[s].worker = None
    BY <1>1, <1>3
  <2>2. \A r \in Requests : debugger[r] = None
    BY <1>1
  <2>3. \A w \in Workers : w # None /\ worker[w] = Unused /\ worker[w].life = "unused" /\ pending[w] = {}
    BY <1>1, <1>3, NoneAssumption
  <2>4. QED
    BY <2>1, <2>2, <2>3 DEF OwnInv, OwnAt, Owned, PlaceInv, Live
<1>6. AskedInv
  <2>1. \A r \in Requests : \A s \in units[r] : r \in DOMAIN targets /\ s \in targets[r]
    BY <1>1 DEF Made
  <2>2. \A s \in Workspaces : DOMAIN spawning[s].waiters = {}
    BY <1>1, <1>3
  <2>3. QED
    BY <1>1, <2>1, <2>2 DEF AskedInv
<1>7. AgeInv /\ CutInv /\ WaitInv /\ WorkInv
  <2>1. \A s \in Workspaces : DOMAIN spawning[s].waiters = {}
    BY <1>1, <1>3
  <2>2. \A w \in Workers : ~Live(worker[w])
    BY <1>1, <1>3 DEF Live
  <2>3. QED
    BY <1>1, <2>1, <2>2 DEF AgeInv, CutInv, WaitInv, WorkInv
<1>8. QED
  BY <1>4, <1>5, <1>6, <1>7 DEF Inv

(* Every step keeps it. *)
LEMMA NextInv == Inv /\ [Next]_vars => Inv'
<1> SUFFICES ASSUME Inv, [Next]_vars PROVE Inv'
  OBVIOUS
<1>1. CASE UNCHANGED vars
  <2>1. /\ UNCHANGED <<process, client, waited, units, pool, idle, spawning, debugger, worker, pending, io, faults, cut>>
        /\ UNCHANGED targets /\ UNCHANGED clients
    BY <1>1 DEF vars, clients
  <2>2. TypeInv'
    BY <2>1, TypesKept DEF TypeInv, Inv
  <2>3. CutInv'
    BY <2>1 DEF Inv, CutInv
  <2>4. OwnInv' /\ PlaceInv' /\ AskedInv'
    BY <2>1, OwnKept, AskedKept DEF Inv
  <2>5. AgeInv' /\ WaitInv' /\ WorkInv'
    BY <2>1 DEF Inv, AgeInv, WaitInv, WorkInv
  <2>6. QED
    BY <2>2, <2>3, <2>4, <2>5 DEF Inv
<1>2. CASE Next
  <2>0. UNCHANGED targets
    BY <1>2 DEF Next
  <2>1. ASSUME NEW r \in Requests, Send(r) \/ UdfRun(r) PROVE Inv'
    BY <2>0, <2>1, SendKeeps, UdfRunKeeps
  <2>2. ASSUME NEW r \in Requests, NEW s \in Workspaces, Handle(r, s) PROVE Inv'
    BY <2>0, <2>2, HandleNowKeeps, HandleAwaitKeeps, HandleSpawnKeeps
  <2>3. ASSUME NEW r \in Requests, UdfTimeouts(r) \/ GiveUp(r) PROVE Inv'
    BY <2>0, <2>3, UdfTimeoutsKeeps, GiveUpKeeps
  <2>4. ASSUME NEW w \in Workers, OnMessage(w) \/ Die(w) PROVE Inv'
    BY <2>0, <2>4, OnMessageKeeps, DieKeeps
  <2>5. ASSUME NEW w \in Workers, (\E exec \in io[w] : IoDone(w, exec)) \/ Worker(w) \/ Hang(w) PROVE Inv'
    <3>1. Touches(w)
      BY <2>0, <2>5, IoDoneTouches, WorkerMessageTouches, CallTouches, ReturnTouches, HangTouches DEF Worker
    <3>2. QED
      BY <3>1, TouchKeeps
  <2>6. CASE Tick
    BY <2>0, <2>6, TickKeeps
  <2>7. CASE Evict
    BY <2>0, <2>7, EvictKeeps
  <2>8. CASE Stop \/ TerminateAll \/ Exit
    BY <2>0, <2>8, ShutdownKeeps
  <2>9. QED
    BY <1>2, <2>1, <2>2, <2>3, <2>4, <2>5, <2>6, <2>7, <2>8, Zenon DEF Next, Step, Main
<1>3. QED
  BY <1>1, <1>2

(* The inductive invariant. *)
THEOREM Invariant == Spec => []Inv
<1>1. Init => Inv
  BY InitInv
<1>2. Inv /\ [Next]_vars => Inv'
  BY NextInv
<1>3. QED
  BY <1>1, <1>2, PTL DEF Spec

(* The types of the state: in particular a run of the debugger whose worker lives *)
(* has a client that waits or has given up, until the process exits.              *)
THEOREM TypeCorrect == Spec => []TypeOK
<1>1. Inv => TypeOK
  <2> SUFFICES ASSUME Inv PROVE TypeOK
    OBVIOUS
  <2>1. ClientType /\ PoolType /\ DebugType /\ SmallType
    BY DEF Inv, TypeInv
  <2>2. \A w \in Workers : worker[w].life \in Lives /\ pending[w] \subseteq Executions /\ io[w] \subseteq Executions
    BY RecFields DEF Inv, TypeInv, WorkerType, PendingType, IoType
  <2>3. process # "exited" => \A r \in Requests : debugger[r] # None => client[r] \in {"waiting", "gone"}
    BY DEF Inv, AskedInv
  <2>4. QED
    BY <2>1, <2>2, <2>3 DEF TypeOK, ClientType, PoolType, DebugType, SmallType
<1>2. QED
  BY <1>1, Invariant, PTL

(* One of three sets has an element, and only that one. *)
LEMMA OneOfThree ==
    ASSUME NEW A, NEW B, NEW C,
           \A x, y \in A : x = y, \A x, y \in B : x = y, \A x, y \in C : x = y,
           A # {} \/ B # {} \/ C # {}, A = {} \/ B = {}, A = {} \/ C = {}, B = {} \/ C = {}
    PROVE  Cardinality(A \cup B \cup C) = 1
<1>1. ASSUME NEW T, T # {}, \A x, y \in T : x = y
      PROVE  Cardinality(T) = 1
  <2>1. PICK x \in T : TRUE
    BY <1>1
  <2>2. T = {x}
    BY <1>1, <2>1
  <2>3. QED
    BY <2>2, FS_Singleton
<1>2. CASE A # {}
  <2>1. A \cup B \cup C = A
    BY <1>2
  <2>2. QED
    BY <1>1, <1>2, <2>1
<1>3. CASE B # {}
  <2>1. A \cup B \cup C = B
    BY <1>3
  <2>2. QED
    BY <1>1, <1>3, <2>1
<1>4. CASE C # {}
  <2>1. A \cup B \cup C = C
    BY <1>4
  <2>2. QED
    BY <1>1, <1>4, <2>1
<1>5. QED
  BY <1>2, <1>3, <1>4

(* LazyWorkerPool and runUdfInWorker(): every worker that runs has one owner that *)
(* would terminate it, whatever requests, timeouts, deaths, evictions and a       *)
(* shutdown meet.                                                                 *)
THEOREM WorkersHaveOwners == Spec => []NoStrayWorkers
<1>1. Inv => NoStrayWorkers
  <2> SUFFICES ASSUME Inv, NEW w \in Workers, worker[w].life \in {"alive", "hung"}
               PROVE  Cardinality({s \in Workspaces : pool[s] = w} \cup {s \in Workspaces : spawning[s].worker = w}
                                  \cup {r \in Requests : debugger[r] = w}) = 1
    BY DEF NoStrayWorkers
  <2> DEFINE P == {s \in Workspaces : pool[s] = w}
             S == {s \in Workspaces : spawning[s].worker = w}
             D == {r \in Requests : debugger[r] = w}
  <2>1. OwnAt(w) /\ Owned(w)
    BY DEF Inv, OwnInv, OwnAt, Live
  <2>2. /\ \A s, t \in P : s = t
        /\ \A s, t \in S : s = t
        /\ \A s, t \in D : s = t
        /\ P = {} \/ (S = {} /\ D = {})
        /\ S = {} \/ D = {}
    <3>1. /\ \A s, t \in P : s = t
          /\ \A s, t \in S : s = t
          /\ \A s, t \in D : s = t
      BY <2>1 DEF OwnAt
    <3>2. P = {} \/ (S = {} /\ D = {})
      BY <2>1 DEF OwnAt
    <3>3. S = {} \/ D = {}
      BY <2>1 DEF OwnAt
    <3>4. QED
      BY <3>1, <3>2, <3>3
  <2>3. P # {} \/ S # {} \/ D # {}
    BY <2>1 DEF Owned
  <2> HIDE DEF P, S, D
  <2>4. /\ P = {} \/ S = {}
        /\ P = {} \/ D = {}
        /\ S = {} \/ D = {}
    BY <2>2
  <2>5. Cardinality(P \cup S \cup D) = 1
    BY <2>2, <2>3, <2>4, OneOfThree
  <2>6. QED
    BY <2>5 DEF P, S, D
<1>2. QED
  BY <1>1, Invariant, PTL

(* postMessage() and the promises of ws.pending: what the main process awaits of a *)
(* worker that lives is on its way, once.                                          *)
THEOREM WorkIsOnItsWay == Spec => []NoLostWork
<1>1. Inv => NoLostWork
  <2> SUFFICES ASSUME Inv, NEW w \in Workers, worker[w].life \in {"alive", "hung"}, NEW exec \in pending[w]
               PROVE  Cardinality(Places(w, exec)) = 1
    BY DEF NoLostWork
  <2> DEFINE rec == worker[w]
  <2>1. rec \in WorkerRecs /\ Owes(rec, pending[w]) /\ exec \in Requests \X Workspaces
    <3>1. exec \in Executions /\ Asked(exec)
      BY DEF Inv, TypeInv, PendingType, AskedInv
    <3>2. exec \in Requests \X Workspaces
      BY <3>1, PoolExecutions DEF Asked
    <3>3. QED
      BY <3>2 DEF Inv, TypeInv, WorkerType, WorkInv, Live
  <2>2. Once(rec, exec) /\ Somewhere(rec, exec)
    BY <2>1 DEF Owes
  <2> DEFINE I == {<<"inbox", i>> : i \in {j \in DOMAIN rec.inbox : rec.inbox[j] = Msg("exec", exec)}}
             R == {<<"running", x>> : x \in {y \in rec.running : y.exec = exec}}
             O == {<<"outbox", i>> : i \in {j \in DOMAIN rec.outbox : rec.outbox[j] = Msg("result", exec)}}
  <2>3. Places(w, exec) = I \cup R \cup O
    BY DEF Places
  <2> HIDE DEF rec
  <2>4. rec.running \in SUBSET Runs /\ DOMAIN rec.inbox \subseteq Nat /\ DOMAIN rec.outbox \subseteq Nat
    BY <2>1, RecFields
  <2>5. \A p : p \in I <=> \E i \in Nat : Inbound(rec, exec, i) /\ p = <<"inbox", i>>
    BY <2>4 DEF Inbound
  <2>6. \A p : p \in R <=> \E x \in Runs : Run(rec, exec, x) /\ p = <<"running", x>>
    BY <2>4 DEF Run
  <2>7. \A p : p \in O <=> \E i \in Nat : Outbound(rec, exec, i) /\ p = <<"outbox", i>>
    BY <2>4 DEF Outbound
  <2> HIDE DEF I, R, O
  <2>8. /\ \A p, q \in I : p = q
        /\ \A p, q \in R : p = q
        /\ \A p, q \in O : p = q
    BY <2>2, <2>5, <2>6, <2>7 DEF Once, InOnce, RunOnce, OutOnce
  <2>9. (I # {} <=> In(rec, exec)) /\ (R # {} <=> Executing(rec, exec)) /\ (O # {} <=> Out(rec, exec))
    BY <2>5, <2>6, <2>7 DEF In, Executing, Out
  <2>10. /\ I # {} \/ R # {} \/ O # {}
         /\ I = {} \/ R = {}
         /\ I = {} \/ O = {}
         /\ R = {} \/ O = {}
    BY <2>2, <2>9 DEF Once, Somewhere
  <2>11. Cardinality(I \cup R \cup O) = 1
    BY <2>8, <2>10, OneOfThree
  <2>12. QED
    BY <2>3, <2>11
<1>2. QED
  BY <1>1, Invariant, PTL

(* evict(): an execution is cut off only when its client no longer waits. *)
THEOREM EvictionsAreLate == Spec => []EvictsOnlyAbandoned
<1>1. Inv => EvictsOnlyAbandoned
  BY DEF Inv, CutInv, EvictsOnlyAbandoned
<1>2. QED
  BY <1>1, Invariant, PTL
===============================================================================
