---------------------------- MODULE FunctionsServer ----------------------------
(***************************************************************************)
(* The functions server of the free class: it runs the user defined         *)
(* functions of a workspace in a sandboxed worker of that workspace.        *)
(* Workers are spawned on the first request (LazyWorkerPool), answer        *)
(* requests concurrently, ask the main process for their I/O and are        *)
(* terminated when they have not been asked anything for a while.  The      *)
(* function debugger (/udfrun) uses a worker of its own.                    *)
(*                                                                          *)
(* Main process and workers exchange messages over two FIFO channels; a     *)
(* message to a worker that is terminated or dead is silently dropped.      *)
(***************************************************************************)
EXTENDS Integers, Sequences, FiniteSets

CONSTANTS
    Workspaces,
    Requests,      \* HTTP requests
    Scenarios,     \* the requests that are made: the workspaces of each one's
                   \* connections, {} for /udfrun
    MaxWorkers,    \* bound: workers spawned; one per target and debugger run is enough
    MaxCalls,      \* bound: I/O calls of one execution
    Ttl,           \* WORKER_TTL_MS, in ticks
    ClientTimeout, \* FUNCTIONS_SERVER_TIMEOUT_MS of the client, in ticks
    UdfTimeout,    \* UDF_TIMEOUT_MS, in ticks
    MaxFaults,     \* bound: workers that hang or die
    MayStop,       \* whether the server may be told to shut down
    None

ASSUME ConstantsAssumption ==
    /\ Scenarios \subseteq UNION {[made -> SUBSET Workspaces] : made \in SUBSET Requests}
    /\ MaxCalls \in Nat /\ MaxFaults \in Nat /\ MaxWorkers \in Nat /\ MayStop \in BOOLEAN
    /\ {Ttl, ClientTimeout, UdfTimeout} \subseteq Nat \ {0}
    /\ ClientTimeout <= Ttl /\ UdfTimeout <= ClientTimeout

VARIABLES
    targets,   \* the scenario; it does not change
    process,   \* of the server: "up", "draining", "closing", "exited"
    client,    \* per request: "idle", "waiting", or how it ended: "ok", "error", "gone"
    waited,    \* per request: ticks since it was sent
    units,     \* per request: the targets without a result
    pool,      \* workers of LazyWorkerPool: per workspace a worker or None
    idle,      \* per workspace: ticks since lastUsedAt
    spawning,  \* per workspace: the worker that starts, and who awaits it
    debugger,  \* per request: the worker of /udfrun, or None
    worker,    \* per worker: what it is and does
    pending,   \* per worker: executions the main process awaits (ws.pending)
    io,        \* per worker: I/O calls under way in the main process
    faults,    \* hung and dead workers so far
    cut        \* history: executions whose worker was evicted under them

vars == <<targets, process, client, waited, units, pool, idle, spawning, debugger, worker, pending, io, faults, cut>>
clients == <<client, waited, units>>
manager == <<pool, idle, spawning, debugger>>

Workers == 1 .. MaxWorkers
ASSUME NoneAssumption == None \notin Workspaces \cup Workers

Nothing == [worker |-> None, waiters |-> <<>>]
Unused == [life |-> "unused", inbox |-> <<>>, outbox |-> <<>>, running |-> {}]
Stopped(life) == [life |-> life, inbox |-> <<>>, outbox |-> <<>>, running |-> {}]
Alive(w) == worker[w].life = "alive"
Fresh == {w \in Workers : worker[w].life = "unused" /\ \A v \in 1 .. (w - 1) : worker[v].life # "unused"}
Made(r) == r \in DOMAIN targets
IsDebug(r) == targets[r] = {}

Msg(type, exec) == [type |-> type, exec |-> exec]

Init ==
    /\ targets \in Scenarios
    /\ process = "up"
    /\ client = [r \in Requests |-> "idle"] /\ waited = [r \in Requests |-> 0]
    /\ units = [r \in Requests |-> IF Made(r) THEN targets[r] ELSE {}]
    /\ pool = [s \in Workspaces |-> None] /\ idle = [s \in Workspaces |-> 0]
    /\ spawning = [s \in Workspaces |-> Nothing] /\ debugger = [r \in Requests |-> None]
    /\ worker = [w \in Workers |-> Unused]
    /\ pending = [w \in Workers |-> {}] /\ io = [w \in Workers |-> {}]
    /\ faults = 0 /\ cut = {}

-----------------------------------------------------------------------------
(* Requests: getOrCreate() and execInWorker().                               *)

(* postMessage(): a worker that is gone does not get it *)
Post(record, message) ==
    IF record.life \in {"alive", "hung"} THEN [record EXCEPT !.inbox = Append(@, message)] ELSE record

(* createWorkspaceWorker(): the worker starts with an init message *)
Starting == [Unused EXCEPT !.life = "alive", !.inbox = <<Msg("init", None)>>]

(* A faulty variant: concurrent requests do not share a spawn *)
Awaited_Never(s) == FALSE

(* Deduplicate concurrent spawns for the same workspace *)
Awaited(s) == spawning[s].worker # None

(* A faulty variant: only a new worker counts as used *)
Used_AtSpawnOnly(s) == idle

(* existing.lastUsedAt = Date.now() *)
Used(s) == [idle EXCEPT ![s] = 0]

(* One target of a request: the worker of its workspace executes it, or it *)
(* waits for that worker to start                                          *)
Dispatch(r, s) ==
    LET exec == <<r, s>> w == pool[s] IN
    \/ /\ w # None
       /\ idle' = Used(s)
       /\ pending' = [pending EXCEPT ![w] = @ \cup {exec}]
       /\ worker' = [worker EXCEPT ![w] = Post(@, Msg("exec", exec))]
       /\ UNCHANGED <<pool, spawning>>
    \/ /\ w = None /\ Awaited(s)
       /\ spawning' = [spawning EXCEPT ![s].waiters = Append(@, exec)]
       /\ UNCHANGED <<pool, idle, pending, worker>>
    \/ /\ w = None /\ ~Awaited(s)
       /\ \E fresh \in Fresh :
            /\ worker' = [worker EXCEPT ![fresh] = Starting]
            /\ spawning' = [spawning EXCEPT ![s] = [worker |-> fresh, waiters |-> Append(@.waiters, exec)]]
       /\ UNCHANGED <<pool, idle, pending>>

(* POST /connection/<id> or /multi: the body is read before anything else *)
Send(r) ==
    /\ process \in {"up", "draining"} /\ client[r] = "idle" /\ Made(r) /\ ~IsDebug(r)
    /\ client' = [client EXCEPT ![r] = "waiting"]
    /\ UNCHANGED <<process, waited, units, manager, worker, pending, io, faults, cut>>

Dispatched(r, s) ==
    \/ \E w \in Workers : <<r, s>> \in pending[w]
    \/ \E i \in DOMAIN spawning[s].waiters : spawning[s].waiters[i] = <<r, s>>

(* The targets of /multi are handled in parallel *)
Handle(r, s) ==
    /\ process # "exited" /\ client[r] # "idle" /\ s \in units[r] /\ ~Dispatched(r, s)
    /\ Dispatch(r, s)
    /\ UNCHANGED <<process, clients, debugger, io, faults, cut>>

(* POST /udfrun: runUdfInWorker() starts a worker and a timer *)
UdfRun(r) ==
    /\ process \in {"up", "draining"} /\ client[r] = "idle" /\ Made(r) /\ IsDebug(r)
    /\ client' = [client EXCEPT ![r] = "waiting"]
    /\ \E fresh \in Fresh :
         /\ worker' = [worker EXCEPT ![fresh] = Starting]
         /\ debugger' = [debugger EXCEPT ![r] = fresh]
    /\ UNCHANGED <<process, waited, units, pool, idle, spawning, pending, io, faults, cut>>

-----------------------------------------------------------------------------
(* worker.onmessage in the main process.                                     *)

WorkspaceOf(w) == {s \in Workspaces : spawning[s].worker = w}

(* ready: spawn() puts the worker into the pool, and everyone who awaited it *)
(* has it execute its request                                                *)
Ready(w, taken) ==
    \/ \E s \in WorkspaceOf(w) :
         LET waiters == spawning[s].waiters
             posts == [i \in DOMAIN waiters |-> Msg("exec", waiters[i])] IN
         /\ pool' = [pool EXCEPT ![s] = w] /\ idle' = [idle EXCEPT ![s] = 0]
         /\ spawning' = [spawning EXCEPT ![s] = Nothing]
         /\ pending' = [pending EXCEPT ![w] = @ \cup {waiters[i] : i \in DOMAIN waiters}]
         /\ worker' = [worker EXCEPT ![w] = [taken EXCEPT !.inbox =
                          IF taken.life \in {"alive", "hung"} THEN @ \o posts ELSE @]]
         /\ UNCHANGED <<debugger, clients>>
    \/ \E r \in Requests :
         /\ debugger[r] = w
         /\ worker' = [worker EXCEPT ![w] = Post(taken, Msg("exec", <<r, None>>))]
         /\ UNCHANGED <<manager, pending, clients>>

(* The answer to a request goes out when all of its targets have a result *)
Responded(r, left) ==
    client' = [client EXCEPT ![r] = IF left = {} /\ @ = "waiting" THEN "ok" ELSE @]

(* result: the promise of the request is resolved; that of the debugger     *)
(* answers and terminates the worker                                        *)
Result(w, exec, taken) ==
    \/ /\ exec \in pending[w]
       /\ pending' = [pending EXCEPT ![w] = @ \ {exec}]
       /\ units' = [units EXCEPT ![exec[1]] = @ \ {exec[2]}]
       /\ Responded(exec[1], units[exec[1]] \ {exec[2]})
       /\ worker' = [worker EXCEPT ![w] = taken]
       /\ UNCHANGED <<manager, waited>>
    \/ /\ debugger[exec[1]] = w
       /\ Responded(exec[1], {})
       /\ debugger' = [debugger EXCEPT ![exec[1]] = None]
       /\ worker' = [worker EXCEPT ![w] = Stopped("terminated")]
       /\ UNCHANGED <<pool, idle, spawning, pending, waited, units>>

OnMessage(w) ==
    /\ process # "exited" /\ worker[w].outbox # <<>>
    /\ LET message == Head(worker[w].outbox)
           taken == [worker[w] EXCEPT !.outbox = Tail(@)] IN
       \/ message.type = "ready" /\ Ready(w, taken) /\ UNCHANGED io
       \/ message.type = "result" /\ Result(w, message.exec, taken) /\ UNCHANGED io
       \/ /\ message.type = "proxyRequest"
          /\ io' = [io EXCEPT ![w] = @ \cup {message.exec}]
          /\ worker' = [worker EXCEPT ![w] = taken]
          /\ UNCHANGED <<manager, pending, clients>>
    /\ UNCHANGED <<process, faults, cut>>

(* The store, fetch or the warehouse answers, or fails: the worker is told *)
IoDone(w, exec) ==
    /\ process # "exited" /\ exec \in io[w]
    /\ io' = [io EXCEPT ![w] = @ \ {exec}]
    /\ worker' = [worker EXCEPT ![w] = Post(@, Msg("proxyResponse", exec))]
    /\ UNCHANGED <<process, clients, manager, pending, faults, cut>>

-----------------------------------------------------------------------------
(* The worker: self.onmessage.                                               *)

Running(exec, calls, state) == [exec |-> exec, calls |-> calls, state |-> state]

WorkerMessage(w) ==
    /\ process # "exited" /\ Alive(w) /\ worker[w].inbox # <<>>
    /\ LET message == Head(worker[w].inbox)
           taken == [worker[w] EXCEPT !.inbox = Tail(@)] IN
       worker' = [worker EXCEPT ![w] =
          CASE message.type = "init" -> [taken EXCEPT !.outbox = Append(@, Msg("ready", None))]
            [] message.type = "exec" -> [taken EXCEPT !.running = @ \cup {Running(message.exec, 0, "run")}]
            [] OTHER -> [taken EXCEPT !.running =
                  {IF x.exec = message.exec /\ x.state = "call" THEN [x EXCEPT !.state = "run"] ELSE x : x \in @}]]
    /\ UNCHANGED <<process, clients, manager, pending, io, faults, cut>>

(* callMain(): a function awaits I/O *)
Call(w, x) ==
    /\ process # "exited" /\ Alive(w) /\ x \in worker[w].running /\ x.state = "run" /\ x.calls < MaxCalls
    /\ worker' = [worker EXCEPT ![w].running = (@ \ {x}) \cup {Running(x.exec, x.calls + 1, "call")},
                                ![w].outbox = Append(@, Msg("proxyRequest", x.exec))]
    /\ UNCHANGED <<process, clients, manager, pending, io, faults, cut>>

(* A faulty variant: a chain that throws posts no result *)
Answers_IfNoIo(x) == IF x.calls = 0 THEN <<Msg("result", x.exec)>> ELSE <<>>

(* The chain ends, or throws: either way the result is posted *)
Answers(x) == <<Msg("result", x.exec)>>

Return(w, x) ==
    /\ process # "exited" /\ Alive(w) /\ x \in worker[w].running /\ x.state = "run"
    /\ worker' = [worker EXCEPT ![w].running = @ \ {x}, ![w].outbox = @ \o Answers(x)]
    /\ UNCHANGED <<process, clients, manager, pending, io, faults, cut>>

(* User code runs while the worker instantiates or executes functions *)
InUserCode(w) ==
    \/ worker[w].inbox # <<>> /\ Head(worker[w].inbox).type = "init"
    \/ worker[w].running # {}

(* User code does not return: the worker takes no more messages *)
Hang(w) ==
    /\ process # "exited" /\ faults < MaxFaults /\ Alive(w) /\ InUserCode(w)
    /\ faults' = faults + 1
    /\ worker' = [worker EXCEPT ![w].life = "hung"]
    /\ UNCHANGED <<process, clients, manager, pending, io, cut>>

(* User code throws where nobody catches it, or runs out of memory: the worker *)
(* dies, and what it sent last may not arrive.  onerror of the pool only logs  *)
(* it, the one of the debugger answers                                         *)
Die(w) ==
    /\ process # "exited" /\ faults < MaxFaults /\ Alive(w) /\ InUserCode(w)
    /\ faults' = faults + 1
    /\ \E n \in 0 .. Len(worker[w].outbox) :
         worker' = [worker EXCEPT ![w] = [Stopped("dead") EXCEPT !.outbox = SubSeq(worker[w].outbox, 1, n)]]
    /\ client' = [r \in Requests |-> IF debugger[r] = w /\ client[r] = "waiting" THEN "error" ELSE client[r]]
    /\ debugger' = [r \in Requests |-> IF debugger[r] = w THEN None ELSE debugger[r]]
    /\ UNCHANGED <<process, waited, units, pool, idle, spawning, pending, io, cut>>

-----------------------------------------------------------------------------
(* Time.                                                                     *)

(* The timer of the debugger terminates its worker and answers *)
UdfTimeouts(r) ==
    /\ process # "exited" /\ debugger[r] # None /\ waited[r] = UdfTimeout
    /\ worker' = [worker EXCEPT ![debugger[r]] = Stopped("terminated")]
    /\ debugger' = [debugger EXCEPT ![r] = None]
    /\ client' = [client EXCEPT ![r] = IF @ = "waiting" THEN "error" ELSE @]
    /\ UNCHANGED <<process, waited, units, pool, idle, spawning, pending, io, faults, cut>>

(* The client's request times out; the server does not learn of it *)
GiveUp(r) ==
    /\ client[r] = "waiting" /\ waited[r] = ClientTimeout
    /\ client' = [client EXCEPT ![r] = "gone"]
    /\ UNCHANGED <<process, waited, units, manager, worker, pending, io, faults, cut>>

(* Timers of clients and of the debugger fire in time; the check of the pool *)
(* comes when it comes                                                       *)
Tick ==
    /\ \A r \in Requests : ~(client[r] = "waiting" /\ waited[r] = ClientTimeout)
                           /\ ~(debugger[r] # None /\ waited[r] = UdfTimeout)
    /\ \/ \E r \in Requests : client[r] = "waiting"
       \/ \E s \in Workspaces : pool[s] # None /\ idle[s] <= Ttl
    /\ waited' = [r \in Requests |-> IF client[r] = "waiting" THEN waited[r] + 1 ELSE waited[r]]
    /\ idle' = [s \in Workspaces |-> IF pool[s] # None /\ idle[s] <= Ttl THEN idle[s] + 1 ELSE idle[s]]
    /\ UNCHANGED <<process, client, units, pool, spawning, debugger, worker, pending, io, faults, cut>>

(* A faulty variant: a worker that owes results is not evicted *)
Expired_NoneOwed == {s \in Workspaces : pool[s] # None /\ idle[s] > Ttl /\ pending[pool[s]] = {}}

(* now - entry.lastUsedAt > WORKER_TTL_MS *)
Expired == {s \in Workspaces : pool[s] # None /\ idle[s] > Ttl}

(* evict(): workers that were not used for a while are terminated *)
Evict ==
    /\ process \in {"up", "draining"} /\ Expired # {}
    /\ LET gone == {pool[s] : s \in Expired} IN
       /\ worker' = [w \in Workers |-> IF w \in gone THEN Stopped("terminated") ELSE worker[w]]
       /\ cut' = cut \cup UNION {pending[w] : w \in gone}
    /\ pool' = [s \in Workspaces |-> IF s \in Expired THEN None ELSE pool[s]]
    /\ idle' = [s \in Workspaces |-> IF s \in Expired THEN 0 ELSE idle[s]]
    /\ UNCHANGED <<process, clients, spawning, debugger, pending, io, faults>>

-----------------------------------------------------------------------------
(* Shutdown.                                                                 *)

(* SIGTERM: requests are still served, until the delay is over *)
Stop ==
    /\ MayStop /\ process = "up"
    /\ process' = "draining"
    /\ UNCHANGED <<clients, manager, worker, pending, io, faults, cut>>

(* terminateAll(), then no new requests; workers that start are not stopped *)
TerminateAll ==
    /\ process = "draining"
    /\ process' = "closing"
    /\ worker' = [w \in Workers |-> IF \E s \in Workspaces : pool[s] = w THEN Stopped("terminated") ELSE worker[w]]
    /\ pool' = [s \in Workspaces |-> None] /\ idle' = [s \in Workspaces |-> 0]
    /\ UNCHANGED <<clients, spawning, debugger, pending, io, faults, cut>>

(* All requests are answered, or the time for it is over: the process exits *)
Exit ==
    /\ process = "closing"
    /\ process' = "exited"
    /\ client' = [r \in Requests |-> IF client[r] = "waiting" THEN "error" ELSE client[r]]
    /\ UNCHANGED <<waited, units, manager, worker, pending, io, faults, cut>>

Main ==
    \/ \E r \in Requests : (\E s \in Workspaces : Handle(r, s)) \/ UdfTimeouts(r) \/ GiveUp(r)
    \/ \E w \in Workers : OnMessage(w) \/ \E exec \in io[w] : IoDone(w, exec)

Worker(w) == WorkerMessage(w) \/ \E x \in worker[w].running : Call(w, x) \/ Return(w, x)

Step ==
    \/ \E r \in Requests : Send(r) \/ UdfRun(r)
    \/ Main
    \/ \E w \in Workers : Worker(w) \/ Hang(w) \/ Die(w)
    \/ Tick \/ Evict
    \/ Stop \/ TerminateAll \/ Exit

Next == Step /\ UNCHANGED targets

Spec == Init /\ [][Next]_vars

(* The event loops run, time passes, and the timers of the pool and of a     *)
(* shutdown fire.                                                            *)
FairSpec ==
    /\ Spec
    /\ WF_vars(Main /\ UNCHANGED targets)
    /\ \A w \in Workers : WF_vars(Worker(w) /\ UNCHANGED targets)
    /\ WF_vars(Tick /\ UNCHANGED targets) /\ WF_vars(Evict /\ UNCHANGED targets)
    /\ WF_vars((TerminateAll \/ Exit) /\ UNCHANGED targets)

-----------------------------------------------------------------------------
(* Properties.                                                               *)

Executions == {<<r, s>> : r \in Requests, s \in Workspaces \cup {None}}
Lives == {"unused", "alive", "hung", "dead", "terminated"}

(* Types of the state. *)
TypeOK ==
    /\ process \in {"up", "draining", "closing", "exited"}
    /\ client \in [Requests -> {"idle", "waiting", "ok", "error", "gone"}]
    /\ waited \in [Requests -> 0 .. ClientTimeout]
    /\ \A r \in Requests : units[r] \subseteq Workspaces
    /\ pool \in [Workspaces -> Workers \cup {None}]
    /\ idle \in [Workspaces -> 0 .. (Ttl + 1)]
    /\ debugger \in [Requests -> Workers \cup {None}]
    /\ process # "exited" => \A r \in Requests : debugger[r] # None => client[r] \in {"waiting", "gone"}
    /\ \A w \in Workers : worker[w].life \in Lives /\ pending[w] \subseteq Executions /\ io[w] \subseteq Executions
    /\ faults \in 0 .. MaxFaults

(* Every worker that runs is in the pool, is being spawned or serves one run of *)
(* the debugger, whatever requests, timeouts, evictions and a shutdown meet:    *)
(* no sandbox is left running that the server does not know of, and a workspace *)
(* has one at a time.  (One that hangs before it is ready is known, but its     *)
(* spawn is awaited for good: see SpawnsEnd.)                                   *)
NoStrayWorkers ==
    \A w \in Workers : worker[w].life \in {"alive", "hung"} =>
        Cardinality({s \in Workspaces : pool[s] = w} \cup {s \in Workspaces : spawning[s].worker = w}
                    \cup {r \in Requests : debugger[r] = w}) = 1

(* What the main process awaits of a worker that lives is on its way: in one    *)
(* of the two channels, or executed, and only once.                             *)
Places(w, exec) ==
    {<<"inbox", i>> : i \in {j \in DOMAIN worker[w].inbox : worker[w].inbox[j] = Msg("exec", exec)}}
    \cup {<<"running", x>> : x \in {y \in worker[w].running : y.exec = exec}}
    \cup {<<"outbox", i>> : i \in {j \in DOMAIN worker[w].outbox : worker[w].outbox[j] = Msg("result", exec)}}
NoLostWork == \A w \in Workers : worker[w].life \in {"alive", "hung"} => \A exec \in pending[w] : Cardinality(Places(w, exec)) = 1

(* "Evicting idle worker": a worker may be evicted that still executes a        *)
(* request, as only the start of a request counts as use, but then the client   *)
(* has long given up, as its timeout (30 s) is not above the time to live       *)
(* (10 min), which are the defaults and not enforced.  A shutdown is no eviction. *)
EvictsOnlyAbandoned == \A exec \in cut : client[exec[1]] # "waiting"

(* A worker that hangs or is dead leaves the pool in the end, when requests     *)
(* cease to come: nothing but its eviction removes it.                          *)
Heals ==
    \A s \in Workspaces, w \in Workers :
        (pool[s] = w /\ ~Alive(w)) ~> (pool[s] # w \/ process = "exited")

(* A worker that is being spawned is ready in the end, or replaced.  It is not: *)
(* when it hangs or dies before it is ready, all later requests of the          *)
(* workspace await it for good.                                                 *)
SpawnsEnd == \A s \in Workspaces : Awaited(s) ~> (~Awaited(s) \/ process = "exited")
=============================================================================
