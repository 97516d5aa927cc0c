# A TLA+ verification of VOID OS Merger

VOID OS Merger joins several machines into one cluster: a *master* splits
workloads into chunks and leases them to *workers*, which run them as child
processes and report back over ZeroMQ; an *agent* announces what a machine can
do, and a small web dashboard shows the master's journal. This directory holds
TLA+ modules for the stateful parts of these programs, TLC instances of them,
and TLAPS proofs about the master, about leases between master and worker, about
the worker's and the common library's parts that several threads share, and about
how the programs end.
Paths below are relative to `src/`.

## 1. The parts of the system

In the program as it is built, `master/src/main.c` uses the cluster state and
talks to `worker/src/main.c`. The scheduler, recovery, workload, registry,
planner, router, transport, executor and monitor are libraries with their own
self-tests, which no program of the repository calls yet. They are modelled by
their interface: any caller, any order of calls.

| Part | State | Operations that change it | What is hard about it |
|---|---|---|---|
| Scheduler, `master/src/scheduler.c` | tables of workers, ready chunks, leases | register, submit, tick, release, init | a tick reclaims, reassigns and assigns in one pass over bounded tables; 8-bit reservations |
| Master recovery, `master/src/recovery.c` | workers heard of, leases, published health, open recovery jobs | heartbeat, inject lease, timeout sweep, incoming result | results late, repeated or misdirected; the sweep's clock is read before the lock |
| Workload, `master/src/workload.c` | jobs with three chunks in a chain | submit, cancel, chunk result, deadline check | results in any order, after a deadline or a cancel |
| Cluster state, `master/src/cluster_state.c` | members, leases, aggregates, snapshot ring, journal file | register, heartbeat, lease update, acquire, release, persist, recover | cached aggregates; crashes while the journal is rewritten |
| Registry, `master/src/registry.c` | a record per worker, snapshot ring | join, heartbeat, leave, track, untrack, sweep, acquire, release | joins after leaves, a sweep with a small report buffer |
| Planner, `master/src/chunk_planner.c` | strategies, a plan, the topological check's counts and queue | register, generate, verify | in-place algorithm over arbitrary edge lists |
| Router and transport, `master/src/router.c`, `worker/src/transport.c` | sockets, frames, sequence number, session flags | start, stop, send, run_once; connect, disconnect, send, poll | several sending threads, failing sends, reconnects |
| Programs, `master/src/main.c`, `worker/src/main.c` | where each program is, what it has opened, frames, stop flags, members | start-up and its failures, join loop, heartbeats, receive loop, signals, teardown | two blocking receives against each other; signals and receives |
| Worker recovery, `worker/src/recovery.c` | leases held, drain and connection flags | drain, accept, revoke, complete, disconnect, reconcile, claim | results finished while the master is away |
| Discovery, `worker/src/discovery.c` | configured and current endpoint, listener | configure, enable mDNS, start, stop | changes between start and stop |
| Executor, `worker/src/executor.c` | reservations, one child per run | run, cancel, read | cancel, timeout and exit race; failures half way |
| Resource monitor, `worker/src/resource_monitor.c` | ring of samples, reservations | probe, reserve, read | overlapping callers with older clocks |
| Worker state, `worker/src/worker_state.c` | state and task count | events, tasks added and done | tasks that end during a drain |
| Agent, `agent/src/heartbeat.c` | capability cache, stop flag, two threads | refresh, heartbeat, shutdown | a flag polled by a sleeping thread, join at exit |
| ZeroMQ context, `common/src/zmq_context.c` | one counted context per process | take, make a socket, give back | threads share it, a fork copies its variables |
| Log ring, `common/src/log.c` | a file of bounded size, level, mutex | set level, open, emit | a record's three pieces go round one by one |
| Configuration, `common/src/config.c` | current section, settings | a line of the file | headers that are not closed, repeated entries |
| Command lines, `master/src/cli.c`, `cli/src/main.c`, getopt of `common/compat.h` | place in the line, options | a call of getopt_long | values that look like options, state kept between calls |
| View, `ui/src/model.c` | – | a drawing | a clock older than what is drawn |
| Dashboard, `webui/server.py` | published state, dummy workers | broadcaster, add, remove, clear | reads a file that is being rewritten |

## 2. Modules

`Tables` holds what all fixed-size arrays of the code share: the first match of
a linear search (`First`), removal by moving the later slots down (`Remove`, and
`Compact` for several at once), the guarded subtraction of unsigned numbers
(`Saturating`), and the sum of what some slots or calls hold (`Total`). The sum is
the number of units held, one pair for each unit, and not a recursion: a number of
elements can be reasoned about where a recursive sum cannot.

| Module | Code | Notes on the correspondence |
|---|---|---|
| `Scheduler` | scheduler.c | `g_workers`, `g_chunks`, `g_leases` are sequences within the C limits. A tick is one step per chunk of its loop, each of the loop's branches a named action (`TickSkip`, `TickReassign`, `TickAssign`, ...); the mutex keeps every other call out until it returns. The score that picks a worker is computed as in the code, scaled to integers; the first slot of the highest score wins. |
| `MasterRecovery` | master recovery.c | One step per call. `ReadClock` and `Sweep` are separate because the time is an argument read before the lock; differences are taken modulo `WORD`, as unsigned ones are. |
| `Workload` | workload.c | One step per call; `check_now` is the time read before a deadline check. The hash is the function of the checksums it is computed from. `OrderlyNext` restricts reports to what a caller that keeps to the protocol sends, repeats included. |
| `SnapshotRing`, `Snapshots` | the ring of cluster_state.c and registry.c | `Snapshots` is the promise of the header ("immutable, configuration snapshots"): a reader keeps the state of the moment it asked. `SnapshotRing` is the ring of counted slots, and implements it. |
| `ClusterState` | cluster_state.c, start and persist of main.c | The journal's truncation (`PersistOpen`) and its writing (`PersistWrite`) are two steps with `Crash` between them. |
| `Registry` | registry.c | One step per call, the sweep's clock read before. |
| `ChunkPlanner` | chunk_planner.c | Every chunk taken from the queue and every edge looked at is a step. Chunks that become ready at once enter the queue in the order of their slots (`InOrder`). Of the id hash only its injectivity over one plan is kept. |
| `Fabric` | router.c, transport.c | A send is one step per frame under `write_lock`. ZeroMQ is external: it hands a message over when its last frame was sent, drops what goes to an unknown identity, and keeps an identity with the socket that has it (`stranded`: one that a second `connect` left open). |
| `Programs` | both main.c | Every `zmq_recv` is a step that waits for a frame or for a signal that finds it blocked; a signal that comes a moment earlier is not noticed there. Each step of start-up may fail, and its branch gives back (`GivenBack`) what was opened. |
| `WorkerLeases`, `WorkerRecovery` | worker recovery.c | `WorkerLeases` has the calls as functions of the context; `WorkerRecovery` makes them in any order, one step per call; an assignment may be delivered twice. |
| `LeaseProtocol`, `ChunkLeases` | both recovery.c | The two halves joined by a network that loses, repeats and reorders messages, with workers that restart. No program joins them yet: the messages are the arguments of their calls. `ChunkLeases` is the promise: a chunk is leased to one worker at a time, its result is taken once and from a worker that computed it, and what is done or abandoned stays so. |
| `Discovery` | discovery.c | One step per call; `told` is what the listener was told in this run. |
| `Executor` | executor.c | Split at the critical sections, the fork, each look at the cancel flag, the clock and the child, and the callbacks. |
| `ResourceMonitor` | resource_monitor.c | `ReadClock(c)` and the call are two steps. |
| `WorkerState` | worker_state.c | `Allowed` is the transition table. |
| `AgentHeartbeat` | heartbeat.c | Main loop and refresh thread; the sleep is counted in seconds as the code does. |
| `Dashboard` | server.py | What is between two awaits is one step; the master's two-step rewriting of the journal goes on beside it. |
| `ZmqContext` | zmq_context.c, `vom_zmq_make_socket` | A copy of the variables per process, a process being known by its first thread. `lost` counts the references that failed calls leave behind. Threads give back only what they took themselves, a forked child nothing it inherited. |
| `LogRing` | log.c | The level is looked at before the mutex is taken; each piece of a record is a step. Bytes of the newest message are known by their place in it, what vsnprintf cut off is unspecified. |
| `ConfigFile` | config.c | One step per line; a line is what trimming and comments leave of it. |
| `CommandLines` | master cli.c, compat.h, cli main.c | One step per call of `getopt_long`. An argument is a word of a kind, not characters. |
| `ViewModel` | model.c | A function of a snapshot and a time. |
| `CommonLibrary` | – | `ZmqContext`, `LogRing` and `ConfigFile` side by side. |
| `WorkerServices` | – | `WorkerState`, `Discovery` and `ResourceMonitor` side by side. |
| `Processes` | – | `AgentHeartbeat`, `Dashboard` and `Programs` side by side; `seconds` is the agent's loop variable `i`. |

The last three modules compose parts that share no state: a step is a step of one of
them and leaves the others alone. They state what is proved and checked of these parts.

The `MC...` modules give constants their values and add what only a run needs.
`MCScheduler` and `MCWorkload` add one history variable each (`stable`,
`orderly`): whether every call so far kept to the protocol the stronger
properties need, so that one run covers both kinds of callers.
`MCParts` and `MCLiveParts` put parts that share no state side by side; a
variable that never changes says which of them is exercised, so the runs explore
the union of their state spaces and not the product. `MCLiveParts` has those
whose liveness is checked, each with its own fairness. A step of either module is,
for each of the compositions and components in it, a step of that one or leaves its
variables alone, so what is proved of `CommonSpec`, `ServicesSpec`, `ProcessesSpec`,
`PlannerSpec`, `ExecutorSpec`, `SnapshotSpec` and `WorkerSpec` is about the
behaviours these runs explore.

Definitions named `X_Something` directly before a definition `X` are altered
forms of it, kept to confirm that each property fails when the code is wrong in
that way. No specification uses them.

## 3. Runs

Run with `tlc -config <cfg> <module>`. All pass but the last two, which are meant
to fail. "Distinct" is the number of distinct states of the complete search.

| Run | Module, cfg | Distinct | What it shows |
|---|---|---|---|
| scheduler | `MCScheduler`, `Scheduler.cfg` | 1.8 M | Under any calls a chunk has at most one active lease, an active lease has its chunk, there is a lease slot for every assignment, and only a release, a reset or its expiry ends a lease. While no view or demand was replaced under a lease, reservations are exact and no worker is overcommitted. |
| scheduler_fair | `MCScheduler`, `SchedulerFair.cfg` | 21 k | With one lease per tick, a placeable chunk does not wait for ever and an expired lease does not stay. |
| master_recovery | `MasterRecovery`, `MasterRecovery.cfg` | 187 k | At most one result per lease is accepted; a settled lease stays as it is; every lease is settled. |
| workload | `MCWorkload`, `Workload.cfg` | 52 k | Under any reports: an executing job has work left and nothing failed, no chunk is forgotten behind completed parents, a completion is earned and hashed, a passed deadline ends the job. While reports are orderly: parents first, completed jobs stay whole (`OrderlyJobs`), the chain drains. |
| cluster_state | `MCClusterState`, `ClusterState.cfg` | 755 k | State, journal and snapshots agree with their own aggregates; a generation of an epoch identifies one content; a restart with a complete journal brings everything back. |
| registry | `Registry`, `Registry.cfg` | 144 k | A version identifies a content; one record per worker, and nobody is disconnected without being named, if the report buffer has room for all; silence is noticed. |
| parts | `MCParts`, `Parts.cfg` | 562 k (symmetry) | Snapshot ring: counts are exact, and the ring implements `Snapshots`: a held copy does not change and is that of its acquire. Recovery: revoked and disowned results are never claimed. Life cycle and discovery (`WorkerStateSound`): running means tasks, a drain holds, and all get the endpoint that was announced. Monitor: the newest sample is found at the ring's wrap, fresh means recent, availability is never overstated. Common library (`CommonLibrarySafe`): a thread's ZeroMQ context is alive, its own process's and exactly counted as long as the thread holds it; the newest message that fits is whole in the log's ring, which keeps its size; the last entry of a setting in its section counts. Operator's tools (`OperatorToolsSound`): every line of up to three words is understood as its words say or refused, and the view shows what the snapshot has, whatever the clock. |
| fabric | `MCFabric`, `Fabric.cfg` | 1.1 M (symmetry) | Frames of concurrent sends never mix: a worker gets its own messages, in the order of their numbers; a joined flag stems from this connection. |
| live_parts | `MCLiveParts`, `LiveParts.cfg` | 148 k | Executor: cores are accounted for exactly on every path and not overcommitted; every run reports one end and leaves no child running; a cancel frees the cores without a timeout. Planner: the check's verdict is acyclicity as defined over all sets of chunks, its queue never overruns, and generated plans pass. `ProgramsSafe`: the agent joins its thread, the dashboard shows every dummy worker, and both programs end with nothing left open, on every path. `StartedWorkEnds`: runs of the executor return if time passes, checks of plans end, the agent shuts down, and a program ends after a signal it has seen. The agent's heartbeats catch up with the hardware while the input is quiet. |
| lease_protocol | `MCLeaseProtocol`, `LeaseProtocol.cfg` | 563 k (symmetry) | Master's and worker's recovery over the network implement `ChunkLeases`; finished work under an active lease is lost only to a restart or to a list that does not name the lease. |
| join_loop | `MCPrograms`, `JoinLoop.cfg` | – | Fails: see section 6. |
| silent_worker | `MCPrograms`, `SilentWorker.cfg` | – | Fails: see section 6. |

Where a proof module shows a module's type invariant for all constants,
the runs do not repeat it; elsewhere it is a conjunct of one of the module's safety
properties. `ConfigFile`, `Discovery` and `ViewModel` have none: their one property
says what each value is. The types of `LeaseProtocol` are in its proof module.

### Bounds and why they are enough

Tables are given two slots for two or three keys, so that they are searched,
filled, overfilled and compacted. Clocks stop at 2 to 5 with timeouts of one,
which leaves time before, at and after each limit, and unsigned words
are small (`WORD`) but larger than the clock, so that a negative difference wraps
to something beyond every limit as it does with 64 bits. The 8-bit reservation
keeps its width. Every bound is a named constant: `MaxTime`, `MaxGeneration`,
`MaxEpoch`, `MaxVersion`, `MaxSent`, `MaxReports`, `MaxTasks`, `MaxLook`,
`MaxDummies`, `MaxHeartbeats`, `MaxSignals`, `MaxRestarts`, `MaxLines`,
`MaxWords`, `MaxContexts`, `MaxLeaks`. The log's ring is 0 to 6 bytes for
pieces of 1 to 4, so that pieces fit exactly, go round and do not fit at all.
The lease protocol has two workers, two leases, one chunk and one restart: a chunk
is leased, given up and leased to the other worker while assignments, revocations
and results sent before are still under way; more of each is left to the proofs. Of
the lists of active leases only the last one sent is under way, so that a list may
come late but not after a newer one. The clock stands still and a sweep is given
any time, so that workers may be found lost and leases expired at any moment. Plans have up to three chunks and two edges, three when the chunks are
distinct. Command lines have up to three words of eighteen, files up to four lines.
The workload run has one slot: jobs do not read each other, and that operations on one leave the others alone is what the proofs
(section 5) add. `MAX_ATTEMPTS` of the join loop is 2 instead of 50.
Symmetry is used for workers, threads, callers and lease ids, never
together with a liveness property.

### Fairness

* Scheduler ticks, recovery sweeps, registry sweeps and deadline checks: weak
  fairness of the call. No program of the repository calls them yet; the
  assumption is the contract of a caller that polls, which their interface (a
  `now` argument and no timer of their own) asks for.
* Time goes on (`Advance`) up to its bound.
* Workload: workers keep starting and ending chunks (`Moves`).
* Executor: a thread in its loop is scheduled. Children need not end and nobody
  need cancel; that a timeout comes is a premise of `RunsEnd` alone, and
  `CancelFreesCores` does without it.
* Planner: a call that was entered runs. Agent: both threads are scheduled; the
  refresh thread sleeps in seconds, and poll times out.
* Programs: both are scheduled and a blocking receive waits for a frame. Start-up
  need not fail, nobody need send a signal and no machine need go down.

## 4. Hazards the properties aim at

The properties were chosen from what a unit test of this code would hardly
reach: a clock read before a lock and compared after it (recovery.c:132,
registry.c:228, workload.c:275, resource_monitor.c:154); results that are late,
repeated or of a lease that was given up (recovery.c:192, workload.c:249, worker
recovery.c:143); one pass that reclaims and reassigns (scheduler.c:157); tables,
rings and buffers at their limit (scheduler.c:211, cluster_state.c:166,
registry.c:230); a crash inside the journal's rewriting (cluster_state.c:125);
frames of two senders (router.c:140); cancel, timeout and exit at once
(executor.c:243); a list of leases older than a lease, or a restart of the worker
that holds it (worker recovery.c:103, 37); a signal just before a receive blocks
(master main.c:324); start-up that fails half way (master main.c:277).
`PROJECT.json` lists each with its line.

## 5. Proofs

Check with `tlapm <module>`; every obligation is proved by Z3, Zenon or LS4. The
theorems hold for every value of the constants that satisfies the modules'
assumptions (table sizes and times are naturals, callers' inputs have their
types, the ring has a slot, readers and threads are finitely many, the join loop
makes an attempt, a plan's chunks and edges are lists).

**`TablesProofs`** – lemmas on the shared helpers: `First` is the least member of
a set of slots, `Remove` of a slot leaves a sequence of the same type, `Compact`
keeps exactly the chosen slots and their order (`RankOnto` counts the chosen slots
up to each place), and `Total` grows and shrinks by what one holder takes and gives
back.

**`SchedulerProofs`** – `Scheduler`: `TypeCorrect`, `LeasesExclusive`, `LeasesHaveChunks`,
`SlotAlwaysFree`, `UnexpiredLeasesHonoured`, `ReservationsAreExact`. The inductive
invariant is `TypeOK /\ UniqueIds /\ OneActiveLeasePerChunk /\ ActiveLeaseHasChunk`.
None of the last three is inductive without the others: a release removes *the first*
chunk with an id and ends *the first* lease of it, so a second of either would leave
an active lease without a chunk; and an assignment searches for an active lease only
by id. `SlotAlwaysFree` is then counting: the active leases map injectively into the
chunks that have one, so with a chunk that has none fewer leases are active than there
are slots. `UnexpiredLeasesHonoured` needs in addition that the time a tick uses is
not after the callers' clock (`TickTimePast`). `ReservationsAreExact` holds while
callers are stable (`RecallInv`). `StableInv` adds that every active lease has its
worker and that each worker's reservation is the sum of its leases' demands and within
its capacity (`TablesBalanced`). Without the first a lease could end with nothing to
give back; without the second the guarded subtraction could cut off a part.

`ChunkPlanner`: `VerdictsAreRight`, Kahn's algorithm for plans of any size. While the
check runs (`RunningInv`), a chunk is in the queue exactly when its in-degree has come
down to 0, whether or not ids repeat; where they do not, the in-degree is the number
of edges into it not yet relaxed (`Pending`), and every edge into a queued chunk
starts from one queued before it (`QueueOrdered`). A queue with all chunks then shows
the plan acyclic, since of any set of chunks the one queued first has no edge from
another; and when the queue runs dry, the chunks that are not in it each have an edge
from one of them or from a chunk the plan does not have. The first picks a least place
in the queue, and neither needs an induction over the graph.

**`LeaseProofs`** – leasing. First its two halves. Of the worker's: what each call
makes of a context (`AcceptFacts`, `RevocationFacts`, `CompleteFacts`,
`ReconcileFacts`), and with that `WorkerTypeCorrect`, `RevokedStaysRevoked` and
`FinishedStays`. The invariant `WorkerInv` adds `HistoryTold`, which ties the first
record of a lease to the history of its calls: claiming looks at the first record
only, so what matters is that no call puts an unrevoked one before a revoked one. That
a result ready to be claimed stays ready (`ReadyAccepted` to `ReadyReconciled`) is
what `FinishedWorkStays` below rests on. Of the master's: `TypeCorrect`,
`CommitsUnique`, `HealthHonest`, `SweepsFinish`, `SettledForGood`. The invariant is
the conjunction of the four state properties (`NothingUndecided` among them): a lease
that was committed is RECONCILED, which no later action undoes; that no lease is
UNCERTAIN between calls is what lets a sweep start from nothing. Then the protocol:
`ProtocolKeepsPromise` (the refinement of `ChunkLeases`) and `FinishedWorkStays`, for
any workers, chunks, leases, capacities and times. The invariant `PInv` joins the
master's to `TableInOrder` (lease ids are used once, and of a chunk's leases at most
one is not given up) and `WorkersTruthful` (a record is of a lease granted to that
worker, and a finished record or a result under way is of a chunk it computed).
`TableInOrder` makes the standing of a chunk that of its one open lease
(`StandingIs`), after which each action is shown to be a step or a stutter of the
promise; a sweep gives up several leases at once.

**`WorkProofs`** – `Workload`: `TypeCorrect`, `OpenJobsHaveWork`,
`FrontierAlwaysReleased`, `ProgressAlwaysExact`, `CompletionsEarned` under any
reports; `DependenciesAlwaysRespected` and `CompletedJobsWhole` under orderly ones
(`OrderlySpec`); and `OrderlyJobsSound`, which has the last two along any behaviour
that has been orderly so far, as the run does. The invariant is about one job at a
time (`JobOK`, and for orderly reports `Ordered` and `Whole`); lemmas say what
`evaluate_ready_chunks`, `recalculate_job_progress` and `Reported` do to a job.
`Executor`: `CoresAreAccounted` and `OneEndOnly`, for any number of calls and cores.
`ExecutorInv` has the reserved cores as the sum over the calls between reservation and
release, and for each call what it has reported and what its child may be at each
place of its code (`RunInv`).

**`StateProofs`** – the master's and the worker's state. `ClusterState`:
`CopiesStayConsistent`, `GenerationsIdentify`, `RestartRecovers`, for any workers,
chunks, readers and ring size, crashes included. The invariant `ClusterInv` is about
all copies of the state at once (the state, a complete journal, the snapshots readers
hold): each agrees with its own aggregates, has the state's epoch and is not ahead of
its generation, and two of one generation are equal. "Not ahead" is what makes a new
generation new. It is kept for the dead process too, so that a recovery, which takes
over the journal's epoch, finds it. `WorkerState` and `Discovery`: `WorkerStateFits`.
Both properties are inductive. `ResourceMonitor`: `AnswersAreSound`, for any number of
callers, samples and times short of the word's width. `MonitorInv` says which places
of the ring are written (`RingInv`) and that the one before the head is the newest
sample, measured at the last probe (`NewestInv`); that is why the age of a sample and
the cooldown of the probe add up in the bound on freshness.

**`MasterProofs`** – the parts of the master that workers talk to. `Registry`:
`VersionsIdentify`; `NobodyDiesSilently`, when the report buffer has room for all
(`RoomForAll`); and `RegistryUsesRing`, that its snapshots go through the ring as
`SnapshotRing` specifies it. `RegistryInv` says that a reader's copy is not newer than
the state and is the state if their versions agree, and that a worker has one record
and, with room for all, was named if that record is DISCONNECTED (`Accounted`).
`Fabric`: `MessagesStayApart` and `JoinsAreOfThisConnection`, for any workers and any
number of sending threads. `FabricInv` says of the sender that has the lock that the
frames in the socket are exactly those of its message so far (`SocketInv`) and its
number the latest (`SenderInv`), and of each worker that what it was given and what
waits for it are its own envelopes in the order of their numbers (`QueueInv`).

**`PartsProofs`** – the snapshot ring and the programs. `SnapshotRing`:
`RingTypeCorrect`, `CountsExact`, `NoBlankSnapshot` for any number of readers;
`SnapshotsImmutable` and `RingKeepsPromise` (the refinement of `Snapshots`) when there
are no more readers than slots (`FewReaders`). The invariant is
`RingTypeOK /\ RefCountsExact /\ HandlesFilled`. A reader without a handle finds a
free slot because the others hold at most all slots but one, and the search from the
tail visits every slot (`ProbeReaches`).

`Processes`: `ProgramsAreSafe`, for any workers and bounds. `AgentInv` adds that there
is no refresh thread before the cache is filled and that what it is about to store it
has collected. `ServerInv` adds that the ids of dummy workers stay within their bound.
`SocketsInv` says that what a program holds is exactly what is due at its place in the
code (`Due`): the teardown and each error branch give back one thing per place, so at
the exit nothing is due.

**`CommonLibraryProofs`** – `CommonLibraryIsSafe`. `ZmqInv` ties a process's count to the
threads in it that hold the context and to the references lost, at every place
between lock and unlock. `LogInv` says that the writer has the mutex and that,
before its newline, the message stands right behind the file's position; the
newline then goes behind it or, in a ring with room for both, to a first byte that
is not the message's (`NewlineSpares`). `SettingsInv` says that the section in
force is that of the line to come. That the sets of lines it speaks of have a
largest member is part of it: each line read adds at most a new largest one, and
no induction over sets is needed.

`HealthHonest` and `FinishedStays` are proved and not repeated by a run; what
`RevokedStaysRevoked` states is checked by `parts` on its instance of the module.

Only model-checked: all liveness properties (proofs under fairness and ENABLED are
out of the prover's reach), and `OperatorToolsSound` (which words of a line are values
is a recursion over the words, and what a run of `getopt_long` makes of them an
induction along it). Every other safety invariant, action property and refinement
that a run checks is also proved.

## 6. What the modelling met

**The join loop never ends** (run `join_loop`). The worker's loop of 50 attempts
calls a receive that blocks (worker/src/main.c:126), and the master, which reads
three frames where a worker's message arrives as two, does not answer. So
"WARNING: No JOIN_RESP received. Continuing anyway." (worker/src/main.c:239) is
never reached.

**A silent worker stays ONLINE** (run `silent_worker`). "Workers that stop sending
heartbeats will be marked offline by the recovery subsystem" says the comment in
the master's loop (master/src/main.c:397), but the tick around it only stores the
time, and nothing the program runs marks a member offline. (`registry.c` and
`recovery.c` would notice; no program calls them.)

The models also contain these behaviours of the code. They are kept as they are,
and the properties above are stated so that they do not depend on them:

* master recovery.c:132 – a heartbeat between the sweep's reading of the clock and
  its lock makes an unsigned difference wrap, and a worker just heard of is marked
  lost (its leases are still decided once and for good).
* workload.c:255 – a result that comes after a cancel or a deadline changes the
  terminal state of the job.
* scheduler.c:78, 97 – registering a worker or submitting a chunk again replaces
  what its leases were counted in.
* cluster_state.c:166 – with every slot held, a snapshot is overwritten under its
  reader; hence `FewReaders`.
* cluster_state.c:125 – the journal is emptied before it is rewritten; a crash in
  between loses what had been saved.
* registry.c:230 – a sweep disconnects more workers than a small buffer can name,
  and the next sweep passes over them; hence `MAX_OUT` in `NoSilentDeath`.
* worker recovery.c:58, 108 – a REVOKED lease is never removed; when all places of
  the table are taken by such leases, the worker refuses every assignment.
* worker recovery.c:103 – a list made before a lease was granted and delivered
  after it revokes the lease, or drops its result; hence the last case of
  `FinishedWorkKept`.
* worker/src/main.c:228 – the join loop does not look at the stop flag: a signal
  costs one attempt. master/src/main.c:320 – a signal that ends the receive of the
  delimiter is followed by another blocking receive. Hence `SeenSignalEnds` speaks
  of the last receive of a round.
* common/compat.h:221 – after a short option without a value, the getopt brought for
  Windows looks at the terminator, which `strchr` finds in the option string, and
  the line is refused. common/compat.h:242 – a short option with a value gets its own
  letter and the rest of the word as the value. `LinesUnderstood` is about lines
  without short options.
* config.c:95 – a header without its bracket leaves the section before it in force.
  config.c:59 – an interval that is no number becomes 0.
* discovery.c:55 – an endpoint configured after the start is used from the next
  start on; a start before any is configured succeeds with an empty one.
* master/src/router.c:172 – the router expects three frames of an uplink message,
  the transport sends one.
* agent heartbeat.c:196 – at end of input poll returns at once for ever, and
  heartbeats stop.
* webui/server.py:415 – an assignment makes `CONNECTED_CLIENTS` local to the
  broadcaster, which ends in its first round.
* zmq_sockets.c:34, 36, 46 – a socket that cannot be made leaves its reference
  behind, so that the context is never terminated.
* log.c:86 – a message that goes round may overwrite the head of its own record;
  hence `RingKeepsNewest` speaks of the message.
* resource_monitor.c:107 – within the probe cooldown a reservation is deducted from
  a sample it was deducted from before, so availability may be understated.

## 7. What is not modelled

* Rendering and hosted functions (`webui/index.html`, `netlify/`), what the
  operator's commands print (`cli/src/main.c`), the text of log records: formatting
  and I/O. `worker/src/cli.c` and the worker's own parsing copy strings.
* `agent/src/capabilities.c`: the same refresh thread as heartbeat.c.
  `worker/src/capabilities.c`, `display_bridge.c`, `master/src/ui_coordinator.c`:
  setters and fixed data, no call depends on an earlier one.
  `worker/src/heartbeat.c`: a placeholder. `common/src/sys_info.c`: system calls.
  The rest of `common/compat.h`: wrappers of them for Windows.
* The self-tests that most source files end with, and the headers' declarations.
* `protocol/cluster.capnp`: no program uses it at run time.
* Of the modelled parts: security keys and addresses, prints, UUIDs, the text
  commands of the dashboard, checksums of a child's output, the CPU percentage.
* Undefined behaviour of ZeroMQ when `run_once` and a sender use one socket at
  once (router.c:177): the model takes the outcome in which both calls work.

## 8. What could follow

The dashboard's text commands. When a program comes to call the scheduler and the
recovery, their composition with `LeaseProtocol` should follow that program's order of
calls.
