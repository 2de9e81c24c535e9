# Hermas, verified: TLA+ models of the workflow daemon

Hermas runs typed workflows over local processes. A compiler turns a script and
the schemas of the apps into a *graph image*; the daemon `hermasd` maps the image,
waits until every Action of it has registered over a Unix socket, admits
executions for callers, delivers invocations to the apps, and writes each fact to
a journal before it acts on it. It has one thread and no deadline that it
enforces. What is hard about it is what happens when it is killed between two
facts, when an app dies between two packets, and when several executions or
several flows of one execution share a connection.

Paths below are relative to the repository root; `runtime.c` means
`src/runtime.c`. `PROJECT.json` maps every definition to its lines.

## Inventory

| Part | State | Operations | Talks to |
|---|---|---|---|
| Execution journal (`journal.c`, `journal_linux.c`) | append-only file of records; the scan keeps open executions, open deliveries, last id | append of six record kinds, open and scan, closing of interrupted executions | written by the loop, read by the host at startup and by the saga planner |
| Terminal result store (`result*.c`) | file of terminal values | append, lookup | written by the loop before `ExecutionFinished` |
| Compensation token store (`compensation*.c`) | file of tokens per step | append, lookup | written by the loop before the success fact, read by the planner |
| Saga attempt log (`saga_log*.c`) | file of reverse deliveries | append, scan | written by the driver, read at startup |
| Saga planner and driver (`saga.c`, `saga_linux.c`) | plan: completed steps, remaining ones, next request id | recover, reconcile, begin live, prepare, sent, outcome | journal, tokens, saga log |
| Sequential runtime (`runtime.c`, `hermas_execution_*`) | one node, request id, state | start, prepare, mark sent / not sent / unknown, accept result | called by the loop |
| Group runtime (`runtime.c`, `hermas_group_*`) | arena of flows, one each region, pending outcome | fork, join, dispatch, each, collect, terminals, completion, expiry of a region | called by the loop |
| Daemon loop (`loop_linux.c`) | slots of executions, ownership of Actions | admit, poll (prepare, reconcile, assign, send, receive, finish), result, release, resume of a saga | runtime, stores, sockets of the apps |
| Action registration (`registration_linux.c`, `daemon_linux.c`) | table of pending connections, descriptor per Action | accept, validate, acknowledge, reject | apps, loop |
| Control plane (`control.c`, `control_linux.c`) | table of callers | accept, submit, collect and release, detach | callers, loop |
| Host (`host_linux.c`, `tools/hermasd.c`) | everything above, ids of recovered sagas | open (startup), step, reap, close | all |
| Edge library (`edge_linux.c`), client library (`client_linux.c`) | one connection | connect, serve, send; connect, execute | daemon |
| Workspace (`workspace_linux.c`, `tools/hermasd.c`, `tools/hermas_run.c`) | a directory with image, manifest, state and two socket names | open, bind, load, lookup of an app's Action; launch, serve, close | processes that know nothing of each other |
| Graph image validator (`image.c`, `hermas_daemon_image_check`) | tables of nodes, regions and edges of one file | validate, features | host, loop, workspace, tools |
| Wire protocol (`protocol.c`), compiler (`compiler/`), history viewer | none | pure functions of bytes or text | |

What makes each part correct, and where it is hard:

* **Delivery.** An invocation is offered to its app at most once and run at most
  once, and the one verdict that is recorded about it is true. Hard because of
  kills between the socket and the journal, of apps that die or answer twice, and
  of connections that are replaced (`loop_linux.c`, `journal_linux.c`).
* **Durability.** What a caller was told is on disk and stays; what the daemon
  appends is accepted by the scan of the next startup. The appender and the
  scanner are separate code with separate conditions.
* **Sagas.** Compensation in reverse order, each at most once, only of confirmed
  steps, over any kills; a caller is told of a rollback only if it took place.
* **Groups.** Joins wait, collects are complete, outcomes aggregate by
  precedence whatever the order of arrival; every group ends. Hard because one
  poll fixes its work list before it serves the first entry of it.
* **Workspace.** Launches, callers and apps that meet in one directory agree on its
  binding; state is never used under another one; no kill leaves a directory that
  refuses every launch. Hard because the directory has no lock: the protocol is
  the order of `link`, `lstat`, `flock` and `bind`, and files are looked at twice.
* **Images.** What the validator accepts is a graph that the runtimes can walk:
  everything reachable, no closed way around, a saga that covers every Action.
  Hard because cycles are excluded only indirectly, and because a region is
  represented by its template.
* **Servers.** No order of connects, packets and hang-ups ends the host; each
  slot of the loop has exactly one party that will release it.

The hazards of `PROJECT.json` list the lines where these can go wrong.

## Modules

| Module | Models | Composed of |
|---|---|---|
| `Journal` | the file as the scan sees it: one operator per record kind, with the requirement of `scan_transition`; `jok` is false once a record was appended that a scan refuses | |
| `DeliveryContract` | abstract specification of one delivery | |
| `ForwardLoop` | sequential executions: loop, runtime, results, kill, startup | `Journal`; implements `DeliveryContract` |
| `SagaLog` | the saga log as its scan sees it | `Journal` |
| `SagaLoop` | sagas: forward steps with tokens, live compensation, kill, planning and resumption at startup | `SagaLog` |
| `GroupLoop` | one or more group executions: flow arena and poll round | `Journal`; each delivery implements `DeliveryContract` |
| `Host` | registration server, control server, phases of a host step; the loop as an abstract environment | |
| `Workspace` | the workspace directory and the processes that bind, load, serve and call it; opening and closing of the host | |
| `GraphImage` | the validator, record by record, and the daemon's check of features | |
| `MCForward`, `MCSaga`, `MCGroup`, `MCHost`, `MCWorkspace`, `MCImage` | graphs and constants for TLC | |
| `ForwardLoopProofs` | theorems about `ForwardLoop` | |
| `SagaLoopProofs`, `HostProofs`, `WorkspaceProofs`, `ImageProofs` | theorems about `SagaLoop`, `Host`, `Workspace` and `GraphImage` | |
| `GroupGraph` | the conditions on graphs under which the theorems about `GroupLoop` are stated; `MCGroup` has TLC evaluate them on the graphs of runs `all` and `each` | extends `GroupLoop` |
| `GroupProofs`, `GroupOrder`, `GroupEach` | theorems about `GroupLoop` | |

### State and actions

*Granularity.* The daemon can be killed between any two effects that outlive it:
a synchronized append, a packet given to a socket, an answer to a caller. In
`ForwardLoop` and `SagaLoop` an action has at most one such effect; `pc` and `cur`
say where in a handler the thread is. `Send` hands over the packet and `MarkSent`
appends `DeliverySent`, with a state in between in which the app may already run;
`StoreResult` and `Finish` follow in the order of `append_result_if_complete` and
`append_finished_if_complete`. In `GroupLoop` there are no kills; an action is one
entry of the poll round, or one edge of the chain that a result sets off (`todo`),
because the interesting order is that of the entries. In `Host` an action is the
visit of one table entry in one phase.

*Journal.* `jphase`, `jdel`, `jagg` and `jhi` are what a scan of the file would
compute, `jtail` says whether the last record is whole. An append that breaks a
rule of the scan clears `jok`: the running daemon does not notice, the next
startup refuses. Bytes, checksums and fingerprints are left out, a torn record is
a torn tail.

*Apps.* An app has queued invocations (`inbox`) and frames towards the daemon
(`answers`). It may run and answer, answer twice, answer with something the loop
refuses (`bad`), die before or after it ran, or run what it received on a
connection that the daemon has closed meanwhile (`orphans`, `late`).

*Sagas.* `comp`, `left` and `nreq` are the plan; `Classify` is the decision of
`hermas_saga_recover`, `hermas_saga_reconcile` and `restore_startup_state` on an
execution of the log: resume (`idle`), unsafe, or refused.

*Groups.* `flow` and `dlv` are the arena and its deliveries, `each` the region
with its counters. `round` and `hups` are the snapshot of `poll`. Values are left
out: a Dispatch takes any case, a list has any length up to its bound. Inside a
chain the state of a flow is stale until its edge is entered, so `SingleFlight` looks
at the flows when the chain is done.

*Host.* `work` holds the entries that the current phase has still to visit.
Apps and callers act between phases: a poll looks at all its sockets at once, so
that an event during a phase has the effect it would have before or after it.
`Fails` collects the conditions under which the servers return an error that ends
the host.

*Workspace.* An action is one system call that another process can observe; `proc`
says where each process is and what it has read. `temp` are the temporary files of
`write_new_file`, `durable` the names that a loss of power keeps (those that were
there at the one `fsync` of the directory), `state` the bindings under which the
journal was opened, `lock` its flock. The source image is whatever `Image` a
process finds when it looks: it may be another one at the second look. A loss of
power takes any of the names that are not durable, and perhaps the journal, whose
directory is never synchronized. The operator may remove a stale socket; the code
does not. The lookup of an app (`hermas_workspace_find_action_contract`) is the mode
`app`, the call of `hermas_run` the mode `run`.

*Images.* A file has its node table, and for each place of the region and the edge
table a set of records one of which stands there; the validation picks it as it
reads (`ReadRegion`, `ReadEdge`), so that one run covers many files. `edge` and
`region` are what was accepted. `NodeComplete`, `SagaComplete` and `EachComplete`
are the counters at the end of the table, `Pass` is one pass of the reachability
loop, in the order of the file. Types are those that the places ask for.

## Runs

Sizes are distinct states. A run marked **violation** states what a document of
the repository says, and TLC finds that the code does otherwise.

| Run | Instance | Shows |
|---|---|---|
| `forward` | two executions of two Actions that are one app, the second also the recovery Action of the first; two faults, each a kill or a failed append at admission; 675 k | the loop implements the contract; the inductive invariant, durability of what was told, ownership; the loop and the startup append what a later scan refuses only for the causes named; every execution settles |
| `reopen`, `append` | same | **violations**: see findings |
| `saga` | sagas of three steps: two of them with one kill, or one with two; 373 k | the saga properties and the end of every started compensation |
| `saga_ended` | one saga of two steps, one kill | **violation** |
| `all` | fork, two branches, join, sink; 20 k | joins, aggregation, contract, completion |
| `each` | dispatch, up to three items two at a time, sink; 20 k | collects are complete, limit of items in flight, aggregation, and the one situation in which a round ends the loop |
| `closed`, `each_live` | an `all` that is cut off; an `each` on one connection | **violations** |
| `host` | one Action, three app connections, two pending entries, one caller that reconnects, two control entries, two slots, one recovered saga; 535 k (symmetric in the connections) | the host keeps running, slots are tracked, results reach the connection that asked |
| `workspace` | two processes in any of the four modes, two images and one that no daemon takes, two workflow ids, one kill, one loss of power; 1.03 M (symmetric in processes, images and ids) | agreement on the binding, no state under two bindings, ownership of lock and sockets, and that of what kills leave only names of sockets stop every launch |
| `image` | four Actions in any order, a Match, an `all`, an `each`, deadlines with a saga, an `all` with a saga, three bad node tables, with wrong records in most places; 7.4 k | reachability is decided exactly, cycles only through Joins, sagas are total |

*Why the bounds are enough to be interesting.* Two executions are the least that
compete for an Action; two requests per execution the least for an answer to an
earlier request to arrive late. Two faults allow a startup that is itself killed
halfway, a startup that reads what an earlier startup wrote, and a kill after an
append that failed. With the recovery Action an execution may end in Success over an
app error. Three steps are
the least with two compensations and a kill between them. The two sagas of run `saga`
fill the slots of the daemon (`MaxSlots`) and the table of active sagas of the log
(`MaxActive`) when both compensate; no third execution asks for a slot there (three
take TLC too long), which is left to the theorems. Three items with two at
a time reuse a flow. Three connections can fill a pending table of two and still
knock; one caller that leaves and returns has two executions under way at once.
Two launches are the least that race, and with a pid used again a third and fourth
follow them; a loss of power after a kill meets what the killed launch left. Four
Actions allow a detached cycle beside a path whose edges stand in the wrong order.
The groups of `all` and `each` run one execution at a time: that two executions do
not share an Action is `OneAwaitedAnswer` of run `forward`, and a theorem, about
the function (`action_owned_by_other`) that both loops use.
`MaxExecId`, `MaxReqId`, `MaxAnswers`, `MaxFaults`, `MaxEvents`,
`MaxKills` and `MaxLosses` are
the named bounds on what the program does not bound; the `MaxOpen`, `MaxSlots`,
`MaxFlows`, `MaxGroups`, `MaxPending`, `MaxClients`, `MaxInterrupted`,
`MaxBranches` and `MaxRegions` are limits
of the code with smaller values. The forward, saga and group runs do not check for
deadlock: a daemon without callers, with all ids spent, is at rest. Nor does
`image`: a validation ends. `host` and `workspace` do.

*Fairness.* The thread takes every step that stays possible (it is a loop with a
bounded wait), and a supervisor restarts a killed daemon. Apps register again and
run what reaches them or die: the loop has no deadline of its own, so without this
assumption an execution waits for a silent app, which is the documented meaning of
a delivery that is sent. In `GroupLoop` the poll has strong fairness, because
callers and apps that register disable it again and again without end while the
code gets to its next poll after each; the control server collects what is
complete. `Host`, `Workspace` and `GraphImage` are checked for safety only.

## Findings

1. `reopen`: startup closes an execution whose last closing fact is durable but
   whose `ExecutionFinished` is not with `Unknown`, although the scan requires the
   aggregate of the facts. The journal is refused from then on
   (`journal_linux.c:162`, `journal.c:353`, `docs/EXECUTION_JOURNAL.md:69`).
   `RecoveryRefusedOnlyIfKnown` of run `forward` says that this is the only way.
2. `append`: a failed append of `ExecutionStarted` rejects the caller
   (`control.c:17`, `control_linux.c:81`) and the daemon goes on, although "A failure to
   append or synchronize is fatal to loop progress" (`docs/EXECUTION_JOURNAL.md:53`).
   The records that follow stand behind what the failed append left, and the next
   startup refuses the file. `LiveRefusalHasCause` of run `forward` names this as one
   of two ways in which a serving daemon makes its journal unreadable.
3. `saga_ended`: a kill after the last reverse `StepSucceeded` and before the
   saga's `Finished` leaves a plan with nothing to do, which
   `restore_startup_state` takes for an error at every startup
   (`host_linux.c:211`, `docs/CRASH_RECOVERY_MATRIX.md:18`).
4. `closed`: a group that is cut off finishes over a prepared delivery that never
   gets a closing fact; the scan refuses the file (`runtime.c:457`).
   `OutcomeIsStrongest` and `EndsOnlyOverStaleEntry` hold regardless.
5. `each_live`: an item sent in the round in which a sibling dropped their
   connection is not reconciled if the app registers again before the next poll
   (`loop_linux.c:595`); and `group_each_collect` never asks for completion.

Observations without a run:

* A flow that is cut off while it is an entry of the round is still sent.
* Once a failure is pending, the Success of a flow that was already sent may still
  lead to a further Action of its branch, which is prepared. If a flow that arrives at
  a terminal later in the same round finds nothing sent, the execution completes over
  the prepared flow (`runtime.c:434`); the entry of that flow is then sent after
  `ExecutionFinished`, because only its state is tested (`loop_linux.c:1523`). Its
  closing fact can be stronger than the recorded outcome. The graphs of the runs have
  no two Actions in a row in a branch.
* `hermas_group_expire_region` has no caller in the daemon, so a deadline never
  ends a delivery (`docs/SEQUENTIAL_RUNTIME.md:139`).
* A kill between `ExecutionFinished` and the saga's `Started` loses the
  compensation: nothing in the saga log asks for it.
* Where the app-error edge of an Action enters another Action, an execution that
  recovered may end in an outcome that is not the aggregate of its facts; the scan
  refuses its `ExecutionFinished`. `docs/GRAPH_INVARIANTS.md:44` allows such edges. It
  is the other way that `LiveRefusalHasCause` names, and run `forward` has such an edge.
* Items of an `each` share a connection. The entry of one item may read the answer
  of a sibling; the sibling's own entry of the same round then finds the end of the
  connection, appends a second closing fact over the first and ends the loop
  (`loop_linux.c:1524`, against "Appends exactly one closing Action fact",
  `docs/EXECUTION_JOURNAL.md:49`). `EndsOnlyOverStaleEntry` of run `each` says that
  the loop ends in no other way.
* The validator accepts a cycle through a Join, whose input then waits for its own
  output: `docs/GRAPH_IMAGE_V1.md` lists closed cycles as rejected. It has no test
  for cycles; `CyclesPassJoin` says what the other tests leave over.
* It accepts a region whose item edge enters a terminal, or whose collect edge does
  not come from the template; nodes behind it may then be out of reach although the
  passes, which let the template stand for the region, found them. This is why
  `ReachesExactly` and `CyclesPassJoin` are about direct regions. The compiler
  generates no others.
* It lets a not-sent exit enter the Unknown terminal and the reverse
  (`docs/GRAPH_INVARIANTS.md`, item 10), does not compare the two types of an edge
  without presentation (item 11), and takes saga ordinals in any order of the graph.
* A workspace whose directory was not synchronized when the power failed may have a
  manifest without its image, or state without a manifest. Both are refused by every
  later launch (`OnlySocketNamesBlockLaunches` is stated for kills). A temporary file
  that a kill left stops a later launch with the same pid.
* A killed daemon leaves its socket names, which make every later start fail until
  someone removes them (`docs/DAEMON_HOST.md:34`). `OnlySocketNamesBlockLaunches` says
  that nothing else does, of the binding, the presence of state, the lock and
  the sockets; whether the stores scan is the subject of the loop modules.
* A stop signal between the test of `stop_requested` and `poll` is noticed only with
  the next connection or frame.
* An app that dies while nothing is delivered to it keeps its descriptor; its
  successor is rejected until the next delivery finds the connection closed.

## Proofs

Every theorem holds for every value of the constants: any graph, any number of
executions, steps, slots, connections, processes and kills, any file. The
assumptions are the types of the constants and the limits of the code, named in
the module that declares the constants (`JournalAssumption`, `LoopAssumption`,
`ImageAssumption`, ...), and TLC evaluates them in the runs. No property below is
inductive by itself; each module has an inductive invariant, which TLC checked on
the instances of the runs before it was proved, with one lemma per action (or per
part of the invariant, with one step per action). `PROJECT.json` lists the
theorems.

**`ForwardLoopProofs`.** The invariant is `Inv`, that is `TypeOK /\
MemoryMatchesDisk`, which run `forward` checks. That an outcome is durable
depends on the program point, that a verdict is true on what can still be in a
socket. Its parts:

* `PcMatchesSlot`: where the thread is determines the state of the slot it serves;
* `SlotMatchesJournal`: a slot and the journal agree on phase, request and open
  delivery; without a slot an open execution is one that startup has to close;
* `IdIsSpent`: an id below the floor or in the journal is not admitted again;
* `DeliveryFact`: what is on record of a delivery and how often it was sent;
* `FramesPending`, `FramesApart`, `AnswersRan`: an invocation is in one place at a
  time, and an answer exists only for what was run;
* `OwnerFacts`: an owner has a descriptor, owners of one Action do not overlap;
* `TailIsCounted`: the writer has counted every byte of the file, but for those of an
  append of an admission that failed in this life of the daemon;
* `ToldIsDurable`, `KnownTerminalHasValue`: the safety properties themselves.

`LoopAssumption` has the slots fit the table of interrupted executions of the scan
(in the code both are 16).

Its last part is the refinement. `LoopImplementsContract` shows that the initial states
map to initial states of `DeliveryContract` and each step to a step or a stutter
under the mapping that reads verdicts from the journal. `LiveRefusalsHaveCauses`
and `OnlyRecoveryRefuses` are the two action properties about what is appended, by
the serving loop and by startup, for every graph. The aggregate of the facts of an
execution that has not ended is Success, or the app error it recovered from
(`Recovered`); so the outcome it ends in is the aggregate or is outranked by that app
error (`Outranked`), and nothing else makes the scan refuse its end. A failed append
is not excluded: it is the other cause (`TailIsCounted`).

**`SagaLoopProofs`.** The invariant has five formulas per execution, and they need
each other: `Forward` (what journal, tokens and sends of the forward steps have in
common), `Reverse` (the same for saga log and compensations), `Told` (what the
caller knows), `Live` (what the slot may hold at each program point) and `Connected`
(what the apps hold is the invocation that the slot is about); `Flow`, per
invocation, says that it is sent once and then in one place, and `Control` where the
thread can be. That a compensation is sent once needs the order in which the log, the
socket and the plan change; that AppError means a complete rollback needs that the
plan is the confirmed prefix of the steps. What couples the executions is the size of
the tables: there may be any number of executions, of which `MaxSlots` run at a time,
and the log has an entry for each slot (`SagaAssumption`; in the code both are 16). That
a Started record finds an entry (`saga_log.c:247`) and a startup a slot for each saga
(`loop_linux.c:1247`) is the invariant `Roomy`: an execution that is open in the journal
or active in the log holds a slot while the daemon serves, and there are never more of
them than slots, kills and resumptions included. The five invariants of run `saga` follow,
and its two action properties, `ReverseRequestsAreFresh` and `RefusalHasCause`.

**`HostProofs`.** `RegInv` (pending table, descriptors and connections),
`CtlInv` (entries of callers), `SlotInv` (each used slot has one tracker) and
`WorkInv` (the entries that the current phase has still to visit are there). That no
phase fails is about entries that an earlier phase of the same step may have
removed, hence `WorkInv`.

**`WorkspaceProofs`.** `PlaceOK` (what a process carries at each place of its code),
`Agrees`, `DiskTypeOK`, `StateOK` (state under one binding), `FilesOK` (manifest, image
and state fit while power is not lost) and `OwnersOK` (lock and sockets); beside it
`StaleOK`, that a name nobody answers for was left by a kill or a loss of power. `Agrees` is the argument: what each process has read is still what the
directory holds, or the name has never been there since: names are created by `link` and never
removed but by a loss of power, which also ends the processes. The proof needs that
a binding is not the value that stands for no file, which `Workspace` assumes of its
constants. `KillsLeaveSocketsOnly` follows from `FilesOK`, `OwnersOK` and `StaleOK`.

**`ImageProofs`.** `Shape`, `Stage`, `Seeds`, `SagaOrder`, `Passing`, `Walkable`.
The passes are a recursive function over the edge table; that it is defined, grows
and stays within a closed set is proved by an induction over sets of indices
(`UpTo`, from the well-foundedness of `<`). `Passing` says that what the passes
found lies in every closed set of vertices and that each pass found a node, so that
one pass for each node is enough: this is the argument that `image.c` leaves to the
reader. Conversely, what a pass leaves unchanged is itself closed. That cycles run
through Joins is a consequence: the complement of a set of places that has no
entrance of its own would be closed, because each place but a Join and a terminal has
one edge into it.

**`GroupProofs`.** A flow that ends keeps its last state, and is given other work
with that state still in it; an entry of the round may be about such a flow. So the
state of a flow says something about its delivery only while it is active and no
edge of the chain waits for it (`Settled`, `InStep`). What always holds is about
ownership: a flow that owns an Action has an open delivery of its own, and if it is
prepared nothing was sent for it (`Owned`). `Numbered` gives each request to one
flow, `Accepting` and `Served1` say what the thread is in the middle of, `Flights`
where an invocation can be. An edge of the chain changes one execution only, and
what it may do to a flow is the same for all eleven kinds (`Left`, `ChainKeeps`), so
the invariant is proved once for the chain and once per kind that the kind is such a
step. It holds for every graph, with `all` and `each`.

**`GroupProofs`, refinement.** The second part is about graphs without each regions
(`AllOnly`), and cannot be about all graphs: the items of an each region share their Action, and
the contract then fails as the observations say. Without them an Action has one
owner (`OneOwner`), every entry that is still to be served owns its Action
(`RoundOwns`) and so reads its own answers only. From this follow `SingleFlight` and
`ImplementsContract`, the latter as for `ForwardLoop`. `EndsOnlyOverStaleEntry` needs
in addition that the flows of the round never wait in a Join (`Overtaken`): a flow
that is cut off during the round can be taken by a Fork, and if its branch went to a
Join at once the late entry would find it waiting; `ForksEnterActions` excludes that.

**`GroupOrder`.** That a Join waits for all is a statement about the ways through the
graph, and holds for graphs that are `Ordered`: one edge into each node and into each
tag of a Join, which the validator counts (`input_counts`, `join_input_counts`), no
cycle, which the documents exclude and the compiler does not write, and work in each
branch before its first Join. The last is needed because `group_enter_fork` takes an
idle flow with its old state: if that says that the flow waits at the Join, a branch
that is entered earlier would resolve the Join for it. A flow and the place where it
works, waits or is about to be entered is a mark. The invariant (`InOrder`) is that no
mark can move to the place of another (`Apart`), to a node that was delivered
(`DeliveriesPassed`) or to a Join that was resolved (`JoinsPassed`), and that behind
an edge into a Join its Action has succeeded (`Entered`); `Chain` says which marks the
edges that are still to be taken hold. A step moves marks along edges, and since one
edge leads into a place, whatever leads to the new place leads to the old one;
failures only take marks away. So no Action is delivered twice
(`NodesAreDeliveredOnce`), and what is behind a Join is delivered once and after all
that is in front of it (`JoinsWaitForAll`). Before the proof TLC checked the invariant
on the graph of run `all` and on one with a Fork and Join within a branch of another.

**`GroupEach`.** The items of an each region share their Action, so that neither the
owner of an Action nor the place of a flow says which delivery is meant. The theorems
are about graphs with one region (`OneRegion`): one Action for the items ("exactly one
Action in the current slice", `docs/GRAPH_IMAGE_V1.md:163`), whose success is
collected and whose app error enters a terminal; nothing else leads to that Action or
to the one that follows the region, no way leads back, and there is no Fork or Join.
The invariant (`EInv`) says that an execution is before, within or after its region
(`Stage`). Before and after, one flow walks (`Single`). Within, items that were
flushed have succeeded, items that were not admitted have no delivery, and each item
in between is with one flow (`Has`, `Works`, `Counted`); the success that the thread
is about to record counts already (`Winner`, `Good`). `ItemsOnce` and `Complete` say
the same of the journal, `OwnersApart` that two executions do not share an Action.
`RoundPassed` is about the poll round: an entry that went stale can close a delivery a
second time when the loop ends, and must not be an item's once what follows the
region was delivered. The results are `RegionsAreComplete` (`CollectIsComplete`: what
follows is delivered only after every item succeeded in a delivery of its own),
`ItemsAreBounded` (`SingleFlight`, which survives the end of the loop because ending
leaves the flows alone) and `OnlyStaleItemsEndTheLoop` (`EndsOnlyOverStaleEntry`).
TLC checked the invariant on the graph of run `each` before the proof. Graphs with
several regions, or with a region in a branch of an `all`, are not covered.

Only model-checked:

* liveness (`StartedSagaEnds`, `EveryExecutionSettles`, `EveryGroupEnds`): fairness
  and `ENABLED` are beyond the prover;
* `OutcomeIsStrongest`: it holds on the graphs of the runs and is false for others:
  for graphs whose app-error edge enters an Action, for graphs that reach a terminal
  without an Action, and for those with two Actions in a row in a branch (the third
  observation);
* `JoinWaitsForAll`, `CollectIsComplete`, `SingleFlight` and `EndsOnlyOverStaleEntry`
  on graphs that mix regions of both kinds or have several each regions.

## Not modelled, and why

Protocol frames, the byte layout of images and of the four state files, types and
values are pure functions of bytes; the models start after decoding. A torn or
refused record is a Boolean of the file. The compiler parses and generates; the
history viewer prints what a scan found. Owners, modes and lengths of paths are
those of a directory that the user owns, and two images never share a fingerprint.
Fields that only identify (contract fingerprint, and in the loop modules workflow
id and image fingerprint) have one value. `hermas_group_expire_region` has no caller
in the daemon. `PROJECT.json` gives the reason for each part.

## Plan

1. Theorems about `GroupLoop` under conditions on the graph: `OutcomeIsStrongest` for
   branches of one Action, and `GroupEach` for several each regions.
2. Compose `Host` with the loop's liveness: the gate on registration, the idle
   app that died, release of complete executions.
3. Groups: kill and startup, deadline regions with a model of time, nested
   `each` in `all`; saga `Started` lost in a kill.
4. That an accepted graph meets `LoopAssumption` and the assumptions of `GroupLoop`.
