# TLA+ models of the oneTBB task dependency core

This directory holds a model-checking project for
`src/include/oneapi/tbb/detail/_task_handle.h`. That header is the lock-free
core behind the preview `task_group` extensions: deferred tasks,
`set_task_order`, `transfer_successors_to` and `task_completion_handle`. The
plain-language description of the core is `spec.md`.

## 1. The system

### Parts

| Part | Code | State | Operations |
|---|---|---|---|
| successor list node | `successor_list_node` (41-68) | `m_next_successor`, `m_continuation_vertex` | `set_next_node`, `finalize` |
| dynamic state | `task_dynamic_state` (72-161, 375-480) | `m_num_references`, `m_successor_list_head` (nullptr, a node, or the all-ones `COMPLETED_FLAG`), `m_continuation_vertex`, `m_new_dynamic_state` | `reserve`, `release`, `add_successor`, `add_successor_node`, `check_transfer_or_completion`, `transfer_successors_to`, `add_successor_list`, `complete_task`, `release_successor_list`, `release_continuation` |
| continuation vertex | `continuation_vertex` (270-296) | `m_ref_count`, starting at 1 for the unsubmitted handle | `reserve`, `release`, `release_bypass` |
| task | `task_handle_task` (169-267) | `m_dynamic_state`, created lazily | `get_dynamic_state`, `complete_task`, `release_continuation`, `transfer_successors_to`, destructor |
| task handle | `task_handle`, `task_handle_accessor` (299-372) | unique ownership of an unsubmitted task | submission (`release`), destruction |
| completion handle | `task_completion_handle` (482-584) | a counted pointer to a dynamic state | construct from a handle, copy, move, assign, destroy |

### How the parts interact

1. `set_task_order(p, s)` takes p's dynamic state and s's continuation vertex.
   It then pushes a node onto p's successor list with a CAS loop. The push
   reserves one reference on s's vertex.
2. When p's body ends, `complete_task` exchanges `COMPLETED` into the head. It
   then drains the list, calling `release_bypass` on each vertex.
   - The first successor that becomes ready is returned for bypass.
   - The others are spawned.
3. Submitting s's handle releases the vertex's initial reservation. If all
   predecessors are already done, s is spawned right there.
4. `transfer_successors_to(u)`, called from a running body, does three things
   in order:
   - it reserves u's state;
   - it stores the forwarding pointer;
   - it exchanges its own list out and splices that list onto u's list with a
     second CAS loop.

   An adder that finds `COMPLETED` follows the forwarding pointer.
5. Dynamic states are reference-counted by three kinds of owner:
   - the task itself;
   - each completion handle;
   - each state that forwards to them.

### What is hard

These are the hazards listed in `PROJECT.json`:

- pushes racing the sealing exchanges;
- a head loaded before an insertion and stale by the time it is used;
- forwarding visibility;
- the splice loop;
- the zero crossing of `release_bypass`;
- the late-completion `release()` at line 408;
- the release cascade of forwarded states;
- termination of `set_task_order` along a chain of transfers;
- a completed-after-transfer state whose sentinel gets walked;
- leaks on destroying an unsubmitted handle;
- eventual spawn.

## 2. Modules

- `DependencyGraph.tla` is the abstract specification: what the core promises.
- `TaskGraph.tla` is the detailed one: every part above in one module.
- `MC_TaskGraph.tla` instantiates `TaskGraph` for TLC.
- `SuccessorList.tla` is the loop of `release_successor_list` (375-393) on
  its own, checked against a recursive reference (run drain).

`TaskGraph` models every part above in one module. The parts share their
atomics directly: a node push is an access to a state and a vertex at once.
Splitting them would only add interface variables.

### Actors

- The actors are the client threads (`Clients`) and the bodies of running
  tasks.
- Each actor runs one operation at a time, and `pc` says where it is.
- Each atomic access of the code is one step: a load, CAS, exchange or
  `fetch_sub`.

### Objects

- An object is named by its task. A task has at most one dynamic state and at
  most one vertex.
- Nodes come from the pool `NodeIds`.
- Allocation state is `none`/`unused`, `live` or `freed`. A freed object that
  is touched shows up as a `NoUseAfterFree` violation.

### Correspondence with the code

| Model | Code |
|---|---|
| `SetOrder` | `internal_set_task_order` + `get_continuation_vertex` |
| `AddSuccessor` (+ `AddSuccessorCompleted`) | `add_successor` (434-450) |
| `AddSuccessorNode` | the load and first `set_next_node` of `add_successor_node` (416-424) |
| `CasSuccessorHead` | its CAS loop (425-431) |
| `CheckTransferOrCompletion` / `UndoReservation` | 398-414 |
| `Transfer` | `task_handle_task::transfer_successors_to` (257-265): nothing without a state |
| `TransferState` | the reserve and forward store (144-149) |
| `TransferExchange` | the exchange, empty-list return and walk to the last node (150-151, 452-459) |
| `FetchSuccessorList` | the head exchange (140-142) |
| `SpliceLoad` / `SpliceCas` | 461-467 |
| `CompleteTask` | `task_handle_task::complete_task` (235-243) |
| `CompleteState` | `task_dynamic_state::complete_task` (95-98): exchange, then drain what it returned |
| `UnsetDependency` | `unset_dependency` (104-106), called by `release_bypass` at zero |
| `DrainNode` / `CollectReady` | one iteration of `release_successor_list` (375-393) |
| `ExitTask` | the task's destruction after the body (`finalize`, destructor) and the bypass return |
| `Submit` | `task_handle_accessor::release` with `release_continuation` (245-250, 470-480) |
| `Drop` | destruction of an unsubmitted handle (destructor 198-206) |
| `MakeCompletionHandle` / `CopyCompletionHandle` / `MoveCompletionHandle` / `DropCompletionHandle` | the `task_completion_handle` constructors and destructor |
| `CopyAssignCompletionHandle` / `MoveAssignCompletionHandle` / `AssignFromTaskHandle` | its three assignment operators (510-545): release the old state, then reserve the new one |
| `Run` | the scheduler starting a spawned task |

`PROJECT.json` "map" gives the exact line range of every definition.

### History variables

These variables are not in the code. Properties use them.

- `spawned` counts how often a task was handed to the scheduler.
- `sealed` records that complete_task exchanged the task's head.
- `ordered` holds the edges whose `set_task_order` returned while the
  predecessor was unresolved.
- `added` and `transferred` bound each edge and each transfer to once.
- `fault` marks a walk of the `COMPLETED` sentinel. This is where the real
  program would crash, so the model stops there.

### The repaired drain (`SealedDrainFix`)

- Every task that transfers its successors later completes. With the code as
  written, that completion walks the sentinel (finding 1), and the model stops
  there.
- So the rest of the transfer protocol is unreachable in the faithful model:
  - the release of a forwarding state, whose last release releases the target
    (line 90);
  - inserters following a chain of transfers;
  - the completion of the target.
- The boolean constant `SealedDrainFix` selects the repair that spec scenario
  5 calls for: a completion that finds its list already sealed drains nothing.
- It is `FALSE` in every cfg except `MC_chain.cfg`. No other definition
  depends on it.

### Mutants

Definitions introduced as "Mutant" are fault-injected variants, one plausible
bug each:

- a dropped reserve;
- an off-by-one zero test;
- a skipped `set_next_node`;
- a missing release or finalize;
- a bypass successor spawned twice;
- an ignored forwarding pointer;
- a missing spawn.

Each one lets a property show that it detects that bug.

### The abstract specification and the refinement

`DependencyGraph` has no lists, nodes or counts. Its state:

- `status` of each task: handle, submitted, spawned, running, done, dropped;
- `waiting[s]`: the tasks s still waits for;
- `finished[t]`: t's body has ended and its successors are sealed;
- `moved[t]`: the task t's successors were transferred to;
- `returned`: the `set_task_order` calls that have returned.

Its actions:

- `Order(p, s)` makes s wait for the task now holding p's successors, unless
  that task has finished.
- `Transfer(t, u)` replaces t by u in every waiting set.
- `Release(p, s)` removes a finished p from `waiting[s]`. It spawns s if s is
  submitted and waits for nothing else.
- `Exit(t)` ends a body that released all its waiters. It may spawn one ready
  submitted task, which is the bypass return.
- `Submit`, `Drop`, `Run` and `Finish` are the other actions.

`TaskGraph` instantiates it as `DG` with a refinement mapping, and
`ImplementsDependencyGraph` is a PROPERTY. It is `DG!Spec` with the
stuttering disjunct written first,
`DG!Init /\ [][UNCHANGED DG!vars \/ DG!Next]_DG!vars`. Most steps of a thread
are abstract stutters, so TLC decides them without evaluating `DG!Next`; this
saves about a tenth of the transfer run. The mapping:

- `waiting[s]` maps to every task with a live node for s's vertex. The node
  can be on the task's list, in a thread's hands during a splice, or on the
  list a draining body holds. `HeldNodes` collects these (task, node) pairs
  once per state, and `Waiting` groups them by the node's vertex.
- `finished[t]` (`FinishedMap`) maps to "t's head has been sealed by
  `complete_task`, or t is done".
- `moved[t]` (`MovedMap`) maps to the forwarding pointer. During the transfer exchange it
  maps to `None`, because the exchange is the step that moves the list.
- `returned` (`Returned`) maps to the edges added minus the calls still in
  progress.

Each step of the detailed spec is a step of the abstract one or a stutter.
For example, the head CAS of a push is `Order`. A push that finds the head
`COMPLETED` follows the forwarding pointer, or it undoes its reservation.

`MC_TaskGraph.tla` defines the model values and the ownership and edge
relations the cfgs use.

### The drain loop (`SuccessorList`)

`TaskGraph` drains lists concurrently, with node ids and one edge per pair.
`SuccessorList` takes one list that one thread owns and checks the order in
which the loop hands tasks out.

- `Init` ranges over every list of at most `MaxLen` nodes on `Vertices`. A
  vertex may occur more than once; that is `set_task_order` called more than
  once for the same pair.
- Each vertex's count is its number of nodes in the list, or one more. The
  extra reference is an unsubmitted handle's reservation or a node on
  another predecessor's list.
- `DrainNode` is one iteration of the `while` loop:
  - `release_bypass` decrements the count, and returns the task when the
    count reaches zero;
  - the first task returned is kept in `next_task`, and each later one is
    appended to `spawned`;
  - the loop moves to `next_node`.
- `ReadyInOrder` is the reference, written as a RECURSIVE operator over the
  input. A vertex is ready at its last node when the list holds all of its
  references. `DrainMatchesReference` says that when the loop ends, the
  bypass task is the first ready vertex and the spawned tasks are the rest,
  in order.

The run does not check deadlock (`CHECK_DEADLOCK FALSE`): the loop ends at
nullptr and the function returns.

## 3. Runs

| Run | cfg | Expect | What it shows |
|---|---|---|---|
| fanin | `MC_fanin.cfg` | pass | A->B, A->C, B->C from two clients in every interleaving with submission, completion and completion handles. The eight safety invariants and the refinement of `DependencyGraph` hold. |
| fanin_live | `MC_fanin_live.cfg` | pass | The same graph with one client owning the three tasks, checked for liveness only: every submitted task is executed and every `set_task_order` that races A's or B's completion returns. |
| transfer | `MC_transfer.cfg` | pass | A's body transfers to U while clients add A->B and A->C. Edges added during the exchange and splice are forwarded, nodes are conserved, states stay alive while used, and the refinement holds: no edge whose call returned is lost. |
| drop_succ | `MC_drop_succ.cfg` | pass | Destroying a successor's handle never lets its vertex reach zero, so a destroyed task is never spawned. Completion handles are copied, moved and reassigned with two per state, and the state counts stay balanced. |
| chain | `MC_chain.cfg` | pass | With the drain repaired, A transfers to U and U to W while C1 orders B after A. A `set_task_order` that meets sealed heads follows the two-hop chain and returns. B runs after W. The cascade frees A, U and W without a use after free or a leak. The refinement and eventual completion hold. |
| drain | `MC_drain.cfg` | pass | `release_successor_list` on every list of up to four nodes on three vertices, with repeated edges and one spare reference. It returns the first task whose count reaches zero for bypass, and spawns each other ready task once, in list order. No task that still holds a reference is handed out. |
| sentinel | `MC_sentinel.cfg` | violation | `NoSentinelWalk`: a task that transferred and then completes walks the `COMPLETED` sentinel. |
| drop | `MC_drop.cfg` | violation | `QuiescentNoLeak`: destroying an unsubmitted handle with predecessors leaks its vertex. |

### Properties

- **`SingleSpawn`**: a task is spawned at most once.
- **`HappensBefore`**: an edge that was in place before p's successors were
  released keeps s unspawned until then. It follows the forwarding chain.
- **`NodeOwnership`**: every live node is in exactly one list or one thread's
  hands, and a freed node is in none.
- **`VertexRefBalance`**: a vertex's count is the handle's reservation plus one
  per live node pointing at it.
- **`StateRefBalance`**: a state's count is its task plus its completion
  handles plus its forwarders.
- **`NoUseAfterFree`**: no thread uses a freed state or vertex, and a destroyed
  task's vertex never reaches zero.
- **`QuiescentNoLeak`**: when nothing is in progress and no handle is held,
  everything has been freed.
- **`SubmittedTaskCompletes`**: a liveness property; every submitted task
  eventually completes.
- **`OrderReturns`**: a liveness property; every `set_task_order` that
  started eventually returns. A call restarts on `m_new_dynamic_state` each
  time it meets a sealed head, so this is the termination question of spec
  open question 2.
- **`DrainMatchesReference`**: when `release_successor_list` returns,
  `next_task` and the spawned tasks are those `ReadyInOrder` lists.
- **`ImplementsDependencyGraph`**: every behaviour of `TaskGraph` is a
  behaviour of `DependencyGraph` under the mapping above. It breaks for the
  following bugs:
  - a task spawned before its last predecessor finishes;
  - an edge dropped during a transfer;
  - a successor spawned twice;
  - a node that is not linked.

Each property of a passing run has a mutant, listed in `PROJECT.json`. Under
that run's cfg, the mutant makes TLC report the property violated.

### Findings

1. **The sentinel walk.** The transfer protocol seals the old list with
   `COMPLETED` (spec 4.3). The transferring task later completes, and its
   `complete_task` gets `COMPLETED` back. `release_successor_list` stops only
   at nullptr, so it walks the sentinel.
   - The header as written also does not compile: `fetch_successor_list()` at
     line 150 has no argument, and `is_alive` at line 401 is not defined. The
     model follows the spec there.
2. **The drop leak.** `~task_handle_task` releases only the dynamic state. A
   dropped handle's continuation vertex keeps its "not yet submitted"
   reservation and is never freed.

### Bounds

- **fanin**: 3 tasks, 2 clients, 3 nodes, 1 completion handle per task.
  - 236,143 distinct states, about one minute with the refinement.
  - This is the smallest setting with a join (C has two predecessors).
  - It also has a chain (A->B->C), so a bypass task and a spawned one come out
    of one drain.
  - Completion handles must cross between clients for C2 to order C after C1's
    tasks.
- **fanin_live**: the fanin graph with one client, C1, owning A, B and C.
  - 59,724 distinct states, under a minute.
  - Checking liveness on the two-client fanin took three times as long as its
    safety, so the two are split as separate runs. With one client no head CAS
    fails; the race left is between an insertion and the predecessor's
    completion, which is what `OrderReturns` is about there.
- **transfer**: 4 tasks, 2 clients, 2 nodes, 1 completion handle per task.
  - C2 can order A->C only through a completion handle on A, which C1
    creates and moves to it.
  - 415,083 distinct states, about a minute and a half with the refinement.
  - `QuiescentNoLeak` is not checked here. Every behaviour in which A's
    transfer takes effect ends in the sentinel fault (finding 1) with A
    still running, so no state of it is quiescent. The rest is the
    untransferred fan-out, which fanin already checks.
  - Two concurrent adders are the least that can race the exchange and the
    splice from both sides.
- **drop_succ**: 2 tasks, 1 node, 2 completion handles per task.
  - This lets the copy and all three assignment paths run.
  - The assignments only fire where a handle can exist twice, so they add no
    states to fanin or to transfer, which have one handle per task.
  - 3,572 distinct states.
- **chain**: 4 tasks (A, B, U, W), 1 client, 1 node, 1 completion handle.
  - 14,486 distinct states, under half a minute.
  - This is the smallest setting with a two-hop forwarding chain. C1's handle
    on A lets it order B after A at any point of the two transfers.
  - Probe invariants confirmed four cases:
    - a call on A is redirected to W;
    - B completes through W;
    - A's and U's states are freed by the cascade;
    - the recursive branch of `ReleaseState` fires.
  - A second client, or a second edge, did not finish within 7 to 20 minutes.
    The liveness properties are the cost.

- **drain**: 3 vertices, lists of up to 4 nodes.
  - 968 initial states and 4,376 distinct states, in about a second.
  - Four nodes on three vertices are the least that have a vertex twice
    and two other ready vertices after it. That is the case where bypass
    and spawn order can go wrong.

Larger settings were tried: 3 tasks with 2 handles each. They did not finish
within half an hour and add no new kind of interleaving.

### Fairness

- Weak fairness on each actor's internal steps. The CAS loops are lock-free,
  and a failed CAS means another thread succeeded.
- Weak fairness on the scheduler starting a spawned task. Spec 1 assumes fair
  execution.
- Weak fairness on bodies ending.
- Weak fairness on each task's owner submitting it, while no fault has
  happened. A program that never submits is outside the claim.

Liveness is checked in fanin_live and in chain. In transfer, every behaviour where
the transferring task completes ends in the fault (finding 1). chain checks
the same protocol with the repaired drain. There, the transfers and their
targets' submissions are taken by bodies that the scheduler runs fairly.

## 4. Abstractions and what is not modelled

### Abstractions

- **Sequentially consistent memory.** The relaxed store of the forwarding
  pointer and the relaxed loads are not explored under weaker orders.
- **`add_successor` is one step.** Its load, vertex `reserve` and node
  allocation are merged. Only the load is shared, and the allocation is
  thread-local.
- **`get_dynamic_state` and `get_continuation_vertex` are atomic.** Only the
  thread owning the task's handle, or its running body, creates them, so their
  CAS never fails here.
- **One transfer per body and one call per edge.** Repeated edges (spec's `k`
  edges) are in the plan.
- **Only client threads hold completion handles.**
- **Move-assignment takes the assigning thread's own handle.** Moving from
  another thread's handle while it is in use is a data race on that object,
  which the spec rules out. With handles counted per holder, the move is the
  release of the target.
- **Spawning a task with no dependencies at submission is `spec_modelled`.**
  This is the caller's half of `task_handle_accessor::release`, which lives in
  `task_group`, outside `src/`. So is `Run`.

### Not modelled

- The wait-tree vertex reservation.
- `task_group_context` and cancellation.
- The small-object allocator. Memory reuse is not modelled: ABA on a reused
  node address is not explored.
- The null comparisons and `operator bool`.

## 5. Plan

Done so far:

- the core module, its MC module and its runs;
- mutants for every property, and the map;
- the completion-handle assignments;
- `DependencyGraph` and the refinement, checked in fanin and transfer;
- the repaired-drain switch and the chain run: forward chains, the release
  cascade, and termination of `set_task_order`;
- liveness of the fan-in graph split into its own run, fanin_live;
- `SuccessorList.tla` and the drain run: the drain order against a
  recursive reference, with repeated edges.

Next, in order:

1. **Repeated edges in `TaskGraph`** (`k > 1` nodes from the same
   predecessor, so far checked only in the sequential drain), and completion
   handles held by task bodies.
2. **Liveness in the transfer setting with the repaired drain.** Two
   concurrent inserters, which is too large with liveness at present.
