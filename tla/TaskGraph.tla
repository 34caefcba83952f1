----------------------------- MODULE TaskGraph -----------------------------
(***************************************************************************)
(* The deferred task dependency core of oneTBB task_group                  *)
(* (include/oneapi/tbb/detail/_task_handle.h): task_dynamic_state with its *)
(* tagged successor-list head and forwarding pointer, continuation_vertex, *)
(* successor_list_node, task_handle and task_completion_handle.            *)
(*                                                                         *)
(* An object is named by the task it belongs to: a task has at most one    *)
(* dynamic state and at most one continuation vertex.  Successor list      *)
(* nodes come from the pool NodeIds.  Actors are client threads and the    *)
(* bodies of running tasks; each runs one operation at a time, and each    *)
(* atomic access of the code (load, CAS, exchange, fetch_sub) is one step. *)
(* Memory is sequentially consistent.  A definition introduced as a       *)
(* "Mutant" is a fault-injected variant of the definition after it, kept   *)
(* to show that a property detects that bug.                              *)
(***************************************************************************)
EXTENDS Naturals, FiniteSets, Functions

CONSTANTS
  Tasks,        \* task_handle_task objects
  Clients,      \* client threads
  Owner,        \* Owner[t]: the client or task body holding t's task_handle
  Edges,        \* pairs <<p, s>> for which set_task_order(p, s) is called once
  CanTransfer,  \* pairs <<t, u>>: the body of t transfers its successors to u
  CanDrop,      \* tasks whose unsubmitted task_handle may be destroyed
  NodeIds,      \* successor_list_node allocations
  MaxHandles,   \* bound on task_completion_handles alive per task
  Null,         \* nullptr
  Completed,    \* COMPLETED_FLAG, the all-ones successor list head
  None,         \* no task
  SealedDrainFix \* TRUE: complete_task on a list already sealed by a
                 \* transfer drains nothing (the repair of the sentinel walk)

Actors == Clients \cup Tasks

ASSUME /\ Owner \in [Tasks -> Actors]
       /\ Edges \subseteq Tasks \X Tasks
       /\ CanTransfer \subseteq {e \in Tasks \X Tasks : Owner[e[2]] = e[1]}
       /\ CanDrop \subseteq Tasks
       /\ Cardinality(NodeIds) >= Cardinality(Edges)
       /\ MaxHandles \in Nat
       /\ SealedDrainFix \in BOOLEAN

VARIABLES
  status,     \* handle, submitted, spawned, running, done, dropped
  stateOf,    \* task_dynamic_state of t: none, live, freed
  sref,       \* task_dynamic_state::m_num_references
  head,       \* task_dynamic_state::m_successor_list_head
  fwd,        \* task_dynamic_state::m_new_dynamic_state
  cv,         \* task_dynamic_state::m_continuation_vertex /= nullptr
  vtx,        \* continuation_vertex of t: none, live, freed
  vref,       \* continuation_vertex::m_ref_count
  node,       \* successor_list_node: unused, live, freed
  next,       \* successor_list_node::m_next_successor
  nvtx,       \* successor_list_node::m_continuation_vertex (its task)
  ch,         \* ch[a][t]: task_completion_handles on t's state held by a
  pc,         \* the step each actor is at
  opPred,     \* set_task_order in progress: its predecessor
  opSucc,     \*   and its successor
  cur,        \* the state an insertion or a splice works on
  nd,         \* the node being inserted, or the last node of a spliced list
  hd,         \* the head a CAS expects
  lst,        \* the list being spliced or drained
  byp,        \* the bypass task release_successor_list will return
  spawned,    \* history: how often each task was handed to the scheduler
  sealed,     \* history: complete_task exchanged t's head
  ordered,    \* history: edges <<p, s>> that returned while p was unresolved
  added,      \* history: edges whose set_task_order has been called
  transferred,\* history: the body of t has transferred
  fault       \* release_successor_list walked the COMPLETED sentinel

stateVars == <<stateOf, sref, head, fwd, cv>>
vertexVars == <<vtx, vref>>
nodeVars == <<node, next, nvtx>>
localVars == <<pc, opPred, opSucc, cur, nd, hd, lst, byp>>
historyVars == <<spawned, sealed, ordered, added, transferred, fault>>
vars == <<status, stateVars, vertexVars, nodeVars, ch, localVars, historyVars>>

(***************************************************************************)
(* Helpers.                                                                *)
(***************************************************************************)

\* Tasks whose task_handle actor a holds (non-empty, not yet released).
Owned(a) == {t \in Tasks : Owner[t] = a /\ status[t] = "handle"}

\* An actor may start an operation: a client thread, or a running body.
Active(a) == pc[a] = "idle" /\ (a \in Clients \/ (a \in Tasks /\ status[a] = "running"))

HandlesOn(t) == FoldFunction(LAMBDA x, acc : x[t] + acc, 0, ch)

\* The nodes of the list from n, following m_next_successor.
RECURSIVE ListFrom(_, _)
ListFrom(n, seen) ==
  IF n \in {Null, Completed} \/ n \in seen THEN seen
  ELSE ListFrom(next[n], seen \cup {n})

\* add_successor_list's walk to the node with a null m_next_successor.
RECURSIVE LastNode(_)
LastNode(n) == IF next[n] = Null THEN n ELSE LastNode(next[n])

\* task_handle_task::get_dynamic_state: install a state holding the task's
\* co-ownership when the task has none.
GetDynamicState(t, so, sr) ==
  IF so[t] = "none"
  THEN <<[so EXCEPT ![t] = "live"], [sr EXCEPT ![t] = 1]>>
  ELSE <<so, sr>>

\* Mutant: reserve() does not count the new co-owner.
ReserveStateNoop(t, sr) == sr

\* task_dynamic_state::reserve.
ReserveState(t, sr) == [sr EXCEPT ![t] = @ + 1]

\* Mutant: the state is freed one release early.
RECURSIVE ReleaseStateEarly(_, _, _)
ReleaseStateEarly(t, so, sr) ==
  IF sr[t] <= 2
  THEN IF fwd[t] /= None
       THEN ReleaseStateEarly(fwd[t], [so EXCEPT ![t] = "freed"], [sr EXCEPT ![t] = 0])
       ELSE <<[so EXCEPT ![t] = "freed"], [sr EXCEPT ![t] = 0]>>
  ELSE <<so, [sr EXCEPT ![t] = @ - 1]>>

\* Mutant: the last release frees the state but not the co-ownership it
\* holds on the state its successors were transferred to.
ReleaseStateNoCascade(t, so, sr) ==
  IF sr[t] = 1 THEN <<[so EXCEPT ![t] = "freed"], [sr EXCEPT ![t] = 0]>>
  ELSE <<so, [sr EXCEPT ![t] = @ - 1]>>

\* task_dynamic_state::release: the last release frees the state and
\* releases the state its successors were transferred to.
RECURSIVE ReleaseState(_, _, _)
ReleaseState(t, so, sr) ==
  IF sr[t] = 1
  THEN IF fwd[t] /= None
       THEN ReleaseState(fwd[t], [so EXCEPT ![t] = "freed"], [sr EXCEPT ![t] = 0])
       ELSE <<[so EXCEPT ![t] = "freed"], [sr EXCEPT ![t] = 0]>>
  ELSE <<so, [sr EXCEPT ![t] = @ - 1]>>

ReleaseStateOf(t) ==
  LET r == ReleaseState(t, stateOf, sref)
  IN  stateOf' = r[1] /\ sref' = r[2]

\* A predecessor is resolved once the state holding its successors (its
\* own, or the one they were transferred to) has run complete_task.
RECURSIVE Resolved(_)
Resolved(p) == IF fwd[p] /= None THEN Resolved(fwd[p]) ELSE sealed[p]

\* Hand t to the scheduler (d1::spawn, or the bypass return).
Spawn(t) ==
  /\ status' = [status EXCEPT ![t] = "spawned"]
  /\ spawned' = [spawned EXCEPT ![t] = @ + 1]

\* set_task_order returns; the edge is recorded when p was unresolved.
FinishOrder(a) ==
  /\ pc' = [pc EXCEPT ![a] = "idle"]
  /\ ordered' = IF Resolved(opPred[a]) THEN ordered
                ELSE ordered \cup {<<opPred[a], opSucc[a]>>}

\* Mutant: the fetch_sub result is compared with 1 instead of 0.
BypassReadyEarly(s) == vref[s] - 1 <= 1

\* continuation_vertex::release_bypass: the fetch_sub that leaves zero
\* unsets the task's dependency, frees the vertex and returns the task.
BypassReady(s) == vref[s] - 1 = 0

\* task_dynamic_state::unset_dependency: has_dependencies becomes false.
UnsetDependency(s) == cv' = [cv EXCEPT ![s] = FALSE]

ReleaseBypass(s) ==
  /\ vref' = [vref EXCEPT ![s] = @ - 1]
  /\ IF BypassReady(s)
     THEN UnsetDependency(s) /\ vtx' = [vtx EXCEPT ![s] = "freed"]
     ELSE UNCHANGED <<cv, vtx>>

\* task_dynamic_state::fetch_successor_list: exchange a flag into the head
\* (the old head is read by the caller in the same step).
FetchSuccessorList(t, flag) == head' = [head EXCEPT ![t] = flag]

\* Mutant: set_next_node leaves the node's link as it was.
SetNextNodeSkipped(a, h) == UNCHANGED next

\* successor_list_node::set_next_node on the node actor a inserts, or on
\* the last node of the list it splices.
SetNextNode(a, h) == next' = [next EXCEPT ![nd[a]] = h]

Init ==
  /\ status = [t \in Tasks |-> "handle"]
  /\ stateOf = [t \in Tasks |-> "none"]
  /\ sref = [t \in Tasks |-> 0]
  /\ head = [t \in Tasks |-> Null]
  /\ fwd = [t \in Tasks |-> None]
  /\ cv = [t \in Tasks |-> FALSE]
  /\ vtx = [t \in Tasks |-> "none"]
  /\ vref = [t \in Tasks |-> 0]
  /\ node = [n \in NodeIds |-> "unused"]
  /\ next = [n \in NodeIds |-> Null]
  /\ nvtx = [n \in NodeIds |-> None]
  /\ ch = [a \in Actors |-> [t \in Tasks |-> 0]]
  /\ pc = [a \in Actors |-> "idle"]
  /\ opPred = [a \in Actors |-> None]
  /\ opSucc = [a \in Actors |-> None]
  /\ cur = [a \in Actors |-> None]
  /\ nd = [a \in Actors |-> Null]
  /\ hd = [a \in Actors |-> Null]
  /\ lst = [a \in Actors |-> Null]
  /\ byp = [a \in Actors |-> None]
  /\ spawned = [t \in Tasks |-> 0]
  /\ sealed = [t \in Tasks |-> FALSE]
  /\ ordered = {}
  /\ added = {}
  /\ transferred = [t \in Tasks |-> FALSE]
  /\ fault = FALSE

(***************************************************************************)
(* task_completion_handle: construction from a task_handle, copy, move,   *)
(* destruction and the three assignment operators.  A handle is counted    *)
(* per holding client thread.                                              *)
(***************************************************************************)
MakeCompletionHandle(a, t) ==
  /\ a \in Clients /\ Active(a)
  /\ t \in Owned(a) /\ HandlesOn(t) < MaxHandles
  /\ LET g == GetDynamicState(t, stateOf, sref)
     IN  stateOf' = g[1] /\ sref' = ReserveState(t, g[2])
  /\ ch' = [ch EXCEPT ![a][t] = @ + 1]
  /\ UNCHANGED <<status, head, fwd, cv, vertexVars, nodeVars, localVars, historyVars>>

CopyCompletionHandle(a, b, t) ==
  /\ a \in Clients /\ b \in Clients /\ Active(a)
  /\ ch[a][t] > 0 /\ HandlesOn(t) < MaxHandles
  /\ sref' = ReserveState(t, sref)
  /\ ch' = [ch EXCEPT ![b][t] = @ + 1]
  /\ UNCHANGED <<status, stateOf, head, fwd, cv, vertexVars, nodeVars, localVars, historyVars>>

MoveCompletionHandle(a, b, t) ==
  /\ a \in Clients /\ b \in Clients /\ a /= b /\ Active(a)
  /\ ch[a][t] > 0
  /\ ch' = [ch EXCEPT ![a][t] = @ - 1, ![b][t] = @ + 1]
  /\ UNCHANGED <<status, stateVars, vertexVars, nodeVars, localVars, historyVars>>

DropCompletionHandle(a, t) ==
  /\ a \in Clients /\ Active(a)
  /\ ch[a][t] > 0
  /\ ReleaseStateOf(t)
  /\ ch' = [ch EXCEPT ![a][t] = @ - 1]
  /\ UNCHANGED <<status, head, fwd, cv, vertexVars, nodeVars, localVars, historyVars>>

\* The assignments below retarget a's handle on t.  A handle on the same
\* state as the source gains nothing observable and is left out (t /= u).

\* Mutant: the copy assignment reserves the new state but never releases
\* the one it overwrites.
CopyAssignCompletionHandleNoRelease(a, b, t, u) ==
  /\ a \in Clients /\ b \in Clients /\ Active(a)
  /\ t /= u /\ ch[a][t] > 0 /\ ch[b][u] > 0 /\ HandlesOn(u) < MaxHandles
  /\ sref' = ReserveState(u, sref)
  /\ ch' = [ch EXCEPT ![a][t] = @ - 1, ![a][u] = @ + 1]
  /\ UNCHANGED <<stateOf, status, head, fwd, cv, vertexVars, nodeVars, localVars, historyVars>>

\* operator=(const task_completion_handle&): release t, share b's state u.
CopyAssignCompletionHandle(a, b, t, u) ==
  /\ a \in Clients /\ b \in Clients /\ Active(a)
  /\ t /= u /\ ch[a][t] > 0 /\ ch[b][u] > 0 /\ HandlesOn(u) < MaxHandles
  /\ LET r == ReleaseState(t, stateOf, sref)
     IN  stateOf' = r[1] /\ sref' = ReserveState(u, r[2])
  /\ ch' = [ch EXCEPT ![a][t] = @ - 1, ![a][u] = @ + 1]
  /\ UNCHANGED <<status, head, fwd, cv, vertexVars, nodeVars, localVars, historyVars>>

\* operator=(task_completion_handle&&): release t and take over a's own
\* handle on u (moving from it mutates it, so it is not another thread's).
\* With handles counted per holder this is the destruction of the target.
MoveAssignCompletionHandle(a, t, u) ==
  /\ a \in Clients /\ Active(a)
  /\ t /= u /\ ch[a][t] > 0 /\ ch[a][u] > 0
  /\ ReleaseStateOf(t)
  /\ ch' = [ch EXCEPT ![a][t] = @ - 1]
  /\ UNCHANGED <<status, head, fwd, cv, vertexVars, nodeVars, localVars, historyVars>>

\* operator=(const task_handle&): release t, then get_dynamic_state of the
\* task u that a's task_handle owns, and reserve it.
AssignFromTaskHandle(a, t, u) ==
  /\ a \in Clients /\ Active(a)
  /\ t /= u /\ ch[a][t] > 0 /\ u \in Owned(a) /\ HandlesOn(u) < MaxHandles
  /\ LET r == ReleaseState(t, stateOf, sref)
         g == GetDynamicState(u, r[1], r[2])
     IN  stateOf' = g[1] /\ sref' = ReserveState(u, g[2])
  /\ ch' = [ch EXCEPT ![a][t] = @ - 1, ![a][u] = @ + 1]
  /\ UNCHANGED <<status, head, fwd, cv, vertexVars, nodeVars, localVars, historyVars>>

(***************************************************************************)
(* set_task_order(p, s) and task_dynamic_state::add_successor.             *)
(***************************************************************************)

\* get_continuation_vertex: create the vertex, holding the reservation of
\* the task's unsubmitted handle, when there is none.
GetContinuationVertex(s) ==
  /\ cv' = [cv EXCEPT ![s] = TRUE]
  /\ IF cv[s] THEN UNCHANGED vertexVars
     ELSE vtx' = [vtx EXCEPT ![s] = "live"] /\ vref' = [vref EXCEPT ![s] = 1]

\* internal_set_task_order: p's state (from its task_handle or a completion
\* handle), s's vertex, then add_successor on p.
SetOrder(a, p, s) ==
  /\ Active(a)
  /\ <<p, s>> \in Edges \ added
  /\ s \in Owned(a)
  /\ p \in Owned(a) \/ ch[a][p] > 0
  /\ LET g1 == GetDynamicState(p, stateOf, sref)
         g2 == GetDynamicState(s, g1[1], g1[2])
     IN  stateOf' = g2[1] /\ sref' = g2[2]
  /\ GetContinuationVertex(s)
  /\ pc' = [pc EXCEPT ![a] = "add"]
  /\ opPred' = [opPred EXCEPT ![a] = p]
  /\ opSucc' = [opSucc EXCEPT ![a] = s]
  /\ cur' = [cur EXCEPT ![a] = p]
  /\ added' = added \cup {<<p, s>>}
  /\ UNCHANGED <<status, head, fwd, nodeVars, ch, nd, hd, lst, byp,
                 spawned, sealed, ordered, transferred, fault>>

\* Mutant: a COMPLETED head ends add_successor even when forwarded.
AddSuccessorCompletedIgnoringForward(a) ==
  FinishOrder(a) /\ UNCHANGED cur

\* Mutant: a sealed head sends the call to the first state the predecessor
\* forwarded to, whichever state it is working on.
AddSuccessorCompletedFromOrigin(a) ==
  IF fwd[cur[a]] /= None
  THEN cur' = [cur EXCEPT ![a] = fwd[opPred[a]]] /\ UNCHANGED <<pc, ordered>>
  ELSE FinishOrder(a) /\ UNCHANGED cur

\* add_successor on a COMPLETED head: delegate to the state the successors
\* were transferred to, or return (the predecessor already completed).
AddSuccessorCompleted(a) ==
  IF fwd[cur[a]] /= None
  THEN cur' = [cur EXCEPT ![a] = fwd[cur[a]]] /\ UNCHANGED <<pc, ordered>>
  ELSE FinishOrder(a) /\ UNCHANGED cur

\* add_successor: reserve the vertex and allocate a node for
\* add_successor_node unless the head is COMPLETED.
AddSuccessor(a) ==
  /\ pc[a] = "add"
  /\ IF head[cur[a]] /= Completed
     THEN LET n == CHOOSE n \in NodeIds : node[n] = "unused"
          IN  /\ vref' = [vref EXCEPT ![opSucc[a]] = @ + 1]
              /\ node' = [node EXCEPT ![n] = "live"]
              /\ nvtx' = [nvtx EXCEPT ![n] = opSucc[a]]
              /\ next' = [next EXCEPT ![n] = Null]
              /\ nd' = [nd EXCEPT ![a] = n]
              /\ pc' = [pc EXCEPT ![a] = "addNode"]
              /\ UNCHANGED <<cur, ordered>>
     ELSE AddSuccessorCompleted(a) /\ UNCHANGED <<vref, nodeVars, nd>>
  /\ UNCHANGED <<status, stateVars, vtx, ch, opPred, opSucc, hd, lst, byp,
                 spawned, sealed, added, transferred, fault>>

\* Mutant: the node is finalized without releasing its reservation.
UndoReservationNoRelease(a) ==
  node' = [node EXCEPT ![nd[a]] = "freed"] /\ UNCHANGED vref

\* Mutant: the reservation is released but the node is never finalized.
UndoReservationNoFinalize(a) ==
  vref' = [vref EXCEPT ![nvtx[nd[a]]] = @ - 1] /\ UNCHANGED node

\* The task completed while the node was being inserted: release the
\* vertex reservation and finalize the node.
UndoReservation(a) ==
  /\ vref' = [vref EXCEPT ![nvtx[nd[a]]] = @ - 1]
  /\ node' = [node EXCEPT ![nd[a]] = "freed"]

\* Mutant: a sealed head is taken for completion even when forwarded.
CheckTransferOrCompletionIgnoringForward(a) ==
  UndoReservation(a) /\ FinishOrder(a) /\ UNCHANGED cur

\* Mutant: a sealed head without a forwarding pointer is taken for a
\* transient state and the insertion starts over on the same state.
CheckTransferOrCompletionRetry(a) ==
  IF fwd[cur[a]] /= None
  THEN /\ cur' = [cur EXCEPT ![a] = fwd[cur[a]]]
       /\ pc' = [pc EXCEPT ![a] = "addNode"]
       /\ UNCHANGED <<vref, node, ordered>>
  ELSE pc' = [pc EXCEPT ![a] = "addNode"] /\ UNCHANGED <<cur, vref, node, ordered>>

\* check_transfer_or_completion on a head seen COMPLETED: follow the
\* forwarding pointer with the same node, or undo the reservation.
CheckTransferOrCompletion(a) ==
  IF fwd[cur[a]] /= None
  THEN /\ cur' = [cur EXCEPT ![a] = fwd[cur[a]]]
       /\ pc' = [pc EXCEPT ![a] = "addNode"]
       /\ UNCHANGED <<vref, node, ordered>>
  ELSE UndoReservation(a) /\ FinishOrder(a) /\ UNCHANGED cur

\* add_successor_node: load the head and link the node to it for the CAS.
AddSuccessorNode(a) ==
  /\ pc[a] = "addNode"
  /\ IF head[cur[a]] = Completed
     THEN CheckTransferOrCompletion(a) /\ UNCHANGED <<next, hd>>
     ELSE /\ SetNextNode(a, head[cur[a]])
          /\ hd' = [hd EXCEPT ![a] = head[cur[a]]]
          /\ pc' = [pc EXCEPT ![a] = "cas"]
          /\ UNCHANGED <<vref, node, cur, ordered>>
  /\ UNCHANGED <<status, stateVars, vtx, nvtx, ch, opPred, opSucc, nd, lst, byp,
                 spawned, sealed, added, transferred, fault>>

\* The CAS loop of add_successor_node: publish the node, or re-check the
\* head that made the CAS fail and retry with it.
CasSuccessorHead(a) ==
  /\ pc[a] = "cas"
  /\ \/ /\ head[cur[a]] = hd[a]
        /\ head' = [head EXCEPT ![cur[a]] = nd[a]]
        /\ FinishOrder(a)
        /\ UNCHANGED <<vref, node, next, cur, hd>>
     \/ /\ head[cur[a]] = Completed
        /\ CheckTransferOrCompletion(a)
        /\ UNCHANGED <<head, next, hd>>
     \/ /\ head[cur[a]] \notin {hd[a], Completed}
        /\ SetNextNode(a, head[cur[a]])
        /\ hd' = [hd EXCEPT ![a] = head[cur[a]]]
        /\ UNCHANGED <<head, vref, node, pc, cur, ordered>>
  /\ UNCHANGED <<status, stateOf, sref, fwd, cv, vtx, nvtx, ch, opPred, opSucc,
                 nd, lst, byp, spawned, sealed, added, transferred, fault>>

(***************************************************************************)
(* Submission and destruction of a task_handle.                            *)
(***************************************************************************)

\* Mutant: the task that came back is not spawned.
ReleaseContinuationNoSpawn(t) ==
  /\ ReleaseBypass(t)
  /\ status' = [status EXCEPT ![t] = "submitted"]
  /\ UNCHANGED spawned

\* task_dynamic_state::release_continuation: release the submitted handle's
\* reservation; a task whose predecessors all completed is spawned here.
ReleaseContinuation(t) ==
  /\ ReleaseBypass(t)
  /\ IF BypassReady(t) THEN Spawn(t)
     ELSE status' = [status EXCEPT ![t] = "submitted"] /\ UNCHANGED spawned

\* Mutant: the has_dependencies check is dropped.
HasDependenciesAlways(t) == TRUE

\* task_handle_task::has_dependencies: the task has a live vertex.
HasDependencies(t) == stateOf[t] = "live" /\ cv[t]

\* task_handle_accessor::release via release_continuation: a task with
\* dependencies goes through release_continuation, any other is spawned by
\* the caller.
Submit(a, t) ==
  /\ Active(a) /\ t \in Owned(a)
  /\ IF HasDependencies(t)
     THEN ReleaseContinuation(t)
     ELSE Spawn(t) /\ UNCHANGED <<cv, vertexVars>>
  /\ UNCHANGED <<stateOf, sref, head, fwd, nodeVars, ch, localVars,
                 sealed, ordered, added, transferred, fault>>

\* Mutant: the destroyed task does not release its dynamic state.
DestroyTaskNoRelease(t) == UNCHANGED <<stateOf, sref>>

\* ~task_handle_task: release the task's co-ownership of its state.
DestroyTask(t) ==
  IF stateOf[t] = "live" THEN ReleaseStateOf(t) ELSE UNCHANGED <<stateOf, sref>>

\* Destroying an unsubmitted task_handle destroys the task.
Drop(a, t) ==
  /\ Active(a) /\ t \in Owned(a) \cap CanDrop
  /\ status' = [status EXCEPT ![t] = "dropped"]
  /\ DestroyTask(t)
  /\ UNCHANGED <<head, fwd, cv, vertexVars, nodeVars, ch, localVars, historyVars>>

\* The scheduler starts a spawned task.
Run(t) ==
  /\ status[t] = "spawned"
  /\ status' = [status EXCEPT ![t] = "running"]
  /\ UNCHANGED <<stateVars, vertexVars, nodeVars, ch, localVars, historyVars>>

(***************************************************************************)
(* Transfer of a running task's successors to a task_handle u its body     *)
(* owns: reserve u's state, publish the forwarding pointer, seal the own   *)
(* list with one exchange and splice what it held onto u's list.  A task   *)
(* without a dynamic state has no successors and does nothing.             *)
(***************************************************************************)
\* Mutant: the forwarding pointer is stored without reserving the target.
TransferStateNoReserve(t, u, sr) ==
  /\ sref' = sr
  /\ fwd' = [fwd EXCEPT ![t] = u]
  /\ pc' = [pc EXCEPT ![t] = "xchg"]
  /\ cur' = [cur EXCEPT ![t] = u]

\* task_dynamic_state::transfer_successors_to up to the exchange: reserve
\* u's state and store the forwarding pointer (sr holds u's new state).
TransferState(t, u, sr) ==
  /\ sref' = ReserveState(u, sr)
  /\ fwd' = [fwd EXCEPT ![t] = u]
  /\ pc' = [pc EXCEPT ![t] = "xchg"]
  /\ cur' = [cur EXCEPT ![t] = u]

\* task_handle_task::transfer_successors_to, with the target's state taken
\* from u's task_handle (get_task_dynamic_state creates it).
Transfer(t, u) ==
  /\ Active(t)
  /\ <<t, u>> \in CanTransfer /\ u \in Owned(t) /\ ~transferred[t]
  /\ transferred' = [transferred EXCEPT ![t] = TRUE]
  /\ LET g == GetDynamicState(u, stateOf, sref)
     IN  /\ stateOf' = g[1]
         /\ IF stateOf[t] = "live" THEN TransferState(t, u, g[2])
            ELSE sref' = g[2] /\ UNCHANGED <<fwd, pc, cur>>
  /\ UNCHANGED <<status, head, cv, vertexVars, nodeVars, ch, opPred, opSucc,
                 nd, hd, lst, byp, spawned, sealed, ordered, added, fault>>

\* fetch_successor_list seals the list; add_successor_list returns on an
\* empty one and otherwise walks to its last node.
TransferExchange(t) ==
  /\ pc[t] = "xchg"
  /\ FetchSuccessorList(t, Completed)
  /\ IF head[t] = Null
     THEN pc' = [pc EXCEPT ![t] = "idle"] /\ UNCHANGED <<lst, nd>>
     ELSE /\ pc' = [pc EXCEPT ![t] = "spliceLoad"]
          /\ lst' = [lst EXCEPT ![t] = head[t]]
          /\ nd' = [nd EXCEPT ![t] = LastNode(head[t])]
  /\ UNCHANGED <<status, stateOf, sref, fwd, cv, vertexVars, nodeVars, ch,
                 opPred, opSucc, cur, hd, byp, historyVars>>

\* add_successor_list: link the last node to the target's head.
SpliceLoad(t) ==
  /\ pc[t] = "spliceLoad"
  /\ SetNextNode(t, head[cur[t]])
  /\ hd' = [hd EXCEPT ![t] = head[cur[t]]]
  /\ pc' = [pc EXCEPT ![t] = "spliceCas"]
  /\ UNCHANGED <<status, stateVars, vertexVars, node, nvtx, ch, opPred, opSucc,
                 cur, nd, lst, byp, historyVars>>

\* The CAS loop of add_successor_list, re-linking the last node on failure.
SpliceCas(t) ==
  /\ pc[t] = "spliceCas"
  /\ IF head[cur[t]] = hd[t]
     THEN /\ head' = [head EXCEPT ![cur[t]] = lst[t]]
          /\ pc' = [pc EXCEPT ![t] = "idle"]
          /\ UNCHANGED <<next, hd>>
     ELSE /\ SetNextNode(t, head[cur[t]])
          /\ hd' = [hd EXCEPT ![t] = head[cur[t]]]
          /\ UNCHANGED <<head, pc>>
  /\ UNCHANGED <<status, stateOf, sref, fwd, cv, vertexVars, node, nvtx, ch,
                 opPred, opSucc, cur, nd, lst, byp, historyVars>>

(***************************************************************************)
(* The end of a task's body.  complete_task exchanges COMPLETED into the   *)
(* head and release_successor_list drains what it got, one node per step; *)
(* the drain loop stops only at nullptr, so a head that was already        *)
(* COMPLETED is dereferenced as a node: the fault.  Then the task is       *)
(* destroyed and the first successor made ready runs by bypass.            *)
(***************************************************************************)
\* Mutant: complete_task seals the list but never drains it.
CompleteStateNoDrain(t) ==
  /\ FetchSuccessorList(t, Completed)
  /\ sealed' = [sealed EXCEPT ![t] = TRUE]
  /\ pc' = [pc EXCEPT ![t] = "drain"]
  /\ lst' = [lst EXCEPT ![t] = Null]
  /\ byp' = [byp EXCEPT ![t] = None]
  /\ UNCHANGED fault

\* task_dynamic_state::complete_task: seal the list and start draining what
\* the exchange returned.  A list sealed before by a transfer is the
\* sentinel, which the drain walks (the fault) unless SealedDrainFix.
CompleteState(t) ==
  /\ FetchSuccessorList(t, Completed)
  /\ sealed' = [sealed EXCEPT ![t] = TRUE]
  /\ IF head[t] = Completed /\ ~SealedDrainFix
     THEN fault' = TRUE /\ UNCHANGED <<pc, lst, byp>>
     ELSE /\ pc' = [pc EXCEPT ![t] = "drain"]
          /\ lst' = [lst EXCEPT ![t] = IF head[t] = Completed THEN Null ELSE head[t]]
          /\ byp' = [byp EXCEPT ![t] = None]
          /\ UNCHANGED fault

\* task_handle_task::complete_task: a task without a dynamic state has no
\* successors and ends at once.
CompleteTask(t) ==
  /\ Active(t) /\ t \in Tasks
  /\ Owned(t) = {}
  /\ IF stateOf[t] = "none"
     THEN /\ status' = [status EXCEPT ![t] = "done"]
          /\ UNCHANGED <<head, pc, lst, byp, sealed, fault>>
     ELSE CompleteState(t) /\ UNCHANGED status
  /\ UNCHANGED <<stateOf, sref, fwd, cv, vertexVars, nodeVars, ch, opPred, opSucc,
                 cur, nd, hd, spawned, ordered, added, transferred>>

\* Mutant: the first ready successor is spawned as well as kept for bypass.
CollectReadySpawnsAll(t, s) ==
  /\ Spawn(s)
  /\ byp' = IF byp[t] = None THEN [byp EXCEPT ![t] = s] ELSE byp

\* release_successor_list: keep the first ready successor for bypass and
\* spawn the others.
CollectReady(t, s) ==
  IF byp[t] = None
  THEN byp' = [byp EXCEPT ![t] = s] /\ UNCHANGED <<status, spawned>>
  ELSE Spawn(s) /\ UNCHANGED byp

\* One iteration of release_successor_list.
DrainNode(t) ==
  /\ pc[t] = "drain" /\ lst[t] /= Null
  /\ LET n == lst[t]
     IN  /\ ReleaseBypass(nvtx[n])
         /\ node' = [node EXCEPT ![n] = "freed"]
         /\ lst' = [lst EXCEPT ![t] = next[n]]
         /\ IF BypassReady(nvtx[n]) THEN CollectReady(t, nvtx[n])
            ELSE UNCHANGED <<status, spawned, byp>>
  /\ UNCHANGED <<stateOf, sref, head, fwd, next, nvtx, ch, pc, opPred, opSucc,
                 cur, nd, hd, sealed, ordered, added, transferred, fault>>

\* The list is drained: the task is destroyed and the bypass task runs.
ExitTask(t) ==
  /\ pc[t] = "drain" /\ lst[t] = Null
  /\ status' = IF byp[t] = None THEN [status EXCEPT ![t] = "done"]
               ELSE [status EXCEPT ![t] = "done", ![byp[t]] = "spawned"]
  /\ spawned' = IF byp[t] = None THEN spawned
                ELSE [spawned EXCEPT ![byp[t]] = @ + 1]
  /\ DestroyTask(t)
  /\ pc' = [pc EXCEPT ![t] = "idle"]
  /\ UNCHANGED <<head, fwd, cv, vertexVars, nodeVars, ch, opPred, opSucc,
                 cur, nd, hd, lst, byp, sealed, ordered, added, transferred, fault>>

\* Nothing is in progress and nobody holds a handle of any kind.
Quiescent ==
  /\ \A a \in Actors : pc[a] = "idle"
  /\ \A t \in Tasks : status[t] \notin {"handle", "spawned", "running"} /\ HandlesOn(t) = 0

\* The program has ended, or has crashed on the fault.
Finished == (Quiescent \/ fault) /\ UNCHANGED vars

\* The steps an actor takes inside an operation it has started.
ActorStep(a) ==
  \/ AddSuccessor(a) \/ AddSuccessorNode(a) \/ CasSuccessorHead(a)
  \/ TransferExchange(a) \/ SpliceLoad(a) \/ SpliceCas(a)
  \/ DrainNode(a) \/ ExitTask(a)

Next ==
  \/ /\ ~fault
     /\ \/ \E a \in Actors : ActorStep(a)
        \/ \E a \in Actors, t \in Tasks : Submit(a, t) \/ Drop(a, t)
        \/ \E a \in Clients, t \in Tasks :
              \/ MakeCompletionHandle(a, t) \/ DropCompletionHandle(a, t)
              \/ \E b \in Clients : CopyCompletionHandle(a, b, t) \/ MoveCompletionHandle(a, b, t)
              \/ \E u \in Tasks :
                    \/ AssignFromTaskHandle(a, t, u) \/ MoveAssignCompletionHandle(a, t, u)
                    \/ \E b \in Clients : CopyAssignCompletionHandle(a, b, t, u)
        \/ \E a \in Actors, e \in Edges : SetOrder(a, e[1], e[2])
        \/ \E e \in CanTransfer : Transfer(e[1], e[2])
        \/ \E t \in Tasks : Run(t) \/ CompleteTask(t)
  \/ Finished

(***************************************************************************)
(* Fairness: the scheduler runs every spawned task, a thread keeps taking  *)
(* steps of the operation it is in (the CAS loops are lock-free with a     *)
(* bounded number of competing writers), bodies end, and the program       *)
(* eventually submits every task_handle it holds.                          *)
(***************************************************************************)
Fairness ==
  /\ \A a \in Actors : WF_vars(~fault /\ ActorStep(a))
  /\ \A t \in Tasks : WF_vars(~fault /\ Run(t)) /\ WF_vars(~fault /\ CompleteTask(t))
  /\ \A t \in Tasks : WF_vars(~fault /\ Submit(Owner[t], t))

Spec == Init /\ [][Next]_vars /\ Fairness

(***************************************************************************)
(* Properties.                                                             *)
(***************************************************************************)

TypeOK ==
  /\ status \in [Tasks -> {"handle", "submitted", "spawned", "running", "done", "dropped"}]
  /\ stateOf \in [Tasks -> {"none", "live", "freed"}]
  /\ vtx \in [Tasks -> {"none", "live", "freed"}]
  /\ sref \in [Tasks -> Nat] /\ vref \in [Tasks -> Nat]
  /\ head \in [Tasks -> NodeIds \cup {Null, Completed}]
  /\ fwd \in [Tasks -> Tasks \cup {None}]
  /\ node \in [NodeIds -> {"unused", "live", "freed"}]
  /\ next \in [NodeIds -> NodeIds \cup {Null}]
  /\ ch \in [Actors -> [Tasks -> Nat]]

\* Single spawn: across every predecessor's release_successor_list, the
\* bypass return and release_continuation at submission, a task is handed
\* to the scheduler at most once.
SingleSpawn == \A t \in Tasks : spawned[t] <= 1

\* Happens-before: when set_task_order(p, s) returned before p's successors
\* were released (by p's complete_task, or by that of the task they were
\* transferred to), s is not spawned before that release.  A racing
\* complete_task or transfer may elide the edge only once p is resolved.
HappensBefore == \A e \in ordered : spawned[e[2]] > 0 => Resolved(e[1])

\* The nodes from n up to and including last.
RECURSIVE Segment(_, _)
Segment(n, last) == IF n = last THEN {n} ELSE {n} \cup Segment(next[n], last)

\* The nodes an actor holds privately: the node it inserts, the list it
\* exchanged out of a state and splices, or the rest of the list it drains.
InFlight(a) ==
  CASE pc[a] \in {"addNode", "cas"} -> {nd[a]}
    [] pc[a] \in {"spliceLoad", "spliceCas"} -> Segment(lst[a], nd[a])
    [] pc[a] = "drain" -> ListFrom(lst[a], {})
    [] OTHER -> {}

Holders(n) ==
  {<<"list", t>> : t \in {t \in Tasks : stateOf[t] = "live" /\ n \in ListFrom(head[t], {})}}
  \cup {<<"actor", a>> : a \in {a \in Actors : n \in InFlight(a)}}

\* Node ownership: every allocated successor_list_node is in exactly one
\* place, the list of one live state or the hands of one thread, and a
\* freed node is in none: concurrent pushes, the splice of a transferred
\* list and the exchanges that seal a list neither lose nor duplicate one.
NodeOwnership ==
  \A n \in NodeIds : Cardinality(Holders(n)) = IF node[n] = "live" THEN 1 ELSE 0

\* Vertex reference balance: a live continuation_vertex counts exactly the
\* reservation of its task's unsubmitted handle plus one per live node that
\* points to it, so it reaches zero exactly when the task is submitted and
\* every linked predecessor has released it.
VertexRefBalance ==
  \A s \in Tasks : vtx[s] = "live" =>
     vref[s] = (IF status[s] \in {"handle", "dropped"} THEN 1 ELSE 0)
               + Cardinality({n \in NodeIds : node[n] = "live" /\ nvtx[n] = s})

\* State reference balance: a live task_dynamic_state counts its task while
\* the task exists, every task_completion_handle on it, and every live state
\* that forwards to it.
StateRefBalance ==
  \A t \in Tasks : stateOf[t] = "live" =>
     sref[t] = (IF status[t] \in {"done", "dropped"} THEN 0 ELSE 1)
               + HandlesOn(t)
               + Cardinality({u \in Tasks : stateOf[u] = "live" /\ fwd[u] = t})

\* No use after free: a thread inside add_successor, add_successor_node or
\* add_successor_list works on a live state and a live vertex, a live node
\* points to a live vertex, a live state forwards to a live state, and the
\* vertex of a destroyed task never reaches zero (release_bypass would then
\* hand the destroyed task to the scheduler).
NoUseAfterFree ==
  /\ \A a \in Actors :
        pc[a] \in {"add", "addNode", "cas", "spliceLoad", "spliceCas"} => stateOf[cur[a]] = "live"
  /\ \A a \in Actors : pc[a] = "add" => vtx[opSucc[a]] = "live"
  /\ \A n \in NodeIds : node[n] = "live" => vtx[nvtx[n]] = "live"
  /\ \A t \in Tasks : stateOf[t] = "live" /\ fwd[t] /= None => stateOf[fwd[t]] = "live"
  /\ \A s \in Tasks : vtx[s] = "freed" => status[s] /= "dropped"

\* No leak: once nothing is in progress and no handle is held, every node,
\* continuation vertex and dynamic state has been freed by its last owner.
QuiescentNoLeak ==
  Quiescent =>
    /\ \A n \in NodeIds : node[n] /= "live"
    /\ \A t \in Tasks : vtx[t] /= "live" /\ stateOf[t] /= "live"

\* release_successor_list never walks the COMPLETED sentinel as a node,
\* i.e. complete_task never finds the head already sealed.
NoSentinelWalk == ~fault

\* Progress: every submitted task eventually runs and completes.
SubmittedTaskCompletes ==
  \A t \in Tasks : status[t] \in {"submitted", "spawned"} ~> status[t] = "done"

\* Termination of set_task_order: add_successor and add_successor_node
\* follow m_new_dynamic_state from a sealed head and start over on the
\* state it names; however long the forwarding chain and however the
\* transfers race the insertion, the call eventually returns.
OrderReturns ==
  \A a \in Actors : pc[a] \in {"add", "addNode", "cas"} ~> pc[a] = "idle"
(***************************************************************************)
(* Refinement: TaskGraph implements DependencyGraph.  A task waits for the *)
(* holder of every live node that points to its vertex: the state whose    *)
(* list holds the node, the target of a splice in progress, or the task    *)
(* draining it.  A node still being inserted is not yet an edge.  A        *)
(* transfer takes effect at its exchange, and set_task_order returns when  *)
(* its thread goes back to idle.                                           *)
(***************************************************************************)
\* Pairs <<t, n>>: the live node n is held for task t, on t's list, in a
\* splice onto t, or in the list t's body drains.
HeldNodes ==
  LET live(ns) == {n \in ns : node[n] = "live"}
  IN  UNION {{<<t, n>> : n \in live(ListFrom(head[t], {}))} : t \in Tasks}
      \cup UNION {{<<cur[a], n>> : n \in live(Segment(lst[a], nd[a]))} :
                    a \in {a \in Actors : pc[a] \in {"spliceLoad", "spliceCas"}}}
      \cup UNION {{<<a, n>> : n \in live(ListFrom(lst[a], {}))} :
                    a \in {a \in Tasks : pc[a] = "drain"}}

\* waiting[s]: the holders of the nodes that point to s's vertex.
Waiting ==
  LET h == HeldNodes
  IN  [s \in Tasks |-> {e[1] : e \in {e \in h : nvtx[e[2]] = s}}]

InProgress == {<<opPred[a], opSucc[a]>> : a \in {a \in Actors : pc[a] \in {"add", "addNode", "cas"}}}

FinishedMap == [t \in Tasks |-> sealed[t] \/ status[t] = "done"]
MovedMap == [t \in Tasks |-> IF pc[t] = "xchg" THEN None ELSE fwd[t]]
Returned == added \ InProgress

DG == INSTANCE DependencyGraph WITH
        waiting <- Waiting,
        finished <- FinishedMap,
        moved <- MovedMap,
        returned <- Returned

\* Every behaviour of the lists, vertices and forwarding pointers is a
\* behaviour of the dependency graph: set_task_order records exactly the
\* edges from unfinished predecessors (following transfers), a task is
\* spawned only with nothing left to wait for, and a body exits only after
\* releasing every successor.
\* It is DG!Spec with the stuttering disjunct written first: most steps of a
\* thread are internal, and TLC then decides them without evaluating DG!Next.
ImplementsDependencyGraph == DG!Init /\ [][UNCHANGED DG!vars \/ DG!Next]_DG!vars
=============================================================================
