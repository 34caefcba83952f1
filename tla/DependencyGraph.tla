--------------------------- MODULE DependencyGraph ---------------------------
(***************************************************************************)
(* What the task dependency core promises, without lists, nodes or        *)
(* reference counts (spec.md sections 2, 4.3 and 8).  A task waits for a   *)
(* set of predecessors.  set_task_order(p, s) on an unsubmitted s makes s  *)
(* wait for p, or for the task p's successors were moved to, unless that  *)
(* task has already finished its body.  A finished task releases each of   *)
(* its waiters; a submitted task with nothing left to wait for is handed   *)
(* to the scheduler, by the release that emptied its set, by its own       *)
(* submission, or as the bypass task of the predecessor that exits.        *)
(***************************************************************************)
EXTENDS FiniteSets

CONSTANTS Tasks, Edges, None

VARIABLES
  status,    \* handle, submitted, spawned, running, done, dropped
  waiting,   \* waiting[s]: the tasks s still waits for
  finished,  \* the task's body has ended (its successors are sealed)
  moved,     \* the task its successors were transferred to, or None
  returned   \* the set_task_order calls that have returned

vars == <<status, waiting, finished, moved, returned>>

\* The task that holds p's successors now.
RECURSIVE Target(_)
Target(p) == IF moved[p] /= None THEN Target(moved[p]) ELSE p

Init ==
  /\ status = [t \in Tasks |-> "handle"]
  /\ waiting = [t \in Tasks |-> {}]
  /\ finished = [t \in Tasks |-> FALSE]
  /\ moved = [t \in Tasks |-> None]
  /\ returned = {}

Order(p, s) ==
  /\ <<p, s>> \in Edges \ returned
  /\ status[s] = "handle"
  /\ returned' = returned \cup {<<p, s>>}
  /\ waiting' = IF finished[Target(p)] THEN waiting
                ELSE [waiting EXCEPT ![s] = @ \cup {Target(p)}]
  /\ UNCHANGED <<status, finished, moved>>

Submit(s) ==
  /\ status[s] = "handle"
  /\ status' = [status EXCEPT ![s] = IF waiting[s] = {} THEN "spawned" ELSE "submitted"]
  /\ UNCHANGED <<waiting, finished, moved, returned>>

Drop(s) ==
  /\ status[s] = "handle"
  /\ status' = [status EXCEPT ![s] = "dropped"]
  /\ UNCHANGED <<waiting, finished, moved, returned>>

Run(t) ==
  /\ status[t] = "spawned"
  /\ status' = [status EXCEPT ![t] = "running"]
  /\ UNCHANGED <<waiting, finished, moved, returned>>

\* A running body hands its successors over to a task it holds.
Transfer(t, u) ==
  /\ status[t] = "running" /\ ~finished[t] /\ moved[t] = None
  /\ status[u] = "handle" /\ u /= t
  /\ moved' = [moved EXCEPT ![t] = u]
  /\ waiting' = [s \in Tasks |-> IF t \in waiting[s] THEN (waiting[s] \ {t}) \cup {u}
                                 ELSE waiting[s]]
  /\ UNCHANGED <<status, finished, returned>>

Finish(t) ==
  /\ status[t] = "running" /\ ~finished[t]
  /\ finished' = [finished EXCEPT ![t] = TRUE]
  /\ UNCHANGED <<status, waiting, moved, returned>>

\* A finished task releases one waiter, which may be spawned at once when
\* it has been submitted and waits for nothing else.
Release(p, s) ==
  /\ finished[p] /\ p \in waiting[s]
  /\ waiting' = [waiting EXCEPT ![s] = @ \ {p}]
  /\ \/ UNCHANGED status
     \/ /\ waiting'[s] = {} /\ status[s] = "submitted"
        /\ status' = [status EXCEPT ![s] = "spawned"]
  /\ UNCHANGED <<finished, moved, returned>>

\* A body that has released all its waiters ends, handing at most one ready
\* submitted task to the scheduler by bypass.
Exit(t) ==
  /\ status[t] = "running"
  /\ \A s \in Tasks : t \notin waiting[s]
  /\ finished' = [finished EXCEPT ![t] = TRUE]
  /\ \/ status' = [status EXCEPT ![t] = "done"]
     \/ \E b \in Tasks \ {t} :
           /\ status[b] = "submitted" /\ waiting[b] = {}
           /\ status' = [status EXCEPT ![t] = "done", ![b] = "spawned"]
  /\ UNCHANGED <<waiting, moved, returned>>

Next ==
  \/ \E p, s \in Tasks : Order(p, s) \/ Release(p, s) \/ Transfer(p, s)
  \/ \E t \in Tasks : Submit(t) \/ Drop(t) \/ Run(t) \/ Finish(t) \/ Exit(t)

Spec == Init /\ [][Next]_vars
=============================================================================
