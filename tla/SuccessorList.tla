---------------------------- MODULE SuccessorList ----------------------------
(***************************************************************************)
(* The drain loop of release_successor_list (_task_handle.h, lines        *)
(* 375-393), run by one thread on a list it owns, for every list of at     *)
(* most MaxLen nodes over the successor vertices.  A vertex may occur more *)
(* than once (set_task_order called more than once for the same pair), and *)
(* its count may hold one more reference than its nodes in the list (the   *)
(* reservation of a task_handle not yet submitted, or a node of another    *)
(* predecessor).  Each iteration reads the next node, calls release_bypass *)
(* on its vertex, finalizes the node and keeps the first task returned for *)
(* bypass, spawning the others.  The concurrent drains of several lists    *)
(* are in TaskGraph; here the order the loop hands tasks out is checked    *)
(* against a recursive reference definition.                               *)
(***************************************************************************)
EXTENDS Naturals, Sequences, SequencesExt

CONSTANTS
  Vertices,  \* continuation vertices the nodes point to
  MaxLen,    \* bound on the length of the drained list
  None       \* nullptr: no task returned yet

VARIABLES
  input,     \* the list handed to release_successor_list, head first
  ref0,      \* the vertices' reference counts when the drain starts
  list,      \* node: the part of the list not yet drained
  vref,      \* the vertices' reference counts
  nextTask,  \* next_task: the task kept for bypass
  spawned    \* the tasks passed to d1::spawn, in order

vars == <<input, ref0, list, vref, nextTask, spawned>>

Occurrences(s, v) == Cardinality({i \in DOMAIN s : s[i] = v})

\* Every list of at most MaxLen nodes, and every count the vertices can
\* have: one per node in the list, and possibly one reference more.
Init ==
  /\ input \in BoundedSeq(Vertices, MaxLen)
  /\ ref0 \in {r \in [Vertices -> 0..MaxLen + 1] :
                 \A v \in Vertices : r[v] - Occurrences(input, v) \in {0, 1}}
  /\ list = input
  /\ vref = ref0
  /\ nextTask = None
  /\ spawned = <<>>

\* Mutant: the loop forgets node = next_node and drains the same node again.
DrainNodeNoAdvance ==
  /\ list /= <<>>
  /\ LET v == Head(list)
         r == vref[v] - 1
     IN  /\ vref' = [vref EXCEPT ![v] = r]
         /\ nextTask' = IF r = 0 /\ nextTask = None THEN v ELSE nextTask
         /\ spawned' = IF r = 0 /\ nextTask /= None THEN Append(spawned, v) ELSE spawned
  /\ UNCHANGED <<input, ref0, list>>

\* Mutant: each ready task replaces the bypass candidate, which is spawned.
DrainNodeLastBypass ==
  /\ list /= <<>>
  /\ LET v == Head(list)
         r == vref[v] - 1
     IN  /\ vref' = [vref EXCEPT ![v] = r]
         /\ nextTask' = IF r = 0 THEN v ELSE nextTask
         /\ spawned' = IF r = 0 /\ nextTask /= None THEN Append(spawned, nextTask) ELSE spawned
  /\ list' = Tail(list)
  /\ UNCHANGED <<input, ref0>>

\* One iteration of the while loop: release_bypass decrements the vertex's
\* count and returns its task when the count reaches zero; the node is
\* finalized and the loop moves to next_node.  The first task returned is
\* kept in next_task, each later one is spawned.
DrainNode ==
  /\ list /= <<>>
  /\ LET v == Head(list)
         r == vref[v] - 1
     IN  /\ vref' = [vref EXCEPT ![v] = r]
         /\ nextTask' = IF r = 0 /\ nextTask = None THEN v ELSE nextTask
         /\ spawned' = IF r = 0 /\ nextTask /= None THEN Append(spawned, v) ELSE spawned
  /\ list' = Tail(list)
  /\ UNCHANGED <<input, ref0>>

Next == DrainNode

\* The loop ends at nullptr, where the function returns next_task.
Spec == Init /\ [][Next]_vars

(***************************************************************************)
(* Reference: a vertex becomes ready at its last node in the list, when    *)
(* the list holds all of its references.  The tasks are handed out in the  *)
(* order they become ready.                                                *)
(***************************************************************************)
ReadyAtLast(s, v) == v \notin Range(s) /\ ref0[v] = Occurrences(input, v)

RECURSIVE ReadyInOrder(_)
ReadyInOrder(s) ==
  IF s = <<>> THEN <<>>
  ELSE (IF ReadyAtLast(Tail(s), Head(s)) THEN <<Head(s)>> ELSE <<>>)
       \o ReadyInOrder(Tail(s))

TypeOK ==
  /\ input \in BoundedSeq(Vertices, MaxLen) /\ list \in BoundedSeq(Vertices, MaxLen)
  /\ vref \in [Vertices -> Nat] /\ ref0 \in [Vertices -> Nat]
  /\ nextTask \in Vertices \cup {None}
  /\ spawned \in BoundedSeq(Vertices, MaxLen)

\* When release_successor_list returns, it has returned for bypass the
\* first successor whose count reached zero and spawned every other one,
\* each exactly once and in list order, and no successor that still holds
\* a reference: a task is neither lost, run twice, nor run early.
DrainMatchesReference ==
  list = <<>> =>
    LET ready == ReadyInOrder(input)
    IN  IF ready = <<>> THEN nextTask = None /\ spawned = <<>>
        ELSE nextTask = Head(ready) /\ spawned = Tail(ready)
=============================================================================
