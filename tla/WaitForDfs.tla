----------------------------- MODULE WaitForDfs -----------------------------
(***************************************************************************)
(* The search of mutex_guard.c, step by step: dfs and the loop over it     *)
(* that MutexGuard_Take, MutexGuard_DetectDeadlock and                     *)
(* MutexGuard_PrintStatus share.  It runs under s_guard, so the graph does *)
(* not change while it runs; the recursion is a stack of frames, each with *)
(* the mutex dfs was called on and the position of its loop over s_wait.   *)
(***************************************************************************)
EXTENDS WaitForGraph, FiniteSets

CONSTANTS Tasks,        \* the tasks of the graph
          MutexCount    \* s_mutex_count

ASSUME NoTaskAssumption     == NoTask \notin Tasks
ASSUME MutexCountAssumption == MutexCount \in Nat

Nodes == 0 .. MutexCount - 1

VARIABLES
  owner,     \* s_mutexes[m].owner
  edges,     \* s_wait[0 .. s_wait_count - 1]
  root,      \* the counter of the loop over dfs(i)
  stack,     \* the frames of dfs, the innermost last
  visited,   \* the mutexes whose s_visited is set
  inStack,   \* the mutexes whose s_in_stack is set
  answer     \* "unknown", then "deadlock" or "none"

graph  == << owner, edges >>
search == << root, stack, visited, inStack, answer >>
vars   == << owner, edges, root, stack, visited, inStack, answer >>

(* The tables a guarded section can find: a task waits for one mutex.      *)
Tables ==
  {table \in UNION {[1 .. n -> [waiter : Tasks, mutex_idx : Nodes]] :
                      n \in 0 .. Cardinality(Tasks)} :
     \A i, j \in 1 .. Len(table) : table[i].waiter = table[j].waiter => i = j}

Init ==
  /\ owner   \in [Nodes -> Tasks \cup {NoTask}]
  /\ edges   \in Tables
  /\ root    = 0
  /\ stack   = << >>
  /\ visited = {}
  /\ inStack = {}
  /\ answer  = "unknown"

Frame(m) == [node |-> m, pos |-> 1]
Top      == stack[Len(stack)]
Callers  == [k \in 1 .. Len(stack) - 1 |-> stack[k]]

(* The frames after the innermost loop has moved past its entry. *)
Advanced == [stack EXCEPT ![Len(stack)].pos = @ + 1]

(* The call of dfs(m), with frames already on the stack: its two tests and *)
(* its two marks.  A back-edge unwinds every frame with "true" and leaves  *)
(* the marks as they are.                                                  *)
BackEdge(m) ==
  /\ m \in inStack
  /\ answer' = "deadlock"
  /\ stack'  = << >>
  /\ UNCHANGED << visited, inStack >>

(* A slip in the next operator: the loop does not go on after it. *)
RevisitAgain(m, frames) ==
  /\ m \in visited \ inStack
  /\ UNCHANGED << stack, visited, inStack, answer >>

Revisit(m, frames) ==
  /\ m \in visited \ inStack
  /\ stack' = frames
  /\ UNCHANGED << visited, inStack, answer >>

(* A slip in the next operator: no mark is set. *)
DescendUnmarked(m, frames) ==
  /\ m \notin visited \cup inStack
  /\ stack' = Append(frames, Frame(m))
  /\ UNCHANGED << visited, inStack, answer >>

Descend(m, frames) ==
  /\ m \notin visited \cup inStack
  /\ visited' = visited \cup {m}
  /\ inStack' = inStack \cup {m}
  /\ stack'   = Append(frames, Frame(m))
  /\ UNCHANGED answer

-----------------------------------------------------------------------------
(* The loop over the roots, which stops at the first cycle.  No frame is   *)
(* left between two roots and so no mark in s_in_stack; were one left, a   *)
(* root would be stuck here, which TLC would report as a deadlock.         *)

(* A slip in the next action: one root too many. *)
StartRootPastEnd ==
  /\ answer = "unknown" /\ stack = << >>
  /\ root <= MutexCount
  /\ root \notin visited
  /\ Descend(root, << >>)
  /\ root' = root + 1
  /\ UNCHANGED graph

StartRoot ==
  /\ answer = "unknown" /\ stack = << >>
  /\ root < MutexCount
  /\ root \notin visited
  /\ Descend(root, << >>)
  /\ root' = root + 1
  /\ UNCHANGED graph

SkipRoot ==
  /\ answer = "unknown" /\ stack = << >>
  /\ root < MutexCount
  /\ root \in visited
  /\ root' = root + 1
  /\ UNCHANGED << graph, stack, visited, inStack, answer >>

NoRootLeft ==
  /\ answer = "unknown" /\ stack = << >>
  /\ root = MutexCount
  /\ answer' = "none"
  /\ UNCHANGED << graph, root, stack, visited, inStack >>

-----------------------------------------------------------------------------
(* The loop of the innermost dfs over s_wait. *)

(* A slip in the next operator: the last edge is never looked at. *)
LookingShort ==
  /\ stack # << >>
  /\ owner[Top.node] # NoTask
  /\ Top.pos < Len(edges)

Looking ==
  /\ stack # << >>
  /\ owner[Top.node] # NoTask
  /\ Top.pos <= Len(edges)

Mine == edges[Top.pos].waiter = owner[Top.node]

Follow ==
  /\ Looking /\ Mine
  /\ LET m == edges[Top.pos].mutex_idx IN
     BackEdge(m) \/ Revisit(m, Advanced) \/ Descend(m, Advanced)
  /\ UNCHANGED << graph, root >>

PassOver ==
  /\ Looking /\ ~Mine
  /\ stack' = Advanced
  /\ UNCHANGED << graph, root, visited, inStack, answer >>

(* A slip in the next action: s_in_stack stays set. *)
BacktrackMarked ==
  /\ stack # << >>
  /\ ~Looking
  /\ stack' = Callers
  /\ UNCHANGED << graph, root, visited, inStack, answer >>

Backtrack ==
  /\ stack # << >>
  /\ ~Looking
  /\ inStack' = inStack \ {Top.node}
  /\ stack'   = Callers
  /\ UNCHANGED << graph, root, visited, answer >>

-----------------------------------------------------------------------------
Done == answer # "unknown" /\ UNCHANGED vars

Next ==
  \/ StartRoot
  \/ SkipRoot
  \/ NoRootLeft
  \/ Follow
  \/ PassOver
  \/ Backtrack
  \/ Done

Spec     == Init /\ [][Next]_vars
FairSpec == Spec /\ WF_vars(Next)

-----------------------------------------------------------------------------
(* Properties *)

TypeOK ==
  /\ owner   \in [Nodes -> Tasks \cup {NoTask}]
  /\ edges   \in Seq([waiter : Tasks, mutex_idx : Nodes])
  /\ root    \in 0 .. MutexCount
  /\ stack   \in Seq([node : Nodes, pos : Nat])
  /\ visited \subseteq Nodes
  /\ inStack \subseteq Nodes
  /\ answer  \in {"unknown", "deadlock", "none"}

(* The search answers the question that was asked: it reports a deadlock   *)
(* exactly when some mutexes lead only into one another.  Marks left by an *)
(* earlier root neither hide a cycle nor make up one.                      *)
AnswerIsExact ==
  /\ answer = "deadlock" => HasCycle(Nodes, owner, edges)
  /\ answer = "none"     => ~HasCycle(Nodes, owner, edges)

(* dfs is recursive and runs on the stack of whichever task takes a mutex: *)
(* it is never on the same mutex twice, so it is at most MAX_MUTEXES deep. *)
RecursionIsShallow ==
  /\ \A j, k \in 1 .. Len(stack) : stack[j].node = stack[k].node => j = k
  /\ Len(stack) <= MutexCount

(* What lies behind the search is settled: from a mutex that was visited   *)
(* and left, one only gets to others like it.                              *)
FinishedIsClosed ==
  \A m \in visited \ inStack, n \in Nodes :
    LeadsInto(m, {n}, owner, edges) => n \in visited \ inStack

(* The search ends, whatever the graph: s_guard is not kept for ever.      *)
SearchEnds == <>(answer # "unknown")
=============================================================================
