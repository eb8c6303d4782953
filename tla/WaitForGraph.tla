---------------------------- MODULE WaitForGraph ----------------------------
(***************************************************************************)
(* The wait-for graph of mutex_guard.c, as constant operators.  A node is  *)
(* a mutex index.  There is an edge from m to n when the recorded owner of *)
(* m has an entry in the wait table (s_wait) that names n.                 *)
(*                                                                         *)
(* The code looks for a cycle with a depth-first search; here a cycle is   *)
(* defined by what it is, a non-empty set of mutexes each of which leads   *)
(* back into the set.  WaitForDfs checks that the search computes it.      *)
(***************************************************************************)
EXTENDS Naturals, Sequences

CONSTANT NoTask    \* the NULL task handle

(* An entry of s_wait: a task and the index of the mutex it waits on. *)
WaitEdge(t, idx) == [waiter |-> t, mutex_idx |-> idx]

(* The owner of m is waiting for a mutex of S. *)
LeadsInto(m, S, own, edges) ==
  /\ own[m] # NoTask
  /\ \E i \in 1 .. Len(edges) : /\ edges[i].waiter = own[m]
                                /\ edges[i].mutex_idx \in S

(* What the loop over dfs(i), i < s_mutex_count, answers. *)
HasCycle(nodes, own, edges) ==
  \E S \in SUBSET nodes : /\ S # {}
                          /\ \A m \in S : LeadsInto(m, S, own, edges)

(* s_wait_count-- with nothing else touched: the last entry is dropped. *)
DropLast(edges) == [i \in 1 .. Len(edges) - 1 |-> edges[i]]

(* s_wait[i] = s_wait[--s_wait_count] at the first entry that matches:     *)
(* the last entry moves into the hole, so the order is not kept.           *)
Matching(edges, e) == {i \in 1 .. Len(edges) : edges[i] = e}

(* A slip: the count goes down and the last entry is not moved. *)
RemoveLastEdge(edges, e) ==
  IF Matching(edges, e) = {} THEN edges ELSE DropLast(edges)

RemoveEdge(edges, e) ==
  IF Matching(edges, e) = {}
  THEN edges
  ELSE LET hole == CHOOSE i \in Matching(edges, e) :
                     \A j \in Matching(edges, e) : i <= j
       IN  [i \in 1 .. Len(edges) - 1 |->
              IF i = hole THEN edges[Len(edges)] ELSE edges[i]]
=============================================================================
