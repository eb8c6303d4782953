-------------------------- MODULE WaitForDfsProofs --------------------------
(***************************************************************************)
(* The search of mutex_guard.c is right on every graph: for any number of  *)
(* tasks, mutexes and wait entries it answers exactly whether there is a   *)
(* cycle, and is never deeper than there are mutexes.  The argument: the   *)
(* frames are a path without repetition, so a marked node met again closes *)
(* a cycle; a node is left only when all it leads to has been left before, *)
(* so what was left never gets a cycle.                                    *)
(***************************************************************************)
EXTENDS WaitForDfs, TLAPS, FiniteSetTheorems

(* What a frame is; its loop starts at the first entry. *)
Frames == [node : Nodes, pos : Nat \ {0}]

Framed == stack \in Seq(Frames)

(* The nodes that were visited and left. *)
Finished == visited \ inStack

(* Edge i belongs to the owner of node m. *)
Edge(m, i) ==
  /\ owner[m] # NoTask
  /\ i \in 1 .. Len(edges)
  /\ edges[i].waiter = owner[m]

-----------------------------------------------------------------------------
(* The inductive invariant. *)

(* While the search is on, the marks of s_in_stack are those of the frames.*)
Marks ==
  /\ inStack \subseteq visited
  /\ answer = "unknown" => inStack = {stack[k].node : k \in 1 .. Len(stack)}

(* Each frame was called from the one below it, through an edge. *)
Path ==
  \A k \in 1 .. Len(stack) - 1 :
    LeadsInto(stack[k].node, {stack[k + 1].node}, owner, edges)

Distinct == \A j, k \in 1 .. Len(stack) : stack[j].node = stack[k].node => j = k

(* What a frame has looked at is left, but for the frame it has called.    *)
Looked ==
  \A k \in 1 .. Len(stack) : \A i \in 1 .. stack[k].pos - 1 :
    Edge(stack[k].node, i) =>
      \/ edges[i].mutex_idx \in Finished
      \/ k < Len(stack) /\ edges[i].mutex_idx = stack[k + 1].node

RootsVisited == \A m \in Nodes : m < root => m \in visited

(* Among the nodes that were left there is no cycle. *)
NoCycleBehind == ~ HasCycle(Finished, owner, edges)

(* Once there is an answer no frame is left. *)
Unwound == answer # "unknown" => stack = << >>

SearchInv ==
  /\ TypeOK /\ Framed /\ Marks /\ Path /\ Distinct /\ Looked /\ RootsVisited
  /\ FinishedIsClosed /\ NoCycleBehind /\ Unwound /\ AnswerIsExact

-----------------------------------------------------------------------------
(* Lemmas about sequences. *)

LEMMA ElementOf ==
  ASSUME NEW T, NEW s \in Seq(T), NEW i \in 1 .. Len(s)
  PROVE  s[i] \in T
OBVIOUS

LEMMA FunctionIsSeq ==
  ASSUME NEW T, NEW n \in Nat, NEW s \in [1 .. n -> T]
  PROVE  s \in Seq(T)
OBVIOUS

LEMMA SeqMonotone ==
  ASSUME NEW S, NEW T, S \subseteq T
  PROVE  Seq(S) \subseteq Seq(T)
<1> SUFFICES ASSUME NEW s \in Seq(S) PROVE s \in Seq(T)
  OBVIOUS
<1>1. Len(s) \in Nat /\ s \in [1 .. Len(s) -> T]
  OBVIOUS
<1> QED BY <1>1, FunctionIsSeq

-----------------------------------------------------------------------------
(* Lemmas about the frames. *)

LEMMA AdvancedFrames ==
  ASSUME stack \in Seq(Frames), stack # << >>
  PROVE  /\ Advanced \in Seq(Frames)
         /\ Len(Advanced) = Len(stack)
         /\ \A k \in 1 .. Len(stack) : Advanced[k].node = stack[k].node
         /\ \A k \in 1 .. Len(stack) - 1 : Advanced[k] = stack[k]
         /\ Advanced[Len(stack)].pos = Top.pos + 1
<1> DEFINE up == [Top EXCEPT !.pos = Top.pos + 1]
<1>1. Len(stack) \in 1 .. Len(stack) /\ Top = stack[Len(stack)] /\ Top \in Frames
  BY DEF Top
<1>2. Advanced = [stack EXCEPT ![Len(stack)] = up]
  BY <1>1 DEF Advanced
<1>3. up \in Frames /\ up.node = Top.node /\ up.pos = Top.pos + 1
  BY <1>1 DEF Frames
<1> HIDE DEF up
<1>4. Advanced \in Seq(Frames) /\ Len(Advanced) = Len(stack)
  BY <1>1, <1>2, <1>3
<1>5. \A k \in 1 .. Len(stack) : Advanced[k] = IF k = Len(stack) THEN up ELSE stack[k]
  BY <1>1, <1>2
<1> QED BY <1>1, <1>3, <1>4, <1>5

LEMMA CallersFrames ==
  ASSUME stack \in Seq(Frames), stack # << >>
  PROVE  /\ Callers \in Seq(Frames)
         /\ Len(Callers) = Len(stack) - 1
         /\ \A k \in 1 .. Len(stack) - 1 : Callers[k] = stack[k]
<1>1. Len(stack) - 1 \in Nat
  OBVIOUS
<1>2. Callers \in [1 .. Len(stack) - 1 -> Frames]
  BY DEF Callers
<1> QED BY <1>1, <1>2 DEF Callers

LEMMA PushedFrames ==
  ASSUME NEW s \in Seq(Frames), NEW m \in Nodes
  PROVE  /\ Append(s, Frame(m)) \in Seq(Frames)
         /\ Len(Append(s, Frame(m))) = Len(s) + 1
         /\ \A k \in 1 .. Len(s) : Append(s, Frame(m))[k] = s[k]
         /\ Append(s, Frame(m))[Len(s) + 1].node = m
         /\ Append(s, Frame(m))[Len(s) + 1].pos = 1
BY DEF Frame, Frames

(* The graph does not change: what leads where before leads there after.   *)
LEMMA GraphStays ==
  ASSUME UNCHANGED graph
  PROVE  /\ owner' = owner /\ edges' = edges
         /\ \A m, i : Edge(m, i)' <=> Edge(m, i)
BY DEF graph, Edge

(* What HasCycle says of the union of a set that has no cycle and leads    *)
(* only into itself, and one more node that leads only into that set.      *)
LEMMA NoNewCycle ==
  ASSUME NEW F \in SUBSET Nodes, NEW m \in Nodes \ F,
         ~ HasCycle(F, owner, edges),
         \A n \in F, k \in Nodes : LeadsInto(n, {k}, owner, edges) => k \in F,
         \A k \in Nodes : LeadsInto(m, {k}, owner, edges) => k \in F,
         edges \in Seq([waiter : Tasks, mutex_idx : Nodes])
  PROVE  ~ HasCycle(F \cup {m}, owner, edges)
<1> SUFFICES ASSUME NEW S \in SUBSET (F \cup {m}), S # {},
                    \A n \in S : LeadsInto(n, S, owner, edges)
             PROVE  FALSE
  BY DEF HasCycle
<1>1. \A n \in S : \E k \in S : LeadsInto(n, {k}, owner, edges)
  BY DEF LeadsInto
<1>2. \A n \in S : \E k \in S \ {m} : LeadsInto(n, {k}, owner, edges)
  BY <1>1
<1>3. S \ {m} \in SUBSET F /\ S \ {m} # {}
  BY <1>2
<1>4. ASSUME NEW n \in S \ {m} PROVE LeadsInto(n, S \ {m}, owner, edges)
  <2>1. PICK k \in S \ {m} : LeadsInto(n, {k}, owner, edges)
    BY <1>2
  <2> QED BY <2>1 DEF LeadsInto
<1> QED BY <1>3, <1>4 DEF HasCycle

-----------------------------------------------------------------------------
(* The steps. *)

LEMMA TypeFacts ==
  ASSUME TypeOK, Framed
  PROVE  /\ stack \in Seq(Frames)
         /\ edges \in Seq([waiter : Tasks, mutex_idx : Nodes])
         /\ \A k \in 1 .. Len(stack) : stack[k].node \in Nodes /\ stack[k].pos \in Nat \ {0}
         /\ \A i \in 1 .. Len(edges) : edges[i].mutex_idx \in Nodes
<1>1. stack \in Seq(Frames) /\ edges \in Seq([waiter : Tasks, mutex_idx : Nodes])
  BY DEF TypeOK, Framed
<1>2. \A k \in 1 .. Len(stack) : stack[k] \in Frames
  BY <1>1
<1>3. \A i \in 1 .. Len(edges) : edges[i] \in [waiter : Tasks, mutex_idx : Nodes]
  BY <1>1, ElementOf
<1> QED BY <1>1, <1>2, <1>3 DEF Frames

LEMMA FrameTypes == Seq(Frames) \subseteq Seq([node : Nodes, pos : Nat])
<1> Frames \subseteq [node : Nodes, pos : Nat]
  BY DEF Frames
<1> QED BY SeqMonotone

(* dfs(m) sets its marks and gets a frame. *)
LEMMA DescendKeeps ==
  ASSUME SearchInv, answer = "unknown", NEW m \in Nodes, NEW s \in Seq(Frames),
         Len(s) = Len(stack),
         \A k \in 1 .. Len(s) : s[k].node = stack[k].node,
         \A k \in 1 .. Len(s) : \A i \in 1 .. s[k].pos - 1 :
           Edge(s[k].node, i) =>
             \/ edges[i].mutex_idx \in Finished
             \/ k < Len(s) /\ edges[i].mutex_idx = s[k + 1].node
             \/ k = Len(s) /\ edges[i].mutex_idx = m,
         Len(s) # 0 => LeadsInto(s[Len(s)].node, {m}, owner, edges),
         Descend(m, s), UNCHANGED graph,
         root' \in 0 .. MutexCount,
         \A n \in Nodes : n < root' => n \in visited'
  PROVE  SearchInv'
<1> DEFINE t == Append(s, Frame(m))
<1>1. /\ m \notin visited /\ m \notin inStack
      /\ visited' = visited \cup {m} /\ inStack' = inStack \cup {m}
      /\ stack' = t /\ answer' = answer
  BY DEF Descend
<1>2. /\ t \in Seq(Frames)
      /\ Len(t) = Len(s) + 1
      /\ \A k \in 1 .. Len(s) : t[k] = s[k]
      /\ t[Len(s) + 1].node = m /\ t[Len(s) + 1].pos = 1
  BY PushedFrames
<1> HIDE DEF t
<1>3. owner' = owner /\ edges' = edges /\ \A n, i : Edge(n, i)' <=> Edge(n, i)
  BY GraphStays
<1>4. TypeOK' /\ Framed'
  BY <1>1, <1>2, <1>3, FrameTypes DEF SearchInv, TypeOK, Framed
<1>5. \A k \in 1 .. Len(s) : t[k].node = stack[k].node /\ t[k].node \in inStack
  BY <1>2 DEF SearchInv, Marks
<1>6. Len(s) \in Nat
  OBVIOUS
<1>7. Marks'
  <2>1. inStack = {stack[k].node : k \in 1 .. Len(stack)}
    BY DEF SearchInv, Marks
  <2>2. inStack \cup {m} = {t[k].node : k \in 1 .. Len(t)}
    BY <1>2, <1>5, <1>6, <2>1
  <2> QED BY <1>1, <2>2 DEF SearchInv, Marks
<1>8. Path'
  <2> SUFFICES ASSUME NEW k \in 1 .. Len(t) - 1
               PROVE  LeadsInto(t[k].node, {t[k + 1].node}, owner, edges)
    BY <1>1, <1>3 DEF Path
  <2>1. CASE k = Len(s)
    <3>1. Len(s) # 0 /\ t[k] = s[k] /\ t[k + 1].node = m
      BY <1>2, <1>6, <2>1
    <3> QED BY <2>1, <3>1
  <2>2. CASE k # Len(s)
    <3>1. k \in 1 .. Len(stack) - 1 /\ k \in 1 .. Len(s) /\ k + 1 \in 1 .. Len(s)
      BY <1>2, <1>6, <2>2
    <3> QED BY <1>5, <3>1 DEF SearchInv, Path
  <2> QED BY <2>1, <2>2
<1>9. Distinct'
  <2> SUFFICES ASSUME NEW j \in 1 .. Len(t), NEW k \in 1 .. Len(t), t[j].node = t[k].node
               PROVE  j = k
    BY <1>1 DEF Distinct
  <2>1. \A i \in 1 .. Len(s) : t[i].node # m
    BY <1>1, <1>5
  <2> QED BY <1>2, <1>5, <1>6, <2>1 DEF SearchInv, Distinct
<1>10. Finished' = Finished
  BY <1>1 DEF Finished
<1>11. Looked'
  <2> SUFFICES ASSUME NEW k \in 1 .. Len(t), NEW i \in 1 .. t[k].pos - 1,
                      Edge(t[k].node, i)
               PROVE  \/ edges[i].mutex_idx \in Finished
                      \/ k < Len(t) /\ edges[i].mutex_idx = t[k + 1].node
    BY <1>1, <1>3, <1>10 DEF Looked
  <2>1. k \in 1 .. Len(s)
    BY <1>2, <1>6
  <2>2. t[k] = s[k]
    BY <1>2, <2>1
  <2>3. \/ edges[i].mutex_idx \in Finished
        \/ k < Len(s) /\ edges[i].mutex_idx = s[k + 1].node
        \/ k = Len(s) /\ edges[i].mutex_idx = m
    BY <2>1, <2>2
  <2>4. k < Len(s) => k + 1 \in 1 .. Len(s)
    BY <1>6
  <2> QED BY <1>2, <1>6, <2>3, <2>4
<1>12. FinishedIsClosed'
  BY <1>1, <1>3, <1>10 DEF SearchInv, FinishedIsClosed, Finished
<1>13. NoCycleBehind'
  BY <1>3, <1>10 DEF SearchInv, NoCycleBehind
<1>14. RootsVisited' /\ Unwound' /\ AnswerIsExact'
  BY <1>1 DEF SearchInv, RootsVisited, Unwound, AnswerIsExact
<1> QED BY <1>4, <1>7, <1>8, <1>9, <1>11, <1>12, <1>13, <1>14 DEF SearchInv

(* The loop of the innermost frame goes on past an entry that leads to     *)
(* nothing new.                                                            *)
LEMMA AdvanceKeeps ==
  ASSUME SearchInv, stack # << >>,
         Edge(Top.node, Top.pos) => edges[Top.pos].mutex_idx \in Finished,
         stack' = Advanced,
         UNCHANGED << graph, root, visited, inStack, answer >>
  PROVE  SearchInv'
<1> DEFINE t == Advanced
<1>1. stack \in Seq(Frames)
  BY TypeFacts DEF SearchInv
<1>2. /\ t \in Seq(Frames) /\ Len(t) = Len(stack)
      /\ \A k \in 1 .. Len(stack) : t[k].node = stack[k].node
      /\ \A k \in 1 .. Len(stack) - 1 : t[k] = stack[k]
      /\ t[Len(stack)].pos = Top.pos + 1
  BY <1>1, AdvancedFrames
<1>3. stack' = t
  OBVIOUS
<1> HIDE DEF t
<1>4. owner' = owner /\ edges' = edges /\ \A n, i : Edge(n, i)' <=> Edge(n, i)
  BY GraphStays
<1>5. Len(stack) \in Nat \ {0} /\ Top = stack[Len(stack)] /\ Top.pos \in Nat
  <2>1. Len(stack) \in Nat \ {0} /\ Top = stack[Len(stack)] /\ Top \in Frames
    BY <1>1 DEF Top
  <2> QED BY <2>1 DEF Frames
<1>6. Finished' = Finished
  BY DEF Finished
<1>7. TypeOK' /\ Framed'
  BY <1>2, <1>3, <1>4, FrameTypes DEF SearchInv, TypeOK, Framed
<1>8. Marks'
  <2>1. {t[k].node : k \in 1 .. Len(t)} = {stack[k].node : k \in 1 .. Len(stack)}
    BY <1>2
  <2> QED BY <1>3, <2>1 DEF SearchInv, Marks
<1>9. Path' /\ Distinct'
  <2>1. \A k \in 1 .. Len(t) - 1 : k \in 1 .. Len(stack) /\ k + 1 \in 1 .. Len(stack)
    BY <1>2, <1>5
  <2> QED BY <1>2, <1>3, <1>4, <2>1 DEF SearchInv, Path, Distinct
<1>10. Looked'
  <2> SUFFICES ASSUME NEW k \in 1 .. Len(t), NEW i \in 1 .. t[k].pos - 1,
                      Edge(t[k].node, i)
               PROVE  \/ edges[i].mutex_idx \in Finished
                      \/ k < Len(t) /\ edges[i].mutex_idx = t[k + 1].node
    BY <1>3, <1>4, <1>6 DEF Looked
  <2>1. CASE k < Len(stack)
    <3>1. k \in 1 .. Len(stack) - 1 /\ k + 1 \in 1 .. Len(stack)
      BY <1>5, <2>1
    <3> QED BY <1>2, <2>1, <3>1 DEF SearchInv, Looked
  <2>2. CASE k = Len(stack) /\ i = Top.pos
    BY <1>2, <1>5, <2>2
  <2>3. CASE k = Len(stack) /\ i # Top.pos
    <3>1. k \in 1 .. Len(stack) /\ i \in 1 .. stack[k].pos - 1
      BY <1>2, <1>5, <2>3
    <3>2. Edge(stack[k].node, i)
      BY <1>2, <3>1
    <3>3. edges[i].mutex_idx \in Finished \/ k < Len(stack)
      BY <3>1, <3>2 DEF SearchInv, Looked
    <3> QED BY <1>5, <2>3, <3>3
  <2> QED BY <1>2, <1>5, <2>1, <2>2, <2>3
<1>11. /\ FinishedIsClosed' /\ NoCycleBehind' /\ RootsVisited'
       /\ Unwound' /\ AnswerIsExact'
  <2>1. answer = "unknown" /\ answer' = answer /\ visited' = visited
        /\ inStack' = inStack /\ root' = root
    BY DEF SearchInv, Unwound
  <2> QED BY <1>4, <1>6, <2>1 DEF SearchInv, FinishedIsClosed, NoCycleBehind, RootsVisited,
            Unwound, AnswerIsExact
<1> QED BY <1>7, <1>8, <1>9, <1>10, <1>11 DEF SearchInv

(* A marked node met again closes a cycle: the frames from its own on.     *)
LEMMA BackEdgeIsCycle ==
  ASSUME SearchInv, answer = "unknown", stack # << >>, NEW m \in inStack,
         LeadsInto(Top.node, {m}, owner, edges)
  PROVE  HasCycle(Nodes, owner, edges)
<1>1. PICK j \in 1 .. Len(stack) : m = stack[j].node
  BY DEF SearchInv, Marks
<1>2. Len(stack) \in Nat \ {0} /\ \A k \in 1 .. Len(stack) : stack[k].node \in Nodes
  BY TypeFacts DEF SearchInv
<1> DEFINE S == {stack[k].node : k \in j .. Len(stack)}
<1>3. S \in SUBSET Nodes /\ m \in S
  BY <1>1, <1>2
<1>4. ASSUME NEW n \in S PROVE LeadsInto(n, S, owner, edges)
  <2>1. PICK k \in j .. Len(stack) : n = stack[k].node
    OBVIOUS
  <2>2. CASE k = Len(stack)
    BY <1>3, <2>1, <2>2 DEF LeadsInto, Top
  <2>3. CASE k # Len(stack)
    <3>1. k \in 1 .. Len(stack) - 1 /\ k + 1 \in j .. Len(stack)
      BY <1>1, <1>2, <2>1, <2>3
    <3>2. LeadsInto(n, {stack[k + 1].node}, owner, edges)
      BY <2>1, <3>1 DEF SearchInv, Path
    <3>3. stack[k + 1].node \in S
      BY <3>1
    <3> QED BY <3>2, <3>3 DEF LeadsInto
  <2> QED BY <2>2, <2>3
<1> HIDE DEF S
<1> QED BY <1>3, <1>4 DEF HasCycle

(* The innermost frame has looked at everything: its node is left. *)
LEMMA BacktrackKeeps ==
  ASSUME SearchInv, Backtrack
  PROVE  SearchInv'
<1> DEFINE t == Callers
           m == Top.node
<1>1. stack \in Seq(Frames) /\ stack # << >>
  BY TypeFacts DEF SearchInv, Backtrack
<1>2. /\ t \in Seq(Frames) /\ Len(t) = Len(stack) - 1
      /\ \A k \in 1 .. Len(stack) - 1 : t[k] = stack[k]
  BY <1>1, CallersFrames
<1>3. /\ ~Looking
      /\ stack' = t /\ inStack' = inStack \ {m}
      /\ UNCHANGED << graph, root, visited, answer >>
  BY DEF Backtrack
<1> HIDE DEF t
<1>4. owner' = owner /\ edges' = edges /\ \A n, i : Edge(n, i)' <=> Edge(n, i)
  BY <1>3, GraphStays
<1>5. /\ Len(stack) \in Nat \ {0} /\ Top = stack[Len(stack)]
      /\ m = stack[Len(stack)].node
      /\ m \in Nodes /\ Top.pos \in Nat
  <2>1. Len(stack) \in Nat \ {0} /\ Top = stack[Len(stack)] /\ Top \in Frames
    BY <1>1 DEF Top
  <2> QED BY <2>1 DEF Frames
<1>6. answer = "unknown" /\ answer' = answer
  BY <1>1, <1>3 DEF SearchInv, Unwound
<1>7. inStack = {stack[k].node : k \in 1 .. Len(stack)} /\ inStack \subseteq visited
  BY <1>6 DEF SearchInv, Marks
<1>8. m \in inStack /\ m \notin Finished /\ Finished' = Finished \cup {m}
  BY <1>3, <1>5, <1>7 DEF Finished
<1>9. \A k \in 1 .. Len(stack) - 1 : stack[k].node # m /\ stack[k].node \in inStack
  BY <1>5, <1>7 DEF SearchInv, Distinct
<1>10. \A n \in Nodes : LeadsInto(m, {n}, owner, edges) => n \in Finished
  <2> SUFFICES ASSUME NEW n \in Nodes, NEW i \in 1 .. Len(edges),
                      owner[m] # NoTask, edges[i].waiter = owner[m], edges[i].mutex_idx = n
               PROVE  n \in Finished
    BY DEF LeadsInto
  <2>1. Len(edges) \in Nat /\ Top.pos > Len(edges)
    BY <1>1, <1>3, <1>5, TypeFacts DEF SearchInv, Looking
  <2>2. i \in 1 .. stack[Len(stack)].pos - 1 /\ Len(stack) \in 1 .. Len(stack)
    BY <1>5, <2>1
  <2> QED BY <1>5, <2>2 DEF SearchInv, Looked, Edge
<1>11. TypeOK' /\ Framed'
  BY <1>2, <1>3, <1>4, FrameTypes DEF SearchInv, TypeOK, Framed
<1>12. Marks'
  <2>1. inStack \ {m} = {t[k].node : k \in 1 .. Len(t)}
    BY <1>2, <1>5, <1>7, <1>9
  <2> QED BY <1>3, <1>7, <2>1 DEF Marks
<1>13. Path' /\ Distinct'
  <2>1. \A k \in 1 .. Len(t) : k \in 1 .. Len(stack) /\ t[k] = stack[k]
    BY <1>2, <1>5
  <2>2. \A k \in 1 .. Len(t) - 1 : k \in 1 .. Len(stack) - 1 /\ k + 1 \in 1 .. Len(t)
                                   /\ k \in 1 .. Len(t)
    BY <1>2, <1>5
  <2>3. Path'
    BY <1>3, <1>4, <2>1, <2>2 DEF SearchInv, Path
  <2>4. Distinct'
    BY <1>3, <2>1 DEF SearchInv, Distinct
  <2> QED BY <2>3, <2>4
<1>14. Looked'
  <2> SUFFICES ASSUME NEW k \in 1 .. Len(t), NEW i \in 1 .. t[k].pos - 1,
                      Edge(t[k].node, i)
               PROVE  \/ edges[i].mutex_idx \in Finished \cup {m}
                      \/ k < Len(t) /\ edges[i].mutex_idx = t[k + 1].node
    BY <1>3, <1>4, <1>8 DEF Looked
  <2>1. k \in 1 .. Len(stack) /\ k < Len(stack) /\ t[k] = stack[k]
    BY <1>2, <1>5
  <2>2. edges[i].mutex_idx \in Finished \/ edges[i].mutex_idx = stack[k + 1].node
    BY <2>1 DEF SearchInv, Looked
  <2>3. k + 1 = Len(stack) \/ (k < Len(t) /\ t[k + 1] = stack[k + 1])
    BY <1>2, <1>5, <2>1
  <2> QED BY <1>5, <2>2, <2>3
<1>15. FinishedIsClosed'
  <2>1. \A n \in Finished, k \in Nodes : LeadsInto(n, {k}, owner, edges) => k \in Finished
    BY DEF SearchInv, FinishedIsClosed, Finished
  <2>2. \A n \in Finished', k \in Nodes :
          LeadsInto(n, {k}, owner', edges') => k \in Finished'
    BY <1>4, <1>8, <1>10, <2>1
  <2> QED BY <2>2 DEF FinishedIsClosed, Finished
<1>16. NoCycleBehind'
  <2>1. Finished \in SUBSET Nodes /\ m \in Nodes \ Finished
    BY <1>5, <1>8 DEF SearchInv, TypeOK, Finished
  <2>2. \A n \in Finished, k \in Nodes : LeadsInto(n, {k}, owner, edges) => k \in Finished
    BY DEF SearchInv, FinishedIsClosed, Finished
  <2>3. ~ HasCycle(Finished, owner, edges)
    BY DEF SearchInv, NoCycleBehind
  <2>4. edges \in Seq([waiter : Tasks, mutex_idx : Nodes])
    BY TypeFacts DEF SearchInv
  <2>5. ~ HasCycle(Finished \cup {m}, owner, edges)
    BY <1>10, <2>1, <2>2, <2>3, <2>4, NoNewCycle
  <2> QED BY <1>4, <1>8, <2>5 DEF NoCycleBehind
<1>17. RootsVisited' /\ Unwound' /\ AnswerIsExact'
  BY <1>3, <1>6 DEF SearchInv, RootsVisited, Unwound, AnswerIsExact
<1> QED BY <1>11, <1>12, <1>13, <1>14, <1>15, <1>16, <1>17 DEF SearchInv

(* What only depends on the graph, the frames and the marks stays with them.*)
LEMMA Unchanging ==
  ASSUME SearchInv, UNCHANGED << owner, edges, stack, visited, inStack >>
  PROVE  /\ Framed' /\ Path' /\ Distinct' /\ Looked' /\ FinishedIsClosed' /\ NoCycleBehind'
         /\ answer' = answer => Marks' /\ Unwound' /\ AnswerIsExact'
<1>1. Framed' /\ Path' /\ Distinct'
  BY DEF SearchInv, Framed, Path, Distinct
<1>2. Finished' = Finished /\ \A m, i : Edge(m, i)' <=> Edge(m, i)
  BY DEF Finished, Edge
<1>3. Looked'
  BY <1>2 DEF SearchInv, Looked
<1>4. FinishedIsClosed'
  BY DEF SearchInv, FinishedIsClosed
<1>5. NoCycleBehind'
  BY <1>2 DEF SearchInv, NoCycleBehind
<1>6. answer' = answer => Marks' /\ Unwound' /\ AnswerIsExact'
  BY DEF SearchInv, Marks, Unwound, AnswerIsExact
<1> QED BY <1>1, <1>3, <1>4, <1>5, <1>6

-----------------------------------------------------------------------------
(* At the start nothing is marked. *)
THEOREM Initially == Init => SearchInv
<1> SUFFICES ASSUME Init PROVE SearchInv
  OBVIOUS
<1>1. TypeOK /\ Framed
  <2>1. edges \in Seq([waiter : Tasks, mutex_idx : Nodes])
    <3>1. PICK n \in 0 .. Cardinality(Tasks) :
            edges \in [1 .. n -> [waiter : Tasks, mutex_idx : Nodes]]
      BY DEF Init, Tables
    <3>2. n \in Nat
      OBVIOUS
    <3> QED BY <3>1, <3>2, FunctionIsSeq
  <2> QED BY <2>1, MutexCountAssumption DEF Init, TypeOK, Framed
<1>2. Marks /\ Path /\ Distinct /\ Looked
  BY DEF Init, Marks, Path, Distinct, Looked
<1>3. RootsVisited /\ FinishedIsClosed /\ NoCycleBehind /\ Unwound /\ AnswerIsExact
  BY DEF Init, RootsVisited, Nodes, FinishedIsClosed, NoCycleBehind, Finished, HasCycle,
         Unwound, AnswerIsExact
<1> QED BY <1>1, <1>2, <1>3 DEF SearchInv

(* Every step of the search keeps the invariant. *)
THEOREM Step == SearchInv /\ [Next]_vars => SearchInv'
<1> SUFFICES ASSUME SearchInv, [Next]_vars PROVE SearchInv'
  OBVIOUS
<1>1. CASE StartRoot
  <2>1. /\ answer = "unknown" /\ stack = << >> /\ root \in Nodes
        /\ Descend(root, << >>) /\ root' = root + 1 /\ UNCHANGED graph
    BY <1>1, MutexCountAssumption DEF StartRoot, SearchInv, TypeOK, Nodes
  <2>2. << >> \in Seq(Frames) /\ Len(<< >>) = 0 /\ Len(stack) = 0
    BY <2>1
  <2>3. root' \in 0 .. MutexCount
    BY <2>1, MutexCountAssumption DEF Nodes
  <2>4. \A n \in Nodes : n < root' => n \in visited'
    BY <2>1, MutexCountAssumption DEF SearchInv, RootsVisited, Descend, Nodes
  <2> DEFINE s == << >>
  <2>5. s \in Seq(Frames) /\ Len(s) = Len(stack) /\ Len(s) = 0 /\ Descend(root, s)
    BY <2>1, <2>2
  <2> HIDE DEF s
  <2>6. \A k \in 1 .. Len(s) : FALSE
    BY <2>5
  <2> QED BY <2>1, <2>3, <2>4, <2>5, <2>6, DescendKeeps
<1>2. CASE SkipRoot
  <2>1. TypeOK'
    BY <1>2, MutexCountAssumption DEF SkipRoot, SearchInv, TypeOK, graph
  <2>2. RootsVisited'
    BY <1>2, MutexCountAssumption DEF SkipRoot, SearchInv, RootsVisited, TypeOK, Nodes
  <2>3. UNCHANGED << owner, edges, stack, visited, inStack, answer >>
    BY <1>2 DEF SkipRoot, graph
  <2> QED BY <2>1, <2>2, <2>3, Unchanging DEF SearchInv
<1>3. CASE NoRootLeft
  <2>1. Finished = Nodes
    <3>1. inStack = {}
      BY <1>3 DEF NoRootLeft, SearchInv, Marks
    <3>2. Nodes \subseteq visited
      BY <1>3, MutexCountAssumption DEF NoRootLeft, SearchInv, RootsVisited, Nodes
    <3> QED BY <3>1, <3>2 DEF SearchInv, TypeOK, Finished
  <2>2. AnswerIsExact'
    BY <1>3, <2>1 DEF NoRootLeft, SearchInv, NoCycleBehind, AnswerIsExact, graph
  <2>3. TypeOK'
    BY <1>3 DEF NoRootLeft, SearchInv, TypeOK, graph
  <2>4. UNCHANGED << owner, edges, stack, visited, inStack >> /\ root' = root
        /\ stack = << >>
    BY <1>3 DEF NoRootLeft, graph
  <2>5. Marks' /\ RootsVisited' /\ Unwound'
    BY <1>3, <2>4 DEF NoRootLeft, SearchInv, RootsVisited, Unwound, Marks
  <2> QED BY <2>2, <2>3, <2>4, <2>5, Unchanging DEF SearchInv
<1>4. CASE Follow
  <2> DEFINE m == edges[Top.pos].mutex_idx
  <2>1. /\ stack # << >> /\ owner[Top.node] # NoTask /\ Top.pos <= Len(edges)
        /\ edges[Top.pos].waiter = owner[Top.node]
        /\ BackEdge(m) \/ Revisit(m, Advanced) \/ Descend(m, Advanced)
        /\ UNCHANGED << graph, root >>
    BY <1>4 DEF Follow, Looking, Mine
  <2>2. answer = "unknown"
    BY <2>1 DEF SearchInv, Unwound
  <2>3. stack \in Seq(Frames) /\ Len(edges) \in Nat
        /\ \A i \in 1 .. Len(edges) : edges[i].mutex_idx \in Nodes
    BY TypeFacts DEF SearchInv
  <2>4. Top \in Frames /\ Top = stack[Len(stack)] /\ Len(stack) # 0
    BY <2>1, <2>3 DEF Top
  <2>5. Top.pos \in 1 .. Len(edges) /\ m \in Nodes
    BY <2>1, <2>3, <2>4 DEF Frames
  <2>6. Edge(Top.node, Top.pos) /\ LeadsInto(Top.node, {m}, owner, edges)
    BY <2>1, <2>5 DEF Edge, LeadsInto
  <2>7. CASE BackEdge(m)
    <3>1. HasCycle(Nodes, owner, edges)
      BY <2>1, <2>2, <2>6, <2>7, BackEdgeIsCycle DEF BackEdge
    <3>2. TypeOK' /\ AnswerIsExact'
      BY <2>1, <2>7, <3>1 DEF BackEdge, SearchInv, TypeOK, AnswerIsExact, graph
    <3> QED BY <2>1, <2>7, <3>2 DEF BackEdge, SearchInv, graph, Framed, Marks, Path, Distinct,
              Looked, RootsVisited, FinishedIsClosed, NoCycleBehind, Finished, Unwound
  <2>8. CASE Revisit(m, Advanced)
    BY <2>1, <2>8, AdvanceKeeps DEF Revisit, Finished
  <2>9. CASE Descend(m, Advanced)
    <3> DEFINE s == Advanced
    <3>1. /\ s \in Seq(Frames) /\ Len(s) = Len(stack)
          /\ \A k \in 1 .. Len(stack) : s[k].node = stack[k].node
          /\ \A k \in 1 .. Len(stack) - 1 : s[k] = stack[k]
          /\ s[Len(stack)].pos = Top.pos + 1
      BY <2>1, <2>3, AdvancedFrames
    <3>2. Descend(m, s)
      BY <2>9
    <3> HIDE DEF s
    <3>3. Len(stack) \in Nat
      BY <2>3
    <3>4. ASSUME NEW k \in 1 .. Len(s), NEW i \in 1 .. s[k].pos - 1, Edge(s[k].node, i)
          PROVE  \/ edges[i].mutex_idx \in Finished
                 \/ k < Len(s) /\ edges[i].mutex_idx = s[k + 1].node
                 \/ k = Len(s) /\ edges[i].mutex_idx = m
      <4>1. CASE k < Len(stack)
        <5>1. k \in 1 .. Len(stack) - 1 /\ k + 1 \in 1 .. Len(stack) /\ k \in 1 .. Len(stack)
          BY <3>1, <3>3, <4>1
        <5> QED BY <3>1, <3>4, <4>1, <5>1 DEF SearchInv, Looked
      <4>2. CASE k = Len(stack) /\ i = Top.pos
        BY <3>1, <4>2
      <4>3. CASE k = Len(stack) /\ i # Top.pos
        <5>1. k \in 1 .. Len(stack) /\ i \in 1 .. stack[k].pos - 1
          BY <2>4, <2>5, <3>1, <3>3, <4>3
        <5>2. Edge(stack[k].node, i)
          BY <3>1, <3>4, <5>1
        <5>3. edges[i].mutex_idx \in Finished \/ k < Len(stack)
          BY <5>1, <5>2 DEF SearchInv, Looked
        <5> QED BY <3>3, <4>3, <5>3
      <4> QED BY <3>1, <3>3, <4>1, <4>2, <4>3
    <3>5. LeadsInto(s[Len(s)].node, {m}, owner, edges)
      BY <2>4, <2>6, <3>1, <3>3
    <3>6. root' \in 0 .. MutexCount /\ \A n \in Nodes : n < root' => n \in visited'
      BY <2>1, <3>2 DEF SearchInv, TypeOK, RootsVisited, Descend
    <3> QED BY <2>1, <2>2, <2>5, <3>1, <3>2, <3>4, <3>5, <3>6, DescendKeeps
  <2> QED BY <2>1, <2>7, <2>8, <2>9
<1>5. CASE PassOver
  <2>1. /\ stack # << >> /\ edges[Top.pos].waiter # owner[Top.node]
        /\ stack' = Advanced
        /\ UNCHANGED << graph, root, visited, inStack, answer >>
    BY <1>5 DEF PassOver, Looking, Mine
  <2>2. ~ Edge(Top.node, Top.pos)
    BY <2>1 DEF Edge
  <2> QED BY <2>1, <2>2, AdvanceKeeps
<1>6. CASE Backtrack
  BY <1>6, BacktrackKeeps
<1>7. CASE UNCHANGED vars
  <2>1. UNCHANGED << owner, edges, stack, visited, inStack, answer >> /\ root' = root
    BY <1>7 DEF vars
  <2>2. TypeOK' /\ RootsVisited'
    BY <2>1 DEF SearchInv, TypeOK, RootsVisited
  <2> QED BY <2>1, <2>2, Unchanging DEF SearchInv
<1> QED BY <1>1, <1>2, <1>3, <1>4, <1>5, <1>6, <1>7 DEF Next, Done

THEOREM Invariance == Spec => []SearchInv
BY Initially, Step, PTL DEF Spec

-----------------------------------------------------------------------------
(* The tables of the search keep their types and bounds. *)
THEOREM TypeCorrect == Spec => []TypeOK
<1>1. SearchInv => TypeOK
  BY DEF SearchInv
<1> QED BY <1>1, Invariance, PTL

(* The search answers exactly whether there is a cycle. *)
THEOREM Exact == Spec => []AnswerIsExact
<1>1. SearchInv => AnswerIsExact
  BY DEF SearchInv
<1> QED BY <1>1, Invariance, PTL

(* From a mutex that was left one only gets to others that were left. *)
THEOREM Closed == Spec => []FinishedIsClosed
<1>1. SearchInv => FinishedIsClosed
  BY DEF SearchInv
<1> QED BY <1>1, Invariance, PTL

(* No mutex is on the stack twice, so the recursion is no deeper than      *)
(* there are mutexes.                                                      *)
THEOREM Shallow == Spec => []RecursionIsShallow
<1>1. ASSUME SearchInv PROVE RecursionIsShallow
  <2>1. /\ Len(stack) \in Nat
        /\ \A k \in 1 .. Len(stack) : stack[k].node \in Nodes
        /\ \A j, k \in 1 .. Len(stack) : stack[j].node = stack[k].node => j = k
    BY <1>1, TypeFacts DEF SearchInv, Distinct
  <2> DEFINE f == [k \in 1 .. Len(stack) |-> stack[k].node]
  <2>2. f \in Injection(1 .. Len(stack), Nodes)
    BY <2>1 DEF Injection, IsInjective
  <2>3. IsFiniteSet(Nodes) /\ Cardinality(Nodes) = MutexCount
    <3>1. Cardinality(0 .. MutexCount - 1) =
            IF 0 > MutexCount - 1 THEN 0 ELSE MutexCount - 1 - 0 + 1
      BY MutexCountAssumption, FS_Interval
    <3> QED BY <3>1, MutexCountAssumption, FS_Interval DEF Nodes
  <2>4. Cardinality(1 .. Len(stack)) = Len(stack)
    <3>1. Cardinality(1 .. Len(stack)) = IF 1 > Len(stack) THEN 0 ELSE Len(stack) - 1 + 1
      BY <2>1, FS_Interval
    <3> QED BY <2>1, <3>1
  <2>5. Len(stack) <= MutexCount
    BY <2>2, <2>3, <2>4, FS_Injection
  <2> QED BY <2>1, <2>5 DEF RecursionIsShallow
<1> QED BY <1>1, Invariance, PTL

-----------------------------------------------------------------------------
(* The search under s_guard is short.  What is left of it is counted: the  *)
(* entries of s_wait that some call of dfs, made already or not, has still *)
(* to look at, the end of its loop among them; the roots; and the answer.  *)

Rounds == 1 .. Len(edges) + 1

Loops ==
  {x \in Nodes \X Rounds :
     \/ x[1] \notin visited
     \/ \E k \in 1 .. Len(stack) : stack[k].node = x[1] /\ stack[k].pos <= x[2]}

Roots == {r \in Nodes : r >= root}

StepsLeft == Cardinality(Loops) + Cardinality(Roots) + (IF answer = "unknown" THEN 1 ELSE 0)

(* A frame whose position is past the end has only to be left. *)
InRounds == \A k \in 1 .. Len(stack) : stack[k].pos <= Len(edges) + 1

(* Every step of the search leaves less to do. *)
SearchAdvances == [][StepsLeft' < StepsLeft]_vars

(* So it takes no more steps than there are pairs of a mutex and an entry, *)
(* two more for each mutex, and one for the answer.                        *)
SearchIsShort == StepsLeft <= MutexCount * (Len(edges) + 2) + 1

(* The frames move on: one of a node visited before is a frame that was    *)
(* there, and the innermost has moved past its entry or is gone.           *)
MovedOn ==
  \A k \in 1 .. Len(stack') :
    \/ stack'[k].node \notin visited
    \/ \E j \in 1 .. Len(stack) :
         /\ stack[j].node = stack'[k].node
         /\ stack[j].pos <= stack'[k].pos
         /\ j = Len(stack) => stack[j].pos < stack'[k].pos

LEMMA StepFacts ==
  ASSUME SearchInv
  PROVE  /\ stack \in Seq(Frames) /\ Len(stack) \in Nat /\ Len(edges) \in Nat
         /\ \A k \in 1 .. Len(stack) : stack[k].node \in Nodes /\ stack[k].pos \in Nat \ {0}
         /\ stack # << >> => /\ Len(stack) \in 1 .. Len(stack) /\ Top = stack[Len(stack)]
                             /\ answer = "unknown" /\ Top.node \in visited
<1>1. /\ stack \in Seq(Frames) /\ Len(stack) \in Nat /\ Len(edges) \in Nat
      /\ \A k \in 1 .. Len(stack) : stack[k].node \in Nodes /\ stack[k].pos \in Nat \ {0}
  BY TypeFacts DEF SearchInv
<1>2. ASSUME stack # << >> PROVE /\ Len(stack) \in 1 .. Len(stack) /\ answer = "unknown"
  BY <1>1, <1>2 DEF SearchInv, Unwound
<1>3. ASSUME stack # << >> PROVE Top.node \in visited
  BY <1>2, <1>3 DEF SearchInv, Marks, Top
<1> QED BY <1>1, <1>2, <1>3 DEF Top

LEMMA LoopsShrink ==
  ASSUME SearchInv, InRounds, stack # << >>, UNCHANGED edges, visited \subseteq visited',
         stack' \in Seq(Frames), MovedOn
  PROVE  Loops' \subseteq Loops /\ Loops' # Loops
<1>1. ASSUME NEW x \in Nodes \X Rounds, x \in Loops', x[1] \in visited
      PROVE  \E j \in 1 .. Len(stack) : /\ stack[j].node = x[1] /\ stack[j].pos <= x[2]
                                        /\ j = Len(stack) => stack[j].pos < x[2]
  <2>1. PICK k \in 1 .. Len(stack') : stack'[k].node = x[1] /\ stack'[k].pos <= x[2]
    BY <1>1 DEF Loops
  <2>2. PICK j \in 1 .. Len(stack) : /\ stack[j].node = stack'[k].node
                                     /\ stack[j].pos <= stack'[k].pos
                                     /\ j = Len(stack) => stack[j].pos < stack'[k].pos
    BY <1>1, <2>1 DEF MovedOn
  <2>3. stack[j].pos \in Nat /\ stack'[k].pos \in Int /\ x[2] \in Nat
    <3>1. stack[j].pos \in Nat /\ x[2] \in Nat
      BY StepFacts DEF Rounds
    <3>2. stack'[k] \in Frames
      BY <2>1, ElementOf
    <3> QED BY <3>1, <3>2 DEF Frames
  <2> QED BY <2>1, <2>2, <2>3
<1>2. Loops' \subseteq Loops
  <2> SUFFICES ASSUME NEW x \in Loops' PROVE x \in Loops
    OBVIOUS
  <2>1. x \in Nodes \X Rounds
    BY DEF Loops, Rounds
  <2> QED BY <1>1, <2>1 DEF Loops
<1> DEFINE top == << Top.node, Top.pos >>
<1>3. top \in Nodes \X Rounds /\ top[1] \in visited
  <2>1. Top.node \in Nodes /\ Top.pos \in Nat \ {0} /\ Top.pos <= Len(edges) + 1
    BY StepFacts DEF InRounds
  <2> QED BY <2>1, StepFacts DEF Rounds
<1>4. top \in Loops
  BY <1>3, StepFacts DEF Loops
<1>5. top \notin Loops'
  <2> SUFFICES ASSUME top \in Loops' PROVE FALSE
    OBVIOUS
  <2>1. PICK j \in 1 .. Len(stack) : /\ stack[j].node = Top.node
                                     /\ j = Len(stack) => stack[j].pos < Top.pos
    BY <1>1, <1>3
  <2>2. j = Len(stack)
    BY <2>1, StepFacts DEF SearchInv, Distinct
  <2> QED BY <2>1, <2>2, StepFacts
<1> QED BY <1>2, <1>4, <1>5

(* What the steps of the loop do to the frames. *)
LEMMA AdvancedMovesOn ==
  ASSUME SearchInv, stack # << >>, stack' = Advanced
  PROVE  stack' \in Seq(Frames) /\ MovedOn
<1>1. /\ stack' \in Seq(Frames) /\ Len(stack') = Len(stack)
      /\ \A k \in 1 .. Len(stack) : stack'[k].node = stack[k].node
      /\ \A k \in 1 .. Len(stack) - 1 : stack'[k] = stack[k]
      /\ stack'[Len(stack)].pos = Top.pos + 1
  BY StepFacts, AdvancedFrames
<1>2. ASSUME NEW k \in 1 .. Len(stack)
      PROVE  stack[k].pos <= stack'[k].pos /\ (k = Len(stack) => stack[k].pos < stack'[k].pos)
  <2>1. CASE k = Len(stack)
    BY <1>1, <2>1, StepFacts
  <2>2. CASE k # Len(stack)
    <3>1. k \in 1 .. Len(stack) - 1
      BY <2>2, StepFacts
    <3> QED BY <1>1, <2>2, <3>1, StepFacts
  <2> QED BY <2>1, <2>2
<1> QED BY <1>1, <1>2 DEF MovedOn

LEMMA DescentMovesOn ==
  ASSUME SearchInv, stack # << >>, NEW m \in Nodes \ visited, stack' = Append(Advanced, Frame(m))
  PROVE  stack' \in Seq(Frames) /\ MovedOn
<1> DEFINE s == Advanced
<1>1. /\ s \in Seq(Frames) /\ Len(s) = Len(stack)
      /\ \A k \in 1 .. Len(stack) : s[k].node = stack[k].node
      /\ \A k \in 1 .. Len(stack) - 1 : s[k] = stack[k]
      /\ s[Len(stack)].pos = Top.pos + 1
  BY StepFacts, AdvancedFrames
<1>2. stack' = Append(s, Frame(m))
  OBVIOUS
<1> HIDE DEF s
<1>3. /\ stack' \in Seq(Frames) /\ Len(stack') = Len(s) + 1
      /\ \A k \in 1 .. Len(s) : stack'[k] = s[k]
      /\ stack'[Len(s) + 1].node = m
  BY <1>1, <1>2, PushedFrames
<1>4. ASSUME NEW k \in 1 .. Len(stack)
      PROVE  stack[k].pos <= s[k].pos /\ (k = Len(stack) => stack[k].pos < s[k].pos)
  <2>1. CASE k = Len(stack)
    BY <1>1, <2>1, StepFacts
  <2>2. CASE k # Len(stack)
    <3>1. k \in 1 .. Len(stack) - 1
      BY <2>2, StepFacts
    <3> QED BY <1>1, <2>2, <3>1, StepFacts
  <2> QED BY <2>1, <2>2
<1>5. ASSUME NEW k \in 1 .. Len(stack')
      PROVE  k \in 1 .. Len(stack) \/ stack'[k].node = m
  BY <1>1, <1>3, StepFacts
<1> QED BY <1>1, <1>3, <1>4, <1>5 DEF MovedOn

LEMMA ReturnMovesOn ==
  ASSUME SearchInv, stack # << >>, stack' = Callers
  PROVE  stack' \in Seq(Frames) /\ MovedOn
<1>1. /\ stack' \in Seq(Frames) /\ Len(stack') = Len(stack) - 1
      /\ \A k \in 1 .. Len(stack) - 1 : stack'[k] = stack[k]
  BY StepFacts, CallersFrames
<1>2. ASSUME NEW k \in 1 .. Len(stack')
      PROVE  \E j \in 1 .. Len(stack) : /\ stack[j].node = stack'[k].node
                                        /\ stack[j].pos <= stack'[k].pos
                                        /\ j # Len(stack)
  <2>1. k \in 1 .. Len(stack) /\ k # Len(stack) /\ stack'[k] = stack[k] /\ stack[k].pos \in Nat
    BY <1>1, StepFacts
  <2>2. stack[k].pos <= stack[k].pos
    BY <2>1
  <2> QED BY <2>1, <2>2
<1> QED BY <1>1, <1>2 DEF MovedOn

(* Every step leaves less to do, of one kind, and no more of the others.   *)
LEMMA SomethingDone ==
  ASSUME SearchInv, InRounds, Next, vars' # vars
  PROVE  /\ Loops' \subseteq Loops /\ Roots' \subseteq Roots
         /\ answer' = "unknown" => answer = "unknown"
         /\ Loops' # Loops \/ Roots' # Roots \/ (answer = "unknown" /\ answer' # "unknown")
<1>1. CASE StartRoot \/ SkipRoot
  <2>1. /\ answer = "unknown" /\ stack = << >> /\ root \in Nodes /\ root' = root + 1
        /\ edges' = edges /\ answer' = answer
    BY <1>1, MutexCountAssumption DEF StartRoot, SkipRoot, Descend, graph, Nodes, SearchInv, TypeOK
  <2>2. Loops' \subseteq Loops
    <3>1. CASE StartRoot
      <4>1. /\ root \notin visited /\ visited' = visited \cup {root}
            /\ Len(stack') = 1 /\ stack'[1].node = root
        BY <3>1 DEF StartRoot, Descend, Frame
      <4> QED BY <2>1, <4>1 DEF Loops, Rounds
    <3>2. CASE SkipRoot
      BY <2>1, <3>2 DEF SkipRoot, Loops, Rounds
    <3> QED BY <1>1, <3>1, <3>2
  <2>3. Roots' \subseteq Roots /\ root \in Roots /\ root \notin Roots'
    BY <2>1, MutexCountAssumption DEF Roots, Nodes
  <2> QED BY <2>1, <2>2, <2>3
<1>2. CASE NoRootLeft
  <2>1. UNCHANGED << edges, root, stack, visited >> /\ answer = "unknown" /\ answer' = "none"
    BY <1>2 DEF NoRootLeft, graph
  <2> QED BY <2>1 DEF Loops, Roots, Rounds
<1>3. ASSUME stack # << >>, UNCHANGED << edges, root >>, visited \subseteq visited',
             answer' = answer, stack' \in Seq(Frames) /\ MovedOn
      PROVE  /\ Loops' \subseteq Loops /\ Roots' \subseteq Roots /\ Loops' # Loops
             /\ answer' = "unknown" => answer = "unknown"
  BY <1>3, LoopsShrink DEF Roots
<1>4. CASE Follow
  <2> DEFINE m == edges[Top.pos].mutex_idx
  <2>1. /\ stack # << >> /\ UNCHANGED << edges, root >>
        /\ BackEdge(m) \/ Revisit(m, Advanced) \/ Descend(m, Advanced)
    BY <1>4 DEF Follow, Looking, graph
  <2>2. CASE BackEdge(m)
    <3>1. answer = "unknown" /\ answer' # "unknown" /\ stack' = << >> /\ visited' = visited
      BY <2>1, <2>2, StepFacts DEF BackEdge
    <3> QED BY <2>1, <3>1 DEF Loops, Roots, Rounds
  <2>3. CASE Revisit(m, Advanced)
    BY <1>3, <2>1, <2>3, AdvancedMovesOn DEF Revisit
  <2>4. CASE Descend(m, Advanced)
    <3>1. m \in Nodes
      <4>1. Top.pos \in Nat \ {0} /\ Top.pos <= Len(edges)
        BY <1>4, StepFacts DEF Follow, Looking
      <4>2. Top.pos \in 1 .. Len(edges)
        BY <4>1, StepFacts
      <4> QED BY <4>2, TypeFacts DEF SearchInv
    <3> HIDE DEF m
    <3> QED BY <1>3, <2>1, <2>4, <3>1, DescentMovesOn DEF Descend
  <2> QED BY <2>1, <2>2, <2>3, <2>4
<1>5. CASE PassOver
  BY <1>3, <1>5, AdvancedMovesOn DEF PassOver, Looking, graph
<1>6. CASE Backtrack
  BY <1>3, <1>6, ReturnMovesOn DEF Backtrack, graph
<1> QED BY <1>1, <1>2, <1>4, <1>5, <1>6 DEF Next, Done

(* No frame is ever more than one past the end of s_wait. *)
LEMMA InRoundsStep ==
  ASSUME SearchInv, InRounds, [Next]_vars
  PROVE  InRounds'
<1>1. CASE StartRoot
  <2>1. Len(stack') = 1 /\ stack'[1].pos = 1 /\ edges' = edges
    BY <1>1 DEF StartRoot, Descend, Frame, graph
  <2> QED BY <2>1, StepFacts DEF InRounds
<1>2. ASSUME stack # << >>, UNCHANGED edges, stack' = Advanced, Looking
      PROVE  InRounds'
  <2>1. /\ Len(Advanced) = Len(stack)
        /\ \A k \in 1 .. Len(stack) - 1 : Advanced[k] = stack[k]
        /\ Advanced[Len(stack)].pos = Top.pos + 1
    BY <1>2, StepFacts, AdvancedFrames
  <2>2. Top.pos + 1 <= Len(edges) + 1
    BY <1>2, StepFacts DEF Looking
  <2>3. ASSUME NEW k \in 1 .. Len(stack) PROVE k = Len(stack) \/ k \in 1 .. Len(stack) - 1
    BY StepFacts
  <2> QED BY <1>2, <2>1, <2>2, <2>3 DEF InRounds
<1>3. CASE Follow
  <2> DEFINE m == edges[Top.pos].mutex_idx
             s == Advanced
  <2>1. /\ stack # << >> /\ UNCHANGED edges /\ Looking
        /\ BackEdge(m) \/ Revisit(m, s) \/ Descend(m, s)
    BY <1>3 DEF Follow, Looking, graph
  <2>2. CASE BackEdge(m)
    BY <2>1, <2>2 DEF BackEdge, InRounds
  <2>3. CASE Revisit(m, s)
    BY <1>2, <2>1, <2>3 DEF Revisit
  <2>4. CASE Descend(m, s)
    <3>1. /\ Len(s) = Len(stack) /\ s \in Seq(Frames)
          /\ \A k \in 1 .. Len(stack) - 1 : s[k] = stack[k]
          /\ s[Len(stack)].pos = Top.pos + 1
      BY <2>1, StepFacts, AdvancedFrames
    <3>2. stack' = Append(s, Frame(m))
      BY <2>4 DEF Descend
    <3>3. Top.pos + 1 <= Len(edges) + 1 /\ 1 <= Len(edges) + 1
      BY <2>1, StepFacts DEF Looking
    <3> HIDE DEF s, m
    <3>4. ASSUME NEW k \in 1 .. Len(stack')
          PROVE  \/ k \in 1 .. Len(stack) - 1 /\ stack'[k] = s[k]
                 \/ k = Len(stack) /\ stack'[k] = s[k]
                 \/ stack'[k] = Frame(m)
      BY <3>1, <3>2, StepFacts
    <3>5. ASSUME NEW k \in 1 .. Len(stack') PROVE stack'[k].pos <= Len(edges) + 1
      <4>1. CASE stack'[k] = Frame(m)
        BY <3>3, <4>1 DEF Frame
      <4>2. CASE k = Len(stack) /\ stack'[k] = s[k]
        BY <3>1, <3>3, <4>2
      <4>3. CASE k \in 1 .. Len(stack) - 1 /\ stack'[k] = s[k]
        BY <3>1, <4>3, StepFacts DEF InRounds
      <4> QED BY <3>4, <4>1, <4>2, <4>3
    <3> QED BY <2>1, <3>5 DEF InRounds
  <2> QED BY <2>1, <2>2, <2>3, <2>4
<1>4. CASE PassOver
  BY <1>2, <1>4 DEF PassOver, Looking, graph
<1>5. CASE Backtrack
  <2>1. /\ stack # << >> /\ UNCHANGED edges /\ stack' = Callers
    BY <1>5 DEF Backtrack, graph
  <2>2. /\ Len(stack') = Len(stack) - 1
        /\ \A k \in 1 .. Len(stack) - 1 : stack'[k] = stack[k]
    BY <2>1, StepFacts, CallersFrames
  <2> QED BY <2>1, <2>2, StepFacts DEF InRounds
<1>6. CASE UNCHANGED << stack, edges >>
  BY <1>6 DEF InRounds
<1> QED BY <1>1, <1>3, <1>4, <1>5, <1>6 DEF Next, SkipRoot, NoRootLeft, Done, vars, graph

LEMMA InRoundsAlways == Spec => [](SearchInv /\ InRounds)
<1>1. Init => InRounds
  BY DEF Init, InRounds
<1>2. SearchInv /\ InRounds /\ [Next]_vars => InRounds'
  BY InRoundsStep
<1> QED BY <1>1, <1>2, Invariance, PTL DEF Spec

(* The sets that are counted are finite. *)
LEMMA Counts ==
  ASSUME SearchInv
  PROVE  /\ IsFiniteSet(Loops) /\ Cardinality(Loops) \in Nat
         /\ Cardinality(Loops) <= MutexCount * (Len(edges) + 1)
         /\ IsFiniteSet(Roots) /\ Cardinality(Roots) \in Nat
         /\ Cardinality(Roots) <= MutexCount
<1>1. Len(edges) \in Nat
  BY StepFacts
<1>2. IsFiniteSet(Nodes) /\ Cardinality(Nodes) = MutexCount
  <2>1. Cardinality(0 .. MutexCount - 1) =
          IF 0 > MutexCount - 1 THEN 0 ELSE MutexCount - 1 - 0 + 1
    BY MutexCountAssumption, FS_Interval
  <2> QED BY <2>1, MutexCountAssumption, FS_Interval DEF Nodes
<1>3. IsFiniteSet(Rounds) /\ Cardinality(Rounds) = Len(edges) + 1
  <2>1. /\ IsFiniteSet(1 .. Len(edges) + 1)
        /\ Cardinality(1 .. Len(edges) + 1) =
             IF 1 > Len(edges) + 1 THEN 0 ELSE Len(edges) + 1 - 1 + 1
    BY <1>1, FS_Interval
  <2> QED BY <1>1, <2>1 DEF Rounds
<1>4. /\ IsFiniteSet(Nodes \X Rounds)
      /\ Cardinality(Nodes \X Rounds) = MutexCount * (Len(edges) + 1)
  BY <1>2, <1>3, FS_Product
<1>5. Loops \in SUBSET (Nodes \X Rounds) /\ Roots \in SUBSET Nodes
  BY DEF Loops, Roots
<1> QED BY <1>2, <1>4, <1>5, FS_Subset, FS_CardinalityType

(* Every step of the search under s_guard leaves less to do: it ends after *)
(* a number of steps that depends on the sizes of the two tables only.     *)
THEOREM Advances == Spec => SearchAdvances
<1>1. ASSUME SearchInv, InRounds, Next, vars' # vars PROVE StepsLeft' < StepsLeft
  <2>1. /\ Loops' \subseteq Loops /\ Roots' \subseteq Roots
        /\ answer' = "unknown" => answer = "unknown"
        /\ Loops' # Loops \/ Roots' # Roots \/ (answer = "unknown" /\ answer' # "unknown")
    BY <1>1, SomethingDone
  <2>2. /\ Cardinality(Loops') \in Nat /\ Cardinality(Loops') <= Cardinality(Loops)
        /\ Loops' # Loops => Cardinality(Loops') # Cardinality(Loops)
    BY <1>1, <2>1, Counts, FS_Subset, FS_CardinalityType
  <2>3. /\ Cardinality(Roots') \in Nat /\ Cardinality(Roots') <= Cardinality(Roots)
        /\ Roots' # Roots => Cardinality(Roots') # Cardinality(Roots)
    BY <1>1, <2>1, Counts, FS_Subset, FS_CardinalityType
  <2>4. Cardinality(Loops) \in Nat /\ Cardinality(Roots) \in Nat
    BY <1>1, Counts
  <2> QED BY <2>1, <2>2, <2>3, <2>4 DEF StepsLeft
<1>2. SearchInv /\ InRounds /\ [Next]_vars => [StepsLeft' < StepsLeft]_vars
  BY <1>1
<1> QED BY <1>2, InRoundsAlways, PTL DEF Spec, SearchAdvances

(* From its start on it takes at most one step for each pair of a mutex    *)
(* and an entry of s_wait, two more for each mutex and one for the answer: *)
(* what s_guard can be kept for, for any tables.                           *)
THEOREM Short == Spec => []SearchIsShort
<1>1. ASSUME SearchInv PROVE SearchIsShort
  <2>1. Len(edges) \in Nat /\ MutexCount \in Nat
    BY <1>1, StepFacts, MutexCountAssumption
  <2>2. MutexCount * (Len(edges) + 2) = MutexCount * (Len(edges) + 1) + MutexCount
    <3>1. \A n, l \in Nat : n * (l + 2) = n * (l + 1) + n /\ n * (l + 1) \in Nat
      OBVIOUS
    <3> QED BY <2>1, <3>1
  <2>3. MutexCount * (Len(edges) + 1) \in Nat
    BY <2>1
  <2> DEFINE p == MutexCount * (Len(edges) + 1)
  <2>4. /\ Cardinality(Loops) \in Nat /\ Cardinality(Loops) <= p
        /\ Cardinality(Roots) \in Nat /\ Cardinality(Roots) <= MutexCount /\ p \in Nat
    BY <1>1, <2>3, Counts
  <2>5. MutexCount * (Len(edges) + 2) = p + MutexCount
    BY <2>2
  <2> HIDE DEF p
  <2> QED BY <2>1, <2>4, <2>5 DEF SearchIsShort, StepsLeft
<1> QED BY <1>1, Invariance, PTL
=============================================================================
