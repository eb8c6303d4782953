---------------------------- MODULE MCAutosarOS ----------------------------
(* AutosarOS on a small instance. *)
EXTENDS AutosarOS

CONSTANTS short, long    \* a name, and one that is cut down to it

MCStored == [n \in {short, long} |-> short]

(* One to three tasks with periods that are not multiples of each other,   *)
(* among them sets that meet their deadlines above the limit, and sets     *)
(* that miss them below 1.                                                 *)
Few ==
  LET task == [wcet : 1 .. 4, period : {4, 5, 6, 7}]
  IN  {<< >>} \cup [1 .. 1 -> task] \cup [1 .. 2 -> task]
        \cup [1 .. 3 -> [wcet : 1 .. 2, period : {4, 5, 7}]]

(* Sets that use the processor as little as sets that just miss a deadline *)
(* do: every task runs until the next shorter period has gone by once, and *)
(* the last fills what is left of twice the shortest, or a little more.    *)
Tight(p, more) ==
  [i \in 1 .. Len(p) |->
     [wcet   |-> IF i < Len(p) THEN p[i + 1] - p[i] ELSE 2 * p[1] - p[Len(p)] + more,
      period |-> p[i]]]

(* With these periods the sets that miss lie between the limit for their   *)
(* number, from three to nine, and the limit for one task less.            *)
Many ==
  {<< 15, 19, 24 >>,
   << 28, 33, 40, 48 >>,
   << 48, 55, 63, 72, 84 >>,
   << 70, 78, 88, 99, 112, 126 >>,
   << 120, 132, 144, 160, 176, 198, 220 >>,
   << 154, 168, 182, 198, 220, 240, 260, 286 >>,
   << 176, 192, 208, 224, 240, 260, 280, 308, 330 >>}

MCTaskSets ==
  Few \cup {Tight(p, more) : p \in Many, more \in {-1, 1}}
      \cup {Tight(p, -12) : p \in {q \in Many : Len(q) = 9}}
=============================================================================
