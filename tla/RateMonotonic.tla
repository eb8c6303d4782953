--------------------------- MODULE RateMonotonic ---------------------------
(***************************************************************************)
(* AutosarOS_CheckSchedulability of src/autosar_os.c, and what it is to    *)
(* decide.  A task set is a sequence of records with wcet and period, in   *)
(* any order.  Fractions are kept as pairs: the code's doubles are taken   *)
(* for exact, which they are closely enough for a limit of three places.   *)
(***************************************************************************)
EXTENDS Integers, SequencesExt

(* The limit for n tasks in thousandths: bounds[n - 1], ln 2 beyond eight. *)
(* A slip in the next operator: the entry before is read. *)
LimitBefore(n) ==
  IF n <= 8 THEN << 1000, 1000, 828, 779, 756, 743, 734, 728 >>[n] ELSE 693

Limit(n) ==
  IF n <= 8 THEN << 1000, 828, 779, 756, 743, 734, 728, 724 >>[n] ELSE 693

(* What two denominators have in common. *)
Common(a, b) == Max({d \in 1 .. b : a % d = 0 /\ b % d = 0})

(* u_total after the loop, over the least common denominator. *)
Utilisation(ts) ==
  FoldLeft(LAMBDA u, t :
             LET d == Common(u.den, t.period)
             IN  [num |-> u.num * (t.period \div d) + t.wcet * (u.den \div d),
                  den |-> u.den * (t.period \div d)],
           [num |-> 0, den |-> 1], ts)

CheckSchedulability(ts) ==
  ts = << >> \/ 1000 * Utilisation(ts).num <= Limit(Len(ts)) * Utilisation(ts).den

(* The reference: under priorities by period a task that is released       *)
(* together with all others has its wcet, and all that the tasks of no     *)
(* longer period ask for in the meantime, done before its next release.    *)
Releases(t, span) == (span + t.period - 1) \div t.period

Demand(ts, i, span) ==
  FoldLeft(LAMBDA sum, j :
             IF j # i /\ ts[j].period <= ts[i].period
             THEN sum + Releases(ts[j], span) * ts[j].wcet
             ELSE sum,
           ts[i].wcet, [j \in 1 .. Len(ts) |-> j])

MeetsDeadlines(ts) ==
  \A i \in 1 .. Len(ts) :
    \E span \in 1 .. ts[i].period : Demand(ts, i, span) <= span
=============================================================================
