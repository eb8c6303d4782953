--------------------------- MODULE UartCliProofs ---------------------------
(***************************************************************************)
(* The profiler and the console for a ring of any length, any buckets and  *)
(* any number of samples.  The argument: a slot of the ring only ever gets *)
(* newer samples, of numbers that differ by multiples of its length; so    *)
(* what a row finds is the sample that was meant or a newer one, and a row *)
(* misses the sample only if one was recorded between its two loads.       *)
(***************************************************************************)
EXTENDS UartCli, FiniteSetTheorems, WellFoundedInduction, TLAPS

-----------------------------------------------------------------------------
(* Numbers of samples and slots of the ring. *)

LEMMA Slot ==
  ASSUME NEW n \in Nat
  PROVE  /\ n % RingLength \in 0 .. RingLength - 1
         /\ n < RingLength => n % RingLength = n
<1>1. RingLength \in Nat \ {0}
  BY ProfilerAssumption
<1>2. n % RingLength \in 0 .. RingLength - 1
  BY <1>1, SMT
<1>3. n < RingLength => n % RingLength = n
  BY <1>1, SMT
<1> QED
  BY <1>2, <1>3

(* The numbers a slot gets are RingLength apart. *)
LEMMA SlotAgain ==
  ASSUME NEW n \in Nat
  PROVE  (n + RingLength) % RingLength = n % RingLength
<1> DEFINE q == n \div RingLength
           r == n % RingLength
<1>1. RingLength \in Nat \ {0}
  BY ProfilerAssumption
<1>2. q \in Int /\ r \in 0 .. RingLength - 1 /\ n = RingLength * q + r
  BY <1>1, SMT
<1>3. n + RingLength = RingLength * (q + 1) + r
  <2> HIDE DEF q, r
  <2> QED
    BY <1>1, <1>2, SMT
<1>4. ASSUME NEW k \in Int, NEW s \in 0 .. RingLength - 1
      PROVE  (RingLength * k + s) % RingLength = s
  BY <1>1, SMT
<1> HIDE DEF q, r
<1>5. (RingLength * (q + 1) + r) % RingLength = r
  <2>1. q + 1 \in Int
    BY <1>2
  <2> QED
    BY <2>1, <1>2, <1>4
<1> QED
  BY <1>3, <1>5 DEF r

LEMMA SlotsDiffer ==
  ASSUME NEW m \in Nat, NEW n \in Nat, m < n, n < m + RingLength
  PROVE  m % RingLength # n % RingLength
<1> DEFINE p == m \div RingLength
           q == n \div RingLength
           r == m % RingLength
<1>1. RingLength \in Nat \ {0}
  BY ProfilerAssumption
<1>2. p \in Int /\ r \in 0 .. RingLength - 1 /\ m = RingLength * p + r
  BY <1>1, SMT
<1> SUFFICES ASSUME r = n % RingLength PROVE FALSE
  OBVIOUS
<1>3. q \in Int /\ n = RingLength * q + r
  <2>1. q \in Int /\ n = RingLength * q + (n % RingLength)
    BY <1>1, SMT
  <2> QED
    BY <2>1
<1> HIDE DEF p, q, r
<1>4. n - m = RingLength * (q - p)
  BY <1>1, <1>2, <1>3, SMT
<1>5. CASE q <= p
  BY <1>1, <1>2, <1>3, <1>4, <1>5, SMT
<1>6. CASE q > p
  <2>1. RingLength * (q - p) >= RingLength
    BY <1>1, <1>2, <1>3, <1>6, SMT
  <2> QED
    BY <2>1, <1>1, <1>4, SMT
<1> QED
  BY <1>2, <1>3, <1>5, <1>6

-----------------------------------------------------------------------------
(* The buckets: each sample belongs to exactly one. *)

LEMMA LeastOf ==
  ASSUME NEW T \in SUBSET Nat, T # {}
  PROVE  \E x \in T : \A y \in T : x <= y
<1> DEFINE L == {ss \in Nat \X Nat : ss[1] < ss[2]}
<1>1. IsWellFoundedOn(L, Nat)
  BY NatLessThanWellFounded DEF OpToRel
<1>2. \E x \in T : \A y \in T : ~ (<< y, x >> \in L)
  <2> HIDE DEF L
  <2> QED
    BY <1>1, WFMin
<1>3. PICK x \in T : \A y \in T : ~ (<< y, x >> \in L)
  BY <1>2
<1>4. \A y \in T : x <= y
  <2> TAKE y \in T
  <2>1. << y, x >> \in Nat \X Nat /\ << y, x >> \notin L
    BY <1>3
  <2>2. ~(y < x)
    BY <2>1
  <2> QED
    BY <2>2
<1> QED
  BY <1>4

LEMMA BucketExists ==
  ASSUME NEW us \in Nat
  PROVE  /\ Bucket(us) \in Bins
         /\ Bucket(us) \in DOMAIN Bounds => us < Bounds[Bucket(us)]
         /\ \A c \in 1 .. Bucket(us) - 1 : us >= Bounds[c]
<1> DEFINE T == {b \in Bins : b \in DOMAIN Bounds => us < Bounds[b]}
<1>0. Len(Bounds) \in Nat /\ DOMAIN Bounds = 1 .. Len(Bounds)
      /\ \A k \in DOMAIN Bounds : Bounds[k] \in Nat
  BY ProfilerAssumption
<1>1. T \subseteq Nat /\ Len(Bounds) + 1 \in T
  BY <1>0 DEF Bins
<1>2. PICK b \in T : \A y \in T : b <= y
  BY <1>1, LeastOf
<1>3. b \in Bins /\ (b \in DOMAIN Bounds => us < Bounds[b])
  BY <1>2
<1>4. \A c \in 1 .. b - 1 : us >= Bounds[c]
  <2> TAKE c \in 1 .. b - 1
  <2>1. c \in Bins /\ c \in DOMAIN Bounds /\ c \notin T
    BY <1>0, <1>2, <1>3 DEF Bins
  <2> QED
    BY <2>1, <1>0
<1> QED
  BY <1>3, <1>4 DEF Bucket

(* What the ring cuts off does not change the bin of a sample. *)
LEMMA BucketIsBin ==
  ASSUME NEW us \in Nat, NEW b \in Bins
  PROVE  InBin(Lower(us, SampleMax), b) <=> b = Bucket(us)
<1>0. /\ Len(Bounds) \in Nat /\ DOMAIN Bounds = 1 .. Len(Bounds)
      /\ SampleMax \in Nat
      /\ \A k \in DOMAIN Bounds : Bounds[k] \in Nat /\ Bounds[k] <= SampleMax
      /\ \A j, k \in DOMAIN Bounds : j < k => Bounds[j] < Bounds[k]
  BY ProfilerAssumption
<1> DEFINE c == Bucket(us)
<1>1. /\ c \in Bins
      /\ c \in DOMAIN Bounds => us < Bounds[c]
      /\ \A d \in 1 .. c - 1 : us >= Bounds[d]
  BY BucketExists
<1> HIDE DEF c
<1>2. InBin(Lower(us, SampleMax), b) <=> InBin(us, b)
  <2>1. \A k \in DOMAIN Bounds : Lower(us, SampleMax) < Bounds[k] <=> us < Bounds[k]
    BY <1>0 DEF Lower
  <2>2. \A k \in DOMAIN Bounds : Bounds[k] <= Lower(us, SampleMax) <=> Bounds[k] <= us
    BY <1>0 DEF Lower
  <2>3. b > 1 => b - 1 \in DOMAIN Bounds
    BY <1>0 DEF Bins
  <2> QED
    BY <2>1, <2>2, <2>3 DEF InBin
<1>3. InBin(us, c)
  BY <1>0, <1>1 DEF InBin, Bins
<1>4. ASSUME b < c PROVE ~InBin(us, b)
  <2>1. b \in 1 .. c - 1 /\ b \in DOMAIN Bounds
    BY <1>0, <1>1, <1>4 DEF Bins
  <2> QED
    BY <2>1, <1>0, <1>1 DEF InBin
<1>5. ASSUME c < b PROVE ~InBin(us, b)
  <2>1. c \in DOMAIN Bounds /\ b - 1 \in DOMAIN Bounds /\ c <= b - 1 /\ b > 1
    BY <1>0, <1>1, <1>5 DEF Bins
  <2>2. us < Bounds[b - 1]
    <3>1. CASE c = b - 1
      BY <3>1, <2>1, <1>1
    <3>2. CASE c < b - 1
      BY <3>2, <2>1, <1>0, <1>1
    <3> QED
      BY <3>1, <3>2, <2>1, <1>0, <1>1 DEF Bins
  <2> QED
    BY <2>1, <2>2, <1>0 DEF InBin
<1>6. b \in Nat /\ c \in Nat
  BY <1>0, <1>1 DEF Bins
<1> QED
  BY <1>2, <1>3, <1>4, <1>5, <1>6 DEF c

-----------------------------------------------------------------------------
(* The inductive invariant. *)

(* The number of the oldest sample the ring has, after s of them.          *)
Oldest(s) == IF s < RingLength THEN 0 ELSE s - RingLength

Types ==
  /\ TypeOK
  /\ rows    \in Seq(Int)
  /\ base    \in Nat
  /\ printed \in [samples : Nat, min : Nat, max : Nat, average : Nat, histogram : Nat]
  /\ pc = "histogram" => pos \in Bins

Counters ==
  /\ sampleIdx = count
  /\ base <= sampleIdx
  /\ \A b \in Bins : buckets[b] <= count

(* The slot of a sample has it or a newer one; the last RingLength of them *)
(* are all there.                                                          *)
RingInOrder ==
  \A n \in 0 .. sampleIdx - 1 :
    /\ samples[n % RingLength].nth \in n .. sampleIdx - 1
    /\ Oldest(sampleIdx) <= n => samples[n % RingLength].nth = n

(* The sum may have wrapped, which makes it smaller.                       *)
SumFits ==
  /\ sumUs <= maxUs * sampleIdx
  /\ count > 0 => minUs <= maxUs

(* The numbers of a report but for its histogram: the minimum is not above *)
(* the maximum, and the average exceeds the maximum by no more than the    *)
(* samples that came after the report began explain.                       *)
NumbersFit ==
  pc = "histogram" =>
    /\ printed.min <= printed.max
    /\ printed.average * base <= printed.max * sampleIdx
(* What is known of the numbers loaded and printed so far.                 *)
PrintedFits ==
  /\ pc = "average" => /\ 0 < base /\ base <= counted
                       /\ loaded <= maxUs * sampleIdx
  /\ pc \in {"samples", "min", "max"} => /\ 0 < base
                                         /\ printed.average * base <= maxUs * sampleIdx
  /\ pc = "max" => printed.min <= maxUs
  /\ NumbersFit

(* Samples from the first to before the f-th that the rows rs do not have. *)
MissingIn(first, rs, f) == {n \in first .. f - 1 : \A j \in 1 .. Len(rs) : rs[j] # n}

Missing(f) == MissingIn(base - total, rows, f)

RowsFit ==
  /\ pc \notin {"index", "row"} => rows = << >>
  /\ pc \in {"index", "row"} =>
       /\ Oldest(base) = base - total /\ pos <= total
       /\ Len(rows) = pos
       /\ \A j \in 1 .. pos :
            /\ base - total + j - 1 <= rows[j] /\ rows[j] < sampleIdx
            /\ sampleIdx = base => rows[j] = base - total + j - 1

(* The row at work was addressed when there were s samples.                *)
Addressed(s) ==
  /\ loaded = (Oldest(s) + pos) % RingLength
  /\ Cardinality(Missing(Oldest(s) + pos)) <= 2 * (s - base)

FewMissing ==
  /\ pc = "index" => Cardinality(Missing(Oldest(sampleIdx) + pos)) <= 2 * (sampleIdx - base)
  /\ pc = "row"   => pos < total /\ \E s \in base .. sampleIdx : Addressed(s)

IndInv ==
  /\ Types /\ Counters /\ RingInOrder /\ PlotAgreesWithHistogram
  /\ SumFits /\ PrintedFits /\ RowsFit /\ FewMissing

-----------------------------------------------------------------------------
(* What a step does to the statistics: nothing, one sample more, or reset. *)

Recorded ==
  \E us \in Nat : Record(us) /\ count < MaxRecords /\ UNCHANGED << reader, line >>

LEMMA ProbeRecords ==
  ASSUME NEW e \in Elapsed, Probe(e) /\ UNCHANGED line
  PROVE  Recorded
<1> DEFINE late == IF e > Expected THEN e - Expected ELSE 0
<1>1. late \in Nat /\ CyclesPerUs \in Nat \ {0}
  BY ProfilerAssumption
<1>2. late \div CyclesPerUs \in Nat
  <2> HIDE DEF late
  <2> QED
    BY <1>1, SMT
<1> QED
  BY <1>2 DEF Probe, Recorded

LEMMA StepKinds ==
  ASSUME [Next]_vars
  PROVE  UNCHANGED stats \/ Recorded \/ Reset
<1>1. CASE \E e \in Elapsed : Probe(e) /\ UNCHANGED line
  BY <1>1, ProbeRecords
<1>2. CASE Report /\ UNCHANGED line
  BY <1>2 DEF Report, CheckCount, Divide, PrintLine, PrintBucket, BeginDump, RowIndex, Row
<1>3. CASE \E c \in Letters : TypeLetter(c)
  BY <1>3 DEF TypeLetter, AtPrompt
<1>4. CASE Backspace \/ EnterOther
  BY <1>4 DEF Backspace, EnterOther, AtPrompt
<1>5. CASE EnterLatency \/ LatencyReturns \/ EnterReset
  BY <1>5 DEF EnterLatency, LatencyReturns, EnterReset
<1>6. CASE UNCHANGED vars
  BY <1>6 DEF vars
<1> QED
  BY <1>1, <1>2, <1>3, <1>4, <1>5, <1>6 DEF Next

(* A sum that wraps is not larger than the sum. *)
LEMMA Wraps ==
  ASSUME NEW a \in Nat
  PROVE  a % WordMod \in 0 .. WordMod - 1 /\ a % WordMod <= a
<1>1. WordMod \in Nat /\ WordMod > 0
  BY ProfilerAssumption
<1>2. a % WordMod \in 0 .. WordMod - 1
  BY <1>1, SMT
<1>3. a \div WordMod \in Nat /\ a = WordMod * (a \div WordMod) + (a % WordMod)
  BY <1>1, SMT
<1>4. WordMod * (a \div WordMod) \in Nat
  BY <1>1, <1>3, SMT
<1> QED
  BY <1>1, <1>2, <1>3, <1>4, SMT

LEMMA BucketsKept ==
  ASSUME Types, Counters, NEW us \in Nat, Record(us), count < MaxRecords
  PROVE  buckets' \in [Bins -> 0 .. MaxRecords] /\ \A b \in Bins : buckets'[b] <= count'
<1>1. buckets \in [Bins -> 0 .. MaxRecords] /\ count \in 0 .. MaxRecords /\ MaxRecords \in Nat
  BY ProfilerAssumption DEF Types, TypeOK, ProfilerTypeOK
<1>2. Bucket(us) \in Bins
  BY BucketExists
<1>3. buckets' = [buckets EXCEPT ![Bucket(us)] = @ + 1] /\ count' = count + 1
  BY DEF Record
<1>4. \A b \in Bins : buckets[b] <= count
  BY DEF Counters
<1>5. \A b \in Bins : buckets'[b] = IF b = Bucket(us) THEN buckets[b] + 1 ELSE buckets[b]
  BY <1>1, <1>3
<1>6. \A b \in Bins : buckets'[b] <= count' /\ buckets'[b] \in 0 .. MaxRecords
  BY <1>1, <1>3, <1>4, <1>5
<1>7. buckets' \in [Bins -> 0 .. MaxRecords]
  BY <1>1, <1>3, <1>6
<1> QED
  BY <1>6, <1>7

LEMMA CountersKept ==
  ASSUME Types, Counters, [Next]_vars
  PROVE  Counters'
<1> USE DEF Counters
<1>0. count \in Nat /\ base \in Nat
  BY DEF Types, TypeOK, ProfilerTypeOK
<1>1. CASE Recorded
  <2>1. PICK us \in Nat : Record(us) /\ count < MaxRecords /\ UNCHANGED << reader, line >>
    BY <1>1 DEF Recorded
  <2>2. \A b \in Bins : buckets'[b] <= count'
    BY <2>1, BucketsKept
  <2> QED
    BY <2>1, <2>2, <1>0 DEF Record, reader
<1>2. CASE Reset
  BY <1>2 DEF Reset, LpReset, Prompt
<1>3. CASE UNCHANGED stats
  <2>1. base' \in {base, sampleIdx, 0}
    <3>1. CASE Report /\ UNCHANGED line
      BY <3>1 DEF Report, CheckCount, Divide, PrintLine, PrintBucket, BeginDump, RowIndex, Row
    <3>2. CASE \E e \in Elapsed : Probe(e) /\ UNCHANGED line
      BY <3>2 DEF Probe, reader
    <3>3. CASE \E c \in Letters : TypeLetter(c)
      BY <3>3 DEF TypeLetter, AtPrompt, reader
    <3>4. CASE Backspace \/ EnterOther
      BY <3>4 DEF Backspace, EnterOther, AtPrompt, reader
    <3>5. CASE EnterLatency \/ LatencyReturns \/ EnterReset \/ Reset
      BY <3>5 DEF EnterLatency, LatencyReturns, EnterReset, Reset, Prompt
    <3>6. CASE UNCHANGED vars
      BY <3>6 DEF vars, reader
    <3> QED
      BY <3>1, <3>2, <3>3, <3>4, <3>5, <3>6 DEF Next
  <2> QED
    BY <1>3, <2>1, <1>0 DEF stats
<1> QED
  BY <1>1, <1>2, <1>3, StepKinds

LEMMA RingKept ==
  ASSUME Types, Counters, RingInOrder, [Next]_vars
  PROVE  RingInOrder'
<1>0. /\ sampleIdx \in Nat
      /\ samples \in [0 .. RingLength - 1 -> [us : 0 .. SampleMax, nth : -1 .. MaxRecords - 1]]
      /\ RingLength \in Nat \ {0}
  BY ProfilerAssumption DEF Types, TypeOK, ProfilerTypeOK
<1>1. CASE Recorded
  <2>1. PICK us \in Nat : Record(us)
    BY <1>1 DEF Recorded
  <2>2. /\ sampleIdx' = sampleIdx + 1
        /\ samples' = [samples EXCEPT ![sampleIdx % RingLength] =
                          [us |-> Lower(us, SampleMax), nth |-> sampleIdx]]
    BY <2>1 DEF Record
  <2>3. sampleIdx % RingLength \in 0 .. RingLength - 1
    BY <1>0, Slot
  <2>4. SUFFICES ASSUME NEW n \in 0 .. sampleIdx
                 PROVE  /\ samples'[n % RingLength].nth \in n .. sampleIdx
                        /\ Oldest(sampleIdx + 1) <= n => samples'[n % RingLength].nth = n
    <3>1. sampleIdx' - 1 = sampleIdx
      BY <1>0, <2>2
    <3> QED
      BY <2>2, <3>1, Zenon DEF RingInOrder
  <2>n. n \in Nat
    BY <1>0
  <2>5. n % RingLength \in 0 .. RingLength - 1
    BY <2>n, Slot
  <2>6. CASE n = sampleIdx
    BY <1>0, <2>2, <2>3, <2>6
  <2>7. CASE n < sampleIdx
    <3>1. /\ samples[n % RingLength].nth \in n .. sampleIdx - 1
          /\ Oldest(sampleIdx) <= n => samples[n % RingLength].nth = n
      <4>1. n \in 0 .. sampleIdx - 1
        BY <1>0, <2>7
      <4> QED
        BY <4>1, Zenon DEF RingInOrder
    <3>2. CASE n % RingLength = sampleIdx % RingLength
      <4>1. ~(sampleIdx < n + RingLength)
        BY <1>0, <2>n, <2>7, <3>2, SlotsDiffer
      <4>2. samples'[n % RingLength].nth = sampleIdx
        BY <1>0, <2>2, <2>3, <3>2
      <4> QED
        BY <1>0, <4>1, <4>2 DEF Oldest
    <3>3. CASE n % RingLength # sampleIdx % RingLength
      <4>1. samples'[n % RingLength] = samples[n % RingLength]
        BY <1>0, <2>2, <2>5, <3>3
      <4> QED
        BY <1>0, <3>1, <4>1 DEF Oldest
    <3> QED
      BY <3>2, <3>3
  <2> QED
    BY <1>0, <2>6, <2>7
<1>2. CASE Reset
  BY <1>2 DEF Reset, LpReset, RingInOrder
<1>3. CASE UNCHANGED stats
  BY <1>3 DEF stats, RingInOrder
<1> QED
  BY <1>1, <1>2, <1>3, StepKinds

LEMMA HistogramKept ==
  ASSUME Types, Counters, PlotAgreesWithHistogram, [Next]_vars
  PROVE  PlotAgreesWithHistogram'
<1>0. /\ sampleIdx \in Nat
      /\ samples \in [0 .. RingLength - 1 -> [us : 0 .. SampleMax, nth : -1 .. MaxRecords - 1]]
      /\ buckets \in [Bins -> 0 .. MaxRecords]
      /\ RingLength \in Nat \ {0}
  BY ProfilerAssumption DEF Types, TypeOK, ProfilerTypeOK
<1>1. CASE Recorded
  <2>1. PICK us \in Nat : Record(us)
    BY <1>1 DEF Recorded
  <2>2. /\ sampleIdx' = sampleIdx + 1
        /\ samples' = [samples EXCEPT ![sampleIdx % RingLength] =
                          [us |-> Lower(us, SampleMax), nth |-> sampleIdx]]
        /\ buckets' = [buckets EXCEPT ![Bucket(us)] = @ + 1]
    BY <2>1 DEF Record
  <2>3. SUFFICES ASSUME sampleIdx < RingLength, NEW b \in Bins
                 PROVE  buckets'[b] =
                          Cardinality({i \in 0 .. sampleIdx' - 1 : InBin(samples'[i].us, b)})
    BY <1>0, <2>2 DEF PlotAgreesWithHistogram
  <2> DEFINE before == {i \in 0 .. sampleIdx - 1 : InBin(samples[i].us, b)}
             after  == {i \in 0 .. sampleIdx' - 1 : InBin(samples'[i].us, b)}
  <2>4. sampleIdx % RingLength = sampleIdx
    BY <1>0, <2>3, Slot
  <2>5. samples'[sampleIdx].us = Lower(us, SampleMax)
    BY <1>0, <2>2, <2>3, <2>4
  <2>6. \A i \in 0 .. sampleIdx - 1 : samples'[i] = samples[i]
    BY <1>0, <2>2, <2>3, <2>4
  <2>7. InBin(samples'[sampleIdx].us, b) <=> b = Bucket(us)
    BY <2>5, BucketIsBin
  <2>8. sampleIdx' - 1 = sampleIdx
    BY <1>0, <2>2
  <2>9. after = IF b = Bucket(us) THEN before \cup {sampleIdx} ELSE before
    BY <1>0, <2>6, <2>7, <2>8
  <2>10. IsFiniteSet(before) /\ sampleIdx \notin before
    <3>1. IsFiniteSet(0 .. sampleIdx - 1)
      BY <1>0, FS_Interval
    <3> QED
      BY <3>1, <1>0, FS_Subset
  <2>11. buckets[b] = Cardinality(before)
    BY <1>0, <2>3 DEF PlotAgreesWithHistogram
  <2>12. buckets'[b] = IF b = Bucket(us) THEN buckets[b] + 1 ELSE buckets[b]
    BY <1>0, <2>2
  <2> HIDE DEF before, after
  <2>13. buckets'[b] = Cardinality(after)
    <3>1. Cardinality(before \cup {sampleIdx}) = Cardinality(before) + 1
      BY <2>10, FS_AddElement
    <3> QED
      BY <2>9, <2>11, <2>12, <3>1, Zenon
  <2> QED
    BY <2>13 DEF after
<1>2. CASE Reset
  <2>1. sampleIdx' = 0 /\ buckets' = [b \in Bins |-> 0]
    BY <1>2 DEF Reset, LpReset
  <2>2. \A b \in Bins : {i \in 0 .. sampleIdx' - 1 : InBin(samples'[i].us, b)} = {}
    BY <2>1
  <2> QED
    BY <2>1, <2>2, FS_EmptySet DEF PlotAgreesWithHistogram
<1>3. CASE UNCHANGED stats
  BY <1>3 DEF stats, PlotAgreesWithHistogram
<1> QED
  BY <1>1, <1>2, <1>3, StepKinds

LEMMA Products ==
  ASSUME NEW a \in Nat, NEW b \in Nat, a <= b, NEW n \in Nat
  PROVE  /\ a * n \in Nat /\ b * n \in Nat
         /\ a * n <= b * n
         /\ b * (n + 1) = b * n + b
<1>1. a * n \in Nat /\ b * n \in Nat
  BY SMT
<1>2. PICK d \in Nat : b = a + d
  <2>1. b - a \in Nat /\ b = a + (b - a)
    OBVIOUS
  <2> QED
    BY <2>1
<1>3. b * n = a * n + d * n /\ d * n \in Nat
  BY <1>2, SMT
<1>4. b * (n + 1) = b * n + b
  BY SMT
<1> QED
  BY <1>1, <1>3, <1>4

LEMMA SumKept ==
  ASSUME Types, Counters, SumFits, [Next]_vars
  PROVE  SumFits' /\ (~Reset => maxUs * sampleIdx <= maxUs' * sampleIdx')
<1>0. /\ sampleIdx \in Nat /\ maxUs \in Nat /\ sumUs \in Nat /\ minUs \in Nat
      /\ count = sampleIdx
  BY DEF Types, TypeOK, ProfilerTypeOK, Counters
<1>1. CASE Recorded
  <2>1. PICK us \in Nat : Record(us)
    BY <1>1 DEF Recorded
  <2>2. /\ sampleIdx' = sampleIdx + 1 /\ count' = count + 1
        /\ maxUs' = (IF us > maxUs THEN us ELSE maxUs) /\ minUs' = Lower(us, minUs)
        /\ sumUs' = (sumUs + us) % WordMod
    BY <2>1 DEF Record
  <2>3. sumUs' <= sumUs + us
    <3>1. sumUs + us \in Nat
      BY <1>0
    <3> QED
      BY <3>1, <2>2, Wraps
  <2>4. sumUs' \in Nat
    <3>1. sumUs + us \in Nat
      BY <1>0
    <3> QED
      BY <3>1, <2>2, Wraps
  <2>5. maxUs' \in Nat /\ maxUs <= maxUs' /\ us <= maxUs'
    BY <1>0, <2>2
  <2>6. /\ maxUs * sampleIdx \in Nat /\ maxUs' * sampleIdx \in Nat
        /\ maxUs * sampleIdx <= maxUs' * sampleIdx
        /\ maxUs' * (sampleIdx + 1) = maxUs' * sampleIdx + maxUs'
    BY <1>0, <2>5, Products
  <2>8. minUs' <= maxUs'
    BY <1>0, <2>2 DEF Lower
  <2>7. sumUs <= maxUs * sampleIdx
    BY DEF SumFits
  <2>9. sumUs' <= maxUs' * sampleIdx' /\ maxUs * sampleIdx <= maxUs' * sampleIdx'
    BY <1>0, <2>2, <2>3, <2>4, <2>5, <2>6, <2>7
  <2> QED
    BY <2>8, <2>9 DEF SumFits
<1>2. CASE Reset
  <2>1. sumUs' = 0 /\ maxUs' = 0 /\ sampleIdx' = 0 /\ count' = 0
    BY <1>2 DEF Reset, LpReset
  <2> QED
    BY <1>2, <2>1 DEF SumFits
<1>3. CASE UNCHANGED stats
  <2>1. maxUs * sampleIdx \in Int
    BY <1>0
  <2> QED
    BY <1>3, <2>1 DEF stats, SumFits
<1> QED
  BY <1>1, <1>2, <1>3, StepKinds

(* The quotient of a sum that fits, times a smaller divisor, fits. *)
LEMMA Quotient ==
  ASSUME NEW sum \in Nat, NEW number \in Nat, NEW less \in Nat, 0 < less, less <= number
  PROVE  sum \div number \in Nat /\ (sum \div number) * less <= sum
<1> DEFINE q == sum \div number
           r == sum % number
<1>1. q \in Nat /\ r \in 0 .. number - 1 /\ sum = number * q + r
  BY SMT
<1> HIDE DEF q, r
<1>2. q * less <= q * number
  BY <1>1, SMT
<1>3. q * number = number * q /\ q * less \in Nat
  BY <1>1, SMT
<1> QED
  BY <1>1, <1>2, <1>3 DEF q

LEMMA PrintedKept ==
  ASSUME Types, Counters, SumFits, PrintedFits, [Next]_vars
  PROVE  PrintedFits'
<1>0. /\ sampleIdx \in Nat /\ maxUs \in Nat /\ sumUs \in Nat /\ minUs \in Nat
      /\ base \in Nat /\ counted \in Nat /\ loaded \in Nat
      /\ count = sampleIdx /\ base <= sampleIdx
      /\ printed \in [samples : Nat, min : Nat, max : Nat, average : Nat, histogram : Nat]
      /\ sumUs <= maxUs * sampleIdx
      /\ count > 0 => minUs <= maxUs
  BY DEF Types, TypeOK, ProfilerTypeOK, Counters, SumFits
<1>1. CASE Recorded
  <2>1. PICK us \in Nat : Record(us) /\ UNCHANGED << reader, line >>
    BY <1>1 DEF Recorded
  <2>2. /\ sampleIdx' = sampleIdx + 1
        /\ maxUs' = (IF us > maxUs THEN us ELSE maxUs)
        /\ UNCHANGED << pc, counted, loaded, base, printed >>
    BY <2>1 DEF Record, reader
  <2>3. ~Reset
    BY <1>0, <2>2 DEF Reset, LpReset
  <2>4. maxUs * sampleIdx <= maxUs' * sampleIdx'
    BY <2>3, SumKept
  <2>5. maxUs' \in Nat /\ maxUs <= maxUs'
    BY <1>0, <2>2
  <2>6. /\ maxUs * sampleIdx \in Nat /\ maxUs' * sampleIdx' \in Nat
    BY <1>0, <2>2, <2>5
  <2>7. /\ printed.average * base \in Nat /\ printed.max * sampleIdx \in Nat
        /\ printed.max * (sampleIdx + 1) = printed.max * sampleIdx + printed.max
        /\ printed.min \in Nat /\ printed.max \in Nat
    BY <1>0, Products
  <2> QED
    BY <1>0, <2>2, <2>4, <2>5, <2>6, <2>7 DEF PrintedFits, NumbersFit
<1>2. CASE Divide
  <2>1. /\ pc = "average" /\ pc' = "samples" /\ UNCHANGED << maxUs, sampleIdx, base >>
        /\ \E sum \in {loaded, sumUs}, number \in {counted, count} :
             printed' = [printed EXCEPT !.average = sum \div number]
    BY <1>2 DEF Divide, Goto, stats
  <2>2. PICK sum \in {loaded, sumUs}, number \in {counted, count} :
          printed' = [printed EXCEPT !.average = sum \div number]
    BY <2>1
  <2>3. /\ sum \in Nat /\ sum <= maxUs * sampleIdx
        /\ number \in Nat /\ 0 < base /\ base <= number
    BY <1>0, <2>1 DEF PrintedFits
  <2>4. (sum \div number) * base <= sum /\ sum \div number \in Nat
    BY <1>0, <2>3, Quotient
  <2>5. printed'.average = sum \div number
    BY <1>0, <2>2
  <2>6. printed'.average * base <= maxUs * sampleIdx
    <3> HIDE <2>2
    <3>1. printed'.average \in Nat /\ printed'.average * base <= sum
      BY <2>4, <2>5
    <3>2. printed'.average * base \in Nat /\ maxUs * sampleIdx \in Nat
      BY <1>0, <3>1
    <3> QED
      BY <2>3, <3>1, <3>2
  <2> QED
    BY <2>1, <2>3, <2>6 DEF PrintedFits, NumbersFit
<1>3. CASE CheckCount
  BY <1>0, <1>3 DEF CheckCount, Goto, stats, PrintedFits, NumbersFit
<1>4. CASE PrintLine
  <2>1. /\ UNCHANGED << maxUs, minUs, sampleIdx, base >>
        /\ pc \in {"samples", "min", "max"} /\ pc' = Lines[pc]
        /\ printed' = [printed EXCEPT ![pc] = Value(pc)]
    BY <1>4 DEF PrintLine, Lines, Goto, stats
  <2>2. 0 < base /\ printed.average * base <= maxUs * sampleIdx /\ minUs <= maxUs
    BY <1>0, <2>1 DEF PrintedFits
  <2>3. printed'.average = printed.average
    BY <1>0, <2>1
  <2>4. CASE pc = "samples"
    BY <2>1, <2>2, <2>3, <2>4 DEF Lines, PrintedFits, NumbersFit
  <2>5. CASE pc = "min"
    <3>1. printed'.min = minUs
      BY <1>0, <2>1, <2>5 DEF Value
    <3> QED
      BY <2>1, <2>2, <2>3, <2>5, <3>1 DEF Lines, PrintedFits, NumbersFit
  <2>6. CASE pc = "max"
    <3>1. printed'.max = maxUs /\ printed'.min = printed.min
      BY <1>0, <2>1, <2>6 DEF Value
    <3>2. printed.min <= maxUs
      BY <2>6 DEF PrintedFits
    <3> QED
      BY <2>1, <2>2, <2>3, <2>6, <3>1, <3>2 DEF Lines, PrintedFits, NumbersFit
  <2> QED
    BY <2>1, <2>4, <2>5, <2>6
<1>5. CASE PrintBucket
  <2>1. /\ UNCHANGED << maxUs, minUs, sampleIdx, base >>
        /\ pc = "histogram" /\ pc' \in {"dump", "histogram"}
        /\ printed' = [printed EXCEPT !.histogram = @ + buckets[pos]]
    BY <1>5 DEF PrintBucket, Goto, stats
  <2>2. /\ printed'.min = printed.min /\ printed'.max = printed.max
        /\ printed'.average = printed.average
    BY <1>0, <2>1
  <2> QED
    BY <2>1, <2>2 DEF PrintedFits, NumbersFit
<1>6. CASE BeginDump \/ RowIndex \/ Row \/ EnterLatency \/ LatencyReturns \/ EnterReset \/ Reset
  BY <1>6 DEF BeginDump, RowIndex, Row, EnterLatency, LatencyReturns, EnterReset, Reset,
              Prompt, Goto, PrintedFits, NumbersFit
<1>7. CASE (\E c \in Letters : TypeLetter(c)) \/ Backspace \/ EnterOther
  <2>1. pc' = "prompt"
    BY <1>7 DEF TypeLetter, Backspace, EnterOther, AtPrompt, reader
  <2> QED
    BY <2>1 DEF PrintedFits, NumbersFit
<1>8. CASE UNCHANGED vars
  BY <1>8 DEF vars, stats, reader, PrintedFits, NumbersFit
<1>9. CASE \E e \in Elapsed : Probe(e) /\ UNCHANGED line
  BY <1>1, <1>9, ProbeRecords
<1> QED
  BY <1>2, <1>3, <1>4, <1>5, <1>6, <1>7, <1>8, <1>9 DEF Next, Report

-----------------------------------------------------------------------------
(* The dump *)

LEMMA OldestGrows ==
  ASSUME NEW s \in Nat, NEW t \in Nat, s <= t
  PROVE  /\ Oldest(s) \in Nat /\ Oldest(s) <= s
         /\ Oldest(s) <= Oldest(t)
         /\ Oldest(t) - Oldest(s) <= t - s
BY ProfilerAssumption DEF Oldest

LEMMA MissingFinite ==
  ASSUME NEW first \in Int, NEW rs, NEW f \in Int
  PROVE  IsFiniteSet(MissingIn(first, rs, f)) /\ Cardinality(MissingIn(first, rs, f)) \in Nat
<1>1. IsFiniteSet(first .. f - 1)
  BY FS_Interval
<1>2. MissingIn(first, rs, f) \subseteq first .. f - 1
  BY DEF MissingIn
<1> QED
  BY <1>1, <1>2, FS_Subset, FS_CardinalityType

(* Going on to the g-th sample adds no more than the samples between.      *)
LEMMA MissingGrows ==
  ASSUME NEW first \in Int, NEW rs, NEW f \in Int, NEW g \in Int, f <= g
  PROVE  Cardinality(MissingIn(first, rs, g)) <= Cardinality(MissingIn(first, rs, f)) + (g - f)
<1> DEFINE A == MissingIn(first, rs, f)
           B == MissingIn(first, rs, g)
           C == f .. g - 1
<1>1. B \subseteq A \cup C
  BY DEF MissingIn
<1>2. IsFiniteSet(C) /\ Cardinality(C) = g - f
  <2>1. g - 1 \in Int
    OBVIOUS
  <2>2. /\ IsFiniteSet(f .. g - 1)
        /\ Cardinality(f .. g - 1) = IF f > g - 1 THEN 0 ELSE (g - 1) - f + 1
    BY <2>1, FS_Interval
  <2> QED
    BY <2>2
<1>3. IsFiniteSet(A) /\ Cardinality(A) \in Nat
  BY MissingFinite
<1> HIDE DEF A, B, C
<1>4. /\ IsFiniteSet(A \cup C) /\ IsFiniteSet(A \cap C)
      /\ Cardinality(A \cup C) = Cardinality(A) + Cardinality(C) - Cardinality(A \cap C)
  BY <1>2, <1>3, FS_Union, FS_Intersection
<1>5. Cardinality(A \cap C) \in Nat
  BY <1>4, FS_CardinalityType
<1>6. IsFiniteSet(B) /\ Cardinality(B) <= Cardinality(A \cup C)
  BY <1>1, <1>4, FS_Subset
<1>7. Cardinality(B) \in Nat
  BY <1>6, FS_CardinalityType
<1> QED
  BY <1>2, <1>3, <1>4, <1>5, <1>6, <1>7 DEF A, B

(* A row more leaves no more samples out; that of the f-th sample lets the *)
(* dump go on behind it for nothing.                                       *)
LEMMA MissingShrinks ==
  ASSUME NEW first \in Int, NEW rs \in Seq(Int), NEW v \in Int, NEW f \in Int
  PROVE  /\ Cardinality(MissingIn(first, Append(rs, v), f)) <= Cardinality(MissingIn(first, rs, f))
         /\ v = f => Cardinality(MissingIn(first, Append(rs, v), f + 1))
                       <= Cardinality(MissingIn(first, rs, f))
<1> DEFINE more == Append(rs, v)
<1>1. /\ Len(rs) \in Nat /\ Len(more) = Len(rs) + 1 /\ more[Len(rs) + 1] = v
      /\ \A j \in 1 .. Len(rs) : more[j] = rs[j]
  OBVIOUS
<1> HIDE DEF more
<1>2. MissingIn(first, more, f) \subseteq MissingIn(first, rs, f)
  BY <1>1 DEF MissingIn
<1>3. v = f => MissingIn(first, more, f + 1) \subseteq MissingIn(first, rs, f)
  <2> SUFFICES ASSUME v = f, NEW n \in MissingIn(first, more, f + 1)
               PROVE  n \in MissingIn(first, rs, f)
    OBVIOUS
  <2>1. n \in first .. f /\ \A j \in 1 .. Len(rs) + 1 : more[j] # n
    BY <1>1 DEF MissingIn
  <2>2. n # f /\ \A j \in 1 .. Len(rs) : rs[j] # n
    BY <2>1, <1>1
  <2> QED
    BY <2>1, <2>2 DEF MissingIn
<1> QED
  BY <1>2, <1>3, MissingFinite, FS_Subset DEF more

(* A row finds the sample it was addressed to or a newer one, and that     *)
(* sample if none was recorded since.                                      *)
LEMMA RowFinds ==
  ASSUME Types, Counters, RingInOrder, RowsFit, pc = "row", pos < total,
         NEW s \in base .. sampleIdx, Addressed(s)
  PROVE  /\ samples[loaded].nth \in Oldest(s) + pos .. sampleIdx - 1
         /\ s = sampleIdx => samples[loaded].nth = Oldest(s) + pos
         /\ s \in Nat /\ Oldest(s) \in Nat
         /\ base - total <= Oldest(s)
<1>0. /\ sampleIdx \in Nat /\ base \in Nat /\ pos \in Nat
      /\ total \in 0 .. RingLength /\ RingLength \in Nat \ {0}
      /\ Oldest(base) = base - total
  BY ProfilerAssumption DEF Types, TypeOK, ProfilerTypeOK, RowsFit
<1>1. s \in Nat /\ base <= s /\ s <= sampleIdx
  BY <1>0
<1>2. /\ Oldest(base) \in Nat /\ Oldest(s) \in Nat
      /\ Oldest(base) <= Oldest(s)
  BY <1>0, <1>1, OldestGrows
<1>3. Oldest(s) + pos \in Nat /\ Oldest(s) + pos < s
  BY <1>0, <1>1, <1>2 DEF Oldest
<1>4. Oldest(s) + pos \in 0 .. sampleIdx - 1
  BY <1>0, <1>1, <1>3
<1>5. loaded = (Oldest(s) + pos) % RingLength
  BY DEF Addressed
<1> DEFINE n == Oldest(s) + pos
<1> HIDE DEF n
<1>6. /\ samples[n % RingLength].nth \in n .. sampleIdx - 1
      /\ Oldest(sampleIdx) <= n => samples[n % RingLength].nth = n
  BY <1>4, Zenon DEF RingInOrder, n
<1>7. s = sampleIdx => Oldest(sampleIdx) <= n
  BY <1>0, <1>2 DEF n
<1> QED
  BY <1>0, <1>1, <1>2, <1>5, <1>6, <1>7, Zenon DEF n

LEMMA RowsKept ==
  ASSUME Types, Counters, RingInOrder, RowsFit, FewMissing, [Next]_vars
  PROVE  RowsFit'
<1>0. /\ sampleIdx \in Nat /\ base \in Nat /\ pos \in Nat /\ total \in Nat
      /\ base <= sampleIdx /\ rows \in Seq(Int)
      /\ RingLength \in Nat \ {0}
  BY ProfilerAssumption DEF Types, TypeOK, ProfilerTypeOK, Counters
<1>1. CASE Recorded
  <2>1. sampleIdx' = sampleIdx + 1 /\ UNCHANGED << pc, rows, base, total, pos >>
    BY <1>1 DEF Recorded, Record, reader
  <2> QED
    BY <1>0, <2>1 DEF RowsFit
<1>2. CASE BeginDump
  <2>1. /\ rows = << >> /\ rows' = << >> /\ pc' = "index" /\ pos' = 0
        /\ base' = sampleIdx /\ total' = Lower(sampleIdx, RingLength)
    BY <1>2 DEF BeginDump, Goto, RowsFit
  <2>2. Oldest(base') = base' - total' /\ pos' <= total'
    BY <1>0, <2>1 DEF Oldest, Lower
  <2> QED
    BY <2>1, <2>2 DEF RowsFit
<1>3. CASE RowIndex
  BY <1>3 DEF RowIndex, Goto, stats, RowsFit
<1>4. CASE Row
  <2>1. /\ pc = "row" /\ pc' = "index" /\ pos' = pos + 1
        /\ rows' = Append(rows, samples[loaded].nth)
        /\ UNCHANGED << sampleIdx, base, total >>
    BY <1>4 DEF Row, Goto, stats
  <2>2. PICK s \in base .. sampleIdx : Addressed(s)
    BY <2>1 DEF FewMissing
  <2>3. /\ pos < total /\ Len(rows) = pos /\ Oldest(base) = base - total
        /\ \A j \in 1 .. pos :
             /\ base - total + j - 1 <= rows[j] /\ rows[j] < sampleIdx
             /\ sampleIdx = base => rows[j] = base - total + j - 1
    BY <2>1 DEF FewMissing, RowsFit
  <2> DEFINE v == samples[loaded].nth
  <2>4. /\ v \in Oldest(s) + pos .. sampleIdx - 1
        /\ s = sampleIdx => v = Oldest(s) + pos
        /\ s \in Nat /\ Oldest(s) \in Nat
        /\ base - total <= Oldest(s)
    BY <2>1, <2>2, <2>3, RowFinds
  <2>5. rows' = Append(rows, v)
    BY <2>1
  <2> HIDE DEF v
  <2>6. /\ v \in Int /\ base - total + pos <= v /\ v < sampleIdx
        /\ sampleIdx = base => v = base - total + pos
    BY <1>0, <2>2, <2>3, <2>4
  <2>7. /\ Len(rows') = pos + 1 /\ rows'[pos + 1] = v
        /\ \A j \in 1 .. pos : rows'[j] = rows[j]
    BY <1>0, <2>3, <2>5, <2>6
  <2>8. ASSUME NEW j \in 1 .. pos + 1
        PROVE  /\ base - total + j - 1 <= rows'[j] /\ rows'[j] < sampleIdx
               /\ sampleIdx = base => rows'[j] = base - total + j - 1
    <3>1. CASE j = pos + 1
      BY <1>0, <3>1, <2>6, <2>7
    <3>2. CASE j \in 1 .. pos
      BY <3>2, <2>3, <2>7
    <3> QED
      BY <1>0, <3>1, <3>2
  <2> QED
    BY <1>0, <2>1, <2>3, <2>7, <2>8 DEF RowsFit
<1>5. CASE CheckCount \/ Divide \/ PrintLine \/ PrintBucket
  <2>1. pc \notin {"index", "row"} /\ pc' \notin {"index", "row"} /\ rows' = rows
    BY <1>5 DEF CheckCount, Divide, PrintLine, PrintBucket, Lines, Goto
  <2> QED
    BY <2>1 DEF RowsFit
<1>6. CASE LatencyReturns \/ Reset
  BY <1>6 DEF LatencyReturns, Reset, Prompt, Goto, RowsFit
<1>7. CASE (\E c \in Letters : TypeLetter(c)) \/ Backspace \/ EnterOther
           \/ EnterLatency \/ EnterReset
  <2>1. pc = "prompt" /\ pc' \in {"prompt", "count", "reset"} /\ rows' = rows
    BY <1>7 DEF TypeLetter, Backspace, EnterOther, EnterLatency, EnterReset, AtPrompt, Goto, reader
  <2> QED
    BY <2>1 DEF RowsFit
<1>8. CASE UNCHANGED vars
  BY <1>8 DEF vars, stats, reader, RowsFit
<1>9. CASE \E e \in Elapsed : Probe(e) /\ UNCHANGED line
  BY <1>1, <1>9, ProbeRecords
<1> QED
  BY <1>2, <1>3, <1>4, <1>5, <1>6, <1>7, <1>8, <1>9 DEF Next, Report

LEMMA MissingKept ==
  ASSUME Types, Counters, RingInOrder, RowsFit, FewMissing, [Next]_vars
  PROVE  FewMissing'
<1>0. /\ sampleIdx \in Nat /\ base \in Nat /\ pos \in Nat
      /\ total \in 0 .. RingLength /\ base <= sampleIdx /\ rows \in Seq(Int)
      /\ RingLength \in Nat \ {0}
  BY ProfilerAssumption DEF Types, TypeOK, ProfilerTypeOK, Counters
<1> DEFINE first == base - total
<1>1. CASE Recorded
  <2>1. sampleIdx' = sampleIdx + 1 /\ UNCHANGED << pc, rows, base, total, pos, loaded >>
    BY <1>1 DEF Recorded, Record, reader
  <2>2. CASE pc = "index"
    <3> DEFINE f == Oldest(sampleIdx) + pos
               g == Oldest(sampleIdx + 1) + pos
    <3>1. f \in Int /\ g \in Int /\ f <= g /\ g - f <= 1
      <4>1. sampleIdx + 1 \in Nat /\ sampleIdx <= sampleIdx + 1
        BY <1>0
      <4>2. /\ Oldest(sampleIdx) \in Nat /\ Oldest(sampleIdx) <= Oldest(sampleIdx + 1)
            /\ Oldest(sampleIdx + 1) - Oldest(sampleIdx) <= sampleIdx + 1 - sampleIdx
        BY <1>0, <4>1, OldestGrows
      <4>3. Oldest(sampleIdx + 1) \in Nat
        BY <4>1, OldestGrows
      <4> QED
        BY <1>0, <4>2, <4>3
    <3>2. first \in Int /\ Cardinality(MissingIn(first, rows, f)) <= 2 * (sampleIdx - base)
      BY <1>0, <2>2 DEF FewMissing, Missing
    <3>3. /\ Cardinality(MissingIn(first, rows, f)) \in Nat
          /\ Cardinality(MissingIn(first, rows, g)) \in Nat
          /\ Cardinality(MissingIn(first, rows, g)) <=
               Cardinality(MissingIn(first, rows, f)) + (g - f)
      <4> HIDE DEF f, g, first
      <4> QED
        BY <3>1, <3>2, MissingFinite, MissingGrows
    <3>4. Cardinality(MissingIn(first, rows, g)) <= 2 * (sampleIdx + 1 - base)
      <4> HIDE DEF f, g, first
      <4> QED
        BY <1>0, <3>1, <3>2, <3>3
    <3>5. Cardinality(MissingIn(base' - total', rows', Oldest(sampleIdx') + pos'))
            <= 2 * (sampleIdx' - base')
      <4>1. base' - total' = first /\ rows' = rows
        BY <2>1
      <4>2. Oldest(sampleIdx') + pos' = g
        BY <2>1, Zenon
      <4>3. 2 * (sampleIdx' - base') = 2 * (sampleIdx + 1 - base)
        BY <1>0, <2>1
      <4> HIDE DEF f, g, first
      <4> QED
        BY <3>4, <4>1, <4>2, <4>3
    <3>6. pc' # "row"
      BY <2>1, <2>2
    <3> QED
      BY <3>5, <3>6, Zenon DEF FewMissing, Missing
  <2>3. CASE pc = "row"
    <3>1. PICK s \in base .. sampleIdx : Addressed(s)
      BY <2>3 DEF FewMissing
    <3>2. s \in base .. sampleIdx' /\ Addressed(s)'
      BY <1>0, <2>1, <3>1 DEF Addressed, Missing
    <3>3. pos < total
      BY <2>3 DEF FewMissing
    <3> QED
      BY <2>1, <2>3, <3>2, <3>3 DEF FewMissing
  <2> QED
    BY <2>1, <2>2, <2>3 DEF FewMissing
<1>2. CASE BeginDump
  <2>1. /\ rows = << >> /\ rows' = << >> /\ pc' = "index" /\ pos' = 0
        /\ base' = sampleIdx /\ total' = Lower(sampleIdx, RingLength)
        /\ sampleIdx' = sampleIdx
    BY <1>2 DEF BeginDump, Goto, RowsFit, stats
  <2>2. /\ Oldest(sampleIdx') + pos' = base' - total'
        /\ 2 * (sampleIdx' - base') = 0
    BY <1>0, <2>1 DEF Oldest, Lower
  <2>3. base' - total' \in Int
    BY <1>0, <2>1 DEF Lower
  <2>4. MissingIn(base' - total', rows', base' - total') = {}
    BY <2>3 DEF MissingIn
  <2> QED
    BY <2>1, <2>2, <2>4, FS_EmptySet DEF FewMissing, Missing
<1>3. CASE RowIndex
  <2>1. /\ pc = "index" /\ pc' = "row" /\ pos < total
        /\ loaded' = (IF sampleIdx >= RingLength THEN (sampleIdx + pos) % RingLength ELSE pos)
        /\ UNCHANGED << sampleIdx, base, total, rows, pos >>
    BY <1>3 DEF RowIndex, Goto, stats
  <2>2. loaded' = (Oldest(sampleIdx) + pos) % RingLength
    <3>1. CASE sampleIdx >= RingLength
      <4>1. sampleIdx - RingLength + pos \in Nat
        BY <1>0, <3>1
      <4>2. (sampleIdx - RingLength + pos + RingLength) % RingLength
              = (sampleIdx - RingLength + pos) % RingLength
        BY <4>1, SlotAgain
      <4>3. sampleIdx - RingLength + pos + RingLength = sampleIdx + pos
        BY <1>0
      <4>4. Oldest(sampleIdx) = sampleIdx - RingLength
        BY <1>0, <3>1 DEF Oldest
      <4>5. loaded' = (sampleIdx + pos) % RingLength
        BY <2>1, <3>1
      <4> QED
        BY <4>2, <4>3, <4>4, <4>5
    <3>2. CASE sampleIdx < RingLength
      <4>1. pos % RingLength = pos
        <5>1. pos < RingLength
          BY <1>0, <2>1
        <5> QED
          BY <1>0, <5>1, Slot
      <4>2. Oldest(sampleIdx) + pos = pos
        BY <1>0, <3>2 DEF Oldest
      <4>3. loaded' = pos
        BY <1>0, <2>1, <3>2
      <4> QED
        BY <4>1, <4>2, <4>3
    <3> QED
      BY <1>0, <3>1, <3>2
  <2>3. Cardinality(Missing(Oldest(sampleIdx) + pos)) <= 2 * (sampleIdx - base)
    BY <2>1 DEF FewMissing
  <2>4. sampleIdx \in base .. sampleIdx
    BY <1>0
  <2>5. loaded' = (Oldest(sampleIdx') + pos') % RingLength
    BY <2>1, <2>2, Zenon
  <2>6. Cardinality(MissingIn(base' - total', rows', Oldest(sampleIdx') + pos'))
          <= 2 * (sampleIdx' - base')
    BY <2>1, <2>3 DEF Missing
  <2>7. Addressed(sampleIdx)'
    BY <2>5, <2>6, Zenon DEF Addressed, Missing
  <2>8. \E s \in base' .. sampleIdx' : Addressed(s)'
    BY <2>1, <2>4, <2>7
  <2>9. pos' < total' /\ pc' # "index"
    BY <2>1
  <2> QED
    BY <2>8, <2>9, Zenon DEF FewMissing
<1>4. CASE Row
  <2>1. /\ pc = "row" /\ pc' = "index" /\ pos' = pos + 1
        /\ rows' = Append(rows, samples[loaded].nth)
        /\ UNCHANGED << sampleIdx, base, total >>
    BY <1>4 DEF Row, Goto, stats
  <2>2. pos < total /\ \E s \in base .. sampleIdx : Addressed(s)
    BY <2>1 DEF FewMissing
  <2>3. PICK s \in base .. sampleIdx : Addressed(s)
    BY <2>2
  <2> DEFINE v == samples[loaded].nth
             f == Oldest(s) + pos
             g == Oldest(sampleIdx) + pos + 1
             M(h) == Cardinality(MissingIn(first, rows, h))
             N(h) == Cardinality(MissingIn(first, Append(rows, v), h))
  <2>4. /\ v \in Oldest(s) + pos .. sampleIdx - 1
        /\ s = sampleIdx => v = Oldest(s) + pos
        /\ s \in Nat /\ Oldest(s) \in Nat
    BY <2>1, <2>2, <2>3, RowFinds
  <2>5. /\ v \in Int /\ f \in Int /\ g \in Int /\ first \in Int
        /\ base <= s /\ s <= sampleIdx
        /\ f <= g /\ g - f <= sampleIdx - s + 1
        /\ s = sampleIdx => v = f /\ g = f + 1
    <3>1. base <= s /\ s <= sampleIdx
      BY <1>0, <2>3
    <3>2. /\ Oldest(s) <= Oldest(sampleIdx)
          /\ Oldest(sampleIdx) - Oldest(s) <= sampleIdx - s
      <4>1. s \in Nat
        BY <2>4
      <4> QED
        BY <1>0, <4>1, <3>1, OldestGrows
    <3>3. Oldest(sampleIdx) \in Nat
      BY <1>0, OldestGrows
    <3> QED
      BY <1>0, <2>4, <3>1, <3>2, <3>3
  <2>6. M(f) <= 2 * (s - base)
    BY <2>3 DEF Addressed, Missing
  <2> HIDE DEF v, f, g, first
  <2>7. /\ M(f) \in Nat /\ M(g) \in Nat /\ N(g) \in Nat
        /\ M(g) <= M(f) + (g - f)
        /\ N(g) <= M(g)
        /\ v = f => N(f + 1) <= M(f)
    BY <1>0, <2>5, MissingFinite, MissingGrows, MissingShrinks
  <2>8. N(g) <= 2 * (sampleIdx - base)
    <3> HIDE DEF M, N
    <3>1. CASE s = sampleIdx
      BY <1>0, <2>5, <2>6, <2>7, <3>1
    <3>2. CASE s < sampleIdx
      BY <1>0, <2>4, <2>5, <2>6, <2>7, <3>2
    <3> QED
      BY <1>0, <2>4, <2>5, <3>1, <3>2
  <2>9. Oldest(sampleIdx') + pos' = g
    <3>1. Oldest(sampleIdx) \in Nat
      BY <1>0, OldestGrows
    <3> QED
      BY <1>0, <2>1, <3>1 DEF g
  <2> QED
    BY <2>1, <2>8, <2>9 DEF FewMissing, Missing, v, first
<1>5. CASE CheckCount \/ Divide \/ PrintLine \/ PrintBucket
  <2>1. pc' \notin {"index", "row"}
    BY <1>5 DEF CheckCount, Divide, PrintLine, PrintBucket, Lines, Goto
  <2> QED
    BY <2>1 DEF FewMissing
<1>6. CASE LatencyReturns \/ Reset
  BY <1>6 DEF LatencyReturns, Reset, Prompt, Goto, FewMissing
<1>7. CASE (\E c \in Letters : TypeLetter(c)) \/ Backspace \/ EnterOther
           \/ EnterLatency \/ EnterReset
  <2>1. pc' \in {"prompt", "count", "reset"}
    BY <1>7 DEF TypeLetter, Backspace, EnterOther, EnterLatency, EnterReset, AtPrompt, Goto, reader
  <2> QED
    BY <2>1 DEF FewMissing
<1>8. CASE UNCHANGED vars
  BY <1>8 DEF vars, stats, reader, FewMissing, Addressed, Missing
<1>9. CASE \E e \in Elapsed : Probe(e) /\ UNCHANGED line
  BY <1>1, <1>9, ProbeRecords
<1> QED
  BY <1>2, <1>3, <1>4, <1>5, <1>6, <1>7, <1>8, <1>9 DEF Next, Report

-----------------------------------------------------------------------------
(* The other side: how far below the minimum the average can be, as long   *)
(* as n samples up to the maximum could not have made the sum wrap.        *)

(* A sum x covers b samples. *)
Covers(low, high, b, n, x) == high * n < WordMod => low * b <= x

(* An average a of it does, but for what the division cut off. *)
AtLeast(low, high, b, n, a) == high * n < WordMod => low * b < (a + 1) * n

LowFits ==
  /\ Covers(minUs, maxUs, sampleIdx, sampleIdx, sumUs)
  /\ pc = "average" => /\ 0 < counted /\ counted <= sampleIdx
                       /\ Covers(minUs, maxUs, base, sampleIdx, loaded)
  /\ pc \in {"samples", "min"} => AtLeast(minUs, maxUs, base, sampleIdx, printed.average)
  /\ pc = "max" => AtLeast(printed.min, maxUs, base, sampleIdx, printed.average)
  /\ pc = "histogram" => AtLeast(printed.min, printed.max, base, sampleIdx, printed.average)

(* One sample more: the minimum may fall, the maximum may rise. *)
LEMMA LowLater ==
  ASSUME NEW low \in Nat, NEW low2 \in Nat, low2 <= low,
         NEW high \in Nat, NEW high2 \in Nat, high <= high2,
         NEW b \in Nat, NEW n \in Nat, NEW x \in Nat
  PROVE  /\ Covers(low, high, b, n, x) => Covers(low2, high2, b, n + 1, x)
         /\ AtLeast(low, high, b, n, x) => AtLeast(low2, high2, b, n + 1, x)
<1>1. /\ high * n \in Nat /\ high2 * n \in Nat /\ high * n <= high2 * n
      /\ high2 * (n + 1) = high2 * n + high2
  BY Products
<1>2. low2 * b \in Nat /\ low * b \in Nat /\ low2 * b <= low * b
  BY Products
<1>3. (x + 1) * n \in Nat /\ (x + 1) * (n + 1) = (x + 1) * n + (x + 1)
  <2>1. x + 1 \in Nat /\ x + 1 <= x + 1
    OBVIOUS
  <2> QED
    BY <2>1, Products
<1>4. high2 * (n + 1) < WordMod => high * n < WordMod
  BY <1>1, ProfilerAssumption
<1>5. low * b <= x => low2 * b <= x
  BY <1>2
<1>6. low * b < (x + 1) * n => low2 * b < (x + 1) * (n + 1)
  BY <1>2, <1>3
<1> QED
  BY <1>4, <1>5, <1>6 DEF Covers, AtLeast

(* The sum does not wrap before it could. *)
LEMMA SumLater ==
  ASSUME NEW low \in Nat, NEW high \in Nat, NEW n \in Nat, NEW sum \in Nat, NEW us \in Nat,
         NEW low2 \in Nat, low2 <= low, low2 <= us,
         NEW high2 \in Nat, high <= high2, us <= high2,
         sum <= high * n, Covers(low, high, n, n, sum)
  PROVE  Covers(low2, high2, n + 1, n + 1, (sum + us) % WordMod)
<1>1. /\ high * n \in Nat /\ high2 * n \in Nat /\ high * n <= high2 * n
      /\ high2 * (n + 1) = high2 * n + high2
  BY Products
<1>2. /\ low2 * n \in Nat /\ low * n \in Nat /\ low2 * n <= low * n
  BY Products
<1>3. low2 * (n + 1) = low2 * n + low2
  <2>1. low2 <= low2
    OBVIOUS
  <2> QED
    BY <2>1, Products
<1> SUFFICES ASSUME high2 * (n + 1) < WordMod
             PROVE  low2 * (n + 1) <= (sum + us) % WordMod
  BY DEF Covers
<1>4. sum + us < WordMod /\ high * n < WordMod /\ WordMod \in Nat
  <2>1. WordMod \in Nat
    BY ProfilerAssumption
  <2> DEFINE x == high * n
             y == high2 * n
  <2>2. x \in Nat /\ y \in Nat /\ x <= y /\ sum <= x /\ y + high2 < WordMod
    BY <1>1
  <2> HIDE DEF x, y
  <2>3. sum + us < WordMod /\ x < WordMod
    BY <2>1, <2>2
  <2> QED
    BY <2>1, <2>3 DEF x
<1>5. (sum + us) % WordMod = sum + us
  BY <1>4
<1>6. low * n <= sum
  BY <1>4 DEF Covers
<1>7. low2 * (n + 1) <= sum + us
  BY <1>2, <1>3, <1>6
<1> QED
  BY <1>5, <1>7

LEMMA AverageLow ==
  ASSUME NEW sum \in Nat, NEW number \in Nat, 0 < number, NEW n \in Nat, number <= n,
         NEW low, NEW high, NEW b, low * b \in Nat, Covers(low, high, b, n, sum)
  PROVE  AtLeast(low, high, b, n, sum \div number)
<1> DEFINE q == sum \div number
           r == sum % number
<1>1. q \in Nat /\ r \in 0 .. number - 1 /\ sum = number * q + r
  BY SMT
<1> HIDE DEF q, r
<1>2. number * (q + 1) <= n * (q + 1) /\ number * (q + 1) = number * q + number
  <2>1. q + 1 \in Nat
    BY <1>1
  <2> QED
    BY <1>1, <2>1, Products
<1>3. number * q \in Nat /\ n * (q + 1) \in Nat /\ n * (q + 1) = (q + 1) * n
  BY <1>1
<1>4. sum < (q + 1) * n
  BY <1>1, <1>2, <1>3
<1>5. (q + 1) * n \in Nat
  BY <1>3
<1> QED
  BY <1>4, <1>5 DEF Covers, AtLeast, q

LEMMA LowKept ==
  ASSUME Types, Counters, SumFits, PrintedFits, LowFits, [Next]_vars
  PROVE  LowFits'
<1>0. /\ sampleIdx \in Nat /\ maxUs \in Nat /\ sumUs \in Nat /\ minUs \in Nat
      /\ base \in Nat /\ counted \in Nat /\ loaded \in Nat
      /\ count = sampleIdx /\ base <= sampleIdx
      /\ printed \in [samples : Nat, min : Nat, max : Nat, average : Nat, histogram : Nat]
      /\ sumUs <= maxUs * sampleIdx
      /\ Covers(minUs, maxUs, sampleIdx, sampleIdx, sumUs)
  BY DEF Types, TypeOK, ProfilerTypeOK, Counters, SumFits, LowFits
<1>1. CASE Recorded
  <2>1. PICK us \in Nat : Record(us) /\ UNCHANGED << reader, line >>
    BY <1>1 DEF Recorded
  <2>2. /\ sampleIdx' = sampleIdx + 1
        /\ maxUs' = (IF us > maxUs THEN us ELSE maxUs) /\ minUs' = Lower(us, minUs)
        /\ sumUs' = (sumUs + us) % WordMod
        /\ UNCHANGED << pc, counted, loaded, base, printed >>
    BY <2>1 DEF Record, reader
  <2>3. /\ maxUs' \in Nat /\ maxUs <= maxUs' /\ us <= maxUs'
        /\ minUs' \in Nat /\ minUs' <= minUs /\ minUs' <= us
    BY <1>0, <2>2 DEF Lower
  <2>4. Covers(minUs', maxUs', sampleIdx + 1, sampleIdx + 1, (sumUs + us) % WordMod)
    BY <1>0, <2>3, SumLater
  <2>5. Covers(minUs, maxUs, base, sampleIdx, loaded) =>
          Covers(minUs', maxUs', base, sampleIdx + 1, loaded)
    BY <1>0, <2>3, LowLater
  <2>6. /\ printed.average \in Nat /\ printed.min \in Nat /\ printed.max \in Nat
        /\ printed.min <= printed.min /\ printed.max <= printed.max
    BY <1>0
  <2>7. AtLeast(minUs, maxUs, base, sampleIdx, printed.average) =>
          AtLeast(minUs', maxUs', base, sampleIdx + 1, printed.average)
    BY <1>0, <2>3, <2>6, LowLater
  <2>8. AtLeast(printed.min, maxUs, base, sampleIdx, printed.average) =>
          AtLeast(printed.min, maxUs', base, sampleIdx + 1, printed.average)
    BY <1>0, <2>3, <2>6, LowLater
  <2>9. AtLeast(printed.min, printed.max, base, sampleIdx, printed.average) =>
          AtLeast(printed.min, printed.max, base, sampleIdx + 1, printed.average)
    BY <1>0, <2>6, LowLater
  <2>10. counted <= sampleIdx => counted <= sampleIdx + 1
    BY <1>0
  <2> QED
    BY <2>2, <2>4, <2>5, <2>7, <2>8, <2>9, <2>10 DEF LowFits
<1>2. CASE CheckCount /\ UNCHANGED line
  <2>1. /\ UNCHANGED << minUs, maxUs, sampleIdx, sumUs, printed >>
        /\ counted' = count /\ loaded' = sumUs /\ base' = sampleIdx
        /\ pc' = IF count = 0 THEN "dump" ELSE "average"
    BY <1>2 DEF CheckCount, Goto, stats
  <2>2. pc' = "average" => 0 < counted' /\ counted' <= sampleIdx'
    BY <1>0, <2>1
  <2> QED
    BY <1>0, <2>1, <2>2 DEF LowFits
<1>3. CASE Divide /\ UNCHANGED line
  <2>1. /\ pc = "average" /\ pc' = "samples"
        /\ UNCHANGED << minUs, maxUs, sampleIdx, sumUs, base >>
        /\ \E sum \in {loaded, sumUs}, number \in {counted, count} :
             printed' = [printed EXCEPT !.average = sum \div number]
    BY <1>3 DEF Divide, Goto, stats
  <2>2. PICK sum \in {loaded, sumUs}, number \in {counted, count} :
          printed' = [printed EXCEPT !.average = sum \div number]
    BY <2>1
  <2>3. /\ 0 < number /\ number <= sampleIdx /\ number \in Nat /\ sum \in Nat
        /\ Covers(minUs, maxUs, base, sampleIdx, loaded)
    BY <1>0, <2>1 DEF LowFits
  <2>4. Covers(minUs, maxUs, base, sampleIdx, sumUs)
    <3>1. /\ minUs * base \in Nat /\ minUs * sampleIdx \in Nat
          /\ minUs * base = base * minUs /\ minUs * sampleIdx = sampleIdx * minUs
      BY <1>0
    <3>2. base * minUs <= sampleIdx * minUs
      BY <1>0, Products
    <3>3. minUs * sampleIdx <= sumUs => minUs * base <= sumUs
      BY <1>0, <3>1, <3>2
    <3> QED
      BY <1>0, <3>3 DEF Covers
  <2>5. Covers(minUs, maxUs, base, sampleIdx, sum) /\ minUs * base \in Nat
    BY <1>0, <2>3, <2>4
  <2>6. AtLeast(minUs, maxUs, base, sampleIdx, sum \div number)
    BY <1>0, <2>3, <2>5, AverageLow
  <2>7. printed'.average = sum \div number
    BY <1>0, <2>2
  <2>8. AtLeast(minUs', maxUs', base', sampleIdx', printed'.average)
    <3> HIDE <2>2
    <3> QED
      BY <2>1, <2>6, <2>7
  <2>9. Covers(minUs', maxUs', sampleIdx', sampleIdx', sumUs')
    BY <1>0, <2>1
  <2> QED
    BY <2>1, <2>8, <2>9 DEF LowFits
<1>4. CASE PrintLine /\ UNCHANGED line
  <2>1. /\ UNCHANGED << minUs, maxUs, sampleIdx, sumUs, base >>
        /\ pc \in {"samples", "min", "max"} /\ pc' = Lines[pc]
        /\ printed' = [printed EXCEPT ![pc] = Value(pc)]
    BY <1>4 DEF PrintLine, Lines, Goto, stats
  <2>2. printed'.average = printed.average
    BY <1>0, <2>1
  <2>3. Covers(minUs', maxUs', sampleIdx', sampleIdx', sumUs')
    BY <1>0, <2>1
  <2>4. CASE pc = "samples"
    <3>1. pc' = "min"
      BY <2>1, <2>4 DEF Lines
    <3>2. AtLeast(minUs', maxUs', base', sampleIdx', printed'.average)
      BY <2>1, <2>2, <2>4 DEF LowFits
    <3> QED
      BY <2>3, <3>1, <3>2 DEF LowFits
  <2>5. CASE pc = "min"
    <3>1. pc' = "max" /\ printed'.min = minUs
      BY <1>0, <2>1, <2>5 DEF Value, Lines
    <3>2. AtLeast(printed'.min, maxUs', base', sampleIdx', printed'.average)
      BY <2>1, <2>2, <2>5, <3>1 DEF LowFits
    <3> QED
      BY <2>3, <3>1, <3>2 DEF LowFits
  <2>6. CASE pc = "max"
    <3>1. pc' = "histogram" /\ printed'.max = maxUs /\ printed'.min = printed.min
      BY <1>0, <2>1, <2>6 DEF Value, Lines
    <3>2. AtLeast(printed'.min, printed'.max, base', sampleIdx', printed'.average)
      BY <2>1, <2>2, <2>6, <3>1 DEF LowFits
    <3> QED
      BY <2>3, <3>1, <3>2 DEF LowFits
  <2> QED
    BY <2>1, <2>4, <2>5, <2>6
<1>5. CASE PrintBucket /\ UNCHANGED line
  <2>1. /\ UNCHANGED << minUs, maxUs, sampleIdx, sumUs, base >>
        /\ pc = "histogram" /\ pc' \in {"dump", "histogram"}
        /\ printed' = [printed EXCEPT !.histogram = @ + buckets[pos]]
    BY <1>5 DEF PrintBucket, Goto, stats
  <2>2. /\ printed'.min = printed.min /\ printed'.max = printed.max
        /\ printed'.average = printed.average
    BY <1>0, <2>1
  <2> QED
    BY <2>1, <2>2 DEF LowFits
<1>6. CASE BeginDump \/ RowIndex \/ Row \/ EnterLatency \/ LatencyReturns \/ EnterReset
  <2>1. /\ UNCHANGED << minUs, maxUs, sampleIdx, sumUs >>
        /\ pc' \in {"index", "row", "count", "prompt", "reset"}
    BY <1>6 DEF BeginDump, RowIndex, Row, EnterLatency, LatencyReturns, EnterReset,
                Prompt, Goto, stats
  <2> QED
    BY <1>0, <2>1 DEF LowFits
<1>7. CASE (\E c \in Letters : TypeLetter(c)) \/ Backspace \/ EnterOther
  <2>1. pc' = "prompt" /\ UNCHANGED << minUs, maxUs, sampleIdx, sumUs >>
    BY <1>7 DEF TypeLetter, Backspace, EnterOther, AtPrompt, reader, stats
  <2> QED
    BY <1>0, <2>1 DEF LowFits
<1>8. CASE Reset
  <2>1. sampleIdx' = 0 /\ sumUs' = 0 /\ minUs' = WordMod - 1 /\ pc' = "prompt"
    BY <1>8 DEF Reset, LpReset, Prompt, Goto
  <2>2. minUs' * sampleIdx' = 0
    BY <2>1, ProfilerAssumption
  <2> QED
    BY <2>1, <2>2 DEF LowFits, Covers
<1>9. CASE UNCHANGED vars
  BY <1>9 DEF vars, stats, reader, LowFits
<1>10. CASE \E e \in Elapsed : Probe(e) /\ UNCHANGED line
  BY <1>1, <1>10, ProbeRecords
<1> QED
  BY <1>2, <1>3, <1>4, <1>5, <1>6, <1>7, <1>8, <1>9, <1>10 DEF Next, Report

-----------------------------------------------------------------------------
(* Types *)

LEMMA TypesKept ==
  ASSUME IndInv, [Next]_vars
  PROVE  Types'
<1>0. /\ Types /\ Counters /\ PrintedFits
  BY DEF IndInv
<1>1. /\ sampleIdx \in 0 .. MaxRecords /\ count \in 0 .. MaxRecords /\ count = sampleIdx
      /\ maxUs \in Nat /\ sumUs \in 0 .. WordMod - 1 /\ minUs \in 0 .. WordMod - 1
      /\ buckets \in [Bins -> 0 .. MaxRecords]
      /\ samples \in [0 .. RingLength - 1 -> [us : 0 .. SampleMax, nth : -1 .. MaxRecords - 1]]
      /\ pos \in Nat /\ total \in 0 .. RingLength /\ base \in Nat /\ base <= sampleIdx
      /\ loaded \in Nat /\ counted \in 0 .. MaxRecords
      /\ line \in Seq(Letters) /\ Len(line) <= LineLength
      /\ rows \in Seq(Int)
      /\ printed \in [samples : Nat, min : Nat, max : Nat, average : Nat, histogram : Nat]
      /\ pc \in {"prompt", "count", "average", "samples", "min", "max",
                 "histogram", "dump", "index", "row", "reset"}
      /\ pc = "histogram" => pos \in Bins
  BY <1>0 DEF Types, TypeOK, ProfilerTypeOK, Counters
<1>2. /\ RingLength \in Nat \ {0} /\ MaxRecords \in Nat /\ WordMod \in Nat
      /\ MaxRecords < WordMod /\ SampleMax \in Nat /\ LineLength \in Nat
      /\ Len(Bounds) \in Nat
  BY ProfilerAssumption, LineAssumption
<1> DEFINE StatsOK ==
             /\ minUs     \in 0 .. WordMod - 1
             /\ maxUs     \in Nat
             /\ sumUs     \in 0 .. WordMod - 1
             /\ count     \in 0 .. MaxRecords
             /\ buckets   \in [Bins -> 0 .. MaxRecords]
             /\ samples   \in [0 .. RingLength - 1 ->
                                [us : 0 .. SampleMax, nth : -1 .. MaxRecords - 1]]
             /\ sampleIdx \in 0 .. MaxRecords
           ReaderOK ==
             /\ pc \in {"prompt", "count", "average", "samples", "min", "max",
                        "histogram", "dump", "index", "row", "reset"}
             /\ pos \in Nat /\ total \in 0 .. RingLength
             /\ loaded \in Nat /\ counted \in 0 .. MaxRecords
             /\ rows \in Seq(Int) /\ base \in Nat
             /\ printed \in [samples : Nat, min : Nat, max : Nat, average : Nat, histogram : Nat]
             /\ pc = "histogram" => pos \in Bins
           LineOK == line \in Seq(Letters) /\ Len(line) <= LineLength
<1>3. StatsOK /\ ReaderOK /\ LineOK
  BY <1>1
<1>4. StatsOK'
  <2>1. CASE Recorded
    <3>1. PICK us \in Nat : Record(us) /\ count < MaxRecords
      BY <2>1 DEF Recorded
    <3>2. minUs' = Lower(us, minUs) /\ maxUs' = (IF us > maxUs THEN us ELSE maxUs)
          /\ sumUs' = (sumUs + us) % WordMod
          /\ count' = count + 1 /\ sampleIdx' = sampleIdx + 1
          /\ samples' = [samples EXCEPT ![sampleIdx % RingLength] =
                            [us |-> Lower(us, SampleMax), nth |-> sampleIdx]]
      BY <3>1 DEF Record
    <3>3. sumUs' \in 0 .. WordMod - 1
      <4>1. sumUs + us \in Nat
        BY <1>1
      <4> QED
        BY <3>2, <4>1, Wraps
    <3>4. minUs' \in 0 .. WordMod - 1 /\ maxUs' \in Nat
      BY <1>1, <1>2, <3>2 DEF Lower
    <3>5. [us |-> Lower(us, SampleMax), nth |-> sampleIdx]
            \in [us : 0 .. SampleMax, nth : -1 .. MaxRecords - 1]
      BY <1>1, <1>2, <3>1 DEF Lower
    <3>6. samples' \in [0 .. RingLength - 1 -> [us : 0 .. SampleMax, nth : -1 .. MaxRecords - 1]]
      BY <1>1, <3>2, <3>5
    <3>7. buckets' \in [Bins -> 0 .. MaxRecords]
      BY <1>0, <3>1, BucketsKept
    <3>8. count' \in 0 .. MaxRecords /\ sampleIdx' \in 0 .. MaxRecords
      BY <1>1, <1>2, <3>1, <3>2
    <3> QED
      BY <3>3, <3>4, <3>6, <3>7, <3>8
  <2>2. CASE Reset
    BY <1>2, <2>2 DEF Reset, LpReset, NoSample
  <2>3. CASE UNCHANGED stats
    BY <1>3, <2>3 DEF stats
  <2> QED
    BY <2>1, <2>2, <2>3, StepKinds
<1>5. ReaderOK' /\ LineOK'
  <2>1. CASE \E e \in Elapsed : Probe(e) /\ UNCHANGED line
    BY <1>3, <2>1 DEF Probe, reader
  <2>2. CASE CheckCount /\ UNCHANGED line
    BY <1>1, <1>2, <2>2 DEF CheckCount, Goto
  <2>3. CASE Divide /\ UNCHANGED line
    <3>1. /\ pc = "average" /\ pc' = "samples"
          /\ UNCHANGED << pos, loaded, counted, total, rows, base, line >>
          /\ \E sum \in {loaded, sumUs}, number \in {counted, count} :
               printed' = [printed EXCEPT !.average = sum \div number]
      BY <2>3 DEF Divide, Goto
    <3>2. PICK sum \in {loaded, sumUs}, number \in {counted, count} :
            printed' = [printed EXCEPT !.average = sum \div number]
      BY <3>1
    <3>3. sum \in Nat /\ number \in Nat /\ 0 < base /\ base <= number
      BY <1>0, <1>1, <3>1 DEF PrintedFits
    <3>4. sum \div number \in Nat
      BY <1>1, <3>3, Quotient
    <3>5. printed' \in [samples : Nat, min : Nat, max : Nat, average : Nat, histogram : Nat]
      <4> DEFINE q == sum \div number
      <4>1. q \in Nat /\ printed' = [printed EXCEPT !.average = q]
        BY <3>2, <3>4
      <4> HIDE DEF q
      <4> QED
        BY <1>1, <4>1
    <3> QED
      BY <1>1, <3>1, <3>5
  <2>4. CASE PrintLine /\ UNCHANGED line
    <3>1. /\ pc \in {"samples", "min", "max"} /\ pc' = Lines[pc] /\ pos' = 1
          /\ printed' = [printed EXCEPT ![pc] = Value(pc)]
          /\ UNCHANGED << loaded, counted, total, rows, base, line >>
      BY <2>4 DEF PrintLine, Lines, Goto
    <3>2. Value(pc) \in Nat
      BY <1>1, <3>1 DEF Value
    <3>3. printed' \in [samples : Nat, min : Nat, max : Nat, average : Nat, histogram : Nat]
      BY <1>1, <3>1, <3>2
    <3>4. pc' \in {"min", "max", "histogram"} /\ 1 \in Bins
      BY <1>2, <3>1 DEF Lines, Bins
    <3> QED
      BY <1>1, <3>1, <3>3, <3>4
  <2>5. CASE PrintBucket /\ UNCHANGED line
    <3>1. /\ pc = "histogram" /\ pos' = pos + 1
          /\ pc' = (IF pos = Len(Bounds) + 1 THEN "dump" ELSE "histogram")
          /\ printed' = [printed EXCEPT !.histogram = @ + buckets[pos]]
          /\ UNCHANGED << loaded, counted, total, rows, base, line >>
      BY <2>5 DEF PrintBucket, Goto
    <3>2. pos \in Bins /\ buckets[pos] \in Nat
      BY <1>1, <1>2, <3>1
    <3>3. printed' \in [samples : Nat, min : Nat, max : Nat, average : Nat, histogram : Nat]
      <4> DEFINE n == printed.histogram + buckets[pos]
      <4>1. printed.histogram \in Nat
        BY <1>1
      <4>2. n \in Nat
        BY <3>2, <4>1
      <4>3. printed' = [printed EXCEPT !.histogram = n]
        BY <3>1, Zenon
      <4> HIDE DEF n
      <4> QED
        BY <1>1, <4>2, <4>3
    <3>4. pc' = "histogram" => pos' \in Bins
      BY <1>2, <3>1, <3>2 DEF Bins
    <3>5. pc' \in {"dump", "histogram"}
      BY <3>1, Zenon
    <3>6. pos' \in Nat
      <4>1. pos' = pos + 1
        BY <3>1, Zenon
      <4>2. pos \in Nat
        BY <1>1, Zenon
      <4> QED
        BY <4>1, <4>2
    <3> QED
      BY <1>1, <3>1, <3>3, <3>4, <3>5, <3>6
  <2>6. CASE BeginDump /\ UNCHANGED line
    BY <1>1, <1>2, <2>6 DEF BeginDump, Goto, Lower
  <2>7. CASE RowIndex /\ UNCHANGED line
    <3>1. /\ pc' = "row" /\ UNCHANGED << pos, counted, total, printed, rows, base, line >>
          /\ loaded' = (IF sampleIdx >= RingLength THEN (sampleIdx + pos) % RingLength ELSE pos)
      BY <2>7 DEF RowIndex, Goto
    <3>2. sampleIdx + pos \in Nat
      BY <1>1
    <3>3. (sampleIdx + pos) % RingLength \in Nat
      BY <3>2, Slot
    <3>4. loaded' \in Nat
      <4> DEFINE m == (sampleIdx + pos) % RingLength
      <4>1. m \in Nat /\ loaded' = (IF sampleIdx >= RingLength THEN m ELSE pos)
        BY <3>1, <3>3
      <4> HIDE DEF m
      <4> QED
        BY <1>1, <4>1
    <3> QED
      BY <1>1, <3>1, <3>4
  <2>8. CASE Row /\ UNCHANGED line
    <3>1. /\ pc = "row" /\ pc' = "index" /\ pos' = pos + 1
          /\ rows' = Append(rows, samples[loaded].nth)
          /\ UNCHANGED << loaded, counted, total, printed, base, line, sampleIdx >>
      BY <2>8 DEF Row, Goto, stats
    <3>2. PICK s \in base .. sampleIdx : Addressed(s)
      BY <3>1 DEF IndInv, FewMissing
    <3>3. pos < total
      BY <3>1 DEF IndInv, FewMissing
    <3>4. samples[loaded].nth \in Oldest(s) + pos .. sampleIdx - 1 /\ Oldest(s) \in Nat
      BY <1>0, <3>1, <3>2, <3>3, RowFinds DEF IndInv
    <3>5. samples[loaded].nth \in Int
      BY <1>1, <3>4
    <3> QED
      BY <1>1, <3>1, <3>5
  <2>9. CASE \E c \in Letters : TypeLetter(c)
    BY <1>1, <1>2, <2>9 DEF TypeLetter, AtPrompt, reader
  <2>10. CASE Backspace
    <3>1. /\ line # << >> /\ line' = SubSeq(line, 1, Len(line) - 1)
          /\ UNCHANGED reader
      BY <2>10 DEF Backspace, AtPrompt
    <3>2. line' \in Seq(Letters) /\ Len(line') = Len(line) - 1
      <4> DEFINE m == Len(line) - 1
      <4>1. m \in Nat /\ m < Len(line) /\ \A i \in 1 .. m : line[i] \in Letters
        BY <1>1, <3>1
      <4>2. line' = [i \in 1 .. m |-> line[i]]
        BY <1>1, <3>1, <4>1
      <4> HIDE DEF m
      <4>3. line' \in Seq(Letters) /\ Len(line') = m
        BY <4>1, <4>2
      <4> QED
        BY <4>3 DEF m
    <3>3. Len(line') <= LineLength
      <4>1. Len(line) \in Int /\ Len(line) <= LineLength
        BY <1>1
      <4> QED
        BY <1>2, <3>2, <4>1
    <3>4. ReaderOK'
      <4>1. UNCHANGED reader
        BY <3>1
      <4> QED
        BY <1>3, <4>1 DEF reader
    <3> QED
      BY <3>2, <3>3, <3>4
  <2>11. CASE EnterOther
    BY <1>1, <1>2, <2>11 DEF EnterOther, AtPrompt, reader
  <2>12. CASE EnterLatency \/ EnterReset
    BY <1>1, <2>12 DEF EnterLatency, EnterReset, Goto
  <2>13. CASE LatencyReturns \/ Reset
    <3>1. /\ pc' = "prompt" /\ pos' = 0 /\ loaded' = 0 /\ counted' = 0 /\ total' = 0 /\ base' = 0
          /\ printed' = NoNumbers /\ rows' = << >> /\ line' = << >>
      BY <2>13 DEF LatencyReturns, Reset, Prompt, Goto
    <3>2. NoNumbers \in [samples : Nat, min : Nat, max : Nat, average : Nat, histogram : Nat]
      BY DEF NoNumbers
    <3> QED
      BY <1>2, <3>1, <3>2
  <2>14. CASE UNCHANGED vars
    BY <1>3, <2>14 DEF vars, reader
  <2> QED
    BY <2>1, <2>2, <2>3, <2>4, <2>5, <2>6, <2>7, <2>8, <2>9, <2>10, <2>11, <2>12, <2>13, <2>14
    DEF Next, Report
<1> QED
  BY <1>4, <1>5 DEF Types, TypeOK, ProfilerTypeOK

-----------------------------------------------------------------------------
(* The histogram of a report.  The samples of the buckets, from one bucket *)
(* on, are the pairs of a bucket and a number up to what it counts: so     *)
(* that adding up the buckets is counting a set.                           *)

SampleNames(counts, from) ==
  {p \in Bins \X (1 .. MaxRecords) : p[1] >= from /\ p[2] <= counts[p[1]]}

Left(from) == Cardinality(SampleNames(buckets, from))

(* Every sample is in some bucket; and what the histogram has printed and  *)
(* what is left in the buckets to come make up the samples announced.      *)
HistogramFits ==
  /\ Left(1) = count
  /\ pc \notin {"histogram", "dump", "index", "row"} => printed.histogram = 0
  /\ pc \in {"prompt", "count", "average", "samples", "reset"} => printed.samples = 0
  /\ pc \in {"min", "max"} => printed.samples <= count
  /\ pc = "histogram" => printed.samples <= printed.histogram + Left(pos)
  /\ pc = "dump"      => printed.samples <= printed.histogram

LEMMA NamesFinite ==
  ASSUME NEW counts, NEW from
  PROVE  /\ IsFiniteSet(SampleNames(counts, from))
         /\ Cardinality(SampleNames(counts, from)) \in Nat
<1>1. Len(Bounds) + 1 \in Int /\ MaxRecords \in Int
  BY ProfilerAssumption
<1>2. IsFiniteSet(Bins) /\ IsFiniteSet(1 .. MaxRecords)
  BY <1>1, FS_Interval DEF Bins
<1>3. IsFiniteSet(Bins \X (1 .. MaxRecords))
  BY <1>2, FS_Product
<1>4. SampleNames(counts, from) \in SUBSET (Bins \X (1 .. MaxRecords))
  BY DEF SampleNames
<1> QED
  BY <1>3, <1>4, FS_Subset, FS_CardinalityType

(* A sample more is a pair more, unless its bucket has been passed. *)
LEMMA NamesRecorded ==
  ASSUME Types, Counters, NEW us \in Nat, Record(us), count < MaxRecords, NEW from \in Nat
  PROVE  Left(from)' = IF Bucket(us) >= from THEN Left(from) + 1 ELSE Left(from)
<1> DEFINE b   == Bucket(us)
           new == << b, buckets[b] + 1 >>
           old == SampleNames(buckets, from)
<1>1. /\ buckets \in [Bins -> 0 .. MaxRecords] /\ MaxRecords \in Nat
      /\ \A c \in Bins : buckets[c] <= count /\ buckets[c] \in Nat
      /\ count \in Nat
  BY ProfilerAssumption DEF Types, TypeOK, ProfilerTypeOK, Counters
<1>2. b \in Bins /\ b \in Nat
  BY BucketExists DEF Bins
<1>3. buckets' = [buckets EXCEPT ![b] = @ + 1]
  BY DEF Record
<1> HIDE DEF b
<1>4. /\ buckets[b] + 1 \in 1 .. MaxRecords
      /\ \A c \in Bins : buckets'[c] = IF c = b THEN buckets[b] + 1 ELSE buckets[c]
  BY <1>1, <1>2, <1>3
<1>5. new \notin old
  BY <1>1, <1>2 DEF SampleNames
<1>6. CASE b >= from
  <2>1. SampleNames(buckets', from) = old \cup {new}
    <3>1. ASSUME NEW p \in Bins \X (1 .. MaxRecords)
          PROVE  p \in SampleNames(buckets', from) <=> p \in old \cup {new}
      <4>1. PICK c \in Bins, k \in 1 .. MaxRecords : p = << c, k >>
        OBVIOUS
      <4>2. p \in SampleNames(buckets', from) <=> c >= from /\ k <= buckets'[c]
        BY <4>1 DEF SampleNames
      <4>3. p \in old <=> c >= from /\ k <= buckets[c]
        BY <4>1 DEF SampleNames
      <4>4. p = new <=> c = b /\ k = buckets[b] + 1
        BY <4>1
      <4>5. CASE c = b
        <5>1. k <= buckets[b] + 1 <=> k <= buckets[b] \/ k = buckets[b] + 1
          BY <1>1, <1>2
        <5>2. buckets'[c] = buckets[b] + 1
          BY <1>4, <4>5
        <5> HIDE DEF new, old
        <5> QED
          BY <1>6, <4>2, <4>3, <4>4, <4>5, <5>1, <5>2
      <4>6. CASE c # b
        <5> HIDE DEF new, old
        <5> QED
          BY <1>4, <4>2, <4>3, <4>4, <4>6
      <4> QED
        BY <4>5, <4>6
    <3>2. /\ SampleNames(buckets', from) \subseteq Bins \X (1 .. MaxRecords)
          /\ old \subseteq Bins \X (1 .. MaxRecords)
          /\ new \in Bins \X (1 .. MaxRecords)
      BY <1>2, <1>4 DEF SampleNames
    <3> HIDE DEF new, old
    <3> QED
      BY <3>1, <3>2
  <2> HIDE DEF new, old
  <2>2. IsFiniteSet(old)
    BY NamesFinite DEF old
  <2>3. Cardinality(SampleNames(buckets', from)) = Cardinality(old) + 1
    BY <1>5, <2>1, <2>2, FS_AddElement
  <2> QED
    BY <1>6, <2>3 DEF Left, old, b
<1>7. CASE ~(b >= from)
  <2>1. ASSUME NEW c \in Bins, c >= from PROVE buckets'[c] = buckets[c]
    BY <1>4, <1>7, <2>1
  <2>2. SampleNames(buckets', from) = SampleNames(buckets, from)
    BY <2>1 DEF SampleNames
  <2> QED
    BY <1>7, <2>2 DEF Left, b
<1> QED
  BY <1>6, <1>7

(* The names of one bucket are as many as it counts. *)
LEMMA OneBucket ==
  ASSUME NEW b, NEW n \in Nat
  PROVE  IsFiniteSet({b} \X (1 .. n)) /\ Cardinality({b} \X (1 .. n)) = n
<1>1. IsFiniteSet({b}) /\ Cardinality({b}) = 1
  BY FS_Singleton
<1>2. IsFiniteSet(1 .. n) /\ Cardinality(1 .. n) = n
  <2>1. Cardinality(1 .. n) = IF 1 > n THEN 0 ELSE n - 1 + 1
    BY FS_Interval
  <2>2. IsFiniteSet(1 .. n)
    BY FS_Interval
  <2> QED
    BY <2>1, <2>2
<1>3. 1 * n = n
  OBVIOUS
<1>4. /\ IsFiniteSet({b} \X (1 .. n))
      /\ Cardinality({b} \X (1 .. n)) = Cardinality({b}) * Cardinality(1 .. n)
  BY <1>1, <1>2, FS_Product, Zenon
<1> QED
  BY <1>1, <1>2, <1>3, <1>4, Zenon

(* What is left is the bucket to be printed next and what is left after it. *)
LEMMA NamesPrinted ==
  ASSUME Types, NEW b \in Bins
  PROVE  Left(b) = buckets[b] + Left(b + 1)
<1> DEFINE this  == {b} \X (1 .. buckets[b])
           after == SampleNames(buckets, b + 1)
<1>1. buckets \in [Bins -> 0 .. MaxRecords] /\ MaxRecords \in Nat /\ Bins \subseteq Nat
  <2>1. Bins \subseteq Nat
    BY DEF Bins
  <2> QED
    BY <2>1, ProfilerAssumption DEF Types, TypeOK, ProfilerTypeOK
<1>2. buckets[b] \in Nat /\ buckets[b] <= MaxRecords
  BY <1>1
<1>3. IsFiniteSet(this) /\ Cardinality(this) = buckets[b]
  BY <1>2, OneBucket
<1>4. IsFiniteSet(after) /\ Cardinality(after) \in Nat
  BY NamesFinite
<1>5. this \cap after = {}
  BY <1>1 DEF SampleNames
<1>6. SampleNames(buckets, b) = this \cup after
  <2>1. ASSUME NEW c \in Bins, NEW k \in 1 .. MaxRecords
        PROVE  << c, k >> \in SampleNames(buckets, b) <=> << c, k >> \in this \cup after
    <3>1. << c, k >> \in SampleNames(buckets, b) <=> c >= b /\ k <= buckets[c]
      BY DEF SampleNames
    <3>2. << c, k >> \in after <=> c >= b + 1 /\ k <= buckets[c]
      BY DEF SampleNames
    <3>3. << c, k >> \in this <=> c = b /\ k <= buckets[b]
      BY <1>2
    <3>4. c >= b <=> c = b \/ c >= b + 1
      BY <1>1
    <3> HIDE DEF this, after
    <3> QED
      BY <3>1, <3>2, <3>3, <3>4
  <2>2. /\ SampleNames(buckets, b) \subseteq Bins \X (1 .. MaxRecords)
        /\ after \subseteq Bins \X (1 .. MaxRecords)
    BY DEF SampleNames
  <2>3. this \subseteq Bins \X (1 .. MaxRecords)
    BY <1>2, <1>1
  <2> HIDE DEF this, after
  <2>4. \A p \in Bins \X (1 .. MaxRecords) :
          p \in SampleNames(buckets, b) <=> p \in this \cup after
    BY <2>1
  <2> QED
    BY <2>2, <2>3, <2>4
<1> HIDE DEF this, after
<1>7. Cardinality(this \cup after)
        = Cardinality(this) + Cardinality(after) - Cardinality(this \cap after)
  BY <1>3, <1>4, FS_Union
<1>8. Cardinality(this \cap after) = 0
  BY <1>5, FS_EmptySet
<1> QED
  BY <1>2, <1>3, <1>4, <1>6, <1>7, <1>8 DEF Left, after

(* After the last bucket nothing is left. *)
LEMMA NothingLeft == Left(Len(Bounds) + 2) = 0
<1>1. \A c \in Bins : ~(c >= Len(Bounds) + 2)
  BY ProfilerAssumption DEF Bins
<1>2. SampleNames(buckets, Len(Bounds) + 2) = {}
  BY <1>1 DEF SampleNames
<1> QED
  BY <1>2, FS_EmptySet DEF Left

LEMMA HistogramFitsKept ==
  ASSUME Types, Counters, HistogramFits, [Next]_vars
  PROVE  HistogramFits'
<1>0. /\ count \in Nat /\ pos \in Nat
      /\ printed \in [samples : Nat, min : Nat, max : Nat, average : Nat, histogram : Nat]
      /\ pc = "histogram" => pos \in Bins
      /\ buckets \in [Bins -> 0 .. MaxRecords]
      /\ \A f : Left(f) \in Nat
  BY NamesFinite DEF Types, TypeOK, ProfilerTypeOK, Left
<1>1. ASSUME UNCHANGED << count, buckets >>
      PROVE  /\ Left(1)' = count' /\ \A f : Left(f)' = Left(f)
  BY <1>1 DEF HistogramFits, Left
<1>2. CASE Recorded
  <2>1. PICK us \in Nat : Record(us) /\ count < MaxRecords /\ UNCHANGED << reader, line >>
    BY <1>2 DEF Recorded
  <2>2. count' = count + 1 /\ UNCHANGED << pc, pos, printed >>
    BY <2>1 DEF Record, reader
  <2>3. Bucket(us) \in Nat /\ Bucket(us) >= 1
    BY BucketExists DEF Bins
  <2>4. Left(1)' = Left(1) + 1
    BY <2>1, <2>3, NamesRecorded
  <2>5. Left(pos)' \in Nat /\ Left(pos)' >= Left(pos)
    <3>1. \A f \in Nat : Cardinality(SampleNames(buckets', f)) >= Left(f)
      BY <1>0, <2>1, NamesRecorded DEF Left
    <3> QED
      BY <1>0, <2>2, <3>1, NamesFinite DEF Left
  <2> QED
    BY <1>0, <2>2, <2>4, <2>5 DEF HistogramFits
<1>3. CASE Reset
  <2>1. /\ count' = 0 /\ buckets' = [b \in Bins |-> 0]
        /\ pc' = "prompt" /\ printed' = NoNumbers
    BY <1>3 DEF Reset, LpReset, Prompt, Goto
  <2>2. SampleNames(buckets', 1) = {}
    BY <2>1 DEF SampleNames
  <2> QED
    BY <2>1, <2>2, FS_EmptySet DEF HistogramFits, Left, NoNumbers
<1>4. CASE PrintBucket
  <2>1. /\ pc = "histogram" /\ pos' = pos + 1 /\ UNCHANGED << count, buckets >>
        /\ printed' = [printed EXCEPT !.histogram = @ + buckets[pos]]
        /\ pc' = IF pos = Len(Bounds) + 1 THEN "dump" ELSE "histogram"
    BY <1>4 DEF PrintBucket, Goto, stats
  <2>2. pos \in Bins /\ Left(pos) = buckets[pos] + Left(pos + 1)
    BY <1>0, <2>1, NamesPrinted
  <2>3. /\ printed'.histogram = printed.histogram + buckets[pos]
        /\ printed'.samples = printed.samples
    BY <1>0, <2>1
  <2>4. buckets[pos] \in Nat /\ printed.histogram \in Nat /\ printed.samples \in Nat
    BY <1>0, <2>2, ProfilerAssumption
  <2>5. printed'.samples <= printed'.histogram + Left(pos + 1)
    BY <1>0, <2>1, <2>2, <2>3, <2>4 DEF HistogramFits
  <2>6. pc' = "dump" => Left(pos + 1) = 0
    <3>1. Len(Bounds) + 1 + 1 = Len(Bounds) + 2
      BY ProfilerAssumption
    <3> QED
      BY <2>1, <3>1, NothingLeft
  <2>7. Left(pos)' = Left(pos + 1)
    BY <2>1 DEF Left
  <2>8. printed'.histogram \in Nat
    BY <2>3, <2>4
  <2> QED
    BY <1>1, <2>1, <2>5, <2>6, <2>7, <2>8 DEF HistogramFits
<1>5. CASE PrintLine
  <2>1. /\ UNCHANGED << count, buckets, minUs, maxUs >> /\ pos' = 1
        /\ pc \in {"samples", "min", "max"} /\ pc' = Lines[pc]
        /\ printed' = [printed EXCEPT ![pc] = Value(pc)]
    BY <1>5 DEF PrintLine, Lines, Goto, stats
  <2>2. printed'.histogram = 0
    BY <1>0, <2>1 DEF HistogramFits
  <2>3. printed'.samples <= count
    BY <1>0, <2>1 DEF HistogramFits, Value
  <2>4. pc' \in {"min", "max", "histogram"}
    BY <2>1 DEF Lines
  <2>5. Left(pos)' = Left(1)
    BY <2>1 DEF Left
  <2>6. Left(1) = count
    BY DEF HistogramFits
  <2> QED
    BY <1>0, <1>1, <2>1, <2>2, <2>3, <2>4, <2>5, <2>6 DEF HistogramFits
<1>6. CASE Divide
  <2>1. /\ UNCHANGED << count, buckets >> /\ pc = "average" /\ pc' = "samples"
        /\ \E a : printed' = [printed EXCEPT !.average = a]
    BY <1>6 DEF Divide, Goto, stats
  <2>2. printed'.histogram = printed.histogram /\ printed'.samples = printed.samples
    BY <1>0, <2>1
  <2> QED
    BY <1>1, <2>1, <2>2 DEF HistogramFits
<1>7. CASE CheckCount \/ BeginDump \/ RowIndex \/ Row \/ EnterLatency \/ EnterReset
  <2>1. /\ UNCHANGED << count, buckets, printed >>
        /\ \/ pc = "count" /\ pc' \in {"dump", "average"}
           \/ pc \in {"dump", "index", "row"} /\ pc' \in {"index", "row"}
           \/ pc = "prompt" /\ pc' \in {"count", "reset"}
    BY <1>7 DEF CheckCount, BeginDump, RowIndex, Row, EnterLatency, EnterReset, Goto, stats
  <2> QED
    BY <1>1, <2>1 DEF HistogramFits
<1>8. CASE LatencyReturns
  <2>1. UNCHANGED << count, buckets >> /\ pc' = "prompt" /\ printed' = NoNumbers
    BY <1>8 DEF LatencyReturns, Prompt, Goto, stats
  <2> QED
    BY <1>1, <2>1 DEF HistogramFits, NoNumbers
<1>9. CASE UNCHANGED << stats, reader >>
  BY <1>1, <1>9 DEF stats, reader, HistogramFits
<1>10. CASE \E e \in Elapsed : Probe(e) /\ UNCHANGED line
  BY <1>2, <1>10, ProbeRecords
<1> QED
  BY <1>3, <1>4, <1>5, <1>6, <1>7, <1>8, <1>9, <1>10
  DEF Next, Report, TypeLetter, Backspace, EnterOther, AtPrompt, vars

-----------------------------------------------------------------------------
(* The theorems *)

LEMMA Initially ==
  ASSUME CliInit
  PROVE  IndInv
<1>1. /\ RingLength \in Nat \ {0} /\ MaxRecords \in Nat /\ WordMod \in Nat
      /\ MaxRecords < WordMod /\ SampleMax \in Nat /\ LineLength \in Nat
  BY ProfilerAssumption, LineAssumption
<1>2. Types
  <2>1. buckets \in [Bins -> 0 .. MaxRecords]
    BY <1>1 DEF CliInit, Init
  <2>2. samples \in [0 .. RingLength - 1 -> [us : 0 .. SampleMax, nth : -1 .. MaxRecords - 1]]
    BY <1>1 DEF CliInit, Init, NoSample
  <2> QED
    BY <1>1, <2>1, <2>2 DEF CliInit, Init, Types, TypeOK, ProfilerTypeOK, NoNumbers
<1>3. Counters /\ RingInOrder /\ SumFits /\ PrintedFits /\ RowsFit /\ FewMissing
  BY DEF CliInit, Init, Counters, RingInOrder, SumFits, PrintedFits, NumbersFit, RowsFit, FewMissing
<1>4. PlotAgreesWithHistogram
  <2>1. sampleIdx = 0 /\ buckets = [b \in Bins |-> 0]
    BY DEF CliInit, Init
  <2>2. \A b \in Bins : {i \in 0 .. sampleIdx - 1 : InBin(samples[i].us, b)} = {}
    BY <2>1
  <2> QED
    BY <2>1, <2>2, FS_EmptySet DEF PlotAgreesWithHistogram
<1> QED
  BY <1>2, <1>3, <1>4 DEF IndInv

LEMMA Inductive == Spec => []IndInv
<1>1. CliInit => IndInv
  BY Initially
<1>2. IndInv /\ [Next]_vars => IndInv'
  <2> SUFFICES ASSUME IndInv, [Next]_vars PROVE IndInv'
    OBVIOUS
  <2>1. /\ Types /\ Counters /\ RingInOrder /\ PlotAgreesWithHistogram
        /\ SumFits /\ PrintedFits /\ RowsFit /\ FewMissing
    BY DEF IndInv
  <2>2. Types' /\ Counters' /\ RingInOrder' /\ PlotAgreesWithHistogram'
    BY <2>1, TypesKept, CountersKept, RingKept, HistogramKept
  <2>3. SumFits' /\ PrintedFits' /\ RowsFit' /\ FewMissing'
    BY <2>1, SumKept, PrintedKept, RowsKept, MissingKept
  <2> QED
    BY <2>2, <2>3 DEF IndInv
<1> QED
  BY <1>1, <1>2, PTL DEF Spec

(* The profiler and the console keep their types and bounds: the line      *)
(* never outgrows its buffer, no division is by zero.                      *)
THEOREM CliTypeCorrect == Spec => []TypeOK
<1>1. IndInv => TypeOK
  BY DEF IndInv, Types
<1> QED
  BY <1>1, Inductive, PTL

(* While the ring has every sample, the bins counted from it by the plot   *)
(* are the buckets counted by the device, for any buckets.                 *)
THEOREM PlotAgrees == Spec => []PlotAgreesWithHistogram
<1>1. IndInv => PlotAgreesWithHistogram
  BY DEF IndInv
<1> QED
  BY <1>1, Inductive, PTL

(* The numbers of a report fit together although they are loaded one after *)
(* the other while samples keep coming: minimum, maximum and average, the  *)
(* latter from both sides, and the histogram, which has at least the       *)
(* samples announced.                                                      *)
THEOREM ReportCoherent == Spec => []ReportIsCoherent
<1>1. CliInit => HistogramFits
  <2> SUFFICES ASSUME CliInit PROVE HistogramFits
    OBVIOUS
  <2>1. count = 0 /\ buckets = [b \in Bins |-> 0] /\ pc = "prompt" /\ printed = NoNumbers
    BY DEF CliInit, Init
  <2>2. SampleNames(buckets, 1) = {}
    BY <2>1 DEF SampleNames
  <2> QED
    BY <2>1, <2>2, FS_EmptySet DEF HistogramFits, Left, NoNumbers
<1>2. IndInv /\ HistogramFits /\ [Next]_vars => HistogramFits'
  BY HistogramFitsKept DEF IndInv
<1>3. IndInv /\ HistogramFits /\ LowFits => ReportIsCoherent
  <2> SUFFICES ASSUME IndInv, HistogramFits, LowFits PROVE ReportIsCoherent
    OBVIOUS
  <2>1. printed \in [samples : Nat, min : Nat, max : Nat, average : Nat, histogram : Nat]
    BY DEF IndInv, Types
  <2>2. pc = "histogram" /\ printed.max * sampleIdx < WordMod =>
          printed.min * base < (printed.average + 1) * sampleIdx
    BY DEF LowFits, AtLeast
  <2> QED
    BY <2>1, <2>2 DEF IndInv, PrintedFits, NumbersFit, HistogramFits, ReportIsCoherent
<1>4. CliInit => LowFits
  <2> SUFFICES ASSUME CliInit PROVE LowFits
    OBVIOUS
  <2>1. count = 0 /\ sumUs = 0 /\ sampleIdx = 0 /\ pc = "prompt" /\ minUs = WordMod - 1
    BY DEF CliInit, Init
  <2>2. minUs * sampleIdx = 0
    BY <2>1, ProfilerAssumption
  <2> QED
    BY <2>1, <2>2 DEF LowFits, Covers
<1>5. IndInv /\ LowFits /\ [Next]_vars => LowFits'
  BY LowKept DEF IndInv
<1> QED
  BY <1>1, <1>2, <1>3, <1>4, <1>5, Inductive, PTL DEF Spec

(* A dump prints samples at least as new as those it was to print, and     *)
(* each sample that comes meanwhile costs it at most two.                  *)
THEOREM DumpFollows == Spec => []DumpFollowsTheRing
<1>1. ASSUME IndInv PROVE DumpFollowsTheRing
  <2>0. /\ sampleIdx \in Nat /\ base \in Nat /\ pos \in Nat /\ total \in Nat
        /\ base <= sampleIdx
    BY <1>1 DEF IndInv, Types, TypeOK, ProfilerTypeOK, Counters
  <2> DEFINE first   == base - total
             since   == sampleIdx - base
             missing == {n \in first .. base - 1 : \A j \in 1 .. Len(rows) : rows[j] # n}
  <2>1. ASSUME pc \in {"index", "row"}
        PROVE  \A j \in 1 .. Len(rows) :
                 /\ first + j - 1 <= rows[j] /\ rows[j] < sampleIdx
                 /\ since = 0 => rows[j] = first + j - 1
    <3>1. since = 0 => sampleIdx = base
      BY <2>0
    <3> QED
      BY <1>1, <2>1, <3>1 DEF IndInv, RowsFit
  <2>2. ASSUME DumpDone PROVE Cardinality(missing) <= 2 * since
    <3>1. pc = "index" /\ pos = total
      BY <2>2 DEF DumpDone
    <3> DEFINE f == Oldest(sampleIdx) + pos
    <3>2. Oldest(base) = first /\ Cardinality(MissingIn(first, rows, f)) <= 2 * since
      BY <1>1, <3>1 DEF IndInv, RowsFit, FewMissing, Missing
    <3>3. base <= f /\ f \in Int /\ first \in Int
      <4>1. Oldest(base) <= Oldest(sampleIdx)
        BY <2>0, OldestGrows
      <4>2. Oldest(sampleIdx) \in Nat
        BY <2>0, OldestGrows
      <4> QED
        BY <2>0, <3>1, <3>2, <4>1, <4>2
    <3>4. missing \subseteq MissingIn(first, rows, f)
      <4> HIDE DEF f, first
      <4> QED
        BY <2>0, <3>3 DEF MissingIn
    <3> HIDE DEF f, first, missing, since
    <3>5. /\ Cardinality(missing) \in Nat
          /\ Cardinality(MissingIn(first, rows, f)) \in Nat
          /\ Cardinality(missing) <= Cardinality(MissingIn(first, rows, f))
      BY <3>3, <3>4, MissingFinite, FS_Subset, FS_CardinalityType
    <3>6. 2 * since \in Int
      BY <2>0 DEF since
    <3> QED
      BY <3>2, <3>5, <3>6
  <2> QED
    BY <2>1, <2>2 DEF DumpFollowsTheRing
<1> QED
  BY <1>1, Inductive, PTL
=============================================================================
