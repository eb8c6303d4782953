-------------------------- MODULE LatencyProfiler --------------------------
(***************************************************************************)
(* src/latency_profiler.c: the probe task records, the CLI task reports    *)
(* and dumps, and there is no lock.  The probe has the highest priority of *)
(* the two, so lp_record is one step for the CLI task, while it can itself *)
(* come between any two loads of a report or a dump.                       *)
(***************************************************************************)
EXTENDS Integers, Sequences, FiniteSets

CONSTANTS
  RingLength,   \* LP_MAX_SAMPLES
  Bounds,       \* BUCKETS_US, but for the last, which is above any sample
  SampleMax,    \* 0xFFFF
  WordMod,      \* 2^32
  CyclesPerUs,  \* LP_CPU_CLOCK_HZ / 1000000
  Expected,     \* 10 ms in cycles
  Elapsed,      \* cycles a period of the probe may take
  MaxRecords    \* a bound of the model: samples taken

ASSUME ProfilerAssumption ==
  /\ RingLength \in Nat \ {0} /\ CyclesPerUs \in Nat \ {0}
  /\ MaxRecords \in Nat /\ WordMod \in Nat /\ MaxRecords < WordMod
  /\ SampleMax \in Nat /\ Bounds \in Seq(1 .. SampleMax)
  /\ \A j, k \in DOMAIN Bounds : j < k => Bounds[j] < Bounds[k]
  /\ Elapsed \subseteq Nat /\ Expected \in Nat

VARIABLES
  minUs, maxUs, sumUs, count, buckets,   \* s_stats, its fields
  samples,                               \* and the ring; a sample carries
                                         \* its number, to tell equals apart
  sampleIdx,
  pc,      \* where the CLI task is
  pos,     \* its loop counter i
  loaded,  \* sum_us, or the idx of a row, as loaded before it is used
  counted, \* count as loaded for the test of lp_print_stats
  total,   \* total of lp_dump_csv
  printed, \* history: the numbers of the report
  rows,    \* history: the samples dumped, by number
  base     \* history: sample_idx when the report, or the dump, began

stats  == << minUs, maxUs, sumUs, count, buckets, samples, sampleIdx >>
reader == << pc, pos, loaded, counted, total, printed, rows, base >>

Bins      == 1 .. Len(Bounds) + 1
NoNumbers == [samples |-> 0, min |-> 0, max |-> 0, average |-> 0, histogram |-> 0]
NoSample  == [us |-> 0, nth |-> -1]

(* min_us starts at the greatest word. *)
Init ==
  /\ minUs     = WordMod - 1
  /\ maxUs     = 0
  /\ sumUs     = 0
  /\ count     = 0
  /\ buckets   = [b \in Bins |-> 0]
  /\ samples   = [i \in 0 .. RingLength - 1 |-> NoSample]
  /\ sampleIdx = 0
  /\ pc        = "prompt"
  /\ pos       = 0
  /\ loaded    = 0
  /\ counted   = 0
  /\ total     = 0
  /\ printed   = NoNumbers
  /\ rows      = << >>
  /\ base      = 0

LpReset ==
  /\ minUs'     = WordMod - 1
  /\ maxUs'     = 0
  /\ sumUs'     = 0
  /\ count'     = 0
  /\ buckets'   = [b \in Bins |-> 0]
  /\ samples'   = [i \in 0 .. RingLength - 1 |-> NoSample]
  /\ sampleIdx' = 0

Lower(a, b) == IF a < b THEN a ELSE b

-----------------------------------------------------------------------------
(* Probe_Task and lp_record *)

(* A slip in the next operator: a bound belongs to the bucket below it. *)
BucketInclusive(us) ==
  CHOOSE b \in Bins : /\ b \in DOMAIN Bounds => us <= Bounds[b]
                      /\ \A c \in 1 .. b - 1 : us > Bounds[c]

(* The first bucket whose bound is above the sample. *)
Bucket(us) ==
  CHOOSE b \in Bins : /\ b \in DOMAIN Bounds => us < Bounds[b]
                      /\ \A c \in 1 .. b - 1 : us >= Bounds[c]

(* A slip in the next action: the sum gets what the ring gets. *)
RecordSummingCut(us) ==
  /\ minUs'     = Lower(us, minUs)
  /\ maxUs'     = IF us > maxUs THEN us ELSE maxUs
  /\ sumUs'     = (sumUs + Lower(us, SampleMax)) % WordMod
  /\ count'     = count + 1
  /\ buckets'   = [buckets EXCEPT ![Bucket(us)] = @ + 1]
  /\ samples'   = [samples EXCEPT ![sampleIdx % RingLength] =
                     [us |-> Lower(us, SampleMax), nth |-> sampleIdx]]
  /\ sampleIdx' = sampleIdx + 1

Record(us) ==
  /\ minUs'     = Lower(us, minUs)
  /\ maxUs'     = IF us > maxUs THEN us ELSE maxUs
  /\ sumUs'     = (sumUs + us) % WordMod
  /\ count'     = count + 1
  /\ buckets'   = [buckets EXCEPT ![Bucket(us)] = @ + 1]
  /\ samples'   = [samples EXCEPT ![sampleIdx % RingLength] =
                     [us |-> Lower(us, SampleMax), nth |-> sampleIdx]]
  /\ sampleIdx' = sampleIdx + 1

(* A period was over elapsed cycles after it began; less than expected     *)
(* counts as no jitter.                                                    *)
Probe(elapsed) ==
  /\ count < MaxRecords
  /\ Record((IF elapsed > Expected THEN elapsed - Expected ELSE 0) \div CyclesPerUs)
  /\ UNCHANGED reader

-----------------------------------------------------------------------------
(* lp_print_stats: what each line prints is loaded for that line. *)

Goto(l) == pc' = l

CheckCount ==
  /\ pc = "count"
  /\ counted' = count
  /\ loaded'  = sumUs
  /\ base'    = sampleIdx
  /\ Goto(IF count = 0 THEN "dump" ELSE "average")
  /\ UNCHANGED << stats, pos, total, printed, rows >>

(* Nothing is called between the test and the division, so the compiler    *)
(* may take either operand from before the test or load it again.          *)
Divide ==
  /\ pc = "average"
  /\ \E sum \in {loaded, sumUs}, number \in {counted, count} :
       printed' = [printed EXCEPT !.average = sum \div number]
  /\ Goto("samples")
  /\ UNCHANGED << stats, pos, loaded, counted, total, rows, base >>

Lines == [samples |-> "min", min |-> "max", max |-> "histogram"]

Value(printing) == [samples |-> count, min |-> minUs, max |-> maxUs][printing]

PrintLine ==
  /\ pc \in DOMAIN Lines
  /\ printed' = [printed EXCEPT ![pc] = Value(pc)]
  /\ pos'     = 1
  /\ Goto(Lines[pc])
  /\ UNCHANGED << stats, loaded, counted, total, rows, base >>

(* Without the percentage, of which nothing is said. *)
PrintBucket ==
  /\ pc = "histogram"
  /\ printed' = [printed EXCEPT !.histogram = @ + buckets[pos]]
  /\ pos' = pos + 1
  /\ Goto(IF pos = Len(Bounds) + 1 THEN "dump" ELSE "histogram")
  /\ UNCHANGED << stats, loaded, counted, total, rows, base >>

-----------------------------------------------------------------------------
(* lp_dump_csv *)

BeginDump ==
  /\ pc = "dump"
  /\ total' = Lower(sampleIdx, RingLength)
  /\ base'  = sampleIdx
  /\ pos'   = 0
  /\ Goto("index")
  /\ UNCHANGED << stats, loaded, counted, printed, rows >>

(* Two loads of sample_idx are as good as one: once it has reached the     *)
(* length of the ring it stays above.                                      *)

(* A slip in the next action: the ring is read from its first slot. *)
RowIndexFromZero ==
  /\ pc = "index"
  /\ pos < total
  /\ loaded' = pos
  /\ Goto("row")
  /\ UNCHANGED << stats, pos, counted, total, printed, rows, base >>

RowIndex ==
  /\ pc = "index"
  /\ pos < total
  /\ loaded' = IF sampleIdx >= RingLength THEN (sampleIdx + pos) % RingLength ELSE pos
  /\ Goto("row")
  /\ UNCHANGED << stats, pos, counted, total, printed, rows, base >>

Row ==
  /\ pc = "row"
  /\ rows' = Append(rows, samples[loaded].nth)
  /\ pos'  = pos + 1
  /\ Goto("index")
  /\ UNCHANGED << stats, loaded, counted, total, printed, base >>

DumpDone == pc = "index" /\ pos = total

Report ==
  \/ CheckCount
  \/ Divide
  \/ PrintLine
  \/ PrintBucket
  \/ BeginDump
  \/ RowIndex
  \/ Row

-----------------------------------------------------------------------------
(* Properties *)

ProfilerTypeOK ==
  /\ minUs     \in 0 .. WordMod - 1
  /\ maxUs     \in Nat
  /\ sumUs     \in 0 .. WordMod - 1
  /\ count     \in 0 .. MaxRecords
  /\ buckets   \in [Bins -> 0 .. MaxRecords]
  /\ samples   \in [0 .. RingLength - 1 -> [us : 0 .. SampleMax, nth : -1 .. MaxRecords - 1]]
  /\ sampleIdx \in 0 .. MaxRecords
  /\ pc        \in {"prompt", "count", "average", "samples", "min", "max",
                    "histogram", "dump", "index", "row", "reset"}
  /\ pos       \in Nat /\ total \in 0 .. RingLength
  /\ loaded    \in Nat /\ counted \in 0 .. MaxRecords

(* scripts/plot_latency.py sorts the dumped samples into bins of its own:  *)
(* from a bound up to the next.  While the ring holds every sample, its    *)
(* histogram and that of the device are the same, in spite of what the     *)
(* ring cuts off above 0xFFFF.                                             *)
InBin(us, b) ==
  /\ b > 1 => Bounds[b - 1] <= us
  /\ b \in DOMAIN Bounds => us < Bounds[b]

PlotAgreesWithHistogram ==
  sampleIdx <= RingLength =>
    \A b \in Bins :
      buckets[b] = Cardinality({i \in 0 .. sampleIdx - 1 : InBin(samples[i].us, b)})

(* The numbers of a report are loaded one after the other while samples    *)
(* keep coming, and still fit together: the minimum is not above the       *)
(* maximum, and the histogram has at least the samples announced.  The     *)
(* average is above the maximum, or below the minimum, by no more than the *)
(* samples that came after the report began explain: the sum may have them *)
(* and the count not, or the count and not the sum.  A sum that has        *)
(* wrapped is too small, which no maximum shows: below, the average is     *)
(* bounded only while the samples could not have made the sum wrap.        *)
ReportIsCoherent ==
  /\ pc = "histogram" =>
       /\ printed.min <= printed.max
       /\ printed.average * base <= printed.max * sampleIdx
       /\ printed.max * sampleIdx < WordMod =>
            printed.min * base < (printed.average + 1) * sampleIdx
  /\ pc = "dump" => printed.histogram >= printed.samples

(* Each row of a dump is a sample that was taken, no older than the one    *)
(* that had its place when the dump began, and that very one as long as    *)
(* nothing was recorded since; so each sample that comes during the dump   *)
(* costs at most two of the old ones.                                      *)
DumpFollowsTheRing ==
  LET first   == base - total
      since   == sampleIdx - base
      missing == {n \in first .. base - 1 : \A j \in 1 .. Len(rows) : rows[j] # n}
  IN  pc \in {"index", "row"} =>
        /\ \A j \in 1 .. Len(rows) :
             /\ first + j - 1 <= rows[j] /\ rows[j] < sampleIdx
             /\ since = 0 => rows[j] = first + j - 1
        /\ DumpDone => Cardinality(missing) <= 2 * since
=============================================================================
