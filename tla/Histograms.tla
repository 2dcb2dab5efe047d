----------------------------- MODULE Histograms -----------------------------
(***************************************************************************)
(* hist() and lhist(): the program counts a sample in a bucket             *)
(* (ast/passes/codegen_llvm.cpp), print shows the buckets as a list of     *)
(* bars, each between two labels (types_format.cpp, output/text.cpp).      *)
(* Both sides compute the edges of a bucket on their own, in integers of   *)
(* different widths.                                                       *)
(*                                                                         *)
(* That a bucket's count is right although CPUs race is in BpfMap.         *)
(***************************************************************************)
EXTENDS Integers, Sequences, FiniteSets, SequencesExt, FiniteSetsExt

CONSTANTS
    LogWidth,    \* logarithm of the bits of a sample: 6
    IntBits,     \* bits of a C++ int: 32
    MaxBuckets,  \* of an lhist(): 1000
    Histograms,  \* the calls scripts have
    Numbers64,   \* bound: the samples
    Repeats,     \* bound: how often a sample is recorded at a time
    MaxSamples   \* bound: the number of times

ASSUME HistogramAssumption ==
    /\ LogWidth \in Nat \ {0} /\ IntBits \in Nat \ {0} /\ MaxBuckets \in Nat
    /\ Repeats \subseteq Nat \ {0} /\ MaxSamples \in Nat

VARIABLES
    call,     \* the call, and the divisor of print
    counts,   \* the map: a number for each bucket that was hit
    samples   \* history: the samples recorded, [n, times]

histVars == <<call, counts, samples>>

Width64 == 2 ^ LogWidth
Unsigned(x) == x % 2 ^ Width64
SignedOf(x, bits) ==
    LET p == x % 2 ^ bits IN IF p >= 2 ^ (bits - 1) THEN p - 2 ^ bits ELSE p
Int64(x) == SignedOf(x, Width64)
ToInt(x) == SignedOf(x, IntBits)

-----------------------------------------------------------------------------
(***************************************************************************)
(* The program                                                             *)
(***************************************************************************)
\* What is left of n, and how far it was shifted, after the steps i and above that
\* look for its leftmost bit.
Halved(n) ==
    LET from[i \in 0 .. LogWidth] ==
            IF i = LogWidth THEN [n |-> n, l |-> 0]
            ELSE LET above == from[i + 1]
                     shift == IF above.n >= 2 ^ (2 ^ i) THEN 2 ^ i ELSE 0
                 IN  [n |-> above.n \div 2 ^ shift, l |-> above.l + shift]
    IN  from[0]

\* Mutant: the leftmost bit itself is not masked out.
Log2_Unmasked(n, k) ==
    LET l == Halved(n).l - k
    IN  IF Int64(n) < 0 THEN 0
        ELSE IF n < 2 ^ k THEN n + 1
        ELSE (l + 1) * 2 ^ k + n \div 2 ^ l + 1

\* The bucket of n, an unsigned word: 2^k for each power of two.
Log2(n, k) ==
    LET l == Halved(n).l - k
        next == (n \div 2 ^ l) % 2 ^ k    \* the k bits after the leftmost
    IN  IF Int64(n) < 0 THEN 0
        ELSE IF n < 2 ^ k THEN n + 1
        ELSE (l + 1) * 2 ^ k + next + 1

Linear(n, h) ==
    IF Int64(n) < Int64(h.min) THEN 0
    ELSE IF Int64(n) > Int64(h.max) THEN 1 + Unsigned(h.max - h.min) \div h.step
    ELSE 1 + Unsigned(n - h.min) \div h.step

BucketOf(h, n) == IF h.f = "hist" THEN Log2(Unsigned(n), h.k) ELSE Linear(Unsigned(n), h)

\* The calls that compile; min, max and step are unsigned literals.
Accepted(h) ==
    h.f = "lhist" =>
        /\ h.step >= 1 /\ h.min <= h.max /\ h.max - h.min >= h.step
        /\ ToInt((h.max - h.min) \div h.step) <= MaxBuckets

HistInit ==
    /\ call \in {h \in Histograms : Accepted(h)}
    /\ counts = [b \in {} |-> 0]
    /\ samples = <<>>

Record(n, times) ==
    LET b == BucketOf(call, n)
        before == IF b \in DOMAIN counts THEN counts[b] ELSE 0
    IN  /\ Len(samples) < MaxSamples
        /\ samples' = Append(samples, [n |-> n, times |-> times])
        /\ counts' = [c \in DOMAIN counts \cup {b} |-> IF c = b THEN before + times ELSE counts[c]]
        /\ UNCHANGED call

HistNext == \E n \in Numbers64, times \in Repeats : Record(n, times)
HistSpec == HistInit /\ [][HistNext]_histVars

-----------------------------------------------------------------------------
(***************************************************************************)
(* print                                                                   *)
(***************************************************************************)
\* collect_histogram_data: a vector of a fixed length, whose at() throws.
Slots == 0 .. (IF call.f = "hist" THEN (Width64 + 1) * 2 ^ (LogWidth - 1) ELSE MaxBuckets + 2) - 1
Throws == ~(DOMAIN counts \subseteq Slots)

\* A count counts if it is positive as an int.
indices == {b \in DOMAIN counts : ToInt(counts[b]) > 0}
CountOf(b) == IF b \in DOMAIN counts THEN counts[b] ELSE 0

hist_index_label(i, k) == 2 ^ (i \div 2 ^ k - 1) * (2 ^ k + (i % 2 ^ k))

\* Where bucket i ends.
HistEdge(i) == IF i <= 2 * 2 ^ call.k THEN i ELSE hist_index_label(i, call.k)
LinearEdge(i) == ToInt(ToInt(call.min) + i * ToInt(call.step))
Edge(i) == IF call.f = "hist" THEN HistEdge(i) ELSE LinearEdge(i)

\* The last bucket of an lhist() has no label: it ends nowhere.
Labelled(i) == call.f = "lhist" => LinearEdge(i) <= ToInt(call.max)
Divided(n) == IF call.f = "hist" THEN n \div call.div ELSE n

\* The bars from the first to the last bucket that counts; a bound that is not there
\* is the empty set.
Bars ==
    LET first == Min(indices)
        last == Max(indices)
        labels == SelectSeq([j \in 1 .. last - first + 1 |-> first + j - 1], Labelled)
        LabelAt(j) == IF j \in DOMAIN labels THEN {Edge(labels[j])} ELSE {}
        lower_bound == IF first = 0 THEN {} ELSE {Edge(first - 1)}
    IN  IF indices = {} THEN {}
        ELSE {[lo |-> IF b = first THEN lower_bound ELSE LabelAt(b - first),
               hi |-> LabelAt(b - first + 1),
               n  |-> Divided(CountOf(b))] : b \in first .. last}

-----------------------------------------------------------------------------
(***************************************************************************)
(* Properties                                                              *)
(***************************************************************************)
Inside(n, bar) == (\A x \in bar.lo : x <= n) /\ (\A x \in bar.hi : n < x)

\* As fine as asked: 2^k bars for a power of two, and one for each number before
\* that; steps within the range of an lhist().
Fine(bar) ==
    \A lo \in bar.lo, hi \in bar.hi :
        IF call.f = "lhist" THEN hi - lo = call.step /\ lo >= call.min /\ hi <= call.max
        ELSE hi - lo = Max({1} \cup {2 ^ i : i \in {j \in 0 .. Width64 : 2 ^ (j + call.k) <= lo}})

\* What print shows of a histogram is its samples: each is inside exactly one bar, a
\* bar counts those inside it, and the bars are as wide as the call says
\* (docs/stdlib.md, hist and lhist).
SamplesShown ==
    LET bars == Bars IN
    /\ ~Throws
    /\ \A i \in DOMAIN samples : \E bar \in bars : Inside(samples[i].n, bar)
    /\ \A bar \in bars :
          /\ Fine(bar)
          /\ LET held == {i \in DOMAIN samples : Inside(samples[i].n, bar)} IN
             bar.n = Divided(MapThenSumSet(LAMBDA i : samples[i].times, held))
=============================================================================
