-------------------------- MODULE TimeSeriesProofs --------------------------
(***************************************************************************)
(* What print() shows of a time series of more than one interval, for any  *)
(* number of CPUs, keys, intervals, samples, events and entries.           *)
(***************************************************************************)
EXTENDS TimeSeries, FiniteSetTheorems, SequenceTheorems, WellFoundedInduction, TLAPS

-----------------------------------------------------------------------------
(***************************************************************************)
(* The inductive invariant.                                                *)
(***************************************************************************)
FieldNames == {"val", "meta", "epoch"}
Words == [val : Nat, meta : Nat, epoch : Nat]
StoreType == FieldNames \X Nat

\* The epochs an entry can have: none yet, or one that is counted in its bucket.
Bucketed(e, ep) == ep = 0 \/ (ep >= NumIntervals /\ ep % NumIntervals = e[2])
PartOf(e) == {w \in Words : Bucketed(e, w.epoch)}

SampleType ==
    {s \in [n : Nat, cpu : Cpus, key : Keys, val : Nat, now : Nat] : s.now >= StartTime}
Programs ==
    {p \in [pc : {"missing", "store"}, n : Nat, key : Keys, val : Nat, now : Nat,
            todo : Seq(StoreType)] : p.now >= StartTime}

\* What a program has still to store goes to its entry.
ToItsEntry(p) ==
    p.pc = "store" =>
        /\ p.todo # <<>> /\ entry[Where(p)] # Absent
        /\ \A i \in DOMAIN p.todo : p.todo[i][1] = "epoch" => Bucketed(Where(p), p.todo[i][2])

KernelOK ==
    /\ agg \in Aggs /\ time \in Nat /\ time >= StartTime /\ hits \in Nat
    /\ DOMAIN entry = Entries
    /\ \A e \in Entries : entry[e] \in {Absent} \cup [Cpus -> PartOf(e)]
    /\ DOMAIN prog = Cpus
    /\ \A c \in Cpus : prog[c] = Idle \/ (prog[c] \in Programs /\ ToItsEntry(prog[c]))

UserOK ==
    /\ IsFiniteSet(Present) /\ walk \in Seq(Entries)
    /\ \A i, j \in DOMAIN walk : walk[i] = walk[j] => i = j
    /\ \A i \in DOMAIN walk : entry[walk[i]] # Absent
    /\ buf \in Seq(Words) /\ Len(buf) < NCpus
    /\ buf # <<>> => /\ walk # <<>>
                     /\ \A i \in DOMAIN buf : Bucketed(Head(walk), buf[i].epoch)
    /\ upc = "idle" => buf = <<>>
    /\ \A s \in series : s[1] \in Keys /\ s[2] \in Nat /\ s = <<s[1], s[2], s[3]>>
    /\ IsFiniteSet(series)
    /\ log \subseteq SampleType /\ IsFiniteSet(log)

TypeInv == KernelOK /\ UserOK

\* Every call is one sample, recorded in an entry that is there, and its CPU's calls
\* follow each other.
Calls ==
    /\ \A s \in log : s.n <= hits /\ s.now <= time /\ entry[Where(s)] # Absent
    /\ \A s, t \in log : s.n = t.n => s = t
    /\ \A c \in Cpus : prog[c].pc # "idle" =>
          /\ prog[c].n <= hits /\ prog[c].now <= time
          /\ \A s \in log : s.n # prog[c].n /\ (s.cpu = c => s.now <= prog[c].now)
          /\ \A d \in Cpus : prog[d].pc # "idle" /\ prog[d].n = prog[c].n => c = d

\* The words of a CPU hold the samples T of one epoch.
Hold(g, w, T) ==
    CASE g = "none" -> \E s \in T : w.val = s.val /\ w.meta = s.now /\ \A t \in T : t.now <= s.now
      [] g = "sum"  -> w.val = MapThenSumSet(LAMBDA s : s.val, T)
      [] g = "avg"  -> w.val = MapThenSumSet(LAMBDA s : s.val, T) /\ w.meta = Cardinality(T)
      [] g = "max"  -> w.meta = 1 /\ \E s \in T : w.val = s.val /\ \A t \in T : t.val <= s.val
      [] g = "min"  -> w.meta = 1 /\ \E s \in T : w.val = s.val /\ \A t \in T : t.val >= s.val

Latest(S, ep) == {s \in S : Epoch(s.now) = ep}

\* They tell the samples S: those of the latest epoch.
Told(g, w, S) ==
    IF S = {} THEN w = ZeroPart
    ELSE /\ \A s \in S : Epoch(s.now) <= w.epoch
         /\ Latest(S, w.epoch) # {} /\ Hold(g, w, Latest(S, w.epoch))

Of(c, e) == {s \in log : s.cpu = c /\ Where(s) = e}
StoringAt(c, e) == prog[c].pc = "store" /\ Where(prog[c]) = e
Zeroing(e) == upc = "zero" /\ Visits(e)

\* An entry that was not zeroed under a program tells its samples, or will once the
\* programs in it have stored what they have to.
ExactAt(e, c) ==
    entry[e] # Absent =>
        /\ StoringAt(c, e) => Told(agg, Stored(entry[e][c], prog[c].todo),
                                   Of(c, e) \cup {Sample(c, prog[c])})
        /\ (~StoringAt(c, e) /\ ~(Zeroing(e) /\ c > Len(buf))) => Told(agg, entry[e][c], Of(c, e))
Exact == \A e \in Entries \ spoiled, c \in Cpus : ExactAt(e, c)

\* A program that found no bucket has recorded nothing in it.
Fresh == \A c \in Cpus : prog[c].pc = "missing" => Of(c, Where(prog[c])) = {}

\* While an entry is zeroed it has no samples, and a program that did not spoil it is
\* yet to store every word.
Emptied ==
    \A e \in Entries \ spoiled : Zeroing(e) =>
        /\ \A c \in Cpus : Of(c, e) = {}
        /\ \A c \in Cpus : StoringAt(c, e) =>
              \A f \in FieldNames : \E i \in DOMAIN prog[c].todo : prog[c].todo[i][1] = f

\* What was copied of an entry is what is there, and it tells the samples.
Copied ==
    (upc = "copy" /\ buf # <<>> /\ ~torn) =>
        LET e == Head(walk) IN
        /\ \A i \in DOMAIN buf : buf[i] = entry[e][i]
        /\ e \notin spoiled => \A c \in Cpus : Told(agg, entry[e][c], Of(c, e))

\* The values collected are of buckets visited.
Collected ==
    /\ \A s, t \in series : (s[1] = t[1] /\ s[2] = t[2]) => s = t
    /\ \A s \in series :
          \/ s[2] = 0
          \/ s[2] >= NumIntervals /\ <<s[1], s[2] % NumIntervals>> \notin Range(walk)

\* The one value of an entry copied whole is the aggregate of words that tell its samples.
Reduced(x, parts) ==
    LET r == reduce_tseries_value(parts)
        k == x.at[1]
    IN  /\ \A c \in Cpus : Told(agg, parts[c], {s \in x.samples : s.cpu = c})
        /\ r[1] # 0 => <<k, r[1], r[2]>> \in series
        /\ \A s \in series : (s[1] = k /\ s[2] # 0 /\ s[2] % NumIntervals = x.at[2])
                                => s = <<k, r[1], r[2]>>
TakenAt(x) ==
    /\ x.at \in Entries \ Range(walk)
    /\ x.samples \subseteq SampleType /\ IsFiniteSet(x.samples)
    /\ \A s \in x.samples : Where(s) = x.at
    /\ \E s \in series : s[1] = x.at[1]
    /\ x.at \notin spoiled => \E parts \in [Cpus -> PartOf(x.at)] : Reduced(x, parts)
Taken == \A x \in seen : TakenAt(x)

\* What is printed is exact, if there is more than one interval.
Shown == NumIntervals > 1 => SeriesExact

IInv ==
    TypeInv /\ Calls /\ Exact /\ Fresh /\ Emptied /\ Copied /\ Collected /\ Taken /\ Shown

-----------------------------------------------------------------------------
(***************************************************************************)
(* Epochs and buckets.                                                     *)
(***************************************************************************)
\* Later times have no earlier epochs.
LEMMA Dividing ==
    ASSUME NEW d \in Nat \ {0}, NEW a \in Nat, NEW b \in Nat, NEW k \in Nat
    PROVE  /\ a \div d \in Nat
           /\ a <= b => a \div d <= b \div d
           /\ a >= d * k => a \div d >= k
<1>1. a \div d \in Nat
  OBVIOUS
<1>2. a <= b => a \div d <= b \div d
  OBVIOUS
<1>3. a >= d * k => a \div d >= k
  OBVIOUS
<1> QED BY <1>1, <1>2, <1>3

\* Two epochs in one bucket are at least a ring apart.
LEMMA Ring ==
    ASSUME NEW d \in Nat \ {0}, NEW a \in Nat, NEW b \in Nat
    PROVE  /\ a % d \in 0 .. d - 1
           /\ (a % d = b % d /\ a < b) => a + d <= b
<1>1. a = d * (a \div d) + (a % d) /\ b = d * (b \div d) + (b % d)
  OBVIOUS
<1>2. a % d \in 0 .. d - 1 /\ b % d \in 0 .. d - 1 /\ a \div d \in Nat /\ b \div d \in Nat
  OBVIOUS
<1>3. ASSUME a % d = b % d, a < b PROVE a + d <= b
  <2> DEFINE p == a \div d
             q == b \div d
  <2>1. d * p < d * q
    BY <1>1, <1>2, <1>3
  <2>2. p \in Nat /\ q \in Nat
    BY <1>2
  <2> HIDE DEF p, q
  <2>3. p + 1 <= q
    BY <2>1, <2>2
  <2>4. d * (p + 1) <= d * q /\ d * (p + 1) = d * p + d
    BY <2>2, <2>3
  <2> QED BY <1>1, <1>2, <1>3, <2>4 DEF p, q
<1> QED BY <1>2, <1>3

\* The epochs of samples: never 0, so that a word of 0 is none.
LEMMA EpochFacts ==
    ASSUME NEW a \in Nat
    PROVE  /\ Epoch(a) \in Nat
           /\ \A b \in Nat : a <= b => Epoch(a) <= Epoch(b)
           /\ a >= StartTime => Epoch(a) >= NumIntervals /\ Epoch(a) > 0
           /\ \A b \in Nat : b % NumIntervals \in Buckets
<1>1. /\ Interval \in Nat \ {0} /\ NumIntervals \in Nat \ {0} /\ StartTime \in Nat
      /\ StartTime >= Interval * NumIntervals
  BY SeriesAssumption
<1>2. Epoch(a) \in Nat /\ \A b \in Nat : a <= b => Epoch(a) <= Epoch(b)
  BY <1>1, Dividing DEF Epoch
<1>3. a >= StartTime => Epoch(a) >= NumIntervals
  <2>1. Interval * NumIntervals \in Nat
    BY <1>1
  <2>2. a >= StartTime => a >= Interval * NumIntervals
    BY <1>1, <2>1
  <2> QED BY <1>1, <2>2, Dividing DEF Epoch
<1>4. \A b \in Nat : b % NumIntervals \in Buckets
  BY <1>1, Ring DEF Buckets
<1> QED BY <1>1, <1>2, <1>3, <1>4

-----------------------------------------------------------------------------
(***************************************************************************)
(* Sums, and the greatest and the least of a set.                          *)
(***************************************************************************)
Pick(s) == CHOOSE x \in s : TRUE
Rest(s) == s \ {Pick(s)}

\* g adds up v over the subsets of D.
Sums(g, v, D) ==
    g = [s \in SUBSET D |-> IF s = {} THEN 0 ELSE v[Pick(s)] + g[Rest(s)]]

\* A non-empty set of natural numbers has a least element.
LEMMA Least ==
    ASSUME NEW T, T \subseteq Nat, T # {}
    PROVE  \E n \in T : \A m \in T : n <= m
<1> DEFINE R == OpToRel(<, Nat)
<1>1. \A x, y \in Nat : <<y, x>> \in R <=> y < x
  BY DEF OpToRel
<1>2. PICK x \in T : \A y \in T : <<y, x>> \notin R
  BY NatLessThanWellFounded, WFMin
<1>3. \A y \in T : x <= y
  <2> TAKE y \in T
  <2>1. x \in Nat /\ y \in Nat
    OBVIOUS
  <2>2. ~(y < x)
    BY <2>1, <1>1, <1>2, Zenon
  <2> QED BY <2>1, <2>2
<1> QED BY <1>3

\* What is left of a finite set when an element is taken out.
LEMMA RestIn ==
    ASSUME NEW D, IsFiniteSet(D), NEW s \in SUBSET D
    PROVE  /\ Cardinality(s) \in Nat /\ IsFiniteSet(s) /\ Cardinality(s) <= Cardinality(D)
           /\ Cardinality(D) \in Nat
           /\ \A x \in s : s \ {x} \in SUBSET D /\ Cardinality(s \ {x}) = Cardinality(s) - 1
           /\ s # {} => /\ Pick(s) \in s /\ Rest(s) \in SUBSET D
                        /\ Cardinality(Rest(s)) = Cardinality(s) - 1
           /\ s # {} <=> Cardinality(s) # 0
<1>1. IsFiniteSet(s) /\ Cardinality(s) <= Cardinality(D) /\ Cardinality(D) \in Nat
  BY FS_Subset, FS_CardinalityType
<1>2. Cardinality(s) \in Nat /\ (s # {} <=> Cardinality(s) # 0)
  BY <1>1, FS_CardinalityType, FS_EmptySet
<1>3. \A x \in s : s \ {x} \in SUBSET D /\ Cardinality(s \ {x}) = Cardinality(s) - 1
  BY <1>1, FS_RemoveElement
<1>4. s # {} => Pick(s) \in s
  BY DEF Pick
<1> QED BY <1>1, <1>2, <1>3, <1>4 DEF Rest

\* There is such a g for a finite set.
LEMMA SumsExist ==
    ASSUME NEW D, IsFiniteSet(D), NEW v
    PROVE  \E g : Sums(g, v, D)
<1> DEFINE Up(n) == {s \in SUBSET D : Cardinality(s) <= n}
           Part(g, n) == g = [s \in Up(n) |-> IF s = {} THEN 0 ELSE v[Pick(s)] + g[Rest(s)]]
           T == {n \in Nat : ~ \E g : Part(g, n)}
<1>1. T = {}
  <2> SUFFICES ASSUME T # {} PROVE FALSE
    OBVIOUS
  <2>1. PICK n \in T : \A m \in T : n <= m
    BY Least
  <2>2. \E g : \A s \in Up(n) : s # {} =>
               g[Rest(s)] = IF Rest(s) = {} THEN 0 ELSE v[Pick(Rest(s))] + g[Rest(Rest(s))]
    <3>1. CASE n = 0
      <4>1. \A s \in Up(n) : s = {}
        BY <3>1, RestIn
      <4> QED BY <4>1
    <3>2. CASE n # 0
      <4>1. n - 1 \in Nat /\ n - 1 \notin T
        <5>1. T \subseteq Nat
          OBVIOUS
        <5> HIDE DEF T
        <5> QED BY <2>1, <3>2, <5>1
      <4>2. PICK g : Part(g, n - 1)
        BY <4>1
      <4>3. \A s \in Up(n) : s # {} => Rest(s) \in Up(n - 1)
        BY <2>1, RestIn
      <4> WITNESS g
      <4> QED BY <4>2, <4>3
    <3> QED BY <3>1, <3>2
  <2>3. PICK g : \A s \in Up(n) : s # {} =>
               g[Rest(s)] = IF Rest(s) = {} THEN 0 ELSE v[Pick(Rest(s))] + g[Rest(Rest(s))]
    BY <2>2
  <2> DEFINE h == [s \in Up(n) |-> IF s = {} THEN 0 ELSE v[Pick(s)] + g[Rest(s)]]
  <2>4. \A s \in Up(n) : s # {} => Rest(s) \in Up(n)
    BY <2>1, RestIn
  <2>5. \A s \in Up(n) : s # {} => h[Rest(s)] = g[Rest(s)]
    BY <2>3, <2>4
  <2>6. Part(h, n)
    BY <2>5
  <2> QED BY <2>1, <2>6
<1>2. Cardinality(D) \in Nat /\ Up(Cardinality(D)) = SUBSET D
  BY RestIn
<1>3. \E g : Part(g, Cardinality(D))
  BY <1>1, <1>2
<1> QED BY <1>2, <1>3 DEF Sums

\* Sums of natural numbers are natural, in whatever order they are made.
LEMMA SumsFacts ==
    ASSUME NEW D, IsFiniteSet(D), NEW v, \A x \in D : v[x] \in Nat, NEW g, Sums(g, v, D)
    PROVE  \A s \in SUBSET D : g[s] \in Nat /\ \A x \in s : g[s] = v[x] + g[s \ {x}]
<1> DEFINE Good(s) == g[s] \in Nat /\ \A x \in s : g[s] = v[x] + g[s \ {x}]
           T == {n \in Nat : \E s \in SUBSET D : Cardinality(s) = n /\ ~Good(s)}
<1>1. ASSUME T # {} PROVE FALSE
  <2>1. PICK n \in T : \A m \in T : n <= m
    BY <1>1, Least
  <2>2. PICK s \in SUBSET D : Cardinality(s) = n /\ ~Good(s)
    BY <2>1
  <2>3. ASSUME NEW t \in SUBSET D, Cardinality(t) = n - 1, n # 0 PROVE Good(t)
    <3>1. n - 1 \in Nat /\ n - 1 \notin T
      <4>1. T \subseteq Nat
        OBVIOUS
      <4> HIDE DEF T
      <4> QED BY <2>1, <2>3, <4>1
    <3> HIDE DEF Good
    <3> QED BY <2>3, <3>1
  <2>4. CASE s = {}
    BY <2>2, <2>4 DEF Sums
  <2>5. CASE s # {}
    <3> DEFINE p == Pick(s)
    <3>1. p \in s /\ n # 0 /\ s \ {p} \in SUBSET D /\ Cardinality(s \ {p}) = n - 1
      BY <2>2, <2>5, RestIn
    <3>2. Good(s \ {p}) /\ g[s] = v[p] + g[s \ {p}]
      BY <2>3, <2>5, <3>1 DEF Sums, Rest
    <3> HIDE DEF p
    <3>3. g[s] \in Nat
      BY <3>1, <3>2
    <3>4. ASSUME NEW x \in s PROVE g[s] = v[x] + g[s \ {x}]
      <4>1. CASE x = p
        BY <3>2, <4>1
      <4>2. CASE x # p
        <5>1. s \ {x} \in SUBSET D /\ Cardinality(s \ {x}) = n - 1
          BY <2>2, RestIn
        <5>2. Good(s \ {x})
          BY <2>3, <3>1, <5>1
        <5>3. g[s \ {x}] = v[p] + g[(s \ {x}) \ {p}]
          BY <3>1, <4>2, <5>2
        <5>4. g[s \ {p}] = v[x] + g[(s \ {p}) \ {x}]
          BY <3>2, <4>2
        <5>5. (s \ {x}) \ {p} = (s \ {p}) \ {x}
          OBVIOUS
        <5>6. g[(s \ {p}) \ {x}] \in Nat
          <6>1. x \in s \ {p}
            BY <4>2
          <6> DEFINE t == s \ {p}
          <6>2. Cardinality(t \ {x}) = Cardinality(t) - 1 /\ t \ {x} \in SUBSET D
                /\ Cardinality(t \ {x}) \in Nat /\ Cardinality(t) \in Nat
            <7>1. t \in SUBSET D /\ x \in t
              BY <3>1, <6>1
            <7> HIDE DEF t
            <7>2. Cardinality(t \ {x}) = Cardinality(t) - 1 /\ t \ {x} \in SUBSET D
              BY <7>1, RestIn
            <7> QED BY <7>1, <7>2, RestIn
          <6>3. n \in Nat
            BY <2>1
          <6>4. Cardinality(t \ {x}) < n
            BY <3>1, <6>2, <6>3
          <6>5. Cardinality(t \ {x}) \notin T
            <7>1. T \subseteq Nat
              OBVIOUS
            <7> HIDE DEF T
            <7> QED BY <2>1, <6>2, <6>3, <6>4, <7>1
          <6> QED BY <6>2, <6>5
        <5>7. v[x] \in Nat /\ v[p] \in Nat
          BY <3>1
        <5> HIDE DEF Good
        <5>8. g[s] = v[p] + g[s \ {p}]
          BY <3>2
        <5> DEFINE a == g[(s \ {p}) \ {x}]
        <5>9. a \in Nat /\ g[s] = v[p] + (v[x] + a) /\ g[s \ {x}] = v[p] + a
          BY <5>3, <5>4, <5>5, <5>6, <5>8
        <5> HIDE DEF a
        <5> QED BY <5>7, <5>9
      <4> QED BY <4>1, <4>2
    <3> QED BY <2>2, <3>3, <3>4
  <2> QED BY <2>4, <2>5
<1>2. \A s \in SUBSET D : Cardinality(s) \in Nat
  BY RestIn
<1> QED BY <1>1, <1>2

\* A set of non-empty subsets of a finite set has one that is not in it with an element less.
LEMMA Smallest ==
    ASSUME NEW D, IsFiniteSet(D), NEW B, B \subseteq SUBSET D, B # {}, {} \notin B
    PROVE  \E s \in B : \E x \in s : s \ {x} \in SUBSET D /\ s \ {x} \notin B
<1> DEFINE T == {Cardinality(s) : s \in B}
<1>1. T \subseteq Nat /\ T # {}
  <2>1. \A s \in SUBSET D : Cardinality(s) \in Nat
    BY RestIn
  <2> QED BY <2>1
<1>2. PICK n \in T : \A m \in T : n <= m
  BY <1>1, Least
<1>3. PICK s \in B : Cardinality(s) = n
  BY <1>2
<1>4. PICK x \in s : TRUE
  OBVIOUS
<1>5. s \ {x} \in SUBSET D /\ Cardinality(s \ {x}) = n - 1 /\ n \in Nat
  BY <1>1, <1>3, <1>4, RestIn
<1>6. n - 1 \notin T
  BY <1>1, <1>2, <1>5
<1>7. s \ {x} \notin B
  BY <1>5, <1>6
<1> QED BY <1>4, <1>5, <1>7

Within(v, D, w, E) == IsFiniteSet(E) /\ D \subseteq E /\ \A x \in D : v[x] = w[x]

\* What is summed up over a set does not depend on the set around it.
LEMMA SumsSame ==
    ASSUME NEW D, NEW E, NEW v, NEW w, Within(v, D, w, E),
           NEW g, Sums(g, v, D), NEW h, Sums(h, w, E)
    PROVE  \A s \in SUBSET D : g[s] = h[s]
<1> USE DEF Within
<1> DEFINE B == {s \in SUBSET D : g[s] # h[s]}
<1>1. IsFiniteSet(D)
  BY FS_Subset
<1>2. ASSUME B # {} PROVE FALSE
  <2> DEFINE T == {Cardinality(s) : s \in B}
  <2>1. \A s \in SUBSET D : Cardinality(s) \in Nat
    BY <1>1, RestIn
  <2>2. PICK n \in T : \A m \in T : n <= m
    <3>1. T \subseteq Nat /\ T # {}
      BY <1>2, <2>1
    <3> HIDE DEF T
    <3> QED BY <3>1, Least
  <2>3. PICK s \in B : Cardinality(s) = n
    BY <2>2
  <2>4. s # {}
    BY <2>3 DEF Sums
  <2>5. /\ Pick(s) \in s /\ Rest(s) \in SUBSET D /\ Cardinality(Rest(s)) = n - 1 /\ n \in Nat
    BY <1>1, <2>1, <2>3, <2>4, RestIn
  <2>6. g[Rest(s)] = h[Rest(s)]
    <3>1. n - 1 \notin T
      <4>1. T \subseteq Nat
        BY <2>1
      <4> HIDE DEF T
      <4> QED BY <2>2, <2>5, <4>1
    <3> QED BY <2>5, <3>1
  <2>7. g[s] = v[Pick(s)] + g[Rest(s)] /\ h[s] = w[Pick(s)] + h[Rest(s)]
    <3>1. s \in SUBSET D /\ s \in SUBSET E
      OBVIOUS
    <3> QED BY <2>4, <3>1 DEF Sums
  <2> QED BY <2>3, <2>5, <2>6, <2>7
<1> QED BY <1>2

SumVal(T) == MapThenSumSet(LAMBDA s : s.val, T)

ValSum(parts, T) == MapThenSumSet(LAMBDA c : parts[c].val, T)
MetaSum(parts, T) == MapThenSumSet(LAMBDA c : parts[c].meta, T)

\* The folds of the model are such sums.
LEMMA FoldsAreSums ==
    ASSUME NEW T, IsFiniteSet(T)
    PROVE  /\ \E g : Sums(g, [s \in T |-> s.val], T) /\ SumVal(T) = g[T]
           /\ \A parts : \E g : /\ Sums(g, [c \in T |-> parts[c].val], T)
                                /\ ValSum(parts, T) = g[T]
           /\ \A parts : \E g : /\ Sums(g, [c \in T |-> parts[c].meta], T)
                                /\ MetaSum(parts, T) = g[T]
<1>1. \A s \in SUBSET T : s # {} => Pick(s) \in T
  BY DEF Pick
<1>2. \E g : Sums(g, [s \in T |-> s.val], T) /\ SumVal(T) = g[T]
  <2> DEFINE v == [s \in T |-> s.val]
             G == CHOOSE g : g = [s \in SUBSET T |->
                     IF s = {} THEN 0
                     ELSE (CHOOSE x \in s : TRUE).val + g[s \ {CHOOSE x \in s : TRUE}]]
  <2>1. SumVal(T) = G[T]
    BY DEF SumVal, MapThenSumSet, MapThenFoldSet
  <2>2. \A g : Sums(g, v, T) <=> g = [s \in SUBSET T |->
                     IF s = {} THEN 0
                     ELSE (CHOOSE x \in s : TRUE).val + g[s \ {CHOOSE x \in s : TRUE}]]
    <3> TAKE g
    <3>1. \A s \in SUBSET T : (IF s = {} THEN 0 ELSE v[Pick(s)] + g[Rest(s)])
             = (IF s = {} THEN 0
                ELSE (CHOOSE x \in s : TRUE).val + g[s \ {CHOOSE x \in s : TRUE}])
      BY <1>1 DEF Pick, Rest
    <3>2. [s \in SUBSET T |-> IF s = {} THEN 0 ELSE v[Pick(s)] + g[Rest(s)]]
          = [s \in SUBSET T |-> IF s = {} THEN 0
                ELSE (CHOOSE x \in s : TRUE).val + g[s \ {CHOOSE x \in s : TRUE}]]
      BY <3>1
    <3> HIDE DEF v
    <3> QED BY <3>2, Zenon DEF Sums
  <2>3. \E g : Sums(g, v, T)
    BY SumsExist
  <2>4. Sums(G, v, T)
    BY <2>2, <2>3
  <2> QED BY <2>1, <2>4
<1>3. ASSUME NEW parts
      PROVE  \E g : /\ Sums(g, [c \in T |-> parts[c].val], T)
                    /\ ValSum(parts, T) = g[T]
  <2> DEFINE v == [c \in T |-> parts[c].val]
             G == CHOOSE g : g = [s \in SUBSET T |->
                     IF s = {} THEN 0
                     ELSE parts[CHOOSE x \in s : TRUE].val + g[s \ {CHOOSE x \in s : TRUE}]]
  <2>1. ValSum(parts, T) = G[T]
    BY DEF ValSum, MapThenSumSet, MapThenFoldSet
  <2>2. \A g : Sums(g, v, T) <=> g = [s \in SUBSET T |->
                     IF s = {} THEN 0
                     ELSE parts[CHOOSE x \in s : TRUE].val + g[s \ {CHOOSE x \in s : TRUE}]]
    <3> TAKE g
    <3>1. \A s \in SUBSET T : (IF s = {} THEN 0 ELSE v[Pick(s)] + g[Rest(s)])
             = (IF s = {} THEN 0
                ELSE parts[CHOOSE x \in s : TRUE].val + g[s \ {CHOOSE x \in s : TRUE}])
      BY <1>1 DEF Pick, Rest
    <3>2. [s \in SUBSET T |-> IF s = {} THEN 0 ELSE v[Pick(s)] + g[Rest(s)]]
          = [s \in SUBSET T |-> IF s = {} THEN 0
                ELSE parts[CHOOSE x \in s : TRUE].val + g[s \ {CHOOSE x \in s : TRUE}]]
      BY <3>1
    <3> HIDE DEF v
    <3> QED BY <3>2, Zenon DEF Sums
  <2>3. \E g : Sums(g, v, T)
    BY SumsExist
  <2>4. Sums(G, v, T)
    BY <2>2, <2>3
  <2> QED BY <2>1, <2>4
<1>4. ASSUME NEW parts
      PROVE  \E g : /\ Sums(g, [c \in T |-> parts[c].meta], T)
                    /\ MetaSum(parts, T) = g[T]
  <2> DEFINE v == [c \in T |-> parts[c].meta]
             G == CHOOSE g : g = [s \in SUBSET T |->
                     IF s = {} THEN 0
                     ELSE parts[CHOOSE x \in s : TRUE].meta + g[s \ {CHOOSE x \in s : TRUE}]]
  <2>1. MetaSum(parts, T) = G[T]
    BY DEF MetaSum, MapThenSumSet, MapThenFoldSet
  <2>2. \A g : Sums(g, v, T) <=> g = [s \in SUBSET T |->
                     IF s = {} THEN 0
                     ELSE parts[CHOOSE x \in s : TRUE].meta + g[s \ {CHOOSE x \in s : TRUE}]]
    <3> TAKE g
    <3>1. \A s \in SUBSET T : (IF s = {} THEN 0 ELSE v[Pick(s)] + g[Rest(s)])
             = (IF s = {} THEN 0
                ELSE parts[CHOOSE x \in s : TRUE].meta + g[s \ {CHOOSE x \in s : TRUE}])
      BY <1>1 DEF Pick, Rest
    <3>2. [s \in SUBSET T |-> IF s = {} THEN 0 ELSE v[Pick(s)] + g[Rest(s)]]
          = [s \in SUBSET T |-> IF s = {} THEN 0
                ELSE parts[CHOOSE x \in s : TRUE].meta + g[s \ {CHOOSE x \in s : TRUE}]]
      BY <3>1
    <3> HIDE DEF v
    <3> QED BY <3>2, Zenon DEF Sums
  <2>3. \E g : Sums(g, v, T)
    BY SumsExist
  <2>4. Sums(G, v, T)
    BY <2>2, <2>3
  <2> QED BY <2>1, <2>4
<1> QED BY <1>2, <1>3, <1>4

Valued(T) == IsFiniteSet(T) /\ \A s \in T : s.val \in Nat

\* What the sum of samples is.
LEMMA SumValFacts ==
    ASSUME NEW T, Valued(T)
    PROVE  /\ SumVal(T) \in Nat /\ SumVal({}) = 0
           /\ \A x \in T : SumVal(T) = x.val + SumVal(T \ {x})
<1> DEFINE v == [s \in T |-> s.val]
<1>1. \A s \in T : v[s] \in Nat /\ v[s] = s.val
  BY DEF Valued
<1>2. PICK g : Sums(g, v, T) /\ SumVal(T) = g[T]
  BY FoldsAreSums DEF Valued
<1>3. \A s \in SUBSET T : g[s] \in Nat /\ \A x \in s : g[s] = v[x] + g[s \ {x}]
  <2>1. IsFiniteSet(T)
    BY DEF Valued
  <2>2. \A x \in T : v[x] \in Nat
    BY <1>1
  <2>3. Sums(g, v, T)
    BY <1>2
  <2> HIDE DEF v
  <2> QED BY <2>1, <2>2, <2>3, SumsFacts
<1>4. ASSUME NEW S \in SUBSET T PROVE SumVal(S) = g[S]
  <2>1. IsFiniteSet(S) /\ IsFiniteSet(T)
    BY FS_Subset DEF Valued
  <2>2. PICK h : Sums(h, [s \in S |-> s.val], S) /\ SumVal(S) = h[S]
    BY <2>1, FoldsAreSums
  <2>3. PICK w, u : w = [s \in S |-> s.val] /\ u = v
    OBVIOUS
  <2>4. /\ Sums(h, w, S) /\ Sums(g, u, T) /\ S \subseteq T /\ S \in SUBSET S
        /\ Within(w, S, u, T)
    BY <1>2, <2>1, <2>2, <2>3 DEF Within
  <2>5. \A s \in SUBSET S : h[s] = g[s]
    BY <2>4, SumsSame
  <2> QED BY <2>2, <2>4, <2>5
<1>5. SumVal({}) = 0
  <2>1. SumVal({}) = g[{}]
    BY <1>4
  <2> QED BY <1>2, <2>1 DEF Sums
<1>6. ASSUME NEW x \in T PROVE SumVal(T) = x.val + SumVal(T \ {x})
  <2>1. SumVal(T \ {x}) = g[T \ {x}]
    BY <1>4
  <2>2. g[T] = v[x] + g[T \ {x}]
    BY <1>3
  <2> QED BY <1>1, <1>2, <2>1, <2>2
<1> QED BY <1>2, <1>3, <1>5, <1>6

\* m is what the elements of a set weigh together.
Additive(m, S) ==
    /\ m \in [SUBSET S -> Nat] /\ m[{}] = 0
    /\ \A A \in SUBSET S : \A x \in A : m[A] = m[{x}] + m[A \ {x}]

\* The sum of samples and their number are of this kind.
LEMMA SumsAreAdditive ==
    ASSUME NEW S, Valued(S)
    PROVE  /\ Additive([A \in SUBSET S |-> SumVal(A)], S)
           /\ Additive([A \in SUBSET S |-> Cardinality(A)], S)
<1>1. \A A \in SUBSET S : Valued(A)
  BY FS_Subset DEF Valued
<1>2. \A x \in S : SumVal({x}) = x.val
  <2> TAKE x \in S
  <2>1. Valued({x})
    BY <1>1
  <2>2. SumVal({x}) = x.val + SumVal({x} \ {x})
    BY <2>1, SumValFacts
  <2>3. {x} \ {x} = {}
    OBVIOUS
  <2>4. SumVal({}) = 0 /\ x.val \in Nat
    BY <2>1, SumValFacts DEF Valued
  <2> QED BY <2>2, <2>3, <2>4
<1>3. Additive([A \in SUBSET S |-> SumVal(A)], S)
  <2>1. \A A \in SUBSET S : SumVal(A) \in Nat /\ SumVal({}) = 0
                            /\ \A x \in A : SumVal(A) = SumVal({x}) + SumVal(A \ {x})
    BY <1>1, <1>2, SumValFacts
  <2> QED BY <2>1 DEF Additive
<1>4. Additive([A \in SUBSET S |-> Cardinality(A)], S)
  <2>1. \A A \in SUBSET S : Cardinality(A) \in Nat /\ Cardinality({}) = 0
                            /\ \A x \in A : Cardinality(A) = Cardinality({x}) + Cardinality(A \ {x})
    <3> TAKE A \in SUBSET S
    <3>1. IsFiniteSet(A) /\ IsFiniteSet(S)
      BY FS_Subset DEF Valued
    <3>2. Cardinality(A) \in Nat /\ Cardinality({}) = 0
      BY <3>1, FS_CardinalityType, FS_EmptySet
    <3>3. \A x \in A : Cardinality(A \ {x}) = Cardinality(A) - 1 /\ Cardinality({x}) = 1
      BY <3>1, FS_RemoveElement, FS_Singleton
    <3> QED BY <3>2, <3>3
  <2> QED BY <2>1 DEF Additive
<1> QED BY <1>3, <1>4

\* Two sets weigh as much as both together.
LEMMA AddedUp ==
    ASSUME NEW S, IsFiniteSet(S), NEW m, Additive(m, S), NEW A \in SUBSET S, NEW C \in SUBSET S,
           A \cap C = {}
    PROVE  m[A \cup C] = m[A] + m[C]
<1> DEFINE B == {X \in SUBSET C : m[A \cup X] # m[A] + m[X]}
<1>1. ASSUME B # {} PROVE FALSE
  <2>1. B \subseteq SUBSET C /\ IsFiniteSet(C)
    BY FS_Subset
  <2>2. {} \notin B
    <3>1. A \cup {} = A /\ m[{}] = 0 /\ m[A] \in Nat
      BY DEF Additive
    <3> QED BY <3>1
  <2>3. PICK X \in B : \E x \in X : X \ {x} \in SUBSET C /\ X \ {x} \notin B
    <3> HIDE DEF B
    <3> QED BY <1>1, <2>1, <2>2, Smallest
  <2>4. PICK x \in X : X \ {x} \in SUBSET C /\ X \ {x} \notin B
    BY <2>3
  <2>5. m[A \cup (X \ {x})] = m[A] + m[X \ {x}]
    BY <2>4
  <2>6. m[X] = m[{x}] + m[X \ {x}]
    BY DEF Additive
  <2>7. m[A \cup X] = m[{x}] + m[(A \cup X) \ {x}]
    BY DEF Additive
  <2>8. (A \cup X) \ {x} = A \cup (X \ {x})
    OBVIOUS
  <2>9. m[A] \in Nat /\ m[{x}] \in Nat /\ m[X \ {x}] \in Nat
    BY DEF Additive
  <2>10. m[A \cup X] # m[A] + m[X]
    OBVIOUS
  <2>11. m[A \cup X] = m[{x}] + m[A \cup (X \ {x})]
    BY <2>7, <2>8
  <2> DEFINE a == m[A]
             b == m[{x}]
             r == m[X \ {x}]
  <2>12. a \in Nat /\ b \in Nat /\ r \in Nat
    BY <2>9
  <2>13. m[A \cup X] = b + (a + r) /\ m[X] = b + r /\ m[A \cup X] # a + m[X]
    BY <2>5, <2>6, <2>10, <2>11
  <2> HIDE DEF a, b, r, B
  <2> QED BY <2>12, <2>13
<1> QED BY <1>1

\* v is what the samples of each CPU weigh.
Split(v, m, S, D) == \A c \in D : v[c] = m[{s \in S : s.cpu = c}]

\* What the samples of each CPU weigh adds up to what all of them do.
LEMMA ByCpu ==
    ASSUME NEW S, IsFiniteSet(S), NEW m, Additive(m, S), NEW D, IsFiniteSet(D), NEW v,
           Split(v, m, S, D), NEW g, Sums(g, v, D)
    PROVE  g[D] = m[{s \in S : s.cpu \in D}]
<1> DEFINE OnCpus(C) == {s \in S : s.cpu \in C}
           B == {C \in SUBSET D : g[C] # m[OnCpus(C)]}
<1>1. ASSUME B # {} PROVE FALSE
  <2>1. B \subseteq SUBSET D
    OBVIOUS
  <2>2. {} \notin B
    <3>1. OnCpus({}) = {} /\ m[{}] = 0 /\ g[{}] = 0
      BY DEF Additive, Sums
    <3> QED BY <3>1
  <2>3. PICK C \in B : \E c \in C : C \ {c} \in SUBSET D /\ C \ {c} \notin B
    <3> HIDE DEF B
    <3> QED BY <1>1, <2>1, <2>2, Smallest
  <2>4. PICK c \in C : C \ {c} \in SUBSET D /\ C \ {c} \notin B
    BY <2>3
  <2>5. g[C \ {c}] = m[OnCpus(C \ {c})]
    BY <2>4
  <2>6. \A d \in D : v[d] \in Nat
    <3>1. \A d \in D : {s \in S : s.cpu = d} \in SUBSET S
      OBVIOUS
    <3> QED BY <3>1 DEF Additive, Split
  <2>7. g[C] = v[c] + g[C \ {c}]
    BY <2>1, <2>6, SumsFacts
  <2>8. /\ OnCpus(C \ {c}) \cap {s \in S : s.cpu = c} = {} /\ OnCpus(C \ {c}) \in SUBSET S
        /\ OnCpus(C \ {c}) \cup {s \in S : s.cpu = c} = OnCpus(C) /\ {s \in S : s.cpu = c} \in SUBSET S
    OBVIOUS
  <2>9. m[OnCpus(C)] = m[OnCpus(C \ {c})] + m[{s \in S : s.cpu = c}]
    <3> DEFINE P == OnCpus(C \ {c})
               Q == {s \in S : s.cpu = c}
    <3>1. P \in SUBSET S /\ Q \in SUBSET S /\ P \cap Q = {} /\ P \cup Q = OnCpus(C)
      BY <2>8
    <3> HIDE DEF P, Q, OnCpus, B
    <3>2. m[P \cup Q] = m[P] + m[Q]
      BY <3>1, AddedUp
    <3> QED BY <3>1, <3>2 DEF P, Q
  <2>10. m[OnCpus(C \ {c})] \in Nat /\ v[c] \in Nat /\ c \in D /\ v[c] = m[{s \in S : s.cpu = c}]
    BY <2>1, <2>6, <2>8 DEF Additive, Split
  <2>11. g[C] # m[OnCpus(C)]
    OBVIOUS
  <2> HIDE DEF B, OnCpus
  <2> QED BY <2>5, <2>7, <2>9, <2>10, <2>11
<1>2. D \in SUBSET D
  OBVIOUS
<1> QED BY <1>1, <1>2

\* A finite set of numbers has a greatest and a least one.
LEMMA Bounds ==
    ASSUME NEW T, T \subseteq Nat, T # {}
    PROVE  /\ Min(T) \in T /\ \A x \in T : Min(T) <= x
           /\ IsFiniteSet(T) => Max(T) \in T /\ \A x \in T : x <= Max(T)
<1>1. Min(T) \in T /\ \A x \in T : Min(T) <= x
  <2>1. \E n \in T : \A m \in T : n <= m
    BY Least
  <2> QED BY <2>1 DEF Min
<1>2. ASSUME IsFiniteSet(T) PROVE Max(T) \in T /\ \A x \in T : x <= Max(T)
  <2> DEFINE Top(X) == \E n \in X : \A x \in X : x <= n
             B == {X \in SUBSET T : X # {} /\ ~Top(X)}
  <2>1. ASSUME B # {} PROVE FALSE
    <3>1. PICK X \in B : \E x \in X : X \ {x} \in SUBSET T /\ X \ {x} \notin B
      <4>1. B \subseteq SUBSET T /\ {} \notin B
        OBVIOUS
      <4> HIDE DEF B
      <4> QED BY <1>2, <2>1, <4>1, Smallest
    <3>2. PICK x \in X : X \ {x} \in SUBSET T /\ X \ {x} \notin B
      BY <3>1
    <3>3. x \in Nat /\ \A y \in X : y \in Nat
      OBVIOUS
    <3>4. CASE X \ {x} = {}
      <4>1. \A y \in X : y <= x
        BY <3>3, <3>4
      <4> QED BY <4>1
    <3>5. CASE X \ {x} # {}
      <4>1. PICK n \in X \ {x} : \A y \in X \ {x} : y <= n
        BY <3>2, <3>5
      <4>2. n \in Nat
        BY <3>3
      <4>3. (\A y \in X : y <= n) \/ (\A y \in X : y <= x)
        BY <3>3, <4>1, <4>2
      <4> QED BY <4>3
    <3> QED BY <3>4, <3>5
  <2>2. Top(T)
    BY <2>1
  <2>3. \E n \in T : \A x \in T : n >= x
    BY <2>2
  <2> QED BY <2>3 DEF Max
<1> QED BY <1>1, <1>2

-----------------------------------------------------------------------------
(***************************************************************************)
(* Stores, and the samples that words tell after them.                     *)
(***************************************************************************)
AllAggs == {"none", "avg", "max", "min", "sum"}
To(q, f) == \E i \in DOMAIN q : q[i][1] = f
LastTo(q, f, i) ==
    /\ i \in DOMAIN q /\ q[i][1] = f
    /\ \A j \in DOMAIN q : i < j => q[j][1] # f

\* The last store to a word is what is left of it.
LEMMA StoredFacts ==
    ASSUME NEW w \in Words, NEW q \in Seq(StoreType)
    PROVE  /\ Stored(w, q) \in Words
           /\ \A f \in FieldNames : ~To(q, f) => Stored(w, q)[f] = w[f]
           /\ \A f \in FieldNames : \A i : LastTo(q, f, i) => Stored(w, q)[f] = q[i][2]
           /\ \A f \in FieldNames : To(q, f) => \E i : LastTo(q, f, i)
<1> DEFINE At(f) == {i \in DOMAIN q : q[i][1] = f}
           X(f) == IF At(f) = {} THEN w[f] ELSE q[Max(At(f))][2]
<1>1. DOMAIN q = 1 .. Len(q) /\ Len(q) \in Nat /\ \A i \in DOMAIN q : q[i] \in StoreType
  OBVIOUS
<1>2. ASSUME NEW f, At(f) # {} PROVE LastTo(q, f, Max(At(f)))
  <2>1. At(f) \subseteq 1 .. Len(q) /\ IsFiniteSet(1 .. Len(q))
    BY <1>1, FS_Interval
  <2>2. IsFiniteSet(At(f)) /\ At(f) \subseteq Nat
    BY <2>1, FS_Subset
  <2>3. Max(At(f)) \in At(f) /\ \A j \in At(f) : j <= Max(At(f))
    <3> HIDE DEF At
    <3> QED BY <1>2, <2>2, Bounds
  <2> DEFINE m == Max(At(f))
  <2>4. m \in At(f) /\ \A j \in At(f) : j <= m
    BY <2>3
  <2> HIDE DEF m
  <2>5. LastTo(q, f, m)
    BY <1>1, <2>4 DEF LastTo
  <2> QED BY <2>5 DEF m
<1>3. ASSUME NEW f, NEW i, LastTo(q, f, i), NEW j, LastTo(q, f, j) PROVE i = j
  BY <1>1, <1>3 DEF LastTo
<1>4. DOMAIN w = FieldNames /\ \A f \in FieldNames : w[f] \in Nat
  BY DEF Words, FieldNames
<1>5. Stored(w, q) = [f \in FieldNames |-> X(f)]
  BY <1>4 DEF Stored
<1>6. \A f : To(q, f) <=> At(f) # {}
  BY DEF To
<1>7. \A f \in FieldNames : X(f) \in Nat
  <2> TAKE f \in FieldNames
  <2>1. CASE At(f) = {}
    BY <1>4, <2>1
  <2>2. CASE At(f) # {}
    <3>1. Max(At(f)) \in DOMAIN q
      BY <1>2, <2>2 DEF LastTo
    <3> QED BY <1>1, <2>2, <3>1 DEF StoreType
  <2> QED BY <2>1, <2>2
<1>8. Stored(w, q) \in Words
  <2> HIDE DEF X
  <2>1. [f \in FieldNames |-> X(f)] = [val |-> X("val"), meta |-> X("meta"), epoch |-> X("epoch")]
    BY DEF FieldNames
  <2>2. X("val") \in Nat /\ X("meta") \in Nat /\ X("epoch") \in Nat
    BY <1>7 DEF FieldNames
  <2> QED BY <1>5, <2>1, <2>2 DEF Words
<1>9. ASSUME NEW f \in FieldNames, ~To(q, f) PROVE Stored(w, q)[f] = w[f]
  BY <1>5, <1>6, <1>9
<1>10. ASSUME NEW f \in FieldNames, NEW i, LastTo(q, f, i) PROVE Stored(w, q)[f] = q[i][2]
  <2>1. At(f) # {}
    BY <1>10 DEF LastTo
  <2>2. Max(At(f)) = i
    <3> HIDE DEF At
    <3> QED BY <1>2, <1>3, <1>10, <2>1
  <2> QED BY <1>5, <2>1, <2>2
<1>11. ASSUME NEW f \in FieldNames, To(q, f) PROVE \E i : LastTo(q, f, i)
  <2> HIDE DEF At
  <2> QED BY <1>2, <1>6, <1>11
<1> QED BY <1>8, <1>9, <1>10, <1>11

\* Words with the same fields are the same.
LEMMA SameWords ==
    ASSUME NEW w \in Words, NEW u \in Words, \A f \in FieldNames : w[f] = u[f]
    PROVE  w = u
<1>1. w["val"] = u["val"] /\ w["meta"] = u["meta"] /\ w["epoch"] = u["epoch"]
  BY DEF FieldNames
<1> QED BY <1>1 DEF Words

\* Nothing to store leaves the words as they are; after the first store the others are left;
\* stores to every word say what the words are.
LEMMA StoredOn ==
    ASSUME NEW w \in Words, NEW q \in Seq(StoreType)
    PROVE  /\ q = <<>> => Stored(w, q) = w
           /\ q # <<>> => /\ [w EXCEPT ![q[1][1]] = q[1][2]] \in Words
                          /\ Stored([w EXCEPT ![q[1][1]] = q[1][2]], Tail(q)) = Stored(w, q)
           /\ (\A f \in FieldNames : To(q, f))
                 => \A u \in Words : Stored(u, q) = Stored(w, q)
<1>1. ASSUME q = <<>> PROVE Stored(w, q) = w
  <2>1. \A f \in FieldNames : ~To(q, f)
    BY <1>1 DEF To
  <2> QED BY <2>1, StoredFacts, SameWords
<1>2. ASSUME q # <<>>
      PROVE  /\ [w EXCEPT ![q[1][1]] = q[1][2]] \in Words
             /\ Stored([w EXCEPT ![q[1][1]] = q[1][2]], Tail(q)) = Stored(w, q)
  <2> DEFINE a == q[1][1]
             b == q[1][2]
             v == [w EXCEPT ![a] = b]
             r == Tail(q)
  <2>1. /\ Len(q) \in Nat \ {0} /\ DOMAIN q = 1 .. Len(q) /\ q[1] \in StoreType
        /\ r \in Seq(StoreType) /\ DOMAIN r = 1 .. Len(q) - 1
        /\ \A i \in 1 .. Len(q) - 1 : r[i] = q[i + 1]
    BY <1>2
  <2>2. a \in FieldNames /\ b \in Nat
    BY <2>1 DEF StoreType
  <2>3. v \in Words /\ \A f \in FieldNames : v[f] = IF f = a THEN b ELSE w[f]
    BY <2>2 DEF Words, FieldNames
  <2> HIDE DEF v, r
  <2>4. ASSUME NEW f \in FieldNames PROVE Stored(v, r)[f] = Stored(w, q)[f]
    <3>1. CASE To(r, f)
      <4>1. PICK i : LastTo(r, f, i)
        BY <2>1, <2>3, <3>1, StoredFacts
      <4>2. LastTo(q, f, i + 1)
        <5>1. i \in 1 .. Len(q) - 1 /\ q[i + 1][1] = f
          BY <2>1, <4>1 DEF LastTo
        <5>2. ASSUME NEW j \in 1 .. Len(q), i + 1 < j PROVE q[j][1] # f
          <6>1. j - 1 \in 1 .. Len(q) - 1 /\ i < j - 1 /\ (j - 1) + 1 = j
            BY <2>1, <5>1, <5>2
          <6>2. r[j - 1][1] # f
            BY <2>1, <4>1, <6>1 DEF LastTo
          <6> QED BY <2>1, <6>1, <6>2
        <5>3. i + 1 \in 1 .. Len(q)
          BY <2>1, <5>1
        <5> QED BY <2>1, <5>1, <5>2, <5>3 DEF LastTo
      <4>3. Stored(v, r)[f] = r[i][2] /\ Stored(w, q)[f] = q[i + 1][2]
        BY <2>1, <2>3, <4>1, <4>2, StoredFacts
      <4>4. r[i] = q[i + 1]
        BY <2>1, <4>1 DEF LastTo
      <4> QED BY <4>3, <4>4
    <3>2. CASE ~To(r, f)
      <4>1. \A j \in 1 .. Len(q) : 1 < j => q[j][1] # f
        <5> TAKE j \in 1 .. Len(q)
        <5> HAVE 1 < j
        <5>1. j - 1 \in 1 .. Len(q) - 1 /\ (j - 1) + 1 = j
          BY <2>1
        <5>2. r[j - 1][1] # f
          BY <2>1, <3>2, <5>1 DEF To
        <5> QED BY <2>1, <5>1, <5>2
      <4>2. Stored(v, r)[f] = v[f]
        BY <2>1, <2>3, <3>2, StoredFacts
      <4>3. CASE f = a
        <5>1. LastTo(q, f, 1)
          BY <2>1, <4>1, <4>3 DEF LastTo
        <5> QED BY <2>3, <4>2, <4>3, <5>1, StoredFacts
      <4>4. CASE f # a
        <5>1. ~To(q, f)
          BY <2>1, <4>1, <4>4 DEF To
        <5> QED BY <2>3, <4>2, <4>4, <5>1, StoredFacts
      <4> QED BY <4>3, <4>4
    <3> QED BY <3>1, <3>2
  <2>5. Stored(v, r) = Stored(w, q)
    BY <2>1, <2>3, <2>4, StoredFacts, SameWords
  <2> QED BY <2>3, <2>5 DEF v, r
<1>3. ASSUME \A f \in FieldNames : To(q, f), NEW u \in Words
      PROVE  Stored(u, q) = Stored(w, q)
  <2>1. \A f \in FieldNames : Stored(u, q)[f] = Stored(w, q)[f]
    <3> TAKE f \in FieldNames
    <3>1. PICK i : LastTo(q, f, i)
      BY <1>3, StoredFacts
    <3> QED BY <3>1, StoredFacts
  <2> QED BY <2>1, StoredFacts, SameWords
<1> QED BY <1>1, <1>2, <1>3

Behind(S, s, t, r) ==
    /\ s \in Seq(S) /\ t \in Seq(S) /\ r \in Seq(S) /\ Len(r) = Len(s) + Len(t)
    /\ \A i \in 1 .. Len(s) : r[i] = s[i]
    /\ \A i \in 1 .. Len(t) : r[Len(s) + i] = t[i]
\* What one sequence behind another is.
LEMMA Joined == ASSUME NEW S, NEW s, NEW t, NEW r, Behind(S, s, t, r) PROVE s \o t = r
<1> USE DEF Behind
<1>1. s \o t \in Seq(S) /\ Len(s \o t) = Len(r)
  BY ConcatProperties
<1>2. ASSUME NEW i \in 1 .. Len(r) PROVE (s \o t)[i] = r[i]
  <2>1. (s \o t)[i] = IF i <= Len(s) THEN s[i] ELSE t[i - Len(s)]
    BY ConcatProperties
  <2>2. CASE i <= Len(s)
    BY <2>1, <2>2
  <2>3. CASE ~(i <= Len(s))
    <3>1. i - Len(s) \in 1 .. Len(t) /\ Len(s) + (i - Len(s)) = i
      BY <2>3
    <3> QED BY <2>1, <2>3, <3>1
  <2> QED BY <2>2, <2>3
<1> QED BY <1>1, <1>2, SeqEqual
\* Tuples behind each other.
LEMMA Tuples ==
    /\ \A a : <<>> \o <<a>> = <<a>>
    /\ \A a, b : <<>> \o <<a, b>> = <<a, b>>
    /\ \A a, b : <<a>> \o <<b>> = <<a, b>>
    /\ \A a, b, c : <<a, b>> \o <<c>> = <<a, b, c>>
    /\ \A a, b, c, d : <<a, b>> \o <<c, d>> = <<a, b, c, d>>
    /\ \A a, b, c, d, e : <<a, b, c, d>> \o <<e>> = <<a, b, c, d, e>>
    /\ \A a, b, c, d : <<a, b, c>> \o <<d>> = <<a, b, c, d>>
<1>1. ASSUME NEW a PROVE <<>> \o <<a>> = <<a>>
  <2>1. <<a>> \in Seq({a})
    OBVIOUS
  <2> QED BY <2>1
<1>2. ASSUME NEW a, NEW b PROVE <<>> \o <<a, b>> = <<a, b>>
  <2>1. <<a, b>> \in Seq({a, b})
    OBVIOUS
  <2> QED BY <2>1
<1>3. ASSUME NEW a, NEW b PROVE <<a>> \o <<b>> = <<a, b>>
  <2>1. PICK x, y, z : x = <<a>> /\ y = <<b>> /\ z = <<a, b>>
    OBVIOUS
  <2>2. PICK S : S = {a, b}
    OBVIOUS
  <2>3. /\ x \in Seq(S) /\ y \in Seq(S) /\ z \in Seq(S)
        /\ Len(x) = 1 /\ Len(y) = 1 /\ Len(z) = 2
    BY <2>1, <2>2
  <2>4. (\A i \in 1 .. Len(x) : z[i] = x[i]) /\ (\A i \in 1 .. Len(y) : z[Len(x) + i] = y[i])
    <3>1. z[1] = x[1] /\ z[2] = y[1] /\ 1 .. 1 = {1} /\ 1 + 1 = 2
      BY <2>1
    <3> QED BY <2>3, <3>1
  <2>5. Behind(S, x, y, z)
    BY <2>3, <2>4 DEF Behind
  <2> QED BY <2>1, <2>5, Joined
<1>4. ASSUME NEW a, NEW b, NEW c PROVE <<a, b>> \o <<c>> = <<a, b, c>>
  <2>1. PICK x, y, z : x = <<a, b>> /\ y = <<c>> /\ z = <<a, b, c>>
    OBVIOUS
  <2>2. PICK S : S = {a, b, c}
    OBVIOUS
  <2>3. /\ x \in Seq(S) /\ y \in Seq(S) /\ z \in Seq(S)
        /\ Len(x) = 2 /\ Len(y) = 1 /\ Len(z) = 3
    BY <2>1, <2>2
  <2>4. (\A i \in 1 .. Len(x) : z[i] = x[i]) /\ (\A i \in 1 .. Len(y) : z[Len(x) + i] = y[i])
    BY <2>1, <2>3
  <2>5. Behind(S, x, y, z)
    BY <2>3, <2>4 DEF Behind
  <2> QED BY <2>1, <2>5, Joined
<1>5. ASSUME NEW a, NEW b, NEW c, NEW d PROVE <<a, b>> \o <<c, d>> = <<a, b, c, d>>
  <2>1. PICK x, y, z : x = <<a, b>> /\ y = <<c, d>> /\ z = <<a, b, c, d>>
    OBVIOUS
  <2>2. PICK S : S = {a, b, c, d}
    OBVIOUS
  <2>3. /\ x \in Seq(S) /\ y \in Seq(S) /\ z \in Seq(S)
        /\ Len(x) = 2 /\ Len(y) = 2 /\ Len(z) = 4
    BY <2>1, <2>2
  <2>4. (\A i \in 1 .. Len(x) : z[i] = x[i]) /\ (\A i \in 1 .. Len(y) : z[Len(x) + i] = y[i])
    BY <2>1, <2>3
  <2>5. Behind(S, x, y, z)
    BY <2>3, <2>4 DEF Behind
  <2> QED BY <2>1, <2>5, Joined
<1>6. ASSUME NEW a, NEW b, NEW c, NEW d, NEW e PROVE <<a, b, c, d>> \o <<e>> = <<a, b, c, d, e>>
  <2>1. PICK x, y, z : x = <<a, b, c, d>> /\ y = <<e>> /\ z = <<a, b, c, d, e>>
    OBVIOUS
  <2>2. PICK S : S = {a, b, c, d, e}
    OBVIOUS
  <2>3. /\ x \in Seq(S) /\ y \in Seq(S) /\ z \in Seq(S)
        /\ Len(x) = 4 /\ Len(y) = 1 /\ Len(z) = 5
    BY <2>1, <2>2
  <2>4. (\A i \in 1 .. Len(x) : z[i] = x[i]) /\ (\A i \in 1 .. Len(y) : z[Len(x) + i] = y[i])
    BY <2>1, <2>3
  <2>5. Behind(S, x, y, z)
    BY <2>3, <2>4 DEF Behind
  <2> QED BY <2>1, <2>5, Joined
<1>7. ASSUME NEW a, NEW b, NEW c, NEW d PROVE <<a, b, c>> \o <<d>> = <<a, b, c, d>>
  <2>1. PICK x, y, z : x = <<a, b, c>> /\ y = <<d>> /\ z = <<a, b, c, d>>
    OBVIOUS
  <2>2. PICK S : S = {a, b, c, d}
    OBVIOUS
  <2>3. /\ x \in Seq(S) /\ y \in Seq(S) /\ z \in Seq(S)
        /\ Len(x) = 3 /\ Len(y) = 1 /\ Len(z) = 4
    BY <2>1, <2>2
  <2>4. (\A i \in 1 .. Len(x) : z[i] = x[i]) /\ (\A i \in 1 .. Len(y) : z[Len(x) + i] = y[i])
    BY <2>1, <2>3
  <2>5. Behind(S, x, y, z)
    BY <2>3, <2>4 DEF Behind
  <2> QED BY <2>1, <2>5, Joined
<1> QED BY <1>1, <1>2, <1>3, <1>4, <1>5, <1>6, <1>7

\* What the words u are after the stores of a program that has loaded w.
Counts(w, v, now, u) ==
    LET same == w.epoch = Epoch(now) IN
    /\ u.epoch = Epoch(now)
    /\ agg = "none" => u.val = v /\ u.meta = now
    /\ agg \in {"sum", "avg"} => u.val = IF same THEN w.val + v ELSE v
    /\ agg = "avg" => u.meta = IF same THEN w.meta + 1 ELSE 1
    /\ agg \in {"max", "min"} =>
          IF same /\ w.meta = 1
          THEN /\ u.meta = 1
               /\ u.val = IF (agg = "max" /\ v >= w.val) \/ (agg = "min" /\ w.val >= v)
                          THEN v ELSE w.val
          ELSE u.meta = 1 /\ u.val = v

\* Stores of two to five words, as the program makes them.
LEMMA StoresFacts ==
    ASSUME NEW w \in Words, NEW v \in Nat, NEW now \in Nat, agg \in AllAggs
    PROVE  /\ Stores(w, v, now) \in Seq(StoreType) /\ Stores(w, v, now) # <<>>
           /\ \A i \in DOMAIN Stores(w, v, now) :
                 Stores(w, v, now)[i][1] = "epoch" => Stores(w, v, now)[i][2] = Epoch(now)
           /\ Counts(w, v, now, Stored(w, Stores(w, v, now)))
<1> DEFINE q == Stores(w, v, now)
           u == Stored(w, q)
           same == w.epoch = Epoch(now)
           ep == Epoch(now)
<1>1. ep \in Nat /\ w.val \in Nat /\ w.meta \in Nat /\ w.epoch \in Nat
  BY EpochFacts DEF Words
<1>2. /\ w["val"] = w.val /\ w["meta"] = w.meta /\ w["epoch"] = w.epoch
      /\ \A x \in Words : x["val"] = x.val /\ x["meta"] = x.meta /\ x["epoch"] = x.epoch
  BY DEF Words
<1> DEFINE Good(r, a, m) ==
              /\ r \in Seq(StoreType) /\ r # <<>>
              /\ \A i \in DOMAIN r : r[i][1] = "epoch" => r[i][2] = ep
              /\ Stored(w, r).epoch = ep /\ Stored(w, r).val = a /\ Stored(w, r).meta = m
<1>3. ASSUME NEW a \in Nat, NEW m \in Nat PROVE
        /\ \A r : r = <<<<"val", a>>, <<"epoch", ep>>>> => Good(r, a, w.meta)
        /\ \A r : r = <<<<"epoch", ep>>>> => Good(r, w.val, w.meta)
        /\ \A r : r = <<<<"val", a>>, <<"meta", m>>, <<"epoch", ep>>>> => Good(r, a, m)
        /\ \A r : r = <<<<"meta", m>>, <<"val", a>>, <<"epoch", ep>>>> => Good(r, a, m)
        /\ \A r : r = <<<<"val", 0>>, <<"meta", 0>>, <<"val", a>>, <<"epoch", ep>>>> => Good(r, a, 0)
        /\ \A r : r = <<<<"val", 0>>, <<"meta", 0>>, <<"val", a>>, <<"meta", m>>, <<"epoch", ep>>>>
              => Good(r, a, m)
        /\ \A r : r = <<<<"val", 0>>, <<"meta", 0>>, <<"meta", m>>, <<"val", a>>, <<"epoch", ep>>>>
              => Good(r, a, m)
  <2> HIDE DEF ep
  <2>1. ASSUME NEW r, r = <<<<"val", a>>, <<"epoch", ep>>>> PROVE Good(r, a, w.meta)
    <3>1. r \in Seq(StoreType)
      BY <1>1, <2>1 DEF StoreType, FieldNames
    <3>2. LastTo(r, "val", 1) /\ ~To(r, "meta") /\ LastTo(r, "epoch", 2)
      BY <2>1 DEF LastTo, To
    <3>3. Stored(w, r) \in Words /\ Stored(w, r)["val"] = r[1][2]
          /\ Stored(w, r)["meta"] = w["meta"] /\ Stored(w, r)["epoch"] = r[2][2]
      BY <3>1, <3>2, StoredFacts DEF FieldNames
    <3> QED BY <1>2, <2>1, <3>1, <3>3
  <2>2. ASSUME NEW r, r = <<<<"epoch", ep>>>> PROVE Good(r, w.val, w.meta)
    <3>1. r \in Seq(StoreType)
      BY <1>1, <2>2 DEF StoreType, FieldNames
    <3>2. ~To(r, "val") /\ ~To(r, "meta") /\ LastTo(r, "epoch", 1)
      BY <2>2 DEF LastTo, To
    <3>3. Stored(w, r) \in Words /\ Stored(w, r)["val"] = w["val"]
          /\ Stored(w, r)["meta"] = w["meta"] /\ Stored(w, r)["epoch"] = r[1][2]
      BY <3>1, <3>2, StoredFacts DEF FieldNames
    <3> QED BY <1>2, <2>2, <3>1, <3>3
  <2>3. ASSUME NEW r, r = <<<<"val", a>>, <<"meta", m>>, <<"epoch", ep>>>> PROVE Good(r, a, m)
    <3>1. r \in Seq(StoreType)
      BY <1>1, <2>3 DEF StoreType, FieldNames
    <3>2. LastTo(r, "val", 1) /\ LastTo(r, "meta", 2) /\ LastTo(r, "epoch", 3)
      BY <2>3 DEF LastTo
    <3>3. Stored(w, r) \in Words /\ Stored(w, r)["val"] = r[1][2]
          /\ Stored(w, r)["meta"] = r[2][2] /\ Stored(w, r)["epoch"] = r[3][2]
      BY <3>1, <3>2, StoredFacts DEF FieldNames
    <3> QED BY <1>2, <2>3, <3>1, <3>3
  <2>4. ASSUME NEW r, r = <<<<"meta", m>>, <<"val", a>>, <<"epoch", ep>>>> PROVE Good(r, a, m)
    <3>1. r \in Seq(StoreType)
      BY <1>1, <2>4 DEF StoreType, FieldNames
    <3>2. LastTo(r, "val", 2) /\ LastTo(r, "meta", 1) /\ LastTo(r, "epoch", 3)
      BY <2>4 DEF LastTo
    <3>3. Stored(w, r) \in Words /\ Stored(w, r)["val"] = r[2][2]
          /\ Stored(w, r)["meta"] = r[1][2] /\ Stored(w, r)["epoch"] = r[3][2]
      BY <3>1, <3>2, StoredFacts DEF FieldNames
    <3> QED BY <1>2, <2>4, <3>1, <3>3
  <2>5. ASSUME NEW r, r = <<<<"val", 0>>, <<"meta", 0>>, <<"val", a>>, <<"epoch", ep>>>>
        PROVE  Good(r, a, 0)
    <3>1. r \in Seq(StoreType)
      BY <1>1, <2>5 DEF StoreType, FieldNames
    <3>2. LastTo(r, "val", 3) /\ LastTo(r, "meta", 2) /\ LastTo(r, "epoch", 4)
      BY <2>5 DEF LastTo
    <3>3. Stored(w, r) \in Words /\ Stored(w, r)["val"] = r[3][2]
          /\ Stored(w, r)["meta"] = r[2][2] /\ Stored(w, r)["epoch"] = r[4][2]
      BY <3>1, <3>2, StoredFacts DEF FieldNames
    <3> QED BY <1>2, <2>5, <3>1, <3>3
  <2>6. ASSUME NEW r,
               r = <<<<"val", 0>>, <<"meta", 0>>, <<"val", a>>, <<"meta", m>>, <<"epoch", ep>>>>
        PROVE  Good(r, a, m)
    <3>1. r \in Seq(StoreType)
      BY <1>1, <2>6 DEF StoreType, FieldNames
    <3>2. LastTo(r, "val", 3) /\ LastTo(r, "meta", 4) /\ LastTo(r, "epoch", 5)
      BY <2>6 DEF LastTo
    <3>3. Stored(w, r) \in Words /\ Stored(w, r)["val"] = r[3][2]
          /\ Stored(w, r)["meta"] = r[4][2] /\ Stored(w, r)["epoch"] = r[5][2]
      BY <3>1, <3>2, StoredFacts DEF FieldNames
    <3> QED BY <1>2, <2>6, <3>1, <3>3
  <2>7. ASSUME NEW r,
               r = <<<<"val", 0>>, <<"meta", 0>>, <<"meta", m>>, <<"val", a>>, <<"epoch", ep>>>>
        PROVE  Good(r, a, m)
    <3>1. r \in Seq(StoreType)
      BY <1>1, <2>7 DEF StoreType, FieldNames
    <3>2. LastTo(r, "val", 4) /\ LastTo(r, "meta", 3) /\ LastTo(r, "epoch", 5)
      BY <2>7 DEF LastTo
    <3>3. Stored(w, r) \in Words /\ Stored(w, r)["val"] = r[4][2]
          /\ Stored(w, r)["meta"] = r[3][2] /\ Stored(w, r)["epoch"] = r[5][2]
      BY <3>1, <3>2, StoredFacts DEF FieldNames
    <3> QED BY <1>2, <2>7, <3>1, <3>3
  <2> HIDE DEF Good
  <2> QED BY <2>1, <2>2, <2>3, <2>4, <2>5, <2>6, <2>7
<1>4. /\ agg = "none" => q = <<<<"val", v>>, <<"meta", now>>, <<"epoch", ep>>>>
      /\ agg = "sum" /\ same => q = <<<<"val", w.val + v>>, <<"epoch", ep>>>>
      /\ agg = "sum" /\ ~same => q = <<<<"val", 0>>, <<"meta", 0>>, <<"val", 0 + v>>, <<"epoch", ep>>>>
      /\ agg = "avg" /\ same => q = <<<<"meta", w.meta + 1>>, <<"val", w.val + v>>, <<"epoch", ep>>>>
      /\ agg = "avg" /\ ~same => q = <<<<"val", 0>>, <<"meta", 0>>, <<"meta", 0 + 1>>,
                                       <<"val", 0 + v>>, <<"epoch", ep>>>>
      /\ agg \in {"max", "min"} /\ same =>
            q = IF w.meta # 1 \/ (agg = "max" /\ v >= w.val) \/ (agg = "min" /\ w.val >= v)
                THEN <<<<"val", v>>, <<"meta", 1>>, <<"epoch", ep>>>> ELSE <<<<"epoch", ep>>>>
      /\ agg \in {"max", "min"} /\ ~same =>
            q = <<<<"val", 0>>, <<"meta", 0>>, <<"val", v>>, <<"meta", 1>>, <<"epoch", ep>>>>
  <2> HIDE DEF ep
  <2>1. ZeroPart.val = 0 /\ ZeroPart.meta = 0
    BY DEF ZeroPart
  <2>5. PICK E, V, M, Z1, Z2 : /\ E = <<"epoch", ep>> /\ V = <<"val", v>> /\ M = <<"meta", 1>>
                               /\ Z1 = <<"val", 0>> /\ Z2 = <<"meta", 0>>
    OBVIOUS
  <2>7. agg = "none" => q = <<<<"val", v>>, <<"meta", now>>, <<"epoch", ep>>>>
    <3> SUFFICES ASSUME agg = "none" PROVE q = <<<<"val", v>>, <<"meta", now>>, <<"epoch", ep>>>>
      OBVIOUS
    <3>1. PICK N : N = <<"meta", now>>
      OBVIOUS
    <3>3. q = (<<>> \o <<V, N>>) \o <<E>>
      BY <2>5, <3>1 DEF Stores, Aggregate, ep
    <3>4. q = <<V, N, E>>
      BY <3>3, Tuples
    <3> QED BY <2>5, <3>1, <3>4
  <2>8. agg = "sum" /\ same => q = <<<<"val", w.val + v>>, <<"epoch", ep>>>>
    <3> SUFFICES ASSUME agg = "sum", same PROVE q = <<<<"val", w.val + v>>, <<"epoch", ep>>>>
      OBVIOUS
    <3>1. PICK N : N = <<"val", w.val + v>>
      OBVIOUS
    <3>3. q = (<<>> \o <<N>>) \o <<E>>
      BY <2>5, <3>1 DEF Stores, Aggregate, ep
    <3>4. q = <<N, E>>
      BY <3>3, Tuples
    <3> QED BY <2>5, <3>1, <3>4
  <2>9. agg = "sum" /\ ~same => q = <<<<"val", 0>>, <<"meta", 0>>, <<"val", 0 + v>>, <<"epoch", ep>>>>
    <3> SUFFICES ASSUME agg = "sum", ~same
                 PROVE  q = <<<<"val", 0>>, <<"meta", 0>>, <<"val", 0 + v>>, <<"epoch", ep>>>>
      OBVIOUS
    <3>1. 0 + v = v
      OBVIOUS
    <3>2. q = (<<Z1, Z2>> \o <<V>>) \o <<E>>
      BY <2>1, <2>5, <3>1 DEF Stores, Aggregate, ep
    <3>3. q = <<Z1, Z2, V, E>>
      <4>1. <<Z1, Z2>> \o <<V>> = <<Z1, Z2, V>> /\ <<Z1, Z2, V>> \o <<E>> = <<Z1, Z2, V, E>>
        BY Tuples
      <4> QED BY <3>2, <4>1
    <3> QED BY <2>5, <3>1, <3>3
  <2>10. agg = "avg" /\ same => q = <<<<"meta", w.meta + 1>>, <<"val", w.val + v>>, <<"epoch", ep>>>>
    <3> SUFFICES ASSUME agg = "avg", same
                 PROVE  q = <<<<"meta", w.meta + 1>>, <<"val", w.val + v>>, <<"epoch", ep>>>>
      OBVIOUS
    <3>1. PICK N, O : N = <<"meta", w.meta + 1>> /\ O = <<"val", w.val + v>>
      OBVIOUS
    <3>3. q = (<<>> \o <<N, O>>) \o <<E>>
      BY <2>5, <3>1 DEF Stores, Aggregate, ep
    <3>4. q = <<N, O, E>>
      BY <3>3, Tuples
    <3> QED BY <2>5, <3>1, <3>4
  <2>11. agg = "avg" /\ ~same => q = <<<<"val", 0>>, <<"meta", 0>>, <<"meta", 0 + 1>>,
                                       <<"val", 0 + v>>, <<"epoch", ep>>>>
    <3> SUFFICES ASSUME agg = "avg", ~same
                 PROVE  q = <<<<"val", 0>>, <<"meta", 0>>, <<"meta", 0 + 1>>,
                              <<"val", 0 + v>>, <<"epoch", ep>>>>
      OBVIOUS
    <3>1. 0 + v = v /\ 0 + 1 = 1
      OBVIOUS
    <3>2. q = (<<Z1, Z2>> \o <<M, V>>) \o <<E>>
      BY <2>1, <2>5, <3>1 DEF Stores, Aggregate, ep
    <3>3. q = <<Z1, Z2, M, V, E>>
      <4>1. /\ <<Z1, Z2>> \o <<M, V>> = <<Z1, Z2, M, V>>
            /\ <<Z1, Z2, M, V>> \o <<E>> = <<Z1, Z2, M, V, E>>
        BY Tuples
      <4> QED BY <3>2, <4>1
    <3> QED BY <2>5, <3>1, <3>3
  <2>12. agg \in {"max", "min"} /\ same =>
            q = IF w.meta # 1 \/ (agg = "max" /\ v >= w.val) \/ (agg = "min" /\ w.val >= v)
                THEN <<<<"val", v>>, <<"meta", 1>>, <<"epoch", ep>>>> ELSE <<<<"epoch", ep>>>>
    <3> SUFFICES ASSUME agg \in {"max", "min"}, same
                 PROVE  q = IF w.meta # 1 \/ (agg = "max" /\ v >= w.val) \/ (agg = "min" /\ w.val >= v)
                            THEN <<<<"val", v>>, <<"meta", 1>>, <<"epoch", ep>>>>
                            ELSE <<<<"epoch", ep>>>>
      OBVIOUS
    <3>1. q = (<<>> \o IF Improves(v, w) THEN <<V, M>> ELSE <<>>) \o <<E>>
      BY <2>5 DEF Stores, Aggregate, ep
    <3>2. <<>> \o <<>> = <<>>
      OBVIOUS
    <3>3. q = IF Improves(v, w) THEN <<V, M, E>> ELSE <<E>>
      <4>1. CASE Improves(v, w)
        BY <3>1, <4>1, Tuples
      <4>2. CASE ~Improves(v, w)
        <5>1. q = (<<>> \o <<>>) \o <<E>>
          BY <3>1, <4>2
        <5> QED BY <3>2, <4>2, <5>1, Tuples
      <4> QED BY <4>1, <4>2
    <3> QED BY <2>5, <3>3 DEF Improves
  <2>13. agg \in {"max", "min"} /\ ~same =>
            q = <<<<"val", 0>>, <<"meta", 0>>, <<"val", v>>, <<"meta", 1>>, <<"epoch", ep>>>>
    <3> SUFFICES ASSUME agg \in {"max", "min"}, ~same
                 PROVE  q = <<<<"val", 0>>, <<"meta", 0>>, <<"val", v>>, <<"meta", 1>>, <<"epoch", ep>>>>
      OBVIOUS
    <3>1. Improves(v, ZeroPart)
      BY <2>1 DEF Improves
    <3>2. q = (<<Z1, Z2>> \o <<V, M>>) \o <<E>>
      BY <2>5, <3>1 DEF Stores, Aggregate, ep
    <3>3. q = <<Z1, Z2, V, M, E>>
      <4>1. /\ <<Z1, Z2>> \o <<V, M>> = <<Z1, Z2, V, M>>
            /\ <<Z1, Z2, V, M>> \o <<E>> = <<Z1, Z2, V, M, E>>
        BY Tuples
      <4> QED BY <3>2, <4>1
    <3> QED BY <2>5, <3>3
  <2> QED BY <2>7, <2>8, <2>9, <2>10, <2>11, <2>12, <2>13
<1> DEFINE keeps == ~(w.meta # 1 \/ (agg = "max" /\ v >= w.val) \/ (agg = "min" /\ w.val >= v))
<1>5. /\ agg = "none" => Good(q, v, now)
      /\ agg = "sum" /\ same => Good(q, w.val + v, w.meta)
      /\ agg = "sum" /\ ~same => Good(q, v, 0)
      /\ agg = "avg" /\ same => Good(q, w.val + v, w.meta + 1)
      /\ agg = "avg" /\ ~same => Good(q, v, 1)
      /\ agg \in {"max", "min"} /\ same => IF keeps THEN Good(q, w.val, w.meta) ELSE Good(q, v, 1)
      /\ agg \in {"max", "min"} /\ ~same => Good(q, v, 1)
  <2> DEFINE p == q
  <2>1. 0 + v = v /\ 0 + 1 = 1 /\ w.val + v \in Nat /\ w.meta + 1 \in Nat
    BY <1>1
  <2> HIDE DEF Good, q, same, ep
  <2> QED BY <1>1, <1>3, <1>4, <2>1
<1> HIDE DEF q, ep
<1> QED BY <1>1, <1>5 DEF AllAggs, Counts, q, ep

\* What the words u are after the first sample x of an epoch, and after another one.
First(u, x) ==
    /\ u.val = x.val
    /\ agg = "none" => u.meta = x.now
    /\ agg \in {"avg", "max", "min"} => u.meta = 1
Another(u, w, x) ==
    /\ agg = "none" => u.val = x.val /\ u.meta = x.now
    /\ agg \in {"sum", "avg"} => u.val = w.val + x.val
    /\ agg = "avg" => u.meta = w.meta + 1
    /\ agg \in {"max", "min"} =>
          /\ u.meta = 1
          /\ u.val = IF (agg = "max" /\ x.val >= w.val) \/ (agg = "min" /\ w.val >= x.val)
                     THEN x.val ELSE w.val

\* One sample is held.
LEMMA HoldOne ==
    ASSUME agg \in AllAggs, NEW x \in SampleType, NEW u, First(u, x)
    PROVE  Hold(agg, u, {x})
<1>1. x.val \in Nat /\ x.now \in Nat
  BY DEF SampleType
<1>2. SumVal({x}) = x.val /\ Cardinality({x}) = 1
  <2>1. Valued({x})
    BY <1>1, FS_Singleton DEF Valued
  <2>2. SumVal({x}) = x.val + SumVal({x} \ {x}) /\ SumVal({}) = 0
    BY <2>1, SumValFacts
  <2>3. {x} \ {x} = {}
    OBVIOUS
  <2>4. SumVal({x}) = x.val + 0
    BY <2>2, <2>3
  <2>5. Cardinality({x}) = 1
    BY FS_Singleton
  <2> HIDE DEF SumVal
  <2> QED BY <1>1, <2>4, <2>5
<1>3. agg = "none" => Hold(agg, u, {x})
  BY <1>1 DEF Hold, First
<1>4. agg \in {"sum", "avg"} => Hold(agg, u, {x})
  <2>1. agg \in {"sum", "avg"} => u.val = SumVal({x}) /\ (agg = "avg" => u.meta = Cardinality({x}))
    BY <1>2 DEF First
  <2> QED BY <2>1 DEF Hold, SumVal
<1>5. agg \in {"max", "min"} => u.meta = 1 /\ u.val = x.val
  BY DEF First
<1>6. x.val <= x.val /\ x.val >= x.val
  BY <1>1
<1>7. agg = "max" => Hold(agg, u, {x})
  BY <1>5, <1>6 DEF Hold
<1>8. agg = "min" => Hold(agg, u, {x})
  BY <1>5, <1>6 DEF Hold
<1> QED BY <1>3, <1>4, <1>7, <1>8 DEF AllAggs

\* So is one more than were held.
LEMMA HoldMore ==
    ASSUME agg \in AllAggs, NEW T, T \subseteq SampleType, IsFiniteSet(T), T # {},
           NEW x \in SampleType \ T, \A t \in T : t.now <= x.now,
           NEW w \in Words, Hold(agg, w, T), NEW u, Another(u, w, x)
    PROVE  Hold(agg, u, T \cup {x})
<1>1. /\ x.val \in Nat /\ x.now \in Nat /\ \A t \in T : t.val \in Nat /\ t.now \in Nat
      /\ w.val \in Nat /\ w.meta \in Nat
  BY DEF SampleType, Words
<1>2. SumVal(T \cup {x}) = SumVal(T) + x.val /\ Cardinality(T \cup {x}) = Cardinality(T) + 1
  <2>1. Valued(T) /\ Valued(T \cup {x})
    BY <1>1, FS_AddElement DEF Valued
  <2>2. SumVal(T \cup {x}) = x.val + SumVal((T \cup {x}) \ {x}) /\ SumVal(T) \in Nat
    BY <2>1, SumValFacts
  <2>3. (T \cup {x}) \ {x} = T
    OBVIOUS
  <2>4. Cardinality(T \cup {x}) = Cardinality(T) + 1
    BY FS_AddElement
  <2> HIDE DEF SumVal
  <2>5. SumVal(T \cup {x}) = x.val + SumVal(T)
    BY <2>2, <2>3
  <2> QED BY <1>1, <2>2, <2>4, <2>5
<1>3. ASSUME agg = "none" PROVE Hold(agg, u, T \cup {x})
  <2>1. u.val = x.val /\ u.meta = x.now
    BY <1>3 DEF Another
  <2>2. \A t \in T \cup {x} : t.now <= x.now
    BY <1>1
  <2> QED BY <1>3, <2>1, <2>2 DEF Hold
<1>4. ASSUME agg \in {"sum", "avg"} PROVE Hold(agg, u, T \cup {x})
  <2>1. w.val = SumVal(T) /\ (agg = "avg" => w.meta = Cardinality(T))
    BY <1>4 DEF Hold, SumVal
  <2>2. u.val = SumVal(T \cup {x}) /\ (agg = "avg" => u.meta = Cardinality(T \cup {x}))
    BY <1>2, <1>4, <2>1 DEF Another
  <2> QED BY <1>4, <2>2 DEF Hold, SumVal
<1>5. ASSUME agg = "max" PROVE Hold(agg, u, T \cup {x})
  <2>1. PICK s \in T : w.val = s.val /\ \A t \in T : t.val <= s.val
    BY <1>5 DEF Hold
  <2>2. u.meta = 1 /\ u.val = IF x.val >= w.val THEN x.val ELSE w.val
    BY <1>5 DEF Another
  <2>3. CASE x.val >= w.val
    <3>1. \A t \in T \cup {x} : t.val <= x.val
      BY <1>1, <2>1, <2>3
    <3> QED BY <1>5, <2>2, <2>3, <3>1 DEF Hold
  <2>4. CASE ~(x.val >= w.val)
    <3>1. \A t \in T \cup {x} : t.val <= s.val
      BY <1>1, <2>1, <2>4
    <3>2. s \in T \cup {x} /\ u.val = s.val
      BY <2>1, <2>2, <2>4
    <3> QED BY <1>5, <2>2, <3>1, <3>2 DEF Hold
  <2> QED BY <2>3, <2>4
<1>6. ASSUME agg = "min" PROVE Hold(agg, u, T \cup {x})
  <2>1. PICK s \in T : w.val = s.val /\ \A t \in T : t.val >= s.val
    BY <1>6 DEF Hold
  <2>2. u.meta = 1 /\ u.val = IF w.val >= x.val THEN x.val ELSE w.val
    BY <1>6 DEF Another
  <2>3. CASE w.val >= x.val
    <3>1. \A t \in T \cup {x} : t.val >= x.val
      BY <1>1, <2>1, <2>3
    <3> QED BY <1>6, <2>2, <2>3, <3>1 DEF Hold
  <2>4. CASE ~(w.val >= x.val)
    <3>1. \A t \in T \cup {x} : t.val >= s.val
      BY <1>1, <2>1, <2>4
    <3>2. s \in T \cup {x} /\ u.val = s.val
      BY <2>1, <2>2, <2>4
    <3> QED BY <1>6, <2>2, <3>1, <3>2 DEF Hold
  <2> QED BY <2>3, <2>4
<1> QED BY <1>3, <1>4, <1>5, <1>6 DEF AllAggs

\* A program that has looked up what its CPU has told tells one sample more.
LEMMA ToldMore ==
    ASSUME agg \in AllAggs, NEW w \in Words, NEW S, S \subseteq SampleType, IsFiniteSet(S),
           Told(agg, w, S), NEW x \in SampleType \ S, \A s \in S : s.now <= x.now
    PROVE  Told(agg, Stored(w, Stores(w, x.val, x.now)), S \cup {x})
<1> DEFINE u == Stored(w, Stores(w, x.val, x.now))
           ep == Epoch(x.now)
           T == Latest(S, w.epoch)
<1>1. x.val \in Nat /\ x.now \in Nat /\ x.now >= StartTime
  BY DEF SampleType
<1>2. u.epoch = ep /\ ep \in Nat /\ ep > 0 /\ Counts(w, x.val, x.now, u)
  <2>1. Counts(w, x.val, x.now, u)
    BY <1>1, StoresFacts
  <2>2. u.epoch = ep
    BY <2>1 DEF Counts
  <2>3. ep \in Nat /\ ep > 0
    BY <1>1, EpochFacts
  <2> QED BY <2>1, <2>2, <2>3
<1>3. \A s \in S : Epoch(s.now) \in Nat /\ Epoch(s.now) <= ep
  <2> TAKE s \in S
  <2>1. s.now \in Nat
    BY DEF SampleType
  <2> QED BY <1>1, <2>1, EpochFacts
<1>4. CASE w.epoch = ep /\ S # {}
  <2>1. T # {} /\ Hold(agg, w, T) /\ T \subseteq S
    BY <1>4 DEF Told, Latest
  <2>2. Another(u, w, x)
    <3>1. agg \in {"max", "min"} => w.meta = 1
      BY <2>1 DEF Hold
    <3> QED BY <1>2, <1>4, <3>1 DEF Another, Counts
  <2>3. IsFiniteSet(T) /\ T \subseteq SampleType /\ x \notin T /\ \A t \in T : t.now <= x.now
    BY <2>1, FS_Subset
  <2> HIDE DEF T, u
  <2>4. Hold(agg, u, T \cup {x})
    BY <2>1, <2>2, <2>3, HoldMore
  <2>5. Latest(S \cup {x}, u.epoch) = T \cup {x}
    BY <1>2, <1>4 DEF Latest, T
  <2>6. \A s \in S \cup {x} : Epoch(s.now) <= u.epoch
    BY <1>2, <1>3
  <2> QED BY <2>4, <2>5, <2>6 DEF Told, u
<1>5. CASE ~(w.epoch = ep /\ S # {})
  <2>1. w.epoch # ep /\ Latest(S, ep) = {}
    <3>1. CASE S = {}
      <4>1. w.epoch = 0
        BY <3>1 DEF Told, ZeroPart
      <4> QED BY <1>2, <3>1, <4>1 DEF Latest
    <3>2. CASE S # {}
      <4>1. w.epoch # ep
        BY <1>5, <3>2
      <4>2. PICK s \in S : Epoch(s.now) = w.epoch
        BY <3>2 DEF Told, Latest
      <4>3. w.epoch < ep
        BY <1>2, <1>3, <4>1, <4>2
      <4>4. \A t \in S : Epoch(t.now) <= w.epoch
        BY <3>2 DEF Told
      <4> HIDE DEF ep
      <4>5. w.epoch \in Nat
        BY DEF Words
      <4> QED BY <1>2, <1>3, <4>1, <4>3, <4>4, <4>5 DEF Latest
    <3> QED BY <3>1, <3>2
  <2>2. First(u, x)
    BY <1>2, <2>1 DEF First, Counts, AllAggs
  <2> HIDE DEF u
  <2>3. Hold(agg, u, {x})
    BY <2>2, HoldOne
  <2>4. Latest(S \cup {x}, u.epoch) = {x}
    BY <1>2, <2>1 DEF Latest
  <2>5. \A s \in S \cup {x} : Epoch(s.now) <= u.epoch
    BY <1>2, <1>3
  <2> QED BY <2>3, <2>4, <2>5 DEF Told, u
<1> QED BY <1>4, <1>5

\* A bucket that is new tells the one sample it is made for.
LEMMA ToldNew ==
    ASSUME agg \in AllAggs, NEW x \in SampleType
    PROVE  LET zero == [ZeroPart EXCEPT !.epoch = Epoch(x.now)]
               new == Stored(zero, Stores(zero, x.val, x.now))
           IN  new \in Words /\ new.epoch = Epoch(x.now) /\ Told(agg, new, {x})
<1> DEFINE zero == [ZeroPart EXCEPT !.epoch = Epoch(x.now)]
           new == Stored(zero, Stores(zero, x.val, x.now))
<1>1. x.val \in Nat /\ x.now \in Nat /\ Epoch(x.now) \in Nat
  BY EpochFacts DEF SampleType
<1>2. zero \in Words /\ zero.val = 0 /\ zero.meta = 0 /\ zero.epoch = Epoch(x.now)
  BY <1>1 DEF Words, ZeroPart
<1> HIDE DEF zero
<1>3. new \in Words
  BY <1>1, <1>2, StoresFacts, StoredFacts
<1>9. Counts(zero, x.val, x.now, new)
  BY <1>1, <1>2, StoresFacts
<1>4. new.epoch = Epoch(x.now)
  BY <1>9 DEF Counts
<1>5. First(new, x)
  <2>1. 0 + x.val = x.val /\ 0 + 1 = 1
    BY <1>1
  <2> HIDE DEF new
  <2> QED BY <1>2, <1>9, <2>1 DEF First, Counts, AllAggs
<1> HIDE DEF new
<1>6. Hold(agg, new, {x})
  BY <1>5, HoldOne
<1>7. Latest({x}, new.epoch) = {x} /\ \A s \in {x} : Epoch(s.now) <= new.epoch
  BY <1>1, <1>4 DEF Latest
<1>8. Told(agg, new, {x})
  BY <1>6, <1>7 DEF Told
<1> QED BY <1>3, <1>4, <1>8 DEF new, zero

-----------------------------------------------------------------------------
(***************************************************************************)
(* What the steps of programs do.                                          *)
(***************************************************************************)
\* Words of every CPU are never the absence of an entry.
LEMMA NotAbsent == ASSUME NEW X, NEW f \in [Cpus -> X] PROVE f # Absent
<1>1. 1 \in Cpus
  BY SeriesAssumption DEF Cpus
<1>2. 1 \in DOMAIN f
  BY <1>1
<1>3. 1 \notin DOMAIN Absent
  BY DEF Absent
<1> QED BY <1>2, <1>3

\* The entry of a program or a sample, which fits its epoch.
LEMMA WhereFacts ==
    ASSUME NEW p, p.key \in Keys, p.now \in Nat
    PROVE  /\ Where(p) \in Entries /\ Where(p)[1] = p.key
           /\ Where(p)[2] = Epoch(p.now) % NumIntervals
           /\ p.now >= StartTime => Bucketed(Where(p), Epoch(p.now))
<1>1. Epoch(p.now) \in Nat /\ Epoch(p.now) % NumIntervals \in Buckets
      /\ (p.now >= StartTime => Epoch(p.now) >= NumIntervals)
  BY EpochFacts
<1> QED BY <1>1 DEF Where, Entries, Bucketed

\* An entry that is there has words of every CPU.
LEMMA EntryFacts ==
    ASSUME KernelOK, NEW e \in Entries
    PROVE  /\ entry[e] # Absent <=> entry[e] \in [Cpus -> PartOf(e)]
           /\ entry[e] # Absent => \A c \in Cpus : entry[e][c] \in Words
                                      /\ Bucketed(e, entry[e][c].epoch)
<1>1. entry[e] \in {Absent} \cup [Cpus -> PartOf(e)]
  BY DEF KernelOK
<1>2. entry[e] # Absent <=> entry[e] \in [Cpus -> PartOf(e)]
  BY <1>1, NotAbsent
<1> QED BY <1>2 DEF PartOf

\* A program that is running, and the sample it will have recorded.
LEMMA ProgramFacts ==
    ASSUME KernelOK, NEW c \in Cpus, prog[c].pc # "idle"
    PROVE  /\ prog[c] \in Programs /\ ToItsEntry(prog[c])
           /\ prog[c].pc \in {"missing", "store"}
           /\ Where(prog[c]) \in Entries /\ Bucketed(Where(prog[c]), Epoch(prog[c].now))
           /\ Sample(c, prog[c]) \in SampleType
           /\ Where(Sample(c, prog[c])) = Where(prog[c])
           /\ prog[c].pc = "store" =>
                 /\ prog[c].todo \in Seq(StoreType) /\ prog[c].todo # <<>>
                 /\ entry[Where(prog[c])] # Absent
<1>1. prog[c] \in Programs /\ ToItsEntry(prog[c])
  BY DEF KernelOK, Idle
<1>2. /\ prog[c].key \in Keys /\ prog[c].now \in Nat /\ prog[c].now >= StartTime
      /\ prog[c].n \in Nat /\ prog[c].val \in Nat /\ prog[c].pc \in {"missing", "store"}
      /\ prog[c].todo \in Seq(StoreType)
  BY <1>1 DEF Programs
<1>3. Sample(c, prog[c]) \in SampleType
  BY <1>2 DEF Sample, SampleType
<1>4. Where(Sample(c, prog[c])) = Where(prog[c])
  BY DEF Sample, Where
<1>5. Where(prog[c]) \in Entries /\ Bucketed(Where(prog[c]), Epoch(prog[c].now))
  BY <1>2, WhereFacts
<1> QED BY <1>1, <1>2, <1>3, <1>4, <1>5 DEF ToItsEntry

\* The aggregation is one of the five.
LEMMA AggType == ASSUME KernelOK PROVE agg \in AllAggs
BY SeriesAssumption DEF KernelOK, AllAggs

OthersStay(c) == \A d \in Cpus \ {c} : prog'[d] = prog[d]

\* Lookup: the program of an idle CPU is there, with its sample and what it stores.
LookupDoes(c, now, p) ==
    /\ prog[c].pc = "idle" /\ DOMAIN prog' = Cpus /\ OthersStay(c)
    /\ p \in Programs /\ p.n = hits + 1 /\ p.now = now /\ hits' = hits + 1 /\ time' = now
    /\ hits \in Nat /\ time \in Nat /\ now \in Nat /\ now >= time /\ now >= StartTime
    /\ Where(p) \in Entries /\ Bucketed(Where(p), Epoch(p.now))
    /\ p.pc = "missing" => entry[Where(p)] = Absent
    /\ p.pc = "store" =>
          /\ entry[Where(p)] # Absent /\ p.todo # <<>>
          /\ p.todo = Stores(entry[Where(p)][c], p.val, p.now)
    /\ ToItsEntry(p)
    /\ spoiled' = IF Zeroing(Where(p)) THEN spoiled \cup {Where(p)} ELSE spoiled

\* Lookup does this.
LEMMA LookupFacts ==
    ASSUME TypeInv, NEW c \in Cpus, NEW k \in Keys, NEW now \in time .. MaxTime,
           Lookup(c, k, now), NEW p, p = prog'[c]
    PROVE  LookupDoes(c, now, p)
<1> USE DEF TypeInv
<1> DEFINE r == [pc |-> "missing", n |-> hits + 1, key |-> k, val |-> Samples[hits + 1],
                 now |-> now, todo |-> <<>>]
           e == Where(r)
           s == [r EXCEPT !.pc = "store", !.todo = Stores(entry[e][c], r.val, now)]
<1>1. /\ prog[c].pc = "idle" /\ hits < Len(Samples) /\ hits' = hits + 1 /\ time' = now
      /\ prog' = [prog EXCEPT ![c] = IF entry[e] = Absent THEN r ELSE s]
      /\ DOMAIN prog = Cpus /\ hits \in Nat /\ time \in Nat /\ time >= StartTime
  BY DEF Lookup, KernelOK
<1>2. now \in Nat /\ now >= time /\ now >= StartTime
  BY <1>1, SeriesAssumption
<1>3. Samples[hits + 1] \in Nat
  <2>1. hits + 1 \in 1 .. Len(Samples)
    BY <1>1, SeriesAssumption
  <2> QED BY <2>1, SeriesAssumption
<1>4. r \in Programs
  BY <1>1, <1>2, <1>3 DEF Programs
<1>5. e \in Entries /\ Bucketed(e, Epoch(now))
  BY <1>2, WhereFacts
<1>6. DOMAIN prog' = Cpus /\ OthersStay(c) /\ p = IF entry[e] = Absent THEN r ELSE s
  BY <1>1 DEF OthersStay
<1>9. spoiled' = IF Zeroing(e) THEN spoiled \cup {e} ELSE spoiled
  BY DEF Lookup, Zeroing
<1>7. CASE entry[e] = Absent
  <2>1. p = r
    BY <1>6, <1>7
  <2> QED BY <1>1, <1>2, <1>4, <1>5, <1>6, <1>7, <1>9, <2>1 DEF ToItsEntry, LookupDoes
<1>8. CASE entry[e] # Absent
  <2>1. p = s
    BY <1>6, <1>8
  <2> DEFINE q == Stores(entry[e][c], r.val, now)
  <2>2. entry[e][c] \in Words
    BY <1>5, <1>8, EntryFacts
  <2>3. q \in Seq(StoreType) /\ q # <<>> /\ \A i \in DOMAIN q : q[i][1] = "epoch" => q[i][2] = Epoch(now)
    BY <1>2, <1>3, <2>2, StoresFacts, AggType
  <2> HIDE DEF q
  <2>4. /\ s.pc = "store" /\ s.n = hits + 1 /\ s.key = k /\ s.val = r.val /\ s.now = now
        /\ s.todo = q
    BY DEF q
  <2>5. s \in Programs
    <3>1. s = [pc |-> "store", n |-> hits + 1, key |-> k, val |-> Samples[hits + 1],
               now |-> now, todo |-> q]
      <4>1. s = [r EXCEPT !.pc = "store", !.todo = q]
        BY DEF q
      <4> HIDE DEF s, q
      <4> QED BY <4>1
    <3> QED BY <1>1, <1>2, <1>3, <2>3, <3>1 DEF Programs
  <2>6. Where(s) = e
    BY <2>4 DEF Where
  <2> HIDE DEF s, e
  <2>7. p.todo = Stores(entry[Where(p)][c], p.val, p.now)
    BY <2>1, <2>4, <2>6 DEF q
  <2>8. ToItsEntry(p)
    BY <1>5, <1>8, <2>1, <2>3, <2>4, <2>6 DEF ToItsEntry
  <2> QED BY <1>1, <1>2, <1>5, <1>6, <1>8, <1>9, <2>1, <2>3, <2>4, <2>5, <2>6, <2>7, <2>8 DEF LookupDoes
<1> QED BY <1>7, <1>8 DEF LookupDoes

\* Store: one word is stored; after the last the sample is recorded.
StoreDoes(c, p, e) ==
    /\ p.pc = "store" /\ p \in Programs /\ e \in Entries
    /\ entry[e] \in [Cpus -> PartOf(e)] /\ entry'[e] \in [Cpus -> PartOf(e)]
    /\ DOMAIN entry' = Entries /\ \A f \in Entries \ {e} : entry'[f] = entry[f]
    /\ \A d \in Cpus \ {c} : entry'[e][d] = entry[e][d]
    /\ p.todo \in Seq(StoreType) /\ p.todo # <<>> /\ entry[e][c] \in Words
    /\ entry'[e][c] = [entry[e][c] EXCEPT ![p.todo[1][1]] = p.todo[1][2]]
    /\ DOMAIN prog' = Cpus /\ OthersStay(c)
    /\ \/ /\ Tail(p.todo) = <<>> /\ prog'[c] = Idle /\ log' = log \cup {Sample(c, p)}
       \/ /\ Tail(p.todo) # <<>> /\ prog'[c] = [p EXCEPT !.todo = Tail(p.todo)]
          /\ log' = log
    /\ torn' = (torn \/ (upc = "copy" /\ Visits(e)))
    /\ spoiled' = IF Zeroing(e) THEN spoiled \cup {e} ELSE spoiled

\* Store does this.
LEMMA StoreFacts ==
    ASSUME TypeInv, NEW c \in Cpus, Store(c), NEW p, p = prog[c], NEW e, e = Where(p)
    PROVE  StoreDoes(c, p, e)
<1> USE DEF TypeInv
<1>1. /\ p.pc = "store" /\ DOMAIN prog = Cpus /\ DOMAIN entry = Entries
      /\ entry' = [entry EXCEPT ![e][c][Head(p.todo)[1]] = Head(p.todo)[2]]
      /\ prog' = [prog EXCEPT ![c] = IF Len(p.todo) = 1 THEN Idle
                                     ELSE [p EXCEPT !.todo = Tail(@)]]
      /\ log' = IF Len(p.todo) = 1 THEN log \cup {Sample(c, p)} ELSE log
  BY DEF Store, KernelOK
<1>2. /\ p \in Programs /\ ToItsEntry(p) /\ e \in Entries /\ Bucketed(e, Epoch(p.now))
      /\ p.todo \in Seq(StoreType) /\ p.todo # <<>> /\ entry[e] # Absent
  BY <1>1, ProgramFacts
<1>3. entry[e] \in [Cpus -> PartOf(e)] /\ entry[e][c] \in Words /\ Bucketed(e, entry[e][c].epoch)
  BY <1>2, EntryFacts
<1> DEFINE a == p.todo[1][1]
           b == p.todo[1][2]
           w == [entry[e][c] EXCEPT ![a] = b]
<1>4. Head(p.todo) = p.todo[1] /\ p.todo[1] \in StoreType /\ 1 \in DOMAIN p.todo
  BY <1>2
<1>5. entry' = [entry EXCEPT ![e] = [@ EXCEPT ![c] = w]]
  BY <1>1, <1>4
<1>6. w \in PartOf(e)
  <2>1. a \in FieldNames /\ b \in Nat /\ (a = "epoch" => Bucketed(e, b))
    BY <1>1, <1>2, <1>4 DEF StoreType, ToItsEntry
  <2>2. w \in Words
    BY <1>3, <2>1 DEF Words, FieldNames
  <2>3. w.epoch = IF a = "epoch" THEN b ELSE entry[e][c].epoch
    BY <1>3, <2>1 DEF Words
  <2> HIDE DEF w, a, b
  <2> QED BY <1>3, <2>1, <2>2, <2>3 DEF PartOf
<1> HIDE DEF w
<1>7. /\ DOMAIN entry' = Entries /\ \A f \in Entries \ {e} : entry'[f] = entry[f]
      /\ entry'[e] = [entry[e] EXCEPT ![c] = w]
  BY <1>1, <1>2, <1>5
<1>8. /\ entry'[e] \in [Cpus -> PartOf(e)] /\ entry'[e][c] = w
      /\ \A d \in Cpus \ {c} : entry'[e][d] = entry[e][d]
  BY <1>3, <1>6, <1>7
<1>9. DOMAIN prog' = Cpus /\ OthersStay(c)
  BY <1>1 DEF OthersStay
<1>10. Tail(p.todo) = <<>> <=> Len(p.todo) = 1
  <2>1. PICK q : q = p.todo
    OBVIOUS
  <2>2. q \in Seq(StoreType) /\ Len(q) \in Nat \ {0}
    BY <1>2, <2>1
  <2>3. Len(Tail(q)) = Len(q) - 1 /\ Tail(q) \in Seq(StoreType)
    BY <2>2
  <2>4. Tail(q) = <<>> <=> Len(Tail(q)) = 0
    BY <2>3
  <2> QED BY <2>1, <2>2, <2>3, <2>4
<1>11. prog'[c] = IF Len(p.todo) = 1 THEN Idle ELSE [p EXCEPT !.todo = Tail(p.todo)]
  BY <1>1
<1>12. /\ torn' = (torn \/ (upc = "copy" /\ Visits(e)))
       /\ spoiled' = IF Zeroing(e) THEN spoiled \cup {e} ELSE spoiled
  BY DEF Store, Zeroing
<1> QED BY <1>1, <1>2, <1>3, <1>7, <1>8, <1>9, <1>10, <1>11, <1>12 DEF w, StoreDoes

\* The words a bucket is inserted with.
New(p) ==
    LET zero == [ZeroPart EXCEPT !.epoch = Epoch(p.now)]
    IN  Stored(zero, Stores(zero, p.val, p.now))

\* Insert: the bucket is there already and its words are to be stored, or it is made, or
\* refused.
InsertDoes(c, p, e) ==
    /\ p.pc = "missing" /\ p \in Programs /\ e \in Entries
    /\ New(p) \in PartOf(e) /\ Told(agg, New(p), {Sample(c, p)})
    /\ DOMAIN entry' = Entries /\ \A f \in Entries \ {e} : entry'[f] = entry[f]
    /\ DOMAIN prog' = Cpus /\ OthersStay(c)
    /\ \/ /\ entry[e] # Absent /\ entry' = entry /\ log' = log
          /\ prog'[c] = [p EXCEPT !.pc = "store", !.todo = prog'[c].todo]
          /\ prog'[c].todo = [i \in 1 .. 3 |-> <<Fields[i], New(p)[Fields[i]]>>]
       \/ /\ entry[e] = Absent /\ prog'[c] = Idle /\ log' = log \cup {Sample(c, p)}
          /\ entry'[e] = [d \in Cpus |-> IF d = c THEN New(p) ELSE ZeroPart]
          /\ entry'[e] \in [Cpus -> PartOf(e)]
       \/ entry[e] = Absent /\ prog'[c] = Idle /\ entry' = entry /\ log' = log

\* Insert does this.
LEMMA InsertFacts ==
    ASSUME TypeInv, NEW c \in Cpus, Insert(c), NEW p, p = prog[c], NEW e, e = Where(p)
    PROVE  InsertDoes(c, p, e)
<1> USE DEF TypeInv
<1> DEFINE q == [i \in 1 .. 3 |-> <<Fields[i], New(p)[Fields[i]]>>]
           z == [d \in Cpus |-> IF d = c THEN New(p) ELSE ZeroPart]
<1>1. /\ p.pc = "missing" /\ DOMAIN prog = Cpus /\ DOMAIN entry = Entries
      /\ \/ /\ entry[e] # Absent /\ entry' = entry /\ log' = log
            /\ prog' = [prog EXCEPT ![c].pc = "store", ![c].todo = q]
         \/ /\ entry[e] = Absent /\ prog' = [prog EXCEPT ![c] = Idle]
            /\ \/ entry' = [entry EXCEPT ![e] = z] /\ log' = log \cup {Sample(c, p)}
               \/ entry' = entry /\ log' = log
  <2> HIDE DEF q, z
  <2> QED BY DEF Insert, KernelOK, New, q, z
<1>2. p \in Programs /\ e \in Entries /\ Bucketed(e, Epoch(p.now)) /\ Sample(c, p) \in SampleType
  BY <1>1, ProgramFacts
<1>3. New(p) \in Words /\ New(p).epoch = Epoch(p.now) /\ Told(agg, New(p), {Sample(c, p)})
  <2>1. Sample(c, p).val = p.val /\ Sample(c, p).now = p.now
    BY DEF Sample
  <2> QED BY <1>2, <2>1, AggType, ToldNew DEF New
<1>4. New(p) \in PartOf(e) /\ ZeroPart \in PartOf(e)
  BY <1>2, <1>3 DEF PartOf, Bucketed, ZeroPart, Words
<1>5. z \in [Cpus -> PartOf(e)]
  BY <1>4
<1> HIDE DEF q, z
<1>6. OthersStay(c) /\ DOMAIN prog' = Cpus
  BY <1>1 DEF OthersStay
<1>7. ASSUME prog' = [prog EXCEPT ![c].pc = "store", ![c].todo = q]
      PROVE  prog'[c] = [p EXCEPT !.pc = "store", !.todo = prog'[c].todo] /\ prog'[c].todo = q
  BY <1>1, <1>2, <1>7 DEF Programs
<1>8. CASE entry[e] # Absent /\ entry' = entry /\ log' = log
           /\ prog' = [prog EXCEPT ![c].pc = "store", ![c].todo = q]
  BY <1>1, <1>2, <1>3, <1>4, <1>6, <1>7, <1>8 DEF q, InsertDoes
<1>9. CASE entry[e] = Absent /\ prog' = [prog EXCEPT ![c] = Idle]
           /\ entry' = [entry EXCEPT ![e] = z] /\ log' = log \cup {Sample(c, p)}
  <2>1. entry'[e] = z /\ DOMAIN entry' = Entries /\ \A f \in Entries \ {e} : entry'[f] = entry[f]
    BY <1>1, <1>2, <1>9
  <2> QED BY <1>1, <1>2, <1>3, <1>4, <1>5, <1>6, <1>9, <2>1 DEF z, InsertDoes
<1>10. CASE entry[e] = Absent /\ prog' = [prog EXCEPT ![c] = Idle] /\ entry' = entry /\ log' = log
  BY <1>1, <1>2, <1>3, <1>4, <1>6, <1>10 DEF InsertDoes
<1> QED BY <1>1, <1>8, <1>9, <1>10 DEF InsertDoes

-----------------------------------------------------------------------------
(***************************************************************************)
(* The types of the variables.                                             *)
(***************************************************************************)
UserStays ==
    /\ upc' = upc /\ walk' = walk /\ buf' = buf
    /\ series' = series /\ out' = out /\ seen' = seen /\ agg' = agg
KernelStays ==
    /\ entry' = entry /\ prog' = prog /\ hits' = hits /\ log' = log
    /\ time' = time /\ agg' = agg

\* Steps of programs leave the event loop alone, and it leaves programs alone.
LEMMA WhoSteps ==
    ASSUME [Next]_vars
    PROVE  \/ /\ UserStays /\ ops' = ops
              /\ \/ \E c \in Cpus : \E k \in Keys : \E now \in time .. MaxTime : Lookup(c, k, now)
                 \/ \E c \in Cpus : Store(c) /\ time' = time /\ hits' = hits
                 \/ \E c \in Cpus : Insert(c) /\ time' = time /\ hits' = hits
                                      /\ torn' = torn /\ spoiled' = spoiled
           \/ KernelStays /\ spoiled' = spoiled /\ (\E o \in {"copy", "zero"} : Begin(o))
           \/ KernelStays /\ spoiled' = spoiled /\ CopyCpu
           \/ KernelStays /\ spoiled' = spoiled /\ torn' = torn /\ format
           \/ KernelStays /\ spoiled' = spoiled /\ torn' = torn /\ ZeroEnd
           \/ ZeroCpu
           \/ KernelStays /\ UserStays /\ ops' = ops /\ torn' = torn /\ spoiled' = spoiled
<1>1. CASE UNCHANGED vars
  BY <1>1 DEF vars, kernel, user, KernelStays, UserStays
<1>2. ASSUME NEW c \in Cpus, NEW k \in Keys, NEW now \in time .. MaxTime, Lookup(c, k, now)
      PROVE  UserStays /\ ops' = ops
  BY <1>2 DEF Lookup, user, UserStays
<1>3. ASSUME NEW c \in Cpus, Store(c) PROVE UserStays /\ ops' = ops /\ time' = time /\ hits' = hits
  BY <1>3 DEF Store, user, UserStays
<1>4. ASSUME NEW c \in Cpus, Insert(c)
      PROVE  UserStays /\ ops' = ops /\ time' = time /\ hits' = hits /\ torn' = torn /\ spoiled' = spoiled
  BY <1>4 DEF Insert, user, UserStays
<1>5. ASSUME NEW o \in {"copy", "zero"}, Begin(o) PROVE KernelStays /\ spoiled' = spoiled
  BY <1>5 DEF Begin, kernel, KernelStays
<1>6. CopyCpu => KernelStays /\ spoiled' = spoiled
  BY DEF CopyCpu, kernel, KernelStays
<1>7. format => KernelStays /\ spoiled' = spoiled /\ torn' = torn
  BY DEF format, kernel, KernelStays
<1>8. ZeroEnd => KernelStays /\ spoiled' = spoiled /\ torn' = torn
  BY DEF ZeroEnd, kernel, KernelStays
<1>9. CASE ProgStep
  BY <1>2, <1>3, <1>4, <1>9 DEF ProgStep
<1> QED BY <1>1, <1>5, <1>6, <1>7, <1>8, <1>9 DEF Next

\* ZeroCpu: the words of one CPU more are zeroes and the samples of the entry are gone.
ZeroDoes(e, i) ==
    /\ upc = "zero" /\ upc' = "zero" /\ walk # <<>> /\ e \in Entries /\ i \in Cpus
    /\ entry[e] \in [Cpus -> PartOf(e)] /\ entry'[e] \in [Cpus -> PartOf(e)]
    /\ DOMAIN entry' = Entries /\ \A f \in Entries \ {e} : entry'[f] = entry[f]
    /\ entry'[e][i] = ZeroPart /\ \A d \in Cpus \ {i} : entry'[e][d] = entry[e][d]
    /\ log' = {s \in log : Where(s) # e}
    /\ spoiled' = IF buf = <<>> /\ Storing(e) THEN spoiled \cup {e} ELSE spoiled
    /\ \/ i < NCpus /\ buf' = Append(buf, ZeroPart) /\ Len(buf') = i /\ buf' # <<>>
          /\ walk' = walk
       \/ i = NCpus /\ buf' = <<>> /\ walk' = Tail(walk)
    /\ UNCHANGED <<agg, time, prog, hits, series, seen>>

\* ZeroCpu does this.
LEMMA ZeroFacts ==
    ASSUME TypeInv, ZeroCpu, NEW e, e = Head(walk), NEW i, i = Len(buf) + 1
    PROVE  ZeroDoes(e, i)
<1> USE DEF TypeInv
<1>1. /\ upc = "zero" /\ upc' = "zero" /\ walk # <<>> /\ DOMAIN entry = Entries
      /\ walk \in Seq(Entries) /\ buf \in Seq(Words) /\ Len(buf) < NCpus
      /\ \A j \in DOMAIN walk : entry[walk[j]] # Absent
      /\ entry' = [entry EXCEPT ![e][Len(Append(buf, ZeroPart))] = ZeroPart]
      /\ log' = {s \in log : Where(s) # e}
      /\ spoiled' = IF buf = <<>> /\ Storing(e) THEN spoiled \cup {e} ELSE spoiled
      /\ IF Len(Append(buf, ZeroPart)) < NCpus THEN buf' = Append(buf, ZeroPart) /\ walk' = walk
                                               ELSE buf' = <<>> /\ walk' = Tail(walk)
      /\ UNCHANGED <<agg, time, prog, hits, series, seen>>
  BY DEF ZeroCpu, KernelOK, UserOK
<1>2. i \in Cpus /\ Len(Append(buf, ZeroPart)) = i /\ i <= NCpus /\ Append(buf, ZeroPart) # <<>>
  <2>1. ZeroPart \in Words
    BY DEF ZeroPart, Words
  <2>2. Append(buf, ZeroPart) \in Seq(Words) /\ Len(Append(buf, ZeroPart)) = i /\ i \in Nat \ {0}
    BY <1>1, <2>1
  <2>3. i <= NCpus /\ i \in 1 .. NCpus
    BY <1>1, <2>2, SeriesAssumption
  <2>4. Append(buf, ZeroPart) # <<>>
    BY <2>2
  <2> QED BY <2>2, <2>3, <2>4 DEF Cpus
<1>3. e \in Entries /\ entry[e] # Absent
  <2>1. 1 \in DOMAIN walk /\ e = walk[1]
    BY <1>1
  <2> QED BY <1>1, <2>1
<1>4. entry[e] \in [Cpus -> PartOf(e)]
  BY <1>3, EntryFacts
<1>5. ZeroPart \in PartOf(e)
  BY DEF ZeroPart, PartOf, Words, Bucketed
<1>6. entry' = [entry EXCEPT ![e] = [@ EXCEPT ![i] = ZeroPart]]
  BY <1>1, <1>2
<1>7. /\ DOMAIN entry' = Entries /\ \A f \in Entries \ {e} : entry'[f] = entry[f]
      /\ entry'[e] = [entry[e] EXCEPT ![i] = ZeroPart]
  BY <1>1, <1>3, <1>6
<1>8. /\ entry'[e] \in [Cpus -> PartOf(e)] /\ entry'[e][i] = ZeroPart
      /\ \A d \in Cpus \ {i} : entry'[e][d] = entry[e][d]
  BY <1>2, <1>4, <1>5, <1>7
<1>9. i < NCpus \/ i = NCpus
  BY <1>1, <1>2, SeriesAssumption
<1> QED BY <1>1, <1>2, <1>3, <1>4, <1>7, <1>8, <1>9 DEF ZeroDoes

\* What KernelOK needs of the entries and of the programs of a step.
LEMMA KernelKept ==
    ASSUME KernelOK, agg' = agg, time' \in Nat, time' >= StartTime, hits' \in Nat,
           DOMAIN entry' = Entries,
           \A e \in Entries : entry'[e] \in {Absent} \cup [Cpus -> PartOf(e)],
           \A e \in Entries : entry[e] # Absent => entry'[e] # Absent,
           DOMAIN prog' = Cpus,
           \A c \in Cpus : \/ prog'[c] = Idle \/ prog'[c] = prog[c]
                           \/ prog'[c] \in Programs /\ ToItsEntry(prog'[c])
    PROVE  KernelOK'
<1>1. ASSUME NEW c \in Cpus
      PROVE  prog'[c] = Idle \/ (prog'[c] \in Programs /\ ToItsEntry(prog[c])')
  <2>1. CASE prog'[c] = Idle
    BY <2>1
  <2>2. CASE prog'[c] \in Programs /\ ToItsEntry(prog'[c])
    <3>1. PICK p : p = prog'[c]
      OBVIOUS
    <3>2. p \in Programs /\ ToItsEntry(p)
      BY <2>2, <3>1
    <3>3. Where(p) \in Entries
      BY <3>2, WhereFacts DEF Programs
    <3>4. p.pc = "store" => /\ p.todo # <<>> /\ entry'[Where(p)] # Absent
                            /\ \A i \in DOMAIN p.todo :
                                  p.todo[i][1] = "epoch" => Bucketed(Where(p), p.todo[i][2])
      BY <3>2, <3>3 DEF ToItsEntry
    <3> QED BY <3>1, <3>2, <3>4 DEF ToItsEntry
  <2>3. CASE prog'[c] = prog[c] /\ prog'[c] # Idle
    <3>1. PICK p : p = prog[c]
      OBVIOUS
    <3>2. p \in Programs /\ ToItsEntry(p)
      BY <2>3, <3>1 DEF KernelOK
    <3>3. Where(p) \in Entries
      BY <3>2, WhereFacts DEF Programs
    <3>4. p.pc = "store" => /\ p.todo # <<>> /\ entry'[Where(p)] # Absent
                            /\ \A i \in DOMAIN p.todo :
                                  p.todo[i][1] = "epoch" => Bucketed(Where(p), p.todo[i][2])
      BY <3>2, <3>3 DEF ToItsEntry
    <3> QED BY <2>3, <3>1, <3>2, <3>4 DEF ToItsEntry
  <2> QED BY <2>1, <2>2, <2>3
<1> QED BY <1>1 DEF KernelOK

\* The words and the programs keep their types.
LEMMA KernelStep == ASSUME TypeInv, [Next]_vars PROVE KernelOK'
<1> USE DEF TypeInv
<1>1. /\ agg \in Aggs /\ time \in Nat /\ time >= StartTime /\ hits \in Nat
      /\ DOMAIN entry = Entries /\ DOMAIN prog = Cpus
      /\ \A e \in Entries : entry[e] \in {Absent} \cup [Cpus -> PartOf(e)]
  BY DEF KernelOK
<1>2. ASSUME NEW c \in Cpus, NEW k \in Keys, NEW now \in time .. MaxTime, Lookup(c, k, now),
             UserStays
      PROVE  KernelOK'
  <2>1. PICK p : p = prog'[c]
    OBVIOUS
  <2>2. /\ DOMAIN prog' = Cpus /\ OthersStay(c) /\ p \in Programs /\ ToItsEntry(p)
        /\ hits' = hits + 1 /\ time' = now /\ now \in Nat /\ now >= StartTime
    BY <1>2, <2>1, LookupFacts DEF LookupDoes
  <2>3. entry' = entry
    BY <1>2 DEF Lookup
  <2>4. \A d \in Cpus : prog'[d] = prog[d] \/ (prog'[d] \in Programs /\ ToItsEntry(prog'[d]))
    BY <2>1, <2>2 DEF OthersStay
  <2> QED BY <1>1, <1>2, <2>2, <2>3, <2>4, KernelKept DEF UserStays
<1>3. ASSUME NEW c \in Cpus, Store(c), time' = time, hits' = hits, UserStays PROVE KernelOK'
  <2>1. PICK p, e : p = prog[c] /\ e = Where(p)
    OBVIOUS
  <2>9. StoreDoes(c, p, e)
    BY <1>3, <2>1, StoreFacts
  <2>2. /\ e \in Entries /\ p.pc = "store" /\ p \in Programs /\ p.todo \in Seq(StoreType)
        /\ entry'[e] \in [Cpus -> PartOf(e)] /\ DOMAIN entry' = Entries
        /\ \A f \in Entries \ {e} : entry'[f] = entry[f]
        /\ DOMAIN prog' = Cpus /\ OthersStay(c) /\ p.todo # <<>>
        /\ \/ prog'[c] = Idle
           \/ Tail(p.todo) # <<>> /\ prog'[c] = [p EXCEPT !.todo = Tail(p.todo)]
    BY <2>9 DEF StoreDoes
  <2>3. entry'[e] # Absent
    BY <2>2, NotAbsent
  <2>4. prog'[c] = Idle \/ (prog'[c] \in Programs /\ ToItsEntry(prog'[c]))
    <3> SUFFICES ASSUME prog'[c] # Idle
                 PROVE  prog'[c] \in Programs /\ ToItsEntry(prog'[c])
      OBVIOUS
    <3>1. PICK q : q = Tail(p.todo)
      OBVIOUS
    <3>2. q # <<>> /\ prog'[c] = [p EXCEPT !.todo = q]
      BY <2>2, <3>1
    <3>3. q \in Seq(StoreType) /\ \A i \in DOMAIN q : i + 1 \in DOMAIN p.todo /\ q[i] = p.todo[i + 1]
      <4>1. PICK r : r = p.todo
        OBVIOUS
      <4>2. r \in Seq(StoreType) /\ r # <<>> /\ q = Tail(r)
        BY <2>2, <3>1, <4>1
      <4>3. /\ q \in Seq(StoreType) /\ Len(q) = Len(r) - 1
            /\ \A i \in 1 .. Len(q) : q[i] = r[i + 1]
        BY <4>2
      <4>4. \A i \in 1 .. Len(q) : i + 1 \in 1 .. Len(r)
        BY <4>2, <4>3
      <4> QED BY <4>1, <4>2, <4>3, <4>4
    <3>4. ToItsEntry(p)
      BY <2>1, <2>2, ProgramFacts
    <3>5. PICK y : y = prog'[c]
      OBVIOUS
    <3>6. y \in Programs /\ y.key = p.key /\ y.now = p.now /\ y.todo = q /\ y.pc = "store"
      BY <2>2, <3>2, <3>3, <3>5 DEF Programs
    <3>7. Where(y) = Where(p)
      BY <3>6 DEF Where
    <3>8. ToItsEntry(y)
      BY <2>2, <3>2, <3>3, <3>4, <3>6, <3>7 DEF ToItsEntry
    <3> QED BY <3>5, <3>6, <3>8
  <2>5. \A d \in Cpus : \/ prog'[d] = Idle \/ prog'[d] = prog[d]
                        \/ prog'[d] \in Programs /\ ToItsEntry(prog'[d])
    BY <2>2, <2>4 DEF OthersStay
  <2>6. \A f \in Entries : entry'[f] \in {Absent} \cup [Cpus -> PartOf(f)]
    BY <1>1, <2>2
  <2>7. \A f \in Entries : entry[f] # Absent => entry'[f] # Absent
    BY <2>2, <2>3
  <2> QED BY <1>1, <1>3, <2>2, <2>5, <2>6, <2>7, KernelKept DEF UserStays
<1>4. ASSUME NEW c \in Cpus, Insert(c), time' = time, hits' = hits, UserStays PROVE KernelOK'
  <2>1. PICK p, e : p = prog[c] /\ e = Where(p)
    OBVIOUS
  <2>9. InsertDoes(c, p, e)
    BY <1>4, <2>1, InsertFacts
  <2>2. /\ e \in Entries /\ p.pc = "missing" /\ p \in Programs /\ New(p) \in PartOf(e)
        /\ DOMAIN entry' = Entries /\ \A f \in Entries \ {e} : entry'[f] = entry[f]
        /\ DOMAIN prog' = Cpus /\ OthersStay(c)
        /\ \/ /\ entry[e] # Absent /\ entry' = entry
              /\ prog'[c] = [p EXCEPT !.pc = "store", !.todo = prog'[c].todo]
              /\ prog'[c].todo = [i \in 1 .. 3 |-> <<Fields[i], New(p)[Fields[i]]>>]
           \/ entry[e] = Absent /\ prog'[c] = Idle /\ entry'[e] \in [Cpus -> PartOf(e)]
           \/ entry[e] = Absent /\ prog'[c] = Idle /\ entry' = entry
    BY <2>9 DEF InsertDoes
  <2>3. ASSUME entry[e] # Absent PROVE prog'[c] \in Programs /\ ToItsEntry(prog'[c])
    <3>1. PICK y, q : y = prog'[c] /\ q = [i \in 1 .. 3 |-> <<Fields[i], New(p)[Fields[i]]>>]
      OBVIOUS
    <3>2. y = [p EXCEPT !.pc = "store", !.todo = q]
      BY <2>2, <2>3, <3>1
    <3>3. q \in Seq(StoreType) /\ q # <<>> /\ \A i \in DOMAIN q : q[i][1] = "epoch" => Bucketed(e, q[i][2])
      <4>1. New(p) \in Words /\ Bucketed(e, New(p).epoch)
        BY <2>2 DEF PartOf
      <4>2. PICK w : w = New(p)
        OBVIOUS
      <4>3. w["val"] \in Nat /\ w["meta"] \in Nat /\ w["epoch"] \in Nat /\ Bucketed(e, w["epoch"])
        BY <4>1, <4>2 DEF Words
      <4>4. \A i \in 1 .. 3 : Fields[i] \in FieldNames /\ w[Fields[i]] \in Nat
        BY <4>3 DEF Fields, FieldNames
      <4>5. q = [i \in 1 .. 3 |-> <<Fields[i], w[Fields[i]]>>]
        BY <3>1, <4>2
      <4>6. \A i \in 1 .. 3 : q[i] \in StoreType
        BY <4>4, <4>5 DEF StoreType
      <4>7. q \in Seq(StoreType) /\ DOMAIN q = 1 .. 3
        BY <4>5, <4>6
      <4>8. q # <<>>
        BY <4>7
      <4>9. \A i \in 1 .. 3 : q[i][1] = Fields[i] /\ q[i][2] = w[Fields[i]]
        BY <4>5
      <4> QED BY <4>3, <4>7, <4>8, <4>9
    <3>4. y \in Programs /\ y.key = p.key /\ y.now = p.now /\ y.todo = q /\ y.pc = "store"
      BY <2>2, <3>2, <3>3 DEF Programs
    <3>5. Where(y) = e
      BY <2>1, <3>4 DEF Where
    <3>6. ToItsEntry(y)
      BY <2>3, <3>3, <3>4, <3>5 DEF ToItsEntry
    <3> QED BY <3>1, <3>4, <3>6
  <2>4. \A d \in Cpus : \/ prog'[d] = Idle \/ prog'[d] = prog[d]
                        \/ prog'[d] \in Programs /\ ToItsEntry(prog'[d])
    BY <2>2, <2>3 DEF OthersStay
  <2>5. \A f \in Entries : entry'[f] \in {Absent} \cup [Cpus -> PartOf(f)]
    BY <1>1, <2>2
  <2>6. \A f \in Entries : entry[f] # Absent => entry'[f] # Absent
    BY <2>2
  <2> QED BY <1>1, <1>4, <2>2, <2>4, <2>5, <2>6, KernelKept DEF UserStays
<1>5. CASE KernelStays
  <2> QED BY <1>1, <1>5, KernelKept DEF KernelStays
<1>6. CASE ZeroCpu
  <2>1. PICK e, i : e = Head(walk) /\ i = Len(buf) + 1
    OBVIOUS
  <2>2. /\ e \in Entries /\ entry'[e] \in [Cpus -> PartOf(e)] /\ DOMAIN entry' = Entries
        /\ \A f \in Entries \ {e} : entry'[f] = entry[f]
        /\ UNCHANGED <<agg, time, prog, hits>>
    BY <1>6, <2>1, ZeroFacts DEF ZeroDoes
  <2>3. entry'[e] # Absent
    BY <2>2, NotAbsent
  <2>4. \A f \in Entries : entry'[f] \in {Absent} \cup [Cpus -> PartOf(f)]
    BY <1>1, <2>2
  <2>5. \A f \in Entries : entry[f] # Absent => entry'[f] # Absent
    BY <2>2, <2>3
  <2> QED BY <1>1, <2>2, <2>4, <2>5, KernelKept
<1> QED BY <1>2, <1>3, <1>4, <1>5, <1>6, WhoSteps

-----------------------------------------------------------------------------
(***************************************************************************)
(* What the steps of the event loop do.                                    *)
(***************************************************************************)
\* The walk without its head.
LEMMA WalkOn ==
    ASSUME NEW S, NEW q \in Seq(S), q # <<>>, \A i, j \in DOMAIN q : q[i] = q[j] => i = j
    PROVE  /\ Head(q) \in S /\ Head(q) \in Range(q) /\ Tail(q) \in Seq(S)
           /\ Range(Tail(q)) = Range(q) \ {Head(q)}
           /\ \A i, j \in DOMAIN Tail(q) : Tail(q)[i] = Tail(q)[j] => i = j
<1> DEFINE r == Tail(q)
<1>1. /\ Len(q) \in Nat \ {0} /\ DOMAIN q = 1 .. Len(q) /\ Head(q) = q[1] /\ q[1] \in S
      /\ r \in Seq(S) /\ Len(r) = Len(q) - 1 /\ DOMAIN r = 1 .. Len(r)
      /\ \A i \in 1 .. Len(r) : r[i] = q[i + 1]
  OBVIOUS
<1> HIDE DEF r
<1>2. ASSUME NEW i \in DOMAIN r, NEW j \in DOMAIN r, r[i] = r[j] PROVE i = j
  <2>1. i + 1 \in DOMAIN q /\ j + 1 \in DOMAIN q /\ q[i + 1] = q[j + 1]
    BY <1>1, <1>2
  <2>2. i + 1 = j + 1
    BY <2>1
  <2> QED BY <1>1, <2>2
<1>3. ASSUME NEW x \in Range(r) PROVE x \in Range(q) /\ x # Head(q)
  <2>1. PICK i \in DOMAIN r : x = r[i]
    BY <1>3 DEF Range
  <2>2. i + 1 \in DOMAIN q /\ i + 1 # 1 /\ 1 \in DOMAIN q /\ x = q[i + 1]
    BY <1>1, <2>1
  <2> QED BY <1>1, <2>2 DEF Range
<1>4. ASSUME NEW x \in Range(q), x # Head(q) PROVE x \in Range(r)
  <2>1. PICK i \in DOMAIN q : x = q[i]
    BY <1>4 DEF Range
  <2>2. i - 1 \in DOMAIN r /\ r[i - 1] = q[(i - 1) + 1] /\ (i - 1) + 1 = i
    <3>1. i # 1 /\ i \in 1 .. Len(q)
      BY <1>1, <1>4, <2>1
    <3>2. i - 1 \in 1 .. Len(r) /\ (i - 1) + 1 = i
      BY <1>1, <3>1
    <3> QED BY <1>1, <3>2
  <2> QED BY <2>1, <2>2 DEF Range
<1>5. Head(q) \in Range(q)
  BY <1>1 DEF Range
<1> QED BY <1>1, <1>2, <1>3, <1>4, <1>5 DEF r

\* The entries that there are, one after the other.
LEMMA AllOnce ==
    ASSUME NEW S, IsFiniteSet(S), NEW q, q = SetToSeq(S)
    PROVE  q \in Seq(S) /\ \A i, j \in DOMAIN q : q[i] = q[j] => i = j
<1>1. Cardinality(S) \in Nat /\ ExistsBijection(1 .. Cardinality(S), S)
  BY FS_CardinalityType
<1>2. PICK f : f \in Bijection(1 .. Cardinality(S), S)
  BY <1>1 DEF ExistsBijection
<1>3. f \in [1 .. Cardinality(S) -> S] /\ IsInjective(f)
  BY <1>2 DEF Bijection, Injection, IsInjective
<1>4. q \in [1 .. Cardinality(S) -> S] /\ IsInjective(q)
  BY <1>3 DEF SetToSeq
<1> QED BY <1>1, <1>4 DEF IsInjective

\* What Begin does.
BeginDoes(o) ==
    /\ upc = "idle" /\ upc' = o /\ buf' = buf
    /\ walk' \in Seq(Entries) /\ \A i, j \in DOMAIN walk' : walk'[i] = walk'[j] => i = j
    /\ \A i \in DOMAIN walk' : entry[walk'[i]] # Absent
    /\ series' = {} /\ seen' = {} /\ torn' = FALSE

\* Begin does this.
LEMMA BeginFacts == ASSUME TypeInv, NEW o, Begin(o) PROVE BeginDoes(o)
<1>1. IsFiniteSet(Present) /\ Present \subseteq Entries /\ \A e \in Present : entry[e] # Absent
  BY DEF TypeInv, UserOK, Present
<1>2. PICK q : q = SetToSeq(Present)
  OBVIOUS
<1>3. q \in Seq(Present) /\ \A i, j \in DOMAIN q : q[i] = q[j] => i = j
  BY <1>1, <1>2, AllOnce
<1>4. q \in Seq(Entries) /\ \A i \in DOMAIN q : entry[q[i]] # Absent
  BY <1>1, <1>3
<1> QED BY <1>2, <1>3, <1>4 DEF Begin, BeginDoes

\* What CopyCpu does.
CopyDoes(e, i, parts, t) ==
    /\ upc = "copy" /\ walk # <<>> /\ e \in Entries /\ i \in Cpus
    /\ entry[e] \in [Cpus -> PartOf(e)]
    /\ DOMAIN parts = 1 .. i /\ parts \in Seq(Words) /\ parts # <<>>
    /\ \A j \in 1 .. i : Bucketed(e, parts[j].epoch)
    /\ parts[i] = entry[e][i] /\ Len(buf) = i - 1 /\ \A j \in 1 .. i - 1 : parts[j] = buf[j]
    /\ t = (torn \/ (buf = <<>> /\ Storing(e)))
    /\ \/ /\ i < NCpus /\ buf' = parts /\ torn' = t
          /\ UNCHANGED <<upc, walk, series, seen>>
       \/ /\ i = NCpus /\ parts \in [Cpus -> PartOf(e)]
          /\ buf' = <<>> /\ torn' = FALSE /\ walk' = Tail(walk)
          /\ \/ upc' = "crashed" /\ UNCHANGED <<series, seen>>
             \/ /\ upc' = "copy" /\ series' = Emplace(e[1], reduce_tseries_value(parts))
                /\ seen' = IF t THEN seen
                           ELSE seen \cup {[at |-> e, samples |-> {s \in log : Where(s) = e}]}

\* CopyCpu does this.
LEMMA CopyFacts ==
    ASSUME TypeInv, CopyCpu, NEW e, e = Head(walk), NEW i, i = Len(buf) + 1,
           NEW parts, parts = Append(buf, entry[e][i]),
           NEW t, t = (torn \/ (buf = <<>> /\ Storing(e)))
    PROVE  CopyDoes(e, i, parts, t)
<1>1. /\ upc = "copy" /\ walk # <<>> /\ walk \in Seq(Entries)
      /\ buf \in Seq(Words) /\ Len(buf) < NCpus
      /\ buf # <<>> => \A j \in DOMAIN buf : Bucketed(e, buf[j].epoch)
      /\ \A j \in DOMAIN walk : entry[walk[j]] # Absent
  BY DEF CopyCpu, TypeInv, UserOK
<1>2. e \in Entries /\ entry[e] # Absent
  <2>1. 1 \in DOMAIN walk /\ e = walk[1]
    BY <1>1
  <2> QED BY <1>1, <2>1
<1>3. i \in Cpus /\ i \in Nat \ {0} /\ i <= NCpus /\ Len(buf) = i - 1
  BY <1>1, SeriesAssumption DEF Cpus
<1>4. entry[e] \in [Cpus -> PartOf(e)] /\ entry[e][i] \in Words /\ Bucketed(e, entry[e][i].epoch)
  BY <1>2, <1>3, EntryFacts DEF TypeInv
<1>5. /\ parts \in Seq(Words) /\ Len(parts) = i /\ DOMAIN parts = 1 .. i
      /\ parts[i] = entry[e][i] /\ \A j \in 1 .. i - 1 : parts[j] = buf[j]
  <2>1. PICK w : w = entry[e][i]
    OBVIOUS
  <2>2. w \in Words /\ parts = Append(buf, w)
    BY <1>4, <2>1
  <2> QED BY <1>1, <1>3, <2>1, <2>2
<1>6. parts # <<>>
  BY <1>3, <1>5
<1>7. \A j \in 1 .. i : Bucketed(e, parts[j].epoch)
  <2> TAKE j \in 1 .. i
  <2>1. CASE j = i
    BY <1>4, <1>5, <2>1
  <2>2. CASE j # i
    <3>1. j \in 1 .. i - 1
      BY <1>3, <2>2
    <3>2. j \in DOMAIN buf /\ buf # <<>>
      BY <1>1, <1>3, <3>1
    <3> QED BY <1>1, <1>5, <3>1, <3>2
  <2> QED BY <2>1, <2>2
<1>8. i = NCpus => parts \in [Cpus -> PartOf(e)]
  <2>1. \A j \in 1 .. i : parts[j] \in Words
    BY <1>5
  <2>2. \A j \in 1 .. i : parts[j] \in PartOf(e)
    BY <1>7, <2>1 DEF PartOf
  <2>3. parts = [j \in 1 .. i |-> parts[j]]
    BY <1>5
  <2> QED BY <2>2, <2>3 DEF Cpus
<1>9. /\ UNCHANGED log
      /\ \/ i < NCpus /\ buf' = parts /\ torn' = t /\ UNCHANGED <<upc, walk, series, seen>>
         \/ /\ ~(i < NCpus) /\ buf' = <<>> /\ walk' = Tail(walk) /\ torn' = FALSE
            /\ \/ upc' = "crashed" /\ UNCHANGED <<series, seen>>
               \/ /\ upc' = upc /\ series' = Emplace(e[1], reduce_tseries_value(parts))
                  /\ seen' = IF t THEN seen
                             ELSE seen \cup {[at |-> e, samples |-> {s \in log : Where(s) = e}]}
  BY <1>5 DEF CopyCpu, kernel
<1>10. i < NCpus \/ (i = NCpus /\ ~(i < NCpus))
  BY <1>3, SeriesAssumption
<1> QED BY <1>1, <1>2, <1>3, <1>4, <1>5, <1>6, <1>7, <1>8, <1>9, <1>10 DEF CopyDoes

-----------------------------------------------------------------------------
(***************************************************************************)
(* The walk, what is copied, and the samples.                              *)
(***************************************************************************)
\* What a program that has looked up does: it goes on with its call, or ends and may have
\* recorded its sample.
Goes(c) ==
    /\ prog[c].pc # "idle" /\ OthersStay(c) /\ prog'[c].pc # "missing"
    /\ prog'[c].pc # "idle" => /\ Sample(c, prog'[c]) = Sample(c, prog[c])
                               /\ Where(prog'[c]) = Where(prog[c])
                               /\ prog'[c].n = prog[c].n /\ prog'[c].now = prog[c].now
    /\ Where(prog[c]) \in Entries /\ Sample(c, prog[c]) \in SampleType
    /\ \/ log' = log
       \/ /\ log' = log \cup {Sample(c, prog[c])} /\ prog'[c].pc = "idle"
          /\ entry'[Where(prog[c])] # Absent
    /\ \A e \in Entries \ {Where(prog[c])} : entry'[e] = entry[e]
    /\ entry[Where(prog[c])] # Absent => entry'[Where(prog[c])] # Absent
\* Store and Insert do.
LEMMA GoesOn == ASSUME TypeInv, NEW c \in Cpus, Store(c) \/ Insert(c) PROVE Goes(c)
<1>1. PICK p, e : p = prog[c] /\ e = Where(p)
  OBVIOUS
<1>2. ASSUME NEW y, y.key = p.key, y.val = p.val, y.now = p.now, y.n = p.n
      PROVE  Sample(c, y) = Sample(c, p) /\ Where(y) = Where(p)
  BY <1>2 DEF Sample, Where
<1>3. CASE Store(c)
  <2>1. StoreDoes(c, p, e)
    BY <1>1, <1>3, StoreFacts
  <2>2. p.pc = "store" /\ p \in Programs /\ e \in Entries /\ OthersStay(c)
        /\ entry'[e] \in [Cpus -> PartOf(e)] /\ \A f \in Entries \ {e} : entry'[f] = entry[f]
    BY <2>1 DEF StoreDoes
  <2>3. entry'[e] # Absent
    BY <2>2, NotAbsent
  <2>4. Sample(c, p) \in SampleType
    BY <1>1, <2>2, ProgramFacts DEF TypeInv
  <2>5. CASE prog'[c] = Idle /\ log' = log \cup {Sample(c, p)}
    BY <1>1, <2>2, <2>3, <2>4, <2>5 DEF Goes, Idle
  <2>6. CASE prog'[c] = [p EXCEPT !.todo = Tail(p.todo)] /\ log' = log
    <3>1. PICK q : q = Tail(p.todo)
      OBVIOUS
    <3>2. prog'[c] = [p EXCEPT !.pc = "store", !.todo = q]
      BY <2>2, <2>6, <3>1 DEF Programs
    <3>3. PICK y : y = prog'[c]
      OBVIOUS
    <3>4. /\ y.pc = "store" /\ Sample(c, y) = Sample(c, p) /\ Where(y) = Where(p)
          /\ y.n = p.n /\ y.now = p.now
      <4>1. y.pc = "store" /\ y.n = p.n /\ y.now = p.now /\ y.key = p.key /\ y.val = p.val
        BY <2>2, <3>2, <3>3 DEF Programs
      <4>2. Sample(c, y) = Sample(c, p) /\ Where(y) = Where(p)
        BY <1>2, <4>1
      <4> QED BY <4>1, <4>2
    <3>5. log' = log
      BY <2>6
    <3> QED BY <1>1, <2>2, <2>3, <2>4, <3>3, <3>4, <3>5 DEF Goes
  <2> QED BY <2>1, <2>5, <2>6 DEF StoreDoes
<1>4. CASE Insert(c)
  <2>1. InsertDoes(c, p, e)
    BY <1>1, <1>4, InsertFacts
  <2>2. p.pc = "missing" /\ p \in Programs /\ e \in Entries /\ OthersStay(c)
        /\ \A f \in Entries \ {e} : entry'[f] = entry[f]
    BY <2>1 DEF InsertDoes
  <2>4. Sample(c, p) \in SampleType
    BY <1>1, <2>2, ProgramFacts DEF TypeInv
  <2>5. CASE entry[e] = Absent /\ prog'[c] = Idle
             /\ \/ log' = log \cup {Sample(c, p)} /\ entry'[e] \in [Cpus -> PartOf(e)]
                \/ log' = log
    <3>1. log' = log \/ (log' = log \cup {Sample(c, p)} /\ entry'[e] # Absent)
      BY <2>5, NotAbsent
    <3> QED BY <1>1, <2>2, <2>4, <2>5, <3>1 DEF Goes, Idle
  <2>6. CASE /\ entry[e] # Absent /\ entry' = entry /\ log' = log
             /\ prog'[c] = [p EXCEPT !.pc = "store", !.todo = prog'[c].todo]
    <3>1. PICK y, q : y = prog'[c] /\ q = prog'[c].todo
      OBVIOUS
    <3>2. y = [p EXCEPT !.pc = "store", !.todo = q]
      BY <2>6, <3>1
    <3>4. /\ y.pc = "store" /\ Sample(c, y) = Sample(c, p) /\ Where(y) = Where(p)
          /\ y.n = p.n /\ y.now = p.now
      <4>1. y.pc = "store" /\ y.n = p.n /\ y.now = p.now /\ y.key = p.key /\ y.val = p.val
        BY <2>2, <3>2 DEF Programs
      <4>2. Sample(c, y) = Sample(c, p) /\ Where(y) = Where(p)
        BY <1>2, <4>1
      <4> QED BY <4>1, <4>2
    <3>5. log' = log /\ entry' = entry /\ entry[e] # Absent
      BY <2>6
    <3> QED BY <1>1, <2>2, <2>4, <3>1, <3>4, <3>5 DEF Goes
  <2> QED BY <2>1, <2>5, <2>6 DEF InsertDoes
<1> QED BY <1>3, <1>4

Finite ==
    /\ \A e \in Entries : entry[e] # Absent => entry'[e] # Absent
    /\ IsFiniteSet(Present') /\ IsFiniteSet(log') /\ log' \subseteq SampleType
\* Entries stay, and they and the samples are finitely many.
LEMMA StaysFinite == ASSUME TypeInv, [Next]_vars PROVE Finite
<1>1. IsFiniteSet(Present) /\ IsFiniteSet(log) /\ log \subseteq SampleType
  BY DEF TypeInv, UserOK
<1>2. ASSUME entry' = entry, log' = log PROVE Finite
  BY <1>1, <1>2 DEF Finite, Present
<1>3. ASSUME NEW c \in Cpus, Goes(c) PROVE Finite
  <2>1. PICK e, x : e = Where(prog[c]) /\ x = Sample(c, prog[c])
    OBVIOUS
  <2>2. /\ \A f \in Entries : entry[f] # Absent => entry'[f] # Absent
        /\ Present' \subseteq Present \cup {e}
    BY <1>3, <2>1 DEF Goes, Present
  <2>3. log' \subseteq log \cup {x} /\ x \in SampleType
    BY <1>3, <2>1 DEF Goes
  <2>4. IsFiniteSet(Present \cup {e}) /\ IsFiniteSet(log \cup {x})
    BY <1>1, FS_AddElement
  <2>5. IsFiniteSet(Present') /\ IsFiniteSet(log')
    BY <2>2, <2>3, <2>4, FS_Subset
  <2> QED BY <1>1, <2>2, <2>3, <2>5 DEF Finite
<1>4. CASE ZeroCpu
  <2>1. PICK e : e = Head(walk)
    OBVIOUS
  <2>2. /\ entry'[e] \in [Cpus -> PartOf(e)] /\ e \in Entries /\ entry[e] \in [Cpus -> PartOf(e)]
        /\ \A f \in Entries \ {e} : entry'[f] = entry[f] /\ log' = {s \in log : Where(s) # e}
    BY <1>4, <2>1, ZeroFacts DEF ZeroDoes
  <2>3. entry'[e] # Absent /\ entry[e] # Absent
    BY <2>2, NotAbsent
  <2>4. (\A f \in Entries : entry[f] # Absent => entry'[f] # Absent) /\ Present' = Present
    BY <2>2, <2>3 DEF Present
  <2>5. log' \subseteq log
    BY <1>4 DEF ZeroCpu
  <2>6. IsFiniteSet(log')
    BY <1>1, <2>5, FS_Subset
  <2> QED BY <1>1, <2>4, <2>5, <2>6 DEF Finite
<1>5. CASE KernelStays
  BY <1>2, <1>5 DEF KernelStays
<1>6. ASSUME NEW c \in Cpus, NEW k \in Keys, NEW now \in time .. MaxTime, Lookup(c, k, now)
      PROVE  Finite
  BY <1>2, <1>6 DEF Lookup
<1>7. ASSUME NEW c \in Cpus, Store(c) \/ Insert(c) PROVE Finite
  BY <1>3, <1>7, GoesOn
<1> QED BY <1>4, <1>5, <1>6, <1>7, WhoSteps

\* The values of a key and an epoch added.
LEMMA Emplaced ==
    ASSUME UserOK, NEW k \in Keys, NEW r, r[1] \in Nat
    PROVE  /\ \A s \in Emplace(k, r) : s[1] \in Keys /\ s[2] \in Nat /\ s = <<s[1], s[2], s[3]>>
           /\ IsFiniteSet(Emplace(k, r))
<1>1. /\ \A s \in series : s[1] \in Keys /\ s[2] \in Nat /\ s = <<s[1], s[2], s[3]>>
      /\ IsFiniteSet(series)
  BY DEF UserOK
<1>2. PICK y : y = <<k, r[1], r[2]>>
  OBVIOUS
<1>3. y[1] = k /\ y[2] = r[1] /\ y = <<y[1], y[2], y[3]>>
  BY <1>2
<1>4. Emplace(k, r) = series \/ Emplace(k, r) = series \cup {y}
  BY <1>2 DEF Emplace
<1>5. IsFiniteSet(series \cup {y})
  BY <1>1, FS_AddElement
<1> QED BY <1>1, <1>3, <1>4, <1>5

\* The epoch of a reduced value is one of the words', and none is later.
LEMMA LatestEpoch ==
    ASSUME NEW e, NEW parts \in [Cpus -> PartOf(e)]
    PROVE  /\ reduce_tseries_value(parts)[1] = latest_epoch(parts)
           /\ latest_epoch(parts) \in Nat /\ Bucketed(e, latest_epoch(parts))
           /\ \E c \in Cpus : parts[c].epoch = latest_epoch(parts)
           /\ \A c \in Cpus : parts[c].epoch <= latest_epoch(parts)
<1> DEFINE E == {parts[c].epoch : c \in Cpus}
           f == [c \in Cpus |-> parts[c].epoch]
<1>1. \A c \in Cpus : parts[c].epoch \in Nat /\ Bucketed(e, parts[c].epoch)
  BY DEF PartOf, Words
<1>2. IsFiniteSet(Cpus) /\ 1 \in Cpus
  BY SeriesAssumption, FS_Interval DEF Cpus
<1>3. f \in Surjection(Cpus, E)
  BY DEF Surjection
<1>4. E \subseteq Nat /\ E # {}
  BY <1>1, <1>2
<1> HIDE DEF f
<1>5. IsFiniteSet(E)
  BY <1>2, <1>3, FS_Surjection
<1>6. latest_epoch(parts) = Max(E)
  BY DEF latest_epoch
<1>7. PICK m : m = Max(E)
  OBVIOUS
<1>8. m \in E /\ \A x \in E : x <= m
  <2> HIDE DEF E
  <2> QED BY <1>4, <1>5, <1>7, Bounds
<1>9. reduce_tseries_value(parts)[1] = m
  BY <1>6, <1>7 DEF reduce_tseries_value
<1> QED BY <1>1, <1>6, <1>7, <1>8, <1>9

\* The event loop's variables keep their types.
LEMMA UserStep == ASSUME TypeInv, [Next]_vars PROVE UserOK'
<1> USE DEF TypeInv
<1>1. /\ \A e \in Entries : entry[e] # Absent => entry'[e] # Absent
      /\ IsFiniteSet(Present') /\ IsFiniteSet(log') /\ log' \subseteq SampleType
  BY StaysFinite DEF Finite
<1>2. /\ walk \in Seq(Entries) /\ \A i, j \in DOMAIN walk : walk[i] = walk[j] => i = j
      /\ \A i \in DOMAIN walk : entry[walk[i]] # Absent
      /\ buf \in Seq(Words) /\ Len(buf) < NCpus /\ (upc = "idle" => buf = <<>>)
      /\ buf # <<>> => /\ walk # <<>>
                       /\ \A i \in DOMAIN buf : Bucketed(Head(walk), buf[i].epoch)
      /\ \A s \in series : s[1] \in Keys /\ s[2] \in Nat /\ s = <<s[1], s[2], s[3]>>
      /\ IsFiniteSet(series)
  BY DEF UserOK
<1>3. \A i \in DOMAIN walk : walk[i] \in Entries /\ entry'[walk[i]] # Absent
  BY <1>1, <1>2
<1>4. CASE walk' = walk /\ buf' = buf /\ series' = series /\ (upc' = "idle" => buf = <<>>)
  BY <1>1, <1>2, <1>3, <1>4 DEF UserOK
<1>5. ASSUME walk # <<>>, walk' = Tail(walk), buf' = <<>>, IsFiniteSet(series'),
             \A s \in series' : s[1] \in Keys /\ s[2] \in Nat /\ s = <<s[1], s[2], s[3]>>
      PROVE  UserOK'
  <2>1. PICK r : r = Tail(walk)
    OBVIOUS
  <2>2. /\ r \in Seq(Entries) /\ Range(r) \subseteq Range(walk)
        /\ \A i, j \in DOMAIN r : r[i] = r[j] => i = j
    BY <1>2, <1>5, <2>1, WalkOn
  <2>3. \A i \in DOMAIN r : entry'[r[i]] # Absent
    <3>1. \A x \in Range(walk) : entry'[x] # Absent
      BY <1>3 DEF Range
    <3> QED BY <2>2, <3>1 DEF Range
  <2>4. <<>> \in Seq(Words) /\ Len(<<>>) < NCpus
    BY SeriesAssumption
  <2> QED BY <1>1, <1>5, <2>1, <2>2, <2>3, <2>4 DEF UserOK
<1>6. ASSUME NEW o \in {"copy", "zero"}, Begin(o) PROVE UserOK'
  <2>1. BeginDoes(o)
    BY <1>6, BeginFacts
  <2>2. PICK q : q = walk'
    OBVIOUS
  <2>3. /\ q \in Seq(Entries) /\ \A i, j \in DOMAIN q : q[i] = q[j] => i = j
        /\ \A i \in DOMAIN q : q[i] \in Entries /\ entry'[q[i]] # Absent
        /\ buf' = <<>> /\ series' = {}
    BY <1>1, <1>2, <2>1, <2>2 DEF BeginDoes
  <2>4. <<>> \in Seq(Words) /\ Len(<<>>) < NCpus /\ IsFiniteSet({})
    BY SeriesAssumption, FS_EmptySet
  <2> QED BY <1>1, <2>2, <2>3, <2>4 DEF UserOK
<1>7. CASE CopyCpu
  <2>1. PICK e, i, parts, t : /\ e = Head(walk) /\ i = Len(buf) + 1
                              /\ parts = Append(buf, entry[e][i])
                              /\ t = (torn \/ (buf = <<>> /\ Storing(e)))
    OBVIOUS
  <2>2. CopyDoes(e, i, parts, t)
    BY <1>7, <2>1, CopyFacts
  <2>3. CASE /\ i < NCpus /\ buf' = parts /\ UNCHANGED <<upc, walk, series, seen>>
    <3>1. /\ parts \in Seq(Words) /\ Len(parts) = i /\ walk # <<>> /\ DOMAIN parts = 1 .. i
          /\ \A j \in 1 .. i : Bucketed(e, parts[j].epoch)
          /\ upc = "copy"
      BY <1>2, <2>1, <2>2 DEF CopyDoes
    <3> QED BY <1>1, <1>2, <1>3, <2>1, <2>3, <3>1 DEF UserOK
  <2>4. CASE /\ i = NCpus /\ parts \in [Cpus -> PartOf(e)] /\ buf' = <<>> /\ walk' = Tail(walk)
             /\ \/ upc' = "crashed" /\ UNCHANGED <<series, seen>>
                \/ upc' = "copy" /\ series' = Emplace(e[1], reduce_tseries_value(parts))
    <3>1. walk # <<>> /\ e[1] \in Keys
      BY <2>2 DEF CopyDoes, Entries
    <3>2. reduce_tseries_value(parts)[1] \in Nat
      BY <2>4, LatestEpoch
    <3>3. /\ IsFiniteSet(series')
          /\ \A s \in series' : s[1] \in Keys /\ s[2] \in Nat /\ s = <<s[1], s[2], s[3]>>
      <4>1. CASE series' = series
        BY <1>2, <4>1
      <4>2. CASE series' = Emplace(e[1], reduce_tseries_value(parts))
        BY <3>1, <3>2, <4>2, Emplaced
      <4> QED BY <2>4, <4>1, <4>2
    <3> QED BY <1>5, <2>4, <3>1, <3>3
  <2> QED BY <2>2, <2>3, <2>4 DEF CopyDoes
<1>8. CASE ZeroCpu
  <2>1. PICK e, i : e = Head(walk) /\ i = Len(buf) + 1
    OBVIOUS
  <2>2. ZeroDoes(e, i)
    BY <1>8, <2>1, ZeroFacts
  <2>3. CASE i < NCpus /\ buf' = Append(buf, ZeroPart) /\ Len(buf') = i /\ walk' = walk
    <3>1. upc' = "zero" /\ walk # <<>> /\ series' = series
      BY <2>2 DEF ZeroDoes
    <3>2. ZeroPart \in Words /\ Bucketed(e, ZeroPart.epoch)
      BY DEF ZeroPart, Words, Bucketed
    <3>3. PICK q : q = Append(buf, ZeroPart)
      OBVIOUS
    <3>4. q \in Seq(Words) /\ Len(q) = Len(buf) + 1 /\ \A j \in DOMAIN q :
              (j \in DOMAIN buf /\ q[j] = buf[j]) \/ q[j] = ZeroPart
      BY <1>2, <3>2, <3>3
    <3>5. \A j \in DOMAIN q : Bucketed(e, q[j].epoch)
      <4> TAKE j \in DOMAIN q
      <4>1. CASE q[j] = ZeroPart
        BY <3>2, <4>1
      <4>2. CASE j \in DOMAIN buf /\ q[j] = buf[j]
        BY <1>2, <2>1, <4>2
      <4> QED BY <3>4, <4>1, <4>2
    <3> QED BY <1>1, <1>2, <1>3, <2>1, <2>3, <3>1, <3>3, <3>4, <3>5 DEF UserOK
  <2>4. CASE buf' = <<>> /\ walk' = Tail(walk)
    <3>1. walk # <<>> /\ series' = series
      BY <2>2 DEF ZeroDoes
    <3> QED BY <1>2, <1>5, <2>4, <3>1
  <2> QED BY <2>2, <2>3, <2>4 DEF ZeroDoes
<1>9. ASSUME UserStays PROVE UserOK'
  BY <1>2, <1>4, <1>9 DEF UserStays
<1>10. CASE format
  BY <1>2, <1>4, <1>10 DEF format
<1>11. CASE ZeroEnd
  BY <1>2, <1>4, <1>11 DEF ZeroEnd
<1> QED BY <1>6, <1>7, <1>8, <1>9, <1>10, <1>11, WhoSteps

-----------------------------------------------------------------------------
(***************************************************************************)
(* Every call is one sample, and every entry tells its samples.            *)
(***************************************************************************)
LogStays == log' = log /\ hits' = hits /\ time' = time

\* What Calls says of the samples.
LEMMA SamplesAre ==
    ASSUME TypeInv, Calls, NEW s \in log
    PROVE  /\ s \in SampleType /\ Where(s) \in Entries /\ entry[Where(s)] # Absent
           /\ s.n <= hits /\ s.now <= time /\ s.n \in Nat /\ s.now \in Nat
<1>1. s \in SampleType
  BY DEF TypeInv, UserOK
<1>2. s.key \in Keys /\ s.now \in Nat /\ s.n \in Nat
  BY <1>1 DEF SampleType
<1> QED BY <1>1, <1>2, WhereFacts DEF Calls

\* Calls: a lookup is a new call, and a program records one sample.
LEMMA CallsStep == ASSUME TypeInv, Calls, [Next]_vars PROVE Calls'
<1>1. /\ \A e \in Entries : entry[e] # Absent => entry'[e] # Absent
  BY StaysFinite DEF Finite
<1>2. \A s \in log : Where(s) \in Entries /\ entry'[Where(s)] # Absent
  BY <1>1, SamplesAre
<1>3. /\ \A s \in log : s.n <= hits /\ s.now <= time /\ s.n \in Nat /\ s.now \in Nat
      /\ hits \in Nat /\ time \in Nat
  BY SamplesAre DEF TypeInv, KernelOK
<1>4. \A c \in Cpus : prog[c].pc # "idle" => prog[c].n \in Nat /\ prog[c].now \in Nat
  BY ProgramFacts DEF Programs, TypeInv
<1>5. ASSUME log' \subseteq log, hits' = hits, time' = time, prog' = prog PROVE Calls'
  BY <1>2, <1>5 DEF Calls
<1>6. ASSUME NEW c \in Cpus, NEW k \in Keys, NEW now \in time .. MaxTime, Lookup(c, k, now)
      PROVE  Calls'
  <2>1. PICK p : p = prog'[c]
    OBVIOUS
  <2>2. LookupDoes(c, now, p)
    BY <1>6, <2>1, LookupFacts DEF TypeInv
  <2>3. /\ OthersStay(c) /\ p.n = hits + 1 /\ p.now = now /\ hits' = hits + 1 /\ time' = now
        /\ now \in Nat /\ now >= time /\ prog[c].pc = "idle"
    BY <2>2 DEF LookupDoes
  <2>4. log' = log
    BY <1>6 DEF Lookup
  <2>5. \A s \in log' : s.n <= hits' /\ s.now <= time' /\ entry'[Where(s)] # Absent
    BY <1>2, <1>3, <2>3, <2>4
  <2>6. \A s, t \in log' : s.n = t.n => s = t
    BY <2>4 DEF Calls
  <2>7. ASSUME NEW d \in Cpus, prog'[d].pc # "idle"
        PROVE  /\ prog'[d].n <= hits' /\ prog'[d].now <= time'
               /\ \A s \in log' : s.n # prog'[d].n /\ (s.cpu = d => s.now <= prog'[d].now)
    <3>1. CASE d = c
      BY <1>3, <2>1, <2>3, <2>4, <3>1
    <3>2. CASE d # c
      <4>1. prog'[d] = prog[d]
        BY <2>3, <3>2 DEF OthersStay
      <4>2. /\ prog[d].n <= hits /\ prog[d].now <= time
            /\ \A s \in log : s.n # prog[d].n /\ (s.cpu = d => s.now <= prog[d].now)
        BY <2>7, <4>1 DEF Calls
      <4>3. prog[d].n \in Nat /\ prog[d].now \in Nat
        BY <1>4, <2>7, <4>1
      <4> QED BY <1>3, <2>3, <2>4, <4>1, <4>2, <4>3
    <3> QED BY <3>1, <3>2
  <2>8. ASSUME NEW d \in Cpus, prog'[d].pc # "idle", NEW b \in Cpus, prog'[b].pc # "idle",
               prog'[b].n = prog'[d].n
        PROVE  d = b
    <3>1. \A a \in Cpus : (prog'[a].pc # "idle" /\ a # c) =>
              prog'[a] = prog[a] /\ prog[a].n <= hits /\ prog[a].n \in Nat
      BY <1>4, <2>3 DEF OthersStay, Calls
    <3>2. CASE d = c \/ b = c
      <4>1. ASSUME NEW a \in Cpus, a # c, prog'[a].pc # "idle" PROVE prog'[a].n # p.n
        BY <1>3, <2>3, <3>1, <4>1
      <4> QED BY <2>1, <2>8, <3>2, <4>1
    <3>3. CASE d # c /\ b # c
      BY <2>8, <3>1, <3>3 DEF Calls
    <3> QED BY <3>2, <3>3
  <2> QED BY <2>5, <2>6, <2>7, <2>8 DEF Calls
<1>7. ASSUME NEW c \in Cpus, Goes(c), hits' = hits, time' = time PROVE Calls'
  <2>1. PICK p, x : p = prog[c] /\ x = Sample(c, p)
    OBVIOUS
  <2>2. x.n = p.n /\ x.now = p.now /\ x.cpu = c /\ Where(x) = Where(p)
    BY <2>1 DEF Sample, Where
  <2>3. /\ p.pc # "idle" /\ OthersStay(c)
        /\ prog'[c].pc # "idle" => prog'[c].n = p.n /\ prog'[c].now = p.now
        /\ \/ log' = log
           \/ log' = log \cup {x} /\ prog'[c].pc = "idle" /\ entry'[Where(p)] # Absent
    BY <1>7, <2>1 DEF Goes
  <2>4. \A d \in Cpus : prog'[d].pc # "idle" =>
            prog[d].pc # "idle" /\ prog'[d].n = prog[d].n /\ prog'[d].now = prog[d].now
    BY <2>1, <2>3 DEF OthersStay
  <2>5. p.n <= hits /\ p.now <= time /\ \A s \in log : s.n # p.n
    BY <2>1, <2>3 DEF Calls
  <2>6. \A s \in log' : s.n <= hits' /\ s.now <= time' /\ entry'[Where(s)] # Absent
    BY <1>2, <1>3, <1>7, <2>2, <2>3, <2>5
  <2>7. \A s, t \in log' : s.n = t.n => s = t
    BY <2>2, <2>3, <2>5 DEF Calls
  <2>8. ASSUME NEW d \in Cpus, prog'[d].pc # "idle"
        PROVE  /\ prog'[d].n <= hits' /\ prog'[d].now <= time'
               /\ \A s \in log' : s.n # prog'[d].n /\ (s.cpu = d => s.now <= prog'[d].now)
               /\ \A b \in Cpus : (prog'[b].pc # "idle" /\ prog'[b].n = prog'[d].n) => d = b
    <3>1. /\ prog[d].n <= hits /\ prog[d].now <= time
          /\ \A s \in log : s.n # prog[d].n /\ (s.cpu = d => s.now <= prog[d].now)
          /\ \A b \in Cpus : (prog[b].pc # "idle" /\ prog[b].n = prog[d].n) => d = b
      BY <2>4, <2>8 DEF Calls
    <3>2. \A b \in Cpus : (prog'[b].pc # "idle" /\ prog'[b].n = prog'[d].n) => d = b
      BY <2>4, <2>8, <3>1
    <3>3. ASSUME NEW s \in log' PROVE s.n # prog'[d].n /\ (s.cpu = d => s.now <= prog'[d].now)
      <4>1. CASE s \in log
        BY <2>4, <2>8, <3>1, <4>1
      <4>2. CASE s = x /\ prog'[c].pc = "idle"
        <5>1. d # c
          BY <2>8, <4>2
        <5>2. p.n # prog[d].n
          BY <2>1, <2>3, <3>1, <5>1
        <5> QED BY <2>2, <2>4, <2>8, <4>2, <5>1, <5>2
      <4> QED BY <2>3, <4>1, <4>2
    <3> QED BY <1>7, <2>4, <2>8, <3>1, <3>2, <3>3
  <2> QED BY <2>6, <2>7, <2>8 DEF Calls
<1>8. ASSUME NEW c \in Cpus, Store(c) \/ Insert(c), time' = time, hits' = hits PROVE Calls'
  BY <1>7, <1>8, GoesOn
<1>9. CASE KernelStays
  BY <1>5, <1>9 DEF KernelStays
<1>10. CASE ZeroCpu
  BY <1>5, <1>10 DEF ZeroCpu
<1> QED BY <1>6, <1>8, <1>9, <1>10, WhoSteps

\* The samples of a CPU in an entry when another CPU, or another entry, is concerned.
LEMMA OfStays ==
    ASSUME NEW c \in Cpus, Goes(c), NEW d \in Cpus, NEW e \in Entries,
           d # c \/ e # Where(prog[c])
    PROVE  Of(d, e)' = Of(d, e)
<1>1. PICK x : x = Sample(c, prog[c])
  OBVIOUS
<1>2. x.cpu = c /\ Where(x) = Where(prog[c])
  BY <1>1 DEF Sample, Where
<1>3. log' = log \/ log' = log \cup {x}
  BY <1>1 DEF Goes
<1> QED BY <1>2, <1>3 DEF Of

\* Fresh: a bucket that is missing has no samples.
LEMMA FreshStep == ASSUME TypeInv, Calls, Fresh, [Next]_vars PROVE Fresh'
<1>1. ASSUME log' \subseteq log, prog' = prog PROVE Fresh'
  BY <1>1 DEF Fresh, Of
<1>2. ASSUME NEW c \in Cpus, NEW k \in Keys, NEW now \in time .. MaxTime, Lookup(c, k, now)
      PROVE  Fresh'
  <2>1. PICK p : p = prog'[c]
    OBVIOUS
  <2>2. /\ OthersStay(c) /\ log' = log /\ (p.pc = "missing" => entry[Where(p)] = Absent)
    BY <1>2, <2>1, LookupFacts DEF LookupDoes, Lookup
  <2>3. \A s \in log : entry[Where(s)] # Absent
    BY SamplesAre
  <2>4. p.pc = "missing" => \A s \in log' : ~(s.cpu = c /\ Where(s) = Where(p))
    BY <2>2, <2>3
  <2>5. ASSUME NEW d \in Cpus, prog'[d].pc = "missing"
        PROVE  \A s \in log' : ~(s.cpu = d /\ Where(s) = Where(prog'[d]))
    <3>1. CASE d = c
      BY <2>1, <2>4, <2>5, <3>1
    <3>2. CASE d # c
      BY <2>2, <2>5, <3>2 DEF OthersStay, Fresh, Of
    <3> QED BY <3>1, <3>2
  <2> QED BY <2>5 DEF Fresh, Of
<1>3. ASSUME NEW c \in Cpus, Goes(c) PROVE Fresh'
  <2>1. PICK x : x = Sample(c, prog[c])
    OBVIOUS
  <2>2. x.cpu = c
    BY <2>1 DEF Sample
  <2>3. (log' = log \/ log' = log \cup {x}) /\ prog'[c].pc # "missing" /\ OthersStay(c)
    BY <1>3, <2>1 DEF Goes
  <2>4. ASSUME NEW d \in Cpus, prog'[d].pc = "missing"
        PROVE  \A s \in log' : ~(s.cpu = d /\ Where(s) = Where(prog'[d]))
    BY <2>2, <2>3, <2>4 DEF OthersStay, Fresh, Of
  <2> QED BY <2>4 DEF Fresh, Of
<1>4. ASSUME NEW c \in Cpus, Store(c) \/ Insert(c) PROVE Fresh'
  BY <1>3, <1>4, GoesOn
<1>5. CASE KernelStays
  BY <1>1, <1>5 DEF KernelStays
<1>6. CASE ZeroCpu
  BY <1>1, <1>6 DEF ZeroCpu
<1> QED BY <1>2, <1>4, <1>5, <1>6, WhoSteps

-----------------------------------------------------------------------------
(***************************************************************************)
(* Entries while they are zeroed.                                          *)
(***************************************************************************)
\* The entry the event loop is at.
LEMMA Visited ==
    ASSUME TypeInv, NEW e, Visits(e)
    PROVE  e \in Entries /\ entry[e] # Absent
<1>1. walk \in Seq(Entries) /\ walk # <<>> /\ e = Head(walk)
      /\ \A i \in DOMAIN walk : entry[walk[i]] # Absent
  BY DEF Visits, TypeInv, UserOK
<1>2. 1 \in DOMAIN walk /\ e = walk[1]
  BY <1>1
<1> QED BY <1>1, <1>2

\* Steps of programs leave the visit alone.
LEMMA VisitStays == ASSUME UserStays, NEW e PROVE (Visits(e)' <=> Visits(e)) /\ (Zeroing(e)' <=> Zeroing(e))
BY DEF UserStays, Visits, Zeroing

\* Only the zeroing of an entry goes on with it.
LEMMA NoZeroing ==
    ASSUME TypeInv, NEW e,
           \/ \E o \in {"copy", "zero"} : Begin(o)
           \/ CopyCpu \/ format \/ ZeroEnd
    PROVE  ~Zeroing(e) /\ ~Zeroing(e)'
<1>1. (upc = "idle" => buf = <<>>) /\ (buf # <<>> => walk # <<>>)
  BY DEF TypeInv, UserOK
<1>2. ASSUME NEW o, Begin(o) PROVE ~Zeroing(e) /\ ~Zeroing(e)'
  BY <1>1, <1>2 DEF Begin, Zeroing, Visits
<1>3. CASE CopyCpu
  <2>1. upc = "copy" /\ upc' \in {"copy", "crashed"}
    BY <1>3 DEF CopyCpu
  <2> QED BY <2>1 DEF Zeroing
<1>4. CASE format
  BY <1>4 DEF format, Zeroing
<1>5. CASE ZeroEnd
  BY <1>1, <1>5 DEF ZeroEnd, Zeroing, Visits
<1> QED BY <1>2, <1>3, <1>4, <1>5

\* Programs that go on in other entries are the same for this one.
LEMMA ElsewhereStays ==
    ASSUME NEW c \in Cpus, Goes(c), NEW d \in Cpus, NEW e, d # c \/ e # Where(prog[c])
    PROVE  prog'[d] = prog[d] \/ (~StoringAt(d, e) /\ ~StoringAt(d, e)')
<1>1. CASE d # c
  BY <1>1 DEF Goes, OthersStay
<1>2. CASE d = c /\ e # Where(prog[c])
  <2>1. prog'[c].pc # "idle" => Where(prog'[c]) = Where(prog[c])
    BY DEF Goes
  <2> QED BY <1>2, <2>1 DEF StoringAt
<1> QED BY <1>1, <1>2

Whole(w, q) == \A f \in FieldNames : To(q, f) /\ \E i : LastTo(q, f, i) /\ q[i][2] = w[f]
\* The words a bucket is inserted with are all to be stored.
LEMMA EveryField ==
    ASSUME NEW w, NEW q, q = [i \in 1 .. 3 |-> <<Fields[i], w[Fields[i]]>>]
    PROVE  Whole(w, q)
<1>1. /\ DOMAIN q = 1 .. 3 /\ q[1] = <<"val", w["val"]>> /\ q[2] = <<"meta", w["meta"]>>
      /\ q[3] = <<"epoch", w["epoch"]>>
  BY DEF Fields
<1>2. 1 .. 3 = {1, 2, 3}
  OBVIOUS
<1>3. LastTo(q, "val", 1) /\ LastTo(q, "meta", 2) /\ LastTo(q, "epoch", 3)
  BY <1>1, <1>2 DEF LastTo
<1>4. /\ q[1][2] = w["val"] /\ q[2][2] = w["meta"] /\ q[3][2] = w["epoch"]
  BY <1>1
<1> QED BY <1>3, <1>4 DEF FieldNames, To, LastTo, Whole

\* Emptied: samples come to an entry that is being zeroed from programs yet to store all.
LEMMA EmptiedStep == ASSUME TypeInv, Calls, Emptied, [Next]_vars PROVE Emptied'
<1> DEFINE All(d) == \A f \in FieldNames : \E i \in DOMAIN prog[d].todo : prog[d].todo[i][1] = f
<1>1. ASSUME UserStays, spoiled \subseteq spoiled',
             \A e \in Entries, d \in Cpus : (Zeroing(e) /\ e \notin spoiled') =>
                 /\ Of(d, e)' = Of(d, e)
                 /\ \/ prog'[d] = prog[d] \/ ~StoringAt(d, e)'
                    \/ \A f \in FieldNames : To(prog'[d].todo, f)
      PROVE  Emptied'
  <2>1. ASSUME NEW e \in Entries, e \notin spoiled', Zeroing(e)', NEW d \in Cpus
        PROVE  Of(d, e)' = {} /\ (StoringAt(d, e)' => All(d)')
    <3>1. Zeroing(e) /\ e \notin spoiled
      BY <1>1, <2>1, VisitStays
    <3>2. Of(d, e) = {} /\ (StoringAt(d, e) => All(d))
      BY <3>1 DEF Emptied
    <3>3. Of(d, e)' = {}
      BY <1>1, <2>1, <3>1, <3>2
    <3>4. ASSUME StoringAt(d, e)' PROVE All(d)'
      <4>1. CASE prog'[d] = prog[d]
        BY <3>2, <3>4, <4>1 DEF StoringAt
      <4>2. CASE \A f \in FieldNames : To(prog'[d].todo, f)
        BY <4>2 DEF To
      <4> QED BY <1>1, <2>1, <3>1, <3>4, <4>1, <4>2
    <3> QED BY <3>3, <3>4
  <2> QED BY <2>1 DEF Emptied
<1>2. ASSUME NEW c \in Cpus, NEW k \in Keys, NEW now \in time .. MaxTime, Lookup(c, k, now),
             UserStays
      PROVE  Emptied'
  <2>1. PICK p : p = prog'[c]
    OBVIOUS
  <2>2. LookupDoes(c, now, p) /\ log' = log
    BY <1>2, <2>1, LookupFacts DEF TypeInv, Lookup
  <2>3. OthersStay(c) /\ spoiled \subseteq spoiled' /\ (Zeroing(Where(p)) => Where(p) \in spoiled')
    BY <2>2 DEF LookupDoes
  <2>4. ASSUME NEW e \in Entries, NEW d \in Cpus, Zeroing(e), e \notin spoiled'
        PROVE  Of(d, e)' = Of(d, e) /\ (prog'[d] = prog[d] \/ ~StoringAt(d, e)')
    <3>1. Of(d, e)' = Of(d, e)
      BY <2>2 DEF Of
    <3>2. e # Where(p)
      BY <2>3, <2>4
    <3> QED BY <2>1, <2>3, <3>1, <3>2 DEF OthersStay, StoringAt
  <2> HIDE DEF All
  <2> QED BY <1>1, <1>2, <2>3, <2>4
<1>3. ASSUME NEW c \in Cpus, Store(c), UserStays PROVE Emptied'
  <2>1. PICK p, a : p = prog[c] /\ a = Where(p)
    OBVIOUS
  <2>2. StoreDoes(c, p, a) /\ Goes(c)
    BY <1>3, <2>1, StoreFacts, GoesOn
  <2>3. spoiled \subseteq spoiled' /\ (Zeroing(a) => a \in spoiled')
    BY <2>2 DEF StoreDoes
  <2>4. ASSUME NEW e \in Entries, NEW d \in Cpus, Zeroing(e), e \notin spoiled'
        PROVE  Of(d, e)' = Of(d, e) /\ (prog'[d] = prog[d] \/ ~StoringAt(d, e)')
    <3>1. e # Where(prog[c])
      BY <2>1, <2>3, <2>4
    <3> QED BY <2>2, <3>1, OfStays, ElsewhereStays
  <2> HIDE DEF All
  <2> QED BY <1>1, <1>3, <2>3, <2>4
<1>4. ASSUME NEW c \in Cpus, Insert(c), UserStays, spoiled' = spoiled PROVE Emptied'
  <2>1. PICK p, a : p = prog[c] /\ a = Where(p)
    OBVIOUS
  <2>2. InsertDoes(c, p, a) /\ Goes(c)
    BY <1>4, <2>1, InsertFacts, GoesOn
  <2>4. ASSUME NEW e \in Entries, NEW d \in Cpus, Zeroing(e), e \notin spoiled'
        PROVE  /\ Of(d, e)' = Of(d, e)
               /\ \/ prog'[d] = prog[d] \/ ~StoringAt(d, e)'
                  \/ \A f \in FieldNames : To(prog'[d].todo, f)
    <3>1. CASE d # c \/ e # a
      BY <2>1, <2>2, <3>1, OfStays, ElsewhereStays
    <3>2. CASE d = c /\ e = a
      <4>1. entry[e] # Absent
        BY <2>4, Visited DEF Zeroing
      <4>2. log' = log /\ prog'[c].todo = [i \in 1 .. 3 |-> <<Fields[i], New(p)[Fields[i]]>>]
        BY <2>2, <3>2, <4>1 DEF InsertDoes
      <4>3. \A f \in FieldNames : To(prog'[c].todo, f)
        BY <4>2, EveryField DEF Whole
      <4> QED BY <3>2, <4>2, <4>3 DEF Of
    <3> QED BY <3>1, <3>2
  <2> HIDE DEF All
  <2> QED BY <1>1, <1>4, <2>4
<1>5. CASE ZeroCpu
  <2>1. PICK h, i : h = Head(walk) /\ i = Len(buf) + 1
    OBVIOUS
  <2>2. ZeroDoes(h, i)
    BY <1>5, <2>1, ZeroFacts
  <2>3. ASSUME NEW e \in Entries, e \notin spoiled', Zeroing(e)', NEW d \in Cpus
        PROVE  Of(d, e)' = {} /\ (StoringAt(d, e)' => All(d)')
    <3>1. e = h /\ walk # <<>> /\ upc = "zero" /\ prog' = prog
      BY <2>1, <2>2, <2>3 DEF ZeroDoes, Zeroing, Visits
    <3>2. log' = {s \in log : Where(s) # h}
      BY <2>2 DEF ZeroDoes
    <3>3. Of(d, e)' = {}
      BY <3>1, <3>2 DEF Of
    <3>4. spoiled' = IF buf = <<>> /\ Storing(h) THEN spoiled \cup {h} ELSE spoiled
      BY <2>2 DEF ZeroDoes
    <3>5. ASSUME StoringAt(d, e) PROVE buf # <<>> /\ e \notin spoiled
      BY <2>3, <3>1, <3>4, <3>5 DEF Storing, StoringAt
    <3>6. ASSUME StoringAt(d, e) PROVE Zeroing(e) /\ e \notin spoiled
      BY <2>1, <3>1, <3>5, <3>6 DEF Zeroing, Visits
    <3>7. StoringAt(d, e) => All(d)
      BY <3>6 DEF Emptied
    <3>8. StoringAt(d, e)' => All(d)'
      BY <3>1, <3>7 DEF StoringAt
    <3> QED BY <3>3, <3>8
  <2> QED BY <2>3 DEF Emptied
<1>6. ASSUME \A e : ~Zeroing(e)' PROVE Emptied'
  BY <1>6 DEF Emptied
<1>7. CASE (\E o \in {"copy", "zero"} : Begin(o)) \/ CopyCpu \/ format \/ ZeroEnd
  <2>1. ASSUME NEW e PROVE ~Zeroing(e)'
    BY <1>7, NoZeroing
  <2> QED BY <1>6, <2>1
<1>8. ASSUME KernelStays, UserStays, spoiled' = spoiled PROVE Emptied'
  <2>1. \A e \in Entries, d \in Cpus : Of(d, e)' = Of(d, e) /\ prog'[d] = prog[d]
    BY <1>8 DEF KernelStays, Of
  <2> HIDE DEF All
  <2> QED BY <1>1, <1>8, <2>1
<1> QED BY <1>2, <1>3, <1>4, <1>5, <1>7, <1>8, WhoSteps

-----------------------------------------------------------------------------
(***************************************************************************)
(* Words tell their samples.                                               *)
(***************************************************************************)
\* Words nobody stored in, whose samples are the same.
LEMMA ExactKept ==
    ASSUME agg' = agg, NEW e \in Entries, NEW d \in Cpus, ExactAt(e, d), entry[e] # Absent,
           entry'[e][d] = entry[e][d], Of(d, e)' = Of(d, e),
           prog'[d] = prog[d] \/ (~StoringAt(d, e) /\ ~StoringAt(d, e)'),
           (Zeroing(e) /\ d > Len(buf)) => (Zeroing(e)' /\ d > Len(buf'))
    PROVE  ExactAt(e, d)'
<1>1. ASSUME StoringAt(d, e)'
      PROVE  Told(agg', Stored(entry'[e][d], prog'[d].todo), Of(d, e)' \cup {Sample(d, prog'[d])})
  <2>1. prog'[d] = prog[d] /\ StoringAt(d, e)
    BY <1>1 DEF StoringAt
  <2>2. Told(agg, Stored(entry[e][d], prog[d].todo), Of(d, e) \cup {Sample(d, prog[d])})
    BY <2>1 DEF ExactAt
  <2> QED BY <2>1, <2>2
<1>2. ASSUME ~StoringAt(d, e)', ~(Zeroing(e)' /\ d > Len(buf'))
      PROVE  Told(agg', entry'[e][d], Of(d, e)')
  <2>1. ~StoringAt(d, e)
    BY <1>2 DEF StoringAt
  <2>2. ~(Zeroing(e) /\ d > Len(buf))
    BY <1>2
  <2>3. Told(agg, entry[e][d], Of(d, e))
    BY <2>1, <2>2 DEF ExactAt
  <2> QED BY <2>3
<1>3. \/ ~StoringAt(d, e)'
      \/ Told(agg', Stored(entry'[e][d], prog'[d].todo), Of(d, e)' \cup {Sample(d, prog'[d])})
  BY <1>1
<1> QED BY <1>2, <1>3 DEF ExactAt

\* Exact after a lookup.
LEMMA ExactLookup ==
    ASSUME TypeInv, Calls, Exact, NEW c \in Cpus, NEW k \in Keys, NEW now \in time .. MaxTime,
           Lookup(c, k, now), UserStays, NEW e \in Entries, e \notin spoiled', NEW d \in Cpus
    PROVE  ExactAt(e, d)'
<1>1. PICK p : p = prog'[c]
  OBVIOUS
<1>2. LookupDoes(c, now, p) /\ log' = log /\ entry' = entry /\ agg' = agg
  BY <1>1, LookupFacts DEF TypeInv, Lookup
<1>3. /\ OthersStay(c) /\ prog[c].pc = "idle" /\ p \in Programs /\ p.n = hits + 1 /\ p.now = now
      /\ now >= time /\ now \in Nat /\ time \in Nat /\ hits \in Nat /\ Where(p) \in Entries
      /\ spoiled' = IF Zeroing(Where(p)) THEN spoiled \cup {Where(p)} ELSE spoiled
  BY <1>2 DEF LookupDoes
<1>4. ExactAt(e, d) /\ e \notin spoiled /\ Of(d, e)' = Of(d, e)
  BY <1>2, <1>3 DEF Exact, Of
<1>5. CASE entry[e] = Absent
  BY <1>2, <1>5 DEF ExactAt
<1>6. CASE entry[e] # Absent /\ (d # c \/ e # Where(p))
  <2>1. prog'[d] = prog[d] \/ (~StoringAt(d, e) /\ ~StoringAt(d, e)')
    BY <1>1, <1>3, <1>6 DEF OthersStay, StoringAt
  <2>2. (Zeroing(e) /\ d > Len(buf)) => (Zeroing(e)' /\ d > Len(buf'))
    BY VisitStays DEF UserStays
  <2> QED BY <1>2, <1>4, <1>6, <2>1, <2>2, ExactKept
<1>7. CASE entry[e] # Absent /\ d = c /\ e = Where(p)
  <2>1. p.pc = "store" /\ p.todo = Stores(entry[e][c], p.val, p.now)
    BY <1>2, <1>3, <1>7 DEF LookupDoes, Programs
  <2>2. Told(agg, entry[e][c], Of(c, e))
    <3>1. ~StoringAt(c, e) /\ ~Zeroing(e)
      BY <1>3, <1>7 DEF StoringAt
    <3> QED BY <1>4, <1>7, <3>1 DEF ExactAt
  <2>3. PICK x, w, S : x = Sample(c, p) /\ w = entry[e][c] /\ S = Of(c, e)
    OBVIOUS
  <2>4. /\ x.n = hits + 1 /\ x.now = now /\ x.val = p.val /\ x \in SampleType
    BY <1>3, <2>3 DEF Sample, SampleType, Programs
  <2>5. \A s \in S : s \in SampleType /\ s.n # x.n /\ s.now <= x.now
    <3> SUFFICES ASSUME NEW s \in log PROVE s \in SampleType /\ s.n # x.n /\ s.now <= x.now
      BY <2>3 DEF Of
    <3>1. s \in SampleType /\ s.n <= hits /\ s.now <= time /\ s.n \in Nat /\ s.now \in Nat
      BY SamplesAre
    <3> QED BY <1>3, <2>4, <3>1
  <2>6. IsFiniteSet(S) /\ w \in Words /\ x \notin S /\ S \subseteq SampleType
    <3>1. IsFiniteSet(log) /\ S \subseteq log
      BY <2>3 DEF TypeInv, UserOK, Of
    <3>2. w \in Words
      BY <1>7, <2>3, EntryFacts DEF TypeInv
    <3> QED BY <2>5, <3>1, <3>2, FS_Subset
  <2>7. agg \in AllAggs
    BY AggType DEF TypeInv
  <2>8. Told(agg, Stored(w, Stores(w, x.val, x.now)), S \cup {x})
    BY <2>2, <2>3, <2>4, <2>5, <2>6, <2>7, ToldMore
  <2>9. Told(agg', Stored(entry'[e][c], prog'[c].todo), Of(c, e)' \cup {Sample(c, prog'[c])})
    BY <1>1, <1>2, <1>3, <1>4, <1>7, <2>1, <2>3, <2>4, <2>8
  <2>10. StoringAt(c, e)'
    BY <1>1, <1>7, <2>1 DEF StoringAt
  <2> QED BY <1>7, <2>9, <2>10 DEF ExactAt
<1> QED BY <1>5, <1>6, <1>7

\* A program that goes on in another entry, or on another CPU, does not touch these words.
LEMMA ExactElsewhere ==
    ASSUME TypeInv, Exact, NEW c \in Cpus, Goes(c), UserStays, NEW e \in Entries, e \notin spoiled,
           NEW d \in Cpus, d # c \/ e # Where(prog[c]),
           entry'[e] = Absent <=> entry[e] = Absent, entry'[e][d] = entry[e][d]
    PROVE  ExactAt(e, d)'
<1>1. prog'[d] = prog[d] \/ (~StoringAt(d, e) /\ ~StoringAt(d, e)')
  BY ElsewhereStays
<1>2. Of(d, e)' = Of(d, e)
  BY OfStays
<1>3. (Zeroing(e) /\ d > Len(buf)) => (Zeroing(e)' /\ d > Len(buf'))
  BY VisitStays DEF UserStays
<1>4. ExactAt(e, d) /\ agg' = agg
  BY DEF Exact, UserStays
<1>5. CASE entry[e] = Absent
  BY <1>5 DEF ExactAt
<1>6. CASE entry[e] # Absent
  BY <1>1, <1>2, <1>3, <1>4, <1>6, ExactKept
<1> QED BY <1>5, <1>6

\* Exact after a store: what is left to store ends in the same words.
LEMMA ExactStore ==
    ASSUME TypeInv, Exact, NEW c \in Cpus, Store(c), UserStays,
           NEW e \in Entries, e \notin spoiled', NEW d \in Cpus
    PROVE  ExactAt(e, d)'
<1>1. PICK p, a : p = prog[c] /\ a = Where(p)
  OBVIOUS
<1>2. StoreDoes(c, p, a) /\ Goes(c) /\ agg' = agg
  BY <1>1, StoreFacts, GoesOn DEF UserStays
<1>3. /\ p.pc = "store" /\ p \in Programs /\ a \in Entries /\ entry[a] \in [Cpus -> PartOf(a)]
      /\ entry'[a] \in [Cpus -> PartOf(a)] /\ \A f \in Entries \ {a} : entry'[f] = entry[f]
      /\ \A b \in Cpus \ {c} : entry'[a][b] = entry[a][b]
      /\ p.todo \in Seq(StoreType) /\ p.todo # <<>> /\ entry[a][c] \in Words
      /\ entry'[a][c] = [entry[a][c] EXCEPT ![p.todo[1][1]] = p.todo[1][2]]
      /\ spoiled' = IF Zeroing(a) THEN spoiled \cup {a} ELSE spoiled
  BY <1>2 DEF StoreDoes
<1>4. entry[a] # Absent /\ entry'[a] # Absent
  BY <1>3, NotAbsent
<1>5. e \notin spoiled
  BY <1>3
<1>6. CASE d # c \/ e # a
  <2>1. (entry'[e] = Absent <=> entry[e] = Absent) /\ entry'[e][d] = entry[e][d]
    BY <1>3, <1>4, <1>6
  <2> QED BY <1>1, <1>2, <1>5, <1>6, <2>1, ExactElsewhere
<1>7. CASE d = c /\ e = a
  <2>1. PICK w, u, q, r, S, x : /\ w = entry[a][c] /\ u = entry'[a][c] /\ q = p.todo /\ r = Tail(q)
                                /\ S = Of(c, a) /\ x = Sample(c, p)
    OBVIOUS
  <2>2. Told(agg, Stored(w, q), S \cup {x})
    BY <1>1, <1>3, <1>4, <1>5, <1>7, <2>1 DEF Exact, ExactAt, StoringAt
  <2>3. /\ u \in Words /\ u = [w EXCEPT ![q[1][1]] = q[1][2]] /\ w \in Words
        /\ q \in Seq(StoreType) /\ q # <<>>
    BY <1>3, <2>1 DEF PartOf
  <2>4. Stored(u, r) = Stored(w, q)
    BY <2>1, <2>3, StoredOn
  <2>5. Told(agg, Stored(u, r), S \cup {x})
    BY <2>2, <2>4
  <2>6. CASE r = <<>> /\ prog'[c] = Idle /\ log' = log \cup {x}
    <3>1. Stored(u, r) = u
      <4>1. r \in Seq(StoreType)
        BY <2>6
      <4> QED BY <2>3, <2>6, <4>1, StoredOn
    <3>2. x.cpu = c /\ Where(x) = a
      BY <1>1, <2>1 DEF Sample, Where
    <3>3. Of(c, a)' = S \cup {x}
      BY <2>1, <2>6, <3>2 DEF Of
    <3>4. Told(agg', entry'[e][c], Of(c, e)')
      BY <1>2, <1>7, <2>1, <2>5, <3>1, <3>3
    <3>5. ~StoringAt(c, e)'
      BY <2>6 DEF StoringAt, Idle
    <3> QED BY <1>7, <3>4, <3>5 DEF ExactAt
  <2>7. CASE r # <<>> /\ prog'[c] = [p EXCEPT !.todo = r] /\ log' = log
    <3>1. PICK y : y = prog'[c]
      OBVIOUS
    <3>2. y.todo = r /\ y.pc = "store" /\ Sample(c, y) = x /\ Where(y) = a
      <4>1. /\ y.todo = r /\ y.pc = "store" /\ y.key = p.key /\ y.now = p.now /\ y.n = p.n
            /\ y.val = p.val
        BY <1>3, <2>7, <3>1 DEF Programs
      <4> QED BY <1>1, <2>1, <4>1 DEF Sample, Where
    <3>3. Of(c, a)' = S
      BY <2>1, <2>7 DEF Of
    <3>4. Told(agg', Stored(entry'[e][c], prog'[c].todo), Of(c, e)' \cup {Sample(c, prog'[c])})
      BY <1>2, <1>7, <2>1, <2>5, <3>1, <3>2, <3>3
    <3>5. StoringAt(c, e)'
      BY <1>7, <3>1, <3>2 DEF StoringAt
    <3> QED BY <1>7, <3>4, <3>5 DEF ExactAt
  <2> QED BY <1>2, <2>1, <2>6, <2>7 DEF StoreDoes
<1> QED BY <1>6, <1>7

\* Exact after an insertion.
LEMMA ExactInsert ==
    ASSUME TypeInv, Calls, Exact, Fresh, NEW c \in Cpus, Insert(c), UserStays, spoiled' = spoiled,
           NEW e \in Entries, e \notin spoiled, NEW d \in Cpus
    PROVE  ExactAt(e, d)'
<1>1. PICK p, a : p = prog[c] /\ a = Where(p)
  OBVIOUS
<1>2. InsertDoes(c, p, a) /\ Goes(c) /\ agg' = agg
  BY <1>1, InsertFacts, GoesOn DEF UserStays
<1>3. /\ p.pc = "missing" /\ p \in Programs /\ a \in Entries /\ OthersStay(c)
      /\ New(p) \in PartOf(a) /\ Told(agg, New(p), {Sample(c, p)})
      /\ \A f \in Entries \ {a} : entry'[f] = entry[f]
  BY <1>2 DEF InsertDoes
<1>4. Of(c, a) = {}
  BY <1>1, <1>3 DEF Fresh
<1>5. CASE entry' = entry /\ (d # c \/ e # a)
  BY <1>1, <1>2, <1>5, ExactElsewhere
<1>6. CASE e # a
  <2>1. entry'[e] = entry[e]
    BY <1>3, <1>6
  <2> QED BY <1>1, <1>2, <1>6, <2>1, ExactElsewhere
<1>7. CASE d = c /\ e = a /\ entry[a] = Absent /\ entry' = entry
  BY <1>7 DEF ExactAt
<1>8. CASE /\ d = c /\ e = a /\ entry[a] # Absent /\ entry' = entry /\ log' = log
           /\ prog'[c] = [p EXCEPT !.pc = "store", !.todo = prog'[c].todo]
           /\ prog'[c].todo = [i \in 1 .. 3 |-> <<Fields[i], New(p)[Fields[i]]>>]
  <2>1. PICK y, q, w, n : y = prog'[c] /\ q = prog'[c].todo /\ w = entry[a][c] /\ n = New(p)
    OBVIOUS
  <2>2. y = [p EXCEPT !.pc = "store", !.todo = q]
    BY <1>8, <2>1
  <2>3. /\ y.pc = "store" /\ Sample(c, y) = Sample(c, p) /\ Where(y) = a /\ y.todo = q
    <3>1. /\ y.todo = q /\ y.pc = "store" /\ y.key = p.key /\ y.now = p.now /\ y.n = p.n
          /\ y.val = p.val
      BY <1>3, <2>2 DEF Programs
    <3> QED BY <1>1, <3>1 DEF Sample, Where
  <2>4. w \in Words /\ n \in Words
    BY <1>3, <1>8, <2>1, EntryFacts DEF TypeInv, PartOf
  <2>5. q = [i \in 1 .. 3 |-> <<Fields[i], n[Fields[i]]>>]
    BY <1>8, <2>1
  <2>6. Whole(n, q)
    BY <2>5, EveryField
  <2>7. q \in Seq(StoreType)
    <3>1. \A f \in FieldNames : n[f] \in Nat
      BY <2>4 DEF Words, FieldNames
    <3>2. \A i \in 1 .. 3 : Fields[i] \in FieldNames
      BY DEF Fields, FieldNames
    <3>3. \A i \in 1 .. 3 : q[i] \in StoreType
      BY <2>5, <3>1, <3>2 DEF StoreType
    <3> QED BY <2>5, <3>3
  <2>8. Stored(w, q) = n
    <3>1. Stored(w, q) \in Words /\ \A f \in FieldNames : Stored(w, q)[f] = n[f]
      BY <2>4, <2>6, <2>7, StoredFacts DEF Whole
    <3> QED BY <2>4, <3>1, SameWords
  <2>9. Of(c, a)' = {}
    BY <1>4, <1>8 DEF Of
  <2>10. Told(agg', Stored(entry'[e][c], prog'[c].todo), Of(c, e)' \cup {Sample(c, prog'[c])})
    BY <1>2, <1>3, <1>8, <2>1, <2>3, <2>8, <2>9
  <2>11. StoringAt(c, e)'
    BY <1>8, <2>1, <2>3 DEF StoringAt
  <2> QED BY <1>8, <2>10, <2>11 DEF ExactAt
<1>9. CASE /\ e = a /\ entry[a] = Absent /\ prog'[c] = Idle /\ log' = log \cup {Sample(c, p)}
           /\ entry'[a] = [b \in Cpus |-> IF b = c THEN New(p) ELSE ZeroPart]
  <2>1. PICK x : x = Sample(c, p)
    OBVIOUS
  <2>2. x.cpu = c /\ Where(x) = a
    BY <1>1, <2>1 DEF Sample, Where
  <2>3. \A s \in log : Where(s) # a
    BY <1>9, SamplesAre
  <2>4. Of(d, a)' = IF d = c THEN {x} ELSE {}
    BY <1>9, <2>1, <2>2, <2>3 DEF Of
  <2>5. Told(agg', entry'[e][d], Of(d, e)')
    <3>1. CASE d = c
      BY <1>2, <1>3, <1>9, <2>1, <2>4, <3>1
    <3>2. CASE d # c
      <4>1. Told(agg', ZeroPart, {})
        BY DEF Told
      <4> QED BY <1>9, <2>4, <3>2, <4>1
    <3> QED BY <3>1, <3>2
  <2>6. ~StoringAt(d, e)'
    <3>1. CASE d = c
      BY <1>9, <3>1 DEF StoringAt, Idle
    <3>2. CASE d # c
      <4>1. prog'[d] = prog[d]
        BY <1>3, <3>2 DEF OthersStay
      <4>2. prog[d].pc = "store" => entry[Where(prog[d])] # Absent
        BY ProgramFacts DEF TypeInv
      <4> QED BY <1>9, <4>1, <4>2 DEF StoringAt
    <3> QED BY <3>1, <3>2
  <2> QED BY <2>5, <2>6 DEF ExactAt
<1> QED BY <1>2, <1>5, <1>6, <1>7, <1>8, <1>9 DEF InsertDoes

\* Exact while the words of an entry become zeroes.
LEMMA ExactZero ==
    ASSUME TypeInv, Exact, Emptied, ZeroCpu, NEW e \in Entries, e \notin spoiled', NEW d \in Cpus
    PROVE  ExactAt(e, d)'
<1>1. PICK h, i : h = Head(walk) /\ i = Len(buf) + 1
  OBVIOUS
<1>2. ZeroDoes(h, i)
  BY <1>1, ZeroFacts
<1>3. /\ upc = "zero" /\ upc' = "zero" /\ walk # <<>> /\ h \in Entries /\ i \in Cpus
      /\ entry[h] \in [Cpus -> PartOf(h)] /\ entry'[h] \in [Cpus -> PartOf(h)]
      /\ \A f \in Entries \ {h} : entry'[f] = entry[f]
      /\ entry'[h][i] = ZeroPart /\ \A b \in Cpus \ {i} : entry'[h][b] = entry[h][b]
      /\ log' = {s \in log : Where(s) # h}
      /\ spoiled' = IF buf = <<>> /\ Storing(h) THEN spoiled \cup {h} ELSE spoiled
      /\ agg' = agg /\ prog' = prog
  BY <1>2 DEF ZeroDoes
<1>4. e \notin spoiled /\ ExactAt(e, d)
  BY <1>3 DEF Exact
<1>5. entry[h] # Absent /\ entry'[h] # Absent
  BY <1>3, NotAbsent
<1>6. CASE e # h
  <2>1. entry'[e] = entry[e] /\ Of(d, e)' = Of(d, e) /\ ~Zeroing(e)
    BY <1>1, <1>3, <1>6 DEF Of, Zeroing, Visits
  <2>2. CASE entry[e] = Absent
    BY <2>1, <2>2 DEF ExactAt
  <2>3. CASE entry[e] # Absent
    BY <1>3, <1>4, <2>1, <2>3, ExactKept
  <2> QED BY <2>2, <2>3
<1>7. CASE e = h
  <2>1. Of(d, e)' = {}
    BY <1>3, <1>7 DEF Of
  <2>2. buf # <<>> => Zeroing(e)
    BY <1>1, <1>3, <1>7 DEF Zeroing, Visits
  <2>3. ASSUME StoringAt(d, e)
        PROVE  Told(agg', Stored(entry'[e][d], prog'[d].todo), Of(d, e)' \cup {Sample(d, prog'[d])})
    <3>1. buf # <<>>
      BY <1>3, <1>7, <2>3 DEF Storing, StoringAt
    <3>2. /\ Zeroing(e) /\ Of(d, e) = {}
          /\ \A f \in FieldNames : To(prog[d].todo, f)
      BY <1>4, <2>2, <2>3, <3>1 DEF Emptied, To
    <3>3. PICK w, u, q : w = entry[e][d] /\ u = entry'[e][d] /\ q = prog[d].todo
      OBVIOUS
    <3>4. w \in Words /\ u \in Words
      BY <1>3, <1>7, <3>3 DEF PartOf
    <3>5. q \in Seq(StoreType)
      BY <2>3, <3>3, ProgramFacts DEF StoringAt, TypeInv
    <3>6. Stored(u, q) = Stored(w, q)
      <4>1. \A f \in FieldNames : To(q, f)
        BY <3>2, <3>3
      <4>2. \A v \in Words : Stored(v, q) = Stored(w, q)
        BY <3>4, <3>5, <4>1, StoredOn
      <4> QED BY <3>4, <4>2
    <3>7. Told(agg, Stored(w, q), Of(d, e) \cup {Sample(d, prog[d])})
      BY <1>4, <1>5, <1>7, <2>3, <3>3 DEF ExactAt
    <3> QED BY <1>3, <2>1, <3>2, <3>3, <3>6, <3>7
  <2>4. ASSUME ~StoringAt(d, e), ~(Zeroing(e)' /\ d > Len(buf')) PROVE Told(agg', entry'[e][d], {})
    <3>1. i \in Nat /\ d \in Nat /\ d <= NCpus /\ Len(buf) = i - 1
      <4>1. Len(buf) \in Nat
        BY DEF TypeInv, UserOK
      <4> QED BY <1>1, <1>3, <4>1, SeriesAssumption DEF Cpus
    <3>2. d <= i
      <4>1. CASE i = NCpus
        BY <3>1, <4>1
      <4>2. CASE buf' # <<>> /\ Len(buf') = i /\ walk' = walk
        <5>1. Zeroing(e)'
          BY <1>1, <1>3, <1>7, <4>2 DEF Zeroing, Visits
        <5> QED BY <2>4, <3>1, <4>2, <5>1
      <4> QED BY <1>2, <4>1, <4>2 DEF ZeroDoes
    <3>3. CASE d = i
      <4>1. Told(agg', ZeroPart, {})
        BY DEF Told
      <4> QED BY <1>3, <1>7, <3>3, <4>1
    <3>4. CASE d < i
      <4>1. d <= Len(buf) /\ d >= 1
        BY <3>1, <3>4 DEF Cpus
      <4>2. buf # <<>> /\ ~(d > Len(buf))
        BY <3>1, <4>1
      <4>3. Zeroing(e) /\ Of(d, e) = {}
        BY <1>4, <2>2, <4>2 DEF Emptied
      <4>4. Told(agg, entry[e][d], Of(d, e))
        BY <1>4, <1>5, <1>7, <2>4, <4>2 DEF ExactAt
      <4>5. entry'[e][d] = entry[e][d]
        BY <1>3, <1>7, <3>1, <3>4
      <4> QED BY <1>3, <4>3, <4>4, <4>5
    <3> QED BY <3>1, <3>2, <3>3, <3>4
  <2>5. StoringAt(d, e)' <=> StoringAt(d, e)
    BY <1>3 DEF StoringAt
  <2>6. (~StoringAt(d, e)' /\ ~(Zeroing(e)' /\ d > Len(buf'))) => Told(agg', entry'[e][d], Of(d, e)')
    BY <2>1, <2>4, <2>5
  <2>7. StoringAt(d, e)' => Told(agg', Stored(entry'[e][d], prog'[d].todo),
                                 Of(d, e)' \cup {Sample(d, prog'[d])})
    BY <2>3, <2>5
  <2> QED BY <2>6, <2>7 DEF ExactAt
<1> QED BY <1>6, <1>7

\* Exact: whatever is interleaved, entries that were not spoiled tell their samples.
LEMMA ExactStep == ASSUME TypeInv, Calls, Exact, Fresh, Emptied, [Next]_vars PROVE Exact'
<1> SUFFICES ASSUME NEW e \in Entries, e \notin spoiled', NEW d \in Cpus PROVE ExactAt(e, d)'
  BY DEF Exact
<1>1. ASSUME KernelStays, spoiled' = spoiled,
             (Zeroing(e) /\ d > Len(buf)) => (Zeroing(e)' /\ d > Len(buf'))
      PROVE  ExactAt(e, d)'
  <2>1. /\ entry' = entry /\ prog' = prog /\ agg' = agg /\ Of(d, e)' = Of(d, e)
        /\ ExactAt(e, d)
    BY <1>1 DEF KernelStays, Of, Exact
  <2>2. CASE entry[e] = Absent
    BY <2>1, <2>2 DEF ExactAt
  <2>3. CASE entry[e] # Absent
    BY <1>1, <2>1, <2>3, ExactKept
  <2> QED BY <2>2, <2>3
<1>2. CASE /\ KernelStays /\ spoiled' = spoiled
           /\ (\E o \in {"copy", "zero"} : Begin(o)) \/ CopyCpu \/ format \/ ZeroEnd
  <2>1. ~Zeroing(e)
    BY <1>2, NoZeroing
  <2> QED BY <1>1, <1>2, <2>1
<1>3. CASE KernelStays /\ UserStays /\ spoiled' = spoiled
  BY <1>1, <1>3, VisitStays DEF UserStays
<1>4. CASE UserStays /\ \E c \in Cpus : \E k \in Keys : \E now \in time .. MaxTime : Lookup(c, k, now)
  BY <1>4, ExactLookup
<1>5. CASE UserStays /\ \E c \in Cpus : Store(c)
  BY <1>5, ExactStore
<1>6. CASE UserStays /\ spoiled' = spoiled /\ \E c \in Cpus : Insert(c)
  BY <1>6, ExactInsert
<1>7. CASE ZeroCpu
  BY <1>7, ExactZero
<1> QED BY <1>2, <1>3, <1>4, <1>5, <1>6, <1>7, WhoSteps

-----------------------------------------------------------------------------
(***************************************************************************)
(* What is copied, and what is collected.                                  *)
(***************************************************************************)
\* The words of every CPU tell its samples.
AllTold(e) == \A c \in Cpus : Told(agg, entry[e][c], Of(c, e))

\* An entry no program stores in, and that is not being zeroed.
LEMMA ToldNow ==
    ASSUME TypeInv, Exact, NEW e \in Entries, e \notin spoiled, entry[e] # Absent,
           upc # "zero", ~Storing(e)
    PROVE  AllTold(e)
<1>1. \A c \in Cpus : ~StoringAt(c, e) /\ ~Zeroing(e)
  BY DEF Storing, StoringAt, Zeroing
<1> QED BY <1>1 DEF Exact, ExactAt, AllTold

\* Copied after a copy: nothing has changed since the first CPU was copied.
LEMMA CopiedNow ==
    ASSUME TypeInv, Exact, Copied, NEW e, NEW i, NEW parts, NEW t, CopyDoes(e, i, parts, t),
           e = Head(walk), ~t
    PROVE  /\ \A j \in 1 .. i : parts[j] = entry[e][j]
           /\ e \notin spoiled => AllTold(e)
<1>1. /\ upc = "copy" /\ walk # <<>> /\ e \in Entries /\ i \in Cpus /\ parts[i] = entry[e][i]
      /\ Len(buf) = i - 1 /\ (\A j \in 1 .. i - 1 : parts[j] = buf[j])
      /\ ~torn /\ ~(buf = <<>> /\ Storing(e)) /\ entry[e] \in [Cpus -> PartOf(e)]
  BY DEF CopyDoes
<1>2. i \in Nat \ {0}
  BY <1>1 DEF Cpus
<1>3. buf \in Seq(Words)
  BY DEF TypeInv, UserOK
<1>4. CASE buf = <<>>
  <2>1. i = 1
    BY <1>1, <1>2, <1>4
  <2>2. \A j \in 1 .. i : parts[j] = entry[e][j]
    BY <1>1, <2>1
  <2>3. entry[e] # Absent
    BY <1>1, NotAbsent
  <2> QED BY <1>1, <1>4, <2>2, <2>3, ToldNow
<1>5. CASE buf # <<>>
  <2>1. (\A j \in DOMAIN buf : buf[j] = entry[e][j]) /\ (e \notin spoiled => AllTold(e))
    BY <1>1, <1>5 DEF Copied, AllTold
  <2>2. DOMAIN buf = 1 .. i - 1
    BY <1>1, <1>3
  <2>3. ASSUME NEW j \in 1 .. i PROVE parts[j] = entry[e][j]
    <3>1. j = i \/ j \in 1 .. i - 1
      BY <1>2
    <3> QED BY <1>1, <2>1, <2>2, <3>1
  <2> QED BY <2>1, <2>3
<1> QED BY <1>4, <1>5

\* Copied: a store while an entry is copied makes the copy torn.
LEMMA CopiedStep == ASSUME TypeInv, Calls, Exact, Copied, [Next]_vars PROVE Copied'
<1>1. ASSUME UserStays, spoiled \subseteq spoiled',
             \A e \in Entries : (upc = "copy" /\ Visits(e) /\ ~torn') =>
                 /\ ~torn /\ entry'[e] = entry[e] /\ \A c \in Cpus : Of(c, e)' = Of(c, e)
      PROVE  Copied'
  <2> SUFFICES ASSUME upc' = "copy", buf' # <<>>, ~torn', NEW e, e = Head(walk')
               PROVE  /\ \A i \in DOMAIN buf' : buf'[i] = entry'[e][i]
                      /\ e \notin spoiled' => \A c \in Cpus : Told(agg', entry'[e][c], Of(c, e)')
    BY DEF Copied
  <2>1. upc = "copy" /\ buf # <<>> /\ e = Head(walk) /\ buf' = buf /\ agg' = agg
    BY <1>1 DEF UserStays
  <2>2. walk # <<>>
    BY <2>1 DEF TypeInv, UserOK
  <2>3. Visits(e)
    BY <2>1, <2>2 DEF Visits
  <2>4. e \in Entries
    BY <2>3, Visited
  <2>5. ~torn /\ entry'[e] = entry[e] /\ \A c \in Cpus : Of(c, e)' = Of(c, e)
    BY <1>1, <2>1, <2>3, <2>4
  <2>6. /\ \A i \in DOMAIN buf : buf[i] = entry[e][i]
        /\ e \notin spoiled => \A c \in Cpus : Told(agg, entry[e][c], Of(c, e))
    BY <2>1, <2>5 DEF Copied
  <2> QED BY <1>1, <2>1, <2>5, <2>6
<1>2. ASSUME NEW c \in Cpus, NEW k \in Keys, NEW now \in time .. MaxTime, Lookup(c, k, now),
             UserStays
      PROVE  Copied'
  <2>1. entry' = entry /\ log' = log /\ torn' = torn /\ spoiled \subseteq spoiled'
    BY <1>2 DEF Lookup
  <2>2. \A e \in Entries, d \in Cpus : Of(d, e)' = Of(d, e)
    BY <2>1 DEF Of
  <2> QED BY <1>1, <1>2, <2>1, <2>2
<1>3. ASSUME NEW c \in Cpus, Store(c), UserStays PROVE Copied'
  <2>1. PICK p, a : p = prog[c] /\ a = Where(p)
    OBVIOUS
  <2>2. StoreDoes(c, p, a) /\ Goes(c)
    BY <1>3, <2>1, StoreFacts, GoesOn
  <2>3. /\ torn' = (torn \/ (upc = "copy" /\ Visits(a))) /\ spoiled \subseteq spoiled'
        /\ \A f \in Entries \ {a} : entry'[f] = entry[f]
    BY <2>2 DEF StoreDoes
  <2>4. ASSUME NEW e \in Entries, upc = "copy", Visits(e), ~torn'
        PROVE  ~torn /\ entry'[e] = entry[e] /\ \A d \in Cpus : Of(d, e)' = Of(d, e)
    <3>1. e # a /\ ~torn
      BY <2>3, <2>4
    <3> QED BY <2>1, <2>2, <2>3, <3>1, OfStays
  <2> QED BY <1>1, <1>3, <2>3, <2>4
<1>4. ASSUME NEW c \in Cpus, Insert(c), UserStays, torn' = torn, spoiled' = spoiled PROVE Copied'
  <2>1. PICK p, a : p = prog[c] /\ a = Where(p)
    OBVIOUS
  <2>2. InsertDoes(c, p, a) /\ Goes(c)
    BY <1>4, <2>1, InsertFacts, GoesOn
  <2>4. ASSUME NEW e \in Entries, upc = "copy", Visits(e), ~torn'
        PROVE  ~torn /\ entry'[e] = entry[e] /\ \A d \in Cpus : Of(d, e)' = Of(d, e)
    <3>1. entry[e] # Absent
      BY <2>4, Visited
    <3>2. CASE e # a
      BY <1>4, <2>1, <2>2, <2>4, <3>2, OfStays DEF Goes
    <3>3. CASE e = a
      BY <1>4, <2>2, <2>4, <3>1, <3>3 DEF InsertDoes, Of
    <3> QED BY <3>2, <3>3
  <2> QED BY <1>1, <1>4, <2>4
<1>5. CASE KernelStays /\ spoiled' = spoiled /\ CopyCpu
  <2>1. PICK e, i, parts, t : /\ e = Head(walk) /\ i = Len(buf) + 1
                              /\ parts = Append(buf, entry[e][i])
                              /\ t = (torn \/ (buf = <<>> /\ Storing(e)))
    OBVIOUS
  <2>2. CopyDoes(e, i, parts, t)
    BY <1>5, <2>1, CopyFacts DEF TypeInv
  <2>3. CASE buf' = <<>>
    BY <2>3 DEF Copied
  <2>4. CASE buf' = parts /\ torn' = t /\ walk' = walk
    <3> SUFFICES ASSUME ~torn'
                 PROVE  /\ \A j \in DOMAIN buf' : buf'[j] = entry'[e][j]
                        /\ e \notin spoiled' => \A c \in Cpus : Told(agg', entry'[e][c], Of(c, e)')
      BY <2>1, <2>4 DEF Copied
    <3>1. (\A j \in 1 .. i : parts[j] = entry[e][j]) /\ (e \notin spoiled => AllTold(e))
      BY <2>1, <2>2, <2>4, CopiedNow
    <3>2. DOMAIN parts = 1 .. i
      BY <2>2 DEF CopyDoes
    <3>3. entry' = entry /\ agg' = agg /\ \A c \in Cpus : Of(c, e)' = Of(c, e)
      BY <1>5 DEF KernelStays, Of
    <3> QED BY <1>5, <2>4, <3>1, <3>2, <3>3 DEF AllTold
  <2> QED BY <2>2, <2>3, <2>4 DEF CopyDoes
<1>6. CASE ZeroCpu
  BY <1>6 DEF ZeroCpu, Copied
<1>7. ASSUME NEW o, Begin(o) PROVE Copied'
  <2>1. buf' = <<>>
    BY <1>7 DEF Begin, TypeInv, UserOK
  <2> QED BY <2>1 DEF Copied
<1>8. CASE format \/ ZeroEnd
  <2>1. upc' # "copy"
    BY <1>8 DEF format, ZeroEnd
  <2> QED BY <2>1 DEF Copied
<1>9. CASE KernelStays /\ UserStays /\ torn' = torn /\ spoiled' = spoiled
  <2>1. \A e \in Entries, d \in Cpus : Of(d, e)' = Of(d, e)
    BY <1>9 DEF Of, KernelStays
  <2> QED BY <1>1, <1>9, <2>1 DEF KernelStays
<1> QED BY <1>2, <1>3, <1>4, <1>5, <1>6, <1>7, <1>8, <1>9, WhoSteps

\* The walk goes on or stays, except when an event begins.
LEMMA WalkSteps ==
    ASSUME TypeInv, [Next]_vars, ~\E o \in {"copy", "zero"} : Begin(o)
    PROVE  Range(walk') \subseteq Range(walk) /\ agg' = agg /\ spoiled \subseteq spoiled'
<1>1. ASSUME walk # <<>>, walk' = Tail(walk) PROVE Range(walk') \subseteq Range(walk)
  <2>1. walk \in Seq(Entries) /\ \A i, j \in DOMAIN walk : walk[i] = walk[j] => i = j
    BY DEF TypeInv, UserOK
  <2> QED BY <1>1, <2>1, WalkOn
<1>2. CASE UserStays /\ spoiled \subseteq spoiled'
  BY <1>2 DEF UserStays
<1>6. ASSUME NEW c \in Cpus, NEW k \in Keys, NEW now \in time .. MaxTime, Lookup(c, k, now)
      PROVE  spoiled \subseteq spoiled'
  BY <1>6 DEF Lookup
<1>7. ASSUME NEW c \in Cpus, Store(c) PROVE spoiled \subseteq spoiled'
  BY <1>7 DEF Store
<1>3. CASE CopyCpu
  <2>1. walk # <<>> /\ (walk' = walk \/ walk' = Tail(walk)) /\ agg' = agg /\ spoiled' = spoiled
    BY <1>3 DEF CopyCpu
  <2> QED BY <1>1, <2>1
<1>4. CASE format \/ ZeroEnd
  BY <1>4 DEF format, ZeroEnd
<1>5. CASE ZeroCpu
  <2>1. walk # <<>> /\ (walk' = walk \/ walk' = Tail(walk)) /\ agg' = agg /\ spoiled \subseteq spoiled'
    BY <1>5 DEF ZeroCpu
  <2> QED BY <1>1, <2>1
<1> QED BY <1>2, <1>3, <1>4, <1>5, <1>6, <1>7, WhoSteps

\* Series and the entries seen change only when an event begins or an entry was copied.
LEMMA SeriesSteps ==
    ASSUME [Next]_vars, ~\E o \in {"copy", "zero"} : Begin(o), ~CopyCpu
    PROVE  series' = series /\ seen' = seen
BY WhoSteps DEF UserStays, format, ZeroEnd, ZeroCpu

\* What an entry that was copied adds to the series.
Adds(e, y) ==
    /\ e \in Range(walk) /\ e = <<e[1], e[2]>> /\ y[1] = e[1] /\ y[2] \in Nat
    /\ y[2] = 0 \/ (y[2] >= NumIntervals /\ y[2] % NumIntervals = e[2])
    /\ y[2] # 0 => series' = series \cup {y}
    /\ \/ series' = series \cup {y} /\ \A s \in series : ~(s[1] = y[1] /\ s[2] = y[2])
       \/ series' = series
    /\ \E s \in series' : s[1] = e[1]

\* An epoch counted in the bucket has no value of its key yet.
LEMMA Added ==
    ASSUME TypeInv, Collected, NEW e, NEW i, NEW parts, NEW t, CopyDoes(e, i, parts, t),
           e = Head(walk), series' = Emplace(e[1], reduce_tseries_value(parts)),
           parts \in [Cpus -> PartOf(e)], NEW y,
           y = <<e[1], reduce_tseries_value(parts)[1], reduce_tseries_value(parts)[2]>>
    PROVE  Adds(e, y)
<1>1. PICK r : r = reduce_tseries_value(parts)
  OBVIOUS
<1>2. y = <<e[1], r[1], r[2]>> /\ y[1] = e[1] /\ y[2] = r[1]
  BY <1>1
<1>3. r[1] \in Nat /\ Bucketed(e, r[1])
  BY <1>1, LatestEpoch
<1>4. e \in Entries /\ walk # <<>>
  BY DEF CopyDoes
<1>5. e \in Range(walk)
  BY <1>4, WalkOn DEF TypeInv, UserOK
<1>6. e = <<e[1], e[2]>>
  BY <1>4 DEF Entries
<1>7. ASSUME NEW s \in series, s[1] = y[1], s[2] = y[2], s[2] # 0 PROVE FALSE
  <2>1. <<s[1], s[2] % NumIntervals>> \notin Range(walk)
    BY <1>7 DEF Collected
  <2> QED BY <1>2, <1>3, <1>5, <1>6, <1>7, <2>1 DEF Bucketed
<1>8. series' = IF \E s \in series : s[1] = y[1] /\ s[2] = y[2] THEN series ELSE series \cup {y}
  BY <1>1, <1>2 DEF Emplace
<1>9. y[2] # 0 => series' = series \cup {y}
  BY <1>7, <1>8
<1>10. \E s \in series' : s[1] = e[1]
  BY <1>2, <1>8
<1> QED BY <1>2, <1>3, <1>5, <1>6, <1>8, <1>9, <1>10 DEF Bucketed, Adds

\* Collected: an epoch of a key has one value.
LEMMA CollectedStep == ASSUME TypeInv, Collected, [Next]_vars PROVE Collected'
<1>1. CASE \E o \in {"copy", "zero"} : Begin(o)
  BY <1>1 DEF Begin, Collected
<1>2. CASE ~(\E o \in {"copy", "zero"} : Begin(o)) /\ series' = series
  BY <1>2, WalkSteps DEF Collected
<1>3. CASE CopyCpu
  <2>1. PICK e, i, parts, t : /\ e = Head(walk) /\ i = Len(buf) + 1
                              /\ parts = Append(buf, entry[e][i])
                              /\ t = (torn \/ (buf = <<>> /\ Storing(e)))
    OBVIOUS
  <2>2. CopyDoes(e, i, parts, t)
    BY <1>3, <2>1, CopyFacts DEF TypeInv
  <2>3. CASE /\ series' = Emplace(e[1], reduce_tseries_value(parts))
             /\ parts \in [Cpus -> PartOf(e)] /\ walk' = Tail(walk)
    <3>1. PICK y : y = <<e[1], reduce_tseries_value(parts)[1], reduce_tseries_value(parts)[2]>>
      OBVIOUS
    <3>2. /\ e \in Range(walk) /\ e = <<e[1], e[2]>> /\ y[1] = e[1] /\ y[2] \in Nat
          /\ y[2] = 0 \/ (y[2] >= NumIntervals /\ y[2] % NumIntervals = e[2])
          /\ series' = series \cup {y} \/ series' = series
          /\ \/ series' = series
             \/ \A s \in series : ~(s[1] = y[1] /\ s[2] = y[2])
      <4>1. Adds(e, y)
        BY <2>1, <2>2, <2>3, <3>1, Added
      <4> QED BY <4>1 DEF Adds
    <3>3. Range(walk') = Range(walk) \ {e}
      <4>1. walk # <<>> /\ walk \in Seq(Entries)
            /\ \A j, k \in DOMAIN walk : walk[j] = walk[k] => j = k
        BY <2>2 DEF CopyDoes, TypeInv, UserOK
      <4> QED BY <2>1, <2>3, <4>1, WalkOn
    <3>4. \A s, u \in series' : (s[1] = u[1] /\ s[2] = u[2]) => s = u
      BY <3>2 DEF Collected
    <3>5. ASSUME NEW s \in series'
          PROVE  s[2] = 0 \/ (s[2] >= NumIntervals
                              /\ <<s[1], s[2] % NumIntervals>> \notin Range(walk'))
      <4>1. CASE s \in series
        BY <3>3, <4>1 DEF Collected
      <4>2. CASE s = y
        BY <3>2, <3>3, <4>2
      <4> QED BY <3>2, <4>1, <4>2
    <3> QED BY <3>4, <3>5 DEF Collected
  <2>4. CASE series' = series
    <3>1. ~(\E o \in {"copy", "zero"} : Begin(o))
      BY <1>3 DEF Begin, CopyCpu
    <3> QED BY <1>2, <2>4, <3>1
  <2> QED BY <2>2, <2>3, <2>4 DEF CopyDoes
<1> QED BY <1>1, <1>2, <1>3, SeriesSteps

-----------------------------------------------------------------------------
(***************************************************************************)
(* The entries copied whole.                                               *)
(***************************************************************************)
\* A value that was reduced stays the only one of its epochs.
LEMMA ReducedKept ==
    ASSUME agg' = agg, NEW x, NEW parts, Reduced(x, parts), series \subseteq series',
           \A s \in series' \ series :
               ~(s[1] = x.at[1] /\ s[2] # 0 /\ s[2] % NumIntervals = x.at[2])
    PROVE  Reduced(x, parts)'
<1>1. PICK r : r = reduce_tseries_value(parts)
  OBVIOUS
<1>2. r = reduce_tseries_value(parts)'
  BY <1>1 DEF reduce_tseries_value
<1>3. /\ \A c \in Cpus : Told(agg, parts[c], {s \in x.samples : s.cpu = c})
      /\ r[1] # 0 => <<x.at[1], r[1], r[2]>> \in series
      /\ \A s \in series : (s[1] = x.at[1] /\ s[2] # 0 /\ s[2] % NumIntervals = x.at[2])
                              => s = <<x.at[1], r[1], r[2]>>
  BY <1>1 DEF Reduced
<1>4. /\ \A c \in Cpus : Told(agg', parts[c], {s \in x.samples : s.cpu = c})
      /\ r[1] # 0 => <<x.at[1], r[1], r[2]>> \in series'
      /\ \A s \in series' : (s[1] = x.at[1] /\ s[2] # 0 /\ s[2] % NumIntervals = x.at[2])
                              => s = <<x.at[1], r[1], r[2]>>
  BY <1>3
<1> QED BY <1>2, <1>4 DEF Reduced

\* An entry seen before stays as it is.
LEMMA TakenKept ==
    ASSUME agg' = agg, NEW x, TakenAt(x), Range(walk') \subseteq Range(walk),
           spoiled \subseteq spoiled', series \subseteq series',
           \A s \in series' \ series :
               ~(s[1] = x.at[1] /\ s[2] # 0 /\ s[2] % NumIntervals = x.at[2])
    PROVE  TakenAt(x)'
<1>1. x.at \notin spoiled' => \E parts \in [Cpus -> PartOf(x.at)] : Reduced(x, parts)'
  <2> SUFFICES ASSUME x.at \notin spoiled'
               PROVE  \E parts \in [Cpus -> PartOf(x.at)] : Reduced(x, parts)'
    OBVIOUS
  <2>1. PICK parts \in [Cpus -> PartOf(x.at)] : Reduced(x, parts)
    BY DEF TakenAt
  <2>2. Reduced(x, parts)'
    BY <2>1, ReducedKept
  <2> QED BY <2>2
<1> QED BY <1>1 DEF TakenAt

\* Taken: the last CPU of an entry is copied, and the entry is reduced.
LEMMA TakenStep == ASSUME TypeInv, Exact, Copied, Collected, Taken, [Next]_vars PROVE Taken'
<1>1. CASE \E o \in {"copy", "zero"} : Begin(o)
  BY <1>1 DEF Begin, Taken
<1>2. ASSUME ~(\E o \in {"copy", "zero"} : Begin(o)), series' = series, seen' = seen
      PROVE  Taken'
  <2> SUFFICES ASSUME NEW x \in seen' PROVE TakenAt(x)'
    BY DEF Taken
  <2>1. TakenAt(x) /\ agg' = agg /\ Range(walk') \subseteq Range(walk) /\ spoiled \subseteq spoiled'
    BY <1>2, WalkSteps DEF Taken
  <2> QED BY <1>2, <2>1, TakenKept
<1>3. ASSUME CopyCpu, KernelStays, spoiled' = spoiled PROVE Taken'
  <2>1. PICK e, i, parts, t : /\ e = Head(walk) /\ i = Len(buf) + 1
                              /\ parts = Append(buf, entry[e][i])
                              /\ t = (torn \/ (buf = <<>> /\ Storing(e)))
    OBVIOUS
  <2>2. CopyDoes(e, i, parts, t)
    BY <1>3, <2>1, CopyFacts DEF TypeInv
  <2>3. ~(\E o \in {"copy", "zero"} : Begin(o))
    BY <1>3 DEF Begin, CopyCpu
  <2>4. CASE series' = series /\ seen' = seen
    BY <1>2, <2>3, <2>4
  <2>5. CASE /\ i = NCpus /\ parts \in [Cpus -> PartOf(e)] /\ walk' = Tail(walk)
             /\ series' = Emplace(e[1], reduce_tseries_value(parts))
             /\ seen' = IF t THEN seen
                        ELSE seen \cup {[at |-> e, samples |-> {s \in log : Where(s) = e}]}
    <3>1. PICK r, y, new : /\ r = reduce_tseries_value(parts) /\ y = <<e[1], r[1], r[2]>>
                           /\ new = [at |-> e, samples |-> {s \in log : Where(s) = e}]
      OBVIOUS
    <3>2. Adds(e, y)
      BY <2>1, <2>2, <2>5, <3>1, Added
    <3>3. /\ e \in Range(walk) /\ e = <<e[1], e[2]>> /\ y[1] = e[1] /\ y[2] \in Nat /\ y[2] = r[1]
          /\ y[2] = 0 \/ y[2] % NumIntervals = e[2]
          /\ y[2] # 0 => series' = series \cup {y}
          /\ series' = series \cup {y} \/ series' = series
          /\ \E s \in series' : s[1] = e[1]
      BY <3>1, <3>2 DEF Adds
    <3>4. e \in Entries /\ Range(walk') = Range(walk) \ {e}
      <4>1. walk # <<>> /\ walk \in Seq(Entries) /\ e \in Entries
            /\ \A j, k \in DOMAIN walk : walk[j] = walk[k] => j = k
        BY <2>2 DEF CopyDoes, TypeInv, UserOK
      <4> QED BY <2>1, <2>5, <4>1, WalkOn
    <3>5. ASSUME NEW x \in seen PROVE TakenAt(x)'
      <4>1. TakenAt(x)
        BY DEF Taken
      <4>2. x.at # e /\ x.at = <<x.at[1], x.at[2]>>
        <5>1. x.at \in Entries \ Range(walk)
          BY <4>1 DEF TakenAt
        <5> QED BY <3>3, <5>1 DEF Entries
      <4>3. ~(y[1] = x.at[1] /\ y[2] # 0 /\ y[2] % NumIntervals = x.at[2])
        BY <3>3, <4>2
      <4>4. agg' = agg
        BY <1>3 DEF KernelStays
      <4> QED BY <1>3, <3>3, <3>4, <4>1, <4>3, <4>4, TakenKept
    <3>6. ASSUME ~t PROVE TakenAt(new)'
      <4>1. new.at = e /\ new.samples = {s \in log : Where(s) = e}
        BY <3>1
      <4>2. new.samples \subseteq SampleType /\ IsFiniteSet(new.samples)
        <5>1. log \subseteq SampleType /\ IsFiniteSet(log) /\ new.samples \subseteq log
          BY <4>1 DEF TypeInv, UserOK
        <5> QED BY <5>1, FS_Subset
      <4>3. ASSUME e \notin spoiled PROVE Reduced(new, parts)'
        <5>1. (\A j \in 1 .. i : parts[j] = entry[e][j]) /\ AllTold(e)
          BY <2>1, <2>2, <3>6, <4>3, CopiedNow
        <5>2. ASSUME NEW c \in Cpus
              PROVE  Told(agg', parts[c], {s \in new.samples : s.cpu = c})
          <6>1. parts[c] = entry[e][c]
            BY <2>5, <5>1 DEF Cpus
          <6>2. {s \in new.samples : s.cpu = c} = Of(c, e)
            BY <4>1 DEF Of
          <6>3. agg' = agg
            BY <1>3 DEF KernelStays
          <6> QED BY <5>1, <6>1, <6>2, <6>3 DEF AllTold
        <5>3. ASSUME NEW s \in series', s[1] = e[1], s[2] # 0, s[2] % NumIntervals = e[2]
              PROVE  s = y
          <6>1. s \notin series
            <7>1. s \in series => s[2] = 0 \/ <<s[1], s[2] % NumIntervals>> \notin Range(walk)
              BY DEF Collected
            <7> QED BY <3>3, <5>3, <7>1
          <6> QED BY <3>3, <5>3, <6>1
        <5>4. r[1] # 0 => y \in series'
          BY <3>3
        <5>5. r = reduce_tseries_value(parts)'
          <6>1. agg' = agg
            BY <1>3 DEF KernelStays
          <6> QED BY <3>1, <6>1 DEF reduce_tseries_value
        <5> HIDE DEF Told
        <5> QED BY <3>1, <4>1, <5>2, <5>3, <5>4, <5>5 DEF Reduced
      <4>4. new.at \in Entries \ Range(walk') /\ \A s \in new.samples : Where(s) = new.at
        BY <3>4, <4>1
      <4>5. new.at \notin spoiled' => \E q \in [Cpus -> PartOf(new.at)] : Reduced(new, q)'
        BY <1>3, <2>5, <4>1, <4>3
      <4>6. \E s \in series' : s[1] = new.at[1]
        BY <3>3, <4>1
      <4> QED BY <4>2, <4>4, <4>5, <4>6 DEF TakenAt
    <3> QED BY <2>5, <3>1, <3>5, <3>6 DEF Taken
  <2> QED BY <2>2, <2>4, <2>5 DEF CopyDoes
<1>4. CASE CopyCpu
  BY <1>3, <1>4 DEF CopyCpu, KernelStays, kernel
<1> QED BY <1>1, <1>2, <1>4, SeriesSteps

-----------------------------------------------------------------------------
(***************************************************************************)
(* The reduced value over the CPUs.                                        *)
(***************************************************************************)
On(L, c) == {s \in L : s.cpu = c}

\* The words of the CPUs cs hold the samples L.
Held(parts, cs, L) ==
    /\ cs \subseteq Cpus /\ cs # {} /\ IsFiniteSet(cs)
    /\ L \subseteq SampleType /\ IsFiniteSet(L) /\ L # {}
    /\ \A s \in L : s.cpu \in cs
    /\ \A c \in cs : parts[c] \in Words /\ On(L, c) # {} /\ Hold(agg, parts[c], On(L, c))

\* Sums and counts add up over the CPUs.
LEMMA HeldSums ==
    ASSUME NEW parts, NEW cs, NEW L, Held(parts, cs, L), agg \in {"sum", "avg"}
    PROVE  /\ ValSum(parts, cs) = SumVal(L)
           /\ agg = "avg" => MetaSum(parts, cs) = Cardinality(L)
<1>1. IsFiniteSet(cs) /\ IsFiniteSet(L) /\ L \subseteq SampleType /\ \A s \in L : s.cpu \in cs
  BY DEF Held
<1>2. Valued(L)
  BY <1>1 DEF Valued, SampleType
<1>3. ASSUME NEW c \in cs
      PROVE  /\ On(L, c) \in SUBSET L
             /\ parts[c].val = SumVal(On(L, c))
             /\ agg = "avg" => parts[c].meta = Cardinality(On(L, c))
  BY DEF Held, Hold, On, SumVal
<1>4. L = {s \in L : s.cpu \in cs}
  BY <1>1
<1>5. ValSum(parts, cs) = SumVal(L)
  <2>1. PICK m : m = [A \in SUBSET L |-> SumVal(A)]
    OBVIOUS
  <2>2. Additive(m, L)
    BY <1>2, <2>1, SumsAreAdditive
  <2>3. PICK v : v = [c \in cs |-> parts[c].val]
    OBVIOUS
  <2>4. PICK g : Sums(g, v, cs) /\ ValSum(parts, cs) = g[cs]
    <3>1. \E g : /\ Sums(g, [c \in cs |-> parts[c].val], cs)
                 /\ ValSum(parts, cs) = g[cs]
      BY <1>1, FoldsAreSums
    <3> QED BY <2>3, <3>1
  <2>5. \A c \in cs : v[c] = m[On(L, c)]
    BY <1>3, <2>1, <2>3
  <2>6. Split(v, m, L, cs)
    BY <2>5 DEF On, Split
  <2>7. g[cs] = m[{s \in L : s.cpu \in cs}]
    BY <1>1, <2>2, <2>4, <2>6, ByCpu
  <2>8. m[L] = SumVal(L)
    BY <2>1
  <2> QED BY <1>4, <2>4, <2>7, <2>8
<1>6. ASSUME agg = "avg" PROVE MetaSum(parts, cs) = Cardinality(L)
  <2>1. PICK m : m = [A \in SUBSET L |-> Cardinality(A)]
    OBVIOUS
  <2>2. Additive(m, L)
    BY <1>2, <2>1, SumsAreAdditive
  <2>3. PICK v : v = [c \in cs |-> parts[c].meta]
    OBVIOUS
  <2>4. PICK g : Sums(g, v, cs) /\ MetaSum(parts, cs) = g[cs]
    <3>1. \E g : /\ Sums(g, [c \in cs |-> parts[c].meta], cs)
                 /\ MetaSum(parts, cs) = g[cs]
      BY <1>1, FoldsAreSums
    <3> QED BY <2>3, <3>1
  <2>5. \A c \in cs : v[c] = m[On(L, c)]
    BY <1>3, <1>6, <2>1, <2>3
  <2>6. Split(v, m, L, cs)
    BY <2>5 DEF On, Split
  <2>7. g[cs] = m[{s \in L : s.cpu \in cs}]
    BY <1>1, <2>2, <2>4, <2>6, ByCpu
  <2>8. m[L] = Cardinality(L)
    BY <2>1
  <2> QED BY <1>4, <2>4, <2>7, <2>8
<1> QED BY <1>5, <1>6

\* The image of a finite set.
LEMMA ImageFinite ==
    ASSUME NEW S, IsFiniteSet(S), NEW f, DOMAIN f = S
    PROVE  IsFiniteSet({f[x] : x \in S})
<1>1. PICK T : T = {f[x] : x \in S}
  OBVIOUS
<1>2. PICK h : h = [x \in S |-> f[x]]
  OBVIOUS
<1>3. h \in Surjection(S, T)
  BY <1>1, <1>2 DEF Surjection
<1>4. IsFiniteSet(T)
  BY <1>3, FS_Surjection
<1> QED BY <1>1, <1>4

\* The values of words and of samples.
ValsOf(parts, cs) == {parts[c].val : c \in cs}
SampleVals(L) == {s.val : s \in L}

\* They are finitely many numbers.
LEMMA ValsFinite ==
    ASSUME NEW parts, NEW cs, NEW L, Held(parts, cs, L)
    PROVE  /\ ValsOf(parts, cs) \subseteq Nat /\ ValsOf(parts, cs) # {}
           /\ IsFiniteSet(ValsOf(parts, cs))
           /\ SampleVals(L) \subseteq Nat /\ SampleVals(L) # {} /\ IsFiniteSet(SampleVals(L))
<1>1. /\ IsFiniteSet(cs) /\ IsFiniteSet(L) /\ cs # {} /\ L # {}
      /\ (\A c \in cs : parts[c].val \in Nat) /\ \A s \in L : s.val \in Nat
  BY DEF Held, Words, SampleType
<1>2. PICK f, h : f = [c \in cs |-> parts[c].val] /\ h = [s \in L |-> s.val]
  OBVIOUS
<1>3. IsFiniteSet({f[c] : c \in cs}) /\ IsFiniteSet({h[s] : s \in L})
  BY <1>1, <1>2, ImageFinite
<1>4. ValsOf(parts, cs) = {f[c] : c \in cs} /\ SampleVals(L) = {h[s] : s \in L}
  BY <1>2 DEF ValsOf, SampleVals
<1>5. ValsOf(parts, cs) \subseteq Nat /\ ValsOf(parts, cs) # {}
  BY <1>1 DEF ValsOf
<1>6. SampleVals(L) \subseteq Nat /\ SampleVals(L) # {}
  BY <1>1 DEF SampleVals
<1>7. IsFiniteSet(ValsOf(parts, cs)) /\ IsFiniteSet(SampleVals(L))
  BY <1>3, <1>4
<1> QED BY <1>5, <1>6, <1>7

\* The greatest of the greatest values.
LEMMA HeldMax ==
    ASSUME NEW parts, NEW cs, NEW L, Held(parts, cs, L), agg = "max"
    PROVE  Max(ValsOf(parts, cs)) = Max(SampleVals(L))
<1>1. PICK a, b : a = Max(ValsOf(parts, cs)) /\ b = Max(SampleVals(L))
  OBVIOUS
<1>2. /\ a \in ValsOf(parts, cs) /\ \A x \in ValsOf(parts, cs) : x <= a
      /\ b \in SampleVals(L) /\ \A x \in SampleVals(L) : x <= b
      /\ a \in Nat /\ b \in Nat
  BY <1>1, ValsFinite, Bounds
<1>3. PICK c \in cs : a = parts[c].val
  BY <1>2 DEF ValsOf
<1>4. PICK s \in On(L, c) : parts[c].val = s.val
  BY DEF Held, Hold
<1>5. a <= b
  <2>1. s.val \in SampleVals(L)
    BY <1>4 DEF On, SampleVals
  <2> QED BY <1>2, <1>3, <1>4, <2>1
<1>6. PICK u \in L : b = u.val
  BY <1>2 DEF SampleVals
<1>7. u.cpu \in cs /\ u \in On(L, u.cpu)
  BY <1>6 DEF Held, On
<1>8. PICK w \in On(L, u.cpu) : parts[u.cpu].val = w.val /\ \A x \in On(L, u.cpu) : x.val <= w.val
  BY <1>7 DEF Held, Hold
<1>9. b <= a
  <2>1. parts[u.cpu].val <= a
    BY <1>2, <1>7 DEF ValsOf
  <2>2. b <= parts[u.cpu].val
    BY <1>6, <1>7, <1>8
  <2>3. parts[u.cpu].val \in Nat
    BY <1>7 DEF Held, Words
  <2> QED BY <1>2, <2>1, <2>2, <2>3
<1> QED BY <1>1, <1>2, <1>5, <1>9

\* The least of the least values.
LEMMA HeldMin ==
    ASSUME NEW parts, NEW cs, NEW L, Held(parts, cs, L), agg = "min"
    PROVE  Min(ValsOf(parts, cs)) = Min(SampleVals(L))
<1>1. PICK a, b : a = Min(ValsOf(parts, cs)) /\ b = Min(SampleVals(L))
  OBVIOUS
<1>2. /\ a \in ValsOf(parts, cs) /\ \A x \in ValsOf(parts, cs) : a <= x
      /\ b \in SampleVals(L) /\ \A x \in SampleVals(L) : b <= x
      /\ a \in Nat /\ b \in Nat
  BY <1>1, ValsFinite, Bounds
<1>3. PICK c \in cs : a = parts[c].val
  BY <1>2 DEF ValsOf
<1>4. PICK s \in On(L, c) : parts[c].val = s.val
  BY DEF Held, Hold
<1>5. b <= a
  <2>1. s.val \in SampleVals(L)
    BY <1>4 DEF On, SampleVals
  <2> QED BY <1>2, <1>3, <1>4, <2>1
<1>6. PICK u \in L : b = u.val
  BY <1>2 DEF SampleVals
<1>7. u.cpu \in cs /\ u \in On(L, u.cpu)
  BY <1>6 DEF Held, On
<1>8. PICK w \in On(L, u.cpu) : parts[u.cpu].val = w.val /\ \A x \in On(L, u.cpu) : x.val >= w.val
  BY <1>7 DEF Held, Hold
<1>9. a <= b
  <2>1. a <= parts[u.cpu].val
    BY <1>2, <1>7 DEF ValsOf
  <2>2. b >= parts[u.cpu].val
    BY <1>6, <1>7, <1>8
  <2>3. parts[u.cpu].val \in Nat
    BY <1>7 DEF Held, Words
  <2> QED BY <1>2, <2>1, <2>2, <2>3
<1> QED BY <1>1, <1>2, <1>5, <1>9

\* The sample of the latest time, of those with the latest times.
LEMMA HeldNone ==
    ASSUME NEW parts, NEW cs, NEW L, Held(parts, cs, L), agg = "none"
    PROVE  \E s \in L : /\ parts[MostRecent(parts, cs)].val = s.val
                        /\ \A t \in L : s.now >= t.now
<1>1. PICK R, f, M : /\ R = {c \in cs : \A d \in cs : parts[c].meta >= parts[d].meta}
                     /\ f = [c \in cs |-> parts[c].meta] /\ M = {f[c] : c \in cs}
  OBVIOUS
<1>2. /\ cs \subseteq Nat /\ cs # {} /\ IsFiniteSet(cs) /\ \A c \in cs : parts[c].meta \in Nat
  BY SeriesAssumption DEF Held, Words, Cpus
<1>3. IsFiniteSet(M) /\ M \subseteq Nat /\ M # {}
  <2>1. DOMAIN f = cs /\ (\A c \in cs : f[c] \in Nat)
    BY <1>1, <1>2
  <2>2. IsFiniteSet({f[c] : c \in cs})
    BY <1>2, <2>1, ImageFinite
  <2>3. M \subseteq Nat
    BY <1>1, <2>1
  <2>4. M # {}
    BY <1>1, <1>2
  <2> QED BY <1>1, <2>2, <2>3, <2>4
<1>4. PICK m : m = Max(M)
  OBVIOUS
<1>5. m \in M /\ \A x \in M : x <= m
  BY <1>3, <1>4, Bounds
<1>6. PICK b \in cs : m = parts[b].meta
  BY <1>1, <1>5
<1>7. b \in R
  <2>1. \A d \in cs : parts[d].meta <= m /\ parts[d].meta \in Nat
    BY <1>1, <1>2, <1>5
  <2> QED BY <1>1, <1>2, <1>6, <2>1
<1>8. PICK c : c = MostRecent(parts, cs)
  OBVIOUS
<1>9. c \in R
  <2>1. R \subseteq Nat /\ R # {} /\ c = Min(R)
    BY <1>1, <1>2, <1>7, <1>8 DEF MostRecent
  <2> QED BY <2>1, Bounds
<1>10. c \in cs /\ \A d \in cs : parts[c].meta >= parts[d].meta
  BY <1>1, <1>9
<1>11. PICK s \in On(L, c) : parts[c].val = s.val /\ parts[c].meta = s.now
  BY <1>10 DEF Held, Hold
<1>12. s \in L
  BY <1>11 DEF On
<1>13. ASSUME NEW t \in L PROVE s.now >= t.now
  <2>1. t.cpu \in cs /\ t \in On(L, t.cpu)
    BY DEF Held, On
  <2>2. PICK w \in On(L, t.cpu) : parts[t.cpu].meta = w.now /\ \A x \in On(L, t.cpu) : x.now <= w.now
    BY <2>1 DEF Held, Hold
  <2>3. t.now <= parts[t.cpu].meta /\ parts[t.cpu].meta <= s.now
    BY <1>2, <1>10, <1>11, <2>1, <2>2
  <2>4. t.now \in Nat /\ s.now \in Nat /\ parts[t.cpu].meta \in Nat
    BY <1>2, <1>12, <2>1 DEF Held, SampleType
  <2> QED BY <2>3, <2>4
<1> QED BY <1>8, <1>11, <1>12, <1>13

\* The value of the CPUs cs.
ValueOf(parts, cs) ==
    CASE agg = "none" -> parts[MostRecent(parts, cs)].val
      [] agg = "avg"  -> ValSum(parts, cs) \div MetaSum(parts, cs)
      [] agg = "sum"  -> ValSum(parts, cs)
      [] agg = "max"  -> Max(ValsOf(parts, cs))
      [] agg = "min"  -> Min(ValsOf(parts, cs))

\* It is what is promised for the samples they hold.
LEMMA HeldPromised ==
    ASSUME NEW parts, NEW cs, NEW L, Held(parts, cs, L), agg \in AllAggs
    PROVE  Promised(L, ValueOf(parts, cs))
<1>1. PICK v : v = ValueOf(parts, cs)
  OBVIOUS
<1>2. L # {}
  BY DEF Held
<1>3. CASE agg = "none"
  <2>1. \E s \in L : v = s.val /\ \A t \in L : s.now >= t.now
    BY <1>1, <1>3, HeldNone DEF ValueOf
  <2> QED BY <1>1, <1>2, <1>3, <2>1 DEF Promised
<1>4. CASE agg = "avg"
  <2>1. v = SumVal(L) \div Cardinality(L)
    <3>1. ValSum(parts, cs) = SumVal(L) /\ MetaSum(parts, cs) = Cardinality(L)
      BY <1>4, HeldSums
    <3> QED BY <1>1, <1>4, <3>1 DEF ValueOf
  <2> QED BY <1>1, <1>2, <1>4, <2>1 DEF Promised, SumVal
<1>5. CASE agg = "sum"
  <2>1. v = SumVal(L)
    <3>1. ValSum(parts, cs) = SumVal(L)
      BY <1>5, HeldSums
    <3> QED BY <1>1, <1>5, <3>1 DEF ValueOf
  <2> QED BY <1>1, <1>2, <1>5, <2>1 DEF Promised, SumVal
<1>6. CASE agg = "max"
  <2>1. v = Max(SampleVals(L))
    BY <1>1, <1>6, HeldMax DEF ValueOf
  <2> QED BY <1>1, <1>2, <1>6, <2>1 DEF Promised, SampleVals
<1>7. CASE agg = "min"
  <2>1. v = Min(SampleVals(L))
    BY <1>1, <1>7, HeldMin DEF ValueOf
  <2> QED BY <1>1, <1>2, <1>7, <2>1 DEF Promised, SampleVals
<1> QED BY <1>3, <1>4, <1>5, <1>6, <1>7 DEF AllAggs

\* What a value with its epoch shows of samples: those of the latest epoch.
Shows(S, r) ==
    IF S = {} THEN r[1] = 0
    ELSE /\ r[1] # 0 /\ \A s \in S : Epoch(s.now) <= r[1]
         /\ Latest(S, r[1]) # {} /\ Promised(Latest(S, r[1]), r[2])

\* reduce_tseries_value, of words that tell the samples S.
LEMMA ReduceTold ==
    ASSUME agg \in AllAggs, NEW e, NEW parts \in [Cpus -> PartOf(e)],
           NEW S, S \subseteq SampleType, IsFiniteSet(S),
           \A c \in Cpus : Told(agg, parts[c], On(S, c))
    PROVE  Shows(S, reduce_tseries_value(parts))
<1>1. PICK r, ep, cs : /\ r = reduce_tseries_value(parts) /\ ep = latest_epoch(parts)
                       /\ cs = SameEpoch(parts, ep)
  OBVIOUS
<1>2. /\ r[1] = ep /\ ep \in Nat /\ (\E c \in Cpus : parts[c].epoch = ep)
      /\ \A c \in Cpus : parts[c].epoch <= ep
  BY <1>1, LatestEpoch
<1>3. \A c \in Cpus : parts[c] \in Words /\ parts[c].epoch \in Nat
  BY DEF PartOf, Words
<1>4. ASSUME NEW c \in Cpus, parts[c].epoch # 0
      PROVE  On(S, c) # {} /\ (\A s \in On(S, c) : Epoch(s.now) <= parts[c].epoch)
             /\ Latest(On(S, c), parts[c].epoch) # {}
             /\ Hold(agg, parts[c], Latest(On(S, c), parts[c].epoch))
  <2>1. On(S, c) # {}
    BY <1>4 DEF Told, ZeroPart
  <2> QED BY <2>1 DEF Told
<1>5. CASE S = {}
  <2>1. \A c \in Cpus : On(S, c) = {}
    BY <1>5 DEF On
  <2>2. \A c \in Cpus : parts[c].epoch = 0
    BY <1>4, <2>1
  <2> QED BY <1>1, <1>2, <1>5, <2>2 DEF Shows
<1>6. CASE S # {}
  <2>1. ASSUME NEW s \in S
        PROVE  /\ s.cpu \in Cpus /\ s \in On(S, s.cpu) /\ Epoch(s.now) \in Nat /\ Epoch(s.now) > 0
               /\ Epoch(s.now) <= parts[s.cpu].epoch
    <3>1. s.cpu \in Cpus /\ s \in On(S, s.cpu) /\ s.now \in Nat /\ s.now >= StartTime
      BY DEF SampleType, On
    <3>2. Epoch(s.now) <= parts[s.cpu].epoch
      BY <3>1 DEF Told
    <3> QED BY <3>1, <3>2, EpochFacts
  <2>2. ep # 0
    <3>1. PICK s \in S : TRUE
      BY <1>6
    <3>2. Epoch(s.now) \in Nat /\ Epoch(s.now) > 0 /\ Epoch(s.now) <= parts[s.cpu].epoch
          /\ parts[s.cpu].epoch <= ep /\ parts[s.cpu].epoch \in Nat
      BY <1>2, <1>3, <2>1
    <3> QED BY <1>2, <3>2
  <2>3. PICK L : L = Latest(S, ep)
    OBVIOUS
  <2>4. ASSUME NEW c \in cs
        PROVE  c \in Cpus /\ parts[c].epoch = ep /\ On(L, c) # {} /\ Hold(agg, parts[c], On(L, c))
    <3>1. c \in Cpus /\ parts[c].epoch = ep
      BY <1>1 DEF SameEpoch
    <3>2. Latest(On(S, c), ep) # {} /\ Hold(agg, parts[c], Latest(On(S, c), ep))
      BY <1>4, <2>2, <3>1
    <3>3. On(L, c) = Latest(On(S, c), ep)
      BY <2>3 DEF On, Latest
    <3> QED BY <3>1, <3>2, <3>3
  <2>5. ASSUME NEW s \in L PROVE s \in S /\ s.cpu \in cs
    <3>1. s \in S /\ Epoch(s.now) = ep
      BY <2>3 DEF Latest
    <3>2. s.cpu \in Cpus /\ ep <= parts[s.cpu].epoch /\ parts[s.cpu].epoch <= ep
          /\ parts[s.cpu].epoch \in Nat
      BY <1>2, <1>3, <2>1, <3>1
    <3>3. parts[s.cpu].epoch = ep
      BY <1>2, <3>2
    <3> QED BY <1>1, <3>1, <3>2, <3>3 DEF SameEpoch
  <2>6. PICK c0 \in cs : TRUE
    BY <1>1, <1>2 DEF SameEpoch
  <2>7. L # {} /\ L \subseteq S
    <3>1. On(L, c0) # {}
      BY <2>4
    <3> QED BY <2>5, <3>1 DEF On
  <2>8. Held(parts, cs, L)
    <3>1. IsFiniteSet(Cpus) /\ cs \subseteq Cpus
      BY <2>4, SeriesAssumption, FS_Interval DEF Cpus
    <3>2. IsFiniteSet(cs) /\ IsFiniteSet(L)
      BY <2>7, <3>1, FS_Subset
    <3>3. \A c \in cs : parts[c] \in Words /\ On(L, c) # {} /\ Hold(agg, parts[c], On(L, c))
      BY <1>3, <2>4
    <3> HIDE DEF Hold
    <3> QED BY <2>5, <2>6, <2>7, <3>1, <3>2, <3>3 DEF Held
  <2>9. Promised(L, ValueOf(parts, cs))
    BY <2>8, HeldPromised
  <2>10. r[2] = ValueOf(parts, cs)
    <3>1. MetaOf(parts) = MetaSum(parts, cs)
      BY <1>1 DEF MetaOf, MetaSum
    <3> QED BY <1>1, <2>2, <3>1 DEF reduce_tseries_value, ValueOf, ValSum, ValsOf
  <2>11. \A s \in S : Epoch(s.now) <= ep
    <3> TAKE s \in S
    <3>1. Epoch(s.now) \in Nat /\ Epoch(s.now) <= parts[s.cpu].epoch /\ parts[s.cpu].epoch <= ep
          /\ parts[s.cpu].epoch \in Nat
      BY <1>2, <1>3, <2>1
    <3> QED BY <1>2, <3>1
  <2> QED BY <1>1, <1>2, <1>6, <2>2, <2>3, <2>7, <2>9, <2>10, <2>11 DEF Shows
<1> QED BY <1>5, <1>6

-----------------------------------------------------------------------------
(***************************************************************************)
(* What is printed.                                                        *)
(***************************************************************************)
\* The window ends at the latest epoch collected; it is empty if there is none.
LEMMA Window ==
    ASSUME NumIntervals > 1, TypeInv, Collected, series # {}
    PROVE  /\ last_epoch \in Nat /\ \A s \in series : s[2] \in Nat /\ s[2] <= last_epoch
           /\ last_epoch = 0 => epoch_range = {}
           /\ last_epoch # 0 => /\ last_epoch >= NumIntervals
                                /\ epoch_range = (last_epoch + 1 - NumIntervals) .. last_epoch
<1>1. PICK E, f, last : /\ E = {s[2] : s \in series} /\ f = [s \in series |-> s[2]]
                        /\ last = last_epoch
  OBVIOUS
<1>2. IsFiniteSet(series) /\ \A s \in series : s[2] \in Nat
  BY DEF TypeInv, UserOK
<1>3. E \subseteq Nat /\ E # {}
  BY <1>1, <1>2
<1>4. IsFiniteSet(E)
  <2>1. DOMAIN f = series /\ E = {f[s] : s \in series}
    BY <1>1
  <2>2. IsFiniteSet({f[s] : s \in series})
    BY <1>2, <2>1, ImageFinite
  <2> QED BY <2>1, <2>2
<1>5. last \in E /\ (\A n \in E : n <= last) /\ last = Max(E)
  BY <1>1, <1>3, <1>4, Bounds DEF last_epoch
<1>6. last = 0 \/ last >= NumIntervals
  BY <1>1, <1>5 DEF Collected
<1>7. last \in Nat /\ \A s \in series : s[2] <= last
  BY <1>1, <1>3, <1>5
<1>8. last = 0 => epoch_range = {}
  BY <1>1, SeriesAssumption DEF epoch_range
<1>9. last # 0 => epoch_range = (last + 1 - NumIntervals) .. last
  BY <1>1, <1>6, <1>7, SeriesAssumption DEF epoch_range
<1> QED BY <1>1, <1>2, <1>6, <1>7, <1>8, <1>9

\* The first epoch shown for a key, and what is shown for an epoch.
Values(k) == EpochsOf(k) \cap epoch_range
FirstShown(k) == Min(Values(k) \cup {last_epoch})
ValueAt(k, e) == IF e \in Values(k) THEN (CHOOSE s \in series : s[1] = k /\ s[2] = e)[3]
                                    ELSE Blank

\* The rows of a key: one for each epoch from the first to the last.
LEMMA Rows ==
    ASSUME NumIntervals > 1, TypeInv, Collected, series # {}, NEW k
    PROVE  /\ last_epoch = 0 => Range(build_time_series(k)) = {}
           /\ last_epoch # 0 =>
                /\ FirstShown(k) \in Nat /\ \A e \in Values(k) : FirstShown(k) <= e
                /\ \A r \in Range(build_time_series(k)) : r[2] = ValueAt(k, r[1])
                /\ \A e \in FirstShown(k) .. last_epoch :
                      \E r \in Range(build_time_series(k)) : r[1] = e
<1>1. PICK last, R, V, m : /\ last = last_epoch /\ R = epoch_range /\ V = Values(k)
                           /\ m = FirstShown(k)
  OBVIOUS
<1>2. PICK shown, low, rows : /\ shown = {e \in R : e >= m} /\ low = Min(shown)
                              /\ rows = build_time_series(k)
  OBVIOUS
<1>3. /\ last \in Nat /\ (last = 0 => R = {})
      /\ last # 0 => last >= NumIntervals /\ R = (last + 1 - NumIntervals) .. last
  BY <1>1, Window
<1>4. rows = [i \in 1 .. Cardinality(shown) |-> <<low + i - 1, ValueAt(k, low + i - 1)>>]
  BY <1>1, <1>2 DEF build_time_series, ValueAt, Values, FirstShown
<1>5. CASE last = 0
  <2>1. Cardinality(shown) = 0
    BY <1>2, <1>3, <1>5, FS_EmptySet
  <2>2. DOMAIN rows = {}
    BY <1>4, <2>1
  <2> QED BY <1>1, <1>2, <1>5, <2>2 DEF Range
<1>6. CASE last # 0
  <2>1. /\ NumIntervals \in Nat /\ last >= NumIntervals
        /\ R = (last + 1 - NumIntervals) .. last /\ last \in Nat
    BY <1>3, <1>6, SeriesAssumption
  <2>2. V \subseteq R /\ V \cup {last} \subseteq Nat /\ V \cup {last} # {}
        /\ m = Min(V \cup {last})
    BY <1>1, <2>1 DEF Values, FirstShown
  <2>3. m \in V \cup {last} /\ \A e \in V \cup {last} : m <= e
    BY <2>2, Bounds
  <2>4. m \in Nat /\ m >= last + 1 - NumIntervals /\ m <= last
    BY <2>1, <2>2, <2>3
  <2>5. shown = m .. last
    BY <1>2, <2>1, <2>4
  <2>6. Cardinality(shown) = last - m + 1
    BY <2>1, <2>4, <2>5, FS_Interval
  <2>7. low = m
    <3>1. shown \subseteq Nat /\ shown # {} /\ m \in shown
      <4>1. m \in m .. last /\ m .. last \subseteq Nat
        BY <2>1, <2>4
      <4> QED BY <2>5, <4>1
    <3>2. low \in shown /\ low <= m
      BY <1>2, <3>1, Bounds
    <3> QED BY <2>4, <2>5, <3>2
  <2>8. rows = [i \in 1 .. last - m + 1 |-> <<m + i - 1, ValueAt(k, m + i - 1)>>]
    BY <1>4, <2>6, <2>7
  <2>9. \A r \in Range(rows) : r[2] = ValueAt(k, r[1])
    BY <2>8 DEF Range
  <2>10. ASSUME NEW e \in m .. last PROVE \E r \in Range(rows) : r[1] = e
    <3>1. e - m + 1 \in 1 .. last - m + 1 /\ m + (e - m + 1) - 1 = e
      BY <2>1, <2>4
    <3>2. rows[e - m + 1][1] = e /\ e - m + 1 \in DOMAIN rows
      BY <2>8, <3>1
    <3> QED BY <3>2 DEF Range
  <2> QED BY <1>1, <1>2, <1>6, <2>3, <2>4, <2>9, <2>10
<1> QED BY <1>1, <1>5, <1>6

\* The rows of an epoch show the samples of an entry.
Right(x, e, rows) ==
    /\ In(x.samples, x.at[1], e) # {} => \E r \in rows : r[1] = e
    /\ \A r \in rows : r[1] = e => Promised(In(x.samples, x.at[1], e), r[2])

\* They do, of every epoch of the window that uses the bucket.
LEMMA RowsRight ==
    ASSUME NumIntervals > 1, TypeInv, Collected, NEW x, TakenAt(x), x.at \notin spoiled,
           NEW e \in last_epoch + 1 - NumIntervals .. last_epoch, e % NumIntervals = x.at[2]
    PROVE  Right(x, e, Range(build_time_series(x.at[1])))
<1>1. PICK k, S, last, rows : /\ k = x.at[1] /\ S = x.samples /\ last = last_epoch
                              /\ rows = Range(build_time_series(k))
  OBVIOUS
<1>2. PICK parts \in [Cpus -> PartOf(x.at)] : Reduced(x, parts)
  BY DEF TakenAt
<1>3. PICK r : r = reduce_tseries_value(parts)
  OBVIOUS
<1>4. /\ S \subseteq SampleType /\ IsFiniteSet(S) /\ (\A s \in S : Where(s) = x.at)
      /\ series # {}
  BY <1>1 DEF TakenAt
<1>5. Shows(S, r)
  <2>1. \A c \in Cpus : Told(agg, parts[c], On(S, c))
    BY <1>1, <1>2 DEF Reduced, On
  <2>2. agg \in AllAggs
    BY AggType DEF TypeInv
  <2> QED BY <1>3, <1>4, <2>1, <2>2, ReduceTold
<1>6. /\ r[1] \in Nat /\ (r[1] # 0 => r[1] % NumIntervals = x.at[2])
      /\ r[1] # 0 => <<k, r[1], r[2]>> \in series
      /\ \A s \in series : (s[1] = k /\ s[2] # 0 /\ s[2] % NumIntervals = x.at[2])
                              => s = <<k, r[1], r[2]>>
  <2>1. r[1] \in Nat /\ Bucketed(x.at, r[1])
    BY <1>3, LatestEpoch
  <2> QED BY <1>1, <1>2, <1>3, <2>1 DEF Reduced, Bucketed
<1>7. In(S, k, e) = Latest(S, e)
  <2>1. \A s \in S : s.key = k
    BY <1>1, <1>4 DEF Where
  <2> QED BY <2>1 DEF In, Latest
<1>8. \A s \in S : Epoch(s.now) \in Nat /\ Epoch(s.now) >= NumIntervals
  BY <1>4, EpochFacts DEF SampleType
<1>9. /\ last \in Nat /\ \A s \in series : s[2] \in Nat /\ s[2] <= last
      /\ last # 0 => /\ last >= NumIntervals
                     /\ epoch_range = (last + 1 - NumIntervals) .. last
  BY <1>1, <1>4, Window
<1>10. NumIntervals \in Nat /\ e \in Int /\ e <= last /\ e >= last + 1 - NumIntervals
  BY <1>1, <1>9, SeriesAssumption
<1>11. CASE last = 0
  <2>1. rows = {}
    BY <1>1, <1>4, <1>11, Rows
  <2>2. Latest(S, e) = {}
    BY <1>8, <1>10, <1>11 DEF Latest
  <2> QED BY <1>1, <1>7, <2>1, <2>2 DEF Right
<1>12. CASE last # 0
  <2>1. e \in Nat /\ e > 0 /\ e \in epoch_range
    BY <1>9, <1>10, <1>12
  <2>2. /\ FirstShown(k) \in Nat /\ (\A n \in Values(k) : FirstShown(k) <= n)
        /\ \A q \in rows : q[2] = ValueAt(k, q[1])
        /\ \A n \in FirstShown(k) .. last : \E q \in rows : q[1] = n
    BY <1>1, <1>4, <1>12, Rows
  <2>3. CASE r[1] = e
    <3>1. S # {} /\ <<k, e, r[2]>> \in series /\ Promised(Latest(S, e), r[2])
      BY <1>5, <1>6, <2>1, <2>3 DEF Shows
    <3>2. e \in Values(k)
      BY <2>1, <3>1 DEF Values, EpochsOf
    <3>3. \E q \in rows : q[1] = e
      BY <1>10, <2>1, <2>2, <3>2
    <3>4. ASSUME NEW s \in series, s[1] = k, s[2] = e PROVE s = <<k, e, r[2]>>
      BY <1>6, <2>1, <2>3, <3>4
    <3>5. ValueAt(k, e) = r[2]
      <4>1. PICK y : y = (CHOOSE s \in series : s[1] = k /\ s[2] = e)
        OBVIOUS
      <4>2. y \in series /\ y[1] = k /\ y[2] = e
        BY <3>1, <4>1
      <4> QED BY <3>2, <3>4, <4>1, <4>2 DEF ValueAt
    <3>6. \A q \in rows : q[1] = e => q[2] = r[2]
      BY <2>2, <3>5
    <3> HIDE DEF Promised
    <3> QED BY <1>1, <1>7, <3>1, <3>3, <3>6 DEF Right
  <2>4. CASE r[1] # e
    <3>1. e \notin EpochsOf(k)
      <4>1. ASSUME NEW s \in series, s[1] = k, s[2] = e PROVE FALSE
        BY <1>6, <2>1, <2>4, <4>1
      <4> QED BY <4>1 DEF EpochsOf
    <3>2. \A q \in rows : q[1] = e => q[2] = Blank
      BY <2>2, <3>1 DEF ValueAt, Values
    <3>3. ASSUME NEW t \in Latest(S, e) PROVE FALSE
      <4>1. t \in S /\ Epoch(t.now) = e
        BY DEF Latest
      <4>2. e <= r[1] /\ r[1] # 0
        BY <1>5, <4>1 DEF Shows
      <4>3. r[1] <= last
        BY <1>6, <1>9, <4>2
      <4>4. e + NumIntervals <= r[1]
        <5>1. e < r[1] /\ e % NumIntervals = r[1] % NumIntervals
          BY <1>6, <2>1, <2>4, <4>2
        <5> QED BY <1>6, <2>1, <5>1, Ring, SeriesAssumption
      <4> QED BY <1>6, <1>9, <1>10, <4>3, <4>4
    <3>4. Latest(S, e) = {}
      BY <3>3
    <3>5. Promised(Latest(S, e), Blank)
      BY <3>4 DEF Promised
    <3> QED BY <1>1, <1>7, <3>2, <3>4, <3>5 DEF Right
  <2> QED BY <2>3, <2>4
<1> QED BY <1>11, <1>12

\* What is promised depends on the aggregation only.
LEMMA PromisedStays == ASSUME agg' = agg, NEW ss, NEW v, Promised(ss, v) PROVE Promised(ss, v)'
<1>1. PICK sum, num, top, low : /\ sum = SumVal(ss) /\ num = Cardinality(ss)
                                /\ top = Max(SampleVals(ss)) /\ low = Min(SampleVals(ss))
  OBVIOUS
<1> DEFINE P(g) ==
        IF ss = {} THEN v = Blank ELSE
        CASE g = "none" -> \E s \in ss : v = s.val /\ \A t \in ss : s.now >= t.now
          [] g = "avg"  -> v = sum \div num
          [] g = "sum"  -> v = sum
          [] g = "max"  -> v = top
          [] g = "min"  -> v = low
<1>2. Promised(ss, v) <=> P(agg)
  BY <1>1 DEF Promised, SumVal, SampleVals
<1>3. Promised(ss, v)' <=> P(agg')
  BY <1>1 DEF Promised, SumVal, SampleVals
<1> HIDE DEF P
<1> QED BY <1>2, <1>3

\* So rows that are right stay right.
LEMMA RightStays ==
    ASSUME agg' = agg, NEW x, NEW e, NEW rows, Right(x, e, rows)
    PROVE  Right(x, e, rows)'
<1>1. PICK H : H = In(x.samples, x.at[1], e)
  OBVIOUS
<1>2. (H # {} => \E r \in rows : r[1] = e) /\ \A r \in rows : r[1] = e => Promised(H, r[2])
  BY <1>1 DEF Right
<1>3. \A r \in rows : r[1] = e => Promised(H, r[2])'
  BY <1>2, PromisedStays
<1>4. H = In(x.samples, x.at[1], e)'
  BY <1>1 DEF In
<1> QED BY <1>2, <1>3, <1>4 DEF Right

\* Shown: format prints the rows, and nothing printed changes.
LEMMA ShownStep == ASSUME TypeInv, Collected, Taken, Shown, [Next]_vars PROVE Shown'
<1> SUFFICES ASSUME NumIntervals > 1 PROVE SeriesExact'
  BY DEF Shown
<1>1. SeriesExact
  BY DEF Shown
<1>2. CASE upc' # "printed"
  BY <1>2 DEF SeriesExact
<1>3. CASE UserStays /\ spoiled \subseteq spoiled' /\ agg' = agg
  <2> SUFFICES ASSUME upc' = "printed", NEW x \in seen', x.at \notin spoiled',
                      NEW e \in last_epoch' + 1 - NumIntervals .. last_epoch',
                      e % NumIntervals = x.at[2]
               PROVE  Right(x, e, Range(out[x.at[1]]))'
    BY DEF SeriesExact, RowOf, Right
  <2>1. upc = "printed" /\ x \in seen /\ x.at \notin spoiled /\ last_epoch' = last_epoch
        /\ out' = out
    BY <1>3 DEF UserStays, last_epoch
  <2>2. Right(x, e, Range(out[x.at[1]]))
    BY <1>1, <2>1 DEF SeriesExact, RowOf, Right
  <2>3. PICK rows : rows = Range(out[x.at[1]]) /\ rows = Range(out[x.at[1]])'
    BY <2>1
  <2>4. Right(x, e, rows)'
    BY <1>3, <2>2, <2>3, RightStays
  <2> QED BY <2>3, <2>4 DEF Right
<1>4. CASE format
  <2> SUFFICES ASSUME NEW x \in seen', x.at \notin spoiled',
                      NEW e \in last_epoch' + 1 - NumIntervals .. last_epoch',
                      e % NumIntervals = x.at[2]
               PROVE  Right(x, e, Range(out[x.at[1]]))'
    BY DEF SeriesExact, RowOf, Right
  <2>1. /\ series' = series /\ seen' = seen /\ spoiled' = spoiled /\ agg' = agg
        /\ last_epoch' = last_epoch
    BY <1>4 DEF format, last_epoch
  <2>2. x \in seen /\ x.at \notin spoiled /\ TakenAt(x)
    BY <2>1 DEF Taken
  <2>3. Right(x, e, Range(build_time_series(x.at[1])))
    BY <2>1, <2>2, RowsRight
  <2>4. out'[x.at[1]] = build_time_series(x.at[1])
    <3>1. x.at[1] \in {s[1] : s \in series}
      BY <2>2 DEF TakenAt
    <3> QED BY <1>4, <3>1 DEF format
  <2>5. PICK rows : rows = Range(build_time_series(x.at[1])) /\ rows = Range(out[x.at[1]])'
    BY <2>4
  <2>6. Right(x, e, rows)'
    BY <2>1, <2>3, <2>5, RightStays
  <2> QED BY <2>5, <2>6 DEF Right
<1>5. ASSUME NEW c \in Cpus, NEW k \in Keys, NEW now \in time .. MaxTime, Lookup(c, k, now),
             UserStays
      PROVE  SeriesExact'
  BY <1>3, <1>5 DEF Lookup
<1>6. ASSUME NEW c \in Cpus, Store(c), UserStays PROVE SeriesExact'
  BY <1>3, <1>6 DEF Store
<1>7. ASSUME NEW c \in Cpus, Insert(c), UserStays PROVE SeriesExact'
  BY <1>3, <1>7 DEF Insert
<1>8. ASSUME (\E o \in {"copy", "zero"} : Begin(o)) \/ CopyCpu \/ ZeroEnd \/ ZeroCpu
      PROVE  SeriesExact'
  BY <1>2, <1>8 DEF Begin, CopyCpu, ZeroEnd, ZeroCpu
<1>9. CASE KernelStays /\ UserStays /\ spoiled' = spoiled
  BY <1>3, <1>9 DEF KernelStays
<1> QED BY <1>4, <1>5, <1>6, <1>7, <1>8, <1>9, WhoSteps

-----------------------------------------------------------------------------
(***************************************************************************)
(* The theorems.                                                           *)
(***************************************************************************)
\* Nothing is recorded, stored or printed when the script starts.
LEMMA Starts == ASSUME Init PROVE IInv
<1>1. /\ agg \in Aggs /\ time = StartTime /\ StartTime \in Nat
      /\ entry = [e \in Entries |-> Absent] /\ prog = [c \in Cpus |-> Idle] /\ hits = 0
      /\ upc = "idle" /\ walk = <<>> /\ buf = <<>> /\ series = {} /\ log = {} /\ seen = {}
  BY SeriesAssumption DEF Init
<1>2. \A c \in Cpus : prog[c] = Idle /\ prog[c].pc = "idle"
  BY <1>1 DEF Idle
<1>3. KernelOK
  BY <1>1, <1>2 DEF KernelOK
<1>4. UserOK
  <2>1. Present = {}
    BY <1>1 DEF Present
  <2>2. IsFiniteSet(Present) /\ IsFiniteSet(series) /\ IsFiniteSet(log)
    BY <1>1, <2>1, FS_EmptySet
  <2>3. walk \in Seq(Entries) /\ buf \in Seq(Words) /\ Len(buf) = 0 /\ DOMAIN walk = {}
    BY <1>1
  <2>4. 0 < NCpus
    BY SeriesAssumption
  <2> QED BY <1>1, <2>2, <2>3, <2>4 DEF UserOK
<1>5. Calls /\ Fresh /\ Emptied /\ Copied /\ Collected /\ Taken
  BY <1>1, <1>2 DEF Calls, Fresh, Emptied, Zeroing, Copied, Collected, Taken
<1>6. Exact
  BY <1>1 DEF Exact, ExactAt
<1>7. Shown
  BY <1>1 DEF Shown, SeriesExact
<1> QED BY <1>3, <1>4, <1>5, <1>6, <1>7 DEF IInv, TypeInv

\* Every step of a program or of the event loop keeps it.
LEMMA Steps == ASSUME IInv, [Next]_vars PROVE IInv'
<1>1. TypeInv /\ Calls /\ Exact /\ Fresh /\ Emptied /\ Copied /\ Collected /\ Taken /\ Shown
  BY DEF IInv
<1>2. TypeInv'
  BY <1>1, KernelStep, UserStep DEF TypeInv
<1>3. Calls' /\ Fresh' /\ Emptied'
  BY <1>1, CallsStep, FreshStep, EmptiedStep
<1>4. Exact' /\ Copied'
  BY <1>1, ExactStep, CopiedStep
<1>5. Collected' /\ Taken' /\ Shown'
  BY <1>1, CollectedStep, TakenStep, ShownStep
<1> QED BY <1>2, <1>3, <1>4, <1>5 DEF IInv

\* The inductive invariant holds: in every entry that was not zeroed under a program,
\* the words of each CPU tell the samples its programs recorded there, up to what the
\* program now in the entry has still to store.
THEOREM WordsTell == Spec => []IInv
<1>1. Init => IInv
  BY Starts
<1>2. IInv /\ [Next]_vars => IInv'
  BY Steps
<1> QED BY <1>1, <1>2, PTL DEF Spec

\* print() of a time series of more than one interval: an entry that was copied whole,
\* and not zeroed under a program, shows in every interval of the window the aggregate of
\* the samples of exactly that interval, over all CPUs; intervals with samples are not
\* left out and those without are blank.
THEOREM SeriesIsExact == NumIntervals > 1 => (Spec => []SeriesExact)
<1>1. IInv => Shown
  BY DEF IInv
<1>2. Spec => []Shown
  BY <1>1, WordsTell, PTL
<1>3. CASE NumIntervals > 1
  <2>1. Shown => SeriesExact
    BY <1>3 DEF Shown
  <2> QED BY <1>2, <2>1, PTL
<1> QED BY <1>3

=============================================================================
