---------------------------- MODULE BpfMapProofs ----------------------------
(***************************************************************************)
(* BpfMap, for any number of CPUs, keys, slots, updates and events.        *)
(***************************************************************************)
EXTENDS BpfMap, FiniteSetTheorems, SequenceTheorems, WellFoundedInduction, TLAPS

\* A non-empty set of natural numbers has a least element.
LEMMA Least ==
    ASSUME NEW T, T \subseteq Nat, T # {}
    PROVE  \E n \in T : \A m \in T : n <= m
<1> DEFINE R == OpToRel(<, Nat)
<1>1. \A x, y \in Nat : <<y, x>> \in R <=> y < x
  BY DEF OpToRel
<1>2. PICK x \in T : \A y \in T : <<y, x>> \notin R
  BY NatLessThanWellFounded, WFMin
<1>3. \A y \in T : x <= y
  <2> TAKE y \in T
  <2>1. x \in Nat /\ y \in Nat
    OBVIOUS
  <2>2. ~(y < x)
    BY <2>1, <1>1, <1>2, Zenon
  <2> QED BY <2>1, <2>2
<1> QED BY <1>3

-----------------------------------------------------------------------------
(***************************************************************************)
(* Sums over the CPUs.  SumField is a fold over the set of CPUs, which     *)
(* takes its elements out one by one.                                      *)
(***************************************************************************)
Pick(s) == CHOOSE x \in s : TRUE
Rest(s) == s \ {Pick(s)}

\* g adds up the f-th words of w over sets of CPUs.
Adds(g, w, f, domain) ==
    g = [s \in domain |-> IF s = {} THEN 0 ELSE w[WordOf(Pick(s), f)] + g[Rest(s)]]
UpTo(n) == {s \in SUBSET Cpus : Cardinality(s) <= n}
Words(w, f) == \A c \in Cpus : w[WordOf(c, f)] \in Nat

\* What is left of a set when an element is taken out.
LEMMA RestFacts ==
    ASSUME NEW s \in SUBSET Cpus
    PROVE  /\ Cardinality(s) \in 0 .. NCpus /\ Cardinality({}) = 0
           /\ s # {} => /\ Pick(s) \in s /\ Rest(s) \in SUBSET Cpus
                        /\ Cardinality(Rest(s)) = Cardinality(s) - 1
                        /\ Cardinality(s) # 0
<1>1. IsFiniteSet(Cpus) /\ Cardinality(Cpus) = NCpus
  BY MapAssumption, FS_Interval DEF Cpus
<1>2. IsFiniteSet(s) /\ Cardinality(s) <= NCpus
  BY <1>1, FS_Subset
<1>3. Cardinality(s) \in Nat /\ (s # {} => Cardinality(s) # 0) /\ Cardinality({}) = 0
  BY <1>2, FS_CardinalityType, FS_EmptySet
<1>4. ASSUME s # {}
      PROVE  /\ Pick(s) \in s /\ Rest(s) \in SUBSET Cpus
             /\ Cardinality(Rest(s)) = Cardinality(s) - 1
  <2>1. Pick(s) \in s
    BY <1>4 DEF Pick
  <2> QED BY <2>1, <1>2, FS_RemoveElement DEF Rest
<1> QED BY <1>2, <1>3, <1>4, MapAssumption

\* There is such a g: if for all smaller sets, then for sets of n elements.
LEMMA SumExists ==
    ASSUME NEW w, NEW f
    PROVE  \E g : Adds(g, w, f, SUBSET Cpus)
<1> DEFINE T == {n \in Nat : ~ \E g : Adds(g, w, f, UpTo(n))}
<1>1. T = {}
  <2> SUFFICES ASSUME T # {} PROVE FALSE
    OBVIOUS
  <2>1. PICK n \in T : \A m \in T : n <= m
    BY Least
  <2>2. \E g : \A s \in UpTo(n) : s # {} => Rest(s) \in DOMAIN g
               /\ g[Rest(s)] = IF Rest(s) = {} THEN 0
                               ELSE w[WordOf(Pick(Rest(s)), f)] + g[Rest(Rest(s))]
    <3>1. CASE n = 0
      <4>1. \A s \in UpTo(n) : s = {}
        BY <3>1, RestFacts DEF UpTo
      <4> QED BY <4>1
    <3>2. CASE n # 0
      <4>1. n - 1 \in Nat /\ n - 1 \notin T
        BY <2>1, <3>2
      <4>2. PICK g : Adds(g, w, f, UpTo(n - 1))
        BY <4>1
      <4>3. \A s \in UpTo(n) : s # {} => Rest(s) \in UpTo(n - 1)
        BY <2>1, RestFacts DEF UpTo
      <4> WITNESS g
      <4> QED BY <4>2, <4>3 DEF Adds
    <3> QED BY <3>1, <3>2
  <2>3. PICK g : \A s \in UpTo(n) : s # {} => Rest(s) \in DOMAIN g
               /\ g[Rest(s)] = IF Rest(s) = {} THEN 0
                               ELSE w[WordOf(Pick(Rest(s)), f)] + g[Rest(Rest(s))]
    BY <2>2
  <2> DEFINE h == [s \in UpTo(n) |-> IF s = {} THEN 0 ELSE w[WordOf(Pick(s), f)] + g[Rest(s)]]
  <2>4. \A s \in UpTo(n) : s # {} => Rest(s) \in UpTo(n)
    BY <2>1, RestFacts DEF UpTo
  <2>5. \A s \in UpTo(n) : s # {} => h[Rest(s)] = g[Rest(s)]
    BY <2>3, <2>4
  <2>6. Adds(h, w, f, UpTo(n))
    BY <2>5 DEF Adds
  <2> QED BY <2>1, <2>6
<1>2. NCpus \in Nat /\ UpTo(NCpus) = SUBSET Cpus
  BY MapAssumption, RestFacts DEF UpTo
<1>3. \E g : Adds(g, w, f, UpTo(NCpus))
  BY <1>1, <1>2
<1> QED BY <1>2, <1>3

\* SumField is the value of such a g at the set of all CPUs.
LEMMA SumIsChosen ==
    ASSUME NEW w, NEW f
    PROVE  \E g : Adds(g, w, f, SUBSET Cpus) /\ SumField(w, f) = g[Cpus]
<1> DEFINE G == CHOOSE g : g = [s \in SUBSET Cpus |->
                     IF s = {} THEN 0
                     ELSE w[WordOf(CHOOSE x \in s : TRUE, f)] + g[s \ {CHOOSE x \in s : TRUE}]]
<1>1. SumField(w, f) = G[Cpus]
  BY DEF SumField, MapThenSumSet, MapThenFoldSet
<1>2. \E g : g = [s \in SUBSET Cpus |->
                     IF s = {} THEN 0
                     ELSE w[WordOf(CHOOSE x \in s : TRUE, f)] + g[s \ {CHOOSE x \in s : TRUE}]]
  <2>1. PICK g : Adds(g, w, f, SUBSET Cpus)
    BY SumExists
  <2> WITNESS g
  <2> QED BY <2>1 DEF Adds, Pick, Rest
<1>3. Adds(G, w, f, SUBSET Cpus)
  BY <1>2 DEF Adds, Pick, Rest
<1> QED BY <1>1, <1>3

\* Sums of natural numbers are natural, and grow with their terms.
LEMMA SumGrows ==
    ASSUME NEW v, NEW w, NEW f, Words(v, f), Words(w, f),
           \A c \in Cpus : v[WordOf(c, f)] <= w[WordOf(c, f)]
    PROVE  /\ SumField(v, f) \in Nat /\ SumField(w, f) \in Nat
           /\ SumField(v, f) <= SumField(w, f)
           /\ (\E c \in Cpus : v[WordOf(c, f)] < w[WordOf(c, f)])
                 => SumField(v, f) < SumField(w, f)
<1>1. PICK g : Adds(g, v, f, SUBSET Cpus) /\ SumField(v, f) = g[Cpus]
  BY SumIsChosen
<1>2. PICK h : Adds(h, w, f, SUBSET Cpus) /\ SumField(w, f) = h[Cpus]
  BY SumIsChosen
<1> DEFINE Good(s) == /\ g[s] \in Nat /\ h[s] \in Nat /\ g[s] <= h[s]
                      /\ (\E c \in s : v[WordOf(c, f)] < w[WordOf(c, f)]) => g[s] < h[s]
           T == {n \in Nat : \E s \in SUBSET Cpus : Cardinality(s) = n /\ ~Good(s)}
<1>3. ASSUME T # {} PROVE FALSE
  <2>1. PICK n \in T : \A m \in T : n <= m
    BY <1>3, Least
  <2>2. PICK s \in SUBSET Cpus : Cardinality(s) = n /\ ~Good(s)
    BY <2>1
  <2>3. CASE s = {}
    BY <2>2, <2>3, <1>1, <1>2 DEF Adds
  <2>4. CASE s # {}
    <3>1. /\ Pick(s) \in Cpus /\ Rest(s) \in SUBSET Cpus /\ n - 1 \in Nat
          /\ Cardinality(Rest(s)) = n - 1
      BY <2>1, <2>2, <2>4, RestFacts
    <3>2. n - 1 \notin T
      BY <2>1
    <3>3. Good(Rest(s))
      BY <3>1, <3>2
    <3>4. /\ g[s] = v[WordOf(Pick(s), f)] + g[Rest(s)]
          /\ h[s] = w[WordOf(Pick(s), f)] + h[Rest(s)]
      BY <2>4, <1>1, <1>2 DEF Adds
    <3>5. /\ v[WordOf(Pick(s), f)] \in Nat /\ w[WordOf(Pick(s), f)] \in Nat
          /\ v[WordOf(Pick(s), f)] <= w[WordOf(Pick(s), f)]
      BY <3>1 DEF Words
    <3>6. \A c \in s : c = Pick(s) \/ c \in Rest(s)
      BY DEF Rest
    <3> QED BY <2>2, <3>3, <3>4, <3>5, <3>6
  <2> QED BY <2>3, <2>4
<1>4. Cardinality(Cpus) \in Nat /\ Cpus \in SUBSET Cpus
  BY MapAssumption, FS_Interval DEF Cpus
<1>5. Good(Cpus)
  BY <1>3, <1>4
<1> QED BY <1>1, <1>2, <1>5

-----------------------------------------------------------------------------
(***************************************************************************)
(* What the other definitions give.                                        *)
(***************************************************************************)
\* The value type is fixed, and with it what user space makes of an entry.
LEMMA SumSame == ASSUME kind' = kind PROVE \A w, f : SumField(w, f)' = SumField(w, f)
BY DEF SumField, MapThenSumSet, MapThenFoldSet, WordOf, Fields

\* Nor does the reduction of a value change with the state.
LEMMA ReduceSame == ASSUME kind' = kind PROVE \A w : Reduce(w)' = Reduce(w)
<1>1. \A w, m : min_max_value(w, m)' = min_max_value(w, m)
  BY DEF min_max_value, WordOf, Fields
<1> QED BY <1>1, SumSame DEF Reduce, reduce_value, avg_value

\* The words of an entry are those of its CPUs.
LEMMA Layout ==
    /\ Fields \in {1, 2} /\ NWords \in Nat \ {0} /\ NWords = NCpus * Fields
    /\ \A c \in Cpus, f \in 1 .. Fields : WordOf(c, f) \in 1 .. NWords
    /\ \A n \in 1 .. NWords : CpuOf(n) \in Cpus
    /\ Fields = 1 => \A c \in Nat : WordOf(c, 1) = c
<1>1. Fields = 1 \/ Fields = 2
  BY DEF Fields
<1>2. NCpus \in Nat \ {0}
  BY MapAssumption
<1>3. CASE Fields = 1
  <2>1. NWords = NCpus
    BY <1>2, <1>3 DEF NWords
  <2>2. \A c \in Nat : WordOf(c, 1) = c /\ CpuOf(c) = c
    BY <1>3 DEF WordOf, CpuOf
  <2> QED BY <2>1, <2>2, <1>2, <1>3 DEF Cpus
<1>4. CASE Fields = 2
  <2>1. NWords = 2 * NCpus
    BY <1>2, <1>4 DEF NWords
  <2>2. \A c \in Cpus, f \in 1 .. 2 : WordOf(c, f) = 2 * c - 2 + f
    BY <1>4 DEF WordOf, Cpus
  <2>3. \A n \in 1 .. NWords : CpuOf(n) \in Cpus
    BY <2>1, <1>2, <1>4 DEF CpuOf, Cpus
  <2> QED BY <2>1, <2>2, <2>3, <1>2, <1>4 DEF Cpus
<1> QED BY <1>1, <1>3, <1>4

\* The least element of a set of keys.
LEMMA MinFacts ==
    ASSUME NEW S, S \subseteq Nat, S # {}
    PROVE  Min(S) \in S /\ \A y \in S : Min(S) <= y
<1>1. \E x \in S : \A y \in S : x <= y
  BY Least
<1> QED BY <1>1 DEF Min

\* The key after k, or the first one when k is not there.
LEMMA NextFacts ==
    ASSUME NEW k \in Nat
    PROVE  /\ Present \subseteq Keys /\ Keys \subseteq Nat \ {0}
           /\ NextKey(k) = 0 => \A j \in Present : k \in Present /\ j <= k
           /\ NextKey(k) # 0 =>
                 /\ NextKey(k) \in Present
                 /\ k \in Present => NextKey(k) > k
                 /\ \A j \in Present : (k \in Present => j > k) => NextKey(k) <= j
<1> DEFINE after == {j \in Present : k \in Present => j > k}
<1>1. Present \subseteq Keys /\ Keys \subseteq Nat \ {0}
  BY MapAssumption DEF Present, Keys
<1>2. CASE after = {}
  BY <1>1, <1>2 DEF NextKey
<1>3. CASE after # {}
  <2>1. NextKey(k) = Min(after) /\ after \subseteq Nat
    BY <1>1, <1>3 DEF NextKey
  <2>2. Min(after) \in after /\ \A y \in after : Min(after) <= y
    BY <2>1, <1>3, MinFacts
  <2> QED BY <1>1, <2>1, <2>2
<1> QED BY <1>2, <1>3

\* Queues, their last element and what is appended to them.
LEMMA SeqFacts ==
    ASSUME NEW S, NEW q \in Seq(S)
    PROVE  /\ Len(q) \in Nat /\ DOMAIN q = 1 .. Len(q) /\ (q = <<>> <=> Len(q) = 0)
           /\ \A i \in 1 .. Len(q) : q[i] \in S
           /\ q # <<>> => Last(q) = q[Len(q)] /\ Last(q) \in S
           /\ \A x \in S : /\ Append(q, x) \in Seq(S) /\ Len(Append(q, x)) = Len(q) + 1
                           /\ \A i \in 1 .. Len(q) : Append(q, x)[i] = q[i]
                           /\ Append(q, x)[Len(q) + 1] = x
BY DEF Last

\* Functions with the same values are the same.
LEMMA SameFunction ==
    ASSUME NEW S, NEW T, NEW v \in [S -> T], NEW w \in [S -> T], \A x \in S : v[x] = w[x]
    PROVE  v = w
OBVIOUS

-----------------------------------------------------------------------------
(***************************************************************************)
(* Types.                                                                  *)
(***************************************************************************)
Entries == [1 .. NWords -> Nat]
Shows == [key : Keys, val : {Reduce(w) : w \in Entries}]
Programs == [pc : {"idle", "found", "missing", "store1", "store2"}, key : 0 .. NKeys,
             val : Nat, slot : 0 .. NSlots, w : [1 .. 2 -> Nat]]

FixedOK ==
    kind \in Kinds /\ array \in BOOLEAN /\ cap \in Slots /\ (array => kind = "count")
KernelOK == /\ slot \in [Keys -> 0 .. NSlots]
            /\ mem \in [Slots -> Entries]
            /\ stale \subseteq Slots
ProgOK ==
    /\ prog \in [Cpus -> Programs]
    /\ \A c \in Cpus :
          /\ prog[c].pc # "idle" => prog[c].key \in Keys
          /\ prog[c].pc \in {"found", "store1", "store2"} => prog[c].slot \in Slots
    /\ hits \in 0 .. MaxHits /\ ops \in 0 .. MaxOps
UserOK ==
    /\ upc \in {"idle", "walk", "each", "copy", "zero"}
    /\ op \in {"print", "zero", "clear"}
    /\ keys \in Seq(Keys) /\ idx \in 1 .. Len(keys) + 1
    /\ upc = "idle" => keys = <<>>
    /\ upc \in {"idle", "walk"} => idx = 1
    /\ buf \in Seq(Nat) /\ out \in Seq(Shows)
    /\ upc \in {"idle", "walk", "each"} => buf = <<>>
    /\ upc \in {"copy", "zero"} => cur \in Slots /\ idx <= Len(keys) /\ Len(buf) < NWords
    /\ upc = "copy" => op = "print"
    /\ upc = "zero" => op = "zero"
PastOK == past \in [keys : SUBSET Keys, count : [Keys -> Nat], lost : SUBSET Keys, hits : Nat]
TypeInv == FixedOK /\ KernelOK /\ ProgOK /\ UserOK /\ PastOK

\* The counts of a key are a natural number.
LEMMA TotalsType == ASSUME KernelOK PROVE Totals \in [Keys -> Nat]
<1> SUFFICES ASSUME NEW k \in Keys, slot[k] # 0 PROVE SumField(mem[slot[k]], 1) \in Nat
  BY DEF Totals
<1>1. mem[slot[k]] \in Entries
  BY DEF KernelOK, Slots
<1>2. Words(mem[slot[k]], 1)
  <2>1. \A c \in Cpus : WordOf(c, 1) \in 1 .. NWords
    BY Layout
  <2>2. \A n \in 1 .. NWords : mem[slot[k]][n] \in Nat
    BY <1>1 DEF Entries
  <2> QED BY <2>1, <2>2 DEF Words
<1> QED BY <1>2, SumGrows, MapAssumption DEF Words, Cpus

\* What the value type decides stays as it is.
LEMMA SameTypes ==
    ASSUME UNCHANGED fixed
    PROVE  /\ Fields' = Fields /\ NWords' = NWords /\ Entries' = Entries /\ Shows' = Shows
           /\ ZeroEntry' = ZeroEntry
           /\ FixedOK => FixedOK'
<1>1. Fields' = Fields
  BY DEF fixed, Fields
<1>2. NWords' = NWords
  BY <1>1 DEF NWords
<1>3. Shows' = Shows
  BY <1>2, ReduceSame DEF Shows, Entries, fixed
<1> QED BY <1>1, <1>2, <1>3 DEF Entries, ZeroEntry, fixed, FixedOK

\* Every step keeps the types.
LEMMA TypeStep == TypeInv /\ [Next]_vars => TypeInv'
<1> SUFFICES ASSUME TypeInv, [Next]_vars PROVE TypeInv'
  OBVIOUS
<1>1. /\ slot \in [Keys -> 0 .. NSlots] /\ mem \in [Slots -> Entries] /\ stale \subseteq Slots
      /\ prog \in [Cpus -> Programs]
      /\ Keys \subseteq 0 .. NKeys /\ 0 \notin Keys /\ Slots = 1 .. NSlots /\ NSlots \in Nat
      /\ MaxHits \in Nat /\ MaxOps \in Nat
      /\ hits \in 0 .. MaxHits /\ ops \in 0 .. MaxOps
  BY MapAssumption DEF TypeInv, KernelOK, ProgOK, Keys, Slots
<1>2. ASSUME UNCHANGED fixed
      PROVE  /\ NWords' = NWords /\ Entries' = Entries /\ Shows' = Shows /\ FixedOK'
             /\ UNCHANGED <<slot, mem, stale>> => KernelOK'
             /\ UNCHANGED <<prog, hits, ops>> => ProgOK'
             /\ UNCHANGED user => UserOK'
             /\ UNCHANGED past => PastOK'
  <2>1. NWords' = NWords /\ Entries' = Entries /\ Shows' = Shows /\ FixedOK'
    BY <1>2, SameTypes DEF TypeInv
  <2>2. ASSUME UNCHANGED <<slot, mem, stale>> PROVE KernelOK'
    BY <2>1, <2>2 DEF TypeInv, KernelOK
  <2>3. ASSUME UNCHANGED <<prog, hits, ops>> PROVE ProgOK'
    BY <2>3 DEF TypeInv, ProgOK
  <2>4. ASSUME UNCHANGED user PROVE UserOK'
    BY <2>1, <2>4 DEF TypeInv, UserOK, user
  <2>5. ASSUME UNCHANGED past PROVE PastOK'
    BY <2>5 DEF TypeInv, PastOK
  <2> QED BY <2>1, <2>2, <2>3, <2>4, <2>5
<1>3. CASE UNCHANGED vars
  BY <1>2, <1>3 DEF vars, kernel, TypeInv
<1>4. Idle \in Programs /\ Idle.pc = "idle"
  <2>1. <<0, 0>> \in [1 .. 2 -> Nat]
    OBVIOUS
  <2>2. 0 \in 0 .. NKeys /\ 0 \in 0 .. NSlots
    BY MapAssumption
  <2> QED BY <2>1, <2>2 DEF Idle, Programs
<1>5. ASSUME NEW c \in Cpus, NEW p \in Programs, prog' = [prog EXCEPT ![c] = p],
             p.pc # "idle" => p.key \in Keys,
             p.pc \in {"found", "store1", "store2"} => p.slot \in Slots,
             hits' \in 0 .. MaxHits, ops' = ops
      PROVE  ProgOK'
  BY <1>1, <1>5 DEF TypeInv, ProgOK
<1>6. ASSUME NEW c \in Cpus, prog[c].pc # "idle"
      PROVE  prog[c] \in Programs /\ prog[c].key \in Keys
  BY <1>1, <1>6 DEF TypeInv, ProgOK
<1>7. ASSUME NEW c \in Cpus, NEW k \in ScriptKeys,
             Lookup(c, k, IF Fields = 1 THEN 1 ELSE Samples[hits + 1])
      PROVE  TypeInv'
  <2> DEFINE v == IF Fields = 1 THEN 1 ELSE Samples[hits + 1]
             p == [Idle EXCEPT !.pc = IF slot[k] # 0 THEN "found" ELSE "missing",
                               !.key = k, !.val = v, !.slot = slot[k]]
  <2>1. k \in Keys
    BY MapAssumption DEF ScriptKeys, Keys
  <2>2. v \in Nat
    BY <1>1, <1>7, MapAssumption DEF Lookup
  <2>3. slot[k] \in 0 .. NSlots
    BY <1>1, <2>1
  <2>4. p \in Programs /\ p.key = k /\ p.slot = slot[k] /\ (slot[k] = 0 => p.pc = "missing")
    BY <1>1, <1>4, <2>1, <2>2, <2>3 DEF Idle, Programs
  <2>5. /\ UNCHANGED <<fixed, slot, mem, stale, ops, user, past>> /\ hits' \in 0 .. MaxHits
        /\ prog' = [prog EXCEPT ![c] = p]
    BY <1>1, <1>7 DEF Lookup, kernel
  <2> HIDE DEF p
  <2>6. ProgOK'
    <3>1. p.pc \in {"found", "store1", "store2"} => p.slot \in Slots
      BY <1>1, <2>3, <2>4
    <3>2. p.pc # "idle" => p.key \in Keys
      BY <2>1, <2>4
    <3>3. hits' \in 0 .. MaxHits /\ ops' = ops /\ prog' = [prog EXCEPT ![c] = p]
      BY <2>5
    <3> QED BY <1>5, <2>4, <3>1, <3>2, <3>3
  <2> QED BY <1>2, <2>5, <2>6 DEF TypeInv
<1>8. ASSUME NEW c \in Cpus, Load(c) PROVE TypeInv'
  <2> DEFINE p == prog[c]
             w == [f \in 1 .. 2 |-> IF f <= Fields THEN mem[p.slot][WordOf(c, f)] ELSE 0]
             q == [p EXCEPT !.pc = "store1", !.w = w]
  <2>1. p \in Programs /\ p.key \in Keys /\ p.slot \in Slots
    BY <1>6, <1>8 DEF Load, TypeInv, ProgOK
  <2>2. mem[p.slot] \in Entries
    BY <1>1, <2>1
  <2>3. w \in [1 .. 2 -> Nat]
    <3>1. \A f \in 1 .. 2 : f <= Fields => mem[p.slot][WordOf(c, f)] \in Nat
      <4>1. \A f \in 1 .. 2 : f <= Fields => WordOf(c, f) \in 1 .. NWords
        BY Layout
      <4> QED BY <2>2, <4>1 DEF Entries
    <3> QED BY <3>1
  <2>4. q \in Programs /\ q.key \in Keys /\ q.slot \in Slots
    BY <2>1, <2>3 DEF Programs
  <2>5. /\ UNCHANGED <<fixed, slot, mem, hits, ops, user, past>>
        /\ prog' = [prog EXCEPT ![c] = Idle] \/ prog' = [prog EXCEPT ![c] = q]
        /\ stale' \in {stale, stale \cup {p.slot}}
    BY <1>1, <1>8 DEF Load, Record
  <2> HIDE DEF p, q
  <2>6. ProgOK'
    BY <1>1, <1>4, <1>5, <2>4, <2>5
  <2>7. KernelOK'
    BY <1>1, <1>2, <2>1, <2>5 DEF KernelOK
  <2> QED BY <1>2, <2>5, <2>6, <2>7 DEF TypeInv
<1>9. ASSUME NEW c \in Cpus, Store1(c) PROVE TypeInv'
  <2> DEFINE p == prog[c]
             q == [p EXCEPT !.pc = "store2"]
  <2>1. p \in Programs /\ p.key \in Keys /\ p.slot \in Slots
    BY <1>6, <1>9 DEF Store1, TypeInv, ProgOK
  <2>2. NewWord1(p) \in Nat
    <3>1. p.w[1] \in Nat /\ p.val \in Nat
      BY <2>1 DEF Programs
    <3>2. kind \in {"count", "hist", "min", "max", "avg"}
      BY MapAssumption DEF TypeInv, FixedOK
    <3> QED BY <3>1, <3>2 DEF NewWord1
  <2>3. q \in Programs /\ q.key \in Keys /\ q.slot \in Slots
    BY <2>1 DEF Programs
  <2>4. /\ UNCHANGED <<fixed, slot, hits, ops, user, past>>
        /\ mem' = [mem EXCEPT ![p.slot][WordOf(c, 1)] = NewWord1(p)]
        /\ prog' = [prog EXCEPT ![c] = Idle] \/ prog' = [prog EXCEPT ![c] = q]
        /\ stale' \in {stale, stale \cup {p.slot}}
    BY <1>1, <1>9 DEF Store1, Record
  <2> HIDE DEF p, q
  <2>5. ProgOK'
    BY <1>1, <1>4, <1>5, <2>3, <2>4
  <2>6. mem' \in [Slots -> Entries]
    BY <1>1, <2>1, <2>2, <2>4 DEF Entries
  <2>7. KernelOK'
    BY <1>1, <1>2, <2>1, <2>4, <2>6 DEF KernelOK
  <2> QED BY <1>2, <2>4, <2>5, <2>7 DEF TypeInv
<1>10. ASSUME NEW c \in Cpus, Store2(c) PROVE TypeInv'
  <2> DEFINE p == prog[c]
  <2>1. p \in Programs /\ p.slot \in Slots
    BY <1>6, <1>10 DEF Store2, TypeInv, ProgOK
  <2>2. NewWord2(p) \in Nat
    BY <2>1 DEF NewWord2, Programs
  <2>3. /\ UNCHANGED <<fixed, slot, hits, ops, user, past>>
        /\ mem' = [mem EXCEPT ![p.slot][WordOf(c, 2)] = NewWord2(p)]
        /\ prog' = [prog EXCEPT ![c] = Idle]
        /\ stale' \in {stale, stale \cup {p.slot}}
    BY <1>10 DEF Store2, Record
  <2> HIDE DEF p
  <2>4. ProgOK'
    BY <1>1, <1>4, <1>5, <2>3
  <2>5. mem' \in [Slots -> Entries]
    BY <1>1, <2>1, <2>2, <2>3 DEF Entries
  <2>6. KernelOK'
    BY <1>1, <1>2, <2>1, <2>3, <2>5 DEF KernelOK
  <2> QED BY <1>2, <2>3, <2>4, <2>6 DEF TypeInv
<1>11. ZeroEntry \in Entries
  BY DEF ZeroEntry, Entries
<1>12. ASSUME NEW c \in Cpus, NEW v \in Nat, NEW old \in Entries
       PROVE  FirstWords(c, v, old) \in Entries
  <2>1. WordOf(c, 1) \in 1 .. NWords /\ (Fields # 1 => WordOf(c, 2) \in 1 .. NWords)
    BY Layout
  <2> QED BY <2>1 DEF FirstWords, Entries
<1>13. ASSUME NEW c \in Cpus, Insert(c) PROVE TypeInv'
  <2> DEFINE p == prog[c]
  <2>1. p \in Programs /\ p.key \in Keys /\ p.val \in Nat
    BY <1>6, <1>13 DEF Insert, Programs
  <2>2. UNCHANGED <<fixed, hits, ops, user, past>> /\ prog' = [prog EXCEPT ![c] = Idle]
    BY <1>13 DEF Insert
  <2>3. ProgOK'
    BY <1>1, <1>4, <1>5, <2>2
  <2>4. CASE slot[p.key] # 0
    <3>1. slot[p.key] \in Slots /\ UNCHANGED <<slot, stale>>
          /\ mem' = [mem EXCEPT ![slot[p.key]] = FirstWords(c, p.val, mem[slot[p.key]])]
      BY <1>1, <1>13, <2>1, <2>4 DEF Insert
    <3>2. FirstWords(c, p.val, mem[slot[p.key]]) \in Entries
      BY <1>1, <1>12, <2>1, <3>1
    <3>3. mem' \in [Slots -> Entries]
      BY <1>1, <3>1, <3>2
    <3>4. KernelOK'
      BY <1>1, <1>2, <2>2, <3>1, <3>3 DEF KernelOK
    <3> QED BY <1>2, <2>2, <2>3, <3>4 DEF TypeInv
  <2>5. CASE slot[p.key] = 0 /\ UNCHANGED kernel
    BY <1>2, <2>2, <2>3, <2>5 DEF kernel, TypeInv
  <2>6. CASE slot[p.key] = 0 /\ ~ UNCHANGED kernel
    <3>1. PICK s \in Free : /\ slot' = [slot EXCEPT ![p.key] = s]
                            /\ mem' = [mem EXCEPT ![s] = FirstWords(c, p.val, ZeroEntry)]
                            /\ stale' \in {stale \cup {s}, stale \ {s}}
      BY <1>13, <2>6 DEF Insert
    <3>2. s \in Slots
      BY <1>1 DEF Free, TypeInv, FixedOK
    <3>3. FirstWords(c, p.val, ZeroEntry) \in Entries
      BY <1>11, <1>12, <2>1
    <3>4. mem' \in [Slots -> Entries]
      BY <1>1, <3>1, <3>2, <3>3
    <3>5. slot' \in [Keys -> 0 .. NSlots] /\ stale' \subseteq Slots
      BY <1>1, <2>1, <3>1, <3>2
    <3>6. KernelOK'
      BY <1>2, <2>2, <3>4, <3>5 DEF KernelOK
    <3> QED BY <1>2, <2>2, <2>3, <3>6 DEF TypeInv
  <2> QED BY <1>2, <2>2, <2>3, <2>4, <2>5, <2>6 DEF TypeInv
<1>14. ASSUME NEW k \in Keys, past' = [past EXCEPT !.lost = @ \cup {k}] PROVE PastOK'
  BY <1>14 DEF TypeInv, PastOK
<1>15. ASSUME NEW k \in Keys, slot[k] # 0, RemoveEntry(k), UNCHANGED fixed
       PROVE  KernelOK' /\ PastOK'
  <2>1. /\ slot' = [slot EXCEPT ![k] = 0] /\ mem' = mem
        /\ stale' \in {stale, stale \cup {slot[k]}} /\ slot[k] \in Slots
    BY <1>1, <1>15 DEF RemoveEntry
  <2>2. slot' \in [Keys -> 0 .. NSlots]
    BY <1>1, <2>1
  <2>3. PastOK'
    BY <1>14, <1>15 DEF RemoveEntry
  <2> QED BY <1>1, <1>2, <1>15, <2>1, <2>2, <2>3 DEF KernelOK
<1>16. ASSUME NEW c \in Cpus, NEW k \in ScriptKeys, Delete(c, k) PROVE TypeInv'
  <2>1. k \in Keys /\ slot[k] \in Slots /\ slot[k] # 0
    <3>1. k \in Keys
      BY MapAssumption DEF ScriptKeys, Keys
    <3>2. slot[k] \in 0 .. NSlots /\ slot[k] # 0
      BY <1>1, <1>16, <3>1 DEF Delete
    <3> QED BY <1>1, <3>1, <3>2
  <2>2. UNCHANGED <<fixed, prog, ops, user>> /\ hits' \in 0 .. MaxHits
    BY <1>1, <1>16 DEF Delete
  <2>3. ProgOK'
    BY <1>1, <2>2 DEF TypeInv, ProgOK
  <2>4. KernelOK' /\ PastOK'
    <3>1. CASE array
      <4>1. /\ mem' = [mem EXCEPT ![slot[k]][WordOf(c, 1)] = 0] /\ UNCHANGED <<slot, stale>>
            /\ past' = [past EXCEPT !.lost = @ \cup {k}]
        BY <1>16, <3>1 DEF Delete
      <4>2. mem' \in [Slots -> Entries]
        BY <1>1, <2>1, <4>1 DEF Entries
      <4> QED BY <1>1, <1>2, <1>14, <2>1, <2>2, <4>1, <4>2 DEF KernelOK
    <3>2. CASE ~array
      BY <1>15, <1>16, <2>1, <2>2, <3>2 DEF Delete
    <3> QED BY <3>1, <3>2
  <2> QED BY <1>2, <2>2, <2>3, <2>4 DEF TypeInv
<1>17. ASSUME NEW o \in {"print", "zero", "clear"}, Begin(o) PROVE TypeInv'
  <2>1. /\ UNCHANGED <<fixed, kernel, prog, hits, keys, idx, cur, buf>>
        /\ ops' = ops + 1 /\ ops < MaxOps /\ upc = "idle" /\ upc' = "walk" /\ out' = <<>>
        /\ op' \in {"print", "zero", "clear"}
    BY <1>17 DEF Begin
  <2>2. ProgOK'
    BY <1>1, <2>1 DEF TypeInv, ProgOK
  <2>3. UserOK'
    BY <1>2, <2>1 DEF TypeInv, UserOK
  <2>4. Present \in SUBSET Keys /\ Totals \in [Keys -> Nat]
    BY TotalsType DEF Present, TypeInv
  <2>5. PastOK'
    <3>1. past' = [keys |-> Present, count |-> Totals, lost |-> {},
                   hits |-> IF \A c \in Cpus : prog[c].pc = "idle" THEN hits ELSE MaxHits + 1]
      BY <1>17 DEF Begin
    <3>2. hits \in Nat /\ MaxHits + 1 \in Nat
      BY <1>1
    <3> QED BY <2>4, <3>1, <3>2 DEF PastOK
  <2> QED BY <1>2, <2>1, <2>2, <2>3, <2>5 DEF TypeInv, kernel
<1>18. /\ keys \in Seq(Keys) /\ Len(keys) \in Nat /\ idx \in 1 .. Len(keys) + 1
       /\ buf \in Seq(Nat) /\ Len(buf) \in Nat /\ out \in Seq(Shows)
  BY DEF TypeInv, UserOK
<1>19. ASSUME collect_keys PROVE TypeInv'
  <2> DEFINE k == IF keys = <<>> THEN 0 ELSE Last(keys)
             next == NextKey(k)
  <2>1. UNCHANGED <<fixed, kernel, prog, hits, ops, op, idx, cur, buf, out, past>>
        /\ upc = "walk"
    BY <1>19 DEF collect_keys
  <2>2. k \in Nat
    <3>1. keys # <<>> => Last(keys) \in Keys
      BY <1>18, SeqFacts
    <3> QED BY <3>1, NextFacts
  <2>3. next # 0 => next \in Keys
    BY <2>2, NextFacts
  <2>4. \/ next \in Keys /\ keys' = Append(keys, next) /\ upc' = "walk"
        \/ keys' = keys /\ upc' = "each"
    BY <1>19, <2>3 DEF collect_keys
  <2> HIDE DEF next
  <2>5. keys' \in Seq(Keys) /\ Len(keys') \in Nat
    <3>1. \A x \in Keys : Append(keys, x) \in Seq(Keys) /\ Len(Append(keys, x)) = Len(keys) + 1
      BY <1>18, SeqFacts
    <3>2. keys' = keys \/ keys' = Append(keys, next)
      BY <2>4
    <3>3. \A x \in Keys : Len(Append(keys, x)) \in Nat
      BY <1>18, <3>1
    <3> QED BY <1>18, <2>4, <3>1, <3>2, <3>3
  <2>6. UserOK'
    BY <1>2, <2>1, <2>4, <2>5 DEF TypeInv, UserOK
  <2> QED BY <1>2, <2>1, <2>6 DEF TypeInv, kernel
<1>20. ASSUME idx <= Len(keys) PROVE keys[idx] \in Keys /\ idx + 1 \in 1 .. Len(keys) + 1
  BY <1>18, <1>20
<1>21. ASSUME Enter PROVE TypeInv'
  <2>1. /\ UNCHANGED <<fixed, kernel, prog, hits, ops, op, keys, buf, out, past>>
        /\ upc = "each" /\ idx <= Len(keys) /\ op # "clear" /\ buf = <<>>
        /\ \/ upc' = "each" /\ idx' = idx + 1 /\ cur' = cur
           \/ /\ slot[keys[idx]] # 0 /\ cur' = slot[keys[idx]] /\ idx' = idx
              /\ upc' = IF op = "print" THEN "copy" ELSE "zero"
    BY <1>21 DEF Enter, TypeInv, UserOK
  <2>2. slot[keys[idx]] # 0 => slot[keys[idx]] \in Slots
    <3>1. \A k \in Keys : slot[k] # 0 => slot[k] \in Slots
      BY <1>1
    <3> QED BY <1>20, <2>1, <3>1
  <2>3. Len(buf) = 0 /\ 0 < NWords
    BY <2>1, Layout
  <2>4. UserOK'
    BY <1>2, <1>18, <1>20, <2>1, <2>2, <2>3 DEF TypeInv, UserOK
  <2> QED BY <1>2, <2>1, <2>4 DEF TypeInv, kernel
<1>22. ASSUME upc \in {"copy", "zero"}
       PROVE  /\ Len(buf) + 1 \in 1 .. NWords /\ cur \in Slots /\ mem[cur] \in Entries
              /\ keys[idx] \in Keys /\ idx + 1 \in 1 .. Len(keys) + 1
  <2>1. /\ cur \in Slots /\ Len(buf) < NWords /\ idx \in 1 .. Len(keys) + 1
        /\ idx <= Len(keys)
    BY <1>22 DEF TypeInv, UserOK
  <2>2. NWords \in Nat
    BY Layout
  <2>3. mem[cur] \in Entries
    BY <1>1, <2>1
  <2>4. keys[idx] \in Keys
    BY <1>20, <1>22, <2>1
  <2> QED BY <1>18, <2>1, <2>2, <2>3, <2>4
<1>23. ASSUME CopyWord PROVE TypeInv'
  <2> DEFINE x == mem[cur][Len(buf) + 1]
             w == Append(buf, x)
             v == [key |-> keys[idx], val |-> Reduce(w)]
  <2>1. /\ UNCHANGED <<fixed, kernel, prog, hits, ops, op, keys, past>> /\ upc = "copy"
        /\ \/ Len(w) < NWords /\ buf' = w /\ UNCHANGED <<out, upc, idx, cur>>
           \/ ~(Len(w) < NWords) /\ out' = Collect(keys[idx], Reduce(w)) /\ NextEntry
    BY <1>23 DEF CopyWord
  <2>2. x \in Nat /\ w \in Seq(Nat) /\ Len(w) = Len(buf) + 1
    <3>1. x \in Nat
      <4>1. \A e \in Entries : \A i \in 1 .. NWords : e[i] \in Nat
        BY DEF Entries
      <4> QED BY <1>22, <2>1, <4>1
    <3> HIDE DEF x
    <3> QED BY <1>18, <3>1, SeqFacts
  <2> HIDE DEF w
  <2>3. CASE Len(w) < NWords
    BY <1>2, <2>1, <2>2, <2>3 DEF TypeInv, UserOK, kernel
  <2>4. CASE ~(Len(w) < NWords)
    <3>1. w \in Entries
      <4>1. Len(w) = NWords /\ NWords \in Nat
        BY <1>22, <2>1, <2>2, <2>4, Layout
      <4>2. \A i \in 1 .. Len(w) : w[i] \in Nat
        BY <2>2
      <4>3. w \in [1 .. Len(w) -> Nat]
        BY <2>2
      <4> QED BY <4>1, <4>3 DEF Entries
    <3>2. v \in Shows
      BY <1>22, <2>1, <3>1 DEF Shows
    <3>3. out' \in Seq(Shows)
      <4>1. Append(out, v) \in Seq(Shows)
        BY <1>18, <3>2, SeqFacts
      <4>2. [i \in DOMAIN out |-> IF out[i].key = keys[idx] THEN v ELSE out[i]] \in Seq(Shows)
        <5>1. DOMAIN out = 1 .. Len(out) /\ Len(out) \in Nat
          BY <1>18, SeqFacts
        <5>2. \A i \in 1 .. Len(out) : out[i] \in Shows
          BY <1>18, SeqFacts
        <5> HIDE DEF v
        <5> QED BY <3>2, <5>1, <5>2
      <4> QED BY <2>1, <2>4, <4>1, <4>2 DEF Collect
    <3>4. /\ upc' = "each" /\ idx' = idx + 1 /\ buf' = <<>> /\ UNCHANGED <<keys, op>>
          /\ op = "print"
      BY <2>1, <2>4 DEF NextEntry, TypeInv, UserOK
    <3>5. UserOK'
      BY <1>2, <1>18, <1>22, <2>1, <3>3, <3>4 DEF UserOK
    <3> QED BY <1>2, <2>1, <3>5 DEF TypeInv, kernel
  <2> QED BY <2>3, <2>4
<1>24. ASSUME ZeroWord PROVE TypeInv'
  <2> DEFINE n == Len(buf) + 1
  <2>1. /\ UNCHANGED <<fixed, slot, prog, hits, ops, op, keys, out>> /\ upc = "zero"
        /\ mem' = [mem EXCEPT ![cur][n] = 0] /\ stale' \in {stale, stale \cup {cur}}
        /\ past' = [past EXCEPT !.lost = @ \cup {keys[idx]}]
        /\ \/ n < NWords /\ buf' = Append(buf, 0) /\ UNCHANGED <<upc, idx, cur>>
           \/ NextEntry
    BY <1>24 DEF ZeroWord
  <2>2. mem' \in [Slots -> Entries]
    BY <1>1, <1>22, <2>1 DEF Entries
  <2>3. KernelOK' /\ PastOK'
    BY <1>1, <1>2, <1>14, <1>22, <2>1, <2>2 DEF KernelOK
  <2>4. Append(buf, 0) \in Seq(Nat) /\ Len(Append(buf, 0)) = n
    BY <1>18, SeqFacts
  <2> DEFINE b == Append(buf, 0)
  <2>5. op = "zero" /\ cur \in Slots /\ idx <= Len(keys) /\ NWords \in Nat
    BY <2>1, Layout DEF TypeInv, UserOK
  <2> HIDE DEF b
  <2>6. ASSUME n < NWords, buf' = b, UNCHANGED <<upc, idx, cur>> PROVE UserOK'
    BY <1>2, <1>18, <2>1, <2>4, <2>5, <2>6 DEF UserOK, b
  <2>7. ASSUME NextEntry PROVE UserOK'
    BY <1>2, <1>18, <1>22, <2>1, <2>5, <2>7 DEF UserOK, NextEntry
  <2> QED BY <1>2, <2>1, <2>3, <2>6, <2>7 DEF TypeInv, b
<1>25. ASSUME ClearKey PROVE TypeInv'
  <2>1. /\ UNCHANGED <<fixed, prog, hits, ops, upc, op, keys, cur, buf, out>>
        /\ upc = "each" /\ idx <= Len(keys) /\ idx' = idx + 1
        /\ \/ slot[keys[idx]] # 0 /\ RemoveEntry(keys[idx])
           \/ UNCHANGED <<kernel, past>>
    BY <1>25 DEF ClearKey
  <2>2. KernelOK' /\ PastOK'
    BY <1>2, <1>15, <1>20, <2>1 DEF kernel
  <2>3. UserOK'
    BY <1>2, <1>18, <1>20, <2>1 DEF TypeInv, UserOK
  <2> QED BY <1>2, <2>1, <2>2, <2>3 DEF TypeInv
<1>26. ASSUME End PROVE TypeInv'
  <2>1. /\ UNCHANGED <<fixed, kernel, prog, hits, ops, op, cur, buf, out, past>>
        /\ upc = "each" /\ upc' = "idle" /\ keys' = <<>> /\ idx' = 1
    BY <1>26 DEF End
  <2>2. UserOK'
    BY <1>2, <2>1 DEF TypeInv, UserOK
  <2> QED BY <1>2, <2>1, <2>2 DEF TypeInv, kernel
<1> QED BY <1>3, <1>7, <1>8, <1>9, <1>10, <1>13, <1>16, <1>17, <1>19, <1>21, <1>23, <1>24,
           <1>25, <1>26 DEF Next, ProgStep, UserStep

\* The first state is well typed.
LEMMA TypeInit == Init => TypeInv
<1> SUFFICES ASSUME Init PROVE TypeInv
  OBVIOUS
<1>1. /\ Keys \subseteq 0 .. NKeys /\ 0 \notin Keys /\ Slots = 1 .. NSlots /\ NSlots \in Nat \ {0}
      /\ MaxHits \in Nat /\ MaxOps \in Nat /\ NKeys \in Nat
  BY MapAssumption DEF Keys, Slots
<1>2. FixedOK
  BY <1>1 DEF Init, FixedOK
<1>3. KernelOK
  BY <1>1 DEF Init, KernelOK, ZeroEntry, Entries
<1>4. ProgOK
  <2>1. <<0, 0>> \in [1 .. 2 -> Nat]
    OBVIOUS
  <2>2. Idle \in Programs /\ Idle.pc = "idle"
    BY <1>1, <2>1 DEF Idle, Programs
  <2> QED BY <1>1, <2>2 DEF Init, ProgOK
<1>5. UserOK
  BY <1>1 DEF Init, UserOK
<1>6. PastOK
  BY <1>1 DEF Init, PastOK
<1> QED BY <1>2, <1>3, <1>4, <1>5, <1>6 DEF TypeInv

-----------------------------------------------------------------------------
(***************************************************************************)
(* Counts.  What print shows of a map of counts.                           *)
(***************************************************************************)
\* An entry belongs to one key.
Injective == \A j, k \in Keys : (slot[j] = slot[k] /\ slot[j] # 0) => j = k

\* A program that has loaded a count stores no less than what is there, and one that
\* found no entry has none of its own in an entry made since.
Counting ==
    kind = "count" =>
        \A c \in Cpus :
            /\ prog[c].pc # "store2"
            /\ prog[c].pc = "store1" => mem[prog[c].slot][c] <= prog[c].w[1]
            /\ (prog[c].pc = "missing" /\ slot[prog[c].key] # 0)
                  => mem[slot[prog[c].key]][c] = 0

\* What the system call in progress would return if no program stored any more.
Mixed == [i \in 1 .. NWords |-> IF i <= Len(buf) THEN buf[i] ELSE mem[cur][i]]

\* Keys that lose no counts have no less than when the print began, in what has been
\* copied of their words, too, and no more than now.
Reading ==
    Printing =>
        /\ \A k \in Keys \ past.lost : past.count[k] <= Totals[k]
        /\ (upc = "copy" /\ keys[idx] \notin past.lost) =>
              /\ slot[keys[idx]] = cur
              /\ \A i \in 1 .. Len(buf) : buf[i] <= mem[cur][i]
              /\ past.count[keys[idx]] <= SumField(Mixed, 1)

\* In a map of counts an entry has one word for each CPU, its sum is a number.
LEMMA SumLe ==
    ASSUME kind = "count"
    PROVE  /\ Fields = 1 /\ Cpus = 1 .. NWords /\ \A c \in Cpus : WordOf(c, 1) = c
           /\ \A v \in Entries : SumField(v, 1) \in Nat
           /\ \A v, w \in Entries :
                 (\A i \in 1 .. NWords : v[i] <= w[i]) => SumField(v, 1) <= SumField(w, 1)
<1>1. Fields = 1 /\ NWords = NCpus
  BY MapAssumption DEF Fields, NWords
<1>2. Cpus = 1 .. NWords /\ \A c \in Cpus : WordOf(c, 1) = c
  BY <1>1, Layout DEF Cpus
<1>3. ASSUME NEW v \in Entries, NEW w \in Entries, \A i \in 1 .. NWords : v[i] <= w[i]
      PROVE  /\ SumField(v, 1) \in Nat /\ SumField(w, 1) \in Nat
             /\ SumField(v, 1) <= SumField(w, 1)
  <2>1. Words(v, 1) /\ Words(w, 1)
    BY <1>2 DEF Words, Entries
  <2>2. \A c \in Cpus : v[WordOf(c, 1)] <= w[WordOf(c, 1)]
    BY <1>2, <1>3
  <2> QED BY <2>1, <2>2, SumGrows
<1>4. \A v \in Entries : \A i \in 1 .. NWords : v[i] <= v[i]
  BY DEF Entries
<1> QED BY <1>1, <1>2, <1>3, <1>4

\* Totals before and after a step.
LEMMA TotalsFacts ==
    ASSUME TypeInv, TypeInv', UNCHANGED fixed
    PROVE  /\ Totals \in [Keys -> Nat] /\ Totals' \in [Keys -> Nat]
           /\ kind # "count" => Totals' = Totals
           /\ kind = "count" =>
                 \A k \in Keys :
                    /\ Totals[k] = IF slot[k] = 0 THEN 0 ELSE SumField(mem[slot[k]], 1)
                    /\ Totals'[k] = IF slot'[k] = 0 THEN 0 ELSE SumField(mem'[slot'[k]], 1)
<1>1. Totals \in [Keys -> Nat]
  BY TotalsType DEF TypeInv
<1>2. kind # "count" => Totals' = Totals
  BY DEF Totals, fixed
<1>3. ASSUME kind = "count", NEW k \in Keys
      PROVE  /\ Totals[k] = IF slot[k] = 0 THEN 0 ELSE SumField(mem[slot[k]], 1)
             /\ Totals'[k] = IF slot'[k] = 0 THEN 0 ELSE SumField(mem'[slot'[k]], 1)
  BY <1>3, SumSame DEF Totals, fixed
<1>4. Totals' \in [Keys -> Nat]
  <2>1. CASE kind # "count"
    BY <1>1, <1>2, <2>1
  <2>2. CASE kind = "count"
    <3>1. ASSUME NEW k \in Keys PROVE Totals'[k] \in Nat
      <4>1. CASE slot'[k] = 0
        BY <1>3, <2>2, <4>1
      <4>2. CASE slot'[k] # 0
        <5>1. mem'[slot'[k]] \in Entries
          <6>1. slot'[k] \in Slots /\ mem' \in [Slots -> Entries']
            BY <4>2 DEF TypeInv, KernelOK, Slots
          <6>2. Entries' = Entries
            BY SameTypes
          <6> QED BY <6>1, <6>2
        <5>2. SumField(mem'[slot'[k]], 1) \in Nat
          BY <2>2, <5>1, SumLe
        <5> QED BY <1>3, <2>2, <4>2, <5>2
      <4> QED BY <4>1, <4>2
    <3>2. Totals' = [k \in Keys |-> Totals'[k]]
      BY DEF Totals
    <3> QED BY <3>1, <3>2
  <2> QED BY <2>1, <2>2
<1> QED BY <1>1, <1>2, <1>3, <1>4

\* The keys that stay keep their entries, and the words of these only grow.
Kept ==
    \A k \in Keys \ past'.lost :
        slot[k] # 0 => /\ slot'[k] = slot[k]
                       /\ \A i \in 1 .. NWords : mem[slot[k]][i] <= mem'[slot[k]][i]

\* What was copied stays below what is there.
LEMMA KeptReading ==
    ASSUME TypeInv, TypeInv', Reading, UNCHANGED <<fixed, user>>, Kept,
           past'.count = past.count, past.lost \subseteq past'.lost
    PROVE  Reading'
<1> SUFFICES ASSUME Printing
             PROVE  /\ \A k \in Keys \ past'.lost : past.count[k] <= Totals'[k]
                    /\ (upc = "copy" /\ keys[idx] \notin past'.lost) =>
                          /\ slot'[keys[idx]] = cur
                          /\ \A i \in 1 .. Len(buf) : buf[i] <= mem'[cur][i]
                          /\ past.count[keys[idx]] <= SumField(Mixed', 1)
  <2>1. /\ Printing' = Printing /\ UNCHANGED <<upc, keys, idx, buf, cur>>
        /\ SumField(Mixed, 1)' = SumField(Mixed', 1)
    BY SumSame DEF Printing, fixed, user
  <2> QED BY <2>1 DEF Reading
<1>1. kind = "count" /\ NWords' = NWords /\ Entries' = Entries
  BY SameTypes DEF Printing
<1>2. ASSUME NEW k \in Keys \ past'.lost PROVE past.count[k] <= Totals'[k]
  <2>1. past.count[k] <= Totals[k] /\ past.count[k] \in Nat
    BY DEF Reading, TypeInv, PastOK
  <2>2. Totals[k] \in Nat /\ Totals'[k] \in Nat
    BY TotalsFacts
  <2>3. CASE slot[k] = 0
    BY <1>1, <2>1, <2>2, <2>3, TotalsFacts
  <2>4. CASE slot[k] # 0
    <3>1. /\ slot'[k] = slot[k] /\ slot[k] \in Slots
          /\ \A i \in 1 .. NWords : mem[slot[k]][i] <= mem'[slot[k]][i]
      BY <2>4 DEF Kept, TypeInv, KernelOK, Slots
    <3>2. mem[slot[k]] \in Entries /\ mem'[slot[k]] \in Entries
      BY <1>1, <3>1 DEF TypeInv, KernelOK, Slots
    <3>3. SumField(mem[slot[k]], 1) <= SumField(mem'[slot[k]], 1)
      BY <1>1, <3>1, <3>2, SumLe
    <3>4. Totals[k] <= Totals'[k]
      BY <1>1, <2>4, <3>1, <3>3, TotalsFacts
    <3> QED BY <2>1, <2>2, <3>4
  <2> QED BY <2>3, <2>4
<1>3. ASSUME upc = "copy", keys[idx] \notin past'.lost
      PROVE  /\ slot'[keys[idx]] = cur
             /\ \A i \in 1 .. Len(buf) : buf[i] <= mem'[cur][i]
             /\ past.count[keys[idx]] <= SumField(Mixed', 1)
  <2> DEFINE k == keys[idx]
  <2>1. k \in Keys /\ cur \in Slots /\ cur # 0 /\ Len(buf) \in Nat /\ Len(buf) < NWords
        /\ buf \in Seq(Nat) /\ NWords \in Nat
    <3>1. keys \in Seq(Keys) /\ idx \in 1 .. Len(keys)
      BY <1>3 DEF TypeInv, UserOK
    <3>2. cur \in Slots /\ Len(buf) < NWords /\ buf \in Seq(Nat)
      BY <1>3 DEF TypeInv, UserOK
    <3>3. NWords \in Nat /\ \A s \in Slots : s # 0
      BY MapAssumption, Layout DEF Slots
    <3> QED BY <3>1, <3>2, <3>3, SeqFacts
  <2>2. /\ slot[k] = cur /\ \A i \in 1 .. Len(buf) : buf[i] <= mem[cur][i]
        /\ past.count[k] <= SumField(Mixed, 1)
    BY <1>3 DEF Reading
  <2> HIDE DEF k
  <2>3. slot'[k] = cur /\ \A i \in 1 .. NWords : mem[cur][i] <= mem'[cur][i]
    BY <1>3, <2>1, <2>2 DEF Kept, k
  <2>4. mem[cur] \in Entries /\ mem'[cur] \in Entries
    BY <1>1, <2>1 DEF TypeInv, KernelOK, Slots
  <2>5. \A i \in 1 .. NWords : mem[cur][i] \in Nat /\ mem'[cur][i] \in Nat
    BY <2>4 DEF Entries
  <2>6. \A i \in 1 .. Len(buf) : buf[i] <= mem'[cur][i] /\ buf[i] \in Nat
    BY <2>1, <2>2, <2>3, <2>5
  <2>7. /\ Mixed = [i \in 1 .. NWords |-> IF i <= Len(buf) THEN buf[i] ELSE mem[cur][i]]
        /\ Mixed' = [i \in 1 .. NWords |-> IF i <= Len(buf) THEN buf[i] ELSE mem'[cur][i]]
    BY <1>1 DEF Mixed, user
  <2>8. Mixed \in Entries /\ Mixed' \in Entries /\ \A i \in 1 .. NWords : Mixed[i] <= Mixed'[i]
    BY <2>1, <2>3, <2>5, <2>6, <2>7 DEF Entries
  <2>9. SumField(Mixed, 1) <= SumField(Mixed', 1)
    BY <1>1, <2>8, SumLe
  <2>10. past.count[k] \in Nat /\ SumField(Mixed, 1) \in Nat /\ SumField(Mixed', 1) \in Nat
    BY <1>1, <2>1, <2>8, SumLe DEF TypeInv, PastOK
  <2> QED BY <2>2, <2>3, <2>6, <2>9, <2>10 DEF k
<1> QED BY <1>2, <1>3

\* Only the counts of k change.
OnlyKey(k) == \A j \in Keys \ {k} : Totals'[j] = Totals[j]

\* A step that adds to the counts of a key, takes from them, or leaves all as they are,
\* is one of WeakCounters.
LEMMA Grows ==
    ASSUME TypeInv, TypeInv', UNCHANGED <<fixed, user, past>>,
           NEW k \in Keys, OnlyKey(k), Totals[k] <= Totals'[k]
    PROVE  [Counters!Next]_(Counters!avars)
<1>1. Totals \in [Keys -> Nat] /\ Totals' \in [Keys -> Nat]
  BY TotalsFacts
<1>2. Printing' = Printing /\ UNCHANGED <<past, out>>
  BY DEF Printing, fixed, user
<1>3. CASE Totals'[k] = Totals[k]
  <2>1. Totals' = Totals
    BY <1>1, <1>3 DEF OnlyKey
  <2> QED BY <1>2, <2>1 DEF Counters!avars
<1>4. CASE Totals'[k] # Totals[k]
  <2>1. Totals'[k] > Totals[k] /\ Totals'[k] \in Nat
    BY <1>1, <1>4
  <2>2. Totals' = [Totals EXCEPT ![k] = Totals'[k]]
    BY <1>1 DEF OnlyKey
  <2>3. Counters!Grow(k)
    BY <1>2, <2>1, <2>2 DEF Counters!Grow
  <2> QED BY <2>3 DEF Counters!Next
<1> QED BY <1>3, <1>4

\* A key whose entry goes is lost to the print under way.
LEMMA Loses ==
    ASSUME TypeInv, TypeInv', UNCHANGED fixed, Printing' <=> Printing,
           NEW k \in Keys, OnlyKey(k), Totals'[k] <= Totals[k],
           Printing => out' = out /\ past' = [past EXCEPT !.lost = @ \cup {k}]
    PROVE  [Counters!Next]_(Counters!avars)
<1>1. Totals \in [Keys -> Nat] /\ Totals' \in [Keys -> Nat]
  BY TotalsFacts
<1>2. Printing => past'.count = past.count /\ past'.lost = past.lost \cup {k}
  BY DEF TypeInv, PastOK
<1>3. Totals'[k] \in 0 .. Totals[k]
  BY <1>1
<1>4. Totals' = [Totals EXCEPT ![k] = Totals'[k]]
  BY <1>1 DEF OnlyKey
<1>5. Counters!Lose(k)
  BY <1>2, <1>3, <1>4 DEF Counters!Lose
<1> QED BY <1>5 DEF Counters!Next

\* A step that changes no total and no print is a stutter of the counters.
LEMMA Stutters ==
    ASSUME Totals' = Totals, Printing' <=> Printing,
           Printing => UNCHANGED <<out, past>>
    PROVE  [Counters!Next]_(Counters!avars)
BY DEF Counters!avars

\* An entry is no smaller than itself.
LEMMA EntryLe == \A e \in Entries : \A i \in 1 .. NWords : e[i] \in Nat /\ e[i] <= e[i]
BY DEF Entries

\* Nothing changes in the table, or an entry grows, or a key loses its entry.
LEMMA TableSame ==
    ASSUME TypeInv, TypeInv', UNCHANGED <<fixed, slot, mem>>
    PROVE  Totals' = Totals /\ Kept
<1>1. Totals \in [Keys -> Nat] /\ Totals' \in [Keys -> Nat]
  BY TotalsFacts
<1>2. \A k \in Keys : Totals'[k] = Totals[k]
  BY TotalsFacts
<1>3. \A s \in Slots : \A i \in 1 .. NWords : mem[s][i] <= mem'[s][i]
  BY EntryLe DEF TypeInv, KernelOK
<1>4. \A k \in Keys : slot[k] # 0 => slot[k] \in Slots
  BY DEF TypeInv, KernelOK, Slots
<1> QED BY <1>1, <1>2, <1>3, <1>4 DEF Kept

\* An entry that grows is a count, or several, of the abstract counters.
LEMMA EntryGrows ==
    ASSUME TypeInv, TypeInv', UNCHANGED <<fixed, slot, user, past>>, Injective,
           NEW s \in Slots, kind = "count", \A t \in Slots \ {s} : mem'[t] = mem[t],
           \A i \in 1 .. NWords : mem[s][i] <= mem'[s][i]
    PROVE  [Counters!Next]_(Counters!avars) /\ Kept
<1>1. \A t \in Slots : /\ mem[t] \in Entries /\ mem'[t] \in Entries
                       /\ \A i \in 1 .. NWords : mem[t][i] <= mem'[t][i]
  <2>1. Entries' = Entries
    BY SameTypes
  <2>2. \A t \in Slots : mem[t] \in Entries /\ mem'[t] \in Entries
    BY <2>1 DEF TypeInv, KernelOK
  <2> QED BY <2>2, EntryLe
<1>2. \A k \in Keys : slot[k] # 0 => slot[k] \in Slots
  BY DEF TypeInv, KernelOK, Slots
<1>3. Kept
  BY <1>1, <1>2 DEF Kept
<1>4. ASSUME NEW k \in Keys
      PROVE  Totals[k] <= Totals'[k] /\ (slot[k] # s => Totals'[k] = Totals[k])
  <2>1. CASE slot[k] = 0
    BY <2>1, TotalsFacts
  <2>2. CASE slot[k] # 0
    <3>1. SumField(mem[slot[k]], 1) <= SumField(mem'[slot[k]], 1)
      BY <1>1, <1>2, <2>2, SumLe
    <3>2. slot[k] # s => mem'[slot[k]] = mem[slot[k]]
      BY <1>2, <2>2
    <3> QED BY <2>2, <3>1, <3>2, TotalsFacts
  <2> QED BY <2>1, <2>2
<1>5. CASE \E k \in Keys : slot[k] = s
  <2>1. PICK k \in Keys : slot[k] = s
    BY <1>5
  <2>2. OnlyKey(k)
    BY <1>4, <2>1 DEF OnlyKey, Injective, Slots
  <2> QED BY <1>3, <1>4, <2>2, Grows
<1>6. CASE \A k \in Keys : slot[k] # s
  <2>1. Totals' = Totals
    BY <1>4, <1>6, TotalsFacts
  <2>2. Printing' = Printing /\ UNCHANGED <<out, past>>
    BY DEF Printing, user, fixed
  <2> QED BY <1>3, <2>1, <2>2, Stutters
<1> QED BY <1>5, <1>6

\* A key that loses its entry is the only one at its place, and its total falls.
LEMMA EntryGoes ==
    ASSUME TypeInv, TypeInv', UNCHANGED <<fixed, mem>>, Injective, NEW k \in Keys,
           slot' = [slot EXCEPT ![k] = 0], past' = [past EXCEPT !.lost = @ \cup {k}]
    PROVE  OnlyKey(k) /\ Totals'[k] <= Totals[k] /\ Kept /\ Injective'
<1>1. slot \in [Keys -> 0 .. NSlots] /\ \A j \in Keys : slot[j] # 0 => slot[j] \in Slots
  BY DEF TypeInv, KernelOK, Slots
<1>2. \A j \in Keys \ {k} : slot'[j] = slot[j]
  BY <1>1
<1>3. slot'[k] = 0
  BY <1>1
<1>4. past'.lost = past.lost \cup {k}
  BY DEF TypeInv, PastOK
<1>5. OnlyKey(k)
  BY <1>2, TotalsFacts DEF OnlyKey
<1>6. Totals'[k] <= Totals[k]
  <2>1. Totals[k] \in Nat
    BY TotalsFacts
  <2>2. CASE kind = "count"
    BY <1>3, <2>1, <2>2, TotalsFacts
  <2>3. CASE kind # "count"
    BY <2>1, <2>3, TotalsFacts
  <2> QED BY <2>2, <2>3
<1>7. Kept
  <2>1. \A s \in Slots : \A i \in 1 .. NWords : mem[s][i] <= mem[s][i]
    BY EntryLe DEF TypeInv, KernelOK
  <2> QED BY <1>1, <1>2, <1>4, <2>1 DEF Kept
<1>8. Injective'
  BY <1>2, <1>3 DEF Injective
<1> QED BY <1>5, <1>6, <1>7, <1>8

\* A program's step.
LEMMA ProgramCounts ==
    ASSUME TypeInv, TypeInv', Injective, Counting, Reading, kind = "count",
           NEW c \in Cpus, ProgStep(c)
    PROVE  [Counters!Next]_(Counters!avars) /\ Injective' /\ Counting' /\ Reading'
<1>1. /\ Fields = 1 /\ Cpus = 1 .. NWords /\ WordOf(c, 1) = c /\ NWords \in Nat
      /\ kind \notin {"min", "max"} /\ kind \notin {"hist"} /\ Keys \subseteq Nat
  BY SumLe, Layout, NextFacts
<1>2. /\ slot \in [Keys -> 0 .. NSlots] /\ mem \in [Slots -> Entries]
      /\ prog \in [Cpus -> Programs]
      /\ \A k \in Keys : slot[k] # 0 => slot[k] \in Slots
      /\ \A s \in Slots : \A i \in 1 .. NWords : mem[s][i] \in Nat
      /\ Slots \subseteq Nat \ {0}
  <2>1. slot \in [Keys -> 0 .. NSlots] /\ mem \in [Slots -> Entries] /\ prog \in [Cpus -> Programs]
    BY DEF TypeInv, KernelOK, ProgOK
  <2>2. \A k \in Keys : slot[k] # 0 => slot[k] \in Slots
    BY <2>1 DEF Slots
  <2>3. \A s \in Slots : \A i \in 1 .. NWords : mem[s][i] \in Nat
    BY <2>1, EntryLe
  <2> QED BY <2>1, <2>2, <2>3, MapAssumption DEF Slots
<1>3. ASSUME UNCHANGED <<fixed, user>>, Kept, past'.count = past.count,
             past.lost \subseteq past'.lost
      PROVE  Reading'
  BY <1>3, KeptReading
<1>4. ASSUME UNCHANGED <<fixed, slot, mem, user, past>>
      PROVE  [Counters!Next]_(Counters!avars) /\ Injective' /\ Reading'
  <2>1. Totals' = Totals /\ Kept
    BY <1>4, TableSame
  <2>2. Printing' = Printing /\ UNCHANGED <<out, past>>
    BY <1>4 DEF Printing, fixed, user
  <2>3. Injective'
    BY <1>4 DEF Injective
  <2> QED BY <1>3, <1>4, <2>1, <2>2, <2>3, Stutters
<1>5. ASSUME kind' = kind,
             \A d \in Cpus :
                /\ prog'[d].pc # "store2"
                /\ prog'[d].pc = "store1" => mem'[prog'[d].slot][d] <= prog'[d].w[1]
                /\ (prog'[d].pc = "missing" /\ slot'[prog'[d].key] # 0)
                      => mem'[slot'[prog'[d].key]][d] = 0
      PROVE  Counting'
  BY <1>5 DEF Counting
<1>6. /\ \A d \in Cpus :
            /\ prog[d].pc # "store2"
            /\ prog[d].pc = "store1" => mem[prog[d].slot][d] <= prog[d].w[1]
            /\ (prog[d].pc = "missing" /\ slot[prog[d].key] # 0)
                  => mem[slot[prog[d].key]][d] = 0
      /\ \A d \in Cpus :
            /\ prog[d].pc # "idle" => prog[d].key \in Keys
            /\ prog[d].pc \in {"found", "store1", "store2"} => prog[d].slot \in Slots
            /\ prog[d].w[1] \in Nat /\ prog[d].val \in Nat
  <2>1. \A d \in Cpus : prog[d] \in Programs
    BY <1>2
  <2> QED BY <2>1 DEF Counting, TypeInv, ProgOK, Programs
<1>7. ASSUME NEW k \in Keys, NEW v, Lookup(c, k, v) PROVE Counting'
  <2> DEFINE q == [Idle EXCEPT !.pc = IF slot[k] # 0 THEN "found" ELSE "missing",
                               !.key = k, !.val = v, !.slot = slot[k]]
  <2>1. UNCHANGED <<fixed, slot, mem>> /\ prog' = [prog EXCEPT ![c] = q]
    BY <1>7 DEF Lookup, kernel
  <2>2. q.key = k /\ q.pc \in {"found", "missing"} /\ (slot[k] # 0 => q.pc = "found")
    BY DEF Idle
  <2> HIDE DEF q
  <2>3. prog'[c] = q /\ \A d \in Cpus \ {c} : prog'[d] = prog[d]
    BY <1>2, <2>1
  <2> QED BY <1>5, <1>6, <2>1, <2>2, <2>3 DEF fixed
<1>8. ASSUME Load(c) PROVE Counting' /\ UNCHANGED <<fixed, slot, mem, user, past>>
  <2> DEFINE w == [f \in 1 .. 2 |->
                      IF f <= Fields THEN mem[prog[c].slot][WordOf(c, f)] ELSE 0]
             q == [prog[c] EXCEPT !.pc = "store1", !.w = w]
  <2>1. /\ UNCHANGED <<fixed, slot, mem, user, past>> /\ prog[c].pc = "found"
        /\ prog' = [prog EXCEPT ![c] = q]
    BY <1>1, <1>2, <1>8 DEF Load
  <2>2. w[1] = mem[prog[c].slot][c]
    BY <1>1
  <2> HIDE DEF w
  <2>3. prog[c] \in Programs
    BY <1>2
  <2>4. q.pc = "store1" /\ q.slot = prog[c].slot /\ q.w = w
    BY <2>3 DEF Programs
  <2> HIDE DEF q
  <2>5. prog'[c] = q /\ \A d \in Cpus \ {c} : prog'[d] = prog[d]
    BY <1>2, <2>1
  <2>6. mem[prog[c].slot][c] \in Nat
    BY <1>1, <1>2, <1>6, <2>1
  <2>7. Counting'
    BY <1>5, <1>6, <2>1, <2>2, <2>4, <2>5, <2>6 DEF fixed
  <2> QED BY <2>1, <2>7
<1>9. Idle.pc = "idle"
  BY DEF Idle
<1>10. ASSUME prog' = [prog EXCEPT ![c] = Idle]
       PROVE  prog'[c].pc = "idle" /\ \A d \in Cpus \ {c} : prog'[d] = prog[d]
  BY <1>2, <1>9, <1>10
<1>11. ASSUME Store1(c)
       PROVE  [Counters!Next]_(Counters!avars) /\ Injective' /\ Counting' /\ Reading'
  <2> DEFINE s == prog[c].slot
             n == prog[c].w[1] + 1
  <2>1. /\ UNCHANGED <<fixed, slot, user, past>> /\ prog[c].pc = "store1"
        /\ mem' = [mem EXCEPT ![s][c] = n] /\ prog' = [prog EXCEPT ![c] = Idle]
    BY <1>1, <1>11 DEF Store1, NewWord1
  <2>2. s \in Slots /\ n \in Nat /\ mem[s][c] < n /\ mem[s] \in Entries
    <3>1. s \in Slots /\ prog[c].w[1] \in Nat /\ mem[s][c] <= prog[c].w[1]
      BY <1>6, <2>1
    <3>2. mem[s][c] \in Nat /\ mem[s] \in Entries
      BY <1>1, <1>2, <3>1
    <3> QED BY <3>1, <3>2
  <2> HIDE DEF s, n
  <2>3. /\ \A t \in Slots \ {s} : mem'[t] = mem[t]
        /\ mem'[s] = [mem[s] EXCEPT ![c] = n]
    BY <1>2, <2>1, <2>2
  <2>4. mem'[s][c] = n /\ \A i \in 1 .. NWords : i # c => mem'[s][i] = mem[s][i]
    BY <1>1, <2>2, <2>3 DEF Entries
  <2>5. \A i \in 1 .. NWords : mem[s][i] <= mem'[s][i]
    BY <1>2, <2>2, <2>4
  <2>6. [Counters!Next]_(Counters!avars) /\ Kept
    BY <2>1, <2>2, <2>3, <2>5, EntryGrows
  <2>7. \A t \in Slots, d \in Cpus \ {c} : mem'[t][d] = mem[t][d]
    BY <1>1, <2>3, <2>4
  <2>8. Counting'
    BY <1>2, <1>5, <1>6, <1>10, <2>1, <2>7 DEF fixed
  <2> QED BY <1>3, <2>1, <2>6, <2>8 DEF Injective
<1>12. ASSUME Insert(c), slot[prog[c].key] # 0
       PROVE  [Counters!Next]_(Counters!avars) /\ Injective' /\ Counting' /\ Reading'
  <2> DEFINE s == slot[prog[c].key]
  <2>1. /\ UNCHANGED <<fixed, slot, user, past>> /\ prog[c].pc = "missing"
        /\ mem' = [mem EXCEPT ![s] = [mem[s] EXCEPT ![c] = 1]]
        /\ prog' = [prog EXCEPT ![c] = Idle]
    BY <1>1, <1>12 DEF Insert, FirstWords
  <2>2. s \in Slots /\ mem[s][c] = 0 /\ mem[s] \in Entries
    BY <1>2, <1>6, <1>12, <2>1
  <2> HIDE DEF s
  <2>3. /\ \A t \in Slots \ {s} : mem'[t] = mem[t]
        /\ mem'[s] = [mem[s] EXCEPT ![c] = 1]
    BY <1>2, <2>1, <2>2
  <2>4. mem'[s][c] = 1 /\ \A i \in 1 .. NWords : i # c => mem'[s][i] = mem[s][i]
    BY <1>1, <2>2, <2>3 DEF Entries
  <2>5. \A i \in 1 .. NWords : mem[s][i] <= mem'[s][i]
    BY <1>2, <2>2, <2>4
  <2>6. [Counters!Next]_(Counters!avars) /\ Kept
    BY <2>1, <2>2, <2>3, <2>5, EntryGrows
  <2>7. \A t \in Slots, d \in Cpus \ {c} : mem'[t][d] = mem[t][d]
    BY <1>1, <2>3, <2>4
  <2>8. Counting'
    BY <1>2, <1>5, <1>6, <1>10, <2>1, <2>7 DEF fixed
  <2> QED BY <1>3, <2>1, <2>6, <2>8 DEF Injective
<1>13. ASSUME Insert(c), slot[prog[c].key] = 0, UNCHANGED kernel
       PROVE  [Counters!Next]_(Counters!avars) /\ Injective' /\ Counting' /\ Reading'
  <2>1. UNCHANGED <<fixed, slot, mem, user, past>> /\ prog' = [prog EXCEPT ![c] = Idle]
    BY <1>13 DEF Insert, kernel
  <2>2. Counting'
    BY <1>5, <1>6, <1>10, <2>1 DEF fixed
  <2> QED BY <1>4, <2>1, <2>2
<1>14. ASSUME Insert(c), slot[prog[c].key] = 0, NEW s \in Free,
              slot' = [slot EXCEPT ![prog[c].key] = s],
              mem' = [mem EXCEPT ![s] = FirstWords(c, prog[c].val, ZeroEntry)]
       PROVE  [Counters!Next]_(Counters!avars) /\ Injective' /\ Counting' /\ Reading'
  <2> DEFINE k == prog[c].key
  <2>1. /\ UNCHANGED <<fixed, user, past>> /\ prog' = [prog EXCEPT ![c] = Idle]
        /\ k \in Keys
    BY <1>6, <1>14 DEF Insert
  <2>2. s \in Slots /\ s # 0 /\ \A j \in Keys : slot[j] # s
    <3>1. s \in 1 .. cap /\ \A j \in Keys : slot[j] # s
      BY <1>14 DEF Free
    <3>2. cap \in 1 .. NSlots /\ NSlots \in Nat
      BY MapAssumption DEF TypeInv, FixedOK, Slots
    <3> QED BY <3>1, <3>2 DEF Slots
  <2>3. slot[k] = 0
    BY <1>14
  <2> HIDE DEF k
  <2>4. slot'[k] = s /\ \A j \in Keys \ {k} : slot'[j] = slot[j]
    BY <1>2, <1>14, <2>1 DEF k
  <2>5. /\ \A t \in Slots \ {s} : mem'[t] = mem[t]
        /\ mem'[s] = [ZeroEntry EXCEPT ![c] = 1]
    BY <1>1, <1>2, <1>14, <2>2 DEF FirstWords
  <2>6. \A d \in Cpus \ {c} : mem'[s][d] = 0
    BY <1>1, <2>5 DEF ZeroEntry
  <2>7. Injective'
    BY <2>2, <2>4 DEF Injective
  <2>8. Kept
    <3>1. \A t \in Slots \ {s} : \A i \in 1 .. NWords : mem[t][i] <= mem'[t][i]
      BY <1>2, <2>5, EntryLe
    <3> QED BY <1>2, <2>2, <2>3, <2>4, <3>1 DEF Kept
  <2>9. OnlyKey(k)
    <3>1. ASSUME NEW j \in Keys \ {k} PROVE Totals'[j] = Totals[j]
      <4>1. slot[j] # 0 => mem'[slot[j]] = mem[slot[j]]
        BY <1>2, <2>2, <2>5
      <4> QED BY <2>1, <2>4, <4>1, TotalsFacts
    <3> QED BY <3>1 DEF OnlyKey
  <2>10. Totals[k] <= Totals'[k]
    <3>1. Totals[k] = 0 /\ Totals'[k] \in Nat
      BY <2>1, <2>3, TotalsFacts
    <3> QED BY <3>1
  <2>11. [Counters!Next]_(Counters!avars)
    BY <2>1, <2>9, <2>10, Grows
  <2>12. Counting'
    <3> SUFFICES ASSUME NEW d \in Cpus \ {c}
                 PROVE  /\ prog[d].pc # "store2"
                        /\ prog[d].pc = "store1" => mem'[prog[d].slot][d] <= prog[d].w[1]
                        /\ (prog[d].pc = "missing" /\ slot'[prog[d].key] # 0)
                              => mem'[slot'[prog[d].key]][d] = 0
      BY <1>5, <1>10, <2>1 DEF fixed
    <3>1. ASSUME prog[d].pc = "store1" PROVE mem'[prog[d].slot][d] <= prog[d].w[1]
      <4>1. prog[d].slot \in Slots /\ prog[d].w[1] \in Nat
            /\ mem[prog[d].slot][d] <= prog[d].w[1]
        BY <1>6, <3>1
      <4>2. CASE prog[d].slot = s
        BY <2>6, <4>1, <4>2
      <4>3. CASE prog[d].slot # s
        BY <2>5, <4>1, <4>3
      <4> QED BY <4>2, <4>3
    <3>2. ASSUME prog[d].pc = "missing", slot'[prog[d].key] # 0
          PROVE  mem'[slot'[prog[d].key]][d] = 0
      <4>1. prog[d].key \in Keys
        BY <1>6, <3>2
      <4>2. CASE prog[d].key = k
        BY <2>4, <2>6, <4>2
      <4>3. CASE prog[d].key # k
        <5>1. slot'[prog[d].key] = slot[prog[d].key] /\ slot[prog[d].key] \in Slots \ {s}
          BY <1>2, <2>2, <2>4, <3>2, <4>1, <4>3
        <5> QED BY <1>6, <2>5, <3>2, <5>1
      <4> QED BY <4>2, <4>3
    <3> QED BY <1>6, <3>1, <3>2
  <2>13. Reading'
    BY <1>3, <2>1, <2>8
  <2> QED BY <2>7, <2>11, <2>12, <2>13
<1>15. ASSUME Insert(c)
       PROVE  [Counters!Next]_(Counters!avars) /\ Injective' /\ Counting' /\ Reading'
  <2>1. \/ slot[prog[c].key] # 0
        \/ slot[prog[c].key] = 0 /\ UNCHANGED kernel
        \/ /\ slot[prog[c].key] = 0
           /\ \E s \in Free : /\ slot' = [slot EXCEPT ![prog[c].key] = s]
                              /\ mem' = [mem EXCEPT ![s] =
                                             FirstWords(c, prog[c].val, ZeroEntry)]
    BY <1>15 DEF Insert
  <2> QED BY <1>12, <1>13, <1>14, <1>15, <2>1
<1>16. ASSUME NEW k \in Keys, Delete(c, k), array
       PROVE  [Counters!Next]_(Counters!avars) /\ Injective' /\ Counting' /\ Reading'
  <2> DEFINE s == slot[k]
  <2>1. /\ UNCHANGED <<fixed, slot, prog, user>> /\ s \in Slots /\ mem[s] \in Entries
        /\ mem' = [mem EXCEPT ![s] = [mem[s] EXCEPT ![c] = 0]] /\ prog[c].pc = "idle"
        /\ past' = [past EXCEPT !.lost = @ \cup {k}]
    BY <1>1, <1>2, <1>16 DEF Delete
  <2> HIDE DEF s
  <2>2. /\ \A t \in Slots \ {s} : mem'[t] = mem[t]
        /\ mem'[s] = [mem[s] EXCEPT ![c] = 0]
    BY <1>2, <2>1
  <2>3. mem'[s][c] = 0 /\ \A i \in 1 .. NWords : i # c => mem'[s][i] = mem[s][i]
    BY <1>1, <2>1, <2>2 DEF Entries
  <2>4. \A j \in Keys \ {k} : slot[j] # 0 => slot[j] \in Slots \ {s}
    BY <1>2, <2>1 DEF Injective, s
  <2>5. Kept
    <3>1. past'.lost = past.lost \cup {k}
      BY <2>1 DEF TypeInv, PastOK
    <3>2. \A t \in Slots \ {s} : \A i \in 1 .. NWords : mem[t][i] <= mem'[t][i]
      BY <1>2, <2>2, EntryLe
    <3> QED BY <2>1, <2>4, <3>1, <3>2 DEF Kept
  <2>6. OnlyKey(k)
    <3>1. ASSUME NEW j \in Keys \ {k} PROVE Totals'[j] = Totals[j]
      <4>1. slot[j] # 0 => mem'[slot[j]] = mem[slot[j]]
        BY <2>2, <2>4
      <4> QED BY <2>1, <4>1, TotalsFacts
    <3> QED BY <3>1 DEF OnlyKey
  <2>7. Totals'[k] <= Totals[k]
    <3>1. \A i \in 1 .. NWords : mem'[s][i] <= mem[s][i]
      BY <1>2, <2>1, <2>3
    <3>2. mem'[s] \in Entries
      BY <1>1, <2>1, <2>2 DEF Entries
    <3>3. SumField(mem'[s], 1) <= SumField(mem[s], 1)
      BY <2>1, <3>1, <3>2, SumLe
    <3>4. Totals[k] = SumField(mem[s], 1) /\ Totals'[k] = SumField(mem'[s], 1)
      BY <1>16, <2>1, TotalsFacts DEF s, Delete
    <3> QED BY <3>3, <3>4
  <2>8. Printing' = Printing /\ out' = out
    BY <2>1 DEF Printing, fixed, user
  <2>9. [Counters!Next]_(Counters!avars)
    BY <2>1, <2>6, <2>7, <2>8, Loses
  <2>10. \A t \in Slots, d \in Cpus \ {c} : mem'[t][d] = mem[t][d]
    BY <1>1, <2>2, <2>3
  <2>11. Counting'
    BY <1>2, <1>5, <1>6, <2>1, <2>10 DEF fixed
  <2>12. past'.count = past.count /\ past.lost \subseteq past'.lost
    BY <2>1 DEF TypeInv, PastOK
  <2> QED BY <1>3, <2>1, <2>5, <2>9, <2>11, <2>12 DEF Injective
<1>17. ASSUME NEW k \in Keys, Delete(c, k), ~array
       PROVE  [Counters!Next]_(Counters!avars) /\ Injective' /\ Counting' /\ Reading'
  <2>1. /\ UNCHANGED <<fixed, mem, prog, user>> /\ slot' = [slot EXCEPT ![k] = 0]
        /\ past' = [past EXCEPT !.lost = @ \cup {k}]
    BY <1>17 DEF Delete, RemoveEntry
  <2>2. OnlyKey(k) /\ Totals'[k] <= Totals[k] /\ Kept /\ Injective'
    BY <2>1, EntryGoes
  <2>3. Printing' = Printing /\ out' = out
    BY <2>1 DEF Printing, fixed, user
  <2>4. [Counters!Next]_(Counters!avars)
    BY <2>1, <2>2, <2>3, Loses
  <2>5. \A j \in Keys : slot'[j] # 0 => slot'[j] = slot[j]
    BY <1>2, <2>1
  <2>6. Counting'
    BY <1>5, <1>6, <2>1, <2>5 DEF fixed
  <2>7. past'.count = past.count /\ past.lost \subseteq past'.lost
    BY <2>1 DEF TypeInv, PastOK
  <2> QED BY <1>3, <2>1, <2>2, <2>4, <2>6, <2>7
<1>18. ScriptKeys \subseteq Keys
  BY MapAssumption DEF ScriptKeys, Keys
<1>19. ASSUME Store2(c) PROVE FALSE
  BY <1>6, <1>19 DEF Store2
<1>20. ASSUME NEW k \in Keys, NEW v, Lookup(c, k, v)
       PROVE  [Counters!Next]_(Counters!avars) /\ Injective' /\ Counting' /\ Reading'
  <2>1. UNCHANGED <<fixed, slot, mem, user, past>>
    BY <1>20 DEF Lookup, kernel
  <2> QED BY <1>4, <1>7, <1>20, <2>1
<1>21. ASSUME Load(c)
       PROVE  [Counters!Next]_(Counters!avars) /\ Injective' /\ Counting' /\ Reading'
  BY <1>4, <1>8, <1>21
<1> QED BY <1>11, <1>15, <1>16, <1>17, <1>18, <1>19, <1>20, <1>21 DEF ProgStep

\* A step of the event loop.
LEMMA LoopCounts ==
    ASSUME TypeInv, TypeInv', Injective, Counting, Reading, kind = "count",
           UserStep \/ \E o \in {"print", "zero", "clear"} : Begin(o)
    PROVE  [Counters!Next]_(Counters!avars) /\ Injective' /\ Counting' /\ Reading'
<1>1. /\ Fields = 1 /\ Cpus = 1 .. NWords /\ NWords \in Nat \ {0}
      /\ \A d \in Cpus : WordOf(d, 1) = d
  BY SumLe, Layout
<1>2. /\ slot \in [Keys -> 0 .. NSlots] /\ mem \in [Slots -> Entries]
      /\ \A k \in Keys : slot[k] # 0 => slot[k] \in Slots
      /\ Slots \subseteq Nat \ {0}
      /\ out \in Seq(Shows) /\ buf \in Seq(Nat) /\ Len(buf) \in Nat
      /\ \A d \in Cpus : prog[d].w[1] \in Nat
  <2>1. slot \in [Keys -> 0 .. NSlots] /\ mem \in [Slots -> Entries] /\ prog \in [Cpus -> Programs]
    BY DEF TypeInv, KernelOK, ProgOK
  <2>2. \A k \in Keys : slot[k] # 0 => slot[k] \in Slots
    BY <2>1 DEF Slots
  <2>3. \A d \in Cpus : prog[d].w[1] \in Nat
    BY <2>1 DEF Programs
  <2>4. out \in Seq(Shows) /\ buf \in Seq(Nat)
    BY DEF TypeInv, UserOK
  <2>5. Slots \subseteq Nat \ {0}
    BY MapAssumption DEF Slots
  <2> QED BY <2>1, <2>2, <2>3, <2>4, <2>5, SeqFacts
<1>3. upc \in {"copy", "zero"} =>
          /\ cur \in Slots /\ mem[cur] \in Entries /\ keys[idx] \in Keys
          /\ Len(buf) + 1 \in 1 .. NWords
  <2>1. upc \in {"copy", "zero"} => cur \in Slots /\ Len(buf) + 1 \in 1 .. NWords
    <3>1. upc \in {"copy", "zero"} => cur \in Slots /\ Len(buf) < NWords
      BY DEF TypeInv, UserOK
    <3>2. NWords \in Nat
      BY Layout
    <3> QED BY <1>2, <3>1, <3>2
  <2>2. upc \in {"copy", "zero"} => keys[idx] \in Keys
    BY DEF TypeInv, UserOK
  <2> QED BY <1>2, <2>1, <2>2
<1>4. ASSUME UNCHANGED <<fixed, slot, mem, prog>>
      PROVE  /\ Injective' /\ Counting' /\ Totals' = Totals /\ Kept
             /\ \A v, f : SumField(v, f)' = SumField(v, f)
             /\ NWords' = NWords
  BY <1>4, TableSame, SumSame, SameTypes DEF Injective, Counting, fixed
<1>5. ASSUME NEW o \in {"print", "zero", "clear"}, Begin(o)
      PROVE  [Counters!Next]_(Counters!avars) /\ Injective' /\ Counting' /\ Reading'
  <2>1. /\ UNCHANGED <<fixed, slot, mem, prog>> /\ upc = "idle" /\ upc' = "walk"
        /\ out' = <<>> /\ past'.count = Totals /\ past'.lost = {}
    BY <1>5 DEF Begin, kernel
  <2>2. Reading'
    <3>1. \A k \in Keys : Totals[k] <= Totals'[k]
      BY <1>4, <2>1, TotalsFacts
    <3> QED BY <2>1, <3>1 DEF Reading
  <2>3. [Counters!Next]_(Counters!avars)
    <3>1. ~Printing
      BY <2>1 DEF Printing
    <3>2. CASE Printing'
      <4>1. Counters!BeginPrint
        BY <1>4, <2>1, <3>1, <3>2 DEF Counters!BeginPrint
      <4> QED BY <4>1 DEF Counters!Next
    <3>3. CASE ~Printing'
      BY <1>4, <2>1, <3>1, <3>3, Stutters
    <3> QED BY <3>2, <3>3
  <2> QED BY <1>4, <2>1, <2>2, <2>3
<1>6. ASSUME UNCHANGED <<fixed, slot, mem, prog, out, past>>, upc # "idle", upc' # "idle",
             op' = op
      PROVE  [Counters!Next]_(Counters!avars) /\ Injective' /\ Counting'
  <2>1. Printing' = Printing
    BY <1>6 DEF Printing, fixed
  <2> QED BY <1>4, <1>6, <2>1, Stutters
<1>7. ASSUME collect_keys
      PROVE  [Counters!Next]_(Counters!avars) /\ Injective' /\ Counting' /\ Reading'
  <2>1. /\ UNCHANGED <<fixed, slot, mem, prog, out, past, op>>
        /\ upc = "walk" /\ upc' \in {"walk", "each"}
    BY <1>7 DEF collect_keys, kernel
  <2>2. Reading'
    BY <1>4, <2>1 DEF Reading, Printing, fixed
  <2> QED BY <1>6, <2>1, <2>2
<1>8. ASSUME Enter
      PROVE  [Counters!Next]_(Counters!avars) /\ Injective' /\ Counting' /\ Reading'
  <2> DEFINE k == keys[idx]
  <2>1. /\ UNCHANGED <<fixed, slot, mem, prog, out, past, op, keys, buf>>
        /\ upc = "each" /\ buf = <<>> /\ k \in Keys
        /\ \/ upc' = "each"
           \/ upc' \in {"copy", "zero"} /\ slot[k] # 0 /\ cur' = slot[k] /\ idx' = idx
    BY <1>8 DEF Enter, kernel, TypeInv, UserOK
  <2>2. ASSUME Printing', upc' = "copy", k \notin past.lost
        PROVE  past.count[k] <= SumField(Mixed', 1) /\ slot[k] = cur' /\ idx' = idx
    <3>1. Printing
      BY <2>1, <2>2 DEF Printing, fixed
    <3>2. past.count[k] <= Totals[k] /\ Totals[k] = SumField(mem[slot[k]], 1)
      BY <2>1, <2>2, <3>1, TotalsFacts DEF Reading
    <3>3. Mixed' = mem[slot[k]]
      <4>1. Mixed' = [i \in 1 .. NWords |-> IF i <= Len(buf) THEN buf[i] ELSE mem[slot[k]][i]]
        BY <1>4, <2>1, <2>2 DEF Mixed
      <4>2. mem[slot[k]] \in Entries /\ Len(buf) = 0
        BY <1>2, <2>1, <2>2
      <4>3. \A i \in 1 .. NWords : ~(i <= Len(buf))
        BY <4>2
      <4> QED BY <4>1, <4>2, <4>3 DEF Entries
    <3> QED BY <2>1, <2>2, <3>2, <3>3
  <2>3. Reading'
    <3>1. Printing' => Printing
      BY <2>1 DEF Printing, fixed
    <3>2. \A i \in 1 .. Len(buf) : FALSE
      BY <2>1
    <3>3. SumField(Mixed, 1)' = SumField(Mixed', 1)
      BY <2>1, SumSame DEF fixed
    <3> QED BY <1>4, <2>1, <2>2, <3>1, <3>2, <3>3 DEF Reading
  <2> QED BY <1>6, <2>1, <2>3
<1>9. ASSUME CopyWord
      PROVE  [Counters!Next]_(Counters!avars) /\ Injective' /\ Counting' /\ Reading'
  <2> DEFINE k == keys[idx]
             n == Len(buf) + 1
             w == Append(buf, mem[cur][n])
  <2>1. /\ UNCHANGED <<fixed, slot, mem, prog, past, op, keys>> /\ upc = "copy"
        /\ \/ n < NWords /\ buf' = w /\ UNCHANGED <<out, upc, idx, cur>>
           \/ ~(n < NWords) /\ out' = Collect(k, Reduce(w)) /\ upc' = "each"
    BY <1>2, <1>9 DEF CopyWord, NextEntry, kernel
  <2>2. /\ cur \in Slots /\ mem[cur] \in Entries /\ k \in Keys /\ n \in 1 .. NWords
        /\ mem[cur][n] \in Nat /\ \A i \in 1 .. NWords : mem[cur][i] \in Nat
    BY <1>3, <2>1, EntryLe
  <2>3. /\ w \in Seq(Nat) /\ Len(w) = n /\ w[n] = mem[cur][n]
        /\ \A i \in 1 .. Len(buf) : w[i] = buf[i]
    BY <1>2, <2>2, SeqFacts
  <2>4. Printing
    BY <2>1 DEF Printing, TypeInv, UserOK
  <2>5. k \notin past.lost => /\ slot[k] = cur /\ past.count[k] <= SumField(Mixed, 1)
                              /\ \A i \in 1 .. Len(buf) : buf[i] <= mem[cur][i]
    BY <2>1, <2>4 DEF Reading
  <2>6. \A j \in Keys \ past.lost : past.count[j] <= Totals[j]
    BY <2>4 DEF Reading
  <2> HIDE DEF k, w
  <2>7. \A i \in 1 .. n : i = n \/ i \in 1 .. Len(buf)
    BY <1>2
  <2>8. k \notin past.lost => \A i \in 1 .. n : w[i] <= mem[cur][i]
    BY <2>2, <2>3, <2>5, <2>7
  <2>9. CASE n < NWords
    <3>1. buf' = w /\ UNCHANGED <<fixed, slot, mem, prog, past, op, keys, out, upc, idx, cur>>
      BY <2>1, <2>9
    <3>2. Mixed' = Mixed
      <4>1. Mixed' = [i \in 1 .. NWords |-> IF i <= n THEN w[i] ELSE mem[cur][i]]
        BY <1>4, <2>3, <3>1 DEF Mixed
      <4>2. \A i \in 1 .. NWords : (IF i <= n THEN w[i] ELSE mem[cur][i])
                                     = (IF i <= Len(buf) THEN buf[i] ELSE mem[cur][i])
        BY <1>2, <2>2, <2>3, <2>7
      <4> QED BY <4>1, <4>2 DEF Mixed
    <3>3. SumField(Mixed, 1)' = SumField(Mixed, 1)
      BY <3>1, <3>2, SumSame DEF fixed
    <3>4. Reading'
      BY <1>4, <2>3, <2>5, <2>6, <2>8, <3>1, <3>3 DEF Reading, k
    <3> QED BY <1>6, <2>1, <3>1, <3>4
  <2>10. CASE ~(n < NWords)
    <3> DEFINE v == Reduce(w)
    <3>1. n = NWords /\ n = Len(buf) + 1
      BY <1>1, <2>2, <2>10
    <3>2. w \in Entries /\ \A i \in 1 .. NWords : w[i] \in Nat
      BY <2>3, <3>1 DEF Entries
    <3>3. Reduce(w) = SumField(w, 1) /\ v \in Nat
      <4>1. Reduce(w) = SumField(w, 1)
        BY DEF Reduce, reduce_value
      <4> QED BY <3>2, <4>1, SumLe
    <3>4. k \notin past.lost => past.count[k] <= v /\ v <= Totals[k]
      <4> SUFFICES ASSUME k \notin past.lost
                   PROVE  past.count[k] <= v /\ v <= Totals[k]
        OBVIOUS
      <4>1. SumField(w, 1) <= SumField(mem[cur], 1)
        BY <2>2, <2>8, <3>1, <3>2, SumLe
      <4>2. Totals[k] = SumField(mem[cur], 1)
        <5>1. slot[k] = cur /\ cur # 0 /\ k \in Keys
          BY <1>2, <2>2, <2>5
        <5>2. UNCHANGED fixed
          BY <2>1
        <5> QED BY <5>1, <5>2, TotalsFacts
      <4>3. Mixed \in Entries /\ \A i \in 1 .. NWords : Mixed[i] <= w[i]
        <5>1. \A i \in 1 .. NWords :
                  (IF i <= Len(buf) THEN buf[i] ELSE mem[cur][i]) = w[i]
          BY <1>2, <2>3, <2>7, <3>1
        <5>2. \A i \in 1 .. NWords : Mixed[i] = w[i] /\ w[i] \in Nat
          BY <3>2, <5>1 DEF Mixed
        <5> QED BY <5>2 DEF Mixed, Entries
      <4>4. SumField(Mixed, 1) <= SumField(w, 1) /\ SumField(Mixed, 1) \in Nat
        BY <3>2, <4>3, SumLe
      <4>5. past.count[k] \in Nat
        BY <2>2 DEF TypeInv, PastOK
      <4> QED BY <2>5, <3>3, <4>1, <4>2, <4>4, <4>5
    <3> HIDE DEF v
    <3>5. out' = Append(out, [key |-> k, val |-> v]) /\ upc' = "each"
      BY <2>1, <2>10 DEF Collect, v
    <3>6. Printing'
      BY <2>1, <2>4, <3>5 DEF Printing, fixed
    <3>7. out'[Len(out) + 1] = [key |-> k, val |-> v] /\ Len(out') = Len(out) + 1
      BY <1>2, <3>5
    <3>8. Counters!Show(k)
      BY <1>4, <2>1, <2>4, <3>3, <3>4, <3>5, <3>6, <3>7 DEF Counters!Show
    <3>9. Reading'
      BY <1>4, <2>1, <2>6, <3>5 DEF Reading
    <3> QED BY <1>4, <2>1, <2>2, <3>8, <3>9 DEF Counters!Next
  <2> QED BY <2>9, <2>10
<1>10. ASSUME ZeroWord
       PROVE  [Counters!Next]_(Counters!avars) /\ Injective' /\ Counting' /\ Reading'
  <2> DEFINE n == Len(buf) + 1
  <2>1. /\ UNCHANGED <<fixed, slot, prog, op>> /\ op = "zero"
        /\ mem' = [mem EXCEPT ![cur] = [mem[cur] EXCEPT ![n] = 0]]
    BY <1>10 DEF ZeroWord, TypeInv, UserOK
  <2>2. cur \in Slots /\ mem[cur] \in Entries /\ n \in Cpus
    BY <1>1, <1>3, <1>10 DEF ZeroWord
  <2>3. ~Printing /\ ~Printing'
    BY <2>1 DEF Printing
  <2> HIDE DEF n
  <2>4. /\ \A t \in Slots \ {cur} : mem'[t] = mem[t]
        /\ mem'[cur] = [mem[cur] EXCEPT ![n] = 0]
    BY <1>2, <2>1, <2>2
  <2>5. mem'[cur][n] = 0 /\ \A i \in 1 .. NWords : i # n => mem'[cur][i] = mem[cur][i]
    BY <1>1, <2>2, <2>4 DEF Entries
  <2>6. \A t \in Slots, d \in Cpus :
            mem[t][d] \in Nat /\ (mem'[t][d] = mem[t][d] \/ mem'[t][d] = 0)
    <3>1. \A t \in Slots, d \in Cpus : mem[t][d] \in Nat
      BY <1>1, <1>2, EntryLe
    <3> QED BY <1>1, <2>4, <2>5, <3>1
  <2>7. Counting'
    <3> SUFFICES ASSUME NEW d \in Cpus
                 PROVE  /\ prog[d].pc # "store2"
                        /\ prog[d].pc = "store1" => mem'[prog[d].slot][d] <= prog[d].w[1]
                        /\ (prog[d].pc = "missing" /\ slot[prog[d].key] # 0)
                              => mem'[slot[prog[d].key]][d] = 0
      BY <2>1 DEF Counting, fixed
    <3>1. /\ prog[d].pc # "store2"
          /\ prog[d].pc = "store1" => mem[prog[d].slot][d] <= prog[d].w[1]
          /\ (prog[d].pc = "missing" /\ slot[prog[d].key] # 0)
                => mem[slot[prog[d].key]][d] = 0
      BY DEF Counting
    <3>2. /\ prog[d].pc = "store1" => prog[d].slot \in Slots
          /\ prog[d].pc = "missing" => prog[d].key \in Keys
      BY DEF TypeInv, ProgOK
    <3>3. ASSUME prog[d].pc = "store1" PROVE mem'[prog[d].slot][d] <= prog[d].w[1]
      <4>1. /\ mem[prog[d].slot][d] <= prog[d].w[1] /\ prog[d].w[1] \in Nat
            /\ prog[d].slot \in Slots
        BY <1>2, <3>1, <3>2, <3>3
      <4> QED BY <2>6, <4>1
    <3>4. ASSUME prog[d].pc = "missing", slot[prog[d].key] # 0
          PROVE  mem'[slot[prog[d].key]][d] = 0
      <4>1. mem[slot[prog[d].key]][d] = 0 /\ slot[prog[d].key] \in Slots
        BY <1>2, <3>1, <3>2, <3>4
      <4> QED BY <2>6, <4>1
    <3> QED BY <3>1, <3>3, <3>4
  <2>8. [Counters!Next]_(Counters!avars)
    <3>1. CASE \E k \in Keys : slot[k] = cur
      <4>1. PICK k \in Keys : slot[k] = cur
        BY <3>1
      <4>2. \A j \in Keys \ {k} : slot[j] # 0 => slot[j] \in Slots \ {cur}
        BY <1>2, <2>2, <4>1 DEF Injective
      <4>3. OnlyKey(k)
        <5>1. ASSUME NEW j \in Keys \ {k} PROVE Totals'[j] = Totals[j]
          <6>1. slot[j] # 0 => mem'[slot[j]] = mem[slot[j]]
            BY <2>4, <4>2
          <6> QED BY <2>1, <6>1, TotalsFacts
        <5> QED BY <5>1 DEF OnlyKey
      <4>4. Totals'[k] <= Totals[k]
        <5>1. \A i \in 1 .. NWords : mem'[cur][i] <= mem[cur][i]
          BY <1>1, <2>2, <2>5, <2>6
        <5>2. mem'[cur] \in Entries
          BY <1>1, <2>2, <2>4 DEF Entries
        <5>3. SumField(mem'[cur], 1) <= SumField(mem[cur], 1)
          BY <2>2, <5>1, <5>2, SumLe
        <5>4. Totals[k] = SumField(mem[cur], 1) /\ Totals'[k] = SumField(mem'[cur], 1)
          <6>1. slot[k] # 0 /\ slot'[k] = cur /\ UNCHANGED fixed
            BY <1>2, <2>1, <2>2, <4>1
          <6> QED BY <4>1, <6>1, TotalsFacts
        <5> QED BY <5>3, <5>4
      <4> QED BY <2>1, <2>3, <4>3, <4>4, Loses
    <3>2. CASE \A k \in Keys : slot[k] # cur
      <4>1. \A k \in Keys : Totals'[k] = Totals[k]
        <5>1. ASSUME NEW k \in Keys PROVE Totals'[k] = Totals[k]
          <6>1. slot[k] # 0 => mem'[slot[k]] = mem[slot[k]]
            BY <1>2, <2>4, <3>2
          <6> QED BY <2>1, <6>1, TotalsFacts
        <5> QED BY <5>1
      <4>2. Totals' = Totals
        BY <2>1, <4>1, TotalsFacts
      <4> QED BY <2>3, <4>2, Stutters
    <3> QED BY <3>1, <3>2
  <2> QED BY <2>1, <2>3, <2>7, <2>8 DEF Injective, Reading
<1>11. ASSUME ClearKey
       PROVE  [Counters!Next]_(Counters!avars) /\ Injective' /\ Counting' /\ Reading'
  <2> DEFINE k == keys[idx]
  <2>1. /\ UNCHANGED <<fixed, prog, op, mem>> /\ op = "clear" /\ k \in Keys
        /\ \/ slot' = [slot EXCEPT ![k] = 0] /\ past' = [past EXCEPT !.lost = @ \cup {k}]
           \/ UNCHANGED slot
    BY <1>11 DEF ClearKey, RemoveEntry, kernel, TypeInv, UserOK
  <2>2. ~Printing /\ ~Printing'
    BY <2>1 DEF Printing
  <2> HIDE DEF k
  <2>3. CASE UNCHANGED slot
    BY <1>4, <2>1, <2>2, <2>3, Stutters DEF Reading
  <2>4. CASE slot' = [slot EXCEPT ![k] = 0] /\ past' = [past EXCEPT !.lost = @ \cup {k}]
    <3>1. OnlyKey(k) /\ Totals'[k] <= Totals[k] /\ Injective'
      BY <2>1, <2>4, EntryGoes
    <3>2. [Counters!Next]_(Counters!avars)
      BY <2>1, <2>2, <3>1, Loses
    <3>3. \A j \in Keys : slot'[j] # 0 => slot'[j] = slot[j]
      BY <1>2, <2>1, <2>4
    <3>4. \A d \in Cpus : prog[d].pc # "idle" => prog[d].key \in Keys
      BY DEF TypeInv, ProgOK
    <3>5. Counting'
      BY <2>1, <3>3, <3>4 DEF Counting, fixed
    <3> QED BY <2>2, <3>1, <3>2, <3>5 DEF Reading
  <2> QED BY <2>1, <2>3, <2>4
<1>12. ASSUME End
       PROVE  [Counters!Next]_(Counters!avars) /\ Injective' /\ Counting' /\ Reading'
  <2>1. UNCHANGED <<fixed, slot, mem, prog, out, past>> /\ upc' = "idle"
    BY <1>12 DEF End, kernel
  <2>2. ~Printing'
    BY <2>1 DEF Printing
  <2>3. CASE Printing
    <3>1. Counters!EndPrint
      BY <1>4, <2>1, <2>2, <2>3 DEF Counters!EndPrint
    <3> QED BY <1>4, <2>1, <2>2, <3>1 DEF Counters!Next, Reading
  <2>4. CASE ~Printing
    BY <1>4, <2>1, <2>2, <2>4, Stutters DEF Reading
  <2> QED BY <2>3, <2>4
<1> QED BY <1>5, <1>7, <1>8, <1>9, <1>10, <1>11, <1>12 DEF UserStep

\* What is fixed, and the steps that leave the table alone, for any value type.
LEMMA Fixed == [Next]_vars => UNCHANGED fixed
<1>1. ASSUME UNCHANGED vars PROVE UNCHANGED fixed
  BY <1>1 DEF vars
<1>2. ASSUME NEW c \in Cpus, ProgStep(c) PROVE UNCHANGED fixed
  BY <1>2 DEF ProgStep, Lookup, Load, Store1, Store2, Insert, Delete
<1>3. ASSUME UserStep PROVE UNCHANGED fixed
  BY <1>3 DEF UserStep, collect_keys, Enter, CopyWord, ZeroWord, ClearKey, End
<1>4. ASSUME NEW o \in {"print", "zero", "clear"}, Begin(o) PROVE UNCHANGED fixed
  BY <1>4 DEF Begin
<1> QED BY <1>1, <1>2, <1>3, <1>4 DEF Next

\* A step changes the table by a new entry in a free slot, or by a key's entry leaving.
LEMMA SlotSteps ==
    ASSUME TypeInv, [Next]_vars
    PROVE  \/ slot' = slot
           \/ \E k \in Keys : slot' = [slot EXCEPT ![k] = 0]
           \/ \E k \in Keys, s \in Free : slot' = [slot EXCEPT ![k] = s]
<1>1. ASSUME UNCHANGED vars PROVE slot' = slot
  BY <1>1 DEF vars, kernel
<1>2. ASSUME NEW c \in Cpus, NEW k, NEW v, Lookup(c, k, v) PROVE slot' = slot
  BY <1>2 DEF Lookup, kernel
<1>3. ASSUME NEW c \in Cpus, Load(c) \/ Store1(c) \/ Store2(c) PROVE slot' = slot
  BY <1>3 DEF Load, Store1, Store2
<1>4. ASSUME NEW c \in Cpus, Insert(c)
      PROVE  slot' = slot \/ \E k \in Keys, s \in Free : slot' = [slot EXCEPT ![k] = s]
  <2>1. prog[c].key \in Keys
    BY <1>4 DEF Insert, TypeInv, ProgOK
  <2>2. slot' = slot \/ \E s \in Free : slot' = [slot EXCEPT ![prog[c].key] = s]
    BY <1>4 DEF Insert, kernel
  <2> QED BY <2>1, <2>2
<1>5. ASSUME NEW c \in Cpus, NEW k \in ScriptKeys, Delete(c, k)
      PROVE  slot' = slot \/ \E j \in Keys : slot' = [slot EXCEPT ![j] = 0]
  <2>1. k \in Keys
    BY MapAssumption DEF ScriptKeys, Keys
  <2> QED BY <1>5, <2>1 DEF Delete, RemoveEntry
<1>6. ASSUME NEW o \in {"print", "zero", "clear"}, Begin(o) PROVE slot' = slot
  BY <1>6 DEF Begin, kernel
<1>7. ASSUME collect_keys \/ Enter \/ CopyWord \/ ZeroWord \/ End PROVE slot' = slot
  BY <1>7 DEF collect_keys, Enter, CopyWord, ZeroWord, End, kernel
<1>8. ASSUME ClearKey
      PROVE  slot' = slot \/ \E k \in Keys : slot' = [slot EXCEPT ![k] = 0]
  <2>1. keys[idx] \in Keys
    BY <1>8 DEF ClearKey, TypeInv, UserOK
  <2> QED BY <1>8, <2>1 DEF ClearKey, RemoveEntry, kernel
<1> QED BY <1>1, <1>2, <1>3, <1>4, <1>5, <1>6, <1>7, <1>8 DEF Next, ProgStep, UserStep

\* No step lets two keys share a place.
LEMMA InjectiveStep ==
    ASSUME TypeInv, Injective, [Next]_vars
    PROVE  Injective'
<1>1. slot \in [Keys -> 0 .. NSlots]
  BY DEF TypeInv, KernelOK
<1>2. CASE slot' = slot
  BY <1>2 DEF Injective
<1>3. ASSUME NEW k \in Keys, slot' = [slot EXCEPT ![k] = 0] PROVE Injective'
  BY <1>1, <1>3 DEF Injective
<1>4. ASSUME NEW k \in Keys, NEW s \in Free, slot' = [slot EXCEPT ![k] = s] PROVE Injective'
  <2>1. \A j \in Keys : slot[j] # s
    BY DEF Free
  <2> QED BY <1>1, <1>4, <2>1 DEF Injective
<1> QED BY <1>2, <1>3, <1>4, SlotSteps

-----------------------------------------------------------------------------
(***************************************************************************)
(* The invariant, and what follows from it.                                *)
(***************************************************************************)
IInv == TypeInv /\ Injective /\ Counting /\ Reading

\* Every step is one of the abstract counters, or none.
LEMMA CountStep ==
    ASSUME IInv, [Next]_vars
    PROVE  IInv' /\ [Counters!Next]_(Counters!avars)
<1>1. TypeInv /\ Injective /\ Counting /\ Reading
  BY DEF IInv
<1>2. TypeInv' /\ Injective' /\ UNCHANGED fixed
  BY <1>1, TypeStep, InjectiveStep, Fixed
<1>3. CASE kind # "count"
  <2>1. Totals' = Totals /\ ~Printing /\ ~Printing'
    BY <1>1, <1>2, <1>3, TotalsFacts DEF Printing, fixed
  <2>2. Counting' /\ Reading'
    BY <1>2, <1>3, <2>1 DEF Counting, Reading, fixed
  <2>3. [Counters!Next]_(Counters!avars)
    BY <2>1, Stutters
  <2> QED BY <1>2, <2>2, <2>3 DEF IInv
<1>4. CASE kind = "count"
  <2>1. CASE UNCHANGED vars
    <3>1. Totals' = Totals /\ Kept
      BY <1>1, <1>2, <2>1, TableSame DEF vars, kernel
    <3>2. Printing' <=> Printing
      BY <2>1 DEF Printing, vars, fixed, user
    <3>3. [Counters!Next]_(Counters!avars)
      BY <2>1, <3>1, <3>2, Stutters DEF vars, user
    <3>4. Counting'
      BY <1>1, <2>1 DEF Counting, vars, fixed, kernel
    <3>5. Reading'
      <4>1. past'.count = past.count /\ past.lost \subseteq past'.lost
        BY <2>1 DEF vars
      <4> QED BY <1>1, <1>2, <2>1, <3>1, <4>1, KeptReading DEF vars
    <3> QED BY <1>2, <3>3, <3>4, <3>5 DEF IInv
  <2>2. ASSUME NEW c \in Cpus, ProgStep(c)
        PROVE  IInv' /\ [Counters!Next]_(Counters!avars)
    BY <1>1, <1>2, <1>4, <2>2, ProgramCounts DEF IInv
  <2>3. ASSUME UserStep \/ \E o \in {"print", "zero", "clear"} : Begin(o)
        PROVE  IInv' /\ [Counters!Next]_(Counters!avars)
    BY <1>1, <1>2, <1>4, <2>3, LoopCounts DEF IInv
  <2> QED BY <2>1, <2>2, <2>3 DEF Next
<1> QED BY <1>3, <1>4

\* A new entry of the array holds no count.
LEMMA ZeroSum ==
    ASSUME kind = "count"
    PROVE  SumField(ZeroEntry, 1) = 0
<1>1. PICK g : Adds(g, ZeroEntry, 1, SUBSET Cpus) /\ SumField(ZeroEntry, 1) = g[Cpus]
  BY SumIsChosen
<1>2. \A c \in Cpus : ZeroEntry[WordOf(c, 1)] = 0
  BY SumLe DEF ZeroEntry
<1> DEFINE T == {n \in Nat : \E s \in SUBSET Cpus : Cardinality(s) = n /\ g[s] # 0}
<1>3. ASSUME T # {} PROVE FALSE
  <2>1. PICK n \in T : \A m \in T : n <= m
    BY <1>3, Least
  <2>2. PICK s \in SUBSET Cpus : Cardinality(s) = n /\ g[s] # 0
    BY <2>1
  <2>3. s # {}
    BY <1>1, <2>2 DEF Adds
  <2>4. /\ Pick(s) \in Cpus /\ Rest(s) \in SUBSET Cpus /\ n - 1 \in Nat
        /\ Cardinality(Rest(s)) = n - 1
    BY <2>1, <2>2, <2>3, RestFacts
  <2>5. g[Rest(s)] = 0
    <3>1. n - 1 \notin T
      BY <2>1
    <3> QED BY <2>4, <3>1
  <2>6. g[s] = ZeroEntry[WordOf(Pick(s), 1)] + g[Rest(s)]
    BY <1>1, <2>3 DEF Adds
  <2> QED BY <1>2, <2>2, <2>4, <2>5, <2>6
<1>4. Cardinality(Cpus) \in Nat /\ Cpus \in SUBSET Cpus
  BY MapAssumption, FS_Interval DEF Cpus
<1> QED BY <1>1, <1>3, <1>4

\* The first states are those of the abstract counters.
LEMMA CountInit == Init => IInv /\ Counters!Init
<1> SUFFICES ASSUME Init PROVE IInv /\ Counters!Init
  OBVIOUS
<1>1. TypeInv
  BY TypeInit
<1>2. ~Printing /\ (Printing = FALSE)
  BY DEF Init, Printing
<1>3. Counting
  <2>1. \A c \in Cpus : prog[c].pc = "idle"
    BY DEF Init, Idle
  <2> QED BY <2>1 DEF Counting
<1>4. Injective
  BY DEF Init, Injective
<1>5. Totals = [k \in Keys |-> 0]
  <2>1. ASSUME NEW k \in Keys, kind = "count", slot[k] # 0 PROVE SumField(mem[slot[k]], 1) = 0
    <3>1. slot[k] = 1 /\ 1 \in Slots
      BY <2>1, MapAssumption DEF Init, Slots
    <3>2. mem[slot[k]] = ZeroEntry
      BY <3>1 DEF Init
    <3> QED BY <2>1, <3>2, ZeroSum
  <2> QED BY <2>1 DEF Totals
<1> QED BY <1>1, <1>2, <1>3, <1>4, <1>5 DEF IInv, Reading, Counters!Init

\* At every step the variables hold what their declarations and the bounds allow, the
\* system call in progress works on an entry's memory, and the loop stays within its keys.
THEOREM MapTypes == Spec => []TypeOK
<1>1. TypeInv => TypeOK
  <2> SUFFICES ASSUME TypeInv PROVE TypeOK
    OBVIOUS
  <2>1. ASSUME NEW s \in Slots
        PROVE  Len(mem[s]) = NWords /\ \A w \in 1 .. NWords : mem[s][w] \in Nat
    <3>1. mem[s] \in [1 .. NWords -> Nat] /\ NWords \in Nat
      BY Layout DEF TypeInv, KernelOK, Entries
    <3> QED BY <3>1
  <2>2. \A c \in Cpus : prog[c] \in Programs
    BY DEF TypeInv, ProgOK
  <2>3. \A c \in Cpus :
           /\ prog[c].pc \in {"idle", "found", "missing", "store1", "store2"}
           /\ prog[c].pc \in {"found", "store1", "store2"} => prog[c].slot \in Slots
    BY <2>2 DEF TypeInv, ProgOK, Programs
  <2> QED BY <2>1, <2>3 DEF TypeInv, TypeOK, FixedOK, KernelOK, ProgOK, UserOK
<1> QED BY <1>1, TypeInit, TypeStep, PTL DEF Spec

\* print(@) of a map of counts, read one CPU after the other without a lock, shows for
\* every key that lost nothing meanwhile a number it had between the start of the print
\* and that moment: every step of the map is one of the weak counters, or none.
THEOREM PrintsAreWeak == Spec => ImplementsCounters
<1>1. Init => IInv /\ Counters!Init
  BY CountInit
<1>2. IInv /\ [Next]_vars => IInv' /\ [Counters!Next]_(Counters!avars)
  BY CountStep
<1> QED BY <1>1, <1>2, PTL DEF Spec, ImplementsCounters, Counters!Spec

-----------------------------------------------------------------------------
(***************************************************************************)
(* Events.  What print, zero and clear do to the keys that stay, and to    *)
(* all of them when no program runs.                                       *)
(***************************************************************************)
\* Keys that were there when the event began and have not left, keys found by the walk,
\* keys the loop has not come to.
Stable == past.keys \ past.lost
Found == {keys[i] : i \in 1 .. Len(keys)}
Ahead == {keys[i] : i \in idx .. Len(keys)}

\* The walk has found the stable keys or is still before them, and the loop has shown
\* them or has them ahead.
Walked ==
    /\ \A j \in Stable : slot[j] # 0
    /\ upc # "idle" => ops > 0
    /\ upc = "walk" => \A j \in Stable : keys = <<>> \/ j > Last(keys) \/ j \in Found
    /\ (upc # "walk" /\ ops > 0 /\ op = "print") => Stable \subseteq Shown \cup Ahead
    /\ (upc # "walk" /\ ops > 0 /\ op = "clear") => Stable \subseteq Ahead

\* No program runs, and none has since the event began.
Quiet == past.hits = hits
Stopped ==
    /\ past.hits <= hits \/ past.hits = MaxHits + 1
    /\ Quiet => \A c \in Cpus : prog[c].pc = "idle"

\* Then the walk finds the keys in their order, each once, and the loop has served
\* those it has passed.
Increasing == \A i, j \in 1 .. Len(keys) : i < j => keys[i] < keys[j]
Answer ==
    /\ Increasing
    /\ upc = "walk" => /\ out = <<>>
                       /\ Found = {j \in Present : keys # <<>> /\ j <= Last(keys)}
    /\ upc # "walk" => Present = IF op = "clear" THEN Ahead ELSE Found
    /\ (upc # "walk" /\ op = "print") =>
          /\ Len(out) = idx - 1
          /\ \A i \in 1 .. idx - 1 :
                out[i] = [key |-> keys[i], val |-> Reduce(mem[slot[keys[i]]])]
    /\ (upc # "walk" /\ op = "zero") =>
          \A i \in 1 .. idx - 1 : mem[slot[keys[i]]] = ZeroEntry
    /\ upc \in {"copy", "zero"} => cur = slot[keys[idx]]
    /\ upc = "copy" => \A i \in 1 .. Len(buf) : buf[i] = mem[cur][i]
    /\ upc = "zero" => \A i \in 1 .. Len(buf) : mem[cur][i] = 0
Answering == Quiet /\ upc # "idle" => Answer

\* The keys the loop goes through.
LEMMA KeysFacts ==
    ASSUME TypeInv
    PROVE  /\ keys \in Seq(Keys) /\ Len(keys) \in Nat /\ idx \in 1 .. Len(keys) + 1
           /\ Keys \subseteq Nat \ {0} /\ \A i \in 1 .. Len(keys) : keys[i] \in Keys
           /\ idx > Len(keys) => Ahead = {}
           /\ idx <= Len(keys) => Ahead = {keys[idx]} \cup {keys[i] : i \in idx + 1 .. Len(keys)}
           /\ keys # <<>> => Len(keys) # 0 /\ Last(keys) = keys[Len(keys)]
<1>1. keys \in Seq(Keys) /\ idx \in 1 .. Len(keys) + 1
  BY DEF TypeInv, UserOK
<1>2. /\ Len(keys) \in Nat /\ \A i \in 1 .. Len(keys) : keys[i] \in Keys
      /\ keys # <<>> => Len(keys) # 0 /\ Last(keys) = keys[Len(keys)]
  BY <1>1, SeqFacts
<1>3. idx > Len(keys) => Ahead = {}
  BY <1>1, <1>2 DEF Ahead
<1>4. ASSUME idx <= Len(keys)
      PROVE  Ahead = {keys[idx]} \cup {keys[i] : i \in idx + 1 .. Len(keys)}
  <2>1. idx .. Len(keys) = {idx} \cup (idx + 1 .. Len(keys))
    BY <1>1, <1>2, <1>4
  <2> QED BY <2>1 DEF Ahead
<1>5. Keys \subseteq Nat \ {0}
  BY DEF Keys
<1> QED BY <1>1, <1>2, <1>3, <1>4, <1>5

\* What is collected for a key is shown, and appended unless the key is there already.
LEMMA CollectFacts ==
    ASSUME TypeInv, NEW k \in Keys, NEW v
    PROVE  /\ \A i \in DOMAIN Collect(k, v) : Collect(k, v)[i].key \in Shown \cup {k}
           /\ \A j \in Shown \cup {k} : \E i \in DOMAIN Collect(k, v) : Collect(k, v)[i].key = j
           /\ (\A i \in 1 .. Len(out) : out[i].key # k)
                 => Collect(k, v) = Append(out, [key |-> k, val |-> v])
<1> DEFINE x == [key |-> k, val |-> v]
<1>1. out \in Seq(Shows) /\ DOMAIN out = 1 .. Len(out) /\ Len(out) \in Nat
  <2>1. out \in Seq(Shows)
    BY DEF TypeInv, UserOK
  <2> QED BY <2>1, SeqFacts
<1>2. CASE kind = "hist" /\ \E i \in DOMAIN out : out[i].key = k
  <2> DEFINE q == [i \in DOMAIN out |-> IF out[i].key = k THEN x ELSE out[i]]
  <2>1. Collect(k, v) = q
    BY <1>2 DEF Collect
  <2>2. DOMAIN q = DOMAIN out /\ \A i \in DOMAIN out : q[i].key = out[i].key
    OBVIOUS
  <2> HIDE DEF q
  <2> QED BY <1>1, <1>2, <2>1, <2>2 DEF Shown
<1>3. CASE ~(kind = "hist" /\ \E i \in DOMAIN out : out[i].key = k)
  <2> DEFINE q == Append(out, x)
  <2>1. Collect(k, v) = q
    BY <1>3 DEF Collect
  <2>2. /\ DOMAIN q = 1 .. Len(out) + 1
        /\ \A i \in 1 .. Len(out) : q[i] = out[i]
        /\ q[Len(out) + 1].key = k
    BY <1>1
  <2>3. \A i \in 1 .. Len(out) + 1 : i \in 1 .. Len(out) \/ i = Len(out) + 1
    BY <1>1
  <2> HIDE DEF q
  <2>4. \A i \in DOMAIN q : q[i].key \in Shown \cup {k}
    BY <1>1, <2>2, <2>3 DEF Shown
  <2>5. \A j \in Shown \cup {k} : \E i \in DOMAIN q : q[i].key = j
    <3>1. Len(out) + 1 \in DOMAIN q /\ \A i \in 1 .. Len(out) : i \in DOMAIN q
      BY <1>1, <2>2
    <3> QED BY <1>1, <2>2, <3>1 DEF Shown
  <2> QED BY <2>1, <2>4, <2>5 DEF q
<1> QED BY <1>2, <1>3

\* A program counts its calls, lets the event loop alone and notes the entries it takes.
LEMMA ProgramMoves ==
    ASSUME TypeInv, NEW c \in Cpus, ProgStep(c)
    PROVE  /\ UNCHANGED <<user, ops>> /\ past'.keys = past.keys /\ past'.hits = past.hits
           /\ past.lost \subseteq past'.lost
           /\ \A k \in Keys \ past'.lost : slot[k] # 0 => slot'[k] # 0
           /\ \/ hits' = hits + 1 /\ hits < MaxHits
              \/ hits' = hits /\ prog[c].pc # "idle"
<1> DEFINE P == /\ UNCHANGED <<user, ops>> /\ past'.keys = past.keys /\ past'.hits = past.hits
                /\ past.lost \subseteq past'.lost
                /\ \A k \in Keys \ past'.lost : slot[k] # 0 => slot'[k] # 0
                /\ \/ hits' = hits + 1 /\ hits < MaxHits
                   \/ hits' = hits /\ prog[c].pc # "idle"
<1>1. ASSUME NEW k, NEW v, Lookup(c, k, v) PROVE P
  BY <1>1 DEF Lookup, kernel
<1>2. ASSUME Load(c) PROVE P
  BY <1>2 DEF Load
<1>3. ASSUME Store1(c) PROVE P
  BY <1>3 DEF Store1
<1>4. ASSUME Store2(c) PROVE P
  BY <1>4 DEF Store2
<1>5. ASSUME Insert(c) PROVE P
  <2>1. slot \in [Keys -> 0 .. NSlots] /\ prog[c].key \in Keys
    BY <1>5 DEF TypeInv, KernelOK, ProgOK, Insert
  <2>2. /\ UNCHANGED <<hits, ops, user, past>> /\ prog[c].pc # "idle"
        /\ \/ slot' = slot
           \/ \E s \in Free : slot' = [slot EXCEPT ![prog[c].key] = s]
    BY <1>5 DEF Insert, kernel
  <2>3. \A s \in Free : s # 0
    BY DEF Free, TypeInv, FixedOK, Slots
  <2> QED BY <2>1, <2>2, <2>3
<1>6. ASSUME NEW k \in ScriptKeys, Delete(c, k) PROVE P
  <2>1. slot \in [Keys -> 0 .. NSlots] /\ k \in Keys
    BY MapAssumption DEF TypeInv, KernelOK, ScriptKeys, Keys
  <2>2. /\ UNCHANGED <<ops, user>> /\ hits' = hits + 1 /\ hits < MaxHits
        /\ past' = [past EXCEPT !.lost = @ \cup {k}]
        /\ slot' = slot \/ slot' = [slot EXCEPT ![k] = 0]
    BY <1>6 DEF Delete, RemoveEntry
  <2>3. past'.keys = past.keys /\ past'.hits = past.hits /\ past'.lost = past.lost \cup {k}
    BY <2>2 DEF TypeInv, PastOK
  <2> QED BY <2>1, <2>2, <2>3
<1> QED BY <1>1, <1>2, <1>3, <1>4, <1>5, <1>6 DEF ProgStep

\* A program's step disturbs no walk, and ends the quiet.
LEMMA ProgramServes ==
    ASSUME TypeInv, Walked, Stopped, NEW c \in Cpus, ProgStep(c)
    PROVE  Walked' /\ ~Quiet' /\ Stopped'
<1>1. /\ UNCHANGED <<upc, op, keys, idx, out, ops>> /\ past'.keys = past.keys
      /\ past'.hits = past.hits /\ past.lost \subseteq past'.lost
      /\ \A k \in Keys \ past'.lost : slot[k] # 0 => slot'[k] # 0
      /\ \/ hits' = hits + 1 /\ hits < MaxHits
         \/ hits' = hits /\ prog[c].pc # "idle"
  BY ProgramMoves DEF user
<1>2. Stable' \subseteq Stable /\ Stable \subseteq Keys /\ \A j \in Stable' : slot'[j] # 0
  BY <1>1 DEF Stable, Walked, TypeInv, PastOK
<1>3. Found' = Found /\ Ahead' = Ahead /\ Shown' = Shown
  BY <1>1 DEF Found, Ahead, Shown
<1>4. Walked'
  BY <1>1, <1>2, <1>3 DEF Walked
<1>5. hits \in 0 .. MaxHits /\ MaxHits \in Nat /\ past.hits \in Nat
  BY MapAssumption DEF TypeInv, ProgOK, PastOK
<1>6. ~Quiet' /\ (past'.hits <= hits' \/ past'.hits = MaxHits + 1)
  BY <1>1, <1>5 DEF Quiet, Stopped
<1> QED BY <1>4, <1>6 DEF Stopped

\* The event loop's steps.
LEMMA LoopServes ==
    ASSUME TypeInv, TypeInv', Walked, UserStep
    PROVE  Walked'
<1>1. /\ keys \in Seq(Keys) /\ Len(keys) \in Nat /\ idx \in 1 .. Len(keys) + 1
      /\ Keys \subseteq Nat \ {0} /\ \A i \in 1 .. Len(keys) : keys[i] \in Keys
      /\ idx > Len(keys) => Ahead = {}
      /\ idx <= Len(keys) => Ahead = {keys[idx]} \cup {keys[i] : i \in idx + 1 .. Len(keys)}
      /\ keys # <<>> => Len(keys) # 0 /\ Last(keys) = keys[Len(keys)]
  BY KeysFacts
<1>2. /\ \A j \in Stable : slot[j] # 0
      /\ upc = "walk" => \A j \in Stable : keys = <<>> \/ j > Last(keys) \/ j \in Found
      /\ (upc # "walk" /\ ops > 0 /\ op = "print") => Stable \subseteq Shown \cup Ahead
      /\ (upc # "walk" /\ ops > 0 /\ op = "clear") => Stable \subseteq Ahead
      /\ Stable \subseteq Present /\ Present \subseteq Keys
  BY DEF Walked, Stable, Present, TypeInv, PastOK
<1>3. upc # "idle" /\ ops > 0
  BY DEF Walked, UserStep, collect_keys, Enter, CopyWord, ZeroWord, ClearKey, End
<1>4. ASSUME collect_keys PROVE Walked'
  <2> DEFINE last == IF keys = <<>> THEN 0 ELSE Last(keys)
             next == NextKey(last)
  <2>1. /\ UNCHANGED <<slot, past, op, ops, out, idx>> /\ upc = "walk" /\ idx = 1
        /\ \/ next # 0 /\ keys' = Append(keys, next) /\ upc' = "walk"
           \/ next = 0 /\ keys' = keys /\ upc' = "each"
    BY <1>4 DEF collect_keys, kernel, TypeInv, UserOK
  <2>2. last \in Nat
    <3>1. CASE keys = <<>>
      BY <3>1
    <3>2. CASE keys # <<>>
      <4>1. Len(keys) \in 1 .. Len(keys) /\ last = keys[Len(keys)]
        BY <1>1, <3>2
      <4> QED BY <1>1, <4>1
    <3> QED BY <3>1, <3>2
  <2>3. /\ next = 0 => \A j \in Present : last \in Present /\ j <= last
        /\ next # 0 => /\ next \in Present
                       /\ \A j \in Present : (last \in Present => j > last) => next <= j
    BY <2>2, NextFacts
  <2>4. Stable' = Stable
    BY <2>1 DEF Stable
  <2>5. \A j \in Stable : keys = <<>> \/ j > last \/ j \in Found
    BY <1>2, <2>1
  <2>6. keys = <<>> => last \notin Present
    BY <1>1, <1>2
  <2> HIDE DEF last, next
  <2>7. CASE next # 0
    <3>1. keys' = Append(keys, next) /\ upc' = "walk"
      BY <2>1, <2>7
    <3>2. next \in Keys
      BY <1>2, <2>3, <2>7
    <3>3. /\ Len(keys') = Len(keys) + 1 /\ keys'[Len(keys) + 1] = next
          /\ \A i \in 1 .. Len(keys) : keys'[i] = keys[i]
          /\ keys' \in Seq(Keys)
      BY <1>1, <3>1, <3>2, SeqFacts
    <3>4. Last(keys') = next
      BY <3>3, SeqFacts
    <3>5. Found \subseteq Found' /\ next \in Found'
      BY <1>1, <3>3 DEF Found
    <3>6. \A j \in Stable : j > next \/ j \in Found'
      <4> TAKE j \in Stable
      <4>1. j \in Present /\ j \in Nat /\ next \in Nat
        BY <1>1, <1>2, <3>2
      <4>2. CASE j \in Found
        BY <3>5, <4>2
      <4>3. CASE j \notin Found
        <5>1. keys = <<>> \/ j > last
          BY <2>5, <4>3
        <5>2. next <= j
          BY <2>3, <2>6, <2>7, <4>1, <5>1
        <5> QED BY <3>5, <4>1, <5>2
      <4> QED BY <4>2, <4>3
    <3> QED BY <1>2, <1>3, <2>1, <2>4, <3>1, <3>4, <3>6 DEF Walked
  <2>8. CASE next = 0
    <3>1. keys' = keys /\ upc' = "each"
      BY <2>1, <2>8
    <3>2. Stable \subseteq Found
      <4> SUFFICES ASSUME NEW j \in Stable PROVE j \in Found
        OBVIOUS
      <4>1. last \in Present /\ j <= last /\ j \in Nat
        BY <1>1, <1>2, <2>3, <2>8
      <4>2. ~(j > last)
        BY <2>2, <4>1
      <4> QED BY <2>5, <2>6, <4>1, <4>2
    <3>3. Ahead' = Found
      BY <2>1, <3>1 DEF Ahead, Found
    <3> QED BY <1>2, <1>3, <2>1, <2>4, <3>1, <3>2, <3>3 DEF Walked
  <2> QED BY <2>7, <2>8
<1>5. ASSUME UNCHANGED <<keys, op, ops>>, past'.keys = past.keys, past.lost \subseteq past'.lost,
             \A j \in Keys \ past'.lost : slot'[j] = slot[j],
             upc # "walk", upc' # "walk",
             op = "print" => Shown \subseteq Shown' /\ Ahead \subseteq Ahead' \cup Shown' \cup past'.lost,
             op = "clear" => Ahead \subseteq Ahead' \cup past'.lost
      PROVE  Walked'
  <2>1. Stable' \subseteq Stable /\ Stable' \cap past'.lost = {} /\ Stable' \subseteq Keys
    BY <1>2, <1>5 DEF Stable
  <2>2. \A j \in Stable' : slot'[j] # 0
    BY <1>2, <1>5, <2>1
  <2>3. op = "print" => Stable' \subseteq Shown' \cup Ahead'
    BY <1>2, <1>3, <1>5, <2>1
  <2>4. op = "clear" => Stable' \subseteq Ahead'
    BY <1>2, <1>3, <1>5, <2>1
  <2> QED BY <1>3, <1>5, <2>2, <2>3, <2>4 DEF Walked
<1>6. ASSUME idx <= Len(keys), idx' = idx + 1, UNCHANGED keys
      PROVE  Ahead \subseteq {keys[idx]} \cup Ahead'
  BY <1>1, <1>6 DEF Ahead
<1>7. ASSUME Enter PROVE Walked'
  <2>1. /\ UNCHANGED <<slot, past, keys, op, ops, out>> /\ op # "clear"
        /\ upc = "each" /\ idx <= Len(keys) /\ upc' # "walk"
        /\ \/ slot[keys[idx]] = 0 /\ idx' = idx + 1
           \/ idx' = idx
    BY <1>7 DEF Enter, kernel
  <2>2. Shown' = Shown /\ Stable' = Stable
    BY <2>1 DEF Shown, Stable
  <2>3. CASE idx' = idx
    <3>1. Ahead' = Ahead
      BY <2>1, <2>3 DEF Ahead
    <3> QED BY <1>5, <2>1, <2>2, <3>1
  <2>4. CASE slot[keys[idx]] = 0 /\ idx' = idx + 1
    <3>1. keys[idx] \notin Stable
      BY <1>2, <2>4
    <3>2. op = "print" => Stable \subseteq Shown \cup Ahead'
      BY <1>2, <1>3, <1>6, <2>1, <2>4, <3>1
    <3> QED BY <1>2, <1>3, <2>1, <2>2, <3>2 DEF Walked
  <2> QED BY <2>1, <2>3, <2>4
<1>8. ASSUME CopyWord PROVE Walked'
  <2> DEFINE w == Append(buf, mem[cur][Len(buf) + 1])
  <2>1. /\ UNCHANGED <<slot, past, keys, op, ops>> /\ op = "print"
        /\ upc = "copy" /\ idx <= Len(keys) /\ keys[idx] \in Keys /\ upc' # "walk"
        /\ \/ idx' = idx /\ out' = out
           \/ idx' = idx + 1 /\ out' = Collect(keys[idx], Reduce(w))
    BY <1>1, <1>8 DEF CopyWord, NextEntry, kernel, TypeInv, UserOK
  <2> HIDE DEF w
  <2>2. CASE idx' = idx /\ out' = out
    <3>1. Ahead' = Ahead /\ Shown' = Shown
      BY <2>1, <2>2 DEF Ahead, Shown
    <3> QED BY <1>5, <2>1, <3>1
  <2>3. CASE idx' = idx + 1 /\ out' = Collect(keys[idx], Reduce(w))
    <3>1. Shown' = Shown \cup {keys[idx]}
      <4> DEFINE k == keys[idx]
                 q == Collect(k, Reduce(w))
      <4>1. k \in Keys
        BY <2>1
      <4> HIDE DEF k
      <4>2. /\ \A i \in DOMAIN q : q[i].key \in Shown \cup {k}
            /\ \A j \in Shown \cup {k} : \E i \in DOMAIN q : q[i].key = j
        BY <4>1, CollectFacts
      <4>3. Shown' = {out'[i].key : i \in DOMAIN out'} /\ out' = q
        BY <2>3 DEF Shown, k
      <4> HIDE DEF q
      <4>4. Shown' = Shown \cup {k}
        BY <4>2, <4>3
      <4> QED BY <4>4 DEF k
    <3> QED BY <1>5, <1>6, <2>1, <2>3, <3>1
  <2> QED BY <2>1, <2>2, <2>3
<1>9. ASSUME ZeroWord PROVE Walked'
  <2>1. /\ UNCHANGED <<slot, keys, op, ops>> /\ op = "zero" /\ upc = "zero" /\ upc' # "walk"
        /\ past' = [past EXCEPT !.lost = @ \cup {keys[idx]}]
    BY <1>9 DEF ZeroWord, NextEntry, TypeInv, UserOK
  <2>2. past'.keys = past.keys /\ past.lost \subseteq past'.lost
    BY <2>1 DEF TypeInv, PastOK
  <2> QED BY <1>5, <2>1, <2>2
<1>10. ASSUME ClearKey PROVE Walked'
  <2> DEFINE k == keys[idx]
  <2>1. /\ UNCHANGED <<keys, op, ops>> /\ op = "clear" /\ upc = "each" /\ upc' # "walk"
        /\ idx <= Len(keys) /\ idx' = idx + 1 /\ k \in Keys
    BY <1>1, <1>10 DEF ClearKey
  <2>2. Ahead \subseteq {k} \cup Ahead'
    BY <1>6, <2>1
  <2> HIDE DEF k
  <2>3. CASE slot[k] # 0
    <3>1. slot' = [slot EXCEPT ![k] = 0] /\ past' = [past EXCEPT !.lost = @ \cup {k}]
      BY <1>10, <2>3 DEF ClearKey, RemoveEntry, k
    <3>2. past'.keys = past.keys /\ past'.lost = past.lost \cup {k}
      BY <3>1 DEF TypeInv, PastOK
    <3>3. \A j \in Keys \ {k} : slot'[j] = slot[j]
      BY <3>1 DEF TypeInv, KernelOK
    <3> QED BY <1>5, <2>1, <2>2, <3>2, <3>3
  <2>4. CASE slot[k] = 0
    <3>1. UNCHANGED <<slot, past>>
      BY <1>10, <2>4 DEF ClearKey, kernel, k
    <3>2. Stable' = Stable /\ k \notin Stable
      BY <1>2, <2>4, <3>1 DEF Stable
    <3>3. Stable \subseteq Ahead'
      BY <1>2, <1>3, <2>1, <2>2, <3>2
    <3> QED BY <1>2, <1>3, <2>1, <3>1, <3>2, <3>3 DEF Walked
  <2> QED BY <2>3, <2>4
<1>11. ASSUME End PROVE Walked'
  <2>1. /\ UNCHANGED <<slot, past, op, ops, out>> /\ upc = "each" /\ idx > Len(keys)
        /\ upc' = "idle"
    BY <1>11 DEF End, kernel
  <2>2. Stable' = Stable /\ Shown' = Shown
    BY <2>1 DEF Stable, Shown
  <2> QED BY <1>1, <1>2, <1>3, <2>1, <2>2 DEF Walked
<1> QED BY <1>4, <1>7, <1>8, <1>9, <1>10, <1>11 DEF UserStep

\* A step of user space leaves the programs, and so the quiet, as they are.
LEMMA LoopStops ==
    ASSUME TypeInv, Stopped, UserStep
    PROVE  Stopped' /\ (Quiet' <=> Quiet) /\ UNCHANGED <<ops, op>>
<1>1. UNCHANGED <<hits, prog, ops, op>>
  BY DEF UserStep, collect_keys, Enter, CopyWord, ZeroWord, ClearKey, End
<1>2. past'.hits = past.hits
  <2>1. past' = past \/ \E k : past' = [past EXCEPT !.lost = @ \cup {k}]
    BY DEF UserStep, collect_keys, Enter, CopyWord, ZeroWord, ClearKey, RemoveEntry, End
  <2> QED BY <2>1 DEF TypeInv, PastOK
<1> QED BY <1>1, <1>2 DEF Stopped, Quiet

\* The beginning of an event.
LEMMA BeginServes ==
    ASSUME TypeInv, NEW o \in {"print", "zero", "clear"}, Begin(o)
    PROVE  Walked' /\ Stopped' /\ Answering' /\ ~(upc' = "idle")
<1>1. /\ UNCHANGED <<slot, mem, prog, hits, keys, idx>> /\ keys = <<>> /\ upc' = "walk"
      /\ ops' = ops + 1 /\ out' = <<>>
      /\ past' = [keys |-> Present, count |-> Totals, lost |-> {},
                  hits |-> IF \A c \in Cpus : prog[c].pc = "idle" THEN hits ELSE MaxHits + 1]
  BY DEF Begin, kernel, TypeInv, UserOK
<1>2. hits \in 0 .. MaxHits /\ MaxHits \in Nat /\ ops \in Nat
  BY MapAssumption DEF TypeInv, ProgOK
<1>3. Walked'
  <2>1. Stable' = Present
    BY <1>1 DEF Stable
  <2> QED BY <1>1, <1>2, <2>1 DEF Walked, Present
<1>4. Stopped'
  BY <1>1, <1>2 DEF Stopped, Quiet
<1>5. Answer'
  <2>1. Len(keys') = 0 /\ keys' = <<>>
    BY <1>1
  <2>2. Found' = {}
    BY <2>1 DEF Found
  <2>3. Increasing'
    BY <2>1 DEF Increasing
  <2> QED BY <1>1, <2>1, <2>2, <2>3 DEF Answer
<1> QED BY <1>1, <1>3, <1>4, <1>5 DEF Answering

\* As many keys as the walk has found.
LEMMA FoundCount ==
    ASSUME TypeInv, Increasing
    PROVE  Cardinality(Found) = Len(keys)
<1>1. /\ Len(keys) \in Nat /\ \A i \in 1 .. Len(keys) : keys[i] \in Nat
  BY KeysFacts
<1> DEFINE f == [i \in 1 .. Len(keys) |-> keys[i]]
<1>2. f \in [1 .. Len(keys) -> Found]
  BY DEF Found
<1>3. \A i, j \in 1 .. Len(keys) : f[i] = f[j] => i = j
  <2> TAKE i, j \in 1 .. Len(keys)
  <2>1. i < j \/ j < i \/ i = j
    BY <1>1
  <2>2. (i < j => keys[i] < keys[j]) /\ (j < i => keys[j] < keys[i])
    BY DEF Increasing
  <2> QED BY <1>1, <2>1, <2>2
<1>4. \A k \in Found : \E i \in 1 .. Len(keys) : f[i] = k
  BY DEF Found
<1>5. f \in Bijection(1 .. Len(keys), Found)
  BY <1>2, <1>3, <1>4 DEF Bijection, Injection, Surjection, IsInjective
<1>6. ExistsBijection(1 .. Len(keys), Found)
  BY <1>5 DEF ExistsBijection
<1> QED BY <1>1, <1>6, FS_CountingElements

\* The walk, when no program runs.
LEMMA WalkAnswers ==
    ASSUME TypeInv, Answer, collect_keys
    PROVE  Answer'
<1>1. /\ keys \in Seq(Keys) /\ Len(keys) \in Nat /\ Keys \subseteq Nat \ {0}
      /\ \A i \in 1 .. Len(keys) : keys[i] \in Keys
      /\ keys # <<>> => Len(keys) # 0 /\ Last(keys) = keys[Len(keys)]
  BY KeysFacts
<1> DEFINE last == IF keys = <<>> THEN 0 ELSE Last(keys)
           next == NextKey(last)
<1>2. /\ UNCHANGED <<slot, mem, op, out, idx>> /\ upc = "walk" /\ idx = 1
      /\ \/ next # 0 /\ keys' = Append(keys, next) /\ upc' = "walk"
         \/ next = 0 /\ keys' = keys /\ upc' = "each"
  BY DEF collect_keys, kernel, TypeInv, UserOK
<1>3. /\ Increasing /\ out = <<>>
      /\ Found = {j \in Present : keys # <<>> /\ j <= Last(keys)}
  BY <1>2 DEF Answer
<1>4. /\ keys = <<>> => last = 0 /\ Len(keys) = 0
      /\ keys # <<>> => /\ last = keys[Len(keys)] /\ last \in Found /\ last \in Present
                        /\ Len(keys) \in 1 .. Len(keys)
  <2>1. ASSUME keys # <<>>
        PROVE  last = keys[Len(keys)] /\ Len(keys) \in 1 .. Len(keys)
    BY <1>1, <2>1
  <2> HIDE DEF last
  <2>2. keys # <<>> => last \in Found /\ last \in Present
    BY <1>3, <2>1 DEF Found
  <2> QED BY <1>1, <2>1, <2>2 DEF last
<1>5. last \in Nat /\ Present \subseteq Keys
  BY <1>1, <1>4 DEF Present
<1>6. /\ next = 0 => \A j \in Present : last \in Present /\ j <= last
      /\ next # 0 => /\ next \in Present
                     /\ last \in Present => next > last
                     /\ \A j \in Present : (last \in Present => j > last) => next <= j
  BY <1>5, NextFacts
<1>7. Found = {j \in Present : keys # <<>> /\ j <= last}
  BY <1>3
<1>8. Present' = Present
  BY <1>2 DEF Present
<1> HIDE DEF last, next
<1>9. CASE next # 0
  <2>1. keys' = Append(keys, next) /\ upc' = "walk" /\ next \in Keys
    BY <1>2, <1>5, <1>6, <1>9
  <2>2. /\ Len(keys') = Len(keys) + 1 /\ keys'[Len(keys) + 1] = next
        /\ \A i \in 1 .. Len(keys) : keys'[i] = keys[i]
        /\ keys' \in Seq(Keys)
    BY <1>1, <2>1, SeqFacts
  <2>3. Last(keys') = next /\ keys' # <<>>
    BY <1>1, <2>2, SeqFacts
  <2>4. \A i \in 1 .. Len(keys) : keys[i] < next /\ keys[i] \in Present
    <3> TAKE i \in 1 .. Len(keys)
    <3>1. keys # <<>>
      BY <1>1
    <3>2. last < next
      BY <1>4, <1>5, <1>6, <1>9, <3>1, <2>1, <1>1
    <3>3. keys[i] \in Found
      BY DEF Found
    <3>4. keys[i] <= last /\ keys[i] \in Present
      BY <1>7, <3>3
    <3>5. keys[i] \in Nat /\ next \in Nat
      BY <1>1, <2>1
    <3> QED BY <1>5, <3>2, <3>4, <3>5
  <2>5. \A i \in 1 .. Len(keys) + 1 : i \in 1 .. Len(keys) \/ i = Len(keys) + 1
    BY <1>1
  <2>6. Increasing'
    <3> SUFFICES ASSUME NEW i \in 1 .. Len(keys) + 1, NEW j \in 1 .. Len(keys) + 1, i < j
                 PROVE  keys'[i] < keys'[j]
      BY <2>2 DEF Increasing
    <3>1. i \in 1 .. Len(keys)
      BY <1>1
    <3>2. CASE j = Len(keys) + 1
      BY <2>2, <2>4, <3>1, <3>2
    <3>3. CASE j \in 1 .. Len(keys)
      BY <1>3, <2>2, <3>1, <3>3 DEF Increasing
    <3> QED BY <2>5, <3>2, <3>3
  <2>7. Found' = Found \cup {next}
    <3>1. Found' = {keys'[i] : i \in 1 .. Len(keys) + 1}
      BY <2>2 DEF Found
    <3>2. \A i \in 1 .. Len(keys) : i \in 1 .. Len(keys) + 1
      BY <1>1
    <3>3. Len(keys) + 1 \in 1 .. Len(keys) + 1
      BY <1>1
    <3> QED BY <2>2, <2>5, <3>1, <3>2, <3>3 DEF Found
  <2>8. Found' = {j \in Present : j <= next}
    <3>1. \A j \in Found' : j \in Present /\ j <= next
      <4>1. \A j \in Found : j \in Present /\ j < next
        BY <2>4 DEF Found
      <4>2. next \in Nat /\ next \in Present /\ \A j \in Present : j \in Nat
        BY <1>1, <1>5, <1>6, <1>9
      <4>3. ASSUME NEW j \in Found PROVE j <= next
        <5>1. j < next /\ j \in Nat /\ next \in Nat
          BY <4>1, <4>2
        <5> QED BY <5>1
      <4>4. next <= next
        BY <4>2
      <4> HIDE DEF Found
      <4> QED BY <2>7, <4>1, <4>2, <4>3, <4>4
    <3>2. ASSUME NEW j \in Present, j <= next PROVE j \in Found'
      <4>1. j \in Nat /\ next \in Nat
        BY <1>1, <1>5, <2>1
      <4>2. CASE last \in Present => j > last
        BY <1>6, <1>9, <2>7, <3>2, <4>1, <4>2
      <4>3. CASE last \in Present /\ ~(j > last)
        <5>1. keys # <<>>
          BY <1>1, <1>4, <1>5, <4>3
        <5> QED BY <1>5, <1>7, <2>7, <4>1, <4>3, <5>1
      <4> QED BY <4>2, <4>3
    <3> QED BY <3>1, <3>2
  <2> QED BY <1>2, <1>3, <1>8, <2>1, <2>3, <2>6, <2>8 DEF Answer
<1>10. CASE next = 0
  <2>1. keys' = keys /\ upc' = "each"
    BY <1>2, <1>10
  <2>2. Found = Present
    <3>1. keys = <<>> => last \notin Present
      BY <1>1, <1>4, <1>5
    <3> QED BY <1>6, <1>7, <1>10, <3>1
  <2>3. Found' = Found /\ Ahead' = Found /\ Increasing'
    BY <1>2, <1>3, <2>1 DEF Found, Ahead, Increasing
  <2>4. Len(out') = idx' - 1 /\ \A i \in 1 .. idx' - 1 : FALSE
    BY <1>2, <1>3
  <2> QED BY <1>2, <1>8, <2>1, <2>2, <2>3, <2>4 DEF Answer
<1> QED BY <1>2, <1>9, <1>10

\* The loop over the keys, when no program runs.
LEMMA LoopAnswers ==
    ASSUME TypeInv, TypeInv', Injective, Answer, Enter \/ CopyWord \/ ZeroWord \/ ClearKey
    PROVE  Answer' /\ upc' # "idle"
<1>1. /\ keys \in Seq(Keys) /\ Len(keys) \in Nat /\ idx \in 1 .. Len(keys) + 1
      /\ \A i \in 1 .. Len(keys) : keys[i] \in Keys /\ keys[i] \in Nat
  BY KeysFacts
<1>2. /\ kind' = kind /\ NWords' = NWords /\ ZeroEntry' = ZeroEntry
      /\ \A w : Reduce(w)' = Reduce(w)
  <2>1. UNCHANGED fixed
    BY DEF Enter, CopyWord, ZeroWord, ClearKey
  <2> QED BY <2>1, ReduceSame, SameTypes DEF fixed
<1>3. /\ upc \in {"each", "copy", "zero"} /\ idx <= Len(keys) /\ keys' = keys /\ op' = op
      /\ keys[idx] \in Keys /\ idx \in 1 .. Len(keys)
  BY <1>1 DEF Enter, CopyWord, ZeroWord, ClearKey, TypeInv, UserOK
<1>4. Increasing /\ Increasing' /\ Found' = Found
  BY <1>3 DEF Answer, Increasing, Found
<1>5. /\ Present = IF op = "clear" THEN Ahead ELSE Found
      /\ op = "print" =>
            /\ Len(out) = idx - 1
            /\ \A i \in 1 .. idx - 1 :
                  out[i] = [key |-> keys[i], val |-> Reduce(mem[slot[keys[i]]])]
      /\ op = "zero" => \A i \in 1 .. idx - 1 : mem[slot[keys[i]]] = ZeroEntry
      /\ upc \in {"copy", "zero"} => cur = slot[keys[idx]]
      /\ upc = "copy" => \A i \in 1 .. Len(buf) : buf[i] = mem[cur][i]
      /\ upc = "zero" => \A i \in 1 .. Len(buf) : mem[cur][i] = 0
  BY <1>3 DEF Answer
<1>6. slot[keys[idx]] # 0
  <2>1. keys[idx] \in Found /\ keys[idx] \in Ahead
    BY <1>1, <1>3 DEF Found, Ahead
  <2> QED BY <1>5, <2>1 DEF Present
<1>7. ASSUME Enter PROVE Answer' /\ upc' # "idle"
  <2>1. /\ UNCHANGED <<slot, mem, idx, out, buf>> /\ buf = <<>> /\ op # "clear"
        /\ upc' \in {"copy", "zero"} /\ cur' = slot[keys[idx]]
    BY <1>6, <1>7 DEF Enter, kernel, TypeInv, UserOK
  <2>2. Present' = Present /\ \A i \in 1 .. Len(buf') : FALSE
    BY <2>1 DEF Present
  <2>3. (op = "print" => \A i \in 1 .. idx - 1 :
             out[i] = [key |-> keys[i], val |-> Reduce(mem[slot[keys[i]]])'])
    BY <1>2, <1>3, <1>5, <2>1
  <2> QED BY <1>2, <1>3, <1>4, <1>5, <2>1, <2>2, <2>3 DEF Answer
<1>8. ASSUME CopyWord PROVE Answer' /\ upc' # "idle"
  <2> DEFINE n == Len(buf) + 1
             w == Append(buf, mem[cur][n])
             k == keys[idx]
  <2>1. /\ UNCHANGED <<slot, mem>> /\ op = "print" /\ upc = "copy"
        /\ cur \in Slots /\ Len(buf) < NWords /\ buf \in Seq(Nat) /\ out \in Seq(Shows)
        /\ \/ Len(w) < NWords /\ buf' = w /\ UNCHANGED <<out, upc, idx, cur>>
           \/ /\ ~(Len(w) < NWords) /\ out' = Collect(k, Reduce(w))
              /\ upc' = "each" /\ idx' = idx + 1
    BY <1>8 DEF CopyWord, NextEntry, kernel, TypeInv, UserOK
  <2>2. /\ mem[cur] \in Entries /\ NWords \in Nat /\ Len(buf) \in Nat
        /\ n \in 1 .. NWords /\ mem[cur][n] \in Nat
    <3>1. mem[cur] \in Entries /\ NWords \in Nat /\ Len(buf) \in Nat
      BY <2>1, Layout, SeqFacts DEF TypeInv, KernelOK
    <3>2. n \in 1 .. NWords
      BY <2>1, <3>1
    <3> QED BY <3>1, <3>2, EntryLe
  <2>3. /\ w \in Seq(Nat) /\ Len(w) = n /\ w[n] = mem[cur][n]
        /\ \A i \in 1 .. Len(buf) : w[i] = buf[i]
    BY <2>1, <2>2, SeqFacts
  <2>4. \A i \in 1 .. n : w[i] = mem[cur][i]
    <3>1. \A i \in 1 .. n : i \in 1 .. Len(buf) \/ i = n
      BY <2>2
    <3> QED BY <1>5, <2>1, <2>3, <3>1
  <2>5. Present' = Present /\ Present = Found
    BY <1>5, <2>1 DEF Present
  <2> HIDE DEF w, n, k
  <2>6. CASE Len(w) < NWords
    <3>1. buf' = w /\ UNCHANGED <<out, upc, idx, cur>>
      BY <2>1, <2>6
    <3>2. \A i \in 1 .. Len(buf') : buf'[i] = mem[cur][i]
      BY <2>3, <2>4, <3>1
    <3>3. \A i \in 1 .. idx - 1 :
              out[i] = [key |-> keys[i], val |-> Reduce(mem[slot[keys[i]]])']
      BY <1>2, <1>3, <1>5, <2>1
    <3> QED BY <1>3, <1>4, <1>5, <2>1, <2>5, <3>1, <3>2, <3>3 DEF Answer
  <2>7. CASE ~(Len(w) < NWords)
    <3>1. n = NWords /\ upc' = "each" /\ idx' = idx + 1 /\ out' = Collect(k, Reduce(w))
      BY <2>1, <2>2, <2>3, <2>7
    <3>2. w = mem[cur]
      <4>1. w \in [1 .. NWords -> Nat] /\ mem[cur] \in [1 .. NWords -> Nat]
        BY <2>2, <2>3, <3>1 DEF Entries
      <4>2. \A i \in 1 .. NWords : w[i] = mem[cur][i]
        BY <2>4, <3>1
      <4>3. \A e, f \in Entries : (\A i \in 1 .. NWords : e[i] = f[i]) => e = f
        BY SameFunction DEF Entries
      <4>4. w \in Entries /\ mem[cur] \in Entries
        BY <4>1 DEF Entries
      <4> QED BY <4>2, <4>3, <4>4
    <3>3. cur = slot[k] /\ k \in Keys
      BY <1>3, <1>5, <2>1 DEF k
    <3>4. Len(out) = idx - 1 /\ \A i \in 1 .. Len(out) : out[i].key = keys[i]
      BY <1>5, <2>1
    <3>5. \A i \in 1 .. Len(out) : out[i].key # k
      <4>1. \A i \in 1 .. idx - 1 : keys[i] < keys[idx]
        BY <1>1, <1>3, <1>4 DEF Increasing
      <4>2. \A i \in 1 .. idx - 1 : keys[i] \in Nat
        BY <1>1, <1>3
      <4>3. keys[idx] \in Nat
        BY <1>1, <1>3
      <4> QED BY <3>4, <4>1, <4>2, <4>3 DEF k
    <3> DEFINE x == [key |-> k, val |-> Reduce(w)]
    <3>6. out' = Append(out, x)
      <4>1. Collect(k, Reduce(w)) = Append(out, x)
        BY <3>3, <3>5, CollectFacts
      <4> QED BY <3>1, <4>1
    <3>7. /\ Len(out') = idx /\ out'[idx] = x
          /\ \A i \in 1 .. idx - 1 : out'[i] = out[i]
      <4>1. /\ Len(Append(out, x)) = Len(out) + 1 /\ Append(out, x)[Len(out) + 1] = x
            /\ \A i \in 1 .. Len(out) : Append(out, x)[i] = out[i]
        BY <2>1
      <4> HIDE DEF x
      <4>2. Len(out) + 1 = idx
        BY <1>1, <3>4
      <4> QED BY <3>4, <3>6, <4>1, <4>2
    <3>8. x = [key |-> keys[idx], val |-> Reduce(mem[slot[keys[idx]]])]
      BY <3>2, <3>3 DEF k
    <3> HIDE DEF x
    <3>9. \A i \in 1 .. idx : i \in 1 .. idx - 1 \/ i = idx
      BY <1>1
    <3>10. \A i \in 1 .. idx :
               out'[i] = [key |-> keys[i], val |-> Reduce(mem[slot[keys[i]]])]
      BY <1>5, <2>1, <3>7, <3>8, <3>9
    <3>11. \A i \in 1 .. idx :
               out'[i] = [key |-> keys[i], val |-> Reduce(mem[slot[keys[i]]])']
      BY <1>2, <1>3, <2>1, <3>10
    <3>12. idx' - 1 = idx
      BY <1>1, <3>1
    <3> QED BY <1>3, <1>4, <2>1, <2>5, <3>1, <3>7, <3>11, <3>12 DEF Answer
  <2> QED BY <2>6, <2>7
<1>9. ASSUME ZeroWord PROVE Answer' /\ upc' # "idle"
  <2> DEFINE n == Len(buf) + 1
  <2>1. /\ UNCHANGED slot /\ op = "zero" /\ upc = "zero"
        /\ cur \in Slots /\ Len(buf) < NWords /\ buf \in Seq(Nat)
        /\ mem' = [mem EXCEPT ![cur] = [mem[cur] EXCEPT ![n] = 0]]
        /\ \/ n < NWords /\ buf' = Append(buf, 0) /\ UNCHANGED <<upc, idx, cur>>
           \/ ~(n < NWords) /\ upc' = "each" /\ idx' = idx + 1
    BY <1>9 DEF ZeroWord, NextEntry, TypeInv, UserOK
  <2>2. /\ mem \in [Slots -> Entries] /\ mem[cur] \in Entries /\ NWords \in Nat
        /\ Len(buf) \in Nat /\ n \in 1 .. NWords
    <3>1. mem \in [Slots -> Entries] /\ NWords \in Nat /\ Len(buf) \in Nat
      BY <2>1, Layout, SeqFacts DEF TypeInv, KernelOK
    <3> QED BY <2>1, <3>1
  <2>3. /\ Len(Append(buf, 0)) = n /\ Append(buf, 0)[n] = 0
        /\ \A i \in 1 .. Len(buf) : Append(buf, 0)[i] = buf[i]
    BY <2>1, SeqFacts
  <2>4. Present' = Present /\ Present = Found
    BY <1>5, <2>1 DEF Present
  <2>5. \A i \in 1 .. n : i \in 1 .. Len(buf) \/ i = n
    BY <2>2
  <2> HIDE DEF n
  <2>6. /\ mem'[cur] = [mem[cur] EXCEPT ![n] = 0]
        /\ \A s \in Slots \ {cur} : mem'[s] = mem[s]
    BY <2>1, <2>2
  <2>7. \A i \in 1 .. n : mem'[cur][i] = 0
    <3>1. \A i \in 1 .. n : i \in 1 .. NWords
      BY <2>2
    <3> QED BY <1>5, <2>1, <2>2, <2>5, <2>6, <3>1 DEF Entries
  <2>8. \A i \in 1 .. idx - 1 : mem'[slot[keys[i]]] = ZeroEntry
    <3> TAKE i \in 1 .. idx - 1
    <3>1. mem[slot[keys[i]]] = ZeroEntry
      BY <1>5, <2>1
    <3>2. slot[keys[i]] \in Slots
      <4>1. i \in 1 .. Len(keys)
        BY <1>1, <1>3
      <4>2. keys[i] \in Present
        BY <2>4, <4>1 DEF Found
      <4> QED BY <4>2, MapAssumption DEF Present, TypeInv, KernelOK, Slots
    <3>3. CASE slot[keys[i]] = cur
      <4>1. [ZeroEntry EXCEPT ![n] = 0] = ZeroEntry
        BY DEF ZeroEntry
      <4> QED BY <2>6, <3>1, <3>3, <4>1
    <3>4. CASE slot[keys[i]] # cur
      BY <2>6, <3>1, <3>2, <3>4
    <3> QED BY <3>3, <3>4
  <2>9. CASE n < NWords
    <3>1. buf' = Append(buf, 0) /\ UNCHANGED <<upc, idx, cur>>
      BY <2>1, <2>9
    <3>2. \A i \in 1 .. Len(buf') : mem'[cur][i] = 0
      BY <2>3, <2>7, <3>1
    <3> QED BY <1>2, <1>3, <1>4, <1>5, <2>1, <2>4, <2>8, <3>1, <3>2 DEF Answer
  <2>10. CASE ~(n < NWords)
    <3>1. n = NWords /\ upc' = "each" /\ idx' = idx + 1 /\ idx' - 1 = idx
      BY <1>1, <2>1, <2>2, <2>10
    <3>2. mem'[slot[keys[idx]]] = ZeroEntry
      <4>1. mem'[cur] \in [1 .. NWords -> Nat]
        BY <2>2, <2>6 DEF Entries
      <4>2. mem'[cur] = ZeroEntry
        BY <2>7, <3>1, <4>1 DEF ZeroEntry
      <4> QED BY <1>5, <2>1, <4>2
    <3>3. \A i \in 1 .. idx : i \in 1 .. idx - 1 \/ i = idx
      BY <1>1
    <3>4. \A i \in 1 .. idx : mem'[slot[keys[i]]] = ZeroEntry
      BY <2>8, <3>2, <3>3
    <3> QED BY <1>2, <1>3, <1>4, <2>1, <2>4, <3>1, <3>4 DEF Answer
  <2> QED BY <2>9, <2>10
<1>10. ASSUME ClearKey PROVE Answer' /\ upc' # "idle"
  <2> DEFINE k == keys[idx]
  <2>1. /\ op = "clear" /\ upc = "each" /\ upc' = "each" /\ idx' = idx + 1
        /\ slot' = [slot EXCEPT ![k] = 0] /\ slot \in [Keys -> 0 .. NSlots] /\ k \in Keys
    BY <1>3, <1>6, <1>10 DEF ClearKey, RemoveEntry, TypeInv, KernelOK
  <2>2. Present' = Present \ {k}
    BY <2>1 DEF Present
  <2>3. Ahead = {k} \cup Ahead'
    <3>1. Ahead = {k} \cup {keys[i] : i \in idx + 1 .. Len(keys)}
      BY <1>3, KeysFacts
    <3>2. Ahead' = {keys[i] : i \in idx + 1 .. Len(keys)}
      BY <1>3, <2>1 DEF Ahead
    <3> QED BY <3>1, <3>2
  <2>4. k \notin Ahead'
    <3>1. \A i \in idx + 1 .. Len(keys) : i \in 1 .. Len(keys) /\ idx < i
      BY <1>1
    <3>2. \A i \in idx + 1 .. Len(keys) : keys[idx] < keys[i]
      BY <1>3, <1>4, <3>1 DEF Increasing
    <3>3. \A i \in idx + 1 .. Len(keys) : keys[idx] # keys[i]
      BY <1>1, <1>3, <3>1, <3>2
    <3>4. Ahead' = {keys[i] : i \in idx + 1 .. Len(keys)}
      BY <1>3, <2>1 DEF Ahead
    <3> QED BY <3>3, <3>4
  <2> HIDE DEF k
  <2>5. Present' = Ahead'
    BY <1>5, <2>1, <2>2, <2>3, <2>4
  <2> QED BY <1>3, <1>4, <2>1, <2>5 DEF Answer
<1> QED BY <1>7, <1>8, <1>9, <1>10

\* The end of an event.
LEMMA EndAnswers ==
    ASSUME TypeInv, TypeInv', Answer, End
    PROVE  QuietEventsExact'
<1>1. /\ UNCHANGED <<slot, mem, op, out>> /\ upc = "each" /\ idx > Len(keys) /\ kind' = kind
      /\ \A w : Reduce(w)' = Reduce(w)
      /\ ZeroEntry' = ZeroEntry
  <2>1. UNCHANGED fixed
    BY DEF End
  <2> QED BY <2>1, ReduceSame, SameTypes DEF End, kernel, fixed
<1>2. /\ Len(keys) \in Nat /\ idx \in 1 .. Len(keys) + 1 /\ idx - 1 = Len(keys)
      /\ Ahead = {}
  BY <1>1, KeysFacts
<1>3. Increasing /\ Present = IF op = "clear" THEN Ahead ELSE Found
  BY <1>1 DEF Answer
<1>4. Present' = Present
  BY <1>1 DEF Present
<1>5. ASSUME op = "print"
      PROVE  /\ Shown' = Present /\ Len(out) = Cardinality(Present)
             /\ \A i \in DOMAIN out : out[i].val = Reduce(mem[slot[out[i].key]])
  <2>1. /\ Len(out) = Len(keys)
        /\ \A i \in 1 .. Len(keys) :
              out[i] = [key |-> keys[i], val |-> Reduce(mem[slot[keys[i]]])]
    BY <1>1, <1>2, <1>5 DEF Answer
  <2>2. DOMAIN out = 1 .. Len(keys)
    <3>1. out \in Seq(Shows)
      BY DEF TypeInv, UserOK
    <3> QED BY <2>1, <3>1, SeqFacts
  <2>3. \A i \in 1 .. Len(keys) :
            out[i].key = keys[i] /\ out[i].val = Reduce(mem[slot[keys[i]]])
    <3> TAKE i \in 1 .. Len(keys)
    <3> DEFINE r == Reduce(mem[slot[keys[i]]])
    <3>1. out[i] = [key |-> keys[i], val |-> r]
      BY <2>1
    <3> HIDE DEF r
    <3>2. out[i].key = keys[i] /\ out[i].val = r
      BY <3>1
    <3> QED BY <3>2 DEF r
  <2>4. Shown' = Found
    BY <1>1, <2>2, <2>3 DEF Shown, Found
  <2>5. \A i \in DOMAIN out : out[i].val = Reduce(mem[slot[out[i].key]])
    BY <2>2, <2>3
  <2> QED BY <1>3, <1>5, <2>1, <2>4, <2>5, FoundCount
<1>6. ASSUME op = "zero" PROVE \A k \in Present : mem[slot[k]] = ZeroEntry
  <2>1. \A i \in 1 .. Len(keys) : mem[slot[keys[i]]] = ZeroEntry
    BY <1>1, <1>2, <1>6 DEF Answer
  <2> QED BY <1>3, <1>6, <2>1 DEF Found
<1>7. op = "clear" => Present = {}
  BY <1>2, <1>3
<1> QED BY <1>1, <1>4, <1>5, <1>6, <1>7 DEF QuietEventsExact, Served

\* What the events do, with what that rests on.
EInv == TypeInv /\ Injective /\ Walked /\ Stopped /\ Answering /\ QuietEventsExact

\* No step breaks what the events rest on.
LEMMA EventStep == EInv /\ [Next]_vars => EInv'
<1> SUFFICES ASSUME EInv, [Next]_vars PROVE EInv'
  OBVIOUS
<1>1. TypeInv /\ Injective /\ Walked /\ Stopped /\ Answering /\ QuietEventsExact
  BY DEF EInv
<1>2. TypeInv' /\ Injective'
  BY <1>1, TypeStep, InjectiveStep
<1>3. ASSUME ~Quiet' PROVE Answering' /\ QuietEventsExact'
  BY <1>3 DEF Quiet, Answering, QuietEventsExact
<1>4. CASE UNCHANGED vars
  <2>1. UNCHANGED <<slot, mem, prog, hits, ops, upc, op, keys, idx, cur, buf, out, past>>
    BY <1>4 DEF vars, kernel, user
  <2>2. /\ Present' = Present /\ ZeroEntry' = ZeroEntry /\ \A w : Reduce(w)' = Reduce(w)
        /\ NWords' = NWords
    BY <1>4, <2>1, ReduceSame, SameTypes DEF Present, vars, fixed
  <2>3. Walked' /\ Stopped'
    BY <1>1, <2>1 DEF Walked, Stopped, Stable, Found, Ahead, Shown, Quiet
  <2>4. Answering'
    BY <1>1, <2>1, <2>2 DEF Answering, Answer, Quiet, Increasing, Found, Ahead
  <2>5. QuietEventsExact'
    BY <1>1, <2>1, <2>2 DEF QuietEventsExact, Served, Shown
  <2> QED BY <1>2, <2>3, <2>4, <2>5 DEF EInv
<1>5. ASSUME NEW c \in Cpus, ProgStep(c) PROVE EInv'
  BY <1>1, <1>2, <1>3, <1>5, ProgramServes DEF EInv
<1>6. ASSUME NEW o \in {"print", "zero", "clear"}, Begin(o) PROVE EInv'
  <2>1. Walked' /\ Stopped' /\ Answering' /\ ~(upc' = "idle")
    BY <1>1, <1>6, BeginServes
  <2> QED BY <1>2, <2>1 DEF EInv, QuietEventsExact, Served
<1>7. ASSUME UserStep PROVE EInv'
  <2>1. Walked' /\ Stopped' /\ (Quiet' <=> Quiet)
    BY <1>1, <1>2, <1>7, LoopServes, LoopStops
  <2>2. CASE ~Quiet'
    BY <1>2, <1>3, <2>1, <2>2 DEF EInv
  <2>3. CASE Quiet'
    <3>1. Answer
      BY <1>1, <1>7, <2>1, <2>3 DEF Answering, UserStep, collect_keys, Enter, CopyWord, ZeroWord,
                                    ClearKey, End
    <3>2. CASE collect_keys
      <4>1. upc' # "idle"
        BY <3>2 DEF collect_keys
      <4> QED BY <1>1, <1>2, <2>1, <3>1, <3>2, <4>1, WalkAnswers
              DEF EInv, Answering, QuietEventsExact, Served
    <3>3. CASE Enter \/ CopyWord \/ ZeroWord \/ ClearKey
      BY <1>1, <1>2, <2>1, <3>1, <3>3, LoopAnswers
      DEF EInv, Answering, QuietEventsExact, Served
    <3>4. CASE End
      <4>1. upc' = "idle"
        BY <3>4 DEF End
      <4> QED BY <1>1, <1>2, <2>1, <3>1, <3>4, <4>1, EndAnswers DEF EInv, Answering
    <3> QED BY <1>7, <3>2, <3>3, <3>4 DEF UserStep
  <2> QED BY <2>2, <2>3
<1> QED BY <1>4, <1>5, <1>6, <1>7 DEF Next

\* print shows the keys that stay, clear has removed them, whatever the programs insert and
\* delete under the walk; when no program runs, print shows every entry once with its
\* aggregate, zero leaves no count and clear no entry.
THEOREM ServesAsAsked == Spec => []ServedAsAsked
<1>1. Init => EInv
  <2> SUFFICES ASSUME Init PROVE EInv
    OBVIOUS
  <2>1. TypeInv /\ Injective
    BY CountInit DEF IInv
  <2>2. upc = "idle" /\ ops = 0 /\ hits = 0 /\ past.hits = 0 /\ Stable = {}
    BY DEF Init, Stable
  <2>3. Walked /\ Answering /\ QuietEventsExact
    BY <2>2 DEF Walked, Answering, QuietEventsExact, Served
  <2>4. Stopped
    BY <2>2 DEF Stopped, Init, Idle
  <2> QED BY <2>1, <2>3, <2>4 DEF EInv
<1>2. EInv => ServedAsAsked
  <2> SUFFICES ASSUME EInv PROVE ServedAsAsked
    OBVIOUS
  <2>1. upc = "idle" => idx > Len(keys)
    BY DEF EInv, TypeInv, UserOK
  <2>2. upc = "idle" => Ahead = {}
    BY <2>1, KeysFacts DEF EInv
  <2> QED BY <2>2 DEF EInv, Walked, ServedAsAsked, StableKeysServed, Served, Stable
<1> QED BY <1>1, <1>2, EventStep, PTL DEF Spec

-----------------------------------------------------------------------------
(***************************************************************************)
(* Samples.  What their sum, their number and their extremes are when they *)
(* are recorded one by one on several CPUs.                                *)
(***************************************************************************)
\* g adds up v over the subsets of D.
Sums(g, v, D) ==
    g = [s \in SUBSET D |-> IF s = {} THEN 0 ELSE v[Pick(s)] + g[Rest(s)]]

SumOf(q) == FoldSeq(LAMBDA x, acc : x + acc, 0, q)

\* g appends the sequences of v over sets of CPUs.
Joins(g, v, domain) ==
    g = [s \in domain |-> IF s = {} THEN <<>> ELSE g[Rest(s)] \o v[Pick(s)]]

\* What is left of a finite set when an element is taken out.
LEMMA RestIn ==
    ASSUME NEW D, IsFiniteSet(D), NEW s \in SUBSET D
    PROVE  /\ Cardinality(s) \in Nat /\ IsFiniteSet(s) /\ Cardinality(s) <= Cardinality(D)
           /\ Cardinality(D) \in Nat
           /\ \A x \in s : s \ {x} \in SUBSET D /\ Cardinality(s \ {x}) = Cardinality(s) - 1
           /\ s # {} => /\ Pick(s) \in s /\ Rest(s) \in SUBSET D
                        /\ Cardinality(Rest(s)) = Cardinality(s) - 1
           /\ s # {} <=> Cardinality(s) # 0
<1>1. IsFiniteSet(s) /\ Cardinality(s) <= Cardinality(D) /\ Cardinality(D) \in Nat
  BY FS_Subset, FS_CardinalityType
<1>2. Cardinality(s) \in Nat /\ (s # {} <=> Cardinality(s) # 0)
  BY <1>1, FS_CardinalityType, FS_EmptySet
<1>3. \A x \in s : s \ {x} \in SUBSET D /\ Cardinality(s \ {x}) = Cardinality(s) - 1
  BY <1>1, FS_RemoveElement
<1>4. s # {} => Pick(s) \in s
  BY DEF Pick
<1> QED BY <1>1, <1>2, <1>3, <1>4 DEF Rest

\* There is such a g for a finite set.
LEMMA SumsExist ==
    ASSUME NEW D, IsFiniteSet(D), NEW v
    PROVE  \E g : Sums(g, v, D)
<1> DEFINE Up(n) == {s \in SUBSET D : Cardinality(s) <= n}
           Part(g, n) == g = [s \in Up(n) |-> IF s = {} THEN 0 ELSE v[Pick(s)] + g[Rest(s)]]
           T == {n \in Nat : ~ \E g : Part(g, n)}
<1>1. T = {}
  <2> SUFFICES ASSUME T # {} PROVE FALSE
    OBVIOUS
  <2>1. PICK n \in T : \A m \in T : n <= m
    BY Least
  <2>2. \E g : \A s \in Up(n) : s # {} =>
               g[Rest(s)] = IF Rest(s) = {} THEN 0 ELSE v[Pick(Rest(s))] + g[Rest(Rest(s))]
    <3>1. CASE n = 0
      <4>1. \A s \in Up(n) : s = {}
        BY <3>1, RestIn
      <4> QED BY <4>1
    <3>2. CASE n # 0
      <4>1. n - 1 \in Nat /\ n - 1 \notin T
        <5>1. T \subseteq Nat
          OBVIOUS
        <5> HIDE DEF T
        <5> QED BY <2>1, <3>2, <5>1
      <4>2. PICK g : Part(g, n - 1)
        BY <4>1
      <4>3. \A s \in Up(n) : s # {} => Rest(s) \in Up(n - 1)
        BY <2>1, RestIn
      <4> WITNESS g
      <4> QED BY <4>2, <4>3
    <3> QED BY <3>1, <3>2
  <2>3. PICK g : \A s \in Up(n) : s # {} =>
               g[Rest(s)] = IF Rest(s) = {} THEN 0 ELSE v[Pick(Rest(s))] + g[Rest(Rest(s))]
    BY <2>2
  <2> DEFINE h == [s \in Up(n) |-> IF s = {} THEN 0 ELSE v[Pick(s)] + g[Rest(s)]]
  <2>4. \A s \in Up(n) : s # {} => Rest(s) \in Up(n)
    BY <2>1, RestIn
  <2>5. \A s \in Up(n) : s # {} => h[Rest(s)] = g[Rest(s)]
    BY <2>3, <2>4
  <2>6. Part(h, n)
    BY <2>5
  <2> QED BY <2>1, <2>6
<1>2. Cardinality(D) \in Nat /\ Up(Cardinality(D)) = SUBSET D
  BY RestIn
<1>3. \E g : Part(g, Cardinality(D))
  BY <1>1, <1>2
<1> QED BY <1>2, <1>3 DEF Sums

\* Sums of natural numbers are natural, in whatever order they are made.
LEMMA SumsFacts ==
    ASSUME NEW D, IsFiniteSet(D), NEW v, \A x \in D : v[x] \in Nat, NEW g, Sums(g, v, D)
    PROVE  \A s \in SUBSET D : g[s] \in Nat /\ \A x \in s : g[s] = v[x] + g[s \ {x}]
<1> DEFINE Good(s) == g[s] \in Nat /\ \A x \in s : g[s] = v[x] + g[s \ {x}]
           T == {n \in Nat : \E s \in SUBSET D : Cardinality(s) = n /\ ~Good(s)}
<1>1. ASSUME T # {} PROVE FALSE
  <2>1. PICK n \in T : \A m \in T : n <= m
    BY <1>1, Least
  <2>2. PICK s \in SUBSET D : Cardinality(s) = n /\ ~Good(s)
    BY <2>1
  <2>3. ASSUME NEW t \in SUBSET D, Cardinality(t) = n - 1, n # 0 PROVE Good(t)
    <3>1. n - 1 \in Nat /\ n - 1 \notin T
      <4>1. T \subseteq Nat
        OBVIOUS
      <4> HIDE DEF T
      <4> QED BY <2>1, <2>3, <4>1
    <3> HIDE DEF Good
    <3> QED BY <2>3, <3>1
  <2>4. CASE s = {}
    BY <2>2, <2>4 DEF Sums
  <2>5. CASE s # {}
    <3> DEFINE p == Pick(s)
    <3>1. p \in s /\ n # 0 /\ s \ {p} \in SUBSET D /\ Cardinality(s \ {p}) = n - 1
      BY <2>2, <2>5, RestIn
    <3>2. Good(s \ {p}) /\ g[s] = v[p] + g[s \ {p}]
      BY <2>3, <2>5, <3>1 DEF Sums, Rest
    <3> HIDE DEF p
    <3>3. g[s] \in Nat
      BY <3>1, <3>2
    <3>4. ASSUME NEW x \in s PROVE g[s] = v[x] + g[s \ {x}]
      <4>1. CASE x = p
        BY <3>2, <4>1
      <4>2. CASE x # p
        <5>1. s \ {x} \in SUBSET D /\ Cardinality(s \ {x}) = n - 1
          BY <2>2, RestIn
        <5>2. Good(s \ {x})
          BY <2>3, <3>1, <5>1
        <5>3. g[s \ {x}] = v[p] + g[(s \ {x}) \ {p}]
          BY <3>1, <4>2, <5>2
        <5>4. g[s \ {p}] = v[x] + g[(s \ {p}) \ {x}]
          BY <3>2, <4>2
        <5>5. (s \ {x}) \ {p} = (s \ {p}) \ {x}
          OBVIOUS
        <5>6. g[(s \ {p}) \ {x}] \in Nat
          <6>1. x \in s \ {p}
            BY <4>2
          <6> DEFINE t == s \ {p}
          <6>2. Cardinality(t \ {x}) = Cardinality(t) - 1 /\ t \ {x} \in SUBSET D
                /\ Cardinality(t \ {x}) \in Nat /\ Cardinality(t) \in Nat
            <7>1. t \in SUBSET D /\ x \in t
              BY <3>1, <6>1
            <7> HIDE DEF t
            <7>2. Cardinality(t \ {x}) = Cardinality(t) - 1 /\ t \ {x} \in SUBSET D
              BY <7>1, RestIn
            <7> QED BY <7>1, <7>2, RestIn
          <6>3. n \in Nat
            BY <2>1
          <6>4. Cardinality(t \ {x}) < n
            BY <3>1, <6>2, <6>3
          <6>5. Cardinality(t \ {x}) \notin T
            <7>1. T \subseteq Nat
              OBVIOUS
            <7> HIDE DEF T
            <7> QED BY <2>1, <6>2, <6>3, <6>4, <7>1
          <6> QED BY <6>2, <6>5
        <5>7. v[x] \in Nat /\ v[p] \in Nat
          BY <3>1
        <5> HIDE DEF Good
        <5>8. g[s] = v[p] + g[s \ {p}]
          BY <3>2
        <5> DEFINE a == g[(s \ {p}) \ {x}]
        <5>9. a \in Nat /\ g[s] = v[p] + (v[x] + a) /\ g[s \ {x}] = v[p] + a
          BY <5>3, <5>4, <5>5, <5>6, <5>8
        <5> HIDE DEF a
        <5> QED BY <5>7, <5>9
      <4> QED BY <4>1, <4>2
    <3> QED BY <2>2, <3>3, <3>4
  <2> QED BY <2>4, <2>5
<1>2. \A s \in SUBSET D : Cardinality(s) \in Nat
  BY RestIn
<1> QED BY <1>1, <1>2

\* The sum of a sequence does not depend on what comes behind it.
LEMMA SumOfFacts ==
    /\ SumOf(<<>>) = 0
    /\ \A q \in Seq(Nat) : SumOf(q) \in Nat
    /\ \A q \in Seq(Nat), x \in Nat : SumOf(Append(q, x)) = SumOf(q) + x
<1>1. ASSUME NEW q
      PROVE  SumOf(q) = (CHOOSE g : g = [s \in SUBSET DOMAIN q |->
                 IF s = {} THEN 0
                 ELSE q[CHOOSE x \in s : TRUE] + g[s \ {CHOOSE x \in s : TRUE}]])[DOMAIN q]
  BY DEF SumOf, FoldSeq, FoldFunction, FoldFunctionOnSet, MapThenFoldSet
<1>2. ASSUME NEW q, IsFiniteSet(DOMAIN q)
      PROVE  \E g : Sums(g, q, DOMAIN q) /\ SumOf(q) = g[DOMAIN q]
  <2> DEFINE G == CHOOSE g : g = [s \in SUBSET DOMAIN q |->
                     IF s = {} THEN 0
                     ELSE q[CHOOSE x \in s : TRUE] + g[s \ {CHOOSE x \in s : TRUE}]]
  <2>1. \E g : g = [s \in SUBSET DOMAIN q |->
                     IF s = {} THEN 0
                     ELSE q[CHOOSE x \in s : TRUE] + g[s \ {CHOOSE x \in s : TRUE}]]
    <3>1. PICK g : Sums(g, q, DOMAIN q)
      BY <1>2, SumsExist
    <3> WITNESS g
    <3> QED BY <3>1 DEF Sums, Pick, Rest
  <2>2. Sums(G, q, DOMAIN q)
    BY <2>1 DEF Sums, Pick, Rest
  <2> QED BY <1>1, <2>2
<1>3. \A q \in Seq(Nat) : /\ IsFiniteSet(DOMAIN q) /\ DOMAIN q = 1 .. Len(q) /\ Len(q) \in Nat
                          /\ \A x \in DOMAIN q : q[x] \in Nat
  <2> TAKE q \in Seq(Nat)
  <2>1. DOMAIN q = 1 .. Len(q) /\ Len(q) \in Nat /\ \A x \in 1 .. Len(q) : q[x] \in Nat
    BY SeqFacts
  <2> QED BY <2>1, FS_Interval
<1>4. SumOf(<<>>) = 0
  <2>1. DOMAIN <<>> = {} /\ IsFiniteSet({})
    BY FS_EmptySet
  <2>2. PICK g : Sums(g, <<>>, DOMAIN <<>>) /\ SumOf(<<>>) = g[DOMAIN <<>>]
    BY <1>2, <2>1
  <2> QED BY <2>1, <2>2 DEF Sums
<1>5. ASSUME NEW q \in Seq(Nat) PROVE SumOf(q) \in Nat
  <2>1. PICK g : Sums(g, q, DOMAIN q) /\ SumOf(q) = g[DOMAIN q]
    BY <1>2, <1>3
  <2> QED BY <1>3, <2>1, SumsFacts
<1>7. ASSUME NEW q \in Seq(Nat), NEW g, Sums(g, q, DOMAIN q), NEW i \in DOMAIN q
      PROVE  g[DOMAIN q] = q[i] + g[DOMAIN q \ {i}]
  <2>1. IsFiniteSet(DOMAIN q) /\ \A x \in DOMAIN q : q[x] \in Nat
    BY <1>3
  <2>2. \A s \in SUBSET DOMAIN q : g[s] \in Nat /\ \A x \in s : g[s] = q[x] + g[s \ {x}]
    BY <1>7, <2>1, SumsFacts
  <2> QED BY <1>7, <2>2
<1>6. ASSUME NEW q \in Seq(Nat), NEW x \in Nat PROVE SumOf(Append(q, x)) = SumOf(q) + x
  <2> DEFINE r == Append(q, x)
             n == Len(q)
  <2>1. /\ r \in Seq(Nat) /\ Len(r) = n + 1 /\ r[n + 1] = x
        /\ \A i \in 1 .. n : r[i] = q[i]
    BY SeqFacts
  <2> HIDE DEF r
  <2>2. PICK g : Sums(g, q, DOMAIN q) /\ SumOf(q) = g[DOMAIN q]
    BY <1>2, <1>3
  <2>3. PICK h : Sums(h, r, DOMAIN r) /\ SumOf(r) = h[DOMAIN r]
    BY <1>2, <1>3, <2>1
  <2>4. /\ DOMAIN q = 1 .. n /\ n \in Nat /\ DOMAIN r = 1 .. n + 1 /\ IsFiniteSet(1 .. n)
        /\ \A i \in 1 .. n + 1 : r[i] \in Nat
    BY <1>3, <2>1
  <2>5. h[1 .. n + 1] = r[n + 1] + h[(1 .. n + 1) \ {n + 1}]
    BY <1>7, <2>1, <2>3, <2>4
  <2>6. (1 .. n + 1) \ {n + 1} = 1 .. n
    BY <2>4
  <2>7. h[1 .. n] = g[1 .. n]
    <3> DEFINE T == {m \in Nat : \E s \in SUBSET (1 .. n) : Cardinality(s) = m /\ h[s] # g[s]}
    <3>1. ASSUME T # {} PROVE FALSE
      <4>1. PICK m \in T : \A l \in T : m <= l
        BY <3>1, Least
      <4>2. PICK s \in SUBSET (1 .. n) : Cardinality(s) = m /\ h[s] # g[s]
        BY <4>1
      <4>3. s \in SUBSET (1 .. n + 1)
        BY <2>4, <2>6
      <4>4. s # {}
        BY <2>2, <2>3, <2>4, <4>2, <4>3 DEF Sums
      <4>5. /\ Pick(s) \in s /\ Rest(s) \in SUBSET (1 .. n) /\ Cardinality(Rest(s)) = m - 1
            /\ m - 1 \in Nat
        <5>1. /\ Pick(s) \in s /\ Rest(s) \in SUBSET (1 .. n)
              /\ Cardinality(Rest(s)) = Cardinality(s) - 1
          BY <2>4, <4>2, <4>4, RestIn
        <5>2. Cardinality(s) \in Nat /\ Cardinality(s) # 0
          BY <2>4, <4>2, <4>4, RestIn
        <5> QED BY <4>2, <5>1, <5>2
      <4>6. h[Rest(s)] = g[Rest(s)]
        <5>1. m - 1 \notin T
          BY <4>1, <4>5
        <5> QED BY <4>5, <5>1
      <4>7. h[s] = r[Pick(s)] + h[Rest(s)] /\ g[s] = q[Pick(s)] + g[Rest(s)]
        BY <2>2, <2>3, <2>4, <4>2, <4>3, <4>4 DEF Sums
      <4> QED BY <2>1, <4>2, <4>5, <4>6, <4>7
    <3>2. Cardinality(1 .. n) \in Nat
      BY <2>4, FS_CardinalityType
    <3> QED BY <3>1, <3>2
  <2>8. SumOf(q) \in Nat
    BY <1>5
  <2>9. SumOf(r) = x + h[1 .. n]
    BY <2>1, <2>3, <2>4, <2>5, <2>6
  <2>10. SumOf(r) = x + SumOf(q)
    BY <2>2, <2>4, <2>7, <2>9
  <2> QED BY <2>8, <2>10 DEF r
<1> QED BY <1>4, <1>5, <1>6

\* To append behind the second of two sequences is to append behind both.
LEMMA AppendedJoined ==
    ASSUME NEW q \in Seq(Nat), NEW u \in Seq(Nat), NEW x \in Nat
    PROVE  q \o Append(u, x) = Append(q \o u, x) /\ q \o u \in Seq(Nat)
<1> DEFINE t == Append(u, x)
           l == q \o t
           m == q \o u
           r == Append(m, x)
           a == Len(q)
           b == Len(u)
<1>1. a \in Nat /\ b \in Nat /\ t \in Seq(Nat) /\ m \in Seq(Nat)
  OBVIOUS
<1>2. Len(t) = b + 1 /\ t[b + 1] = x /\ \A i \in 1 .. b : t[i] = u[i]
  BY SeqFacts
<1>3. Len(m) = a + b /\ \A i \in 1 .. a + b : m[i] = IF i <= a THEN q[i] ELSE u[i - a]
  BY ConcatProperties
<1>4. /\ r \in Seq(Nat) /\ Len(r) = Len(m) + 1 /\ r[Len(m) + 1] = x
      /\ \A i \in 1 .. Len(m) : r[i] = m[i]
  BY <1>1, SeqFacts
<1> HIDE DEF t
<1>5. /\ l \in Seq(Nat) /\ Len(l) = a + Len(t)
      /\ \A i \in 1 .. a + Len(t) : l[i] = IF i <= a THEN q[i] ELSE t[i - a]
  BY <1>1, ConcatProperties
<1> HIDE DEF l, m, r, a, b
<1>6. Len(l) = a + b + 1 /\ Len(r) = a + b + 1
  BY <1>1, <1>2, <1>3, <1>4, <1>5
<1>7. ASSUME NEW i \in 1 .. a + b + 1 PROVE l[i] = r[i]
  <2>1. l[i] = IF i <= a THEN q[i] ELSE t[i - a]
    BY <1>1, <1>2, <1>5
  <2>2. CASE i = a + b + 1
    <3>1. ~(i <= a) /\ i - a = b + 1
      BY <1>1, <2>2
    <3> QED BY <1>2, <1>3, <1>4, <2>1, <2>2, <3>1
  <2>3. CASE i # a + b + 1
    <3>1. i \in 1 .. a + b /\ (~(i <= a) => i - a \in 1 .. b)
      BY <1>1, <2>3
    <3>2. r[i] = m[i]
      BY <1>3, <1>4, <3>1
    <3> QED BY <1>2, <1>3, <2>1, <3>1, <3>2
  <2> QED BY <2>2, <2>3
<1>8. l = r
  BY <1>4, <1>5, <1>6, <1>7, SeqEqual
<1> QED BY <1>1, <1>8 DEF l, r, t, m

\* The sum of two sequences, one behind the other.
LEMMA SumOfJoined ==
    ASSUME NEW q \in Seq(Nat), NEW r \in Seq(Nat)
    PROVE  SumOf(q \o r) = SumOf(q) + SumOf(r)
<1> DEFINE T == {n \in Nat : \E t \in Seq(Nat) : Len(t) = n /\ SumOf(q \o t) # SumOf(q) + SumOf(t)}
<1>1. ASSUME T # {} PROVE FALSE
  <2>1. PICK n \in T : \A m \in T : n <= m
    BY <1>1, Least
  <2>2. PICK t \in Seq(Nat) : Len(t) = n /\ SumOf(q \o t) # SumOf(q) + SumOf(t)
    BY <2>1
  <2>3. SumOf(q) \in Nat
    BY SumOfFacts
  <2>4. CASE n = 0
    <3>1. t = <<>> /\ q \o t = q
      BY <2>2, <2>4
    <3> QED BY <2>2, <2>3, <3>1, SumOfFacts
  <2>5. CASE n # 0
    <3> DEFINE u == SubSeq(t, 1, n - 1)
               x == t[n]
    <3>1. /\ n - 1 \in Nat /\ u \in Seq(Nat) /\ Len(u) = n - 1 /\ x \in Nat /\ t = Append(u, x)
      BY <2>1, <2>2, <2>5
    <3> HIDE DEF u, x
    <3>2. q \o t = Append(q \o u, x) /\ q \o u \in Seq(Nat)
      <4>1. \A v \in Seq(Nat), y \in Nat : q \o Append(v, y) = Append(q \o v, y)
                                           /\ q \o v \in Seq(Nat)
        BY AppendedJoined
      <4> QED BY <3>1, <4>1
    <3>3. SumOf(q \o u) = SumOf(q) + SumOf(u)
      <4>1. n - 1 \notin T
        BY <2>1, <3>1
      <4> QED BY <3>1, <4>1
    <3>4. SumOf(q \o t) = SumOf(q \o u) + x /\ SumOf(t) = SumOf(u) + x /\ SumOf(u) \in Nat
      BY <3>1, <3>2, SumOfFacts
    <3> QED BY <2>2, <2>3, <3>1, <3>3, <3>4
  <2> QED BY <2>4, <2>5
<1> QED BY <1>1

Has(q, x) == \E i \in DOMAIN q : q[i] = x

\* What is in one of two sequences is in both together.
LEMMA HoldsJoined ==
    ASSUME NEW q \in Seq(Nat), NEW r \in Seq(Nat), NEW x
    PROVE  Has(q \o r, x) <=> Has(q, x) \/ Has(r, x)
<1>1. /\ DOMAIN q = 1 .. Len(q) /\ DOMAIN r = 1 .. Len(r) /\ Len(q) \in Nat /\ Len(r) \in Nat
      /\ DOMAIN (q \o r) = 1 .. Len(q) + Len(r)
      /\ \A i \in 1 .. Len(q) + Len(r) : (q \o r)[i] = IF i <= Len(q) THEN q[i] ELSE r[i - Len(q)]
  OBVIOUS
<1>2. ASSUME NEW i \in 1 .. Len(q) + Len(r), (q \o r)[i] = x PROVE Has(q, x) \/ Has(r, x)
  <2>1. CASE i <= Len(q)
    <3>1. i \in DOMAIN q /\ q[i] = x
      BY <1>1, <1>2, <2>1
    <3> QED BY <3>1 DEF Has
  <2>2. CASE ~(i <= Len(q))
    <3>1. i - Len(q) \in 1 .. Len(r) /\ r[i - Len(q)] = x
      BY <1>1, <1>2, <2>2
    <3> QED BY <1>1, <3>1 DEF Has
  <2> QED BY <2>1, <2>2
<1>3. ASSUME NEW i \in 1 .. Len(q), q[i] = x PROVE Has(q \o r, x)
  <2>1. i \in 1 .. Len(q) + Len(r) /\ (q \o r)[i] = x
    BY <1>1, <1>3
  <2> QED BY <1>1, <2>1 DEF Has
<1>4. ASSUME NEW i \in 1 .. Len(r), r[i] = x PROVE Has(q \o r, x)
  <2>1. i + Len(q) \in 1 .. Len(q) + Len(r) /\ (q \o r)[i + Len(q)] = x
    BY <1>1, <1>4
  <2> QED BY <1>1, <2>1 DEF Has
<1> QED BY <1>1, <1>2, <1>3, <1>4 DEF Has

\* There is such a g that appends.
LEMMA JoinsExist ==
    ASSUME NEW v
    PROVE  \E g : Joins(g, v, SUBSET Cpus)
<1> DEFINE T == {n \in Nat : ~ \E g : Joins(g, v, UpTo(n))}
<1>1. T = {}
  <2> SUFFICES ASSUME T # {} PROVE FALSE
    OBVIOUS
  <2>1. PICK n \in T : \A m \in T : n <= m
    BY Least
  <2>2. \E g : \A s \in UpTo(n) : s # {} =>
               g[Rest(s)] = IF Rest(s) = {} THEN <<>> ELSE g[Rest(Rest(s))] \o v[Pick(Rest(s))]
    <3>1. CASE n = 0
      <4>1. \A s \in UpTo(n) : s = {}
        BY <3>1, RestFacts DEF UpTo
      <4> QED BY <4>1
    <3>2. CASE n # 0
      <4>1. n - 1 \in Nat /\ n - 1 \notin T
        BY <2>1, <3>2
      <4>2. PICK g : Joins(g, v, UpTo(n - 1))
        BY <4>1
      <4>3. \A s \in UpTo(n) : s # {} => Rest(s) \in UpTo(n - 1)
        BY <2>1, RestFacts DEF UpTo
      <4> WITNESS g
      <4> QED BY <4>2, <4>3 DEF Joins
    <3> QED BY <3>1, <3>2
  <2>3. PICK g : \A s \in UpTo(n) : s # {} =>
               g[Rest(s)] = IF Rest(s) = {} THEN <<>> ELSE g[Rest(Rest(s))] \o v[Pick(Rest(s))]
    BY <2>2
  <2> DEFINE h == [s \in UpTo(n) |-> IF s = {} THEN <<>> ELSE g[Rest(s)] \o v[Pick(s)]]
  <2>4. \A s \in UpTo(n) : s # {} => Rest(s) \in UpTo(n)
    BY <2>1, RestFacts DEF UpTo
  <2>5. \A s \in UpTo(n) : s # {} => h[Rest(s)] = g[Rest(s)]
    BY <2>3, <2>4
  <2>6. Joins(h, v, UpTo(n))
    BY <2>5 DEF Joins
  <2> QED BY <2>1, <2>6
<1>2. NCpus \in Nat /\ UpTo(NCpus) = SUBSET Cpus
  BY MapAssumption, RestFacts DEF UpTo
<1>3. \E g : Joins(g, v, UpTo(NCpus))
  BY <1>1, <1>2
<1> QED BY <1>2, <1>3

\* Recorded is the value of such a g at the set of all CPUs.
LEMMA RecordedIsChosen ==
    ASSUME NEW s
    PROVE  \E g : Joins(g, log[s], SUBSET Cpus) /\ Recorded(s) = g[Cpus]
<1> DEFINE G == CHOOSE g : g = [S \in SUBSET Cpus |->
                     IF S = {} THEN <<>>
                     ELSE g[S \ {CHOOSE x \in S : TRUE}] \o log[s][CHOOSE x \in S : TRUE]]
<1>1. Recorded(s) = G[Cpus]
  BY DEF Recorded, FoldSet, MapThenFoldSet
<1>2. \E g : g = [S \in SUBSET Cpus |->
                     IF S = {} THEN <<>>
                     ELSE g[S \ {CHOOSE x \in S : TRUE}] \o log[s][CHOOSE x \in S : TRUE]]
  <2>1. PICK g : Joins(g, log[s], SUBSET Cpus)
    BY JoinsExist
  <2> WITNESS g
  <2> QED BY <2>1 DEF Joins, Pick, Rest
<1>3. Joins(G, log[s], SUBSET Cpus)
  BY <1>2 DEF Joins, Pick, Rest
<1> QED BY <1>1, <1>3

\* Of a set of sets of CPUs, without the empty one, some member has its rest outside.
LEMMA Smallest ==
    ASSUME NEW B, B \subseteq SUBSET Cpus, B # {}, {} \notin B
    PROVE  \E S \in B : S # {} /\ Rest(S) \in SUBSET Cpus /\ Rest(S) \notin B /\ Pick(S) \in S
<1> DEFINE T == {Cardinality(S) : S \in B}
<1>1. T \subseteq Nat /\ T # {}
  BY RestFacts, MapAssumption
<1>2. PICK n \in T : \A m \in T : n <= m
  BY <1>1, Least
<1>3. PICK S \in B : Cardinality(S) = n
  BY <1>2
<1>4. /\ S # {} /\ Rest(S) \in SUBSET Cpus /\ Pick(S) \in S
      /\ Cardinality(Rest(S)) = Cardinality(S) - 1
  BY RestFacts
<1>5. Cardinality(Rest(S)) \notin T
  <2> HIDE DEF T
  <2>1. n \in Nat /\ Cardinality(Rest(S)) = n - 1
    BY <1>1, <1>2, <1>3, <1>4
  <2> QED BY <1>1, <1>2, <2>1
<1> QED BY <1>4, <1>5

LogsTyped(s) == \A c \in Cpus : log[s][c] \in Seq(Nat)

\* All samples: as many as the CPUs have, with the sum of theirs, and each is of a CPU.
LEMMA RecordedFacts ==
    ASSUME NEW s, LogsTyped(s)
    PROVE  /\ Recorded(s) \in Seq(Nat)
           /\ \A w, f : (\A c \in Cpus : w[WordOf(c, f)] = Len(log[s][c]))
                  => SumField(w, f) = Len(Recorded(s))
           /\ \A w, f : (\A c \in Cpus : w[WordOf(c, f)] = SumOf(log[s][c]))
                  => SumField(w, f) = SumOf(Recorded(s))
           /\ \A x : Has(Recorded(s), x) <=> \E c \in Cpus : Has(log[s][c], x)
<1>1. PICK g : Joins(g, log[s], SUBSET Cpus) /\ Recorded(s) = g[Cpus]
  BY RecordedIsChosen
<1>3. \A S \in SUBSET Cpus : S # {} =>
          g[S] = g[Rest(S)] \o log[s][Pick(S)] /\ log[s][Pick(S)] \in Seq(Nat)
  <2> TAKE S \in SUBSET Cpus
  <2> HAVE S # {}
  <2>1. Pick(S) \in Cpus
    BY RestFacts
  <2> QED BY <1>1, <2>1 DEF Joins, LogsTyped
<1>4. g[{}] = <<>>
  BY <1>1 DEF Joins
<1>5. \A S \in SUBSET Cpus : g[S] \in Seq(Nat)
  <2> DEFINE B == {S \in SUBSET Cpus : g[S] \notin Seq(Nat)}
  <2>1. ASSUME B # {} PROVE FALSE
    <3>1. {} \notin B
      <4>1. <<>> \in Seq(Nat)
        OBVIOUS
      <4> QED BY <1>4, <4>1
    <3>2. PICK S \in B : S # {} /\ Rest(S) \in SUBSET Cpus /\ Rest(S) \notin B
      <4>1. B \subseteq SUBSET Cpus
        OBVIOUS
      <4> HIDE DEF B
      <4> QED BY <2>1, <3>1, <4>1, Smallest
    <3>3. S \in SUBSET Cpus /\ g[S] \notin Seq(Nat) /\ g[Rest(S)] \in Seq(Nat)
      BY <3>2
    <3>4. g[S] = g[Rest(S)] \o log[s][Pick(S)] /\ log[s][Pick(S)] \in Seq(Nat)
      BY <1>3, <3>2, <3>3
    <3>5. \A q, r \in Seq(Nat) : q \o r \in Seq(Nat)
      OBVIOUS
    <3> QED BY <3>3, <3>4, <3>5
  <2> QED BY <2>1
<1>6. ASSUME NEW w, NEW f, \A c \in Cpus : w[WordOf(c, f)] = Len(log[s][c])
      PROVE  SumField(w, f) = Len(Recorded(s))
  <2>1. PICK a : Adds(a, w, f, SUBSET Cpus) /\ SumField(w, f) = a[Cpus]
    BY SumIsChosen
  <2> DEFINE B == {S \in SUBSET Cpus : a[S] # Len(g[S])}
  <2>2. ASSUME B # {} PROVE FALSE
    <3>1. {} \notin B
      BY <1>4, <2>1 DEF Adds
    <3>2. PICK S \in B : S # {} /\ Rest(S) \in SUBSET Cpus /\ Rest(S) \notin B /\ Pick(S) \in S
      <4>1. B \subseteq SUBSET Cpus
        OBVIOUS
      <4> HIDE DEF B
      <4> QED BY <2>2, <3>1, <4>1, Smallest
    <3>3. S \in SUBSET Cpus /\ a[S] # Len(g[S]) /\ a[Rest(S)] = Len(g[Rest(S)])
      BY <3>2
    <3>4. /\ g[S] = g[Rest(S)] \o log[s][Pick(S)] /\ log[s][Pick(S)] \in Seq(Nat)
          /\ g[Rest(S)] \in Seq(Nat) /\ Pick(S) \in Cpus
      BY <1>3, <1>5, <3>2, <3>3
    <3>5. a[S] = Len(log[s][Pick(S)]) + a[Rest(S)]
      BY <1>6, <2>1, <3>2, <3>3, <3>4 DEF Adds
    <3>6. \A q, r \in Seq(Nat) : Len(q \o r) = Len(r) + Len(q)
      OBVIOUS
    <3>7. Len(g[S]) = Len(log[s][Pick(S)]) + Len(g[Rest(S)])
      BY <3>4, <3>6
    <3> QED BY <3>3, <3>5, <3>7
  <2> QED BY <1>1, <2>1, <2>2
<1>7. ASSUME NEW w, NEW f, \A c \in Cpus : w[WordOf(c, f)] = SumOf(log[s][c])
      PROVE  SumField(w, f) = SumOf(Recorded(s))
  <2>1. PICK a : Adds(a, w, f, SUBSET Cpus) /\ SumField(w, f) = a[Cpus]
    BY SumIsChosen
  <2> DEFINE B == {S \in SUBSET Cpus : a[S] # SumOf(g[S])}
  <2>2. ASSUME B # {} PROVE FALSE
    <3>1. {} \notin B
      BY <1>4, <2>1, SumOfFacts DEF Adds
    <3>2. PICK S \in B : S # {} /\ Rest(S) \in SUBSET Cpus /\ Rest(S) \notin B /\ Pick(S) \in S
      <4>1. B \subseteq SUBSET Cpus
        OBVIOUS
      <4> HIDE DEF B
      <4> QED BY <2>2, <3>1, <4>1, Smallest
    <3>3. S \in SUBSET Cpus /\ a[S] # SumOf(g[S]) /\ a[Rest(S)] = SumOf(g[Rest(S)])
      BY <3>2
    <3>4. /\ g[S] = g[Rest(S)] \o log[s][Pick(S)] /\ log[s][Pick(S)] \in Seq(Nat)
          /\ g[Rest(S)] \in Seq(Nat) /\ Pick(S) \in Cpus
      BY <1>3, <1>5, <3>2, <3>3
    <3>5. a[S] = SumOf(log[s][Pick(S)]) + a[Rest(S)]
      BY <1>7, <2>1, <3>2, <3>3, <3>4 DEF Adds
    <3>6. \A q, r \in Seq(Nat) : SumOf(q \o r) = SumOf(r) + SumOf(q)
      BY SumOfJoined, SumOfFacts
    <3>7. SumOf(g[S]) = SumOf(log[s][Pick(S)]) + SumOf(g[Rest(S)])
      BY <3>4, <3>6
    <3> QED BY <3>3, <3>5, <3>7
  <2> QED BY <1>1, <2>1, <2>2
<1>8. ASSUME NEW x PROVE Has(Recorded(s), x) <=> \E c \in Cpus : Has(log[s][c], x)
  <2> DEFINE Good(S) == Has(g[S], x) <=> \E c \in S : Has(log[s][c], x)
             B == {S \in SUBSET Cpus : ~Good(S)}
  <2>2. ASSUME B # {} PROVE FALSE
    <3>1. {} \notin B
      <4>1. ~Has(<<>>, x)
        BY DEF Has
      <4> QED BY <1>4, <4>1
    <3>2. PICK S \in B : S # {} /\ Rest(S) \in SUBSET Cpus /\ Rest(S) \notin B /\ Pick(S) \in S
      <4>1. B \subseteq SUBSET Cpus
        OBVIOUS
      <4> HIDE DEF B
      <4> QED BY <2>2, <3>1, <4>1, Smallest
    <3>3. S \in SUBSET Cpus /\ ~Good(S) /\ Good(Rest(S))
      <4> HIDE DEF Good
      <4> QED BY <3>2
    <3>4. /\ g[S] = g[Rest(S)] \o log[s][Pick(S)] /\ log[s][Pick(S)] \in Seq(Nat)
          /\ g[Rest(S)] \in Seq(Nat)
      BY <1>3, <1>5, <3>2, <3>3
    <3>5. \A q, r \in Seq(Nat) : Has(q \o r, x) <=> Has(q, x) \/ Has(r, x)
      BY HoldsJoined
    <3>6. Has(g[S], x) <=> Has(g[Rest(S)], x) \/ Has(log[s][Pick(S)], x)
      BY <3>4, <3>5
    <3>7. \A c : c \in S <=> c \in Rest(S) \/ c = Pick(S)
      BY <3>2 DEF Rest
    <3> QED BY <3>3, <3>6, <3>7
  <2> HIDE DEF B
  <2>3. Cpus \notin B
    BY <2>2
  <2> QED BY <1>1, <2>3 DEF B
<1> QED BY <1>1, <1>5, <1>6, <1>7, <1>8

\* One of the CPUs of a set has the greatest value.
LEMMA GreatestOf ==
    ASSUME NEW v, \A c \in Cpus : v[c] \in Nat, NEW S \in SUBSET Cpus, S # {}
    PROVE  /\ \E c \in S : \A d \in S : v[d] <= v[c]
           /\ \E c \in S : \A d \in S : v[c] <= v[d]
<1> DEFINE Good(A) == /\ \E c \in A : \A d \in A : v[d] <= v[c]
                      /\ \E c \in A : \A d \in A : v[c] <= v[d]
           B == {A \in SUBSET Cpus : A # {} /\ ~Good(A)}
<1>1. ASSUME B # {} PROVE FALSE
  <2>1. PICK A \in B : A # {} /\ Rest(A) \in SUBSET Cpus /\ Rest(A) \notin B /\ Pick(A) \in A
    <3>1. B \subseteq SUBSET Cpus /\ {} \notin B
      OBVIOUS
    <3> HIDE DEF B
    <3> QED BY <1>1, <3>1, Smallest
  <2>2. A \in SUBSET Cpus /\ ~Good(A) /\ (Rest(A) = {} \/ Good(Rest(A)))
    <3> HIDE DEF Good
    <3> QED BY <2>1
  <2>3. \A c \in A : v[c] \in Nat /\ (c = Pick(A) \/ c \in Rest(A))
    BY <2>2 DEF Rest
  <2>4. \A c \in Rest(A) : c \in A
    BY DEF Rest
  <2>5. CASE Rest(A) = {}
    BY <2>1, <2>2, <2>3, <2>5
  <2>6. CASE Good(Rest(A))
    <3>1. PICK c \in Rest(A) : \A d \in Rest(A) : v[d] <= v[c]
      BY <2>6
    <3>2. PICK e \in Rest(A) : \A d \in Rest(A) : v[e] <= v[d]
      BY <2>6
    <3>3. v[Pick(A)] \in Nat /\ v[c] \in Nat /\ v[e] \in Nat
      BY <2>1, <2>3, <2>4
    <3>4. \E x \in A : \A d \in A : v[d] <= v[x]
      <4>1. CASE v[Pick(A)] <= v[c]
        BY <2>3, <2>4, <3>1, <4>1
      <4>2. CASE v[c] <= v[Pick(A)]
        <5>1. \A d \in A : v[d] <= v[Pick(A)]
          BY <2>3, <3>1, <3>3, <4>2
        <5> QED BY <2>1, <5>1
      <4> QED BY <3>3, <4>1, <4>2
    <3>5. \E x \in A : \A d \in A : v[x] <= v[d]
      <4>1. CASE v[e] <= v[Pick(A)]
        BY <2>3, <2>4, <3>2, <4>1
      <4>2. CASE v[Pick(A)] <= v[e]
        <5>1. \A d \in A : v[Pick(A)] <= v[d]
          BY <2>3, <3>2, <3>3, <4>2
        <5> QED BY <2>1, <5>1
      <4> QED BY <3>3, <4>1, <4>2
    <3> QED BY <2>2, <3>4, <3>5
  <2> QED BY <2>2, <2>5, <2>6
<1> HIDE DEF Good
<1>2. Good(S)
  BY <1>1
<1> QED BY <1>2 DEF Good

\* The greatest and the least element are what Max and Min choose.
LEMMA Extremes ==
    ASSUME NEW S, S \subseteq Nat, NEW m \in S
    PROVE  /\ (\A y \in S : y <= m) => Max(S) = m
           /\ (\A y \in S : m <= y) => Min(S) = m
<1>1. ASSUME \A y \in S : y <= m PROVE Max(S) = m
  <2>1. m \in S /\ \A y \in S : m >= y
    BY <1>1
  <2>2. Max(S) \in S /\ \A y \in S : Max(S) >= y
    BY <2>1 DEF Max
  <2> DEFINE x == Max(S)
  <2>3. x \in S /\ m >= x /\ x >= m
    BY <2>1, <2>2
  <2> HIDE DEF x
  <2>4. x \in Nat /\ m \in Nat
    BY <2>3
  <2>5. x = m
    BY <2>3, <2>4
  <2> QED BY <2>5 DEF x
<1>2. ASSUME \A y \in S : m <= y PROVE Min(S) = m
  <2>1. Min(S) \in S /\ \A y \in S : Min(S) <= y
    BY MinFacts
  <2> DEFINE x == Min(S)
  <2>3. x \in S /\ m <= x /\ x <= m
    BY <1>2, <2>1
  <2> HIDE DEF x
  <2>4. x \in Nat /\ m \in Nat
    BY <2>3
  <2>5. x = m
    BY <2>3, <2>4
  <2> QED BY <2>5 DEF x
<1> QED BY <1>1, <1>2

-----------------------------------------------------------------------------
(***************************************************************************)
(* What a CPU has told an entry.                                           *)
(***************************************************************************)
\* The words w of one CPU hold what the samples q make for a value type k.
Told(k, w, q) ==
    CASE k \in {"count", "hist"} -> w[1] = Len(q)
      [] k = "avg"               -> w[1] = SumOf(q) /\ w[2] = Len(q)
      [] k \in {"min", "max"}    ->
           IF q = <<>> THEN w[2] = 0
           ELSE /\ w[2] = 1 /\ Has(q, w[1])
                /\ \A i \in DOMAIN q : IF k = "max" THEN q[i] <= w[1] ELSE w[1] <= q[i]

\* The words of a CPU in a slot.
Own(c, s) == [f \in 1 .. 2 |-> IF f <= Fields THEN mem[s][WordOf(c, f)] ELSE 0]

\* When every CPU's words hold its samples, the entry reduces to all samples.
LEMMA ToldReduces ==
    ASSUME FixedOK, KernelOK, NEW s \in Slots, LogsTyped(s),
           \A c \in Cpus : Told(kind, Own(c, s), log[s][c])
    PROVE  Reduce(mem[s]) = Aggregate(Recorded(s))
<1> DEFINE R == Recorded(s)
           w == mem[s]
<1>1. R \in Seq(Nat) /\ Len(R) \in Nat /\ (R = <<>> <=> Len(R) = 0) /\ DOMAIN R = 1 .. Len(R)
      /\ \A i \in DOMAIN R : R[i] \in Nat
  <2>1. R \in Seq(Nat)
    BY RecordedFacts
  <2> QED BY <2>1, SeqFacts
<1>2. \A c \in Cpus : Own(c, s)[1] = w[WordOf(c, 1)]
                      /\ (Fields = 2 => Own(c, s)[2] = w[WordOf(c, 2)])
  BY Layout DEF Own
<1>3. ASSUME NEW c \in Cpus, NEW f \in 1 .. Fields PROVE w[WordOf(c, f)] \in Nat
  <2>1. w \in Entries
    BY DEF KernelOK
  <2> QED BY <2>1, Layout DEF Entries
<1>4. kind \in {"count", "hist", "min", "max", "avg"}
  BY MapAssumption DEF FixedOK
<1>5. CASE kind \in {"count", "hist"}
  <2>1. \A c \in Cpus : w[WordOf(c, 1)] = Len(log[s][c])
    BY <1>2, <1>5 DEF Told
  <2>2. SumField(w, 1) = Len(R)
    BY <2>1, RecordedFacts
  <2>3. Reduce(w) = SumField(w, 1)
    BY <1>5 DEF Reduce, reduce_value
  <2>4. Aggregate(R) = Len(R)
    BY <1>5 DEF Aggregate, SumOf, FoldSeq, FoldFunction, FoldFunctionOnSet, MapThenFoldSet
  <2> QED BY <2>2, <2>3, <2>4
<1>6. CASE kind = "avg"
  <2>0. Fields = 2
    BY <1>6 DEF Fields
  <2>1. \A c \in Cpus : w[WordOf(c, 1)] = SumOf(log[s][c]) /\ w[WordOf(c, 2)] = Len(log[s][c])
    BY <1>2, <1>6, <2>0 DEF Told
  <2>2. SumField(w, 1) = SumOf(R) /\ SumField(w, 2) = Len(R)
    BY <2>1, RecordedFacts
  <2>3. Reduce(w) = IF Len(R) > 0 THEN SumOf(R) \div Len(R) ELSE 0
    BY <1>6, <2>2 DEF Reduce, avg_value
  <2>4. Aggregate(R) = IF R = <<>> THEN 0 ELSE SumOf(R) \div Len(R)
    BY <1>6 DEF Aggregate, SumOf, FoldSeq, FoldFunction, FoldFunctionOnSet, MapThenFoldSet
  <2> HIDE DEF R
  <2>5. R = <<>> <=> ~(Len(R) > 0)
    BY <1>1
  <2> QED BY <2>3, <2>4, <2>5 DEF R
<1>7. CASE kind \in {"min", "max"}
  <2>0. Fields = 2
    BY <1>7 DEF Fields
  <2> DEFINE D == {d \in Cpus : w[WordOf(d, 2)] # 0}
             set == {w[WordOf(c, 1)] : c \in D}
             all == {R[i] : i \in DOMAIN R}
             v == [c \in Cpus |-> w[WordOf(c, 1)]]
  <2>1. \A c \in Cpus :
            /\ log[s][c] = <<>> => w[WordOf(c, 2)] = 0
            /\ log[s][c] # <<>> =>
                  /\ w[WordOf(c, 2)] # 0 /\ Has(log[s][c], w[WordOf(c, 1)])
                  /\ \A i \in DOMAIN log[s][c] :
                        IF kind = "max" THEN log[s][c][i] <= w[WordOf(c, 1)]
                        ELSE w[WordOf(c, 1)] <= log[s][c][i]
    <3> TAKE c \in Cpus
    <3>1. Told(kind, Own(c, s), log[s][c])
      OBVIOUS
    <3>2. Own(c, s)[1] = w[WordOf(c, 1)] /\ Own(c, s)[2] = w[WordOf(c, 2)]
      BY <1>2, <2>0
    <3> DEFINE q == log[s][c]
               o == Own(c, s)
    <3>3. IF q = <<>> THEN o[2] = 0
           ELSE /\ o[2] = 1 /\ Has(q, o[1])
                /\ \A i \in DOMAIN q : IF kind = "max" THEN q[i] <= o[1] ELSE o[1] <= q[i]
      <4> HIDE DEF q, o
      <4>1. Told(kind, o, q)
        BY <3>1 DEF q, o
      <4> QED BY <1>7, <4>1 DEF Told
    <3> HIDE DEF o
    <3> QED BY <3>2, <3>3 DEF o
  <2>2. \A x : Has(R, x) <=> \E c \in Cpus : Has(log[s][c], x)
    BY RecordedFacts
  <2>3. all \subseteq Nat /\ \A x : x \in all <=> Has(R, x)
    BY <1>1 DEF Has
  <2>4. \A c \in Cpus : c \in D <=> log[s][c] # <<>>
    BY <2>1
  <2>5. set \subseteq Nat /\ \A c \in Cpus : v[c] \in Nat /\ v[c] = w[WordOf(c, 1)]
    BY <1>3, <2>0
  <2>6. set \subseteq all
    BY <2>1, <2>2, <2>3, <2>4
  <2>7. \A c \in Cpus : \A x : Has(log[s][c], x) =>
            c \in D /\ IF kind = "max" THEN x <= v[c] ELSE v[c] <= x
    <3>1. ~ \E x : Has(<<>>, x)
      BY DEF Has
    <3> QED BY <2>1, <2>4, <2>5, <3>1 DEF Has
  <2>8. Reduce(w) = IF set = {} THEN 0 ELSE IF kind = "max" THEN Max(set) ELSE Min(set)
    BY <1>7 DEF Reduce, min_max_value
  <2>9. Aggregate(R) = IF R = <<>> THEN 0 ELSE IF kind = "max" THEN Max(all) ELSE Min(all)
    BY <1>7 DEF ToSet, Aggregate, SumOf, FoldSeq, FoldFunction, FoldFunctionOnSet, MapThenFoldSet
  <2>10. CASE D = {}
    <3>1. set = {} /\ \A x : ~Has(R, x)
      BY <2>2, <2>7, <2>10
    <3>2. R = <<>>
      <4> HIDE DEF R
      <4>1. R # <<>> => 1 \in DOMAIN R
        BY <1>1
      <4> QED BY <3>1, <4>1 DEF Has
    <3> QED BY <2>8, <2>9, <3>1, <3>2
  <2>11. CASE D # {}
    <3>1. D \in SUBSET Cpus
      OBVIOUS
    <3>2. PICK c \in D : \A d \in D : IF kind = "max" THEN v[d] <= v[c] ELSE v[c] <= v[d]
      <4> HIDE DEF D, v
      <4> QED BY <2>5, <2>11, <3>1, GreatestOf
    <3>3. v[c] \in set /\ v[c] \in all /\ set # {} /\ v[c] \in Nat
      BY <2>5, <2>6, <3>2
    <3>4. R # <<>>
      BY <2>3, <3>3 DEF Has
    <3>5. \A y \in set : IF kind = "max" THEN y <= v[c] ELSE v[c] <= y
      BY <2>5, <3>2
    <3>6. \A y \in all : IF kind = "max" THEN y <= v[c] ELSE v[c] <= y
      <4> TAKE y \in all
      <4>1. PICK d \in Cpus : Has(log[s][d], y)
        BY <2>2, <2>3
      <4>2. d \in D /\ IF kind = "max" THEN y <= v[d] ELSE v[d] <= y
        BY <2>7, <4>1
      <4>3. y \in Nat /\ v[d] \in Nat /\ v[c] \in Nat
        BY <2>3, <2>5, <3>3, <4>1
      <4>4. IF kind = "max" THEN v[d] <= v[c] ELSE v[c] <= v[d]
        BY <3>2, <4>2
      <4> HIDE DEF v, all
      <4> QED BY <4>2, <4>3, <4>4
    <3> HIDE DEF set, all, v, R
    <3>7. IF kind = "max" THEN Max(set) = v[c] /\ Max(all) = v[c]
                          ELSE Min(set) = v[c] /\ Min(all) = v[c]
      BY <2>3, <2>5, <3>3, <3>5, <3>6, Extremes
    <3> QED BY <2>8, <2>9, <3>3, <3>4, <3>7 DEF R
  <2> QED BY <2>10, <2>11
<1> QED BY <1>4, <1>5, <1>6, <1>7

\* The value types, and the updates of one CPU's words w by a sample v.
AllKinds == {"count", "hist", "min", "max", "avg"}
Better(k, v, w) == w[2] # 1 \/ IF k = "max" THEN v >= w[1] ELSE w[1] >= v
First(k, w, v) ==
    IF k \in {"count", "hist"} THEN w[1] + 1 ELSE IF k = "avg" THEN w[1] + v ELSE v
Second(k, w) == IF k = "avg" THEN w[2] + 1 ELSE 1

\* They are the updates of the programs.
LEMMA Named ==
    ASSUME kind \in AllKinds
    PROVE  /\ \A v, w : Improves(v, w) <=> Better(kind, v, w)
           /\ \A p : NewWord1(p) = First(kind, p.w, p.val) /\ NewWord2(p) = Second(kind, p.w)
           /\ Fields = IF kind \in {"count", "hist"} THEN 1 ELSE 2
<1>1. kind = "count" \/ kind = "hist" \/ kind = "min" \/ kind = "max" \/ kind = "avg"
  BY DEF AllKinds
<1> QED BY <1>1 DEF Improves, Better, NewWord1, First, NewWord2, Second, Fields

\* Words without a sample, and with the first one.
LEMMA ToldFirst ==
    ASSUME NEW k \in AllKinds, NEW w
    PROVE  /\ w[1] = 0 /\ w[2] = 0 => Told(k, w, <<>>)
           /\ k \in {"count", "hist"} /\ w[1] = 0 => Told(k, w, <<>>)
           /\ \A v \in Nat : (w[1] = IF k \in {"count", "hist"} THEN 1 ELSE v)
                             /\ (k \notin {"count", "hist"} => w[2] = 1)
                                => Told(k, w, Append(<<>>, v))
<1>1. <<>> \in Seq(Nat) /\ Len(<<>>) = 0 /\ SumOf(<<>>) = 0
  BY SumOfFacts
<1>2. /\ w[1] = 0 /\ w[2] = 0 => Told(k, w, <<>>)
      /\ k \in {"count", "hist"} /\ w[1] = 0 => Told(k, w, <<>>)
  BY <1>1 DEF Told, AllKinds
<1>3. ASSUME NEW v \in Nat, w[1] = IF k \in {"count", "hist"} THEN 1 ELSE v,
             k \notin {"count", "hist"} => w[2] = 1
      PROVE  Told(k, w, Append(<<>>, v))
  <2> DEFINE q == Append(<<>>, v)
  <2>1. Len(q) = 1 /\ q # <<>> /\ DOMAIN q = {1} /\ q[1] = v
    OBVIOUS
  <2>2. SumOf(q) = SumOf(<<>>) + v
    BY <1>1, SumOfFacts
  <2> HIDE DEF q
  <2>3. SumOf(q) = v
    BY <1>1, <2>2
  <2>4. k \in {"count", "hist"} => Told(k, w, q)
    BY <1>3, <2>1 DEF Told
  <2>5. k = "avg" => Told(k, w, q)
    BY <1>3, <2>1, <2>3 DEF Told
  <2>6. k \in {"min", "max"} => Told(k, w, q)
    <3>1. ASSUME k \in {"min", "max"} PROVE w[1] = v /\ w[2] = 1
      BY <1>3, <3>1
    <3>2. ASSUME w[1] = v, v \in Nat
          PROVE  Has(q, w[1]) /\ \A i \in DOMAIN q : q[i] <= w[1] /\ w[1] <= q[i]
      BY <2>1, <3>2 DEF Has
    <3> QED BY <1>3, <2>1, <3>1, <3>2 DEF Told
  <2> QED BY <2>4, <2>5, <2>6 DEF q, AllKinds
<1> QED BY <1>2, <1>3

\* One more sample: stored when it is as good, dropped by min and max when it is not.
LEMMA ToldMore ==
    ASSUME NEW k \in AllKinds, NEW w, w[1] \in Nat, w[2] \in Nat, NEW q \in Seq(Nat),
           NEW v \in Nat, Told(k, w, q)
    PROVE  /\ \A o : (/\ o[1] = First(k, w, v)
                      /\ k \notin {"count", "hist"} => o[2] = Second(k, w)
                      /\ k \in {"min", "max"} => Better(k, v, w))
                     => Told(k, o, Append(q, v))
           /\ k \in {"min", "max"} /\ ~Better(k, v, w) => Told(k, w, Append(q, v))
<1> DEFINE r == Append(q, v)
           n == Len(q)
<1>1. /\ n \in Nat /\ DOMAIN q = 1 .. n /\ (q = <<>> <=> n = 0)
      /\ \A i \in 1 .. n : q[i] \in Nat
      /\ r \in Seq(Nat) /\ Len(r) = n + 1 /\ \A i \in 1 .. n : r[i] = q[i]
      /\ r[n + 1] = v
  BY SeqFacts
<1>2. SumOf(r) = SumOf(q) + v
  BY SumOfFacts
<1>3. DOMAIN r = 1 .. n + 1 /\ r # <<>>
  BY <1>1, SeqFacts
<1> HIDE DEF r, n
<1>4. \A i \in DOMAIN r : r[i] = v \/ (i \in DOMAIN q /\ r[i] = q[i])
  <2>1. \A i \in 1 .. n + 1 : i = n + 1 \/ i \in 1 .. n
    BY <1>1
  <2> TAKE i \in DOMAIN r
  <2>2. CASE i = n + 1
    BY <1>1, <2>2
  <2>3. CASE i \in 1 .. n
    BY <1>1, <2>3
  <2> QED BY <1>3, <2>1, <2>2, <2>3
<1>5. n + 1 \in DOMAIN r /\ Has(r, v) /\ \A x : Has(q, x) => Has(r, x)
  <2>1. n + 1 \in 1 .. n + 1 /\ \A i \in 1 .. n : i \in 1 .. n + 1
    BY <1>1
  <2> QED BY <1>1, <1>3, <2>1 DEF Has
<1>6. ASSUME NEW o, o[1] = First(k, w, v),
             k \notin {"count", "hist"} => o[2] = Second(k, w),
             k \in {"min", "max"} => Better(k, v, w)
      PROVE  Told(k, o, r)
  <2>1. CASE k \in {"count", "hist"}
    <3>1. w[1] = n
      BY <2>1 DEF Told, n
    <3>2. o[1] = n + 1
      BY <1>6, <2>1, <3>1 DEF First
    <3> QED BY <1>1, <2>1, <3>2 DEF Told
  <2>2. CASE k = "avg"
    <3>1. w[1] = SumOf(q) /\ w[2] = n
      BY <2>2 DEF Told, n
    <3>2. o[1] = SumOf(q) + v /\ o[2] = n + 1
      BY <1>6, <2>2, <3>1 DEF First, Second
    <3> QED BY <1>1, <1>2, <2>2, <3>2 DEF Told
  <2>3. CASE k \in {"min", "max"}
    <3>1. o[1] = v /\ o[2] = 1
      BY <1>6, <2>3 DEF First, Second
    <3>2. \A i \in DOMAIN q : q[i] \in Nat /\ IF k = "max" THEN q[i] <= v ELSE v <= q[i]
      <4>1. CASE q = <<>>
        BY <1>1, <4>1
      <4>2. CASE q # <<>>
        <5>1. w[2] = 1 /\ \A i \in DOMAIN q : IF k = "max" THEN q[i] <= w[1] ELSE w[1] <= q[i]
          BY <2>3, <4>2 DEF Told
        <5>2. IF k = "max" THEN v >= w[1] ELSE w[1] >= v
          BY <1>6, <2>3, <5>1 DEF Better
        <5> QED BY <1>1, <5>1, <5>2
      <4> QED BY <4>1, <4>2
    <3>3. \A i \in DOMAIN r : IF k = "max" THEN r[i] <= v ELSE v <= r[i]
      BY <1>4, <3>2
    <3> QED BY <1>3, <1>5, <2>3, <3>1, <3>3 DEF Told
  <2> QED BY <2>1, <2>2, <2>3 DEF AllKinds
<1>7. ASSUME k \in {"min", "max"}, ~Better(k, v, w) PROVE Told(k, w, r)
  <2>1. w[2] = 1 /\ IF k = "max" THEN v <= w[1] ELSE w[1] <= v
    BY <1>7 DEF Better
  <2>2. q # <<>>
    <3>1. ASSUME q = <<>> PROVE w[2] = 0
      BY <1>7, <3>1 DEF Told
    <3> QED BY <2>1, <3>1
  <2>3. Has(q, w[1]) /\ \A i \in DOMAIN q : IF k = "max" THEN q[i] <= w[1] ELSE w[1] <= q[i]
    BY <1>7, <2>2 DEF Told
  <2>4. \A i \in DOMAIN r : IF k = "max" THEN r[i] <= w[1] ELSE w[1] <= r[i]
    BY <1>4, <2>1, <2>3
  <2>5. Has(r, w[1])
    BY <1>5, <2>3
  <2> QED BY <1>3, <1>7, <2>1, <2>4, <2>5 DEF Told
<1>8. \A o : (/\ o[1] = First(k, w, v)
              /\ k \notin {"count", "hist"} => o[2] = Second(k, w)
              /\ k \in {"min", "max"} => Better(k, v, w))
             => Told(k, o, r)
  <2> TAKE o
  <2> HAVE /\ o[1] = First(k, w, v)
           /\ k \notin {"count", "hist"} => o[2] = Second(k, w)
           /\ k \in {"min", "max"} => Better(k, v, w)
  <2> QED BY <1>6
<1> QED BY <1>7, <1>8 DEF r

-----------------------------------------------------------------------------
(***************************************************************************)
(* The invariant.  For every CPU and slot that was not freed or zeroed under a *)
(* program, the words hold the samples recorded there, up to what a program or *)
(* the event loop is in the middle of.                                     *)
(***************************************************************************)
\* A program at its update of slot s.
At(p, s) == p.pc # "idle" /\ p.slot = s

\* The words of a CPU in a slot hold its samples; a program between its two stores has
\* written the first word, and has the rest in what it loaded.
Whole(k, s, p, own, q) ==
    /\ ~(At(p, s) /\ p.pc = "store2") => Told(k, own, q)
    /\ At(p, s) /\ p.pc = "store1" => p.w = own
    /\ At(p, s) /\ p.pc = "store2" =>
          Told(k, p.w, q) /\ own[1] = First(k, p.w, p.val) /\ own[2] = p.w[2]

\* The first of two words is zeroed, the other not yet.
Cut(s, p, own, q) == At(p, s) \/ (own[1] = 0 /\ q = <<>>)

Cell(c, s) == IF MidZero(c, s) THEN Cut(s, prog[c], Own(c, s), log[s][c])
              ELSE Whole(kind, s, prog[c], Own(c, s), log[s][c])

Logged == log \in [Slots -> [Cpus -> Seq(Nat)]]
Exact == \A c \in Cpus : \A s \in Slots \ stale : Cell(c, s)
\* An entry made under a program that found none has no sample of its CPU.
Fresh == \A c \in Cpus : prog[c].pc = "missing" /\ slot[prog[c].key] \notin {0} \cup stale
                            => log[slot[prog[c].key]][c] = <<>>
\* The event loop zeroes the entry of the key it is at.
Zeroing == upc = "zero" => slot[keys[idx]] = cur
\* What a program has found, and what min and max store.
Shape(k, p) ==
    /\ p.pc = "missing" => p.slot = 0
    /\ p.pc = "store2" => k \notin {"count", "hist"}
    /\ p.pc \in {"store1", "store2"} /\ k \in {"min", "max"} => Better(k, p.val, p.w)
Shapes == \A c \in Cpus : Shape(kind, prog[c])
XInv == Logged /\ Exact /\ Fresh /\ Zeroing /\ Shapes

\* Words are numbered CPU by CPU.
LEMMA WordFacts ==
    /\ \A c, d \in Cpus : \A f, g \in 1 .. Fields : WordOf(c, f) = WordOf(d, g) => c = d /\ f = g
    /\ \A n \in 1 .. NWords :
          \/ /\ Fields = 1 /\ n = WordOf(CpuOf(n), 1) /\ CpuOf(n + 1) # CpuOf(n)
          \/ /\ Fields = 2 /\ n = WordOf(CpuOf(n), 1)
             /\ n + 1 <= NWords /\ CpuOf(n + 1) = CpuOf(n)
          \/ /\ Fields = 2 /\ n = WordOf(CpuOf(n), 2) /\ n > 1 /\ CpuOf(n - 1) = CpuOf(n)
             /\ CpuOf(n + 1) # CpuOf(n)
<1>0. NCpus \in Nat \ {0} /\ Cpus = 1 .. NCpus
  BY MapAssumption DEF Cpus
<1>1. CASE Fields = 1
  <2>1. \A c \in Nat : WordOf(c, 1) = c
    BY <1>1 DEF WordOf
  <2>2. \A n \in Nat : CpuOf(n) = n
    BY <1>1 DEF CpuOf
  <2>3. NWords = NCpus
    BY <1>0, <1>1 DEF NWords
  <2> QED BY <1>0, <1>1, <2>1, <2>2, <2>3
<1>2. CASE Fields = 2
  <2>1. \A c \in Nat : WordOf(c, 1) = 2 * c - 1 /\ WordOf(c, 2) = 2 * c
    BY <1>2 DEF WordOf
  <2>2. \A n \in Nat : CpuOf(n) = ((n - 1) \div 2) + 1
    BY <1>2 DEF CpuOf
  <2>3. NWords = 2 * NCpus
    BY <1>0, <1>2 DEF NWords
  <2>4. \A c, d \in Cpus : \A f, g \in 1 .. 2 : WordOf(c, f) = WordOf(d, g) => c = d /\ f = g
    <3>1. \A f \in 1 .. 2 : f = 1 \/ f = 2
      OBVIOUS
    <3> TAKE c, d \in Cpus
    <3>3. c \in Nat /\ d \in Nat
      BY <1>0
    <3>4. /\ WordOf(c, 1) = 2 * c - 1 /\ WordOf(c, 2) = 2 * c
          /\ WordOf(d, 1) = 2 * d - 1 /\ WordOf(d, 2) = 2 * d
      BY <2>1, <3>3
    <3>5. /\ WordOf(c, 1) = WordOf(d, 1) => c = d
          /\ WordOf(c, 2) = WordOf(d, 2) => c = d
          /\ WordOf(c, 1) # WordOf(d, 2) /\ WordOf(c, 2) # WordOf(d, 1)
      BY <3>3, <3>4
    <3> QED BY <3>1, <3>5
  <2>5. ASSUME NEW n \in 1 .. NWords
        PROVE  \/ n = WordOf(CpuOf(n), 1) /\ n + 1 <= NWords /\ CpuOf(n + 1) = CpuOf(n)
               \/ /\ n = WordOf(CpuOf(n), 2) /\ n > 1 /\ CpuOf(n - 1) = CpuOf(n)
                  /\ CpuOf(n + 1) # CpuOf(n)
    <3>1. PICK m \in Nat : n = 2 * m + 1 \/ n = 2 * m + 2
      <4>1. n \in Nat /\ n >= 1
        BY <1>0, <2>3
      <4>2. (n - 1) \div 2 \in Nat
            /\ (n = 2 * ((n - 1) \div 2) + 1 \/ n = 2 * ((n - 1) \div 2) + 2)
        BY <4>1
      <4> QED BY <4>2
    <3>2. CASE n = 2 * m + 1
      <4>1. CpuOf(n) = m + 1 /\ CpuOf(n + 1) = m + 1
        BY <2>2, <3>2
      <4>2. n + 1 <= NWords
        BY <1>0, <2>3, <3>2
      <4> QED BY <2>1, <3>2, <4>1, <4>2
    <3>3. CASE n = 2 * m + 2
      <4>1. CpuOf(n) = m + 1 /\ CpuOf(n - 1) = m + 1 /\ CpuOf(n + 1) = m + 2
        BY <2>2, <3>3
      <4> QED BY <2>1, <3>3, <4>1
    <3> QED BY <3>1, <3>2, <3>3
  <2> QED BY <1>2, <2>4, <2>5
<1> QED BY <1>1, <1>2, Layout

\* An entry is zeroed by nobody else while programs step.
LEMMA MidSame ==
    ASSUME UNCHANGED <<fixed, user>>
    PROVE  \A c, s : MidZero(c, s)' <=> MidZero(c, s)
<1>1. NWords' = NWords /\ Fields' = Fields
  BY SameTypes
<1> QED BY <1>1 DEF MidZero, CpuOf, user

\* A cell stays right when nothing in it changes.
LEMMA CellFrame ==
    ASSUME NEW c, NEW s, kind' = kind, prog'[c] = prog[c], Own(c, s)' = Own(c, s),
           log'[s][c] = log[s][c], MidZero(c, s)' <=> MidZero(c, s), Cell(c, s)
    PROVE  Cell(c, s)'
BY DEF Cell

\* An entry e that differs from the one in s in words of CPU c only.
ByOne(c, s, e) ==
    \A n \in 1 .. NWords : (\A f \in 1 .. Fields : n # WordOf(c, f)) => e[n] = mem[s][n]

\* Words written by one CPU in one slot.
LEMMA OwnFrame ==
    ASSUME kind' = kind, mem \in [Slots -> Entries], NEW c \in Cpus, NEW s0 \in Slots, NEW e,
           mem' = [mem EXCEPT ![s0] = e],
           ByOne(c, s0, e)
    PROVE  /\ \A d \in Cpus, s \in Slots : s # s0 \/ d # c => Own(d, s)' = Own(d, s)
           /\ \A f \in 1 .. 2 : Own(c, s0)'[f] = IF f <= Fields THEN e[WordOf(c, f)] ELSE 0
<1>1. Fields' = Fields /\ Fields \in {1, 2}
  BY Layout DEF Fields
<1>2. \A d, f : WordOf(d, f)' = WordOf(d, f)
  BY <1>1 DEF WordOf
<1>3. mem'[s0] = e /\ \A s \in Slots : s # s0 => mem'[s] = mem[s]
  OBVIOUS
<1>4. ASSUME NEW d \in Cpus, NEW s \in Slots, s # s0 \/ d # c PROVE Own(d, s)' = Own(d, s)
  <2>1. ASSUME NEW f \in 1 .. Fields PROVE mem'[s][WordOf(d, f)] = mem[s][WordOf(d, f)]
    <3>1. CASE s # s0
      BY <1>3, <3>1
    <3>2. CASE s = s0
      <4>1. d # c /\ WordOf(d, f) \in 1 .. NWords
        BY <1>4, <3>2, Layout
      <4>2. \A g \in 1 .. Fields : WordOf(d, f) # WordOf(c, g)
        BY <4>1, WordFacts
      <4> QED BY <1>3, <3>2, <4>1, <4>2 DEF ByOne
    <3> QED BY <3>1, <3>2
  <2>2. \A f \in 1 .. 2 : f <= Fields => f \in 1 .. Fields
    BY <1>1
  <2> QED BY <1>1, <1>2, <2>1, <2>2 DEF Own
<1>5. \A f \in 1 .. 2 : Own(c, s0)'[f] = IF f <= Fields THEN e[WordOf(c, f)] ELSE 0
  BY <1>1, <1>2, <1>3 DEF Own
<1> QED BY <1>4, <1>5

\* A program step that touches one cell at most.
LEMMA Moves ==
    ASSUME TypeInv, XInv, UNCHANGED <<fixed, user>>, NEW c \in Cpus, NEW s0,
           \A d \in Cpus \ {c} : prog'[d] = prog[d],
           \A d \in Cpus, s \in Slots : s # s0 \/ d # c =>
               Own(d, s)' = Own(d, s) /\ log'[s][d] = log[s][d],
           \A s \in Slots \ {s0} :
               ~At(prog[c], s) /\ (prog'[c].pc \in {"store1", "store2"} => ~At(prog'[c], s)),
           stale \subseteq stale', Logged', Shape(kind, prog'[c]),
           s0 \in Slots \ stale' => Cell(c, s0)',
           \A k \in Keys : slot'[k] \in {slot[k], 0},
           prog'[c].pc = "missing" => slot'[prog'[c].key] = 0,
           upc = "zero" => \A k \in Keys : slot[k] = cur => slot'[k] = cur
    PROVE  XInv'
<1>1. kind' = kind /\ \A d, s : MidZero(d, s)' <=> MidZero(d, s)
  BY MidSame DEF fixed
<1>2. ASSUME NEW d \in Cpus, NEW s \in Slots \ stale' PROVE Cell(d, s)'
  <2>1. Cell(d, s)
    BY DEF XInv, Exact
  <2>2. CASE d # c
    BY <1>1, <2>1, <2>2, CellFrame
  <2>3. CASE d = c /\ s = s0
    BY <2>3
  <2>4. CASE d = c /\ s # s0
    <3>1. Own(c, s)' = Own(c, s) /\ log'[s][c] = log[s][c]
      BY <2>4
    <3>2. ~At(prog[c], s) /\ (prog'[c].pc \in {"store1", "store2"} => ~At(prog'[c], s))
      BY <2>4
    <3>3. (MidZero(c, s)' <=> MidZero(c, s)) /\ Cell(c, s)
      BY <1>1, <2>1, <2>4
    <3>4. ASSUME MidZero(c, s), Cut(s, prog[c], Own(c, s), log[s][c])
          PROVE  Cut(s, prog'[c], Own(c, s), log[s][c])
      BY <3>2, <3>4 DEF Cut
    <3>5. ASSUME Whole(kind, s, prog[c], Own(c, s), log[s][c])
          PROVE  Whole(kind, s, prog'[c], Own(c, s), log[s][c])
      BY <3>2, <3>5 DEF Whole
    <3> QED BY <1>1, <2>4, <3>1, <3>3, <3>4, <3>5 DEF Cell
  <2> QED BY <2>2, <2>3, <2>4
<1>3. Fresh'
  <2> SUFFICES ASSUME NEW d \in Cpus, prog'[d].pc = "missing",
                      slot'[prog'[d].key] \notin {0} \cup stale'
               PROVE  log'[slot'[prog'[d].key]][d] = <<>>
    BY DEF Fresh
  <2>1. d # c /\ prog'[d] = prog[d]
    OBVIOUS
  <2> DEFINE k == prog[d].key
  <2>2. k \in Keys /\ slot[k] \in 0 .. NSlots
    BY <2>1 DEF TypeInv, ProgOK, KernelOK
  <2>3. slot'[k] = slot[k] /\ slot[k] \in Slots /\ slot[k] \notin {0} \cup stale
    <3>1. slot'[k] # 0 /\ slot'[k] \notin stale
      BY <2>1
    <3>2. slot'[k] = slot[k]
      BY <2>2, <3>1
    <3> QED BY <2>2, <3>1, <3>2, MapAssumption DEF Slots
  <2>4. log[slot[k]][d] = <<>>
    BY <2>1, <2>3 DEF XInv, Fresh
  <2> QED BY <2>1, <2>3, <2>4
<1>4. Zeroing'
  <2> SUFFICES ASSUME upc = "zero" PROVE slot'[keys[idx]] = cur
    BY DEF Zeroing, user
  <2>1. keys[idx] \in Keys
    BY DEF TypeInv, UserOK
  <2> QED BY <2>1 DEF XInv, Zeroing
<1>5. Shapes'
  BY <1>1 DEF XInv, Shapes
<1> QED BY <1>2, <1>3, <1>4, <1>5 DEF XInv, Exact

-----------------------------------------------------------------------------
(***************************************************************************)
(* Steps of the programs.                                                  *)
(***************************************************************************)
\* What the programs and the words are made of.
LEMMA CellTypes ==
    ASSUME TypeInv, XInv, NEW c \in Cpus
    PROVE  /\ kind \in AllKinds
           /\ prog[c] \in Programs /\ prog[c].val \in Nat /\ prog[c].w \in [1 .. 2 -> Nat]
           /\ \A s \in Slots : Own(c, s) \in [1 .. 2 -> Nat] /\ log[s][c] \in Seq(Nat)
           /\ Logged /\ Shape(kind, prog[c])
           /\ \A s \in Slots \ stale : Cell(c, s)
           /\ 0 \notin Slots
<1>1. kind \in AllKinds
  BY MapAssumption DEF AllKinds, TypeInv, FixedOK
<1>2. prog[c] \in Programs
  BY DEF TypeInv, ProgOK
<1>3. ASSUME NEW s \in Slots, NEW f \in 1 .. 2, f <= Fields PROVE mem[s][WordOf(c, f)] \in Nat
  <2>1. f \in 1 .. Fields
    BY <1>3, Layout
  <2>2. WordOf(c, f) \in 1 .. NWords /\ mem[s] \in Entries
    BY <2>1, Layout DEF TypeInv, KernelOK
  <2> QED BY <2>2 DEF Entries
<1>4. \A s \in Slots : Own(c, s) \in [1 .. 2 -> Nat]
  BY <1>3 DEF Own
<1>5. /\ Logged /\ Shape(kind, prog[c]) /\ \A s \in Slots \ stale : Cell(c, s)
      /\ \A s \in Slots : log[s][c] \in Seq(Nat)
  BY DEF XInv, Logged, Shapes, Exact
<1>6. prog[c].val \in Nat /\ prog[c].w \in [1 .. 2 -> Nat]
  BY <1>2 DEF Programs
<1>7. 0 \notin Slots
  BY MapAssumption DEF Slots
<1> QED BY <1>1, <1>2, <1>4, <1>5, <1>6, <1>7

\* The words are the same in the same memory.
LEMMA OwnSame ==
    ASSUME kind' = kind, mem' = mem
    PROVE  \A d, s : Own(d, s)' = Own(d, s)
BY DEF Own, WordOf, Fields

\* A program that finds its entry, or none.
LEMMA LookupExact ==
    ASSUME TypeInv, XInv, NEW c \in Cpus, NEW k, NEW v, Lookup(c, k, v)
    PROVE  XInv'
<1> DEFINE p == [Idle EXCEPT !.pc = IF slot[k] # 0 THEN "found" ELSE "missing",
                             !.key = k, !.val = v, !.slot = slot[k]]
<1>1. /\ UNCHANGED <<fixed, user, slot, mem, log, stale>> /\ prog[c].pc = "idle"
      /\ prog' = [prog EXCEPT ![c] = p]
  BY DEF Lookup, kernel
<1>2. prog \in [Cpus -> Programs]
  BY DEF TypeInv, ProgOK
<1>3. prog'[c] = p /\ \A d \in Cpus \ {c} : prog'[d] = prog[d]
  BY <1>1, <1>2
<1>4. kind' = kind /\ \A d, s : Own(d, s)' = Own(d, s)
  BY <1>1, OwnSame DEF fixed
<1>5. /\ p.pc \in {"found", "missing"} /\ (p.pc = "missing" => p.slot = 0 /\ slot[k] = 0)
      /\ p.key = k
  BY DEF Idle
<1> HIDE DEF p
<1>6. Shape(kind, p)
  BY <1>5 DEF Shape
<1>7. Logged'
  BY <1>1 DEF XInv, Logged
<1>8. \A s \in Slots \ {0} :
          ~At(prog[c], s) /\ (prog'[c].pc \in {"store1", "store2"} => ~At(prog'[c], s))
  BY <1>1, <1>3, <1>5 DEF At
<1>9. 0 \notin Slots
  BY MapAssumption DEF Slots
<1>10. \A d \in Cpus, s \in Slots : s # 0 \/ d # c =>
               Own(d, s)' = Own(d, s) /\ log'[s][d] = log[s][d]
  BY <1>1, <1>4
<1>11. \A j \in Keys : slot'[j] \in {slot[j], 0}
  BY <1>1
<1>12. prog'[c].pc = "missing" => slot'[prog'[c].key] = 0
  BY <1>1, <1>3, <1>5
<1>13. upc = "zero" => \A j \in Keys : slot[j] = cur => slot'[j] = cur
  BY <1>1
<1> QED BY <1>1, <1>3, <1>6, <1>7, <1>8, <1>9, <1>10, <1>11, <1>12, <1>13, Moves

\* A step of a program that holds an entry: what it does to its own cell decides.
LEMMA HolderMoves ==
    ASSUME TypeInv, XInv, UNCHANGED <<fixed, user, slot>>, NEW c \in Cpus, NEW p,
           NEW s0, s0 = prog[c].slot,
           prog[c].pc \in {"found", "store1", "store2"},
           prog' = [prog EXCEPT ![c] = p], p.pc # "missing", Shape(kind, p),
           p.pc = "idle" \/ p.slot = s0,
           NEW e, mem' = [mem EXCEPT ![s0] = e],
           ByOne(c, s0, e),
           \/ UNCHANGED <<log, stale>>
           \/ Record(c, s0, prog[c].val),
           s0 \notin stale' => Cell(c, s0)'
    PROVE  XInv'
<1>1. s0 \in Slots /\ prog \in [Cpus -> Programs] /\ mem \in [Slots -> Entries]
  BY DEF TypeInv, ProgOK, KernelOK
<1>2. prog'[c] = p /\ \A d \in Cpus \ {c} : prog'[d] = prog[d]
  BY <1>1
<1>3. kind' = kind
  BY DEF fixed
<1>4. \A d \in Cpus, s \in Slots : s # s0 \/ d # c => Own(d, s)' = Own(d, s)
  BY <1>1, <1>3, OwnFrame
<1>5. /\ stale \subseteq stale' /\ Logged'
      /\ \A d \in Cpus, s \in Slots : s # s0 \/ d # c => log'[s][d] = log[s][d]
  <2>1. CASE UNCHANGED <<log, stale>>
    BY <2>1 DEF XInv, Logged
  <2>2. CASE Record(c, s0, prog[c].val)
    <3>1. log \in [Slots -> [Cpus -> Seq(Nat)]] /\ prog[c].val \in Nat
      BY CellTypes DEF Logged
    <3>2. log' = [log EXCEPT ![s0] = [log[s0] EXCEPT ![c] = Append(log[s0][c], prog[c].val)]]
          /\ stale \subseteq stale'
      BY <2>2 DEF Record
    <3>3. Append(log[s0][c], prog[c].val) \in Seq(Nat) /\ log[s0] \in [Cpus -> Seq(Nat)]
      BY <1>1, <3>1
    <3>4. log' \in [Slots -> [Cpus -> Seq(Nat)]]
      BY <1>1, <3>1, <3>2, <3>3
    <3> QED BY <1>1, <3>1, <3>2, <3>4 DEF Logged
  <2> QED BY <2>1, <2>2
<1>6. \A s \in Slots \ {s0} :
          ~At(prog[c], s) /\ (prog'[c].pc \in {"store1", "store2"} => ~At(prog'[c], s))
  BY <1>2 DEF At
<1>7. \A d \in Cpus, s \in Slots : s # s0 \/ d # c =>
               Own(d, s)' = Own(d, s) /\ log'[s][d] = log[s][d]
  BY <1>4, <1>5
<1>8. \A j \in Keys : slot'[j] \in {slot[j], 0}
  OBVIOUS
<1>9. upc = "zero" => \A j \in Keys : slot[j] = cur => slot'[j] = cur
  OBVIOUS
<1>10. s0 \in Slots \ stale' => Cell(c, s0)'
  OBVIOUS
<1>11. Shape(kind, prog'[c]) /\ (prog'[c].pc = "missing" => slot'[prog'[c].key] = 0)
  BY <1>2
<1>12. UNCHANGED <<fixed, user>>
  OBVIOUS
<1> QED BY <1>2, <1>5, <1>6, <1>7, <1>8, <1>9, <1>10, <1>11, <1>12, Moves

\* Its sample is recorded at the end of its update.
LEMMA RecordedIn ==
    ASSUME TypeInv, XInv, NEW c \in Cpus, NEW s \in Slots, NEW v, Record(c, s, v),
           s \notin stale'
    PROVE  log'[s][c] = Append(log[s][c], v) /\ ~MidZero(c, s) /\ s \notin stale
BY DEF Record, XInv, Logged

\* A program loads its words; min and max may be done with that.
LEMMA LoadExact ==
    ASSUME TypeInv, XInv, NEW c \in Cpus, Load(c)
    PROVE  XInv'
<1>0. PICK p, s, w : p = prog[c] /\ s = prog[c].slot /\ w = Own(c, s)
  OBVIOUS
<1>1. /\ UNCHANGED <<fixed, user, slot, mem>> /\ p.pc = "found"
      /\ \/ /\ kind \in {"min", "max"} /\ ~Improves(p.val, w)
            /\ prog' = [prog EXCEPT ![c] = Idle] /\ Record(c, s, p.val)
         \/ /\ ~(kind \in {"min", "max"} /\ ~Improves(p.val, w))
            /\ prog' = [prog EXCEPT ![c] = [p EXCEPT !.pc = "store1", !.w = w]]
            /\ UNCHANGED <<log, stale>>
  BY <1>0 DEF Load, Own
<1>2. s \in Slots /\ mem \in [Slots -> Entries] /\ prog \in [Cpus -> Programs]
  BY <1>0, <1>1 DEF TypeInv, ProgOK, KernelOK
<1>3. /\ kind \in AllKinds /\ p.val \in Nat /\ w \in [1 .. 2 -> Nat] /\ log[s][c] \in Seq(Nat)
      /\ p \in Programs /\ (s \notin stale => Cell(c, s))
  BY <1>0, <1>2, CellTypes
<1>4. kind' = kind /\ (MidZero(c, s)' <=> MidZero(c, s)) /\ Own(c, s)' = w
  BY <1>0, <1>1, MidSame, OwnSame DEF fixed
<1>5. mem' = [mem EXCEPT ![s] = mem[s]] /\ ByOne(c, s, mem[s])
  BY <1>1, <1>2 DEF ByOne
<1>6. \A v, x : Improves(v, x) <=> Better(kind, v, x)
  BY <1>3, Named
<1>7. ASSUME ~MidZero(c, s), s \notin stale PROVE Told(kind, w, log[s][c])
  BY <1>0, <1>1, <1>3, <1>7 DEF Cell, Whole
<1>8. CASE /\ kind \in {"min", "max"} /\ ~Improves(p.val, w)
           /\ prog' = [prog EXCEPT ![c] = Idle] /\ Record(c, s, p.val)
  <2>1. prog'[c] = Idle /\ Idle.pc = "idle"
    BY <1>2, <1>8 DEF Idle
  <2>2. ASSUME s \notin stale' PROVE Cell(c, s)'
    <3>1. log'[s][c] = Append(log[s][c], p.val) /\ ~MidZero(c, s) /\ s \notin stale
      BY <1>2, <1>8, <2>2, RecordedIn
    <3>2. Told(kind, w, Append(log[s][c], p.val))
      <4>1. w[1] \in Nat /\ w[2] \in Nat
        BY <1>3
      <4> QED BY <1>3, <1>6, <1>7, <1>8, <3>1, <4>1, ToldMore
    <3> QED BY <1>4, <2>1, <3>1, <3>2 DEF Cell, Whole, At
  <2>3. Shape(kind, Idle)
    BY <2>1 DEF Shape
  <2> QED BY <1>0, <1>1, <1>5, <1>8, <2>1, <2>2, <2>3, HolderMoves
<1>9. CASE /\ ~(kind \in {"min", "max"} /\ ~Improves(p.val, w))
           /\ prog' = [prog EXCEPT ![c] = [p EXCEPT !.pc = "store1", !.w = w]]
           /\ UNCHANGED <<log, stale>>
  <2> DEFINE r == [p EXCEPT !.pc = "store1", !.w = w]
  <2>1. /\ prog'[c] = r /\ r.pc = "store1" /\ r.w = w /\ r.slot = s /\ r.val = p.val
    <3>1. prog'[c] = r
      BY <1>2, <1>9
    <3>2. r.pc = "store1" /\ r.w = w /\ r.slot = p.slot /\ r.val = p.val
      BY <1>3 DEF Programs
    <3> QED BY <1>0, <3>1, <3>2
  <2> HIDE DEF r
  <2>2. ASSUME s \notin stale' PROVE Cell(c, s)'
    <3>1. s \notin stale /\ log'[s][c] = log[s][c]
      BY <1>9, <2>2
    <3> QED BY <1>4, <1>7, <2>1, <3>1 DEF Cell, Whole, Cut, At
  <2>3. Shape(kind, r)
    BY <1>6, <1>9, <2>1 DEF Shape
  <2>4. prog' = [prog EXCEPT ![c] = r]
    BY <1>9 DEF r
  <2>5. /\ s = prog[c].slot /\ prog[c].pc = "found" /\ r.pc # "missing" /\ r.slot = prog[c].slot
        /\ UNCHANGED <<fixed, user, slot>> /\ UNCHANGED <<log, stale>>
    BY <1>0, <1>1, <1>9, <2>1
  <2> QED BY <1>2, <1>5, <2>2, <2>3, <2>4, <2>5, HolderMoves
<1> QED BY <1>1, <1>8, <1>9

\* A word of an entry written by the CPU it belongs to.
LEMMA WriteWord ==
    ASSUME TypeInv, kind' = kind, NEW c \in Cpus, NEW s \in Slots, NEW f \in 1 .. Fields, NEW x,
           NEW e, e = [mem[s] EXCEPT ![WordOf(c, f)] = x]
    PROVE  /\ ByOne(c, s, e)
           /\ mem' = [mem EXCEPT ![s] = e] =>
                 \A g \in 1 .. 2 : Own(c, s)'[g] = IF g = f THEN x ELSE Own(c, s)[g]
<1>1. mem \in [Slots -> Entries] /\ mem[s] \in [1 .. NWords -> Nat]
  BY DEF TypeInv, KernelOK, Entries
<1>2. \A g \in 1 .. Fields : WordOf(c, g) \in 1 .. NWords
  BY Layout
<1>3. \A g \in 1 .. Fields : WordOf(c, g) = WordOf(c, f) => g = f
  BY WordFacts
<1>4. ByOne(c, s, e)
  BY <1>1 DEF ByOne
<1>5. \A g \in 1 .. Fields : e[WordOf(c, g)] = IF g = f THEN x ELSE mem[s][WordOf(c, g)]
  BY <1>1, <1>2, <1>3
<1>6. ASSUME mem' = [mem EXCEPT ![s] = e]
      PROVE  \A g \in 1 .. 2 : Own(c, s)'[g] = IF g = f THEN x ELSE Own(c, s)[g]
  <2>1. \A g \in 1 .. 2 : Own(c, s)'[g] = IF g <= Fields THEN e[WordOf(c, g)] ELSE 0
    BY <1>1, <1>4, <1>6, OwnFrame
  <2>2. Fields \in {1, 2} /\ \A g \in 1 .. 2 : g <= Fields <=> g \in 1 .. Fields
    BY Layout
  <2>3. f \in 1 .. 2 /\ f <= Fields
    BY <2>2
  <2>4. \A g \in 1 .. 2 : (IF g <= Fields THEN e[WordOf(c, g)] ELSE 0)
                          = IF g = f THEN x ELSE IF g <= Fields THEN mem[s][WordOf(c, g)] ELSE 0
    BY <1>5, <2>2, <2>3
  <2> QED BY <2>1, <2>3, <2>4 DEF Own
<1> QED BY <1>4, <1>5, <1>6

\* The first word is stored: the only one of count and hist.
LEMMA Store1Exact ==
    ASSUME TypeInv, XInv, NEW c \in Cpus, Store1(c)
    PROVE  XInv'
<1>0. PICK p, s, q : p = prog[c] /\ s = prog[c].slot /\ q = log[s][c]
  OBVIOUS
<1>1. PICK e : e = [mem[s] EXCEPT ![WordOf(c, 1)] = NewWord1(p)]
  OBVIOUS
<1>2. /\ UNCHANGED <<fixed, user, slot>> /\ p.pc = "store1"
      /\ mem' = [mem EXCEPT ![s][WordOf(c, 1)] = NewWord1(p)]
      /\ \/ Fields = 1 /\ prog' = [prog EXCEPT ![c] = Idle] /\ Record(c, s, p.val)
         \/ /\ Fields = 2 /\ prog' = [prog EXCEPT ![c] = [p EXCEPT !.pc = "store2"]]
            /\ UNCHANGED <<log, stale>>
  BY <1>0, Layout DEF Store1
<1>3. s \in Slots /\ mem \in [Slots -> Entries] /\ prog \in [Cpus -> Programs]
  BY <1>0, <1>2 DEF TypeInv, ProgOK, KernelOK
<1>4. /\ kind \in AllKinds /\ p.val \in Nat /\ p.w \in [1 .. 2 -> Nat] /\ q \in Seq(Nat)
      /\ p \in Programs /\ (s \notin stale => Cell(c, s)) /\ Shape(kind, p)
      /\ Own(c, s) \in [1 .. 2 -> Nat]
  BY <1>0, <1>3, CellTypes
<1>5. kind' = kind /\ (MidZero(c, s)' <=> MidZero(c, s))
  BY <1>2, MidSame DEF fixed
<1>6. /\ NewWord1(p) = First(kind, p.w, p.val)
      /\ Fields = IF kind \in {"count", "hist"} THEN 1 ELSE 2
  BY <1>4, Named
<1>7. 1 \in 1 .. Fields
  BY Layout
<1>8. /\ mem' = [mem EXCEPT ![s] = e]
      /\ ByOne(c, s, e)
      /\ \A g \in 1 .. 2 : Own(c, s)'[g] = IF g = 1 THEN NewWord1(p) ELSE Own(c, s)[g]
  <2>1. mem' = [mem EXCEPT ![s] = e]
    BY <1>1, <1>2
  <2>2. \A f \in 1 .. Fields : \A x, y :
            y = [mem[s] EXCEPT ![WordOf(c, f)] = x] =>
               /\ ByOne(c, s, y)
               /\ mem' = [mem EXCEPT ![s] = y] =>
                     \A g \in 1 .. 2 : Own(c, s)'[g] = IF g = f THEN x ELSE Own(c, s)[g]
    BY <1>3, <1>5, WriteWord
  <2> QED BY <1>1, <1>7, <2>1, <2>2
<1>9. ASSUME ~MidZero(c, s), s \notin stale PROVE Told(kind, p.w, q) /\ p.w = Own(c, s)
  <2>1. At(prog[c], s) /\ prog[c].pc = "store1"
    BY <1>0, <1>2 DEF At
  <2>2. Told(kind, Own(c, s), q) /\ prog[c].w = Own(c, s)
    BY <1>0, <1>4, <1>9, <2>1 DEF Cell, Whole
  <2> QED BY <1>0, <2>2
<1>10. Own(c, s)'[1] = First(kind, p.w, p.val) /\ Own(c, s)'[2] = Own(c, s)[2]
  BY <1>4, <1>6, <1>8
<1>11. CASE Fields = 1 /\ prog' = [prog EXCEPT ![c] = Idle] /\ Record(c, s, p.val)
  <2>1. prog'[c] = Idle /\ Idle.pc = "idle"
    BY <1>3, <1>11 DEF Idle
  <2>2. ASSUME s \notin stale' PROVE Cell(c, s)'
    <3>1. log'[s][c] = Append(q, p.val) /\ ~MidZero(c, s) /\ s \notin stale
      BY <1>0, <1>3, <1>11, <2>2, RecordedIn
    <3>2. kind \in {"count", "hist"}
      BY <1>6, <1>11
    <3>3. Told(kind, Own(c, s)', Append(q, p.val))
      <4>1. PICK o : o = Own(c, s)'
        OBVIOUS
      <4>2. p.w[1] \in Nat /\ p.w[2] \in Nat /\ o[1] = First(kind, p.w, p.val)
            /\ Told(kind, p.w, q) /\ kind \notin {"min", "max"}
        BY <1>4, <1>9, <1>10, <3>1, <3>2, <4>1
      <4>3. Told(kind, o, Append(q, p.val))
        BY <1>4, <3>2, <4>2, ToldMore
      <4> QED BY <4>1, <4>3
    <3> QED BY <1>5, <2>1, <3>1, <3>3 DEF Cell, Whole, At
  <2>3. Shape(kind, Idle) /\ Idle.pc # "missing"
    BY <2>1 DEF Shape
  <2> QED BY <1>0, <1>2, <1>3, <1>8, <1>11, <2>1, <2>2, <2>3, HolderMoves
<1>12. CASE /\ Fields = 2 /\ prog' = [prog EXCEPT ![c] = [p EXCEPT !.pc = "store2"]]
            /\ UNCHANGED <<log, stale>>
  <2>0. PICK r : r = [p EXCEPT !.pc = "store2"]
    OBVIOUS
  <2>1. /\ r.pc = "store2" /\ r.w = p.w /\ r.slot = p.slot /\ r.val = p.val
    BY <1>4, <2>0 DEF Programs
  <2>2. prog' = [prog EXCEPT ![c] = r] /\ prog'[c] = r
    BY <1>3, <1>12, <2>0
  <2>3. ASSUME s \notin stale' PROVE Cell(c, s)'
    <3>1. s \notin stale /\ log'[s][c] = q
      BY <1>0, <1>12, <2>3
    <3>2. At(r, s)
      BY <1>0, <2>1 DEF At
    <3>3. ~MidZero(c, s) => Whole(kind, s, r, Own(c, s)', q)
      BY <1>9, <1>10, <2>1, <3>1, <3>2 DEF Whole
    <3> QED BY <1>5, <2>2, <3>1, <3>2, <3>3 DEF Cell, Cut
  <2>4. Shape(kind, r)
    BY <1>2, <1>4, <1>6, <1>12, <2>1 DEF Shape
  <2>5. /\ prog[c].pc = "store1" /\ r.pc # "missing" /\ r.slot = prog[c].slot
        /\ UNCHANGED <<fixed, user, slot>> /\ UNCHANGED <<log, stale>>
    BY <1>0, <1>2, <1>12, <2>1
  <2> QED BY <1>0, <1>3, <1>8, <2>2, <2>3, <2>4, <2>5, HolderMoves
<1> QED BY <1>2, <1>11, <1>12

\* The second word is stored.
LEMMA Store2Exact ==
    ASSUME TypeInv, XInv, NEW c \in Cpus, Store2(c)
    PROVE  XInv'
<1>0. PICK p, s, q : p = prog[c] /\ s = prog[c].slot /\ q = log[s][c]
  OBVIOUS
<1>1. PICK e : e = [mem[s] EXCEPT ![WordOf(c, 2)] = NewWord2(p)]
  OBVIOUS
<1>2. /\ UNCHANGED <<fixed, user, slot>> /\ p.pc = "store2"
      /\ mem' = [mem EXCEPT ![s][WordOf(c, 2)] = NewWord2(p)]
      /\ prog' = [prog EXCEPT ![c] = Idle] /\ Record(c, s, p.val)
  BY <1>0 DEF Store2
<1>3. s \in Slots /\ mem \in [Slots -> Entries] /\ prog \in [Cpus -> Programs]
  BY <1>0, <1>2 DEF TypeInv, ProgOK, KernelOK
<1>4. /\ kind \in AllKinds /\ p.val \in Nat /\ p.w \in [1 .. 2 -> Nat] /\ q \in Seq(Nat)
      /\ p \in Programs /\ (s \notin stale => Cell(c, s)) /\ Shape(kind, p)
      /\ Own(c, s) \in [1 .. 2 -> Nat]
  BY <1>0, <1>3, CellTypes
<1>5. kind' = kind /\ (MidZero(c, s)' <=> MidZero(c, s))
  BY <1>2, MidSame DEF fixed
<1>6. /\ NewWord2(p) = Second(kind, p.w) /\ kind \notin {"count", "hist"} /\ Fields = 2
      /\ kind \in {"min", "max"} => Better(kind, p.val, p.w)
  BY <1>2, <1>4, Named DEF Shape
<1>7. 2 \in 1 .. Fields
  BY <1>6
<1>8. /\ mem' = [mem EXCEPT ![s] = e]
      /\ ByOne(c, s, e)
      /\ \A g \in 1 .. 2 : Own(c, s)'[g] = IF g = 2 THEN NewWord2(p) ELSE Own(c, s)[g]
  <2>1. mem' = [mem EXCEPT ![s] = e]
    BY <1>1, <1>2
  <2>2. \A f \in 1 .. Fields : \A x, y :
            y = [mem[s] EXCEPT ![WordOf(c, f)] = x] =>
               /\ ByOne(c, s, y)
               /\ mem' = [mem EXCEPT ![s] = y] =>
                     \A g \in 1 .. 2 : Own(c, s)'[g] = IF g = f THEN x ELSE Own(c, s)[g]
    BY <1>3, <1>5, WriteWord
  <2>3. \A x, y : y = [mem[s] EXCEPT ![WordOf(c, 2)] = x] =>
               /\ ByOne(c, s, y)
               /\ mem' = [mem EXCEPT ![s] = y] =>
                     \A g \in 1 .. 2 : Own(c, s)'[g] = IF g = 2 THEN x ELSE Own(c, s)[g]
    BY <1>7, <2>2
  <2>4. /\ ByOne(c, s, e)
        /\ mem' = [mem EXCEPT ![s] = e] =>
              \A g \in 1 .. 2 : Own(c, s)'[g] = IF g = 2 THEN NewWord2(p) ELSE Own(c, s)[g]
    BY <1>1, <2>3
  <2> QED BY <2>1, <2>4
<1>9. ASSUME ~MidZero(c, s), s \notin stale
      PROVE  Told(kind, p.w, q) /\ Own(c, s)[1] = First(kind, p.w, p.val)
  <2>1. At(prog[c], s) /\ prog[c].pc = "store2"
    BY <1>0, <1>2 DEF At
  <2>2. Told(kind, prog[c].w, q) /\ Own(c, s)[1] = First(kind, prog[c].w, prog[c].val)
    BY <1>0, <1>4, <1>9, <2>1 DEF Cell, Whole
  <2> QED BY <1>0, <2>2
<1>10. Own(c, s)'[1] = Own(c, s)[1] /\ Own(c, s)'[2] = Second(kind, p.w)
  BY <1>4, <1>6, <1>8
<1>11. prog'[c] = Idle /\ Idle.pc = "idle"
  BY <1>2, <1>3 DEF Idle
<1>12. ASSUME s \notin stale' PROVE Cell(c, s)'
  <2>1. log'[s][c] = Append(q, p.val) /\ ~MidZero(c, s) /\ s \notin stale
    BY <1>0, <1>2, <1>3, <1>12, RecordedIn
  <2>2. Told(kind, Own(c, s)', Append(q, p.val))
    <3>1. PICK o : o = Own(c, s)'
      OBVIOUS
    <3>2. /\ p.w[1] \in Nat /\ p.w[2] \in Nat /\ o[1] = First(kind, p.w, p.val)
          /\ o[2] = Second(kind, p.w) /\ Told(kind, p.w, q)
      BY <1>4, <1>9, <1>10, <2>1, <3>1
    <3>3. Told(kind, o, Append(q, p.val))
      BY <1>4, <1>6, <3>2, ToldMore
    <3> QED BY <3>1, <3>3
  <2> QED BY <1>5, <1>11, <2>1, <2>2 DEF Cell, Whole, At
<1>13. Shape(kind, Idle) /\ Idle.pc # "missing"
  BY <1>11 DEF Shape
<1> QED BY <1>0, <1>2, <1>3, <1>8, <1>11, <1>12, <1>13, HolderMoves

\* The words of an entry with its first sample on a CPU.
LEMMA FirstIn ==
    ASSUME NEW c \in Cpus, NEW v, NEW old \in Entries, NEW e, e = FirstWords(c, v, old)
    PROVE  /\ \A n \in 1 .. NWords : (\A f \in 1 .. Fields : n # WordOf(c, f)) => e[n] = old[n]
           /\ e[WordOf(c, 1)] = IF Fields = 1 THEN 1 ELSE v
           /\ Fields = 2 => e[WordOf(c, 2)] = 1
<1>1. Fields \in {1, 2} /\ \A f \in 1 .. Fields : WordOf(c, f) \in 1 .. NWords
  BY Layout
<1>2. CASE Fields = 1
  <2>1. e = [old EXCEPT ![WordOf(c, 1)] = 1] /\ WordOf(c, 1) \in 1 .. NWords
    BY <1>1, <1>2 DEF FirstWords
  <2> QED BY <1>2, <2>1 DEF Entries
<1>3. CASE Fields = 2
  <2>1. e = [old EXCEPT ![WordOf(c, 1)] = v, ![WordOf(c, 2)] = 1]
    BY <1>3 DEF FirstWords
  <2>2. WordOf(c, 1) \in 1 .. NWords /\ WordOf(c, 2) \in 1 .. NWords
    BY <1>1, <1>3
  <2>3. WordOf(c, 1) # WordOf(c, 2)
    BY <1>3, WordFacts
  <2>4. \A n \in 1 .. NWords : n # WordOf(c, 1) /\ n # WordOf(c, 2) => e[n] = old[n]
    BY <2>1 DEF Entries
  <2>5. e[WordOf(c, 1)] = v /\ e[WordOf(c, 2)] = 1
    BY <2>1, <2>2, <2>3 DEF Entries
  <2>6. 1 \in 1 .. Fields /\ 2 \in 1 .. Fields
    BY <1>3
  <2> QED BY <1>3, <2>4, <2>5, <2>6
<1> QED BY <1>1, <1>2, <1>3

\* A program ends that neither holds an entry nor changes one.
LEMMA EndsQuietly ==
    ASSUME TypeInv, XInv, UNCHANGED <<fixed, user, slot, mem, log, stale>>, NEW c \in Cpus,
           prog[c].pc = "missing", prog' = [prog EXCEPT ![c] = Idle]
    PROVE  XInv'
<1>1. prog'[c] = Idle /\ \A d \in Cpus \ {c} : prog'[d] = prog[d]
  BY DEF TypeInv, ProgOK
<1>2. kind' = kind /\ \A d, s : Own(d, s)' = Own(d, s)
  BY OwnSame DEF fixed
<1>3. 0 \notin Slots /\ prog[c].slot = 0
  BY CellTypes DEF Shape
<1>4. Idle.pc = "idle" /\ Shape(kind, Idle)
  BY DEF Idle, Shape
<1>5. \A s \in Slots \ {0} :
          ~At(prog[c], s) /\ (prog'[c].pc \in {"store1", "store2"} => ~At(prog'[c], s))
  BY <1>1, <1>3, <1>4 DEF At
<1>6. \A d \in Cpus, s \in Slots : s # 0 \/ d # c =>
               Own(d, s)' = Own(d, s) /\ log'[s][d] = log[s][d]
  BY <1>2
<1>7. /\ Logged' /\ stale \subseteq stale' /\ Shape(kind, prog'[c])
      /\ prog'[c].pc = "missing" => slot'[prog'[c].key] = 0
      /\ \A j \in Keys : slot'[j] \in {slot[j], 0}
      /\ upc = "zero" => \A j \in Keys : slot[j] = cur => slot'[j] = cur
      /\ UNCHANGED <<fixed, user>>
  BY <1>1, <1>4 DEF XInv, Logged
<1>8. 0 \in Slots \ stale' => Cell(c, 0)'
  BY <1>3
<1> QED BY <1>1, <1>5, <1>6, <1>7, <1>8, Moves

\* The entry has been made meanwhile, by a program on another CPU.
LEMMA UpdateExact ==
    ASSUME TypeInv, XInv, UNCHANGED <<fixed, user, slot, stale>>, NEW c \in Cpus,
           prog[c].pc = "missing", prog' = [prog EXCEPT ![c] = Idle],
           ~Locked(prog[c].key),
           NEW t, t = slot[prog[c].key], t # 0, NEW v, v = prog[c].val,
           NEW e, e = FirstWords(c, v, mem[t]), mem' = [mem EXCEPT ![t] = e],
           log' = [log EXCEPT ![t][c] = Append(@, v)]
    PROVE  XInv'
<1>1. prog'[c] = Idle /\ \A d \in Cpus \ {c} : prog'[d] = prog[d]
  BY DEF TypeInv, ProgOK
<1>2. prog[c].key \in Keys /\ t \in Slots /\ mem \in [Slots -> Entries] /\ v \in Nat
  <2>1. prog[c].key \in Keys
    BY DEF TypeInv, ProgOK
  <2>2. t \in 0 .. NSlots
    BY <2>1 DEF TypeInv, KernelOK
  <2> QED BY <2>1, <2>2, MapAssumption, CellTypes DEF TypeInv, KernelOK, Slots
<1>3. kind' = kind /\ \A d, s : MidZero(d, s)' <=> MidZero(d, s)
  BY MidSame DEF fixed
<1>4. Idle.pc = "idle" /\ Shape(kind, Idle)
  BY DEF Idle, Shape
<1>5. /\ \A n \in 1 .. NWords : (\A f \in 1 .. Fields : n # WordOf(c, f)) => e[n] = mem[t][n]
      /\ e[WordOf(c, 1)] = IF Fields = 1 THEN 1 ELSE v
      /\ Fields = 2 => e[WordOf(c, 2)] = 1
  <2>1. mem[t] \in Entries
    BY <1>2
  <2> QED BY <2>1, FirstIn
<1>6. /\ \A d \in Cpus, s \in Slots : s # t \/ d # c => Own(d, s)' = Own(d, s)
      /\ \A f \in 1 .. 2 : Own(c, t)'[f] = IF f <= Fields THEN e[WordOf(c, f)] ELSE 0
  <2>1. ByOne(c, t, e)
    BY <1>5 DEF ByOne
  <2> QED BY <1>2, <1>3, <2>1, OwnFrame
<1>7. /\ kind \in AllKinds /\ Logged /\ prog[c].slot = 0
      /\ Fields = IF kind \in {"count", "hist"} THEN 1 ELSE 2
      /\ 0 \notin Slots
  BY CellTypes, Named DEF Shape
<1>8. /\ log'[t][c] = Append(log[t][c], v) /\ Logged'
      /\ \A d \in Cpus, s \in Slots : s # t \/ d # c => log'[s][d] = log[s][d]
  <2>1. log \in [Slots -> [Cpus -> Seq(Nat)]]
    BY <1>7 DEF Logged
  <2>2. log[t] \in [Cpus -> Seq(Nat)] /\ Append(log[t][c], v) \in Seq(Nat)
    BY <1>2, <2>1
  <2>3. log' = [log EXCEPT ![t] = [log[t] EXCEPT ![c] = Append(log[t][c], v)]]
    OBVIOUS
  <2>4. log' \in [Slots -> [Cpus -> Seq(Nat)]]
    BY <1>2, <2>1, <2>2, <2>3
  <2>5. log'[t][c] = Append(log[t][c], v)
    BY <1>2, <2>1, <2>2, <2>3
  <2>6. \A d \in Cpus, s \in Slots : s # t \/ d # c => log'[s][d] = log[s][d]
    BY <1>2, <2>1, <2>2, <2>3
  <2> QED BY <2>4, <2>5, <2>6 DEF Logged
<1>9. ASSUME t \notin stale' PROVE Cell(c, t)'
  <2>1. log[t][c] = <<>>
    BY <1>9 DEF XInv, Fresh
  <2>2. ~MidZero(c, t)
    BY DEF MidZero, Locked
  <2>3. PICK o : o = Own(c, t)'
    OBVIOUS
  <2>4. o[1] = IF kind \in {"count", "hist"} THEN 1 ELSE v
    <3>1. o[1] = IF 1 <= Fields THEN e[WordOf(c, 1)] ELSE 0
      BY <1>6, <2>3
    <3>2. 1 <= Fields
      BY <1>7
    <3>3. o[1] = e[WordOf(c, 1)]
      BY <3>1, <3>2
    <3> QED BY <1>5, <1>7, <3>3
  <2>5. kind \notin {"count", "hist"} => o[2] = 1
    <3>1. o[2] = IF 2 <= Fields THEN e[WordOf(c, 2)] ELSE 0
      BY <1>6, <2>3
    <3> QED BY <1>5, <1>7, <3>1
  <2>6. Told(kind, o, Append(<<>>, v))
    BY <1>2, <1>7, <2>4, <2>5, ToldFirst
  <2> QED BY <1>1, <1>3, <1>4, <1>8, <2>1, <2>2, <2>3, <2>6 DEF Cell, Whole, At
<1>10. \A s \in Slots \ {t} :
          ~At(prog[c], s) /\ (prog'[c].pc \in {"store1", "store2"} => ~At(prog'[c], s))
  BY <1>1, <1>4, <1>7 DEF At
<1>11. \A d \in Cpus, s \in Slots : s # t \/ d # c =>
               Own(d, s)' = Own(d, s) /\ log'[s][d] = log[s][d]
  BY <1>6, <1>8
<1>12. /\ stale \subseteq stale' /\ Shape(kind, prog'[c])
       /\ prog'[c].pc = "missing" => slot'[prog'[c].key] = 0
       /\ \A j \in Keys : slot'[j] \in {slot[j], 0}
       /\ upc = "zero" => \A j \in Keys : slot[j] = cur => slot'[j] = cur
       /\ UNCHANGED <<fixed, user>>
  BY <1>1, <1>4
<1>13. t \in Slots \ stale' => Cell(c, t)'
  BY <1>9
<1>14. Logged'
  BY <1>8
<1> QED BY <1>1, <1>10, <1>11, <1>12, <1>13, <1>14, Moves, SMTT(60)

\* A new entry, in a free slot.
LEMMA NewExact ==
    ASSUME TypeInv, XInv, UNCHANGED <<fixed, user>>, NEW c \in Cpus,
           prog[c].pc = "missing", prog' = [prog EXCEPT ![c] = Idle],
           NEW v, v = prog[c].val, slot[prog[c].key] = 0, NEW t \in Free,
           slot' = [slot EXCEPT ![prog[c].key] = t],
           NEW e, e = FirstWords(c, v, ZeroEntry), mem' = [mem EXCEPT ![t] = e],
           log' = [log EXCEPT ![t] = [d \in Cpus |-> IF d = c THEN <<v>> ELSE <<>>]],
           stale' = IF \E d \in Cpus : Holds(d, t) THEN stale \cup {t} ELSE stale \ {t}
    PROVE  XInv'
<1>1. prog'[c] = Idle /\ \A d \in Cpus \ {c} : prog'[d] = prog[d]
  BY DEF TypeInv, ProgOK
<1>2. /\ kind' = kind /\ \A d, s : MidZero(d, s)' <=> MidZero(d, s)
      /\ Idle.pc = "idle" /\ Shape(kind, Idle)
  BY MidSame DEF fixed, Idle, Shape
<1>3. /\ prog[c].key \in Keys /\ t \in Slots /\ mem \in [Slots -> Entries] /\ v \in Nat
      /\ \A k \in Keys : slot[k] # t
      /\ slot \in [Keys -> 0 .. NSlots]
  <2>1. prog[c].key \in Keys /\ cap \in Slots
    BY DEF TypeInv, ProgOK, FixedOK
  <2>2. t \in 1 .. cap
    BY DEF Free
  <2>3. slot \in [Keys -> 0 .. NSlots] /\ mem \in [Slots -> Entries] /\ v \in Nat
    BY CellTypes DEF TypeInv, KernelOK
  <2>4. t \in Slots
    BY <2>1, <2>2, MapAssumption DEF Slots
  <2> QED BY <2>1, <2>3, <2>4 DEF Free
<1>4. /\ kind \in AllKinds /\ Logged /\ prog[c].slot = 0
      /\ Fields = IF kind \in {"count", "hist"} THEN 1 ELSE 2
      /\ 0 \notin Slots
  BY CellTypes, Named DEF Shape
<1>5. /\ Fields' = Fields /\ Fields \in {1, 2} /\ \A d, f : WordOf(d, f)' = WordOf(d, f)
  BY <1>2, Layout DEF Fields, WordOf
<1>6. /\ \A n \in 1 .. NWords : (\A f \in 1 .. Fields : n # WordOf(c, f)) => e[n] = 0
      /\ e[WordOf(c, 1)] = IF Fields = 1 THEN 1 ELSE v
      /\ Fields = 2 => e[WordOf(c, 2)] = 1
  <2>1. ZeroEntry \in Entries /\ \A n \in 1 .. NWords : ZeroEntry[n] = 0
    BY DEF ZeroEntry, Entries
  <2> QED BY <2>1, FirstIn
<1>7. \A s \in Slots : s # t => mem'[s] = mem[s]
  BY <1>3
<1>8. mem'[t] = e
  BY <1>3
<1>9. \A d \in Cpus, s \in Slots : s # t => Own(d, s)' = Own(d, s)
  BY <1>5, <1>7 DEF Own
<1>10. \A d \in Cpus : /\ Own(d, t)'[1] = e[WordOf(d, 1)]
                       /\ Fields = 2 => Own(d, t)'[2] = e[WordOf(d, 2)]
  BY <1>5, <1>8 DEF Own
<1>11. /\ log'[t] = [d \in Cpus |-> IF d = c THEN <<v>> ELSE <<>>] /\ Logged'
       /\ \A s \in Slots : s # t => log'[s] = log[s]
  <2>1. log \in [Slots -> [Cpus -> Seq(Nat)]]
    BY <1>4 DEF Logged
  <2>2. <<v>> \in Seq(Nat) /\ <<>> \in Seq(Nat)
    BY <1>3
  <2>3. [d \in Cpus |-> IF d = c THEN <<v>> ELSE <<>>] \in [Cpus -> Seq(Nat)]
    BY <2>2
  <2> QED BY <1>3, <2>1, <2>3 DEF Logged
<1>12. ASSUME NEW d \in Cpus, NEW s \in Slots \ stale' PROVE Cell(d, s)'
  <2>1. CASE s = t
    <3>1. ~Holds(d, t)
      BY <1>12, <2>1
    <3>2. ~At(prog'[d], t)
      BY <1>1, <1>2, <3>1 DEF At, Holds
    <3>3. ~MidZero(d, t)
      <4>1. upc = "zero" => cur # t
        <5>1. upc = "zero" => slot[keys[idx]] = cur /\ keys[idx] \in Keys
          BY DEF XInv, Zeroing, TypeInv, UserOK
        <5> QED BY <1>3, <5>1
      <4> QED BY <4>1 DEF MidZero
    <3>4. PICK o : o = Own(d, t)'
      OBVIOUS
    <3>5. Told(kind, o, log'[t][d])
      <4>1. CASE d = c
        <5>1. log'[t][d] = Append(<<>>, v)
          BY <1>11, <4>1
        <5>2. o[1] = IF kind \in {"count", "hist"} THEN 1 ELSE v
          BY <1>4, <1>6, <1>10, <3>4, <4>1
        <5>3. kind \notin {"count", "hist"} => o[2] = 1
          BY <1>4, <1>6, <1>10, <3>4, <4>1
        <5>4. Told(kind, o, Append(<<>>, v))
          BY <1>3, <1>4, <5>2, <5>3, ToldFirst
        <5> QED BY <5>1, <5>4
      <4>2. CASE d # c
        <5>1. log'[t][d] = <<>>
          BY <1>11, <4>2
        <5>2. \A f \in 1 .. Fields : e[WordOf(d, f)] = 0
          <6> TAKE f \in 1 .. Fields
          <6>1. WordOf(d, f) \in 1 .. NWords
            BY Layout
          <6>2. \A g \in 1 .. Fields : WordOf(d, f) # WordOf(c, g)
            BY <4>2, WordFacts
          <6> QED BY <1>6, <6>1, <6>2
        <5>3. o[1] = 0 /\ (kind \notin {"count", "hist"} => o[2] = 0)
          BY <1>4, <1>5, <1>10, <3>4, <5>2
        <5> QED BY <1>4, <5>1, <5>3, ToldFirst
      <4> QED BY <4>1, <4>2
    <3> QED BY <1>2, <2>1, <3>2, <3>3, <3>4, <3>5 DEF Cell, Whole
  <2>2. CASE s # t
    <3>1. s \notin stale
      BY <1>12, <2>2
    <3>2. Cell(d, s)
      BY <3>1 DEF XInv, Exact
    <3>3. Own(d, s)' = Own(d, s) /\ log'[s][d] = log[s][d] /\ (MidZero(d, s)' <=> MidZero(d, s))
      BY <1>2, <1>9, <1>11, <2>2
    <3>4. CASE d # c
      BY <1>1, <1>2, <3>2, <3>3, <3>4, CellFrame
    <3>5. CASE d = c
      <4>1. ~At(prog[d], s) /\ ~At(prog'[d], s)
        BY <1>1, <1>2, <1>4, <3>5 DEF At
      <4> QED BY <1>2, <3>2, <3>3, <4>1 DEF Cell, Whole, Cut
    <3> QED BY <3>4, <3>5
  <2> QED BY <2>1, <2>2
<1>13. Fresh'
  <2> SUFFICES ASSUME NEW d \in Cpus, prog'[d].pc = "missing",
                      slot'[prog'[d].key] \notin {0} \cup stale'
               PROVE  log'[slot'[prog'[d].key]][d] = <<>>
    BY DEF Fresh
  <2>1. d # c /\ prog'[d] = prog[d] /\ prog[d].key \in Keys
    BY <1>1, <1>2 DEF TypeInv, ProgOK
  <2>2. CASE prog[d].key = prog[c].key
    <3>1. slot'[prog[d].key] = t
      BY <1>3, <2>2
    <3> QED BY <1>11, <2>1, <3>1
  <2>3. CASE prog[d].key # prog[c].key
    <3>1. slot'[prog[d].key] = slot[prog[d].key] /\ slot[prog[d].key] # t
          /\ slot[prog[d].key] \in 0 .. NSlots
      BY <1>3, <2>1, <2>3
    <3>2. slot[prog[d].key] \notin {0} \cup stale /\ slot[prog[d].key] \in Slots
      BY <2>1, <3>1, MapAssumption DEF Slots
    <3>3. log[slot[prog[d].key]][d] = <<>>
      BY <2>1, <3>2 DEF XInv, Fresh
    <3> QED BY <1>11, <2>1, <3>1, <3>2, <3>3
  <2> QED BY <2>2, <2>3
<1>14. Zeroing'
  <2> SUFFICES ASSUME upc = "zero" PROVE slot'[keys[idx]] = cur
    BY DEF Zeroing, user
  <2>1. keys[idx] \in Keys /\ cur \in Slots /\ slot[keys[idx]] = cur
    BY DEF TypeInv, UserOK, XInv, Zeroing
  <2>2. keys[idx] # prog[c].key
    BY <1>4, <2>1
  <2> QED BY <1>3, <2>1, <2>2
<1>15. Shapes'
  BY <1>1, <1>2 DEF XInv, Shapes
<1> QED BY <1>11, <1>12, <1>13, <1>14, <1>15 DEF XInv, Exact

\* An insert, with all it may find.
LEMMA InsertExact ==
    ASSUME TypeInv, XInv, NEW c \in Cpus, Insert(c)
    PROVE  XInv'
<1>0. PICK t, v : t = slot[prog[c].key] /\ v = prog[c].val
  OBVIOUS
<1>1. /\ UNCHANGED <<fixed, user>> /\ prog[c].pc = "missing" /\ ~Locked(prog[c].key)
      /\ prog' = [prog EXCEPT ![c] = Idle]
  BY DEF Insert
<1>2. CASE t # 0
  <2>1. PICK e : e = FirstWords(c, v, mem[t])
    OBVIOUS
  <2>2. /\ UNCHANGED <<slot, stale>> /\ mem' = [mem EXCEPT ![t] = e]
        /\ log' = [log EXCEPT ![t][c] = Append(@, v)]
    BY <1>0, <1>2, <2>1 DEF Insert
  <2> QED BY <1>0, <1>1, <1>2, <2>1, <2>2, UpdateExact
<1>3. CASE t = 0
  <2>1. \/ UNCHANGED kernel
        \/ \E s \in Free :
              /\ slot' = [slot EXCEPT ![prog[c].key] = s]
              /\ mem' = [mem EXCEPT ![s] = FirstWords(c, v, ZeroEntry)]
              /\ log' = [log EXCEPT ![s] = [d \in Cpus |-> IF d = c THEN <<v>> ELSE <<>>]]
              /\ stale' = IF \E d \in Cpus : Holds(d, s) THEN stale \cup {s} ELSE stale \ {s}
    BY <1>0, <1>3 DEF Insert
  <2>2. CASE UNCHANGED kernel
    BY <1>1, <2>2, EndsQuietly DEF kernel
  <2>3. ASSUME NEW s \in Free,
               slot' = [slot EXCEPT ![prog[c].key] = s],
               mem' = [mem EXCEPT ![s] = FirstWords(c, v, ZeroEntry)],
               log' = [log EXCEPT ![s] = [d \in Cpus |-> IF d = c THEN <<v>> ELSE <<>>]],
               stale' = IF \E d \in Cpus : Holds(d, s) THEN stale \cup {s} ELSE stale \ {s}
        PROVE  XInv'
    <3>1. PICK e : e = FirstWords(c, v, ZeroEntry)
      OBVIOUS
    <3> QED BY <1>0, <1>1, <1>3, <2>3, <3>1, NewExact
  <2> QED BY <2>1, <2>2, <2>3
<1> QED BY <1>2, <1>3

\* An entry is removed: nobody is told anything, and nobody is zeroing it.
LEMMA RemoveExact ==
    ASSUME TypeInv, XInv, UNCHANGED <<fixed, prog, upc, cur, buf>>,
           upc = "zero" => UNCHANGED <<keys, idx>>,
           NEW k \in Keys, RemoveEntry(k), upc = "zero" => slot[k] # cur
    PROVE  XInv'
<1>1. slot' = [slot EXCEPT ![k] = 0] /\ UNCHANGED <<mem, log>> /\ stale \subseteq stale'
  BY DEF RemoveEntry
<1>2. slot \in [Keys -> 0 .. NSlots] /\ \A j \in Keys : slot'[j] = IF j = k THEN 0 ELSE slot[j]
  BY <1>1 DEF TypeInv, KernelOK
<1>3. kind' = kind /\ \A d, s : Own(d, s)' = Own(d, s)
  BY <1>1, OwnSame DEF fixed
<1>4. \A d, s : MidZero(d, s)' <=> MidZero(d, s)
  <2>1. NWords' = NWords /\ Fields' = Fields
    BY SameTypes
  <2> QED BY <2>1 DEF MidZero, CpuOf
<1>5. Exact'
  <2> SUFFICES ASSUME NEW d \in Cpus, NEW s \in Slots \ stale' PROVE Cell(d, s)'
    BY DEF Exact
  <2>1. Cell(d, s)
    BY <1>1 DEF XInv, Exact
  <2>2. prog'[d] = prog[d] /\ Own(d, s)' = Own(d, s) /\ log'[s][d] = log[s][d]
        /\ (MidZero(d, s)' <=> MidZero(d, s))
    BY <1>1, <1>3, <1>4
  <2> QED BY <1>3, <2>1, <2>2, CellFrame
<1>6. Fresh'
  <2> SUFFICES ASSUME NEW d \in Cpus, prog'[d].pc = "missing",
                      slot'[prog'[d].key] \notin {0} \cup stale'
               PROVE  log'[slot'[prog'[d].key]][d] = <<>>
    BY DEF Fresh
  <2>1. prog'[d] = prog[d] /\ prog[d].key \in Keys
    BY DEF TypeInv, ProgOK
  <2>2. slot'[prog[d].key] = slot[prog[d].key]
    BY <1>2, <2>1
  <2> QED BY <1>1, <2>1, <2>2 DEF XInv, Fresh
<1>7. Zeroing'
  <2> SUFFICES ASSUME upc = "zero" PROVE slot'[keys[idx]] = cur
    BY DEF Zeroing
  <2>1. keys[idx] \in Keys /\ slot[keys[idx]] = cur
    BY DEF TypeInv, UserOK, XInv, Zeroing
  <2> QED BY <1>2, <2>1
<1>8. Shapes' /\ Logged'
  BY <1>1, <1>3 DEF XInv, Shapes, Logged
<1> QED BY <1>5, <1>6, <1>7, <1>8 DEF XInv

\* A program deletes an entry, or zeroes its words in an array.
LEMMA DeleteExact ==
    ASSUME TypeInv, XInv, NEW c \in Cpus, NEW k \in Keys, Delete(c, k)
    PROVE  XInv'
<1>1. /\ UNCHANGED <<fixed, prog, user>> /\ prog[c].pc = "idle" /\ slot[k] # 0 /\ ~Locked(k)
  BY DEF Delete
<1>2. CASE ~array
  <2>1. RemoveEntry(k)
    BY <1>2 DEF Delete
  <2>2. upc = "zero" => slot[k] # cur
    BY <1>1 DEF Locked
  <2> QED BY <1>1, <2>1, <2>2, RemoveExact DEF user
<1>3. CASE array
  <2>0. PICK t : t = slot[k]
    OBVIOUS
  <2>1. /\ mem' = [mem EXCEPT ![t][WordOf(c, 1)] = 0] /\ log' = [log EXCEPT ![t][c] = <<>>]
        /\ UNCHANGED <<slot, stale>>
    BY <1>3, <2>0 DEF Delete
  <2>2. t \in Slots
    <3>1. t \in 0 .. NSlots /\ t # 0
      BY <1>1, <2>0 DEF TypeInv, KernelOK
    <3> QED BY <3>1, MapAssumption DEF Slots
  <2>3. /\ kind = "count" /\ kind \in AllKinds /\ Logged /\ Fields = 1 /\ Shape(kind, prog[c])
    BY <1>3, CellTypes, Named DEF TypeInv, FixedOK
  <2>4. kind' = kind /\ \A d, s : MidZero(d, s)' <=> MidZero(d, s)
    BY <1>1, MidSame DEF fixed
  <2>5. PICK e : e = [mem[t] EXCEPT ![WordOf(c, 1)] = 0]
    OBVIOUS
  <2>6. mem' = [mem EXCEPT ![t] = e] /\ mem \in [Slots -> Entries] /\ 1 \in 1 .. Fields
    BY <2>1, <2>3, <2>5 DEF TypeInv, KernelOK
  <2>7. \A f \in 1 .. Fields : \A x, y :
            y = [mem[t] EXCEPT ![WordOf(c, f)] = x] =>
               /\ ByOne(c, t, y)
               /\ mem' = [mem EXCEPT ![t] = y] =>
                     \A g \in 1 .. 2 : Own(c, t)'[g] = IF g = f THEN x ELSE Own(c, t)[g]
    BY <2>2, <2>4, WriteWord
  <2>8. ByOne(c, t, e) /\ Own(c, t)'[1] = 0
    <3>1. \A x, y : y = [mem[t] EXCEPT ![WordOf(c, 1)] = x] =>
               /\ ByOne(c, t, y)
               /\ mem' = [mem EXCEPT ![t] = y] =>
                     \A g \in 1 .. 2 : Own(c, t)'[g] = IF g = 1 THEN x ELSE Own(c, t)[g]
      BY <2>6, <2>7
    <3>2. ByOne(c, t, e) /\ \A g \in 1 .. 2 : Own(c, t)'[g] = IF g = 1 THEN 0 ELSE Own(c, t)[g]
      BY <2>5, <2>6, <3>1
    <3> QED BY <3>2
  <2>9. \A d \in Cpus, s \in Slots : s # t \/ d # c => Own(d, s)' = Own(d, s)
    BY <2>2, <2>4, <2>6, <2>8, OwnFrame
  <2>10. /\ log'[t][c] = <<>> /\ Logged'
         /\ \A d \in Cpus, s \in Slots : s # t \/ d # c => log'[s][d] = log[s][d]
    <3>1. log \in [Slots -> [Cpus -> Seq(Nat)]]
      BY <2>3 DEF Logged
    <3>2. <<>> \in Seq(Nat) /\ log[t] \in [Cpus -> Seq(Nat)]
      BY <2>2, <3>1
    <3>3. log' = [log EXCEPT ![t] = [log[t] EXCEPT ![c] = <<>>]]
      BY <2>1
    <3>4. log' \in [Slots -> [Cpus -> Seq(Nat)]]
      BY <2>2, <3>1, <3>2, <3>3
    <3>5. log'[t][c] = <<>>
      BY <2>2, <3>1, <3>2, <3>3
    <3>6. \A d \in Cpus, s \in Slots : s # t \/ d # c => log'[s][d] = log[s][d]
      BY <2>2, <3>1, <3>2, <3>3
    <3> QED BY <3>4, <3>5, <3>6 DEF Logged
  <2>11. Cell(c, t)'
    <3>1. ~MidZero(c, t)
      BY <1>1, <2>0 DEF MidZero, Locked
    <3>2. PICK o : o = Own(c, t)'
      OBVIOUS
    <3>3. Told(kind, o, <<>>)
      BY <2>3, <2>8, <3>2, ToldFirst
    <3> QED BY <1>1, <2>4, <2>10, <3>1, <3>2, <3>3 DEF Cell, Whole, At
  <2>12. \A s \in Slots \ {t} :
          ~At(prog[c], s) /\ (prog'[c].pc \in {"store1", "store2"} => ~At(prog'[c], s))
    BY <1>1 DEF At
  <2>13. \A d \in Cpus, s \in Slots : s # t \/ d # c =>
               Own(d, s)' = Own(d, s) /\ log'[s][d] = log[s][d]
    BY <2>9, <2>10
  <2>14. /\ stale \subseteq stale' /\ Shape(kind, prog'[c]) /\ Logged'
         /\ prog'[c].pc = "missing" => slot'[prog'[c].key] = 0
         /\ \A j \in Keys : slot'[j] \in {slot[j], 0}
         /\ upc = "zero" => \A j \in Keys : slot[j] = cur => slot'[j] = cur
         /\ UNCHANGED <<fixed, user>> /\ \A d \in Cpus \ {c} : prog'[d] = prog[d]
    BY <1>1, <2>1, <2>3, <2>10
  <2>15. t \in Slots \ stale' => Cell(c, t)'
    BY <2>11
  <2> QED BY <2>12, <2>13, <2>14, <2>15, Moves
<1> QED BY <1>2, <1>3

-----------------------------------------------------------------------------
(***************************************************************************)
(* Steps of the event loop, and the theorem.                               *)
(***************************************************************************)
\* A step of the event loop that leaves the entries and the programs alone.
LEMMA LoopExact ==
    ASSUME TypeInv, XInv, UNCHANGED <<fixed, kernel, prog>>,
           \A d, s : ~MidZero(d, s) /\ ~MidZero(d, s)',
           upc' = "zero" => slot[keys'[idx']] = cur'
    PROVE  XInv'
<1>1. kind' = kind /\ \A d, s : Own(d, s)' = Own(d, s)
  BY OwnSame DEF fixed, kernel
<1>2. UNCHANGED <<slot, mem, log, stale>>
  BY DEF kernel
<1>3. Exact'
  <2> SUFFICES ASSUME NEW d \in Cpus, NEW s \in Slots \ stale' PROVE Cell(d, s)'
    BY DEF Exact
  <2>1. Cell(d, s)
    BY <1>2 DEF XInv, Exact
  <2>2. prog'[d] = prog[d] /\ Own(d, s)' = Own(d, s) /\ log'[s][d] = log[s][d]
        /\ (MidZero(d, s)' <=> MidZero(d, s))
    BY <1>1, <1>2
  <2> QED BY <1>1, <2>1, <2>2, CellFrame
<1>4. Fresh' /\ Shapes' /\ Logged' /\ Zeroing'
  BY <1>1, <1>2 DEF XInv, Fresh, Shapes, Logged, Zeroing
<1> QED BY <1>3, <1>4 DEF XInv

\* A word is zeroed: the cell it belongs to is cut, or has no sample.
LEMMA ZeroExact ==
    ASSUME TypeInv, XInv, ZeroWord
    PROVE  XInv'
<1>0. PICK t, n, c : t = cur /\ n = Len(buf) + 1 /\ c = CpuOf(n)
  OBVIOUS
<1>1. PICK e : e = [mem[t] EXCEPT ![n] = 0]
  OBVIOUS
<1>2. /\ UNCHANGED <<fixed, slot, prog, keys>> /\ upc = "zero"
      /\ mem' = [mem EXCEPT ![t] = e]
      /\ log' = [log EXCEPT ![t][c] = <<>>]
      /\ stale' = IF Holds(c, t) THEN stale \cup {t} ELSE stale
      /\ \/ n < NWords /\ buf' = Append(buf, 0) /\ UNCHANGED <<upc, idx, cur>>
         \/ ~(n < NWords) /\ upc' = "each"
  BY <1>0, <1>1 DEF ZeroWord, NextEntry
<1>3. /\ t \in Slots /\ mem \in [Slots -> Entries] /\ buf \in Seq(Nat) /\ Len(buf) \in Nat
      /\ NWords \in Nat /\ n \in 1 .. NWords /\ c \in Cpus /\ mem[t] \in Entries
  <2>1. /\ t \in Slots /\ mem \in [Slots -> Entries] /\ buf \in Seq(Nat) /\ Len(buf) \in Nat
        /\ Len(buf) < NWords
    BY <1>0, <1>2 DEF TypeInv, UserOK, KernelOK
  <2>2. NWords \in Nat /\ n \in 1 .. NWords
    BY <1>0, <2>1, Layout
  <2> QED BY <1>0, <2>1, <2>2, Layout
<1>4. /\ kind' = kind /\ NWords' = NWords /\ Fields' = Fields /\ \A m : CpuOf(m)' = CpuOf(m)
  BY <1>2, SameTypes DEF fixed, CpuOf
<1>5. \/ Fields = 1 /\ n = WordOf(c, 1) /\ CpuOf(n + 1) # c
      \/ Fields = 2 /\ n = WordOf(c, 1) /\ n + 1 <= NWords /\ CpuOf(n + 1) = c
      \/ Fields = 2 /\ n = WordOf(c, 2) /\ n > 1 /\ CpuOf(n - 1) = c /\ CpuOf(n + 1) # c
  BY <1>0, <1>3, WordFacts
<1>6. ByOne(c, t, e)
  <2>1. \A m \in 1 .. NWords : m # n => e[m] = mem[t][m]
    BY <1>1, <1>3 DEF Entries
  <2>2. \E f \in 1 .. Fields : n = WordOf(c, f)
    BY <1>5
  <2> QED BY <2>1, <2>2 DEF ByOne
<1>7. /\ \A d \in Cpus, s \in Slots : s # t \/ d # c => Own(d, s)' = Own(d, s)
      /\ \A f \in 1 .. 2 : Own(c, t)'[f] = IF f <= Fields THEN e[WordOf(c, f)] ELSE 0
  BY <1>2, <1>3, <1>4, <1>6, OwnFrame
<1>8. log' = [log EXCEPT ![t] = [log[t] EXCEPT ![c] = <<>>]]
  BY <1>2
<1>9. /\ log'[t][c] = <<>> /\ Logged'
      /\ \A d \in Cpus, s \in Slots : s # t \/ d # c => log'[s][d] = log[s][d]
  <2>1. log \in [Slots -> [Cpus -> Seq(Nat)]]
    BY DEF XInv, Logged
  <2>2. <<>> \in Seq(Nat) /\ log[t] \in [Cpus -> Seq(Nat)]
    BY <1>3, <2>1
  <2>3. log' \in [Slots -> [Cpus -> Seq(Nat)]]
    BY <1>3, <1>8, <2>1, <2>2
  <2>4. log'[t][c] = <<>>
    BY <1>3, <1>8, <2>1, <2>2
  <2>5. \A d \in Cpus, s \in Slots : s # t \/ d # c => log'[s][d] = log[s][d]
    BY <1>3, <1>8, <2>1, <2>2
  <2> QED BY <2>3, <2>4, <2>5 DEF Logged
<1>10. stale \subseteq stale'
  BY <1>2
<1>12. \A d, s : MidZero(d, s) <=> /\ s = t /\ n > 1 /\ d = CpuOf(n - 1) /\ d = c
  <2>1. Len(buf) = n - 1 /\ Len(buf) + 1 = n /\ (Len(buf) > 0 <=> n > 1) /\ Len(buf) < NWords
    BY <1>0, <1>3
  <2> QED BY <1>0, <1>2, <2>1 DEF MidZero
<1>13. \A d, s : MidZero(d, s)' <=> /\ s = t /\ n < NWords /\ d = c /\ d = CpuOf(n + 1)
  <2>1. CASE n < NWords /\ buf' = Append(buf, 0) /\ UNCHANGED <<upc, idx, cur>>
    <3>1. Len(buf') = n
      BY <1>0, <1>3, <2>1
    <3> QED BY <1>0, <1>2, <1>3, <1>4, <2>1, <3>1 DEF MidZero
  <2>2. CASE ~(n < NWords) /\ upc' = "each"
    BY <2>2 DEF MidZero
  <2> QED BY <1>2, <2>1, <2>2
<1>14. ASSUME NEW d \in Cpus, NEW s \in Slots \ stale' PROVE Cell(d, s)'
  <2>1. s \notin stale /\ Cell(d, s)
    BY <1>10 DEF XInv, Exact
  <2>2. prog'[d] = prog[d]
    BY <1>2
  <2>3. CASE s # t \/ d # c
    <3>1. ~MidZero(d, s) /\ ~MidZero(d, s)'
      BY <1>12, <1>13, <2>3
    <3> QED BY <1>4, <1>7, <1>9, <2>1, <2>2, <2>3, <3>1, CellFrame
  <2>4. CASE s = t /\ d = c
    <3>1. ~Holds(c, t)
      BY <1>2, <2>4
    <3>2. ~At(prog[c], t) /\ ~At(prog'[c], t)
      BY <2>2, <2>4, <3>1 DEF At, Holds
    <3>3. PICK o : o = Own(c, t)'
      OBVIOUS
    <3>4. kind \in AllKinds /\ Fields = IF kind \in {"count", "hist"} THEN 1 ELSE 2
      BY CellTypes, Named, <1>3
    <3>5. e[n] = 0 /\ 1 \in 1 .. 2 /\ 2 \in 1 .. 2
      BY <1>1, <1>3 DEF Entries
    <3>6. CASE Fields = 1 /\ n = WordOf(c, 1) /\ CpuOf(n + 1) # c
      <4>1. o[1] = 0 /\ kind \in {"count", "hist"}
        BY <1>7, <3>3, <3>4, <3>5, <3>6
      <4>2. Told(kind, o, <<>>)
        BY <3>4, <4>1, ToldFirst
      <4>3. ~MidZero(d, s)'
        BY <1>13, <2>4, <3>6
      <4> QED BY <1>4, <1>9, <2>4, <3>2, <3>3, <4>2, <4>3 DEF Cell, Whole
    <3>7. CASE Fields = 2 /\ n = WordOf(c, 1) /\ n + 1 <= NWords /\ CpuOf(n + 1) = c
      <4>1. o[1] = 0
        BY <1>7, <3>3, <3>5, <3>7
      <4>2. MidZero(d, s)'
        BY <1>3, <1>13, <2>4, <3>7
      <4> QED BY <1>9, <2>4, <3>3, <4>1, <4>2 DEF Cell, Cut
    <3>8. CASE Fields = 2 /\ n = WordOf(c, 2) /\ n > 1 /\ CpuOf(n - 1) = c /\ CpuOf(n + 1) # c
      <4>1. MidZero(c, t)
        BY <1>12, <3>8
      <4>2. Own(c, t)[1] = 0
        BY <2>1, <2>4, <3>2, <4>1 DEF Cell, Cut
      <4>3. o[2] = 0
        <5>1. o[2] = IF 2 <= Fields THEN e[WordOf(c, 2)] ELSE 0
          BY <1>7, <3>3
        <5> QED BY <3>5, <3>8, <5>1
      <4>4. o[1] = 0
        <5>1. o[1] = e[WordOf(c, 1)]
          BY <1>7, <3>3, <3>8
        <5>2. Own(c, t)[1] = mem[t][WordOf(c, 1)]
          BY <3>8 DEF Own
        <5>3. WordOf(c, 1) # n /\ WordOf(c, 1) \in 1 .. NWords
          <6>1. 1 \in 1 .. Fields /\ 2 \in 1 .. Fields
            BY <3>8
          <6> QED BY <1>3, <3>8, <6>1, WordFacts, Layout
        <5> QED BY <1>1, <1>3, <4>2, <5>1, <5>2, <5>3 DEF Entries
      <4>5. Told(kind, o, <<>>)
        BY <3>4, <4>3, <4>4, ToldFirst
      <4>6. ~MidZero(d, s)'
        BY <1>13, <2>4, <3>8
      <4> QED BY <1>4, <1>9, <2>4, <3>2, <3>3, <4>5, <4>6 DEF Cell, Whole
    <3> QED BY <1>5, <3>6, <3>7, <3>8
  <2> QED BY <2>3, <2>4
<1>15. Fresh'
  <2> SUFFICES ASSUME NEW d \in Cpus, prog'[d].pc = "missing",
                      slot'[prog'[d].key] \notin {0} \cup stale'
               PROVE  log'[slot'[prog'[d].key]][d] = <<>>
    BY DEF Fresh
  <2>1. prog'[d] = prog[d] /\ prog[d].key \in Keys
    BY <1>2 DEF TypeInv, ProgOK
  <2>2. PICK s : s = slot[prog[d].key]
    OBVIOUS
  <2>3. s \in Slots /\ s \notin {0} \cup stale
    <3>1. s \in 0 .. NSlots /\ s # 0 /\ s \notin stale
      BY <1>2, <1>10, <2>1, <2>2 DEF TypeInv, KernelOK
    <3> QED BY <3>1, MapAssumption DEF Slots
  <2>4. log[s][d] = <<>>
    BY <2>1, <2>2, <2>3 DEF XInv, Fresh
  <2>5. log'[s][d] = <<>>
    BY <1>9, <2>3, <2>4
  <2> QED BY <1>2, <2>1, <2>2, <2>5
<1>16. Zeroing' /\ Shapes'
  BY <1>2, <1>4 DEF XInv, Zeroing, Shapes
<1> QED BY <1>9, <1>14, <1>15, <1>16 DEF XInv, Exact

\* Every step keeps the words exact.
LEMMA ExactStep == TypeInv /\ XInv /\ [Next]_vars => XInv'
<1> SUFFICES ASSUME TypeInv, XInv, [Next]_vars PROVE XInv'
  OBVIOUS
<1>1. CASE UNCHANGED vars
  <2>1. UNCHANGED <<fixed, user, slot, mem, log, stale, prog, upc, keys, idx, cur>>
    BY <1>1 DEF vars, kernel, user
  <2>2. kind' = kind /\ \A d, s : Own(d, s)' = Own(d, s)
    BY <2>1, OwnSame DEF fixed
  <2>3. \A d, s : MidZero(d, s)' <=> MidZero(d, s)
    BY <2>1, MidSame
  <2>4. Exact'
    <3> SUFFICES ASSUME NEW d \in Cpus, NEW s \in Slots \ stale' PROVE Cell(d, s)'
      BY DEF Exact
    <3>1. Cell(d, s)
      BY <2>1 DEF XInv, Exact
    <3> QED BY <2>1, <2>2, <2>3, <3>1, CellFrame
  <2> QED BY <2>1, <2>2, <2>4 DEF XInv, Fresh, Zeroing, Shapes, Logged
<1>2. ASSUME NEW c \in Cpus, ProgStep(c) PROVE XInv'
  <2>1. ScriptKeys \subseteq Keys
    BY MapAssumption DEF ScriptKeys, Keys
  <2>2. ASSUME NEW k \in ScriptKeys, NEW v, Lookup(c, k, v) PROVE XInv'
    BY <2>2, LookupExact
  <2>3. ASSUME NEW k \in ScriptKeys, Delete(c, k) PROVE XInv'
    BY <2>1, <2>3, DeleteExact
  <2> QED BY <1>2, <2>2, <2>3, LoadExact, Store1Exact, Store2Exact, InsertExact DEF ProgStep
<1>3. \A d, s : upc # "zero" => ~MidZero(d, s)
  BY DEF MidZero
<1>4. \A d, s : upc' # "zero" => ~MidZero(d, s)'
  BY DEF MidZero
<1>5. ASSUME NEW o, Begin(o) PROVE XInv'
  <2>1. UNCHANGED <<fixed, kernel, prog>> /\ upc = "idle" /\ upc' = "walk"
    BY <1>5 DEF Begin
  <2> QED BY <1>3, <1>4, <2>1, LoopExact
<1>6. CASE collect_keys \/ CopyWord \/ End
  <2>1. UNCHANGED <<fixed, kernel, prog>> /\ upc # "zero" /\ upc' # "zero"
    BY <1>6 DEF collect_keys, CopyWord, End, NextEntry
  <2> QED BY <1>3, <1>4, <2>1, LoopExact
<1>7. CASE Enter
  <2>1. UNCHANGED <<fixed, kernel, prog>> /\ upc = "each" /\ UNCHANGED <<keys, buf>>
    BY <1>7 DEF Enter
  <2>2. \A d, s : ~MidZero(d, s)'
    <3>1. buf' = <<>>
      BY <2>1 DEF TypeInv, UserOK
    <3>2. Len(buf') = 0
      BY <3>1
    <3> QED BY <3>2 DEF MidZero
  <2>3. upc' = "zero" => slot[keys'[idx']] = cur'
    BY <1>7 DEF Enter
  <2> QED BY <1>3, <2>1, <2>2, <2>3, LoopExact
<1>8. CASE ZeroWord
  BY <1>8, ZeroExact
<1>9. CASE ClearKey
  <2>1. /\ UNCHANGED <<fixed, prog, upc, keys, cur, buf>> /\ upc = "each" /\ idx <= Len(keys)
        /\ RemoveEntry(keys[idx]) \/ UNCHANGED kernel
    BY <1>9 DEF ClearKey
  <2>2. keys[idx] \in Keys
    BY <2>1 DEF TypeInv, UserOK
  <2>3. CASE RemoveEntry(keys[idx])
    BY <2>1, <2>2, <2>3, RemoveExact
  <2>4. CASE UNCHANGED kernel
    BY <1>3, <1>4, <2>1, <2>4, LoopExact
  <2> QED BY <2>1, <2>3, <2>4
<1> QED BY <1>1, <1>2, <1>5, <1>6, <1>7, <1>8, <1>9 DEF Next, UserStep

\* No sample is lost or counted twice by the racing inserts and the updates without a lock:
\* the words of every entry reduce to the aggregate of the samples recorded in it.
THEOREM ReducesExactly == Spec => []ReduceExact
<1>1. Init => TypeInv /\ XInv
  <2> SUFFICES ASSUME Init PROVE TypeInv /\ XInv
    OBVIOUS
  <2>1. TypeInv
    BY CountInit DEF IInv
  <2>2. /\ log = [s \in Slots |-> [c \in Cpus |-> <<>>]] /\ upc = "idle"
        /\ mem = [s \in Slots |-> ZeroEntry] /\ prog = [c \in Cpus |-> Idle] /\ Idle.pc = "idle"
    BY DEF Init, Idle
  <2>3. kind \in AllKinds
    BY <2>1, MapAssumption DEF AllKinds, TypeInv, FixedOK
  <2>4. ASSUME NEW c \in Cpus, NEW s \in Slots PROVE Cell(c, s)
    <3>1. PICK o : o = Own(c, s)
      OBVIOUS
    <3>2. o[1] = 0 /\ o[2] = 0
      <4>1. \A f \in 1 .. Fields : WordOf(c, f) \in 1 .. NWords
        BY Layout
      <4>2. \A f \in 1 .. 2 : f <= Fields => mem[s][WordOf(c, f)] = 0
        BY <2>2, <4>1, Layout DEF ZeroEntry
      <4> QED BY <3>1, <4>2 DEF Own
    <3>3. Told(kind, o, <<>>)
      BY <2>3, <3>2, ToldFirst
    <3> QED BY <2>2, <3>1, <3>3 DEF Cell, Whole, At, MidZero
  <2>5. Logged
    <3>1. <<>> \in Seq(Nat)
      OBVIOUS
    <3> QED BY <2>2, <3>1 DEF Logged
  <2> QED BY <2>1, <2>2, <2>4, <2>5 DEF XInv, Exact, Fresh, Zeroing, Shapes, Shape
<1>2. TypeInv /\ XInv => ReduceExact
  <2> SUFFICES ASSUME TypeInv, XInv PROVE ReduceExact
    OBVIOUS
  <2> SUFFICES ASSUME NEW k \in Present \ {j \in Keys : slot[j] \in stale},
                      ~ \E c \in Cpus : Holds(c, slot[k]) /\ prog[c].pc = "store2",
                      ~(upc = "zero" /\ cur = slot[k])
               PROVE  Reduce(mem[slot[k]]) = Aggregate(Recorded(slot[k]))
    BY Zenon DEF ReduceExact
  <2>0. k \in Keys /\ slot[k] # 0 /\ slot[k] \notin stale
    BY DEF Present
  <2>1. PICK s : s = slot[k]
    OBVIOUS
  <2>2. s \in Slots
    <3>1. s \in 0 .. NSlots /\ s # 0
      BY <2>0, <2>1 DEF TypeInv, KernelOK
    <3> QED BY <3>1, MapAssumption DEF Slots
  <2>3. LogsTyped(s)
    BY <2>2 DEF LogsTyped, XInv, Logged
  <2>4. ASSUME NEW c \in Cpus PROVE Told(kind, Own(c, s), log[s][c])
    <3>1. Cell(c, s) /\ ~MidZero(c, s) /\ ~(At(prog[c], s) /\ prog[c].pc = "store2")
      BY <2>0, <2>1, <2>2 DEF XInv, Exact, MidZero, Holds, At
    <3> QED BY <3>1 DEF Cell, Whole
  <2>5. FixedOK /\ KernelOK
    BY DEF TypeInv
  <2> QED BY <2>1, <2>2, <2>3, <2>4, <2>5, ToldReduces
<1> QED BY <1>1, <1>2, TypeStep, ExactStep, PTL DEF Spec

=============================================================================
