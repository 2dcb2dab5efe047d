------------------------------- MODULE BpfMap -------------------------------
(***************************************************************************)
(* A BPF map between the programs that fill it and bpftrace's event loop.  *)
(*                                                                         *)
(* Programs run on every CPU and write count(), hist(), min(), max() and   *)
(* avg() values with plain loads and stores into the part of the entry     *)
(* that belongs to their CPU (codegen_llvm.cpp, irbuilderbpf.cpp).  The    *)
(* event loop serves print(@), zero(@) and clear(@) by a walk over the     *)
(* keys followed by one system call per key (bpfmap.cpp), with no lock:    *)
(* programs insert, update and delete entries between any two of its       *)
(* steps and between any two words a system call copies.                   *)
(*                                                                         *)
(* The table is the kernel's preallocated hash table: an entry is a slot   *)
(* of memory, deleting an entry frees the slot at once, and a program that *)
(* holds a pointer into it keeps writing there, whoever owns it by then.   *)
(* An entry is laid out as user space reads it: for each CPU one word, or  *)
(* two for min, max (value, is_set) and avg (total, count).                *)
(***************************************************************************)
EXTENDS Naturals, Sequences, FiniteSets, SequencesExt, FiniteSetsExt

CONSTANTS
    NCpus,       \* bpftrace.ncpus_
    NKeys,       \* the keys are 1..NKeys, in the order of the hash buckets
    NSlots,      \* slots of memory; max_entries is chosen in 1..NSlots
    Kinds,       \* map value types: "count", "hist", "min", "max", "avg"
    Samples,     \* bound: the n-th call of min(), max() or avg() gets Samples[n]
    MaxHits,     \* bound: updates and deletes made by programs
    MaxOps       \* bound: print, zero and clear events

ASSUME MapAssumption ==
    /\ NCpus \in Nat \ {0} /\ NKeys \in Nat \ {0} /\ NSlots \in Nat \ {0}
    /\ Kinds \subseteq {"count", "hist", "min", "max", "avg"}
    /\ Samples \in Seq(Nat) /\ Len(Samples) >= MaxHits
    /\ MaxHits \in Nat /\ MaxOps \in Nat

VARIABLES
    kind,     \* value type of the map
    array,    \* a scalar count map is a per-CPU array: entries never come or go
    cap,      \* max_entries
    slot,     \* the entry of a key: a slot, or 0
    mem,      \* the words of a slot, CPU by CPU
    prog,     \* the program running on each CPU
    hits, ops,
    upc,      \* the event loop: "idle", "walk", "each", "copy" or "zero"
    op,       \* the event it serves: "print", "zero" or "clear"
    keys,     \* vector collect_keys() builds
    idx,      \* position in keys of the loop over them
    cur,      \* slot the system call in progress copies from or to
    buf,      \* words it has copied
    out,      \* what print has collected
    \* history, read by the properties only
    log,      \* samples a CPU recorded in a slot since it was made or zeroed
    stale,    \* slots a program was using while they were freed or zeroed
    past      \* when the event began: the keys there, their counts, the hits;
              \* and the keys that lost their entry or counts since

kernel == <<slot, mem, log, stale>>
user == <<upc, op, keys, idx, cur, buf, out>>
fixed == <<kind, array, cap>>
vars == <<fixed, kernel, prog, hits, ops, user, past>>

Keys == 1 .. NKeys
Slots == 1 .. NSlots
Cpus == 1 .. NCpus

-----------------------------------------------------------------------------
(***************************************************************************)
(* Layout of an entry                                                      *)
(***************************************************************************)
Fields == IF kind \in {"count", "hist"} THEN 1 ELSE 2
NWords == NCpus * Fields
WordOf(c, f) == (c - 1) * Fields + f
CpuOf(w) == ((w - 1) \div Fields) + 1
ZeroEntry == [w \in 1 .. NWords |-> 0]

Present == {k \in Keys : slot[k] # 0}
Free == (1 .. cap) \ {slot[k] : k \in Keys}

(***************************************************************************)
(* What user space makes of the words of an entry (util/stats.h)           *)
(***************************************************************************)
SumField(w, f) == MapThenSumSet(LAMBDA c : w[WordOf(c, f)], Cpus)

\* Mutant: the loop stops one CPU short.
reduce_value_Short(w) == MapThenSumSet(LAMBDA c : w[WordOf(c, 1)], Cpus \ {NCpus})
reduce_value(w) == SumField(w, 1)

\* Mutant: is_set is not looked at.
min_max_value_Unset(w, is_max) ==
    LET set == {w[WordOf(c, 1)] : c \in Cpus}
    IN  IF is_max THEN Max(set) ELSE Min(set)

\* Only the CPUs that ever recorded a sample count.
min_max_value(w, is_max) ==
    LET set == {w[WordOf(c, 1)] : c \in {d \in Cpus : w[WordOf(d, 2)] # 0}}
    IN  IF set = {} THEN 0 ELSE IF is_max THEN Max(set) ELSE Min(set)

avg_value(w) ==
    IF SumField(w, 2) > 0 THEN SumField(w, 1) \div SumField(w, 2) ELSE 0

\* Counts of each key, for a map of counts.
Totals == [k \in Keys |-> IF kind # "count" \/ slot[k] = 0 THEN 0
                                             ELSE SumField(mem[slot[k]], 1)]

Reduce(w) ==
    CASE kind \in {"count", "hist"} -> reduce_value(w)
      [] kind \in {"min", "max"}    -> min_max_value(w, kind = "max")
      [] kind = "avg"               -> avg_value(w)

-----------------------------------------------------------------------------
(***************************************************************************)
(* Programs: one at a time on a CPU                                        *)
(***************************************************************************)
Idle == [pc |-> "idle", key |-> 0, val |-> 0, slot |-> 0, w |-> <<0, 0>>]

Holds(c, s) == prog[c].pc # "idle" /\ prog[c].slot = s

\* The event loop has zeroed the first of this CPU's two words, not yet the other.
MidZero(c, s) ==
    /\ upc = "zero" /\ cur = s
    /\ Len(buf) > 0 /\ Len(buf) < NWords
    /\ CpuOf(Len(buf)) = c /\ CpuOf(Len(buf) + 1) = c

\* The kernel updates an entry from user space under the lock of its bucket.
Locked(k) == upc = "zero" /\ slot[k] = cur

Record(c, s, v) ==
    /\ log' = [log EXCEPT ![s][c] = Append(@, v)]
    /\ stale' = IF MidZero(c, s) THEN stale \cup {s} ELSE stale

(* A map value function looks its entry up. *)
Lookup(c, k, v) ==
    /\ prog[c].pc = "idle" /\ hits < MaxHits
    /\ prog' = [prog EXCEPT ![c] = [Idle EXCEPT
                   !.pc = IF slot[k] # 0 THEN "found" ELSE "missing",
                   !.key = k, !.val = v, !.slot = slot[k]]]
    /\ hits' = hits + 1
    /\ UNCHANGED <<fixed, kernel, ops, user, past>>

\* CreateMinMax: the entry is written when unset or when the sample is as good.
Improves(v, w) ==
    \/ w[2] # 1
    \/ IF kind = "max" THEN v >= w[1] ELSE w[1] >= v

(* The words of this CPU are loaded; min and max may be done with that. *)
Load(c) ==
    LET p == prog[c]
        w == [f \in 1 .. 2 |-> IF f <= Fields THEN mem[p.slot][WordOf(c, f)] ELSE 0]
    IN  /\ p.pc = "found"
        /\ IF kind \in {"min", "max"} /\ ~Improves(p.val, w)
             THEN /\ prog' = [prog EXCEPT ![c] = Idle]
                  /\ Record(c, p.slot, p.val)
             ELSE /\ prog' = [prog EXCEPT ![c].pc = "store1", ![c].w = w]
                  /\ UNCHANGED <<log, stale>>
        /\ UNCHANGED <<fixed, slot, mem, hits, ops, user, past>>

NewWord1(p) ==
    CASE kind \in {"count", "hist"} -> p.w[1] + 1
      [] kind \in {"min", "max"}    -> p.val
      [] kind = "avg"               -> p.w[1] + p.val
NewWord2(p) == IF kind = "avg" THEN p.w[2] + 1 ELSE 1

Store1(c) ==
    LET p == prog[c] IN
    /\ p.pc = "store1"
    /\ mem' = [mem EXCEPT ![p.slot][WordOf(c, 1)] = NewWord1(p)]
    /\ IF Fields = 1
         THEN prog' = [prog EXCEPT ![c] = Idle] /\ Record(c, p.slot, p.val)
         ELSE prog' = [prog EXCEPT ![c].pc = "store2"] /\ UNCHANGED <<log, stale>>
    /\ UNCHANGED <<fixed, slot, hits, ops, user, past>>

Store2(c) ==
    LET p == prog[c] IN
    /\ p.pc = "store2"
    /\ mem' = [mem EXCEPT ![p.slot][WordOf(c, 2)] = NewWord2(p)]
    /\ prog' = [prog EXCEPT ![c] = Idle]
    /\ Record(c, p.slot, p.val)
    /\ UNCHANGED <<fixed, slot, hits, ops, user, past>>

\* An entry with its first sample on this CPU.
FirstWords(c, v, old) ==
    IF Fields = 1 THEN [old EXCEPT ![WordOf(c, 1)] = 1]
    ELSE [old EXCEPT ![WordOf(c, 1)] = v, ![WordOf(c, 2)] = 1]

(* bpf_map_update_elem(BPF_ANY) from a program writes the words of its CPU; *)
(* a new entry is zero on the others.  A full table refuses the new entry.  *)
Insert(c) ==
    LET p == prog[c] IN
    /\ p.pc = "missing" /\ ~Locked(p.key)
    /\ prog' = [prog EXCEPT ![c] = Idle]
    /\ IF slot[p.key] # 0
         THEN LET s == slot[p.key] IN
              /\ mem' = [mem EXCEPT ![s] = FirstWords(c, p.val, @)]
              /\ log' = [log EXCEPT ![s][c] = Append(@, p.val)]
              /\ UNCHANGED <<slot, stale>>
         ELSE \/ /\ Free = {}
                 /\ UNCHANGED kernel
              \/ \E s \in Free :
                 /\ slot' = [slot EXCEPT ![p.key] = s]
                 /\ mem' = [mem EXCEPT ![s] = FirstWords(c, p.val, ZeroEntry)]
                 /\ log' = [log EXCEPT ![s] = [d \in Cpus |->
                                             IF d = c THEN <<p.val>> ELSE <<>>]]
                 /\ stale' = IF \E d \in Cpus : Holds(d, s)
                               THEN stale \cup {s} ELSE stale \ {s}
    /\ UNCHANGED <<fixed, hits, ops, user, past>>

\* An entry leaves the table; its slot is free at once.
RemoveEntry(k) ==
    /\ slot' = [slot EXCEPT ![k] = 0]
    /\ past' = [past EXCEPT !.lost = @ \cup {k}]
    /\ stale' = IF \E c \in Cpus : Holds(c, slot[k])
                  THEN stale \cup {slot[k]} ELSE stale
    /\ UNCHANGED <<mem, log>>

(* delete(@x, k).  An array has no entry to delete: a zero is stored instead,  *)
(* by an update from a program, which writes the words of the CPU it runs on. *)
Delete(c, k) ==
    /\ prog[c].pc = "idle" /\ hits < MaxHits /\ slot[k] # 0 /\ ~Locked(k)
    /\ hits' = hits + 1
    /\ IF array
         THEN /\ mem' = [mem EXCEPT ![slot[k]][WordOf(c, 1)] = 0]
              /\ log' = [log EXCEPT ![slot[k]][c] = <<>>]
              /\ past' = [past EXCEPT !.lost = @ \cup {k}]
              /\ UNCHANGED <<slot, stale>>
         ELSE RemoveEntry(k)
    /\ UNCHANGED <<fixed, prog, ops, user>>

-----------------------------------------------------------------------------
(***************************************************************************)
(* The event loop: print_map, zero_map, clear_map                          *)
(***************************************************************************)
\* A map that cannot be cleared is zeroed.
Begin(o) ==
    /\ upc = "idle" /\ ops < MaxOps
    /\ ops' = ops + 1
    /\ upc' = "walk"
    /\ op' = IF o = "clear" /\ array THEN "zero" ELSE o
    /\ out' = <<>>
    /\ past' = [keys |-> Present, count |-> Totals, lost |-> {},
                hits |-> IF \A c \in Cpus : prog[c].pc = "idle" THEN hits ELSE MaxHits + 1]
    /\ UNCHANGED <<fixed, kernel, prog, hits, keys, idx, cur, buf>>

\* bpf_map_get_next_key: a key that is not there is answered with the first one.
NextKey(k) ==
    LET after == {j \in Present : k \in Present => j > k}
    IN  IF after = {} THEN 0 ELSE Min(after)

\* Mutant: the walk ends at a key that was deleted under it.
collect_keys_Ends ==
    LET last == IF keys = <<>> THEN 0 ELSE Last(keys)
        next == IF last # 0 /\ slot[last] = 0 THEN 0 ELSE NextKey(last) IN
    /\ upc = "walk"
    /\ IF next # 0 THEN keys' = Append(keys, next) /\ upc' = upc
                   ELSE upc' = "each" /\ keys' = keys
    /\ UNCHANGED <<fixed, kernel, prog, hits, ops, op, idx, cur, buf, out, past>>

collect_keys ==
    LET next == NextKey(IF keys = <<>> THEN 0 ELSE Last(keys)) IN
    /\ upc = "walk"
    /\ IF next # 0 THEN keys' = Append(keys, next) /\ upc' = upc
                   ELSE upc' = "each" /\ keys' = keys
    /\ UNCHANGED <<fixed, kernel, prog, hits, ops, op, idx, cur, buf, out, past>>

\* Mutant: a key that is gone is tried again.
Enter_Retries ==
    /\ upc = "each" /\ idx <= Len(keys) /\ op # "clear"
    /\ slot[keys[idx]] # 0
    /\ upc' = (IF op = "print" THEN "copy" ELSE "zero")
    /\ cur' = slot[keys[idx]] /\ idx' = idx
    /\ UNCHANGED <<fixed, kernel, prog, hits, ops, op, keys, buf, out, past>>

\* The system call for the next key begins, or finds no such key: -ENOENT.
Enter ==
    /\ upc = "each" /\ idx <= Len(keys) /\ op # "clear"
    /\ IF slot[keys[idx]] = 0
         THEN idx' = idx + 1 /\ UNCHANGED <<upc, cur>>
         ELSE /\ upc' = IF op = "print" THEN "copy" ELSE "zero"
              /\ cur' = slot[keys[idx]] /\ idx' = idx
    /\ UNCHANGED <<fixed, kernel, prog, hits, ops, op, keys, buf, out, past>>

\* A system call returns and the loop goes on to the next key.
NextEntry == upc' = "each" /\ idx' = idx + 1 /\ cur' = 0 /\ buf' = <<>>

\* Plain values are appended; a bucket of a histogram is assigned.
Collect(k, v) ==
    IF kind = "hist" /\ \E i \in DOMAIN out : out[i].key = k
    THEN [i \in DOMAIN out |-> IF out[i].key = k THEN [key |-> k, val |-> v] ELSE out[i]]
    ELSE Append(out, [key |-> k, val |-> v])

(* collect_elements, collect_histogram_data: bpf_map_lookup_elem copies the *)
(* words one after the other.                                              *)
CopyWord ==
    LET w == Append(buf, mem[cur][Len(buf) + 1]) IN
    /\ upc = "copy"
    /\ IF Len(w) < NWords
         THEN buf' = w /\ UNCHANGED <<out, upc, idx, cur>>
         ELSE out' = Collect(keys[idx], Reduce(w)) /\ NextEntry
    /\ UNCHANGED <<fixed, kernel, prog, hits, ops, op, keys, past>>

\* Mutant: nvalues is 1, as for a map that is not per CPU.
ZeroWord_OneCpu ==
    LET n == Len(buf) + 1 IN
    /\ upc = "zero"
    /\ mem' = [mem EXCEPT ![cur][n] = 0]
    /\ log' = [log EXCEPT ![cur][1] = <<>>]
    /\ IF n < Fields THEN buf' = Append(buf, 0) /\ UNCHANGED <<upc, idx, cur>>
                     ELSE NextEntry
    /\ past' = [past EXCEPT !.lost = @ \cup {keys[idx]}]
    /\ UNCHANGED <<fixed, slot, stale, prog, hits, ops, op, keys, out>>

(* zero_out: bpf_map_update_elem(BPF_EXIST) writes the words of every CPU. *)
ZeroWord ==
    LET n == Len(buf) + 1
        c == CpuOf(n) IN
    /\ upc = "zero"
    /\ mem' = [mem EXCEPT ![cur][n] = 0]
    /\ log' = [log EXCEPT ![cur][c] = <<>>]
    /\ stale' = IF Holds(c, cur) THEN stale \cup {cur} ELSE stale
    /\ IF n < NWords THEN buf' = Append(buf, 0) /\ UNCHANGED <<upc, idx, cur>>
                     ELSE NextEntry
    /\ past' = [past EXCEPT !.lost = @ \cup {keys[idx]}]
    /\ UNCHANGED <<fixed, slot, prog, hits, ops, op, keys, out>>

(* clear: bpf_map_delete_elem; -ENOENT is as good. *)
ClearKey ==
    /\ upc = "each" /\ idx <= Len(keys) /\ op = "clear"
    /\ idx' = idx + 1
    /\ IF slot[keys[idx]] # 0 THEN RemoveEntry(keys[idx])
                              ELSE UNCHANGED <<kernel, past>>
    /\ UNCHANGED <<fixed, prog, hits, ops, upc, op, keys, cur, buf, out>>

End ==
    /\ upc = "each" /\ idx > Len(keys)
    /\ upc' = "idle" /\ keys' = <<>> /\ idx' = 1
    /\ UNCHANGED <<fixed, kernel, prog, hits, ops, op, cur, buf, out, past>>

-----------------------------------------------------------------------------
Init ==
    /\ kind \in Kinds
    /\ array \in {FALSE} \cup {kind = "count"}
    /\ cap \in 1 .. NSlots
    /\ slot = [k \in Keys |-> IF array /\ k = 1 THEN 1 ELSE 0]
    /\ mem = [s \in Slots |-> ZeroEntry]
    /\ prog = [c \in Cpus |-> Idle]
    /\ hits = 0 /\ ops = 0
    /\ upc = "idle" /\ op = "print" /\ keys = <<>> /\ idx = 1 /\ cur = 0
    /\ buf = <<>> /\ out = <<>>
    /\ log = [s \in Slots |-> [c \in Cpus |-> <<>>]]
    /\ stale = {}
    /\ past = [keys |-> {}, count |-> [k \in Keys |-> 0], lost |-> {}, hits |-> 0]

\* The only key of a scalar map is 0, the first one here.
ScriptKeys == IF array THEN {1} ELSE Keys

ProgStep(c) ==
    \/ \E k \in ScriptKeys : Lookup(c, k, IF Fields = 1 THEN 1 ELSE Samples[hits + 1])
    \/ Load(c) \/ Store1(c) \/ Store2(c) \/ Insert(c)
    \/ \E k \in ScriptKeys : Delete(c, k)

UserStep == collect_keys \/ Enter \/ CopyWord \/ ZeroWord \/ ClearKey \/ End

Next ==
    \/ \E c \in Cpus : ProgStep(c)
    \/ \E o \in {"print", "zero", "clear"} : Begin(o)
    \/ UserStep

Spec == Init /\ [][Next]_vars

\* The event loop's thread keeps running; programs run or not as they please.
FairSpec == Spec /\ WF_vars(UserStep)
-----------------------------------------------------------------------------
(***************************************************************************)
(* Properties                                                              *)
(***************************************************************************)
TypeOK ==
    /\ kind \in Kinds /\ array \in BOOLEAN /\ cap \in Slots
    /\ slot \in [Keys -> 0 .. NSlots]
    /\ \A s \in Slots : Len(mem[s]) = NWords /\ \A w \in 1 .. NWords : mem[s][w] \in Nat
    /\ \A c \in Cpus :
        /\ prog[c].pc \in {"idle", "found", "missing", "store1", "store2"}
        /\ prog[c].pc \in {"found", "store1", "store2"} => prog[c].slot \in Slots
    /\ hits \in 0 .. MaxHits /\ ops \in 0 .. MaxOps
    /\ upc \in {"idle", "walk", "each", "copy", "zero"}
    /\ op \in {"print", "zero", "clear"}
    /\ keys \in Seq(Keys) /\ idx \in 1 .. Len(keys) + 1
    /\ upc \in {"copy", "zero"} => cur \in Slots /\ idx <= Len(keys) /\ Len(buf) < NWords
    /\ stale \subseteq Slots

Served(o) == upc = "idle" /\ ops > 0 /\ op = o
Shown == {out[i].key : i \in DOMAIN out}

\* All samples recorded in a slot, on whatever CPU.
Recorded(s) == FoldSet(LAMBDA c, acc : acc \o log[s][c], <<>>, Cpus)
Aggregate(q) ==
    LET sum == FoldSeq(LAMBDA x, acc : x + acc, 0, q) IN
    IF q = <<>> THEN 0
    ELSE CASE kind \in {"count", "hist"} -> Len(q)
           [] kind = "min"               -> Min(ToSet(q))
           [] kind = "max"               -> Max(ToSet(q))
           [] kind = "avg"               -> sum \div Len(q)

\* The words of an entry reduce to the aggregate of the samples recorded in it,
\* whatever CPUs recorded them and however the programs interleaved: no sample
\* is lost or counted twice by the racing inserts and unlocked updates.  Not
\* while a program is between its two stores, nor for a slot that was freed or
\* zeroed under a running program.
ReduceExact ==
    \A k \in Present \ {j \in Keys : slot[j] \in stale} :
        \/ \E c \in Cpus : Holds(c, slot[k]) /\ prog[c].pc = "store2"
        \/ upc = "zero" /\ cur = slot[k]
        \/ Reduce(mem[slot[k]]) = Aggregate(Recorded(slot[k]))

\* A key that was in the map during a whole print is printed, and one that was
\* there when a clear began has been removed when it ends, although programs
\* inserted and deleted other keys under the walk.
StableKeysServed ==
    /\ Served("print") => past.keys \ past.lost \subseteq Shown
    /\ Served("clear") => past.keys \subseteq past.lost

\* An event served while no program runs does what it says: print shows every
\* entry once with its aggregate, zero leaves no count, clear no entry.
QuietEventsExact ==
    past.hits = hits =>
        /\ Served("print") =>
              /\ Shown = Present /\ Len(out) = Cardinality(Present)
              /\ \A i \in DOMAIN out : out[i].val = Reduce(mem[slot[out[i].key]])
        /\ Served("zero") => \A k \in Present : mem[slot[k]] = ZeroEntry
        /\ Served("clear") => Present = {}

\* An event does what it says: to the keys that stay, whatever the programs do
\* meanwhile, and to all of them when the programs are quiet.
ServedAsAsked == StableKeysServed /\ QuietEventsExact

Printing == upc # "idle" /\ op = "print" /\ kind = "count"

Counters == INSTANCE WeakCounters WITH
    total   <- Totals,
    reading <- Printing,
    low     <- IF Printing THEN past.count ELSE [k \in Keys |-> 0],
    lost    <- IF Printing THEN past.lost ELSE {},
    shown   <- IF Printing THEN out ELSE <<>>

\* A print of counts implements the weak counters: each key is shown with a
\* number it had between the start of the print and the moment it is shown,
\* although its words are read one CPU after the other.
ImplementsCounters == Counters!Spec

\* Every event is served to its end once the programs let the walk get there.
EventServed == (upc # "idle") ~> (upc = "idle")

\* docs/stdlib.md, delete: "For scalar maps (e.g. no explicit keys), the key is
\* omitted and is equivalent to calling clear": no count is left afterwards.
DeleteClearsScalar ==
    [][\A c \in Cpus : array /\ Delete(c, 1) => reduce_value(mem'[slot'[1]]) = 0]_vars
=============================================================================
