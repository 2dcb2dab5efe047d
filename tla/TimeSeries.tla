----------------------------- MODULE TimeSeries -----------------------------
(***************************************************************************)
(* tseries(): a ring of intervals per key, written by programs on every    *)
(* CPU and printed by the event loop.                                      *)
(*                                                                         *)
(* Time is cut into epochs of Interval ticks.  A sample goes to the bucket *)
(* epoch % NumIntervals of its key: a map entry with three words per CPU,  *)
(* the value, a second word that depends on the aggregation (a count, a    *)
(* flag, a time stamp) and the epoch these belong to.  A program clears    *)
(* its words when it meets an older epoch, then stores word by word, the   *)
(* epoch last (codegen_llvm.cpp).  print(@) copies the entries CPU by      *)
(* CPU, reduces each over the CPUs (util/tseries.cpp) and lays the epochs  *)
(* of all keys over one window (types_format.cpp).                         *)
(*                                                                         *)
(* The walk over keys, deletion and the reuse of memory are in BpfMap;     *)
(* here entries only come.                                                 *)
(***************************************************************************)
EXTENDS Naturals, Sequences, FiniteSets, SequencesExt, FiniteSetsExt

CONSTANTS
    NCpus,         \* bpftrace.ncpus_
    Keys,          \* keys of the script
    NumIntervals,  \* third argument of tseries()
    Interval,      \* ticks per interval
    Aggs,          \* aggregations: "none", "avg", "max", "min", "sum"
    MaxEntries,    \* max_entries of the map
    Samples,       \* bound: the n-th call records Samples[n]
    StartTime,     \* the clock when the script starts: long after tick 0
    MaxTime,       \* bound: the clock, in ticks
    MaxOps         \* bound: print and zero events

ASSUME SeriesAssumption ==
    /\ NCpus \in Nat \ {0} /\ NumIntervals \in Nat \ {0} /\ Interval \in Nat \ {0}
    /\ Aggs \subseteq {"none", "avg", "max", "min", "sum"}
    /\ MaxEntries \in Nat /\ Samples \in Seq(Nat) /\ MaxOps \in Nat
    /\ StartTime \in Nat /\ MaxTime \in Nat
    /\ StartTime >= Interval * NumIntervals

VARIABLES
    agg,      \* fourth argument of tseries()
    time,     \* CLOCK_TAI when it was last read
    entry,    \* the words of each bucket of each key, or Absent
    prog,     \* the program running on each CPU
    hits, ops,
    upc,      \* the event loop: "idle", "copy", "zero", "printed" or "crashed"
    walk,     \* entries it has still to visit
    buf,      \* words, CPU by CPU, copied or zeroed of the first of them
    series,   \* collect_tseries_data(): <<key, epoch, value>>
    out,      \* what print shows: for each key a sequence of <<epoch, value>>
    \* history, read by the properties only
    log,      \* samples recorded: [n, cpu, key, val, now], by the n-th call
    torn,     \* a program was storing in the entry while it was copied
    spoiled,  \* entries zeroed while a program was storing in them
    seen      \* entries copied whole, with the samples they held

kernel == <<entry, prog, hits, log>>
user == <<upc, walk, buf, series, out, seen>>
vars == <<agg, time, kernel, ops, user, torn, spoiled>>

Cpus == 1 .. NCpus
Buckets == 0 .. NumIntervals - 1
Entries == Keys \X Buckets
Epoch(t) == t \div Interval

Fields == <<"val", "meta", "epoch">>
ZeroPart == [val |-> 0, meta |-> 0, epoch |-> 0]
Absent == <<>>
Blank == "blank"
Idle == [pc |-> "idle"]

Present == {e \in Entries : entry[e] # Absent}
Where(p) == <<p.key, Epoch(p.now) % NumIntervals>>
Storing(e) == \E c \in Cpus : prog[c].pc = "store" /\ Where(prog[c]) = e
Visits(e) == walk # <<>> /\ Head(walk) = e /\ buf # <<>>

-----------------------------------------------------------------------------
(***************************************************************************)
(* Programs: one at a time on a CPU                                        *)
(***************************************************************************)
\* CreateMinMax, with meta as the flag.
Improves(v, old) ==
    old.meta # 1 \/ (agg = "max" /\ v >= old.val) \/ (agg = "min" /\ old.val >= v)

Aggregate(old, v, now) ==
    CASE agg = "avg" -> <<<<"meta", old.meta + 1>>, <<"val", old.val + v>>>>
      [] agg = "sum" -> <<<<"val", old.val + v>>>>
      [] agg \in {"min", "max"} ->
            IF Improves(v, old) THEN <<<<"val", v>>, <<"meta", 1>>>> ELSE <<>>
      [] agg = "none" -> <<<<"val", v>>, <<"meta", now>>>>

\* Mutant: the words of an older epoch are kept.
Stores_NoClear(old, v, now) == Aggregate(old, v, now) \o <<<<"epoch", Epoch(now)>>>>

\* The stores of the program, in the order of the generated code.
Stores(old, v, now) ==
    LET clears == agg # "none" /\ old.epoch # Epoch(now)
        base == IF clears THEN ZeroPart ELSE old
    IN  (IF clears THEN <<<<"val", 0>>, <<"meta", 0>>>> ELSE <<>>)
            \o Aggregate(base, v, now) \o <<<<"epoch", Epoch(now)>>>>

Sample(c, p) == [n |-> p.n, cpu |-> c, key |-> p.key, val |-> p.val, now |-> p.now]

\* A part after stores: the last one to a word counts.
Stored(part, stores) ==
    [f \in DOMAIN part |->
        LET at == {i \in DOMAIN stores : stores[i][1] = f}
        IN  IF at = {} THEN part[f] ELSE stores[Max(at)][2]]

(* tseries(): the time is read, any time after the last reading, the bucket is *)
(* looked up and the words of this CPU are loaded.  Entries stay and only this *)
(* CPU stores in its words, so loading them later makes no difference.         *)
Lookup(c, k, now) ==
    LET p == [pc |-> "missing", n |-> hits + 1, key |-> k, val |-> Samples[hits + 1],
              now |-> now, todo |-> <<>>]
        e == Where(p)
    IN  /\ prog[c].pc = "idle" /\ hits < Len(Samples)
        /\ hits' = hits + 1 /\ time' = now
        /\ prog' = [prog EXCEPT ![c] =
                       IF entry[e] = Absent THEN p
                       ELSE [p EXCEPT !.pc = "store", !.todo = Stores(entry[e][c], p.val, now)]]
        /\ spoiled' = IF upc = "zero" /\ Visits(e) THEN spoiled \cup {e} ELSE spoiled
        /\ UNCHANGED <<agg, entry, log, ops, user, torn>>

Store(c) ==
    LET p == prog[c]
        e == Where(p)
        last == Len(p.todo) = 1
    IN  /\ p.pc = "store"
        /\ entry' = [entry EXCEPT ![e][c][Head(p.todo)[1]] = Head(p.todo)[2]]
        /\ prog' = [prog EXCEPT ![c] = IF last THEN Idle
                                       ELSE [p EXCEPT !.todo = Tail(@)]]
        /\ log' = IF last THEN log \cup {Sample(c, p)} ELSE log
        /\ torn' = (torn \/ (upc = "copy" /\ Visits(e)))
        /\ spoiled' = IF upc = "zero" /\ Visits(e) THEN spoiled \cup {e} ELSE spoiled
        /\ UNCHANGED <<agg, time, hits, ops, user>>

(* The bucket was missing: it is built on the stack and inserted.  A full map *)
(* refuses it; if another CPU has inserted it meanwhile, the kernel copies    *)
(* the three words of this CPU.                                               *)
Insert(c) ==
    LET p == prog[c]
        e == Where(p)
        zero == [ZeroPart EXCEPT !.epoch = Epoch(p.now)]
        new == Stored(zero, Stores(zero, p.val, p.now))
    IN  /\ p.pc = "missing"
        /\ IF entry[e] # Absent
             THEN /\ prog' = [prog EXCEPT ![c].pc = "store",
                                 ![c].todo = [i \in 1 .. 3 |-> <<Fields[i], new[Fields[i]]>>]]
                  /\ UNCHANGED <<entry, log>>
             ELSE /\ prog' = [prog EXCEPT ![c] = Idle]
                  /\ IF Cardinality(Present) < MaxEntries
                       THEN /\ entry' = [entry EXCEPT ![e] =
                                          [d \in Cpus |-> IF d = c THEN new ELSE ZeroPart]]
                            /\ log' = log \cup {Sample(c, p)}
                       ELSE UNCHANGED <<entry, log>>
        /\ UNCHANGED <<agg, time, hits, ops, user, torn, spoiled>>

-----------------------------------------------------------------------------
(***************************************************************************)
(* reduce_tseries_value (util/tseries.cpp)                                 *)
(***************************************************************************)
\* Mutant: the values of all epochs are combined.
SameEpoch_Any(parts, ep) == {c \in Cpus : parts[c].epoch # 0}
SameEpoch(parts, ep) == {c \in Cpus : parts[c].epoch = ep}

latest_epoch(parts) == Max({parts[c].epoch : c \in Cpus})

\* The first of the CPUs with the latest time stamp.
MostRecent(parts, cs) ==
    Min({c \in cs : \A d \in cs : parts[c].meta >= parts[d].meta})

MetaOf(parts) ==
    MapThenSumSet(LAMBDA c : parts[c].meta, SameEpoch(parts, latest_epoch(parts)))

reduce_tseries_value(parts) ==
    LET ep == latest_epoch(parts)
        cs == SameEpoch(parts, ep)
        sum == MapThenSumSet(LAMBDA c : parts[c].val, cs)
        vals == {parts[c].val : c \in cs}
    IN  <<ep, IF ep = 0 THEN 0 ELSE
              CASE agg = "none" -> parts[MostRecent(parts, cs)].val
                [] agg = "avg"  -> sum \div MetaOf(parts)
                [] agg = "sum"  -> sum
                [] agg = "max"  -> Max(vals)
                [] agg = "min"  -> Min(vals)>>

\* The integer division of the average traps.
DividesByZero(parts) == agg = "avg" /\ latest_epoch(parts) # 0 /\ MetaOf(parts) = 0

-----------------------------------------------------------------------------
(***************************************************************************)
(* The event loop: print_map and zero_map                                  *)
(***************************************************************************)
Begin(o) ==
    /\ upc = "idle" /\ ops < MaxOps
    /\ ops' = ops + 1
    /\ upc' = o
    /\ walk' = SetToSeq(Present)
    /\ series' = {} /\ out' = <<>> /\ seen' = {} /\ torn' = FALSE
    /\ UNCHANGED <<agg, time, kernel, buf, spoiled>>

\* A std::map keeps the first value it is given for an epoch.
Emplace(k, r) ==
    IF \E s \in series : s[1] = k /\ s[2] = r[1] THEN series
    ELSE series \cup {<<k, r[1], r[2]>>}

(* collect_tseries_data: bpf_map_lookup_elem copies an entry CPU by CPU; then *)
(* it is reduced.                                                             *)
CopyCpu ==
    LET e == Head(walk)
        parts == Append(buf, entry[e][Len(buf) + 1])
        t == torn \/ (buf = <<>> /\ Storing(e))
    IN  /\ upc = "copy" /\ walk # <<>>
        /\ IF Len(parts) < NCpus
             THEN buf' = parts /\ torn' = t /\ UNCHANGED <<upc, walk, series, seen>>
             ELSE /\ buf' = <<>> /\ walk' = Tail(walk) /\ torn' = FALSE
                  /\ IF DividesByZero(parts)
                       THEN upc' = "crashed" /\ UNCHANGED <<series, seen>>
                       ELSE /\ series' = Emplace(e[1], reduce_tseries_value(parts))
                            /\ seen' = IF t THEN seen
                                       ELSE seen \cup {[at |-> e, samples |->
                                              {s \in log : Where(s) = e}]}
                            /\ upc' = upc
        /\ UNCHANGED <<agg, time, kernel, ops, out, spoiled>>

\* zero_out: bpf_map_update_elem(BPF_EXIST) writes zeroes for every CPU.
ZeroCpu ==
    LET e == Head(walk)
        parts == Append(buf, ZeroPart)
    IN  /\ upc = "zero" /\ walk # <<>>
        /\ entry' = [entry EXCEPT ![e][Len(parts)] = ZeroPart]
        /\ log' = {s \in log : Where(s) # e}
        /\ spoiled' = IF buf = <<>> /\ Storing(e) THEN spoiled \cup {e} ELSE spoiled
        /\ IF Len(parts) < NCpus THEN buf' = parts /\ walk' = walk
                                 ELSE buf' = <<>> /\ walk' = Tail(walk)
        /\ UNCHANGED <<agg, time, prog, hits, ops, upc, series, out, torn, seen>>

ZeroEnd ==
    /\ upc = "zero" /\ walk = <<>>
    /\ upc' = "idle"
    /\ UNCHANGED <<agg, time, kernel, ops, walk, buf, series, out, torn, spoiled, seen>>

EpochsOf(k) == {s[2] : s \in {t \in series : t[1] = k}}
last_epoch == Max({s[2] : s \in series})

\* uint64_t: before the window is full since tick 0, first_epoch wraps around.
epoch_range ==
    IF last_epoch + 1 < NumIntervals THEN {}
    ELSE (last_epoch + 1 - NumIntervals) .. last_epoch

\* Rows from the first epoch of the window the key has a value for.
build_time_series(k) ==
    LET values == EpochsOf(k) \cap epoch_range
        shown == {e \in epoch_range : e >= Min(values \cup {last_epoch})}
        Value(e) == IF e \in values THEN (CHOOSE s \in series : s[1] = k /\ s[2] = e)[3]
                                    ELSE Blank
    IN  [i \in 1 .. Cardinality(shown) |->
            <<Min(shown) + i - 1, Value(Min(shown) + i - 1)>>]

format ==
    /\ upc = "copy" /\ walk = <<>>
    /\ upc' = "printed"
    /\ out' = [k \in {s[1] : s \in series} |-> build_time_series(k)]
    /\ UNCHANGED <<agg, time, kernel, ops, walk, buf, series, torn, spoiled, seen>>

-----------------------------------------------------------------------------
Init ==
    /\ agg \in Aggs
    /\ time = StartTime
    /\ entry = [e \in Entries |-> Absent]
    /\ prog = [c \in Cpus |-> Idle]
    /\ hits = 0 /\ ops = 0
    /\ upc = "idle" /\ walk = <<>> /\ buf = <<>> /\ series = {} /\ out = <<>>
    /\ log = {} /\ torn = FALSE /\ spoiled = {} /\ seen = {}

ProgStep ==
    \E c \in Cpus :
        \/ \E k \in Keys, now \in time .. MaxTime : Lookup(c, k, now)
        \/ Store(c) \/ Insert(c)

Next ==
    \/ ProgStep
    \/ \E o \in {"copy", "zero"} : Begin(o)
    \/ CopyCpu \/ format
    \/ ZeroCpu \/ ZeroEnd

Spec == Init /\ [][Next]_vars

-----------------------------------------------------------------------------
(***************************************************************************)
(* Properties                                                              *)
(***************************************************************************)
\* The samples of key k recorded in epoch e, of those an entry held.
In(samples, k, e) == {s \in samples : s.key = k /\ Epoch(s.now) = e}

\* What docs/stdlib.md promises for an interval with these samples.
Promised(ss, v) ==
    LET vals == {s.val : s \in ss}
        sum == MapThenSumSet(LAMBDA s : s.val, ss)
    IN  IF ss = {} THEN v = Blank ELSE
        CASE agg = "none" -> \E s \in ss : v = s.val /\ \A t \in ss : s.now >= t.now
          [] agg = "avg"  -> v = sum \div Cardinality(ss)
          [] agg = "sum"  -> v = sum
          [] agg = "max"  -> v = Max(vals)
          [] agg = "min"  -> v = Min(vals)

RowOf(k, e) == {r \in Range(out[k]) : r[1] = e}

(* print() of a time series: for an entry no program was storing in while it *)
(* was copied or zeroed, every interval of the window shows the aggregate of *)
(* the samples of exactly that interval, over all CPUs, whatever interval    *)
(* used the bucket before and whatever the other entries do; intervals with  *)
(* samples are not left out and those without are blank (docs/stdlib.md).    *)
SeriesExact ==
    upc = "printed" =>
        \A s \in {x \in seen : x.at \notin spoiled} :
            LET k == s.at[1] IN
            \A e \in {x \in last_epoch + 1 - NumIntervals .. last_epoch :
                            x % NumIntervals = s.at[2]} :
                LET held == In(s.samples, k, e) IN
                /\ held # {} => RowOf(k, e) # {}
                /\ \A r \in RowOf(k, e) : Promised(held, r[2])

(* docs/stdlib.md:1736 promises the average of all the values of an interval: *)
(* print() never ends bpftrace by a division by a count of zero.              *)
AverageDefined == upc # "crashed"
=============================================================================
