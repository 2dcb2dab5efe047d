-------------------------- MODULE WatchpointsProofs --------------------------
(***************************************************************************)
(* Watchpoints, for any probes, arguments, number of debug registers and   *)
(* size of the ring buffer.                                                *)
(***************************************************************************)
EXTENDS Watchpoints, FiniteSetTheorems, WellFoundedInduction, TLAPS

\* A non-empty set of natural numbers has a least element.
LEMMA Least ==
    ASSUME NEW T, T \subseteq Nat, T # {}
    PROVE  \E n \in T : \A m \in T : n <= m
<1> DEFINE R == OpToRel(<, Nat)
<1>1. \A x, y \in Nat : <<y, x>> \in R <=> y < x
  BY DEF OpToRel
<1>2. PICK x \in T : \A y \in T : <<y, x>> \notin R
  BY NatLessThanWellFounded, WFMin
<1>3. \A y \in T : x <= y
  <2> TAKE y \in T
  <2>1. x \in Nat /\ y \in Nat
    OBVIOUS
  <2>2. ~(y < x)
    BY <2>1, <1>1, <1>2, Zenon
  <2> QED BY <2>1, <2>2
<1> QED BY <1>3

\* The elements of a set of numbers have a place each, in their order.
LEMMA PlaceFacts ==
    ASSUME NEW m \in Nat, NEW S \in SUBSET (1 .. m)
    PROVE  /\ Cardinality(S) \in Nat
           /\ \A k \in 1 .. Cardinality(S) : Place(S, k) \in S
           /\ \A k, l \in 1 .. Cardinality(S) : k < l => Place(S, k) < Place(S, l)
           /\ \A i \in S : \E k \in 1 .. Cardinality(S) : Place(S, k) = i
<1> DEFINE Upto(i) == {j \in S : j <= i}
           c(i) == Cardinality(Upto(i))
<1>0. \A i \in S : i \in Nat /\ 1 <= i /\ i <= m
  OBVIOUS
<1>1. IsFiniteSet(S) /\ Cardinality(S) \in Nat
  <2>1. IsFiniteSet(1 .. m)
    BY FS_Interval
  <2> QED BY <2>1, FS_Subset, FS_CardinalityType
<1>2. \A i \in Nat : IsFiniteSet(Upto(i)) /\ c(i) \in Nat /\ c(i) <= Cardinality(S)
  <2> TAKE i \in Nat
  <2>1. Upto(i) \in SUBSET S
    OBVIOUS
  <2> QED BY <1>1, <2>1, FS_Subset, FS_CardinalityType
<1>3. c(0) = 0 /\ c(m) = Cardinality(S)
  <2>1. Upto(0) = {} /\ Upto(m) = S
    <3>1. \A j \in S : ~(j <= 0) /\ j <= m
      BY <1>0
    <3> QED BY <3>1, Zenon
  <2> QED BY <2>1, FS_EmptySet
<1>4. \A i \in Nat : c(i + 1) = IF i + 1 \in S THEN c(i) + 1 ELSE c(i)
  <2> TAKE i \in Nat
  <2>1. i + 1 \notin Upto(i)
    OBVIOUS
  <2>2. CASE i + 1 \in S
    <3>1. Upto(i + 1) = Upto(i) \cup {i + 1}
      <4>1. \A j \in S : j <= i + 1 <=> (j <= i \/ j = i + 1)
        BY <1>0
      <4> QED BY <2>2, <4>1, Zenon
    <3> QED BY <1>2, <2>1, <2>2, <3>1, FS_AddElement
  <2>3. CASE i + 1 \notin S
    <3>1. Upto(i + 1) = Upto(i)
      <4>1. \A j \in S : j <= i + 1 <=> (j <= i \/ j = i + 1)
        BY <1>0
      <4> QED BY <2>3, <4>1, Zenon
    <3> QED BY <2>3, <3>1
  <2> QED BY <2>2, <2>3
<1>5. \A i \in Nat, j \in S : i < j => c(i) < c(j)
  <2> TAKE i \in Nat, j \in S
  <2> HAVE i < j
  <2>1. j \in Nat /\ j \in Upto(j)
    BY <1>0
  <2>2. Upto(i) \in SUBSET (Upto(j) \ {j})
    <3>1. \A k \in S : k <= i => k <= j /\ k # j
      BY <1>0, <2>1
    <3> QED BY <3>1, Zenon
  <2>3. /\ IsFiniteSet(Upto(j) \ {j})
        /\ Cardinality(Upto(j) \ {j}) = c(j) - 1
    BY <1>2, <2>1, FS_RemoveElement
  <2>4. c(i) <= Cardinality(Upto(j) \ {j})
    BY <2>2, <2>3, FS_Subset
  <2>5. c(i) \in Nat /\ c(j) \in Nat
    BY <1>2, <2>1
  <2> HIDE DEF c
  <2> QED BY <2>3, <2>4, <2>5
<1>6. \A i \in S : c(i) \in 1 .. Cardinality(S)
  <2> TAKE i \in S
  <2>1. i \in Nat /\ 0 < i
    BY <1>0
  <2>2. c(i) \in Nat /\ c(i) <= Cardinality(S)
    BY <1>2, <2>1
  <2>3. c(0) < c(i)
    BY <1>5, <2>1
  <2> HIDE DEF c
  <2> QED BY <1>1, <1>3, <2>2, <2>3
<1>7. \A k \in 1 .. Cardinality(S) : \E i \in S : c(i) = k
  <2> TAKE k \in 1 .. Cardinality(S)
  <2> DEFINE T == {i \in Nat : c(i) >= k}
  <2>1. m \in T
    BY <1>1, <1>3
  <2>2. PICK i \in T : \A j \in T : i <= j
    BY <2>1, Least
  <2>3. i \in Nat /\ c(i) >= k /\ \A j \in Nat : c(j) >= k => i <= j
    BY <2>2
  <2> HIDE DEF c, T
  <2>4. i # 0 /\ i \in Nat
    BY <1>3, <2>3
  <2>5. i - 1 \in Nat /\ i - 1 < i
    BY <2>4
  <2>6. c(i - 1) \in Nat /\ c(i) \in Nat /\ c(i - 1) < k /\ c(i) >= k
    <3>1. c(i - 1) \in Nat /\ c(i) \in Nat
      BY <1>2, <2>5, <2>3 DEF c
    <3>2. ~(c(i - 1) >= k)
      BY <2>5, <2>3
    <3> QED BY <2>3, <3>1, <3>2
  <2>7. c((i - 1) + 1) = IF (i - 1) + 1 \in S THEN c(i - 1) + 1 ELSE c(i - 1)
    BY <1>4, <2>5
  <2>8. (i - 1) + 1 = i
    BY <2>4
  <2>9. c(i) = IF i \in S THEN c(i - 1) + 1 ELSE c(i - 1)
    BY <2>7, <2>8
  <2>10. i \in S /\ c(i) = k
    BY <2>6, <2>9
  <2> QED BY <2>10
<1>8. \A i, j \in S : c(i) = c(j) => i = j
  <2>1. \A i \in S : i \in Nat /\ c(i) \in Nat
    BY <1>0, <1>2
  <2> HIDE DEF c
  <2> QED BY <1>5, <2>1
<1>9. \A k \in 1 .. Cardinality(S) : Place(S, k) \in S /\ c(Place(S, k)) = k
  BY <1>7 DEF Place
<1>10. \A i \in S : Place(S, c(i)) = i
  BY <1>6, <1>8, <1>9
<1>11. ASSUME NEW k \in 1 .. Cardinality(S), NEW l \in 1 .. Cardinality(S), k < l
       PROVE  Place(S, k) < Place(S, l)
  <2>1. /\ Place(S, k) \in S /\ Place(S, l) \in S
        /\ c(Place(S, k)) = k /\ c(Place(S, l)) = l
    BY <1>9
  <2>2. Place(S, k) \in Nat /\ Place(S, l) \in Nat
    BY <1>0, <2>1
  <2> QED BY <1>5, <1>11, <2>1, <2>2
<1> QED BY <1>1, <1>6, <1>9, <1>10, <1>11

\* What Only keeps of a sequence: the elements at the places given, in their order.
LEMMA OnlyFacts ==
    ASSUME NEW T, NEW s \in Seq(T), NEW S \in SUBSET DOMAIN s
    PROVE  /\ Only(s, S) \in Seq(T)
           /\ DOMAIN Only(s, S) = 1 .. Cardinality(S) /\ Cardinality(S) \in Nat
           /\ \A k \in DOMAIN Only(s, S) :
                  Only(s, S)[k] = s[Place(S, k)] /\ Place(S, k) \in S
           /\ \A k, l \in DOMAIN Only(s, S) : k < l => Place(S, k) < Place(S, l)
           /\ \A i \in S : \E k \in DOMAIN Only(s, S) : Place(S, k) = i
<1> DEFINE n == Cardinality(S)
<1>1. Len(s) \in Nat /\ S \in SUBSET (1 .. Len(s)) /\ \A i \in S : s[i] \in T
  OBVIOUS
<1>2. /\ n \in Nat
      /\ \A k \in 1 .. n : Place(S, k) \in S
      /\ \A k, l \in 1 .. n : k < l => Place(S, k) < Place(S, l)
      /\ \A i \in S : \E k \in 1 .. n : Place(S, k) = i
  BY <1>1, PlaceFacts
<1>3. Only(s, S) = [k \in 1 .. n |-> s[Place(S, k)]]
  BY DEF Only
<1> HIDE DEF n
<1>4. Only(s, S) \in [1 .. n -> T]
  BY <1>1, <1>2, <1>3
<1>5. Only(s, S) \in Seq(T)
  BY <1>2, <1>4
<1>6. DOMAIN Only(s, S) = 1 .. n
  BY <1>3
<1> QED BY <1>2, <1>3, <1>5, <1>6 DEF n

\* Reading from a queue, and adding to it.
LEMMA QueueFacts ==
    ASSUME NEW T, NEW q \in Seq(T)
    PROVE  /\ Len(q) \in Nat /\ DOMAIN q = 1 .. Len(q)
           /\ q # <<>> =>
                 /\ Head(q) = q[1] /\ 1 \in DOMAIN q /\ q[1] \in T
                 /\ Tail(q) \in Seq(T) /\ Len(Tail(q)) = Len(q) - 1
                 /\ \A k \in DOMAIN Tail(q) :
                        k + 1 \in DOMAIN q /\ Tail(q)[k] = q[k + 1] /\ k \in Int /\ k >= 1
           /\ \A e \in T : /\ Append(q, e) \in Seq(T) /\ Len(Append(q, e)) = Len(q) + 1
                           /\ DOMAIN Append(q, e) = DOMAIN q \cup {Len(q) + 1}
                           /\ Append(q, e)[Len(q) + 1] = e
                           /\ \A k \in DOMAIN q :
                                  Append(q, e)[k] = q[k] /\ k \in Int /\ k <= Len(q)
OBVIOUS

-----------------------------------------------------------------------------
(***************************************************************************)
(* The invariant.                                                          *)
(***************************************************************************)
\* What is sent and what is watched are arguments of the probe, and what is given
\* to unwatch() is an argument of unwatch().
ArgsSeen ==
    /\ \A k \in DOMAIN ring :
          IF ring[k].act = "attach" THEN ring[k].addr \in Args[ring[k].probe]
                                    ELSE ring[k].addr \in UnwatchArgs
    /\ \A i \in Watches :
          /\ attached_probes_[i].bp \in Args[attached_probes_[i].probe]
          /\ address[attached_probes_[i].probe] \in Args[attached_probes_[i].probe]

\* The shared address of a watched probe is that of one of its watchpoints, and none
\* of another address was attached after it.
LatestAddress ==
    phase # "fatal" =>
        \A i \in Watches :
            \E k \in Watches : /\ i <= k
                               /\ attached_probes_[k].probe = attached_probes_[i].probe
                               /\ attached_probes_[k].bp = address[attached_probes_[i].probe]

\* Without unwatch() the shared address is watched.
Served ==
    (phase = "run" /\ next_unwatch = 0) =>
        /\ \A k \in DOMAIN ring : ring[k].act = "attach"
        /\ \A p \in Probes : address[p] # 0 => IsAttached(Watch(p, address[p]))

Stopping(e) == e.act = "attach" /\ e.probe \notin AsyncProbes
InStop == tracee \in {"stopping", "stopped"}

\* Of a tracee of one thread there is one event to be continued for, that of its call.
OneStop ==
    \A t \in Threads :
        /\ \A k, l \in DOMAIN ring : Stopping(ring[k]) /\ Stopping(ring[l]) => k = l
        /\ \A k \in DOMAIN ring : Stopping(ring[k]) =>
              InStop /\ call[t] = [probe |-> ring[k].probe, arg |-> ring[k].addr]

\* The address of a call is watched or the tracee waits.
Attended ==
    (phase = "run" /\ next_unwatch = 0) =>
        \A t \in Threads, p \in Probes \ AsyncProbes :
            InCall(t, p) => IsAttached(Watch(p, call[t].arg)) \/ InStop
-----------------------------------------------------------------------------
\* SetToSeq gives the elements of the set.
LEMMA SetToSeqType ==
    ASSUME NEW S, IsFiniteSet(S)
    PROVE  Cardinality(S) \in Nat /\ SetToSeq(S) \in [1 .. Cardinality(S) -> S]
<1>1. ExistsBijection(1 .. Cardinality(S), S) /\ Cardinality(S) \in Nat
  BY FS_CardinalityType
<1>2. \E f \in [1 .. Cardinality(S) -> S] : IsInjective(f)
  BY <1>1 DEF ExistsBijection, Bijection, Injection, IsInjective
<1> QED BY <1>1, <1>2 DEF SetToSeq

\* The setup probes are finitely many.
LEMMA SetupsFinite == IsFiniteSet({Setup(p) : p \in Probes})
<1> DEFINE S == {Setup(p) : p \in Probes}
           f == [p \in Probes |-> Setup(p)]
<1>1. f \in Surjection(Probes, S)
  BY DEF Surjection
<1>2. IsFiniteSet(Probes)
  BY WatchAssumption
<1> HIDE DEF f, S
<1>3. IsFiniteSet(S)
  BY <1>1, <1>2, FS_Surjection
<1> QED BY <1>3 DEF S

\* The arguments of a probe are addresses.
LEMMA ArgsAreAddrs ==
    /\ 0 \in Addrs
    /\ \A p \in Probes : Args[p] \subseteq Addrs /\ Args[p] \subseteq Nat
    /\ UnwatchArgs \subseteq Addrs
<1>1. 0 \in Addrs /\ UnwatchArgs \subseteq Addrs
  <2> DEFINE U == UNION {Args[p] : p \in Probes}
  <2>1. Addrs = U \cup UnwatchArgs \cup {0}
    BY DEF Addrs
  <2> HIDE DEF U
  <2> QED BY <2>1
<1>2. \A p \in Probes : Args[p] \subseteq Addrs
  BY Zenon DEF Addrs
<1>3. \A p \in Probes : Args[p] \subseteq Nat
  BY WatchAssumption
<1> QED BY <1>1, <1>2, <1>3

\* The initial states are typed.
LEMMA TypeInit == Init => TypeOK
<1> SUFFICES ASSUME Init PROVE TypeOK
  OBVIOUS
<1> DEFINE S == {Setup(p) : p \in Probes}
<1>1. IsFiniteSet(S)
  BY SetupsFinite
<1>2. S \subseteq Attached
  <2>1. \A p \in Probes : Setup(p) \in Attached
    BY ArgsAreAddrs DEF Setup, Attached
  <2> QED BY <2>1
<1>3. Cardinality(S) \in Nat /\ SetToSeq(S) \in [1 .. Cardinality(S) -> S]
  BY <1>1, SetToSeqType
<1>4. attached_probes_ \in Seq(Attached)
  <2>1. attached_probes_ = SetToSeq(S)
    BY DEF Init
  <2> HIDE DEF S
  <2> QED BY <1>2, <1>3, <2>1
<1>5. address \in [Probes -> Addrs] /\ call \in [Threads -> Calls \cup {Idle}]
  BY ArgsAreAddrs DEF Init
<1>6. next_call \in 0 .. MaxCalls /\ next_unwatch \in 0 .. MaxUnwatch
  BY WatchAssumption DEF Init
<1>7. ring \in Seq(Events) /\ Len(ring) <= RingSize
  BY WatchAssumption DEF Init
<1> QED BY <1>4, <1>5, <1>6, <1>7 DEF Init, TypeOK, Phases

\* Every step keeps the types.
LEMMA TypeStep == TypeOK /\ [Next]_vars => TypeOK'
<1> SUFFICES ASSUME TypeOK, [Next]_vars PROVE TypeOK'
  OBVIOUS
<1>1. /\ address \in [Probes -> Addrs] /\ attached_probes_ \in Seq(Attached)
      /\ ring \in Seq(Events) /\ Len(ring) <= RingSize /\ RingSize \in Nat
      /\ call \in [Threads -> Calls \cup {Idle}]
      /\ next_call \in 0 .. MaxCalls /\ next_unwatch \in 0 .. MaxUnwatch
  BY WatchAssumption DEF TypeOK
<1>2. CASE UNCHANGED vars
  BY <1>2 DEF vars, TypeOK
<1>3. ASSUME NEW e \in Events, CreateOutput(e)
      PROVE  ring' \in Seq(Events) /\ Len(ring') <= RingSize /\ lost' \in BOOLEAN
  <2>1. CASE Len(ring) < RingSize
    BY <1>1, <1>3, <2>1, QueueFacts DEF CreateOutput, TypeOK
  <2>2. CASE ~(Len(ring) < RingSize)
    BY <1>1, <1>3, <2>2 DEF CreateOutput
  <2> QED BY <2>1, <2>2
<1>4. ASSUME ring # <<>>, ring' = Tail(ring)
      PROVE  ring' \in Seq(Events) /\ Len(ring') <= RingSize /\ Head(ring) \in Events
  BY <1>1, <1>4, QueueFacts
<1>5. ASSUME NEW t \in Threads, NEW p \in Probes, NEW a \in Args[p], Enter(t, p, a)
      PROVE  TypeOK'
  <2>1. a \in Addrs
    BY ArgsAreAddrs
  <2>2. [act |-> "attach", probe |-> p, addr |-> a] \in Events
    BY <2>1 DEF Events
  <2>3. ring' \in Seq(Events) /\ Len(ring') <= RingSize /\ lost' \in BOOLEAN
    BY <1>3, <1>5, <2>2 DEF Enter
  <2>4. call' \in [Threads -> Calls \cup {Idle}]
    BY <1>1, <1>5, <2>1 DEF Enter, Calls
  <2>5. next_call' \in 0 .. MaxCalls
    BY <1>1, <1>5, WatchAssumption DEF Enter
  <2>6. tracee' \in {"running", "stopping", "stopped", "dead"}
    BY <1>5 DEF Enter
  <2> QED BY <1>5, <2>3, <2>4, <2>5, <2>6 DEF Enter, TypeOK
<1>6. ASSUME NEW t \in Threads, Leave(t) PROVE TypeOK'
  BY <1>1, <1>6 DEF Leave, TypeOK
<1>7. CASE GroupStop
  BY <1>7 DEF GroupStop, TypeOK
<1>8. ASSUME NEW a \in UnwatchArgs, Unwatch(a) PROVE TypeOK'
  <2>1. [act |-> "detach", addr |-> a] \in Events
    BY ArgsAreAddrs DEF Events
  <2>2. ring' \in Seq(Events) /\ Len(ring') <= RingSize /\ lost' \in BOOLEAN
    BY <1>3, <1>8, <2>1 DEF Unwatch
  <2>3. next_unwatch' \in 0 .. MaxUnwatch
    BY <1>1, <1>8, WatchAssumption DEF Unwatch
  <2> QED BY <1>8, <2>2, <2>3 DEF Unwatch, TypeOK
<1>9. CASE watchpoint_attach
  <2> DEFINE p == Head(ring).probe
             a == Head(ring).addr
  <2>1. ring' \in Seq(Events) /\ Len(ring') <= RingSize /\ Head(ring) \in Events
    BY <1>4, <1>9 DEF watchpoint_attach, Handling
  <2>2. p \in Probes /\ a \in Addrs
    BY <1>9, <2>1 DEF watchpoint_attach, Handling, Events
  <2>3. Watch(p, a) \in Attached
    BY <2>2 DEF Watch, Attached
  <2> HIDE DEF p, a
  <2>4. /\ address' = address \/ address' = [address EXCEPT ![p] = a]
        /\ \/ attached_probes_' = attached_probes_
           \/ attached_probes_' = Append(attached_probes_, Watch(p, a))
        /\ tracee' = tracee \/ tracee' = "running"
        /\ phase' = phase \/ phase' = "fatal"
        /\ UNCHANGED <<call, next_call, next_unwatch, lost>>
    BY <1>9 DEF watchpoint_attach, resume_tracee, p, a
  <2>5. attached_probes_' \in Seq(Attached)
    <3>1. Append(attached_probes_, Watch(p, a)) \in Seq(Attached)
      BY <1>1, <2>3
    <3> QED BY <1>1, <2>4, <3>1
  <2>6. address' \in [Probes -> Addrs]
    BY <1>1, <2>2, <2>4
  <2>7. phase' \in Phases /\ tracee' \in {"running", "stopping", "stopped", "dead"}
    BY <2>4 DEF TypeOK, Phases
  <2> QED BY <2>1, <2>4, <2>5, <2>6, <2>7 DEF TypeOK
<1>10. CASE watchpoint_detach
  <2> DEFINE S == {i \in DOMAIN attached_probes_ :
                      ProbeAddress(attached_probes_[i]) # Head(ring).addr}
  <2>1. ring' \in Seq(Events) /\ Len(ring') <= RingSize
    BY <1>4, <1>10 DEF watchpoint_detach, Handling
  <2>2. attached_probes_' = Only(attached_probes_, S)
    BY <1>10 DEF watchpoint_detach
  <2>3. S \in SUBSET DOMAIN attached_probes_
    OBVIOUS
  <2> HIDE DEF S
  <2>4. attached_probes_' \in Seq(Attached)
    BY <1>1, <2>2, <2>3, OnlyFacts
  <2> QED BY <1>10, <2>1, <2>4 DEF watchpoint_detach, TypeOK
<1>11. CASE Ignore
  <2>1. ring' \in Seq(Events) /\ Len(ring') <= RingSize
    BY <1>4, <1>11 DEF Ignore
  <2> QED BY <1>11, <2>1 DEF Ignore, TypeOK
<1>12. CASE request_finalize
  BY <1>12 DEF request_finalize, TypeOK, Phases
<1>13. CASE LeaveLoop
  BY <1>13 DEF LeaveLoop, TypeOK, Phases
<1>14. CASE Return
  BY <1>14 DEF Return, TypeOK, Phases
<1> QED BY <1>2, <1>5, <1>6, <1>7, <1>8, <1>9, <1>10, <1>11, <1>12, <1>13, <1>14
        DEF Next, Waiting

\* The types hold of every state of a run.
THEOREM WatchTypes == Spec => []TypeOK
BY TypeInit, TypeStep, PTL DEF Spec

\* What watchpoint_detach leaves, and where it was before.
LEMMA DetachFacts ==
    ASSUME TypeOK, watchpoint_detach
    PROVE  \E place \in [DOMAIN attached_probes_' -> DOMAIN attached_probes_] :
              /\ \A k \in DOMAIN attached_probes_' :
                    /\ k \in Nat /\ attached_probes_'[k] = attached_probes_[place[k]]
                    /\ ProbeAddress(attached_probes_[place[k]]) # Head(ring).addr
              /\ \A k, l \in DOMAIN attached_probes_' : k < l => place[k] < place[l]
              /\ \A i \in DOMAIN attached_probes_ :
                    ProbeAddress(attached_probes_[i]) # Head(ring).addr
                        => \E k \in DOMAIN attached_probes_' : place[k] = i
<1> DEFINE S == {i \in DOMAIN attached_probes_ :
                    ProbeAddress(attached_probes_[i]) # Head(ring).addr}
           place == [k \in DOMAIN attached_probes_' |-> Place(S, k)]
<1>1. attached_probes_ \in Seq(Attached) /\ S \in SUBSET DOMAIN attached_probes_
  BY DEF TypeOK
<1>2. attached_probes_' = Only(attached_probes_, S)
  BY DEF watchpoint_detach
<1>3. \A i : i \in S <=> /\ i \in DOMAIN attached_probes_
                       /\ ProbeAddress(attached_probes_[i]) # Head(ring).addr
  OBVIOUS
<1> HIDE DEF S
<1>4. /\ DOMAIN attached_probes_' = 1 .. Cardinality(S) /\ Cardinality(S) \in Nat
      /\ \A k \in DOMAIN attached_probes_' :
            attached_probes_'[k] = attached_probes_[Place(S, k)] /\ Place(S, k) \in S
      /\ \A k, l \in DOMAIN attached_probes_' : k < l => Place(S, k) < Place(S, l)
      /\ \A i \in S : \E k \in DOMAIN attached_probes_' : Place(S, k) = i
  BY <1>1, <1>2, OnlyFacts
<1>5. place \in [DOMAIN attached_probes_' -> DOMAIN attached_probes_]
  BY <1>3, <1>4
<1>6. \A k \in DOMAIN attached_probes_' : k \in Nat /\ place[k] = Place(S, k)
  BY <1>4
<1> HIDE DEF place
<1>7. \A k \in DOMAIN attached_probes_' :
         /\ k \in Nat /\ attached_probes_'[k] = attached_probes_[place[k]]
         /\ ProbeAddress(attached_probes_[place[k]]) # Head(ring).addr
  BY <1>3, <1>4, <1>6
<1>8. \A k, l \in DOMAIN attached_probes_' : k < l => place[k] < place[l]
  BY <1>4, <1>6
<1>9. \A i \in DOMAIN attached_probes_ :
         ProbeAddress(attached_probes_[i]) # Head(ring).addr
             => \E k \in DOMAIN attached_probes_' : place[k] = i
  BY <1>3, <1>4, <1>6
<1> QED BY <1>5, <1>7, <1>8, <1>9

\* What watchpoint_attach may do.
LEMMA AttachFacts ==
    ASSUME TypeOK, ArgsSeen, watchpoint_attach
    PROVE  \E p \in Probes : \E a \in Args[p] :
              /\ ring # <<>> /\ ring' = Tail(ring) /\ phase \in {"run", "drain"}
              /\ ring[1].act = "attach" /\ ring[1].probe = p /\ ring[1].addr = a
              /\ UNCHANGED <<call, next_call, next_unwatch, lost>>
              /\ \/ /\ address[p] = a /\ UNCHANGED <<address, attached_probes_, phase>>
                    /\ resume_tracee(p)
                 \/ /\ address[p] # a /\ address' = [address EXCEPT ![p] = a]
                    /\ \/ CanAttach /\ attached_probes_' = Append(attached_probes_, Watch(p, a))
                       \/ ~CanAttach /\ ~MissingError /\ attached_probes_' = attached_probes_
                    /\ resume_tracee(p) /\ phase' = phase
                 \/ /\ address[p] # a /\ address' = [address EXCEPT ![p] = a]
                    /\ phase' = "fatal" /\ UNCHANGED <<attached_probes_, tracee>>
<1> DEFINE p == Head(ring).probe
           a == Head(ring).addr
<1>1. ring \in Seq(Events) /\ ring # <<>>
  BY DEF TypeOK, watchpoint_attach, Handling
<1>2. Head(ring) = ring[1] /\ 1 \in DOMAIN ring /\ ring[1] \in Events
  BY <1>1, QueueFacts
<1>3. ring[1].act = "attach"
  BY <1>2 DEF watchpoint_attach, Handling
<1>4. p \in Probes /\ a \in Args[p] /\ ring[1].probe = p /\ ring[1].addr = a
  BY <1>2, <1>3 DEF Events, ArgsSeen
<1>5. /\ ring' = Tail(ring) /\ phase \in {"run", "drain"}
      /\ UNCHANGED <<call, next_call, next_unwatch, lost>>
  BY DEF watchpoint_attach, Handling
<1>6. \/ /\ address[p] = a /\ UNCHANGED <<address, attached_probes_, phase>>
         /\ resume_tracee(p)
      \/ /\ address[p] # a /\ address' = [address EXCEPT ![p] = a]
         /\ \/ CanAttach /\ attached_probes_' = Append(attached_probes_, Watch(p, a))
            \/ ~CanAttach /\ ~MissingError /\ attached_probes_' = attached_probes_
         /\ resume_tracee(p) /\ phase' = phase
      \/ /\ address[p] # a /\ address' = [address EXCEPT ![p] = a]
         /\ phase' = "fatal" /\ UNCHANGED <<attached_probes_, tracee>>
  BY Zenon DEF watchpoint_attach, Duplicate
<1> HIDE DEF p, a
<1> QED BY <1>1, <1>3, <1>4, <1>5, <1>6

\* Every step keeps ArgsSeen.
LEMMA ArgsStep == TypeOK /\ ArgsSeen /\ [Next]_vars => ArgsSeen'
<1> SUFFICES ASSUME TypeOK, ArgsSeen, [Next]_vars PROVE ArgsSeen'
  OBVIOUS
<1> DEFINE Fits(e) ==
               IF e.act = "attach" THEN e.addr \in Args[e.probe] ELSE e.addr \in UnwatchArgs
           Right(ap, addresses) ==
               ap.kind = "watch" =>
                   ap.bp \in Args[ap.probe] /\ addresses[ap.probe] \in Args[ap.probe]
<1>1. /\ address \in [Probes -> Addrs] /\ attached_probes_ \in Seq(Attached)
      /\ ring \in Seq(Events)
  BY DEF TypeOK
<1>2. /\ \A k \in DOMAIN ring : Fits(ring[k])
      /\ \A i \in DOMAIN attached_probes_ : Right(attached_probes_[i], address)
  BY DEF ArgsSeen, Watches
<1>3. SUFFICES /\ \A k \in DOMAIN ring' : Fits(ring'[k])
               /\ \A i \in DOMAIN attached_probes_' : Right(attached_probes_'[i], address')
  BY DEF ArgsSeen, Watches
<1>4. ASSUME ring # <<>>, ring' = Tail(ring) PROVE \A k \in DOMAIN ring' : Fits(ring'[k])
  <2> HIDE DEF Fits
  <2> QED BY <1>1, <1>2, <1>4, QueueFacts
<1>5. ASSUME NEW e \in Events, Fits(e), CreateOutput(e)
      PROVE  \A k \in DOMAIN ring' : Fits(ring'[k])
  <2>1. ring' = Append(ring, e) \/ ring' = ring
    BY <1>5 DEF CreateOutput
  <2> HIDE DEF Fits
  <2> QED BY <1>1, <1>2, <1>5, <2>1, QueueFacts
<1>6. CASE UNCHANGED vars
  BY <1>2, <1>6 DEF vars
<1>7. ASSUME NEW t \in Threads, NEW p \in Probes, NEW a \in Args[p], Enter(t, p, a)
      PROVE  /\ \A k \in DOMAIN ring' : Fits(ring'[k])
             /\ UNCHANGED <<attached_probes_, address>>
  <2>1. [act |-> "attach", probe |-> p, addr |-> a] \in Events
    BY ArgsAreAddrs DEF Events
  <2>2. Fits([act |-> "attach", probe |-> p, addr |-> a])
    OBVIOUS
  <2> HIDE DEF Fits
  <2> QED BY <1>5, <1>7, <2>1, <2>2 DEF Enter
<1>8. ASSUME NEW a \in UnwatchArgs, Unwatch(a)
      PROVE  /\ \A k \in DOMAIN ring' : Fits(ring'[k])
             /\ UNCHANGED <<attached_probes_, address>>
  <2>1. [act |-> "detach", addr |-> a] \in Events
    BY ArgsAreAddrs DEF Events
  <2>2. Fits([act |-> "detach", addr |-> a])
    OBVIOUS
  <2> HIDE DEF Fits
  <2> QED BY <1>5, <1>8, <2>1, <2>2 DEF Unwatch
<1>9. CASE watchpoint_attach
  <2>1. PICK p \in Probes : \E a \in Args[p] :
              /\ ring # <<>> /\ ring' = Tail(ring)
              /\ address' = address \/ address' = [address EXCEPT ![p] = a]
              /\ \/ attached_probes_' = attached_probes_
                 \/ /\ attached_probes_' = Append(attached_probes_, Watch(p, a))
                    /\ address' = [address EXCEPT ![p] = a]
    BY <1>9, AttachFacts
  <2>2. PICK a \in Args[p] :
              /\ ring # <<>> /\ ring' = Tail(ring)
              /\ address' = address \/ address' = [address EXCEPT ![p] = a]
              /\ \/ attached_probes_' = attached_probes_
                 \/ /\ attached_probes_' = Append(attached_probes_, Watch(p, a))
                    /\ address' = [address EXCEPT ![p] = a]
    BY <2>1
  <2>3. \A k \in DOMAIN ring' : Fits(ring'[k])
    BY <1>4, <2>2
  <2>4. \A i \in DOMAIN attached_probes_ : attached_probes_[i].probe \in Probes
    <3>1. \A i \in DOMAIN attached_probes_ : attached_probes_[i] \in Attached
      BY <1>1
    <3> QED BY <3>1 DEF Attached
  <2>5. \A i \in DOMAIN attached_probes_ : Right(attached_probes_[i], address')
    BY <1>1, <1>2, <2>2, <2>4
  <2>6. CASE attached_probes_' = Append(attached_probes_, Watch(p, a))
             /\ address' = [address EXCEPT ![p] = a]
    <3>1. Right(Watch(p, a), address')
      BY <1>1, <2>6 DEF Watch
    <3>2. Watch(p, a) \in Attached
      BY ArgsAreAddrs DEF Watch, Attached
    <3> HIDE DEF Right, Fits
    <3>3. \A i \in DOMAIN attached_probes_' : Right(attached_probes_'[i], address')
      <4>1. /\ DOMAIN attached_probes_' = DOMAIN attached_probes_ \cup {Len(attached_probes_) + 1}
            /\ attached_probes_'[Len(attached_probes_) + 1] = Watch(p, a)
            /\ \A k \in DOMAIN attached_probes_ : attached_probes_'[k] = attached_probes_[k]
        BY <1>1, <2>6, <3>2, QueueFacts
      <4> QED BY <2>5, <3>1, <4>1
    <3> QED BY <2>3, <3>3
  <2> QED BY <2>2, <2>3, <2>5, <2>6
<1>10. CASE watchpoint_detach
  <2>1. \A k \in DOMAIN ring' : Fits(ring'[k])
    BY <1>4, <1>10 DEF watchpoint_detach, Handling
  <2>2. address' = address
    BY <1>10 DEF watchpoint_detach
  <2>3. \A k \in DOMAIN attached_probes_' : \E i \in DOMAIN attached_probes_ :
           attached_probes_'[k] = attached_probes_[i]
    BY <1>10, DetachFacts
  <2> HIDE DEF Right
  <2> QED BY <1>2, <2>1, <2>2, <2>3
<1>11. ASSUME attached_probes_' = <<>>
       PROVE  \A i \in DOMAIN attached_probes_' : Right(attached_probes_'[i], address')
  BY <1>11
<1>12. CASE Ignore
  BY <1>2, <1>4, <1>12 DEF Ignore
<1>13. CASE request_finalize \/ LeaveLoop \/ Return
  BY <1>2, <1>11, <1>13 DEF request_finalize, LeaveLoop, Return
<1>14. ASSUME NEW t \in Threads, Leave(t) PROVE UNCHANGED <<attached_probes_, address, ring>>
  BY <1>14 DEF Leave
<1>15. CASE GroupStop
  BY <1>2, <1>15 DEF GroupStop
<1> QED BY <1>2, <1>6, <1>7, <1>8, <1>9, <1>10, <1>12, <1>13, <1>14, <1>15 DEF Next, Waiting

\* How a step may change what is attached.
LEMMA Changes ==
    ASSUME TypeOK, ArgsSeen, [Next]_vars
    PROVE  \/ UNCHANGED <<attached_probes_, address>> /\ (phase' # "fatal" => phase # "fatal")
           \/ attached_probes_' = <<>>
           \/ watchpoint_detach
           \/ \E p \in Probes : \E a \in Args[p] :
                 /\ address[p] # a /\ address' = [address EXCEPT ![p] = a]
                 /\ phase # "fatal"
                 /\ \/ attached_probes_' = Append(attached_probes_, Watch(p, a))
                    \/ /\ attached_probes_' = attached_probes_
                       /\ phase' = "fatal" \/ ~MissingError
<1>1. CASE UNCHANGED vars
  BY <1>1 DEF vars
<1>2. CASE watchpoint_attach
  <2>1. PICK p \in Probes : \E a \in Args[p] :
              /\ phase \in {"run", "drain"}
              /\ \/ UNCHANGED <<address, attached_probes_, phase>>
                 \/ /\ address[p] # a /\ address' = [address EXCEPT ![p] = a]
                    /\ \/ attached_probes_' = Append(attached_probes_, Watch(p, a))
                       \/ ~MissingError /\ attached_probes_' = attached_probes_
                       \/ phase' = "fatal" /\ attached_probes_' = attached_probes_
    BY <1>2, AttachFacts
  <2> QED BY <2>1
<1>3. CASE Ignore \/ GroupStop
  BY <1>3 DEF Ignore, GroupStop
<1>4. CASE request_finalize \/ LeaveLoop \/ Return
  BY <1>4 DEF request_finalize, LeaveLoop, Return
<1>5. ASSUME NEW t \in Threads, NEW p \in Probes, NEW a \in Args[p], Enter(t, p, a)
      PROVE  UNCHANGED <<attached_probes_, address, phase>>
  BY <1>5 DEF Enter
<1>6. ASSUME NEW t \in Threads, Leave(t)
      PROVE  UNCHANGED <<attached_probes_, address, phase>>
  BY <1>6 DEF Leave
<1>7. ASSUME NEW a \in UnwatchArgs, Unwatch(a)
      PROVE  UNCHANGED <<attached_probes_, address, phase>>
  BY <1>7 DEF Unwatch
<1> QED BY <1>1, <1>2, <1>3, <1>4, <1>5, <1>6, <1>7 DEF Next, Waiting

\* One more watchpoint.
LEMMA MoreFacts ==
    ASSUME TypeOK, NEW p \in Probes, NEW a \in Args[p],
           attached_probes_' = Append(attached_probes_, Watch(p, a))
    PROVE  /\ Len(attached_probes_) \in Nat
           /\ Watches' = Watches \cup {Len(attached_probes_) + 1}
           /\ attached_probes_'[Len(attached_probes_) + 1] = Watch(p, a)
           /\ Len(attached_probes_) + 1 \in Nat
           /\ \A i \in Watches : /\ attached_probes_'[i] = attached_probes_[i]
                                 /\ i \in Int /\ i < Len(attached_probes_) + 1
                                 /\ attached_probes_[i].probe \in Probes
                                 /\ attached_probes_[i].kind = "watch"
<1>1. attached_probes_ \in Seq(Attached)
  BY DEF TypeOK
<1>2. Watch(p, a) \in Attached /\ Watch(p, a).kind = "watch"
  BY ArgsAreAddrs DEF Watch, Attached
<1>3. /\ Len(attached_probes_) \in Nat
      /\ DOMAIN attached_probes_' = DOMAIN attached_probes_ \cup {Len(attached_probes_) + 1}
      /\ attached_probes_'[Len(attached_probes_) + 1] = Watch(p, a)
      /\ \A i \in DOMAIN attached_probes_ :
            attached_probes_'[i] = attached_probes_[i] /\ i \in Int /\ i <= Len(attached_probes_)
  BY <1>1, <1>2, QueueFacts
<1>4. \A i \in DOMAIN attached_probes_ : attached_probes_[i].probe \in Probes
  <2>1. \A i \in DOMAIN attached_probes_ : attached_probes_[i] \in Attached
    BY <1>1
  <2> QED BY <2>1 DEF Attached
<1>5. Watches' = Watches \cup {Len(attached_probes_) + 1}
  BY <1>2, <1>3 DEF Watches
<1>6. \A i \in Watches : i \in Int /\ i < Len(attached_probes_) + 1
  BY <1>3 DEF Watches
<1> QED BY <1>3, <1>4, <1>5, <1>6 DEF Watches

\* When the watchpoints of an address go, those of one probe go or stay together.
LEMMA FewerFacts ==
    ASSUME TypeOK, watchpoint_detach
    PROVE  \E place \in [Watches' -> Watches] :
              /\ \A k \in Watches' : k \in Nat /\ attached_probes_'[k] = attached_probes_[place[k]]
              /\ \A k, l \in Watches' : k < l <=> place[k] < place[l]
              /\ \A k \in Watches' : \A i \in Watches :
                    attached_probes_[i].probe = attached_probes_[place[k]].probe
                        => \E l \in Watches' : place[l] = i
              /\ \A i \in Watches : i \in Nat
<1>1. PICK all \in [DOMAIN attached_probes_' -> DOMAIN attached_probes_] :
              /\ \A k \in DOMAIN attached_probes_' :
                    /\ k \in Nat /\ attached_probes_'[k] = attached_probes_[all[k]]
                    /\ ProbeAddress(attached_probes_[all[k]]) # Head(ring).addr
              /\ \A k, l \in DOMAIN attached_probes_' : k < l => all[k] < all[l]
              /\ \A i \in DOMAIN attached_probes_ :
                    ProbeAddress(attached_probes_[i]) # Head(ring).addr
                        => \E k \in DOMAIN attached_probes_' : all[k] = i
  BY DetachFacts
<1> DEFINE place == [k \in Watches' |-> all[k]]
<1>2. \A k \in Watches' : k \in DOMAIN attached_probes_' /\ all[k] \in Watches
  BY <1>1 DEF Watches
<1>3. place \in [Watches' -> Watches] /\ \A k \in Watches' : place[k] = all[k]
  BY <1>2
<1> HIDE DEF place
<1>4. \A i \in Watches : i \in Nat
  <2>1. attached_probes_ \in Seq(Attached)
    BY DEF TypeOK
  <2> QED BY <2>1 DEF Watches
<1>5. \A k \in Watches' : k \in Nat /\ attached_probes_'[k] = attached_probes_[place[k]]
  BY <1>1, <1>2, <1>3
<1>6. \A k, l \in Watches' : k < l => place[k] < place[l]
  BY <1>1, <1>2, <1>3
<1>7. \A k, l \in Watches' : k < l <=> place[k] < place[l]
  <2> TAKE k, l \in Watches'
  <2>1. /\ k \in Nat /\ l \in Nat /\ place[k] \in Nat /\ place[l] \in Nat
        /\ k < l => place[k] < place[l]
        /\ l < k => place[l] < place[k]
    BY <1>3, <1>4, <1>5, <1>6
  <2> QED BY <2>1
<1>8. ASSUME NEW k \in Watches', NEW i \in Watches,
             attached_probes_[i].probe = attached_probes_[place[k]].probe
      PROVE  \E l \in Watches' : place[l] = i
  <2>1. /\ attached_probes_[i].kind = "watch" /\ attached_probes_[place[k]].kind = "watch"
        /\ i \in DOMAIN attached_probes_
    BY <1>3 DEF Watches
  <2>2. ProbeAddress(attached_probes_[i]) = ProbeAddress(attached_probes_[place[k]])
    BY <1>8, <2>1 DEF ProbeAddress
  <2>3. PICK l \in DOMAIN attached_probes_' : all[l] = i
    BY <1>1, <1>2, <1>3, <2>1, <2>2
  <2>4. l \in Watches'
    BY <1>1, <2>1, <2>3 DEF Watches
  <2> QED BY <1>3, <2>3, <2>4
<1> QED BY <1>3, <1>4, <1>5, <1>7, <1>8

\* Every step keeps LatestAddress, when a watchpoint that cannot be attached is an error.
LEMMA LatestStep ==
    ASSUME MissingError = TRUE, TypeOK, ArgsSeen, LatestAddress, [Next]_vars
    PROVE  LatestAddress'
<1> SUFFICES ASSUME phase' # "fatal", NEW i \in Watches'
             PROVE  \E k \in Watches' :
                       /\ i <= k
                       /\ attached_probes_'[k].probe = attached_probes_'[i].probe
                       /\ attached_probes_'[k].bp = address'[attached_probes_'[i].probe]
  BY DEF LatestAddress
<1>1. CASE UNCHANGED <<attached_probes_, address>> /\ phase # "fatal"
  BY <1>1 DEF LatestAddress, Watches
<1>2. CASE attached_probes_' = <<>>
  BY <1>2 DEF Watches
<1>3. CASE watchpoint_detach
  <2>1. address' = address /\ phase # "fatal"
    BY <1>3 DEF watchpoint_detach, Handling
  <2>2. PICK place \in [Watches' -> Watches] :
              /\ \A k \in Watches' : k \in Nat /\ attached_probes_'[k] = attached_probes_[place[k]]
              /\ \A k, l \in Watches' : k < l <=> place[k] < place[l]
              /\ \A k \in Watches' : \A j \in Watches :
                    attached_probes_[j].probe = attached_probes_[place[k]].probe
                        => \E l \in Watches' : place[l] = j
              /\ \A j \in Watches : j \in Nat
    BY <1>3, FewerFacts
  <2>3. PICK m \in Watches :
              /\ place[i] <= m
              /\ attached_probes_[m].probe = attached_probes_[place[i]].probe
              /\ attached_probes_[m].bp = address[attached_probes_[place[i]].probe]
    BY <2>1, <2>2 DEF LatestAddress
  <2>4. PICK k \in Watches' : place[k] = m
    BY <2>2, <2>3
  <2>5. i <= k
    <3>1. /\ i \in Nat /\ k \in Nat /\ place[i] \in Nat /\ place[k] \in Nat
          /\ k < i <=> place[k] < place[i]
      BY <2>2
    <3> QED BY <2>3, <2>4, <3>1
  <2> QED BY <2>1, <2>2, <2>3, <2>4, <2>5
<1>4. ASSUME NEW p \in Probes, NEW a \in Args[p],
             address' = [address EXCEPT ![p] = a], phase # "fatal",
             attached_probes_' = Append(attached_probes_, Watch(p, a))
      PROVE  \E k \in Watches' :
                /\ i <= k
                /\ attached_probes_'[k].probe = attached_probes_'[i].probe
                /\ attached_probes_'[k].bp = address'[attached_probes_'[i].probe]
  <2> DEFINE n == Len(attached_probes_) + 1
  <2>1. /\ n \in Nat
        /\ Watches' = Watches \cup {n}
        /\ attached_probes_'[n] = Watch(p, a)
        /\ \A j \in Watches : /\ attached_probes_'[j] = attached_probes_[j]
                              /\ j \in Int /\ j < n
                              /\ attached_probes_[j].probe \in Probes
    BY <1>4, MoreFacts
  <2>2. address \in [Probes -> Addrs] /\ Watch(p, a).probe = p /\ Watch(p, a).bp = a
    BY DEF TypeOK, Watch
  <2> HIDE DEF n
  <2>3. CASE attached_probes_'[i].probe = p
    <3>1. i <= n
      BY <2>1
    <3>2. address'[p] = a
      BY <1>4, <2>2
    <3> QED BY <2>1, <2>2, <2>3, <3>1, <3>2
  <2>4. CASE attached_probes_'[i].probe # p
    <3>1. i \in Watches
      BY <2>1, <2>2, <2>4
    <3>2. PICK k \in Watches :
                /\ i <= k
                /\ attached_probes_[k].probe = attached_probes_[i].probe
                /\ attached_probes_[k].bp = address[attached_probes_[i].probe]
      BY <1>4, <3>1 DEF LatestAddress
    <3>3. address'[attached_probes_[i].probe] = address[attached_probes_[i].probe]
      BY <1>4, <2>1, <2>2, <2>4, <3>1
    <3> QED BY <2>1, <3>1, <3>2, <3>3
  <2> QED BY <2>3, <2>4
<1> QED BY <1>1, <1>2, <1>3, <1>4, Changes

\* Every step keeps RepeatedOnlyAfterAnother, in the same case.
LEMMA RepeatedStep ==
    ASSUME TypeOK, ArgsSeen, LatestAddress, RepeatedOnlyAfterAnother, [Next]_vars
    PROVE  RepeatedOnlyAfterAnother'
<1> SUFFICES ASSUME NEW i \in Watches', NEW j \in Watches', i < j,
                    attached_probes_'[i] = attached_probes_'[j]
             PROVE  \E k \in Watches' : /\ i < k /\ k < j
                                        /\ attached_probes_'[k].probe = attached_probes_'[i].probe
                                        /\ attached_probes_'[k].bp # attached_probes_'[i].bp
  BY DEF RepeatedOnlyAfterAnother
<1>1. CASE attached_probes_' = attached_probes_
  BY <1>1 DEF RepeatedOnlyAfterAnother, Watches
<1>2. CASE attached_probes_' = <<>>
  BY <1>2 DEF Watches
<1>3. CASE watchpoint_detach
  <2>1. PICK place \in [Watches' -> Watches] :
              /\ \A k \in Watches' : k \in Nat /\ attached_probes_'[k] = attached_probes_[place[k]]
              /\ \A k, l \in Watches' : k < l <=> place[k] < place[l]
              /\ \A k \in Watches' : \A m \in Watches :
                    attached_probes_[m].probe = attached_probes_[place[k]].probe
                        => \E l \in Watches' : place[l] = m
              /\ \A m \in Watches : m \in Nat
    BY <1>3, FewerFacts
  <2>2. place[i] < place[j] /\ attached_probes_[place[i]] = attached_probes_[place[j]]
    BY <2>1
  <2>3. PICK m \in Watches :
              /\ place[i] < m /\ m < place[j]
              /\ attached_probes_[m].probe = attached_probes_[place[i]].probe
              /\ attached_probes_[m].bp # attached_probes_[place[i]].bp
    BY <2>1, <2>2 DEF RepeatedOnlyAfterAnother
  <2>4. PICK k \in Watches' : place[k] = m
    BY <2>1, <2>3
  <2> QED BY <2>1, <2>3, <2>4
<1>4. ASSUME NEW p \in Probes, NEW a \in Args[p], address[p] # a, phase # "fatal",
             attached_probes_' = Append(attached_probes_, Watch(p, a))
      PROVE  \E k \in Watches' : /\ i < k /\ k < j
                                 /\ attached_probes_'[k].probe = attached_probes_'[i].probe
                                 /\ attached_probes_'[k].bp # attached_probes_'[i].bp
  <2> DEFINE n == Len(attached_probes_) + 1
  <2>1. /\ n \in Nat
        /\ Watches' = Watches \cup {n}
        /\ attached_probes_'[n] = Watch(p, a)
        /\ \A m \in Watches : /\ attached_probes_'[m] = attached_probes_[m]
                              /\ m \in Int /\ m < n
    BY <1>4, MoreFacts
  <2>2. Watch(p, a).probe = p /\ Watch(p, a).bp = a
    BY DEF Watch
  <2> HIDE DEF n
  <2>3. i \in Watches
    BY <2>1
  <2>4. CASE j \in Watches
    <3>1. PICK k \in Watches : /\ i < k /\ k < j
                              /\ attached_probes_[k].probe = attached_probes_[i].probe
                              /\ attached_probes_[k].bp # attached_probes_[i].bp
      BY <2>1, <2>3, <2>4 DEF RepeatedOnlyAfterAnother
    <3> QED BY <2>1, <2>3, <3>1
  <2>5. CASE j = n
    <3>1. attached_probes_[i].probe = p /\ attached_probes_[i].bp = a
      BY <2>1, <2>2, <2>3, <2>5
    <3>2. PICK k \in Watches : /\ i <= k /\ attached_probes_[k].probe = p
                              /\ attached_probes_[k].bp = address[p]
      BY <1>4, <2>3, <3>1 DEF LatestAddress
    <3>3. i < k /\ k < j
      <4>1. k # i
        BY <1>4, <3>1, <3>2
      <4>2. i \in Int /\ k \in Int /\ k < n
        BY <2>1, <2>3
      <4> QED BY <2>5, <3>2, <4>1, <4>2
    <3>4. k \in Watches' /\ attached_probes_'[k] = attached_probes_[k]
          /\ attached_probes_'[i] = attached_probes_[i]
      BY <2>1, <2>3, <3>2
    <3>5. attached_probes_[k].probe = attached_probes_[i].probe
          /\ attached_probes_[k].bp # attached_probes_[i].bp
      BY <1>4, <3>1, <3>2
    <3> QED BY <3>3, <3>4, <3>5, Zenon
  <2> QED BY <2>1, <2>4, <2>5
<1> QED BY <1>1, <1>2, <1>3, <1>4, Changes

\* In the next state ap is among the attached probes.
StillAttached(ap) == \E i \in DOMAIN attached_probes_' : attached_probes_'[i] = ap

\* Without unwatch() nothing is detached while the run goes on.
LEMMA Calm ==
    ASSUME TypeOK, ArgsSeen, Served, [Next]_vars, phase' = "run", next_unwatch' = 0
    PROVE  /\ phase = "run" /\ next_unwatch = 0
           /\ \A ap : IsAttached(ap) => StillAttached(ap)
           /\ \A k \in DOMAIN ring' : ring'[k].act = "attach"
<1>1. ring \in Seq(Events) /\ attached_probes_ \in Seq(Attached) /\ next_unwatch \in Nat
  BY DEF TypeOK
<1>2. ASSUME phase = "run", next_unwatch = 0, attached_probes_' = attached_probes_
      PROVE  \A ap : IsAttached(ap) => StillAttached(ap)
  BY <1>2 DEF IsAttached, StillAttached
<1>3. ASSUME phase = "run", next_unwatch = 0 PROVE \A k \in DOMAIN ring : ring[k].act = "attach"
  BY <1>3 DEF Served
<1>4. ASSUME phase = "run", next_unwatch = 0, ring' = Tail(ring), ring # <<>>
      PROVE  \A k \in DOMAIN ring' : ring'[k].act = "attach"
  BY <1>1, <1>3, <1>4, QueueFacts
<1>5. CASE UNCHANGED vars
  BY <1>2, <1>3, <1>5 DEF vars
<1>6. ASSUME NEW t \in Threads, NEW p \in Probes, NEW a \in Args[p], Enter(t, p, a)
      PROVE  /\ UNCHANGED <<phase, next_unwatch, attached_probes_>>
             /\ next_unwatch = 0 => \A k \in DOMAIN ring' : ring'[k].act = "attach"
  <2> DEFINE e == [act |-> "attach", probe |-> p, addr |-> a]
  <2>1. e \in Events /\ e.act = "attach"
    BY ArgsAreAddrs DEF Events
  <2>2. ring' = Append(ring, e) \/ ring' = ring
    BY <1>6 DEF Enter, CreateOutput
  <2>3. UNCHANGED <<phase, next_unwatch, attached_probes_>>
    BY <1>6 DEF Enter
  <2> HIDE DEF e
  <2>4. ASSUME next_unwatch = 0 PROVE \A k \in DOMAIN ring' : ring'[k].act = "attach"
    <3>1. phase = "run"
      BY <2>3
    <3>2. \A k \in DOMAIN ring : ring[k].act = "attach"
      BY <1>3, <2>4, <3>1
    <3>3. CASE ring' = Append(ring, e)
      <4>1. /\ DOMAIN ring' = DOMAIN ring \cup {Len(ring) + 1} /\ ring'[Len(ring) + 1] = e
            /\ \A k \in DOMAIN ring : ring'[k] = ring[k]
        BY <1>1, <2>1, <3>3, QueueFacts
      <4> QED BY <2>1, <3>2, <4>1
    <3> QED BY <2>2, <3>2, <3>3
  <2> QED BY <2>3, <2>4
<1>7. ASSUME NEW t \in Threads, Leave(t)
      PROVE  UNCHANGED <<phase, next_unwatch, attached_probes_, ring>>
  BY <1>7 DEF Leave
<1>8. ASSUME NEW a \in UnwatchArgs, Unwatch(a) PROVE FALSE
  <2>1. next_unwatch' = next_unwatch + 1
    BY <1>8 DEF Unwatch
  <2> QED BY <1>1, <2>1
<1>9. CASE GroupStop
  BY <1>2, <1>3, <1>9 DEF GroupStop
<1>10. CASE watchpoint_attach
  <2>1. PICK p \in Probes : \E a \in Args[p] :
              /\ ring # <<>> /\ ring' = Tail(ring) /\ phase \in {"run", "drain"}
              /\ next_unwatch' = next_unwatch
              /\ phase' = phase \/ phase' = "fatal"
              /\ \/ attached_probes_' = attached_probes_
                 \/ attached_probes_' = Append(attached_probes_, Watch(p, a))
    BY <1>10, AttachFacts
  <2>2. PICK a \in Args[p] : \/ attached_probes_' = attached_probes_
                            \/ attached_probes_' = Append(attached_probes_, Watch(p, a))
    BY <2>1
  <2>3. phase = "run" /\ next_unwatch = 0
    BY <2>1
  <2>4. Watch(p, a) \in Attached
    BY ArgsAreAddrs DEF Watch, Attached
  <2>5. \A ap : IsAttached(ap) => StillAttached(ap)
    BY <1>1, <2>2, <2>4, QueueFacts DEF IsAttached, StillAttached
  <2> QED BY <1>4, <2>1, <2>3, <2>5
<1>11. CASE watchpoint_detach
  <2>1. /\ phase = "run" /\ next_unwatch = 0
        /\ ring # <<>> /\ Head(ring).act = "detach"
    BY <1>11 DEF watchpoint_detach, Handling
  <2> QED BY <1>1, <1>3, <2>1, QueueFacts
<1>12. CASE Ignore \/ request_finalize \/ LeaveLoop \/ Return
  BY <1>12 DEF Ignore, request_finalize, LeaveLoop, Return
<1> QED BY <1>2, <1>3, <1>5, <1>6, <1>7, <1>8, <1>9, <1>10, <1>11, <1>12 DEF Next, Waiting

\* Every step keeps Served.
LEMMA ServedStep ==
    ASSUME MissingError = TRUE, TypeOK, ArgsSeen, Served, [Next]_vars
    PROVE  Served'
<1> SUFFICES ASSUME phase' = "run", next_unwatch' = 0
             PROVE  /\ \A k \in DOMAIN ring' : ring'[k].act = "attach"
                    /\ \A p \in Probes : address'[p] # 0 => StillAttached(Watch(p, address'[p]))
  BY DEF Served, IsAttached, StillAttached, Watch
<1>1. /\ phase = "run" /\ next_unwatch = 0
      /\ \A ap : IsAttached(ap) => StillAttached(ap)
      /\ \A k \in DOMAIN ring' : ring'[k].act = "attach"
  BY Calm
<1>2. ASSUME NEW p \in Probes, address'[p] # 0 PROVE StillAttached(Watch(p, address'[p]))
  <2>1. CASE address' = address
    <3>1. IsAttached(Watch(p, address[p]))
      BY <1>1, <1>2, <2>1 DEF Served
    <3> QED BY <1>1, <2>1, <3>1
  <2>2. CASE address' # address
    <3>1. PICK q \in Probes : \E a \in Args[q] :
                /\ address' = [address EXCEPT ![q] = a]
                /\ attached_probes_' = Append(attached_probes_, Watch(q, a))
      <4>1. ~watchpoint_detach
        BY <2>2 DEF watchpoint_detach
      <4>2. watchpoint_attach
        BY <2>2, <4>1 DEF Next, Waiting, vars, Enter, Leave, GroupStop, Unwatch, Ignore,
                          request_finalize, LeaveLoop, Return
      <4> QED BY <2>2, <4>2, AttachFacts
    <3>2. PICK a \in Args[q] : /\ address' = [address EXCEPT ![q] = a]
                              /\ attached_probes_' = Append(attached_probes_, Watch(q, a))
      BY <3>1
    <3>3. address \in [Probes -> Addrs]
      BY DEF TypeOK
    <3>4. CASE q = p
      <4>1. attached_probes_'[Len(attached_probes_) + 1] = Watch(p, a)
            /\ Len(attached_probes_) + 1 \in DOMAIN attached_probes_'
        BY <3>2, <3>4, MoreFacts DEF Watches
      <4>2. address'[p] = a
        BY <3>2, <3>3, <3>4
      <4> QED BY <4>1, <4>2 DEF StillAttached
    <3>5. CASE q # p
      <4>1. address'[p] = address[p]
        BY <3>2, <3>3, <3>5
      <4>2. IsAttached(Watch(p, address[p]))
        BY <1>1, <1>2, <4>1 DEF Served
      <4> QED BY <1>1, <4>1, <4>2
    <3> QED BY <3>4, <3>5
  <2> QED BY <2>1, <2>2
<1> QED BY <1>1, <1>2

\* Every step keeps OneStop, of a tracee of one thread that passes no null pointer.
LEMMA OneStopStep ==
    ASSUME NEW t, Threads = {t}, \A p \in Probes : 0 \notin Args[p],
           TypeOK, ArgsSeen, OneStop, [Next]_vars
    PROVE  OneStop'
<1> DEFINE One(queue) ==
               \A k, l \in DOMAIN queue : Stopping(queue[k]) /\ Stopping(queue[l]) => k = l
           OfCall(queue, c) == \A k \in DOMAIN queue : Stopping(queue[k]) =>
                                  c[t] = [probe |-> queue[k].probe, arg |-> queue[k].addr]
           None(queue) == \A k \in DOMAIN queue : ~Stopping(queue[k])
<1>1. /\ ring \in Seq(Events) /\ call \in [Threads -> Calls \cup {Idle}]
      /\ One(ring) /\ OfCall(ring, call) /\ (InStop \/ None(ring))
  BY DEF TypeOK, OneStop
<1>2. SUFFICES One(ring') /\ OfCall(ring', call') /\ (InStop' \/ None(ring'))
  BY DEF OneStop, Stopping
<1>3. ASSUME ring # <<>>, ring' = Tail(ring), call' = call
      PROVE  One(ring') /\ OfCall(ring', call') /\ (None(ring) => None(ring'))
  <2>1. \A k \in DOMAIN ring' : k + 1 \in DOMAIN ring /\ ring'[k] = ring[k + 1] /\ k \in Int
    BY <1>1, <1>3, QueueFacts
  <2>2. One(ring')
    <3> SUFFICES ASSUME NEW k \in DOMAIN ring', NEW l \in DOMAIN ring',
                        Stopping(ring'[k]), Stopping(ring'[l])
                 PROVE  k = l
      OBVIOUS
    <3>1. k + 1 = l + 1
      BY <1>1, <2>1
    <3> QED BY <2>1, <3>1
  <2> QED BY <1>1, <1>3, <2>1, <2>2
<1>4. ASSUME NEW e \in Events, CreateOutput(e), None(ring) \/ ~Stopping(e)
      PROVE  /\ One(ring')
             /\ ~Stopping(e) => (OfCall(ring', call) /\ (None(ring) => None(ring')))
             /\ (None(ring) /\ Stopping(e)) =>
                   \A c : c[t] = [probe |-> e.probe, arg |-> e.addr] => OfCall(ring', c)
  <2>1. ring' = Append(ring, e) \/ ring' = ring
    BY <1>4 DEF CreateOutput
  <2>2. CASE ring' = ring
    BY <1>1, <2>2
  <2>3. CASE ring' = Append(ring, e)
    <3>1. /\ DOMAIN ring' = DOMAIN ring \cup {Len(ring) + 1} /\ ring'[Len(ring) + 1] = e
          /\ \A k \in DOMAIN ring : ring'[k] = ring[k]
      BY <1>1, <2>3, QueueFacts
    <3> QED BY <1>1, <1>4, <3>1
  <2> QED BY <2>1, <2>2, <2>3
<1>5. CASE UNCHANGED vars
  BY <1>1, <1>5 DEF vars, InStop
<1>6. ASSUME NEW p \in Probes, NEW a \in Args[p], Enter(t, p, a)
      PROVE  One(ring') /\ OfCall(ring', call') /\ (InStop' \/ None(ring'))
  <2> DEFINE e == [act |-> "attach", probe |-> p, addr |-> a]
  <2>1. e \in Events /\ (Stopping(e) <=> p \notin AsyncProbes) /\ e.probe = p /\ e.addr = a
    BY ArgsAreAddrs DEF Events, Stopping
  <2>2. /\ call[t] = Idle /\ CreateOutput(e)
        /\ tracee' = IF p \in AsyncProbes THEN tracee ELSE "stopping"
        /\ call' = [call EXCEPT ![t] = [probe |-> p, arg |-> a]]
    BY <1>6 DEF Enter
  <2>3. None(ring)
    <3> SUFFICES ASSUME NEW k \in DOMAIN ring, Stopping(ring[k]) PROVE FALSE
      OBVIOUS
    <3>1. call[t].arg = ring[k].addr
      BY <1>1
    <3>2. ring[k].addr \in Args[ring[k].probe] /\ ring[k].probe \in Probes
      <4>1. ring[k] \in Events /\ ring[k].act = "attach"
        BY <1>1 DEF Stopping
      <4> QED BY <4>1 DEF ArgsSeen, Events
    <3> QED BY <2>2, <3>1, <3>2 DEF Idle
  <2>4. call'[t] = [probe |-> p, arg |-> a]
    BY <1>1, <2>2
  <2> HIDE DEF e
  <2>5. CASE Stopping(e)
    <3>1. InStop'
      BY <2>1, <2>2, <2>5 DEF InStop
    <3> QED BY <1>4, <2>1, <2>2, <2>3, <2>4, <2>5, <3>1
  <2>6. CASE ~Stopping(e)
    <3>1. One(ring') /\ None(ring')
      BY <1>4, <2>1, <2>2, <2>3, <2>6
    <3> QED BY <3>1
  <2> QED BY <2>5, <2>6
<1>7. CASE Leave(t)
  <2>1. None(ring) /\ ring' = ring
    BY <1>1, <1>7 DEF Leave, InStop
  <2> QED BY <2>1
<1>8. CASE GroupStop
  BY <1>1, <1>8 DEF GroupStop, InStop
<1>9. ASSUME NEW a \in UnwatchArgs, Unwatch(a)
      PROVE  One(ring') /\ OfCall(ring', call') /\ (InStop' \/ None(ring'))
  <2> DEFINE e == [act |-> "detach", addr |-> a]
  <2>1. e \in Events /\ ~Stopping(e)
    BY ArgsAreAddrs DEF Events, Stopping
  <2>2. CreateOutput(e) /\ call' = call /\ tracee' = tracee
    BY <1>9 DEF Unwatch
  <2> HIDE DEF e
  <2> QED BY <1>1, <1>4, <2>1, <2>2 DEF InStop
<1>10. CASE watchpoint_attach
  <2>1. PICK p \in Probes :
              /\ ring # <<>> /\ ring' = Tail(ring) /\ call' = call
              /\ ring[1].act = "attach" /\ ring[1].probe = p
              /\ resume_tracee(p) \/ tracee' = tracee
    BY <1>10, AttachFacts
  <2>2. One(ring') /\ OfCall(ring', call') /\ (None(ring) => None(ring'))
    BY <1>3, <2>1
  <2>3. CASE p \in AsyncProbes \/ tracee' = tracee
    <3>1. InStop' <=> InStop
      BY <2>1, <2>3 DEF resume_tracee, InStop
    <3> QED BY <1>1, <2>2, <3>1
  <2>4. CASE p \notin AsyncProbes
    <3>1. /\ Stopping(ring[1]) /\ 1 \in DOMAIN ring
          /\ \A k \in DOMAIN ring' : k + 1 \in DOMAIN ring /\ ring'[k] = ring[k + 1]
                                   /\ k \in Int /\ k >= 1
      BY <1>1, <2>1, <2>4, QueueFacts DEF Stopping
    <3>2. None(ring')
      <4> SUFFICES ASSUME NEW k \in DOMAIN ring', Stopping(ring'[k]) PROVE FALSE
        OBVIOUS
      <4>1. k + 1 = 1
        BY <1>1, <3>1
      <4> QED BY <3>1, <4>1
    <3> QED BY <2>2, <3>2
  <2> QED BY <2>3, <2>4
<1>11. CASE watchpoint_detach \/ Ignore
  <2>1. ring # <<>> /\ ring' = Tail(ring) /\ call' = call /\ tracee' = tracee
    BY <1>11 DEF watchpoint_detach, Ignore, Handling
  <2> QED BY <1>1, <1>3, <2>1 DEF InStop
<1>12. CASE request_finalize \/ LeaveLoop
  BY <1>1, <1>12 DEF request_finalize, LeaveLoop, InStop
<1>13. CASE Return
  <2>1. ring' = <<>> /\ DOMAIN ring' = {}
    BY <1>13 DEF Return
  <2> QED BY <2>1
<1> QED BY <1>5, <1>6, <1>7, <1>8, <1>9, <1>10, <1>11, <1>12, <1>13 DEF Next, Waiting

\* Every step keeps Attended.
LEMMA AttendedStep ==
    ASSUME NEW t, Threads = {t}, \A p \in Probes : 0 \notin Args[p], MissingError = TRUE,
           TypeOK, ArgsSeen, Served, OneStop, Attended, [Next]_vars
    PROVE  Attended'
<1> SUFFICES ASSUME phase' = "run", next_unwatch' = 0,
                    NEW q \in Probes \ AsyncProbes,
                    call'[t] # Idle, call'[t].probe = q
             PROVE  StillAttached(Watch(q, call'[t].arg)) \/ InStop'
  BY DEF Attended, InCall, IsAttached, StillAttached, Watch
<1>1. /\ phase = "run" /\ next_unwatch = 0
      /\ \A ap : IsAttached(ap) => StillAttached(ap)
  BY Calm
<1>2. ASSUME call' = call PROVE IsAttached(Watch(q, call'[t].arg)) \/ InStop
  BY <1>1, <1>2 DEF Attended, InCall
<1>3. ASSUME call' = call, InStop => InStop'
      PROVE  StillAttached(Watch(q, call'[t].arg)) \/ InStop'
  BY <1>1, <1>2, <1>3
<1>4. CASE UNCHANGED vars
  BY <1>3, <1>4 DEF vars, InStop
<1>5. ASSUME NEW p \in Probes, NEW a \in Args[p], Enter(t, p, a) PROVE InStop'
  <2>1. call' = [call EXCEPT ![t] = [probe |-> p, arg |-> a]]
        /\ tracee' = IF p \in AsyncProbes THEN tracee ELSE "stopping"
    BY <1>5 DEF Enter
  <2>2. p = q
    BY <2>1 DEF TypeOK
  <2> QED BY <2>1, <2>2 DEF InStop
<1>6. CASE Leave(t)
  <2>1. call'[t] = Idle
    BY <1>6 DEF Leave, TypeOK
  <2> QED BY <2>1
<1>7. CASE GroupStop
  BY <1>3, <1>7 DEF GroupStop, InStop
<1>8. ASSUME NEW a \in UnwatchArgs, Unwatch(a) PROVE call' = call /\ tracee' = tracee
  BY <1>8 DEF Unwatch
<1>9. CASE watchpoint_attach
  <2>1. PICK p \in Probes : \E a \in Args[p] :
              /\ ring # <<>> /\ call' = call
              /\ ring[1].act = "attach" /\ ring[1].probe = p /\ ring[1].addr = a
              /\ resume_tracee(p)
              /\ \/ address[p] = a
                 \/ attached_probes_' = Append(attached_probes_, Watch(p, a))
    BY <1>9, AttachFacts
  <2>2. PICK a \in Args[p] :
              /\ ring # <<>> /\ call' = call
              /\ ring[1].act = "attach" /\ ring[1].probe = p /\ ring[1].addr = a
              /\ resume_tracee(p)
              /\ \/ address[p] = a
                 \/ attached_probes_' = Append(attached_probes_, Watch(p, a))
    BY <2>1
  <2>3. CASE p \in AsyncProbes
    BY <1>3, <2>2, <2>3 DEF resume_tracee, InStop
  <2>4. CASE p \notin AsyncProbes
    <3>1. 1 \in DOMAIN ring /\ Stopping(ring[1])
      BY <2>2, <2>4, QueueFacts DEF TypeOK, Stopping
    <3>2. call[t] = [probe |-> p, arg |-> a]
      BY <2>2, <3>1 DEF OneStop
    <3>3. q = p /\ call'[t].arg = a
      BY <2>2, <3>2
    <3>4. CASE address[p] = a
      <4>1. address[p] # 0
        BY <3>4
      <4>2. IsAttached(Watch(p, a))
        BY <1>1, <3>4, <4>1 DEF Served
      <4> QED BY <1>1, <3>3, <4>2
    <3>5. CASE attached_probes_' = Append(attached_probes_, Watch(p, a))
      <4>1. attached_probes_'[Len(attached_probes_) + 1] = Watch(p, a)
            /\ Len(attached_probes_) + 1 \in DOMAIN attached_probes_'
        BY <3>5, MoreFacts DEF Watches
      <4> QED BY <3>3, <4>1 DEF StillAttached
    <3> QED BY <2>2, <3>4, <3>5
  <2> QED BY <2>3, <2>4
<1>10. CASE watchpoint_detach \/ Ignore
  BY <1>3, <1>10 DEF watchpoint_detach, Ignore, InStop
<1>11. CASE request_finalize \/ LeaveLoop \/ Return
  BY <1>11 DEF request_finalize, LeaveLoop, Return
<1> QED BY <1>3, <1>4, <1>5, <1>6, <1>7, <1>8, <1>9, <1>10, <1>11 DEF Next, Waiting, InStop

-----------------------------------------------------------------------------
\* In the initial states nothing is sent or watched.
LEMMA InvInit ==
    Init => ArgsSeen /\ LatestAddress /\ RepeatedOnlyAfterAnother
                /\ Served /\ OneStop /\ Attended
<1> SUFFICES ASSUME Init
             PROVE  ArgsSeen /\ LatestAddress /\ RepeatedOnlyAfterAnother
                        /\ Served /\ OneStop /\ Attended
  OBVIOUS
<1>1. Watches = {}
  <2> DEFINE S == {Setup(p) : p \in Probes}
  <2>1. IsFiniteSet(S)
    BY SetupsFinite
  <2>2. \A ap \in S : ap.kind = "setup"
    BY DEF Setup
  <2>3. attached_probes_ = SetToSeq(S)
    BY DEF Init
  <2> HIDE DEF S
  <2>4. SetToSeq(S) \in [1 .. Cardinality(S) -> S]
    BY <2>1, SetToSeqType
  <2> QED BY <2>2, <2>3, <2>4 DEF Watches
<1>2. ring = <<>> /\ DOMAIN ring = {} /\ \A p \in Probes : address[p] = 0
  BY DEF Init
<1>3. \A t \in Threads : call[t] = Idle
  BY DEF Init
<1> QED BY <1>1, <1>2, <1>3 DEF ArgsSeen, LatestAddress, RepeatedOnlyAfterAnother, Served,
                                OneStop, Attended, InCall

\* Types and arguments, in every state of a run.
LEMMA ArgsInvariant == Spec => [](TypeOK /\ ArgsSeen)
BY TypeInit, InvInit, TypeStep, ArgsStep, PTL DEF Spec

\* unwatch(addr) takes the watchpoints of addr from a function that is called with one
\* address, and takes no setup probe, whatever else is attached: provided that no
\* unwatch(0) is made, the address setup probes have.
THEOREM UnwatchTakesOne == ASSUME 0 \notin UnwatchArgs PROVE Spec => UnwatchOne
<1>1. TypeOK /\ ArgsSeen => DetachesOne
  <2> SUFFICES ASSUME TypeOK, ArgsSeen, watchpoint_detach,
                      NEW i \in DOMAIN attached_probes_
               PROVE  LET ap == attached_probes_[i]
                          Stays == \E j \in DOMAIN attached_probes_' : attached_probes_'[j] = ap
                      IN  /\ ap.kind = "setup" => Stays
                          /\ (ap.kind = "watch" /\ OneAddress(ap.probe))
                                => (Stays <=> ap.bp # Head(ring).addr)
    BY DEF DetachesOne
  <2> DEFINE ap == attached_probes_[i]
             addr == Head(ring).addr
             Stays == \E j \in DOMAIN attached_probes_' : attached_probes_'[j] = ap
  <2>1. attached_probes_ \in Seq(Attached) /\ ap \in Attached
    BY DEF TypeOK
  <2>2. addr \in UnwatchArgs
    <3>1. ring \in Seq(Events) /\ ring # <<>> /\ Head(ring).act = "detach"
      BY DEF TypeOK, watchpoint_detach, Handling
    <3>2. Head(ring) = ring[1] /\ 1 \in DOMAIN ring
      BY <3>1, QueueFacts
    <3> QED BY <3>1, <3>2 DEF ArgsSeen
  <2>3. PICK place \in [DOMAIN attached_probes_' -> DOMAIN attached_probes_] :
              /\ \A k \in DOMAIN attached_probes_' :
                    /\ attached_probes_'[k] = attached_probes_[place[k]]
                    /\ ProbeAddress(attached_probes_[place[k]]) # addr
              /\ \A j \in DOMAIN attached_probes_ :
                    ProbeAddress(attached_probes_[j]) # addr
                        => \E k \in DOMAIN attached_probes_' : place[k] = j
    BY DetachFacts
  <2> HIDE DEF addr
  <2>4. ProbeAddress(ap) # addr => Stays
    BY <2>3
  <2>5. Stays => ProbeAddress(ap) # addr
    BY <2>3
  <2>6. ap.kind = "setup" => Stays
    BY <2>2, <2>4 DEF ProbeAddress
  <2>7. ASSUME ap.kind = "watch", OneAddress(ap.probe) PROVE ProbeAddress(ap) = ap.bp
    <3>1. ap.bp \in Args[ap.probe] /\ address[ap.probe] \in Args[ap.probe] /\ ap.probe \in Probes
      BY <2>1, <2>7 DEF ArgsSeen, Watches, Attached
    <3>2. PICK x : Args[ap.probe] = {x}
      <4>1. IsFiniteSet(Args[ap.probe])
        BY <3>1, WatchAssumption
      <4> QED BY <2>7, <4>1, FS_Singleton DEF OneAddress
    <3> QED BY <2>7, <3>1, <3>2 DEF ProbeAddress
  <2>8. (ap.kind = "watch" /\ OneAddress(ap.probe)) => (Stays <=> ap.bp # addr)
    BY <2>4, <2>5, <2>7
  <2> QED BY <2>6, <2>8 DEF addr
<1> QED BY <1>1, ArgsInvariant, PTL DEF UnwatchOne

\* An address is attached twice for a probe only if another address came in between,
\* when a watchpoint that cannot be attached ends the run: otherwise its address is
\* taken for attached all the same.
THEOREM RepeatsAreApart ==
    ASSUME MissingError = TRUE PROVE Spec => []RepeatedOnlyAfterAnother
<1>1. TypeOK /\ ArgsSeen /\ LatestAddress /\ RepeatedOnlyAfterAnother /\ [Next]_vars
        => LatestAddress' /\ RepeatedOnlyAfterAnother'
  BY LatestStep, RepeatedStep
<1> QED BY <1>1, InvInit, ArgsInvariant, PTL DEF Spec

\* A tracee of one thread never runs in a call of a synchronous probe whose address
\* is not watched, while no unwatch() was made: when a watchpoint that cannot be
\* attached ends the run, and no function is called with a null pointer, which is
\* what the address of a probe is before its first call.
THEOREM NothingIsMissed ==
    ASSUME NEW t, Threads = {t}, MissingError = TRUE, \A p \in Probes : 0 \notin Args[p]
    PROVE  Spec => []NoEventMissed
<1>1. TypeOK /\ ArgsSeen /\ Served /\ OneStop /\ Attended /\ [Next]_vars
        => Served' /\ OneStop' /\ Attended'
  BY ServedStep, OneStopStep, AttendedStep
<1>2. Attended => NoEventMissed
  BY DEF Attended, NoEventMissed, InStop
<1> QED BY <1>1, <1>2, InvInit, ArgsInvariant, PTL DEF Spec

=============================================================================
