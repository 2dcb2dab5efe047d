--------------------------- MODULE AttachmentProofs ---------------------------
(***************************************************************************)
(* Attachment, for scripts of any length, any number of CPUs and any       *)
(* number of failing calls.                                                *)
(***************************************************************************)
EXTENDS Attachment, TLAPS

TypeInv ==
    /\ TypeOK
    /\ to_attach \in Seq(Types)
    /\ pid \in BOOLEAN /\ others \in BOOLEAN /\ dry_run \in BOOLEAN
    /\ exitsig_recv \in BOOLEAN
    /\ todo \in Seq(Int)
    /\ event \in Int
    /\ links \subseteq (DOMAIN to_attach) \X Int
    /\ events \subseteq (DOMAIN to_attach) \X Int

InReverse(p) == attach_reverse(to_attach[p])

\* The probes the passes have dealt with.
Visited ==
    {p \in DOMAIN to_attach :
        IF direction = "forward" THEN ~InReverse(p) /\ p < at ELSE InReverse(p) => p > at}

\* Where the passes are.
Passes ==
    /\ pc = "forward" => direction = "forward"
    /\ pc \in {"reverse", "count", "running"} => direction = "reverse"
    /\ direction = "forward" => at >= 1
    /\ direction = "reverse" => at <= Len(to_attach)
    /\ Making => at \in DOMAIN to_attach /\ (InReverse(at) <=> direction = "reverse")
    /\ pc \in {"count", "running"} => at = 0
    /\ pc \in {"returned", "gone"} <=> rval # "none"
    /\ pc = "gone" => attached_probes_ = <<>>

\* What has become of the probes they have dealt with.
Dealt ==
    /\ pc \notin {"returned", "gone"} =>
          /\ Range(attached_probes_) \cup failed = Visited
          /\ Range(attached_probes_) \cap failed = {}
          /\ missing_probes = "error" => failed = {}
    /\ pc = "running" => attached_probes_ # <<>> \/ others
    /\ rval = "failure" =>
          \/ exitsig_recv
          \/ missing_probes = "error" /\ failed # {}
          \/ failed = DOMAIN to_attach /\ ~others

\* In each pass, the probes attached earlier are those the pass came by earlier.
Ordered ==
    \A a, b \in DOMAIN attached_probes_ :
        (/\ a < b
         /\ InReverse(attached_probes_[a]) <=> InReverse(attached_probes_[b]))
            => IF InReverse(attached_probes_[a])
               THEN attached_probes_[a] > attached_probes_[b]
               ELSE attached_probes_[a] < attached_probes_[b]

Left == {<<at, todo[k]>> : k \in DOMAIN todo}
Made == {l \in links : l[1] = at}

\* The links of attached probes, and those of the probe that is being attached.
Links ==
    /\ ~Making => links = AllLinksOf(Range(attached_probes_))
    /\ Making => links = AllLinksOf(Range(attached_probes_)) \cup Made
    /\ Making => Made \subseteq LinksOf(at)
    /\ pc \in {"open", "link", "single"} =>
          Left \subseteq LinksOf(at) /\ LinksOf(at) \subseteq Made \cup Left
    /\ pc = "link" => todo # <<>> /\ event = Head(todo)
    /\ pc = "single" => todo = Cpus(at)
    /\ \A e \in events : to_attach[e[1]] = "watchpoint"

AttachInv == Passes /\ Dealt /\ Ordered /\ Links

-----------------------------------------------------------------------------
\* A sequence of integers without its head.
LEMMA TailFacts ==
  ASSUME NEW s \in Seq(Int), s # <<>>
  PROVE  /\ Head(s) \in Int /\ Tail(s) \in Seq(Int)
         /\ Head(s) = s[1] /\ 1 \in DOMAIN s
         /\ \A k \in DOMAIN Tail(s) : k + 1 \in DOMAIN s /\ Tail(s)[k] = s[k + 1]
         /\ \A k \in DOMAIN s : k = 1 \/ (k - 1 \in DOMAIN Tail(s) /\ Tail(s)[k - 1] = s[k])
OBVIOUS

\* A sequence with one element more.
LEMMA AppendFacts ==
  ASSUME NEW S, NEW s \in Seq(S), NEW x \in S
  PROVE  /\ Append(s, x) \in Seq(S)
         /\ Append(s, x) # <<>>
         /\ DOMAIN Append(s, x) = DOMAIN s \cup {Len(s) + 1}
         /\ \A k \in DOMAIN s : k <= Len(s) /\ k \in Nat /\ Append(s, x)[k] = s[k]
         /\ Append(s, x)[Len(s) + 1] = x
         /\ Len(s) \in Nat
OBVIOUS

\* The probes of a longer list.
LEMMA RangeAppend ==
  ASSUME NEW S, NEW s \in Seq(S), NEW x \in S
  PROVE  Range(Append(s, x)) = Range(s) \cup {x}
BY AppendFacts DEF Range

\* Nothing is attached in an empty list, and no link belongs to it.
LEMMA RangeEmpty == Range(<<>>) = {} /\ AllLinksOf({}) = {}
BY DEF Range, AllLinksOf

\* Each probe is attached somewhere.
LEMMA CpusType ==
  ASSUME TypeInv, NEW p \in DOMAIN to_attach
  PROVE  Cpus(p) \in Seq(Int) /\ LinksOf(p) \subseteq (DOMAIN to_attach) \X Int
<1>1. get_online_cpus \in Seq(Int)
  BY CpuAssumption DEF get_online_cpus
<1>2. Cpus(p) \in Seq(Int)
  BY <1>1 DEF Cpus, AnyCpu
<1>3. QED BY <1>2 DEF LinksOf

\* The initial states are typed, and nothing is attached.
LEMMA AttachInitial == AttachInit => TypeInv /\ AttachInv
<1> SUFFICES ASSUME AttachInit PROVE TypeInv /\ AttachInv
  OBVIOUS
<1>1. to_attach \in Seq(Types) /\ Len(to_attach) \in Nat
  BY ScriptAssumption DEF AttachInit
<1>2. TypeInv
  <2>1. todo \in Seq(Int) /\ attached_probes_ \in Seq(DOMAIN to_attach)
    BY <1>1 DEF AttachInit
  <2>2. at \in 0 .. Len(to_attach) + 1 /\ fails \in 0 .. MaxFails
    BY <1>1, FailAssumption DEF AttachInit
  <2>3. TypeOK
    BY <2>1, <2>2 DEF AttachInit, TypeOK
  <2>4. event \in Int /\ links = {} /\ events = {} /\ exitsig_recv = FALSE
    BY DEF AttachInit, NoCpu
  <2> QED BY <1>1, <2>1, <2>3, <2>4 DEF AttachInit, TypeInv
<1>3. Visited = {}
  BY <1>1 DEF AttachInit, Visited
<1>4. AttachInv
  BY <1>3, RangeEmpty DEF AttachInit, AttachInv, Passes, Dealt, Ordered, Links, Making
<1> QED BY <1>2, <1>4

\* Every step keeps TypeInv.
LEMMA TypeStep == TypeInv /\ Passes /\ Links /\ [AttachNext]_attachVars => TypeInv'
<1> SUFFICES ASSUME TypeInv, Passes, Links, [AttachNext]_attachVars PROVE TypeInv'
  OBVIOUS
<1> USE DEF setting
<1>1. /\ to_attach \in Seq(Types) /\ Len(to_attach) \in Nat
      /\ DOMAIN to_attach = 1 .. Len(to_attach)
      /\ todo \in Seq(Int) /\ attached_probes_ \in Seq(DOMAIN to_attach)
  BY DEF TypeInv, TypeOK
<1>2. CASE UNCHANGED attachVars
  BY <1>2 DEF attachVars, TypeInv, TypeOK
<1>0. MayFail /\ fails' = fails + 1 => fails' \in 0 .. MaxFails
  BY FailAssumption DEF MayFail, TypeInv, TypeOK
<1>3. CASE Open
  <2>1. todo # <<>> /\ event' \in Int /\ fails' \in 0 .. MaxFails
    BY <1>0, <1>1, <1>3, TailFacts DEF Open, TypeInv, TypeOK
  <2>2. /\ pc' \in {"link", "undo"}
        /\ UNCHANGED <<setting, at, direction, todo, links, events, attached_probes_, failed,
                       exitsig_recv, rval>>
    BY <1>3 DEF Open
  <2> QED BY <2>1, <2>2 DEF TypeInv, TypeOK
<1>4. CASE Link
  <2>1. at \in DOMAIN to_attach /\ event \in Int /\ todo # <<>>
    BY <1>4 DEF Link, Passes, Making, Links, TypeInv
  <2>2. todo' \in Seq(Int) /\ event' \in Int /\ fails' \in 0 .. MaxFails
    BY <1>0, <1>1, <1>4, <2>1, TailFacts DEF Link, NoCpu, TypeInv, TypeOK
  <2>3. links' \subseteq (DOMAIN to_attach) \X Int /\ events' \subseteq (DOMAIN to_attach) \X Int
    BY <1>4, <2>1 DEF Link, TypeInv
  <2>4. /\ pc' \in {"open", "undo"}
        /\ UNCHANGED <<setting, at, direction, attached_probes_, failed, exitsig_recv, rval>>
    BY <1>4 DEF Link
  <2> QED BY <2>2, <2>3, <2>4 DEF TypeInv, TypeOK
<1>5. CASE LinkSingle
  <2>1. at \in DOMAIN to_attach
    BY <1>5 DEF LinkSingle, Passes, Making
  <2>2. LinksOf(at) \subseteq (DOMAIN to_attach) \X Int
    BY <2>1, CpusType
  <2> QED BY <1>1, <1>5, <2>2, FailAssumption DEF LinkSingle, TypeInv, TypeOK, MayFail
<1>6. CASE Attached
  BY <1>1, <1>6, AppendFacts, FailAssumption DEF Attached, TypeInv, TypeOK, Passes, Making,
     step
<1>7. CASE Failed
  BY <1>1, <1>7, FailAssumption DEF Failed, TypeInv, TypeOK, Passes, Making, step, Undone,
     NoCpu
<1>8. CASE Interrupted
  BY <1>1, <1>8, FailAssumption DEF Interrupted, TypeInv, TypeOK, attached_probes_clear
<1>9. CASE NextProbe
  <2>1. at \in DOMAIN to_attach /\ at \in Int
    BY <1>1, <1>9 DEF NextProbe
  <2>2. Cpus(at) \in Seq(Int)
    BY <2>1, CpusType
  <2>3. at' \in 0 .. Len(to_attach) + 1
    BY <1>1, <1>9, <2>1 DEF NextProbe, step
  <2>4. todo' \in Seq(Int)
    BY <1>1, <1>9, <2>2 DEF NextProbe
  <2> QED BY <1>1, <1>9, <2>3, <2>4 DEF NextProbe, TypeInv, TypeOK
<1>10. CASE EndOfPass
  BY <1>1, <1>10, FailAssumption DEF EndOfPass, TypeInv, TypeOK
<1>11. CASE DryRun
  BY <1>1, <1>11, FailAssumption DEF DryRun, TypeInv, TypeOK, attached_probes_clear
<1>12. CASE Count
  BY <1>1, <1>12, FailAssumption DEF Count, TypeInv, TypeOK
<1>13. CASE Finish
  BY <1>1, <1>13, FailAssumption DEF Finish, TypeInv, TypeOK, attached_probes_clear
<1>14. CASE Destroy
  BY <1>1, <1>14, FailAssumption DEF Destroy, TypeInv, TypeOK, attached_probes_clear
<1>15. CASE Signal
  BY <1>1, <1>15, FailAssumption DEF Signal, TypeInv, TypeOK
<1> QED BY <1>2, <1>3, <1>4, <1>5, <1>6, <1>7, <1>8, <1>9, <1>10, <1>11, <1>12, <1>13,
           <1>14, <1>15 DEF AttachNext

\* Every step keeps Passes.
LEMMA PassesStep == TypeInv /\ Passes /\ [AttachNext]_attachVars => Passes'
<1> SUFFICES ASSUME TypeInv, Passes, [AttachNext]_attachVars PROVE Passes'
  OBVIOUS
<1> USE DEF setting
<1>1. /\ to_attach \in Seq(Types) /\ Len(to_attach) \in Nat
      /\ DOMAIN to_attach = 1 .. Len(to_attach)
      /\ todo \in Seq(Int) /\ attached_probes_ \in Seq(DOMAIN to_attach)
      /\ at \in Int /\ at \in 0 .. Len(to_attach) + 1
      /\ direction \in {"forward", "reverse"}
      /\ failed \subseteq DOMAIN to_attach
  BY DEF TypeInv, TypeOK
<1>2. CASE UNCHANGED attachVars
  BY <1>2 DEF attachVars, Passes, Making, InReverse
<1>3. CASE Open
  BY <1>1, <1>3 DEF Open, Passes, Making, InReverse
<1>4. CASE Link
  BY <1>1, <1>4 DEF Link, Passes, Making, InReverse
<1>5. CASE LinkSingle
  BY <1>1, <1>5 DEF LinkSingle, Passes, Making, InReverse
<1>6. CASE Attached
  BY <1>1, <1>6 DEF Attached, Passes, Making, InReverse, step
<1>7. CASE Failed
  BY <1>1, <1>7 DEF Failed, Passes, Making, InReverse, step
<1>8. CASE Interrupted
  BY <1>1, <1>8 DEF Interrupted, Passes, Making, InReverse, attached_probes_clear
<1>9. CASE NextProbe
  <2>1. CASE InPass
    BY <1>1, <1>9, <2>1 DEF NextProbe, Passes, Making, InReverse, InPass
  <2>2. CASE ~InPass
    <3>1. pc' = pc /\ direction' = pc /\ at' = step(at) /\ to_attach' = to_attach
      BY <1>9, <2>2 DEF NextProbe
    <3> QED BY <1>1, <1>9, <3>1 DEF NextProbe, Passes, Making, step
  <2> QED BY <2>1, <2>2
<1>10. CASE EndOfPass
  BY <1>1, <1>10 DEF EndOfPass, Passes, Making, InReverse
<1>11. CASE DryRun
  BY <1>1, <1>11 DEF DryRun, Passes, Making, InReverse, attached_probes_clear
<1>12. CASE Count
  BY <1>1, <1>12 DEF Count, Passes, Making, InReverse
<1>13. CASE Finish
  BY <1>1, <1>13 DEF Finish, Passes, Making, InReverse, attached_probes_clear
<1>14. CASE Destroy
  BY <1>1, <1>14 DEF Destroy, Passes, Making, InReverse, attached_probes_clear
<1>15. CASE Signal
  BY <1>1, <1>15 DEF Signal, Passes, Making, InReverse
<1> QED BY <1>2, <1>3, <1>4, <1>5, <1>6, <1>7, <1>8, <1>9, <1>10, <1>11, <1>12, <1>13,
           <1>14, <1>15 DEF AttachNext

\* Every step keeps Dealt.
LEMMA DealtStep == TypeInv /\ Passes /\ Dealt /\ [AttachNext]_attachVars => Dealt'
<1> SUFFICES ASSUME TypeInv, Passes, Dealt, [AttachNext]_attachVars PROVE Dealt'
  OBVIOUS
<1> USE DEF setting
<1>1. /\ to_attach \in Seq(Types) /\ Len(to_attach) \in Nat
      /\ DOMAIN to_attach = 1 .. Len(to_attach)
      /\ todo \in Seq(Int) /\ attached_probes_ \in Seq(DOMAIN to_attach)
      /\ at \in Int /\ at \in 0 .. Len(to_attach) + 1
      /\ direction \in {"forward", "reverse"}
      /\ failed \subseteq DOMAIN to_attach
  BY DEF TypeInv, TypeOK
<1>2. CASE UNCHANGED attachVars
  BY <1>2 DEF attachVars, Dealt, Visited, InReverse
<1>3. CASE Open
  <2>1. Visited' = Visited
    BY <1>3 DEF Open, Visited, InReverse
  <2> QED BY <1>1, <1>3, <2>1 DEF Open, Dealt
<1>4. CASE Link
  <2>1. Visited' = Visited
    BY <1>4 DEF Link, Visited, InReverse
  <2> QED BY <1>1, <1>4, <2>1 DEF Link, Dealt
<1>5. CASE LinkSingle
  <2>1. Visited' = Visited
    BY <1>5 DEF LinkSingle, Visited, InReverse
  <2> QED BY <1>1, <1>5, <2>1 DEF LinkSingle, Dealt
<1>6. CASE Attached
  <2>1. at \in DOMAIN to_attach /\ (InReverse(at) <=> direction = "reverse")
    BY <1>6 DEF Attached, Passes, Making
  <2>2. Visited' = Visited \cup {at} /\ at \notin Visited
    BY <1>1, <1>6, <2>1 DEF Attached, Visited, InReverse, step
  <2>3. Range(attached_probes_') = Range(attached_probes_) \cup {at}
    <3> DEFINE S == DOMAIN to_attach
    <3>1. attached_probes_ \in Seq(S) /\ at \in S
      BY <1>1, <2>1
    <3> HIDE DEF S
    <3>2. Range(Append(attached_probes_, at)) = Range(attached_probes_) \cup {at}
      BY <3>1, RangeAppend
    <3> QED BY <3>2, <1>6 DEF Attached
  <2>4. rval = "none" /\ pc \notin {"returned", "gone"}
    BY <1>6 DEF Attached, Passes
  <2>5. pc' \in {"forward", "reverse"}
    BY <1>1, <1>6 DEF Attached
  <2> QED BY <1>6, <2>2, <2>3, <2>4, <2>5 DEF Attached, Dealt
<1>7. CASE Failed
  <2>1. at \in DOMAIN to_attach /\ (InReverse(at) <=> direction = "reverse")
    BY <1>7 DEF Failed, Passes, Making
  <2>2. Visited \cup {at} = Visited' \/ pc' = "returned"
    BY <1>1, <1>7, <2>1 DEF Failed, Visited, InReverse, step
  <2>3. at \notin Visited
    BY <1>1, <2>1 DEF Visited
  <2>4. rval = "none" /\ pc \notin {"returned", "gone"}
    BY <1>7 DEF Failed, Passes
  <2>5. \/ pc' = direction /\ rval' = "none" /\ missing_probes # "error"
        \/ pc' = "returned" /\ missing_probes = "error"
    BY <1>7, <2>4, Zenon DEF Failed, Tolerated
  <2>6. /\ failed' = failed \cup {at} /\ attached_probes_' = attached_probes_
        /\ missing_probes' = missing_probes /\ to_attach' = to_attach
        /\ others' = others /\ exitsig_recv' = exitsig_recv
    BY <1>7 DEF Failed
  <2>7. at \notin Range(attached_probes_)
    BY <2>3, <2>4 DEF Dealt
  <2>8. CASE pc' = "returned" /\ missing_probes = "error"
    BY <2>6, <2>8 DEF Dealt
  <2>9. CASE pc' = direction /\ rval' = "none" /\ missing_probes # "error"
    BY <1>1, <2>2, <2>4, <2>6, <2>7, <2>9 DEF Dealt
  <2> QED BY <2>5, <2>8, <2>9
<1>8. CASE Interrupted
  BY <1>1, <1>8 DEF Interrupted, Dealt
<1>9. CASE NextProbe
  <2>1. Visited' = Visited
    <3>1. CASE InPass
      BY <1>1, <1>9, <3>1 DEF NextProbe, Visited, InReverse, Passes
    <3>2. CASE ~InPass
      <4>1. /\ pc' = pc /\ direction' = pc /\ direction = pc
            /\ at' = step(at) /\ to_attach' = to_attach
        BY <1>1, <1>9, <3>2 DEF NextProbe, Passes
      <4>2. InReverse(at) <=> pc # "reverse"
        BY <3>2 DEF InPass, InReverse, attach_reverse
      <4> QED BY <1>1, <1>9, <4>1, <4>2 DEF NextProbe, Visited, InReverse, step
    <3> QED BY <3>1, <3>2
  <2>2. pc' # "running"
    BY <1>9 DEF NextProbe
  <2> QED BY <1>1, <1>9, <2>1, <2>2 DEF NextProbe, Dealt
<1>10. CASE EndOfPass
  <2>1. Visited' = Visited
    BY <1>1, <1>10 DEF EndOfPass, Visited, InReverse, Passes
  <2>2. pc' # "running"
    BY <1>10 DEF EndOfPass
  <2> QED BY <1>1, <1>10, <2>1, <2>2 DEF EndOfPass, Dealt
<1>11. CASE DryRun
  BY <1>1, <1>11 DEF DryRun, Dealt, Passes
<1>12. CASE Count
  <2>1. Visited' = Visited
    BY <1>12 DEF Count, Visited, InReverse
  <2>2. Visited = DOMAIN to_attach
    BY <1>1, <1>12 DEF Count, Visited, Passes
  <2>3. attached_probes_ = <<>> => Range(attached_probes_) = {}
    BY RangeEmpty
  <2>4. rval = "none"
    BY <1>12 DEF Count, Passes
  <2> QED BY <1>1, <1>12, <2>1, <2>2, <2>3, <2>4 DEF Count, Dealt
<1>13. CASE Finish
  <2>1. Visited' = Visited
    BY <1>13 DEF Finish, Visited, InReverse
  <2> QED BY <1>1, <1>13, <2>1 DEF Finish, Dealt
<1>14. CASE Destroy
  BY <1>1, <1>14 DEF Destroy, Dealt, Passes
<1>15. CASE Signal
  <2>1. Visited' = Visited
    BY <1>15 DEF Signal, Visited, InReverse
  <2> QED BY <1>1, <1>15, <2>1 DEF Signal, Dealt
<1> QED BY <1>2, <1>3, <1>4, <1>5, <1>6, <1>7, <1>8, <1>9, <1>10, <1>11, <1>12, <1>13,
           <1>14, <1>15 DEF AttachNext

\* Every step keeps Ordered.
LEMMA OrderedStep ==
  TypeInv /\ Passes /\ Dealt /\ Ordered /\ [AttachNext]_attachVars => Ordered'
<1> SUFFICES ASSUME TypeInv, Passes, Dealt, Ordered, [AttachNext]_attachVars PROVE Ordered'
  OBVIOUS
<1> USE DEF setting
<1>1. /\ to_attach \in Seq(Types) /\ Len(to_attach) \in Nat
      /\ DOMAIN to_attach = 1 .. Len(to_attach)
      /\ todo \in Seq(Int) /\ attached_probes_ \in Seq(DOMAIN to_attach)
      /\ at \in Int /\ at \in 0 .. Len(to_attach) + 1
      /\ direction \in {"forward", "reverse"}
      /\ failed \subseteq DOMAIN to_attach
  BY DEF TypeInv, TypeOK
<1>2. CASE UNCHANGED attachVars
  BY <1>2 DEF attachVars, Ordered, InReverse
<1>3. CASE Open
  BY <1>1, <1>3 DEF Open, Ordered, InReverse
<1>4. CASE Link
  BY <1>1, <1>4 DEF Link, Ordered, InReverse
<1>5. CASE LinkSingle
  BY <1>1, <1>5 DEF LinkSingle, Ordered, InReverse
<1>6. CASE Attached
  <2>1. at \in DOMAIN to_attach /\ (InReverse(at) <=> direction = "reverse")
    BY <1>6 DEF Attached, Passes, Making
  <2>2. \A k \in DOMAIN attached_probes_ : attached_probes_[k] \in Visited
    BY <1>6 DEF Attached, Dealt, Range
  <2> DEFINE more == Append(attached_probes_, at)
  <2>3. /\ DOMAIN more = DOMAIN attached_probes_ \cup {Len(attached_probes_) + 1}
        /\ \A k \in DOMAIN attached_probes_ :
               k <= Len(attached_probes_) /\ k \in Nat /\ more[k] = attached_probes_[k]
        /\ more[Len(attached_probes_) + 1] = at
        /\ Len(attached_probes_) \in Nat
    <3> DEFINE S == DOMAIN to_attach
    <3>1. attached_probes_ \in Seq(S) /\ at \in S
      BY <1>1, <2>1
    <3> HIDE DEF S
    <3> QED BY <3>1, AppendFacts
  <2>4. attached_probes_' = more /\ to_attach' = to_attach
    BY <1>6 DEF Attached
  <2> HIDE DEF more
  <2>5. ASSUME NEW a \in DOMAIN more, NEW b \in DOMAIN more, a < b,
               InReverse(more[a]) <=> InReverse(more[b])
        PROVE  IF InReverse(more[a]) THEN more[a] > more[b] ELSE more[a] < more[b]
    <3>1. a \in DOMAIN attached_probes_ /\ more[a] = attached_probes_[a]
      BY <2>3, <2>5
    <3>2. CASE b \in DOMAIN attached_probes_
      BY <2>3, <2>5, <3>1, <3>2 DEF Ordered
    <3>3. CASE b = Len(attached_probes_) + 1
      <4>1. more[b] = at /\ more[a] \in Visited
        BY <2>2, <2>3, <3>1, <3>3
      <4> QED BY <1>1, <2>1, <2>5, <4>1 DEF Visited
    <3> QED BY <2>3, <3>2, <3>3
  <2>6. \A p : InReverse(p)' <=> InReverse(p)
    BY <2>4 DEF InReverse
  <2> QED BY <2>4, <2>5, <2>6 DEF Ordered, InReverse
<1>7. CASE Failed
  BY <1>1, <1>7 DEF Failed, Ordered, InReverse
<1>8. CASE Interrupted
  BY <1>1, <1>8 DEF Interrupted, Ordered, InReverse, attached_probes_clear
<1>9. CASE NextProbe
  BY <1>1, <1>9 DEF NextProbe, Ordered, InReverse
<1>10. CASE EndOfPass
  BY <1>1, <1>10 DEF EndOfPass, Ordered, InReverse
<1>11. CASE DryRun
  BY <1>1, <1>11 DEF DryRun, Ordered, InReverse, attached_probes_clear
<1>12. CASE Count
  BY <1>1, <1>12 DEF Count, Ordered, InReverse
<1>13. CASE Finish
  BY <1>1, <1>13 DEF Finish, Ordered, InReverse, attached_probes_clear
<1>14. CASE Destroy
  BY <1>1, <1>14 DEF Destroy, Ordered, InReverse, attached_probes_clear
<1>15. CASE Signal
  BY <1>1, <1>15 DEF Signal, Ordered, InReverse
<1> QED BY <1>2, <1>3, <1>4, <1>5, <1>6, <1>7, <1>8, <1>9, <1>10, <1>11, <1>12, <1>13,
           <1>14, <1>15 DEF AttachNext

\* A link of a probe names that probe.
LEMMA FirstOf ==
  /\ \A p : \A l \in LinksOf(p) : l[1] = p
  /\ \A P : \A l \in AllLinksOf(P) : l[1] \in P
  /\ \A P, p : AllLinksOf(P \cup {p}) = AllLinksOf(P) \cup LinksOf(p)
<1>1. \A p : \A l \in LinksOf(p) : l[1] = p
  BY DEF LinksOf
<1> QED BY <1>1 DEF AllLinksOf

\* Where a probe is attached does not change.
LEMMA SameLinks ==
  UNCHANGED setting =>
    /\ \A p : Cpus(p)' = Cpus(p)
    /\ \A p : LinksOf(p)' = LinksOf(p)
    /\ \A P : AllLinksOf(P)' = AllLinksOf(P)
<1> SUFFICES ASSUME UNCHANGED setting
             PROVE  /\ \A p : Cpus(p)' = Cpus(p)
                    /\ \A p : LinksOf(p)' = LinksOf(p)
                    /\ \A P : AllLinksOf(P)' = AllLinksOf(P)
  OBVIOUS
<1>1. to_attach' = to_attach /\ pid' = pid
  BY DEF setting
<1>2. \A p : Cpus(p)' = Cpus(p)
  BY <1>1 DEF Cpus, get_online_cpus
<1>3. \A p : LinksOf(p)' = LinksOf(p)
  BY <1>2 DEF LinksOf
<1> QED BY <1>2, <1>3 DEF AllLinksOf

\* The probe that is being attached is not attached yet.
LEMMA NotYet ==
  TypeInv /\ Passes /\ Dealt /\ Making => at \notin Range(attached_probes_)
<1> SUFFICES ASSUME TypeInv, Passes, Dealt, Making PROVE at \notin Range(attached_probes_)
  OBVIOUS
<1>1. at \in Int /\ direction \in {"forward", "reverse"}
  BY DEF TypeInv, TypeOK
<1>2. InReverse(at) <=> direction = "reverse"
  BY DEF Passes
<1>3. at \notin Visited
  BY <1>1, <1>2 DEF Visited
<1> QED BY <1>3 DEF Dealt, Making

\* Every step keeps Links.
LEMMA LinksStep == TypeInv /\ Passes /\ Dealt /\ Links /\ [AttachNext]_attachVars => Links'
<1> SUFFICES ASSUME TypeInv, Passes, Dealt, Links, [AttachNext]_attachVars PROVE Links'
  OBVIOUS
<1>1. /\ to_attach \in Seq(Types) /\ Len(to_attach) \in Nat
      /\ DOMAIN to_attach = 1 .. Len(to_attach)
      /\ todo \in Seq(Int) /\ attached_probes_ \in Seq(DOMAIN to_attach)
      /\ at \in Int /\ at \in 0 .. Len(to_attach) + 1
      /\ direction \in {"forward", "reverse"}
      /\ failed \subseteq DOMAIN to_attach
  BY DEF TypeInv, TypeOK
<1>2. CASE UNCHANGED attachVars
  <2> DEFINE All == AllLinksOf(Range(attached_probes_))
  <2>1. /\ \A p : Cpus(p)' = Cpus(p)
        /\ \A p : LinksOf(p)' = LinksOf(p)
        /\ \A P : AllLinksOf(P)' = AllLinksOf(P)
    BY <1>2, SameLinks DEF attachVars, setting
  <2>2. /\ links' = links /\ at' = at /\ todo' = todo
        /\ attached_probes_' = attached_probes_
        /\ events' = events /\ to_attach' = to_attach
    BY <1>2 DEF attachVars, setting
  <2>3. Made' = Made /\ Left' = Left /\ AllLinksOf(Range(attached_probes_))' = All
    BY <2>1, <2>2 DEF Made, Left
  <2>4. pc' = pc /\ event' = event
    BY <1>2 DEF attachVars
  <2> QED BY <2>1, <2>2, <2>3, <2>4 DEF Links, Making
<1>3. CASE Open
  <2> DEFINE All == AllLinksOf(Range(attached_probes_))
  <2>1. /\ \A p : Cpus(p)' = Cpus(p)
        /\ \A p : LinksOf(p)' = LinksOf(p)
        /\ \A P : AllLinksOf(P)' = AllLinksOf(P)
    BY <1>3, SameLinks DEF Open
  <2>2. /\ links' = links /\ at' = at /\ todo' = todo
        /\ attached_probes_' = attached_probes_
        /\ events' = events /\ to_attach' = to_attach
    BY <1>3 DEF Open, setting
  <2>3. Made' = Made /\ Left' = Left /\ AllLinksOf(Range(attached_probes_))' = All
    BY <2>1, <2>2 DEF Made, Left
  <2>4. pc = "open" /\ todo # <<>>
    BY <1>3 DEF Open
  <2>5. (pc' = "link" /\ event' = Head(todo)) \/ pc' = "undo"
    BY <1>3 DEF Open
  <2> QED BY <2>1, <2>2, <2>3, <2>4, <2>5 DEF Links, Making
<1>4. CASE Link
  <2> DEFINE All == AllLinksOf(Range(attached_probes_))
  <2>1. /\ \A p : Cpus(p)' = Cpus(p)
        /\ \A p : LinksOf(p)' = LinksOf(p)
        /\ \A P : AllLinksOf(P)' = AllLinksOf(P)
    BY <1>4, SameLinks DEF Link
  <2>2. /\ pc = "link" /\ todo' = Tail(todo) /\ at' = at
        /\ attached_probes_' = attached_probes_ /\ to_attach' = to_attach
    BY <1>4 DEF Link, setting
  <2>3. todo # <<>> /\ event = Head(todo) /\ Left \subseteq LinksOf(at)
    BY <2>2 DEF Links
  <2>4. Left = {<<at, event>>} \cup Left'
    <3>1. \A l \in Left : l = <<at, event>> \/ l \in Left'
      BY <1>1, <2>2, <2>3, TailFacts DEF Left
    <3>2. <<at, event>> \in Left /\ Left' \subseteq Left
      BY <1>1, <2>2, <2>3, TailFacts DEF Left
    <3> QED BY <3>1, <3>2
  <2>5. AllLinksOf(Range(attached_probes_))' = All
    BY <2>1, <2>2
  <2>6. CASE links' = links \cup {<<at, event>>} /\ pc' = "open" /\ events' = events
    <3>1. Made' = Made \cup {<<at, event>>}
      BY <2>2, <2>6 DEF Made
    <3> QED BY <2>1, <2>2, <2>3, <2>4, <2>5, <2>6, <3>1 DEF Links, Making
  <2>7. CASE /\ links' = links /\ pc' = "undo"
             /\ events' = IF to_attach[at] = "watchpoint" THEN events \cup {<<at, event>>}
                                                          ELSE events
    <3>1. Made' = Made
      BY <2>2, <2>7 DEF Made
    <3>2. \A e \in events' : to_attach[e[1]] = "watchpoint"
      BY <2>7 DEF Links
    <3> QED BY <2>1, <2>2, <2>5, <2>7, <3>1, <3>2 DEF Links, Making
  <2> QED BY <1>4, <2>6, <2>7 DEF Link
<1>5. CASE LinkSingle
  <2> DEFINE All == AllLinksOf(Range(attached_probes_))
  <2>1. /\ \A p : Cpus(p)' = Cpus(p)
        /\ \A p : LinksOf(p)' = LinksOf(p)
        /\ \A P : AllLinksOf(P)' = AllLinksOf(P)
    BY <1>5, SameLinks DEF LinkSingle
  <2>2. /\ pc = "single" /\ todo' = <<>> /\ at' = at /\ events' = events
        /\ attached_probes_' = attached_probes_ /\ to_attach' = to_attach
    BY <1>5 DEF LinkSingle, setting
  <2>3. Left' = {} /\ AllLinksOf(Range(attached_probes_))' = All
    BY <2>1, <2>2 DEF Left
  <2>4. CASE links' = links \cup LinksOf(at) /\ pc' = "open"
    <3>1. Made' = Made \cup LinksOf(at)
      BY <2>2, <2>4, FirstOf DEF Made
    <3> QED BY <2>1, <2>2, <2>3, <2>4, <3>1 DEF Links, Making
  <2>5. CASE links' = links /\ pc' = "undo"
    <3>1. Made' = Made
      BY <2>2, <2>5 DEF Made
    <3> QED BY <2>1, <2>2, <2>3, <2>5, <3>1 DEF Links, Making
  <2> QED BY <1>5, <2>4, <2>5 DEF LinkSingle
<1>6. CASE Attached
  <2> DEFINE All == AllLinksOf(Range(attached_probes_))
  <2>1. /\ \A p : Cpus(p)' = Cpus(p)
        /\ \A p : LinksOf(p)' = LinksOf(p)
        /\ \A P : AllLinksOf(P)' = AllLinksOf(P)
    BY <1>6, SameLinks DEF Attached
  <2>2. /\ pc = "open" /\ todo = <<>> /\ links' = links /\ events' = events
        /\ attached_probes_' = Append(attached_probes_, at) /\ to_attach' = to_attach
        /\ pc' \in {"forward", "reverse"}
    BY <1>1, <1>6 DEF Attached, setting
  <2>3. Made = LinksOf(at) /\ links = All \cup Made
    <3>1. Left = {}
      BY <2>2 DEF Left
    <3> QED BY <2>2, <3>1 DEF Links, Making
  <2>4. Range(attached_probes_') = Range(attached_probes_) \cup {at}
    <3> DEFINE S == DOMAIN to_attach
    <3>1. attached_probes_ \in Seq(S) /\ at \in S
      BY <1>1, <2>2 DEF Passes, Making
    <3> HIDE DEF S
    <3> QED BY <2>2, <3>1, RangeAppend
  <2>5. AllLinksOf(Range(attached_probes_))' = All \cup LinksOf(at)
    BY <2>1, <2>4, FirstOf
  <2> QED BY <2>2, <2>3, <2>5 DEF Links, Making
<1>7. CASE Failed
  <2> DEFINE All == AllLinksOf(Range(attached_probes_))
  <2>1. /\ \A p : Cpus(p)' = Cpus(p)
        /\ \A p : LinksOf(p)' = LinksOf(p)
        /\ \A P : AllLinksOf(P)' = AllLinksOf(P)
    BY <1>7, SameLinks DEF Failed
  <2>2. /\ pc = "undo" /\ links' = links \ LinksOf(at) /\ events' = events
        /\ attached_probes_' = attached_probes_ /\ to_attach' = to_attach
        /\ pc' \in {"forward", "reverse", "returned"}
    BY <1>1, <1>7 DEF Failed, Undone, setting
  <2>3. Made \subseteq LinksOf(at) /\ links = All \cup Made
    BY <2>2 DEF Links, Making
  <2>4. at \notin Range(attached_probes_)
    BY <2>2, NotYet DEF Making
  <2>5. links' = All
    BY <2>2, <2>3, <2>4, FirstOf
  <2>6. AllLinksOf(Range(attached_probes_))' = All
    BY <2>1, <2>2
  <2> QED BY <2>2, <2>5, <2>6 DEF Links, Making
<1>8. CASE Interrupted
  <2>1. pc' \notin {"open", "link", "single", "undo"}
    BY <1>8 DEF Interrupted
  <2>2. ~Making
    BY <1>8 DEF Interrupted, Making
  <2>3. links' = {} /\ attached_probes_' = <<>>
    BY <1>8, <2>2 DEF Interrupted, attached_probes_clear, Links, AllLinksOf
  <2>4. AllLinksOf(Range(attached_probes_))' = {}
    BY <2>3, RangeEmpty DEF AllLinksOf
  <2>5. events' = events /\ to_attach' = to_attach
    BY <1>8 DEF Interrupted, setting
  <2> QED BY <2>1, <2>3, <2>4, <2>5 DEF Links, Making
<1>9. CASE NextProbe
  <2> DEFINE All == AllLinksOf(Range(attached_probes_))
  <2>1. /\ \A p : Cpus(p)' = Cpus(p)
        /\ \A p : LinksOf(p)' = LinksOf(p)
        /\ \A P : AllLinksOf(P)' = AllLinksOf(P)
    BY <1>9, SameLinks DEF NextProbe
  <2>2. /\ links' = links /\ events' = events /\ pc \in {"forward", "reverse"}
        /\ attached_probes_' = attached_probes_ /\ to_attach' = to_attach
    BY <1>9 DEF NextProbe, setting
  <2>3. links = All /\ AllLinksOf(Range(attached_probes_))' = All
    BY <2>1, <2>2 DEF Links, Making
  <2>4. CASE InPass
    <3>1. pc' \in {"open", "single"} /\ todo' = Cpus(at) /\ at' = at
      BY <1>9, <2>4 DEF NextProbe
    <3>2. Made' = {l \in All : l[1] = at}
      BY <2>2, <2>3, <3>1 DEF Made
    <3>3. {l \in All : l[1] = at} \subseteq LinksOf(at)
      <4> SUFFICES ASSUME NEW l \in All, l[1] = at PROVE l \in LinksOf(at)
        OBVIOUS
      <4>1. PICK p : l \in LinksOf(p)
        BY DEF AllLinksOf
      <4>2. p = at
        BY <4>1, FirstOf
      <4> QED BY <4>1, <4>2
    <3>4. Left' = LinksOf(at)
      BY <3>1 DEF Left, LinksOf
    <3> QED BY <2>1, <2>2, <2>3, <3>1, <3>2, <3>3, <3>4 DEF Links, Making
  <2>5. CASE ~InPass
    <3>1. pc' = pc
      BY <1>9, <2>5 DEF NextProbe
    <3> QED BY <2>2, <2>3, <3>1 DEF Links, Making
  <2> QED BY <2>4, <2>5
<1>10. CASE EndOfPass
  <2> DEFINE All == AllLinksOf(Range(attached_probes_))
  <2>1. /\ \A p : Cpus(p)' = Cpus(p)
        /\ \A p : LinksOf(p)' = LinksOf(p)
        /\ \A P : AllLinksOf(P)' = AllLinksOf(P)
    BY <1>10, SameLinks DEF EndOfPass
  <2>2. /\ links' = links /\ events' = events /\ pc \in {"forward", "reverse", "count"}
        /\ attached_probes_' = attached_probes_ /\ to_attach' = to_attach
        /\ pc' \in {"reverse", "count", "returned", "running"}
    BY <1>10 DEF EndOfPass, setting
  <2> QED BY <2>1, <2>2 DEF Links, Making
<1>11. CASE DryRun
  <2>1. pc' \notin {"open", "link", "single", "undo"}
    BY <1>11 DEF DryRun
  <2>2. ~Making
    BY <1>11 DEF DryRun, Making
  <2>3. links' = {} /\ attached_probes_' = <<>>
    BY <1>11, <2>2 DEF DryRun, attached_probes_clear, Links, AllLinksOf
  <2>4. AllLinksOf(Range(attached_probes_))' = {}
    BY <2>3, RangeEmpty DEF AllLinksOf
  <2>5. events' = events /\ to_attach' = to_attach
    BY <1>11 DEF DryRun, setting
  <2> QED BY <2>1, <2>3, <2>4, <2>5 DEF Links, Making
<1>12. CASE Count
  <2> DEFINE All == AllLinksOf(Range(attached_probes_))
  <2>1. /\ \A p : Cpus(p)' = Cpus(p)
        /\ \A p : LinksOf(p)' = LinksOf(p)
        /\ \A P : AllLinksOf(P)' = AllLinksOf(P)
    BY <1>12, SameLinks DEF Count
  <2>2. /\ links' = links /\ events' = events /\ pc \in {"forward", "reverse", "count"}
        /\ attached_probes_' = attached_probes_ /\ to_attach' = to_attach
        /\ pc' \in {"reverse", "count", "returned", "running"}
    BY <1>12 DEF Count, setting
  <2> QED BY <2>1, <2>2 DEF Links, Making
<1>13. CASE Finish
  <2>1. pc' \notin {"open", "link", "single", "undo"}
    BY <1>13 DEF Finish
  <2>2. ~Making
    BY <1>13 DEF Finish, Making
  <2>3. links' = {} /\ attached_probes_' = <<>>
    BY <1>13, <2>2 DEF Finish, attached_probes_clear, Links, AllLinksOf
  <2>4. AllLinksOf(Range(attached_probes_))' = {}
    BY <2>3, RangeEmpty DEF AllLinksOf
  <2>5. events' = events /\ to_attach' = to_attach
    BY <1>13 DEF Finish, setting
  <2> QED BY <2>1, <2>3, <2>4, <2>5 DEF Links, Making
<1>14. CASE Destroy
  <2>1. pc' \notin {"open", "link", "single", "undo"}
    BY <1>14 DEF Destroy
  <2>2. ~Making
    BY <1>14 DEF Destroy, Making
  <2>3. links' = {} /\ attached_probes_' = <<>>
    BY <1>14, <2>2 DEF Destroy, attached_probes_clear, Links, AllLinksOf
  <2>4. AllLinksOf(Range(attached_probes_))' = {}
    BY <2>3, RangeEmpty DEF AllLinksOf
  <2>5. events' = events /\ to_attach' = to_attach
    BY <1>14 DEF Destroy, setting
  <2> QED BY <2>1, <2>3, <2>4, <2>5 DEF Links, Making
<1>15. CASE Signal
  <2> DEFINE All == AllLinksOf(Range(attached_probes_))
  <2>1. /\ \A p : Cpus(p)' = Cpus(p)
        /\ \A p : LinksOf(p)' = LinksOf(p)
        /\ \A P : AllLinksOf(P)' = AllLinksOf(P)
    BY <1>15, SameLinks DEF Signal
  <2>2. /\ links' = links /\ at' = at /\ todo' = todo
        /\ attached_probes_' = attached_probes_
        /\ events' = events /\ to_attach' = to_attach
    BY <1>15 DEF Signal, setting
  <2>3. Made' = Made /\ Left' = Left /\ AllLinksOf(Range(attached_probes_))' = All
    BY <2>1, <2>2 DEF Made, Left
  <2>4. pc' = pc /\ event' = event
    BY <1>15 DEF Signal
  <2> QED BY <2>1, <2>2, <2>3, <2>4 DEF Links, Making
<1> QED BY <1>2, <1>3, <1>4, <1>5, <1>6, <1>7, <1>8, <1>9, <1>10, <1>11, <1>12, <1>13,
           <1>14, <1>15 DEF AttachNext

-----------------------------------------------------------------------------
\* The invariant holds of every state of a run.
LEMMA AttachInvariant == AttachSpec => [](TypeInv /\ AttachInv)
<1>1. TypeInv /\ AttachInv /\ [AttachNext]_attachVars => TypeInv' /\ AttachInv'
  BY TypeStep, PassesStep, DealtStep, OrderedStep, LinksStep DEF AttachInv
<1> QED BY <1>1, AttachInitial, PTL DEF AttachSpec

\* The types of the variables, for any script.
THEOREM AttachTypes == AttachSpec => []TypeOK
<1>1. TypeInv => TypeOK
  BY DEF TypeInv
<1> QED BY <1>1, AttachInvariant, PTL

\* A probe is attached to all of its CPUs or to none, whichever calls fail and
\* whenever the signal comes, and in the end nothing is left attached.
THEOREM ProbesAreWhole == AttachSpec => []WholeProbes
<1>1. TypeInv /\ AttachInv => WholeProbes
  <2> SUFFICES ASSUME TypeInv, AttachInv PROVE WholeProbes
    OBVIOUS
  <2>1. Making => at \notin Range(attached_probes_)
    BY NotYet DEF AttachInv
  <2>2. pc = "gone" => links = {}
    BY RangeEmpty DEF AttachInv, Passes, Links, Making
  <2> QED BY <2>1, <2>2 DEF AttachInv, Links, Made, WholeProbes
<1> QED BY <1>1, AttachInvariant, PTL

\* Probes of one type run in the order of the script; and the run starts with every
\* probe attached that missing_probes does not excuse, or fails for a reason.
THEOREM AttachesAsAsked == AttachSpec => []AttachedAsAsked
<1>1. TypeInv /\ AttachInv => AttachedAsAsked
  <2> SUFFICES ASSUME TypeInv, AttachInv PROVE AttachedAsAsked
    OBVIOUS
  <2>1. /\ to_attach \in Seq(Types) /\ attached_probes_ \in Seq(DOMAIN to_attach)
        /\ \A k \in DOMAIN attached_probes_ :
               k \in Int /\ attached_probes_[k] \in Int
    BY DEF TypeInv, TypeOK
  <2>2. DeclaredOrder
    BY <2>1 DEF AttachInv, Ordered, DeclaredOrder, Fires, InReverse
  <2>3. pc = "running" => Visited = DOMAIN to_attach
    <3>1. \A p \in DOMAIN to_attach : p > 0
      BY <2>1
    <3> QED BY <3>1 DEF AttachInv, Passes, Visited
  <2>4. StartsAsAsked
    BY <2>3 DEF AttachInv, Dealt, StartsAsAsked
  <2> QED BY <2>2, <2>4 DEF AttachedAsAsked
<1> QED BY <1>1, AttachInvariant, PTL

=============================================================================
