--------------------------- MODULE EventLoopProofs ---------------------------
(***************************************************************************)
(* Machine-checked properties of EventLoop, for every set of scripts and    *)
(* every value of the bounds.                                              *)
(***************************************************************************)
EXTENDS EventLoop, TLAPS, FiniteSetTheorems

PreStart == {"prepare", "begin", "setup", "attach_fwd", "attach_rev", "start"}

\* TypeOK with what makes it inductive: the loop index of an attach pass stays
\* inside the list of probes.
TypeInv ==
    /\ TypeOK
    /\ pc \in {"prepare", "begin", "setup", "attach_fwd"} => next >= 1
    /\ pc = "attach_rev" => next <= Len(script.probes)

\* The sum of the loss counters is a natural number, the counters only add to it,
\* and a sum over fewer CPUs is not larger.
LEMMA SumProperties ==
    ASSUME NEW f \in [Cpus -> 0 .. MaxLoss], NEW n \in Nat
    PROVE  /\ Sum(f, n) \in Nat
           /\ Sum(f, n) <= Sum(f, NCpus)
           /\ \A g \in [Cpus -> 0 .. MaxLoss] :
                 (\A c \in Cpus : f[c] <= g[c]) => Sum(f, n) <= Sum(g, n)
<1> DEFINE All == Cpus \X (1 .. MaxLoss)
           S(h, m) == {p \in All : p[1] < m /\ p[2] <= h[p[1]]}
<1>1. IsFiniteSet(All)
  <2>1. IsFiniteSet(Cpus) /\ IsFiniteSet(1 .. MaxLoss)
    BY FS_Interval, BoundsAssumption DEF Cpus
  <2> QED BY <2>1, FS_Product
<1>2. ASSUME NEW h, NEW m, NEW k, NEW m2, S(h, m) \subseteq S(k, m2)
      PROVE  Cardinality(S(h, m)) <= Cardinality(S(k, m2))
             /\ Cardinality(S(h, m)) \in Nat
  <2>1. IsFiniteSet(S(k, m2)) /\ IsFiniteSet(S(h, m))
    BY <1>1, FS_Subset
  <2> QED BY <2>1, <1>2, FS_Subset, FS_CardinalityType
<1>3. \A h, m : Sum(h, m) = Cardinality(S(h, m))
  BY DEF Sum
<1> HIDE DEF S
<1>4. S(f, n) \subseteq S(f, NCpus)
  BY BoundsAssumption DEF S, Cpus
<1>5. ASSUME NEW g \in [Cpus -> 0 .. MaxLoss], \A c \in Cpus : f[c] <= g[c]
      PROVE  S(f, n) \subseteq S(g, n)
  BY <1>5, BoundsAssumption DEF S, Cpus
<1> QED BY <1>2, <1>3, <1>4, <1>5

\* Length and type of a queue after adding to it and after reading from it.
LEMMA QueueFacts ==
    ASSUME NEW S, NEW q \in Seq(S)
    PROVE  /\ Len(q) \in Nat
           /\ \A e \in S : Append(q, e) \in Seq(S) /\ Len(Append(q, e)) = Len(q) + 1
           /\ q # <<>> => Len(q) > 0
           /\ Len(q) > 0 => Tail(q) \in Seq(S) /\ Len(Tail(q)) = Len(q) - 1
                            /\ Head(q) \in S
OBVIOUS

\* What ScriptsAssumption says of the script that runs.
LEMMA ScriptTyped ==
    ASSUME script \in Scripts
    PROVE  /\ script.begin \subseteq Acts /\ script.end \subseteq Acts
           /\ script.signal \subseteq Acts /\ script.using_skboutput \in BOOLEAN
           /\ Len(script.probes) \in Nat
           /\ \A i \in 1 .. Len(script.probes) : script.probes[i].acts \subseteq Acts
<1>1. script \in ScriptType
  BY ScriptsAssumption
<1>2. /\ script.begin \subseteq Acts /\ script.end \subseteq Acts
      /\ script.signal \subseteq Acts /\ script.using_skboutput \in BOOLEAN
      /\ script.probes \in Seq(ProbeType)
  BY <1>1 DEF ScriptType
<1>3. \A i \in 1 .. Len(script.probes) : script.probes[i] \in ProbeType
  BY <1>2
<1> QED BY <1>2, <1>3 DEF ProbeType

\* A program that emits an event leaves buffers, counters and history well typed.
LEMMA OutputType ==
    ASSUME TypeOK, NEW o \in Origins, NEW a \in Acts, Output([from |-> o, act |-> a])
    PROVE  /\ ring' \in Seq(Events) /\ Len(ring') <= RingCap
           /\ skb' \in Seq(Events) /\ Len(skb') <= SkbCap /\ Len(skb') >= Len(skb)
           /\ loss' \in [Cpus -> 0 .. MaxLoss]
           /\ fate' \in [{"begin", "end"} -> Fates]
<1> DEFINE e == [from |-> o, act |-> a]
<1>1. e \in Events /\ e.from = o
  BY DEF Events
<1>2. RingbufOutput(e) \/ SkbOutput(e)
  BY DEF Output
<1> HIDE DEF e
<1>3. /\ ring' \in Seq(Events) /\ Len(ring') <= RingCap
      /\ skb' \in Seq(Events) /\ Len(skb') <= SkbCap /\ Len(skb') >= Len(skb)
  <2>1. ring \in Seq(Events) /\ skb \in Seq(Events) /\ Len(ring) \in Nat /\ Len(skb) \in Nat
        /\ Len(ring) <= RingCap /\ Len(skb) <= SkbCap
    BY DEF TypeOK, BuffersOK
  <2>2. /\ Append(ring, e) \in Seq(Events) /\ Len(Append(ring, e)) = Len(ring) + 1
        /\ Append(skb, e) \in Seq(Events) /\ Len(Append(skb, e)) = Len(skb) + 1
    BY <1>1, <2>1, QueueFacts
  <2>3. CASE RingbufOutput(e)
    <3>1. (Len(ring) < RingCap /\ ring' = Append(ring, e)) \/ ring' = ring
      BY <2>3 DEF RingbufOutput
    <3>2. skb' = skb
      BY <2>3 DEF RingbufOutput
    <3> QED BY <3>1, <3>2, <2>1, <2>2, BoundsAssumption
  <2>4. CASE SkbOutput(e)
    <3>1. (Len(skb) < SkbCap /\ skb' = Append(skb, e)) \/ skb' = skb
      BY <2>4 DEF SkbOutput
    <3>2. ring' = ring
      BY <2>4 DEF SkbOutput
    <3>3. CASE Len(skb) < SkbCap /\ skb' = Append(skb, e)
      <4>1. Len(skb') = Len(skb) + 1 /\ skb' \in Seq(Events)
        BY <3>3, <2>2
      <4>2. Len(skb') <= SkbCap /\ Len(skb') >= Len(skb)
        BY <4>1, <3>3, <2>1, BoundsAssumption
      <4> QED BY <4>1, <4>2, <3>2, <2>1
    <3>4. CASE skb' = skb
      BY <3>4, <3>2, <2>1
    <3> QED BY <3>1, <3>3, <3>4
  <2> QED BY <1>2, <2>3, <2>4
<1>4. loss' \in [Cpus -> 0 .. MaxLoss]
  BY <1>2, BoundsAssumption DEF RingbufOutput, SkbOutput, TypeOK, LossOK
<1>5. fate' \in [{"begin", "end"} -> Fates]
  BY <1>2 DEF RingbufOutput, SkbOutput, TypeOK, HistoryOK, Fate, Fates
<1> QED BY <1>3, <1>4, <1>5

\* The same for a step that emits an event or leaves buffers and counters alone.
LEMMA EmitType ==
    ASSUME TypeOK,
           \/ \E o \in Origins : \E a \in Acts : Output([from |-> o, act |-> a])
           \/ UNCHANGED <<ring, skb, loss, fate>>,
           UNCHANGED <<skb_left, losses, signals>>,
           late' \subseteq {"signal", "usr1", "exit"}
    PROVE  BuffersOK' /\ LossOK' /\ HistoryOK'
<1>1. /\ ring' \in Seq(Events) /\ Len(ring') <= RingCap
      /\ skb' \in Seq(Events) /\ Len(skb') <= SkbCap /\ Len(skb') >= Len(skb)
      /\ loss' \in [Cpus -> 0 .. MaxLoss]
      /\ fate' \in [{"begin", "end"} -> Fates]
  <2>1. CASE UNCHANGED <<ring, skb, loss, fate>>
    <3>1. Len(skb) \in Nat
      BY DEF TypeOK, BuffersOK
    <3> QED BY <2>1, <3>1 DEF TypeOK, BuffersOK, LossOK, HistoryOK
  <2>2. CASE \E o \in Origins : \E a \in Acts : Output([from |-> o, act |-> a])
    BY <2>2, OutputType
  <2> QED BY <2>1, <2>2
<1>2. skb_left' \in 0 .. Len(skb')
  BY <1>1 DEF TypeOK, BuffersOK
<1>3. BuffersOK'
  BY <1>1, <1>2 DEF BuffersOK
<1>4. LossOK' /\ HistoryOK'
  BY <1>1 DEF TypeOK, LossOK, HistoryOK, losses, signals
<1> QED BY <1>3, <1>4

\* Reading one event from a buffer.
LEMMA ConsumeType ==
    ASSUME TypeOK,
           \/ Len(ring) > 0 /\ ring' = Tail(ring) /\ UNCHANGED <<skb, skb_left>>
           \/ skb_left > 0 /\ skb' = Tail(skb) /\ skb_left' = skb_left - 1 /\ UNCHANGED ring
           \/ UNCHANGED <<ring, skb, skb_left>>
    PROVE  BuffersOK'
<1>1. /\ ring \in Seq(Events) /\ Len(ring) <= RingCap /\ Len(ring) \in Nat
      /\ skb \in Seq(Events) /\ Len(skb) <= SkbCap /\ Len(skb) \in Nat
      /\ skb_left \in 0 .. Len(skb)
  BY DEF TypeOK, BuffersOK
<1>2. CASE Len(ring) > 0 /\ ring' = Tail(ring) /\ UNCHANGED <<skb, skb_left>>
  <2>1. ring' \in Seq(Events) /\ Len(ring') = Len(ring) - 1
    BY <1>1, <1>2, QueueFacts
  <2>2. Len(ring') <= RingCap
    BY <1>1, <2>1, BoundsAssumption
  <2>3. skb' = skb /\ skb_left' = skb_left
    BY <1>2
  <2> QED BY <1>1, <2>1, <2>2, <2>3 DEF BuffersOK
<1>3. CASE skb_left > 0 /\ skb' = Tail(skb) /\ skb_left' = skb_left - 1 /\ UNCHANGED ring
  <2>1. skb' \in Seq(Events) /\ Len(skb') = Len(skb) - 1
    BY <1>1, <1>3, QueueFacts
  <2>2. Len(skb') <= SkbCap
    BY <1>1, <2>1, BoundsAssumption
  <2>3. skb_left' \in 0 .. Len(skb')
    <3>1. skb_left - 1 \in 0 .. (Len(skb) - 1)
      BY <1>1, <1>3
    <3> QED BY <3>1, <1>3, <2>1
  <2>4. ring' = ring
    BY <1>3
  <2> QED BY <1>1, <2>1, <2>2, <2>3, <2>4 DEF BuffersOK
<1>4. CASE UNCHANGED <<ring, skb, skb_left>>
  BY <1>1, <1>4 DEF BuffersOK
<1> QED BY <1>2, <1>3, <1>4

\* The three outcomes of one iteration of an attach pass.
LEMMA AttachCases ==
    ASSUME NEW here, NEW rev, NEW last, NEW after, NEW step,
           AttachStep(here, rev, last, after, step), TypeOK
    PROVE  /\ UNCHANGED <<script, phase>> /\ rval' \in {-1, 0, 1} /\ pc = here
           /\ \/ pc' = "done" /\ next' = next /\ attached' = {}
              \/ /\ next # last /\ next' = next + step /\ pc' \in {"done", here}
                 /\ attached' = attached \/ attached' = attached \cup {next}
              \/ pc' = after /\ next' = Len(script.probes) /\ attached' = attached
BY DEF AttachStep, AttachProbe, request_finalize, Return, TypeOK, ControlOK

\* event_printer leaves flags and history well typed.
LEMMA PrinterType ==
    ASSUME TypeOK, NEW e, event_printer(e)
    PROVE  /\ finalize_' \in BOOLEAN /\ alive' \in BOOLEAN /\ exit_code' \in {0, 1}
           /\ fate' \in [{"begin", "end"} -> Fates]
           /\ late' \subseteq {"signal", "usr1", "exit"}
<1>1. finalize_' \in BOOLEAN /\ alive' \in BOOLEAN /\ exit_code' \in {0, 1}
  BY DEF event_printer, request_finalize, TypeOK, FlagsOK
<1>2. /\ fate' \in [{"begin", "end"} -> Fates]
      /\ late' \subseteq {"signal", "usr1", "exit"}
  BY DEF event_printer, TypeOK, HistoryOK, Fate, Fates, Late
<1> QED BY <1>1, <1>2

\* The first states have their types.
LEMMA TypeInit == Init => TypeInv
<1> SUFFICES ASSUME Init PROVE TypeInv
  OBVIOUS
<1>1. ControlOK /\ next >= 1 /\ pc # "attach_rev"
  BY ScriptTyped DEF Init, ControlOK, PCs
<1>2. BuffersOK
  BY BoundsAssumption DEF Init, BuffersOK
<1>5. LocalsOK /\ FlagsOK
  BY DEF Init, LocalsOK, FlagsOK
<1>3. LossOK
  BY BoundsAssumption DEF Init, LossOK
<1>4. HistoryOK
  BY BoundsAssumption DEF Init, HistoryOK, Fates
<1> QED BY <1>1, <1>2, <1>3, <1>4, <1>5 DEF TypeInv, TypeOK

\* Every step keeps the state well typed: one step per action, and under it one
\* per part of TypeOK that the action can disturb.
LEMMA TypeStep == TypeInv /\ [Next]_vars => TypeInv'
<1> DEFINE Index == /\ pc \in {"prepare", "begin", "setup", "attach_fwd"} => next >= 1
                    /\ pc = "attach_rev" => next <= Len(script.probes)
<1> SUFFICES ASSUME TypeOK, Index, [Next]_vars PROVE TypeOK' /\ Index'
  BY DEF TypeInv
<1>c. /\ script.begin \subseteq Acts /\ script.end \subseteq Acts
      /\ script.signal \subseteq Acts /\ script.using_skboutput \in BOOLEAN
      /\ Len(script.probes) \in Nat
      /\ \A i \in 1 .. Len(script.probes) : script.probes[i].acts \subseteq Acts
  BY ScriptTyped DEF TypeOK, ControlOK
<1>s. get_event_loss_counter(loss) \in Nat
  BY SumProperties, MaxCpuIdAssumption DEF TypeOK, LossOK, get_event_loss_counter
<1>1. CASE Prepare
  <2>1. ControlOK' /\ Index'
    BY <1>1, <1>c
    DEF Prepare, Return, PCs, TypeOK, ControlOK
  <2>2. BuffersOK' /\ LocalsOK' /\ FlagsOK' /\ LossOK' /\ HistoryOK'
    BY <1>1
    DEF Prepare, TypeOK, BuffersOK, LocalsOK, FlagsOK, LossOK, HistoryOK, locals, flags,
       losses, signals, history
  <2> QED BY <2>1, <2>2 DEF TypeOK
<1>2. CASE RunBegin
  <2>1. ControlOK' /\ Index'
    BY <1>2, <1>c
    DEF RunBegin, Return, PCs, TypeOK, ControlOK
  <2>2. BuffersOK' /\ LossOK' /\ HistoryOK'
    <3>1. \/ \E o \in Origins : \E a \in Acts : Output([from |-> o, act |-> a])
          \/ UNCHANGED <<ring, skb, loss, fate>>
      BY <1>2, <1>c DEF RunBegin, Origins
    <3>2. /\ UNCHANGED <<skb_left, losses, signals>>
          /\ late' \subseteq {"signal", "usr1", "exit"}
      BY <1>2 DEF RunBegin, TypeOK, HistoryOK
    <3> QED BY <3>1, <3>2, EmitType
  <2>3. LocalsOK' /\ FlagsOK'
    BY <1>2
    DEF RunBegin, TypeOK, LocalsOK, FlagsOK, locals, flags, losses, signals, history
  <2> QED BY <2>1, <2>2, <2>3 DEF TypeOK
<1>3. CASE SetupChild
  <2>1. ControlOK' /\ Index'
    BY <1>3, <1>c
    DEF SetupChild, Return, PCs, TypeOK, ControlOK
  <2>2. BuffersOK' /\ LocalsOK' /\ FlagsOK' /\ LossOK' /\ HistoryOK'
    BY <1>3
    DEF SetupChild, TypeOK, BuffersOK, LocalsOK, FlagsOK, LossOK, HistoryOK, locals,
       flags, losses, signals, history
  <2> QED BY <2>1, <2>2 DEF TypeOK
<1>4. CASE AttachForward
  <2>1. ControlOK' /\ Index'
    <3>1. /\ UNCHANGED <<script, phase>> /\ rval' \in {-1, 0, 1} /\ pc = "attach_fwd"
          /\ \/ pc' = "done" /\ next' = next /\ attached' = {}
             \/ /\ next # Len(script.probes) + 1 /\ next' = next + 1
                /\ pc' \in {"done", "attach_fwd"}
                /\ attached' = attached \/ attached' = attached \cup {next}
             \/ pc' = "attach_rev" /\ next' = Len(script.probes) /\ attached' = attached
      BY <1>4, AttachCases DEF AttachForward
    <3>2. next \in 0 .. Len(script.probes) + 1 /\ attached \subseteq 1 .. Len(script.probes)
      BY DEF TypeOK, ControlOK
    <3>6. next # Len(script.probes) + 1 => next \in 1 .. Len(script.probes)
      BY <3>1, <3>2, <1>c
    <3>7. attached' \subseteq attached \cup {next}
          /\ (attached' \subseteq attached \/ next # Len(script.probes) + 1)
      BY <3>1
    <3>8. attached' \subseteq 1 .. Len(script.probes)
      BY <3>2, <3>6, <3>7
    <3>9. next' \in 0 .. Len(script.probes) + 1
      BY <3>1, <3>2, <3>6, <1>c
    <3>3. next' \in 0 .. Len(script.probes) + 1 /\ attached' \subseteq 1 .. Len(script.probes)
      BY <3>8, <3>9
    <3>4. Index'
      BY <3>1, <3>2, <1>c
    <3>5. pc' \in PCs
      BY <3>1 DEF PCs
    <3> QED BY <3>1, <3>3, <3>4, <3>5 DEF TypeOK, ControlOK
  <2>2. FlagsOK'
    BY <1>4
    DEF AttachForward, AttachStep, Return, request_finalize, TypeOK, FlagsOK, flags
  <2>3. BuffersOK' /\ LocalsOK' /\ LossOK' /\ HistoryOK'
    BY <1>4
    DEF AttachForward, TypeOK, BuffersOK, LocalsOK, LossOK, HistoryOK, locals, flags,
       losses, signals, history, AttachStep
  <2> QED BY <2>1, <2>2, <2>3 DEF TypeOK
<1>5. CASE AttachReverse
  <2>1. ControlOK' /\ Index'
    <3>1. /\ UNCHANGED <<script, phase>> /\ rval' \in {-1, 0, 1} /\ pc = "attach_rev"
          /\ \/ pc' = "done" /\ next' = next /\ attached' = {}
             \/ /\ next # 0 /\ next' = next + (-1)
                /\ pc' \in {"done", "attach_rev"}
                /\ attached' = attached \/ attached' = attached \cup {next}
             \/ pc' = "start" /\ next' = Len(script.probes) /\ attached' = attached
      BY <1>5, AttachCases DEF AttachReverse
    <3>2. next \in 0 .. Len(script.probes) + 1 /\ attached \subseteq 1 .. Len(script.probes)
      BY DEF TypeOK, ControlOK
    <3>6. next # 0 => next \in 1 .. Len(script.probes)
      BY <3>1, <3>2, <1>c
    <3>7. attached' \subseteq attached \cup {next}
          /\ (attached' \subseteq attached \/ next # 0)
      BY <3>1
    <3>8. attached' \subseteq 1 .. Len(script.probes)
      BY <3>2, <3>6, <3>7
    <3>9. next' \in 0 .. Len(script.probes) + 1
      BY <3>1, <3>2, <3>6, <1>c
    <3>3. next' \in 0 .. Len(script.probes) + 1 /\ attached' \subseteq 1 .. Len(script.probes)
      BY <3>8, <3>9
    <3>4. Index'
      BY <3>1, <3>2, <1>c
    <3>5. pc' \in PCs
      BY <3>1 DEF PCs
    <3> QED BY <3>1, <3>3, <3>4, <3>5 DEF TypeOK, ControlOK
  <2>2. FlagsOK'
    BY <1>5
    DEF AttachReverse, AttachStep, Return, request_finalize, TypeOK, FlagsOK, flags
  <2>3. BuffersOK' /\ LocalsOK' /\ LossOK' /\ HistoryOK'
    BY <1>5
    DEF AttachReverse, TypeOK, BuffersOK, LocalsOK, LossOK, HistoryOK, locals, flags,
       losses, signals, history, AttachStep
  <2> QED BY <2>1, <2>2, <2>3 DEF TypeOK
<1>6. CASE Start
  <2>1. ControlOK' /\ Index'
    BY <1>6, <1>c
    DEF Start, Return, request_finalize, PollOutput, PCs, TypeOK, ControlOK
  <2>2. LocalsOK'
    BY <1>6, <1>c
    DEF Start, PollOutput, PollsSkb, locals, TypeOK, LocalsOK
  <2>3. FlagsOK'
    BY <1>6
    DEF Start, request_finalize, Return, PollOutput, TypeOK, FlagsOK, flags
  <2>4. BuffersOK' /\ LossOK' /\ HistoryOK'
    BY <1>6
    DEF Start, TypeOK, BuffersOK, LossOK, HistoryOK, locals, flags, losses, signals, history
  <2> QED BY <2>1, <2>2, <2>3, <2>4 DEF TypeOK
<1>7. CASE RunIter
  <2>1. ControlOK' /\ Index'
    BY <1>7, <1>c
    DEF RunIter, Return, PCs, TypeOK, ControlOK
  <2>2. BuffersOK' /\ LocalsOK' /\ FlagsOK' /\ LossOK' /\ HistoryOK'
    BY <1>7
    DEF RunIter, TypeOK, BuffersOK, LocalsOK, FlagsOK, LossOK, HistoryOK, locals, flags,
       losses, signals, history
  <2> QED BY <2>1, <2>2 DEF TypeOK
<1>8. CASE SkbPoll
  <2>1. ControlOK' /\ Index'
    BY <1>8, <1>c
    DEF SkbPoll, PCs, TypeOK, ControlOK
  <2>2. BuffersOK'
    BY <1>8, BoundsAssumption
    DEF SkbPoll, SkbHead, TypeOK, BuffersOK
  <2>3. LocalsOK'
    BY <1>8, <1>c
    DEF SkbPoll, TypeOK, LocalsOK, locals
  <2>4. FlagsOK' /\ LossOK' /\ HistoryOK'
    BY <1>8
    DEF SkbPoll, TypeOK, FlagsOK, LossOK, HistoryOK, locals, flags, losses, signals, history
  <2> QED BY <2>1, <2>2, <2>3, <2>4 DEF TypeOK
<1>9. CASE SkbConsume
  <2>1. ControlOK' /\ Index'
    BY <1>9, <1>c
    DEF SkbConsume, PCs, event_printer, request_finalize, TypeOK, ControlOK
  <2>2. BuffersOK'
    BY <1>9, ConsumeType DEF SkbConsume
  <2>3. FlagsOK' /\ HistoryOK'
    BY <1>9, <1>c, PrinterType, BoundsAssumption
    DEF SkbConsume, TypeOK, FlagsOK, HistoryOK, flags, signals, history
  <2>4. LocalsOK' /\ LossOK'
    BY <1>9
    DEF SkbConsume, TypeOK, LocalsOK, LossOK, locals, flags, losses, signals, history
  <2> QED BY <2>1, <2>2, <2>3, <2>4 DEF TypeOK
<1>10. CASE SkbReturn
  <2>1. ControlOK' /\ Index'
    BY <1>10, <1>c
    DEF SkbReturn, PCs, TypeOK, ControlOK
  <2>2. LocalsOK'
    BY <1>10, <1>c
    DEF SkbReturn, should_stop, TypeOK, LocalsOK, locals
  <2>3. BuffersOK' /\ FlagsOK' /\ LossOK' /\ HistoryOK'
    BY <1>10
    DEF SkbReturn, TypeOK, BuffersOK, FlagsOK, LossOK, HistoryOK, locals, flags, losses,
       signals, history
  <2> QED BY <2>1, <2>2, <2>3 DEF TypeOK
<1>11. CASE PollEventLoss
  <2>1. ControlOK' /\ Index'
    BY <1>11, <1>c
    DEF PollEventLoss, PCs, TypeOK, ControlOK
  <2>2. LossOK'
    BY <1>11, <1>c, <1>s
    DEF PollEventLoss, poll_event_loss, TypeOK, LossOK, losses
  <2>3. BuffersOK' /\ LocalsOK' /\ FlagsOK' /\ HistoryOK'
    BY <1>11
    DEF PollEventLoss, TypeOK, BuffersOK, LocalsOK, FlagsOK, HistoryOK, locals, flags,
       losses, signals, history
  <2> QED BY <2>1, <2>2, <2>3 DEF TypeOK
<1>12. CASE RingPoll
  <2>1. ControlOK' /\ Index'
    BY <1>12, <1>c
    DEF RingPoll, PCs, TypeOK, ControlOK
  <2>2. LocalsOK'
    BY <1>12, <1>c
    DEF RingPoll, TypeOK, LocalsOK, locals
  <2>3. BuffersOK' /\ FlagsOK' /\ LossOK' /\ HistoryOK'
    BY <1>12
    DEF RingPoll, TypeOK, BuffersOK, FlagsOK, LossOK, HistoryOK, locals, flags, losses,
       signals, history
  <2> QED BY <2>1, <2>2, <2>3 DEF TypeOK
<1>13. CASE RingConsume
  <2>1. ControlOK' /\ Index'
    BY <1>13, <1>c
    DEF RingConsume, PCs, event_printer, request_finalize, TypeOK, ControlOK
  <2>2. BuffersOK'
    <3>1. MoreInRing => Len(ring) > 0
      BY QueueFacts DEF MoreInRing, TypeOK, BuffersOK
    <3> QED BY <1>13, <3>1, ConsumeType DEF RingConsume
  <2>3. FlagsOK' /\ HistoryOK'
    BY <1>13, <1>c, PrinterType, BoundsAssumption
    DEF RingConsume, MoreInRing, TypeOK, FlagsOK, HistoryOK, flags, signals, history
  <2>4. LocalsOK' /\ LossOK'
    BY <1>13
    DEF RingConsume, TypeOK, LocalsOK, LossOK, locals, flags, losses, signals, history
  <2> QED BY <2>1, <2>2, <2>3, <2>4 DEF TypeOK
<1>14. CASE RingReturn
  <2>1. ControlOK' /\ Index'
    BY <1>14, <1>c
    DEF RingReturn, PCs, TypeOK, ControlOK
  <2>2. LocalsOK'
    BY <1>14, <1>c
    DEF RingReturn, should_stop, TypeOK, LocalsOK, locals
  <2>3. BuffersOK' /\ FlagsOK' /\ LossOK' /\ HistoryOK'
    BY <1>14
    DEF RingReturn, TypeOK, BuffersOK, FlagsOK, LossOK, HistoryOK, locals, flags, losses,
       signals, history
  <2> QED BY <2>1, <2>2, <2>3 DEF TypeOK
<1>15. CASE Check
  <2>1. ControlOK' /\ Index'
    BY <1>15, <1>c
    DEF Check, PCs, AfterPoll, TypeOK, ControlOK
  <2>2. BuffersOK' /\ LossOK' /\ HistoryOK'
    <3>1. \/ \E o \in Origins : \E a \in Acts : Output([from |-> o, act |-> a])
          \/ UNCHANGED <<ring, skb, loss, fate>>
      BY <1>15, <1>c DEF Check, Origins
    <3>2. /\ UNCHANGED <<skb_left, losses, signals>>
          /\ late' \subseteq {"signal", "usr1", "exit"}
      BY <1>15 DEF Check, TypeOK, HistoryOK, Late
    <3> QED BY <3>1, <3>2, EmitType
  <2>3. FlagsOK'
    BY <1>15
    DEF Check, TypeOK, FlagsOK, flags
  <2>4. LocalsOK'
    BY <1>15
    DEF Check, TypeOK, LocalsOK, locals, flags, losses, signals, history
  <2> QED BY <2>1, <2>2, <2>3, <2>4 DEF TypeOK
<1>16. CASE ClearProbes
  <2>1. ControlOK' /\ Index'
    BY <1>16, <1>c
    DEF ClearProbes, PCs, DetachAll, TypeOK, ControlOK
  <2>2. BuffersOK' /\ LocalsOK' /\ FlagsOK' /\ LossOK' /\ HistoryOK'
    BY <1>16
    DEF ClearProbes, TypeOK, BuffersOK, LocalsOK, FlagsOK, LossOK, HistoryOK, locals,
       flags, losses, signals, history
  <2> QED BY <2>1, <2>2 DEF TypeOK
<1>17. CASE ResetFlags
  <2>1. ControlOK' /\ Index'
    BY <1>17, <1>c
    DEF ResetFlags, PCs, TypeOK, ControlOK
  <2>2. FlagsOK'
    BY <1>17
    DEF ResetFlags, ClearFlags, TypeOK, FlagsOK, flags
  <2>3. BuffersOK' /\ LocalsOK' /\ LossOK' /\ HistoryOK'
    BY <1>17
    DEF ResetFlags, TypeOK, BuffersOK, LocalsOK, LossOK, HistoryOK, locals, flags,
       losses, signals, history
  <2> QED BY <2>1, <2>2, <2>3 DEF TypeOK
<1>18. CASE RunEnd
  <2>1. ControlOK' /\ Index'
    BY <1>18, <1>c
    DEF RunEnd, Return, PCs, PollOutput, TypeOK, ControlOK
  <2>2. BuffersOK' /\ LossOK' /\ HistoryOK'
    <3>1. \/ \E o \in Origins : \E a \in Acts : Output([from |-> o, act |-> a])
          \/ UNCHANGED <<ring, skb, loss, fate>>
      BY <1>18, <1>c DEF RunEnd, Origins
    <3>2. /\ UNCHANGED <<skb_left, losses, signals>>
          /\ late' \subseteq {"signal", "usr1", "exit"}
      BY <1>18 DEF RunEnd, TypeOK, HistoryOK
    <3> QED BY <3>1, <3>2, EmitType
  <2>3. LocalsOK'
    BY <1>18, <1>c
    DEF RunEnd, PollOutput, PollsSkb, TypeOK, LocalsOK, locals
  <2>4. FlagsOK'
    BY <1>18
    DEF RunEnd, TypeOK, FlagsOK, locals, flags, losses, signals, history
  <2> QED BY <2>1, <2>2, <2>3, <2>4 DEF TypeOK
<1>19. CASE TotalLost
  <2>1. ControlOK' /\ Index'
    BY <1>19, <1>c
    DEF TotalLost, Return, PCs, TypeOK, ControlOK
  <2>2. LossOK'
    BY <1>19, <1>c, <1>s
    DEF TotalLost, TypeOK, LossOK, losses
  <2>3. BuffersOK' /\ LocalsOK' /\ FlagsOK' /\ HistoryOK'
    BY <1>19
    DEF TotalLost, TypeOK, BuffersOK, LocalsOK, FlagsOK, HistoryOK, locals, flags,
       losses, signals, history
  <2> QED BY <2>1, <2>2, <2>3 DEF TypeOK
<1>20. CASE ProbeFires
  <2>1. BuffersOK' /\ LossOK' /\ HistoryOK'
    <3>1. \/ \E o \in Origins : \E a \in Acts : Output([from |-> o, act |-> a])
          \/ UNCHANGED <<ring, skb, loss, fate>>
      BY <1>20, <1>c DEF ProbeFires, Origins, TypeOK, ControlOK
    <3>2. /\ UNCHANGED <<skb_left, losses, signals>>
          /\ late' \subseteq {"signal", "usr1", "exit"}
      BY <1>20 DEF ProbeFires, TypeOK, HistoryOK
    <3> QED BY <3>1, <3>2, EmitType
  <2>2. ControlOK' /\ LocalsOK' /\ FlagsOK' /\ Index'
    BY <1>20
    DEF ProbeFires, TypeOK, ControlOK, LocalsOK, FlagsOK, locals, flags, losses, signals,
       history
  <2> QED BY <2>1, <2>2 DEF TypeOK
<1>21. CASE TracedExits
  <2>1. FlagsOK'
    BY <1>21
    DEF TracedExits, TypeOK, FlagsOK, flags
  <2>2. ControlOK' /\ BuffersOK' /\ LocalsOK' /\ LossOK' /\ HistoryOK' /\ Index'
    BY <1>21
    DEF TracedExits, TypeOK, ControlOK, BuffersOK, LocalsOK, LossOK, HistoryOK, locals,
       flags, losses, signals, history
  <2> QED BY <2>1, <2>2 DEF TypeOK
<1>22. CASE ExitSignal
  <2>1. ControlOK' /\ Index'
    BY <1>22, <1>c
    DEF ExitSignal, Interrupt, PCs, TypeOK, ControlOK
  <2>2. LocalsOK'
    BY <1>22, <1>c
    DEF ExitSignal, Interrupt, TypeOK, LocalsOK, locals
  <2>3. FlagsOK'
    BY <1>22
    DEF ExitSignal, TypeOK, FlagsOK, flags
  <2>4. HistoryOK'
    BY <1>22, BoundsAssumption
    DEF ExitSignal, Late, TypeOK, HistoryOK, signals, history
  <2>5. BuffersOK' /\ LossOK'
    BY <1>22
    DEF ExitSignal, TypeOK, BuffersOK, LossOK, locals, flags, losses, signals, history
  <2> QED BY <2>1, <2>2, <2>3, <2>4, <2>5 DEF TypeOK
<1>23. CASE Usr1Signal
  <2>1. ControlOK' /\ Index'
    BY <1>23, <1>c
    DEF Usr1Signal, Interrupt, PCs, TypeOK, ControlOK
  <2>2. LocalsOK'
    BY <1>23, <1>c
    DEF Usr1Signal, Interrupt, TypeOK, LocalsOK, locals
  <2>3. FlagsOK'
    BY <1>23
    DEF Usr1Signal, TypeOK, FlagsOK, flags
  <2>4. HistoryOK'
    BY <1>23, BoundsAssumption
    DEF Usr1Signal, TypeOK, HistoryOK, signals, history
  <2>5. BuffersOK' /\ LossOK'
    BY <1>23
    DEF Usr1Signal, TypeOK, BuffersOK, LossOK, locals, flags, losses, signals, history
  <2> QED BY <2>1, <2>2, <2>3, <2>4, <2>5 DEF TypeOK
<1>24. CASE UNCHANGED vars
  BY <1>24 DEF vars, TypeOK, ControlOK, BuffersOK, LocalsOK, FlagsOK, LossOK, HistoryOK,
     locals, flags, losses, signals, history
<1> QED
  BY <1>1, <1>2, <1>3, <1>4, <1>5, <1>6, <1>7, <1>8, <1>9, <1>10, <1>11, <1>12, <1>13,
     <1>14, <1>15, <1>16, <1>17, <1>18, <1>19, <1>20, <1>21, <1>22, <1>23,
        <1>24 DEF Next, Main, Environment, Done

\* Every state of a run is well typed.
THEOREM TypeCorrect == Spec => []TypeOK
<1>1. Spec => []TypeInv
  BY TypeInit, TypeStep, PTL DEF Spec
<1>2. TypeInv => TypeOK
  BY DEF TypeInv
<1> QED BY <1>1, <1>2, PTL
-----------------------------------------------------------------------------
(***************************************************************************)
(* Finalization.  The invariant says where finalize_ cannot be set yet: as *)
(* long as probes are still being attached.                                *)
(***************************************************************************)
DetachInv == FinalizeDetaches /\ (pc \in PreStart => ~finalize_)

\* Every step keeps DetachInv.
LEMMA DetachStep == TypeInv /\ DetachInv /\ [Next]_vars => DetachInv'
<1> SUFFICES ASSUME TypeInv, DetachInv, [Next]_vars PROVE DetachInv'
  OBVIOUS
<1> USE DEF DetachInv, FinalizeDetaches, PreStart
<1>1. CASE Prepare
  BY <1>1 DEF Prepare, Return, flags
<1>2. CASE RunBegin
  BY <1>2 DEF RunBegin, Return, flags
<1>3. CASE SetupChild
  BY <1>3 DEF SetupChild, Return, flags
<1>4. CASE AttachForward
  BY <1>4 DEF AttachForward, AttachStep, AttachProbe, request_finalize, Return, flags
<1>5. CASE AttachReverse
  BY <1>5 DEF AttachReverse, AttachStep, AttachProbe, request_finalize, Return, flags
<1>6. CASE Start
  <2>1. ~finalize_ /\ pc' \notin PreStart
    BY <1>6 DEF Start, PollOutput, Return
  <2>2. attached' = {} \/ finalize_' = finalize_
    BY <1>6 DEF Start, request_finalize
  <2> QED BY <2>1, <2>2
<1>7. CASE RunIter
  BY <1>7 DEF RunIter, Return, flags
<1>8. CASE SkbPoll
  BY <1>8 DEF SkbPoll, flags
<1>9. CASE SkbConsume
  BY <1>9 DEF SkbConsume, event_printer, request_finalize, flags
<1>10. CASE SkbReturn
  BY <1>10 DEF SkbReturn, flags
<1>11. CASE PollEventLoss
  BY <1>11 DEF PollEventLoss, flags
<1>12. CASE RingPoll
  BY <1>12 DEF RingPoll, flags
<1>13. CASE RingConsume
  BY <1>13 DEF RingConsume, event_printer, request_finalize, flags
<1>14. CASE RingReturn
  BY <1>14 DEF RingReturn, flags
<1>15. CASE Check
  BY <1>15 DEF Check, AfterPoll, flags
<1>16. CASE ClearProbes
  BY <1>16 DEF ClearProbes, DetachAll, flags
<1>17. CASE ResetFlags
  BY <1>17 DEF ResetFlags, ClearFlags, flags
<1>18. CASE RunEnd
  BY <1>18 DEF RunEnd, PollOutput, Return, flags
<1>19. CASE TotalLost
  BY <1>19 DEF TotalLost, Return, flags
<1>20. CASE ProbeFires
  BY <1>20 DEF ProbeFires, flags
<1>21. CASE TracedExits
  BY <1>21 DEF TracedExits, flags
<1>22. CASE ExitSignal
  BY <1>22 DEF ExitSignal, Interrupt, flags
<1>23. CASE Usr1Signal
  BY <1>23 DEF Usr1Signal, Interrupt, flags
<1>24. CASE UNCHANGED vars
  BY <1>24 DEF vars, flags
<1> QED
  BY <1>1, <1>2, <1>3, <1>4, <1>5, <1>6, <1>7, <1>8, <1>9, <1>10, <1>11, <1>12,
     <1>13, <1>14, <1>15, <1>16, <1>17, <1>18, <1>19, <1>20, <1>21, <1>22, <1>23, <1>24
  DEF Next, Main, Environment, Done

\* Once finalize_ is set no probe is attached, whatever sets it and whenever.
THEOREM FinalizationDetaches == Spec => []FinalizeDetaches
<1>1. Init => DetachInv
  BY DEF Init, DetachInv, FinalizeDetaches
<1>2. Spec => []TypeInv
  BY TypeInit, TypeStep, PTL DEF Spec
<1>3. DetachInv => FinalizeDetaches
  BY DEF DetachInv
<1> QED BY <1>1, <1>2, <1>3, DetachStep, PTL DEF Spec
-----------------------------------------------------------------------------
(***************************************************************************)
(* Losses.  The counters of the kernel only grow and the sum that is read  *)
(* leaves out CPUs but never counts one twice.                             *)
(***************************************************************************)
\* A program that emits an event does not decrease a loss counter.
LEMMA LossGrows ==
    ASSUME TypeOK, LossNotOverstated, NEW e,
           Output(e) \/ UNCHANGED loss, loss' \in [Cpus -> 0 .. MaxLoss],
           UNCHANGED <<out_lost, event_loss_count_>>
    PROVE  LossNotOverstated'
<1>1. loss \in [Cpus -> 0 .. MaxLoss] /\ NCpus \in Nat /\ MaxLoss \in Nat
  BY BoundsAssumption DEF TypeOK, LossOK
<1>2. \A c \in Cpus : loss[c] <= loss'[c]
  BY <1>1 DEF Output, RingbufOutput, SkbOutput
<1>3. Sum(loss, NCpus) <= Sum(loss', NCpus)
  BY <1>1, <1>2, SumProperties
<1>4. Sum(loss, NCpus) \in Nat /\ Sum(loss', NCpus) \in Nat /\ out_lost \in Nat
  BY <1>1, SumProperties DEF TypeOK, LossOK
<1>5. Sum(loss, NCpus)' = Sum(loss', NCpus)
  BY DEF Sum
<1> QED BY <1>3, <1>4, <1>5 DEF LossNotOverstated

\* Every step keeps what was told within what was lost.
LEMMA LossStep == TypeInv /\ TypeInv' /\ LossNotOverstated /\ [Next]_vars => LossNotOverstated'
<1> SUFFICES ASSUME TypeInv, TypeInv', LossNotOverstated, [Next]_vars
             PROVE  LossNotOverstated'
  OBVIOUS
<1>l. loss' \in [Cpus -> 0 .. MaxLoss] /\ TypeOK
  BY DEF TypeInv, TypeOK, LossOK
<1>1. CASE RunBegin
  <2>1. \/ UNCHANGED loss
        \/ \E a \in script.begin : Output([from |-> "begin", act |-> a])
    BY <1>1 DEF RunBegin, Return
  <2>2. UNCHANGED <<out_lost, event_loss_count_>>
    BY <1>1 DEF RunBegin, losses
  <2> QED BY <2>1, <2>2, <1>l, LossGrows
<1>2. CASE PollEventLoss
  <2>1. loss' = loss /\ loss \in [Cpus -> 0 .. MaxLoss] /\ NCpus \in Nat /\ max_cpu_id \in Nat
    BY <1>2, <1>l, BoundsAssumption, MaxCpuIdAssumption DEF PollEventLoss
  <2>2. /\ get_event_loss_counter(loss) \in Nat /\ Sum(loss, NCpus) \in Nat
        /\ get_event_loss_counter(loss) <= Sum(loss, NCpus)
    BY <2>1, SumProperties DEF get_event_loss_counter
  <2>3. event_loss_count_ \in Nat /\ out_lost \in Nat
    BY <1>l DEF TypeOK, LossOK
  <2>4. out_lost' = event_loss_count_'
        /\ (out_lost' = out_lost \/ out_lost' = get_event_loss_counter(loss))
    BY <1>2, <2>2, <2>3 DEF PollEventLoss, poll_event_loss, LossNotOverstated
  <2>5. Sum(loss, NCpus)' = Sum(loss, NCpus)
    BY <2>1 DEF Sum
  <2> QED BY <2>2, <2>3, <2>4, <2>5 DEF LossNotOverstated
<1>3. CASE Check
  <2>1. \/ UNCHANGED loss
        \/ \E a \in script.signal : Output([from |-> "signal", act |-> a])
    BY <1>3 DEF Check, AfterPoll
  <2>2. UNCHANGED <<out_lost, event_loss_count_>>
    BY <1>3 DEF Check, losses
  <2> QED BY <2>1, <2>2, <1>l, LossGrows
<1>4. CASE RunEnd
  <2>1. \/ UNCHANGED loss
        \/ \E a \in script.end : Output([from |-> "end", act |-> a])
    BY <1>4 DEF RunEnd, PollOutput, Return
  <2>2. UNCHANGED <<out_lost, event_loss_count_>>
    BY <1>4 DEF RunEnd, losses
  <2> QED BY <2>1, <2>2, <1>l, LossGrows
<1>5. CASE ProbeFires
  <2>1. \/ UNCHANGED loss
        \/ \E i \in attached : \E a \in script.probes[i].acts :
                Output([from |-> "probe", act |-> a])
    BY <1>5 DEF ProbeFires
  <2>2. UNCHANGED <<out_lost, event_loss_count_>>
    BY <1>5 DEF ProbeFires, losses
  <2> QED BY <2>1, <2>2, <1>l, LossGrows
<1>6. CASE \/ Prepare \/ SetupChild \/ AttachForward \/ AttachReverse \/ Start
         \/ RunIter \/ SkbPoll \/ SkbConsume \/ SkbReturn \/ RingPoll
         \/ RingConsume \/ RingReturn \/ ClearProbes \/ ResetFlags
         \/ TotalLost \/ TracedExits \/ ExitSignal \/ Usr1Signal
  <2>1. UNCHANGED <<loss, out_lost, event_loss_count_>>
    <3>1. CASE Prepare
      BY <3>1 DEF Prepare, losses
    <3>2. CASE SetupChild
      BY <3>2 DEF SetupChild, losses
    <3>3. CASE AttachForward
      BY <3>3 DEF AttachForward, AttachStep, losses
    <3>4. CASE AttachReverse
      BY <3>4 DEF AttachReverse, AttachStep, losses
    <3>5. CASE Start
      BY <3>5 DEF Start, losses
    <3>6. CASE RunIter
      BY <3>6 DEF RunIter, losses
    <3>7. CASE SkbPoll
      BY <3>7 DEF SkbPoll, losses
    <3>8. CASE SkbConsume
      BY <3>8 DEF SkbConsume, losses
    <3>9. CASE SkbReturn
      BY <3>9 DEF SkbReturn, losses
    <3>10. CASE RingPoll
      BY <3>10 DEF RingPoll, losses
    <3>11. CASE RingConsume
      BY <3>11 DEF RingConsume, losses
    <3>12. CASE RingReturn
      BY <3>12 DEF RingReturn, losses
    <3>13. CASE ClearProbes
      BY <3>13 DEF ClearProbes, losses
    <3>14. CASE ResetFlags
      BY <3>14 DEF ResetFlags, losses
    <3>15. CASE TotalLost
      BY <3>15 DEF TotalLost, losses
    <3>16. CASE TracedExits
      BY <3>16 DEF TracedExits, losses
    <3>17. CASE ExitSignal
      BY <3>17 DEF ExitSignal, losses
    <3>18. CASE Usr1Signal
      BY <3>18 DEF Usr1Signal, losses
    <3> QED BY <1>6, <3>1, <3>2, <3>3, <3>4, <3>5, <3>6, <3>7, <3>8, <3>9,
               <3>10, <3>11, <3>12, <3>13, <3>14, <3>15, <3>16, <3>17, <3>18
  <2> QED BY <2>1, <1>l, LossGrows
<1>7. CASE UNCHANGED vars
  <2>1. UNCHANGED <<loss, out_lost, event_loss_count_>>
    BY <1>7 DEF vars, losses
  <2> QED BY <2>1, <1>l, LossGrows
<1> QED BY <1>1, <1>2, <1>3, <1>4, <1>5, <1>6, <1>7 DEF Next, Main, Environment, Done

\* Every loss told to the output happened and is told once.
THEOREM LossesAreReal == Spec => []LossNotOverstated
<1>1. Init => LossNotOverstated
  <2> SUFFICES ASSUME Init PROVE LossNotOverstated
    OBVIOUS
  <2>1. TypeOK
    BY TypeInit DEF TypeInv
  <2>2. Sum(loss, NCpus) \in Nat
    BY <2>1, SumProperties, BoundsAssumption DEF TypeOK, LossOK
  <2>3. out_lost = 0 /\ event_loss_count_ = 0
    BY DEF Init
  <2> QED BY <2>2, <2>3 DEF LossNotOverstated
<1>2. Spec => []TypeInv
  BY TypeInit, TypeStep, PTL DEF Spec
<1> QED BY <1>1, <1>2, LossStep, PTL DEF Spec
-----------------------------------------------------------------------------
(***************************************************************************)
(* The order of events.  An end event can be in a buffer only when the end *)
(* program has run, from then on nothing is attached, and a begin event is *)
(* emitted while the buffers are still empty.                              *)
(***************************************************************************)
NoEnd(q)     == \A i \in DOMAIN q : q[i].from # "end"
EndKnown     == fate["end"] = "none" => NoEnd(ring) /\ NoEnd(skb)
EndDetached  == fate["end"] # "none" => attached = {}
EndAfter     == pc \in PreStart => fate["end"] = "none"
EmptyAtBegin == pc \in {"prepare", "begin"} => ring = <<>> /\ skb = <<>> /\ attached = {}
ClearedFirst == pc \in {"reset", "end"} => attached = {}

OrderInv == /\ Ordered(ring) /\ Ordered(skb) /\ EndKnown /\ EndDetached
            /\ EndAfter /\ EmptyAtBegin /\ ClearedFirst

\* Adding an event at the end and taking one from the front keep the order.
LEMMA AppendOrdered ==
    ASSUME NEW q \in Seq(Events), Ordered(q), NEW e \in Events,
           e.from = "begin" => q = <<>>, e.from = "probe" => NoEnd(q)
    PROVE  Ordered(Append(q, e)) /\ (NoEnd(q) /\ e.from # "end" => NoEnd(Append(q, e)))
<1> DEFINE r == Append(q, e)
<1>1. /\ Len(q) \in Nat /\ Len(r) = Len(q) + 1
      /\ DOMAIN q = 1 .. Len(q) /\ DOMAIN r = 1 .. Len(q) + 1
      /\ r[Len(q) + 1] = e /\ \A i \in 1 .. Len(q) : r[i] = q[i]
  OBVIOUS
<1> HIDE DEF r
<1>2. ASSUME NEW i \in DOMAIN r, r[i].from = "begin" PROVE i = 1
  <2>1. CASE i \in 1 .. Len(q)
    BY <1>1, <1>2, <2>1 DEF Ordered
  <2>2. CASE i = Len(q) + 1
    <3>1. q = <<>>
      BY <1>1, <1>2, <2>2
    <3> QED BY <3>1, <2>2
  <2> QED BY <1>1, <2>1, <2>2
<1>3. ASSUME NEW i \in DOMAIN r, r[i].from = "end", NEW j \in i .. Len(r)
      PROVE  r[j].from # "probe"
  <2>1. CASE j \in 1 .. Len(q)
    <3>1. i \in DOMAIN q /\ j \in i .. Len(q) /\ q[i].from = "end" /\ r[j] = q[j]
      BY <1>1, <1>3, <2>1
    <3> QED BY <3>1 DEF Ordered
  <2>2. CASE j = Len(q) + 1 /\ i \in 1 .. Len(q)
    <3>1. ~NoEnd(q) /\ r[j] = e
      BY <1>1, <1>3, <2>2 DEF NoEnd
    <3> QED BY <3>1
  <2>3. CASE i = Len(q) + 1 /\ j = i
    BY <1>3, <2>3
  <2> QED BY <1>1, <1>3, <2>1, <2>2, <2>3
<1>4. NoEnd(q) /\ e.from # "end" => NoEnd(r)
  BY <1>1 DEF NoEnd
<1> QED BY <1>2, <1>3, <1>4 DEF Ordered, r

\* The rest of a buffer is in order and holds nothing new.
LEMMA TailOrdered ==
    ASSUME NEW q \in Seq(Events), Len(q) > 0, Ordered(q)
    PROVE  Ordered(Tail(q)) /\ (NoEnd(q) => NoEnd(Tail(q)))
<1> DEFINE r == Tail(q)
<1>1. /\ Len(q) \in Nat /\ Len(r) = Len(q) - 1 /\ DOMAIN q = 1 .. Len(q)
      /\ DOMAIN r = 1 .. Len(q) - 1 /\ \A i \in 1 .. Len(q) - 1 : r[i] = q[i + 1]
  OBVIOUS
<1> HIDE DEF r
<1>2. ASSUME NEW i \in DOMAIN r, r[i].from = "begin" PROVE i = 1
  <2>1. i + 1 \in DOMAIN q /\ q[i + 1].from = "begin" /\ i + 1 # 1
    BY <1>1, <1>2
  <2> QED BY <2>1 DEF Ordered
<1>3. ASSUME NEW i \in DOMAIN r, r[i].from = "end", NEW j \in i .. Len(r)
      PROVE  r[j].from # "probe"
  <2>1. /\ i + 1 \in DOMAIN q /\ q[i + 1].from = "end"
        /\ j + 1 \in (i + 1) .. Len(q) /\ r[j] = q[j + 1]
    BY <1>1, <1>3
  <2> QED BY <2>1 DEF Ordered
<1>4. NoEnd(q) => NoEnd(r)
  BY <1>1 DEF NoEnd
<1> QED BY <1>2, <1>3, <1>4 DEF Ordered, r

\* A program that emits an event keeps the order of the buffers.
LEMMA OutputOrdered ==
    ASSUME TypeOK, Ordered(ring), Ordered(skb), EndKnown,
           NEW o \in Origins, NEW a \in Acts, Output([from |-> o, act |-> a]),
           o = "begin" => ring = <<>> /\ skb = <<>>,
           o = "probe" => fate["end"] = "none"
    PROVE  /\ Ordered(ring)' /\ Ordered(skb)' /\ EndKnown'
           /\ o # "end" => fate'["end"] = fate["end"]
<1> DEFINE e == [from |-> o, act |-> a]
<1>1. e \in Events /\ e.from = o
  BY DEF Events
<1>2. RingbufOutput(e) \/ SkbOutput(e)
  BY DEF Output
<1>3. ring \in Seq(Events) /\ skb \in Seq(Events) /\ fate \in [{"begin", "end"} -> Fates]
  BY DEF TypeOK, BuffersOK, HistoryOK
<1> HIDE DEF e
<1>4. o = "probe" => NoEnd(ring) /\ NoEnd(skb)
  BY DEF EndKnown
<1>5. /\ Ordered(Append(ring, e)) /\ Ordered(Append(skb, e))
      /\ (NoEnd(ring) /\ o # "end") => NoEnd(Append(ring, e))
      /\ (NoEnd(skb) /\ o # "end") => NoEnd(Append(skb, e))
  BY <1>1, <1>3, <1>4, AppendOrdered
<1>6. /\ ring' = ring \/ ring' = Append(ring, e)
      /\ skb' = skb \/ skb' = Append(skb, e)
  BY <1>2 DEF RingbufOutput, SkbOutput
<1>7. IF o = "end" THEN fate'["end"] # "none" ELSE fate'["end"] = fate["end"]
  BY <1>1, <1>2, <1>3 DEF RingbufOutput, SkbOutput, Fate
<1>8. Ordered(ring)' /\ Ordered(skb)'
  <2>1. Ordered(ring') /\ Ordered(skb')
    BY <1>5, <1>6
  <2> QED BY <2>1 DEF Ordered
<1>9. EndKnown'
  <2>1. fate'["end"] = "none" => NoEnd(ring') /\ NoEnd(skb')
    BY <1>5, <1>6, <1>7 DEF EndKnown
  <2> QED BY <2>1 DEF EndKnown, NoEnd
<1> QED BY <1>7, <1>8, <1>9

\* Handling an event never makes the end program look as if it had not run, and
\* attaches nothing.
LEMMA PrinterKeeps ==
    ASSUME TypeOK, NEW e, event_printer(e)
    PROVE  /\ (fate["end"] # "none" => fate'["end"] # "none")
           /\ (e.from # "end" => fate'["end"] = fate["end"])
           /\ (attached' = attached \/ attached' = {})
<1>1. fate \in [{"begin", "end"} -> Fates]
  BY DEF TypeOK, HistoryOK
<1> QED BY <1>1 DEF event_printer, request_finalize, Fate

\* Every step keeps OrderInv.
LEMMA OrderStep == TypeInv /\ OrderInv /\ [Next]_vars => OrderInv'
<1> SUFFICES ASSUME TypeInv, OrderInv, [Next]_vars PROVE OrderInv'
  OBVIOUS
<1>t. /\ TypeOK /\ script.begin \subseteq Acts /\ script.end \subseteq Acts
      /\ script.signal \subseteq Acts
      /\ \A i \in attached : script.probes[i].acts \subseteq Acts
  <2>1. TypeOK /\ script \in Scripts /\ attached \subseteq 1 .. Len(script.probes)
    BY DEF TypeInv, TypeOK, ControlOK
  <2> QED BY <2>1, ScriptTyped
<1>q. ring \in Seq(Events) /\ skb \in Seq(Events) /\ Len(ring) \in Nat /\ Len(skb) \in Nat
      /\ skb_left \in 0 .. Len(skb)
  BY <1>t DEF TypeOK, BuffersOK
\* Steps that leave the buffers and the history alone.
<1>k. ASSUME UNCHANGED <<ring, skb, fate>>
      PROVE  Ordered(ring)' /\ Ordered(skb)' /\ EndKnown'
  BY <1>k DEF OrderInv, Ordered, EndKnown, NoEnd
<1>1. CASE Prepare
  <2>1. UNCHANGED <<ring, skb, fate>>
    BY <1>1 DEF Prepare, history
  <2>2. EndDetached' /\ EndAfter' /\ EmptyAtBegin' /\ ClearedFirst'
    BY <1>1, <2>1 DEF Prepare, Return, OrderInv, EndDetached, EndAfter, EmptyAtBegin,
       ClearedFirst, PreStart
  <2> QED BY <2>1, <2>2, <1>k DEF OrderInv
<1>2. CASE RunBegin
  <2>1. \/ UNCHANGED <<ring, skb, fate>>
        \/ \E a \in Acts : Output([from |-> "begin", act |-> a])
    BY <1>2, <1>t DEF RunBegin, Return
  <2>2. ring = <<>> /\ skb = <<>>
    BY <1>2 DEF RunBegin, OrderInv, EmptyAtBegin
  <2>3. Ordered(ring)' /\ Ordered(skb)' /\ EndKnown'
    BY <2>1, <2>2, <1>t, <1>k, OutputOrdered DEF OrderInv, Origins
  <2>4. fate'["end"] = fate["end"]
    BY <2>1, <2>2, <1>t, OutputOrdered DEF OrderInv, Origins
  <2>5. EndDetached' /\ EndAfter' /\ EmptyAtBegin' /\ ClearedFirst'
    BY <1>2, <2>4 DEF RunBegin, Return, OrderInv, EndDetached, EndAfter, EmptyAtBegin,
       ClearedFirst, PreStart
  <2> QED BY <2>3, <2>5 DEF OrderInv
<1>3. CASE SetupChild
  <2>1. UNCHANGED <<ring, skb, fate>>
    BY <1>3 DEF SetupChild, history
  <2>2. EndDetached' /\ EndAfter' /\ EmptyAtBegin' /\ ClearedFirst'
    BY <1>3, <2>1 DEF SetupChild, Return, OrderInv, EndDetached, EndAfter, EmptyAtBegin,
       ClearedFirst, PreStart
  <2> QED BY <2>1, <2>2, <1>k DEF OrderInv
<1>4. CASE AttachForward
  <2>1. UNCHANGED <<ring, skb, fate>>
    BY <1>4 DEF AttachForward, AttachStep, history
  <2>2. EndDetached' /\ EndAfter' /\ EmptyAtBegin' /\ ClearedFirst'
    BY <1>4, <2>1 DEF AttachForward, AttachStep, AttachProbe, request_finalize, Return,
       OrderInv, EndDetached, EndAfter, EmptyAtBegin,
       ClearedFirst, PreStart
  <2> QED BY <2>1, <2>2, <1>k DEF OrderInv
<1>5. CASE AttachReverse
  <2>1. UNCHANGED <<ring, skb, fate>>
    BY <1>5 DEF AttachReverse, AttachStep, history
  <2>2. EndDetached' /\ EndAfter' /\ EmptyAtBegin' /\ ClearedFirst'
    BY <1>5, <2>1 DEF AttachReverse, AttachStep, AttachProbe, request_finalize, Return,
       OrderInv, EndDetached, EndAfter, EmptyAtBegin,
       ClearedFirst, PreStart
  <2> QED BY <2>1, <2>2, <1>k DEF OrderInv
<1>6. CASE Start
  <2>1. UNCHANGED <<ring, skb, fate>>
    BY <1>6 DEF Start, history
  <2>2. EndDetached' /\ EndAfter' /\ EmptyAtBegin' /\ ClearedFirst'
    BY <1>6, <2>1 DEF Start, PollOutput, request_finalize, Return, OrderInv, EndDetached,
       EndAfter, EmptyAtBegin,
       ClearedFirst, PreStart
  <2> QED BY <2>1, <2>2, <1>k DEF OrderInv
<1>7. CASE RunIter
  <2>1. UNCHANGED <<ring, skb, fate>>
    BY <1>7 DEF RunIter, history
  <2>2. EndDetached' /\ EndAfter' /\ EmptyAtBegin' /\ ClearedFirst'
    BY <1>7, <2>1 DEF RunIter, Return, OrderInv, EndDetached, EndAfter, EmptyAtBegin,
       ClearedFirst, PreStart
  <2> QED BY <2>1, <2>2, <1>k DEF OrderInv
<1>8. CASE SkbPoll
  <2>1. UNCHANGED <<ring, skb, fate>>
    BY <1>8 DEF SkbPoll, history
  <2>2. EndDetached' /\ EndAfter' /\ EmptyAtBegin' /\ ClearedFirst'
    BY <1>8, <2>1 DEF SkbPoll, OrderInv, EndDetached, EndAfter, EmptyAtBegin,
       ClearedFirst, PreStart
  <2> QED BY <2>1, <2>2, <1>k DEF OrderInv
<1>9. CASE SkbConsume
  <2>1. CASE UNCHANGED <<ring, skb, fate>> /\ attached' = attached /\ pc' \notin PreStart
            /\ pc' \notin {"reset", "end"}
    BY <2>1, <1>k DEF OrderInv, EndDetached, EndAfter, EmptyAtBegin, ClearedFirst, PreStart
  <2>2. CASE Len(skb) > 0 /\ event_printer(Head(skb)) /\ skb' = Tail(skb) /\ UNCHANGED <<ring, pc>>
    <3>1. Ordered(Tail(skb)) /\ (NoEnd(skb) => NoEnd(Tail(skb)))
      BY <2>2, <1>q, TailOrdered DEF OrderInv
    <3>2. /\ fate["end"] # "none" => fate'["end"] # "none"
          /\ Head(skb).from # "end" => fate'["end"] = fate["end"]
          /\ attached' = attached \/ attached' = {}
      BY <2>2, <1>t, PrinterKeeps
    <3>3. Head(skb).from = "end" => fate["end"] # "none"
      BY <2>2, <1>q DEF OrderInv, EndKnown, NoEnd
    <3>4. Ordered(skb)' /\ Ordered(ring)'
      BY <2>2, <3>1 DEF Ordered, OrderInv
    <3>5. EndKnown'
      <4>1. fate'["end"] = "none" => NoEnd(Tail(skb)) /\ NoEnd(ring)
        BY <3>1, <3>2, <3>3 DEF OrderInv, EndKnown
      <4> QED BY <4>1, <2>2 DEF EndKnown, NoEnd
    <3>6. EndDetached' /\ EndAfter' /\ EmptyAtBegin' /\ ClearedFirst'
      BY <1>9, <2>2, <3>2, <3>3 DEF SkbConsume, OrderInv, EndDetached, EndAfter,
         EmptyAtBegin,
         ClearedFirst, PreStart
    <3> QED BY <3>4, <3>5, <3>6 DEF OrderInv
  <2> QED BY <1>9, <2>1, <2>2, <1>q DEF SkbConsume, MoreInRing, history, PreStart
<1>10. CASE SkbReturn
  <2>1. UNCHANGED <<ring, skb, fate>>
    BY <1>10 DEF SkbReturn, history
  <2>2. EndDetached' /\ EndAfter' /\ EmptyAtBegin' /\ ClearedFirst'
    BY <1>10, <2>1 DEF SkbReturn, OrderInv, EndDetached, EndAfter, EmptyAtBegin,
       ClearedFirst, PreStart
  <2> QED BY <2>1, <2>2, <1>k DEF OrderInv
<1>11. CASE PollEventLoss
  <2>1. UNCHANGED <<ring, skb, fate>>
    BY <1>11 DEF PollEventLoss, history
  <2>2. EndDetached' /\ EndAfter' /\ EmptyAtBegin' /\ ClearedFirst'
    BY <1>11, <2>1 DEF PollEventLoss, OrderInv, EndDetached, EndAfter, EmptyAtBegin,
       ClearedFirst, PreStart
  <2> QED BY <2>1, <2>2, <1>k DEF OrderInv
<1>12. CASE RingPoll
  <2>1. UNCHANGED <<ring, skb, fate>>
    BY <1>12 DEF RingPoll, history
  <2>2. EndDetached' /\ EndAfter' /\ EmptyAtBegin' /\ ClearedFirst'
    BY <1>12, <2>1 DEF RingPoll, OrderInv, EndDetached, EndAfter, EmptyAtBegin,
       ClearedFirst, PreStart
  <2> QED BY <2>1, <2>2, <1>k DEF OrderInv
<1>13. CASE RingConsume
  <2>1. CASE UNCHANGED <<ring, skb, fate>> /\ attached' = attached /\ pc' \notin PreStart
            /\ pc' \notin {"reset", "end"}
    BY <2>1, <1>k DEF OrderInv, EndDetached, EndAfter, EmptyAtBegin, ClearedFirst, PreStart
  <2>2. CASE Len(ring) > 0 /\ event_printer(Head(ring)) /\ ring' = Tail(ring) /\ UNCHANGED <<skb, pc>>
    <3>1. Ordered(Tail(ring)) /\ (NoEnd(ring) => NoEnd(Tail(ring)))
      BY <2>2, <1>q, TailOrdered DEF OrderInv
    <3>2. /\ fate["end"] # "none" => fate'["end"] # "none"
          /\ Head(ring).from # "end" => fate'["end"] = fate["end"]
          /\ attached' = attached \/ attached' = {}
      BY <2>2, <1>t, PrinterKeeps
    <3>3. Head(ring).from = "end" => fate["end"] # "none"
      BY <2>2, <1>q DEF OrderInv, EndKnown, NoEnd
    <3>4. Ordered(ring)' /\ Ordered(skb)'
      BY <2>2, <3>1 DEF Ordered, OrderInv
    <3>5. EndKnown'
      <4>1. fate'["end"] = "none" => NoEnd(Tail(ring)) /\ NoEnd(skb)
        BY <3>1, <3>2, <3>3 DEF OrderInv, EndKnown
      <4> QED BY <4>1, <2>2 DEF EndKnown, NoEnd
    <3>6. EndDetached' /\ EndAfter' /\ EmptyAtBegin' /\ ClearedFirst'
      BY <1>13, <2>2, <3>2, <3>3 DEF RingConsume, OrderInv, EndDetached, EndAfter,
         EmptyAtBegin,
         ClearedFirst, PreStart
    <3> QED BY <3>4, <3>5, <3>6 DEF OrderInv
  <2> QED BY <1>13, <2>1, <2>2, <1>q DEF RingConsume, MoreInRing, history, PreStart
<1>14. CASE RingReturn
  <2>1. UNCHANGED <<ring, skb, fate>>
    BY <1>14 DEF RingReturn, history
  <2>2. EndDetached' /\ EndAfter' /\ EmptyAtBegin' /\ ClearedFirst'
    BY <1>14, <2>1 DEF RingReturn, OrderInv, EndDetached, EndAfter, EmptyAtBegin,
       ClearedFirst, PreStart
  <2> QED BY <2>1, <2>2, <1>k DEF OrderInv
<1>15. CASE Check
  <2>1. \/ UNCHANGED <<ring, skb, fate>>
        \/ \E a \in Acts : Output([from |-> "signal", act |-> a])
    BY <1>15, <1>t DEF Check, AfterPoll
  <2>2. "signal" \in Origins
    BY DEF Origins
  <2>3. Ordered(ring)' /\ Ordered(skb)' /\ EndKnown'
    BY <2>1, <2>2, <1>t, <1>k, OutputOrdered DEF OrderInv, Origins
  <2>4. fate'["end"] = fate["end"]
    BY <2>1, <2>2, <1>t, OutputOrdered DEF OrderInv, Origins
  <2>5. EndDetached' /\ EndAfter' /\ EmptyAtBegin' /\ ClearedFirst'
    BY <1>15, <2>4 DEF Check, AfterPoll, OrderInv, EndDetached, EndAfter, EmptyAtBegin,
       ClearedFirst, PreStart
  <2> QED BY <2>3, <2>5 DEF OrderInv
<1>16. CASE ClearProbes
  <2>1. UNCHANGED <<ring, skb, fate>>
    BY <1>16 DEF ClearProbes, history
  <2>2. EndDetached' /\ EndAfter' /\ EmptyAtBegin' /\ ClearedFirst'
    BY <1>16, <2>1 DEF ClearProbes, DetachAll, OrderInv, EndDetached, EndAfter,
       EmptyAtBegin,
       ClearedFirst, PreStart
  <2> QED BY <2>1, <2>2, <1>k DEF OrderInv
<1>17. CASE ResetFlags
  <2>1. UNCHANGED <<ring, skb, fate>>
    BY <1>17 DEF ResetFlags, history
  <2>2. EndDetached' /\ EndAfter' /\ EmptyAtBegin' /\ ClearedFirst'
    BY <1>17, <2>1 DEF ResetFlags, ClearFlags, OrderInv, EndDetached, EndAfter,
       EmptyAtBegin,
       ClearedFirst, PreStart
  <2> QED BY <2>1, <2>2, <1>k DEF OrderInv
<1>18. CASE RunEnd
  <2>1. \/ UNCHANGED <<ring, skb, fate>>
        \/ \E a \in Acts : Output([from |-> "end", act |-> a])
    BY <1>18, <1>t DEF RunEnd, PollOutput, Return
  <2>2. "end" \in Origins
    BY DEF Origins
  <2>3. Ordered(ring)' /\ Ordered(skb)' /\ EndKnown'
    BY <2>1, <2>2, <1>t, <1>k, OutputOrdered DEF OrderInv, Origins
  <2>4. EndDetached' /\ EndAfter' /\ EmptyAtBegin' /\ ClearedFirst'
    BY <1>18 DEF RunEnd, PollOutput, Return, OrderInv, EndDetached, EndAfter, EmptyAtBegin,
       ClearedFirst, PreStart
  <2> QED BY <2>3, <2>4 DEF OrderInv
<1>19. CASE TotalLost
  <2>1. UNCHANGED <<ring, skb, fate>>
    BY <1>19 DEF TotalLost, history
  <2>2. EndDetached' /\ EndAfter' /\ EmptyAtBegin' /\ ClearedFirst'
    BY <1>19, <2>1 DEF TotalLost, Return, OrderInv, EndDetached, EndAfter, EmptyAtBegin,
       ClearedFirst, PreStart
  <2> QED BY <2>1, <2>2, <1>k DEF OrderInv
<1>20. CASE ProbeFires
  <2>1. \/ UNCHANGED <<ring, skb, fate>>
        \/ attached # {} /\ \E a \in Acts : Output([from |-> "probe", act |-> a])
    BY <1>20, <1>t DEF ProbeFires
  <2>2. attached # {} => fate["end"] = "none"
    BY DEF OrderInv, EndDetached
  <2>3. Ordered(ring)' /\ Ordered(skb)' /\ EndKnown'
    BY <2>1, <2>2, <1>t, <1>k, OutputOrdered DEF OrderInv, Origins
  <2>4. fate'["end"] = fate["end"]
    BY <2>1, <2>2, <1>t, OutputOrdered DEF OrderInv, Origins
  <2>5. pc \in {"prepare", "begin"} => attached = {}
    BY DEF OrderInv, EmptyAtBegin
  <2>6. EndDetached' /\ EndAfter' /\ EmptyAtBegin' /\ ClearedFirst'
    BY <1>20, <2>1, <2>4, <2>5 DEF ProbeFires, OrderInv, EndDetached, EndAfter,
       EmptyAtBegin, ClearedFirst, PreStart
  <2> QED BY <2>3, <2>6 DEF OrderInv
<1>21. CASE TracedExits
  <2>1. UNCHANGED <<ring, skb, fate>>
    BY <1>21 DEF TracedExits, history
  <2>2. EndDetached' /\ EndAfter' /\ EmptyAtBegin' /\ ClearedFirst'
    BY <1>21, <2>1 DEF TracedExits, OrderInv, EndDetached, EndAfter, EmptyAtBegin,
       ClearedFirst, PreStart
  <2> QED BY <2>1, <2>2, <1>k DEF OrderInv
<1>22. CASE ExitSignal
  <2>1. UNCHANGED <<ring, skb, fate>>
    BY <1>22 DEF ExitSignal, history
  <2>2. EndDetached' /\ EndAfter' /\ EmptyAtBegin' /\ ClearedFirst'
    BY <1>22, <2>1 DEF ExitSignal, Interrupt, OrderInv, EndDetached, EndAfter, EmptyAtBegin,
       ClearedFirst, PreStart
  <2> QED BY <2>1, <2>2, <1>k DEF OrderInv
<1>23. CASE Usr1Signal
  <2>1. UNCHANGED <<ring, skb, fate>>
    BY <1>23 DEF Usr1Signal, history
  <2>2. EndDetached' /\ EndAfter' /\ EmptyAtBegin' /\ ClearedFirst'
    BY <1>23, <2>1 DEF Usr1Signal, Interrupt, OrderInv, EndDetached, EndAfter, EmptyAtBegin,
       ClearedFirst, PreStart
  <2> QED BY <2>1, <2>2, <1>k DEF OrderInv
<1>24. CASE UNCHANGED vars
  <2>1. UNCHANGED <<ring, skb, fate, attached, pc>>
    BY <1>24 DEF vars, history
  <2> QED BY <2>1, <1>k DEF OrderInv, EndDetached, EndAfter, EmptyAtBegin, ClearedFirst
<1> QED
  BY <1>1, <1>2, <1>3, <1>4, <1>5, <1>6, <1>7, <1>8, <1>9, <1>10, <1>11, <1>12,
     <1>13, <1>14, <1>15, <1>16, <1>17, <1>18, <1>19, <1>20, <1>21, <1>22, <1>23, <1>24
  DEF Next, Main, Environment, Done

\* begin events come first and probe events before the end event, in both buffers.
THEOREM EventsInOrder == Spec => []BeginFirstEndLast
<1>1. Init => OrderInv
  BY DEF Init, OrderInv, Ordered, EndKnown, NoEnd, EndDetached, EndAfter, EmptyAtBegin,
     ClearedFirst
<1>2. Spec => []TypeInv
  BY TypeInit, TypeStep, PTL DEF Spec
<1>3. OrderInv => BeginFirstEndLast
  BY DEF OrderInv, EndDetached, BeginFirstEndLast
<1> QED BY <1>1, <1>2, <1>3, OrderStep, PTL DEF Spec

-----------------------------------------------------------------------------
(***************************************************************************)
(* What the last drain of a run leaves behind: nothing unread in the two   *)
(* buffers, the end event heard, every loss told.  For every set of        *)
(* scripts and every value of the bounds.                                  *)
(***************************************************************************)
\* The last call of poll_output follows the reset of the flags, and ends well.
Phases ==
    /\ pc \in PreStart \cup {"iter", "clear", "reset"} => phase = "main"
    /\ pc \in {"end", "total"} => phase = "end"
    /\ phase = "main" => late = {}
    /\ pc # "done" => rval = 0
    /\ (pc = "done" /\ phase = "main" /\ rval = 0) => script.dry_run
    /\ (phase = "end" \/ pc = "reset") => attached = {}

\* Before it the end program has not run, and only skboutput() fills the perf buffer.
Before ==
    /\ phase = "main" => fate["end"] = "none"
    /\ ~script.using_skboutput => skb = <<>>

\* poll_output is at one of these steps, or has returned and so has run().
Polls(steps) == pc \in steps \/ (pc = "done" /\ rval = 0)

\* The last drain leaves a buffer only when it is empty.
Drained ==
    (phase = "end" /\ "usr1" \notin late) =>
       /\ pc = "skb_consume" => skb_left = Len(skb)
       /\ pc = "skb" /\ ~do_skb => skb = <<>>
       /\ Polls({"skb_ret", "loss", "ring", "ring_consume", "ring_ret", "check", "total"})
            => skb = <<>>
       /\ pc \in {"skb", "skb_consume", "skb_ret", "loss"} /\ ~do_ring => ring = <<>>
       /\ Polls({"ring_ret", "check", "total"}) => ring = <<>>

\* The flags that make event_printer ignore events are set by a late request only.
FlagsReset ==
    phase = "end" =>
       /\ "signal" \notin late => ~exitsig_recv
       /\ late \cap {"signal", "exit"} = {} => ~finalize_ /\ fate["end"] # "ignored"

\* The event of the end program waits in a buffer that is still going to be read.
HasEnd(q, n) == \E i \in 1 .. Len(q) : q[i].from = "end" /\ i <= n
EndAhead ==
    /\ fate["end"] = "pending" =>
          \/ /\ HasEnd(ring, Len(ring)) /\ do_ring
             /\ pc \in {"skb", "skb_consume", "skb_ret", "loss", "ring", "ring_consume"}
          \/ /\ do_skb
             /\ \/ pc = "skb" /\ HasEnd(skb, Len(skb))
                \/ pc = "skb_consume" /\ HasEnd(skb, skb_left)
    /\ (phase = "end" /\ pc # "end" /\ rval = 0 /\ script.end # {}) => fate["end"] # "none"

\* What the last poll_event_loss has read stays the sum, and is the total logged.
LossSeen ==
    (NCpus <= max_cpu_id /\ phase = "end" /\ "usr1" \notin late) =>
       /\ Polls({"ring", "ring_consume", "ring_ret", "check", "total"})
            => event_loss_count_ = Sum(loss, NCpus)
       /\ Polls({}) => total_lost = Sum(loss, NCpus)

-----------------------------------------------------------------------------
\* Every step keeps Phases.
LEMMA PhasesStep == TypeInv /\ OrderInv /\ Phases /\ [Next]_vars => Phases'
<1> SUFFICES ASSUME TypeInv, OrderInv, Phases, [Next]_vars PROVE Phases'
  OBVIOUS
<1> USE DEF Phases, PreStart
<1>1. CASE Prepare
  BY <1>1 DEF Prepare, Return, OrderInv, ClearedFirst, flags, history
<1>2. CASE RunBegin
  BY <1>2 DEF RunBegin, Return, OrderInv, ClearedFirst, flags, history
<1>3. CASE SetupChild
  BY <1>3 DEF SetupChild, Return, OrderInv, ClearedFirst, flags, history
<1>4. CASE AttachForward
  BY <1>4 DEF AttachForward, AttachStep, AttachProbe, request_finalize, Return, OrderInv,
     ClearedFirst, flags, history
<1>5. CASE AttachReverse
  BY <1>5 DEF AttachReverse, AttachStep, AttachProbe, request_finalize, Return, OrderInv,
     ClearedFirst, flags, history
<1>6. CASE Start
  <2>1. pc = "start" /\ phase = "main" /\ late' = late /\ late = {}
    BY <1>6 DEF Start, history
  <2>2. phase' = "main" /\ pc' \in {"done", "iter", "skb"}
    BY <1>6, <2>1 DEF Start, PollOutput, Return
  <2>3. pc' # "done" => rval' = 0
    BY <1>6, <2>1 DEF Start, PollOutput, Return
  <2>4. pc' = "done" /\ rval' = 0 => script'.dry_run
    BY <1>6, <2>1 DEF Start, PollOutput, Return
  <2> QED BY <2>1, <2>2, <2>3, <2>4
<1>7. CASE RunIter
  BY <1>7 DEF RunIter, Return, OrderInv, ClearedFirst, flags, history
<1>8. CASE SkbPoll
  BY <1>8 DEF SkbPoll, OrderInv, ClearedFirst, flags, history
<1>9. CASE SkbConsume
  BY <1>9 DEF SkbConsume, event_printer, request_finalize, Late, OrderInv, ClearedFirst,
     flags, history
<1>10. CASE SkbReturn
  BY <1>10 DEF SkbReturn, OrderInv, ClearedFirst, flags, history
<1>11. CASE PollEventLoss
  BY <1>11 DEF PollEventLoss, OrderInv, ClearedFirst, flags, history
<1>12. CASE RingPoll
  BY <1>12 DEF RingPoll, OrderInv, ClearedFirst, flags, history
<1>13. CASE RingConsume
  BY <1>13 DEF RingConsume, event_printer, request_finalize, Late, OrderInv, ClearedFirst,
     flags, history
<1>14. CASE RingReturn
  BY <1>14 DEF RingReturn, OrderInv, ClearedFirst, flags, history
<1>15. CASE Check
  <2>1. phase' = phase /\ attached' = attached /\ rval' = rval /\ pc = "check"
    BY <1>15 DEF Check
  <2>2. pc' = AfterPoll \/ pc' = "skb"
    BY <1>15 DEF Check
  <2>3. phase = "main" => late' = late
    BY <1>15 DEF Check, Late
  <2>4. phase \in {"main", "end"}
    BY DEF TypeInv, TypeOK, ControlOK
  <2> QED BY <2>1, <2>2, <2>3, <2>4 DEF AfterPoll
<1>16. CASE ClearProbes
  BY <1>16 DEF ClearProbes, DetachAll, OrderInv, ClearedFirst, flags, history
<1>17. CASE ResetFlags
  BY <1>17 DEF ResetFlags, ClearFlags, OrderInv, ClearedFirst, flags, history
<1>18. CASE RunEnd
  BY <1>18 DEF RunEnd, PollOutput, Return, OrderInv, ClearedFirst, flags, history
<1>19. CASE TotalLost
  BY <1>19 DEF TotalLost, Return, OrderInv, ClearedFirst, flags, history
<1>20. CASE ProbeFires
  BY <1>20 DEF ProbeFires, OrderInv, ClearedFirst, flags, history
<1>21. CASE TracedExits
  BY <1>21 DEF TracedExits, OrderInv, ClearedFirst, flags, history
<1>22. CASE ExitSignal
  BY <1>22 DEF ExitSignal, Interrupt, Late, OrderInv, ClearedFirst, flags, history
<1>23. CASE Usr1Signal
  BY <1>23 DEF Usr1Signal, Interrupt, OrderInv, ClearedFirst, flags, history
<1>24. CASE UNCHANGED vars
  BY <1>24 DEF vars, history
<1> QED
  BY <1>1, <1>2, <1>3, <1>4, <1>5, <1>6, <1>7, <1>8, <1>9, <1>10, <1>11, <1>12, <1>13,
     <1>14, <1>15, <1>16, <1>17, <1>18, <1>19, <1>20, <1>21, <1>22, <1>23, <1>24
  DEF Next, Main, Environment, Done

\* What an emitted event does to the buffers and to the fate of the end event.
LEMMA OutputFacts ==
    ASSUME TypeOK, NEW o \in Origins, NEW a \in Acts, Output([from |-> o, act |-> a])
    PROVE  /\ o # "end" => fate'["end"] = fate["end"]
           /\ o = "end" => \/ fate'["end"] = "lost"
                           \/ /\ fate'["end"] = "pending"
                              /\ ring' = Append(ring, [from |-> o, act |-> a]) /\ a # "skb"
                           \/ /\ fate'["end"] = "pending"
                              /\ skb' = Append(skb, [from |-> o, act |-> a]) /\ a = "skb"
           /\ a # "skb" => skb' = skb
<1> DEFINE e == [from |-> o, act |-> a]
<1>1. e.from = o /\ e.act = a /\ fate \in [{"begin", "end"} -> Fates]
  BY DEF TypeOK, HistoryOK
<1>2. IF a = "skb" THEN SkbOutput(e) ELSE RingbufOutput(e)
  BY DEF Output
<1> HIDE DEF e
<1>3. \/ UNCHANGED fate /\ o \notin {"begin", "end"}
      \/ fate' = [fate EXCEPT ![o] = "lost"]
      \/ fate' = [fate EXCEPT ![o] = "pending"] /\ (a = "skb" => skb' = Append(skb, e))
                                               /\ (a # "skb" => ring' = Append(ring, e))
  BY <1>1, <1>2 DEF SkbOutput, RingbufOutput, Fate
<1>4. a # "skb" => skb' = skb
  BY <1>2 DEF RingbufOutput
<1>5. o # "end" => fate'["end"] = fate["end"]
  BY <1>1, <1>3
<1>6. ASSUME o = "end"
      PROVE  \/ fate'[o] = "lost"
             \/ fate'[o] = "pending" /\ ring' = Append(ring, e) /\ a # "skb"
             \/ fate'[o] = "pending" /\ skb' = Append(skb, e) /\ a = "skb"
  BY <1>1, <1>3, <1>6
<1> QED BY <1>4, <1>5, <1>6 DEF e

\* A program of the script that emits for skboutput() is known to do so.
LEMMA SkbKnown ==
    ASSUME script \in Scripts,
           \/ "skb" \in script.begin \cup script.end \cup script.signal
           \/ \E i \in 1 .. Len(script.probes) : "skb" \in script.probes[i].acts
    PROVE  script.using_skboutput
BY SkbAssumption DEF Emits

\* Every step keeps Before.
LEMMA BeforeStep == TypeInv /\ OrderInv /\ Phases /\ Before /\ [Next]_vars => Before'
<1> SUFFICES ASSUME TypeInv, OrderInv, Phases, Before, [Next]_vars PROVE Before'
  OBVIOUS
<1>t. /\ TypeOK /\ script \in Scripts /\ attached \subseteq 1 .. Len(script.probes)
      /\ phase \in {"main", "end"}
      /\ script.begin \subseteq Acts /\ script.end \subseteq Acts
      /\ script.signal \subseteq Acts
      /\ \A i \in attached : script.probes[i].acts \subseteq Acts
  <2>1. TypeOK /\ script \in Scripts /\ attached \subseteq 1 .. Len(script.probes)
        /\ phase \in {"main", "end"}
    BY DEF TypeInv, TypeOK, ControlOK
  <2> QED BY <2>1, ScriptTyped
<1>q. /\ Len(skb) \in Nat /\ Len(ring) \in Nat /\ skb_left \in 0 .. Len(skb)
      /\ skb = <<>> => Len(skb) = 0
      /\ DOMAIN skb = 1 .. Len(skb) /\ DOMAIN ring = 1 .. Len(ring)
      /\ Len(skb) > 0 => Head(skb) = skb[1]
      /\ Len(ring) > 0 => Head(ring) = ring[1]
      /\ Len(ring) = 0 => ring = <<>>
  BY <1>t DEF TypeOK, BuffersOK
\* One program emits an event: the end program only in the last phase.
<1>o. ASSUME NEW o \in Origins, NEW a \in Acts, Output([from |-> o, act |-> a]),
             a = "skb" => script.using_skboutput, script' = script,
             o = "end" => phase' = "end", phase' = phase
      PROVE  Before'
  BY <1>o, <1>t, OutputFacts DEF Before
\* Steps that leave the perf buffer and the history alone.
<1>k. ASSUME UNCHANGED <<script, skb, fate>>, phase' = "main" => phase = "main"
      PROVE  Before'
  BY <1>k DEF Before
<1>1. CASE RunBegin
  <2>1. UNCHANGED <<script, phase>>
    BY <1>1 DEF RunBegin
  <2>2. CASE UNCHANGED <<skb, fate>>
    BY <2>1, <2>2, <1>k
  <2>3. CASE \E a \in script.begin : Output([from |-> "begin", act |-> a])
    BY <2>1, <2>3, <1>o, <1>t, SkbKnown DEF Origins
  <2> QED BY <1>1, <2>2, <2>3 DEF RunBegin
<1>2. CASE Check
  <2>1. UNCHANGED <<script, phase>>
    BY <1>2 DEF Check
  <2>2. CASE UNCHANGED <<skb, fate>>
    BY <2>1, <2>2, <1>k
  <2>3. CASE \E a \in script.signal : Output([from |-> "signal", act |-> a])
    BY <2>1, <2>3, <1>o, <1>t, SkbKnown DEF Origins
  <2> QED BY <1>2, <2>2, <2>3 DEF Check
<1>3. CASE RunEnd
  <2>1. script' = script /\ phase = "end" /\ phase' = "end"
    BY <1>3 DEF RunEnd, PollOutput, Phases
  <2>2. CASE UNCHANGED <<skb, fate>>
    BY <2>1, <2>2, <1>k
  <2>3. CASE \E a \in script.end : Output([from |-> "end", act |-> a])
    BY <2>1, <2>3, <1>o, <1>t, SkbKnown DEF Origins
  <2> QED BY <1>3, <2>2, <2>3 DEF RunEnd
<1>4. CASE ProbeFires
  <2>1. UNCHANGED <<script, phase>>
    BY <1>4 DEF ProbeFires
  <2>2. PICK i \in attached : \E a \in script.probes[i].acts :
                                 Output([from |-> "probe", act |-> a])
    BY <1>4 DEF ProbeFires
  <2>3. i \in 1 .. Len(script.probes)
    BY <1>t
  <2> QED BY <2>1, <2>2, <2>3, <1>o, <1>t, SkbKnown DEF Origins
\* Nothing that event_printer reads before the last phase is from the end program.
<1>5. CASE SkbConsume
  <2>1. UNCHANGED <<script, phase>>
    BY <1>5 DEF SkbConsume
  <2>2. CASE UNCHANGED <<skb, fate>>
    BY <2>1, <2>2, <1>k
  <2>3. CASE Len(skb) > 0 /\ event_printer(Head(skb)) /\ skb' = Tail(skb)
    <3>1. phase = "main" => Head(skb).from # "end"
      BY <2>3, <1>q DEF Before, OrderInv, EndKnown, NoEnd
    <3>2. script.using_skboutput
      BY <2>3, <1>q DEF Before
    <3>3. Head(skb).from # "end" => fate'["end"] = fate["end"]
      BY <2>3, <1>t, PrinterKeeps
    <3> QED BY <2>1, <3>1, <3>2, <3>3 DEF Before
  <2> QED BY <1>5, <2>2, <2>3, <1>q DEF SkbConsume, history
<1>6. CASE RingConsume
  <2>1. UNCHANGED <<script, phase, skb>>
    BY <1>6 DEF RingConsume
  <2>2. CASE UNCHANGED fate
    BY <2>1, <2>2, <1>k
  <2>3. CASE Len(ring) > 0 /\ event_printer(Head(ring))
    <3>1. phase = "main" => Head(ring).from # "end"
      BY <2>3, <1>q DEF Before, OrderInv, EndKnown, NoEnd
    <3>3. Head(ring).from # "end" => fate'["end"] = fate["end"]
      BY <2>3, <1>t, PrinterKeeps
    <3> QED BY <2>1, <3>1, <3>3 DEF Before
  <2> QED BY <1>6, <2>2, <2>3, <1>q DEF RingConsume, MoreInRing, history
<1>7. CASE Prepare
  <2>1. UNCHANGED <<script, skb, fate>> /\ (phase' = "main" => phase = "main")
    BY <1>7, <1>t DEF Prepare, Return, history, Phases, PreStart
  <2> QED BY <2>1, <1>k
<1>8. CASE SetupChild
  <2>1. UNCHANGED <<script, skb, fate>> /\ (phase' = "main" => phase = "main")
    BY <1>8, <1>t DEF SetupChild, Return, history, Phases, PreStart
  <2> QED BY <2>1, <1>k
<1>9. CASE AttachForward
  <2>1. UNCHANGED <<script, skb, fate>> /\ (phase' = "main" => phase = "main")
    BY <1>9, <1>t DEF AttachForward, AttachStep, AttachProbe, request_finalize, Return,
       history, Phases, PreStart
  <2> QED BY <2>1, <1>k
<1>10. CASE AttachReverse
  <2>1. UNCHANGED <<script, skb, fate>> /\ (phase' = "main" => phase = "main")
    BY <1>10, <1>t DEF AttachReverse, AttachStep, AttachProbe, request_finalize, Return,
       history, Phases, PreStart
  <2> QED BY <2>1, <1>k
<1>11. CASE Start
  <2>1. UNCHANGED <<script, skb, fate>> /\ (phase' = "main" => phase = "main")
    BY <1>11, <1>t DEF Start, PollOutput, request_finalize, Return, history, Phases,
       PreStart
  <2> QED BY <2>1, <1>k
<1>12. CASE RunIter
  <2>1. UNCHANGED <<script, skb, fate>> /\ (phase' = "main" => phase = "main")
    BY <1>12, <1>t DEF RunIter, Return, history, Phases, PreStart
  <2> QED BY <2>1, <1>k
<1>13. CASE SkbPoll
  <2>1. UNCHANGED <<script, skb, fate>> /\ (phase' = "main" => phase = "main")
    BY <1>13, <1>t DEF SkbPoll, history, Phases, PreStart
  <2> QED BY <2>1, <1>k
<1>14. CASE SkbReturn
  <2>1. UNCHANGED <<script, skb, fate>> /\ (phase' = "main" => phase = "main")
    BY <1>14, <1>t DEF SkbReturn, history, Phases, PreStart
  <2> QED BY <2>1, <1>k
<1>15. CASE PollEventLoss
  <2>1. UNCHANGED <<script, skb, fate>> /\ (phase' = "main" => phase = "main")
    BY <1>15, <1>t DEF PollEventLoss, history, Phases, PreStart
  <2> QED BY <2>1, <1>k
<1>16. CASE RingPoll
  <2>1. UNCHANGED <<script, skb, fate>> /\ (phase' = "main" => phase = "main")
    BY <1>16, <1>t DEF RingPoll, history, Phases, PreStart
  <2> QED BY <2>1, <1>k
<1>17. CASE RingReturn
  <2>1. UNCHANGED <<script, skb, fate>> /\ (phase' = "main" => phase = "main")
    BY <1>17, <1>t DEF RingReturn, history, Phases, PreStart
  <2> QED BY <2>1, <1>k
<1>18. CASE ClearProbes
  <2>1. UNCHANGED <<script, skb, fate>> /\ (phase' = "main" => phase = "main")
    BY <1>18, <1>t DEF ClearProbes, DetachAll, history, Phases, PreStart
  <2> QED BY <2>1, <1>k
<1>19. CASE ResetFlags
  <2>1. UNCHANGED <<script, skb, fate>> /\ (phase' = "main" => phase = "main")
    BY <1>19, <1>t DEF ResetFlags, ClearFlags, history, Phases, PreStart
  <2> QED BY <2>1, <1>k
<1>20. CASE TotalLost
  <2>1. UNCHANGED <<script, skb, fate>> /\ (phase' = "main" => phase = "main")
    BY <1>20, <1>t DEF TotalLost, Return, history, Phases, PreStart
  <2> QED BY <2>1, <1>k
<1>21. CASE TracedExits
  <2>1. UNCHANGED <<script, skb, fate>> /\ (phase' = "main" => phase = "main")
    BY <1>21, <1>t DEF TracedExits, history, Phases, PreStart
  <2> QED BY <2>1, <1>k
<1>22. CASE ExitSignal
  <2>1. UNCHANGED <<script, skb, fate>> /\ (phase' = "main" => phase = "main")
    BY <1>22, <1>t DEF ExitSignal, Interrupt, Late, history, Phases, PreStart
  <2> QED BY <2>1, <1>k
<1>23. CASE Usr1Signal
  <2>1. UNCHANGED <<script, skb, fate>> /\ (phase' = "main" => phase = "main")
    BY <1>23, <1>t DEF Usr1Signal, Interrupt, history, Phases, PreStart
  <2> QED BY <2>1, <1>k
<1>24. CASE UNCHANGED vars
  <2>1. UNCHANGED <<script, skb, fate, phase>>
    BY <1>24 DEF vars, history
  <2> QED BY <2>1, <1>k
<1> QED
  BY <1>1, <1>2, <1>3, <1>4, <1>5, <1>6, <1>7, <1>8, <1>9, <1>10, <1>11, <1>12, <1>13,
     <1>14, <1>15, <1>16, <1>17, <1>18, <1>19, <1>20, <1>21, <1>22, <1>23, <1>24
  DEF Next, Main, Environment, Done

\* The steps of the last phase: nothing is attached any more, so no probe fires.
LEMMA LastSteps ==
    ASSUME TypeInv, Phases, [Next]_vars, phase' = "end"
    PROVE  /\ phase = "end" => late \subseteq late'
           /\ \/ ResetFlags /\ phase = "main"
              \/ /\ phase = "end"
                 /\ \/ SkbPoll \/ SkbConsume \/ SkbReturn \/ PollEventLoss
                    \/ RingPoll \/ RingConsume \/ RingReturn \/ Check
                    \/ RunEnd \/ TotalLost
                    \/ TracedExits \/ ExitSignal \/ Usr1Signal \/ UNCHANGED vars
<1>1. Prepare \/ RunBegin \/ SetupChild \/ AttachForward \/ AttachReverse \/ Start
        \/ RunIter \/ ClearProbes => phase' = "main"
  BY DEF Prepare, RunBegin, SetupChild, AttachForward, AttachReverse, AttachStep, Start,
     RunIter, ClearProbes, Phases, PreStart, PollOutput
<1>2. ResetFlags => phase = "main"
  BY DEF ResetFlags, Phases
<1>3. RunEnd \/ TotalLost => phase = "end"
  BY DEF RunEnd, TotalLost, Phases
<1>4. SkbPoll \/ SkbConsume \/ SkbReturn \/ PollEventLoss \/ RingPoll \/ RingConsume
        \/ RingReturn \/ Check \/ TracedExits \/ ExitSignal \/ Usr1Signal \/ ProbeFires
        \/ UNCHANGED vars => phase' = phase
  BY DEF SkbPoll, SkbConsume, SkbReturn, PollEventLoss, RingPoll, RingConsume, RingReturn,
     Check, TracedExits, ExitSignal, Usr1Signal, ProbeFires, vars
<1>5. ProbeFires => phase # "end"
  BY DEF ProbeFires, Phases
<1>6. ASSUME phase = "end" PROVE late \subseteq late'
  <2>1. \/ late' = late \/ \E x : Late(x)
    <3>1. \A e : event_printer(e) => late' = late \/ \E x : Late(x)
      BY DEF event_printer
    <3>2. SkbConsume => late' = late \/ \E x : Late(x)
      BY <3>1 DEF SkbConsume, history
    <3>3. RingConsume => late' = late \/ \E x : Late(x)
      BY <3>1 DEF RingConsume, history
    <3>4. Check \/ ExitSignal => late' = late \/ \E x : Late(x)
      BY DEF Check, ExitSignal
    <3>5. SkbPoll \/ SkbReturn \/ PollEventLoss \/ RingPoll \/ RingReturn \/ RunEnd
            \/ TotalLost \/ TracedExits \/ Usr1Signal \/ ResetFlags \/ UNCHANGED vars
            => late' = late
      BY DEF SkbPoll, SkbReturn, PollEventLoss, RingPoll, RingReturn, RunEnd,
         TotalLost, TracedExits, Usr1Signal, ResetFlags, history, vars
    <3> QED BY <1>1, <1>5, <1>6, <3>2, <3>3, <3>4, <3>5
            DEF Next, Main, Environment, Done
  <2> QED BY <1>6, <2>1 DEF Late
<1> QED BY <1>1, <1>2, <1>3, <1>4, <1>5, <1>6 DEF Next, Main, Environment, Done
-----------------------------------------------------------------------------
(***************************************************************************)
(* The buffers.                                                            *)
(***************************************************************************)
\* Every step keeps Drained.
LEMMA DrainedStep ==
    TypeInv /\ Phases /\ Before' /\ Drained /\ [Next]_vars => Drained'
<1> SUFFICES ASSUME TypeInv, Phases, Before', Drained, [Next]_vars,
                    phase' = "end", "usr1" \notin late'
             PROVE  Drained'
  BY DEF Drained
<1>t. TypeOK
  BY DEF TypeInv
<1>q. /\ ring \in Seq(Events) /\ Len(ring) \in Nat
      /\ skb \in Seq(Events) /\ Len(skb) \in Nat /\ skb_left \in 0 .. Len(skb)
      /\ Len(skb) = 0 <=> skb = <<>>
      /\ Len(skb) > 0 => Len(Tail(skb)) = Len(skb) - 1
  BY <1>t DEF TypeOK, BuffersOK
<1>b. script'.using_skboutput \/ skb' = <<>>
  BY DEF Before
<1>l. phase = "end" => "usr1" \notin late
  BY LastSteps
<1> USE DEF Polls
<1>1. CASE ResetFlags
  BY <1>1 DEF ResetFlags, Drained
<1>d. ASSUME phase = "end"
      PROVE  /\ pc = "skb_consume" => skb_left = Len(skb)
             /\ pc = "skb" /\ ~do_skb => skb = <<>>
             /\ Polls({"skb_ret", "loss", "ring", "ring_consume", "ring_ret", "check", "total"})
                  => skb = <<>>
             /\ pc \in {"skb", "skb_consume", "skb_ret", "loss"} /\ ~do_ring => ring = <<>>
             /\ Polls({"ring_ret", "check", "total"}) => ring = <<>>
  BY <1>d, <1>l DEF Drained
<1>2. CASE SkbPoll /\ phase = "end"
  BY <1>2, <1>d, <1>q DEF SkbPoll, SkbHead, locals, losses, history, Drained
<1>3. CASE SkbReturn /\ phase = "end"
  BY <1>3, <1>d, <1>q DEF SkbReturn, locals, losses, history, Drained
<1>4. CASE PollEventLoss /\ phase = "end"
  BY <1>4, <1>d, <1>q DEF PollEventLoss, locals, losses, history, Drained
<1>5. CASE RingPoll /\ phase = "end"
  BY <1>5, <1>d, <1>q DEF RingPoll, locals, losses, history, Drained
<1>6. CASE RingReturn /\ phase = "end"
  BY <1>6, <1>d, <1>q DEF RingReturn, locals, losses, history, Drained
<1>7. CASE TotalLost /\ phase = "end"
  BY <1>7, <1>d, <1>q DEF TotalLost, Return, locals, losses, history, Drained
<1>8. CASE TracedExits /\ phase = "end"
  BY <1>8, <1>d, <1>q DEF TracedExits, locals, losses, history, Drained
<1>9. CASE ExitSignal /\ phase = "end"
  BY <1>9, <1>d, <1>q DEF ExitSignal, Interrupt, locals, losses, history, Drained
<1>10. CASE Usr1Signal /\ phase = "end"
  BY <1>10, <1>d, <1>q DEF Usr1Signal, Interrupt, locals, losses, history, Drained
<1>11. CASE SkbConsume /\ phase = "end"
  <2>1. skb_left = Len(skb) /\ pc = "skb_consume" /\ (~do_ring => ring = <<>>)
    BY <1>11, <1>d DEF SkbConsume
  <2>2. UNCHANGED <<do_ring, ring>>
    BY <1>11 DEF SkbConsume, locals
  <2>3. \/ pc' = pc /\ skb_left' = Len(skb')
        \/ pc' = "skb_ret" /\ skb' = <<>>
    BY <1>11, <1>q, <2>1 DEF SkbConsume
  <2> QED BY <2>1, <2>2, <2>3 DEF Drained
<1>12. CASE RingConsume /\ phase = "end"
  <2>1. pc = "ring_consume" /\ skb = <<>>
    BY <1>12, <1>d DEF RingConsume
  <2>2. skb' = skb /\ (pc' = pc \/ (pc' = "ring_ret" /\ ring' = <<>>))
    BY <1>12 DEF RingConsume, MoreInRing
  <2> QED BY <2>1, <2>2 DEF Drained
<1>13. CASE Check /\ phase = "end"
  <2>1. ring = <<>> /\ skb = <<>>
    BY <1>13, <1>d DEF Check
  <2>2. UNCHANGED <<ring, skb>>
    BY <1>13 DEF Check, Late
  <2>3. pc' \in {"skb", "total"}
    BY <1>13 DEF Check, AfterPoll
  <2> QED BY <2>1, <2>2, <2>3 DEF Drained
<1>14. CASE RunEnd /\ phase = "end"
  <2>1. \/ pc' = "skb" /\ do_skb' = script'.using_skboutput /\ do_ring'
        \/ pc' = "done" /\ rval' = -1
    BY <1>14 DEF RunEnd, PollOutput, PollsSkb, Return
  <2> QED BY <2>1, <1>b DEF Drained
<1>15. CASE UNCHANGED vars /\ phase = "end"
  BY <1>15, <1>d DEF vars, locals, history, Drained
<1> QED BY <1>1, <1>2, <1>3, <1>4, <1>5, <1>6, <1>7, <1>8, <1>9, <1>10, <1>11, <1>12,
           <1>13, <1>14, <1>15, LastSteps
-----------------------------------------------------------------------------
(***************************************************************************)
(* The flags, and the fate of the end event.                               *)
(***************************************************************************)
\* Every step keeps FlagsReset.
LEMMA FlagsStep ==
    TypeInv /\ OrderInv /\ Phases /\ Before /\ FlagsReset /\ [Next]_vars => FlagsReset'
<1> SUFFICES ASSUME TypeInv, OrderInv, Phases, Before, FlagsReset, [Next]_vars,
                    phase' = "end"
             PROVE  FlagsReset'
  BY DEF FlagsReset
<1>t. /\ TypeOK /\ script.end \subseteq Acts /\ script.signal \subseteq Acts
      /\ fate \in [{"begin", "end"} -> Fates]
  <2>1. TypeOK /\ script \in Scripts /\ fate \in [{"begin", "end"} -> Fates]
    BY DEF TypeInv, TypeOK, ControlOK, HistoryOK
  <2> QED BY <2>1, ScriptTyped
<1>k. ASSUME phase = "end", UNCHANGED <<exitsig_recv, finalize_>>, late \subseteq late',
             fate'["end"] # "ignored" \/ fate'["end"] = fate["end"]
      PROVE  FlagsReset'
  BY <1>k DEF FlagsReset
\* event_printer ignores an event only when a late request was seen.
<1>p. ASSUME NEW e, event_printer(e), phase = "end", exitsig_recv' = exitsig_recv
      PROVE  FlagsReset'
  <2>1. CASE finalize_ \/ exitsig_recv
    <3>1. late \cap {"signal", "exit"} # {} /\ late' = late
      BY <1>p, <2>1 DEF event_printer, FlagsReset
    <3> QED BY <3>1, <1>p DEF FlagsReset
  <2>2. CASE ~finalize_ /\ ~exitsig_recv
    <3>1. fate'["end"] # "ignored" \/ fate'["end"] = fate["end"]
      BY <1>p, <1>t, <2>2 DEF event_printer, Fate
    <3>2. \/ finalize_' = finalize_ /\ late' = late
          \/ late' = late \cup {"exit"}
      BY <1>p, <2>2 DEF event_printer, Late
    <3> QED BY <3>1, <3>2, <1>p, <2>2 DEF FlagsReset
  <2> QED BY <2>1, <2>2
<1>1. CASE ResetFlags /\ phase = "main"
  BY <1>1 DEF ResetFlags, ClearFlags, history, Before, FlagsReset
<1>2. CASE SkbPoll /\ phase = "end"
  BY <1>2, <1>k DEF SkbPoll, SkbHead, flags, history
<1>3. CASE SkbReturn /\ phase = "end"
  BY <1>3, <1>k DEF SkbReturn, flags, history
<1>4. CASE PollEventLoss /\ phase = "end"
  BY <1>4, <1>k DEF PollEventLoss, flags, history
<1>5. CASE RingPoll /\ phase = "end"
  BY <1>5, <1>k DEF RingPoll, flags, history
<1>6. CASE RingReturn /\ phase = "end"
  BY <1>6, <1>k DEF RingReturn, flags, history
<1>7. CASE TotalLost /\ phase = "end"
  BY <1>7, <1>k DEF TotalLost, Return, flags, history
<1>8. CASE TracedExits /\ phase = "end"
  BY <1>8, <1>k DEF TracedExits, flags, history
<1>9. CASE Usr1Signal /\ phase = "end"
  BY <1>9, <1>k DEF Usr1Signal, Interrupt, flags, history
<1>10. CASE SkbConsume /\ phase = "end"
  <2>1. exitsig_recv' = exitsig_recv
    BY <1>10 DEF SkbConsume
  <2>2. \/ \E e : event_printer(e)
        \/ UNCHANGED <<finalize_, history>>
    BY <1>10 DEF SkbConsume
  <2> QED BY <1>10, <2>1, <2>2, <1>k, <1>p DEF history
<1>11. CASE RingConsume /\ phase = "end"
  <2>1. exitsig_recv' = exitsig_recv
    BY <1>11 DEF RingConsume
  <2>2. \/ \E e : event_printer(e)
        \/ UNCHANGED <<finalize_, history>>
    BY <1>11 DEF RingConsume
  <2> QED BY <1>11, <2>1, <2>2, <1>k, <1>p DEF history
<1>12. CASE ExitSignal /\ phase = "end"
  <2>1. late' = late \cup {"signal"}
    BY <1>12 DEF ExitSignal, Late
  <2> QED BY <2>1 DEF FlagsReset
<1>13. CASE Check /\ phase = "end"
  <2>1. UNCHANGED <<exitsig_recv, finalize_>>
    BY <1>13 DEF Check, flags
  <2>2. \/ fate' = fate
        \/ \E a \in Acts : Output([from |-> "signal", act |-> a])
    BY <1>13, <1>t DEF Check, PollOutput, Return
  <2>3. fate'["end"] # "ignored" \/ fate'["end"] = fate["end"]
    BY <2>2, <1>t, OutputFacts DEF Origins
  <2>4. late \subseteq late'
    BY <1>13, LastSteps
  <2> QED BY <1>13, <2>1, <2>3, <2>4 DEF FlagsReset
<1>14. CASE RunEnd /\ phase = "end"
  <2>1. UNCHANGED <<exitsig_recv, finalize_>>
    BY <1>14 DEF RunEnd, flags
  <2>2. \/ fate' = fate
        \/ \E a \in Acts : Output([from |-> "end", act |-> a])
    BY <1>14, <1>t DEF RunEnd, PollOutput, Return
  <2>3. fate'["end"] # "ignored" \/ fate'["end"] = fate["end"]
    BY <2>2, <1>t, OutputFacts DEF Origins
  <2>4. late \subseteq late'
    BY <1>14, LastSteps
  <2> QED BY <1>14, <2>1, <2>3, <2>4 DEF FlagsReset
<1>15. CASE UNCHANGED vars /\ phase = "end"
  BY <1>15, <1>k DEF vars, flags, history
<1> QED BY <1>1, <1>2, <1>3, <1>4, <1>5, <1>6, <1>7, <1>8, <1>9, <1>10, <1>11, <1>12,
           <1>13, <1>14, <1>15, LastSteps

\* The rest of a buffer still holds the end event, unless the event read was it, and
\* an end event that is added is in the buffer.
LEMMA HasEndFacts ==
    ASSUME NEW q \in Seq(Events)
    PROVE  /\ \A n \in Nat :
                 (Len(q) > 0 /\ HasEnd(q, n) /\ Head(q).from # "end") => HasEnd(Tail(q), n - 1)
           /\ \A e \in Events : e.from = "end" => HasEnd(Append(q, e), Len(Append(q, e)))
           /\ ~HasEnd(q, 0)
           /\ Len(q) = 0 => ~HasEnd(q, Len(q))
<1>1. ASSUME NEW n \in Nat, Len(q) > 0, HasEnd(q, n), Head(q).from # "end"
      PROVE  HasEnd(Tail(q), n - 1)
  <2>1. PICK i \in 1 .. Len(q) : q[i].from = "end" /\ i <= n
    BY <1>1 DEF HasEnd
  <2>2. i # 1 /\ Len(q) \in Nat
    BY <1>1, <2>1
  <2>3. i - 1 \in 1 .. Len(Tail(q)) /\ Tail(q)[i - 1] = q[i] /\ i - 1 <= n - 1
    BY <1>1, <2>1, <2>2
  <2> QED BY <2>1, <2>3 DEF HasEnd
<1>2. ASSUME NEW e \in Events, e.from = "end"
      PROVE  HasEnd(Append(q, e), Len(Append(q, e)))
  <2>1. Len(Append(q, e)) = Len(q) + 1 /\ Len(q) \in Nat /\ Append(q, e)[Len(q) + 1] = e
    OBVIOUS
  <2> QED BY <1>2, <2>1 DEF HasEnd
<1>3. ~HasEnd(q, 0) /\ (Len(q) = 0 => ~HasEnd(q, Len(q)))
  BY DEF HasEnd
<1> QED BY <1>1, <1>2, <1>3

\* Every step keeps EndAhead: the end event is read, or is going to be.
LEMMA EndAheadStep ==
    TypeInv /\ OrderInv /\ Phases /\ Before /\ Before' /\ EndAhead /\ [Next]_vars => EndAhead'
<1> SUFFICES ASSUME TypeInv, OrderInv, Phases, Before, Before', EndAhead, [Next]_vars
             PROVE  EndAhead'
  OBVIOUS
<1> SUFFICES ASSUME phase' = "end" PROVE EndAhead'
  <2>1. phase' = "main" => EndAhead'
    BY DEF Before, EndAhead
  <2>2. phase' \in {"main", "end"}
    BY TypeStep DEF TypeInv, TypeOK, ControlOK
  <2> QED BY <2>1, <2>2
<1>t. /\ TypeOK /\ script.end \subseteq Acts /\ script.signal \subseteq Acts
      /\ fate \in [{"begin", "end"} -> Fates]
      /\ ring \in Seq(Events) /\ Len(ring) \in Nat
      /\ skb \in Seq(Events) /\ Len(skb) \in Nat /\ skb_left \in 0 .. Len(skb)
      /\ (Len(skb) = 0 <=> skb = <<>>) /\ (Len(ring) = 0 <=> ring = <<>>)
  <2>1. TypeOK /\ script \in Scripts /\ fate \in [{"begin", "end"} -> Fates]
    BY DEF TypeInv, TypeOK, ControlOK, HistoryOK
  <2> QED BY <2>1, ScriptTyped DEF TypeOK, BuffersOK
<1> DEFINE InRing == /\ HasEnd(ring, Len(ring)) /\ do_ring
                     /\ pc \in {"skb", "skb_consume", "skb_ret", "loss", "ring", "ring_consume"}
           InSkb == /\ do_skb
                    /\ \/ pc = "skb" /\ HasEnd(skb, Len(skb))
                       \/ pc = "skb_consume" /\ HasEnd(skb, skb_left)
           Ran == (phase = "end" /\ pc # "end" /\ rval = 0 /\ script.end # {})
                     => fate["end"] # "none"
<1>d. EndAhead <=> (fate["end"] = "pending" => InRing \/ InSkb) /\ Ran
  BY DEF EndAhead
<1>e. (fate'["end"] = "pending" => InRing' \/ InSkb') /\ Ran' => EndAhead'
  BY DEF EndAhead
<1>f. ~HasEnd(skb, 0) /\ (skb = <<>> => ~HasEnd(skb, Len(skb)))
      /\ (ring = <<>> => ~HasEnd(ring, Len(ring)))
  BY <1>t, HasEndFacts
\* Steps that read and emit nothing.
<1>k. ASSUME phase = "end", UNCHANGED <<fate, script>>, pc # "end", rval' = rval,
             InRing => InRing' \/ InSkb', InSkb => InRing' \/ InSkb'
      PROVE  EndAhead'
  BY <1>k, <1>d, <1>e
<1>1. CASE ResetFlags /\ phase = "main"
  BY <1>1, <1>e DEF ResetFlags, history, Before
<1>2. CASE SkbPoll /\ phase = "end"
  <2>1. UNCHANGED <<fate, script, ring, skb, rval>>
    BY <1>2 DEF SkbPoll, SkbHead, history
  <2>2. InRing => InRing' \/ InSkb'
    BY <1>2, <1>f, <2>1 DEF SkbPoll, SkbHead, should_retry, locals
  <2>3. InSkb => InRing' \/ InSkb'
    BY <1>2, <1>f, <2>1 DEF SkbPoll, SkbHead, should_retry, locals
  <2>4. CASE pc # "end"
    BY <1>2, <2>1, <2>2, <2>3, <2>4, <1>k
  <2> QED BY <1>2, <2>1, <2>4, <1>d, <1>e DEF SkbPoll, SkbHead
<1>3. CASE SkbReturn /\ phase = "end"
  <2>1. UNCHANGED <<fate, script, ring, skb, rval>>
    BY <1>3 DEF SkbReturn, history
  <2>2. InRing => InRing' \/ InSkb'
    BY <1>3, <1>f, <2>1 DEF SkbReturn, should_retry, locals
  <2>3. InSkb => InRing' \/ InSkb'
    BY <1>3, <1>f, <2>1 DEF SkbReturn, should_retry, locals
  <2>4. CASE pc # "end"
    BY <1>3, <2>1, <2>2, <2>3, <2>4, <1>k
  <2> QED BY <1>3, <2>1, <2>4, <1>d, <1>e DEF SkbReturn
<1>4. CASE PollEventLoss /\ phase = "end"
  <2>1. UNCHANGED <<fate, script, ring, skb, rval>>
    BY <1>4 DEF PollEventLoss, history
  <2>2. InRing => InRing' \/ InSkb'
    BY <1>4, <1>f, <2>1 DEF PollEventLoss, should_retry, locals
  <2>3. InSkb => InRing' \/ InSkb'
    BY <1>4, <1>f, <2>1 DEF PollEventLoss, should_retry, locals
  <2>4. CASE pc # "end"
    BY <1>4, <2>1, <2>2, <2>3, <2>4, <1>k
  <2> QED BY <1>4, <2>1, <2>4, <1>d, <1>e DEF PollEventLoss
<1>5. CASE RingPoll /\ phase = "end"
  <2>1. UNCHANGED <<fate, script, ring, skb, rval>>
    BY <1>5 DEF RingPoll, history
  <2>2. InRing => InRing' \/ InSkb'
    BY <1>5, <1>f, <2>1 DEF RingPoll, should_retry, locals
  <2>3. InSkb => InRing' \/ InSkb'
    BY <1>5, <1>f, <2>1 DEF RingPoll, should_retry, locals
  <2>4. CASE pc # "end"
    BY <1>5, <2>1, <2>2, <2>3, <2>4, <1>k
  <2> QED BY <1>5, <2>1, <2>4, <1>d, <1>e DEF RingPoll
<1>6. CASE RingReturn /\ phase = "end"
  <2>1. UNCHANGED <<fate, script, ring, skb, rval>>
    BY <1>6 DEF RingReturn, history
  <2>2. InRing => InRing' \/ InSkb'
    BY <1>6, <1>f, <2>1 DEF RingReturn, should_retry, locals
  <2>3. InSkb => InRing' \/ InSkb'
    BY <1>6, <1>f, <2>1 DEF RingReturn, should_retry, locals
  <2>4. CASE pc # "end"
    BY <1>6, <2>1, <2>2, <2>3, <2>4, <1>k
  <2> QED BY <1>6, <2>1, <2>4, <1>d, <1>e DEF RingReturn
<1>7. CASE TracedExits /\ phase = "end"
  <2>1. UNCHANGED <<fate, script, ring, skb, rval>>
    BY <1>7 DEF TracedExits, history
  <2>2. InRing => InRing' \/ InSkb'
    BY <1>7, <1>f, <2>1 DEF TracedExits, should_retry, locals
  <2>3. InSkb => InRing' \/ InSkb'
    BY <1>7, <1>f, <2>1 DEF TracedExits, should_retry, locals
  <2>4. CASE pc # "end"
    BY <1>7, <2>1, <2>2, <2>3, <2>4, <1>k
  <2> QED BY <1>7, <2>1, <2>4, <1>d, <1>e DEF TracedExits
<1>8. CASE ExitSignal /\ phase = "end"
  <2>1. UNCHANGED <<fate, script, ring, skb, skb_left, do_ring, do_skb, rval, phase>>
    BY <1>8 DEF ExitSignal, Interrupt, history
  <2>2. \/ pc' = pc
        \/ pc = "skb" /\ skb = <<>> /\ pc' = "skb_ret"
        \/ pc = "ring" /\ ring = <<>> /\ pc' = "ring_ret"
    BY <1>8 DEF ExitSignal, Interrupt
  <2>3. InRing => InRing'
    BY <2>1, <2>2, <1>f
  <2>4. InSkb => InSkb'
    BY <2>1, <2>2, <1>f
  <2> QED BY <2>1, <2>2, <2>3, <2>4, <1>d, <1>e
<1>9. CASE Usr1Signal /\ phase = "end"
  <2>1. UNCHANGED <<fate, script, ring, skb, skb_left, do_ring, do_skb, rval, phase>>
    BY <1>9 DEF Usr1Signal, Interrupt, history
  <2>2. \/ pc' = pc
        \/ pc = "skb" /\ skb = <<>> /\ pc' = "skb_ret"
        \/ pc = "ring" /\ ring = <<>> /\ pc' = "ring_ret"
    BY <1>9 DEF Usr1Signal, Interrupt
  <2>3. InRing => InRing'
    BY <2>1, <2>2, <1>f
  <2>4. InSkb => InSkb'
    BY <2>1, <2>2, <1>f
  <2> QED BY <2>1, <2>2, <2>3, <2>4, <1>d, <1>e
<1>10. CASE SkbConsume /\ phase = "end"
  <2>1. UNCHANGED <<script, ring, do_ring, do_skb, rval, phase>> /\ pc = "skb_consume"
    BY <1>10 DEF SkbConsume, locals
  <2>2. CASE skb_left = 0
    <3>1. UNCHANGED fate /\ pc' = "skb_ret" /\ ~InSkb
      BY <1>10, <1>f, <2>2 DEF SkbConsume, history
    <3>2. InRing => InRing'
      BY <2>1, <3>1
    <3> QED BY <1>10, <2>1, <3>1, <3>2, <1>k
  <2>3. CASE skb_left > 0
    <3>1. /\ event_printer(Head(skb)) /\ skb' = Tail(skb) /\ skb_left' = skb_left - 1
          /\ pc' = pc /\ Len(skb) > 0
      BY <1>10, <2>3, <1>t DEF SkbConsume
    <3>2. /\ fate["end"] # "none" => fate'["end"] # "none"
          /\ Head(skb).from # "end" => fate'["end"] = fate["end"]
      BY <3>1, <1>t, PrinterKeeps
    <3>3. Head(skb).from = "end" => fate'["end"] # "pending"
      BY <3>1, <1>t DEF event_printer, Fate
    <3>4. InRing => InRing'
      BY <2>1, <3>1
    <3>5. Head(skb).from # "end" /\ InSkb => InSkb'
      <4>1. HasEnd(skb, skb_left) /\ Head(skb).from # "end" => HasEnd(Tail(skb), skb_left - 1)
        BY <3>1, <2>3, <1>t, HasEndFacts
      <4> QED BY <2>1, <3>1, <4>1
    <3> QED BY <2>1, <3>1, <3>2, <3>3, <3>4, <3>5, <1>d, <1>e
  <2> QED BY <2>2, <2>3, <1>t
<1>11. CASE RingConsume /\ phase = "end"
  <2>1. UNCHANGED <<script, skb, skb_left, do_ring, do_skb, rval, phase>> /\ pc = "ring_consume"
    BY <1>11 DEF RingConsume, locals
  <2>2. CASE ring = <<>>
    <3>1. UNCHANGED fate /\ ~InRing /\ ~InSkb
      BY <1>11, <1>f, <2>1, <2>2 DEF RingConsume, MoreInRing, history
    <3> QED BY <1>11, <2>1, <3>1, <1>k
  <2>3. CASE ring # <<>>
    <3>1. event_printer(Head(ring)) /\ ring' = Tail(ring) /\ pc' = pc /\ Len(ring) > 0
      BY <1>11, <2>3, <1>t DEF RingConsume, MoreInRing
    <3>2. /\ fate["end"] # "none" => fate'["end"] # "none"
          /\ Head(ring).from # "end" => fate'["end"] = fate["end"]
      BY <3>1, <1>t, PrinterKeeps
    <3>3. Head(ring).from = "end" => fate'["end"] # "pending"
      BY <3>1, <1>t DEF event_printer, Fate
    <3>4. Head(ring).from # "end" /\ InRing => InRing'
      <4>1. /\ Len(Tail(ring)) = Len(ring) - 1
            /\ HasEnd(ring, Len(ring)) /\ Head(ring).from # "end"
                 => HasEnd(Tail(ring), Len(ring) - 1)
        BY <3>1, <1>t, HasEndFacts
      <4> QED BY <2>1, <3>1, <4>1
    <3>5. ~InSkb
      BY <2>1
    <3> QED BY <2>1, <3>1, <3>2, <3>3, <3>4, <3>5, <1>d, <1>e
  <2> QED BY <2>2, <2>3
<1>12. CASE Check /\ phase = "end"
  <2>1. /\ UNCHANGED <<script, rval, phase>> /\ pc = "check"
        /\ \/ fate' = fate
           \/ \E a \in Acts : Output([from |-> "signal", act |-> a])
    BY <1>12, <1>t DEF Check
  <2>2. fate'["end"] = fate["end"]
    BY <2>1, <1>t, OutputFacts DEF Origins
  <2> QED BY <2>1, <2>2, <1>d, <1>e
<1>13. CASE RunEnd /\ phase = "end"
  <2>1. script' = script /\ pc = "end"
    BY <1>13 DEF RunEnd
  <2>2. CASE /\ \E a \in script.end : Output([from |-> "end", act |-> a])
            /\ PollOutput("end", TRUE)
    <3>1. PICK a \in script.end : Output([from |-> "end", act |-> a])
      BY <2>2
    <3> DEFINE e == [from |-> "end", act |-> a]
    <3>2. \/ fate'["end"] = "lost"
          \/ fate'["end"] = "pending" /\ ring' = Append(ring, e)
          \/ fate'["end"] = "pending" /\ skb' = Append(skb, e) /\ a = "skb"
      BY <3>1, <1>t, OutputFacts DEF Origins
    <3>3. e \in Events /\ e.from = "end"
      BY <1>t DEF Events, Origins
    <3>4. HasEnd(Append(ring, e), Len(Append(ring, e))) /\ HasEnd(Append(skb, e), Len(Append(skb, e)))
      BY <3>3, <1>t, HasEndFacts
    <3>5. pc' = "skb" /\ do_ring' /\ do_skb' = script.using_skboutput
      BY <2>2 DEF PollOutput, PollsSkb
    <3>6. a = "skb" => script.using_skboutput
      <4>1. script \in Scripts
        BY DEF TypeInv, TypeOK, ControlOK
      <4> QED BY <4>1, SkbKnown
    <3> HIDE DEF e
    <3> QED BY <3>2, <3>4, <3>5, <3>6, <1>e
  <2>3. CASE script.end = {} /\ pc' = "skb" /\ fate' = fate
    BY <2>1, <2>3, <1>d, <1>e
  <2>4. CASE pc' = "done" /\ rval' = -1 /\ fate' = fate
    BY <2>1, <2>4, <1>d, <1>e
  <2> QED BY <1>13, <2>2, <2>3, <2>4 DEF RunEnd, PollOutput, Return
<1>14. CASE TotalLost /\ phase = "end"
  <2>1. /\ UNCHANGED <<script, fate, phase>> /\ pc = "total" /\ rval = 0
        /\ pc' = "done"
    BY <1>14 DEF TotalLost, Return, history, Phases
  <2> QED BY <2>1, <1>14, <1>d, <1>e
<1>15. CASE UNCHANGED vars /\ phase = "end"
  BY <1>15, <1>d DEF vars, locals, history, EndAhead
<1> QED BY <1>1, <1>2, <1>3, <1>4, <1>5, <1>6, <1>7, <1>8, <1>9, <1>10, <1>11, <1>12,
           <1>13, <1>14, <1>15, LastSteps
-----------------------------------------------------------------------------
(***************************************************************************)
(* The losses.  When the number of CPUs is not a power of two the loop of  *)
(* get_event_loss_counter reaches the last of them.                        *)
(***************************************************************************)
\* get_event_loss_counter is the whole sum then.
LEMMA AllCounted ==
    ASSUME NCpus <= max_cpu_id PROVE get_event_loss_counter(loss) = Sum(loss, NCpus)
<1>1. \A p \in Cpus \X (1 .. MaxLoss) : p[1] < max_cpu_id /\ p[1] < NCpus
  BY BoundsAssumption, MaxCpuIdAssumption DEF Cpus
<1>2. {p \in Cpus \X (1 .. MaxLoss) : p[1] < max_cpu_id /\ p[2] <= loss[p[1]]}
        = {p \in Cpus \X (1 .. MaxLoss) : p[1] < NCpus /\ p[2] <= loss[p[1]]}
  BY <1>1
<1> QED BY <1>2 DEF get_event_loss_counter, Sum

\* Every step keeps LossSeen: after the last reading of the counters none grows.
LEMMA LossSeenStep ==
    TypeInv /\ Phases /\ LossNotOverstated /\ LossSeen /\ [Next]_vars => LossSeen'
<1> SUFFICES ASSUME TypeInv, Phases, LossNotOverstated, LossSeen, [Next]_vars,
                    NCpus <= max_cpu_id, phase' = "end", "usr1" \notin late'
             PROVE  LossSeen'
  BY DEF LossSeen
<1>t. /\ get_event_loss_counter(loss) = Sum(loss, NCpus)
      /\ Sum(loss, NCpus) \in Nat /\ event_loss_count_ \in Nat
      /\ event_loss_count_ <= Sum(loss, NCpus)
  <2>1. loss \in [Cpus -> 0 .. MaxLoss] /\ NCpus \in Nat
    BY BoundsAssumption DEF TypeInv, TypeOK, LossOK
  <2> QED BY <2>1, AllCounted, SumProperties DEF TypeInv, TypeOK, LossOK, LossNotOverstated
<1>l. phase = "end" => "usr1" \notin late
  BY LastSteps
<1>s. loss' = loss => Sum(loss, NCpus)' = Sum(loss, NCpus)
  BY DEF Sum
<1> USE DEF Polls
<1>1. CASE ResetFlags
  BY <1>1 DEF ResetFlags, LossSeen
<1>2. CASE SkbPoll /\ phase = "end"
  BY <1>2, <1>l, <1>s DEF SkbPoll, SkbHead, losses, history, LossSeen
<1>3. CASE SkbConsume /\ phase = "end"
  BY <1>3, <1>l, <1>s DEF SkbConsume, losses, history, LossSeen
<1>4. CASE SkbReturn /\ phase = "end"
  BY <1>4, <1>l, <1>s DEF SkbReturn, losses, history, LossSeen
<1>5. CASE RingPoll /\ phase = "end"
  BY <1>5, <1>l, <1>s DEF RingPoll, losses, history, LossSeen
<1>6. CASE RingConsume /\ phase = "end"
  BY <1>6, <1>l, <1>s DEF RingConsume, losses, history, LossSeen
<1>7. CASE RingReturn /\ phase = "end"
  BY <1>7, <1>l, <1>s DEF RingReturn, losses, history, LossSeen
<1>8. CASE TracedExits /\ phase = "end"
  BY <1>8, <1>l, <1>s DEF TracedExits, losses, history, LossSeen
<1>9. CASE ExitSignal /\ phase = "end"
  BY <1>9, <1>l, <1>s DEF ExitSignal, Interrupt, losses, history, LossSeen
<1>10. CASE Usr1Signal /\ phase = "end"
  BY <1>10, <1>l, <1>s DEF Usr1Signal, Interrupt, losses, history, LossSeen
<1>11. CASE Check /\ phase = "end"
  <2>1. UNCHANGED <<loss, losses>> /\ pc = "check" /\ pc' \in {"skb", "total"}
    BY <1>11 DEF Check, AfterPoll, Late
  <2> QED BY <1>11, <2>1, <1>l, <1>s DEF losses, LossSeen
<1>12. CASE PollEventLoss /\ phase = "end"
  <2>1. event_loss_count_' = Sum(loss, NCpus) /\ loss' = loss /\ pc' # "done"
    BY <1>12, <1>t DEF PollEventLoss, poll_event_loss
  <2> QED BY <2>1, <1>s DEF LossSeen
<1>13. CASE RunEnd /\ phase = "end"
  BY <1>13 DEF RunEnd, PollOutput, Return, LossSeen
<1>14. CASE TotalLost /\ phase = "end"
  <2>1. total_lost' = Sum(loss, NCpus) /\ UNCHANGED <<loss, event_loss_count_>> /\ pc = "total"
    BY <1>14, <1>t DEF TotalLost
  <2> QED BY <1>14, <2>1, <1>s, <1>l DEF LossSeen
<1>15. CASE UNCHANGED vars /\ phase = "end"
  BY <1>15, <1>l, <1>s DEF vars, losses, history, LossSeen
<1> QED BY <1>1, <1>2, <1>3, <1>4, <1>5, <1>6, <1>7, <1>8, <1>9, <1>10, <1>11, <1>12,
           <1>13, <1>14, <1>15, LastSteps
-----------------------------------------------------------------------------
(***************************************************************************)
(* The theorems.                                                           *)
(***************************************************************************)
\* The invariant behind all of them.
LastInv == /\ TypeInv /\ OrderInv /\ LossNotOverstated
           /\ Phases /\ Before /\ Drained /\ FlagsReset /\ EndAhead /\ LossSeen

\* It holds of every state of a run.
LEMMA LastInvariant == Spec => []LastInv
<1>1. Init => LastInv
  <2> SUFFICES ASSUME Init PROVE LastInv
    OBVIOUS
  <2>1. TypeInv
    BY TypeInit
  <2>2. OrderInv
    BY DEF Init, OrderInv, Ordered, EndKnown, NoEnd, EndDetached, EndAfter, EmptyAtBegin,
       ClearedFirst
  <2>3. LossNotOverstated
    <3>1. Sum(loss, NCpus) \in Nat
      BY <2>1, SumProperties, BoundsAssumption DEF TypeInv, TypeOK, LossOK
    <3> QED BY <3>1 DEF Init, LossNotOverstated
  <2>4. Phases /\ Before /\ Drained /\ FlagsReset /\ EndAhead /\ LossSeen
    BY DEF Init, Phases, Before, Drained, FlagsReset, EndAhead, LossSeen, Polls, PreStart
  <2> QED BY <2>1, <2>2, <2>3, <2>4 DEF LastInv
<1>2. LastInv /\ [Next]_vars => LastInv'
  <2> SUFFICES ASSUME LastInv, [Next]_vars PROVE LastInv'
    OBVIOUS
  <2>1. TypeInv' /\ OrderInv' /\ Phases'
    BY TypeStep, OrderStep, PhasesStep DEF LastInv
  <2>2. Before' /\ LossNotOverstated'
    BY <2>1, BeforeStep, LossStep DEF LastInv
  <2>3. Drained' /\ FlagsReset' /\ EndAhead' /\ LossSeen'
    BY <2>2, DrainedStep, FlagsStep, EndAheadStep, LossSeenStep DEF LastInv
  <2> QED BY <2>1, <2>2, <2>3 DEF LastInv
<1> QED BY <1>1, <1>2, PTL DEF Spec

\* A finished run leaves nothing unread in the buffers, unless a SIGUSR1 program ran
\* in the last drain: the loop of poll_output gives up a buffer only when it is empty.
THEOREM NothingUnread == Spec => []BuffersDrained
<1>1. LastInv => BuffersDrained
  BY DEF LastInv, BuffersDrained, Finished, Phases, Drained, Polls, TypeInv, TypeOK,
     ControlOK
<1> QED BY <1>1, LastInvariant, PTL

\* The event of the end program is handled, or lost for want of room, unless a further
\* request to stop is seen after run() has reset the flags.
THEOREM EndIsHeard == Spec => []EndEventHeard
<1>1. LastInv => EndEventHeard
  <2> SUFFICES ASSUME LastInv, late \cap {"signal", "exit"} = {}
               PROVE  /\ fate["end"] # "ignored"
                      /\ (Finished /\ script.end # {}) => fate["end"] \in {"handled", "lost"}
    BY DEF EndEventHeard
  <2>1. phase \in {"main", "end"} /\ fate["end"] \in Fates
    BY DEF LastInv, TypeInv, TypeOK, ControlOK, HistoryOK
  <2>2. fate["end"] # "ignored"
    BY <2>1 DEF LastInv, Before, FlagsReset
  <2>3. ASSUME Finished, script.end # {} PROVE fate["end"] \notin {"none", "pending"}
    BY <2>1, <2>3 DEF LastInv, Finished, Phases, EndAhead
  <2> QED BY <2>1, <2>2, <2>3 DEF Fates
<1> QED BY <1>1, LastInvariant, PTL

\* At the end of a run every lost event has been told and is in the total, on a machine
\* whose number of CPUs is not a power of two.
THEOREM LossesAreTold == ASSUME NCpus <= max_cpu_id PROVE Spec => []LossAllReported
<1>1. LastInv => LossAllReported
  <2> SUFFICES ASSUME LastInv, Finished, "usr1" \notin late
               PROVE  out_lost = Sum(loss, NCpus) /\ total_lost = Sum(loss, NCpus)
    BY DEF LossAllReported
  <2>1. phase = "end" /\ pc = "done" /\ rval = 0
    BY DEF LastInv, Finished, Phases, TypeInv, TypeOK, ControlOK
  <2>2. event_loss_count_ = Sum(loss, NCpus) /\ total_lost = Sum(loss, NCpus)
    BY <2>1 DEF LastInv, LossSeen, Polls
  <2> QED BY <2>2 DEF LastInv, LossNotOverstated
<1> QED BY <1>1, LastInvariant, PTL
=============================================================================
