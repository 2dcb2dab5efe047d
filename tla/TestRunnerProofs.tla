-------------------------- MODULE TestRunnerProofs --------------------------
(***************************************************************************)
(* The verdicts of TestRunner, for any number of programs of any length.   *)
(***************************************************************************)
EXTENDS TestRunner, TLAPS, WellFoundedInduction

Exits == {"exit0", "exit1"}

\* A non-empty set of natural numbers has a least element.
LEMMA Least ==
    ASSUME NEW T, T \subseteq Nat, T # {}
    PROVE  \E n \in T : \A m \in T : n <= m
<1> DEFINE R == OpToRel(<, Nat)
<1>1. \A x, y \in Nat : <<y, x>> \in R <=> y < x
  BY DEF OpToRel
<1>2. PICK x \in T : \A y \in T : <<y, x>> \notin R
  BY NatLessThanWellFounded, WFMin
<1>3. \A y \in T : x <= y
  <2> TAKE y \in T
  <2>1. x \in Nat /\ y \in Nat
    OBVIOUS
  <2>2. ~(y < x)
    BY <2>1, <1>1, <1>2, Zenon
  <2> QED BY <2>1, <2>2
<1> QED BY <1>3

\* The events of a program are a sequence.
LEMMA EventsAreSeq ==
    ASSUME NEW p \in Programs
    PROVE  /\ p.ret \in {0, 1} /\ p.evs \in Seq(AllEvents) /\ Len(p.evs) \in Nat
           /\ DOMAIN p.evs = 1 .. Len(p.evs)
<1>1. PICK n \in 0 .. MaxEvents : p.evs \in [1 .. n -> Events]
  BY DEF Programs
<1>2. p.evs \in Seq(Events) /\ Len(p.evs) = n
  BY <1>1, RunnerAssumption
<1> QED BY <1>2, RunnerAssumption DEF Programs

\* p sends x before any exit() of its own.
Said(p, x) == \E j \in 1 .. Len(p.evs) :
                 p.evs[j] = x /\ \A i \in 1 .. j - 1 : p.evs[i] \notin Exits

\* Heard holds just what is sent up to the first exit().
LEMMA HeardIsSaid ==
    ASSUME NEW p \in Programs, NEW x
    PROVE  Contains(Heard(p), x) <=> Said(p, x)
<1> DEFINE s == p.evs
           E == {i \in DOMAIN s : s[i] \in {"exit0", "exit1"}}
<1>1. s \in Seq(AllEvents) /\ Len(s) \in Nat /\ DOMAIN s = 1 .. Len(s)
  BY EventsAreSeq
<1>2. CASE E = {}
  <2>1. Heard(p) = s
    BY <1>2 DEF Heard
  <2>2. \A i \in 1 .. Len(s) : s[i] \notin Exits
    BY <1>1, <1>2 DEF Exits
  <2>3. \A j \in 1 .. Len(s) : 1 .. j - 1 \subseteq 1 .. Len(s)
    BY <1>1
  <2> QED BY <2>1, <2>2, <2>3 DEF Contains, Said
<1>3. CASE E # {}
  <2> DEFINE k == CHOOSE i \in E : \A j \in E : i <= j
  <2>1. E \subseteq Nat
    BY <1>1
  <2>2. k \in E /\ \A j \in E : k <= j
    BY <1>3, <2>1, Least
  <2> HIDE DEF k
  <2>3. Heard(p) = SubSeq(s, 1, k)
    BY <1>3 DEF Heard, k
  <2>4. k \in 1 .. Len(s) /\ s[k] \in Exits
    BY <2>2, <1>1 DEF Exits
  <2>5. \A i \in 1 .. k - 1 : i \in 1 .. Len(s) /\ s[i] \notin Exits
    BY <2>2, <2>4, <1>1 DEF Exits
  <2>6. Len(Heard(p)) = k /\ \A i \in 1 .. k : Heard(p)[i] = s[i]
    BY <2>3, <2>4, <1>1
  <2>7. Contains(Heard(p), x) <=> \E j \in 1 .. k : s[j] = x
    BY <2>6 DEF Contains
  <2>8. ASSUME NEW j \in 1 .. k, s[j] = x PROVE Said(p, x)
    <3>1. j \in 1 .. Len(s) /\ \A i \in 1 .. j - 1 : i \in 1 .. k - 1
      BY <2>4, <1>1
    <3> QED BY <2>5, <2>8, <3>1 DEF Said
  <2>9. ASSUME Said(p, x) PROVE \E j \in 1 .. k : s[j] = x
    <3>1. PICK j \in 1 .. Len(s) : s[j] = x /\ \A i \in 1 .. j - 1 : s[i] \notin Exits
      BY <2>9 DEF Said
    <3>2. ~(k \in 1 .. j - 1)
      BY <2>4, <3>1
    <3>3. j \in 1 .. k
      BY <2>4, <3>2, <1>1
    <3> QED BY <3>1, <3>3
  <2> QED BY <2>7, <2>8, <2>9
<1> QED BY <1>2, <1>3
-----------------------------------------------------------------------------
\* TypeOK, without the bound on the errors that the bounds of a run give, and with the
\* part of the control that the verdicts depend on: one result for each program done,
\* and an output to capture to as long as a program is polled.
TypeInv ==
    /\ mode \in {"test", "bench"} /\ progs \in [1 .. NProgs -> Programs]
    /\ begin \in Seq(AllEvents) /\ end \in Seq(AllEvents) /\ ring \in Seq(AllEvents)
    /\ \A i \in 1 .. Len(begin) : begin[i] \in BeginEvents
    /\ pc \in {"begin", "run", "poll", "verdict", "restore", "main", "end", "last", "done"}
    /\ index \in 1 .. NProgs + 1
    /\ finalize_ \in BOOLEAN /\ exitsig_recv \in BOOLEAN /\ exit_code \in {0, 1}
    /\ error_count \in Nat
    /\ results \in Seq({"passed", "failed", "skipped"}) /\ Len(results) = index - 1
Stages ==
    /\ pc \in {"begin", "run", "poll", "verdict"} => index <= NProgs
    /\ pc = "begin" => ring = <<>> /\ ~finalize_
    /\ (pc \in {"begin", "run"} /\ mode = "test") => exit_code = 0
    /\ pc \in {"poll", "verdict"} => /\ retval = progs[index].ret
                                     /\ handlers_out = "capture" /\ capture = "live"
    /\ (pc \in {"main", "end", "last"} /\ mode = "test") => handlers_out = "out"
    /\ mode = "test" => ~dangling

\* Sequences of what a program may send.
LEMMA SeqFacts ==
    ASSUME NEW S
    PROVE  /\ \A q \in Seq(S), v \in S : Append(q, v) \in Seq(S)
                                         /\ Len(Append(q, v)) = Len(q) + 1
           /\ \A q, r \in Seq(S) : q \o r \in Seq(S)
           /\ \A q \in Seq(S) : q # <<>> => Tail(q) \in Seq(S) /\ Head(q) \in S
           /\ \A T : \A q \in AtMostOne(T) : T \subseteq S => q \in Seq(S)
<1>1. ASSUME NEW T, NEW q \in AtMostOne(T), T \subseteq S PROVE q \in Seq(S)
  <2>1. q = <<>> \/ \E e \in S : q = <<e>>
    BY <1>1 DEF AtMostOne
  <2>2. ASSUME NEW e \in S, q = <<e>> PROVE q \in Seq(S)
    BY <2>2
  <2>3. ASSUME q = <<>> PROVE q \in Seq(S)
    BY <2>3
  <2> QED BY <2>1, <2>2, <2>3
<1> QED BY <1>1

\* The initial states are typed.
LEMMA TypeInit == Init => TypeInv
<1> SUFFICES ASSUME Init PROVE TypeInv
  OBVIOUS
<1>1. /\ begin \in Seq(AllEvents) /\ end \in Seq(AllEvents) /\ ring \in Seq(AllEvents)
      /\ \A i \in 1 .. Len(begin) : begin[i] \in BeginEvents
  <2>1. begin \in Seq(BeginEvents)
    BY SeqFacts DEF Init
  <2>2. begin \in Seq(AllEvents) /\ end \in Seq(AllEvents)
    BY RunnerAssumption, SeqFacts DEF Init
  <2>3. ring = <<>>
    BY DEF Init
  <2> QED BY <2>1, <2>2, <2>3
<1>2. index \in 1 .. NProgs + 1 /\ Len(results) = index - 1
      /\ results \in Seq({"passed", "failed", "skipped"})
  BY RunnerAssumption DEF Init
<1>3. mode \in {"test", "bench"} /\ progs \in [1 .. NProgs -> Programs]
      /\ finalize_ = FALSE /\ exitsig_recv = FALSE /\ exit_code = 0 /\ error_count = 0
      /\ pc = "begin"
  BY RunnerAssumption DEF Init
<1> QED BY <1>1, <1>2, <1>3 DEF TypeInv

\* What the handler of an event may change.
LEMMA PrinterFacts ==
    ASSUME NEW e, event_printer(e)
    PROVE  /\ finalize_ \in BOOLEAN => finalize_' \in BOOLEAN
           /\ exit_code' \in {0, 1, exit_code}
           /\ error_count' \in {error_count, error_count + 1}
           /\ dangling' => (dangling \/ (handlers_out = "capture" /\ capture = "freed"))
<1>1. finalize_' = finalize_ \/ finalize_' = TRUE
  BY DEF event_printer
<1>2. finalize_ \in BOOLEAN => finalize_' \in BOOLEAN
  BY <1>1, Zenon
<1>3. exit_code' \in {0, 1, exit_code}
  BY DEF event_printer
<1>4. error_count' \in {error_count, error_count + 1}
  BY DEF event_printer
<1>5. dangling' => (dangling \/ (handlers_out = "capture" /\ capture = "freed"))
  BY DEF event_printer
<1> QED BY <1>1, <1>2, <1>3, <1>4, <1>5

\* Every step keeps TypeInv.
LEMMA TypeStep == TypeInv /\ Stages /\ [Next]_vars => TypeInv'
<1> SUFFICES ASSUME TypeInv, Stages, [Next]_vars PROVE TypeInv'
  OBVIOUS
<1>n. NProgs \in Nat \ {0}
  BY RunnerAssumption
<1>r. /\ ring \in Seq(AllEvents) /\ begin \in Seq(AllEvents) /\ end \in Seq(AllEvents)
      /\ index \in 1 .. NProgs => progs[index].evs \in Seq(AllEvents)
  BY EventsAreSeq, RunnerAssumption DEF TypeInv
<1>v. ASSUME NEW v \in {"passed", "failed", "skipped"}
      PROVE  /\ Append(results, v) \in Seq({"passed", "failed", "skipped"})
             /\ Len(Append(results, v)) = Len(results) + 1
  <2>1. results \in Seq({"passed", "failed", "skipped"})
    BY DEF TypeInv
  <2> QED BY <2>1, SeqFacts
<1>1. CASE ExitSignal
  BY <1>1 DEF ExitSignal, TypeInv, script, flags, outputs
<1>2. CASE TestRunFails
  BY <1>2 DEF TestRunFails, TypeInv, script, flags, outputs
<1>3. CASE PollReturns
  BY <1>3 DEF PollReturns, Polling, TypeInv, script, flags, outputs
<1>4. CASE BenchContinues
  BY <1>4 DEF BenchContinues, TypeInv, script, flags, outputs
<1>5. CASE Restore
  BY <1>5 DEF Restore, ReturnOutput, TypeInv, script, flags, outputs
<1>6. CASE RunBegin
  <2>1. ring' = ring \o begin /\ begin \in Seq(AllEvents)
    BY <1>6, <1>r DEF RunBegin, Stages, TypeInv
  <2>2. ring' \in Seq(AllEvents)
    BY <2>1, <1>r, SeqFacts
  <2> QED BY <1>6, <2>2 DEF RunBegin, TypeInv, script, flags, outputs
<1>7. CASE RunEnd
  <2>1. ring' = ring \o end /\ end \in Seq(AllEvents)
    BY <1>7, <1>r DEF RunEnd, Stages, TypeInv
  <2>2. ring' \in Seq(AllEvents)
    BY <2>1, <1>r, SeqFacts
  <2> QED BY <1>7, <2>2 DEF RunEnd, TypeInv, script, flags, outputs
<1>8. CASE RunProgram
  <2>1. ring' = ring \o progs[index].evs /\ progs[index].evs \in Seq(AllEvents)
    BY <1>8, <1>r DEF RunProgram, Stages, TypeInv
  <2>2. ring' \in Seq(AllEvents)
    BY <2>1, <1>r, SeqFacts
  <2> QED BY <1>8, <2>2 DEF RunProgram, TypeInv, script, flags, outputs
<1>9. CASE HandleEvent
  <2>1. ring' \in Seq(AllEvents)
    BY <1>9, <1>r, SeqFacts DEF HandleEvent
  <2>2. finalize_' \in BOOLEAN /\ exit_code' \in {0, 1} /\ error_count' \in Nat
    <3>1. event_printer(Head(ring))
      BY <1>9 DEF HandleEvent
    <3>4. finalize_ \in BOOLEAN /\ exit_code \in {0, 1} /\ error_count \in Nat
      BY DEF TypeInv
    <3>2. finalize_' \in BOOLEAN
      BY <3>1, <3>4, PrinterFacts
    <3>3. exit_code' \in {0, 1} /\ error_count' \in Nat
      BY <3>1, <3>4, PrinterFacts
    <3> QED BY <3>2, <3>3
  <2> QED BY <1>9, <2>1, <2>2 DEF HandleEvent, TypeInv, script
<1>10. CASE TestVerdict
  <2>1. PICK v \in {"passed", "failed", "skipped"} : results' = Append(results, v)
    BY <1>10 DEF TestVerdict
  <2>2. index' = index + 1 /\ index' \in 1 .. NProgs + 1
    BY <1>10, <1>n DEF TestVerdict, NextProbe, Stages, TypeInv
  <2>3. pc' \in {"run", "restore"} /\ exit_code' \in {0, 1}
    BY <1>10 DEF TestVerdict, TestRval, ResetExitCode, NextProbe, TypeInv
  <2>4. results' \in Seq({"passed", "failed", "skipped"}) /\ Len(results') = index' - 1
    BY <2>1, <2>2, <1>v DEF TypeInv
  <2>5. UNCHANGED <<mode, progs, begin, end, ring, finalize_, exitsig_recv, error_count>>
    BY <1>10 DEF TestVerdict, script, flags
  <2> QED BY <2>2, <2>3, <2>4, <2>5 DEF TypeInv
<1>11. CASE BenchSkips
  <2>1. PICK v \in {"passed", "failed", "skipped"} : results' = Append(results, v)
    BY <1>11 DEF BenchSkips
  <2>2. index' = index + 1 /\ index' \in 1 .. NProgs + 1
    BY <1>11, <1>n DEF BenchSkips, NextProbe, Stages, TypeInv
  <2>3. pc' \in {"run", "restore"} /\ exit_code' \in {0, 1}
    BY <1>11 DEF BenchSkips, NextProbe, TypeInv
  <2>4. results' \in Seq({"passed", "failed", "skipped"}) /\ Len(results') = index' - 1
    BY <2>1, <2>2, <1>v DEF TypeInv
  <2>5. UNCHANGED <<mode, progs, begin, end, ring, finalize_, exitsig_recv, error_count>>
    BY <1>11 DEF BenchSkips, script, flags
  <2> QED BY <2>2, <2>3, <2>4, <2>5 DEF TypeInv
<1>12. CASE BenchFails
  <2>1. PICK v \in {"passed", "failed", "skipped"} : results' = Append(results, v)
    BY <1>12 DEF BenchFails
  <2>2. index' = index + 1 /\ index' \in 1 .. NProgs + 1
    BY <1>12, <1>n DEF BenchFails, NextProbe, Stages, TypeInv
  <2>3. pc' \in {"run", "restore"} /\ exit_code' \in {0, 1}
    BY <1>12 DEF BenchFails, NextProbe, TypeInv
  <2>4. results' \in Seq({"passed", "failed", "skipped"}) /\ Len(results') = index' - 1
    BY <2>1, <2>2, <1>v DEF TypeInv
  <2>5. UNCHANGED <<mode, progs, begin, end, ring, finalize_, exitsig_recv, error_count>>
    BY <1>12 DEF BenchFails, script, flags
  <2> QED BY <2>2, <2>3, <2>4, <2>5 DEF TypeInv
<1>13. CASE BenchReports
  <2>1. PICK v \in {"passed", "failed", "skipped"} : results' = Append(results, v)
    BY <1>13 DEF BenchReports
  <2>2. index' = index + 1 /\ index' \in 1 .. NProgs + 1
    BY <1>13, <1>n DEF BenchReports, NextProbe, Stages, TypeInv
  <2>3. pc' \in {"run", "restore"} /\ exit_code' \in {0, 1}
    BY <1>13 DEF BenchReports, NextProbe, TypeInv
  <2>4. results' \in Seq({"passed", "failed", "skipped"}) /\ Len(results') = index' - 1
    BY <2>1, <2>2, <1>v DEF TypeInv
  <2>5. UNCHANGED <<mode, progs, begin, end, ring, finalize_, exitsig_recv, error_count>>
    BY <1>13 DEF BenchReports, script, flags
  <2> QED BY <2>2, <2>3, <2>4, <2>5 DEF TypeInv
<1>14. CASE UNCHANGED vars
  BY <1>14 DEF vars, script, flags, outputs, TypeInv
<1> QED BY <1>1, <1>2, <1>3, <1>4, <1>5, <1>6, <1>7, <1>8, <1>9, <1>10, <1>11, <1>12,
           <1>13, <1>14 DEF Next, Done

\* Every step keeps Stages.
LEMMA StagesStep == TypeInv /\ Stages /\ [Next]_vars => Stages'
<1> SUFFICES ASSUME TypeInv, Stages, [Next]_vars PROVE Stages'
  OBVIOUS
<1>n. NProgs \in Nat \ {0} /\ index \in 1 .. NProgs + 1
  BY RunnerAssumption DEF TypeInv
<1>1. CASE ExitSignal
  BY <1>1, <1>n DEF ExitSignal, Stages, script, flags, outputs
<1>2. CASE RunBegin
  BY <1>2, <1>n DEF RunBegin, Stages, script, flags, outputs
<1>3. CASE RunProgram
  BY <1>3, <1>n DEF RunProgram, Stages, script, flags, outputs
<1>4. CASE TestRunFails
  BY <1>4, <1>n DEF TestRunFails, Stages, script, flags, outputs
<1>5. CASE HandleEvent
  <2>1. event_printer(Head(ring)) /\ Polling
    BY <1>5 DEF HandleEvent
  <2>2. UNCHANGED <<script, pc, index, handlers_out, capture, retval>>
    BY <1>5 DEF HandleEvent
  <2>3. (mode = "test" /\ dangling') => dangling
    BY <2>1, PrinterFacts DEF Polling, Stages
  <2> QED BY <2>1, <2>2, <2>3 DEF Stages, Polling, script
<1>6. CASE PollReturns
  BY <1>6, <1>n DEF PollReturns, Polling, Stages, script, flags, outputs
<1>7. CASE TestVerdict
  BY <1>7, <1>n DEF TestVerdict, TestRval, ResetExitCode, NextProbe, Stages, script, flags,
     outputs
<1>8. CASE BenchSkips
  BY <1>8, <1>n DEF BenchSkips, NextProbe, Stages, script, flags, outputs
<1>9. CASE BenchContinues
  BY <1>9, <1>n DEF BenchContinues, Stages, script, flags, outputs
<1>10. CASE BenchFails
  BY <1>10, <1>n DEF BenchFails, NextProbe, Stages, script, flags, outputs
<1>11. CASE BenchReports
  BY <1>11, <1>n DEF BenchReports, NextProbe, Stages, script, flags, outputs
<1>12. CASE Restore
  BY <1>12, <1>n DEF Restore, ReturnOutput, Stages, script, flags, outputs
<1>13. CASE RunEnd
  BY <1>13, <1>n DEF RunEnd, Stages, script, flags, outputs
<1>14. CASE UNCHANGED vars
  BY <1>14 DEF vars, script, flags, outputs, Stages
<1> QED BY <1>1, <1>2, <1>3, <1>4, <1>5, <1>6, <1>7, <1>8, <1>9, <1>10, <1>11, <1>12,
           <1>13, <1>14 DEF Next, Done

\* The type invariant and the stages of a run hold throughout.
LEMMA TypeAndStages == Spec => [](TypeInv /\ Stages)
<1>1. Init => Stages
  BY RunnerAssumption DEF Init, Stages
<1> QED BY <1>1, TypeInit, TypeStep, StagesStep, PTL DEF Spec

\* In a run of tests no handler writes to the output of an earlier test: the capture
\* is alive while a test is polled, and run() gives the output back before it goes on.
THEOREM NoneDangles == Spec => []NoDanglingOutput
<1>1. Stages => NoDanglingOutput
  BY DEF Stages, NoDanglingOutput
<1> QED BY <1>1, TypeAndStages, PTL
-----------------------------------------------------------------------------
(***************************************************************************)
(* What is in the ring buffer while a program is polled: what begin sent,  *)
(* n events of it, and what the program sent from its k-th event on.       *)
(***************************************************************************)
Evs == progs[index].evs

Reading(n, k) ==
    /\ n \in Nat /\ k \in 1 .. Len(Evs) + 1
    /\ Len(ring) = n + Len(Evs) + 1 - k
    /\ \A i \in 1 .. n : ring[i] \in BeginEvents
    /\ \A i \in n + 1 .. Len(ring) : ring[i] = Evs[k + i - n - 1]
    /\ \A j \in 1 .. k - 1 : Evs[j] \notin Exits
    /\ n > 0 => k = 1
\* The errors among the events before the k-th were counted.
Counted(k) == (\E j \in 1 .. k - 1 : Evs[j] = "errorf") => error_count > 0

\* As long as nothing asks to stop, nothing of what the program sends is missed.
Unread  == (pc = "poll" /\ ~exitsig_recv /\ ~finalize_) =>
              \E n, k : Reading(n, k) /\ Counted(k)
AllRead == (pc = "verdict" /\ ~exitsig_recv /\ ~finalize_) =>
              \A j \in 1 .. Len(Evs) : Evs[j] \notin Exits
                                       /\ (Evs[j] = "errorf" => error_count > 0)
Leftover == ~exitsig_recv => /\ pc = "verdict" => ring = <<>>
                             /\ pc = "run" => \A i \in 1 .. Len(ring) : ring[i] \in BeginEvents
ReadInv == Unread /\ AllRead /\ Leftover

\* Length and elements of a queue after reading from it and adding to it.
LEMMA QueueFacts ==
    ASSUME NEW S, NEW q \in Seq(S)
    PROVE  /\ Len(q) \in Nat /\ (Len(q) = 0 <=> q = <<>>)
           /\ q # <<>> => /\ Head(q) = q[1] /\ Len(Tail(q)) = Len(q) - 1
                          /\ \A i \in 1 .. Len(q) - 1 : Tail(q)[i] = q[i + 1]
           /\ \A r \in Seq(S) : /\ Len(q \o r) = Len(q) + Len(r)
                                /\ \A i \in 1 .. Len(q) : (q \o r)[i] = q[i]
                                /\ \A i \in Len(q) + 1 .. Len(q) + Len(r) :
                                      (q \o r)[i] = r[i - Len(q)]
OBVIOUS

\* What one event read is, and what is left.
LEMMA ReadOne ==
    ASSUME TypeInv, Stages, pc = "poll", HandleEvent, NEW n, NEW k, Reading(n, k)
    PROVE  /\ UNCHANGED <<pc, progs, index, mode, exitsig_recv>>
           /\ \/ n > 0 /\ Head(ring) \in BeginEvents /\ Reading(n - 1, k)'
              \/ /\ n = 0 /\ k \in 1 .. Len(Evs) /\ Head(ring) = Evs[k]
                 /\ \A j \in 1 .. k - 1 : Evs[j] \notin Exits
                 /\ Evs[k] \notin Exits => Reading(0, k + 1)'
<1>1. UNCHANGED <<pc, progs, index, mode, exitsig_recv>> /\ ring # <<>> /\ ring' = Tail(ring)
  BY DEF HandleEvent, script
<1>2. ring \in Seq(AllEvents)
  BY DEF TypeInv
<1>3. Len(Evs) \in Nat /\ n \in Nat /\ k \in 1 .. Len(Evs) + 1
  <2>1. progs[index] \in Programs
    BY RunnerAssumption DEF TypeInv, Stages
  <2> QED BY <2>1, EventsAreSeq DEF Evs, Reading
<1>4. /\ Len(ring) \in Nat \ {0} /\ Head(ring) = ring[1] /\ Len(ring') = Len(ring) - 1
      /\ \A i \in 1 .. Len(ring) - 1 : ring'[i] = ring[i + 1]
  BY <1>1, <1>2, QueueFacts
<1>5. Evs' = Evs
  BY <1>1 DEF Evs
<1>6. CASE n > 0
  <2>1. Head(ring) \in BeginEvents /\ k = 1
    BY <1>3, <1>4, <1>6 DEF Reading
  <2>2. n - 1 \in Nat /\ Len(ring') = (n - 1) + Len(Evs) + 1 - k
    BY <1>3, <1>4, <1>6 DEF Reading
  <2>3. ASSUME NEW i \in 1 .. n - 1 PROVE ring'[i] \in BeginEvents
    <3>1. i + 1 \in 1 .. n /\ i \in 1 .. Len(ring) - 1
      BY <1>3, <1>4, <2>2, <2>1
    <3> QED BY <3>1, <1>4 DEF Reading
  <2>4. ASSUME NEW i \in (n - 1) + 1 .. Len(ring')
        PROVE  ring'[i] = Evs[k + i - (n - 1) - 1]
    <3>1. i + 1 \in n + 1 .. Len(ring) /\ i \in 1 .. Len(ring) - 1
          /\ k + (i + 1) - n - 1 = k + i - (n - 1) - 1
      BY <1>3, <1>4, <1>6
    <3>2. ring[i + 1] = Evs[k + (i + 1) - n - 1]
      BY <3>1 DEF Reading
    <3> QED BY <3>1, <3>2, <1>4
  <2>5. \A j \in 1 .. k - 1 : Evs[j] \notin Exits
    BY DEF Reading
  <2> QED BY <1>1, <1>3, <1>5, <1>6, <2>1, <2>2, <2>3, <2>4, <2>5 DEF Reading
<1>7. CASE n = 0
  <2>1. k \in 1 .. Len(Evs) /\ Len(ring) = Len(Evs) + 1 - k
    BY <1>3, <1>4, <1>7 DEF Reading
  <2>2. Head(ring) = Evs[k]
    <3>1. 1 \in n + 1 .. Len(ring) /\ k + 1 - n - 1 = k
      BY <1>3, <1>4, <1>7
    <3> QED BY <3>1, <1>4 DEF Reading
  <2>3. ASSUME NEW i \in 0 + 1 .. Len(ring') PROVE ring'[i] = Evs[(k + 1) + i - 0 - 1]
    <3>1. i + 1 \in n + 1 .. Len(ring) /\ i \in 1 .. Len(ring) - 1
          /\ k + (i + 1) - n - 1 = (k + 1) + i - 0 - 1
      BY <1>3, <1>4, <1>7
    <3>2. ring[i + 1] = Evs[k + (i + 1) - n - 1]
      BY <3>1 DEF Reading
    <3> QED BY <3>1, <3>2, <1>4
  <2>4. \A j \in 1 .. k - 1 : Evs[j] \notin Exits
    BY DEF Reading
  <2>5. ASSUME Evs[k] \notin Exits PROVE \A j \in 1 .. (k + 1) - 1 : Evs[j] \notin Exits
    BY <2>1, <2>4, <2>5
  <2>6. /\ k + 1 \in 1 .. Len(Evs) + 1 /\ Len(ring') = 0 + Len(Evs) + 1 - (k + 1)
        /\ \A i \in 1 .. 0 : ring'[i] \in BeginEvents
    BY <1>3, <1>4, <2>1
  <2>7. Evs[k] \notin Exits => Reading(0, k + 1)'
    BY <1>5, <2>3, <2>5, <2>6 DEF Reading
  <2> QED BY <1>1, <1>7, <2>1, <2>2, <2>4, <2>7
<1> QED BY <1>3, <1>6, <1>7

\* Handling an event without a request to stop.
LEMMA PrinterCounts ==
    ASSUME NEW e, event_printer(e), Stages, pc = "poll", ~exitsig_recv, ~finalize_,
           error_count \in Nat
    PROVE  /\ (~finalize_' <=> e \notin Exits)
           /\ error_count' = IF e = "errorf" THEN error_count + 1 ELSE error_count
           /\ exit_code' = IF e \in Exits THEN (IF e = "exit1" THEN 1 ELSE 0) ELSE exit_code
BY DEF event_printer, Stages, Exits

\* Every step keeps ReadInv.
LEMMA ReadStep == TypeInv /\ Stages /\ ReadInv /\ [Next]_vars => ReadInv'
<1> SUFFICES ASSUME TypeInv, Stages, ReadInv, [Next]_vars PROVE ReadInv'
  OBVIOUS
<1>t. /\ ring \in Seq(AllEvents) /\ begin \in Seq(AllEvents) /\ error_count \in Nat
      /\ \A i \in 1 .. Len(begin) : begin[i] \in BeginEvents
      /\ Len(ring) \in Nat /\ (Len(ring) = 0 <=> ring = <<>>) /\ Len(begin) \in Nat
  <2>1. /\ ring \in Seq(AllEvents) /\ begin \in Seq(AllEvents) /\ error_count \in Nat
        /\ \A i \in 1 .. Len(begin) : begin[i] \in BeginEvents
    BY DEF TypeInv
  <2> QED BY <2>1
<1>e. pc \in {"run", "poll", "verdict"} => Evs \in Seq(AllEvents) /\ Len(Evs) \in Nat
  <2>1. pc \in {"run", "poll", "verdict"} => progs[index] \in Programs
    BY RunnerAssumption DEF TypeInv, Stages
  <2> QED BY <2>1, EventsAreSeq DEF Evs
\* The steps after which run() is not concerned with a program.
<1>k. ASSUME pc' \notin {"run", "poll", "verdict"} \/ exitsig_recv' PROVE ReadInv'
  BY <1>k DEF ReadInv, Unread, AllRead, Leftover
<1>1. CASE ExitSignal \/ TestRunFails \/ Restore \/ RunEnd
  BY <1>1, <1>k DEF ExitSignal, TestRunFails, Restore, RunEnd
<1>2. CASE RunBegin
  <2>1. pc' = "run" /\ ring' = <<>> \o begin
    BY <1>2 DEF RunBegin, Stages
  <2>2. ring' = begin
    BY <2>1, <1>t
  <2> QED BY <2>1, <2>2, <1>t DEF ReadInv, Unread, AllRead, Leftover
<1>3. CASE RunProgram
  <2>1. /\ pc = "run" /\ pc' = "poll" /\ UNCHANGED <<progs, index, exitsig_recv>>
        /\ ring' = ring \o Evs
    BY <1>3 DEF RunProgram, script, flags, Evs
  <2>2. Evs' = Evs
    BY <2>1 DEF Evs
  <2>3. ASSUME ~exitsig_recv PROVE \E n, k : Reading(n, k)' /\ Counted(k)'
    <3>9. PICK m \in Nat : m = Len(ring)
      BY <1>t
    <3>1. \A i \in 1 .. m : ring[i] \in BeginEvents
      BY <2>1, <2>3, <3>9 DEF ReadInv, Leftover
    <3>2. /\ Len(ring') = m + Len(Evs)
          /\ \A i \in 1 .. m : ring'[i] = ring[i]
          /\ \A i \in m + 1 .. m + Len(Evs) : ring'[i] = Evs[i - m]
      BY <2>1, <1>t, <1>e, <3>9, QueueFacts
    <3>3. m \in Nat /\ Len(Evs) \in Nat
      BY <1>e, <2>1
    <3>4. \A i \in m + 1 .. Len(ring') : ring'[i] = Evs[1 + i - m - 1]
      <4> TAKE i \in m + 1 .. Len(ring')
      <4>1. i \in m + 1 .. m + Len(Evs) /\ 1 + i - m - 1 = i - m
        BY <3>2, <3>3
      <4> QED BY <4>1, <3>2
    <3>5. /\ Len(ring') = m + Len(Evs) + 1 - 1 /\ 1 \in 1 .. Len(Evs) + 1
      BY <3>2, <3>3
    <3>8. \A i \in 1 .. m : ring'[i] \in BeginEvents
      BY <3>1, <3>2
    <3>6. Reading(m, 1)'
      BY <2>2, <3>3, <3>4, <3>5, <3>8 DEF Reading
    <3>7. Counted(1)'
      BY DEF Counted
    <3> QED BY <3>6, <3>7
  <2> QED BY <2>1, <2>3, <1>k DEF ReadInv, Unread, AllRead, Leftover
<1>4. CASE HandleEvent
  <2>1. /\ UNCHANGED <<pc, progs, index, exitsig_recv>> /\ event_printer(Head(ring))
        /\ pc \in {"poll", "main", "last"}
    BY <1>4 DEF HandleEvent, Polling, script
  <2>2. CASE pc = "poll" /\ ~exitsig_recv' /\ ~finalize_'
    <3>1. ~finalize_ /\ ~exitsig_recv
      BY <2>1, <2>2 DEF event_printer
    <3>2. PICK n, k : Reading(n, k) /\ Counted(k)
      BY <2>2, <3>1 DEF ReadInv, Unread
    <3>3. /\ Head(ring) \notin Exits
          /\ error_count' = IF Head(ring) = "errorf" THEN error_count + 1 ELSE error_count
      BY <2>1, <2>2, <3>1, <1>t, PrinterCounts
    <3>4. CASE n > 0 /\ Head(ring) \in BeginEvents /\ Reading(n - 1, k)'
      <4>1. Counted(k)'
        <5>1. k = 1
          BY <3>2, <3>4 DEF Reading
        <5> QED BY <5>1 DEF Counted
      <4> QED BY <2>1, <2>2, <3>4, <4>1 DEF ReadInv, Unread, AllRead, Leftover
    <3>5. CASE /\ k \in 1 .. Len(Evs) /\ Head(ring) = Evs[k]
               /\ Evs[k] \notin Exits => Reading(0, k + 1)'
      <4>1. Reading(0, k + 1)'
        BY <3>3, <3>5
      <4>2. Counted(k + 1)'
        <5>1. Evs' = Evs
          BY <2>1 DEF Evs
        <5>2. \A j \in 1 .. (k + 1) - 1 : j \in 1 .. k - 1 \/ j = k
          BY <3>5
        <5>3. (\E j \in 1 .. k - 1 : Evs[j] = "errorf") => error_count' > 0
          BY <3>2, <3>3, <1>t DEF Counted
        <5>4. Evs[k] = "errorf" => error_count' > 0
          BY <3>3, <3>5, <1>t
        <5> QED BY <5>1, <5>2, <5>3, <5>4 DEF Counted
      <4> QED BY <2>1, <2>2, <4>1, <4>2 DEF ReadInv, Unread, AllRead, Leftover
    <3> QED BY <1>4, <2>2, <3>2, <3>4, <3>5, ReadOne
  <2>3. CASE pc = "poll" /\ (exitsig_recv' \/ finalize_')
    BY <2>1, <2>3 DEF ReadInv, Unread, AllRead, Leftover
  <2>4. CASE pc # "poll"
    BY <2>1, <2>4, <1>k
  <2> QED BY <2>2, <2>3, <2>4
<1>5. CASE PollReturns
  <2>1. /\ UNCHANGED <<progs, index, exitsig_recv, finalize_, ring, error_count>>
        /\ ring = <<>> \/ exitsig_recv
    BY <1>5 DEF PollReturns, script, flags, outputs
  <2>2. CASE pc' = "verdict" /\ pc = "poll" /\ ~exitsig_recv
    <3>1. ring = <<>> /\ Len(ring) = 0
      BY <2>1, <2>2, <1>t
    <3>2. ASSUME ~finalize_
          PROVE  \A j \in 1 .. Len(Evs) : Evs[j] \notin Exits
                                          /\ (Evs[j] = "errorf" => error_count > 0)
      <4>1. PICK n, k : Reading(n, k) /\ Counted(k)
        BY <2>2, <3>2 DEF ReadInv, Unread
      <4>2. k = Len(Evs) + 1
        BY <3>1, <4>1, <2>2, <1>e DEF Reading
      <4>3. \A j \in 1 .. Len(Evs) : j \in 1 .. k - 1
        BY <4>2, <2>2, <1>e
      <4> QED BY <4>1, <4>3 DEF Reading, Counted
    <3>3. Evs' = Evs
      BY <2>1 DEF Evs
    <3> QED BY <2>1, <2>2, <3>1, <3>2, <3>3 DEF ReadInv, Unread, AllRead, Leftover
  <2>3. CASE pc' \notin {"run", "poll", "verdict"}
    BY <2>3, <1>k
  <2> QED BY <1>5, <2>1, <2>2, <2>3, <1>k DEF PollReturns, Polling
<1>6. CASE TestVerdict \/ BenchSkips \/ BenchContinues \/ BenchFails \/ BenchReports
  <2>1. pc = "verdict" /\ UNCHANGED <<ring, exitsig_recv>> /\ pc' \in {"run", "restore"}
    BY <1>6 DEF TestVerdict, BenchSkips, BenchContinues, BenchFails, BenchReports,
       NextProbe,
       flags
  <2>2. ~exitsig_recv => \A i \in 1 .. Len(ring') : ring'[i] \in BeginEvents
    BY <2>1, <1>t DEF ReadInv, Leftover
  <2> QED BY <2>1, <2>2 DEF ReadInv, Unread, AllRead, Leftover
<1>7. CASE UNCHANGED vars
  <2>1. UNCHANGED <<pc, ring, progs, index, exitsig_recv, finalize_, error_count>>
    BY <1>7 DEF vars, script, flags, outputs
  <2> QED BY <2>1 DEF ReadInv, Unread, AllRead, Leftover, Reading, Counted, Evs
<1> QED BY <1>1, <1>2, <1>3, <1>4, <1>5, <1>6, <1>7 DEF Next, Done

\* It holds of every state of a run.
LEMMA ReadInvariant == Spec => [](TypeInv /\ Stages /\ ReadInv)
<1>1. Init => ReadInv
  BY DEF Init, ReadInv, Unread, AllRead, Leftover
<1> QED BY <1>1, TypeAndStages, ReadStep, PTL DEF Spec
-----------------------------------------------------------------------------
(***************************************************************************)
(* Failures.  What counts against a test was sent by the test, because     *)
(* nothing of another program is heard while it is polled.                 *)
(***************************************************************************)
Blame ==
    (mode = "test" /\ pc \in {"poll", "verdict"}) =>
       /\ error_count > 0 => Said(progs[index], "errorf")
       /\ exit_code # 0 => Said(progs[index], "exit1")

\* Every step keeps Blame.
LEMMA BlameStep ==
    ASSUME BeginEvents \cap {"errorf", "exit1"} = {}
    PROVE  TypeInv /\ Stages /\ ReadInv /\ Blame /\ [Next]_vars => Blame'
<1> SUFFICES ASSUME TypeInv, Stages, ReadInv, Blame, [Next]_vars PROVE Blame'
  OBVIOUS
<1>k. ASSUME UNCHANGED <<mode, progs, index, error_count, exit_code>>, pc \in {"poll", "verdict"}
      PROVE  Blame'
  BY <1>k DEF Blame
<1>1. CASE RunBegin \/ TestRunFails \/ Restore \/ RunEnd \/ TestVerdict \/ BenchSkips
           \/ BenchContinues \/ BenchFails \/ BenchReports
  <2>1. pc' \notin {"poll", "verdict"}
    BY <1>1 DEF RunBegin, TestRunFails, Restore, RunEnd, TestVerdict, BenchSkips,
       BenchContinues, BenchFails, BenchReports, NextProbe
  <2> QED BY <2>1 DEF Blame
<1>2. CASE RunProgram
  <2>1. error_count' = 0 /\ exit_code' = exit_code /\ mode' = mode /\ pc = "run"
    BY <1>2 DEF RunProgram, script
  <2> QED BY <2>1 DEF Stages, Blame
<1>3. CASE HandleEvent
  <2>1. /\ UNCHANGED <<mode, pc, progs, index>> /\ event_printer(Head(ring))
    BY <1>3 DEF HandleEvent, script
  <2>2. CASE pc # "poll"
    <3>1. pc \notin {"poll", "verdict"}
      BY <1>3, <2>2 DEF HandleEvent, Polling
    <3> QED BY <2>1, <3>1 DEF Blame
  <2>3. CASE finalize_ \/ exitsig_recv
    <3>1. UNCHANGED <<error_count, exit_code>>
      BY <2>1, <2>3 DEF event_printer
    <3> QED BY <2>1, <3>1 DEF Blame
  <2>4. CASE pc = "poll" /\ ~finalize_ /\ ~exitsig_recv
    <3>1. PICK n, k : Reading(n, k)
      BY <2>4 DEF ReadInv, Unread
    <3>2. error_count \in Nat
      BY DEF TypeInv
    <3>3. /\ error_count' = IF Head(ring) = "errorf" THEN error_count + 1 ELSE error_count
          /\ exit_code' = IF Head(ring) \in Exits
                          THEN (IF Head(ring) = "exit1" THEN 1 ELSE 0) ELSE exit_code
      BY <2>1, <2>4, <3>2, PrinterCounts
    <3>4. Head(ring) \in {"errorf", "exit1"} => Said(progs[index], Head(ring))
      <4>1. \/ Head(ring) \in BeginEvents
            \/ /\ k \in 1 .. Len(Evs) /\ Head(ring) = Evs[k]
               /\ \A j \in 1 .. k - 1 : Evs[j] \notin Exits
        BY <1>3, <2>4, <3>1, ReadOne
      <4> QED BY <4>1 DEF Said, Evs
    <3>5. error_count' > 0 => error_count > 0 \/ Head(ring) = "errorf"
      BY <3>3
    <3>6. exit_code' # 0 => exit_code # 0 \/ Head(ring) = "exit1"
      BY <3>3
    <3> QED BY <2>1, <3>4, <3>5, <3>6 DEF Blame
  <2> QED BY <2>2, <2>3, <2>4
<1>4. CASE ExitSignal \/ UNCHANGED vars
  <2>1. UNCHANGED <<mode, pc, progs, index, error_count, exit_code>>
    BY <1>4 DEF ExitSignal, vars, script, outputs
  <2> QED BY <2>1 DEF Blame
<1>5. CASE PollReturns
  <2>1. UNCHANGED <<mode, progs, index, error_count, exit_code>>
    BY <1>5 DEF PollReturns, script, outputs
  <2>2. pc' = "verdict" => pc = "poll"
    BY <1>5 DEF PollReturns, Polling
  <2>3. pc' # "poll"
    BY <1>5 DEF PollReturns, Polling
  <2> QED BY <2>1, <2>2, <2>3 DEF Blame
<1> QED BY <1>1, <1>2, <1>3, <1>4, <1>5 DEF Next, Done

\* A test that is reported as failed did fail, by what it did itself: provided that
\* begin, whose events are counted with the first test, neither fails nor exits.
THEOREM FailuresAreReal ==
    ASSUME BeginEvents \cap {"errorf", "exit1"} = {}
    PROVE  Spec => []NoFalseFailure
<1>1. Init => Blame /\ NoFalseFailure
  BY DEF Init, Blame, NoFalseFailure
<1>2. TypeInv /\ Stages /\ Blame /\ NoFalseFailure /\ [Next]_vars => NoFalseFailure'
  <2> SUFFICES ASSUME TypeInv, Stages, Blame, NoFalseFailure, [Next]_vars, mode' = "test"
               PROVE  NoFalseFailure'
    BY DEF NoFalseFailure
  <2>1. UNCHANGED <<mode, progs>>
    BY DEF Next, ExitSignal, RunBegin, RunProgram, TestRunFails, HandleEvent, PollReturns,
       TestVerdict, BenchSkips, BenchContinues, BenchFails, BenchReports, Restore, RunEnd,
       Done, vars, script
  <2>2. results \in Seq({"passed", "failed", "skipped"}) /\ Len(results) = index - 1
        /\ index \in 1 .. NProgs + 1 /\ error_count \in Nat
    BY DEF TypeInv
  <2>3. CASE results' = results
    BY <2>1, <2>3 DEF NoFalseFailure
  <2>4. CASE TestVerdict
    <3>1. /\ pc = "verdict" /\ retval = progs[index].ret /\ index \in 1 .. NProgs
          /\ progs[index] \in Programs
      BY <2>2, <2>4, RunnerAssumption DEF TestVerdict, Stages, TypeInv
    <3>2. ~Passed => Fails(progs[index])
      <4>1. ~Passed => \/ progs[index].ret # 0 \/ Said(progs[index], "errorf")
                       \/ Said(progs[index], "exit1")
        BY <2>1, <2>2, <3>1 DEF Passed, Blame
      <4> QED BY <3>1, <4>1, HeardIsSaid DEF Fails
    <3>3. results' = Append(results, IF Passed THEN "passed" ELSE "failed")
      BY <2>4 DEF TestVerdict
    <3> DEFINE v == IF Passed THEN "passed" ELSE "failed"
    <3>4. v = "failed" => Fails(progs[index])
      BY <3>2
    <3>5. v \in {"passed", "failed", "skipped"} /\ results' = Append(results, v)
      BY <3>3
    <3> HIDE DEF v
    <3>6. /\ DOMAIN results' = 1 .. Len(results) + 1 /\ Len(results) \in Nat
          /\ DOMAIN results = 1 .. Len(results)
          /\ results'[Len(results) + 1] = v
          /\ \A i \in 1 .. Len(results) : results'[i] = results[i]
      BY <2>2, <3>5
    <3>7. \A i \in DOMAIN results' : results'[i] = "failed" => Fails(progs[i])
      <4> TAKE i \in DOMAIN results'
      <4>1. CASE i \in 1 .. Len(results)
        BY <2>1, <3>6, <4>1 DEF NoFalseFailure
      <4>2. CASE i = Len(results) + 1
        BY <2>2, <3>4, <3>6, <4>2
      <4> QED BY <3>6, <4>1, <4>2
    <3> QED BY <2>1, <3>7 DEF NoFalseFailure, Fails, Heard
  <2>5. results' = results \/ TestVerdict
    BY <2>1 DEF Next, ExitSignal, RunBegin, RunProgram, TestRunFails, HandleEvent,
       PollReturns, BenchSkips, BenchContinues, BenchFails, BenchReports, Restore, RunEnd,
       Done, vars
  <2> QED BY <2>3, <2>4, <2>5
<1>3. TypeInv /\ Stages /\ ReadInv /\ Blame /\ [Next]_vars => Blame'
  BY BlameStep
<1> QED BY <1>1, <1>2, <1>3, ReadInvariant, PTL DEF Spec
-----------------------------------------------------------------------------
(***************************************************************************)
(* Passes.  Without a signal, finalize_ is set by an exit() of the         *)
(* programs only; when it is the program's own, its failure before it and  *)
(* by it was noted.                                                        *)
(***************************************************************************)
OwnExit == \E k \in 1 .. Len(Evs) :
              /\ Evs[k] \in Exits /\ \A j \in 1 .. k - 1 : Evs[j] \notin Exits
              /\ Evs[k] = "exit1" => exit_code # 0
              /\ Counted(k)
Stopped ==
    (~exitsig_recv /\ finalize_) =>
       /\ (pc \in {"run", "poll", "verdict"} /\ mode = "bench") => ~NoExitBefore(index + 1)
       /\ (pc = "run" /\ mode = "test") => ~NoExitBefore(index)
       /\ (pc \in {"poll", "verdict"} /\ mode = "test") => ~NoExitBefore(index) \/ OwnExit

\* NoExitBefore of a later program says more.
LEMMA Later == \A n \in Nat : NoExitBefore(n + 1) => NoExitBefore(n)
<1>1. \A n \in Nat : \A i \in 1 .. n - 1 : i \in 1 .. (n + 1) - 1
  OBVIOUS
<1> QED BY <1>1 DEF NoExitBefore

\* Whoever exits among the programs has done so before all later ones.
LEMMA ExitFacts ==
    ASSUME TypeInv
    PROVE  /\ ~NoExitBefore(index) => ~NoExitBefore(index + 1)
           /\ \A k \in 1 .. Len(Evs) : Evs[k] \in Exits => ~NoExitBefore(index + 1)
<1>1. index \in Nat \ {0}
  BY RunnerAssumption DEF TypeInv
<1>2. \A i \in 1 .. index - 1 : i \in 1 .. (index + 1) - 1
  BY <1>1
<1>3. index \in 1 .. (index + 1) - 1
  BY <1>1
<1>4. ASSUME NEW k \in 1 .. Len(Evs), Evs[k] \in Exits PROVE ~NoExitBefore(index + 1)
  <2>1. Contains(progs[index].evs, "exit0") \/ Contains(progs[index].evs, "exit1")
    BY <1>4 DEF Contains, Exits, Evs
  <2> QED BY <1>3, <2>1 DEF NoExitBefore
<1> QED BY <1>2, <1>4 DEF NoExitBefore

\* Every step keeps Stopped.
LEMMA StoppedStep ==
    ASSUME BeginEvents \cap {"exit0", "exit1"} = {}
    PROVE  TypeInv /\ Stages /\ ReadInv /\ Stopped /\ [Next]_vars => Stopped'
<1> SUFFICES ASSUME TypeInv, Stages, ReadInv, Stopped, [Next]_vars PROVE Stopped'
  OBVIOUS
<1>p. UNCHANGED <<mode, progs>> /\ mode \in {"test", "bench"}
  BY DEF Next, ExitSignal, RunBegin, RunProgram, TestRunFails, HandleEvent, PollReturns,
     TestVerdict, BenchSkips, BenchContinues, BenchFails, BenchReports, Restore, RunEnd,
     Done, vars, script, TypeInv
<1>k. ASSUME pc' \notin {"run", "poll", "verdict"} \/ exitsig_recv' PROVE Stopped'
  BY <1>k DEF Stopped
<1>n. ASSUME index' = index
      PROVE  /\ NoExitBefore(index)' = NoExitBefore(index)
             /\ NoExitBefore(index + 1)' = NoExitBefore(index + 1)
  BY <1>n, <1>p DEF NoExitBefore
<1>1. CASE ExitSignal \/ TestRunFails \/ Restore \/ RunEnd
  BY <1>1, <1>k DEF ExitSignal, TestRunFails, Restore, RunEnd
<1>2. CASE RunBegin
  BY <1>2 DEF RunBegin, Stages, Stopped, flags
<1>3. CASE RunProgram \/ PollReturns
  <2>1. UNCHANGED <<index, exitsig_recv, finalize_, exit_code>>
    BY <1>3 DEF RunProgram, PollReturns, flags
  <2>2. CASE RunProgram
    <3>1. pc = "run" /\ pc' = "poll"
      BY <2>2 DEF RunProgram
    <3> QED BY <2>1, <3>1, <1>p, <1>n DEF Stopped
  <2>3. CASE PollReturns
    <3>1. (pc = "poll" /\ pc' = "verdict" /\ error_count' = error_count)
            \/ pc' \notin {"run", "poll", "verdict"}
      BY <2>3 DEF PollReturns, Polling, outputs
    <3>2. CASE pc = "poll" /\ pc' = "verdict" /\ error_count' = error_count
      <4>1. OwnExit => OwnExit'
        BY <2>1, <3>2, <1>p DEF OwnExit, Counted, Evs
      <4> QED BY <2>1, <3>2, <4>1, <1>p, <1>n DEF Stopped
    <3> QED BY <3>1, <3>2, <1>k
  <2> QED BY <1>3, <2>2, <2>3
<1>4. CASE HandleEvent
  <2>1. /\ UNCHANGED <<pc, index, exitsig_recv>> /\ event_printer(Head(ring))
        /\ pc \in {"poll", "main", "last"}
    BY <1>4 DEF HandleEvent, Polling
  <2>2. CASE pc # "poll" \/ exitsig_recv
    BY <2>1, <2>2, <1>k
  <2>3. CASE pc = "poll" /\ ~exitsig_recv /\ finalize_
    <3>1. UNCHANGED <<error_count, exit_code>>
      BY <2>1, <2>3 DEF event_printer
    <3>2. OwnExit => OwnExit'
      BY <2>1, <3>1, <1>p DEF OwnExit, Counted, Evs
    <3> QED BY <2>1, <2>3, <3>2, <1>p, <1>n DEF Stopped
  <2>4. CASE pc = "poll" /\ ~exitsig_recv /\ ~finalize_ /\ finalize_'
    <3>1. PICK n, k : Reading(n, k) /\ Counted(k)
      BY <2>4 DEF ReadInv, Unread
    <3>2. error_count \in Nat
      BY DEF TypeInv
    <3>3. /\ Head(ring) \in Exits
          /\ error_count' = IF Head(ring) = "errorf" THEN error_count + 1 ELSE error_count
          /\ exit_code' = IF Head(ring) \in Exits
                          THEN (IF Head(ring) = "exit1" THEN 1 ELSE 0) ELSE exit_code
      BY <2>1, <2>4, <3>2, PrinterCounts
    <3>4. /\ k \in 1 .. Len(Evs) /\ Head(ring) = Evs[k]
          /\ \A j \in 1 .. k - 1 : Evs[j] \notin Exits
      BY <1>4, <2>4, <3>1, <3>3, ReadOne DEF Exits
    <3>5. /\ error_count' = error_count /\ (Evs[k] = "exit1" => exit_code' = 1)
      BY <3>3, <3>4 DEF Exits
    <3>6. Evs' = Evs
      BY <2>1, <1>p DEF Evs
    <3>7. OwnExit'
      BY <3>1, <3>3, <3>4, <3>5, <3>6 DEF OwnExit, Counted
    <3>8. ~NoExitBefore(index + 1)'
      BY <2>1, <3>3, <3>4, <1>n, ExitFacts
    <3> QED BY <2>1, <2>4, <3>7, <3>8 DEF Stopped
  <2>5. CASE pc = "poll" /\ ~exitsig_recv /\ ~finalize_'
    BY <2>5 DEF Stopped
  <2> QED BY <2>2, <2>3, <2>4, <2>5
<1>5. CASE BenchContinues
  <2>1. UNCHANGED <<index, exitsig_recv, finalize_>> /\ pc = "verdict" /\ mode = "bench"
        /\ pc' = "run"
    BY <1>5 DEF BenchContinues, flags
  <2> QED BY <2>1, <1>p, <1>n DEF Stopped
<1>6. CASE TestVerdict \/ BenchSkips \/ BenchFails \/ BenchReports
  <2>1. /\ UNCHANGED <<exitsig_recv, finalize_>> /\ pc = "verdict" /\ index' = index + 1
        /\ pc' \in {"run", "restore"}
    BY <1>6 DEF TestVerdict, BenchSkips, BenchFails, BenchReports, NextProbe, flags
  <2>2. ASSUME ~exitsig_recv, finalize_ PROVE ~NoExitBefore(index + 1)
    BY <2>1, <2>2, <1>p, ExitFacts DEF Stopped, OwnExit
  <2>3. NoExitBefore(index)' = NoExitBefore(index + 1)
    BY <2>1, <1>p DEF NoExitBefore
  <2>4. ~NoExitBefore(index)' => ~NoExitBefore(index + 1)'
    <3>1. index \in Nat
      BY DEF TypeInv
    <3>2. NoExitBefore(index + 1)' = NoExitBefore((index + 1) + 1)
      BY <2>1, <1>p DEF NoExitBefore
    <3>3. NoExitBefore((index + 1) + 1) => NoExitBefore(index + 1)
      BY <3>1, Later
    <3> QED BY <2>3, <3>2, <3>3
  <2> QED BY <2>1, <2>2, <2>3, <2>4 DEF Stopped
<1>7. CASE UNCHANGED vars
  <2>1. UNCHANGED <<pc, index, exitsig_recv, finalize_, error_count, exit_code>>
    BY <1>7 DEF vars, flags, outputs
  <2>2. OwnExit => OwnExit'
    BY <2>1, <1>p DEF OwnExit, Counted, Evs
  <2> QED BY <2>1, <2>2, <1>p, <1>n DEF Stopped
<1> QED BY <1>1, <1>2, <1>3, <1>4, <1>5, <1>6, <1>7 DEF Next, Done

\* A test that fails is not reported as passed, and neither is a benchmark that uses
\* errorf, when no program up to it, begin included, has called exit() and no signal
\* has come.
THEOREM PassesAreReal ==
    ASSUME BeginEvents \cap {"exit0", "exit1"} = {}
    PROVE  Spec => NoFalsePass
<1> DEFINE A == (Reports("passed") /\ ~exitsig_recv) =>
        /\ (mode = "test" /\ NoExitBefore(index)) => ~Fails(progs[index])
        /\ (mode = "bench" /\ NoExitBefore(index + 1)) => ~Contains(progs[index].evs, "errorf")
<1>1. Init => Stopped
  BY DEF Init, Stopped
<1>2. TypeInv /\ Stages /\ ReadInv /\ Stopped /\ [Next]_vars => [A]_vars
  <2> SUFFICES ASSUME TypeInv, Stages, ReadInv, Stopped, [Next]_vars,
                      Reports("passed"), ~exitsig_recv
               PROVE  /\ (mode = "test" /\ NoExitBefore(index)) => ~Fails(progs[index])
                      /\ (mode = "bench" /\ NoExitBefore(index + 1))
                            => ~Contains(progs[index].evs, "errorf")
    OBVIOUS
  <2>1. results' # results
    <3>1. Len(Append(results, "passed")) = Len(results) + 1 /\ Len(results) \in Nat
      BY DEF TypeInv
    <3> QED BY <3>1 DEF Reports
  <2>2. \/ TestVerdict /\ Passed
        \/ BenchReports
    <3>1. TestVerdict \/ BenchSkips \/ BenchFails \/ BenchReports
      BY <2>1 DEF Next, ExitSignal, RunBegin, RunProgram, TestRunFails, HandleEvent,
         PollReturns, BenchContinues, Restore, RunEnd, Done, vars
    <3>2. ASSUME NEW v \in {"passed", "failed", "skipped"}, results' = Append(results, v)
          PROVE  v = "passed"
      <4>1. results \in Seq({"passed", "failed", "skipped"})
        BY DEF TypeInv
      <4>2. /\ Append(results, v)[Len(results) + 1] = v
            /\ Append(results, "passed")[Len(results) + 1] = "passed"
        BY <4>1
      <4> QED BY <3>2, <4>2 DEF Reports
    <3>3. BenchSkips => results' = Append(results, "skipped")
      BY DEF BenchSkips
    <3>4. BenchFails => results' = Append(results, "failed")
      BY DEF BenchFails
    <3>5. TestVerdict => results' = Append(results, IF Passed THEN "passed" ELSE "failed")
      BY DEF TestVerdict
    <3>6. TestVerdict => (IF Passed THEN "passed" ELSE "failed") = "passed"
      BY <3>2, <3>5
    <3> QED BY <3>1, <3>2, <3>3, <3>4, <3>6
  <2>3. /\ pc = "verdict" /\ retval = progs[index].ret /\ progs[index] \in Programs
        /\ error_count \in Nat /\ Len(Evs) \in Nat
    <3>1. pc = "verdict"
      BY <2>2 DEF TestVerdict, BenchReports
    <3>2. index \in 1 .. NProgs /\ retval = progs[index].ret /\ progs[index] \in Programs
      BY <3>1, RunnerAssumption DEF Stages, TypeInv
    <3> QED BY <3>1, <3>2, EventsAreSeq DEF Evs, TypeInv
  <2>4. CASE TestVerdict /\ Passed
    <3>1. /\ mode = "test" /\ progs[index].ret = 0 /\ exit_code = 0 /\ error_count = 0
      BY <2>3, <2>4 DEF TestVerdict, Passed
    <3>2. ASSUME NoExitBefore(index), NEW x \in {"errorf", "exit1"}
          PROVE  ~Said(progs[index], x)
      <4>1. ASSUME ~finalize_ PROVE ~Said(progs[index], x)
        <5>1. \A j \in 1 .. Len(Evs) : Evs[j] \notin Exits /\ Evs[j] # "errorf"
          BY <2>3, <3>1, <4>1 DEF ReadInv, AllRead
        <5> QED BY <5>1 DEF Said, Evs, Exits
      <4>2. ASSUME finalize_ PROVE ~Said(progs[index], x)
        <5>1. PICK k \in 1 .. Len(Evs) :
                  /\ Evs[k] \in Exits /\ \A j \in 1 .. k - 1 : Evs[j] \notin Exits
                  /\ Evs[k] = "exit1" => exit_code # 0
                  /\ Counted(k)
          BY <2>3, <3>1, <3>2, <4>2 DEF Stopped, OwnExit
        <5>2. ASSUME NEW j \in 1 .. Len(Evs), Evs[j] = x,
                     \A i \in 1 .. j - 1 : Evs[i] \notin Exits
              PROVE  FALSE
          <6>1. ~(k \in 1 .. j - 1)
            BY <5>1, <5>2
          <6>2. j = k \/ j \in 1 .. k - 1
            BY <6>1, <2>3
          <6>3. CASE j = k
            BY <5>1, <5>2, <6>3, <3>1 DEF Exits
          <6>4. CASE j \in 1 .. k - 1
            <7>1. Evs[j] \notin Exits
              BY <5>1, <6>4
            <7>2. x = "errorf"
              BY <5>2, <7>1 DEF Exits
            <7> QED BY <5>1, <5>2, <6>4, <7>2, <3>1 DEF Counted
          <6> QED BY <6>2, <6>3, <6>4
        <5> QED BY <5>2 DEF Said, Evs
      <4> QED BY <4>1, <4>2
    <3> QED BY <2>3, <3>1, <3>2, HeardIsSaid DEF Fails
  <2>5. CASE BenchReports
    <3>1. mode = "bench" /\ error_count = 0
      BY <2>5 DEF BenchReports, BenchFailed
    <3>2. ASSUME NoExitBefore(index + 1) PROVE ~Contains(progs[index].evs, "errorf")
      <4>1. ~finalize_
        BY <2>3, <3>1, <3>2 DEF Stopped
      <4>2. \A j \in 1 .. Len(Evs) : Evs[j] # "errorf"
        BY <2>3, <3>1, <4>1 DEF ReadInv, AllRead
      <4> QED BY <4>2 DEF Contains, Evs
    <3> QED BY <3>1, <3>2
  <2> QED BY <2>2, <2>4, <2>5
<1>3. TypeInv /\ Stages /\ ReadInv /\ Stopped /\ [Next]_vars => Stopped'
  BY StoppedStep
<1> HIDE DEF A
<1>4. Spec => [][A]_vars
  BY <1>1, <1>2, <1>3, ReadInvariant, PTL DEF Spec
<1> QED BY <1>4 DEF A, NoFalsePass
=============================================================================
