----------------------------- MODULE TestRunner -----------------------------
(***************************************************************************)
(* BPFtrace::run with --test or --bench: each test or bench program is run *)
(* by the kernel on behalf of bpftrace, its events are drained through a   *)
(* capturing output and the verdict is taken from its return value, the    *)
(* captured errors and the exit code; begin runs before, end after them.   *)
(***************************************************************************)
EXTENDS Integers, Sequences, FiniteSets, SequencesExt

CONSTANTS
    Modes,         \* "test", "bench" or both: what the user may have asked for
    NProgs,        \* how many test or bench probes the script has
    Events,        \* what a program may send: a subset of AllEvents
    MaxEvents,     \* bound on the events of one program
    BeginEvents,   \* what the begin probe may send
    EndEvents,     \* what the end probe may send
    MaxIters,      \* bound on the repetitions of a benchmark
    MaySignal      \* an exit signal may arrive

\* printf is any action with output; errorf counts as an error; exit0 and exit1
\* are exit() with that code.
AllEvents == {"printf", "errorf", "exit0", "exit1"}
Programs  == [ret : {0, 1}, evs : UNION {[1 .. n -> Events] : n \in 0 .. MaxEvents}]

ASSUME RunnerAssumption ==
    /\ Modes \subseteq {"test", "bench"}
    /\ Events \subseteq AllEvents /\ BeginEvents \subseteq AllEvents
    /\ EndEvents \subseteq AllEvents
    /\ NProgs \in Nat \ {0} /\ MaxEvents \in Nat /\ MaxIters \in Nat \ {0}
    /\ MaySignal \in BOOLEAN

VARIABLES
    mode,                \* the option of the user
    progs, begin, end,   \* the script
    pc,
    index,               \* of the current probe
    ring,
    finalize_, exitsig_recv, exit_code,
    handlers_out,        \* the output of the handlers
    capture,             \* "none", "live", or "freed" with the iteration it was made in
    error_count,         \* of the live capture
    retval,              \* of the last program run
    iters,               \* iterations of the current benchmark
    results,             \* the verdict reported for each probe
    rval,
    dangling             \* history: a handler used an output that is freed

script  == <<mode, progs, begin, end>>
flags   == <<finalize_, exitsig_recv>>
outputs == <<handlers_out, capture, error_count>>
vars    == <<script, pc, index, ring, flags, exit_code, outputs, retval, iters, results,
             rval, dangling>>

TypeOK ==
    /\ mode \in Modes /\ progs \in [1 .. NProgs -> Programs]
    /\ pc \in {"begin", "run", "poll", "verdict", "restore", "main", "end", "last", "done"}
    /\ index \in 1 .. NProgs + 1
    /\ finalize_ \in BOOLEAN /\ exitsig_recv \in BOOLEAN /\ exit_code \in {0, 1}
    /\ handlers_out \in {"out", "capture"} /\ capture \in {"none", "live", "freed"}
    /\ error_count \in 0 .. MaxEvents + Cardinality(BeginEvents)
    /\ retval \in {0, 1} /\ iters \in 0 .. MaxIters
    /\ results \in Seq({"passed", "failed", "skipped"}) /\ Len(results) < index
    /\ rval \in {-1, 0, 1} /\ dangling \in BOOLEAN

AtMostOne(S) == {<<>>} \cup {<<e>> : e \in S}

Init ==
    /\ mode \in Modes /\ progs \in [1 .. NProgs -> Programs]
    /\ begin \in AtMostOne(BeginEvents) /\ end \in AtMostOne(EndEvents)
    /\ pc = "begin" /\ index = 1 /\ ring = <<>>
    /\ finalize_ = FALSE /\ exitsig_recv = FALSE /\ exit_code = 0
    /\ handlers_out = "out" /\ capture = "none" /\ error_count = 0
    /\ retval = 0 /\ iters = 0 /\ results = <<>> /\ rval = 0 /\ dangling = FALSE
-----------------------------------------------------------------------------
ExitSignal ==
    /\ MaySignal /\ ~exitsig_recv /\ pc # "done"
    /\ exitsig_recv' = TRUE
    /\ UNCHANGED <<script, pc, index, ring, finalize_, exit_code, outputs, retval, iters,
                   results, rval, dangling>>

RunBegin ==
    /\ pc = "begin" /\ pc' = "run"
    /\ ring' = ring \o begin
    /\ UNCHANGED <<script, index, flags, exit_code, outputs, retval, iters, results,
                   rval, dangling>>

\* A new capture for every run of a program.  The repetitions of a benchmark within
\* one call of the kernel send the same events again; one of each is kept.
RunProgram ==
    /\ pc = "run" /\ pc' = "poll"
    /\ handlers_out' = "capture" /\ capture' = "live" /\ error_count' = 0
    /\ iters' = iters + 1
    /\ retval' = progs[index].ret
    /\ ring' = ring \o progs[index].evs
    /\ UNCHANGED <<script, index, flags, exit_code, results, rval, dangling>>

\* bpf_prog_test_run_opts fails, for begin, end, a test or a benchmark: run() returns
\* at once.
TestRunFails ==
    /\ pc \in {"begin", "run", "end"} /\ pc' = "done"
    /\ rval' = -1
    /\ UNCHANGED <<script, index, ring, flags, exit_code, outputs, retval, iters, results,
                   dangling>>

\* event_printer and the handler it calls.
event_printer(e) ==
    \/ finalize_ /\ UNCHANGED <<finalize_, exit_code, error_count, dangling>>
    \/ /\ ~finalize_ /\ exitsig_recv
       /\ finalize_' = TRUE /\ UNCHANGED <<exit_code, error_count, dangling>>
    \/ /\ ~finalize_ /\ ~exitsig_recv /\ e \in {"exit0", "exit1"}
       /\ finalize_' = TRUE /\ exit_code' = IF e = "exit1" THEN 1 ELSE 0
       /\ UNCHANGED <<error_count, dangling>>
    \/ /\ ~finalize_ /\ ~exitsig_recv /\ e \in {"printf", "errorf"}
       /\ error_count' = IF e = "errorf" /\ handlers_out = "capture" /\ capture = "live"
                         THEN error_count + 1 ELSE error_count
       /\ dangling' = (dangling \/ (handlers_out = "capture" /\ capture = "freed"))
       /\ UNCHANGED <<finalize_, exit_code>>

Polling == pc \in {"poll", "main", "last"}

HandleEvent ==
    /\ Polling /\ ring # <<>>
    /\ event_printer(Head(ring)) /\ ring' = Tail(ring)
    /\ UNCHANGED <<script, pc, index, exitsig_recv, handlers_out, capture, retval, iters,
                   results, rval>>

\* poll_output(drain) returns when the ring buffer is empty, or when an exit signal
\* interrupts the poll.
PollReturns ==
    /\ Polling /\ (ring = <<>> \/ exitsig_recv)
    /\ pc' = CASE pc = "poll" -> "verdict" [] pc = "main" -> "end" [] pc = "last" -> "done"
    /\ UNCHANGED <<script, index, ring, flags, exit_code, outputs, retval, iters, results,
                   rval, dangling>>

NextProbe == /\ index' = index + 1 /\ iters' = 0
             /\ capture' = "freed"
             /\ pc' = IF index < NProgs THEN "run" ELSE "restore"

Passed_IgnoresErrors == retval = 0 /\ exit_code = 0
Passed == retval = 0 /\ exit_code = 0 /\ error_count = 0

ResetExitCode_Not == UNCHANGED exit_code
ResetExitCode == exit_code' = 0

TestRval == rval' = IF rval = 0 /\ ~Passed THEN 1 ELSE rval

\* The end of the loop over the test probes.
TestVerdict ==
    /\ mode = "test" /\ pc = "verdict"
    /\ results' = Append(results, IF Passed THEN "passed" ELSE "failed")
    /\ TestRval
    /\ ResetExitCode
    /\ NextProbe
    /\ UNCHANGED <<script, ring, flags, handlers_out, error_count, retval, dangling>>

\* A benchmark that returns 1 is skipped.
BenchSkips ==
    /\ mode = "bench" /\ pc = "verdict" /\ exit_code = 0 /\ retval # 0
    /\ results' = Append(results, "skipped")
    /\ NextProbe
    /\ UNCHANGED <<script, ring, flags, exit_code, handlers_out, error_count, retval, rval,
                   dangling>>

\* Not enough time was measured: it runs again, more often.
BenchContinues ==
    /\ mode = "bench" /\ pc = "verdict" /\ ~(exit_code = 0 /\ retval # 0)
    /\ iters < MaxIters
    /\ capture' = "freed" /\ pc' = "run"
    /\ UNCHANGED <<script, index, ring, flags, exit_code, handlers_out, error_count, retval,
                   iters, results, rval, dangling>>

BenchFailed == exit_code # 0 \/ error_count # 0

BenchFails ==
    /\ mode = "bench" /\ pc = "verdict" /\ ~(exit_code = 0 /\ retval # 0)
    /\ BenchFailed
    /\ results' = Append(results, "failed") /\ rval' = 1 /\ exit_code' = 0
    /\ NextProbe
    /\ UNCHANGED <<script, ring, flags, handlers_out, error_count, retval, dangling>>

BenchReports ==
    /\ mode = "bench" /\ pc = "verdict" /\ ~(exit_code = 0 /\ retval # 0)
    /\ ~BenchFailed
    /\ results' = Append(results, "passed") /\ handlers_out' = "out"
    /\ NextProbe
    /\ UNCHANGED <<script, ring, flags, exit_code, error_count, retval, rval, dangling>>

\* After the tests, and only after tests: "Return the original output."
ReturnOutput_Not == UNCHANGED handlers_out
ReturnOutput == handlers_out' = IF mode = "test" THEN "out" ELSE handlers_out

Restore ==
    /\ pc = "restore" /\ pc' = "main"
    /\ ReturnOutput
    /\ UNCHANGED <<script, index, ring, flags, exit_code, capture, error_count, retval,
                   iters, results, rval, dangling>>

\* The flags are reset and the end probe runs.
RunEnd ==
    /\ pc = "end" /\ pc' = "last"
    /\ finalize_' = FALSE /\ exitsig_recv' = FALSE
    /\ ring' = ring \o end
    /\ UNCHANGED <<script, index, exit_code, outputs, retval, iters, results, rval, dangling>>

Done == pc = "done" /\ UNCHANGED vars

Next == \/ ExitSignal \/ RunBegin \/ RunProgram \/ TestRunFails \/ HandleEvent \/ PollReturns
        \/ TestVerdict \/ BenchSkips \/ BenchContinues \/ BenchFails \/ BenchReports
        \/ Restore \/ RunEnd \/ Done

Spec == Init /\ [][Next]_vars
-----------------------------------------------------------------------------
(***************************************************************************)
(* Properties.                                                             *)
(***************************************************************************)
\* What a program does, by itself, up to its first exit().
Heard(p) == LET Exits == {i \in DOMAIN p.evs : p.evs[i] \in {"exit0", "exit1"}}
            IN  IF Exits = {} THEN p.evs
                ELSE SubSeq(p.evs, 1, CHOOSE i \in Exits : \A j \in Exits : i <= j)
Fails(p) == p.ret # 0 \/ Contains(Heard(p), "errorf") \/ Contains(Heard(p), "exit1")

\* No program before the n-th calls exit().
NoExitBefore(n) ==
    \A i \in 1 .. n - 1 : ~Contains(progs[i].evs, "exit0") /\ ~Contains(progs[i].evs, "exit1")

\* A verdict is reported in this step.
Reports(v) == results' = Append(results, v)

\* A test that is reported as failed did fail: by its return value, an errorf or an
\* exit call of its own.
NoFalseFailure ==
    mode = "test" => \A i \in DOMAIN results : results[i] = "failed" => Fails(progs[i])

\* A test that fails is reported so, unless a test before it called exit() or the
\* user interrupted the run.  "If they explicitly use errorf or something similar,
\* then we fail the run": no result is reported for a benchmark that does, unless
\* it or one before it called exit() or the user interrupted the run.
NoFalsePass ==
    [][(Reports("passed") /\ ~exitsig_recv) =>
        /\ (mode = "test" /\ NoExitBefore(index)) => ~Fails(progs[index])
        /\ (mode = "bench" /\ NoExitBefore(index + 1)) => ~Contains(progs[index].evs, "errorf")]_vars

\* In a run of tests no handler writes to an output that no longer exists.
NoDanglingOutput == mode = "test" => ~dangling

\* "bpftrace executes each test probe and checks the return value, error count and
\* possible exit calls to determine a pass": every test that fails is reported so.
EveryFailureReported ==
    mode = "test" => \A i \in DOMAIN results : results[i] = "passed" => ~Fails(progs[i])
=============================================================================
