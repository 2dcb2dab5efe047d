# TLA+ models of bpftrace

bpftrace compiles a script to BPF programs, attaches them to probes and then
lives as long as the tracing does: it reads what the programs send, starts and
ends the traced command, attaches further probes on demand and, at the end,
takes everything down again.

One half of this shares state with the kernel, with signal handlers, with other
processes and, through BPF maps, with programs on every CPU; few of its
interleavings have a test.  The other half, the compiler, is sequential, but it is
a pipeline of passes that agree with each other only by convention: two walks
have to count in the same order, names have to stay apart, types have to be the
same wherever a value is used.  The unit tests look at one pass and one script at
a time.  The models here cover both halves.

All paths below are relative to `src/` of the repository.

## 1. The system

| Part | State it keeps | Operations | What makes it correct |
|---|---|---|---|
| Event loop: `BPFtrace::run`, `poll_output`, `event_printer`, `request_finalize` (`bpftrace.cpp`) | `attached_probes_`, `finalize_`, `exitsig_recv`, `sigusr1_recv`, `exit_code`, the two buffers, the loss totals | run begin, attach in two passes, poll two buffers, handle one event, detach, reset the flags, run end, drain | begin before and end after all other probes; everything sent is read; every request to stop is served; the run ends when it must |
| Event loss accounting (`bpfbytecode.cpp`, `irbuilderbpf.cpp`, `util/cpus.cpp`) | one counter per CPU, `event_loss_count_` | increment in the program, sum, report the difference | each loss is told once, none is invented |
| Child process of `-c` (`child.cpp`) | `state_`, `exit_code_`, `term_signal_`, the eventfd, and the child in the kernel | clone, `run(pause)`, `resume`, `is_alive`, `terminate(force)`, destructor | no foreign process is signalled, no child is left behind, what is reported of it is true |
| Watchpoints on arguments (`async_action.cpp`, `attached_probe.cpp`, `codegen_llvm.cpp`) | the shared `Probe::address`, the attached watchpoints, the stopped tracee | stop and send, `watchpoint_attach`, `watchpoint_detach` | the tracee runs only when watched, and it does run |
| Test and benchmark runner (`bpftrace.cpp`, `output/capture.h`) | the capturing output, error count, `exit_code`, `finalize_` | run a program, drain, judge, report | a verdict is about the program it names |
| BPF maps (`bpfmap.cpp`, `types_format.cpp`, `async_action.cpp`; writers in `codegen_llvm.cpp`) | entries and per-CPU words in the kernel; the list of keys of a walk | update and delete in programs; walk, copy, reduce, zero, clear in user space | a print shows nothing that was not recorded; zero and clear remove what they claim; the walk ends |
| Time series (`util/tseries.cpp`, `types_format.cpp`, `codegen_llvm.cpp`) | a ring of buckets per key with words per CPU | clear and store a bucket; copy, reduce, lay out a window | an interval shows the samples of that interval |
| Histograms (`codegen_llvm.cpp`, `types_format.cpp`, `output/text.cpp`) | a count per bucket | find the bucket; cut off empty ends, label the bars | a sample is within the labels of its bar |
| Attachment (`bpftrace.cpp`, `attached_probe.cpp`) | links and perf events of a probe, the probes that failed | attach, roll back, skip or fail by `missing_probes` | all links of a probe or none; the order of the script |
| Attach point expansion (`ap_probe_expansion.cpp`, `probe_prune.cpp`, `pid_filter_pass.cpp`) | attach points and their expansion | match, choose multi or session, clone, filter, prune | every match runs the block once, under any kernel |
| Semantic analyser (`semantic_analyser.cpp`) | `map_val_`, `variables_`, types and casts in the tree | visit all probes until nothing more is resolved, final pass | it ends; nodes and tables agree; no literal and no typed value is cut off |
| Operators (`semantic_analyser.cpp`, `codegen_llvm.cpp`) | types and widths of operands | promote, widen, compute, store | the number the script says, or a warning |
| Literals (`util/int_parser.cpp`, `fold_literals.cpp`) | | parse, fold | folding gives what the program would |
| Asynchronous ids (`resource_analyser.cpp`, `async_ids.h`, `codegen_llvm.cpp`) | the tables of formats; a counter per kind | append in one walk, count in another | the n-th id means the n-th entry |
| Scratch buffers (`resource_analyser.cpp`, `irbuilderbpf.cpp`, `codegen_llvm.cpp`) | how many buffers of a kind and how large; the next one to take | reserve in one walk, take in another | no buffer is missing, too short, or reused before its value is |
| Control flow (`control_flow_analyser.cpp`) | the tree | add the missing jumps, put code behind a jump out of the way | what runs is what was written |
| Macros (`macro_expansion.cpp`) | registry, depth | register, check, copy, rename, replace | variables of macro and caller are kept apart |
| Maps with and without keys (`map_sugar.cpp`) | `MapMetadata` | decide, desugar, mark, report | a compiled script uses each map one way |
| Process monitor (`procmon.cpp`) | pidfd, `died_` | `is_alive` | dead stays dead, a reused pid is not alive |
| pcap files (`pcap_writer.cpp`, `bpftrace.cpp`) | one writer per file | create, write, close | a writer for every file named in the script |
| Driver, pass manager, imports, resolution of fields and arguments, resources, configuration, global variables, symbol caches, clang, BTF, DWARF, output formats | tables, trees | look up, convert | precedence, width, freshness |

How the parts meet: the pass manager runs the passes over one tree; later passes
know of earlier ones only what these have written into it.  Code generation
leaves behind programs, map definitions and `RequiredResources`, which the
runtime shares with it: an id in an event is an index into a table, a key or a
value in a map is laid out the same on both sides.  `run_bpftrace` installs the
signal handlers and calls `BPFtrace::run`; `run` owns the child, the process
monitor and the attached probes; the libbpf poll calls call back `event_printer`,
which calls one handler of `AsyncHandlers` per event; handlers call back into
`BPFtrace` (`request_finalize`, `attached_probes_`) and read and write maps;
signal handlers only set flags.  All of user space is one thread: concurrency is
with the kernel, the programs, the signals, the child and the tracee.

What is hard here: programs keep firing on other CPUs between any two statements
of `run` and between any two words of an entry that is read; buffers fill up; a
signal interrupts one of two polls; the child dies between a check and a `kill`;
a tracee is stopped on the strength of a message that may be lost; flags set in
one phase are still set in the next; a system call fails after others have
succeeded; two walks over a tree visit it in different orders; a type is
narrowed by one statement and widened by a later one.  Each such place is listed
with its line under `hazards` in `PROJECT.json`, together with the properties
that would notice it going wrong.

## 2. Modules

| Module | Models | Extended by |
|---|---|---|
| `EventLoop` | a run from `prerun` to the return of `run()` | `MCEventLoop` (seven kinds of script), `EventLoopProofs` |
| `ChildProc` | class `ChildProc`, `childfn`, the callers, and clone, ptrace, wait and signals | `ChildProcProofs` |
| `Watchpoints` | set-up probe, handlers, debug registers, tracee | `MCWatchpoints` (which function is called with which addresses), `WatchpointsProofs` |
| `TestRunner` | the `--test` and `--bench` branches of `run()` | `TestRunnerProofs` |
| `WeakCounters` | abstract: what a print of counters promises | `BpfMap` implements it |
| `BpfMap` | a map between the programs that fill it and print, zero and clear | `MCBpfMap`, `BpfMapProofs` |
| `TimeSeries` | `tseries()` from the sample to what print shows | `MCTimeSeries`, `TimeSeriesProofs` |
| `Histograms` | `hist()` and `lhist()` from the sample to the bars | `MCHistograms`, with it `MCTimeSeries` |
| `TypeInference` | the repeated passes of the semantic analyser over types | `MCTypes`, `Operators`, `AnalysisProofs` |
| `Operators` | integer operators from types to instructions | `MCOperators`, with `MCTypes` |
| `Literals` | integers in the source and their folding | `Operators`, `MCCompile`, `AnalysisProofs` |
| `AsyncIds` | the two walks that number events | `MCCompile` |
| `ControlFlow` | `ControlFlowChecked` | `MCFlow` |
| `Macros` | macro expansion | `MCMacros` |
| `ProbeExpansion` | expansion, pid filter, pruning | `MCProbes` |
| `MapSugar` | scalars and keyed maps | `MCMapSugar`, `AnalysisProofs` |
| `ScratchBuffers` | what is reserved for large values, and the program that uses it | `MCScratch` |
| `Attachment` | the two attach passes and what each probe needs | `MCCompile`, `AttachmentProofs` |
| `MCCompile` | the stages a script goes through, side by side | |
| modules named `...Proofs` | theorems, and the lemmas behind them | |

The conventions are the same everywhere.  A variable has the name of the field
or local it stands for; an action has the name of the function, or of the
statement of `run()` it stands for, and the definition of a property quotes the
doc or comment it comes from.  Definitions whose name ends in `_Something` next
to a definition without the suffix are faulty variants: each property is known
to fail when its variant is put in.  `map` in `PROJECT.json` gives the lines of
every definition.

Modules that need no knowledge of each other are still checked together where
their instances are small: `MCCompile`, `MCOperators` and `MCTimeSeries` take a
disjunction of their next-state relations, each behind the initial states that
are its own.  That is a matter of running them, not a composition.  Compositions
proper are `BpfMap` with `WeakCounters` (refinement), `Operators` with
`TypeInference` (the cast of an operand is the analyser's) and with `Literals`
(machine arithmetic), and `EventLoop`, which holds event loop and loss accounting.

### EventLoop

`pc` is where `run()` is.  `Prepare`, `RunBegin`, `SetupChild`, `AttachForward`,
`AttachReverse`, `Start` and `RunIter` are the part before the poll;
`SkbPoll`, `SkbConsume`, `SkbReturn`, `PollEventLoss`, `RingPoll`,
`RingConsume`, `RingReturn` and `Check` are one iteration of `poll_output`,
called twice (`phase`); `ClearProbes`, `ResetFlags`, `RunEnd` and `TotalLost`
are the end.  The environment is `ProbeFires` (an attached probe emits one of
the acts of its script, on any CPU), `TracedExits`, `ExitSignal` and
`Usr1Signal`.  A signal interrupts a poll only when the poll has nothing to
read, because `epoll_wait` returns data in preference; it may also come too
early to interrupt anything.  libbpf is modelled as used: the perf buffer hands
out what was there when it looked, the ring buffer goes on until it is empty.
What handlers print is one act, `print`; `exit` and `skb` are the two whose
control differs.  Left out: a poll that fails for another reason than an
interruption (`bpftrace.cpp:936`), a SIGTERM of `request_finalize()` that the child
outlives (its other behaviours are those of a script with `-p`), and `skb_output_lost`
(`bpftrace.cpp:319`), which tells of the losses of the perf buffer: the properties about
losses speak of the ring buffer only.  `fate` and `late` are history variables that the properties
use.  Attaching one probe is one step here; what it consists of is `Attachment`.

### ChildProc

The parent is one program counter over the methods and their callers; the child
is where `childfn` is plus what the kernel knows of it (stop, pending signals,
ptrace relation, exit status).  Every system call may fail the way the code
handles, a `waitpid` may be interrupted, others may send SIGTERM or SIGKILL to
the child, and bpftrace may be killed.  The uninitialised `wstatus` that an
interrupted first `waitpid` leaves behind (`child.cpp:233`) is a free choice of
the branch taken.  A probe that cannot be attached ends the run while the child waits
or is paused; an exit signal then and a dry run terminate it.  Descriptors are not modelled.

### Watchpoints

A thread of the tracee enters a probed function (`Enter`), which sends SIGSTOP
and then the event; it goes on when nothing stops it (`GroupStop`, `Leave`).
`watchpoint_attach` and `watchpoint_detach` are the handlers, with the duplicate
check against the shared address.  The end of a run is modelled by the phases in
which `event_printer` handles, ignores and handles again.

### TestRunner

A script is a sequence of programs, each with a return value and a sequence of
events.  `RunProgram`, the drain (`HandleEvent`, `PollReturns`) and a verdict
(`TestVerdict`, or one of `BenchSkips`, `BenchContinues`, `BenchFails`,
`BenchReports`) are the body of the loop.  Time is not modelled: whether a
benchmark has run long enough is a free choice up to `MaxIters`.

### BpfMap, WeakCounters

The table is the kernel's preallocated hash table as programs see it: an entry
is a slot of memory, `delete()` frees the slot at once, and a program that has
looked an entry up keeps writing into the slot whoever owns it by then.  Programs
(`Lookup`, `Insert`, `Load`, `Store1`, `Store2`, `Delete`) write the words of their own CPU one by
one, in the order the emitted code has.  The event loop walks the keys
(`NextKey`: a key that is gone restarts the walk at the first), copies an entry CPU by
CPU, reduces, and for `zero` and `clear` writes or deletes key by key.  A scalar
count is a per-CPU array instead: its one entry neither comes nor goes.

`WeakCounters` is what this promises of counters: no snapshot, but for every key
shown a number between what the key had when the print began and what it has
when it is shown.  `BpfMap` implements it (`ImplementsCounters`), with `total`
the sum over the words of a key and `lost` the keys that lost counts since.
For the other kinds `ReduceExact` states what a value read without a tear must be.

### TimeSeries

A program computes the epoch from a clock read earlier, clears its words when it
meets an older epoch and stores value, second word and epoch, in this order, one
at a time.  Print copies the words of one CPU at a time: the copy of one CPU's
value is a plain memory copy of a few words, and splitting it further would add
tears of the same kind that the CPU boundary already shows (`torn`).  Interval
and number of intervals are as in the script; the clock starts late enough that no
epoch is in the first `NumIntervals`.  `SeriesExact` speaks of entries that nobody stored in
while they were copied or zeroed.

### Histograms

Bucket of a sample in 64-bit arithmetic as the programs compute it; edges and
labels in the `int`s of user space.  The two meet only in the labels, and
`SamplesShown` compares them: every bar shown is as wide as asked, and the samples of
it lie between its labels.  Left out: the text of labels and suffixes, the
closed intervals of the JSON output, and sorting of keyed histograms by total.

### TypeInference

A script is the sequence of the statements of all its probes; a visit of one
statement is one step, with the tracker of what has been resolved, the early
end of a pass and the final pass.  The analyser writes types and casts into the
tree, which is why the model keeps them in the statements.  Not modelled: the
branches of an if expression and what waits for those decided at compile time, sizes of
strings, tuples, records, pointers (a map of pointers accepts integers,
`semantic_analyser.cpp:4145`), and that a unary operator other than `++` and `--` on a
variable widens it (`semantic_analyser.cpp:2697`).

### Operators

A step applies one operator to what has been computed so far and a leaf.  Types
and casts are the analyser's (`binop_int`), the instructions are code generation's.  The
number the script means is computed beside it (`meant`), and `surprises` names
why they may differ: there are four reasons, all the code's own
(section 6), and the walk stops at the first.  Left out: booleans in
arithmetic, per-CPU aggregates as operands, pointers, shifts by the width or
more, and narrow divisions, whose check compares the divisor with a zero of another
width (`irbuilderbpf.cpp:2595`).

### Literals

Integers with exponents, suffixes and underscores as the parser accepts them,
and folding of unary and binary operators in machine arithmetic, where results
without a defined value in C++ are a result of their own.  Strings, tuples,
`str()` of a literal and positional parameters are left out.

### AsyncIds

Both walks as functions over a tree of the nodes whose order matters, with
`unroll`, whose body code generation visits once per iteration with the ids
reset.  An entry is the place in the source it was made for.

### ControlFlow

Bodies as trees; the pass is applied and both trees are run against every
outcome of their conditions.  A jump in the arguments of a call is left out, which is where
the default visitor would forget it (`visitor.h:299`); conditions are leaves.

### Macros

A definition refused by the registry, an argument checked and replaced, a
variable renamed and a nested call are modelled with the names the pass makes,
split at underscores.  `own` is not in the code: it says which variable an
occurrence means, and `Hygienic` compares names with it.  Loops, `typeof` and
records in bodies are left out.

### ProbeExpansion

Matching, the choice between single, multi and session expansion, the block with
the return test that a session gets, the pid filter, and pruning of probes without
a match.  Left out: the syntax of attach points, fentry, usdt, watchpoint and
iter types, `probetype`, and the order of the copies made for several targets
(an `unordered_map`).

### MapSugar

A use of a map is its kind, whether it has a key, and the branch it is in.  The
passes visit use after use.  Maps do not meet in this pass, so a script is the
uses of one; macros such as `len()` that ask `is_scalar` are uses in the
branches.  `len` as a function of a map is checked as `has_key` is; the errors for a wrong number
of arguments are left out.

### ScratchBuffers

`ReserveBuffers` is the walk of `ResourceAnalyser`, `GenerateCode` that of
`CodegenLLVM` together with one run of the program it makes: each instruction is
emitted and, unless it is in a branch not taken, executed.  Of a value only its
origin is kept: the numbers of the things it was made of.  A use whose place holds
other numbers than the value should have is a fault, and so are an access longer
than the buffer and an index behind the last one.  `scopes` and `vars` are
`scope_stack_` and `variables_`, `next` is `AsyncIds`.  Left out: alignment, the
types other than integers, strings and flat tuples, ternaries of tuples, jumps, and
loops other than those over a map, of which one entry is visited.

### Attachment

The two passes over the probes, and for each probe the perf event and link per
CPU with the roll-back, each system call failing or not.  Left out:
`attach_external`, the start of the child, the polling that follows, multi
probes, iterators and symbol offsets.

## 3. Runs

| Run | States | Bounds |
|---|---|---|
| `event_loop` | 199 thousand | seven kinds of script, 3 CPUs, both buffers hold 2, losses saturate at one per CPU, one exit signal, one SIGUSR1 |
| `child` | 6.6 thousand | two foreign signals, one interrupted `waitpid`, a crash |
| `watchpoints` | 50 thousand | one thread, three probes over two addresses, three registers, ring of 2, four calls, two `unwatch()` |
| `tests` | 1.03 million | two programs of up to two events, two iterations, one exit signal |
| `maps` | 1.05 million | 2 CPUs, 2 keys, 2 slots, count, hist, min and avg, three updates or deletes, one print, zero or clear |
| `tseries` | 4.43 million | 2 CPUs, 2 keys, 2 intervals, three samples, four ticks, two prints or zeros; histograms of 8-bit samples with 6-bit ints, two samples |
| `types` | 460 thousand | scripts of three statements over a map and a variable or two maps; operators on 4-bit integers, all types and values |
| `compile` | 516 thousand | the inputs of each pass, below |

Why these bounds are enough to meet the interesting cases:

* **event_loop.** A buffer of two holds an event of the main phase and the end
  event together, and overflows; three CPUs are the smallest number for which the
  rounded-up CPU count is not reached by an existing CPU, next to two in
  `last_cpu_loss`; one exit signal can arrive at every step, before and after
  the reset of the flags.  Probes fire without bound.
* **child, watchpoints, tests.** Two foreign signals can stop a traced child and then
  kill it; three probes of which two share an address and one has two make every
  pair that the duplicate check can confuse; two programs are one that leaves state
  and one that finds it.
* **maps.** Two keys of which one can be deleted during the walk, two slots so that a
  freed one is taken by the other key, and three updates: one before, one during,
  one after.  The first sample is neither least nor greatest and one is zero.
* **tseries.** Four ticks of two per interval go once around the ring of two.  The
  histograms have every `k` that eight bits allow, and samples at both sides of
  every edge.
* **types.** Three statements are a type, a second one that changes it, and a use;
  `MaxSize` is 4 in place of 8, with all sizes below it.  One bit to the byte gives
  integers of one, two and four bits: sign, overflow and every promotion are there
  and every value can be tried.
* **compile.** Literals of five bits in place of 64; scripts of nodes that take ids in
  every nesting of two; bodies of an if with a jump in either branch, in a block, in
  each kind of loop; one macro of two statements and a value with three overloads of
  another; scripts of two or three probes on the sixteen systems that differ in a
  feature; two uses of a map in all branches and three in fewer; every statement that
  takes buffers with pairs of eleven and six kinds of string, in the probe, a branch,
  an unroll and a loop, with four settings under which other kinds of values are too
  large for the stack; attachment of three probes on three CPUs with three failures.

The inputs of some passes leave out scripts that are known to come out otherwise:
`OrderedScripts`, `PlainProbeScripts`, `PlainMapScripts`, `PlainBodies` and
`NarrowLHists` each say by a condition what is left out, `KnownBufferScripts` lists it,
and section 6 has a configuration that runs them.

What the passing runs show:

* **event_loop.**  At the end of a run both buffers are empty (`BuffersDrained`),
  the end event was handled or is counted as lost (`EndEventHeard`), begin and end
  are in place (`BeginFirstEndLast`), nothing is attached while events are
  discarded (`FinalizeDetaches`), and losses are told exactly once
  (`LossNotOverstated`, `LossAllReported`; of the ring buffer).  `exit()`, SIGINT and SIGTERM end the
  run although probes fire for ever, as do the death of the traced process and
  having nothing to wait for (`RunEnds`); `skboutput()` is heard (`SkbHeard`).
* **child.**  `terminate()` signals only its own child (`KillsOnlyItsChild`); the
  destructor leaves neither a process nor a zombie (`NothingLeftBehind`); what the
  object says of the child is true (`StatusReported`); a paused child is at its
  `execve` (`PausedAfterExec`); neither `run(true)` nor the destructor hangs,
  and a child that waits for its message dies with bpftrace (`NobodyHangs`, which is
  `CallsReturn` and `WaitingChildDies`).
* **watchpoints.**  A single-threaded tracee never runs in a call whose address
  is not watched (`NoEventMissed`) and is not left stopped (`TraceeContinues`); a
  duplicate needs another address in between (`RepeatedOnlyAfterAnother`);
  `unwatch()` is exact for functions with one address (`UnwatchOne`).
* **tests.**  A failure is the failing program's own (`NoFalseFailure`), is
  reported as long as nobody called `exit()` and agrees with the exit status
  (`NoFalsePass`), and no handler of a test run writes to a destroyed output
  (`NoDanglingOutput`).
* **maps.**  What is printed is what was recorded, unless a program was in the
  middle of it (`ReduceExact`); an event does what it says to every key that stays,
  and to all of them when programs are quiet (`ServedAsAsked`); every event is served, however often programs
  restart the walk (`EventServed`); a print of counters implements weakly
  consistent counters (`ImplementsCounters`).
* **tseries.**  An interval shows the aggregate of the samples of that interval
  and no other (`SeriesExact`); bars hold the samples their labels say
  (`SamplesShown`).
* **types.**  The analysis ends (`Settles`), an accepted script has a type
  everywhere it is needed (`AcceptedIsTyped`), and no literal and no value with a type of
  its own is cut off (`NothingTruncated`; what is read from a map or a variable is not covered,
  and section 6 has a script that cuts it off); a chain of operators computes the number the script
  says, but for four named reasons (`OperatorsExact`).
* **compile.**  Folding is exact (`FoldExact`), ids name their entries
  (`IdsAgree`), bodies do what they say (`RunsAsWritten`), variables of macros
  and callers are kept apart (`Hygienic`), programs run what the probes say
  (`ProbesAsWritten`), maps are scalar or keyed for all (`MapsAsWritten`), a value too large for the stack
  has a buffer of its own for as long as it is used (`BuffersKept`), a probe
  has all its links or none (`WholeProbes`) and a run starts with what it was
  asked to attach (`AttachedAsAsked`).

Several properties have a condition.  Each names a case in which the code does
behave differently; section 6 lists them.

### Fairness

* `EventLoop`: weak fairness of the thread of `run()` and of nothing else.
  Probes, signals and the traced process owe nothing.  `RunEnds`, for the death of
  the traced process, and `SkbHeard` also need that the reader catches up with the
  ring buffer again and again: `ring_buffer__poll` does not return while there is
  data.  That is an assumption on the load, stated in the property.
* `ChildProc`: weak fairness of the parent's steps that are not an interrupted
  system call, of `childfn` up to `execve`, and of the delivery of signals.  The
  command itself may run for ever and may ignore SIGTERM.
* `Watchpoints`: weak fairness of bpftrace's reading.  The tracee owes nothing,
  and that somebody ends the run is never assumed.
* `BpfMap`: weak fairness of the event loop's steps.  Programs owe nothing; that a
  walk ends needs that they do not delete keys for ever, which the bound on
  updates gives.
* `TypeInference`: weak fairness of the analyser, which is a loop.

## 4. Theorems

Checked by TLAPS for every value of the constants that satisfies the assumptions
of the modules.

| Module | Theorem | Establishes |
|---|---|---|
| `EventLoopProofs` | `TypeCorrect` | `TypeOK` |
| | `FinalizationDetaches` | `FinalizeDetaches` |
| | `LossesAreReal` | `LossNotOverstated` |
| | `EventsInOrder` | `BeginFirstEndLast` |
| | `NothingUnread` | `BuffersDrained` |
| | `EndIsHeard` | `EndEventHeard` |
| | `LossesAreTold` | `LossAllReported`, if `NCpus <= max_cpu_id` |
| `ChildProcProofs` | `Invariance`, `TypeCorrect` | the inductive invariant, `TypeOK` |
| | `NeverKillsAStranger` | `KillsOnlyItsChild` |
| | `LeavesNothingBehind` | `NothingLeftBehind` |
| | `ReportsTheTruth`, `DeathsAreExplained`, `StatusIsReported` | the three parts of `StatusReported` and the whole |
| | `PausesAtExec` | `PausedAfterExec` |
| `WatchpointsProofs` | `WatchTypes` | `TypeOK` |
| | `UnwatchTakesOne` | `UnwatchOne`, if `unwatch(0)` is not called |
| | `RepeatsAreApart` | `RepeatedOnlyAfterAnother`, if `MissingError` |
| | `NothingIsMissed` | `NoEventMissed`, if one thread, `MissingError`, no null arguments |
| `TestRunnerProofs` | `NoneDangles` | `NoDanglingOutput` |
| | `FailuresAreReal` | `NoFalseFailure`, if begin sends no failure |
| | `PassesAreReal` | `NoFalsePass`, if begin does not call `exit()` |
| `AttachmentProofs` | `AttachTypes` | `TypeOK` |
| | `ProbesAreWhole` | `WholeProbes` |
| | `AttachesAsAsked` | `AttachedAsAsked` |
| `BpfMapProofs` | `MapTypes` | `TypeOK` |
| | `PrintsAreWeak` | `ImplementsCounters`, the refinement of `WeakCounters` |
| | `ServesAsAsked` | `ServedAsAsked` |
| | `ReducesExactly` | `ReduceExact` |
| `TimeSeriesProofs` | `WordsTell` | the inductive invariant |
| | `SeriesIsExact` | `SeriesExact`, if there is more than one interval |
| `AnalysisProofs` | `TypesInferred` | the inductive invariant of `TypeInference` |
| | `TypedAtTheEnd` | `AcceptedIsTyped` |
| | `ValuesKept` | `NothingTruncated` |
| | `SugarKeepsUses` | `MapsAsWritten`, for scripts in which no first use misleads |
| | `FoldedAsWritten` | what one step of folding keeps of `FoldExact`: comparisons, logic, sums, products, quotients, remainders, signs, complements and casts to bool |

**EventLoop**, for any set of scripts, any number of CPUs and probes, buffers of
any size and any number of signals.

* `TypeInv` adds the range of the loop index in the two attach passes to
  `TypeOK`: without it an attach step could leave the list of probes.
* `DetachInv` adds that `finalize_` is not set while probes are still being
  attached.  `FinalizeDetaches` alone is not inductive: an attach step after a
  finalization would break it.
* `LossNotOverstated` is inductive over `TypeInv`.  What it needs is a lemma on
  sums (`SumProperties`): the sum over the CPUs is defined as the size of a set
  of pairs, so that monotonicity follows from the subset relation and no
  induction over CPUs is needed.
* `OrderInv` adds to the order of the two buffers that no end event exists before
  the end program ran, that nothing is attached from then on, that it is not run
  before polling starts, and that the buffers are empty when begin runs.

The end of a run needs to know what the last call of
`poll_output` has done so far, whatever interrupted it.

* `Phases` and `Before` say what the two calls start from: the flags have been reset
  before the second one, nothing is attached during it, and no end event exists
  before it.
* `Drained` follows the two buffers through one iteration: what was in the perf
  buffer has been handed out when the ring buffer's turn comes, and
  `poll_output` gives a buffer up only when it was empty.  `BuffersDrained` at the
  return is its last line.
* `EndAhead` is the heart of `EndEventHeard`: a pending end event is in a buffer that
  is still going to be read in this iteration or a later one.  `FlagsReset` says that
  nothing makes `event_printer` ignore it before a late request does.
* `LossSeen`: after the last `poll_event_loss` the counters stay as they are.
  `LossesAreTold` needs that the loop over the counters reaches the last CPU, which
  is what the run `last_cpu_loss` refutes for a power of two.

**Watchpoints**, for any probes and arguments, any number of debug registers and a ring
buffer of any size.

* `UnwatchTakesOne` needs `ArgsSeen` (an event in the buffer, a watchpoint and the
  shared address have an argument of their probe) and what erasing from a vector
  while iterating over it leaves behind, which is `DetachFacts` over `Only`.
* `LatestAddress` is what makes the duplicate check sound: the shared address is that
  of the last watchpoint attached for the probe.  It is lost when an attachment
  fails and the run goes on, hence `MissingError`.
* `Served`, `OneStop` and `Attended` carry `NoEventMissed`: as long as no `unwatch()`
  was made, the shared address of a probe is watched; at most one event in the buffer
  has stopped the tracee, and it is that of its call; whoever runs inside a call is
  watched or about to stop.  With two threads `OneStop` fails, as section 6 says.

**TestRunner**, for any number of programs, of events in each, of iterations and of
signals.  `Stages` says what each stage starts from (an empty buffer, exit code 0, the
capture in place).  `Unread` and `AllRead` relate the buffer to the program: it holds a
suffix of the program's events, and each one before it has been counted unless the flags
said to ignore it; `Blame` is the same read backwards, and `NoFalseFailure` follows from
it.  For `NoFalsePass`, `Stopped` traces a `finalize_` that is set to the first
`exit()` of a program, which is found as the least element of a set of indices.
The two hypotheses are about begin, whose errors the code counts with the first test.

**Attachment**, for scripts of any length, any number of CPUs and any pattern of failing
calls.  `Dealt` says that the probes a pass has come by are those attached and those
failed; `Ordered` that each pass appends in its direction; `Links` that, in the middle
of an attachment, the links made and those still to be made are together those the
probe needs, which is what the roll-back relies on.

**BpfMap**, for any number of CPUs, keys and slots, any `max_entries`, all value types, and
any number of updates and events.

* What user space makes of an entry is a fold over the CPUs.  `SumIsChosen` gives the
  recursion behind it and `SumGrows` its monotonicity, both by the least number of CPUs
  for which they would fail (`Least`): an induction without the induction theorems.
* `PrintsAreWeak` maps each step to one of `WeakCounters` or to none.  `Injective` (an
  entry belongs to one key) makes a store a change of one key's counts.  `Counting` says
  what keeps a count from going back under an unlocked load and store: on its CPU a
  program runs alone, so it stores more than what is there, and an entry that was made
  since its lookup has a 0 for its CPU.  `Reading` is the invariant of the copy: what has
  been copied, completed with what is still in memory, has no less than the count at the
  start of the print, and no more than now.
* For `ServesAsAsked`, `Walked` says that every key that stays is found or still before the
  walk, although the walk starts again at the first key when its own is deleted; `Answer`
  is what the walk and the loop have done when no program runs; `Stopped` says that an
  event that began beside a running program is never taken for a quiet one.  `FoundCount`
  counts the keys, found in increasing order, by a bijection.

* `ReducesExactly` rests on `XInv`: for every CPU and every slot that was not freed or
  zeroed under a program, the words of the CPU tell (`Told`) exactly the samples recorded
  there.  Two places are in between: a program between its two stores has written the
  first word and has the rest in what it loaded (`Whole`), and the event loop has zeroed
  the first of two words (`Cut`).  `Fresh` is why the insert of a program that missed the
  key may overwrite: an entry that another CPU has made since has no sample of its CPU.
  `Zeroing` keeps a slot that is handed out from being the one that is zeroed, and `Shapes`
  says that the stores of `min` and `max` improve on what they loaded.
* The reference folds over sets, in an order the definition leaves open.  `RecordedFacts`
  says what does not depend on it: how many samples all CPUs have, their sum, and which
  values occur.  It, `SumOfJoined` and `Extremes` go by a smallest counterexample
  (`Smallest`) where an induction would be natural; `ToldReduces` joins them with the
  words that `reduce_value`, `min_max_value` and `avg_value` read.

**TimeSeries**, for any number of CPUs, keys, intervals, samples and events and any length of
an interval.

* `Told` says that the words of a CPU are those of its samples of the latest epoch it
  recorded in, and `Exact` that they are so in every entry that was not zeroed under a
  program: at once where no program is storing, and where one is, for what the words become
  (`Stored`) when it has stored the rest and its own sample is counted.  It is not
  inductive alone: `Fresh` is why the insert of a program that missed the bucket loses
  nothing, `Emptied` why a program that arrives in an entry while it is zeroed stores all
  three words, and `Calls` keeps the times on a CPU in order, so that the epochs it meets
  only grow.
* A value that was copied and reduced must still be right when it is printed, when the entry
  may be another interval's.  `Copied`, `Collected` and `Taken` follow it: what was copied is
  what is there, an epoch of a key is given one value, and the value of an entry copied whole
  is the reduction of words that tell the samples noted for it.
* `ReduceTold` joins these words over the CPUs.  A CPU that is behind has an older epoch and
  is left out; that it then has no sample of the latest one is what `Told` gives.
  Sums are unfolded (`FoldsAreSums`) and added up (`ByCpu`) by a smallest counterexample
  (`Smallest`), as for `BpfMap`.
* Epochs that use one bucket are `NumIntervals` apart (`Ring`).  So of the window only the
  epoch that was reduced can have samples in it (`RowsRight`); for one interval this fails,
  as section 6 says, and so does the theorem.

**ChildProc**, for any number of foreign signals and interruptions, with or
without a crash of bpftrace.  The invariant `Inv` is the conjunction of the safety
properties with five facts: between a successful check and the wait of
`terminate` nobody else reaps the child (`NotReaped`); the blocking wait comes
after a SIGKILL, when no stop can satisfy it (`KillIsFinal`); the destructor
forces (`ForcedAtEnd`); there is a child from the constructor on (`Forked`); a
stop at `execve` is one of the command (`ExecStop`).  `KillIsFinal` is the heart of
`LeavesNothingBehind`: without it the wait of the destructor could return for a
stop and leave the child.  `Known` adds, for `DeathsAreExplained`, that a paused
start happens only with USDT probes and that a corpse has a status.

**TypeInference**, for any set of scripts, of any length, over any maps and variables, for any
size of the largest integer.

* `Resolved` says what the final pass has reached: what it has visited has a type, and a
  map that has none yet is assigned by a statement it is still to visit.  The end
  of the pass leaves none, which is `AcceptedIsTyped`.  It needs `Shape`: a statement keeps
  its target through all passes, so that a map known to the analyser is assigned somewhere.
* `Kept` carries `NothingTruncated`.  `Whole`: no pass leaves a literal or a typed value
  with a type or a cast that does not hold it; the rest: in the final pass every target holds what was
  assigned to it so far.  The two go together because a target only grows (`Grows`, from
  `Updates` on `update_int_type`), and because the increment of a map,
  which widens nothing, has made it the largest integer before.
* `ScriptsAssumption` is the shape of parsed scripts, `MaxSizeAssumption` that the largest
  integer has one of the sizes there are, `NamesAssumption` that names of maps and
  variables differ.

**MapSugar**, for any set of scripts of any length.  `Decided` traces the state of the map to
the first use that says what it is; `Marked` says that the uses of the other kind are
marked, each in the set of its kind, and nothing else is; `Rewritten` what each use has
become by then, which is where the semantic analyser looks for marks; `Reported` that
of the marked uses exactly the compiled ones are errors.  `MarkSeen` joins them: a map
function whose key is in its arguments by now would escape, which needs that no such
use is hidden.  The two hypotheses are hypotheses of the theorem: section 6
has the scripts for which the code differs.

**Literals**, for any width.  Each function that folds gives the value of the operator on the
integers in the form its sign asks for, leaves it undefined, or refuses it; two
operands of one kind are refused only if no literal has the value (`Folds`).  The sum of two
words exceeds both exactly if it did not wrap; the product of two words, wrapped
and divided by one, is not the other if it did wrap (`ProductFolds`); the quotient is rounded
towards zero (`CDivFacts`).  The theorem is about a step from any literal of the width and not an
invariant of the specification: bits, shifts and powers of ten are missing in it, for
which `FoldExact` is checked at the width of the run.

The assumptions are the named `ASSUME`s of the modules: ranges of the bounds, the
shape of a script, and `MaxCpuIdAssumption`, a fact of arithmetic on rounding up
to a power of two (it would need an induction; TLC evaluates it for the
instances).

Only model-checked:

* all liveness properties, because the provers do not handle fairness;
* `IdsAgree`, `RunsAsWritten`, `Hygienic` and `BuffersKept`, whose modules (`AsyncIds`,
  `ControlFlow`, `Macros`, `ScratchBuffers`) walk trees by recursive operators, about which
  nothing can be proved;
* `SamplesShown`, `OperatorsExact` and what `FoldExact` says of bits, shifts and integers of the
  source.  They compare arithmetic of a given width with that of the numbers, by powers of
  two and logarithms, which need inductions over the width;
* `ProbesAsWritten`, which counts what folds over sequences of probes leave, and holds
  for the scripts of the run; section 6 has configurations in which it does not.

## 5. Not modelled

`components` in `PROJECT.json` names every part of the system and says for each
what of it is modelled, or why it is not.  In short:

* Formats: the grammar, the clang front end, BTF and DWARF readers, the emission
  of LLVM IR as such, and the wording and layout of the output.  Their content is
  tables, for which a model would restate the code.
* Tables filled once and then read: configuration, global variables, symbol caches,
  pcap writers, options of the command line.
* One-bit machines: the process monitor is a `poll()` of one descriptor.
* Imports and libraries: what happens is decided by the file system, libbpf, libclang
  and the linker.
* Of the semantic analyser, the checks of the arguments of each function.  They are
  a list of conditions on types, one per function, and independent of each other.
* Of code generation, everything whose effect stays inside one program and involves
  neither widths nor ids nor memory shared with another CPU.

## 6. Where the code differs from what is written

Four runs are expected to find a violation; each checks a sentence of the
documentation, of a comment or of a test against what the code does (`findings`
in `PROJECT.json` quotes it).

* `last_cpu_loss`: `get_event_loss_counter` stops before index `max_cpu_id`,
  which is an existing CPU when the number of CPUs is a power of two.
* `tseries_average`: print of an average copies an entry between the clearing of its
  words and its count, and divides by zero (`util/tseries.cpp`).
* `ids_swapped`: in `@[strftime("a", nsecs)] = strftime("b", nsecs)` each gets the
  format of the other.
* `int_promotion`: a `uint32` operand with its highest bit set, promoted against a
  signed one, becomes a negative number.

More counterexamples have a configuration here, to be run by hand with
`tlc -config <cfg> <module>`:

| Configuration | Module | Shows |
|---|---|---|
| `EventLoop_late_exit_call` | `MCEventLoop` | a probe calls `exit()` after the last main poll; the last drain handles it, which sets `finalize_` again, and the end event behind it is ignored |
| `Watchpoints_exit_stopped` | `MCWatchpoints` | with `-p`, a watchpoint event that is ignored because the run is being finalized leaves the tracee stopped |
| `Watchpoints_unwatch_other` | `MCWatchpoints` | attachments of one probe share one address: `unwatch()` of the latest removes them all, of an older one none |
| `TestRunner_exit_hides_failure` | `TestRunner` | `finalize_` is not reset between tests: after a test that calls `exit()` later tests cannot fail by `errorf` or `exit()` |
| `TypeInference_unsettled` | `MCTypes` | `$a=1; $b=1; $c=1; $c=$b; $b=$a; $a=nsecs`: the analyser stops with nodes that disagree with its tables; with `Declared` as the scripts and `DeclaredTypesKept` as the invariant, `let $a: int8; $a = @m; @m = 10000`: the declared type is lost |
| `ScratchBuffers_known` | `MCScratch` | with `-continue`, the six cases under scratch buffers below |
| `Compile` | `MCCompile` | with `NoUndefined` as the only invariant, folding the smallest integer divided by -1 is undefined (a SIGFPE in practice); with `EventsClosed`, the perf event of a watchpoint whose link fails is never closed (`attached_probe.cpp:1474`) |
| `Histograms_wide` | `MCHistograms` | `lhist()` with bounds an `int` cannot hold; with `Hists` and `Repeats <- Often`, a bucket hit 2^31 times; with `Hists` and `Numbers64 <- UnsignedNumbers`, samples of 2^63 and more |

Seven more need only other constants than the runs have, given here in the form of a
configuration (`SPECIFICATION`, constants, `INVARIANT`):

* `MCBpfMap`: `Spec`, `NCpus = 2`, `NKeys = 1`, `NSlots = 1`, `Kinds = {"count"}`,
  `Samples <- ThreeSamples`, `MaxHits = 3`, `MaxOps = 0`, and `DeleteClearsScalar` as the
  `PROPERTY`: `delete()` of a scalar count, a per-CPU array, removes nothing
  (`docs/stdlib.md:204`).
* `MCTimeSeries`: as `TimeSeries.cfg`, with `NumIntervals = 1` and `SeriesExact`: after
  `zero(@)` a time series of one interval, which the analyser accepts
  (`semantic_analyser.cpp:1232`), is printed with a 0 in epoch 0, where longer ones show
  nothing: `first_epoch` does not wrap around (`types_format.cpp:610`).
* `MCFlow`: `FlowSpec`, `Bodies <- WhileBodies`, `RunsAsWritten`: code behind
  `while (c) { return; }` never runs; with `ElseBodies` as the bodies, dead code in an else
  stays behind a jump.
* `MCMacros`: `MacroSpec`, `Definitions <- NestedDefinitions`, `Blocks <- NestedProbes`,
  `Hygienic`: of a macro in its own argument both copies have the same variables.
* `MCProbes`: `ProbeSpec`, `Symbols <- MCSymbols`, `ProbeScripts <- SessionScripts`,
  `MaxBpfProgs = 4`, `ProbesAsWritten`: with sessions, a return probe that asks for
  `retval` is refused and an entry probe gets the name of the wildcard; with
  `MissingScripts` as the scripts, a `retval` in a probe without a match is an error
  although `missing_probes` is warn (`docs/language.md:316`).
* `MCMapSugar`: `MapSpec`, `MapScripts <- HiddenScripts`, `MapsAsWritten`, no deadlock
  check: `@a = count(); @a[1] = count()` compiles, and the key is lost; with
  `DecidedScripts`, the first use decides although it is never compiled.
* `MCOperators`: `Spec`, `Width = 5`, `Half = 16`, `IntConfig <- NoConfig`, `Tokens = {}`,
  `Vars <- MCVars`, `Maps <- MCMaps`, `TypeScripts = {}`, `MaxSize = 4`, `ByteBits = 1`,
  `Leaves <- AllLeaves`, `StoresExact`: a narrow result stored in a wider place keeps
  whatever the upper bytes were; with `DivisionsWarned` or `ShiftsSigned` as the
  invariant, a signed division without the warning its unsigned neighbours give, and
  `>>` that shifts zeros into negative numbers.

### Seen while modelling the runtime

* A SIGUSR1 that interrupts the perf buffer's poll while the ring buffer is still
  polled ends the reading of the perf buffer until the last drain
  (`bpftrace.cpp:956`; condition of `SkbHeard`).
* A second SIGINT after the reset of the flags silences the end event
  (`bpftrace.cpp:839`; condition of `EndEventHeard`).
* A pending SIGUSR1 runs the `self:signal` programs after the end program
  (`bpftrace.cpp:988`; condition of `BuffersDrained` and `LossAllReported`, and the
  only one they have).
* With USDT probes, a child that dies before its `execve` is reaped by a
  `waitpid` of `run(true)` whose status is not kept (`child.cpp:233`; condition
  of `StatusReported`).
* If bpftrace is killed before the child's `prctl`, the child waits for ever
  (`child.cpp:54`; `WaitingChildDies` starts after it).
* If PTRACE_TRACEME fails, the child stops untraced and the parent's `waitpid`
  does not return (`child.cpp:77`; condition of `CallsReturn`).
* A watchpoint that cannot be attached under `missing_probes=error`, and an event
  lost in a full ring buffer, leave the tracee stopped (`async_action.cpp:172`,
  `codegen_llvm.cpp:3947`; conditions of `TraceeContinues`).
* With two threads in probed functions one SIGCONT continues both
  (`async_action.cpp:190`; `NoEventMissed` is checked for one thread).
* `unwatch(0)` detaches every probe that is no watchpoint (`async_action.cpp:206`).
* A benchmark that calls `exit()` hides its errors; after a skipped or failed
  last benchmark the handlers keep a destroyed output (`bpftrace.cpp:662`;
  conditions of `NoFalsePass`, `NoDanglingOutput`).  Errors of begin are counted
  with the first test (`bpftrace.cpp:600`).
* Outside the models: `run()` closes `child_event_fd_` and the destructor closes the
  number again (`child.cpp:163`); a failed `eventfd()` builds an exception and does
  not throw it (`child.cpp:142`); `pcap_dump_open` is not checked
  (`pcap_writer.cpp:14`); `create_pcaps` returns at the first file it has already
  (`bpftrace.cpp:1536`); without pidfd a reused pid is taken for alive
  (`procmon.cpp:91`); symbol caches are keyed by pid or path and outlive both
  (`usyms.cpp`).

### Seen while modelling values

* `@x++` makes a uint64 map an int64 one, and a later `@x = nsecs` is refused
  (`semantic_analyser.cpp:2624`).  The cast put around `@b = @a` in one pass is
  not widened in a later one: `@a = 1; @b = 100000; @b = @a; @a = nsecs` truncates.
* Widening follows the sign of the target (`codegen_llvm.cpp:2772`): `(int64)200`
  of a uint8 is -56.  `$a = (int8)-1; $b = (int8)-1; $x = $a + $b` is 254
  (`docs/language.md:726`).
* Signed division of operands of one type gets no warning
  (`semantic_analyser.cpp:2308`); the comment at `codegen_llvm.cpp:2174` and the one
  at `ast.h:314` describe an older state.
* `18446744073709551615 > -1` is an error, as is `-` before a literal that fits
  only uint64; `&&` and `||` with a string literal take `empty()` for true
  (`fold_literals.cpp:455`); comparing nested tuples stops at the first pair.
* Histograms: the number of buckets of an `lhist` is an `int`
  (`semantic_analyser.cpp:1183`); JSON shows closed intervals; the last bar is wider
  than the step when the step does not divide the range (`docs/stdlib.md:1574`).

### Seen while modelling passes

* Other orders in which ids differ: `hist(strftime(..))` with a `strftime` in the key,
  a `strftime` in the index of an array, and `typeof(strftime(..))`, which one walk
  visits and the other does not.  `visit(Probe)` drops the function that would reset
  the ids (`codegen_llvm.cpp:3352`).
* Scratch buffers (`ScratchBuffers_known`): `str()` with a `max_strlen` below 1024
  that is not below `on_stack_limit` asks for `max_strlen + 1` bytes
  (`codegen_llvm.cpp:1372`) of a buffer of `max_strlen` (`resource_analyser.cpp:345`);
  `buf()` with a literal length or an array above `max_strlen` clears and reads as much
  as the script says, although a warning says it will be shortened
  (`codegen_llvm.cpp:1403`, `semantic_analyser.cpp:1343`); a `print` or `printf` within
  an argument of a `printf` uses the same buffer (`codegen_llvm.cpp:3903`).
* `$x = pid < 1 ? "a" : "longer"` copies as many bytes from either literal as the longer
  one has (`codegen_llvm.cpp:2486`).
* A string in an expression is a pointer to the buffer of its variable: in
  `($s, { $s = str(..); 1 })` the first element is what the second assigned, which for
  an integer it is not.
* `let $x` read before it is assigned, after an `unroll` of two or more, has what a
  variable inside the unroll was assigned: their buffers are one, as an unroll counts
  the variables of its body again and keeps them (`codegen_llvm.cpp:3102`).  The
  analyser only warns (`semantic_analyser.cpp:2184`).
* Dead code in an else is left where it is when the other branch does not always jump;
  an `unroll` of two or more iterations of a body that always jumps has code behind
  a jump (`control_flow_analyser.cpp:189`); `viist(Range&)` at line 178 is never called.
* `macro g(a, x) { $t = a; x; $t }` and `g(1, g(2, 0))` gives 2; a variable used
  before it is assigned, and the variable of a `for`, reach the caller's variable;
  the names of `foo` at depth two and of `foo_2` at depth one coincide
  (`docs/language.md:629`).
* Programs that expand to several attach points in one are not counted against
  `max_bpf_progs` (`docs/language.md:269`); `wildcard_match` looks for the first place
  of each part, so `*a` does not match `aa`.

## 7. Plan

The code that the models cover is the code they were meant to cover.  What is left
is proving more about it, where the proof needs no induction over data: in `Histograms`, that
a sample of `lhist()` is in the bar whose label has it.
