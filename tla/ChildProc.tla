------------------------------ MODULE ChildProc ------------------------------
(***************************************************************************)
(* The process that bpftrace starts for -c CMD: class ChildProc, the calls *)
(* that BPFtrace::run makes to it, and the child process in the kernel.    *)
(*                                                                         *)
(* The child is cloned at once and waits for a message on an eventfd.      *)
(* run(pause) sends it: "go", or "ptrace" when the script has USDT probes; *)
(* the child then stops, is let run to its execve under ptrace and stays   *)
(* paused there until resume().  The child may die at any moment, by       *)
(* itself or by a signal, and the parent learns of it only by waitpid.     *)
(***************************************************************************)
EXTENDS Integers

CONSTANTS
    MaxExt,       \* bound on the signals others send to the child
    MaxEintr,     \* bound on the signals that interrupt a blocking waitpid
    MayCrash      \* whether bpftrace may be killed

ASSUME ChildAssumption == /\ MayCrash \in BOOLEAN
                          /\ MaxExt \in Nat /\ MaxEintr \in Nat

VARIABLES
    \* The parent.
    has_usdt_,     \* the script has USDT probes: the child starts paused
    pc,            \* where BPFtrace::run or a method of ChildProc is
    to,            \* where terminate() returns to
    force,         \* its argument
    state_, exit_code_, term_signal_,
    \* The child, as the kernel knows it.
    child,         \* where childfn is, or "zombie" or "reaped"
    msg,           \* what is in the eventfd
    pdeathsig,     \* prctl(PR_SET_PDEATHSIG) is done
    traced, traceexec,   \* ptrace relation, PTRACE_O_TRACEEXEC
    stop,          \* "no", or the stop and whether waitpid has reported it
    sigterm, sigkill,    \* pending signals
    status,        \* how the child died
    next_ext, next_eintr,    \* counters of the environment
    stray          \* history: a signal was sent to a pid already reaped

parent == <<state_, exit_code_, term_signal_>>
kernel == <<child, msg, pdeathsig, traced, traceexec, stop, sigterm, sigkill, status>>
counts == <<next_ext, next_eintr>>
vars   == <<pc, to, force, parent, kernel, counts, stray, has_usdt_>>

States   == {"INIT", "FORKED", "RUNNING", "DIED", "PTRACE_PAUSE"}
PreExec  == {"start", "reading", "tracing", "stopping", "execing"}
Statuses == {"none", "exit0", "exit1", "SIGTERM", "SIGKILL"}
Stops    == {"no", "new SIGSTOP", "SIGSTOP", "new EXEC", "EXEC", "new SIGTERM", "SIGTERM"}
Report   == [s \in {"new SIGSTOP", "new EXEC", "new SIGTERM"} |->
                CASE s = "new SIGSTOP" -> "SIGSTOP"
                  [] s = "new EXEC"    -> "EXEC"
                  [] s = "new SIGTERM" -> "SIGTERM"]
PCs == {"new", "setup", "setup_go", "go", "go_go", "w1", "setopts", "cont", "w2", "catch",
        "attach", "poll", "finish", "t_check", "t_kill", "t_wait", "destroyed",
        "crashed", "orphaned"}

ParentOK == /\ pc \in PCs /\ to \in {"poll", "finish", "destroyed"} /\ force \in BOOLEAN
            /\ state_ \in States
            /\ exit_code_ \in {-1, 0, 1} /\ term_signal_ \in {-1, 9, 15}
ChildOK  == /\ child \in PreExec \cup {"none", "running", "zombie", "reaped"}
            /\ msg \in {"none", "go", "ptrace"} /\ status \in Statuses
            /\ stop \in Stops
FlagsOK  == /\ has_usdt_ \in BOOLEAN
            /\ pdeathsig \in BOOLEAN /\ traced \in BOOLEAN /\ traceexec \in BOOLEAN
            /\ sigterm \in BOOLEAN /\ sigkill \in BOOLEAN /\ stray \in BOOLEAN
CountsOK == next_ext \in 0 .. MaxExt /\ next_eintr \in 0 .. MaxEintr
TypeOK   == ParentOK /\ ChildOK /\ FlagsOK /\ CountsOK

Init ==
    /\ has_usdt_ \in BOOLEAN
    /\ pc = "new" /\ to = "finish" /\ force = FALSE
    /\ state_ = "INIT" /\ exit_code_ = -1 /\ term_signal_ = -1
    /\ child = "none" /\ msg = "none" /\ pdeathsig = FALSE
    /\ traced = FALSE /\ traceexec = FALSE /\ stop = "no"
    /\ sigterm = FALSE /\ sigkill = FALSE /\ status = "none"
    /\ next_ext = 0 /\ next_eintr = 0 /\ stray = FALSE
-----------------------------------------------------------------------------
(***************************************************************************)
(* The child: childfn and, after execve, the command.                      *)
(***************************************************************************)
Alive == child \notin {"none", "zombie", "reaped"}
\* The child executes: it is not stopped and no SIGKILL is about to end it.
Runs  == Alive /\ stop = "no" /\ ~sigkill

Dies(how) == child' = "zombie" /\ status' = how /\ stop' = "no"

ChildPrctl_Not ==
    /\ child = "start" /\ Runs
    /\ child' = "reading"
    /\ UNCHANGED <<pc, to, force, parent, msg, pdeathsig, traced, traceexec, stop,
                   sigterm, sigkill, status, counts, stray, has_usdt_>>
ChildPrctl ==
    /\ child = "start" /\ Runs
    /\ \/ /\ child' = "reading" /\ pdeathsig' = TRUE /\ UNCHANGED <<status, stop>>
       \/ Dies("exit1") /\ UNCHANGED pdeathsig             \* return 10
    /\ UNCHANGED <<pc, to, force, parent, msg, traced, traceexec, sigterm, sigkill,
                   counts, stray, has_usdt_>>

ChildRead ==
    /\ child = "reading" /\ Runs /\ msg # "none"
    /\ child' = IF msg = "ptrace" THEN "tracing" ELSE "execing"
    /\ msg' = "none"
    /\ UNCHANGED <<pc, to, force, parent, pdeathsig, traced, traceexec, stop, sigterm,
                   sigkill, status, counts, stray, has_usdt_>>

ChildReadFails ==
    /\ child = "reading" /\ Runs
    /\ Dies("exit1")                                        \* return 11
    /\ UNCHANGED <<pc, to, force, parent, msg, pdeathsig, traced, traceexec, sigterm,
                   sigkill, counts, stray, has_usdt_>>

ChildTraceme ==
    /\ child = "tracing" /\ Runs
    /\ traced' \in BOOLEAN /\ child' = "stopping"          \* a failure is only printed
    /\ UNCHANGED <<pc, to, force, parent, msg, pdeathsig, traceexec, stop, sigterm,
                   sigkill, status, counts, stray, has_usdt_>>

\* kill(getpid(), SIGSTOP): waitpid reports the stop to a tracer only.
ChildStop ==
    /\ child = "stopping" /\ Runs
    /\ stop' = "new SIGSTOP" /\ child' = "execing"
    /\ UNCHANGED <<pc, to, force, parent, msg, pdeathsig, traced, traceexec, sigterm,
                   sigkill, status, counts, stray, has_usdt_>>

ChildExec ==
    /\ child = "execing" /\ Runs
    /\ \/ /\ child' = "running"
          /\ stop' = (IF traced /\ traceexec THEN "new EXEC" ELSE "no")
          /\ UNCHANGED status
       \/ Dies("exit1")                                    \* return 12
    /\ UNCHANGED <<pc, to, force, parent, msg, pdeathsig, traced, traceexec, sigterm,
                   sigkill, counts, stray, has_usdt_>>

CommandExits ==
    /\ child = "running" /\ Runs
    /\ \E how \in {"exit0", "exit1"} : Dies(how)
    /\ UNCHANGED <<pc, to, force, parent, msg, pdeathsig, traced, traceexec, sigterm,
                   sigkill, counts, stray, has_usdt_>>

\* The kernel delivers SIGTERM: a tracee stops for its tracer, the command may
\* ignore it, anything else dies of it.
TakeSigterm ==
    /\ Runs /\ sigterm
    /\ sigterm' = FALSE
    /\ \/ /\ traced
          /\ stop' = "new SIGTERM" /\ UNCHANGED <<child, status>>
       \/ ~traced /\ Dies("SIGTERM")
       \/ ~traced /\ child = "running" /\ UNCHANGED <<child, status, stop>>
    /\ UNCHANGED <<pc, to, force, parent, msg, pdeathsig, traced, traceexec, sigkill,
                   counts, stray, has_usdt_>>

TakeSigkill ==
    /\ Alive /\ sigkill
    /\ Dies("SIGKILL")
    /\ UNCHANGED <<pc, to, force, parent, msg, pdeathsig, traced, traceexec, sigterm,
                   sigkill, counts, stray, has_usdt_>>

\* SIGKILL wakes a stopped process; it reports no stop any more.
Kill(force_) ==
    IF force_ THEN sigkill' = TRUE /\ stop' = "no" /\ UNCHANGED sigterm
              ELSE sigterm' = TRUE /\ UNCHANGED <<sigkill, stop>>

\* Somebody else signals the child.
OtherSignal ==
    /\ Alive /\ next_ext < MaxExt
    /\ next_ext' = next_ext + 1
    /\ \E f \in BOOLEAN : Kill(f)
    /\ UNCHANGED <<pc, to, force, parent, child, msg, pdeathsig, traced, traceexec,
                   status, next_eintr, stray, has_usdt_>>
-----------------------------------------------------------------------------
(***************************************************************************)
(* waitpid and ptrace.                                                     *)
(***************************************************************************)
Stopped  == traced /\ stop # "no" /\ Alive
NewStop  == Stopped /\ stop \in DOMAIN Report
\* A blocking waitpid returns.
Waitable == child \in {"zombie", "reaped"} \/ NewStop

\* ChildProc::check_wstatus: only an exit or a death by signal counts.
check_wstatus_StopSignal ==
    IF child = "zombie"
    THEN /\ state_' = "DIED"
         /\ exit_code_' = CASE status = "exit0" -> 0 [] status = "exit1" -> 1
                            [] OTHER -> exit_code_
         /\ term_signal_' = CASE status = "SIGTERM" -> 15 [] status = "SIGKILL" -> 9
                              [] OTHER -> term_signal_
    ELSE term_signal_' = 15 /\ UNCHANGED <<state_, exit_code_>>
check_wstatus_NoSignal ==
    /\ state_' = (IF child = "zombie" THEN "DIED" ELSE state_)
    /\ exit_code_' = IF child # "zombie" THEN exit_code_
                     ELSE CASE status = "exit0" -> 0 [] status = "exit1" -> 1
                            [] OTHER -> exit_code_
    /\ UNCHANGED term_signal_
check_wstatus ==
    IF child = "zombie"
    THEN /\ state_' = "DIED"
         /\ exit_code_' = CASE status = "exit0" -> 0 [] status = "exit1" -> 1
                            [] OTHER -> exit_code_
         /\ term_signal_' = CASE status = "SIGTERM" -> 15 [] status = "SIGKILL" -> 9
                              [] OTHER -> term_signal_
    ELSE UNCHANGED parent

\* What waitpid consumes: the corpse, or the report of a stop.
Collect == /\ child' = IF child = "zombie" THEN "reaped" ELSE child
           /\ stop'  = IF NewStop THEN Report[stop] ELSE stop

\* ChildProc::check_child, which repeats waitpid while it is interrupted.
check_child(block) ==
    \/ child = "reaped"                       \* ECHILD: marked as dead
       /\ state_' = "DIED" /\ UNCHANGED <<exit_code_, term_signal_, child, stop>>
    \/ (child = "zombie" \/ NewStop) /\ check_wstatus /\ Collect
    \/ ~block /\ ~Waitable /\ UNCHANGED <<parent, child, stop>>

Detach == IF Stopped THEN traced' = FALSE /\ stop' = "no"
                     ELSE UNCHANGED <<traced, stop>>
-----------------------------------------------------------------------------
(***************************************************************************)
(* The parent.                                                             *)
(***************************************************************************)
Construct ==
    /\ pc = "new"
    /\ child' = "start" /\ state_' = "FORKED"
    /\ pc' = IF has_usdt_ THEN "setup" ELSE "attach"
    /\ UNCHANGED <<to, force, exit_code_, term_signal_, msg, pdeathsig, traced,
                   traceexec, stop, sigterm, sigkill, status, counts, stray, has_usdt_>>

\* run(): is_alive() first, then the message.  It is called with pause = TRUE
\* before the probes are attached or with FALSE after it.
RunIsAlive ==
    /\ pc \in {"setup", "go"}
    /\ check_child(FALSE)
    /\ pc' = IF state_' = "DIED" THEN "finish" ELSE IF pc = "setup" THEN "setup_go" ELSE "go_go"
    /\ UNCHANGED <<to, force, msg, pdeathsig, traced, traceexec, sigterm, sigkill,
                   status, counts, stray, has_usdt_>>

RunWrite ==
    /\ pc \in {"setup_go", "go_go"}
    /\ \/ /\ pc = "setup_go"
          /\ msg' = "ptrace" /\ state_' = "PTRACE_PAUSE" /\ pc' = "w1"
          /\ UNCHANGED <<to, force>>
       \/ /\ pc = "go_go"
          /\ msg' = "go" /\ state_' = "RUNNING" /\ pc' = "poll"
          /\ UNCHANGED <<to, force>>
       \/ /\ pc' = "t_check" /\ to' = "finish" /\ force' = TRUE     \* write failed
          /\ UNCHANGED <<msg, state_>>
    /\ UNCHANGED <<exit_code_, term_signal_, child, pdeathsig, traced, traceexec, stop,
                   sigterm, sigkill, status, counts, stray, has_usdt_>>

\* The first waitpid of run(TRUE).  When a signal interrupts it the code goes on
\* with an uninitialised status.
FirstWait ==
    /\ pc = "w1"
    /\ \/ /\ Waitable
          /\ pc' = IF stop = "new SIGSTOP" THEN "setopts" ELSE "finish"
          /\ Collect /\ UNCHANGED next_eintr
       \/ /\ ~Waitable /\ next_eintr < MaxEintr
          /\ next_eintr' = next_eintr + 1
          /\ pc' \in {"setopts", "finish"}
          /\ UNCHANGED <<child, stop>>
    /\ UNCHANGED <<to, force, parent, msg, pdeathsig, traced, traceexec, sigterm,
                   sigkill, status, next_ext, stray, has_usdt_>>

SetOptions ==
    /\ pc = "setopts"
    /\ IF Stopped THEN traceexec' = TRUE /\ pc' = "cont"
                  ELSE pc' = "catch" /\ UNCHANGED traceexec
    /\ UNCHANGED <<to, force, parent, child, msg, pdeathsig, traced, stop, sigterm,
                   sigkill, status, counts, stray, has_usdt_>>

Continue_Not ==
    /\ pc = "cont"
    /\ pc' = IF Stopped THEN "w2" ELSE "catch"
    /\ UNCHANGED <<to, force, parent, kernel, counts, stray, has_usdt_>>
Continue ==
    /\ pc = "cont"
    /\ IF Stopped THEN stop' = "no" /\ pc' = "w2" ELSE pc' = "catch" /\ UNCHANGED stop
    /\ UNCHANGED <<to, force, parent, child, msg, pdeathsig, traced, traceexec,
                   sigterm, sigkill, status, counts, stray, has_usdt_>>

\* The second waitpid: anything but the stop after execve is a failure.
SecondWait_AnyStop ==
    /\ pc = "w2"
    /\ Waitable
    /\ pc' = IF NewStop THEN "attach" ELSE "catch"
    /\ Collect
    /\ UNCHANGED <<to, force, parent, msg, pdeathsig, traced, traceexec, sigterm,
                   sigkill, status, counts, stray, has_usdt_>>
SecondWait ==
    /\ pc = "w2"
    /\ \/ /\ Waitable
          /\ pc' = IF stop = "new EXEC" THEN "attach" ELSE "catch"
          /\ Collect /\ UNCHANGED next_eintr
       \/ /\ ~Waitable /\ next_eintr < MaxEintr
          /\ next_eintr' = next_eintr + 1
          /\ pc' = "catch" /\ UNCHANGED <<child, stop>>
    /\ UNCHANGED <<to, force, parent, msg, pdeathsig, traced, traceexec, sigterm,
                   sigkill, status, next_ext, stray, has_usdt_>>

Catch ==
    /\ pc = "catch"
    /\ Detach
    /\ pc' = "t_check" /\ to' = "finish" /\ force' = TRUE
    /\ UNCHANGED <<parent, child, msg, pdeathsig, traceexec, sigterm, sigkill, status,
                   counts, stray, has_usdt_>>

\* The probes are attached: resume() or run(FALSE).  An exit signal meanwhile and a dry
\* run finalize the run; a probe that cannot be attached ends it as it is.
Attached ==
    /\ pc = "attach"
    /\ \/ has_usdt_ /\ Detach /\ pc' = "poll" /\ UNCHANGED <<to, force>>
       \/ ~has_usdt_ /\ pc' = "go" /\ UNCHANGED <<traced, stop, to, force>>
       \/ /\ pc' = "t_check" /\ to' = "finish" /\ force' = FALSE
          /\ UNCHANGED <<traced, stop>>
       \/ pc' = "finish" /\ UNCHANGED <<traced, stop, to, force>>
    /\ UNCHANGED <<parent, child, msg, pdeathsig, traceexec, sigterm, sigkill, status,
                   counts, stray, has_usdt_>>

\* poll_output: is_alive(), or request_finalize().
Poll ==
    /\ pc = "poll"
    /\ \/ /\ IF state_ = "DIED" THEN UNCHANGED <<parent, child, stop>>
                                ELSE check_child(FALSE)
          /\ pc' = IF state_' = "DIED" THEN "finish" ELSE "poll"
          /\ UNCHANGED <<to, force>>
       \/ /\ pc' = "t_check" /\ to' = "poll" /\ force' = FALSE
          /\ UNCHANGED <<parent, child, stop>>
    /\ UNCHANGED <<msg, pdeathsig, traced, traceexec, sigterm, sigkill, status, counts,
                   stray, has_usdt_>>

\* run() returned, by the end of polling too; ~ChildProc follows.
StopPolling ==
    /\ pc = "poll" /\ pc' = "finish"
    /\ UNCHANGED <<to, force, parent, kernel, counts, stray, has_usdt_>>

Destructor ==
    /\ pc = "finish"
    /\ IF state_ = "DIED" THEN UNCHANGED <<parent, child, stop>> ELSE check_child(FALSE)
    /\ IF state_' = "DIED"
       THEN pc' = "destroyed" /\ UNCHANGED <<to, force>>
       ELSE pc' = "t_check" /\ to' = "destroyed" /\ force' = TRUE
    /\ UNCHANGED <<msg, pdeathsig, traced, traceexec, sigterm, sigkill, status, counts,
                   stray, has_usdt_>>

\* terminate(force): make sure that the child did not terminate in the meantime.
TerminateCheck_Not ==
    /\ pc = "t_check" /\ pc' = "t_kill"
    /\ UNCHANGED <<to, force, parent, kernel, counts, stray, has_usdt_>>
TerminateCheck ==
    /\ pc = "t_check"
    /\ check_child(FALSE)
    /\ pc' = IF state_' = "DIED" THEN to ELSE "t_kill"
    /\ UNCHANGED <<to, force, msg, pdeathsig, traced, traceexec, sigterm, sigkill,
                   status, counts, stray, has_usdt_>>

\* kill(), and PTRACE_DETACH of a paused child.
TerminateKill ==
    /\ pc = "t_kill" /\ pc' = "t_wait"
    /\ stray' = (stray \/ child = "reaped")
    /\ IF force
       THEN /\ sigkill' = TRUE /\ stop' = "no"
            /\ UNCHANGED <<sigterm, traced>>
       ELSE /\ sigterm' = TRUE /\ UNCHANGED sigkill
            /\ IF state_ = "PTRACE_PAUSE" THEN Detach ELSE UNCHANGED <<traced, stop>>
    /\ UNCHANGED <<to, force, parent, child, msg, pdeathsig, traceexec, status, counts,
                   has_usdt_>>

WaitBlocks_Not == FALSE
WaitBlocks == force

TerminateWait ==
    /\ pc = "t_wait"
    /\ check_child(WaitBlocks)
    /\ pc' = to
    /\ UNCHANGED <<to, force, msg, pdeathsig, traced, traceexec, sigterm, sigkill,
                   status, counts, stray, has_usdt_>>

\* bpftrace itself is killed: the kernel ends the ptrace relation and sends the
\* signal the child asked for, if it has asked for it by now.
Crash ==
    /\ MayCrash /\ pc \notin {"new", "destroyed", "crashed", "orphaned"}
    /\ pc' = IF child = "start" THEN "orphaned" ELSE "crashed"
    /\ sigterm' = (sigterm \/ pdeathsig)
    /\ traced' = FALSE /\ stop' = "no"
    /\ UNCHANGED <<to, force, parent, child, msg, pdeathsig, traceexec, sigkill, status,
                   counts, stray, has_usdt_>>

Ended == pc \in {"destroyed", "crashed", "orphaned"} /\ UNCHANGED vars

Parent == \/ Construct \/ RunIsAlive \/ RunWrite \/ FirstWait \/ SetOptions \/ Continue
          \/ SecondWait \/ Catch \/ Attached \/ Poll \/ Destructor
          \/ TerminateCheck \/ TerminateKill \/ TerminateWait
Child  == \/ ChildPrctl \/ ChildRead \/ ChildReadFails \/ ChildTraceme \/ ChildStop
          \/ ChildExec \/ CommandExits \/ TakeSigterm \/ TakeSigkill

Next == Parent \/ StopPolling \/ Child \/ OtherSignal \/ Crash \/ Ended

Spec == Init /\ [][Next]_vars
\* Both processes are scheduled and the kernel delivers signals; no signal has to
\* interrupt a waitpid, and the command of the user may run for ever.
FairSpec == /\ Spec /\ WF_vars(Parent /\ UNCHANGED next_eintr)
            /\ WF_vars(ChildPrctl) /\ WF_vars(ChildRead) /\ WF_vars(ChildTraceme)
            /\ WF_vars(ChildStop) /\ WF_vars(ChildExec)
            /\ WF_vars(TakeSigterm) /\ WF_vars(TakeSigkill)
-----------------------------------------------------------------------------
(***************************************************************************)
(* Properties.                                                             *)
(***************************************************************************)
\* terminate() never signals a pid that has been reaped, and so may belong to
\* another process by now.
KillsOnlyItsChild == ~stray

\* The object says that the child died only when the child is dead and reaped.
DiedMeansReaped == state_ = "DIED" => child = "reaped"

\* Exit code and termination signal are those of the child, and never both set.
StatusTruthful ==
    /\ exit_code_ # -1 => child = "reaped" /\ status = (IF exit_code_ = 0 THEN "exit0" ELSE "exit1")
    /\ term_signal_ # -1 => child = "reaped" /\ status = (IF term_signal_ = 9 THEN "SIGKILL" ELSE "SIGTERM")

\* The destructor leaves no child behind, neither running nor as a zombie.
NothingLeftBehind == pc = "destroyed" => child = "reaped"

\* When run(TRUE) has returned the child is paused just after execve, unless it
\* was killed since.
PausedAfterExec ==
    (has_usdt_ /\ pc = "attach") => \/ child = "running" /\ stop = "EXEC" /\ traced
                                  \/ sigkill

\* Without a paused start, an object that says that the child died knows how: no
\* waitpid collects the status and forgets it.
DeathExplained ==
    (~has_usdt_ /\ state_ = "DIED") => (exit_code_ # -1 \/ term_signal_ # -1)

\* What the object reports of its child is true and, without a paused start, complete
\* (check_wstatus, and the waitpid of check_child, run and terminate).
StatusReported == StatusTruthful /\ DeathExplained

\* run(TRUE) returns whatever happens to the child, unless PTRACE_TRACEME failed and
\* the child has stopped itself without a tracer; so does the destructor.
CallsReturn ==
    /\ (pc \in {"setup", "w1", "w2"})
           ~> (\/ pc \in {"attach", "destroyed", "poll", "finish", "crashed", "orphaned"}
               \/ stop # "no" /\ ~traced)
    /\ (pc = "finish") ~> (pc \in {"destroyed", "crashed", "orphaned"})

\* "Receive SIGTERM if parent dies": a child that waits for its message when
\* bpftrace is killed does not wait for ever (one that has not yet reached its
\* prctl does: nobody signals it).
WaitingChildDies ==
    (pc = "crashed" /\ child = "reading" /\ msg = "none") ~> ~Alive

\* Whoever waits, bpftrace for the child or the child for bpftrace, does not wait for
\* ever (run, terminate, the prctl and the read of childfn).
NobodyHangs == CallsReturn /\ WaitingChildDies
==============================================================================
