--------------------------- MODULE ChildProcProofs ---------------------------
(***************************************************************************)
(* The safety of ChildProc for every script, every number of foreign       *)
(* signals and interrupted calls, with or without a crash of bpftrace.     *)
(***************************************************************************)
EXTENDS ChildProc, TLAPS

\* Only the parent reaps, and it does so only in waitpid: what check_child has
\* just seen alive is still there, dead or alive, when it is signalled.
NotReaped == pc \in {"t_kill", "t_wait"} => child # "reaped"

\* The blocking wait follows a SIGKILL, after which no stop is reported.
KillIsFinal == (pc = "t_wait" /\ force) => sigkill /\ stop = "no"

\* The destructor forces.
ForcedAtEnd == (pc \in {"t_check", "t_kill", "t_wait"} /\ to = "destroyed") => force

\* There is a child from the constructor on.
Forked == child = "none" <=> pc = "new"

\* The stop at execve is one of the command.
ExecStop == stop \in {"new EXEC", "EXEC"} => child = "running"

Inv == /\ TypeOK
       /\ KillsOnlyItsChild /\ DiedMeansReaped /\ StatusTruthful
       /\ NothingLeftBehind /\ PausedAfterExec
       /\ NotReaped /\ KillIsFinal /\ ForcedAtEnd /\ Forked /\ ExecStop

-----------------------------------------------------------------------------
\* What a parent knows after is_alive() or check_child(): either it knew before
\* that the child is dead, or waitpid told it.
CheckedOrDead ==
    /\ state_' \in States /\ exit_code_' \in {-1, 0, 1} /\ term_signal_' \in {-1, 9, 15}
    /\ child' \in PreExec \cup {"none", "running", "zombie", "reaped"}
    /\ stop' \in Stops
    /\ state_' = "DIED" => child' = "reaped"
    /\ child' = child \/ (child = "zombie" /\ child' = "reaped")
    /\ stop = "no" => stop' = "no"
    /\ stop = "EXEC" => stop' = "EXEC"
    /\ stop' \in {"new EXEC", "EXEC"} => stop \in {"new EXEC", "EXEC"}

\* waitpid as check_child calls it: the object says DIED exactly when the child is
\* reaped, and what it recorded is how the child died.
LEMMA CheckChild ==
    ASSUME TypeOK, DiedMeansReaped, StatusTruthful, NEW block \in BOOLEAN,
           check_child(block), UNCHANGED status
    PROVE  /\ CheckedOrDead /\ StatusTruthful'
           /\ state_' # "DIED" => child' # "reaped"
           /\ (block /\ stop = "no") => child' = "reaped"
<1> USE DEF TypeOK, ParentOK, ChildOK
<1>1. CASE child = "reaped" /\ state_' = "DIED"
           /\ UNCHANGED <<exit_code_, term_signal_, child, stop>>
  <2>1. CheckedOrDead
      BY <1>1 DEF CheckedOrDead, States
  <2> QED BY <1>1, <2>1 DEF StatusTruthful
<1>2. CASE child = "zombie" /\ check_wstatus /\ Collect
  <2>1. child' = "reaped" /\ stop' = stop /\ state_' = "DIED"
      BY <1>2 DEF Collect, NewStop, Stopped, Alive, check_wstatus
  <2>2. exit_code_ = -1 /\ term_signal_ = -1
      BY <1>2 DEF StatusTruthful
  <2>3. /\ exit_code_' \in {-1, 0, 1} /\ term_signal_' \in {-1, 9, 15}
        /\ exit_code_' # -1 => status = (IF exit_code_' = 0 THEN "exit0" ELSE "exit1")
        /\ term_signal_' # -1
              => status = (IF term_signal_' = 9 THEN "SIGKILL" ELSE "SIGTERM")
      BY <1>2, <2>2 DEF check_wstatus, Statuses
  <2>4. CheckedOrDead
      BY <1>2, <2>1, <2>3 DEF CheckedOrDead, States
  <2>5. StatusTruthful'
      BY <2>1, <2>3 DEF StatusTruthful
  <2> QED BY <2>1, <2>4, <2>5
<1>3. CASE NewStop /\ check_wstatus /\ Collect
  <2>1. child # "zombie" /\ child # "reaped" /\ stop # "no" /\ stop # "EXEC"
      BY <1>3 DEF NewStop, Stopped, Alive, Report
  <2>2. UNCHANGED <<state_, exit_code_, term_signal_, child>>
      BY <1>3, <2>1 DEF check_wstatus, Collect, parent
  <2>3. stop' \in Stops /\ (stop' = "EXEC" => stop = "new EXEC") /\ stop' # "new EXEC"
      BY <1>3 DEF Collect, NewStop, Report, Stops
  <2>4. CheckedOrDead
      BY <2>1, <2>2, <2>3 DEF CheckedOrDead, DiedMeansReaped
  <2> QED BY <2>1, <2>2, <2>4 DEF StatusTruthful
<1>4. CASE ~block /\ ~Waitable /\ UNCHANGED <<parent, child, stop>>
  <2>1. CheckedOrDead
      BY <1>4 DEF CheckedOrDead, Waitable, DiedMeansReaped, parent
  <2> QED BY <1>4, <2>1 DEF StatusTruthful, parent, Waitable
<1> QED BY <1>1, <1>2, <1>3, <1>4 DEF check_child

\* Every step of bpftrace, of the child and of the environment keeps Inv.
LEMMA InvStep == Inv /\ [Next]_vars => Inv'
<1> SUFFICES ASSUME Inv, [Next]_vars PROVE Inv'
    OBVIOUS
<1> USE DEF Inv, TypeOK
<1>1. CASE Construct
  <2>1. ParentOK'
      BY <1>1 DEF Construct, ParentOK, PCs, States, parent
  <2>2. ChildOK'
      BY <1>1 DEF Construct, ChildOK, PreExec, Statuses, Stops
  <2>3. DiedMeansReaped' /\ StatusTruthful'
      BY <1>1 DEF Construct, DiedMeansReaped, StatusTruthful, Forked, parent
  <2>4. NothingLeftBehind' /\ NotReaped' /\ KillIsFinal' /\ ForcedAtEnd' /\ Forked'
      BY <1>1 DEF Construct, NothingLeftBehind, NotReaped, KillIsFinal, ForcedAtEnd,
         Forked, ParentOK, DiedMeansReaped, parent
  <2>5. PausedAfterExec' /\ ExecStop'
      BY <1>1 DEF Construct, PausedAfterExec, ExecStop, FlagsOK, Forked, parent
  <2>6. FlagsOK' /\ CountsOK' /\ KillsOnlyItsChild'
      BY <1>1 DEF Construct, FlagsOK, CountsOK, KillsOnlyItsChild, parent, counts
  <2> QED BY <2>1, <2>2, <2>3, <2>4, <2>5, <2>6
<1>2. CASE RunIsAlive
  <2>1. CheckedOrDead /\ StatusTruthful'
      BY <1>2, CheckChild DEF RunIsAlive
  <2>2. ParentOK'
      BY <1>2, <2>1 DEF RunIsAlive, ParentOK, PCs, States, parent, CheckedOrDead
  <2>3. ChildOK'
      BY <1>2, <2>1 DEF RunIsAlive, ChildOK, PreExec, Statuses, Stops, CheckedOrDead
  <2>4. DiedMeansReaped'
      BY <1>2, <2>1 DEF RunIsAlive, DiedMeansReaped, CheckedOrDead, parent
  <2>5. NothingLeftBehind' /\ NotReaped' /\ KillIsFinal' /\ ForcedAtEnd' /\ Forked'
      BY <1>2, <2>1 DEF RunIsAlive, NothingLeftBehind, NotReaped, KillIsFinal,
         ForcedAtEnd, Forked, ParentOK, DiedMeansReaped, CheckedOrDead, parent
  <2>6. PausedAfterExec' /\ ExecStop'
      BY <1>2, <2>1 DEF RunIsAlive, PausedAfterExec, ExecStop, FlagsOK,
         CheckedOrDead, parent
  <2>7. FlagsOK' /\ CountsOK' /\ KillsOnlyItsChild'
      BY <1>2 DEF RunIsAlive, FlagsOK, CountsOK, KillsOnlyItsChild, parent, counts
  <2> QED BY <2>1, <2>2, <2>3, <2>4, <2>5, <2>6, <2>7
<1>3. CASE RunWrite
  <2>1. ParentOK'
      BY <1>3 DEF RunWrite, ParentOK, PCs, States, parent
  <2>2. ChildOK'
      BY <1>3 DEF RunWrite, ChildOK, PreExec, Statuses, Stops
  <2>3. DiedMeansReaped'
      BY <1>3 DEF RunWrite, DiedMeansReaped, Forked, parent
  <2>4. NothingLeftBehind' /\ NotReaped' /\ KillIsFinal' /\ ForcedAtEnd' /\ Forked'
      BY <1>3 DEF RunWrite, NothingLeftBehind, NotReaped, KillIsFinal, ForcedAtEnd,
         Forked, ParentOK, DiedMeansReaped, parent
  <2>5. PausedAfterExec'
      BY <1>3 DEF RunWrite, PausedAfterExec, ExecStop, FlagsOK, parent
  <2>6. FlagsOK' /\ CountsOK' /\ KillsOnlyItsChild' /\ StatusTruthful' /\ ExecStop'
      BY <1>3 DEF RunWrite, FlagsOK, CountsOK, KillsOnlyItsChild, StatusTruthful,
         ExecStop, parent, counts
  <2> QED BY <2>1, <2>2, <2>3, <2>4, <2>5, <2>6
<1>4. CASE FirstWait
  <2>1. ParentOK'
      BY <1>4 DEF FirstWait, Waitable, Collect, NewStop, Stopped, Report, Alive,
         ParentOK, PCs, States, parent
  <2>2. ChildOK'
      BY <1>4 DEF FirstWait, Waitable, Collect, NewStop, Stopped, Report, Alive,
         ChildOK, PreExec, Statuses, Stops
  <2>3. CountsOK'
    <3>1. next_ext' = next_ext /\ (next_eintr' = next_eintr
                                   \/ (next_eintr < MaxEintr /\ next_eintr' = next_eintr + 1))
        BY <1>4 DEF FirstWait
    <3>2. MaxEintr \in Nat
        BY ChildAssumption
    <3> QED BY <3>1, <3>2 DEF CountsOK
  <2>4. DiedMeansReaped' /\ StatusTruthful'
      BY <1>4 DEF FirstWait, Waitable, Collect, NewStop, Stopped, Report, Alive,
         DiedMeansReaped, StatusTruthful, Forked, parent
  <2>5. NothingLeftBehind' /\ NotReaped' /\ KillIsFinal' /\ ForcedAtEnd' /\ Forked'
      BY <1>4 DEF FirstWait, Waitable, Collect, NewStop, Stopped, Report, Alive,
         NothingLeftBehind, NotReaped, KillIsFinal, ForcedAtEnd, Forked, ParentOK,
         DiedMeansReaped, parent
  <2>6. PausedAfterExec' /\ ExecStop'
      BY <1>4 DEF FirstWait, Waitable, Collect, NewStop, Stopped, Report, Alive,
         PausedAfterExec, ExecStop, FlagsOK, parent
  <2>7. FlagsOK' /\ KillsOnlyItsChild'
      BY <1>4 DEF FirstWait, FlagsOK, KillsOnlyItsChild, parent, counts
  <2> QED BY <2>1, <2>2, <2>3, <2>4, <2>5, <2>6, <2>7
<1>5. CASE SetOptions
  <2>1. ParentOK'
      BY <1>5 DEF SetOptions, Stopped, Alive, ParentOK, PCs, States, parent
  <2>2. FlagsOK'
      BY <1>5 DEF SetOptions, Stopped, Alive, FlagsOK
  <2>3. NothingLeftBehind' /\ NotReaped' /\ KillIsFinal' /\ ForcedAtEnd' /\ Forked'
      BY <1>5 DEF SetOptions, Stopped, Alive, NothingLeftBehind, NotReaped,
         KillIsFinal, ForcedAtEnd, Forked, ParentOK, DiedMeansReaped, parent
  <2>4. PausedAfterExec'
      BY <1>5 DEF SetOptions, Stopped, Alive, PausedAfterExec, ExecStop, FlagsOK,
         parent
  <2>5. ChildOK' /\ CountsOK' /\ KillsOnlyItsChild' /\ DiedMeansReaped' /\
     StatusTruthful' /\ ExecStop'
      BY <1>5 DEF SetOptions, ChildOK, CountsOK, KillsOnlyItsChild, DiedMeansReaped,
         StatusTruthful, ExecStop, parent, counts
  <2> QED BY <2>1, <2>2, <2>3, <2>4, <2>5
<1>6. CASE Continue
  <2>1. ParentOK'
      BY <1>6 DEF Continue, Stopped, Alive, ParentOK, PCs, States, parent
  <2>2. ChildOK'
      BY <1>6 DEF Continue, Stopped, Alive, ChildOK, PreExec, Statuses, Stops
  <2>3. NothingLeftBehind' /\ NotReaped' /\ KillIsFinal' /\ ForcedAtEnd' /\ Forked'
      BY <1>6 DEF Continue, Stopped, Alive, NothingLeftBehind, NotReaped,
         KillIsFinal, ForcedAtEnd, Forked, ParentOK, DiedMeansReaped, parent
  <2>4. PausedAfterExec' /\ ExecStop'
      BY <1>6 DEF Continue, Stopped, Alive, PausedAfterExec, ExecStop, FlagsOK,
         parent
  <2>5. FlagsOK' /\ CountsOK' /\ KillsOnlyItsChild' /\ DiedMeansReaped' /\
     StatusTruthful'
      BY <1>6 DEF Continue, FlagsOK, CountsOK, KillsOnlyItsChild, DiedMeansReaped,
         StatusTruthful, parent, counts
  <2> QED BY <2>1, <2>2, <2>3, <2>4, <2>5
<1>7. CASE SecondWait
  <2>1. ParentOK'
      BY <1>7 DEF SecondWait, Waitable, Collect, NewStop, Stopped, Report, Alive,
         ParentOK, PCs, States, parent
  <2>2. ChildOK'
      BY <1>7 DEF SecondWait, Waitable, Collect, NewStop, Stopped, Report, Alive,
         ChildOK, PreExec, Statuses, Stops
  <2>3. CountsOK'
    <3>1. next_ext' = next_ext /\ (next_eintr' = next_eintr
                                   \/ (next_eintr < MaxEintr /\ next_eintr' = next_eintr + 1))
        BY <1>7 DEF SecondWait
    <3>2. MaxEintr \in Nat
        BY ChildAssumption
    <3> QED BY <3>1, <3>2 DEF CountsOK
  <2>4. DiedMeansReaped' /\ StatusTruthful'
      BY <1>7 DEF SecondWait, Waitable, Collect, NewStop, Stopped, Report, Alive,
         DiedMeansReaped, StatusTruthful, Forked, parent
  <2>5. NothingLeftBehind' /\ NotReaped' /\ KillIsFinal' /\ ForcedAtEnd' /\ Forked'
      BY <1>7 DEF SecondWait, Waitable, Collect, NewStop, Stopped, Report, Alive,
         NothingLeftBehind, NotReaped, KillIsFinal, ForcedAtEnd, Forked, ParentOK,
         DiedMeansReaped, parent
  <2>6. PausedAfterExec' /\ ExecStop'
      BY <1>7 DEF SecondWait, Waitable, Collect, NewStop, Stopped, Report, Alive,
         PausedAfterExec, ExecStop, FlagsOK, parent
  <2>7. FlagsOK' /\ KillsOnlyItsChild'
      BY <1>7 DEF SecondWait, FlagsOK, KillsOnlyItsChild, parent, counts
  <2> QED BY <2>1, <2>2, <2>3, <2>4, <2>5, <2>6, <2>7
<1>8. CASE Catch
  <2>1. ParentOK'
      BY <1>8 DEF Catch, Detach, Stopped, Alive, ParentOK, PCs, States, parent
  <2>2. ChildOK'
      BY <1>8 DEF Catch, Detach, Stopped, Alive, ChildOK, PreExec, Statuses, Stops
  <2>3. FlagsOK'
      BY <1>8 DEF Catch, Detach, Stopped, Alive, FlagsOK
  <2>4. NothingLeftBehind' /\ NotReaped' /\ KillIsFinal' /\ ForcedAtEnd' /\ Forked'
      BY <1>8 DEF Catch, Detach, Stopped, Alive, NothingLeftBehind, NotReaped,
         KillIsFinal, ForcedAtEnd, Forked, ParentOK, DiedMeansReaped, parent
  <2>5. PausedAfterExec' /\ ExecStop'
      BY <1>8 DEF Catch, Detach, Stopped, Alive, PausedAfterExec, ExecStop, FlagsOK,
         parent
  <2>6. CountsOK' /\ KillsOnlyItsChild' /\ DiedMeansReaped' /\ StatusTruthful'
      BY <1>8 DEF Catch, CountsOK, KillsOnlyItsChild, DiedMeansReaped,
         StatusTruthful, parent, counts
  <2> QED BY <2>1, <2>2, <2>3, <2>4, <2>5, <2>6
<1>9. CASE Attached
  <2>1. ParentOK'
      BY <1>9 DEF Attached, Detach, Stopped, Alive, ParentOK, PCs, States, parent
  <2>2. ChildOK'
      BY <1>9 DEF Attached, Detach, Stopped, Alive, ChildOK, PreExec, Statuses, Stops
  <2>3. FlagsOK'
      BY <1>9 DEF Attached, Detach, Stopped, Alive, FlagsOK
  <2>4. NothingLeftBehind' /\ NotReaped' /\ KillIsFinal' /\ ForcedAtEnd' /\ Forked'
      BY <1>9 DEF Attached, Detach, Stopped, Alive, NothingLeftBehind, NotReaped,
         KillIsFinal, ForcedAtEnd, Forked, ParentOK, DiedMeansReaped, parent
  <2>5. PausedAfterExec' /\ ExecStop'
      BY <1>9 DEF Attached, Detach, Stopped, Alive, PausedAfterExec, ExecStop,
         FlagsOK, parent
  <2>6. CountsOK' /\ KillsOnlyItsChild' /\ DiedMeansReaped' /\ StatusTruthful'
      BY <1>9 DEF Attached, CountsOK, KillsOnlyItsChild, DiedMeansReaped,
         StatusTruthful, parent, counts
  <2> QED BY <2>1, <2>2, <2>3, <2>4, <2>5, <2>6
<1>10. CASE Poll
  <2>1. CheckedOrDead /\ StatusTruthful'
    <3>1. CASE UNCHANGED <<parent, child, stop>>
      <4>1. CheckedOrDead
          BY <1>10, <3>1 DEF CheckedOrDead, parent, DiedMeansReaped, ParentOK, ChildOK
      <4> QED BY <1>10, <3>1, <4>1 DEF StatusTruthful, parent, Poll
    <3>2. CASE check_child(FALSE)
        BY <1>10, <3>2, CheckChild DEF Poll
    <3> QED BY <1>10, <3>1, <3>2 DEF Poll
  <2>2. ParentOK'
      BY <1>10, <2>1 DEF Poll, ParentOK, PCs, States, parent, CheckedOrDead
  <2>3. ChildOK'
      BY <1>10, <2>1 DEF Poll, ChildOK, PreExec, Statuses, Stops, CheckedOrDead
  <2>4. DiedMeansReaped'
      BY <1>10, <2>1 DEF Poll, DiedMeansReaped, CheckedOrDead, parent
  <2>5. NothingLeftBehind' /\ NotReaped' /\ KillIsFinal' /\ ForcedAtEnd' /\ Forked'
      BY <1>10, <2>1 DEF Poll, NothingLeftBehind, NotReaped, KillIsFinal,
         ForcedAtEnd, Forked, ParentOK, DiedMeansReaped, CheckedOrDead, parent
  <2>6. PausedAfterExec' /\ ExecStop'
      BY <1>10, <2>1 DEF Poll, PausedAfterExec, ExecStop, FlagsOK, CheckedOrDead,
         parent
  <2>7. FlagsOK' /\ CountsOK' /\ KillsOnlyItsChild'
      BY <1>10 DEF Poll, FlagsOK, CountsOK, KillsOnlyItsChild, parent, counts
  <2> QED BY <2>1, <2>2, <2>3, <2>4, <2>5, <2>6, <2>7
<1>11. CASE Destructor
  <2>1. CheckedOrDead /\ StatusTruthful'
    <3>1. CASE UNCHANGED <<parent, child, stop>>
      <4>1. CheckedOrDead
          BY <1>11, <3>1 DEF CheckedOrDead, parent, DiedMeansReaped, ParentOK, ChildOK
      <4> QED BY <1>11, <3>1, <4>1 DEF StatusTruthful, parent, Destructor
    <3>2. CASE check_child(FALSE)
        BY <1>11, <3>2, CheckChild DEF Destructor
    <3> QED BY <1>11, <3>1, <3>2 DEF Destructor
  <2>2. ParentOK'
      BY <1>11, <2>1 DEF Destructor, ParentOK, PCs, States, parent, CheckedOrDead
  <2>3. ChildOK'
      BY <1>11, <2>1 DEF Destructor, ChildOK, PreExec, Statuses, Stops, CheckedOrDead
  <2>4. DiedMeansReaped'
      BY <1>11, <2>1 DEF Destructor, DiedMeansReaped, CheckedOrDead, parent
  <2>5. NothingLeftBehind' /\ NotReaped' /\ KillIsFinal' /\ ForcedAtEnd' /\ Forked'
      BY <1>11, <2>1 DEF Destructor, NothingLeftBehind, NotReaped, KillIsFinal,
         ForcedAtEnd, Forked, ParentOK, DiedMeansReaped, CheckedOrDead, parent
  <2>6. PausedAfterExec' /\ ExecStop'
      BY <1>11, <2>1 DEF Destructor, PausedAfterExec, ExecStop, FlagsOK,
         CheckedOrDead, parent
  <2>7. FlagsOK' /\ CountsOK' /\ KillsOnlyItsChild'
      BY <1>11 DEF Destructor, FlagsOK, CountsOK, KillsOnlyItsChild, parent, counts
  <2> QED BY <2>1, <2>2, <2>3, <2>4, <2>5, <2>6, <2>7
<1>12. CASE TerminateCheck
  <2>1. /\ CheckedOrDead /\ StatusTruthful'
        /\ state_' # "DIED" => child' # "reaped"
      BY <1>12, CheckChild DEF TerminateCheck
  <2>2. ParentOK'
      BY <1>12, <2>1 DEF TerminateCheck, ParentOK, PCs, States, parent, CheckedOrDead
  <2>3. ChildOK'
      BY <1>12, <2>1 DEF TerminateCheck, ChildOK, PreExec, Statuses, Stops,
         CheckedOrDead
  <2>4. DiedMeansReaped'
      BY <1>12, <2>1 DEF TerminateCheck, DiedMeansReaped, CheckedOrDead, parent
  <2>5. NothingLeftBehind' /\ NotReaped' /\ KillIsFinal' /\ ForcedAtEnd' /\ Forked'
      BY <1>12, <2>1 DEF TerminateCheck, NothingLeftBehind, NotReaped, KillIsFinal,
         ForcedAtEnd, Forked, ParentOK, DiedMeansReaped, CheckedOrDead, parent
  <2>6. PausedAfterExec' /\ ExecStop'
      BY <1>12, <2>1 DEF TerminateCheck, PausedAfterExec, ExecStop, FlagsOK,
         ParentOK, CheckedOrDead, parent
  <2>7. FlagsOK' /\ CountsOK' /\ KillsOnlyItsChild'
      BY <1>12 DEF TerminateCheck, FlagsOK, CountsOK, KillsOnlyItsChild, parent,
         counts
  <2> QED BY <2>1, <2>2, <2>3, <2>4, <2>5, <2>6, <2>7
<1>13. CASE TerminateKill
  <2>1. ParentOK'
      BY <1>13 DEF TerminateKill, Detach, Stopped, Alive, ParentOK, PCs, States,
         parent
  <2>2. ChildOK'
      BY <1>13 DEF TerminateKill, Detach, Stopped, Alive, ChildOK, PreExec, Statuses,
         Stops
  <2>3. FlagsOK'
      BY <1>13 DEF TerminateKill, Detach, Stopped, Alive, FlagsOK
  <2>4. KillsOnlyItsChild'
      BY <1>13 DEF TerminateKill, Detach, Stopped, Alive, KillsOnlyItsChild,
         NotReaped, parent
  <2>5. NothingLeftBehind' /\ NotReaped' /\ KillIsFinal' /\ ForcedAtEnd' /\ Forked'
      BY <1>13 DEF TerminateKill, Detach, Stopped, Alive, NothingLeftBehind,
         NotReaped, KillIsFinal, ForcedAtEnd, Forked, ParentOK, DiedMeansReaped,
         parent
  <2>6. PausedAfterExec' /\ ExecStop'
      BY <1>13 DEF TerminateKill, Detach, Stopped, Alive, PausedAfterExec, ExecStop,
         FlagsOK, parent
  <2>7. CountsOK' /\ DiedMeansReaped' /\ StatusTruthful'
      BY <1>13 DEF TerminateKill, CountsOK, DiedMeansReaped, StatusTruthful, parent,
         counts
  <2> QED BY <2>1, <2>2, <2>3, <2>4, <2>5, <2>6, <2>7
<1>14. CASE TerminateWait
  <2>1. /\ CheckedOrDead /\ StatusTruthful'
        /\ (force /\ stop = "no") => child' = "reaped"
    <3>1. force \in BOOLEAN /\ check_child(force) /\ UNCHANGED status
        BY <1>14 DEF TerminateWait, WaitBlocks, ParentOK
    <3> QED BY <3>1, CheckChild
  <2>2. ParentOK'
      BY <1>14, <2>1 DEF TerminateWait, WaitBlocks, ParentOK, PCs, States, parent,
         CheckedOrDead
  <2>3. ChildOK'
      BY <1>14, <2>1 DEF TerminateWait, WaitBlocks, ChildOK, PreExec, Statuses,
         Stops, CheckedOrDead
  <2>4. DiedMeansReaped'
      BY <1>14, <2>1 DEF TerminateWait, DiedMeansReaped, CheckedOrDead, parent
  <2>5. NothingLeftBehind' /\ NotReaped' /\ KillIsFinal' /\ ForcedAtEnd' /\ Forked'
      BY <1>14, <2>1 DEF TerminateWait, WaitBlocks, NothingLeftBehind, NotReaped,
         KillIsFinal, ForcedAtEnd, Forked, ParentOK, DiedMeansReaped, CheckedOrDead,
         parent
  <2>6. PausedAfterExec' /\ ExecStop'
      BY <1>14, <2>1 DEF TerminateWait, WaitBlocks, PausedAfterExec, ExecStop,
         FlagsOK, ParentOK, CheckedOrDead, parent
  <2>7. FlagsOK' /\ CountsOK' /\ KillsOnlyItsChild'
      BY <1>14 DEF TerminateWait, FlagsOK, CountsOK, KillsOnlyItsChild, parent,
         counts
  <2> QED BY <2>1, <2>2, <2>3, <2>4, <2>5, <2>6, <2>7
<1>15. CASE StopPolling
  <2>1. ParentOK'
      BY <1>15 DEF StopPolling, kernel, ParentOK, PCs, States, parent
  <2>2. NothingLeftBehind' /\ NotReaped' /\ KillIsFinal' /\ ForcedAtEnd' /\ Forked'
      BY <1>15 DEF StopPolling, kernel, NothingLeftBehind, NotReaped, KillIsFinal,
         ForcedAtEnd, Forked, ParentOK, DiedMeansReaped, parent
  <2>3. PausedAfterExec'
      BY <1>15 DEF StopPolling, kernel, PausedAfterExec, ExecStop, FlagsOK, parent
  <2>4. ChildOK' /\ FlagsOK' /\ CountsOK' /\ KillsOnlyItsChild' /\ DiedMeansReaped'
     /\ StatusTruthful' /\ ExecStop'
      BY <1>15 DEF StopPolling, ChildOK, FlagsOK, CountsOK, KillsOnlyItsChild,
         DiedMeansReaped, StatusTruthful, ExecStop, parent, counts, kernel
  <2> QED BY <2>1, <2>2, <2>3, <2>4
<1>16. CASE ChildPrctl
  <2>1. ChildOK'
      BY <1>16 DEF ChildPrctl, Runs, Alive, Dies, ChildOK, PreExec, Statuses, Stops
  <2>2. FlagsOK'
      BY <1>16 DEF ChildPrctl, Runs, Alive, Dies, FlagsOK
  <2>3. DiedMeansReaped' /\ StatusTruthful'
      BY <1>16 DEF ChildPrctl, Runs, Alive, Dies, DiedMeansReaped, StatusTruthful,
         Forked, parent
  <2>4. NothingLeftBehind' /\ NotReaped' /\ KillIsFinal' /\ Forked'
      BY <1>16 DEF ChildPrctl, Runs, Alive, Dies, NothingLeftBehind, NotReaped,
         KillIsFinal, ForcedAtEnd, Forked, ParentOK, DiedMeansReaped, parent
  <2>5. PausedAfterExec' /\ ExecStop'
      BY <1>16 DEF ChildPrctl, Runs, Alive, Dies, PausedAfterExec, ExecStop, FlagsOK,
         parent
  <2>6. ParentOK' /\ CountsOK' /\ KillsOnlyItsChild' /\ ForcedAtEnd'
      BY <1>16 DEF ChildPrctl, ParentOK, CountsOK, KillsOnlyItsChild, ForcedAtEnd,
         parent, counts
  <2> QED BY <2>1, <2>2, <2>3, <2>4, <2>5, <2>6
<1>17. CASE ChildRead
  <2>1. ChildOK'
      BY <1>17 DEF ChildRead, Runs, Alive, ChildOK, PreExec, Statuses, Stops
  <2>2. DiedMeansReaped' /\ StatusTruthful'
      BY <1>17 DEF ChildRead, Runs, Alive, DiedMeansReaped, StatusTruthful, Forked,
         parent
  <2>3. NothingLeftBehind' /\ NotReaped' /\ Forked'
      BY <1>17 DEF ChildRead, Runs, Alive, NothingLeftBehind, NotReaped, KillIsFinal,
         ForcedAtEnd, Forked, ParentOK, DiedMeansReaped, parent
  <2>4. PausedAfterExec' /\ ExecStop'
      BY <1>17 DEF ChildRead, Runs, Alive, PausedAfterExec, ExecStop, FlagsOK, parent
  <2>5. ParentOK' /\ FlagsOK' /\ CountsOK' /\ KillsOnlyItsChild' /\ KillIsFinal' /\
     ForcedAtEnd'
      BY <1>17 DEF ChildRead, ParentOK, FlagsOK, CountsOK, KillsOnlyItsChild,
         KillIsFinal, ForcedAtEnd, parent, counts
  <2> QED BY <2>1, <2>2, <2>3, <2>4, <2>5
<1>18. CASE ChildReadFails
  <2>1. ChildOK'
      BY <1>18 DEF ChildReadFails, Runs, Alive, Dies, ChildOK, PreExec, Statuses,
         Stops
  <2>2. DiedMeansReaped' /\ StatusTruthful'
      BY <1>18 DEF ChildReadFails, Runs, Alive, Dies, DiedMeansReaped,
         StatusTruthful, Forked, parent
  <2>3. NothingLeftBehind' /\ NotReaped' /\ KillIsFinal' /\ Forked'
      BY <1>18 DEF ChildReadFails, Runs, Alive, Dies, NothingLeftBehind, NotReaped,
         KillIsFinal, ForcedAtEnd, Forked, ParentOK, DiedMeansReaped, parent
  <2>4. PausedAfterExec' /\ ExecStop'
      BY <1>18 DEF ChildReadFails, Runs, Alive, Dies, PausedAfterExec, ExecStop,
         FlagsOK, parent
  <2>5. ParentOK' /\ FlagsOK' /\ CountsOK' /\ KillsOnlyItsChild' /\ ForcedAtEnd'
      BY <1>18 DEF ChildReadFails, ParentOK, FlagsOK, CountsOK, KillsOnlyItsChild,
         ForcedAtEnd, parent, counts
  <2> QED BY <2>1, <2>2, <2>3, <2>4, <2>5
<1>19. CASE ChildTraceme
  <2>1. ChildOK'
      BY <1>19 DEF ChildTraceme, Runs, Alive, ChildOK, PreExec, Statuses, Stops
  <2>2. FlagsOK'
      BY <1>19 DEF ChildTraceme, Runs, Alive, FlagsOK
  <2>3. DiedMeansReaped' /\ StatusTruthful'
      BY <1>19 DEF ChildTraceme, Runs, Alive, DiedMeansReaped, StatusTruthful,
         Forked, parent
  <2>4. NothingLeftBehind' /\ NotReaped' /\ Forked'
      BY <1>19 DEF ChildTraceme, Runs, Alive, NothingLeftBehind, NotReaped,
         KillIsFinal, ForcedAtEnd, Forked, ParentOK, DiedMeansReaped, parent
  <2>5. PausedAfterExec' /\ ExecStop'
      BY <1>19 DEF ChildTraceme, Runs, Alive, PausedAfterExec, ExecStop, FlagsOK,
         parent
  <2>6. ParentOK' /\ CountsOK' /\ KillsOnlyItsChild' /\ KillIsFinal' /\ ForcedAtEnd'
      BY <1>19 DEF ChildTraceme, ParentOK, CountsOK, KillsOnlyItsChild, KillIsFinal,
         ForcedAtEnd, parent, counts
  <2> QED BY <2>1, <2>2, <2>3, <2>4, <2>5, <2>6
<1>20. CASE ChildStop
  <2>1. ChildOK'
      BY <1>20 DEF ChildStop, Runs, Alive, ChildOK, PreExec, Statuses, Stops
  <2>2. DiedMeansReaped' /\ StatusTruthful'
      BY <1>20 DEF ChildStop, Runs, Alive, DiedMeansReaped, StatusTruthful, Forked,
         parent
  <2>3. NothingLeftBehind' /\ NotReaped' /\ KillIsFinal' /\ Forked'
      BY <1>20 DEF ChildStop, Runs, Alive, NothingLeftBehind, NotReaped, KillIsFinal,
         ForcedAtEnd, Forked, ParentOK, DiedMeansReaped, parent
  <2>4. PausedAfterExec' /\ ExecStop'
      BY <1>20 DEF ChildStop, Runs, Alive, PausedAfterExec, ExecStop, FlagsOK, parent
  <2>5. ParentOK' /\ CountsOK' /\ KillsOnlyItsChild' /\ ForcedAtEnd'
      BY <1>20 DEF ChildStop, ParentOK, CountsOK, KillsOnlyItsChild,
         ForcedAtEnd, parent, counts
  <2>6. FlagsOK'
      BY <1>20 DEF ChildStop, FlagsOK
  <2> QED BY <2>1, <2>2, <2>3, <2>4, <2>5, <2>6
<1>21. CASE ChildExec
  <2>1. ChildOK'
      BY <1>21 DEF ChildExec, Runs, Alive, Dies, ChildOK, PreExec, Statuses, Stops
  <2>2. DiedMeansReaped' /\ StatusTruthful'
      BY <1>21 DEF ChildExec, Runs, Alive, Dies, DiedMeansReaped, StatusTruthful,
         Forked, parent
  <2>3. NothingLeftBehind' /\ NotReaped' /\ KillIsFinal' /\ Forked'
      BY <1>21 DEF ChildExec, Runs, Alive, Dies, NothingLeftBehind, NotReaped,
         KillIsFinal, ForcedAtEnd, Forked, ParentOK, DiedMeansReaped, parent
  <2>4. PausedAfterExec' /\ ExecStop'
      BY <1>21 DEF ChildExec, Runs, Alive, Dies, PausedAfterExec, ExecStop, FlagsOK,
         parent
  <2>5. ParentOK' /\ CountsOK' /\ KillsOnlyItsChild' /\ ForcedAtEnd'
      BY <1>21 DEF ChildExec, ParentOK, CountsOK, KillsOnlyItsChild,
         ForcedAtEnd, parent, counts
  <2>6. FlagsOK'
      BY <1>21 DEF ChildExec, FlagsOK
  <2> QED BY <2>1, <2>2, <2>3, <2>4, <2>5, <2>6
<1>22. CASE CommandExits
  <2>1. ChildOK'
      BY <1>22 DEF CommandExits, Runs, Alive, Dies, ChildOK, PreExec, Statuses, Stops
  <2>2. DiedMeansReaped' /\ StatusTruthful'
      BY <1>22 DEF CommandExits, Runs, Alive, Dies, DiedMeansReaped, StatusTruthful,
         Forked, parent
  <2>3. NothingLeftBehind' /\ NotReaped' /\ KillIsFinal' /\ Forked'
      BY <1>22 DEF CommandExits, Runs, Alive, Dies, NothingLeftBehind, NotReaped,
         KillIsFinal, ForcedAtEnd, Forked, ParentOK, DiedMeansReaped, parent
  <2>4. PausedAfterExec' /\ ExecStop'
      BY <1>22 DEF CommandExits, Runs, Alive, Dies, PausedAfterExec, ExecStop,
         FlagsOK, parent
  <2>5. ParentOK' /\ FlagsOK' /\ CountsOK' /\ KillsOnlyItsChild' /\ ForcedAtEnd'
      BY <1>22 DEF CommandExits, ParentOK, FlagsOK, CountsOK, KillsOnlyItsChild,
         ForcedAtEnd, parent, counts
  <2> QED BY <2>1, <2>2, <2>3, <2>4, <2>5
<1>23. CASE TakeSigterm
  <2>1. ChildOK'
      BY <1>23 DEF TakeSigterm, Runs, Alive, Dies, ChildOK, PreExec, Statuses, Stops
  <2>2. FlagsOK'
      BY <1>23 DEF TakeSigterm, Runs, Alive, Dies, FlagsOK
  <2>3. DiedMeansReaped' /\ StatusTruthful'
      BY <1>23 DEF TakeSigterm, Runs, Alive, Dies, DiedMeansReaped, StatusTruthful,
         Forked, parent
  <2>4. NothingLeftBehind' /\ NotReaped' /\ KillIsFinal' /\ Forked'
      BY <1>23 DEF TakeSigterm, Runs, Alive, Dies, NothingLeftBehind, NotReaped,
         KillIsFinal, ForcedAtEnd, Forked, ParentOK, DiedMeansReaped, parent
  <2>5. PausedAfterExec' /\ ExecStop'
      BY <1>23 DEF TakeSigterm, Runs, Alive, Dies, PausedAfterExec, ExecStop,
         FlagsOK, parent
  <2>6. ParentOK' /\ CountsOK' /\ KillsOnlyItsChild' /\ ForcedAtEnd'
      BY <1>23 DEF TakeSigterm, ParentOK, CountsOK, KillsOnlyItsChild, ForcedAtEnd,
         parent, counts
  <2> QED BY <2>1, <2>2, <2>3, <2>4, <2>5, <2>6
<1>24. CASE TakeSigkill
  <2>1. ChildOK'
      BY <1>24 DEF TakeSigkill, Runs, Alive, Dies, ChildOK, PreExec, Statuses, Stops
  <2>2. DiedMeansReaped' /\ StatusTruthful'
      BY <1>24 DEF TakeSigkill, Runs, Alive, Dies, DiedMeansReaped, StatusTruthful,
         Forked, parent
  <2>3. NothingLeftBehind' /\ NotReaped' /\ KillIsFinal' /\ Forked'
      BY <1>24 DEF TakeSigkill, Runs, Alive, Dies, NothingLeftBehind, NotReaped,
         KillIsFinal, ForcedAtEnd, Forked, ParentOK, DiedMeansReaped, parent
  <2>4. PausedAfterExec' /\ ExecStop'
      BY <1>24 DEF TakeSigkill, Runs, Alive, Dies, PausedAfterExec, ExecStop,
         FlagsOK, parent
  <2>5. ParentOK' /\ FlagsOK' /\ CountsOK' /\ KillsOnlyItsChild' /\ ForcedAtEnd'
      BY <1>24 DEF TakeSigkill, ParentOK, FlagsOK, CountsOK, KillsOnlyItsChild,
         ForcedAtEnd, parent, counts
  <2> QED BY <2>1, <2>2, <2>3, <2>4, <2>5
<1>25. CASE OtherSignal
  <2>1. ChildOK'
      BY <1>25 DEF OtherSignal, Alive, Kill, ChildOK, PreExec, Statuses, Stops
  <2>2. FlagsOK'
      BY <1>25 DEF OtherSignal, Alive, Kill, FlagsOK
  <2>3. CountsOK'
      BY <1>25, ChildAssumption DEF OtherSignal, Alive, Kill, CountsOK, counts
  <2>4. KillIsFinal'
      BY <1>25 DEF OtherSignal, Alive, Kill, NothingLeftBehind, NotReaped,
         KillIsFinal, ForcedAtEnd, Forked, ParentOK, DiedMeansReaped, parent
  <2>5. PausedAfterExec' /\ ExecStop'
      BY <1>25 DEF OtherSignal, Alive, Kill, PausedAfterExec, ExecStop, FlagsOK,
         parent
  <2>6. ParentOK' /\ KillsOnlyItsChild' /\ DiedMeansReaped' /\ StatusTruthful' /\
     NothingLeftBehind' /\ NotReaped' /\ ForcedAtEnd' /\ Forked'
      BY <1>25 DEF OtherSignal, ParentOK, KillsOnlyItsChild, DiedMeansReaped,
         StatusTruthful, NothingLeftBehind, NotReaped, ForcedAtEnd, Forked, parent,
         counts
  <2> QED BY <2>1, <2>2, <2>3, <2>4, <2>5, <2>6
<1>26. CASE Crash
  <2>1. ParentOK'
      BY <1>26 DEF Crash, ParentOK, PCs, States, parent
  <2>2. ChildOK'
      BY <1>26 DEF Crash, ChildOK, PreExec, Statuses, Stops
  <2>3. FlagsOK'
      BY <1>26 DEF Crash, FlagsOK
  <2>4. NothingLeftBehind' /\ NotReaped' /\ KillIsFinal' /\ ForcedAtEnd' /\ Forked'
      BY <1>26 DEF Crash, NothingLeftBehind, NotReaped, KillIsFinal, ForcedAtEnd,
         Forked, ParentOK, DiedMeansReaped, parent
  <2>5. PausedAfterExec' /\ ExecStop'
      BY <1>26 DEF Crash, PausedAfterExec, ExecStop, FlagsOK, parent
  <2>6. CountsOK' /\ KillsOnlyItsChild' /\ DiedMeansReaped' /\ StatusTruthful'
      BY <1>26 DEF Crash, CountsOK, KillsOnlyItsChild, DiedMeansReaped,
         StatusTruthful, parent, counts
  <2> QED BY <2>1, <2>2, <2>3, <2>4, <2>5, <2>6
<1>27. CASE UNCHANGED vars
  <2>1. TypeOK'
      BY <1>27 DEF vars, kernel, parent, counts, ParentOK, ChildOK, FlagsOK, CountsOK
  <2>2. KillsOnlyItsChild' /\ DiedMeansReaped' /\ StatusTruthful'
      BY <1>27 DEF vars, kernel, parent, KillsOnlyItsChild, DiedMeansReaped,
         StatusTruthful
  <2>3. /\ NothingLeftBehind' /\ NotReaped' /\ KillIsFinal' /\ ForcedAtEnd' /\ Forked'
        /\ PausedAfterExec' /\ ExecStop'
      BY <1>27 DEF vars, kernel, NothingLeftBehind, NotReaped, KillIsFinal,
         ForcedAtEnd, Forked, PausedAfterExec, ExecStop
  <2> QED BY <2>1, <2>2, <2>3
<1> QED
    BY <1>1, <1>2, <1>3, <1>4, <1>5, <1>6, <1>7, <1>8, <1>9, <1>10, <1>11, <1>12,
       <1>13, <1>14, <1>15, <1>16, <1>17, <1>18, <1>19, <1>20, <1>21, <1>22, <1>23,
       <1>24, <1>25, <1>26, <1>27 DEF Next, Parent, Child, Ended

\* The conjunction that the theorems below project holds in every state.
THEOREM Invariance == Spec => []Inv
<1>1. Init => Inv
  <2> SUFFICES ASSUME Init PROVE Inv
      OBVIOUS
  <2>1. ParentOK /\ ChildOK /\ FlagsOK
      BY DEF Init, ParentOK, ChildOK, FlagsOK, PCs, States, PreExec, Statuses, Stops
  <2>2. CountsOK
    <3>1. MaxExt \in Nat /\ MaxEintr \in Nat
        BY ChildAssumption
    <3>2. next_ext = 0 /\ next_eintr = 0
        BY DEF Init
    <3> QED BY <3>1, <3>2 DEF CountsOK
  <2>3. KillsOnlyItsChild /\ DiedMeansReaped /\ StatusTruthful /\ NothingLeftBehind
      BY DEF Init, KillsOnlyItsChild, DiedMeansReaped, StatusTruthful, NothingLeftBehind
  <2>4. PausedAfterExec /\ NotReaped /\ KillIsFinal /\ ForcedAtEnd /\ Forked /\ ExecStop
      BY DEF Init, PausedAfterExec, NotReaped, KillIsFinal, ForcedAtEnd, Forked, ExecStop
  <2> QED
      BY <2>1, <2>2, <2>3, <2>4 DEF Inv, TypeOK
<1> QED
    BY <1>1, InvStep, PTL DEF Spec

\* The variables of ChildProc and of the kernel keep their types.
THEOREM TypeCorrect == Spec => []TypeOK
    BY Invariance, PTL DEF Inv

\* No interleaving makes terminate() signal a pid that waitpid has released.
THEOREM NeverKillsAStranger == Spec => []KillsOnlyItsChild
    BY Invariance, PTL DEF Inv

\* The destructor returns only when the child is reaped.
THEOREM LeavesNothingBehind == Spec => []NothingLeftBehind
    BY Invariance, PTL DEF Inv

\* died(), exit_code() and term_signal() never say what is not so.
THEOREM ReportsTheTruth == Spec => [](DiedMeansReaped /\ StatusTruthful)
    BY Invariance, PTL DEF Inv

\* run(TRUE) returns with the child at its execve, or being killed.
THEOREM PausesAtExec == Spec => []PausedAfterExec
    BY Invariance, PTL DEF Inv
-----------------------------------------------------------------------------
\* The methods of a paused start run only in a run with USDT probes.
SetupOnly == pc \in {"setup", "setup_go", "w1", "setopts", "cont", "w2", "catch"} => has_usdt_

\* A corpse has a status, which check_wstatus turns into a code or a signal.
CorpseHasStatus == child = "zombie" => status # "none"

\* In a run without USDT probes only check_child reaps, and it notes the status.
Explained == (~has_usdt_ /\ child = "reaped") => (exit_code_ # -1 \/ term_signal_ # -1)

Known == SetupOnly /\ CorpseHasStatus /\ Explained

\* check_child keeps what is known of a dead child and learns how a corpse died.
LEMMA CheckChildExplains ==
    ASSUME TypeOK, CorpseHasStatus, Explained, NEW block \in BOOLEAN,
           check_child(block), UNCHANGED <<status, has_usdt_>>
    PROVE  CorpseHasStatus' /\ Explained'
<1>1. CASE child = "reaped" /\ UNCHANGED <<exit_code_, term_signal_, child, stop>>
    BY <1>1 DEF CorpseHasStatus, Explained
<1>2. CASE child = "zombie" /\ check_wstatus /\ Collect
  <2>1. child' = "reaped"
      BY <1>2 DEF Collect
  <2>2. exit_code_' # -1 \/ term_signal_' # -1
      BY <1>2 DEF check_wstatus, CorpseHasStatus, TypeOK, ChildOK, Statuses
  <2> QED BY <2>1, <2>2 DEF CorpseHasStatus, Explained
<1>3. CASE NewStop /\ check_wstatus /\ Collect
  <2>1. child # "zombie" /\ child # "reaped"
      BY <1>3 DEF NewStop, Stopped, Alive
  <2>2. child' = child
      BY <1>3, <2>1 DEF Collect
  <2> QED BY <2>1, <2>2 DEF CorpseHasStatus, Explained
<1>4. CASE UNCHANGED <<parent, child, stop>>
    BY <1>4 DEF CorpseHasStatus, Explained, parent
<1> QED BY <1>1, <1>2, <1>3, <1>4 DEF check_child

\* Every step keeps Known.
LEMMA KnownStep == Inv /\ Known /\ [Next]_vars => Known'
<1> SUFFICES ASSUME Inv, Known, [Next]_vars PROVE Known'
    OBVIOUS
<1> USE DEF Known
<1>1. CASE Construct
  <2>1. SetupOnly'
      BY <1>1 DEF Construct, SetupOnly, Inv, TypeOK, ParentOK
  <2>2. CorpseHasStatus' /\ Explained'
      BY <1>1 DEF Construct, CorpseHasStatus, Explained, parent, Inv, Forked
  <2> QED BY <2>1, <2>2
<1>2. CASE RunIsAlive
  <2>1. SetupOnly'
      BY <1>2 DEF RunIsAlive, SetupOnly, Inv, TypeOK, ParentOK
  <2>2. CorpseHasStatus' /\ Explained'
      BY <1>2, CheckChildExplains DEF RunIsAlive, Inv
  <2> QED BY <2>1, <2>2
<1>3. CASE RunWrite
  <2>1. SetupOnly'
      BY <1>3 DEF RunWrite, SetupOnly, Inv, TypeOK, ParentOK
  <2>2. CorpseHasStatus' /\ Explained'
      BY <1>3 DEF RunWrite, parent, CorpseHasStatus, Explained, parent, Inv, Forked
  <2> QED BY <2>1, <2>2
<1>4. CASE FirstWait
  <2>1. has_usdt_ /\ has_usdt_' = has_usdt_
      BY <1>4 DEF FirstWait, SetupOnly
  <2>2. CorpseHasStatus'
      BY <1>4 DEF FirstWait, Collect, CorpseHasStatus
  <2> QED BY <2>1, <2>2 DEF SetupOnly, Explained
<1>5. CASE SetOptions
  <2>1. SetupOnly'
      BY <1>5 DEF SetOptions, SetupOnly, Inv, TypeOK, ParentOK
  <2>2. CorpseHasStatus' /\ Explained'
      BY <1>5 DEF SetOptions, Stopped, CorpseHasStatus, Explained, parent, Inv, Forked
  <2> QED BY <2>1, <2>2
<1>6. CASE Continue
  <2>1. SetupOnly'
      BY <1>6 DEF Continue, SetupOnly, Inv, TypeOK, ParentOK
  <2>2. CorpseHasStatus' /\ Explained'
      BY <1>6 DEF Continue, Stopped, CorpseHasStatus, Explained, parent, Inv, Forked
  <2> QED BY <2>1, <2>2
<1>7. CASE SecondWait
  <2>1. has_usdt_ /\ has_usdt_' = has_usdt_
      BY <1>7 DEF SecondWait, SetupOnly
  <2>2. CorpseHasStatus'
      BY <1>7 DEF SecondWait, Collect, CorpseHasStatus
  <2> QED BY <2>1, <2>2 DEF SetupOnly, Explained
<1>8. CASE Catch
  <2>1. SetupOnly'
      BY <1>8 DEF Catch, SetupOnly, Inv, TypeOK, ParentOK
  <2>2. CorpseHasStatus' /\ Explained'
      BY <1>8 DEF Catch, Detach, CorpseHasStatus, Explained, parent, Inv, Forked
  <2> QED BY <2>1, <2>2
<1>9. CASE Attached
  <2>1. SetupOnly'
      BY <1>9 DEF Attached, SetupOnly, Inv, TypeOK, ParentOK
  <2>2. CorpseHasStatus' /\ Explained'
      BY <1>9 DEF Attached, Detach, CorpseHasStatus, Explained, parent, Inv, Forked
  <2> QED BY <2>1, <2>2
<1>10. CASE Poll
  <2>1. SetupOnly'
      BY <1>10 DEF Poll, SetupOnly, Inv, TypeOK, ParentOK
  <2>2. UNCHANGED <<status, has_usdt_>>
      BY <1>10 DEF Poll
  <2>3. CASE check_child(FALSE)
      BY <2>1, <2>2, <2>3, CheckChildExplains DEF Inv
  <2>4. CASE UNCHANGED <<parent, child, stop>>
      BY <2>1, <2>2, <2>4 DEF CorpseHasStatus, Explained, parent
  <2> QED BY <1>10, <2>3, <2>4 DEF Poll
<1>11. CASE Destructor
  <2>1. SetupOnly'
      BY <1>11 DEF Destructor, SetupOnly, Inv, TypeOK, ParentOK
  <2>2. UNCHANGED <<status, has_usdt_>>
      BY <1>11 DEF Destructor
  <2>3. CASE check_child(FALSE)
      BY <2>1, <2>2, <2>3, CheckChildExplains DEF Inv
  <2>4. CASE UNCHANGED <<parent, child, stop>>
      BY <2>1, <2>2, <2>4 DEF CorpseHasStatus, Explained, parent
  <2> QED BY <1>11, <2>3, <2>4 DEF Destructor
<1>12. CASE TerminateCheck
  <2>1. SetupOnly'
      BY <1>12 DEF TerminateCheck, SetupOnly, Inv, TypeOK, ParentOK
  <2>2. CorpseHasStatus' /\ Explained'
      BY <1>12, CheckChildExplains DEF TerminateCheck, Inv
  <2> QED BY <2>1, <2>2
<1>13. CASE TerminateKill
  <2>1. SetupOnly'
      BY <1>13 DEF TerminateKill, SetupOnly, Inv, TypeOK, ParentOK
  <2>2. CorpseHasStatus' /\ Explained'
      BY <1>13 DEF TerminateKill, Detach, CorpseHasStatus, Explained, parent, Inv, Forked
  <2> QED BY <2>1, <2>2
<1>14. CASE TerminateWait
  <2>1. SetupOnly'
      BY <1>14 DEF TerminateWait, SetupOnly, Inv, TypeOK, ParentOK
  <2>2. WaitBlocks \in BOOLEAN
      BY DEF WaitBlocks, Inv, TypeOK, ParentOK
  <2>3. CorpseHasStatus' /\ Explained'
      BY <1>14, <2>2, CheckChildExplains DEF TerminateWait, Inv
  <2> QED BY <2>1, <2>3
<1>15. CASE StopPolling
  <2>1. SetupOnly'
      BY <1>15 DEF StopPolling, SetupOnly, Inv, TypeOK, ParentOK
  <2>2. CorpseHasStatus' /\ Explained'
      BY <1>15 DEF StopPolling, kernel, CorpseHasStatus, Explained, parent, Inv, Forked
  <2> QED BY <2>1, <2>2
<1>16. CASE ChildPrctl
  <2>1. SetupOnly'
      BY <1>16 DEF ChildPrctl, SetupOnly, Inv, TypeOK, ParentOK
  <2>2. CorpseHasStatus' /\ Explained'
      BY <1>16 DEF ChildPrctl, Runs, Alive, Dies, CorpseHasStatus, Explained, parent,
         Inv, Forked
  <2> QED BY <2>1, <2>2
<1>17. CASE ChildRead
  <2>1. SetupOnly'
      BY <1>17 DEF ChildRead, SetupOnly, Inv, TypeOK, ParentOK
  <2>2. CorpseHasStatus' /\ Explained'
      BY <1>17 DEF ChildRead, Runs, Alive, CorpseHasStatus, Explained, parent, Inv, Forked
  <2> QED BY <2>1, <2>2
<1>18. CASE ChildReadFails
  <2>1. SetupOnly'
      BY <1>18 DEF ChildReadFails, SetupOnly, Inv, TypeOK, ParentOK
  <2>2. CorpseHasStatus' /\ Explained'
      BY <1>18 DEF ChildReadFails, Runs, Alive, Dies, CorpseHasStatus, Explained, parent,
         Inv, Forked
  <2> QED BY <2>1, <2>2
<1>19. CASE ChildTraceme
  <2>1. SetupOnly'
      BY <1>19 DEF ChildTraceme, SetupOnly, Inv, TypeOK, ParentOK
  <2>2. CorpseHasStatus' /\ Explained'
      BY <1>19 DEF ChildTraceme, Runs, Alive, CorpseHasStatus, Explained, parent, Inv,
         Forked
  <2> QED BY <2>1, <2>2
<1>20. CASE ChildStop
  <2>1. SetupOnly'
      BY <1>20 DEF ChildStop, SetupOnly, Inv, TypeOK, ParentOK
  <2>2. CorpseHasStatus' /\ Explained'
      BY <1>20 DEF ChildStop, Runs, Alive, CorpseHasStatus, Explained, parent, Inv, Forked
  <2> QED BY <2>1, <2>2
<1>21. CASE ChildExec
  <2>1. SetupOnly'
      BY <1>21 DEF ChildExec, SetupOnly, Inv, TypeOK, ParentOK
  <2>2. CorpseHasStatus' /\ Explained'
      BY <1>21 DEF ChildExec, Runs, Alive, Dies, CorpseHasStatus, Explained, parent, Inv,
         Forked
  <2> QED BY <2>1, <2>2
<1>22. CASE CommandExits
  <2>1. SetupOnly'
      BY <1>22 DEF CommandExits, SetupOnly, Inv, TypeOK, ParentOK
  <2>2. CorpseHasStatus' /\ Explained'
      BY <1>22 DEF CommandExits, Runs, Alive, Dies, CorpseHasStatus, Explained, parent,
         Inv, Forked
  <2> QED BY <2>1, <2>2
<1>23. CASE TakeSigterm
  <2>1. SetupOnly'
      BY <1>23 DEF TakeSigterm, SetupOnly, Inv, TypeOK, ParentOK
  <2>2. CorpseHasStatus' /\ Explained'
      BY <1>23 DEF TakeSigterm, Runs, Alive, Dies, CorpseHasStatus, Explained, parent,
         Inv, Forked
  <2> QED BY <2>1, <2>2
<1>24. CASE TakeSigkill
  <2>1. SetupOnly'
      BY <1>24 DEF TakeSigkill, SetupOnly, Inv, TypeOK, ParentOK
  <2>2. CorpseHasStatus' /\ Explained'
      BY <1>24 DEF TakeSigkill, Alive, Dies, CorpseHasStatus, Explained, parent, Inv, Forked
  <2> QED BY <2>1, <2>2
<1>25. CASE OtherSignal
  <2>1. SetupOnly'
      BY <1>25 DEF OtherSignal, SetupOnly, Inv, TypeOK, ParentOK
  <2>2. CorpseHasStatus' /\ Explained'
      BY <1>25 DEF OtherSignal, Alive, Kill, CorpseHasStatus, Explained, parent, Inv, Forked
  <2> QED BY <2>1, <2>2
<1>26. CASE Crash
  <2>1. SetupOnly'
      BY <1>26 DEF Crash, SetupOnly, Inv, TypeOK, ParentOK
  <2>2. CorpseHasStatus' /\ Explained'
      BY <1>26 DEF Crash, CorpseHasStatus, Explained, parent, Inv, Forked
  <2> QED BY <2>1, <2>2
<1>27. CASE UNCHANGED vars
    BY <1>27 DEF vars, parent, kernel, SetupOnly, CorpseHasStatus, Explained
<1> QED
    BY <1>1, <1>2, <1>3, <1>4, <1>5, <1>6, <1>7, <1>8, <1>9, <1>10, <1>11, <1>12,
       <1>13, <1>14, <1>15, <1>16, <1>17, <1>18, <1>19, <1>20, <1>21, <1>22,
       <1>23, <1>24, <1>25, <1>26, <1>27 DEF Next, Parent, Child, Ended

\* Without a paused start, the death of the child is never known without its cause.
THEOREM DeathsAreExplained == Spec => []DeathExplained
<1>1. Init => Known
    BY DEF Init, Known, SetupOnly, CorpseHasStatus, Explained
<1>2. Inv /\ Known => DeathExplained
    BY DEF Inv, DiedMeansReaped, Known, Explained, DeathExplained
<1> QED
    BY <1>1, <1>2, KnownStep, Invariance, PTL DEF Spec

\* What the object reports of its child is true and, without a paused start, complete.
THEOREM StatusIsReported == Spec => []StatusReported
    BY ReportsTheTruth, DeathsAreExplained, PTL DEF StatusReported
=============================================================================
