--------------------------- MODULE CommandRuntime ---------------------------
(***************************************************************************)
(* Commands run by a bounded pool of threads for one operation             *)
(* (command_runtime.py, run_ordered and ProductionCommandRuntime.run), the *)
(* operation's cancellation latch, and the process groups to be stopped.   *)
(* Each task runs one command; a command is a shell and a descendant that  *)
(* holds its pipes.                                                        *)
(***************************************************************************)
EXTENDS Naturals, Sequences, FiniteSets

CONSTANTS
  N,            \* number of tasks of a call of run_ordered
  Concurrency,  \* PLANNING_COMMAND_CONCURRENCY
  Isolated,     \* tasks whose command has a process group of its own
  Stubborn,     \* tasks whose processes ignore SIGINT
  Endless,      \* tasks whose processes do not exit unless they are stopped
  Interrupted,  \* points of the caller at which the user presses Ctrl-C
  Cancels       \* whether another thread may cancel the operation

Task == 1..N
Points == {"consuming", "accepting", "deferring", "draining", "ended"}

PoolAssumption ==
  /\ N \in Nat \ {0} /\ Concurrency \in Nat \ {0}
  /\ Isolated \subseteq Task /\ Stubborn \subseteq Task /\ Endless \subseteq Task
  /\ Interrupted \subseteq Points /\ Cancels \in BOOLEAN

VARIABLES
  cancelled,  \* the latch of the CommandOperation
  task,       \* where a task is, see Stage
  proc,       \* the live processes of a task's command
  caller,     \* where the caller of run_ordered is
  next,       \* the task whose result it waits for
  raised      \* what run_ordered raises: none, failed, cancelled, signal or closed

vars == <<cancelled, task, proc, caller, next, raised>>

Outcome == {"ok", "failed", "cancelled", "signal"}
InFlight == {"starting", "spawning", "running", "draining", "stopping"}
Stage == {"queued", "dropped"} \cup InFlight \cup Outcome

TypeOK ==
  /\ cancelled \in BOOLEAN
  /\ task \in [Task -> Stage]
  /\ proc \in [Task -> SUBSET {"leader", "child"}]
  /\ caller \in Points
  /\ next \in 1..(N + 1)
  /\ raised \in {"none", "closed"} \cup Outcome

\* with one worker the caller runs each task itself when it is asked for its result
Workers == IF N < Concurrency THEN N ELSE Concurrency
Inline  == Workers <= 1

Flying == {t \in Task : task[t] \in InFlight}
Queued == {t \in Task : task[t] = "queued"}

-----------------------------------------------------------------------------
(* A command                                                               *)

Become(t, stage) == task' = [task EXCEPT ![t] = stage]
Unmoved == UNCHANGED <<caller, next, raised>>

Take(t) ==
  /\ t \in Queued /\ \A u \in Queued : t <= u
  /\ IF Inline THEN caller = "consuming" /\ next = t ELSE Cardinality(Flying) < Workers
  /\ Become(t, "starting")
  /\ Unmoved /\ UNCHANGED <<cancelled, proc>>

Check(t) ==
  /\ task[t] = "starting"
  /\ Become(t, IF cancelled THEN "cancelled" ELSE "spawning")
  /\ Unmoved /\ UNCHANGED <<cancelled, proc>>

\* the latch may be set between the check and this step
Spawn(t) ==
  /\ task[t] = "spawning"
  /\ Become(t, "running")
  /\ proc' = [proc EXCEPT ![t] = {"leader", "child"}]
  /\ Unmoved /\ UNCHANGED cancelled

Exit(t) ==
  /\ t \notin Endless
  /\ \E p \in proc[t] : proc' = [proc EXCEPT ![t] = @ \ {p}]
  /\ Unmoved /\ UNCHANGED <<cancelled, task>>

\* a shell may exit while a descendant holds the pipes
Poll(t) ==
  /\ task[t] = "running" /\ ~cancelled
  /\ "leader" \notin proc[t]
  /\ Become(t, "draining")
  /\ Unmoved /\ UNCHANGED <<cancelled, proc>>

\* exit code 130 is raised as KeyboardInterrupt by the task
Drain(t) ==
  /\ task[t] = "draining" /\ ~cancelled
  /\ proc[t] = {}
  /\ \E outcome \in {"ok", "failed", "signal"} : Become(t, outcome)
  /\ Unmoved /\ UNCHANGED <<cancelled, proc>>

Signalled(t) == IF t \in Isolated THEN {"leader", "child"} ELSE {"leader"}

\* SIGINT to the group, or to the command alone if the group is the terminal's
Stop(t) ==
  /\ task[t] \in {"running", "draining"} /\ cancelled
  /\ Become(t, "stopping")
  /\ proc' = [proc EXCEPT ![t] = IF t \in Stubborn THEN @ ELSE @ \ Signalled(t)]
  /\ Unmoved /\ UNCHANGED cancelled

\* SIGKILL after the grace period, also when the leader has exited
TrustsLeader(t) ==                                                                \* mutant
  /\ task[t] = "stopping"
  /\ Become(t, "cancelled")
  /\ proc' = [proc EXCEPT ![t] = IF "leader" \in @ THEN @ \ Signalled(t) ELSE @]
  /\ Unmoved /\ UNCHANGED cancelled
KillsNothing(t) ==                                                                \* mutant
  /\ task[t] = "stopping" /\ proc[t] = {}
  /\ Become(t, "cancelled")
  /\ Unmoved /\ UNCHANGED <<cancelled, proc>>
Kill(t) ==
  /\ task[t] = "stopping"
  /\ Become(t, "cancelled")
  /\ proc' = [proc EXCEPT ![t] = @ \ Signalled(t)]
  /\ Unmoved /\ UNCHANGED cancelled

-----------------------------------------------------------------------------
(* The caller                                                              *)

\* results are yielded in task order, whatever ends first
Consume ==
  /\ caller = "consuming" /\ next <= N
  /\ task[next] \in Outcome
  /\ IF task[next] = "ok"
     THEN next' = next + 1 /\ UNCHANGED <<caller, raised>>
     ELSE /\ caller' = IF task[next] = "signal" THEN "accepting" ELSE "deferring"
          /\ raised' = IF raised = "none" THEN task[next] ELSE raised
          /\ UNCHANGED next
  /\ UNCHANGED <<cancelled, task, proc>>

Complete ==
  /\ caller = "consuming" /\ next > N
  /\ caller' = "deferring"
  /\ UNCHANGED <<cancelled, task, proc, next, raised>>

\* the consumer of the results closes the iterator
Close ==
  /\ caller = "consuming" /\ ~(Inline /\ Flying # {})
  /\ caller' = "deferring" /\ raised' = "closed"
  /\ UNCHANGED <<cancelled, task, proc, next>>

\* KeyboardInterrupt: only the latch stops the siblings, whose groups get no SIGINT
Accept ==
  /\ caller = "accepting" /\ caller' = "deferring"
  /\ cancelled' = TRUE
  /\ UNCHANGED <<task, proc, next, raised>>

\* executor.shutdown(cancel_futures=True), with SIGINT ignored from here on
Defer ==
  /\ caller = "deferring" /\ caller' = "draining"
  /\ task' = [t \in Task |-> IF task[t] = "queued" THEN "dropped" ELSE task[t]]
  /\ UNCHANGED <<cancelled, proc, next, raised>>

End ==
  /\ caller = "draining" /\ Flying = {} /\ Queued = {}
  /\ caller' = "ended"
  /\ UNCHANGED <<cancelled, task, proc, next, raised>>

\* Ctrl-C reaches the main thread alone.  While it drains, it is ignored; between the
\* decision to clean up and that point it ends the call at once.
Interrupt ==
  /\ caller \in Interrupted \ {"draining", "ended"}
  /\ CASE caller = "consuming" /\ Inline /\ Flying # {} ->
            cancelled' = TRUE /\ raised' = "signal" /\ UNCHANGED caller
       [] caller = "consuming" /\ ~(Inline /\ Flying # {}) ->
            caller' = "accepting" /\ raised' = "signal" /\ UNCHANGED cancelled
       [] caller = "accepting" -> caller' = "deferring" /\ UNCHANGED <<cancelled, raised>>
       [] caller = "deferring" -> caller' = "ended" /\ raised' = "signal" /\ UNCHANGED cancelled
  /\ UNCHANGED <<task, proc, next>>

RequestCancel ==
  /\ Cancels /\ caller # "ended"
  /\ cancelled' = TRUE
  /\ UNCHANGED <<task, proc, caller, next, raised>>

-----------------------------------------------------------------------------

Init ==
  /\ cancelled = FALSE
  /\ task = [t \in Task |-> "queued"]
  /\ proc = [t \in Task |-> {}]
  /\ caller = "consuming" /\ next = 1 /\ raised = "none"

Thread(t) == Take(t) \/ Check(t) \/ Spawn(t) \/ Poll(t) \/ Drain(t) \/ Stop(t) \/ Kill(t)
Caller == Consume \/ Complete \/ Accept \/ Defer \/ End

Next ==
  \/ \E t \in Task : Thread(t) \/ Exit(t)
  \/ Caller
  \/ Close \/ Interrupt \/ RequestCancel

Spec == Init /\ [][Next]_vars

-----------------------------------------------------------------------------

\* When the call has ended, in whatever way, none of its commands runs any more: no
\* process of an isolated command, and no shell of another (docs: "Only the shared latch
\* stops the running siblings").
NothingRunsAfterwards ==
  caller = "ended" => Flying = {} /\ \A t \in Task : proc[t] \cap Signalled(t) = {}

\* The failure raised is the first in task order, and every result before it was yielded,
\* whichever task failed first.
FirstFailureIsRaised ==
  /\ raised \in {"failed", "cancelled"} => task[next] = raised
  /\ \A t \in Task : t < next => task[t] = "ok"

\* A task that has not passed its check of the latch when the operation is cancelled never comes
\* to spawn a command: it waits, is dropped or ends cancelled, and the latch stays set.
Unstarted == {"queued", "starting", "dropped", "cancelled"}
CancelledNeverStart ==
  [][cancelled => cancelled' /\ \A t \in Task : task[t] \in Unstarted => task'[t] \in Unstarted]_vars

\* Once the call cleans up no task that has not started ever starts.
Cleaning == caller \in {"draining", "ended"}
QueueIsDropped ==
  [][Cleaning => \A t \in Task : task[t] = "queued" => task'[t] \in {"queued", "dropped"}]_vars

\* threads go on, the consumer asks for the next result
FairSpec == Spec /\ WF_vars(Caller) /\ \A t \in Task : WF_vars(Thread(t))

=============================================================================
