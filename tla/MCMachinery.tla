----------------------------- MODULE MCMachinery -----------------------------
(***************************************************************************)
(* What must end: a pull session, and the machinery under every operation, *)
(* which is the pool of commands, the broker of a command's children, the  *)
(* accesses that need sudo, the atomic replacement of files, and the       *)
(* transforms, the commands that render and capture structured files.      *)
(* These parts share no state here, so one run checks them side by side:   *)
(* the initial state says which of them moves.  The type invariant of a    *)
(* part is checked with its properties.                                    *)
(***************************************************************************)
EXTENDS Naturals, Sequences, TLC

CONSTANTS c1, c2, reading, writing, changing, leasing, a, b, d, s, t, w, Preimage, None,
  Doc, Wish, JsonText, YamlText, Value, Reading, Failed

VARIABLES
  part,
  row, candidate, authorized, edited, captures, renders, stopped, dropped, attended, work, before, \* a session
  cancelled, task, proc, caller, next, raised,                             \* a pool
  client, handler, reply, shut, queue, serving, stop, closer, draining, latch, \* a broker
  at, effect, ticket, acquired, keepalive, depth,                          \* accesses
  pc, todo, absent, file, temp,                                            \* writers
  format, request, live, repo                                              \* transforms

\* a pulled row with an Additional Source, whose providers fail
Pull   == INSTANCE SyncSession WITH cancelled <- stopped, Row <- {a}, Source <- {s},
            Refs <- a :> {s}, Candidate <- {w}, Policy <- a :> "pull-only",
            Ancestry <- {}, Linked <- {}, Patched <- {}, Idempotent <- {}, Text <- {t},
            Conflicted <- {}, Quoting <- {}, Operation <- "pull", Excludable <- {}, Editable <- {a},
            Failing <- {a}, Cancels <- {"session"}, Nothing <- None
Pool   == INSTANCE CommandRuntime WITH N <- 3, Concurrency <- 2, Isolated <- {1, 2},
            Stubborn <- {1, 3}, Endless <- {2}, Cancels <- TRUE,
            Interrupted <- {"consuming", "accepting", "draining"}
Inline == INSTANCE CommandRuntime WITH N <- 3, Concurrency <- 1, Isolated <- {1},
            Stubborn <- {1, 2}, Endless <- {2}, Cancels <- TRUE,
            Interrupted <- {"consuming", "draining"}
Broker == INSTANCE ElevationBroker WITH Client <- {c1, c2}, Backlog <- 2
Access == INSTANCE PrivilegedAccess WITH Call <- {reading, writing, changing, leasing},
            Protected <- {reading, writing}, Unattended <- FALSE, Sessions <- 2,
            Kind <- reading :> "read" @@ writing :> "write" @@ changing :> "change" @@ leasing :> "lease"
Files  == INSTANCE AtomicFiles WITH Proc <- {a, b, d}, Private <- {b}, Foreign <- {},
            Pid <- [p \in {a, b, d} |-> IF p = b THEN 2 ELSE 1] \* d has the pid of a again
Transforms == INSTANCE StructuredFiles WITH Request <- Wish, Nothing <- None

\* documents and selectors of every format for the transforms; they rest with absent files
Documents == INSTANCE MCDocuments
AllDocs == Documents!MCDoc
AllRequests == Documents!MCRequest
AllValues == Documents!MCValue
AllReadings == Documents!MCReading
JsonNames == Documents!Same
YamlNames == Documents!AllAlike

ASSUME Pool!PoolAssumption /\ Inline!PoolAssumption
ASSUME Broker!BrokerAssumption /\ Access!AccessAssumption /\ Files!FilesAssumption

session == <<row, candidate, authorized, edited, captures, renders, stopped, dropped, attended, work, before>>
pool   == <<cancelled, task, proc, caller, next, raised>>
broker == <<client, handler, reply, shut, queue, serving, stop, closer, draining, latch>>
access == <<at, effect, ticket, acquired, keepalive, depth>>
files  == <<pc, todo, absent, file, temp>>
structured == <<format, request, live, repo>>
vars   == <<part, session, pool, broker, access, files, structured>>

Init ==
  /\ part \in {"pool", "inline", "broker", "access", "files", "session", "transforms"}
  /\ Pool!Init /\ Broker!Init /\ Access!Init /\ Files!Init
  /\ ticket => part = "access"
  /\ IF part = "session"
     THEN Pull!Init
     ELSE /\ work = Pull!Idle /\ stopped = FALSE /\ dropped = FALSE /\ attended = FALSE
          /\ row = None /\ candidate = None /\ authorized = {} /\ edited = None
          /\ captures = None /\ renders = None /\ before = None
  /\ IF part = "transforms"
     THEN Transforms!Init
     ELSE /\ format = "json" /\ request = (CHOOSE r \in AllRequests["json"] : TRUE)
          /\ live = Transforms!Absent /\ repo = live

Runs(p) == part = p /\ UNCHANGED part

Next ==
  \/ Runs("session") /\ Pull!Next /\ UNCHANGED <<pool, broker, access, files, structured>>
  \/ Runs("pool") /\ Pool!Next /\ UNCHANGED <<session, broker, access, files, structured>>
  \/ Runs("inline") /\ Inline!Next /\ UNCHANGED <<session, broker, access, files, structured>>
  \/ Runs("broker") /\ Broker!Next /\ UNCHANGED <<session, pool, access, files, structured>>
  \/ Runs("access") /\ Access!Next /\ UNCHANGED <<session, pool, broker, files, structured>>
  \/ Runs("files") /\ Files!Next /\ UNCHANGED <<session, pool, broker, access, structured>>
  \/ Runs("transforms") /\ Transforms!Next /\ UNCHANGED <<session, pool, broker, access, files>>

\* Threads go on and the consumer asks for the next result, the worker of a Deck goes on with its
\* dispatch and every command it runs returns, the broker serves and closes; users and clients
\* need not. In a behavior one part moves, so one actor of each part can share a fairness condition.
Worker ==
  \/ Runs("session") /\ Pull!Work /\ UNCHANGED <<pool, broker, access, files, structured>>
  \/ Runs("pool") /\ Pool!Caller /\ UNCHANGED <<session, broker, access, files, structured>>
  \/ Runs("inline") /\ Inline!Caller /\ UNCHANGED <<session, broker, access, files, structured>>
  \/ Runs("broker") /\ Broker!Serve /\ UNCHANGED <<session, pool, access, files, structured>>
Thread(i) ==
  \/ Runs("pool") /\ Pool!Thread(i) /\ UNCHANGED <<session, broker, access, files, structured>>
  \/ Runs("inline") /\ Inline!Thread(i) /\ UNCHANGED <<session, broker, access, files, structured>>
  \/ i = 3 /\ Runs("broker") /\ Broker!CloseOn /\ UNCHANGED <<session, pool, access, files, structured>>
  \/ /\ i < 3 /\ Runs("broker") /\ Broker!Handle(<<c1, c2>>[i])
     /\ UNCHANGED <<session, pool, access, files, structured>>

FairSpec == Init /\ [][Next]_vars /\ WF_vars(Worker) /\ \A i \in 1..3 : WF_vars(Thread(i))

-----------------------------------------------------------------------------

\* When a call of run_ordered has ended, however, none of its commands runs, it has dropped what
\* had not started, and it raises the first failure in task order, whichever came first. Nothing
\* that has not passed its check of the latch starts once the latch is set (CommandRuntime).
FailureEndsThePool ==
  /\ [](part = "pool" => Pool!TypeOK /\ Pool!NothingRunsAfterwards /\ Pool!FirstFailureIsRaised)
  /\ [](part = "inline" => Inline!TypeOK /\ Inline!NothingRunsAfterwards /\ Inline!FirstFailureIsRaised)
  /\ Pool!QueueIsDropped /\ Pool!CancelledNeverStart

\* A cancelled or interrupted call ends, also when its commands never would (CommandRuntime);
\* closing a broker ends even if the user never answers and no client leaves, and no client
\* waits for an answer that nobody will give (ElevationBroker); every dispatch of a session ends
\* or waits for the user's Editor (SyncSession).
EveryCallComesBack ==
  /\ cancelled ~> caller = "ended"
  /\ closer = "stopping" ~> closer = "closed"
  /\ Broker!NoClientIsForgotten
  /\ Pull!EveryDispatchEnds

\* One password prompt at a time; none opens once close() has looked for one, and none is left on
\* the terminal when it has returned (ElevationBroker).  No two threads ask for a password at a
\* time, a session asks once, and its lease neither expires in it nor outlives it (PrivilegedAccess).
PromptsAreOrderly ==
  /\ Broker!NoPromptAfterSnapshot /\ Access!AskedOnce
  /\ [](part = "broker" => Broker!TypeOK /\ Broker!OnePrompt /\ Broker!NoLatePrompt)
  /\ [](part = "access" => Access!TypeOK /\ Access!NoStrayKeepalive /\ Access!LeaseIsGood)

\* No sweep removes a temporary that its creator still needs, only killed processes leave one, and
\* readers find the old or a new file under its mode (AtomicFiles).
NeededTempsStay == Files!TypeOK /\ Files!NeededTempsStay /\ Files!GarbageIsOfTheKilled /\ Files!ReadersSeeWhole

\* A Render of what Capture took from a live file gives that file back: a second pull finds
\* nothing to do (StructuredFiles).
PullIsQuiet == Transforms!PullIsQuiet

\* An edit of the repository inside the synced region survives a push and the pull after it
\* (StructuredFiles).
EditSticks == Transforms!EditSticks

\* A push of a repository inside the synced region changes nothing of the part that stays live,
\* with the selectors for which that holds (StructuredFiles).
PushSparesTheRest == Transforms!PushSparesTheRest
=============================================================================
