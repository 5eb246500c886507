---------------------------- MODULE MachineryProofs ----------------------------
(***************************************************************************)
(* Theorems about the machinery under every operation: the broker of a     *)
(* command's children (ElevationBroker), the accesses that need sudo       *)
(* (PrivilegedAccess), the pool of commands (CommandRuntime) and the       *)
(* writers that replace one file (AtomicFiles), for any number of clients, *)
(* calls, tasks and writers.  The parts share no state.                    *)
(***************************************************************************)
EXTENDS Naturals, Sequences, FiniteSets, TLAPS

CONSTANTS
  Client, Backlog,                                                \* of a broker
  Call, Kind, Protected, Unattended, Sessions,                    \* of accesses
  N, Concurrency, Isolated, Stubborn, Endless, Interrupted, Cancels, \* of a pool
  Proc, Pid, Private, None, Foreign                               \* of writers

VARIABLES
  client, handler, reply, shut, queue, serving, stop, closer, draining, latch,
  at, effect, ticket, acquired, keepalive, depth,
  cancelled, task, proc, caller, next, raised,
  pc, todo, absent, file, temp

Broker == INSTANCE ElevationBroker
Access == INSTANCE PrivilegedAccess
Pool == INSTANCE CommandRuntime
Files == INSTANCE AtomicFiles

-----------------------------------------------------------------------------
(* The broker                                                               *)

\* One handler at a time holds _request_lock.
OneHolder ==
  \A c, d \in Client : handler[c] \in {"locked", "asking"} /\ handler[d] \in {"locked", "asking"} => c = d

\* The stop flag comes with the closing; once close() has joined the serving thread no connection
\* gets a handler, once it has looked it knows the handlers and the prompt, at last all have ended.
ClosingInv ==
  /\ closer # "idle" => stop
  /\ closer \in {"closing", "shutting", "draining", "closed"} => serving = "ended"
  /\ closer \in {"shutting", "draining", "closed"} =>
       \A c \in Client : /\ handler[c] \in Broker!Live => c \in draining
                         /\ handler[c] = "asking" => latch
  /\ closer = "closed" => \A c \in draining : handler[c] = "ended"

BrokerInv == Broker!TypeOK /\ OneHolder /\ ClosingInv

\* What the queue of connections holds.
LEMMA QueueType ==
  ASSUME NEW S, NEW q \in Seq(S)
  PROVE  /\ \A x \in S : Append(q, x) \in Seq(S)
         /\ << >> \in Seq(S)
         /\ q # << >> => Head(q) \in S /\ Tail(q) \in Seq(S)
  OBVIOUS

LEMMA BrokerTypeStep ==
  ASSUME Broker!BrokerAssumption, Broker!TypeOK, Broker!Next
  PROVE  Broker!TypeOK'
<1> USE DEF Broker!TypeOK, Broker!Waiting, Broker!Answer, Broker!Live, Broker!threads, Broker!closing
<1>1. ASSUME NEW c \in Client, Broker!Connect(c) PROVE Broker!TypeOK'
  <2>1. queue \in Seq(Client \cup {"wake"}) /\ queue' \in {queue, Append(queue, c)}
    BY <1>1 DEF Broker!Connect
  <2>2. queue' \in Seq(Client \cup {"wake"})
    BY <2>1, QueueType
  <2> QED BY <1>1, <2>2 DEF Broker!Connect
<1>7. ASSUME NEW c \in Client, Broker!Send(c) \/ Broker!Leave(c) PROVE Broker!TypeOK'
  BY <1>7 DEF Broker!Send, Broker!Leave
<1>2. CASE Broker!LoopCheck
  BY <1>2 DEF Broker!LoopCheck
<1>9. CASE Broker!Accept
  <2>1. queue \in Seq(Client \cup {"wake"}) /\ queue # << >> /\ serving' = Head(queue) /\ queue' = Tail(queue)
    BY <1>9 DEF Broker!Accept
  <2>2. serving' \in Client \cup {"wake"} /\ queue' \in Seq(Client \cup {"wake"})
    BY <2>1, QueueType
  <2> QED BY <1>9, <2>2 DEF Broker!Accept
<1>3. CASE Broker!Register
  BY <1>3 DEF Broker!Register, Broker!Dropped
<1>4. ASSUME NEW c \in Client, Broker!Handle(c) \/ Broker!Authenticate(c)
      PROVE  Broker!TypeOK'
  <2>1. handler' \in [Client -> {"none", "ended"} \cup Broker!Live] /\ reply' \in [Client -> Broker!Answer]
    BY <1>4 DEF Broker!Handle, Broker!ReadPayload, Broker!TakeLock, Broker!Begin, Broker!StopPrompt,
            Broker!WriteReply, Broker!Authenticate, Broker!Moves, Broker!Says
  <2>2. client' \in [Client -> {"idle", "failed", "gone"} \cup Broker!Waiting \cup Broker!Answer]
    BY <1>4 DEF Broker!Handle, Broker!ReadPayload, Broker!TakeLock, Broker!Begin, Broker!StopPrompt,
            Broker!WriteReply, Broker!Authenticate
  <2>3. UNCHANGED <<shut, queue, serving, stop, closer, draining, latch>>
    BY <1>4 DEF Broker!Handle, Broker!ReadPayload, Broker!TakeLock, Broker!Begin, Broker!StopPrompt,
            Broker!WriteReply, Broker!Authenticate
  <2> QED BY <2>1, <2>2, <2>3
<1>5. CASE Broker!BeginClose \/ Broker!Join \/ Broker!Closed
  BY <1>5 DEF Broker!BeginClose, Broker!Join, Broker!Closed
<1>8. CASE Broker!Wake
  <2>1. queue \in Seq(Client \cup {"wake"}) /\ queue' = Append(queue, "wake")
    BY <1>8 DEF Broker!Wake
  <2>2. queue' \in Seq(Client \cup {"wake"})
    BY <2>1, QueueType
  <2> QED BY <2>2, <1>8, <2>1 DEF Broker!Wake
<1>6. CASE Broker!Snapshot \/ Broker!Shutdown
  <2>1. \A clients : Broker!Dropped(clients)
                        \in [Client -> {"idle", "failed", "gone"} \cup Broker!Waiting \cup Broker!Answer]
    BY DEF Broker!Dropped
  <2>2. CASE Broker!Snapshot
    <3>1. queue' \in Seq(Client \cup {"wake"})
      BY <2>2, QueueType DEF Broker!Snapshot
    <3> QED BY <2>1, <2>2, <3>1 DEF Broker!Snapshot
  <2>3. CASE Broker!Shutdown
    BY <2>1, <2>3 DEF Broker!Shutdown
  <2> QED BY <1>6, <2>2, <2>3
<1> QED BY <1>1, <1>2, <1>3, <1>4, <1>5, <1>6, <1>7, <1>8, <1>9 DEF Broker!Next, Broker!Serve, Broker!CloseOn

LEMMA OneHolderStep ==
  ASSUME Broker!TypeOK, OneHolder, Broker!Next
  PROVE  OneHolder'
<1> USE DEF OneHolder
<1>1. CASE handler' = handler
  BY <1>1
<1>2. CASE Broker!Register
  BY <1>2 DEF Broker!Register, Broker!TypeOK
<1>3. ASSUME NEW c \in Client, Broker!Handle(c) \/ Broker!Authenticate(c)
      PROVE  OneHolder'
  <2>1. /\ handler \in [Client -> {"none", "ended"} \cup Broker!Live]
        /\ \E to : handler' = [handler EXCEPT ![c] = to] /\
                   (to \in {"locked", "asking"} => handler[c] \in {"locked", "asking"} \/ Broker!Holder = {})
    BY <1>3 DEF Broker!Handle, Broker!ReadPayload, Broker!TakeLock, Broker!Begin, Broker!StopPrompt,
            Broker!WriteReply, Broker!Authenticate, Broker!Moves, Broker!Says, Broker!TypeOK
  <2> QED BY <2>1 DEF Broker!Holder
<1> QED BY <1>1, <1>2, <1>3 DEF Broker!Next, Broker!Serve, Broker!CloseOn, Broker!LoopCheck, Broker!Accept,
        Broker!BeginClose, Broker!Wake, Broker!Join, Broker!Snapshot, Broker!Shutdown, Broker!Closed,
        Broker!Connect, Broker!Send, Broker!Leave, Broker!threads

LEMMA ClosingStep ==
  ASSUME Broker!TypeOK, ClosingInv, Broker!Next
  PROVE  ClosingInv'
<1> USE DEF ClosingInv, Broker!threads, Broker!closing
<1>1. ASSUME NEW c \in Client, Broker!Connect(c) \/ Broker!Send(c) \/ Broker!Leave(c)
      PROVE  ClosingInv'
  BY <1>1 DEF Broker!Connect, Broker!Send, Broker!Leave
<1>2. CASE Broker!LoopCheck \/ Broker!Accept
  BY <1>2 DEF Broker!LoopCheck, Broker!Accept
<1>3. CASE Broker!Register
  BY <1>3 DEF Broker!Register
<1>4. ASSUME NEW c \in Client, Broker!Handle(c) \/ Broker!Authenticate(c)
      PROVE  ClosingInv'
  <2>1. /\ handler[c] \in Broker!Live /\ handler \in [Client -> {"none", "ended"} \cup Broker!Live]
        /\ \E to : handler' = [handler EXCEPT ![c] = to] /\ (to = "asking" => ~stop)
        /\ UNCHANGED <<shut, queue, serving, stop, closer, draining, latch>>
    BY <1>4 DEF Broker!Handle, Broker!ReadPayload, Broker!TakeLock, Broker!Begin, Broker!StopPrompt,
            Broker!WriteReply, Broker!Authenticate, Broker!Moves, Broker!Says, Broker!TypeOK, Broker!Live
  <2> QED BY <2>1 DEF Broker!Live
<1>5. CASE Broker!BeginClose \/ Broker!Wake \/ Broker!Join \/ Broker!Closed
  BY <1>5 DEF Broker!BeginClose, Broker!Wake, Broker!Join, Broker!Closed
<1>6. CASE Broker!Snapshot
  BY <1>6 DEF Broker!Snapshot, Broker!Authenticating
<1>7. CASE Broker!Shutdown
  BY <1>7 DEF Broker!Shutdown
<1> QED BY <1>1, <1>2, <1>3, <1>4, <1>5, <1>6, <1>7 DEF Broker!Next, Broker!Serve, Broker!CloseOn

LEMMA BrokerInvariance == ASSUME Broker!BrokerAssumption PROVE Broker!Spec => []BrokerInv
<1>1. Broker!Init => BrokerInv
  <2> SUFFICES ASSUME Broker!Init PROVE BrokerInv
    OBVIOUS
  <2>1. Broker!TypeOK
    <3>1. queue \in Seq(Client \cup {"wake"})
      BY QueueType DEF Broker!Init
    <3> QED BY <3>1 DEF Broker!Init, Broker!TypeOK, Broker!Answer
  <2>2. OneHolder /\ ClosingInv
    BY DEF Broker!Init, OneHolder, ClosingInv
  <2> QED BY <2>1, <2>2 DEF BrokerInv
<1>2. BrokerInv /\ [Broker!Next]_(Broker!vars) => BrokerInv'
  <2>1. ASSUME BrokerInv, Broker!Next PROVE BrokerInv'
    BY <2>1, BrokerTypeStep, OneHolderStep, ClosingStep DEF BrokerInv
  <2>2. ASSUME BrokerInv, UNCHANGED Broker!vars PROVE BrokerInv'
    BY <2>2 DEF BrokerInv, Broker!TypeOK, OneHolder, ClosingInv, Broker!vars, Broker!threads, Broker!closing
  <2> QED BY <2>1, <2>2
<1> QED BY <1>1, <1>2, PTL DEF Broker!Spec

\* elevation.py, _request_lock: the terminal has one password prompt at a time.
THEOREM PromptsAreAlone == ASSUME Broker!BrokerAssumption PROVE Broker!Spec => []Broker!OnePrompt
<1>1. BrokerInv => Broker!OnePrompt
  BY DEF BrokerInv, OneHolder, Broker!OnePrompt
<1> QED BY <1>1, BrokerInvariance, PTL

\* elevation.py, close: when it has returned no handler runs, and no prompt is on the terminal.
THEOREM NothingOutlivesTheBroker == ASSUME Broker!BrokerAssumption PROVE Broker!Spec => []Broker!NoLatePrompt
<1>1. BrokerInv => Broker!NoLatePrompt
  BY DEF BrokerInv, ClosingInv, Broker!NoLatePrompt, Broker!Live
<1> QED BY <1>1, BrokerInvariance, PTL

\* elevation.py, _authenticating under _connections_lock: once close() has looked no prompt opens,
\* and one that was open has been cancelled.
THEOREM NoPromptOpensLate == ASSUME Broker!BrokerAssumption PROVE Broker!Spec => Broker!NoPromptAfterSnapshot
<1> DEFINE Late == closer \notin {"idle", "stopping", "joining", "closing"} =>
                     \A c \in Client : handler'[c] = "asking" => handler[c] = "asking" /\ latch
<1>1. BrokerInv /\ [Broker!Next]_(Broker!vars) => Late
  <2> SUFFICES ASSUME BrokerInv, [Broker!Next]_(Broker!vars), NEW c \in Client, handler'[c] = "asking",
                      closer \notin {"idle", "stopping", "joining", "closing"}
               PROVE  handler[c] = "asking" /\ latch
    OBVIOUS
  <2>1. stop /\ serving = "ended" /\ (handler[c] = "asking" => latch)
    BY DEF BrokerInv, ClosingInv, Broker!TypeOK
  <2>2. handler \in [Client -> {"none", "ended"} \cup Broker!Live]
    BY DEF BrokerInv, Broker!TypeOK
  <2>3. CASE handler' = handler
    BY <2>1, <2>3
  <2>4. CASE Broker!Register
    BY <2>1, <2>2, <2>4 DEF Broker!Register
  <2>5. ASSUME NEW d \in Client, Broker!Handle(d) \/ Broker!Authenticate(d) PROVE handler[c] = "asking"
    <3>1. \E to : handler' = [handler EXCEPT ![d] = to] /\ to # "asking"
      BY <2>1, <2>5 DEF Broker!Handle, Broker!ReadPayload, Broker!TakeLock, Broker!Begin, Broker!StopPrompt,
              Broker!WriteReply, Broker!Authenticate, Broker!Moves, Broker!Says
    <3> QED BY <2>2, <3>1
  <2> QED BY <2>1, <2>3, <2>4, <2>5 DEF Broker!Next, Broker!Serve, Broker!CloseOn, Broker!LoopCheck,
          Broker!Accept, Broker!BeginClose, Broker!Wake, Broker!Join, Broker!Snapshot, Broker!Shutdown,
          Broker!Closed, Broker!Connect, Broker!Send, Broker!Leave, Broker!vars, Broker!threads
<1>2. Broker!Spec => [][Late]_(Broker!vars)
  <2> HIDE DEF Late
  <2> QED BY <1>1, BrokerInvariance, PTL DEF Broker!Spec
<1> QED BY <1>2 DEF Broker!NoPromptAfterSnapshot

-----------------------------------------------------------------------------
(* Accesses that need sudo                                                  *)

\* One thread at a time is in request_sudo; a lease is held only in a session, with its keepalive
\* thread and a ticket that this keeps good.
LeaseInv ==
  /\ \A c, d \in Call : c \in Access!Requester /\ d \in Access!Requester => c = d
  /\ keepalive = acquired
  /\ acquired => ticket /\ depth > 0

AccessInv == Access!TypeOK /\ LeaseInv

LEMMA AccessTypeStep ==
  ASSUME Access!AccessAssumption, Access!TypeOK, Access!Next
  PROVE  Access!TypeOK'
<1> USE DEF Access!AccessAssumption, Access!TypeOK, Access!lease, Access!Ended, Access!Requesting, Access!Goes
<1>1. ASSUME NEW c \in Call, Access!Attempt(c) PROVE Access!TypeOK'
  BY <1>1 DEF Access!Attempt
<1>2. ASSUME NEW c \in Call, Access!Request(c) PROVE Access!TypeOK'
  BY <1>2 DEF Access!Request, Access!Enter, Access!ProbeFinds, Access!ProbeFindsNone, Access!Prompt,
          Access!Interrupt, Access!Leaves
<1>3. ASSUME NEW c \in Call, Access!Privileged(c) \/ Access!StartCommand(c) \/ Access!EndCommand(c)
      PROVE  Access!TypeOK'
  BY <1>3 DEF Access!Privileged, Access!StartCommand, Access!EndCommand
<1>4. CASE Access!Expire
  BY <1>4 DEF Access!Expire
<1>5. CASE Access!EnterSession
  BY <1>5 DEF Access!EnterSession
<1>6. CASE Access!LeaveSession
  <2>1. depth > 0 /\ depth' = depth - 1 /\ Sessions \in Nat /\ depth \in 0..Sessions
    BY <1>6 DEF Access!LeaveSession
  <2>2. depth' \in 0..Sessions
    BY ONLY <2>1
  <2>3. CASE depth = 1
    BY <1>6, <2>2, <2>3, Zenon DEF Access!LeaveSession
  <2>4. CASE depth # 1
    BY <1>6, <2>2, <2>4, Zenon DEF Access!LeaveSession
  <2> QED BY <2>3, <2>4
<1> QED BY <1>1, <1>2, <1>3, <1>4, <1>5, <1>6 DEF Access!Next

LEMMA LeaseStep ==
  ASSUME Access!AccessAssumption, Access!TypeOK, LeaseInv, Access!Next
  PROVE  LeaseInv'
<1> USE DEF LeaseInv, Access!TypeOK, Access!lease, Access!Requesting, Access!Requester, Access!Goes,
            Access!Ended
<1>1. ASSUME NEW c \in Call, Access!Attempt(c) PROVE LeaseInv'
  BY <1>1 DEF Access!Attempt
<1>2. ASSUME NEW c \in Call, Access!Enter(c) \/ Access!ProbeFinds(c) \/ Access!Interrupt(c) PROVE LeaseInv'
  BY <1>2 DEF Access!Enter, Access!ProbeFinds, Access!Interrupt, Access!Leaves
<1>3. ASSUME NEW c \in Call, Access!ProbeFindsNone(c) PROVE LeaseInv'
  BY <1>3 DEF Access!ProbeFindsNone
<1>4. ASSUME NEW c \in Call, Access!Prompt(c) PROVE LeaseInv'
  BY <1>4 DEF Access!Prompt, Access!Leaves
<1>5. ASSUME NEW c \in Call, Access!Privileged(c) \/ Access!StartCommand(c) \/ Access!EndCommand(c)
      PROVE  LeaseInv'
  BY <1>5 DEF Access!Privileged, Access!StartCommand, Access!EndCommand
<1>6. CASE Access!Expire
  BY <1>6 DEF Access!Expire
<1>7. CASE Access!EnterSession
  BY <1>7 DEF Access!EnterSession
<1>8. CASE Access!LeaveSession
  <2>1. at' = at /\ keepalive' = acquired'
    BY <1>8 DEF Access!LeaveSession
  <2>2. CASE depth = 1
    <3>1. ~acquired'
      BY <1>8, <2>2 DEF Access!LeaveSession
    <3> QED BY <2>1, <3>1
  <2>3. CASE depth # 1
    <3>1. depth > 0 /\ depth' = depth - 1 /\ Sessions \in Nat /\ depth \in 0..Sessions
      BY <1>8 DEF Access!LeaveSession, Access!AccessAssumption
    <3>2. depth' > 0
      BY ONLY <2>3, <3>1
    <3>3. acquired' = acquired /\ ticket' = ticket
      BY <1>8, <2>3 DEF Access!LeaveSession
    <3> QED BY <2>1, <3>2, <3>3
  <2> QED BY <2>2, <2>3
<1> QED BY <1>1, <1>2, <1>3, <1>4, <1>5, <1>6, <1>7, <1>8 DEF Access!Next, Access!Request

LEMMA AccessInvariance == ASSUME Access!AccessAssumption PROVE Access!Spec => []AccessInv
<1>1. Access!Init => AccessInv
  <2> SUFFICES ASSUME Access!Init PROVE AccessInv
    OBVIOUS
  <2>1. Access!TypeOK
    <3>1. depth \in 0..Sessions
      BY DEF Access!Init, Access!AccessAssumption
    <3> QED BY <3>1, Zenon DEF Access!Init, Access!TypeOK
  <2>2. LeaseInv
    BY DEF Access!Init, LeaseInv, Access!Requester, Access!Requesting
  <2> QED BY <2>1, <2>2 DEF AccessInv
<1>2. AccessInv /\ [Access!Next]_(Access!vars) => AccessInv'
  <2>1. ASSUME AccessInv, Access!Next PROVE AccessInv'
    BY <2>1, AccessTypeStep, LeaseStep DEF AccessInv
  <2>2. ASSUME AccessInv, UNCHANGED Access!vars PROVE AccessInv'
    BY <2>2 DEF AccessInv, Access!TypeOK, LeaseInv, Access!Requester, Access!vars, Access!lease
  <2> QED BY <2>1, <2>2
<1> QED BY <1>1, <1>2, PTL DEF Access!Spec

\* file_access.py, _SudoLease: a lease once acquired is good until its session ends, and its
\* keepalive thread outlives neither the session nor a request without one.
THEOREM LeasesAreGood ==
  ASSUME Access!AccessAssumption PROVE Access!Spec => [](Access!LeaseIsGood /\ Access!NoStrayKeepalive)
<1>1. AccessInv => Access!LeaseIsGood /\ Access!NoStrayKeepalive
  BY DEF AccessInv, Access!TypeOK, LeaseInv, Access!LeaseIsGood, Access!NoStrayKeepalive
<1> QED BY <1>1, AccessInvariance, PTL

\* file_access.py, request_sudo: no two threads ask for a password at a time, and none asks for
\* one that its session has been given.
THEOREM PasswordsAreAskedOnce == ASSUME Access!AccessAssumption PROVE Access!Spec => Access!AskedOnce
<1> DEFINE Once == \A c \in Call : at'[c] = "prompting" /\ at[c] # "prompting" =>
                     ~acquired /\ \A d \in Call \ {c} : at[d] # "prompting"
<1>1. AccessInv /\ [Access!Next]_(Access!vars) => Once
  <2> SUFFICES ASSUME AccessInv, [Access!Next]_(Access!vars), NEW c \in Call,
                      at'[c] = "prompting", at[c] # "prompting"
               PROVE  ~acquired /\ \A d \in Call \ {c} : at[d] # "prompting"
    OBVIOUS
  <2>1. DOMAIN at = Call
    BY DEF AccessInv, Access!TypeOK
  <2>2. PICK d \in Call : Access!ProbeFindsNone(d)
    <3>1. \A d \in Call : \A to : Access!Goes(d, to) => to = "prompting" /\ d = c
      BY <2>1 DEF Access!Goes
    <3>2. ~UNCHANGED Access!vars /\ ~Access!Expire /\ ~Access!EnterSession /\ ~Access!LeaveSession
      BY DEF Access!vars, Access!Expire, Access!EnterSession, Access!LeaveSession
    <3>3. \A d \in Call : /\ ~Access!Attempt(d) /\ ~Access!Enter(d)
                           /\ ~Access!ProbeFinds(d) /\ ~Access!Interrupt(d)
      BY <3>1 DEF Access!Attempt, Access!Enter, Access!ProbeFinds, Access!Interrupt
    <3>4. \A d \in Call : ~Access!Prompt(d)
      BY <3>1 DEF Access!Prompt
    <3>5. \A d \in Call : ~Access!Privileged(d) /\ ~Access!StartCommand(d) /\ ~Access!EndCommand(d)
      BY <3>1 DEF Access!Privileged, Access!StartCommand, Access!EndCommand
    <3> QED BY <3>2, <3>3, <3>4, <3>5 DEF Access!Next, Access!Request
  <2>3. d = c
    BY <2>1, <2>2 DEF Access!ProbeFindsNone, Access!Goes
  <2>4. at[c] = "probing" /\ ~ticket
    BY <2>2, <2>3 DEF Access!ProbeFindsNone
  <2> QED BY <2>4 DEF AccessInv, LeaseInv, Access!Requester, Access!Requesting
<1>2. Access!Spec => [][Once]_(Access!vars)
  <2> HIDE DEF Once
  <2> QED BY <1>1, AccessInvariance, PTL DEF Access!Spec
<1> QED BY <1>2 DEF Access!AskedOnce

-----------------------------------------------------------------------------
(* The pool                                                                 *)

\* A command runs only between its start and its end; past it, what may be left is a descendant
\* of a command that shares the terminal's group.
ProcessInv ==
  \A t \in Pool!Task :
    /\ task[t] \in {"queued", "dropped", "starting", "spawning"} => proc[t] = {}
    /\ task[t] \in Pool!Outcome => proc[t] \cap Pool!Signalled(t) = {}

\* A call that cleans up has no queue left, and nothing flies when it has ended.
CleaningInv ==
  /\ Pool!Cleaning => Pool!Queued = {}
  /\ caller = "ended" => Pool!Flying = {}

\* Results come in task order, and only the first failure is raised.
OrderInv ==
  /\ \A t \in Pool!Task : t < next => task[t] = "ok"
  /\ raised \in {"failed", "cancelled"} => caller # "consuming" /\ next \in Pool!Task /\ task[next] = raised

PoolInv == Pool!TypeOK /\ ProcessInv /\ OrderInv

\* A thread moves one task, from a stage that is not an outcome.
Advances(t) ==
  /\ task[t] \in {"queued"} \cup Pool!InFlight
  /\ \E stage \in Pool!InFlight \cup Pool!Outcome : task' = [task EXCEPT ![t] = stage]
  /\ UNCHANGED <<caller, next, raised, cancelled>>
  /\ task[t] = "queued" => t \in Pool!Queued

LEMMA ThreadsAdvance ==
  ASSUME Pool!TypeOK, NEW t \in Pool!Task, Pool!Thread(t)
  PROVE  Advances(t)
<1> USE DEF Advances, Pool!Become, Pool!Unmoved, Pool!InFlight, Pool!Outcome
<1>1. CASE Pool!Take(t)
  BY <1>1 DEF Pool!Take, Pool!Queued
<1>2. CASE Pool!Check(t)
  BY <1>2 DEF Pool!Check
<1>3. CASE Pool!Spawn(t) \/ Pool!Stop(t) \/ Pool!Kill(t)
  BY <1>3 DEF Pool!Spawn, Pool!Stop, Pool!Kill
<1>4. CASE Pool!Poll(t) \/ Pool!Drain(t)
  BY <1>4 DEF Pool!Poll, Pool!Drain
<1> QED BY <1>1, <1>2, <1>3, <1>4 DEF Pool!Thread

LEMMA PoolTypeStep ==
  ASSUME Pool!PoolAssumption, Pool!TypeOK, Pool!Next
  PROVE  Pool!TypeOK'
<1> USE DEF Pool!TypeOK, Pool!Task, Pool!Stage, Pool!Outcome, Pool!InFlight
<1>1. ASSUME NEW t \in Pool!Task, Pool!Thread(t) PROVE Pool!TypeOK'
  <2>1. task' \in [Pool!Task -> Pool!Stage] /\ UNCHANGED <<caller, next, raised, cancelled>>
    BY <1>1, ThreadsAdvance DEF Advances
  <2>2. proc' \in [Pool!Task -> SUBSET {"leader", "child"}]
    BY <1>1 DEF Pool!Thread, Pool!Take, Pool!Check, Pool!Spawn, Pool!Poll, Pool!Drain, Pool!Stop, Pool!Kill
  <2> QED BY <2>1, <2>2
<1>2. ASSUME NEW t \in Pool!Task, Pool!Exit(t) PROVE Pool!TypeOK'
  BY <1>2 DEF Pool!Exit, Pool!Unmoved
<1>3. CASE Pool!Consume
  <2>1. next' \in 1..(N + 1)
    BY <1>3 DEF Pool!Consume, Pool!PoolAssumption
  <2>2. task[next] \in Pool!Outcome
    BY <1>3 DEF Pool!Consume
  <2> QED BY <1>3, <2>1, <2>2 DEF Pool!Consume, Pool!Points
<1>4. CASE Pool!Complete \/ Pool!Close \/ Pool!Accept \/ Pool!Defer \/ Pool!End
  BY <1>4 DEF Pool!Complete, Pool!Close, Pool!Accept, Pool!Defer, Pool!End, Pool!Points
<1>5. CASE Pool!Interrupt \/ Pool!RequestCancel
  BY <1>5 DEF Pool!Interrupt, Pool!RequestCancel, Pool!Points
<1> QED BY <1>1, <1>2, <1>3, <1>4, <1>5 DEF Pool!Next, Pool!Caller

LEMMA ProcessStep ==
  ASSUME Pool!TypeOK, ProcessInv, Pool!Next
  PROVE  ProcessInv'
<1> USE DEF ProcessInv, Pool!TypeOK, Pool!Outcome
<1>1. ASSUME NEW t \in Pool!Task, Pool!Take(t) \/ Pool!Check(t) PROVE ProcessInv'
  BY <1>1 DEF Pool!Take, Pool!Check, Pool!Become, Pool!Queued, Pool!Signalled
<1>2. ASSUME NEW t \in Pool!Task, Pool!Spawn(t) \/ Pool!Stop(t) PROVE ProcessInv'
  BY <1>2 DEF Pool!Spawn, Pool!Stop, Pool!Become, Pool!Signalled
<1>3. ASSUME NEW t \in Pool!Task, Pool!Poll(t) \/ Pool!Drain(t) PROVE ProcessInv'
  BY <1>3 DEF Pool!Poll, Pool!Drain, Pool!Become, Pool!Signalled
<1>4. ASSUME NEW t \in Pool!Task, Pool!Kill(t) PROVE ProcessInv'
  BY <1>4 DEF Pool!Kill, Pool!Become, Pool!Signalled
<1>5. ASSUME NEW t \in Pool!Task, Pool!Exit(t) PROVE ProcessInv'
  BY <1>5 DEF Pool!Exit, Pool!Signalled
<1>6. CASE /\ proc' = proc
           /\ \A t \in Pool!Task : task'[t] = task[t] \/ (task[t] = "queued" /\ task'[t] = "dropped")
  BY <1>6 DEF Pool!Signalled
<1>7. CASE Pool!Caller \/ Pool!Close \/ Pool!Interrupt \/ Pool!RequestCancel
  BY <1>6, <1>7 DEF Pool!Caller, Pool!Consume, Pool!Complete, Pool!Close, Pool!Accept, Pool!Defer, Pool!End,
          Pool!Interrupt, Pool!RequestCancel
<1> QED BY <1>1, <1>2, <1>3, <1>4, <1>5, <1>7 DEF Pool!Next, Pool!Thread

LEMMA OrderStep ==
  ASSUME Pool!PoolAssumption, Pool!TypeOK, OrderInv, Pool!Next
  PROVE  OrderInv'
<1> USE DEF OrderInv, Pool!TypeOK
<1>1. ASSUME NEW t \in Pool!Task, Pool!Thread(t) PROVE OrderInv'
  BY <1>1, ThreadsAdvance DEF Advances, Pool!InFlight
<1>2. ASSUME NEW t \in Pool!Task, Pool!Exit(t) PROVE OrderInv'
  BY <1>2 DEF Pool!Exit, Pool!Unmoved
<1>3. CASE Pool!Consume
  <2>1. next \in Nat /\ next \in Pool!Task /\ \A t \in Pool!Task : t \in Nat
    BY <1>3 DEF Pool!Consume, Pool!Task, Pool!PoolAssumption
  <2>2. CASE task[next] = "ok"
    <3>1. next' = next + 1 /\ UNCHANGED <<task, caller, raised>> /\ caller = "consuming"
      BY <1>3, <2>2 DEF Pool!Consume
    <3>2. \A t \in Pool!Task : t < next + 1 => t < next \/ t = next
      BY <2>1
    <3> QED BY <2>2, <3>1, <3>2
  <2>3. CASE task[next] # "ok"
    BY <1>3, <2>1, <2>3 DEF Pool!Consume
  <2> QED BY <2>2, <2>3
<1>4. CASE Pool!Complete \/ Pool!Close \/ Pool!Accept \/ Pool!End \/ Pool!RequestCancel
  BY <1>4 DEF Pool!Complete, Pool!Close, Pool!Accept, Pool!End, Pool!RequestCancel
<1>5. CASE Pool!Defer
  BY <1>5 DEF Pool!Defer
<1>6. CASE Pool!Interrupt
  BY <1>6 DEF Pool!Interrupt, Pool!Points
<1> QED BY <1>1, <1>2, <1>3, <1>4, <1>5, <1>6 DEF Pool!Next, Pool!Caller

\* The call leaves its cleaning only by its end.
LEMMA CleaningStep ==
  ASSUME "deferring" \notin Interrupted, Pool!TypeOK, CleaningInv, Pool!Next
  PROVE  CleaningInv'
<1> USE DEF CleaningInv, Pool!Cleaning, Pool!TypeOK
<1>1. ASSUME NEW t \in Pool!Task, Pool!Thread(t) PROVE CleaningInv'
  <2>1. Advances(t)
    BY <1>1, ThreadsAdvance
  <2>2. CASE Pool!Cleaning
    <3>1. t \in Pool!Flying /\ caller # "ended"
      BY <2>1, <2>2 DEF Advances, Pool!Flying, Pool!Queued, Pool!InFlight
    <3>2. \A u \in Pool!Task : task'[u] = "queued" => task[u] = "queued"
      BY <2>1 DEF Advances, Pool!InFlight, Pool!Outcome
    <3> QED BY <2>1, <2>2, <3>1, <3>2 DEF Advances, Pool!Queued
  <2>3. CASE ~Pool!Cleaning
    BY <2>1, <2>3 DEF Advances
  <2> QED BY <2>2, <2>3
<1>2. ASSUME NEW t \in Pool!Task, Pool!Exit(t) PROVE CleaningInv'
  BY <1>2 DEF Pool!Exit, Pool!Unmoved, Pool!Queued, Pool!Flying
<1>3. CASE Pool!Consume \/ Pool!Complete \/ Pool!Close \/ Pool!Accept
  BY <1>3 DEF Pool!Consume, Pool!Complete, Pool!Close, Pool!Accept
<1>4. CASE Pool!Defer
  BY <1>4 DEF Pool!Defer, Pool!Queued
<1>5. CASE Pool!End
  BY <1>5 DEF Pool!End, Pool!Queued, Pool!Flying
<1>6. CASE Pool!Interrupt
  BY <1>6 DEF Pool!Interrupt, Pool!Points, Pool!Queued, Pool!Flying
<1>7. CASE Pool!RequestCancel
  BY <1>7 DEF Pool!RequestCancel, Pool!Queued, Pool!Flying
<1> QED BY <1>1, <1>2, <1>3, <1>4, <1>5, <1>6, <1>7 DEF Pool!Next, Pool!Caller

LEMMA PoolInvariance == ASSUME Pool!PoolAssumption PROVE Pool!Spec => []PoolInv
<1>1. Pool!Init => PoolInv
  <2> SUFFICES ASSUME Pool!Init PROVE PoolInv
    OBVIOUS
  <2>1. N \in Nat /\ N > 0
    BY DEF Pool!PoolAssumption
  <2>2. Pool!TypeOK
    <3>1. next \in 1..(N + 1)
      BY <2>1 DEF Pool!Init
    <3> QED BY <3>1, Zenon DEF Pool!Init, Pool!TypeOK, Pool!Points, Pool!Stage
  <2>3. ProcessInv
    BY DEF Pool!Init, ProcessInv, Pool!Outcome
  <2>4. OrderInv
    BY <2>1 DEF Pool!Init, OrderInv, Pool!Task
  <2> QED BY <2>2, <2>3, <2>4 DEF PoolInv
<1>2. PoolInv /\ [Pool!Next]_(Pool!vars) => PoolInv'
  <2>1. ASSUME PoolInv, Pool!Next PROVE PoolInv'
    BY <2>1, PoolTypeStep, ProcessStep, OrderStep DEF PoolInv
  <2>2. ASSUME PoolInv, UNCHANGED Pool!vars PROVE PoolInv'
    BY <2>2 DEF PoolInv, Pool!TypeOK, ProcessInv, OrderInv, Pool!vars
  <2> QED BY <2>1, <2>2
<1> QED BY <1>1, <1>2, PTL DEF Pool!Spec

LEMMA CleaningInvariance ==
  ASSUME Pool!PoolAssumption, "deferring" \notin Interrupted
  PROVE  Pool!Spec => []CleaningInv
<1>1. Pool!Init => CleaningInv
  BY DEF Pool!Init, CleaningInv, Pool!Cleaning
<1>2. PoolInv /\ CleaningInv /\ [Pool!Next]_(Pool!vars) => CleaningInv'
  <2>1. ASSUME PoolInv, CleaningInv, Pool!Next PROVE CleaningInv'
    BY <2>1, CleaningStep DEF PoolInv
  <2>2. ASSUME CleaningInv, UNCHANGED Pool!vars PROVE CleaningInv'
    BY <2>2 DEF CleaningInv, Pool!Cleaning, Pool!Queued, Pool!Flying, Pool!vars
  <2> QED BY <2>1, <2>2
<1> QED BY <1>1, <1>2, PoolInvariance, PTL DEF Pool!Spec

\* command_runtime.py, run_ordered: the failure raised is the first in task order, and every
\* result before it was yielded, whichever task failed first.
THEOREM FirstInOrderIsRaised ==
  ASSUME Pool!PoolAssumption PROVE Pool!Spec => []Pool!FirstFailureIsRaised
<1>1. PoolInv => Pool!FirstFailureIsRaised
  BY DEF PoolInv, OrderInv, Pool!FirstFailureIsRaised
<1> QED BY <1>1, PoolInvariance, PTL

\* command_runtime.py, _stop_process: when the call has ended none of its commands runs any more,
\* but for a descendant in the terminal's own group.  A Ctrl-C between the decision to clean up and
\* the signal mask is excluded: it ends the call at once.
THEOREM CallsLeaveNothing ==
  ASSUME Pool!PoolAssumption, "deferring" \notin Interrupted
  PROVE  Pool!Spec => []Pool!NothingRunsAfterwards
<1>1. PoolInv /\ CleaningInv => Pool!NothingRunsAfterwards
  <2> SUFFICES ASSUME PoolInv, CleaningInv, caller = "ended" PROVE Pool!NothingRunsAfterwards
    BY DEF Pool!NothingRunsAfterwards
  <2>1. Pool!Flying = {}
    BY DEF CleaningInv
  <2>2. ASSUME NEW t \in Pool!Task PROVE proc[t] \cap Pool!Signalled(t) = {}
    <3>1. task[t] \in {"queued", "dropped"} \cup Pool!Outcome
      BY <2>1 DEF PoolInv, Pool!TypeOK, Pool!Stage, Pool!Flying
    <3> QED BY <3>1 DEF PoolInv, ProcessInv
  <2> QED BY <2>1, <2>2 DEF Pool!NothingRunsAfterwards
<1> QED BY <1>1, PoolInvariance, CleaningInvariance, PTL

\* command_runtime.py, check_cancelled: a task that has not passed its check of the latch when the
\* operation is cancelled never comes to spawn a command, and the latch is never taken back.
THEOREM LatchStopsStarts == ASSUME Pool!PoolAssumption PROVE Pool!Spec => Pool!CancelledNeverStart
<1> DEFINE Never ==
             cancelled => cancelled' /\ \A t \in Pool!Task : task[t] \in Pool!Unstarted => task'[t] \in Pool!Unstarted
<1>1. PoolInv /\ [Pool!Next]_(Pool!vars) => Never
  <2> SUFFICES ASSUME PoolInv, [Pool!Next]_(Pool!vars), cancelled
               PROVE  cancelled' /\ \A t \in Pool!Task : task[t] \in Pool!Unstarted => task'[t] \in Pool!Unstarted
    OBVIOUS
  <2> DEFINE Stay == \A t \in Pool!Task : task[t] \in Pool!Unstarted => task'[t] \in Pool!Unstarted
  <2>1. task \in [Pool!Task -> Pool!Stage]
    BY DEF PoolInv, Pool!TypeOK
  <2>2. CASE task' = task /\ cancelled' = cancelled
    BY <2>2
  <2>3. ASSUME NEW u \in Pool!Task, Pool!Take(u) \/ Pool!Check(u) PROVE cancelled' /\ Stay
    BY <2>1, <2>3 DEF Pool!Take, Pool!Check, Pool!Become, Pool!Unstarted
  <2>4. ASSUME NEW u \in Pool!Task, Pool!Spawn(u) \/ Pool!Stop(u) \/ Pool!Kill(u) PROVE cancelled' /\ Stay
    BY <2>1, <2>4 DEF Pool!Spawn, Pool!Stop, Pool!Kill, Pool!Become, Pool!Unstarted
  <2>5. ASSUME NEW u \in Pool!Task, Pool!Poll(u) \/ Pool!Drain(u) PROVE cancelled' /\ Stay
    BY <2>5 DEF Pool!Poll, Pool!Drain
  <2>6. ASSUME Pool!Defer PROVE cancelled' /\ Stay
    BY <2>1, <2>6 DEF Pool!Defer, Pool!Unstarted
  <2>7. ASSUME Pool!Accept \/ Pool!RequestCancel PROVE cancelled' /\ Stay
    BY <2>7 DEF Pool!Accept, Pool!RequestCancel
  <2>8. ASSUME Pool!Interrupt PROVE cancelled' /\ Stay
    BY <2>8 DEF Pool!Interrupt, Pool!PoolAssumption, Pool!Points
  <2> QED BY <2>2, <2>3, <2>4, <2>5, <2>6, <2>7, <2>8 DEF Pool!Next, Pool!Thread, Pool!Exit, Pool!Unmoved,
          Pool!Caller, Pool!Consume, Pool!Complete, Pool!Close, Pool!End, Pool!vars
<1>2. Pool!Spec => [][Never]_(Pool!vars)
  <2> HIDE DEF Never
  <2> QED BY <1>1, PoolInvariance, PTL DEF Pool!Spec
<1> QED BY <1>2 DEF Pool!CancelledNeverStart

\* command_runtime.py, shutdown(cancel_futures): once the call cleans up, no task that has not
\* started ever starts.
THEOREM QueuesAreDropped ==
  ASSUME Pool!PoolAssumption, "deferring" \notin Interrupted
  PROVE  Pool!Spec => Pool!QueueIsDropped
<1> DEFINE Dropped ==
             Pool!Cleaning => \A t \in Pool!Task : task[t] = "queued" => task'[t] \in {"queued", "dropped"}
<1>1. CleaningInv => Dropped
  BY DEF CleaningInv, Pool!Queued
<1>2. Pool!Spec => [][Dropped]_(Pool!vars)
  <2> HIDE DEF Dropped
  <2> QED BY <1>1, CleaningInvariance, PTL DEF Pool!Spec
<1> QED BY <1>2 DEF Pool!QueueIsDropped

-----------------------------------------------------------------------------
(* The writers, whatever pids they share, as long as each sees the pids of  *)
(* all others.  The invariant says what a sweep may rely on: a temporary it *)
(* looks at had been opened when the sweep began, so that its creator, if   *)
(* no running process has its pid, is over.                                 *)

BeforeOpen == {"idle", "sweeping", "opening"}
OpenOrReady == {"open", "written", "ready"}

\* a temporary belongs to a process that has opened it, and is as far as that process is
TempOf(p) ==
  /\ temp[p] # None => pc[p] \in OpenOrReady \cup {"failing", "cleaning", "killed"}
  /\ pc[p] \in OpenOrReady => temp[p] # None
  /\ temp[p] # None => (p \in Private => temp[p].want = "private") /\ temp[p].by = p
  /\ pc[p] \in {"written", "ready"} => temp[p].whole
  /\ pc[p] = "ready" => temp[p].mode = temp[p].want

\* a sweep looks at temporaries that have been opened, and removes one of a process that is over
SweepOf(p) ==
  /\ \A q \in todo[p] : pc[q] \notin BeforeOpen
  /\ absent[p] # None => pc[p] = "sweeping" /\ pc[absent[p]] \in Files!Over

FilesInv ==
  /\ Files!TypeOK /\ Files!ReadersSeeWhole
  /\ \A p \in Proc : TempOf(p)
  /\ \A p \in Proc : SweepOf(p)

LEMMA FilesInit == ASSUME Files!FilesAssumption, Files!Init PROVE FilesInv
<1> USE DEF Files!Init
<1>1. Files!TypeOK
  BY DEF Files!TypeOK, Files!Bytes, Files!Mode, Files!FilesAssumption
<1>2. Files!ReadersSeeWhole
  BY DEF Files!FilesAssumption, Files!ReadersSeeWhole
<1>3. \A p \in Proc : TempOf(p) /\ SweepOf(p)
  BY DEF TempOf, SweepOf, OpenOrReady
<1> QED
  BY <1>1, <1>2, <1>3 DEF FilesInv

LEMMA FilesTypeStep ==
  ASSUME Files!FilesAssumption, FilesInv, NEW p \in Proc,
         Files!Start(p) \/ Files!Step(p) \/ Files!Fails(p) \/ Files!Kill(p)
  PROVE  Files!TypeOK'
<1> USE DEF Files!FilesAssumption, FilesInv, Files!TypeOK, Files!Moves, Files!Running, Files!Over
<1>1. CASE Files!Start(p)
  BY <1>1 DEF Files!Start, Files!Temps
<1>2. CASE Files!SweepLooks(p)
  BY <1>2 DEF Files!SweepLooks
<1>3. CASE Files!SweepRemoves(p) \/ Files!Swept(p) \/ Files!CleanUp(p) \/ Files!Fails(p) \/ Files!Kill(p)
  BY <1>3 DEF Files!SweepRemoves, Files!Swept, Files!CleanUp, Files!Fails, Files!Kill
<1>4. CASE Files!Open(p)
  BY <1>4 DEF Files!Open, Files!Bytes, Files!Mode
<1>5. CASE Files!Write(p)
  BY <1>5 DEF Files!Write, Files!Bytes
<1>6. CASE Files!SetMode(p)
  BY <1>6 DEF Files!SetMode, Files!Bytes
<1>7. CASE Files!Rename(p)
  BY <1>7 DEF Files!Rename
<1> QED
  BY <1>1, <1>2, <1>3, <1>4, <1>5, <1>6, <1>7 DEF Files!Step

\* what a process has read of a temporary, and what it becomes, is of that process
LEMMA TempStep ==
  ASSUME Files!FilesAssumption, FilesInv, NEW p \in Proc,
         Files!Start(p) \/ Files!Step(p) \/ Files!Fails(p) \/ Files!Kill(p)
  PROVE  \A q \in Proc : TempOf(q)'
<1> SUFFICES ASSUME NEW q \in Proc PROVE TempOf(q)'
  OBVIOUS
<1> USE DEF Files!FilesAssumption, FilesInv, Files!TypeOK, TempOf, Files!Moves, OpenOrReady, Files!Bytes, Files!Mode
<1>1. CASE Files!Start(p) \/ Files!SweepLooks(p) \/ Files!Swept(p) \/ Files!Fails(p) \/ Files!Kill(p)
  BY <1>1 DEF Files!Start, Files!SweepLooks, Files!Swept, Files!Fails, Files!Kill, Files!Running
<1>2. CASE Files!SweepRemoves(p)
  BY <1>2 DEF Files!SweepRemoves, SweepOf, Files!Over
<1>3. CASE Files!Open(p)
  <2> DEFINE new == [by |-> p, whole |-> FALSE, mode |-> "default",
                     want |-> IF p \in Private THEN "private" ELSE file.mode]
  <2>1. new \in Files!Bytes
    OBVIOUS
  <2>2. new # None /\ temp' = [temp EXCEPT ![p] = new] /\ pc' = [pc EXCEPT ![p] = "open"]
    BY <1>3, <2>1 DEF Files!Open
  <2>3. CASE q = p
    BY <2>2, <2>3
  <2>4. CASE q # p
    BY <2>2, <2>4
  <2> QED
    BY <2>3, <2>4
<1>4. CASE Files!Write(p)
  <2>1. temp[p] \in Files!Bytes /\ temp[p] # None /\ pc[p] = "open" /\ pc' = [pc EXCEPT ![p] = "written"]
    BY <1>4 DEF Files!Write
  <2>2. temp' = [temp EXCEPT ![p].whole = TRUE]
    BY <1>4, <2>1 DEF Files!Write
  <2>3. CASE q = p
    <3>1. /\ temp'[p] \in Files!Bytes
          /\ temp'[p].whole /\ temp'[p].by = temp[p].by /\ temp'[p].want = temp[p].want
      <4>1. temp'[p] = [temp[p] EXCEPT !.whole = TRUE]
        BY <2>2
      <4>2. PICK by \in Proc \cup {None}, whole \in BOOLEAN, mode \in Files!Mode, want \in Files!Mode :
              temp[p] = [by |-> by, whole |-> whole, mode |-> mode, want |-> want]
        BY <2>1
      <4>3. temp'[p] = [[by |-> by, whole |-> whole, mode |-> mode, want |-> want] EXCEPT !.whole = TRUE]
        BY <4>1, <4>2, Zenon
      <4>4. temp'[p] = [by |-> by, whole |-> TRUE, mode |-> mode, want |-> want]
        BY <4>3
      <4> QED
        BY <4>2, <4>4
    <3>2. TempOf(p) /\ pc'[p] = "written" /\ temp'[p] # None
      BY <2>1, <3>1
    <3> QED
      BY <2>1, <2>3, <3>1, <3>2
  <2>4. CASE q # p
    BY <2>1, <2>2, <2>4
  <2> QED
    BY <2>3, <2>4
<1>5. CASE Files!SetMode(p)
  BY <1>5 DEF Files!SetMode
<1>6. CASE Files!Rename(p) \/ Files!CleanUp(p)
  BY <1>6 DEF Files!Rename, Files!CleanUp
<1> QED
  BY <1>1, <1>2, <1>3, <1>4, <1>5, <1>6 DEF Files!Step

LEMMA SweepStep ==
  ASSUME Files!FilesAssumption, Foreign = {}, FilesInv, NEW p \in Proc,
         Files!Start(p) \/ Files!Step(p) \/ Files!Fails(p) \/ Files!Kill(p)
  PROVE  \A q \in Proc : SweepOf(q)'
<1> SUFFICES ASSUME NEW q \in Proc PROVE SweepOf(q)'
  OBVIOUS
<1> USE DEF Files!FilesAssumption, FilesInv, Files!TypeOK, SweepOf, Files!Moves, BeforeOpen, Files!Over
<1>1. \A x \in Proc : pc[x] \notin BeforeOpen => pc'[x] \notin BeforeOpen
  BY DEF Files!Start, Files!Step, Files!SweepLooks, Files!SweepRemoves, Files!Swept, Files!Open,
       Files!Write, Files!SetMode, Files!Rename, Files!CleanUp, Files!Fails, Files!Kill, Files!Running
<1>2. \A x \in Proc : pc[x] \in Files!Over => pc'[x] = pc[x]
  BY DEF Files!Start, Files!Step, Files!SweepLooks, Files!SweepRemoves, Files!Swept, Files!Open,
       Files!Write, Files!SetMode, Files!Rename, Files!CleanUp, Files!Fails, Files!Kill, Files!Running
<1>3. CASE Files!Start(p)
  BY <1>1, <1>2, <1>3 DEF Files!Start, Files!Temps, TempOf, OpenOrReady
<1>4. CASE Files!SweepLooks(p)
  <2>1. PICK x \in todo[p] :
          /\ todo' = [todo EXCEPT ![p] = @ \ {x}]
          /\ absent' = [absent EXCEPT ![p] = IF Files!Seen(p, Pid[x]) THEN None ELSE x]
    BY <1>4 DEF Files!SweepLooks
  <2>2. x \in Proc /\ pc[x] \notin BeforeOpen
    OBVIOUS
  <2>3. pc[x] \in Files!Running => Files!Seen(p, Pid[x])
    BY <2>2 DEF Files!Seen
  <2>4. ~Files!Seen(p, Pid[x]) => pc[x] \in Files!Over
    BY <2>2, <2>3 DEF Files!Running
  <2> QED
    BY <1>4, <2>1, <2>2, <2>4 DEF Files!SweepLooks
<1>5. CASE Files!SweepRemoves(p) \/ Files!Swept(p) \/ Files!Fails(p) \/ Files!Kill(p)
  BY <1>1, <1>2, <1>5 DEF Files!SweepRemoves, Files!Swept, Files!Fails, Files!Kill
<1>6. CASE Files!Open(p) \/ Files!Write(p) \/ Files!SetMode(p) \/ Files!Rename(p) \/ Files!CleanUp(p)
  BY <1>1, <1>2, <1>6 DEF Files!Open, Files!Write, Files!SetMode, Files!Rename, Files!CleanUp
<1> QED
  BY <1>3, <1>4, <1>5, <1>6 DEF Files!Step

LEMMA FileStep ==
  ASSUME Files!FilesAssumption, FilesInv, NEW p \in Proc,
         Files!Start(p) \/ Files!Step(p) \/ Files!Fails(p) \/ Files!Kill(p)
  PROVE  Files!ReadersSeeWhole'
<1> USE DEF Files!FilesAssumption, FilesInv, Files!TypeOK, Files!ReadersSeeWhole
<1>1. CASE Files!Rename(p)
  BY <1>1 DEF Files!Rename, TempOf, Files!Bytes
<1>2. CASE ~Files!Rename(p)
  BY <1>2 DEF Files!Start, Files!Step, Files!SweepLooks, Files!SweepRemoves, Files!Swept, Files!Open,
       Files!Write, Files!SetMode, Files!CleanUp, Files!Fails, Files!Kill
<1> QED
  BY <1>1, <1>2

LEMMA FilesNext == ASSUME Files!FilesAssumption, Foreign = {}, FilesInv, [Files!Next]_(Files!vars) PROVE FilesInv'
<1>1. CASE Files!Next
  BY <1>1, FilesTypeStep, TempStep, SweepStep, FileStep DEF Files!Next, FilesInv
<1>2. CASE UNCHANGED Files!vars
  BY <1>2 DEF Files!vars, FilesInv, Files!TypeOK, Files!ReadersSeeWhole, TempOf, SweepOf
<1> QED
  BY <1>1, <1>2

LEMMA FilesInvariance == ASSUME Files!FilesAssumption, Foreign = {} PROVE Files!Spec => []FilesInv
<1>1. Files!Init => FilesInv
  BY FilesInit
<1>2. FilesInv /\ [Files!Next]_(Files!vars) => FilesInv'
  BY FilesNext
<1> QED
  BY <1>1, <1>2, PTL DEF Files!Spec

\* No step of a writer leaves the states of the model.
THEOREM FilesTypeCorrect == ASSUME Files!FilesAssumption, Foreign = {} PROVE Files!Spec => []Files!TypeOK
<1>1. FilesInv => Files!TypeOK
  BY DEF FilesInv
<1> QED
  BY <1>1, FilesInvariance, PTL

\* The sweep of one writer removes no temporary that another still needs, although a pid may be
\* used again (cleanup_stale_atomic_temp_files), as long as writers see each other's pids.
THEOREM SweepsSpareTheRunning == ASSUME Files!FilesAssumption, Foreign = {} PROVE Files!Spec => []Files!NeededTempsStay
<1>1. FilesInv => Files!NeededTempsStay
  BY DEF FilesInv, TempOf, OpenOrReady, Files!NeededTempsStay
<1> QED
  BY <1>1, FilesInvariance, PTL

\* A writer that ends, even by an error, takes its temporary with it; what stays is of a killed one.
THEOREM OnlyTheKilledLeave == ASSUME Files!FilesAssumption, Foreign = {} PROVE Files!Spec => []Files!GarbageIsOfTheKilled
<1>1. FilesInv => Files!GarbageIsOfTheKilled
  BY DEF FilesInv, TempOf, OpenOrReady, Files!GarbageIsOfTheKilled, Files!Temps, Files!Running
<1> QED
  BY <1>1, FilesInvariance, PTL

\* A reader finds a whole file, and private content under its narrow mode only (write_bytes_atomic).
THEOREM ReplacementIsAtomic == ASSUME Files!FilesAssumption, Foreign = {} PROVE Files!Spec => []Files!ReadersSeeWhole
<1>1. FilesInv => Files!ReadersSeeWhole
  BY DEF FilesInv
<1> QED
  BY <1>1, FilesInvariance, PTL
=============================================================================
