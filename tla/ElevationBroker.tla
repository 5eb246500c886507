--------------------------- MODULE ElevationBroker ---------------------------
(***************************************************************************)
(* The broker through which the children of one command ask for sudo       *)
(* (elevation.py): a serving thread that accepts, a handler thread per     *)
(* connection, one authentication at a time on the user's terminal, and    *)
(* the closing of it all when the command has exited.                      *)
(***************************************************************************)
EXTENDS Naturals, Sequences, FiniteSets

CONSTANTS
  Client,   \* processes of the command that ask for elevation
  Backlog   \* connections the kernel queues before another connect blocks

BrokerAssumption == Backlog \in Nat \ {0} /\ "wake" \notin Client

VARIABLES
  client,     \* where a client is, or the answer it got
  handler,    \* where the thread of its connection is
  reply,      \* the answer the handler has for it
  shut,       \* connections that close() has shut down
  queue,      \* connections that are not accepted yet
  serving,    \* where the serving thread is: checking, blocked, ended, or the connection it has
  stop,       \* _stop_event
  closer,     \* where close() is
  draining,   \* the connections it waits for
  latch       \* the cancellation of the broker's operation

threads == <<client, handler, reply>>
closing == <<stop, closer, draining, shut>>
vars == <<threads, queue, serving, closing, latch>>

Answer == {"ok", "denied", "interrupted"}
Waiting == {"connected", "sent"}
Live == {"reading", "waiting", "locked", "asking", "replying"}

TypeOK ==
  /\ client \in [Client -> {"idle", "failed", "gone"} \cup Waiting \cup Answer]
  /\ handler \in [Client -> {"none", "ended"} \cup Live]
  /\ reply \in [Client -> Answer]
  /\ shut \subseteq Client /\ draining \subseteq Client
  /\ queue \in Seq(Client \cup {"wake"})
  /\ serving \in {"checking", "blocked", "ended", "wake"} \cup Client
  /\ stop \in BOOLEAN /\ latch \in BOOLEAN
  /\ closer \in {"idle", "stopping", "joining", "closing", "shutting", "draining", "closed"}

\* _request_lock and _authenticating
Holder == {c \in Client : handler[c] \in {"locked", "asking"}}
Authenticating == \E c \in Client : handler[c] = "asking"

\* the listening socket takes connections until it is closed
Listening == closer \in {"idle", "stopping", "joining", "closing"}
Room == Len(queue) <= Backlog

-----------------------------------------------------------------------------
(* The clients (request_elevation_from_env and the sudo shim)              *)

Connect(c) ==
  /\ client[c] = "idle"
  /\ IF Listening
     THEN Room /\ client' = [client EXCEPT ![c] = "connected"] /\ queue' = Append(queue, c)
     ELSE client' = [client EXCEPT ![c] = "failed"] /\ UNCHANGED queue
  /\ UNCHANGED <<handler, reply, serving, closing, latch>>

Send(c) ==
  /\ client[c] = "connected"
  /\ client' = [client EXCEPT ![c] = "sent"]
  /\ UNCHANGED <<handler, reply, queue, serving, closing, latch>>

\* killed with its command, or interrupted
Leave(c) ==
  /\ client[c] \in Waiting
  /\ client' = [client EXCEPT ![c] = "gone"]
  /\ UNCHANGED <<handler, reply, queue, serving, closing, latch>>

-----------------------------------------------------------------------------
(* The serving thread                                                      *)

LoopCheck ==
  /\ serving = "checking"
  /\ serving' = IF stop THEN "ended" ELSE "blocked"
  /\ UNCHANGED <<threads, queue, closing, latch>>

Accept ==
  /\ serving = "blocked" /\ queue # <<>>
  /\ serving' = Head(queue) /\ queue' = Tail(queue)
  /\ UNCHANGED <<threads, closing, latch>>

Dropped(clients) == [c \in Client |-> IF c \in clients /\ client[c] \in Waiting THEN "failed" ELSE client[c]]

\* under _connections_lock
Register ==
  /\ serving \in Client \cup {"wake"}
  /\ IF stop
     THEN serving' = "ended" /\ client' = Dropped({serving}) /\ UNCHANGED handler
     ELSE /\ serving' = "checking"
          /\ handler' = [c \in Client |-> IF c = serving THEN "reading" ELSE handler[c]]
          /\ UNCHANGED client
  /\ UNCHANGED <<reply, queue, closing, latch>>

-----------------------------------------------------------------------------
(* The handlers (_handle_connection)                                       *)

Moves(c, to) == handler' = [handler EXCEPT ![c] = to]
Says(c, answer) == Moves(c, "replying") /\ reply' = [reply EXCEPT ![c] = answer]

ReadPayload(c) ==
  /\ handler[c] = "reading"
  /\ \/ client[c] = "sent" /\ Moves(c, "waiting") /\ UNCHANGED reply
     \/ (client[c] = "gone" \/ c \in shut) /\ Says(c, "denied")
  /\ UNCHANGED <<client, queue, serving, closing, latch>>

TakeLock(c) ==
  /\ handler[c] = "waiting" /\ Holder = {}
  /\ Moves(c, "locked")
  /\ UNCHANGED <<client, reply, queue, serving, closing, latch>>

\* the stop flag is read and _authenticating set under _connections_lock
NeverStops(c) ==                                                                  \* mutant
  /\ handler[c] = "locked"
  /\ Moves(c, "asking") /\ UNCHANGED reply
  /\ UNCHANGED <<client, queue, serving, closing, latch>>
Begin(c) ==
  /\ handler[c] = "locked"
  /\ IF stop THEN Says(c, "interrupted") ELSE Moves(c, "asking") /\ UNCHANGED reply
  /\ UNCHANGED <<client, queue, serving, closing, latch>>

\* request_sudo: the user answers the prompt
Authenticate(c) ==
  /\ handler[c] = "asking" /\ ~latch
  /\ \E answer \in Answer : Says(c, answer)
  /\ UNCHANGED <<client, queue, serving, closing, latch>>

\* the runtime stops the prompt of a cancelled operation
StopPrompt(c) ==
  /\ handler[c] = "asking" /\ latch
  /\ Says(c, "interrupted")
  /\ UNCHANGED <<client, queue, serving, closing, latch>>

WriteReply(c) ==
  /\ handler[c] = "replying"
  /\ Moves(c, "ended")
  /\ client' = IF client[c] \in Waiting /\ c \notin shut THEN [client EXCEPT ![c] = reply[c]] ELSE client
  /\ UNCHANGED <<reply, queue, serving, closing, latch>>

-----------------------------------------------------------------------------
(* close()                                                                 *)

BeginClose ==
  /\ closer = "idle"
  /\ closer' = "stopping" /\ stop' = TRUE
  /\ UNCHANGED <<threads, queue, serving, draining, shut, latch>>

\* a throwaway connection returns the blocked accept()
Wake ==
  /\ closer = "stopping" /\ Room
  /\ closer' = "joining" /\ queue' = Append(queue, "wake")
  /\ UNCHANGED <<threads, serving, stop, draining, shut, latch>>

Join ==
  /\ closer = "joining" /\ serving = "ended"
  /\ closer' = "closing"
  /\ UNCHANGED <<threads, queue, serving, stop, draining, shut, latch>>

\* the socket is closed, then the connections and the prompt are seen at one instant
Snapshot ==
  /\ closer = "closing"
  /\ closer' = "shutting"
  /\ client' = Dropped({c \in Client : \E i \in DOMAIN queue : queue[i] = c})
  /\ queue' = <<>>
  /\ draining' = {c \in Client : handler[c] \in Live}
  /\ latch' = (latch \/ Authenticating)
  /\ UNCHANGED <<handler, reply, serving, stop, shut>>

Shutdown ==
  /\ closer = "shutting"
  /\ closer' = "draining" /\ shut' = draining
  /\ client' = Dropped(draining)
  /\ UNCHANGED <<handler, reply, queue, serving, stop, draining, latch>>

Closed ==
  /\ closer = "draining" /\ \A c \in draining : handler[c] = "ended"
  /\ closer' = "closed"
  /\ UNCHANGED <<threads, queue, serving, stop, draining, shut, latch>>

-----------------------------------------------------------------------------

Init ==
  /\ client = [c \in Client |-> "idle"] /\ handler = [c \in Client |-> "none"]
  /\ reply = [c \in Client |-> "denied"]
  /\ queue = <<>> /\ serving = "checking" /\ stop = FALSE
  /\ closer = "idle" /\ draining = {} /\ shut = {} /\ latch = FALSE

Serve == LoopCheck \/ Accept \/ Register
Handle(c) == ReadPayload(c) \/ TakeLock(c) \/ Begin(c) \/ StopPrompt(c) \/ WriteReply(c)
CloseOn == Wake \/ Join \/ Snapshot \/ Shutdown \/ Closed

Next ==
  \/ Serve \/ BeginClose \/ CloseOn
  \/ \E c \in Client : Connect(c) \/ Send(c) \/ Leave(c) \/ Handle(c) \/ Authenticate(c)

Spec == Init /\ [][Next]_vars

-----------------------------------------------------------------------------

\* When close() has returned no handler runs and no prompt is on the terminal, so that
\* nothing restores it behind the Deck (elevation.py, close).
NoLatePrompt == closer = "closed" => \A c \in Client : handler[c] \notin Live

\* The terminal has one prompt at a time.
OnePrompt == \A c, d \in Client : handler[c] = "asking" /\ handler[d] = "asking" => c = d

\* The operation is cancelled only for a prompt that was open when close() looked, and
\* after that no prompt opens: either the handler sees the flag or close() sees the prompt.
NoPromptAfterSnapshot ==
  [][closer \notin {"idle", "stopping", "joining", "closing"} =>
       \A c \in Client : handler'[c] = "asking" => handler[c] = "asking" /\ latch]_vars

\* threads and the runtime go on; users and clients need not
FairSpec ==
  /\ Spec /\ WF_vars(Serve) /\ WF_vars(CloseOn)
  /\ \A c \in Client : WF_vars(Handle(c))

\* A client that has asked is answered or sees its connection end, once the command is
\* over: none waits for an answer that nobody will give.
NoClientIsForgotten ==
  \A c \in Client : (client[c] = "sent" /\ stop) ~> client[c] \notin Waiting
=============================================================================
