-------------------------- MODULE PrivilegedAccess --------------------------
(***************************************************************************)
(* File accesses that need sudo and the lease under which they get it      *)
(* (file_access.py, privileged_ops.py): direct attempts, the one           *)
(* authentication at a time, the ticket of sudo, and the keepalive thread. *)
(***************************************************************************)
EXTENDS Naturals, FiniteSets

CONSTANTS
  Call,        \* calls of read_bytes, write_bytes_atomic, ... and lease commands
  Kind,        \* Kind[c]: "read", "write" (with a mode), "change" or "lease"
  Protected,   \* calls on paths that the user may not access
  Unattended,  \* whether nobody can be asked
  Sessions     \* sudo_session scopes, one in another at the most

AccessAssumption ==
  /\ Kind \in [Call -> {"read", "write", "change", "lease"}]
  /\ Protected \subseteq Call /\ Unattended \in BOOLEAN /\ Sessions \in Nat

VARIABLES
  at,         \* where a call is
  effect,     \* calls whose file effect has taken place
  ticket,     \* whether sudo would grant root without a password
  acquired,   \* _SudoLease._acquired
  keepalive,  \* whether its thread runs
  depth       \* _sudo_lease_depth

lease == <<ticket, acquired, keepalive>>
vars == <<at, effect, lease, depth>>

Ended == {"done", "failed", "interrupted"}
Requesting == {"probing", "prompting"}

TypeOK ==
  /\ at \in [Call -> {"idle", "queued", "granted", "command"} \cup Requesting \cup Ended]
  /\ effect \subseteq Call
  /\ ticket \in BOOLEAN /\ acquired \in BOOLEAN /\ keepalive \in BOOLEAN
  /\ depth \in 0..Sessions

Goes(c, to) == at' = [at EXCEPT ![c] = to]
Requester == {c \in Call : at[c] \in Requesting} \* holder of _sudo_request_lock

-----------------------------------------------------------------------------
(* The direct attempt                                                      *)

\* A lease is asked for at once.  A write may succeed and its chmod be denied.
Attempt(c) ==
  /\ at[c] = "idle"
  /\ IF Kind[c] = "lease" \/ c \in Protected
     THEN /\ Goes(c, "queued")
          /\ effect' \in {effect} \cup (IF Kind[c] = "write" THEN {effect \cup {c}} ELSE {})
     ELSE Goes(c, "done") /\ effect' = effect \cup {c}
  /\ UNCHANGED <<lease, depth>>

-----------------------------------------------------------------------------
(* request_sudo                                                            *)

Enter(c) ==
  /\ at[c] = "queued" /\ Requester = {}
  /\ Goes(c, "probing")
  /\ UNCHANGED <<effect, lease, depth>>

\* A lease that no session holds is closed with the request.
Leaves(held) == acquired' = (held /\ depth > 0) /\ keepalive' = (held /\ depth > 0)

\* "sudo -n -v" finds a ticket
ProbeFinds(c) ==
  /\ at[c] = "probing" /\ ticket
  /\ Leaves(TRUE)
  /\ Goes(c, "granted")
  /\ UNCHANGED <<effect, ticket, depth>>

ProbeFindsNone(c) ==
  /\ at[c] = "probing" /\ ~ticket
  /\ acquired' = FALSE /\ keepalive' = FALSE
  /\ Goes(c, IF Unattended THEN "failed" ELSE "prompting")
  /\ UNCHANGED <<effect, ticket, depth>>

\* "sudo -v" on the terminal
Prompt(c) ==
  /\ at[c] = "prompting"
  /\ \E answer \in {"granted", "failed", "interrupted"} :
       /\ Goes(c, answer)
       /\ Leaves(answer = "granted")
       /\ ticket' = (answer = "granted")
  /\ UNCHANGED <<effect, depth>>

\* the command of the request is stopped, the lock released
Interrupt(c) ==
  /\ at[c] = "probing"
  /\ Goes(c, "interrupted")
  /\ Leaves(acquired)
  /\ UNCHANGED <<effect, ticket, depth>>

-----------------------------------------------------------------------------
(* The privileged operation, or the command that has a lease               *)

Privileged(c) ==
  /\ at[c] = "granted" /\ Kind[c] # "lease"
  /\ \/ ticket /\ Goes(c, "done") /\ effect' = effect \cup {c}
     \/ ticket /\ Goes(c, "interrupted") /\ effect' \in {effect, effect \cup {c}}
     \/ Goes(c, "failed") /\ UNCHANGED effect
  /\ UNCHANGED <<lease, depth>>

StartCommand(c) ==
  /\ at[c] = "granted" /\ Kind[c] = "lease"
  /\ Goes(c, "command")
  /\ UNCHANGED <<effect, lease, depth>>
EndCommand(c) ==
  /\ at[c] = "command"
  /\ Goes(c, "done")
  /\ UNCHANGED <<effect, lease, depth>>

-----------------------------------------------------------------------------
(* sudo and sudo_session                                                   *)

\* the keepalive thread renews the ticket long before it expires
Expire ==
  /\ ticket /\ ~keepalive
  /\ ticket' = FALSE
  /\ UNCHANGED <<at, effect, acquired, keepalive, depth>>

EnterSession ==
  /\ depth < Sessions
  /\ depth' = depth + 1
  /\ UNCHANGED <<at, effect, lease>>

\* the calls a session makes return before it ends
LeaveSession ==
  /\ depth > 0 /\ \A c \in Call : at[c] \in Ended \cup {"idle"}
  /\ depth' = depth - 1
  /\ IF depth = 1 THEN acquired' = FALSE /\ keepalive' = FALSE ELSE UNCHANGED <<acquired, keepalive>>
  /\ UNCHANGED <<at, effect, ticket>>

-----------------------------------------------------------------------------

Init ==
  /\ at = [c \in Call |-> "idle"] /\ effect = {}
  /\ ticket \in BOOLEAN /\ acquired = FALSE /\ keepalive = FALSE /\ depth = 0

Request(c) == Enter(c) \/ ProbeFinds(c) \/ ProbeFindsNone(c) \/ Prompt(c) \/ Interrupt(c)

Next ==
  \/ \E c \in Call : Attempt(c) \/ Request(c) \/ Privileged(c) \/ StartCommand(c) \/ EndCommand(c)
  \/ Expire \/ EnterSession \/ LeaveSession

Spec == Init /\ [][Next]_vars

-----------------------------------------------------------------------------

\* No keepalive thread outlives the session or the request it was started for, whose
\* runtime it would keep.
NoStrayKeepalive == depth = 0 /\ Requester = {} => ~keepalive /\ ~acquired

\* Within a session a lease once acquired is good until the session ends: the ticket
\* does not expire between the request and the privileged operation.
LeaseIsGood == acquired => ticket /\ keepalive

\* No two threads ask for a password at a time, and within a session none asks for one
\* that has already been given.
AskedOnce ==
  [][\A c \in Call : at'[c] = "prompting" /\ at[c] # "prompting" =>
       ~acquired /\ \A d \in Call \ {c} : at[d] # "prompting"]_vars

=============================================================================
