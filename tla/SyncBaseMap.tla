----------------------------- MODULE SyncBaseMap -----------------------------
(***************************************************************************)
(* What a Sync Base store promises: a map from Sync Units to contents.  A  *)
(* save or a discard takes effect at one instant between its call and its  *)
(* return, one that is turned down has no effect, a save never lands on a  *)
(* corrupt record, and a power loss undoes nothing that was reported safe. *)
(***************************************************************************)
CONSTANTS Proc, Unit, Payload, Absent, Corrupt, NoCall

VARIABLES
  base,       \* what a reader of the store gets for each unit
  recoveries, \* the maps a power loss can bring back
  call,       \* the save or discard each process is running
  taken,      \* the processes whose call has taken effect
  outcome     \* how each process's last call ended

vars == <<base, recoveries, call, taken, outcome>>

Init ==
  /\ recoveries = {base}
  /\ call = [p \in Proc |-> NoCall]
  /\ taken = {}
  /\ outcome = [p \in Proc |-> "none"]

Begin(p) ==
  /\ call[p] = NoCall
  /\ \/ /\ \E u \in Unit, v \in Payload \cup {Absent} :
             call' = [call EXCEPT ![p] = [unit |-> u, payload |-> v]]
        /\ outcome' = [outcome EXCEPT ![p] = "none"]
     \/ /\ outcome' = [outcome EXCEPT ![p] = "rejected"]
        /\ UNCHANGED call
  /\ UNCHANGED <<base, recoveries, taken>>

TakeEffect(p) ==
  /\ call[p] # NoCall /\ p \notin taken
  /\ call[p].payload # Absent => base[call[p].unit] # Corrupt
  /\ base' = [base EXCEPT ![call[p].unit] = call[p].payload]
  /\ recoveries' = recoveries \cup {base'}
  /\ taken' = taken \cup {p}
  /\ UNCHANGED <<call, outcome>>

\* how a call may be reported to have ended
Truthful(p, how) ==
  \/ how = "saved" /\ p \in taken /\ recoveries' = {base}
  \/ how = "uncertain" /\ p \in taken
  \/ how = "reset" /\ p \in taken /\ recoveries' = {base}
  \/ how = "already absent" /\ base[call[p].unit] = Absent
  \/ how = "rejected" /\ p \notin taken
  \/ how = "failed" /\ p \in taken /\ call[p].payload = Absent
  \/ how = "interrupted"

Return(p) ==
  /\ call[p] # NoCall
  /\ recoveries' \in {recoveries, {base}}
  /\ \E how \in {"saved", "uncertain", "reset", "already absent", "rejected",
                 "failed", "interrupted"} :
       /\ Truthful(p, how)
       /\ outcome' = [outcome EXCEPT ![p] = how]
  /\ call' = [call EXCEPT ![p] = NoCall]
  /\ taken' = taken \ {p}
  /\ UNCHANGED base

\* effects become safe on their own too
Settle ==
  /\ recoveries' = {base}
  /\ UNCHANGED <<base, call, taken, outcome>>

Kill(p) ==
  /\ call' = [call EXCEPT ![p] = NoCall]
  /\ taken' = taken \ {p}
  /\ UNCHANGED <<base, recoveries, outcome>>

PowerLoss ==
  /\ base' \in recoveries
  /\ recoveries' = {base'}
  /\ call' = [p \in Proc |-> NoCall]
  /\ taken' = {}
  /\ UNCHANGED outcome

Next ==
  \/ \E p \in Proc : Begin(p) \/ TakeEffect(p) \/ Return(p) \/ Kill(p)
  \/ Settle
  \/ PowerLoss

Spec == Init /\ [][Next]_vars
=============================================================================
