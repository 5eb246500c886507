---------------------------- MODULE SyncBaseStore ----------------------------
(***************************************************************************)
(* One repository's Sync Base storage (sync_base_store.py) used by several *)
(* processes at once.  The store is modelled on its own: its callers also  *)
(* serialise real operations with the manager lock, and nothing here needs *)
(* it.  A step is one change of the directory tree, so a process can be    *)
(* killed, and the machine can lose power, between any two changes.        *)
(*                                                                         *)
(* The file system is ordered: changes of directories reach the disk in    *)
(* the order they were made, and fsync of a directory writes every change  *)
(* made before it.  `disk` holds the trees a power loss can bring back.    *)
(***************************************************************************)
EXTENDS FiniteSets

CONSTANTS
  Writers,     \* processes that open the store for writing
  Readers,     \* processes that open it read-only: list, info, doctor, previews
  Unit,        \* Sync Units of the repository
  Target,      \* tracked targets: one directory of records each
  TargetOf,    \* the target of each Sync Unit
  Payload,     \* what a healthy record can hold
  Absent,      \* no record file
  Corrupt,     \* a record file that does not validate
  Unversioned, \* a record of a store without the layout marker
  Unread,      \* a record that a read transaction has not read yet
  NoCall       \* no save or discard is running

Proc    == Writers \cup Readers
Content == Payload \cup {Absent, Corrupt, Unversioned}

ASSUME ContentAssumption ==
  /\ Writers \cap Readers = {}
  /\ TargetOf \in [Unit -> Target]
  /\ Absent \notin Payload /\ Corrupt \notin Payload /\ Unversioned \notin Payload
  /\ Absent # Corrupt /\ Absent # Unversioned /\ Corrupt # Unversioned
  /\ Unread \notin Content
  /\ NoCall \notin [unit : Unit, payload : Payload \cup {Absent}]

VARIABLES
  pc,        \* where each process is, and so what it holds of the store lock
  call,      \* the save (a payload) or discard (Absent) each process is running
  seen,      \* what each read transaction has read
  outcome,   \* how each process's last call ended
  fs,        \* the directory tree every process sees
  disk,      \* the trees a power loss can bring back
  confirmed  \* history: payload of the last save reported without a warning

vars == <<pc, call, seen, outcome, fs, disk, confirmed>>

RootName == {"layout", "lock", "bases"}

FileSystem == [names  : SUBSET RootName,   \* entries of repos/<state_key>
               groups : SUBSET Target,     \* directories below bases/
               temps  : SUBSET Target,     \* groups with an orphaned temporary
               record : [Unit -> Content]] \* each unit's record file

\* points at which the process holds the store lock
Saving       == {"enter", "rename", "renamed"}
Discarding   == {"unlink", "unlinked", "removed"}
Establishing == {"drop", "marked"}
Exclusive    == Saving \cup Discarding \cup Establishing
Shared       == {"validating", "reading"}
Point        == {"closed", "establish", "validate", "open"} \cup Exclusive \cup Shared

\* flock(LOCK_NB) succeeds at once or fails at once; nothing ever waits for it
SharedGranted(p)    == \A q \in Proc \ {p} : pc[q] \notin Exclusive
IgnoresReaders(p)   == \A q \in Proc \ {p} : pc[q] \notin Exclusive    \* mutant
ExclusiveGranted(p) == \A q \in Proc \ {p} : pc[q] \notin Exclusive \cup Shared

GoTo(p, point) == pc' = [pc EXCEPT ![p] = point]

\* a change that a power loss may still undo, and the fsync after which it cannot
Change(tree) == fs' = tree /\ disk' = disk \cup {tree}
Flush        == fs' = fs /\ disk' = {fs}
Keep         == UNCHANGED <<fs, disk>>

NoRecords       == [u \in Unit |-> Absent]
GroupOf(p)      == TargetOf[call[p].unit]
NoRecordIn(t)   == \A u \in Unit : TargetOf[u] = t => fs.record[u] = Absent
Unconfirm(u)    == confirmed' = [confirmed EXCEPT ![u] = Absent]

\* a call ends: its lock is released and its caller told how it went
Return(p, how) ==
  /\ GoTo(p, "open")
  /\ call' = [call EXCEPT ![p] = NoCall]
  /\ outcome' = [outcome EXCEPT ![p] = how]
  /\ UNCHANGED seen

-----------------------------------------------------------------------------
(* Opening.  A writer establishes a store that has no marker; a store of   *)
(* which an interrupted creation left only the marker gets its lock back;  *)
(* any other store without a lock is refused, and so never leaves "closed".*)

\* mutant: a missing lock does not stop an opening
OpenUnlocked(p) ==
  /\ pc[p] = "closed"
  /\ \/ /\ "layout" \in fs.names
        /\ Keep
        /\ GoTo(p, "validate")
     \/ /\ "layout" \notin fs.names /\ p \in Writers
        /\ Change([fs EXCEPT !.names = @ \cup {"lock"}])
        /\ GoTo(p, "establish")
  /\ UNCHANGED <<call, seen, outcome, confirmed>>

Open(p) ==
  /\ pc[p] = "closed"
  /\ \/ /\ {"layout", "lock"} \subseteq fs.names
        /\ Keep
        /\ GoTo(p, "validate")
     \/ /\ fs.names = {"layout"} /\ p \in Writers
        /\ fs' = [fs EXCEPT !.names = {"layout", "lock"}]
        /\ disk' = {fs'}
        /\ GoTo(p, "validate")
     \/ /\ "layout" \notin fs.names /\ p \in Writers
        /\ Change([fs EXCEPT !.names = @ \cup {"lock"}])
        /\ GoTo(p, "establish")
  /\ UNCHANGED <<call, seen, outcome, confirmed>>

StartEstablish(p) ==
  /\ pc[p] = "establish"
  /\ \/ ExclusiveGranted(p) /\ "layout" \notin fs.names /\ GoTo(p, "drop")
     \/ ExclusiveGranted(p) /\ "layout" \in fs.names /\ GoTo(p, "validate")
     \/ ~ExclusiveGranted(p) /\ GoTo(p, "closed")
  /\ Keep /\ UNCHANGED <<call, seen, outcome, confirmed>>

\* records without a marker are untrusted: group after group is emptied,
\* removed, and its removal flushed
DropGroup(p) ==
  /\ pc[p] = "drop"
  /\ \E t \in fs.groups :
       /\ fs' = [fs EXCEPT !.groups = @ \ {t}, !.temps = @ \ {t},
                   !.record = [u \in Unit |-> IF TargetOf[u] = t THEN Absent ELSE @[u]]]
       /\ disk' = {fs'}
  /\ UNCHANGED <<pc, call, seen, outcome, confirmed>>

\* mutant: the marker is written before the records are dropped
MarkFirst(p) ==
  /\ pc[p] = "drop"
  /\ Change([fs EXCEPT !.names = @ \cup {"layout"}])
  /\ GoTo(p, "marked")
  /\ UNCHANGED <<call, seen, outcome, confirmed>>

\* the marker is written last
WriteMarker(p) ==
  /\ pc[p] = "drop" /\ fs.groups = {}
  /\ Change([fs EXCEPT !.names = @ \cup {"layout"}])
  /\ GoTo(p, "marked")
  /\ UNCHANGED <<call, seen, outcome, confirmed>>

FlushMarker(p) ==
  /\ pc[p] = "marked"
  /\ Flush
  /\ GoTo(p, "validate")
  /\ UNCHANGED <<call, seen, outcome, confirmed>>

\* mutant: the opening waits for the lock
WaitToValidate(p) ==
  /\ pc[p] = "validate" /\ SharedGranted(p)
  /\ GoTo(p, "validating")
  /\ Keep /\ UNCHANGED <<call, seen, outcome, confirmed>>

\* validate_tree and _require_layout run under a shared lock
StartValidation(p) ==
  /\ pc[p] = "validate"
  /\ GoTo(p, IF SharedGranted(p) THEN "validating" ELSE "closed")
  /\ Keep /\ UNCHANGED <<call, seen, outcome, confirmed>>

FinishValidation(p) ==
  /\ pc[p] = "validating"
  /\ GoTo(p, IF "layout" \in fs.names THEN "open" ELSE "closed")
  /\ Keep /\ UNCHANGED <<call, seen, outcome, confirmed>>

\* the handle is closed, or the opening fails on an error or an interrupt
Close(p) ==
  /\ pc[p] \in {"open", "establish", "validate", "validating"} \cup Establishing
  /\ GoTo(p, "closed")
  /\ Keep /\ UNCHANGED <<call, seen, outcome, confirmed>>

-----------------------------------------------------------------------------
(* replace and delete                                                      *)

\* a call takes the exclusive lock or is turned away
Begin(p, u, v, point) ==
  /\ pc[p] = "open" /\ p \in Writers
  /\ \/ /\ ExclusiveGranted(p)
        /\ GoTo(p, point)
        /\ call' = [call EXCEPT ![p] = [unit |-> u, payload |-> v]]
        /\ outcome' = [outcome EXCEPT ![p] = "none"]
     \/ /\ ~ExclusiveGranted(p)
        /\ outcome' = [outcome EXCEPT ![p] = "rejected"]
        /\ UNCHANGED <<pc, call>>
  /\ Keep /\ UNCHANGED <<seen, confirmed>>

Replace(p) == \E u \in Unit, v \in Payload : Begin(p, u, v, "enter")
Blank(p)   == \E u \in Unit : Begin(p, u, Unread, "enter")               \* mutant
Delete(p)  == \E u \in Unit : Begin(p, u, Absent, "unlink")

\* mutant: what the record holds is not checked
EnterUnchecked(p) ==
  /\ pc[p] = "enter"
  /\ fs' = [fs EXCEPT !.names = @ \cup {"bases"}, !.groups = @ \cup {GroupOf(p)}]
  /\ disk' = IF fs' = fs THEN disk ELSE {fs'}
  /\ GoTo(p, "rename")
  /\ UNCHANGED <<call, seen, outcome, confirmed>>

\* the group directory is made, and flushed, unless it is there; a corrupt
\* record is unavailable, not permission to overwrite it silently
EnterGroup(p) ==
  /\ pc[p] = "enter"
  /\ fs' = [fs EXCEPT !.names = @ \cup {"bases"}, !.groups = @ \cup {GroupOf(p)}]
  /\ disk' = IF fs' = fs THEN disk ELSE {fs'}
  /\ IF fs.record[call[p].unit] = Corrupt
       THEN Return(p, "rejected")
       ELSE GoTo(p, "rename") /\ UNCHANGED <<call, seen, outcome>>
  /\ UNCHANGED confirmed

\* the commit: the flushed temporary takes the record's name
Rename(p) ==
  /\ pc[p] = "rename"
  /\ Change([fs EXCEPT !.record[call[p].unit] = call[p].payload])
  /\ Unconfirm(call[p].unit)
  /\ GoTo(p, "renamed")
  /\ UNCHANGED <<call, seen, outcome>>

\* mutant: the directory is not flushed after the rename
NoFlushAfterRename(p) ==
  /\ pc[p] = "renamed"
  /\ Keep
  /\ Return(p, "saved")
  /\ confirmed' = [confirmed EXCEPT ![call[p].unit] = call[p].payload]

FlushRename(p) ==
  /\ pc[p] = "renamed"
  /\ \/ /\ Flush
        /\ Return(p, "saved")
        /\ confirmed' = [confirmed EXCEPT ![call[p].unit] = call[p].payload]
     \/ /\ Keep
        /\ Return(p, "uncertain")
        /\ UNCHANGED confirmed

Unlink(p) ==
  /\ pc[p] = "unlink"
  /\ IF fs.record[call[p].unit] = Absent
       THEN Return(p, "already absent") /\ Keep /\ UNCHANGED confirmed
       ELSE /\ Change([fs EXCEPT !.record[call[p].unit] = Absent])
            /\ Unconfirm(call[p].unit)
            /\ GoTo(p, "unlinked")
            /\ UNCHANGED <<call, seen, outcome>>

\* after the flush an empty group is removed, unless an orphan keeps it
FlushUnlink(p) ==
  /\ pc[p] = "unlinked"
  /\ IF NoRecordIn(GroupOf(p)) /\ GroupOf(p) \notin fs.temps
       THEN /\ fs' = [fs EXCEPT !.groups = @ \ {GroupOf(p)}]
            /\ disk' = {fs, fs'}
            /\ GoTo(p, "removed")
            /\ UNCHANGED <<call, seen, outcome>>
       ELSE Flush /\ Return(p, "reset")
  /\ UNCHANGED confirmed

FlushRemoval(p) ==
  /\ pc[p] = "removed"
  /\ Flush
  /\ Return(p, "reset")
  /\ UNCHANGED confirmed

\* mutant: a failed flush after the commit is reported as a failed save
FailsAfterCommit(p) ==
  /\ pc[p] \in Saving \cup Discarding
  /\ Return(p, "rejected")
  /\ Keep /\ UNCHANGED confirmed

\* a file-system error; a failed fsync after a commit is FlushRename's business
CallFails(p) ==
  /\ \/ pc[p] \in {"enter", "rename", "unlink"} /\ Return(p, "rejected")
     \/ pc[p] \in {"unlinked", "removed"} /\ Return(p, "failed")
  /\ Keep /\ UNCHANGED confirmed

\* KeyboardInterrupt unwinds the call: lock and temporary are released
Interrupt(p) ==
  /\ pc[p] \in Saving \cup Discarding
  /\ Return(p, "interrupted")
  /\ Keep /\ UNCHANGED confirmed

-----------------------------------------------------------------------------
(* Read transactions                                                       *)

BeginRead(p) ==
  /\ pc[p] = "open" /\ SharedGranted(p)
  /\ GoTo(p, "reading")
  /\ Keep /\ UNCHANGED <<call, seen, outcome, confirmed>>

Read(p) ==
  /\ pc[p] = "reading"
  /\ \E u \in Unit : /\ seen[p][u] = Unread
                     /\ seen' = [seen EXCEPT ![p][u] = fs.record[u]]
  /\ Keep /\ UNCHANGED <<pc, call, outcome, confirmed>>

EndRead(p) ==
  /\ pc[p] = "reading"
  /\ GoTo(p, "open")
  /\ seen' = [seen EXCEPT ![p] = [u \in Unit |-> Unread]]
  /\ Keep /\ UNCHANGED <<call, outcome, confirmed>>

-----------------------------------------------------------------------------
(* Faults                                                                  *)

\* the process is killed: the kernel drops its lock, its temporary may stay
Kill(p) ==
  /\ pc[p] # "closed"
  /\ GoTo(p, "closed")
  /\ call' = [call EXCEPT ![p] = NoCall]
  /\ seen' = [seen EXCEPT ![p] = [u \in Unit |-> Unread]]
  /\ \/ Keep
     \/ pc[p] = "rename" /\ Change([fs EXCEPT !.temps = @ \cup {GroupOf(p)}])
  /\ UNCHANGED <<outcome, confirmed>>

\* every process dies and the disk brings back one of its trees
PowerLoss ==
  /\ fs' \in disk
  /\ disk' = {fs'}
  /\ pc' = [p \in Proc |-> "closed"]
  /\ call' = [p \in Proc |-> NoCall]
  /\ seen' = [p \in Proc |-> [u \in Unit |-> Unread]]
  /\ UNCHANGED <<outcome, confirmed>>

-----------------------------------------------------------------------------
(* Initially there is no store, the marker that an interrupted creation    *)
(* wrote first, the store of an older dotman, which has no marker, or an   *)
(* established one, some of its records damaged.                           *)

GroupsOf(record) == {TargetOf[u] : u \in {x \in Unit : record[x] # Absent}}

InitTree ==
  \E record \in [Unit -> Content], names \in {{}, {"layout"}, {"lock", "bases"}, RootName} :
    /\ fs = [names |-> names, groups |-> GroupsOf(record), temps |-> {}, record |-> record]
    /\ "bases" \notin names => record = NoRecords
    /\ \A u \in Unit : IF names = RootName THEN record[u] # Unversioned
                                        ELSE record[u] \in {Absent, Unversioned}

Init ==
  /\ InitTree
  /\ disk = {fs}
  /\ pc = [p \in Proc |-> "closed"]
  /\ call = [p \in Proc |-> NoCall]
  /\ seen = [p \in Proc |-> [u \in Unit |-> Unread]]
  /\ outcome = [p \in Proc |-> "none"]
  /\ confirmed = NoRecords

\* the next step of what a process has begun
Progress(p) ==
  \/ StartEstablish(p) \/ DropGroup(p) \/ WriteMarker(p) \/ FlushMarker(p)
  \/ StartValidation(p) \/ FinishValidation(p)
  \/ EnterGroup(p) \/ Rename(p) \/ FlushRename(p)
  \/ Unlink(p) \/ FlushUnlink(p) \/ FlushRemoval(p)
  \/ EndRead(p)

Next ==
  \/ \E p \in Proc :
       \/ Progress(p)
       \/ Open(p) \/ Close(p) \/ Replace(p) \/ Delete(p) \/ BeginRead(p) \/ Read(p)
       \/ CallFails(p) \/ Interrupt(p) \/ Kill(p)
  \/ PowerLoss

Spec == Init /\ [][Next]_vars

\* a process that is not killed executes the call it is in
FairSpec == Spec /\ \A p \in Proc : WF_vars(Progress(p))

-----------------------------------------------------------------------------
(* Properties                                                              *)

\* Every variable holds a value of its kind.
TypeOK ==
  /\ pc \in [Proc -> Point]
  /\ call \in [Proc -> [unit : Unit, payload : Payload \cup {Absent}] \cup {NoCall}]
  /\ seen \in [Proc -> [Unit -> Content \cup {Unread}]]
  /\ outcome \in [Proc -> {"none", "saved", "uncertain", "rejected", "reset",
                          "already absent", "failed", "interrupted"}]
  /\ fs \in FileSystem
  /\ disk \subseteq FileSystem
  /\ confirmed \in [Unit -> Payload \cup {Absent}]

\* Grouped reads are one coherent view: whatever a read transaction has read is
\* still what the store holds as long as the transaction lasts, whichever saves,
\* resets and establishments other processes attempt meanwhile.
CoherentRead ==
  \A p \in Proc : pc[p] = "reading" =>
    \A u \in Unit : seen[p][u] \in {Unread, fs.record[u]}

\* Only the layout marker establishes a store, and it is written last: in no
\* tree, neither the visible one nor one a power loss can bring back, does the
\* marker stand over a record that predates it.
UnversionedNeverAdopted ==
  \A tree \in disk \cup {fs} :
    "layout" \in tree.names => \A u \in Unit : tree.record[u] # Unversioned

\* A save reported without a warning is what the store holds until the unit is
\* saved or discarded again, and so does every tree a power loss can bring back,
\* under the marker without which it would not count.
ConfirmedSaveSurvives ==
  \A u \in Unit : confirmed[u] # Absent =>
    \A tree \in disk \cup {fs} :
      tree.record[u] = confirmed[u] /\ "layout" \in tree.names

\* A record that does not validate leaves the store by a discard only: no save,
\* interrupted or not, and no power loss puts another content in its place.
CorruptNeverReplaced ==
  [][\A u \in Unit : fs.record[u] = Corrupt => fs'.record[u] \in {Corrupt, Absent}]_vars

\* No failure leaves a store that refuses every later opening for want of a lock:
\* a tree with a marker and no lock has nothing else, so the lock can be restored.
NeverLockedOut ==
  \A tree \in disk \cup {fs} :
    "layout" \in tree.names /\ "lock" \notin tree.names => tree.names = {"layout"}

\* Locks are never waited for: a call that has begun ends, or its process is
\* killed, whatever the other processes do.
EveryCallEnds == \A p \in Proc : []<>(pc[p] \in {"closed", "open"})

-----------------------------------------------------------------------------
(* The store implements the map it promises                                *)

\* a tree without the marker reads as a store that is absent
Visible(tree) == IF "layout" \in tree.names THEN tree.record ELSE NoRecords

Map == INSTANCE SyncBaseMap WITH
         base       <- Visible(fs),
         recoveries <- {Visible(tree) : tree \in disk},
         taken      <- {p \in Proc : pc[p] \in {"renamed", "unlinked", "removed"}}

\* Every behaviour of the store, crashes included, is one of the map's.
ImplementsMap == Map!Spec
=============================================================================
