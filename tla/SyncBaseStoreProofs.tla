------------------------- MODULE SyncBaseStoreProofs -------------------------
(***************************************************************************)
(* Theorems about SyncBaseStore for any processes, units, targets and      *)
(* payloads.  Everything rests on one inductive invariant, IInv: the lock  *)
(* discipline (what a process at an exclusive point excludes), what a      *)
(* process inside a call may rely on, and a property of every tree a       *)
(* power loss can bring back, the visible one among them.  With what a     *)
(* process says of its call (CallInv) it gives the refinement of           *)
(* SyncBaseMap, step by step.                                              *)
(***************************************************************************)
EXTENDS SyncBaseStore, TLAPS

\* a process that holds the lock exclusively excludes every other holder
Mutex ==
  \A p, q \in Proc : p # q /\ pc[p] \in Exclusive => pc[q] \notin Exclusive \cup Shared

\* what a process may rely on where it is
InCall(p) ==
  /\ pc[p] # "closed" => "lock" \in fs.names
  /\ pc[p] = "drop" => "layout" \notin fs.names
  /\ pc[p] \in Saving \cup Discarding => call[p] # NoCall
  /\ pc[p] \in Saving \cup Discarding \cup {"open", "reading"} => "layout" \in fs.names
  /\ pc[p] \in Saving => call[p].payload \in Payload
  /\ pc[p] = "rename" => GroupOf(p) \in fs.groups /\ fs.record[call[p].unit] # Corrupt
  /\ pc[p] = "renamed" => fs.record[call[p].unit] = call[p].payload
  /\ pc[p] # "reading" => seen[p] = [u \in Unit |-> Unread]

\* a tree the store can live with: every record file is in the directory of its
\* target, none that predates the marker stands under it, and a marker without a
\* lock stands alone
Sound(tree) ==
  /\ tree \in FileSystem
  /\ \A u \in Unit : tree.record[u] # Absent => TargetOf[u] \in tree.groups
  /\ "layout" \in tree.names => \A u \in Unit : tree.record[u] # Unversioned
  /\ "layout" \in tree.names /\ "lock" \notin tree.names => tree.names = {"layout"}

\* a damaged record is damaged in every tree a power loss can bring back
CorruptEverywhere ==
  \A u \in Unit : fs.record[u] = Corrupt => \A tree \in disk : tree.record[u] = Corrupt

DiskInv ==
  /\ fs \in disk
  /\ \A tree \in disk : Sound(tree)
  /\ ConfirmedSaveSurvives
  /\ CorruptEverywhere

ProcInv ==
  /\ Mutex
  /\ \A p \in Proc : InCall(p)
  /\ CoherentRead

IInv == TypeOK /\ DiskInv /\ ProcInv

-----------------------------------------------------------------------------
(* Lemmas about one step.                                                  *)

LEMMA Init_IInv == Init => IInv
<1> SUFFICES ASSUME Init PROVE IInv
  OBVIOUS
<1>1. TypeOK
  BY ContentAssumption
     DEF Init, InitTree, TypeOK, FileSystem, Proc, Content, Point, RootName, GroupsOf, NoRecords
<1>2. Sound(fs)
  BY <1>1, ContentAssumption DEF Init, InitTree, TypeOK, GroupsOf, NoRecords, Sound, RootName
<1>3. DiskInv
  BY <1>1, <1>2, ContentAssumption
     DEF Init, DiskInv, ConfirmedSaveSurvives, CorruptEverywhere, NoRecords
<1>4. ProcInv
  BY <1>1, ContentAssumption
     DEF Init, ProcInv, Mutex, InCall, CoherentRead, Exclusive, Shared, Saving, Discarding,
         Establishing
<1> QED BY <1>1, <1>3, <1>4 DEF IInv

\* Moving one process touches no other.
LEMMA Moves ==
  ASSUME TypeOK, NEW p \in Proc, NEW point \in Point, GoTo(p, point)
  PROVE  /\ pc' \in [Proc -> Point]
         /\ pc'[p] = point
         /\ \A q \in Proc \ {p} : pc'[q] = pc[q]
BY DEF TypeOK, GoTo

\* The lock discipline survives a move that asks for the lock it needs.
LEMMA KeepsMutex ==
  ASSUME TypeOK, Mutex, NEW p \in Proc, NEW point \in Point,
         pc'[p] = point, \A q \in Proc \ {p} : pc'[q] = pc[q],
         point \in Exclusive => pc[p] \in Exclusive \/ ExclusiveGranted(p),
         point \in Shared => pc[p] \in Exclusive \cup Shared \/ SharedGranted(p)
  PROVE  Mutex'
<1> SUFFICES ASSUME NEW q \in Proc, NEW r \in Proc, q # r, pc'[q] \in Exclusive
             PROVE  pc'[r] \notin Exclusive \cup Shared
  BY DEF Mutex
<1>1. CASE q # p /\ r # p
  BY <1>1 DEF Mutex
<1>2. CASE q = p
  BY <1>2 DEF Mutex, ExclusiveGranted
<1>3. CASE r = p
  BY <1>3 DEF Mutex, ExclusiveGranted, SharedGranted
<1> QED BY <1>1, <1>2, <1>3

\* A process that holds the lock exclusively leaves nobody reading, and nobody
\* else inside a call.
LEMMA Alone ==
  ASSUME Mutex, NEW p \in Proc, pc[p] \in Exclusive, NEW q \in Proc \ {p}
  PROVE  pc[q] \notin Exclusive \cup Shared
BY DEF Mutex

\* What the other processes rely on survives a step of p that keeps the marker,
\* and that changes records and directories under the exclusive lock only.
LEMMA KeepsCalls ==
  ASSUME IInv, NEW p \in Proc,
         \A q \in Proc \ {p} : /\ pc'[q] = pc[q]
                               /\ call'[q] = call[q]
                               /\ seen'[q] = seen[q],
         fs.names \subseteq fs'.names,
         \/ /\ "layout" \in fs'.names <=> "layout" \in fs.names
            /\ fs'.groups = fs.groups /\ fs'.record = fs.record
         \/ pc[p] \in Exclusive,
         InCall(p)'
  PROVE  \A q \in Proc : InCall(q)'
<1> SUFFICES ASSUME NEW q \in Proc \ {p} PROVE InCall(q)'
  OBVIOUS
<1>1. InCall(q)
  BY DEF IInv, ProcInv
<1>2. CASE /\ "layout" \in fs'.names <=> "layout" \in fs.names
           /\ fs'.groups = fs.groups /\ fs'.record = fs.record
  BY <1>1, <1>2 DEF InCall, GroupOf
<1>3. CASE pc[p] \in Exclusive
  <2>1. pc[q] \notin Exclusive
    BY <1>3, Alone DEF IInv, ProcInv
  <2> QED BY <1>1, <2>1 DEF InCall, Exclusive, Saving, Discarding, Establishing
<1> QED BY <1>2, <1>3

\* Readers keep their view: either no record changes or nobody reads.
LEMMA KeepsViews ==
  ASSUME IInv, NEW p \in Proc,
         \A q \in Proc \ {p} : pc'[q] = pc[q] /\ seen'[q] = seen[q],
         fs'.record = fs.record \/ pc[p] \in Exclusive,
         pc'[p] = "reading" => \A u \in Unit : seen'[p][u] \in {Unread, fs'.record[u]}
  PROVE  CoherentRead'
<1> SUFFICES ASSUME NEW q \in Proc, pc'[q] = "reading", q # p
             PROVE  \A u \in Unit : seen'[q][u] \in {Unread, fs'.record[u]}
  BY DEF CoherentRead
<1>1. pc[p] \notin Exclusive
  BY Alone DEF IInv, ProcInv, Shared
<1> QED BY <1>1 DEF IInv, ProcInv, CoherentRead

\* a save that was confirmed stays so, or is confirmed by this step's flush
StillConfirmed(u) == confirmed'[u] = confirmed[u] /\ fs'.record[u] = fs.record[u]
JustConfirmed(u)  ==
  disk' = {fs'} /\ fs'.record[u] = confirmed'[u] /\ "layout" \in fs'.names

\* What the disk may bring back stays sound when the visible tree changes into a
\* sound one, which holds what is still confirmed and damages nothing.
LEMMA KeepsDisk ==
  ASSUME IInv,
         fs' \in disk', disk' \subseteq disk \cup {fs'},
         Sound(fs'),
         fs.names \subseteq fs'.names,
         \A u \in Unit : confirmed'[u] # Absent => StillConfirmed(u) \/ JustConfirmed(u),
         \A u \in Unit : fs'.record[u] = Corrupt => fs.record[u] = Corrupt
  PROVE  DiskInv' /\ disk' \subseteq FileSystem
<1>1. \A tree \in disk' : Sound(tree)
  BY DEF IInv, DiskInv
<1>2. ConfirmedSaveSurvives'
  BY DEF IInv, DiskInv, ConfirmedSaveSurvives, StillConfirmed, JustConfirmed
<1>3. CorruptEverywhere'
  BY DEF IInv, DiskInv, CorruptEverywhere
<1> QED BY <1>1, <1>2, <1>3 DEF DiskInv, Sound

-----------------------------------------------------------------------------
(* A step of a process is accounted for by where the process goes and by   *)
(* what becomes of the visible tree.                                       *)

\* what a step may do to the variables that belong to the processes
OwnStep(p) ==
  /\ call' \in [Proc -> [unit : Unit, payload : Payload \cup {Absent}] \cup {NoCall}]
  /\ seen' \in [Proc -> [Unit -> Content \cup {Unread}]]
  /\ outcome' \in [Proc -> {"none", "saved", "uncertain", "rejected", "reset",
                            "already absent", "failed", "interrupted"}]
  /\ \A q \in Proc \ {p} : call'[q] = call[q] /\ seen'[q] = seen[q]

\* the locks a move asks for
LocksFor(p, point) ==
  /\ point \in Exclusive => pc[p] \in Exclusive \/ ExclusiveGranted(p)
  /\ point \in Shared => pc[p] \in Exclusive \cup Shared \/ SharedGranted(p)

\* what a step of p may do to the trees
TreeStep(p) ==
  /\ fs' \in disk' /\ disk' \subseteq disk \cup {fs'}
  /\ Sound(fs')
  /\ fs.names \subseteq fs'.names
  /\ \/ /\ "layout" \in fs'.names <=> "layout" \in fs.names
        /\ fs'.groups = fs.groups /\ fs'.record = fs.record
     \/ pc[p] \in Exclusive
  /\ \A u \in Unit : fs'.record[u] = Corrupt => fs.record[u] = Corrupt
  /\ confirmed' \in [Unit -> Payload \cup {Absent}]
  /\ \A u \in Unit : confirmed'[u] # Absent => StillConfirmed(u) \/ JustConfirmed(u)

LEMMA Step ==
  ASSUME IInv, NEW p \in Proc, NEW point \in Point, GoTo(p, point),
         OwnStep(p), LocksFor(p, point), TreeStep(p), InCall(p)',
         point = "reading" => \A u \in Unit : seen'[p][u] \in {Unread, fs'.record[u]}
  PROVE  IInv'
<1>1. /\ pc' \in [Proc -> Point]
      /\ pc'[p] = point
      /\ \A q \in Proc \ {p} : pc'[q] = pc[q]
  BY Moves DEF IInv
<1>2. DiskInv' /\ disk' \subseteq FileSystem
  BY KeepsDisk DEF TreeStep
<1>3. TypeOK'
  BY <1>1, <1>2 DEF TypeOK, OwnStep, TreeStep, Sound
<1>4. Mutex'
  BY <1>1, KeepsMutex DEF IInv, ProcInv, LocksFor
<1>5. \A q \in Proc : InCall(q)'
  BY <1>1, KeepsCalls DEF OwnStep, TreeStep
<1>6. CoherentRead'
  BY <1>1, KeepsViews DEF OwnStep, TreeStep
<1> QED BY <1>2, <1>3, <1>4, <1>5, <1>6 DEF IInv, ProcInv

\* A step that leaves the trees and the confirmations alone.
LEMMA Keeping ==
  ASSUME IInv, NEW p \in Proc, Keep, UNCHANGED confirmed
  PROVE  TreeStep(p)
BY DEF IInv, DiskInv, Keep, TypeOK, TreeStep, StillConfirmed

\* A process that ends its call is left with nothing to rely on but the marker.
LEMMA Returning ==
  ASSUME IInv, NEW p \in Proc, pc[p] \in Saving \cup Discarding,
         NEW how \in {"saved", "uncertain", "rejected", "reset", "already absent",
                      "failed", "interrupted"},
         Return(p, how), TreeStep(p)
  PROVE  IInv'
<1>1. OwnStep(p)
  BY DEF IInv, TypeOK, Return, OwnStep
<1>2. LocksFor(p, "open")
  BY DEF LocksFor, Exclusive, Shared, Saving, Discarding, Establishing
<1>3. GoTo(p, "open") /\ "open" \in Point
  BY DEF Return, Point
<1>4. pc'[p] = "open"
  BY <1>3, Moves DEF IInv
<1>5. InCall(p)'
  BY <1>4 DEF IInv, ProcInv, InCall, Return, TreeStep, Saving, Discarding
<1> QED BY <1>1, <1>2, <1>3, <1>5, Step

\* Recording a new content for one unit changes nothing else.
LEMMA RecordUpdate ==
  ASSUME NEW tree \in FileSystem, NEW u \in Unit, NEW v \in Content
  PROVE  LET new == [tree EXCEPT !.record[u] = v] IN
         /\ new \in FileSystem
         /\ new.names = tree.names /\ new.groups = tree.groups /\ new.temps = tree.temps
         /\ new.record[u] = v
         /\ \A x \in Unit \ {u} : new.record[x] = tree.record[x]
BY DEF FileSystem

-----------------------------------------------------------------------------
(* One lemma per action.                                                   *)

LEMMA Open_IInv == ASSUME IInv, NEW p \in Proc, Open(p) PROVE IInv'
<1>1. PICK point \in {"validate", "establish"} : GoTo(p, point)
  BY DEF Open
<1>2. pc'[p] = point /\ point \in Point
  BY <1>1, Moves DEF IInv, Point
<1>3. OwnStep(p) /\ LocksFor(p, point)
  BY DEF IInv, TypeOK, Open, OwnStep, LocksFor,
         Saving, Discarding, Establishing, Exclusive, Shared, Point
<1>4. /\ fs' \in FileSystem
      /\ fs'.groups = fs.groups /\ fs'.record = fs.record
      /\ fs.names \subseteq fs'.names
      /\ "layout" \in fs'.names <=> "layout" \in fs.names
      /\ "lock" \in fs'.names
  <2>1. fs \in FileSystem
    BY DEF IInv, TypeOK
  <2>2. CASE Keep /\ "lock" \in fs.names
    BY <2>1, <2>2 DEF Keep
  <2>3. CASE fs.names = {"layout"} /\ fs' = [fs EXCEPT !.names = {"layout", "lock"}]
    BY <2>1, <2>3 DEF FileSystem, RootName
  <2>4. CASE "layout" \notin fs.names /\ fs' = [fs EXCEPT !.names = @ \cup {"lock"}]
    BY <2>1, <2>4 DEF FileSystem, RootName
  <2> QED BY <2>2, <2>3, <2>4 DEF Open, Change
<1>5. TreeStep(p)
  <2>1. fs' \in disk' /\ disk' \subseteq disk \cup {fs'}
    BY DEF IInv, DiskInv, Open, Keep, Change
  <2>2. Sound(fs')
    BY <1>4 DEF IInv, DiskInv, Sound
  <2> QED BY <1>4, <2>1, <2>2 DEF IInv, TypeOK, TreeStep, StillConfirmed, Open
<1>6. InCall(p)'
  BY <1>2, <1>4 DEF IInv, ProcInv, InCall, Open, Saving, Discarding, Establishing, Exclusive,
                    Shared, Point
<1> QED BY <1>1, <1>2, <1>3, <1>5, <1>6, Step

LEMMA StartEstablish_IInv == ASSUME IInv, NEW p \in Proc, StartEstablish(p) PROVE IInv'
<1>1. PICK point \in {"drop", "validate", "closed"} :
        GoTo(p, point) /\ (point = "drop" => ExclusiveGranted(p) /\ "layout" \notin fs.names)
  BY DEF StartEstablish
<1>2. pc'[p] = point /\ point \in Point
  BY <1>1, Moves DEF IInv, Saving, Discarding, Establishing, Exclusive, Shared, Point
<1>3. OwnStep(p) /\ LocksFor(p, point)
  BY <1>1 DEF IInv, TypeOK, StartEstablish, OwnStep, LocksFor,
              Saving, Discarding, Establishing, Exclusive, Shared, Point
<1>4. InCall(p)'
  BY <1>1, <1>2 DEF IInv, ProcInv, InCall, StartEstablish, Keep,
                    Saving, Discarding, Establishing, Exclusive, Shared, Point
<1> QED BY <1>1, <1>2, <1>3, <1>4, Step, Keeping DEF StartEstablish

LEMMA DropGroup_IInv == ASSUME IInv, NEW p \in Proc, DropGroup(p) PROVE IInv'
<1>1. PICK t \in fs.groups :
        /\ fs' = [fs EXCEPT !.groups = @ \ {t}, !.temps = @ \ {t},
                    !.record = [u \in Unit |-> IF TargetOf[u] = t THEN Absent ELSE @[u]]]
        /\ disk' = {fs'} /\ confirmed' = confirmed
  BY DEF DropGroup
<1>2. GoTo(p, "drop") /\ "drop" \in Point /\ pc'[p] = "drop"
  BY DEF IInv, TypeOK, DropGroup, GoTo,
         Saving, Discarding, Establishing, Exclusive, Shared, Point
<1>3. OwnStep(p) /\ LocksFor(p, "drop")
  BY DEF IInv, TypeOK, DropGroup, OwnStep, LocksFor,
         Saving, Discarding, Establishing, Exclusive, Shared, Point
<1>4. /\ fs' \in FileSystem
      /\ fs'.names = fs.names /\ fs'.groups = fs.groups \ {t}
      /\ fs'.record = [u \in Unit |-> IF TargetOf[u] = t THEN Absent ELSE fs.record[u]]
  BY <1>1 DEF IInv, TypeOK, FileSystem, Content
<1>5. InCall(p)'
  BY <1>2, <1>4 DEF IInv, ProcInv, InCall, DropGroup,
                    Saving, Discarding, Establishing, Exclusive, Shared, Point
<1>6. TreeStep(p)
  <2>1. Sound(fs')
    BY <1>4, ContentAssumption DEF IInv, DiskInv, Sound
  \* nothing is confirmed where there is no marker
  <2>2. \A u \in Unit : confirmed[u] = Absent
    BY DEF IInv, DiskInv, ProcInv, InCall, ConfirmedSaveSurvives, DropGroup
  <2> QED BY <1>1, <1>4, <2>1, <2>2, ContentAssumption
          DEF IInv, TypeOK, DropGroup, TreeStep, StillConfirmed,
              Saving, Discarding, Establishing, Exclusive, Shared, Point
<1> QED BY <1>2, <1>3, <1>5, <1>6, Step

LEMMA WriteMarker_IInv == ASSUME IInv, NEW p \in Proc, WriteMarker(p) PROVE IInv'
<1>1. GoTo(p, "marked") /\ "marked" \in Point /\ pc'[p] = "marked"
  BY DEF IInv, TypeOK, WriteMarker, GoTo,
         Saving, Discarding, Establishing, Exclusive, Shared, Point
<1>2. OwnStep(p) /\ LocksFor(p, "marked")
  BY DEF IInv, TypeOK, WriteMarker, OwnStep, LocksFor,
         Saving, Discarding, Establishing, Exclusive, Shared, Point
<1>3. "lock" \in fs.names
  BY DEF IInv, ProcInv, InCall, WriteMarker
<1>4. /\ fs' \in FileSystem
      /\ fs'.names = fs.names \cup {"layout"}
      /\ fs'.groups = fs.groups /\ fs'.record = fs.record
  BY DEF IInv, TypeOK, WriteMarker, Change, FileSystem, RootName
<1>5. InCall(p)'
  BY <1>1, <1>3, <1>4 DEF IInv, ProcInv, InCall, WriteMarker,
                          Saving, Discarding, Establishing, Exclusive, Shared, Point
<1>6. TreeStep(p)
  \* nothing is left to adopt: no directory, so no record
  <2>1. \A u \in Unit : fs.record[u] = Absent
    BY DEF IInv, DiskInv, Sound, WriteMarker
  <2>2. Sound(fs')
    BY <1>3, <1>4, <2>1, ContentAssumption DEF Sound
  <2> QED BY <1>4, <2>2
          DEF IInv, TypeOK, WriteMarker, Change, TreeStep, StillConfirmed, Exclusive, Establishing
<1> QED BY <1>1, <1>2, <1>5, <1>6, Step

LEMMA FlushMarker_IInv == ASSUME IInv, NEW p \in Proc, FlushMarker(p) PROVE IInv'
<1>1. GoTo(p, "validate") /\ "validate" \in Point /\ pc'[p] = "validate"
  BY DEF IInv, TypeOK, FlushMarker, GoTo,
         Saving, Discarding, Establishing, Exclusive, Shared, Point
<1>2. OwnStep(p) /\ LocksFor(p, "validate")
  BY DEF IInv, TypeOK, FlushMarker, OwnStep, LocksFor,
         Saving, Discarding, Establishing, Exclusive, Shared, Point
<1>3. InCall(p)'
  BY <1>1 DEF IInv, ProcInv, InCall, FlushMarker, Flush,
              Saving, Discarding, Establishing, Exclusive, Shared, Point
<1>4. TreeStep(p)
  BY DEF IInv, DiskInv, TypeOK, FlushMarker, Flush, TreeStep, StillConfirmed
<1> QED BY <1>1, <1>2, <1>3, <1>4, Step

LEMMA StartValidation_IInv == ASSUME IInv, NEW p \in Proc, StartValidation(p) PROVE IInv'
<1>1. PICK point \in {"validating", "closed"} :
        GoTo(p, point) /\ (point = "validating" => SharedGranted(p))
  BY DEF StartValidation
<1>2. pc'[p] = point /\ point \in Point
  BY <1>1, Moves DEF IInv, Saving, Discarding, Establishing, Exclusive, Shared, Point
<1>3. OwnStep(p) /\ LocksFor(p, point)
  BY <1>1 DEF IInv, TypeOK, StartValidation, OwnStep, LocksFor,
              Saving, Discarding, Establishing, Exclusive, Shared, Point
<1>4. InCall(p)'
  BY <1>2 DEF IInv, ProcInv, InCall, StartValidation, Keep,
              Saving, Discarding, Establishing, Exclusive, Shared, Point
<1> QED BY <1>1, <1>2, <1>3, <1>4, Step, Keeping DEF StartValidation

LEMMA FinishValidation_IInv == ASSUME IInv, NEW p \in Proc, FinishValidation(p) PROVE IInv'
<1>1. PICK point \in {"open", "closed"} :
        GoTo(p, point) /\ (point = "open" => "layout" \in fs.names)
  BY DEF FinishValidation
<1>2. pc'[p] = point /\ point \in Point
  BY <1>1, Moves DEF IInv, Saving, Discarding, Establishing, Exclusive, Shared, Point
<1>3. OwnStep(p) /\ LocksFor(p, point)
  BY DEF IInv, TypeOK, FinishValidation, OwnStep, LocksFor,
         Saving, Discarding, Establishing, Exclusive, Shared, Point
<1>4. InCall(p)'
  BY <1>1, <1>2 DEF IInv, ProcInv, InCall, FinishValidation, Keep,
                    Saving, Discarding, Establishing, Exclusive, Shared, Point
<1> QED BY <1>1, <1>2, <1>3, <1>4, Step, Keeping DEF FinishValidation

LEMMA Close_IInv == ASSUME IInv, NEW p \in Proc, Close(p) PROVE IInv'
<1>1. GoTo(p, "closed") /\ "closed" \in Point /\ pc'[p] = "closed"
  BY DEF IInv, TypeOK, Close, GoTo,
         Saving, Discarding, Establishing, Exclusive, Shared, Point
<1>2. OwnStep(p) /\ LocksFor(p, "closed")
  BY DEF IInv, TypeOK, Close, OwnStep, LocksFor,
         Saving, Discarding, Establishing, Exclusive, Shared, Point
<1>3. InCall(p)'
  BY <1>1 DEF IInv, ProcInv, InCall, Close, Keep,
              Saving, Discarding, Establishing, Exclusive, Shared, Point
<1> QED BY <1>1, <1>2, <1>3, Step, Keeping DEF Close

\* What a call in progress knows of itself.
LEMMA Running ==
  ASSUME IInv, NEW p \in Proc, pc[p] \in Saving \cup Discarding
  PROVE  /\ call[p] \in [unit : Unit, payload : Payload \cup {Absent}]
         /\ call[p].unit \in Unit /\ GroupOf(p) \in Target
         /\ pc[p] \in Exclusive /\ pc[p] # "reading"
         /\ "layout" \in fs.names
BY ContentAssumption DEF IInv, TypeOK, ProcInv, InCall, GroupOf,
                         Saving, Discarding, Establishing, Exclusive, Shared, Point

LEMMA Begin_IInv ==
  ASSUME IInv, NEW p \in Proc, NEW u \in Unit, NEW v \in Payload \cup {Absent},
         NEW point \in {"enter", "unlink"}, point = "enter" => v \in Payload,
         Begin(p, u, v, point)
  PROVE  IInv'
<1>1. TreeStep(p)
  BY Keeping DEF Begin
<1>2. CASE ExclusiveGranted(p) /\ GoTo(p, point) /\ call' = [call EXCEPT ![p] = [unit |-> u, payload |-> v]]
  <2>1. pc'[p] = point /\ point \in Point
    BY <1>2, Moves DEF IInv, Saving, Discarding, Establishing, Exclusive, Shared, Point
  <2>2. OwnStep(p) /\ LocksFor(p, point)
    BY <1>2 DEF IInv, TypeOK, Begin, OwnStep, LocksFor,
                Saving, Discarding, Establishing, Exclusive, Shared, Point
  <2>3. call'[p] = [unit |-> u, payload |-> v] /\ call'[p] # NoCall
    <3>1. [unit |-> u, payload |-> v] # NoCall
      BY ContentAssumption
    <3>2. call'[p] = [unit |-> u, payload |-> v]
      BY <1>2 DEF IInv, TypeOK
    <3> QED BY <3>1, <3>2
  <2>4. InCall(p)'
    BY <2>1, <2>3 DEF IInv, ProcInv, InCall, Begin, Keep,
                      Saving, Discarding, Establishing, Exclusive, Shared, Point
  <2> QED BY <1>1, <1>2, <2>1, <2>2, <2>4, Step
<1>3. CASE UNCHANGED <<pc, call>>
  <2>1. GoTo(p, "open") /\ "open" \in Point /\ pc'[p] = "open"
    BY <1>3 DEF IInv, TypeOK, Begin, GoTo,
                Saving, Discarding, Establishing, Exclusive, Shared, Point
  <2>2. OwnStep(p) /\ LocksFor(p, "open")
    BY <1>3 DEF IInv, TypeOK, Begin, OwnStep, LocksFor,
                Saving, Discarding, Establishing, Exclusive, Shared, Point
  <2>3. InCall(p)'
    BY <2>1, <1>3 DEF IInv, ProcInv, InCall, Begin, Keep,
                      Saving, Discarding, Establishing, Exclusive, Shared, Point
  <2> QED BY <1>1, <2>1, <2>2, <2>3, Step
<1> QED BY <1>2, <1>3 DEF Begin

LEMMA EnterGroup_IInv == ASSUME IInv, NEW p \in Proc, EnterGroup(p) PROVE IInv'
<1>1. /\ pc[p] \in Saving \cup Discarding
      /\ pc[p] = "enter"
  BY DEF EnterGroup, Saving
<1>2. /\ fs' \in FileSystem
      /\ fs'.names = fs.names \cup {"bases"} /\ fs'.groups = fs.groups \cup {GroupOf(p)}
      /\ fs'.record = fs.record
  <2>1. fs \in FileSystem /\ fs.names \cup {"bases"} \subseteq RootName
    BY DEF IInv, TypeOK, FileSystem, RootName
  <2>2. fs.groups \cup {GroupOf(p)} \subseteq Target
    BY <1>1, Running DEF IInv, TypeOK, FileSystem
  <2>3. fs' = [fs EXCEPT !.names = @ \cup {"bases"}, !.groups = @ \cup {GroupOf(p)}]
    BY DEF EnterGroup
  <2> DEFINE names == fs.names \cup {"bases"}
             groups == fs.groups \cup {GroupOf(p)}
  <2>4. names \in SUBSET RootName /\ groups \in SUBSET Target
    BY <2>1, <2>2
  <2>5. fs' = [fs EXCEPT !.names = names, !.groups = groups]
    BY <2>3
  <2> HIDE DEF names, groups
  <2>6. /\ fs' \in FileSystem /\ fs'.names = names /\ fs'.groups = groups
        /\ fs'.record = fs.record
    BY <2>1, <2>4, <2>5 DEF FileSystem
  <2> QED BY <2>6 DEF names, groups
<1>3. TreeStep(p)
  <2>1. Sound(fs')
    BY <1>1, <1>2, Running DEF IInv, DiskInv, ProcInv, InCall, Sound
  <2>2. fs' \in disk' /\ disk' \subseteq disk \cup {fs'}
    BY DEF IInv, DiskInv, EnterGroup
  <2> QED BY <1>1, <1>2, <2>1, <2>2, Running
          DEF IInv, TypeOK, EnterGroup, TreeStep, StillConfirmed
<1>4. CASE fs.record[call[p].unit] = Corrupt
  BY <1>1, <1>3, <1>4, Returning DEF EnterGroup
<1>5. CASE fs.record[call[p].unit] # Corrupt
  <2>1. GoTo(p, "rename") /\ "rename" \in Point /\ pc'[p] = "rename"
    BY <1>5 DEF IInv, TypeOK, EnterGroup, GoTo,
                Saving, Discarding, Establishing, Exclusive, Shared, Point
  <2>2. OwnStep(p) /\ LocksFor(p, "rename")
    BY <1>5 DEF IInv, TypeOK, EnterGroup, OwnStep, LocksFor,
                Saving, Discarding, Establishing, Exclusive, Shared, Point
  <2>3. InCall(p)'
    BY <1>2, <1>5, <2>1, Running DEF IInv, ProcInv, InCall, EnterGroup, GroupOf,
                                     Saving, Discarding, Establishing, Exclusive, Shared, Point
  <2> QED BY <1>3, <2>1, <2>2, <2>3, Step
<1> QED BY <1>4, <1>5

LEMMA Rename_IInv == ASSUME IInv, NEW p \in Proc, Rename(p) PROVE IInv'
<1> DEFINE unit == call[p].unit
           payload == call[p].payload
<1>1. /\ GoTo(p, "renamed") /\ "renamed" \in Point /\ pc'[p] = "renamed"
      /\ pc[p] = "rename" /\ pc[p] \in Saving \cup Discarding
  BY DEF IInv, TypeOK, Rename, GoTo,
         Saving, Discarding, Establishing, Exclusive, Shared, Point
<1>2. unit \in Unit /\ "layout" \in fs.names /\ pc[p] \in Exclusive
  BY <1>1, Running
<1>3. payload \in Payload /\ TargetOf[unit] \in fs.groups /\ fs.record[unit] # Corrupt
  BY <1>1 DEF IInv, ProcInv, InCall, Saving, GroupOf
<1>4. /\ fs' \in FileSystem
      /\ fs'.names = fs.names /\ fs'.groups = fs.groups
      /\ fs'.record[unit] = payload
      /\ \A x \in Unit \ {unit} : fs'.record[x] = fs.record[x]
  <2>1. fs \in FileSystem /\ payload \in Content
    BY <1>3 DEF IInv, TypeOK, Content
  <2> HIDE DEF unit, payload
  <2> QED BY <1>2, <2>1, RecordUpdate DEF Rename, Change, unit, payload
<1>5. OwnStep(p) /\ LocksFor(p, "renamed")
  BY DEF IInv, TypeOK, Rename, OwnStep, LocksFor,
         Saving, Discarding, Establishing, Exclusive, Shared, Point
<1>6. InCall(p)'
  BY <1>1, <1>4 DEF IInv, ProcInv, InCall, Rename,
                    Saving, Discarding, Establishing, Exclusive, Shared, Point
<1>7. TreeStep(p)
  <2>1. Sound(fs')
    BY <1>2, <1>3, <1>4, ContentAssumption DEF IInv, DiskInv, Sound
  <2>2. /\ confirmed' \in [Unit -> Payload \cup {Absent}]
        /\ confirmed'[unit] = Absent
        /\ \A x \in Unit \ {unit} : confirmed'[x] = confirmed[x]
    BY <1>2 DEF IInv, TypeOK, Rename, Unconfirm
  <2>3. fs' \in disk' /\ disk' \subseteq disk \cup {fs'}
    BY DEF Rename, Change
  <2>4. \A u \in Unit : fs'.record[u] = Corrupt => fs.record[u] = Corrupt
    BY <1>3, <1>4, ContentAssumption
  <2> HIDE DEF unit
  <2> QED BY <1>2, <1>4, <2>1, <2>2, <2>3, <2>4 DEF TreeStep, StillConfirmed
<1> QED BY <1>1, <1>5, <1>6, <1>7, Step

LEMMA FlushRename_IInv == ASSUME IInv, NEW p \in Proc, FlushRename(p) PROVE IInv'
<1>1. pc[p] \in Saving \cup Discarding /\ pc[p] = "renamed"
  BY DEF FlushRename, Saving
<1>2. CASE Keep /\ Return(p, "uncertain") /\ UNCHANGED confirmed
  BY <1>1, <1>2, Keeping, Returning
<1>3. CASE /\ Flush
           /\ Return(p, "saved")
           /\ confirmed' = [confirmed EXCEPT ![call[p].unit] = call[p].payload]
  <2> DEFINE unit == call[p].unit
             payload == call[p].payload
  <2>1. unit \in Unit /\ "layout" \in fs.names
    BY <1>1, Running
  <2>2. payload \in Payload /\ fs.record[unit] = payload
    BY <1>1 DEF IInv, ProcInv, InCall, Saving
  <2>3. /\ confirmed' \in [Unit -> Payload \cup {Absent}]
        /\ confirmed'[unit] = payload
        /\ \A x \in Unit \ {unit} : confirmed'[x] = confirmed[x]
    BY <1>3, <2>1, <2>2 DEF IInv, TypeOK
  <2>4. fs' = fs /\ disk' = {fs}
    BY <1>3 DEF Flush
  <2> HIDE DEF unit, payload
  <2>5. TreeStep(p)
    BY <2>1, <2>2, <2>3, <2>4
       DEF IInv, DiskInv, TreeStep, StillConfirmed, JustConfirmed
  <2> QED BY <1>1, <1>3, <2>5, Returning
<1> QED BY <1>2, <1>3 DEF FlushRename

LEMMA Unlink_IInv == ASSUME IInv, NEW p \in Proc, Unlink(p) PROVE IInv'
<1> DEFINE unit == call[p].unit
<1>1. pc[p] = "unlink" /\ pc[p] \in Saving \cup Discarding
  BY DEF Unlink, Discarding
<1>2. unit \in Unit /\ "layout" \in fs.names /\ pc[p] \in Exclusive
  BY <1>1, Running
<1>3. CASE fs.record[unit] = Absent
  BY <1>1, <1>3, Keeping, Returning DEF Unlink
<1>4. CASE fs.record[unit] # Absent
  <2>1. GoTo(p, "unlinked") /\ "unlinked" \in Point /\ pc'[p] = "unlinked"
    BY <1>4 DEF IInv, TypeOK, Unlink, GoTo,
                Saving, Discarding, Establishing, Exclusive, Shared, Point
  <2>2. OwnStep(p) /\ LocksFor(p, "unlinked")
    BY <1>4 DEF IInv, TypeOK, Unlink, OwnStep, LocksFor,
                Saving, Discarding, Establishing, Exclusive, Shared, Point
  <2>3. /\ fs' \in FileSystem
        /\ fs'.names = fs.names /\ fs'.groups = fs.groups
        /\ fs'.record[unit] = Absent
        /\ \A x \in Unit \ {unit} : fs'.record[x] = fs.record[x]
    <3>1. fs \in FileSystem /\ Absent \in Content
      BY DEF IInv, TypeOK, Content
    <3>2. fs' = [fs EXCEPT !.record[unit] = Absent]
      BY <1>4 DEF Unlink, Change
    <3> HIDE DEF unit
    <3> QED BY <1>2, <3>1, <3>2, RecordUpdate
  <2>4. InCall(p)'
    BY <1>4, <2>1, <2>3, <1>2, <1>1 DEF IInv, ProcInv, InCall, Unlink,
                                        Saving, Discarding, Establishing, Exclusive, Shared, Point
  <2>5. TreeStep(p)
    <3>1. Sound(fs')
      BY <1>2, <2>3, ContentAssumption DEF IInv, DiskInv, Sound
    <3>2. /\ confirmed' \in [Unit -> Payload \cup {Absent}]
          /\ confirmed'[unit] = Absent
          /\ \A x \in Unit \ {unit} : confirmed'[x] = confirmed[x]
      BY <1>2, <1>4 DEF IInv, TypeOK, Unlink, Unconfirm
    <3>3. fs' \in disk' /\ disk' \subseteq disk \cup {fs'}
      BY <1>4 DEF Unlink, Change
    <3>4. \A u \in Unit : fs'.record[u] = Corrupt => fs.record[u] = Corrupt
      BY <2>3, ContentAssumption
    <3> HIDE DEF unit
    <3> QED BY <1>2, <2>3, <3>1, <3>2, <3>3, <3>4 DEF TreeStep, StillConfirmed
  <2> QED BY <2>1, <2>2, <2>4, <2>5, Step
<1> QED BY <1>3, <1>4

\* A flush that confirms nothing.
LEMMA Flushing ==
  ASSUME IInv, NEW p \in Proc, Flush, UNCHANGED confirmed
  PROVE  TreeStep(p)
BY DEF IInv, DiskInv, Flush, TypeOK, TreeStep, StillConfirmed

LEMMA FlushUnlink_IInv == ASSUME IInv, NEW p \in Proc, FlushUnlink(p) PROVE IInv'
<1>1. pc[p] = "unlinked" /\ pc[p] \in Saving \cup Discarding
  BY DEF FlushUnlink, Discarding
<1>2. CASE ~(NoRecordIn(GroupOf(p)) /\ GroupOf(p) \notin fs.temps)
  BY <1>1, <1>2, Flushing, Returning DEF FlushUnlink
<1>3. CASE NoRecordIn(GroupOf(p)) /\ GroupOf(p) \notin fs.temps
  <2>1. GoTo(p, "removed") /\ "removed" \in Point /\ pc'[p] = "removed"
    BY <1>3 DEF IInv, TypeOK, FlushUnlink, GoTo,
                Saving, Discarding, Establishing, Exclusive, Shared, Point
  <2>2. OwnStep(p) /\ LocksFor(p, "removed")
    BY <1>3 DEF IInv, TypeOK, FlushUnlink, OwnStep, LocksFor,
                Saving, Discarding, Establishing, Exclusive, Shared, Point
  <2>3. /\ fs' \in FileSystem
        /\ fs'.names = fs.names /\ fs'.groups = fs.groups \ {GroupOf(p)}
        /\ fs'.record = fs.record
    <3>1. fs \in FileSystem /\ fs.groups \ {GroupOf(p)} \subseteq Target
      BY DEF IInv, TypeOK, FileSystem
    <3>2. fs' = [fs EXCEPT !.groups = @ \ {GroupOf(p)}]
      BY <1>3 DEF FlushUnlink
    <3> QED BY <3>1, <3>2 DEF FileSystem
  <2>4. InCall(p)'
    BY <1>1, <1>3, <2>1, <2>3 DEF IInv, ProcInv, InCall, FlushUnlink,
                                  Saving, Discarding, Establishing, Exclusive, Shared, Point
  <2>5. TreeStep(p)
    <3>1. Sound(fs')
      BY <1>3, <2>3 DEF IInv, DiskInv, Sound, NoRecordIn
    <3>2. fs' \in disk' /\ disk' \subseteq disk \cup {fs'} /\ confirmed' = confirmed
      BY <1>3 DEF IInv, DiskInv, FlushUnlink
    <3> QED BY <1>1, <2>3, <3>1, <3>2, Running
            DEF IInv, TypeOK, TreeStep, StillConfirmed
  <2> QED BY <2>1, <2>2, <2>4, <2>5, Step
<1> QED BY <1>2, <1>3

LEMMA FlushRemoval_IInv == ASSUME IInv, NEW p \in Proc, FlushRemoval(p) PROVE IInv'
<1>1. pc[p] \in Saving \cup Discarding
  BY DEF FlushRemoval, Discarding
<1> QED BY <1>1, Flushing, Returning DEF FlushRemoval

LEMMA CallFails_IInv == ASSUME IInv, NEW p \in Proc, CallFails(p) PROVE IInv'
<1>1. pc[p] \in Saving \cup Discarding
  BY DEF CallFails, Saving, Discarding
<1> QED BY <1>1, Keeping, Returning DEF CallFails

LEMMA Interrupt_IInv == ASSUME IInv, NEW p \in Proc, Interrupt(p) PROVE IInv'
BY Keeping, Returning DEF Interrupt

LEMMA BeginRead_IInv == ASSUME IInv, NEW p \in Proc, BeginRead(p) PROVE IInv'
<1>1. GoTo(p, "reading") /\ "reading" \in Point /\ pc'[p] = "reading"
  BY DEF IInv, TypeOK, BeginRead, GoTo,
         Saving, Discarding, Establishing, Exclusive, Shared, Point
<1>2. OwnStep(p) /\ LocksFor(p, "reading")
  BY DEF IInv, TypeOK, BeginRead, OwnStep, LocksFor,
         Saving, Discarding, Establishing, Exclusive, Shared, Point
<1>3. InCall(p)'
  BY <1>1 DEF IInv, ProcInv, InCall, BeginRead, Keep,
              Saving, Discarding, Establishing, Exclusive, Shared, Point
<1>4. \A u \in Unit : seen'[p][u] \in {Unread, fs'.record[u]}
  BY DEF IInv, ProcInv, InCall, BeginRead
<1> QED BY <1>1, <1>2, <1>3, <1>4, Step, Keeping DEF BeginRead

LEMMA Read_IInv == ASSUME IInv, NEW p \in Proc, Read(p) PROVE IInv'
<1>1. GoTo(p, "reading") /\ "reading" \in Point /\ pc'[p] = "reading"
  BY DEF IInv, TypeOK, Read, GoTo,
         Saving, Discarding, Establishing, Exclusive, Shared, Point
<1>2. PICK x \in Unit : seen' = [seen EXCEPT ![p][x] = fs.record[x]]
  BY DEF Read
<1>3. fs.record[x] \in Content
  BY DEF IInv, TypeOK, FileSystem
<1>4. OwnStep(p) /\ LocksFor(p, "reading")
  BY <1>2, <1>3 DEF IInv, TypeOK, Read, OwnStep, LocksFor,
                    Saving, Discarding, Establishing, Exclusive, Shared, Point
<1>5. InCall(p)'
  BY <1>1 DEF IInv, ProcInv, InCall, Read, Keep,
              Saving, Discarding, Establishing, Exclusive, Shared, Point
<1>6. \A u \in Unit : seen'[p][u] \in {Unread, fs'.record[u]}
  BY <1>2 DEF IInv, TypeOK, ProcInv, CoherentRead, Read, Keep
<1> QED BY <1>1, <1>4, <1>5, <1>6, Step, Keeping DEF Read

LEMMA EndRead_IInv == ASSUME IInv, NEW p \in Proc, EndRead(p) PROVE IInv'
<1>1. GoTo(p, "open") /\ "open" \in Point /\ pc'[p] = "open"
  BY DEF IInv, TypeOK, EndRead, GoTo,
         Saving, Discarding, Establishing, Exclusive, Shared, Point
<1>2. OwnStep(p) /\ LocksFor(p, "open")
  BY DEF IInv, TypeOK, EndRead, OwnStep, LocksFor,
         Saving, Discarding, Establishing, Exclusive, Shared, Point
<1>3. InCall(p)'
  BY <1>1 DEF IInv, TypeOK, ProcInv, InCall, EndRead, Keep,
              Saving, Discarding, Establishing, Exclusive, Shared, Point
<1> QED BY <1>1, <1>2, <1>3, Step, Keeping DEF EndRead

LEMMA Kill_IInv == ASSUME IInv, NEW p \in Proc, Kill(p) PROVE IInv'
<1>1. GoTo(p, "closed") /\ "closed" \in Point /\ pc'[p] = "closed"
  BY DEF IInv, TypeOK, Kill, GoTo,
         Saving, Discarding, Establishing, Exclusive, Shared, Point
<1>2. OwnStep(p) /\ LocksFor(p, "closed")
  BY DEF IInv, TypeOK, Kill, OwnStep, LocksFor,
         Saving, Discarding, Establishing, Exclusive, Shared, Point
<1>3. InCall(p)'
  BY <1>1 DEF IInv, TypeOK, InCall, Kill,
              Saving, Discarding, Establishing, Exclusive, Shared, Point
<1>4. CASE Keep
  BY <1>1, <1>2, <1>3, <1>4, Step, Keeping DEF Kill
<1>5. CASE pc[p] = "rename" /\ Change([fs EXCEPT !.temps = @ \cup {GroupOf(p)}])
  <2>1. GroupOf(p) \in Target
    BY <1>5, Running DEF Saving
  <2>2. /\ fs' \in FileSystem
        /\ fs'.names = fs.names /\ fs'.groups = fs.groups /\ fs'.record = fs.record
    BY <1>5, <2>1 DEF IInv, TypeOK, FileSystem, Change
  <2>3. TreeStep(p)
    BY <1>5, <2>2 DEF IInv, DiskInv, TypeOK, Sound, TreeStep, StillConfirmed, Kill, Change
  <2> QED BY <1>1, <1>2, <1>3, <2>3, Step
<1> QED BY <1>4, <1>5 DEF Kill

LEMMA PowerLoss_IInv == ASSUME IInv, PowerLoss PROVE IInv'
<1>1. fs' \in disk /\ disk' = {fs'} /\ confirmed' = confirmed
  BY DEF PowerLoss
<1>2. DiskInv'
  BY <1>1 DEF IInv, DiskInv, ConfirmedSaveSurvives, CorruptEverywhere
<1>3. TypeOK'
  BY <1>1 DEF IInv, TypeOK, PowerLoss, Point
<1>4. \A p \in Proc : pc'[p] = "closed" /\ seen'[p] = [u \in Unit |-> Unread]
  BY DEF PowerLoss
<1>5. ProcInv'
  BY <1>4 DEF ProcInv, Mutex, InCall, CoherentRead, Exclusive, Shared, Saving, Discarding,
              Establishing
<1> QED BY <1>2, <1>3, <1>5 DEF IInv

\* Every step keeps the invariant.
LEMMA Next_IInv == IInv /\ [Next]_vars => IInv'
<1> SUFFICES ASSUME IInv, [Next]_vars PROVE IInv'
  OBVIOUS
<1>1. CASE UNCHANGED vars
  BY <1>1 DEF vars, IInv, TypeOK, DiskInv, ConfirmedSaveSurvives, CorruptEverywhere, ProcInv,
              Mutex, InCall, GroupOf, CoherentRead
<1>2. CASE PowerLoss
  BY <1>2, PowerLoss_IInv
<1>3. ASSUME NEW p \in Proc, Progress(p) PROVE IInv'
  BY <1>3, StartEstablish_IInv, DropGroup_IInv, WriteMarker_IInv, FlushMarker_IInv,
     StartValidation_IInv, FinishValidation_IInv, EnterGroup_IInv, Rename_IInv,
     FlushRename_IInv, Unlink_IInv, FlushUnlink_IInv, FlushRemoval_IInv, EndRead_IInv
     DEF Progress
<1>4. ASSUME NEW p \in Proc, Replace(p) PROVE IInv'
  BY <1>4, Begin_IInv DEF Replace
<1>5. ASSUME NEW p \in Proc, Delete(p) PROVE IInv'
  BY <1>5, Begin_IInv DEF Delete
<1>6. ASSUME NEW p \in Proc,
             Open(p) \/ Close(p) \/ BeginRead(p) \/ Read(p) \/ CallFails(p)
               \/ Interrupt(p) \/ Kill(p)
      PROVE  IInv'
  BY <1>6, Open_IInv, Close_IInv, BeginRead_IInv, Read_IInv, CallFails_IInv, Interrupt_IInv,
     Kill_IInv
<1> QED BY <1>1, <1>2, <1>3, <1>4, <1>5, <1>6 DEF Next

LEMMA Spec_IInv == Spec => []IInv
BY Init_IInv, Next_IInv, PTL DEF Spec

-----------------------------------------------------------------------------
(* Theorems.                                                               *)

\* Type correctness.
THEOREM TypeCorrect == Spec => []TypeOK
<1>1. IInv => TypeOK
  BY DEF IInv
<1> QED BY <1>1, Spec_IInv, PTL

\* Grouped reads are one coherent view, for any number of processes: no record
\* changes while a read transaction is open.
THEOREM ReadsAreCoherent == Spec => []CoherentRead
<1>1. IInv => CoherentRead
  BY DEF IInv, ProcInv
<1> QED BY <1>1, Spec_IInv, PTL

\* No crash makes the marker vouch for records that predate it.
THEOREM MarkerIsLast == Spec => []UnversionedNeverAdopted
<1>1. IInv => UnversionedNeverAdopted
  BY DEF IInv, DiskInv, Sound, UnversionedNeverAdopted
<1> QED BY <1>1, Spec_IInv, PTL

\* No failure leaves a store that no process can open again for want of its lock.
THEOREM LockIsRestorable == Spec => []NeverLockedOut
<1>1. IInv => NeverLockedOut
  BY DEF IInv, DiskInv, Sound, NeverLockedOut
<1> QED BY <1>1, Spec_IInv, PTL

\* A confirmed save survives every later call that does not concern its unit,
\* every kill and every power loss.
THEOREM SavesSurvive == Spec => []ConfirmedSaveSurvives
<1>1. IInv => ConfirmedSaveSurvives
  BY DEF IInv, DiskInv
<1> QED BY <1>1, Spec_IInv, PTL

\* A damaged record is never replaced silently.
THEOREM CorruptIsKept == Spec => CorruptNeverReplaced
<1> DEFINE Kept == \A u \in Unit : fs.record[u] = Corrupt => fs'.record[u] \in {Corrupt, Absent}
<1>1. ASSUME IInv, NEW p \in Proc, Rename(p) PROVE Kept
  <2> DEFINE unit == call[p].unit
             payload == call[p].payload
  <2>1. pc[p] = "rename" /\ pc[p] \in Saving \cup Discarding /\ IInv
    BY <1>1 DEF Rename, Saving
  <2>2. unit \in Unit
    BY <2>1, Running
  <2>3. fs.record[unit] # Corrupt /\ payload \in Payload
    BY <2>1 DEF IInv, ProcInv, InCall, Saving
  <2>4. fs \in FileSystem /\ payload \in Content
    BY <2>1, <2>3 DEF IInv, TypeOK, Content
  <2>5. fs' = [fs EXCEPT !.record[unit] = payload]
    BY <1>1 DEF Rename, Change
  <2> HIDE DEF unit, payload
  <2> QED BY <2>2, <2>3, <2>4, <2>5, RecordUpdate
<1>2. ASSUME IInv, NEW p \in Proc, Unlink(p) PROVE Kept
  <2> DEFINE unit == call[p].unit
  <2>1. pc[p] \in Saving \cup Discarding /\ IInv
    BY <1>2 DEF Unlink, Discarding
  <2>2. unit \in Unit
    BY <2>1, Running
  <2>3. fs \in FileSystem /\ Absent \in Content
    BY <2>1 DEF IInv, TypeOK, Content
  <2>4. fs' = fs \/ fs' = [fs EXCEPT !.record[unit] = Absent]
    BY <1>2 DEF Unlink, Keep, Change
  <2>5. CASE fs' = [fs EXCEPT !.record[unit] = Absent]
    <3> HIDE DEF unit
    <3>1. /\ fs'.record[unit] = Absent
          /\ \A x \in Unit \ {unit} : fs'.record[x] = fs.record[x]
      BY <2>2, <2>3, <2>5, RecordUpdate
    <3> QED BY <3>1
  <2> QED BY <2>4, <2>5
<1>3. ASSUME IInv, NEW p \in Proc, DropGroup(p) PROVE Kept
  <2>1. fs \in FileSystem
    BY <1>3 DEF IInv, TypeOK
  <2>2. \E t \in fs.groups : fs'.record = [u \in Unit |-> IF TargetOf[u] = t THEN Absent
                                                                       ELSE fs.record[u]]
    BY <1>3, <2>1 DEF DropGroup, FileSystem
  <2> QED BY <2>2
<1>4. ASSUME IInv, PowerLoss PROVE Kept
  BY <1>4 DEF IInv, DiskInv, CorruptEverywhere, PowerLoss
<1>5. ASSUME IInv, NEW p \in Proc,
             Open(p) \/ WriteMarker(p) \/ FlushMarker(p) \/ EnterGroup(p) \/ FlushRename(p)
               \/ FlushUnlink(p) \/ FlushRemoval(p) \/ Kill(p)
      PROVE  Kept
  BY <1>5 DEF IInv, TypeOK, FileSystem, Open, WriteMarker, FlushMarker, EnterGroup,
              FlushRename, FlushUnlink, FlushRemoval, Kill, Keep, Change, Flush
<1>6. ASSUME NEW p \in Proc,
             StartEstablish(p) \/ StartValidation(p) \/ FinishValidation(p) \/ Close(p)
               \/ Replace(p) \/ Delete(p) \/ CallFails(p) \/ Interrupt(p)
               \/ BeginRead(p) \/ Read(p) \/ EndRead(p)
      PROVE  Kept
  BY <1>6 DEF StartEstablish, StartValidation, FinishValidation, Close, Replace, Delete, Begin,
              CallFails, Interrupt, BeginRead, Read, EndRead, Keep
<1>7. IInv /\ [Next]_vars => [Kept]_vars
  <2> SUFFICES ASSUME IInv, Next PROVE Kept
    OBVIOUS
  <2> HIDE DEF Kept
  <2> QED BY <1>1, <1>2, <1>3, <1>4, <1>5, <1>6 DEF Next, Progress
<1> QED BY <1>7, Spec_IInv, PTL DEF Spec, CorruptNeverReplaced

-----------------------------------------------------------------------------
(* The refinement of SyncBaseMap: what a call is, and what the map sees of  *)
(* each step.                                                              *)

\* what a process says of its call where it is: idle without one, discarding for one
CallInv ==
  \A p \in Proc : /\ pc[p] \notin Saving \cup Discarding => call[p] = NoCall
                  /\ pc[p] \in Discarding => call[p].payload = Absent

\* A step of one process keeps it if that process ends up as it should.
LEMMA KeepsCallInv ==
  ASSUME IInv, CallInv, NEW p \in Proc, NEW point \in Point, GoTo(p, point),
         \A q \in Proc \ {p} : call'[q] = call[q],
         point \notin Saving \cup Discarding => call'[p] = NoCall,
         point \in Discarding => call'[p].payload = Absent
  PROVE  CallInv'
BY Moves DEF IInv, CallInv

LEMMA ReturnKeepsCallInv ==
  ASSUME IInv, CallInv, NEW p \in Proc, NEW how, Return(p, how)
  PROVE  CallInv'
<1>1. GoTo(p, "open") /\ "open" \in Point /\ "open" \notin Saving \cup Discarding
  BY DEF Return, Point, Saving, Discarding
<1>2. call'[p] = NoCall /\ \A q \in Proc \ {p} : call'[q] = call[q]
  BY DEF Return, IInv, TypeOK
<1> QED BY <1>1, <1>2, KeepsCallInv DEF Discarding, Saving

LEMMA CallInv_Next == IInv /\ CallInv /\ [Next]_vars => CallInv'
<1> SUFFICES ASSUME IInv, CallInv, [Next]_vars PROVE CallInv'
  OBVIOUS
<1> USE DEF Saving, Discarding, Establishing, Exclusive, Shared, Point
<1>1. CASE UNCHANGED vars
  BY <1>1 DEF vars, CallInv
<1>2. CASE PowerLoss
  BY <1>2 DEF PowerLoss, CallInv
<1>3. ASSUME NEW p \in Proc,
             StartEstablish(p) \/ DropGroup(p) \/ WriteMarker(p) \/ FlushMarker(p)
               \/ StartValidation(p) \/ FinishValidation(p) \/ EndRead(p) \/ Open(p) \/ Close(p)
               \/ BeginRead(p) \/ Read(p)
      PROVE  CallInv'
  BY <1>3 DEF IInv, TypeOK, CallInv, GoTo, StartEstablish, DropGroup, WriteMarker, FlushMarker,
              StartValidation, FinishValidation, EndRead, Open, Close, BeginRead, Read
<1>4. ASSUME NEW p \in Proc, NEW u \in Unit, NEW v \in Payload \cup {Absent},
             NEW point \in {"enter", "unlink"}, point = "unlink" => v = Absent,
             Begin(p, u, v, point)
      PROVE  CallInv'
  <2>1. CASE GoTo(p, point) /\ call' = [call EXCEPT ![p] = [unit |-> u, payload |-> v]]
    <3>1. /\ call'[p] = [unit |-> u, payload |-> v]
          /\ \A q \in Proc \ {p} : call'[q] = call[q]
      BY <2>1 DEF IInv, TypeOK
    <3> QED BY <1>4, <2>1, <3>1, KeepsCallInv
  <2>2. CASE UNCHANGED <<pc, call>>
    BY <2>2 DEF CallInv
  <2> QED BY <1>4, <2>1, <2>2 DEF Begin
<1>5. ASSUME NEW p \in Proc, EnterGroup(p) \/ Rename(p) \/ Unlink(p) \/ FlushUnlink(p)
      PROVE  CallInv'
  <2>1. CASE \E how : Return(p, how)
    BY <2>1, ReturnKeepsCallInv
  <2>2. CASE /\ call' = call
             /\ \/ pc[p] \in {"enter", "rename"} /\ \E point \in {"rename", "renamed"} : GoTo(p, point)
                \/ pc[p] \in Discarding /\ \E point \in {"unlinked", "removed"} : GoTo(p, point)
    BY <2>2 DEF IInv, TypeOK, CallInv, GoTo
  <2> QED BY <1>5, <2>1, <2>2 DEF EnterGroup, Rename, Unlink, FlushUnlink
<1>6. ASSUME NEW p \in Proc, FlushRename(p) \/ FlushRemoval(p) \/ CallFails(p) \/ Interrupt(p)
      PROVE  CallInv'
  BY <1>6, ReturnKeepsCallInv DEF FlushRename, FlushRemoval, CallFails, Interrupt
<1>7. ASSUME NEW p \in Proc, Kill(p) PROVE CallInv'
  BY <1>7 DEF IInv, TypeOK, CallInv, GoTo, Kill
<1> QED BY <1>1, <1>2, <1>3, <1>4, <1>5, <1>6, <1>7 DEF Next, Progress, Replace, Delete

LEMMA Spec_CallInv == Spec => []CallInv
<1>1. Init => CallInv
  BY DEF Init, CallInv, Saving, Discarding
<1> QED BY <1>1, CallInv_Next, Spec_IInv, PTL DEF Spec

Base       == Visible(fs)
Recoveries == {Visible(tree) : tree \in disk}
Taken      == {p \in Proc : pc[p] \in {"renamed", "unlinked", "removed"}}

\* what a reader gets is always among what a power loss can bring back
LEMMA BaseIsRecoverable == IInv => Base \in Recoveries
  BY DEF IInv, DiskInv, Base, Recoveries

LEMMA TakenMoves ==
  ASSUME IInv, NEW p \in Proc, NEW point \in Point, GoTo(p, point)
  PROVE  Taken' = IF point \in {"renamed", "unlinked", "removed"} THEN Taken \cup {p} ELSE Taken \ {p}
BY Moves DEF IInv, Taken

\* A step that leaves calls and outcomes alone, whose process is neither at nor moves
\* to a point past an effect, and that keeps what is seen, is a stutter or a settling.
LEMMA Silent ==
  ASSUME IInv, UNCHANGED <<call, outcome>>, Taken' = Taken, Base' = Base,
         Recoveries' \in {Recoveries, {Base}}
  PROVE  [Map!Next]_(Map!vars)
BY DEF Map!Next, Map!vars, Map!Settle, Base, Recoveries, Taken

\* Where the process of a step is, and where it goes.
LEMMA SilentMove ==
  ASSUME IInv, NEW p \in Proc, NEW point \in Point, GoTo(p, point),
         {pc[p], point} \cap {"renamed", "unlinked", "removed"} = {},
         UNCHANGED <<call, outcome>>, Base' = Base, Recoveries' \in {Recoveries, {Base}}
  PROVE  [Map!Next]_(Map!vars)
<1>1. Taken' = Taken
  BY TakenMoves DEF Taken
<1> QED BY <1>1, Silent

\* The trees stay, or change into one that reads like the one before.
LEMMA KeepSeen == IInv /\ Keep => Base' = Base /\ Recoveries' = Recoveries
  BY DEF Keep, Base, Recoveries

LEMMA ChangeSeen ==
  ASSUME IInv, NEW tree, fs' = tree, Visible(tree) = Visible(fs),
         disk' \in {disk, disk \cup {tree}, {tree}, {fs, tree}}
  PROVE  Base' = Base /\ Recoveries' \in {Recoveries, {Base}}
<1>1. Base' = Base
  BY DEF Base
<1>2. Recoveries' = {Visible(x) : x \in disk'}
  BY DEF Recoveries, Visible
<1>3. CASE disk' = disk
  BY <1>1, <1>2, <1>3 DEF Recoveries
<1>4. CASE disk' = disk \cup {tree}
  BY <1>1, <1>2, <1>4, BaseIsRecoverable DEF Recoveries, Base
<1>5. CASE disk' = {tree} \/ disk' = {fs, tree}
  BY <1>1, <1>2, <1>5 DEF Base
<1> QED BY <1>1, <1>3, <1>4, <1>5

\* A call that ends.
LEMMA MapReturn ==
  ASSUME IInv, CallInv, NEW p \in Proc, pc[p] \in Saving \cup Discarding,
         NEW how \in {"saved", "uncertain", "reset", "already absent", "rejected", "failed", "interrupted"},
         Return(p, how), Base' = Base, Recoveries' \in {Recoveries, {Base}},
         \/ how = "saved" /\ p \in Taken /\ Recoveries' = {Base}
         \/ how = "uncertain" /\ p \in Taken
         \/ how = "reset" /\ p \in Taken /\ Recoveries' = {Base}
         \/ how = "already absent" /\ Base[call[p].unit] = Absent
         \/ how = "rejected" /\ p \notin Taken
         \/ how = "failed" /\ p \in Taken /\ call[p].payload = Absent
         \/ how = "interrupted"
  PROVE  Map!Return(p)
<1>1. call[p] # NoCall
  BY DEF IInv, ProcInv, InCall
<1>2. Taken' = Taken \ {p}
  BY TakenMoves DEF Return, Point
<1>3. Map!Truthful(p, how)
  BY DEF Map!Truthful, Taken, Base, Recoveries
<1> QED BY <1>1, <1>2, <1>3 DEF Map!Return, Return, Taken, Base, Recoveries

LEMMA MapReturns ==
  ASSUME IInv, CallInv, NEW p \in Proc, Map!Return(p)
  PROVE  [Map!Next]_(Map!vars)
BY DEF Map!Next

\* Opening, validating and reading show the map nothing; flushes make it safe.
LEMMA OpenSilent == ASSUME IInv, CallInv, NEW p \in Proc, Open(p) PROVE [Map!Next]_(Map!vars)
<1>1. PICK point \in {"validate", "establish"} : GoTo(p, point)
  BY DEF Open
<1>2. Base' = Base /\ Recoveries' \in {Recoveries, {Base}}
  <2>1. CASE Keep
    BY <2>1, KeepSeen
  <2>2. CASE fs.names = {"layout"} /\ fs' = [fs EXCEPT !.names = {"layout", "lock"}] /\ disk' = {fs'}
    <3>1. fs \in FileSystem
      BY DEF IInv, TypeOK
    <3>2. Visible(fs') = Visible(fs)
      BY <2>2, <3>1 DEF Visible, FileSystem
    <3> QED BY <2>2, <3>2, ChangeSeen
  <2>3. CASE "layout" \notin fs.names /\ Change([fs EXCEPT !.names = @ \cup {"lock"}])
    <3>1. fs \in FileSystem
      BY DEF IInv, TypeOK
    <3>2. Visible(fs') = Visible(fs)
      BY <2>3, <3>1 DEF Visible, FileSystem, Change
    <3> QED BY <2>3, <3>2, ChangeSeen DEF Change
  <2> QED BY <2>1, <2>2, <2>3 DEF Open
<1>3. point \in Point /\ pc[p] = "closed" /\ UNCHANGED <<call, outcome>>
  BY DEF Open, Point
<1> QED BY <1>1, <1>2, <1>3, SilentMove

LEMMA KeepingSilent ==
  ASSUME IInv, CallInv, NEW p \in Proc,
         \/ StartEstablish(p) \/ StartValidation(p) \/ FinishValidation(p) \/ Close(p)
         \/ BeginRead(p) \/ Read(p) \/ EndRead(p)
  PROVE  [Map!Next]_(Map!vars)
<1>1. Keep /\ UNCHANGED <<call, outcome>>
  BY DEF StartEstablish, StartValidation, FinishValidation, Close, BeginRead, Read, EndRead
<1>2. \/ \E point \in {"drop", "validate", "closed", "validating", "open", "reading"} :
           GoTo(p, point) /\ pc[p] \notin {"renamed", "unlinked", "removed"}
      \/ pc' = pc
  BY DEF StartEstablish, StartValidation, FinishValidation, Close, BeginRead, Read, EndRead, Establishing
<1>3. Base' = Base /\ Recoveries' = Recoveries
  BY <1>1, KeepSeen
<1>4. CASE pc' = pc
  BY <1>1, <1>3, <1>4, Silent DEF Taken
<1> QED BY <1>1, <1>2, <1>3, <1>4, SilentMove DEF Point, Exclusive, Establishing, Shared

LEMMA EstablishSilent ==
  ASSUME IInv, CallInv, NEW p \in Proc, DropGroup(p) \/ WriteMarker(p) \/ FlushMarker(p)
  PROVE  [Map!Next]_(Map!vars)
<1>1. fs \in FileSystem
  BY DEF IInv, TypeOK
<1>2. CASE DropGroup(p)
  <2>1. "layout" \notin fs.names
    BY <1>2 DEF DropGroup, IInv, ProcInv, InCall
  <2>2. Visible(fs') = Visible(fs) /\ disk' = {fs'}
    BY <1>1, <1>2, <2>1 DEF DropGroup, Visible, FileSystem
  <2> QED BY <1>2, <2>2, ChangeSeen, Silent DEF DropGroup, Taken
<1>3. CASE WriteMarker(p)
  <2>1. \A u \in Unit : fs.record[u] = Absent
    BY <1>3 DEF IInv, DiskInv, Sound, WriteMarker
  <2>2. "layout" \notin fs.names
    BY <1>3 DEF WriteMarker, IInv, ProcInv, InCall
  <2>3. fs.record = NoRecords
    BY <1>1, <2>1 DEF FileSystem, NoRecords
  <2>4. Visible(fs') = Visible(fs) /\ disk' = disk \cup {fs'}
    BY <1>1, <1>3, <2>2, <2>3 DEF WriteMarker, Change, Visible, FileSystem
  <2>5. GoTo(p, "marked") /\ "marked" \in Point /\ pc[p] = "drop" /\ UNCHANGED <<call, outcome>>
    BY <1>3 DEF WriteMarker, Point, Exclusive, Establishing
  <2> QED BY <2>4, <2>5, ChangeSeen, SilentMove
<1>4. CASE FlushMarker(p)
  <2>1. GoTo(p, "validate") /\ "validate" \in Point /\ pc[p] = "marked" /\ UNCHANGED <<call, outcome>>
    BY <1>4 DEF FlushMarker, Point
  <2>2. fs' = fs /\ disk' = {fs'}
    BY <1>4 DEF FlushMarker, Flush
  <2> QED BY <2>1, <2>2, ChangeSeen, SilentMove
<1> QED BY <1>2, <1>3, <1>4

\* A call that is taken up, or turned away because somebody holds the lock.
LEMMA BeginSeen ==
  ASSUME IInv, CallInv, NEW p \in Proc, NEW u \in Unit, NEW v \in Payload \cup {Absent},
         NEW point \in {"enter", "unlink"}, Begin(p, u, v, point)
  PROVE  [Map!Next]_(Map!vars)
<1>1. call[p] = NoCall
  BY DEF CallInv, Begin, Saving, Discarding
<1>2. Base' = Base /\ Recoveries' = Recoveries
  BY KeepSeen DEF Begin
<1>3. Taken' = Taken
  <2>1. CASE GoTo(p, point)
    BY <2>1, TakenMoves DEF Begin, Taken, Point, Exclusive, Saving, Discarding
  <2> QED BY <2>1 DEF Begin, Taken
<1>4. Map!Begin(p)
  BY <1>1, <1>2, <1>3 DEF Map!Begin, Begin, Base, Recoveries, Taken
<1> QED BY <1>4 DEF Map!Next

\* A save makes its directory, or finds a record it may not replace.
LEMMA EnterGroupSeen == ASSUME IInv, CallInv, NEW p \in Proc, EnterGroup(p) PROVE [Map!Next]_(Map!vars)
<1>1. pc[p] = "enter" /\ pc[p] \in Saving \cup Discarding
  BY DEF EnterGroup, Saving
<1>2. "layout" \in fs.names /\ fs \in FileSystem
  BY <1>1, Running DEF IInv, TypeOK
<1>3. Visible(fs') = Visible(fs) /\ disk' \in {disk, {fs'}}
  BY <1>2 DEF EnterGroup, Visible, FileSystem
<1>4. Base' = Base /\ Recoveries' \in {Recoveries, {Base}}
  BY <1>3, ChangeSeen
<1>5. CASE Return(p, "rejected")
  BY <1>1, <1>4, <1>5, MapReturn, MapReturns DEF Taken
<1>6. CASE GoTo(p, "rename") /\ UNCHANGED <<call, outcome>>
  BY <1>1, <1>4, <1>6, SilentMove DEF Point, Exclusive, Saving
<1> QED BY <1>5, <1>6 DEF EnterGroup

\* The step at which a save or a discard takes effect.
LEMMA EffectSeen ==
  ASSUME IInv, CallInv, NEW p \in Proc, pc[p] \in {"rename", "unlink"},
         NEW point \in {"renamed", "unlinked"}, GoTo(p, point), UNCHANGED <<call, outcome>>,
         Change([fs EXCEPT !.record[call[p].unit] = call[p].payload]),
         call[p].payload # Absent => fs.record[call[p].unit] # Corrupt
  PROVE  [Map!Next]_(Map!vars)
<1>1. /\ call[p] # NoCall /\ "layout" \in fs.names /\ fs \in FileSystem
      /\ call[p].unit \in Unit /\ call[p].payload \in Content
  <2>1. pc[p] \in Saving \cup Discarding
    BY DEF Saving, Discarding
  <2> QED BY <2>1, Running DEF IInv, TypeOK, ProcInv, InCall, Content
<1>2. p \notin Taken /\ Taken' = Taken \cup {p}
  BY TakenMoves DEF Taken, Point, Exclusive, Saving, Discarding
<1>3. /\ Base = fs.record /\ Base' = [fs.record EXCEPT ![call[p].unit] = call[p].payload]
      /\ disk' = disk \cup {fs'}
  BY <1>1 DEF Base, Visible, Change, FileSystem
<1>4. Recoveries' = Recoveries \cup {Base'}
  <2>1. Recoveries' = {Visible(x) : x \in disk'}
    BY DEF Recoveries, Visible
  <2> QED BY <1>3, <2>1 DEF Recoveries, Base
<1>5. Map!TakeEffect(p)
  BY <1>1, <1>2, <1>3, <1>4 DEF Map!TakeEffect, Base, Recoveries, Taken
<1> QED BY <1>5 DEF Map!Next

LEMMA RenameSeen == ASSUME IInv, CallInv, NEW p \in Proc, Rename(p) PROVE [Map!Next]_(Map!vars)
<1>1. fs.record[call[p].unit] # Corrupt
  BY DEF IInv, ProcInv, InCall, Rename
<1> QED BY <1>1, EffectSeen DEF Rename

LEMMA UnlinkSeen == ASSUME IInv, CallInv, NEW p \in Proc, Unlink(p) PROVE [Map!Next]_(Map!vars)
<1>1. pc[p] = "unlink" /\ pc[p] \in Saving \cup Discarding
  BY DEF Unlink, Discarding
<1>2. call[p].payload = Absent
  BY <1>1 DEF CallInv, Discarding
<1>3. CASE fs.record[call[p].unit] = Absent
  <2>1. Base[call[p].unit] = Absent
    BY <1>1, <1>3, Running DEF Base, Visible
  <2>2. Return(p, "already absent") /\ Keep
    BY <1>3 DEF Unlink
  <2> QED BY <1>1, <2>1, <2>2, KeepSeen, MapReturn, MapReturns
<1>4. CASE fs.record[call[p].unit] # Absent
  BY <1>1, <1>2, <1>4, EffectSeen DEF Unlink
<1> QED BY <1>3, <1>4

\* The end of a call that has had its effect.
LEMMA FlushRenameSeen == ASSUME IInv, CallInv, NEW p \in Proc, FlushRename(p) PROVE [Map!Next]_(Map!vars)
<1>1. pc[p] \in Saving \cup Discarding /\ p \in Taken
  BY DEF FlushRename, Saving, Taken
<1>2. CASE Flush /\ Return(p, "saved")
  <2>1. Base' = Base /\ Recoveries' = {Base}
    BY <1>2 DEF Flush, Base, Recoveries
  <2> QED BY <1>1, <1>2, <2>1, MapReturn, MapReturns
<1>3. CASE Keep /\ Return(p, "uncertain")
  BY <1>1, <1>3, KeepSeen, MapReturn, MapReturns
<1> QED BY <1>2, <1>3 DEF FlushRename

LEMMA FlushUnlinkSeen ==
  ASSUME IInv, CallInv, NEW p \in Proc, FlushUnlink(p) \/ FlushRemoval(p) PROVE [Map!Next]_(Map!vars)
<1>1. pc[p] \in {"unlinked", "removed"} /\ pc[p] \in Saving \cup Discarding /\ p \in Taken
  BY DEF FlushUnlink, FlushRemoval, Discarding, Taken
<1>2. "layout" \in fs.names /\ fs \in FileSystem
  BY <1>1, Running DEF IInv, TypeOK
<1>3. CASE Flush /\ Return(p, "reset")
  <2>1. Base' = Base /\ Recoveries' = {Base}
    BY <1>3 DEF Flush, Base, Recoveries
  <2> QED BY <1>1, <1>3, <2>1, MapReturn, MapReturns
<1>4. CASE /\ fs' = [fs EXCEPT !.groups = @ \ {GroupOf(p)}] /\ disk' = {fs, fs'}
           /\ GoTo(p, "removed") /\ UNCHANGED <<call, outcome>>
  <2>1. Visible(fs') = Visible(fs)
    BY <1>2, <1>4 DEF Visible, FileSystem
  <2>2. Taken' = Taken
    BY <1>1, <1>4, TakenMoves DEF Point, Exclusive, Discarding
  <2> QED BY <1>4, <2>1, <2>2, ChangeSeen, Silent
<1> QED BY <1>3, <1>4 DEF FlushUnlink, FlushRemoval

LEMMA FailureSeen ==
  ASSUME IInv, CallInv, NEW p \in Proc, CallFails(p) \/ Interrupt(p) PROVE [Map!Next]_(Map!vars)
<1>1. pc[p] \in Saving \cup Discarding /\ Keep
  BY DEF CallFails, Interrupt, Saving, Discarding
<1>2. Base' = Base /\ Recoveries' = Recoveries
  BY <1>1, KeepSeen
<1>3. CASE pc[p] \in {"enter", "rename", "unlink"} /\ Return(p, "rejected")
  BY <1>1, <1>2, <1>3, MapReturn, MapReturns DEF Taken
<1>4. CASE pc[p] \in {"unlinked", "removed"} /\ Return(p, "failed")
  BY <1>1, <1>2, <1>4, MapReturn, MapReturns DEF Taken, CallInv, Discarding
<1>5. CASE Return(p, "interrupted")
  BY <1>1, <1>2, <1>5, MapReturn, MapReturns
<1> QED BY <1>3, <1>4, <1>5 DEF CallFails, Interrupt

LEMMA KillSeen == ASSUME IInv, CallInv, NEW p \in Proc, Kill(p) PROVE [Map!Next]_(Map!vars)
<1>1. Taken' = Taken \ {p}
  BY TakenMoves DEF Kill, Point
<1>2. Base' = Base /\ Recoveries' = Recoveries
  <2>1. CASE Keep
    BY <2>1, KeepSeen
  <2>2. CASE Change([fs EXCEPT !.temps = @ \cup {GroupOf(p)}])
    <3>1. fs \in FileSystem
      BY DEF IInv, TypeOK
    <3>2. Visible(fs') = Visible(fs) /\ disk' = disk \cup {fs'}
      BY <2>2, <3>1 DEF Change, Visible, FileSystem
    <3>3. Recoveries' = {Visible(x) : x \in disk'}
      BY DEF Recoveries, Visible
    <3> QED BY <3>2, <3>3, BaseIsRecoverable DEF Recoveries, Base
  <2> QED BY <2>1, <2>2 DEF Kill
<1>3. Map!Kill(p)
  BY <1>1, <1>2 DEF Kill, Map!Kill, Base, Recoveries, Taken
<1> QED BY <1>3 DEF Map!Next

LEMMA PowerLossSeen == ASSUME IInv, CallInv, PowerLoss PROVE [Map!Next]_(Map!vars)
<1>1. fs' \in disk /\ disk' = {fs'}
  BY DEF PowerLoss
<1>2. Base' \in Recoveries /\ Recoveries' = {Base'}
  BY <1>1 DEF Base, Recoveries
<1>3. Taken' = {}
  BY DEF PowerLoss, Taken
<1>4. Map!PowerLoss
  BY <1>2, <1>3 DEF PowerLoss, Map!PowerLoss, Base, Recoveries, Taken
<1> QED BY <1>4 DEF Map!Next

\* Every step of the store is a step of the map or shows it nothing.
LEMMA StepsImplement == IInv /\ CallInv /\ [Next]_vars => [Map!Next]_(Map!vars)
<1> SUFFICES ASSUME IInv, CallInv, [Next]_vars PROVE [Map!Next]_(Map!vars)
  OBVIOUS
<1>1. CASE UNCHANGED vars
  BY <1>1, Silent DEF vars, Base, Recoveries, Taken
<1>2. CASE PowerLoss
  BY <1>2, PowerLossSeen
<1>3. ASSUME NEW p \in Proc, Progress(p) PROVE [Map!Next]_(Map!vars)
  BY <1>3, KeepingSilent, EstablishSilent, EnterGroupSeen, RenameSeen, FlushRenameSeen, UnlinkSeen,
     FlushUnlinkSeen DEF Progress
<1>4. ASSUME NEW p \in Proc, Replace(p) \/ Delete(p) PROVE [Map!Next]_(Map!vars)
  BY <1>4, BeginSeen DEF Replace, Delete
<1>5. ASSUME NEW p \in Proc,
             Open(p) \/ Close(p) \/ BeginRead(p) \/ Read(p) \/ CallFails(p) \/ Interrupt(p) \/ Kill(p)
      PROVE  [Map!Next]_(Map!vars)
  BY <1>5, OpenSilent, KeepingSilent, FailureSeen, KillSeen
<1> QED BY <1>1, <1>2, <1>3, <1>4, <1>5 DEF Next

\* The store keeps its promise: whatever its processes do, wherever they are killed and whenever
\* the power fails, its readers see a map whose saves and discards take effect at one instant and
\* are reported truthfully (BaseStore.replace, delete and read as one interface).
THEOREM StoreImplementsMap == Spec => ImplementsMap
<1>1. Init => Map!Init
  BY DEF Init, Map!Init
<1> QED BY <1>1, StepsImplement, Spec_IInv, Spec_CallInv, PTL DEF Spec, ImplementsMap, Map!Spec
=============================================================================
