----------------------------- MODULE MCWorkspace -----------------------------
(***************************************************************************)
(* What surrounds a session: which packages are tracked and in scope, what *)
(* Guards leave, what a census finds in a directory target, what a unit's  *)
(* Base remembers between operations, and what snapshots restore.  These   *)
(* parts share no state here, so one run checks them side by side: the     *)
(* initial state says which of them moves, the others rest.  The type      *)
(* invariant of a part is checked with its properties.                     *)
(***************************************************************************)
EXTENDS MCResolution, MCSyncDirectory

CONSTANTS o1, o2, Missing

VARIABLES
  part,
  tree, gens, push, restore, changes, alone,                                   \* snapshots
  source, target, base, setup, lock, runs, edits, met,                         \* a Base
  guarded, noop, at, level, way, left, decided, held, scopes, kept, skips, ran \* Guards

\* a directory d that the operations may create, a folder in it and a file in that
Restored == <<"d", "d/n", "d/n/x">>
Above == [p \in Range(Restored) |-> CASE p = "d/n" -> {"d"} [] p = "d/n/x" -> {"d", "d/n"} [] OTHER -> {}]
Recordings == {{"d/n/x"}, {"d", "d/n/x"}}
\* the user's links: one that dangles, one to a file
Absence == [kind |-> "absent", data |-> 1]
Linking == <<Absence, [kind |-> "file", data |-> 1]>>
\* a push among other writers, and pushes that replace one another
Edited == INSTANCE Snapshots WITH live <- tree, edits <- changes,
  ByName <- Restored, Ancestors <- Above, Recorded <- Recordings,
  Structural <- Range(Restored), Roots <- {"d"}, Linked <- {"d/n/x"}, Data <- {1, 2}, Behind <- Linking, Default <- 1,
  MaxGenerations <- 1, Pushes <- 1, Edits <- 2
Repeated == INSTANCE Snapshots WITH live <- tree, edits <- changes,
  ByName <- Restored, Ancestors <- Above, Recorded <- Recordings,
  Structural <- Range(Restored), Roots <- {"d"}, Linked <- {}, Data <- {1, 2}, Behind <- Linking, Default <- 1,
  MaxGenerations <- 1, Pushes <- 2, Edits <- 0

\* two operations on a file of two hunks, one of which projections are about
Contents(x, y) == [h \in {1, 2} |-> IF h = 1 THEN x ELSE y]
Lifecycle == INSTANCE SyncLifecycle WITH live <- target, setting <- setup,
  Operations <- {o1, o2}, Hunks <- {1, 2}, Values <- {0, 1}, Generated <- {2},
  Texts <- {Contents(0, 0), Contents(1, 0), Contents(0, 1)},
  Projections <- {"raw", "patch", "overlay", "lossy"}, Policies <- {"both", "pull-only", "push-only"},
  Follows <- {FALSE}, Edits <- 2
\* the other policies come by an edit
InitialPolicy == [raw |-> "pull-only", patch |-> "both", overlay |-> "push-only", lossy |-> "both"]

\* two packages, one of them selected twice, and a directory target with two path rules
p1 == <<"r", "p">>
p2 == <<"r", "q">>
t1 == <<"r", "p", "t">>
t2 == <<"r", "p", "u">>
Everywhere(S) == {"push", "pull"} \X S
Guard == INSTANCE PlanningGuards WITH
  Names <- {"r", "p", "q", "t", "u"}, Items <- <<p1, p2, p1>>, Work <- <<t1, t2, t1, t2>>,
  Directory <- t1, Rules <- <<{1, 2}, {2}>>,
  Offered <- [d \in {"push", "pull"} |-> IF d = "push" THEN {t1} ELSE {t1, t2}],
  Children <- [d \in {"push", "pull"} |-> IF d = "push" THEN {1} ELSE {1, 2}],
  Guarded <- {Everywhere(S) : S \in SUBSET ({<<"r">>, p1, p2, t1, t2} \cup {Append(t1, i) : i \in 1..2})},
  Noop <- {{}, {<<"pull", p2>>}, {<<"push", p1>>, <<"push", <<"r">>>>}}

ASSUME Census!DirectoryAssumption /\ Edited!SnapshotsAssumption /\ Repeated!SnapshotsAssumption
ASSUME Lifecycle!LifecycleAssumption /\ Guard!GuardsAssumption

census    == <<setting, repo, live, bases, session>>
history   == <<tree, gens, push, restore, changes, alone>>
ancestry  == <<source, target, base, setup, lock, runs, edits, met>>
admission == <<guarded, noop, at, level, way, left, decided, held, scopes, kept, skips, ran>>
graph     == <<config, files, ask>>
workspace == <<part, census, history, ancestry, admission, graph>>

Moves(p, rests) == part = p \/ rests
WorkspaceInit ==
  /\ part \in {"packages", "census", "restores", "history", "base", "guards"}
  /\ Init /\ Moves("packages", config = "catalog")
  /\ Guard!Init /\ Moves("guards", guarded = {} /\ noop = {})
  /\ Lifecycle!Init /\ setup.policy = InitialPolicy[setup.projection]
  /\ Moves("base", source = Missing /\ setup.projection = "raw")
  /\ Edited!Init
  /\ IF part = "census"
     THEN Census!Init
     ELSE /\ setting = Configuration(FALSE, "prompt", TRUE, Silent, Silent, Silent)
          /\ repo = [p \in Places |-> "absent"] /\ live = repo
          /\ bases = {} /\ session = Census!Between

Runs(p) == part = p /\ UNCHANGED part
WorkspaceNext ==
  \/ Runs("packages") /\ Next /\ UNCHANGED <<census, history, ancestry, admission>>
  \/ Runs("census") /\ Census!Next /\ UNCHANGED <<history, ancestry, admission, graph>>
  \/ Runs("restores") /\ Edited!Next /\ UNCHANGED <<census, ancestry, admission, graph>>
  \/ Runs("history") /\ Repeated!Next /\ UNCHANGED <<census, ancestry, admission, graph>>
  \/ Runs("base") /\ Lifecycle!Next /\ UNCHANGED <<census, history, admission, graph>>
  \/ Runs("guards") /\ Guard!Next /\ UNCHANGED <<census, history, ancestry, graph>>
WorkspaceSpec == WorkspaceInit /\ [][WorkspaceNext]_workspace

Interchangeable == Permutations({o1, o2})

-----------------------------------------------------------------------------

\* A scope holds what its packages need, and the lists tell what a sync would work on (SyncScope).
\* Said before each step: between commands the configuration can always change.
ReadsAgree == [][part = "packages" => ScopesAreClosed /\ ListIsTrue]_workspace

\* A command leaves at most one owner for a path, and takes nothing it has not shown (Tracking).
OwnersStayUnique == [][part = "packages" => LeavesOneOwner]_workspace
NothingTakenUnasked == [][part = "packages" => Approved]_workspace

\* Generations stay listed with their contents until newer ones replace them; a restore leaves
\* what its snapshot recorded, and nothing beside it changes (Snapshots).
HistoryRestores ==
  /\ [](part = "restores" => Edited!TypeOK /\ Edited!RestoredAsRecorded /\ Edited!NewestStay)
  /\ [](part = "history" => Repeated!TypeOK /\ Repeated!RestoredAsRecorded /\ Repeated!NewestStay)
  /\ Edited!SparesTheRest

\* A child is observed only if the way to it is known, and its blockers with it (SyncDirectory).
CensusVouches == part = "census" => Census!TypeOK /\ Census!ObservedIsKnown /\ Census!NothingIsBuriedUnseen

\* A Base is reclaimed only of a child that is gone from both trees (SyncDirectory).
ReclaimedAreGone == Census!ReclaimedAreGone

\* What ends converged agrees, and the Base is the source it agrees in (SyncLifecycle).
EndsInAgreement == Lifecycle!EndsInAgreement

\* A merge keeps what only one side has changed since the Base was recorded (SyncLifecycle).
MergeKeepsEdits == Lifecycle!MergeKeepsEdits

\* A source is deleted only for a live file that was not there (SyncLifecycle).
DeletionsAreReal == Lifecycle!DeletionsAreReal

\* A run on a unit that may have no Base works without one (SyncLifecycle).
IneligibleHasNoBase == part = "base" => Lifecycle!TypeOK /\ Lifecycle!IneligibleHasNoBase

\* Guards narrow what policies offer, each is asked once, and nothing else does (PlanningGuards).
GuardsDecide == part = "guards" => Guard!TypeOK /\ Guard!GuardsDecide
=============================================================================
