---------------------------- MODULE SyncExecution ----------------------------
(***************************************************************************)
(* One execution of approved work by a session (ProposalSession._finish,   *)
(* _publish, _commit): Additional Sources, Repository Apply, Live          *)
(* Publication, reclamation of obsolete Bases, Commit Work.  Every stage   *)
(* is a frozen set of steps taken in one order; a step can fail, with or   *)
(* without its effect, be interrupted, or be cut short by the death of the *)
(* process.  The file system is the set of steps whose effect happened.    *)
(***************************************************************************)
EXTENDS Integers, Sequences, FiniteSets

CONSTANTS
  Repo, Package, Target, Unit, \* the tree of hook scopes and Sync Units
  Addition,   \* Additional Source rows
  Parent,     \* the scope that each Package, Target, Unit and Addition is in
  Position,   \* its place among its siblings: plan order, path order
  Nested,     \* pairs {u, v} of Units, one's path inside the other's
  DirectoryRoot, \* units that stand for the root of a directory target: a chmod, no Base
  HookScope,  \* pairs <<stage, scope>>: the scope has hooks for the stage
  NoopHook,   \* those whose hooks may also run for their own sake (run_noop)
  Unselected, \* the proposal of a unit that is excluded or not approved
  Plan        \* the executions explored

Scope == Repo \cup Package \cup Target

Direction == {"apply", "publish"} \* the stages that hooks surround: pull, push

\* the live effects that a proposal can have, in their order
EffectList ==
  {<<>>, <<"delete">>, <<"write">>, <<"chmod">>, <<"reapply">>, <<"write", "chmod">>,
   <<"reapply", "chmod">>, <<"write", "reapply", "chmod">>}

Proposal == [source     : {"keep", "update", "delete"},
             effects    : EffectList,
             checkpoint : BOOLEAN]  \* qualified and of an eligible policy

PlanType == [proposal  : [Unit -> Proposal \cup {Unselected}],
             additions : SUBSET Addition,  \* approved ones
             probes    : SUBSET (Direction \X Target), \* included Probes: hooks without payload
             noops     : SUBSET (Direction \X Scope),  \* included hook rows
             snapshots : BOOLEAN,          \* snapshots are enabled
             obsolete  : SUBSET Target,    \* directories with Bases of vanished children
             held      : SUBSET Target,    \* with an excluded or failed row
             commits   : SUBSET Repo,      \* selected commit options
             observed  : BOOLEAN]          \* every unit was observed and could be proposed

ASSUME TreeAssumption ==
  /\ Parent \in [Package \cup Addition \cup Target \cup Unit -> Scope]
  /\ \A x \in Package \cup Addition : Parent[x] \in Repo
  /\ \A t \in Target : Parent[t] \in Package
  /\ \A u \in Unit : Parent[u] \in Target
  /\ Position \in [Scope \cup Unit \cup Addition -> Nat]
  /\ \A e \in Nested : \A u, v \in e : u \in Unit /\ Parent[u] = Parent[v]
  /\ DirectoryRoot \subseteq Unit
  /\ NoopHook \subseteq HookScope /\ HookScope \subseteq Direction \X Scope
  /\ Repo \cap Package = {} /\ (Repo \cup Package) \cap Target = {}
  /\ Scope \cap (Unit \cup Addition) = {} /\ Unit \cap Addition = {}
  /\ \A K \in {Repo, Package, Target, Unit} : \A x, y \in K : \* siblings are ordered
       x # y /\ (K = Repo \/ Parent[x] = Parent[y]) => Position[x] # Position[y]
  /\ Plan \subseteq PlanType

Stages == <<"sources", "apply", "publish", "reclaim", "commit", "done">>
StageName == {Stages[i] : i \in 1..Len(Stages)}

VARIABLES
  plan,         \* the selection, frozen when execution starts
  frozen,       \* the steps of each stage, fixed at the same time
  stage,        \* the stage of the execution, or "killed"
  todo,         \* steps of the stage that are still to be taken
  performed,    \* steps whose effect happened
  succeeded,    \* steps that ended well
  failures,     \* steps that did not
  stopped,      \* a failure or an interruption was reported as an error
  acknowledged, \* units whose outcome was saved as their Sync Base
  snapshot      \* the live snapshot: its status and the originals it holds

vars == <<plan, frozen, stage, todo, performed, succeeded, failures, stopped, acknowledged, snapshot>>

-----------------------------------------------------------------------------
(* The steps of a stage                                                    *)

Selected  == {u \in Unit : plan.proposal[u] # Unselected}
Source(u) == plan.proposal[u].source
Effects(u) == plan.proposal[u].effects

\* how many effects a unit has in a stage, and whether its completion is there:
\* a unit that needs live effects is complete after its own publication
EffectCount(st, u) ==
  IF st = "apply" THEN IF Source(u) = "keep" THEN 0 ELSE 1 ELSE Len(Effects(u))
AlwaysInApply(st, u) == st = "apply"                                    \* mutant
CompletesIn(st, u) ==
  /\ u \notin DirectoryRoot
  /\ IF st = "apply" THEN Effects(u) = <<>> ELSE Effects(u) # <<>>

Line ==
  [x \in Scope \cup Unit \cup Addition |->
     CASE x \in Repo               -> <<x>>
       [] x \in Package \cup Addition -> <<Parent[x], x>>
       [] x \in Target             -> <<Parent[Parent[x]], Parent[x], x>>
       [] x \in Unit               -> <<Parent[Parent[Parent[x]]], Parent[Parent[x]], Parent[x], x>>]

Within(x, scope) == \E i \in DOMAIN Line[x] : Line[x][i] = scope

\* hooks run in the scopes around a unit that has effects, around a Probe, and where
\* a hook row asks for those that may run for their own sake
Hooks(st) ==
  {scope \in Scope :
     \/ /\ <<st, scope>> \in HookScope
        /\ \/ \E u \in Selected : EffectCount(st, u) > 0 /\ Within(u, scope)
           \/ \E t \in Target : <<st, t>> \in plan.probes /\ Within(t, scope)
     \/ /\ <<st, scope>> \in NoopHook
        /\ \E x \in Scope : <<st, x>> \in plan.noops /\ Within(x, scope)}

\* repositories, packages, targets and units in plan order; the steps at one of them
\* come before (0), among (1..) or after what is inside
Key(at, n) ==
  LET line == Line[at] IN
  [i \in 1..2 * Len(line) |->
     IF i = 2 * Len(line) THEN n ELSE IF i % 2 = 0 THEN 1 ELSE Position[line[(i + 1) \div 2]]]

Step(st, kind, at, op, n) ==
  [stage |-> st, kind |-> kind, at |-> at, op |-> op, key |-> Key(at, n)]

Effect(st, u, n) ==
  Step(st, "effect", u, IF st = "apply" THEN Source(u) ELSE Effects(u)[n], n)
Completion(st, u) == Step(st, "complete", u, "save", EffectCount(st, u) + 1)

HookSteps(scope, st) == {Step(st, "hook", scope, "pre", 0), Step(st, "hook", scope, "post", 2)}
EffectSteps(u, st)   == {Effect(st, u, n) : n \in 1..EffectCount(st, u)}
Completions(st)      == {Completion(st, u) : u \in {x \in Selected : CompletesIn(st, x)}}

Steps(st) == (UNION {HookSteps(scope, st) : scope \in Hooks(st)})
             \cup (UNION {EffectSteps(u, st) : u \in Selected}) \cup Completions(st)

WrittenIn(r) == \/ \E u \in Selected : Source(u) # "keep" /\ Within(u, r)
                \/ \E a \in plan.additions : Parent[a] = r

StepsOf(st) ==
  CASE st = "sources" -> {Step(st, "addition", a, "update", 1) : a \in plan.additions}
    [] st \in Direction -> Steps(st)
    [] st = "reclaim" -> {Step(st, "reclaim", t, "discard", 1) : t \in plan.obsolete \ plan.held}
    [] st = "commit"  -> {Step(st, "commit", r, "commit", 1) : r \in {x \in plan.commits : WrittenIn(x)}}
    [] st = "done"    -> {}

Before(s, t) ==
  \E i \in DOMAIN s.key \cap DOMAIN t.key :
    s.key[i] < t.key[i] /\ \A j \in 1..i - 1 : s.key[j] = t.key[j]

\* among nested paths a deletion precedes the write that needs its place
Does(s, ops) == \E t \in frozen[s.stage] : t.at = s.at /\ t.op \in ops
Deletes(s)   == s.at \in Unit /\ Does(s, {"delete"})
Writes(s)    == s.at \in Unit /\ Does(s, {"write", "update"})

InPathOrder(s)     == FALSE                                             \* mutant
EitherGoesFirst(s) == \E t \in todo : {s.at, t.at} \in Nested           \* mutant
Blocked(s) == Writes(s) /\ \E t \in todo : {s.at, t.at} \in Nested /\ Deletes(t)

NextSteps ==
  LET ready == {s \in todo : ~Blocked(s)} IN
  {s \in ready : \A t \in ready \ {s} : Before(s, t)}

-----------------------------------------------------------------------------
(* Taking a step                                                           *)

Mutates(s) == s.stage = "publish" /\ s.kind = "effect" /\ s.op # "reapply"

\* mutant: only overwritten files are worth a snapshot
BeforeFirstWrite(s) ==
  /\ plan.snapshots /\ snapshot.status = "none"
  /\ s.stage = "publish" /\ s.kind = "effect" /\ s.op = "write"

NeedsSnapshot(s) == plan.snapshots /\ snapshot.status = "none" /\ Mutates(s)

\* one snapshot of all endpoints of the frozen set, before the first live mutation
TakeSnapshot ==
  \E s \in NextSteps :
    /\ NeedsSnapshot(s)
    /\ snapshot' = [status |-> "prepared",
                    holds  |-> {u \in Selected : /\ \E t \in frozen["publish"] : t.at = u /\ Mutates(t)
                                                 /\ \A t \in performed : t.at = u => ~Mutates(t)}]
  /\ UNCHANGED <<plan, frozen, stage, todo, performed, succeeded, failures, stopped, acknowledged>>

\* a checkpoint that cannot be saved is a warning
Acknowledge(s) ==
  acknowledged' \in IF s.kind = "complete" /\ plan.proposal[s.at].checkpoint
                      THEN {acknowledged, acknowledged \cup {s.at}} ELSE {acknowledged}

Succeed ==
  \E s \in NextSteps :
    /\ ~NeedsSnapshot(s)
    /\ performed' = performed \cup {s}
    /\ succeeded' = succeeded \cup {s}
    /\ todo' = todo \ {s}
    /\ Acknowledge(s)
  /\ UNCHANGED <<plan, frozen, stage, failures, stopped, snapshot>>

\* a step cut short may have had its effect
CutShort(s) ==
  \/ UNCHANGED <<performed, acknowledged>>
  \/ /\ ~NeedsSnapshot(s)
     /\ performed' = performed \cup {s}
     /\ Acknowledge(s)

\* mutant: a failed step does not stop the steps after it
CarryOn ==
  \E s \in NextSteps :
    /\ CutShort(s)
    /\ todo' = todo \ {s}
    /\ failures' = failures \cup {s}
    /\ stopped' = TRUE
  /\ UNCHANGED <<plan, frozen, stage, succeeded, snapshot>>

\* a failed write, hook, snapshot or cancellation check stops every later step;
\* a Base that cannot be reclaimed is a warning, a failed commit concerns its own
\* repository; a completion fails by interruption only
Fail ==
  \E s \in NextSteps, interrupted \in BOOLEAN :
    /\ (s.kind = "complete" => interrupted)
    /\ CutShort(s)
    /\ todo' = IF stage = "commit" THEN todo \ {s} ELSE {}
    /\ failures' = failures \cup {s}
    /\ stopped' = (stopped \/ stage \in {"sources", "apply", "publish"}
                            \/ (stage = "reclaim" /\ interrupted))
  /\ UNCHANGED <<plan, frozen, stage, succeeded, snapshot>>

\* the snapshot gets its final status after the last live step
FinalizeSnapshot ==
  /\ stage = "publish" /\ todo = {} /\ snapshot.status = "prepared"
  /\ \/ /\ snapshot' = [snapshot EXCEPT !.status = IF stopped THEN "failed" ELSE "applied"]
        /\ UNCHANGED stopped
     \/ /\ snapshot' = [snapshot EXCEPT !.status = "unfinished"]
        /\ stopped' = TRUE
  /\ UNCHANGED <<plan, frozen, stage, todo, performed, succeeded, failures, acknowledged>>

\* mutant: a stage that follows a failure is entered all the same
Regardless(st) == TRUE

\* work that follows a failure is not attempted; commits also want every unit observed
Attempted(st) == ~stopped /\ (st = "commit" => plan.observed)

NextStage ==
  /\ todo = {}
  /\ stage = "publish" => snapshot.status # "prepared"
  /\ \E i \in 1..Len(Stages) - 1 :
       /\ Stages[i] = stage
       /\ stage' = Stages[i + 1]
       /\ todo' = IF Attempted(stage') THEN frozen[stage'] ELSE {}
  /\ UNCHANGED <<plan, frozen, performed, succeeded, failures, stopped, acknowledged, snapshot>>

\* the process dies, or an interruption between two steps unwinds it: the operation
\* lock goes with it and nothing more is done or reported
Kill ==
  /\ stage \notin {"done", "killed"}
  /\ stage' = "killed" /\ todo' = {}
  /\ \/ UNCHANGED <<performed, acknowledged>>
     \/ \E s \in NextSteps : CutShort(s)
  /\ UNCHANGED <<plan, frozen, succeeded, failures, stopped, snapshot>>

Init ==
  /\ plan \in Plan
  /\ frozen = [st \in StageName |-> StepsOf(st)]
  /\ stage = "sources" /\ todo = frozen["sources"]
  /\ performed = {} /\ succeeded = {} /\ failures = {}
  /\ stopped = FALSE
  /\ acknowledged = {}
  /\ snapshot = [status |-> "none", holds |-> {}]

Work == TakeSnapshot \/ Succeed \/ Fail \/ FinalizeSnapshot \/ NextStage
Next == Work \/ Kill

Spec     == Init /\ [][Next]_vars
FairSpec == Spec /\ WF_vars(Work)

-----------------------------------------------------------------------------
(* What the session reports                                                *)

\* mutant: a stage that was not reached hides what an earlier one did
LastStageWins(u, applied, published) == published

StageResult(st, u) ==
  IF \E s \in failures : s.stage = st /\ s.at = u THEN "failed"
  ELSE IF \E s \in succeeded : /\ s.stage = st /\ s.at = u
                               /\ s.kind = "complete" \/ ~CompletesIn(st, u) THEN "converged"
  ELSE "skipped"

\* a later stage cannot erase a repository failure or repository work whose
\* publication was not reached
MergeStages(u, applied, published) ==
  LET waiting == Effects(u) # <<>> /\ applied = "converged" IN
  IF \/ Effects(u) = <<>>
     \/ \E s \in failures : s.stage \in {"sources", "apply"}
     \/ published = "skipped" /\ waiting
    THEN IF waiting THEN "not-converged" ELSE applied
    ELSE published

UnitStatus(u) == MergeStages(u, StageResult("apply", u), StageResult("publish", u))

-----------------------------------------------------------------------------
(* Properties                                                              *)

StepType == [stage : {"sources", "apply", "publish", "reclaim", "commit"},
             kind  : {"addition", "hook", "effect", "complete", "reclaim", "commit"},
             at    : Scope \cup Unit \cup Addition,
             op    : {"pre", "post", "update", "delete", "write", "chmod", "reapply",
                      "save", "discard", "commit"},
             key   : Seq(Nat)]

\* Every variable holds a value of its kind; the steps still to be taken are steps of
\* the stage, and none of them was taken before.
TypeOK ==
  /\ plan \in Plan
  /\ frozen \in [StageName -> SUBSET StepType]
  /\ stage \in StageName \cup {"killed"}
  /\ todo \subseteq (IF stage \in StageName THEN frozen[stage] ELSE {})
  /\ performed \cup failures \subseteq (UNION {frozen[st] : st \in StageName}) \ todo
  /\ succeeded \subseteq performed \ failures
  /\ stopped \in BOOLEAN
  /\ acknowledged \subseteq Selected
  /\ snapshot \in [status : {"none", "prepared", "applied", "failed", "unfinished"},
                   holds  : SUBSET Selected]

\* A Sync Base is acknowledged only for an outcome that both sides hold: all of the
\* unit's repository and live effects ended well before, whatever was interrupted,
\* cut short or killed.
BaseFollowsEffects ==
  \A u \in acknowledged : \A st \in {"apply", "publish"} :
    \A s \in frozen[st] : s.at = u /\ s.kind = "effect" => s \in succeeded

\* A failed required repository stage prevents all live work: no live file is
\* touched and no push hook runs unless every Additional Source, source change,
\* pull hook and repository completion ended well.
LiveFollowsSources ==
  \A s \in performed : s.stage = "publish" =>
    frozen["sources"] \cup frozen["apply"] \subseteq succeeded

\* Hooks bracket their scope: effects and completions of a unit come after every
\* pre-hook around it, and a post-hook runs only if all its scope contains ended well.
HooksBracket ==
  \A s \in performed : s.stage \in Direction => \A t \in frozen[s.stage] :
    /\ t.op = "pre" /\ Within(s.at, t.at) /\ t # s => t \in succeeded
    /\ s.op = "post" /\ t # s /\ Within(t.at, s.at) => t \in succeeded

\* A path is written only after every selected deletion of a path inside it, or
\* around it, so the write finds its place free.
DeletionsMakeRoom ==
  \A s \in performed : s.op \in {"write", "update"} => \A t \in frozen[s.stage] :
    {s.at, t.at} \in Nested /\ t.op = "delete" => t \in succeeded

\* Whatever live file the run changed, at whichever point it stopped, the snapshot
\* holds its original if snapshots are enabled.
SnapshotHoldsOriginals ==
  plan.snapshots => \A s \in performed : Mutates(s) =>
    snapshot.status # "none" /\ s.at \in snapshot.holds

\* The report is true of the files: a converged unit has all its effects, a skipped
\* one none, an unconverged one those of its repository only, and a run in which a
\* unit failed is not reported as completed.
ReportIsTrue ==
  stage = "done" => \A u \in Selected \ DirectoryRoot :
    LET effects(st) == {s \in frozen[st] : s.at = u /\ s.kind = "effect"} IN
    CASE UnitStatus(u) = "converged"     -> effects("apply") \cup effects("publish") \subseteq succeeded
      [] UnitStatus(u) = "skipped"       -> (effects("apply") \cup effects("publish")) \cap performed = {}
      [] UnitStatus(u) = "not-converged" -> /\ effects("apply") \subseteq succeeded
                                            /\ effects("publish") \cap performed = {}
      [] UnitStatus(u) = "failed"        -> stopped

\* Only whole runs are committed, or lose the Bases of vanished children: every
\* source, live effect and hook of the run ended well before the first commit or
\* reclamation, and a commit waits for every unit to have been observed.
CommitsWholeRuns ==
  \A s \in performed : s.stage \in {"reclaim", "commit"} =>
    /\ \A st \in {"sources", "apply", "publish"} : frozen[st] \subseteq succeeded
    /\ s.stage = "commit" => plan.observed

\* The first failure or interruption is the last thing that changes anything: no
\* later effect, hook, checkpoint, reclamation or commit.
StopsAtFirstFailure ==
  [][stopped => UNCHANGED <<performed, acknowledged>>]_vars

\* An execution that is not killed ends, and so releases the operation lock: the
\* order of its steps has no cycle, whatever fails.
EveryRunEnds == <>(stage \in {"done", "killed"})
=============================================================================
