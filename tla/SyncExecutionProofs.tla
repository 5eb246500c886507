------------------------ MODULE SyncExecutionProofs ------------------------
(* What holds of every execution, whatever its tree of scopes, its plan and *)
(* the point at which it fails or dies.                                     *)
EXTENDS SyncExecution, TLAPS

EarlyStages == {"sources", "apply", "publish"}
LateStages  == {"reclaim", "commit", "done"}

\* What the frozen steps look like: nothing changes them after Init.
ShapeInv ==
  /\ \A st \in StageName : \A s \in frozen[st] :
       /\ s.stage = st
       /\ s.op \in {"update", "write", "delete"} => st \in EarlyStages
       /\ Mutates(s) => s.at \in Selected
       /\ s.kind = "complete" =>
            /\ st \in Direction
            /\ st = "apply" => \A e \in frozen["publish"] : e.kind = "effect" => e.at # s.at
            /\ \A e \in frozen[st] : e.kind = "effect" /\ e.at = s.at => ~Before(s, e)

\* The frozen steps are those of the plan, whose units have proposals.
FrozenInv == plan \in PlanType /\ frozen = [st \in StageName |-> StepsOf(st)]

\* How far the execution is: while nothing stopped it, what is not to be done is done.
ConductInv ==
  /\ stage \in StageName \cup {"killed"}
  /\ todo # {} => ~stopped /\ stage \in StageName /\ todo \subseteq frozen[stage]
  /\ ~stopped /\ stage # "killed" =>
       /\ stage \in EarlyStages => frozen[stage] \subseteq todo \cup succeeded
       /\ stage # "sources" => frozen["sources"] \subseteq succeeded
       /\ stage \in {"publish"} \cup LateStages => frozen["apply"] \subseteq succeeded
       /\ stage \in LateStages => frozen["publish"] \subseteq succeeded
  /\ stage = "commit" /\ todo # {} => plan.observed

\* What the snapshot holds before and after it is taken.
SnapshotInv ==
  /\ snapshot \in [status : {"none", "prepared", "applied", "failed", "unfinished"},
                   holds  : SUBSET Selected]
  /\ \A s \in performed : s.stage \in StageName /\ s \in frozen[s.stage]
  /\ plan.snapshots /\ snapshot.status = "none" => \A s \in performed : ~Mutates(s)
  /\ plan.snapshots /\ snapshot.status # "none" =>
       \A s \in frozen["publish"] : Mutates(s) => s.at \in snapshot.holds

IInv == /\ ShapeInv /\ ConductInv /\ SnapshotInv
        /\ BaseFollowsEffects /\ LiveFollowsSources /\ CommitsWholeRuns /\ DeletionsMakeRoom

-----------------------------------------------------------------------------
(* The frozen steps                                                         *)

LEMMA StageNames == StageName = EarlyStages \cup LateStages
  BY DEF StageName, Stages, EarlyStages, LateStages

IsHook(s, y)         == /\ s.kind = "hook" /\ s.at = y
                        /\ (s.op = "pre" /\ s.key = Key(y, 0)) \/ (s.op = "post" /\ s.key = Key(y, 2))
IsEffect(st, s, u)   == \E n \in 1..EffectCount(st, u) : s = Effect(st, u, n)

LEMMA FrozenSteps ==
  ASSUME FrozenInv, NEW st \in Direction, NEW s \in frozen[st]
  PROVE  /\ s.stage = st
         /\ \/ \E y \in Scope : IsHook(s, y)
            \/ \E u \in Selected : IsEffect(st, s, u)
            \/ \E u \in Selected : CompletesIn(st, u) /\ s = Completion(st, u)
<1>1. s \in Steps(st)
  BY StageNames DEF FrozenInv, StepsOf, Direction, EarlyStages
<1>2. \/ \E scope \in Hooks(st) : s \in HookSteps(scope, st)
      \/ \E u \in Selected : s \in EffectSteps(u, st)
      \/ s \in Completions(st)
  BY <1>1 DEF Steps
<1>3. CASE \E scope \in Hooks(st) : s \in HookSteps(scope, st)
  <2>1. PICK y \in Scope : s \in HookSteps(y, st)
    BY <1>3 DEF Hooks
  <2>2. s = Step(st, "hook", y, "pre", 0) \/ s = Step(st, "hook", y, "post", 2)
    BY <2>1 DEF HookSteps
  <2>3. ASSUME NEW op, NEW n, s = Step(st, "hook", y, op, n)
        PROVE  s.stage = st /\ s.kind = "hook" /\ s.at = y /\ s.op = op /\ s.key = Key(y, n)
    BY <2>3 DEF Step
  <2>4. s.stage = st /\ IsHook(s, y)
    BY <2>2, <2>3 DEF IsHook
  <2> QED BY <2>4
<1>4. CASE \E u \in Selected : s \in EffectSteps(u, st)
  BY <1>4 DEF EffectSteps, Effect, Step, IsEffect
<1>5. CASE s \in Completions(st)
  BY <1>5 DEF Completions, Completion, Step
<1> QED BY <1>2, <1>3, <1>4, <1>5

LEMMA SelectedUnits ==
  ASSUME FrozenInv, NEW u \in Selected
  PROVE  /\ u \in Unit /\ Source(u) \in {"keep", "update", "delete"} /\ Effects(u) \in EffectList
         /\ \A st \in Direction : EffectCount(st, u) \in Nat
<1>1. u \in Unit /\ plan.proposal[u] \in Proposal
  BY DEF FrozenInv, PlanType, Selected
<1>2. Source(u) \in {"keep", "update", "delete"} /\ Effects(u) \in EffectList
  BY <1>1 DEF Proposal, Source, Effects
<1>3. Len(Effects(u)) \in Nat
  BY <1>2 DEF EffectList
<1> QED BY <1>1, <1>2, <1>3 DEF EffectCount

\* What an effect and a completion are.
LEMMA UnitSteps ==
  ASSUME FrozenInv, NEW st \in Direction, NEW u \in Selected
  PROVE  /\ \A n \in 1..EffectCount(st, u) :
              LET e == Effect(st, u, n) IN
              /\ e.stage = st /\ e.kind = "effect" /\ e.at = u /\ e.key = Key(u, n) /\ n \in Nat
              /\ e.op = IF st = "apply" THEN Source(u) ELSE Effects(u)[n]
              /\ e.op \in {"keep", "update", "delete", "write", "chmod", "reapply"}
         /\ LET c == Completion(st, u) IN
              /\ c.stage = st /\ c.kind = "complete" /\ c.at = u /\ c.op = "save"
              /\ \E n \in Nat : c.key = Key(u, n)
<1>1. /\ u \in Unit /\ Source(u) \in {"keep", "update", "delete"} /\ Effects(u) \in EffectList
      /\ EffectCount(st, u) \in Nat
  BY SelectedUnits
<1>2. \A i \in 1..Len(Effects(u)) : Effects(u)[i] \in {"delete", "write", "chmod", "reapply"}
  BY <1>1 DEF EffectList
<1>3. ASSUME NEW n \in 1..EffectCount(st, u)
      PROVE  LET e == Effect(st, u, n) IN
              /\ e.stage = st /\ e.kind = "effect" /\ e.at = u /\ e.key = Key(u, n) /\ n \in Nat
              /\ e.op = IF st = "apply" THEN Source(u) ELSE Effects(u)[n]
              /\ e.op \in {"keep", "update", "delete", "write", "chmod", "reapply"}
  <2>1. st # "apply" => n \in 1..Len(Effects(u))
    BY DEF EffectCount
  <2>2. n \in Nat
    BY <1>1
  <2> QED BY <1>1, <1>2, <2>1, <2>2 DEF Effect, Step
<1>4. EffectCount(st, u) + 1 \in Nat
  BY <1>1
<1> QED BY <1>3, <1>4 DEF Completion, Step

\* The completion of a unit never comes before one of the unit's effects.
LEMMA CompletionIsLast ==
  ASSUME NEW st \in Direction, NEW u \in Unit, NEW n \in 1..EffectCount(st, u),
         EffectCount(st, u) \in Nat
  PROVE  ~Before(Completion(st, u), Effect(st, u, n))
<1> DEFINE L == 2 * Len(Line[u])
           c == Key(u, EffectCount(st, u) + 1)
           e == Key(u, n)
<1>1. /\ Line[u] = <<Parent[Parent[Parent[u]]], Parent[Parent[u]], Parent[u], u>>
      /\ Len(Line[u]) = 4
      /\ \A i \in 1..4 : Position[Line[u][i]] \in Nat
  <2>1. Line[u] = <<Parent[Parent[Parent[u]]], Parent[Parent[u]], Parent[u], u>>
    BY TreeAssumption DEF Line, Scope
  <2>2. /\ Parent[u] \in Target /\ Parent[Parent[u]] \in Package
        /\ Parent[Parent[Parent[u]]] \in Repo
    BY TreeAssumption
  <2>3. \A x \in Scope \cup Unit : Position[x] \in Nat
    BY TreeAssumption
  <2>4. \A i \in 1..4 : Line[u][i] \in Scope \cup Unit
    BY <2>1, <2>2 DEF Scope
  <2> QED BY <2>1, <2>3, <2>4
<1>2. /\ DOMAIN c = 1..8 /\ DOMAIN e = 1..8
      /\ c[8] = EffectCount(st, u) + 1 /\ e[8] = n
      /\ \A i \in 1..8 : i # 8 => c[i] = e[i]
  BY <1>1 DEF Key
<1>3. Completion(st, u).key = c /\ Effect(st, u, n).key = e
  BY DEF Completion, Effect, Step
<1>4. ~(\E i \in 1..8 : c[i] < e[i])
  <2> SUFFICES ASSUME NEW i \in 1..8, c[i] < e[i] PROVE FALSE
    OBVIOUS
  <2>1. CASE i = 8
    BY <1>2, <2>1
  <2>2. CASE i # 8
    <3>1. c[i] = e[i]
      BY <1>2, <2>2
    <3>2. c[i] = IF i % 2 = 0 THEN 1 ELSE Position[Line[u][(i + 1) \div 2]]
      BY <1>1, <2>2 DEF Key
    <3>3. i % 2 # 0 => (i + 1) \div 2 \in 1..4
      BY <2>2
    <3>4. c[i] \in Nat
      BY <1>1, <3>2, <3>3
    <3> QED BY <3>1, <3>4
  <2> QED BY <2>1, <2>2
<1> QED BY <1>2, <1>3, <1>4 DEF Before

LEMMA InitFrozen == Init => FrozenInv
  BY TreeAssumption DEF Init, FrozenInv

\* The steps that a plan freezes have the shape the invariant asks for.
LEMMA InitialShape == Init => ShapeInv
<1> SUFFICES ASSUME FrozenInv PROVE ShapeInv
  BY InitFrozen
<1>1. ASSUME NEW st \in Direction, NEW s \in frozen[st]
      PROVE  /\ s.stage = st
             /\ Mutates(s) => s.at \in Selected
  BY FrozenSteps, UnitSteps DEF IsHook, IsEffect, Mutates
<1>2. ASSUME NEW st \in Direction, NEW e \in frozen[st], e.kind = "effect"
      PROVE  e.at \in Selected /\ IsEffect(st, e, e.at)
  <2>1. CASE \E u \in Selected : IsEffect(st, e, u)
    BY <2>1, UnitSteps DEF IsEffect
  <2>2. CASE \E u \in Selected : CompletesIn(st, u) /\ e = Completion(st, u)
    BY <1>2, <2>2, UnitSteps
  <2> QED BY <1>2, <2>1, <2>2, FrozenSteps DEF IsHook
<1>3. ASSUME NEW st \in Direction, NEW s \in frozen[st], s.kind = "complete"
      PROVE  /\ st = "apply" => \A e \in frozen["publish"] : e.kind = "effect" => e.at # s.at
             /\ \A e \in frozen[st] : e.kind = "effect" /\ e.at = s.at => ~Before(s, e)
  <2>1. PICK u \in Selected : CompletesIn(st, u) /\ s = Completion(st, u)
    BY <1>3, FrozenSteps, UnitSteps DEF IsHook, IsEffect
  <2>2. s.at = u
    BY <2>1, UnitSteps
  <2>3. ASSUME st = "apply", NEW e \in frozen["publish"], e.kind = "effect", e.at = s.at PROVE FALSE
    <3>1. IsEffect("publish", e, u)
      BY <1>2, <2>2, <2>3 DEF Direction
    <3>2. EffectCount("publish", u) = 0
      BY <2>1, <2>3 DEF CompletesIn, EffectCount
    <3> QED BY <3>1, <3>2 DEF IsEffect
  <2>4. ASSUME NEW e \in frozen[st], e.kind = "effect", e.at = s.at PROVE ~Before(s, e)
    <3>1. PICK n \in 1..EffectCount(st, u) : e = Effect(st, u, n)
      BY <1>2, <2>2, <2>4 DEF IsEffect
    <3> QED BY <2>1, <3>1, SelectedUnits, CompletionIsLast
  <2> QED BY <2>3, <2>4
<1>4. /\ frozen["sources"] = {Step("sources", "addition", a, "update", 1) : a \in plan.additions}
      /\ frozen["reclaim"] = {Step("reclaim", "reclaim", t, "discard", 1) : t \in plan.obsolete \ plan.held}
      /\ frozen["commit"] = {Step("commit", "commit", r, "commit", 1) : r \in {x \in plan.commits : WrittenIn(x)}}
      /\ frozen["done"] = {}
  BY StageNames DEF FrozenInv, StepsOf, Direction, EarlyStages, LateStages
<1>5. ASSUME NEW st \in StageName \ Direction, NEW s \in frozen[st]
      PROVE  /\ s.stage = st /\ s.kind \notin {"complete", "effect"}
             /\ s.op = "update" => st = "sources"
             /\ s.op \notin {"write", "delete"}
  BY <1>4, StageNames DEF Direction, EarlyStages, LateStages, Step
<1> QED BY <1>1, <1>3, <1>5 DEF ShapeInv, Direction, EarlyStages, Mutates

-----------------------------------------------------------------------------
(* What is known of the step that is next                                   *)

\* A completion is next only when every effect of its unit ended well, in both stages.
LEMMA CompletionFollows ==
  ASSUME ShapeInv, ConductInv, NEW s \in NextSteps, s.kind = "complete",
         NEW st \in Direction, NEW e \in frozen[st], e.kind = "effect", e.at = s.at
  PROVE  e \in succeeded
<1>1. s \in todo /\ ~Blocked(s) /\ \A t \in todo : ~Blocked(t) /\ t # s => Before(s, t)
  BY DEF NextSteps
<1>2. ~stopped /\ stage \in StageName /\ s \in frozen[stage]
  BY <1>1 DEF ConductInv
<1>3. s.stage = stage /\ stage \in Direction
  BY <1>2 DEF ShapeInv
<1>4. CASE st = stage
  <2>1. e.stage = s.stage
    BY <1>2, <1>3, <1>4 DEF ShapeInv
  <2>2. ~Blocked(e)
    BY <1>1, <2>1 DEF Blocked, Writes, Does
  <2>3. ~Before(s, e)
    BY <1>2, <1>4 DEF ShapeInv
  <2>4. e # s
    OBVIOUS
  <2>5. e \notin todo
    BY <1>1, <2>2, <2>3, <2>4
  <2>6. stage # "killed" /\ stage \in EarlyStages
    BY <1>3 DEF Direction, EarlyStages
  <2> QED BY <1>2, <1>4, <2>5, <2>6 DEF ConductInv
<1>5. CASE st # stage
  <2>1. CASE stage = "apply"
    BY <1>2, <1>3, <1>5, <2>1 DEF ShapeInv, Direction
  <2>2. CASE stage = "publish"
    <3>1. st = "apply"
      BY <1>5, <2>2 DEF Direction
    <3> QED BY <1>2, <2>2, <3>1 DEF ConductInv
  <2> QED BY <1>3, <2>1, <2>2 DEF Direction
<1> QED BY <1>4, <1>5

\* A step of the publication, a reclamation or a commit is next only when the stages
\* before it ended well.
LEMMA StagesFollow ==
  ASSUME ShapeInv, ConductInv, NEW s \in NextSteps
  PROVE  /\ s.stage = stage /\ stage \in StageName /\ s \in frozen[stage] /\ ~stopped
         /\ s.stage \in {"publish", "reclaim", "commit"} =>
              frozen["sources"] \cup frozen["apply"] \subseteq succeeded
         /\ s.stage \in {"reclaim", "commit"} => frozen["publish"] \subseteq succeeded
         /\ s.stage = "commit" => plan.observed
<1>1. s \in todo
  BY DEF NextSteps
<1>2. ~stopped /\ stage \in StageName /\ s \in frozen[stage] /\ todo # {}
  BY <1>1 DEF ConductInv
<1>3. s.stage = stage
  BY <1>2 DEF ShapeInv
<1> QED BY <1>2, <1>3 DEF ConductInv, LateStages

\* A write is next only when the deletions that make room for it ended well.
LEMMA RoomIsMade ==
  ASSUME ShapeInv, ConductInv, NEW s \in NextSteps, s.op \in {"write", "update"},
         NEW t \in frozen[s.stage], {s.at, t.at} \in Nested, t.op = "delete"
  PROVE  t \in succeeded
<1>1. s \in todo /\ ~Blocked(s)
  BY DEF NextSteps
<1>2. s.stage = stage /\ stage \in StageName /\ s \in frozen[stage] /\ ~stopped
  BY StagesFollow
<1>3. s.at \in Unit /\ t.at \in Unit
  BY TreeAssumption
<1>4. stage \in EarlyStages /\ t.stage = stage
  BY <1>2 DEF ShapeInv
<1>5. Writes(s) /\ Deletes(t)
  BY <1>2, <1>3, <1>4 DEF Writes, Deletes, Does
<1>6. t \notin todo
  BY <1>1, <1>5 DEF Blocked
<1>7. stage # "killed"
  BY <1>4 DEF EarlyStages
<1> QED BY <1>2, <1>4, <1>6, <1>7 DEF ConductInv

-----------------------------------------------------------------------------
(* The inductive invariant                                                  *)

LEMMA InitIInv == Init => IInv
<1> SUFFICES ASSUME Init PROVE IInv
  OBVIOUS
<1>1. ShapeInv
  BY InitialShape
<1>2. ConductInv
  BY StageNames DEF Init, ConductInv, EarlyStages, LateStages
<1>3. SnapshotInv
  BY DEF Init, SnapshotInv
<1> QED BY <1>1, <1>2, <1>3 DEF IInv, Init, BaseFollowsEffects, LiveFollowsSources,
                                CommitsWholeRuns, DeletionsMakeRoom

\* A step that may or may not have its effect: what Succeed, Fail and Kill have in common.
Touched(s) ==
  /\ performed' \subseteq performed \cup {s}
  /\ performed' # performed => ~NeedsSnapshot(s)
  /\ acknowledged' \subseteq acknowledged \cup (IF s.kind = "complete" THEN {s.at} ELSE {})
  /\ succeeded \subseteq succeeded'
  /\ UNCHANGED <<plan, frozen, snapshot>>

LEMMA TouchedKeeps ==
  ASSUME IInv, NEW s \in NextSteps, Touched(s)
  PROVE  ShapeInv' /\ SnapshotInv' /\ BaseFollowsEffects' /\ LiveFollowsSources'
         /\ CommitsWholeRuns' /\ DeletionsMakeRoom'
<1> USE DEF Touched
<1>1. s.stage = stage /\ stage \in StageName /\ s \in frozen[stage]
  BY StagesFollow DEF IInv
<1>2. ShapeInv'
  BY DEF IInv, ShapeInv, Selected, Mutates, Direction, Before
<1>3. SnapshotInv'
  <2>1. \A x \in performed' : x.stage \in StageName /\ x \in frozen'[x.stage]
    BY <1>1 DEF IInv, SnapshotInv
  <2>2. ASSUME plan'.snapshots, snapshot'.status = "none", NEW x \in performed' PROVE ~Mutates(x)
    BY <2>2 DEF IInv, SnapshotInv, NeedsSnapshot
  <2>3. plan'.snapshots /\ snapshot'.status # "none" =>
          \A x \in frozen'["publish"] : Mutates(x) => x.at \in snapshot'.holds
    BY DEF IInv, SnapshotInv
  <2> QED BY <2>1, <2>2, <2>3 DEF IInv, SnapshotInv, Mutates, Selected
<1>4. BaseFollowsEffects'
  <2> SUFFICES ASSUME NEW u \in acknowledged', NEW st \in Direction, NEW e \in frozen[st],
                      e.at = u, e.kind = "effect"
               PROVE  e \in succeeded
    BY DEF BaseFollowsEffects, Direction
  <2>1. CASE u \in acknowledged
    BY <2>1 DEF IInv, BaseFollowsEffects, Direction
  <2>2. CASE s.kind = "complete" /\ u = s.at
    BY <2>2, CompletionFollows DEF IInv
  <2> QED BY <2>1, <2>2
<1>5. LiveFollowsSources'
  BY StagesFollow DEF IInv, LiveFollowsSources
<1>6. CommitsWholeRuns'
  BY StagesFollow DEF IInv, CommitsWholeRuns
<1>7. DeletionsMakeRoom'
  BY RoomIsMade DEF IInv, DeletionsMakeRoom
<1> QED BY <1>2, <1>3, <1>4, <1>5, <1>6, <1>7

\* Every action preserves the inductive invariant.
LEMMA NextIInv == IInv /\ [Next]_vars => IInv'
<1> SUFFICES ASSUME IInv, [Next]_vars PROVE IInv'
  OBVIOUS
<1> USE DEF EarlyStages, LateStages
<1>1. CASE TakeSnapshot
  <2>1. PICK s \in NextSteps : NeedsSnapshot(s) /\ snapshot'.status = "prepared"
                             /\ snapshot' \in [status : {"prepared"}, holds : SUBSET Selected]
                             /\ snapshot'.holds = {u \in Selected :
                                   /\ \E t \in frozen["publish"] : t.at = u /\ Mutates(t)
                                   /\ \A t \in performed : t.at = u => ~Mutates(t)}
    BY <1>1 DEF TakeSnapshot
  <2>2. UNCHANGED <<plan, frozen, stage, todo, performed, succeeded, failures, stopped, acknowledged>>
    BY <1>1 DEF TakeSnapshot
  <2>3. ShapeInv' /\ ConductInv'
    BY <2>2 DEF IInv, ShapeInv, ConductInv, Selected, Mutates, Before
  <2>4. SnapshotInv'
    <3>1. plan.snapshots /\ \A x \in performed : ~Mutates(x)
      BY <2>1 DEF NeedsSnapshot, IInv, SnapshotInv
    <3>2. \A x \in frozen["publish"] : Mutates(x) => x.at \in Selected
      BY StageNames DEF IInv, ShapeInv
    <3>3. \A x \in frozen["publish"] : Mutates(x) => x.at \in snapshot'.holds
      BY <2>1, <3>1, <3>2
    <3> QED BY <2>1, <2>2, <3>3 DEF IInv, SnapshotInv, Mutates, Selected
  <2> QED BY <2>2, <2>3, <2>4 DEF IInv, BaseFollowsEffects, LiveFollowsSources, CommitsWholeRuns,
                                  DeletionsMakeRoom
<1>2. CASE Succeed
  <2>1. PICK s \in NextSteps : /\ performed' = performed \cup {s} /\ ~NeedsSnapshot(s)
                             /\ succeeded' = succeeded \cup {s} /\ todo' = todo \ {s} /\ Acknowledge(s)
    BY <1>2 DEF Succeed
  <2>2. UNCHANGED <<plan, frozen, stage, failures, stopped, snapshot>>
    BY <1>2 DEF Succeed
  <2>3. Touched(s)
    BY <2>1, <2>2 DEF Touched, Acknowledge
  <2>4. ConductInv'
    BY <2>1, <2>2 DEF IInv, ConductInv
  <2> QED BY <2>3, <2>4, TouchedKeeps DEF IInv
<1>3. CASE Fail
  <2>1. PICK s \in NextSteps, interrupted \in BOOLEAN :
          /\ CutShort(s)
          /\ todo' = IF stage = "commit" THEN todo \ {s} ELSE {}
          /\ stopped' = (stopped \/ stage \in {"sources", "apply", "publish"}
                                   \/ (stage = "reclaim" /\ interrupted))
    BY <1>3 DEF Fail
  <2>2. UNCHANGED <<plan, frozen, stage, succeeded, snapshot>>
    BY <1>3 DEF Fail
  <2>3. Touched(s)
    BY <2>1, <2>2 DEF Touched, CutShort, Acknowledge
  <2>4. ConductInv'
    BY <2>1, <2>2, StagesFollow DEF IInv, ConductInv
  <2> QED BY <2>3, <2>4, TouchedKeeps DEF IInv
<1>4. CASE FinalizeSnapshot
  <2>1. /\ todo = {} /\ snapshot.status = "prepared" /\ snapshot'.holds = snapshot.holds
        /\ snapshot'.status # "none" /\ (stopped' = stopped \/ stopped' = TRUE)
        /\ snapshot' \in [status : {"applied", "failed", "unfinished"}, holds : SUBSET Selected]
        /\ UNCHANGED <<plan, frozen, stage, todo, performed, succeeded, failures, acknowledged>>
    BY <1>4 DEF FinalizeSnapshot, IInv, SnapshotInv
  <2> QED BY <2>1 DEF IInv, ShapeInv, ConductInv, SnapshotInv, BaseFollowsEffects, LiveFollowsSources,
                      CommitsWholeRuns, DeletionsMakeRoom, Selected, Mutates, Before
<1>5. CASE NextStage
  <2>1. UNCHANGED <<plan, frozen, performed, succeeded, failures, stopped, acknowledged, snapshot>>
    BY <1>5 DEF NextStage
  <2>2. /\ todo = {} /\ stage \in StageName \ {"done"}
        /\ <<stage, stage'>> \in {<<"sources", "apply">>, <<"apply", "publish">>, <<"publish", "reclaim">>,
                                  <<"reclaim", "commit">>, <<"commit", "done">>}
        /\ todo' = IF Attempted(stage') THEN frozen[stage'] ELSE {}
    BY <1>5 DEF NextStage, Stages, StageName
  <2>3. ConductInv'
    BY <2>1, <2>2, StageNames DEF IInv, ConductInv, Attempted
  <2> QED BY <2>1, <2>3 DEF IInv, ShapeInv, SnapshotInv, BaseFollowsEffects, LiveFollowsSources,
                            CommitsWholeRuns, DeletionsMakeRoom, Selected, Mutates, Before
<1>6. CASE Kill
  <2>1. /\ stage' = "killed" /\ todo' = {}
        /\ UNCHANGED <<plan, frozen, succeeded, failures, stopped, snapshot>>
    BY <1>6 DEF Kill
  <2>2. ConductInv'
    BY <2>1 DEF IInv, ConductInv
  <2>3. CASE UNCHANGED <<performed, acknowledged>>
    BY <2>1, <2>2, <2>3 DEF IInv, ShapeInv, SnapshotInv, BaseFollowsEffects, LiveFollowsSources,
                            CommitsWholeRuns, DeletionsMakeRoom, Selected, Mutates, Before
  <2>4. CASE \E s \in NextSteps : CutShort(s)
    <3>1. PICK s \in NextSteps : CutShort(s)
      BY <2>4
    <3>2. Touched(s)
      BY <2>1, <3>1 DEF Touched, CutShort, Acknowledge
    <3> QED BY <2>2, <3>2, TouchedKeeps DEF IInv
  <2> QED BY <1>6, <2>3, <2>4 DEF Kill
<1>7. CASE UNCHANGED vars
  BY <1>7 DEF vars, IInv, ShapeInv, ConductInv, SnapshotInv, BaseFollowsEffects, LiveFollowsSources,
              CommitsWholeRuns, DeletionsMakeRoom, Selected, Mutates, Before
<1> QED BY <1>1, <1>2, <1>3, <1>4, <1>5, <1>6, <1>7 DEF Next, Work

-----------------------------------------------------------------------------
(* Theorems                                                                 *)

\* The invariant of the steps holds of every execution.
THEOREM Invariance == Spec => []IInv
  BY InitIInv, NextIInv, PTL DEF Spec

\* Every acknowledged Base records an outcome whose repository and live effects all
\* ended well, in every execution of every plan (completion steps, _acknowledge).
THEOREM BasesFollowEffects == Spec => []BaseFollowsEffects
  BY Invariance, PTL DEF IInv

\* No live effect and no push hook without the whole repository stage (_publish).
THEOREM LiveWaitsForSources == Spec => []LiveFollowsSources
  BY Invariance, PTL DEF IInv

\* No commit and no reclaimed Base without the whole run (_commit).
THEOREM CommitsWaitForTheRun == Spec => []CommitsWholeRuns
  BY Invariance, PTL DEF IInv

\* Every written path was freed before by the deletions nested with it (_topology_order).
THEOREM RoomForEveryWrite == Spec => []DeletionsMakeRoom
  BY Invariance, PTL DEF IInv

\* Every live file the run changed has its original in the snapshot (execute_publication).
THEOREM OriginalsAreKept == Spec => []SnapshotHoldsOriginals
<1>1. IInv => SnapshotHoldsOriginals
  <2> SUFFICES ASSUME IInv, plan.snapshots, NEW s \in performed, Mutates(s)
               PROVE  snapshot.status # "none" /\ s.at \in snapshot.holds
    BY DEF SnapshotHoldsOriginals
  <2>1. snapshot.status # "none"
    BY DEF IInv, SnapshotInv
  <2>2. s \in frozen["publish"]
    BY DEF IInv, SnapshotInv, Mutates
  <2> QED BY <2>1, <2>2 DEF IInv, SnapshotInv
<1> QED BY <1>1, Invariance, PTL

\* After the first failure or interruption nothing more changes: no file, no Base
\* (the break of both execution loops, blocked stages).
THEOREM FirstFailureIsLast == Spec => StopsAtFirstFailure
<1>1. IInv /\ [Next]_vars => [stopped => UNCHANGED <<performed, acknowledged>>]_vars
  <2> SUFFICES ASSUME IInv, Next, stopped PROVE UNCHANGED <<performed, acknowledged>>
    OBVIOUS
  <2>1. todo = {} /\ NextSteps = {}
    BY DEF IInv, ConductInv, NextSteps
  <2> QED BY <2>1 DEF Next, Work, TakeSnapshot, Succeed, Fail, FinalizeSnapshot, NextStage, Kill
<1> QED BY <1>1, Invariance, PTL DEF Spec, StopsAtFirstFailure

-----------------------------------------------------------------------------
(* Lines of scopes and the keys that order them                             *)

LEMMA Lines ==
  ASSUME NEW x \in Scope \cup Unit
  PROVE  /\ x \in Repo => Line[x] = <<x>>
         /\ x \in Package => Line[x] = <<Parent[x], x>> /\ Parent[x] \in Repo
         /\ x \in Target => /\ Line[x] = <<Parent[Parent[x]], Parent[x], x>>
                            /\ Parent[x] \in Package /\ Parent[Parent[x]] \in Repo
         /\ x \in Unit => /\ Line[x] = <<Parent[Parent[Parent[x]]], Parent[Parent[x]], Parent[x], x>>
                          /\ Parent[x] \in Target /\ Parent[Parent[x]] \in Package
                          /\ Parent[Parent[Parent[x]]] \in Repo
<1>1. x \notin Addition
  BY TreeAssumption DEF Scope
<1>2. CASE x \in Repo
  BY <1>2, TreeAssumption DEF Line, Scope
<1>3. CASE x \in Package
  BY <1>1, <1>3, TreeAssumption DEF Line, Scope
<1>4. CASE x \in Target
  <2>1. x \notin Repo /\ x \notin Package /\ x \notin Unit
    BY <1>4, TreeAssumption DEF Scope
  <2>2. Parent[x] \in Package /\ Parent[Parent[x]] \in Repo
    BY <1>4, TreeAssumption
  <2> QED BY <1>1, <1>4, <2>1, <2>2 DEF Line
<1>5. CASE x \in Unit
  <2>1. x \notin Repo /\ x \notin Package /\ x \notin Target
    BY <1>5, TreeAssumption DEF Scope
  <2>2. Parent[x] \in Target /\ Parent[Parent[x]] \in Package /\ Parent[Parent[Parent[x]]] \in Repo
    BY <1>5, TreeAssumption
  <2> QED BY <1>1, <1>5, <2>1, <2>2 DEF Line
<1> QED BY <1>2, <1>3, <1>4, <1>5 DEF Scope

\* Each line is of the kind of its end.
LEMMA LineOf ==
  ASSUME NEW x \in Scope \cup Unit
  PROVE  \/ x \in Repo /\ Line[x] = <<x>>
         \/ \E r \in Repo : x \in Package /\ Line[x] = <<r, x>> /\ Line[r] = <<r>>
         \/ \E r \in Repo, p \in Package :
              /\ x \in Target /\ Line[x] = <<r, p, x>>
              /\ Line[p] = <<r, p>> /\ Line[r] = <<r>>
         \/ \E r \in Repo, p \in Package, t \in Target :
              /\ x \in Unit /\ Line[x] = <<r, p, t, x>>
              /\ Line[t] = <<r, p, t>> /\ Line[p] = <<r, p>> /\ Line[r] = <<r>>
<1>1. \A y \in Repo \cup Package \cup Target : y \in Scope \cup Unit
  BY DEF Scope
<1>2. CASE x \in Repo
  BY <1>2, Lines
<1>3. CASE x \in Package
  BY <1>1, <1>3, Lines
<1>4. CASE x \in Target
  BY <1>1, <1>4, Lines
<1>5. CASE x \in Unit
  BY <1>1, <1>5, Lines
<1> QED BY <1>2, <1>3, <1>4, <1>5 DEF Scope

LEMMA LineEnds ==
  ASSUME NEW x \in Scope \cup Unit
  PROVE  /\ Len(Line[x]) \in 1..4 /\ DOMAIN Line[x] = 1..Len(Line[x])
         /\ Line[x][Len(Line[x])] = x
         /\ \A i \in 1..Len(Line[x]) : Line[x][i] \in Scope \cup Unit /\ Position[Line[x][i]] \in Nat
<1>1. \A y \in Scope \cup Unit : Position[y] \in Nat
  BY TreeAssumption
<1>2. \A y \in Repo \cup Package \cup Target : y \in Scope \cup Unit
  BY DEF Scope
<1>3. CASE Line[x] = <<x>>
  BY <1>1, <1>3
<1>4. CASE \E r \in Repo : Line[x] = <<r, x>>
  BY <1>1, <1>2, <1>4
<1>5. CASE \E r \in Repo, p \in Package : Line[x] = <<r, p, x>>
  BY <1>1, <1>2, <1>5
<1>6. CASE \E r \in Repo, p \in Package, t \in Target : Line[x] = <<r, p, t, x>>
  BY <1>1, <1>2, <1>6
<1> QED BY <1>3, <1>4, <1>5, <1>6, LineOf

\* What is within a scope has the scope's line as the beginning of its own.
BeginsWith(v, w) == Len(w) < Len(v) /\ \A i \in 1..Len(w) : v[i] = w[i]

LEMMA Beginnings ==
  ASSUME NEW a, NEW b, NEW c, NEW d
  PROVE  /\ BeginsWith(<<a, b>>, <<a>>) /\ BeginsWith(<<a, b, c>>, <<a>>)
         /\ BeginsWith(<<a, b, c>>, <<a, b>>) /\ BeginsWith(<<a, b, c, d>>, <<a>>)
         /\ BeginsWith(<<a, b, c, d>>, <<a, b>>) /\ BeginsWith(<<a, b, c, d>>, <<a, b, c>>)
  BY DEF BeginsWith

Depth(x) == Len(Line[x])

LEMMA DepthIsSmall == \A x \in Scope \cup Unit : Depth(x) \in 1..4
  BY LineEnds DEF Depth

LEMMA LinesBegin ==
  ASSUME NEW x \in Scope \cup Unit, NEW y \in Scope, Within(x, y), x # y
  PROVE  BeginsWith(Line[x], Line[y])
<1>1. PICK j \in DOMAIN Line[x] : Line[x][j] = y
  BY DEF Within
<1>2. CASE Line[x] = <<x>>
  BY <1>1, <1>2
<1>3. CASE \E r \in Repo : Line[x] = <<r, x>> /\ Line[r] = <<r>>
  <2>1. PICK r \in Repo : Line[x] = <<r, x>> /\ Line[r] = <<r>>
    BY <1>3
  <2>2. y = r
    BY <1>1, <2>1
  <2> QED BY <2>1, <2>2, Beginnings
<1>4. CASE \E r \in Repo, p \in Package : Line[x] = <<r, p, x>> /\ Line[p] = <<r, p>> /\ Line[r] = <<r>>
  <2>1. PICK r \in Repo, p \in Package : Line[x] = <<r, p, x>> /\ Line[p] = <<r, p>> /\ Line[r] = <<r>>
    BY <1>4
  <2>2. y = r \/ y = p
    BY <1>1, <2>1
  <2> QED BY <2>1, <2>2, Beginnings
<1>5. CASE \E r \in Repo, p \in Package, t \in Target :
             /\ Line[x] = <<r, p, t, x>>
             /\ Line[t] = <<r, p, t>> /\ Line[p] = <<r, p>> /\ Line[r] = <<r>>
  <2>1. PICK r \in Repo, p \in Package, t \in Target :
             /\ Line[x] = <<r, p, t, x>>
             /\ Line[t] = <<r, p, t>> /\ Line[p] = <<r, p>> /\ Line[r] = <<r>>
    BY <1>5
  <2>2. y = r \/ y = p \/ y = t
    BY <1>1, <2>1
  <2> QED BY <2>1, <2>2, Beginnings
<1> QED BY <1>2, <1>3, <1>4, <1>5, LineOf

LEMMA Keys ==
  ASSUME NEW x \in Scope \cup Unit, NEW n \in Nat
  PROVE  /\ DOMAIN Key(x, n) = 1..2 * Depth(x)
         /\ Key(x, n)[2 * Depth(x)] = n
         /\ \A i \in 1..2 * Depth(x) - 1 :
              /\ Key(x, n)[i] = IF i % 2 = 0 THEN 1 ELSE Position[Line[x][(i + 1) \div 2]]
              /\ i % 2 # 0 => (i + 1) \div 2 \in 1..Depth(x)
         /\ \A i \in 1..2 * Depth(x) : Key(x, n)[i] \in Nat
<1> DEFINE m == Depth(x)
           p(i) == Position[Line[x][i]]
<1>1. m \in 1..4 /\ \A i \in 1..m : p(i) \in Nat
  BY LineEnds DEF Depth
<1>2. Key(x, n) = [i \in 1..2 * m |-> IF i = 2 * m THEN n ELSE IF i % 2 = 0 THEN 1 ELSE p((i + 1) \div 2)]
  BY DEF Key, Depth
<1> HIDE DEF m, p
<1>3. \A i \in 1..2 * m - 1 : i % 2 # 0 => (i + 1) \div 2 \in 1..m
  BY <1>1
<1>4. 2 * m \in 1..2 * m
  BY <1>1
<1>5. \A i \in 1..2 * m - 1 : i \in 1..2 * m /\ i # 2 * m
  BY <1>1
<1>6. \A i \in 1..2 * m : Key(x, n)[i] \in Nat
  <2> SUFFICES ASSUME NEW i \in 1..2 * m PROVE Key(x, n)[i] \in Nat
    OBVIOUS
  <2>1. CASE i = 2 * m \/ i % 2 = 0
    BY <1>2, <2>1
  <2>2. CASE i # 2 * m /\ i % 2 # 0
    <3>1. (i + 1) \div 2 \in 1..m
      BY <1>1, <1>3, <2>2
    <3> QED BY <1>1, <1>2, <2>2, <3>1
  <2> QED BY <2>1, <2>2
<1>7. \A i \in 1..2 * m - 1 : Key(x, n)[i] = IF i % 2 = 0 THEN 1 ELSE p((i + 1) \div 2)
  BY <1>2, <1>5
<1>8. DOMAIN Key(x, n) = 1..2 * m /\ Key(x, n)[2 * m] = n
  BY <1>2, <1>4
<1> QED BY <1>3, <1>6, <1>7, <1>8 DEF m, p

\* Where a line begins another, the keys agree up to the end of the shorter.
LEMMA KeysBegin ==
  ASSUME NEW x \in Scope \cup Unit, NEW y \in Scope, Within(x, y), NEW n \in Nat, NEW k \in Nat
  PROVE  /\ Depth(y) \leq Depth(x)
         /\ \A i \in 1..2 * Depth(y) - 1 : Key(x, n)[i] = Key(y, k)[i]
         /\ x # y => Key(x, n)[2 * Depth(y)] = 1
<1> DEFINE L == Depth(y)
           K == Depth(x)
<1>1. L \leq K /\ (x # y => L < K) /\ L \in 1..4 /\ K \in 1..4
  <2>1. K \in 1..4 /\ L \in 1..4
    BY DepthIsSmall
  <2>2. x = y \/ L < K
    BY LinesBegin DEF BeginsWith, Depth
  <2> QED BY <2>1, <2>2
<1>2. \A i \in 1..L : Line[x][i] = Line[y][i]
  BY LinesBegin DEF BeginsWith, Depth
<1>3. \A i \in 1..2 * K - 1 : Key(x, n)[i] = IF i % 2 = 0 THEN 1 ELSE Position[Line[x][(i + 1) \div 2]]
  BY Keys
<1>4. y \in Scope \cup Unit
  OBVIOUS
<1>5. \A i \in 1..2 * L - 1 : /\ Key(y, k)[i] = IF i % 2 = 0 THEN 1 ELSE Position[Line[y][(i + 1) \div 2]]
                              /\ i % 2 # 0 => (i + 1) \div 2 \in 1..L
  BY <1>4, Keys
<1> HIDE DEF L, K
<1>6. ASSUME NEW i \in 1..2 * L - 1 PROVE Key(x, n)[i] = Key(y, k)[i]
  <2>1. i \in 1..2 * K - 1
    BY <1>1
  <2> QED BY <1>2, <1>3, <1>5, <2>1
<1>7. ASSUME x # y PROVE Key(x, n)[2 * L] = 1
  <2>1. 2 * L \in 1..2 * K - 1 /\ (2 * L) % 2 = 0
    BY <1>1, <1>7
  <2> QED BY <1>3, <2>1
<1> QED BY <1>1, <1>6, <1>7 DEF L, K

\* A pre-hook is not after, and a post-hook not before, what its scope contains.
LEMMA HooksSurround ==
  ASSUME NEW x \in Scope \cup Unit, NEW y \in Scope, Within(x, y), NEW n \in Nat, NEW s, NEW h,
         s.key = Key(x, n)
  PROVE  /\ h.key = Key(y, 0) => ~Before(s, h)
         /\ h.key = Key(y, 2) /\ (x = y => n \leq 2) => ~Before(h, s)
<1> DEFINE L == 2 * Depth(y)
<1>1. /\ L \in 1..8 /\ L \leq 2 * Depth(x) /\ y \in Scope \cup Unit
      /\ \A k \in Nat : \A i \in 1..L - 1 : Key(x, n)[i] = Key(y, k)[i]
      /\ x # y => Key(x, n)[L] = 1
  <2>1. y \in Scope \cup Unit
    OBVIOUS
  <2>2. Depth(y) \in 1..4 /\ Depth(x) \in 1..4
    BY <2>1, DepthIsSmall
  <2>3. Depth(y) \leq Depth(x) /\ (x # y => Key(x, n)[L] = 1)
    BY KeysBegin
  <2>4. \A k \in Nat : \A i \in 1..L - 1 : Key(x, n)[i] = Key(y, k)[i]
    BY KeysBegin
  <2> QED BY <2>1, <2>2, <2>3, <2>4
<1>2. /\ DOMAIN Key(x, n) = 1..2 * Depth(x)
      /\ \A k \in Nat : DOMAIN Key(y, k) = 1..L /\ Key(y, k)[L] = k
      /\ \A k \in Nat : \A i \in 1..L : Key(y, k)[i] \in Nat
      /\ \A i \in 1..2 * Depth(x) : Key(x, n)[i] \in Nat
      /\ Key(x, n)[2 * Depth(x)] = n
  BY <1>1, Keys
<1>3. L \in 1..2 * Depth(x)
  BY <1>1, DepthIsSmall
<1> HIDE DEF L
<1>4. ASSUME h.key = Key(y, 0), Before(s, h) PROVE FALSE
  <2>1. PICK i \in DOMAIN s.key \cap DOMAIN h.key : s.key[i] < h.key[i]
    BY <1>4 DEF Before
  <2>2. i \in 1..L /\ Key(x, n)[i] < Key(y, 0)[i]
    BY <1>2, <1>4, <2>1
  <2>3. CASE i = L
    BY <1>2, <1>3, <2>2, <2>3
  <2>4. CASE i # L
    <3>1. i \in 1..L - 1
      BY <1>1, <2>2, <2>4
    <3> QED BY <1>1, <1>2, <2>2, <3>1
  <2> QED BY <2>3, <2>4
<1>5. ASSUME h.key = Key(y, 2), x = y => n \leq 2, Before(h, s) PROVE FALSE
  <2>1. PICK i \in DOMAIN s.key \cap DOMAIN h.key : h.key[i] < s.key[i]
    BY <1>5 DEF Before
  <2>2. i \in 1..L /\ Key(y, 2)[i] < Key(x, n)[i]
    BY <1>2, <1>5, <2>1
  <2>3. CASE i = L
    <3>1. Key(x, n)[L] \leq 2
      <4>1. CASE x = y
        BY <1>2, <1>5, <4>1
      <4>2. CASE x # y
        BY <1>1, <4>2
      <4> QED BY <4>1, <4>2
    <3> QED BY <1>2, <1>3, <2>2, <2>3, <3>1
  <2>4. CASE i # L
    <3>1. i \in 1..L - 1
      BY <1>1, <2>2, <2>4
    <3> QED BY <1>1, <1>2, <2>2, <3>1
  <2> QED BY <2>3, <2>4
<1> QED BY <1>4, <1>5

\* What lies between two keys that differ in the last place only agrees with them before it.
Less(f, g) == \E i \in DOMAIN f \cap DOMAIN g : f[i] < g[i] /\ \A j \in 1..i - 1 : f[j] = g[j]

LEMMA Places == \A l \in 1..8 : (\A i \in 1..l : i \in 1..8) /\ (8 \in 1..l => l = 8)
  OBVIOUS

LEMMA Sandwich ==
  ASSUME NEW a \in [1..8 -> Nat], NEW c \in [1..8 -> Nat], NEW l \in 1..8, NEW b \in [1..l -> Nat],
         \A i \in 1..7 : a[i] = c[i], Less(a, b), Less(b, c)
  PROVE  l = 8 /\ \A i \in 1..7 : a[i] = b[i]
<1> DEFINE D == 1..l
<1>0. /\ \A i \in D : i \in 1..8
      /\ \A i \in 1..8 : a[i] \in Nat /\ c[i] \in Nat
      /\ \A i \in D : b[i] \in Nat
  <2>1. \A i \in D : i \in 1..8
    BY Places
  <2>2. \A i \in 1..8 : a[i] \in Nat /\ c[i] \in Nat
    OBVIOUS
  <2>3. \A i \in D : b[i] \in Nat
    OBVIOUS
  <2> QED BY <2>1, <2>2, <2>3
<1>1. PICK x \in 1..l : a[x] < b[x] /\ \A i \in 1..x - 1 : a[i] = b[i]
  BY DEF Less
<1>2. PICK y \in 1..l : b[y] < c[y] /\ \A i \in 1..y - 1 : b[i] = c[i]
  BY DEF Less
<1>3. x \in 1..8 /\ y \in 1..8 /\ a[x] \in Nat /\ b[x] \in Nat /\ b[y] \in Nat /\ c[y] \in Nat
  BY <1>0
<1>4. x = 8
  <2> SUFFICES ASSUME x \in 1..7 PROVE FALSE
    BY <1>3
  <2>1. a[x] = c[x]
    OBVIOUS
  <2>2. CASE y < x
    <3>1. y \in 1..x - 1 /\ y \in 1..7
      BY <1>3, <2>2
    <3>2. a[y] = b[y] /\ a[y] = c[y]
      BY <1>1, <3>1
    <3> QED BY <1>2, <1>3, <3>2
  <2>3. CASE y = x
    BY <1>1, <1>2, <1>3, <2>1, <2>3
  <2>4. CASE y > x
    <3>1. x \in 1..y - 1
      BY <1>3, <2>4
    <3>2. b[x] = c[x]
      BY <1>2, <3>1
    <3> QED BY <1>1, <1>3, <2>1, <3>2
  <2> QED BY <1>3, <2>2, <2>3, <2>4
<1>5. l = 8
  <2>1. 8 \in 1..l
    BY <1>1, <1>4
  <2> QED BY <2>1, Places
<1>6. \A i \in 1..7 : a[i] = b[i]
  <2>1. 1..x - 1 = 1..7
    BY <1>4
  <2> QED BY <1>1, <2>1
<1> QED BY <1>5, <1>6

\* Only a step of the same unit comes between two steps of a unit.
LEMMA NothingBetween ==
  ASSUME NEW u \in Unit, NEW n \in Nat, NEW k \in Nat, NEW x \in Scope \cup Unit, NEW j \in Nat,
         NEW s, NEW m, NEW t,
         s.key = Key(u, n), t.key = Key(u, k), m.key = Key(x, j), Before(s, m), Before(m, t)
  PROVE  x = u
<1>1. u \in Scope \cup Unit /\ Depth(u) = 4
  <2>1. Line[u] = <<Parent[Parent[Parent[u]]], Parent[Parent[u]], Parent[u], u>>
    BY Lines
  <2> QED BY <2>1 DEF Depth
<1>2. \A i \in Nat : Key(u, i) \in [1..8 -> Nat]
  <2>0. 2 * Depth(u) = 8
    BY <1>1
  <2>1. \A i \in Nat : DOMAIN Key(u, i) = 1..8 /\ \A h \in 1..8 : Key(u, i)[h] \in Nat
    BY <1>1, <2>0, Keys
  <2>2. \A i \in Nat : Key(u, i) = [h \in DOMAIN Key(u, i) |-> Key(u, i)[h]]
    BY DEF Key
  <2> QED BY <2>1, <2>2
<1>3. \A i \in 1..7 : Key(u, n)[i] = Key(u, k)[i]
  <2> SUFFICES ASSUME NEW i \in 1..7 PROVE Key(u, n)[i] = Key(u, k)[i]
    OBVIOUS
  <2>1. 2 * Depth(u) - 1 = 7
    BY <1>1
  <2>2. i \in 1..2 * Depth(u) - 1
    BY <2>1
  <2>3. \A h \in Nat : Key(u, h)[i] = IF i % 2 = 0 THEN 1 ELSE Position[Line[u][(i + 1) \div 2]]
    BY <1>1, <2>2, Keys
  <2> QED BY <2>3
<1>4. Depth(x) \in 1..4
  BY DepthIsSmall
<1>5. Key(x, j) \in [1..2 * Depth(x) -> Nat]
  <2>1. Key(x, j) = [h \in DOMAIN Key(x, j) |-> Key(x, j)[h]]
    BY DEF Key
  <2> QED BY <2>1, Keys
<1>6. Less(Key(u, n), Key(x, j)) /\ Less(Key(x, j), Key(u, k))
  BY DEF Before, Less
<1>7. 2 * Depth(x) \in 1..8
  BY <1>4
<1>8. Depth(x) = 4 /\ \A i \in 1..7 : Key(u, n)[i] = Key(x, j)[i]
  <2>1. 2 * Depth(x) = 8 /\ \A i \in 1..7 : Key(u, n)[i] = Key(x, j)[i]
    BY <1>2, <1>3, <1>5, <1>6, <1>7, Sandwich
  <2> QED BY <1>4, <2>1
<1>9. PICK r \in Repo, p \in Package, o \in Target : x \in Unit /\ Line[x] = <<r, p, o, x>>
                                                    /\ r = Parent[p] /\ p = Parent[o] /\ o = Parent[x]
  <2>1. \A y : Line[x] = <<y>> => Depth(x) # 4
    BY DEF Depth
  <2>2. \A y, z : Line[x] = <<y, z>> => Depth(x) # 4
    BY DEF Depth
  <2>3. \A y, z, w : Line[x] = <<y, z, w>> => Depth(x) # 4
    BY DEF Depth
  <2>4. x \in Unit
    BY <1>8, <2>1, <2>2, <2>3, Lines DEF Scope
  <2> QED BY <2>4, Lines
<1>10. PICK q \in Repo, g \in Package, e \in Target : Line[u] = <<q, g, e, u>>
                                                    /\ q = Parent[g] /\ g = Parent[e] /\ e = Parent[u]
  BY Lines
<1>11. \A i \in 1..4 : Position[Line[u][i]] = Position[Line[x][i]]
  <2> SUFFICES ASSUME NEW i \in 1..4 PROVE Position[Line[u][i]] = Position[Line[x][i]]
    OBVIOUS
  <2>1. 2 * i - 1 \in 1..7 /\ (2 * i - 1) % 2 # 0 /\ (2 * i - 1 + 1) \div 2 = i
    OBVIOUS
  <2>2. 2 * i - 1 \in 1..2 * 4 - 1
    BY <2>1
  <2>3. Key(u, n)[2 * i - 1] = Position[Line[u][i]]
    BY <1>1, <2>1, <2>2, Keys
  <2>4. Key(x, j)[2 * i - 1] = Position[Line[x][i]]
    <3>1. 2 * i - 1 \in 1..2 * Depth(x) - 1
      BY <1>8, <2>2
    <3> QED BY <2>1, <3>1, Keys
  <2> QED BY <1>8, <2>1, <2>3, <2>4
<1>12. Position[q] = Position[r] /\ Position[g] = Position[p] /\ Position[e] = Position[o]
       /\ Position[u] = Position[x]
  BY <1>9, <1>10, <1>11
<1>13. \A K \in {Repo, Package, Target, Unit} : \A y, z \in K :
         y # z /\ (K = Repo \/ Parent[y] = Parent[z]) => Position[y] # Position[z]
  BY TreeAssumption
<1>14. q = r
  BY <1>12, <1>13
<1>15. g = p
  <2>1. Parent[g] = Parent[p]
    BY <1>9, <1>10, <1>14
  <2> QED BY <1>12, <1>13, <2>1
<1>16. e = o
  <2>1. Parent[e] = Parent[o]
    BY <1>9, <1>10, <1>15
  <2> QED BY <1>12, <1>13, <2>1
<1> QED BY <1>9, <1>10, <1>12, <1>13, <1>16

-----------------------------------------------------------------------------
(* The steps of the stages that hooks surround                              *)

\* Every step of a stage that hooks surround has a place in its order.
LEMMA StepsHaveKeys ==
  ASSUME FrozenInv, NEW st \in Direction, NEW s \in frozen[st]
  PROVE  /\ s.stage = st /\ s.at \in Scope \cup Unit
         /\ \E n \in Nat : s.key = Key(s.at, n) /\ (s.at \in Scope => n \leq 2)
         /\ s.op = "pre" => s.at \in Scope /\ s.key = Key(s.at, 0)
         /\ s.op = "post" => s.at \in Scope /\ s.key = Key(s.at, 2)
<1>1. CASE \E y \in Scope : IsHook(s, y)
  <2>1. PICK y \in Scope : IsHook(s, y)
    BY <1>1
  <2>2. \E n \in Nat : s.key = Key(s.at, n) /\ n \leq 2
    <3>1. CASE s.key = Key(y, 0)
      BY <2>1, <3>1 DEF IsHook
    <3>2. CASE s.key = Key(y, 2)
      BY <2>1, <3>2 DEF IsHook
    <3> QED BY <2>1, <3>1, <3>2 DEF IsHook
  <2> QED BY <2>1, <2>2, FrozenSteps DEF IsHook
<1>2. CASE \E u \in Selected : IsEffect(st, s, u) \/ (CompletesIn(st, u) /\ s = Completion(st, u))
  <2>1. PICK u \in Selected : IsEffect(st, s, u) \/ (CompletesIn(st, u) /\ s = Completion(st, u))
    BY <1>2
  <2>2. s.at = u /\ (\E n \in Nat : s.key = Key(u, n)) /\ s.op \notin {"pre", "post"}
    BY <2>1, UnitSteps DEF IsEffect
  <2>3. u \in Unit /\ u \notin Scope
    BY SelectedUnits, TreeAssumption
  <2> QED BY <2>2, <2>3, FrozenSteps
<1> QED BY <1>1, <1>2, FrozenSteps

\* No unit is both deleted and written in one stage.
LEMMA DeleteOrWrite ==
  ASSUME FrozenInv, NEW st \in Direction, NEW s \in frozen[st], Deletes(s)
  PROVE  ~Writes(s)
<1>1. s.stage = st /\ s.at \in Unit
  BY FrozenSteps DEF Deletes
<1>2. ASSUME NEW e \in frozen[st], e.at = s.at, e.op \in {"delete", "write", "update"}
      PROVE  s.at \in Selected /\ IsEffect(st, e, s.at)
  <2>1. e.at \notin Scope
    BY <1>1, <1>2, TreeAssumption
  <2>2. CASE \E y \in Scope : IsHook(e, y)
    BY <2>1, <2>2 DEF IsHook
  <2>3. CASE \E u \in Selected : IsEffect(st, e, u)
    BY <1>2, <2>3, UnitSteps DEF IsEffect
  <2>4. CASE \E u \in Selected : CompletesIn(st, u) /\ e = Completion(st, u)
    BY <1>2, <2>4, UnitSteps
  <2> QED BY <2>2, <2>3, <2>4, FrozenSteps
<1>3. PICK d \in frozen[st] : d.at = s.at /\ d.op = "delete"
  BY <1>1 DEF Deletes, Does
<1>4. SUFFICES ASSUME NEW w \in frozen[st], w.at = s.at, w.op \in {"write", "update"} PROVE FALSE
  BY <1>1 DEF Writes, Does
<1> DEFINE u == s.at
<1>5. u \in Selected /\ IsEffect(st, d, u) /\ IsEffect(st, w, u)
  BY <1>2, <1>3, <1>4
<1>6. PICK i \in 1..EffectCount(st, u) : d = Effect(st, u, i)
  BY <1>5 DEF IsEffect
<1>7. PICK j \in 1..EffectCount(st, u) : w = Effect(st, u, j)
  BY <1>5 DEF IsEffect
<1>8. CASE st = "apply"
  BY <1>3, <1>4, <1>5, <1>6, <1>7, <1>8, UnitSteps
<1>9. CASE st # "apply"
  <2>1. i \in 1..Len(Effects(u)) /\ j \in 1..Len(Effects(u))
    BY <1>6, <1>7, <1>9 DEF EffectCount
  <2>2. Effects(u)[i] = "delete" /\ Effects(u)[j] \in {"write", "update"}
    BY <1>3, <1>4, <1>5, <1>6, <1>7, <1>9, UnitSteps
  <2>3. Effects(u) \in EffectList
    BY <1>5, SelectedUnits
  <2>4. ASSUME NEW l \in EffectList, NEW g \in 1..Len(l), NEW h \in 1..Len(l), l[g] = "delete"
        PROVE  l[h] \notin {"write", "update"}
    BY <2>4 DEF EffectList
  <2> HIDE DEF u
  <2> QED BY <2>1, <2>2, <2>3, <2>4
<1> QED BY <1>8, <1>9

-----------------------------------------------------------------------------
(* Hooks, units and outcomes                                                *)

Started(st, u)  == \E s \in succeeded : s.stage = st /\ s.at = u
Finished(st, u) == \A s \in frozen[st] : s.at = u => s \in succeeded
Broken(st, u)   == \E s \in failures : s.stage = st /\ s.at = u

\* The steps of a unit are taken one after the other: where one of them ended well,
\* all of them did, one of them failed, or the next step is the unit's.
UnitsInOnePiece ==
  \A st \in Direction, u \in Unit : Started(st, u) =>
    \/ Finished(st, u) \/ Broken(st, u) \/ stage = "killed"
    \/ stage = st /\ todo # {} /\ \A s \in NextSteps : s.at = u

Rank == [sources |-> 1, apply |-> 2, publish |-> 3, reclaim |-> 4, commit |-> 5, done |-> 6]

\* What ended well, what failed, and what is left of a step that was cut short.
OutcomeInv ==
  /\ succeeded \subseteq performed /\ succeeded \cap failures = {}
  /\ (succeeded \cup failures) \cap todo = {}
  /\ \A s \in succeeded \cup failures :
       s.stage \in StageName /\ (stage # "killed" => Rank[s.stage] \leq Rank[stage])
  /\ \A s \in failures : s \in frozen[s.stage]
  /\ \A s \in failures : s.stage \in EarlyStages => stopped
  /\ stage = "killed" \/ performed \subseteq succeeded \cup failures
  /\ \A s \in succeeded : s.kind = "complete" =>
       \A st \in Direction : \A e \in frozen[st] : e.kind = "effect" /\ e.at = s.at => e \in succeeded

RunInv == FrozenInv /\ UnitsInOnePiece /\ OutcomeInv /\ HooksBracket

\* The next step is the first of those that no deletion holds back.
LEMMA NextIsFirst ==
  ASSUME NEW s \in NextSteps
  PROVE  s \in todo /\ ~Blocked(s) /\ \A t \in todo : ~Blocked(t) /\ t # s => Before(s, t)
  BY DEF NextSteps

\* In a stage that was not stopped, what is not to be taken ended well.
LEMMA TakenOrTodo ==
  ASSUME ShapeInv, ConductInv, NEW s \in NextSteps, stage \in Direction
  PROVE  frozen[stage] \subseteq todo \cup succeeded /\ todo \subseteq frozen[stage]
<1>1. ~stopped /\ stage \in StageName /\ todo # {}
  BY StagesFollow, NextIsFirst
<1> QED BY <1>1 DEF ConductInv, Direction, EarlyStages

\* Paths that are nested are in the same scopes.
LEMMA NestedWithin ==
  ASSUME NEW u, NEW v, {u, v} \in Nested, NEW y \in Scope, Within(u, y)
  PROVE  u \in Unit /\ v \in Unit /\ Within(v, y)
<1>1. u \in Unit /\ v \in Unit /\ Parent[u] = Parent[v]
  BY TreeAssumption
<1>2. /\ Line[u] = <<Parent[Parent[Parent[u]]], Parent[Parent[u]], Parent[u], u>>
      /\ Line[v] = <<Parent[Parent[Parent[u]]], Parent[Parent[u]], Parent[u], v>>
  BY <1>1, Lines
<1>3. PICK i \in 1..4 : Line[u][i] = y
  BY <1>2 DEF Within
<1>4. y # u
  BY <1>1, TreeAssumption
<1>5. i \in 1..3
  BY <1>2, <1>3, <1>4
<1>6. Line[v][i] = y /\ i \in DOMAIN Line[v]
  BY <1>2, <1>3, <1>5
<1> QED BY <1>1, <1>6 DEF Within

\* A step is next only after the pre-hooks around it, a post-hook only after all it surrounds.
LEMMA HooksFollow ==
  ASSUME FrozenInv, ShapeInv, ConductInv, NEW s \in NextSteps, s.stage \in Direction,
         NEW t \in frozen[s.stage], t # s
  PROVE  /\ t.op = "pre" /\ Within(s.at, t.at) => t \in succeeded
         /\ s.op = "post" /\ Within(t.at, s.at) => t \in succeeded
<1>1. s.stage = stage /\ s \in frozen[stage]
  BY StagesFollow
<1>2. t.stage = stage /\ s.stage = stage /\ s.at \in Scope \cup Unit /\ t.at \in Scope \cup Unit
  BY <1>1, StepsHaveKeys
<1>3. SUFFICES ASSUME t \in todo
               PROVE  ~(t.op = "pre" /\ Within(s.at, t.at)) /\ ~(s.op = "post" /\ Within(t.at, s.at))
  BY <1>1, TakenOrTodo
<1>4. PICK n \in Nat : s.key = Key(s.at, n)
  BY <1>1, StepsHaveKeys
<1>5. PICK k \in Nat : t.key = Key(t.at, k) /\ (t.at \in Scope => k \leq 2)
  BY <1>1, StepsHaveKeys
<1>6. ASSUME t.op = "pre", Within(s.at, t.at) PROVE FALSE
  <2>1. t.at \in Scope /\ t.key = Key(t.at, 0)
    BY <1>1, <1>6, StepsHaveKeys
  <2>2. ~Blocked(t)
    BY <2>1, TreeAssumption DEF Blocked, Writes
  <2>3. Before(s, t)
    BY <1>3, <2>2, NextIsFirst
  <2> QED BY <1>2, <1>4, <1>6, <2>1, <2>3, HooksSurround
<1>7. ASSUME s.op = "post", Within(t.at, s.at) PROVE FALSE
  <2>1. s.at \in Scope /\ s.key = Key(s.at, 2)
    BY <1>1, <1>7, StepsHaveKeys
  <2>2. ~Before(s, t)
    <3>1. t.at = s.at => k \leq 2
      BY <1>5, <2>1
    <3> QED BY <1>2, <1>5, <1>7, <2>1, <3>1, HooksSurround
  <2>3. Blocked(t)
    BY <1>3, <2>2, NextIsFirst
  <2>4. PICK d \in todo : {t.at, d.at} \in Nested /\ Deletes(d)
    BY <2>3 DEF Blocked
  <2>5. d \in frozen[stage] /\ d.at \in Unit /\ Within(d.at, s.at)
    BY <1>1, <1>7, <2>1, <2>4, NestedWithin, TakenOrTodo
  <2>6. ~Blocked(d)
    BY <1>1, <2>4, <2>5, DeleteOrWrite DEF Blocked
  <2>7. d # s /\ d.at # s.at
    BY <2>1, <2>5, TreeAssumption
  <2>8. Before(s, d)
    BY <2>6, <2>7, NextIsFirst
  <2>9. PICK j \in Nat : d.key = Key(d.at, j)
    BY <1>1, <2>5, StepsHaveKeys
  <2> QED BY <2>1, <2>5, <2>7, <2>8, <2>9, HooksSurround
<1> QED BY <1>6, <1>7

\* After a step of a unit that has more of them, the next step is the unit's again.
LEMMA UnitGoesOn ==
  ASSUME FrozenInv, ShapeInv, ConductInv, NEW s \in NextSteps, s.stage \in Direction, s.at \in Unit,
         UNCHANGED <<plan, frozen>>, todo' = todo \ {s},
         NEW t \in todo', t.at = s.at, NEW n \in NextSteps'
  PROVE  n.at = s.at
<1>1. s.stage = stage /\ s \in frozen[stage] /\ t \in frozen[stage] /\ t.stage = stage
  BY StagesFollow, TakenOrTodo, StepsHaveKeys
<1>2. SUFFICES ASSUME n.at # s.at PROVE FALSE
  OBVIOUS
<1>3. n \in todo' /\ ~Blocked(n)' /\ \A x \in todo' : ~Blocked(x)' /\ x # n => Before(n, x)
  BY DEF NextSteps
<1>4. n \in todo /\ n # s /\ n \in frozen[stage] /\ n.stage = stage
  BY <1>1, <1>3, TakenOrTodo, StepsHaveKeys
<1>5. \A x, y : x.at = y.at /\ x.stage = y.stage =>
        (Writes(x) <=> Writes(y)) /\ (Deletes(x) <=> Deletes(y))
  BY DEF Writes, Deletes, Does
<1>6. \A x : (Writes(x)' <=> Writes(x)) /\ (Deletes(x)' <=> Deletes(x))
  BY DEF Writes, Deletes, Does
<1>7. ~Blocked(t)'
  <2> SUFFICES ASSUME Writes(t), NEW d \in todo', {t.at, d.at} \in Nested, Deletes(d) PROVE FALSE
    BY <1>6 DEF Blocked
  <2>1. Writes(s) /\ d \in todo
    BY <1>1, <1>5
  <2> QED BY <2>1, NextIsFirst DEF Blocked
<1>8. Before(n, t)
  BY <1>2, <1>3, <1>7
<1>9. ~Blocked(n)
  <2> SUFFICES ASSUME Writes(n), NEW d \in todo, {n.at, d.at} \in Nested, Deletes(d) PROVE FALSE
    BY DEF Blocked
  <2>1. d = s
    BY <1>3, <1>6 DEF Blocked
  <2>2. Deletes(t) /\ {n.at, t.at} \in Nested
    BY <1>1, <1>5, <2>1
  <2> QED BY <1>3, <1>6, <2>2 DEF Blocked
<1>10. Before(s, n)
  BY <1>4, <1>9, NextIsFirst
<1>11. PICK i \in Nat : s.key = Key(s.at, i)
  BY <1>1, StepsHaveKeys
<1>12. PICK j \in Nat : t.key = Key(s.at, j)
  BY <1>1, StepsHaveKeys
<1>13. n.at \in Scope \cup Unit /\ \E k \in Nat : n.key = Key(n.at, k)
  BY <1>1, <1>4, StepsHaveKeys
<1> QED BY <1>2, <1>8, <1>10, <1>11, <1>12, <1>13, NothingBetween

-----------------------------------------------------------------------------
(* The invariant of the run                                                 *)

LEMMA InitRunInv == Init => RunInv
<1> SUFFICES ASSUME Init PROVE RunInv
  OBVIOUS
<1>1. FrozenInv
  BY TreeAssumption DEF Init, FrozenInv
<1>2. succeeded = {} /\ performed = {} /\ failures = {}
  BY DEF Init
<1> QED BY <1>1, <1>2 DEF RunInv, UnitsInOnePiece, Started, OutcomeInv, HooksBracket

\* A step that may have had its effect has the hooks around it behind it.
LEMMA PerformedKeepsHooks ==
  ASSUME FrozenInv, ShapeInv, ConductInv, HooksBracket, NEW s \in NextSteps,
         performed' \subseteq performed \cup {s}, succeeded \subseteq succeeded', frozen' = frozen
  PROVE  HooksBracket'
  BY HooksFollow DEF HooksBracket

\* Every action preserves the invariant of the run.
LEMMA NextRunInv == IInv /\ RunInv /\ [Next]_vars => RunInv'
<1> SUFFICES ASSUME IInv, RunInv, [Next]_vars PROVE RunInv'
  OBVIOUS
<1>0. ShapeInv /\ ConductInv /\ FrozenInv /\ ConductInv' /\ SnapshotInv
  BY NextIInv DEF IInv, RunInv
<1>frozen. (plan' = plan /\ frozen' = frozen) => FrozenInv'
  BY DEF RunInv, FrozenInv, StepsOf, Steps, Hooks, Selected, EffectCount, Source, Effects,
         EffectSteps, Effect, Completions, Completion, CompletesIn, WrittenIn
<1>1. CASE TakeSnapshot \/ UNCHANGED vars
  <2>1. UNCHANGED <<plan, frozen, stage, todo, performed, succeeded, failures, stopped>>
    BY <1>1 DEF TakeSnapshot, vars
  <2>2. NextSteps' = NextSteps
    BY <2>1 DEF NextSteps, Blocked, Writes, Deletes, Does
  <2> QED BY <1>frozen, <2>1, <2>2 DEF RunInv, UnitsInOnePiece, Started, Finished, Broken,
                                       OutcomeInv, HooksBracket
<1>2. CASE Succeed
  <2>1. PICK s \in NextSteps : /\ performed' = performed \cup {s}
                             /\ succeeded' = succeeded \cup {s} /\ todo' = todo \ {s}
    BY <1>2 DEF Succeed
  <2>2. UNCHANGED <<plan, frozen, stage, failures, stopped>>
    BY <1>2 DEF Succeed
  <2>3. s.stage = stage /\ stage \in StageName /\ s \in frozen[stage] /\ s \in todo
    BY <1>0, <2>1, StagesFollow, NextIsFirst
  <2>4. stage # "killed"
    BY <2>3, StageNames DEF EarlyStages, LateStages
  <2>5. HooksBracket'
    BY <1>0, <2>1, <2>2, PerformedKeepsHooks DEF RunInv
  <2>6. OutcomeInv'
    <3>1. s \notin failures /\ s \notin succeeded
      BY <2>3 DEF RunInv, OutcomeInv
    <3>2. Rank[stage] \in Nat
      BY <2>3, StageNames DEF Rank, EarlyStages, LateStages
    <3>3. s.kind = "complete" => \A st \in Direction : \A e \in frozen[st] :
            e.kind = "effect" /\ e.at = s.at => e \in succeeded
      BY <1>0, CompletionFollows
    <3> QED BY <2>1, <2>2, <2>3, <2>4, <3>1, <3>2, <3>3 DEF RunInv, OutcomeInv
  <2>7. UnitsInOnePiece'
    <3> SUFFICES ASSUME NEW st \in Direction, NEW u \in Unit,
                        Started(st, u)', ~Finished(st, u)', ~Broken(st, u)'
                 PROVE  stage' = st /\ todo' # {} /\ \A n \in NextSteps' : n.at = u
      BY DEF UnitsInOnePiece
    <3>1. CASE s.stage = st /\ s.at = u
      <4>1. PICK t \in frozen[st] : t.at = u /\ t \notin succeeded'
        BY <2>2 DEF Finished
      <4>2. t \in todo'
        BY <1>0, <2>1, <2>3, <3>1, <4>1, TakenOrTodo
      <4>3. \A n \in NextSteps' : n.at = u
        BY <1>0, <2>1, <2>2, <3>1, <4>1, <4>2, UnitGoesOn
      <4> QED BY <2>2, <2>3, <3>1, <4>2, <4>3
    <3>2. CASE ~(s.stage = st /\ s.at = u)
      <4>1. Started(st, u) /\ ~Finished(st, u) /\ ~Broken(st, u)
        BY <2>1, <2>2, <3>2 DEF Started, Finished, Broken
      <4> QED BY <2>1, <2>3, <2>4, <3>2, <4>1 DEF RunInv, UnitsInOnePiece
    <3> QED BY <3>1, <3>2
  <2> QED BY <1>frozen, <2>2, <2>5, <2>6, <2>7 DEF RunInv
<1>3. CASE Fail
  <2>1. PICK s \in NextSteps, interrupted \in BOOLEAN :
          /\ CutShort(s)
          /\ todo' = IF stage = "commit" THEN todo \ {s} ELSE {}
          /\ failures' = failures \cup {s}
          /\ stopped' = (stopped \/ stage \in {"sources", "apply", "publish"}
                                   \/ (stage = "reclaim" /\ interrupted))
    BY <1>3 DEF Fail
  <2>2. UNCHANGED <<plan, frozen, stage, succeeded>>
    BY <1>3 DEF Fail
  <2>3. s.stage = stage /\ stage \in StageName /\ s \in frozen[stage] /\ s \in todo
    BY <1>0, <2>1, StagesFollow, NextIsFirst
  <2>4. stage # "killed"
    BY <2>3, StageNames DEF EarlyStages, LateStages
  <2>5. performed \subseteq performed' /\ performed' \subseteq performed \cup {s}
    BY <2>1 DEF CutShort
  <2>6. HooksBracket'
    BY <1>0, <2>1, <2>2, <2>5, PerformedKeepsHooks DEF RunInv
  <2>7. OutcomeInv'
    <3>1. s \notin failures /\ s \notin succeeded
      BY <2>3 DEF RunInv, OutcomeInv
    <3>2. Rank[stage] \in Nat
      BY <2>3, StageNames DEF Rank, EarlyStages, LateStages
    <3>3. /\ succeeded' \subseteq performed' /\ succeeded' \cap failures' = {}
          /\ (succeeded' \cup failures') \cap todo' = {}
          /\ performed' \subseteq succeeded' \cup failures'
      BY <2>1, <2>2, <2>3, <2>4, <2>5, <3>1 DEF RunInv, OutcomeInv
    <3>4. \A x \in succeeded' \cup failures' : x.stage \in StageName /\ Rank[x.stage] \leq Rank[stage]
      BY <2>1, <2>2, <2>3, <2>4, <3>2 DEF RunInv, OutcomeInv
    <3>5. \A x \in failures' : x \in frozen[x.stage] /\ (x.stage \in EarlyStages => stopped')
      BY <2>1, <2>3 DEF RunInv, OutcomeInv, EarlyStages
    <3> QED BY <2>2, <3>3, <3>4, <3>5 DEF RunInv, OutcomeInv
  <2>8. UnitsInOnePiece'
    <3> SUFFICES ASSUME NEW st \in Direction, NEW u \in Unit, Started(st, u)', ~Finished(st, u)'
                 PROVE  Broken(st, u)'
      BY DEF UnitsInOnePiece
    <3>1. Started(st, u) /\ ~Finished(st, u)
      BY <2>2 DEF Started, Finished
    <3>2. CASE Broken(st, u)
      BY <2>1, <3>2 DEF Broken
    <3>3. CASE stage = st /\ \A n \in NextSteps : n.at = u
      BY <2>1, <2>3, <3>3 DEF Broken
    <3> QED BY <2>4, <3>1, <3>2, <3>3 DEF RunInv, UnitsInOnePiece
  <2> QED BY <1>frozen, <2>2, <2>6, <2>7, <2>8 DEF RunInv
<1>4. CASE FinalizeSnapshot
  <2>1. /\ todo = {} /\ (stopped' = stopped \/ stopped' = TRUE)
        /\ UNCHANGED <<plan, frozen, stage, todo, performed, succeeded, failures>>
    BY <1>4 DEF FinalizeSnapshot
  <2>2. UnitsInOnePiece' /\ HooksBracket'
    BY <2>1 DEF RunInv, UnitsInOnePiece, Started, Finished, Broken, HooksBracket
  <2>3. OutcomeInv'
    BY <2>1 DEF RunInv, OutcomeInv
  <2> QED BY <1>frozen, <2>1, <2>2, <2>3 DEF RunInv
<1>5. CASE NextStage
  <2>1. UNCHANGED <<plan, frozen, performed, succeeded, failures, stopped>>
    BY <1>5 DEF NextStage
  <2>2. /\ todo = {} /\ stage \in StageName /\ stage' \in StageName
        /\ <<stage, stage'>> \in {<<"sources", "apply">>, <<"apply", "publish">>, <<"publish", "reclaim">>,
                                  <<"reclaim", "commit">>, <<"commit", "done">>}
        /\ todo' \subseteq frozen[stage']
    BY <1>5 DEF NextStage, Stages, StageName
  <2>3. UnitsInOnePiece' /\ HooksBracket'
    BY <2>1, <2>2, StageNames DEF RunInv, UnitsInOnePiece, Started, Finished, Broken, HooksBracket,
                                  EarlyStages, LateStages
  <2>4. Rank[stage] \in Nat /\ Rank[stage'] = Rank[stage] + 1 /\ stage' # "killed" /\ stage # "killed"
    BY <2>2 DEF Rank
  <2>5. \A x \in StageName : Rank[x] \in Nat
    BY StageNames DEF Rank, EarlyStages, LateStages
  <2>6. \A x \in succeeded \cup failures : x.stage \in StageName /\ Rank[x.stage] \leq Rank[stage]
    BY <2>4 DEF RunInv, OutcomeInv
  <2>7. \A x \in todo' : x.stage = stage'
    BY <1>0, <2>2 DEF ShapeInv
  <2>8. (succeeded \cup failures) \cap todo' = {}
    BY <2>4, <2>5, <2>6, <2>7
  <2>9. \A x \in succeeded \cup failures : Rank[x.stage] \leq Rank[stage']
    BY <2>4, <2>5, <2>6
  <2>10. OutcomeInv'
    BY <2>1, <2>4, <2>6, <2>8, <2>9 DEF RunInv, OutcomeInv
  <2> QED BY <1>frozen, <2>1, <2>3, <2>10 DEF RunInv
<1>6. CASE Kill
  <2>1. /\ stage' = "killed" /\ todo' = {}
        /\ UNCHANGED <<plan, frozen, succeeded, failures, stopped>>
    BY <1>6 DEF Kill
  <2>2. \/ performed' = performed
        \/ \E s \in NextSteps : performed' = performed \cup {s}
    BY <1>6 DEF Kill, CutShort
  <2>3. HooksBracket'
    <3>1. CASE performed' = performed
      BY <2>1, <3>1 DEF RunInv, HooksBracket
    <3>2. CASE \E s \in NextSteps : performed' = performed \cup {s}
      BY <1>0, <2>1, <3>2, PerformedKeepsHooks DEF RunInv
    <3> QED BY <2>2, <3>1, <3>2
  <2>4. UnitsInOnePiece' /\ OutcomeInv'
    BY <2>1, <2>2 DEF RunInv, UnitsInOnePiece, OutcomeInv
  <2> QED BY <1>frozen, <2>1, <2>3, <2>4 DEF RunInv
<1> QED BY <1>1, <1>2, <1>3, <1>4, <1>5, <1>6 DEF Next, Work

\* The invariant of the run is inductive together with that of the steps.
THEOREM RunInvariance == Spec => [](IInv /\ RunInv)
<1>1. IInv /\ RunInv /\ [Next]_vars => (IInv /\ RunInv)'
  BY NextIInv, NextRunInv
<1> QED BY InitIInv, InitRunInv, <1>1, PTL DEF Spec

\* Whatever a hook scope contains runs between its pre-hooks and its post-hooks, for every
\* tree of scopes, every choice of hooks and every set of nested paths (_execution_order).
THEOREM HooksAreBrackets == Spec => []HooksBracket
  BY RunInvariance, PTL DEF RunInv

-----------------------------------------------------------------------------
(* The report                                                               *)

EffectsOf(st, u) == {s \in frozen[st] : s.at = u /\ s.kind = "effect"}

\* What the result of one stage says of the unit's effects there, when the run is over.
LEMMA StageResults ==
  ASSUME IInv, RunInv, stage = "done", NEW u \in Selected, NEW st \in Direction
  PROVE  /\ StageResult(st, u) \in {"failed", "converged", "skipped"}
         /\ StageResult(st, u) = "converged" =>
              /\ EffectsOf(st, u) \subseteq succeeded
              /\ CompletesIn(st, u) => \E s \in succeeded : s.kind = "complete" /\ s.at = u
         /\ StageResult(st, u) = "skipped" => EffectsOf(st, u) \cap performed = {}
         /\ StageResult(st, u) = "failed" => \E s \in failures : s.stage = st
         /\ StageResult(st, u) # "failed" => ~Broken(st, u)
<1>1. FrozenInv /\ u \in Unit
  BY SelectedUnits DEF RunInv
<1>2. Started(st, u) => Finished(st, u) \/ Broken(st, u)
  BY <1>1 DEF RunInv, UnitsInOnePiece, Direction
<1>3. CompletesIn(st, u) => /\ Completion(st, u) \in frozen[st] /\ Completion(st, u).at = u
                            /\ Completion(st, u).stage = st /\ Completion(st, u).kind = "complete"
  <2>1. frozen[st] = Steps(st)
    BY <1>1, StageNames DEF FrozenInv, StepsOf, Direction, EarlyStages
  <2> QED BY <1>1, <2>1, UnitSteps DEF Steps, Completions
<1>4. \A s \in frozen[st] : s.stage = st
  BY <1>1, FrozenSteps
<1>5. performed \subseteq succeeded \cup failures
  BY DEF RunInv, OutcomeInv
<1>6. CASE Broken(st, u)
  BY <1>6 DEF StageResult, Broken
<1>7. CASE ~Broken(st, u) /\ \E s \in succeeded : /\ s.stage = st /\ s.at = u
                                                  /\ (s.kind = "complete" \/ ~CompletesIn(st, u))
  <2>1. StageResult(st, u) = "converged"
    BY <1>7 DEF StageResult, Broken
  <2>2. Finished(st, u)
    BY <1>2, <1>7 DEF Started
  <2> QED BY <1>3, <1>7, <2>1, <2>2 DEF Finished, EffectsOf
<1>8. CASE ~Broken(st, u) /\ ~\E s \in succeeded : /\ s.stage = st /\ s.at = u
                                                   /\ (s.kind = "complete" \/ ~CompletesIn(st, u))
  <2>1. StageResult(st, u) = "skipped"
    BY <1>8 DEF StageResult, Broken
  <2>2. ~Started(st, u)
    <3>1. CASE CompletesIn(st, u)
      BY <1>2, <1>3, <1>8, <3>1 DEF Finished
    <3>2. CASE ~CompletesIn(st, u)
      BY <1>8, <3>2 DEF Started
    <3> QED BY <3>1, <3>2
  <2>3. EffectsOf(st, u) \cap performed = {}
    BY <1>4, <1>5, <1>8, <2>2 DEF EffectsOf, Started, Broken
  <2> QED BY <1>8, <2>1, <2>3
<1> QED BY <1>6, <1>7, <1>8

LEMMA TrueReport == IInv /\ RunInv => ReportIsTrue
<1> SUFFICES ASSUME IInv, RunInv, stage = "done", NEW u \in Selected \ DirectoryRoot
             PROVE  /\ UnitStatus(u) \in {"converged", "skipped", "not-converged", "failed"}
                    /\ UnitStatus(u) = "converged" =>
                         EffectsOf("apply", u) \cup EffectsOf("publish", u) \subseteq succeeded
                    /\ UnitStatus(u) = "skipped" =>
                         (EffectsOf("apply", u) \cup EffectsOf("publish", u)) \cap performed = {}
                    /\ UnitStatus(u) = "not-converged" =>
                         EffectsOf("apply", u) \subseteq succeeded /\ EffectsOf("publish", u) \cap performed = {}
                    /\ UnitStatus(u) = "failed" => stopped
  BY DEF ReportIsTrue, EffectsOf
<1> DEFINE A == StageResult("apply", u)
           P == StageResult("publish", u)
           Early == \E s \in failures : s.stage \in {"sources", "apply"}
           W == Effects(u) # <<>> /\ A = "converged"
<1>1. FrozenInv /\ u \in Unit /\ "apply" \in Direction /\ "publish" \in Direction
  BY DEF RunInv, FrozenInv, Selected, Direction
<1>2. /\ A \in {"failed", "converged", "skipped"} /\ P \in {"failed", "converged", "skipped"}
      /\ A = "converged" => EffectsOf("apply", u) \subseteq succeeded
      /\ A = "skipped" => EffectsOf("apply", u) \cap performed = {}
      /\ P = "converged" => EffectsOf("publish", u) \subseteq succeeded
      /\ P = "skipped" => EffectsOf("publish", u) \cap performed = {}
      /\ A = "failed" => Early
  BY <1>1, StageResults
<1>3. (A = "failed" \/ P = "failed") => stopped
  <2>1. \A s \in failures : s.stage \in EarlyStages => stopped
    BY DEF RunInv, OutcomeInv
  <2>2. A = "failed" => \E s \in failures : s.stage = "apply"
    BY <1>1, StageResults
  <2>3. P = "failed" => \E s \in failures : s.stage = "publish"
    BY <1>1, StageResults
  <2> QED BY <2>1, <2>2, <2>3 DEF EarlyStages
<1>4. UnitStatus(u) = IF Effects(u) = <<>> \/ Early \/ (P = "skipped" /\ W)
                        THEN IF W THEN "not-converged" ELSE A ELSE P
  BY DEF UnitStatus, MergeStages
<1>5. Effects(u) = <<>> => EffectsOf("publish", u) = {}
  <2> SUFFICES ASSUME Effects(u) = <<>>, NEW e \in frozen["publish"], e.at = u, e.kind = "effect" PROVE FALSE
    BY DEF EffectsOf
  <2>1. u \notin Scope
    BY <1>1, TreeAssumption
  <2>2. PICK v \in Selected : IsEffect("publish", e, v)
    <3>1. CASE \E y \in Scope : IsHook(e, y)
      BY <2>1, <3>1 DEF IsHook
    <3>2. CASE \E v \in Selected : CompletesIn("publish", v) /\ e = Completion("publish", v)
      BY <1>1, <3>2, UnitSteps
    <3> QED BY <1>1, <3>1, <3>2, FrozenSteps
  <2>3. v = u
    BY <1>1, <2>2, UnitSteps DEF IsEffect
  <2>4. EffectCount("publish", u) = 0
    BY DEF EffectCount
  <2> QED BY <2>2, <2>3, <2>4 DEF IsEffect
<1>6. Early => EffectsOf("publish", u) \cap performed = {}
  <2> SUFFICES ASSUME Early, NEW e \in EffectsOf("publish", u), e \in performed PROVE FALSE
    OBVIOUS
  <2>1. e.stage = "publish"
    BY <1>1, FrozenSteps DEF EffectsOf
  <2>2. frozen["sources"] \cup frozen["apply"] \subseteq succeeded
    BY <2>1 DEF IInv, LiveFollowsSources
  <2>3. PICK f \in failures : f.stage \in {"sources", "apply"}
    OBVIOUS
  <2>4. f \in frozen[f.stage] /\ f \notin succeeded
    BY <2>3 DEF RunInv, OutcomeInv
  <2> QED BY <2>2, <2>3, <2>4
<1>7. P = "converged" /\ Effects(u) # <<>> => EffectsOf("apply", u) \subseteq succeeded
  <2> SUFFICES ASSUME P = "converged", Effects(u) # <<>> PROVE EffectsOf("apply", u) \subseteq succeeded
    OBVIOUS
  <2>1. CompletesIn("publish", u)
    BY DEF CompletesIn
  <2>2. PICK s \in succeeded : s.kind = "complete" /\ s.at = u
    BY <1>1, <2>1, StageResults
  <2> QED BY <1>1, <2>2 DEF RunInv, OutcomeInv, EffectsOf
<1> HIDE DEF A, P, Early
<1>8. CASE Effects(u) = <<>>
  BY <1>2, <1>3, <1>4, <1>5, <1>8
<1>9. CASE Effects(u) # <<>> /\ Early
  BY <1>2, <1>3, <1>4, <1>6, <1>9
<1>10. CASE Effects(u) # <<>> /\ ~Early /\ P = "skipped" /\ W
  BY <1>2, <1>4, <1>10
<1>11. CASE Effects(u) # <<>> /\ ~Early /\ ~(P = "skipped" /\ W)
  BY <1>2, <1>3, <1>4, <1>7, <1>11
<1> QED BY <1>8, <1>9, <1>10, <1>11

\* The status that a finished run reports of a unit is what happened to its files, in
\* every execution of every plan (_merge_stage_results).
THEOREM ReportsAreTrue == Spec => []ReportIsTrue
  BY RunInvariance, TrueReport, PTL

-----------------------------------------------------------------------------
(* Types                                                                    *)

\* The place of a step is a sequence of numbers.
LEMMA KeysAreSequences ==
  ASSUME NEW x \in Scope \cup Unit \cup Addition, NEW n \in Nat
  PROVE  Key(x, n) \in Seq(Nat)
<1>1. PICK m \in {1, 2, 3, 4} : Len(Line[x]) = m /\ \A i \in 1..m : Position[Line[x][i]] \in Nat
  <2>1. CASE x \in Addition
    <3>1. Line[x] = <<Parent[x], x>> /\ Parent[x] \in Repo
      BY <2>1, TreeAssumption DEF Line, Scope
    <3>2. Position[x] \in Nat /\ Position[Parent[x]] \in Nat
      BY <3>1, TreeAssumption DEF Scope
    <3>3. Len(Line[x]) = 2 /\ \A i \in 1..2 : Position[Line[x][i]] \in Nat
      BY <3>1, <3>2
    <3> QED BY <3>3
  <2>2. CASE x \in Scope \cup Unit
    <3>1. 1..4 = {1, 2, 3, 4}
      OBVIOUS
    <3> QED BY <2>2, <3>1, LineEnds
  <2> QED BY <2>1, <2>2
<1>2. Key(x, n) = [i \in 1..2 * m |-> IF i = 2 * m THEN n ELSE IF i % 2 = 0 THEN 1
                                        ELSE Position[Line[x][(i + 1) \div 2]]]
  BY <1>1 DEF Key
<1>3. ASSUME NEW i \in 1..2 * m PROVE Key(x, n)[i] \in Nat
  <2>1. i % 2 # 0 => (i + 1) \div 2 \in 1..m
    OBVIOUS
  <2> QED BY <1>1, <1>2, <2>1
<1>4. Key(x, n) \in [1..2 * m -> Nat] /\ 2 * m \in Nat
  BY <1>2, <1>3
<1> QED BY <1>4

\* The steps of every stage are of the type of steps.
LEMMA FrozenType == FrozenInv => frozen \in [StageName -> SUBSET StepType]
<1> SUFFICES ASSUME FrozenInv, NEW st \in StageName, NEW s \in frozen[st] PROVE s \in StepType
  BY DEF FrozenInv
<1>1. ASSUME NEW r \in {"sources", "apply", "publish", "reclaim", "commit"},
             NEW k \in {"addition", "hook", "effect", "complete", "reclaim", "commit"},
             NEW at \in Scope \cup Unit \cup Addition,
             NEW op \in {"pre", "post", "update", "delete", "write", "chmod", "reapply",
                         "save", "discard", "commit"}, NEW n \in Nat
      PROVE  Step(r, k, at, op, n) \in StepType
  BY KeysAreSequences DEF Step, StepType
<1>2. /\ plan.additions \subseteq Addition /\ plan.obsolete \subseteq Target /\ plan.commits \subseteq Repo
  BY DEF FrozenInv, PlanType
<1>3. CASE st \in Direction
  <2>0. st \in {"sources", "apply", "publish", "reclaim", "commit"}
    BY <1>3 DEF Direction
  <2>1. s \in Steps(st)
    BY <1>3 DEF FrozenInv, StepsOf, Direction
  <2>2. CASE \E y \in Hooks(st) : s \in HookSteps(y, st)
    BY <2>0, <2>2, <1>1 DEF Hooks, HookSteps
  <2>3. CASE \E u \in Selected : s \in EffectSteps(u, st)
    <3>1. PICK u \in Selected : \E n \in 1..EffectCount(st, u) : s = Effect(st, u, n)
      BY <2>3 DEF EffectSteps
    <3>2. PICK n \in 1..EffectCount(st, u) : s = Effect(st, u, n)
      BY <3>1
    <3>3. n \in Nat /\ u \in Unit
      BY <1>3, SelectedUnits
    <3>4. st = "apply" => Source(u) \in {"update", "delete"}
      BY <3>2, SelectedUnits DEF EffectCount
    <3>5. st # "apply" => Effects(u)[n] \in {"delete", "write", "chmod", "reapply"}
      <4>1. \A l \in EffectList : \A i \in 1..Len(l) : l[i] \in {"delete", "write", "chmod", "reapply"}
        BY DEF EffectList
      <4>2. Effects(u) \in EffectList
        BY SelectedUnits
      <4>3. st # "apply" => n \in 1..Len(Effects(u))
        BY DEF EffectCount
      <4> QED BY <4>1, <4>2, <4>3
    <3> QED BY <1>1, <2>0, <3>2, <3>3, <3>4, <3>5 DEF Effect
  <2>4. CASE s \in Completions(st)
    <3>1. PICK u \in Selected : s = Completion(st, u)
      BY <2>4 DEF Completions
    <3>2. u \in Unit /\ EffectCount(st, u) + 1 \in Nat
      BY <1>3, SelectedUnits
    <3> QED BY <1>1, <2>0, <3>1, <3>2 DEF Completion
  <2> QED BY <2>1, <2>2, <2>3, <2>4 DEF Steps
<1>4. CASE st = "sources"
  BY <1>1, <1>2, <1>4 DEF FrozenInv, StepsOf, Direction
<1>5. CASE st = "reclaim"
  BY <1>1, <1>2, <1>5 DEF FrozenInv, StepsOf, Direction, Scope
<1>6. CASE st = "commit"
  BY <1>1, <1>2, <1>6 DEF FrozenInv, StepsOf, Direction, Scope
<1>7. CASE st = "done"
  BY <1>7 DEF FrozenInv, StepsOf, Direction
<1> QED BY <1>3, <1>4, <1>5, <1>6, <1>7, StageNames DEF Direction, EarlyStages, LateStages

TypeInv == plan \in Plan /\ stopped \in BOOLEAN /\ acknowledged \subseteq Selected

LEMMA InitTypeInv == Init => TypeInv
  BY DEF Init, TypeInv

LEMMA NextTypeInv == IInv /\ RunInv /\ TypeInv /\ [Next]_vars => TypeInv'
<1> SUFFICES ASSUME IInv, RunInv, TypeInv, [Next]_vars PROVE TypeInv'
  OBVIOUS
<1>1. plan' = plan /\ Selected' = Selected
  BY DEF Next, Work, TakeSnapshot, Succeed, Fail, FinalizeSnapshot, NextStage, Kill, vars, Selected
<1>2. stopped' \in BOOLEAN
  BY DEF TypeInv, Next, Work, TakeSnapshot, Succeed, Fail, FinalizeSnapshot, NextStage, Kill, vars
<1>3. ASSUME NEW s \in NextSteps, Acknowledge(s) PROVE acknowledged' \subseteq Selected
  <2>1. CASE s.kind = "complete"
    <3>1. s.stage = stage /\ s \in frozen[stage] /\ stage \in Direction
      BY <2>1, StagesFollow DEF IInv, ShapeInv
    <3>2. PICK u \in Selected : s = Completion(stage, u)
      BY <2>1, <3>1, FrozenSteps, UnitSteps DEF RunInv, IsHook, IsEffect
    <3>3. s.at = u
      BY <3>1, <3>2, UnitSteps DEF RunInv
    <3> QED BY <1>3, <3>3 DEF Acknowledge, TypeInv
  <2>2. CASE s.kind # "complete"
    BY <1>3, <2>2 DEF Acknowledge, TypeInv
  <2> QED BY <2>1, <2>2
<1>4. acknowledged' \subseteq Selected
  <2>1. CASE acknowledged' = acknowledged
    BY <2>1 DEF TypeInv
  <2>2. CASE \E s \in NextSteps : Acknowledge(s)
    BY <1>3, <2>2
  <2> QED BY <2>1, <2>2 DEF Next, Work, TakeSnapshot, Succeed, Fail, CutShort, FinalizeSnapshot,
                            NextStage, Kill, vars
<1> QED BY <1>1, <1>2, <1>4 DEF TypeInv

LEMMA TypesHold == IInv /\ RunInv /\ TypeInv => TypeOK
<1> SUFFICES ASSUME IInv, RunInv, TypeInv PROVE TypeOK
  OBVIOUS
<1>1. frozen \in [StageName -> SUBSET StepType]
  BY FrozenType DEF RunInv
<1>2. stage \in StageName \cup {"killed"} /\ todo \subseteq (IF stage \in StageName THEN frozen[stage] ELSE {})
  BY DEF IInv, ConductInv
<1>3. performed \cup failures \subseteq UNION {frozen[st] : st \in StageName}
  BY DEF IInv, SnapshotInv, RunInv, OutcomeInv
<1>4. (performed \cup failures) \cap todo = {}
  <2>1. CASE stage = "killed"
    <3>1. "killed" \notin StageName
      BY StageNames DEF EarlyStages, LateStages
    <3> QED BY <1>2, <2>1, <3>1
  <2>2. CASE stage # "killed"
    BY <2>2 DEF RunInv, OutcomeInv
  <2> QED BY <2>1, <2>2
<1>5. succeeded \subseteq performed \ failures
  BY DEF RunInv, OutcomeInv
<1> QED BY <1>1, <1>2, <1>3, <1>4, <1>5 DEF TypeOK, TypeInv, IInv, SnapshotInv

\* Every variable keeps its type, for every tree of scopes and every plan (the frozen
\* steps of a stage are the only ones taken, each at most once).
THEOREM TypeCorrect == Spec => []TypeOK
<1>1. Init => IInv /\ RunInv /\ TypeInv
  BY InitIInv, InitRunInv, InitTypeInv
<1>2. (IInv /\ RunInv /\ TypeInv) /\ [Next]_vars => (IInv /\ RunInv /\ TypeInv)'
  BY NextIInv, NextRunInv, NextTypeInv
<1> QED BY <1>1, <1>2, TypesHold, PTL DEF Spec
=============================================================================
