---------------------------- MODULE PlanningGuards ----------------------------
(***************************************************************************)
(* Which directions the Guards leave to the scopes of an opening           *)
(* (planning_guards.py, and its use in sync_observation.py): repositories, *)
(* then packages, then targets, in each direction, then the path rules of  *)
(* a directory target.  A scope is the tuple of its repository, package,   *)
(* target and rule; a Guard is a pair of a direction and a scope.          *)
(***************************************************************************)
EXTENDS Naturals, Sequences, SequencesExt

CONSTANTS
  Names,      \* of repositories, packages and targets
  Items,      \* the packages in planning order, once for every selection of them
  Work,       \* the targets in planning order, likewise
  Offered,    \* the targets that the configured policies offer to each direction
  Directory,  \* the target whose children have rules
  Children,   \* Children[d]: the children whose policy allows the direction
  Rules,      \* the children that each rule matches, in order
  Guarded,    \* the possible sets of Guards
  Noop        \* the possible hooks that run without work: pairs of a direction and a scope

Order == <<"push", "pull">>
Ways == {"push", "pull"}

GuardsAssumption ==
  /\ Items \in Seq(Seq(Names)) /\ \A i \in DOMAIN Items : Len(Items[i]) = 2
  /\ Work \in Seq(Seq(Names)) /\ \A i \in DOMAIN Work : Len(Work[i]) = 3 /\ SubSeq(Work[i], 1, 2) \in ToSet(Items)
  /\ Offered \in [Ways -> SUBSET ToSet(Work)] /\ Directory \in ToSet(Work)
  /\ Children \in [Ways -> SUBSET (Children["push"] \cup Children["pull"])]
  /\ Rules \in Seq(SUBSET (Children["push"] \cup Children["pull"]))

VARIABLES
  guarded,  \* the Guards of the configuration
  noop,     \* its hooks that run without work
  at,       \* "guards", "rules", "ready" or "failed"
  level,    \* the length of the scopes being evaluated
  way,      \* the index of the direction
  left,     \* the scopes that the evaluation has still to look at
  decided,  \* those it has asked
  held,     \* held[d]: the packages and targets that have survived
  scopes,   \* hook_scopes
  kept,     \* kept[d]: the children that have survived
  skips,    \* the Guards that skipped
  ran       \* the Guards run, in order

vars == <<guarded, noop, at, level, way, left, decided, held, scopes, kept, skips, ran>>

TypeOK ==
  /\ at \in {"guards", "rules", "ready", "failed"} /\ level \in 1..4 /\ way \in 1..2
  /\ held \in [Ways -> SUBSET (ToSet(Items) \cup ToSet(Work))]
  /\ kept \in [Ways -> SUBSET (Children["push"] \cup Children["pull"])]
  /\ skips \subseteq ToSet(ran) /\ ToSet(ran) \subseteq guarded

\* the scopes of a level, in planning order
Queue(l) ==
  CASE l = 4 -> [i \in DOMAIN Rules |-> Append(Directory, i)]
    [] l = 3 -> Work
    [] OTHER -> [i \in DOMAIN Items |-> SubSeq(Items[i], 1, l)]

Init ==
  /\ guarded \in Guarded /\ noop \in Noop
  /\ at = "guards" /\ level = 1 /\ way = 1 /\ decided = {}
  /\ held = [d \in Ways |-> ToSet(Items) \cup Offered[d]]
  /\ left = Queue(1)
  /\ scopes = [d \in Ways |-> {}] /\ kept = Children /\ skips = {} /\ ran = <<>>

-----------------------------------------------------------------------------

Targets(d) == {t \in held[d] : Len(t) = 3}
\* _package_has_potential_work, _repo_has_potential_work
OnlyTargets(d, s) == \E t \in Targets(d) : IsPrefix(s, t)                          \* mutant
Potential(d, s) ==
  \/ \E t \in Targets(d) : IsPrefix(s, t)
  \/ \E x \in noop : x[1] = d /\ (x[2] = s \/ (IsPrefix(s, x[2]) /\ x[2] \in held[d]))

Matches(d, i) == Rules[i] \cap kept[d] # {}
Asks(d, s) ==
  /\ <<d, s>> \in guarded /\ s \notin decided /\ (level \in {2, 3} => s \in held[d])
  /\ IF level = 4 THEN Matches(d, s[4]) ELSE Potential(d, s)

Looking == at \in {"guards", "rules"} /\ left # <<>>

\* no Guard, out by the levels above, nothing to do there, or asked before for another selection
Look ==
  /\ Looking /\ ~Asks(Order[way], Head(left))
  /\ left' = Tail(left)
  /\ UNCHANGED <<guarded, noop, at, level, way, decided, held, scopes, kept, skips, ran>>

Ask(s) ==
  /\ Looking /\ s = Head(left) /\ Asks(Order[way], s)
  /\ ran' = Append(ran, <<Order[way], s>>)

\* exit code 0 of every command
Admit(s) ==
  /\ Ask(s)
  /\ decided' = decided \cup {s} /\ left' = Tail(left)
  /\ UNCHANGED <<guarded, noop, at, level, way, held, scopes, kept, skips>>

\* exit code 100: everything at and below the scope is out in this direction
Skip(s) ==
  /\ Ask(s)
  /\ decided' = decided \cup {s} /\ left' = Tail(left)
  /\ skips' = skips \cup {<<Order[way], s>>}
  /\ IF level = 4
     THEN kept' = [kept EXCEPT ![Order[way]] = @ \ Rules[s[4]]] /\ UNCHANGED held
     ELSE held' = [held EXCEPT ![Order[way]] = {x \in @ : ~IsPrefix(s, x)}] /\ UNCHANGED kept
  /\ UNCHANGED <<guarded, noop, at, level, way, scopes>>

\* another exit code, an interruption or a command that cannot be run: no session opens
Fail(s) ==
  /\ Ask(s)
  /\ at' = "failed"
  /\ UNCHANGED <<guarded, noop, level, way, left, decided, held, scopes, kept, skips>>

\* what a later removal below does not take away
Retained(d) ==
  IF level = 3 THEN Targets(d) ELSE {SubSeq(p, 1, level) : p \in {x \in held[d] : Len(x) = 2}}

\* the end of an evaluation, and the start of the next
Evaluated ==
  /\ at \in {"guards", "rules"} /\ left = <<>>
  /\ decided' = {}
  /\ scopes' = IF level = 4 THEN scopes ELSE [scopes EXCEPT ![Order[way]] = @ \cup Retained(Order[way])]
  /\ way' = 3 - way
  /\ level' = IF way = 1 \/ level = 4 THEN level ELSE level + 1
  /\ at' = CASE way = 2 /\ level = 3 -> "rules" [] way = 2 /\ level = 4 -> "ready" [] OTHER -> at
  \* a target without a direction is not scanned, so that it has no children
  /\ kept' = IF way = 2 /\ level = 3
             THEN [d \in Ways |-> IF Directory \in held[d] THEN kept[d] ELSE {}]
             ELSE kept
  /\ left' = IF at' = "ready" THEN <<>> ELSE Queue(level')
  /\ UNCHANGED <<guarded, noop, held, skips, ran>>

Scopes ==
  (UNION {{SubSeq(x, 1, k) : k \in 1..Len(x)} : x \in ToSet(Items) \cup ToSet(Work)})
    \cup {Append(Directory, i) : i \in DOMAIN Rules}
Next ==
  \/ Look \/ Evaluated
  \/ \E s \in Scopes : Admit(s) \/ Skip(s) \/ Fail(s)
Spec == Init /\ [][Next]_vars

-----------------------------------------------------------------------------

Denied(d, s) == \E x \in skips : x[1] = d /\ IsPrefix(x[2], s)
Asked(d, s) == \A k \in 1..Len(s) : <<d, SubSeq(s, 1, k)>> \in guarded => <<d, SubSeq(s, 1, k)>> \in ToSet(ran)

\* No Guard runs twice in an opening, nor below a scope that has been skipped in its direction.
AskedOnce ==
  /\ IsInjective(ran)
  /\ \A i, j \in DOMAIN ran : i < j /\ ran[i] \in skips /\ ran[i][1] = ran[j][1] => ~IsPrefix(ran[i][2], ran[j][2])

\* A target is left to a direction exactly if its policy offers it, every Guard at and above it
\* has run, and none has skipped; so is a child, whose rules are asked while it remains.
AdmittedByAll(d) ==
  /\ \A t \in ToSet(Work) : t \in held[d] <=> t \in Offered[d] /\ ~Denied(d, t) /\ (~Denied(d, t) => Asked(d, t))
  /\ \A c \in Children[d] :
       c \in kept[d] <=>
         /\ Directory \in held[d]
         /\ \A i \in DOMAIN Rules :
              c \in Rules[i] /\ <<d, Append(Directory, i)>> \in guarded =>
                <<d, Append(Directory, i)>> \in ToSet(ran) \ skips

\* Hooks stay at a scope that no Guard at or above it has skipped, whatever was skipped below it;
\* and where a hook could run without work, or work is left, the Guards have been asked.
HooksByAncestors(d) ==
  /\ scopes[d] \subseteq {s \in Scopes : ~Denied(d, s)}
  /\ \A p \in ToSet(Items), k \in 1..2 : ~Denied(d, p) => SubSeq(p, 1, k) \in scopes[d]
  /\ \A s \in scopes[d] : <<d, s>> \in noop \/ (\E t \in held[d] : Len(t) = 3 /\ IsPrefix(s, t)) => Asked(d, s)

\* docs/architecture.md, Guards: they narrow what the policies offer and nothing else does.
GuardsDecide == AskedOnce /\ (at = "ready" => \A d \in Ways : AdmittedByAll(d) /\ HooksByAncestors(d))
=============================================================================
