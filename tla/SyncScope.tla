------------------------------- MODULE SyncScope -------------------------------
(***************************************************************************)
(* What a command of the Deck or a list of tracked packages is about: the  *)
(* targets behind a selector, taken from the graph of all tracked rows     *)
(* (resolve_sync_scope), and the list of that graph (list_tracked_state).  *)
(* An input is [id, target]: a tracked package, or one of its targets.     *)
(***************************************************************************)
EXTENDS Tracking

Tracked == Graph(Now, Raw(Now, files))

-----------------------------------------------------------------------------
(* The closure of a package                                                *)

Input(id, target) == [id |-> id, target |-> target]
MatchingSelection(sels, id) ==
  LET found == {s \in Range(sels) : s.id = id}
  IN IF Cardinality(found) = 1 THEN CHOOSE s \in found : TRUE ELSE Failed

AnyProvider(sels, s, pkg) ==                                                      \* mutant
  {t \in Range(sels) : t.id.repo = s.id.repo /\ t.id.pkg = pkg}
\* the selection of a needed package: the one it pulled in, one of its profile, or any
Provider(sels, s, pkg) ==
  LET all == SelectSeq(sels, LAMBDA t : t.id.repo = s.id.repo /\ t.id.pkg = pkg)
      owned == SelectSeq(all, LAMBDA t : t.owner = s.id)
      alike == SelectSeq(all, LAMBDA t : t.profile = s.profile \/ t.id.bound = s.id.bound)
      choices == IF owned # <<>> THEN owned ELSE IF alike # <<>> THEN alike ELSE all
  IN IF choices = <<>> THEN {} ELSE {Head(choices)}
Providers(sels, s) ==
  UNION {Provider(sels, s, n) : n \in Range(ResolvePackageIds(Content(Now, s.id.repo), s.id.pkg)) \ {s.id.pkg}}

RECURSIVE Grow(_, _)
Grow(sels, found) ==
  LET more == found \cup UNION {Providers(sels, s) : s \in found}
  IN IF more = found THEN found ELSE Grow(sels, more)
ScopeClosure(sels, root) == SelectSeq(sels, LAMBDA s : s \in Grow(sels, {root}))

-----------------------------------------------------------------------------
(* Targets in scope                                                        *)

\* ownership, nesting and reservations are checked for the whole graph
Winners(sels, op) == TargetWinners(Now, sels, op)
InRepository(claims) == {[c EXCEPT !.path = c.target.source[c.selection.profile]] : c \in claims}
GraphAllowed(sels) ==
  /\ \A op \in {"push", "pull"} : Winners(sels, op) # Failed /\ NestingAllowed(Winners(sels, op))
  /\ ReservedRespected(Now, sels, Winners(sels, "push"))
  /\ NestingAllowed(InRepository(Winners(sels, "push") \cup Winners(sels, "pull")))

TargetKey(s, t) == [id |-> s.id, target |-> t.name]
\* a target is in if it owns its path in one direction or claims none
Owning(sels) ==
  {TargetKey(c.selection, c.target) : c \in Winners(sels, "push") \cup Winners(sels, "pull")}
  \cup UNION {{TargetKey(s, t) : t \in {u \in Package(Now, s).targets : u.probe}} : s \in Range(sels)}
TargetsOf(sels, some, onDemand) ==
  UNION {{TargetKey(s, t) : t \in {u \in Package(Now, s).targets :
            TargetKey(s, u) \in Owning(sels) /\ (onDemand \/ ~u.onDemand)}} : s \in Range(some)}

\* no input asks for everything; a target is asked for by its exact name
Nothing == [targets |-> {}, via |-> {}]
ScopeOf(sels, input, onDemand) ==
  LET root == MatchingSelection(sels, input.id)
      closure == ScopeClosure(sels, root)
  IN IF root = Failed THEN Failed
     ELSE IF input.target = None
     THEN [targets |-> TargetsOf(sels, closure, onDemand),
           via |-> {<<s.id, root.id>> : s \in {t \in Range(closure) : t.id # root.id}}]
     ELSE IF input \in Owning(sels) THEN [targets |-> {input}, via |-> {}] ELSE Failed
ResolveSyncScope(inputs, onDemand) ==
  LET sels == Tracked
      parts == {ScopeOf(sels, i, onDemand) : i \in inputs}
  IN IF sels = Failed THEN Failed
     ELSE IF ~GraphAllowed(sels) \/ Failed \in parts THEN Failed
     ELSE IF inputs = {} THEN [targets |-> TargetsOf(sels, sels, onDemand), via |-> {}]
     ELSE [targets |-> UNION {p.targets : p \in parts},
           via |-> {v \in UNION {p.via : p \in parts} : \A i \in inputs : i.id # v[1]}]

-----------------------------------------------------------------------------
(* The list of tracked packages                                            *)

\* a row is listed with what it pulls in if its package and dependencies exist
Listed ==
  UNION {UNION {{[id |-> Identity(Now, r, n, row.profile), explicit |-> n = row.pkg] :
                   n \in Range(ResolvePackageIds(Content(Now, r), row.pkg))} :
           row \in {w \in Raw(Now, files)[r] : Resolves(Content(Now, r), w)}} : r \in Configured(Now)}
ListTrackedPackages == {e \in Listed : ~e.explicit => [e EXCEPT !.explicit = TRUE] \notin Listed}
\* the targets that own their live path, and the probes (list_tracked_targets)
ListTrackedTargets(sels) == {TargetKey(c.selection, c.target) : c \in Winners(sels, "push")}
ListTrackedProbes(sels) ==
  UNION {{TargetKey(s, t) : t \in {u \in Package(Now, s).targets : u.probe}} : s \in Range(sels)}
\* info tracked asks for the rows of one repository alone
OwnedTargets(id) ==
  LET alone == [r \in Configured(Now) |-> IF r = id.repo THEN Raw(Now, files)[r] ELSE {}]
      sels == Graph(Now, alone)
  IN {TargetKey(c.selection, c.target) : c \in {w \in Winners(sels, "push") : w.selection.id = id}}

-----------------------------------------------------------------------------
(* Properties                                                              *)

AllExpand ==
  \A r \in Configured(Now) : \A row, other \in Raw(Now, files)[r] :
    LET c == Content(Now, r)
    IN Expandable(c, row) /\ (row # other => Scope(c, row) # Scope(c, other))

\* The scope of a tracked package holds what each member of it needs and nothing
\* that its root does not need; an instance comes in only under the profile of a
\* member that needs it; a target is never in a package's scope unless it is in
\* everybody's, and every tracked target is in the scope of some tracked row
\* (_scope_closure, whose packages come from the resolved graph).
ClosedUnder(sels, root) ==
  LET closure == Range(ScopeClosure(sels, root))
      NeedsOf(s) == (Reachable(Content(Now, s.id.repo), s.id.pkg) \ {s.id.pkg})
                    \cap DOMAIN Content(Now, s.id.repo).packages
  IN /\ root \in closure
     /\ \A s \in closure : \A n \in NeedsOf(s) : \E t \in closure : t.id.pkg = n /\ t.id.repo = s.id.repo
     /\ \A t \in closure \ {root} :
          \E s \in closure \ {t} : t.id.pkg \in NeedsOf(s) /\ t.id.bound \in {None, s.profile}
ScopesAreClosed ==
  ask = Idle /\ Tracked # Failed =>
    LET sels == Tracked
        explicit == {s \in Range(sels) : s.explicit}
        everything == ResolveSyncScope({}, FALSE)
    IN /\ \A s \in Range(sels) : ClosedUnder(sels, s)
       /\ everything # Failed =>
            everything.targets = UNION {ResolveSyncScope({Input(s.id, None)}, FALSE).targets : s \in explicit}

\* The packages and the state that list tracked shows are those that Sync resolves,
\* when every row expands (list_tracked_packages does not go through the graph), and
\* the targets shown, for all packages or for one, are those that Sync works on.
ListIsTrue ==
  ask = Idle /\ AllExpand /\ Tracked # Failed =>
    LET all == ResolveSyncScope({}, TRUE)
    IN /\ ListTrackedPackages = {[id |-> s.id, explicit |-> s.explicit] : s \in Range(Tracked)}
       /\ all # Failed =>
            /\ ListTrackedTargets(Tracked) \cup ListTrackedProbes(Tracked) \subseteq all.targets
            /\ \A e \in ListTrackedPackages : OwnedTargets(e.id) = {k \in ListTrackedTargets(Tracked) : k.id = e.id}

\* "Post-order keeps operation plans and execution dependency-first."
\* (package_resolution.py); docs/sync.md promises dependency-first plans.
DependenciesFirst ==
  LET sels == Tracked
  IN ask = Idle /\ sels # Failed =>
       \A i, j \in DOMAIN sels :
         LET c == Content(Now, sels[i].id.repo)
         IN /\ sels[i].id.repo = sels[j].id.repo
            /\ sels[i].id.bound \in {None, sels[j].profile}
            /\ sels[i].id.pkg \in Reachable(c, sels[j].id.pkg) 
            /\ sels[j].id.pkg \notin Reachable(c, sels[i].id.pkg)
            => i < j
=============================================================================
