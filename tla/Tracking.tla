-------------------------------- MODULE Tracking --------------------------------
(***************************************************************************)
(* The tracked packages files: track asks about what it replaces and over- *)
(* rides before it writes (track_resolution.py), untrack finds persisted   *)
(* rows whether or not they still resolve (untrack_resolution.py), and     *)
(* both check the graph that they leave (tracking.py).  Between commands   *)
(* the user edits the configuration and the manifests.                     *)
(***************************************************************************)
EXTENDS PackageGraph

CONSTANTS Configs, Queries  \* the configurations a user moves between, by name; the rows one asks for

VARIABLES
  config,  \* the configuration on disk, which commands load
  files,   \* state key -> the rows of its tracked packages file
  ask      \* the track command at work: [step, row, talks, unattended, shown]

vars == <<config, files, ask>>

Now == Configs[config]

Idle == [step |-> "idle"]

-----------------------------------------------------------------------------
(* Rows and the files that hold them                                       *)

Before(r, s) ==
  LET key(row) == <<Rank[row.repo], Rank[row.pkg], Rank[row.profile]>>
  IN \E i \in 1..3 : key(r)[i] < key(s)[i] /\ \A j \in 1..(i - 1) : key(r)[j] = key(s)[j]
Sorted(rows) == SetToSortSeq(rows, Before)

Expandable(c, row) ==
  /\ row.profile \in c.profiles
  /\ Named(c, row.pkg)
  /\ row.pkg \in DOMAIN c.groups => ExpandGroup(c, row.pkg, {}) # Failed
Expand(c, row) ==
  IF row.pkg \in DOMAIN c.packages THEN {row}
  ELSE {Row(row.repo, n, row.profile) : n \in ExpandGroup(c, row.pkg, {})}

\* rows of one scope replace each other
Scope(c, row) ==
  <<row.repo, row.pkg,
    IF row.pkg \in DOMAIN c.packages THEN Bound(c, row.pkg, row.profile) ELSE None>>
Normalize(c, rows, additions) ==
  {r \in rows : \A a \in additions : Scope(c, r) # Scope(c, a)} \cup additions

\* what a command sees of a file: rows that no longer expand are passed over
Effective(c, rows) ==
  FoldLeft(LAMBDA seen, r : IF Expandable(c, r) THEN Normalize(c, seen, Expand(c, r)) ELSE seen,
           {}, Sorted(rows))

\* the files of the configured repositories, by repository
Raw(cfg, fs) == [r \in Configured(cfg) |-> fs[cfg.at[r].key]]
EffectiveRows(cfg, raw) == [r \in Configured(cfg) |-> Sorted(Effective(Content(cfg, r), raw[r]))]

\* a persisted row is invalid when its package or a dependency is gone
Resolves(c, row) == row.pkg \in DOMAIN c.packages /\ ResolvePackageIds(c, row.pkg) # Failed
AllResolve(cfg, raw) == \A r \in Configured(cfg) : \A row \in raw[r] : Resolves(Content(cfg, r), row)

\* the graph of the rows, or why there is none
Graph(cfg, raw) == Selections(cfg, EffectiveRows(cfg, raw))
FirstConflict(cfg, sels) ==
  IF Contested(cfg, sels, "push") # {} THEN Contested(cfg, sels, "push") ELSE Contested(cfg, sels, "pull")

\* ownership is not validated while some row does not resolve
Verdict(cfg, raw) ==
  IF ~AllResolve(cfg, raw) THEN "ok"
  ELSE LET sels == Graph(cfg, raw)
       IN IF sels = Failed THEN "error" ELSE IF FirstConflict(cfg, sels) # {} THEN "conflict" ELSE "ok"

Future(cfg, fs, row) ==
  LET c == Content(cfg, row.repo)
  IN [Raw(cfg, fs) EXCEPT ![row.repo] = Normalize(c, Effective(c, @), Expand(c, row))]

-----------------------------------------------------------------------------
(* Track                                                                   *)

Init ==
  /\ config \in DOMAIN Configs
  /\ files = [k \in UNION {{cfg.at[r].key : r \in Configured(cfg)} : cfg \in Range(Configs)} |-> {}]
  /\ ask = Idle

\* a command loads the configuration once: an edit during it is as good as one after it
EditConfiguration ==
  /\ ask = Idle
  /\ config' \in DOMAIN Configs \ {config}
  /\ UNCHANGED <<files, ask>>

\* a request names a selector and a profile, or has them chosen among those that match
Requests == {q \in Queries : q.repo \in Configured(Now) /\ Expandable(Content(Now, q.repo), q)}
StartTrack ==
  /\ ask = Idle
  /\ \E row \in Requests, talks, unattended \in BOOLEAN :
       /\ ~(talks /\ unattended)
       /\ ask' = [step |-> "replace", row |-> row, talks |-> talks, unattended |-> unattended, shown |-> {}]
  /\ UNCHANGED <<config, files>>

Asks(step) == ask.step = step /\ UNCHANGED <<config, files>>
Goes(step) == ask' = [ask EXCEPT !.step = step]
Again(row) == ask' = IF Expandable(Content(Now, row.repo), row)
                     THEN [ask EXCEPT !.step = "replace", !.row = row] ELSE Idle
Ends == ask' = Idle
\* nothing to confirm, nobody to ask, or an answer
Confirms(rows, step) ==
  IF rows = {} \/ ask.unattended THEN Goes(step)
  ELSE \/ ask.talks /\ ask' = [ask EXCEPT !.step = step, !.shown = @ \cup rows]
       \/ Ends

Mine == Content(Now, ask.row.repo)
ReplacedByName ==                                                                 \* mutant
  {e \in Effective(Mine, Raw(Now, files)[ask.row.repo]) :
     Scope(Mine, e) = Scope(Mine, ask.row) /\ e.profile # ask.row.profile}
Replaced ==
  {e \in Effective(Mine, Raw(Now, files)[ask.row.repo]) :
     \E x \in Expand(Mine, ask.row) : Scope(Mine, e) = Scope(Mine, x) /\ e.profile # x.profile}
ConfirmReplacements == Asks("replace") /\ Confirms(Replaced, "validate")

\* a conflict of implicit packages is solved by tracking one of them instead
Promotes(conflict) ==
  /\ ask.talks /\ \A c \in conflict : ~c.selection.explicit
  /\ \E c \in conflict : Again([ask.row EXCEPT !.pkg = c.selection.id.pkg])
\* a user who keeps the request may take a profile that does not conflict
ChangesProfile(conflict) ==
  /\ ask.talks
  /\ (\E c \in conflict : c.selection.explicit) \/ Cardinality({c.selection.id.pkg : c \in conflict}) = 1
  /\ \E p \in Mine.profiles \ {ask.row.profile} :
       LET other == [ask.row EXCEPT !.profile = p]
       IN Verdict(Now, Future(Now, files, other)) = "ok" /\ Again(other)

Validate ==
  /\ Asks("validate")
  /\ LET future == Future(Now, files, ask.row)
         verdict == Verdict(Now, future)
     IN \/ verdict = "ok" /\ Goes("override")
        \/ verdict = "conflict" /\ \E conflict \in FirstConflict(Now, Graph(Now, future)) :
             Promotes(conflict) \/ ChangesProfile(conflict)
        \/ verdict # "ok" /\ Ends

\* implicit owners of a live path that a requested package takes, with another profile
Overridden(sels) ==
  LET claims == OwnClaims(Now, sels, "push")
      Requested(c) == c.selection.explicit
                      /\ Row(c.selection.id.repo, c.selection.id.pkg, c.selection.profile) \in Expand(Mine, ask.row)
  IN {c \in claims : \E w \in claims :
        /\ Requested(w) /\ w.path = c.path /\ w.selection.id # c.selection.id
        /\ ~c.selection.explicit /\ c.selection.profile # w.selection.profile}
RowOf(s) == Row(s.id.repo, s.id.pkg, s.profile)
ConfirmOverrides ==
  /\ Asks("override")
  /\ LET sels == Graph(Now, Future(Now, files, ask.row))
     IN IF sels = Failed THEN Ends ELSE Confirms({RowOf(c.selection) : c \in Overridden(sels)}, "record")

\* the file is read again and written without another validation
Record ==
  /\ ask.step = "record"
  /\ LET raw == Raw(Now, files)[ask.row.repo]
     IN files' = [files EXCEPT ![Now.at[ask.row.repo].key] =
                    Normalize(Mine, Effective(Mine, raw), Expand(Mine, ask.row))]
  /\ Ends /\ UNCHANGED config

-----------------------------------------------------------------------------
(* Untrack                                                                 *)

\* valid and invalid rows of configured repositories, and rows of state keys without one
Persisted == UNION {{[key |-> k, row |-> row] : row \in files[k]} : k \in DOMAIN files}
Owners(key) == {r \in Configured(Now) : Now.at[r].key = key}

Writes(key, rows) == files' = [files EXCEPT ![key] = rows] /\ UNCHANGED <<config, ask>>
Unchecked(r, rows) == Writes(Now.at[r].key, rows)                                 \* mutant
\* what is left must be a graph with one owner per path
Leaves(r, rows) ==
  /\ Verdict(Now, [Raw(Now, files) EXCEPT ![r] = rows]) = "ok"
  /\ Writes(Now.at[r].key, rows)

\* an exact row, chosen if need be, is found again by its text: two with one text are ambiguous
ExactEntries(row) == {rec \in Persisted : rec.row = row}
Unambiguous(row) == Cardinality(ExactEntries(row)) = 1
RemoveEntry(rec) ==
  \/ Owners(rec.key) = {} /\ Writes(rec.key, files[rec.key] \ {rec.row})
  \/ \E r \in Owners(rec.key) :
       LET c == Content(Now, r)
           kept == IF Resolves(c, rec.row) THEN Effective(c, files[rec.key]) ELSE files[rec.key]
       IN Leaves(r, kept \ {rec.row})
UntrackEntry ==
  /\ ask = Idle
  /\ \E rec \in Persisted : Unambiguous(rec.row) /\ RemoveEntry(rec)

\* an entry of the name comes before a group
IsGroup(r, g) ==
  ExpandGroup(Content(Now, r), g, {}) # Failed /\ \A rec \in Persisted : rec.row.repo = r => rec.row.pkg # g
\* the tracked members: of one profile, or of all when no package has two
Removals(c, members) ==
  {{e \in members : e.profile = p} : p \in c.profiles}
  \cup (IF \E d, e \in members : d.pkg = e.pkg /\ d # e THEN {} ELSE {members})
UntrackGroup ==
  /\ ask = Idle
  /\ \E r \in Configured(Now) :
       LET c == Content(Now, r)
           rows == Effective(c, files[Now.at[r].key])
       IN \E g \in {h \in DOMAIN c.groups : IsGroup(r, h)} :
            \E gone \in Removals(c, {e \in rows : e.repo = r /\ e.pkg \in ExpandGroup(c, g, {})}) :
              gone # {} /\ Leaves(r, rows \ gone)

Next ==
  \/ EditConfiguration
  \/ StartTrack \/ ConfirmReplacements \/ Validate \/ ConfirmOverrides \/ Record
  \/ UntrackEntry \/ UntrackGroup

Spec == Init /\ [][Next]_vars

-----------------------------------------------------------------------------
(* Properties                                                              *)

\* packages and groups behind a name: the least set closed under what each needs
Reachable(c, name) ==
  LET names == DOMAIN c.packages \cup DOMAIN c.groups
      closed == {S \in SUBSET names : name \in S /\ \A n \in S : Range(Needs(c, n)) \cap names \subseteq S}
  IN {n \in names : \A S \in closed : n \in S}
Readable(cfg, fs) ==
  \A r \in Configured(cfg) : \A row \in Raw(cfg, fs)[r] :
    LET c == Content(cfg, r)
    IN /\ row.repo = r /\ row.profile \in c.profiles /\ row.pkg \in DOMAIN c.packages
       /\ \A other \in Raw(cfg, fs)[r] : Scope(c, other) = Scope(c, row) => other = row
       /\ \A n \in Reachable(c, row.pkg) : \A need \in Range(Needs(c, n)) : Named(c, need)

\* every use that the rows make of a package
Uses(cfg, fs) ==
  UNION {UNION {{[id |-> Identity(cfg, r, n, row.profile), profile |-> row.profile, explicit |-> n = row.pkg] :
                   n \in Reachable(Content(cfg, r), row.pkg) \cap DOMAIN Content(cfg, r).packages} :
                row \in Raw(cfg, fs)[r]} : r \in Configured(cfg)}
OneOwner(cfg, fs) ==
  LET uses == Uses(cfg, fs)
      IsExplicit(id) == \E u \in uses : u.id = id /\ u.explicit
      held == {u \in uses : u.explicit \/ ~IsExplicit(u.id)}
      PathsOf(u, op) ==
        {<<t.name, IF op = "push" THEN t.live[u.profile] ELSE t.source[u.profile]>> :
           t \in {t \in Content(cfg, u.id.repo).packages[u.id.pkg].targets : ~t.probe}}
      Claimants(op, path) == {u \in held : \E x \in PathsOf(u, op) : x[2] = path}
      first(op, path) == {u.id : u \in {v \in Claimants(op, path) : IsExplicit(v.id)}}
  IN /\ \A u, v \in held : u.id = v.id => u.profile = v.profile
     /\ \A op \in {"push", "pull"} : \A path \in {x[2] : x \in UNION {PathsOf(u, op) : u \in held}} :
          \/ Cardinality(first(op, path)) = 1
          \/ first(op, path) = {} /\ Cardinality({u.id : u \in Claimants(op, path)}) = 1

\* Whatever was asked, promoted or moved to another profile on the way, a command
\* leaves rows that give each package one profile and each live and repository
\* path one owner, unless some row does not resolve or a package
\* lost its instances (validate_tracked_package_ownership).
LeavesOneOwner ==
  Raw(Now, files') # Raw(Now, files) /\ Readable(Now, files') => OneOwner(Now, files')

\* Track takes no row's place, and no live path from another package under another
\* profile, that it did not show in a question the user agreed to (or that an
\* unattended run may take); TrackResolver.resolve goes round until that is so.
Lost(cfg, r) == Effective(Content(cfg, r), files[cfg.at[r].key]) \ files'[cfg.at[r].key]
OwnersOf(cfg, fs) ==
  LET sels == Graph(cfg, Raw(cfg, fs))
  IN IF sels = Failed THEN Failed ELSE TargetWinners(cfg, sels, "push")
Disowned(cfg) ==
  LET old == OwnersOf(cfg, files)
      new == OwnersOf(cfg, files')
  IN IF Failed \in {old, new} THEN {}
     ELSE {RowOf(d.selection) : d \in {c \in old :
             /\ \E s \in Range(Graph(cfg, Raw(cfg, files'))) : Key(s) = Key(c.selection) 
             /\ \E w \in new : w.path = c.path /\ w.selection.id # c.selection.id
                               /\ w.selection.profile # c.selection.profile}}
Approved ==
  ask.step = "record" => ask.unattended \/ Lost(Now, ask.row.repo) \cup Disowned(Now) \subseteq ask.shown
=============================================================================
