------------------------------ MODULE PackageGraph ------------------------------
(***************************************************************************)
(* What tracked rows select: the packages behind a selector, dependencies  *)
(* first (package_resolution.py), the profile that each of them gets       *)
(* (planning.py), and the package that owns a path (collisions.py).        *)
(*                                                                         *)
(* A configuration is [order, at]: the names of the repositories in order, *)
(* and the state key and the content of each.  A content has packages,     *)
(* groups and profiles; a package is [depends, multi, targets, reserved].  *)
(* A target is [name, source, live, onDemand, ignores, probe] with paths   *)
(* that may depend on the profile.  Templates, variables and the           *)
(* inheritance of packages are left out.                                   *)
(***************************************************************************)
EXTENDS Integers, Sequences, FiniteSets, SequencesExt

CONSTANTS
  Rank,    \* the order of package and profile names
  None, Failed

Content(config, repo) == config.at[repo].content
Configured(config) == Range(config.order)
Row(repo, pkg, profile) == [repo |-> repo, pkg |-> pkg, profile |-> profile]

-----------------------------------------------------------------------------
(* Packages behind a selector                                              *)

Named(c, name) == (name \in DOMAIN c.packages) # (name \in DOMAIN c.groups)
Needs(c, name) == IF name \in DOMAIN c.packages THEN c.packages[name].depends ELSE c.groups[name]

RECURSIVE Visit(_, _, _, _)

\* a dependency that is being visited closes a cycle and is passed over
Visit(c, name, stack, seen) ==
  IF ~seen.ok THEN seen
  ELSE IF ~Named(c, name) THEN [seen EXCEPT !.ok = FALSE]
  ELSE IF name \in stack \cup seen.done THEN seen
  ELSE LET inner == FoldLeft(LAMBDA s, n : Visit(c, n, stack \cup {name}, s), seen, Needs(c, name))
       IN [inner EXCEPT !.done = @ \cup {name},
             !.order = IF name \in DOMAIN c.packages THEN Append(@, name) ELSE @]

ResolvePackageIds(c, pkg) ==
  LET seen == Visit(c, pkg, {}, [ok |-> TRUE, done |-> {}, order |-> <<>>])
  IN IF seen.ok THEN seen.order ELSE Failed

\* the members of a group and of its groups; a cycle of groups is an error
RECURSIVE ExpandGroup(_, _, _)
ExpandGroup(c, group, stack) ==
  IF group \in stack \/ \E n \in Range(c.groups[group]) : ~Named(c, n) THEN Failed
  ELSE FoldLeft(LAMBDA found, n :
         IF found = Failed THEN Failed
         ELSE IF n \in DOMAIN c.packages THEN found \cup {n}
         ELSE LET inner == ExpandGroup(c, n, stack \cup {group})
              IN IF inner = Failed THEN Failed ELSE found \cup inner,
         {}, c.groups[group])

-----------------------------------------------------------------------------
(* Selections and the profiles of packages                                 *)

Bound(c, pkg, profile) == IF c.packages[pkg].multi THEN profile ELSE None
Identity(config, repo, pkg, profile) ==
  [repo |-> repo, pkg |-> pkg, bound |-> Bound(Content(config, repo), pkg, profile)]
Key(s) == <<s.id, s.profile>>

\* one selection per identity and profile, the explicit one if there is one
Merge(list, s) ==
  LET at == {i \in DOMAIN list : Key(list[i]) = Key(s)}
  IN IF at = {} THEN Append(list, s)
     ELSE [i \in DOMAIN list |-> IF i \in at /\ s.explicit /\ ~list[i].explicit THEN s ELSE list[i]]

Selection(config, row, pkg) ==
  [id |-> Identity(config, row.repo, pkg, row.profile), profile |-> row.profile, explicit |-> pkg = row.pkg,
   owner |-> IF pkg = row.pkg THEN None ELSE Identity(config, row.repo, row.pkg, row.profile)]

\* a row of a repository that is not configured stops every command
FromRow(config, row) ==
  IF row.repo \notin Configured(config) THEN Failed
  ELSE IF row.pkg \notin DOMAIN Content(config, row.repo).packages THEN Failed
  ELSE LET ids == ResolvePackageIds(Content(config, row.repo), row.pkg)
       IN IF ids = Failed THEN Failed ELSE [i \in DOMAIN ids |-> Selection(config, row, ids[i])]

\* an explicit profile beats implicit ones; otherwise profiles must agree
Profiles(sels, id) == {s.profile : s \in {t \in Range(sels) : t.id = id}}
ExplicitProfiles(sels, id) == {s.profile : s \in {t \in Range(sels) : t.id = id /\ t.explicit}}
Winning(sels, id) ==
  IF Cardinality(Profiles(sels, id)) = 1 THEN Profiles(sels, id) ELSE ExplicitProfiles(sels, id)
ResolveProfileClaims(sels) ==
  IF \E s \in Range(sels) : Cardinality(Winning(sels, s.id)) # 1 THEN Failed
  ELSE FoldLeft(Merge, <<>>, SelectSeq(sels, LAMBDA s : s.profile \in Winning(sels, s.id)))

\* the rows of a list in the order of the configured repositories
Selections(config, rows) ==
  LET all == FlattenSeq([i \in DOMAIN config.order |-> rows[config.order[i]]])
      parts == [i \in DOMAIN all |-> FromRow(config, all[i])]
  IN IF Failed \in Range(parts) THEN Failed ELSE ResolveProfileClaims(FlattenSeq(parts))

-----------------------------------------------------------------------------
(* Owners of paths                                                         *)

Package(config, s) == Content(config, s.id.repo).packages[s.id.pkg]
Claim(config, s, t, operation) ==
  [selection |-> s, target |-> t,
   path |-> IF operation = "push" THEN t.live[s.profile] ELSE t.source[s.profile]]
OwnClaims(config, sels, operation) ==
  UNION {{Claim(config, s, t, operation) : t \in {u \in Package(config, s).targets : ~u.probe}} : s \in Range(sels)}

\* explicit packages come before implicit ones
Contenders(claims, path) ==
  LET here == {c \in claims : c.path = path}
      explicit == {c \in here : c.selection.explicit}
  IN IF explicit # {} THEN explicit ELSE here

\* the targets that own their path; two contenders are a conflict
Contested(config, sels, operation) ==
  LET claims == OwnClaims(config, sels, operation)
  IN {here \in {Contenders(claims, p) : p \in {c.path : c \in claims}} : Cardinality(here) > 1}
TargetWinners(config, sels, operation) ==
  LET claims == OwnClaims(config, sels, operation)
  IN IF Contested(config, sels, operation) # {} THEN Failed
     ELSE UNION {Contenders(claims, p) : p \in {c.path : c \in claims}}

\* paths of packages contain one another
Inside(p, q) == Len(p) < Len(q) /\ SubSeq(q, 1, Len(p)) = p
Conflicting(p, q) == p = q \/ Inside(p, q) \/ Inside(q, p)

\* a path may lie in a target's that ignores it
NestingAllowed(claims) ==
  \A c, d \in claims : c # d =>
    /\ c.path # d.path
    /\ Inside(c.path, d.path) => SubSeq(d.path, Len(c.path) + 1, Len(d.path)) \in c.target.ignores

\* other packages stay out of the paths that a package reserves
ReservedRespected(config, sels, winners) ==
  \A r \in Configured(config) :
    LET mine == {s \in Range(sels) : s.id.repo = r}
        Reserved(s) == {f[s.profile] : f \in Package(config, s).reserved}
    IN \A s \in mine :
         /\ \A c \in winners : c.selection.id.repo = r /\ c.selection.id.pkg # s.id.pkg =>
              \A p \in Reserved(s) : ~Conflicting(p, c.path)
         /\ \A u \in mine : u.id.pkg # s.id.pkg =>
              \A p \in Reserved(s), q \in Reserved(u) : ~Conflicting(p, q)
=============================================================================
