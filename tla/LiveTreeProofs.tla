---------------------------- MODULE LiveTreeProofs ----------------------------
(***************************************************************************)
(* Theorems about the live tree: what a push records of it and a restore   *)
(* brings back (Snapshots), and what the census of a directory target has  *)
(* seen of it (SyncDirectory, for any tree of paths, any nodes in it and   *)
(* any patterns).  The two share no state.                                 *)
(***************************************************************************)
EXTENDS Snapshots, FiniteSetTheorems, WellFoundedInduction, TLAPS

CONSTANTS Root, Paths, Above, Marks, Controls, RepoKinds, LiveKinds, Settings  \* of a census
VARIABLES setting, repo, found, bases, session

Census == INSTANCE SyncDirectory WITH live <- found

-----------------------------------------------------------------------------
(* Snapshots: the invariant                                                 *)

Tree == [Path -> Node]
Entries == UNION {[S -> Node] : S \in SUBSET Path}
Statuses == {"prepared", "applied", "failed"}
Generation == [listed : BOOLEAN, whole : BOOLEAN, status : Statuses, entries : Entries]
PushType == [at : {"idle", "capturing", "captured", "publishing", "pruning"}, todo : SUBSET Path, failed : BOOLEAN]
Action == [do : {"delete", "mkdir", "write", "folder"}, path : Path]
RestoreType == [at : {"idle", "acting", "recording"}, of : Nat, record : Generation, actions : SUBSET Action]

\* What holds of a tree: nothing is below a file, and nothing has a mode where nothing is.
Rooted(L) ==
  /\ L \in Tree
  /\ \A p \in Path : L[p].kind = "absent" => L[p] = Nothing
  /\ \A p \in Path : L[p].kind # "absent" => \A q \in Ancestors[p] : L[q].kind = "dir"

\* And so of the part of one that a generation records.
Faithful(E) ==
  /\ E \in Entries
  /\ \A p \in DOMAIN E : E[p].kind = "absent" => E[p] = Nothing
  /\ \A p, q \in DOMAIN E : E[p].kind # "absent" /\ q \in Ancestors[p] => E[q].kind = "dir"

-----------------------------------------------------------------------------

LEMMA NodeFacts ==
  ASSUME SnapshotsAssumption
  PROVE  /\ Nothing \in Node /\ Dir(Default) \in Node
         /\ Nothing.kind = "absent" /\ \A x : Dir(x).kind = "dir" /\ Dir(x).data = x
         /\ \A n \in Node : n.kind \in {"absent", "file", "link", "dir"}
  BY DEF SnapshotsAssumption, Node, Nothing, Dir

LEMMA TreeFacts ==
  ASSUME SnapshotsAssumption, NEW p \in Path
  PROVE  /\ Ancestors[p] \subseteq Path /\ p \notin Ancestors[p]
         /\ \A q \in Ancestors[p] : Ancestors[q] \subseteq Ancestors[p] /\ p \notin Ancestors[q]
  BY DEF SnapshotsAssumption

\* What a write, a mkdir or a new mode does to the tree.
LEMMA PutAt ==
  ASSUME SnapshotsAssumption, NEW L, NEW p \in Path, NEW n, NEW q \in Path
  PROVE  /\ q = p => Put(L, p, n)[q] = n
         /\ q \in Ancestors[p] /\ L[q].kind = "absent" => Put(L, p, n)[q] = Dir(Default)
         /\ p \in Ancestors[q] /\ n.kind # "dir" => Put(L, p, n)[q] = Nothing
         /\ q # p /\ ~(q \in Ancestors[p] /\ L[q].kind = "absent") /\ ~(p \in Ancestors[q] /\ n.kind # "dir") => Put(L, p, n)[q] = L[q]
<1>1. p \notin Ancestors[p] /\ (q \in Ancestors[p] => p \notin Ancestors[q])
  BY TreeFacts
<1>2. CASE q = p
  BY <1>1, <1>2 DEF Put, Present
<1>3. CASE q \in Ancestors[p]
  BY <1>1, <1>3 DEF Put, Present
<1>4. CASE q # p /\ q \notin Ancestors[p]
  BY <1>1, <1>4 DEF Put, Present
<1> QED BY <1>2, <1>3, <1>4

LEMMA PutUnder ==
  ASSUME SnapshotsAssumption, NEW L, NEW p \in Path, NEW n, n.kind # "dir"
  PROVE  \A q \in Under(p) : Put(L, p, n)[q] = Nothing
BY PutAt DEF Under

\* Writing a node where the way is clear leaves a tree.
LEMMA PutRooted ==
  ASSUME SnapshotsAssumption, NEW L, Rooted(L), NEW p \in Path, NEW n \in Node, n.kind # "absent", Reachable(L, p)
  PROVE  Rooted(Put(L, p, n))
<1> DEFINE M == Put(L, p, n)
<1>1. M \in Tree
  <2>1. \A q \in Path : M[q] \in Node
    BY NodeFacts, PutAt DEF Rooted, Tree
  <2>2. M = [q \in Path |-> M[q]]
    BY DEF Put
  <2> HIDE DEF M
  <2> QED BY <2>1, <2>2 DEF Tree
<1>2. ASSUME NEW q \in Path, M[q].kind = "absent" PROVE M[q] = Nothing
  BY <1>2, NodeFacts, PutAt DEF Rooted
<1>3. ASSUME NEW q \in Path, M[q].kind # "absent", NEW r \in Ancestors[q] PROVE M[r].kind = "dir"
  <2>1. r \in Path /\ r # q /\ Ancestors[r] \subseteq Ancestors[q]
    BY TreeFacts
  <2>2. CASE q = p \/ q \in Ancestors[p]
    <3>1. r \in Ancestors[p] /\ L[r].kind \in {"absent", "dir"} /\ p \notin Ancestors[r] /\ r # p
      BY <2>1, <2>2, TreeFacts DEF Reachable
    <3> QED BY <2>1, <3>1, NodeFacts, PutAt
  <2>3. CASE q # p /\ q \notin Ancestors[p]
    <3>1. ~(p \in Ancestors[q] /\ n.kind # "dir") /\ L[q].kind # "absent"
      BY <1>3, <2>3, NodeFacts, PutAt
    <3>2. L[r].kind = "dir"
      BY <3>1 DEF Rooted
    <3>3. CASE r = p
      BY <2>1, <3>1, <3>3, PutAt
    <3>4. CASE r # p
      <4>1. ~(p \in Ancestors[r] /\ n.kind # "dir")
        BY <2>1, <3>1
      <4> QED BY <2>1, <3>2, <3>4, <4>1, PutAt
    <3> QED BY <3>3, <3>4
  <2> QED BY <2>2, <2>3
<1> QED BY <1>1, <1>2, <1>3 DEF Rooted

\* What a deletion takes: the path, and those directories above it that it leaves empty.
Emptied(L, p, prunable) ==
  {q \in Ancestors[p] \cap prunable :
     \A r \in Under(q) \ {p} : L[r].kind # "absent" => r \in Ancestors[p] \cap prunable}

LEMMA PruneAt ==
  ASSUME NEW L, NEW p \in Path, NEW prunable, NEW q \in Path
  PROVE  /\ q = p \/ q \in Emptied(L, p, prunable) => Prune(L, p, prunable)[q] = Nothing
         /\ q # p /\ q \notin Emptied(L, p, prunable) => Prune(L, p, prunable)[q] = L[q]
  BY DEF Prune, Present, Emptied

\* All that was below a directory that goes goes with it.
LEMMA EmptiedBelow ==
  ASSUME SnapshotsAssumption, NEW L, NEW p \in Path, NEW prunable,
         NEW q \in Emptied(L, p, prunable), NEW r \in Under(q), r # p, L[r].kind # "absent"
  PROVE  r \in Emptied(L, p, prunable)
<1>1. r \in Ancestors[p] \cap prunable /\ r \in Path /\ q \in Ancestors[r]
  BY DEF Emptied, Under
<1>2. ASSUME NEW t \in Under(r) PROVE t \in Under(q)
  BY <1>1, TreeFacts DEF Under
<1> QED BY <1>1, <1>2 DEF Emptied

LEMMA PruneRooted ==
  ASSUME SnapshotsAssumption, NEW L, Rooted(L), NEW p \in Path, NEW prunable, L[p].kind # "dir"
  PROVE  Rooted(Prune(L, p, prunable))
<1> DEFINE M == Prune(L, p, prunable)
<1>1. M \in Tree
  <2>1. \A q \in Path : M[q] \in Node
    BY NodeFacts, PruneAt DEF Rooted, Tree
  <2>2. M = [q \in Path |-> M[q]]
    BY DEF Prune
  <2> HIDE DEF M
  <2> QED BY <2>1, <2>2 DEF Tree
<1>2. ASSUME NEW q \in Path, M[q].kind = "absent" PROVE M[q] = Nothing
  BY <1>2, PruneAt DEF Rooted
<1>3. ASSUME NEW q \in Path, M[q].kind # "absent", NEW r \in Ancestors[q] PROVE M[r].kind = "dir"
  <2>1. q # p /\ q \notin Emptied(L, p, prunable) /\ L[q].kind # "absent"
    BY <1>3, NodeFacts, PruneAt
  <2>2. r \in Path /\ L[r].kind = "dir" /\ r # p
    BY <2>1, TreeFacts DEF Rooted
  <2>3. r \notin Emptied(L, p, prunable)
    <3>1. q \in Under(r)
      BY DEF Under
    <3> QED BY <2>1, <3>1, EmptiedBelow
  <2> QED BY <2>2, <2>3, PruneAt
<1> QED BY <1>1, <1>2, <1>3 DEF Rooted

-----------------------------------------------------------------------------
(* What holds of them                                                       *)

Was == restore.record.entries

TypeInv ==
  /\ Rooted(live)
  /\ gens \in Seq(Generation) /\ Top <= Pushes /\ \A g \in DOMAIN gens : Faithful(gens[g].entries)
  /\ push \in PushType
  /\ restore \in RestoreType
  /\ edits \in 0..Edits /\ alone \in BOOLEAN

\* The generation of a push that captures or publishes is the last one, and it is complete.
PushInv ==
  /\ push.at \in {"capturing", "captured"} =>
       Top > 0 /\ ~gens[Top].listed /\ gens[Top].whole /\ gens[Top].status = "prepared"
  /\ push.at = "publishing" => Top > 0 /\ gens[Top].listed /\ gens[Top].whole /\ gens[Top].status = "prepared"

\* A restore has loaded a generation that was listed. Its record may be older than the final
\* status of the push, never newer.
LoadedInv ==
  restore.at # "idle" =>
    /\ restore.of \in 1..Top
    /\ push.at \in {"capturing", "captured"} => restore.of < Top
    /\ restore.record.status # "prepared" => gens[restore.of].status = restore.record.status

ActionInv ==
  /\ restore.at = "idle" => restore.of = 0 /\ restore.actions = {}
  /\ restore.at = "recording" => restore.actions = {}
  /\ Faithful(Was)
  /\ \A a \in restore.actions :
       /\ a.path \in DOMAIN Was
       /\ a.do = "delete" => Was[a.path].kind = "absent"
       /\ a.do \in {"mkdir", "folder"} => Was[a.path].kind = "dir"
       /\ a.do = "write" => Was[a.path].kind \in {"file", "link"}

\* While nobody else writes, a recorded path is as it was, or reads alike through a link, or has an
\* action that will make it so.
Settled(p) ==
  \/ live[p] = Was[p]
  \/ Was[p].kind \in {"absent", "file"} /\ live[p].kind = "link" /\ Through(live[p]) = Was[p]
  \/ /\ Was[p].kind = "dir" /\ live[p] \in {Nothing, Dir(Default)}
     /\ \E q \in Under(p) \cap DOMAIN Was : Was[q] = Nothing
Awaited(p) == \E a \in restore.actions : a.path = p /\ a.do # "mkdir"
AloneInv == alone /\ restore.at # "idle" => \A p \in DOMAIN Was : Settled(p) \/ Awaited(p)

IInv == TypeInv /\ PushInv /\ LoadedInv /\ ActionInv /\ AloneInv /\ NewestStay

-----------------------------------------------------------------------------
(* Generations                                                              *)

NewerIn(G, g) == {h \in DOMAIN G : h > g /\ G[h].listed}

\* Whatever is listed in addition only makes a generation older.
LEMMA NewerGrow ==
  ASSUME NEW G \in Seq(Generation), NEW H \in Seq(Generation), NEW g, NewerIn(G, g) \subseteq NewerIn(H, g)
  PROVE  /\ Cardinality(NewerIn(G, g)) \in Nat /\ Cardinality(NewerIn(H, g)) \in Nat
         /\ Cardinality(NewerIn(G, g)) <= Cardinality(NewerIn(H, g))
<1>1. /\ DOMAIN G = 1..Len(G) /\ Len(G) \in Nat
      /\ DOMAIN H = 1..Len(H) /\ Len(H) \in Nat
  OBVIOUS
<1>2. IsFiniteSet(1..Len(G)) /\ IsFiniteSet(1..Len(H))
  BY <1>1, FS_Interval
<1>3. IsFiniteSet(NewerIn(G, g)) /\ IsFiniteSet(NewerIn(H, g))
  <2>1. NewerIn(G, g) \subseteq 1..Len(G) /\ NewerIn(H, g) \subseteq 1..Len(H)
    BY <1>1 DEF NewerIn
  <2> QED BY <1>2, <2>1, FS_Subset
<1> QED BY <1>3, FS_Subset, FS_CardinalityType

LEMMA NewestIs ==
  NewestStay <=> \A g \in DOMAIN gens :
    gens[g].status # "prepared" /\ Cardinality(NewerIn(gens, g)) < MaxGenerations => gens[g].listed /\ gens[g].whole
  BY DEF NewestStay, NewerIn

LEMMA NewestIsThen ==
  NewestStay' <=> \A g \in DOMAIN gens' :
    gens'[g].status # "prepared" /\ Cardinality(NewerIn(gens', g)) < MaxGenerations => gens'[g].listed /\ gens'[g].whole
  BY DEF NewestStay, NewerIn

LEMMA ChangedAt ==
  ASSUME NEW S, NEW q \in Seq(S), NEW i \in 1..Len(q), NEW x \in S
  PROVE  /\ [q EXCEPT ![i] = x] \in Seq(S) /\ Len([q EXCEPT ![i] = x]) = Len(q) /\ [q EXCEPT ![i] = x][i] = x
         /\ DOMAIN [q EXCEPT ![i] = x] = 1..Len(q) /\ DOMAIN q = 1..Len(q)
         /\ \A j \in 1..Len(q) : j # i => [q EXCEPT ![i] = x][j] = q[j]
  OBVIOUS

\* The push changes its own generation, the last.
LEMMA LatestStep ==
  ASSUME TypeInv, Top > 0, NEW new \in Generation, gens' = [gens EXCEPT ![Top] = new], Faithful(new.entries)
  PROVE  /\ gens' \in Seq(Generation) /\ Top' = Top /\ gens'[Top] = new /\ Top \in Nat
         /\ \A g \in DOMAIN gens : g # Top => gens'[g] = gens[g]
         /\ DOMAIN gens' = DOMAIN gens /\ DOMAIN gens = 1..Top
         /\ \A g \in DOMAIN gens' : Faithful(gens'[g].entries)
<1>1. gens \in Seq(Generation) /\ Len(gens) \in Nat /\ DOMAIN gens = 1..Len(gens) /\ Len(gens) > 0
  BY DEF TypeInv, Top
<1>2. gens' \in Seq(Generation) /\ Len(gens') = Len(gens) /\ gens'[Len(gens)] = new
      /\ \A g \in 1..Len(gens) : g # Len(gens) => gens'[g] = gens[g]
  <2>1. Len(gens) \in 1..Len(gens) /\ gens' = [gens EXCEPT ![Len(gens)] = new]
    BY <1>1 DEF Top
  <2> DEFINE i == Len(gens)
             q == [gens EXCEPT ![i] = new]
  <2>2. i \in 1..Len(gens)
    BY <2>1
  <2> HIDE DEF i
  <2>3. q \in Seq(Generation) /\ Len(q) = Len(gens) /\ q[i] = new /\ \A j \in 1..Len(gens) : j # i => q[j] = gens[j]
    BY <1>1, <2>2, ChangedAt
  <2> QED BY <2>1, <2>3 DEF i
<1>3. DOMAIN gens' = DOMAIN gens
  BY <1>1, <1>2
<1>4. \A g \in DOMAIN gens' : Faithful(gens'[g].entries)
  BY <1>1, <1>2, <1>3 DEF TypeInv
<1> QED BY <1>1, <1>2, <1>3, <1>4 DEF Top

\* ... which keeps the others listed if it is listed, or was not before.
LEMMA LatestNewest ==
  ASSUME SnapshotsAssumption, TypeInv, NewestStay, Top > 0, NEW new \in Generation, gens' = [gens EXCEPT ![Top] = new], Faithful(new.entries),
         gens[Top].listed => new.listed, new.status # "prepared" => new.listed /\ new.whole
  PROVE  NewestStay'
<1>1. /\ gens' \in Seq(Generation) /\ Top' = Top /\ gens'[Top] = new /\ Top \in Nat
      /\ \A g \in DOMAIN gens : g # Top => gens'[g] = gens[g]
      /\ DOMAIN gens' = DOMAIN gens /\ DOMAIN gens = 1..Top
  BY LatestStep
<1>2. SUFFICES ASSUME NEW g \in DOMAIN gens', gens'[g].status # "prepared", Cardinality(NewerIn(gens', g)) < MaxGenerations
               PROVE  gens'[g].listed /\ gens'[g].whole
  BY NewestIsThen
<1>3. CASE g = Top
  BY <1>1, <1>2, <1>3
<1>4. CASE g # Top
  <2>1. NewerIn(gens, g) \subseteq NewerIn(gens', g)
    BY <1>1 DEF NewerIn
  <2>2. Cardinality(NewerIn(gens, g)) <= Cardinality(NewerIn(gens', g)) /\ Cardinality(NewerIn(gens, g)) \in Nat
        /\ Cardinality(NewerIn(gens', g)) \in Nat
    BY <1>1, <2>1, NewerGrow DEF TypeInv
  <2>3. gens'[g] = gens[g] /\ g \in DOMAIN gens
    BY <1>1, <1>4
  <2>4. Cardinality(NewerIn(gens, g)) < MaxGenerations
    BY <1>2, <2>2 DEF SnapshotsAssumption
  <2> QED BY <1>2, <2>3, <2>4, NewestIs
<1> QED BY <1>3, <1>4

\* A step that changes neither the tree nor a restore keeps what holds of both.
LEMMA Undisturbed ==
  ASSUME ActionInv, AloneInv, UNCHANGED <<live, restore, alone>>
  PROVE  ActionInv' /\ AloneInv'
BY DEF ActionInv, AloneInv, Settled, Awaited, Was

LEMMA FreshFacts ==
  Fresh \in Generation /\ Faithful(Fresh.entries) /\ ~Fresh.listed /\ Fresh.whole /\ Fresh.status = "prepared"
<1>1. NoEntries \in [{} -> Node] /\ DOMAIN NoEntries = {}
  BY DEF NoEntries
<1>2. NoEntries \in Entries
  <2>1. {} \in SUBSET Path
    OBVIOUS
  <2> QED BY <1>1, <2>1 DEF Entries
<1>3. Faithful(NoEntries)
  BY <1>1, <1>2 DEF Faithful
<1> HIDE DEF NoEntries
<1> QED BY <1>2, <1>3 DEF Fresh, Generation, Statuses

LEMMA LoadedStays ==
  ASSUME LoadedInv, restore' = restore, Top' = Top, push'.at \in {"capturing", "captured"} => push.at \in {"capturing", "captured"},
         \A g \in 1..Top : gens[g].status # "prepared" => gens'[g].status = gens[g].status
  PROVE  LoadedInv'
BY DEF LoadedInv

-----------------------------------------------------------------------------
(* The steps of a push that touch its generation                            *)

LEMMA BeginKeeps ==
  ASSUME SnapshotsAssumption, IInv, NEW paths \in Recorded, Begin(paths)
  PROVE  IInv'
<1>1. /\ gens \in Seq(Generation) /\ Top \in Nat /\ Top < Pushes /\ Pushes \in Nat /\ DOMAIN gens = 1..Top
      /\ push' = [Idle EXCEPT !.at = "capturing", !.todo = paths]
      /\ UNCHANGED <<live, restore, edits, alone>>
      /\ gens' = Append(gens, Fresh) /\ Fresh \in Generation /\ paths \subseteq Path
  BY FreshFacts DEF IInv, TypeInv, Begin, SnapshotsAssumption, Top
<1>2. /\ gens' \in Seq(Generation) /\ Top' = Top + 1 /\ gens'[Top + 1] = Fresh /\ DOMAIN gens' = 1..(Top + 1)
      /\ \A g \in 1..Top : gens'[g] = gens[g]
  <2> HIDE DEF Fresh, Generation
  <2> QED BY <1>1 DEF Top
<1>3. TypeInv'
  <2>1. push' \in PushType
    BY <1>1 DEF Idle, PushType
  <2>2. \A g \in DOMAIN gens' : Faithful(gens'[g].entries)
    BY <1>1, <1>2, FreshFacts DEF IInv, TypeInv
  <2> QED BY <1>1, <1>2, <2>1, <2>2 DEF IInv, TypeInv
<1>4. PushInv'
  <2>1. push'.at = "capturing"
    BY <1>1 DEF Idle
  <2> QED BY <1>1, <1>2, <2>1, FreshFacts DEF PushInv
<1>5. LoadedInv'
  BY <1>1, <1>2 DEF IInv, LoadedInv
<1>6. NewestStay'
  <2> SUFFICES ASSUME NEW g \in DOMAIN gens', gens'[g].status # "prepared", Cardinality(NewerIn(gens', g)) < MaxGenerations
               PROVE  gens'[g].listed /\ gens'[g].whole
    BY NewestIsThen
  <2>1. g \in DOMAIN gens /\ gens'[g] = gens[g]
    BY <1>1, <1>2, FreshFacts
  <2>2. NewerIn(gens, g) = NewerIn(gens', g)
    BY <1>1, <1>2, FreshFacts DEF NewerIn
  <2> QED BY <2>1, <2>2, NewestIs DEF IInv
<1> QED BY <1>1, <1>3, <1>4, <1>5, <1>6, Undisturbed DEF IInv

\* A generation that is not listed goes, and no other is the newer or the older for it.
LEMMA RemovalKeeps ==
  ASSUME SnapshotsAssumption, IInv, push.at \in {"capturing", "captured"}, gens' = SubSeq(gens, 1, Top - 1), push' = Idle,
         UNCHANGED <<live, restore, edits, alone>>
  PROVE  IInv'
<1>1. /\ gens \in Seq(Generation) /\ Top \in Nat /\ Top > 0 /\ Top <= Pushes /\ Pushes \in Nat /\ DOMAIN gens = 1..Top /\ ~gens[Top].listed
  BY DEF IInv, TypeInv, PushInv, SnapshotsAssumption, Top
<1>2. /\ gens' \in Seq(Generation) /\ Top' = Top - 1 /\ DOMAIN gens' = 1..(Top - 1)
      /\ \A g \in 1..(Top - 1) : gens'[g] = gens[g]
  <2> HIDE DEF Generation
  <2> QED BY <1>1 DEF Top
<1>3. TypeInv'
  <2>1. push' \in PushType
    BY DEF Idle, PushType
  <2>2. \A g \in DOMAIN gens' : Faithful(gens'[g].entries)
    BY <1>1, <1>2 DEF IInv, TypeInv
  <2> QED BY <1>1, <1>2, <2>1, <2>2 DEF IInv, TypeInv
<1>4. PushInv'
  BY DEF PushInv, Idle
<1>5. LoadedInv'
  BY <1>1, <1>2 DEF IInv, LoadedInv, Idle
<1>6. NewestStay'
  <2> SUFFICES ASSUME NEW g \in DOMAIN gens', gens'[g].status # "prepared", Cardinality(NewerIn(gens', g)) < MaxGenerations
               PROVE  gens'[g].listed /\ gens'[g].whole
    BY NewestIsThen
  <2>1. g \in DOMAIN gens /\ gens'[g] = gens[g]
    BY <1>1, <1>2
  <2>2. NewerIn(gens, g) = NewerIn(gens', g)
    BY <1>1, <1>2 DEF NewerIn
  <2> QED BY <2>1, <2>2, NewestIs DEF IInv
<1> QED BY <1>3, <1>4, <1>5, <1>6, Undisturbed DEF IInv

\* The push replaces its own generation, and goes on to the next phase.
LEMMA LatestKeeps ==
  ASSUME SnapshotsAssumption, IInv, push.at \in {"capturing", "captured", "publishing"}, NEW new \in Generation, gens' = [gens EXCEPT ![Top] = new],
         Faithful(new.entries), new.whole, gens[Top].listed => new.listed, new.status # "prepared" => new.listed,
         NEW at, push' = [push EXCEPT !.at = at],
         \/ at = "captured" /\ ~new.listed /\ new.status = "prepared" /\ push.at = "capturing"
         \/ at = "publishing" /\ new.listed /\ new.status = "prepared"
         \/ at = "pruning" /\ push.at = "publishing",
         UNCHANGED <<live, restore, edits, alone>>
  PROVE  IInv'
<1>1. /\ gens' \in Seq(Generation) /\ Top' = Top /\ gens'[Top] = new /\ Top \in Nat
      /\ \A g \in DOMAIN gens : g # Top => gens'[g] = gens[g]
      /\ DOMAIN gens' = DOMAIN gens /\ DOMAIN gens = 1..Top
      /\ \A g \in DOMAIN gens' : Faithful(gens'[g].entries)
      /\ Top > 0 /\ gens[Top].status = "prepared"
  <2>1. TypeInv /\ Top > 0 /\ gens[Top].status = "prepared"
    BY DEF IInv, PushInv
  <2> QED BY <2>1, LatestStep
<1>2. push' = [push EXCEPT !.at = at] /\ push'.at = at /\ push'.todo = push.todo /\ push'.failed = push.failed
      /\ push' \in PushType
  BY DEF IInv, TypeInv, PushType
<1>3. TypeInv'
  BY <1>1, <1>2 DEF IInv, TypeInv
<1>4. PushInv'
  BY <1>1, <1>2 DEF PushInv
<1>5. LoadedInv'
  <2>1. \A g \in 1..Top : gens[g].status # "prepared" => gens'[g].status = gens[g].status
    BY <1>1
  <2>2. LoadedInv /\ restore' = restore /\ Top' = Top /\ (push'.at \in {"capturing", "captured"} => push.at \in {"capturing", "captured"})
    BY <1>1, <1>2 DEF IInv
  <2> QED BY <2>1, <2>2, LoadedStays
<1>6. NewestStay'
  BY <1>1, LatestNewest DEF IInv
<1> QED BY <1>3, <1>4, <1>5, <1>6, Undisturbed DEF IInv

LEMMA CaptureKeeps ==
  ASSUME SnapshotsAssumption, IInv, Capture
  PROVE  IInv'
<1>1. CASE \E p \in push.todo \ Structural : IsDir(live, p)
  BY <1>1, RemovalKeeps DEF Capture
<1>2. CASE ~\E p \in push.todo \ Structural : IsDir(live, p)
  <2> DEFINE E == [p \in push.todo |-> live[p]]
             new == [Fresh EXCEPT !.entries = E]
  <2>1. push.todo \subseteq Path /\ Rooted(live)
    BY DEF IInv, TypeInv, PushType
  <2>2. E \in [push.todo -> Node] /\ DOMAIN E = push.todo /\ \A p \in push.todo : E[p] = live[p]
    BY <2>1 DEF Rooted, Tree
  <2> HIDE DEF E
  <2>3. Faithful(E)
    <3>1. E \in Entries
      BY <2>1, <2>2 DEF Entries
    <3> QED BY <2>1, <2>2, <3>1 DEF Faithful, Rooted
  <2>4. new \in Generation /\ new.entries = E /\ ~new.listed /\ new.whole /\ new.status = "prepared"
    BY <2>3, FreshFacts DEF Generation, Faithful
  <2>5. gens' = [gens EXCEPT ![Top] = new] /\ push' = [push EXCEPT !.at = "captured"] /\ push.at = "capturing" /\ UNCHANGED <<live, restore, edits, alone>>
    BY <1>2 DEF Capture, Latest, E
  <2>6. ~gens[Top].listed
    BY <2>5 DEF IInv, PushInv
  <2> HIDE DEF new
  <2> QED BY <2>3, <2>4, <2>5, <2>6, LatestKeeps
<1> QED BY <1>1, <1>2

LEMMA CurrentFacts ==
  ASSUME IInv, push.at \in {"captured", "publishing"}
  PROVE  gens[Top] \in Generation /\ Faithful(gens[Top].entries) /\ gens[Top].whole /\ gens[Top].status = "prepared"
<1>1. Top > 0 /\ gens[Top].whole /\ gens[Top].status = "prepared" /\ gens \in Seq(Generation)
  BY DEF IInv, PushInv, TypeInv
<1>2. Top \in 1..Len(gens) /\ Top \in DOMAIN gens
  BY <1>1 DEF Top
<1> QED BY <1>1, <1>2 DEF IInv, TypeInv

LEMMA WriteManifestKeeps ==
  ASSUME SnapshotsAssumption, IInv, WriteManifest
  PROVE  IInv'
<1> DEFINE new == [gens[Top] EXCEPT !.listed = TRUE]
<1>1. push.at = "captured" /\ gens' = [gens EXCEPT ![Top] = new] /\ push' = [push EXCEPT !.at = "publishing"] /\ UNCHANGED <<live, restore, edits, alone>>
  BY DEF WriteManifest, Latest
<1>2. gens[Top] \in Generation /\ Faithful(gens[Top].entries) /\ gens[Top].whole /\ gens[Top].status = "prepared"
  BY <1>1, CurrentFacts
<1>3. new \in Generation /\ new.listed /\ new.entries = gens[Top].entries /\ new.whole /\ new.status = "prepared"
  BY <1>2 DEF Generation
<1> HIDE DEF new
<1> QED BY <1>1, <1>2, <1>3, LatestKeeps

LEMMA MarkStatusKeeps ==
  ASSUME SnapshotsAssumption, IInv, MarkStatus
  PROVE  IInv'
<1> DEFINE new == [gens[Top] EXCEPT !.status = IF push.failed THEN "failed" ELSE "applied"]
<1>1. push.at = "publishing" /\ gens' = [gens EXCEPT ![Top] = new] /\ push' = [push EXCEPT !.at = "pruning"] /\ UNCHANGED <<live, restore, edits, alone>>
  BY DEF MarkStatus, Latest
<1>2. gens[Top] \in Generation /\ Faithful(gens[Top].entries) /\ gens[Top].whole /\ gens[Top].status = "prepared" /\ gens[Top].listed
  BY <1>1, CurrentFacts DEF IInv, PushInv
<1>3. new \in Generation /\ new.listed /\ new.entries = gens[Top].entries /\ new.whole
  BY <1>2 DEF Generation, Statuses
<1> HIDE DEF new
<1> QED BY <1>1, <1>2, <1>3, LatestKeeps

LEMMA HistoryStays ==
  ASSUME NewestStay, gens' = gens
  PROVE  NewestStay'
BY DEF NewestStay

\* The generations, and what the restore has loaded, are as they were.
LEMMA NoGenerationMoves ==
  ASSUME IInv, gens' = gens, restore' = restore, push' \in PushType,
         push'.at = push.at \/ push'.at = "idle"
  PROVE  PushInv' /\ LoadedInv' /\ NewestStay' /\ ActionInv'
<1>1. PushInv'
  BY DEF IInv, PushInv, Top
<1>2. LoadedInv'
  BY DEF IInv, LoadedInv, Top
<1>3. ActionInv'
  BY DEF IInv, ActionInv, Was
<1> QED BY <1>1, <1>2, <1>3, HistoryStays DEF IInv

LEMMA EffectFailsKeeps ==
  ASSUME IInv, EffectFails
  PROVE  IInv'
<1>1. /\ push' \in PushType
      /\ push'.at = push.at /\ UNCHANGED <<live, gens, restore, edits, alone>>
  BY DEF IInv, TypeInv, EffectFails, PushType
<1>2. TypeInv'
  BY <1>1 DEF IInv, TypeInv, Top
<1> QED BY <1>1, <1>2, NoGenerationMoves, Undisturbed DEF IInv

LEMMA KillPushKeeps ==
  ASSUME IInv, KillPush
  PROVE  IInv'
<1>1. /\ push' \in PushType
      /\ push'.at = "idle" /\ UNCHANGED <<live, gens, restore, edits, alone>>
  BY DEF KillPush, Idle, PushType
<1>2. TypeInv'
  BY <1>1 DEF IInv, TypeInv, Top
<1> QED BY <1>1, <1>2, NoGenerationMoves, Undisturbed DEF IInv

\* An effect, like an edit, leaves a tree, and a restore that runs has lost its peace.
LEMMA PublishKeeps ==
  ASSUME SnapshotsAssumption, IInv, NEW p \in push.todo, NEW n \in Node, n.kind = "absent" => n = Nothing, Publish(p, n)
  PROVE  IInv'
<1>1. /\ Rooted(live) /\ p \in Path
      /\ push' \in PushType
      /\ push'.at = push.at /\ UNCHANGED <<gens, restore, edits>> /\ alone' = FALSE
  BY DEF IInv, TypeInv, Publish, PushType
<1>2. Rooted(live')
  <2>1. CASE n.kind = "absent"
    <3>1. live[p].kind # "dir" /\ live' = Prune(live, p, Ancestors[p] \ Roots)
      BY <2>1 DEF Publish, IsDir
    <3> QED BY <1>1, <3>1, PruneRooted
  <2>2. CASE n.kind # "absent"
    <3>1. Reachable(live, p) /\ live' = Put(live, p, n)
      BY <2>2 DEF Publish
    <3> QED BY <1>1, <2>2, <3>1, PutRooted
  <2> QED BY <2>1, <2>2
<1>3. TypeInv'
  BY <1>1, <1>2 DEF IInv, TypeInv, Top
<1>4. AloneInv'
  BY <1>1 DEF AloneInv
<1> QED BY <1>1, <1>3, <1>4, NoGenerationMoves DEF IInv

LEMMA EditKeeps ==
  ASSUME SnapshotsAssumption, IInv, NEW p \in Path, NEW n \in Node, Edit(p, n)
  PROVE  IInv'
<1>1. /\ Rooted(live) /\ live' = [live EXCEPT ![p] = n] /\ UNCHANGED <<gens, push, restore>> /\ alone' = FALSE
      /\ (n.kind = "absent" => n = Nothing) /\ \A q \in Ancestors[p] : live[q].kind = "dir"
      /\ (n.kind # "dir" => \A q \in Under(p) : live[q].kind = "absent")
  BY DEF IInv, TypeInv, Edit, IsDir, Empty, Present
<1>2. live' \in Tree /\ live'[p] = n /\ \A q \in Path \ {p} : live'[q] = live[q]
  BY <1>1 DEF Rooted, Tree
<1>3. Rooted(live')
  <2>1. ASSUME NEW q \in Path, live'[q].kind = "absent" PROVE live'[q] = Nothing
    BY <1>1, <1>2, <2>1 DEF Rooted
  <2>2. ASSUME NEW q \in Path, live'[q].kind # "absent", NEW r \in Ancestors[q] PROVE live'[r].kind = "dir"
    <3>1. r \in Path /\ r # q
      BY TreeFacts
    <3>2. CASE q = p
      BY <1>1, <1>2, <3>1, <3>2
    <3>3. CASE q # p
      <4>1. live[q].kind # "absent" /\ live[r].kind = "dir"
        BY <1>1, <1>2, <2>2, <3>3 DEF Rooted
      <4>2. CASE r = p
        BY <1>1, <1>2, <4>1, <4>2 DEF Under
      <4>3. CASE r # p
        BY <1>2, <3>1, <4>1, <4>3
      <4> QED BY <4>2, <4>3
    <3> QED BY <3>2, <3>3
  <2> QED BY <1>2, <2>1, <2>2 DEF Rooted
<1>4. edits' \in 0..Edits
  BY DEF IInv, TypeInv, Edit, SnapshotsAssumption
<1>5. TypeInv'
  BY <1>1, <1>3, <1>4 DEF IInv, TypeInv, Top
<1>6. AloneInv'
  BY <1>1 DEF AloneInv
<1>7. push' \in PushType
  BY <1>1 DEF IInv, TypeInv
<1> QED BY <1>1, <1>5, <1>6, <1>7, NoGenerationMoves DEF IInv

\* Retention takes the newest of the expired: those that remain expired have the same ones above.
LEMMA PruneSnapshotsKeeps ==
  ASSUME SnapshotsAssumption, IInv, PruneSnapshots
  PROVE  IInv'
<1>1. push.at = "pruning" /\ UNCHANGED <<live, restore, edits, alone>>
  BY DEF PruneSnapshots
<1>2. CASE Expired = {}
  <2>1. push' = Idle /\ gens' = gens
    BY <1>2 DEF PruneSnapshots
  <2>2. push' \in PushType /\ push'.at = "idle"
    BY <2>1 DEF Idle, PushType
  <2>3. TypeInv'
    BY <1>1, <2>1, <2>2 DEF IInv, TypeInv, Top
  <2> QED BY <1>1, <2>1, <2>2, <2>3, NoGenerationMoves, Undisturbed DEF IInv
<1>3. CASE Expired # {}
  <2>1. PICK g \in {e \in Expired : Newer(e) \cap Expired = {}} :
            \/ gens' = [gens EXCEPT ![g].listed = FALSE, ![g].whole = FALSE] /\ UNCHANGED push
            \/ gens' = [gens EXCEPT ![g].whole = FALSE] /\ push' = Idle
            \/ gens' = [gens EXCEPT ![g].listed = FALSE] /\ push' = Idle
    BY <1>3 DEF PruneSnapshots
  <2>2. /\ gens \in Seq(Generation) /\ Top \in Nat /\ DOMAIN gens = 1..Top /\ g \in 1..Top /\ g \in DOMAIN gens
        /\ gens[g] \in Generation /\ gens[g].listed
        /\ Cardinality(NewerIn(gens, g)) >= MaxGenerations
    <3>1. gens \in Seq(Generation) /\ DOMAIN gens = 1..Len(gens) /\ Len(gens) \in Nat
      BY DEF IInv, TypeInv
    <3>2. g \in DOMAIN gens /\ gens[g].listed /\ Cardinality(Newer(g)) >= MaxGenerations
      BY DEF Expired, Listed
    <3>3. Newer(g) = NewerIn(gens, g)
      BY DEF Newer, Listed, NewerIn
    <3>4. gens[g] \in Generation
      <4> HIDE DEF Generation
      <4> QED BY <3>1, <3>2
    <3> QED BY <3>1, <3>2, <3>3, <3>4 DEF Top
  <2>3. PICK new \in Generation : /\ gens' = [gens EXCEPT ![g] = new] /\ new.status = gens[g].status /\ new.entries = gens[g].entries
    <3> DEFINE old == gens[g]
    <3>1. /\ [old EXCEPT !.listed = FALSE, !.whole = FALSE] \in Generation /\ [old EXCEPT !.listed = FALSE, !.whole = FALSE].status = old.status
          /\ [old EXCEPT !.listed = FALSE, !.whole = FALSE].entries = old.entries
          /\ [old EXCEPT !.whole = FALSE] \in Generation /\ [old EXCEPT !.whole = FALSE].status = old.status /\ [old EXCEPT !.whole = FALSE].entries = old.entries
          /\ [old EXCEPT !.listed = FALSE] \in Generation /\ [old EXCEPT !.listed = FALSE].status = old.status /\ [old EXCEPT !.listed = FALSE].entries = old.entries
      BY <2>2 DEF Generation
    <3>2. \/ gens' = [gens EXCEPT ![g] = [old EXCEPT !.listed = FALSE, !.whole = FALSE]]
          \/ gens' = [gens EXCEPT ![g] = [old EXCEPT !.whole = FALSE]]
          \/ gens' = [gens EXCEPT ![g] = [old EXCEPT !.listed = FALSE]]
      BY <2>1, <2>2
    <3> QED BY <3>1, <3>2
  <2>4. /\ gens' \in Seq(Generation) /\ Top' = Top /\ DOMAIN gens' = 1..Top /\ gens'[g] = new
        /\ \A h \in 1..Top : h # g => gens'[h] = gens[h]
    <3>1. gens' = [gens EXCEPT ![g] = new] /\ new \in Generation
      BY <2>3
    <3> HIDE DEF Generation
    <3> QED BY <2>2, <3>1, ChangedAt DEF Top
  <2>5. push' = push \/ push' = Idle
    BY <2>1
  <2>6. push' \in PushType /\ push'.at \in {"idle", "pruning"}
    <3>1. CASE push' = push
      BY <1>1, <3>1 DEF IInv, TypeInv
    <3>2. CASE push' = Idle
      BY <3>2 DEF Idle, PushType
    <3> QED BY <2>5, <3>1, <3>2
  <2>7. TypeInv'
    <3>1. \A h \in DOMAIN gens' : Faithful(gens'[h].entries)
      BY <2>2, <2>3, <2>4 DEF IInv, TypeInv
    <3> QED BY <1>1, <2>4, <2>6, <3>1 DEF IInv, TypeInv
  <2>8. PushInv'
    BY <2>6 DEF PushInv
  <2>9. LoadedInv'
    <3>1. \A h \in 1..Top : gens[h].status # "prepared" => gens'[h].status = gens[h].status
      BY <2>2, <2>3, <2>4
    <3>2. LoadedInv /\ restore' = restore /\ Top' = Top /\ (push'.at \in {"capturing", "captured"} => push.at \in {"capturing", "captured"})
      BY <1>1, <2>4, <2>6 DEF IInv
    <3> QED BY <3>1, <3>2, LoadedStays
  <2>10. NewestStay'
    <3> SUFFICES ASSUME NEW h \in DOMAIN gens', gens'[h].status # "prepared", Cardinality(NewerIn(gens', h)) < MaxGenerations
                 PROVE  gens'[h].listed /\ gens'[h].whole
      BY NewestIsThen
    <3>1. h \in 1..Top
      BY <2>4
    <3>2. CASE h > g
      <4>1. NewerIn(gens, h) = NewerIn(gens', h)
        BY <2>2, <2>4, <3>1, <3>2 DEF NewerIn
      <4>2. gens'[h] = gens[h] /\ h \in DOMAIN gens
        BY <2>2, <2>4, <3>1, <3>2
      <4> QED BY <4>1, <4>2, NewestIs DEF IInv
    <3>3. CASE h <= g
      <4>1. NewerIn(gens, g) \subseteq NewerIn(gens', h)
        BY <2>2, <2>4, <3>1, <3>3 DEF NewerIn
      <4>2. NewerIn(gens, g) = NewerIn(gens', g)
        BY <2>2, <2>4 DEF NewerIn
      <4>3. NewerIn(gens', g) \subseteq NewerIn(gens', h)
        BY <4>1, <4>2
      <4>4. IsFiniteSet(NewerIn(gens', h)) /\ IsFiniteSet(NewerIn(gens', g))
        <5>1. NewerIn(gens', h) \subseteq 1..Top /\ IsFiniteSet(1..Top)
          BY <2>2, <2>4, FS_Interval DEF NewerIn
        <5> QED BY <4>3, <5>1, FS_Subset
      <4>5. Cardinality(NewerIn(gens', g)) <= Cardinality(NewerIn(gens', h)) /\ Cardinality(NewerIn(gens', g)) \in Nat /\ Cardinality(NewerIn(gens', h)) \in Nat
        BY <4>3, <4>4, FS_Subset, FS_CardinalityType
      <4> QED BY <2>2, <4>2, <4>5 DEF SnapshotsAssumption
    <3> QED BY <2>2, <3>1, <3>2, <3>3
  <2> QED BY <1>1, <2>7, <2>8, <2>9, <2>10, Undisturbed DEF IInv
<1> QED BY <1>2, <1>3

-----------------------------------------------------------------------------
(* The steps of a restore                                                   *)

LEMMA RestingFacts ==
  /\ Resting \in RestoreType
  /\ Resting.at = "idle" /\ Resting.of = 0 /\ Resting.actions = {} /\ Faithful(Resting.record.entries)
<1> HIDE DEF Fresh, Generation, Faithful
<1> QED BY FreshFacts DEF Resting, RestoreType

\* Whatever ends a restore leaves nothing of it.
LEMMA RestKeeps ==
  ASSUME IInv, restore' = Resting, UNCHANGED <<live, gens, push, edits, alone>>
  PROVE  IInv'
<1>1. TypeInv'
  BY RestingFacts DEF IInv, TypeInv, Top
<1>2. PushInv'
  BY DEF IInv, PushInv, Top
<1>3. LoadedInv'
  BY RestingFacts DEF LoadedInv
<1>4. ActionInv'
  BY RestingFacts DEF ActionInv, Was
<1>5. AloneInv'
  BY RestingFacts DEF AloneInv
<1> QED BY <1>1, <1>2, <1>3, <1>4, <1>5, HistoryStays DEF IInv

\* What a restore sets out to do, by what is recorded and what stands there.
LEMMA WorkFacts ==
  ASSUME Rooted(live), NEW E, Faithful(E)
  PROVE  /\ RestoreActions(E) \subseteq Action
         /\ \A a \in RestoreActions(E) :
              /\ a.path \in DOMAIN E
              /\ a.do = "delete" => E[a.path].kind = "absent"
              /\ a.do \in {"mkdir", "folder"} => E[a.path].kind = "dir"
              /\ a.do = "write" => E[a.path].kind \in {"file", "link"}
         /\ \A p \in DOMAIN E : InOrder(E[p], live[p]) \/ \E a \in RestoreActions(E) : a.path = p /\ a.do # "mkdir"
<1>1. DOMAIN E \subseteq Path /\ \A p \in DOMAIN E : E[p].kind \in {"absent", "file", "link", "dir"}
  BY DEF Faithful, Entries, Node
<1> DEFINE work    == {p \in DOMAIN E : Verdict(E[p], live[p]) # "noop"}
           folders == {p \in DOMAIN E : E[p].kind = "dir"}
           deleted == {p \in work : E[p].kind = "absent"}
           made    == {p \in folders \cap work : Through(live[p]).kind # "dir"}
           written == (work \ folders) \ deleted
<1>2. RestoreActions(E) = [do : {"delete"}, path : deleted] \cup [do : {"mkdir"}, path : made]
                            \cup [do : {"write"}, path : written] \cup [do : {"folder"}, path : folders \cap work]
  BY DEF RestoreActions
<1>3. \A p \in DOMAIN E : InOrder(E[p], live[p]) \/ p \in work
  BY DEF Verdict
<1>4. deleted \subseteq DOMAIN E /\ made \subseteq DOMAIN E /\ written \subseteq DOMAIN E /\ folders \cap work \subseteq DOMAIN E
      /\ (\A p \in deleted : E[p].kind = "absent") /\ (\A p \in made : E[p].kind = "dir") /\ (\A p \in folders \cap work : E[p].kind = "dir")
      /\ (\A p \in written : E[p].kind \in {"file", "link"})
      /\ \A p \in work : p \in deleted \/ p \in written \/ p \in folders \cap work
  BY <1>1
<1> HIDE DEF work, folders, deleted, made, written
<1>5. \A a \in RestoreActions(E) :
        \/ a.do = "delete" /\ a.path \in deleted
        \/ a.do = "mkdir" /\ a.path \in made
        \/ a.do = "write" /\ a.path \in written
        \/ a.do = "folder" /\ a.path \in folders \cap work
  BY <1>2
<1>6. RestoreActions(E) \subseteq Action
  BY <1>1, <1>2, <1>4 DEF Action
<1>7. ASSUME NEW p \in DOMAIN E, p \in work PROVE \E a \in RestoreActions(E) : a.path = p /\ a.do # "mkdir"
  <2>1. CASE p \in deleted
    <3>1. [do |-> "delete", path |-> p] \in RestoreActions(E)
      BY <1>2, <2>1
    <3> QED BY <3>1
  <2>2. CASE p \in written
    <3>1. [do |-> "write", path |-> p] \in RestoreActions(E)
      BY <1>2, <2>2
    <3> QED BY <3>1
  <2>3. CASE p \in folders \cap work
    <3>1. [do |-> "folder", path |-> p] \in RestoreActions(E)
      BY <1>2, <2>3
    <3> QED BY <3>1
  <2> QED BY <1>4, <1>7, <2>1, <2>2, <2>3
<1> QED BY <1>3, <1>4, <1>5, <1>6, <1>7

LEMMA StartRestoreKeeps ==
  ASSUME IInv, NEW g \in DOMAIN gens, StartRestore(g)
  PROVE  IInv'
<1> DEFINE E == gens[g].entries
<1>1. /\ restore.at = "idle" /\ gens[g].listed /\ alone' = TRUE /\ UNCHANGED <<live, gens, push, edits>>
      /\ restore' = [at |-> "acting", of |-> g, record |-> gens[g], actions |-> RestoreActions(E)]
  BY DEF StartRestore, Restorable, Listed
<1>2. gens \in Seq(Generation) /\ DOMAIN gens = 1..Top /\ Top \in Nat /\ g \in 1..Top /\ gens[g] \in Generation
      /\ Rooted(live) /\ Faithful(E)
  <2>1. gens \in Seq(Generation) /\ Rooted(live) /\ Faithful(E)
    BY DEF IInv, TypeInv
  <2> HIDE DEF Generation, E
  <2> QED BY <2>1 DEF Top
<1> HIDE DEF E
<1>3. /\ RestoreActions(E) \subseteq Action
      /\ \A a \in RestoreActions(E) :
           /\ a.path \in DOMAIN E
           /\ a.do = "delete" => E[a.path].kind = "absent"
           /\ a.do \in {"mkdir", "folder"} => E[a.path].kind = "dir"
           /\ a.do = "write" => E[a.path].kind \in {"file", "link"}
      /\ \A p \in DOMAIN E : InOrder(E[p], live[p]) \/ \E a \in RestoreActions(E) : a.path = p /\ a.do # "mkdir"
  BY <1>2, WorkFacts
<1>4. restore'.at = "acting" /\ restore'.of = g /\ restore'.record = gens[g] /\ restore'.actions = RestoreActions(E) /\ Was' = E
      /\ restore' \in RestoreType
  <2> HIDE DEF Generation, Action
  <2>1. restore'.at = "acting" /\ restore'.of = g /\ restore'.record = gens[g] /\ restore'.actions = RestoreActions(E)
        /\ restore' \in RestoreType
    BY <1>1, <1>2, <1>3 DEF RestoreType
  <2> QED BY <2>1 DEF Was, E
<1>5. TypeInv'
  BY <1>1, <1>4 DEF IInv, TypeInv, Top
<1>6. PushInv'
  BY <1>1 DEF IInv, PushInv, Top
<1>7. LoadedInv'
  <2>1. push.at \in {"capturing", "captured"} => g # Top
    BY <1>1 DEF IInv, PushInv
  <2>2. Top' = Top
    BY <1>1 DEF Top
  <2> QED BY <1>1, <1>2, <1>4, <2>1, <2>2 DEF LoadedInv
<1>8. ActionInv'
  BY <1>2, <1>3, <1>4 DEF ActionInv
<1>9. AloneInv'
  <2> SUFFICES ASSUME NEW p \in DOMAIN Was' PROVE (Settled(p) \/ Awaited(p))'
    BY DEF AloneInv
  <2>1. p \in DOMAIN E /\ live' = live /\ Was' = E /\ restore'.actions = RestoreActions(E)
    BY <1>1, <1>4
  <2>2. InOrder(E[p], live[p]) \/ \E a \in RestoreActions(E) : a.path = p /\ a.do # "mkdir"
    BY <1>3, <2>1
  <2>3. InOrder(E[p], live[p]) => Settled(p)'
    BY <2>1 DEF InOrder, Settled, Through
  <2> QED BY <2>1, <2>2, <2>3 DEF Awaited
<1> QED BY <1>1, <1>5, <1>6, <1>7, <1>8, <1>9, HistoryStays DEF IInv

LEMMA RestoreDoneKeeps ==
  ASSUME IInv, RestoreDone
  PROVE  IInv'
<1>1. /\ restore.at = "acting" /\ restore.actions = {} /\ UNCHANGED <<live, gens, push, edits, alone>>
      /\ restore' \in RestoreType
      /\ restore'.at = "recording" /\ restore'.of = restore.of /\ restore'.record = restore.record /\ restore'.actions = {}
  <2> HIDE DEF Generation, Action
  <2> QED BY DEF RestoreDone, IInv, TypeInv, RestoreType
<1>2. TypeInv'
  BY <1>1 DEF IInv, TypeInv, Top
<1>3. PushInv'
  BY <1>1 DEF IInv, PushInv, Top
<1>4. LoadedInv'
  BY <1>1 DEF IInv, LoadedInv, Top
<1>5. ActionInv'
  BY <1>1 DEF IInv, ActionInv, Was
<1>6. AloneInv'
  BY <1>1 DEF IInv, AloneInv, Settled, Awaited, Was
<1> QED BY <1>1, <1>2, <1>3, <1>4, <1>5, <1>6, HistoryStays DEF IInv

LEMMA KillRestoreKeeps ==
  ASSUME IInv, KillRestore
  PROVE  IInv'
BY RestKeeps DEF KillRestore

\* The manifest it writes is the one it loaded: it may list a generation again that retention had
\* begun to remove, and give it its old status, but no status that the generation has not had.
LEMMA RecordRestoreKeeps ==
  ASSUME SnapshotsAssumption, IInv, RecordRestore
  PROVE  IInv'
<1> DEFINE g == restore.of
           old == gens[g]
           new == [old EXCEPT !.listed = TRUE, !.status = restore.record.status]
<1>1. restore.at = "recording" /\ restore' = Resting /\ UNCHANGED <<live, push, edits, alone>>
      /\ gens' = [gens EXCEPT ![restore.of].listed = TRUE, ![restore.of].status = restore.record.status]
  BY DEF RecordRestore
<1>2. /\ gens \in Seq(Generation) /\ Top \in Nat /\ DOMAIN gens = 1..Top /\ g \in 1..Top /\ old \in Generation /\ Faithful(old.entries)
      /\ restore.record \in Generation /\ (restore.record.status # "prepared" => old.status = restore.record.status)
  <2>1. gens \in Seq(Generation) /\ g \in 1..Top /\ restore.record \in Generation /\ (restore.record.status # "prepared" => old.status = restore.record.status)
    <3> HIDE DEF Generation, Action
    <3> QED BY <1>1 DEF IInv, TypeInv, LoadedInv, RestoreType
  <2>2. Top \in Nat /\ DOMAIN gens = 1..Top /\ old \in Generation
    <3> HIDE DEF Generation, g
    <3> QED BY <2>1 DEF Top
  <2> QED BY <2>1, <2>2 DEF IInv, TypeInv
<1>3. new \in Generation /\ new.listed /\ new.whole = old.whole /\ new.status = restore.record.status /\ new.entries = old.entries
  <2> HIDE DEF old
  <2> QED BY <1>2 DEF Generation
<1>4. gens' = [gens EXCEPT ![g] = new]
  <2> DEFINE mid == [gens EXCEPT ![g] = [old EXCEPT !.listed = TRUE]]
  <2>1. mid[g] = [old EXCEPT !.listed = TRUE] /\ gens' = [mid EXCEPT ![g] = [mid[g] EXCEPT !.status = restore.record.status]]
    BY <1>1, <1>2
  <2> QED BY <1>1, <1>2, <2>1
<1> HIDE DEF new, old
<1>5. /\ gens' \in Seq(Generation) /\ Top' = Top /\ DOMAIN gens' = 1..Top /\ gens'[g] = new
      /\ \A h \in 1..Top : h # g => gens'[h] = gens[h]
  <2> HIDE DEF Generation, g
  <2> QED BY <1>2, <1>3, <1>4, ChangedAt DEF Top
<1>6. TypeInv'
  <2>1. \A h \in DOMAIN gens' : Faithful(gens'[h].entries)
    BY <1>2, <1>3, <1>5 DEF IInv, TypeInv
  <2> QED BY <1>1, <1>5, <2>1, RestingFacts DEF IInv, TypeInv
<1>7. PushInv'
  <2>1. push.at \in {"capturing", "captured"} => g # Top
    BY <1>1, <1>2 DEF IInv, LoadedInv
  <2>2. CASE g # Top
    BY <1>1, <1>2, <1>5, <2>2 DEF IInv, PushInv
  <2>3. CASE g = Top
    BY <1>1, <1>2, <1>3, <1>5, <2>1, <2>3 DEF IInv, PushInv, old
  <2> QED BY <2>2, <2>3
<1>8. LoadedInv'
  BY <1>1, RestingFacts DEF LoadedInv
<1>9. ActionInv'
  BY <1>1, RestingFacts DEF ActionInv, Was
<1>10. AloneInv'
  BY <1>1, RestingFacts DEF AloneInv
<1>11. NewestStay'
  <2> SUFFICES ASSUME NEW h \in DOMAIN gens', gens'[h].status # "prepared", Cardinality(NewerIn(gens', h)) < MaxGenerations
               PROVE  gens'[h].listed /\ gens'[h].whole
    BY NewestIsThen
  <2>1. NewerIn(gens, h) \subseteq NewerIn(gens', h)
    BY <1>2, <1>3, <1>5 DEF NewerIn
  <2>2. Cardinality(NewerIn(gens, h)) <= Cardinality(NewerIn(gens', h)) /\ Cardinality(NewerIn(gens, h)) \in Nat
        /\ Cardinality(NewerIn(gens', h)) \in Nat
    BY <1>2, <1>5, <2>1, NewerGrow
  <2>3. Cardinality(NewerIn(gens, h)) < MaxGenerations /\ h \in DOMAIN gens
    BY <1>2, <1>5, <2>2 DEF SnapshotsAssumption
  <2>4. gens[h].status # "prepared"
    BY <1>2, <1>3, <1>5 DEF old
  <2>5. gens[h].listed /\ gens[h].whole
    BY <2>3, <2>4, NewestIs DEF IInv
  <2> QED BY <1>2, <1>3, <1>5, <2>5 DEF old
<1> QED BY <1>6, <1>7, <1>8, <1>9, <1>10, <1>11 DEF IInv

\* An action that works leaves a tree.
LEMMA AfterRooted ==
  ASSUME SnapshotsAssumption, Rooted(live), NEW a \in Action, NEW e \in Node, Works(a, e), a.do # "delete" => e.kind # "absent"
  PROVE  Rooted(After(a, e))
<1>1. a.path \in Path /\ a.do \in {"delete", "mkdir", "write", "folder"}
  BY DEF Action
<1>2. CASE a.do = "delete"
  <2>1. live[a.path].kind # "dir"
    BY <1>2 DEF Works, IsDir
  <2> QED BY <1>1, <1>2, <2>1, PruneRooted DEF After
<1>3. CASE a.do = "mkdir"
  <2>1. Reachable(live, a.path)
    BY <1>3 DEF Works
  <2> QED BY <1>1, <1>3, <2>1, NodeFacts, PutRooted DEF After
<1>4. CASE a.do \in {"write", "folder"}
  <2>1. Reachable(live, a.path)
    BY <1>4 DEF Works
  <2> QED BY <1>4, <1>1, <2>1, PutRooted DEF After
<1> QED BY <1>1, <1>2, <1>3, <1>4

\* A recorded path that an action disturbs is one above it that a deletion has emptied, or one
\* that is to become what the action has made of it.
LEMMA StillInOrder ==
  ASSUME SnapshotsAssumption, IInv, alone, restore.at # "idle", NEW a \in restore.actions, Works(a, Was[a.path]),
         live' = After(a, Was[a.path]), restore'.record = restore.record, restore'.actions = restore.actions \ {a},
         NEW p \in DOMAIN Was
  PROVE  (Settled(p) \/ Awaited(p))'
<1> DEFINE x == a.path
           e == Was[x]
<1>1. /\ Faithful(Was) /\ x \in DOMAIN Was /\ x \in Path /\ p \in Path /\ Rooted(live) /\ e \in Node /\ Was[p] \in Node
      /\ (a.do = "delete" => e = Nothing) /\ (a.do \in {"mkdir", "folder"} => e.kind = "dir") /\ (a.do = "write" => e.kind \in {"file", "link"})
      /\ a.do \in {"delete", "mkdir", "write", "folder"} /\ Was' = Was
  <2>1. Faithful(Was) /\ x \in DOMAIN Was /\ Rooted(live) /\ a \in Action
        /\ (a.do = "delete" => e.kind = "absent") /\ (a.do \in {"mkdir", "folder"} => e.kind = "dir") /\ (a.do = "write" => e.kind \in {"file", "link"})
    BY DEF IInv, TypeInv, ActionInv, RestoreType
  <2> QED BY <2>1 DEF Faithful, Entries, Action, Was
<1>2. Settled(p) \/ Awaited(p)
  BY DEF IInv, AloneInv
<1>3. ASSUME Awaited(p), p # x \/ a.do = "mkdir" PROVE Awaited(p)'
  BY <1>1, <1>3 DEF Awaited
<1>4. ASSUME live'[p] = Was[p] PROVE Settled(p)'
  BY <1>1, <1>4 DEF Settled
<1>5. ASSUME Settled(p), live'[p] = live[p] PROVE Settled(p)'
  BY <1>1, <1>5 DEF Settled
<1>6. ASSUME Settled(p), Was[p].kind = "dir", live[p].kind = "absent", live'[p] = Dir(Default) PROVE Settled(p)'
  <2>1. live[p] # Was[p]
    BY <1>6
  <2> QED BY <1>1, <1>6, <2>1 DEF Settled
<1>7. CASE a.do = "delete"
  <2>1. CASE \A q \in Ancestors[x] : IsDir(live, q)
    <3> DEFINE gone == Emptied(live, x, Prunable(x))
    <3>1. live' = Prune(live, x, Prunable(x))
      BY <1>7, <2>1 DEF After
    <3>2. CASE p = x
      <4>1. Prune(live, x, Prunable(x))[x] = Nothing
        BY <1>1, PruneAt
      <4>2. live'[p] = Was[p]
        BY <1>1, <1>7, <3>1, <3>2, <4>1
      <4> QED BY <1>4, <4>2
    <3>3. CASE p # x /\ p \in gone
      <4>1. live'[p] = Nothing /\ p \in Ancestors[x] /\ live[p].kind = "dir"
        BY <1>1, <2>1, <3>1, <3>3, PruneAt DEF Emptied, IsDir
      <4>2. CASE Was[p].kind = "dir"
        <5>1. x \in Under(p) \cap DOMAIN Was /\ Was[x] = Nothing
          BY <1>1, <1>7, <4>1 DEF Under
        <5> QED BY <1>1, <4>1, <4>2, <5>1 DEF Settled
      <4>3. CASE Was[p].kind = "absent"
        <5>1. Was[p] = Nothing
          BY <1>1, <4>3 DEF Faithful
        <5> QED BY <1>4, <4>1, <5>1
      <4>4. CASE Was[p].kind \in {"file", "link"}
        <5>1. ~Settled(p)
          BY <4>1, <4>4 DEF Settled
        <5> QED BY <1>2, <1>3, <3>3, <5>1
      <4> QED BY <1>1, <4>2, <4>3, <4>4 DEF Node
    <3>4. CASE p # x /\ p \notin gone
      BY <1>1, <1>2, <1>3, <1>5, <3>1, <3>4, PruneAt
    <3> QED BY <3>2, <3>3, <3>4
  <2>2. CASE ~\A q \in Ancestors[x] : IsDir(live, q)
    <3>1. live' = live
      BY <1>7, <2>2 DEF After
    <3>2. CASE p = x
      <4>1. live[x] = Nothing
        BY <1>1, <2>2 DEF Rooted, IsDir
      <4> QED BY <1>1, <1>4, <1>7, <3>1, <3>2, <4>1
    <3>3. CASE p # x
      BY <1>2, <1>3, <1>5, <3>1, <3>3
    <3> QED BY <3>2, <3>3
  <2> QED BY <2>1, <2>2
<1>8. CASE a.do \in {"write", "folder"} \/ (a.do = "mkdir" /\ ~IsDir(live, x))
  <2> DEFINE n == IF a.do = "mkdir" THEN Dir(Default) ELSE e
  <2>1. live' = Put(live, x, n) /\ n.kind # "absent" /\ (n.kind # "dir" => a.do = "write") /\ e.kind # "absent"
    BY <1>1, <1>8, NodeFacts DEF After
  <2> HIDE DEF n
  <2>2. CASE p = x
    <3>1. live'[p] = n
      BY <1>1, <2>1, <2>2, PutAt
    <3>2. CASE a.do = "mkdir"
      <4>1. Awaited(p) => Awaited(p)'
        BY <1>3, <3>2
      <4>2. Settled(p) => live[p].kind = "absent"
        BY <1>1, <1>8, <2>2, <3>2, NodeFacts DEF Settled, IsDir
      <4>3. Settled(p) => Settled(p)'
        BY <1>1, <1>6, <2>2, <3>1, <3>2, <4>2 DEF n
      <4> QED BY <1>2, <4>1, <4>3
    <3>3. CASE a.do # "mkdir"
      BY <1>4, <2>2, <3>1, <3>3 DEF n
    <3> QED BY <3>2, <3>3
  <2>3. CASE p \in Ancestors[x] /\ live[p].kind = "absent"
    <3>1. live'[p] = Dir(Default) /\ p # x
      BY <1>1, <2>1, <2>3, PutAt, TreeFacts
    <3>2. Was[p].kind = "dir"
      BY <1>1, <2>1, <2>3 DEF Faithful
    <3> QED BY <1>2, <1>3, <1>6, <2>3, <3>1, <3>2
  <2>4. CASE x \in Ancestors[p] /\ n.kind # "dir"
    <3>1. live'[p] = Nothing
      <4>1. p \in Under(x)
        BY <1>1, <2>4 DEF Under
      <4>2. Put(live, x, n)[p] = Nothing
        BY <1>1, <2>4, <4>1, PutUnder
      <4> QED BY <2>1, <4>2
    <3>2. e.kind # "dir" /\ Was[p].kind = "absent"
      BY <1>1, <2>1, <2>4 DEF Faithful
    <3>3. Was[p] = Nothing
      BY <1>1, <3>2 DEF Faithful
    <3> QED BY <1>4, <3>1, <3>3
  <2>5. CASE p # x /\ ~(p \in Ancestors[x] /\ live[p].kind = "absent") /\ ~(x \in Ancestors[p] /\ n.kind # "dir")
    <3>1. live'[p] = live[p]
      BY <1>1, <2>1, <2>5, PutAt
    <3> QED BY <1>2, <1>3, <1>5, <2>5, <3>1
  <2> QED BY <2>2, <2>3, <2>4, <2>5
<1>9. CASE a.do = "mkdir" /\ IsDir(live, x)
  <2>1. live' = live
    BY <1>9 DEF After
  <2> QED BY <1>2, <1>3, <1>5, <1>9, <2>1
<1>10. \/ a.do = "delete"
       \/ a.do \in {"write", "folder"} \/ (a.do = "mkdir" /\ ~IsDir(live, x))
       \/ a.do = "mkdir" /\ IsDir(live, x)
  BY <1>1
<1> QED BY <1>7, <1>8, <1>9, <1>10

LEMMA RestoreStepKeeps ==
  ASSUME SnapshotsAssumption, IInv, NEW a \in restore.actions, RestoreStep(a)
  PROVE  IInv'
<1>1. restore.at = "acting" /\ UNCHANGED <<gens, push, edits, alone>>
  BY DEF RestoreStep
<1>2. CASE ~Works(a, Was[a.path])
  <2>1. live' = live /\ restore' = Resting
    BY <1>2 DEF RestoreStep, Was
  <2> QED BY <1>1, <2>1, RestKeeps
<1>3. CASE Works(a, Was[a.path])
  <2>1. live' = After(a, Was[a.path]) /\ restore' = [restore EXCEPT !.actions = restore.actions \ {a}]
    BY <1>3 DEF RestoreStep, Was
  <2>2. /\ Rooted(live) /\ restore \in RestoreType
        /\ Faithful(Was) /\ a \in Action /\ a.path \in DOMAIN Was /\ Was[a.path] \in Node /\ (a.do # "delete" => Was[a.path].kind # "absent")
    <3>1. /\ Rooted(live) /\ restore \in RestoreType
          /\ Faithful(Was)
      BY DEF IInv, TypeInv, ActionInv
    <3>2. a \in Action
      <4> HIDE DEF Generation, Action
      <4> QED BY <3>1 DEF RestoreType
    <3>3. a.path \in DOMAIN Was /\ (a.do # "delete" => Was[a.path].kind # "absent")
      BY <3>2 DEF IInv, ActionInv, Action
    <3>4. Was[a.path] \in Node
      BY <3>1, <3>3 DEF Faithful, Entries
    <3> QED BY <3>1, <3>2, <3>3, <3>4
  <2>3. /\ restore' \in RestoreType
        /\ restore'.at = restore.at /\ restore'.of = restore.of /\ restore'.record = restore.record
        /\ restore'.actions = restore.actions \ {a}
    <3> HIDE DEF Generation, Action
    <3> QED BY <2>1, <2>2 DEF RestoreType
  <2>4. Rooted(live')
    BY <1>3, <2>1, <2>2, AfterRooted
  <2>5. TypeInv'
    BY <1>1, <2>3, <2>4 DEF IInv, TypeInv, Top
  <2>6. PushInv'
    BY <1>1 DEF IInv, PushInv, Top
  <2>7. LoadedInv'
    BY <1>1, <2>3 DEF IInv, LoadedInv, Top
  <2>8. ActionInv'
    BY <1>1, <2>3 DEF IInv, ActionInv, Was
  <2>9. AloneInv'
    <3> SUFFICES ASSUME alone, NEW p \in DOMAIN Was PROVE (Settled(p) \/ Awaited(p))'
      BY <1>1, <2>3 DEF AloneInv, Was
    <3> QED BY <1>1, <1>3, <2>1, <2>3, StillInOrder
  <2> QED BY <1>1, <2>5, <2>6, <2>7, <2>8, <2>9, HistoryStays DEF IInv
<1> QED BY <1>2, <1>3

-----------------------------------------------------------------------------
(* The theorems about snapshots                                             *)

LEMMA InitKeeps ==
  ASSUME SnapshotsAssumption, Init
  PROVE  IInv
<1>1. Rooted(live)
  <2>1. live \in Tree
    BY NodeFacts DEF Init, Tree
  <2>2. \A p \in Path : live[p].kind = "absent" => live[p] = Nothing
    BY NodeFacts DEF Init
  <2>3. ASSUME NEW p \in Path, NEW q \in Ancestors[p] PROVE live[q].kind = "dir"
    <3>1. q \in Path
      BY TreeFacts
    <3> QED BY <3>1, NodeFacts DEF Init
  <2> QED BY <2>1, <2>2, <2>3 DEF Rooted
<1>2. gens = << >> /\ gens \in Seq(Generation) /\ Top = 0 /\ DOMAIN gens = {}
  BY DEF Init, Top
<1>3. TypeInv
  <2>1. push \in PushType
    BY DEF Init, Idle, PushType
  <2>2. edits \in 0..Edits /\ alone \in BOOLEAN /\ Top <= Pushes /\ restore = Resting
    BY <1>2 DEF Init, SnapshotsAssumption
  <2> QED BY <1>1, <1>2, <2>1, <2>2, RestingFacts DEF TypeInv
<1>4. PushInv /\ LoadedInv /\ AloneInv
  BY RestingFacts DEF Init, PushInv, LoadedInv, AloneInv, Idle
<1>5. ActionInv
  BY RestingFacts DEF Init, ActionInv, Was
<1>6. NewestStay
  BY <1>2 DEF NewestStay
<1> QED BY <1>3, <1>4, <1>5, <1>6 DEF IInv

LEMMA NextKeeps ==
  ASSUME SnapshotsAssumption, IInv, [Next]_vars
  PROVE  IInv'
<1>1. CASE Push
  BY <1>1, BeginKeeps, CaptureKeeps, RemovalKeeps, WriteManifestKeeps, EffectFailsKeeps, MarkStatusKeeps,
     PruneSnapshotsKeeps, KillPushKeeps, PublishKeeps DEF Push, CaptureFails
<1>2. CASE Restore
  BY <1>2, StartRestoreKeeps, RestoreStepKeeps, RestoreDoneKeeps, RecordRestoreKeeps, KillRestoreKeeps DEF Restore
<1>3. CASE \E p \in Path, n \in Node : Edit(p, n)
  BY <1>3, EditKeeps
<1>4. CASE UNCHANGED vars
  <2>1. UNCHANGED <<live, gens, push, restore, edits, alone>>
    BY <1>4 DEF vars
  <2>2. TypeInv' /\ PushInv' /\ LoadedInv'
    BY <2>1 DEF IInv, TypeInv, PushInv, LoadedInv, Top
  <2> QED BY <2>1, <2>2, Undisturbed, HistoryStays DEF IInv
<1> QED BY <1>1, <1>2, <1>3, <1>4 DEF Next

\* The strengthening holds of every state.
THEOREM Invariance == ASSUME SnapshotsAssumption PROVE Spec => []IInv
<1>1. Init => IInv
  BY InitKeeps
<1>2. IInv /\ [Next]_vars => IInv'
  BY NextKeeps
<1> QED BY <1>1, <1>2, PTL DEF Spec

\* What stands at a path stands in a directory; a restore is of a generation that was made.
THEOREM TypeCorrect == ASSUME SnapshotsAssumption PROVE Spec => []TypeOK
<1>1. IInv => TypeOK
  <2> SUFFICES ASSUME IInv PROVE TypeOK
    OBVIOUS
  <2>1. live \in [Path -> Node] /\ \A p \in Path : Present(live, p) => \A q \in Ancestors[p] : IsDir(live, q)
    BY DEF IInv, TypeInv, Rooted, Tree, Present, IsDir
  <2>2. gens \in Seq(Generation) /\ Len(gens) \in 0..Pushes /\ DOMAIN gens = 1..Len(gens)
    BY DEF IInv, TypeInv, Top, SnapshotsAssumption
  <2>3. \A g \in DOMAIN gens : gens[g].status \in {"prepared", "applied", "failed"}
    <3> SUFFICES ASSUME NEW g \in DOMAIN gens PROVE gens[g] \in Generation
      BY DEF Generation, Statuses
    <3> HIDE DEF Generation
    <3> QED BY <2>2
  <2>4. push.at \in {"idle", "capturing", "captured", "publishing", "pruning"} /\ push.todo \subseteq Path
    BY DEF IInv, TypeInv, PushType
  <2>5. restore.at \in {"idle", "acting", "recording"} /\ restore.of \in 0..Len(gens)
    BY <2>2 DEF IInv, TypeInv, LoadedInv, ActionInv, Top, RestoreType
  <2>6. edits \in 0..Edits /\ alone \in BOOLEAN
    BY DEF IInv, TypeInv
  <2> QED BY <2>1, <2>2, <2>3, <2>4, <2>5, <2>6 DEF TypeOK
<1> QED BY <1>1, Invariance, PTL

\* A generation whose push has ended stays listed, with its contents, until max_generations
\* newer ones are: whatever pushes, restores and kills do meanwhile.
THEOREM GenerationsStay == ASSUME SnapshotsAssumption PROVE Spec => []NewestStay
<1>1. IInv => NewestStay
  BY DEF IInv
<1> QED BY <1>1, Invariance, PTL

\* A restore that ends, with no other writer, has made every recorded path what was recorded, but
\* for a directory above a path that it removed, which may be gone or have lost its mode, and for
\* a link of the user's through which the path reads as it was recorded: it stays.
THEOREM RestoresWhatItRecorded == ASSUME SnapshotsAssumption PROVE Spec => []RestoredAsRecorded
<1>1. IInv => RestoredAsRecorded
  <2> SUFFICES ASSUME IInv, restore.at = "recording", alone, NEW p \in DOMAIN Was
               PROVE  RestoredBut(p, {Nothing, Dir(Default)}) \/ ReadsAlike(p)
    BY DEF RestoredAsRecorded, Was
  <2>1. restore.actions = {} /\ (Settled(p) \/ Awaited(p))
    BY DEF IInv, ActionInv, AloneInv
  <2> QED BY <2>1 DEF Settled, Awaited, IsDir, RestoredBut, ReadsAlike, Was
<1> QED BY <1>1, Invariance, PTL

\* A restore changes the recorded paths alone, but for directories that it makes above one of
\* them or has found empty below one.
THEOREM RestoreSparesTheRest == ASSUME SnapshotsAssumption PROVE Spec => SparesTheRest
<1>1. ASSUME IInv, NEW a \in restore.actions, RestoreStep(a), NEW q \in Path
      PROVE  Spared(q)
  <2> DEFINE x == a.path
             e == Was[x]
  <2>1. /\ Rooted(live) /\ Faithful(Was) /\ x \in DOMAIN Was /\ x \in Path /\ a.do \in {"delete", "mkdir", "write", "folder"}
        /\ (a.do \in {"mkdir", "folder"} => e.kind = "dir")
        /\ Was = restore.record.entries
    <3>1. Rooted(live) /\ Faithful(Was) /\ x \in DOMAIN Was /\ (a.do \in {"mkdir", "folder"} => e.kind = "dir")
      BY <1>1 DEF IInv, TypeInv, ActionInv
    <3>2. a \in Action
      BY <1>1 DEF IInv, TypeInv, RestoreType
    <3> QED BY <3>1, <3>2 DEF Action, Was
  <2>2. live' = live \/ (Works(a, e) /\ live' = After(a, e))
    BY <1>1 DEF RestoreStep, Was
  <2>3. CASE live' = live
    BY <2>3 DEF Spared
  <2>4. CASE Works(a, e) /\ live' = After(a, e) /\ a.do = "delete" /\ \A r \in Ancestors[x] : IsDir(live, r)
    <3> DEFINE gone == Emptied(live, x, Prunable(x))
    <3>1. live' = Prune(live, x, Prunable(x))
      BY <2>4 DEF After
    <3>2. CASE q = x
      BY <2>1, <3>2 DEF Spared
    <3>3. CASE q # x /\ q \notin gone
      BY <2>1, <3>1, <3>3, PruneAt DEF Spared
    <3>4. CASE q \in gone
      <4>1. IsDir(live, q) /\ q \in Prunable(x)
        BY <2>4, <3>4 DEF Emptied
      <4>2. ASSUME NEW r \in Under(q) PROVE live'[r].kind = "absent"
        <5>1. r \in Path
          BY DEF Under
        <5>2. CASE r = x \/ r \in gone
          <6>1. Prune(live, x, Prunable(x))[r] = Nothing
            <7>1. x \in Path
              BY <2>1
            <7> HIDE DEF x
            <7>2. \A s \in Path : s = x \/ s \in gone => Prune(live, x, Prunable(x))[s] = Nothing
              BY <7>1, PruneAt
            <7> QED BY <5>1, <5>2, <7>2
          <6> QED BY <3>1, <6>1, NodeFacts
        <5>3. CASE r # x /\ r \notin gone
          <6>1. live[r].kind = "absent"
            BY <2>1, <3>4, <5>3, EmptiedBelow
          <6> QED BY <2>1, <3>1, <5>1, <5>3, <6>1, PruneAt
        <5> QED BY <5>2, <5>3
      <4>3. q \in DOMAIN Was \/ Ancestors[q] \cap DOMAIN Was # {}
        BY <2>1, <4>1 DEF Prunable
      <4> QED BY <2>1, <4>1, <4>2, <4>3 DEF Spared, Empty, Present
    <3> QED BY <3>2, <3>3, <3>4
  <2>5. CASE Works(a, e) /\ live' = After(a, e) /\ ~(a.do = "delete" /\ \A r \in Ancestors[x] : IsDir(live, r)) /\ live' # live
    <3> DEFINE n == IF a.do = "mkdir" THEN Dir(Default) ELSE e
    <3>1. live' = Put(live, x, n) /\ (n.kind # "dir" => a.do = "write") /\ a.do # "delete"
      BY <2>1, <2>5, NodeFacts DEF After
    <3> HIDE DEF n
    <3>2. CASE q = x
      BY <2>1, <3>2 DEF Spared
    <3>3. CASE q \in Ancestors[x] /\ live[q].kind = "absent"
      <4>1. live[q] = Nothing
        BY <2>1, <3>3 DEF Rooted
      <4> QED BY <2>1, <3>3, <4>1 DEF Spared
    <3>4. CASE x \in Ancestors[q] /\ n.kind # "dir"
      <4>1. /\ live'[q] = Nothing /\ q \in Under(x)
            /\ \A r \in Under(q) : live'[r] = Nothing
        <5>1. q \in Under(x) /\ \A r \in Under(q) : r \in Under(x)
          BY <2>1, <3>4, TreeFacts DEF Under
        <5>2. \A r \in Under(x) : Put(live, x, n)[r] = Nothing
          BY <2>1, <3>4, PutUnder
        <5> QED BY <3>1, <5>1, <5>2
      <4>2. CASE live[q].kind = "absent"
        BY <2>1, <4>1, <4>2 DEF Spared, Rooted
      <4>3. CASE live[q].kind # "absent"
        <5>1. IsDir(live, x) /\ Hollow(live, x)
          BY <2>1, <2>5, <3>1, <3>4, <4>3 DEF Works, Rooted, IsDir
        <5>2. IsDir(live, q)
          BY <4>1, <4>3, <5>1 DEF Hollow, IsDir
        <5> QED BY <2>1, <3>4, <4>1, <5>2, NodeFacts DEF Spared, Empty, Present
      <4> QED BY <4>2, <4>3
    <3>5. CASE q # x /\ ~(q \in Ancestors[x] /\ live[q].kind = "absent") /\ ~(x \in Ancestors[q] /\ n.kind # "dir")
      BY <2>1, <3>1, <3>5, PutAt DEF Spared
    <3> QED BY <3>2, <3>3, <3>4, <3>5
  <2> QED BY <2>2, <2>3, <2>4, <2>5
<1>2. IInv /\ [Next]_vars => [(\E a \in restore.actions : RestoreStep(a)) => \A q \in Path : Spared(q)]_vars
  BY <1>1
<1> QED BY <1>2, Invariance, PTL DEF Spec, SparesTheRest

-----------------------------------------------------------------------------
(* The census.  What fails or is closed is found at its topmost path: all   *)
(* above it has been entered, so the walk was there.                        *)

Sides == {"repository", "live"}
SessionType ==
  [at : {"closed", "review", "done"}, census : [entries : SUBSET Paths, known : SUBSET Paths],
   obsolete : SUBSET Paths, excluded : SUBSET Paths]

TreeInv ==
  /\ setting \in Settings /\ repo \in Census!Lookups(RepoKinds) /\ found \in Census!Lookups(LiveKinds)
  /\ bases \subseteq Paths \ {Root} /\ session \in SessionType

\* The session has the census of these trees, and would reclaim what an unrestricted one misses.
CensusInv ==
  /\ session.at # "closed" =>
       /\ \E selected \in SUBSET Paths :
            session.census.entries \subseteq Census!EntriesOf(Census!Failing, Census!Closed, selected)
       /\ session.census.known = Census!Known(Census!Failing, session.census.entries)
  /\ session.at = "closed" => session = Census!Between
  /\ session.obsolete # {} => Census!Unrestricted /\ session.obsolete \cap Census!EntriesOf(Census!Failing, Census!Closed, {}) = {}

\* No Base is of what the walk never names.
BasesInv == \A p \in bases : ({p} \cup Above[p]) \cap Controls = {}
WithinInv ==
  /\ session.census.known \subseteq session.census.entries
  /\ session.excluded \subseteq session.census.entries /\ session.obsolete \subseteq bases

ObservationInv == TreeInv /\ CensusInv /\ BasesInv /\ WithinInv

-----------------------------------------------------------------------------
(* The walk                                                                 *)

LEMMA PathsFinite == ASSUME Census!DirectoryAssumption PROVE IsFiniteSet(Paths)
BY DEF Census!DirectoryAssumption, Census!IsFiniteSet, IsFiniteSet

LEMMA Topmost ==
  ASSUME Census!DirectoryAssumption, NEW S \in SUBSET Paths, S # {}
  PROVE  \E m \in S : Above[m] \cap S = {}
<1> DEFINE Level(p) == Cardinality(Above[p])
           R == OpToRel(<, Nat)
           T == {Level(p) : p \in S}
<1>1. ASSUME NEW p \in Paths PROVE Level(p) \in Nat /\ IsFiniteSet(Above[p]) /\ Above[p] \subseteq Paths
  BY PathsFinite, FS_Subset, FS_CardinalityType DEF Census!DirectoryAssumption
<1>2. ASSUME NEW p \in Paths, NEW q \in Above[p] PROVE Level(q) < Level(p)
  <2>1. Above[q] \subseteq Above[p] /\ q \notin Above[q] /\ q \in Paths
    BY <1>1 DEF Census!DirectoryAssumption
  <2>2. Level(q) <= Level(p) /\ Level(q) # Level(p)
    BY <1>1, <2>1, FS_Subset
  <2> QED BY <1>1, <2>1, <2>2
<1>3. T \subseteq Nat /\ T # {}
  BY <1>1
<1>4. \A x, y \in Nat : <<y, x>> \in R <=> y < x
  BY DEF OpToRel
<1>5. PICK x \in T : \A y \in T : ~(<<y, x>> \in R)
  <2> HIDE DEF R, T
  <2> QED BY <1>3, NatLessThanWellFounded, WFMin DEF R
<1>6. PICK m \in S : x = Level(m)
  BY <1>5
<1>7. ASSUME NEW q \in Above[m], q \in S PROVE FALSE
  <2>1. Level(q) \in T /\ Level(q) \in Nat /\ Level(m) \in Nat /\ Level(q) < Level(m)
    BY <1>1, <1>2, <1>7
  <2> HIDE DEF R, T, Level
  <2> QED BY <1>4, <1>5, <1>6, <2>1
<1> QED BY <1>7

\* A lookup finds something below directories and followed links alone.
LEMMA TreesStand ==
  ASSUME Census!DirectoryAssumption, TreeInv, NEW side \in Sides, NEW q \in Paths, Census!Present(side, q)
  PROVE  Census!Tree(side)[q] \in Census!Kinds /\ \A r \in Above[q] : r \in Paths /\ Census!Tree(side)[r] \in {"dir", "link"}
BY DEF Census!DirectoryAssumption, TreeInv, Census!Lookups, Census!Present, Census!Tree, Sides

\* An exclusion of a node as it is includes that of it as a directory.
LEMMA ExcludedAsFolder == ASSUME NEW p, Census!Excluded(p, FALSE) PROVE Census!Excluded(p, TRUE)
  BY DEF Census!Excluded, Census!Static

\* The walk gets to what stands at q, if it neither fails nor stops above.
LEMMA WayIsEntered ==
  ASSUME Census!DirectoryAssumption, TreeInv, NEW side \in Sides, NEW q \in Paths, Census!Present(side, q),
         \A r \in Above[q] : ~Census!Excluded(r, TRUE) /\ r \notin Controls \cup Census!Closed \cup Census!Failing
  PROVE  Census!Scanned(side, q)
<1> DEFINE N == {r \in Above[q] : ~Census!Enters(side, r)}
<1>1. SUFFICES ASSUME N # {} PROVE FALSE
  BY DEF Census!Scanned
<1>2. N \in SUBSET Paths /\ Above[q] \subseteq Paths
  BY DEF Census!DirectoryAssumption
<1>3. PICK m \in N : Above[m] \cap N = {}
  <2> HIDE DEF N
  <2> QED BY <1>1, <1>2, Topmost
<1>4. m \in Paths /\ m \in Above[q] /\ Above[m] \subseteq Above[q] /\ ~Census!Enters(side, m)
  BY <1>2 DEF Census!DirectoryAssumption
<1>5. Census!Tree(side)[m] \in {"dir", "link"}
  BY <1>4, TreesStand
<1>6. Census!Scanned(side, m)
  BY <1>3, <1>4, <1>5 DEF Census!Scanned, Census!Present
<1>7. Census!Visited(side, m) /\ ~Census!Excluded(m, TRUE) /\ ~Census!Excluded(m, FALSE) /\ m \notin Census!Closed /\ m \notin Census!Failing /\ m \notin Controls
  BY <1>4, <1>6, ExcludedAsFolder DEF Census!Visited
<1>8. ~Census!Fails(side, m)
  BY <1>4, <1>7 DEF Census!Failing, Sides
<1>9. Census!Tree(side)[m] = "dir" \/ (Census!Tree(side)[m] = "link" /\ side = "live" /\ setting.follow)
  BY <1>5, <1>7, <1>8 DEF Census!Fails, Sides, Census!Links
<1>10. Census!Marked(side, m)
  BY <1>4, <1>7, <1>9 DEF Census!Enters
<1>11. m \in Census!Closed
  BY <1>4, <1>7, <1>9, <1>10 DEF Census!Closed, Sides
<1> QED BY <1>7, <1>11

\* What the walk got to and vouches for is a file, a directory it may enter or a live link to no directory.
LEMMA VisitedIsSound ==
  ASSUME Census!DirectoryAssumption, TreeInv, NEW side \in Sides, NEW q \in Paths, Census!Scanned(side, q),
         ~Census!Excluded(q, TRUE), q \notin Controls \cup Census!Failing
  PROVE  IF side = "repository" THEN repo[q] \in {"dir", "file"}
         ELSE found[q] \in {"dir", "file", "filelink", "dangling"} \/ (setting.follow /\ found[q] = "link")
<1>1. Census!Visited(side, q) /\ ~Census!Excluded(q, FALSE) /\ ~Census!Fails(side, q)
  BY ExcludedAsFolder DEF Census!Visited, Census!Failing, Sides
<1>2. Census!Tree(side)[q] \in Census!Kinds \ {"absent"}
  BY TreesStand DEF Census!Scanned, Census!Present
<1>3. CASE side = "repository"
  BY <1>1, <1>2, <1>3 DEF Census!Fails, Census!Tree, Census!Links, Census!Kinds
<1>4. CASE side = "live"
  BY <1>1, <1>2, <1>4 DEF Census!Fails, Census!Tree, Census!Links, Census!Kinds
<1> QED BY <1>3, <1>4 DEF Sides

\* What a census knows has been found on a side, at the end of a way that was entered.
LEMMA KnownIsFound ==
  ASSUME Census!DirectoryAssumption, TreeInv, NEW selected \in SUBSET Paths, NEW entries,
         entries \subseteq Census!EntriesOf(Census!Failing, Census!Closed, selected),
         NEW p \in Census!Known(Census!Failing, entries)
  PROVE  /\ p \in Census!Found /\ ~Census!Excluded(p, FALSE)
         /\ ({p} \cup Above[p]) \cap (Census!Closed \cup Census!Failing \cup Controls) = {}
         /\ \A q \in Above[p] : ~Census!Excluded(q, TRUE)
<1>1. p \in Census!Found /\ ~Census!Excluded(p, FALSE) /\ ({p} \cup Above[p]) \cap (Census!Closed \cup Census!Failing) = {}
  BY DEF Census!Known, Census!EntriesOf
<1>2. PICK side \in Sides : Census!Payload(side, p)
  BY <1>1 DEF Census!Found, Sides
<1> QED BY <1>1, <1>2 DEF Census!Payload, Census!Visited, Census!Scanned, Census!Enters

-----------------------------------------------------------------------------
(* What the invariant says of a review                                      *)

LEMMA ObservedFromInv == ASSUME Census!DirectoryAssumption, ObservationInv PROVE Census!ObservedIsKnown
<1> SUFFICES ASSUME session.at = "review", NEW p \in Census!Observed, NEW q \in Paths, q \in Above[p]
             PROVE  /\ repo[q] \in {"absent", "dir", "file"}
                    /\ found[q] \in {"absent", "dir", "file", "filelink", "dangling"} \/ (setting.follow /\ found[q] = "link")
  BY DEF Census!ObservedIsKnown
<1>1. PICK selected \in SUBSET Paths : session.census.entries \subseteq Census!EntriesOf(Census!Failing, Census!Closed, selected)
  BY DEF ObservationInv, CensusInv
<1>2. p \in Census!Known(Census!Failing, session.census.entries) /\ p \in Paths
  BY DEF ObservationInv, CensusInv, Census!Observed, TreeInv, SessionType
<1>3. /\ ({p} \cup Above[p]) \cap (Census!Closed \cup Census!Failing \cup Controls) = {}
      /\ \A r \in Above[p] : ~Census!Excluded(r, TRUE)
  BY <1>1, <1>2, KnownIsFound DEF ObservationInv
<1>4. Above[q] \subseteq Above[p]
  BY <1>2 DEF Census!DirectoryAssumption
<1>5. \A side \in Sides : Census!Present(side, q) => Census!Scanned(side, q)
  BY <1>3, <1>4, WayIsEntered DEF ObservationInv
<1>6. ~Census!Excluded(q, TRUE) /\ q \notin Controls \cup Census!Failing
  BY <1>3
<1>7. repo[q] \in {"absent", "dir", "file"}
  BY <1>5, <1>6, VisitedIsSound DEF ObservationInv, Census!Present, Census!Tree, Sides
<1>8. found[q] \in {"absent", "dir", "file", "filelink", "dangling"} \/ (setting.follow /\ found[q] = "link")
  BY <1>5, <1>6, VisitedIsSound DEF ObservationInv, Census!Present, Census!Tree, Sides
<1> QED BY <1>7, <1>8

\* The topmost path above q that the walk does not enter is a leaf; without one, q is.
LEMMA LeafAtOrAbove ==
  ASSUME Census!DirectoryAssumption, TreeInv, NEW side \in Sides, NEW q \in Paths, Census!Present(side, q),
         Census!Tree(side)[q] \notin Census!Folders
  PROVE  \E r \in {q} \cup Above[q] : r \in Paths /\ Census!Leaf(side, r) /\ (r # q => ~Census!Enters(side, r))
<1> DEFINE N == {r \in Above[q] : ~Census!Enters(side, r)}
<1>1. CASE N = {}
  <2>1. Census!Scanned(side, q)
    BY <1>1 DEF Census!Scanned
  <2>2. Census!Tree(side)[q] \in Census!Kinds \ {"dir", "sealed"} /\ Census!Tree(side)[q] \notin {"link", "loop"}
    BY TreesStand DEF Census!Folders
  <2>3. Census!Leaf(side, q)
    BY <2>1, <2>2 DEF Census!Leaf
  <2> QED BY <2>3
<1>2. CASE N # {}
  <2>1. N \in SUBSET Paths /\ Above[q] \subseteq Paths
    BY DEF Census!DirectoryAssumption
  <2>2. PICK m \in N : Above[m] \cap N = {}
    <3> HIDE DEF N
    <3> QED BY <1>2, <2>1, Topmost
  <2>3. m \in Paths /\ m \in Above[q] /\ Above[m] \subseteq Above[q] /\ ~Census!Enters(side, m)
    BY <2>1 DEF Census!DirectoryAssumption
  <2>4. Census!Tree(side)[m] \in {"dir", "link"}
    BY <2>3, TreesStand
  <2>5. Census!Scanned(side, m)
    BY <2>2, <2>3, <2>4 DEF Census!Scanned, Census!Present
  <2>6. Census!Leaf(side, m)
    BY <2>3, <2>4, <2>5 DEF Census!Leaf, Census!Enters, Census!Folders, Census!Kinds, Sides
  <2> QED BY <2>3, <2>6
<1> QED BY <1>1, <1>2

LEMMA BuriedFromInv == ASSUME Census!DirectoryAssumption, ObservationInv PROVE Census!NothingIsBuriedUnseen
<1> SUFFICES ASSUME session.at = "review", NEW side \in Sides, NEW p \in Census!Observed, NEW q \in Paths,
                    p \in Above[q] \/ q \in Above[p], Census!Present(side, q), Census!Tree(side)[q] \notin Census!Folders,
                    ~(p \in Above[q] /\ Census!Excluded(p, TRUE))
             PROVE  Census!Blockers(side, p) \cap ({q} \cup Above[q]) # {}
  BY DEF Census!NothingIsBuriedUnseen, Census!InTheWay, Sides
<1>1. PICK selected \in SUBSET Paths : session.census.entries \subseteq Census!EntriesOf(Census!Failing, Census!Closed, selected)
  BY DEF ObservationInv, CensusInv
<1>2. p \in Census!Known(Census!Failing, session.census.entries) /\ p \in Paths
  BY DEF ObservationInv, CensusInv, Census!Observed, TreeInv, SessionType
<1>3. p \notin Census!Closed \cup Census!Failing \cup Controls
  BY <1>1, <1>2, KnownIsFound DEF ObservationInv
<1>4. PICK r \in {q} \cup Above[q] : r \in Paths /\ Census!Leaf(side, r) /\ (r # q => ~Census!Enters(side, r))
  BY LeafAtOrAbove DEF ObservationInv
<1>5. r # p
  <2> SUFFICES ASSUME r = p PROVE FALSE
    OBVIOUS
  <2>1. p \in Above[q] /\ ~Census!Excluded(p, TRUE) /\ ~Census!Enters(side, p)
    BY <1>2, <1>4 DEF Census!DirectoryAssumption
  <2>2. Census!Tree(side)[p] \in {"dir", "link"}
    BY <2>1, TreesStand DEF ObservationInv
  <2>3. Census!Visited(side, p) /\ ~Census!Excluded(p, FALSE) /\ ~Census!Fails(side, p)
    BY <1>2, <1>3, <1>4, <2>1, ExcludedAsFolder DEF Census!Visited, Census!Leaf, Census!Failing, Sides
  <2>4. Census!Tree(side)[p] = "dir" \/ (Census!Tree(side)[p] = "link" /\ side = "live" /\ setting.follow)
    BY <2>1, <2>2, <2>3 DEF Census!Fails, Sides, Census!Links
  <2>5. Census!Marked(side, p)
    BY <1>3, <2>1, <2>4 DEF Census!Enters
  <2>6. p \in Census!Closed
    BY <1>2, <2>1, <2>3, <2>4, <2>5 DEF Census!Closed, Sides
  <2> QED BY <1>3, <2>6
<1>6. r \in Above[p] \/ p \in Above[r]
  BY <1>2, <1>4, <1>5 DEF Census!DirectoryAssumption
<1> QED BY <1>4, <1>5, <1>6 DEF Census!Blockers

\* Without patterns, markers, controls and failures, a child that was not found is gone.
LEMMA ObsoleteIsGone ==
  ASSUME Census!DirectoryAssumption, TreeInv, BasesInv, Census!Unrestricted,
         NEW p \in bases, p \notin Census!EntriesOf(Census!Failing, Census!Closed, {})
  PROVE  /\ Census!Nothing("repository", p) /\ Census!Nothing("live", p)
         /\ \A q \in Above[p] : repo[q] \in {"absent", "dir", "file"} /\ found[q] \notin {"sealed", "loop", "other"}
<1>1. p \in Paths \ {Root} /\ Above[p] \subseteq Paths /\ Above[Root] = {} /\ Root \in Paths
  BY DEF TreeInv, Census!DirectoryAssumption
<1>2. \A q \in Paths, folder \in BOOLEAN : ~Census!Excluded(q, folder)
  <2>1. \A q \in Paths : setting.static[q] = "none" /\ Census!Parts(q) \subseteq Paths
    BY DEF Census!Unrestricted, Census!DirectoryAssumption, Census!Parts
  <2> QED BY <2>1 DEF Census!Excluded, Census!Static
<1>3. \A q \in Paths : ~Census!GitMatches(q)
  <2>1. Census!GitControls = {Root} /\ \A q \in Paths : setting.git[Root][q] = "none"
    BY DEF Census!Unrestricted, Census!GitControls
  <2>2. ASSUME NEW q \in Paths, NEW c \in Census!GitControls, setting.git[c][q] # "none" PROVE FALSE
    BY <2>1, <2>2
  <2> QED BY <2>2 DEF Census!GitMatches
<1>4. \A q \in Paths, folder \in BOOLEAN : ~Census!Hidden(q, folder)
  <2>1. \A q \in Paths : setting.static[q] = "none" /\ Census!Parts(q) \subseteq Paths
    BY DEF Census!Unrestricted, Census!DirectoryAssumption, Census!Parts
  <2> QED BY <1>3, <2>1 DEF Census!Hidden, Census!Static, Census!GitIgnored
<1>5. ~Census!Ignored(p)
  BY <1>1, <1>4 DEF Census!Ignored, Census!Parts
<1>6. Census!Closed = {} /\ Census!Failing = {}
  BY DEF Census!Unrestricted
<1>7. p \notin Census!Found
  BY <1>1, <1>2, <1>4, <1>5, <1>6 DEF Census!EntriesOf
<1>8. ASSUME NEW side \in Sides, NEW q \in {p} \cup Above[p], Census!Present(side, q) PROVE Census!Scanned(side, q)
  <2>1. Above[q] \subseteq Above[p] /\ q \in Paths
    BY <1>1 DEF Census!DirectoryAssumption
  <2>2. Above[p] \cap Controls = {}
    BY DEF BasesInv
  <2> QED BY <1>1, <1>2, <1>6, <1>8, <2>1, <2>2, WayIsEntered
<1>9. \A q \in {p} \cup Above[p] :
        /\ repo[q] \in {"absent", "dir", "file"}
        /\ found[q] \in {"absent", "dir", "file", "filelink", "dangling"} \/ (setting.follow /\ found[q] = "link")
  <2> TAKE q \in {p} \cup Above[p]
  <2>1. q \in Paths /\ ~Census!Excluded(q, TRUE) /\ q \notin Controls \cup Census!Failing
    BY <1>1, <1>2, <1>6 DEF BasesInv
  <2> QED BY <1>8, <2>1, VisitedIsSound DEF Census!Present, Census!Tree, Sides
<1>10. ASSUME NEW side \in Sides PROVE Census!Tree(side)[p] \notin {"file", "filelink", "dangling"}
  <2> SUFFICES ASSUME Census!Tree(side)[p] \in {"file", "filelink", "dangling"} PROVE FALSE
    OBVIOUS
  <2>1. Census!Visited(side, p) /\ ~Census!Excluded(p, FALSE) /\ ~Census!Fails(side, p)
    BY <1>1, <1>2, <1>6, <1>8 DEF Census!Present, Census!Visited, BasesInv, Census!Failing, Sides
  <2>2. p \in Census!Found
    BY <1>1, <2>1 DEF Census!Payload, Census!Found, Sides
  <2> QED BY <1>7, <2>2
<1>11. Census!Nothing("repository", p) /\ Census!Nothing("live", p)
  BY <1>9, <1>10 DEF Census!Nothing, Census!Tree, Sides
<1> QED BY <1>9, <1>11

-----------------------------------------------------------------------------
(* The steps                                                                *)

LEMMA CensusInit == ASSUME Census!DirectoryAssumption, Census!Init PROVE ObservationInv
BY DEF Census!DirectoryAssumption, Census!Init, ObservationInv, TreeInv, CensusInv, BasesInv, WithinInv, Census!Between, Census!NoCensus, SessionType

LEMMA EntriesArePaths ==
  ASSUME NEW selected \in SUBSET Paths, NEW failing \in SUBSET Paths, NEW closed
  PROVE  Census!EntriesOf(failing, closed, selected) \subseteq Paths
BY DEF Census!EntriesOf, Census!Found

\* The trees stand still: what the walk finds stays as it is.
LEMMA SameTrees ==
  ASSUME UNCHANGED <<setting, repo, found>>
  PROVE  /\ Census!Failing' = Census!Failing /\ Census!Closed' = Census!Closed /\ Census!Unrestricted' = Census!Unrestricted
         /\ \A f, c, s : Census!EntriesOf(f, c, s)' = Census!EntriesOf(f, c, s)
BY DEF Census!Failing, Census!Closed, Census!Unrestricted, Census!EntriesOf, Census!Fails, Census!Visited, Census!Scanned, Census!Enters, Census!Excluded, Census!Static, Census!Marked, Census!Present,
       Census!Tree, Census!Read, Census!Found, Census!Payload, Census!Ignored, Census!Hidden, Census!GitIgnored, Census!GitMatches, Census!GitControls, Census!Named

LEMMA OpenStep ==
  ASSUME Census!DirectoryAssumption, ObservationInv, NEW selected \in SUBSET Paths, NEW guarded, Census!Open(selected, guarded)
  PROVE  ObservationInv'
<1> DEFINE all     == Census!EntriesOf(Census!Failing, Census!Closed, selected)
           entries == IF selected = {} THEN all ELSE all \cap selected
<1>1. entries \subseteq all /\ all \subseteq Paths
  BY EntriesArePaths DEF Census!Failing
<1>2. /\ session' = [at |-> "review", excluded |-> {},
                     census |-> [entries |-> entries, known |-> Census!Known(Census!Failing, entries)],
                     obsolete |-> IF selected = {} /\ ~guarded /\ Census!Unrestricted THEN bases \ all ELSE {}]
      /\ UNCHANGED <<setting, repo, found, bases>>
  BY DEF Census!Open
<1>3. Census!Known(Census!Failing, entries) \subseteq entries
  BY DEF Census!Known
<1> HIDE DEF entries
<1>4. TreeInv' /\ WithinInv'
  BY <1>1, <1>2, <1>3 DEF ObservationInv, TreeInv, WithinInv, SessionType
<1>5. CensusInv'
  <2>1. Census!Failing' = Census!Failing /\ Census!Closed' = Census!Closed /\ Census!Unrestricted' = Census!Unrestricted
        /\ \A f, c, s : Census!EntriesOf(f, c, s)' = Census!EntriesOf(f, c, s)
    BY <1>2, SameTrees
  <2>2. session.census.entries' = entries /\ session.census.known' = Census!Known(Census!Failing, entries) /\ session.at' = "review"
    BY <1>2
  <2>3. (\E s \in SUBSET Paths : session.census.entries \subseteq Census!EntriesOf(Census!Failing, Census!Closed, s))'
    BY <1>1, <2>1, <2>2
  <2>4. (session.census.known = Census!Known(Census!Failing, session.census.entries))'
    BY <2>1, <2>2 DEF Census!Known
  <2>5. session.obsolete' # {} => Census!Unrestricted /\ selected = {} /\ session.obsolete' = bases \ all
    BY <1>2
  <2>6. (session.obsolete # {} => Census!Unrestricted /\ session.obsolete \cap Census!EntriesOf(Census!Failing, Census!Closed, {}) = {})'
    BY <2>1, <2>5
  <2> QED BY <2>2, <2>3, <2>4, <2>6 DEF CensusInv
<1>6. BasesInv'
  BY <1>2 DEF ObservationInv, BasesInv
<1> QED BY <1>4, <1>5, <1>6 DEF ObservationInv

LEMMA ExcludeStep ==
  ASSUME ObservationInv, NEW p \in Paths, Census!Exclude(p)
  PROVE  ObservationInv'
<1>1. /\ session.at = "review" /\ p \in session.census.entries
      /\ session' = [session EXCEPT !.excluded = @ \cup {p}] /\ UNCHANGED <<setting, repo, found, bases>>
  BY DEF Census!Exclude
<1>2. /\ session.census' = session.census /\ session.at' = session.at /\ session.obsolete' = session.obsolete
      /\ session.excluded' = session.excluded \cup {p}
  BY <1>1 DEF ObservationInv, TreeInv, SessionType
<1>3. TreeInv' /\ WithinInv'
  BY <1>1, <1>2 DEF ObservationInv, TreeInv, WithinInv, SessionType
<1>4. CensusInv'
  <2>1. Census!Failing' = Census!Failing /\ Census!Closed' = Census!Closed /\ Census!Unrestricted' = Census!Unrestricted
        /\ \A f, c, s : Census!EntriesOf(f, c, s)' = Census!EntriesOf(f, c, s)
    BY <1>1, SameTrees
  <2>2. (session.census.known = Census!Known(Census!Failing, session.census.entries))'
    BY <1>1, <1>2, <2>1 DEF ObservationInv, CensusInv, Census!Known
  <2> QED BY <1>1, <1>2, <2>1, <2>2 DEF ObservationInv, CensusInv
<1>5. BasesInv'
  BY <1>1 DEF ObservationInv, BasesInv
<1> QED BY <1>3, <1>4, <1>5 DEF ObservationInv

LEMMA ReclaimStep ==
  ASSUME ObservationInv, Census!Reclaim
  PROVE  ObservationInv' /\ bases \ bases' \subseteq session.obsolete
<1>1. /\ bases' \in {bases, bases \ session.obsolete}
      /\ session.at = "review" /\ session' = [session EXCEPT !.at = "done", !.obsolete = @ \cap bases']
      /\ UNCHANGED <<setting, repo, found>>
  BY DEF Census!Reclaim
<1>2. /\ session.census' = session.census /\ session.at' = "done" /\ session.obsolete' = session.obsolete \cap bases'
      /\ session.excluded' = session.excluded
  BY <1>1 DEF ObservationInv, TreeInv, SessionType
<1>3. TreeInv' /\ WithinInv'
  BY <1>1, <1>2 DEF ObservationInv, TreeInv, WithinInv, SessionType
<1>4. CensusInv'
  <2>1. Census!Failing' = Census!Failing /\ Census!Closed' = Census!Closed /\ Census!Unrestricted' = Census!Unrestricted
        /\ \A f, c, s : Census!EntriesOf(f, c, s)' = Census!EntriesOf(f, c, s)
    BY <1>1, SameTrees
  <2>2. (session.census.known = Census!Known(Census!Failing, session.census.entries))'
    BY <1>1, <1>2, <2>1 DEF ObservationInv, CensusInv, Census!Known
  <2> QED BY <1>1, <1>2, <2>1, <2>2 DEF ObservationInv, CensusInv
<1>5. BasesInv'
  BY <1>1 DEF ObservationInv, BasesInv
<1> QED BY <1>1, <1>3, <1>4, <1>5 DEF ObservationInv

LEMMA CensusNext == ASSUME Census!DirectoryAssumption, ObservationInv, [Census!Next]_Census!vars PROVE ObservationInv'
<1>1. ASSUME NEW guarded \in BOOLEAN, Census!Open({}, guarded) PROVE ObservationInv'
  BY <1>1, OpenStep
<1>2. ASSUME NEW p \in Paths \ {Root}, Census!Open({p}, FALSE) PROVE ObservationInv'
  BY <1>2, OpenStep
<1>3. ASSUME NEW p \in Paths, Census!Exclude(p) PROVE ObservationInv'
  BY <1>3, ExcludeStep
<1>4. CASE Census!Reclaim
  BY <1>4, ReclaimStep
<1>5. CASE UNCHANGED Census!vars
  <2>1. UNCHANGED <<setting, repo, found>> /\ session' = session /\ bases' = bases
    BY <1>5 DEF Census!vars
  <2>2. Census!Failing' = Census!Failing /\ Census!Closed' = Census!Closed /\ Census!Unrestricted' = Census!Unrestricted
        /\ \A f, c, s : Census!EntriesOf(f, c, s)' = Census!EntriesOf(f, c, s)
    BY <2>1, SameTrees
  <2>3. CensusInv'
    BY <2>1, <2>2 DEF ObservationInv, CensusInv, Census!Known
  <2> QED BY <2>1, <2>3 DEF ObservationInv, TreeInv, BasesInv, WithinInv
<1> QED BY <1>1, <1>2, <1>3, <1>4, <1>5 DEF Census!Next

\* The census of a session stays that of the trees, and what it would reclaim is not found in it.
THEOREM ObservationHolds == ASSUME Census!DirectoryAssumption PROVE Census!Spec => []ObservationInv
<1> QED BY CensusInit, CensusNext, PTL DEF Census!Spec

\* Every variable holds a value of its kind; a session excludes and reclaims what it has only.
THEOREM CensusTypeCorrect == ASSUME Census!DirectoryAssumption PROVE Census!Spec => []Census!TypeOK
<1>1. ObservationInv => Census!TypeOK
  BY DEF ObservationInv, TreeInv, WithinInv, SessionType, Census!TypeOK
<1> QED BY <1>1, ObservationHolds, PTL

\* A child is observed only if the way to it is known on both sides: nothing on it is a link that
\* may not be followed, cannot be read or is of another kind (census_directory).
THEOREM WaysAreKnown == ASSUME Census!DirectoryAssumption PROVE Census!Spec => []Census!ObservedIsKnown
<1> QED BY ObservedFromInv, ObservationHolds, PTL

\* What is in the way of an observed child is a blocker of it or lies under one, unless it is under
\* an excluded directory in the place of the child itself (DirectoryCensus.blockers).
THEOREM BlockersAreSeen == ASSUME Census!DirectoryAssumption PROVE Census!Spec => []Census!NothingIsBuriedUnseen
<1> QED BY BuriedFromInv, ObservationHolds, PTL

\* Only the Base of a child that both sides are known to lack is reclaimed (_reclaim_obsolete_bases).
THEOREM ReclaimsAreSafe == ASSUME Census!DirectoryAssumption PROVE Census!Spec => Census!ReclaimedAreGone
<1>1. ASSUME ObservationInv, [Census!Next]_Census!vars
      PROVE  [\A p \in bases \ bases' :
                /\ Census!Nothing("repository", p) /\ Census!Nothing("live", p)
                /\ \A q \in Above[p] : repo[q] \in {"absent", "dir", "file"} /\ found[q] \notin {"sealed", "loop", "other"}]_Census!vars
  <2> SUFFICES ASSUME NEW p \in bases \ bases'
               PROVE  /\ Census!Nothing("repository", p) /\ Census!Nothing("live", p)
                      /\ \A q \in Above[p] : repo[q] \in {"absent", "dir", "file"} /\ found[q] \notin {"sealed", "loop", "other"}
    OBVIOUS
  <2>1. Census!Reclaim
    BY <1>1 DEF Census!Next, Census!vars, Census!Open, Census!Exclude
  <2>2. p \in session.obsolete
    BY <1>1, <2>1, ReclaimStep
  <2>3. Census!Unrestricted /\ p \notin Census!EntriesOf(Census!Failing, Census!Closed, {})
    BY <1>1, <2>2 DEF ObservationInv, CensusInv
  <2> QED BY <1>1, <2>3, ObsoleteIsGone DEF ObservationInv
<1> QED BY <1>1, ObservationHolds, PTL DEF Census!Spec, Census!ReclaimedAreGone
==============================================================================
