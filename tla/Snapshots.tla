------------------------------ MODULE Snapshots ------------------------------
(***************************************************************************)
(* The generations a push records before it touches live files, their      *)
(* retention, and `dotman restore` (snapshot.py, operation_runner.py).  A  *)
(* push holds the operation lock; a restore and the user do not.           *)
(***************************************************************************)
EXTENDS Naturals, Sequences, FiniteSets

CONSTANTS
  ByName,          \* the live paths, in the order of their names
  Ancestors,       \* Ancestors[p]: the paths above p
  Structural,      \* paths in a managed directory, and its root: a directory may stand there
  Roots,           \* roots of managed directories, of which a push sets the mode
  Linked,          \* paths at which the user may have put a symlink
  Data,            \* bytes with a mode, the mode of a directory, or the target of a link
  Behind,          \* what the target of a link is, outside of the paths and never changed
  Default,         \* the mode mkdir gives
  MaxGenerations,  \* [snapshots] max_generations
  Pushes, Edits,   \* bounds: pushes and edits by the user
  Recorded         \* the sets of paths a push may have work for

Path == {ByName[i] : i \in 1..Len(ByName)}

SnapshotsAssumption ==
  /\ Ancestors \in [Path -> SUBSET Path]
  /\ \A p \in Path : p \notin Ancestors[p] /\ \A q \in Ancestors[p] : Ancestors[q] \subseteq Ancestors[p]
  /\ Roots \subseteq Structural /\ Structural \subseteq Path /\ Linked \subseteq Path /\ Default \in Data
  /\ Behind \in [Data -> [kind : {"absent", "file", "dir"}, data : Data]]
  /\ \A x \in Data : Behind[x].kind = "absent" => Behind[x].data = Default
  /\ \A x \in Data : Behind[x].kind = "dir" => \A p \in Path : Linked \cap Ancestors[p] = {}
  /\ MaxGenerations \in Nat \ {0} /\ Pushes \in Nat /\ Edits \in Nat
  /\ Recorded \subseteq SUBSET Path \ {{}}

VARIABLES
  live,     \* what stands at each path
  gens,     \* the generation directories, in the order of their creation
  push,     \* the push that holds the lock: where it is, and the paths it has still to write
  restore,  \* the restore that runs: where it is, the record it loaded, and its actions
  edits,    \* edits the user has made
  alone     \* whether nobody else has changed a live path since the restore read them

vars == <<live, gens, push, restore, edits, alone>>

Node == [kind : {"absent", "file", "link", "dir"}, data : Data]
Nothing == [kind |-> "absent", data |-> Default]
File(x) == [kind |-> "file", data |-> x]
Dir(x) == [kind |-> "dir", data |-> x]

Present(L, p) == L[p].kind # "absent"
IsDir(L, p) == L[p].kind = "dir"
Under(p) == {q \in Path : p \in Ancestors[q]}

NoEntries == [p \in {} |-> Nothing]
Fresh == [listed |-> FALSE, whole |-> TRUE, status |-> "prepared", entries |-> NoEntries]
Idle == [at |-> "idle", todo |-> {}, failed |-> FALSE]
Resting == [at |-> "idle", of |-> 0, record |-> Fresh, actions |-> {}]

TypeOK ==
  /\ live \in [Path -> Node]
  /\ \A p \in Path : Present(live, p) => \A q \in Ancestors[p] : IsDir(live, q)
  /\ Len(gens) \in 0..Pushes
  /\ \A g \in DOMAIN gens : gens[g].status \in {"prepared", "applied", "failed"}
  /\ push.at \in {"idle", "capturing", "captured", "publishing", "pruning"} /\ push.todo \subseteq Path
  /\ restore.at \in {"idle", "acting", "recording"} /\ restore.of \in 0..Len(gens)
  /\ edits \in 0..Edits /\ alone \in BOOLEAN

Init ==
  /\ live = [p \in Path |-> IF \E q \in Path : p \in Ancestors[q] THEN Dir(Default) ELSE Nothing]
  /\ gens = << >> /\ push = Idle /\ restore = Resting /\ edits = 0 /\ alone = TRUE

-----------------------------------------------------------------------------
(* What a write, a deletion or a mkdir does to the tree                    *)

\* mkdir(parents=True) makes what is missing above p; a file above it is an error
Put(L, p, n) ==
  [q \in Path |-> CASE q = p -> n
                    [] q \in Ancestors[p] /\ ~Present(L, q) -> Dir(Default)
                    [] p \in Ancestors[q] /\ n.kind # "dir" -> Nothing
                    [] OTHER -> L[q]]
Reachable(L, p) == \A q \in Ancestors[p] : L[q].kind \in {"absent", "dir"}
Empty(L, p) == \A q \in Under(p) : ~Present(L, q)
Hollow(L, p) == \A q \in Under(p) : L[q].kind \in {"absent", "dir"}  \* remove_empty_directory_tree

\* directories above p that a deletion of p leaves empty, up to and with the given ones
Prune(L, p, prunable) ==
  LET gone == {q \in Ancestors[p] \cap prunable : \A r \in Under(q) \ {p} : Present(L, r) => r \in Ancestors[p] \cap prunable}
  IN [q \in Path |-> IF q = p \/ q \in gone THEN Nothing ELSE L[q]]

-----------------------------------------------------------------------------
(* A push: capture, prepared manifest, effects, final status, retention    *)

Top == Len(gens)
Latest(g) == [gens EXCEPT ![Top] = g]

\* create_push_snapshot: the directory of the generation comes first
Begin(paths) ==
  /\ push.at = "idle" /\ Top < Pushes
  /\ gens' = Append(gens, Fresh)
  /\ push' = [Idle EXCEPT !.at = "capturing", !.todo = paths]
  /\ UNCHANGED <<live, restore, edits, alone>>

\* a path that is not structural may not be a directory; a failure removes the generation
Capture ==
  /\ push.at = "capturing"
  /\ IF \E p \in push.todo \ Structural : IsDir(live, p)
     THEN /\ gens' = SubSeq(gens, 1, Top - 1)
          /\ push' = Idle
     ELSE /\ gens' = Latest([Fresh EXCEPT !.entries = [p \in push.todo |-> live[p]]])
          /\ push' = [push EXCEPT !.at = "captured"]
  /\ UNCHANGED <<live, restore, edits, alone>>

WriteManifest ==
  /\ push.at = "captured"
  /\ gens' = Latest([gens[Top] EXCEPT !.listed = TRUE])
  /\ push' = [push EXCEPT !.at = "publishing"]
  /\ UNCHANGED <<live, restore, edits, alone>>

CaptureFails ==
  /\ push.at \in {"capturing", "captured"}
  /\ gens' = SubSeq(gens, 1, Top - 1)
  /\ push' = Idle
  /\ UNCHANGED <<live, restore, edits, alone>>

\* one frozen effect (SyncExecution models which, and in which order): a write over a file,
\* a link or an empty structural directory, a deletion that prunes, or the mode of a root
Publish(p, n) ==
  /\ push.at = "publishing" /\ p \in push.todo /\ Reachable(live, p) /\ n # live[p]
  /\ n.kind # "link" /\ (p \in Roots <=> n.kind = "dir")
  /\ CASE n.kind = "file"   -> IsDir(live, p) => p \in Structural /\ Hollow(live, p)
       [] n.kind = "absent" -> ~IsDir(live, p)
       [] OTHER             -> IsDir(live, p)
  /\ live' = IF n.kind = "absent" THEN Prune(live, p, Ancestors[p] \ Roots) ELSE Put(live, p, n)
  /\ push' = [push EXCEPT !.todo = @ \ {p}]
  /\ alone' = FALSE
  /\ UNCHANGED <<gens, restore, edits>>

EffectFails ==
  /\ push.at = "publishing" /\ push.todo # {} /\ ~push.failed
  /\ push' = [push EXCEPT !.todo = {}, !.failed = TRUE]
  /\ UNCHANGED <<live, gens, restore, edits, alone>>

\* mark_snapshot_status writes the whole manifest from what the push has in memory
MarkStatus ==
  /\ push.at = "publishing" /\ push.todo = {}
  /\ gens' = Latest([gens[Top] EXCEPT !.status = IF push.failed THEN "failed" ELSE "applied"])
  /\ push' = [push EXCEPT !.at = "pruning"]
  /\ UNCHANGED <<live, restore, edits, alone>>

\* list_snapshots: directories with a manifest, newest first
Listed == {g \in DOMAIN gens : gens[g].listed}
Newer(g) == {h \in Listed : h > g}
Expired == {g \in Listed : Cardinality(Newer(g)) >= MaxGenerations}

\* rmtree takes the manifest and the contents away in either order; a kill leaves the rest
PruneSnapshots ==
  /\ push.at = "pruning"
  /\ IF Expired = {}
     THEN push' = Idle /\ UNCHANGED gens
     ELSE \E g \in {e \in Expired : Newer(e) \cap Expired = {}} :
            \/ gens' = [gens EXCEPT ![g].listed = FALSE, ![g].whole = FALSE] /\ UNCHANGED push
            \/ gens' = [gens EXCEPT ![g].whole = FALSE] /\ push' = Idle  \* killed, or an error
            \/ gens' = [gens EXCEPT ![g].listed = FALSE] /\ push' = Idle
  /\ UNCHANGED <<live, restore, edits, alone>>

KillPush ==
  /\ push.at # "idle" /\ push' = Idle
  /\ UNCHANGED <<live, gens, restore, edits, alone>>

-----------------------------------------------------------------------------
(* A restore                                                               *)

\* exists(), stat() and read_bytes() go through a link, is_symlink() and readlink() do not
Through(now) == IF now.kind = "link" THEN Behind[now.data] ELSE now
InOrder(e, now) == IF e.kind \in {"absent", "file"} THEN Through(now) = e ELSE now = e

VerdictByKind(e, now) ==                                                          \* mutant
  IF e.kind = now.kind THEN "noop" ELSE IF e.kind = "absent" THEN "delete" ELSE "update"
\* an update where nothing stands is called create, and executed alike
Verdict(e, now) ==
  IF InOrder(e, now) THEN "noop" ELSE IF e.kind = "absent" THEN "delete" ELSE "update"

Index(p) == CHOOSE i \in 1..Len(ByName) : ByName[i] = p
ByPath(p, q) == Index(p) < Index(q)
Depth(p) == Cardinality(Ancestors[p])
Deepest(p, q) == Depth(p) > Depth(q) \/ (Depth(p) = Depth(q) /\ ByPath(p, q))
Shallowest(p, q) == Depth(p) < Depth(q) \/ (Depth(p) = Depth(q) /\ ByPath(p, q))

\* build_restore_actions, without the noops that run_restore_operation skips: directories are
\* made without a mode, and given theirs as folders
RestoreActions(entries) ==
  LET work    == {p \in DOMAIN entries : Verdict(entries[p], live[p]) # "noop"}
      folders == {p \in DOMAIN entries : entries[p].kind = "dir"}
      deleted == {p \in work : entries[p].kind = "absent"}
  IN [do : {"delete"}, path : deleted]
       \cup [do : {"mkdir"}, path : {p \in folders \cap work : Through(live[p]).kind # "dir"}]
       \cup [do : {"write"}, path : (work \ folders) \ deleted]
       \cup [do : {"folder"}, path : folders \cap work]

\* _order_restore_actions
Phase == [delete |-> 1, mkdir |-> 2, write |-> 3, folder |-> 4]
Precedes(a, b) ==
  \/ Phase[a.do] < Phase[b.do]
  \/ a.do = b.do /\ a.do = "delete" /\ Deepest(a.path, b.path)
  \/ a.do = b.do /\ a.do \in {"mkdir", "folder"} /\ Shallowest(a.path, b.path)
  \/ a.do = b.do /\ a.do = "write" /\ ByPath(a.path, b.path)

\* find_snapshot_matches and load_snapshot; stored content that is missing stops here
Restorable(g) == g \in Listed /\ (gens[g].whole \/ \A p \in DOMAIN gens[g].entries : gens[g].entries[p].kind # "file")

\* so does a directory behind a link where bytes are to be read
Readable(entries) ==
  \A p \in DOMAIN entries : entries[p].kind \in {"absent", "file"} /\ live[p].kind = "link" => Through(live[p]).kind # "dir"

StartRestore(g) ==
  /\ restore.at = "idle" /\ Restorable(g) /\ Readable(gens[g].entries)
  /\ restore' = [at |-> "acting", of |-> g, record |-> gens[g], actions |-> RestoreActions(gens[g].entries)]
  /\ alone' = TRUE
  /\ UNCHANGED <<live, gens, push, edits>>

\* directories a deletion may empty: up to the topmost recorded one above the path
Prunable(p) ==
  LET above == Ancestors[p] \cap DOMAIN restore.record.entries
  IN {q \in Ancestors[p] : \E t \in above : q = t \/ t \in Ancestors[q]}

\* execute_restore_action on the tree as it is now: whether it works, and what it leaves
Works(a, e) ==
  CASE a.do = "delete" -> ~IsDir(live, a.path)
    [] a.do = "write" -> /\ Reachable(live, a.path)
                         /\ IsDir(live, a.path) => e.kind = "file" /\ Hollow(live, a.path)
    [] OTHER -> Reachable(live, a.path) /\ live[a.path].kind # "link"
After(a, e) ==
  CASE a.do = "delete" -> IF \A q \in Ancestors[a.path] : IsDir(live, q) THEN Prune(live, a.path, Prunable(a.path)) ELSE live
    [] a.do = "mkdir"  -> IF IsDir(live, a.path) THEN live ELSE Put(live, a.path, Dir(Default))
    [] OTHER           -> Put(live, a.path, e)

RestoreStep(a) ==
  /\ restore.at = "acting" /\ \A b \in restore.actions \ {a} : Precedes(a, b)
  /\ LET e == restore.record.entries[a.path]
     IN IF Works(a, e)
        THEN live' = After(a, e) /\ restore' = [restore EXCEPT !.actions = @ \ {a}]
        ELSE UNCHANGED live /\ restore' = Resting
  /\ UNCHANGED <<gens, push, edits, alone>>

RestoreDone ==
  /\ restore.at = "acting" /\ restore.actions = {}
  /\ restore' = [restore EXCEPT !.at = "recording"]
  /\ UNCHANGED <<live, gens, push, edits, alone>>

\* record_snapshot_restore writes the manifest the restore has loaded, and its directory if need be
RecordRestore ==
  /\ restore.at = "recording"
  /\ gens' = [gens EXCEPT ![restore.of].listed = TRUE,
                          ![restore.of].status = restore.record.status]
  /\ restore' = Resting
  /\ UNCHANGED <<live, push, edits, alone>>

KillRestore ==
  /\ restore.at # "idle" /\ restore' = Resting
  /\ UNCHANGED <<live, gens, push, edits, alone>>

-----------------------------------------------------------------------------

\* the user, or another program: any change that a file system allows
Edit(p, n) ==
  /\ edits < Edits /\ n # live[p] /\ (n.kind = "link" => p \in Linked)
  /\ n.kind = "absent" => n = Nothing
  /\ n.kind = "dir" => p \in Structural \/ Under(p) # {}
  /\ \A q \in Ancestors[p] : IsDir(live, q)
  /\ n.kind # "dir" => Empty(live, p)
  /\ live' = [live EXCEPT ![p] = n]
  /\ edits' = edits + 1 /\ alone' = FALSE
  /\ UNCHANGED <<gens, push, restore>>

Push ==
  \/ \E paths \in Recorded : Begin(paths)
  \/ Capture \/ CaptureFails \/ WriteManifest \/ EffectFails \/ MarkStatus \/ PruneSnapshots \/ KillPush
  \/ \E p \in push.todo, n \in Node : (n.kind = "absent" => n = Nothing) /\ Publish(p, n)

Restore ==
  \/ \E g \in DOMAIN gens : StartRestore(g)
  \/ \E a \in restore.actions : RestoreStep(a)
  \/ RestoreDone \/ RecordRestore \/ KillRestore

Next == Push \/ Restore \/ \E p \in Path, n \in Node : Edit(p, n)
Spec == Init /\ [][Next]_vars

-----------------------------------------------------------------------------

\* docs/snapshot.md:76, 78, 80: "If a recorded path existed before publication, restore should
\* restore its recorded bytes and mode. [...] If a recorded path did not exist before publication,
\* restore should remove it.  Restore may prune empty parent directories left behind", with no
\* other writer since the restore read the tree.
RestoredBut(p, besides) ==
  LET was == restore.record.entries
  IN \/ live[p] = was[p]
     \/ IsDir(was, p) /\ live[p] \in besides /\ \E q \in Under(p) \cap DOMAIN was : was[q] = Nothing
RestoresBytesAndModes ==
  restore.at = "recording" /\ alone => \A p \in DOMAIN restore.record.entries : RestoredBut(p, {Nothing})

\* The same, with two exceptions. The mode of a directory above a path that was absent: it may
\* have been in order when the restore read it, be pruned with what a push had put there, and be
\* made again for another path. And a link that the user has put at a path, behind which the
\* restore finds what was recorded: a file with these bytes and this mode, or, the link being
\* dangling, nothing; it stays, as exists() goes through it (snapshot.py:354).
ReadsAlike(p) ==
  LET was == restore.record.entries[p]
  IN was.kind \in {"absent", "file"} /\ live[p].kind = "link" /\ Through(live[p]) = was
RestoredAsRecorded ==
  restore.at = "recording" /\ alone =>
    \A p \in DOMAIN restore.record.entries : RestoredBut(p, {Nothing, Dir(Default)}) \/ ReadsAlike(p)

\* docs/cli.md:589: a restore touches the recorded paths alone, but for directories it makes
\* above one of them or finds empty below one.
Spared(q) ==
  LET recorded == DOMAIN restore.record.entries
  IN \/ live'[q] = live[q] \/ q \in recorded
     \/ live[q] = Nothing /\ \E p \in recorded : q \in Ancestors[p]
     \/ IsDir(live, q) /\ Empty(live', q) /\ Ancestors[q] \cap recorded # {}
SparesTheRest == [][(\E a \in restore.actions : RestoreStep(a)) => \A q \in Path : Spared(q)]_vars

\* docs/cli.md, "Snapshot History": whatever the order of pushes, restores and kills, a
\* generation whose push has ended is listed with its contents, unless max_generations newer
\* ones are; what a killed capture has left counts for nothing.
NewestStay ==
  \A g \in DOMAIN gens :
    gens[g].status # "prepared" /\ Cardinality({h \in DOMAIN gens : h > g /\ gens[h].listed}) < MaxGenerations
      => gens[g].listed /\ gens[g].whole
=============================================================================
