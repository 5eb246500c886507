---------------------------- MODULE SyncDirectory ----------------------------
(***************************************************************************)
(* The census of a directory target (sync_directory.py), what it lets the  *)
(* Observation of a child conclude, and the Bases a Sync reclaims of       *)
(* children that are gone from both trees.  A tree is what a lookup finds  *)
(* at each path; below what is no directory it finds nothing.              *)
(***************************************************************************)
EXTENDS Naturals, FiniteSets

CONSTANTS
  Root,             \* the path of the target
  Paths,            \* the paths at and below it
  Above,            \* Above[p]: the paths above p, the root among them
  Marks, Controls,  \* paths named as a skip marker, or .gitignore
  RepoKinds,        \* what may stand in the repository: RepoKinds[p]
  LiveKinds,        \* what may stand in the live tree
  Settings          \* the configurations

Kinds == {"absent", "file", "dir", "link", "loop", "filelink", "dangling", "sealed", "other"}

DirectoryAssumption ==
  /\ Root \in Paths /\ Above \in [Paths -> SUBSET Paths] /\ Above[Root] = {}
  /\ \A p \in Paths \ {Root} : Root \in Above[p]
  /\ IsFiniteSet(Paths) /\ \A p \in Paths : p \notin Above[p] /\ \A q \in Above[p] : Above[q] \subseteq Above[p]
  /\ \A p \in Paths : \A q, r \in Above[p] : q = r \/ q \in Above[r] \/ r \in Above[q]
  /\ Marks \cup Controls \subseteq Paths \ {Root} /\ Marks \cap Controls = {}
  /\ RepoKinds \in [Paths -> SUBSET Kinds] /\ LiveKinds \in [Paths -> SUBSET Kinds]
  /\ \A s \in Settings : s.follow \in BOOLEAN /\ s.gitignore \in BOOLEAN /\ s.files \in {"prompt", "follow"}
  /\ \A s \in Settings : s.static \in [Paths -> {"none", "any", "dir", "keep"}]
  /\ \A s \in Settings : s.git \in [Controls \cup {Root} -> [Paths -> {"none", "ignore", "keep"}]]

VARIABLES
  setting,  \* dir_symlink_mode, file_symlink_mode, ignore patterns, git controls
  repo,     \* the repository tree
  live,     \* the live tree
  bases,    \* children that have a Base
  session   \* the session on this target

vars == <<setting, repo, live, bases, session>>

Folders == {"dir", "link", "loop", "sealed"}  \* what stat calls a directory
Links == {"link", "loop", "filelink", "dangling"}
Lookups(kinds) ==
  {t \in [Paths -> UNION {kinds[p] : p \in Paths}] :
     \A p \in Paths : t[p] \in kinds[p] /\ (t[p] # "absent" => \A q \in Above[p] : t[q] \in {"dir", "link"})}

NoCensus == [entries |-> {}, known |-> {}]
Between == [at |-> "closed", census |-> NoCensus, obsolete |-> {}, excluded |-> {}]

TypeOK ==
  /\ setting \in Settings /\ repo \in Lookups(RepoKinds) /\ live \in Lookups(LiveKinds)
  /\ bases \subseteq Paths \ {Root}
  /\ session.at \in {"closed", "review", "done"}
  /\ session.census.known \subseteq session.census.entries /\ session.census.entries \subseteq Paths
  /\ session.obsolete \subseteq bases /\ session.excluded \subseteq session.census.entries

Init ==
  /\ setting \in Settings /\ repo \in Lookups(RepoKinds) /\ live \in Lookups(LiveKinds)
  /\ bases = {p \in Paths \ {Root} : ({p} \cup Above[p]) \cap Controls = {}}
  /\ session = Between

-----------------------------------------------------------------------------
(* Controls                                                                *)

Tree(side) == IF side = "repository" THEN repo ELSE live
Present(side, p) == Tree(side)[p] # "absent"
Parts(p) == Above[p] \ {Root}
Children(p) == {q \in Paths : p \in Above[q] /\ \A r \in Above[q] : r = p \/ r \in Above[p]}

\* ignore.patterns, which are known before the walk
Static(p, folder) == setting.static[p] = "any" \/ (folder /\ setting.static[p] = "dir")
Excluded(p, folder) == p # Root /\ (Static(p, folder) \/ \E q \in Parts(p) : Static(q, TRUE))

Marked(side, p) == \E q \in Children(p) \cap Marks : Present(side, q)

\* the walk goes on into p: a directory without a marker, or a live link in follow mode, but
\* nothing named .gitignore
Enters(side, p) ==
  /\ \/ Tree(side)[p] = "dir"
     \/ Tree(side)[p] = "link" /\ side = "live" /\ setting.follow
  /\ p \notin Controls /\ ~Excluded(p, TRUE) /\ ~Marked(side, p)
Scanned(side, p) == Present(side, p) /\ \A q \in Above[p] : Enters(side, q)
Visited(side, p) == Scanned(side, p) /\ p \notin Controls

\* a directory with a marker on either side is closed on both
Closed == {p \in Paths : \E side \in {"repository", "live"} :
             /\ Visited(side, p) /\ Marked(side, p) /\ ~Excluded(p, TRUE)
             /\ Tree(side)[p] = "dir" \/ (Tree(side)[p] = "link" /\ side = "live" /\ setting.follow)}

\* .gitignore files of the repository, and those above the target
Read == {c \in Controls : setting.gitignore /\ repo[c] = "file" /\ Scanned("repository", c)}
GitControls == {Root} \cup Read
GitMatches(p) ==
  LET said == {c \in GitControls : setting.git[c][p] # "none" /\ (c = Root \/ Above[c] \subseteq Above[p])}
      last == CHOOSE c \in said : \A d \in said : Cardinality(Above[d]) <= Cardinality(Above[c])
  IN said # {} /\ setting.git[last][p] = "ignore"
GitIgnored(p) == \E q \in {p} \cup Parts(p) : GitMatches(q)

\* the patterns of dotman come first, and may keep what Git ignores
Hidden(p, folder) == Static(p, folder) \/ (setting.static[p] # "keep" /\ GitIgnored(p))
Ignored(p) == p # Root /\ (Hidden(p, FALSE) \/ \E q \in Parts(p) : Hidden(q, TRUE))

-----------------------------------------------------------------------------
(* The census                                                              *)

\* why the walk cannot vouch for what is at and below p
Fails(side, p) ==
  LET k == Tree(side)[p]
  IN /\ Visited(side, p) /\ ~Excluded(p, FALSE)
     /\ \/ side = "repository" /\ k \in Links
        \/ side = "live" /\ ~Excluded(p, TRUE) /\ (k = "loop" \/ (k = "link" /\ ~setting.follow))
        \/ k = "sealed" /\ ~Excluded(p, TRUE)
        \/ k = "other"
        \/ p = Root /\ k \in {"file", "filelink"}

Payload(side, p) ==
  /\ Visited(side, p) /\ ~Excluded(p, FALSE) /\ ~Fails(side, p)
  /\ Tree(side)[p] \in {"file", "filelink", "dangling"}

Failing == {p \in Paths : \E side \in {"repository", "live"} : Fails(side, p)}
Found == {p \in Paths : \E side \in {"repository", "live"} : Payload(side, p)}

\* what nothing may be written over: it is no directory, or must not be looked into
Leaf(side, p) ==
  /\ Scanned(side, p)
  /\ \/ Tree(side)[p] \in Kinds \ {"dir", "sealed"}
        /\ ~(side = "live" /\ setting.follow /\ Tree(side)[p] \in {"link", "loop"} /\ ~Excluded(p, TRUE))
     \/ Excluded(p, Tree(side)[p] \in Folders)
     \/ p \in Controls
     \/ Marked(side, p)
Blockers(side, p) == {q \in Paths \ {p} : Leaf(side, q) /\ (q \in Above[p] \/ p \in Above[q])}

\* a folder the walk has named, whatever it made of it
Named(side, p) ==
  /\ Visited(side, p) /\ ~Excluded(p, FALSE) /\ Tree(side)[p] \in Folders
  /\ Excluded(p, TRUE) => side = "repository" /\ Tree(side)[p] \in Links

\* entries, and those that no failure at or above them leaves unknown
EntriesOf(failing, closed, selected) ==
  {p \in Found \cup failing \cup {q \in selected : Above[q] \cap failing # {}} :
     /\ ({p} \cup Above[p]) \cap closed = {}
     /\ ~Ignored(p) /\ ~Excluded(p, FALSE)
     /\ Hidden(p, TRUE) => ~Named("repository", p) /\ ~Named("live", p)}
KnownHere(failing, entries) == {p \in entries : p \notin failing}                  \* mutant
Known(failing, entries) == {p \in entries : ({p} \cup Above[p]) \cap failing = {}}

ClosedIsNoMatter ==                                                               \* mutant
  /\ \A p \in Paths : setting.static[p] = "none"
  /\ Read = {} /\ setting.git[Root] = [p \in Paths |-> "none"] /\ Failing = {}
Unrestricted ==
  /\ \A p \in Paths : setting.static[p] = "none"
  /\ Closed = {} /\ Read = {} /\ setting.git[Root] = [p \in Paths |-> "none"] /\ Failing = {}

-----------------------------------------------------------------------------
(* Observation of the children, and the session                            *)

\* _read_endpoint: what a lookup of the whole path ends at
ReadRepository(p) ==
  IF \E q \in {p} \cup Above[p] : repo[q] \in Links THEN "error"
  ELSE CASE repo[p] \in {"absent", "dir", "sealed"} -> "missing"
         [] repo[p] = "file" -> "present"
         [] OTHER -> "error"
ReadLive(p) ==
  CASE live[p] \in {"absent", "dir", "sealed"} -> "missing"
    [] live[p] \in {"file", "filelink"} -> "present"
    [] live[p] = "dangling" /\ setting.files = "follow" -> "missing"
    [] OTHER -> "error"

Observed == session.census.known
Troubled ==
  (session.census.entries \ Observed) \cup {p \in Observed : "error" \in {ReadRepository(p), ReadLive(p)}}

\* opening a session on the whole target (selected = {}) or on some children; a Guard anywhere
\* above or on a path rule takes the proof of completeness away
Open(selected, guarded) ==
  /\ session.at = "closed"
  /\ LET failing == Failing
         all     == EntriesOf(failing, Closed, selected)
         entries == IF selected = {} THEN all ELSE all \cap selected
     IN session' = [at |-> "review", excluded |-> {},
                    census |-> [entries |-> entries, known |-> Known(failing, entries)],
                    obsolete |-> IF selected = {} /\ ~guarded /\ Unrestricted THEN bases \ all ELSE {}]
  /\ UNCHANGED <<setting, repo, live, bases>>

Exclude(p) ==
  /\ session.at = "review" /\ p \in session.census.entries \ session.excluded
  /\ session' = [session EXCEPT !.excluded = @ \cup {p}]
  /\ UNCHANGED <<setting, repo, live, bases>>

\* an execution without a failure ends with _reclaim_obsolete_bases
Reclaim ==
  /\ session.at = "review"
  /\ bases' = IF session.excluded = {} /\ Troubled = {} THEN bases \ session.obsolete ELSE bases
  /\ session' = [session EXCEPT !.at = "done", !.obsolete = @ \cap bases']
  /\ UNCHANGED <<setting, repo, live>>

Next ==
  \/ \E guarded \in BOOLEAN : Open({}, guarded)
  \/ \E p \in Paths \ {Root} : Open({p}, FALSE)
  \/ \E p \in Paths : Exclude(p)
  \/ Reclaim
Spec == Init /\ [][Next]_vars

-----------------------------------------------------------------------------

Nothing(side, p) == Tree(side)[p] \in {"absent", "dir"} \/ (side = "live" /\ setting.follow /\ live[p] = "link")

\* docs/sync.md:107-120: a child is observed only if the way to it is known on both sides.  No
\* link that may not be followed, directory that may not be read or node of another kind is
\* above it; a file may be, and so may a live link to nothing.
ObservedIsKnown ==
  session.at = "review" =>
    \A p \in Observed, q \in Paths :
      q \in Above[p] =>
        /\ repo[q] \in {"absent", "dir", "file"}
        /\ live[q] \in {"absent", "dir", "file", "filelink", "dangling"} \/ (setting.follow /\ live[q] = "link")

\* what the walk finds in the way of p at q, or above q
InTheWay(side, p, q) ==
  (p \in Above[q] \/ q \in Above[p]) /\ Present(side, q) /\ Tree(side)[q] \notin Folders =>
    Blockers(side, p) \cap ({q} \cup Above[q]) # {}

\* docs/sync.md, "Structural changes": what stands above or below an observed child on the side
\* that it would be written to, and is no directory to a lookup, is one of its blockers or lies
\* under one; but for a child in whose place there is a directory that a pattern leaves out, which
\* is a blocker to docs/sync.md:149 and to nobody in the code.
NothingIsBuriedUnseen ==
  session.at = "review" =>
    \A side \in {"repository", "live"}, p \in Observed, q \in Paths :
      (p \in Above[q] /\ Excluded(p, TRUE)) \/ InTheWay(side, p, q)

\* docs/sync.md, "Policy maintenance": a Base is reclaimed only of a child that neither side has
\* anything at, the ways to which are known.
ReclaimedAreGone ==
  [][\A p \in bases \ bases' :
       /\ Nothing("repository", p) /\ Nothing("live", p)
       /\ \A q \in Above[p] : repo[q] \in {"absent", "dir", "file"} /\ live[q] \notin {"sealed", "loop", "other"}]_vars

\* docs/cli.md:501: "anything with pull capability still rejects it, so it is never read as a
\* deleted live file": a child is Missing on the live side only if no link on the way dangles.
MissingIsAbsent ==
  session.at = "review" /\ setting.files = "prompt" =>
    \A p \in Observed : ReadLive(p) = "missing" => \A q \in Above[p] : live[q] # "dangling"
=============================================================================
