---------------------------- MODULE StructuredFiles ----------------------------
(***************************************************************************)
(* A structured file of which only a region is synced: Render merges the   *)
(* repository's copy into the live one, Capture cleans the live one up     *)
(* (docs/repository.md, partial structured files; transforms/json.py,      *)
(* yaml.py, plist.py, toml.py, xml.py).  A file holds a document of        *)
(* scalars as they are spelled; it is neat when it has the layout that the *)
(* transform writes.                                                       *)
(***************************************************************************)
EXTENDS Integers, Sequences, FiniteSets, TLC

CONSTANTS
  Doc,        \* format |-> the documents that somebody may write
  Request,    \* format |-> selectors with the strategy that both commands follow
  JsonText, YamlText,    \* key |-> text
  Value,      \* typed scalars; a word of yaml has the type "text"
  Reading,    \* yaml version |-> plain word |-> the value it has there
  Nothing, Failed

VARIABLES format, request, live, repo
vars == <<format, request, live, repo>>

\* how a yaml file spells a scalar
Spelling == [style : {"plain", "quoted"}, word : DOMAIN Reading["1.1"]]
Typed(type, datum) == [type |-> type, datum |-> datum]
Spelled(style, word) == [style |-> style, word |-> word]
IsMap(v) == v \notin Value \cup Spelling \cup {Failed}

Json == INSTANCE KeyTransform WITH Text <- JsonText
Yaml == INSTANCE KeyTransform WITH Text <- YamlText
Toml == INSTANCE TomlTransform WITH Scalar <- Value
Plist == INSTANCE KeyTransform WITH Text <- JsonText
Xml  == INSTANCE XmlTransform WITH NoText <- "", NoNote <- ""

-----------------------------------------------------------------------------
(* Reading and writing scalars                                             *)

RECURSIVE Scalars(_)
Scalars(v) == IF IsMap(v) THEN UNION {Scalars(v[k]) : k \in DOMAIN v} ELSE {v}

\* a missing file is an empty document; a number that json.loads turns into
\* inf or nan is refused
JsonLoad(file) ==
  IF ~file.there THEN Json!Empty
  ELSE IF \E v \in Scalars(file.doc) : v.datum = "inf" THEN Failed ELSE file.doc

\* what a reader of one version makes of a spelling
Read(version, s) == IF s.style = "quoted" THEN Typed("text", s.word) ELSE Reading[version][s.word]
Ambiguous(s) == Read("1.1", s) # Read("1.2", s)

RECURSIVE YamlValue(_), YamlDump(_)
YamlValue(v) ==
  IF IsMap(v) THEN [k \in DOMAIN v |-> YamlValue(v[k])]
  ELSE IF Ambiguous(v) THEN Typed("ambiguous", v.word) ELSE Read("1.1", v)

YamlLoad(file) == IF file.there THEN YamlValue(file.doc) ELSE Json!Empty

\* a text that either version would take for something else is quoted
YamlDump(v) ==
  IF IsMap(v) THEN [k \in DOMAIN v |-> YamlDump(v[k])]
  ELSE IF v.type = "text" /\ \E n \in DOMAIN Reading : Reading[n][v.datum] # v
       THEN Spelled("quoted", v.datum) ELSE Spelled("plain", v.datum)

\* a uid fits a binary plist alone, and the transforms write xml by default
PlistLoad(file) == IF file.there THEN file.doc ELSE Plist!Empty
PlistDump(doc) == IF \E v \in Scalars(doc) : v.type = "uid" THEN Failed ELSE doc

-----------------------------------------------------------------------------
(* The engines                                                             *)

\* types count: 1, 1.0 and true are different values
StrictlyEqual(u, v) == u = v

\* bytes that already mean the result are kept as they are, and a result that
\* is not written need not be writable
Output(doc, text, compare, meaning) ==
  IF compare.there /\ meaning # Failed /\ StrictlyEqual(meaning, doc) THEN compare
  ELSE IF text = Failed THEN Failed
  ELSE [there |-> TRUE, doc |-> text, neat |-> TRUE]

JsonOutput(doc, compare) == Output(doc, doc, compare, JsonLoad(compare))
YamlOutput(doc, compare) == Output(doc, YamlDump(doc), compare, YamlLoad(compare))
PlistOutput(doc, compare) == Output(doc, PlistDump(doc), compare, PlistLoad(compare))

JsonTransform(base, over, compare, mode, action, r) ==
  LET under == JsonLoad(base)  upper == JsonLoad(over)
  IN IF under = Failed \/ (mode = "merge" /\ upper = Failed) THEN Failed
     ELSE JsonOutput(IF mode = "merge" THEN Json!Merged(under, upper, action, r)
                     ELSE Json!Cleaned(under, action, r), compare)

YamlTransform(base, over, compare, mode, action, r) ==
  YamlOutput(IF mode = "merge" THEN Yaml!Merged(YamlLoad(base), YamlLoad(over), action, r)
             ELSE Yaml!Cleaned(YamlLoad(base), action, r), compare)

PlistTransform(base, over, compare, mode, action, r) ==
  PlistOutput(IF mode = "merge" THEN Plist!Merged(PlistLoad(base), PlistLoad(over), action, r)
              ELSE Plist!Cleaned(PlistLoad(base), action, r), compare)

TomlLoad(file) == IF file.there THEN file.doc ELSE Toml!Document
TomlTransform(base, over, compare, mode, action, r) ==
  LET doc == IF mode = "merge" THEN Toml!Merged(TomlLoad(base), TomlLoad(over), action, r)
             ELSE Toml!Cleaned(TomlLoad(base), action, r)
  IN IF ~Toml!HasSelectors(r) THEN Failed
     ELSE IF compare.there /\ Toml!Meaning(compare.doc) = Toml!Meaning(doc) THEN compare
     ELSE [there |-> TRUE, doc |-> doc, neat |-> TRUE]

\* there is no empty xml document: a missing base gives way to the overlay, and
\* without an overlay a merge is a cleanup
XmlTransform(base, over, compare, mode, action, r) ==
  LET merges == mode = "merge" /\ over.there
      doc == IF ~merges THEN Xml!Select(base.doc, action, r.exact)
             ELSE IF ~base.there THEN over.doc
             ELSE Xml!Merged(base.doc, over.doc, action, r.exact)
  IN IF r.exact = {} \/ (~base.there /\ ~merges) THEN Failed
     ELSE Output(doc, doc, compare, compare.doc)

Transform(base, over, compare, mode, action) ==
  CASE format = "json"  -> JsonTransform(base, over, compare, mode, action, request)
    [] format = "yaml"  -> YamlTransform(base, over, compare, mode, action, request)
    [] format = "plist" -> PlistTransform(base, over, compare, mode, action, request)
    [] format = "toml"  -> TomlTransform(base, over, compare, mode, action, request)
    [] format = "xml"   -> XmlTransform(base, over, compare, mode, action, request)

-----------------------------------------------------------------------------
(* The pair of commands, each compared with the file it replaces           *)

RenderAction(strategy)  == IF strategy = "allow" THEN "remove" ELSE "retain"
CaptureAction(strategy) == IF strategy = "allow" THEN "retain" ELSE "remove"

Render(app, own)  == Transform(app, own, app, "merge", RenderAction(request.strategy))
Capture(app, own) == Transform(app, app, own, "cleanup", CaptureAction(request.strategy))

Absent == [there |-> FALSE, doc |-> Nothing, neat |-> FALSE]
File(f) == {Absent} \cup [there : {TRUE}, doc : Doc[f], neat : BOOLEAN]

Init ==
  /\ format \in DOMAIN Doc /\ request \in Request[format]
  /\ live \in File(format) /\ repo \in File(format)

\* a command that fails leaves both files as they are
Push == LET out == Render(live, repo)
        IN out # Failed /\ live' = out /\ UNCHANGED <<format, request, repo>>
Pull == LET out == Capture(live, repo)
        IN out # Failed /\ repo' = out /\ UNCHANGED <<format, request, live>>

Next == Push \/ Pull
Spec == Init /\ [][Next]_vars

-----------------------------------------------------------------------------
(* What the transforms promise                                             *)

\* what the readers of a file make of it; in toml without the comments of headers,
\* as a merge takes them from the overlay and a retained table gets a new header
RECURSIVE Readings(_, _)
Readings(version, v) ==
  IF IsMap(v) THEN [k \in DOMAIN v |-> Readings(version, v[k])] ELSE Read(version, v)
Meaning(file) ==
  IF ~file.there THEN Nothing
  ELSE CASE format = "yaml" -> [n \in DOMAIN Reading |-> Readings(n, file.doc)]
         [] format = "toml" -> Toml!Bare(file.doc)
         [] OTHER -> file.doc

\* the part of a file that is synced, and the part that stays live
Region(file) == Transform(file, file, Absent, "cleanup", CaptureAction(request.strategy))
Rest(file)   == Transform(file, file, Absent, "cleanup", RenderAction(request.strategy))
InRegion(file) == /\ Json!HasSelectors(request) /\ file.there
                  /\ Region(file) # Failed /\ Meaning(Region(file)) = Meaning(file)

\* siblings of an xml element cannot be taken for one another, and elements that
\* pair carry the same attributes; a toml table is written inline in both files
\* or in none, as an inline table has no comments
RECURSIVE Distinct(_), Congruent(_, _)
Distinct(e) ==
  /\ \A i, j \in DOMAIN e.kids : i # j => ~Xml!MayPair(e.kids[i], e.kids[j])
  /\ \A i \in DOMAIN e.kids : Distinct(e.kids[i])
Congruent(e, f) ==
  \A i \in DOMAIN e.kids, j \in DOMAIN f.kids : Xml!MayPair(e.kids[i], f.kids[j]) =>
    e.kids[i].attrs = f.kids[j].attrs /\ Congruent(e.kids[i], f.kids[j])
Clear == /\ format = "xml" => /\ \A f \in {live, repo} : f.there => Distinct(f.doc)
                              /\ live.there /\ repo.there => Congruent(live.doc, repo.doc)
         /\ format = "toml" /\ live.there /\ repo.there => Toml!SameStyle(live.doc, repo.doc)

\* Capture drops a mapping that it leaves empty, so the user leaves none
RECURSIVE Solid(_)
Solid(v) == IsMap(v) => DOMAIN v # {} /\ \A k \in DOMAIN v : Solid(v[k])
Filled(file) == file.there =>
  /\ format \in {"json", "yaml", "plist"} => \A k \in DOMAIN file.doc : Solid(file.doc[k])
  /\ format = "toml" => \A p \in Toml!ItemPaths(file.doc) : Toml!Filled(file.doc, p)

\* a scalar in the repository would replace a mapping and what it holds
RECURSIVE Fits(_, _)
Fits(u, v) == /\ IsMap(u) <=> IsMap(v)
              /\ IsMap(u) => \A k \in DOMAIN u \cap DOMAIN v : Fits(u[k], v[k])
SameShape ==
  live.there /\ repo.there => CASE format = "toml" -> Toml!SameShape(live.doc, repo.doc)
                                [] format = "xml" -> TRUE
                                [] OTHER -> Fits(live.doc, repo.doc)

\* byte for byte, in toml up to the comments of headers
Alike(f, g) == IF format = "toml" THEN Meaning(f) = Meaning(g) ELSE f = g

GivesBack ==
  LET taken == Capture(live, repo)
      again == Render(live, taken)
  IN live.there /\ taken # Failed /\ again # Failed /\ Clear =>
       Alike(again, live)
Sticks ==
  LET pushed == Render(live, repo)
      back == Capture(pushed, repo)
  IN format # "xml" /\ InRegion(repo) /\ Filled(repo) /\ Clear /\ pushed # Failed /\ back # Failed
       => Alike(back, repo)

\* Rendering what Capture took from the live file gives the live file back, as it
\* was: said of the files before every step that changes one, as it holds of files
\* that a pull and a push leave as they are.
PullIsQuiet == [][GivesBack]_vars

\* An edit of the repository inside the synced region, a deletion too, survives
\* a push and the pull after it (said of the same files); in xml an element whose
\* live-only part is kept stays and comes back.
EditSticks == [][Sticks]_vars

\* the part that stays live, as any reader sees it; an xml element may get children
SparesTheRest ==
  LET after == Rest(live')  before == Rest(live)
  IN live' # live /\ after # Failed /\ before # Failed /\ InRegion(repo) /\ Filled(live) /\ SameShape /\ Clear
       => IF format = "xml" THEN {l \in Xml!Leaves(before.doc) : Len(l) > 1} \subseteq Xml!Leaves(after.doc)
          ELSE Meaning(after) = Meaning(before)

\* A push of a repository inside the synced region changes nothing of the part
\* that stays live, whatever selectors name it.
LiveOnlyKeysSurvive == [][SparesTheRest]_vars

\* The same for the selectors with which it holds: a denylist without `not:`.
PushSparesTheRest ==
  [][request.strategy = "allow" \/ ~Json!Excluded(request) => SparesTheRest]_vars
=============================================================================
