----------------------------- MODULE SyncSession -----------------------------
(***************************************************************************)
(* The workset of an open session (ProposalSession): rows with an          *)
(* Approval, a Resolution Intent and a Proposal, Additional Sources that   *)
(* rows share, caches of Captures and Renders, the Proposal Editor and     *)
(* cancellation.  A worker dispatches one command at a time as a sequence  *)
(* of steps; the user interface cancels between any two of them.           *)
(*                                                                         *)
(* A content is told apart by where it comes from: what an outcome was     *)
(* captured, merged or rendered from is the value of the Additional        *)
(* Sources that the provider saw (its inputs).                             *)
(***************************************************************************)
EXTENDS Integers, FiniteSets

CONSTANTS
  Row, Source, \* drifted units with a Proposal, and Additional Source paths
  Refs,        \* the Sources whose preimages each Row's providers are given
  Candidate,   \* contents that an Editor can leave in a Source
  Preimage,    \* its content when the session was opened
  Policy,      \* the effective policy of each Row
  Ancestry,    \* Rows with a usable Sync Base
  Linked,      \* Rows whose live file is a symlink that only an authorization replaces
  Patched,     \* Rows whose Capture is a patch, which a Render of it validates
  Idempotent,  \* pairs <<row, kind>>: outcomes that change nothing and record nothing
  Text,        \* what an Editor can leave in a Primary Source
  Conflicted,  \* Texts with a conflict block that the user left
  Quoting,     \* Texts with conflict blocks that the Capture already contains
  Operation,   \* "sync", "pull" or "push"
  Excludable,  \* bound: Rows that the user excludes and includes
  Editable,    \* bound: Rows whose Sources the user edits
  Failing,     \* bound: Rows whose providers fail or exit as interrupted
  Cancels,     \* bound: what the user cancels, "session" and "editor"
  Nothing      \* no Proposal, no saved edit, nothing cached

ASSUME WorksetAssumption ==
  /\ Refs \in [Row -> SUBSET Source]
  /\ Preimage \notin Candidate
  /\ Policy \in [Row -> {"pull-only", "push-only", "push-only-delete", "both"}]
  /\ Ancestry \subseteq Row /\ Linked \subseteq Row /\ Patched \subseteq Row
  /\ Conflicted \subseteq Text /\ Quoting \subseteq Text
  /\ Operation \in {"sync", "pull", "push"}
  /\ Excludable \subseteq Row /\ Editable \subseteq Row /\ Failing \subseteq Row
  /\ Cancels \subseteq {"session", "editor"}

VARIABLES
  row,        \* the rows of the view
  candidate,  \* what each Source is staged to contain; its Preimage when unchanged
  authorized, \* the Sources with Approval, whether changed or not
  edited,     \* the saved edit of each Row
  captures,   \* the inputs from which the cached Capture of each Row was taken
  renders,    \* the cached Renders of each Row: of which outcome, from which inputs
  cancelled,  \* the session's operation was cancelled, which is for good
  dropped,    \* the Editor's operation was cancelled
  attended,   \* the Deck has an edit in flight and Ctrl+C cancels the Editor
  work,       \* the dispatch in progress
  before      \* the session when it began

data == <<row, candidate, authorized, edited, captures, renders>>
vars == <<data, cancelled, dropped, attended, work, before>>

Content == Candidate \cup {Preimage}
Input   == UNION {[Refs[r] -> Content] : r \in Row}

\* the repository outcomes of a row
Kept        == [by |-> "repository", from |-> Nothing]
Captured(i) == [by |-> "capture", from |-> i]
Merged(i)   == [by |-> "merge", from |-> i]
Saved(t)    == [by |-> "text", from |-> t]
Conflict    == [by |-> "conflict", from |-> Nothing] \* merge output with conflict blocks
Outcome     == {Kept, Conflict} \cup {Captured(i) : i \in Input} \cup {Merged(i) : i \in Input}
               \cup {Saved(t) : t \in Text}

Proposal   == [repository : Outcome, rendered : Input \cup {Nothing}, noop : BOOLEAN]
Render     == [of : Outcome, from : Input]
Intent     == {"use-repository", "use-live", "merge", "editor"}
Diagnostic == {"none", "failed", "conflict", "interrupted"}

\* a value of its own
ASSUME NothingAssumption == Nothing \notin Outcome \cup Proposal \cup Input

Idle == [at |-> "idle", row |-> Nothing, todo |-> {}, text |-> Nothing, stale |-> FALSE]
Point == {"opening", "idle", "apply", "review", "rows", "open", "editing", "others", "closed"}

\* the bytes of Additional Sources that the providers of a row are given
InputsOf(r) == [s \in Refs[r] |-> IF s \in authorized THEN candidate[s] ELSE Preimage]
Frozen(r)   == [s \in Refs[r] |-> Preimage]

PolicyIntents(r) ==
  CASE Policy[r] = "both"      -> {"use-repository", "use-live"}
                                  \cup (IF r \in Ancestry THEN {"merge"} ELSE {})
    [] Policy[r] = "pull-only" -> {"use-live"}
    [] OTHER                   -> {"use-repository"}

\* a pull and a push have a fixed direction; a saved edit stays selectable
Intents(r) ==
  IF Operation = "sync"
  THEN PolicyIntents(r) \cup (IF edited[r] # Nothing THEN {"editor"} ELSE {})
  ELSE {}

DefaultIntents(r) == IF r \in Ancestry /\ Policy[r] = "both" THEN {"merge"} ELSE PolicyIntents(r)

\* a no-op Proposal keeps its row visible but offers no Approval
ApprovesNoops(r) == TRUE                                                          \* mutant
Approvable(r) == row[r].proposal # Nothing => ~row[r].proposal.noop

-----------------------------------------------------------------------------
(* Materialization                                                         *)

RunsRender(r) == Policy[r] \in {"push-only", "both", "pull-only"}
TakesCapture(r) == row[r].intent \in {"use-live", "merge"}

\* a saved edit is refused while it has conflict blocks that neither the repository
\* source nor the cached Capture contains
Unresolved(r, outcome) ==
  /\ Operation # "pull"
  /\ \/ outcome = Conflict
     \/ outcome.by = "text" /\ outcome.from \in Conflicted
     \/ outcome.by = "text" /\ outcome.from \in Quoting /\ captures[r] = Nothing

Resolved(r, captured) ==
  CASE row[r].intent = "use-repository" -> Kept
    [] row[r].intent = "use-live"       -> Captured(captured)
    [] row[r].intent = "merge"          -> Merged(captured)
    [] row[r].intent = "editor"         -> edited[r]

Settled(r, outcome, from) ==
  [repository |-> outcome, rendered |-> from, noop |-> <<r, outcome.by>> \in Idempotent]

\* a latched cancellation stops the next provider
Interrupts == cancelled \/ (work.at \in {"open", "others"} /\ dropped)

\* a Proposal that writes through a symlink needs the authorization to replace it
Refused(r, outcome) ==
  r \in Linked /\ ~row[r].replaces /\ outcome.by # "capture" /\ Policy[r] # "pull-only"

\* What an attempt to materialize r uses: its Capture, taken now if it is not cached;
\* the Renders it knows after it has the Capture c; the Render of its outcome.
Taken(r)    == IF captures[r] = Nothing THEN InputsOf(r) ELSE captures[r]
Resolution(r) == Resolved(r, Taken(r))
Needs(r)    == IF TakesCapture(r) THEN Taken(r) ELSE captures[r]
Known(r, c) == IF c # captures[r] /\ r \in Patched
               THEN renders[r] \cup {[of |-> Captured(c), from |-> c]} ELSE renders[r]
Cached(r) == {e \in Known(r, Needs(r)) : e.of = Resolution(r)}
Used(r) ==
  IF Cached(r) = {} THEN {[of |-> Resolution(r), from |-> InputsOf(r)]} ELSE Cached(r)

\* a row that follows both sides may need a Capture in the end, to see whether its
\* hooks must be reapplied
Reapplied(r) == IF Policy[r] = "both" THEN {Needs(r), Taken(r)} ELSE {Needs(r)}

End(end, proposal, capture, cached) ==
  [end |-> end, proposal |-> proposal, capture |-> capture, renders |-> cached]
Halts(r, capture, cached) ==
  IF Interrupts \/ r \in Failing THEN {End("interrupted", Nothing, capture, cached)} ELSE {}
Stops(r, capture, cached) ==
  Halts(r, capture, cached)
  \cup (IF r \in Failing THEN {End("failed", Nothing, capture, cached)} ELSE {})

\* where an attempt stops: at its Capture, its merge, its Render or its second Capture
Stopped(r) ==
  (IF cancelled THEN {End("interrupted", Nothing, captures[r], renders[r])} ELSE {})
  \cup (IF Needs(r) # captures[r] THEN Stops(r, captures[r], renders[r]) ELSE {})
  \cup (IF row[r].intent = "merge"
        THEN Stops(r, Needs(r), Known(r, Needs(r)))
             \cup {End("conflict", Nothing, Needs(r), Known(r, Needs(r)))}
        ELSE {})
  \cup (IF RunsRender(r) /\ Cached(r) = {}
        THEN IF Policy[r] = "pull-only" THEN Halts(r, Needs(r), Known(r, Needs(r)))
             ELSE Stops(r, Needs(r), Known(r, Needs(r)))
        ELSE {})
  \cup (IF Reapplied(r) # {Needs(r)}
        THEN UNION {Stops(r, Needs(r), Known(r, Needs(r)) \cup {e}) : e \in Used(r)} ELSE {})

\* A pull's Render only qualifies its checkpoint, so its failure is a warning.
Finished(r) ==
  IF Refused(r, Resolution(r)) THEN
    {End("failed", Nothing, c, Known(r, c) \cup {e}) : c \in Reapplied(r), e \in Used(r)}
  ELSE IF RunsRender(r) THEN
    {End("ok", Settled(r, Resolution(r), e.from), c, Known(r, c) \cup {e}) :
       c \in Reapplied(r), e \in Used(r)}
    \cup (IF Policy[r] = "pull-only" /\ Cached(r) = {}
          THEN {End("ok", Settled(r, Resolution(r), Nothing), Needs(r), Known(r, Needs(r)))} ELSE {})
  ELSE {End("ok", Settled(r, Resolution(r), Nothing), Needs(r), Known(r, Needs(r)))}

\* The ways an attempt can end, with the caches it leaves.  What is cached is not run again.
Attempts(r) ==
  IF row[r].intent = "editor" /\ Unresolved(r, Resolution(r))
  THEN {End("conflict", Nothing, captures[r], renders[r])}
  ELSE Stopped(r) \cup Finished(r)

KeepCaches(r, end) ==
  /\ captures' = [captures EXCEPT ![r] = end.capture]
  /\ renders'  = [renders EXCEPT ![r] = end.renders]

ClearCaches(rows) ==
  /\ captures' = [r \in Row |-> IF r \in rows THEN Nothing ELSE captures[r]]
  /\ renders'  = [r \in Row |-> IF r \in rows THEN {} ELSE renders[r]]

-----------------------------------------------------------------------------
(* Dispatch                                                                *)

Now == [row |-> row, candidate |-> candidate, authorized |-> authorized, edited |-> edited,
        captures |-> captures, renders |-> renders, asked |-> {}]

\* The worker takes a command whose revision is the session's; any other is rejected
\* without an effect.  It asks for the Approval of some rows.
Begin(at, r, todo, asked) ==
  /\ work.at = "idle" /\ ~attended
  /\ work' = [Idle EXCEPT !.at = at, !.row = r, !.todo = todo]
  /\ before' = [Now EXCEPT !.asked = asked]

Return ==
  /\ work' = Idle
  /\ before' = Nothing

-----------------------------------------------------------------------------
(* Commands on one row                                                     *)

RowCommand(at, r, changed, asked) ==
  /\ Begin(at, r, {}, asked)
  /\ row' = [row EXCEPT ![r] = changed]
  /\ UNCHANGED <<candidate, authorized, edited, captures, renders, cancelled, dropped, attended>>

SetApproval(r, approved) ==
  Approvable(r) /\ RowCommand("apply", r, [row[r] EXCEPT !.approved = approved], {r})

PrepareReview(r) == RowCommand("review", r, row[r], {})

Retry(r) == RowCommand("review", r, [row[r] EXCEPT !.proposal = Nothing], {})

KeepsProposal(r, intent) ==                                                       \* mutant
  /\ intent \in Intents(r)
  /\ RowCommand("apply", r, [row[r] EXCEPT !.intent = intent, !.diagnostic = "none"], {})
SetIntent(r, intent) ==
  /\ intent \in Intents(r)
  /\ RowCommand("apply", r, [row[r] EXCEPT !.intent = intent, !.proposal = Nothing, !.diagnostic = "none"], {})

AuthorizeReplacement(r) ==
  /\ r \in Linked
  /\ RowCommand("apply", r, [row[r] EXCEPT !.replaces = TRUE, !.proposal = Nothing, !.diagnostic = "none"], {})

\* what the command needs is there: nothing is approved or reviewed without a Proposal
Needed(r) == row[r].proposal = Nothing /\ (work.at = "review" \/ row[r].approved)

SettleRow ==
  LET r == work.row IN
  /\ work.at \in {"apply", "review"} /\ ~Needed(r)
  /\ row' = [row EXCEPT ![r].approved = @ /\ Approvable(r)]
  /\ Return
  /\ UNCHANGED <<candidate, authorized, edited, captures, renders, cancelled, dropped, attended>>

\* an interruption cancels the session; one found at the end keeps the Proposal and
\* clears the Approval
MaterializeRow ==
  LET r == work.row IN
  /\ work.at \in {"apply", "review"} /\ Needed(r)
  /\ \E end \in Attempts(r) :
       /\ LET ok == end.end = "ok" /\ ~cancelled
          IN row' = [row EXCEPT
               ![r].proposal   = end.proposal,
               ![r].approved   = @ /\ ok /\ ~end.proposal.noop,
               ![r].diagnostic = IF ok THEN "none" ELSE IF end.end = "ok" THEN "interrupted" ELSE end.end]
       /\ KeepCaches(r, end)
  /\ LET interrupted == row'[r].diagnostic = "interrupted"
     IN cancelled' = (cancelled \/ interrupted) /\ dropped' = (dropped \/ interrupted)
  /\ Return
  /\ UNCHANGED <<candidate, authorized, edited, attended>>

SetIncluded(r, included) ==
  /\ r \in Excludable
  /\ work.at = "idle" /\ ~attended
  /\ row' = [row EXCEPT ![r].included = included]
  /\ UNCHANGED <<candidate, authorized, edited, captures, renders, cancelled, dropped, attended, work, before>>

-----------------------------------------------------------------------------
(* Commands on Additional Sources and batches                              *)

Changed == {s \in Source : candidate[s] # Preimage} \* the Additional rows
References(sources) == {r \in Row : Refs[r] \cap sources # {}}

\* Proposals of these rows are dropped; the approved ones are materialized again
Invalidated(rows, all) == [r \in Row |-> IF r \in all THEN [rows[r] EXCEPT !.proposal = Nothing] ELSE rows[r]]
EveryStale(rows, all) == all                                                      \* mutant
Approved(rows, all) == {r \in all : rows[r].approved}

ApprovesOnly(s, approved) ==                                                      \* mutant
  /\ s \in Changed
  /\ authorized' = IF approved THEN authorized \cup {s} ELSE authorized \ {s}
  /\ Begin("rows", Nothing, {}, {})
  /\ UNCHANGED <<row, captures, renders, candidate, edited, cancelled, dropped, attended>>
SetSourceApproval(s, approved) ==
  /\ s \in Changed
  /\ authorized' = IF approved THEN authorized \cup {s} ELSE authorized \ {s}
  /\ LET stale == IF authorized' = authorized THEN {} ELSE References({s})
     IN /\ Begin("rows", Nothing, Approved(row, stale), {})
        /\ row' = Invalidated(row, stale)
        /\ ClearCaches(stale)
  /\ UNCHANGED <<candidate, edited, cancelled, dropped, attended>>

\* every final state is established before any provider runs
BatchSetApproval(rows, sources, approved) ==
  /\ sources \subseteq Changed
  /\ authorized' = IF approved THEN authorized \cup sources ELSE authorized \ sources
  /\ LET scope == {r \in rows : Approvable(r)}
         stale == References({s \in sources : (s \in authorized) # approved})
         set   == [r \in Row |-> IF r \in scope THEN [row[r] EXCEPT !.approved = approved] ELSE row[r]]
     IN /\ Begin("rows", Nothing, Approved(set, scope \cup stale), scope)
        /\ row' = Invalidated(set, scope \cup stale)
        /\ ClearCaches(stale)
  /\ UNCHANGED <<candidate, edited, cancelled, dropped, attended>>

MaterializeNext(r) ==
  /\ work.at \in {"opening", "rows", "others"} /\ r \in work.todo
  /\ \E end \in Attempts(r) :
       /\ LET ok == end.end = "ok" /\ ~cancelled
          IN row' = [row EXCEPT
               ![r].proposal   = IF ok THEN end.proposal ELSE Nothing,
               ![r].approved   = ok /\ ~end.proposal.noop,
               ![r].diagnostic = IF ok THEN "none" ELSE IF end.end = "ok" THEN "interrupted" ELSE end.end]
       /\ KeepCaches(r, end)
  /\ work' = [work EXCEPT !.todo = @ \ {r}]
  /\ UNCHANGED <<candidate, authorized, edited, cancelled, dropped, attended, before>>

RowsDone ==
  /\ work.at = "rows" /\ work.todo = {}
  /\ Return
  /\ UNCHANGED <<data, cancelled, dropped, attended>>

Opened ==
  /\ work.at = "opening" /\ work.todo = {}
  /\ work' = Idle
  /\ UNCHANGED <<data, cancelled, dropped, attended, before>>

-----------------------------------------------------------------------------
(* The Proposal Editor                                                     *)

EditProposal(r) ==
  /\ r \in Editable
  /\ Begin("open", r, {}, {})
  /\ attended' \in (IF "editor" \in Cancels THEN BOOLEAN ELSE {FALSE})
  /\ UNCHANGED <<data, cancelled, dropped>>

\* the attempt ends and its cancellation scope with it
EndEdit == Return /\ dropped' = FALSE /\ UNCHANGED <<cancelled, attended>>

FailEdit(r, diagnostic) ==
  /\ row' = [row EXCEPT ![r].approved = FALSE, ![r].proposal = Nothing, ![r].diagnostic = diagnostic]
  /\ EndEdit

\* everything is as it was when the command was taken
KeepsCandidates ==                                                                \* mutant
  /\ row' = before.row
  /\ edited' = before.edited
  /\ captures' = before.captures
  /\ renders' = before.renders
  /\ UNCHANGED <<candidate, authorized>>
  /\ EndEdit
CancelEdit ==
  /\ row' = before.row
  /\ candidate' = before.candidate
  /\ edited' = before.edited
  /\ captures' = before.captures
  /\ renders' = before.renders
  /\ UNCHANGED authorized
  /\ EndEdit

\* the outcome the Editor starts from; a Use live or Merge without one is materialized
StartsWith(r) ==
  IF row[r].proposal # Nothing THEN {row[r].proposal.repository}
  ELSE IF row[r].diagnostic = "conflict" THEN
    IF row[r].intent = "editor" THEN {edited[r]} ELSE {Conflict, Kept}
  ELSE IF row[r].intent = "editor" THEN {edited[r]}
  ELSE {Kept}

MaterializesFirst(r) ==
  /\ Operation # "pull"
  /\ row[r].proposal = Nothing /\ TakesCapture(r) /\ row[r].diagnostic = "none"

OpenEditor ==
  LET r == work.row IN
  /\ work.at = "open" /\ ~cancelled /\ ~dropped /\ ~MaterializesFirst(r)
  /\ \E text \in StartsWith(r) : work' = [work EXCEPT !.at = "editing", !.text = text]
  /\ UNCHANGED <<data, cancelled, dropped, attended, before>>

MaterializeFirst ==
  LET r == work.row IN
  /\ work.at = "open" /\ MaterializesFirst(r)
  /\ \E end \in Attempts(r) :
       \/ /\ end.end \in {"ok", "conflict"}
          /\ \E text \in IF end.end = "ok" THEN {end.proposal.repository} ELSE {Conflict, Kept} :
               work' = [work EXCEPT !.at = "editing", !.text = text]
          /\ KeepCaches(r, end)
          /\ UNCHANGED <<row, candidate, authorized, edited, cancelled, dropped, attended, before>>
       \/ /\ end.end = "failed"
          /\ KeepCaches(r, end)
          /\ FailEdit(r, "failed")
          /\ UNCHANGED <<candidate, authorized, edited>>
       \/ end.end = "interrupted" /\ CancelEdit

\* the Editor exits as cancelled, or the cancellation is noticed
DropEdit ==
  /\ \/ work.at = "editing"
     \/ work.at = "open" /\ (cancelled \/ dropped)
  /\ CancelEdit

\* the Editor, its launch or its workspace failed
BreakEdit ==
  /\ work.at \in {"open", "editing"}
  /\ FailEdit(work.row, "failed")
  /\ UNCHANGED <<candidate, authorized, edited, captures, renders>>

QuitEdit ==
  /\ work.at = "editing" /\ ~dropped
  /\ EndEdit
  /\ UNCHANGED data

\* rows that use a changed Source are stale if its bytes are an authorized input
AnyChange(sources) == sources                                                     \* mutant
Authorized(sources) == sources \cap authorized
SaveEdit(text, saved) ==
  LET r        == work.row
      staged   == [s \in Source |-> IF s \in Refs[r] THEN saved[s] ELSE candidate[s]]
      affected == References(Authorized({s \in Source : staged[s] # candidate[s]}))
      chosen   == [row EXCEPT ![r].intent = "editor"]
  IN
  /\ work.at = "editing" /\ ~dropped
  /\ text # work.text \/ staged # candidate
  /\ edited' = [edited EXCEPT ![r] = text]
  /\ candidate' = staged
  /\ row' = Invalidated(chosen, affected \ {r})
  /\ ClearCaches(affected)
  /\ work' = [work EXCEPT !.at = "others", !.text = text, !.stale = r \in affected,
                          !.todo = Approved(row, affected \ {r})]
  /\ UNCHANGED <<authorized, cancelled, dropped, attended, before>>

\* unchanged bytes with unchanged inputs keep the previous Proposal's projection
ReusesProposal(r) ==
  row[r].proposal # Nothing /\ row[r].proposal.repository = work.text /\ ~work.stale

AcceptEdit(r, proposal) ==
  /\ ~dropped
  /\ row' = [row EXCEPT ![r].proposal = proposal, ![r].approved = @ /\ ~proposal.noop, ![r].diagnostic = "none"]
  /\ EndEdit

ProjectEdit ==
  LET r == work.row IN
  /\ work.at = "others" /\ work.todo = {}
  /\ \/ /\ ReusesProposal(r) /\ AcceptEdit(r, row[r].proposal)
        /\ UNCHANGED <<captures, renders, candidate, authorized, edited>>
     \/ /\ ~ReusesProposal(r)
        /\ \E end \in Attempts(r) :
             /\ KeepCaches(r, end)
             /\ \/ end.end = "ok" /\ AcceptEdit(r, end.proposal)
                \/ end.end \in {"failed", "conflict"} /\ FailEdit(r, end.end)
        /\ UNCHANGED <<candidate, authorized, edited>>
     \/ /\ \/ dropped /\ ReusesProposal(r)
           \/ /\ ~ReusesProposal(r)
              /\ \E end \in Attempts(r) : end.end \in {"interrupted"} \cup (IF dropped THEN {"ok"} ELSE {})
        /\ CancelEdit

-----------------------------------------------------------------------------
(* Execution and cancellation                                              *)

\* the session's last command: Execute or Abort
Ready == \A r \in Row : row[r].included /\ row[r].approved => row[r].proposal # Nothing

Close == work' = [Idle EXCEPT !.at = "closed"]

Execute ==
  /\ work.at = "idle" /\ ~attended /\ Ready
  /\ Close
  /\ UNCHANGED <<data, cancelled, dropped, attended, before>>

Abort ==
  /\ work.at = "idle" /\ ~attended
  /\ Close
  /\ UNCHANGED <<data, cancelled, dropped, attended, before>>

RequestCancel ==
  /\ work.at # "closed" /\ "session" \in Cancels
  /\ cancelled' = TRUE /\ dropped' = TRUE
  /\ UNCHANGED <<data, attended, work, before>>

RequestEditorCancel ==
  /\ attended /\ "editor" \in Cancels
  /\ dropped' = TRUE
  /\ UNCHANGED <<data, cancelled, attended, work, before>>

\* the Deck learns that the edit it waits for has ended
DeckDrains ==
  /\ attended /\ work.at = "idle"
  /\ attended' = FALSE
  /\ UNCHANGED <<data, cancelled, dropped, work, before>>

-----------------------------------------------------------------------------

Init ==
  /\ \E intent \in [Row -> Intent] :
       /\ \A r \in Row : intent[r] \in DefaultIntents(r)
       /\ row = [r \in Row |-> [included |-> TRUE, approved |-> Operation # "sync", intent |-> intent[r],
                               replaces |-> FALSE, proposal |-> Nothing, diagnostic |-> "none"]]
  /\ candidate = [s \in Source |-> Preimage]
  /\ authorized = IF Operation = "sync" THEN {} ELSE Source
  /\ edited = [r \in Row |-> Nothing]
  /\ captures = [r \in Row |-> Nothing]
  /\ \E compared \in SUBSET Row : \* rows compared by a Render of the repository source
       /\ \A r \in Row : Policy[r] = "push-only" => r \in compared
       /\ renders = [r \in Row |-> IF r \in compared THEN {[of |-> Kept, from |-> Frozen(r)]} ELSE {}]
  /\ cancelled = FALSE /\ dropped = FALSE /\ attended = FALSE
  /\ work = IF Operation = "sync" THEN Idle ELSE [Idle EXCEPT !.at = "opening", !.todo = Row]
  /\ before = Nothing

Commands ==
  \/ \E r \in Row :
       \/ \E b \in BOOLEAN : SetApproval(r, b)
       \/ \E b \in BOOLEAN : SetIncluded(r, b)
       \/ \E intent \in Intent : SetIntent(r, intent)
       \/ PrepareReview(r)
       \/ Retry(r)
       \/ AuthorizeReplacement(r)
       \/ EditProposal(r)
  \/ \E s \in Source, b \in BOOLEAN : SetSourceApproval(s, b)
  \/ \E rows \in SUBSET Row, sources \in SUBSET Source, b \in BOOLEAN : BatchSetApproval(rows, sources, b)
  \/ Execute
  \/ Abort

\* what the worker does next in the dispatch it has begun
Work ==
  \/ SettleRow
  \/ MaterializeRow
  \/ \E r \in Row : MaterializeNext(r)
  \/ Opened
  \/ RowsDone
  \/ OpenEditor
  \/ MaterializeFirst
  \/ DropEdit
  \/ BreakEdit
  \/ QuitEdit
  \/ \E text \in {work.text} \cup {Saved(t) : t \in Text}, saved \in [Source -> Content] : SaveEdit(text, saved)
  \/ ProjectEdit

Next == Commands \/ Work \/ RequestCancel \/ RequestEditorCancel \/ DeckDrains

Spec == Init /\ [][Next]_vars

-----------------------------------------------------------------------------

RowState == [included : BOOLEAN, approved : BOOLEAN, intent : Intent, replaces : BOOLEAN,
             proposal : Proposal \cup {Nothing}, diagnostic : Diagnostic]
WorkState == [at : Point, row : Row \cup {Nothing}, todo : SUBSET Row,
              text : Outcome \cup {Nothing}, stale : BOOLEAN]
Session == [row : [Row -> RowState], candidate : [Source -> Content], authorized : SUBSET Source,
            edited : [Row -> Outcome \cup {Nothing}], captures : [Row -> Input \cup {Nothing}],
            renders : [Row -> SUBSET Render], asked : SUBSET Row]

\* The type of every variable; an Edited row has its saved edit (_edited_outcomes).
TypeOK ==
  /\ Now \in Session
  /\ \A r \in Row : row[r].intent = "editor" => edited[r] # Nothing
  /\ {cancelled, dropped, attended} \subseteq BOOLEAN
  /\ work \in WorkState
  /\ before \in Session \cup {Nothing}

\* Every cached Capture and Render was made from the bytes that are now authorized
\* (_clear_input_cache at each change of them).
CoherentCaches ==
  \A r \in Row : /\ captures[r] \in {Nothing, InputsOf(r)}
                  /\ \A e \in renders[r] : e.from = InputsOf(r)

\* A Proposal that a client sees is what the row's Resolution Intent, its saved edit
\* and the authorized bytes of its Additional Sources give, so that what Execute
\* publishes was rendered from what it leaves in the repository.
FreshProposals ==
  work.at \in {"idle", "closed"} =>
    \A r \in Row : row[r].proposal # Nothing =>
      /\ row[r].proposal.repository = Resolved(r, InputsOf(r))
      /\ row[r].proposal.rendered \in {Nothing, InputsOf(r)}

\* Between commands an approved row has a Proposal that changes something, and no
\* unresolved diagnostic unless the session was cancelled: the guard of Execute never
\* has to refuse it.
ApprovedIsReady ==
  work.at \in {"idle", "closed"} =>
    \A r \in Row : row[r].approved => /\ row[r].proposal # Nothing
                                      /\ ~row[r].proposal.noop
                                      /\ row[r].diagnostic = "none" \/ cancelled

Ends == before # Nothing /\ before' = Nothing

\* Approval stands: a dispatch takes the Approval of a row that it was not asked about
\* only with a failure of that row or because its Proposal now changes nothing, and
\* gives none (GLOSSARY.md, Approval).
ApprovalStands ==
  [][Ends => \A r \in Row \ before.asked : row'[r].approved # before.row[r].approved =>
       /\ before.row[r].approved
       /\ \/ row'[r].diagnostic # "none"
          \/ row'[r].proposal # Nothing /\ row'[r].proposal.noop]_vars

\* A dispatch leaves every other row whose inputs it does not change with its Proposal
\* and its caches: no provider runs again (_edit_proposal, changed_input_paths).
OtherRowsKeepTheirWork ==
  [][Ends => \A r \in Row \ (before.asked \cup {work.row}) :
       InputsOf(r)' = [s \in Refs[r] |-> IF s \in before.authorized THEN before.candidate[s] ELSE Preimage] =>
         <<row'[r], captures'[r], renders'[r]>> = <<before.row[r], before.captures[r], before.renders[r]>>]_vars

\* An edit is a transaction: it ends with its sources saved, even when they cannot be
\* projected, or with the session as it was but for the row's own failure.
EditIsTransaction ==
  [][Ends /\ work.at \in {"open", "editing", "others"} =>
       \/ /\ work.at = "others"
          /\ edited'[work.row] = work.text /\ row'[work.row].intent = "editor"
          /\ candidate' = candidate
       \/ /\ <<candidate, edited, authorized>>' = <<before.candidate, before.edited, before.authorized>>
          /\ \A r \in Row \ {work.row} : row'[r] = before.row[r]
          /\ row'[work.row].intent = before.row[work.row].intent]_vars

\* Every dispatch ends or waits for the user's Editor, provided that the worker goes on
\* and every command it runs returns.
EveryDispatchEnds ==
  work.at \notin {"idle", "editing", "closed"} ~> work.at \in {"idle", "editing", "closed"}

FairSpec == Spec /\ WF_vars(Work)

-----------------------------------------------------------------------------
(* What the documentation says and the code does not do                    *)

\* Cancelling an Editor attempt does not reach the session: when neither the session nor
\* a provider was interrupted, no row is left as interrupted, which makes the Deck abort
\* (docs/code-structure.md, "without poisoning the enclosing SyncSession").
EditorCancelIsLocal ==
  work.at = "idle" /\ ~cancelled => \A r \in Row : row[r].diagnostic # "interrupted"

=============================================================================
