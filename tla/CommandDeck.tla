----------------------------- MODULE CommandDeck -----------------------------
(***************************************************************************)
(* The Command Deck over a workset (sync_deck.py): one event loop that     *)
(* takes keys and clicks, one worker that dispatches at most one command   *)
(* to the session, and Ctrl+C at any time; or an unattended run in its     *)
(* place (sync_deck_command.py).  The deck keeps an index into the rows    *)
(* that a filter leaves, the widgets a copy of those rows and a cursor of  *)
(* their own, and a dispatch may add and remove rows meanwhile.  A handler *)
(* of the event loop is one step.                                          *)
(***************************************************************************)
EXTENDS Naturals, Sequences, FiniteSets

CONSTANTS
  Proposals,  \* Sync Units and auxiliary work, in the order of the workset
  Sources,    \* Additional Sources that an edit may stage, in their order
  Auxiliary,  \* rows of Proposals that are auxiliary work
  Refs,       \* Refs[s]: the units that read source s
  MakesRoom,      \* MakesRoom[u]: units whose approved deletion makes room for what u writes
  Noops,      \* units whose Proposal turns out to change nothing
  Menus,      \* units with more than two Resolutions to choose from
  NoBase,     \* units that an unattended run leaves for a first review
  Queries,    \* what a filter may leave of the rows, each a set of them
  None        \* no row

Elements(seq) == {seq[i] : i \in DOMAIN seq}
Units == Elements(Proposals) \ Auxiliary
AllRows == Elements(Proposals) \cup Elements(Sources)

DeckAssumption ==
  /\ Proposals \in Seq(Elements(Proposals)) /\ Sources \in Seq(Elements(Sources))
  /\ Auxiliary \subseteq Elements(Proposals) /\ Elements(Proposals) \cap Elements(Sources) = {}
  /\ Refs \in [Elements(Sources) -> SUBSET Units] /\ MakesRoom \in [Units -> SUBSET Units]
  /\ \A u \in Units : u \notin MakesRoom[u]
  /\ Noops \cup Menus \cup NoBase \subseteq Units /\ Queries \subseteq SUBSET AllRows
  /\ None \notin AllRows

VARIABLES
  work,     \* the session: its units, the staged and the approved sources, included work, Commit Work
  screen,   \* what the deck is at: the workset, a review, its Full View or the confirmation
  menu,     \* the open menu and the row it was opened for
  box,      \* the / box, with the filter from before it was opened
  filter,   \* rows that the filter leaves, AllRows for none
  focus,    \* the deck's index into the visible rows
  widget,   \* the rows in the table, its cursor, and the row whose review is on the screen
  lane,     \* the dispatch that has been admitted
  abort,    \* "none", "editor" once the Editor is to be cancelled, "session" once all is
  result,   \* "open", "run" or "stop" once the deck is left, then what has come of it
  page      \* what the confirmation has shown as selected

deck == <<screen, menu, box, filter, focus>>
vars == <<work, deck, widget, lane, abort, result, page>>

Unit == [approved : BOOLEAN, proposal : {"none", "ready", "noop"}, trouble : {"none", "failed", "interrupted"}]
Free == [at |-> "idle", command |-> "none", row |-> None, asked |-> None]
Closed == [of |-> "none", row |-> None]
Places == {1} \cup DOMAIN (Proposals \o Sources)  \* 1 also while there is no row
Shut == [open |-> FALSE, before |-> AllRows]

TypeOK ==
  /\ work.unit \in [Units -> Unit] /\ work.included \subseteq Auxiliary /\ work.commit \in BOOLEAN
  /\ work.staged \cup work.sources \subseteq Elements(Sources)
  /\ screen \in {"workset", "review", "full", "confirm"} /\ menu.of \in {"none", "resolution", "sections"}
  /\ box.open \in BOOLEAN /\ filter \in Queries \cup {AllRows} /\ focus \in Places
  /\ widget.cursor \in Places /\ widget.document \in AllRows \cup {None}
  /\ lane.at \in {"idle", "queued", "done", "interrupted"} /\ abort \in {"none", "editor", "session"}
  /\ result \in {"open", "unattended", "run", "stop", "executed"} /\ page.rows \subseteq AllRows

-----------------------------------------------------------------------------
(* The rows                                                                *)

\* the elements of a sequence that are in a set, in their order (a function, for the proofs)
Among(seq, S) ==
  LET kept[n \in 0..Len(seq)] ==
        IF n = 0 THEN << >> ELSE IF seq[n] \in S THEN Append(kept[n - 1], seq[n]) ELSE kept[n - 1]
  IN kept[Len(seq)]

\* proposals keep their places, staged sources follow them
SourcesFirst(w) == Among(Sources, w.staged) \o Proposals                           \* mutant
Rows(w) == Proposals \o Among(Sources, w.staged)
Visible(w, shown) == Among(Rows(w), shown)
At(rows, i) == IF rows = <<>> THEN None ELSE rows[i]
Focused == At(Visible(work, filter), focus)
IndexOf(rows, r) == IF r \in Elements(rows) THEN CHOOSE i \in DOMAIN rows : rows[i] = r ELSE 1
Clamped(i, rows) == IF i > Len(rows) /\ rows # <<>> THEN Len(rows) ELSE IF rows = <<>> THEN 1 ELSE i

Approved(w) == {u \in Units : w.unit[u].approved}
Selected(w) == Approved(w) \cup (w.sources \cap w.staged) \cup w.included
Approvable(w, u) == w.unit[u].proposal # "noop"

\* _structural_conflicts: an approved write without the approved deletion that makes room
Conflicts(w) == {u \in Approved(w) : w.unit[u].proposal = "ready" /\
                   \E d \in MakesRoom[u] : d \notin Approved(w) \/ w.unit[d].proposal # "ready"}
Unready(w) == {u \in Approved(w) : w.unit[u].proposal = "none" \/ w.unit[u].trouble # "none"}

-----------------------------------------------------------------------------
(* What a dispatch does to the session; how[u] tells how a materialization *)
(* of u ends if there is one                                               *)

Materialized(u, approved, how) ==
  IF how # "ready" THEN [approved |-> FALSE, proposal |-> "none", trouble |-> how]
  ELSE IF u \in Noops THEN [approved |-> FALSE, proposal |-> "noop", trouble |-> "none"]
  ELSE [approved |-> approved, proposal |-> "ready", trouble |-> "none"]

\* _invalidate_inputs: their Proposals are dropped, the approved ones made anew
Invalidated(w, U, how) ==
  [w EXCEPT !.unit = [u \in Units |->
     IF u \notin U THEN w.unit[u]
     ELSE IF w.unit[u].approved THEN Materialized(u, TRUE, how[u]) ELSE [w.unit[u] EXCEPT !.proposal = "none"]]]
With(w, u, state) == [w EXCEPT !.unit[u] = state]
Readers(S) == UNION {Refs[s] : s \in S}

\* SetApproval, SetIncluded
Toggled(w, r, how) ==
  IF r \in Auxiliary THEN [w EXCEPT !.included = IF r \in @ THEN @ \ {r} ELSE @ \cup {r}]
  ELSE IF r \in Elements(Sources)
  THEN Invalidated([w EXCEPT !.sources = IF r \in @ THEN @ \ {r} ELSE @ \cup {r}], Refs[r], how)
  ELSE LET row == w.unit[r] IN
       IF ~Approvable(w, r) THEN w
       ELSE IF row.approved \/ row.proposal = "ready" THEN With(w, r, [row EXCEPT !.approved = ~@])
       ELSE With(w, r, Materialized(r, TRUE, how[r]))

\* BatchSetApproval on the rows in scope
Batched(w, approve, scope, how) ==
  LET Put(S, among) == IF approve THEN S \cup (among \cap scope) ELSE S \ (among \cap scope)
      next == [w EXCEPT !.included = Put(@, Auxiliary), !.sources = Put(@, w.staged),
                        !.unit = [u \in Units |-> IF u \in scope /\ Approvable(w, u)
                                    THEN [w.unit[u] EXCEPT !.approved = approve, !.proposal = "none"] ELSE w.unit[u]]]
      changed == (next.sources \ w.sources) \cup (w.sources \ next.sources)
  IN Invalidated(next, {u \in scope \cap Units : Approvable(w, u)} \cup Readers(changed), how)

\* PrepareProposalReview needs a Proposal, RetryMaterialization a new one
Reviewed(w, u, how) == IF w.unit[u].proposal # "none" THEN w ELSE With(w, u, Materialized(u, w.unit[u].approved, how[u]))
Retried(w, u, how) == With(w, u, Materialized(u, w.unit[u].approved, how[u]))

\* SetResolutionIntent, AuthorizeSymlinkReplacement
Redecided(w, u, how) ==
  With(w, u, IF w.unit[u].approved THEN Materialized(u, TRUE, how[u])
             ELSE [approved |-> FALSE, proposal |-> "none", trouble |-> "none"])

\* EditProposal, when the Editor has been saved: it stages other sources, and what reads the
\* approved ones among them is invalidated
Edited(w, u, staged, how) ==
  LET mine == {s \in Elements(Sources) : u \in Refs[s]}
      next == [w EXCEPT !.staged = (w.staged \ mine) \cup (staged \cap mine)]
      others == Invalidated(next, Readers(mine \cap w.sources) \ {u}, how)
  IN With(others, u, Materialized(u, w.unit[u].approved, how[u]))

-----------------------------------------------------------------------------
(* The event loop: what it shows, and the one dispatch it admits           *)

Idle == result = "open" /\ lane.at = "idle" /\ abort # "session"
Keys == Idle /\ ~box.open \* while the box is open keys are its text
Reads == screen \in {"review", "full"}

\* sync_focus: the cursor decides, not the notification of its last move
Synced == IF screen = "workset" THEN widget.cursor ELSE focus
Pointed == At(Visible(work, filter), Synced)
Shown == IF Reads THEN widget.document ELSE At(widget.table, widget.cursor)

\* materialize: everything else is rejected until this has drained
Admit(command, row, asked) == lane' = [at |-> "queued", command |-> command, row |-> row, asked |-> asked]

\* update_workset: a table whose rows have changed is built again under the deck's index
Updated(w, shown, index) ==
  LET rows == Visible(w, shown)
      kept == Clamped(index, rows)
  IN IF widget.table = rows
     THEN focus' = index /\ UNCHANGED widget
     ELSE focus' = kept /\ widget' = [widget EXCEPT !.table = rows, !.cursor = kept]

\* set_filter: the focused row keeps the focus if it stays visible
ApplyFilter(shown) ==
  /\ filter' = shown
  /\ Updated(work, shown, IndexOf(Visible(work, shown), Focused))

Rest == UNCHANGED <<work, abort, result, page>>

Navigate ==
  /\ Keys /\ screen = "workset" /\ menu = Closed
  /\ \E i \in DOMAIN widget.table : widget' = [widget EXCEPT !.cursor = i] /\ focus' = i
  /\ Rest /\ UNCHANGED <<screen, menu, box, filter, lane>>

\* a click on a row, in the order of the keys; on its marker it selects
Click ==
  /\ Idle /\ screen = "workset"
  /\ \E i \in DOMAIN widget.table, marker \in BOOLEAN :
       /\ widget' = [widget EXCEPT !.cursor = i] /\ focus' = i
       /\ IF marker THEN Admit("select", None, widget.table[i]) ELSE UNCHANGED lane
  /\ menu' = Closed /\ box' = Shut
  /\ Rest /\ UNCHANGED <<screen, filter>>

ToggleCommit ==
  /\ Keys /\ screen = "confirm"
  /\ work' = [work EXCEPT !.commit = ~@]
  /\ page' = [page EXCEPT !.commit = ~@]
  /\ UNCHANGED <<deck, widget, lane, abort, result>>

\* x, and a and u on the visible rows
Select ==
  /\ Keys /\ screen \in {"workset", "review"} /\ menu = Closed
  /\ focus' = Synced /\ Admit("select", None, Shown)
  /\ Rest /\ UNCHANGED <<screen, menu, box, filter, widget>>
SelectAll ==
  /\ Keys /\ screen # "full" /\ menu = Closed
  /\ \E all \in {"all", "none"} : Admit(all, None, None)
  /\ Rest /\ UNCHANGED <<deck, widget>>

Review ==
  /\ Keys /\ screen = "workset" /\ menu = Closed
  /\ focus' = Synced /\ Admit("review", None, Shown)
  /\ Rest /\ UNCHANGED <<screen, menu, box, filter, widget>>

\* t takes no notice of an open menu
Retry ==
  /\ Keys /\ screen \in {"workset", "review"} /\ Pointed \in Units
  /\ focus' = Synced /\ Admit("retry", Pointed, Shown)
  /\ Rest /\ UNCHANGED <<screen, menu, box, filter, widget>>
Edit ==
  /\ Keys /\ screen \in {"workset", "review"} /\ menu = Closed /\ Pointed \in Units
  /\ focus' = Synced /\ Admit("edit", Pointed, Shown)
  /\ Rest /\ UNCHANGED <<screen, menu, box, filter, widget>>

\* r chooses the other one of two Resolutions and opens a menu for more
Resolution ==
  /\ Keys /\ screen = "workset" /\ Pointed \in Units
  /\ focus' = Synced
  /\ IF Pointed \in Menus
     THEN menu' = [of |-> "resolution", row |-> Shown] /\ UNCHANGED lane
     ELSE Admit("decide", Pointed, Shown) /\ UNCHANGED menu
  /\ Rest /\ UNCHANGED <<screen, box, filter, widget>>

\* v on a review of several sections opens a menu as well
FullView ==
  /\ Keys /\ screen = "review" /\ menu = Closed
  /\ \/ screen' = "full" /\ UNCHANGED menu
     \/ menu' = [of |-> "sections", row |-> Shown] /\ UNCHANGED screen
  /\ Rest /\ UNCHANGED <<box, filter, focus, widget, lane>>

\* Enter or a click in a menu acts on the row that is focused then
Choose ==
  /\ Keys /\ menu # Closed
  /\ menu' = Closed
  /\ IF menu.of = "resolution"
     THEN Admit("decide", Focused, menu.row) /\ UNCHANGED screen
     ELSE screen' = "full" /\ UNCHANGED lane
  /\ Rest /\ UNCHANGED <<box, filter, focus, widget>>

\* c, which closes a menu, and Enter on the page that it opens
Confirmable == Unready(work) = {} /\ Conflicts(work) = {}
Confirm ==
  /\ Keys
  /\ menu' = Closed
  /\ IF screen = "workset" /\ Confirmable
     THEN screen' = "confirm" /\ page' = [rows |-> Selected(work), commit |-> work.commit]
     ELSE UNCHANGED <<screen, page>>
  /\ UNCHANGED <<work, box, filter, focus, widget, lane, abort, result>>
Execute ==
  /\ Keys /\ screen = "confirm"
  /\ result' = "run"
  /\ UNCHANGED <<work, deck, widget, lane, abort, page>>

\* the / box, whose text narrows the workset as it is typed
OpenBox ==
  /\ Keys /\ screen # "confirm" /\ menu = Closed
  /\ box' = [open |-> TRUE, before |-> filter]
  /\ Rest /\ UNCHANGED <<screen, menu, filter, focus, widget, lane>>
Type ==
  /\ Idle /\ box.open /\ screen = "workset"
  /\ \E query \in Queries \cup {AllRows} : ApplyFilter(query)
  /\ Rest /\ UNCHANGED <<screen, menu, box, lane>>
Submit ==
  /\ Idle /\ box.open
  /\ box' = Shut
  /\ IF screen = "workset" /\ Visible(work, filter) = <<>> THEN ApplyFilter(AllRows) ELSE UNCHANGED <<filter, focus, widget>>
  /\ Rest /\ UNCHANGED <<screen, menu, lane>>

\* Escape leaves the innermost of what is open
Back ==
  /\ Idle
  /\ IF box.open
     THEN /\ box' = Shut /\ UNCHANGED <<menu, screen>>
          /\ IF Reads THEN UNCHANGED <<filter, focus, widget>> ELSE ApplyFilter(box.before)
     ELSE IF menu # Closed
     THEN menu' = Closed /\ UNCHANGED <<box, screen, filter, focus, widget>>
     ELSE IF screen = "full"
     THEN screen' = "review" /\ UNCHANGED <<box, menu, filter, focus, widget>>
     ELSE IF screen = "workset"
     THEN ApplyFilter(AllRows) /\ UNCHANGED <<box, menu, screen>>
     ELSE screen' = "workset" /\ Updated(work, filter, focus) /\ UNCHANGED <<box, menu, filter>>
  /\ Rest /\ UNCHANGED lane

\* Ctrl+C, and q at an unfiltered workset: while an Editor runs they are for the Editor
Abort ==
  /\ result \in {"open", "run"}
  /\ IF lane.command = "edit" /\ lane.at # "idle"
     THEN abort' = (IF abort = "session" THEN abort ELSE "editor") /\ UNCHANGED result
     ELSE /\ abort' = "session"
          /\ CASE result = "run"      -> result' \in {"run", "stop"} \* the deck may have returned by then
               [] result = "open"     -> result' = IF lane.at = "idle" THEN "stop" ELSE "open"
  /\ UNCHANGED <<work, deck, widget, lane, page>>

-----------------------------------------------------------------------------
(* The worker, the end of a dispatch in the event loop, and the adapter    *)

Hows == [Units -> {"ready", "failed", "interrupted"}]

\* select, open_review and edit read the focus in the worker, the others have kept their row
Target == IF lane.command \in {"select", "review", "edit"} THEN Focused ELSE lane.row

Dispatched(r, how) ==
  IF lane.command \in {"all", "none"}
  THEN IF Reads \/ screen = "confirm" THEN {work}
       ELSE {Batched(work, lane.command = "all", Elements(Visible(work, filter)), how)}
  ELSE IF r = None THEN {work}
  ELSE CASE lane.command = "select" -> {Toggled(work, r, how)}
         [] lane.command = "review" -> {IF r \in Units /\ ~Reads THEN Reviewed(work, r, how) ELSE work}
         [] lane.command = "retry"  -> {Retried(work, r, how)}
         [] lane.command = "decide" -> {Redecided(work, r, how)}
         [] OTHER -> \* the Editor is left unsaved, fails, or stages some of its sources
              {work, With(work, r, [approved |-> FALSE, proposal |-> "none", trouble |-> "failed"])}
                \cup {Edited(work, r, S, how) : S \in {T \in SUBSET Elements(Sources) : how[r] # "interrupted"}}

Work ==
  /\ lane.at = "queued"
  /\ \/ lane' = [lane EXCEPT !.at = "interrupted"] /\ abort = "session" /\ UNCHANGED <<work, screen>>
     \/ \E how \in Hows :
          /\ work' \in Dispatched(Target, how)
          /\ lane' = [lane EXCEPT !.at = "done", !.row = Target]
          /\ screen' = IF lane.command = "review" /\ Target \notin Auxiliary \cup {None} /\ ~Reads THEN "review" ELSE screen
  /\ UNCHANGED <<menu, box, filter, focus, widget, abort, result, page>>

\* the rest of _materialize: an interrupted row ends the deck as Ctrl+C does
Drained ==
  /\ lane.at \in {"done", "interrupted"}
  /\ lane' = Free
  /\ IF abort = "session" \/ \E u \in Units : work.unit[u].trouble = "interrupted"
     THEN result' = "stop" /\ abort' = "session" /\ UNCHANGED <<focus, widget>>
     ELSE /\ abort' = "none" /\ UNCHANGED result
          /\ LET rows == Visible(work, filter)
                 kept == IF widget.table = rows THEN focus ELSE Clamped(focus, rows)
             IN /\ focus' = kept
                /\ widget' = [table |-> rows, cursor |-> IF widget.table = rows THEN widget.cursor ELSE kept,
                              document |-> IF Reads THEN At(rows, kept) ELSE widget.document]
  /\ UNCHANGED <<work, screen, menu, box, filter, page>>

\* session.execute: what it finds unready, or open in its topology, it rejects
Finish ==
  /\ result = "run"
  /\ result' = IF abort # "session" /\ Confirmable THEN "executed" ELSE "stop"
  /\ UNCHANGED <<work, deck, widget, lane, abort, page>>

\* _select_defaults: all, but for drift without a Base; any trouble blocks the whole run
Unattended ==
  /\ result = "unattended"
  /\ \E how \in Hows :
       LET all == Batched(work, TRUE, Elements(Rows(work)), how)
           some == [all EXCEPT !.unit = [u \in Units |-> [all.unit[u] EXCEPT !.approved = @ /\ u \notin NoBase]]]
       IN /\ work' = some
          /\ page' = [rows |-> Selected(some), commit |-> some.commit]
          /\ result' = IF \E u \in Units : some.unit[u].trouble # "none" THEN "stop" ELSE "run"
  /\ UNCHANGED <<deck, widget, lane, abort>>

Init ==
  /\ \E default \in {{}, Elements(Sources)} :
       work = [unit |-> [u \in Units |-> [approved |-> FALSE, proposal |-> "none", trouble |-> "none"]],
               staged |-> {}, sources |-> default, included |-> {}, commit |-> TRUE]
  /\ screen = "workset" /\ menu = Closed /\ box = Shut /\ filter = AllRows /\ focus = 1
  /\ widget = [table |-> Rows(work), cursor |-> 1, document |-> None]
  /\ lane = Free /\ abort = "none" /\ result \in {"open", "unattended"}
  /\ page = [rows |-> {}, commit |-> FALSE]

Next ==
  \/ Navigate \/ Click \/ ToggleCommit \/ Select \/ SelectAll \/ Review \/ Retry \/ Edit \/ Resolution
  \/ FullView \/ Choose \/ Confirm \/ Execute \/ OpenBox \/ Type \/ Submit \/ Back
  \/ Abort \/ Work \/ Drained \/ Finish \/ Unattended
Spec == Init /\ [][Next]_vars

-----------------------------------------------------------------------------

\* What is executed is what the confirmation has shown, ready and with its topology closed:
\* nothing that a filter hides, a late dispatch or an edit has changed since (confirm, execute).
RunsWhatItShowed ==
  result = "executed" => Selected(work) = page.rows /\ work.commit = page.commit /\ Confirmable

\* A command acts on the row that its key or click was given at, whatever rows an edit has added
\* or a filter has left by the time the worker gets to it (sync_focus, rebuild_workset).
ActsOnShown == lane.at = "done" /\ lane.command \notin {"all", "none"} => lane.row = lane.asked

\* Ctrl+C outside the Editor ends the deck as soon as nothing runs, and nothing executes after it.
AbortIsFinal == abort = "session" => result # "executed" /\ (lane.at = "idle" => result # "open")

\* A dispatch ends at the row it was given at, though an edit may have staged or dropped sources.
StaysPut ==
  lane.at = "done" /\ lane'.at = "idle" /\ result' = "open" /\ lane.command \notin {"all", "none"} => Shown' = lane.asked

DeckRunsWhatItShows == [](TypeOK /\ RunsWhatItShowed /\ ActsOnShown /\ AbortIsFinal) /\ [][StaysPut]_vars
=============================================================================
