---------------------------- MODULE SyncLifecycle ----------------------------
(***************************************************************************)
(* The life of one Sync Unit's Base over the push, pull and sync runs on   *)
(* it (sync_observation.py, sync_base_lifecycle.py, operation_lock.py, the *)
(* materialization and completion of sync_session.py): lock, maintenance,  *)
(* Guards, frozen endpoints, comparison, Proposal, effects, record.  The   *)
(* user edits both files and the policy at any time, and resets the Base.  *)
(* A file is one value per hunk.  Modes, symlinks to files, Additional     *)
(* Sources and several units are in SyncSession; records in SyncBaseStore. *)
(***************************************************************************)
EXTENDS Naturals

CONSTANTS
  Operations,   \* the runs, each of which happens at most once
  Hunks,        \* what a merge tells apart
  Values,       \* of a hunk
  Generated,    \* the hunks that templates, captures and overlays are about
  Texts,        \* what the user writes into a file
  Projections,  \* how Render and Capture relate the two files
  Policies,     \* configured policies
  Follows,      \* whether file_symlink_mode is follow
  Edits,        \* bound on the edits of the user
  Missing, None

Text == [Hunks -> Values]
State == Text \cup {Missing}
Expression == 0  \* the value of a hunk that is a template expression,
Expanded == 1    \* and what it expands to

LifecycleAssumption ==
  /\ Texts \subseteq Text /\ Generated \subseteq Hunks /\ {Expression, Expanded} \subseteq Values
  /\ Missing \notin Text \cup {None} /\ None \notin Text
  /\ Projections \subseteq {"raw", "patch", "overlay", "lossy"}
  /\ Policies \subseteq {"both", "pull-only", "push-only", "push-only-delete"}
  /\ Follows \subseteq BOOLEAN /\ Edits \in Nat
  /\ None \notin Operations

VARIABLES
  source,      \* the repository file
  live,        \* the live file: whether a link dangles there, and its text
  base,        \* the Base on record
  setting,     \* projection, policy and symlink mode, as configured
  lock,        \* the operation that owns the manager
  runs,        \* where each operation is, and what it has frozen
  edits,       \* edits made
  met          \* what the files held when the Base was last recorded, while it still counts

vars == <<source, live, base, setting, lock, runs, edits, met>>

Waiting ==
  [at |-> "waiting", op |-> "sync", policy |-> "both", route |-> "no-route", source |-> Missing, live |-> Missing,
   intent |-> "none", result |-> Missing, outcome |-> Missing, quiet |-> TRUE, converged |-> FALSE, kept |-> FALSE]

TypeOK ==
  /\ source \in State /\ live \in [dangles : BOOLEAN, text : State] /\ (live.dangles => live.text = Missing)
  /\ base \in State \cup {None}
  /\ setting.projection \in Projections /\ setting.policy \in Policies /\ setting.follow \in Follows
  /\ lock \in Operations \cup {None}
  /\ \A o \in Operations :
       /\ runs[o].at \in {"waiting", "locked", "guards", "opened", "source", "frozen", "review", "approved",
                          "publishing", "recording", "done"}
       /\ runs[o].op \in {"push", "pull", "sync"} /\ runs[o].policy \in Policies \cup {"both"}
       /\ runs[o].result \in State /\ runs[o].outcome \in State
  /\ edits \in 0..Edits
  /\ met \in [source : State, live : State] \cup {None}

Holds(text) == [dangles |-> FALSE, text |-> text]

Init ==
  /\ source \in Texts \cup {Missing} /\ live = Holds(source)
  /\ base = None /\ met = None /\ lock = None /\ edits = 0
  /\ setting \in [projection : Projections, policy : Policies, follow : Follows]
  /\ runs = [o \in Operations |-> Waiting]

-----------------------------------------------------------------------------
(* Projections.  raw: the files are equal.  patch: the source is a         *)
(* template and Capture a patch on it.  overlay: the generated hunks are   *)
(* live's own.  lossy: Capture normalises the generated hunks.             *)

Mix(s, t) == [h \in Hunks |-> IF h \in Generated THEN t[h] ELSE s[h]]
Blank == [h \in Hunks |-> 0]

Expand(s) == [h \in Hunks |-> IF h \in Generated /\ s[h] = Expression THEN Expanded ELSE s[h]]
Render(s, l) ==
  IF s = Missing THEN Missing
  ELSE CASE setting.projection = "patch" -> Expand(s)
         [] setting.projection = "overlay" /\ l # Missing -> Mix(s, l)
         [] OTHER -> s

\* apply_review_patch and its verification: the edits of the review on the raw source
Overlaps(s, l) == \E h \in Hunks : l[h] # Expand(s)[h] /\ s[h] # Expand(s)[h] /\ l[h] # s[h]
Patched(s, l) == [h \in Hunks |-> IF l[h] = Expand(s)[h] THEN s[h] ELSE l[h]]
SameSyntax(s, t) == \A h \in Generated : s[h] = Expression <=> t[h] = Expression
Captures(s, l) ==
  setting.projection = "patch" /\ l # Missing =>
    /\ s # Missing /\ ~Overlaps(s, l)
    /\ SameSyntax(s, Patched(s, l)) /\ Expand(Patched(s, l)) = l
Capture(s, l) ==
  IF l = Missing THEN Missing
  ELSE CASE setting.projection = "patch" /\ s # Missing -> Patched(s, l)
         [] setting.projection = "overlay" -> Mix(l, IF s = Missing THEN Blank ELSE s)
         [] setting.projection = "lossy" -> Mix(l, Blank)
         [] OTHER -> l

\* the comparison of Observation: Render against live, or the source against the Capture
Agree(route, s, l) ==
  IF route = "push-only-delete" THEN l = Missing
  ELSE IF route = "push-only" \/ setting.projection = "patch" THEN Render(s, l) = l
  ELSE s = Capture(s, l)

-----------------------------------------------------------------------------
(* Opening: lock, maintenance, Guards                                      *)

Is(o, at) == runs[o].at = at
Go(o, at) == runs' = [runs EXCEPT ![o].at = at]
Ended(o, converged) == runs' = [runs EXCEPT ![o] = [Waiting EXCEPT !.at = "done", !.converged = converged]]
Finish(o) == Ended(o, FALSE) /\ lock' = None
Files == <<source, live>>

PullsOrPublishes(policy) == policy # "push-only-delete"                            \* mutant
Eligible(policy) == policy \in {"pull-only", "both"}
Directions(policy) ==
  CASE policy = "both" -> {"push", "pull"} [] policy = "pull-only" -> {"pull"} [] OTHER -> {"push"}
Of(op) == IF op = "sync" THEN {"push", "pull"} ELSE {op}

Begin(o, op) ==
  /\ Is(o, "waiting") /\ Directions(setting.policy) \cap Of(op) # {}
  /\ IF lock = None
     THEN lock' = o /\ runs' = [runs EXCEPT ![o].at = "locked", ![o].op = op, ![o].policy = setting.policy]
     ELSE Ended(o, FALSE) /\ UNCHANGED lock  \* OperationBusy
  /\ UNCHANGED <<Files, base, setting, edits, met>>

\* _discard_ineligible_bases; a deletion that fails is a warning
Discard(o, saved) ==
  /\ Is(o, "locked")
  /\ IF Eligible(runs[o].policy) \/ ~saved
     THEN UNCHANGED <<base, met>>
     ELSE base' = None /\ met' = None
  /\ runs' = [runs EXCEPT ![o].at = "guards", ![o].kept = ~Eligible(runs[o].policy) /\ ~saved]
  /\ UNCHANGED <<Files, setting, lock, edits>>

\* _effective_policy
Route(policy, admitted) ==
  CASE admitted = {"push", "pull"} -> "both"
    [] admitted = {"push"} -> IF policy = "push-only-delete" THEN policy ELSE "push-only"
    [] admitted = {"pull"} -> "pull-only"
    [] OTHER -> "no-route"

\* Guards narrow the directions; an error, or no route, ends the work on the unit
Guard(o, admitted) ==
  /\ Is(o, "guards") /\ admitted \subseteq Directions(runs[o].policy) \cap Of(runs[o].op)
  /\ IF admitted = {}
     THEN Finish(o)
     ELSE UNCHANGED lock /\ runs' = [runs EXCEPT ![o].at = "opened", ![o].route = Route(runs[o].policy, admitted)]
  /\ UNCHANGED <<Files, base, setting, edits, met>>

-----------------------------------------------------------------------------
(* Observation                                                             *)

FreezeSource(o) ==
  /\ Is(o, "opened")
  /\ runs' = [runs EXCEPT ![o].at = "source", ![o].source = source]
  /\ UNCHANGED <<Files, base, setting, lock, edits, met>>

AnyLink(o) == TRUE                                                                \* mutant
\* a link that dangles is Missing to follow mode, and to work that cannot delete the source
FollowMissing(o) == setting.follow \/ runs[o].route \in {"push-only", "push-only-delete"}
FreezeLive(o) ==
  /\ Is(o, "source")
  /\ IF live.dangles /\ ~FollowMissing(o)
     THEN Finish(o)
     ELSE UNCHANGED lock /\ runs' = [runs EXCEPT ![o].at = "frozen", ![o].live = live.text]
  /\ UNCHANGED <<Files, base, setting, edits, met>>

\* an acknowledgment: the Base, and whether it counts as the last meeting of the files
Record(o, payload, saved) ==
  /\ base' = IF saved THEN payload ELSE base
  /\ met' = IF saved /\ runs[o].quiet THEN [source |-> source, live |-> live.text] ELSE None

Converge(o) == Ended(o, TRUE) /\ lock' = None

\* direct_agreement, before any review
DirectAgreement(o, saved) ==
  /\ Is(o, "frozen") /\ Agree(runs[o].route, runs[o].source, runs[o].live)
  /\ Converge(o)
  /\ IF Eligible(runs[o].policy)
     THEN Record(o, runs[o].source, saved)
     ELSE UNCHANGED <<base, met>>
  /\ UNCHANGED <<Files, setting, edits>>

Drifts(o) ==
  /\ Is(o, "frozen") /\ ~Agree(runs[o].route, runs[o].source, runs[o].live)
  /\ Go(o, "review")
  /\ UNCHANGED <<Files, base, setting, lock, edits, met>>

-----------------------------------------------------------------------------
(* Proposals                                                               *)

\* sync_reconciliation.reconcile, on the frozen ancestor
Clash(b, s, c) == \E h \in Hunks : s[h] # b[h] /\ c[h] # b[h] /\ s[h] # c[h]
Merges(b, s, c) ==
  s = c \/ s = b \/ c = b \/ (Missing \notin {b, s, c} /\ ~Clash(b, s, c))
Merge(b, s, c) ==
  CASE s = c -> s
    [] s = b -> c
    [] c = b -> s
    [] OTHER -> [h \in Hunks |-> IF s[h] = b[h] THEN c[h] ELSE s[h]]

Intents(o) ==
  CASE runs[o].route = "both" -> {"editor", "use-repository", "use-live"} \cup (IF base = None THEN {} ELSE {"merge"})
    [] runs[o].route = "pull-only" -> {"editor", "use-live"}
    [] OTHER -> {"editor", "use-repository"}

\* the repository outcomes an intent can come to; none when its provider fails
Results(o, intent) ==
  LET s == runs[o].source
      l == runs[o].live
  IN CASE intent = "use-repository" -> {s}
       [] intent = "editor" -> Texts
       [] intent = "use-live" /\ Captures(s, l) -> {Capture(s, l)}
       [] intent = "merge" /\ Captures(s, l) /\ Merges(base, s, Capture(s, l)) ->
            {Merge(base, s, Capture(s, l))}
       [] OTHER -> {}

OutcomeOfFrozen(o, result) == Render(runs[o].source, runs[o].live)                  \* mutant
\* what the live file is to hold
Outcome(o, result) ==
  CASE runs[o].route = "pull-only" -> runs[o].live
    [] runs[o].route = "push-only-delete" -> Missing
    [] OTHER -> Render(result, runs[o].live)

Approve(o, intent) ==
  /\ Is(o, "review") /\ intent \in Intents(o)
  /\ \E result \in Results(o, intent) :
       runs' = [runs EXCEPT ![o].at = "approved", ![o].intent = intent, ![o].result = result,
                            ![o].outcome = Outcome(o, result)]
  /\ UNCHANGED <<Files, base, setting, lock, edits, met>>

-----------------------------------------------------------------------------
(* Execution                                                               *)

\* _qualify_checkpoint: what was published proves itself, what was pulled is rendered
Qualified(o) ==
  \/ runs[o].op \in {"sync", "push"} /\ runs[o].route \in {"push-only", "both"}
  \/ Render(runs[o].result, runs[o].live) = runs[o].live

Changed(o) == runs[o].result # runs[o].source
Publishes(o) == runs[o].outcome # runs[o].live

ApplySource(o) ==
  /\ Is(o, "approved")
  /\ source' = IF Changed(o) THEN runs[o].result ELSE source
  /\ met' = IF Changed(o) THEN None ELSE met
  /\ Go(o, IF Publishes(o) THEN "publishing" ELSE "recording")
  /\ UNCHANGED <<live, base, setting, lock, edits>>

Publish(o) ==
  /\ Is(o, "publishing")
  /\ live' = Holds(runs[o].outcome)
  /\ met' = None
  /\ Go(o, "recording")
  /\ UNCHANGED <<source, base, setting, lock, edits>>

FrozenSource(o) == runs[o].source                                                 \* mutant
Payload(o) == runs[o].result

\* _acknowledge, at the completion of the unit
Complete(o, saved) ==
  /\ Is(o, "recording")
  /\ Converge(o)
  /\ IF Eligible(runs[o].policy) /\ Qualified(o)
     THEN Record(o, Payload(o), saved)
     ELSE UNCHANGED base /\ met' = None
  /\ UNCHANGED <<Files, setting, edits>>

\* nothing approved, an interrupted review, a failed effect, or the end of the process: the
\* lock goes with its owner
Stop(o) ==
  /\ runs[o].at \notin {"waiting", "done"}
  /\ Finish(o)
  /\ UNCHANGED <<Files, base, setting, edits, met>>

-----------------------------------------------------------------------------
(* The user                                                                *)

Frozen == {"source", "frozen", "review", "approved", "publishing", "recording"}
Disturbed == [o \in Operations |-> [runs[o] EXCEPT !.quiet = @ /\ runs[o].at \notin Frozen]]
Edit == edits < Edits /\ edits' = edits + 1

EditSource(s) ==
  /\ Edit /\ s # source /\ source' = s
  /\ runs' = Disturbed
  /\ UNCHANGED <<live, base, setting, lock, met>>
EditLive(l) ==
  /\ Edit /\ l # live /\ live' = l
  /\ runs' = Disturbed
  /\ UNCHANGED <<source, base, setting, lock, met>>
EditPolicy(p) ==
  /\ Edit /\ p # setting.policy /\ setting' = [setting EXCEPT !.policy = p]
  /\ UNCHANGED <<Files, base, lock, runs, met>>

\* reset_sync_base
Reset ==
  /\ lock = None /\ base # None
  /\ base' = None /\ met' = None
  /\ UNCHANGED <<Files, setting, lock, runs, edits>>

Run(o) ==
  \/ \E op \in {"push", "pull", "sync"} : Begin(o, op)
  \/ \E admitted \in SUBSET {"push", "pull"} : Guard(o, admitted)
  \/ FreezeSource(o) \/ FreezeLive(o) \/ Drifts(o)
  \/ \E intent \in {"use-repository", "use-live", "merge", "editor"} : Approve(o, intent)
  \/ ApplySource(o) \/ Publish(o) \/ Stop(o)
  \/ \E saved \in BOOLEAN : Discard(o, saved) \/ DirectAgreement(o, saved) \/ Complete(o, saved)

User ==
  \/ \E s \in Texts \cup {Missing} : EditSource(s)
  \/ \E l \in {Holds(t) : t \in Texts \cup {Missing}} \cup {[dangles |-> TRUE, text |-> Missing]} : EditLive(l)
  \/ \E p \in Policies : EditPolicy(p)
  \/ Reset

Next == (\E o \in Operations : Run(o)) \/ User
Spec == Init /\ [][Next]_vars

-----------------------------------------------------------------------------

Consistent(s, l) == Render(s, l) = l \/ s = Capture(s, l)

\* docs/sync.md, "Checkpoints": an operation that nobody has disturbed and that ends converged
\* leaves files that agree, and a Base it has recorded is the source they agree in.  A pulled
\* source that the Editor has written is converged without agreeing; it is not recorded then.
EndsInAgreement ==
  [][\A o \in Operations :
       /\ runs'[o].converged /\ ~runs[o].converged /\ runs[o].quiet
       => /\ \/ Agree(runs[o].route, source, live.text) \/ Consistent(source, live.text)
             \/ runs[o].route = "pull-only" /\ runs[o].intent = "editor"
          /\ base' # base => base' = source /\ Consistent(source, live.text)]_vars

\* docs/sync.md, "Merge": whatever runs, edits, policies and failed saves came before, a merge
\* keeps every hunk that only one side has changed since the Base was recorded as that side has it.
KeepsBothEdits(o) ==
  LET c     == Capture(source, live.text)
      was   == Capture(met.source, met.live)
      mine  == {h \in Hunks : source[h] # met.source[h]}
      yours == {h \in Hunks : c[h] # was[h]}
  IN /\ \A h \in mine \ yours : source'[h] = source[h]
     /\ \A h \in yours \ mine : source'[h] = c[h]
MergesBoth(o) ==
  /\ Is(o, "approved") /\ runs[o].intent = "merge" /\ runs[o].quiet /\ lock = o /\ lock' = o
  /\ met # None /\ Missing \notin {source, source', live.text, met.source, met.live}
MergeKeepsEdits ==
  [][\A o \in Operations : MergesBoth(o) /\ runs'[o].at # "approved" => KeepsBothEdits(o)]_vars

\* docs/cli.md:501: an operation deletes the source only for a live file that was not there when
\* it looked; in prompt mode a link that dangles is not one.
DeletesSource(o) == Is(o, "approved") /\ runs'[o].at # "approved" /\ source # Missing /\ source' = Missing
DeletionsAreReal ==
  [][\A o \in Operations :
       DeletesSource(o) /\ lock' = o =>
         runs[o].live = Missing /\ (runs[o].quiet /\ live.dangles => setting.follow)]_vars

\* docs/sync.md, "Policy maintenance": past its opening, a run on a unit that may have no Base
\* works without one, whatever Guards, failures and earlier policies did, unless the deletion failed.
IneligibleHasNoBase ==
  \A o \in Operations :
    /\ lock = o /\ ~Is(o, "locked") /\ runs[o].policy \in {"push-only", "push-only-delete"} /\ ~runs[o].kept
    => base = None
=============================================================================
