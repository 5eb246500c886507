------------------------- MODULE SyncSessionProofs -------------------------
(***************************************************************************)
(* What is executed was made from the inputs that are authorized: the      *)
(* caches of Captures and Renders are coherent and the Proposals fresh in  *)
(* every state of a session, for every set of rows and sources.  A         *)
(* dispatch leaves alone the rows that it is not about.                    *)
(***************************************************************************)
EXTENDS SyncSession, TLAPS

\* the same as Resolved, InputsOf, ... of a row in any state of the session
ResolvedFrom(intent, edit, inputs) ==
  CASE intent = "use-repository" -> Kept
    [] intent = "use-live"       -> Captured(inputs)
    [] intent = "merge"          -> Merged(inputs)
    [] intent = "editor"         -> edit

InputsIn(contents, approved, r) ==
  [s \in Refs[r] |-> IF s \in approved THEN contents[s] ELSE Preimage]

CoherentRow(capture, cached, inputs) ==
  /\ capture \in {Nothing, inputs}
  /\ \A e \in cached : e.from = inputs

FreshRow(one, edit, inputs) ==
  one.proposal # Nothing =>
    /\ one.proposal.repository = ResolvedFrom(one.intent, edit, inputs)
    /\ one.proposal.rendered \in {Nothing, inputs}

SavedRow(one, edit) == one.intent = "editor" => edit # Nothing

CoherentInv == \A r \in Row : CoherentRow(captures[r], renders[r], InputsOf(r))

\* the row that has just been edited may still show its previous Proposal
FreshInv ==
  \A r \in Row : ~(work.at = "others" /\ r = work.row) => FreshRow(row[r], edited[r], InputsOf(r))

Sound(s) ==
  /\ s \in Session
  /\ \A r \in Row :
       /\ SavedRow(s.row[r], s.edited[r])
       /\ CoherentRow(s.captures[r], s.renders[r], InputsIn(s.candidate, s.authorized, r))
       /\ FreshRow(s.row[r], s.edited[r], InputsIn(s.candidate, s.authorized, r))

\* what the worker relies on at the points of a dispatch
WorkInv ==
  /\ work.at \in {"apply", "review", "open", "editing", "others"} => work.row \in Row
  /\ work.at \in {"open", "editing", "others"} => Sound(before) /\ before.authorized = authorized
  /\ work.at \in {"editing", "others"} => work.text # Nothing
  /\ work.at = "others" =>
       /\ row[work.row].intent = "editor" /\ edited[work.row] = work.text
       /\ row[work.row].proposal # Nothing /\ ~work.stale =>
            row[work.row].proposal.rendered \in {Nothing, InputsOf(work.row)}

IInv == TypeOK /\ CoherentInv /\ FreshInv /\ WorkInv

-----------------------------------------------------------------------------
(* Materialization                                                         *)

\* The inputs of a row are inputs.
LEMMA InputsAreInput ==
  ASSUME NEW r \in Row, NEW contents \in [Source -> Content], NEW approved
  PROVE  InputsIn(contents, approved, r) \in Input
<1>1. Refs[r] \subseteq Source
  BY WorksetAssumption
<1>2. InputsIn(contents, approved, r) \in [Refs[r] -> Content]
  BY <1>1 DEF InputsIn, Content
<1> QED
  BY <1>2 DEF Input

\* The contents given to a provider of r (_input_bytes).
LEMMA InputsOfIsInput ==
  ASSUME TypeOK, NEW r \in Row
  PROVE  InputsOf(r) = InputsIn(candidate, authorized, r) /\ InputsOf(r) \in Input
<1>1. candidate \in [Source -> Content]
  BY DEF TypeOK, Now, Session
<1> QED
  BY <1>1, InputsAreInput DEF InputsIn, InputsOf

\* What an attempt starts from, when the caches are coherent.
LEMMA AttemptInputs ==
  ASSUME TypeOK, CoherentInv, NEW r \in Row
  PROVE  /\ Taken(r) = InputsOf(r) /\ Taken(r) \in Input
         /\ Resolution(r) = ResolvedFrom(row[r].intent, edited[r], InputsOf(r))
         /\ Resolution(r) \in Outcome
<1>1. Taken(r) = InputsOf(r) /\ Taken(r) \in Input
  BY InputsOfIsInput DEF Taken, CoherentInv, CoherentRow
<1>2. row[r].intent \in Intent /\ edited[r] \in Outcome \cup {Nothing}
  BY DEF TypeOK, Now, Session, RowState
<1>3. row[r].intent = "editor" => edited[r] \in Outcome
  BY <1>2 DEF TypeOK
<1>4. Resolution(r) = ResolvedFrom(row[r].intent, edited[r], InputsOf(r))
  BY <1>1 DEF Resolution, Resolved, ResolvedFrom
<1>5. Kept \in Outcome /\ Captured(Taken(r)) \in Outcome /\ Merged(Taken(r)) \in Outcome
  BY <1>1 DEF Outcome
<1>6. Resolution(r) \in Outcome
  BY <1>2, <1>3, <1>5 DEF Resolution, Resolved, Intent
<1> QED
  BY <1>1, <1>4, <1>6

\* The caches that an attempt can leave.
GoodCache(r, capture, cached) ==
  /\ capture \in Input \cup {Nothing} /\ cached \in SUBSET Render
  /\ CoherentRow(capture, cached, InputsOf(r))

LEMMA AttemptCaches ==
  ASSUME TypeOK, CoherentInv, NEW r \in Row
  PROVE  /\ GoodCache(r, captures[r], renders[r])
         /\ \A c \in Reapplied(r) \cup {Needs(r)} :
              /\ GoodCache(r, c, Known(r, c))
              /\ \A e \in Used(r) : GoodCache(r, c, Known(r, c) \cup {e})
         /\ \A e \in Used(r) : e.from = InputsOf(r) /\ e.from \in Input
<1> DEFINE taken == Taken(r)
<1>1. taken = InputsOf(r) /\ taken \in Input /\ Resolution(r) \in Outcome
  BY AttemptInputs
<1>2. captures[r] \in Input \cup {Nothing} /\ renders[r] \in SUBSET Render
  BY DEF TypeOK, Now, Session
<1>3. CoherentRow(captures[r], renders[r], InputsOf(r))
  BY DEF CoherentInv
<1>4. GoodCache(r, captures[r], renders[r])
  BY <1>2, <1>3 DEF GoodCache
<1>5. \A c \in Reapplied(r) \cup {Needs(r)} : c \in {captures[r], taken}
  BY DEF Reapplied, Needs
<1>6. ASSUME NEW c \in {captures[r], taken}
      PROVE  GoodCache(r, c, Known(r, c))
  <2>1. CASE c = captures[r]
    BY <2>1, <1>4 DEF Known
  <2>2. CASE c = taken /\ c # captures[r]
    <3>1. Captured(c) \in Outcome
      BY <1>1, <2>2 DEF Outcome
    <3>2. [of |-> Captured(c), from |-> c] \in Render
      BY <3>1, <1>1, <2>2 DEF Render
    <3>3. Known(r, c) \in SUBSET Render
      BY <3>2, <1>2 DEF Known
    <3>4. \A e \in Known(r, c) : e.from = InputsOf(r)
      BY <1>1, <1>3, <2>2 DEF Known, CoherentRow
    <3> QED
      BY <3>3, <3>4, <1>1, <2>2 DEF GoodCache, CoherentRow
  <2> QED
    BY <2>1, <2>2
<1>7. ASSUME NEW e \in Used(r)
      PROVE  e \in Render /\ e.from = InputsOf(r) /\ e.from \in Input
  <2>1. CASE e \in Cached(r)
    <3>1. GoodCache(r, Needs(r), Known(r, Needs(r)))
      BY <1>5, <1>6
    <3>2. e \in Known(r, Needs(r))
      BY <2>1 DEF Cached
    <3> QED
      BY <3>1, <3>2, <1>1 DEF GoodCache, CoherentRow
  <2>2. CASE e = [of |-> Resolution(r), from |-> InputsOf(r)]
    BY <2>2, <1>1 DEF Render
  <2> QED
    BY <2>1, <2>2 DEF Used
<1>8. ASSUME NEW c \in {captures[r], taken}, NEW e \in Used(r)
      PROVE  GoodCache(r, c, Known(r, c) \cup {e})
  BY <1>6, <1>7 DEF GoodCache, CoherentRow
<1> QED
  BY <1>4, <1>5, <1>6, <1>7, <1>8

\* How an attempt can end (_materialize_row): with coherent caches, and a Proposal made
\* from the authorized inputs or none.
GoodEnd(r, end) ==
  /\ end.end \in {"ok", "failed", "conflict", "interrupted"}
  /\ GoodCache(r, end.capture, end.renders)
  /\ end.end # "ok" => end.proposal = Nothing
  /\ end.end = "ok" =>
       /\ end.proposal \in Proposal
       /\ end.proposal.repository = ResolvedFrom(row[r].intent, edited[r], InputsOf(r))
       /\ end.proposal.rendered \in {Nothing, InputsOf(r)}

LEMMA AttemptsEndWell ==
  ASSUME TypeOK, CoherentInv, NEW r \in Row, NEW end \in Attempts(r)
  PROVE  GoodEnd(r, end)
<1>1. Resolution(r) \in Outcome /\ Resolution(r) = ResolvedFrom(row[r].intent, edited[r], InputsOf(r))
  BY AttemptInputs
<1>2. ASSUME NEW name \in {"failed", "conflict", "interrupted"}, NEW c, NEW n,
             GoodCache(r, c, n), end = End(name, Nothing, c, n)
      PROVE  GoodEnd(r, end)
  BY <1>2 DEF End, GoodEnd
<1>3. ASSUME NEW i \in {Nothing, InputsOf(r)}, NEW c, NEW n,
             GoodCache(r, c, n), end = End("ok", Settled(r, Resolution(r), i), c, n)
      PROVE  GoodEnd(r, end)
  <2>1. i \in Input \cup {Nothing}
    BY InputsOfIsInput
  <2>2. Settled(r, Resolution(r), i) \in Proposal
    BY <1>1, <2>1 DEF Settled, Proposal
  <2> QED
    BY <1>1, <1>3, <2>2 DEF End, GoodEnd, Settled
<1>4. ASSUME NEW c, NEW n, GoodCache(r, c, n), end \in Stops(r, c, n) \/ end \in Halts(r, c, n)
      PROVE  GoodEnd(r, end)
  BY <1>2, <1>4 DEF Stops, Halts
<1>5. GoodCache(r, captures[r], renders[r]) /\ GoodCache(r, Needs(r), Known(r, Needs(r)))
  BY AttemptCaches
<1>6. CASE end = End("conflict", Nothing, captures[r], renders[r])
  BY <1>2, <1>5, <1>6
<1>7. CASE end \in Stopped(r)
  <2>1. CASE end = End("interrupted", Nothing, captures[r], renders[r])
    BY <1>2, <1>5, <2>1
  <2>2. CASE end \in Stops(r, captures[r], renders[r])
    BY <1>4, <1>5, <2>2
  <2>3. CASE \/ end \in Stops(r, Needs(r), Known(r, Needs(r)))
             \/ end \in Halts(r, Needs(r), Known(r, Needs(r)))
    BY <1>4, <1>5, <2>3
  <2>4. CASE end = End("conflict", Nothing, Needs(r), Known(r, Needs(r)))
    BY <1>2, <1>5, <2>4
  <2>5. ASSUME NEW e \in Used(r), end \in Stops(r, Needs(r), Known(r, Needs(r)) \cup {e})
        PROVE  GoodEnd(r, end)
    BY <1>4, <2>5, AttemptCaches
  <2> QED
    BY <1>7, <2>1, <2>2, <2>3, <2>4, <2>5 DEF Stopped
<1>8. CASE end \in Finished(r)
  <2>1. ASSUME NEW c \in Reapplied(r), NEW e \in Used(r),
               end = End("failed", Nothing, c, Known(r, c) \cup {e})
        PROVE  GoodEnd(r, end)
    BY <1>2, <2>1, AttemptCaches
  <2>2. ASSUME NEW c \in Reapplied(r), NEW e \in Used(r),
               end = End("ok", Settled(r, Resolution(r), e.from), c, Known(r, c) \cup {e})
        PROVE  GoodEnd(r, end)
    BY <1>3, <2>2, AttemptCaches
  <2>3. CASE end = End("ok", Settled(r, Resolution(r), Nothing), Needs(r), Known(r, Needs(r)))
    BY <1>3, <1>5, <2>3
  <2>4. CASE Refused(r, Resolution(r))
    <3>1. PICK c \in Reapplied(r), e \in Used(r) : end = End("failed", Nothing, c, Known(r, c) \cup {e})
      BY <1>8, <2>4 DEF Finished
    <3> QED
      BY <2>1, <3>1
  <2>5. CASE ~Refused(r, Resolution(r)) /\ RunsRender(r)
    <3>1. CASE end \in {End("ok", Settled(r, Resolution(r), e.from), c, Known(r, c) \cup {e}) :
                          c \in Reapplied(r), e \in Used(r)}
      <4>1. PICK c \in Reapplied(r), e \in Used(r) :
                   end = End("ok", Settled(r, Resolution(r), e.from), c, Known(r, c) \cup {e})
        BY <3>1
      <4> QED
        BY <2>2, <4>1
    <3> QED
      BY <1>8, <2>3, <2>5, <3>1 DEF Finished, Refused, RunsRender
  <2>6. CASE ~Refused(r, Resolution(r)) /\ ~RunsRender(r)
    BY <1>8, <2>3, <2>6 DEF Finished, Refused, RunsRender
  <2> QED
    BY <2>4, <2>5, <2>6 DEF Refused, RunsRender
<1> QED
  BY <1>6, <1>7, <1>8 DEF Attempts

-----------------------------------------------------------------------------
(* Commands on one row                                                     *)

Booleans == {cancelled, dropped, attended} \subseteq BOOLEAN

\* The types of the variables, one by one.
LEMMA Types ==
  ASSUME TypeOK
  PROVE  /\ row \in [Row -> RowState] /\ candidate \in [Source -> Content]
         /\ authorized \in SUBSET Source /\ edited \in [Row -> Outcome \cup {Nothing}]
         /\ captures \in [Row -> Input \cup {Nothing}] /\ renders \in [Row -> SUBSET Render]
         /\ Booleans /\ work \in WorkState
  BY DEF TypeOK, Now, Session, Booleans

LEMMA TypesSuffice ==
  ASSUME row' \in [Row -> RowState], candidate' \in [Source -> Content],
         authorized' \in SUBSET Source, edited' \in [Row -> Outcome \cup {Nothing}],
         captures' \in [Row -> Input \cup {Nothing}], renders' \in [Row -> SUBSET Render],
         Booleans', work' \in WorkState, before' \in Session \cup {Nothing},
         \A r \in Row : SavedRow(row'[r], edited'[r])
  PROVE  TypeOK'
  BY DEF TypeOK, Now, Session, Booleans, SavedRow

\* The session as a dispatch finds it.
LEMMA NowIsSound ==
  ASSUME TypeOK, CoherentInv, \A r \in Row : FreshRow(row[r], edited[r], InputsOf(r)),
         NEW asked \in SUBSET Row
  PROVE  Sound([Now EXCEPT !.asked = asked])
<1> DEFINE now == [Now EXCEPT !.asked = asked]
<1>1. now = [row |-> row, candidate |-> candidate, authorized |-> authorized, edited |-> edited,
             captures |-> captures, renders |-> renders, asked |-> asked]
  BY DEF Now
<1>2. now \in Session
  BY <1>1, Types DEF Session
<1>3. \A r \in Row : SavedRow(row[r], edited[r])
  BY DEF TypeOK, SavedRow
<1>4. \A r \in Row : InputsOf(r) = InputsIn(candidate, authorized, r)
  BY InputsOfIsInput
<1> SUFFICES Sound(now)
  OBVIOUS
<1> HIDE DEF now
<1> QED
  BY <1>1, <1>2, <1>3, <1>4 DEF Sound, CoherentInv

\* A step that changes only a row, to one that is fresh, and the point of the dispatch.
LEMMA RowStep ==
  ASSUME IInv, NEW r \in Row, NEW one \in RowState,
         SavedRow(one, edited[r]), FreshRow(one, edited[r], InputsOf(r)),
         row' = [row EXCEPT ![r] = one], Booleans', work' \in WorkState,
         before' \in Session \cup {Nothing}, WorkInv',
         work.at # "others",
         UNCHANGED <<candidate, authorized, edited, captures, renders>>
  PROVE  IInv'
<1>1. row' \in [Row -> RowState] /\ \A q \in Row : row'[q] = IF q = r THEN one ELSE row[q]
  BY Types DEF IInv
<1>2. \A q \in Row : SavedRow(row'[q], edited'[q])
  BY <1>1 DEF IInv, TypeOK, SavedRow
<1>3. TypeOK'
  BY <1>1, <1>2, Types, TypesSuffice DEF IInv
<1>4. \A q \in Row : InputsOf(q)' = InputsOf(q)
  BY DEF InputsOf
<1>5. CoherentInv'
  BY <1>4 DEF IInv, CoherentInv
<1>6. FreshInv'
  BY <1>1, <1>4 DEF IInv, FreshInv
<1> QED
  BY <1>3, <1>5, <1>6 DEF IInv

LEMMA RowCommandStep ==
  ASSUME IInv, NEW r \in Row, NEW at \in {"apply", "review"}, NEW one \in RowState,
         NEW asked \in SUBSET Row,
         SavedRow(one, edited[r]), FreshRow(one, edited[r], InputsOf(r)),
         RowCommand(at, r, one, asked)
  PROVE  IInv'
<1>1. work' \in WorkState /\ work'.at = at /\ work'.row = r
  BY DEF RowCommand, Begin, Idle, WorkState, Point
<1>2. work.at = "idle" /\ before' = [Now EXCEPT !.asked = asked]
  BY DEF RowCommand, Begin
<1>3. Sound(before')
  BY <1>2, NowIsSound DEF IInv, FreshInv
<1>4. WorkInv'
  BY <1>1 DEF WorkInv
<1>5. row' = [row EXCEPT ![r] = one] /\ Booleans'
  BY Types DEF RowCommand, IInv, Booleans
<1> QED
  BY <1>1, <1>2, <1>3, <1>4, <1>5, RowStep DEF RowCommand, Sound

LEMMA FreshWhenIdle ==
  ASSUME IInv, work.at = "idle", NEW r \in Row
  PROVE  /\ FreshRow(row[r], edited[r], InputsOf(r)) /\ SavedRow(row[r], edited[r])
         /\ row[r] \in RowState
  BY Types DEF IInv, FreshInv, TypeOK, SavedRow

LEMMA RowCommands ==
  ASSUME IInv, NEW r \in Row,
         \/ \E b \in BOOLEAN : SetApproval(r, b)
         \/ \E intent \in Intent : SetIntent(r, intent)
         \/ PrepareReview(r) \/ Retry(r) \/ AuthorizeReplacement(r)
  PROVE  IInv'
<1>1. work.at = "idle"
  BY DEF SetApproval, SetIntent, PrepareReview, Retry, AuthorizeReplacement, RowCommand, Begin
<1>2. row[r] \in RowState /\ FreshRow(row[r], edited[r], InputsOf(r)) /\ SavedRow(row[r], edited[r])
  BY <1>1, FreshWhenIdle
<1>3. ASSUME NEW b \in BOOLEAN, SetApproval(r, b)
      PROVE  IInv'
  <2> DEFINE one == [row[r] EXCEPT !.approved = b]
  <2>1. one \in RowState /\ one.proposal = row[r].proposal /\ one.intent = row[r].intent
    BY <1>2 DEF RowState
  <2>2. RowCommand("apply", r, one, {r})
    BY <1>3 DEF SetApproval
  <2> HIDE DEF one
  <2> QED
    BY <1>2, <2>1, <2>2, RowCommandStep DEF FreshRow, SavedRow
<1>4. ASSUME NEW intent \in Intent, SetIntent(r, intent)
      PROVE  IInv'
  <2> DEFINE one == [row[r] EXCEPT !.intent = intent, !.proposal = Nothing, !.diagnostic = "none"]
  <2>1. one \in RowState /\ one.proposal = Nothing /\ one.intent = intent
    BY <1>2 DEF RowState, Diagnostic
  <2>2. intent = "editor" => edited[r] # Nothing
    BY <1>4 DEF SetIntent, Intents, PolicyIntents
  <2>3. RowCommand("apply", r, one, {})
    BY <1>4 DEF SetIntent
  <2> HIDE DEF one
  <2> QED
    BY <2>1, <2>2, <2>3, RowCommandStep DEF FreshRow, SavedRow
<1>5. CASE PrepareReview(r)
  BY <1>2, <1>5, RowCommandStep DEF PrepareReview
<1>6. CASE Retry(r)
  <2> DEFINE one == [row[r] EXCEPT !.proposal = Nothing]
  <2>1. one \in RowState /\ one.proposal = Nothing /\ one.intent = row[r].intent
    BY <1>2 DEF RowState
  <2>2. RowCommand("review", r, one, {})
    BY <1>6 DEF Retry
  <2> HIDE DEF one
  <2> QED
    BY <1>2, <2>1, <2>2, RowCommandStep DEF FreshRow, SavedRow
<1>7. CASE AuthorizeReplacement(r)
  <2> DEFINE one == [row[r] EXCEPT !.replaces = TRUE, !.proposal = Nothing, !.diagnostic = "none"]
  <2>1. one \in RowState /\ one.proposal = Nothing /\ one.intent = row[r].intent
    BY <1>2 DEF RowState, Diagnostic
  <2>2. RowCommand("apply", r, one, {})
    BY <1>7 DEF AuthorizeReplacement
  <2> HIDE DEF one
  <2> QED
    BY <1>2, <2>1, <2>2, RowCommandStep DEF FreshRow, SavedRow
<1> QED
  BY <1>3, <1>4, <1>5, <1>6, <1>7

-----------------------------------------------------------------------------
(* Steps that materialize a row                                            *)

\* A step that ends an attempt to materialize r and shows a fresh row.
LEMMA CacheStep ==
  ASSUME IInv, NEW r \in Row, NEW one \in RowState, NEW end, GoodCache(r, end.capture, end.renders),
         SavedRow(one, edited[r]), FreshRow(one, edited[r], InputsOf(r)),
         row' = [row EXCEPT ![r] = one], KeepCaches(r, end), Booleans', work' \in WorkState,
         before' \in Session \cup {Nothing}, WorkInv',
         work.at = "others" => r = work.row \/ (work'.at = "others" /\ work'.row = work.row),
         UNCHANGED <<candidate, authorized, edited>>
  PROVE  IInv'
<1>1. row' \in [Row -> RowState] /\ \A q \in Row : row'[q] = IF q = r THEN one ELSE row[q]
  BY Types DEF IInv
<1>2. captures' \in [Row -> Input \cup {Nothing}] /\ renders' \in [Row -> SUBSET Render]
  BY Types DEF IInv, KeepCaches, GoodCache
<1>3. /\ captures'[r] = end.capture /\ renders'[r] = end.renders
      /\ \A q \in Row \ {r} : captures'[q] = captures[q] /\ renders'[q] = renders[q]
  <2>1. captures \in [Row -> Input \cup {Nothing}] /\ renders \in [Row -> SUBSET Render]
    BY Types DEF IInv
  <2> QED
    BY <2>1 DEF KeepCaches
<1>4. \A q \in Row : SavedRow(row'[q], edited'[q])
  BY <1>1 DEF IInv, TypeOK, SavedRow
<1>5. TypeOK'
  BY <1>1, <1>2, <1>4, Types, TypesSuffice DEF IInv
<1>6. \A q \in Row : InputsOf(q)' = InputsOf(q)
  BY DEF InputsOf
<1>7. CoherentInv'
  <2>1. CoherentRow(captures'[r], renders'[r], InputsOf(r)')
    BY <1>3, <1>6 DEF GoodCache
  <2>2. \A q \in Row \ {r} : CoherentRow(captures'[q], renders'[q], InputsOf(q)')
    BY <1>3, <1>6 DEF IInv, CoherentInv
  <2> QED
    BY <2>1, <2>2 DEF CoherentInv
<1>8. FreshInv'
  BY <1>1, <1>6 DEF IInv, FreshInv
<1> QED
  BY <1>5, <1>7, <1>8 DEF IInv

\* The row that an attempt leaves.
LEMMA MaterializedRow ==
  ASSUME IInv, NEW r \in Row, NEW end, GoodEnd(r, end), NEW one, NEW approved \in BOOLEAN,
         NEW diagnostic \in Diagnostic, NEW proposal \in {end.proposal, Nothing},
         one = [row[r] EXCEPT !.proposal = proposal, !.approved = approved, !.diagnostic = diagnostic]
  PROVE  /\ one \in RowState /\ SavedRow(one, edited[r]) /\ FreshRow(one, edited[r], InputsOf(r))
         /\ one.intent = row[r].intent
         /\ one.proposal # Nothing => one.proposal.rendered \in {Nothing, InputsOf(r)}
<1>1. row[r] \in RowState
  BY Types DEF IInv
<1>2. one \in RowState /\ one.intent = row[r].intent /\ one.proposal \in {end.proposal, Nothing}
  BY <1>1 DEF RowState, GoodEnd
<1>3. SavedRow(row[r], edited[r])
  BY DEF IInv, TypeOK, SavedRow
<1> QED
  BY <1>2, <1>3 DEF SavedRow, FreshRow, GoodEnd

LEMMA MaterializeRowStep ==
  ASSUME IInv, MaterializeRow
  PROVE  IInv'
<1> DEFINE r == work.row
<1>1. r \in Row /\ work.at \in {"apply", "review"}
  BY DEF IInv, WorkInv, MaterializeRow
<1>2. PICK end \in Attempts(r) :
        /\ LET ok == end.end = "ok" /\ ~cancelled
           IN row' = [row EXCEPT
                ![r].proposal   = end.proposal,
                ![r].approved   = @ /\ ok /\ ~end.proposal.noop,
                ![r].diagnostic = IF ok THEN "none" ELSE IF end.end = "ok" THEN "interrupted" ELSE end.end]
        /\ KeepCaches(r, end)
  BY DEF MaterializeRow
<1>3. GoodEnd(r, end)
  BY <1>1, AttemptsEndWell DEF IInv
<1> DEFINE ok         == end.end = "ok" /\ ~cancelled
           approved   == row[r].approved /\ ok /\ ~end.proposal.noop
           diagnostic == IF ok THEN "none" ELSE IF end.end = "ok" THEN "interrupted" ELSE end.end
           one        == [row[r] EXCEPT !.proposal = end.proposal, !.approved = approved, !.diagnostic = diagnostic]
<1>4. approved \in BOOLEAN /\ diagnostic \in Diagnostic
  BY <1>3 DEF GoodEnd, Diagnostic
<1>5. row' = [row EXCEPT ![r] = one]
  BY <1>1, <1>2, Types DEF IInv, RowState
<1>6. one \in RowState /\ SavedRow(one, edited[r]) /\ FreshRow(one, edited[r], InputsOf(r))
  BY <1>1, <1>3, <1>4, MaterializedRow
<1>7. work' = Idle /\ before' = Nothing
  BY DEF MaterializeRow, Return
<1>8. work' \in WorkState /\ WorkInv'
  BY <1>7 DEF Idle, WorkState, Point, WorkInv
<1>9. Booleans'
  BY Types DEF MaterializeRow, IInv, Booleans
<1> HIDE DEF one
<1> QED
  BY <1>1, <1>2, <1>3, <1>5, <1>6, <1>7, <1>8, <1>9, CacheStep DEF MaterializeRow, GoodEnd

LEMMA MaterializeNextStep ==
  ASSUME IInv, NEW r \in Row, MaterializeNext(r)
  PROVE  IInv'
<1>2. PICK end \in Attempts(r) :
        /\ LET ok == end.end = "ok" /\ ~cancelled
           IN row' = [row EXCEPT
                ![r].proposal   = IF ok THEN end.proposal ELSE Nothing,
                ![r].approved   = ok /\ ~end.proposal.noop,
                ![r].diagnostic = IF ok THEN "none" ELSE IF end.end = "ok" THEN "interrupted" ELSE end.end]
        /\ KeepCaches(r, end)
  BY DEF MaterializeNext
<1>3. GoodEnd(r, end)
  BY AttemptsEndWell DEF IInv
<1> DEFINE ok         == end.end = "ok" /\ ~cancelled
           approved   == ok /\ ~end.proposal.noop
           diagnostic == IF ok THEN "none" ELSE IF end.end = "ok" THEN "interrupted" ELSE end.end
           proposal   == IF ok THEN end.proposal ELSE Nothing
           one        == [row[r] EXCEPT !.proposal = proposal, !.approved = approved, !.diagnostic = diagnostic]
<1>4. approved \in BOOLEAN /\ diagnostic \in Diagnostic /\ proposal \in {end.proposal, Nothing}
  BY <1>3 DEF GoodEnd, Diagnostic
<1>5. row' = [row EXCEPT ![r] = one]
  BY <1>2, Types DEF IInv, RowState
<1>6. /\ one \in RowState /\ SavedRow(one, edited[r]) /\ FreshRow(one, edited[r], InputsOf(r))
      /\ one.intent = row[r].intent
      /\ one.proposal # Nothing => one.proposal.rendered \in {Nothing, InputsOf(r)}
  <2> HIDE DEF ok, approved, diagnostic, proposal
  <2> QED
    BY <1>3, <1>4, MaterializedRow
<1>7. work' = [work EXCEPT !.todo = @ \ {r}] /\ UNCHANGED <<candidate, authorized, edited, before>>
  BY DEF MaterializeNext
<1>8. /\ work' \in WorkState /\ work'.at = work.at /\ work'.row = work.row
      /\ work'.text = work.text /\ work'.stale = work.stale
  BY <1>7, Types DEF IInv, WorkState
<1>9. Booleans'
  BY Types DEF MaterializeNext, IInv, Booleans
<1> HIDE DEF one
<1>10. \A q \in Row : row'[q] = IF q = r THEN one ELSE row[q]
  BY <1>5, Types DEF IInv
<1>11. \A q \in Row : InputsOf(q)' = InputsOf(q)
  BY <1>7 DEF InputsOf
<1>12. WorkInv'
  BY <1>6, <1>7, <1>8, <1>10, <1>11 DEF IInv, WorkInv
<1>13. before' \in Session \cup {Nothing}
  BY <1>7 DEF IInv, TypeOK
<1> QED
  BY <1>2, <1>3, <1>5, <1>6, <1>7, <1>8, <1>9, <1>12, <1>13, CacheStep DEF GoodEnd

-----------------------------------------------------------------------------
(* Steps that leave the rows and their sources alone                       *)

LEMMA StillStep ==
  ASSUME IInv, UNCHANGED data, Booleans', work' \in WorkState, before' \in Session \cup {Nothing},
         WorkInv', work.at = "others" => work' = work
  PROVE  IInv'
<1>1. \A q \in Row : SavedRow(row'[q], edited'[q])
  BY DEF IInv, TypeOK, SavedRow, data
<1>2. TypeOK'
  BY <1>1, Types, TypesSuffice DEF IInv, data
<1>3. \A q \in Row : InputsOf(q)' = InputsOf(q)
  BY DEF InputsOf, data
<1>4. CoherentInv'
  BY <1>3 DEF IInv, CoherentInv, data
<1>5. FreshInv'
  BY <1>3 DEF IInv, FreshInv, data
<1> QED
  BY <1>2, <1>4, <1>5 DEF IInv

\* Nothing but a flag of a cancellation, or the Deck's, changes.
LEMMA FlagStep ==
  ASSUME IInv, RequestCancel \/ RequestEditorCancel \/ DeckDrains
  PROVE  IInv'
<1>1. UNCHANGED <<data, work, before>>
  BY DEF RequestCancel, RequestEditorCancel, DeckDrains
<1>2. Booleans'
  BY Types DEF IInv, Booleans, RequestCancel, RequestEditorCancel, DeckDrains
<1>3. WorkInv'
  <2>1. \A q \in Row : InputsOf(q)' = InputsOf(q)
    BY <1>1 DEF InputsOf, data
  <2> QED
    BY <1>1, <2>1 DEF IInv, WorkInv, data
<1>4. work' \in WorkState /\ before' \in Session \cup {Nothing}
  BY <1>1, Types DEF IInv, TypeOK
<1> QED
  BY <1>1, <1>2, <1>3, <1>4, StillStep

\* A dispatch, or the session, ends and the rows stay as they are.
LEMMA EndStep ==
  ASSUME IInv, RowsDone \/ Opened \/ QuitEdit \/ Execute \/ Abort
  PROVE  IInv'
<1>1. UNCHANGED data /\ work.at # "others"
  BY DEF RowsDone, Opened, QuitEdit, Execute, Abort
<1>2. work' = Idle \/ work' = [Idle EXCEPT !.at = "closed"]
  BY DEF RowsDone, Opened, QuitEdit, Execute, Abort, EndEdit, Return, Close
<1>3. work' \in WorkState /\ WorkInv'
  <2>1. CASE work' = Idle
    BY <2>1 DEF Idle, WorkState, Point, WorkInv
  <2>2. CASE work' = [Idle EXCEPT !.at = "closed"]
    <3>1. work' = [at |-> "closed", row |-> Nothing, todo |-> {}, text |-> Nothing, stale |-> FALSE]
      BY <2>2 DEF Idle
    <3> QED
      BY <3>1 DEF WorkState, Point, WorkInv
  <2> QED
    BY <1>2, <2>1, <2>2
<1>4. Booleans'
  BY Types DEF IInv, Booleans, RowsDone, Opened, QuitEdit, Execute, Abort, EndEdit
<1>5. before' \in Session \cup {Nothing}
  BY DEF IInv, TypeOK, RowsDone, Opened, QuitEdit, Execute, Abort, EndEdit, Return
<1> QED
  BY <1>1, <1>3, <1>4, <1>5, StillStep

LEMMA SettleRowStep ==
  ASSUME IInv, SettleRow
  PROVE  IInv'
<1> DEFINE r   == work.row
           one == [row[r] EXCEPT !.approved = @ /\ Approvable(r)]
<1>1. r \in Row /\ work.at \in {"apply", "review"}
  BY DEF IInv, WorkInv, SettleRow
<1>2. row[r] \in RowState /\ FreshRow(row[r], edited[r], InputsOf(r)) /\ SavedRow(row[r], edited[r])
  BY <1>1, Types DEF IInv, FreshInv, TypeOK, SavedRow
<1>3. one \in RowState /\ one.proposal = row[r].proposal /\ one.intent = row[r].intent
  BY <1>2 DEF RowState
<1>4. row' = [row EXCEPT ![r] = one]
  BY <1>1, Types DEF SettleRow, IInv, RowState
<1>5. work' = Idle /\ before' = Nothing
  BY DEF SettleRow, Return
<1>6. work' \in WorkState /\ WorkInv'
  BY <1>5 DEF Idle, WorkState, Point, WorkInv
<1>7. Booleans'
  BY Types DEF SettleRow, IInv, Booleans
<1> HIDE DEF one
<1>8. SavedRow(one, edited[r]) /\ FreshRow(one, edited[r], InputsOf(r))
  BY <1>2, <1>3 DEF SavedRow, FreshRow
<1> QED
  BY <1>1, <1>3, <1>4, <1>5, <1>6, <1>7, <1>8, RowStep DEF SettleRow

LEMMA SetIncludedStep ==
  ASSUME IInv, NEW r \in Row, NEW included \in BOOLEAN, SetIncluded(r, included)
  PROVE  IInv'
<1> DEFINE one == [row[r] EXCEPT !.included = included]
<1>1. work.at = "idle" /\ UNCHANGED <<work, before>>
  BY DEF SetIncluded
<1>2. row[r] \in RowState /\ FreshRow(row[r], edited[r], InputsOf(r)) /\ SavedRow(row[r], edited[r])
  BY <1>1, FreshWhenIdle
<1>3. one \in RowState /\ one.proposal = row[r].proposal /\ one.intent = row[r].intent
  BY <1>2 DEF RowState
<1>4. row' = [row EXCEPT ![r] = one]
  BY Types DEF SetIncluded, IInv, RowState
<1>5. work' \in WorkState /\ before' \in Session \cup {Nothing} /\ WorkInv'
  BY <1>1, Types DEF IInv, WorkInv, TypeOK
<1>6. Booleans'
  BY Types DEF SetIncluded, IInv, Booleans
<1> HIDE DEF one
<1>7. SavedRow(one, edited[r]) /\ FreshRow(one, edited[r], InputsOf(r))
  BY <1>2, <1>3 DEF SavedRow, FreshRow
<1> QED
  BY <1>1, <1>3, <1>4, <1>5, <1>6, <1>7, RowStep DEF SetIncluded

-----------------------------------------------------------------------------
(* Additional Sources                                                      *)

\* A step that changes the inputs of the stale rows: it clears their caches, and every
\* Proposal that it keeps is as fresh as it was.
LEMMA InputsStep ==
  ASSUME IInv, work.at # "others", NEW stale, NEW all, NEW rows \in [Row -> RowState],
         \A q \in Row : rows[q].proposal = row[q].proposal /\ SavedRow(rows[q], edited'[q]),
         row' = Invalidated(rows, all), ClearCaches(stale),
         \A q \in Row \ stale : InputsOf(q)' = InputsOf(q),
         \A q \in Row : ~(work'.at = "others" /\ q = work'.row) =>
           /\ rows[q].intent = row[q].intent /\ edited'[q] = edited[q]
           /\ q \in stale => q \in all,
         candidate' \in [Source -> Content], authorized' \in SUBSET Source,
         edited' \in [Row -> Outcome \cup {Nothing}], Booleans', work' \in WorkState,
         before' \in Session \cup {Nothing}, WorkInv'
  PROVE  IInv'
<1>1. \A q \in Row : /\ row'[q] \in RowState /\ row'[q].intent = rows[q].intent
                      /\ row'[q].proposal = IF q \in all THEN Nothing ELSE row[q].proposal
  BY DEF Invalidated, RowState
<1>2. row' \in [Row -> RowState]
  BY <1>1 DEF Invalidated
<1>3. \A q \in Row : SavedRow(row'[q], edited'[q])
  BY <1>1 DEF SavedRow
<1>4. captures' \in [Row -> Input \cup {Nothing}] /\ renders' \in [Row -> SUBSET Render]
  BY Types DEF IInv, ClearCaches
<1>5. TypeOK'
  BY <1>2, <1>3, <1>4, TypesSuffice
<1>6. CoherentInv'
  <2>1. ASSUME NEW q \in Row
        PROVE  CoherentRow(captures'[q], renders'[q], InputsOf(q)')
    <3>1. CASE q \in stale
      BY <3>1 DEF ClearCaches, CoherentRow
    <3>2. CASE q \notin stale
      BY <3>2 DEF ClearCaches, IInv, CoherentInv
    <3> QED
      BY <3>1, <3>2
  <2> QED
    BY <2>1 DEF CoherentInv
<1>7. FreshInv'
  <2>1. ASSUME NEW q \in Row, ~(work'.at = "others" /\ q = work'.row)
        PROVE  FreshRow(row'[q], edited'[q], InputsOf(q)')
    <3>1. CASE q \in all
      BY <1>1, <3>1 DEF FreshRow
    <3>2. CASE q \notin all
      <4>1. InputsOf(q)' = InputsOf(q) /\ row'[q].proposal = row[q].proposal
            /\ row'[q].intent = row[q].intent /\ edited'[q] = edited[q]
        BY <1>1, <2>1, <3>2
      <4>2. FreshRow(row[q], edited[q], InputsOf(q))
        BY DEF IInv, FreshInv
      <4> QED
        BY <4>1, <4>2 DEF FreshRow
    <3> QED
      BY <3>1, <3>2
  <2> QED
    BY <2>1 DEF FreshInv
<1> QED
  BY <1>5, <1>6, <1>7 DEF IInv

\* A dispatch that begins on several rows.
LEMMA BeginRows ==
  ASSUME IInv, NEW todo \in SUBSET Row, NEW asked \in SUBSET Row, Begin("rows", Nothing, todo, asked)
  PROVE  /\ work.at = "idle" /\ work' \in WorkState /\ work'.at = "rows"
         /\ before' \in Session /\ WorkInv'
<1>1. work.at = "idle" /\ before' = [Now EXCEPT !.asked = asked]
  BY DEF Begin
<1>2. work' = [at |-> "rows", row |-> Nothing, todo |-> todo, text |-> Nothing, stale |-> FALSE]
  BY DEF Begin, Idle
<1>3. Sound(before')
  BY <1>1, NowIsSound DEF IInv, FreshInv
<1> QED
  BY <1>1, <1>2, <1>3 DEF Sound, WorkState, Point, WorkInv

LEMMA SetSourceApprovalStep ==
  ASSUME IInv, NEW s \in Source, NEW b \in BOOLEAN, SetSourceApproval(s, b)
  PROVE  IInv'
<1> DEFINE stale == IF authorized' = authorized THEN {} ELSE References({s})
<1>1. /\ Begin("rows", Nothing, Approved(row, stale), {})
      /\ row' = Invalidated(row, stale) /\ ClearCaches(stale)
      /\ authorized' = IF b THEN authorized \cup {s} ELSE authorized \ {s}
      /\ UNCHANGED <<candidate, edited, cancelled, dropped, attended>>
  BY DEF SetSourceApproval
<1>2. stale \subseteq Row /\ Approved(row, stale) \in SUBSET Row
  BY DEF References, Approved
<1>3. work.at = "idle" /\ work' \in WorkState /\ work'.at = "rows" /\ before' \in Session /\ WorkInv'
  <2> HIDE DEF stale
  <2> QED
    BY <1>1, <1>2, BeginRows
<1>4. ASSUME NEW q \in Row \ stale
      PROVE  InputsOf(q)' = InputsOf(q)
  <2>1. CASE authorized' = authorized
    BY <1>1, <2>1 DEF InputsOf
  <2>2. CASE authorized' # authorized
    <3>1. s \notin Refs[q]
      BY <1>4, <2>2 DEF References
    <3>2. \A t \in Refs[q] : t \in authorized' <=> t \in authorized
      BY <1>1, <3>1
    <3> QED
      BY <1>1, <3>2 DEF InputsOf
  <2> QED
    BY <2>1, <2>2
<1>5. authorized' \in SUBSET Source /\ Booleans'
  BY <1>1, Types DEF IInv, Booleans
<1>6. \A q \in Row : SavedRow(row[q], edited[q])
  BY DEF IInv, TypeOK, SavedRow
<1>7. candidate \in [Source -> Content] /\ edited \in [Row -> Outcome \cup {Nothing}] /\ row \in [Row -> RowState]
  BY Types DEF IInv
<1> HIDE DEF stale
<1> QED
  BY <1>1, <1>3, <1>4, <1>5, <1>6, <1>7, InputsStep

LEMMA BatchSetApprovalStep ==
  ASSUME IInv, NEW rows \in SUBSET Row, NEW sources \in SUBSET Source, NEW b \in BOOLEAN,
         BatchSetApproval(rows, sources, b)
  PROVE  IInv'
<1> DEFINE scope == {r \in rows : Approvable(r)}
           stale == References({s \in sources : (s \in authorized) # b})
           set   == [r \in Row |-> IF r \in scope THEN [row[r] EXCEPT !.approved = b] ELSE row[r]]
<1>1. /\ Begin("rows", Nothing, Approved(set, scope \cup stale), scope)
      /\ row' = Invalidated(set, scope \cup stale) /\ ClearCaches(stale)
      /\ authorized' = IF b THEN authorized \cup sources ELSE authorized \ sources
      /\ UNCHANGED <<candidate, edited, cancelled, dropped, attended>>
  BY DEF BatchSetApproval
<1>2. scope \in SUBSET Row /\ stale \subseteq Row /\ Approved(set, scope \cup stale) \in SUBSET Row
  BY DEF References, Approved
<1>3. work.at = "idle" /\ work' \in WorkState /\ work'.at = "rows" /\ before' \in Session /\ WorkInv'
  <2> HIDE DEF scope, stale, set
  <2> QED
    BY <1>1, <1>2, BeginRows
<1>4. ASSUME NEW q \in Row \ stale
      PROVE  InputsOf(q)' = InputsOf(q)
  <2>1. \A t \in Refs[q] : t \in sources => (t \in authorized <=> b)
    BY <1>4 DEF References
  <2>2. \A t \in Refs[q] : t \in authorized' <=> t \in authorized
    BY <1>1, <2>1
  <2> QED
    BY <1>1, <2>2 DEF InputsOf
<1>5. authorized' \in SUBSET Source /\ Booleans'
  BY <1>1, Types DEF IInv, Booleans
<1>6. \A q \in Row : SavedRow(row[q], edited[q])
  BY DEF IInv, TypeOK, SavedRow
<1>7. candidate \in [Source -> Content] /\ edited \in [Row -> Outcome \cup {Nothing}] /\ row \in [Row -> RowState]
  BY Types DEF IInv
<1>8. set \in [Row -> RowState]
      /\ \A q \in Row : set[q].proposal = row[q].proposal /\ set[q].intent = row[q].intent
  BY <1>7 DEF RowState
<1>9. \A q \in Row : SavedRow(set[q], edited[q])
  BY <1>6, <1>8 DEF SavedRow
<1> HIDE DEF scope, stale, set
<1> QED
  BY <1>1, <1>3, <1>4, <1>5, <1>7, <1>8, <1>9, InputsStep

-----------------------------------------------------------------------------
(* The Proposal Editor                                                     *)

LEMMA EditProposalStep ==
  ASSUME IInv, NEW r \in Row, EditProposal(r)
  PROVE  IInv'
<1>1. work.at = "idle" /\ before' = [Now EXCEPT !.asked = {}] /\ UNCHANGED data
  BY DEF EditProposal, Begin
<1>2. work' = [at |-> "open", row |-> r, todo |-> {}, text |-> Nothing, stale |-> FALSE]
  BY DEF EditProposal, Begin, Idle
<1>3. Sound(before') /\ before'.authorized = authorized'
  <2>1. Sound(before')
    BY <1>1, NowIsSound DEF IInv, FreshInv
  <2> QED
    BY <1>1, <2>1 DEF Now, data
<1>4. work' \in WorkState
  BY <1>2 DEF WorkState, Point
<1>5. WorkInv'
  BY <1>2, <1>3 DEF WorkInv
<1>6. Booleans'
  BY Types DEF IInv, Booleans, EditProposal
<1> QED
  BY <1>1, <1>3, <1>4, <1>5, <1>6, StillStep DEF Sound

\* What the Editor is given is an outcome.
LEMMA TextsAreOutcomes ==
  ASSUME TypeOK, NEW r \in Row
  PROVE  /\ StartsWith(r) \subseteq Outcome /\ {Kept, Conflict} \subseteq Outcome
         /\ \A t \in Text : Saved(t) \in Outcome
         /\ \A p \in Proposal : p.repository \in Outcome
         /\ Nothing \notin Outcome
<1>1. Nothing \notin Outcome
  BY NothingAssumption
<1>2. {Kept, Conflict} \subseteq Outcome /\ \A t \in Text : Saved(t) \in Outcome
  BY DEF Outcome
<1>3. \A p \in Proposal : p.repository \in Outcome
  BY DEF Proposal
<1>4. row[r] \in RowState /\ edited[r] \in Outcome \cup {Nothing}
  BY Types
<1>5. row[r].intent = "editor" => edited[r] \in Outcome
  BY <1>4 DEF TypeOK
<1>6. row[r].proposal # Nothing => row[r].proposal.repository \in Outcome
  BY <1>3, <1>4 DEF RowState
<1> QED
  BY <1>1, <1>2, <1>3, <1>5, <1>6 DEF StartsWith

\* The Editor starts.
LEMMA EditingStep ==
  ASSUME IInv, work.at = "open", NEW text \in Outcome,
         work' = [work EXCEPT !.at = "editing", !.text = text], before' = before, authorized' = authorized
  PROVE  work' \in WorkState /\ work'.at = "editing" /\ WorkInv'
<1>1. work \in WorkState
  BY Types DEF IInv
<1>2. work' \in WorkState /\ work'.at = "editing" /\ work'.row = work.row /\ work'.text = text
  BY <1>1 DEF WorkState, Point
<1>3. Nothing \notin Outcome
  BY NothingAssumption
<1> QED
  BY <1>2, <1>3 DEF IInv, WorkInv

LEMMA OpenEditorStep ==
  ASSUME IInv, OpenEditor
  PROVE  IInv'
<1>1. work.at = "open" /\ UNCHANGED <<data, cancelled, dropped, attended, before>>
  BY DEF OpenEditor
<1>2. work.row \in Row
  BY <1>1 DEF IInv, WorkInv
<1>3. PICK text \in StartsWith(work.row) : work' = [work EXCEPT !.at = "editing", !.text = text]
  BY DEF OpenEditor
<1>4. text \in Outcome
  BY <1>2, TextsAreOutcomes DEF IInv
<1>5. work' \in WorkState /\ WorkInv'
  BY <1>1, <1>3, <1>4, EditingStep DEF data
<1>6. Booleans' /\ before' \in Session \cup {Nothing}
  BY <1>1, Types DEF IInv, Booleans, TypeOK
<1> QED
  BY <1>1, <1>5, <1>6, StillStep

\* The attempt fails: its row has no Proposal.
LEMMA FailEditStep ==
  ASSUME IInv, work.at \in {"open", "editing", "others"}, NEW r, r = work.row,
         NEW diagnostic \in Diagnostic, NEW end, GoodCache(r, end.capture, end.renders),
         KeepCaches(r, end), FailEdit(r, diagnostic), UNCHANGED <<candidate, authorized, edited>>
  PROVE  IInv'
<1> DEFINE one == [row[r] EXCEPT !.approved = FALSE, !.proposal = Nothing, !.diagnostic = diagnostic]
<1>1. r \in Row
  BY DEF IInv, WorkInv
<1>2. row[r] \in RowState /\ SavedRow(row[r], edited[r])
  BY <1>1, Types DEF IInv, TypeOK, SavedRow
<1>3. one \in RowState /\ one.proposal = Nothing /\ one.intent = row[r].intent
  BY <1>2 DEF RowState
<1>4. row' = [row EXCEPT ![r] = one] /\ work' = Idle /\ before' = Nothing
  BY <1>1, Types DEF FailEdit, EndEdit, Return, IInv, RowState
<1>5. work' \in WorkState /\ WorkInv'
  BY <1>4 DEF Idle, WorkState, Point, WorkInv
<1>6. Booleans'
  BY Types DEF IInv, Booleans, FailEdit, EndEdit
<1> HIDE DEF one
<1>7. SavedRow(one, edited[r]) /\ FreshRow(one, edited[r], InputsOf(r))
  BY <1>2, <1>3 DEF SavedRow, FreshRow
<1> QED
  BY <1>1, <1>3, <1>4, <1>5, <1>6, <1>7, CacheStep

\* The attempt is cancelled: the session is as it was.
LEMMA CancelEditStep ==
  ASSUME IInv, work.at \in {"open", "editing", "others"}, CancelEdit
  PROVE  IInv'
<1>1. Sound(before) /\ before.authorized = authorized
  BY DEF IInv, WorkInv
<1>2. /\ row' = before.row /\ candidate' = before.candidate /\ authorized' = before.authorized
      /\ edited' = before.edited /\ captures' = before.captures /\ renders' = before.renders
      /\ work' = Idle /\ before' = Nothing
  BY <1>1 DEF CancelEdit, EndEdit, Return
<1>3. /\ row' \in [Row -> RowState] /\ candidate' \in [Source -> Content]
      /\ authorized' \in SUBSET Source /\ edited' \in [Row -> Outcome \cup {Nothing}]
      /\ captures' \in [Row -> Input \cup {Nothing}] /\ renders' \in [Row -> SUBSET Render]
  BY <1>1, <1>2 DEF Sound, Session
<1>4. work' \in WorkState /\ work'.at = "idle" /\ WorkInv'
  BY <1>2 DEF Idle, WorkState, Point, WorkInv
<1>5. Booleans'
  BY Types DEF IInv, Booleans, CancelEdit, EndEdit
<1>6. \A q \in Row : InputsOf(q)' = InputsIn(before.candidate, before.authorized, q)
  BY <1>2 DEF InputsOf, InputsIn
<1>7. TypeOK'
  BY <1>1, <1>2, <1>3, <1>4, <1>5, TypesSuffice DEF Sound
<1>8. CoherentInv' /\ FreshInv'
  BY <1>1, <1>2, <1>6 DEF Sound, CoherentInv, FreshInv
<1> QED
  BY <1>4, <1>7, <1>8 DEF IInv

LEMMA MaterializeFirstStep ==
  ASSUME IInv, MaterializeFirst
  PROVE  IInv'
<1> DEFINE r == work.row
<1>1. work.at = "open" /\ r \in Row
  BY DEF MaterializeFirst, IInv, WorkInv
<1>2. PICK end \in Attempts(r) :
       \/ /\ end.end \in {"ok", "conflict"}
          /\ \E text \in IF end.end = "ok" THEN {end.proposal.repository} ELSE {Conflict, Kept} :
               work' = [work EXCEPT !.at = "editing", !.text = text]
          /\ KeepCaches(r, end)
          /\ UNCHANGED <<row, candidate, authorized, edited, cancelled, dropped, attended, before>>
       \/ /\ end.end = "failed"
          /\ KeepCaches(r, end)
          /\ FailEdit(r, "failed")
          /\ UNCHANGED <<candidate, authorized, edited>>
       \/ end.end = "interrupted" /\ CancelEdit
  BY DEF MaterializeFirst
<1>3. GoodEnd(r, end)
  BY <1>1, AttemptsEndWell DEF IInv
<1>4. CASE /\ end.end \in {"ok", "conflict"}
           /\ \E text \in IF end.end = "ok" THEN {end.proposal.repository} ELSE {Conflict, Kept} :
                work' = [work EXCEPT !.at = "editing", !.text = text]
           /\ KeepCaches(r, end)
           /\ UNCHANGED <<row, candidate, authorized, edited, cancelled, dropped, attended, before>>
  <2>1. PICK text \in IF end.end = "ok" THEN {end.proposal.repository} ELSE {Conflict, Kept} :
               work' = [work EXCEPT !.at = "editing", !.text = text]
    BY <1>4
  <2>2. text \in Outcome
    BY <1>1, <1>3, TextsAreOutcomes DEF IInv, GoodEnd
  <2>3. work' \in WorkState /\ WorkInv'
    BY <1>1, <1>4, <2>1, <2>2, EditingStep
  <2>4. row[r] \in RowState /\ SavedRow(row[r], edited[r]) /\ FreshRow(row[r], edited[r], InputsOf(r))
    BY <1>1, Types DEF IInv, TypeOK, SavedRow, FreshInv
  <2>5. row' = [row EXCEPT ![r] = row[r]]
    BY <1>4, Types DEF IInv
  <2>6. Booleans' /\ before' \in Session \cup {Nothing}
    BY <1>4, Types DEF IInv, Booleans, TypeOK
  <2> QED
    BY <1>1, <1>3, <1>4, <2>3, <2>4, <2>5, <2>6, CacheStep DEF GoodEnd
<1>5. CASE end.end = "failed" /\ KeepCaches(r, end) /\ FailEdit(r, "failed")
           /\ UNCHANGED <<candidate, authorized, edited>>
  BY <1>1, <1>3, <1>5, FailEditStep DEF GoodEnd, Diagnostic
<1>6. CASE CancelEdit
  BY <1>1, <1>6, CancelEditStep
<1> QED
  BY <1>2, <1>4, <1>5, <1>6

LEMMA EndEditStep ==
  ASSUME IInv, DropEdit \/ BreakEdit
  PROVE  IInv'
<1>1. CASE DropEdit
  BY <1>1, CancelEditStep DEF DropEdit
<1>2. CASE BreakEdit
  <2> DEFINE r   == work.row
             end == [capture |-> captures[r], renders |-> renders[r]]
  <2>1. r \in Row /\ work.at \in {"open", "editing", "others"}
    BY <1>2 DEF BreakEdit, IInv, WorkInv
  <2>2. GoodCache(r, end.capture, end.renders)
    BY <2>1, AttemptCaches DEF IInv
  <2>3. KeepCaches(r, end)
    BY <1>2, Types DEF IInv, BreakEdit, KeepCaches
  <2>4. FailEdit(r, "failed") /\ UNCHANGED <<candidate, authorized, edited>>
    BY <1>2 DEF BreakEdit
  <2> HIDE DEF end
  <2> QED
    BY <2>1, <2>2, <2>3, <2>4, FailEditStep DEF Diagnostic
<1> QED
  BY <1>1, <1>2

LEMMA SaveEditStep ==
  ASSUME IInv, NEW text \in {work.text} \cup {Saved(t) : t \in Text},
         NEW saved \in [Source -> Content], SaveEdit(text, saved)
  PROVE  IInv'
<1> DEFINE r        == work.row
           staged   == [s \in Source |-> IF s \in Refs[r] THEN saved[s] ELSE candidate[s]]
           affected == References(Authorized({s \in Source : staged[s] # candidate[s]}))
           chosen   == [row EXCEPT ![r].intent = "editor"]
<1>1. /\ work.at = "editing" /\ edited' = [edited EXCEPT ![r] = text] /\ candidate' = staged
      /\ row' = Invalidated(chosen, affected \ {r}) /\ ClearCaches(affected)
      /\ work' = [work EXCEPT !.at = "others", !.text = text, !.stale = r \in affected,
                              !.todo = Approved(row, affected \ {r})]
      /\ UNCHANGED <<authorized, cancelled, dropped, attended, before>>
  BY DEF SaveEdit
<1>2. r \in Row /\ work.text \in Outcome
  BY <1>1, Types DEF IInv, WorkInv, WorkState
<1>3. text \in Outcome /\ text # Nothing
  BY <1>2, TextsAreOutcomes DEF IInv
<1>4. /\ row \in [Row -> RowState] /\ candidate \in [Source -> Content]
      /\ edited \in [Row -> Outcome \cup {Nothing}] /\ authorized \in SUBSET Source /\ work \in WorkState
  BY Types DEF IInv
<1>5. staged \in [Source -> Content] /\ edited' \in [Row -> Outcome \cup {Nothing}]
      /\ \A q \in Row : edited'[q] = IF q = r THEN text ELSE edited[q]
  BY <1>1, <1>2, <1>3, <1>4
<1>6. /\ chosen \in [Row -> RowState] /\ chosen[r].intent = "editor"
      /\ \A q \in Row : chosen[q].proposal = row[q].proposal /\ (q # r => chosen[q].intent = row[q].intent)
  BY <1>2, <1>4 DEF RowState, Intent
<1>7. \A q \in Row : SavedRow(chosen[q], edited'[q])
  BY <1>3, <1>5, <1>6 DEF SavedRow, IInv, TypeOK
<1>8. ASSUME NEW q \in Row \ affected
      PROVE  InputsOf(q)' = InputsOf(q)
  <2>1. Refs[q] \subseteq Source
    BY WorksetAssumption
  <2>2. \A s \in Refs[q] : s \in authorized => staged[s] = candidate[s]
    BY <1>8, <2>1 DEF References, Authorized
  <2> HIDE DEF staged, affected
  <2> QED
    BY <1>1, <2>2 DEF InputsOf
<1>9. Approved(row, affected \ {r}) \in SUBSET Row /\ (r \in affected) \in BOOLEAN
  BY DEF References, Approved
<1>10. /\ work' \in WorkState /\ work'.at = "others" /\ work'.row = r /\ work'.text = text
       /\ work'.stale = (r \in affected)
  <2> HIDE DEF affected
  <2> QED
    BY <1>1, <1>2, <1>3, <1>4, <1>9 DEF WorkState, Point
<1>11. row'[r] = chosen[r]
  BY <1>1, <1>2 DEF Invalidated
<1>12. Sound(before') /\ before'.authorized = authorized'
  BY <1>1 DEF IInv, WorkInv
<1>13. FreshRow(row[r], edited[r], InputsOf(r))
  BY <1>1, <1>2 DEF IInv, FreshInv
<1> HIDE DEF staged, affected, chosen
<1>14. row'[r].proposal # Nothing /\ ~work'.stale => row'[r].proposal.rendered \in {Nothing, InputsOf(r)'}
  BY <1>2, <1>6, <1>8, <1>10, <1>11, <1>13 DEF FreshRow
<1>15. WorkInv'
  BY <1>2, <1>3, <1>5, <1>6, <1>10, <1>11, <1>12, <1>14 DEF WorkInv
<1>16. Booleans' /\ before' \in Session
  BY <1>1, <1>12, Types DEF IInv, Booleans, Sound
<1> QED
  BY <1>1, <1>4, <1>5, <1>6, <1>7, <1>8, <1>10, <1>15, <1>16, InputsStep

\* The edited Proposal is accepted: its row is fresh again.
LEMMA AcceptEditStep ==
  ASSUME IInv, work.at = "others", NEW r, r = work.row, NEW end, GoodCache(r, end.capture, end.renders),
         KeepCaches(r, end), NEW proposal \in Proposal, AcceptEdit(r, proposal),
         proposal.repository = ResolvedFrom(row[r].intent, edited[r], InputsOf(r)),
         proposal.rendered \in {Nothing, InputsOf(r)}, UNCHANGED <<candidate, authorized, edited>>
  PROVE  IInv'
<1> DEFINE one == [row[r] EXCEPT !.proposal = proposal, !.approved = @ /\ ~proposal.noop, !.diagnostic = "none"]
<1>1. r \in Row
  BY DEF IInv, WorkInv
<1>2. row[r] \in RowState /\ SavedRow(row[r], edited[r])
  BY <1>1, Types DEF IInv, TypeOK, SavedRow
<1>3. one \in RowState /\ one.proposal = proposal /\ one.intent = row[r].intent
  BY <1>2 DEF RowState, Diagnostic, Proposal
<1>4. row' = [row EXCEPT ![r] = one] /\ work' = Idle /\ before' = Nothing
  BY <1>1, Types DEF AcceptEdit, EndEdit, Return, IInv, RowState
<1>5. work' \in WorkState /\ WorkInv'
  BY <1>4 DEF Idle, WorkState, Point, WorkInv
<1>6. Booleans'
  BY Types DEF IInv, Booleans, AcceptEdit, EndEdit
<1> HIDE DEF one
<1>7. SavedRow(one, edited[r]) /\ FreshRow(one, edited[r], InputsOf(r))
  BY <1>2, <1>3 DEF SavedRow, FreshRow
<1> QED
  BY <1>1, <1>3, <1>4, <1>5, <1>6, <1>7, CacheStep

LEMMA ProjectEditStep ==
  ASSUME IInv, ProjectEdit
  PROVE  IInv'
<1> DEFINE r == work.row
<1>1. work.at = "others" /\ r \in Row
  BY DEF ProjectEdit, IInv, WorkInv
<1>2. CASE /\ ReusesProposal(r) /\ AcceptEdit(r, row[r].proposal)
           /\ UNCHANGED <<captures, renders, candidate, authorized, edited>>
  <2> DEFINE end == [capture |-> captures[r], renders |-> renders[r]]
  <2>1. GoodCache(r, end.capture, end.renders)
    BY <1>1, AttemptCaches DEF IInv
  <2>2. KeepCaches(r, end)
    BY <1>2, Types DEF IInv, KeepCaches
  <2>3. row[r].intent = "editor" /\ edited[r] = work.text /\ row[r].proposal # Nothing
        /\ row[r].proposal.repository = work.text /\ ~work.stale
    BY <1>1, <1>2 DEF IInv, WorkInv, ReusesProposal
  <2>4. row[r].proposal \in Proposal /\ row[r].proposal.rendered \in {Nothing, InputsOf(r)}
    BY <1>1, <2>3, Types DEF IInv, WorkInv, RowState
  <2>5. row[r].proposal.repository = ResolvedFrom(row[r].intent, edited[r], InputsOf(r))
    BY <2>3 DEF ResolvedFrom
  <2> HIDE DEF end
  <2> QED
    BY <1>1, <1>2, <2>1, <2>2, <2>4, <2>5, AcceptEditStep
<1>3. ASSUME NEW end \in Attempts(r), KeepCaches(r, end), UNCHANGED <<candidate, authorized, edited>>,
             \/ end.end = "ok" /\ AcceptEdit(r, end.proposal)
             \/ end.end \in {"failed", "conflict"} /\ FailEdit(r, end.end)
      PROVE  IInv'
  <2>1. GoodEnd(r, end)
    BY <1>1, AttemptsEndWell DEF IInv
  <2>2. CASE end.end = "ok" /\ AcceptEdit(r, end.proposal)
    BY <1>1, <1>3, <2>1, <2>2, AcceptEditStep DEF GoodEnd
  <2>3. CASE end.end \in {"failed", "conflict"} /\ FailEdit(r, end.end)
    BY <1>1, <1>3, <2>1, <2>3, FailEditStep DEF GoodEnd, Diagnostic
  <2> QED
    BY <1>3, <2>2, <2>3
<1>4. CASE CancelEdit
  BY <1>1, <1>4, CancelEditStep
<1> QED
  BY <1>2, <1>3, <1>4 DEF ProjectEdit

-----------------------------------------------------------------------------
(* The invariants                                                          *)

LEMMA InitEstablishes ==
  ASSUME Init
  PROVE  IInv
<1>1. \A r \in Row : Frozen(r) = InputsOf(r) /\ Frozen(r) \in Input
  <2>1. ASSUME NEW r \in Row
        PROVE  Frozen(r) = InputsOf(r) /\ Frozen(r) \in Input
    <3>1. Refs[r] \subseteq Source
      BY WorksetAssumption
    <3>2. Frozen(r) = InputsOf(r)
      BY <3>1 DEF Init, Frozen, InputsOf
    <3>3. Frozen(r) \in [Refs[r] -> Content]
      BY DEF Frozen, Content
    <3> QED
      BY <3>2, <3>3 DEF Input
  <2> QED
    BY <2>1
<1>2. PICK intent \in [Row -> Intent] :
        /\ \A r \in Row : intent[r] \in DefaultIntents(r)
        /\ row = [r \in Row |-> [included |-> TRUE, approved |-> Operation # "sync", intent |-> intent[r],
                                 replaces |-> FALSE, proposal |-> Nothing, diagnostic |-> "none"]]
  BY DEF Init
<1>3. row \in [Row -> RowState] /\ \A r \in Row : row[r].proposal = Nothing /\ row[r].intent = intent[r]
  BY <1>2 DEF RowState, Diagnostic
<1>4. PICK compared \in SUBSET Row :
        renders = [r \in Row |-> IF r \in compared THEN {[of |-> Kept, from |-> Frozen(r)]} ELSE {}]
  BY DEF Init
<1>5. renders \in [Row -> SUBSET Render] /\ \A r \in Row : \A e \in renders[r] : e.from = InputsOf(r)
  <2>1. Kept \in Outcome
    BY DEF Outcome
  <2> QED
    BY <1>1, <1>4, <2>1 DEF Render
<1>6. /\ candidate \in [Source -> Content] /\ authorized \in SUBSET Source
      /\ captures \in [Row -> Input \cup {Nothing}] /\ edited \in [Row -> Outcome \cup {Nothing}]
      /\ \A r \in Row : captures[r] = Nothing /\ edited[r] = Nothing
  BY DEF Init, Content
<1>7. work \in WorkState /\ work.at \in {"idle", "opening"}
  BY DEF Init, Idle, WorkState, Point
<1>8. \A r \in Row : intent[r] # "editor"
  BY <1>2 DEF DefaultIntents, PolicyIntents
<1>9. TypeOK
  BY <1>3, <1>5, <1>6, <1>7, <1>8 DEF Init, TypeOK, Now, Session
<1>10. CoherentInv
  BY <1>5, <1>6 DEF CoherentInv, CoherentRow
<1>11. FreshInv
  BY <1>3 DEF FreshInv, FreshRow
<1>12. WorkInv
  BY <1>7 DEF WorkInv
<1> QED
  BY <1>9, <1>10, <1>11, <1>12 DEF IInv

LEMMA NextPreserves ==
  ASSUME IInv, [Next]_vars
  PROVE  IInv'
<1>1. CASE UNCHANGED vars
  BY <1>1 DEF vars, data, IInv, TypeOK, Now, CoherentInv, FreshInv, WorkInv, InputsOf
<1>2. CASE Commands
  <2>1. ASSUME NEW r \in Row,
               \/ \E b \in BOOLEAN : SetApproval(r, b)
               \/ \E b \in BOOLEAN : SetIncluded(r, b)
               \/ \E intent \in Intent : SetIntent(r, intent)
               \/ PrepareReview(r) \/ Retry(r) \/ AuthorizeReplacement(r) \/ EditProposal(r)
        PROVE  IInv'
    BY <2>1, RowCommands, SetIncludedStep, EditProposalStep
  <2>2. ASSUME NEW s \in Source, NEW b \in BOOLEAN, SetSourceApproval(s, b)
        PROVE  IInv'
    BY <2>2, SetSourceApprovalStep
  <2>3. ASSUME NEW rows \in SUBSET Row, NEW sources \in SUBSET Source, NEW b \in BOOLEAN,
               BatchSetApproval(rows, sources, b)
        PROVE  IInv'
    BY <2>3, BatchSetApprovalStep
  <2>4. CASE Execute \/ Abort
    BY <2>4, EndStep
  <2> QED
    BY <1>2, <2>1, <2>2, <2>3, <2>4 DEF Commands
<1>3. CASE Work
  <2>1. CASE SettleRow
    BY <2>1, SettleRowStep
  <2>2. CASE MaterializeRow
    BY <2>2, MaterializeRowStep
  <2>3. CASE \E r \in Row : MaterializeNext(r)
    BY <2>3, MaterializeNextStep
  <2>4. CASE Opened \/ RowsDone \/ QuitEdit
    BY <2>4, EndStep
  <2>5. CASE OpenEditor
    BY <2>5, OpenEditorStep
  <2>6. CASE MaterializeFirst
    BY <2>6, MaterializeFirstStep
  <2>7. CASE DropEdit \/ BreakEdit
    BY <2>7, EndEditStep
  <2>8. CASE \E text \in {work.text} \cup {Saved(t) : t \in Text}, saved \in [Source -> Content] :
               SaveEdit(text, saved)
    BY <2>8, SaveEditStep
  <2>9. CASE ProjectEdit
    BY <2>9, ProjectEditStep
  <2> QED
    BY <1>3, <2>1, <2>2, <2>3, <2>4, <2>5, <2>6, <2>7, <2>8, <2>9 DEF Work
<1>4. CASE RequestCancel \/ RequestEditorCancel \/ DeckDrains
  BY <1>4, FlagStep
<1> QED
  BY <1>1, <1>2, <1>3, <1>4 DEF Next

\* In every state of a session the caches are coherent and what is shown is fresh.
THEOREM Invariance == Spec => []IInv
<1>1. Init => IInv
  BY InitEstablishes
<1>2. IInv /\ [Next]_vars => IInv'
  BY NextPreserves
<1> QED
  BY <1>1, <1>2, PTL DEF Spec

\* Every variable keeps its type, and an Edited row its saved edit.
THEOREM TypeCorrect == Spec => []TypeOK
<1>1. IInv => TypeOK
  BY DEF IInv
<1> QED
  BY <1>1, Invariance, PTL

\* Every cached Capture and Render was made from the authorized bytes of the Additional
\* Sources, whatever was approved, edited, cancelled or failed (_invalidate_inputs).
THEOREM CachesAreCoherent == Spec => []CoherentCaches
<1>1. IInv => CoherentCaches
  BY DEF IInv, CoherentInv, CoherentRow, CoherentCaches
<1> QED
  BY <1>1, Invariance, PTL

\* A Proposal that a client sees, or that Execute is given, is what its row's Resolution
\* Intent gives from the inputs that Execute leaves in the repository.
THEOREM ProposalsAreFresh == Spec => []FreshProposals
<1>1. ASSUME IInv, work.at \in {"idle", "closed"}, NEW r \in Row, row[r].proposal # Nothing
      PROVE  /\ row[r].proposal.repository = Resolved(r, InputsOf(r))
             /\ row[r].proposal.rendered \in {Nothing, InputsOf(r)}
  BY <1>1 DEF IInv, FreshInv, FreshRow, ResolvedFrom, Resolved
<1>2. IInv => FreshProposals
  BY <1>1 DEF FreshProposals
<1> QED
  BY <1>2, Invariance, PTL

-----------------------------------------------------------------------------
(* Approval                                                                *)

\* a row with a Proposal has no diagnostic, unless the session was cancelled
Resolves(one, stopped) == one.proposal # Nothing => one.diagnostic = "none" \/ stopped
Ready1(one) == one.approved => one.proposal # Nothing /\ ~one.proposal.noop

\* the dispatch still owes the row a Proposal, or the loss of its Approval
Waiting(r) == r \in work.todo \/ (work.at \in {"apply", "review", "others"} /\ r = work.row)

RowsReady == \A r \in Row : Resolves(row[r], cancelled) /\ (Ready1(row[r]) \/ Waiting(r))

DispatchReady ==
  /\ work.at \notin {"opening", "rows", "others"} => work.todo = {}
  /\ work.at \in {"open", "editing", "others"} =>
       \A r \in Row : Resolves(before.row[r], cancelled) /\ Ready1(before.row[r])

ReadyInv == RowsReady /\ DispatchReady

\* A step that changes one row.
LEMMA ReadyStep ==
  ASSUME IInv, RowsReady, NEW r \in Row, NEW one, row' = [row EXCEPT ![r] = one],
         cancelled => cancelled', Resolves(one, cancelled'), Ready1(one) \/ Waiting(r)',
         \A q \in Row \ {r} : Waiting(q) => Waiting(q)'
  PROVE  RowsReady'
<1>1. \A q \in Row : row'[q] = IF q = r THEN one ELSE row[q]
  BY Types DEF IInv
<1> QED
  BY <1>1 DEF RowsReady, Resolves

\* A step that changes no row.
LEMMA StillReady ==
  ASSUME RowsReady, row' = row, cancelled => cancelled', \A q \in Row : Waiting(q) => Waiting(q)'
  PROVE  RowsReady'
  BY DEF RowsReady, Resolves

\* Nothing waits between commands.
LEMMA NobodyWaits ==
  ASSUME ReadyInv, work.at \in {"idle", "open", "editing", "closed"}
  PROVE  \A r \in Row : ~Waiting(r)
  BY DEF ReadyInv, DispatchReady, Waiting

LEMMA RowCommandReady ==
  ASSUME IInv, ReadyInv, NEW r \in Row, NEW at \in {"apply", "review"}, NEW one, NEW asked,
         Resolves(one, cancelled), RowCommand(at, r, one, asked)
  PROVE  ReadyInv'
<1>1. work.at = "idle" /\ row' = [row EXCEPT ![r] = one] /\ cancelled' = cancelled
  BY DEF RowCommand, Begin
<1>2. work' = [at |-> at, row |-> r, todo |-> {}, text |-> Nothing, stale |-> FALSE]
  BY DEF RowCommand, Begin, Idle
<1>3. Waiting(r)' /\ DispatchReady'
  BY <1>2 DEF Waiting, DispatchReady
<1> QED
  BY <1>1, <1>3, NobodyWaits, ReadyStep DEF ReadyInv

LEMMA RowCommandsReady ==
  ASSUME IInv, ReadyInv, NEW r \in Row,
         \/ \E b \in BOOLEAN : SetApproval(r, b)
         \/ \E intent \in Intent : SetIntent(r, intent)
         \/ PrepareReview(r) \/ Retry(r) \/ AuthorizeReplacement(r)
  PROVE  ReadyInv'
<1>1. row[r] \in RowState /\ Resolves(row[r], cancelled)
  BY Types DEF IInv, ReadyInv, RowsReady
<1>2. ASSUME NEW b \in BOOLEAN, SetApproval(r, b)
      PROVE  ReadyInv'
  <2> DEFINE one == [row[r] EXCEPT !.approved = b]
  <2>1. one.proposal = row[r].proposal /\ one.diagnostic = row[r].diagnostic
    BY <1>1 DEF RowState
  <2>2. RowCommand("apply", r, one, {r})
    BY <1>2 DEF SetApproval
  <2> HIDE DEF one
  <2> QED
    BY <1>1, <2>1, <2>2, RowCommandReady DEF Resolves
<1>3. ASSUME NEW intent \in Intent, SetIntent(r, intent)
      PROVE  ReadyInv'
  <2> DEFINE one == [row[r] EXCEPT !.intent = intent, !.proposal = Nothing, !.diagnostic = "none"]
  <2>1. one.proposal = Nothing
    BY <1>1 DEF RowState
  <2>2. RowCommand("apply", r, one, {})
    BY <1>3 DEF SetIntent
  <2> HIDE DEF one
  <2> QED
    BY <2>1, <2>2, RowCommandReady DEF Resolves
<1>4. CASE PrepareReview(r)
  BY <1>1, <1>4, RowCommandReady DEF PrepareReview
<1>5. CASE Retry(r)
  <2> DEFINE one == [row[r] EXCEPT !.proposal = Nothing]
  <2>1. one.proposal = Nothing
    BY <1>1 DEF RowState
  <2>2. RowCommand("review", r, one, {})
    BY <1>5 DEF Retry
  <2> HIDE DEF one
  <2> QED
    BY <2>1, <2>2, RowCommandReady DEF Resolves
<1>6. CASE AuthorizeReplacement(r)
  <2> DEFINE one == [row[r] EXCEPT !.replaces = TRUE, !.proposal = Nothing, !.diagnostic = "none"]
  <2>1. one.proposal = Nothing
    BY <1>1 DEF RowState
  <2>2. RowCommand("apply", r, one, {})
    BY <1>6 DEF AuthorizeReplacement
  <2> HIDE DEF one
  <2> QED
    BY <2>1, <2>2, RowCommandReady DEF Resolves
<1> QED
  BY <1>2, <1>3, <1>4, <1>5, <1>6

LEMMA SetIncludedReady ==
  ASSUME IInv, ReadyInv, NEW r \in Row, NEW included \in BOOLEAN, SetIncluded(r, included)
  PROVE  ReadyInv'
<1> DEFINE one == [row[r] EXCEPT !.included = included]
<1>1. row[r] \in RowState
  BY Types DEF IInv
<1>2. one.proposal = row[r].proposal /\ one.diagnostic = row[r].diagnostic /\ one.approved = row[r].approved
  BY <1>1 DEF RowState
<1>3. row' = [row EXCEPT ![r] = one] /\ UNCHANGED <<work, before, cancelled>>
  BY Types DEF SetIncluded, IInv, RowState
<1>4. DispatchReady' /\ \A q \in Row : Waiting(q)' = Waiting(q)
  BY <1>3 DEF ReadyInv, DispatchReady, Waiting
<1> HIDE DEF one
<1>5. Resolves(one, cancelled) /\ (Ready1(one) \/ Waiting(r))
  BY <1>2 DEF ReadyInv, RowsReady, Resolves, Ready1
<1> QED
  BY <1>3, <1>4, <1>5, ReadyStep DEF ReadyInv

\* Approval stays only with a Proposal that changes something.
LEMMA SettleRowReady ==
  ASSUME IInv, ReadyInv, SettleRow
  PROVE  ReadyInv'
<1> DEFINE r   == work.row
           one == [row[r] EXCEPT !.approved = @ /\ Approvable(r)]
<1>1. r \in Row /\ work.at \in {"apply", "review"} /\ ~Needed(r)
  BY DEF IInv, WorkInv, SettleRow
<1>2. row[r] \in RowState
  BY <1>1, Types DEF IInv
<1>3. /\ one.proposal = row[r].proposal /\ one.diagnostic = row[r].diagnostic
      /\ one.approved = (row[r].approved /\ Approvable(r))
  BY <1>2 DEF RowState
<1>4. row' = [row EXCEPT ![r] = one] /\ cancelled' = cancelled /\ work' = Idle
  BY <1>1, Types DEF SettleRow, IInv, RowState, Return
<1>5. DispatchReady'
  BY <1>4 DEF DispatchReady, Idle
<1>6. \A q \in Row \ {r} : ~Waiting(q)
  BY <1>1 DEF ReadyInv, DispatchReady, Waiting
<1> HIDE DEF one
<1>7. Ready1(one)
  BY <1>1, <1>3 DEF Ready1, Needed, Approvable
<1>8. Resolves(one, cancelled)
  BY <1>1, <1>3 DEF ReadyInv, RowsReady, Resolves
<1> QED
  BY <1>1, <1>4, <1>5, <1>6, <1>7, <1>8, ReadyStep DEF ReadyInv

LEMMA MaterializeRowReady ==
  ASSUME IInv, ReadyInv, MaterializeRow
  PROVE  ReadyInv'
<1> DEFINE r == work.row
<1>1. r \in Row /\ work.at \in {"apply", "review"}
  BY DEF IInv, WorkInv, MaterializeRow
<1>2. PICK end \in Attempts(r) :
        LET ok == end.end = "ok" /\ ~cancelled
        IN row' = [row EXCEPT
             ![r].proposal   = end.proposal,
             ![r].approved   = @ /\ ok /\ ~end.proposal.noop,
             ![r].diagnostic = IF ok THEN "none" ELSE IF end.end = "ok" THEN "interrupted" ELSE end.end]
  BY DEF MaterializeRow
<1>3. GoodEnd(r, end)
  BY <1>1, AttemptsEndWell DEF IInv
<1> DEFINE ok         == end.end = "ok" /\ ~cancelled
           approved   == row[r].approved /\ ok /\ ~end.proposal.noop
           diagnostic == IF ok THEN "none" ELSE IF end.end = "ok" THEN "interrupted" ELSE end.end
           one        == [row[r] EXCEPT !.proposal = end.proposal, !.approved = approved, !.diagnostic = diagnostic]
<1>4. row[r] \in RowState
  BY <1>1, Types DEF IInv
<1>5. row' = [row EXCEPT ![r] = one]
  BY <1>1, <1>2, Types DEF IInv, RowState
<1>6. one.proposal = end.proposal /\ one.approved = approved /\ one.diagnostic = diagnostic
  BY <1>4 DEF RowState
<1>7. row'[r] = one
  BY <1>1, <1>5, Types DEF IInv
<1>8. (cancelled \/ diagnostic = "interrupted" => cancelled') /\ work' = Idle
  <2>1. cancelled' = (cancelled \/ row'[r].diagnostic = "interrupted") /\ work' = Idle
    BY DEF MaterializeRow, Return
  <2>2. row'[r].diagnostic = diagnostic
    BY <1>6, <1>7
  <2> QED
    BY <2>1, <2>2
<1>9. DispatchReady'
  BY <1>8 DEF DispatchReady, Idle
<1>10. \A q \in Row \ {r} : ~Waiting(q)
  BY <1>1 DEF ReadyInv, DispatchReady, Waiting
<1>11. end.end = "ok" => end.proposal # Nothing
  BY <1>3, NothingAssumption DEF GoodEnd
<1> HIDE DEF one
<1>12. Ready1(one)
  BY <1>6, <1>11 DEF Ready1
<1>13. Resolves(one, cancelled')
  BY <1>3, <1>6, <1>8 DEF Resolves, GoodEnd
<1> QED
  BY <1>1, <1>5, <1>8, <1>9, <1>10, <1>12, <1>13, ReadyStep DEF ReadyInv

LEMMA MaterializeNextReady ==
  ASSUME IInv, ReadyInv, NEW r \in Row, MaterializeNext(r)
  PROVE  ReadyInv'
<1>2. PICK end \in Attempts(r) :
        LET ok == end.end = "ok" /\ ~cancelled
        IN row' = [row EXCEPT
             ![r].proposal   = IF ok THEN end.proposal ELSE Nothing,
             ![r].approved   = ok /\ ~end.proposal.noop,
             ![r].diagnostic = IF ok THEN "none" ELSE IF end.end = "ok" THEN "interrupted" ELSE end.end]
  BY DEF MaterializeNext
<1>3. GoodEnd(r, end)
  BY AttemptsEndWell DEF IInv
<1> DEFINE ok         == end.end = "ok" /\ ~cancelled
           approved   == ok /\ ~end.proposal.noop
           diagnostic == IF ok THEN "none" ELSE IF end.end = "ok" THEN "interrupted" ELSE end.end
           proposal   == IF ok THEN end.proposal ELSE Nothing
           one        == [row[r] EXCEPT !.proposal = proposal, !.approved = approved, !.diagnostic = diagnostic]
<1>4. row[r] \in RowState
  BY Types DEF IInv
<1>5. row' = [row EXCEPT ![r] = one]
  BY <1>2, Types DEF IInv, RowState
<1>6. one.proposal = proposal /\ one.approved = approved /\ one.diagnostic = diagnostic
  BY <1>4 DEF RowState
<1>7. work' = [work EXCEPT !.todo = @ \ {r}] /\ UNCHANGED <<before, cancelled>>
      /\ work.at \in {"opening", "rows", "others"}
  BY DEF MaterializeNext
<1>8. work'.at = work.at /\ work'.row = work.row /\ work'.todo = work.todo \ {r}
  BY <1>7, Types DEF IInv, WorkState
<1>9. DispatchReady'
  BY <1>7, <1>8 DEF ReadyInv, DispatchReady
<1>10. \A q \in Row \ {r} : Waiting(q) => Waiting(q)'
  BY <1>8 DEF Waiting
<1>11. end.end = "ok" => end.proposal # Nothing
  BY <1>3, NothingAssumption DEF GoodEnd
<1> HIDE DEF one
<1>12. Ready1(one) /\ Resolves(one, cancelled')
  BY <1>6, <1>11 DEF Ready1, Resolves
<1> QED
  BY <1>5, <1>7, <1>9, <1>10, <1>12, ReadyStep DEF ReadyInv

\* The flags, the Editor's opening and the ends that change no row.
LEMMA StillReadySteps ==
  ASSUME IInv, ReadyInv,
         \/ RowsDone \/ Opened \/ QuitEdit \/ Execute \/ Abort \/ OpenEditor
         \/ RequestCancel \/ RequestEditorCancel \/ DeckDrains
         \/ \E r \in Row : EditProposal(r)
  PROVE  ReadyInv'
<1>1. CASE RowsDone \/ Opened \/ QuitEdit \/ Execute \/ Abort
  <2>1. row' = row /\ cancelled' = cancelled
    BY <1>1 DEF RowsDone, Opened, QuitEdit, Execute, Abort, EndEdit, data
  <2>2. work' = Idle \/ work' = [Idle EXCEPT !.at = "closed"]
    BY <1>1 DEF RowsDone, Opened, QuitEdit, Execute, Abort, EndEdit, Return, Close
  <2>3. work'.at \in {"idle", "closed"} /\ work'.todo = {}
    BY <2>2 DEF Idle
  <2>4. \A q \in Row : ~Waiting(q)
    BY <1>1 DEF RowsDone, Opened, QuitEdit, Execute, Abort, ReadyInv, DispatchReady, Waiting
  <2> QED
    BY <2>1, <2>3, <2>4, StillReady DEF ReadyInv, DispatchReady
<1>2. CASE OpenEditor
  <2>1. UNCHANGED <<row, cancelled, before>> /\ work.at = "open"
    BY <1>2 DEF OpenEditor, data
  <2>2. PICK text : work' = [work EXCEPT !.at = "editing", !.text = text]
    BY <1>2 DEF OpenEditor
  <2>3. work'.at = "editing" /\ work'.todo = work.todo
    BY <2>2, Types DEF IInv, WorkState
  <2>4. DispatchReady'
    BY <2>1, <2>3 DEF ReadyInv, DispatchReady
  <2> QED
    BY <2>1, <2>4, NobodyWaits, StillReady DEF ReadyInv
<1>3. CASE RequestCancel \/ RequestEditorCancel \/ DeckDrains
  <2>1. UNCHANGED <<row, work, before>> /\ (cancelled => cancelled')
    BY <1>3 DEF RequestCancel, RequestEditorCancel, DeckDrains, data
  <2>2. DispatchReady'
    BY <2>1 DEF ReadyInv, DispatchReady, Resolves
  <2>3. \A q \in Row : Waiting(q)' = Waiting(q)
    BY <2>1 DEF Waiting
  <2> QED
    BY <2>1, <2>2, <2>3, StillReady DEF ReadyInv
<1>4. ASSUME NEW r \in Row, EditProposal(r)
      PROVE  ReadyInv'
  <2>1. /\ work.at = "idle" /\ before' = [Now EXCEPT !.asked = {}] /\ row' = row /\ cancelled' = cancelled
    BY <1>4 DEF EditProposal, Begin, data
  <2>2. work' = [at |-> "open", row |-> r, todo |-> {}, text |-> Nothing, stale |-> FALSE]
    BY <1>4 DEF EditProposal, Begin, Idle
  <2>3. before'.row = row
    BY <2>1 DEF Now
  <2>4. \A q \in Row : ~Waiting(q)
    BY <2>1, NobodyWaits
  <2>5. DispatchReady'
    BY <2>1, <2>2, <2>3, <2>4 DEF ReadyInv, RowsReady, DispatchReady
  <2> QED
    BY <2>1, <2>4, <2>5, StillReady DEF ReadyInv
<1> QED
  BY <1>1, <1>2, <1>3, <1>4

\* A step that drops the Proposals of some rows and sets out to materialize the approved ones.
LEMMA InvalidatedReady ==
  ASSUME IInv, RowsReady, \A q \in Row : ~Waiting(q), NEW all \in SUBSET Row, NEW rows \in [Row -> RowState],
         \A q \in Row : rows[q].proposal = row[q].proposal /\ rows[q].diagnostic = row[q].diagnostic,
         row' = Invalidated(rows, all), cancelled' = cancelled,
         \A q \in Row \ all : rows[q].approved = row[q].approved \/ Waiting(q)',
         \A q \in all : rows[q].approved => Waiting(q)'
  PROVE  RowsReady'
<1>1. ASSUME NEW q \in Row
      PROVE  Resolves(row'[q], cancelled') /\ (Ready1(row'[q]) \/ Waiting(q)')
  <2>1. Resolves(row[q], cancelled) /\ Ready1(row[q])
    BY DEF RowsReady
  <2>2. CASE q \in all
    <3>1. row'[q].proposal = Nothing /\ row'[q].approved = rows[q].approved
      BY <2>2 DEF Invalidated, RowState
    <3> QED
      BY <2>2, <3>1 DEF Resolves, Ready1
  <2>3. CASE q \notin all
    <3>1. row'[q] = rows[q]
      BY <2>3 DEF Invalidated
    <3> QED
      BY <2>1, <2>3, <3>1 DEF Resolves, Ready1
  <2> QED
    BY <2>2, <2>3
<1> QED
  BY <1>1 DEF RowsReady

LEMMA SourcesReady ==
  ASSUME IInv, ReadyInv,
         \/ \E s \in Source, b \in BOOLEAN : SetSourceApproval(s, b)
         \/ \E rows \in SUBSET Row, sources \in SUBSET Source, b \in BOOLEAN : BatchSetApproval(rows, sources, b)
  PROVE  ReadyInv'
<1>1. row \in [Row -> RowState]
  BY Types DEF IInv
<1>2. ASSUME NEW all \in SUBSET Row, NEW rows \in [Row -> RowState], NEW asked,
             \A q \in Row : rows[q].proposal = row[q].proposal /\ rows[q].diagnostic = row[q].diagnostic,
             \A q \in Row \ all : rows[q].approved = row[q].approved,
             Begin("rows", Nothing, Approved(rows, all), asked), row' = Invalidated(rows, all),
             cancelled' = cancelled
      PROVE  ReadyInv'
  <2>1. work.at = "idle"
    BY <1>2 DEF Begin
  <2>2. work' = [at |-> "rows", row |-> Nothing, todo |-> Approved(rows, all), text |-> Nothing, stale |-> FALSE]
    BY <1>2 DEF Begin, Idle
  <2>3. \A q \in all : rows[q].approved => Waiting(q)'
    BY <2>2 DEF Waiting, Approved
  <2>4. DispatchReady'
    BY <2>2 DEF DispatchReady
  <2>5. \A q \in Row : ~Waiting(q)
    BY <2>1, NobodyWaits
  <2>6. RowsReady'
    BY <1>2, <2>3, <2>5, InvalidatedReady DEF ReadyInv
  <2> QED
    BY <2>4, <2>6 DEF ReadyInv
<1>3. ASSUME NEW s \in Source, NEW b \in BOOLEAN, SetSourceApproval(s, b)
      PROVE  ReadyInv'
  <2> DEFINE stale == IF authorized' = authorized THEN {} ELSE References({s})
  <2>1. /\ Begin("rows", Nothing, Approved(row, stale), {})
        /\ row' = Invalidated(row, stale) /\ cancelled' = cancelled
    BY <1>3 DEF SetSourceApproval
  <2>2. stale \in SUBSET Row
    BY DEF References
  <2> HIDE DEF stale
  <2> QED
    BY <1>1, <1>2, <2>1, <2>2
<1>4. ASSUME NEW picked \in SUBSET Row, NEW sources \in SUBSET Source, NEW b \in BOOLEAN,
             BatchSetApproval(picked, sources, b)
      PROVE  ReadyInv'
  <2> DEFINE scope == {r \in picked : Approvable(r)}
             stale == References({s \in sources : (s \in authorized) # b})
             set   == [r \in Row |-> IF r \in scope THEN [row[r] EXCEPT !.approved = b] ELSE row[r]]
             all   == scope \cup stale
  <2>1. /\ Begin("rows", Nothing, Approved(set, all), scope)
        /\ row' = Invalidated(set, all) /\ cancelled' = cancelled
    BY <1>4 DEF BatchSetApproval
  <2>2. all \in SUBSET Row
    BY DEF References
  <2>3. /\ set \in [Row -> RowState]
        /\ \A q \in Row : set[q].proposal = row[q].proposal /\ set[q].diagnostic = row[q].diagnostic
        /\ \A q \in Row \ all : set[q].approved = row[q].approved
    BY <1>1 DEF RowState
  <2> HIDE DEF scope, stale, set, all
  <2> QED
    BY <1>2, <2>1, <2>2, <2>3
<1> QED
  BY <1>3, <1>4

LEMMA FailEditReady ==
  ASSUME IInv, ReadyInv, work.at \in {"open", "editing", "others"}, NEW r, r = work.row,
         work.at = "others" => work.todo = {}, NEW diagnostic, FailEdit(r, diagnostic)
  PROVE  ReadyInv'
<1> DEFINE one == [row[r] EXCEPT !.approved = FALSE, !.proposal = Nothing, !.diagnostic = diagnostic]
<1>1. r \in Row
  BY DEF IInv, WorkInv
<1>2. row[r] \in RowState
  BY <1>1, Types DEF IInv
<1>3. one.proposal = Nothing /\ one.approved = FALSE
  BY <1>2 DEF RowState
<1>4. row' = [row EXCEPT ![r] = one] /\ work' = Idle /\ cancelled' = cancelled
  BY <1>1, Types DEF FailEdit, EndEdit, Return, IInv, RowState
<1>5. DispatchReady' /\ \A q \in Row \ {r} : ~Waiting(q)
  BY <1>4 DEF ReadyInv, DispatchReady, Idle, Waiting
<1> HIDE DEF one
<1> QED
  BY <1>1, <1>3, <1>4, <1>5, ReadyStep DEF ReadyInv, Resolves, Ready1

LEMMA CancelEditReady ==
  ASSUME ReadyInv, work.at \in {"open", "editing", "others"}, CancelEdit
  PROVE  ReadyInv'
<1>1. row' = before.row /\ work' = Idle /\ cancelled' = cancelled
  BY DEF CancelEdit, EndEdit, Return
<1>2. \A r \in Row : Resolves(before.row[r], cancelled) /\ Ready1(before.row[r])
  BY DEF ReadyInv, DispatchReady
<1> QED
  BY <1>1, <1>2 DEF ReadyInv, RowsReady, DispatchReady, Idle

LEMMA EndEditReady ==
  ASSUME IInv, ReadyInv, MaterializeFirst \/ DropEdit \/ BreakEdit
  PROVE  ReadyInv'
<1> DEFINE r == work.row
<1>1. CASE DropEdit
  BY <1>1, CancelEditReady DEF DropEdit
<1>2. CASE BreakEdit
  BY <1>2, FailEditReady DEF BreakEdit
<1>3. CASE MaterializeFirst
  <2>1. work.at = "open"
    BY <1>3 DEF MaterializeFirst
  <2>2. \/ CancelEdit
        \/ FailEdit(r, "failed")
        \/ /\ \E text : work' = [work EXCEPT !.at = "editing", !.text = text]
           /\ UNCHANGED <<row, cancelled, before>>
    BY <1>3 DEF MaterializeFirst
  <2>3. ASSUME NEW text, work' = [work EXCEPT !.at = "editing", !.text = text], UNCHANGED <<row, cancelled, before>>
        PROVE  ReadyInv'
    <3>1. work'.at = "editing" /\ work'.todo = work.todo
      BY <2>3, Types DEF IInv, WorkState
    <3>2. DispatchReady'
      BY <2>1, <2>3, <3>1 DEF ReadyInv, DispatchReady
    <3> QED
      BY <2>1, <2>3, <3>2, NobodyWaits, StillReady DEF ReadyInv
  <2> QED
    BY <2>1, <2>2, <2>3, CancelEditReady, FailEditReady
<1> QED
  BY <1>1, <1>2, <1>3

LEMMA SaveEditReady ==
  ASSUME IInv, ReadyInv, NEW text, NEW saved, SaveEdit(text, saved)
  PROVE  ReadyInv'
<1> DEFINE r        == work.row
           staged   == [s \in Source |-> IF s \in Refs[r] THEN saved[s] ELSE candidate[s]]
           affected == References(Authorized({s \in Source : staged[s] # candidate[s]}))
           chosen   == [row EXCEPT ![r].intent = "editor"]
           all      == affected \ {r}
<1>1. /\ work.at = "editing" /\ row' = Invalidated(chosen, all)
      /\ work' = [work EXCEPT !.at = "others", !.text = text, !.stale = r \in affected, !.todo = Approved(row, all)]
      /\ UNCHANGED <<cancelled, before>>
  BY DEF SaveEdit
<1>2. row \in [Row -> RowState] /\ work \in WorkState
  BY Types DEF IInv
<1>3. chosen \in [Row -> RowState]
      /\ \A q \in Row : /\ chosen[q].proposal = row[q].proposal /\ chosen[q].diagnostic = row[q].diagnostic
                         /\ chosen[q].approved = row[q].approved
  BY <1>2 DEF RowState, Intent
<1>4. all \in SUBSET Row
  BY DEF References
<1> HIDE DEF chosen, affected, all
<1>5. work'.at = "others" /\ work'.todo = Approved(row, all)
  BY <1>1, <1>2 DEF WorkState
<1>6. \A q \in all : chosen[q].approved => Waiting(q)'
  BY <1>3, <1>4, <1>5 DEF Waiting, Approved
<1>7. DispatchReady'
  BY <1>1, <1>5 DEF ReadyInv, DispatchReady
<1>8. RowsReady'
  BY <1>1, <1>3, <1>4, <1>6, NobodyWaits, InvalidatedReady DEF ReadyInv
<1> QED
  BY <1>7, <1>8 DEF ReadyInv

LEMMA AcceptEditReady ==
  ASSUME IInv, ReadyInv, work.at = "others", work.todo = {}, NEW r, r = work.row,
         NEW proposal \in Proposal, AcceptEdit(r, proposal)
  PROVE  ReadyInv'
<1> DEFINE one == [row[r] EXCEPT !.proposal = proposal, !.approved = @ /\ ~proposal.noop, !.diagnostic = "none"]
<1>1. r \in Row
  BY DEF IInv, WorkInv
<1>2. row[r] \in RowState /\ proposal # Nothing
  BY <1>1, Types, NothingAssumption DEF IInv
<1>3. /\ one.proposal = proposal /\ one.diagnostic = "none"
      /\ one.approved = (row[r].approved /\ ~proposal.noop)
  BY <1>2 DEF RowState
<1>4. row' = [row EXCEPT ![r] = one] /\ work' = Idle /\ cancelled' = cancelled
  BY <1>1, Types DEF AcceptEdit, EndEdit, Return, IInv, RowState
<1>5. DispatchReady' /\ \A q \in Row \ {r} : ~Waiting(q)
  BY <1>4 DEF DispatchReady, Idle, Waiting
<1> HIDE DEF one
<1>6. Ready1(one) /\ Resolves(one, cancelled')
  BY <1>2, <1>3 DEF Ready1, Resolves
<1> QED
  BY <1>1, <1>4, <1>5, <1>6, ReadyStep DEF ReadyInv

LEMMA ProjectEditReady ==
  ASSUME IInv, ReadyInv, ProjectEdit
  PROVE  ReadyInv'
<1> DEFINE r == work.row
<1>1. work.at = "others" /\ work.todo = {} /\ r \in Row
  BY DEF ProjectEdit, IInv, WorkInv
<1>2. CASE ReusesProposal(r) /\ AcceptEdit(r, row[r].proposal)
  <2>1. row[r].proposal \in Proposal
    BY <1>1, <1>2, Types DEF IInv, RowState, ReusesProposal
  <2> QED
    BY <1>1, <1>2, <2>1, AcceptEditReady
<1>3. ASSUME NEW end \in Attempts(r),
             \/ end.end = "ok" /\ AcceptEdit(r, end.proposal)
             \/ end.end \in {"failed", "conflict"} /\ FailEdit(r, end.end)
      PROVE  ReadyInv'
  <2>1. GoodEnd(r, end)
    BY <1>1, AttemptsEndWell DEF IInv
  <2> QED
    BY <1>1, <1>3, <2>1, AcceptEditReady, FailEditReady DEF GoodEnd
<1>4. CASE CancelEdit
  BY <1>1, <1>4, CancelEditReady
<1> QED
  BY <1>2, <1>3, <1>4 DEF ProjectEdit

LEMMA InitReady ==
  ASSUME Init
  PROVE  ReadyInv
<1>1. PICK intent \in [Row -> Intent] :
        row = [r \in Row |-> [included |-> TRUE, approved |-> Operation # "sync", intent |-> intent[r],
                              replaces |-> FALSE, proposal |-> Nothing, diagnostic |-> "none"]]
  BY DEF Init
<1>2. \A r \in Row : row[r].proposal = Nothing /\ row[r].approved = (Operation # "sync")
  BY <1>1
<1>3. /\ Operation = "sync" => work.at = "idle" /\ work.todo = {}
      /\ Operation # "sync" => work.at = "opening" /\ work.todo = Row
  BY DEF Init, Idle
<1> QED
  BY <1>2, <1>3 DEF ReadyInv, RowsReady, DispatchReady, Resolves, Ready1, Waiting

LEMMA NextReady ==
  ASSUME IInv, ReadyInv, [Next]_vars
  PROVE  ReadyInv'
<1>1. CASE UNCHANGED vars
  BY <1>1 DEF vars, data, ReadyInv, RowsReady, DispatchReady, Waiting
<1>2. CASE Commands
  <2>1. ASSUME NEW r \in Row,
               \/ \E b \in BOOLEAN : SetApproval(r, b)
               \/ \E b \in BOOLEAN : SetIncluded(r, b)
               \/ \E intent \in Intent : SetIntent(r, intent)
               \/ PrepareReview(r) \/ Retry(r) \/ AuthorizeReplacement(r) \/ EditProposal(r)
        PROVE  ReadyInv'
    BY <2>1, RowCommandsReady, SetIncludedReady, StillReadySteps
  <2>2. CASE Execute \/ Abort
    BY <2>2, StillReadySteps
  <2>3. CASE \/ \E s \in Source, b \in BOOLEAN : SetSourceApproval(s, b)
             \/ \E rows \in SUBSET Row, sources \in SUBSET Source, b \in BOOLEAN :
                  BatchSetApproval(rows, sources, b)
    BY <2>3, SourcesReady
  <2> QED
    BY <1>2, <2>1, <2>2, <2>3 DEF Commands
<1>3. CASE Work
  <2>1. CASE SettleRow
    BY <2>1, SettleRowReady
  <2>2. CASE MaterializeRow
    BY <2>2, MaterializeRowReady
  <2>3. CASE \E r \in Row : MaterializeNext(r)
    BY <2>3, MaterializeNextReady
  <2>4. CASE Opened \/ RowsDone \/ QuitEdit \/ OpenEditor
    BY <2>4, StillReadySteps
  <2>5. CASE MaterializeFirst \/ DropEdit \/ BreakEdit
    BY <2>5, EndEditReady
  <2>6. CASE \E text \in {work.text} \cup {Saved(t) : t \in Text}, saved \in [Source -> Content] :
               SaveEdit(text, saved)
    BY <2>6, SaveEditReady
  <2>7. CASE ProjectEdit
    BY <2>7, ProjectEditReady
  <2> QED
    BY <1>3, <2>1, <2>2, <2>3, <2>4, <2>5, <2>6, <2>7 DEF Work
<1>4. CASE RequestCancel \/ RequestEditorCancel \/ DeckDrains
  BY <1>4, StillReadySteps
<1> QED
  BY <1>1, <1>2, <1>3, <1>4 DEF Next

\* Between commands every approved row has a Proposal that changes something, and no
\* unresolved diagnostic unless the session was cancelled: Execute never refuses one.
THEOREM ApprovedRowsAreReady == Spec => []ApprovedIsReady
<1>1. Init => IInv /\ ReadyInv
  BY InitEstablishes, InitReady
<1>2. IInv /\ ReadyInv /\ [Next]_vars => (IInv /\ ReadyInv)'
  BY NextPreserves, NextReady
<1>3. ReadyInv => ApprovedIsReady
  <2>1. ASSUME ReadyInv, work.at \in {"idle", "closed"}, NEW r \in Row, row[r].approved
        PROVE  /\ row[r].proposal # Nothing /\ ~row[r].proposal.noop
               /\ row[r].diagnostic = "none" \/ cancelled
    BY <2>1, NobodyWaits DEF ReadyInv, RowsReady, Ready1, Resolves
  <2> QED
    BY <2>1 DEF ApprovedIsReady
<1> QED
  BY <1>1, <1>2, <1>3, PTL DEF Spec

-----------------------------------------------------------------------------
(* The edit as a transaction                                               *)

\* until an edit is saved the session is as the command found it
StartInv ==
  work.at \in {"open", "editing"} =>
    row = before.row /\ candidate = before.candidate /\ edited = before.edited

\* A dispatch begins with the session as it is; only an edit begins at "open".
LEMMA StartEstablished ==
  ASSUME IInv, StartInv, [Next]_vars
  PROVE  StartInv'
<1>1. CASE UNCHANGED vars
  BY <1>1 DEF vars, data, StartInv
<1>2. CASE Commands
  <2>1. ASSUME NEW r \in Row, EditProposal(r)
        PROVE  StartInv'
    BY <2>1 DEF EditProposal, Begin, Now, data, StartInv
  <2>2. ASSUME NEW at \in {"apply", "review", "rows"}, NEW r, NEW todo, NEW asked, Begin(at, r, todo, asked)
        PROVE  StartInv'
    BY <2>2 DEF Begin, Idle, StartInv
  <2>3. ASSUME NEW r \in Row,
               \/ \E b \in BOOLEAN : SetApproval(r, b)
               \/ \E intent \in Intent : SetIntent(r, intent)
               \/ PrepareReview(r) \/ Retry(r) \/ AuthorizeReplacement(r)
        PROVE  StartInv'
    BY <2>2, <2>3 DEF SetApproval, SetIntent, PrepareReview, Retry, AuthorizeReplacement, RowCommand
  <2>4. ASSUME NEW r \in Row, NEW b \in BOOLEAN, SetIncluded(r, b)
        PROVE  StartInv'
    BY <2>4 DEF SetIncluded, StartInv
  <2>5. CASE \/ \E s \in Source, b \in BOOLEAN : SetSourceApproval(s, b)
             \/ \E rows \in SUBSET Row, sources \in SUBSET Source, b \in BOOLEAN :
                  BatchSetApproval(rows, sources, b)
    BY <2>2, <2>5 DEF SetSourceApproval, BatchSetApproval
  <2>6. CASE Execute \/ Abort
    BY <2>6 DEF Execute, Abort, Close, Idle, StartInv
  <2> QED
    BY <1>2, <2>1, <2>3, <2>4, <2>5, <2>6 DEF Commands
<1>3. CASE Work
  <2>1. ASSUME Return \/ work' = Idle
        PROVE  StartInv'
    BY <2>1 DEF Return, Idle, StartInv
  <2>2. CASE SettleRow \/ MaterializeRow \/ RowsDone \/ Opened \/ QuitEdit \/ DropEdit \/ BreakEdit
    BY <2>1, <2>2 DEF SettleRow, MaterializeRow, RowsDone, Opened, QuitEdit, DropEdit, BreakEdit,
                      CancelEdit, FailEdit, EndEdit
  <2>3. CASE ProjectEdit
    BY <2>1, <2>3 DEF ProjectEdit, AcceptEdit, FailEdit, CancelEdit, EndEdit
  <2>4. CASE \E r \in Row : MaterializeNext(r)
    BY <2>4, Types DEF MaterializeNext, IInv, WorkState, StartInv
  <2>5. CASE OpenEditor
    BY <2>5 DEF OpenEditor, data, StartInv
  <2>6. CASE MaterializeFirst
    BY <2>1, <2>6 DEF MaterializeFirst, CancelEdit, FailEdit, EndEdit, StartInv
  <2>7. ASSUME NEW text, NEW saved, SaveEdit(text, saved)
        PROVE  StartInv'
    BY <2>7, Types DEF SaveEdit, IInv, WorkState, StartInv
  <2> QED
    BY <1>3, <2>2, <2>3, <2>4, <2>5, <2>6, <2>7 DEF Work
<1>4. CASE RequestCancel \/ RequestEditorCancel \/ DeckDrains
  BY <1>4 DEF RequestCancel, RequestEditorCancel, DeckDrains, data, StartInv
<1> QED
  BY <1>1, <1>2, <1>3, <1>4 DEF Next

\* The two ways an edit may end.
Stays ==
  /\ edited'[work.row] = work.text /\ row'[work.row].intent = "editor"
  /\ candidate' = candidate
Undone ==
  /\ <<candidate, edited, authorized>>' = <<before.candidate, before.edited, before.authorized>>
  /\ \A r \in Row : r # work.row => row'[r] = before.row[r]
  /\ row'[work.row].intent = before.row[work.row].intent

\* A failure, a cancellation or a rejected save before an edit is saved undoes it.
LEMMA EndsUndone ==
  ASSUME IInv, StartInv, work.at \in {"open", "editing"},
         \/ CancelEdit
         \/ FailEdit(work.row, "failed") /\ UNCHANGED <<candidate, authorized, edited>>
         \/ UNCHANGED data
  PROVE  Undone
<1>1. row \in [Row -> RowState] /\ work.row \in Row /\ before.authorized = authorized
  BY Types DEF IInv, WorkInv
<1>2. row = before.row /\ candidate = before.candidate /\ edited = before.edited
  BY DEF StartInv
<1>3. CASE CancelEdit
  BY <1>1, <1>3 DEF CancelEdit, Undone
<1>4. CASE FailEdit(work.row, "failed") /\ UNCHANGED <<candidate, authorized, edited>>
  BY <1>1, <1>2, <1>4 DEF FailEdit, RowState, Undone
<1>5. CASE UNCHANGED data
  BY <1>1, <1>2, <1>5 DEF data, Undone
<1> QED
  BY <1>3, <1>4, <1>5

\* Once saved, an edit ends with its sources saved or is cancelled as a whole.
LEMMA ProjectionEnds ==
  ASSUME IInv, ProjectEdit
  PROVE  Stays \/ Undone
<1>1. /\ row \in [Row -> RowState] /\ work.row \in Row /\ work.at = "others"
      /\ before.authorized = authorized /\ row[work.row].intent = "editor" /\ edited[work.row] = work.text
  BY Types DEF IInv, WorkInv, ProjectEdit
<1>2. CASE CancelEdit
  BY <1>1, <1>2 DEF CancelEdit, Undone
<1>3. ASSUME NEW proposal, AcceptEdit(work.row, proposal), UNCHANGED <<candidate, edited>>
      PROVE  Stays
  BY <1>1, <1>3 DEF AcceptEdit, RowState, Stays
<1>4. ASSUME NEW diagnostic, FailEdit(work.row, diagnostic), UNCHANGED <<candidate, edited>>
      PROVE  Stays
  BY <1>1, <1>4 DEF FailEdit, RowState, Stays
<1> QED
  BY <1>2, <1>3, <1>4 DEF ProjectEdit

LEMMA EditsEnd ==
  ASSUME IInv, StartInv, [Next]_vars, Ends, work.at \in {"open", "editing", "others"}
  PROVE  (work.at = "others" /\ Stays) \/ Undone
<1>1. before' # before
  BY DEF Ends
<1>2. CASE Commands
  BY <1>2 DEF Commands, SetApproval, SetIncluded, SetIntent, PrepareReview, Retry, AuthorizeReplacement,
              EditProposal, RowCommand, Begin, SetSourceApproval, BatchSetApproval, Execute, Abort
<1>3. CASE Work
  <2>1. CASE SettleRow \/ MaterializeRow \/ RowsDone \/ Opened
    BY <2>1 DEF SettleRow, MaterializeRow, RowsDone, Opened
  <2>2. CASE OpenEditor \/ \E r \in Row : MaterializeNext(r)
    BY <1>1, <2>2 DEF OpenEditor, MaterializeNext
  <2>3. ASSUME NEW text, NEW saved, SaveEdit(text, saved)
        PROVE  FALSE
    BY <1>1, <2>3 DEF SaveEdit
  <2>4. CASE MaterializeFirst
    BY <1>1, <2>4, EndsUndone DEF MaterializeFirst
  <2>5. CASE BreakEdit \/ QuitEdit
    BY <2>5, EndsUndone DEF BreakEdit, QuitEdit
  <2>6. CASE DropEdit
    BY <2>6, EndsUndone DEF DropEdit
  <2>7. CASE ProjectEdit
    BY <2>7, ProjectionEnds DEF ProjectEdit
  <2> QED
    BY <1>3, <2>1, <2>2, <2>3, <2>4, <2>5, <2>6, <2>7 DEF Work
<1>4. CASE RequestCancel \/ RequestEditorCancel \/ DeckDrains \/ UNCHANGED vars
  BY <1>1, <1>4 DEF RequestCancel, RequestEditorCancel, DeckDrains, vars
<1> QED
  BY <1>2, <1>3, <1>4 DEF Next

\* An edit of sources ends with its sources saved, even when they cannot be projected, or
\* with the session as it was before but for the row's own failure.
THEOREM EditsAreTransactions == Spec => EditIsTransaction
<1> DEFINE Edit == Ends /\ work.at \in {"open", "editing", "others"} =>
       \/ /\ work.at = "others"
          /\ edited'[work.row] = work.text /\ row'[work.row].intent = "editor"
          /\ candidate' = candidate
       \/ /\ <<candidate, edited, authorized>>' = <<before.candidate, before.edited, before.authorized>>
          /\ \A r \in Row \ {work.row} : row'[r] = before.row[r]
          /\ row'[work.row].intent = before.row[work.row].intent
<1>1. Init => StartInv
  BY DEF Init, Idle, StartInv
<1>2. IInv /\ StartInv /\ [Next]_vars => StartInv'
  BY StartEstablished
<1>3. IInv /\ StartInv /\ [Next]_vars => [Edit]_vars
  BY EditsEnd DEF Stays, Undone
<1> HIDE DEF Edit
<1>4. Spec => [][Edit]_vars
  BY <1>1, <1>2, <1>3, Invariance, PTL DEF Spec
<1> QED
  BY <1>4 DEF Edit, EditIsTransaction

-----------------------------------------------------------------------------
(* What a dispatch leaves of the rows that it is not about: their Approval  *)
(* and, unless it changes their inputs, their Proposals and caches.         *)

Dispatching == work.at \notin {"idle", "opening", "closed"}

\* the Approval of a row now is that of the row before, or has been taken for a reason
Stands(now, was) ==
  now.approved # was.approved =>
    was.approved /\ (now.diagnostic # "none" \/ (now.proposal # Nothing /\ now.proposal.noop))

\* while the worker has not come to a row its Approval is untouched; only the
\* approved rows are materialized again
StandInv ==
  /\ ~Dispatching => before = Nothing
  /\ work.at = "others" => work.row \notin work.todo
  /\ Dispatching => \A r \in Row \ before.asked :
       /\ Stands(row[r], before.row[r])
       /\ work.at \in {"apply", "review"} \/ (work.at = "others" /\ r = work.row) =>
            row[r].approved = before.row[r].approved
       /\ r \in work.todo => before.row[r].approved

InputsBefore(r) == InputsIn(before.candidate, before.authorized, r)
Untouched(r) == <<row[r], captures[r], renders[r]>> = <<before.row[r], before.captures[r], before.renders[r]>>

\* a row that is to be materialized again has other inputs than before
KeepInv ==
  Dispatching => \A r \in Row \ (before.asked \cup {work.row}) :
    /\ InputsOf(r) = InputsBefore(r) => Untouched(r)
    /\ r \in work.todo => InputsOf(r) # InputsBefore(r)

OthersInv == StandInv /\ KeepInv

-----------------------------------------------------------------------------
(* A dispatch begins                                                       *)

\* A command on a row leaves the other rows alone, and their Approval unless it asks for it.
LEMMA RowCommandOthers ==
  ASSUME IInv, NEW r \in Row, NEW at \in {"apply", "review"}, NEW one, NEW asked \in SUBSET Row,
         one.approved = row[r].approved \/ asked = {r}, RowCommand(at, r, one, asked)
  PROVE  OthersInv'
<1>1. /\ work' = [at |-> at, row |-> r, todo |-> {}, text |-> Nothing, stale |-> FALSE]
      /\ before' = [row |-> row, candidate |-> candidate, authorized |-> authorized, edited |-> edited,
                    captures |-> captures, renders |-> renders, asked |-> asked]
      /\ row' = [row EXCEPT ![r] = one]
      /\ UNCHANGED <<candidate, authorized, captures, renders>>
  BY DEF RowCommand, Begin, Idle, Now
<1>2. \A q \in Row : row'[q] = IF q = r THEN one ELSE row[q]
  BY <1>1, Types DEF IInv
<1>3. \A q \in Row \ asked : row'[q].approved = row[q].approved
  BY <1>2
<1>4. StandInv'
  BY <1>1, <1>3 DEF StandInv, Stands, Dispatching
<1>5. KeepInv'
  BY <1>1, <1>2 DEF KeepInv, Untouched
<1> QED
  BY <1>4, <1>5 DEF OthersInv

LEMMA RowCommandsOthers ==
  ASSUME IInv, NEW r \in Row,
         \/ \E b \in BOOLEAN : SetApproval(r, b)
         \/ \E intent \in Intent : SetIntent(r, intent)
         \/ PrepareReview(r) \/ Retry(r) \/ AuthorizeReplacement(r)
  PROVE  OthersInv'
<1>1. row[r] \in RowState
  BY Types DEF IInv
<1>2. CASE \E b \in BOOLEAN : SetApproval(r, b)
  BY <1>2, RowCommandOthers DEF SetApproval
<1>3. ASSUME NEW intent \in Intent, SetIntent(r, intent)
      PROVE  OthersInv'
  <2> DEFINE one == [row[r] EXCEPT !.intent = intent, !.proposal = Nothing, !.diagnostic = "none"]
  <2>1. one.approved = row[r].approved
    BY <1>1 DEF RowState
  <2> HIDE DEF one
  <2>2. RowCommand("apply", r, one, {})
    BY <1>3 DEF SetIntent, one
  <2> QED
    BY <2>1, <2>2, RowCommandOthers
<1>4. CASE PrepareReview(r)
  BY <1>4, RowCommandOthers DEF PrepareReview
<1>5. CASE Retry(r)
  <2> DEFINE one == [row[r] EXCEPT !.proposal = Nothing]
  <2>1. one.approved = row[r].approved
    BY <1>1 DEF RowState
  <2> HIDE DEF one
  <2>2. RowCommand("review", r, one, {})
    BY <1>5 DEF Retry, one
  <2> QED
    BY <2>1, <2>2, RowCommandOthers
<1>6. CASE AuthorizeReplacement(r)
  <2> DEFINE one == [row[r] EXCEPT !.replaces = TRUE, !.proposal = Nothing, !.diagnostic = "none"]
  <2>1. one.approved = row[r].approved
    BY <1>1 DEF RowState
  <2> HIDE DEF one
  <2>2. RowCommand("apply", r, one, {})
    BY <1>6 DEF AuthorizeReplacement, one
  <2> QED
    BY <2>1, <2>2, RowCommandOthers
<1> QED
  BY <1>2, <1>3, <1>4, <1>5, <1>6

\* Authorizing or excluding a changed source changes the inputs of the rows that read it.
LEMMA InputsDiffer ==
  ASSUME TypeOK, NEW r \in Row, NEW s \in Refs[r], candidate[s] # Preimage,
         candidate' = candidate, (s \in authorized') # (s \in authorized)
  PROVE  InputsOf(r)' # InputsOf(r)
<1>1. InputsOf(r)[s] = (IF s \in authorized THEN candidate[s] ELSE Preimage)
  BY DEF InputsOf
<1>2. InputsOf(r)'[s] = (IF s \in authorized' THEN candidate[s] ELSE Preimage)
  BY DEF InputsOf
<1> QED
  BY <1>1, <1>2

\* A command on sources or a batch leaves the rows alone that it asks nothing about and
\* whose inputs it does not change.
LEMMA SourcesOthers ==
  ASSUME IInv, NEW stale \in SUBSET Row, NEW scope \in SUBSET Row, NEW set \in [Row -> RowState],
         \A r \in Row \ scope : set[r] = row[r],
         Begin("rows", Nothing, Approved(set, scope \cup stale), scope),
         row' = Invalidated(set, scope \cup stale), ClearCaches(stale), UNCHANGED candidate,
         \A r \in stale : InputsOf(r)' # InputsOf(r)
  PROVE  OthersInv'
<1>1. /\ work' = [at |-> "rows", row |-> Nothing, todo |-> Approved(set, scope \cup stale),
                  text |-> Nothing, stale |-> FALSE]
      /\ before' = [row |-> row, candidate |-> candidate, authorized |-> authorized, edited |-> edited,
                    captures |-> captures, renders |-> renders, asked |-> scope]
  BY DEF Begin, Idle, Now
<1>2. \A r \in Row : InputsOf(r) = InputsBefore(r)'
  BY <1>1 DEF InputsOf, InputsIn, InputsBefore
<1>3. ASSUME NEW r \in Row \ scope
      PROVE  /\ row'[r].approved = row[r].approved
             /\ r \in work'.todo => row[r].approved /\ r \in stale
             /\ r \notin stale => row'[r] = row[r] /\ captures'[r] = captures[r] /\ renders'[r] = renders[r]
  <2>1. set[r] = row[r] /\ row[r] \in RowState
    BY Types DEF IInv
  <2>2. row'[r] = IF r \in stale THEN [row[r] EXCEPT !.proposal = Nothing] ELSE row[r]
    BY <2>1 DEF Invalidated
  <2>3. row'[r].approved = row[r].approved
    BY <2>1, <2>2 DEF RowState
  <2> QED
    BY <1>1, <2>1, <2>2, <2>3 DEF Approved, ClearCaches
<1>4. StandInv'
  BY <1>1, <1>3 DEF StandInv, Stands, Dispatching
<1>5. ASSUME NEW r \in Row \ (before'.asked \cup {work'.row})
      PROVE  /\ InputsOf(r)' = InputsBefore(r)' => Untouched(r)'
             /\ r \in work'.todo => InputsOf(r)' # InputsBefore(r)'
  <2>1. r \in Row \ scope
    BY <1>1
  <2>2. InputsOf(r) = InputsBefore(r)'
    BY <1>2
  <2>3. CASE r \in stale
    BY <2>2, <2>3
  <2>4. CASE r \notin stale
    BY <1>1, <1>3, <2>1, <2>4 DEF Untouched
  <2> QED
    BY <2>3, <2>4
<1>6. KeepInv'
  BY <1>5 DEF KeepInv
<1> QED
  BY <1>4, <1>6 DEF OthersInv

LEMMA SetSourceApprovalOthers ==
  ASSUME IInv, NEW s \in Source, NEW b \in BOOLEAN, SetSourceApproval(s, b)
  PROVE  OthersInv'
<1> DEFINE stale == IF authorized' = authorized THEN {} ELSE References({s})
<1>1. /\ Begin("rows", Nothing, Approved(row, stale), {})
      /\ row' = Invalidated(row, stale) /\ ClearCaches(stale) /\ candidate' = candidate
      /\ authorized' = IF b THEN authorized \cup {s} ELSE authorized \ {s}
      /\ candidate[s] # Preimage
  BY DEF SetSourceApproval, Changed
<1>2. stale \in SUBSET Row /\ row \in [Row -> RowState]
  BY Types DEF References, IInv
<1>3. ASSUME NEW r \in stale
      PROVE  InputsOf(r)' # InputsOf(r)
  <2>1. r \in Row /\ s \in Refs[r] /\ authorized' # authorized
    BY <1>3 DEF References
  <2>2. (s \in authorized') # (s \in authorized)
    BY <1>1, <2>1
  <2> QED
    BY <1>1, <2>1, <2>2, InputsDiffer DEF IInv
<1> HIDE DEF stale
<1>4. {} \cup stale = stale
  OBVIOUS
<1> QED
  BY <1>1, <1>2, <1>3, <1>4, SourcesOthers

LEMMA BatchSetApprovalOthers ==
  ASSUME IInv, NEW rows \in SUBSET Row, NEW sources \in SUBSET Source, NEW b \in BOOLEAN,
         BatchSetApproval(rows, sources, b)
  PROVE  OthersInv'
<1> DEFINE scope == {r \in rows : Approvable(r)}
           stale == References({s \in sources : (s \in authorized) # b})
           set   == [r \in Row |-> IF r \in scope THEN [row[r] EXCEPT !.approved = b] ELSE row[r]]
<1>1. /\ Begin("rows", Nothing, Approved(set, scope \cup stale), scope)
      /\ row' = Invalidated(set, scope \cup stale) /\ ClearCaches(stale) /\ candidate' = candidate
      /\ authorized' = IF b THEN authorized \cup sources ELSE authorized \ sources
      /\ sources \subseteq Changed
  BY DEF BatchSetApproval
<1>2. stale \in SUBSET Row /\ scope \in SUBSET Row
  BY DEF References
<1>3. set \in [Row -> RowState] /\ \A r \in Row \ scope : set[r] = row[r]
  BY Types DEF IInv, RowState
<1>4. ASSUME NEW r \in stale
      PROVE  InputsOf(r)' # InputsOf(r)
  <2>1. PICK s \in Refs[r] : s \in sources /\ (s \in authorized) # b
    BY <1>4 DEF References
  <2>2. candidate[s] # Preimage
    BY <1>1, <2>1 DEF Changed
  <2>3. (s \in authorized') # (s \in authorized)
    BY <1>1, <2>1
  <2> QED
    BY <1>1, <1>2, <2>2, <2>3, InputsDiffer DEF IInv
<1> HIDE DEF scope, stale, set
<1> QED
  BY <1>1, <1>2, <1>3, <1>4, SourcesOthers

LEMMA EditProposalOthers ==
  ASSUME IInv, NEW r \in Row, EditProposal(r)
  PROVE  OthersInv'
<1>1. /\ work' = [at |-> "open", row |-> r, todo |-> {}, text |-> Nothing, stale |-> FALSE]
      /\ before' = [row |-> row, candidate |-> candidate, authorized |-> authorized, edited |-> edited,
                    captures |-> captures, renders |-> renders, asked |-> {}]
      /\ UNCHANGED <<row, candidate, authorized, captures, renders>>
  BY DEF EditProposal, Begin, Idle, Now, data
<1>2. StandInv'
  BY <1>1 DEF StandInv, Stands, Dispatching
<1>3. KeepInv'
  BY <1>1 DEF KeepInv, Untouched
<1> QED
  BY <1>2, <1>3 DEF OthersInv

-----------------------------------------------------------------------------
(* A dispatch goes on and ends                                             *)

\* what the next state leaves of the rows
StandsAfter == \A r \in Row \ before.asked : Stands(row'[r], before.row[r])
KeepsAfter ==
  \A r \in Row \ (before.asked \cup {work.row}) :
    InputsOf(r)' = InputsBefore(r) =>
      <<row'[r], captures'[r], renders'[r]>> = <<before.row[r], before.captures[r], before.renders[r]>>
After == StandsAfter /\ KeepsAfter

\* A step on the row of the dispatch.
LEMMA OneRowAfter ==
  ASSUME OthersInv, Dispatching, UNCHANGED <<candidate, authorized>>,
         \A q \in Row \ {work.row} :
           row'[q] = row[q] /\ captures'[q] = captures[q] /\ renders'[q] = renders[q],
         work.row \in Row \ before.asked => Stands(row'[work.row], before.row[work.row])
  PROVE  After
<1>1. \A r \in Row : InputsOf(r)' = InputsOf(r)
  BY DEF InputsOf
<1>2. StandsAfter
  BY DEF OthersInv, StandInv, StandsAfter
<1>3. KeepsAfter
  BY <1>1 DEF OthersInv, KeepInv, Untouched, KeepsAfter
<1> QED
  BY <1>2, <1>3 DEF After

\* No dispatch is in progress.
LEMMA QuietOthers ==
  ASSUME before' = Nothing, work'.at \in {"idle", "closed"}
  PROVE  OthersInv'
  BY DEF OthersInv, StandInv, KeepInv, Dispatching

\* The dispatch ends.
LEMMA ReturnOthers ==
  ASSUME before' = Nothing, work' = Idle
  PROVE  OthersInv'
  BY QuietOthers DEF Idle

\* The dispatch goes on with another point, and with its rows as they are.
LEMMA StayOthers ==
  ASSUME IInv, OthersInv, Dispatching, UNCHANGED <<row, candidate, authorized, before>>,
         \A q \in Row \ {work.row} : captures'[q] = captures[q] /\ renders'[q] = renders[q],
         work'.row = work.row, work'.todo = work.todo,
         work'.at = work.at \/ (work.at = "open" /\ work'.at = "editing")
  PROVE  After /\ OthersInv'
<1>1. \A r \in Row : InputsOf(r)' = InputsOf(r) /\ InputsBefore(r)' = InputsBefore(r)
  BY DEF InputsOf, InputsBefore
<1>2. After
  BY OneRowAfter DEF OthersInv, StandInv
<1>3. StandInv'
  BY DEF OthersInv, StandInv, Dispatching
<1>4. KeepInv'
  BY <1>1 DEF OthersInv, KeepInv, Untouched, Dispatching
<1> QED
  BY <1>2, <1>3, <1>4 DEF OthersInv

\* The command on a row settles it or materializes it.
LEMMA RowDoneOthers ==
  ASSUME IInv, OthersInv, SettleRow \/ MaterializeRow
  PROVE  After /\ OthersInv'
<1> DEFINE r == work.row
<1>1. /\ work.at \in {"apply", "review"} /\ r \in Row /\ Dispatching
      /\ UNCHANGED <<candidate, authorized>> /\ work' = Idle /\ before' = Nothing
  BY DEF SettleRow, MaterializeRow, IInv, WorkInv, Dispatching, Return
<1>2. OthersInv'
  BY <1>1, ReturnOthers
<1>3. row[r] \in RowState /\ row \in [Row -> RowState]
  BY <1>1, Types DEF IInv
<1>4. r \notin before.asked => row[r].approved = before.row[r].approved
  BY <1>1 DEF OthersInv, StandInv
<1>5. CASE SettleRow
  <2>1. /\ \A q \in Row \ {r} : row'[q] = row[q]
        /\ row'[r].approved = (row[r].approved /\ Approvable(r)) /\ row'[r].proposal = row[r].proposal
        /\ UNCHANGED <<captures, renders>>
    BY <1>1, <1>3, <1>5 DEF SettleRow, RowState
  <2>2. r \notin before.asked => Stands(row'[r], before.row[r])
    BY <1>3, <1>4, <2>1 DEF Approvable, Stands, RowState
  <2> QED
    BY <1>1, <1>2, <2>1, <2>2, OneRowAfter
<1>6. CASE MaterializeRow
  <2>1. PICK end \in Attempts(r) :
          /\ row' = [row EXCEPT
               ![r].proposal   = end.proposal,
               ![r].approved   = @ /\ (end.end = "ok" /\ ~cancelled) /\ ~end.proposal.noop,
               ![r].diagnostic = IF end.end = "ok" /\ ~cancelled THEN "none"
                                 ELSE IF end.end = "ok" THEN "interrupted" ELSE end.end]
          /\ KeepCaches(r, end)
    BY <1>6 DEF MaterializeRow
  <2>2. GoodEnd(r, end)
    BY <1>1, AttemptsEndWell DEF IInv
  <2>3. /\ \A q \in Row \ {r} : row'[q] = row[q] /\ captures'[q] = captures[q] /\ renders'[q] = renders[q]
        /\ row'[r].approved = (row[r].approved /\ (end.end = "ok" /\ ~cancelled) /\ ~end.proposal.noop)
        /\ row'[r].proposal = end.proposal
        /\ row'[r].diagnostic = IF end.end = "ok" /\ ~cancelled THEN "none"
                                ELSE IF end.end = "ok" THEN "interrupted" ELSE end.end
    BY <1>1, <1>3, <2>1, Types DEF RowState, KeepCaches, IInv
  <2>4. end.end = "ok" => end.proposal # Nothing
    BY <2>2, NothingAssumption DEF GoodEnd
  <2>5. r \notin before.asked => Stands(row'[r], before.row[r])
    BY <1>3, <1>4, <2>2, <2>3, <2>4 DEF GoodEnd, Stands, RowState
  <2> QED
    BY <1>1, <1>2, <2>3, <2>5, OneRowAfter
<1> QED
  BY <1>5, <1>6

\* One of the rows whose inputs changed is materialized again.
LEMMA MaterializeNextOthers ==
  ASSUME IInv, OthersInv, NEW q \in Row, MaterializeNext(q)
  PROVE  (Dispatching => After) /\ OthersInv'
<1>1. /\ work.at \in {"opening", "rows", "others"} /\ q \in work.todo
      /\ work' = [work EXCEPT !.todo = @ \ {q}] /\ UNCHANGED <<candidate, authorized, before>>
  BY DEF MaterializeNext
<1>2. work'.at = work.at /\ work'.row = work.row /\ work'.todo = work.todo \ {q}
  BY <1>1, Types DEF IInv, WorkState
<1>3. \A r \in Row : InputsOf(r)' = InputsOf(r) /\ InputsBefore(r)' = InputsBefore(r)
  BY <1>1 DEF InputsOf, InputsBefore
<1>4. PICK end \in Attempts(q) :
        /\ row' = [row EXCEPT
             ![q].proposal   = IF end.end = "ok" /\ ~cancelled THEN end.proposal ELSE Nothing,
             ![q].approved   = (end.end = "ok" /\ ~cancelled) /\ ~end.proposal.noop,
             ![q].diagnostic = IF end.end = "ok" /\ ~cancelled THEN "none"
                               ELSE IF end.end = "ok" THEN "interrupted" ELSE end.end]
        /\ KeepCaches(q, end)
  BY DEF MaterializeNext
<1>5. GoodEnd(q, end) /\ (end.end = "ok" => end.proposal # Nothing)
  BY AttemptsEndWell, NothingAssumption DEF IInv, GoodEnd
<1>6. /\ \A r \in Row \ {q} : row'[r] = row[r] /\ captures'[r] = captures[r] /\ renders'[r] = renders[r]
      /\ row'[q].proposal = IF end.end = "ok" /\ ~cancelled THEN end.proposal ELSE Nothing
      /\ row'[q].approved = ((end.end = "ok" /\ ~cancelled) /\ ~end.proposal.noop)
      /\ row'[q].diagnostic = IF end.end = "ok" /\ ~cancelled THEN "none"
                              ELSE IF end.end = "ok" THEN "interrupted" ELSE end.end
  BY <1>4, Types DEF IInv, RowState, KeepCaches
<1>7. CASE ~Dispatching
  BY <1>1, <1>2, <1>7 DEF Dispatching, OthersInv, StandInv, KeepInv
<1>8. CASE Dispatching
  <2>1. /\ q \notin before.asked => before.row[q].approved
        /\ work.at = "others" => work.row # q
        /\ q \notin before.asked \cup {work.row} => InputsOf(q) # InputsBefore(q)
    BY <1>1, <1>8 DEF OthersInv, StandInv, KeepInv
  <2>2. q \notin before.asked => Stands(row'[q], before.row[q])
    <3> SUFFICES ASSUME q \notin before.asked, row'[q].approved # before.row[q].approved
                 PROVE  row'[q].diagnostic # "none" \/ (row'[q].proposal # Nothing /\ row'[q].proposal.noop)
      BY <2>1 DEF Stands
    <3>1. CASE end.end = "ok" /\ ~cancelled
      BY <1>5, <1>6, <2>1, <3>1
    <3>2. CASE ~(end.end = "ok" /\ ~cancelled)
      BY <1>5, <1>6, <3>2 DEF GoodEnd
    <3> QED
      BY <3>1, <3>2
  <2>3. StandsAfter
    BY <1>6, <1>8, <2>2 DEF StandsAfter, OthersInv, StandInv
  <2>4. KeepsAfter
    BY <1>3, <1>6, <1>8, <2>1 DEF KeepsAfter, OthersInv, KeepInv, Untouched
  <2>5. StandInv'
    BY <1>1, <1>2, <1>6, <1>8, <2>1, <2>3 DEF StandsAfter, OthersInv, StandInv, Dispatching
  <2>6. KeepInv'
    BY <1>1, <1>2, <1>3, <1>8, <2>4 DEF KeepsAfter, OthersInv, KeepInv, Untouched, Dispatching
  <2> QED
    BY <2>3, <2>4, <2>5, <2>6 DEF After, OthersInv
<1> QED
  BY <1>7, <1>8

\* The attempt fails: only its row has changed, and shows it.
LEMMA FailEditOthers ==
  ASSUME IInv, OthersInv, work.at \in {"open", "editing", "others"},
         NEW diagnostic \in {"failed", "conflict"}, NEW r, r = work.row, FailEdit(r, diagnostic),
         UNCHANGED <<candidate, authorized>>, StartInv,
         \A q \in Row \ {r} : captures'[q] = captures[q] /\ renders'[q] = renders[q]
  PROVE  After /\ OthersInv'
<1>1. Dispatching /\ r \in Row /\ work' = Idle /\ before' = Nothing
  BY DEF IInv, WorkInv, Dispatching, FailEdit, EndEdit, Return
<1>2. row[r] \in RowState /\ row \in [Row -> RowState]
  BY <1>1, Types DEF IInv
<1>3. /\ \A q \in Row \ {r} : row'[q] = row[q]
      /\ row'[r].approved = FALSE /\ row'[r].diagnostic = diagnostic
  BY <1>1, <1>2 DEF FailEdit, RowState
<1>4. r \notin before.asked => row[r].approved = before.row[r].approved
  BY <1>1 DEF StartInv, OthersInv, StandInv
<1>5. r \notin before.asked => Stands(row'[r], before.row[r])
  BY <1>2, <1>3, <1>4 DEF Stands, RowState
<1> QED
  BY <1>1, <1>3, <1>5, OneRowAfter, ReturnOthers

\* The attempt is cancelled: every row is as it was.
LEMMA CancelEditOthers ==
  ASSUME CancelEdit
  PROVE  After /\ OthersInv'
<1>1. row' = before.row /\ captures' = before.captures /\ renders' = before.renders
      /\ work' = Idle /\ before' = Nothing
  BY DEF CancelEdit, EndEdit, Return
<1> QED
  BY <1>1, ReturnOthers DEF After, StandsAfter, KeepsAfter, Stands

LEMMA OpenEditorOthers ==
  ASSUME IInv, OthersInv, OpenEditor
  PROVE  After /\ OthersInv'
<1>1. /\ work.at = "open" /\ UNCHANGED <<data, before>>
      /\ \E text : work' = [work EXCEPT !.at = "editing", !.text = text]
  BY DEF OpenEditor
<1>2. work'.at = "editing" /\ work'.row = work.row /\ work'.todo = work.todo
  BY <1>1, Types DEF IInv, WorkState
<1> QED
  BY <1>1, <1>2, StayOthers DEF data, Dispatching

LEMMA MaterializeFirstOthers ==
  ASSUME IInv, OthersInv, StartInv, MaterializeFirst
  PROVE  After /\ OthersInv'
<1> DEFINE r == work.row
<1>1. work.at = "open" /\ r \in Row /\ Dispatching
  BY DEF MaterializeFirst, IInv, WorkInv, Dispatching
<1>2. PICK end \in Attempts(r) :
       \/ /\ end.end \in {"ok", "conflict"}
          /\ \E text \in IF end.end = "ok" THEN {end.proposal.repository} ELSE {Conflict, Kept} :
               work' = [work EXCEPT !.at = "editing", !.text = text]
          /\ KeepCaches(r, end)
          /\ UNCHANGED <<row, candidate, authorized, edited, cancelled, dropped, attended, before>>
       \/ /\ end.end = "failed"
          /\ KeepCaches(r, end)
          /\ FailEdit(r, "failed")
          /\ UNCHANGED <<candidate, authorized, edited>>
       \/ end.end = "interrupted" /\ CancelEdit
  BY DEF MaterializeFirst
<1>3. KeepCaches(r, end) =>
        \A q \in Row \ {r} : captures'[q] = captures[q] /\ renders'[q] = renders[q]
  BY Types DEF KeepCaches, IInv
<1>4. CASE /\ \E text : work' = [work EXCEPT !.at = "editing", !.text = text]
           /\ KeepCaches(r, end)
           /\ UNCHANGED <<row, candidate, authorized, before>>
  <2>1. work'.at = "editing" /\ work'.row = work.row /\ work'.todo = work.todo
    BY <1>4, Types DEF IInv, WorkState
  <2> QED
    BY <1>1, <1>3, <1>4, <2>1, StayOthers
<1>5. CASE KeepCaches(r, end) /\ FailEdit(r, "failed") /\ UNCHANGED <<candidate, authorized>>
  BY <1>1, <1>3, <1>5, FailEditOthers
<1>6. CASE CancelEdit
  BY <1>6, CancelEditOthers
<1> QED
  BY <1>2, <1>4, <1>5, <1>6

\* The attempt is dropped, breaks or ends without a change.
LEMMA EndEditOthers ==
  ASSUME IInv, OthersInv, StartInv, DropEdit \/ BreakEdit \/ QuitEdit
  PROVE  After /\ OthersInv'
<1>1. CASE DropEdit
  BY <1>1, CancelEditOthers DEF DropEdit
<1>2. CASE BreakEdit
  BY <1>2, FailEditOthers DEF BreakEdit
<1>3. CASE QuitEdit
  <2>1. Dispatching /\ UNCHANGED data /\ work' = Idle /\ before' = Nothing
    BY <1>3 DEF QuitEdit, EndEdit, Return, Dispatching
  <2>2. \A r \in Row \ before.asked : Stands(row'[r], before.row[r])
    BY <2>1 DEF OthersInv, StandInv, data
  <2> QED
    BY <2>1, <2>2, OneRowAfter, ReturnOthers DEF data
<1> QED
  BY <1>1, <1>2, <1>3

\* The saved edit makes the rows stale that are given other bytes than before.
LEMMA SaveEditOthers ==
  ASSUME IInv, OthersInv, StartInv, NEW text, NEW saved, SaveEdit(text, saved)
  PROVE  After /\ OthersInv'
<1> DEFINE r        == work.row
           staged   == [s \in Source |-> IF s \in Refs[r] THEN saved[s] ELSE candidate[s]]
           affected == References(Authorized({s \in Source : staged[s] # candidate[s]}))
           chosen   == [row EXCEPT ![r].intent = "editor"]
<1>1. /\ work.at = "editing" /\ candidate' = staged
      /\ row' = Invalidated(chosen, affected \ {r}) /\ ClearCaches(affected)
      /\ work' = [work EXCEPT !.at = "others", !.text = text, !.stale = r \in affected,
                              !.todo = Approved(row, affected \ {r})]
      /\ UNCHANGED <<authorized, before>>
  BY DEF SaveEdit
<1>2. /\ r \in Row /\ Dispatching /\ row \in [Row -> RowState]
      /\ row = before.row /\ candidate = before.candidate /\ authorized = before.authorized
  BY <1>1, Types DEF IInv, WorkInv, StartInv, Dispatching
<1>3. chosen \in [Row -> RowState] /\ chosen[r].approved = row[r].approved
      /\ \A q \in Row \ {r} : chosen[q] = row[q]
  BY <1>2 DEF RowState, Intent
<1>4. work'.at = "others" /\ work'.row = r /\ work'.todo = Approved(row, affected \ {r})
  <2> HIDE DEF affected
  <2> QED
    BY <1>1, Types DEF IInv, WorkState
<1>5. ASSUME NEW q \in affected
      PROVE  q \in Row /\ InputsOf(q)' # InputsBefore(q)
  <2>1. PICK s \in Refs[q] : s \in authorized /\ staged[s] # candidate[s]
    BY <1>5 DEF References, Authorized
  <2>2. q \in Row
    BY <1>5 DEF References
  <2>3. InputsOf(q)'[s] = staged[s]
    BY <1>1, <2>1 DEF InputsOf
  <2>4. InputsBefore(q)[s] = candidate[s]
    BY <1>2, <2>1 DEF InputsBefore, InputsIn
  <2> QED
    BY <2>1, <2>2, <2>3, <2>4
<1> HIDE DEF staged, affected, chosen
<1>6. row'[r] = chosen[r] /\ \A q \in Row \ affected : q # r => row'[q] = row[q]
  BY <1>1, <1>2, <1>3 DEF Invalidated
<1>7. \A q \in Row : row'[q].approved = row[q].approved
  <2> TAKE q \in Row
  <2>1. CASE q \in affected \ {r}
    <3>1. row'[q] = [chosen[q] EXCEPT !.proposal = Nothing] /\ chosen[q] = row[q] /\ row[q] \in RowState
      BY <1>1, <1>2, <1>3, <2>1 DEF Invalidated
    <3> QED
      BY <3>1 DEF RowState
  <2>2. CASE q \notin affected \ {r}
    BY <1>3, <1>6, <2>2
  <2> QED
    BY <2>1, <2>2
<1>8. StandsAfter
  BY <1>2, <1>7 DEF StandsAfter, Stands
<1>9. ASSUME NEW q \in Row \ affected, q # r, q \notin before.asked
      PROVE  /\ row'[q] = before.row[q] /\ captures'[q] = before.captures[q]
             /\ renders'[q] = before.renders[q]
  <2>1. InputsOf(q) = InputsBefore(q)
    BY <1>2 DEF InputsOf, InputsBefore, InputsIn
  <2>2. Untouched(q)
    BY <1>2, <1>9, <2>1 DEF OthersInv, KeepInv
  <2> QED
    BY <1>1, <1>2, <1>6, <1>9, <2>2 DEF Untouched, ClearCaches
<1>10. KeepsAfter
  BY <1>2, <1>5, <1>9 DEF KeepsAfter
<1>11. \A q \in Row : InputsBefore(q)' = InputsBefore(q)
  BY <1>1 DEF InputsBefore
<1>12. StandInv'
  BY <1>1, <1>2, <1>4, <1>7, <1>8 DEF StandsAfter, StandInv, Dispatching, Approved
<1>13. KeepInv'
  BY <1>1, <1>4, <1>5, <1>10, <1>11 DEF KeepsAfter, KeepInv, Untouched, Approved
<1> QED
  BY <1>8, <1>10, <1>12, <1>13 DEF After, OthersInv

\* The edited Proposal is accepted.
LEMMA AcceptEditOthers ==
  ASSUME IInv, OthersInv, work.at = "others", NEW r, r = work.row, NEW proposal, proposal # Nothing,
         AcceptEdit(r, proposal), UNCHANGED <<candidate, authorized>>,
         \A q \in Row \ {r} : captures'[q] = captures[q] /\ renders'[q] = renders[q]
  PROVE  After /\ OthersInv'
<1>1. Dispatching /\ r \in Row /\ work' = Idle /\ before' = Nothing
  BY DEF IInv, WorkInv, Dispatching, AcceptEdit, EndEdit, Return
<1>2. row[r] \in RowState /\ row \in [Row -> RowState]
  BY <1>1, Types DEF IInv
<1>3. /\ \A q \in Row \ {r} : row'[q] = row[q]
      /\ row'[r].approved = (row[r].approved /\ ~proposal.noop) /\ row'[r].proposal = proposal
  BY <1>1, <1>2 DEF AcceptEdit, RowState
<1>4. r \notin before.asked => row[r].approved = before.row[r].approved
  BY <1>1 DEF OthersInv, StandInv
<1>5. r \notin before.asked => Stands(row'[r], before.row[r])
  BY <1>2, <1>3, <1>4 DEF Stands, RowState
<1> QED
  BY <1>1, <1>3, <1>5, OneRowAfter, ReturnOthers

LEMMA ProjectEditOthers ==
  ASSUME IInv, OthersInv, ProjectEdit
  PROVE  After /\ OthersInv'
<1> DEFINE r == work.row
<1>1. work.at = "others" /\ r \in Row /\ work.at \notin {"open", "editing"}
  BY DEF ProjectEdit, IInv, WorkInv
<1>2. StartInv
  BY <1>1 DEF StartInv
<1>3. \A end : KeepCaches(r, end) =>
        \A q \in Row \ {r} : captures'[q] = captures[q] /\ renders'[q] = renders[q]
  BY Types DEF KeepCaches, IInv
<1>4. CASE /\ ReusesProposal(r) /\ AcceptEdit(r, row[r].proposal)
           /\ UNCHANGED <<captures, renders, candidate, authorized>>
  BY <1>1, <1>4, AcceptEditOthers DEF ReusesProposal
<1>5. ASSUME NEW end \in Attempts(r), KeepCaches(r, end), UNCHANGED <<candidate, authorized>>,
             \/ end.end = "ok" /\ AcceptEdit(r, end.proposal)
             \/ end.end \in {"failed", "conflict"} /\ FailEdit(r, end.end)
      PROVE  After /\ OthersInv'
  <2>1. end.end = "ok" => end.proposal # Nothing
    BY <1>1, AttemptsEndWell, NothingAssumption DEF IInv, GoodEnd
  <2>2. CASE end.end = "ok" /\ AcceptEdit(r, end.proposal)
    BY <1>1, <1>3, <1>5, <2>1, <2>2, AcceptEditOthers
  <2>3. CASE end.end \in {"failed", "conflict"} /\ FailEdit(r, end.end)
    BY <1>1, <1>2, <1>3, <1>5, <2>3, FailEditOthers
  <2> QED
    BY <1>5, <2>2, <2>3
<1>6. CASE CancelEdit
  BY <1>6, CancelEditOthers
<1> QED
  BY <1>4, <1>5, <1>6 DEF ProjectEdit

LEMMA RowsDoneOthers ==
  ASSUME OthersInv, RowsDone
  PROVE  After /\ OthersInv'
<1>1. Dispatching /\ UNCHANGED data /\ work' = Idle /\ before' = Nothing
  BY DEF RowsDone, Return, Dispatching
<1>2. \A r \in Row \ before.asked : Stands(row'[r], before.row[r])
  BY <1>1 DEF OthersInv, StandInv, data
<1> QED
  BY <1>1, <1>2, OneRowAfter, ReturnOthers DEF data

-----------------------------------------------------------------------------
(* The theorems                                                            *)

\* Every step of the worker, and with it the last one of a dispatch.
LEMMA WorkOthers ==
  ASSUME IInv, OthersInv, StartInv, Work
  PROVE  (Dispatching => After) /\ OthersInv'
<1>1. CASE SettleRow \/ MaterializeRow
  BY <1>1, RowDoneOthers
<1>2. CASE \E r \in Row : MaterializeNext(r)
  BY <1>2, MaterializeNextOthers
<1>3. CASE Opened
  BY <1>3 DEF Opened, Idle, Dispatching, OthersInv, StandInv, KeepInv
<1>4. CASE RowsDone
  BY <1>4, RowsDoneOthers
<1>5. CASE OpenEditor
  BY <1>5, OpenEditorOthers
<1>6. CASE MaterializeFirst
  BY <1>6, MaterializeFirstOthers
<1>7. CASE DropEdit \/ BreakEdit \/ QuitEdit
  BY <1>7, EndEditOthers
<1>8. CASE \E text \in {work.text} \cup {Saved(t) : t \in Text}, saved \in [Source -> Content] :
             SaveEdit(text, saved)
  BY <1>8, SaveEditOthers
<1>9. CASE ProjectEdit
  BY <1>9, ProjectEditOthers
<1> QED
  BY <1>1, <1>2, <1>3, <1>4, <1>5, <1>6, <1>7, <1>8, <1>9 DEF Work

LEMMA NextOthers ==
  ASSUME IInv, OthersInv, StartInv, [Next]_vars
  PROVE  OthersInv' /\ (Ends => After)
<1>1. before # Nothing => Dispatching
  BY DEF OthersInv, StandInv
<1>2. CASE Commands
  <2>1. work.at = "idle" /\ before = Nothing
    BY <1>1, <1>2 DEF Dispatching, Commands, SetApproval, SetIncluded, SetIntent, PrepareReview, Retry,
       AuthorizeReplacement, EditProposal, RowCommand, Begin, SetSourceApproval, BatchSetApproval,
       Execute, Abort
  <2>2. ASSUME \E r \in Row, b \in BOOLEAN : SetIncluded(r, b)
        PROVE  OthersInv'
    <3>1. before' = Nothing /\ work'.at = "idle"
      BY <2>1, <2>2 DEF SetIncluded
    <3> QED
      BY <3>1, QuietOthers
  <2>3. ASSUME Execute \/ Abort
        PROVE  OthersInv'
    <3>1. before' = Nothing /\ work' = [Idle EXCEPT !.at = "closed"]
      BY <2>1, <2>3 DEF Execute, Abort, Close
    <3> QED
      BY <3>1, QuietOthers DEF Idle
  <2>4. OthersInv'
    BY <1>2, <2>2, <2>3, RowCommandsOthers, EditProposalOthers, SetSourceApprovalOthers,
       BatchSetApprovalOthers DEF Commands
  <2> QED
    BY <2>1, <2>4 DEF Ends
<1>3. CASE Work
  BY <1>1, <1>3, WorkOthers DEF Ends
<1>4. CASE RequestCancel \/ RequestEditorCancel \/ DeckDrains \/ UNCHANGED vars
  <2>1. UNCHANGED <<data, work, before>>
    BY <1>4 DEF RequestCancel, RequestEditorCancel, DeckDrains, vars
  <2>2. CASE Dispatching
    BY <2>1, <2>2, StayOthers DEF data, Ends
  <2>3. CASE ~Dispatching
    BY <2>1, <2>3 DEF Dispatching, OthersInv, StandInv, KeepInv, Ends
  <2> QED
    BY <2>2, <2>3
<1> QED
  BY <1>2, <1>3, <1>4 DEF Next

LEMMA OthersInvariance == Spec => [](IInv /\ StartInv /\ OthersInv)
<1>1. Init => StartInv
  BY DEF Init, Idle, StartInv
<1>2. Init => OthersInv
  BY DEF Init, Idle, OthersInv, StandInv, KeepInv, Dispatching
<1>3. IInv /\ StartInv /\ [Next]_vars => StartInv'
  BY StartEstablished
<1>4. IInv /\ StartInv /\ OthersInv /\ [Next]_vars => OthersInv'
  BY NextOthers
<1> QED
  BY <1>1, <1>2, <1>3, <1>4, Invariance, PTL DEF Spec

\* Approval stands: a dispatch takes it from a row that it was not asked about only with a
\* failure of that row or because its Proposal now changes nothing, and gives none.
THEOREM ApprovalsStand == Spec => ApprovalStands
<1> DEFINE Stand == Ends => \A r \in Row \ before.asked : row'[r].approved # before.row[r].approved =>
       /\ before.row[r].approved
       /\ \/ row'[r].diagnostic # "none"
          \/ row'[r].proposal # Nothing /\ row'[r].proposal.noop
<1>1. IInv /\ StartInv /\ OthersInv /\ [Next]_vars => [Stand]_vars
  BY NextOthers DEF After, StandsAfter, Stands
<1> HIDE DEF Stand
<1>2. Spec => [][Stand]_vars
  BY <1>1, OthersInvariance, PTL DEF Spec
<1> QED
  BY <1>2 DEF Stand, ApprovalStands

\* A dispatch leaves the other rows, unless it changes their inputs, with their Proposals
\* and caches: an edit or an Approval runs no provider of a row it is not about.
THEOREM OtherRowsKeep == Spec => OtherRowsKeepTheirWork
<1> DEFINE Keep == Ends => \A r \in Row \ (before.asked \cup {work.row}) :
       InputsOf(r)' = [s \in Refs[r] |-> IF s \in before.authorized THEN before.candidate[s] ELSE Preimage] =>
         <<row'[r], captures'[r], renders'[r]>> = <<before.row[r], before.captures[r], before.renders[r]>>
<1>1. IInv /\ StartInv /\ OthersInv /\ [Next]_vars => [Keep]_vars
  BY NextOthers DEF After, KeepsAfter, InputsBefore, InputsIn
<1> HIDE DEF Keep
<1>2. Spec => [][Keep]_vars
  BY <1>1, OthersInvariance, PTL DEF Spec
<1> QED
  BY <1>2 DEF Keep, OtherRowsKeepTheirWork

=============================================================================
