------------------------- MODULE SyncLifecycleProofs -------------------------
(***************************************************************************)
(* Theorems about SyncLifecycle for any number of operations, any texts of *)
(* any number of hunks, and all four projections.  The inductive invariant *)
(* says who owns the manager, what an undisturbed operation may rely on    *)
(* from the moment it froze an endpoint, and which Base still counts.      *)
(***************************************************************************)
EXTENDS SyncLifecycle, TLAPS

\* Every variable and every field of a run holds a value of its kind.
Points == {"waiting", "locked", "guards", "opened", "source", "frozen", "review", "approved",
           "publishing", "recording", "done"}
Routes == {"no-route", "both", "pull-only", "push-only", "push-only-delete"}
AllIntents == {"none", "editor", "use-repository", "use-live", "merge"}
RunType ==
  [at : Points,
   op : {"push", "pull", "sync"}, policy : Policies \cup {"both"},
   route : Routes, source : State, live : State, intent : AllIntents,
   result : State, outcome : State, quiet : BOOLEAN, converged : BOOLEAN, kept : BOOLEAN]

TypeInv ==
  /\ source \in State /\ live \in [dangles : BOOLEAN, text : State]
  /\ live.dangles => live.text = Missing
  /\ base \in State \cup {None} /\ lock \in Operations \cup {None} /\ edits \in 0..Edits
  /\ setting \in [projection : Projections, policy : Policies, follow : Follows]
  /\ met \in [source : State, live : State] \cup {None}
  /\ runs \in [Operations -> RunType]

\* The manager has one owner, and it is the operation that is at work.
LockInv == \A o \in Operations : runs[o].at \notin {"waiting", "done"} <=> lock = o

\* A route without a Capture is of its policy; a unit that may have no Base has none.
RouteOf(o) ==
  /\ runs[o].at \in {"waiting", "locked", "guards"} => runs[o].route = "no-route"
  /\ runs[o].route = "push-only-delete" => runs[o].policy = "push-only-delete"
  /\ (lock = o /\ runs[o].at # "locked" /\ ~Eligible(runs[o].policy) /\ ~runs[o].kept) => base = None

\* What an undisturbed operation has frozen, and then applied, is what the files hold.
Unmoved(o)  == source = runs[o].source /\ live.text = runs[o].live /\ (live.dangles => FollowMissing(o))
Applied(o) == source = runs[o].result
QuietOf(o) ==
  /\ runs[o].at = "source" => source = runs[o].source
  /\ runs[o].at \in {"frozen", "review", "approved"} => Unmoved(o)
  /\ runs[o].at = "publishing" => Applied(o) /\ live.text = runs[o].live
  /\ runs[o].at = "recording" => Applied(o) /\ live.text = runs[o].outcome

\* What was approved is an outcome of its intent.
ApprovedOf(o) ==
  runs[o].at \in {"approved", "publishing", "recording"} =>
    /\ runs[o].intent \in Intents(o) /\ runs[o].result \in Results(o, runs[o].intent)
    /\ runs[o].outcome = Outcome(o, runs[o].result)

RunOf(o) == RouteOf(o) /\ (runs[o].quiet => QuietOf(o)) /\ ApprovedOf(o)

\* The Base that counts is the source as the files last met.
MetInv == met # None => base = met.source

IInv == TypeInv /\ LockInv /\ (\A o \in Operations : RunOf(o)) /\ MetInv

-----------------------------------------------------------------------------
(* Projections                                                              *)

LEMMA TextTypes ==
  ASSUME LifecycleAssumption, NEW s \in Text, NEW l \in Text, NEW b \in Text
  PROVE  /\ Expand(s) \in Text /\ Mix(s, l) \in Text /\ Blank \in Text /\ Patched(s, l) \in Text
         /\ [h \in Hunks |-> IF s[h] = b[h] THEN l[h] ELSE s[h]] \in Text
  BY DEF LifecycleAssumption, Text, Expand, Mix, Blank, Patched, Expression, Expanded

LEMMA RenderType ==
  ASSUME LifecycleAssumption, NEW s \in State, NEW l \in State
  PROVE  Render(s, l) \in State
<1>1. CASE s = Missing
  BY <1>1 DEF Render, State
<1>2. CASE s # Missing /\ setting.projection = "patch"
  BY <1>2, TextTypes DEF Render, State
<1>3. CASE s # Missing /\ setting.projection = "overlay" /\ l # Missing
  BY <1>3, TextTypes DEF Render, State
<1>4. CASE s # Missing /\ setting.projection # "patch" /\ ~(setting.projection = "overlay" /\ l # Missing)
  BY <1>4 DEF Render, State
<1> QED BY <1>1, <1>2, <1>3, <1>4

LEMMA CaptureType ==
  ASSUME LifecycleAssumption, NEW s \in State, NEW l \in State
  PROVE  Capture(s, l) \in State /\ (Capture(s, l) = Missing => l = Missing)
<1>0. Missing \notin Text
  BY DEF LifecycleAssumption
<1>1. CASE l = Missing
  BY <1>1 DEF Capture, State
<1>2. CASE l # Missing /\ setting.projection = "patch" /\ s # Missing
  BY <1>0, <1>2, TextTypes DEF Capture, State
<1>3. CASE l # Missing /\ setting.projection = "overlay"
  BY <1>0, <1>3, TextTypes DEF Capture, State
<1>4. CASE l # Missing /\ setting.projection = "lossy"
  BY <1>0, <1>4, TextTypes DEF Capture, State
<1>5. CASE /\ l # Missing /\ ~(setting.projection = "patch" /\ s # Missing)
           /\ setting.projection \notin {"overlay", "lossy"}
  BY <1>0, <1>5 DEF Capture, State
<1> QED BY <1>1, <1>2, <1>3, <1>4, <1>5

LEMMA MergeType ==
  ASSUME LifecycleAssumption, NEW b \in State, NEW s \in State, NEW c \in State, Merges(b, s, c)
  PROVE  Merge(b, s, c) \in State /\ (Merge(b, s, c) = Missing => Merge(b, s, c) = s \/ c = Missing)
<1>1. CASE s = c \/ s = b \/ c = b
  BY <1>1 DEF Merge
<1>2. CASE s # c /\ s # b /\ c # b
  <2>1. b \in Text /\ s \in Text /\ c \in Text /\ Missing \notin Text
    BY <1>2 DEF Merges, State, LifecycleAssumption
  <2>2. Merge(b, s, c) = [h \in Hunks |-> IF s[h] = b[h] THEN c[h] ELSE s[h]]
    BY <1>2 DEF Merge
  <2> QED BY <2>1, <2>2, TextTypes DEF State
<1> QED BY <1>1, <1>2

\* What is rendered renders to itself.
LEMMA RenderTwice ==
  ASSUME LifecycleAssumption, NEW s \in State, NEW l \in State
  PROVE  Render(s, Render(s, l)) = Render(s, l)
<1>0. Missing \notin Text
  BY DEF LifecycleAssumption
<1>1. CASE s = Missing \/ setting.projection # "overlay"
  BY <1>1 DEF Render
<1>2. CASE s # Missing /\ setting.projection = "overlay"
  <2>1. s \in Text
    BY <1>2 DEF State
  <2>2. CASE l = Missing
    <3>1. Render(s, l) = s
      BY <1>2, <2>2 DEF Render
    <3>2. Render(s, s) = Mix(s, s)
      BY <1>2 DEF Render
    <3>3. Mix(s, s) = s
      BY <2>1 DEF Mix, Text
    <3> QED BY <3>1, <3>2, <3>3
  <2>3. CASE l # Missing
    <3>1. l \in Text /\ Mix(s, l) \in Text
      BY <2>1, <2>3, TextTypes DEF State
    <3>2. Render(s, l) = Mix(s, l) /\ Render(s, Mix(s, l)) = Mix(s, Mix(s, l))
      BY <1>0, <1>2, <2>3, <3>1 DEF Render
    <3>3. Mix(s, Mix(s, l)) = Mix(s, l)
      BY DEF Mix
    <3> QED BY <3>2, <3>3
  <2> QED BY <2>2, <2>3
<1> QED BY <1>1, <1>2

\* What is captured agrees with the live file it was captured from.
LEMMA CapturesAgree ==
  ASSUME LifecycleAssumption, TypeInv, NEW s \in State, NEW l \in State, Captures(s, l)
  PROVE  Agree("pull-only", Capture(s, l), l)
<1>1. setting.projection \in {"raw", "patch", "overlay", "lossy"}
  BY DEF TypeInv, LifecycleAssumption
<1>2. CASE l = Missing
  BY <1>2 DEF Agree, Capture, Render
<1>3. CASE l # Missing /\ setting.projection = "patch"
  <2>1. s \in Text /\ l \in Text /\ Missing \notin Text /\ Expand(Patched(s, l)) = l
    BY <1>3 DEF Captures, State, LifecycleAssumption
  <2>2. Capture(s, l) = Patched(s, l) /\ Patched(s, l) # Missing
    BY <1>3, <2>1, TextTypes DEF Capture
  <2>3. Render(Patched(s, l), l) = l
    BY <1>3, <2>1, <2>2 DEF Render
  <2> QED BY <1>3, <2>2, <2>3 DEF Agree
<1>4. CASE l # Missing /\ setting.projection = "overlay"
  <2>1. \A t : Capture(t, l) = Mix(l, IF t = Missing THEN Blank ELSE t)
    BY <1>4 DEF Capture
  <2>2. \A t : Mix(l, Mix(l, t)) = Mix(l, t)
    BY DEF Mix
  <2>3. Capture(s, l) # Missing
    BY <1>4, CaptureType
  <2> QED BY <1>4, <2>1, <2>2, <2>3 DEF Agree
<1>5. CASE l # Missing /\ setting.projection \in {"raw", "lossy"}
  BY <1>5 DEF Agree, Capture
<1> QED BY <1>1, <1>2, <1>3, <1>4, <1>5

-----------------------------------------------------------------------------
(* Steps of one operation                                                   *)

\* An operation that moves owns the manager or finds it free, and so disturbs no other.
LEMMA OthersRest ==
  ASSUME LifecycleAssumption, IInv, NEW o \in Operations,
         lock \in {o, None}, lock' \in {o, None},
         runs'[o].at \notin {"waiting", "done"} <=> lock' = o,
         \A p \in Operations \ {o} : runs'[p] = runs[p],
         TypeInv', RunOf(o)', MetInv'
  PROVE  IInv'
<1>1. None \notin Operations
  BY DEF LifecycleAssumption
<1>2. ASSUME NEW p \in Operations, p # o
      PROVE  runs'[p].at \in {"waiting", "done"} /\ lock' # p /\ RunOf(p)'
  <2>1. runs[p].at \in {"waiting", "done"} /\ lock' # p /\ runs'[p] = runs[p]
    BY <1>1, <1>2 DEF IInv, LockInv
  <2>2. RouteOf(p)'
    BY <2>1 DEF IInv, RunOf, RouteOf
  <2>3. QuietOf(p)' /\ ApprovedOf(p)'
    BY <2>1 DEF QuietOf, ApprovedOf
  <2> QED BY <2>1, <2>2, <2>3 DEF RunOf
<1>3. LockInv'
  BY <1>2 DEF LockInv
<1> QED BY <1>2, <1>3 DEF IInv

\* Intents and their outcomes depend on the frozen endpoints, the route, the Base and the projection.
SameWork(o) ==
  /\ base' = base /\ setting'.projection = setting.projection
  /\ runs'[o].route = runs[o].route /\ runs'[o].source = runs[o].source /\ runs'[o].live = runs[o].live

LEMMA WorkStays ==
  ASSUME NEW o, SameWork(o)
  PROVE  /\ Intents(o)' = Intents(o) /\ \A i : Results(o, i)' = Results(o, i)
         /\ \A x : Outcome(o, x)' = Outcome(o, x)
<1>1. /\ \A x, y : Render(x, y)' = Render(x, y) /\ Capture(x, y)' = Capture(x, y)
      /\ \A x, y : Captures(x, y)' <=> Captures(x, y)
  BY DEF SameWork, Render, Capture, Captures
<1>2. Intents(o)' = Intents(o) /\ \A x : Outcome(o, x)' = Outcome(o, x)
  BY <1>1 DEF SameWork, Intents, Outcome
<1>3. \A i : Results(o, i)' = Results(o, i)
  BY <1>1 DEF SameWork, Results
<1> QED BY <1>2, <1>3

LEMMA ApprovedStays ==
  ASSUME NEW o, ApprovedOf(o), runs[o].at \in {"approved", "publishing", "recording"}, SameWork(o),
         runs'[o].intent = runs[o].intent, runs'[o].result = runs[o].result,
         runs'[o].outcome = runs[o].outcome
  PROVE  ApprovedOf(o)'
  BY WorkStays DEF ApprovedOf

LEMMA WaitingType ==
  ASSUME LifecycleAssumption
  PROVE  /\ Waiting \in RunType
         /\ \A c \in BOOLEAN : [Waiting EXCEPT !.at = "done", !.converged = c] \in RunType
  BY DEF Waiting, RunType, State, Points, Routes, AllIntents

\* What an action makes of a run is a run.
LEMMA Updates ==
  ASSUME NEW r \in RunType, NEW at \in Points
  PROVE  /\ [r EXCEPT !.at = at] \in RunType
         /\ \A op \in {"push", "pull", "sync"}, p \in Policies :
              [r EXCEPT !.at = at, !.op = op, !.policy = p] \in RunType
         /\ \A k \in BOOLEAN : [r EXCEPT !.at = at, !.kept = k] \in RunType
         /\ \A x \in Routes : [r EXCEPT !.at = at, !.route = x] \in RunType
         /\ \A x \in State : [r EXCEPT !.at = at, !.source = x] \in RunType
         /\ \A x \in State : [r EXCEPT !.at = at, !.live = x] \in RunType
         /\ \A i \in AllIntents, x, y \in State :
              [r EXCEPT !.at = at, !.intent = i, !.result = x, !.outcome = y] \in RunType
         /\ \A q \in BOOLEAN : [r EXCEPT !.quiet = q] \in RunType
<1>1. [r EXCEPT !.at = at] \in RunType
  BY DEF RunType
<1>2. ASSUME NEW op \in {"push", "pull", "sync"}, NEW p \in Policies
      PROVE  [r EXCEPT !.at = at, !.op = op, !.policy = p] \in RunType
  BY DEF RunType
<1>3. ASSUME NEW k \in BOOLEAN PROVE [r EXCEPT !.at = at, !.kept = k] \in RunType
  BY DEF RunType
<1>4. ASSUME NEW x \in Routes PROVE [r EXCEPT !.at = at, !.route = x] \in RunType
  BY DEF RunType
<1>5. ASSUME NEW x \in State PROVE [r EXCEPT !.at = at, !.source = x] \in RunType
  BY DEF RunType
<1>6. ASSUME NEW x \in State PROVE [r EXCEPT !.at = at, !.live = x] \in RunType
  BY DEF RunType
<1>7. ASSUME NEW i \in AllIntents, NEW x \in State, NEW y \in State
      PROVE  [r EXCEPT !.at = at, !.intent = i, !.result = x, !.outcome = y] \in RunType
  BY DEF RunType
<1>8. ASSUME NEW q \in BOOLEAN PROVE [r EXCEPT !.quiet = q] \in RunType
  BY DEF RunType
<1> QED BY <1>1, <1>2, <1>3, <1>4, <1>5, <1>6, <1>7, <1>8

\* An action changes the run of its own operation.
LEMMA OneRun ==
  ASSUME TypeInv, NEW o \in Operations, NEW r \in RunType, runs' = [runs EXCEPT ![o] = r]
  PROVE  /\ runs'[o] = r /\ runs' \in [Operations -> RunType]
         /\ \A p \in Operations \ {o} : runs'[p] = runs[p]
  BY DEF TypeInv

\* A run that is over promises nothing.
LEMMA EndedRuns ==
  ASSUME LifecycleAssumption, IInv, NEW o \in Operations, NEW c \in BOOLEAN, Ended(o, c), lock' # o
  PROVE  /\ runs' \in [Operations -> RunType] /\ \A p \in Operations \ {o} : runs'[p] = runs[p]
         /\ runs'[o].at = "done" /\ runs'[o].converged = c /\ RunOf(o)'
<1> DEFINE r == [Waiting EXCEPT !.at = "done", !.converged = c]
<1>1. runs' = [runs EXCEPT ![o] = r] /\ r \in RunType
  BY WaitingType DEF Ended
<1>2. /\ runs' \in [Operations -> RunType] /\ \A p \in Operations \ {o} : runs'[p] = runs[p]
      /\ runs'[o] = r
  <2> HIDE DEF r
  <2> QED BY <1>1, OneRun DEF IInv
<1>3. runs'[o].at = "done" /\ runs'[o].converged = c /\ runs'[o].route = "no-route"
  BY <1>2 DEF Waiting
<1> QED BY <1>2, <1>3 DEF RunOf, RouteOf, QuietOf, ApprovedOf

\* An operation at work owns the manager.
LEMMA AtWork ==
  ASSUME IInv, NEW o \in Operations, runs[o].at \notin {"waiting", "done"}
  PROVE  lock = o
  BY DEF IInv, LockInv

LEMMA StopStep ==
  ASSUME LifecycleAssumption, IInv, NEW o \in Operations, Stop(o)
  PROVE  IInv'
<1>1. lock = o /\ Ended(o, FALSE) /\ lock' = None /\ UNCHANGED <<source, live, base, setting, edits, met>>
  BY AtWork DEF Stop, Finish, Files
<1>2. None \notin Operations
  BY DEF LifecycleAssumption
<1>3. TypeInv' /\ MetInv'
  BY <1>1, <1>2, EndedRuns DEF IInv, TypeInv, MetInv
<1> QED BY <1>1, <1>2, <1>3, EndedRuns, OthersRest

\* A run that rests, while the files and its Base do, keeps what it has.
LEMMA RunStays ==
  ASSUME NEW o, RunOf(o), UNCHANGED <<source, live, base>>, lock' = lock \/ lock' # o,
         setting'.projection = setting.projection, setting'.follow = setting.follow,
         runs'[o] = runs[o]
  PROVE  RunOf(o)'
<1>1. RouteOf(o)'
  BY DEF RunOf, RouteOf
<1>2. runs'[o].quiet => QuietOf(o)'
  BY DEF RunOf, QuietOf, Unmoved, Applied, FollowMissing
<1>3. ApprovedOf(o)'
  <2>1. CASE runs[o].at \in {"approved", "publishing", "recording"}
    BY <2>1, ApprovedStays DEF RunOf, SameWork
  <2>2. CASE runs[o].at \notin {"approved", "publishing", "recording"}
    BY <2>2 DEF ApprovedOf
  <2> QED BY <2>1, <2>2
<1> QED BY <1>1, <1>2, <1>3 DEF RunOf

LEMMA BeginStep ==
  ASSUME LifecycleAssumption, IInv, NEW o \in Operations, NEW op \in {"push", "pull", "sync"}, Begin(o, op)
  PROVE  IInv'
<1>1. /\ Is(o, "waiting") /\ UNCHANGED <<source, live, base, setting, edits, met>> /\ None \notin Operations
      /\ setting.policy \in Policies /\ runs \in [Operations -> RunType]
  BY DEF Begin, Files, LifecycleAssumption, IInv, TypeInv
<1>2. CASE lock = None
  <2>1. lock' = o /\ runs' = [runs EXCEPT ![o].at = "locked", ![o].op = op, ![o].policy = setting.policy]
    BY <1>2 DEF Begin
  <2> DEFINE r == [runs[o] EXCEPT !.at = "locked", !.op = op, !.policy = setting.policy]
  <2>2. /\ runs'[o] = r /\ runs' \in [Operations -> RunType] /\ \A p \in Operations \ {o} : runs'[p] = runs[p]
    <3>1. r \in RunType
      BY <1>1, Updates DEF Points
    <3>2. runs' = [runs EXCEPT ![o] = r]
      BY <1>1, <2>1
    <3> HIDE DEF r
    <3> QED BY <3>1, <3>2, OneRun DEF IInv
  <2>3. runs'[o].at = "locked" /\ runs'[o].route = "no-route"
    BY <1>1, <2>2 DEF IInv, RunOf, RouteOf, Is, RunType
  <2>4. RunOf(o)'
    BY <2>3 DEF RunOf, RouteOf, QuietOf, ApprovedOf
  <2>5. TypeInv' /\ MetInv'
    BY <1>1, <2>1, <2>2 DEF IInv, TypeInv, MetInv
  <2> QED BY <1>2, <2>1, <2>2, <2>3, <2>4, <2>5, OthersRest
<1>3. CASE lock # None
  <2>1. lock' = lock /\ Ended(o, FALSE) /\ lock # o
    BY <1>1, <1>3 DEF Begin, Is, IInv, LockInv
  <2>2. TypeInv' /\ MetInv'
    BY <1>1, <2>1, EndedRuns DEF IInv, TypeInv, MetInv
  <2>3. \A p \in Operations : RunOf(p)'
    BY <1>1, <2>1, EndedRuns, RunStays DEF IInv
  <2>4. LockInv'
    BY <2>1, EndedRuns DEF IInv, LockInv
  <2> QED BY <2>2, <2>3, <2>4 DEF IInv
<1> QED BY <1>2, <1>3

LEMMA DiscardStep ==
  ASSUME LifecycleAssumption, IInv, NEW o \in Operations, NEW saved \in BOOLEAN, Discard(o, saved)
  PROVE  IInv'
<1> DEFINE k == ~Eligible(runs[o].policy) /\ ~saved
           r == [runs[o] EXCEPT !.at = "guards", !.kept = k]
<1>1. /\ runs[o].at = "locked" /\ lock = o /\ lock' = lock /\ UNCHANGED <<source, live, setting, edits>>
      /\ runs[o] \in RunType /\ runs' = [runs EXCEPT ![o] = r]
  BY AtWork DEF Discard, Is, Files, IInv, TypeInv
<1>2. r \in RunType /\ r.at = "guards" /\ r.kept = k /\ r.policy = runs[o].policy /\ r.route = runs[o].route
  <2>1. r \in RunType
    BY <1>1, Updates DEF Points
  <2>2. r.at = "guards" /\ r.kept = k /\ r.policy = runs[o].policy /\ r.route = runs[o].route
    BY <1>1 DEF RunType
  <2> QED BY <2>1, <2>2
<1>3. IF Eligible(runs[o].policy) \/ ~saved THEN UNCHANGED <<base, met>> ELSE base' = None /\ met' = None
  BY DEF Discard
<1> HIDE DEF r
<1>4. /\ runs'[o] = r /\ runs' \in [Operations -> RunType] /\ \A p \in Operations \ {o} : runs'[p] = runs[p]
  BY <1>1, <1>2, OneRun DEF IInv
<1>5. RunOf(o)'
  <2>1. RouteOf(o)'
    BY <1>1, <1>2, <1>3, <1>4 DEF IInv, RunOf, RouteOf
  <2> QED BY <1>2, <1>4, <2>1 DEF RunOf, QuietOf, ApprovedOf
<1>6. TypeInv' /\ MetInv'
  BY <1>1, <1>3, <1>4 DEF IInv, TypeInv, MetInv
<1> QED BY <1>1, <1>2, <1>4, <1>5, <1>6, OthersRest

LEMMA GuardStep ==
  ASSUME LifecycleAssumption, IInv, NEW o \in Operations, NEW admitted \in SUBSET {"push", "pull"},
         Guard(o, admitted)
  PROVE  IInv'
<1>1. /\ runs[o].at = "guards" /\ lock = o /\ UNCHANGED <<source, live, base, setting, edits, met>>
      /\ runs[o] \in RunType
  BY AtWork DEF Guard, Is, Files, IInv, TypeInv
<1>2. CASE admitted = {}
  <2>1. Stop(o)
    BY <1>1, <1>2 DEF Guard, Stop, Files
  <2> QED BY <2>1, StopStep
<1>3. CASE admitted # {}
  <2> DEFINE route == Route(runs[o].policy, admitted)
             r == [runs[o] EXCEPT !.at = "opened", !.route = route]
  <2>1. lock' = lock /\ runs' = [runs EXCEPT ![o] = r]
    BY <1>3 DEF Guard
  <2>2. route \in Routes /\ (route = "push-only-delete" => runs[o].policy = "push-only-delete")
    BY <1>3 DEF Route, Routes
  <2>3. /\ r \in RunType /\ r.at = "opened" /\ r.route = route
        /\ r.policy = runs[o].policy /\ r.kept = runs[o].kept
    <3>1. r \in RunType
      BY <1>1, <2>2, Updates DEF Points
    <3>2. r.at = "opened" /\ r.route = route /\ r.policy = runs[o].policy /\ r.kept = runs[o].kept
      BY <1>1, <2>2 DEF RunType
    <3> QED BY <3>1, <3>2
  <2> HIDE DEF r, route
  <2>4. /\ runs'[o] = r /\ runs' \in [Operations -> RunType] /\ \A p \in Operations \ {o} : runs'[p] = runs[p]
    BY <2>1, <2>3, OneRun DEF IInv
  <2>5. RunOf(o)'
    <3>1. RouteOf(o)'
      BY <1>1, <2>1, <2>2, <2>3, <2>4 DEF IInv, RunOf, RouteOf
    <3> QED BY <2>3, <2>4, <3>1 DEF RunOf, QuietOf, ApprovedOf
  <2>6. TypeInv' /\ MetInv'
    BY <1>1, <2>1, <2>4 DEF IInv, TypeInv, MetInv
  <2> QED BY <1>1, <2>1, <2>3, <2>4, <2>5, <2>6, OthersRest
<1> QED BY <1>2, <1>3

\* What stays of a run whose files, Base and setting rest while it goes on.
LEMMA GoesOn ==
  ASSUME LifecycleAssumption, IInv, NEW o \in Operations, NEW r \in RunType,
         runs[o].at \notin {"waiting", "locked", "guards", "done"},
         r.at \notin {"waiting", "locked", "guards", "done"},
         runs' = [runs EXCEPT ![o] = r], r.route = runs[o].route, r.policy = runs[o].policy,
         r.kept = runs[o].kept,
         UNCHANGED <<lock, base, setting, edits>>, met' \in {met, None}, source' \in State,
         live' \in [dangles : BOOLEAN, text : State], live'.dangles => live'.text = Missing,
         runs'[o] = r => (r.quiet => QuietOf(o)') /\ ApprovedOf(o)'
  PROVE  IInv'
<1>1. lock = o
  BY AtWork
<1>2. /\ runs'[o] = r /\ runs' \in [Operations -> RunType] /\ \A p \in Operations \ {o} : runs'[p] = runs[p]
  BY OneRun DEF IInv
<1>3. RouteOf(o)'
  BY <1>1, <1>2 DEF IInv, RunOf, RouteOf
<1>4. TypeInv' /\ MetInv'
  BY <1>2 DEF IInv, TypeInv, MetInv
<1> QED BY <1>1, <1>2, <1>3, <1>4, OthersRest DEF RunOf

LEMMA FreezeSourceStep ==
  ASSUME LifecycleAssumption, IInv, NEW o \in Operations, FreezeSource(o)
  PROVE  IInv'
<1> DEFINE r == [runs[o] EXCEPT !.at = "source", !.source = source]
<1>1. /\ runs[o].at = "opened" /\ UNCHANGED <<source, live, base, setting, lock, edits, met>>
      /\ runs[o] \in RunType /\ runs' = [runs EXCEPT ![o] = r] /\ source \in State
  BY DEF FreezeSource, Is, Files, IInv, TypeInv
<1>2. /\ r \in RunType /\ r.at = "source" /\ r.source = source /\ r.policy = runs[o].policy
      /\ r.kept = runs[o].kept /\ r.route = runs[o].route
  <2>1. r \in RunType
    BY <1>1, Updates DEF Points
  <2>2. /\ r.at = "source" /\ r.source = source /\ r.policy = runs[o].policy
        /\ r.kept = runs[o].kept /\ r.route = runs[o].route
    BY <1>1 DEF RunType
  <2> QED BY <2>1, <2>2
<1> HIDE DEF r
<1>3. runs'[o] = r => QuietOf(o)' /\ ApprovedOf(o)'
  BY <1>1, <1>2 DEF QuietOf, ApprovedOf
<1> QED BY <1>1, <1>2, <1>3, GoesOn DEF IInv, TypeInv

LEMMA FreezeLiveStep ==
  ASSUME LifecycleAssumption, IInv, NEW o \in Operations, FreezeLive(o)
  PROVE  IInv'
<1>1. /\ runs[o].at = "source" /\ UNCHANGED <<source, live, base, setting, edits, met>>
      /\ runs[o] \in RunType /\ live.text \in State /\ setting' = setting
  BY DEF FreezeLive, Is, Files, IInv, TypeInv
<1>2. CASE live.dangles /\ ~FollowMissing(o)
  <2>1. Stop(o)
    BY <1>1, <1>2 DEF FreezeLive, Stop, Files
  <2> QED BY <2>1, StopStep
<1>3. CASE ~(live.dangles /\ ~FollowMissing(o))
  <2> DEFINE r == [runs[o] EXCEPT !.at = "frozen", !.live = live.text]
  <2>1. lock' = lock /\ runs' = [runs EXCEPT ![o] = r]
    BY <1>3 DEF FreezeLive
  <2>2. /\ r \in RunType /\ r.at = "frozen" /\ r.live = live.text /\ r.policy = runs[o].policy
        /\ r.source = runs[o].source /\ r.kept = runs[o].kept
        /\ r.route = runs[o].route /\ r.quiet = runs[o].quiet
    <3>1. r \in RunType
      BY <1>1, Updates DEF Points
    <3>2. /\ r.at = "frozen" /\ r.live = live.text /\ r.policy = runs[o].policy
          /\ r.source = runs[o].source /\ r.kept = runs[o].kept
          /\ r.route = runs[o].route /\ r.quiet = runs[o].quiet
      BY <1>1 DEF RunType
    <3> QED BY <3>1, <3>2
  <2> HIDE DEF r
  <2>3. runs'[o] = r => (r.quiet => QuietOf(o)') /\ ApprovedOf(o)'
    BY <1>1, <1>3, <2>2 DEF IInv, RunOf, QuietOf, ApprovedOf, Unmoved, FollowMissing
  <2> QED BY <1>1, <2>1, <2>2, <2>3, GoesOn DEF IInv, TypeInv
<1> QED BY <1>2, <1>3

LEMMA DriftsStep ==
  ASSUME LifecycleAssumption, IInv, NEW o \in Operations, Drifts(o)
  PROVE  IInv'
<1> DEFINE r == [runs[o] EXCEPT !.at = "review"]
<1>1. /\ runs[o].at = "frozen" /\ UNCHANGED <<source, live, base, setting, lock, edits, met>>
      /\ runs[o] \in RunType /\ runs' = [runs EXCEPT ![o] = r]
  BY DEF Drifts, Go, Is, Files, IInv, TypeInv
<1>2. /\ r \in RunType /\ r.at = "review" /\ r.source = runs[o].source /\ r.policy = runs[o].policy
      /\ r.live = runs[o].live /\ r.kept = runs[o].kept
      /\ r.route = runs[o].route /\ r.quiet = runs[o].quiet
  <2>1. r \in RunType
    BY <1>1, Updates DEF Points
  <2>2. /\ r.at = "review" /\ r.source = runs[o].source /\ r.policy = runs[o].policy
        /\ r.live = runs[o].live /\ r.kept = runs[o].kept
        /\ r.route = runs[o].route /\ r.quiet = runs[o].quiet
    BY <1>1 DEF RunType
  <2> QED BY <2>1, <2>2
<1> HIDE DEF r
<1>3. runs'[o] = r => (r.quiet => QuietOf(o)') /\ ApprovedOf(o)'
  BY <1>1, <1>2 DEF IInv, RunOf, QuietOf, ApprovedOf, Unmoved, FollowMissing
<1> QED BY <1>1, <1>2, <1>3, GoesOn DEF IInv, TypeInv

\* An intent comes to a repository outcome; that is Missing only if the source was, or if the
\* live file that was captured was.
LEMMA ResultTypes ==
  ASSUME LifecycleAssumption, IInv, NEW o \in Operations, NEW i \in Intents(o), NEW x \in Results(o, i)
  PROVE  /\ i \in AllIntents /\ x \in State /\ Outcome(o, x) \in State
         /\ (x = Missing =>
               (x = runs[o].source \/ (runs[o].live = Missing /\ runs[o].route \in {"both", "pull-only"})))
<1> DEFINE l == runs[o].live
           c == Capture(runs[o].source, l)
<1>1. runs[o] \in RunType
  BY DEF IInv, TypeInv
<1>2. runs[o].source \in State /\ l \in State /\ base \in State \cup {None} /\ runs[o].route \in Routes
  BY <1>1 DEF RunType, IInv, TypeInv
<1>3. c \in State /\ (c = Missing => l = Missing)
  BY <1>2, CaptureType
<1>4. /\ i \in {"editor", "use-repository", "use-live", "merge"}
      /\ i = "merge" => runs[o].route = "both" /\ base # None
      /\ i = "use-live" => runs[o].route \in {"both", "pull-only"}
  BY DEF Intents
<1>5. Missing \notin Texts /\ Texts \subseteq State
  BY DEF LifecycleAssumption, State
<1> HIDE DEF l, c
<1>6. \/ i = "use-repository" /\ x = runs[o].source
      \/ i = "editor" /\ x \in Texts
      \/ i = "use-live" /\ x = c
      \/ i = "merge" /\ Merges(base, runs[o].source, c) /\ x = Merge(base, runs[o].source, c)
  BY <1>4 DEF Results, c, l
<1>7. ASSUME i = "merge", Merges(base, runs[o].source, c), x = Merge(base, runs[o].source, c)
      PROVE  x \in State /\ (x = Missing => (x = runs[o].source \/ c = Missing))
  <2>1. base \in State
    BY <1>2, <1>4, <1>7
  <2> QED BY <1>2, <1>3, <1>7, <2>1, MergeType
<1>8. x \in State
  BY <1>2, <1>3, <1>5, <1>6, <1>7
<1>9. Outcome(o, x) \in State
  <2>1. Render(x, l) \in State /\ Missing \in State
    BY <1>2, <1>8, RenderType DEF State
  <2> QED BY <1>2, <2>1 DEF Outcome, l
<1>10. x = Missing =>
         (x = runs[o].source \/ (runs[o].live = Missing /\ runs[o].route \in {"both", "pull-only"}))
  BY <1>3, <1>4, <1>5, <1>6, <1>7, <1>2, MergeType DEF l
<1>11. i \in AllIntents
  BY <1>4 DEF AllIntents
<1> QED BY <1>8, <1>9, <1>10, <1>11

LEMMA ApproveStep ==
  ASSUME LifecycleAssumption, IInv, NEW o \in Operations, NEW i, Approve(o, i)
  PROVE  IInv'
<1>1. PICK x \in Results(o, i) :
        runs' = [runs EXCEPT ![o].at = "approved", ![o].intent = i, ![o].result = x,
                             ![o].outcome = Outcome(o, x)]
  BY DEF Approve
<1> DEFINE out == Outcome(o, x)
           r == [runs[o] EXCEPT !.at = "approved", !.intent = i, !.result = x, !.outcome = out]
<1>2. /\ runs[o].at = "review" /\ i \in Intents(o)
      /\ UNCHANGED <<source, live, base, setting, lock, edits, met>>
      /\ runs[o] \in RunType /\ runs' = [runs EXCEPT ![o] = r]
  BY <1>1 DEF Approve, Is, Files, IInv, TypeInv
<1>3. i \in AllIntents /\ x \in State /\ out \in State
  BY <1>2, ResultTypes
<1> HIDE DEF out
<1>4. /\ r \in RunType /\ r.at = "approved" /\ r.source = runs[o].source /\ r.policy = runs[o].policy
      /\ r.live = runs[o].live /\ r.kept = runs[o].kept
      /\ r.route = runs[o].route /\ r.quiet = runs[o].quiet
      /\ r.intent = i /\ r.result = x /\ r.outcome = out
  <2>1. r \in RunType
    BY <1>2, <1>3, Updates DEF Points
  <2>2. /\ r.at = "approved" /\ r.source = runs[o].source /\ r.policy = runs[o].policy
        /\ r.live = runs[o].live /\ r.kept = runs[o].kept
        /\ r.route = runs[o].route /\ r.quiet = runs[o].quiet
        /\ r.intent = i /\ r.result = x /\ r.outcome = out
    BY <1>2 DEF RunType
  <2> QED BY <2>1, <2>2
<1> HIDE DEF r
<1>5. runs'[o] = r /\ r.quiet => QuietOf(o)'
  BY <1>2, <1>4 DEF IInv, RunOf, QuietOf, Unmoved, FollowMissing
<1>6. runs'[o] = r => ApprovedOf(o)'
  BY <1>2, <1>4, WorkStays DEF SameWork, ApprovedOf, out
<1> QED BY <1>2, <1>4, <1>5, <1>6, GoesOn DEF IInv, TypeInv

\* Of a run that only goes on to another point.
LEMMA GoTo ==
  ASSUME IInv, NEW o \in Operations, NEW at \in Points, Go(o, at)
  PROVE  LET r == [runs[o] EXCEPT !.at = at] IN
         /\ runs' = [runs EXCEPT ![o] = r] /\ r \in RunType /\ r.at = at /\ r.source = runs[o].source
         /\ r.policy = runs[o].policy /\ r.live = runs[o].live /\ r.kept = runs[o].kept
         /\ r.route = runs[o].route /\ r.quiet = runs[o].quiet /\ r.intent = runs[o].intent
         /\ r.result = runs[o].result /\ r.outcome = runs[o].outcome
<1> DEFINE r == [runs[o] EXCEPT !.at = at]
<1>1. runs[o] \in RunType /\ runs' = [runs EXCEPT ![o] = r]
  BY DEF Go, IInv, TypeInv
<1>2. r \in RunType
  BY <1>1, Updates
<1>3. /\ r.at = at /\ r.source = runs[o].source
      /\ r.policy = runs[o].policy /\ r.live = runs[o].live /\ r.kept = runs[o].kept
      /\ r.route = runs[o].route /\ r.quiet = runs[o].quiet /\ r.intent = runs[o].intent
      /\ r.result = runs[o].result /\ r.outcome = runs[o].outcome
  BY <1>1 DEF RunType
<1> QED BY <1>1, <1>2, <1>3

LEMMA ApplySourceStep ==
  ASSUME LifecycleAssumption, IInv, NEW o \in Operations, ApplySource(o)
  PROVE  IInv'
<1> DEFINE at == IF Publishes(o) THEN "publishing" ELSE "recording"
<1>1. /\ runs[o].at = "approved" /\ UNCHANGED <<live, base, setting, lock, edits>> /\ Go(o, at)
      /\ source' = (IF Changed(o) THEN runs[o].result ELSE source) /\ met' \in {met, None}
      /\ at \in {"publishing", "recording"}
  BY DEF ApplySource, Is
<1>0. at \in Points
  BY <1>1 DEF Points
<1> HIDE DEF at
<1>2. runs[o] \in RunType /\ runs[o].result \in State /\ source' \in State
  BY <1>1 DEF IInv, TypeInv, RunType
<1> DEFINE r == [runs[o] EXCEPT !.at = at]
<1>3. /\ r \in RunType
      /\ runs' = [runs EXCEPT ![o] = r] /\ r.at = at /\ r.source = runs[o].source
      /\ r.policy = runs[o].policy /\ r.live = runs[o].live /\ r.kept = runs[o].kept
      /\ r.route = runs[o].route /\ r.quiet = runs[o].quiet /\ r.intent = runs[o].intent
      /\ r.result = runs[o].result /\ r.outcome = runs[o].outcome
  BY <1>1, <1>0, GoTo
<1> HIDE DEF r
<1>4. runs'[o] = r /\ r.quiet => QuietOf(o)'
  BY <1>1, <1>3 DEF IInv, RunOf, QuietOf, Unmoved, Applied, Changed, Publishes, at
<1>5. runs'[o] = r => ApprovedOf(o)'
  BY <1>1, <1>3, ApprovedStays DEF IInv, RunOf, SameWork
<1> QED BY <1>1, <1>2, <1>3, <1>4, <1>5, GoesOn DEF IInv, TypeInv

LEMMA PublishStep ==
  ASSUME LifecycleAssumption, IInv, NEW o \in Operations, Publish(o)
  PROVE  IInv'
<1>1. /\ runs[o].at = "publishing" /\ UNCHANGED <<source, base, setting, lock, edits>> /\ Go(o, "recording")
      /\ live' = Holds(runs[o].outcome) /\ met' = None
  BY DEF Publish, Is
<1>2. runs[o] \in RunType /\ runs[o].outcome \in State /\ source \in State
  BY DEF IInv, TypeInv, RunType
<1>3. live' \in [dangles : BOOLEAN, text : State] /\ ~live'.dangles /\ live'.text = runs[o].outcome
  BY <1>1, <1>2 DEF Holds
<1>4. PICK r \in RunType :
         /\ runs' = [runs EXCEPT ![o] = r] /\ r.at = "recording" /\ r.source = runs[o].source
         /\ r.policy = runs[o].policy /\ r.live = runs[o].live /\ r.kept = runs[o].kept
         /\ r.route = runs[o].route /\ r.quiet = runs[o].quiet /\ r.intent = runs[o].intent
         /\ r.result = runs[o].result /\ r.outcome = runs[o].outcome
  BY <1>1, GoTo DEF Points
<1>5. runs'[o] = r /\ r.quiet => QuietOf(o)'
  BY <1>1, <1>3, <1>4 DEF IInv, RunOf, QuietOf, Applied
<1>6. runs'[o] = r => ApprovedOf(o)'
  BY <1>1, <1>4, ApprovedStays DEF IInv, RunOf, SameWork
<1> QED BY <1>1, <1>2, <1>3, <1>4, <1>5, <1>6, GoesOn DEF IInv, TypeInv

\* An acknowledgment leaves a Base that is what the files meet in, if it counts.
LEMMA Acknowledged ==
  ASSUME LifecycleAssumption, IInv, NEW o \in Operations, NEW x \in State, NEW saved \in BOOLEAN,
         Record(o, x, saved), runs[o].quiet => source = x, Converge(o), runs[o].at \notin {"waiting", "done"},
         UNCHANGED <<source, live, setting, edits>>
  PROVE  IInv'
<1>1. lock = o /\ Ended(o, TRUE) /\ lock' = None /\ None \notin Operations
  BY AtWork DEF Converge, LifecycleAssumption
<1>2. base' \in State \cup {None} /\ met' \in [source : State, live : State] \cup {None}
  BY DEF Record, IInv, TypeInv
<1>3. MetInv'
  BY DEF Record, MetInv
<1>4. TypeInv'
  BY <1>1, <1>2, EndedRuns DEF IInv, TypeInv
<1> QED BY <1>1, <1>3, <1>4, EndedRuns, OthersRest

\* An operation that ends without recording anything.
LEMMA Unrecorded ==
  ASSUME LifecycleAssumption, IInv, NEW o \in Operations, Converge(o), runs[o].at \notin {"waiting", "done"},
         base' = base, met' \in {met, None}, UNCHANGED <<source, live, setting, edits>>
  PROVE  IInv'
<1>1. lock = o /\ Ended(o, TRUE) /\ lock' = None /\ None \notin Operations
  BY AtWork DEF Converge, LifecycleAssumption
<1>2. TypeInv' /\ MetInv'
  BY <1>1, EndedRuns DEF IInv, TypeInv, MetInv
<1> QED BY <1>1, <1>2, EndedRuns, OthersRest

LEMMA DirectAgreementStep ==
  ASSUME LifecycleAssumption, IInv, NEW o \in Operations, NEW saved \in BOOLEAN, DirectAgreement(o, saved)
  PROVE  IInv'
<1>1. /\ runs[o].at = "frozen" /\ Converge(o) /\ UNCHANGED <<source, live, setting, edits>>
      /\ IF Eligible(runs[o].policy) THEN Record(o, runs[o].source, saved) ELSE UNCHANGED <<base, met>>
  BY DEF DirectAgreement, Is, Files
<1>2. runs[o].source \in State /\ (runs[o].quiet => source = runs[o].source)
  BY <1>1 DEF IInv, TypeInv, RunType, RunOf, QuietOf, Unmoved
<1> QED BY <1>1, <1>2, Acknowledged, Unrecorded

LEMMA CompleteStep ==
  ASSUME LifecycleAssumption, IInv, NEW o \in Operations, NEW saved \in BOOLEAN, Complete(o, saved)
  PROVE  IInv'
<1>1. /\ runs[o].at = "recording" /\ Converge(o) /\ UNCHANGED <<source, live, setting, edits>>
      /\ IF Eligible(runs[o].policy) /\ Qualified(o)
         THEN Record(o, runs[o].result, saved) ELSE UNCHANGED base /\ met' = None
  BY DEF Complete, Payload, Is, Files
<1>2. runs[o].result \in State /\ (runs[o].quiet => source = runs[o].result)
  BY <1>1 DEF IInv, TypeInv, RunType, RunOf, QuietOf, Applied
<1> QED BY <1>1, <1>2, Acknowledged, Unrecorded

-----------------------------------------------------------------------------
(* The user                                                                 *)

\* An edit of a file takes from the operation at work only what it counted on while undisturbed.
LEMMA EditStep ==
  ASSUME LifecycleAssumption, IInv, runs' = Disturbed, UNCHANGED <<base, setting, lock, met>>,
         edits' \in 0..Edits, source' \in State, live' \in [dangles : BOOLEAN, text : State],
         live'.dangles => live'.text = Missing
  PROVE  IInv'
<1>1. ASSUME NEW p \in Operations
      PROVE  LET r == [runs[p] EXCEPT !.quiet = @ /\ runs[p].at \notin Frozen] IN
             /\ runs'[p] = r /\ r \in RunType /\ r.at = runs[p].at /\ r.source = runs[p].source
             /\ r.policy = runs[p].policy /\ r.live = runs[p].live /\ r.kept = runs[p].kept
             /\ r.route = runs[p].route /\ r.intent = runs[p].intent
             /\ r.result = runs[p].result /\ r.outcome = runs[p].outcome
             /\ (r.quiet => runs[p].at \notin Frozen)
  <2> DEFINE q == runs[p].quiet /\ runs[p].at \notin Frozen
             r == [runs[p] EXCEPT !.quiet = q]
  <2>1. runs[p] \in RunType /\ runs'[p] = r
    BY DEF IInv, TypeInv, Disturbed
  <2>2. runs[p].at \in Points /\ q \in BOOLEAN
    BY <2>1 DEF RunType
  <2>3. r \in RunType
    <3> HIDE DEF q
    <3> QED BY <2>1, <2>2, Updates
  <2>4. /\ r.at = runs[p].at /\ r.source = runs[p].source
        /\ r.policy = runs[p].policy /\ r.live = runs[p].live /\ r.kept = runs[p].kept
        /\ r.route = runs[p].route /\ r.intent = runs[p].intent
        /\ r.result = runs[p].result /\ r.outcome = runs[p].outcome
        /\ (r.quiet => runs[p].at \notin Frozen)
    BY <2>1 DEF RunType
  <2> QED BY <2>1, <2>3, <2>4
<1>2. runs' \in [Operations -> RunType]
  BY <1>1 DEF Disturbed
<1>3. TypeInv'
  BY <1>2 DEF IInv, TypeInv
<1>5. LockInv'
  <2>1. \A p \in Operations : runs'[p].at = runs[p].at
    BY <1>1
  <2> QED BY <2>1 DEF IInv, LockInv
<1>7. MetInv'
  BY DEF IInv, MetInv
<1>4. ASSUME NEW p \in Operations PROVE RunOf(p)'
  <2>1. RouteOf(p)'
    BY <1>1 DEF IInv, RunOf, RouteOf
  <2>2. runs'[p].quiet => QuietOf(p)'
    <3>1. runs'[p].at = runs[p].at /\ (runs'[p].quiet => runs[p].at \notin Frozen)
      BY <1>1
    <3> QED BY <3>1 DEF QuietOf, Frozen
  <2>3. ApprovedOf(p)'
    <3>1. CASE runs[p].at \in {"approved", "publishing", "recording"}
      BY <1>1, <3>1, ApprovedStays DEF IInv, RunOf, SameWork
    <3>2. CASE runs[p].at \notin {"approved", "publishing", "recording"}
      BY <1>1, <3>2 DEF ApprovedOf
    <3> QED BY <3>1, <3>2
  <2> QED BY <2>1, <2>2, <2>3 DEF RunOf
<1> QED BY <1>3, <1>4, <1>5, <1>7 DEF IInv

LEMMA UserStep == ASSUME LifecycleAssumption, IInv, User PROVE IInv'
<1>1. Texts \cup {Missing} \subseteq State
  BY DEF LifecycleAssumption, State
<1>2. ASSUME NEW x \in Texts \cup {Missing}, EditSource(x) PROVE IInv'
  BY <1>1, <1>2, EditStep DEF EditSource, Edit, IInv, TypeInv, LifecycleAssumption
<1>3. ASSUME NEW l \in {Holds(t) : t \in Texts \cup {Missing}} \cup {[dangles |-> TRUE, text |-> Missing]},
             EditLive(l)
      PROVE  IInv'
  <2>1. l \in [dangles : BOOLEAN, text : State] /\ (l.dangles => l.text = Missing)
    <3>1. CASE l \in {Holds(t) : t \in Texts \cup {Missing}}
      <4>1. PICK t \in Texts \cup {Missing} : l = Holds(t)
        BY <3>1
      <4> QED BY <1>1, <4>1 DEF Holds
    <3>2. CASE l = [dangles |-> TRUE, text |-> Missing]
      BY <1>1, <3>2
    <3> QED BY <1>3, <3>1, <3>2
  <2> QED BY <1>3, <2>1, EditStep DEF EditLive, Edit, IInv, TypeInv, LifecycleAssumption
<1>4. ASSUME NEW p \in Policies, EditPolicy(p) PROVE IInv'
  <2>1. /\ UNCHANGED <<source, live, base, lock, runs, met>> /\ edits' \in 0..Edits
        /\ setting' \in [projection : Projections, policy : Policies, follow : Follows]
        /\ setting'.projection = setting.projection /\ setting'.follow = setting.follow
    BY <1>4 DEF EditPolicy, Edit, Files, IInv, TypeInv, LifecycleAssumption
  <2>2. \A o \in Operations : RunOf(o)'
    BY <2>1, RunStays DEF IInv
  <2> QED BY <2>1, <2>2 DEF IInv, TypeInv, LockInv, MetInv
<1>5. ASSUME Reset PROVE IInv'
  <2>1. /\ lock = None /\ base' = None /\ met' = None /\ None \notin Operations
        /\ UNCHANGED <<source, live, setting, lock, runs, edits>>
    BY <1>5 DEF Reset, Files, LifecycleAssumption
  <2>2. ASSUME NEW o \in Operations PROVE RunOf(o)'
    <3>1. lock' # o /\ runs'[o] = runs[o] /\ runs[o].at \in {"waiting", "done"}
      BY <2>1 DEF IInv, LockInv
    <3> QED BY <3>1 DEF IInv, RunOf, RouteOf, QuietOf, ApprovedOf
  <2> QED BY <2>1, <2>2 DEF IInv, TypeInv, LockInv, MetInv
<1> QED BY <1>2, <1>3, <1>4, <1>5 DEF User

-----------------------------------------------------------------------------
(* The inductive invariant                                                  *)

LEMMA InitIInv == ASSUME LifecycleAssumption, Init PROVE IInv
<1>1. TypeInv
  <2>1. source \in State /\ live = [dangles |-> FALSE, text |-> source]
    BY DEF Init, Holds, State, LifecycleAssumption
  <2>2. live \in [dangles : BOOLEAN, text : State] /\ ~live.dangles
    BY <2>1
  <2>3. runs \in [Operations -> RunType]
    <3> HIDE DEF RunType
    <3> QED BY WaitingType DEF Init
  <2>4. edits \in 0..Edits /\ base = None /\ met = None /\ lock = None
    BY DEF Init, LifecycleAssumption
  <2> QED BY <2>1, <2>2, <2>3, <2>4 DEF Init, TypeInv
<1>2. \A o \in Operations : runs[o].at = "waiting" /\ runs[o].route = "no-route" /\ lock # o
  BY DEF Init, Waiting, LifecycleAssumption
<1>3. LockInv /\ \A o \in Operations : RunOf(o)
  BY <1>2 DEF LockInv, RunOf, RouteOf, QuietOf, ApprovedOf
<1> QED BY <1>1, <1>3 DEF IInv, MetInv, Init

LEMMA NextIInv == ASSUME LifecycleAssumption, IInv, [Next]_vars PROVE IInv'
<1>1. ASSUME NEW o \in Operations, Run(o) PROVE IInv'
  BY <1>1, BeginStep, GuardStep, FreezeSourceStep, FreezeLiveStep, DriftsStep, ApproveStep, ApplySourceStep,
     PublishStep, StopStep, DiscardStep, DirectAgreementStep, CompleteStep DEF Run
<1>2. CASE UNCHANGED vars
  <2>1. \A o \in Operations : RunOf(o)'
    BY <1>2, RunStays DEF IInv, vars
  <2> QED BY <1>2, <2>1 DEF vars, IInv, TypeInv, LockInv, MetInv
<1> QED BY <1>1, <1>2, UserStep DEF Next

\* What an operation owns, has frozen and has approved is as the invariant says, always.
THEOREM Invariance == ASSUME LifecycleAssumption PROVE Spec => []IInv
<1>1. Init => IInv
  BY InitIInv
<1>2. IInv /\ [Next]_vars => IInv'
  BY NextIInv
<1> QED BY <1>1, <1>2, PTL DEF Spec

-----------------------------------------------------------------------------
(* The safety properties                                                    *)

\* The run of an operation changes by its own steps and the user's.
LEMMA OthersLeaveIt ==
  ASSUME TypeInv, NEW o \in Operations, NEW p \in Operations, o # p, Run(p)
  PROVE  runs'[o] = runs[o]
<1>0. runs \in [Operations -> RunType]
  BY DEF TypeInv
<1>1. ASSUME NEW op \in {"push", "pull", "sync"}, Begin(p, op) PROVE runs'[o] = runs[o]
  BY <1>0, <1>1 DEF Begin, Ended
<1>2. ASSUME NEW admitted \in SUBSET {"push", "pull"}, Guard(p, admitted) PROVE runs'[o] = runs[o]
  BY <1>0, <1>2 DEF Guard, Finish, Ended
<1>3. CASE FreezeSource(p) \/ FreezeLive(p) \/ Drifts(p)
  BY <1>0, <1>3 DEF FreezeSource, FreezeLive, Drifts, Finish, Ended, Go
<1>4. ASSUME NEW i, Approve(p, i) PROVE runs'[o] = runs[o]
  BY <1>0, <1>4 DEF Approve
<1>5. CASE ApplySource(p) \/ Publish(p) \/ Stop(p)
  BY <1>0, <1>5 DEF ApplySource, Publish, Stop, Finish, Ended, Go
<1>6. ASSUME NEW saved \in BOOLEAN, Discard(p, saved) \/ DirectAgreement(p, saved) \/ Complete(p, saved)
      PROVE  runs'[o] = runs[o]
  BY <1>0, <1>6 DEF Discard, DirectAgreement, Complete, Converge, Ended
<1> QED BY <1>1, <1>2, <1>3, <1>4, <1>5, <1>6 DEF Run

\* The user neither moves an operation nor ends it.
LEMMA UserLeavesIt ==
  ASSUME TypeInv, NEW o \in Operations, User
  PROVE  runs'[o].at = runs[o].at /\ runs'[o].converged = runs[o].converged
<1>1. runs[o] \in RunType
  BY DEF TypeInv
<1>2. runs' \in {runs, Disturbed}
  BY DEF User, EditSource, EditLive, EditPolicy, Reset
<1>3. Disturbed[o].at = runs[o].at /\ Disturbed[o].converged = runs[o].converged
  BY <1>1 DEF Disturbed, RunType
<1> QED BY <1>2, <1>3

\* Approved work is applied or given up.
LEMMA ApprovedLeads ==
  ASSUME TypeInv, NEW o \in Operations, [Next]_vars, runs[o].at = "approved", runs'[o].at # "approved"
  PROVE  ApplySource(o) \/ Stop(o)
<1>1. ~User /\ ~UNCHANGED vars /\ \A p \in Operations \ {o} : ~Run(p)
  BY UserLeavesIt, OthersLeaveIt DEF vars
<1>2. Run(o)
  BY <1>1 DEF Next
<1> QED BY <1>2 DEF Run, Is, Begin, Guard, FreezeSource, FreezeLive, Drifts, Approve, Publish, Discard,
        DirectAgreement, Complete

\* An operation ends converged by agreement, or by the completion of its unit.
LEMMA ConvergesBy ==
  ASSUME TypeInv, NEW o \in Operations, [Next]_vars, runs'[o].converged, ~runs[o].converged
  PROVE  \E saved \in BOOLEAN : DirectAgreement(o, saved) \/ Complete(o, saved)
<1>1. ~User /\ ~UNCHANGED vars /\ \A p \in Operations \ {o} : ~Run(p)
  BY UserLeavesIt, OthersLeaveIt DEF vars
<1>2. Run(o)
  BY <1>1 DEF Next
<1>3. runs \in [Operations -> RunType]
  BY DEF TypeInv
<1>4. ~Ended(o, FALSE)
  BY <1>3 DEF Ended, Waiting
<1>5. \A at : ~Go(o, at)
  BY <1>3 DEF Go, RunType
<1>6. ASSUME NEW op, Begin(o, op) PROVE FALSE
  <2>1. runs' = [runs EXCEPT ![o].at = "locked", ![o].op = op, ![o].policy = setting.policy]
    BY <1>4, <1>6 DEF Begin
  <2> QED BY <1>3, <2>1 DEF RunType
<1>7. \A admitted : ~Guard(o, admitted)
  BY <1>3, <1>4 DEF Guard, Finish, RunType
<1>8. ~FreezeSource(o) /\ ~FreezeLive(o)
  BY <1>3, <1>4 DEF FreezeSource, FreezeLive, Finish, RunType
<1>9. ASSUME NEW i, Approve(o, i) PROVE FALSE
  <2>1. PICK x : runs' = [runs EXCEPT ![o].at = "approved", ![o].intent = i, ![o].result = x,
                                      ![o].outcome = Outcome(o, x)]
    BY <1>9 DEF Approve
  <2> QED BY <1>3, <2>1 DEF RunType
<1>10. \A saved : ~Discard(o, saved)
  BY <1>3 DEF Discard, RunType
<1> QED BY <1>2, <1>4, <1>5, <1>6, <1>7, <1>8, <1>9, <1>10 DEF Run, Drifts, ApplySource, Publish, Stop, Finish

\* What has been rendered is consistent.
LEMMA RenderedIsConsistent ==
  ASSUME LifecycleAssumption, NEW s \in State, NEW l \in State
  PROVE  Consistent(s, Render(s, l))
  BY RenderTwice DEF Consistent

LEMMA AgreesDirectly ==
  ASSUME LifecycleAssumption, IInv, NEW o \in Operations, NEW saved \in BOOLEAN, DirectAgreement(o, saved),
         runs[o].quiet
  PROVE  /\ Agree(runs[o].route, source, live.text)
         /\ base' # base => base' = source /\ Consistent(source, live.text)
<1>1. /\ runs[o].at = "frozen" /\ Agree(runs[o].route, runs[o].source, runs[o].live)
      /\ IF Eligible(runs[o].policy) THEN Record(o, runs[o].source, saved) ELSE UNCHANGED <<base, met>>
  BY DEF DirectAgreement, Is
<1>2. source = runs[o].source /\ live.text = runs[o].live
  BY <1>1 DEF IInv, RunOf, QuietOf, Unmoved
<1>3. ASSUME base' # base PROVE base' = source /\ Consistent(source, live.text)
  <2>1. Eligible(runs[o].policy) /\ base' = source
    BY <1>1, <1>2, <1>3 DEF Record
  <2>2. runs[o].route # "push-only-delete"
    BY <2>1 DEF Eligible, IInv, RunOf, RouteOf
  <2> QED BY <1>1, <1>2, <2>1, <2>2 DEF Agree, Consistent
<1> QED BY <1>1, <1>2, <1>3

LEMMA AgreesAtCompletion ==
  ASSUME LifecycleAssumption, IInv, NEW o \in Operations, NEW saved \in BOOLEAN, Complete(o, saved),
         runs[o].quiet
  PROVE  /\ \/ Agree(runs[o].route, source, live.text) \/ Consistent(source, live.text)
            \/ runs[o].route = "pull-only" /\ runs[o].intent = "editor"
         /\ base' # base => base' = source /\ Consistent(source, live.text)
<1> DEFINE route == runs[o].route
<1>1. /\ runs[o].at = "recording"
      /\ IF Eligible(runs[o].policy) /\ Qualified(o)
         THEN Record(o, runs[o].result, saved) ELSE UNCHANGED base /\ met' = None
  BY DEF Complete, Payload, Is
<1>2. source = runs[o].result /\ live.text = runs[o].outcome
  BY <1>1 DEF IInv, RunOf, QuietOf, Applied
<1>3. /\ runs[o].intent \in Intents(o) /\ source \in Results(o, runs[o].intent)
      /\ live.text = Outcome(o, source)
  BY <1>1, <1>2 DEF IInv, RunOf, ApprovedOf
<1>4. source \in State /\ runs[o].source \in State /\ runs[o].live \in State
  BY DEF IInv, TypeInv, RunType
<1>5. CASE route \notin {"pull-only", "push-only-delete"}
  <2>1. live.text = Render(source, runs[o].live)
    BY <1>3, <1>5 DEF Outcome
  <2>2. Consistent(source, live.text)
    BY <1>4, <2>1, RenderedIsConsistent
  <2> QED BY <1>1, <1>2, <2>2 DEF Record
<1>6. CASE route = "push-only-delete"
  <2>1. live.text = Missing
    BY <1>3, <1>6 DEF Outcome
  <2>2. ~Eligible(runs[o].policy)
    BY <1>6 DEF Eligible, IInv, RunOf, RouteOf
  <2> QED BY <1>1, <1>6, <2>1, <2>2 DEF Agree
<1>7. CASE route = "pull-only"
  <2>1. live.text = runs[o].live
    BY <1>3, <1>7 DEF Outcome
  <2>2. runs[o].intent = "editor" \/ runs[o].intent = "use-live"
    BY <1>3, <1>7 DEF Intents
  <2>3. ASSUME runs[o].intent = "use-live" PROVE Agree(route, source, live.text)
    <3>1. Captures(runs[o].source, runs[o].live) /\ source = Capture(runs[o].source, runs[o].live)
      BY <1>3, <2>3 DEF Results
    <3> QED BY <1>4, <1>7, <2>1, <3>1, CapturesAgree DEF IInv
  <2>4. ASSUME base' # base PROVE base' = source /\ Consistent(source, live.text)
    <3>1. Qualified(o) /\ base' = source
      BY <1>1, <1>2, <2>4 DEF Record
    <3>2. Render(source, live.text) = live.text
      BY <1>2, <1>7, <2>1, <3>1 DEF Qualified
    <3> QED BY <3>1, <3>2 DEF Consistent
  <2> QED BY <1>7, <2>2, <2>3, <2>4
<1> QED BY <1>5, <1>6, <1>7

\* docs/sync.md, "Checkpoints" (direct_agreement and _acknowledge): an undisturbed operation that
\* ends converged leaves files that agree, and what it has recorded is the source they agree in.
THEOREM ConvergedFilesAgree == ASSUME LifecycleAssumption PROVE Spec => EndsInAgreement
<1> DEFINE Agreement ==
             \A o \in Operations :
               /\ runs'[o].converged /\ ~runs[o].converged /\ runs[o].quiet
               => /\ \/ Agree(runs[o].route, source, live.text) \/ Consistent(source, live.text)
                     \/ runs[o].route = "pull-only" /\ runs[o].intent = "editor"
                  /\ base' # base => base' = source /\ Consistent(source, live.text)
<1>1. IInv /\ [Next]_vars => Agreement
  <2> SUFFICES ASSUME IInv, [Next]_vars, NEW o \in Operations,
                      runs'[o].converged, ~runs[o].converged, runs[o].quiet
               PROVE  /\ \/ Agree(runs[o].route, source, live.text) \/ Consistent(source, live.text)
                         \/ runs[o].route = "pull-only" /\ runs[o].intent = "editor"
                      /\ base' # base => base' = source /\ Consistent(source, live.text)
    OBVIOUS
  <2>1. PICK saved \in BOOLEAN : DirectAgreement(o, saved) \/ Complete(o, saved)
    BY ConvergesBy DEF IInv
  <2> QED BY <2>1, AgreesDirectly, AgreesAtCompletion
<1>2. Spec => [][Agreement]_vars
  <2> HIDE DEF Agreement
  <2> QED BY <1>1, Invariance, PTL DEF Spec
<1> QED BY <1>2 DEF EndsInAgreement

\* docs/cli.md, symlink modes (the Missing outcomes of a review): an operation deletes the source
\* only for a live file that was not there when it looked.
THEOREM DeletionsAreOfTheMissing == ASSUME LifecycleAssumption PROVE Spec => DeletionsAreReal
<1> DEFINE Real ==
             \A o \in Operations :
               DeletesSource(o) /\ lock' = o =>
                 runs[o].live = Missing /\ (runs[o].quiet /\ live.dangles => setting.follow)
<1>1. IInv /\ [Next]_vars => Real
  <2> SUFFICES ASSUME IInv, [Next]_vars, NEW o \in Operations, DeletesSource(o), lock' = o
               PROVE  runs[o].live = Missing /\ (runs[o].quiet /\ live.dangles => setting.follow)
    OBVIOUS
  <2>1. runs[o].at = "approved" /\ runs'[o].at # "approved" /\ source # Missing /\ source' = Missing
    BY DEF DeletesSource, Is
  <2>2. ~Stop(o)
    BY DEF Stop, Finish, LifecycleAssumption
  <2>3. ApplySource(o)
    BY <2>1, <2>2, ApprovedLeads DEF IInv
  <2>4. runs[o].result = Missing /\ runs[o].result # runs[o].source
    BY <2>1, <2>3 DEF ApplySource, Changed
  <2>5. runs[o].intent \in Intents(o) /\ runs[o].result \in Results(o, runs[o].intent)
    BY <2>1 DEF IInv, RunOf, ApprovedOf
  <2>6. runs[o].live = Missing /\ runs[o].route \in {"both", "pull-only"}
    BY <2>4, <2>5, ResultTypes
  <2>7. ASSUME runs[o].quiet, live.dangles PROVE setting.follow
    BY <2>1, <2>6, <2>7 DEF IInv, RunOf, QuietOf, Unmoved, FollowMissing
  <2> QED BY <2>6, <2>7
<1>2. Spec => [][Real]_vars
  <2> HIDE DEF Real
  <2> QED BY <1>1, Invariance, PTL DEF Spec
<1> QED BY <1>2 DEF DeletionsAreReal

\* A merge takes of every hunk the side that has left the ancestor.
LEMMA MergeIsHunkwise ==
  ASSUME NEW b, NEW s, NEW c, Merges(b, s, c), NEW h
  PROVE  /\ s[h] # b[h] /\ Missing \notin {b, s, c} /\ h \in Hunks => Merge(b, s, c)[h] = s[h]
         /\ s[h] = b[h] /\ Missing \notin {b, s, c} /\ h \in Hunks => Merge(b, s, c)[h] = c[h]
<1>1. CASE s = c \/ s = b \/ c = b
  BY <1>1 DEF Merge
<1>2. CASE s # c /\ s # b /\ c # b
  <2>1. Merge(b, s, c) = [k \in Hunks |-> IF s[k] = b[k] THEN c[k] ELSE s[k]]
    BY <1>2 DEF Merge
  <2> QED BY <2>1
<1> QED BY <1>1, <1>2

\* docs/sync.md, "Merge" (sync_reconciliation.reconcile on the recorded ancestor): a merge keeps
\* every hunk that only one side has changed since the Base was recorded, as that side has it.
THEOREM MergesKeepEdits == ASSUME LifecycleAssumption PROVE Spec => MergeKeepsEdits
<1> DEFINE Keeps == \A o \in Operations : MergesBoth(o) /\ runs'[o].at # "approved" => KeepsBothEdits(o)
<1>1. IInv /\ [Next]_vars => Keeps
  <2> SUFFICES ASSUME IInv, [Next]_vars, NEW o \in Operations, MergesBoth(o), runs'[o].at # "approved"
               PROVE  KeepsBothEdits(o)
    OBVIOUS
  <2> DEFINE c == Capture(source, live.text)
  <2>1. /\ runs[o].at = "approved" /\ runs[o].intent = "merge" /\ runs[o].quiet /\ lock' = o
        /\ met # None /\ Missing \notin {source, source', live.text, met.source, met.live}
    BY DEF MergesBoth, Is
  <2>2. ~Stop(o)
    BY <2>1 DEF Stop, Finish, LifecycleAssumption
  <2>3. ApplySource(o)
    BY <2>1, <2>2, ApprovedLeads DEF IInv
  <2>4. source = runs[o].source /\ live.text = runs[o].live /\ base = met.source
    BY <2>1 DEF IInv, MetInv, RunOf, QuietOf, Unmoved
  <2>5. runs[o].result \in Results(o, "merge")
    BY <2>1 DEF IInv, RunOf, ApprovedOf
  <2>6. Merges(met.source, source, c) /\ runs[o].result = Merge(met.source, source, c)
    BY <2>4, <2>5 DEF Results
  <2>7. source' = Merge(met.source, source, c)
    BY <2>3, <2>4, <2>6 DEF ApplySource, Changed
  <2>8. source \in State /\ live.text \in State /\ met.source \in State
    BY <2>1 DEF IInv, TypeInv
  <2>9. Missing \notin {met.source, source, c} /\ source \in Text
    BY <2>1, <2>8, CaptureType DEF State
  <2>10. DOMAIN source = Hunks
    BY <2>9 DEF Text
  <2> HIDE DEF c
  <2>11. \A h \in Hunks : /\ source[h] # met.source[h] => source'[h] = source[h]
                          /\ source[h] = met.source[h] => source'[h] = c[h]
    BY <2>6, <2>7, <2>9, MergeIsHunkwise
  <2> QED BY <2>11 DEF KeepsBothEdits, c
<1>2. Spec => [][Keeps]_vars
  <2> HIDE DEF Keeps
  <2> QED BY <1>1, Invariance, PTL DEF Spec
<1> QED BY <1>2 DEF MergeKeepsEdits

\* docs/sync.md, "Policy maintenance" (_discard_ineligible_bases): past its opening, a run on a
\* unit that may have no Base works without one, unless the deletion failed.
THEOREM IneligibleHaveNoBase == ASSUME LifecycleAssumption PROVE Spec => []IneligibleHasNoBase
<1>1. IInv => IneligibleHasNoBase
  BY DEF IInv, RunOf, RouteOf, Eligible, IneligibleHasNoBase, Is
<1> QED BY <1>1, Invariance, PTL

\* The files, the Base, the lock and what every run has frozen hold values of their kinds.
THEOREM TypeCorrect == ASSUME LifecycleAssumption PROVE Spec => []TypeOK
<1>1. IInv => TypeOK
  BY DEF IInv, TypeInv, TypeOK, RunType, Points
<1> QED BY <1>1, Invariance, PTL
=============================================================================
