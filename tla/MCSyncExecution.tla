--------------------------- MODULE MCSyncExecution ---------------------------
(* An instance of the execution for TLC: two repositories; a directory with *)
(* two nested children and a file target with hooks around them, and a      *)
(* second repository with one file.                                         *)
EXTENDS SyncExecution, TLC

CONSTANTS r1, r2, p1, p2, t1, t2, t3, a, ab, root, f, g, x1, x2

TheParent ==
  p1 :> r1 @@ p2 :> r2 @@ x1 :> r1 @@ x2 :> r2 @@ t1 :> p1 @@ t2 :> p1 @@ t3 :> p2
    @@ a :> t1 @@ ab :> t1 @@ root :> t1 @@ f :> t2 @@ g :> t3

ThePosition ==
  r1 :> 1 @@ r2 :> 2 @@ p1 :> 1 @@ p2 :> 1 @@ t1 :> 1 @@ t2 :> 2 @@ t3 :> 1
    @@ root :> 0 @@ a :> 1 @@ ab :> 2 @@ f :> 1 @@ g :> 1 @@ x1 :> 1 @@ x2 :> 1

TheHooks ==
  {"apply", "publish"} \X {r1, p1, t1} \cup {<<"publish", t2>>, <<"apply", p2>>}
TheNoopHooks == {<<"publish", p1>>, <<"publish", r1>>, <<"apply", r1>>}

TheNested == {{a, ab}}

P(source, effects, checkpoint) ==
  [source |-> source, effects |-> effects, checkpoint |-> checkpoint]

OfChild ==
  {Unselected, P("update", <<>>, TRUE), P("delete", <<>>, TRUE),
   P("keep", <<"write", "chmod">>, TRUE), P("keep", <<"delete">>, FALSE)}
OfFile ==
  {Unselected, P("keep", <<>>, TRUE), P("update", <<"write">>, TRUE), P("keep", <<"reapply", "chmod">>, TRUE),
   P("keep", <<"chmod">>, TRUE)}

\* both children of a nested pair cannot be present on the side that is written
Possible(proposal) ==
  LET present(u) == proposal[u] # Unselected
      writes(u)  == present(u) /\ (proposal[u].source = "update" \/ "write" \in
                      {proposal[u].effects[i] : i \in DOMAIN proposal[u].effects})
  IN ~(writes(a) /\ writes(ab))

Quiet == [probes |-> {}, noops |-> {}, snapshots |-> TRUE, obsolete |-> {}, held |-> {},
          commits |-> {}, observed |-> TRUE]

\* payload work, with and without Additional Sources, a directory root and commits
Payload ==
  LET proposals == {q \in [{a, ab} -> OfChild] : Possible(q)} IN
  {[Quiet EXCEPT !.obsolete = {t1}, !.commits = {r1, r2}] @@
     [proposal |-> q @@ root :> o @@ f :> e @@ g :> Unselected, additions |-> {}] :
      q \in proposals, e \in OfFile, o \in {Unselected, P("keep", <<"chmod">>, FALSE)}}
  \cup
  {[Quiet EXCEPT !.commits = {r1, r2}] @@
     [proposal |-> a :> e @@ ab :> e @@ root :> e @@ f :> e @@ g :> h, additions |-> n] :
      e \in {Unselected}, h \in {Unselected, P("update", <<"write">>, TRUE)}, n \in SUBSET {x1, x2}}

\* hooks for their own sake, Probes, held Bases, units that were not observed
Auxiliary ==
  {[Quiet EXCEPT !.probes = p, !.noops = n, !.snapshots = FALSE,
                 !.obsolete = {t1, t3}, !.held = {t1}, !.commits = {r1}, !.observed = o] @@
     [proposal |-> a :> Unselected @@ ab :> Unselected @@ root :> Unselected @@ g :> Unselected
                     @@ f :> P("update", <<"write">>, TRUE), additions |-> {x1}] :
      p \in {{}, {<<"publish", t3>>}, {<<"apply", t1>>, <<"publish", t1>>}},
      n \in {{}, {<<"publish", p1>>}, {<<"apply", t2>>}}, o \in BOOLEAN}

ThePlan == Payload \cup Auxiliary
=============================================================================
