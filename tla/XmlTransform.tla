------------------------------ MODULE XmlTransform ------------------------------
(***************************************************************************)
(* The xml transform (transforms/xml.py): selection by the path of tags,   *)
(* and a merge that pairs the children of two elements by their identity.  *)
(* An element is [tag, attrs, text, note, kids]; note is the comment right *)
(* above it, which goes where it goes.  Loose comments, the doctype, text  *)
(* between elements, sorting and the order of attributes are left out.     *)
(***************************************************************************)
EXTENDS Integers, Sequences, FiniteSets, SequencesExt

CONSTANTS NoText, NoNote

-----------------------------------------------------------------------------
(* Identity                                                                *)

\* attrs holds the attributes among id, name, key and uuid
Agreeing(e, f) == DOMAIN e.attrs \cap DOMAIN f.attrs
Identified(e) == DOMAIN e.attrs # {} \/ e.text # NoText
SameKey(e, f) == e.tag = f.tag /\ e.attrs = f.attrs /\ e.text = f.text

\* siblings differ in a shared attribute, or if identified without a shared one
MayPair(e, f) ==
  /\ e.tag = f.tag
  /\ \A n \in Agreeing(e, f) : e.attrs[n] = f.attrs[n]
  /\ DOMAIN e.attrs # {} /\ DOMAIN f.attrs # {} => Agreeing(e, f) # {}

FirstOf(S) == IF S = {} THEN 0 ELSE CHOOSE i \in S : \A j \in S : i <= j

\* the position of the candidate that target pops, 0 if none: the first that
\* is identified alike, or else the first of those that agree most
AnySibling(target, candidates, left) ==                                           \* mutant
  FirstOf({i \in left : candidates[i].tag = target.tag})
MatchingChild(target, candidates, left) ==
  LET alike == {i \in left : Identified(target) /\ SameKey(target, candidates[i])}
      may == {i \in left : MayPair(target, candidates[i])}
      Agreement(i) == Cardinality(Agreeing(target, candidates[i]))
      best == {i \in may : \A j \in may : Agreement(j) <= Agreement(i)}
  IN IF alike # {} THEN FirstOf(alike) ELSE FirstOf(best)

\* the children of base pop in their order
RECURSIVE Pairs(_, _, _)
Pairs(targets, candidates, left) ==
  IF targets = <<>> THEN <<>>
  ELSE LET i == MatchingChild(Head(targets), candidates, left)
       IN <<i>> \o Pairs(Tail(targets), candidates, left \ {i})

-----------------------------------------------------------------------------
(* Selection                                                               *)

RECURSIVE Matches(_, _, _), Retained(_, _, _), Stripped(_, _, _)

\* sel is the set of paths that a matcher or a regular expression finds
Path(up, e) == Append(up, e.tag)
Matches(e, up, sel) ==
  Path(up, e) \in sel \/ \E i \in DOMAIN e.kids : Matches(e.kids[i], Path(up, e), sel)

Retained(e, up, sel) ==
  IF Path(up, e) \in sel THEN e
  ELSE LET Keeps(k) == Matches(k, Path(up, e), sel)
           kept == SelectSeq(e.kids, Keeps)
       IN [e EXCEPT !.kids = [i \in DOMAIN kept |-> Retained(kept[i], Path(up, e), sel)]]

Stripped(e, up, sel) ==
  LET Keeps(k) == Append(Path(up, e), k.tag) \notin sel
      kept == SelectSeq(e.kids, Keeps)
  IN [e EXCEPT !.kids = [i \in DOMAIN kept |-> Stripped(kept[i], Path(up, e), sel)]]

Cleared(e) == [e EXCEPT !.attrs = <<>>, !.text = NoText, !.kids = <<>>]
Select(root, action, sel) ==
  IF action = "retain" THEN Retained(root, <<>>, sel)
  ELSE IF <<root.tag>> \in sel THEN Cleared(root) ELSE Stripped(root, <<>>, sel)

-----------------------------------------------------------------------------
(* Merge                                                                   *)

RECURSIVE Overlay(_, _, _)

\* the overlay gives attributes, text, comment and the order of its children;
\* a kept child that the overlay lacks follows the child that its nearest
\* earlier sibling paired with
Overlay(base, kept, over) ==
  LET inKept == Pairs(base.kids, kept.kids, DOMAIN kept.kids)
      inOver == Pairs(base.kids, over.kids, DOMAIN over.kids)
      Anchor(i) == LET before == {j \in 1..i : inOver[j] # 0}
                   IN IF before = {} THEN 0 ELSE inOver[CHOOSE j \in before : \A l \in before : l <= j]
      After(a) == LET mine == SelectSeq([i \in DOMAIN base.kids |-> i],
                                LAMBDA i : inOver[i] = 0 /\ inKept[i] # 0 /\ Anchor(i) = a)
                  IN [i \in DOMAIN mine |-> kept.kids[inKept[mine[i]]]]
      Result(o) == LET mine == {i \in DOMAIN base.kids : inOver[i] = o /\ inKept[i] # 0}
                   IN IF mine = {} THEN over.kids[o]
                      ELSE LET i == CHOOSE i \in mine : TRUE
                           IN Overlay(base.kids[i], kept.kids[inKept[i]], over.kids[o])
      rest == SelectSeq([i \in DOMAIN kept.kids |-> i], LAMBDA i : \A j \in DOMAIN inKept : inKept[j] # i)
  IN [over EXCEPT !.kids =
        After(0) \o FlattenSeq([o \in DOMAIN over.kids |-> <<Result(o)>> \o After(o)])
                 \o [i \in DOMAIN rest |-> kept.kids[rest[i]]]]

\* a base that is missing gives the overlay
Merged(root, over, action, sel) == Overlay(root, Select(root, action, sel), over)

\* the elements without children, each under the elements that hold it
RECURSIVE Leaves(_)
Leaves(e) ==
  LET self == <<[tag |-> e.tag, attrs |-> e.attrs, text |-> e.text]>>
  IN IF e.kids = <<>> THEN {self}
     ELSE {self \o l : l \in UNION {Leaves(e.kids[i]) : i \in DOMAIN e.kids}}
=============================================================================
