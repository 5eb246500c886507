----------------------------- MODULE KeyTransform -----------------------------
(***************************************************************************)
(* The selection and the merge that the json, yaml and plist transforms    *)
(* share (transforms/framework.py, json.py).  A document is a mapping of   *)
(* keys to atoms and documents; the order of its keys is left out.  The    *)
(* selectors of a request match the texts of keys: two yaml keys that      *)
(* differ in their tag may have the same text.                             *)
(***************************************************************************)
EXTENDS Integers, Sequences, FiniteSets, TLC

CONSTANTS
  Text,      \* key |-> the text that selectors see
  IsMap(_),  \* whether a value is a mapping
  Nothing    \* _MISSING

Empty == [k \in {} |-> Nothing]

-----------------------------------------------------------------------------
(* Selectors                                                               *)

Prefix(s, p) == Len(s) <= Len(p) /\ SubSeq(p, 1, Len(s)) = s

RECURSIVE KeyPaths(_)
KeyPaths(v) ==
  IF ~IsMap(v) THEN {}
  ELSE {<<Text[k]>> : k \in DOMAIN v}
       \cup UNION {{<<Text[k]>> \o p : p \in KeyPaths(v[k])} : k \in DOMAIN v}

\* a regular expression is a set of texts: it finds the paths that end in one
Matching(doc, regex) == {p \in KeyPaths(doc) : p[Len(p)] \in regex}
Selected(doc, exact, regex) == exact \cup Matching(doc, regex)

HasPrefixIn(p, paths) == \E s \in paths : s # <<>> /\ Prefix(s, p)

\* a selected path that contains an excluded one gives way to its children
Subtract(paths, selected, excluded) ==
  LET real == excluded \cap paths
  IN {p \in selected \cup paths :
        /\ HasPrefixIn(p, selected) /\ ~HasPrefixIn(p, real)
        /\ ~\E e \in real : Len(p) < Len(e) /\ Prefix(p, e)}

Included(r) == r.exact # {} \/ r.regex # {}
Excluded(r) == r.notExact # {} \/ r.notRegex # {}
HasSelectors(r) == Included(r) \/ Excluded(r)

KeysOf(doc, r) ==
  LET chosen == Selected(doc, r.exact, r.regex)
      all == {p \in KeyPaths(doc) : Len(p) = 1}
  IN IF Excluded(r)
     THEN Subtract(KeyPaths(doc), IF Included(r) THEN chosen ELSE all,
                   Selected(doc, r.notExact, r.notRegex))
     ELSE chosen

\* a selector of paths seen from one key further down; no path: no child there
Child(sel, k) == {Tail(s) : s \in {t \in sel : t # <<>> /\ Head(t) = Text[k]}}
Whole(sel) == <<>> \in sel
Under(sel, k) == IF Whole(sel) THEN sel ELSE Child(sel, k)

-----------------------------------------------------------------------------
(* Selection                                                               *)

Present(f) == [k \in {j \in DOMAIN f : f[j] # Nothing} |-> f[k]]

RECURSIVE Retained(_, _), Stripped(_, _), WithoutEmptied(_, _), Overlay(_, _, _, _)

Retained(v, sel) ==
  IF Whole(sel) THEN v
  ELSE IF ~IsMap(v) THEN Nothing
  ELSE LET kept == Present([k \in {j \in DOMAIN v : Child(sel, j) # {}} |-> Retained(v[k], Child(sel, k))])
       IN IF DOMAIN kept = {} THEN Nothing ELSE kept

Stripped(v, sel) ==
  IF Whole(sel) THEN Nothing
  ELSE IF ~IsMap(v) THEN v
  ELSE Present([k \in DOMAIN v |-> IF Child(sel, k) = {} THEN v[k] ELSE Stripped(v[k], Child(sel, k))])

OrEmpty(v) == IF v = Nothing THEN Empty ELSE v
Select(doc, action, sel) ==
  OrEmpty(IF action = "remove" THEN Stripped(doc, sel) ELSE Retained(doc, sel))

\* a mapping that the selection emptied goes, one that was empty before stays
KeepsEmptied(selected, base) == selected                                          \* mutant
WithoutEmptied(selected, base) ==
  LET Inner(k) == IF IsMap(selected[k]) /\ IsMap(base[k]) THEN WithoutEmptied(selected[k], base[k])
                  ELSE selected[k]
  IN [k \in {j \in DOMAIN selected :
               ~(IsMap(selected[j]) /\ IsMap(base[j]) /\ base[j] # Empty /\ Inner(j) = Empty)} |-> Inner(k)]

-----------------------------------------------------------------------------
(* Merge                                                                   *)

At(f, k) == IF k \in DOMAIN f THEN f[k] ELSE Empty

\* a whole selection is one value; other mappings on both sides merge key by key
ReplacesMaps(base, kept, over, sel) == over @@ kept                               \* mutant
Overlay(base, kept, over, sel) ==
  [k \in DOMAIN over \cup DOMAIN kept |->
     IF k \notin DOMAIN over THEN kept[k]
     ELSE IF k \in DOMAIN base /\ ~Whole(Under(sel, k)) /\ IsMap(base[k]) /\ IsMap(over[k])
          THEN Overlay(base[k], At(kept, k), over[k], Under(sel, k))
          ELSE over[k]]

\* only an absent selector list means identity
Cleaned(doc, action, r) ==
  WithoutEmptied(IF HasSelectors(r) THEN Select(doc, action, KeysOf(doc, r)) ELSE doc, doc)

\* without selectors the whole base is one selection
Merged(doc, over, action, r) ==
  Overlay(doc, Cleaned(doc, action, r), over, IF HasSelectors(r) THEN KeysOf(doc, r) ELSE {<<>>})
=============================================================================
