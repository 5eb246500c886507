----------------------------- MODULE TomlTransform -----------------------------
(***************************************************************************)
(* The toml transform (transforms/toml.py): the selection and the merge of *)
(* items that carry the comment attached to them.  An item is a scalar or  *)
(* a table, written inline or under a header; its body is the value or the *)
(* items by key.  A document is a table without a comment.  Comment blocks *)
(* that belong to no item, the order of the items and the white space are  *)
(* left out; an array of tables is a scalar, as merge takes it whole.      *)
(***************************************************************************)
EXTENDS Integers, Sequences, FiniteSets, TLC

CONSTANT Scalar

NoNote == ""
Item(note, inline, body) == [note |-> note, inline |-> inline, body |-> body]
Table(inline, body) == Item(NoNote, inline, body)
IsTable(i) == i.body \notin Scalar
Keys(i) == DOMAIN i.body
NoKeys == [k \in {} |-> Table(FALSE, {})]
Document == Table(FALSE, NoKeys)

-----------------------------------------------------------------------------
(* Selectors                                                               *)

Prefix(s, p) == Len(s) <= Len(p) /\ SubSeq(p, 1, Len(s)) = s

RECURSIVE ItemPaths(_)
ItemPaths(i) ==
  IF ~IsTable(i) THEN {}
  ELSE {<<k>> : k \in Keys(i)} \cup UNION {{<<k>> \o p : p \in ItemPaths(i.body[k])} : k \in Keys(i)}

RECURSIVE Reached(_, _)
Reached(i, path) == IF path = <<>> THEN i ELSE Reached(i.body[Head(path)], Tail(path))
Filled(doc, path) == LET i == Reached(doc, path) IN IsTable(i) => Keys(i) # {}

\* tables of both documents are written in one style
SameStyle(d, e) ==
  \A p \in ItemPaths(d) \cap ItemPaths(e) : Reached(d, p).inline = Reached(e, p).inline
SameShape(d, e) ==
  \A p \in ItemPaths(d) \cap ItemPaths(e) : IsTable(Reached(d, p)) = IsTable(Reached(e, p))

Matching(doc, regex) == {p \in ItemPaths(doc) : p[Len(p)] \in regex}
HasPrefixIn(p, paths) == \E s \in paths : Prefix(s, p)

WithoutExcluded(doc, chosen, excluded) ==
  LET real == excluded \cap ItemPaths(doc)
  IN {p \in chosen \cup ItemPaths(doc) :
        /\ HasPrefixIn(p, chosen) /\ ~HasPrefixIn(p, real)
        /\ ~\E e \in real : Len(p) < Len(e) /\ Prefix(p, e)}

SelectedPaths(doc, r) ==
  LET chosen == r.exact \cup Matching(doc, r.regex)
      excluded == r.notExact \cup Matching(doc, r.notRegex)
      all == {p \in ItemPaths(doc) : Len(p) = 1}
  IN IF r.notExact = {} /\ r.notRegex = {} THEN chosen
     ELSE WithoutExcluded(doc, IF r.exact = {} /\ r.regex = {} THEN all ELSE chosen, excluded)

\* json, yaml and plist do without
HasSelectors(r) == r.exact # {} \/ r.regex # {} \/ r.notExact # {} \/ r.notRegex # {}

-----------------------------------------------------------------------------
(* Selection                                                               *)

RECURSIVE Stripped(_, _, _), WithoutEmptied(_, _), Retained(_, _, _)

\* the topmost selections go, with their comments
Stripped(i, path, sel) ==
  IF ~IsTable(i) THEN i
  ELSE [i EXCEPT !.body = [k \in {j \in Keys(i) : Append(path, j) \notin sel}
                             |-> Stripped(i.body[k], Append(path, k), sel)]]

\* deepest first, a table that the removal emptied goes too
WithoutEmptied(i, source) ==
  LET Inner(k) == IF IsTable(i.body[k]) /\ IsTable(source.body[k])
                  THEN WithoutEmptied(i.body[k], source.body[k]) ELSE i.body[k]
      Emptied(k) == /\ IsTable(i.body[k]) /\ IsTable(source.body[k])
                    /\ Keys(Inner(k)) = {} /\ Keys(source.body[k]) # {}
  IN [i EXCEPT !.body = [k \in {j \in Keys(i) : ~Emptied(j)} |-> Inner(k)]]

\* a selected item is copied with its comment; the tables on its way are new
\* ones, inline where the source's are
Holds(i, path, sel) == \E s \in sel : Prefix(path, s) /\ s \in {path \o p : p \in {<<>>} \cup ItemPaths(i)}
Retained(i, path, sel) ==
  IF path \in sel THEN i
  ELSE Table(i.inline, [k \in {j \in Keys(i) : Holds(i.body[j], Append(path, j), sel)}
                          |-> Retained(i.body[k], Append(path, k), sel)])

Select(doc, action, sel) ==
  IF action = "remove" THEN Stripped(doc, <<>>, sel) ELSE Retained(doc, <<>>, sel)

-----------------------------------------------------------------------------
(* Merge                                                                   *)

RECURSIVE Unwrapped(_), MergeContainers(_, _, _, _, _)

\* plain data in inline form
Unwrapped(i) == IF IsTable(i) THEN Table(TRUE, [k \in Keys(i) |-> Unwrapped(i.body[k])])
                ELSE Item(NoNote, i.inline, i.body)

\* a value that moves between a table and an inline table leaves its comment
Adapted(i, sourceInline, mergedInline) ==
  IF mergedInline /\ IsTable(i) /\ ~i.inline THEN Unwrapped(i)
  ELSE IF mergedInline # sourceInline THEN [i EXCEPT !.note = NoNote] ELSE i

\* every item brings its own comment, and a table on both sides the overlay's
MergeContainers(base, kept, over, sel, path) ==
  Item(over.note, over.inline,
    [k \in Keys(over) \cup Keys(kept) |->
       LET here == Append(path, k)
           Both == /\ k \in Keys(base) /\ k \in Keys(over) /\ here \notin sel
                   /\ IsTable(base.body[k]) /\ IsTable(over.body[k])
       IN IF Both
          THEN MergeContainers(base.body[k], IF k \in Keys(kept) THEN kept.body[k] ELSE Document,
                               over.body[k], sel, here)
          ELSE IF k \in Keys(over) THEN over.body[k]
          ELSE Adapted(kept.body[k], kept.inline, over.inline)])

Merged(doc, over, action, r) ==
  LET sel == SelectedPaths(doc, r)
  IN MergeContainers(doc, WithoutEmptied(Select(doc, action, sel), doc), over, sel, <<>>)

Cleaned(doc, action, r) ==
  LET kept == Select(doc, action, SelectedPaths(doc, r))
  IN IF action = "remove" THEN WithoutEmptied(kept, doc) ELSE kept

-----------------------------------------------------------------------------
(* What a comparison sees: values of equal types and the comments of items *)

RECURSIVE Meaning(_), Bare(_)
Meaning(i) == IF IsTable(i) THEN [note |-> i.note, body |-> [k \in Keys(i) |-> Meaning(i.body[k])]]
              ELSE [note |-> i.note, body |-> i.body]

\* the same without the comments of the tables' headers
Bare(i) == IF IsTable(i) THEN [note |-> NoNote, body |-> [k \in Keys(i) |-> Bare(i.body[k])]]
           ELSE [note |-> i.note, body |-> i.body]
=============================================================================
