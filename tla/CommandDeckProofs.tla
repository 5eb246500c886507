--------------------------- MODULE CommandDeckProofs ---------------------------
(***************************************************************************)
(* Theorems about the Command Deck, for any workset, any filters and any   *)
(* keys: it executes what its confirmation has shown, a command acts on    *)
(* the row it was given at and ends there, and Ctrl+C is final.            *)
(***************************************************************************)
EXTENDS CommandDeck, TLAPS, WellFoundedInduction, SequenceTheorems

-----------------------------------------------------------------------------
(* What is left of a sequence.  The inductions are about sets: what is     *)
(* false of some number is false of a least one.                           *)

LEMMA SetInduction ==
  ASSUME NEW S, 0 \in S, \A n \in Nat : n \in S => n + 1 \in S
  PROVE  Nat \subseteq S
<1> DEFINE T == Nat \ S
           R == OpToRel(<, Nat)
<1>1. SUFFICES ASSUME T # {} PROVE FALSE
  OBVIOUS
<1>2. \A x, y \in Nat : <<y, x>> \in R <=> y < x
  BY DEF OpToRel
<1>3. PICK x \in T : \A y \in T : ~(<<y, x>> \in R)
  <2> HIDE DEF R
  <2> QED BY <1>1, NatLessThanWellFounded, WFMin DEF R
<1>4. x \in Nat /\ x \notin S /\ x # 0
  BY <1>3
<1>5. x - 1 \in Nat /\ x - 1 < x /\ (x - 1) + 1 = x
  BY <1>4
<1>6. x - 1 \in S
  <2> HIDE DEF R
  <2> QED BY <1>2, <1>3, <1>4, <1>5
<1> QED BY <1>4, <1>5, <1>6

LEMMA SequenceInduction ==
  ASSUME NEW U, NEW T, << >> \in T, \A s \in Seq(U), x \in U : s \in T => Append(s, x) \in T
  PROVE  Seq(U) \subseteq T
<1> DEFINE S == {n \in Nat : \A s \in Seq(U) : Len(s) = n => s \in T}
<1>1. 0 \in S
  OBVIOUS
<1>2. ASSUME NEW n \in Nat, n \in S PROVE n + 1 \in S
  <2> SUFFICES ASSUME NEW s \in Seq(U), Len(s) = n + 1 PROVE s \in T
    OBVIOUS
  <2>1. s # << >>
    OBVIOUS
  <2>2. PICK r \in Seq(U), x \in U : s = Append(r, x)
    BY <2>1, SequenceEmptyOrAppend
  <2>3. Len(r) = n
    BY <2>2
  <2> QED BY <1>2, <2>2, <2>3
<1>3. Nat \subseteq S
  <2> HIDE DEF S
  <2> QED BY <1>1, <1>2, SetInduction
<1> QED BY <1>3

\* g is what the first k elements of seq leave, one after the other
Keeps(g, seq, S, k) ==
  g = [n \in 0..k |-> IF n = 0 THEN << >> ELSE IF seq[n] \in S THEN Append(g[n - 1], seq[n]) ELSE g[n - 1]]

LEMMA KeepsExists ==
  ASSUME NEW seq, NEW S, NEW k \in Nat
  PROVE  \E g : Keeps(g, seq, S, k)
<1> DEFINE X == {n \in Nat : \E g : Keeps(g, seq, S, n)}
<1>1. 0 \in X
  <2>1. Keeps([n \in 0..0 |-> << >>], seq, S, 0)
    BY DEF Keeps
  <2> QED BY <2>1
<1>2. ASSUME NEW n \in Nat, n \in X PROVE n + 1 \in X
  <2>1. PICK g : Keeps(g, seq, S, n)
    BY <1>2
  <2> DEFINE h == [i \in 0..(n + 1) |-> IF i = n + 1
                     THEN IF seq[i] \in S THEN Append(g[n], seq[i]) ELSE g[n] ELSE g[i]]
             Next1(f, i) == IF i = 0 THEN << >> ELSE IF seq[i] \in S THEN Append(f[i - 1], seq[i]) ELSE f[i - 1]
  <2>2. ASSUME NEW i \in 0..(n + 1) PROVE h[i] = Next1(h, i)
    <3>1. CASE i = n + 1
      <4>1. i # 0 /\ i - 1 = n /\ n \in 0..(n + 1) /\ n # n + 1
        BY <3>1
      <4>2. h[i - 1] = g[n]
        BY <4>1
      <4> QED BY <3>1, <4>1, <4>2
    <3>2. CASE i \in 1..n
      <4>1. i # 0 /\ i # n + 1 /\ i - 1 \in 0..n /\ i - 1 \in 0..(n + 1) /\ i - 1 # n + 1 /\ i \in 0..n
        BY <3>2
      <4>2. h[i - 1] = g[i - 1] /\ h[i] = g[i]
        BY <4>1
      <4>3. g[i] = Next1(g, i)
        BY <2>1, <4>1 DEF Keeps
      <4> QED BY <4>1, <4>2, <4>3
    <3>3. CASE i = 0
      <4>1. g[0] = << >>
        BY <2>1 DEF Keeps
      <4> QED BY <3>3, <4>1
    <3> QED BY <3>1, <3>2, <3>3
  <2>3. Keeps(h, seq, S, n + 1)
    <3>1. h = [i \in 0..(n + 1) |-> h[i]]
      OBVIOUS
    <3> HIDE DEF h
    <3> QED BY <2>2, <3>1 DEF Keeps
  <2> QED BY <2>3
<1> HIDE DEF X
<1>3. k \in X
  BY <1>1, <1>2, SetInduction
<1> QED BY <1>3 DEF X

LEMMA KeepsAgree ==
  ASSUME NEW U, NEW seq \in Seq(U), NEW x \in U, NEW S, NEW f, NEW g,
         Keeps(f, seq, S, Len(seq)), Keeps(g, Append(seq, x), S, Len(seq) + 1)
  PROVE  \A n \in 0..Len(seq) : f[n] = g[n]
<1> DEFINE L == Len(seq)
           X == {n \in Nat : n <= L => f[n] = g[n]}
<1>1. 0 \in X
  BY DEF Keeps
<1>2. ASSUME NEW n \in Nat, n \in X PROVE n + 1 \in X
  <2> SUFFICES ASSUME n + 1 <= L PROVE f[n + 1] = g[n + 1]
    OBVIOUS
  <2>1. f[n] = g[n] /\ n + 1 # 0 /\ (n + 1) - 1 = n /\ n + 1 \in 0..L /\ n + 1 \in 0..(L + 1)
    BY <1>2
  <2>2. Append(seq, x)[n + 1] = seq[n + 1]
    BY <2>1
  <2>3. f[n + 1] = IF seq[n + 1] \in S THEN Append(f[n], seq[n + 1]) ELSE f[n]
    BY <2>1 DEF Keeps
  <2>4. g[n + 1] = IF Append(seq, x)[n + 1] \in S THEN Append(g[n], Append(seq, x)[n + 1]) ELSE g[n]
    BY <2>1 DEF Keeps
  <2> QED BY <2>1, <2>2, <2>3, <2>4
<1> HIDE DEF X
<1>3. Nat \subseteq X
  BY <1>1, <1>2, SetInduction
<1> QED BY <1>3 DEF X

LEMMA AmongIs ==
  ASSUME NEW U, NEW seq \in Seq(U), NEW S
  PROVE  \E f : Keeps(f, seq, S, Len(seq)) /\ Among(seq, S) = f[Len(seq)]
<1>1. Len(seq) \in Nat
  OBVIOUS
<1>2. \E f : Keeps(f, seq, S, Len(seq))
  BY <1>1, KeepsExists
<1> QED BY <1>2 DEF Among, Keeps

LEMMA AmongNone == ASSUME NEW S PROVE Among(<< >>, S) = << >>
<1>1. << >> \in Seq({}) /\ Len(<< >>) = 0
  OBVIOUS
<1>2. PICK f : Keeps(f, << >>, S, 0) /\ Among(<< >>, S) = f[0]
  BY <1>1, AmongIs
<1> QED BY <1>2 DEF Keeps

LEMMA AmongAppend ==
  ASSUME NEW U, NEW seq \in Seq(U), NEW x \in U, NEW S
  PROVE  Among(Append(seq, x), S) = IF x \in S THEN Append(Among(seq, S), x) ELSE Among(seq, S)
<1> DEFINE L == Len(seq)
<1>1. PICK f : Keeps(f, seq, S, L) /\ Among(seq, S) = f[L]
  BY AmongIs
<1>2. Append(seq, x) \in Seq(U) /\ Len(Append(seq, x)) = L + 1
  OBVIOUS
<1>3. PICK g : Keeps(g, Append(seq, x), S, L + 1) /\ Among(Append(seq, x), S) = g[L + 1]
  BY <1>2, AmongIs
<1>4. f[L] = g[L]
  BY <1>1, <1>3, KeepsAgree
<1>5. Append(seq, x)[L + 1] = x /\ L + 1 \in 0..(L + 1) /\ L + 1 # 0 /\ (L + 1) - 1 = L
  OBVIOUS
<1> QED BY <1>1, <1>3, <1>4, <1>5 DEF Keeps

\* What is left is in the set, and no more than there was.
LEMMA AmongType ==
  ASSUME NEW U, NEW seq \in Seq(U), NEW S
  PROVE  Among(seq, S) \in Seq(U \cap S) /\ Len(Among(seq, S)) <= Len(seq)
<1> DEFINE T == {s \in Seq(U) : Among(s, S) \in Seq(U \cap S) /\ Len(Among(s, S)) <= Len(s)}
<1>1. << >> \in T
  <2>1. Among(<< >>, S) = << >>
    BY AmongNone
  <2>2. << >> \in Seq(U) /\ << >> \in Seq(U \cap S) /\ Len(<< >>) <= Len(<< >>)
    OBVIOUS
  <2>3. Among(<< >>, S) \in Seq(U \cap S) /\ Len(Among(<< >>, S)) <= Len(<< >>)
    BY <2>1, <2>2
  <2> QED BY <2>2, <2>3
<1>2. ASSUME NEW s \in Seq(U), NEW x \in U, s \in T PROVE Append(s, x) \in T
  <2>1. Among(Append(s, x), S) = IF x \in S THEN Append(Among(s, S), x) ELSE Among(s, S)
    BY AmongAppend
  <2>2. /\ Len(Append(s, x)) = Len(s) + 1 /\ Append(s, x) \in Seq(U)
        /\ Among(s, S) \in Seq(U \cap S) /\ Len(Among(s, S)) <= Len(s)
    BY <1>2
  <2>3. CASE x \in S
    <3>1. x \in U \cap S
      BY <2>3
    <3>2. Append(Among(s, S), x) \in Seq(U \cap S) /\ Len(Append(Among(s, S), x)) = Len(Among(s, S)) + 1
      BY <2>2, <3>1
    <3>3. Among(Append(s, x), S) = Append(Among(s, S), x)
      BY <2>1, <2>3
    <3>4. Len(Among(s, S)) + 1 <= Len(s) + 1
      BY <2>2
    <3>5. Among(Append(s, x), S) \in Seq(U \cap S) /\ Len(Among(Append(s, x), S)) <= Len(Append(s, x))
      BY <2>2, <3>2, <3>3, <3>4
    <3> QED BY <2>2, <3>5
  <2>4. CASE x \notin S
    BY <2>1, <2>2, <2>4
  <2> QED BY <2>3, <2>4
<1> HIDE DEF T
<1>3. seq \in T
  BY <1>1, <1>2, SequenceInduction
<1> QED BY <1>3 DEF T

LEMMA AmongAll ==
  ASSUME NEW U, NEW seq \in Seq(U), NEW S, U \subseteq S
  PROVE  Among(seq, S) = seq
<1> DEFINE T == {s \in Seq(U) : Among(s, S) = s}
<1>1. << >> \in T
  BY AmongNone
<1>2. ASSUME NEW s \in Seq(U), NEW x \in U, s \in T PROVE Append(s, x) \in T
  BY <1>2, AmongAppend
<1> HIDE DEF T
<1>3. seq \in T
  BY <1>1, <1>2, SequenceInduction
<1> QED BY <1>3 DEF T

\* Of two sequences together there is left what is left of each.
LEMMA AmongBoth ==
  ASSUME NEW U, NEW p \in Seq(U), NEW q \in Seq(U), NEW S
  PROVE  Among(p \o q, S) = Among(p, S) \o Among(q, S)
<1> DEFINE T == {s \in Seq(U) : Among(p \o s, S) = Among(p, S) \o Among(s, S)}
<1>1. << >> \in T
  <2>1. p \o << >> = p /\ Among(p, S) \in Seq(U \cap S) /\ Among(<< >>, S) = << >>
    BY AmongNone, AmongType
  <2>2. Among(p, S) \o << >> = Among(p, S)
    BY <2>1
  <2> QED BY <2>1, <2>2
<1>2. ASSUME NEW s \in Seq(U), NEW x \in U, s \in T PROVE Append(s, x) \in T
  <2>1. p \o Append(s, x) = Append(p \o s, x) /\ p \o s \in Seq(U)
    OBVIOUS
  <2>2. Among(p, S) \in Seq(U) /\ Among(s, S) \in Seq(U)
    <3>1. Among(p, S) \in Seq(U \cap S) /\ Among(s, S) \in Seq(U \cap S)
      BY AmongType
    <3> QED BY <3>1
  <2>3. Among(p, S) \o Append(Among(s, S), x) = Append(Among(p, S) \o Among(s, S), x)
    BY <2>2
  <2>4. Among(p \o Append(s, x), S) = IF x \in S THEN Append(Among(p \o s, S), x) ELSE Among(p \o s, S)
    BY <2>1, AmongAppend
  <2>5. Among(Append(s, x), S) = IF x \in S THEN Append(Among(s, S), x) ELSE Among(s, S)
    BY AmongAppend
  <2>6. Among(p \o s, S) = Among(p, S) \o Among(s, S) /\ Append(s, x) \in Seq(U)
    BY <1>2
  <2>7. Among(p \o Append(s, x), S) = Among(p, S) \o Among(Append(s, x), S)
    BY <2>3, <2>4, <2>5, <2>6
  <2> QED BY <2>6, <2>7
<1> HIDE DEF T
<1>3. q \in T
  BY <1>1, <1>2, SequenceInduction
<1> QED BY <1>3 DEF T

-----------------------------------------------------------------------------
(* Rows.                                                                    *)

LEMMA RowsType ==
  ASSUME DeckAssumption, NEW w, NEW shown
  PROVE  /\ Rows(w) \in Seq(AllRows) /\ Visible(w, shown) \in Seq(AllRows \cap shown)
         /\ DOMAIN Visible(w, shown) \subseteq Places
<1>1. Proposals \in Seq(AllRows) /\ Sources \in Seq(AllRows)
  BY DEF DeckAssumption, AllRows
<1>2. Among(Sources, w.staged) \in Seq(AllRows) /\ Len(Among(Sources, w.staged)) <= Len(Sources)
  <2>1. Among(Sources, w.staged) \in Seq(AllRows \cap w.staged) /\ Len(Among(Sources, w.staged)) <= Len(Sources)
    BY <1>1, AmongType
  <2> QED BY <2>1
<1>3. Rows(w) \in Seq(AllRows) /\ Len(Rows(w)) <= Len(Proposals \o Sources)
  BY <1>1, <1>2 DEF Rows
<1>4. Visible(w, shown) \in Seq(AllRows \cap shown) /\ Len(Visible(w, shown)) <= Len(Rows(w))
  BY <1>3, AmongType DEF Visible
<1>5. Proposals \o Sources \in Seq(AllRows)
  BY <1>1
<1>6. Len(Visible(w, shown)) <= Len(Proposals \o Sources)
  BY <1>3, <1>4, <1>5
<1>7. DOMAIN Visible(w, shown) \subseteq DOMAIN (Proposals \o Sources)
  BY <1>4, <1>5, <1>6
<1> QED BY <1>3, <1>4, <1>7 DEF Places

\* Nothing hides a row from the table of all rows.
LEMMA AllAreVisible ==
  ASSUME DeckAssumption, NEW w
  PROVE  Visible(w, AllRows) = Rows(w)
BY RowsType, AmongAll DEF Visible

LEMMA SameStagedSameRows ==
  ASSUME NEW v, NEW w, NEW shown, v.staged = w.staged
  PROVE  Visible(v, shown) = Visible(w, shown)
BY DEF Visible, Rows

\* A proposal stays where it is, whatever sources are staged after it.
LEMMA ProposalsKeepTheirPlaces ==
  ASSUME DeckAssumption, NEW v, NEW w, NEW shown,
         NEW i \in DOMAIN Visible(v, shown), Visible(v, shown)[i] \in Elements(Proposals)
  PROVE  i \in DOMAIN Visible(w, shown) /\ Visible(w, shown)[i] = Visible(v, shown)[i]
<1> DEFINE P == Among(Proposals, shown)
           A(x) == Among(Sources, x.staged)
           Q(x) == Among(A(x), shown)
<1>1. ASSUME NEW x
      PROVE  /\ Visible(x, shown) = P \o Q(x) /\ P \in Seq(AllRows)
             /\ Q(x) \in Seq(Elements(Sources)) /\ Q(x) \in Seq(AllRows)
  <2>1. Sources \in Seq(Elements(Sources)) /\ Sources \in Seq(AllRows) /\ Proposals \in Seq(AllRows)
    BY DEF DeckAssumption, AllRows
  <2>2. A(x) \in Seq(Elements(Sources)) /\ A(x) \in Seq(AllRows)
    <3>1. A(x) \in Seq(Elements(Sources) \cap x.staged)
      BY <2>1, AmongType
    <3> QED BY <3>1 DEF AllRows
  <2>3. Q(x) \in Seq(Elements(Sources)) /\ Q(x) \in Seq(AllRows) /\ P \in Seq(AllRows)
    <3>1. Q(x) \in Seq(Elements(Sources) \cap shown) /\ P \in Seq(AllRows \cap shown)
      BY <2>1, <2>2, AmongType
    <3> QED BY <3>1 DEF AllRows
  <2>4. Visible(x, shown) = P \o Q(x)
    <3>1. Visible(x, shown) = Among(Proposals \o A(x), shown)
      BY DEF Visible, Rows
    <3> HIDE DEF A
    <3>2. Among(Proposals \o A(x), shown) = P \o Q(x)
      BY <2>1, <2>2, AmongBoth
    <3> QED BY <3>1, <3>2
  <2> QED BY <2>3, <2>4
<1> HIDE DEF P, Q
<1>2. i \in DOMAIN P
  <2>1. SUFFICES ASSUME i \notin DOMAIN P PROVE FALSE
    OBVIOUS
  <2>2. i - Len(P) \in DOMAIN Q(v) /\ Visible(v, shown)[i] = Q(v)[i - Len(P)]
    <3>1. /\ Visible(v, shown) = P \o Q(v) /\ P \in Seq(AllRows) /\ Q(v) \in Seq(AllRows)
      BY <1>1
    <3>2. i \in 1..(Len(P) + Len(Q(v))) /\ i \notin 1..Len(P) /\ Len(P) \in Nat /\ Len(Q(v)) \in Nat
      BY <2>1, <3>1
    <3>3. i - Len(P) \in 1..Len(Q(v)) /\ (P \o Q(v))[i] = Q(v)[i - Len(P)]
      BY <3>1, <3>2
    <3> QED BY <3>1, <3>3
  <2>3. Visible(v, shown)[i] \in Elements(Sources)
    BY <1>1, <2>2
  <2> QED BY <2>3 DEF DeckAssumption
<1>3. \A x : i \in DOMAIN (P \o Q(x)) /\ (P \o Q(x))[i] = P[i]
  BY <1>1, <1>2
<1> QED BY <1>1, <1>3

-----------------------------------------------------------------------------
(* The invariant.                                                           *)

Works == [unit : [Units -> Unit], staged : SUBSET Elements(Sources), sources : SUBSET Elements(Sources),
          included : SUBSET Auxiliary, commit : BOOLEAN]
Aimed == {"select", "review", "retry", "edit", "decide"}  \* commands that are given at a row
Anyone == AllRows \cup {None}

DeckType ==
  /\ work \in Works
  /\ screen \in {"workset", "review", "full", "confirm"}
  /\ menu \in [of : {"none", "resolution", "sections"}, row : Anyone] /\ (menu.of = "none" => menu = Closed)
  /\ box \in [open : BOOLEAN, before : Queries \cup {AllRows}]
  /\ filter \in Queries \cup {AllRows} /\ focus \in Places
  /\ widget \in [table : Seq(AllRows), cursor : Places, document : Anyone]
  /\ lane \in [at : {"idle", "queued", "done", "interrupted"},
               command : Aimed \cup {"none", "all"}, row : Anyone, asked : Anyone]
  /\ abort \in {"none", "editor", "session"}
  /\ result \in {"open", "unattended", "run", "stop", "executed"}
  /\ page \in [rows : SUBSET AllRows, commit : BOOLEAN]

\* An index is of a row that is shown, or 1 when none is.
InTable(i, rows) == i \in DOMAIN rows \/ (rows = << >> /\ i = 1)

\* The widgets show what the filter leaves, but between an edit and the end of its dispatch.
TableInv ==
  /\ ~(lane.at = "done" /\ lane.command = "edit") => widget.table = Visible(work, filter)
  /\ InTable(focus, widget.table) /\ InTable(widget.cursor, widget.table)

\* The review on the screen is of the focused row.
ReviewInv == Reads /\ ~(lane.at = "done" /\ lane.command \in {"edit", "review"}) => widget.document = Focused

\* A menu is of the focused row, and nothing that moves the focus is under way while it is open.
MenuInv ==
  menu # Closed =>
    /\ ~box.open /\ lane.command \notin {"edit", "review"}
    /\ menu.of = "resolution" => /\ screen = "workset" /\ focus = widget.cursor
                                 /\ menu.row = Focused /\ menu.row \in Units
    /\ menu.of = "sections" => screen = "review"

\* A dispatch is at the row it was given at, which stays focused until it has ended.
LaneInv ==
  /\ lane.at = "idle" => lane = Free
  /\ lane.at # "idle" /\ lane.command \in Aimed =>
       /\ screen # "confirm" /\ (screen = "workset" => focus = widget.cursor)
       /\ Focused = lane.asked /\ InTable(focus, Visible(work, filter))
       /\ lane.command \in {"retry", "edit", "decide"} => lane.asked \in Units
       /\ lane.at = "done" \/ lane.command \in {"retry", "decide"} => lane.row = lane.asked

\* The page is of the present selection.
PageInv ==
  (screen = "confirm" /\ result = "open") \/ result \in {"run", "executed"} =>
    page = [rows |-> Selected(work), commit |-> work.commit]

EndInv ==
  /\ lane.at # "idle" => result = "open"
  /\ result = "executed" => Confirmable

OpenInv == result = "open" => TableInv /\ ReviewInv /\ MenuInv /\ LaneInv
IInv == DeckType /\ OpenInv /\ PageInv /\ EndInv /\ AbortIsFinal

-----------------------------------------------------------------------------
(* What a dispatch leaves of the session.                                   *)

LEMMA RowTypes ==
  ASSUME DeckAssumption
  PROVE  /\ Units \subseteq AllRows /\ Auxiliary \subseteq AllRows /\ Elements(Sources) \subseteq AllRows
         /\ AllRows = Units \cup Auxiliary \cup Elements(Sources) /\ None \notin AllRows
BY DEF DeckAssumption, Units, AllRows

LEMMA MaterializedType ==
  ASSUME NEW u \in Units, NEW approved \in BOOLEAN, NEW how \in Hows
  PROVE  Materialized(u, approved, how[u]) \in Unit
BY DEF Hows, Materialized, Unit

LEMMA InvalidatedType ==
  ASSUME NEW w \in Works, NEW U, NEW how \in Hows
  PROVE  /\ Invalidated(w, U, how) \in Works
         /\ Invalidated(w, U, how).staged = w.staged
<1>1. ASSUME NEW u \in Units
      PROVE  (IF u \notin U THEN w.unit[u]
              ELSE IF w.unit[u].approved THEN Materialized(u, TRUE, how[u])
              ELSE [w.unit[u] EXCEPT !.proposal = "none"]) \in Unit
  <2>1. w.unit[u] \in Unit /\ Materialized(u, TRUE, how[u]) \in Unit
    BY MaterializedType DEF Works
  <2>2. [w.unit[u] EXCEPT !.proposal = "none"] \in Unit
    BY <2>1 DEF Unit
  <2> QED BY <2>1, <2>2
<1> QED BY <1>1 DEF Invalidated, Works

LEMMA WithType ==
  ASSUME NEW w \in Works, NEW u, NEW state \in Unit
  PROVE  With(w, u, state) \in Works /\ With(w, u, state).staged = w.staged
BY DEF With, Works

LEMMA ToggledType ==
  ASSUME DeckAssumption, NEW w \in Works, NEW r \in AllRows, NEW how \in Hows
  PROVE  Toggled(w, r, how) \in Works /\ Toggled(w, r, how).staged = w.staged
<1>1. CASE r \in Auxiliary
  BY <1>1 DEF Toggled, Works
<1>2. CASE r \notin Auxiliary /\ r \in Elements(Sources)
  <2> DEFINE v == [w EXCEPT !.sources = IF r \in @ THEN @ \ {r} ELSE @ \cup {r}]
  <2>1. v \in Works /\ v.staged = w.staged
    BY <1>2 DEF Works
  <2>2. Toggled(w, r, how) = Invalidated(v, Refs[r], how)
    BY <1>2 DEF Toggled
  <2> HIDE DEF v
  <2> QED BY <2>1, <2>2, InvalidatedType
<1>3. CASE r \notin Auxiliary /\ r \notin Elements(Sources)
  <2>1. r \in Units /\ w.unit[r] \in Unit
    BY <1>3, RowTypes DEF Works
  <2>2. [w.unit[r] EXCEPT !.approved = ~@] \in Unit
    BY <2>1 DEF Unit
  <2>3. Materialized(r, TRUE, how[r]) \in Unit
    BY <2>1, MaterializedType
  <2> QED BY <1>3, <2>2, <2>3, WithType DEF Toggled
<1> QED BY <1>1, <1>2, <1>3

LEMMA BatchedType ==
  ASSUME NEW w \in Works, NEW approve \in BOOLEAN, NEW scope, NEW how \in Hows
  PROVE  Batched(w, approve, scope, how) \in Works /\ Batched(w, approve, scope, how).staged = w.staged
<1> DEFINE Put(S, among) == IF approve THEN S \cup (among \cap scope) ELSE S \ (among \cap scope)
           units == [u \in Units |-> IF u \in scope /\ Approvable(w, u)
                       THEN [w.unit[u] EXCEPT !.approved = approve, !.proposal = "none"] ELSE w.unit[u]]
           v == [w EXCEPT !.included = Put(@, Auxiliary), !.sources = Put(@, w.staged), !.unit = units]
<1>1. units \in [Units -> Unit]
  <2>1. ASSUME NEW u \in Units PROVE units[u] \in Unit
    <3>1. w.unit[u] \in Unit
      BY DEF Works
    <3>2. [w.unit[u] EXCEPT !.approved = approve, !.proposal = "none"] \in Unit
      BY <3>1 DEF Unit
    <3> QED BY <3>1, <3>2
  <2> QED BY <2>1
<1>2. Put(w.included, Auxiliary) \subseteq Auxiliary /\ Put(w.sources, w.staged) \subseteq Elements(Sources)
  BY DEF Works
<1>3. v \in Works /\ v.staged = w.staged
  <2> HIDE DEF units, Put
  <2> QED BY <1>1, <1>2 DEF Works
<1>4. \E U : Batched(w, approve, scope, how) = Invalidated(v, U, how)
  BY DEF Batched
<1> HIDE DEF v
<1> QED BY <1>3, <1>4, InvalidatedType

LEMMA EditedType ==
  ASSUME NEW w \in Works, NEW u \in Units, NEW staged \in SUBSET Elements(Sources), NEW how \in Hows
  PROVE  Edited(w, u, staged, how) \in Works
<1> DEFINE mine == {s \in Elements(Sources) : u \in Refs[s]}
           v == [w EXCEPT !.staged = (w.staged \ mine) \cup (staged \cap mine)]
<1>1. v \in Works
  BY DEF Works
<1>2. Materialized(u, w.unit[u].approved, how[u]) \in Unit
  <2>1. w.unit[u].approved \in BOOLEAN
    BY DEF Works, Unit
  <2> QED BY <2>1, MaterializedType
<1>3. \E U : Edited(w, u, staged, how) = With(Invalidated(v, U, how), u, Materialized(u, w.unit[u].approved, how[u]))
  BY DEF Edited
<1> HIDE DEF v
<1> QED BY <1>1, <1>2, <1>3, InvalidatedType, WithType

LEMMA DispatchedType ==
  ASSUME DeckAssumption, work \in Works, NEW r \in Anyone, NEW how \in Hows,
         lane.command \in Aimed \cup {"none", "all"},
         lane.command \in {"retry", "edit", "decide"} => r \in Units,
         NEW next \in Dispatched(r, how)
  PROVE  /\ next \in Works
         /\ lane.command # "edit" => next.staged = work.staged
         /\ screen = "confirm" /\ lane.command \notin Aimed => next = work
<1>1. CASE lane.command \in {"all", "none"}
  <2> DEFINE scope == Elements(Visible(work, filter))
  <2>1. next = work \/ (screen # "confirm" /\ next = Batched(work, lane.command = "all", scope, how))
    BY <1>1 DEF Dispatched
  <2>2. \/ next = work
        \/ screen # "confirm" /\ (next = Batched(work, TRUE, scope, how) \/ next = Batched(work, FALSE, scope, how))
    <3>1. CASE lane.command = "all"
      <4>1. (lane.command = "all") = TRUE
        BY <3>1
      <4> QED BY <2>1, <4>1
    <3>2. CASE lane.command = "none"
      <4>1. (lane.command = "all") = FALSE
        BY <3>2
      <4> QED BY <2>1, <4>1
    <3> QED BY <1>1, <3>1, <3>2
  <2> HIDE DEF scope
  <2>3. \A approve \in BOOLEAN : Batched(work, approve, scope, how) \in Works
                                  /\ Batched(work, approve, scope, how).staged = work.staged
    BY BatchedType
  <2>4. next \in Works /\ next.staged = work.staged /\ (screen = "confirm" => next = work)
    BY <2>2, <2>3
  <2> QED BY <2>4
<1>2. CASE lane.command \in Aimed /\ r = None
  BY <1>2 DEF Dispatched, Aimed
<1>3. CASE lane.command \in Aimed /\ r # None
  <2>1. r \in AllRows
    BY <1>3 DEF Anyone
  <2>2. ASSUME r \in Units
        PROVE  /\ Materialized(r, work.unit[r].approved, how[r]) \in Unit /\ Materialized(r, TRUE, how[r]) \in Unit
               /\ Reviewed(work, r, how) \in Works /\ Reviewed(work, r, how).staged = work.staged
               /\ Retried(work, r, how) \in Works /\ Retried(work, r, how).staged = work.staged
               /\ Redecided(work, r, how) \in Works /\ Redecided(work, r, how).staged = work.staged
    <3>1. work.unit[r].approved \in BOOLEAN
      BY <2>2 DEF Works, Unit
    <3>2. Materialized(r, work.unit[r].approved, how[r]) \in Unit /\ Materialized(r, TRUE, how[r]) \in Unit
      BY <2>2, <3>1, MaterializedType
    <3>3. [approved |-> FALSE, proposal |-> "none", trouble |-> "none"] \in Unit
      BY DEF Unit
    <3> QED BY <3>2, <3>3, WithType DEF Reviewed, Retried, Redecided
  <2>3. CASE lane.command = "select"
    <3>1. next = Toggled(work, r, how)
      BY <1>3, <2>3 DEF Dispatched
    <3> QED BY <2>1, <2>3, <3>1, ToggledType DEF Aimed
  <2>4. CASE lane.command = "review"
    <3>1. next = IF r \in Units /\ ~Reads THEN Reviewed(work, r, how) ELSE work
      BY <1>3, <2>4 DEF Dispatched
    <3> QED BY <2>2, <2>4, <3>1 DEF Aimed
  <2>5. CASE lane.command = "retry"
    <3>1. next = Retried(work, r, how)
      BY <1>3, <2>5 DEF Dispatched
    <3> QED BY <2>2, <2>5, <3>1 DEF Aimed
  <2>6. CASE lane.command = "decide"
    <3>1. next = Redecided(work, r, how)
      BY <1>3, <2>6 DEF Dispatched
    <3> QED BY <2>2, <2>6, <3>1 DEF Aimed
  <2>7. CASE lane.command = "edit"
    <3>1. \/ next = work
          \/ next = With(work, r, [approved |-> FALSE, proposal |-> "none", trouble |-> "failed"])
          \/ \E S \in SUBSET Elements(Sources) : next = Edited(work, r, S, how)
      BY <1>3, <2>7 DEF Dispatched
    <3>2. [approved |-> FALSE, proposal |-> "none", trouble |-> "failed"] \in Unit
      BY DEF Unit
    <3> QED BY <2>7, <3>1, <3>2, WithType, EditedType DEF Aimed
  <2> QED BY <1>3, <2>3, <2>4, <2>5, <2>6, <2>7 DEF Aimed
<1> QED BY <1>1, <1>2, <1>3

-----------------------------------------------------------------------------
(* Every step keeps the invariant.                                          *)

LEMMA InitHolds == ASSUME DeckAssumption, Init PROVE IInv
<1>1. work \in Works /\ work.staged = {}
  BY DEF Init, Works, Unit
<1>2. /\ widget.table = Visible(work, AllRows) /\ widget.table \in Seq(AllRows) /\ filter = AllRows
      /\ widget = [table |-> Rows(work), cursor |-> 1, document |-> None]
  BY AllAreVisible, RowsType DEF Init
<1>3. InTable(1, widget.table)
  BY <1>2 DEF InTable
<1>4. DeckType
  BY <1>1, <1>2 DEF Init, DeckType, Closed, Shut, Free, Anyone, Places, Aimed
<1>5. OpenInv
  BY <1>2, <1>3 DEF Init, OpenInv, TableInv, ReviewInv, MenuInv, LaneInv, Free, Reads, Aimed
<1>6. PageInv /\ EndInv /\ AbortIsFinal
  BY DEF Init, PageInv, EndInv, AbortIsFinal, Free
<1> QED BY <1>4, <1>5, <1>6 DEF IInv

\* The indices that the deck computes are of rows that are there.
LEMMA IndicesAreIn ==
  ASSUME NEW U, NEW rows \in Seq(U), NEW i \in Nat \ {0}, NEW r
  PROVE  /\ InTable(Clamped(i, rows), rows)
         /\ InTable(i, rows) => Clamped(i, rows) = i
         /\ InTable(IndexOf(rows, r), rows)
<1>1. rows # << >> => 1 \in DOMAIN rows /\ Len(rows) \in DOMAIN rows
  OBVIOUS
<1>2. InTable(Clamped(i, rows), rows) /\ (InTable(i, rows) => Clamped(i, rows) = i)
  BY <1>1 DEF InTable, Clamped
<1>3. InTable(IndexOf(rows, r), rows)
  BY <1>1 DEF InTable, IndexOf, Elements
<1> QED BY <1>2, <1>3

LEMMA AtType ==
  ASSUME DeckAssumption, NEW w, NEW shown, NEW i, InTable(i, Visible(w, shown))
  PROVE  /\ i \in Places /\ At(Visible(w, shown), i) \in Anyone
         /\ Visible(w, shown) \in Seq(AllRows)
<1>1. Visible(w, shown) \in Seq(AllRows \cap shown) /\ DOMAIN Visible(w, shown) \subseteq Places
  BY RowsType
<1> QED BY <1>1 DEF InTable, At, Anyone, Places

\* What is on the screen while nothing runs is the focused row.
LEMMA AtRest ==
  ASSUME DeckAssumption, IInv, Idle
  PROVE  /\ result = "open" /\ lane = Free /\ abort # "session" /\ (screen # "confirm" => Pointed = Shown)
         /\ widget.table = Visible(work, filter) /\ Shown \in Anyone /\ Focused \in Anyone /\ Pointed \in Anyone
         /\ InTable(Synced, Visible(work, filter)) /\ Synced \in Places
         /\ TableInv /\ ReviewInv /\ MenuInv /\ LaneInv /\ DeckType /\ PageInv
<1>1. /\ result = "open" /\ lane = Free /\ abort # "session" /\ widget.table = Visible(work, filter)
      /\ InTable(focus, Visible(work, filter)) /\ InTable(widget.cursor, Visible(work, filter))
      /\ TableInv /\ ReviewInv /\ MenuInv /\ LaneInv /\ DeckType /\ PageInv
  BY DEF IInv, Idle, OpenInv, TableInv, LaneInv, Free
<1>2. InTable(Synced, Visible(work, filter)) /\ Synced \in Places /\ Focused \in Anyone /\ Pointed \in Anyone
  BY <1>1, AtType DEF Synced, Focused, Pointed
<1>3. Shown \in Anyone
  BY <1>1, AtType DEF Shown, DeckType
<1>4. screen # "confirm" => Pointed = Shown
  BY <1>1 DEF Pointed, Synced, Shown, DeckType, Reads, ReviewInv, Focused, Free
<1> QED BY <1>1, <1>2, <1>3, <1>4

\* What is to be shown of a step in which the deck is at rest.
LEMMA RestStep ==
  ASSUME IInv, Idle, UNCHANGED <<abort, result>>, DeckType', TableInv', ReviewInv', MenuInv', LaneInv', PageInv'
  PROVE  IInv'
BY DEF IInv, Idle, OpenInv, EndInv, AbortIsFinal

LEMMA SamePage ==
  ASSUME PageInv, UNCHANGED <<work, page, result>>, screen' = "confirm" => screen = "confirm"
  PROVE  PageInv'
BY DEF PageInv, Selected, Approved

LEMMA NavigateStep == ASSUME DeckAssumption, IInv, Navigate PROVE IInv'
<1>1. Idle /\ screen = "workset" /\ menu = Closed /\ UNCHANGED <<work, abort, result, page, screen, menu, box, filter, lane>>
  BY DEF Navigate, Keys, Rest
<1>2. PICK i \in DOMAIN widget.table : widget' = [widget EXCEPT !.cursor = i] /\ focus' = i
  BY DEF Navigate
<1>3. /\ widget.table = Visible(work, filter) /\ InTable(i, Visible(work, filter)) /\ lane = Free
      /\ TableInv /\ ReviewInv /\ MenuInv /\ LaneInv /\ DeckType /\ PageInv
  BY <1>1, <1>2, AtRest DEF InTable
<1>4. i \in Places
  BY <1>3, AtType
<1>5. /\ widget'.table = widget.table /\ widget'.cursor = i /\ widget'.document = widget.document
      /\ widget' \in [table : Seq(AllRows), cursor : Places, document : Anyone]
  BY <1>2, <1>3, <1>4 DEF DeckType
<1>6. DeckType'
  BY <1>1, <1>2, <1>3, <1>4, <1>5 DEF DeckType, Closed
<1>7. TableInv' /\ ReviewInv' /\ MenuInv' /\ LaneInv'
  BY <1>1, <1>2, <1>3, <1>5 DEF TableInv, ReviewInv, MenuInv, LaneInv, Reads, Free, Closed
<1> QED BY <1>1, <1>3, <1>6, <1>7, RestStep, SamePage

LEMMA ViewStep == ASSUME DeckAssumption, IInv, FullView \/ OpenBox PROVE IInv'
<1>1. /\ Keys /\ Idle /\ menu = Closed /\ screen # "confirm" /\ screen' \in {screen, "full"}
      /\ UNCHANGED <<work, abort, result, page, filter, focus, widget, lane>>
  BY DEF FullView, OpenBox, Keys, Rest
<1>2. /\ screen' = screen \/ (screen = "review" /\ screen' = "full" /\ box' = box /\ menu' = menu)
      /\ menu' = menu \/ (menu' = [of |-> "sections", row |-> Shown] /\ screen = "review" /\ screen' = screen /\ box' = box)
      /\ box' \in [open : BOOLEAN, before : Queries \cup {AllRows}]
  <2>1. box \in [open : BOOLEAN, before : Queries \cup {AllRows}] /\ filter \in Queries \cup {AllRows}
    BY DEF IInv, DeckType
  <2>2. CASE FullView
    BY <2>1, <2>2 DEF FullView
  <2>3. CASE OpenBox
    BY <2>1, <2>3 DEF OpenBox
  <2> QED BY <2>2, <2>3
<1>3. /\ Shown \in Anyone /\ lane = Free
      /\ TableInv /\ ReviewInv /\ MenuInv /\ LaneInv /\ DeckType /\ PageInv
  BY <1>1, AtRest
<1>4. DeckType'
  BY <1>1, <1>2, <1>3 DEF DeckType, Closed
<1>5. TableInv' /\ ReviewInv' /\ LaneInv'
  BY <1>1, <1>2, <1>3 DEF TableInv, ReviewInv, LaneInv, Reads, Focused, Free
<1>6. MenuInv'
  BY <1>1, <1>2, <1>3 DEF MenuInv, Closed, Keys, Free
<1>7. screen' = "confirm" => screen = "confirm"
  BY <1>1
<1> QED BY <1>1, <1>3, <1>4, <1>5, <1>6, <1>7, RestStep, SamePage

LEMMA ConfirmStep == ASSUME DeckAssumption, IInv, Confirm \/ ToggleCommit PROVE IInv'
<1>1. Keys /\ Idle /\ UNCHANGED <<abort, result, filter, focus, widget, lane, box>> /\ menu' \in {menu, Closed}
  BY DEF Confirm, ToggleCommit, Keys, deck
<1>2. /\ lane = Free /\ TableInv /\ ReviewInv /\ MenuInv /\ LaneInv /\ DeckType /\ PageInv /\ result = "open"
  BY <1>1, AtRest
<1>3. /\ work'.staged = work.staged /\ work' \in Works /\ Selected(work') = Selected(work)
      /\ page' \in [rows : SUBSET AllRows, commit : BOOLEAN]
      /\ screen' = "confirm" => page' = [rows |-> Selected(work'), commit |-> work'.commit]
      /\ screen' = screen \/ (screen' = "confirm" /\ menu' = Closed)
  <2>1. CASE Confirm
    <3>1. Selected(work) \subseteq AllRows /\ work.commit \in BOOLEAN /\ work' = work
      BY <1>2, <2>1, RowTypes DEF Confirm, DeckType, Works, Selected, Approved
    <3>2. page' = page \/ page' = [rows |-> Selected(work), commit |-> work.commit]
      BY <2>1 DEF Confirm
    <3>3. page' \in [rows : SUBSET AllRows, commit : BOOLEAN]
      BY <1>2, <3>1, <3>2 DEF DeckType
    <3> QED BY <1>2, <2>1, <3>1, <3>3 DEF Confirm, PageInv, DeckType
  <2>2. CASE ToggleCommit
    <3>1. /\ work' = [work EXCEPT !.commit = ~@] /\ page' = [page EXCEPT !.commit = ~@] /\ screen = "confirm" /\ screen' = screen
          /\ work \in Works /\ page = [rows |-> Selected(work), commit |-> work.commit]
          /\ page \in [rows : SUBSET AllRows, commit : BOOLEAN]
      BY <1>2, <2>2 DEF ToggleCommit, deck, PageInv, DeckType
    <3>2. /\ work' \in Works /\ work'.staged = work.staged /\ work'.unit = work.unit /\ work'.sources = work.sources
          /\ work'.included = work.included /\ work'.commit = ~work.commit
      BY <3>1 DEF Works
    <3>3. Selected(work') = Selected(work)
      BY <3>2 DEF Selected, Approved
    <3>4. page' = [rows |-> Selected(work'), commit |-> work'.commit]
      BY <3>1, <3>2, <3>3
    <3> QED BY <3>1, <3>2, <3>3, <3>4
  <2> QED BY <2>1, <2>2
<1>4. Visible(work', filter') = Visible(work, filter)
  BY <1>1, <1>3, SameStagedSameRows
<1>5. DeckType'
  BY <1>1, <1>2, <1>3 DEF DeckType, Closed, Anyone
<1>6. TableInv' /\ ReviewInv' /\ LaneInv'
  BY <1>1, <1>2, <1>3, <1>4 DEF TableInv, ReviewInv, LaneInv, Reads, Focused, Free
<1>7. MenuInv'
  BY <1>1, <1>2, <1>3, <1>4 DEF MenuInv, Focused, Free, Closed
<1>8. PageInv'
  BY <1>1, <1>2, <1>3 DEF PageInv
<1> QED BY <1>1, <1>5, <1>6, <1>7, <1>8, RestStep

LEMMA ExecuteStep == ASSUME DeckAssumption, IInv, Execute PROVE IInv'
<1>1. /\ screen = "confirm" /\ Idle /\ result = "open" /\ lane.at = "idle" /\ abort # "session" /\ result' = "run"
      /\ UNCHANGED <<work, screen, menu, box, filter, focus, widget, lane, abort, page>>
  BY DEF Execute, Keys, Idle, deck
<1>2. DeckType' /\ OpenInv' /\ EndInv' /\ AbortIsFinal'
  BY <1>1 DEF IInv, DeckType, OpenInv, EndInv, AbortIsFinal
<1>3. PageInv'
  BY <1>1 DEF IInv, PageInv, Selected, Approved
<1> QED BY <1>2, <1>3 DEF IInv

LEMMA UpdatedStep ==
  ASSUME DeckAssumption, IInv, Idle, NEW shown, NEW index, Updated(work, shown, index), work' = work,
         InTable(index, Visible(work, shown))
  PROVE  /\ focus' \in Places /\ widget' \in [table : Seq(AllRows), cursor : Places, document : Anyone]
         /\ widget'.table = Visible(work', shown)
         /\ InTable(focus', widget'.table) /\ InTable(widget'.cursor, widget'.table)
<1> DEFINE rows == Visible(work, shown)
<1>1. rows \in Seq(AllRows) /\ index \in Places /\ index \in Nat \ {0}
  <2>1. rows \in Seq(AllRows) /\ index \in Places
    BY AtType
  <2> QED BY <2>1 DEF InTable
<1>2. InTable(Clamped(index, rows), rows) /\ Clamped(index, rows) \in Places
  <2>1. InTable(Clamped(index, rows), rows)
    BY <1>1, IndicesAreIn
  <2> QED BY <2>1, AtType
<1>3. /\ widget \in [table : Seq(AllRows), cursor : Places, document : Anyone] /\ TableInv
      /\ InTable(widget.cursor, widget.table)
  BY AtRest DEF DeckType, TableInv
<1>4. Visible(work', shown) = rows
  OBVIOUS
<1>5. CASE widget.table = rows
  BY <1>1, <1>3, <1>4, <1>5 DEF Updated
<1>6. CASE widget.table # rows
  <2>1. focus' = Clamped(index, rows) /\ widget' = [widget EXCEPT !.table = rows, !.cursor = Clamped(index, rows)]
    BY <1>6 DEF Updated
  <2>2. widget'.table = rows /\ widget'.cursor = Clamped(index, rows)
    BY <1>3, <2>1
  <2>3. widget' \in [table : Seq(AllRows), cursor : Places, document : Anyone]
    BY <1>1, <1>2, <1>3, <2>1
  <2> QED BY <1>2, <1>4, <2>1, <2>2, <2>3
<1> QED BY <1>5, <1>6

LEMMA FilterStep ==
  ASSUME DeckAssumption, IInv, Idle, NEW shown \in Queries \cup {AllRows}, ApplyFilter(shown), work' = work
  PROVE  /\ filter' \in Queries \cup {AllRows}
         /\ focus' \in Places /\ widget' \in [table : Seq(AllRows), cursor : Places, document : Anyone]
         /\ widget'.table = Visible(work', filter')
         /\ InTable(focus', widget'.table) /\ InTable(widget'.cursor, widget'.table)
<1> DEFINE rows == Visible(work, shown)
<1>1. rows \in Seq(AllRows)
  <2>1. rows \in Seq(AllRows \cap shown)
    BY RowsType
  <2> QED BY <2>1
<1>2. InTable(IndexOf(rows, Focused), rows)
  BY <1>1, IndicesAreIn
<1>3. filter' = shown /\ Updated(work, shown, IndexOf(rows, Focused))
  BY DEF ApplyFilter
<1> HIDE DEF rows
<1> QED BY <1>2, <1>3, UpdatedStep DEF rows

\* A step that builds the table again, away from any review and with no menu open.
LEMMA FilteredStep ==
  ASSUME DeckAssumption, IInv, Idle, UNCHANGED <<work, abort, result, page, lane>>,
         screen' \in {"workset", "confirm"}, screen' = "confirm" => screen = "confirm",
         menu' = Closed, box' \in [open : BOOLEAN, before : Queries \cup {AllRows}],
         filter' \in Queries \cup {AllRows},
         focus' \in Places, widget' \in [table : Seq(AllRows), cursor : Places, document : Anyone],
         widget'.table = Visible(work', filter'), InTable(focus', widget'.table), InTable(widget'.cursor, widget'.table)
  PROVE  IInv'
<1>1. DeckType /\ PageInv /\ LaneInv /\ lane = Free /\ Closed \in [of : {"none", "resolution", "sections"}, row : Anyone]
  BY AtRest DEF Closed, Anyone
<1>2. DeckType'
  BY <1>1 DEF DeckType, Closed
<1>3. TableInv' /\ ReviewInv' /\ MenuInv' /\ LaneInv'
  BY <1>1 DEF TableInv, ReviewInv, MenuInv, LaneInv, Reads, Free
<1>4. PageInv'
  BY <1>1, SamePage
<1> QED BY <1>2, <1>3, <1>4, RestStep

LEMMA BoxStep == ASSUME DeckAssumption, IInv, Type \/ Submit \/ Back PROVE IInv'
<1>1. Idle /\ UNCHANGED <<work, abort, result, page, lane>>
  BY DEF Type, Submit, Back, Rest
<1>2. /\ DeckType /\ TableInv /\ ReviewInv /\ MenuInv /\ LaneInv /\ PageInv /\ lane = Free
      /\ widget.table = Visible(work, filter)
  BY <1>1, AtRest
<1>3. AllRows \in Queries \cup {AllRows} /\ box.before \in Queries \cup {AllRows}
      /\ Shut \in [open : BOOLEAN, before : Queries \cup {AllRows}] /\ box \in [open : BOOLEAN, before : Queries \cup {AllRows}]
  BY <1>2 DEF DeckType, Shut
<1>4. CASE Type
  <2>1. menu = Closed /\ screen = "workset" /\ UNCHANGED <<screen, menu, box>>
    BY <1>2, <1>4 DEF Type, MenuInv
  <2>2. PICK query \in Queries \cup {AllRows} : ApplyFilter(query)
    BY <1>4 DEF Type
  <2> QED BY <1>1, <1>3, <2>1, <2>2, FilterStep, FilteredStep
\* nothing but the box, the menu or the Full View is left
<1>5. ASSUME UNCHANGED <<filter, focus, widget>>, menu' \in {menu, Closed}, box' \in {box, Shut},
             screen' = screen \/ (screen = "full" /\ screen' = "review" /\ menu' = Closed)
      PROVE  IInv'
  <2>1. DeckType'
    BY <1>1, <1>2, <1>3, <1>5 DEF DeckType, Closed, Anyone
  <2>2. TableInv' /\ ReviewInv' /\ LaneInv'
    BY <1>1, <1>2, <1>5 DEF TableInv, ReviewInv, LaneInv, Reads, Focused, Free
  <2>3. MenuInv'
    BY <1>1, <1>2, <1>5 DEF MenuInv, Focused, Free, Closed, Shut
  <2>4. PageInv'
    BY <1>1, <1>2, <1>5, SamePage
  <2> QED BY <1>1, <2>1, <2>2, <2>3, <2>4, RestStep
<1>6. CASE Submit
  <2>1. menu = Closed /\ box' = Shut /\ UNCHANGED <<screen, menu>>
    BY <1>2, <1>6 DEF Submit, MenuInv
  <2>2. \/ screen = "workset" /\ ApplyFilter(AllRows)
        \/ UNCHANGED <<filter, focus, widget>>
    BY <1>6 DEF Submit
  <2>3. CASE screen = "workset" /\ ApplyFilter(AllRows)
    BY <1>1, <1>3, <2>1, <2>3, FilterStep, FilteredStep
  <2> QED BY <1>5, <2>1, <2>2, <2>3
<1>7. CASE Back
  <2>1. CASE box.open /\ ~Reads
    <3>1. menu = Closed /\ box' = Shut /\ UNCHANGED <<menu, screen>> /\ ApplyFilter(box.before)
      BY <1>2, <1>7, <2>1 DEF Back, MenuInv
    <3>2. screen \in {"workset", "confirm"}
      BY <1>2, <2>1 DEF DeckType, Reads
    <3> QED BY <1>1, <1>3, <3>1, <3>2, FilterStep, FilteredStep
  <2>2. CASE ~box.open /\ menu = Closed /\ screen = "workset"
    <3>1. UNCHANGED <<box, menu, screen>> /\ ApplyFilter(AllRows)
      BY <1>7, <2>2 DEF Back
    <3> QED BY <1>1, <1>3, <2>2, <3>1, FilterStep, FilteredStep
  <2>3. CASE ~box.open /\ menu = Closed /\ screen \in {"review", "confirm"}
    <3>1. UNCHANGED <<box, menu, filter>> /\ screen' = "workset" /\ Updated(work, filter, focus)
      BY <1>7, <2>3 DEF Back
    <3>2. InTable(focus, Visible(work, filter)) /\ filter' \in Queries \cup {AllRows}
      BY <1>2, <3>1 DEF TableInv, DeckType
    <3> QED BY <1>1, <1>3, <2>3, <3>1, <3>2, UpdatedStep, FilteredStep
  <2>4. CASE \/ box.open /\ Reads
             \/ ~box.open /\ menu # Closed
             \/ ~box.open /\ menu = Closed /\ screen = "full"
    <3>1. /\ UNCHANGED <<filter, focus, widget>> /\ menu' \in {menu, Closed} /\ box' \in {box, Shut}
          /\ screen' = screen \/ (screen = "full" /\ screen' = "review" /\ menu' = Closed)
      BY <1>7, <2>4 DEF Back
    <3> QED BY <1>5, <3>1
  <2> QED BY <1>2, <2>1, <2>2, <2>3, <2>4 DEF DeckType
<1> QED BY <1>4, <1>6, <1>7

\* A command that is admitted at the focused row.
LEMMA AdmitStep ==
  ASSUME DeckAssumption, IInv, Idle, UNCHANGED <<work, abort, result, page, screen, filter>>,
         NEW command \in Aimed, NEW row \in Anyone, NEW asked \in Anyone, Admit(command, row, asked),
         screen # "confirm", Reads => focus' = focus,
         widget' \in [table : Seq(AllRows), cursor : Places, document : Anyone],
         widget'.table = widget.table, widget'.document = widget.document,
         InTable(focus', widget.table), InTable(widget'.cursor, widget.table),
         screen = "workset" => focus' = widget'.cursor,
         At(Visible(work, filter), focus') = asked,
         command \in {"retry", "edit", "decide"} => asked \in Units,
         command \in {"retry", "decide"} => row = asked,
         box' \in [open : BOOLEAN, before : Queries \cup {AllRows}],
         \/ menu' = Closed
         \/ UNCHANGED <<menu, box, focus, widget>> /\ command \notin {"edit", "review"}
  PROVE  IInv'
<1>1. /\ DeckType /\ TableInv /\ ReviewInv /\ MenuInv /\ LaneInv /\ PageInv /\ lane = Free
      /\ widget.table = Visible(work, filter) /\ result = "open" /\ abort # "session"
  BY AtRest
<1>2. /\ lane' = [at |-> "queued", command |-> command, row |-> row, asked |-> asked]
      /\ Visible(work', filter') = Visible(work, filter) /\ Focused' = asked
  BY DEF Admit, Focused
<1>3. focus' \in Places /\ lane'.at = "queued" /\ lane'.command = command /\ lane'.row = row /\ lane'.asked = asked
  BY <1>1, <1>2, AtType
<1>4. DeckType'
  <2>1. menu' \in [of : {"none", "resolution", "sections"}, row : Anyone] /\ (menu'.of = "none" => menu' = Closed')
    BY <1>1 DEF DeckType, Closed, Anyone
  <2>2. lane' \in [at : {"idle", "queued", "done", "interrupted"},
                   command : Aimed \cup {"none", "all"}, row : Anyone, asked : Anyone]
    BY <1>2
  <2> QED BY <1>1, <1>3, <2>1, <2>2 DEF DeckType
<1>5. TableInv' /\ LaneInv'
  BY <1>1, <1>2, <1>3 DEF TableInv, LaneInv
<1>6. ReviewInv'
  <2>1. Reads' => Reads /\ focus' = focus
    BY DEF Reads
  <2>2. Reads => widget.document = Focused
    BY <1>1 DEF ReviewInv, Free
  <2> QED BY <1>2, <2>1, <2>2 DEF ReviewInv, Focused
<1>7. MenuInv'
  BY <1>1, <1>2, <1>3 DEF MenuInv, Focused, Closed
<1>8. PageInv' /\ OpenInv' /\ EndInv' /\ AbortIsFinal'
  BY <1>1, <1>3, <1>5, <1>6, <1>7, SamePage DEF OpenInv, EndInv, AbortIsFinal
<1> QED BY <1>4, <1>8 DEF IInv

\* A key that acts on the row the cursor or the review is at.
LEMMA KeyStep ==
  ASSUME DeckAssumption, IInv, Keys, UNCHANGED <<work, abort, result, page, screen, filter, menu, box, widget>>,
         screen \in {"workset", "review"}, focus' = Synced,
         NEW command \in Aimed, NEW row \in Anyone, Admit(command, row, Shown),
         command \in {"retry", "edit", "decide"} => Pointed \in Units,
         command \in {"retry", "decide"} => row = Pointed,
         menu = Closed \/ command \notin {"edit", "review"}
  PROVE  IInv'
<1>1. Idle
  BY DEF Keys
<1>2. /\ Pointed = Shown /\ Shown \in Anyone /\ InTable(Synced, Visible(work, filter)) /\ widget.table = Visible(work, filter)
      /\ DeckType /\ TableInv /\ MenuInv /\ lane = Free
  BY <1>1, AtRest
<1>3. screen = "workset" => focus' = widget.cursor
  BY DEF Synced
<1>4. Reads => focus' = focus
  BY DEF Reads, Synced
<1>5. menu # Closed => focus' = focus
  <2>1. CASE screen = "workset"
    BY <1>2, <1>3, <2>1 DEF MenuInv, DeckType
  <2>2. CASE screen = "review"
    BY <1>4, <2>2 DEF Reads
  <2> QED BY <2>1, <2>2
<1>6. At(Visible(work, filter), focus') = Shown
  BY <1>2 DEF Pointed
<1>7. /\ widget \in [table : Seq(AllRows), cursor : Places, document : Anyone]
      /\ box \in [open : BOOLEAN, before : Queries \cup {AllRows}]
      /\ InTable(focus', widget.table) /\ InTable(widget.cursor, widget.table)
  BY <1>2 DEF DeckType, TableInv
<1> QED BY <1>1, <1>2, <1>3, <1>4, <1>5, <1>6, <1>7, AdmitStep

LEMMA KeysStep == ASSUME DeckAssumption, IInv, Select \/ Review \/ Retry \/ Edit PROVE IInv'
<1>1. /\ Keys /\ Idle /\ screen \in {"workset", "review"} /\ focus' = Synced
      /\ UNCHANGED <<work, abort, result, page, screen, filter, menu, box, widget>>
  BY DEF Select, Review, Retry, Edit, Rest, Keys
<1>2. Pointed \in Anyone /\ None \in Anyone
  BY <1>1, AtRest DEF Anyone
<1>3. {"select", "review", "retry", "edit"} \subseteq Aimed
  BY DEF Aimed
<1>4. CASE Select \/ Review
  <2>1. menu = Closed /\ \E command \in {"select", "review"} : Admit(command, None, Shown)
    BY <1>4 DEF Select, Review
  <2> QED BY <1>1, <1>2, <1>3, <2>1, KeyStep
<1>5. CASE Retry
  BY <1>1, <1>2, <1>3, <1>5, KeyStep DEF Retry
<1>6. CASE Edit
  BY <1>1, <1>2, <1>3, <1>6, KeyStep DEF Edit
<1> QED BY <1>4, <1>5, <1>6

LEMMA ResolutionStep == ASSUME DeckAssumption, IInv, Resolution PROVE IInv'
<1>1. /\ Keys /\ Idle /\ ~box.open /\ screen = "workset" /\ Pointed \in Units /\ focus' = Synced /\ Synced = widget.cursor
      /\ UNCHANGED <<work, abort, result, page, screen, filter, box, widget>>
  BY DEF Resolution, Keys, Rest, Synced
<1>2. CASE Pointed \in Menus
  <2>1. menu' = [of |-> "resolution", row |-> Shown] /\ lane' = lane
    BY <1>2 DEF Resolution
  <2>2. /\ Pointed = Shown /\ Shown \in Anyone /\ widget.table = Visible(work, filter) /\ lane = Free
        /\ InTable(Synced, Visible(work, filter)) /\ Synced \in Places
        /\ DeckType /\ TableInv /\ ReviewInv /\ LaneInv /\ PageInv
    BY <1>1, AtRest
  <2>3. Focused' = Shown
    BY <1>1, <2>2 DEF Focused, Pointed
  <2>4. DeckType'
    BY <1>1, <2>1, <2>2 DEF DeckType, Closed
  <2>5. TableInv' /\ ReviewInv' /\ LaneInv'
    BY <1>1, <2>1, <2>2 DEF TableInv, ReviewInv, LaneInv, Reads, Free
  <2>6. MenuInv'
    BY <1>1, <2>1, <2>2, <2>3 DEF MenuInv, Free
  <2>7. PageInv'
    BY <1>1, <2>2, SamePage
  <2> QED BY <1>1, <2>4, <2>5, <2>6, <2>7, RestStep
<1>3. CASE Pointed \notin Menus
  <2>1. Admit("decide", Pointed, Shown) /\ menu' = menu /\ "decide" \in Aimed /\ Pointed \in Anyone
    BY <1>1, <1>3, AtRest DEF Resolution, Aimed
  <2> QED BY <1>1, <2>1, KeyStep
<1> QED BY <1>2, <1>3

LEMMA ChooseStep == ASSUME DeckAssumption, IInv, Choose PROVE IInv'
<1>1. /\ Keys /\ Idle /\ ~box.open /\ menu # Closed /\ menu' = Closed
      /\ UNCHANGED <<work, abort, result, page, filter, box, focus, widget>>
  BY DEF Choose, Keys, Rest
<1>2. /\ widget.table = Visible(work, filter) /\ lane = Free /\ Focused \in Anyone
      /\ DeckType /\ TableInv /\ ReviewInv /\ MenuInv /\ LaneInv /\ PageInv
  BY <1>1, AtRest
<1>3. CASE menu.of = "resolution"
  <2>1. Admit("decide", Focused, menu.row) /\ screen' = screen /\ "decide" \in Aimed
    BY <1>3 DEF Choose, Aimed
  <2>2. screen = "workset" /\ focus = widget.cursor /\ menu.row = Focused /\ menu.row \in Units
    BY <1>1, <1>2, <1>3 DEF MenuInv
  <2>3. /\ widget \in [table : Seq(AllRows), cursor : Places, document : Anyone]
        /\ box \in [open : BOOLEAN, before : Queries \cup {AllRows}]
        /\ InTable(focus, widget.table) /\ InTable(widget.cursor, widget.table)
        /\ At(Visible(work, filter), focus) = menu.row
    BY <1>2, <2>2 DEF DeckType, TableInv, Focused
  <2> QED BY <1>1, <1>2, <2>1, <2>2, <2>3, AdmitStep DEF Reads
<1>4. CASE menu.of # "resolution"
  <2>1. screen = "review" /\ screen' = "full" /\ lane' = lane
    BY <1>1, <1>2, <1>4 DEF Choose, MenuInv, DeckType
  <2>2. DeckType'
    BY <1>1, <1>2, <2>1 DEF DeckType, Closed, Anyone
  <2>3. TableInv' /\ ReviewInv' /\ MenuInv' /\ LaneInv'
    BY <1>1, <1>2, <2>1 DEF TableInv, ReviewInv, MenuInv, LaneInv, Reads, Focused, Free, Closed
  <2>4. PageInv'
    BY <1>1, <1>2, <2>1, SamePage
  <2> QED BY <1>1, <2>2, <2>3, <2>4, RestStep
<1> QED BY <1>3, <1>4

LEMMA ClickStep == ASSUME DeckAssumption, IInv, Click PROVE IInv'
<1>1. /\ Idle /\ screen = "workset" /\ menu' = Closed /\ box' = Shut
      /\ UNCHANGED <<work, abort, result, page, screen, filter>>
  BY DEF Click, Rest
<1>2. PICK i \in DOMAIN widget.table, marker \in BOOLEAN :
        /\ widget' = [widget EXCEPT !.cursor = i] /\ focus' = i
        /\ IF marker THEN Admit("select", None, widget.table[i]) ELSE UNCHANGED lane
  BY DEF Click
<1>3. /\ widget.table = Visible(work, filter) /\ lane = Free /\ InTable(i, Visible(work, filter))
      /\ DeckType /\ TableInv /\ ReviewInv /\ MenuInv /\ LaneInv /\ PageInv
  BY <1>1, <1>2, AtRest DEF InTable
<1>4. i \in Places
  BY <1>3, AtType
<1>5. /\ widget'.table = widget.table /\ widget'.cursor = i /\ widget'.document = widget.document
      /\ widget' \in [table : Seq(AllRows), cursor : Places, document : Anyone]
      /\ box' \in [open : BOOLEAN, before : Queries \cup {AllRows}]
  BY <1>1, <1>2, <1>3, <1>4 DEF DeckType, Shut
<1>6. At(Visible(work, filter), i) = widget.table[i] /\ widget.table[i] \in Anyone /\ None \in Anyone /\ ~Reads
  BY <1>1, <1>2, <1>3 DEF At, Anyone, DeckType, Reads
<1>7. CASE marker
  <2>1. Admit("select", None, widget.table[i]) /\ "select" \in Aimed
    BY <1>2, <1>7 DEF Aimed
  <2> QED BY <1>1, <1>2, <1>3, <1>5, <1>6, <2>1, AdmitStep
<1>8. CASE ~marker
  <2>1. lane' = lane
    BY <1>2, <1>8
  <2> QED BY <1>1, <1>2, <1>3, <1>4, <1>5, <2>1, FilteredStep DEF DeckType
<1> QED BY <1>7, <1>8

LEMMA SelectAllStep == ASSUME DeckAssumption, IInv, SelectAll PROVE IInv'
<1>1. /\ Idle /\ menu = Closed
      /\ UNCHANGED <<work, abort, result, page, screen, menu, box, filter, focus, widget>>
  BY DEF SelectAll, Keys, Rest, deck
<1>2. PICK all \in {"all", "none"} : lane' = [at |-> "queued", command |-> all, row |-> None, asked |-> None]
  BY DEF SelectAll, Admit
<1>3. /\ DeckType /\ TableInv /\ ReviewInv /\ MenuInv /\ LaneInv /\ PageInv /\ lane = Free
      /\ widget.table = Visible(work, filter) /\ result = "open" /\ abort # "session"
  BY <1>1, AtRest
<1>4. DeckType'
  BY <1>1, <1>2, <1>3 DEF DeckType, Closed, Anyone
<1>5. TableInv' /\ ReviewInv' /\ MenuInv' /\ LaneInv'
  BY <1>1, <1>2, <1>3 DEF TableInv, ReviewInv, MenuInv, LaneInv, Reads, Focused, Free, Aimed, Closed
<1>6. PageInv'
  BY <1>1, <1>3, SamePage
<1> QED BY <1>1, <1>2, <1>3, <1>4, <1>5, <1>6 DEF IInv, OpenInv, EndInv, AbortIsFinal

LEMMA WorkStep == ASSUME DeckAssumption, IInv, Work PROVE IInv'
<1>1. /\ lane.at = "queued" /\ result = "open" /\ UNCHANGED <<menu, box, filter, focus, widget, abort, result, page>>
      /\ DeckType /\ TableInv /\ ReviewInv /\ MenuInv /\ LaneInv /\ PageInv
  BY DEF Work, IInv, OpenInv, EndInv
<1>2. CASE lane' = [lane EXCEPT !.at = "interrupted"] /\ abort = "session" /\ UNCHANGED <<work, screen>>
  <2>1. /\ lane'.at = "interrupted" /\ lane'.command = lane.command /\ lane'.row = lane.row /\ lane'.asked = lane.asked
        /\ lane' \in [at : {"idle", "queued", "done", "interrupted"},
                      command : Aimed \cup {"none", "all"}, row : Anyone, asked : Anyone]
    BY <1>1, <1>2 DEF DeckType
  <2>2. DeckType'
    BY <1>1, <1>2, <2>1 DEF DeckType, Closed
  <2>3. TableInv' /\ ReviewInv' /\ MenuInv' /\ LaneInv'
    BY <1>1, <1>2, <2>1 DEF TableInv, ReviewInv, MenuInv, LaneInv, Reads, Focused, Closed
  <2>4. PageInv'
    BY <1>1, <1>2, SamePage
  <2> QED BY <1>1, <1>2, <2>1, <2>2, <2>3, <2>4 DEF IInv, OpenInv, EndInv, AbortIsFinal
<1>3. ASSUME NEW how \in Hows, work' \in Dispatched(Target, how), lane' = [lane EXCEPT !.at = "done", !.row = Target],
             screen' = IF lane.command = "review" /\ Target \notin Auxiliary \cup {None} /\ ~Reads THEN "review" ELSE screen
      PROVE  IInv'
  <2>1. /\ Target \in Anyone /\ lane.command \in Aimed \cup {"none", "all"}
        /\ lane.command \in Aimed => Target = lane.asked
        /\ lane.command \in {"retry", "edit", "decide"} => Target \in Units
    <3>1. lane \in [at : {"idle", "queued", "done", "interrupted"},
                    command : Aimed \cup {"none", "all"}, row : Anyone, asked : Anyone]
      BY <1>1 DEF DeckType
    <3>2. CASE lane.command \in Aimed
      <4>1. /\ Focused = lane.asked /\ (lane.command \in {"retry", "edit", "decide"} => lane.asked \in Units)
            /\ lane.command \in {"retry", "decide"} => lane.row = lane.asked
        BY <1>1, <3>2 DEF LaneInv
      <4> QED BY <3>1, <3>2, <4>1 DEF Target, Aimed
    <3>3. CASE lane.command \in {"none", "all"}
      BY <3>1, <3>3 DEF Target, Aimed
    <3> QED BY <3>1, <3>2, <3>3
  <2>2. /\ work' \in Works /\ (lane.command # "edit" => work'.staged = work.staged)
        /\ screen = "confirm" /\ lane.command \notin Aimed => work' = work
    BY <1>1, <1>3, <2>1, DispatchedType DEF DeckType
  <2>3. /\ lane'.at = "done" /\ lane'.command = lane.command /\ lane'.row = Target /\ lane'.asked = lane.asked
        /\ lane' \in [at : {"idle", "queued", "done", "interrupted"},
                      command : Aimed \cup {"none", "all"}, row : Anyone, asked : Anyone]
    BY <1>1, <1>3, <2>1 DEF DeckType
  <2>4. lane.command # "edit" => Visible(work', filter') = Visible(work, filter) /\ Focused' = Focused
    <3>1. lane.command # "edit" => Visible(work', filter) = Visible(work, filter)
      BY <2>2, SameStagedSameRows
    <3> QED BY <1>1, <3>1 DEF Focused
  <2>5. lane.command \in Aimed => Focused' = lane.asked /\ InTable(focus', Visible(work', filter'))
    <3>1. ASSUME lane.command \in Aimed
          PROVE  Focused = lane.asked /\ InTable(focus, Visible(work, filter))
      BY <1>1, <3>1 DEF LaneInv
    <3>2. CASE lane.command # "edit"
      BY <1>1, <2>4, <3>1, <3>2
    <3>3. CASE lane.command = "edit"
      <4>1. lane.asked \in Units /\ Focused = lane.asked /\ InTable(focus, Visible(work, filter))
        BY <2>1, <3>1, <3>3 DEF Aimed
      <4>2. lane.asked \in Elements(Proposals) /\ lane.asked # None
        BY <4>1, RowTypes DEF Units
      <4>3. focus \in DOMAIN Visible(work, filter) /\ Visible(work, filter)[focus] = lane.asked
        BY <4>1, <4>2 DEF Focused, At, InTable
      <4>4. focus \in DOMAIN Visible(work', filter) /\ Visible(work', filter)[focus] = lane.asked
        BY <4>2, <4>3, ProposalsKeepTheirPlaces
      <4>5. Visible(work', filter) # << >>
        BY <4>4
      <4> QED BY <1>1, <4>4, <4>5 DEF Focused, At, InTable
    <3> QED BY <3>2, <3>3
  <2>6. DeckType'
    BY <1>1, <1>3, <2>2, <2>3 DEF DeckType, Closed
  <2>7. TableInv'
    BY <1>1, <2>3, <2>4 DEF TableInv
  <2>8. ReviewInv'
    BY <1>1, <1>3, <2>3, <2>4 DEF ReviewInv, Reads
  <2>9. MenuInv'
    BY <1>1, <1>3, <2>3, <2>4 DEF MenuInv, Closed
  <2>10. LaneInv'
    <3>1. ASSUME lane.command \in Aimed
          PROVE  screen' # "confirm" /\ (screen' = "workset" => focus' = widget'.cursor)
      BY <1>1, <1>3, <3>1 DEF LaneInv
    <3>2. lane.command \in {"retry", "edit", "decide"} => lane.asked \in Units
      BY <2>1 DEF Aimed
    <3> QED BY <2>1, <2>3, <2>5, <3>1, <3>2 DEF LaneInv
  <2>11. PageInv'
    <3>1. screen' = "confirm" => screen = "confirm" /\ lane.command \notin Aimed
      BY <1>1, <1>3 DEF LaneInv
    <3>2. screen' = "confirm" => work' = work /\ screen = "confirm"
      BY <2>2, <3>1
    <3> QED BY <1>1, <3>2 DEF PageInv, Selected, Approved
  <2> QED BY <1>1, <2>3, <2>6, <2>7, <2>8, <2>9, <2>10, <2>11 DEF IInv, OpenInv, EndInv, AbortIsFinal
<1> QED BY <1>2, <1>3 DEF Work

\* The end of a dispatch that leaves the deck open.
LEMMA DrainedOpen ==
  ASSUME DeckAssumption, IInv, Drained, result' = "open"
  PROVE  LET rows == Visible(work, filter)
             kept == IF widget.table = rows THEN focus ELSE Clamped(focus, rows)
         IN /\ result = "open" /\ lane.at # "idle" /\ lane' = Free /\ abort' = "none"
            /\ UNCHANGED <<work, screen, menu, box, filter, page>>
            /\ rows \in Seq(AllRows) /\ InTable(kept, rows) /\ kept \in Places /\ focus' = kept
            /\ widget' = [table |-> rows, cursor |-> IF widget.table = rows THEN widget.cursor ELSE kept,
                          document |-> IF Reads THEN At(rows, kept) ELSE widget.document]
            /\ InTable(widget'.cursor, rows) /\ widget'.cursor \in Places
<1> DEFINE rows == Visible(work, filter)
           kept == IF widget.table = rows THEN focus ELSE Clamped(focus, rows)
<1>1. /\ result = "open" /\ lane.at # "idle" /\ lane' = Free /\ abort' = "none"
      /\ UNCHANGED <<work, screen, menu, box, filter, page>> /\ focus' = kept
      /\ widget' = [table |-> rows, cursor |-> IF widget.table = rows THEN widget.cursor ELSE kept,
                    document |-> IF Reads THEN At(rows, kept) ELSE widget.document]
  BY DEF Drained, IInv, EndInv
<1>2. InTable(focus, widget.table) /\ InTable(widget.cursor, widget.table) /\ focus \in Nat \ {0}
  <2>1. InTable(focus, widget.table) /\ InTable(widget.cursor, widget.table) /\ widget.table \in Seq(AllRows)
    BY <1>1 DEF IInv, OpenInv, TableInv, DeckType
  <2> QED BY <2>1 DEF InTable
<1>3. rows \in Seq(AllRows)
  <2>1. rows \in Seq(AllRows \cap filter)
    BY RowsType
  <2> QED BY <2>1
<1>4. InTable(kept, rows) /\ kept \in Places
  <2>1. InTable(kept, rows)
    BY <1>2, <1>3, IndicesAreIn
  <2> QED BY <2>1, AtType
<1>5. InTable(widget'.cursor, rows) /\ widget'.cursor \in Places
  <2>1. InTable(widget'.cursor, rows)
    BY <1>1, <1>2, <1>4
  <2> QED BY <2>1, AtType
<1> HIDE DEF rows, kept
<1>6. QED BY <1>1, <1>3, <1>4, <1>5 DEF rows, kept

LEMMA DrainedStep == ASSUME DeckAssumption, IInv, Drained PROVE IInv'
<1>1. DeckType /\ PageInv /\ EndInv /\ result = "open" /\ TableInv /\ ReviewInv /\ MenuInv /\ LaneInv
  BY DEF IInv, OpenInv, EndInv, Drained
<1>2. Free \in [at : {"idle", "queued", "done", "interrupted"},
               command : Aimed \cup {"none", "all"}, row : Anyone, asked : Anyone] /\ Free.at = "idle" /\ Free.command = "none"
  BY DEF Free, Anyone
<1>3. CASE result' = "stop"
  <2>1. /\ lane' = Free /\ abort' \in {"none", "editor", "session"} /\ UNCHANGED <<focus, widget>>
        /\ UNCHANGED <<work, screen, menu, box, filter, page>>
    BY <1>1, <1>3 DEF Drained
  <2>2. DeckType'
    BY <1>1, <1>2, <1>3, <2>1 DEF DeckType, Closed
  <2> QED BY <1>2, <1>3, <2>1, <2>2 DEF IInv, OpenInv, PageInv, EndInv, AbortIsFinal
<1>4. CASE result' = "open"
  <2> DEFINE rows == Visible(work, filter)
             kept == IF widget.table = rows THEN focus ELSE Clamped(focus, rows)
  <2>1. /\ lane.at # "idle" /\ lane' = Free /\ abort' = "none"
        /\ UNCHANGED <<work, screen, menu, box, filter, page>>
        /\ rows \in Seq(AllRows) /\ InTable(kept, rows) /\ kept \in Places /\ focus' = kept
        /\ widget' = [table |-> rows, cursor |-> IF widget.table = rows THEN widget.cursor ELSE kept,
                      document |-> IF Reads THEN At(rows, kept) ELSE widget.document]
        /\ InTable(widget'.cursor, rows) /\ widget'.cursor \in Places
    BY <1>4, DrainedOpen
  <2>2. Visible(work', filter') = rows /\ At(rows, kept) \in Anyone
    BY <2>1, AtType
  <2>3. ~(lane.command = "edit") => widget.table = rows
    BY <1>1 DEF TableInv
  <2> HIDE DEF rows, kept
  <2>4. widget' \in [table : Seq(AllRows), cursor : Places, document : Anyone] /\ widget'.table = rows
    <3>1. widget.document \in Anyone
      BY <1>1 DEF DeckType
    <3> QED BY <2>1, <2>2, <3>1
  <2>5. DeckType'
    BY <1>1, <1>2, <1>4, <2>1, <2>4 DEF DeckType, Closed
  <2>6. TableInv' /\ LaneInv'
    BY <1>2, <2>1, <2>2, <2>4 DEF TableInv, LaneInv
  <2>7. ReviewInv'
    <3>1. Focused' = At(rows, kept) /\ (Reads' => widget'.document = At(rows, kept))
      BY <2>1, <2>2 DEF Focused, Reads
    <3> QED BY <3>1 DEF ReviewInv
  <2>8. MenuInv'
    <3>1. menu # Closed => focus' = focus /\ widget'.cursor = widget.cursor /\ Focused' = Focused
      <4>1. menu # Closed => widget.table = rows
        BY <1>1, <2>3 DEF MenuInv
      <4> QED BY <2>1, <4>1 DEF Focused, kept
    <3>2. lane'.command = "none"
      BY <1>2, <2>1
    <3> QED BY <1>1, <2>1, <3>1, <3>2 DEF MenuInv, Closed
  <2>9. PageInv'
    BY <1>1, <1>4, <2>1, SamePage
  <2> QED BY <1>2, <1>4, <2>1, <2>5, <2>6, <2>7, <2>8, <2>9 DEF IInv, OpenInv, EndInv, AbortIsFinal
<1> QED BY <1>1, <1>3, <1>4 DEF Drained

LEMMA AbortStep == ASSUME DeckAssumption, IInv, Abort PROVE IInv'
<1>1. UNCHANGED <<work, screen, menu, box, filter, focus, widget, lane, page>> /\ result \in {"open", "run"}
  BY DEF Abort, deck
<1>2. /\ abort' \in {"none", "editor", "session"}
      /\ result' = result \/ result' = "stop"
      /\ abort' = "session" => result' # "executed" /\ (lane.at = "idle" => result' # "open")
  <2>1. abort \in {"none", "editor", "session"} /\ AbortIsFinal
    BY DEF IInv, DeckType
  <2>2. CASE lane.command = "edit" /\ lane.at # "idle"
    BY <1>1, <2>1, <2>2 DEF Abort
  <2>3. CASE ~(lane.command = "edit" /\ lane.at # "idle")
    <3>1. CASE result = "run"
      BY <2>1, <2>3, <3>1 DEF Abort
    <3>2. CASE result = "open"
      BY <2>1, <2>3, <3>2 DEF Abort
    <3> QED BY <1>1, <3>1, <3>2
  <2> QED BY <2>2, <2>3
<1>3. DeckType'
  BY <1>1, <1>2 DEF IInv, DeckType, Closed
<1>4. OpenInv'
  BY <1>1, <1>2 DEF IInv, OpenInv, TableInv, ReviewInv, MenuInv, LaneInv, Reads, Focused, Free, Closed
<1>5. PageInv'
  BY <1>1, <1>2 DEF IInv, PageInv, Selected, Approved
<1>6. EndInv' /\ AbortIsFinal'
  <2>1. lane.at # "idle" => result' = "open"
    <3>1. lane.at # "idle" => result = "open"
      BY DEF IInv, EndInv
    <3>2. result = "open" /\ lane.at # "idle" => result' = "open"
      BY DEF Abort
    <3> QED BY <3>1, <3>2
  <2>2. result' # "executed"
    BY <1>1, <1>2
  <2> QED BY <1>1, <1>2, <2>1, <2>2 DEF EndInv, AbortIsFinal
<1> QED BY <1>3, <1>4, <1>5, <1>6 DEF IInv

LEMMA FinishStep == ASSUME DeckAssumption, IInv, Finish PROVE IInv'
<1>1. /\ UNCHANGED <<work, screen, menu, box, filter, focus, widget, lane, abort, page>> /\ result = "run"
      /\ result' = "stop" \/ (result' = "executed" /\ abort # "session" /\ Confirmable)
  BY DEF Finish, deck
<1>2. DeckType' /\ OpenInv'
  BY <1>1 DEF IInv, DeckType, OpenInv, Closed
<1>3. PageInv'
  BY <1>1 DEF IInv, PageInv, Selected, Approved
<1>4. Confirmable' = Confirmable
  BY <1>1 DEF Confirmable, Unready, Conflicts, Approved
<1>5. EndInv' /\ AbortIsFinal'
  BY <1>1, <1>4 DEF IInv, EndInv, AbortIsFinal
<1> QED BY <1>2, <1>3, <1>5 DEF IInv

LEMMA UnattendedStep == ASSUME DeckAssumption, IInv, Unattended PROVE IInv'
<1>1. /\ UNCHANGED <<screen, menu, box, filter, focus, widget, lane, abort>> /\ result = "unattended"
      /\ result' \in {"stop", "run"}
  BY DEF Unattended, deck
<1>2. work' \in Works /\ page' = [rows |-> Selected(work'), commit |-> work'.commit]
  <2>1. PICK how \in Hows :
          LET all == Batched(work, TRUE, Elements(Rows(work)), how)
              some == [all EXCEPT !.unit = [u \in Units |-> [all.unit[u] EXCEPT !.approved = @ /\ u \notin NoBase]]]
          IN work' = some /\ page' = [rows |-> Selected(some), commit |-> some.commit]
    BY DEF Unattended
  <2> DEFINE all == Batched(work, TRUE, Elements(Rows(work)), how)
  <2>2. all \in Works
    BY BatchedType DEF IInv, DeckType
  <2>3. \A u \in Units : [all.unit[u] EXCEPT !.approved = @ /\ u \notin NoBase] \in Unit
    <3> HIDE DEF all
    <3>1. ASSUME NEW u \in Units PROVE [all.unit[u] EXCEPT !.approved = @ /\ u \notin NoBase] \in Unit
      <4>1. all.unit[u] \in Unit
        BY <2>2 DEF Works
      <4>2. (all.unit[u].approved /\ u \notin NoBase) \in BOOLEAN
        OBVIOUS
      <4> QED BY <4>1, <4>2 DEF Unit
    <3> QED BY <3>1
  <2>4. /\ work' = [all EXCEPT !.unit = [u \in Units |-> [all.unit[u] EXCEPT !.approved = @ /\ u \notin NoBase]]]
        /\ page' = [rows |-> Selected(work'), commit |-> work'.commit]
    BY <2>1
  <2>5. work' \in Works
    <3> HIDE DEF all
    <3> QED BY <2>2, <2>3, <2>4 DEF Works
  <2> QED BY <2>4, <2>5
<1>3. Selected(work') \subseteq AllRows /\ work'.commit \in BOOLEAN
  BY <1>2, RowTypes DEF Works, Selected, Approved
<1>4. page' \in [rows : SUBSET AllRows, commit : BOOLEAN]
  BY <1>2, <1>3
<1>5. DeckType' /\ OpenInv'
  BY <1>1, <1>2, <1>4 DEF IInv, DeckType, OpenInv, Closed
<1>6. PageInv'
  BY <1>2 DEF PageInv
<1>7. EndInv' /\ AbortIsFinal'
  BY <1>1 DEF IInv, EndInv, AbortIsFinal
<1> QED BY <1>5, <1>6, <1>7 DEF IInv

LEMMA StepHolds == ASSUME DeckAssumption, IInv, Next PROVE IInv'
BY NavigateStep, ClickStep, ConfirmStep, KeysStep, SelectAllStep, ResolutionStep, ViewStep, ChooseStep,
   ExecuteStep, BoxStep, AbortStep, WorkStep, DrainedStep, FinishStep, UnattendedStep DEF Next

LEMMA StutterHolds == ASSUME IInv, UNCHANGED vars PROVE IInv'
<1>1. UNCHANGED <<work, screen, menu, box, filter, focus, widget, lane, abort, result, page>>
  BY DEF vars, deck
<1>2. DeckType'
  BY <1>1 DEF IInv, DeckType, Closed
<1>3. OpenInv'
  BY <1>1 DEF IInv, OpenInv, TableInv, ReviewInv, MenuInv, LaneInv, Reads, Focused, Free, Closed
<1>4. PageInv'
  BY <1>1 DEF IInv, PageInv, Selected, Approved
<1>5. EndInv' /\ AbortIsFinal'
  BY <1>1 DEF IInv, EndInv, AbortIsFinal, Confirmable, Unready, Conflicts, Approved
<1> QED BY <1>2, <1>3, <1>4, <1>5 DEF IInv

-----------------------------------------------------------------------------
(* What follows from it.                                                    *)

\* The invariant of a deck and its session, over any workset.
THEOREM Invariance == ASSUME DeckAssumption PROVE Spec => []IInv
<1>1. Init => IInv
  BY InitHolds
<1>2. IInv /\ [Next]_vars => IInv'
  BY StepHolds, StutterHolds
<1> QED BY <1>1, <1>2, PTL DEF Spec

LEMMA InvariantImplies ==
  ASSUME DeckAssumption, IInv PROVE TypeOK /\ RunsWhatItShowed /\ ActsOnShown /\ AbortIsFinal
<1>1. TypeOK
  BY DEF IInv, DeckType, TypeOK, Works, Anyone
<1>2. RunsWhatItShowed
  BY DEF IInv, PageInv, EndInv, RunsWhatItShowed
<1>3. ActsOnShown
  BY DEF IInv, DeckType, OpenInv, LaneInv, EndInv, ActsOnShown
<1> QED BY <1>1, <1>2, <1>3 DEF IInv

\* What is executed is what the confirmation has shown, ready and with its topology closed: no
\* filter, late dispatch or edit has changed it since (confirm, execute).
THEOREM TheShownIsRun == ASSUME DeckAssumption PROVE Spec => []RunsWhatItShowed
<1>1. IInv => RunsWhatItShowed
  BY InvariantImplies
<1> QED BY <1>1, Invariance, PTL

\* A command acts on the row that its key or click was given at, whatever an edit or a filter has
\* done to the table by the time the worker gets to it (sync_focus, rebuild_workset).
THEOREM CommandsActOnShown == ASSUME DeckAssumption PROVE Spec => []ActsOnShown
<1>1. IInv => ActsOnShown
  BY InvariantImplies
<1> QED BY <1>1, Invariance, PTL

\* Ctrl+C outside the Editor ends the deck as soon as nothing runs; nothing executes after it.
THEOREM AbortsAreFinal == ASSUME DeckAssumption PROVE Spec => []AbortIsFinal
<1>1. IInv => AbortIsFinal
  BY DEF IInv
<1> QED BY <1>1, Invariance, PTL

\* The end of a dispatch finds its row where it was.
LEMMA DrainedStays ==
  ASSUME DeckAssumption, IInv, Drained, result' = "open", lane.at = "done", lane.command \notin {"all", "none"}
  PROVE  Shown' = lane.asked
<1> DEFINE rows == Visible(work, filter)
           kept == IF widget.table = rows THEN focus ELSE Clamped(focus, rows)
<1>1. /\ result = "open" /\ UNCHANGED screen /\ rows \in Seq(AllRows)
      /\ widget' = [table |-> rows, cursor |-> IF widget.table = rows THEN widget.cursor ELSE kept,
                    document |-> IF Reads THEN At(rows, kept) ELSE widget.document]
  BY DrainedOpen
<1>2. /\ Focused = lane.asked /\ InTable(focus, rows) /\ screen # "confirm" /\ (screen = "workset" => focus = widget.cursor)
      /\ screen \in {"workset", "review", "full", "confirm"} /\ focus \in Nat \ {0}
  <2>1. lane.command \in Aimed /\ LaneInv /\ screen \in {"workset", "review", "full", "confirm"}
    BY <1>1 DEF IInv, OpenInv, DeckType
  <2>2. InTable(focus, rows)
    BY <2>1 DEF LaneInv
  <2>3. focus \in Nat \ {0}
    BY <1>1, <2>2 DEF InTable
  <2> QED BY <2>1, <2>2, <2>3 DEF LaneInv
<1>3. kept = focus
  BY <1>1, <1>2, IndicesAreIn
<1>4. At(rows, focus) = lane.asked
  BY <1>2 DEF Focused
<1> HIDE DEF rows, kept
<1>5. CASE Reads
  BY <1>1, <1>3, <1>4, <1>5 DEF Shown, Reads
<1>6. CASE ~Reads
  <2>1. screen' = "workset" /\ widget'.cursor = focus /\ widget'.table = rows
    BY <1>1, <1>2, <1>3, <1>6 DEF Reads
  <2> QED BY <1>4, <2>1 DEF Shown, Reads
<1> QED BY <1>5, <1>6

\* A dispatch ends at the row it was given at, though an edit may have staged or dropped sources
\* meanwhile (_refresh_additional_rows, _materialize).
THEOREM DispatchesStayPut == ASSUME DeckAssumption PROVE Spec => [][StaysPut]_vars
<1>1. ASSUME IInv, [Next]_vars PROVE [StaysPut]_vars
  <2>1. CASE Next /\ lane.at = "done" /\ lane'.at = "idle"
    <3>1. Drained
      BY <2>1 DEF Next, Navigate, Click, ToggleCommit, Select, SelectAll, Review, Retry, Edit, Resolution, FullView,
                  Choose, Confirm, Execute, OpenBox, Type, Submit, Back, Abort, Work, Finish, Unattended,
                  Keys, Idle, Rest, deck
    <3> QED BY <1>1, <3>1, DrainedStays DEF StaysPut
  <2>2. CASE ~(lane.at = "done" /\ lane'.at = "idle")
    BY <2>2 DEF StaysPut
  <2> QED BY <1>1, <2>1, <2>2
<1> QED BY <1>1, Invariance, PTL DEF Spec

\* What the runs check of a deck: all of this, and that its state is of its type.
THEOREM DecksRunWhatTheyShow == ASSUME DeckAssumption PROVE Spec => DeckRunsWhatItShows
<1>1. IInv => TypeOK /\ RunsWhatItShowed /\ ActsOnShown /\ AbortIsFinal
  BY InvariantImplies
<1> QED BY <1>1, Invariance, DispatchesStayPut, PTL DEF DeckRunsWhatItShows
================================================================================
