------------------------- MODULE PlanningGuardsProofs -------------------------
(***************************************************************************)
(* Theorems about the Guards of an opening, for any packages, targets and  *)
(* path rules and any Guards at them: what the Guards decide is what each  *)
(* of them said, asked once.  The invariant says, of each direction, how   *)
(* far the evaluations have come, and that whatever has been looked at and *)
(* could still have work has been asked.                                   *)
(***************************************************************************)
EXTENDS PlanningGuards, TLAPS

Name == Names \cup Nat
Scope == Seq(Name)
Subjects == ToSet(Items) \cup ToSet(Work)
Everyone == Children["push"] \cup Children["pull"]
RuleScope(i) == Append(Directory, i)

TypeInv ==
  /\ at \in {"guards", "rules", "ready", "failed"} /\ level \in 1..4 /\ way \in 1..2
  /\ (at = "guards" => level \in 1..3) /\ (at \in {"rules", "ready"} => level = 4)
  /\ left \in Seq(Scope) /\ decided \in SUBSET Scope /\ (at # "failed" => ToSet(left) \subseteq ToSet(Queue(level)))
  /\ held \in [Ways -> SUBSET Subjects] /\ kept \in [Ways -> SUBSET Everyone]
  /\ scopes \in [Ways -> SUBSET Scope]
  /\ ran \in Seq(Ways \X Scope) /\ skips \subseteq ToSet(ran) /\ ToSet(ran) \subseteq guarded

\* the place of a direction, and whether its evaluation of a level is over, or goes on
Turn(d) == IF d = "push" THEN 1 ELSE 2
Past(d, l) == at = "ready" \/ l < level \/ (l = level /\ Turn(d) < way)
Here(d, l) == at # "ready" /\ l = level /\ Turn(d) = way
Looked(d, s, l) == Past(d, l) \/ (Here(d, l) /\ s \notin ToSet(left))

Ran(d, s) == <<d, s>> \in ToSet(ran)
Skipped(d, s) == <<d, s>> \in skips

\* A Guard runs when its direction comes to its level.
RanInv ==
  /\ \A d \in Ways, s \in Scope : Ran(d, s) => Len(s) \in 1..4 /\ (Past(d, Len(s)) \/ (Here(d, Len(s)) /\ s \in decided))
  /\ \A s \in decided : Ran(Order[way], s)

\* Packages and targets go with a scope that is skipped, and for nothing else; so do children.
HeldInv ==
  \A d \in Ways, x \in Subjects :
    x \in held[d] <=> x \in ToSet(Items) \cup Offered[d] /\ ~Denied(d, x)
KeptInv ==
  /\ level < 4 => kept = Children
  /\ level = 4 => \A d \in Ways : \A c \in Children[d] :
       c \in kept[d] <=> Directory \in held[d] /\ \A i \in DOMAIN Rules : Skipped(d, RuleScope(i)) => c \notin Rules[i]
  /\ level = 4 => \A d \in Ways : kept[d] # {} => Directory \in held[d]

\* What has been looked at and has survived with work has been asked.
AskInv ==
  \A d \in Ways, l \in 1..3 : \A s \in ToSet(Queue(l)) :
    Looked(d, s, l) /\ <<d, s>> \in guarded /\ (l \in {2, 3} => s \in held[d]) /\ Potential(d, s) => Ran(d, s)
RuleInv ==
  level = 4 => \A d \in Ways : \A i \in DOMAIN Rules :
    Looked(d, RuleScope(i), 4) /\ <<d, RuleScope(i)>> \in guarded /\ Matches(d, i) => Ran(d, RuleScope(i))

\* A hook scope has survived the evaluations of its level, and whatever has survived one is there.
ScopeInv ==
  \A d \in Ways :
    /\ \A s \in scopes[d] :
         /\ Len(s) \in 1..3 /\ s \in ToSet(Queue(Len(s))) /\ Past(d, Len(s)) /\ (Len(s) = 3 => s \in Offered[d])
         /\ ~Denied(d, s)
    /\ \A p \in ToSet(Items), k \in 1..2 : Past(d, k) /\ ~Denied(d, p) => SubSeq(p, 1, k) \in scopes[d]

WorkInv == RanInv /\ HeldInv /\ KeptInv /\ AskInv /\ RuleInv /\ ScopeInv
IInv == TypeInv /\ AskedOnce /\ (at # "failed" => WorkInv)

-----------------------------------------------------------------------------
(* Sequences and scopes                                                     *)

LEMMA TailSet ==
  ASSUME NEW S, NEW q \in Seq(S), q # << >>
  PROVE  /\ Head(q) \in S /\ Head(q) \in ToSet(q) /\ Tail(q) \in Seq(S) /\ ToSet(Tail(q)) \subseteq ToSet(q)
         /\ \A x \in ToSet(q) : x = Head(q) \/ x \in ToSet(Tail(q))
<1>1. Len(q) \in Nat /\ Len(q) > 0 /\ Head(q) = q[1] /\ 1 \in DOMAIN q
  OBVIOUS
<1>2. Tail(q) \in Seq(S) /\ Len(Tail(q)) = Len(q) - 1 /\ \A i \in 1..(Len(q) - 1) : Tail(q)[i] = q[i + 1]
  OBVIOUS
<1>3. DOMAIN Tail(q) = 1..(Len(q) - 1) /\ DOMAIN q = 1..Len(q)
  BY <1>2
<1>4. ASSUME NEW x \in ToSet(Tail(q)) PROVE x \in ToSet(q)
  <2>1. PICK i \in 1..(Len(q) - 1) : x = Tail(q)[i]
    BY <1>3 DEF ToSet
  <2>2. i + 1 \in DOMAIN q /\ x = q[i + 1]
    BY <1>1, <1>2, <1>3, <2>1
  <2> QED BY <2>2 DEF ToSet
<1>5. ASSUME NEW x \in ToSet(q), x # Head(q) PROVE x \in ToSet(Tail(q))
  <2>1. PICK i \in 1..Len(q) : x = q[i]
    BY <1>3 DEF ToSet
  <2>2. i - 1 \in 1..(Len(q) - 1) /\ (i - 1) + 1 = i
    BY <1>1, <1>5, <2>1
  <2>3. x = Tail(q)[i - 1] /\ i - 1 \in DOMAIN Tail(q)
    BY <1>2, <1>3, <2>1, <2>2
  <2> QED BY <2>3 DEF ToSet
<1> QED BY <1>1, <1>2, <1>4, <1>5 DEF ToSet

LEMMA AppendSet ==
  ASSUME NEW S, NEW q \in Seq(S), NEW x \in S
  PROVE  /\ Append(q, x) \in Seq(S) /\ ToSet(Append(q, x)) = ToSet(q) \cup {x}
         /\ DOMAIN Append(q, x) = 1..(Len(q) + 1) /\ DOMAIN q = 1..Len(q) /\ Len(q) \in Nat
         /\ Len(Append(q, x)) = Len(q) + 1
         /\ Append(q, x)[Len(q) + 1] = x /\ \A i \in 1..Len(q) : Append(q, x)[i] = q[i]
<1>1. /\ Append(q, x) \in Seq(S) /\ DOMAIN Append(q, x) = 1..(Len(q) + 1) /\ DOMAIN q = 1..Len(q) /\ Len(q) \in Nat
      /\ Len(Append(q, x)) = Len(q) + 1
      /\ Append(q, x)[Len(q) + 1] = x /\ \A i \in 1..Len(q) : Append(q, x)[i] = q[i]
  OBVIOUS
<1>2. \A i \in 1..(Len(q) + 1) : i = Len(q) + 1 \/ i \in 1..Len(q)
  BY <1>1
<1>3. ToSet(Append(q, x)) = ToSet(q) \cup {x}
  BY <1>1, <1>2 DEF ToSet
<1> QED BY <1>1, <1>3

LEMMA NoneLeft == ToSet(<< >>) = {}
  BY DEF ToSet

\* Prefixes of the scopes.
LEMMA PrefixBasics ==
  ASSUME NEW S, NEW s \in Seq(S), NEW t \in Seq(S)
  PROVE  /\ IsPrefix(s, s)
         /\ IsPrefix(t, s) => Len(t) <= Len(s) /\ (Len(t) = Len(s) => t = s)
         /\ IsPrefix(t, s) <=> Len(t) <= Len(s) /\ \A i \in 1..Len(t) : t[i] = s[i]
<1>1. Len(t) <= Len(s) => (SubSeq(t, 1, Len(t)) = SubSeq(s, 1, Len(t)) <=> \A i \in 1..Len(t) : t[i] = s[i])
  <2> SUFFICES ASSUME Len(t) <= Len(s)
               PROVE  SubSeq(t, 1, Len(t)) = SubSeq(s, 1, Len(t)) <=> \A i \in 1..Len(t) : t[i] = s[i]
    OBVIOUS
  <2>1. /\ SubSeq(t, 1, Len(t)) = [i \in 1..Len(t) |-> t[i]]
        /\ SubSeq(s, 1, Len(t)) = [i \in 1..Len(t) |-> s[i]]
    OBVIOUS
  <2> QED BY <2>1
<1>2. IsPrefix(t, s) <=> Len(t) <= Len(s) /\ \A i \in 1..Len(t) : t[i] = s[i]
  BY <1>1 DEF IsPrefix
<1>3. IsPrefix(s, s)
  BY DEF IsPrefix
<1>4. Len(t) = Len(s) /\ (\A i \in 1..Len(t) : t[i] = s[i]) => t = s
  OBVIOUS
<1> QED BY <1>2, <1>3, <1>4

LEMMA PrefixTransitive ==
  ASSUME NEW S, NEW s \in Seq(S), NEW t \in Seq(S), NEW x \in Seq(S), IsPrefix(s, t)
  PROVE  /\ IsPrefix(t, x) => IsPrefix(s, x)
<1>1. /\ IsPrefix(s, t) <=> Len(s) <= Len(t) /\ \A i \in 1..Len(s) : s[i] = t[i]
      /\ IsPrefix(t, x) <=> Len(t) <= Len(x) /\ \A i \in 1..Len(t) : t[i] = x[i]
      /\ IsPrefix(s, x) <=> Len(s) <= Len(x) /\ \A i \in 1..Len(s) : s[i] = x[i]
  BY PrefixBasics
<1>2. Len(s) \in Nat /\ Len(t) \in Nat /\ Len(x) \in Nat
  OBVIOUS
<1> QED BY <1>1, <1>2

LEMMA PrefixCut ==
  ASSUME NEW S, NEW x \in Seq(S), NEW k \in 1..Len(x)
  PROVE  /\ SubSeq(x, 1, k) \in Seq(S) /\ Len(SubSeq(x, 1, k)) = k /\ IsPrefix(SubSeq(x, 1, k), x)
         /\ k = Len(x) => SubSeq(x, 1, k) = x
         /\ \A t \in Seq(S) : IsPrefix(t, x) /\ Len(t) <= k => IsPrefix(t, SubSeq(x, 1, k))
         /\ \A j \in 1..k : SubSeq(SubSeq(x, 1, k), 1, j) = SubSeq(x, 1, j)
<1> DEFINE y == SubSeq(x, 1, k)
<1>1. y \in Seq(S) /\ Len(y) = k /\ \A i \in 1..k : y[i] = x[i]
  OBVIOUS
<1>2. Len(x) \in Nat /\ k \in Nat /\ k <= Len(x)
  OBVIOUS
<1> HIDE DEF y
<1>3. IsPrefix(y, x)
  BY <1>1, <1>2, PrefixBasics
<1>4. k = Len(x) => y = x
  BY <1>1, <1>3, PrefixBasics
<1>5. ASSUME NEW t \in Seq(S), IsPrefix(t, x), Len(t) <= k PROVE IsPrefix(t, y)
  <2>1. Len(t) \in Nat /\ \A i \in 1..Len(t) : t[i] = x[i] /\ i \in 1..k
    BY <1>2, <1>5, PrefixBasics
  <2> QED BY <1>1, <1>5, <2>1, PrefixBasics
<1>6. ASSUME NEW j \in 1..k PROVE SubSeq(y, 1, j) = SubSeq(x, 1, j)
  <2>1. SubSeq(y, 1, j) = [i \in 1..j |-> y[i]] /\ SubSeq(x, 1, j) = [i \in 1..j |-> x[i]]
    BY <1>1, <1>2
  <2>2. \A i \in 1..j : i \in 1..k
    OBVIOUS
  <2> QED BY <1>1, <2>1, <2>2
<1> QED BY <1>1, <1>3, <1>4, <1>5, <1>6 DEF y

-----------------------------------------------------------------------------
(* Where an evaluation is                                                   *)

LEMMA Turns ==
  ASSUME way \in 1..2
  PROVE  /\ Order[way] \in Ways /\ Turn(Order[way]) = way
         /\ \A d \in Ways : Turn(d) \in 1..2 /\ (Turn(d) = way => d = Order[way])
BY DEF Order, Ways, Turn

LEMMA NamesOfScopes == Seq(Names) \subseteq Scope /\ Seq(Scope) = Seq(Seq(Name))
  BY DEF Scope, Name

LEMMA QueueScopes ==
  ASSUME GuardsAssumption
  PROVE  /\ \A p \in ToSet(Items) : p \in Scope /\ Len(p) = 2 /\ p \in ToSet(Queue(2)) /\ SubSeq(p, 1, 1) \in ToSet(Queue(1))
         /\ \A t \in ToSet(Work) : t \in Scope /\ Len(t) = 3 /\ t \in ToSet(Queue(3)) /\ SubSeq(t, 1, 2) \in ToSet(Items)
         /\ \A i \in DOMAIN Rules : RuleScope(i) \in Scope /\ Len(RuleScope(i)) = 4 /\ RuleScope(i) \in ToSet(Queue(4))
                                    /\ RuleScope(i)[4] = i /\ SubSeq(RuleScope(i), 1, 3) = Directory
<1>1. ASSUME NEW p \in ToSet(Items)
      PROVE  p \in Scope /\ Len(p) = 2 /\ p \in ToSet(Queue(2)) /\ SubSeq(p, 1, 1) \in ToSet(Queue(1))
  <2>1. PICK i \in DOMAIN Items : p = Items[i]
    BY DEF ToSet
  <2>2. p \in Seq(Names) /\ Len(p) = 2
    BY <2>1 DEF GuardsAssumption
  <2>3. SubSeq(p, 1, 2) = p
    BY <2>2, PrefixCut
  <2>4. Queue(1)[i] = SubSeq(p, 1, 1) /\ Queue(2)[i] = SubSeq(p, 1, 2) /\ i \in DOMAIN Queue(1) /\ i \in DOMAIN Queue(2)
    BY <2>1 DEF Queue
  <2> QED BY <2>2, <2>3, <2>4, NamesOfScopes DEF ToSet
<1>2. ASSUME NEW t \in ToSet(Work)
      PROVE  t \in Scope /\ Len(t) = 3 /\ t \in ToSet(Queue(3)) /\ SubSeq(t, 1, 2) \in ToSet(Items)
  <2>1. PICK i \in DOMAIN Work : t = Work[i]
    BY DEF ToSet
  <2>2. t \in Seq(Names) /\ Len(t) = 3 /\ SubSeq(t, 1, 2) \in ToSet(Items)
    BY <2>1 DEF GuardsAssumption
  <2> QED BY <2>2, NamesOfScopes DEF Queue
<1>3. ASSUME NEW i \in DOMAIN Rules
      PROVE  RuleScope(i) \in Scope /\ Len(RuleScope(i)) = 4 /\ RuleScope(i) \in ToSet(Queue(4))
             /\ RuleScope(i)[4] = i /\ SubSeq(RuleScope(i), 1, 3) = Directory
  <2>1. Directory \in Scope /\ Len(Directory) = 3
    BY <1>2 DEF GuardsAssumption
  <2>2. i \in Nat /\ i \in Name
    BY DEF GuardsAssumption, Name
  <2>3. RuleScope(i) \in Seq(Name) /\ Len(RuleScope(i)) = 4 /\ RuleScope(i)[4] = i
        /\ \A k \in 1..3 : RuleScope(i)[k] = Directory[k]
    <3>1. Directory \in Seq(Name)
      BY <2>1 DEF Scope
    <3>2. /\ Append(Directory, i) \in Seq(Name) /\ Len(Append(Directory, i)) = Len(Directory) + 1
          /\ Append(Directory, i)[Len(Directory) + 1] = i
          /\ \A k \in 1..Len(Directory) : Append(Directory, i)[k] = Directory[k]
      BY <2>2, <3>1, AppendSet
    <3> QED BY <2>1, <3>2 DEF RuleScope
  <2>4. Queue(4)[i] = RuleScope(i) /\ i \in DOMAIN Queue(4)
    BY DEF Queue, RuleScope
  <2>5. SubSeq(RuleScope(i), 1, 3) = Directory
    <3>1. /\ SubSeq(RuleScope(i), 1, 3) \in Seq(Name) /\ Len(SubSeq(RuleScope(i), 1, 3)) = 3
          /\ \A k \in 1..3 : SubSeq(RuleScope(i), 1, 3)[k] = RuleScope(i)[k]
      BY <2>3
    <3> HIDE DEF RuleScope
    <3> QED BY <2>1, <2>3, <3>1 DEF Scope
  <2> QED BY <2>3, <2>4, <2>5 DEF ToSet, Scope
<1> QED BY <1>1, <1>2, <1>3

LEMMA QueueType ==
  ASSUME GuardsAssumption, NEW l \in 1..4
  PROVE  /\ Queue(l) \in Seq(Scope)
         /\ \A s \in ToSet(Queue(l)) :
              /\ s \in Scope /\ Len(s) = l
              /\ l = 1 => \E p \in ToSet(Items) : s = SubSeq(p, 1, 1)
              /\ l = 2 => s \in ToSet(Items)
              /\ l = 3 => s \in ToSet(Work)
              /\ l = 4 => \E i \in DOMAIN Rules : s = RuleScope(i)
<1>1. CASE l \in {1, 2}
  <2>1. Queue(l) = [i \in DOMAIN Items |-> SubSeq(Items[i], 1, l)]
    BY <1>1 DEF Queue
  <2>2. ASSUME NEW i \in DOMAIN Items
        PROVE  /\ Items[i] \in ToSet(Items) /\ SubSeq(Items[i], 1, l) \in Scope /\ Len(SubSeq(Items[i], 1, l)) = l
               /\ l = 2 => SubSeq(Items[i], 1, l) = Items[i]
    <3>1. Items[i] \in ToSet(Items) /\ Items[i] \in Seq(Name) /\ Len(Items[i]) = 2
      BY QueueScopes DEF ToSet, Scope
    <3>2. l \in 1..Len(Items[i])
      BY <1>1, <3>1
    <3> QED BY <3>1, <3>2, PrefixCut DEF Scope
  <2>3. DOMAIN Items = 1..Len(Items) /\ Len(Items) \in Nat
    BY DEF GuardsAssumption
  <2>4. Queue(l) \in Seq(Scope)
    BY <2>1, <2>2, <2>3
  <2>5. \A s \in ToSet(Queue(l)) : \E i \in DOMAIN Items : s = SubSeq(Items[i], 1, l)
    BY <2>1 DEF ToSet
  <2>6. \A s \in ToSet(Queue(l)) : s \in Scope /\ Len(s) = l
    BY <2>2, <2>5
  <2>7. l = 1 => \A s \in ToSet(Queue(l)) : \E p \in ToSet(Items) : s = SubSeq(p, 1, 1)
    BY <2>2, <2>5
  <2>8. l = 2 => \A s \in ToSet(Queue(l)) : s \in ToSet(Items)
    BY <2>2, <2>5
  <2> QED BY <1>1, <2>4, <2>6, <2>7, <2>8
<1>2. CASE l = 3
  <2>1. Queue(l) = Work
    BY <1>2 DEF Queue
  <2>2. Work \in Seq(Scope)
    BY NamesOfScopes DEF GuardsAssumption
  <2> QED BY <1>2, <2>1, <2>2, QueueScopes
<1>3. CASE l = 4
  <2>1. Queue(l) = [i \in DOMAIN Rules |-> RuleScope(i)]
    BY <1>3 DEF Queue, RuleScope
  <2>2. \A i \in DOMAIN Rules : RuleScope(i) \in Scope /\ Len(RuleScope(i)) = 4
    BY QueueScopes
  <2>3. DOMAIN Rules = 1..Len(Rules) /\ Len(Rules) \in Nat
    BY DEF GuardsAssumption
  <2> HIDE DEF RuleScope
  <2>4. Queue(l) \in Seq(Scope)
    BY <2>1, <2>2, <2>3
  <2>5. \A s \in ToSet(Queue(l)) : \E i \in DOMAIN Rules : s = RuleScope(i)
    BY <2>1 DEF ToSet
  <2> QED BY <1>3, <2>2, <2>4, <2>5
<1> QED BY <1>1, <1>2, <1>3

\* No package or target is at or below the scope of a rule.
LEMMA LongerIsNoPrefix ==
  ASSUME NEW s \in Scope, NEW x \in Scope, Len(s) > Len(x) PROVE ~IsPrefix(s, x)
<1>1. Len(s) \in Nat /\ Len(x) \in Nat
  BY DEF Scope
<1>2. IsPrefix(s, x) => Len(s) <= Len(x)
  BY PrefixBasics DEF Scope
<1> QED BY <1>1, <1>2

LEMMA RulesAreBelow ==
  ASSUME GuardsAssumption, NEW x \in Subjects, NEW s \in Scope, Len(s) = 4 PROVE ~IsPrefix(s, x)
<1>1. x \in Scope /\ (Len(x) = 2 \/ Len(x) = 3)
  BY QueueScopes DEF Subjects
<1>2. \A m, n \in Nat : n = 4 /\ (m = 2 \/ m = 3) => n > m
  OBVIOUS
<1>3. Len(s) > Len(x)
  BY <1>1, <1>2
<1> QED BY <1>1, <1>3, LongerIsNoPrefix

LEMMA DeniedIs ==
  ASSUME TypeInv, NEW d \in Ways, NEW s
  PROVE  Denied(d, s) <=> \E t \in Scope : Skipped(d, t) /\ IsPrefix(t, s)
<1>1. \A x \in skips : x \in Ways \X Scope
  BY DEF TypeInv, ToSet
<1>2. \A x \in skips : x = <<x[1], x[2]>> /\ x[2] \in Scope
  BY <1>1
<1> QED BY <1>2 DEF Denied, Skipped

\* What is asked has not been asked before, nor is it below a scope that has been skipped.
LEMMA AskedAreFresh ==
  ASSUME GuardsAssumption, TypeInv, WorkInv, Looking, Asks(Order[way], Head(left))
  PROVE  /\ Head(left) \in Scope /\ Len(Head(left)) = level /\ Head(left) \in ToSet(Queue(level))
         /\ ~Ran(Order[way], Head(left)) /\ ~Denied(Order[way], Head(left))
<1> DEFINE s == Head(left)
           d == Order[way]
<1>1. d \in Ways /\ Turn(d) = way
  BY Turns DEF TypeInv
<1>2. s \in ToSet(Queue(level)) /\ s \in Scope /\ Len(s) = level
  BY TailSet, QueueType DEF TypeInv, Looking
<1>3. ~Past(d, level)
  BY <1>1 DEF Past, Looking, TypeInv
<1>4. ~Ran(d, s)
  BY <1>1, <1>2, <1>3 DEF WorkInv, RanInv, Asks
<1>5. SUFFICES ASSUME NEW t \in Scope, Skipped(d, t), IsPrefix(t, s) PROVE FALSE
  BY <1>1, <1>2, <1>4, DeniedIs
<1>6. Ran(d, t)
  BY <1>5 DEF Ran, Skipped, TypeInv
<1>7. t # s /\ Len(t) \in 1..4 /\ Len(t) < level
  <2>1. t # s
    BY <1>4, <1>6
  <2>2. Len(t) \in 1..4
    BY <1>1, <1>6 DEF WorkInv, RanInv
  <2> QED BY <1>2, <1>5, <2>1, <2>2, PrefixBasics DEF Scope, TypeInv
<1>8. CASE level \in {2, 3}
  <2>1. s \in held[d] /\ s \in Subjects
    BY <1>1, <1>8 DEF Asks, TypeInv
  <2> QED BY <1>1, <1>5, <2>1, DeniedIs DEF WorkInv, HeldInv
<1>9. CASE level = 4
  <2>1. PICK i \in DOMAIN Rules : s = RuleScope(i)
    BY <1>2, <1>9, QueueType
  <2>2. s[4] = i /\ SubSeq(s, 1, 3) = Directory
    BY <2>1, QueueScopes
  <2>3. kept[d] # {}
    BY <1>9 DEF Asks, Matches
  <2>4. Directory \in held[d] /\ Directory \in Subjects
    BY <1>1, <1>9, <2>3 DEF WorkInv, KeptInv, TypeInv
  <2>5. ~Denied(d, Directory)
    BY <1>1, <2>4 DEF WorkInv, HeldInv
  <2>6. IsPrefix(t, Directory)
    <3> HIDE DEF s
    <3>1. Len(s) = 4 /\ Len(t) <= 3
      BY <1>2, <1>7, <1>9
    <3>2. 3 \in 1..Len(s) /\ t \in Seq(Name) /\ s \in Seq(Name)
      BY <1>2, <3>1 DEF Scope
    <3>3. IsPrefix(t, SubSeq(s, 1, 3))
      BY <1>5, <3>1, <3>2, PrefixCut
    <3> QED BY <2>2, <3>3
  <2> QED BY <1>1, <1>5, <2>5, <2>6, DeniedIs
<1>10. CASE level = 1
  <2> HIDE DEF s, d
  <2> QED BY <1>7, <1>10
<1> QED BY <1>8, <1>9, <1>10 DEF TypeInv

-----------------------------------------------------------------------------
(* The steps                                                                *)

\* A Guard that has not run and is not below a skipped scope runs; it may skip its own scope.
LEMMA OnceStep ==
  ASSUME TypeInv, AskedOnce, NEW d \in Ways, NEW s \in Scope, ran' = Append(ran, <<d, s>>), ~Ran(d, s), ~Denied(d, s),
         skips \subseteq skips', skips' \subseteq skips \cup {<<d, s>>}
  PROVE  AskedOnce'
<1> DEFINE n == Len(ran) + 1
           last == <<d, s>>
<1>1. /\ DOMAIN ran' = 1..n /\ DOMAIN ran = 1..Len(ran) /\ Len(ran) \in Nat
      /\ ran'[n] = last /\ \A i \in 1..Len(ran) : ran'[i] = ran[i]
  BY AppendSet DEF TypeInv
<1>2. \A i \in 1..n : i = n \/ i \in 1..Len(ran)
  BY <1>1
<1>3. \A i \in 1..Len(ran) : ran[i] # last
  BY <1>1 DEF Ran, ToSet
<1> HIDE DEF n, last
<1>4. IsInjective(ran')
  <2> SUFFICES ASSUME NEW i \in DOMAIN ran', NEW j \in DOMAIN ran', ran'[i] = ran'[j] PROVE i = j
    BY DEF IsInjective
  <2>1. CASE i = n \/ j = n
    BY <1>1, <1>2, <1>3, <2>1
  <2>2. CASE i # n /\ j # n
    BY <1>1, <1>2, <2>2 DEF AskedOnce, IsInjective
  <2> QED BY <2>1, <2>2
<1>5. ASSUME NEW i \in DOMAIN ran', NEW j \in DOMAIN ran', i < j, ran'[i] \in skips', ran'[i][1] = ran'[j][1]
      PROVE  ~IsPrefix(ran'[i][2], ran'[j][2])
  <2>1. i \in 1..Len(ran) /\ ran'[i] = ran[i]
    BY <1>1, <1>2, <1>5 DEF n
  <2>2. ran[i] \in skips
    BY <1>3, <1>5, <2>1 DEF last
  <2>3. CASE j = n
    BY <1>1, <1>5, <2>1, <2>2, <2>3 DEF Denied, last
  <2>4. CASE j \in 1..Len(ran)
    BY <1>1, <1>5, <2>1, <2>2, <2>4 DEF AskedOnce
  <2> QED BY <1>1, <1>2, <2>3, <2>4
<1> QED BY <1>4, <1>5 DEF AskedOnce

\* The head of the queue is dealt with.
LEMMA AskStep ==
  ASSUME GuardsAssumption, TypeInv, WorkInv, Looking, left' = Tail(left), UNCHANGED <<at, level, way, guarded, noop>>,
         \A d \in Ways : held'[d] \subseteq held[d] /\ kept'[d] \subseteq kept[d], ToSet(ran) \subseteq ToSet(ran'),
         Asks(Order[way], Head(left)) => <<Order[way], Head(left)>> \in ToSet(ran')
  PROVE  AskInv' /\ RuleInv'
<1>1. ASSUME NEW d \in Ways, NEW l, NEW s, Looked(d, s, l)', ~Looked(d, s, l)
      PROVE  l = level /\ d = Order[way] /\ s = Head(left)
  <2>1. Past(d, l)' = Past(d, l) /\ Here(d, l)' = Here(d, l)
    BY DEF Past, Here
  <2>2. Here(d, l) /\ s \in ToSet(left) /\ s \notin ToSet(Tail(left))
    BY <1>1, <2>1 DEF Looked
  <2> QED BY <2>2, Turns, TailSet DEF Here, TypeInv, Looking
<1>2. \A d \in Ways : \A s : Potential(d, s)' => Potential(d, s)
  BY DEF Potential, Targets
<1>3. ASSUME NEW s, s \in decided, s = Head(left) PROVE <<Order[way], s>> \in ToSet(ran')
  BY <1>3 DEF WorkInv, RanInv, Ran
<1>4. AskInv'
  <2> SUFFICES ASSUME NEW d \in Ways, NEW l \in 1..3, NEW s \in ToSet(Queue(l)),
                      Looked(d, s, l)', <<d, s>> \in guarded, l \in {2, 3} => s \in held'[d], Potential(d, s)'
               PROVE  <<d, s>> \in ToSet(ran')
    BY DEF AskInv, Ran
  <2>1. Potential(d, s) /\ (l \in {2, 3} => s \in held[d])
    BY <1>2
  <2>2. CASE Looked(d, s, l)
    BY <2>1, <2>2 DEF WorkInv, AskInv, Ran
  <2>3. CASE ~Looked(d, s, l)
    <3>1. l = level /\ d = Order[way] /\ s = Head(left)
      BY <1>1, <2>3
    <3> QED BY <1>3, <2>1, <3>1 DEF Asks
  <2> QED BY <2>2, <2>3
<1>5. RuleInv'
  <2> SUFFICES ASSUME level = 4, NEW d \in Ways, NEW i \in DOMAIN Rules,
                      Looked(d, RuleScope(i), 4)', <<d, RuleScope(i)>> \in guarded, Matches(d, i)'
               PROVE  <<d, RuleScope(i)>> \in ToSet(ran')
    BY DEF RuleInv, Ran
  <2>1. Matches(d, i)
    BY DEF Matches
  <2>2. CASE Looked(d, RuleScope(i), 4)
    BY <2>1, <2>2 DEF WorkInv, RuleInv, Ran
  <2>3. CASE ~Looked(d, RuleScope(i), 4)
    <3>1. d = Order[way] /\ RuleScope(i) = Head(left) /\ RuleScope(i)[4] = i
      BY <1>1, <2>3, QueueScopes
    <3> QED BY <1>3, <2>1, <3>1 DEF Asks
  <2> QED BY <2>2, <2>3
<1> QED BY <1>4, <1>5

\* What the other parts of the invariant are about stays as it is.
LEMMA QuietStep ==
  ASSUME WorkInv, UNCHANGED <<at, level, way, held, kept, scopes, skips>>
  PROVE  HeldInv' /\ KeptInv' /\ ScopeInv'
<1>1. \A d, s : Denied(d, s)' = Denied(d, s)
  BY DEF Denied
<1>2. \A d, l : Past(d, l)' = Past(d, l)
  BY DEF Past
<1>3. HeldInv'
  BY <1>1 DEF WorkInv, HeldInv
<1>4. KeptInv'
  BY DEF WorkInv, KeptInv, Skipped
<1>5. ScopeInv'
  BY <1>1, <1>2 DEF WorkInv, ScopeInv
<1> QED BY <1>3, <1>4, <1>5

LEMMA LookStep == ASSUME GuardsAssumption, IInv, Look PROVE IInv'
<1>1. Looking /\ WorkInv /\ TypeInv /\ at # "failed" /\ left # << >>
  BY DEF Look, Looking, IInv
<1>2. /\ left' = Tail(left) /\ ~Asks(Order[way], Head(left))
      /\ UNCHANGED <<guarded, noop, at, level, way, decided, held, scopes, kept, skips, ran>>
  BY DEF Look
<1>3. TypeInv'
  <2>1. Tail(left) \in Seq(Scope) /\ ToSet(Tail(left)) \subseteq ToSet(left)
    BY <1>1, TailSet DEF TypeInv
  <2> QED BY <1>1, <1>2, <2>1 DEF TypeInv
<1>4. AskedOnce'
  BY <1>2 DEF IInv, AskedOnce
<1>5. AskInv' /\ RuleInv'
  BY <1>1, <1>2, AskStep
<1>6. HeldInv' /\ KeptInv' /\ ScopeInv'
  BY <1>1, <1>2, QuietStep
<1>7. RanInv'
  BY <1>1, <1>2 DEF WorkInv, RanInv, Ran, Past, Here
<1> QED BY <1>3, <1>4, <1>5, <1>6, <1>7 DEF IInv, WorkInv

\* A Guard has been run at the head of the queue.
LEMMA RanStep ==
  ASSUME GuardsAssumption, IInv, NEW s, Ask(s), decided' = decided \cup {s}, left' = Tail(left),
         UNCHANGED <<guarded, noop, at, level, way>>,
         skips' \subseteq skips \cup {<<Order[way], s>>}, skips \subseteq skips'
  PROVE  /\ s \in Scope /\ Len(s) = level /\ s \in ToSet(Queue(level)) /\ Order[way] \in Ways
         /\ at' # "failed" /\ TypeInv /\ WorkInv /\ Looking
         /\ AskedOnce' /\ RanInv' /\ skips' \subseteq ToSet(ran')
         /\ left' \in Seq(Scope) /\ decided' \in SUBSET Scope /\ ToSet(left') \subseteq ToSet(Queue(level))
         /\ ran' \in Seq(Ways \X Scope) /\ ToSet(ran') = ToSet(ran) \cup {<<Order[way], s>>} /\ ToSet(ran') \subseteq guarded
<1>1. Looking /\ WorkInv /\ TypeInv /\ at # "failed" /\ left # << >> /\ s = Head(left) /\ Asks(Order[way], s)
      /\ ran' = Append(ran, <<Order[way], s>>) /\ AskedOnce
  BY DEF Ask, Looking, IInv
<1>2. s \in Scope /\ Len(s) = level /\ s \in ToSet(Queue(level)) /\ ~Ran(Order[way], s) /\ ~Denied(Order[way], s)
  BY <1>1, AskedAreFresh
<1>3. Order[way] \in Ways /\ Turn(Order[way]) = way
  BY <1>1, Turns DEF TypeInv
<1>4. ran' \in Seq(Ways \X Scope) /\ ToSet(ran') = ToSet(ran) \cup {<<Order[way], s>>}
  <2> DEFINE P == Ways \X Scope
             x == <<Order[way], s>>
  <2>1. ran \in Seq(P) /\ x \in P /\ ran' = Append(ran, x)
    BY <1>1, <1>2, <1>3 DEF TypeInv
  <2> HIDE DEF P, x
  <2>2. ran' \in Seq(P) /\ ToSet(ran') = ToSet(ran) \cup {x}
    BY <2>1, AppendSet
  <2> QED BY <2>2 DEF P, x
<1>5. AskedOnce'
  BY <1>1, <1>2, <1>3, OnceStep
<1>6. RanInv'
  <2>1. ASSUME NEW d \in Ways, NEW t \in Scope, Ran(d, t)'
        PROVE  Len(t) \in 1..4 /\ (Past(d, Len(t))' \/ (Here(d, Len(t))' /\ t \in decided'))
    <3>1. CASE Ran(d, t)
      BY <1>1, <3>1 DEF WorkInv, RanInv, Past, Here
    <3>2. CASE <<d, t>> = <<Order[way], s>>
      <4>1. d = Order[way] /\ t = s
        BY <3>2
      <4> QED BY <1>1, <1>2, <1>3, <4>1 DEF Here, Looking, TypeInv
    <3> QED BY <1>4, <2>1, <3>1, <3>2 DEF Ran
  <2>2. \A t \in decided' : Ran(Order[way], t)'
    BY <1>1, <1>4 DEF WorkInv, RanInv, Ran
  <2> QED BY <2>1, <2>2 DEF RanInv
<1>7. Tail(left) \in Seq(Scope) /\ ToSet(Tail(left)) \subseteq ToSet(Queue(level))
  BY <1>1, TailSet DEF TypeInv
<1>8. decided' \in SUBSET Scope /\ skips' \subseteq ToSet(ran') /\ ToSet(ran') \subseteq guarded
  BY <1>1, <1>2, <1>4 DEF TypeInv, Asks
<1> QED BY <1>1, <1>2, <1>3, <1>4, <1>5, <1>6, <1>7, <1>8

LEMMA AdmitStep == ASSUME GuardsAssumption, IInv, NEW s, Admit(s) PROVE IInv'
<1>1. /\ Ask(s) /\ decided' = decided \cup {s} /\ left' = Tail(left)
      /\ UNCHANGED <<guarded, noop, at, level, way, held, scopes, kept, skips>>
  BY DEF Admit
<1>2. /\ s \in Scope /\ Len(s) = level /\ Order[way] \in Ways
      /\ at' # "failed" /\ TypeInv /\ WorkInv /\ Looking
      /\ AskedOnce' /\ RanInv' /\ skips' \subseteq ToSet(ran')
      /\ left' \in Seq(Scope) /\ decided' \in SUBSET Scope /\ ToSet(left') \subseteq ToSet(Queue(level))
      /\ ran' \in Seq(Ways \X Scope) /\ ToSet(ran') = ToSet(ran) \cup {<<Order[way], s>>} /\ ToSet(ran') \subseteq guarded
  BY <1>1, RanStep
<1>3. TypeInv'
  BY <1>1, <1>2 DEF TypeInv
<1>4. AskInv' /\ RuleInv'
  <2>1. s = Head(left)
    BY <1>1 DEF Ask
  <2> QED BY <1>1, <1>2, <2>1, AskStep
<1>5. HeldInv' /\ KeptInv' /\ ScopeInv'
  BY <1>1, <1>2, QuietStep
<1> QED BY <1>2, <1>3, <1>4, <1>5 DEF IInv, WorkInv

\* The target that the rules are about, and everything else, goes with a skipped scope at or above it.
LEMMA SkipStep == ASSUME GuardsAssumption, IInv, NEW s, Skip(s) PROVE IInv'
<1> DEFINE d == Order[way]
<1>1. /\ Ask(s) /\ decided' = decided \cup {s} /\ left' = Tail(left) /\ skips' = skips \cup {<<d, s>>}
      /\ IF level = 4
         THEN kept' = [kept EXCEPT ![d] = @ \ Rules[s[4]]] /\ UNCHANGED held
         ELSE held' = [held EXCEPT ![d] = {x \in @ : ~IsPrefix(s, x)}] /\ UNCHANGED kept
      /\ UNCHANGED <<guarded, noop, at, level, way, scopes>>
  BY DEF Skip
<1>2. /\ s \in Scope /\ Len(s) = level /\ s \in ToSet(Queue(level)) /\ d \in Ways
      /\ at' # "failed" /\ TypeInv /\ WorkInv /\ Looking
      /\ AskedOnce' /\ RanInv' /\ skips' \subseteq ToSet(ran')
      /\ left' \in Seq(Scope) /\ decided' \in SUBSET Scope /\ ToSet(left') \subseteq ToSet(Queue(level))
      /\ ran' \in Seq(Ways \X Scope) /\ ToSet(ran') = ToSet(ran) \cup {<<d, s>>} /\ ToSet(ran') \subseteq guarded
  BY <1>1, RanStep
<1>3. Turn(d) = way
  BY <1>2, Turns DEF TypeInv
<1> HIDE DEF d
<1>4. \A e \in Ways : held'[e] = IF level # 4 /\ e = d THEN {x \in held[e] : ~IsPrefix(s, x)} ELSE held[e]
  BY <1>1, <1>2 DEF TypeInv
<1>5. \A e \in Ways : kept'[e] = IF level = 4 /\ e = d THEN kept[e] \ Rules[s[4]] ELSE kept[e]
  BY <1>1, <1>2 DEF TypeInv
<1>6. \A e \in Ways : \A x : Denied(e, x)' <=> Denied(e, x) \/ (e = d /\ IsPrefix(s, x))
  <2> TAKE e \in Ways
  <2> TAKE x
  <2>1. <<d, s>>[1] = d /\ <<d, s>>[2] = s
    OBVIOUS
  <2> QED BY <1>1, <2>1 DEF Denied
<1>7. TypeInv'
  <2>1. held' \in [Ways -> SUBSET Subjects]
    BY <1>1, <1>2 DEF TypeInv
  <2>2. kept' \in [Ways -> SUBSET Everyone]
    BY <1>1, <1>2 DEF TypeInv
  <2> QED BY <1>1, <1>2, <2>1, <2>2 DEF TypeInv
<1>8. AskInv' /\ RuleInv'
  <2>1. s = Head(left) /\ <<Order[way], s>> \in ToSet(ran') /\ ToSet(ran) \subseteq ToSet(ran')
    BY <1>1, <1>2 DEF Ask, d
  <2>2. \A e \in Ways : held'[e] \subseteq held[e] /\ kept'[e] \subseteq kept[e]
    BY <1>4, <1>5
  <2> QED BY <1>1, <1>2, <2>1, <2>2, AskStep
<1>9. HeldInv'
  <2> SUFFICES ASSUME NEW e \in Ways, NEW x \in Subjects
               PROVE  x \in held'[e] <=> x \in ToSet(Items) \cup Offered[e] /\ ~Denied(e, x)'
    BY DEF HeldInv
  <2>1. x \in held[e] <=> x \in ToSet(Items) \cup Offered[e] /\ ~Denied(e, x)
    BY <1>2 DEF WorkInv, HeldInv
  <2>2. level = 4 => ~IsPrefix(s, x)
    BY <1>2, RulesAreBelow
  <2> QED BY <1>4, <1>6, <2>1, <2>2
<1>10. KeptInv'
  <2>1. CASE level < 4
    BY <1>1, <1>2, <1>5, <2>1 DEF WorkInv, KeptInv
  <2>2. CASE level = 4
    <3>1. PICK i \in DOMAIN Rules : s = RuleScope(i)
      BY <1>2, <2>2, QueueType
    <3>2. s[4] = i /\ \A j \in DOMAIN Rules : RuleScope(j)[4] = j
      BY <3>1, QueueScopes
    <3>3. \A e \in Ways, j \in DOMAIN Rules : Skipped(e, RuleScope(j))' <=> Skipped(e, RuleScope(j)) \/ (e = d /\ j = i)
      <4> TAKE e \in Ways, j \in DOMAIN Rules
      <4>1. <<e, RuleScope(j)>> = <<d, s>> <=> e = d /\ j = i
        BY <3>1, <3>2
      <4> QED BY <1>1, <4>1 DEF Skipped
    <3>4. ASSUME NEW e \in Ways, NEW c \in Children[e]
          PROVE  c \in kept'[e] <=> Directory \in held'[e] /\ \A j \in DOMAIN Rules : Skipped(e, RuleScope(j))' => c \notin Rules[j]
      <4>1. c \in kept[e] <=> Directory \in held[e] /\ \A j \in DOMAIN Rules : Skipped(e, RuleScope(j)) => c \notin Rules[j]
        BY <1>2, <2>2 DEF WorkInv, KeptInv
      <4>2. held'[e] = held[e] /\ kept'[e] = IF e = d THEN kept[e] \ Rules[i] ELSE kept[e]
        BY <1>4, <1>5, <2>2, <3>2
      <4> QED BY <3>3, <4>1, <4>2
    <3>5. ASSUME NEW e \in Ways, kept'[e] # {} PROVE Directory \in held'[e]
      <4>1. kept[e] # {} /\ held'[e] = held[e]
        BY <1>4, <1>5, <2>2, <3>5
      <4> QED BY <1>2, <2>2, <4>1 DEF WorkInv, KeptInv
    <3> QED BY <1>1, <2>2, <3>4, <3>5 DEF KeptInv
  <2> QED BY <1>2, <2>1, <2>2 DEF TypeInv
<1>11. ScopeInv'
  <2>1. \A e, l : Past(e, l)' = Past(e, l)
    BY <1>1 DEF Past
  <2>2. ASSUME NEW e \in Ways, NEW t \in scopes[e]
        PROVE  /\ Len(t) \in 1..3 /\ t \in ToSet(Queue(Len(t))) /\ Past(e, Len(t)) /\ (Len(t) = 3 => t \in Offered[e])
               /\ ~Denied(e, t)'
    <3>1. /\ Len(t) \in 1..3 /\ t \in ToSet(Queue(Len(t))) /\ Past(e, Len(t)) /\ (Len(t) = 3 => t \in Offered[e])
          /\ ~Denied(e, t)
      BY <1>2 DEF WorkInv, ScopeInv
    <3>2. t \in Scope
      <4>1. Len(t) \in 1..4
        BY <3>1
      <4> QED BY <3>1, <4>1, QueueType
    <3>3. ~(e = d /\ IsPrefix(s, t))
      <4> SUFFICES ASSUME e = d, IsPrefix(s, t) PROVE FALSE
        OBVIOUS
      <4>1. level <= Len(t)
        BY <1>2, <3>2, PrefixBasics DEF Scope
      <4>2. Len(t) < level
        BY <1>2, <1>3, <3>1 DEF Past, Looking, TypeInv
      <4> QED BY <1>2, <3>1, <4>1, <4>2 DEF TypeInv
    <3> QED BY <1>6, <3>1, <3>3
  <2>3. ASSUME NEW e \in Ways, NEW p \in ToSet(Items), NEW k \in 1..2, Past(e, k), ~Denied(e, p)'
        PROVE  SubSeq(p, 1, k) \in scopes[e]
    BY <1>2, <1>6, <2>3 DEF WorkInv, ScopeInv
  <2> QED BY <1>1, <2>1, <2>2, <2>3 DEF ScopeInv
<1> QED BY <1>2, <1>7, <1>8, <1>9, <1>10, <1>11 DEF IInv, WorkInv

LEMMA FailStep == ASSUME GuardsAssumption, IInv, NEW s, Fail(s) PROVE IInv'
<1>1. /\ Looking /\ s = Head(left) /\ Asks(Order[way], s) /\ ran' = Append(ran, <<Order[way], s>>) /\ at' = "failed"
      /\ UNCHANGED <<guarded, noop, level, way, left, decided, held, scopes, kept, skips>>
      /\ TypeInv /\ WorkInv /\ AskedOnce
  BY DEF Fail, Ask, Looking, IInv
<1>2. s \in Scope /\ ~Ran(Order[way], s) /\ ~Denied(Order[way], s) /\ Order[way] \in Ways
  BY <1>1, AskedAreFresh, Turns DEF TypeInv
<1>3. AskedOnce'
  BY <1>1, <1>2, OnceStep
<1>4. ran' \in Seq(Ways \X Scope) /\ ToSet(ran') = ToSet(ran) \cup {<<Order[way], s>>}
  <2> DEFINE P == Ways \X Scope
             x == <<Order[way], s>>
  <2>1. ran \in Seq(P) /\ x \in P /\ ran' = Append(ran, x)
    BY <1>1, <1>2 DEF TypeInv
  <2> HIDE DEF P, x
  <2>2. ran' \in Seq(P) /\ ToSet(ran') = ToSet(ran) \cup {x}
    BY <2>1, AppendSet
  <2> QED BY <2>2 DEF P, x
<1>5. TypeInv'
  BY <1>1, <1>4 DEF TypeInv, Asks
<1> QED BY <1>1, <1>3, <1>5 DEF IInv

\* What an evaluation retains belongs to its level and has not been skipped.
LEMMA RetainedScopes ==
  ASSUME GuardsAssumption, TypeInv, HeldInv, level \in 1..3, NEW d \in Ways
  PROVE  /\ \A s \in Retained(d) :
              s \in Scope /\ Len(s) = level /\ s \in ToSet(Queue(level)) /\ (level = 3 => s \in Offered[d]) /\ ~Denied(d, s)
         /\ level < 3 => \A p \in ToSet(Items) : ~Denied(d, p) => SubSeq(p, 1, level) \in Retained(d)
<1>1. /\ held[d] \subseteq Subjects /\ \A x \in held[d] : x \in ToSet(Items) \cup Offered[d] /\ ~Denied(d, x)
      /\ Offered[d] \subseteq ToSet(Work)
  BY DEF TypeInv, HeldInv, GuardsAssumption
<1>2. CASE level = 3
  <2>1. Retained(d) = {t \in held[d] : Len(t) = 3}
    BY <1>2 DEF Retained, Targets
  <2>2. ASSUME NEW s \in Retained(d) PROVE s \in Offered[d] /\ ~Denied(d, s) /\ Len(s) = 3
    <3>1. s \notin ToSet(Items)
      <4>1. s \in ToSet(Items) => Len(s) = 2
        BY QueueScopes
      <4> QED BY <2>1, <4>1
    <3> QED BY <1>1, <2>1, <3>1
  <2> QED BY <1>1, <1>2, <2>2, QueueScopes
<1>3. CASE level < 3
  <2>1. Retained(d) = {SubSeq(p, 1, level) : p \in {x \in held[d] : Len(x) = 2}} /\ (level = 1 \/ level = 2)
    BY <1>3 DEF Retained
  <2>2. ASSUME NEW p \in ToSet(Items)
        PROVE  /\ p \in Scope /\ SubSeq(p, 1, level) \in Scope /\ Len(SubSeq(p, 1, level)) = level
               /\ SubSeq(p, 1, level) \in ToSet(Queue(level)) /\ (~Denied(d, p) => ~Denied(d, SubSeq(p, 1, level)))
    <3>1. p \in Seq(Name) /\ Len(p) = 2 /\ p \in ToSet(Queue(2)) /\ SubSeq(p, 1, 1) \in ToSet(Queue(1))
      BY QueueScopes DEF Scope
    <3>2. level \in 1..Len(p)
      BY <2>1, <3>1
    <3>3. /\ SubSeq(p, 1, level) \in Seq(Name) /\ Len(SubSeq(p, 1, level)) = level /\ IsPrefix(SubSeq(p, 1, level), p)
          /\ level = 2 => SubSeq(p, 1, level) = p
      BY <3>1, <3>2, PrefixCut
    <3>4. ASSUME NEW t \in Scope, IsPrefix(t, SubSeq(p, 1, level)) PROVE IsPrefix(t, p)
      BY <3>1, <3>3, <3>4, PrefixTransitive DEF Scope
    <3>5. ~Denied(d, p) => ~Denied(d, SubSeq(p, 1, level))
      BY <3>4, DeniedIs
    <3>6. SubSeq(p, 1, level) \in ToSet(Queue(level))
      BY <2>1, <3>1, <3>3
    <3> QED BY <3>1, <3>3, <3>5, <3>6 DEF Scope
  <2>3. ASSUME NEW s \in Retained(d)
        PROVE  s \in Scope /\ Len(s) = level /\ s \in ToSet(Queue(level)) /\ ~Denied(d, s)
    <3>1. PICK p \in held[d] : Len(p) = 2 /\ s = SubSeq(p, 1, level)
      BY <2>1
    <3>2. p \notin ToSet(Work)
      <4>1. p \in ToSet(Work) => Len(p) = 3
        BY QueueScopes
      <4> QED BY <3>1, <4>1
    <3>3. p \in ToSet(Items) /\ ~Denied(d, p)
      BY <1>1, <3>2
    <3> QED BY <2>2, <3>1, <3>3
  <2>4. ASSUME NEW p \in ToSet(Items), ~Denied(d, p) PROVE SubSeq(p, 1, level) \in Retained(d)
    <3>1. p \in held[d]
      BY <2>4 DEF HeldInv, Subjects
    <3>2. Len(p) = 2
      BY QueueScopes
    <3> QED BY <2>1, <3>1, <3>2
  <2> QED BY <1>3, <2>3, <2>4
<1> QED BY <1>2, <1>3

\* An evaluation ends: its direction has passed the level.
LEMMA NextTurn ==
  ASSUME TypeInv, Evaluated
  PROVE  /\ at' \in {"guards", "rules", "ready"} /\ level' \in 1..4 /\ way' \in 1..2 /\ at # "failed"
         /\ (at' = "guards" => level' \in 1..3) /\ (at' \in {"rules", "ready"} => level' = 4)
         /\ (level \in 1..3 \/ level = 4) /\ (level = 4 => level' = 4)
         /\ level' = 4 => level = 4 \/ (level = 3 /\ way = 2)
         /\ \A d \in Ways, l \in 1..4 : Past(d, l)' <=> Past(d, l) \/ Here(d, l)
         /\ \A d \in Ways, l \in 1..4 : Here(d, l)' => left' = Queue(l)
         /\ \A d \in Ways, l \in 1..4 : Here(d, l) <=> l = level /\ d = Order[way]
<1>1. way \in {1, 2} /\ level \in 1..4 /\ at \in {"guards", "rules"} /\ (at = "guards" <=> level < 4)
  BY DEF TypeInv, Evaluated
<1>2. \A d \in Ways : (Turn(d) = 1 \/ Turn(d) = 2) /\ (Turn(d) = way => d = Order[way])
  BY Turns DEF TypeInv
<1>3. Order[way] \in Ways /\ Turn(Order[way]) = way
  BY Turns DEF TypeInv
<1>4. CASE way = 1
  <2>1. level' = level /\ at' = at /\ way' = 2
    BY <1>4 DEF Evaluated
  <2>2. left' = Queue(level)
    BY <1>1, <2>1 DEF Evaluated
  <2> QED BY <1>1, <1>2, <1>3, <1>4, <2>1, <2>2 DEF Past, Here
<1>5. CASE way = 2 /\ level < 4
  <2>1. level' = level + 1 /\ at' = (IF level = 3 THEN "rules" ELSE "guards") /\ way' = 1
    BY <1>1, <1>5 DEF Evaluated
  <2>2. left' = Queue(level')
    BY <1>1, <2>1 DEF Evaluated
  <2>3. /\ at' \in {"guards", "rules", "ready"} /\ level' \in 1..4 /\ way' \in 1..2 /\ at # "failed"
        /\ (at' = "guards" => level' \in 1..3) /\ (at' \in {"rules", "ready"} => level' = 4)
        /\ level \in 1..3 /\ (level' = 4 => level = 3)
    BY <1>1, <1>5, <2>1
  <2>4. \A d \in Ways, l \in 1..4 : Past(d, l)' <=> Past(d, l) \/ Here(d, l)
    BY <1>1, <1>2, <1>3, <1>5, <2>1 DEF Past, Here
  <2>5. \A d \in Ways, l \in 1..4 : (Here(d, l)' => left' = Queue(l)) /\ (Here(d, l) <=> l = level /\ d = Order[way])
    BY <1>1, <1>2, <1>3, <1>5, <2>1, <2>2 DEF Here
  <2> QED BY <1>5, <2>3, <2>4, <2>5
<1>6. CASE way = 2 /\ level = 4
  <2>1. level' = 4 /\ at' = "ready" /\ way' = 1
    BY <1>1, <1>6 DEF Evaluated
  <2> QED BY <1>1, <1>2, <1>3, <1>6, <2>1 DEF Past, Here
<1> QED BY <1>1, <1>4, <1>5, <1>6

LEMMA EvaluatedStep == ASSUME GuardsAssumption, IInv, Evaluated PROVE IInv'
<1> DEFINE d == Order[way]
<1>1. /\ TypeInv /\ WorkInv /\ AskedOnce /\ left = << >> /\ decided' = {} /\ UNCHANGED <<guarded, noop, held, skips, ran>>
      /\ left' = (IF at' = "ready" THEN << >> ELSE Queue(level'))
      /\ scopes' = (IF level = 4 THEN scopes ELSE [scopes EXCEPT ![d] = @ \cup Retained(d)])
      /\ kept' = IF way = 2 /\ level = 3
                 THEN [e \in Ways |-> IF Directory \in held[e] THEN kept[e] ELSE {}]
                 ELSE kept
  BY DEF Evaluated, IInv
<1>2. /\ at' \in {"guards", "rules", "ready"} /\ level' \in 1..4 /\ way' \in 1..2 /\ at # "failed"
      /\ (at' = "guards" => level' \in 1..3) /\ (at' \in {"rules", "ready"} => level' = 4)
      /\ (level \in 1..3 \/ level = 4) /\ (level = 4 => level' = 4)
      /\ level' = 4 => level = 4 \/ (level = 3 /\ way = 2)
      /\ \A e \in Ways, l \in 1..4 : Past(e, l)' <=> Past(e, l) \/ Here(e, l)
      /\ \A e \in Ways, l \in 1..4 : Here(e, l)' => left' = Queue(l)
      /\ \A e \in Ways, l \in 1..4 : Here(e, l) <=> l = level /\ e = d
  BY <1>1, NextTurn
<1>3. d \in Ways
  BY <1>1, Turns DEF TypeInv
<1> HIDE DEF d
<1>4. \A e \in Ways, l \in 1..4 : \A s \in ToSet(Queue(l)) : Looked(e, s, l)' <=> Looked(e, s, l)
  BY <1>1, <1>2, NoneLeft DEF Looked
<1>5. \A e, s : Denied(e, s)' = Denied(e, s) /\ Ran(e, s)' = Ran(e, s) /\ Skipped(e, s)' = Skipped(e, s) /\ Potential(e, s)' = Potential(e, s)
  BY <1>1 DEF Denied, Ran, Skipped, Potential, Targets
<1>6. /\ level # 4 => scopes'[d] = scopes[d] \cup Retained(d)
      /\ \A e \in Ways : level = 4 \/ e # d => scopes'[e] = scopes[e]
  BY <1>1, <1>2, <1>3 DEF TypeInv
<1>7. ScopeInv'
  <2>1. ASSUME NEW e \in Ways, NEW s \in scopes'[e]
        PROVE  /\ Len(s) \in 1..3 /\ s \in ToSet(Queue(Len(s))) /\ Past(e, Len(s))' /\ (Len(s) = 3 => s \in Offered[e])
               /\ ~Denied(e, s)'
    <3>1. CASE s \in scopes[e]
      <4>1. Len(s) \in 1..4 /\ Len(s) \in 1..3 /\ s \in ToSet(Queue(Len(s))) /\ Past(e, Len(s))
            /\ (Len(s) = 3 => s \in Offered[e]) /\ ~Denied(e, s)
        BY <1>1, <3>1 DEF WorkInv, ScopeInv
      <4> QED BY <1>2, <1>5, <4>1
    <3>2. CASE s \notin scopes[e]
      <4>1. level # 4 /\ e = d
        BY <1>6, <2>1, <3>2
      <4>2. level \in 1..3 /\ level \in 1..4 /\ s \in Retained(d)
        BY <1>2, <1>6, <2>1, <3>2, <4>1
      <4>3. Len(s) = level /\ s \in ToSet(Queue(level)) /\ (level = 3 => s \in Offered[d]) /\ ~Denied(d, s)
        BY <1>1, <1>3, <4>2, RetainedScopes DEF WorkInv
      <4>4. Len(s) \in 1..4 /\ Here(e, Len(s))
        BY <1>2, <4>1, <4>2, <4>3
      <4>5. Past(e, Len(s))'
        BY <1>2, <4>4
      <4> QED BY <1>5, <4>1, <4>2, <4>3, <4>5
    <3> QED BY <3>1, <3>2
  <2>2. ASSUME NEW e \in Ways, NEW p \in ToSet(Items), NEW k \in 1..2, Past(e, k)', ~Denied(e, p)
        PROVE  SubSeq(p, 1, k) \in scopes'[e]
    <3>1. k \in 1..4
      OBVIOUS
    <3>2. CASE Past(e, k)
      BY <1>1, <1>6, <2>2, <3>2 DEF WorkInv, ScopeInv
    <3>3. CASE ~Past(e, k)
      <4>1. k = level /\ e = d
        BY <1>2, <2>2, <3>1, <3>3
      <4>2. SubSeq(p, 1, k) \in Retained(d)
        <5>1. level \in 1..3 /\ level < 3
          BY <4>1
        <5>2. HeldInv
          BY <1>1 DEF WorkInv
        <5> QED BY <1>1, <1>3, <2>2, <4>1, <5>1, <5>2, RetainedScopes
      <4>3. level # 4
        BY <4>1
      <4> QED BY <1>6, <4>1, <4>2, <4>3
    <3> QED BY <3>2, <3>3
  <2> QED BY <1>5, <2>1, <2>2 DEF ScopeInv
<1>8. RanInv'
  <2>1. ASSUME NEW e \in Ways, NEW s \in Scope, Ran(e, s)
        PROVE  Len(s) \in 1..4 /\ Past(e, Len(s))'
    BY <1>1, <1>2, <2>1 DEF WorkInv, RanInv
  <2> QED BY <1>1, <1>5, <2>1 DEF RanInv
<1>9. HeldInv'
  BY <1>1, <1>5 DEF WorkInv, HeldInv
<1>10. AskInv'
  <2> SUFFICES ASSUME NEW e \in Ways, NEW l \in 1..3, NEW s \in ToSet(Queue(l)),
                      Looked(e, s, l)', <<e, s>> \in guarded, l \in {2, 3} => s \in held[e], Potential(e, s)
               PROVE  Ran(e, s)
    BY <1>1, <1>5 DEF AskInv
  <2>1. l \in 1..4
    OBVIOUS
  <2>2. Looked(e, s, l)
    BY <1>4, <2>1
  <2> QED BY <1>1, <2>2 DEF WorkInv, AskInv
<1>11. KeptInv' /\ RuleInv'
  <2>1. CASE level = 4
    <3>1. level' = 4 /\ kept' = kept
      BY <1>1, <1>2, <2>1
    <3>2. KeptInv'
      BY <1>1, <1>5, <2>1, <3>1 DEF WorkInv, KeptInv
    <3>3. \A i \in DOMAIN Rules, e \in Ways : Looked(e, RuleScope(i), 4)' <=> Looked(e, RuleScope(i), 4)
      BY <1>4, QueueScopes
    <3>4. RuleInv'
      BY <1>1, <1>5, <2>1, <3>1, <3>3 DEF WorkInv, RuleInv, Matches
    <3> QED BY <3>2, <3>4
  <2>2. CASE level' = 4 /\ level # 4
    <3>1. level = 3 /\ way = 2 /\ kept = Children
      BY <1>1, <1>2, <2>2 DEF WorkInv, KeptInv
    <3>2. \A e \in Ways : kept'[e] = IF Directory \in held[e] THEN Children[e] ELSE {}
      BY <1>1, <3>1
    <3>3. \A e \in Ways : ~Past(e, 4) /\ ~Here(e, 4)
      BY <1>1, <1>2, <2>2 DEF Past, Here, TypeInv
    <3>4. ASSUME NEW e \in Ways, NEW i \in DOMAIN Rules
          PROVE  ~Skipped(e, RuleScope(i)) /\ ~Looked(e, RuleScope(i), 4)' 
      <4>1. RuleScope(i) \in Scope /\ Len(RuleScope(i)) = 4 /\ RuleScope(i) \in ToSet(Queue(4))
        BY QueueScopes
      <4>2. ~Ran(e, RuleScope(i))
        BY <1>1, <3>3, <4>1 DEF WorkInv, RanInv
      <4>3. ~Looked(e, RuleScope(i), 4)
        BY <3>3 DEF Looked
      <4> QED BY <1>1, <1>4, <4>1, <4>2, <4>3 DEF Ran, Skipped, TypeInv
    <3>5. KeptInv'
      BY <1>1, <1>5, <2>2, <3>2, <3>4 DEF KeptInv
    <3>6. RuleInv'
      BY <3>4 DEF RuleInv
    <3> QED BY <3>5, <3>6
  <2>3. CASE level' # 4
    <3>1. level \in 1..3 /\ kept' = kept
      <4>1. level \in 1..3
        BY <1>2, <2>3
      <4>2. ~(way = 2 /\ level = 3)
        BY <1>1, <2>3 DEF Evaluated
      <4> QED BY <1>1, <4>1, <4>2
    <3>2. kept = Children
      BY <1>1, <3>1 DEF WorkInv, KeptInv
    <3> QED BY <2>3, <3>1, <3>2 DEF KeptInv, RuleInv
  <2> QED BY <2>1, <2>2, <2>3
<1>12. TypeInv'
  <2>1. left' \in Seq(Scope) /\ ToSet(left') \subseteq ToSet(Queue(level'))
    <3>1. CASE at' = "ready"
      <4>1. left' = << >>
        BY <1>1, <3>1
      <4> QED BY <4>1, NoneLeft
    <3>2. CASE at' # "ready"
      <4>1. left' = Queue(level')
        BY <1>1, <3>2
      <4> QED BY <1>2, <4>1, QueueType
    <3> QED BY <3>1, <3>2
  <2>2. kept' \in [Ways -> SUBSET Everyone]
    BY <1>1 DEF TypeInv
  <2>3. scopes' \in [Ways -> SUBSET Scope]
    <3>1. ASSUME NEW e \in Ways, NEW s \in scopes'[e] PROVE s \in Scope
      <4>1. Len(s) \in 1..3 /\ s \in ToSet(Queue(Len(s)))
        BY <1>7, <3>1 DEF ScopeInv
      <4>2. Len(s) \in 1..4
        BY <4>1
      <4> QED BY <4>1, <4>2, QueueType
    <3>2. DOMAIN scopes' = Ways /\ scopes' = [e \in Ways |-> scopes'[e]]
      BY <1>1 DEF TypeInv
    <3> QED BY <3>1, <3>2
  <2> QED BY <1>1, <1>2, <2>1, <2>2, <2>3 DEF TypeInv
<1>13. AskedOnce'
  BY <1>1 DEF AskedOnce
<1> QED BY <1>7, <1>8, <1>9, <1>10, <1>11, <1>12, <1>13 DEF IInv, WorkInv

LEMMA InitInv == ASSUME GuardsAssumption, Init PROVE IInv
<1>1. /\ at = "guards" /\ level = 1 /\ way = 1 /\ decided = {} /\ held = [d \in Ways |-> ToSet(Items) \cup Offered[d]]
      /\ left = Queue(1) /\ scopes = [d \in Ways |-> {}] /\ kept = Children /\ skips = {} /\ ran = << >>
  BY DEF Init
<1>2. ToSet(ran) = {}
  BY <1>1, NoneLeft
<1>3. ASSUME NEW d \in Ways, NEW l \in 1..3 PROVE ~Past(d, l) /\ (Here(d, l) => left = Queue(l))
  BY <1>1 DEF Past, Here, Turn
<1>4. \A d, s : ~Denied(d, s) /\ ~Ran(d, s) /\ ~Skipped(d, s)
  BY <1>1, <1>2 DEF Denied, Ran, Skipped
<1>5. TypeInv
  <2>1. Queue(1) \in Seq(Scope)
    BY QueueType
  <2>2. held \in [Ways -> SUBSET Subjects] /\ kept \in [Ways -> SUBSET Everyone]
    BY <1>1 DEF GuardsAssumption, Subjects, Everyone
  <2> QED BY <1>1, <1>2, <2>1, <2>2 DEF TypeInv
<1>6. AskedOnce
  BY <1>1 DEF AskedOnce, IsInjective
<1>7. RanInv /\ HeldInv /\ KeptInv /\ RuleInv
  BY <1>1, <1>4 DEF RanInv, HeldInv, KeptInv, RuleInv, Subjects
<1>8. AskInv
  BY <1>3 DEF AskInv, Looked
<1>9. ScopeInv
  <2>1. \A d \in Ways, k \in 1..2 : ~Past(d, k)
    BY <1>3
  <2> QED BY <1>1, <2>1 DEF ScopeInv
<1> QED BY <1>5, <1>6, <1>7, <1>8, <1>9 DEF IInv, WorkInv

LEMMA NextInv == ASSUME GuardsAssumption, IInv, [Next]_vars PROVE IInv'
<1>1. CASE Look
  BY <1>1, LookStep
<1>2. CASE Evaluated
  BY <1>2, EvaluatedStep
<1>3. ASSUME NEW s \in Scopes, Admit(s) \/ Skip(s) \/ Fail(s) PROVE IInv'
  BY <1>3, AdmitStep, SkipStep, FailStep
<1>4. CASE UNCHANGED vars
  <2>1. UNCHANGED <<guarded, noop, at, level, way, left, decided, held, scopes, kept, skips, ran>>
    BY <1>4 DEF vars
  <2>2. TypeInv' = TypeInv /\ AskedOnce' = AskedOnce
    BY <2>1 DEF TypeInv, AskedOnce
  <2>3. /\ \A d, s : Denied(d, s)' = Denied(d, s) /\ Ran(d, s)' = Ran(d, s) /\ Skipped(d, s)' = Skipped(d, s)
                     /\ Potential(d, s)' = Potential(d, s)
        /\ \A d, l : Past(d, l)' = Past(d, l) /\ Here(d, l)' = Here(d, l)
        /\ \A d, i : Matches(d, i)' = Matches(d, i)
    BY <2>1 DEF Denied, Ran, Skipped, Potential, Targets, Past, Here, Matches
  <2>4. \A d, s, l : Looked(d, s, l)' = Looked(d, s, l)
    BY <2>1, <2>3 DEF Looked
  <2>5. RanInv' = RanInv /\ HeldInv' = HeldInv /\ KeptInv' = KeptInv
    BY <2>1, <2>3 DEF RanInv, HeldInv, KeptInv
  <2>6. AskInv' = AskInv /\ RuleInv' = RuleInv /\ ScopeInv' = ScopeInv
    BY <2>1, <2>3, <2>4 DEF AskInv, RuleInv, ScopeInv
  <2> QED BY <2>1, <2>2, <2>5, <2>6 DEF IInv, WorkInv
<1> QED BY <1>1, <1>2, <1>3, <1>4 DEF Next

LEMMA Invariance == ASSUME GuardsAssumption PROVE Spec => []IInv
<1>1. Init => IInv
  BY InitInv
<1>2. IInv /\ [Next]_vars => IInv'
  BY NextInv
<1> QED BY <1>1, <1>2, PTL DEF Spec

-----------------------------------------------------------------------------
(* What an opening that is ready has asked                                  *)

LEMMA CutScopes ==
  ASSUME GuardsAssumption, NEW l \in 1..3, NEW s \in ToSet(Queue(l)), NEW k \in 1..l
  PROVE  SubSeq(s, 1, k) \in ToSet(Queue(k))
<1>1. s \in Seq(Name) /\ Len(s) = l /\ k \in 1..Len(s)
  <2>1. l \in 1..4
    OBVIOUS
  <2> QED BY <2>1, QueueType DEF Scope
<1>2. CASE k = l
  BY <1>1, <1>2, PrefixCut
<1>3. CASE l = 2 /\ k = 1
  BY <1>3, QueueType, QueueScopes
<1>4. CASE l = 3 /\ k # 3
  <2>1. SubSeq(s, 1, 2) \in ToSet(Items)
    BY <1>4, QueueType, QueueScopes
  <2>2. SubSeq(SubSeq(s, 1, 2), 1, 1) = SubSeq(s, 1, 1)
    <3>1. 2 \in 1..Len(s) /\ 1 \in 1..2
      BY <1>1, <1>4
    <3> QED BY <1>1, <3>1, PrefixCut
  <2>3. k = 1 \/ k = 2
    BY <1>4
  <2> QED BY <2>1, <2>2, <2>3, QueueScopes
<1>5. k = l \/ (l = 2 /\ k = 1) \/ (l = 3 /\ k # 3)
  OBVIOUS
<1> QED BY <1>2, <1>3, <1>4, <1>5

LEMMA ReadyAsked ==
  ASSUME GuardsAssumption, IInv, at = "ready", NEW d \in Ways, NEW l \in 1..3, NEW s \in ToSet(Queue(l)),
         ~Denied(d, s), l = 3 => s \in Offered[d], <<d, s>> \in noop \/ \E t \in Targets(d) : IsPrefix(s, t)
  PROVE  Asked(d, s)
<1>1. s \in Scope /\ Len(s) = l /\ s \in Seq(Name)
  <2>1. l \in 1..4
    OBVIOUS
  <2> QED BY <2>1, QueueType DEF Scope
<1>2. TypeInv /\ HeldInv /\ AskInv
  BY DEF IInv, WorkInv
<1>3. SUFFICES ASSUME NEW k \in 1..l, <<d, SubSeq(s, 1, k)>> \in guarded PROVE Ran(d, SubSeq(s, 1, k))
  BY <1>1 DEF Asked, Ran
<1> DEFINE r == SubSeq(s, 1, k)
<1>4. r \in ToSet(Queue(k)) /\ k \in 1..3
  BY CutScopes
<1>5. r \in Seq(Name) /\ IsPrefix(r, s) /\ (k = l => r = s)
  BY <1>1, PrefixCut
<1> HIDE DEF r
<1>6. ~Denied(d, r)
  <2>1. \A t \in Scope : IsPrefix(t, r) => IsPrefix(t, s)
    BY <1>1, <1>5, PrefixTransitive DEF Scope
  <2> QED BY <1>2, <2>1, DeniedIs
<1>7. ASSUME NEW j \in {2, 3}, NEW x \in ToSet(Queue(j)), ~Denied(d, x), j = 3 => x \in Offered[d]
      PROVE  x \in held[d]
  <2>1. j \in 1..4
    OBVIOUS
  <2>2. x \in Subjects /\ (j = 2 => x \in ToSet(Items))
    BY <2>1, QueueType DEF Subjects
  <2> QED BY <1>2, <1>7, <2>2 DEF HeldInv
<1>8. k \in {2, 3} => r \in held[d]
  <2>1. k = 3 => k = l
    OBVIOUS
  <2> QED BY <1>4, <1>5, <1>6, <1>7, <2>1
<1>9. Potential(d, r)
  <2>1. CASE \E t \in Targets(d) : IsPrefix(s, t)
    <3>1. PICK t \in Targets(d) : IsPrefix(s, t)
      BY <2>1
    <3>2. t \in Scope
      BY <1>2, QueueScopes DEF Targets, TypeInv, Subjects
    <3>3. IsPrefix(r, t)
      BY <1>1, <1>5, <3>1, <3>2, PrefixTransitive DEF Scope
    <3> QED BY <3>1, <3>3 DEF Potential
  <2>2. CASE <<d, s>> \in noop
    <3>1. s = r \/ s \in held[d]
      <4>1. l = 1 => k = l
        OBVIOUS
      <4>2. l = 1 \/ l \in {2, 3}
        OBVIOUS
      <4> QED BY <1>5, <1>7, <4>1, <4>2
    <3>2. <<d, s>>[1] = d /\ <<d, s>>[2] = s
      OBVIOUS
    <3> QED BY <1>5, <2>2, <3>1, <3>2 DEF Potential
  <2> QED BY <2>1, <2>2
<1>10. Looked(d, r, k)
  BY DEF Looked, Past
<1> QED BY <1>2, <1>3, <1>4, <1>8, <1>9, <1>10 DEF AskInv, r

LEMMA ReadyTargets ==
  ASSUME GuardsAssumption, IInv, at = "ready", NEW d \in Ways PROVE AdmittedByAll(d)
<1>1. TypeInv /\ HeldInv /\ KeptInv /\ RuleInv /\ level = 4
  BY DEF IInv, WorkInv, TypeInv
<1>2. ASSUME NEW t \in ToSet(Work), t \in held[d] PROVE t \in Offered[d] /\ ~Denied(d, t) /\ Asked(d, t)
  <2>1. t \in Scope /\ Len(t) = 3 /\ t \in ToSet(Queue(3)) /\ t \in Subjects
    BY QueueScopes DEF Subjects
  <2>2. t \notin ToSet(Items)
    <3>1. t \in ToSet(Items) => Len(t) = 2
      BY QueueScopes
    <3> QED BY <2>1, <3>1
  <2>3. t \in Offered[d] /\ ~Denied(d, t)
    BY <1>1, <1>2, <2>1, <2>2 DEF HeldInv
  <2>4. t \in Targets(d) /\ IsPrefix(t, t)
    BY <1>2, <2>1, PrefixBasics DEF Targets, Scope
  <2>5. Asked(d, t)
    <3>1. 3 \in 1..3
      OBVIOUS
    <3> QED BY <2>1, <2>3, <2>4, <3>1, ReadyAsked
  <2> QED BY <2>3, <2>5
<1>3. ASSUME NEW t \in ToSet(Work), t \in Offered[d], ~Denied(d, t) PROVE t \in held[d]
  BY <1>1, <1>3 DEF HeldInv, Subjects
<1>4. ASSUME NEW c \in Children[d], c \in kept[d], NEW i \in DOMAIN Rules, c \in Rules[i], <<d, RuleScope(i)>> \in guarded
      PROVE  <<d, RuleScope(i)>> \in ToSet(ran) \ skips
  <2>1. ~Skipped(d, RuleScope(i))
    BY <1>1, <1>4 DEF KeptInv
  <2>2. Matches(d, i) /\ Looked(d, RuleScope(i), 4)
    BY <1>4 DEF Matches, Looked, Past
  <2>3. Ran(d, RuleScope(i))
    BY <1>1, <1>4, <2>2 DEF RuleInv
  <2> QED BY <2>1, <2>3 DEF Ran, Skipped
<1>5. ASSUME NEW c \in Children[d], Directory \in held[d],
             \A i \in DOMAIN Rules : c \in Rules[i] /\ <<d, RuleScope(i)>> \in guarded => <<d, RuleScope(i)>> \in ToSet(ran) \ skips
      PROVE  c \in kept[d]
  <2>1. \A i \in DOMAIN Rules : Skipped(d, RuleScope(i)) => <<d, RuleScope(i)>> \in guarded
    BY <1>1 DEF Skipped, TypeInv
  <2>2. \A i \in DOMAIN Rules : Skipped(d, RuleScope(i)) => c \notin Rules[i]
    BY <1>5, <2>1 DEF Skipped
  <2> QED BY <1>1, <1>5, <2>2 DEF KeptInv
<1>6. \A c \in Children[d] : c \in kept[d] => Directory \in held[d]
  BY <1>1 DEF KeptInv
<1>7. \A t \in ToSet(Work) : t \in held[d] <=> t \in Offered[d] /\ ~Denied(d, t) /\ (~Denied(d, t) => Asked(d, t))
  BY <1>2, <1>3
<1>8. \A c \in Children[d] :
        c \in kept[d] <=>
          /\ Directory \in held[d]
          /\ \A i \in DOMAIN Rules :
               c \in Rules[i] /\ <<d, RuleScope(i)>> \in guarded => <<d, RuleScope(i)>> \in ToSet(ran) \ skips
  BY <1>4, <1>5, <1>6
<1> QED BY <1>7, <1>8 DEF AdmittedByAll, RuleScope

LEMMA ReadyHooks ==
  ASSUME GuardsAssumption, IInv, at = "ready", NEW d \in Ways PROVE HooksByAncestors(d)
<1>1. TypeInv /\ ScopeInv
  BY DEF IInv, WorkInv
<1>2. ASSUME NEW s \in scopes[d]
      PROVE  /\ Len(s) \in 1..3 /\ s \in ToSet(Queue(Len(s))) /\ (Len(s) = 3 => s \in Offered[d]) /\ ~Denied(d, s)
             /\ s \in Seq(Name)
  <2>1. Len(s) \in 1..3 /\ s \in ToSet(Queue(Len(s))) /\ (Len(s) = 3 => s \in Offered[d]) /\ ~Denied(d, s)
    BY <1>1, <1>2 DEF ScopeInv
  <2>2. Len(s) \in 1..4
    BY <2>1
  <2> QED BY <2>1, <2>2, QueueType DEF Scope
<1>3. ASSUME NEW s \in scopes[d] PROVE s \in Scopes
  <2>1. CASE Len(s) = 1
    <3>1. s \in ToSet(Queue(1)) /\ 1 \in 1..4
      <4>1. s \in ToSet(Queue(1))
        BY <1>2, <2>1, Zenon
      <4> QED BY <4>1
    <3>2. PICK p \in ToSet(Items) : s = SubSeq(p, 1, 1)
      BY <3>1, QueueType
    <3>3. 1 \in 1..Len(p)
      <4>1. Len(p) = 2
        BY QueueScopes
      <4> QED BY <4>1
    <3> QED BY <3>2, <3>3 DEF Scopes
  <2>2. CASE Len(s) = 2
    <3>1. s \in ToSet(Queue(2)) /\ 2 \in 1..4
      <4>1. s \in ToSet(Queue(2))
        BY <1>2, <2>2, Zenon
      <4> QED BY <4>1
    <3>2. s \in ToSet(Items)
      BY <3>1, QueueType
    <3>3. 2 \in 1..Len(s) /\ SubSeq(s, 1, 2) = s
      <4>1. 2 \in 1..Len(s) /\ s \in Seq(Name)
        BY <1>2, <2>2
      <4> QED BY <2>2, <4>1, PrefixCut
    <3> QED BY <3>2, <3>3 DEF Scopes
  <2>3. CASE Len(s) = 3
    <3>1. s \in ToSet(Queue(3)) /\ 3 \in 1..4
      <4>1. s \in ToSet(Queue(3))
        BY <1>2, <2>3, Zenon
      <4> QED BY <4>1
    <3>2. s \in ToSet(Work)
      BY <3>1, QueueType
    <3>3. 3 \in 1..Len(s) /\ SubSeq(s, 1, 3) = s
      <4>1. 3 \in 1..Len(s) /\ s \in Seq(Name)
        BY <1>2, <2>3
      <4> QED BY <2>3, <4>1, PrefixCut
    <3> QED BY <3>2, <3>3 DEF Scopes
  <2>4. Len(s) \in {1, 2, 3}
    BY <1>2
  <2> QED BY <2>1, <2>2, <2>3, <2>4
<1>4. \A p \in ToSet(Items), k \in 1..2 : ~Denied(d, p) => SubSeq(p, 1, k) \in scopes[d]
  BY <1>1 DEF ScopeInv, Past
<1>5. ASSUME NEW s \in scopes[d], <<d, s>> \in noop \/ \E t \in held[d] : Len(t) = 3 /\ IsPrefix(s, t)
      PROVE  Asked(d, s)
  <2>1. <<d, s>> \in noop \/ \E t \in Targets(d) : IsPrefix(s, t)
    BY <1>5 DEF Targets
  <2> QED BY <1>2, <2>1, ReadyAsked
<1>6. scopes[d] \subseteq {s \in Scopes : ~Denied(d, s)}
  BY <1>2, <1>3
<1> QED BY <1>4, <1>5, <1>6 DEF HooksByAncestors

-----------------------------------------------------------------------------

\* The variables of an opening keep their types (planning_guards.py).
THEOREM TypeCorrect == ASSUME GuardsAssumption PROVE Spec => []TypeOK
<1>1. IInv => TypeOK
  BY DEF IInv, TypeInv, TypeOK, Subjects, Everyone
<1> QED BY <1>1, Invariance, PTL

\* However the selections repeat a package or a target, no Guard runs twice in an opening, and none
\* runs at or below a scope that has been skipped in its direction (evaluate_planning_guards).
THEOREM GuardsRunOnce == ASSUME GuardsAssumption PROVE Spec => []AskedOnce
<1>1. IInv => AskedOnce
  BY DEF IInv
<1> QED BY <1>1, Invariance, PTL

\* When an opening is ready, a target or child is left to a direction exactly if it was offered to it
\* and no Guard at or above it has skipped, all of them having run; and the hook scopes are those
\* that no Guard at or above them has skipped.
THEOREM GuardsAreObeyed == ASSUME GuardsAssumption PROVE Spec => []GuardsDecide
<1>1. GuardsAssumption /\ IInv => GuardsDecide
  BY ReadyTargets, ReadyHooks DEF IInv, GuardsDecide
<1> QED BY <1>1, Invariance, PTL
================================================================================
