----------------------------- MODULE MCDocuments -----------------------------
(* Small documents of the five formats, and selectors of their keys.         *)
EXTENDS Naturals, Sequences, TLC

\* scalars, words of yaml and items of toml, as StructuredFiles has them
Scalar(type, datum) == [type |-> type, datum |-> datum]
Spelt(style, word) == [style |-> style, word |-> word]
Item(note, inline, body) == [note |-> note, inline |-> inline, body |-> body]

Maps(keys, vals) == UNION {[S -> vals] : S \in SUBSET keys}
Docs(x, y, z) ==
  LET inner == Maps({"a"}, {x, y}) \cup {"b" :> x, "a" :> x @@ "b" :> x}
      first == Maps({"a"}, {x, z} \cup inner)
  IN first \cup {f @@ ("b" :> x) : f \in first}

int == Scalar("int", "1")
float == Scalar("float", "1")
MCValue == {int, float, Scalar("float", "inf"), Scalar("uid", "u"), Scalar("int", "12"), Scalar("text", "12")}
           \cup {Scalar(t, "yes") : t \in {"text", "bool", "ambiguous"}}
MCReading == ("1.1" :> ("yes" :> Scalar("bool", "yes") @@ "12" :> Scalar("int", "12")))
          @@ ("1.2" :> ("yes" :> Scalar("text", "yes") @@ "12" :> Scalar("int", "12")))
\* toml: a table with a header or inline, a comment here and there
Leaf(note, v) == Item(note, FALSE, v)
MCToml ==
  LET leaves == {Leaf("", int), Leaf("note", float)}
      inner == Maps({"a"}, leaves) \cup {"a" :> Leaf("", int) @@ "b" :> Leaf("note", int)}
      first == Maps({"a"}, leaves \cup {Item(n, FALSE, f) : n \in {"", "note"}, f \in inner}
                       \cup {Item("", TRUE, f) : f \in Maps({"a", "b"}, {Leaf("", int)})})
      beside == Maps({"a"}, {Leaf("", int)} \cup {Item("note", FALSE, f) : f \in inner})
  IN {Item("", FALSE, f) : f \in first \cup {g @@ ("b" :> Leaf("", int)) : g \in beside}}

\* xml: siblings with and without an identity, and one level below
Element(tag, attrs, text, note, kids) ==
  [tag |-> tag, attrs |-> attrs, text |-> text, note |-> note, kids |-> kids]
MCXml ==
  LET leaves == {Element("b", <<>>, t, "", <<>>) : t \in {"1", "2"}}
      kids == {<<>>} \cup {<<x>> : x \in leaves}
      named == {Element("a", "id" :> n, "", "", k) : n \in {"1", "2"}, k \in kids}
      plain == {Element("a", <<>>, "", "note", <<>>), Element("c", <<>>, "", "", <<>>)}
      any == named \cup plain \cup leaves
  IN {Element("r", <<>>, "", "", k) : k \in {<<>>} \cup {<<x>> : x \in any} \cup (named \X plain) \cup (plain \X leaves)
                                          \cup {<<x, y>> \in named \X named : x.attrs # y.attrs /\ <<>> \in {x.kids, y.kids}}}

MCDoc ==
  "json" :> Docs(int, float, Scalar("float", "inf"))
  @@ "yaml" :> Docs(Spelt("plain", "yes"), Spelt("quoted", "yes"), Spelt("quoted", "12"))
  @@ "plist" :> Docs(int, float, Scalar("uid", "u"))
  @@ "toml" :> MCToml
  @@ "xml" :> MCXml
Same == "a" :> "a" @@ "b" :> "b"
AllAlike == "a" :> "a" @@ "b" :> "a"

Selectors(exact, regex, notExact, notRegex) ==
  [exact : {exact}, regex : {regex}, notExact : {notExact}, notRegex : {notRegex}, strategy : {"allow", "deny"}]
MCKeys ==
  UNION {Selectors({}, {}, {}, {}), Selectors({<<"a">>}, {}, {}, {}), Selectors({<<"a", "a">>}, {}, {}, {}),
         Selectors({<<"a", "b">>, <<"b">>}, {}, {}, {}), Selectors({}, {"a"}, {}, {}),
         Selectors({<<"a">>}, {}, {<<"a", "b">>}, {}), Selectors({}, {}, {<<"a", "a">>}, {}),
         Selectors({<<"a">>}, {}, {}, {"b"}), Selectors({<<"b">>}, {"a"}, {<<"a">>}, {})}
MCPaths == UNION {Selectors({p}, {}, {}, {}) : p \in {<<"r", "a">>, <<"r", "b">>, <<"r", "a", "b">>}}
MCRequest == [f \in DOMAIN MCDoc |-> CASE f = "xml" -> MCPaths
                                     [] f \in {"yaml", "plist"} -> {r \in MCKeys : r.notExact = {} /\ r.notRegex = {}}
                                     [] OTHER -> MCKeys]
=============================================================================
