---------------------------- MODULE MCResolution ----------------------------
(* Small configurations: a path that two dependencies claim, a package with *)
(* instances, a group; then the manifests and the configuration move.        *)
EXTENDS SyncScope

Profs == {"p", "q"}
Same(path) == [f \in Profs |-> path]
Target(name, source, live) ==
  [name |-> name, source |-> source, live |-> live, onDemand |-> FALSE, ignores |-> {}, probe |-> FALSE]
Pkg(depends, targets) == [depends |-> depends, multi |-> FALSE, targets |-> targets, reserved |-> {}]
Path(s) == Same(<<s>>)

\* a and d pull in b and c, which both claim the live path x; d and an instance
\* of m claim one repository path
Catalog ==
  [packages |->
     [a |-> Pkg(<<"b", "m">>, {}),
      b |-> Pkg(<<>>, {Target("t", Path("b/t"), Path("x")),
                       [Target("o", Path("b/o"), Path("o")) EXCEPT !.onDemand = TRUE]}),
      c |-> Pkg(<<>>, {Target("t", Path("c/t"), Path("x"))}),
      d |-> Pkg(<<"c">>, {Target("n", Path("m"), Path("n")), [Target("w", Path("w"), Path("w")) EXCEPT !.probe = TRUE]}),
      m |-> [Pkg(<<>>, {Target("n", [f \in Profs |-> IF f = "p" THEN <<"n">> ELSE <<"m">>], [f \in Profs |-> <<"y", f>>])})
               EXCEPT !.multi = TRUE]],
   groups |-> [g |-> <<"b", "m">>],
   profiles |-> Profs]
\* m has no instances any more, c is gone, a path lies in another
Moved ==
  [Catalog EXCEPT
     !.packages = [n \in {"a", "b", "d", "m"} |->
       CASE n = "m" -> Pkg(<<>>, {Target("n", Path("m"), Same(<<"y">>))})
         [] n = "a" -> Pkg(<<"b", "m">>, {Target("z", Same(<<"y", "z">>), Same(<<"y", "z">>))})
         [] OTHER -> Catalog.packages[n]]]
Narrowed ==
  [Catalog EXCEPT !.packages = [n \in {"b"} |-> Catalog.packages[n]],
                  !.groups = [g |-> <<"b">>], !.profiles = {"p"}]

One(name, key, content) == [order |-> <<name>>, at |-> (name :> [key |-> key, content |-> content])]
MCConfigs ==
  [catalog |-> One("main", "k", Catalog), moved |-> One("main", "k", Moved),
   narrowed |-> One("main", "k", Narrowed), rekeyed |-> One("main", "l", Narrowed)]
MCQueries ==
  {Row("main", n, "p") : n \in {"a", "b", "d", "m", "g"}} \cup {Row("main", n, "q") : n \in {"b", "c", "m"}}
MCRank == [n \in {"main", "other", "a", "b", "c", "d", "g", "m", "p", "q"} |->
  CASE n = "main" -> 0 [] n = "other" -> 1 [] n = "a" -> 1 [] n = "b" -> 2 [] n = "c" -> 3 [] n = "d" -> 4
    [] n = "g" -> 5 [] n = "m" -> 6 [] n = "p" -> 7 [] OTHER -> 8]
=============================================================================
