---------------------------- MODULE MCSessionDeck ----------------------------
(***************************************************************************)
(* A session and the Command Deck over one, checked side by side: the      *)
(* initial state says which of the two moves, the other rests.  They share *)
(* no state here; the deck has a coarser session of its own, which keeps   *)
(* of a row what the deck asks about.                                      *)
(***************************************************************************)
EXTENDS MCSyncSession, Sequences

VARIABLES part, desk, screen, menu, box, filter, focus, widget, lane, abort, result, page

\* a unit that needs the deletion of another, and a source that editing either of them may stage
Deck == INSTANCE CommandDeck WITH
  work <- desk,
  Proposals <- <<"w", "b">>, Sources <- <<"s">>, Auxiliary <- {}, Refs <- [x \in {"s"} |-> {"w", "b"}],
  MakesRoom <- [x \in {"w", "b"} |-> IF x = "w" THEN {"b"} ELSE {}], Noops <- {}, Menus <- {"b"}, NoBase <- {"b"},
  Queries <- {{"b", "s"}}, None <- "none"

ASSUME Deck!DeckAssumption

console == <<desk, screen, menu, box, filter, focus, widget, lane, abort, result, page>>

SessionDeckInit ==
  /\ part \in {"session", "deck"}
  /\ Init /\ (part = "deck" => \A r \in Row : renders[r] # {})
  /\ Deck!Init /\ (part = "session" => desk.sources = {} /\ result = "open")
SessionDeckNext ==
  \/ part = "session" /\ Next /\ UNCHANGED <<part, console>>
  \/ part = "deck" /\ Deck!Next /\ UNCHANGED <<part, vars>>
SessionDeckSpec == SessionDeckInit /\ [][SessionDeckNext]_<<part, vars, console>>

-----------------------------------------------------------------------------

\* The deck executes what its confirmation has shown, each command acts on the row that it was
\* given at and ends there, and Ctrl+C outside the Editor is final (CommandDeck).
DeckRunsWhatItShows == Deck!DeckRunsWhatItShows
=============================================================================
