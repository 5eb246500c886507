---------------------------- MODULE MCSnapshots ----------------------------
(* A managed directory d with two files in it.  A push may have work for the *)
(* two, or for the mode of the directory as well.                            *)
EXTENDS FiniteSets, Sequences, TLC

VARIABLES live, gens, push, restore, edits, alone

Places == {"d", "d/x", "d/y"}
Unlinked == [kind |-> "absent", data |-> 1]
Snap == INSTANCE Snapshots WITH
  ByName <- <<"d", "d/x", "d/y">>, Ancestors <- [p \in Places |-> IF p = "d" THEN {} ELSE {"d"}],
  Structural <- Places, Roots <- {"d"}, Linked <- {}, Data <- {1, 2}, Behind <- <<Unlinked, Unlinked>>, Default <- 1,
  Recorded <- {{"d/x", "d/y"}, Places}, MaxGenerations <- 1, Pushes <- 1, Edits <- 2

SnapshotsSpec == Snap!Spec

\* A restore that ends, with no other writer, has given every recorded path the bytes and the mode
\* that were recorded, and has removed what was absent (Snapshots).
RestoresBytesAndModes == Snap!RestoresBytesAndModes
=============================================================================
