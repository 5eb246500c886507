--------------------------- MODULE MCSharedSession ---------------------------
(***************************************************************************)
(* Two sessions over the same rows and their shared source: a sync, and a  *)
(* push, which is opened with everything approved.  The initial state says *)
(* which of the two it is.                                                 *)
(***************************************************************************)
EXTENDS MCSyncSession

VARIABLE part

\* a row that may be excluded, would write through a symlink and whose providers fail, beside
\* one whose sources are edited; the user may cancel the session
Outwards == a :> "push-only" @@ b :> "push-only-delete"
Push == INSTANCE SyncSession WITH
  Policy <- Outwards, Operation <- "push", Ancestry <- {}, Linked <- {a}, Patched <- {}, Idempotent <- {},
  Text <- {}, Conflicted <- {}, Excludable <- {a}, Editable <- {b}, Failing <- {a}, Cancels <- {"session"}

SharedInit == part \in {"sync", "push"} /\ IF part = "push" THEN Push!Init ELSE Init
SharedNext ==
  \/ part = "sync" /\ Next /\ UNCHANGED part
  \/ part = "push" /\ Push!Next /\ UNCHANGED part
SharedSpec == SharedInit /\ [][SharedNext]_<<part, vars>>
=============================================================================
