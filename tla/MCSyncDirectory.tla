--------------------------- MODULE MCSyncDirectory ---------------------------
(* A directory target r with a folder a, and in it a file ax, a marker am and *)
(* a .gitignore ag; five configurations of links and patterns.                *)
EXTENDS FiniteSets, TLC

VARIABLES setting, repo, live, bases, session

Places == {"r", "a", "ax", "am", "ag"}
Silent == [p \in Places |-> "none"]
Configuration(follow, files, gitignore, static, inner, outer) ==
  [follow |-> follow, files |-> files, gitignore |-> gitignore, static |-> static,
   git |-> "ag" :> inner @@ "r" :> outer]

Census == INSTANCE SyncDirectory WITH
  Root <- "r", Paths <- Places, Marks <- {"am"}, Controls <- {"ag"},
  Above <- [p \in Places |-> CASE p = "r" -> {} [] p = "a" -> {"r"} [] OTHER -> {"r", "a"}],
  RepoKinds <- [p \in Places |->
    CASE p = "r" -> {"dir", "absent"} [] p = "a" -> {"absent", "file", "dir", "link"}
      [] p = "ax" -> {"absent", "file", "dir", "sealed"} [] p = "am" -> {"absent"} [] OTHER -> {"absent", "file"}],
  LiveKinds <- [p \in Places |->
    CASE p = "r" -> {"dir", "dangling", "link"} [] p = "a" -> {"absent", "file", "dir", "link", "dangling"}
      [] p = "ax" -> {"absent", "file", "loop", "other"} [] p = "ag" -> {"absent"} [] OTHER -> {"absent", "file"}],
  Settings <- {
    Configuration(FALSE, "prompt", TRUE, Silent, Silent, Silent),
    Configuration(TRUE, "prompt", FALSE, Silent, Silent, Silent),
    Configuration(TRUE, "follow", TRUE, [Silent EXCEPT !["ax"] = "dir"], Silent, [Silent EXCEPT !["a"] = "ignore"]),
    Configuration(FALSE, "prompt", TRUE, [Silent EXCEPT !["ax"] = "keep"], [Silent EXCEPT !["ax"] = "ignore"], Silent),
    Configuration(FALSE, "prompt", TRUE, [Silent EXCEPT !["a"] = "dir"], Silent, Silent)}
DirectorySpec == Census!Spec

\* In prompt mode, no child is observed as Missing for a link on the way to it that dangles (SyncDirectory).
MissingIsAbsent == Census!MissingIsAbsent
=============================================================================
