----------------------------- MODULE AtomicFiles -----------------------------
(***************************************************************************)
(* Processes that replace one file at the same time (atomic_files.py):     *)
(* temporaries named by the pid of their creator, a rename, and a sweep    *)
(* that removes what killed processes have left.  The pid of a process     *)
(* that is over may be used again.                                         *)
(***************************************************************************)
EXTENDS Naturals, FiniteSets

CONSTANTS
  Proc,      \* processes, each of which makes one write
  Pid,       \* Pid[p]: the pid it has; one that is over may share it
  Private,   \* processes that write with an explicit, narrow mode
  None,      \* no process
  Foreign    \* processes whose pids the others cannot see (another pid namespace or host)

Mode == {"default", "private"}
Bytes == [by : Proc \cup {None}, whole : BOOLEAN, mode : Mode, want : Mode] \* want: the mode to set

FilesAssumption ==
  /\ Private \subseteq Proc /\ Foreign \subseteq Proc
  /\ \A p \in Proc : Pid[p] \in Nat
  /\ None \notin Proc \cup Bytes

VARIABLES
  pc,      \* where a process is
  todo,    \* temporaries the sweep of a process has still to look at
  absent,  \* the temporary whose owner it has just found absent
  file,    \* what a reader finds: the writer of the bytes, whether whole, and the mode
  temp     \* the temporary of each process that has one

vars == <<pc, todo, absent, file, temp>>

Running == {"sweeping", "opening", "open", "written", "ready", "cleaning", "failing"}
Over == {"done", "failed", "killed"}

TypeOK ==
  /\ pc \in [Proc -> {"idle"} \cup Running \cup Over]
  /\ todo \in [Proc -> SUBSET Proc]
  /\ absent \in [Proc -> Proc \cup {None}]
  /\ file \in Bytes
  /\ temp \in [Proc -> Bytes \cup {None}]

Temps == {p \in Proc : temp[p] # None}
Moves(p, to) == pc' = [pc EXCEPT ![p] = to]

-----------------------------------------------------------------------------
(* The sweep (cleanup_stale_atomic_temp_files)                             *)

\* a pid belongs to one running process at a time
Start(p) ==
  /\ pc[p] = "idle" /\ \A q \in Proc \ {p} : pc[q] \in Running => Pid[q] # Pid[p]
  /\ Moves(p, "sweeping")
  /\ todo' = [todo EXCEPT ![p] = Temps]
  /\ UNCHANGED <<absent, file, temp>>

\* os.kill(pid, 0): only ProcessLookupError says that nobody has the pid
SelfOnly(p, pid) == Pid[p] = pid                                                  \* mutant
Seen(p, pid) == \E q \in Proc : pc[q] \in Running /\ Pid[q] = pid /\ (q \in Foreign => p = q)

SweepLooks(p) ==
  /\ pc[p] = "sweeping" /\ absent[p] = None
  /\ \E q \in todo[p] :
       /\ todo' = [todo EXCEPT ![p] = @ \ {q}]
       /\ absent' = [absent EXCEPT ![p] = IF Seen(p, Pid[q]) THEN None ELSE q]
  /\ UNCHANGED <<pc, file, temp>>

\* the name holds a token: it is never used again
SweepRemoves(p) ==
  /\ pc[p] = "sweeping" /\ absent[p] # None
  /\ temp' = [temp EXCEPT ![absent[p]] = None]
  /\ absent' = [absent EXCEPT ![p] = None]
  /\ UNCHANGED <<pc, todo, file>>

Swept(p) ==
  /\ pc[p] = "sweeping" /\ todo[p] = {} /\ absent[p] = None
  /\ Moves(p, "opening")
  /\ UNCHANGED <<todo, absent, file, temp>>

-----------------------------------------------------------------------------
(* The replacement (write_bytes_atomic)                                    *)

\* an explicit mode, or that of the file to replace, is chosen first
Open(p) ==
  /\ pc[p] = "opening"
  /\ Moves(p, "open")
  /\ temp' = [temp EXCEPT ![p] = [by |-> p, whole |-> FALSE, mode |-> "default",
                              want |-> IF p \in Private THEN "private" ELSE file.mode]]
  /\ UNCHANGED <<todo, absent, file>>

Write(p) ==
  /\ pc[p] = "open"
  /\ Moves(p, "written")
  /\ temp' = IF temp[p] = None THEN temp ELSE [temp EXCEPT ![p].whole = TRUE]
  /\ UNCHANGED <<todo, absent, file>>

SetMode(p) ==
  /\ pc[p] = "written"
  /\ IF temp[p] = None THEN Moves(p, "failing") /\ UNCHANGED temp
     ELSE /\ Moves(p, "ready")
          /\ temp' = [temp EXCEPT ![p].mode = temp[p].want]
  /\ UNCHANGED <<todo, absent, file>>

Rename(p) ==
  /\ pc[p] = "ready"
  /\ IF temp[p] = None THEN Moves(p, "failing") /\ UNCHANGED <<file, temp>>
     ELSE /\ Moves(p, "cleaning")
          /\ file' = temp[p] /\ temp' = [temp EXCEPT ![p] = None]
  /\ UNCHANGED <<todo, absent>>

\* an OSError of any step
Fails(p) ==
  /\ pc[p] \in {"sweeping", "opening", "open", "written", "ready"}
  /\ Moves(p, "failing")
  /\ todo' = [todo EXCEPT ![p] = {}] /\ absent' = [absent EXCEPT ![p] = None]
  /\ UNCHANGED <<file, temp>>

CleanUp(p) ==
  /\ pc[p] \in {"cleaning", "failing"}
  /\ Moves(p, IF pc[p] = "cleaning" THEN "done" ELSE "failed")
  /\ temp' = [temp EXCEPT ![p] = None]
  /\ UNCHANGED <<todo, absent, file>>

Kill(p) ==
  /\ pc[p] \in Running
  /\ Moves(p, "killed")
  /\ todo' = [todo EXCEPT ![p] = {}] /\ absent' = [absent EXCEPT ![p] = None]
  /\ UNCHANGED <<file, temp>>

-----------------------------------------------------------------------------

Init ==
  /\ pc = [p \in Proc |-> "idle"]
  /\ todo = [p \in Proc |-> {}] /\ absent = [p \in Proc |-> None]
  /\ file = [by |-> None, whole |-> TRUE, mode |-> "default", want |-> "default"]
  /\ temp = [p \in Proc |-> None]

Step(p) ==
  \/ SweepLooks(p) \/ SweepRemoves(p) \/ Swept(p)
  \/ Open(p) \/ Write(p) \/ SetMode(p) \/ Rename(p) \/ CleanUp(p)

Next == \E p \in Proc : Start(p) \/ Step(p) \/ Fails(p) \/ Kill(p)

Spec == Init /\ [][Next]_vars

-----------------------------------------------------------------------------

\* A reader finds the old or a new file, never half of one, and content written with a
\* narrow mode never under a broader one.
ReadersSeeWhole == file.whole /\ (file.by \in Private => file.mode = "private")

\* The sweep removes no temporary whose creator still needs it.
NeededTempsStay ==
  \A p \in Proc : pc[p] \in {"open", "written", "ready"} => temp[p] # None

\* Only a process that was killed leaves a temporary behind.
GarbageIsOfTheKilled == \A p \in Temps : pc[p] \in Running \cup {"killed"}
=============================================================================
