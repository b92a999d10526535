----------------------------- MODULE SelectionFile -----------------------------
(***************************************************************************)
(* The lookup selection file of internal/placesgeocoding/duckdb/           *)
(* selection.go and the commands that write it: places-geocoding-refresh   *)
(* (compare and review, then activate; init; rollback) and                 *)
(* places-geocoding-import (build, then init or activate).                 *)
(*                                                                         *)
(* Each member of Processes is one run of a command, or, for an            *)
(* activation, the compare, review and activate runs of one operator.      *)
(* Processes can be killed and the machine can lose power at any step;     *)
(* a rename is durable once the directory has been synced.                 *)
(***************************************************************************)
EXTENDS Naturals, FiniteSets

CONSTANTS
  Processes,  \* runs of the commands
  Paths,      \* generation directories
  Digests,    \* contents of a generation that verifies, by manifest hash
  NONE        \* nil, no file, a generation that does not verify, no owner

References == [path : Paths, digest : Digests]

\* A selection; `version` numbers publications and is no part of the JSON.
Selections ==
  [current : References, previous : References \cup {NONE}, version : Nat \ {0}]

Reports == [baseline : References, candidate : References]

ASSUME NoneAssumption ==
  /\ NONE \notin Processes \cup Digests
  /\ NONE \notin References /\ NONE \notin Selections

VARIABLES
  file,     \* the selection file a reader sees, NONE before the first init
  durable,  \* the selections a power loss can leave in its place
  lock,     \* the process that created the .lock file, NONE without one
  content,  \* per directory: the digest it verifies with, or NONE
  acked,    \* version of the last change whose command reported success
  pc,       \* per process: where it is
  op,       \* per process: "init", "activate" or "rollback"
  target,   \* per process: the directory it is to select
  report,   \* per process: the reviewed comparison it carries, or NONE
  draft     \* per process: the selection as changeSelection holds it

files == <<file, durable, acked>>
session == <<op, target, report>>
vars == <<files, lock, content, pc, session, draft>>

Goto(p, l) == pc' = [pc EXCEPT ![p] = l]
Draft(p, s) == draft' = [draft EXCEPT ![p] = s]

Init ==
  /\ file = NONE /\ durable = {NONE} /\ acked = 0
  /\ lock = NONE
  /\ content \in [Paths -> Digests]
  /\ pc = [p \in Processes |-> "idle"]
  /\ op = [p \in Processes |-> "init"]
  /\ target \in [Processes -> Paths]
  /\ report = [p \in Processes |-> NONE]
  /\ draft = [p \in Processes |-> NONE]

\* Describe: the reference of a directory that verifies.
Describes(g, ref) == content[g] # NONE /\ ref = [path |-> g, digest |-> content[g]]

-----------------------------------------------------------------------------
(* Before the lock.                                                        *)

\* `init` and `rollback` go straight to changeSelection.
StartInit(p) ==
  /\ pc[p] = "idle"
  /\ Goto(p, "lock")
  /\ UNCHANGED <<files, lock, content, session, draft>>

StartRollback(p) ==
  /\ pc[p] = "idle"
  /\ op' = [op EXCEPT ![p] = "rollback"]
  /\ Goto(p, "lock")
  /\ UNCHANGED <<files, lock, content, target, report, draft>>

\* places-geocoding-import has built and verified its generation: it reads the
\* selection, without the lock, and initializes or activates.
StartImport(p) ==
  /\ pc[p] = "idle"
  /\ content[target[p]] # NONE
  /\ op' = [op EXCEPT ![p] = IF file = NONE THEN "init" ELSE "activate"]
  /\ Goto(p, "lock")
  /\ UNCHANGED <<files, lock, content, target, report, draft>>

\* `compare` describes the current generation and the candidate; the report
\* has no violation and `review` approves it.
CompareAndReview(p) ==
  /\ pc[p] = "idle" /\ file # NONE
  /\ \E b, c \in References :
       /\ Describes(file.current.path, b) /\ Describes(target[p], c)
       /\ report' = [report EXCEPT ![p] = [baseline |-> b, candidate |-> c]]
  /\ op' = [op EXCEPT ![p] = "activate"]
  /\ Goto(p, "reviewed")
  /\ UNCHANGED <<files, lock, content, target, draft>>

\* `activate` reads the selection, without the lock: its current generation
\* has to be the reviewed baseline.
CheckBaseline(p) ==
  /\ pc[p] = "reviewed"
  /\ Goto(p, IF file.current = report[p].baseline THEN "checked" ELSE "failed")
  /\ UNCHANGED <<files, lock, content, session, draft>>

\* `activate` describes the candidate: it has to be the reviewed one.
CheckCandidate(p) ==
  /\ pc[p] = "checked"
  /\ Goto(p, IF Describes(target[p], report[p].candidate) THEN "lock" ELSE "failed")
  /\ UNCHANGED <<files, lock, content, session, draft>>

-----------------------------------------------------------------------------
(* changeSelection.                                                        *)

\* Mutant: the lock file is created without O_EXCL.
LockShared(p) ==
  /\ pc[p] = "lock"
  /\ lock' = p /\ Goto(p, "read")
  /\ UNCHANGED <<files, content, session, draft>>

\* Mutant: the removal is deferred before the error is looked at.
LockRemovedOnRefusal(p) ==
  /\ pc[p] = "lock"
  /\ IF lock = NONE
     THEN lock' = p /\ Goto(p, "read")
     ELSE lock' = NONE /\ Goto(p, "failed")
  /\ UNCHANGED <<files, content, session, draft>>

\* O_CREATE|O_EXCL: a lock file that is there makes the command fail at once.
Lock(p) ==
  /\ pc[p] = "lock"
  /\ IF lock = NONE
     THEN lock' = p /\ Goto(p, "read")
     ELSE lock' = lock /\ Goto(p, "failed")
  /\ UNCHANGED <<files, content, session, draft>>

ReadFile(p) ==
  /\ pc[p] = "read"
  /\ Draft(p, file)
  /\ Goto(p, "change")
  /\ UNCHANGED <<files, lock, content, session>>

\* The generation that the callback of init, activate or rollback selects when
\* the file holds d; none when the callback returns an error.
NewCurrent(p, d) ==
  { c \in References :
      \/ op[p] = "init" /\ d = NONE /\ Describes(target[p], c)
      \/ op[p] = "activate" /\ d # NONE /\ Describes(target[p], c) /\ c # d.current
      \/ op[p] = "rollback" /\ d # NONE /\ c = d.previous /\ Describes(c.path, c) }

\* Mutant: an error of the callback returns before the lock is removed.
ChangeLeavingLock(p) ==
  LET d == draft[p] IN
  /\ pc[p] = "change"
  /\ IF NewCurrent(p, d) = {}
     THEN draft' = draft /\ Goto(p, "failed")
     ELSE /\ \E c \in NewCurrent(p, d) :
               Draft(p, [current |-> c,
                         previous |-> IF d = NONE THEN NONE ELSE d.current,
                         version |-> IF d = NONE THEN 1 ELSE d.version + 1])
          /\ Goto(p, "write")
  /\ UNCHANGED <<files, lock, content, session>>

\* The callback; its error goes through the deferred removal of the lock.
Change(p) ==
  LET d == draft[p] IN
  /\ pc[p] = "change"
  /\ IF NewCurrent(p, d) = {}
     THEN draft' = draft /\ Goto(p, "release failed")
     ELSE /\ \E c \in NewCurrent(p, d) :
               Draft(p, [current |-> c,
                         previous |-> IF d = NONE THEN NONE ELSE d.current,
                         version |-> IF d = NONE THEN 1 ELSE d.version + 1])
          /\ Goto(p, "write")
  /\ UNCHANGED <<files, lock, content, session>>

\* Mutant: the directory is not synced.
RenameOnly(p) ==
  /\ pc[p] = "write"
  /\ file' = draft[p]
  /\ durable' = durable \cup {draft[p]}
  /\ Goto(p, "release")
  /\ UNCHANGED <<acked, lock, content, session, draft>>

\* WriteJSON: the temporary file is synced and renamed over the selection.
Rename(p) ==
  /\ pc[p] = "write"
  /\ file' = draft[p]
  /\ durable' = durable \cup {draft[p]}
  /\ Goto(p, "sync")
  /\ UNCHANGED <<acked, lock, content, session, draft>>

\* WriteJSON fails before or at the rename.
FailWrite(p) ==
  /\ pc[p] = "write"
  /\ Goto(p, "release failed")
  /\ UNCHANGED <<files, lock, content, session, draft>>

\* dir.Sync succeeds.
SyncDirectory(p) ==
  /\ pc[p] = "sync"
  /\ durable' = {file}
  /\ Goto(p, "release")
  /\ UNCHANGED <<file, acked, lock, content, session, draft>>

\* "selection published but directory could not be synced".
FailSync(p) ==
  /\ pc[p] = "sync"
  /\ Goto(p, "release failed")
  /\ UNCHANGED <<files, lock, content, session, draft>>

\* os.Remove of the lock file, by its name, and the command's exit status.
Release(p) ==
  /\ pc[p] \in {"release", "release failed"}
  /\ lock' = NONE
  /\ acked' = IF pc[p] = "release" THEN draft[p].version ELSE acked
  /\ Goto(p, IF pc[p] = "release" THEN "succeeded" ELSE "failed")
  /\ UNCHANGED <<file, durable, content, session, draft>>

-----------------------------------------------------------------------------
(* The environment.                                                        *)

Running == {p \in Processes : pc[p] \notin {"idle", "succeeded", "failed", "killed"}}

Kill(p) ==
  /\ p \in Running
  /\ Goto(p, "killed")
  /\ UNCHANGED <<files, lock, content, session, draft>>

\* The machine loses power: a rename since the last sync of the directory may
\* be undone, and so may the creation of the lock file.
LosePower ==
  /\ pc' = [p \in Processes |-> IF p \in Running THEN "killed" ELSE pc[p]]
  /\ file' \in durable
  /\ durable' = {file'}
  /\ lock' \in {lock, NONE}
  /\ UNCHANGED <<acked, content, session, draft>>

\* "must be removed only after confirming no writer remains".
RemoveStaleLock ==
  /\ lock # NONE /\ Running = {}
  /\ lock' = NONE
  /\ UNCHANGED <<files, content, pc, session, draft>>

\* A directory is damaged, repaired or built again.
ContentChange ==
  /\ \E g \in Paths, d \in Digests \cup {NONE} :
       d # content[g] /\ content' = [content EXCEPT ![g] = d]
  /\ UNCHANGED <<files, lock, pc, session, draft>>

-----------------------------------------------------------------------------
Step(p) ==
  \/ StartInit(p) \/ StartRollback(p) \/ StartImport(p) \/ CompareAndReview(p)
  \/ CheckBaseline(p) \/ CheckCandidate(p)
  \/ Lock(p) \/ ReadFile(p) \/ Change(p) \/ Rename(p) \/ FailWrite(p)
  \/ SyncDirectory(p) \/ FailSync(p) \/ Release(p)
  \/ Kill(p)

Next == (\E p \in Processes : Step(p)) \/ LosePower \/ RemoveStaleLock \/ ContentChange

Spec == Init /\ [][Next]_vars

-----------------------------------------------------------------------------
(* Properties.                                                             *)

\* Where a process is between its creation and its removal of the lock file.
Critical == {"read", "change", "write", "sync", "release", "release failed"}

\* The types of the variables.
TypeOK ==
  /\ file \in Selections \cup {NONE}
  /\ durable \subseteq Selections \cup {NONE}
  /\ acked \in Nat
  /\ lock \in Processes \cup {NONE}
  /\ content \in [Paths -> Digests \cup {NONE}]
  /\ pc \in [Processes -> Critical \cup
       {"idle", "reviewed", "checked", "lock", "succeeded", "failed", "killed"}]
  /\ op \in [Processes -> {"init", "activate", "rollback"}]
  /\ target \in [Processes -> Paths]
  /\ report \in [Processes -> Reports \cup {NONE}]
  /\ draft \in [Processes -> Selections \cup {NONE}]

\* "A lock serializes local writers": between the creation of the lock file and
\* its removal a command is alone, through kills, power losses, refused
\* commands and the removal of stale locks.
OneWriter ==
  \A p \in Processes : pc[p] \in Critical =>
    lock = p /\ \A q \in Processes \ {p} : pc[q] \notin Critical

\* Only a crash leaves the lock behind; every error return removes it.
LockLeftOnlyByCrash ==
  lock # NONE => pc[lock] \in Critical \cup {"killed"}

\* A command that reported success has changed the file for good: neither a
\* power loss nor a command that fails or dies later takes the change back.
AcknowledgedChangesSurvive ==
  acked > 0 => file # NONE /\ file.version >= acked

\* p renames its temporary file over the selection.
Publishes(p) == pc[p] = "write" /\ pc'[p] = "sync"

\* Every change builds on the selection it replaces, not on an earlier one:
\* init creates the file, the others keep what was current as `previous`, and
\* a rollback goes back to the generation the last change displaced.
ChangesBuildOnTheFile ==
  [][\A p \in Processes : Publishes(p) =>
       IF file = NONE
       THEN op[p] = "init"
       ELSE /\ op[p] # "init"
            /\ file'.previous = file.current
            /\ op[p] = "rollback" => file'.current = file.previous]_vars

\* docs/refresh.md:111 "Activation refuses a stale report, changed candidate,
\* changed current selection": a reviewed activation displaces the baseline of
\* its report.
ReviewedActivation ==
  [][\A p \in Processes : Publishes(p) /\ report[p] # NONE =>
       file.current = report[p].baseline]_vars
=============================================================================
