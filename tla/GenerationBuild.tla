---------------------------- MODULE GenerationBuild ----------------------------
(***************************************************************************)
(* How places-geocoding-prepare turns a source manifest into a published   *)
(* generation (duckdb.buildStagedResumable), with its two durable halts:   *)
(* the input checkpoint, from which an interrupted build resumes, and the  *)
(* normalized checkpoint, from which BuildCatalogFromNormalized makes a    *)
(* catalog only.                                                           *)
(*                                                                         *)
(* A job is one run of the command.  Jobs share a parent directory, so     *)
(* also the paths of both checkpoints and of their `.building' halves; a   *)
(* step may fail, which runs the deferred cleanup, and a process may die,  *)
(* which does not.                                                         *)
(***************************************************************************)
EXTENDS Naturals, FiniteSets

CONSTANTS
  Jobs,        \* processes
  Outputs,     \* output directories
  Manifests,   \* source manifests, with the input they pin
  Builds,      \* build identities: clean revisions of this program
  Commands,    \* command lines that jobs run
  Valid,       \* manifests whose input passes validateStage
  Normalizable,\* ... is resolved without an error, to the checksum expected
  MaxStarts,   \* bound on the commands started
  MaxFaults,   \* bound on failed system calls and deaths
  NONE

Command ==
  [kind: {"build", "catalog"}, output: Outputs, manifest: Manifests, build: Builds,
   checkpoint: BOOLEAN, resume: BOOLEAN, normalized: BOOLEAN,
   accepts: Builds \cup {NONE}, acceptsOutput: Outputs \cup {NONE}]

\* What main refuses of its flags before it touches a file.
WellFormed(c) ==
  /\ c.resume => c.checkpoint
  /\ c.kind = "catalog" => c.normalized /\ ~c.checkpoint /\ ~c.resume
  /\ c.accepts # NONE => c.resume
  /\ c.acceptsOutput # NONE => c.accepts # NONE

ASSUME CommandsAssumption == Commands \subseteq Command /\ \A c \in Commands : WellFormed(c)
ASSUME ManifestsAssumption == Valid \subseteq Manifests /\ Normalizable \subseteq Manifests
ASSUME BoundsAssumption == MaxStarts \in Nat /\ MaxFaults \in Nat

\* Tables of normalize.duckdb that normalization derives from the input tables.
Derived == {"resolved_keys", "relationship_keys", "relationship_from",
            "resolved_relationships"}

\* A staging directory: the database with `rows' of the input of manifest `of',
\* staged by build `by', and the marker input-staging-checkpoint.json.
Identity == [manifest: Manifests, build: Builds, output: Outputs]
Stage ==
  [of: Manifests, by: Builds, rows: {"none", "some", "all"}, tables: SUBSET Derived,
   marker: [identity: Identity, rows: {"none", "some", "all"}] \cup {NONE}]

\* Normalized Parquet: what was staged, by whom, and who normalized it.
Data == [of: Manifests, rows: {"none", "some", "all"}, staged: Builds, normalized: Builds]
Generation == [data: Data \cup {NONE}, declares: Manifests \cup {NONE}]

Places == {"checkpoint", "building"} \cup Jobs

ASSUME PlacesAssumption == "checkpoint" \notin Jobs /\ "building" \notin Jobs
ASSUME NoneAssumption ==
  /\ NONE \notin Outputs \cup Manifests \cup Builds \cup Jobs \cup Places
  /\ NONE \notin Stage \cup Data \cup Generation

VARIABLES
  stages,     \* per place: the staging directory there (a job: its MkdirTemp)
  normal,     \* the normalized checkpoint, with the identity in its marker
  linking,    \* its .building directory
  outputs,    \* published generations
  pc,         \* per job: its next step
  cmd,        \* per job: its command
  temp,       \* per job: the place `temp' names
  preserve,   \* per job: preserveCheckpoint
  input,      \* per job: the stage behind its open database handle
  generation, \* per job: its .duckdb-generation-* directory
  lock,       \* the job that has the checkpoint's database open
  orphans,    \* jobs whose open database was unlinked
  starts, faults,  \* how many there were
  crashed,    \* history: a process died and left its directories
  alone,      \* history, per job: no other job ran since it started
  refused     \* history, per job: the step that refused its last command

dirs == <<stages, normal, linking, outputs>>
locals == <<cmd, temp, preserve, input, generation>>
locks == <<lock, orphans>>
bounds == <<starts, faults, crashed, alone>>
vars == <<dirs, pc, locals, locks, bounds, refused>>

NoCommand == [kind |-> NONE]

Init ==
  /\ stages = [p \in Places |-> NONE]
  /\ normal = NONE /\ linking = NONE
  /\ outputs = [o \in Outputs |-> NONE]
  /\ pc = [j \in Jobs |-> "idle"]
  /\ cmd = [j \in Jobs |-> NoCommand]
  /\ temp = [j \in Jobs |-> NONE]
  /\ preserve = [j \in Jobs |-> FALSE]
  /\ input = [j \in Jobs |-> NONE]
  /\ generation = [j \in Jobs |-> NONE]
  /\ lock = NONE /\ orphans = {}
  /\ starts = 0 /\ faults = 0 /\ crashed = FALSE
  /\ alone = [j \in Jobs |-> FALSE]
  /\ refused = [j \in Jobs |-> NONE]

Idle(j) == pc[j] = "idle"

\* Assumed of the operator, who names a checkpoint for its build: a path is not
\* staged for one manifest while a build of another uses it.  (A build compares
\* the identity once, and opens the path again later.)
Compatible(j, c) ==
  \A i \in { k \in Jobs \ {j} : ~Idle(k) /\ cmd[k].checkpoint } :
    c.checkpoint /\ ~(c.resume /\ cmd[i].resume) => c.manifest = cmd[i].manifest

Start(j) ==
  /\ Idle(j) /\ starts < MaxStarts
  /\ starts' = starts + 1
  /\ \E c \in Commands : Compatible(j, c) /\ cmd' = [cmd EXCEPT ![j] = c]
  /\ pc' = [pc EXCEPT ![j] = "check"]
  /\ alone' = [k \in Jobs |-> k = j /\ \A i \in Jobs : Idle(i)]
  /\ refused' = [k \in Jobs |-> NONE]
  /\ UNCHANGED <<dirs, temp, preserve, input, generation, locks, faults, crashed>>

-----------------------------------------------------------------------------
(* The identities of the two markers.                                      *)

StageIdentity(c) == [manifest |-> c.manifest, build |-> c.build, output |-> c.output]

\* Mutant: the saved identity is compared by its build and output only.
SameBuildAndOutput(c, saved) == saved.build = c.build /\ saved.output = c.output

\* A resume takes a checkpoint of its own identity, or of a reviewed build (and
\* output path) when it is otherwise its own.
IdentityMatches(c, saved) ==
  \/ saved = StageIdentity(c)
  \/ /\ c.accepts # NONE /\ saved.build = c.accepts
     /\ LET output == IF c.acceptsOutput # NONE /\ saved.output = c.acceptsOutput
                      THEN c.output ELSE saved.output
        IN [saved EXCEPT !.build = c.build, !.output = output] = StageIdentity(c)

NormalIdentity(c) == [manifest |-> c.manifest, build |-> c.build]

\* The tables that a resume drops before normalization creates them again.
KeepingRelationshipKeys(tables) == tables \ (Derived \ {"relationship_keys"})
Reset(tables) == tables \ Derived

-----------------------------------------------------------------------------
(* A step that is not possible ends the job.                               *)

StageOf(j) == stages[temp[j]]

\* Whether the stage that j's handle reads is still a file at its path.
Linked(j) == j \notin orphans

\* Whether j can CREATE a table: nothing of that name is left in the database.
Absent(j, table) == Linked(j) => table \notin StageOf(j).tables

Possible(j) ==
  LET c == cmd[j] IN
  CASE pc[j] = "check" -> outputs[c.output] = NONE
    [] pc[j] = "probe" -> stages["checkpoint"] = NONE /\ stages["building"] = NONE
    [] pc[j] = "mkdir" -> stages["building"] = NONE
    [] pc[j] = "adopt" ->
         /\ stages["building"] = NONE /\ stages["checkpoint"] # NONE
         /\ stages["checkpoint"].marker # NONE
         /\ IdentityMatches(c, stages["checkpoint"].marker.identity)
    [] pc[j] = "rename" -> stages["checkpoint"] = NONE
    [] pc[j] = "inspect" -> StageOf(j) # NONE /\ lock = NONE
    [] pc[j] = "reset" -> Linked(j) => StageOf(j).rows = input[j].marker.rows
    [] pc[j] = "open" -> StageOf(j) # NONE /\ (temp[j] = "checkpoint" => lock = NONE)
    [] pc[j] = "validate" -> input[j].rows # "none" /\ input[j].of \in Valid
    [] pc[j] = "keys" -> Absent(j, "resolved_keys")
    [] pc[j] = "endpoints" -> Absent(j, "relationship_keys")
    [] pc[j] = "from" -> Absent(j, "relationship_from")
    [] pc[j] = "to" -> Absent(j, "resolved_relationships")
    [] pc[j] = "digest" -> input[j].of \in Normalizable
    [] pc[j] = "reserve" -> normal = NONE /\ linking = NONE
    [] pc[j] = "link" -> linking = NONE
    [] pc[j] = "seal" -> normal = NONE
    [] pc[j] = "read" -> normal # NONE /\ normal.identity = NormalIdentity(c)
    [] pc[j] = "clone" -> normal # NONE
    [] pc[j] = "publish" -> outputs[c.output] = NONE
    [] OTHER -> TRUE

At(j, step) == pc[j] = step /\ Possible(j)
Goto(j, step) == pc' = [pc EXCEPT ![j] = step]

\* Jobs whose open database goes when the directory of the checkpoint does.
Unlinked(place) == IF place = "checkpoint" THEN {lock} \ {NONE} ELSE {}

\* The process is gone, its database handles are closed; it unlinked `place'.
Leave(j, place) ==
  /\ Goto(j, "idle")
  /\ cmd' = [cmd EXCEPT ![j] = NoCommand]
  /\ temp' = [temp EXCEPT ![j] = NONE]
  /\ preserve' = [preserve EXCEPT ![j] = FALSE]
  /\ input' = [input EXCEPT ![j] = NONE]
  /\ generation' = [generation EXCEPT ![j] = NONE]
  /\ lock' = IF lock = j \/ place = "checkpoint" THEN NONE ELSE lock
  /\ orphans' = (orphans \cup Unlinked(place)) \ {j}

\* Mutant: what a build has staged is always removed.
NothingPreserved(j) == temp[j]

\* Mutant: it is never removed.
EverythingPreserved(j) == NONE

\* What the deferred RemoveAll takes: the staging directory, unless preserved.
Discarded(j) == IF preserve[j] THEN NONE ELSE temp[j]

\* The deferred functions: a started normalized checkpoint goes as well, and so
\* does the generation (in Leave).
Abort(j) ==
  /\ stages' = [p \in Places |-> IF p = Discarded(j) THEN NONE ELSE stages[p]]
  /\ linking' = IF pc[j] = "seal" THEN NONE ELSE linking
  /\ Leave(j, Discarded(j))
  /\ UNCHANGED <<normal, outputs>>

\* A check of the code, a CREATE, a Mkdir or a Rename refuses.
Refuse(j) ==
  /\ ~Idle(j) /\ ~Possible(j)
  /\ Abort(j)
  /\ refused' = [refused EXCEPT ![j] = [step |-> pc[j], command |-> cmd[j]]]
  /\ UNCHANGED bounds

\* A system call or a query fails, or the command is interrupted.
Fail(j) ==
  /\ ~Idle(j)
  /\ IF j \in orphans THEN UNCHANGED faults
     ELSE faults < MaxFaults /\ faults' = faults + 1
  /\ Abort(j)
  /\ UNCHANGED <<starts, crashed, alone, refused>>

\* The process dies: nothing is cleaned up, MkdirTemp's names are not reused.
Crash(j) ==
  /\ ~Idle(j)
  /\ faults < MaxFaults /\ faults' = faults + 1
  /\ crashed' = TRUE
  /\ stages' = IF temp[j] = j THEN [stages EXCEPT ![j] = NONE] ELSE stages
  /\ Leave(j, NONE)
  /\ UNCHANGED <<normal, linking, outputs, starts, alone, refused>>

-----------------------------------------------------------------------------
(* Staging.                                                                *)

NewStage(j, rows) ==
  [of |-> cmd[j].manifest, by |-> cmd[j].build, rows |-> rows, tables |-> {}, marker |-> NONE]

Quiet == UNCHANGED <<bounds, refused>>

\* The output must be absent.  A build without a checkpoint stages in a
\* directory of its own, which becomes the generation.
CheckOutput(j) ==
  /\ At(j, "check")
  /\ IF cmd[j].kind = "catalog" THEN Goto(j, "read") /\ UNCHANGED <<stages, temp>>
     ELSE IF ~cmd[j].checkpoint
     THEN /\ Goto(j, "stage")
          /\ temp' = [temp EXCEPT ![j] = j]
          /\ stages' = [stages EXCEPT ![j] = NewStage(j, "none")]
     ELSE /\ Goto(j, IF cmd[j].resume THEN "adopt" ELSE "probe")
          /\ UNCHANGED <<stages, temp>>
  /\ UNCHANGED <<normal, linking, outputs, cmd, preserve, input, generation, locks>> /\ Quiet

\* A new checkpoint: both names are free ...
Probe(j) ==
  /\ At(j, "probe")
  /\ Goto(j, "mkdir")
  /\ UNCHANGED <<dirs, locals, locks>> /\ Quiet

\* ... and the .building name still is.
MakeBuilding(j) ==
  /\ At(j, "mkdir")
  /\ Goto(j, "stage")
  /\ temp' = [temp EXCEPT ![j] = "building"]
  /\ stages' = [stages EXCEPT !["building"] = NewStage(j, "none")]
  /\ UNCHANGED <<normal, linking, outputs, cmd, preserve, input, generation, locks>> /\ Quiet

\* The provider adapter commits batch after batch; CHECKPOINT and Close follow
\* the last one.
StageRows(j) ==
  /\ At(j, "stage")
  /\ \E rows \in {"some", "all"} :
       /\ StageOf(j).rows # rows
       /\ stages' = [stages EXCEPT ![temp[j]].rows = rows]
       /\ IF rows = "some" THEN UNCHANGED pc
          ELSE Goto(j, IF cmd[j].checkpoint THEN "mark" ELSE "open")
  /\ UNCHANGED <<normal, linking, outputs, locals, locks>> /\ Quiet

WriteMarker(j) ==
  /\ At(j, "mark")
  /\ stages' = [stages EXCEPT ![temp[j]].marker =
                  [identity |-> StageIdentity(cmd[j]), rows |-> StageOf(j).rows]]
  /\ Goto(j, "rename")
  /\ UNCHANGED <<normal, linking, outputs, locals, locks>> /\ Quiet

\* The rename makes the checkpoint; from here on a failure keeps it.
PublishCheckpoint(j) ==
  /\ At(j, "rename")
  /\ stages' = [stages EXCEPT !["checkpoint"] = stages["building"], !["building"] = NONE]
  /\ temp' = [temp EXCEPT ![j] = "checkpoint"]
  /\ preserve' = [preserve EXCEPT ![j] = TRUE]
  /\ Goto(j, "open")
  /\ UNCHANGED <<normal, linking, outputs, cmd, input, generation, locks>> /\ Quiet

-----------------------------------------------------------------------------
(* Resuming.                                                               *)

\* The marker that is read here is the one the rows are counted against.
AdoptCheckpoint(j) ==
  /\ At(j, "adopt")
  /\ temp' = [temp EXCEPT ![j] = "checkpoint"]
  /\ preserve' = [preserve EXCEPT ![j] = TRUE]
  /\ input' = [input EXCEPT ![j] = stages["checkpoint"]]
  /\ Goto(j, "inspect")
  /\ UNCHANGED <<dirs, cmd, generation, locks>> /\ Quiet

OpenForReset(j) ==
  /\ At(j, "inspect")
  /\ lock' = j
  /\ Goto(j, "reset")
  /\ UNCHANGED <<dirs, locals, orphans>> /\ Quiet

\* Row counts are compared with the marker's, derived tables are dropped, the
\* database is closed and its spill directory removed.
ResetDerived(j) ==
  /\ At(j, "reset")
  /\ stages' = IF Linked(j) THEN [stages EXCEPT !["checkpoint"].tables = Reset(@)] ELSE stages
  /\ lock' = IF lock = j THEN NONE ELSE lock
  /\ orphans' = orphans \ {j}
  /\ Goto(j, "open")
  /\ UNCHANGED <<normal, linking, outputs, locals>> /\ Quiet

-----------------------------------------------------------------------------
(* Normalization.                                                          *)

\* The stage is opened again, and the generation's directory is made.
OpenStage(j) ==
  /\ At(j, "open")
  /\ input' = [input EXCEPT ![j] = StageOf(j)]
  /\ generation' = [generation EXCEPT ![j] = [data |-> NONE, declares |-> NONE]]
  /\ lock' = IF temp[j] = "checkpoint" THEN j ELSE lock
  /\ Goto(j, "validate")
  /\ UNCHANGED <<dirs, cmd, temp, preserve, orphans>> /\ Quiet

\* The input of the stage, complete or not, passes validateStage.
ValidateInput(j) ==
  /\ At(j, "validate")
  /\ Goto(j, "keys")
  /\ UNCHANGED <<dirs, locals, locks>> /\ Quiet

Tables(j, tables) ==
  stages' = IF Linked(j) THEN [stages EXCEPT ![temp[j]].tables = tables] ELSE stages

\* CREATE TABLE step[1] at step[2], then step[3].
CreateTable(j) ==
  /\ \E step \in {<<"resolved_keys", "keys", "endpoints">>,
                  <<"relationship_keys", "endpoints", "from">>,
                  <<"relationship_from", "from", "to">>} :
       /\ At(j, step[2])
       /\ Tables(j, StageOf(j).tables \cup {step[1]})
       /\ Goto(j, step[3])
  /\ UNCHANGED <<normal, linking, outputs, locals, locks>> /\ Quiet

\* The third table replaces the first two of the join; resolved_keys stays.
CreateResolved(j) ==
  /\ At(j, "to")
  /\ Tables(j, (StageOf(j).tables \cup {"resolved_relationships"})
                  \ {"relationship_from", "relationship_keys"})
  /\ Goto(j, "digest")
  /\ UNCHANGED <<normal, linking, outputs, locals, locks>> /\ Quiet

\* The last table goes, every Parquet file is written, its digests make the
\* expected checksum, and the database is closed.
FinishNormalization(j) ==
  /\ At(j, "digest")
  /\ Tables(j, StageOf(j).tables \ {"resolved_relationships"})
  /\ generation' = [generation EXCEPT ![j].data =
       [of |-> input[j].of, rows |-> input[j].rows, staged |-> input[j].by,
        normalized |-> cmd[j].build]]
  /\ lock' = IF lock = j THEN NONE ELSE lock
  /\ orphans' = orphans \ {j}
  /\ Goto(j, IF cmd[j].normalized THEN "reserve" ELSE "index")
  /\ UNCHANGED <<normal, linking, outputs, cmd, temp, preserve, input>> /\ Quiet

-----------------------------------------------------------------------------
(* The normalized checkpoint.                                              *)

ReserveNormal(j) ==
  /\ At(j, "reserve")
  /\ Goto(j, "link")
  /\ UNCHANGED <<dirs, locals, locks>> /\ Quiet

\* Mkdir, hard links to the generation's files, and the marker.
LinkNormal(j) ==
  /\ At(j, "link")
  /\ linking' = [data |-> generation[j].data, identity |-> NormalIdentity(cmd[j])]
  /\ Goto(j, "seal")
  /\ UNCHANGED <<stages, normal, outputs, locals, locks>> /\ Quiet

SealNormal(j) ==
  /\ At(j, "seal")
  /\ normal' = linking /\ linking' = NONE
  /\ Goto(j, "index")
  /\ UNCHANGED <<stages, outputs, locals, locks>> /\ Quiet

\* BuildCatalogFromNormalized checks the marker and every file it lists ...
ReadNormal(j) ==
  /\ At(j, "read")
  /\ Goto(j, "clone")
  /\ UNCHANGED <<dirs, locals, locks>> /\ Quiet

\* ... and links them into a new generation.
CloneNormal(j) ==
  /\ At(j, "clone")
  /\ generation' = [generation EXCEPT ![j] = [data |-> normal.data, declares |-> NONE]]
  /\ Goto(j, "index")
  /\ UNCHANGED <<dirs, cmd, temp, preserve, input, locks>> /\ Quiet

-----------------------------------------------------------------------------
(* The catalog and the publication.                                        *)

\* serving.duckdb carries the source manifest of the command; manifest.json
\* lists every file; VerifyObserved passes the whole directory.
BuildCatalog(j) ==
  /\ At(j, "index")
  /\ generation' = [generation EXCEPT ![j].declares = cmd[j].manifest]
  /\ Goto(j, "publish")
  /\ UNCHANGED <<dirs, cmd, temp, preserve, input, locks>> /\ Quiet

\* Whether a published build gives up its input checkpoint.
ReleasesCheckpoint(c) == c.checkpoint /\ c.accepts = NONE

\* The rename publishes.  The deferred removal of a temporary stage finds
\* nothing: it is the directory that was renamed.
Publish(j) ==
  /\ At(j, "publish")
  /\ outputs' = [outputs EXCEPT ![cmd[j].output] = generation[j]]
  /\ IF ReleasesCheckpoint(cmd[j])
     THEN /\ Goto(j, "release")
          /\ preserve' = [preserve EXCEPT ![j] = FALSE]
          /\ generation' = [generation EXCEPT ![j] = NONE]
          /\ UNCHANGED <<stages, cmd, temp, input, locks>>
     ELSE /\ stages' = [stages EXCEPT ![j] = NONE]
          /\ Leave(j, NONE)
  /\ UNCHANGED <<normal, linking>> /\ Quiet

\* RemoveAll(checkpoint) unlinks the files one by one: the database ...
RemoveFile(j) ==
  /\ At(j, "release") /\ StageOf(j) # NONE
  /\ \/ /\ StageOf(j).marker # NONE
        /\ stages' = [stages EXCEPT !["checkpoint"].marker = NONE]
        /\ UNCHANGED locks
     \/ /\ StageOf(j).rows # "none"
        /\ stages' = [stages EXCEPT !["checkpoint"].rows = "none",
                                    !["checkpoint"].tables = {}]
        /\ orphans' = orphans \cup Unlinked("checkpoint")
        /\ lock' = NONE
  /\ UNCHANGED <<normal, linking, outputs, pc, locals>> /\ Quiet

\* ... the marker, and at last the directory.
RemoveDirectory(j) ==
  /\ At(j, "release")
  /\ StageOf(j) # NONE => StageOf(j).marker = NONE /\ StageOf(j).rows = "none"
  /\ stages' = [stages EXCEPT !["checkpoint"] = NONE]
  /\ orphans' = orphans \cup Unlinked("checkpoint")
  /\ Goto(j, "idle")
  /\ cmd' = [cmd EXCEPT ![j] = NoCommand]
  /\ temp' = [temp EXCEPT ![j] = NONE]
  /\ input' = [input EXCEPT ![j] = NONE]
  /\ lock' = NONE
  /\ UNCHANGED <<normal, linking, outputs, preserve, generation>> /\ Quiet

-----------------------------------------------------------------------------
\* The operator inspects what a dead process left and removes it.
RemoveLeftover ==
  /\ \A j \in Jobs : Idle(j)
  /\ \/ /\ stages["building"] # NONE
        /\ stages' = [stages EXCEPT !["building"] = NONE] /\ UNCHANGED linking
     \/ linking # NONE /\ linking' = NONE /\ UNCHANGED stages
  /\ refused' = [k \in Jobs |-> NONE]
  /\ UNCHANGED <<normal, outputs, pc, locals, locks, bounds>>

Staging(j) ==
  \/ CheckOutput(j) \/ Probe(j) \/ MakeBuilding(j) \/ StageRows(j) \/ WriteMarker(j)
  \/ PublishCheckpoint(j) \/ AdoptCheckpoint(j) \/ OpenForReset(j) \/ ResetDerived(j)

Normalization(j) ==
  \/ OpenStage(j) \/ ValidateInput(j) \/ CreateTable(j) \/ CreateResolved(j)
  \/ FinishNormalization(j)

Publication(j) ==
  \/ ReserveNormal(j) \/ LinkNormal(j) \/ SealNormal(j) \/ ReadNormal(j) \/ CloneNormal(j)
  \/ BuildCatalog(j) \/ Publish(j) \/ RemoveFile(j) \/ RemoveDirectory(j)

Next ==
  \/ \E j \in Jobs :
       \/ Start(j) \/ Staging(j) \/ Normalization(j) \/ Publication(j)
       \/ Refuse(j) \/ Fail(j) \/ Crash(j)
  \/ RemoveLeftover

Spec == Init /\ [][Next]_vars

-----------------------------------------------------------------------------
(* Properties.                                                             *)

\* Whatever jobs race, fail, die and resume, a published generation holds the
\* complete input of the manifest that it declares: no batch is missing and no
\* checkpoint of another manifest was picked up on the way.
PublishedIsWhole ==
  \A o \in Outputs :
    outputs[o] # NONE =>
      /\ outputs[o].data # NONE
      /\ outputs[o].data.of = outputs[o].declares
      /\ outputs[o].data.rows = "all"

\* "resumable checkpoint retained at": hours of staging are given up only once
\* the output they were staged for is published, with their manifest.
CheckpointOutlivesFailure ==
  [][LET old == stages["checkpoint"]  new == stages'["checkpoint"] IN
     old # NONE =>
       \/ new # NONE /\ new.rows = old.rows /\ new.marker = old.marker
       \/ \E o \in Outputs : outputs[o] # NONE /\ outputs[o].declares = old.of]_vars

\* A resume that has the directory to itself gets through, wherever the build
\* before it stopped: past the checks of paths and identities, no table of an
\* earlier attempt and no lost row stands in its way.  Only a checkpoint that a
\* publication has begun to remove is refused later.
ResumeGetsThrough ==
  \A j \in Jobs :
    refused[j] # NONE /\ alone[j] =>
      LET c == refused[j].command  step == refused[j].step IN
      c.resume /\ c.manifest \in Valid \cap Normalizable =>
        \/ step \in {"check", "adopt"}
        \/ step = "reserve" /\ (normal # NONE \/ linking # NONE)
        \/ step = "reset" /\ \E o \in Outputs :
             outputs[o] # NONE /\ outputs[o].declares = c.manifest

\* A build that fails or is refused leaves no staging directory that blocks the
\* next one: what is there belongs to a running job, or a process died.
OnlyCrashesLeaveLitter ==
  /\ stages["building"] # NONE => crashed \/ \E j \in Jobs : temp[j] = "building"
  /\ linking # NONE => crashed \/ \E j \in Jobs : pc[j] = "seal"
  /\ \A j \in Jobs : stages[j] # NONE => temp[j] = j
=============================================================================
