------------------------- MODULE GenerationBuildProofs -------------------------
(***************************************************************************)
(* Proofs about GenerationBuild for any number of jobs, command lines,     *)
(* manifests, builds, faults and starts.                                   *)
(*                                                                         *)
(* That a published generation is whole is followed back along its data:   *)
(* the generation has what its job read (DataInv), the job read a stage of *)
(* its own manifest (InputInv), and what is under the name of the          *)
(* checkpoint stays of that manifest while a job uses the name, although   *)
(* other jobs may remove it and publish another one there (PathInv,        *)
(* StageInv).  PlaceInv ties each job's directory to its next step,        *)
(* LockInv says whose database is still behind the name.                   *)
(*                                                                         *)
(* That a resume which runs alone gets through needs what it finds and     *)
(* makes at every step (ResumedInv), that nobody has the database open but *)
(* a job that is at it (OpenInv), and that a checkpoint with a marker has  *)
(* all its rows until a publication removes them (MarkerInv).              *)
(***************************************************************************)
EXTENDS GenerationBuild, TLAPS

Steps ==
  {"idle", "check", "probe", "mkdir", "stage", "mark", "rename", "adopt", "inspect", "reset",
   "open", "validate", "keys", "endpoints", "from", "to", "digest", "reserve", "link", "seal",
   "read", "clone", "index", "publish", "release"}

\* Steps with the stage's database open, and with a normalized generation.
Normalizing == {"validate", "keys", "endpoints", "from", "to", "digest"}
Normalized == {"reserve", "link", "seal", "index", "publish"}

Checkpoint == [data: Data, identity: [manifest: Manifests, build: Builds]]

TypeInv ==
  /\ stages \in [Places -> Stage \cup {NONE}]
  /\ normal \in Checkpoint \cup {NONE} /\ linking \in Checkpoint \cup {NONE}
  /\ outputs \in [Outputs -> Generation \cup {NONE}]
  /\ pc \in [Jobs -> Steps]
  /\ cmd \in [Jobs -> Commands \cup {NoCommand}]
  /\ temp \in [Jobs -> Places \cup {NONE}] /\ preserve \in [Jobs -> BOOLEAN]
  /\ input \in [Jobs -> Stage \cup {NONE}]
  /\ generation \in [Jobs -> Generation \cup {NONE}]
  /\ lock \in Jobs \cup {NONE} /\ orphans \subseteq Jobs

\* The directory that a job stages in, by its next step.
Where(j) ==
  IF pc[j] \in {"idle", "check", "probe", "mkdir", "adopt"} \/ cmd[j].kind = "catalog" THEN NONE
  ELSE IF ~cmd[j].checkpoint THEN j
  ELSE IF pc[j] \in {"stage", "mark", "rename"} THEN "building" ELSE "checkpoint"

JobPlace(j) ==
  /\ ~Idle(j) => cmd[j] \in Commands
  /\ temp[j] = Where(j)
  /\ pc[j] \notin {"idle", "check", "read", "clone", "index", "publish"} => cmd[j].kind = "build"
  /\ pc[j] \in {"read", "clone"} => cmd[j].kind = "catalog"
  /\ pc[j] \in {"probe", "mkdir", "adopt", "mark", "rename", "inspect", "reset", "release"} =>
       cmd[j].checkpoint
  /\ pc[j] \in {"probe", "mkdir", "stage", "mark", "rename"} => ~cmd[j].resume
  /\ preserve[j] <=> temp[j] = "checkpoint" /\ pc[j] # "release"

PlaceInv == \A j \in Jobs : JobPlace(j)

\* Jobs that use the path of the checkpoint build one manifest, unless all of
\* them resume.
PathInv ==
  \A i, j \in Jobs :
    /\ ~Idle(i) /\ ~Idle(j) /\ cmd[i].checkpoint /\ cmd[j].checkpoint
    /\ ~(cmd[i].resume /\ cmd[j].resume)
    => cmd[i].manifest = cmd[j].manifest

StageInv ==
  /\ \A i, j \in Jobs : temp[i] = "building" /\ temp[j] = "building" => i = j
  /\ \A j \in Jobs : temp[j] \in {"building", j} =>
       /\ stages[temp[j]] # NONE /\ stages[temp[j]].of = cmd[j].manifest
       /\ pc[j] # "stage" => stages[temp[j]].rows = "all"
  /\ stages["checkpoint"] # NONE =>
       /\ stages["checkpoint"].rows \in {"none", "all"}
       /\ \A j \in Jobs : temp[j] = "checkpoint" => stages["checkpoint"].of = cmd[j].manifest
  /\ \A p \in Places : stages[p] # NONE /\ stages[p].marker # NONE =>
       stages[p].marker.identity.manifest = stages[p].of

LockInv ==
  /\ lock # NONE => stages["checkpoint"] # NONE
  /\ \A j \in Jobs : temp[j] = "checkpoint" /\ pc[j] \in Normalizing \cup {"reset"} =>
       lock = j \/ j \in orphans

InputInv ==
  \A j \in Jobs : pc[j] \in Normalizing =>
    /\ input[j] # NONE /\ input[j].of = cmd[j].manifest
    /\ input[j].rows \in {"none", "all"} /\ (pc[j] # "validate" => input[j].rows = "all")

\* Normalized data with the whole input of a manifest.
Whole(data, manifest) == data # NONE /\ data.of = manifest /\ data.rows = "all"

JobData(j) ==
  /\ pc[j] \in Normalizing \cup Normalized => generation[j] # NONE
  /\ pc[j] \in Normalized => Whole(generation[j].data, cmd[j].manifest)
  /\ pc[j] = "publish" => generation[j].declares = cmd[j].manifest
  /\ pc[j] = "clone" => normal # NONE /\ normal.identity.manifest = cmd[j].manifest
  /\ pc[j] = "release" => /\ outputs[cmd[j].output] # NONE
                          /\ outputs[cmd[j].output].declares = cmd[j].manifest

DataInv ==
  /\ \A j \in Jobs : JobData(j)
  /\ normal # NONE => Whole(normal.data, normal.identity.manifest)
  /\ linking # NONE => Whole(linking.data, linking.identity.manifest)
  /\ PublishedIsWhole

IInv ==
  /\ TypeInv /\ PlaceInv /\ PathInv /\ StageInv /\ LockInv /\ InputInv /\ DataInv
  /\ OnlyCrashesLeaveLitter

-----------------------------------------------------------------------------
(* What the code's checks say.                                             *)

LEMMA Checks ==
  ASSUME NEW j \in Jobs, Possible(j)
  PROVE  /\ pc[j] = "mkdir" => stages["building"] = NONE
         /\ pc[j] = "adopt" => /\ stages["checkpoint"] # NONE
                               /\ stages["checkpoint"].marker # NONE
                               /\ IdentityMatches(cmd[j], stages["checkpoint"].marker.identity)
         /\ pc[j] = "rename" => stages["checkpoint"] = NONE
         /\ pc[j] = "inspect" => StageOf(j) # NONE /\ lock = NONE
         /\ pc[j] = "open" => StageOf(j) # NONE /\ (temp[j] = "checkpoint" => lock = NONE)
         /\ pc[j] = "validate" => input[j].rows # "none"
         /\ pc[j] = "link" => linking = NONE
         /\ pc[j] = "seal" => normal = NONE
         /\ pc[j] = "read" => normal # NONE /\ normal.identity = NormalIdentity(cmd[j])
         /\ pc[j] = "clone" => normal # NONE
         /\ pc[j] = "publish" => outputs[cmd[j].output] = NONE
<1>1. pc[j] = "mkdir" => stages["building"] = NONE
  BY DEF Possible
<1>2. pc[j] = "adopt" => /\ stages["checkpoint"] # NONE
                         /\ stages["checkpoint"].marker # NONE
                         /\ IdentityMatches(cmd[j], stages["checkpoint"].marker.identity)
  BY DEF Possible
<1>3. pc[j] = "rename" => stages["checkpoint"] = NONE
  BY DEF Possible
<1>4. pc[j] = "inspect" => StageOf(j) # NONE /\ lock = NONE
  BY DEF Possible
<1>5. pc[j] = "open" => StageOf(j) # NONE /\ (temp[j] = "checkpoint" => lock = NONE)
  BY DEF Possible
<1>6. pc[j] = "validate" => input[j].rows # "none"
  BY DEF Possible
<1>7. pc[j] = "link" => linking = NONE
  BY DEF Possible
<1>8. pc[j] = "seal" => normal = NONE
  BY DEF Possible
<1>9. pc[j] = "read" => normal # NONE /\ normal.identity = NormalIdentity(cmd[j])
  BY DEF Possible
<1>10. pc[j] = "clone" => normal # NONE
  BY DEF Possible
<1>11. pc[j] = "publish" => outputs[cmd[j].output] = NONE
  BY DEF Possible
<1>12. QED
  BY <1>1, <1>2, <1>3, <1>4, <1>5, <1>6, <1>7, <1>8, <1>9, <1>10, <1>11

\* An adopted checkpoint was staged for the manifest of the command.
LEMMA AdoptedManifest ==
  ASSUME NEW c \in Command, NEW saved \in Identity, IdentityMatches(c, saved)
  PROVE  saved.manifest = c.manifest
<1>1. CASE saved = StageIdentity(c)
  BY <1>1 DEF StageIdentity
<1>2. CASE saved # StageIdentity(c)
  <2>1. PICK output : [saved EXCEPT !.build = c.build, !.output = output] = StageIdentity(c)
    BY <1>2 DEF IdentityMatches
  <2>2. [saved EXCEPT !.build = c.build, !.output = output].manifest = saved.manifest
    BY DEF Identity
  <2>3. QED
    BY <2>1, <2>2 DEF StageIdentity
<1>3. QED
  BY <1>1, <1>2

LEMMA CommandFacts ==
  ASSUME NEW c \in Commands
  PROVE  /\ c \in Command /\ c.kind \in {"build", "catalog"} /\ c.checkpoint \in BOOLEAN
         /\ c.manifest \in Manifests /\ c.build \in Builds /\ c.output \in Outputs
         /\ c.kind = "catalog" => ~c.checkpoint /\ ~c.resume
         /\ c.resume => c.checkpoint
BY CommandsAssumption DEF Command, WellFormed

-----------------------------------------------------------------------------
(* Types.                                                                  *)

LEMMA StageFacts ==
  /\ \A s \in Stage : /\ s.of \in Manifests /\ s.by \in Builds /\ s.rows \in {"none", "some", "all"}
                      /\ s.tables \subseteq Derived /\ s # NONE
                      /\ s.marker # NONE => s.marker.identity \in Identity
                      /\ \A rows \in {"none", "some", "all"} : [s EXCEPT !.rows = rows] \in Stage
                      /\ \A tables \in SUBSET Derived : [s EXCEPT !.tables = tables] \in Stage
                      /\ [s EXCEPT !.marker = NONE] \in Stage
                      /\ \A i \in Identity : \A rows \in {"none", "some", "all"} :
                           [s EXCEPT !.marker = [identity |-> i, rows |-> rows]] \in Stage
  /\ \A j \in Jobs : \A rows \in {"none", "some", "all"} :
       cmd[j] \in Commands => NewStage(j, rows) \in Stage
BY NoneAssumption, CommandFacts DEF Stage, NewStage

\* Whoever creates or drops a table has its stage.
LEMMA OpenStageExists ==
  ASSUME TypeInv, PlaceInv, StageInv, LockInv, NEW j \in Jobs, Linked(j),
         pc[j] \in Normalizing \cup {"reset"}
  PROVE  temp[j] \in Places /\ stages[temp[j]] \in Stage
<1>1. temp[j] \in {"checkpoint", j}
  BY DEF PlaceInv, JobPlace, Where, Normalizing
<1>2. CASE temp[j] = "checkpoint"
  BY <1>2, NoneAssumption DEF TypeInv, LockInv, Linked, Places
<1>3. CASE temp[j] = j
  BY <1>3 DEF TypeInv, StageInv, Places
<1>4. QED
  BY <1>1, <1>2, <1>3

\* The job is gone, or its directory is.
LEMMA LeaveType ==
  ASSUME TypeInv, NEW j \in Jobs, NEW place, Leave(j, place)
  PROVE  /\ pc' \in [Jobs -> Steps] /\ cmd' \in [Jobs -> Commands \cup {NoCommand}]
         /\ temp' \in [Jobs -> Places \cup {NONE}] /\ preserve' \in [Jobs -> BOOLEAN]
         /\ input' \in [Jobs -> Stage \cup {NONE}]
         /\ generation' \in [Jobs -> Generation \cup {NONE}]
         /\ lock' \in Jobs \cup {NONE} /\ orphans' \subseteq Jobs
BY DEF TypeInv, Leave, Goto, Steps, Unlinked

LEMMA InitTypes == Init => TypeInv
BY DEF Init, TypeInv, Steps

LEMMA StagingType ==
  ASSUME TypeInv, PlaceInv, StageInv, LockInv, NEW j \in Jobs, Staging(j)
  PROVE  TypeInv'
<1> USE DEF TypeInv, Steps, At, Goto, Places
<1>1. CASE CheckOutput(j)
  <2>1. cmd[j] \in Commands
    BY <1>1 DEF CheckOutput, PlaceInv, JobPlace, Idle
  <2>2. NewStage(j, "none") \in Stage
    BY <2>1, StageFacts
  <2>3. QED
    BY <1>1, <2>2 DEF CheckOutput, locks
<1>2. CASE Probe(j)
  BY <1>2 DEF Probe, dirs, locals, locks
<1>3. CASE MakeBuilding(j)
  <2>1. cmd[j] \in Commands
    BY <1>3 DEF MakeBuilding, PlaceInv, JobPlace, Idle
  <2>2. NewStage(j, "none") \in Stage
    BY <2>1, StageFacts
  <2>3. QED
    BY <1>3, <2>2 DEF MakeBuilding, locks
<1>4. CASE StageRows(j)
  <2>1. temp[j] \in {"building", j}
    BY <1>4 DEF StageRows, PlaceInv, JobPlace, Where
  <2>2. stages[temp[j]] \in Stage
    BY <2>1 DEF StageInv
  <2>3. PICK rows \in {"some", "all"} : stages' = [stages EXCEPT ![temp[j]].rows = rows]
    BY <1>4 DEF StageRows
  <2>4. [stages[temp[j]] EXCEPT !.rows = rows] \in Stage
    BY <2>2, StageFacts
  <2>5. stages' \in [Places -> Stage \cup {NONE}]
    BY <2>1, <2>3, <2>4
  <2>6. pc' \in [Jobs -> Steps]
    BY <1>4 DEF StageRows
  <2>7. QED
    BY <1>4, <2>5, <2>6 DEF StageRows, locals, locks
<1>5. CASE WriteMarker(j)
  <2>1. temp[j] = "building" /\ cmd[j] \in Commands
    BY <1>5 DEF WriteMarker, PlaceInv, JobPlace, Where, Idle
  <2>2. stages["building"] \in Stage
    BY <2>1 DEF StageInv
  <2>3. StageIdentity(cmd[j]) \in Identity
    BY <2>1, CommandFacts DEF StageIdentity, Identity
  <2>4. [stages["building"] EXCEPT !.marker =
           [identity |-> StageIdentity(cmd[j]), rows |-> StageOf(j).rows]] \in Stage
    BY <2>1, <2>2, <2>3, StageFacts DEF StageOf
  <2>5. stages' \in [Places -> Stage \cup {NONE}]
    BY <1>5, <2>1, <2>4 DEF WriteMarker
  <2>6. QED
    BY <1>5, <2>5 DEF WriteMarker, locals, locks
<1>6. CASE PublishCheckpoint(j)
  BY <1>6 DEF PublishCheckpoint, locks
<1>7. CASE AdoptCheckpoint(j)
  BY <1>7 DEF AdoptCheckpoint, dirs, locks
<1>8. CASE OpenForReset(j)
  BY <1>8 DEF OpenForReset, dirs, locals
<1>9. CASE ResetDerived(j)
  <2>1. stages' \in [Places -> Stage \cup {NONE}]
    <3>1. CASE Linked(j)
      <4>1. temp[j] = "checkpoint" /\ stages["checkpoint"] \in Stage
        BY <1>9, <3>1, OpenStageExists DEF ResetDerived, PlaceInv, JobPlace, Where
      <4>2. [stages["checkpoint"] EXCEPT !.tables = Reset(stages["checkpoint"].tables)] \in Stage
        BY <4>1, StageFacts DEF Reset
      <4>3. QED
        BY <1>9, <3>1, <4>2 DEF ResetDerived
    <3>2. QED
      BY <1>9, <3>1 DEF ResetDerived
  <2>2. QED
    BY <1>9, <2>1 DEF ResetDerived, locals
<1>10. QED
  BY <1>1, <1>2, <1>3, <1>4, <1>5, <1>6, <1>7, <1>8, <1>9 DEF Staging

LEMMA NormalizationType ==
  ASSUME TypeInv, PlaceInv, StageInv, LockInv, InputInv, DataInv, NEW j \in Jobs, Normalization(j)
  PROVE  TypeInv'
<1> USE DEF TypeInv, Steps, At, Goto
<1>1. ASSUME NEW tables \in SUBSET Derived, pc[j] \in Normalizing, Tables(j, tables)
      PROVE  stages' \in [Places -> Stage \cup {NONE}]
  <2>1. CASE Linked(j)
    <3>1. temp[j] \in Places /\ stages[temp[j]] \in Stage
      BY <1>1, <2>1, OpenStageExists
    <3>2. [stages[temp[j]] EXCEPT !.tables = tables] \in Stage
      BY <3>1, StageFacts
    <3>3. QED
      BY <1>1, <2>1, <3>1, <3>2 DEF Tables
  <2>2. QED
    BY <1>1, <2>1 DEF Tables
<1>2. ASSUME Linked(j), pc[j] \in Normalizing PROVE StageOf(j).tables \subseteq Derived
  BY <1>2, OpenStageExists, StageFacts DEF StageOf
<1>3. CASE OpenStage(j)
  <2>1. StageOf(j) \in Stage
    <3>1. temp[j] \in Places
      BY <1>3 DEF OpenStage, PlaceInv, JobPlace, Where, Places
    <3>2. QED
      BY <1>3, <3>1, Checks DEF OpenStage, StageOf
  <2>2. [data |-> NONE, declares |-> NONE] \in Generation
    BY DEF Generation
  <2>3. QED
    BY <1>3, <2>1, <2>2 DEF OpenStage, dirs
<1>4. CASE ValidateInput(j)
  BY <1>4 DEF ValidateInput, dirs, locals, locks
<1>5. CASE CreateTable(j)
  <2>1. PICK table \in Derived, step \in {"keys", "endpoints", "from"}, then \in {"endpoints", "from", "to"} :
          pc[j] = step /\ Tables(j, StageOf(j).tables \cup {table}) /\ Goto(j, then)
    <3>1. PICK step \in {<<"resolved_keys", "keys", "endpoints">>,
                         <<"relationship_keys", "endpoints", "from">>,
                         <<"relationship_from", "from", "to">>} :
            At(j, step[2]) /\ Tables(j, StageOf(j).tables \cup {step[1]}) /\ Goto(j, step[3])
      BY <1>5, Zenon DEF CreateTable
    <3>2. step[1] \in Derived /\ step[2] \in {"keys", "endpoints", "from"}
          /\ step[3] \in {"endpoints", "from", "to"}
      BY DEF Derived
    <3>3. QED
      BY <3>1, <3>2, Zenon DEF At
  <2>2. stages' \in [Places -> Stage \cup {NONE}]
    <3>1. CASE Linked(j)
      BY <1>1, <1>2, <2>1, <3>1 DEF Normalizing
    <3>2. CASE ~Linked(j)
      BY <2>1, <3>2 DEF Tables
    <3>3. QED
      BY <3>1, <3>2
  <2>3. QED
    BY <1>5, <2>1, <2>2 DEF CreateTable, locals, locks
<1>6. CASE CreateResolved(j)
  <2>1. stages' \in [Places -> Stage \cup {NONE}]
    <3>1. CASE Linked(j)
      BY <1>1, <1>2, <1>6, <3>1 DEF Normalizing, CreateResolved, Derived
    <3>2. CASE ~Linked(j)
      BY <1>6, <3>2 DEF Tables, CreateResolved
    <3>3. QED
      BY <3>1, <3>2
  <2>2. QED
    BY <1>6, <2>1 DEF CreateResolved, locals, locks
<1>7. CASE FinishNormalization(j)
  <2>1. stages' \in [Places -> Stage \cup {NONE}]
    <3>1. CASE Linked(j)
      BY <1>1, <1>2, <1>7, <3>1 DEF Normalizing, FinishNormalization
    <3>2. CASE ~Linked(j)
      BY <1>7, <3>2 DEF Tables, FinishNormalization
    <3>3. QED
      BY <3>1, <3>2
  <2>2. generation' \in [Jobs -> Generation \cup {NONE}]
    <3>1. pc[j] = "digest" /\ generation[j] \in Generation
      BY <1>7 DEF FinishNormalization, DataInv, JobData, Normalizing
    <3>2. cmd[j] \in Commands /\ input[j] \in Stage
      BY <3>1 DEF PlaceInv, JobPlace, Idle, InputInv, Normalizing
    <3>3. [of |-> input[j].of, rows |-> input[j].rows, staged |-> input[j].by,
           normalized |-> cmd[j].build] \in Data
      BY <3>2, StageFacts, CommandFacts DEF Data
    <3>4. [generation[j] EXCEPT !.data =
             [of |-> input[j].of, rows |-> input[j].rows, staged |-> input[j].by,
              normalized |-> cmd[j].build]] \in Generation
      BY <3>1, <3>3 DEF Generation
    <3>5. QED
      BY <1>7, <3>4 DEF FinishNormalization
  <2>3. QED
    BY <1>7, <2>1, <2>2 DEF FinishNormalization
<1>8. QED
  BY <1>3, <1>4, <1>5, <1>6, <1>7 DEF Normalization

LEMMA PublicationType ==
  ASSUME TypeInv, PlaceInv, StageInv, DataInv, NEW j \in Jobs, Publication(j)
  PROVE  TypeInv'
<1> USE DEF TypeInv, Steps, At, Goto
<1>1. CASE ReserveNormal(j)
  BY <1>1 DEF ReserveNormal, dirs, locals, locks
<1>2. CASE LinkNormal(j)
  <2>1. pc[j] = "link" /\ generation[j] \in Generation /\ generation[j].data # NONE
    BY <1>2 DEF LinkNormal, DataInv, JobData, Normalized, Whole
  <2>2. cmd[j] \in Commands
    BY <2>1 DEF PlaceInv, JobPlace, Idle
  <2>3. [data |-> generation[j].data, identity |-> NormalIdentity(cmd[j])] \in Checkpoint
    BY <2>1, <2>2, CommandFacts DEF Generation, Checkpoint, NormalIdentity
  <2>4. QED
    BY <1>2, <2>3 DEF LinkNormal, locals, locks
<1>3. CASE SealNormal(j)
  BY <1>3 DEF SealNormal, locals, locks
<1>4. CASE ReadNormal(j)
  BY <1>4 DEF ReadNormal, dirs, locals, locks
<1>5. CASE CloneNormal(j)
  <2>1. normal \in Checkpoint
    BY <1>5, Checks DEF CloneNormal
  <2>2. [data |-> normal.data, declares |-> NONE] \in Generation
    BY <2>1 DEF Checkpoint, Generation
  <2>3. QED
    BY <1>5, <2>2 DEF CloneNormal, dirs, locks
<1>6. CASE BuildCatalog(j)
  <2>1. generation[j] \in Generation /\ cmd[j] \in Commands
    BY <1>6 DEF BuildCatalog, DataInv, JobData, Normalized, PlaceInv, JobPlace, Idle
  <2>2. [generation[j] EXCEPT !.declares = cmd[j].manifest] \in Generation
    BY <2>1, CommandFacts DEF Generation
  <2>3. QED
    BY <1>6, <2>2 DEF BuildCatalog, dirs, locks
<1>7. CASE Publish(j)
  <2>1. outputs' \in [Outputs -> Generation \cup {NONE}]
    BY <1>7 DEF Publish
  <2>2. CASE ReleasesCheckpoint(cmd[j])
    BY <1>7, <2>1, <2>2 DEF Publish, locks
  <2>3. CASE ~ReleasesCheckpoint(cmd[j])
    <3>1. Leave(j, NONE) /\ stages' = [stages EXCEPT ![j] = NONE]
          /\ UNCHANGED <<normal, linking>>
      BY <1>7, <2>3 DEF Publish
    <3>2. stages' \in [Places -> Stage \cup {NONE}]
      BY <3>1
    <3>3. QED
      BY <2>1, <3>1, <3>2, LeaveType
  <2>4. QED
    BY <2>2, <2>3
<1>8. CASE RemoveFile(j)
  <2>1. temp[j] = "checkpoint"
    BY <1>8 DEF RemoveFile, PlaceInv, JobPlace, Where
  <2>2. stages["checkpoint"] \in Stage /\ "checkpoint" \in Places
    BY <1>8, <2>1 DEF RemoveFile, StageOf, Places
  <2>3. stages' \in [Places -> Stage \cup {NONE}]
    <3>1. [stages["checkpoint"] EXCEPT !.marker = NONE] \in Stage
      BY <2>2, StageFacts
    <3>2. [stages["checkpoint"] EXCEPT !.rows = "none", !.tables = {}] \in Stage
      <4>1. [stages["checkpoint"] EXCEPT !.rows = "none"] \in Stage
        BY <2>2, StageFacts
      <4>2. [[stages["checkpoint"] EXCEPT !.rows = "none"] EXCEPT !.tables = {}] \in Stage
        BY <4>1, StageFacts
      <4>3. QED
        BY <4>2
    <3>3. \/ stages' = [stages EXCEPT !["checkpoint"] = [stages["checkpoint"] EXCEPT !.marker = NONE]]
          \/ stages' = [stages EXCEPT !["checkpoint"] =
                          [stages["checkpoint"] EXCEPT !.rows = "none", !.tables = {}]]
      BY <1>8, <2>2 DEF RemoveFile
    <3>4. QED
      BY <2>2, <3>1, <3>2, <3>3
  <2>4. orphans' \subseteq Jobs /\ lock' \in Jobs \cup {NONE}
    BY <1>8 DEF RemoveFile, Unlinked, locks
  <2>5. QED
    BY <1>8, <2>3, <2>4 DEF RemoveFile, locals
<1>9. CASE RemoveDirectory(j)
  <2>1. orphans' \subseteq Jobs /\ lock' \in Jobs \cup {NONE}
    BY <1>9 DEF RemoveDirectory, Unlinked
  <2>2. stages' \in [Places -> Stage \cup {NONE}]
    BY <1>9 DEF RemoveDirectory
  <2>3. QED
    BY <1>9, <2>1, <2>2 DEF RemoveDirectory
<1>10. QED
  BY <1>1, <1>2, <1>3, <1>4, <1>5, <1>6, <1>7, <1>8, <1>9 DEF Publication

\* A job that fails or dies.
Stops(j) == Refuse(j) \/ Fail(j) \/ Crash(j)

LEMMA StopsBy ==
  ASSUME NEW j \in Jobs, Stops(j)
  PROVE  /\ ~Idle(j) /\ UNCHANGED <<normal, outputs>>
         /\ \/ Abort(j) /\ UNCHANGED crashed
            \/ /\ stages' = (IF temp[j] = j THEN [stages EXCEPT ![j] = NONE] ELSE stages)
               /\ Leave(j, NONE) /\ crashed' = TRUE /\ linking' = linking
BY DEF Stops, Refuse, Fail, Crash, Abort, bounds

LEMMA StopsType ==
  ASSUME TypeInv, NEW j \in Jobs, Stops(j)
  PROVE  TypeInv'
<1>1. stages' \in [Places -> Stage \cup {NONE}]
  <2>1. CASE Abort(j)
    BY <2>1 DEF TypeInv, Abort
  <2>2. CASE ~Abort(j)
    BY <2>2, StopsBy DEF TypeInv
  <2>3. QED
    BY <2>1, <2>2
<1>2. linking' \in Checkpoint \cup {NONE}
  BY StopsBy DEF TypeInv, Abort
<1>3. PICK place : Leave(j, place)
  BY StopsBy DEF Abort
<1>4. QED
  BY <1>1, <1>2, <1>3, StopsBy, LeaveType DEF TypeInv

LEMMA StartType ==
  ASSUME TypeInv, NEW j \in Jobs, Start(j)
  PROVE  TypeInv'
BY DEF TypeInv, Start, Steps, dirs, locks

LEMMA RemoveLeftoverType ==
  ASSUME TypeInv, RemoveLeftover
  PROVE  TypeInv'
<1>1. stages' \in [Places -> Stage \cup {NONE}]
  BY DEF TypeInv, RemoveLeftover
<1>2. linking' \in Checkpoint \cup {NONE}
  BY DEF TypeInv, RemoveLeftover
<1>3. QED
  BY <1>1, <1>2 DEF TypeInv, RemoveLeftover, locals, locks

JobStep(j) == Start(j) \/ Staging(j) \/ Normalization(j) \/ Publication(j) \/ Stops(j)

LEMMA NextCases ==
  ASSUME [Next]_vars
  PROVE  (\E j \in Jobs : JobStep(j)) \/ RemoveLeftover \/ UNCHANGED vars
BY DEF Next, JobStep, Stops

LEMMA TypeStep ==
  ASSUME IInv, [Next]_vars
  PROVE  TypeInv'
<1>1. CASE \E j \in Jobs : JobStep(j)
  BY <1>1, StartType, StagingType, NormalizationType, PublicationType, StopsType DEF IInv, JobStep
<1>2. CASE RemoveLeftover
  BY <1>2, RemoveLeftoverType DEF IInv
<1>3. CASE UNCHANGED vars
  BY <1>3 DEF IInv, TypeInv, vars, dirs, locals, locks
<1>4. QED
  BY <1>1, <1>2, <1>3, NextCases

-----------------------------------------------------------------------------
(* Directories and next steps.                                             *)

\* A step of one job leaves the others where they are.
LEMMA Others ==
  ASSUME TypeInv, NEW j \in Jobs, JobStep(j), NEW i \in Jobs, i # j
  PROVE  /\ pc'[i] = pc[i] /\ cmd'[i] = cmd[i] /\ temp'[i] = temp[i]
         /\ preserve'[i] = preserve[i] /\ input'[i] = input[i] /\ generation'[i] = generation[i]
<1> USE DEF TypeInv, Goto, dirs, locals
<1>1. CASE Start(j)
  BY <1>1 DEF Start
<1>2. CASE Staging(j)
  BY <1>2 DEF Staging, CheckOutput, Probe, MakeBuilding, StageRows, WriteMarker, PublishCheckpoint,
              AdoptCheckpoint, OpenForReset, ResetDerived
<1>3. CASE Normalization(j)
  BY <1>3 DEF Normalization, OpenStage, ValidateInput, CreateTable, CreateResolved,
              FinishNormalization
<1>4. CASE Publication(j)
  <2>1. CASE Publish(j)
    BY <2>1 DEF Publish, Leave
  <2>2. CASE ~Publish(j)
    BY <1>4, <2>2 DEF Publication, ReserveNormal, LinkNormal, SealNormal, ReadNormal, CloneNormal,
                      BuildCatalog, RemoveFile, RemoveDirectory
  <2>3. QED
    BY <2>1, <2>2
<1>5. CASE Stops(j)
  <2>1. PICK place : Leave(j, place)
    BY <1>5, StopsBy DEF Abort
  <2>2. QED
    BY <2>1 DEF Leave
<1>6. QED
  BY <1>1, <1>2, <1>3, <1>4, <1>5 DEF JobStep

\* The job is not there any more.
Gone(j) ==
  /\ pc' = [pc EXCEPT ![j] = "idle"] /\ cmd' = [cmd EXCEPT ![j] = NoCommand]
  /\ temp' = [temp EXCEPT ![j] = NONE] /\ preserve' = [preserve EXCEPT ![j] = FALSE]

\* What is left of a step that keeps the job going: its command.
Continues(j) == ~Idle(j) /\ cmd' = cmd

LEMMA Ways ==
  ASSUME TypeInv, PlaceInv, NEW j \in Jobs, JobStep(j)
  PROVE  /\ Stops(j) \/ RemoveDirectory(j) \/ (Publish(j) /\ ~ReleasesCheckpoint(cmd[j])) => Gone(j)
         /\ Staging(j) \/ Normalization(j) => Continues(j)
         /\ Publication(j) => Gone(j) \/ Continues(j)
         /\ Publish(j) /\ ReleasesCheckpoint(cmd[j]) => Continues(j)
<1>1. ASSUME NEW place, Leave(j, place) PROVE Gone(j)
  BY <1>1 DEF Leave, Gone, Goto
<1>2. ASSUME Stops(j) PROVE Gone(j)
  BY <1>1, <1>2, StopsBy DEF Abort
<1>3. ASSUME RemoveDirectory(j) PROVE Gone(j)
  <2>1. preserve[j] = FALSE
    BY <1>3 DEF RemoveDirectory, At, TypeInv, PlaceInv, JobPlace
  <2>2. preserve' = [preserve EXCEPT ![j] = FALSE]
    BY <1>3, <2>1 DEF RemoveDirectory, TypeInv
  <2>3. QED
    BY <1>3, <2>2 DEF RemoveDirectory, Gone, Goto
<1>4. ASSUME Publish(j), ~ReleasesCheckpoint(cmd[j]) PROVE Gone(j)
  BY <1>1, <1>4 DEF Publish
<1>5. ASSUME Publish(j), ReleasesCheckpoint(cmd[j]) PROVE Continues(j)
  BY <1>5 DEF Publish, Continues, Idle, At
<1>6. ASSUME Staging(j) PROVE Continues(j)
  BY <1>6 DEF Continues, Idle, At, locals, Staging, CheckOutput, Probe, MakeBuilding, StageRows,
              WriteMarker, PublishCheckpoint, AdoptCheckpoint, OpenForReset, ResetDerived
<1>7. ASSUME Normalization(j) PROVE Continues(j)
  <2>1. CASE CreateTable(j)
    <3>1. PICK step \in {<<"resolved_keys", "keys", "endpoints">>,
                         <<"relationship_keys", "endpoints", "from">>,
                         <<"relationship_from", "from", "to">>} : pc[j] = step[2]
      BY <2>1, Zenon DEF CreateTable, At
    <3>2. QED
      BY <2>1, <3>1 DEF CreateTable, Continues, Idle, locals
  <2>2. CASE ~CreateTable(j)
    BY <1>7, <2>2 DEF Continues, Idle, At, locals, Normalization, OpenStage, ValidateInput,
                      CreateResolved, FinishNormalization
  <2>3. QED
    BY <2>1, <2>2
<1>8. ASSUME Publication(j), ~Publish(j), ~RemoveDirectory(j) PROVE Continues(j)
  BY <1>8 DEF Continues, Idle, At, dirs, locals, Publication, ReserveNormal, LinkNormal, SealNormal,
              ReadNormal, CloneNormal, BuildCatalog, RemoveFile
<1>9. QED
  BY <1>2, <1>3, <1>4, <1>5, <1>6, <1>7, <1>8

LEMMA GoneInPlace ==
  ASSUME TypeInv, NEW j \in Jobs, Gone(j)
  PROVE  JobPlace(j)'
<1>1. pc'[j] = "idle" /\ temp'[j] = NONE /\ preserve'[j] = FALSE
  BY DEF TypeInv, Gone
<1>2. NONE # "checkpoint"
  BY NoneAssumption DEF Places
<1>3. QED
  BY <1>1, <1>2 DEF JobPlace, Where, Idle

LEMMA StagingPlace ==
  ASSUME TypeInv, PlaceInv, NEW j \in Jobs, Staging(j)
  PROVE  JobPlace(j)'
<1>1. cmd[j] \in Commands /\ cmd' = cmd
  BY Ways DEF JobStep, Continues, PlaceInv, JobPlace
<1>2. cmd[j].kind \in {"build", "catalog"} /\ cmd[j].checkpoint \in BOOLEAN
      /\ (cmd[j].kind = "catalog" => ~cmd[j].checkpoint /\ ~cmd[j].resume)
      /\ (cmd[j].resume => cmd[j].checkpoint)
  BY <1>1, CommandFacts
<1>3. NONE # "checkpoint" /\ "checkpoint" # j /\ "building" # j /\ JobPlace(j)
  BY NoneAssumption, PlacesAssumption DEF Places, PlaceInv
<1> USE <1>1, <1>2, <1>3 DEF TypeInv, JobPlace, Where, Idle, At, Goto
<1>4. CASE CheckOutput(j)
  BY <1>4 DEF CheckOutput
<1>5. CASE Probe(j)
  BY <1>5 DEF Probe, locals
<1>6. CASE MakeBuilding(j)
  BY <1>6 DEF MakeBuilding
<1>7. CASE StageRows(j)
  BY <1>7 DEF StageRows, locals
<1>8. CASE WriteMarker(j)
  BY <1>8 DEF WriteMarker, locals
<1>9. CASE PublishCheckpoint(j)
  BY <1>9 DEF PublishCheckpoint
<1>10. CASE AdoptCheckpoint(j)
  BY <1>10 DEF AdoptCheckpoint
<1>11. CASE OpenForReset(j)
  BY <1>11 DEF OpenForReset, locals
<1>12. CASE ResetDerived(j)
  BY <1>12 DEF ResetDerived, locals
<1>13. QED
  BY <1>4, <1>5, <1>6, <1>7, <1>8, <1>9, <1>10, <1>11, <1>12 DEF Staging

LEMMA NormalizationPlace ==
  ASSUME TypeInv, PlaceInv, NEW j \in Jobs, Normalization(j)
  PROVE  JobPlace(j)'
<1>1. cmd[j] \in Commands /\ cmd' = cmd /\ JobPlace(j)
  BY Ways DEF JobStep, Continues, PlaceInv, JobPlace
<1> USE <1>1 DEF TypeInv, JobPlace, Where, Idle, At, Goto
<1>2. CASE OpenStage(j)
  BY <1>2 DEF OpenStage
<1>3. CASE ValidateInput(j)
  BY <1>3 DEF ValidateInput, locals
<1>4. CASE CreateTable(j)
  <2>1. PICK step \in {<<"resolved_keys", "keys", "endpoints">>,
                       <<"relationship_keys", "endpoints", "from">>,
                       <<"relationship_from", "from", "to">>} :
          pc[j] = step[2] /\ pc' = [pc EXCEPT ![j] = step[3]]
    BY <1>4, Zenon DEF CreateTable
  <2>2. pc[j] \in {"keys", "endpoints", "from"} /\ pc'[j] \in {"endpoints", "from", "to"}
    BY <2>1
  <2>3. QED
    BY <1>4, <2>2 DEF CreateTable, locals
<1>5. CASE CreateResolved(j)
  BY <1>5 DEF CreateResolved, locals
<1>6. CASE FinishNormalization(j)
  BY <1>6 DEF FinishNormalization
<1>7. QED
  BY <1>2, <1>3, <1>4, <1>5, <1>6 DEF Normalization

LEMMA PublicationPlace ==
  ASSUME TypeInv, PlaceInv, NEW j \in Jobs, Publication(j), Continues(j)
  PROVE  JobPlace(j)'
<1>1. cmd[j] \in Commands /\ cmd' = cmd /\ JobPlace(j) /\ ~Idle(j)
  BY DEF Continues, PlaceInv, JobPlace
<1>2. (cmd[j].kind = "catalog" => ~cmd[j].checkpoint) /\ cmd[j].kind \in {"build", "catalog"}
      /\ NONE # "checkpoint" /\ "checkpoint" # j
  BY <1>1, CommandFacts, NoneAssumption, PlacesAssumption DEF Places
<1>3. CASE Publish(j)
  <2>1. CASE ReleasesCheckpoint(cmd[j])
    BY <1>1, <1>2, <1>3, <2>1 DEF Publish, ReleasesCheckpoint, TypeInv, JobPlace, Where, Idle, At, Goto
  <2>2. CASE ~ReleasesCheckpoint(cmd[j])
    BY <1>3, <2>2, Ways, GoneInPlace DEF JobStep
  <2>3. QED
    BY <2>1, <2>2
<1>4. CASE RemoveDirectory(j)
  BY <1>4, Ways, GoneInPlace DEF JobStep
<1> USE <1>1, <1>2 DEF TypeInv, JobPlace, Where, Idle, At, Goto
<1>5. CASE ReserveNormal(j)
  BY <1>5 DEF ReserveNormal, locals
<1>6. CASE LinkNormal(j)
  BY <1>6 DEF LinkNormal, locals
<1>7. CASE SealNormal(j)
  BY <1>7 DEF SealNormal, locals
<1>8. CASE ReadNormal(j)
  BY <1>8 DEF ReadNormal, locals
<1>9. CASE CloneNormal(j)
  BY <1>9 DEF CloneNormal
<1>10. CASE BuildCatalog(j)
  BY <1>10 DEF BuildCatalog
<1>11. CASE RemoveFile(j)
  BY <1>11 DEF RemoveFile, locals
<1>12. QED
  BY <1>3, <1>4, <1>5, <1>6, <1>7, <1>8, <1>9, <1>10, <1>11 DEF Publication

LEMMA StartPlace ==
  ASSUME TypeInv, PlaceInv, NEW j \in Jobs, Start(j)
  PROVE  JobPlace(j)'
<1>1. temp'[j] = NONE /\ preserve'[j] = FALSE
  BY NoneAssumption DEF Start, locals, PlaceInv, JobPlace, Where, Idle, TypeInv, Places
<1>2. pc'[j] = "check" /\ cmd'[j] \in Commands
  BY DEF Start, TypeInv
<1>3. NONE # "checkpoint"
  BY NoneAssumption DEF Places
<1>4. QED
  BY <1>1, <1>2, <1>3 DEF JobPlace, Where, Idle

LEMMA PlaceStep ==
  ASSUME TypeInv, PlaceInv, [Next]_vars
  PROVE  PlaceInv'
<1>1. ASSUME NEW j \in Jobs, JobStep(j) PROVE PlaceInv'
  <2>1. ASSUME NEW i \in Jobs, i # j PROVE JobPlace(i)'
    <3>1. JobPlace(i)
      BY DEF PlaceInv
    <3>2. QED
      BY <1>1, <2>1, <3>1, Others DEF JobPlace, Where, Idle
  <2>2. JobPlace(j)'
    BY <1>1, Ways, GoneInPlace, StagingPlace, NormalizationPlace, PublicationPlace, StartPlace
       DEF JobStep
  <2>3. QED
    BY <2>1, <2>2 DEF PlaceInv
<1>2. CASE RemoveLeftover \/ UNCHANGED vars
  BY <1>2 DEF PlaceInv, JobPlace, Where, Idle, RemoveLeftover, vars, locals
<1>3. QED
  BY <1>1, <1>2, NextCases

-----------------------------------------------------------------------------
(* Manifests of the jobs at one path.                                      *)

LEMMA StartPath ==
  ASSUME TypeInv, PathInv, NEW j \in Jobs, Start(j)
  PROVE  PathInv'
<1>1. PICK c \in Commands : Compatible(j, c) /\ cmd' = [cmd EXCEPT ![j] = c]
  BY DEF Start
<1>2. cmd'[j] = c /\ pc'[j] = "check"
  BY <1>1 DEF Start, TypeInv
<1>3. ASSUME NEW i \in Jobs, i # j, ~Idle(i), cmd[i].checkpoint, c.checkpoint,
             ~(c.resume /\ cmd[i].resume)
      PROVE  c.manifest = cmd[i].manifest
  BY <1>1, <1>3 DEF Compatible
<1>4. ASSUME NEW i \in Jobs, i # j PROVE pc'[i] = pc[i] /\ cmd'[i] = cmd[i]
  BY <1>4, Others DEF JobStep
<1>5. ASSUME NEW i \in Jobs, NEW k \in Jobs, ~Idle(i)', ~Idle(k)', cmd'[i].checkpoint,
             cmd'[k].checkpoint, ~(cmd'[i].resume /\ cmd'[k].resume)
      PROVE  cmd'[i].manifest = cmd'[k].manifest
  <2>1. CASE i # j /\ k # j
    BY <1>4, <1>5, <2>1 DEF PathInv, Idle
  <2>2. CASE i = j /\ k # j
    BY <1>2, <1>3, <1>4, <1>5, <2>2 DEF Idle
  <2>3. CASE i # j /\ k = j
    BY <1>2, <1>3, <1>4, <1>5, <2>3 DEF Idle
  <2>4. QED
    BY <2>1, <2>2, <2>3
<1>6. QED
  BY <1>5 DEF PathInv

LEMMA PathStep ==
  ASSUME TypeInv, PlaceInv, PathInv, [Next]_vars
  PROVE  PathInv'
<1>1. ASSUME NEW j \in Jobs, JobStep(j), ~Start(j) PROVE PathInv'
  <2>1. CASE Gone(j)
    BY <2>1 DEF PathInv, Gone, Idle, TypeInv
  <2>2. CASE Continues(j)
    <3>1. ASSUME NEW i \in Jobs, ~Idle(i)' PROVE ~Idle(i)
      BY <1>1, <2>2, <3>1, Others DEF Continues, Idle
    <3>2. QED
      BY <2>2, <3>1 DEF PathInv, Continues
  <2>3. QED
    BY <1>1, <2>1, <2>2, Ways DEF JobStep
<1>2. CASE RemoveLeftover \/ UNCHANGED vars
  BY <1>2 DEF PathInv, Idle, RemoveLeftover, vars, locals
<1>3. QED
  BY <1>1, <1>2, StartPath, NextCases DEF JobStep

-----------------------------------------------------------------------------
(* What is in the directories.                                             *)

\* The directories change under the hands of the jobs that have them.
LEMMA StagesOf ==
  ASSUME TypeInv, PlaceInv, StageInv, LockInv, NEW j \in Jobs, JobStep(j),
         NEW p \in Places, stages'[p] # stages[p]
  PROVE  \/ temp[j] = p
         \/ p = j
         \/ p = "building" /\ MakeBuilding(j)
         \/ p = "checkpoint" /\ PublishCheckpoint(j)
<1> USE DEF TypeInv, PlaceInv, JobPlace, Where, Idle, At
<1>1. CASE Start(j)
  BY <1>1 DEF Start, dirs
<1>2. CASE Staging(j)
  <2>1. CASE CheckOutput(j)
    BY <2>1 DEF CheckOutput
  <2>2. CASE MakeBuilding(j)
    BY <2>2 DEF MakeBuilding
  <2>3. CASE StageRows(j)
    BY <2>3 DEF StageRows
  <2>4. CASE WriteMarker(j)
    BY <2>4 DEF WriteMarker
  <2>5. CASE PublishCheckpoint(j)
    <3>1. temp[j] = "building"
      BY <2>5 DEF PublishCheckpoint
    <3>2. QED
      BY <2>5, <3>1 DEF PublishCheckpoint
  <2>6. CASE ResetDerived(j)
    <3>1. temp[j] = "checkpoint"
      BY <2>6 DEF ResetDerived
    <3>2. QED
      BY <2>6, <3>1 DEF ResetDerived
  <2>7. QED
    BY <1>2, <2>1, <2>2, <2>3, <2>4, <2>5, <2>6
       DEF Staging, Probe, AdoptCheckpoint, OpenForReset, dirs
<1>3. CASE Normalization(j)
  <2>1. ASSUME NEW tables, Tables(j, tables) PROVE temp[j] = p
    BY <2>1 DEF Tables
  <2>2. CASE CreateTable(j)
    BY <2>1, <2>2 DEF CreateTable
  <2>3. CASE CreateResolved(j)
    BY <2>1, <2>3 DEF CreateResolved
  <2>4. CASE FinishNormalization(j)
    BY <2>1, <2>4 DEF FinishNormalization
  <2>5. QED
    BY <1>3, <2>2, <2>3, <2>4 DEF Normalization, OpenStage, ValidateInput, dirs
<1>4. CASE Publication(j)
  <2>1. CASE Publish(j)
    BY <2>1 DEF Publish
  <2>2. CASE RemoveFile(j) \/ RemoveDirectory(j)
    <3>1. temp[j] = "checkpoint"
      BY <2>2 DEF RemoveFile, RemoveDirectory
    <3>2. QED
      BY <2>2, <3>1 DEF RemoveFile, RemoveDirectory
  <2>3. QED
    BY <1>4, <2>1, <2>2 DEF Publication, ReserveNormal, LinkNormal, SealNormal, ReadNormal,
                            CloneNormal, BuildCatalog, dirs
<1>5. CASE Stops(j)
  <2>1. CASE Abort(j)
    <3>1. p = Discarded(j)
      BY <2>1 DEF Abort
    <3>2. p # NONE
      BY NoneAssumption
    <3>3. QED
      BY <3>1, <3>2 DEF Discarded
  <2>2. CASE ~Abort(j)
    <3>1. stages' = (IF temp[j] = j THEN [stages EXCEPT ![j] = NONE] ELSE stages)
      BY <1>5, <2>2, StopsBy
    <3>2. QED
      BY <3>1
  <2>3. QED
    BY <2>1, <2>2
<1>6. QED
  BY <1>1, <1>2, <1>3, <1>4, <1>5 DEF JobStep

\* The stage at p keeps its origin, and else what it had.
SameOrigin(p) == stages[p] # NONE /\ stages'[p].of = stages[p].of
SameContents(p) ==
  SameOrigin(p) /\ stages'[p].rows = stages[p].rows /\ stages'[p].marker = stages[p].marker

\* What a step of j can have put into the directory p.
LEMMA Contents ==
  ASSUME TypeInv, PlaceInv, StageInv, LockInv, NEW j \in Jobs, JobStep(j),
         NEW p \in Places, stages'[p] # NONE
  PROVE  \/ SameContents(p)
         \/ /\ temp'[j] = p /\ pc'[j] = "stage" /\ (p = "building" => stages[p] = NONE)
            /\ stages'[p].of = cmd[j].manifest /\ stages'[p].marker = NONE
         \/ /\ temp[j] = p /\ pc[j] = "stage"
            /\ SameOrigin(p) /\ stages'[p].marker = stages[p].marker
            /\ pc'[j] # "stage" => stages'[p].rows = "all"
         \/ /\ temp[j] = p /\ pc[j] = "mark" /\ SameOrigin(p) /\ stages'[p].rows = stages[p].rows
            /\ stages'[p].marker.identity.manifest = cmd[j].manifest
         \/ p = "checkpoint" /\ PublishCheckpoint(j)
         \/ /\ temp[j] = p /\ pc[j] = "release" /\ SameOrigin(p)
            /\ stages'[p].rows = stages[p].rows \/ stages'[p].rows = "none"
            /\ stages'[p].marker = stages[p].marker \/ stages'[p].marker = NONE
<1> SUFFICES ASSUME stages'[p] # stages[p] PROVE
         \/ SameContents(p)
         \/ /\ temp'[j] = p /\ pc'[j] = "stage" /\ (p = "building" => stages[p] = NONE)
            /\ stages'[p].of = cmd[j].manifest /\ stages'[p].marker = NONE
         \/ /\ temp[j] = p /\ pc[j] = "stage"
            /\ SameOrigin(p) /\ stages'[p].marker = stages[p].marker
            /\ pc'[j] # "stage" => stages'[p].rows = "all"
         \/ /\ temp[j] = p /\ pc[j] = "mark" /\ SameOrigin(p) /\ stages'[p].rows = stages[p].rows
            /\ stages'[p].marker.identity.manifest = cmd[j].manifest
         \/ p = "checkpoint" /\ PublishCheckpoint(j)
         \/ /\ temp[j] = p /\ pc[j] = "release" /\ SameOrigin(p)
            /\ stages'[p].rows = stages[p].rows \/ stages'[p].rows = "none"
            /\ stages'[p].marker = stages[p].marker \/ stages'[p].marker = NONE
  BY DEF SameContents, SameOrigin
<1>1. ASSUME NEW tables, pc[j] \in Normalizing \cup {"reset"}, Linked(j),
             stages' = [stages EXCEPT ![temp[j]].tables = tables]
      PROVE  SameContents(p)
  <2>1. temp[j] \in Places /\ stages[temp[j]] \in Stage
    BY <1>1, OpenStageExists
  <2>2. stages[temp[j]] # NONE /\ p = temp[j]
    BY <1>1, <2>1, StageFacts DEF TypeInv
  <2>3. QED
    BY <1>1, <2>1, <2>2 DEF TypeInv, Stage, SameContents, SameOrigin
<1>2. CASE Start(j)
  BY <1>2 DEF Start, dirs
<1>3. CASE CheckOutput(j)
  <2>1. p = j /\ temp' = [temp EXCEPT ![j] = j] /\ pc' = [pc EXCEPT ![j] = "stage"]
        /\ stages' = [stages EXCEPT ![j] = NewStage(j, "none")]
    BY <1>3 DEF CheckOutput, TypeInv, Goto, Places
  <2>2. p # "building"
    BY <2>1, PlacesAssumption
  <2>3. QED
    BY <2>1, <2>2 DEF NewStage, TypeInv
<1>4. CASE MakeBuilding(j)
  BY <1>4, Checks DEF MakeBuilding, NewStage, TypeInv, Goto, At
<1>5. CASE StageRows(j)
  <2>1. temp[j] \in {"building", j} /\ pc[j] = "stage"
    BY <1>5 DEF StageRows, At, PlaceInv, JobPlace, Where
  <2>2. stages[temp[j]] \in Stage /\ stages[temp[j]] # NONE
    BY <2>1 DEF StageInv, TypeInv, Places
  <2>3. PICK rows \in {"some", "all"} :
          /\ stages' = [stages EXCEPT ![temp[j]].rows = rows]
          /\ IF rows = "some" THEN UNCHANGED pc
             ELSE Goto(j, IF cmd[j].checkpoint THEN "mark" ELSE "open")
    BY <1>5 DEF StageRows
  <2>4. p = temp[j] /\ stages'[p] = [stages[p] EXCEPT !.rows = rows]
    BY <2>1, <2>3 DEF TypeInv, Places
  <2>5. stages'[p].of = stages[p].of /\ stages'[p].marker = stages[p].marker
        /\ stages'[p].rows = rows
    BY <2>2, <2>4 DEF Stage
  <2>6. pc'[j] # "stage" => rows = "all"
    BY <2>1, <2>3
  <2>7. QED
    BY <2>1, <2>2, <2>4, <2>5, <2>6 DEF SameOrigin
<1>6. CASE WriteMarker(j)
  <2>1. temp[j] = "building" /\ pc[j] = "mark"
    BY <1>6 DEF WriteMarker, At, PlaceInv, JobPlace, Where
  <2>2. stages[temp[j]] \in Stage /\ stages[temp[j]] # NONE
    BY <2>1 DEF StageInv, TypeInv, Places
  <2>3. p = temp[j] /\ stages'[p] = [stages[p] EXCEPT !.marker =
          [identity |-> StageIdentity(cmd[j]), rows |-> StageOf(j).rows]]
    BY <1>6, <2>1 DEF WriteMarker, TypeInv, Places
  <2>4. stages'[p].of = stages[p].of /\ stages'[p].rows = stages[p].rows
        /\ stages'[p].marker = [identity |-> StageIdentity(cmd[j]), rows |-> StageOf(j).rows]
    BY <2>2, <2>3 DEF Stage
  <2>5. stages'[p].marker.identity.manifest = cmd[j].manifest
    BY <2>4 DEF StageIdentity
  <2>6. QED
    BY <2>1, <2>2, <2>3, <2>4, <2>5 DEF SameOrigin
<1>7. CASE PublishCheckpoint(j)
  BY <1>7 DEF PublishCheckpoint, TypeInv, Places
<1>8. CASE ResetDerived(j)
  <2>1. pc[j] = "reset" /\ temp[j] = "checkpoint"
    BY <1>8 DEF ResetDerived, At, PlaceInv, JobPlace, Where
  <2>2. Linked(j) /\ stages' = [stages EXCEPT ![temp[j]].tables = Reset(stages[temp[j]].tables)]
    BY <1>8, <2>1 DEF ResetDerived
  <2>3. QED
    BY <1>1, <2>1, <2>2
<1>9. CASE Normalization(j)
  <2>1. ASSUME NEW tables, pc[j] \in Normalizing, Tables(j, tables) PROVE SameContents(p)
    BY <1>1, <2>1 DEF Tables
  <2>2. CASE CreateTable(j)
    <3>1. PICK step \in {<<"resolved_keys", "keys", "endpoints">>,
                         <<"relationship_keys", "endpoints", "from">>,
                         <<"relationship_from", "from", "to">>} :
            pc[j] = step[2] /\ Tables(j, StageOf(j).tables \cup {step[1]})
      BY <2>2, Zenon DEF CreateTable, At
    <3>2. step[2] \in Normalizing
      BY DEF Normalizing
    <3>3. QED
      BY <2>1, <3>1, <3>2
  <2>3. CASE CreateResolved(j)
    BY <2>1, <2>3 DEF CreateResolved, At, Normalizing
  <2>4. CASE FinishNormalization(j)
    BY <2>1, <2>4 DEF FinishNormalization, At, Normalizing
  <2>5. QED
    BY <1>9, <2>2, <2>3, <2>4 DEF Normalization, OpenStage, ValidateInput, dirs
<1>10. CASE RemoveFile(j)
  <2>1. temp[j] = "checkpoint" /\ pc[j] = "release" /\ stages["checkpoint"] # NONE
    BY <1>10 DEF RemoveFile, At, StageOf, PlaceInv, JobPlace, Where
  <2>2. p = "checkpoint" /\ stages[p] \in Stage
    BY <1>10, <2>1 DEF RemoveFile, TypeInv
  <2>3. CASE stages' = [stages EXCEPT !["checkpoint"].marker = NONE]
    <3>1. stages'[p] = [stages[p] EXCEPT !.marker = NONE]
      BY <2>2, <2>3 DEF TypeInv
    <3>2. QED
      BY <2>1, <2>2, <3>1 DEF Stage, SameOrigin
  <2>4. CASE stages' = [stages EXCEPT !["checkpoint"].rows = "none", !["checkpoint"].tables = {}]
    <3>1. stages'[p] = [stages[p] EXCEPT !.rows = "none", !.tables = {}]
      BY <2>2, <2>4 DEF TypeInv
    <3>2. QED
      BY <2>1, <2>2, <3>1 DEF Stage, SameOrigin
  <2>5. QED
    BY <1>10, <2>3, <2>4 DEF RemoveFile
<1>11. CASE (Publish(j) \/ RemoveDirectory(j)) /\ ~RemoveFile(j)
  BY <1>11 DEF Publish, RemoveDirectory, TypeInv, Places
<1>12. CASE Stops(j)
  BY <1>12, StopsBy DEF Abort, TypeInv
<1>13. QED
  BY <1>2, <1>3, <1>4, <1>5, <1>6, <1>7, <1>8, <1>9, <1>10, <1>11, <1>12
     DEF JobStep, Staging, Publication, Probe, AdoptCheckpoint, OpenForReset, ReserveNormal,
         LinkNormal, SealNormal, ReadNormal, CloneNormal, BuildCatalog, dirs

\* A stage goes with the job that has it, or under the name of the checkpoint.
LEMMA Removal ==
  ASSUME TypeInv, PlaceInv, StageInv, LockInv, NEW j \in Jobs, JobStep(j),
         NEW p \in Places, stages[p] # NONE, stages'[p] = NONE
  PROVE  Gone(j) \/ (p = "building" /\ PublishCheckpoint(j))
<1>1. ASSUME NEW tables \in SUBSET Derived, pc[j] \in Normalizing \cup {"reset"}, Linked(j),
             stages' = [stages EXCEPT ![temp[j]].tables = tables]
      PROVE  FALSE
  <2>1. temp[j] \in Places /\ stages[temp[j]] \in Stage
    BY <1>1, OpenStageExists
  <2>2. [stages[temp[j]] EXCEPT !.tables = tables] \in Stage
    BY <2>1, StageFacts
  <2>3. QED
    BY <1>1, <2>1, <2>2, NoneAssumption DEF TypeInv
<1>2. ASSUME Linked(j), pc[j] \in Normalizing \cup {"reset"} PROVE StageOf(j).tables \subseteq Derived
  BY <1>2, OpenStageExists, StageFacts DEF StageOf
<1>3. CASE Start(j)
  BY <1>3 DEF Start, dirs
<1>4. CASE CheckOutput(j) \/ MakeBuilding(j)
  <2>1. cmd[j] \in Commands
    BY <1>4 DEF CheckOutput, MakeBuilding, At, PlaceInv, JobPlace, Idle
  <2>2. NewStage(j, "none") # NONE
    BY <2>1, StageFacts, NoneAssumption
  <2>3. \/ stages' = stages
        \/ stages' = [stages EXCEPT ![j] = NewStage(j, "none")]
        \/ stages' = [stages EXCEPT !["building"] = NewStage(j, "none")]
    BY <1>4 DEF CheckOutput, MakeBuilding
  <2>4. QED
    BY <2>2, <2>3 DEF TypeInv
<1>5. CASE StageRows(j)
  <2>1. temp[j] \in {"building", j}
    BY <1>5 DEF StageRows, At, PlaceInv, JobPlace, Where
  <2>2. stages[temp[j]] \in Stage /\ temp[j] \in Places
    BY <2>1 DEF StageInv, TypeInv, Places
  <2>3. PICK rows \in {"some", "all"} : stages' = [stages EXCEPT ![temp[j]].rows = rows]
    BY <1>5 DEF StageRows
  <2>4. [stages[temp[j]] EXCEPT !.rows = rows] \in Stage
    BY <2>2, StageFacts
  <2>5. QED
    BY <2>2, <2>3, <2>4, NoneAssumption DEF TypeInv
<1>6. CASE WriteMarker(j)
  <2>1. temp[j] = "building" /\ cmd[j] \in Commands
    BY <1>6 DEF WriteMarker, At, PlaceInv, JobPlace, Where, Idle
  <2>2. stages["building"] \in Stage /\ "building" \in Places
    BY <2>1 DEF StageInv, TypeInv, Places
  <2>3. StageIdentity(cmd[j]) \in Identity
    BY <2>1, CommandFacts DEF StageIdentity, Identity
  <2>4. [stages["building"] EXCEPT !.marker =
           [identity |-> StageIdentity(cmd[j]), rows |-> StageOf(j).rows]] \in Stage
    BY <2>1, <2>2, <2>3, StageFacts DEF StageOf
  <2>5. QED
    BY <1>6, <2>1, <2>2, <2>4, NoneAssumption DEF WriteMarker, TypeInv
<1>7. CASE PublishCheckpoint(j)
  <2>1. stages["building"] # NONE
    BY <1>7 DEF PublishCheckpoint, At, PlaceInv, JobPlace, Where, StageInv
  <2>2. QED
    BY <1>7, <2>1 DEF PublishCheckpoint, TypeInv, Places
<1>8. CASE ResetDerived(j)
  <2>1. pc[j] = "reset" /\ temp[j] = "checkpoint"
    BY <1>8 DEF ResetDerived, At, PlaceInv, JobPlace, Where
  <2>2. Linked(j) /\ stages' = [stages EXCEPT ![temp[j]].tables = Reset(stages[temp[j]].tables)]
    BY <1>8, <2>1 DEF ResetDerived
  <2>3. QED
    BY <1>1, <1>2, <2>1, <2>2 DEF Reset, StageOf
<1>9. CASE Normalization(j)
  <2>1. ASSUME NEW tables, pc[j] \in Normalizing, Linked(j) => tables \subseteq Derived,
               Tables(j, tables)
        PROVE  FALSE
    BY <1>1, <2>1 DEF Tables
  <2>2. CASE CreateTable(j)
    <3>1. PICK step \in {<<"resolved_keys", "keys", "endpoints">>,
                         <<"relationship_keys", "endpoints", "from">>,
                         <<"relationship_from", "from", "to">>} :
            pc[j] = step[2] /\ Tables(j, StageOf(j).tables \cup {step[1]})
      BY <2>2, Zenon DEF CreateTable, At
    <3>2. step[2] \in Normalizing /\ step[1] \in Derived
      BY DEF Normalizing, Derived
    <3>3. QED
      BY <1>2, <2>1, <3>1, <3>2
  <2>3. CASE CreateResolved(j)
    BY <1>2, <2>1, <2>3 DEF CreateResolved, At, Normalizing, Derived
  <2>4. CASE FinishNormalization(j)
    BY <1>2, <2>1, <2>4 DEF FinishNormalization, At, Normalizing
  <2>5. QED
    BY <1>9, <2>2, <2>3, <2>4 DEF Normalization, OpenStage, ValidateInput, dirs
<1>10. CASE RemoveFile(j)
  <2>1. p = "checkpoint" /\ stages[p] \in Stage
    BY <1>10 DEF RemoveFile, TypeInv
  <2>2. stages'[p] \in Stage
    <3>1. [stages[p] EXCEPT !.marker = NONE] \in Stage /\ [stages[p] EXCEPT !.rows = "none"] \in Stage
      BY <2>1, StageFacts
    <3>2. [[stages[p] EXCEPT !.rows = "none"] EXCEPT !.tables = {}] \in Stage
      BY <3>1, StageFacts
    <3>3. [stages[p] EXCEPT !.rows = "none", !.tables = {}] \in Stage
      BY <3>2
    <3>4. stages'[p] = [stages[p] EXCEPT !.marker = NONE]
          \/ stages'[p] = [stages[p] EXCEPT !.rows = "none", !.tables = {}]
      BY <1>10, <2>1 DEF RemoveFile, TypeInv
    <3>5. QED
      BY <3>1, <3>3, <3>4
  <2>3. QED
    BY <2>2, NoneAssumption
<1>11. CASE Publish(j) \/ RemoveDirectory(j) \/ Stops(j)
  BY <1>11, Ways DEF Publish, JobStep
<1>12. QED
  BY <1>3, <1>4, <1>5, <1>6, <1>7, <1>8, <1>9, <1>10, <1>11
     DEF JobStep, Staging, Publication, Probe, AdoptCheckpoint, OpenForReset, ReserveNormal,
         LinkNormal, SealNormal, ReadNormal, CloneNormal, BuildCatalog, dirs

\* How a job comes to a directory, and how it goes on from staging.
LEMMA Moves ==
  ASSUME TypeInv, PlaceInv, NEW j \in Jobs, JobStep(j)
  PROVE  /\ \/ temp'[j] = temp[j]
            \/ temp'[j] = NONE
            \/ CheckOutput(j) /\ temp'[j] = j
            \/ MakeBuilding(j) /\ temp'[j] = "building"
            \/ (PublishCheckpoint(j) \/ AdoptCheckpoint(j)) /\ temp'[j] = "checkpoint"
         /\ pc[j] = "stage" => StageRows(j) \/ Gone(j)
<1> USE DEF TypeInv, At, Goto
<1>1. CASE Start(j)
  BY <1>1 DEF Start, Idle
<1>2. CASE Staging(j)
  BY <1>2 DEF Staging, CheckOutput, Probe, MakeBuilding, StageRows, WriteMarker, PublishCheckpoint,
              AdoptCheckpoint, OpenForReset, ResetDerived, locals
<1>3. CASE Normalization(j)
  <2>1. CASE CreateTable(j)
    <3>1. PICK step \in {<<"resolved_keys", "keys", "endpoints">>,
                         <<"relationship_keys", "endpoints", "from">>,
                         <<"relationship_from", "from", "to">>} : pc[j] = step[2]
      BY <2>1, Zenon DEF CreateTable
    <3>2. QED
      BY <2>1, <3>1 DEF CreateTable, locals
  <2>2. CASE ~CreateTable(j)
    BY <1>3, <2>2 DEF Normalization, OpenStage, ValidateInput, CreateResolved, FinishNormalization,
                      locals
  <2>3. QED
    BY <2>1, <2>2
<1>4. CASE Publication(j)
  <2>1. CASE Publish(j)
    BY <2>1 DEF Publish, Leave
  <2>2. CASE ~Publish(j)
    BY <1>4, <2>2 DEF Publication, ReserveNormal, LinkNormal, SealNormal, ReadNormal, CloneNormal,
                      BuildCatalog, RemoveFile, RemoveDirectory, locals
  <2>3. QED
    BY <2>1, <2>2
<1>5. CASE Stops(j)
  BY <1>5, Ways DEF Gone
<1>6. QED
  BY <1>1, <1>2, <1>3, <1>4, <1>5 DEF JobStep

\* What a job that stages, or stages elsewhere than at the checkpoint, has there.
JobStage(i) ==
  temp[i] \in {"building", i} =>
    /\ stages[temp[i]] # NONE /\ stages[temp[i]].of = cmd[i].manifest
    /\ pc[i] # "stage" => stages[temp[i]].rows = "all"

LEMMA OneBuilds ==
  ASSUME IInv, NEW j \in Jobs, JobStep(j), NEW i \in Jobs, NEW k \in Jobs,
         temp'[i] = "building", temp'[k] = "building"
  PROVE  i = k
<1>1. ASSUME NEW l \in Jobs, temp'[l] = "building", temp[l] # "building"
      PROVE  l = j /\ stages["building"] = NONE
  <2>1. l = j
    BY <1>1, Others DEF IInv
  <2>2. MakeBuilding(j)
    BY <1>1, <2>1, Moves, NoneAssumption, PlacesAssumption DEF IInv, Places
  <2>3. QED
    BY <2>1, <2>2, Checks DEF MakeBuilding, At
<1>2. QED
  BY <1>1 DEF IInv, StageInv

LEMMA OthersStage ==
  ASSUME IInv, NEW j \in Jobs, JobStep(j), NEW i \in Jobs, i # j
  PROVE  JobStage(i)'
<1>1. SUFFICES ASSUME temp[i] \in {"building", i} PROVE JobStage(i)'
  BY Others DEF IInv, JobStage
<1>2. stages[temp[i]] # NONE /\ temp[i] \in Places /\ JobStage(i)
  BY <1>1 DEF IInv, StageInv, JobStage, Places
<1>3. temp[j] # temp[i]
  <2>1. temp[i] = "building" => temp[j] # "building"
    BY DEF IInv, StageInv
  <2>2. temp[j] # i
    BY NoneAssumption, PlacesAssumption DEF IInv, PlaceInv, JobPlace, Where
  <2>3. QED
    BY <1>1, <2>1, <2>2
<1>4. stages'[temp[i]] = stages[temp[i]]
  <2>1. temp[i] # "checkpoint" /\ temp[i] # j
    BY <1>1, PlacesAssumption
  <2>2. MakeBuilding(j) => stages["building"] = NONE
    BY Checks DEF MakeBuilding, At
  <2>3. QED
    BY <1>2, <1>3, <2>1, <2>2, StagesOf DEF IInv
<1>5. QED
  BY <1>2, <1>4, Others DEF JobStage, IInv

LEMMA OwnStage ==
  ASSUME IInv, NEW j \in Jobs, JobStep(j), JobPlace(j)'
  PROVE  JobStage(j)'
<1>1. SUFFICES ASSUME temp'[j] \in {"building", j} PROVE JobStage(j)'
  BY DEF JobStage
<1> DEFINE p == temp'[j]
<1>2. p \in Places /\ p # NONE /\ p # "checkpoint"
  BY <1>1, NoneAssumption, PlacesAssumption DEF Places
<1>3. ~Gone(j)
  BY <1>2 DEF Gone, IInv, TypeInv
<1>4. cmd'[j] = cmd[j]
  <2>1. CASE Start(j)
    BY <1>2, <2>1 DEF Start, locals, IInv, PlaceInv, JobPlace, Where, Idle
  <2>2. CASE ~Start(j)
    BY <1>3, <2>2, Ways DEF JobStep, Continues, IInv
  <2>3. QED
    BY <2>1, <2>2
<1>5. CASE CheckOutput(j) \/ MakeBuilding(j)
  <2>1. stages'[p] = NewStage(j, "none") /\ pc'[j] = "stage"
    <3>1. CASE CheckOutput(j)
      <4>1. temp[j] = NONE
        BY <3>1 DEF CheckOutput, At, IInv, PlaceInv, JobPlace, Where
      <4>2. QED
        BY <1>2, <3>1, <4>1 DEF CheckOutput, Goto, IInv, TypeInv
    <3>2. CASE MakeBuilding(j)
      BY <1>2, <3>2 DEF MakeBuilding, Goto, IInv, TypeInv
    <3>3. QED
      BY <1>5, <3>1, <3>2
  <2>2. cmd[j] \in Commands
    BY <1>5 DEF CheckOutput, MakeBuilding, At, IInv, PlaceInv, JobPlace, Idle
  <2>3. NewStage(j, "none") # NONE
    BY <2>2, StageFacts, NoneAssumption
  <2>4. QED
    BY <1>4, <2>1, <2>3 DEF JobStage, NewStage
<1>6. CASE ~CheckOutput(j) /\ ~MakeBuilding(j)
  <2>1. temp[j] = p
    BY <1>2, <1>6, Moves DEF IInv
  <2>2. stages[p] # NONE /\ stages[p].of = cmd[j].manifest /\ (pc[j] # "stage" => stages[p].rows = "all")
    BY <1>1, <2>1 DEF IInv, StageInv
  <2>3. ~PublishCheckpoint(j)
    BY <1>2 DEF PublishCheckpoint, IInv, TypeInv
  <2>4. stages'[p] # NONE
    BY <1>2, <1>3, <2>2, <2>3, Removal DEF IInv
  <2>5. pc[j] # "release"
    BY <1>2, <2>1 DEF IInv, PlaceInv, JobPlace, Where
  <2>6. stages'[p].of = cmd[j].manifest
    BY <1>2, <2>2, <2>3, <2>4, <2>5, Contents DEF IInv, SameContents, SameOrigin
  <2>7. ASSUME pc'[j] # "stage" PROVE stages'[p].rows = "all"
    <3>1. CASE pc[j] = "stage"
      <4>1. StageRows(j)
        BY <1>3, <3>1, Moves DEF IInv
      <4>2. stages' = [stages EXCEPT ![temp[j]].rows = "all"]
        BY <2>7, <3>1, <4>1 DEF StageRows
      <4>3. stages[p] \in Stage
        BY <1>2, <2>2 DEF IInv, TypeInv
      <4>4. QED
        BY <1>2, <2>1, <4>2, <4>3 DEF IInv, TypeInv, Stage
    <3>2. CASE pc[j] # "stage"
      <4>1. stages[p].rows = "all"
        BY <2>2, <3>2
      <4>2. QED
        BY <1>2, <2>3, <2>4, <2>5, <2>7, <3>2, <4>1, Contents DEF IInv, SameContents
    <3>3. QED
      BY <3>1, <3>2
  <2>8. QED
    BY <1>4, <2>4, <2>6, <2>7 DEF JobStage
<1>7. QED
  BY <1>5, <1>6

LEMMA RenamedStage ==
  ASSUME IInv, NEW j \in Jobs, PublishCheckpoint(j)
  PROVE  /\ temp[j] = "building" /\ pc[j] = "rename" /\ stages["building"] # NONE
         /\ stages'["checkpoint"] = stages["building"] /\ stages["checkpoint"] = NONE
         /\ stages["building"].of = cmd[j].manifest /\ stages["building"].rows = "all"
         /\ cmd[j].checkpoint /\ ~cmd[j].resume /\ ~Idle(j) /\ cmd' = cmd
<1>1. pc[j] = "rename" /\ stages["checkpoint"] = NONE
  BY Checks DEF PublishCheckpoint, At
<1>2. temp[j] = "building" /\ cmd[j].checkpoint /\ ~cmd[j].resume
  BY <1>1 DEF IInv, PlaceInv, JobPlace, Where
<1>3. stages["building"] # NONE /\ stages["building"].of = cmd[j].manifest
      /\ stages["building"].rows = "all"
  BY <1>1, <1>2 DEF IInv, StageInv
<1>4. stages'["checkpoint"] = stages["building"] /\ cmd' = cmd
  BY DEF PublishCheckpoint, IInv, TypeInv, Places
<1>5. QED
  BY <1>1, <1>2, <1>3, <1>4 DEF Idle

LEMMA AdoptedStage ==
  ASSUME IInv, NEW j \in Jobs, AdoptCheckpoint(j)
  PROVE  stages["checkpoint"] # NONE /\ stages["checkpoint"].of = cmd[j].manifest
<1> DEFINE s == stages["checkpoint"]
<1>1. s # NONE /\ s.marker # NONE /\ IdentityMatches(cmd[j], s.marker.identity) /\ pc[j] = "adopt"
  BY Checks DEF AdoptCheckpoint, At
<1>2. "checkpoint" \in Places
  BY DEF Places
<1>3. s.marker.identity \in Identity /\ s.marker.identity.manifest = s.of
  BY <1>1, <1>2, StageFacts DEF IInv, TypeInv, StageInv
<1>4. cmd[j] \in Command
  BY <1>1, CommandFacts DEF IInv, PlaceInv, JobPlace, Idle
<1>5. QED
  BY <1>1, <1>3, <1>4, AdoptedManifest

\* A checkpoint is complete, or its rows are being removed; the jobs that use
\* it build its manifest.
CheckpointStage ==
  stages["checkpoint"] # NONE =>
    /\ stages["checkpoint"].rows \in {"none", "all"}
    /\ \A j \in Jobs : temp[j] = "checkpoint" => stages["checkpoint"].of = cmd[j].manifest

LEMMA CheckpointStep ==
  ASSUME IInv, PlaceInv', NEW j \in Jobs, JobStep(j)
  PROVE  CheckpointStage'
<1> DEFINE p == "checkpoint"
<1>1. SUFFICES ASSUME stages'[p] # NONE PROVE CheckpointStage'
  BY DEF CheckpointStage
<1>2. p \in Places /\ p # NONE /\ p # "building" /\ p # j
  BY NoneAssumption, PlacesAssumption DEF Places
<1>3. CASE PublishCheckpoint(j)
  <2>1. ASSUME NEW i \in Jobs, temp'[i] = p PROVE stages'[p].of = cmd'[i].manifest
    <3>1. ~Idle(i)' /\ cmd'[i].checkpoint
      BY <1>2, <2>1, PlacesAssumption DEF PlaceInv, JobPlace, Where, Idle
    <3>2. ~Idle(i) /\ cmd[i].checkpoint /\ cmd'[i] = cmd[i]
      BY <1>3, <3>1, RenamedStage, Others DEF Idle, IInv
    <3>3. cmd[i].manifest = cmd[j].manifest
      BY <1>3, <3>2, RenamedStage DEF IInv, PathInv
    <3>4. QED
      BY <1>3, <3>2, <3>3, RenamedStage
  <2>2. stages'[p].rows = "all"
    BY <1>3, RenamedStage
  <2>3. QED
    BY <2>1, <2>2 DEF CheckpointStage
<1>4. CASE ~PublishCheckpoint(j)
  <2>1. temp'[j] = p => pc'[j] # "stage"
    BY <1>2 DEF PlaceInv, JobPlace, Where
  <2>2. temp[j] = p => pc[j] \notin {"stage", "mark"}
    BY <1>2 DEF IInv, PlaceInv, JobPlace, Where
  <2>3. SameOrigin(p) /\ (stages'[p].rows = stages[p].rows \/ stages'[p].rows = "none")
    BY <1>1, <1>2, <1>4, <2>1, <2>2, Contents DEF IInv, SameContents, SameOrigin
  <2>4. stages'[p].rows \in {"none", "all"}
    BY <2>3 DEF SameOrigin, IInv, StageInv
  <2>5. ASSUME NEW i \in Jobs, temp'[i] = p PROVE stages'[p].of = cmd'[i].manifest
    <3>1. CASE temp[i] = p
      <4>1. stages[p].of = cmd[i].manifest
        BY <2>3, <3>1 DEF SameOrigin, IInv, StageInv
      <4>2. cmd'[i] = cmd[i]
        <5>1. CASE i # j
          BY <5>1, Others DEF IInv
        <5>2. CASE i = j
          <6>1. ~Gone(j) /\ ~Start(j)
            BY <1>2, <2>5, <3>1, <5>2 DEF Gone, Start, IInv, TypeInv, PlaceInv, JobPlace, Where, Idle
          <6>2. QED
            BY <5>2, <6>1, Ways DEF JobStep, Continues, IInv
        <5>3. QED
          BY <5>1, <5>2
      <4>3. QED
        BY <2>3, <4>1, <4>2 DEF SameOrigin
    <3>2. CASE temp[i] # p
      <4>1. i = j
        BY <2>5, <3>2, Others DEF IInv
      <4>2. AdoptCheckpoint(j)
        BY <1>2, <1>4, <2>5, <3>2, <4>1, Moves DEF IInv
      <4>3. cmd' = cmd
        BY <4>2 DEF AdoptCheckpoint
      <4>4. QED
        BY <2>3, <4>1, <4>2, <4>3, AdoptedStage DEF SameOrigin
    <3>3. QED
      BY <3>1, <3>2
  <2>6. QED
    BY <2>4, <2>5 DEF CheckpointStage
<1>5. QED
  BY <1>3, <1>4

\* A marker names the manifest that was staged.
MarkerStage(p) ==
  stages[p] # NONE /\ stages[p].marker # NONE => stages[p].marker.identity.manifest = stages[p].of

LEMMA MarkerStep ==
  ASSUME IInv, NEW j \in Jobs, JobStep(j), NEW p \in Places
  PROVE  MarkerStage(p)'
<1>1. SUFFICES ASSUME stages'[p] # NONE, stages'[p].marker # NONE PROVE MarkerStage(p)'
  BY DEF MarkerStage
<1>2. CASE p = "checkpoint" /\ PublishCheckpoint(j)
  <2>1. stages'[p] = stages["building"] /\ stages["building"] # NONE /\ "building" \in Places
    BY <1>2, RenamedStage DEF Places
  <2>2. QED
    BY <1>1, <2>1 DEF MarkerStage, IInv, StageInv
<1>3. CASE ~(p = "checkpoint" /\ PublishCheckpoint(j))
  <2>1. CASE temp[j] = p /\ pc[j] = "mark" /\ SameOrigin(p)
             /\ stages'[p].marker.identity.manifest = cmd[j].manifest
    <3>1. temp[j] = "building"
      BY <2>1 DEF IInv, PlaceInv, JobPlace, Where
    <3>2. stages[p].of = cmd[j].manifest
      BY <2>1, <3>1 DEF IInv, StageInv
    <3>3. QED
      BY <2>1, <3>2 DEF MarkerStage, SameOrigin
  <2>2. CASE SameOrigin(p) /\ stages'[p].marker = stages[p].marker
    BY <1>1, <2>2 DEF MarkerStage, SameOrigin, IInv, StageInv
  <2>3. QED
    BY <1>1, <1>3, <2>1, <2>2, Contents DEF IInv, SameContents
<1>4. QED
  BY <1>2, <1>3

LEMMA StageStep ==
  ASSUME IInv, PlaceInv', [Next]_vars
  PROVE  StageInv'
<1>1. ASSUME NEW j \in Jobs, JobStep(j) PROVE StageInv'
  <2>1. \A i \in Jobs : JobStage(i)'
    BY <1>1, OthersStage, OwnStage DEF PlaceInv
  <2>2. \A p \in Places : MarkerStage(p)'
    BY <1>1, MarkerStep
  <2>3. CheckpointStage'
    BY <1>1, CheckpointStep
  <2>4. \A i, k \in Jobs : temp'[i] = "building" /\ temp'[k] = "building" => i = k
    BY <1>1, OneBuilds
  <2>5. QED
    BY <2>1, <2>2, <2>3, <2>4 DEF StageInv, JobStage, MarkerStage, CheckpointStage
<1>2. CASE RemoveLeftover
  <2>1. \A j \in Jobs : temp'[j] = NONE
    BY <1>2 DEF RemoveLeftover, locals, Idle, IInv, PlaceInv, JobPlace, Where
  <2>2. \A p \in Places : stages'[p] = stages[p] \/ stages'[p] = NONE
    BY <1>2 DEF RemoveLeftover, IInv, TypeInv
  <2>3. NONE # "building" /\ NONE # "checkpoint" /\ NONE \notin Jobs /\ "checkpoint" \in Places
    BY NoneAssumption DEF Places
  <2>4. \A p \in Places : MarkerStage(p)'
    BY <2>2 DEF MarkerStage, IInv, StageInv
  <2>5. CheckpointStage'
    BY <2>1, <2>2, <2>3 DEF CheckpointStage, IInv, StageInv
  <2>6. QED
    BY <2>1, <2>3, <2>4, <2>5 DEF StageInv, MarkerStage, CheckpointStage
<1>3. CASE UNCHANGED vars
  BY <1>3 DEF IInv, StageInv, vars, dirs, locals
<1>4. QED
  BY <1>1, <1>2, <1>3, NextCases

-----------------------------------------------------------------------------
(* Locks and open inputs.                                                  *)

\* What a step does to the lock: a job takes it when it is free, gives up its
\* own, or unlinks the database behind it.
LEMMA Locks ==
  ASSUME TypeInv, PlaceInv, NEW j \in Jobs, JobStep(j)
  PROVE  \/ lock' = lock /\ orphans' = orphans
         \/ /\ lock = NONE /\ lock' = j /\ orphans' = orphans
            /\ stages' = stages /\ stages["checkpoint"] # NONE
         \/ lock' = (IF lock = j THEN NONE ELSE lock) /\ orphans' = orphans \ {j}
         \/ lock' = NONE /\ (orphans \cup ({lock} \ {NONE})) \ {j} \subseteq orphans'
<1>1. ASSUME NEW place, Leave(j, place)
      PROVE  \/ lock' = (IF lock = j THEN NONE ELSE lock) /\ orphans' = orphans \ {j}
             \/ lock' = NONE /\ (orphans \cup ({lock} \ {NONE})) \ {j} \subseteq orphans'
  BY <1>1 DEF Leave, Unlinked
<1>2. CASE Start(j)
  BY <1>2 DEF Start, locks
<1>3. CASE Staging(j)
  <2>1. CASE OpenForReset(j)
    <3>1. pc[j] = "inspect" /\ lock = NONE /\ StageOf(j) # NONE
      BY <2>1, Checks DEF OpenForReset, At
    <3>2. temp[j] = "checkpoint"
      BY <3>1 DEF PlaceInv, JobPlace, Where
    <3>3. QED
      BY <2>1, <3>1, <3>2 DEF OpenForReset, StageOf, dirs
  <2>2. CASE ResetDerived(j)
    BY <2>2 DEF ResetDerived
  <2>3. QED
    BY <1>3, <2>1, <2>2 DEF Staging, CheckOutput, Probe, MakeBuilding, StageRows, WriteMarker,
                            PublishCheckpoint, AdoptCheckpoint, locks
<1>4. CASE Normalization(j)
  <2>1. CASE OpenStage(j)
    <3>1. StageOf(j) # NONE /\ (temp[j] = "checkpoint" => lock = NONE)
      BY <2>1, Checks DEF OpenStage, At
    <3>2. QED
      BY <2>1, <3>1 DEF OpenStage, StageOf, dirs
  <2>2. QED
    BY <1>4, <2>1 DEF Normalization, ValidateInput, CreateTable, CreateResolved,
                      FinishNormalization, locks
<1>5. CASE Publication(j)
  <2>1. CASE Publish(j)
    BY <1>1, <2>1 DEF Publish, locks
  <2>2. CASE RemoveFile(j)
    BY <2>2 DEF RemoveFile, Unlinked, locks
  <2>3. CASE RemoveDirectory(j)
    BY <2>3 DEF RemoveDirectory, Unlinked
  <2>4. QED
    BY <1>5, <2>1, <2>2, <2>3 DEF Publication, ReserveNormal, LinkNormal, SealNormal, ReadNormal,
                                  CloneNormal, BuildCatalog, locks
<1>6. CASE Stops(j)
  BY <1>1, <1>6, StopsBy DEF Abort
<1>7. QED
  BY <1>2, <1>3, <1>4, <1>5, <1>6 DEF JobStep

\* How a job comes to have a database open.
LEMMA Entering ==
  ASSUME TypeInv, NEW j \in Jobs, JobStep(j), pc'[j] \in Normalizing \cup {"reset"}
  PROVE  \/ OpenForReset(j)
         \/ OpenStage(j)
         \/ /\ UNCHANGED <<locals, locks>> /\ pc[j] \in Normalizing /\ pc'[j] \in Normalizing
            /\ pc[j] = "validate" => Possible(j)
<1> USE DEF TypeInv, Goto, At, Normalizing
<1>1. CASE Start(j)
  BY <1>1 DEF Start
<1>2. CASE Staging(j)
  BY <1>2 DEF Staging, CheckOutput, Probe, MakeBuilding, StageRows, WriteMarker, PublishCheckpoint,
              AdoptCheckpoint, ResetDerived
<1>3. CASE Normalization(j)
  <2>1. CASE CreateTable(j)
    <3>1. PICK step \in {<<"resolved_keys", "keys", "endpoints">>,
                         <<"relationship_keys", "endpoints", "from">>,
                         <<"relationship_from", "from", "to">>} :
            pc[j] = step[2] /\ pc' = [pc EXCEPT ![j] = step[3]]
      BY <2>1, Zenon DEF CreateTable
    <3>2. QED
      BY <2>1, <3>1 DEF CreateTable
  <2>2. CASE ~CreateTable(j)
    BY <1>3, <2>2 DEF Normalization, ValidateInput, CreateResolved, FinishNormalization
  <2>3. QED
    BY <2>1, <2>2
<1>4. CASE Publication(j)
  <2>1. CASE Publish(j)
    BY <2>1 DEF Publish, Leave
  <2>2. CASE ~Publish(j)
    BY <1>4, <2>2 DEF Publication, ReserveNormal, LinkNormal, SealNormal, ReadNormal, CloneNormal,
                      BuildCatalog, RemoveFile, RemoveDirectory
  <2>3. QED
    BY <2>1, <2>2
<1>5. CASE Stops(j)
  <2>1. PICK place : Leave(j, place)
    BY <1>5, StopsBy DEF Abort
  <2>2. QED
    BY <2>1 DEF Leave
<1>6. QED
  BY <1>1, <1>2, <1>3, <1>4, <1>5 DEF JobStep

\* A job ends by its own doing, and another one cannot take its directory.
LEMMA Ends ==
  ASSUME TypeInv, NEW j \in Jobs, JobStep(j), temp[j] # NONE, temp'[j] = NONE
  PROVE  Stops(j) \/ (Publish(j) /\ ~ReleasesCheckpoint(cmd[j])) \/ RemoveDirectory(j)
<1>1. "checkpoint" # NONE /\ "building" # NONE /\ j # NONE
  BY NoneAssumption DEF Places
<1> USE <1>1 DEF TypeInv, locals
<1>2. CASE Start(j)
  BY <1>2 DEF Start
<1>3. CASE Staging(j)
  BY <1>3 DEF Staging, CheckOutput, Probe, MakeBuilding, StageRows, WriteMarker, PublishCheckpoint,
              AdoptCheckpoint, OpenForReset, ResetDerived
<1>4. CASE Normalization(j)
  BY <1>4 DEF Normalization, OpenStage, ValidateInput, CreateTable, CreateResolved,
              FinishNormalization
<1>5. CASE Publication(j)
  BY <1>5 DEF Publication, ReserveNormal, LinkNormal, SealNormal, ReadNormal, CloneNormal,
              BuildCatalog, Publish, RemoveFile
<1>6. QED
  BY <1>2, <1>3, <1>4, <1>5 DEF JobStep

LEMMA LockStep ==
  ASSUME IInv, [Next]_vars
  PROVE  LockInv'
<1>1. ASSUME NEW j \in Jobs, JobStep(j) PROVE LockInv'
  <2>1. ASSUME lock' # NONE PROVE stages'["checkpoint"] # NONE
    <3>1. SUFFICES ASSUME lock' = lock, stages["checkpoint"] # NONE, stages'["checkpoint"] = NONE
                   PROVE  FALSE
      BY <1>1, <2>1, Locks DEF IInv, LockInv
    <3>2. "checkpoint" \in Places /\ "checkpoint" # j /\ "checkpoint" # "building"
      BY PlacesAssumption DEF Places
    <3>3. temp[j] = "checkpoint"
      BY <1>1, <3>1, <3>2, StagesOf, RenamedStage DEF IInv
    <3>4. Gone(j)
      BY <1>1, <3>1, <3>2, Removal DEF IInv
    <3>5. temp'[j] = NONE /\ temp[j] # NONE
      BY <3>3, <3>4, NoneAssumption DEF Gone, IInv, TypeInv, Places
    <3>6. CASE Publish(j)
      BY <3>1, <3>2, <3>6 DEF Publish, IInv, TypeInv
    <3>7. CASE RemoveDirectory(j)
      BY <2>1, <3>7 DEF RemoveDirectory
    <3>8. CASE Stops(j)
      <4>1. CASE Abort(j)
        <5>1. Discarded(j) = "checkpoint"
          BY <3>1, <3>2, <4>1 DEF Abort, IInv, TypeInv
        <5>2. QED
          BY <2>1, <4>1, <5>1 DEF Abort, Leave
      <4>2. CASE ~Abort(j)
        BY <3>1, <3>2, <3>8, <4>2, StopsBy DEF IInv, TypeInv
      <4>3. QED
        BY <4>1, <4>2
    <3>9. QED
      BY <1>1, <3>5, <3>6, <3>7, <3>8, Ends DEF IInv
  <2>2. ASSUME NEW i \in Jobs, i # j, temp'[i] = "checkpoint", pc'[i] \in Normalizing \cup {"reset"}
        PROVE  lock' = i \/ i \in orphans'
    <3>1. lock = i \/ i \in orphans
      BY <1>1, <2>2, Others DEF IInv, LockInv
    <3>2. i # NONE
      BY NoneAssumption
    <3>3. QED
      BY <1>1, <2>2, <3>1, <3>2, Locks DEF IInv
  <2>3. ASSUME temp'[j] = "checkpoint", pc'[j] \in Normalizing \cup {"reset"}
        PROVE  lock' = j \/ j \in orphans'
    <3>1. CASE OpenForReset(j)
      BY <3>1 DEF OpenForReset
    <3>2. CASE OpenStage(j)
      BY <2>3, <3>2 DEF OpenStage
    <3>3. CASE UNCHANGED <<locals, locks>> /\ pc[j] \in Normalizing
      BY <2>3, <3>3 DEF IInv, LockInv, locals, locks
    <3>4. QED
      BY <1>1, <2>3, <3>1, <3>2, <3>3, Entering DEF IInv
  <2>4. QED
    BY <2>1, <2>2, <2>3 DEF LockInv
<1>2. CASE RemoveLeftover
  BY <1>2 DEF RemoveLeftover, locals, locks, IInv, TypeInv, LockInv, Idle, Normalizing, Places
<1>3. CASE UNCHANGED vars
  BY <1>3 DEF IInv, LockInv, vars, dirs, locals, locks
<1>4. QED
  BY <1>1, <1>2, <1>3, NextCases

LEMMA InputStep ==
  ASSUME IInv, [Next]_vars
  PROVE  InputInv'
<1> DEFINE Read(i) ==
      pc[i] \in Normalizing =>
        /\ input[i] # NONE /\ input[i].of = cmd[i].manifest
        /\ input[i].rows \in {"none", "all"} /\ (pc[i] # "validate" => input[i].rows = "all")
<1>1. ASSUME NEW j \in Jobs, JobStep(j) PROVE InputInv'
  <2>1. ASSUME NEW i \in Jobs, i # j PROVE Read(i)'
    BY <1>1, <2>1, Others DEF IInv, InputInv
  <2>2. ASSUME pc'[j] \in Normalizing PROVE Read(j)'
    <3>1. CASE OpenForReset(j)
      BY <2>2, <3>1 DEF OpenForReset, Goto, IInv, TypeInv, Normalizing
    <3>2. CASE OpenStage(j)
      <4>1. pc[j] = "open" /\ StageOf(j) # NONE
        BY <3>2, Checks DEF OpenStage, At
      <4>2. temp[j] \in {"checkpoint", j} /\ temp[j] \in Places
        BY <4>1 DEF IInv, PlaceInv, JobPlace, Where, Places
      <4>3. StageOf(j).of = cmd[j].manifest /\ StageOf(j).rows \in {"none", "all"}
        BY <4>1, <4>2 DEF IInv, StageInv, StageOf
      <4>4. input'[j] = StageOf(j) /\ cmd' = cmd /\ pc'[j] = "validate"
        BY <3>2, <4>1 DEF OpenStage, Goto, IInv, TypeInv
      <4>5. QED
        BY <4>1, <4>3, <4>4
    <3>3. CASE UNCHANGED <<locals, locks>> /\ pc[j] \in Normalizing
               /\ (pc[j] = "validate" => Possible(j))
      <4>1. input' = input /\ cmd' = cmd
        BY <3>3 DEF locals
      <4>2. input[j] # NONE /\ input[j].of = cmd[j].manifest /\ input[j].rows \in {"none", "all"}
        BY <3>3 DEF IInv, InputInv
      <4>3. input[j].rows = "all"
        BY <3>3, <4>2, Checks DEF IInv, InputInv
      <4>4. QED
        BY <4>1, <4>2, <4>3
    <3>4. QED
      BY <1>1, <2>2, <3>1, <3>2, <3>3, Entering DEF IInv
  <2>3. QED
    BY <2>1, <2>2 DEF InputInv
<1>2. CASE RemoveLeftover \/ UNCHANGED vars
  BY <1>2 DEF IInv, InputInv, RemoveLeftover, vars, locals
<1>3. QED
  BY <1>1, <1>2, NextCases

-----------------------------------------------------------------------------
(* Normalized and published data.                                          *)

\* Neither a normalized checkpoint nor a published generation is overwritten.
LEMMA Durable ==
  ASSUME TypeInv, NEW j \in Jobs, JobStep(j)
  PROVE  /\ normal # NONE => normal' = normal
         /\ \A o \in Outputs : outputs[o] # NONE => outputs'[o] = outputs[o]
         /\ \A o \in Outputs : outputs'[o] # outputs[o] =>
              Publish(j) /\ outputs'[o] = generation[j] /\ o = cmd[j].output
<1> USE DEF dirs
<1>1. CASE Start(j)
  BY <1>1 DEF Start
<1>2. CASE Staging(j)
  BY <1>2 DEF Staging, CheckOutput, Probe, MakeBuilding, StageRows, WriteMarker, PublishCheckpoint,
              AdoptCheckpoint, OpenForReset, ResetDerived
<1>3. CASE Normalization(j)
  BY <1>3 DEF Normalization, OpenStage, ValidateInput, CreateTable, CreateResolved,
              FinishNormalization
<1>4. CASE SealNormal(j)
  BY <1>4, Checks DEF SealNormal, At
<1>5. CASE Publish(j)
  <2>1. outputs' = [outputs EXCEPT ![cmd[j].output] = generation[j]] /\ normal' = normal
        /\ outputs[cmd[j].output] = NONE
    BY <1>5, Checks DEF Publish, At
  <2>2. QED
    BY <1>5, <2>1 DEF TypeInv
<1>6. CASE Publication(j) /\ ~SealNormal(j) /\ ~Publish(j)
  BY <1>6 DEF Publication, ReserveNormal, LinkNormal, ReadNormal, CloneNormal, BuildCatalog,
              RemoveFile, RemoveDirectory
<1>7. CASE Stops(j)
  BY <1>7, StopsBy
<1>8. QED
  BY <1>1, <1>2, <1>3, <1>4, <1>5, <1>6, <1>7 DEF JobStep

\* The generation that a job makes.
LEMMA OwnData ==
  ASSUME IInv, PlaceInv', NEW j \in Jobs, JobStep(j)
  PROVE  JobData(j)'
<1> USE DEF Goto, At, Normalizing, Normalized
<1>1. JobData(j)
  BY DEF IInv, DataInv
<1>2. CASE Gone(j)
  <2>1. pc'[j] = "idle"
    BY <1>2 DEF Gone, IInv, TypeInv
  <2>2. QED
    BY <2>1 DEF JobData
<1>3. CASE Start(j)
  <2>1. pc'[j] = "check"
    BY <1>3 DEF Start, IInv, TypeInv
  <2>2. QED
    BY <2>1 DEF JobData
<1>4. CASE Staging(j)
  <2>1. pc'[j] \in {"read", "stage", "adopt", "probe", "mkdir", "mark", "open", "rename", "inspect",
                    "reset"}
    BY <1>4 DEF Staging, CheckOutput, Probe, MakeBuilding, StageRows, WriteMarker, PublishCheckpoint,
                AdoptCheckpoint, OpenForReset, ResetDerived, IInv, TypeInv
  <2>2. QED
    BY <2>1 DEF JobData
<1>5. CASE Normalization(j) /\ ~FinishNormalization(j)
  <2>1. pc'[j] \in Normalizing
    <3>1. CASE CreateTable(j)
      <4>1. PICK step \in {<<"resolved_keys", "keys", "endpoints">>,
                           <<"relationship_keys", "endpoints", "from">>,
                           <<"relationship_from", "from", "to">>} : pc' = [pc EXCEPT ![j] = step[3]]
        BY <3>1, Zenon DEF CreateTable
      <4>2. QED
        BY <4>1 DEF IInv, TypeInv
    <3>2. CASE ~CreateTable(j)
      BY <1>5, <3>2 DEF Normalization, OpenStage, ValidateInput, CreateResolved, IInv, TypeInv
    <3>3. QED
      BY <3>1, <3>2
  <2>2. generation'[j] # NONE
    <3>1. CASE OpenStage(j)
      <4>1. [data |-> NONE, declares |-> NONE] # NONE
        <5>1. [data |-> NONE, declares |-> NONE] \in Generation
          BY DEF Generation
        <5>2. QED
          BY <5>1, NoneAssumption
      <4>2. QED
        BY <3>1, <4>1 DEF OpenStage, IInv, TypeInv
    <3>2. CASE ~OpenStage(j)
      <4>1. generation' = generation /\ pc[j] \in Normalizing
        BY <1>5, <2>1, <3>2, Entering DEF IInv, locals, OpenForReset, TypeInv
      <4>2. QED
        BY <1>1, <4>1 DEF JobData
    <3>3. QED
      BY <3>1, <3>2
  <2>3. QED
    BY <2>1, <2>2 DEF JobData
<1>6. CASE FinishNormalization(j)
  <2>1. pc[j] = "digest" /\ cmd' = cmd
    BY <1>6 DEF FinishNormalization
  <2>2. input[j].of = cmd[j].manifest /\ input[j].rows = "all" /\ input[j] \in Stage
    BY <2>1 DEF IInv, InputInv, TypeInv
  <2>3. generation[j] \in Generation /\ cmd[j] \in Commands
    BY <1>1, <2>1 DEF JobData, IInv, TypeInv, PlaceInv, JobPlace, Idle
  <2>4. [of |-> input[j].of, rows |-> input[j].rows, staged |-> input[j].by,
         normalized |-> cmd[j].build] \in Data
    BY <2>2, <2>3, StageFacts, CommandFacts DEF Data
  <2> DEFINE new == [generation[j] EXCEPT !.data =
                       [of |-> input[j].of, rows |-> input[j].rows, staged |-> input[j].by,
                        normalized |-> cmd[j].build]]
  <2>5. new \in Generation /\ new # NONE
    BY <2>3, <2>4, NoneAssumption DEF Generation
  <2>6. Whole(new.data, cmd[j].manifest)
    BY <2>2, <2>3, <2>4, NoneAssumption DEF Whole, Generation
  <2>7. generation'[j] = new /\ pc'[j] \in {"reserve", "index"}
    BY <1>6 DEF FinishNormalization, IInv, TypeInv
  <2>8. QED
    BY <2>1, <2>5, <2>6, <2>7 DEF JobData
<1>7. CASE ReserveNormal(j) \/ LinkNormal(j) \/ SealNormal(j)
  <2>1. pc'[j] \in {"link", "seal", "index"} /\ pc[j] \in {"reserve", "link", "seal"}
        /\ generation' = generation /\ cmd' = cmd
    BY <1>7 DEF ReserveNormal, LinkNormal, SealNormal, locals, IInv, TypeInv
  <2>2. QED
    BY <1>1, <2>1 DEF JobData
<1>8. CASE ReadNormal(j)
  <2>1. normal # NONE /\ normal.identity = NormalIdentity(cmd[j]) /\ pc'[j] = "clone"
        /\ cmd' = cmd /\ normal' = normal
    BY <1>8, Checks DEF ReadNormal, locals, dirs, IInv, TypeInv
  <2>2. QED
    BY <2>1 DEF JobData, NormalIdentity
<1>9. CASE CloneNormal(j)
  <2>1. pc[j] = "clone" /\ pc'[j] = "index" /\ cmd' = cmd
        /\ generation'[j] = [data |-> normal.data, declares |-> NONE]
    BY <1>9 DEF CloneNormal, IInv, TypeInv
  <2>2. normal \in Checkpoint /\ Whole(normal.data, cmd[j].manifest)
    BY <1>1, <2>1 DEF JobData, IInv, DataInv, TypeInv
  <2>3. [data |-> normal.data, declares |-> NONE] \in Generation
    BY <2>2 DEF Checkpoint, Generation
  <2>4. generation'[j] # NONE
    BY <2>1, <2>3, NoneAssumption
  <2>5. QED
    BY <2>1, <2>2, <2>4 DEF JobData
<1>10. CASE BuildCatalog(j)
  <2>1. pc[j] = "index" /\ pc'[j] = "publish" /\ cmd' = cmd
        /\ generation'[j] = [generation[j] EXCEPT !.declares = cmd[j].manifest]
    BY <1>10 DEF BuildCatalog, IInv, TypeInv
  <2>2. generation[j] \in Generation /\ Whole(generation[j].data, cmd[j].manifest)
        /\ cmd[j] \in Commands
    BY <1>1, <2>1 DEF JobData, IInv, TypeInv, PlaceInv, JobPlace, Idle
  <2>3. generation'[j] \in Generation
    BY <2>1, <2>2, CommandFacts DEF Generation
  <2>4. generation'[j].data = generation[j].data /\ generation'[j].declares = cmd[j].manifest
    BY <2>1, <2>2 DEF Generation
  <2>5. QED
    BY <2>1, <2>2, <2>3, <2>4, NoneAssumption DEF JobData
<1>11. CASE Publish(j) /\ ReleasesCheckpoint(cmd[j])
  <2>1. pc[j] = "publish" /\ pc'[j] = "release" /\ cmd' = cmd
        /\ outputs' = [outputs EXCEPT ![cmd[j].output] = generation[j]]
    BY <1>11 DEF Publish, IInv, TypeInv
  <2>2. cmd[j].output \in Outputs
    BY <2>1, CommandFacts DEF IInv, PlaceInv, JobPlace, Idle
  <2>3. outputs'[cmd[j].output] = generation[j]
    BY <2>1, <2>2 DEF IInv, TypeInv
  <2>4. QED
    BY <1>1, <2>1, <2>3 DEF JobData
<1>12. CASE RemoveFile(j)
  <2>1. pc[j] = "release" /\ UNCHANGED <<pc, cmd, outputs>>
    BY <1>12 DEF RemoveFile, locals
  <2>2. QED
    BY <1>1, <2>1 DEF JobData
<1>13. QED
  BY <1>2, <1>3, <1>4, <1>5, <1>6, <1>7, <1>8, <1>9, <1>10, <1>11, <1>12, Ways
     DEF JobStep, Publication, IInv

LEMMA DataStep ==
  ASSUME IInv, PlaceInv', [Next]_vars
  PROVE  DataInv'
<1>1. ASSUME NEW j \in Jobs, JobStep(j) PROVE DataInv'
  <2>1. ASSUME NEW i \in Jobs, i # j PROVE JobData(i)'
    <3>1. JobData(i) /\ (~Idle(i) => cmd[i] \in Commands)
      BY DEF IInv, DataInv, PlaceInv, JobPlace
    <3>2. pc'[i] = pc[i] /\ cmd'[i] = cmd[i] /\ generation'[i] = generation[i]
      BY <1>1, <2>1, Others DEF IInv
    <3>3. pc[i] = "clone" => normal' = normal
      BY <1>1, <3>1, Durable DEF JobData, IInv
    <3>4. pc[i] = "release" => outputs'[cmd[i].output] = outputs[cmd[i].output]
      BY <1>1, <3>1, Durable, CommandFacts DEF JobData, IInv, Idle
    <3>5. QED
      BY <3>1, <3>2, <3>3, <3>4 DEF JobData
  <2>2. JobData(j)'
    BY <1>1, OwnData
  <2>3. normal' # NONE => Whole(normal'.data, normal'.identity.manifest)
    <3>1. normal' = normal \/ normal' = linking
      BY <1>1, StopsBy DEF JobStep, Start, Staging, CheckOutput, Probe, MakeBuilding, StageRows,
         WriteMarker, PublishCheckpoint, AdoptCheckpoint, OpenForReset, ResetDerived, Normalization,
         OpenStage, ValidateInput, CreateTable, CreateResolved, FinishNormalization, Publication,
         ReserveNormal, LinkNormal, SealNormal, ReadNormal, CloneNormal, BuildCatalog, Publish,
         RemoveFile, RemoveDirectory, dirs
    <3>2. QED
      BY <3>1 DEF IInv, DataInv
  <2>4. linking' # NONE => Whole(linking'.data, linking'.identity.manifest)
    <3>1. CASE LinkNormal(j)
      BY <3>1 DEF LinkNormal, At, IInv, DataInv, JobData, Normalized, NormalIdentity
    <3>2. CASE ~LinkNormal(j)
      <4>1. linking' = linking \/ linking' = NONE
        BY <1>1, <3>2, StopsBy DEF JobStep, Start, Staging, CheckOutput, Probe, MakeBuilding, StageRows,
           WriteMarker, PublishCheckpoint, AdoptCheckpoint, OpenForReset, ResetDerived, Normalization,
           OpenStage, ValidateInput, CreateTable, CreateResolved, FinishNormalization, Publication,
           ReserveNormal, SealNormal, ReadNormal, CloneNormal, BuildCatalog, Publish,
           RemoveFile, RemoveDirectory, dirs, Abort
      <4>2. QED
        BY <4>1 DEF IInv, DataInv
    <3>3. QED
      BY <3>1, <3>2
  <2>5. PublishedIsWhole'
    <3>1. ASSUME NEW o \in Outputs, outputs'[o] # NONE
          PROVE  /\ outputs'[o].data # NONE /\ outputs'[o].data.of = outputs'[o].declares
                 /\ outputs'[o].data.rows = "all"
      <4>1. CASE outputs'[o] = outputs[o]
        BY <3>1, <4>1 DEF IInv, DataInv, PublishedIsWhole
      <4>2. CASE outputs'[o] # outputs[o]
        <5>1. outputs'[o] = generation[j] /\ pc[j] = "publish"
          BY <1>1, <4>2, Durable DEF IInv, Publish, At
        <5>2. Whole(generation[j].data, cmd[j].manifest) /\ generation[j].declares = cmd[j].manifest
          BY <5>1 DEF IInv, DataInv, JobData, Normalized
        <5>3. QED
          BY <5>1, <5>2 DEF Whole
      <4>3. QED
        BY <4>1, <4>2
    <3>2. QED
      BY <3>1 DEF PublishedIsWhole
  <2>6. QED
    BY <2>1, <2>2, <2>3, <2>4, <2>5 DEF DataInv
<1>2. CASE RemoveLeftover \/ UNCHANGED vars
  <2>1. UNCHANGED <<normal, outputs, pc, locals>> /\ (linking' = linking \/ linking' = NONE)
    BY <1>2 DEF RemoveLeftover, vars, dirs
  <2>2. \A i \in Jobs : JobData(i)'
    BY <2>1 DEF IInv, DataInv, JobData, locals
  <2>3. QED
    BY <2>1, <2>2 DEF IInv, DataInv, PublishedIsWhole
<1>3. QED
  BY <1>1, <1>2, NextCases

-----------------------------------------------------------------------------
(* What is left behind.                                                    *)

\* Who changes the .building half of the normalized checkpoint.
LEMMA Linking ==
  ASSUME TypeInv, NEW j \in Jobs, JobStep(j)
  PROVE  /\ linking' = linking \/ linking' = NONE \/ pc'[j] = "seal"
         /\ pc[j] = "seal" => linking' = NONE \/ crashed' = TRUE
<1> USE DEF dirs, At, Goto, TypeInv
<1>1. CASE Start(j)
  BY <1>1 DEF Start, Idle
<1>2. CASE Staging(j)
  BY <1>2 DEF Staging, CheckOutput, Probe, MakeBuilding, StageRows, WriteMarker, PublishCheckpoint,
              AdoptCheckpoint, OpenForReset, ResetDerived
<1>3. CASE Normalization(j)
  <2>1. CASE CreateTable(j)
    <3>1. PICK step \in {<<"resolved_keys", "keys", "endpoints">>,
                         <<"relationship_keys", "endpoints", "from">>,
                         <<"relationship_from", "from", "to">>} : pc[j] = step[2]
      BY <2>1, Zenon DEF CreateTable
    <3>2. QED
      BY <2>1, <3>1 DEF CreateTable
  <2>2. CASE ~CreateTable(j)
    BY <1>3, <2>2 DEF Normalization, OpenStage, ValidateInput, CreateResolved, FinishNormalization
  <2>3. QED
    BY <2>1, <2>2
<1>4. CASE Publication(j)
  <2>1. CASE Publish(j)
    BY <2>1 DEF Publish
  <2>2. CASE ~Publish(j)
    BY <1>4, <2>2 DEF Publication, ReserveNormal, LinkNormal, SealNormal, ReadNormal, CloneNormal,
                      BuildCatalog, RemoveFile, RemoveDirectory
  <2>3. QED
    BY <2>1, <2>2
<1>5. CASE Stops(j)
  <2>1. CASE Abort(j)
    BY <2>1 DEF Abort
  <2>2. CASE ~Abort(j)
    BY <1>5, <2>2, StopsBy
  <2>3. QED
    BY <2>1, <2>2
<1>6. QED
  BY <1>1, <1>2, <1>3, <1>4, <1>5 DEF JobStep

LEMMA Crashed ==
  ASSUME NEW j \in Jobs, JobStep(j)
  PROVE  crashed => crashed'
<1> USE DEF bounds, Quiet
<1>1. CASE Stops(j)
  BY <1>1, StopsBy
<1>2. CASE ~Stops(j)
  BY <1>2 DEF JobStep, Start, Staging, CheckOutput, Probe, MakeBuilding, StageRows, WriteMarker,
     PublishCheckpoint, AdoptCheckpoint, OpenForReset, ResetDerived, Normalization, OpenStage,
     ValidateInput, CreateTable, CreateResolved, FinishNormalization, Publication, ReserveNormal,
     LinkNormal, SealNormal, ReadNormal, CloneNormal, BuildCatalog, Publish, RemoveFile,
     RemoveDirectory
<1>3. QED
  BY <1>1, <1>2

\* A job takes what it staged with it, unless it dies or hands it over.
LEMMA Taken ==
  ASSUME IInv, NEW j \in Jobs, JobStep(j), temp[j] \in {"building", j}, temp'[j] # temp[j]
  PROVE  \/ stages'[temp[j]] = NONE
         \/ crashed' = TRUE /\ temp[j] = "building"
<1>1. temp[j] # NONE /\ temp[j] \in Places /\ temp[j] # "checkpoint" /\ "building" # j
      /\ NONE # "checkpoint"
  BY NoneAssumption, PlacesAssumption DEF Places
<1>2. ~preserve[j]
  BY <1>1 DEF IInv, PlaceInv, JobPlace
<1>3. CASE temp'[j] # NONE
  <2>1. pc[j] \notin {"check", "mkdir", "adopt"}
    BY <1>1 DEF IInv, PlaceInv, JobPlace, Where
  <2>2. PublishCheckpoint(j)
    BY <1>3, <2>1, Moves DEF IInv, CheckOutput, MakeBuilding, AdoptCheckpoint, At
  <2>3. temp[j] = "building" /\ stages' = [stages EXCEPT !["checkpoint"] = stages["building"],
                                                          !["building"] = NONE]
    BY <2>2, RenamedStage DEF PublishCheckpoint
  <2>4. QED
    BY <1>1, <2>3 DEF IInv, TypeInv
<1>4. CASE temp'[j] = NONE
  <2>1. CASE Publish(j) /\ ~ReleasesCheckpoint(cmd[j])
    <3>1. temp[j] = j
      BY <1>1, <2>1 DEF Publish, At, IInv, PlaceInv, JobPlace, Where
    <3>2. QED
      BY <1>1, <2>1, <3>1 DEF Publish, IInv, TypeInv
  <2>2. CASE RemoveDirectory(j)
    BY <1>1, <2>2 DEF RemoveDirectory, At, IInv, PlaceInv, JobPlace, Where
  <2>3. CASE Abort(j)
    BY <1>1, <1>2, <2>3 DEF Abort, Discarded
  <2>4. CASE Stops(j) /\ ~Abort(j)
    <3>1. crashed' = TRUE /\ stages' = (IF temp[j] = j THEN [stages EXCEPT ![j] = NONE] ELSE stages)
      BY <2>4, StopsBy
    <3>2. CASE temp[j] = j
      BY <1>1, <3>1, <3>2 DEF IInv, TypeInv
    <3>3. QED
      BY <3>1, <3>2
  <2>5. QED
    BY <1>1, <1>4, <2>1, <2>2, <2>3, <2>4, Ends DEF IInv
<1>5. QED
  BY <1>3, <1>4

\* What appears in a directory other than the checkpoint is a job's.
LEMMA Appears ==
  ASSUME IInv, NEW j \in Jobs, JobStep(j), NEW p \in Places \ {"checkpoint"},
         stages[p] = NONE, stages'[p] # NONE
  PROVE  temp'[j] = p
BY Contents DEF IInv, SameContents, SameOrigin

LEMMA LitterStep ==
  ASSUME IInv, [Next]_vars
  PROVE  OnlyCrashesLeaveLitter'
<1>1. ASSUME NEW j \in Jobs, JobStep(j) PROVE OnlyCrashesLeaveLitter'
  <2>1. ASSUME stages'["building"] # NONE PROVE crashed' \/ \E i \in Jobs : temp'[i] = "building"
    <3>1. "building" \in Places \ {"checkpoint"}
      BY DEF Places
    <3>2. CASE stages["building"] = NONE
      BY <1>1, <2>1, <3>1, <3>2, Appears
    <3>3. CASE stages["building"] # NONE
      <4>1. crashed \/ \E i \in Jobs : temp[i] = "building"
        BY <3>3 DEF IInv, OnlyCrashesLeaveLitter
      <4>2. CASE crashed
        BY <1>1, <4>2, Crashed
      <4>3. ASSUME NEW i \in Jobs, temp[i] = "building"
            PROVE  crashed' \/ \E k \in Jobs : temp'[k] = "building"
        <5>1. CASE temp'[i] = "building"
          BY <5>1
        <5>2. CASE temp'[i] # "building"
          <6>1. i = j
            BY <1>1, <4>3, <5>2, Others DEF IInv
          <6>2. QED
            BY <1>1, <2>1, <4>3, <5>2, <6>1, Taken
        <5>3. QED
          BY <5>1, <5>2
      <4>4. QED
        BY <4>1, <4>2, <4>3
    <3>4. QED
      BY <3>2, <3>3
  <2>2. ASSUME linking' # NONE PROVE crashed' \/ \E i \in Jobs : pc'[i] = "seal"
    <3>1. CASE pc'[j] = "seal"
      BY <3>1
    <3>2. CASE pc'[j] # "seal"
      <4>1. linking' = linking
        BY <1>1, <2>2, <3>2, Linking DEF IInv
      <4>2. crashed \/ \E i \in Jobs : pc[i] = "seal"
        BY <2>2, <4>1 DEF IInv, OnlyCrashesLeaveLitter
      <4>3. CASE crashed
        BY <1>1, <4>3, Crashed
      <4>4. ASSUME NEW i \in Jobs, pc[i] = "seal"
            PROVE  crashed' \/ \E k \in Jobs : pc'[k] = "seal"
        <5>1. CASE i = j
          BY <1>1, <2>2, <4>4, <5>1, Linking DEF IInv
        <5>2. CASE i # j
          BY <1>1, <4>4, <5>2, Others DEF IInv
        <5>3. QED
          BY <5>1, <5>2
      <4>5. QED
        BY <4>2, <4>3, <4>4
    <3>3. QED
      BY <3>1, <3>2
  <2>3. ASSUME NEW i \in Jobs, stages'[i] # NONE PROVE temp'[i] = i
    <3>1. i \in Places \ {"checkpoint"} /\ i # "building" /\ i # NONE
      BY PlacesAssumption, NoneAssumption DEF Places
    <3>2. CASE i # j
      <4>1. temp[j] # i
        BY <3>1, <3>2 DEF IInv, PlaceInv, JobPlace, Where
      <4>2. stages'[i] = stages[i]
        BY <1>1, <3>1, <3>2, <4>1, StagesOf DEF IInv
      <4>3. QED
        BY <1>1, <2>3, <3>2, <4>2, Others DEF IInv, OnlyCrashesLeaveLitter
    <3>3. CASE i = j
      <4>1. CASE stages[j] = NONE
        BY <1>1, <2>3, <3>1, <3>3, <4>1, Appears
      <4>2. CASE stages[j] # NONE
        <5>1. temp[j] = j
          BY <4>2 DEF IInv, OnlyCrashesLeaveLitter
        <5>2. QED
          BY <1>1, <2>3, <3>1, <3>3, <5>1, Taken
      <4>3. QED
        BY <4>1, <4>2
    <3>4. QED
      BY <3>2, <3>3
  <2>4. QED
    BY <2>1, <2>2, <2>3 DEF OnlyCrashesLeaveLitter
<1>2. CASE RemoveLeftover
  <2>1. UNCHANGED <<temp, pc, crashed>>
    BY <1>2 DEF RemoveLeftover, locals, Quiet, bounds
  <2>2. (linking' = linking \/ linking' = NONE)
        /\ (stages' = stages \/ stages' = [stages EXCEPT !["building"] = NONE])
    BY <1>2 DEF RemoveLeftover
  <2>3. \A i \in Jobs : stages'[i] = stages[i]
    BY <2>2, PlacesAssumption DEF IInv, TypeInv, Places
  <2>4. stages'["building"] = stages["building"] \/ stages'["building"] = NONE
    BY <2>2 DEF IInv, TypeInv, Places
  <2>5. QED
    BY <2>1, <2>2, <2>3, <2>4 DEF IInv, OnlyCrashesLeaveLitter
<1>3. CASE UNCHANGED vars
  BY <1>3 DEF IInv, OnlyCrashesLeaveLitter, vars, dirs, locals, bounds
<1>4. QED
  BY <1>1, <1>2, <1>3, NextCases

-----------------------------------------------------------------------------
(* The theorems.                                                           *)

LEMMA InitInv == Init => IInv
<1> SUFFICES ASSUME Init PROVE IInv
  OBVIOUS
<1> USE DEF Init
<1>1. NONE # "building" /\ NONE # "checkpoint" /\ NONE \notin Jobs
  BY NoneAssumption DEF Places
<1>2. TypeInv
  BY InitTypes
<1>3. PlaceInv
  BY <1>1 DEF PlaceInv, JobPlace, Where, Idle
<1>4. PathInv /\ InputInv
  BY DEF PathInv, InputInv, Idle, Normalizing
<1>5. StageInv
  BY <1>1 DEF StageInv, Places
<1>6. LockInv
  BY <1>1 DEF LockInv, Normalizing
<1>7. DataInv
  BY DEF DataInv, JobData, Normalizing, Normalized, PublishedIsWhole
<1>8. OnlyCrashesLeaveLitter
  BY DEF OnlyCrashesLeaveLitter, Places
<1>9. QED
  BY <1>2, <1>3, <1>4, <1>5, <1>6, <1>7, <1>8 DEF IInv

\* The invariant is inductive.
THEOREM Invariance == Spec => []IInv
<1>1. ASSUME IInv, [Next]_vars PROVE IInv'
  <2>1. PlaceInv'
    BY <1>1, PlaceStep DEF IInv
  <2>2. PathInv'
    BY <1>1, PathStep DEF IInv
  <2>3. QED
    BY <1>1, <2>1, <2>2, TypeStep, StageStep, LockStep, InputStep, DataStep, LitterStep DEF IInv
<1>2. QED
  BY InitInv, <1>1, PTL DEF Spec

\* A published generation holds the complete input of the manifest it declares,
\* whatever jobs race, fail, die and resume.
THEOREM OutputsAreWhole == Spec => []PublishedIsWhole
<1>1. IInv => PublishedIsWhole
  BY DEF IInv, DataInv
<1>2. QED
  BY Invariance, <1>1, PTL

\* A build that fails or is refused leaves no staging directory behind.
THEOREM FailuresAreCleanedUp == Spec => []OnlyCrashesLeaveLitter
<1>1. IInv => OnlyCrashesLeaveLitter
  BY DEF IInv
<1>2. QED
  BY Invariance, <1>1, PTL

\* A checkpoint changes by the hand of a job that has published its output.
LEMMA CheckpointChange ==
  ASSUME IInv, PlaceInv', NEW j \in Jobs, JobStep(j), stages["checkpoint"] # NONE
  PROVE  \/ SameContents("checkpoint") /\ stages'["checkpoint"] # NONE
         \/ temp[j] = "checkpoint" /\ pc[j] = "release"
<1> DEFINE p == "checkpoint"
<1>1. p \in Places /\ p # NONE /\ p # "building" /\ p # j
  BY NoneAssumption, PlacesAssumption DEF Places
<1>2. ~PublishCheckpoint(j)
  BY RenamedStage
<1>3. CASE stages'[p] # NONE
  <2>1. temp'[j] = p => pc'[j] # "stage"
    BY <1>1 DEF PlaceInv, JobPlace, Where
  <2>2. temp[j] = p => pc[j] \notin {"stage", "mark"}
    BY <1>1 DEF IInv, PlaceInv, JobPlace, Where
  <2>3. SameContents(p) \/ (temp[j] = p /\ pc[j] = "release")
    BY <1>1, <1>2, <1>3, <2>1, <2>2, Contents DEF IInv
  <2>4. QED
    BY <1>3, <2>3
<1>4. CASE stages'[p] = NONE
  <2>1. temp[j] = p
    BY <1>1, <1>2, <1>4, StagesOf DEF IInv
  <2>2. temp'[j] = NONE
    BY <1>1, <1>4, Removal DEF IInv, TypeInv, Gone
  <2>3. CASE Publish(j)
    BY <1>1, <1>4, <2>3 DEF Publish, IInv, TypeInv
  <2>4. CASE RemoveDirectory(j)
    BY <2>1, <2>4 DEF RemoveDirectory, At
  <2>5. CASE Abort(j)
    <3>1. Discarded(j) = p
      BY <1>1, <1>4, <2>5 DEF Abort
    <3>2. ~preserve[j]
      BY <1>1, <3>1 DEF Discarded
    <3>3. QED
      BY <2>1, <3>2 DEF IInv, PlaceInv, JobPlace
  <2>6. CASE Stops(j) /\ ~Abort(j)
    BY <1>1, <1>4, <2>6, StopsBy DEF IInv, TypeInv
  <2>7. QED
    BY <1>1, <2>1, <2>2, <2>3, <2>4, <2>5, <2>6, Ends DEF IInv
<1>5. QED
  BY <1>3, <1>4

\* The rows and the marker of a checkpoint go only once the output they were
\* staged for is published, with their manifest.
THEOREM CheckpointsAreKept == Spec => CheckpointOutlivesFailure
<1> DEFINE old == stages["checkpoint"]
           new == stages'["checkpoint"]
           Kept == old # NONE =>
             \/ new # NONE /\ new.rows = old.rows /\ new.marker = old.marker
             \/ \E o \in Outputs : outputs[o] # NONE /\ outputs[o].declares = old.of
<1>1. ASSUME IInv, IInv', [Next]_vars, old # NONE PROVE Kept
  <2>1. ASSUME NEW j \in Jobs, JobStep(j) PROVE Kept
    <3>1. CASE SameContents("checkpoint") /\ new # NONE
      BY <3>1 DEF SameContents
    <3>2. CASE temp[j] = "checkpoint" /\ pc[j] = "release"
      <4>1. old.of = cmd[j].manifest
        BY <1>1, <3>2 DEF IInv, StageInv
      <4>2. outputs[cmd[j].output] # NONE /\ outputs[cmd[j].output].declares = cmd[j].manifest
        BY <1>1, <3>2 DEF IInv, DataInv, JobData
      <4>3. cmd[j].output \in Outputs
        BY <1>1, <3>2, CommandFacts DEF IInv, PlaceInv, JobPlace, Idle
      <4>4. QED
        BY <4>1, <4>2, <4>3
    <3>3. QED
      BY <1>1, <2>1, <3>1, <3>2, CheckpointChange DEF IInv
  <2>2. CASE RemoveLeftover
    BY <1>1, <2>2 DEF RemoveLeftover, IInv, TypeInv, Places
  <2>3. CASE UNCHANGED vars
    BY <1>1, <2>3 DEF vars, dirs
  <2>4. QED
    BY <1>1, <2>1, <2>2, <2>3, NextCases
<1>2. IInv /\ IInv' /\ [Next]_vars => [Kept]_vars
  BY <1>1
<1>3. QED
  BY Invariance, <1>2, PTL DEF Spec, CheckpointOutlivesFailure

-----------------------------------------------------------------------------
(* A resume that is alone.                                                 *)

Refusal == [step: Steps, command: Commands]

\* No other job runs beside a job that is alone.
LoneInv ==
  /\ alone \in [Jobs -> BOOLEAN] /\ refused \in [Jobs -> Refusal \cup {NONE}]
  /\ \A j \in Jobs : alone[j] => \A i \in Jobs \ {j} : Idle(i)

\* Whose database is open is at a step that has it open, unlinked or not.
OpenInv ==
  \A j \in Jobs : lock = j \/ j \in orphans =>
    temp[j] = "checkpoint" /\ pc[j] \in Normalizing \cup {"reset"}

\* A marker counts all rows, and the database has them unless a publication has
\* begun to remove it.
CountedAt(p) ==
  stages[p] # NONE /\ stages[p].marker # NONE =>
    /\ stages[p].marker.rows = "all"
    /\ \/ stages[p].rows = "all"
       \/ p = "checkpoint" /\ \E o \in Outputs : outputs[o] # NONE
                                                 /\ outputs[o].declares = stages[p].of

\* It is written once the rows are there.
MarkerInv ==
  /\ \A p \in Places : CountedAt(p)
  /\ \A j \in Jobs : pc[j] = "stage" => stages[temp[j]].marker = NONE

\* The derived tables that a resume has made when it comes to a step.
Made(step) ==
  CASE step \in {"open", "validate", "keys"} -> {}
    [] step = "endpoints" -> {"resolved_keys"}
    [] step = "from" -> {"resolved_keys", "relationship_keys"}
    [] step = "to" -> {"resolved_keys", "relationship_keys", "relationship_from"}
    [] step = "digest" -> {"resolved_keys", "resolved_relationships"}

\* A resume that is alone finds the checkpoint it adopted, then its own tables only,
\* and the paths that it publishes at free.
Undisturbed(j) ==
  /\ lock \in {NONE, j} /\ j \notin orphans
  /\ pc[j] \in {"inspect", "reset"} =>
       /\ stages["checkpoint"] # NONE /\ stages["checkpoint"].marker # NONE
       /\ input[j] = stages["checkpoint"]
  /\ pc[j] \in Normalizing \cup {"open"} =>
       /\ stages["checkpoint"] # NONE /\ stages["checkpoint"].rows = "all"
       /\ stages["checkpoint"].tables = Made(pc[j])
  /\ pc[j] = "validate" => input[j].rows = "all"
  /\ pc[j] = "link" => normal = NONE /\ linking = NONE
  /\ pc[j] = "seal" => normal = NONE
  /\ pc[j] \notin {"check", "release"} => outputs[cmd[j].output] = NONE

ResumedInv == \A j \in Jobs : ~Idle(j) /\ alone[j] /\ cmd[j].resume => Undisturbed(j)

\* Nothing happens between a refusal of a job that is alone and the next start.
RefusedInv ==
  \A j \in Jobs : refused[j] # NONE /\ alone[j] => \A i \in Jobs : Idle(i)

RInv == LoneInv /\ OpenInv /\ MarkerInv /\ ResumedInv /\ RefusedInv

LEMMA History ==
  ASSUME NEW j \in Jobs, JobStep(j)
  PROVE  \/ /\ Start(j) /\ Idle(j) /\ refused' = [k \in Jobs |-> NONE]
            /\ alone' = [k \in Jobs |-> k = j /\ \A i \in Jobs : Idle(i)]
         \/ ~Idle(j) /\ alone' = alone /\ refused' = refused
         \/ /\ ~Idle(j) /\ alone' = alone /\ Refuse(j)
            /\ refused' = [refused EXCEPT ![j] = [step |-> pc[j], command |-> cmd[j]]]
<1> USE DEF bounds, Quiet
<1>1. CASE Start(j)
  BY <1>1 DEF Start
<1>2. CASE Stops(j)
  BY <1>2 DEF Stops, Refuse, Fail, Crash
<1>3. CASE Staging(j)
  BY <1>3 DEF Idle, At, Staging, CheckOutput, Probe, MakeBuilding, StageRows, WriteMarker,
     PublishCheckpoint, AdoptCheckpoint, OpenForReset, ResetDerived
<1>4. CASE Normalization(j)
  <2>1. CASE CreateTable(j)
    <3>1. PICK step \in {<<"resolved_keys", "keys", "endpoints">>,
                         <<"relationship_keys", "endpoints", "from">>,
                         <<"relationship_from", "from", "to">>} : pc[j] = step[2]
      BY <2>1, Zenon DEF CreateTable, At
    <3>2. QED
      BY <2>1, <3>1 DEF CreateTable, Idle
  <2>2. CASE ~CreateTable(j)
    BY <1>4, <2>2 DEF Idle, At, Normalization, OpenStage, ValidateInput, CreateResolved,
                      FinishNormalization
  <2>3. QED
    BY <2>1, <2>2
<1>5. CASE Publication(j)
  BY <1>5 DEF Idle, At, Publication, ReserveNormal, LinkNormal, SealNormal, ReadNormal, CloneNormal,
     BuildCatalog, Publish, RemoveFile, RemoveDirectory
<1>6. QED
  BY <1>1, <1>2, <1>3, <1>4, <1>5 DEF JobStep

\* Who is alone after a step has made it.
LEMMA OnlyActor ==
  ASSUME LoneInv, NEW j \in Jobs, JobStep(j), NEW k \in Jobs, alone'[k]
  PROVE  k = j /\ \A i \in Jobs \ {j} : Idle(i)
<1>1. CASE Idle(j)
  <2>1. alone' = [i \in Jobs |-> i = j /\ \A l \in Jobs : Idle(l)]
    BY <1>1, History
  <2>2. QED
    BY <2>1
<1>2. CASE ~Idle(j)
  <2>1. alone' = alone
    BY <1>2, History
  <2>2. QED
    BY <1>2, <2>1 DEF LoneInv
<1>3. QED
  BY <1>1, <1>2

LEMMA LoneStep ==
  ASSUME IInv, LoneInv, [Next]_vars
  PROVE  LoneInv'
<1>1. ASSUME NEW j \in Jobs, JobStep(j) PROVE LoneInv'
  <2>1. alone' \in [Jobs -> BOOLEAN]
    BY <1>1, History DEF LoneInv
  <2>2. refused' \in [Jobs -> Refusal \cup {NONE}]
    <3>1. ~Idle(j) => [step |-> pc[j], command |-> cmd[j]] \in Refusal
      BY DEF IInv, TypeInv, PlaceInv, JobPlace, Refusal
    <3>2. QED
      BY <1>1, <3>1, History DEF LoneInv
  <2>3. ASSUME NEW k \in Jobs, alone'[k], NEW i \in Jobs \ {k} PROVE Idle(i)'
    <3>1. k = j /\ Idle(i)
      BY <1>1, <2>3, OnlyActor
    <3>2. pc'[i] = pc[i]
      BY <1>1, <2>3, <3>1, Others DEF IInv
    <3>3. QED
      BY <3>1, <3>2 DEF Idle
  <2>4. QED
    BY <2>1, <2>2, <2>3 DEF LoneInv
<1>2. CASE RemoveLeftover
  BY <1>2 DEF RemoveLeftover, bounds, LoneInv, Idle
<1>3. CASE UNCHANGED vars
  BY <1>3 DEF vars, bounds, LoneInv, Idle
<1>4. QED
  BY <1>1, <1>2, <1>3, NextCases

LEMMA RefusedStep ==
  ASSUME IInv, LoneInv, RefusedInv, [Next]_vars
  PROVE  RefusedInv'
<1>1. ASSUME NEW j \in Jobs, JobStep(j) PROVE RefusedInv'
  <2> SUFFICES ASSUME NEW k \in Jobs, refused'[k] # NONE, alone'[k], NEW i \in Jobs
               PROVE  Idle(i)'
    BY DEF RefusedInv
  <2>1. k = j /\ \A l \in Jobs \ {j} : Idle(l)
    BY <1>1, OnlyActor
  <2>2. ~Idle(j) /\ alone' = alone
    BY <1>1, <2>1, History
  <2>3. refused[j] = NONE
    BY <2>1, <2>2 DEF RefusedInv
  <2>4. Refuse(j)
    BY <1>1, <2>1, <2>2, <2>3, History
  <2>5. pc' = [pc EXCEPT ![j] = "idle"]
    BY <1>1, <2>4, Ways DEF IInv, Stops, Gone
  <2>6. QED
    BY <2>1, <2>5 DEF Idle, IInv, TypeInv
<1>2. CASE RemoveLeftover
  BY <1>2 DEF RemoveLeftover, RefusedInv
<1>3. CASE UNCHANGED vars
  BY <1>3 DEF vars, bounds, RefusedInv, Idle
<1>4. QED
  BY <1>1, <1>2, <1>3, NextCases

\* A job that goes on from a step with its database open has it still, or closed it.
LEMMA Closes ==
  ASSUME TypeInv, NEW j \in Jobs, JobStep(j), pc[j] \in Normalizing \cup {"reset"}
  PROVE  \/ pc'[j] \in Normalizing /\ UNCHANGED <<temp, lock, orphans>>
         \/ lock' # j /\ j \notin orphans'
<1>1. j # NONE
  BY NoneAssumption
<1> USE <1>1 DEF TypeInv, Goto, At, Normalizing
<1>2. ASSUME NEW place, Leave(j, place) PROVE lock' # j /\ j \notin orphans'
  BY <1>2 DEF Leave
<1>3. CASE Start(j)
  BY <1>3 DEF Start, Idle
<1>4. CASE Staging(j)
  <2>1. ResetDerived(j)
    BY <1>4 DEF Staging, CheckOutput, Probe, MakeBuilding, StageRows, WriteMarker,
                PublishCheckpoint, AdoptCheckpoint, OpenForReset
  <2>2. QED
    BY <2>1 DEF ResetDerived
<1>5. CASE Normalization(j)
  <2>1. CASE CreateTable(j)
    <3>1. PICK step \in {<<"resolved_keys", "keys", "endpoints">>,
                         <<"relationship_keys", "endpoints", "from">>,
                         <<"relationship_from", "from", "to">>} :
            pc[j] = step[2] /\ pc' = [pc EXCEPT ![j] = step[3]]
      BY <2>1, Zenon DEF CreateTable
    <3>2. UNCHANGED <<temp, lock, orphans>>
      BY <2>1, Zenon DEF CreateTable, locals, locks
    <3>3. QED
      BY <3>1, <3>2
  <2>2. CASE FinishNormalization(j)
    BY <2>2 DEF FinishNormalization
  <2>3. QED
    BY <1>5, <2>1, <2>2 DEF Normalization, OpenStage, ValidateInput, CreateResolved, locals, locks
<1>6. CASE Publication(j)
  BY <1>6 DEF Publication, ReserveNormal, LinkNormal, SealNormal, ReadNormal, CloneNormal,
              BuildCatalog, Publish, RemoveFile, RemoveDirectory
<1>7. CASE Stops(j)
  BY <1>2, <1>7, StopsBy DEF Abort
<1>8. QED
  BY <1>3, <1>4, <1>5, <1>6, <1>7 DEF JobStep

\* Whose database comes to be open, or is unlinked while it is.
LEMMA Opens ==
  ASSUME TypeInv, NEW j \in Jobs, JobStep(j)
  PROVE  /\ lock' \in {lock, NONE} \/ (lock' = j /\ (OpenForReset(j) \/ OpenStage(j)))
         /\ orphans' \subseteq orphans \cup ({lock} \ {NONE})
         /\ temp[j] # "checkpoint" /\ OpenStage(j) => lock' = lock
<1> USE DEF locks
<1>1. ASSUME NEW place, Leave(j, place)
      PROVE  lock' \in {lock, NONE} /\ orphans' \subseteq orphans \cup ({lock} \ {NONE})
  BY <1>1 DEF Leave, Unlinked
<1>2. CASE Start(j)
  BY <1>2 DEF Start, OpenStage, At, Idle
<1>3. CASE Staging(j)
  BY <1>3 DEF Staging, CheckOutput, Probe, MakeBuilding, StageRows, WriteMarker, PublishCheckpoint,
              AdoptCheckpoint, OpenForReset, ResetDerived, OpenStage, At
<1>4. CASE Normalization(j)
  BY <1>4 DEF Normalization, OpenStage, ValidateInput, CreateTable, CreateResolved,
              FinishNormalization
<1>5. CASE Publication(j)
  <2>1. CASE Publish(j)
    BY <1>1, <2>1 DEF Publish, OpenStage, At
  <2>2. CASE ~Publish(j)
    BY <1>5, <2>2 DEF Publication, ReserveNormal, LinkNormal, SealNormal, ReadNormal, CloneNormal,
                      BuildCatalog, RemoveFile, RemoveDirectory, Unlinked, OpenStage, At
  <2>3. QED
    BY <2>1, <2>2
<1>6. CASE Stops(j)
  BY <1>1, <1>6, StopsBy DEF Abort, OpenStage
<1>7. QED
  BY <1>2, <1>3, <1>4, <1>5, <1>6 DEF JobStep

LEMMA OpenStep ==
  ASSUME IInv, OpenInv, [Next]_vars
  PROVE  OpenInv'
<1>1. ASSUME NEW j \in Jobs, JobStep(j) PROVE OpenInv'
  <2> SUFFICES ASSUME NEW i \in Jobs, lock' = i \/ i \in orphans'
               PROVE  temp'[i] = "checkpoint" /\ pc'[i] \in Normalizing \cup {"reset"}
    BY DEF OpenInv
  <2>1. i # NONE
    BY NoneAssumption
  <2>2. CASE i # j
    <3>1. lock = i \/ i \in orphans
      BY <1>1, <2>1, <2>2, Opens DEF IInv
    <3>2. QED
      BY <1>1, <2>2, <3>1, Others DEF IInv, OpenInv
  <2>3. CASE i = j /\ (lock = j \/ j \in orphans)
    <3>1. temp[j] = "checkpoint" /\ pc[j] \in Normalizing \cup {"reset"}
      BY <2>3 DEF OpenInv
    <3>2. pc'[j] \in Normalizing /\ temp' = temp
      BY <1>1, <2>3, <3>1, Closes DEF IInv
    <3>3. QED
      BY <2>3, <3>1, <3>2
  <2>4. CASE i = j /\ ~(lock = j \/ j \in orphans)
    <3>1. lock' = j /\ (OpenForReset(j) \/ OpenStage(j))
      BY <1>1, <2>1, <2>4, Opens DEF IInv
    <3>2. CASE OpenForReset(j)
      BY <2>4, <3>2 DEF OpenForReset, At, Goto, locals, IInv, TypeInv, PlaceInv, JobPlace, Where
    <3>3. CASE OpenStage(j)
      <4>1. temp[j] = "checkpoint"
        BY <1>1, <2>4, <3>1, <3>3, Opens DEF IInv
      <4>2. QED
        BY <2>4, <3>3, <4>1 DEF OpenStage, Goto, IInv, TypeInv, Normalizing
    <3>4. QED
      BY <3>1, <3>2, <3>3
  <2>5. QED
    BY <2>2, <2>3, <2>4
<1>2. CASE RemoveLeftover
  BY <1>2 DEF RemoveLeftover, locals, locks, OpenInv
<1>3. CASE UNCHANGED vars
  BY <1>3 DEF vars, locals, locks, OpenInv
<1>4. QED
  BY <1>1, <1>2, <1>3, NextCases

\* What makes a stage incomplete has unlinked it, with the output published.
LEMMA CountedStep ==
  ASSUME IInv, MarkerInv, NEW j \in Jobs, JobStep(j), NEW p \in Places,
         stages'[p] # NONE, stages'[p].marker # NONE
  PROVE  CountedAt(p)'
<1>1. p = "building" => p # "checkpoint"
  OBVIOUS
<1>2. ASSUME stages[p] # NONE, stages'[p].of = stages[p].of, CountedAt(p),
             stages[p].marker # NONE, stages'[p].rows = stages[p].rows,
             stages'[p].marker = stages[p].marker
      PROVE  CountedAt(p)'
  BY <1>2, Durable DEF IInv, CountedAt
<1>3. CASE SameContents(p)
  BY <1>2, <1>3 DEF SameContents, SameOrigin, MarkerInv
<1>4. CASE temp[j] = p /\ pc[j] = "stage" /\ stages'[p].marker = stages[p].marker
  BY <1>4 DEF MarkerInv
<1>5. CASE temp[j] = p /\ pc[j] = "mark" /\ SameOrigin(p) /\ stages'[p].rows = stages[p].rows
  <2>1. p = "building"
    BY <1>5 DEF IInv, PlaceInv, JobPlace, Where
  <2>2. stages["building"].rows = "all"
    BY <1>5, <2>1 DEF IInv, StageInv
  <2>3. CASE WriteMarker(j)
    <3>1. stages'["building"].marker = [identity |-> StageIdentity(cmd[j]), rows |-> StageOf(j).rows]
      BY <1>5, <2>1, <2>3, StageFacts DEF WriteMarker, IInv, TypeInv, Places, Stage, SameOrigin
    <3>2. QED
      BY <1>5, <2>1, <2>2, <3>1 DEF CountedAt, StageOf
  <2>4. CASE ~WriteMarker(j)
    <3>1. Stops(j)
      BY <1>5, <2>4 DEF JobStep, Start, Idle, At, Staging, CheckOutput, Probe, MakeBuilding, StageRows,
         PublishCheckpoint, AdoptCheckpoint, OpenForReset, ResetDerived, Normalization, OpenStage,
         ValidateInput, CreateTable, CreateResolved, FinishNormalization, Publication, ReserveNormal,
         LinkNormal, SealNormal, ReadNormal, CloneNormal, BuildCatalog, Publish, RemoveFile,
         RemoveDirectory
    <3>2. stages'[p] = stages[p]
      BY <2>1, <3>1, StopsBy, PlacesAssumption DEF Abort, IInv, TypeInv
    <3>3. QED
      BY <1>2, <1>5, <3>2 DEF MarkerInv, SameOrigin
  <2>5. QED
    BY <2>3, <2>4
<1>6. CASE p = "checkpoint" /\ PublishCheckpoint(j)
  <2>1. stages'["checkpoint"] = stages["building"]
    BY <1>6, RenamedStage
  <2>2. CountedAt("building")
    BY DEF MarkerInv, Places
  <2>3. QED
    BY <1>1, <1>6, <2>1, <2>2 DEF CountedAt
<1>7. CASE /\ temp[j] = p /\ pc[j] = "release" /\ SameOrigin(p)
           /\ stages'[p].marker = stages[p].marker
  <2>1. p = "checkpoint"
    BY <1>7 DEF IInv, PlaceInv, JobPlace, Where
  <2>2. stages[p].of = cmd[j].manifest
    BY <1>7, <2>1 DEF IInv, StageInv, SameOrigin
  <2>3. cmd[j].output \in Outputs
    BY <1>7, CommandFacts DEF IInv, PlaceInv, JobPlace, Idle
  <2>4. outputs[cmd[j].output] # NONE /\ outputs[cmd[j].output].declares = cmd[j].manifest
    BY <1>7 DEF IInv, DataInv, JobData
  <2>5. outputs'[cmd[j].output] = outputs[cmd[j].output]
    BY <2>3, <2>4, Durable DEF IInv
  <2>6. stages'[p].marker.rows = "all"
    BY <1>7 DEF MarkerInv, CountedAt, SameOrigin
  <2>7. QED
    BY <1>7, <2>1, <2>2, <2>3, <2>4, <2>5, <2>6 DEF CountedAt, SameOrigin
<1>8. QED
  BY <1>3, <1>4, <1>5, <1>6, <1>7, Contents DEF IInv

\* Nothing is counted before the last batch.
LEMMA UnmarkedStep ==
  ASSUME IInv, StageInv', PlaceInv', MarkerInv, NEW j \in Jobs, JobStep(j), NEW i \in Jobs,
         pc'[i] = "stage"
  PROVE  stages'[temp'[i]].marker = NONE
<1>1. temp'[i] \in {"building", i}
  BY DEF PlaceInv, JobPlace, Where
<1>2. temp'[i] \in Places /\ stages'[temp'[i]] # NONE
  BY <1>1 DEF StageInv, Places
<1>3. CASE i # j
  <2>1. temp'[i] = temp[i] /\ pc[i] = "stage"
    BY <1>3, Others DEF IInv
  <2>2. temp[j] # temp[i]
    <3>1. temp[i] = "building" => temp[j] # "building"
      BY <1>3 DEF IInv, StageInv
    <3>2. temp[j] # i
      BY <1>3, NoneAssumption, PlacesAssumption DEF IInv, PlaceInv, JobPlace, Where
    <3>3. QED
      BY <1>1, <2>1, <3>1, <3>2
  <2>3. stages[temp[i]] # NONE
    BY <1>1, <2>1 DEF IInv, StageInv
  <2>4. MakeBuilding(j) => stages["building"] = NONE
    BY Checks DEF MakeBuilding, At
  <2>5. temp[i] # "checkpoint" /\ temp[i] # j
    BY <1>1, <1>3, <2>1, PlacesAssumption
  <2>6. stages'[temp[i]] = stages[temp[i]]
    BY <1>2, <2>1, <2>2, <2>3, <2>4, <2>5, StagesOf DEF IInv
  <2>7. QED
    BY <2>1, <2>6 DEF MarkerInv
<1>4. CASE i = j
  <2>1. CASE pc[j] = "stage"
    <3>1. StageRows(j)
      BY <1>4, <2>1, Moves DEF IInv, TypeInv, Gone
    <3>2. PICK rows \in {"some", "all"} : stages' = [stages EXCEPT ![temp[j]].rows = rows]
      BY <3>1 DEF StageRows
    <3>3. temp' = temp
      BY <3>1 DEF StageRows, locals
    <3>4. stages[temp[j]] \in Stage
      BY <1>1, <1>4, <3>3 DEF IInv, TypeInv, StageInv, Places
    <3>5. stages'[temp[j]].marker = stages[temp[j]].marker
      BY <1>2, <1>4, <3>2, <3>3, <3>4 DEF IInv, TypeInv, Stage
    <3>6. QED
      BY <1>4, <2>1, <3>3, <3>5 DEF MarkerInv
  <2>2. CASE pc[j] # "stage"
    <3>1. CheckOutput(j) \/ MakeBuilding(j)
      <4> USE DEF IInv, TypeInv, Goto, At
      <4>1. CASE Start(j)
        BY <1>4, <4>1 DEF Start
      <4>2. CASE Staging(j)
        BY <1>4, <2>2, <4>2 DEF Staging, Probe, StageRows, WriteMarker, PublishCheckpoint,
                          AdoptCheckpoint, OpenForReset, ResetDerived
      <4>3. CASE Normalization(j)
        <5>1. CASE CreateTable(j)
          <6>1. PICK step \in {<<"resolved_keys", "keys", "endpoints">>,
                               <<"relationship_keys", "endpoints", "from">>,
                               <<"relationship_from", "from", "to">>} :
                  pc' = [pc EXCEPT ![j] = step[3]]
            BY <5>1, Zenon DEF CreateTable
          <6>2. QED
            BY <1>4, <6>1
        <5>2. QED
          BY <1>4, <2>2, <4>3, <5>1 DEF Normalization, OpenStage, ValidateInput, CreateResolved,
                                  FinishNormalization
      <4>4. CASE Publication(j)
        <5>1. ~Gone(j)
          BY <1>4 DEF Gone
        <5>2. CASE Publish(j)
          BY <1>4, <5>1, <5>2 DEF Publish, Leave
        <5>3. QED
          BY <1>4, <2>2, <4>4, <5>2 DEF Publication, ReserveNormal, LinkNormal, SealNormal, ReadNormal,
                        CloneNormal, BuildCatalog, RemoveFile, RemoveDirectory
      <4>5. CASE Stops(j)
        BY <1>4, <4>5, Ways DEF Gone
      <4>6. QED
        BY <4>1, <4>2, <4>3, <4>4, <4>5 DEF JobStep
    <3>2. stages' = [stages EXCEPT ![temp'[j]] = NewStage(j, "none")]
      <4>1. CASE MakeBuilding(j)
        BY <4>1 DEF MakeBuilding, IInv, TypeInv
      <4>2. CASE CheckOutput(j)
        BY <1>4, <4>2 DEF CheckOutput, Goto, IInv, TypeInv
      <4>3. QED
        BY <3>1, <4>1, <4>2
    <3>3. QED
      BY <1>2, <1>4, <3>2 DEF IInv, TypeInv, NewStage
  <2>3. QED
    BY <2>1, <2>2
<1>5. QED
  BY <1>3, <1>4

LEMMA CountStep ==
  ASSUME IInv, IInv', MarkerInv, [Next]_vars
  PROVE  MarkerInv'
<1>1. ASSUME NEW j \in Jobs, JobStep(j) PROVE MarkerInv'
  <2>1. ASSUME NEW p \in Places PROVE CountedAt(p)'
    <3>1. CASE stages'[p] # NONE /\ stages'[p].marker # NONE
      BY <1>1, <3>1, CountedStep
    <3>2. QED
      BY <3>1 DEF CountedAt
  <2>2. ASSUME NEW i \in Jobs, pc'[i] = "stage" PROVE stages'[temp'[i]].marker = NONE
    BY <1>1, <2>2, UnmarkedStep DEF IInv
  <2>3. QED
    BY <2>1, <2>2 DEF MarkerInv
<1>2. CASE RemoveLeftover
  <2>1. \A p \in Places : stages'[p] = stages[p] \/ stages'[p] = NONE
    BY <1>2 DEF RemoveLeftover, IInv, TypeInv
  <2>2. \A p \in Places : CountedAt(p)'
    BY <1>2, <2>1 DEF RemoveLeftover, MarkerInv, CountedAt
  <2>3. \A i \in Jobs : pc'[i] # "stage"
    BY <1>2 DEF RemoveLeftover, Idle
  <2>4. QED
    BY <2>2, <2>3 DEF MarkerInv
<1>3. CASE UNCHANGED vars
  BY <1>3 DEF vars, dirs, locals, MarkerInv, CountedAt
<1>4. QED
  BY <1>1, <1>2, <1>3, NextCases

\* What a step of a resume that is alone starts from.
LEMMA ResumeFacts ==
  ASSUME IInv, RInv, NEW j \in Jobs, ~Idle(j), alone[j], cmd[j].resume
  PROVE  /\ Undisturbed(j) /\ cmd[j].kind = "build" /\ cmd[j].checkpoint /\ cmd[j] \in Commands
         /\ pc[j] \notin {"probe", "mkdir", "stage", "mark", "rename", "read", "clone"}
         /\ pc[j] \notin {"check", "adopt"} => temp[j] = "checkpoint"
         /\ j \notin orphans
         /\ pc[j] \notin Normalizing \cup {"reset"} => lock = NONE
<1>1. cmd[j] \in Commands
  BY DEF IInv, PlaceInv, JobPlace
<1>2. cmd[j].kind = "build" /\ cmd[j].checkpoint
  BY <1>1, CommandFacts
<1>3. Undisturbed(j)
  BY DEF RInv, ResumedInv
<1>4. pc[j] \notin {"probe", "mkdir", "stage", "mark", "rename", "read", "clone"}
  BY <1>2 DEF IInv, PlaceInv, JobPlace
<1>5. pc[j] \notin {"check", "adopt"} => temp[j] = "checkpoint"
  BY <1>2, <1>4 DEF IInv, PlaceInv, JobPlace, Where, Idle
<1>6. pc[j] \notin Normalizing \cup {"reset"} => lock = NONE
  BY <1>3 DEF Undisturbed, RInv, OpenInv
<1>7. QED
  BY <1>1, <1>2, <1>3, <1>4, <1>5, <1>6 DEF Undisturbed

LEMMA ResumedStaging ==
  ASSUME IInv, RInv, NEW j \in Jobs, Staging(j), alone[j], cmd[j].resume
  PROVE  Undisturbed(j)'
<1>1. ~Idle(j)
  BY Ways DEF JobStep, IInv, Continues
<1> USE DEF IInv, TypeInv, Undisturbed, At, Goto, Normalizing, dirs, locals, locks
<1>2. Undisturbed(j) /\ j \notin orphans /\ cmd[j].kind = "build" /\ cmd[j].checkpoint
  BY <1>1, ResumeFacts
<1>3. pc[j] \notin {"check", "adopt"} => temp[j] = "checkpoint"
  BY <1>1, ResumeFacts
<1>4. CASE CheckOutput(j)
  <2>1. outputs[cmd[j].output] = NONE
    BY <1>4 DEF CheckOutput, Possible
  <2>2. QED
    BY <1>2, <1>4, <2>1 DEF CheckOutput
<1>5. CASE AdoptCheckpoint(j)
  <2>1. stages["checkpoint"] # NONE /\ stages["checkpoint"].marker # NONE
    BY <1>5, Checks DEF AdoptCheckpoint
  <2>2. QED
    BY <1>2, <1>5, <2>1 DEF AdoptCheckpoint
<1>6. CASE OpenForReset(j)
  BY <1>2, <1>6 DEF OpenForReset
<1>7. CASE ResetDerived(j)
  <2>1. input[j] = stages["checkpoint"] /\ stages["checkpoint"] # NONE
        /\ stages["checkpoint"].marker # NONE /\ pc[j] = "reset" /\ Linked(j)
    BY <1>2, <1>7 DEF ResetDerived, Linked
  <2>2. stages["checkpoint"].rows = input[j].marker.rows
    BY <1>3, <1>7, <2>1 DEF ResetDerived, Possible, StageOf
  <2>3. stages["checkpoint"] \in Stage
    BY <2>1 DEF Places
  <2>4. stages["checkpoint"].rows = "all"
    BY <2>1, <2>2 DEF RInv, MarkerInv, CountedAt, Places
  <2>5. stages'["checkpoint"] = [stages["checkpoint"] EXCEPT !.tables = Reset(stages["checkpoint"].tables)]
    BY <1>7, <2>1 DEF ResetDerived, Places
  <2>6. Reset(stages["checkpoint"].tables) = {}
    BY <2>3, StageFacts DEF Reset
  <2>7. stages'["checkpoint"].tables = {} /\ stages'["checkpoint"].rows = "all"
        /\ stages'["checkpoint"] # NONE
    BY <2>3, <2>4, <2>5, <2>6, NoneAssumption DEF Stage, Reset
  <2>8. pc'[j] = "open"
    BY <1>7 DEF ResetDerived
  <2>9. Made("open") = {}
    BY DEF Made
  <2>10. QED
    BY <1>2, <1>7, <2>1, <2>7, <2>8, <2>9 DEF ResetDerived
<1>8. QED
  BY <1>1, <1>4, <1>5, <1>6, <1>7, ResumeFacts DEF Staging, Probe, MakeBuilding, StageRows,
     WriteMarker, PublishCheckpoint

\* Whether a table is made in the checkpoint, the rows stay.
LEMMA TablesMade ==
  ASSUME IInv, NEW j \in Jobs, temp[j] = "checkpoint", Linked(j), stages["checkpoint"] # NONE,
         NEW tables \in SUBSET Derived, Tables(j, tables)
  PROVE  /\ stages'["checkpoint"].tables = tables /\ stages'["checkpoint"] # NONE
         /\ stages'["checkpoint"].rows = stages["checkpoint"].rows
<1>1. stages["checkpoint"] \in Stage
  BY DEF IInv, TypeInv, Places
<1>2. stages'["checkpoint"] = [stages["checkpoint"] EXCEPT !.tables = tables]
  BY DEF Tables, IInv, TypeInv, Places
<1>3. stages'["checkpoint"].rows = stages["checkpoint"].rows
      /\ stages'["checkpoint"].tables = tables
  BY <1>1, <1>2 DEF Stage
<1>4. stages'["checkpoint"] # NONE
  BY <1>1, <1>2, StageFacts
<1>5. QED
  BY <1>3, <1>4

LEMMA ResumedNormalization ==
  ASSUME IInv, RInv, NEW j \in Jobs, Normalization(j), alone[j], cmd[j].resume
  PROVE  Undisturbed(j)'
<1>1. ~Idle(j)
  BY Ways DEF JobStep, IInv, Continues
<1> USE DEF IInv, TypeInv, Undisturbed, At, Goto, Normalizing, dirs, locals, locks
<1>2. Undisturbed(j) /\ j \notin orphans /\ Linked(j)
  BY <1>1, ResumeFacts DEF Linked
<1>3. pc[j] \notin {"check", "adopt"} => temp[j] = "checkpoint"
  BY <1>1, ResumeFacts
<1>4. CASE OpenStage(j)
  <2>1. pc'[j] = "validate" /\ pc[j] = "open"
    BY <1>4 DEF OpenStage
  <2>2. Made("validate") = {} /\ Made("open") = {}
    BY DEF Made
  <2>3. input'[j] = stages["checkpoint"]
    BY <1>3, <1>4, <2>1 DEF OpenStage, StageOf
  <2>4. QED
    BY <1>2, <1>3, <1>4, <2>1, <2>2, <2>3 DEF OpenStage
<1>5. CASE ValidateInput(j)
  <2>1. Made("validate") = {} /\ Made("keys") = {}
    BY DEF Made
  <2>2. QED
    BY <1>2, <1>5, <2>1 DEF ValidateInput
<1>6. CASE CreateTable(j)
  <2>1. PICK step \in {<<"resolved_keys", "keys", "endpoints">>,
                       <<"relationship_keys", "endpoints", "from">>,
                       <<"relationship_from", "from", "to">>} :
          /\ At(j, step[2]) /\ Tables(j, StageOf(j).tables \cup {step[1]}) /\ Goto(j, step[3])
    BY <1>6, Zenon DEF CreateTable
  <2>2. UNCHANGED <<normal, linking, outputs, locals, locks>>
    BY <1>6, Zenon DEF CreateTable
  <2>3. pc[j] = step[2] /\ pc'[j] = step[3] /\ step[2] \in {"keys", "endpoints", "from"}
        /\ step[3] \in {"endpoints", "from", "to"}
    BY <2>1
  <2>4. stages["checkpoint"] # NONE /\ stages["checkpoint"].rows = "all"
        /\ stages["checkpoint"].tables = Made(step[2]) /\ temp[j] = "checkpoint"
    BY <1>2, <1>3, <2>3
  <2>5. Made(step[2]) \cup {step[1]} = Made(step[3]) /\ Made(step[3]) \subseteq Derived
    BY DEF Made, Derived
  <2>6. Tables(j, Made(step[3]))
    <3>1. StageOf(j).tables = Made(step[2])
      BY <2>4, Zenon DEF StageOf
    <3>2. QED
      BY <2>1, <2>5, <3>1, Zenon
  <2>7. stages'["checkpoint"].tables = Made(step[3]) /\ stages'["checkpoint"] # NONE
        /\ stages'["checkpoint"].rows = "all"
    BY <1>2, <2>4, <2>5, <2>6, TablesMade
  <2>8. QED
    BY <1>2, <2>2, <2>3, <2>7
<1>7. CASE CreateResolved(j)
  <2>1. pc[j] = "to" /\ pc'[j] = "digest" /\ UNCHANGED <<normal, linking, outputs, locals, locks>>
    BY <1>7 DEF CreateResolved
  <2>2. stages["checkpoint"] # NONE /\ stages["checkpoint"].rows = "all"
        /\ stages["checkpoint"].tables = Made("to") /\ temp[j] = "checkpoint"
    BY <1>2, <1>3, <2>1
  <2>3. (Made("to") \cup {"resolved_relationships"}) \ {"relationship_from", "relationship_keys"}
          = Made("digest") /\ Made("digest") \subseteq Derived
    BY DEF Made, Derived
  <2>4. Tables(j, Made("digest"))
    <3>1. StageOf(j).tables = Made("to")
      BY <2>2, Zenon DEF StageOf
    <3>2. Tables(j, (StageOf(j).tables \cup {"resolved_relationships"})
                      \ {"relationship_from", "relationship_keys"})
      BY <1>7, Zenon DEF CreateResolved
    <3>3. QED
      BY <2>3, <3>1, <3>2, Zenon
  <2>5. stages'["checkpoint"].tables = Made("digest") /\ stages'["checkpoint"] # NONE
        /\ stages'["checkpoint"].rows = "all"
    BY <1>2, <2>2, <2>3, <2>4, TablesMade
  <2>6. QED
    BY <1>2, <2>1, <2>5
<1>8. CASE FinishNormalization(j)
  BY <1>2, <1>8 DEF FinishNormalization
<1>9. QED
  BY <1>4, <1>5, <1>6, <1>7, <1>8 DEF Normalization

LEMMA ResumedPublication ==
  ASSUME IInv, RInv, NEW j \in Jobs, Publication(j), ~Gone(j), alone[j], cmd[j].resume
  PROVE  Undisturbed(j)'
<1>1. ~Idle(j) /\ ~RemoveDirectory(j) /\ (Publish(j) => ReleasesCheckpoint(cmd[j]))
  BY Ways DEF JobStep, IInv, Continues
<1> USE DEF IInv, TypeInv, Undisturbed, At, Goto, Normalizing, dirs, locals, locks
<1>2. Undisturbed(j) /\ j \notin orphans
  BY <1>1, ResumeFacts
<1>3. pc[j] \notin Normalizing \cup {"reset"} => lock = NONE
  BY <1>1, ResumeFacts
<1>4. CASE ReserveNormal(j)
  <2>1. normal = NONE /\ linking = NONE
    BY <1>4 DEF ReserveNormal, Possible
  <2>2. QED
    BY <1>2, <1>4, <2>1 DEF ReserveNormal
<1>5. CASE LinkNormal(j)
  BY <1>2, <1>5 DEF LinkNormal
<1>6. CASE SealNormal(j)
  BY <1>2, <1>6 DEF SealNormal
<1>7. CASE BuildCatalog(j)
  BY <1>2, <1>7 DEF BuildCatalog
<1>8. CASE Publish(j)
  BY <1>1, <1>2, <1>3, <1>8 DEF Publish
<1>9. CASE RemoveFile(j)
  BY <1>2, <1>3, <1>9 DEF RemoveFile, Unlinked
<1>10. QED
  BY <1>1, <1>4, <1>5, <1>6, <1>7, <1>8, <1>9, ResumeFacts DEF Publication, ReadNormal,
     CloneNormal

LEMMA ResumedStep ==
  ASSUME IInv, RInv, [Next]_vars
  PROVE  ResumedInv'
<1>1. ASSUME NEW j \in Jobs, JobStep(j) PROVE ResumedInv'
  <2> SUFFICES ASSUME NEW k \in Jobs, ~Idle(k)', alone'[k], cmd'[k].resume
               PROVE  Undisturbed(k)'
    BY DEF ResumedInv
  <2>1. k = j /\ \A i \in Jobs \ {j} : Idle(i)
    BY <1>1, OnlyActor DEF RInv
  <2>2. CASE Idle(j)
    <3>1. Start(j)
      BY <1>1, <2>2, History
    <3>2. j \notin orphans /\ lock \notin Jobs
      BY <2>1, <2>2 DEF RInv, OpenInv, Idle, Normalizing
    <3>3. pc'[j] = "check" /\ lock' = lock /\ orphans' = orphans
      BY <3>1 DEF Start, IInv, TypeInv, locks
    <3>4. QED
      BY <2>1, <3>2, <3>3 DEF Undisturbed, IInv, TypeInv, Normalizing
  <2>3. CASE ~Idle(j)
    <3>1. alone[j]
      BY <1>1, <2>1, <2>3, History
    <3>2. ~Gone(j)
      BY <2>1 DEF Gone, Idle, IInv, TypeInv
    <3>3. ~Stops(j)
      BY <1>1, <3>2, Ways DEF IInv
    <3>4. Continues(j) /\ (Staging(j) \/ Normalization(j) \/ Publication(j))
      BY <1>1, <2>3, <3>2, <3>3, Ways DEF IInv, JobStep, Start
    <3>5. cmd[j].resume
      BY <2>1, <3>4 DEF Continues
    <3>6. QED
      BY <2>1, <3>1, <3>2, <3>4, <3>5, ResumedStaging, ResumedNormalization, ResumedPublication
  <2>4. QED
    BY <2>2, <2>3
<1>2. CASE RemoveLeftover
  BY <1>2 DEF RemoveLeftover, ResumedInv, Idle
<1>3. CASE UNCHANGED vars
  BY <1>3 DEF vars, dirs, locals, locks, bounds, RInv, ResumedInv, Undisturbed, Idle
<1>4. QED
  BY <1>1, <1>2, <1>3, NextCases

\* What can refuse a resume that is alone.
LEMMA Refusals ==
  ASSUME IInv, RInv, NEW j \in Jobs, ~Idle(j), ~Possible(j), alone[j], cmd[j].resume,
         cmd[j].manifest \in Valid \cap Normalizable
  PROVE  \/ pc[j] \in {"check", "adopt"}
         \/ pc[j] = "reserve" /\ (normal # NONE \/ linking # NONE)
         \/ pc[j] = "reset" /\ \E o \in Outputs :
              outputs[o] # NONE /\ outputs[o].declares = cmd[j].manifest
<1>1. /\ pc[j] \notin {"probe", "mkdir", "stage", "mark", "rename", "read", "clone"}
      /\ pc[j] \notin {"check", "adopt"} => temp[j] = "checkpoint"
      /\ j \notin orphans
      /\ pc[j] \notin Normalizing \cup {"reset"} => lock = NONE
  BY ResumeFacts
<1>2. Undisturbed(j)
  BY ResumeFacts
<1> USE DEF Undisturbed, Normalizing
<1>3. CASE pc[j] \in {"check", "adopt"}
  BY <1>3
<1>4. CASE pc[j] \in {"inspect", "open"}
  BY <1>1, <1>2, <1>4 DEF Possible, StageOf
<1>5. CASE pc[j] = "reset"
  <2>1. input[j] = stages["checkpoint"] /\ stages["checkpoint"] # NONE
        /\ stages["checkpoint"].marker # NONE
    BY <1>2, <1>5
  <2>2. stages["checkpoint"].rows # stages["checkpoint"].marker.rows
    BY <1>1, <1>5, <2>1 DEF Possible, StageOf
  <2>3. \E o \in Outputs : outputs[o] # NONE /\ outputs[o].declares = stages["checkpoint"].of
    BY <2>1, <2>2 DEF RInv, MarkerInv, CountedAt, Places
  <2>4. stages["checkpoint"].of = cmd[j].manifest
    BY <1>1, <1>5, <2>1 DEF IInv, StageInv
  <2>5. QED
    BY <1>5, <2>3, <2>4
<1>6. CASE pc[j] = "validate"
  <2>1. input[j].of = cmd[j].manifest /\ input[j].rows = "all"
    BY <1>2, <1>6 DEF IInv, InputInv
  <2>2. QED
    BY <1>6, <2>1 DEF Possible
<1>7. CASE pc[j] \in {"keys", "endpoints", "from", "to"}
  <2>1. stages["checkpoint"].tables = Made(pc[j]) /\ temp[j] = "checkpoint"
    BY <1>1, <1>2, <1>7
  <2>2. CASE pc[j] = "keys"
    BY <2>1, <2>2 DEF Possible, Absent, StageOf, Made
  <2>3. CASE pc[j] = "endpoints"
    BY <2>1, <2>3 DEF Possible, Absent, StageOf, Made
  <2>4. CASE pc[j] = "from"
    BY <2>1, <2>4 DEF Possible, Absent, StageOf, Made
  <2>5. CASE pc[j] = "to"
    BY <2>1, <2>5 DEF Possible, Absent, StageOf, Made
  <2>6. QED
    BY <1>7, <2>2, <2>3, <2>4, <2>5
<1>8. CASE pc[j] = "digest"
  <2>1. input[j].of = cmd[j].manifest
    BY <1>8 DEF IInv, InputInv
  <2>2. QED
    BY <1>8, <2>1 DEF Possible
<1>9. CASE pc[j] = "reserve"
  BY <1>9 DEF Possible
<1>10. CASE pc[j] \in {"link", "seal", "publish"}
  BY <1>2, <1>10 DEF Possible
<1>11. CASE pc[j] \in {"index", "release"}
  BY <1>11 DEF Possible
<1>12. QED
  BY <1>1, <1>3, <1>4, <1>5, <1>6, <1>7, <1>8, <1>9, <1>10, <1>11 DEF IInv, TypeInv, Steps, Idle

LEMMA ResumeStep ==
  ASSUME IInv, RInv, ResumeGetsThrough, [Next]_vars
  PROVE  ResumeGetsThrough'
<1> DEFINE Told(j) ==
      LET c == refused[j].command  step == refused[j].step IN
      c.resume /\ c.manifest \in Valid \cap Normalizable =>
        \/ step \in {"check", "adopt"}
        \/ step = "reserve" /\ (normal # NONE \/ linking # NONE)
        \/ step = "reset" /\ \E o \in Outputs :
             outputs[o] # NONE /\ outputs[o].declares = c.manifest
<1>1. ASSUME NEW j \in Jobs, JobStep(j) PROVE ResumeGetsThrough'
  <2> SUFFICES ASSUME NEW k \in Jobs, refused'[k] # NONE, alone'[k] PROVE Told(k)'
    BY DEF ResumeGetsThrough
  <2>1. k = j /\ \A l \in Jobs \ {j} : Idle(l)
    BY <1>1, OnlyActor DEF RInv
  <2>2. ~Idle(j) /\ alone' = alone
    BY <1>1, <2>1, History
  <2>3. refused[j] = NONE
    BY <2>1, <2>2 DEF RInv, RefusedInv
  <2>4. Refuse(j) /\ refused' = [refused EXCEPT ![j] = [step |-> pc[j], command |-> cmd[j]]]
    BY <1>1, <2>1, <2>2, <2>3, History
  <2>5. refused'[j] = [step |-> pc[j], command |-> cmd[j]]
    BY <2>4 DEF RInv, LoneInv
  <2>6. /\ normal' = normal /\ outputs' = outputs /\ ~Possible(j)
        /\ pc[j] = "reserve" => linking' = linking
    BY <2>4 DEF Refuse, Abort
  <2>7. SUFFICES ASSUME cmd[j].resume, cmd[j].manifest \in Valid \cap Normalizable
                 PROVE  \/ pc[j] \in {"check", "adopt"}
                        \/ pc[j] = "reserve" /\ (normal # NONE \/ linking # NONE)
                        \/ pc[j] = "reset" /\ \E o \in Outputs :
                             outputs[o] # NONE /\ outputs[o].declares = cmd[j].manifest
    BY <2>1, <2>5, <2>6
  <2>8. QED
    BY <2>1, <2>2, <2>6, <2>7, Refusals
<1>2. CASE RemoveLeftover
  BY <1>2 DEF RemoveLeftover, ResumeGetsThrough
<1>3. CASE UNCHANGED vars
  BY <1>3 DEF vars, dirs, bounds, ResumeGetsThrough
<1>4. QED
  BY <1>1, <1>2, <1>3, NextCases

\* A resume that has the directory to itself is refused only at the checks of
\* paths and identities, or because a publication has begun to remove the
\* checkpoint, wherever the builds before it stopped.
THEOREM ResumesGetThrough == Spec => []ResumeGetsThrough
<1>1. Init => RInv /\ ResumeGetsThrough
  <2> SUFFICES ASSUME Init PROVE RInv /\ ResumeGetsThrough
    OBVIOUS
  <2> USE DEF Init
  <2>1. \A j \in Jobs : j # NONE
    BY NoneAssumption
  <2>2. LoneInv /\ RefusedInv /\ ResumeGetsThrough
    BY DEF LoneInv, RefusedInv, ResumeGetsThrough
  <2>3. OpenInv /\ ResumedInv
    BY <2>1 DEF OpenInv, ResumedInv, Idle
  <2>4. MarkerInv
    BY DEF MarkerInv, CountedAt
  <2>5. QED
    BY <2>2, <2>3, <2>4 DEF RInv
<1>2. IInv /\ IInv' /\ RInv /\ ResumeGetsThrough /\ [Next]_vars => RInv' /\ ResumeGetsThrough'
  BY LoneStep, OpenStep, CountStep, ResumedStep, RefusedStep, ResumeStep DEF RInv
<1>3. QED
  BY Invariance, <1>1, <1>2, PTL DEF Spec

\* What is published stays as it is: no step replaces a generation or a
\* normalized checkpoint, whoever builds for the same path.
THEOREM PublicationsAreFinal ==
  Spec => [][/\ normal # NONE => normal' = normal
             /\ \A o \in Outputs : outputs[o] # NONE => outputs'[o] = outputs[o]]_vars
<1> DEFINE Final == /\ normal # NONE => normal' = normal
                    /\ \A o \in Outputs : outputs[o] # NONE => outputs'[o] = outputs[o]
<1>1. ASSUME IInv, [Next]_vars PROVE Final
  <2>1. ASSUME NEW j \in Jobs, JobStep(j) PROVE Final
    BY <1>1, <2>1, Durable DEF IInv
  <2>2. CASE RemoveLeftover
    BY <2>2 DEF RemoveLeftover
  <2>3. CASE UNCHANGED vars
    BY <2>3 DEF vars, dirs
  <2>4. QED
    BY <1>1, <2>1, <2>2, <2>3, NextCases
<1>2. IInv /\ [Next]_vars => [Final]_vars
  BY <1>1
<1>3. QED
  BY Invariance, <1>2, PTL DEF Spec
================================================================================
