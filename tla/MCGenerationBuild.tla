--------------------------- MODULE MCGenerationBuild ---------------------------
(* Small instances of GenerationBuild for TLC.                             *)
EXTENDS GenerationBuild, TLC

CONSTANTS o1, o2, m1, m2, b1, b2

MCOutputs == {o1, o2}
MCManifests == {m1, m2}
MCBuilds == {b1, b2}

Fresh(o, m, normalized) ==
  [kind |-> "build", output |-> o, manifest |-> m, build |-> b1, checkpoint |-> TRUE,
   resume |-> FALSE, normalized |-> normalized, accepts |-> NONE, acceptsOutput |-> NONE]
Resumed(c) == [c EXCEPT !.resume = TRUE]

MCCommands ==
  { Fresh(o1, m1, TRUE), Resumed(Fresh(o1, m1, TRUE)), Fresh(o2, m2, FALSE),
    \* the wrong manifest for the checkpoint of o1
    Resumed(Fresh(o1, m2, FALSE)),
    \* a reviewed checkpoint of another build and output
    [Resumed(Fresh(o2, m1, FALSE)) EXCEPT
       !.build = b2, !.accepts = b1, !.acceptsOutput = o1],
    \* no checkpoint
    [Fresh(o1, m1, FALSE) EXCEPT !.checkpoint = FALSE],
    \* the catalog only
    [Fresh(o2, m1, TRUE) EXCEPT !.kind = "catalog", !.checkpoint = FALSE],
    [Fresh(o2, m2, TRUE) EXCEPT !.kind = "catalog", !.checkpoint = FALSE] }

MCSymmetry == Permutations(Jobs)
=============================================================================
