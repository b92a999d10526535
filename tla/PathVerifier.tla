---------------------------- MODULE PathVerifier ----------------------------
(***************************************************************************)
(* The repository's own offline check of a returned route (verify.go): it  *)
(* matches prohibited sequences directly and recomputes access, cost and   *)
(* shape from the records, without labels, automaton or bounds.            *)
(***************************************************************************)
EXTENDS RoadGraph

ContiguousGap == 5    \* decimetres
SnapGap == 1

\* The point of an edge at a fraction (Shape and clip, for straight edges).
At(g, e, fraction) ==
  LET from == g.edges[e].shapeStart
      to == g.edges[e].shapeEnd
  IN from + ((to - from) * fraction) \div Whole

SnapPoint(g, snap) == At(g, snap.edge, snap.fraction)

Clip(g, step) == <<At(g, step.edge, step.from), At(g, step.edge, step.to)>>

\* The end of an edge joins the start of the next through nodes a car may use.
JoinsAt(g, n, m) ==
  LET open == { k \in Joined(g, {n}) : Present(g, k) /\ g.nodes[k].access } IN m \in open

StepIsLegal(g, steps, i) ==
  LET step == steps[i]
      start == Start(g, step.edge)
  IN /\ 0 <= step.from /\ step.from <= step.to /\ step.to <= Whole
     /\ i > 1 => step.from = 0
     /\ i < Len(steps) => step.to = Whole
     /\ Allowed(g, step.edge)
     /\ i > 1 =>
          /\ TurnAllowed(g, steps[i - 1].edge, step.edge)
          /\ JoinsAt(g, g.edges[steps[i - 1].edge].end, start)
          /\ Distance(Clip(g, steps[i - 1])[2], Clip(g, step)[1]) <= ContiguousGap

\* No stretch of the path is a prohibited sequence.
NoProhibitedSequence(g, steps) ==
  LET path == [i \in DOMAIN steps |-> steps[i].edge]
  IN \A rule \in ToSet(g.rules), i \in DOMAIN path :
       i + Len(rule) - 1 <= Len(path) => SubSeq(path, i, i + Len(rule) - 1) # rule

\* The geometry is the clipped steps, joints given once.
Drawn(g, steps) ==
  FlattenSeq([i \in DOMAIN steps |-> IF i = 1 THEN Clip(g, steps[i]) ELSE Tail(Clip(g, steps[i]))])

Metres(g, steps) ==
  FoldLeft(LAMBDA sum, step : sum + (g.edges[step.edge].length * (step.to - step.from)) \div Whole, 0, steps)
Cost(g, steps) ==
  FoldLeft(LAMBDA sum, step : sum + Seconds(g, step.edge, step.to - step.from), 0, steps)

\* The route starts and ends where its snaps are.
MeetsSnaps(g, from, to, drawn, gap) ==
  /\ Distance(drawn[1], SnapPoint(g, from)) <= gap
  /\ Distance(Last(drawn), SnapPoint(g, to)) <= gap

VerifyPath(g, from, to, result) ==
  LET steps == result.steps
      drawn == result.geometry
  IN /\ Len(drawn) >= 2
     /\ steps = <<>> => /\ from.edge = to.edge /\ from.fraction = to.fraction
                        /\ result.metres = 0 /\ result.seconds = 0
     /\ \A i \in DOMAIN steps : StepIsLegal(g, steps, i)
     /\ NoProhibitedSequence(g, steps)
     /\ steps # <<>> => drawn = Drawn(g, steps)
     /\ result.metres = Metres(g, steps) /\ result.seconds = Cost(g, steps)

Verify(g, from, to, result) ==
  VerifyPath(g, from, to, result) /\ MeetsSnaps(g, from, to, result.geometry, SnapGap)

\* How far apart shapes end at a node and those joined to it, at most.
ShapeEnds(g, n) ==
  LET joined == Joined(g, {n}) \cap DOMAIN g.nodes
  IN { g.edges[e].shapeStart : e \in UNION { ToSet(g.nodes[m].edges) : m \in joined } }
     \cup { g.edges[e].shapeEnd : e \in { f \in DOMAIN g.edges : g.edges[f].end \in joined } }
SpreadOf(g) ==
  Max(UNION { { Distance(x, y) : x \in ShapeEnds(g, n), y \in ShapeEnds(g, n) } : n \in DOMAIN g.nodes })
=============================================================================
