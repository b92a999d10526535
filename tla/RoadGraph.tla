------------------------------ MODULE RoadGraph ------------------------------
(***************************************************************************)
(* The road graph as the router reads it (internal/routing reader.go,      *)
(* route.go, potential.go) and the audit that admits a graph (audit.go).   *)
(*                                                                         *)
(* A graph g is a record.  g.nodes and g.edges hold the records of the     *)
(* retained tiles by their IDs; an ID outside the domain belongs to an     *)
(* absent tile.  g.rules is the sequence of the paths that complex         *)
(* restrictions prohibit, g.near[p] the edges near a place p, each with    *)
(* its distance and the fraction where p projects onto it.                 *)
(*                                                                         *)
(* Positions are decimetres on a line; every edge is drawn straight from   *)
(* g.edges[e].shapeStart to g.edges[e].shapeEnd, which need not be where   *)
(* its nodes are.  A fraction of an edge is 0, 1 or 2 halves, and lengths  *)
(* are such that half an edge takes a whole number of seconds.             *)
(***************************************************************************)
EXTENDS TurnRules, FiniteSetsExt

Whole == 2            \* an edge is two halves
MaxGap == 100         \* metres from a place to the road it snaps to
Infinite == 1000000   \* no cost of a bounded graph reaches it
NoEdge == 0           \* the ID `invalid'

Distance(x, y) == IF x < y THEN y - x ELSE x - y

Present(g, n) == n \in DOMAIN g.nodes

Start(g, e) == CHOOSE n \in DOMAIN g.nodes : e \in ToSet(g.nodes[n].edges)

Transitions(g, n) == ToSet(g.nodes[n].transitions)

\* The seconds that `halves' of an edge take (speed in km/h).
Seconds(g, e, halves) == (g.edges[e].length * halves * 9) \div (5 * g.edges[e].speed)

\* AccessRules, and the profile's reading of them.
AccessRules(g, e) == g.edges[e].rules
Threshold == <<190, 200, 500, 180, 110>>
Forbids(rule) == IF rule.type \in 1..5 THEN rule.value < Threshold[rule.type] ELSE rule.auto

Allowed(g, e) ==
  LET edge == g.edges[e]
  IN /\ ~edge.shortcut /\ edge.auto /\ ~edge.destination
     /\ edge.speed \in 1..140 /\ edge.length > 0
     /\ edge.use \notin {3, 7} /\ edge.use <= 11
     /\ \A rule \in AccessRules(g, e) : ~Forbids(rule)

\* Readable only if the end node is present.
Opposite(g, e) == g.nodes[g.edges[e].end].edges[g.edges[e].opp + 1]

\* The two directions of a snap that the profile permits.
Directions(g, snap) ==
  SelectSeq(<<[edge |-> snap.edge, fraction |-> snap.fraction],
              [edge |-> Opposite(g, snap.edge), fraction |-> Whole - snap.fraction]>>,
            LAMBDA d : Allowed(g, d.edge))

\* SnapContext: the nearest eligible road, the lower ID if two are as near.
Eligible(g, c) == ~g.edges[c.edge].shortcut /\ g.edges[c.edge].class >= 2 /\ ~g.edges[c.edge].covered
Refused(why) == [edge |-> NoEdge, fraction |-> 0, error |-> why]
Nearest(g, place) ==
  LET eligible == { c \in g.near[place] : Eligible(g, c) }
      unreadable == { c \in eligible : ~Allowed(g, c.edge) /\ ~Present(g, g.edges[c.edge].end) }
      usable == { c \in eligible : /\ c.gap <= MaxGap
                                   /\ Allowed(g, c.edge) \/ Allowed(g, Opposite(g, c.edge)) }
      best == CHOOSE c \in usable : \A d \in usable :
                \/ c.gap < d.gap
                \/ c.gap = d.gap /\ c.edge <= d.edge
  IN IF place \notin DOMAIN g.near \/ unreadable # {} THEN Refused("missing_tile")
     ELSE IF usable = {} THEN Refused("unsnappable")
     ELSE [edge |-> best.edge, fraction |-> best.fraction, error |-> "none"]

\* The nodes that departures visits from a set of nodes: it follows the
\* transitions of the nodes a car may use.
RECURSIVE Joined(_, _)
Joined(g, S) ==
  LET open == { n \in S : Present(g, n) /\ g.nodes[n].access }
      wider == S \cup UNION { Transitions(g, n) : n \in open }
  IN IF wider = S THEN S ELSE Joined(g, wider)

Departures(g, n) ==
  LET open == { m \in Joined(g, {n}) : g.nodes[m].access }
  IN Ascending({ e \in UNION { ToSet(g.nodes[m].edges) : m \in open } : ~g.edges[e].shortcut })

DeparturesError(g, n) ==
  IF \E m \in Joined(g, {n}) : ~Present(g, m) THEN "missing_tile"
  ELSE IF Cardinality(Joined(g, {n})) > 3 THEN "invalid_hierarchy"
  ELSE "none"

\* canonical: nodes joined by transitions share the point of the lowest ID.
RECURSIVE Equivalent(_, _)
Equivalent(g, S) ==
  LET wider == S \cup { m \in UNION { Transitions(g, n) : n \in S } : Present(g, m) }
  IN IF wider = S THEN S ELSE Equivalent(g, wider)

Canonical(g, n) == g.nodes[Min(Equivalent(g, {n}))].x

\* A turn from one edge to the next that no simple restriction and no reversal rules out.
TurnAllowed(g, last, e) ==
  /\ g.edges[last].oppLocal # g.edges[e].local
  /\ ~(g.edges[e].local < 8 /\ g.edges[e].local \in g.edges[last].simple)

-----------------------------------------------------------------------------
\* The audit of a graph; absent tiles are admitted.
TransitionGap == 1
GeometryGap == 10
AuditTransition(g, n, m) ==
  /\ Distance(g.nodes[n].x, g.nodes[m].x) <= TransitionGap
  /\ n \in Transitions(g, m)

\* The ends of a shape are near the nodes of its edge, as far as those are present.
EndsWithin(g, n, e, gap) ==
  LET edge == g.edges[e]
  IN /\ Distance(edge.shapeStart, g.nodes[n].x) <= gap
     /\ Present(g, edge.end) => Distance(edge.shapeEnd, g.nodes[edge.end].x) <= gap

AuditEdge(g, n, e) ==
  /\ g.edges[e].shortcut \/ EndsWithin(g, n, e, GeometryGap)
  /\ Present(g, g.edges[e].end) =>
       /\ g.edges[e].opp < Len(g.nodes[g.edges[e].end].edges)
       /\ g.edges[Opposite(g, e)].end = n

Audited(g) ==
  \A n \in DOMAIN g.nodes :
    /\ \A m \in Transitions(g, n) : Present(g, m) => AuditTransition(g, n, m)
    /\ \A e \in ToSet(g.nodes[n].edges) : AuditEdge(g, n, e)
=============================================================================
