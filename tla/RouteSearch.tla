----------------------------- MODULE RouteSearch -----------------------------
(***************************************************************************)
(* One route query (internal/routing route.go, forced.go): snap both ends, *)
(* search labels in the order of their cost plus a lower bound, rebuild    *)
(* the steps and their geometry.  A label's state is a node, the edge it   *)
(* was reached by and the state of the restriction automaton.              *)
(*                                                                         *)
(* A query of the router in memory is RouteSnaps' plain search; a query of *)
(* the prepared router is the accelerated one, with the reverse support    *)
(* file or without it.                                                     *)
(***************************************************************************)
EXTENDS RoutePreparation, PathVerifier

CONSTANTS
  Roads,       \* the graphs by the names of their areas
  Queries      \* records [area, from, to, limit, router]

ASSUME RoadsAssumption == \A area \in DOMAIN Roads : Audited(Roads[area])

\* Prepared once for each graph, before any query.
InMemory == [area \in DOMAIN Roads |-> NewRouter(Roads[area])]
Prepared == [area \in DOMAIN Roads |-> OpenPreparedRouter(Roads[area], FALSE)]
Certified == [area \in DOMAIN Roads |-> OpenPreparedRouter(Roads[area], TRUE)]

VARIABLES
  query,     \* the query
  router,    \* the open router
  phase,     \* "open", "snap", "begin", "search", "draw" or "answered"
  snaps,     \* the snaps of the two ends
  search,    \* labels, best label of each state, queue, goal and error
  bounds,    \* LowerBoundSeconds and IncumbentSeconds
  answer,    \* the error and the result
  optimum    \* history variable: the least cost of a legal walk
vars == <<query, router, phase, snaps, search, bounds, answer, optimum>>

Graph == Roads[query.area]
From == snaps[1]
To == snaps[2]
Targets == Directions(Graph, To)

\* The node a goal is measured to, and the cost from there.
Goal(dst) ==
  IF dst.fraction = Whole THEN [node |-> Graph.edges[dst.edge].end, cost |-> 0]
  ELSE [node |-> Start(Graph, dst.edge), cost |-> Seconds(Graph, dst.edge, dst.fraction)]
Goals == [i \in DOMAIN Targets |-> Goal(Targets[i])]

NoLabel == 0
NoGoal == [cost |-> Infinite, prev |-> NoLabel, last |-> <<>>]
NoSearch == [labels |-> <<>>, best |-> <<>>, queue |-> {}, goal |-> NoGoal, error |-> "none"]
NoResult == [steps |-> <<>>, metres |-> 0, seconds |-> 0, geometry |-> <<>>]

Fail(s, why) == [s EXCEPT !.error = why]

Step(e, from, to) == [edge |-> e, from |-> from, to |-> to]

-----------------------------------------------------------------------------
\* push: a label that does not improve its state or cannot improve the goal is dropped.
Push(s, state, cost, prev, steps) ==
  LET bound == cost + Heuristic(Graph, router, Goals, state.node)
      number == Len(s.labels) + 1
  IN IF s.error # "none" THEN s
     ELSE IF state \in DOMAIN s.best /\ s.labels[s.best[state]].cost <= cost THEN s
     ELSE IF router.accelerated /\ ~Present(Graph, state.node) THEN Fail(s, "missing_tile")
     ELSE IF bound >= s.goal.cost THEN s
     ELSE IF Len(s.labels) >= query.limit THEN Fail(s, "budget")
     ELSE [s EXCEPT
             !.labels = Append(@, [state |-> state, cost |-> cost, prev |-> prev, steps |-> steps]),
             !.best = (state :> number) @@ @,
             !.queue = @ \cup {[label |-> number, cost |-> bound]}]

ImproveGoal(s, cost, prev, last) ==
  IF s.error = "none" /\ cost < s.goal.cost
  THEN [s EXCEPT !.goal = [cost |-> cost, prev |-> prev, last |-> last]] ELSE s

\* A source and a target on the same edge, the target ahead.
Direct(s, src) ==
  FoldLeft(LAMBDA t, dst :
             IF src.edge = dst.edge /\ dst.fraction >= src.fraction
             THEN ImproveGoal(t, Seconds(Graph, src.edge, dst.fraction - src.fraction), NoLabel,
                              <<Step(src.edge, src.fraction, dst.fraction)>>)
             ELSE t,
           s, Targets)

\* The labels a source direction starts from.
Depart(s, src) ==
  LET end == Graph.edges[src.edge].end
      rest == Whole - src.fraction
      turn == Advance(router, 0, src.edge)
      AtNode(n) == [node |-> n, last |-> NoEdge, turn |-> 0]
  IN IF src.fraction = 0 THEN Push(s, AtNode(Start(Graph, src.edge)), 0, NoLabel, <<>>)
     ELSE IF src.fraction = Whole THEN Push(s, AtNode(end), 0, NoLabel, <<>>)
     ELSE IF turn.banned THEN s
     ELSE Push(s, [node |-> end, last |-> src.edge, turn |-> turn.state],
               Seconds(Graph, src.edge, rest), NoLabel, <<Step(src.edge, src.fraction, Whole)>>)

StartSearch ==
  FoldLeft(LAMBDA s, src : Depart(Direct(s, src), src), NoSearch, Directions(Graph, From))

\* Mutant: forced continuations run past the targets.
NothingProtected == {}

\* Nodes where the search ends, and nodes that a forced continuation stops at.
GoalNodes ==
  { Graph.edges[dst.edge].end : dst \in { d \in ToSet(Targets) : d.fraction = Whole } }
  \cup { Start(Graph, dst.edge) : dst \in { d \in ToSet(Targets) : d.fraction = 0 } }
Protected ==
  UNION { {Start(Graph, dst.edge), Graph.edges[dst.edge].end} : dst \in ToSet(Targets) }

\* The next edge may follow the state's last one.
MayFollow(state, e) ==
  /\ state.last # NoEdge => TurnAllowed(Graph, state.last, e)
  /\ Allowed(Graph, e)
  /\ ~Advance(router, state.turn, e).banned

After(state, e) ==
  [node |-> Graph.edges[e].end, last |-> e, turn |-> Advance(router, state.turn, e).state]

\* forcedContinuation: go on while exactly one departure is legal.
MaxForced == 64
RECURSIVE ForcedContinuation(_, _)
ForcedContinuation(c, budget) ==
  LET node == Graph.nodes[c.state.node]
      legal == { e \in ToSet(node.edges) : MayFollow(c.state, e) }
      Go(only) == [c EXCEPT !.cost = @ + Seconds(Graph, only, Whole), !.edges = Append(@, only),
                            !.state = After(@, only)]
  IN IF Len(c.edges) > MaxForced \/ c.state.node \in Protected \/ c.cost >= budget THEN c
     ELSE IF ~Present(Graph, c.state.node) THEN [c EXCEPT !.error = "missing_tile"]
     ELSE IF ~node.access \/ node.transitions # <<>> \/ Cardinality(legal) # 1 THEN c
     ELSE ForcedContinuation(Go(CHOOSE e \in legal : TRUE), budget)

\* One departure of the popped label: perhaps it runs onto a target, and then
\* it leads to a new label.
Arrive(s, number, e) ==
  FoldLeft(LAMBDA t, dst :
             IF e = dst.edge /\ dst.fraction > 0
             THEN ImproveGoal(t, s.labels[number].cost + Seconds(Graph, e, dst.fraction), number,
                              <<Step(e, 0, dst.fraction)>>)
             ELSE t,
           s, Targets)

Lead(s, number, c) ==
  IF c.error # "none" THEN Fail(s, c.error)
  ELSE IF c.cost >= s.goal.cost THEN s
  ELSE Push(s, c.state, c.cost, number, [i \in DOMAIN c.edges |-> Step(c.edges[i], 0, Whole)])

Leave(s, number, e) ==
  LET cur == s.labels[number]
      c == [state |-> After(cur.state, e), cost |-> cur.cost + Seconds(Graph, e, Whole),
            edges |-> <<e>>, error |-> "none"]
  IN IF c.cost >= s.goal.cost THEN s
     ELSE Lead(s, number, IF router.accelerated THEN ForcedContinuation(c, s.goal.cost) ELSE c)

Expand(s, number, e) ==
  IF s.error # "none" \/ ~MayFollow(s.labels[number].state, e) THEN s
  ELSE Leave(Arrive(s, number, e), number, e)

Reach(s, number) ==
  IF Joined(Graph, {s.labels[number].state.node}) \cap GoalNodes = {} THEN s
  ELSE [s EXCEPT !.goal = [cost |-> s.labels[number].cost, prev |-> number, last |-> <<>>]]

\* Settling a label: a goal node is reached, then every departure is tried.
Settled(s, number) ==
  LET n == s.labels[number].state.node
      failure == DeparturesError(Graph, n)
  IN IF failure # "none" THEN Fail(s, failure)
     ELSE FoldLeft(LAMBDA t, e : Expand(t, number, e), Reach(s, number), Departures(Graph, n))

-----------------------------------------------------------------------------
\* The walks a car may take, told from the records alone: where the walk is
\* and the edges it ran along.  MaxWalk bounds their length.
MaxWalk == 9
MayExtend(g, w, e) ==
  LET path == Append(w.path, e)
  IN /\ w.path # <<>> => TurnAllowed(g, Last(w.path), e)
     /\ Allowed(g, e)
     /\ ~\E rule \in ToSet(g.rules) : IsSuffix(rule, path)

Onward(g, w) ==
  { e \in UNION { ToSet(g.nodes[m].edges)
                  : m \in { m \in Joined(g, {w.node}) : Present(g, m) /\ g.nodes[m].access } } :
      MayExtend(g, w, e) }

Starts(g, from) ==
  { CASE src.fraction = 0 -> [node |-> Start(g, src.edge), path |-> <<>>, cost |-> 0]
      [] src.fraction = Whole -> [node |-> g.edges[src.edge].end, path |-> <<>>, cost |-> 0]
      [] OTHER -> [node |-> g.edges[src.edge].end, path |-> <<src.edge>>,
                   cost |-> Seconds(g, src.edge, Whole - src.fraction)]
    : src \in ToSet(Directions(g, from)) }

RECURSIVE Walks(_, _, _)
Walks(g, walks, length) ==
  IF length = 0 THEN walks
  ELSE LET longer == UNION { { [node |-> g.edges[e].end, path |-> Append(w.path, e),
                                cost |-> w.cost + Seconds(g, e, Whole)] : e \in Onward(g, w) }
                             : w \in walks }
       IN walks \cup Walks(g, longer, length - 1)

Arrivals(g, w, to) ==
  LET At0(dst) == IF dst.fraction = 0 THEN Start(g, dst.edge) ELSE g.edges[dst.edge].end
      targets == ToSet(Directions(g, to))
  IN { w.cost : dst \in { d \in targets : d.fraction # 1 /\ At0(d) \in Joined(g, {w.node}) } }
     \cup { w.cost + Seconds(g, dst.edge, 1)
            : dst \in { d \in targets : d.fraction = 1 /\ d.edge \in Onward(g, w) } }

Optimum(g, from, to) ==
  LET ahead == { Seconds(g, src.edge, dst.fraction - src.fraction)
                 : <<src, dst>> \in { <<s, d>> \in ToSet(Directions(g, from)) \X ToSet(Directions(g, to)) :
                                        s.edge = d.edge /\ s.fraction <= d.fraction } }
  IN Min({Infinite} \cup ahead
         \cup UNION { Arrivals(g, w, to) : w \in Walks(g, Starts(g, from), MaxWalk) })

-----------------------------------------------------------------------------
Init ==
  /\ query \in Queries
  /\ router = [accelerated |-> FALSE]
  /\ phase = "open"
  /\ snaps = <<>>
  /\ search = NoSearch
  /\ bounds = [lower |-> 0, incumbent |-> Infinite]
  /\ answer = [error |-> "none", result |-> NoResult]
  /\ optimum = Infinite

Answer(why, result) ==
  /\ phase' = "answered"
  /\ answer' = [error |-> why, result |-> result]

\* The router is opened; a file of turns that is not valid is refused.
Open ==
  /\ phase = "open"
  /\ router' = CASE query.router = "memory" -> InMemory[query.area]
                 [] query.router = "prepared" -> Prepared[query.area]
                 [] query.router = "certified" -> Certified[query.area]
  /\ IF router'.accelerated /\ ~TurnsAreValid(router'.turns)
     THEN Answer("invalid_turns", NoResult)
     ELSE phase' = "snap" /\ UNCHANGED answer
  /\ UNCHANGED <<query, snaps, search, bounds, optimum>>

\* SnapContext at both ends; the first that fails is the answer.
Snap ==
  /\ phase = "snap"
  /\ LET two == <<Nearest(Graph, query.from), Nearest(Graph, query.to)>>
         failed == SelectSeq(two, LAMBDA snap : snap.error # "none")
     IN IF failed # <<>> THEN Answer(failed[1].error, NoResult) /\ UNCHANGED snaps
        ELSE snaps' = two /\ phase' = "begin" /\ UNCHANGED answer
  /\ UNCHANGED <<query, router, search, bounds, optimum>>

\* routeSnaps up to its loop.
Begin ==
  /\ phase = "begin"
  /\ LET unreadable == \E i \in {1, 2} : ~Present(Graph, Graph.edges[snaps[i].edge].end)
         refusal == IF unreadable THEN "missing_tile"
                    ELSE IF Directions(Graph, From) = <<>> \/ Targets = <<>> THEN "no_direction"
                    ELSE IF From # To /\ router.accelerated /\ router.potential.seconds = 0 THEN "no_potential"
                    ELSE "none"
     IN /\ optimum' = IF unreadable THEN Infinite ELSE Optimum(Graph, From, To)
        /\ IF refusal # "none" THEN Answer(refusal, NoResult) /\ UNCHANGED search
           ELSE IF From = To
           THEN /\ Answer("none", [NoResult EXCEPT !.geometry = <<SnapPoint(Graph, From), SnapPoint(Graph, To)>>])
                /\ UNCHANGED search
           ELSE /\ search' = StartSearch
                /\ IF search'.error # "none" THEN Answer(search'.error, NoResult)
                   ELSE phase' = "search" /\ UNCHANGED answer
  /\ UNCHANGED <<query, router, snaps, bounds>>

\* The loop pops the least bound.
Popped ==
  CHOOSE i \in search.queue : \A j \in search.queue :
    \/ i.cost < j.cost
    \/ i.cost = j.cost /\ i.label <= j.label
Outgrown(item) == search.best[search.labels[item.label].state] # item.label
Dequeued == [search EXCEPT !.queue = @ \ {Popped}]

\* A label that its state has outgrown is skipped.
Skip ==
  /\ phase = "search" /\ search.queue # {}
  /\ Outgrown(Popped)
  /\ search' = Dequeued
  /\ UNCHANGED <<query, router, phase, snaps, bounds, answer, optimum>>

Settle ==
  /\ phase = "search" /\ search.queue # {}
  /\ ~Outgrown(Popped) /\ Popped.cost < search.goal.cost
  /\ bounds' = [lower |-> Popped.cost, incumbent |-> search.goal.cost]
  /\ search' = Settled(Dequeued, Popped.label)
  /\ IF search'.error # "none" THEN Answer(search'.error, NoResult) ELSE UNCHANGED <<phase, answer>>
  /\ UNCHANGED <<query, router, snaps, optimum>>

\* No label left can improve the goal.
Proven ==
  /\ phase = "search" /\ search.queue # {}
  /\ ~Outgrown(Popped) /\ Popped.cost >= search.goal.cost
  /\ bounds' = [lower |-> Popped.cost, incumbent |-> search.goal.cost]
  /\ search' = Dequeued
  /\ phase' = "draw"
  /\ UNCHANGED <<query, router, snaps, answer, optimum>>

Exhausted ==
  /\ phase = "search" /\ search.queue = {}
  /\ phase' = "draw"
  /\ UNCHANGED <<query, router, snaps, search, bounds, answer, optimum>>

\* The steps of the labels from the goal back to its source.
RECURSIVE StepsTo(_)
StepsTo(number) ==
  IF number = NoLabel THEN <<>>
  ELSE StepsTo(search.labels[number].prev) \o search.labels[number].steps

Steps == StepsTo(search.goal.prev) \o search.goal.last

\* finishGeometry.
Draw ==
  /\ phase = "draw"
  /\ LET steps == Steps
         parts == [i \in DOMAIN steps |-> Clip(Graph, steps[i])]
         gap == \E i \in 2..Len(steps) : Distance(Last(parts[i - 1]), parts[i][1]) > ContiguousGap
         line == FlattenSeq([i \in DOMAIN parts |-> IF i = 1 THEN parts[i] ELSE Tail(parts[i])])
     IN IF search.goal.cost = Infinite THEN Answer("unreachable", NoResult)
        ELSE IF gap THEN Answer("not_contiguous", NoResult)
        ELSE Answer("none", [steps |-> steps, metres |-> Metres(Graph, steps), seconds |-> Cost(Graph, steps),
                             geometry |-> IF Len(line) < 2 THEN <<SnapPoint(Graph, From), SnapPoint(Graph, To)>>
                                          ELSE line])
  /\ UNCHANGED <<query, router, snaps, search, bounds, optimum>>

\* The context ends: looked at for each snap candidate, each pop and each step drawn.
Cancel ==
  /\ \/ phase = "snap"
     \/ phase = "search" /\ search.queue # {}
     \/ phase = "draw" /\ Steps # <<>>
  /\ Answer("cancelled", NoResult)
  /\ UNCHANGED <<query, router, snaps, search, bounds, optimum>>

Next == Open \/ Snap \/ Begin \/ Skip \/ Settle \/ Proven \/ Exhausted \/ Draw \/ Cancel

Spec == Init /\ [][Next]_vars

-----------------------------------------------------------------------------
\* A route that is returned costs as little as any legal walk between the two
\* snaps, and a pair is called unreachable only if no legal walk joins it: the
\* bounds, the pruning, the dominance of labels and the forced continuations
\* lose nothing, and the prepared file of turns is always valid.
RouteIsOptimal ==
  /\ answer.error # "invalid_turns"
  /\ phase = "answered" /\ answer.error = "none" => answer.result.seconds = optimum
  /\ answer.error = "unreachable" => optimum = Infinite

\* The audit admits shapes that end a metre from their nodes, so that those of one
\* junction end apart; drawing and the verifier allow half a metre at a joint, the
\* verifier a tenth of it at a snap.
Spread == [area \in DOMAIN Roads |-> SpreadOf(Roads[area])]

\* A returned route passes the repository's own verifier, which knows neither
\* labels nor automaton, except that it may start or end as far from its snap as
\* shapes of a junction are apart; its drawing never breaks where they are close
\* enough.  (Two snaps on the same node by different edges have the empty route,
\* which costs nothing.)
Coincident == From # To /\ answer.result.steps = <<>> /\ answer.result.seconds = 0
RouteIsLegal ==
  LET spread == Spread[query.area]
      result == answer.result
  IN /\ answer.error = "not_contiguous" => spread > ContiguousGap
     /\ phase = "answered" /\ answer.error = "none" =>
          \/ Verify(Graph, From, To, result)
          \/ /\ VerifyPath(Graph, From, To, result)
             /\ MeetsSnaps(Graph, From, To, result.geometry, spread)
          \/ Coincident

\* What a query reports about the cost, however it ends: no route is cheaper
\* than LowerBoundSeconds unless IncumbentSeconds is already the least cost,
\* and no incumbent is below the least cost.
BoundsAreHonest ==
  phase \notin {"open", "snap", "begin"} /\ snaps # <<>> =>
    /\ optimum <= bounds.incumbent
    /\ bounds.lower <= optimum \/ bounds.incumbent = optimum
=============================================================================
