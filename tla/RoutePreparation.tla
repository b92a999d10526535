--------------------------- MODULE RoutePreparation ---------------------------
(***************************************************************************)
(* What is prepared offline from a graph to search it faster: the          *)
(* geographic potential (potential.go), the reverse support bits and the   *)
(* incoming edges they serve (reverse_support.go, incoming.go) and the     *)
(* landmark vectors (landmarks.go); and the router that opens them.        *)
(***************************************************************************)
EXTENDS RoadGraph

CONSTANT Quantum   \* the spacing of the stored costs, in seconds (float32 in the code)
ASSUME QuantumAssumption == Quantum \in Nat \ {0}

\* PrepareScoutPotential: the least seconds per decimetre of a permitted edge,
\* as a fraction; 0 if no edge covers a distance.
Paces(g) ==
  { [seconds |-> Seconds(g, e, Whole),
     distance |-> Distance(Canonical(g, Start(g, e)), Canonical(g, g.edges[e].end))]
    : e \in { e \in DOMAIN g.edges : Allowed(g, e) /\ Present(g, g.edges[e].end) } }

Potential(g) ==
  LET moving == { p \in Paces(g) : p.distance > 0 }
  IN IF moving = {} THEN [seconds |-> 0, distance |-> 1]
     ELSE CHOOSE p \in moving : \A q \in moving : p.seconds * q.distance <= q.seconds * p.distance

-----------------------------------------------------------------------------
\* scanReverseSupport: the nodes some incoming edge of which has an opposite
\* that is a shortcut or that names another edge as its own opposite.
Exceptions(g) ==
  LET Unpaired(n, i) ==
        LET e == g.nodes[n].edges[i]
            opposite == g.edges[Opposite(g, e)]
        IN /\ ~g.edges[e].shortcut /\ Present(g, g.edges[e].end)
           /\ opposite.shortcut \/ opposite.opp # i - 1
  IN UNION { { g.edges[g.nodes[n].edges[i]].end
               : i \in { i \in DOMAIN g.nodes[n].edges : Unpaired(n, i) } } : n \in DOMAIN g.nodes }

\* incoming: the ordinary edges that end at n.
Neighbours(g, n) == { m \in { g.edges[e].end : e \in ToSet(g.nodes[n].edges) } : Present(g, m) }

IncomingByNeighbours(g, n) ==
  { e \in UNION { ToSet(g.nodes[m].edges) : m \in Neighbours(g, n) } :
      g.edges[e].end = n /\ ~g.edges[e].shortcut }

IncomingByOpposites(g, n) ==
  { e \in { Opposite(g, d) : d \in { d \in ToSet(g.nodes[n].edges) :
                                       ~g.edges[d].shortcut /\ Present(g, g.edges[d].end) } } :
      ~g.edges[e].shortcut }

\* Mutant: the exceptions are not looked up.
TrustOpposites(g, certified, n) ==
  IF certified THEN IncomingByOpposites(g, n) ELSE IncomingByNeighbours(g, n)

Incoming(g, certified, n) ==
  IF certified /\ n \notin Exceptions(g) THEN IncomingByOpposites(g, n)
  ELSE IncomingByNeighbours(g, n)

-----------------------------------------------------------------------------
\* prepareLandmarkVector: Dijkstra's algorithm over the permitted edges and the
\* transitions, whatever the turns and the access of the nodes.  The run v
\* has the costs and the settled nodes.
Offers(g, certified, reverse, n, cost) ==
  { [node |-> m, cost |-> cost] : m \in Transitions(g, n) }
  \cup (IF reverse
        THEN { [node |-> Start(g, e), cost |-> cost + Seconds(g, e, Whole)]
               : e \in { e \in Incoming(g, certified, n) : Allowed(g, e) } }
        ELSE { [node |-> g.edges[e].end, cost |-> cost + Seconds(g, e, Whole)]
               : e \in { e \in ToSet(g.nodes[n].edges) : Allowed(g, e) } })

RECURSIVE Sweep(_, _, _, _)
Sweep(g, certified, reverse, v) ==
  LET queue == { n \in DOMAIN v.cost \ v.settled : v.cost[n] < Infinite }
      next == CHOOSE n \in queue : \A m \in queue :
                v.cost[n] < v.cost[m] \/ (v.cost[n] = v.cost[m] /\ n <= m)
      offers == Offers(g, certified, reverse, next, v.cost[next])
      Best(n) == Min({ v.cost[n] } \cup { o.cost : o \in { o \in offers : o.node = n } })
  IN IF queue = {} THEN v
     ELSE Sweep(g, certified, reverse,
                [cost |-> [n \in DOMAIN v.cost |-> Best(n)], settled |-> v.settled \cup {next}])

\* A cost is stored rounded down.
Stored(cost) == IF cost = Infinite THEN Infinite ELSE cost - (cost % Quantum)

LandmarkVector(g, certified, reverse, seed) ==
  LET v == Sweep(g, certified, reverse,
                 [cost |-> [n \in DOMAIN g.nodes |-> IF n = seed THEN 0 ELSE Infinite],
                  settled |-> {}])
  IN [n \in DOMAIN g.nodes |-> Stored(v.cost[n])]

\* PrepareLandmarks: the seed of a place is the end of its first permitted direction.
Seed(g, place) == g.edges[Directions(g, Nearest(g, place))[1].edge].end

Landmarks(g, certified) ==
  [i \in DOMAIN g.seeds |->
     [forward |-> LandmarkVector(g, certified, FALSE, Seed(g, g.seeds[i])),
      reverse |-> LandmarkVector(g, certified, TRUE, Seed(g, g.seeds[i]))]]

\* bound: a stored cost is the lower end of its interval, the next one the upper.
LandmarkBound(landmarks, from, to) ==
  LET Known(vector) == vector[from] # Infinite /\ vector[to] # Infinite
      Ahead(i) == IF Known(landmarks[i].forward)
                  THEN landmarks[i].forward[to] - (landmarks[i].forward[from] + Quantum) ELSE 0
      Behind(i) == IF Known(landmarks[i].reverse)
                   THEN landmarks[i].reverse[from] - (landmarks[i].reverse[to] + Quantum) ELSE 0
  IN Max({0} \cup UNION { {Ahead(i), Behind(i)} : i \in DOMAIN landmarks })

-----------------------------------------------------------------------------
\* NewRouter holds the automaton in memory and has no bounds; the prepared
\* router reads the file and enables the potential and the landmarks.
NewRouter(g) == [accelerated |-> FALSE, turns |-> BuildTurns(g.rules)]

OpenPreparedRouter(g, certified) ==
  [accelerated |-> TRUE, turns |-> WriteTurns(BuildTurns(g.rules)),
   potential |-> Potential(g), landmarks |-> Landmarks(g, certified)]

Advance(router, s, e) ==
  IF router.accelerated THEN AdvanceInFile(router.turns, s, e)
  ELSE AdvanceInMemory(router.turns, s, e)

\* The least seconds from node n to the goals, rounded down.
Heuristic(g, router, goals, n) ==
  LET Ahead(goal) ==
        LET far == Distance(Canonical(g, n), Canonical(g, goal.node)) * router.potential.seconds
        IN Max({ far \div router.potential.distance,
                 LandmarkBound(router.landmarks, n, goal.node) }) + goal.cost
  IN IF router.accelerated THEN Min({ Ahead(goals[i]) : i \in DOMAIN goals }) ELSE 0
=============================================================================
