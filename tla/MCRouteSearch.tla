---------------------------- MODULE MCRouteSearch ----------------------------
(* Nine small areas and queries between places along their roads.             *)
EXTENDS RouteSearch

Node(x) == [x |-> x, access |-> TRUE, transitions |-> <<>>]

\* Forty units of length take ten seconds at 72 km/h.
Road(from, to, back, length) ==
  [from |-> from, to |-> to, back |-> back, length |-> 5 * length, speed |-> 72, auto |-> TRUE,
   shortcut |-> FALSE, destination |-> FALSE, use |-> 0, class |-> 4, covered |-> FALSE,
   rules |-> {}, noTurn |-> {}, gaps |-> <<0, 0>>]

\* The roads of a node and of those it is joined to are numbered together.
Area(nodes, roads, prohibited, places, seeds) ==
  LET Out(S) == Ascending({ e \in DOMAIN roads : roads[e].from \in S })
      Group(n) == {n} \cup ToSet(nodes[n].transitions)
      Position(s, e) == CHOOSE i \in DOMAIN s : s[i] = e
      Local(e) == Position(Out(Group(roads[e].from)), e) - 1
      Known(e) == roads[e].to \in DOMAIN nodes
      Edge(e) ==
        [end |-> roads[e].to, opp |-> IF Known(e) THEN Position(Out({roads[e].to}), roads[e].back) - 1 ELSE 0,
         local |-> Local(e), oppLocal |-> IF Known(e) THEN Local(roads[e].back) ELSE 127,
         simple |-> { Local(f) : f \in roads[e].noTurn }, length |-> roads[e].length,
         shapeStart |-> nodes[roads[e].from].x + roads[e].gaps[1],
         shapeEnd |-> (IF Known(e) THEN nodes[roads[e].to].x ELSE 9000) + roads[e].gaps[2],
         speed |-> roads[e].speed, auto |-> roads[e].auto, shortcut |-> roads[e].shortcut,
         destination |-> roads[e].destination, use |-> roads[e].use, class |-> roads[e].class,
         covered |-> roads[e].covered, rules |-> roads[e].rules]
  IN [nodes |-> [n \in DOMAIN nodes |->
                   [x |-> nodes[n].x, access |-> nodes[n].access, edges |-> Out({n}),
                    transitions |-> nodes[n].transitions]],
      edges |-> [e \in DOMAIN roads |-> Edge(e)],
      rules |-> prohibited, near |-> places, seeds |-> seeds]

\* A place for each fraction of each of some roads.
At1(e, f) == {[edge |-> e, gap |-> 10, fraction |-> f]}
Along(edges, decoys) ==
  [p \in edges \X {0, 1, 2} |-> At1(p[1], p[2]) \cup decoys]

\* A two-way road whose shape starts and ends beside its nodes.
Beside(from, to, length, start, end) ==
  LET e == 10 * from + to
      back == 10 * to + from
  IN (e :> [Road(from, to, back, length) EXCEPT !.gaps = <<start, end>>])
     @@ (back :> [Road(to, from, e, length) EXCEPT !.gaps = <<end, start>>])

-----------------------------------------------------------------------------
\* Two-way streets 1-2-3-4-1 and 2-4, with restrictions that overlap.
SquareRoads ==
  (12 :> Road(1, 2, 21, 40)) @@ (21 :> [Road(2, 1, 12, 40) EXCEPT !.noTurn = {14}])
  @@ (23 :> Road(2, 3, 32, 40)) @@ (32 :> Road(3, 2, 23, 40))
  @@ (34 :> Road(3, 4, 43, 80)) @@ (43 :> Road(4, 3, 34, 80))
  @@ (41 :> Road(4, 1, 14, 160)) @@ (14 :> Road(1, 4, 41, 160))
  @@ (24 :> Road(2, 4, 42, 40)) @@ (42 :> Road(4, 2, 24, 40))
SquareRules == << <<12, 24, 43>>, <<24, 41>>, <<12, 23>>, <<32, 21, 14>> >>
Square ==
  Area((1 :> Node(0)) @@ (2 :> Node(400)) @@ (3 :> Node(800)) @@ (4 :> Node(600)),
       SquareRoads, SquareRules, Along({12, 24, 34, 41}, {}), << <<12, 1>>, <<34, 1>> >>)

\* A chain 1-2-3-4-5 with a slow way round 1-6-5 and one-way stretches.
ChainRoads ==
  (12 :> Road(1, 2, 21, 40)) @@ (21 :> Road(2, 1, 12, 40))
  @@ (23 :> Road(2, 3, 32, 40)) @@ (32 :> [Road(3, 2, 23, 40) EXCEPT !.auto = FALSE])
  @@ (34 :> Road(3, 4, 43, 40)) @@ (43 :> Road(4, 3, 34, 40))
  @@ (45 :> Road(4, 5, 54, 40)) @@ (54 :> Road(5, 4, 45, 40))
  @@ (16 :> [Road(1, 6, 61, 120) EXCEPT !.speed = 36]) @@ (61 :> Road(6, 1, 16, 120))
  @@ (65 :> Road(6, 5, 56, 120)) @@ (56 :> Road(5, 6, 65, 120))
Chain ==
  Area((1 :> Node(0)) @@ (2 :> Node(400)) @@ (3 :> Node(800)) @@ (4 :> Node(1200)) @@ (5 :> Node(1600))
       @@ (6 :> Node(800)),
       ChainRoads, << <<34, 45, 56>> >>, Along({12, 23, 34, 65}, {}), << <<65, 1>> >>)

\* Streets 1-2-3-4 below, a fast road 11-13 above, a shortcut, a blocked node.
LevelRoads ==
  Beside(1, 2, 80, 1, 1) @@ Beside(2, 3, 80, 1, 1)
  @@ (34 :> Road(3, 4, 43, 40)) @@ (43 :> Road(4, 3, 34, 40))
  @@ (45 :> Road(4, 5, 54, 40)) @@ (54 :> Road(5, 4, 45, 40))
  @@ (35 :> Road(3, 5, 53, 200)) @@ (53 :> Road(5, 3, 35, 200))
  @@ (113 :> Road(11, 13, 131, 120)) @@ (131 :> [Road(13, 11, 113, 120) EXCEPT !.noTurn = {12}])
  @@ (115 :> [Road(11, 13, 131, 40) EXCEPT !.shortcut = TRUE])
Levels ==
  Area((1 :> [Node(0) EXCEPT !.transitions = <<11>>]) @@ (2 :> Node(800))
       @@ (3 :> [Node(1600) EXCEPT !.transitions = <<13>>])
       @@ (4 :> [Node(1800) EXCEPT !.access = FALSE]) @@ (5 :> Node(2000))
       @@ (11 :> [Node(1) EXCEPT !.transitions = <<1>>]) @@ (13 :> [Node(1601) EXCEPT !.transitions = <<3>>]),
       LevelRoads, << <<113, 34>>, <<113, 35>> >>,
       Along({12, 34, 45, 113}, {[edge |-> 115, gap |-> 1, fraction |-> 1]}), << <<113, 1>>, <<45, 1>> >>)

\* Two roads from 1 to 2 that name the same opposite, and a way round.
TwinRoads ==
  (12 :> Road(1, 2, 21, 160)) @@ (13 :> Road(1, 2, 21, 40)) @@ (21 :> Road(2, 1, 12, 160))
  @@ (23 :> Road(2, 3, 32, 40)) @@ (32 :> Road(3, 2, 23, 40))
  @@ (41 :> Road(4, 1, 14, 40)) @@ (14 :> Road(1, 4, 41, 40))
  @@ (43 :> Road(4, 3, 34, 160)) @@ (34 :> Road(3, 4, 43, 160))
Twins ==
  Area((1 :> Node(100)) @@ (2 :> Node(200)) @@ (3 :> Node(400)) @@ (4 :> Node(0)),
       TwinRoads, <<>>, Along({13, 23, 41}, {[edge |-> 43, gap |-> 10, fraction |-> 1]}), << <<23, 1>> >>)

\* A road leaves 2 for a tile that was not retained.
BorderRoads ==
  (12 :> Road(1, 2, 21, 40)) @@ (21 :> Road(2, 1, 12, 40))
  @@ (23 :> Road(2, 3, 32, 120)) @@ (32 :> Road(3, 2, 23, 120))
  @@ (29 :> Road(2, 9, 92, 80)) @@ (34 :> [Road(3, 4, 43, 40) EXCEPT !.destination = TRUE])
  @@ (43 :> [Road(4, 3, 34, 40) EXCEPT !.destination = TRUE])
Border ==
  Area((1 :> Node(0)) @@ (2 :> Node(400)) @@ (3 :> Node(1200)) @@ (4 :> Node(1600)),
       BorderRoads, << <<29, 92>> >>,
       Along({12, 23, 29, 34}, {[edge |-> 23, gap |-> 101, fraction |-> 1]}), << <<12, 1>> >>)

\* Every reason not to use a road, on the ways from 1 to 2.
Ways ==
  LET R == Road(1, 2, 21, 40)
  IN (1 :> [R EXCEPT !.use = 3]) @@ (2 :> [R EXCEPT !.speed = 141])
     @@ (3 :> [R EXCEPT !.rules = {[type |-> 2, value |-> 199, auto |-> FALSE]}])
     @@ (4 :> [R EXCEPT !.rules = {[type |-> 6, value |-> 0, auto |-> TRUE]}])
     @@ (5 :> [R EXCEPT !.length = 600, !.class = 1,
                        !.rules = {[type |-> 1, value |-> 190, auto |-> TRUE],
                                   [type |-> 7, value |-> 0, auto |-> FALSE]}])
     @@ (6 :> [R EXCEPT !.length = 800, !.covered = TRUE]) @@ (7 :> [R EXCEPT !.length = 1000])
Profile ==
  Area((1 :> Node(400)) @@ (2 :> Node(400)),
       Ways @@ (21 :> [Road(2, 1, 7, 200) EXCEPT !.auto = FALSE]), <<>>,
       Along({4, 7, 21}, {[edge |-> e, gap |-> 1, fraction |-> 1] : e \in {3, 5, 6}}), << <<7, 1>> >>)

\* Two ways from 1 meet at 4; the shorter one is tried second, and no turn
\* leads from 45 to 56.
MergeRoads ==
  LET OneWay(from, to, length) ==
        (10 * from + to :> Road(from, to, 10 * to + from, length))
        @@ (10 * to + from :> [Road(to, from, 10 * from + to, length) EXCEPT !.auto = FALSE])
  IN OneWay(1, 2, 40) @@ OneWay(1, 3, 80) @@ OneWay(2, 4, 400) @@ OneWay(3, 4, 40) @@ OneWay(2, 7, 40)
     @@ OneWay(3, 8, 40) @@ OneWay(4, 5, 40) @@ OneWay(5, 6, 40)
Merge ==
  Area([n \in 1..8 |-> Node(IF n = 6 THEN 10 ELSE 0)],
       MergeRoads, << <<45, 56>> >>, Along({12, 27, 45, 56}, {}), << <<27, 1>> >>)

\* A joint .4 m wide at 2, .5 m at 3 and `wide' at 4, and a longer way round 4.
Joints(wide) ==
  Area([n \in 1..5 |-> Node(400 * (n - 1))],
       Beside(1, 2, 40, 0, 4) @@ Beside(2, 3, 40, 0, -2) @@ Beside(3, 4, 40, 3, 1)
       @@ Beside(4, 5, 40, 1 + wide, wide - 1) @@ Beside(3, 5, 200, -1, wide - 1),
       <<>>, Along({12, 34, 45, 35}, {}), << <<12, 1>>, <<45, 1>> >>)

MCRoads ==
  [square |-> Square, chain |-> Chain, levels |-> Levels, twins |-> Twins, border |-> Border,
   profile |-> Profile, merge |-> Merge, jagged |-> Joints(4), torn |-> Joints(6)]

Query(area, from, to, limit, opened) ==
  [area |-> area, from |-> from, to |-> to, limit |-> limit, router |-> opened]
MCPlaces ==
  LET On(edges) == edges \X {0, 1, 2}
  IN [square |-> On({12, 24, 34, 41}), chain |-> On({12, 23, 34, 65}), levels |-> On({12, 34, 45, 113}),
      twins |-> On({13, 23, 41}), border |-> On({12, 23, 29, 34}), profile |-> On({4, 7, 21}),
      merge |-> On({12, 45, 56}), jagged |-> On({12, 34, 45}), torn |-> On({12, 35, 45})]
MCQueries ==
  UNION { { Query(area, from, to, limit, opened)
            : from \in MCPlaces[area], to \in MCPlaces[area],
              limit \in {2, 4, 40}, opened \in {"memory", "prepared", "certified"} }
          : area \in DOMAIN MCPlaces }
  \cup { Query("border", <<12, 1>>, <<99, 0>>, 40, opened) : opened \in {"memory", "certified"} }
=============================================================================
