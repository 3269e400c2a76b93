-------------------------------- MODULE Paths --------------------------------
(* How a way is looked for on one floor (map.cpp, creature.cpp): from a      *)
(* creature to a tile that suits it, near a target (getPathMatching), and    *)
(* back from a tile to the creature (getPathTo).  One step is one turn of    *)
(* the search's loop.  Left out: walkCache, which answers as the tiles would, *)
(* and the greatest cost a node may have.                                    *)
EXTENDS Integers, Sequences, SequencesExt, FiniteSetsExt

CONSTANTS
    Width, Height,
    Start,          \* where the creature stands
    Searches,       \* the searches: a mode, a target and the FindPathParams
    Kinds,          \* what a tile may be: "free", "taken" (a creature, a field) or "wall"
    MaxNodes        \* MAX_NODES

(* The state: the kind of each tile, the search, the nodes in the order of   *)
(* their creation, those that are open, the node that is the best so far (0: *)
(* none) with the distance it has, and what came of it: a search is cut      *)
(* short when it has closed as many nodes as it may, or has no more nodes.   *)
VARIABLE w

Tiles == (1 .. Width) \X (1 .. Height)
NormalWalkCost == 10
DiagonalWalkCost == 25

Abs(n) == IF n < 0 THEN -n ELSE n
Sign(n) == CASE n > 0 -> 1 [] n = 0 -> 0 [] n < 0 -> -1
Distance(p, q) == LET dx == Abs(p[1] - q[1])
                      dy == Abs(p[2] - q[2])
                  IN  IF dx > dy THEN dx ELSE dy

PathsTypeOK ==
    /\ w.kind \in [Tiles -> Kinds] /\ w.search \in Searches
    /\ w.nodes \in Seq([at : Tiles, g : Nat, h : Nat, parent : Nat])
    /\ w.open \subseteq DOMAIN w.nodes /\ w.found \in {0} \cup DOMAIN w.nodes
    /\ w.best \in Nat /\ w.result \in {"none", "path", "no path", "cut short"}

(* ------------------------------- the map --------------------------------- *)

(* Map::canWalkTo: the creature's own tile always will do.                   *)
canWalkTo(kind, p) == p \in Tiles /\ (p = Start \/ kind[p] # "wall")

(* Map::checkSightLine: the tile after p on the line between two tiles, and  *)
(* whether nothing stands on the rest of the line.                           *)
RayStep(p, from, to) ==
    LET mx == Sign(to[1] - from[1])
        my == Sign(to[2] - from[2])
        off(x, y) == Abs((to[2] - from[2]) * (x - to[1]) + (from[1] - to[1]) * (y - to[2]))
        hor == off(p[1] + mx, p[2])
        ver == off(p[1], p[2] + my)
        cross == off(p[1] + mx, p[2] + my)
        y == IF p[2] # to[2] /\ (p[1] = to[1] \/ hor > ver \/ hor > cross)
             THEN p[2] + my ELSE p[2]
        x == IF p[1] # to[1] /\ (y = to[2] \/ ver > hor \/ ver > cross)
             THEN p[1] + mx ELSE p[1]
    IN  <<x, y>>

RECURSIVE RayIsClear(_, _, _, _)
RayIsClear(kind, p, from, to) ==
    \/ p = to
    \/ \E q \in {RayStep(p, from, to)} : kind[q] # "wall" /\ RayIsClear(kind, q, from, to)

isSightClear(kind, p, q) == RayIsClear(kind, p, p, q) \/ RayIsClear(kind, q, q, p)

(* AStarNodes::getMapWalkCost and getTileWalkCost.                           *)
WalkCost(kind, p, q) ==
    (IF p[1] # q[1] /\ p[2] # q[2] THEN DiagonalWalkCost ELSE NormalWalkCost)
        + (IF kind[q] = "taken" THEN 3 * NormalWalkCost ELSE 0)

(* AStarNodes::getEstimatedDistance: more than the way costs when two steps  *)
(* are cheaper than one across.                                              *)
getEstimatedDistance(p, q) ==
    LET diagonal == Min({Abs(p[1] - q[1]), Abs(p[2] - q[2])}) IN
    DiagonalWalkCost * diagonal
        + NormalWalkCost * (Abs(p[1] - q[1]) + Abs(p[2] - q[2]) - 2 * diagonal)

(* ----------------------- what is looked for ------------------------------ *)

(* FrozenPathingConditionCall::isInRange: unless the search is full, not     *)
(* beyond the target.                                                        *)
isInRange(s, p) ==
    \A i \in 1 .. 2 :
        LET side == Start[i] - s.target[i] IN
        /\ p[i] <= s.target[i] + (IF s.full \/ side >= 0 THEN s.max ELSE 0)
        /\ p[i] >= s.target[i] - (IF s.full \/ side <= 0 THEN s.max ELSE 0)

(* FrozenPathingConditionCall::operator(), but for the best so far.          *)
Suits(s, kind, p) ==
    /\ isInRange(s, p) /\ (s.sight => isSightClear(kind, p, s.target))
    /\ Distance(s.target, p) \in s.min .. s.max

(* The distance that counts as the best after p, and whether p is taken.  0  *)
(* stands for none and for one that will not be bettered.                    *)
BestAfter(s, p) ==
    LET d == Distance(s.target, p) IN IF s.max = 1 \/ d = s.max THEN 0 ELSE d

IsBetter(s, p, best) ==
    LET d == Distance(s.target, p) IN s.max = 1 \/ d = s.max \/ d > best

(* The tiles around, in the order in which they are tried.                   *)
neighbourOrderList ==
    <<<<-1, 0>>, <<0, 1>>, <<1, 0>>, <<0, -1>>, <<-1, -1>>, <<1, -1>>, <<1, 1>>, <<-1, 1>>>>

Beside(p, i) == <<p[1] + neighbourOrderList[i][1], p[2] + neighbourOrderList[i][2]>>

Allowed(s, kind, p) ==
    /\ canWalkTo(kind, p)
    /\ s.maxSearchDist # -1 => \A i \in 1 .. 2 : Abs(Start[i] - p[i]) <= s.maxSearchDist
    /\ s.keepDistance => isInRange(s, p)

Directions(s) == IF s.diagonal THEN 1 .. 8 ELSE 1 .. 4

(* ------------------------------- the search ------------------------------ *)

From(s) == IF s.mode = "to" THEN s.target ELSE Start

Node(s, p, g, parent) ==
    [at |-> p, g |-> g, parent |-> parent,
     h |-> IF s.mode = "to" THEN getEstimatedDistance(p, Start) ELSE 0]

Init ==
    \E kind \in [Tiles -> Kinds], s \in Searches :
        /\ kind[Start] = "free" /\ kind[s.target] = "free"
        /\ w = [kind |-> kind, search |-> s, nodes |-> <<Node(s, From(s), 0, 0)>>,
                open |-> {1}, found |-> 0, best |-> 0, result |-> "none"]

closedNodes == Len(w.nodes) - Cardinality(w.open)

(* AStarNodes::getBestNode.                                                  *)
F(i) == w.nodes[i].g + w.nodes[i].h
getBestNode ==
    CHOOSE i \in w.open : \A j \in w.open : F(i) < F(j) \/ (F(i) = F(j) /\ i <= j)

NodeAt(p) == {i \in DOMAIN w.nodes : w.nodes[i].at = p}

Done(found, complete) ==
    w' = [w EXCEPT !.found = found,
                   !.result = IF ~ complete THEN "cut short"
                              ELSE IF found = 0 THEN "no path" ELSE "path"]

(* Mutant: a tile that was reached once keeps the way it was reached by.     *)
ShorterIfNew(p, g) == NodeAt(p) = {}

(* Whether the way to p at cost g is shorter than what the nodes have.       *)
Shorter(p, g) == \A j \in NodeAt(p) : w.nodes[j].g > g

(* The tiles around node n to which the way over n is shorter, each with what *)
(* it costs.                                                                 *)
Nearer(n) ==
    {x \in {[dir |-> i, at |-> Beside(w.nodes[n].at, i)] : i \in Directions(w.search)} :
        /\ Allowed(w.search, w.kind, x.at)
        /\ Shorter(x.at, w.nodes[n].g + WalkCost(w.kind, w.nodes[n].at, x.at))}

(* The tiles around node n are looked at, n is closed.  A search with a tile *)
(* that will do goes on without the tiles for which there is no node left.   *)
Expand(n, found, best) ==
    \E nearer \in {Nearer(n)} :
    \E fresh \in {SelectSeq([i \in 1 .. 8 |-> i],
                  LAMBDA i : \E x \in nearer : x.dir = i /\ NodeAt(x.at) = {})} :
    LET room == MaxNodes - Len(w.nodes)
        reached == IF Len(fresh) <= room THEN nearer
                   ELSE {x \in nearer : x.dir < fresh[room + 1]}
        new == [k \in 1 .. Min({room, Len(fresh)}) |-> Beside(w.nodes[n].at, fresh[k])]
        Via(p) == Node(w.search, p, w.nodes[n].g + WalkCost(w.kind, w.nodes[n].at, p), n)
        to == {x.at : x \in reached}
    IN  IF reached # nearer /\ found = 0
        THEN Done(0, FALSE)
        ELSE w' = [w EXCEPT
                !.nodes = [j \in DOMAIN @ |-> IF @[j].at \in to THEN Via(@[j].at) ELSE @[j]]
                              \o [k \in DOMAIN new |-> Via(new[k])],
                !.open = (@ \ {n}) \cup {j \in DOMAIN w.nodes : w.nodes[j].at \in to}
                             \cup {Len(w.nodes) + k : k \in DOMAIN new},
                !.found = found, !.best = best]

(* What a turn of the loop of Map::getPathMatching makes of node n.          *)
Try(n) ==
    \E better \in {/\ Suits(w.search, w.kind, w.nodes[n].at)
                   /\ IsBetter(w.search, w.nodes[n].at, w.best)} :
    \E best \in {IF better THEN BestAfter(w.search, w.nodes[n].at) ELSE w.best} :
        IF better /\ best = 0 THEN Done(n, TRUE)
        ELSE Expand(n, IF better THEN n ELSE w.found, best)

Exhausted(limit) ==
    w.open = {} \/ (w.search.maxSearchDist = -1 /\ closedNodes >= limit)

Match ==
    /\ w.search.mode = "match" /\ w.result = "none"
    /\ IF Exhausted(w.search.maxClosedNodes) THEN Done(w.found, w.open = {})
       ELSE \E n \in {getBestNode} : Try(n)

(* One turn of the loop of Map::getPathTo.                                   *)
To ==
    /\ w.search.mode = "to" /\ w.result = "none"
    /\ IF Exhausted(100) THEN Done(0, w.open = {})
       ELSE \E n \in {getBestNode} :
               IF w.nodes[n].at = Start THEN Done(n, TRUE) ELSE Expand(n, 0, 0)

Next == Match \/ To

(* ------------------------------- the result ------------------------------ *)

(* The tiles from node i to the first node, i's first.                       *)
RECURSIVE Way(_)
Way(i) == IF i = 0 THEN <<>> ELSE <<w.nodes[i].at>> \o Way(w.nodes[i].parent)

(* The tiles the creature walks over.                                        *)
Walk == IF w.search.mode = "to" THEN Way(w.found) ELSE Reverse(Way(w.found))

IsWalk(from, to) ==
    /\ Head(Walk) = from /\ Last(Walk) = to
    /\ \A i \in 1 .. (Len(Walk) - 1) :
          canWalkTo(w.kind, Walk[i + 1]) /\ Distance(Walk[i], Walk[i + 1]) = 1

(* The tiles within reach, each with the cost of the cheapest way to it: as  *)
(* many rounds as there are tiles, each of which lengthens the ways by a step. *)
Lengthened(s, kind, ways) ==
    LET longer == {<<Beside(way[1], i), way[2] + WalkCost(kind, way[1], Beside(way[1], i))>> :
                      <<way, i>> \in {x \in ways \X Directions(s) :
                                        Allowed(s, kind, Beside(x[1][1], x[2]))}}
    IN  {way \in ways \cup longer :
            \A other \in ways \cup longer : other[1] = way[1] => other[2] >= way[2]}

Cheapest(s, kind) ==
    FoldLeft(LAMBDA found, k : {Lengthened(s, kind, ways) : ways \in found},
             {{<<From(s), 0>>}}, [k \in 1 .. (Width * Height) |-> k])

(* The way that is found goes over tiles one may walk on, step by step, from *)
(* the creature to a tile that suits it, the one farthest from the target of *)
(* those within reach, and by no dearer way than is needed; a search that    *)
(* finds none has looked at every tile it could reach.  That holds for every *)
(* floor: the node at a tile is changed whenever a shorter way turns up, and *)
(* its children with it (map.cpp:694-843, creature.cpp:1762-1810).           *)
PathShortest ==
    (w.search.mode = "match" /\ w.result # "none") =>
        \E ways \in Cheapest(w.search, w.kind) :
            LET s == w.search
                suits == {way \in ways : /\ Suits(s, w.kind, way[1])
                                         /\ IsBetter(s, way[1], 0)}
                d(p) == IF s.max = 1 THEN 1 ELSE Distance(p, s.target)
                end == w.nodes[w.found]
            IN  CASE w.found = 0 -> w.result = "no path" => suits = {}
                  [] w.found # 0 /\ w.result = "cut short" ->
                        IsWalk(Start, end.at) /\ \E way \in suits : way[1] = end.at
                  [] OTHER ->
                     /\ <<end.at, end.g>> \in suits /\ IsWalk(Start, end.at)
                     /\ \A way \in suits : \/ d(way[1]) < d(end.at)
                                           \/ d(way[1]) = d(end.at) /\ way[2] >= end.g

(* The way back from a tile leads from the creature to it, though not always *)
(* by the cheapest; there is one unless the tile cannot be reached, or cannot *)
(* be walked on (map.cpp:553-692).                                           *)
PathArrives ==
    (w.search.mode = "to" /\ w.result # "none") =>
        IF w.found = 0
        THEN w.result = "no path" =>
             \A ways \in Cheapest(w.search, w.kind) : \A way \in ways : way[1] # Start
        ELSE IsWalk(Start, w.search.target)

(* Both kinds of search find what they should, on every floor of this size.  *)
FoundWays == PathShortest /\ PathArrives
==============================================================================
