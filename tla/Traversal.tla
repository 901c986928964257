----------------------------- MODULE Traversal ------------------------------
(***************************************************************************)
(* The breadth-first walk behind every provenance trace: traceForward,     *)
(* traceBackward, and through traceForward the extent of a recall.         *)
(* The graph is whatever was recorded, so it may branch, merge or, if      *)
(* corrupted, hold a cycle.  One step scans one edge of the first asset of *)
(* the frontier, drops that asset, or starts the next level.               *)
(***************************************************************************)
EXTENDS Integers, Sequences, FiniteSets, Provenance

CONSTANTS Goods,
          MaxEdges    \* bound: how many edges a recorded graph has

VARIABLES edges,         \* the recorded edges, in no particular order
          direction,     \* "FORWARD" or "BACKWARD"
          rootAssetId,
          visited, reached, usedEdges,
          frontier,      \* what is left of this level
          nextFrontier,
          depth

inputs == <<edges, direction, rootAssetId>>
walk == <<inputs, visited, reached, usedEdges, frontier, nextFrontier, depth>>

From(e) == IF direction = "FORWARD" THEN e.source ELSE e.target
Neighbour(e) == IF direction = "FORWARD" THEN e.target ELSE e.source

\* What may be recorded: merges, diamonds and cycles included, but an asset is never
\* its own input.
Pairs == {p \in [source : Goods, target : Goods] : p.source # p.target}
Graphs == {g \in SUBSET Pairs : Cardinality(g) <= MaxEdges}

WalkInit ==
    /\ edges \in Graphs
    /\ direction \in {"FORWARD", "BACKWARD"}
    /\ rootAssetId \in Goods
    /\ visited = {rootAssetId}
    /\ reached = <<>>
    /\ usedEdges = {}
    /\ frontier = <<rootAssetId>>
    /\ nextFrontier = <<>>
    /\ depth = 0

\* Edges of asset a that the walk has still to scan.
Unscanned(a) == {e \in edges : From(e) = a} \ usedEdges

\* Mutant: a known neighbour leaves the scan where it is.
ScanEdgeStuck(e) ==
    /\ frontier # <<>>
    /\ e \in Unscanned(Head(frontier))
    /\ Neighbour(e) \notin visited
    /\ usedEdges' = usedEdges \cup {e}
    /\ visited' = visited \cup {Neighbour(e)}
    /\ reached' = Append(reached, Neighbour(e))
    /\ nextFrontier' = Append(nextFrontier, Neighbour(e))
    /\ UNCHANGED <<inputs, frontier, depth>>

\* Mutant: what is found joins the level being scanned.
ScanEdgeSameLevel(e) ==
    /\ frontier # <<>>
    /\ e \in Unscanned(Head(frontier))
    /\ usedEdges' = usedEdges \cup {e}
    /\ IF Neighbour(e) \in visited
       THEN UNCHANGED <<visited, reached, frontier>>
       ELSE /\ visited' = visited \cup {Neighbour(e)}
            /\ reached' = Append(reached, Neighbour(e))
            /\ frontier' = Append(frontier, Neighbour(e))
    /\ UNCHANGED <<inputs, nextFrontier, depth>>

\* An asset that was reached already, by a merge or a cycle, is not queued again.
ScanEdge(e) ==
    /\ frontier # <<>>
    /\ e \in Unscanned(Head(frontier))
    /\ usedEdges' = usedEdges \cup {e}
    /\ IF Neighbour(e) \in visited
       THEN UNCHANGED <<visited, reached, nextFrontier>>
       ELSE /\ visited' = visited \cup {Neighbour(e)}
            /\ reached' = Append(reached, Neighbour(e))
            /\ nextFrontier' = Append(nextFrontier, Neighbour(e))
    /\ UNCHANGED <<inputs, frontier, depth>>

\* Mutant: leaving one asset ends the level.
LeaveAssetBreaks ==
    /\ frontier # <<>>
    /\ Unscanned(Head(frontier)) = {}
    /\ frontier' = <<>>
    /\ UNCHANGED <<inputs, visited, reached, usedEdges, nextFrontier, depth>>

LeaveAsset ==
    /\ frontier # <<>>
    /\ Unscanned(Head(frontier)) = {}
    /\ frontier' = Tail(frontier)
    /\ UNCHANGED <<inputs, visited, reached, usedEdges, nextFrontier, depth>>

NextLevel ==
    /\ frontier = <<>>
    /\ nextFrontier # <<>>
    /\ frontier' = nextFrontier
    /\ nextFrontier' = <<>>
    /\ depth' = depth + 1
    /\ UNCHANGED <<inputs, visited, reached, usedEdges>>

IsDone == frontier = <<>> /\ nextFrontier = <<>>

WalkNext == (\E e \in edges : ScanEdge(e)) \/ LeaveAsset \/ NextLevel

\* The walk is one synchronous call: it keeps running until it returns.
WalkSpec == WalkInit /\ [][WalkNext]_walk /\ WF_walk(WalkNext)

-----------------------------------------------------------------------------
(* Properties *)

WalkTypeOK ==
    /\ edges \subseteq [source : Goods, target : Goods]
    /\ direction \in {"FORWARD", "BACKWARD"}
    /\ rootAssetId \in Goods
    /\ visited \subseteq Goods
    /\ reached \in Seq(Goods)
    /\ usedEdges \subseteq edges
    /\ frontier \in Seq(Goods)
    /\ nextFrontier \in Seq(Goods)
    /\ depth \in Nat

\* The graph as the walk reads it, every edge pointing away from the root.
Oriented == {[source |-> From(e), target |-> Neighbour(e)] : e \in edges}

\* When the walk returns it has visited exactly what is reachable: a recall
\* misses no descendant, takes in no ancestor and no look-alike, in a graph of
\* any shape.
VisitedIsReachable == IsDone => visited = Reachable(rootAssetId, Oriented, Goods)

\* The length of the shortest way from the root is known level by level.
Within(n) ==
    LET ball[k \in 0..n] ==
            IF k = 0 THEN {rootAssetId}
            ELSE ball[k - 1] \cup {Neighbour(e) : e \in {f \in edges : From(f) \in ball[k - 1]}}
    IN  ball[n]

\* Breadth-first order without repetition: no asset is listed twice and never the
\* root, none before a nearer one, and depth is the distance of the farthest.
LevelsAreDistances ==
    /\ \A i, j \in DOMAIN reached : reached[i] = reached[j] => i = j
    /\ {reached[i] : i \in DOMAIN reached} = visited \ {rootAssetId}
    /\ \A i, j \in DOMAIN reached : \A n \in 0..depth :
          i < j /\ reached[j] \in Within(n) => reached[i] \in Within(n)
    /\ visited = Within(depth)
    /\ depth > 0 => visited # Within(depth - 1)

\* The walk returns on every graph, a cyclic one included, and what it returns is
\* listed by distance.
WalkTerminates == <>(IsDone /\ LevelsAreDistances)
=============================================================================
