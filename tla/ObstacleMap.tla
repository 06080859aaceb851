---------------------------- MODULE ObstacleMap ----------------------------
(***************************************************************************)
(* The sparse voxel octree and the map on top of it                         *)
(* (tpt-mapping/src/octree/mod.rs), and who avoids what is on it            *)
(* (tpt-core/src/autopilot_avoidance.rs), over any number of axes.  A leaf   *)
(* voxel is two units wide, so that leaf centers are odd integers and all other   *)
(* centers even ones.  An octant is the set of axes on whose upper side a   *)
(* point is.                                                                *)
(***************************************************************************)
EXTENDS Integers, FiniteSetsExt, SequencesExt

CONSTANTS
  Axes,        \* 1 .. 3 in the code
  MaxDepth,    \* max_depth
  Cap,         \* CAP: nodes in the pool
  Pts,         \* PTS: points retained
  StackSlots,  \* entries of the query's stack (64)
  MaxAvoid,    \* MAX_AVOID_OBSTACLES (16)
  Landmarks,   \* points seen: functions from Axes to integers
  Radii        \* of the sliding window

VARIABLES
  bare,     \* the octree alone, or the map that owns one
  tree,     \* nodes, free and occupied of the octree
  points,   \* points[..n_points]
  seen,     \* history: points in the tree by an accepted insertion
  missed,   \* history: points that found no room among the retained ones
  lost      \* history: near points the cull just done took out of the tree

mapVars == <<bare, tree, points, seen, missed, lost>>

NoChild == -1
Octants == SUBSET Axes
Origin == [a \in Axes |-> 0]
HalfAt(depth) == 2 ^ (MaxDepth - depth)   \* half-extent of a node

(* octant_of and child_center *)
OctantOf(center, p) == {a \in Axes : p[a] >= center[a]}
ChildCenter(center, half, oct) ==
  [a \in Axes |-> center[a] + IF a \in oct THEN half \div 2 ELSE -(half \div 2)]

(* The octants taken on the way down to p. *)
Descent(p) ==
  LET at[d \in 0 .. MaxDepth] ==
        IF d = 0 THEN [center |-> Origin, path |-> <<>>]
        ELSE LET up == at[d - 1]
                 oct == OctantOf(up.center, p)
             IN  [center |-> ChildCenter(up.center, HalfAt(d - 1), oct),
                  path |-> Append(up.path, oct)]
  IN  at[MaxDepth].path

-----------------------------------------------------------------------------
NewNode == [children |-> [o \in Octants |-> NoChild], occupied |-> FALSE]

(* SparseVoxelOctree::new and clear: node 0 is the root. *)
EmptyTree == [nodes |-> [n \in 0 .. Cap - 1 |-> NewNode], free |-> 1, occupied |-> 0]

IsFull(t) == t.free >= Cap

(* One level of the descent of insert_occupied. *)
Down(w, oct) ==
  LET child == w.tree.nodes[w.node].children[oct]
  IN  CASE ~w.ok            -> w
        [] child # NoChild  -> [w EXCEPT !.node = child]
        [] IsFull(w.tree)   -> [w EXCEPT !.ok = FALSE]
        [] OTHER -> [w EXCEPT !.tree.nodes[w.node].children[oct] = w.tree.free,
                              !.tree.free = @ + 1, !.node = w.tree.free]

Mut_Insert(t, p, value) ==
  LET w == FoldLeft(Down, [tree |-> t, node |-> 0, ok |-> TRUE], Descent(p))
  IN  IF IsFull(t) \/ ~w.ok THEN [tree |-> t, ok |-> FALSE]
      ELSE [tree |-> [w.tree EXCEPT !.nodes[w.node].occupied = value,
                                    !.occupied = IF value THEN @ + 1 ELSE @ - 1],
            ok |-> TRUE]

(* insert_occupied: a full pool refuses everything; the nodes made before   *)
(* the pool ran out stay.                                                   *)
Insert(t, p, value) ==
  LET w == FoldLeft(Down, [tree |-> t, node |-> 0, ok |-> TRUE], Descent(p))
      was == w.tree.nodes[w.node].occupied
  IN  IF IsFull(t) THEN [tree |-> t, ok |-> FALSE]
      ELSE IF ~w.ok THEN [tree |-> w.tree, ok |-> FALSE]
      ELSE [tree |-> [w.tree EXCEPT !.nodes[w.node].occupied = value,
                                    !.occupied = @ + CASE value /\ ~was -> 1
                                                       [] ~value /\ was -> -1
                                                       [] OTHER -> 0],
            ok |-> TRUE]

(* is_occupied *)
IsOccupied(t, p) ==
  LET step(n, oct) == IF n = NoChild THEN NoChild ELSE t.nodes[n].children[oct]
      leaf == FoldLeft(step, 0, Descent(p))
  IN  leaf # NoChild /\ t.nodes[leaf].occupied

-----------------------------------------------------------------------------
(* box_overlaps *)
Overlaps(lo, hi, c, h) == \A a \in Axes : c[a] - h <= hi[a] /\ c[a] + h >= lo[a]

OctantOrder ==
  SetToSortSeq(Octants, LAMBDA o, q : SumSet({2 ^ (a - 1) : a \in o}) < SumSet({2 ^ (a - 1) : a \in q}))

(* query_obstacles: depth first with a stack of bounded size; what does not *)
(* fit the stack or the caller's buffer is dropped.                         *)
QueryObstacles(t, lo, hi, room) ==
  LET visit(s, oct) ==
        LET c == t.nodes[s.top.node].children[oct]
            center == ChildCenter(s.top.center, HalfAt(s.top.depth), oct)
        IN  CASE c = NoChild \/ ~Overlaps(lo, hi, center, HalfAt(s.top.depth) \div 2) -> s
              [] c # NoChild /\ (s.top.depth + 1 = MaxDepth \/ t.nodes[c].children = NewNode.children) ->
                   IF t.nodes[c].occupied /\ Len(s.out) < room
                   THEN [s EXCEPT !.out = Append(@, center)] ELSE s
              [] Len(s.stack) < StackSlots ->
                   [s EXCEPT !.stack = Append(@, [node |-> c, center |-> center, depth |-> s.top.depth + 1])]
              [] OTHER -> s
      turn[n \in 0 .. Cap] ==
        IF n = 0 THEN [stack |-> <<[node |-> 0, center |-> Origin, depth |-> 0]>>, out |-> <<>>]
        ELSE LET before == turn[n - 1]
             IN  IF before.stack = <<>> THEN before
                 ELSE LET after == FoldLeft(visit, [stack |-> Front(before.stack),
                                                    top |-> Last(before.stack), out |-> before.out],
                                            OctantOrder)
                      IN  [stack |-> after.stack, out |-> after.out]
  IN  turn[Cap].out

(* raycast along an axis: steps of half a leaf; how far the first occupied  *)
(* voxel is, as a set that is empty when there is none.                     *)
Raycast(t, ro, axis, sign, maxDist) ==
  LET at(d) == [ro EXCEPT ![axis] = @ + sign * d]
      hits == {d \in 0 .. maxDist - 1 : IsOccupied(t, at(d))}
  IN  IF hits = {} THEN {} ELSE {Min(hits)}

-----------------------------------------------------------------------------
(* The voxel of a point: outside of the cube, the one at its edge.          *)
Reach == 2 ^ MaxDepth
Clip(x) == Max({-Reach, Min({Reach - 1, x})})
Voxel(p) == [a \in Axes |-> 2 * (Clip(p[a]) \div 2) + 1]
Voxels == [Axes -> {2 * k + 1 : k \in -(Reach \div 2) .. (Reach \div 2) - 1}]

SquaredDistance(p, pos) == FoldFunction(+, 0, [a \in Axes |-> (p[a] - pos[a]) ^ 2])

Near(p, pos, radius) == SquaredDistance(p, pos) <= radius ^ 2

(* ObstacleAvoider::mitigate: the obstacles that push the target away, each *)
(* the harder the nearer it is, are those within reach among the first the  *)
(* query of the surrounding box finds.                                      *)
Pushing(t, pos, reach) ==
  LET side(sign) == [a \in Axes |-> pos[a] + sign * reach]
      pushes(p) == p # pos /\ SquaredDistance(p, pos) < reach ^ 2
  IN  SelectSeq(QueryObstacles(t, side(-1), side(1), MaxAvoid), pushes)

(* lookahead_offset for travel along an axis: sideways, to the left, the    *)
(* harder the nearer the hit is; for travel straight up or down, nowhere.   *)
Aside(t, pos, axis, sign, lookahead) ==
  IF axis = 3 THEN {}
  ELSE {[axis |-> 3 - axis, sign |-> IF axis = 1 THEN sign ELSE -sign, push |-> lookahead - d] :
        d \in Raycast(t, pos, axis, sign, lookahead)}

MapInit ==
  /\ bare \in BOOLEAN
  /\ tree = EmptyTree
  /\ points = <<>>
  /\ seen = {} /\ missed = {} /\ lost = {}

(* insert_point of the bare tree; insert_keyframe with one landmark: the    *)
(* point is retained if there is room, and inserted in the tree if there is *)
(* room, one without the other.                                             *)
Observe(p) ==
  LET r == Insert(tree, p, TRUE)
      keeps == ~bare /\ Len(points) < Pts
  IN  /\ points' = IF keeps THEN Append(points, p) ELSE points
      /\ tree' = r.tree
      /\ seen' = IF r.ok THEN seen \cup {p} ELSE seen
      /\ missed' = IF bare \/ keeps THEN missed ELSE missed \cup {p}
      /\ lost' = {}
      /\ UNCHANGED bare

(* insert_occupied(p, false) of the bare tree: a voxel seen to be free. *)
Free(p) ==
  LET r == Insert(tree, p, FALSE)
  IN  /\ bare
      /\ tree' = r.tree
      /\ seen' = IF r.ok THEN {q \in seen : Voxel(q) # Voxel(p)} ELSE seen
      /\ UNCHANGED <<bare, points, missed, lost>>

(* clear of the bare tree *)
Clear ==
  /\ bare
  /\ tree' = EmptyTree
  /\ seen' = {}
  /\ UNCHANGED <<bare, points, missed, lost>>

Mut_Rebuild(kept) ==
  FoldLeft(LAMBDA s, p : LET r == Insert(s.tree, p, TRUE)
                         IN  [tree |-> r.tree, in |-> IF r.ok THEN s.in \cup {p} ELSE s.in],
           [tree |-> EmptyTree, in |-> {}], IF kept = <<>> THEN kept ELSE Tail(kept))

(* The tree cleared and built again from the points kept, and which of them *)
(* it took.                                                                 *)
Rebuild(kept) ==
  FoldLeft(LAMBDA s, p : LET r == Insert(s.tree, p, TRUE)
                         IN  [tree |-> r.tree, in |-> IF r.ok THEN s.in \cup {p} ELSE s.in],
           [tree |-> EmptyTree, in |-> {}], kept)

(* cull_distant_data *)
CullDistant(pos, radius) ==
  LET kept == SelectSeq(points, LAMBDA p : Near(p, pos, radius))
      rebuilt == Rebuild(kept)
      stillIn == {Voxel(p) : p \in rebuilt.in}
  IN  /\ ~bare
      /\ points' = kept
      /\ tree' = rebuilt.tree
      /\ seen' = rebuilt.in
      /\ lost' = {p \in seen : Near(p, pos, radius) /\ Voxel(p) \notin stillIn}
      /\ missed' = {}
      /\ UNCHANGED bare

MapNext ==
  \/ \E p \in Landmarks : Observe(p) \/ Free(p)
  \/ Clear
  \/ \E pos \in Landmarks, radius \in Radii : CullDistant(pos, radius)

-----------------------------------------------------------------------------
(* Every obstacle within reach pushes the vehicle away, unless the box      *)
(* around it holds more than MaxAvoid obstacles: then some are left out,    *)
(* the nearest perhaps among them; the one straight ahead never is.         *)
AvoidsWhatIsNear ==
  LET there == {Voxel(p) : p \in seen}
      box(pos, reach) == {v \in there : \A a \in Axes : v[a] - 1 <= pos[a] + reach /\ v[a] + 1 >= pos[a] - reach}
      within(pos, reach) == {v \in there : v # pos /\ SquaredDistance(v, pos) < reach ^ 2}
  IN  \A pos \in Landmarks, reach \in Radii :
        /\ Range(Pushing(tree, pos, reach)) \subseteq within(pos, reach)
        /\ Cardinality(box(pos, reach)) <= MaxAvoid =>
             Range(Pushing(tree, pos, reach)) = within(pos, reach)
        /\ \A axis \in Axes, sign \in {-1, 1} :
             Aside(tree, pos, axis, sign, reach) # {} <=>
               \E d \in 0 .. reach - 1 : Voxel([pos EXCEPT ![axis] = @ + sign * d]) \in there

(* The octree is the set of voxels of the points it accepted: is_occupied   *)
(* says so voxel by voxel, occupied_voxels counts them, query_obstacles     *)
(* finds them in a box as often as they are there (no more than the buffer  *)
(* holds), and raycast the first one ahead, whatever was inserted, freed,   *)
(* refused half-way down for want of nodes, cleared or rebuilt before.      *)
MapIsTheSet ==
  LET there == {Voxel(p) : p \in seen}
      within(lo, hi) == {v \in there : Overlaps(lo, hi, v, 1)}
      found(lo, hi) == QueryObstacles(tree, lo, hi, Cap)
      ahead(p, axis, sign, v) ==
        {d \in 0 .. 2 * Reach : Voxel([p EXCEPT ![axis] = @ + sign * d]) = v}
  IN  /\ tree.free <= Cap
      /\ {v \in Voxels : IsOccupied(tree, v)} = there
      /\ tree.occupied = Cardinality(there)
      /\ \A lo, hi \in Landmarks \cup {[a \in Axes |-> -Reach], [a \in Axes |-> Reach]} :
           /\ Range(found(lo, hi)) = within(lo, hi)
           /\ Len(found(lo, hi)) = Cardinality(within(lo, hi))
           /\ Len(QueryObstacles(tree, lo, hi, 1)) <= 1
      /\ \A p \in Landmarks, axis \in Axes, sign \in {-1, 1} :
           LET onTheWay == UNION {ahead(p, axis, sign, v) : v \in there}
           IN  Raycast(tree, p, axis, sign, 2 * Reach + 1)
                 = IF onTheWay = {} THEN {} ELSE {Min(onTheWay)}
      /\ AvoidsWhatIsNear

(* A cull takes a near point out of the tree only if the point found no     *)
(* room among the retained ones.                                            *)
OnlyUnretainedAreLost == [][lost' \subseteq missed]_mapVars
=============================================================================
