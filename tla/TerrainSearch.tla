--------------------------- MODULE TerrainSearch ---------------------------
(***************************************************************************)
(* The two searches of a terrain database: terrain contour matching         *)
(* (Tercom, tpt-mapping/src/tan/mod.rs), which corrects the dead-reckoned   *)
(* position by the elevations measured along a northward track, and the     *)
(* choice of a landing site in a glide (tpt-core/src/glide.rs).             *)
(* Distances are in half cells of the grid, elevations in quarter units, so *)
(* that the bilinear sample is whole.  Degrees and metres convert exactly.  *)
(***************************************************************************)
EXTENDS Integers, FiniteSetsExt, SequencesExt

CONSTANTS
  Terrains,      \* [grid, holes]: rows of elevations from the south, and where a query errs
  SearchRadius,  \* search_radius_m, step_m being 1
  Spacing,       \* profile_spacing_m
  ProfileLen,    \* samples of a profile
  Track,         \* where the vehicle may be: pairs <<north, east>>
  MaxDrift,      \* bound of the model: error of the estimate on an axis
  Altitudes,     \* altitude_agl
  GlideRatio,    \* glide_ratio
  Lattice        \* grid

VARIABLES
  terrain,       \* the database
  position,      \* where the vehicle is
  estimate       \* where it takes itself to be

searchVars == <<terrain, position, estimate>>

ClampTo(lo, hi, v) == Max({lo, Min({hi, v})})
Away(x) == IF x < 0 THEN -x ELSE x

(* DemGrid::sample: bilinear between the four cells around p, the edges     *)
(* standing for all beyond them; four times the elevation.                  *)
Sample(g, p) ==
  LET n == ClampTo(0, 2 * (Len(g) - 1), p[1])
      e == ClampTo(0, 2 * (Len(g[1]) - 1), p[2])
      cell(r, c) == g[Min({r, Len(g) - 1}) + 1][Min({c, Len(g[1]) - 1}) + 1]
      between(r) == (2 - (e % 2)) * cell(r, e \div 2) + (e % 2) * cell(r, (e \div 2) + 1)
  IN  (2 - (n % 2)) * between(n \div 2) + (n % 2) * between((n \div 2) + 1)

(* get_elevation: a database may fail to answer. *)
GetElevation(p) == IF p \in terrain.holes THEN {} ELSE {Sample(terrain.grid, p)}

-----------------------------------------------------------------------------
Plus(p, q) == <<p[1] + q[1], p[2] + q[2]>>
Along(p, k) == <<p[1] + (k - 1) * Spacing, p[2]>>

(* What the radar altimeter measures on the track. *)
Profile == [k \in 1 .. ProfileLen |-> Sample(terrain.grid, Along(position, k))]

(* The offsets, and their order in the two loops: east, then north. *)
Square == (-SearchRadius .. SearchRadius) \X (-SearchRadius .. SearchRadius)
Side == (2 * SearchRadius) + 1
Offsets ==
  [i \in 1 .. Side * Side |-> <<((i - 1) % Side) - SearchRadius, ((i - 1) \div Side) - SearchRadius>>]

Unknown(at) == {k \in 1 .. ProfileLen : GetElevation(Along(at, k)) = {}}

(* The residual, apart from the samples the database does not answer.       *)
Residual(profile, at) ==
  SumFunction([k \in 1 .. ProfileLen |->
    IF k \in Unknown(at) THEN 0 ELSE Away(profile[k] - CHOOSE v \in GetElevation(Along(at, k)) : TRUE)])

(* An unanswered sample counts half the greatest number: two of them make a *)
(* sum that is still a number, a third one makes it infinite.               *)
Eligible(at) == Cardinality(Unknown(at)) <= 2

Mut_Better(profile, p, q) == Residual(profile, p) < Residual(profile, q)

Better(profile, p, q) ==
  \/ Cardinality(Unknown(p)) < Cardinality(Unknown(q))
  \/ Unknown(p) = {} /\ Unknown(q) = {} /\ Residual(profile, p) < Residual(profile, q)

(* correlate_db: the first of the best; the origin when none is eligible.   *)
(* Next to an unanswered sample the finite residuals are rounded away.      *)
Correlate(profile, origin) ==
  LET step(best, o) ==
        IF Eligible(Plus(origin, o)) /\ (best = {} \/ \E b \in best : Better(profile, Plus(origin, o), Plus(origin, b)))
        THEN {o} ELSE best
      best == FoldLeft(step, {}, Offsets)
  IN  IF best = {} THEN <<0, 0>> ELSE CHOOSE o \in best : TRUE

-----------------------------------------------------------------------------
(* The lattice of best_landing_site, in the order of its loops: as wide as  *)
(* the reach, so that it spans half of it either way.                       *)
Reach(altitude) == altitude * GlideRatio
Step(i, altitude) == ((i * Reach(altitude)) \div Lattice) - (Reach(altitude) \div 2)
LatticeSites(at, altitude) ==
  LET side == Lattice + 1
  IN  [k \in 1 .. side * side |->
        Plus(at, <<Step((k - 1) % side, altitude), Step((k - 1) \div side, altitude)>>)]

(* best_landing_site: the first of the lowest that the database knows.      *)
BestLandingSite(at, altitude) ==
  LET lower(best, p) ==
        IF GetElevation(p) = {} \/ (\E b \in best : Min(GetElevation(b)) <= Min(GetElevation(p)))
        THEN best ELSE {p}
  IN  IF altitude <= 0 \/ Lattice = 0 THEN {} ELSE FoldLeft(lower, {}, LatticeSites(at, altitude))

-----------------------------------------------------------------------------
SearchInit ==
  /\ terrain \in Terrains
  /\ position \in Track
  /\ estimate = position

(* Dead reckoning drifts. *)
Drift(d) ==
  /\ \A a \in 1 .. 2 : Away(estimate[a] + d[a] - position[a]) <= MaxDrift
  /\ estimate' = Plus(estimate, d)
  /\ UNCHANGED <<terrain, position>>

Fly(p) == position' = p /\ estimate' = Plus(estimate, Plus(p, <<-position[1], -position[2]>>)) /\ UNCHANGED terrain

(* The correction is added to the position the search started from.         *)
Fix ==
  /\ estimate' = Plus(estimate, Correlate(Profile, estimate))
  /\ \A a \in 1 .. 2 : Away(estimate'[a] - position[a]) <= MaxDrift + SearchRadius
  /\ UNCHANGED <<terrain, position>>

SearchNext ==
  \/ \E d \in {<<1, 0>>, <<-1, 0>>, <<0, 1>>, <<0, -1>>} : Drift(d)
  \/ \E p \in Track : Fly(p)
  \/ Fix

-----------------------------------------------------------------------------
(* Contour matching: where it ends up matches the profile at least as well  *)
(* as any place of the search that the database knows; so it is the true    *)
(* position if that is within the search, known, and no other place has the *)
(* same contour.  Nothing is claimed of a search that knows no place in     *)
(* full: with some samples unknown a place can then still be selected.      *)
TercomFindsTheTrack ==
  LET places == {Plus(estimate, o) : o \in Square}
      known == {p \in places : Unknown(p) = {}}
      found == Plus(estimate, Correlate(Profile, estimate))
      alike == {p \in known : Residual(Profile, p) = 0}
  IN  /\ known # {} => found \in known /\ \A p \in known : Residual(Profile, found) <= Residual(Profile, p)
      /\ alike = {position} => found = position

(* The landing site is a place of the lattice that is known and as low as   *)
(* any of them, and there is one unless none is known.  It is within the    *)
(* still-air reach, rounded to a half cell.  Nothing is claimed of places   *)
(* in reach beyond the lattice, which spans half of it either way.          *)
LandsOnTheLowest ==
  \A altitude \in Altitudes :
    LET steps == {Step(i, altitude) : i \in 0 .. Lattice}
        looked == {Plus(estimate, d) : d \in steps \X steps}
        known == {p \in looked : GetElevation(p) # {}}
        site == BestLandingSite(estimate, altitude)
    IN  /\ site = {} <=> altitude <= 0 \/ Lattice = 0 \/ known = {}
        /\ \A p \in site :
             /\ p \in known /\ \A q \in known : Min(GetElevation(p)) <= Min(GetElevation(q))
             /\ LET n == Away(p[1] - estimate[1])
                    e == Away(p[2] - estimate[2])
                IN  n * n + e * e <= (Reach(altitude) + 1) * (Reach(altitude) + 1)

(* Both searches find the best of the places they know and look at. *)
TerrainIsMatched == TercomFindsTheTrack /\ LandsOnTheLowest
=============================================================================
