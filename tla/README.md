# Verification of tpt-flight-control in TLA+

This directory models the control logic of `tpt-flight-control` in TLA+,
model-checks it with TLC on small instances, and proves its central safety
properties with TLAPS for every value of the constants. Paths are relative to
the repository (`src/` in `PROJECT.json`).

- [1. The system](#1-the-system): inventory of components
- [2. Modules](#2-modules): what models what
- [3. Runs](#3-runs): questions, bounds, results
- [4. Proofs](#4-proofs): theorems, inductive invariants
- [5. Where code and documentation disagree](#5-where-code-and-documentation-disagree)
- [6. Plan](#6-plan) and [7. Not modelled](#7-not-modelled)

To repeat the checks: `tlc -config MCX_y.cfg MCX` for each configuration, and
`tlapm X_proofs.tla` for each proof module. `PROJECT.json` relates every
modelling definition to the source lines it stands for, every property to a
run, and every property to a *mutant*: an operator named `Mut_...`, placed
before the definition it is a plausible bug of, with which the property fails.

## 1. The system

The repository is a set of `no_std` Rust crates. There are no threads in the
flight code: everything is a struct with `&mut self` methods called from a
loop. What is concurrent is outside of it, and enters through the calls:
redundant channels and sensors that report at their own pace, partitions and
tasks that share ports, a clock that advances between two reads, and a ground
station at the other end of a UDP socket. The table lists each component, its
state and operations, what is hard about it, and what makes it correct.

| Component (main source) | State and operations | Interacts with | What is hard | Correct when |
|---|---|---|---|---|
| Channel voting (`tpt-core/src/redundancy.rs`) | `reports[N]`; `submit`, `vote` with `MidValueSelect`, `Consensus`, `MonitorVoter` | N channels, each at its own pace | votes over a mixture of frames, a rogue or silent channel that still claims health | one fault is masked; Agreement is near every healthy report |
| Fault scrubbing (same file) | `FaultMonitor` per lane; `update`, `reset`, `scrub_channels` | health flags of the lanes, caller's drop buffer | two accumulators with different rates and limits, a latch, a short buffer, a stalled clock | removal only on evidence, permanent until reset, a persistent fault is dropped, a transient clears |
| Rate scheduler (`tpt-core/src/scheduler.rs`) | `last_us[5]`, `started`, `missed`; `poll` | the board clock, the superloop | late passes, clock restart, deadline accounting | no group overdue, none too fast, no false miss |
| Superloop (`tpt-backend-bare-metal/src/superloop.rs`) | FSM, AHRS, target, setpoint held between guidance runs; `tick`, `set_target` | scheduler, guidance, controllers, envelope, mixer, operator | data of different ages meet in one tick | a new target is flown within a period; commands are in the envelope |
| Flight-mode machine (`tpt-core/src/fsm.rs`) | `mode`; `handle(event)` | every mode owner | sequences of events nobody tested | see its owners |
| Envelope, guidance, control, PID (`envelope.rs`, `guidance.rs`, `control.rs`, `pid.rs`) | gains, integrators | superloop, simulators | numeric | commands bounded |
| Autopilot: mission, fence, failsafe (`tpt-core/src/autopilot.rs`) | waypoints, index, armed; fence; last good position, triggered | mission owner, vehicle state | call sequences (disarm and re-arm, add after completion), narrow fences, failsafe before the first good position | no step leaves the fence; a mission left alone ends; a return to the last good position arrives there, a landing in place stays in the fence |
| Glide planner, avoidance, formation (`glide.rs`, `autopilot_avoidance.rs`, `formation.rs`) | none (pure) | autopilot, map, swarm | a bounded buffer of obstacles, unknown terrain | lowest known site; near obstacles push; the slot is the lead's |
| Swarm (`tpt-core/src/swarm.rs`) | peer slots by id mod N; `ingest`, `peer`, `iter` | other vehicles | slot collisions, reordered reports | a lookup is that vehicle (it is not where two share a slot, section 5) |
| Prognostics (`tpt-core/src/prognostics.rs`) | sample ring; `push`, `slope`, wear estimators | health report | order after the ring wraps | the trend's sign is that of the samples in time order (until the ring wraps, section 5) |
| Fusion modes and health (`tpt-sensor-fusion/src/nav_health.rs`) | mode, source statuses, two time stamps; `set_*`, `note_aiding`, `tick`, `health` | the loop that owns it | the stamp is that of the previous tick | `is_navigable` never optimistic |
| Dissimilar monitor (`tpt-sensor-fusion/src/dissimilar.rs`) | latest sample of three sources, INS drift; `submit`, `evaluate` | GNSS, VIO, TAN | samples carry no time; one of two witnesses missing | no false alarm, no missed spoof, the recommended source exists |
| GPS-denied simulation and replay (`tpt-sim/src/scenarios.rs`, `replay.rs`) | tick, FSM, fusion machine, faulted, last setpoint; `sense`, `apply`, `record`, `from_csv` | plant, fusion modes, FSM | decisions at one rate act at another; logs with holes | coasting is Failsafe and level hover; an aligned run is aided |
| Estimators, math (`ekf.rs`, `ahrs.rs`, `nav.rs`, `tpt-math`) | state vectors and covariances | all of the above | numeric | bounded error |
| Mixers (`tpt-mixer`: quad, tilt-rotor, DEP) | rotor health in DEP; `fail`, `restore`, `allocate` | control | failure patterns that are singular | a failed rotor gets zero, the others make the wrench |
| Codecs (`tpt-protocols`: MAVLink, TPT-Link, ARINC 429/664, companion, integrity) | stateless, except companion handshakes | ground station, companion | lengths, enumerations that grow on one side only | what is sent is what is received by its reader, or nothing |
| Cryptography, GNSS authentication and RAIM (`chacha.rs`, `sha256.rs`, `antispoof.rs`) | RAIM alarm | board | alarm kept when too few solutions arrive | alarm iff inconsistent |
| Mapping (`tpt-mapping`: octree, SLAM, TAN, VIO) | node pool, keyframe window | obstacle avoidance | pool exhaustion, sliding window | the map is the set of what it accepted; only unretained points are lost |
| PikeOS backend (`partition.rs`) | sampling and queuing ports, partitions, schedule | flight core partitions | interleaved writers and readers, wrap-around, failed calls | a queuing port is a FIFO |
| VxWorks backend (`lib.rs`) | message queues, tasks, health | same | suspension for two reasons | a task follows its partition's health unless moved by hand |
| seL4 backend (`microkernel.rs`) | endpoint slot, domain memory | same | a send over an unread message | the latest message is handed over whole and once; no domain over its memory |
| FreeRTOS, Zephyr, reference hardware | stubs | | | |
| Bare-metal board and HAL (`board.rs`, `hal.rs`) | register mirror, latest samples, actuator values | superloop | clock units, peripheral set-up | |
| Ground station (`tpt-gcs`) | last telemetry, sequence number, pending command; `poll`, `send`, `ingest`, `take_pending` | vehicle, over UDP | loss, duplication, reordering, stale display | what is shown was sampled (once a frame was read; the window starts with a default), what is obeyed was ordered, the last order is sent, the display catches up |
| Web bridge, SITL plant, environment (`tpt-web`, `sim.rs`, `plant.rs`, `environment.rs`) | physics | GPS-denied loop, browser | numeric | |
| Sovereign toolchain, certification, docs | none at run time | | | |

The hazards of this code, each at its line and with the properties that would
catch it going wrong, are in `PROJECT.json` under `hazards`. How far each
component is modelled is there under `components`.

## 2. Modules

```
 core                                     proofs
 ----                                     ------
 FaultMonitor, ChannelVoting               <- Redundancy_proofs    -> DataLemmas
 RateScheduler <- RateTiming <- Superloop  <- Loops_proofs
 FlightModes <------------------'
     ^-- FusionModes <- GpsDeniedLoop      <- GpsDeniedLoop_proofs -> DataLemmas
 Mission                                   <- Loops_proofs
 DissimilarNav                             <- Inputs_proofs
 RingQueue -> BoundedFifo                  <- Units_proofs (by way of Units)

 wire formats                             ground station
 ------------                             --------------
 FlightModes <- Frames -> Aead            Frames <- GcsLink <- Inputs_proofs
                Frames <- Avionics
 Avionics, MapManifest <- WireBench

 Units <- Units_proofs <- Algorithms_proofs <- Stream_proofs      -> DataLemmas
   is   RingQueue + instances of BlockStream, Poly1305, Crc16, WireBench,
        RecentStores, OsKernels, ObstacleMap, Raim, RotorFaults, Pid,
        TerrainSearch
```

`A <- B` means that B extends A, `A -> B` that A instantiates B, or, for
DataLemmas, that the proofs of A cite its lemmas. Each `MCx` module gives the
constants of `x` their values for TLC. All modules are parameterised by
constants, those with proofs under named assumptions, and none declares a
recursive operator, so that every one can be proved about.

**FaultMonitor** models the scrubber. `monitor[c]` is the struct of lane `c`;
`Update` is `FaultMonitor::update` with its two outcomes `Strike` and `Heal`;
`Scrub(dt)` is one whole call of `scrub_channels`, including the truncated
`dropped` buffer; `Reset` is `reset`. Seconds are integer ticks. `HealthChange`
is the environment: a lane's built-in test changes its mind. Two history
variables record the evidence a lane gave since it was last clean. They are
capped by what a limit needs and read by no action.

**ChannelVoting** models `RedundantComputer` with channels that submit
correctly, go silent (and leave their last report behind) or go rogue (any
value, any claim of health, even an index that does not exist). The three
votes are pure reads, so they are operators and their promises are invariants:
they have to hold whenever a vote is taken, also in the middle of a frame.
Averages are exact fractions, so the rounding of `f64` is abstracted.

**RateScheduler** models `poll` with the clock it reads: a counter that
restarts after `ClockMod` values, with `saturating_sub` as in the code.
**RateTiming** puts true time beside it (boot time, runs of each group, longest
gap) for a clock that does not restart. **FlightModes** is the transition table
of `fsm.rs`. **Superloop** composes the two: `Tick` is the whole of
`Supervisor::tick`, with the attitude of the previous sample, the guidance that
runs only when the 200 Hz group is due, the setpoint that is held in between,
the controller that gets the unprotected setpoint and the protector whose
output goes to the mixer. Of the control data it keeps the yaw axis.

**FusionModes** models the source ranking and the aiding clock.
**GpsDeniedLoop** composes it with the flight modes as `GpsDeniedSim` does: a
step applies a batch of readings, every `OuterDiv`-th step also runs a
navigation cycle. A live run and a replay differ in which step a batch was
sensed at, `recorded`: a log may start in the middle of a cycle and `from_csv`
drops lines it cannot read. The altitude test and the INS drift test are
nondeterministic, since they depend on the plant.

**DissimilarNav** models the monitor with samples that replace each other while
the vehicle moves. Positions are on one axis and the uncertainty floor of 1e-6
is below the unit. `Distance(...) > 3 * (sigma + sigma)` is the code's
comparison of a quotient, multiplied out.

**RingQueue** models `QueuingPort` and `MessageQueue`, which are the same ring
with different sizes. A slot keeps its old message until it is written again,
and `read` uses the recorded length, so a stale slot or length would be seen.
**BoundedFifo** is the abstract specification; `RingQueue` defines `Contents`,
the refinement mapping, and `IsAFifo`, the FIFO's specification of it.

**GcsLink** is the ground station on a datagram network. `Poll`, `Send` and the
line that is typed are the three phases of the console's loop; `Press` and
`TakePending` are a redraw of the window and the host loop that empties its one
pending slot. The console shows nothing before its first frame, the window
`Telemetry::zeroed()`, which nobody sent (`Default`). A datagram that cannot be
sent ends the console with that error (`SendFails`). The vehicle's end, the
network and that host loop are not in the repository: `Sample`, `Arrive` and
`Obey` are the outside, and a datagram may arrive late, twice, damaged, replaced
by other traffic, or never. `Browse` is the browser's copy of what the station
shows: the mode of the sample on show beside the navigation mode of a health
snapshot taken apart from it.

**Frames** holds the formats GcsLink uses and the companion's: a buffer is a
record of header fields, payload and trailer, a parser returns a set that is
empty for `None`, and the check sequence is the fields it was computed over.
**Aead** is the authenticated encryption around an ideal cipher, **Avionics**
MAVLink, AFDX and ARINC 429, **MapManifest** the signed map database and
position fix. **WireBench** puts one message of every kind on a wire, damages
it in one place, and gives it to every reader.

**Mission** has one action per call of the sequencer and the failsafe manager,
and `Turn`, the outer loop that the documentation of `autopilot.rs` describes:
advance, ask the failsafe, mitigate by the fence, fly one step. The loop and
the vehicle are outside of the repository; a vehicle moves at most `Step` on
each axis between two turns. The documentation lists the steps as advance,
mitigate, drop to the failsafe on a fault. That the failsafe's target is
mitigated as well is one reading of it; a loop that flew it as it comes would
leave the fence for a last good position or a `safe_z` outside.

**Units** is the sum of the components that share no state with any other. A
behaviour picks one and runs it alone; the product of all of them would have
nothing to add, since none reads a variable of another.

- **BlockStream** cuts a message into blocks, as `Sha256::update` and
  `Poly1305::update` both do, for chunks of any length, and pads it.
  **Poly1305** is the limb arithmetic with the base of the limbs a constant, 8
  in the run in place of 2^26 (so that the modulus is 2^15 - 5, with five limbs
  and the same folding of what overflows). **Crc16** runs the check sequence on
  the difference of two frames, which by linearity is all that matters.
- **RecentStores** are the seven stores that keep the newest of what they are
  told: sampling port, endpoint, ARINC 429 channel, trend buffer, keyframe
  graph, swarm slots, LiDAR scan. A history variable keeps what was accepted,
  and each store is compared with it. The formation slot is computed from what a
  swarm lookup returns, so its property follows the report to the velocity.
- **OsKernels** are the schedulers of PikeOS, VxWorks and seL4 with partition
  modes, health and memory budgets.
- **ObstacleMap** is the octree with its pool of nodes, behind `SpatialMap` or
  bare, in two dimensions (a quadtree; `Axes` is a constant). Its queries are
  written as the traversals they are, and checked against the set of voxels.
  The avoider's choice of obstacles is a query of it.
- **Raim** is the integrity monitor behind the board's latch.
- **RotorFaults** solves the normal equations of the mixer by Cramer's rule, in
  integers: a thrust is a numerator over the determinant. Where the determinant
  is zero the floating-point one may come out as a rounding error, which is
  modelled as a choice. It also holds the fixed table of the quadcopter.
- **Pid** is the controller in whole units. **TerrainSearch** are contour
  matching and the choice of a landing site over a small grid, as the folds
  over the candidates that the loops are, checked against "no candidate is
  better".

## 3. Runs

| Run | States | Question and bounds |
|---|---|---|
| `fault_scrubbing` | 5,492 | Two lanes and a drop buffer of one, so the buffer overflows. Intervals of 0, 1 and 3 ticks: stalled, nominal, late. Threshold 4, two strikes allowed, `u32` cut to 3: each limit is reached both alone and together with the other, and the strike count saturates. |
| `voting` | 40,608 | Four channels (a quad set), up to two faulty ones, three wild values (below, inside and above the correct ones), the correct output moving by up to one a frame. Two faults are enough to make a triple set with one fault, which is what mid-value select is for. |
| `voting_quorum_doc` | violation | `QuorumSuffices`, see section 5. |
| `superloop_ticks` | 123,156 | 1000 and 200 Hz groups, gaps of one, two and 21 half-milliseconds (a gap over two periods of the slow group counts as missed), clock at zero or already running at construction, horizon of 27 units: one very late pass with nominal passes before and after it. |
| `rates_on_arm_clock` | violation | `EveryGroupRunsAgain` on the counter the ARM build reads, see section 5. |
| `superloop_envelope` | violation | `EnvelopeIsNonBypassable`, see section 5. |
| `gps_denied_replay` | 4,038 | All six scenarios (four pairs of source statuses), a cycle of three steps instead of five, an aiding limit of three cycles, 21 steps and up to three lost lines: a run is longer than two aiding limits, and lost lines shift a log by every residue. |
| `dissimilar_check` | 80,000 | Five positions on both sides of the origin, near enough to be explained by the uncertainties and too far to be, two uncertainties, a drift below and one at the limit, every order of reports and losses. |
| `dissimilar_yield` | violation | `YieldsToAnAvailableSource`, see section 5. |
| `units` | 43,188 | The sum of the twelve stand-alone components; the instances are below. |
| `ground_link` | 570,918 | Three samples of which the second is in Glide, which nobody can read; two orders, any of which may fail to be sent; a socket of two datagrams, so that it overflows; one datagram doubled; a health snapshot whose navigation mode no sample has. Console and window. |
| `mission` | 18,213 | A fence of seven by five (one horizontal axis and the height), margin and step of two, waypoints inside, inside the band and outside, safe heights inside and outside, starts inside and in breach, five calls in any order. |

What the passing runs show, property by property:

- `RemovalNeedsEvidence`: a lane is permanent only on fault time or strikes
  gathered since it was last clean. `VerdictMatchesCounters`: latch, verdict and
  accumulators agree. `PermanentUntilReset` (action property): only `reset`
  brings a permanent lane back. `PersistentFaultIsDropped`, `TransientClears`
  (liveness).
- `MidValueMasksOneFault`: with at most one faulty channel still believed, an
  Agreement of mid-value select is within noise and one frame's drift of the
  correct output. `AgreementIsNearEveryReport`: an Agreement of `Consensus` or
  `MonitorVoter` is within the tolerance of each healthy report.
- `NewTargetTakesEffect`: the default setpoint is never flown, and a setpoint
  for an old target is replaced within one period of the outer loop.
  `NoGroupOverdue`, `NeverFasterThanRate`, `MissedNeedsALatePass`: what the rate
  groups get in real time.
- `CoastIsDeclared`: without any aiding source, every control step is flown in
  Failsafe with a level hover, although the decision is made at another rate.
  `NavigableMeansAided`: `is_navigable` is never optimistic and is pessimistic
  by one cycle at the most. `AlignedRunIsAided`: a live run, or a replay applied
  at the steps it was sensed at, is aided in every cycle.
- `AccurateGpsIsTrusted`, `GrossGpsErrorIsCaught`, `UndisputedSourceIsThere`: no
  false alarm, no missed spoof, no recommendation of an absent source without a
  dispute.
- `IsAFifo`: the ring implements the bounded FIFO, failed calls included.
- `NothingInvented`: what is obeyed was ordered, and from the first readable
  frame on what is shown was sampled; before it the console shows nothing and
  the window its default, unmarked. The browser's mode is that of something the
  station showed, its navigation mode that of some snapshot, and nothing ties
  the two together. `LastPressIsSent`: orders leave in the order given, the
  window drops one only for a later one, and the console only the one whose
  sending fails, with which it ends. `DisplayCatchesUp` (liveness): the display
  comes to the newest readable sample the socket took.
- `FenceIsNeverCrossed` (action property): no step leaves the fence.
  `TargetsAreReached` (liveness): a mission left alone ends, or stops at a
  waypoint the fence keeps out of reach. A failsafe left alone ends up inside
  the fence, also out of a breach, and a return arrives over a last good
  position that is clear of the band; of a landing in place nothing more is
  claimed, as it may hover above a `safe_z` in the band.
- `MacIsExact`: digests do not depend on the chunks, and the limbs hold the
  number that the RFC defines. `BurstIsDetected`: bursts of up to 13 bits. With
  14 the property fails: the polynomial is shifted the wrong way for the 16
  that a CRC of this width can catch.
- `IntactFrameIsRead`, `DamageIsNeverBelieved`: every message is read by its
  own reader, exactly, and by no other, apart from Glide; a damaged one is
  rejected or unchanged in all that is returned.
- `StoresHoldTheNewest`: each store hands out what it was last told, whole.
  Nothing is claimed of a swarm lookup of a peer whose slot was taken by
  another, of the slope of a wrapped ring, or of a window with a sample of zero
  volts: there the code does not do what its comments say (section 5), and no
  property asserts it either way. The endpoint is documented to store the latest
  message, so losing an unread one is no violation.
- `TasksFollowHealth`: except for a task that was moved by hand, until health
  moves it again. `RaimBlamesTheLiar`: a spoofed receiver among honest ones is
  alarmed and blamed; below two solutions the verdict is that of the last
  comparable ones, however old.
- `MapIsTheSet`: voxel by voxel, in every box and along every ray parallel to an
  axis, the octree is the set of what it accepted; the avoider's look is
  claimed where no more obstacles are near than it looks at.
  `OnlyUnretainedAreLost` (action property): what a cull loses nearby is only
  what was never retained. That it loses even that is in section 5.
- `FaultsAreAbsorbed`: a failed rotor is commanded nothing, and as long as no
  rotor is at a stop the others make exactly the wrench. `WindupIsShort`: the
  integral stays within what brings the output to its limits.
  `TerrainIsMatched`: both searches find the best of the places they know and
  look at. Nothing is claimed of contour matching where no place is known in
  full, nor of landing sites beyond the lattice (section 5).

**Bounds.** `Horizon` (superloop), `MaxTick` and `MaxLost` (GPS-denied loop),
`MaxFaults` (voting), `MaxCopies` and `MaxOrders` (ground link), `MaxCalls`
(mission), `MaxMessage`, `MaxBlocks`, `MaxNow` and `MaxDrift` (units) and the
caps on the history variables are bounds of the model; everything else is
finite by itself. Runs that stop at a bound, or where the system does (a
console that quits, a frame that was read), switch deadlock checking off; in
the others it is on.

The instances of `units`: a queue of four slots and messages that fit with
room, just, and not at all; blocks of four bytes and messages of up to 14, so
that the padding needs a block of its own at some lengths; multipliers and
blocks at both ends of their ranges, the modulus less one among them;
three cells in each store, so that rings wrap and lists shift after four
reports, with four peers of which two pairs share a slot; two rate groups; six
nodes and two retained points for four landmarks, so that pool and list
both fill, one of them half-way down an insertion; up to three receivers;
the eight rotors of the crate's own test with every subset failed; a
controller that reaches both limits in two updates; a hillside that is known,
unknown, and known in part, and a plain on which everything matches.

**Fairness.** `FaultMonitor!FairSpec` has weak fairness of `EffectiveScrub`: the
loop that owns the scrubber is cyclic and its clock advances. It is needed,
because a stalled clock (`dt <= 0`) changes no monitor.
`RateScheduler!SchedSpec` has weak fairness of a pass: the superloop is the only
thing the board runs. `GcsLink!LinkSpec` is fair to the station's own steps: the
console polls once for every line, so it goes on only as long as lines are typed
(`EnterLine`, a `quit` included, which the property allows for), and the
window's thread blocks on the socket. Nothing is asked of the network or the
vehicle. `Mission!MissionSpec` is fair to the loop, which turns for ever; the
operator may stop calling at any time. The other specifications state safety
only and have no fairness.

## 4. Proofs

TLC shows a property for the instances above, TLAPS for every value of the
constants that the named assumptions admit. Each proof has the same shape: an
inductive invariant `IInv`, one lemma per action that preserves it, and the
properties as its consequences.

| Module | Theorems | Argument |
|---|---|---|
| `Redundancy_proofs` (scrubbing) | `TypeCorrect`, `RemovalIsJustified`, `VerdictsAreConsistent`, `PermanentIsFinal` | `IInv` adds to the types, per lane, that the accumulators of a lane not latched never exceed the evidence gathered (up to its cap), and that a latched lane has the evidence that latched it. Removal without evidence is excluded only because of that: the verdict alone says nothing about the past. `StrikeLane`, `HealLane` and `UpdateLane` prove it for one monitor, `ScrubIInv` lifts it to the channel set. |
| `Redundancy_proofs` (voting) | `VotersKeepTheirTolerance`, `OneFaultIsMasked` | `VotingInv`: a correct channel's believed report is within the noise of the correct output in its own frame, and one frame's drift more until it reports again. The rest is about the voters themselves: the average of pairwise agreeing values is within the tolerance of each (`AverageIsNear`), the most central index has the least total disagreement (`CentralIsLeast`), and a value beyond all honest ones has a strictly greater total than the honest one next to it (`OneLiarIsOutvoted`), so a lone liar is chosen only when it lies among them. |
| `Loops_proofs` (scheduler) | `TypeCorrect`, `GroupsAreTimely`, `RatesAreRespected`, `MissesAreReal` | `TimingInv` says where the stamps are: after the first pass each is between the boot time and now, less than a period old, and n runs put it n - 1 periods after boot. |
| `Loops_proofs` (superloop) | `ImplementsTiming`, `LoopInvariance`, `LoopTypeCorrect`, `TargetsAreFlown` | The superloop's steps are timed passes or stutter (refinement of `TimingSpec`), so it inherits the timing theorems. `TargetPending` (as long as a new target is not flown, the outer loop has not run since it was set) is the strengthening for `NewTargetTakesEffect`. |
| `GpsDeniedLoop_proofs` | `Invariance`, `LoopTypeCorrect`, `CoastIsSafe`, `NavigableIsAided`, `AlignedIsFused` | `IInv` relates the fusion clock to the tick (the clock is the last multiple of the divisor), the reported to the real age, and the mode to the fault flag: the fault is sent once, so Failsafe must be shown never to be left. |
| `Inputs_proofs` (dissimilar sources) | `TypeCorrect`, `NoFalseAlarm`, `NoMissedSpoof`, `UndisputedIsThere` | The first two properties follow from the types by the triangle inequality, in the lemmas `AccurateSamplesAgree` and `GrossErrorContradicts`; the third is a case analysis of the recommendation. |
| `Inputs_proofs` (ground link) | `LinkInventsNothing`, `OrdersKeepTheirOrder` | `OrderInv`: the orders handed on are placed among those given by a strictly growing map, and a pending one is the last given, behind all of them. `WireInv`: everything in flight, queued or obeyed comes from a sample already taken or an order already handed on, and what is shown from such a sample or, while no frame has been read, from the default. Its steps rest on the frame lemmas: what `SerializePlain` writes and the network damages is read as what was written or not at all (`TelemetryArrival`, `CommandArrival`), and the browser's text, made of the mode of a sample and the navigation mode of a snapshot, is read back as that pair or, in Glide, as nothing (`BrowserReadBack`). |
| `Loops_proofs` (mission) | `FenceHolds` | For every fence no narrower than twice the margin and every step no longer than it (`FenceIsWide`). Clear of the band on an axis, a step cannot cross it (`StepFromTheClear`). In the band the target is pulled between the bands on every axis, so a step ends between where it was and there (`StepFromTheBand`). What is not obvious is the mixture, a vehicle in the band on one axis and clear on the other with a target far outside; `Typed` is all the invariant it takes, since a breach asks nothing. |
| `Units_proofs` (ring) | `TypeCorrect`, `RingIsAFifo`, `UnitsQueueIsAFifo` | `InStep` (the tail is `count` slots after the head, the recorded length of each filled slot is its message's) makes every step of the ring a step of the FIFO or a stutter under `Contents`. `UnitsSteps` carries this, and each of the theorems below, to the specification that is run. |
| `Units_proofs` (kernels) | `TasksRunByHealth` | `KernelInv`: a task not moved by hand runs iff its partition has not failed, and execution and failure share the time there was between them: no time is charged twice. |
| `Units_proofs` (controller) | `ControllerDoesNotWindUp` | `PidInv` adds the sign facts that make `WindupIsShort` inductive. Its core is `IntegralStaysShort`: as the integral of one step is no more than the proportional part (`IntegralIsSlower`), an output not at its stop before the step cannot take the integral past the stop by more than the derivative's push. |
| `Units_proofs` (integrity) | `OneLiarIsBlamed` | `RaimInv` ties the latch and the verdict to the last solutions that could be compared. `LiarStandsOut` then compares distances to the centroid: one spoofed among n solutions is strictly the farthest from n = 3 on, and beyond the threshold from n = 2 on. |
| `Units_proofs` (stores) | `OneReportStoresHold` | For the stores that hand out one report (sampling port, endpoint, ARINC 429 channel, LiDAR scan). `StoreInv`: the first cells are the message last taken, with its length, though those beyond a shorter one keep older bytes; the word before the channel's index is the last one told, also where the index starts over; what is fresh was told. |
| `Algorithms_proofs` | `SearchesFindTheBest` | Each search is a fold over its candidates, and the best so far is eligible and no worse than any candidate it has been through (`CorrelateIsBest`, `LandingSiteIsFound`): "better" is an order (`BetterIsAnOrder`), so that replacing the best by a better one keeps what was known of it. The folds of the community modules take the last candidate off first; `FoldExists` gives the table of their values. |
| `Stream_proofs` (buffering) | `MacsAreExact` | `Holds` says that blocks and buffer are the message so far, cut in order. `UpdateIs`: a chunk of any length is appended to it, whether it tops up the block in progress, fills blocks, or is used up. SHA-256's padding is a fold of such steps (`PaddingIs`), and the zeros it adds end a block with the length (`PaddedIs`); Poly1305 closes the last block with its own length (`ClosedIs`). `FlattenIs` turns places in the message into the flattened sequence. |
| `Algorithms_proofs` (limbs) | `MacsAreExact` | `PolyInv`: multiplier and accumulator have five digits in the base, and their value is the number the standard defines. The columns make the product, what runs over the top limb folded back times five (`ColumnsMultiply`); carries change no value (`CarryIs`); `Past` is `Prime` + 5, so folding keeps the remainder (`FoldIs`) and one subtraction reduces (`ReduceIs`). `ColumnBound` bounds the sums: below 50 times the base squared, 2^58 in the code, so its 64-bit words do not overflow. |
| `Algorithms_proofs` (checksum) | `BurstsAreDetected` | `CrcInv`: while the burst lasts, the register has a bit that none of the wrong bits still to come can reach. A register of thirteen bits never grows, and its highest bit falls by no more than one a step, because what is shifted out comes back at the top (`StepLosesOne`); in the first byte the lowest wrong bit does that itself (`StepLeads`). With 14 bits neither holds. |
| `Algorithms_proofs` (mixers) | `RotorFaultsAreAbsorbed` | Cramer's rule for four rows and a fifth (`SolvedIs`), and sums over the rotors taken apart (`MadeIs`), give the wrench of rotors none of which is at a stop. That the common denominator, the determinant of `A A^T`, is not negative takes the most: each leading minor times the next is a sum of squares over the rotors, and where the lower one is zero so is the next (`Rising`, `VolumeIsNat`). `QuadDecouples` is linear arithmetic. |
| `DataLemmas` | lemmas | Facts on `%` and `\div`; and the induction over data that the others need, see below. |

**Assumptions.** Those declared with the constants, evaluated by TLC in each run
(positive periods, a non-empty set of groups, sizes that are natural numbers).
The ones with content: `FenceIsWide` above; `PidAssumption`, a proportional gain
above zero, output stops on either side of zero, and an integral gain times the
longest interval no larger than the proportional gain, as with every set of
gains in the source at its loop's period; `SearchAssumption`, a database with a
row and a column at least and rows of one length, which is what the source's
grid is; `StreamAssumption`, a length that fits into a block; `PolyAssumption`,
a multiplier and blocks that five limbs can hold and a base above five (in the
code the clamped multiplier is below 2^124, a block with its high bit below
2^129, and five limbs hold 2^130); `CrcAssumption`, a burst from one byte to
thirteen bits long (past that the property is false, see section 3);
`RotorAssumption`, columns of four integers the first of which is 1, and
commanded thrusts that are not negative (moments are as they like);
`RaimAssumption`, honest receivers that differ by no more than the threshold and
a spoofer that is off by more than twice the threshold and an honest error. Two
theorems carry a hypothesis of their own: `VotersKeepTheirTolerance` needs the
scratch buffer of eight to have room for all channels (`redundancy.rs` votes
over the first eight only), and `OneFaultIsMasked` at least three healthy
channels, which is what `MidValueSelect` is constructed with.

**Induction over data.** The library's induction theorems take an operator as a
parameter and cannot be used. What they rest on can: that the naturals are
well-founded under `<`, so that a non-empty set of them has a least element
(`Least`). `NatSetInduction` and `SubsetInduction` are the induction principles
with a *set* for a predicate. With them `SumUnfolds` shows that the fold behind
the community modules' sums is one member and the sum of the rest, for every
finite domain, and `SumLe`, `SumAdd`, `SumOfFour`, `SumOfNats`, `SumOfSome` and
others follow. The voters' averages and total disagreements, the centroid of the
integrity check and the entries of the mixer's matrix are such sums, so their
theorems bound the number of channels, receivers or rotors only where the code
does (its scratch buffer).

**What the proofs found.** The history behind `WindupIsShort` used to keep the
last error across a `reset` that clears whether the measurement moved, while
the output stays what it was. The property is false then: a derivative kick to
the stop, a reset, and the output is at the stop against the error with no
derivative on record. The instance had no derivative gain strong enough to
show it. Now the history is cleared with the rest, the instance has `Kd = 4`,
and the property is proved.

**Only model-checked.**

- Liveness (`PersistentFaultIsDropped`, `TransientClears`,
  `EveryGroupRunsAgain`, `DisplayCatchesUp`, `TargetsAreReached`): the prover
  does not handle fairness.
- `IntactFrameIsRead`, `DamageIsNeverBelieved`: a case for each pair of the nine
  message kinds and readers. The two formats of the ground link, the ones with
  a counterpart in flight, are covered by the lemmas of `Inputs_proofs`.
- `StoresHoldTheNewest` for the stores that keep several reports (trend buffer,
  keyframe graph, swarm), `MapIsTheSet`, `OnlyUnretainedAreLost`: their
  definitions are folds and filters over sequences (`SelectSeq`, `SortSeq`,
  functions merged with `@@`) that the library has no theorems about.

## 5. Where code and documentation disagree

Four runs end in a counterexample to a sentence of the repository:

- `voting_quorum_doc`: `Consensus` is documented to return Agreement if at least
  `min_healthy` channels agree. The code requires *all* healthy channels to
  agree pairwise, so one rogue channel that calls itself healthy denies the
  quorum (`redundancy.rs:268` against `:225`).
- `rates_on_arm_clock`: the ARM clock is TIM2, reloaded at 1000. With
  `saturating_sub`, a group with a period over one reload is due once and then
  never again, so the slower groups stop after the first pass.
- `superloop_envelope`: the attitude controller is given the setpoint as
  guidance made it; of the protector's output only the thrust reaches the mixer,
  and `protect` passes the thrust through. The yaw rate that is tracked can be
  outside the envelope, which is documented as non-bypassable
  (`superloop.rs:134`, `envelope.rs:51-54`).
- `dissimilar_yield`: when terrain aiding contradicts GNSS but the INS drift is
  25 m or more, `evaluate` recommends `VisualAided` without looking whether
  visual odometry is available.

Seen while modelling, without a run of their own; the properties of section 3
leave these cases out:

- `Peer`: `peer(id)` is documented to be the latest telemetry of that peer
  (`swarm.rs:126`) and is whoever reported last in slot `id % N`, also for an id
  that was never heard.
- `Walk`: a negative slope is documented to mean degrading over time
  (`prognostics.rs:110`). After a wrap `slope` walks the ring from index 0, the
  newest samples first: a ring of three that hears 1, 0, 0, 1 is left with a
  rising 0, 0, 1, and slopes down.
- `VoltageHealth`: a cell below 3 V is documented to be treated as degrading
  (`prognostics.rs:222`); one that reads zero volts counts as the best there is.
- `Eligible`: a place with elevations the database does not know is said never
  to be selected (`tan/mod.rs:132`). With one or two unknown samples the sum is
  still finite, so where nothing is known in full such a place wins.
- `LatticeSites`: `best_landing_site` is documented to look out to the glide
  range (`glide.rs:113`), and its lattice spans half of it either way.
- `CullDistant`: a cull is documented to drop what is outside of the window
  (`octree/mod.rs:445`). It rebuilds the tree from the retained points, of which
  there is a limited number, so what found no room among them goes too.
- `FlightModeFromStr`: `to_json` is documented to read back through `from_json`
  (`tpt-web/src/lib.rs:61`), which has no arm for `Glide`, so the text made for
  a gliding vehicle reads back as nothing.

Seen while reading:

- `MonitorVoter` documents a neutral value on Disagreement (`redundancy.rs:98`)
  and returns a lane's value (`:377`), and documents a mid-value of the active
  lanes (`:290`) where it averages (`:362`).
- The superloop never sends `ReachedTargetAltitude` (`superloop.rs:149`), so it
  stays in Takeoff.
- `verdict_to_status` reports an absent GNSS as Healthy (`dissimilar.rs:178`);
  nothing feeds its result into the fusion machine yet.
- `max_disagreement_m` (`dissimilar.rs:162`) is not the disagreement in metres
  but that distance weighted by the share of the GNSS uncertainty.
- `FusionStateMachine::new` says that all sources start healthy; depth and
  terrain start Lost.
- A flight recorded by `record()` on a simulator that has already run is not
  reproduced by `replay()`, which starts from a new one (`replay.rs:88-137`).
  If the recording started between two navigation cycles, the replay ignores
  all of its aiding. `GpsDeniedLoop` models this with `recorded`.
- `parse_telemetry` and `Command::unpack` do not know the mode byte of Glide
  (`link.rs:62-70`), so a gliding vehicle's telemetry is dropped.
- `Telemetry::zeroed` is documented to be in `PositionHold` (`telemetry.rs:58`)
  and is `Disarmed`, as its test says. The window shows it unmarked, a full
  battery included, until the first frame (`ui.rs:28`, `:68-81`); the console
  has nothing to show until then.
- `disarm()` is documented to pause the mission and `arm()` starts it again from
  the first waypoint (`autopilot.rs:72`). A waypoint deeper in the warning band
  than the capture radius is chased for ever (`WithinReach` in `Mission`), and
  `FailsafeManager` never comes down to a `safe_z` in the band.
- `compute_root_hash` is documented as the hash of the concatenated tile hashes
  and is a chain of exclusive-or and hash (`integrity.rs:23`); `GnssAuth` is
  documented to sign the velocity and leaves it out.
- `DemGrid` is documented to be stored from north to south and is sampled from
  south to north.
- `meters_to_geo` (`glide.rs:98`) is documented as an offset in NED, where x is
  north; it takes `dx` for the east and `dy` for the north. On the square
  lattice it is called with, this only changes the order of the candidates.
- The `insert_keyframe` of `OctreeSpatialMap` rotates landmarks by the pose
  without moving them, where `SlamSpatialMap` takes them to be in the world
  frame.
- A sampling port calls an empty sample fresh and cannot
  read it. The PikeOS scheduler charges every running partition, whether or not
  its window is due.
- The CRC is called X.25 (`mavlink.rs:19`), and uses that polynomial's bits in
  the other order.
- The mixer of the quadcopter says its clamp never distorts the summed thrust;
  `QuadIsDecoupled` holds only while the moments are within the headroom.
- `dep.rs` tests the inverse for existence where a singular determinant can come
  out as a rounding error; then the answer is `true` with meaningless thrusts
  (`Rounded`).
- The controllers of `control.rs` leave the output and integral limits infinite,
  so the anti-windup of `Pid` never acts there.
- The superloop mixes motor commands in its first tick, before it arms, and
  never consults the mode (`superloop.rs:150`).

## 6. Plan

Done, in this order: scrubbing and voting (the fault-tolerance core), scheduler
and superloop, navigation modes with the GPS-denied loop and the dissimilar
monitor, queuing ports; then the ground link with its frames, the mission loop
with the fence theorem, and the stand-alone components under `Units`.

The proofs followed in the same order, then those of the voters, the ground
link, the kernels, the controller, the integrity check and the one-report
stores of `Units`, and last its searches, block stream, limbs, checksum and
mixers.

What would add most from here:

1. Theorems about the members of `Units` that are only model-checked: the other
   stores and the octree.
2. The frame lemmas for the formats of `WireBench`, beside those of the ground
   link.
3. The mission composed with the flight modes, once the repository has the loop
   that owns both.
4. The companion's cloud composed with the map and the avoider: today the three
   meet in properties, not in one behaviour.

## 7. Not modelled

The attitude cascade, Kalman filters, the tiltrotor's blend, scan matching,
visual odometry, physics and geodesy have no discrete control state, and their
correctness is a matter of numeric analysis. The ChaCha20 rounds and the SHA-256
compression function are taken as perfect functions; they have published test
vectors. Byte offsets within a message are abstracted to fields with lengths.
Rendering, sockets of the web server, register access other than the clock, the
backend stubs, the certification documents and the build-configuration checklist
have no behaviour to interleave. Vendored code and the lock file are no part of
the system. `PROJECT.json` lists each of these under `components` with its
reason.
