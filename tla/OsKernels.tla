----------------------------- MODULE OsKernels -----------------------------
(***************************************************************************)
(* The kernels behind the backends, apart from their channels: partitions   *)
(* of PikeOS (tpt-backend-pikeos/src/partition.rs), tasks and their health  *)
(* of VxWorks (tpt-backend-vxworks/src/lib.rs), protection domains of seL4  *)
(* (tpt-backend-sel4/src/microkernel.rs), and the clock each of them has.   *)
(***************************************************************************)
EXTENDS Integers, FiniteSets

CONSTANTS
  RateGroups,     \* one partition and one task for each
  Authorised,     \* mem_bytes of a domain
  Sizes,          \* bytes asked for
  Passes,         \* microseconds of a schedule() pass
  MaxNow          \* bound: the clocks stop here

VARIABLES
  kernel,     \* the backend of this build
  mode,       \* PikeOS: mode of each partition
  used,       \* PikeOS: used_us
  health,     \* VxWorks: health of each partition
  runnable,   \* VxWorks: whether its task is runnable
  exec,       \* VxWorks: exec_us
  usedBytes,  \* seL4: used_bytes of a domain
  now,        \* now_us of the scheduler
  byHand,     \* history: tasks suspended or resumed since their last health update
  failedFor   \* history: time each VxWorks partition has been failed

pikeVars == <<mode, used>>
vxVars == <<health, runnable, exec, byHand, failedFor>>
kernelVars == <<kernel, pikeVars, vxVars, usedBytes, now>>

PartitionHealth == {"Healthy", "Degraded", "Failed"}

(* PikeOsBackend::new: a partition per rate group, none of them started.    *)
PikeInit == mode = [r \in RateGroups |-> "Idle"] /\ used = [r \in RateGroups |-> 0]

(* VxWorksBackend::new: a task per rate group, runnable and healthy.        *)
VxInit ==
  /\ health = [r \in RateGroups |-> "Healthy"] /\ runnable = [r \in RateGroups |-> TRUE]
  /\ exec = [r \in RateGroups |-> 0]
  /\ byHand = {} /\ failedFor = [r \in RateGroups |-> 0]

(* Sel4Backend::new; one of its domains, which share nothing. *)
Sel4Init == usedBytes = 0

KernelInit ==
  /\ kernel \in {"pikeos", "vxworks", "sel4"}
  /\ PikeInit /\ VxInit /\ Sel4Init
  /\ now = 0

(* PikeOsScheduler, VxWorksScheduler and Sel4Scheduler::advance. *)
Advance(us) == now + us <= MaxNow /\ now' = now + us

-----------------------------------------------------------------------------
(* Partition::start and stop (a stopped partition can be started), start_all *)
SetModes(modes) ==
  /\ kernel = "pikeos"
  /\ mode' = modes
  /\ UNCHANGED <<kernel, used, vxVars, usedBytes, now>>
Start(r) == SetModes([mode EXCEPT ![r] = "Running"])
Stop(r) == SetModes([mode EXCEPT ![r] = "Stopped"])
StartAll == SetModes([r \in RateGroups |-> "Running"])

(* PikeOsBackend::schedule: time is charged to all that run, whether their  *)
(* window is due or not.                                                    *)
SchedulePikeOs(us) ==
  /\ kernel = "pikeos"
  /\ Advance(us)
  /\ used' = [r \in RateGroups |-> IF mode[r] = "Running" THEN used[r] + us ELSE used[r]]
  /\ UNCHANGED <<kernel, mode, vxVars, usedBytes>>

Mut_SetHealth(r, h) ==
  /\ kernel = "vxworks"
  /\ health' = [health EXCEPT ![r] = h]
  /\ runnable' = IF h = "Failed" /\ health[r] = "Healthy" THEN [runnable EXCEPT ![r] = FALSE]
                 ELSE IF h = "Healthy" THEN [runnable EXCEPT ![r] = TRUE] ELSE runnable
  /\ byHand' = byHand \ {r}
  /\ UNCHANGED <<kernel, pikeVars, exec, usedBytes, now, failedFor>>

(* VxWorksBackend::set_health: anything but Failed resumes the task. *)
SetHealth(r, h) ==
  /\ kernel = "vxworks"
  /\ health' = [health EXCEPT ![r] = h]
  /\ runnable' = [runnable EXCEPT ![r] = (h # "Failed")]
  /\ byHand' = byHand \ {r}
  /\ UNCHANGED <<kernel, pikeVars, exec, usedBytes, now, failedFor>>

(* VxTask::suspend and resume, through task_mut: the health is not asked.   *)
SetRunnable(r, on) ==
  /\ kernel = "vxworks"
  /\ runnable' = [runnable EXCEPT ![r] = on]
  /\ byHand' = byHand \cup {r}
  /\ UNCHANGED <<kernel, pikeVars, health, exec, usedBytes, now, failedFor>>

(* VxWorksBackend::schedule *)
ScheduleVxWorks(us) ==
  /\ kernel = "vxworks"
  /\ Advance(us)
  /\ exec' = [r \in RateGroups |-> IF runnable[r] THEN exec[r] + us ELSE exec[r]]
  /\ failedFor' = [r \in RateGroups |-> IF health[r] = "Failed" /\ r \notin byHand
                                         THEN failedFor[r] + us ELSE failedFor[r]]
  /\ UNCHANGED <<kernel, pikeVars, health, runnable, byHand, usedBytes>>

(* all_healthy *)
AllHealthy == \A r \in RateGroups : health[r] = "Healthy"

-----------------------------------------------------------------------------
(* ProtectionDomain::account_alloc, reset, and the clock of the domain set. *)
AccountAlloc(bytes) ==
  /\ kernel = "sel4"
  /\ usedBytes' = IF usedBytes + bytes > Authorised THEN usedBytes ELSE usedBytes + bytes
  /\ UNCHANGED <<kernel, pikeVars, vxVars, now>>
ResetPool ==
  /\ kernel = "sel4"
  /\ usedBytes' = 0
  /\ UNCHANGED <<kernel, pikeVars, vxVars, now>>
AdvanceSel4(us) ==
  /\ kernel = "sel4"
  /\ Advance(us)
  /\ UNCHANGED <<kernel, pikeVars, vxVars, usedBytes>>

KernelNext ==
  \/ \E r \in RateGroups : Start(r) \/ Stop(r)
  \/ StartAll
  \/ \E r \in RateGroups, h \in PartitionHealth : SetHealth(r, h)
  \/ \E r \in RateGroups, on \in BOOLEAN : SetRunnable(r, on)
  \/ \E us \in Passes : SchedulePikeOs(us) \/ ScheduleVxWorks(us) \/ AdvanceSel4(us)
  \/ \E bytes \in Sizes : AccountAlloc(bytes)
  \/ ResetPool

-----------------------------------------------------------------------------
(* A task left to its health runs unless its partition failed, so when all  *)
(* are healthy (the condition to clear a fault) all of them run; none is    *)
(* charged for time in which its partition was failed, none for more time   *)
(* than there was; and no domain holds more memory than it is allowed.      *)
TasksFollowHealth ==
  /\ \A r \in RateGroups \ byHand : runnable[r] <=> health[r] # "Failed"
  /\ AllHealthy /\ byHand = {} => \A r \in RateGroups : runnable[r]
  /\ \A r \in RateGroups : exec[r] + failedFor[r] <= now /\ used[r] <= now
  /\ usedBytes <= Authorised

=============================================================================
