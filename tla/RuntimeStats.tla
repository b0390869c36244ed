---------------------------- MODULE RuntimeStats ----------------------------
(***************************************************************************)
(* collectRuntimeStats of the auth-service: every sign-in and refresh      *)
(* reports the CPU utilisation since the report before it.  A caller reads *)
(* the clock, then the CPU counter, and only then takes the lock around    *)
(* the last pair of readings; callers overtake each other in between.      *)
(*                                                                         *)
(* The CPU counter is a metric of the Go runtime: the time of all          *)
(* processors as of the last collection.  Between two collections it does  *)
(* not move, and at one it jumps, so that a report charges an interval     *)
(* with time from before it and can exceed the whole of it.                *)
(*                                                                         *)
(* clock, cpuSeconds   the readings now                                    *)
(* lastWall, lastCPU   runtimeStatsState; NoReading before the first call  *)
(* call                the callers: where they are, what they read, and    *)
(*                     the utilisation reported, as used over available    *)
(* seen                the pairs of readings taken so far                  *)
(* charged             history: CPU time charged by the reports so far     *)
(* undone              history: by how much stored counters went back      *)
(***************************************************************************)
EXTENDS Integers

CONSTANTS
    Callers,        \* requests being answered
    Procs,          \* GOMAXPROCS
    MaxClock        \* bound on the clock

ProcsAssumption == Procs \in Nat \ {0}

VARIABLES clock, cpuSeconds, lastWall, lastCPU, call, seen, charged, undone

runtimeVars == <<clock, cpuSeconds, lastWall, lastCPU, call, seen, charged, undone>>

NoReading == -1
NoPct == [cpu |-> 0, wall |-> 0]
Idle == [pc |-> "idle", now |-> 0, cpu |-> 0, pct |-> NoPct]

RuntimeInit ==
    /\ clock = 0 /\ cpuSeconds = 0
    /\ lastWall = NoReading /\ lastCPU = 0
    /\ call = [c \in Callers |-> Idle]
    /\ seen = {} /\ charged = 0 /\ undone = 0

Elapse ==
    /\ clock < MaxClock
    /\ clock' = clock + 1
    /\ UNCHANGED <<cpuSeconds, lastWall, lastCPU, call, seen, charged, undone>>

\* A collection ends: the runtime brings the metric up to date.
CollectionEnds ==
    /\ cpuSeconds' = Procs * clock
    /\ UNCHANGED <<clock, lastWall, lastCPU, call, seen, charged, undone>>

ReadClock(c) ==
    /\ call[c].pc = "idle"
    /\ call' = [call EXCEPT ![c] = [pc |-> "cpu", now |-> clock, cpu |-> 0, pct |-> NoPct]]
    /\ UNCHANGED <<clock, cpuSeconds, lastWall, lastCPU, seen, charged, undone>>

\* readGoCPUSeconds.  The metric has the kind asked for in every version of Go
\* the module allows; the 0 of another kind is what it is before a collection.
ReadCPU(c) ==
    /\ call[c].pc = "cpu"
    /\ call' = [call EXCEPT ![c].pc = "lock", ![c].cpu = cpuSeconds]
    /\ seen' = seen \cup {[wall |-> call[c].now, cpu |-> cpuSeconds]}
    /\ UNCHANGED <<clock, cpuSeconds, lastWall, lastCPU, charged, undone>>

\* The utilisation of all processors in the time since the last report.
Share(wall, used) ==
    IF wall > 0 /\ used >= 0 THEN [cpu |-> used, wall |-> wall * Procs] ELSE NoPct

\* Variant: the whole counter is charged, not what it grew by.
PctOfTotal(c) == IF lastWall = NoReading THEN NoPct ELSE Share(call[c].now - lastWall, call[c].cpu)

\* What the caller reports against the last pair of readings.
PctOf(c) == IF lastWall = NoReading THEN NoPct
             ELSE Share(call[c].now - lastWall, call[c].cpu - lastCPU)

ReportPair(c) ==
    /\ call[c].pc = "lock"
    /\ call' = [call EXCEPT ![c].pc = "idle", ![c].pct = PctOf(c)]
    /\ charged' = charged + PctOf(c).cpu
    /\ undone' = undone + (IF call[c].cpu < lastCPU THEN lastCPU - call[c].cpu ELSE 0)
    /\ UNCHANGED <<clock, cpuSeconds, seen>>

\* Variant: the clock of an overtaken caller is not stored, its counter is.
ReportSplit(c) ==
    /\ ReportPair(c)
    /\ lastWall' = IF call[c].now > lastWall THEN call[c].now ELSE lastWall
    /\ lastCPU' = call[c].cpu

\* The critical section: report and replace the last readings, even by older
\* ones.
ReportStats(c) ==
    /\ ReportPair(c)
    /\ lastWall' = call[c].now
    /\ lastCPU' = call[c].cpu

RuntimeNext == Elapse \/ CollectionEnds \/ \E c \in Callers : ReadClock(c) \/ ReadCPU(c) \/ ReportStats(c)

RuntimeSpec == RuntimeInit /\ [][RuntimeNext]_runtimeVars

-----------------------------------------------------------------------------
(* Properties.                                                             *)

\* The two values a utilisation is computed against were read by one caller:
\* however callers overtake each other, no difference mixes readings.
BaselineIsOneReading ==
    lastWall # NoReading => \E s \in seen : s.wall = lastWall /\ s.cpu = lastCPU

\* A report is a share of a positive time: it is not negative and not the
\* quotient of a division by zero, though a caller may come to the lock with
\* older readings than those stored.
ReportIsShare ==
    \A c \in Callers : call[c].pct = NoPct \/ (call[c].pct.wall > 0 /\ call[c].pct.cpu >= 0)

\* A report compares the readings of one caller with those of another.
ReportIsOneInterval == BaselineIsOneReading /\ ReportIsShare

\* One report may exceed the time of all processors in its interval, for the
\* counter lags and then jumps; all reports together do not exceed their time
\* since the start: no time is charged twice but what an overtaken caller put
\* back by storing an older counter.
ReportsAddUp == charged <= Procs * clock + undone
=============================================================================
