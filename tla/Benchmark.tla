----------------------------- MODULE Benchmark ------------------------------
(***************************************************************************)
(* The gateway's benchmark handlers: requests that sign a number of times  *)
(* and report what each signature cost, and the monitor, a goroutine that  *)
(* publishes the CPU utilisation of a window.  A behaviour has one request *)
(* of either kind; the CPU time and the collections of all the others show *)
(* up in the counters, which are those of the whole process.               *)
(*                                                                         *)
(* Time and CPU time are counted in ticks.  A percentage is kept as the    *)
(* pair of ticks used and ticks elapsed it is computed from, a stopped     *)
(* clock as <<0, 1>>.                                                      *)
(*                                                                         *)
(* wall, cpu, gc   time, CPU time of the process, collections so far       *)
(* mon             the monitor: its last readings and what it published    *)
(* kind, req       the handler called, and the state of the request        *)
(***************************************************************************)
EXTENDS Integers, Sequences, FiniteSetsExt, SequencesExt

CONSTANTS
    Iterations,     \* signatures, or pairs of them, the request asks for
    MaxWall,        \* bounds on time and on collections
    MaxGC

\* Both handlers refuse a request for fewer.
IterationsAssumption == Iterations \in Nat \ {0}

VARIABLES wall, cpu, gc, mon, kind, req

benchmarkVars == <<wall, cpu, gc, mon, kind, req>>

\* /api/benchmark/pure-signing and /api/benchmark/jwt-issuance.
Kinds == {"pure", "jwt"}

Stopped == <<0, 1>>
NonNeg(p) == p[1] >= 0
Less(p, q) == p[1] * q[2] < q[1] * p[2]

\* /proc/self/stat cannot be read, or not parsed: readCPUTicks returns 0.
readCPUTicks == {cpu, 0}

NoOp == [cpu |-> 0, wall |-> 0, gc |-> 0, read |-> 0]

\* samples: one for each iteration without an error, in order; total: the sum of
\* their CPU times.
\* op, first: the readings before the signature in progress, and the result of
\* the access token of a pair.  begin: the CPU counter when measuring began.
NewRequest == [pc |-> "warmup", left |-> Iterations, op |-> NoOp, first |-> Stopped,
               samples |-> <<>>, total |-> 0, gcFree |-> <<>>, contaminated |-> 0,
               failed |-> 0, begin |-> 0, clean |-> TRUE, status |-> 0]

BenchmarkInit ==
    /\ wall = 0 /\ cpu = 0 /\ gc = 0
    /\ mon = [prev |-> 0, prevWall |-> 0, pct |-> Stopped]
    /\ kind \in Kinds
    /\ req = NewRequest

-----------------------------------------------------------------------------
(* The machine and the monitor.                                            *)

Advance ==
    /\ wall < MaxWall
    /\ wall' = wall + 1
    /\ cpu' \in {cpu, cpu + 1}
    /\ UNCHANGED <<gc, mon, kind, req>>

Collect ==
    /\ gc < MaxGC
    /\ gc' = gc + 1
    /\ UNCHANGED <<wall, cpu, mon, kind, req>>

\* One round of the goroutine, after its sleep.
Monitor ==
    /\ wall > mon.prevWall
    /\ \E curr \in readCPUTicks :
          mon' = [prev |-> curr, prevWall |-> wall,
                  pct |-> <<curr - mon.prev, wall - mon.prevWall>>]
    /\ UNCHANGED <<wall, cpu, gc, kind, req>>

-----------------------------------------------------------------------------
(* A request.                                                              *)

Put(new) == req' = new /\ UNCHANGED <<wall, cpu, gc, mon, kind>>

\* The warm-up signatures change nothing that is reported; then the heap is
\* collected twice and measuring begins.
Warmup ==
    /\ req.pc = "warmup"
    /\ Put([req EXCEPT !.pc = "before", !.begin = cpu])

\* Memory statistics, CPU counter and clock before a signature.
Before ==
    /\ req.pc \in {"before", "before2"}
    /\ \E c \in readCPUTicks :
          Put([req EXCEPT
                    !.pc = IF @ = "before" THEN "sign" ELSE "sign2",
                    !.op = [cpu |-> c, wall |-> wall, gc |-> gc, read |-> cpu],
                    !.clean = @ /\ c = cpu])

\* benchmarkRuntimeStats with usePerOpCPU.
PerOpPct(delta, elapsed) ==
    IF elapsed > 0 /\ delta >= 0 THEN <<delta, elapsed>> ELSE Stopped

\* benchmarkRuntimeStats: ms, CPUTimeMs, CPUPct, GCOccurred of one signature;
\* used is what the process really used.
Measured(op, c) ==
    [ms |-> wall - op.wall, time |-> c - op.cpu, used |-> cpu - op.read,
     pct |-> PerOpPct(c - op.cpu, wall - op.wall), gc |-> gc > op.gc]

\* Variant: a pair is contaminated when both of its signatures are.
CombineBoth(a, b) ==
    [ms |-> a.ms + b.ms, time |-> a.time + b.time, used |-> a.used + b.used,
     pct |-> IF Less(a.pct, b.pct) THEN b.pct ELSE a.pct, gc |-> a.gc /\ b.gc]

combineBenchmarkStats(a, b) ==
    [ms |-> a.ms + b.ms, time |-> a.time + b.time, used |-> a.used + b.used,
     pct |-> IF Less(a.pct, b.pct) THEN b.pct ELSE a.pct, gc |-> a.gc \/ b.gc]

\* The sample of an iteration, in every list.
Record(q, s, parts) ==
    [q EXCEPT !.samples = Append(@, [s |-> s, parts |-> parts]),
              !.total = @ + s.time,
              !.gcFree = IF s.gc THEN @ ELSE Append(@, parts),
              !.contaminated = IF s.gc THEN @ + 1 ELSE @]

NextIteration(q) ==
    [q EXCEPT !.left = @ - 1, !.op = NoOp, !.first = Stopped,
              !.pc = IF q.left = 1 THEN "report" ELSE "before"]

\* The signature of a request, or the access token of a pair, is done.
Signed ==
    /\ req.pc = "sign"
    /\ \E c \in readCPUTicks :
          LET s == Measured(req.op, c)
              q == [req EXCEPT !.clean = @ /\ c = cpu]
          IN  Put(IF kind = "jwt" THEN [q EXCEPT !.pc = "before2", !.first = s, !.op = NoOp]
                                  ELSE NextIteration(Record(q, s, <<s>>)))

\* The refresh token of a pair is done.
SignedRefresh ==
    /\ req.pc = "sign2"
    /\ \E c \in readCPUTicks :
          LET s == Measured(req.op, c)
              q == [req EXCEPT !.clean = @ /\ c = cpu]
          IN  Put(NextIteration(Record(q, combineBenchmarkStats(q.first, s), <<q.first, s>>)))

\* Either signature fails: the iteration is dropped.
SignFails ==
    /\ req.pc \in {"sign", "sign2"}
    /\ Put(NextIteration([req EXCEPT !.failed = @ + 1]))

\* The response: an error when no iteration succeeded.
Report ==
    /\ req.pc = "report"
    /\ Put([req EXCEPT !.pc = "done",
                             !.status = IF req.samples = <<>> THEN 500 ELSE 200])

Handler ==
    Warmup \/ Before \/ Signed \/ SignedRefresh \/ SignFails \/ Report

BenchmarkNext == Advance \/ Collect \/ Monitor \/ Handler

BenchmarkSpec == BenchmarkInit /\ [][BenchmarkNext]_benchmarkVars

-----------------------------------------------------------------------------
(* The statistics of a list of values, times 100.                          *)

\* What sort.Float64s may make of a copy of s.
Sortings(s) ==
    LET Count(t, x) == Cardinality({k \in DOMAIN t : t[k] = x})
    IN  {v \in [DOMAIN s -> Range(s)] :
            /\ \A i, j \in DOMAIN v : i <= j => v[i] <= v[j]
            /\ \A x \in Range(s) : Count(v, x) = Count(s, x)}

\* Variant: the position is rounded up and not clipped at the end.
PercentileCeil(v, p) ==
    LET n == Len(v)
        k == (p * n + 99) \div 100
    IN  IF k + 1 > n THEN 0 ELSE 100 * v[k + 1]

\* Linear interpolation between the two of the sorted values next to position
\* p% of n - 1.
percentile(v, p) ==
    LET n == Len(v)
        lo == (p * (n - 1)) \div 100
        frac == (p * (n - 1)) % 100
    IN  IF n = 1 \/ lo + 1 >= n THEN 100 * v[n]
        ELSE v[lo + 1] * (100 - frac) + v[lo + 2] * frac

\* Of values that are sorted.
computeTimingStats(v) ==
    IF v = <<>> THEN [min |-> 0, max |-> 0, p50 |-> 0, p95 |-> 0, p99 |-> 0]
    ELSE [min |-> 100 * v[1], max |-> 100 * v[Len(v)],
          p50 |-> percentile(v, 50), p95 |-> percentile(v, 95), p99 |-> percentile(v, 99)]

-----------------------------------------------------------------------------
(* Properties.                                                             *)

Samples == Range(req.samples)

\* Every iteration is reported or dropped, and every reported one is counted as
\* contaminated or listed as free of collections, whatever fails in between.
IterationsAccounted ==
    /\ Len(req.samples) + req.failed + req.left = Iterations
    /\ req.contaminated + Len(req.gcFree) = Len(req.samples)

\* No collection ran during a signature whose time is listed as free of them.
FreeMeansFree == \A parts \in Range(req.gcFree) : \A p \in Range(parts) : ~p.gc

\* The CPU time a request reports is what the process used while its signatures
\* ran, and no tick is reported twice; but for readings that failed.
NoTickTwice ==
    req.clean =>
        /\ req.total <= cpu - req.begin
        /\ \A x \in Samples : x.s.time = x.s.used

\* A utilisation measured for one signature is never negative, though a failed
\* reading makes the counter go back.
PctNotNegative == \A x \in Samples : NonNeg(x.s.pct)

\* What a benchmark reports accounts for every iteration, failed ones included,
\* lists no signature as free of collections that met one, charges no tick of
\* the CPU twice, and has no negative utilisation.
MeasurementsAccounted ==
    IterationsAccounted /\ FreeMeansFree /\ NoTickTwice /\ PctNotNegative

\* The times of the samples, as a list that can be sorted.
Times == [k \in 1 .. Len(req.samples) |-> req.samples[k].s.ms]

\* The percentiles reported lie between the least and the greatest time and in
\* their order.
StatsInOrder ==
    req.pc = "report" =>
        \A v \in Sortings(Times) :
            LET st == computeTimingStats(v)
            IN  st.min <= st.p50 /\ st.p50 <= st.p95 /\ st.p95 <= st.p99 /\ st.p99 <= st.max
=============================================================================
