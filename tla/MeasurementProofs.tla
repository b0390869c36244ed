------------------------- MODULE MeasurementProofs --------------------------
(***************************************************************************)
(* What the services measure, for every number of callers, processors and  *)
(* iterations: the reports of RuntimeStats and of Benchmark.               *)
(***************************************************************************)
EXTENDS RuntimeStats, Benchmark, SequenceTheorems, TLAPS


-----------------------------------------------------------------------------
(* RuntimeStats.                                                           *)

RuntimeTypes ==
    /\ clock \in Nat /\ cpuSeconds \in Nat
    /\ lastWall \in Nat \cup {NoReading} /\ lastCPU \in Nat
    /\ call \in [Callers -> [pc : {"idle", "cpu", "lock"}, now : Nat, cpu : Nat,
                             pct : [cpu : Int, wall : Int]]]
    /\ seen \subseteq [wall : Nat, cpu : Nat]
    /\ charged \in Nat /\ undone \in Nat

\* A caller that waits for the lock holds a pair that was read.
CallersRead ==
    \A c \in Callers : call[c].pc = "lock" =>
        \E r \in seen : r.wall = call[c].now /\ r.cpu = call[c].cpu

\* No reading is ahead of the time of all processors, and what was charged and
\* not put back is at most the counter stored.
ReadingsLag ==
    /\ cpuSeconds <= Procs * clock
    /\ \A r \in seen : r.cpu <= Procs * clock
    /\ lastWall = NoReading => lastCPU = 0
    /\ charged <= lastCPU + undone

RuntimeInv ==
    /\ RuntimeTypes /\ CallersRead /\ ReadingsLag
    /\ BaselineIsOneReading /\ ReportIsShare

LEMMA RuntimeInvInit == ProcsAssumption /\ RuntimeInit => RuntimeInv
BY DEF RuntimeInv, RuntimeTypes, CallersRead, ReadingsLag, ProcsAssumption, RuntimeInit,
       Idle, NoPct, NoReading, BaselineIsOneReading, ReportIsShare

\* What a report charges is at most what the stored counter grows by, with what
\* is put back when it falls.
LEMMA ReportCharges ==
    ASSUME NEW c \in Callers, ProcsAssumption, RuntimeTypes, ReportStats(c)
    PROVE  /\ PctOf(c) \in [cpu : Int, wall : Int]
           /\ PctOf(c) = NoPct \/ (PctOf(c).wall > 0 /\ PctOf(c).cpu >= 0)
           /\ charged' \in Nat /\ undone' \in Nat
           /\ charged' - charged <= (lastCPU' + undone') - (lastCPU + undone)
<1>. DEFINE w == call[c].now - lastWall
            u == call[c].cpu - lastCPU
<1>1. /\ call[c].now \in Nat /\ call[c].cpu \in Nat /\ lastCPU \in Nat /\ Procs \in Nat \ {0}
      /\ charged \in Nat /\ undone \in Nat /\ (lastWall # NoReading => lastWall \in Nat)
  BY DEF RuntimeTypes, ProcsAssumption
<1>2. /\ charged' = charged + PctOf(c).cpu
      /\ undone' = undone + (IF call[c].cpu < lastCPU THEN lastCPU - call[c].cpu ELSE 0)
      /\ lastCPU' = call[c].cpu
  BY DEF ReportStats, ReportPair
<1>3. CASE lastWall = NoReading
  <2>1. PctOf(c) = NoPct
    BY <1>3 DEF PctOf
  <2>. QED
    BY <1>1, <1>2, <2>1 DEF NoPct
<1>4. CASE lastWall # NoReading
  <2>1. w \in Int /\ u \in Int
    BY <1>1, <1>4
  <2>2. PctOf(c) = Share(w, u)
    BY <1>4 DEF PctOf
  <2>3. w > 0 => w * Procs > 0
    <3>. HIDE DEF w, u
    <3>. QED
      BY <1>1, <2>1
  <2>4. /\ Share(w, u) \in [cpu : Int, wall : Int]
        /\ Share(w, u) = NoPct \/ (Share(w, u).wall > 0 /\ Share(w, u).cpu >= 0)
        /\ Share(w, u).cpu = 0 \/ (Share(w, u).cpu = u /\ u >= 0)
    <3>. HIDE DEF w, u
    <3>. QED
      BY <1>1, <2>1, <2>3 DEF Share, NoPct
  <2>5. PctOf(c).cpu = 0 \/ (PctOf(c).cpu = call[c].cpu - lastCPU /\ call[c].cpu >= lastCPU)
    BY <1>1, <2>2, <2>4
  <2>6. PctOf(c).cpu \in Nat
    BY <1>1, <2>5
  <2>7. charged' \in Nat /\ undone' \in Nat
    BY <1>1, <1>2, <2>6
  <2>8. charged' - charged <= (lastCPU' + undone') - (lastCPU + undone)
    BY <1>1, <1>2, <2>5
  <2>. QED
    BY <2>2, <2>4, <2>7, <2>8
<1>. QED
  BY <1>3, <1>4

LEMMA RuntimeInvStep ==
    ProcsAssumption /\ RuntimeInv /\ [RuntimeNext]_runtimeVars => RuntimeInv'
<1>. SUFFICES ASSUME ProcsAssumption, RuntimeInv, [RuntimeNext]_runtimeVars
              PROVE  RuntimeInv'
  OBVIOUS
<1>. USE DEF RuntimeInv
<1>0. Procs \in Nat /\ clock \in Nat /\ cpuSeconds \in Nat
  BY DEF ProcsAssumption, RuntimeTypes
<1>1. CASE Elapse
  <2>1. clock' = clock + 1 /\ UNCHANGED <<cpuSeconds, lastWall, lastCPU, call, seen, charged, undone>>
    BY <1>1 DEF Elapse
  <2>2. RuntimeTypes'
    BY <1>0, <2>1 DEF RuntimeTypes
  <2>3. Procs * clock \in Nat /\ Procs * clock' = Procs * clock + Procs
    BY <1>0, <2>1
  <2>4. \A r \in seen : r.cpu \in Nat
    BY DEF RuntimeTypes
  <2>5. ReadingsLag'
    <3>1. cpuSeconds' <= Procs * clock'
      BY <1>0, <2>1, <2>3 DEF ReadingsLag
    <3>2. ASSUME NEW r \in seen' PROVE r.cpu <= Procs * clock'
      <4>1. r.cpu \in Nat /\ r.cpu <= Procs * clock
        BY <2>1, <2>4 DEF ReadingsLag
      <4>. QED
        BY <1>0, <2>3, <4>1
    <3>. QED
      BY <2>1, <3>1, <3>2 DEF ReadingsLag
  <2>. QED
    BY <2>1, <2>2, <2>5 DEF CallersRead, BaselineIsOneReading, ReportIsShare
<1>2. CASE CollectionEnds
  <2>1. cpuSeconds' = Procs * clock /\ UNCHANGED <<clock, lastWall, lastCPU, call, seen, charged, undone>>
    BY <1>2 DEF CollectionEnds
  <2>2. cpuSeconds' \in Nat
    BY <1>0, <2>1
  <2>. QED
    BY <2>1, <2>2 DEF RuntimeTypes, ReadingsLag, CallersRead, BaselineIsOneReading, ReportIsShare
<1>3. ASSUME NEW c \in Callers, ReadClock(c)
      PROVE  RuntimeInv'
  <2>1. /\ call' = [call EXCEPT ![c] = [pc |-> "cpu", now |-> clock, cpu |-> 0, pct |-> NoPct]]
        /\ UNCHANGED <<clock, cpuSeconds, lastWall, lastCPU, seen, charged, undone>>
    BY <1>3 DEF ReadClock
  <2>2. RuntimeTypes'
    BY <2>1 DEF RuntimeTypes, NoPct
  <2>3. CallersRead' /\ (ReportIsShare)'
    <3>1. /\ call'[c].pc = "cpu" /\ call'[c].pct = NoPct
          /\ \A d \in Callers \ {c} : call'[d] = call[d]
      BY <2>1 DEF RuntimeTypes
    <3>. QED
      BY <2>1, <3>1 DEF CallersRead, ReportIsShare
  <2>. QED
    BY <2>1, <2>2, <2>3 DEF ReadingsLag, BaselineIsOneReading
<1>4. ASSUME NEW c \in Callers, ReadCPU(c)
      PROVE  RuntimeInv'
  <2>. DEFINE t == [wall |-> call[c].now, cpu |-> cpuSeconds]
  <2>1. /\ call' = [call EXCEPT ![c].pc = "lock", ![c].cpu = cpuSeconds]
        /\ seen' = seen \cup {t}
        /\ UNCHANGED <<clock, cpuSeconds, lastWall, lastCPU, charged, undone>>
    BY <1>4 DEF ReadCPU
  <2>2. call[c].now \in Nat /\ t \in [wall : Nat, cpu : Nat]
    BY <1>0 DEF RuntimeTypes
  <2>3. RuntimeTypes'
    BY <1>0, <2>1, <2>2 DEF RuntimeTypes
  <2>4. CallersRead' /\ (ReportIsShare)'
    <3>1. /\ call'[c].now = call[c].now /\ call'[c].cpu = cpuSeconds /\ call'[c].pct = call[c].pct
          /\ \A d \in Callers \ {c} : call'[d] = call[d]
      BY <2>1 DEF RuntimeTypes
    <3>2. t \in seen' /\ seen \subseteq seen' /\ t.wall = call[c].now /\ t.cpu = cpuSeconds
      BY <2>1
    <3>. HIDE DEF t
    <3>. QED
      BY <3>1, <3>2 DEF CallersRead, ReportIsShare
  <2>5. ReadingsLag'
    <3>1. t.cpu = cpuSeconds
      OBVIOUS
    <3>. HIDE DEF t
    <3>. QED
      BY <2>1, <3>1 DEF ReadingsLag
  <2>6. (BaselineIsOneReading)'
    BY <2>1 DEF BaselineIsOneReading
  <2>. QED
    BY <2>3, <2>4, <2>5, <2>6
<1>5. ASSUME NEW c \in Callers, ReportStats(c)
      PROVE  RuntimeInv'
  <2>1. /\ call[c].pc = "lock"
        /\ call' = [call EXCEPT ![c].pc = "idle", ![c].pct = PctOf(c)]
        /\ lastWall' = call[c].now /\ lastCPU' = call[c].cpu
        /\ UNCHANGED <<clock, cpuSeconds, seen>>
    BY <1>5 DEF ReportStats, ReportPair
  <2>2. call[c].now \in Nat /\ call[c].cpu \in Nat /\ lastCPU \in Nat /\ charged \in Nat /\ undone \in Nat
    BY DEF RuntimeTypes
  <2>3. /\ PctOf(c) \in [cpu : Int, wall : Int]
        /\ PctOf(c) = NoPct \/ (PctOf(c).wall > 0 /\ PctOf(c).cpu >= 0)
        /\ charged' \in Nat /\ undone' \in Nat
        /\ charged' - charged <= (lastCPU' + undone') - (lastCPU + undone)
    BY <1>5, ReportCharges
  <2>4. RuntimeTypes'
    BY <2>1, <2>2, <2>3 DEF RuntimeTypes
  <2>5. CallersRead' /\ (ReportIsShare)'
    BY <2>1, <2>3 DEF RuntimeTypes, CallersRead, ReportIsShare
  <2>6. (BaselineIsOneReading)'
    BY <2>1 DEF CallersRead, BaselineIsOneReading
  <2>7. ReadingsLag'
    <3>1. charged <= lastCPU + undone
      BY DEF ReadingsLag
    <3>2. charged' <= lastCPU' + undone'
      BY <2>1, <2>2, <2>3, <3>1
    <3>3. lastWall' # NoReading
      BY <2>1, <2>2 DEF NoReading
    <3>. QED
      BY <2>1, <3>2, <3>3 DEF ReadingsLag
  <2>. QED
    BY <2>4, <2>5, <2>6, <2>7
<1>6. CASE UNCHANGED runtimeVars
  BY <1>6 DEF runtimeVars, RuntimeTypes, CallersRead, ReadingsLag,
              BaselineIsOneReading, ReportIsShare
<1>. QED
  BY <1>1, <1>2, <1>3, <1>4, <1>5, <1>6 DEF RuntimeNext

\* collectRuntimeStats never mixes the readings of two callers, and reports
\* neither a negative share nor one of no time, however callers overtake each
\* other between their readings and the lock.
THEOREM RuntimeReports ==
    ASSUME Procs \in Nat \ {0}
    PROVE  RuntimeSpec => []ReportIsOneInterval
<1>1. RuntimeInv => ReportIsOneInterval
  BY DEF RuntimeInv, ReportIsOneInterval
<1>2. RuntimeInit => RuntimeInv
  BY RuntimeInvInit DEF ProcsAssumption
<1>3. RuntimeInv /\ [RuntimeNext]_runtimeVars => RuntimeInv'
  BY RuntimeInvStep DEF ProcsAssumption
<1>. QED
  BY <1>1, <1>2, <1>3, PTL DEF RuntimeSpec

\* However the counter lags between collections, all reports together charge at
\* most the time of all processors since the start, and once more what
\* overtaken callers put back: what ReportsAddUp checks.
THEOREM RuntimeBound ==
    ASSUME Procs \in Nat \ {0}
    PROVE  RuntimeSpec => []ReportsAddUp
<1>1. RuntimeInv => ReportsAddUp
  <2>. SUFFICES ASSUME RuntimeInv PROVE ReportsAddUp
    OBVIOUS
  <2>1. lastCPU <= Procs * clock
    <3>1. CASE lastWall = NoReading
      BY <3>1 DEF RuntimeInv, RuntimeTypes, ReadingsLag
    <3>2. CASE lastWall # NoReading
      BY <3>2 DEF RuntimeInv, BaselineIsOneReading, ReadingsLag
    <3>. QED
      BY <3>1, <3>2
  <2>2. Procs * clock \in Nat /\ lastCPU \in Nat /\ charged \in Nat /\ undone \in Nat
    BY DEF RuntimeInv, RuntimeTypes
  <2>. QED
    BY <2>1, <2>2 DEF RuntimeInv, ReadingsLag, ReportsAddUp
<1>2. RuntimeInit => RuntimeInv
  BY RuntimeInvInit DEF ProcsAssumption
<1>3. RuntimeInv /\ [RuntimeNext]_runtimeVars => RuntimeInv'
  BY RuntimeInvStep DEF ProcsAssumption
<1>. QED
  BY <1>1, <1>2, <1>3, PTL DEF RuntimeSpec

-----------------------------------------------------------------------------
(* Benchmark: a request.                                                   *)

Signing == {"sign", "sign2"}
Paired == {"before2", "sign2"}
Ended == {"report", "done"}

Stat == [ms : Int, time : Int, used : Int, pct : Int \X Int, gc : BOOLEAN]

Pcs == {"warmup", "before"} \cup Signing \cup Paired \cup Ended
Ops == [cpu : Int, wall : Int, gc : Int, read : Int]
Firsts == Stat \cup {Stopped}
SampleLists == Seq([s : Stat, parts : Seq(Stat)])
PartLists == Seq(Seq(Stat))

Request == [pc : Pcs, left : Nat, op : Ops, first : Firsts, samples : SampleLists, total : Int,
            gcFree : PartLists, contaminated : Nat, failed : Nat, begin : Nat,
            clean : BOOLEAN, status : Nat]

BenchTypes ==
    /\ wall \in Nat /\ cpu \in Nat /\ gc \in Nat
    /\ req \in Request
    /\ req.pc \notin Ended => req.left >= 1
    /\ req.pc \in Paired => req.first \in Stat

\* A result that is reported, or held until the pair is complete.
Fair(s, clean) == NonNeg(s.pct) /\ (clean => s.time = s.used)

\* What the request charges, with the result it holds, was used before the
\* signature in progress.
Budget ==
    /\ req.pc \in Paired => req.first.used >= 0 /\ Fair(req.first, req.clean)
    /\ req.pc \in Signing => req.op.read <= cpu /\ (req.clean => req.op.cpu = req.op.read)
    /\ req.pc = "warmup" => req.total = 0 /\ req.begin = 0
    /\ req.pc # "warmup" /\ req.clean =>
          req.total + (IF req.pc \in Paired THEN req.first.used ELSE 0)
             <= (IF req.pc \in Signing THEN req.op.read ELSE cpu) - req.begin

SamplesFair == \A k \in 1 .. Len(req.samples) : Fair(req.samples[k].s, req.clean)

GcFreeClear ==
    \A k \in 1 .. Len(req.gcFree) :
        \A i \in 1 .. Len(req.gcFree[k]) : ~req.gcFree[k][i].gc

BenchInv ==
    /\ BenchTypes /\ IterationsAccounted /\ Budget /\ SamplesFair /\ GcFreeClear

LEMMA BenchAccounted == BenchInv => MeasurementsAccounted
<1>. SUFFICES ASSUME BenchInv PROVE MeasurementsAccounted
  OBVIOUS
<1>1. req \in Request
  BY DEF BenchInv, BenchTypes
<1>2. /\ req.samples \in Seq([s : Stat, parts : Seq(Stat)])
      /\ req.gcFree \in Seq(Seq(Stat))
  BY <1>1 DEF Request, SampleLists, PartLists
<1>3. FreeMeansFree
  <2>. SUFFICES ASSUME NEW parts \in Range(req.gcFree), NEW p \in Range(parts)
                PROVE  ~p.gc
    BY DEF FreeMeansFree
  <2>1. PICK k \in 1 .. Len(req.gcFree) : parts = req.gcFree[k]
    <3>. DEFINE f == req.gcFree
    <3>1. f \in Seq(Seq(Stat)) /\ parts \in {f[x] : x \in DOMAIN f}
      BY <1>2 DEF Range
    <3>. HIDE DEF f
    <3>2. \E k \in 1 .. Len(f) : parts = f[k]
      BY <3>1
    <3>. QED
      BY <3>2 DEF f
  <2>2. parts \in Seq(Stat)
    BY <1>2, <2>1
  <2>3. PICK i \in 1 .. Len(parts) : p = parts[i]
    BY <2>2 DEF Range
  <2>. QED
    BY <2>1, <2>3 DEF BenchInv, GcFreeClear
<1>4. ASSUME NEW x \in Samples PROVE Fair(x.s, req.clean)
  <2>. DEFINE l == req.samples
  <2>1. l \in Seq([s : Stat, parts : Seq(Stat)]) /\ x \in {l[k] : k \in DOMAIN l}
    BY <1>2 DEF Samples, Range
  <2>. HIDE DEF l
  <2>2. PICK k \in 1 .. Len(l) : x = l[k]
    BY <2>1
  <2>. QED
    BY <2>2 DEF BenchInv, SamplesFair, l
<1>5. PctNotNegative
  BY <1>4 DEF PctNotNegative, Fair
<1>6. req.clean => req.total <= cpu - req.begin
  <2>1. /\ req.total \in Int /\ req.begin \in Nat /\ cpu \in Nat
        /\ req.pc \in Signing => req.op.read \in Int
        /\ req.pc \in Paired => req.first.used \in Int
    BY <1>1 DEF BenchInv, BenchTypes, Request, Stat, Ops
  <2>. DEFINE held == IF req.pc \in Paired THEN req.first.used ELSE 0
              now == IF req.pc \in Signing THEN req.op.read ELSE cpu
  <2>2. held \in Int /\ held >= 0 /\ now \in Int /\ now <= cpu
    BY <2>1 DEF BenchInv, Budget
  <2>3. /\ req.pc # "warmup" /\ req.clean => req.total + held <= now - req.begin
        /\ req.pc = "warmup" => req.total = 0 /\ req.begin = 0
    BY DEF BenchInv, Budget
  <2>. HIDE DEF held, now
  <2>. QED
    BY <2>1, <2>2, <2>3
<1>7. NoTickTwice
  BY <1>4, <1>6 DEF NoTickTwice, Fair
<1>. QED
  BY <1>3, <1>5, <1>7 DEF BenchInv, MeasurementsAccounted

LEMMA BenchInit == IterationsAssumption /\ BenchmarkInit => BenchInv
<1>. SUFFICES ASSUME IterationsAssumption, BenchmarkInit PROVE BenchInv
  OBVIOUS
<1>1. req = NewRequest /\ wall = 0 /\ cpu = 0 /\ gc = 0
  BY DEF BenchmarkInit
<1>2. BenchTypes
  BY <1>1 DEF BenchTypes, Request, NewRequest, NoOp, IterationsAssumption,
              Pcs, Ops, Firsts, SampleLists, PartLists, Signing, Paired, Ended
<1>. QED
  BY <1>1, <1>2 DEF BenchInv, IterationsAccounted, Budget, SamplesFair, GcFreeClear,
              NewRequest, IterationsAssumption, Signing, Paired

\* The list fields of a request after an iteration has been recorded.
LEMMA RecordFields ==
    ASSUME NEW q \in Request, NEW s \in Stat, NEW parts \in Seq(Stat)
    PROVE  LET r == Record(q, s, parts)
           IN  /\ r \in Request
               /\ r.samples = Append(q.samples, [s |-> s, parts |-> parts])
               /\ r.total = q.total + s.time
               /\ r.gcFree = (IF s.gc THEN q.gcFree ELSE Append(q.gcFree, parts))
               /\ r.contaminated = (IF s.gc THEN q.contaminated + 1 ELSE q.contaminated)
               /\ r.pc = q.pc /\ r.left = q.left /\ r.failed = q.failed
               /\ r.begin = q.begin /\ r.clean = q.clean /\ r.first = q.first /\ r.op = q.op
<1>. DEFINE x == [s |-> s, parts |-> parts]
            r == Record(q, s, parts)
            smp == Append(q.samples, x)
            free == IF s.gc THEN q.gcFree ELSE Append(q.gcFree, parts)
            dirty == IF s.gc THEN q.contaminated + 1 ELSE q.contaminated
            sum == q.total + s.time
<1>0. /\ q.samples \in SampleLists /\ q.gcFree \in PartLists
      /\ q.contaminated \in Nat /\ q.total \in Int /\ s.time \in Int
  BY DEF Request, Stat
<1>1. smp \in SampleLists /\ free \in PartLists
  BY <1>0 DEF SampleLists, PartLists
<1>2. dirty \in Nat /\ sum \in Int
  BY <1>0
<1>3. r = [q EXCEPT !.samples = smp, !.total = sum, !.gcFree = free, !.contaminated = dirty]
  BY DEF Record
<1>. HIDE DEF r, smp, free, dirty, sum
<1>4. /\ r \in Request /\ r.samples = smp /\ r.total = sum /\ r.gcFree = free
      /\ r.contaminated = dirty
      /\ r.pc = q.pc /\ r.left = q.left /\ r.failed = q.failed
      /\ r.begin = q.begin /\ r.clean = q.clean /\ r.first = q.first /\ r.op = q.op
  BY <1>1, <1>2, <1>3 DEF Request
<1>. QED
  BY <1>4 DEF r, smp, free, dirty, sum

LEMMA NextFields ==
    ASSUME NEW q \in Request, q.left >= 1
    PROVE  LET r == NextIteration(q)
           IN  /\ r \in Request /\ r.left = q.left - 1
               /\ r.pc \in {"before", "report"} /\ (r.pc = "before" => r.left >= 1)
               /\ r.samples = q.samples /\ r.total = q.total /\ r.gcFree = q.gcFree
               /\ r.contaminated = q.contaminated /\ r.failed = q.failed
               /\ r.begin = q.begin /\ r.clean = q.clean
<1>. DEFINE r == NextIteration(q)
            pc == IF q.left = 1 THEN "report" ELSE "before"
            left == q.left - 1
<1>1. q.left \in Nat /\ left \in Nat /\ pc \in {"before", "report"} /\ (pc = "before" => left >= 1)
  BY DEF Request
<1>2. r = [q EXCEPT !.left = left, !.op = NoOp, !.first = Stopped, !.pc = pc]
  BY DEF NextIteration
<1>3. NoOp \in Ops /\ Stopped \in Firsts /\ pc \in Pcs
  BY DEF NoOp, Ops, Firsts, Pcs, Ended
<1>. HIDE DEF r, pc, left
<1>4. /\ r \in Request /\ r.left = left /\ r.pc = pc
      /\ r.samples = q.samples /\ r.total = q.total /\ r.gcFree = q.gcFree
      /\ r.contaminated = q.contaminated /\ r.failed = q.failed
      /\ r.begin = q.begin /\ r.clean = q.clean
  BY <1>1, <1>2, <1>3 DEF Request
<1>. QED
  BY <1>1, <1>4 DEF r, pc, left

\* What one signature is measured to have cost.
LEMMA MeasuredFair ==
    ASSUME BenchInv, req.pc \in Signing, NEW c \in {cpu, 0}
    PROVE  LET s == Measured(req.op, c)
           IN  /\ s \in Stat /\ s.used = cpu - req.op.read /\ s.used >= 0
               /\ Fair(s, req.clean /\ c = cpu)
<1>. DEFINE s == Measured(req.op, c)
            t == c - req.op.cpu
            e == wall - req.op.wall
            pct == PerOpPct(t, e)
            u == cpu - req.op.read
            g == gc > req.op.gc
<1>1. /\ req.op \in Ops /\ c \in Nat /\ wall \in Nat /\ cpu \in Nat
      /\ req.op.read <= cpu /\ (req.clean => req.op.cpu = req.op.read)
  BY DEF BenchInv, BenchTypes, Request, Budget
<1>2. t \in Int /\ e \in Int /\ u \in Int /\ u >= 0 /\ g \in BOOLEAN
      /\ (req.clean /\ c = cpu => t = u)
  BY <1>1 DEF Ops
<1>3. s = [ms |-> e, time |-> t, used |-> u, pct |-> pct, gc |-> g]
  BY DEF Measured
<1>. HIDE DEF t, e, u, s, g
<1>4. pct \in Int \X Int /\ NonNeg(pct)
  BY <1>2 DEF PerOpPct, NonNeg, Stopped
<1>. HIDE DEF pct
<1>5. s \in Stat /\ s.used = u /\ s.time = t /\ s.pct = pct
  BY <1>2, <1>3, <1>4 DEF Stat
<1>6. Fair(s, req.clean /\ c = cpu)
  BY <1>2, <1>4, <1>5 DEF Fair
<1>. QED
  BY <1>2, <1>5, <1>6 DEF s, u

\* A pair costs what its two signatures cost, and met a collection if one did.
LEMMA CombinedFair ==
    ASSUME NEW a \in Stat, NEW b \in Stat, NEW clean \in BOOLEAN, Fair(a, clean), Fair(b, clean)
    PROVE  LET s == combineBenchmarkStats(a, b)
           IN  /\ s \in Stat /\ Fair(s, clean) /\ s.used = a.used + b.used
               /\ (~s.gc => ~a.gc /\ ~b.gc)
<1>. DEFINE s == combineBenchmarkStats(a, b)
            pct == IF Less(a.pct, b.pct) THEN b.pct ELSE a.pct
<1>1. pct \in Int \X Int /\ NonNeg(pct)
  BY DEF Stat, Fair
<1>2. s = [ms |-> a.ms + b.ms, time |-> a.time + b.time, used |-> a.used + b.used,
           pct |-> pct, gc |-> a.gc \/ b.gc]
  BY DEF combineBenchmarkStats
<1>. HIDE DEF s, pct
<1>3. s \in Stat /\ s.used = a.used + b.used /\ s.time = a.time + b.time /\ s.pct = pct
      /\ (~s.gc => ~a.gc /\ ~b.gc)
  BY <1>1, <1>2 DEF Stat
<1>4. Fair(s, clean)
  BY <1>1, <1>3 DEF Fair, Stat
<1>. QED
  BY <1>3, <1>4 DEF s

\* The end of an iteration that succeeded, field by field: s is reported, of the
\* signatures parts.
Reported(s, parts, clean) ==
    /\ req' \in Request /\ req'.left = req.left - 1
    /\ req'.pc \in {"before", "report"} /\ (req'.pc = "before" => req'.left >= 1)
    /\ req'.samples = Append(req.samples, [s |-> s, parts |-> parts])
    /\ req'.total = req.total + s.time
    /\ req'.gcFree = (IF s.gc THEN req.gcFree ELSE Append(req.gcFree, parts))
    /\ req'.contaminated = (IF s.gc THEN req.contaminated + 1 ELSE req.contaminated)
    /\ req'.failed = req.failed /\ req'.begin = req.begin /\ req'.clean = clean

LEMMA ReportedFields ==
    ASSUME NEW clean \in BOOLEAN, NEW s \in Stat, NEW parts \in Seq(Stat),
           req \in Request, req.left >= 1,
           req' = NextIteration(Record([req EXCEPT !.clean = clean], s, parts))
    PROVE  Reported(s, parts, clean)
<1>. DEFINE q == [req EXCEPT !.clean = clean]
            r == Record(q, s, parts)
            x == [s |-> s, parts |-> parts]
<1>2. /\ q \in Request /\ q.clean = clean
      /\ q.samples = req.samples /\ q.total = req.total /\ q.gcFree = req.gcFree
      /\ q.contaminated = req.contaminated /\ q.left = req.left /\ q.failed = req.failed
      /\ q.begin = req.begin
  BY DEF Request
<1>3. req' = NextIteration(r)
  OBVIOUS
<1>. HIDE DEF q
<1>4. /\ r \in Request /\ r.samples = Append(req.samples, x) /\ r.total = req.total + s.time
      /\ r.gcFree = (IF s.gc THEN req.gcFree ELSE Append(req.gcFree, parts))
      /\ r.contaminated = (IF s.gc THEN req.contaminated + 1 ELSE req.contaminated)
      /\ r.left = req.left /\ r.failed = req.failed /\ r.begin = req.begin /\ r.clean = clean
  BY <1>2, RecordFields
<1>. HIDE DEF r
<1>. QED
  BY <1>3, <1>4, NextFields DEF Reported

\* s is what was used since the first reading of the iteration, and says whether
\* one of parts met a collection.
Charged(s) ==
    s.used + req.op.read = cpu + (IF req.pc \in Paired THEN req.first.used ELSE 0)

Clear(s, parts) == s.gc \/ \A i \in 1 .. Len(parts) : ~parts[i].gc

LEMMA ReportedStep ==
    ASSUME IterationsAssumption, BenchInv, req.pc \in Signing,
           NEW cl \in BOOLEAN, NEW s \in Stat, NEW parts \in Seq(Stat),
           cl => req.clean, Fair(s, cl), Charged(s), Clear(s, parts),
           Reported(s, parts, cl), UNCHANGED <<wall, cpu, gc>>
    PROVE  BenchInv'
<1>. DEFINE x == [s |-> s, parts |-> parts]
<1>1. req \in Request /\ cpu \in Nat /\ wall \in Nat /\ gc \in Nat /\ req.left >= 1
  BY DEF BenchInv, BenchTypes, Signing, Ended
<1>2. /\ req' \in Request /\ req'.clean = cl
      /\ req'.pc \in {"before", "report"} /\ (req'.pc = "before" => req'.left >= 1)
  BY DEF Reported
<1>3. req'.left = req.left - 1 /\ req'.failed = req.failed
  BY DEF Reported
<1>4. req'.total = req.total + s.time /\ req'.begin = req.begin
  BY DEF Reported
<1>5. /\ req'.samples = Append(req.samples, x)
      /\ req'.gcFree = (IF s.gc THEN req.gcFree ELSE Append(req.gcFree, parts))
      /\ req'.contaminated = (IF s.gc THEN req.contaminated + 1 ELSE req.contaminated)
  BY DEF Reported
<1>. HIDE DEF x
<1>6. /\ req.samples \in SampleLists /\ req.gcFree \in PartLists
      /\ req.contaminated \in Nat /\ req.failed \in Nat /\ req.left \in Nat
      /\ req.total \in Int /\ req.begin \in Nat /\ s.time \in Int /\ s.used \in Int
      /\ req.op.read \in Int
  BY <1>1 DEF Request, Stat, Ops
<1>7. BenchTypes'
  BY <1>1, <1>2 DEF BenchTypes, Ended, Paired
<1>8. (IterationsAccounted)'
  <2>. DEFINE n == Len(req.samples)
              m == Len(req.gcFree)
              d == req.contaminated
              f == req.failed
              l == req.left
  <2>1. n \in Nat /\ m \in Nat /\ Len(req'.samples) = n + 1
        /\ Len(req'.gcFree) = (IF s.gc THEN m ELSE m + 1)
    BY <1>5, <1>6 DEF SampleLists, PartLists, x
  <2>2. n + f + l = Iterations /\ d + m = n
    BY DEF BenchInv, IterationsAccounted
  <2>3. /\ d \in Nat /\ f \in Nat /\ l \in Nat /\ req'.failed = f /\ req'.left = l - 1
        /\ req'.contaminated = (IF s.gc THEN d + 1 ELSE d)
    BY <1>3, <1>5, <1>6
  <2>. HIDE DEF n, m, d, f, l
  <2>4. (n + 1) + f + (l - 1) = n + f + l
    BY <2>1, <2>3
  <2>5. (IF s.gc THEN d + 1 ELSE d) + (IF s.gc THEN m ELSE m + 1) = (d + m) + 1
    BY <2>1, <2>3
  <2>. QED
    BY <2>1, <2>2, <2>3, <2>4, <2>5 DEF IterationsAccounted
<1>9. Budget'
  <2>. DEFINE held == IF req.pc \in Paired THEN req.first.used ELSE 0
  <2>1. held \in Int
    BY DEF BenchInv, BenchTypes, Stat
  <2>2. cl => req.total + held <= req.op.read - req.begin /\ s.time = s.used
    BY DEF BenchInv, Budget, Fair, Signing
  <2>3. s.used + req.op.read = cpu + held
    BY DEF Charged
  <2>. HIDE DEF held
  <2>4. ASSUME NEW t \in Int, NEW h \in Int, NEW r \in Int, NEW g \in Int, NEW u \in Int, NEW p \in Int,
               t + h <= r - g, u + r = p + h
        PROVE  t + u <= p - g
    BY <2>4
  <2>5. cl => req.total + s.time <= cpu - req.begin
    BY <1>1, <1>6, <2>1, <2>2, <2>3, <2>4
  <2>6. /\ req'.pc \notin Paired /\ req'.pc \notin Signing /\ req'.pc # "warmup"
        /\ req'.clean = cl
    BY <1>2 DEF Signing, Paired
  <2>7. (req.total + s.time) + 0 = req.total + s.time /\ cpu' = cpu
    BY <1>6
  <2>. QED
    BY <1>4, <2>5, <2>6, <2>7, Zenon DEF Budget
<1>10. SamplesFair'
  <2>. SUFFICES ASSUME NEW k \in 1 .. Len(req'.samples)
                PROVE  Fair(req'.samples[k].s, req'.clean)
    BY DEF SamplesFair, Fair
  <2>1. \/ k \in 1 .. Len(req.samples) /\ req'.samples[k] = req.samples[k]
        \/ req'.samples[k] = x
    <3>1. x \in [s : Stat, parts : Seq(Stat)]
      BY DEF x
    <3>. QED BY <1>5, <1>6, <3>1 DEF SampleLists
  <2>2. k \in 1 .. Len(req.samples) => Fair(req.samples[k].s, req.clean)
    BY DEF BenchInv, SamplesFair
  <2>3. x.s = s
    BY DEF x
  <2>. QED
    BY <1>2, <2>1, <2>2, <2>3 DEF Fair
<1>11. GcFreeClear'
  <2>. SUFFICES ASSUME NEW k \in 1 .. Len(req'.gcFree), NEW i \in 1 .. Len(req'.gcFree[k])
                PROVE  ~req'.gcFree[k][i].gc
    BY DEF GcFreeClear
  <2>1. \/ k \in 1 .. Len(req.gcFree) /\ req'.gcFree[k] = req.gcFree[k]
        \/ ~s.gc /\ req'.gcFree[k] = parts
    <3>. DEFINE f == req.gcFree
    <3>1. f \in Seq(Seq(Stat)) /\ req'.gcFree = (IF s.gc THEN f ELSE Append(f, parts))
      BY <1>5, <1>6 DEF PartLists
    <3>. HIDE DEF f
    <3>2. CASE s.gc
      BY <3>1, <3>2 DEF f
    <3>3. CASE ~s.gc
      <4>1. req'.gcFree = Append(f, parts)
        BY <3>1, <3>3
      <4>2. k \in 1 .. Len(f) + 1 /\ Len(f) \in Nat
        BY <3>1, <4>1
      <4>3. (k \in 1 .. Len(f) /\ req'.gcFree[k] = f[k]) \/ req'.gcFree[k] = parts
        BY <3>1, <4>1, <4>2
      <4>. QED
        BY <3>3, <4>3 DEF f
    <3>. QED
      BY <3>2, <3>3
  <2>. QED
    BY <2>1 DEF BenchInv, GcFreeClear, Clear
<1>. QED
  BY <1>7, <1>8, <1>9, <1>10, <1>11 DEF BenchInv

\* The parts of BenchInv that only look at the lists and the counts.
LEMMA ListsKept ==
    ASSUME BenchInv, req'.samples = req.samples, req'.gcFree = req.gcFree,
           req'.contaminated = req.contaminated, req'.clean => req.clean,
           Len(req'.samples) + req'.failed + req'.left = Iterations
    PROVE  (IterationsAccounted)' /\ SamplesFair' /\ GcFreeClear'
<1>1. SamplesFair'
  BY Zenon DEF BenchInv, SamplesFair, Fair, NonNeg
<1>2. GcFreeClear'
  BY DEF BenchInv, GcFreeClear
<1>3. (IterationsAccounted)'
  BY DEF BenchInv, IterationsAccounted
<1>. QED
  BY <1>1, <1>2, <1>3

LEMMA MachineStep ==
    ASSUME BenchInv, req' = req, cpu' \in Nat, cpu' >= cpu, wall' \in Nat, gc' \in Nat
    PROVE  BenchInv'
<1>1. BenchTypes'
  BY DEF BenchInv, BenchTypes
<1>2. (IterationsAccounted)' /\ SamplesFair' /\ GcFreeClear'
  BY DEF BenchInv, IterationsAccounted, SamplesFair, GcFreeClear
<1>3. Budget'
  <2>1. /\ req.total \in Int /\ req.begin \in Nat /\ cpu \in Nat
        /\ (req.pc \in Signing => req.op.read \in Int)
        /\ (req.pc \in Paired => req.first.used \in Int)
    BY DEF BenchInv, BenchTypes, Request, Stat, Ops
  <2>. DEFINE held == IF req.pc \in Paired THEN req.first.used ELSE 0
              spent == req.total + held
              b == req.begin
              r == req.op.read
  <2>2. spent \in Int /\ b \in Int /\ (req.pc \in Signing => r \in Int)
    BY <2>1
  <2>3. /\ req.pc \in Signing => r <= cpu
        /\ req.pc # "warmup" /\ req.clean =>
              spent <= (IF req.pc \in Signing THEN r ELSE cpu) - b
    BY DEF BenchInv, Budget
  <2>. HIDE DEF spent, b, r
  <2>4. req.pc \in Signing => r <= cpu'
    BY <2>1, <2>2, <2>3
  <2>5. req.pc # "warmup" /\ req.clean => spent <= (IF req.pc \in Signing THEN r ELSE cpu') - b
    <3>1. cpu \in Int /\ cpu' \in Int /\ spent \in Int /\ b \in Int
      BY <2>1, <2>2
    <3>2. ASSUME NEW u \in Int, NEW p \in Int, NEW q \in Int, NEW g \in Int, u <= p - g, q >= p
          PROVE  u <= q - g
      BY <3>2
    <3>3. spent <= cpu - b => spent <= cpu' - b
      BY <3>1, <3>2, Zenon
    <3>. QED
      BY <2>3, <3>3, Zenon
  <2>. QED
    BY <2>4, <2>5 DEF BenchInv, Budget, spent, b, r
<1>. QED
  BY <1>1, <1>2, <1>3 DEF BenchInv

LEMMA BenchStep ==
    ASSUME IterationsAssumption, BenchInv, [BenchmarkNext]_benchmarkVars
    PROVE  BenchInv'
<1>0. /\ req \in Request /\ wall \in Nat /\ cpu \in Nat /\ gc \in Nat
      /\ req.pc \notin Ended => req.left >= 1
      /\ req.pc \in Paired => req.first \in Stat
  BY DEF BenchInv, BenchTypes
<1>1. CASE Advance \/ Collect \/ Monitor \/ UNCHANGED benchmarkVars
  <2>1. req' = req /\ wall' \in Nat /\ gc' \in Nat /\ cpu' \in Nat /\ cpu' >= cpu
    BY <1>0, <1>1 DEF Advance, Collect, Monitor, benchmarkVars
  <2>. QED
    BY <2>1, MachineStep
<1>2. CASE Warmup
  <2>1. /\ req.pc = "warmup" /\ req' = [req EXCEPT !.pc = "before", !.begin = cpu]
        /\ UNCHANGED <<wall, cpu, gc>>
    BY <1>2 DEF Warmup, Put
  <2>2. "before" \in Pcs
    BY DEF Pcs
  <2>3. /\ req' \in Request /\ req'.pc = "before" /\ req'.begin = cpu
        /\ req'.left = req.left /\ req'.samples = req.samples /\ req'.total = req.total
        /\ req'.gcFree = req.gcFree /\ req'.contaminated = req.contaminated
        /\ req'.failed = req.failed /\ req'.clean = req.clean
    BY <1>0, <2>1, <2>2 DEF Request
  <2>4. BenchTypes'
    BY <1>0, <2>1, <2>3 DEF BenchTypes, Ended, Paired
  <2>5. Budget'
    <3>1. req.total = 0
      BY <2>1 DEF BenchInv, Budget
    <3>2. "before" \notin Paired /\ "before" \notin Signing
      BY DEF Paired, Signing
    <3>3. 0 + 0 <= cpu - cpu
      BY <1>0
    <3>4. /\ req'.pc = "before" /\ req'.begin = cpu /\ req'.total = 0 /\ cpu' = cpu
      BY <2>1, <2>3, <3>1
    <3>. QED
      BY <3>2, <3>3, <3>4, Zenon DEF Budget
  <2>6. (IterationsAccounted)' /\ SamplesFair' /\ GcFreeClear'
    <3>1. Len(req.samples) + req.failed + req.left = Iterations
      BY DEF BenchInv, IterationsAccounted
    <3>. QED
      BY <2>3, <3>1, ListsKept
  <2>. QED
    BY <2>4, <2>5, <2>6 DEF BenchInv
<1>3. CASE Before
  <2>1. PICK c \in {cpu, 0} :
          req' = [req EXCEPT
                    !.pc = IF @ = "before" THEN "sign" ELSE "sign2",
                    !.op = [cpu |-> c, wall |-> wall, gc |-> gc, read |-> cpu],
                    !.clean = @ /\ c = cpu]
    BY <1>3 DEF Before, Put, readCPUTicks
  <2>2. req.pc \in {"before", "before2"} /\ UNCHANGED <<wall, cpu, gc>>
    BY <1>3 DEF Before, Put
  <2>. DEFINE pc == IF req.pc = "before" THEN "sign" ELSE "sign2"
              op == [cpu |-> c, wall |-> wall, gc |-> gc, read |-> cpu]
              cl == req.clean /\ c = cpu
  <2>3. pc \in Pcs /\ pc \in Signing /\ (pc \in Paired <=> req.pc \in Paired)
    BY <2>2 DEF Pcs, Signing, Paired
  <2>4. op \in Ops /\ op.read = cpu /\ op.cpu = c /\ c \in Nat
    BY <1>0 DEF Ops
  <2>5. cl \in BOOLEAN
    OBVIOUS
  <2>6. req' = [req EXCEPT !.pc = pc, !.op = op, !.clean = cl]
    BY <2>1
  <2>. HIDE DEF pc, op, cl
  <2>7. /\ req' \in Request /\ req'.pc = pc /\ req'.op = op /\ req'.clean = cl
        /\ req'.left = req.left /\ req'.samples = req.samples /\ req'.total = req.total
        /\ req'.gcFree = req.gcFree /\ req'.contaminated = req.contaminated
        /\ req'.failed = req.failed /\ req'.begin = req.begin /\ req'.first = req.first
    BY <1>0, <2>3, <2>4, <2>5, <2>6 DEF Request
  <2>8. BenchTypes'
    BY <1>0, <2>2, <2>3, <2>7 DEF BenchTypes, Ended
  <2>9. (cl => req.clean) /\ (cl => c = cpu)
    BY DEF cl
  <2>10. (IterationsAccounted)' /\ SamplesFair' /\ GcFreeClear'
    <3>1. Len(req.samples) + req.failed + req.left = Iterations
      BY DEF BenchInv, IterationsAccounted
    <3>. QED
      BY <2>7, <2>9, <3>1, ListsKept, Zenon
  <2>11. Budget'
    <3>. DEFINE held == IF req.pc \in Paired THEN req.first.used ELSE 0
    <3>1. req.pc \in Paired => req.first.used >= 0 /\ Fair(req.first, cl)
      BY <2>9, Zenon DEF BenchInv, Budget, Fair
    <3>2. cpu <= cpu
      BY <1>0
    <3>3. req.pc \notin Signing /\ req.pc # "warmup" /\ pc # "warmup"
      BY <2>2, <2>3 DEF Signing
    <3>4. cl => req.total + held <= cpu - req.begin
      BY <2>9, <3>3, Zenon DEF BenchInv, Budget
    <3>5. cpu' = cpu
      BY <2>2
    <3>. QED
      BY <2>3, <2>4, <2>7, <2>9, <3>1, <3>2, <3>3, <3>4, <3>5, Zenon DEF Budget, Fair
  <2>. QED
    BY <2>8, <2>10, <2>11 DEF BenchInv
<1>4. CASE SignFails
  <2>. DEFINE n == req.failed + 1
              q == [req EXCEPT !.failed = n]
  <2>1. req.pc \in Signing /\ req' = NextIteration(q) /\ UNCHANGED <<wall, cpu, gc>>
    BY <1>4 DEF SignFails, Put, Signing
  <2>2. n \in Nat /\ req.failed \in Nat /\ req.left \in Nat /\ req.left >= 1
    BY <1>0, <2>1 DEF Request, Signing, Ended
  <2>3. /\ q \in Request /\ q.left = req.left /\ q.failed = n
        /\ q.samples = req.samples /\ q.total = req.total
        /\ q.gcFree = req.gcFree /\ q.contaminated = req.contaminated
        /\ q.begin = req.begin /\ q.clean = req.clean
    <3>. HIDE DEF n
    <3>. QED
      BY <1>0, <2>2 DEF Request
  <2>. HIDE DEF q, n
  <2>4. /\ req' \in Request /\ req'.left = req.left - 1 /\ req'.failed = n
        /\ req'.pc \in {"before", "report"} /\ (req'.pc = "before" => req'.left >= 1)
        /\ req'.samples = req.samples /\ req'.total = req.total /\ req'.gcFree = req.gcFree
        /\ req'.contaminated = req.contaminated
        /\ req'.begin = req.begin /\ req'.clean = req.clean
    BY <2>1, <2>2, <2>3, NextFields
  <2>5. BenchTypes'
    BY <1>0, <2>1, <2>4 DEF BenchTypes, Ended, Paired
  <2>6. (IterationsAccounted)' /\ SamplesFair' /\ GcFreeClear'
    <3>. DEFINE l == Len(req.samples)
    <3>1. l + req.failed + req.left = Iterations /\ l \in Nat
      BY <1>0 DEF BenchInv, IterationsAccounted, Request, SampleLists
    <3>. HIDE DEF l
    <3>2. l + n + (req.left - 1) = Iterations
      BY <2>2, <3>1 DEF n
    <3>. QED
      BY <2>4, <3>2, ListsKept DEF l
  <2>7. Budget'
    <3>1. req.clean => req.total <= cpu - req.begin
      BY BenchAccounted DEF MeasurementsAccounted, NoTickTwice
    <3>2. req'.pc \notin Paired /\ req'.pc \notin Signing /\ req'.pc # "warmup"
      BY <2>4 DEF Paired, Signing
    <3>3. req.total + 0 = req.total /\ cpu' = cpu
      BY <1>0, <2>1 DEF Request
    <3>. QED
      BY <2>4, <3>1, <3>2, <3>3, Zenon DEF Budget
  <2>. QED
    BY <2>5, <2>6, <2>7 DEF BenchInv
<1>5. CASE Report
  <2>. DEFINE st == IF req.samples = <<>> THEN 500 ELSE 200
  <2>1. /\ req.pc = "report" /\ req' = [req EXCEPT !.pc = "done", !.status = st]
        /\ UNCHANGED <<wall, cpu, gc>>
    BY <1>5 DEF Report, Put
  <2>2. "done" \in Pcs /\ st \in Nat
    BY DEF Pcs, Ended
  <2>. HIDE DEF st
  <2>3. /\ req' \in Request /\ req'.pc = "done" /\ req'.begin = req.begin
        /\ req'.left = req.left /\ req'.samples = req.samples /\ req'.total = req.total
        /\ req'.gcFree = req.gcFree /\ req'.contaminated = req.contaminated
        /\ req'.failed = req.failed /\ req'.clean = req.clean
    BY <1>0, <2>1, <2>2 DEF Request
  <2>4. BenchTypes'
    BY <1>0, <2>1, <2>3 DEF BenchTypes, Ended, Paired
  <2>5. Budget'
    <3>1. /\ "report" \notin Paired /\ "report" \notin Signing
          /\ "done" \notin Paired /\ "done" \notin Signing
      BY DEF Paired, Signing
    <3>2. cpu' = cpu
      BY <2>1
    <3>. QED
      BY <2>1, <2>3, <3>1, <3>2 DEF BenchInv, Budget
  <2>6. (IterationsAccounted)' /\ SamplesFair' /\ GcFreeClear'
    <3>1. Len(req.samples) + req.failed + req.left = Iterations
      BY DEF BenchInv, IterationsAccounted
    <3>. QED
      BY <2>3, <3>1, ListsKept
  <2>. QED
    BY <2>4, <2>5, <2>6 DEF BenchInv
<1>6. CASE Signed
  <2>1. req.pc = "sign" /\ UNCHANGED <<wall, cpu, gc>>
    BY <1>6 DEF Signed, Put
  <2>2. PICK c \in {cpu, 0} :
          LET s == Measured(req.op, c)
              q == [req EXCEPT !.clean = @ /\ c = cpu]
          IN  req' = IF kind = "jwt"
                     THEN [q EXCEPT !.pc = "before2", !.first = s, !.op = NoOp]
                     ELSE NextIteration(Record(q, s, <<s>>))
    BY <1>6 DEF Signed, Put, readCPUTicks
  <2>. DEFINE s == Measured(req.op, c)
              cl == req.clean /\ c = cpu
              q == [req EXCEPT !.clean = cl]
  <2>3. req' = IF kind = "jwt"
               THEN [q EXCEPT !.pc = "before2", !.first = s, !.op = NoOp]
               ELSE NextIteration(Record(q, s, <<s>>))
    BY <2>2
  <2>4. /\ s \in Stat /\ s.used = cpu - req.op.read /\ s.used >= 0 /\ Fair(s, cl)
    BY <2>1, MeasuredFair DEF Signing
  <2>5. cl \in BOOLEAN /\ (cl => req.clean)
    OBVIOUS
  <2>. HIDE DEF s, cl
  <2>6. req.left >= 1 /\ req.pc \in Signing /\ req.pc \notin Paired /\ req.op.read \in Int
    BY <1>0, <2>1 DEF Ended, Signing, Paired, Request, Ops
  <2>7. CASE kind # "jwt"
    <3>1. Reported(s, <<s>>, cl)
      <4>1. <<s>> \in Seq(Stat)
        BY <2>4
      <4>2. req' = NextIteration(Record([req EXCEPT !.clean = cl], s, <<s>>))
        BY <2>3, <2>7, Zenon
      <4>. QED
        BY <1>0, <2>4, <2>5, <2>6, <4>1, <4>2, ReportedFields, Zenon
    <3>. HIDE DEF q
    <3>2. <<s>> \in Seq(Stat) /\ Clear(s, <<s>>)
      BY <2>4 DEF Clear
    <3>3. Charged(s)
      <4>1. s.used + req.op.read = cpu + 0
        BY <1>0, <2>4, <2>6
      <4>. QED
        BY <2>6, <4>1, Zenon DEF Charged
    <3>. QED
      BY <2>1, <2>4, <2>5, <2>6, <3>1, <3>2, <3>3, ReportedStep, Zenon
  <2>8. CASE kind = "jwt"
    <3>1. req' = [[req EXCEPT !.clean = cl] EXCEPT !.pc = "before2", !.first = s, !.op = NoOp]
      BY <2>3, <2>8, Zenon
    <3>2. "before2" \in Pcs /\ s \in Firsts /\ NoOp \in Ops
      BY <2>4 DEF Pcs, Paired, Firsts, Ops, NoOp
    <3>3. /\ req' \in Request /\ req'.pc = "before2" /\ req'.first = s /\ req'.clean = cl
          /\ req'.left = req.left /\ req'.samples = req.samples /\ req'.total = req.total
          /\ req'.gcFree = req.gcFree /\ req'.contaminated = req.contaminated
          /\ req'.failed = req.failed /\ req'.begin = req.begin
      BY <1>0, <2>5, <3>1, <3>2 DEF Request
    <3>4. BenchTypes'
      BY <1>0, <2>1, <2>4, <2>6, <3>3 DEF BenchTypes, Ended
    <3>5. (IterationsAccounted)' /\ SamplesFair' /\ GcFreeClear'
      <4>1. Len(req.samples) + req.failed + req.left = Iterations
        BY DEF BenchInv, IterationsAccounted
      <4>. QED
        BY <2>5, <3>3, <4>1, ListsKept, Zenon
    <3>6. Budget'
      <4>1. "before2" \in Paired /\ "before2" \notin Signing /\ cpu' = cpu /\ req.pc # "warmup"
        BY <2>1 DEF Paired, Signing
      <4>2. req.clean => req.total + 0 <= req.op.read - req.begin
        BY <2>6, <4>1, Zenon DEF BenchInv, Budget
      <4>3. ASSUME NEW t \in Int, NEW r \in Int, NEW g \in Int, NEW p \in Int, t + 0 <= r - g
            PROVE  t + (p - r) <= p - g
        BY <4>3
      <4>4. req.total \in Int /\ req.begin \in Int
        BY <1>0 DEF Request
      <4>5. cl => req.total + s.used <= cpu - req.begin
        BY <1>0, <2>4, <2>5, <2>6, <4>2, <4>3, <4>4
      <4>. QED
        BY <2>4, <3>3, <4>1, <4>5, Zenon DEF Budget, Fair
    <3>. QED
      BY <3>4, <3>5, <3>6 DEF BenchInv
  <2>. QED
    BY <2>7, <2>8
<1>7. CASE SignedRefresh
  <2>1. req.pc = "sign2" /\ UNCHANGED <<wall, cpu, gc>>
    BY <1>7 DEF SignedRefresh, Put
  <2>2. PICK c \in {cpu, 0} :
          LET s == Measured(req.op, c)
              q == [req EXCEPT !.clean = @ /\ c = cpu]
          IN  req' = NextIteration(Record(q, combineBenchmarkStats(q.first, s),
                                                      <<q.first, s>>))
    BY <1>7 DEF SignedRefresh, Put, readCPUTicks
  <2>. DEFINE b == Measured(req.op, c)
              cl == req.clean /\ c = cpu
              q == [req EXCEPT !.clean = cl]
              a == req.first
              s == combineBenchmarkStats(a, b)
  <2>3. req' = NextIteration(Record(q, combineBenchmarkStats(q.first, b),
                                                <<q.first, b>>))
    BY <2>2
  <2>4. b \in Stat /\ b.used = cpu - req.op.read /\ Fair(b, cl)
    BY <2>1, MeasuredFair DEF Signing
  <2>5. cl \in BOOLEAN /\ (cl => req.clean)
    OBVIOUS
  <2>. HIDE DEF b, cl
  <2>6. req.left >= 1 /\ req.pc \in Signing /\ req.pc \in Paired /\ req.op.read \in Int
    BY <1>0, <2>1 DEF Ended, Signing, Paired, Request, Ops
  <2>7. a \in Stat /\ Fair(a, cl) /\ q.first = a
    <3>1. a \in Stat
      BY <1>0, <2>6
    <3>2. Fair(a, cl)
      BY <2>5, <2>6, Zenon DEF BenchInv, Budget, Fair
    <3>3. q.first = a
      BY <1>0, <2>5 DEF Request
    <3>. QED
      BY <3>1, <3>2, <3>3
  <2>8. req' = NextIteration(Record([req EXCEPT !.clean = cl], s, <<a, b>>))
    BY <2>3, <2>7, Zenon
  <2>. HIDE DEF a, q
  <2>9. s \in Stat /\ Fair(s, cl) /\ s.used = a.used + b.used /\ (~s.gc => ~a.gc /\ ~b.gc)
    BY <2>4, <2>5, <2>7, CombinedFair
  <2>. HIDE DEF s
  <2>10. <<a, b>> \in Seq(Stat)
    BY <2>4, <2>7
  <2>11. Reported(s, <<a, b>>, cl)
    BY <1>0, <2>5, <2>6, <2>8, <2>9, <2>10, ReportedFields, Zenon
  <2>12. Clear(s, <<a, b>>)
    <3>1. \A i \in 1 .. Len(<<a, b>>) : <<a, b>>[i] = a \/ <<a, b>>[i] = b
      OBVIOUS
    <3>. QED
      BY <2>9, <3>1, Zenon DEF Clear
  <2>13. Charged(s)
    <3>1. a.used \in Int /\ b.used \in Int
      BY <2>4, <2>7 DEF Stat
    <3>2. s.used + req.op.read = cpu + a.used
      BY <1>0, <2>4, <2>6, <2>9, <3>1
    <3>. QED
      BY <2>6, <3>2, Zenon DEF Charged, a
  <2>. QED
    BY <2>1, <2>5, <2>6, <2>9, <2>10, <2>11, <2>12, <2>13, ReportedStep, Zenon
<1>. QED
  BY <1>1, <1>2, <1>3, <1>4, <1>5, <1>6, <1>7 DEF BenchmarkNext, Handler

\* A benchmark's report accounts for every iteration, lists no signature as free
\* of collections that met one, charges no tick twice and has no negative
\* utilisation: for every number of iterations and every order of signatures,
\* failures, ticks, collections and failed readings.
THEOREM BenchmarkAccounted ==
    ASSUME Iterations \in Nat \ {0}
    PROVE  BenchmarkSpec => []MeasurementsAccounted
<1>1. BenchInv => MeasurementsAccounted
  BY BenchAccounted
<1>2. BenchmarkInit => BenchInv
  BY BenchInit DEF IterationsAssumption
<1>3. BenchInv /\ [BenchmarkNext]_benchmarkVars => BenchInv'
  BY BenchStep DEF IterationsAssumption
<1>. QED
  BY <1>1, <1>2, <1>3, PTL DEF BenchmarkSpec

-----------------------------------------------------------------------------
(* Benchmark: the statistics.                                              *)

\* The weighted mean of two values moves to the greater one with its weight.
LEMMA MixMonotone ==
    ASSUME NEW a \in Int, NEW b \in Int, a <= b, NEW f \in 0 .. 100, NEW g \in 0 .. 100, f <= g
    PROVE  a * (100 - f) + b * f <= a * (100 - g) + b * g
<1>. DEFINE d == b - a
            k == g - f
<1>1. d \in Nat /\ k \in Nat
  OBVIOUS
<1>2. d * k \in Nat
  BY <1>1
<1>3. d * k = (b * g - b * f) - (a * g - a * f)
  OBVIOUS
<1>4. /\ a * (100 - f) = 100 * a - a * f /\ a * (100 - g) = 100 * a - a * g
      /\ a * f \in Int /\ a * g \in Int /\ b * f \in Int /\ b * g \in Int
  OBVIOUS
<1>. QED
  BY <1>2, <1>3, <1>4

\* percentile at position x, in hundredths of the distance of two values.
At(v, x) ==
    LET lo == x \div 100
        frac == x % 100
    IN  IF lo + 1 >= Len(v) THEN 100 * v[Len(v)]
        ELSE v[lo + 1] * (100 - frac) + v[lo + 2] * frac

Ascending(v) == \A i, j \in 1 .. Len(v) : i <= j => v[i] <= v[j]

\* A position between two values has a value between them.
LEMMA AtBetween ==
    ASSUME NEW v \in Seq(Int), Ascending(v), NEW x \in Nat, (x \div 100) + 1 < Len(v)
    PROVE  /\ At(v, x) \in Int
           /\ 100 * v[(x \div 100) + 1] <= At(v, x) /\ At(v, x) <= 100 * v[(x \div 100) + 2]
<1>. DEFINE lo == x \div 100
            f == x % 100
<1>1. lo \in Nat /\ f \in 0 .. 100 /\ Len(v) \in Nat
  OBVIOUS
<1>. HIDE DEF lo, f
<1>2. lo + 1 \in 1 .. Len(v) /\ lo + 2 \in 1 .. Len(v) /\ lo + 1 < Len(v)
  BY <1>1 DEF lo
<1>. DEFINE a == v[lo + 1]
            b == v[lo + 2]
<1>3. a \in Int /\ b \in Int /\ a <= b
  BY <1>1, <1>2 DEF Ascending
<1>4. At(v, x) = a * (100 - f) + b * f
  BY <1>1, <1>2 DEF At, lo, f
<1>. HIDE DEF a, b
<1>5. a * (100 - 0) + b * 0 = 100 * a /\ a * (100 - 100) + b * 100 = 100 * b
  BY <1>3
<1>6. a * (100 - f) + b * f \in Int
  BY <1>1, <1>3
<1>7. a * (100 - 0) + b * 0 <= a * (100 - f) + b * f
  BY <1>1, <1>3, MixMonotone
<1>8. a * (100 - f) + b * f <= a * (100 - 100) + b * 100
  BY <1>1, <1>3, MixMonotone
<1>. QED
  BY <1>4, <1>5, <1>6, <1>7, <1>8 DEF a, b, lo

LEMMA AtMonotone ==
    ASSUME NEW v \in Seq(Int), Ascending(v), Len(v) >= 1, NEW x \in Nat, NEW y \in Nat, x <= y
    PROVE  At(v, x) \in Int /\ 100 * v[1] <= At(v, x) /\ At(v, x) <= At(v, y)
<1>. DEFINE n == Len(v)
            lo == x \div 100
            hi == y \div 100
            f == x % 100
            g == y % 100
<1>1. /\ lo \in Nat /\ hi \in Nat /\ lo <= hi /\ f \in 0 .. 100 /\ g \in 0 .. 100
      /\ (lo = hi => f <= g)
  OBVIOUS
<1>2. n \in Nat /\ n >= 1 /\ \A i \in 1 .. n : v[i] \in Int
  OBVIOUS
<1>3. \A i, j \in 1 .. n : i <= j => 100 * v[i] <= 100 * v[j]
  <2>. SUFFICES ASSUME NEW i \in 1 .. n, NEW j \in 1 .. n, i <= j
                PROVE  100 * v[i] <= 100 * v[j]
    OBVIOUS
  <2>1. v[i] \in Int /\ v[j] \in Int /\ v[i] <= v[j]
    BY <1>2 DEF Ascending
  <2>. QED
    BY <2>1
<1>4. /\ lo + 1 >= n => At(v, x) = 100 * v[n]
      /\ hi + 1 >= n => At(v, y) = 100 * v[n]
  BY DEF At
<1>5. /\ lo + 1 < n => At(v, x) \in Int /\ 100 * v[lo + 1] <= At(v, x) /\ At(v, x) <= 100 * v[lo + 2]
      /\ hi + 1 < n => At(v, y) \in Int /\ 100 * v[hi + 1] <= At(v, y)
  BY AtBetween
<1>6. lo = hi /\ lo + 1 < n => At(v, x) <= At(v, y)
  <2>. SUFFICES ASSUME lo = hi, lo + 1 < n PROVE At(v, x) <= At(v, y)
    OBVIOUS
  <2>1. lo + 1 \in 1 .. n /\ lo + 2 \in 1 .. n
    BY <1>1, <1>2
  <2>. DEFINE a == v[lo + 1]
              b == v[lo + 2]
  <2>2. /\ At(v, x) = a * (100 - f) + b * f
        /\ At(v, y) = a * (100 - g) + b * g
    BY <1>1, <1>2 DEF At
  <2>. HIDE DEF lo, hi, f, g, n
  <2>3. a \in Int /\ b \in Int /\ a <= b
    BY <1>1, <1>2, <2>1 DEF Ascending, n
  <2>. HIDE DEF a, b
  <2>4. f \in 0 .. 100 /\ g \in 0 .. 100 /\ f <= g
    BY <1>1
  <2>5. a * (100 - f) + b * f <= a * (100 - g) + b * g
    BY <2>3, <2>4, MixMonotone
  <2>. QED
    BY <2>2, <2>5, Zenon
<1>. HIDE DEF lo, hi, f, g, n
<1>7. At(v, x) \in Int /\ 100 * v[1] <= At(v, x)
  <2>1. CASE lo + 1 >= n
    BY <1>2, <1>3, <1>4, <2>1
  <2>2. CASE lo + 1 < n
    <3>1. lo + 1 \in 1 .. n /\ 1 \in 1 .. n
      BY <1>1, <1>2, <2>2
    <3>2. 100 * v[1] <= 100 * v[lo + 1] /\ 100 * v[1] \in Int /\ 100 * v[lo + 1] \in Int
      BY <1>1, <1>2, <1>3, <3>1
    <3>. QED
      BY <1>5, <2>2, <3>2
  <2>. QED
    BY <1>1, <1>2, <2>1, <2>2
<1>8. At(v, x) <= At(v, y)
  <2>1. CASE lo + 1 >= n
    <3>1. hi + 1 >= n
      BY <1>1, <1>2, <2>1
    <3>. QED
      BY <1>4, <1>7, <2>1, <3>1
  <2>2. CASE lo + 1 < n /\ hi + 1 >= n
    <3>1. lo + 2 \in 1 .. n /\ n \in 1 .. n /\ lo + 2 <= n
      BY <1>1, <1>2, <2>2
    <3>2. 100 * v[lo + 2] <= 100 * v[n] /\ 100 * v[lo + 2] \in Int /\ 100 * v[n] \in Int
      BY <1>2, <1>3, <3>1
    <3>. QED
      BY <1>4, <1>5, <2>2, <3>2
  <2>3. CASE lo < hi /\ hi + 1 < n
    <3>1. lo + 2 \in 1 .. n /\ hi + 1 \in 1 .. n /\ lo + 2 <= hi + 1 /\ lo + 1 < n
      BY <1>1, <1>2, <2>3
    <3>2. 100 * v[lo + 2] <= 100 * v[hi + 1] /\ 100 * v[lo + 2] \in Int /\ 100 * v[hi + 1] \in Int
      BY <1>2, <1>3, <3>1
    <3>. QED
      BY <1>5, <2>3, <3>1, <3>2
  <2>. QED
    BY <1>1, <1>2, <1>6, <2>1, <2>2, <2>3
<1>. QED
  BY <1>7, <1>8

\* What sorting promises of a list of times.
LEMMA SortingSorted ==
    ASSUME NEW s \in Seq(Int), NEW v \in Sortings(s)
    PROVE  v \in Seq(Int) /\ Len(v) = Len(s) /\ Ascending(v)
<1>0. /\ v \in [DOMAIN s -> Range(s)]
      /\ \A i, j \in DOMAIN v : i <= j => v[i] <= v[j]
  BY Zenon DEF Sortings
<1>1. DOMAIN s = 1 .. Len(s) /\ Len(s) \in Nat /\ \A x \in DOMAIN s : s[x] \in Int
  OBVIOUS
<1>2. Range(s) \subseteq Int
  BY <1>1 DEF Range
<1>3. v \in [1 .. Len(s) -> Int] /\ DOMAIN v = 1 .. Len(s)
  BY <1>0, <1>1, <1>2
<1>4. v \in Seq(Int) /\ Len(v) = Len(s)
  BY <1>1, <1>3
<1>. QED
  BY <1>0, <1>3, <1>4, Zenon DEF Ascending

LEMMA PercentileAt ==
    ASSUME NEW v \in Seq(Int), Len(v) >= 1, NEW p \in 0 .. 100
    PROVE  percentile(v, p) = At(v, p * (Len(v) - 1))
<1>1. Len(v) = 1 => p * (Len(v) - 1) = 0
  OBVIOUS
<1>. QED
  BY <1>1 DEF percentile, At

\* The least, middle, 95th, 99th and greatest of the reported times are in this
\* order, for every list of times computeTimingStats is given: interpolation
\* never leaves the cell of its position, and the last cell is clipped.
THEOREM BenchmarkStats ==
    ASSUME Iterations \in Nat \ {0}
    PROVE  BenchmarkSpec => []StatsInOrder
<1>1. ASSUME BenchInv PROVE StatsInOrder
  <2>. SUFFICES ASSUME NEW v \in Sortings(Times)
                PROVE  LET st == computeTimingStats(v)
                       IN  st.min <= st.p50 /\ st.p50 <= st.p95 /\ st.p95 <= st.p99 /\ st.p99 <= st.max
    BY DEF StatsInOrder
  <2>1. Times \in Seq(Int)
    <3>. DEFINE l == req.samples
    <3>1. l \in Seq([s : Stat, parts : Seq(Stat)]) /\ Times = [k \in 1 .. Len(l) |-> l[k].s.ms]
      BY <1>1 DEF BenchInv, BenchTypes, Request, SampleLists, Times
    <3>. HIDE DEF l
    <3>2. ASSUME NEW k \in 1 .. Len(l) PROVE l[k].s.ms \in Int
      <4>0. l[k] \in [s : Stat, parts : Seq(Stat)]
        BY <3>1, ElementOfSeq
      <4>1. l[k].s \in Stat
        BY <4>0
      <4>. QED
        BY <4>1 DEF Stat
    <3>. QED
      BY <3>1, <3>2
  <2>2. v \in Seq(Int) /\ Ascending(v)
    BY <2>1, SortingSorted
  <2>3. CASE v = <<>>
    BY <2>3 DEF computeTimingStats
  <2>4. CASE v # <<>>
    <3>. DEFINE n == Len(v)
    <3>1. n \in Nat /\ n >= 1
      BY <2>2, <2>4
    <3>2. computeTimingStats(v) =
             [min |-> 100 * v[1], max |-> 100 * v[n], p50 |-> At(v, 50 * (n - 1)),
              p95 |-> At(v, 95 * (n - 1)), p99 |-> At(v, 99 * (n - 1))]
      <4>1. /\ percentile(v, 50) = At(v, 50 * (n - 1))
            /\ percentile(v, 95) = At(v, 95 * (n - 1))
            /\ percentile(v, 99) = At(v, 99 * (n - 1))
        BY <2>2, <3>1, PercentileAt
      <4>. QED
        BY <2>4, <4>1, Zenon DEF computeTimingStats
    <3>3. 100 * v[n] = At(v, 100 * (n - 1))
      <4>1. (100 * (n - 1)) \div 100 = n - 1
        BY <3>1
      <4>. QED
        BY <3>1, <4>1 DEF At
    <3>. DEFINE x == 50 * (n - 1)
                y == 95 * (n - 1)
                z == 99 * (n - 1)
                w == 100 * (n - 1)
    <3>4. x \in Nat /\ y \in Nat /\ z \in Nat /\ w \in Nat /\ x <= y /\ y <= z /\ z <= w
      BY <3>1
    <3>5. x <= x
      BY <3>4
    <3>. HIDE DEF x, y, z, w
    <3>6. /\ 100 * v[1] <= At(v, x) /\ At(v, x) <= At(v, y)
          /\ At(v, y) <= At(v, z) /\ At(v, z) <= At(v, w)
      BY <2>2, <3>1, <3>4, AtMonotone
    <3>. QED
      BY <3>2, <3>3, <3>6 DEF x, y, z, w
  <2>. QED
    BY <2>3, <2>4
<1>2. BenchmarkInit => BenchInv
  BY BenchInit DEF IterationsAssumption
<1>3. BenchInv /\ [BenchmarkNext]_benchmarkVars => BenchInv'
  BY BenchStep DEF IterationsAssumption
<1>. QED
  BY <1>1, <1>2, <1>3, PTL DEF BenchmarkSpec
=============================================================================
