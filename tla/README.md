# Verification of tasktify

Tasktify is a task-management service used to compare post-quantum and
classical signatures for JSON Web Tokens. This directory holds TLA+ models of
its core, the TLC configurations that check them and TLAPS proofs.

## The system

| Part | State it keeps | Operations | Talks to |
| ---- | -------------- | ---------- | -------- |
| gateway (`src/backend/gateway`) | the public keys and the allowed algorithms | HTTP routes, token check, translation to gRPC, benchmark endpoints | auth-service and todo-service over gRPC |
| auth-service (`src/backend/auth-service`) | `users` table, signing keys, `runtimeStatsState` | register, update, delete, get users; sign in, refresh, verify | PostgreSQL |
| todo-service (`src/backend/todo-service`) | `tasks` table, connection pool | create, update, delete, get, list tasks of one user | PostgreSQL |
| token utilities (`src/backend/pkg/utils/jwtutils`) | algorithm configurations | `Sign`, `Parse`, `AlgorithmFromToken` | jwt library |
| jwt library (`src/backend/pkg/jwt`) | registry of signing methods | parse, validate claims, sign, verify | FN-DSA and the classical algorithms |
| FN-DSA (`src/backend/pkg/fndsa`) | none between calls; a precomputed signer keeps its LDL tree | key generation, sign, verify, encode, decode | SHAKE256 |

A request passes the gateway's middleware, which verifies the access token and
puts its subject in the `x-user-id` metadata; the todo-service's interceptor
takes the user from there. Nothing else links a token to the rows it may touch.

What is hard in this code:

* gRPC handlers are goroutines that read a row, compute and write it back in a
  READ COMMITTED transaction, without locking the row they read;
* every handler draws from a bounded connection pool and may wait on a row lock
  while it holds a connection;
* a commit can succeed and its acknowledgement be lost; the process can die at
  any point;
* tokens outlive the rows they were issued for, and two processes with two
  clocks issue and check them;
* one table maps several configured algorithm names to one header algorithm;
* a token passes a parser with two dozen options and keys that Go's types do not
  tell apart;
* FN-DSA works on words that wrap, with masks for conditions, in buffers cut up
  anew by every step and sized from measurements, and has three ways to compute
  the same thing at several places; a wrong bit mostly shows as a signature that
  fails once in a while.


What makes each part correct:

| Part | Properties |
| ---- | ---------- |
| todo-service | a call touches only rows of its user and takes effect at once or not at all; no return path leaks a connection or a lock; a deleted task stays deleted; a field left out is left alone; every call is answered |
| users | emails stay unique; a deleted account stays deleted |
| sessions | a session never reaches another account; a deleted account gets no tokens; an access token does not prolong itself; a valid token is not refused |
| token utilities | a token is refused only where its key is not loaded; the profile asked for is the one that signs |
| runtime statistics | a utilisation compares two readings that callers took, whoever overtakes whom; no CPU time is charged twice |
| gateway: task handlers | rows are shown to and changed by their owner only; a status never lies about a write |
| gateway: benchmark handlers | every iteration is accounted for, no tick is charged twice, percentiles are in order |
| jwt library | malformed, expired and foreign tokens are refused, and no others; keys serve the method they were made for |
| FN-DSA signatures | what is signed verifies, both signers agree, encodings are canonical, verdicts are exact |
| FN-DSA key generation | a solution is exact or refused, the solver ends and stays in its buffers, a key written is the key loaded (not so for degree 64) |
| FN-DSA arithmetic | word arithmetic, residues, fixed and floating point agree with the numbers they stand for |

## Modules

| Module | Models | Role |
| ------ | ------ | ---- |
| `TaskTable` | the promise of the todo-service: calls that take effect in one step on a table of owned rows | abstract specification |
| `TaskService` | gRPC server, interceptor, `TaskService`, `TaskRepository`, pool and row locks | component, implements `TaskTable` |
| `TaskServiceProofs` | theorems about `TaskService` | proofs |
| `Sessions` | `UserService`, `AuthService`, the gateway's middleware, profile route and benchmark token, two clocks | component |
| `SessionsProofs` | theorems about `Sessions` | proofs |
| `TokenProfiles` | `LoadAlgConfig`, `multiAlgJwtUtil`, `signTokenPair`, the middleware, restarts with other allow-lists | component |
| `Gateway` | the task routes: middleware, `TaskHandler`, `grpcToHTTPError`, over `TaskTable` | composition |
| `GatewayProofs` | theorems about `Gateway` | proofs |
| `Benchmark` | the benchmark handlers, their statistics, the CPU monitor | component |
| `RuntimeStats` | `collectRuntimeStats` | component |
| `MeasurementProofs` | theorems about `RuntimeStats` and `Benchmark` | proofs |
| `JwtMethods` | signing methods and key files of the jwt package | component |
| `JwtParser` | `ParseWithClaims`, `Validate`, claim types | component |
| `TokenProofs` | theorems about `TokenProfiles`, `JwtMethods` and `JwtParser` | proofs |
| `Powers` | powers of two | operator |
| `FndsaPrng` | the buffered SHAKE256 generator | component |
| `FndsaNorm` | squared norms and the verdict of `verify_inner` | component |
| `FndsaCodec` | the compressed signature format | algorithm |
| `FndsaModQ` | arithmetic and NTT modulo q | algorithm |
| `FndsaFFT` | Fourier sampling, with and without the precomputed LDL tree | algorithm |
| `FndsaSign` | the signing loops of both signers and verification | component |
| `FndsaSignProofs` | theorems about `FndsaNorm`, `FndsaCodec` and `FndsaSign` | proofs |
| `FndsaKeys` | the rejection loop of key generation, encoding and loading of keys | component |
| `FndsaNtru` | `solve_NTRU`, every level and error path | component |
| `FndsaLayout` | the buffers and scales of `solve_NTRU`, with the program's tables | component |
| `FndsaBezout` | `zint_bezout` | algorithm |
| `FndsaRns` | residues, NTT and big integers of key generation | algorithm |
| `FndsaFixed`, `FndsaFloat` | fixed-point and emulated floating-point numbers | algorithm |
| `FndsaKeygenProofs` | theorems about `FndsaPrng`, `FndsaKeys` and `FndsaFixed` | proofs |
| `FndsaLemmas` | induction, recursive functions, quotients and remainders, digits | lemmas of the two modules of FN-DSA proofs |
| `MCTaskService`, `MCTaskLiveness`, `MCSessions`, `MCSessionParts`, `MCTokenProfiles`, `MCTokens`, `MCGateway`, `MCFndsaSign`, `MCFndsaKeygen`, `MCFndsaKeys` | the instances of the configurations | model checking |

### TaskService

A handler walks through `pc`: `idle`, `called`, `begun` (after `Begin`), `read`
(after `GetById`), `written` (the UPDATE, INSERT or DELETE is done and its row
locked), `committed` (the database has committed and the answer is under way).
`entity` is the Go struct the handler holds, and once it has written, the
pending row. The statement of an update is computed from the struct
(`Updates`: GORM skips zero values) on the row as it is *then*; under READ
COMMITTED it waits for a lock, looks again, and matches nothing if the row was
deleted meanwhile (`Affects`). Every early return is `Return`, which is the
deferred `Rollback`: it gives back the connection and the lock. A database
error is possible at each statement (`BeginFails`, `StatementFails`,
`CommitFails`, `ReadFails`); `CommitFails` after `Commit` is the lost
acknowledgement. `Crash` ends the process at any point. `created_at` and
`updated_at` are left out, and a crash of the database is not told apart from
one of the service.

`TaskTable` keeps only the rows and, for each caller, whether its call is open,
done or answered. `ImplementsTable` maps `committed` to "done": the call takes
effect with the commit, whatever the caller is told afterwards.

### Sessions

Tokens are records of the claims that matter (subject, email, use, type, iat,
exp); a client presents only tokens it has seen (`held`). A call is `called`,
`parsed` (a refresh token accepted), `read` (user looked up), `admitted` (past
the middleware). Accounts can be deleted and their emails taken by others
between any two of these steps. `identity` and `gone` are history variables:
whose password a client has proved, and which accounts were already deleted
when its call came in. A write and its commit are one step, since the index
entry or row lock taken by the write is held until then; `TaskService` has them
apart. Codes are those of gRPC, before the gateway translates them. A bearer is
a client that only ever presents tokens it was handed. The update and delete
calls are not routed by the gateway but served by the auth-service; an operator
makes them.

The constants assume that the identifier of a benchmark token, a version 5
UUID, is never one that `gen_random_uuid()` draws, a version 4 one.

### TokenProfiles

`Sign` and `Parse` are set-valued: `configForHeaderAlg` returns the first match
of a range over a Go map, that is, any. One session is enough, since lookups
share nothing but the loaded profiles. Each of the two tokens of a pair is
looked up separately.

### Gateway

`Gateway` composes the task routes with `TaskTable`, the promise that
`TaskService` is shown to keep, so what it shows holds of the two services
together. A request is `sent`, `admitted` by the middleware, `forwarded`; the
todo-service takes the call, applies it and answers in steps of its own, or is
lost on the way (`Outage`). `effect` is a history variable: whether the call
took effect. Conversions of due dates are left out; `TaskService` has the
columns.

### Benchmark and RuntimeStats

Both count in ticks and keep a percentage as the pair it is computed from.
`Benchmark` has one request and the monitor; what others do to the process shows
in the counters; a field `total` adds up the CPU times it reports. Sorting is
what `sort.Float64s` promises (`Sortings`), so the percentiles are those of any
sorted list of the same times. A reading of the CPU counter may fail and is then
0, as in the code. In `RuntimeStats` a caller reads the clock, then the counter,
then takes the lock. The counter is the metric `/cpu/classes/total:cpu-seconds`,
which the Go runtime brings up to date when a collection ends and at no other
time: `Elapse` moves the clock alone, `CollectionEnds` sets the counter to the
time of all processors until now. A report can therefore charge an interval with
time from before it and exceed 100 %; no document or test of the repository says
that it does not, and `ReportsAddUp` says what remains: the reports together
charge no time twice but what an overtaken caller put back. `charged` and
`undone` are history variables. Memory figures are copied and never combined;
they are left out.

### JwtMethods and JwtParser

`JwtMethods` keeps what a type assertion or a size check can see of a key: its
Go type, family, parameter set, half, identity, and the form of its bytes: a PEM
block read as it is (`Block`, by the loaders of FN-DSA keys and of shared
secrets) is the key itself or an encoding of one. Any file, a public key too, can
so become a shared secret; a token signed with it is accepted by a verifier that
read the same block as one, which `SignedForKey` spells out. `FilesAssumption`
says of the files only that they are of the shape `KeyFiles`.
Signatures are ideal: valid for the text and the key they were made with.
`JwtParser` is one call of `ParseWithClaims`, check after check in the code's
order, on an input described by its shape (encodings, bodies, JSON types, values) and the options.

### FN-DSA

The code is sequential and pure, so a behaviour of one of these modules is one
computation on chosen operands; a step is a call, an iteration or a whole
operation, whichever the properties need. The widths of the program are
parameters: a limb of 31 bits is one of 3, 7 or 9, a mantissa of 52 bits one of
4. A mask that is all ones or zero is a condition. Each operation is translated
with its words and compared with the mathematics: the schoolbook product, the
integer an encoding stands for, the exact sum rounded to nearest.

* `FndsaFFT` replaces floating-point numbers by a finite field in which the
  identities of the algorithm are exact; it is about the algebra of the
  recursion, not about rounding, which `FndsaFloat` is about.
* `FndsaSign` uses the lattice of degree 1, any hash, and any sampler whose
  vectors fit an int16; the dynamic and the precomputed signer run side by side
  from one seed.
* `FndsaNtru` takes words for the integers they stand for, truncated to the
  sizes of each depth, and lets the quotient of a reduction be off by one;
  `FndsaRns` computes with the words, `FndsaLayout` has the memory.
* `FndsaKeys` keeps the program's tables and widths for every degree, with
  polynomials of any number of coefficients that fill whole bytes; the run has
  eight. A key from a file is any byte string of `FileKeys`. The tests of a whole
  polynomial (invertible, orthogonalised norm, NTRU equation) may go either way.
  `GeneratedKeyLoads` says for every degree when a generated key is decoded to
  what was generated, and that degree 64 alone can fail; `KeyGenCannotFail` is
  what the code says of itself.

## Runs

| Run | Instance | Checks | Result |
| --- | -------- | ------ | ------ |
| `task_table` | 2 callers, 2 users, 2 tasks, 2 connections | `TypeOK`, `ResourcesAccounted`, `AckedDeleteGone`, `NoResurrection`, `EmptyTextKept`, `ImplementsTable` | holds |
| `task_liveness` | 2 callers with one connection, or with two and one row | `EveryCallReturns` | holds |
| `sessions` | a session and an operator, 2 accounts, 2 emails; or a session and a bearer, 1 account, clocks 0..1, gateway up to 1 ahead, benchmark tokens | `UniqueEmails`, `OwnIdentity`, `NoTokensAfterDelete`, `AccessTokenIsFinal`, `RefusedOnlyIfExpired` | holds |
| `gateway` | 2 clients, 2 accounts, 1 task, tokens of every use and without one; or a benchmark of 2 iterations | `OnlyOwnRowsShown`, `StatusTellsTruth`, `OnlyOwnersWrite`; `MeasurementsAccounted`, `StatsInOrder` | holds |
| `tokens` | 4 profiles and all allow-lists; or 27 key files; or calls of the parser that differ from a good one in two or three fields; or 2 callers on 2 processors | `RefreshFindsSigner`, `RefusedOnlyIfNotLoaded`; `AcceptedIsSigned`, `MethodsFitKeys`; `JudgedIsAuthentic`, `ClaimsJudged`; `ReportIsOneInterval`, `ReportsAddUp` | holds |
| `fndsa_sign` | norms of 5 coefficients modulo 17; degree 4 modulo 17; bytes of 3 bits; degree 8 over 127 elements; 2 rounds of 2 signers | `VerdictIsExact`, `ModQExact`, `CodecCanonical`, `SamplersAgree`, `NearestPlane`, `SignersCorrect` | holds |
| `fndsa_keygen` | a buffer of 5 bytes; limbs of 7 bits; keys at 7 degrees, generated and from files; NTRU at degree 8; GCD on 3 limbs; all degrees of the buffers; mantissas of 4 bits; words of 6 bits | `StreamInOrder`, `IntegersExact`, `KeysRoundTrip`, `SolutionsExact`, `Terminates`, `BezoutCorrect`, `BuffersHold`, `FloatsRounded`, `FixedRounded` | holds |
| `task_due_date` | 2 callers, 1 task, omitted and given due dates | `OmittedDueDateKept` | violated |
| `profile_unloaded` | the profiles of `tokens` | `UnloadedProfileFails` | violated |
| `profile_refresh` | the same | `LoadedProfileMeasured` | violated |
| `session_email` | requests with an empty email | `EmailRequired` | violated |
| `key_degree64` | keys generated at degree 64 and 128 | `KeyGenCannotFail` | violated |

Four runs check several modules that share no state. Their MC module has a
variable `part` that says which one a behaviour is of; the others rest in their
initial states, so the reachable states are the union of those of the modules,
and a property of a module holds in the run exactly if it holds in the module.
The `part` of `sessions` is another: it restricts one module to two
neighbourhoods of a session, since both at once are more than a run can explore.
A component that has theorems is extended, by the MC module and by the module
of its proofs, so the theorems are about the very definitions TLC checks; the
names of components that meet in one MC module differ (`ParserInit`,
`SignNext`, `runtimeVars`). The other components of a run are instantiated. The
assumptions `InputsAssumption`, `SignAssumption`, `IterationsAssumption` and
`ProcsAssumption` are operators that the MC module assumes, so TLC evaluates
them, and that the theorems name as hypotheses. Where a module
has several parts of one claim, their conjunction is checked: `SignersCorrect`,
for example, is `SignedVerifies`, `SignersAgree` and `OnlyLongRefused` of
`FndsaSign`, each with its own comment there.

Why the bounds are enough to meet the cases: two handlers are what it takes for
one to act between two steps of the other, and each waits for at most one lock,
so a longer chain of waiters repeats the step of two. Two primary keys let a
deletion and a creation overlap on different rows. Two emails let one move to
another account. `Duration = 1` with `MaxClock = 1` has tokens on both sides of
their expiry; `MaxLag = 0` in `sessions` is the assumption of
`RefusedOnlyIfExpired`: a gateway behind by one second does refuse a fresh
token, since `iat` is checked without leeway. Two changes to a good call of the
parser meet every pair of causes, and an option together with the claim it is
about. For the arithmetic the widths are chosen so that the cases of the wide
words occur: sums that wrap and saturate, words that straddle the end of the
buffer in every alignment, coefficients that straddle bytes, shifts that cross
limbs, approximations that leave limbs out, operands shifted out altogether,
ties, both signs of zero, and pairs (f, g) that exceed the sizes of `FndsaNtru`
at each depth. What a bound leaves out is covered by the theorems where there
are some, and otherwise left to the small scope.

Bounds: `Payloads`, `Ops`, `RequestEmails`, `BenchmarkEmails`, `Requests`,
`Tokens`, `Inputs`, `Files` (what is asked for), `MaxClock`, `MaxLag`,
`MaxLead`, `MaxWall`, `MaxGC`, `MaxStream`, `MaxCounter` (clocks and counters),
`Iterations`, and the sets of operands. Symmetry is used in `task_table`,
`sessions` and `gateway` on sets of model values the modules only
compare for equality; not in the liveness runs.

Deadlock is checked where the system never stops (`task_table`,
`task_liveness`, the sessions, the gateway); the other runs are of computations
that end.

### What the violated runs show

* `task_due_date`: two updates read a task; one sets the due date and commits;
  the other, which omits it, writes back the date it read. Both answer OK.
  `title`, `description` and `status` are overwritten by the request before the
  write, and empty ones skipped, so the same does not happen to them
  (`EmptyTextKept`).
* `profile_unloaded`, `profile_refresh`: the repository's README says that a
  profile which is not loaded fails "instead of being silently measured with the
  wrong signer". `FN-DSA-512` names both a profile and the header algorithm of
  all FN-DSA profiles, so it is served by a precomputed signer when only that is
  loaded, and a refresh, which has the header alone, turns a precomputed session
  into a dynamic one.
* `session_email`: the `validate` tags of the gateway's request types are never
  evaluated, so an account without email can be created; it can sign in, and its
  tokens are refused everywhere.
* `key_degree64`: a coefficient for degree 64 is the sum of four samples, up to
  96 (`kgen_gauss.go:44`), and a signing key has 7 bits for it. The generator
  skips what exceeds 127 only, the encoder truncates (`codec.go:18`), and the
  signer decodes another polynomial, or refuses the key if the coefficient is 64
  or -64, although `KeyGen` returned no error. Such a coefficient is 5.6 standard
  deviations out, and degree 64 is one for tests; at all other degrees the limits
  fit (`GeneratedKeyLoads`).

### Cases the properties leave out

These are conditions in the properties, at the places where the code behaves
differently from its neighbours:

* `ShortIsAccepted` asks for a nonzero s2: `norm1 < -norm2` (`vrfy.go:97`) is
  false when `norm2` is zero, and no signature has s2 = 0 in practice.
* `FloatsRounded` has the signs of IEEE 754 for sums and products that are zero;
  a quotient that is zero is positive, as `f64_div` clears its sign
  (`sign_flr_emu.go:414`), while the native builds would return -0 for a negative
  divisor.
* `FndsaBezout` has y > 1; for y = 1 the coefficients are reduced modulo 1.
  `FndsaNtru` computes a norm of 1 as the program does, and `ExactUnlessLost`
  leaves those levels to the final test, which refuses a wrong solution.
* `FndsaSign` has hash functions that are known; `verify_inner` does not look at
  the error of `hash_to_point` (`vrfy.go:86`).
* `AcceptedIffFits` is about dates in range and claim names that do not differ
  in case only: beyond int64 a date is what the conversion makes of it
  (`types.go:46`), and `encoding/json` folds case where the search for
  duplicates does not (`parser.go:257`).
* `PctNotNegative` is about the share of one signature; the monitor publishes
  the difference of its readings as it is (`benchmark_handler.go:53`), negative
  after a reading that failed.

## Fairness

`TaskService` and `FndsaNtru` state liveness. `Fairness` is strong fairness of
`Proceed(c)`, all that a handler does without an error of the database: a
goroutine that can run does, `database/sql` hands a freed connection to one of
the waiters chosen at random, and PostgreSQL queues the waiters of a row. Weak
fairness would not do, as the connection or the lock a handler waits for may be
taken by others between its chances. Errors and crashes are never assumed to
happen or to stop happening. `Terminates` assumes weak fairness of the steps of
`solve_NTRU`: a sequential function goes on while it can.

## Proofs

All theorems are for every value of the constants, under the assumptions named
in the component modules.

**TaskServiceProofs.** `TypeCorrect`, `NoLeak` (`ResourcesAccounted`),
`DeleteIsFinal` (`AckedDeleteGone`), `DeletedStaysDeleted` (`NoResurrection`),
`EmptyMeansUnchanged` (`EmptyTextKept`) and `Refinement` (`ImplementsTable`).
None of the properties is inductive by itself. The invariant `IInv` adds

* `ConnsExact` and `LocksHeld`, the two halves of `ResourcesAccounted`;
* `CreateInv`: a primary key is inserted only by the handler that drew it;
* `CallInv`: what a handler has checked by the time it gets to a step;
* `OwnerInv`: a row that was read keeps its owner while it is there;
* `PendingInv`: what an uncommitted row looks like, so that the commit is a step
  of `TaskTable`;
* `GoneInv`: a write that matched nothing, and a delete from its commit on, have
  seen the row gone for good.

**SessionsProofs.** `TypeCorrect`, `EmailsStayUnique` (`UniqueEmails`),
`SessionsKeepIdentity` (`OwnIdentity`), `AccessDoesNotRefresh`
(`AccessTokenIsFinal`), `DeletedAccountsGetNoTokens` (`NoTokensAfterDelete`) and,
for `MaxLag = 0`, `RefusalMeansExpiry` (`RefusedOnlyIfExpired`). The invariant
adds `InFlight` (the token of a call is one its client holds, the struct read for
a refresh is its subject's), `GoneForGood` (identifiers are not reused),
`BearerOnly` and `Dated` (no token is dated later than the gateway's clock by
more than `MaxLag`).

**TokenProofs.** Profiles: `TypeCorrect`, `RefreshSigns` (`RefreshFindsSigner`) and
`ProfilesInteroperate` (`RefusedOnlyIfNotLoaded`). The argument is
`HeaderDeterminesKey`: all FN-DSA profiles read the same key pair and every other
profile has a header algorithm of its own, so whichever configuration the map
range meets first has the right key.

**GatewayProofs.** `GatewayShowsOwnRows` (`OnlyOwnRowsShown`),
`GatewayStatusTruthful` (`StatusTellsTruth`) and `GatewayOwnersWrite`
(`OnlyOwnersWrite`), for any number of clients, accounts and tasks. The
invariant `IInv` is made of `Types`, `Identified` (past the middleware the user
of a request is the subject of its access token), `Called` (the call at the
todo-service is the one the request asked for, in that user's name),
`Recorded` (`effect` is what the todo-service did), `Shown` and `Truth`.

**MeasurementProofs.** `RuntimeReports` (`ReportIsOneInterval`) and `RuntimeBound`
(`ReportsAddUp`), for any number of callers and `ProcsAssumption`;
`BenchmarkAccounted` (`MeasurementsAccounted`) and `BenchmarkStats`
(`StatsInOrder`), for any number of iterations but none
(`IterationsAssumption`). The invariants are `RuntimeInv` (a caller holds
readings that were taken, and `ReadingsLag`: no reading is ahead of the time of
all processors, and what was charged is at most the stored counter and what was
put back, on which `ReportsAddUp` rests) and `BenchInv` (`Budget`: what was
charged so far and what the signature under way may still be charged fit the
ticks since the request began). A percentile is a point between two neighbours
of a sorted list (`AtBetween`), and grows with its position (`AtMonotone`); of
the sort only `Sortings` is used, a sorted list of the same values.

Signing methods: `AcceptedTokensSigned` (`AcceptedIsSigned`) and
`MethodsAgree` (`MethodsFitKeys`), for every set of key files that meets
`FilesAssumption` and every set of linked hash functions. `SignContract` says
what a successful `Sign` of each method returns, `VerifyContract` what a
successful `Verify` had before it, `PrivateFiles` and `PublicFiles` what a
loaded key is; `MethodsInv` carries these from step to step, so that the nine
families are looked into once and not at every step. The parser:
`ParserJudgesAuthentic` (`JudgedIsAuthentic`) and `ParserJudgesClaims`
(`ClaimsJudged`), for every input, set of registered methods, time, leeway and
precision that meet `InputsAssumption`. `ParserInv` says which questions the
call has answered with yes when it is at a step, and that it ended with success,
with the claims that do not fit, or with the answer no to one of the questions;
`PassedIff` and `CausesMisfit` compare these with the specification.
`TruncatedOnce` is why a date that was written and read is truncated only once.

**FndsaSignProofs.** `Saturation` (the norm is exact or all ones) and `VerdictExact`
(`VerdictIsExact`), for every word size, modulus, degree
and bound that meet `NormAssumption`. `LoopInv` relates the word sum and the
sticky bits to the exact sum: equal below half the word range, and once a
partial sum has reached it, marked for good. `CenteredSquare` bounds a summand,
so that one step cannot pass the marked half unseen.
`SignersAreCorrect` (`SignersCorrect`), for every key, bound and number of rounds
that meet `SignAssumption`: the key solves the NTRU equation, f is invertible
modulo q, the bound is below the square of the int16 range, and every vector the
sampler can yield fits an int16. The last is an assumption about the sampler: the
program cuts the vector to 16 bits unseen (`sign_core.go:164`), and a vector that
long could be signed with and not verify. `KeyRelation` derives G = F * h modulo q
from the equation, `VectorIsRecomputed` that the verifier finds the signer's s1
modulo q, and `CenteredLeast` that its representative is the shortest;
`SignerInv` says that a signer gave up only unacceptable rounds and holds the
vector of its round, so both return the first acceptable one.
`CodecIsCanonical` (`CodecCanonical`), for every number of coefficients, set of
lengths and every byte, accumulator and bound that meet `CodecAssumption`, the
program's among them: `comp_decode` gives back what `comp_encode` was given,
accepts only what `comp_encode` writes, and `comp_encode` refuses exactly what is
out of range or does not fit. A string of bits is taken for a number: `Val` is
that of some bytes, `Num` that of the codes of some coefficients. `CodecInv` says
that while encoding, the bytes written and the pending bits of the accumulator
are the number of the codes so far; while decoding, the bytes read are the codes
of the coefficients delivered, the part of one that is under way, and the pending
bits. It has one half for each order of the two calls: `ThereAndBack`, where the
bytes being read begin with the codes of `poly`, and `BackAndThere`, where the
bytes being written begin as those that were read. The property alone is not
inductive, since it says nothing of the bits that wait in the accumulator. That the accumulator is cut
to its width loses none of the pending bits, which is the one place where
`AccWidth` matters (`PutCoeffValue`).

**FndsaKeygenProofs.** `Stream` (`StreamInOrder`), for every buffer length and
width: the read under way has taken the bytes from `taken` on, and the buffer
ends where the sponge stands.
`FixedIsRounded` (`FixedRounded`), for every number of bits after the point from
two on, and all operands. A word and the number it stands for differ by a multiple of
2^(2H) (`WordOf`), so sums and products of words are those of numbers, and where
the number is representable the word is that one (`SignedWrap`). `MulRounded`
has the correction of the high half for signs. In the division, `DivInvStep` keeps
that the quotient so far times the divisor, the remainder and the bits not yet taken
up make the dividend, and that the remainder is below twice the divisor as long
as the quotient fits; `QuotientNearest` turns the last state into the nearest
number. `ProductClose` bounds the complex product with three multiplications.
The invariant `FixedInv` is that operands are words, and the property.
`KeysAreCanonical` (`KeysRoundTrip`), for every number of coefficients, set of
degrees among those `KeyGen` accepts, polynomials and files that meet
`KeysAssumption`, that is, for any bytes in a file. Bytes are digits to base 2^8, truncated coefficients digits to base
2^nbits; `EncodeValue` and `DecodeValue` say that both loops keep the number the
digits stand for and lose no pending bit. Two strings of digits of one length and
one number are the same, hence `DecodeEncode` (what was encoded is decoded, and
no coefficient that fits is refused) and `EncodeDecode` (what is decoded was
encoded from it, with no padding other than zero). `GeneratedDecoded` and
`DecodedCanonical` put the three polynomials of a key together. `KeysInv` adds to
the property what was sampled so far and within which bounds, which is where the
tables `kmax` and `zz` meet the bits of `nbits_fg` (`DegreeFacts`, for every
degree but 64). That a truncated key is not decoded to what was generated is
`DecodedFits`: whatever a decoder accepts fits the field.

**FndsaLemmas.** The provers cannot instantiate the library's theorems of
induction, which have a predicate as parameter. `WFMin`, a theorem about
well-founded relations, has a set: a set of numbers that is not empty has a
smallest element (`Smallest`), so a set with 0 and the successors of its elements
has every number (`Induction`), and so a recursive function exists and is
unique (`RecExists`, `RecUnique`). On these rest the laws of `Pow2` and of
strings of digits.

**Only model-checked:**

* liveness (`EveryCallReturns`, `Terminates`): out of the prover's reach;
* `SamplersAgree`, `NearestPlane` (the FFT and the LDL tree), `SolutionsExact`
  (products of polynomials, down the levels of the field norm): they are written
  with RECURSIVE operators or folds over sums of any length, about which the
  provers know nothing;
* `ModQExact`: the same, and with operators on bits, which cannot be used from a
  module with theorems;
* `IntegersExact`, `BezoutCorrect` (limbs with carries under loops that shrink
  their operands), `FloatsRounded` (normalisation and rounding by shifts in steps): they
  could be proved in the way of `FixedIsRounded`, which took a thousand lines of
  proof for one kind of number, and are not;
* `BuffersHold`: it is about the program's tables, and its run is over all
  degrees there are, so a theorem would say nothing more.

## Not modelled

* The distribution of the samplers, which is what makes signatures safe to
  publish: TLC has no probabilities. `FndsaFFT` checks that the sampler is asked
  for the right centres and leaves, `FndsaSign` lets it return anything that
  fits the words.
* Error bounds of floating and fixed point at the program's widths, the
  fixed-point FFT over vectors and the orthogonalised norm, which decide whether
  a pair is rejected but not whether an accepted one is right; builds with
  native float64 or assembly; `validateLDLTree`.
* g and G where the code treats them beside f and F in the same way
  (`FndsaRns`), `mp_div`.
* Signature schemes of other libraries (RSA, ECDSA, Ed25519, ML-DSA, SLH-DSA),
  which `JwtMethods` takes for ideal; the jwt command-line tool.
* The fallbacks of reading the resident memory, memory figures, formats,
  logging, timings, timestamps of rows.
* Wiring at start-up but for the allow-lists, the key generation command, k6
  scripts and Python analysis: sequential, or no part of the running system.
* The lost password change of `user_service.go:95`, where an update without a
  password writes back the hash it read: nothing in the repository promises
  otherwise, and `task_due_date` shows the mechanism.

## What could be added

1. `FloatsRounded` and `IntegersExact` for every width, on the lemmas of
   `FndsaLemmas`.
2. `Sessions` and `Gateway` in one composition, so that the tokens of the task
   routes are those of the sessions.
