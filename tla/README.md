# Verification of Hades

Hades is a registry for Protocol Buffers schemas that the `buf` command line
tool can push to and pull from.  This directory holds TLA+ specifications of the
parts of it that are hard to test, the TLC models that check them on small
instances, and proofs that the TLA+ proof system checks for every instance.
Paths are relative to the repository; `internal/hades` is abbreviated to `hades`
in prose.

## The system

One server process answers ConnectRPC requests.  Its state lives in four places:

* the metadata database (SQLite by default, with one connection, so transactions
  run one at a time; or PostgreSQL): users, organisations, modules, commit rows,
  tokens, sessions, SDK jobs, role bindings, the operation log;
* one git repository per module (go-git on the local disk, or Gitaly);
* the artifact store of generated SDKs (disk, S3 or git);
* the process itself: per-repository locks, the in-memory cache and rate limiter,
  the OPA policy engine's binding cache, the SDK worker's goroutines.

No transaction spans two of them.  Where an operation writes to two, the code is
a saga: git first, then a short database transaction, with a compensating git
step when the transaction fails.

### Inventory

| part | state | what makes it hard | modules |
|---|---|---|---|
| push (`hades/server/content/upload.go`) | repository, commit rows, operation log | two stores, overlapping pushes, rollback against a moving branch, several modules per request, crashes | `Push` |
| module creation (`hades/server/module`) | repository, module and commit rows | two creators of one name, deletion as compensation, crashes | `CreateModule` |
| SDK jobs (`internal/sdk/worker`, `hades/storage/db/sdkjob`) | job rows | several workers, stale recovery against slow workers, attempt limit, shutdown | `SdkJobs`, `JobQueue` |
| SDK artifacts (`internal/sdk/storage`) | files of a generated SDK | uploads file by file, cut copies, two tasks for one job | `Artifacts` |
| reads (`hades/server/{module,commit,content,meta,buf}`), listing, `UpdateModule` | visibility | checks on a row that changes before it is used, pages over a list that is filtered afterwards | `Policy`, `ReadPath` |
| Go module proxy (`internal/goproxy`) | none | archives streamed while jobs store files | `GoProxy` |
| organisations (`hades/server/identity`) | membership rows, role bindings, binding cache | the last administrator, rows and bindings in step | `OrgMembership` |
| authorization (`hades/authorization`, `hades/server/authorization`) | binding cache | decisions cached from a read older than the invalidation; roles, scopes and visibility together | `OrgMembership`, `Policy` |
| password accounts, sessions (`hades/server/auth/{authn,session}.go`) | users, verification and reset tokens, sessions | single use of tokens, lockout counting | `Account` |
| second factor (`hades/server/auth/totp.go`) | secrets, counters, backup codes | single use of codes, no transactions | `SecondFactor` |
| OAuth sign-in, API tokens (`hades/server/auth/{oauth,apitoken}.go`) | state entries, linked identities, tokens | single use of the state, failed look-ups, the last sign-in method, the cap | `Credentials` |
| device flow (`hades/server/auth/device.go`) | device grants, API tokens | polls and approvals racing, expiry between check and use | `DeviceGrant` |
| storage backends (`hades/storage/db`, `hades/storage/git`, `hades/cache`) | tables, repositories, cache entries | two implementations of every method that must agree | `Tables`, `AccountStores`, `RegistryStores`, `GitStores`, `Caches`, `StoreParity` |
| start, migrations, shutdown (`hades/run.go`, `hades/storage/db/sqlitemigrate.go`, `cmd/hades`) | schema, version rows, processes | crashes between statements, two processes on one file, drain against close | `Lifecycle` |

`PROJECT.json` lists every component, also those that are left out and why, and
the hazards with the lines at which they bite.

Each of the sections below names the runs listed in `PROJECT.json` and, as *further
configurations*, `.cfg` files that answer a narrower question and are run by hand
(`tlc -config MCPushAnswered.cfg MCPush`).  A module also states, under the heading
"Not kept", what a comment of the code promises and a schedule breaks; the comment above
such a property quotes the promise.  [Statements that are not kept](#statements-that-are-not-kept)
gives the instance on which TLC finds each schedule.

A run checks the properties that say most.  The type invariants, and some invariants
that are proved for every instance, are not repeated there; TLC has checked them on the
same instances, and they can be added to the configuration at any time.

## Push

`Push.tla` models the `Upload` handler.  Each member of `Uploads` is one request
whose handler runs in atomic steps, one per call to a store, interleaved with the
other requests:

| code | action |
|---|---|
| request checks, `upload.go:98-166` | `Begin` |
| any error before the first write | `Refuse` |
| latest commit row, `upload.go:167-188` | `ReadLatest` (`prev`) |
| branch head from git, `upload.go:190-207` | `ReadHead` (`head`) |
| existing paths, filter, digest, lookup, `upload.go:209-351` | `Prepare` |
| operation log entry | `LogPending` |
| `PutFiles` of the go-git backend | `PutFiles`, `PutRefMoved`, `PutError` |
| the transaction, `upload.go:434-506` | `RecordCommit`, `InsertFails`, `TxFails` |
| `rollback` / `RollbackCommit` | `RollbackCommit`, `RollbackFails` |
| end of a work item | `LogFailed`, `LogCompleted` |
| the process dies | `Crash` |

A repository is the sequence of its commit objects and the number of the branch
head; a tree is a function from paths to blobs; a digest is the file set it was
computed over (the hash is taken as injective).  Lint and breaking-change checks
are their verdict.  go-git holds a per-repository lock for a whole `PutFiles`, so
it is one step; a second writer process is outside that backend's deployment.
`TxFails`, `RollbackFails` and `Crash` consume `faults`, bounded by `MaxFaults`;
errors the code handles itself are not bounded.

Runs:

* `push`: two overlapping pushes, of one module or over two modules in opposite order,
  with one crash, failed transaction or failed rollback.  Recorded commits hold their
  files under the registry's own `buf.yaml` (`UploadedFilesStored`), a push that was not
  raced stores exactly its files (`ExactUnlessRaced`), reports are true
  (`ReportsAreRecorded`), and the branch moves only as intended (`HeadMoves`).
* `push_stale_base`: a statement of a comment that the code does not keep; the finding
  in `PROJECT.json` quotes it.

Further configurations: `MCPushOverlap.cfg` runs three pushes to one module without
faults (1.3 million states), the smallest number at which a push can be overtaken by one
that is itself overtaken.  `MCPushAnswered.cfg` checks that under weak fairness of every
handler each request is answered.  Each request runs in a goroutine of its own and no
step waits for another request for ever (the repository lock is released in every
path), so the scheduler gives exactly this fairness.

### Proofs

`PushProofs.tla` proves these and four more for every choice of the constants (any
number of modules, requests, paths, blobs and faults): the types (`TypeOK`), digests are
unique (`DigestUnique`), success is durable (`SuccessIsDurable`), and no head is left
unaccounted for (`HeadAccounted`).  The invariants are not inductive.  The
inductive invariant `IInv` adds

* `Control`: what each program counter says of the other local variables (a
  request in phase 2 has a work item at `idx`, its log has one entry per item
  begun, a commit in hand exists in git);
* `GitOK`: heads and parents are commits of the repository, parents are older,
  and every tree holds the registry's `buf.yaml`;
* `RowsOK`, `NoticesOK`: rows point to commits whose trees hold the digested files,
  and a row whose base is its commit's parent stores exactly those;
* `UploadInv`: what an upload in flight knows.  A work item's existing paths are
  those of the commit `prev`; the commit in hand was written from the item on
  `expected`; recorded and found commits have rows.

Every action preserves each conjunct; rows and commit objects are only appended,
which is what keeps the facts an upload holds across the steps of the others.

## Creating a module

`CreateModule.tla` models `CreateModuleByName` (`hades/server/module/module.go`).
Each member of `Creates` is one request.  The steps are the code's calls to a
store: the lookup of the name (`Taken`, `Free`), the log entry (`LogPending`), the
repository (`CreateRepository`), the initial commit (`PutFiles`, `PutRefMoved`,
`PutError`), the transaction with module and commit row (`Record`, `NameTaken`,
`TxFails`), the compensation (`DeleteRepository`, `DeleteFails`) and the last log
entry (`LogStatus`).  A lookup that fails for another reason than a missing row
reads as a free name in the code, and so it does in `Free`.  A request writes at
most one commit, so it stands for the commit's hash.  `undeleted` is a history
variable: the names whose repository a compensation failed to remove.

* `create_race`: three requests for one name over two branches, one failing store and one
  crash.  Three requests are needed for a loser to compensate while a third one is between
  its commit and its rows.  A second name would add nothing: no definition relates two
  names.  While requests agree on the branch and no store fails, a recorded module keeps
  its repository (`RecordedModuleKept`); only a failed compensation or a crash leaves one
  behind (`NoLeftovers`), and success means that the rows are the caller's
  (`OkIsRecorded`).

`CreateModuleProofs.tla` proves the three and `TypeOK` for any number of names,
branches, requests, failures and crashes.  `RecordedModuleKept` rests on
`BranchIsLock`: while requests for a name agree on the branch, the request whose
commit is the head is the only one between commit and rows, so none reaches the
compensation.  `RowsRequested`, `OkRows`, `LostIsOver` and `IdleAsksNothing` tie
rows and responses to the requests they come from.  `NoLeftovers` follows a branch
head back to its author.

## SDK jobs

`SdkJobs.tla` models the table of jobs (`hades/storage/db/sdkjob/sqlite`) and the
workers (`internal/sdk/worker/worker.go`, started by `hades/run.go`).

| code | action |
|---|---|
| `CreateBatch`, in the transaction of a push | `CreateBatch` |
| `RecoverStaleJobs`, at start and once a minute | `RecoverStale`, `RecoverFails` |
| the SELECT of `ClaimPending` | `Poll` |
| its UPDATE per job | `ClaimJob`, `SkipJob`, `ClaimFails` |
| `processJob` | `Upload`, `Fail`, `Succeed` |
| the 15 second context of the status writes | `BecomeLate` |
| five minutes pass on `started_at` | `Age` |
| cancelled context, end of the process, crash | `Stop`, `Exit`, `Crash` |

Clocks are abstracted to the two thresholds that matter.  One timing assumption is
made, in `Age`: a claim turns into a task, and a task that is not late ends or
becomes late, well within the five minutes after which its row counts as stale
(fifteen seconds against five minutes).  The check of `SuccessIsFinal` depends on
the fifteen seconds: a task that recovery has overtaken is late, and what is late
cannot write.

`JobQueue.tla` is the abstract specification: a job is started at most
`MaxAttempts` times, returns to the queue only with attempts left, and once done
stays done.  `ImplementsQueue` maps the rows to it.

* `sdk_workers`: two workers, two jobs, two slots, three attempts, one fault and one
  late task: enough for a row to be recovered under a late task, claimed by the other
  worker and finished by both.  A claim is exclusive (`OwnerHoldsRow`), success is final
  (`SuccessIsFinal`), the table implements the queue (`ImplementsQueue`), and every job
  ends (`JobsEnd`).  The fairness is the code's scheduling: the tickers
  of the loop keep firing, a process that is gone is started again, time passes, and a
  task ends because the generator runs under a timeout of three minutes
  (`generate.go:24`).  Faults and late tasks together are fewer than the attempts.

`SdkJobsProofs.tla` proves type correctness, `OwnerHoldsRow`, `SlotsBounded`,
`SucceededHasArtifact`, `SuccessIsFinal` and the refinement `ImplementsQueue` for
any number of jobs, workers, slots, attempts and faults.  `Owners` adds that the row
of a claim is fresh, which keeps recovery away from it; `Distinct` that a claim is
held once; `Outputs` that an uploaded task's output is stored; `Attempts` that a
pending job has attempts left.  `SlotsBounded` follows from `Room`, which counts the
slots a worker has reserved with the ones its tasks hold: a poll reserves at most what
is free, and every later step replaces one holder of a slot by another or by none.
`JobsEnd` is liveness and only model-checked.

## Device authorization

`DeviceGrant.tla` models `RequestDeviceCode`, `PollDeviceToken` and
`ApproveDeviceGrant` (`hades/server/auth/device.go`) over the rows of
`device_grants` and `api_tokens`.  A call reads the grant in one step and writes in
a later one, under the predicate of the UPDATE (`Unissued`, `Unapproved`); it may be
cut off in between.  `device_flow` runs two polls and two approvals over two codes: a
grant yields at most one token (`SingleToken`), of the user who approved it
(`TokenOfApprover`).
Deadlock is not checked there: every code expires, and then nothing is left to do.

`DeviceGrantProofs.tla` proves both, `TypeOK` and `GrantIsFixed` (an approved grant does
not change its user, nor an issued one its token).  The strengthening is
`PollsRemember`: the user a poll has read is still the user of the grant when it
writes.

## Organisations

`OrgMembership.tla` models one organisation: membership rows, role bindings, the
cache of bindings and the calls that go through it
(`hades/server/identity/handler.go`, `hades/authorization/engine.go`, `store.go`,
`hades/cache/memory.go`).  A call is authorised from the cache (`CacheHit`) or from
the table (`CacheMiss`, `ListBySubject`, `Store`), reads the memberships
(`GetMemberRole`, `CountAdmins`) and writes both tables and drops the cache entry in
one transaction (`AddMember`, `RemoveMember`).  With one SQLite connection a
transaction is one step.  `managers` is a history variable.  The superadmins of the
configuration are left out: there are none.  `AddOrgMember` takes any text for a role:
`"other"` stands for the ones that the policy does not know.

* `org_concurrent`: two calls at a time over two users, one of whom may be made a member
  or an admin, the other an admin or something else (`MCAsked`); between them every change
  of role occurs (4.7 million states).  A member has the binding of the role last given
  (`MembershipIsPermission`), and whoever changes memberships was a manager
  (`CallerWasManager`).  That the bindings of earlier roles go away is not so
  (`ManagersAreAdmins` below).

Further configurations: `MCOrgSerial.cfg` runs one call at a time over three users, and
there the last admin stays.  `MCOrgForgets.cfg` is about liveness: handlers run to
their end and a cache entry's time passes; one user suffices, as the property is about
the entry of one user.

`OrgMembershipProofs.tla` proves `MembershipIsPermission` and `CallerWasManager` for any
number of users, calls and roles asked for.  `Granted` follows the roles from the table to
the cache and to the handler.  `LastAdminStays` (false with two calls at a time) and
`RemovalTakesEffect` are only model-checked.

## Password accounts and sessions

`Account.tla` models one password account: its row of `users`, its sessions, reset
tokens and verification links (`hades/server/auth/authn.go`, `session.go`, and the
session check of the interceptor, `hades/server/authorization/middleware.go`).  Each
handler serves one call after another; each store call is a step.

| code | actions |
|---|---|
| `Register`, `VerifyEmail` | `Register`, `SendLink`; `VerifyEmail`, `VerifyTx` |
| `Login` | `Login`, `CountFailure`, `LockUntil`, `ClearFailures`, `CreateWithToken` |
| a call under a session | `Admit`, then `ResendVerificationEmail`, `Logout`, `RevokeSession`, `RevokeAllOtherSessions` or `ChangePassword` |
| `ChangePassword` | `ChangePassword`, `UpdatePassword`, `RevokeAllForUser` |
| `RequestPasswordReset` | `RequestPasswordReset`, `InvalidateForUser`, `IssueReset` |
| `ResetPassword` | `ResetPassword`, `ResetTx`, `RevokeAllForUser` |
| time, the end of the process | `LockExpires`, `TokenExpires`, `Crash` |

Passwords are compared, not hashed.  The marks `late`, `old`, `missed` and `stale` and
the counter `guesses` are history: no action's guard reads them.  An id whose row is
dead and that no call holds is used again, which keeps the model finite without
stopping it.  `MaxFaults` bounds failed writes and crashes.

* `account`: two handlers, two passwords, two sessions, two reset tokens, a limit of three
  attempts and one fault (1.2 million states).  Two handlers are enough for a login to be
  overtaken by a reset and for two reset requests to overlap; the limit is three so that a
  count can be wrong without being at its end.  Sessions end with the password that they
  were opened under, unless their revocation fails (`OldSessionsEnd`), and the lockout
  bounds the guesses (`GuessesBounded`).

`AccountProofs.tla` proves type correctness, `OldSessionsEnd`, `LockHasCause` and
`OneLiveReset` for any number of handlers, passwords, sessions and tokens.  The
strengthening is `IssuesFirst` (a reset request that was not overtaken issues when no
token is usable) and `CountsCurrent` (a failed login that was not overtaken read no
more failures than there are, and locks at the limit).  `GuessesBounded` counts the
handlers and is only model-checked.

## Second factor

`SecondFactor.tla` models the time-based second factor of one account: its row of
`totp_secrets`, its backup codes, the `totp_verified` flag of its sessions
(`hades/server/auth/totp.go`, `utils/totp`) and the gate of the interceptor
(`hades/server/authorization/middleware.go`).  Nothing here runs in a transaction, so
every store call is a step.

| code | actions |
|---|---|
| `BeginEnrollTOTP` | `BeginEnrollTOTP`, `Upsert`, `DeleteAllForUser`, `CreateBatch` |
| `ConfirmEnrollTOTP` | `ConfirmEnrollTOTP`, `ReadToConfirm`, `ConsumeCounter`, `Enable` |
| `VerifyTOTP` | `VerifyTOTP`, `ReadToVerify`, `ConsumeCounter` or `GetUnused` and `MarkUsed`, `MarkTOTPVerified` |
| `RegenerateBackupCodes`, `DisableTOTP` | `RegenerateBackupCodes`; `DisableTOTP`, `Delete` |
| a request under a session | `Request`, `Gate` |
| a failing store or limiter, time, the attempt window | `StoreFails`, `Tick`, `WindowPasses` |

An authenticator code is the pair of the secret it was computed from and its time step;
`ValidateCodeCounter` accepts the steps next to the clock.  `stale` and `overtaken` are
history: they mark calls whose reading was outdated by another call, and say which of
the properties can fail by a race and which cannot.

* `second_factor`: two handlers, two secrets, two backup codes, two time steps, a limit
  of two and one failing store.  Codes are single-use (`CodesOnce`): a time step is
  accepted once per enrolment (`StepOnce`), a backup code is accepted again only by a call
  that had looked it up before (`BackupOnce`).  The gate passes no session without a code
  (`GateNeedsCode`), and an enabled factor goes away only by `DisableTOTP` or an enrolment
  that had found it off, or could not read it (`FactorKept`).

`SecondFactorProofs.tla` proves them for any number of handlers, sessions, secrets,
codes, time steps and faults and any limit, and also that what was answered is stored
(`AnsweredVerified`), that the limiter fails closed (`AttemptsBounded`), and that the
secret that is enabled was confirmed unless replaced under the confirmation
(`EnabledIsConfirmed`).  A call decides in one step and acts in
another, so none is inductive.  `Keeps` says of a call what still holds of the store when
it has not been overtaken; `Ledger` that the steps accepted lie below the high-water mark
of the row and that an accepted backup code is no longer unused.

## Credentials

`Credentials.tla` models how a caller comes by a credential and what it opens: sign-in
through a provider (`GetOAuthURL`, `OAuthCallback`, `ConsumeOAuthState`,
`FetchProviderProfile`, `GetByProviderUID`, `GetByEmail`, `LinkIdentity`,
`GenerateOAuthUsername`, `CreateOAuthUser`, `CreateSession`), unlinking
(`ReadAuthFields`, `CountRemaining`, `DeleteByUserAndProvider`), personal access tokens
(`CountTokens`, `CreateAPIToken`, `RevokeAPIToken`), and the interceptor before any
call (`Routed`, `LookUp`, `CheckUserState`, `EffectiveScopes`, `Body`).  Each step is one
store or cache call; `ReadFails` is a failed read that the code takes for a missing row,
`Fail` one that it reports.

* `credentials`: two handlers, three calls, two provider accounts with one address, the
  first of which may have changed to another, one failing call, from four initial tables:
  none, an account whose name the new one would take, one with the provider's address, one
  with two links and no password.  Three calls are a sign-in, another one and a use.  A
  session opened by a provider belongs to an account linked to that identity
  (`SessionOfLinkedAccount`); an address alone claims nothing (`AddressClaimsNothing`); a
  sign-in whose look-ups fail, or whose address has changed, does not end in a second
  account (`NoSecondAccount`); only a race locks an account out (`OnlyARaceLocksOut`);
  dead credentials open nothing (`DeadCredentialRefused`).  On the same instance accounts
  are whole (`NoPartialAccount`) and tokens are minted by sessions and never unrestricted
  (`MintedBySession`, `TokensAreScoped`).

Further configuration: `MCCredentialsCap.cfg` (the cap counts a page that revoked tokens
fill, so that an account can hold more live ones).

## Reading the registry

`Policy.tla` holds the pure part: the Rego policy (`role_permissions`, `domain_matches`,
`policy_allow`, `denied_indices`), the scopes of a token (`DomainMatches`, `scopeCovers`,
`ScopeAllows`) and `CheckReadAccess`, which hides what is private.

`ReadPath.tla` runs the handlers that read (modules, commits, graph, download, files, diff,
check runs, SDKs; buf's adapters call the same handlers), `ListModules` page by page and
`UpdateModule`, one step per database, policy or git call, while `Others` create
modules, grant and revoke roles, and push: a push moves the head (`Put`) before its
commit has a row (`Record`) and may take it back (`Undo`).  `seen` is history: what the
caller could read, and what was public, at the moments of the call.

`Artifacts.tla` follows a task of the SDK worker after the claim: generation, the upload
file by file to disk or S3 or as one commit of the artifact repository, the final mark,
slow tasks, recovery and crashes.  `GoProxy.tla` composes the two with the handlers of
`internal/goproxy`, which list versions and stream archives meanwhile.

* `read_path`: two handlers and two calls, six scenarios: reads with the owner changing
  visibility, listings, updates, a token listing five modules in pages of two, the Go
  proxy on each artifact backend with two tasks and one fault, and archives of a commit
  that two plugins generate for (1.3 million states).  Two calls and two changes allow any
  change between the lookup, the check and the read of one call; page size, scan limit and
  size limits are small enough to be reached.  What is shown could be read at some moment
  of the call and is what was named (`OnlyReadable`); refusals do not tell of private
  modules, but for the one the table below shows (`PrivateIsNotFound`); what may be read
  is served (`GrantedIsServed`) and listed to the end (`ListingsComplete`); making a
  module public needs permission (`PublishNeedsPermission`); the output of a job that is
  marked as succeeded is stored whole (`SucceededIsWhole`); an archive holds the output of
  every plugin whose job had succeeded when it was asked for, and is complete once all
  have (`ServedIsWhole`).  Jobs are per plugin and one is enough for an archive, so an
  earlier one may hold less (`SdkIsImmutable` below).  On the same instance a listed
  version is found (`ListedIsServed`).

Further configuration: `MCReadPathListing.cfg`.  When the last batch of `ListModules` is
short while the page is already full, the token is empty and the rest of the batch is
never shown (`module.go:159`).  Only a token whose scopes are narrower than its roles
loses rows.

`ArtifactsProofs.tla` proves `SucceededIsWhole` (`WholeArtifacts`) for any number of
commits, plugins, files, tasks and faults on every backend, under `Separate`: plugins
generate files of their own.  What the property leaves out is in the table below: copies
cut short on disk, and commits with several plugins in the git artifact repository.
`Kept` says that what a task has stored or skipped stays whole, `Claims` and `Sole` that
on disk one task at a time writes a file.  Every step of `ProxySpec` is a step of
`ArtifactsSpec` or leaves the artifacts alone, since `GenerateSdks` is `Run` on the
recorded versions.

Observed on the way, without a property: superadmins can read but not list private
modules; a reference by module id answers with no commit; a failing policy engine silently
drops a row from `ListModules`; a read at the branch head may show a commit that has no
row yet; overlapping uploads to the artifact repository fail with `ErrRefMoved` and their
jobs are not retried; a `go.mod` served before generation may differ from the archive's.

## Storage backends

Every storage method exists twice.  `parity_test.go` states the rule: it behaves the
same way on both, the error it returns and the rows it touches included.

`Tables.tla` has the spellings of ids and what `sqlutil` makes of them (hyphens go,
capitals stay), text that is no id, which PostgreSQL refuses (`Parsed`) and SQLite looks
for, the translation of errors (`connerr`) and the statements; `AccountStores.tla` and
`RegistryStores.tla` each method of eighteen tables as a pair of operators `Lite...` and
`Pg...`; `GitStores.tla` `git.Storage` on go-git (`Go...`) and on the Gitaly client
(`Gitaly...`, with `Server...` for what the server is known to do); `Caches.tla`
`MemoryCache` and `RedisCache`.  `StoreParity.tla` makes one sequence of calls on both and
compares.

* `store_parity`: every sequence of four writes on each of the twenty pairs, ids in lower
  case with or without hyphens, two of everything (1.9 million states).  Four writes are
  enough for a row to be made, changed, removed and asked for again beside another one.
  Every write answers alike, and every read in every state (`BackendsAgree`), one row
  looked for by what is no id included.  The pages of commits and modules are compared in
  order, with limits below, at and above the two bounds the code clamps to; these are 1
  and 2 instead of 50 and 100, so that two rows fill a page.  The latest commit is the
  last one written, also within one second (`LatestIsLastWritten`).  The cache keeps its
  caps and does not drop the window just hit, unless another call read the clock later and
  was faster (`HitIsCounted`): `MemoryCache.Allow` reads the clock before it takes its
  lock, so it is two steps (`AllowReadsClock`, `MemAllow`) and calls overlap.  On the same
  instance SQLite keeps ids in one spelling (`OneSpelling`).  A behaviour ends after its
  last call, so deadlock is not checked.

The backends do differ for ids in capitals, for text that is no id in lists and writes,
and between overlapping callers (see the table below).  In `CreateModuleByName` the last
matters: it deletes the repository after any error but
`ErrRefMoved` (`module.go:335-343`), which Gitaly does not answer to a caller that expects
no branch.

What is compared.  For the tables: lists other than those of commits and modules as sets;
modules created in one second in any order, for which the queries have no second key;
`ListVisibleModules` with the hyphenated id its caller has.  For git: callers that list
the existing paths at the head they expect, within their own scope; reads of repositories
that have a head, by known hashes; streams cut into chunks anywhere.  Renames, directories
given where a file is expected, files whose path is also a directory, commit messages and
binary files are left out, and so are the errors of `DeleteRepository`, which callers
ignore.  For the cache: no event falls exactly on the end of a window, where the two
differ by one comparison; keys that `MemoryCache` dropped at a cap, or that overlapping
calls hit, are not compared, and Redis does not fail.  All the limiter's windows are at
most ten minutes, well below the hour a window is kept.

## Start, migrations and shutdown

`Lifecycle.tla` models processes that share a port and a SQLite file: `Start` (validation
of the configuration), the migration runner statement by statement (`Inspect`,
`CreateTable`, `InspectUsers`, `StampLegacyBaseline`, `AppliedVersions`, `Migrate`,
`Migrated`), `VerifyGit`, `Wire`, `Run`, requests and SDK jobs (`Accept`, `Respond`,
`WorkerClaims`, `WorkerEnds`), and the way down (`Signal`, `BeginDrain`, `Drained`,
`GraceExpires`, `Close`, `Exit`).  `Crash` may come between any two steps.  `Migrate`
switches the enforcement of foreign keys off and on again, and the second may fail, which
the code ignores.

* `lifecycle`: two processes that start one after the other, two crashes, two signals,
  seven configurations, three kinds of database, four migrations: one that can be
  replayed without effect, one that can be replayed but changes something, two that
  cannot.  Version rows never name a migration the schema lacks, and bodies take effect
  once (`MigrationsInStep`); requests run on a sound database with open git storage
  (`RequestsSupported`; rows that enforcement would have refused exist only where it could
  not be restored) and are drained (`RequestsDrain`).  A cancelled process exits
  (`CancelledExits`), and crashes only delay serving (`ServesAgain`).

The fairness is that of the supervisor, the scheduler and the timer of the grace period:
a process that is down is started again (`restart: unless-stopped`) and takes its steps.
No request and no job is assumed to end, and no signal to come.

Further configuration: `MCLifecycleRace.cfg` (two processes open a new file at the same
time, and one takes the other's first table for a database from before the runner).  Also
noted: `config/backends.go:102-103` and `client.go:176-179`
name different defaults.

## Statements that are not kept

Each property below restates a comment of the repository, or what the code around it
means to ensure, and is violated.
The instance is that of the run's configuration with the changes named: the property in
place of the run's, no `SYMMETRY`, and `FairSpec` where it says so.

| configuration | property | changes | what happens |
|---|---|---|---|
| `MCPush` | `ErrorNamesLanded` | `MaxFaults = 0`, `Requests <- TwoModules` | a branch that moved before the second module is answered without the first module's commit |
| `MCPush` | `PendingReconciled` | `FairSpec`, one module, `Uploads = {u1}`, `Requests <- OneModule` | nothing reads the operation log after a crash |
| `MCPush` | `RecordedOnBranch` | `MaxFaults = 0`, one module, `OneModule` | a rollback resets the branch past a push recorded in between |
| `MCPush` | `FailedWriteUndone` | one module, `Uploads = {u1}`, `OneModule` | a transaction that cannot begin or commit leaves its commit on the branch |
| `MCCreateRace` | `DuplicateKeepsModule` | `Creates = {c1, c2}`, no crashes and no failures | requests with two branches: the loser deletes the winner's repository |
| `MCCreateRace` | `RetryIsPossible` | `Branches = {main}`, `Creates = {c1, c2}`, `MaxFailures = 0` | after a crash the name stays unusable |
| `MCSdkWorkers` | `EndIsRecorded` | one worker, job and slot, `MaxAttempts = 2`, `MaxFaults = 0`, `Spec` | a late task cannot write its outcome |
| `MCSdkWorkers` | `FailedRetried` | the same with `MaxLate = 0`, `FairSpec` | a failed job is not claimed again |
| `MCSdkWorkers` | `ShutdownDrains` | the same with `MaxFaults = 1`, `Spec` | the process ends under its tasks |
| `MCSdkWorkers` | `StaleRecovered` | the same with `MaxFaults = 2`, `FairSpec` | a row at the attempt limit stays running |
| `MCOrgConcurrent` | `LastAdminStays` | none | role and count of admins are read before the transaction: an overlapping call makes the admin who is removed the last one |
| `MCOrgConcurrent` | `CacheIsFresh` | none | bindings read before a change are cached after it |
| `MCOrgConcurrent` | `ManagersAreAdmins` | one handler | adding a member again with a lower role leaves the binding of the higher one |
| `MCOrgConcurrent` | `MembersCanAct` | one handler | a member is added with a role that the policy does not know |
| `MCOrgConcurrent` | `Manageable` | one handler | an organisation is left without anyone who may manage it |
| `MCAccount` | `SessionsDieWithPassword` | one handler | the revocation is a write of its own: when it fails the old sessions stay, and the caller is told to revoke them |
| `MCAccount` | `ResetTokenOnce` | `MaxAttempts = 2`, `MaxFaults = 0`, one reset and session | two overlapping resets with one token both change the password |
| `MCSecondFactor` | `BackupCodeSingleUse` | none | two verifications find one backup code unused |
| `MCSecondFactor` | `EnabledWasConfirmed` | none | an enrolment replaces the secret between the check of the code and `Enable` |
| `MCSecondFactor` | `EnrolmentRefused` | none | `totp.go:102` says an enrolment on an enabled factor is "refused outright"; the row is read before it is written, and a failed read counts as off |
| `MCStoreParity` | `LatestIsLastWritten` | `Overlap = {"commit"}`, `MaxCalls = 3` | on PostgreSQL `now()` is the start of the transaction: the commit recorded last may carry the earlier time |
| `MCStoreParity` | `SameAnswers` | `Overlap = {"git"}`, `MaxCalls = 3` | a caller that expects no branch sends Gitaly no old id; a path listed at another commit is an error there |
| `MCStoreParity` | `IdsCanonical` | none | two columns are answered in the stored spelling |
| `MCStoreParity` | `BackendsAgree` | `Forms = {"dash", "DASH"}` | `sqlutil.ID` leaves capitals as they are: SQLite misses the row that PostgreSQL finds |
| `MCStoreParity` | `BackendsAgree` | `Forms = {"dash", "text"}` | what is no id is NotFound on PostgreSQL and an empty list on SQLite |
| `MCStoreParity` | `BackendsAgree` | `Overlap = {"module"}` | `now()` is the start of the transaction: the pages of modules come in another order |
| `MCStoreParity` | `VisibleInAnySpelling` | none | PostgreSQL compares the owner's id as text, so the spelling without hyphens finds nothing |
| `MCStoreParity` | `HitAlwaysCounted` | none | a call that read the clock first and took the lock last stores the oldest time, and its window is the one dropped at the cap |
| `MCStoreParity` | `WindowIsWhole` | `windowTTL = 3` | the times of overlapping calls are out of order, and the binary search cuts off hits that are in the window |
| `MCLifecycle` | `LegacyNotReplayed` | one process, `Configs <- OneConfig`, `MaxFaults = 1`, `MaxSignals = 0` | a crash between the version table and its first rows |
| `MCLifecycle` | `EnforcementRestored` | one process, `MaxFaults = 1`, `MaxSignals = 0` | `sqlitemigrate.go:203-206` warns of leaving enforcement off; the error of the restore is dropped, and the process serves |
| `MCLifecycle` | `JobsHaveGit` | one process, `MaxFaults = 1`, `MaxSignals = 1` | nothing waits for the SDK worker before git storage is closed |
| `MCCredentials` | `StateSingleUse` | `MaxFaults = 0` | two callbacks read one state before either deletes it |
| `MCCredentials` | `ReplayRejected` | one handler | the deletion of the state fails, which is only logged, and a second callback with it goes on |
| `MCCredentials` | `LoginMethodKept` | `MaxFaults = 0` | two unlinks each count the other's provider |
| `MCReadPath` | `PublishChecked` | `Scenarios <- PublishScenarios` | a module made private between the read of `module.go:450` and the update becomes public unchecked |
| `MCReadPath` | `NoTruncatedArtifact` | `Scenarios <- DiskScenarios` | a file cut short on disk is skipped by the retry |
| `MCReadPath` | `ListedDownloads` | `Scenarios <- GitScenarios`, `"gitaly over go-git"` added to `Backends` | the git artifact backend never serves an archive: over Gitaly the repository path is split differently on reading, over go-git a branch name is taken for a hash |
| `MCReadPath` | `NoTruncatedArtifact` | `Scenarios <- GitalyScenarios` | with two Go plugins the second upload to the git artifact repository removes the files of the first |
| `MCReadPath` | `SdkIsImmutable` | none | an archive asked for between the jobs of two plugins lacks the second one's files, and is served with the same cache headers |
| `MCReadPath` | `ProxyAnswers404` | none | a token whose scopes do not cover a private module is answered 403, and 404 if there is no such module |

The configurations `MCPushStaleBase`, `MCLifecycleRace`, `MCCredentialsCap` and
`MCReadPathListing` hold four more.

## What is only model-checked

Liveness (`Answered`, `JobsEnd`, `RemovalTakesEffect`, `ServesAgain`, `CancelledExits`),
which is outside the prover; `GuessesBounded`, which counts the handlers between two
steps; `LastAdminStays` for serial calls; everything in `Credentials`, `ReadPath`,
`GoProxy`, `StoreParity` and `Lifecycle`; and the counterexamples.  The parity of the
stores is a statement about some three hundred operators and is best checked by
enumeration.

## What is not modelled

* The formats: descriptor building, lint and breaking-change rules, the digest's hash,
  code generation by plugins, the web interface, generated protobuf code.  They are
  functions of their input, without state; the models take their verdicts.
* Transport, logging, metrics, mail delivery, parsing of the configuration: input and
  output that no property is about.
* The profile and listing calls of the identity service and the handlers of notifications,
  which pass one row or one page of a store on; the stores are in `StoreParity`.
* PostgreSQL's isolation levels and the retries of serialization failures.  The models
  take a transaction as one step, which is what the one SQLite connection gives;
  the constant `Overlap` of `StoreParity` is the one place where transactions overlap.
* Two writers of one repository in different processes with go-git, which
  `operation.go:165-170` excludes, and the inside of Gitaly, Redis, S3 and the databases.
* The order among modules created in the same second, for which the queries have no
  second key: `ReadPath` takes the order of creation as total.
