# A verification project for authsvc

authsvc is an authentication service in Go over PostgreSQL, with client
libraries ("SDKs") in Go and Rust. This directory holds TLA+ modules that model
its core, TLC configurations that check them on small instances, and proofs that
TLAPS checks for every value of the constants. `PROJECT.json` maps every
definition to the source lines it stands for.

## 1. The system

| Part | State | Operations | Modelled in |
|---|---|---|---|
| refresh sessions, `internal/store/sessions.go` | table `sessions` | create, rotate, revoke a family or a user, list, prune | `SessionStore`, `RefreshTokens` |
| one-time codes, `internal/store/otp.go` | table `otp_codes` | issue, consume a typed code, consume an emailed token, prune | `OneTimeCodes` |
| sign-in through a provider, `internal/httpapi/oauth.go`, `internal/store/oauth.go` | tables `oauth_flows`, `auth_codes` | start, link start, callback, token exchange | `OAuthLogin` |
| account linking, `internal/linking`, `internal/store/identities.go` | tables `users`, `identities` | resolve a provider account to a user, link on request | `OAuthLogin` |
| handlers and `requireUser`, `internal/httpapi/{auth,otp,sessions,middleware,api}.go` | the locals of a request between two database calls | register, login, reset, OTP verify, refresh, logout, logout-all, list, delete | `AuthApi` |
| signing keys, `internal/token` | the key in use and the next one, per deployment | sign, verify, publish the JWKS; rotation by redeploying | `KeyCache` |
| the Go SDK's key cache and middleware, `sdk/go/keys.go`, `middleware.go` | cached key set, its age, the refresh lock | warm up, ticker, refresh on request, failover, close; verify a token | `KeyCache` |
| the Go SDK's client, `sdk/go/client.go`, `callback.go` | none | login, exchange, refresh: a POST that is sent again to a fallback address | `SdkClient` |
| rate limiter, `internal/store/ratelimit.go`, `limit` | table `rate_limits` | allow, prune | `RateLimit` |
| code requests, `internal/httpapi/{otp,auth}.go` | the locals of a request | OTP request, forgot password, OTP guesses, behind the limiter | `CodeRequests` |
| providers, `internal/oauth` | none | the profile made of Google's or GitHub's answer | `OAuthLogin` |
| the processes, `cmd/authsvc`, `internal/store/migrate.go` | advisory lock, connection pool, background goroutines | migrate, serve, prune, drain and stop | `Deployment` |
| Rust SDK, `sdk/rust` | a key cache like the Go one | | not modelled |
| mail transports, password hashing, configuration, admin, legal pages, key generator | none, or one insert | | not modelled |

How the parts interact. Every request is a goroutine that calls the store; all
shared state is in PostgreSQL, reached with READ COMMITTED transactions, so two
requests meet in row locks, statement snapshots and unique constraints. Signing
in, by whatever means, ends in `issueSession`, which inserts a session row;
refreshing rotates it. Access tokens are verified by applications without a call
to the service, from the keys their SDK has cached; the service's own endpoints
also look at the session row. `cmd/authsvc` prunes the tables in the background.
An application reaches the service at two addresses over one database; its SDK
sends a call that got no answer from the first to the second.

What is hard here, and hard to test: two transactions in an order nobody wrote a
test for (rotation against rotation, revocation or pruning; issue against issue;
callback against callback); a multi-row UPDATE whose snapshot misses a row that
commits later; state read in one statement and used in the next; a request that
stops half way; a state value, code or token presented twice; a key set that is
stale while keys are promoted at one address before the other; a slow fetch that
ends after a newer one; a call sent again although the first one is done, or
still on its way; a window of the rate limiter that ends while requests wait to
be counted in it; a migration lock that dies with its connection; a process that
is told to stop while a handler hangs. `hazards` in `PROJECT.json` lists each at its line with
the properties that cover it.

What makes each part correct, in a sentence: a refresh token is spent once and
its replay is noticed; a code is redeemed once within its budget of guesses; a
provider account leads to its owner's session, once, for the client that asked;
a handler tells its caller nothing that is untrue and touches only the caller's
sessions; an application always knows the key in use and forgets retired ones; a
call that is sent twice takes effect as one, or is seen as a replay; no more gets
through the limiter than it allows; a server runs on a complete schema, stops
when told to, and the tables go on being pruned.

## 2. The modules

**`RefreshTokens`** is the abstract specification of the session table: a token is
live while it is known, neither spent nor revoked; refreshing takes a live token
and puts exactly one successor in its place, in one step.

**`SessionStore`** is `sessions.go` as it behaves over PostgreSQL. Each call is
split where another transaction can come in between: a `SELECT ... FOR UPDATE`
waits for its row and reads the latest committed version; a many-row UPDATE or
DELETE fixes its rows first (`snap`), then locks them one at a time in any order
and tests its WHERE clause again (`StatementVisit`); writes show at COMMIT. `pc`, `key`,
`child`, `snap` and `locks` are a call's locals and its transaction; `scope` is
history: what the call promises to revoke, fixed when it begins. `Abort` is an
error, a cancelled context or a crash of the process anywhere in a call.
`ImplementsRefreshTokens` is the refinement (`INSTANCE RefreshTokens WITH ...`).

**`OneTimeCodes`** is `otp.go`, in the same style. A subject is an (identifier,
purpose) pair. `attempts` is read into a local and written back, as the code
does; `wrong` and `redeemed` are history.

**`OAuthLogin`** composes the OAuth handlers, `linking.Resolve`/`LinkToUser` and
the four tables they use, one step per statement. What a provider answers is any
userinfo of Google and any list of addresses of GitHub, or none; `Exchange` makes
the profile of it that `google.go`, `github.go` and `pickEmail` make, and
`attested` remembers what the provider really said of the address. The unique
constraints decide in the inserting step. `registered` is history: the users that
signed up in another way and need no identity.

**`AuthApi`** composes the other handlers with `RefreshTokens` (the table the
proof shows `SessionStore` to implement), one step per database call. A
revocation is split into its snapshot and its commit, because that split is what
a caller can notice. `Fail` ends a request at any of its calls.

**`KeyCache`** numbers the signing keys in the order they come into use: a
deployment with key *n* publishes *n* and *n + 1*. Two addresses are promoted one
after the other; `Warm`, `Refresh`, `Answered`, `Refused`, `FailOver`, `Store` and
`FetchError` are the steps of `keys.go`; ages are measured as `time.Since` does.
`validFor` is the time the last token of each key still has; `Verify` and
`RequireUser` are the middleware that reads the cache.

**`SdkClient`** composes the SDK's calls with the handlers that serve them. A
request is a call and the host it was sent to; it has a handler of its own (`srv`)
that goes on, step by step, when the call has given up (`NoAnswer`) and failed
over, and may begin only then. Sessions are the abstract ones of `RefreshTokens`,
with revocation split into snapshot and commit; `SdkClientProofs` shows that the
handlers change them only as that specification allows, as `AuthApiProofs` does for
`AuthApi`.

**`RateLimit`** is `Allow` and `limit`: the clock is read, then the upsert counts;
in between time passes (`Delay` at most), windows end and `PruneRateLimits` runs.
An error leaves the request counted or not. `passed` is history, by the window a
request came in. **`CodeRequests`** extends it with the handlers that mint a code,
store it and mail it, and with the guesses at login codes.

**`Deployment`** has the migrators, with the advisory lock and goose as `Migrate`
uses them, and the server: requests with and without a connection, the detached
verification mail, the pruning goroutine, the signal, `Shutdown` with its
deadline, the pool's `Close`, a failing listener and a crash. `PruneOAuth` is two
statements over two tables; an error of the first skips the second
(`PruneOAuthError`).

**`MC*`** add the symmetry sets and constant definitions that the configurations
need; **`*Proofs`** hold the lemmas and theorems.

Abstractions that matter when reading them:

- A token or code stands for the row that holds its hash. Two rows with equal
  six-digit codes are left out.
- Time is a bounded natural number; TTLs and grace periods are constants.
- Pruning `otp_codes` is one DELETE whose transaction holds nothing else, so it is
  one step that waits until none of its rows is locked. `PruneOAuth` deletes rows
  that `ConsumeOAuthFlow` and `ConsumeAuthCode` refuse already: `OAuthLogin` has no
  step for it, `Deployment` has when its statements run.
- In `OAuthLogin` the read of an existing identity and of its user are one step;
  whether the user is disabled is remembered from that read.
- In `AuthApi` the right password and a redeemed code are inputs (`OneTimeCodes`
  is about which codes are redeemed), whether an address is verified is left open,
  and a request refused before it has written anything is a stuttering step.
  Disabling an account has no endpoint: it is the operator's UPDATE. A sign-in's
  INSERT and the signing that follows are one step, which may store the row and hand
  out nothing. The refresh handler's reads of the user and of the client and its
  signing are one step, which `Fail` may take instead.
- In `KeyCache` the next key is always set, as the repository's README asks, and an
  application does not set `NoMaxStale`, with which it would trust a set of any age.
  Answers come from the service: a cache in between that keeps the key set for its
  `max-age` would add that age to `JWKSMaxStale`.
- In `SdkClient` a call is made once and there is no clock: an expired token is
  refused like an unknown one.
- In `RateLimit` all buckets have one limit (the handlers use 3 and 5 an hour), and
  the processes' clocks agree. Per-IP buckets may refuse any request; a caller with
  many addresses does not meet them, so `CodeRequests` leaves them out.
- In `CodeRequests` `ConsumeCode` is one step, since `OneTimeCodes` has its
  interleavings, and a reset link belongs to an address where the code says user id.
- In `Deployment` goose, database/sql, net/http and pgxpool do what their
  documentation says and `main.go` and `migrate.go` rely on. The server is one
  process (`numReplicas` is 1); what overlapping servers do to the tables is in the
  modules of those tables. What a pruning statement deletes is there too. After the
  listener has failed the pruning goroutine gets no further step, although the code
  leaves it running while the process exits: its pool is being closed.
- Claims, signatures, hashes and wire formats are left out.

## 3. The runs

A run that is expected to pass checks the listed properties exhaustively for its
bounds. Every property also has a mutant in `PROJECT.json`: a faulty form of one
definition (a dropped lock, guard or ownership test, a wrong limit) under which
TLC finds it violated.

| Run | Bounds | Shows |
|---|---|---|
| `sessions_safety` | 2 workers, 3 rows, 1 user, clock 0..3, TTL 1, grace 1 | `SingleRotation`, `OneActivePerFamily`, `RevocationCovers`, `ReplayDetected`, `ReplayWindow`, the refinement |
| `codes_safety` | 2 workers, 3 rows, a typed and an emailed subject, 2 attempts | `RedeemedOnce`, `GuessBudget`, `IssueSupersedes` |
| `oauth_safety` | 2 requests, 2 flows, 2 codes, 2 users, 2 providers with an account each, 2 clients, 2 addresses | one user per address (`TypeOK`), `NoOrphanedAccount`, `OneSessionPerFlow`, `SessionOfIdentityOwner`, `SessionOfFlowClient`, `AutoLinkNeedsBothVerified` |
| `api_safety` | 2 requests, 2 accounts, 2 sessions | `LateIsRefused`, `AnsweredIsRevoked`, `OwnSessionsOnly`, `ResetEndsSessions` |
| `keys` | 2 goroutines, 2 rotations, clock 0..6, all intervals 1, a rotation every 3 | `SeamlessRotation`, `TrustBound`, `NoOlderAnswer`, `CatchesUp` |
| `sdk_calls` | 2 calls at 2 hosts, 1 account, 1 code, 1 session from before | `OneSessionPerCode`, `LostOnlyByResend`, `EveryCallReturns` |
| `limits` | 2 requests at a time, 3 in all, 2 clients, 1 address, 2 buckets, limit 1, window 2, delay 1, prune after 3, clock 0..4, 2 codes, 2 attempts | `WindowBudget`, `MailPerWindow`, `GuessesPerWindow` |
| `deploy` | 2 migrators, 2 migrations, 1 handler | `CollideOnlyAfterLoss`, `ServesMigratedSchema`, `StopsOnSignal`, `KeepsPruning` |
| `sessions_family`, `codes_newest`, `keys_rotation`, `api_immediate` | as small as shows the case | the findings below |

Why these bounds are enough. Two workers are a call and one that overtakes it;
every hazard listed for the stores is between two transactions. Three rows are a
root, its child and either a second child or a second family, so replay of a
grandparent, a lost child and a deadlock over two rows all occur; with two
attempts a code has a first, a last and a forbidden guess. Two flows at two
providers let a callback be answered at the wrong one, and two users let an
account be claimed by another. With two sessions an account has a session and
its successor, or two accounts one each. With intervals of 1, a clock of 6 holds
two rotations and a cache that goes stale after each. Two SDK calls are a refresh
and a second use of what it used or returned; each has two requests, so four
handlers overlap. A limit of 1 is exceeded by a second request of three, and a
clock of 4 holds two windows of 2, a request counted in the one after it came,
and a prune that reaches the first. Two migrations leave a migrator between two
transactions, where it can lose its lock to the other. The theorems of section 5
remove the bounds for every safety property in the table; the liveness properties
have these bounds only.
Symmetry is used in safety runs only, over sets whose members no definition
tells apart.

`CHECK_DEADLOCK FALSE` stands where a behaviour may end because its bounded ids
or clock are used up.

Fairness. `KeyCache`: a fetch that has
begun ends, because its context has a timeout; `New` warms the cache; the ticker
fires until `Close`. The service being reachable is a premise of `CatchesUp`, not
fairness. `SdkClient`: the client that `New` makes has a timeout of 10 s, which ends
every attempt; the service owes nothing. An application that brings an `HTTPClient`
without a timeout gives `EveryCallReturns` up. `Deployment`: statements end, timers fire, and the platform starts a
server where one has died or was stopped for the next release; handlers need not
return. Each pruning statement has strong fairness while the server serves: of the
servers that are started for ever, again and again one lives to its next
statement. A platform that kills every server before its first statement has
ended would prune nothing, and no code in the process could change that. Nor does
the first statement of `PruneOAuth` fail each and every time, which would keep the
second from running.

That store calls return is not a run of its own. The code's share of it is that no
path leaves a row locked, which `TypeOK` of `SessionStore` and `OneTimeCodes` says;
the rest (waiters are served, a circle of them is broken) is PostgreSQL's.

## 4. Findings

Each is a violation run; the quoted line and the code are in `PROJECT.json`.

- `sessions_family`: `Rotate` says of a reused token that "the entire family is
  revoked". A rotation of the family's live token that commits after the revoking
  UPDATE took its snapshot leaves a live child. `RevocationCovers` states what does
  hold: every row that was committed when the call began.
- `codes_newest`: `IssueCode` says that "only the newest one can be redeemed". Of two
  overlapping calls for one subject the UPDATE of each misses the INSERT of the
  other: two codes are outstanding, both links work, and the older login code can be
  redeemed once the newer is gone. `IssueSupersedes` states what does hold: every code
  that was stored when the call began is dead when it returns.
- `keys_rotation`: rotation is called seamless, with "no flag day". Promoting the
  next key takes the old one out of the published set while tokens it signed are
  still alive; they are refused. `SeamlessRotation` states what does hold: tokens
  signed after the promotion are accepted at once.
- `api_immediate`: the repository's README says that logout and `disabled_at` take
  effect immediately at the service's own endpoints. `requireUser` does not read
  `disabled_at`, and `handleLogout` answers 204 without revoking anything when its
  lookup fails. The trace shows the former; the latter breaks the same property.
  `LateIsRefused` and `AnsweredIsRevoked` state what does hold: no new
  tokens for a disabled account, and a revocation that was carried out covers the
  family.

Limits of the code that the models contain and no run is spent on:

- A reset that stops between `SetPasswordHash` and `RevokeAllForUser` has used up its
  token and leaves the old sessions live; the user has to ask for another one.
  `ResetEndsSessions` excepts such a reset by name (`torn`).
- When a disabled user refreshes and `RevokeAllForUser` fails, its error is dropped
  and the child row stays live. Nobody was given its token.
- Two newcomers whose provider reports no address collide on the unique empty
  address; the second is refused.
- A refresh that committed at the primary and is sent again to the fallback is a
  reuse: the family is revoked and the user signs in again, although nobody copied
  a token. The same follows from an error after `Rotate`, answered 500.
  `LostOnlyByResend` bounds the loss: nothing else ends a session unasked.
- A migrator whose connection breaks between two transactions goes on without the
  advisory lock; `CollideOnlyAfterLoss` says that migrations meet in no other way.
- The detached verification mail may be cut off by the end of the process between
  storing its token and sending it.

## 5. What is proved

Everything below is `Spec => [](...)`, or an action property or refinement of
`Spec`, for every value of the constants that meets the module's named
assumption. Each follows from an inductive invariant `IndInv` whose conjuncts have
a lemma each, with one step per action.

**`SessionStoreProofs`** (from `ConstantsAssumption`: null is no id, times are
natural numbers): `TypeCorrect`, `RotatesOnce`, `OneActive`, `RevocationReaches`,
`ReplayIsDetected`, `RowsOutliveGrace`, `Refinement`. `SingleRotation` is not
inductive alone: a commit adds a child, and nothing in it says the parent had
none. `LockInv` (a row is locked by one transaction) and `RotationInv` (between
its SELECT and its COMMIT a rotation holds a row that is still live, and a child
nobody else has) supply that; `LineageInv` says a parent is spent and a family has
one unspent row. `ScopeInv` carries what a call promises from its beginning to its
outcome, and `StatementInv` what its rows have in common, which the refinement
needs to show that a revocation stays within a family or a user.

**`OneTimeCodesProofs`** (from `CodeConstants`): `TypeCorrect`, `SingleUse`,
`BoundedGuesses`, `OldCodesDie`, `LimitBurns`. `HeldInv` says that a transaction
about to redeem or to charge a guess holds an outstanding row and has read its
current `attempts`; `LedgerInv` ties the columns to what happened.

**`KeyCacheProofs`** (from `KeyConstants`, and `RotationPolicy`: keys are promoted
further apart than `JWKSMaxStale` plus one fetch, which is the operator's practice
and not enforced by the code): `TypeCorrect`, `RotationIsSeamless`,
`TrustIsBounded`, `AnswersAdvance`. `FlightInv` says one fetch at most is under
way; `ClockInv` that what the cache holds was served before that fetch began;
`LagInv` that one address is a promotion behind at most; `AnswerInv` that no address is two
promotions ahead of a cached or arriving set unless `RotateEvery` has passed since
that set was served, and that its keys were published then. This is what
`SeamlessRotation` and `TrustBound` need across a promotion: a set that lost sight
of the newest key is older than `JWKSMaxStale` and not used.

**`AuthApiProofs`** (from `ApiConstants`: null is no id): `TypeCorrect`,
`LateRefused`, `Revoked`, `ResetEnds`, `OwnOnly`, and `UsesTokens`, which says that
the handlers implement `RefreshTokens` on the session table, so that what
`Refinement` shows of `SessionStore` carries over to the table behind them.
`UserInv` says whose account and session a request has in hand at each of its
calls, `OwnerInv` that a family, and whatever a revoking statement has seen, is one
account's, and `LateInv` that a look at `disabled_at` stays valid because nothing
enables an account again. `AnsweredIsRevoked` needs `ScopeInv`: what was promised at
the beginning is a subset of what the statement will see, then of its snapshot,
then of the revoked rows, also when rows are added in between.
`ResetEndsSessions` needs `DoomInv`: a session from before a reset that is still
live is in the snapshot of a reset under way, or that reset has none yet.

**`OAuthLoginProofs`** (from `LoginConstants`): `TypeCorrect`, `OneSession`,
`IdentityOwner`, `FlowClient`, `BothVerified`, `NoOrphan`. `FlowInv` says that a consumed flow is
one callback's and has no code yet; `CodeInv` that a code is its flow's only one,
for its client, and for the user who owns the account that came back, which holds
because an identity once stored is never given away; `RedeemInv` that a consumed
code is one exchange's and has bought nothing. `ResolveInv` and `VouchInv` carry
what `Resolve` has read from one statement to the next: the user it found still
exists and has still verified that address when the identity is inserted.
`NoOrphanedAccount` is preserved because a new user and its identity come in one
step and no identity is ever removed (`OrphanStep`).

**`CodeRequestsProofs`** (from `LimiterConstants`, `RequestConstants`, and
`PruneAssumption`: a window and the longest wait for an upsert fit into the age at
which rows are pruned): `Budget` for the limiter alone; `UsesLimiter`, that the
handlers implement it; then `RequestBudget`, `TypeCorrect`, `CodeBudget`,
`MailBudget`, `CodeGuesses`, `WindowGuesses`. `WindowBudget` is not inductive: a
prune takes away the count and not the requests it let through. `BudgetInv` says
that a row which may not be pruned yet counts all of them, and `DelayInv` that
whoever still waits for its upsert has such a row; this is where
`PruneAssumption` is used. `CountInv` bounds a row by the requests made, those that
wait included. `MadeInv` says that codes made and requests let through that have
not made theirs are no more than were let through, and `GuessInv` that each guess is
counted in `attempts` or has consumed the code. `GuessesPerWindow` then is a sum of
at most `Limit` numbers of at most `MaxOTPAttempts`: `SumRecursion` shows that the
community module's fold has a value on every finite set, and `SumBound` bounds it,
both by a smallest counterexample (`SmallestSubset`, `HasLeast`) in place of an
induction rule.

**`SdkClientProofs`** (from `SdkConstants`): `TypeCorrect`, `OneSession`,
`LostByResend`, and `UsesTokens`, that requests at two hosts, resent, late or given
up, change the sessions only by steps of `RefreshTokens`. `CallInv` says which
requests of a call may be out and that it presents something the app has;
`ServeInv` that a handler which is about to store a session has none. A redeemed
code is claimed by one request (`CodeInv`). `SpentInv` names, for every spent
token, a request that carried it and has a session; a request that meets a spent
token has none, so the token was carried by two (`ReuseInv`), and whatever is
revoked was ended by a logout, a disabled account, or such an answer
(`RevokedInv`).

**`DeploymentProofs`** (from `DeployConstants`): `TypeCorrect`, `Serialised`,
`Migrated`, `InOrder`. `LockInv` says that as long as no connection broke between
two transactions goose runs under the advisory lock only; `VersionInv` that a
migrator which ends well has seen the last migration, with or without the lock.
`InOrder` needs no lock: a migration that is there already fails when applied again.

Besides types, and null being no id, constants are assumed to meet `RotationPolicy` and
`PruneAssumption` only. The bounds of the models (`MaxTime`, `MaxAsks`, `MaxCodes` and
the sets of ids) are constants like any other: what is proved holds for all of
them.

Only model-checked: the liveness properties `EveryCallReturns`, `CatchesUp`,
`StopsOnSignal` and `KeepsPruning`, because fairness and ENABLED are out of the
prover's reach; and the four violations, which are counterexamples.

## 6. What is not modelled, and why

- The Rust SDK: its cache takes the steps of the Go one (its timeout is per address,
  so `FetchTimeout` is twice that), and its client those of `SdkClient`.
- Mail transports, password hashing, configuration, JSON, legal pages, the
  administrator's inserts, the key generator: pure functions, I/O or single
  statements, without behaviour over time.
- The handler that verifies an address is `ConsumeToken` in `OneTimeCodes` followed by
  `MarkEmailVerified` in `OAuthLogin`.
- The SDK's error pages and `RequireRole`: texts and a comparison of strings.

## 7. Plan

1. Done: the session table and its abstract specification, the one-time codes,
   provider sign-in and linking, the handlers, the key cache, the SDK's client, the
   limiter and the handlers behind it, the processes; every safety property of the
   passing runs proved.
2. `CodeRequests` takes `ConsumeCode` as one step, on the strength of
   `OneTimeCodes`. That could be a theorem: an abstract specification of the code
   table, as `RefreshTokens` is of the sessions, which `OneTimeCodes` implements.
3. Action properties from the invariants there are: `OneTimeCodes` (a code that is
   consumed stays so and its attempts never fall), `OAuthLogin` (an identity is never
   given away), `SdkClient` (a call that returned sends nothing more).
