# Formal model of the Fairchild member portal backend

TLA+ specifications of `fairchild_be`, the Go/gin backend of a cooperative's
member portal, with TLC configurations that model-check them and proofs that
TLAPS checks. The reference is the code: every definition names the lines it
models in `PROJECT.json` (`map`).

How to run, from this directory:

    tlc -workers 2 -config MCOtpChallenge.cfg MCOtpChallenge
    tlapm OtpChallengeProofs.tla

## 1. The system

One stateless process (more may run behind a proxy) serves HTTP; gin runs every
request in a goroutine of its own. Nearly all shared state is in MySQL. Services
issue single autocommitted statements; only `CreateUser`, the social-account
repository and the member backfill open transactions. So **the statement is the
unit of atomicity**, and the statements of concurrent requests interleave in any
order. A row that was read is a snapshot from then on. Many writes are "fire and
forget": their error is dropped and the request goes on.

| Component | State | Operations | Correct when |
|---|---|---|---|
| OTP challenges (`otp_repository.go`, `auth_service.go`, `register_service.go`, `forgot_password_service.go`) | `otp_verifications`: status, attempts, verified, consumed, expiry | send x3, verify x3, redeem for login, registration, Young Saver, reset | a challenge is redeemed once, dies with its last permitted attempt, buys only what its purpose allows |
| Login lockout (`login_audit_repository.go`, `auth_service.go`) | failed rows of `login_audit_logs` in the last 15 minutes | count, gate, log; development unlock | guesses per member id and per IP are bounded; a lockout ends |
| Account lock record (`locked_account_repository.go`, `auth_service.go`) | `locked_member_accounts`, email goroutines | find, insert, refresh, notify, unlock | one row and one email per episode; `notified_at` is truthful |
| Refresh sessions (`session_repository.go`, `auth_service.go`) | `auth_sessions` | issue, exchange, logout, list | a refresh token is single-use; revoking ends it |
| Accounts (`user_repository.go`) | `users` with `user_account_cred` (one transaction) | register, edit the profile | email and member id unique; every user row has its credential row; a refusal names the right reason |
| Passwords and settings (`auth_service.go`, `user_repository.go`) | password hash, address, notification preference | change, reset, save, read | a replaced password is worth nothing; settings are saved as a pair |
| Social and SSO sign-in (`social_account_repository.go`) | `user_social_accounts` (transaction, FOR UPDATE) | find, or link by email; never create | an identity stays with the member it was linked to |
| Per-IP rate limiter (`ip_rate_limiter.go`) | in-memory limiters under a mutex, sweeper goroutine | fetch, allow, sweep | each address has one token bucket; the map does not grow for good |
| Member authentication (`require_member_auth.go`, `token_service.go`) | none (JWT) | parse, look up the ledger account | only the caller's own account is read |
| Ledger reads (balance, loans, ar, amortization, soa, activity, health, transactions, profile) | none (read-only SQL on the core system's tables) | reports | reports that read the same postings through different queries agree |
| Legacy backfills (`cmd/migrate_legacy_*`) | `users`, report files | run, re-run, beside the portal | no member is lost; what is there is skipped |
| Claim requests, contact, newsletter | inserts | submit | nothing depends on them |
| SMS and mail clients | none | send | outcome reported; timeouts |
| Wiring, configuration, schema | none | start-up | - |

How they interact: login checks the lockout gate, then the password, then opens
an OTP challenge; verifying it passes the gate again, consumes the challenge,
and issues a session. Registration verifies a challenge, creates the account,
consumes the challenge and issues a session; a reset consumes the challenge and
then sets the password. A refused login hands its count to the lock record,
which starts an email goroutine that outlives the request. Registrations,
profile edits, social sign-ins and the member backfill, a process of its own,
meet in the unique keys of the `users` table. Every report first looks up the
ledger account of the caller. The rate limiter stands in front of the auth, SSO
and contact routes and shares nothing with them.

What is hard here: read-then-write across statements (challenge, failure count,
lock row, session), statements that drop their errors, crashes between two
statements, the SMS timeout, goroutines that outlive their request, lookups that
a unique key has to back up, gap locks that make two sign-ins wait for each
other, a limiter used after the sweeper may have dropped it, date boundaries on
which two queries must agree. The complete list, at the line where each bites, is `hazards` in `PROJECT.json`.

## 2. Modules

| Module | Models | Source |
|---|---|---|
| `OneTimePass` | abstract: a pass is issued, perhaps proved, ends spent or void, and what it buys is handed out at most once, only once spent | contract of the OTP endpoints |
| `OtpChallenge` | the challenge table and every request on it | OTP repository and the three services |
| `OtpChallengeProofs` | theorems about `OtpChallenge` | - |
| `LoginLockout` | the audit window and the gate | audit repository, `LoginService`, `VerifyLoginOTPService`, `enforceLoginLockout` |
| `LoginLockoutProofs` | theorems about `LoginLockout` | - |
| `AccountLock` | lock rows and email goroutines | `lockMemberAccount`, lock repository |
| `AccountLockProofs` | theorems about `AccountLock` | - |
| `RefreshSession` | session rows and their exchange | session repository, `RefreshTokenService`, `LogoutService`, `issueTokens` |
| `RefreshSessionProofs` | theorems about `RefreshSession` | - |
| `TokenBucket` | abstract: one token bucket per address | contract of the limiter |
| `IPRateLimiter` | the visitor map, `Allow`, the sweeper, time | `ip_rate_limiter.go` |
| `IPRateLimiterProofs` | theorems about `IPRateLimiter` | - |
| `UserTable` | `users` with its unique keys and uncommitted rows | schema, user repository |
| `Accounts` | registration and profile edits | `RegisterService`, `UpdateProfileService`, user repository |
| `SocialLink` | the linking transaction of a verified identity | social-account repository, social and SSO sign-in |
| `LegacyMembers` | the member backfill | `cmd/migrate_legacy_members` |
| `MemberDirectory` | abstract: accounts that appear whole under free keys, and identities linked once | what readers of `users` and of the links may rely on |
| `Portal` | the composition of these three over `UserTable`, with staff and crashes | - |
| `PortalProofs` | theorems about `Portal` | - |
| `Credentials` | passwords, settings, the credential backfill | `auth_service.go`, `forgot_password_service.go`, `cmd/migrate_legacy_credentials` |
| `CredentialsProofs` | theorems about `Credentials` | - |
| `Calendar` | `CURDATE()` and month arithmetic | - |
| `LoanLedger` | `/loans`, `/ar`, `/amortization` over one schedule | their repositories |
| `DepositLedger` | `/balance`, `/activity`, `/health`, `/transactions` over one account | their repositories |
| `Statements` | `/soa` behind the member authentication | SOA and account repositories, middleware |
| `MemberLedger` | the composition of the three ledger modules over `Calendar` | - |
| `MemberLedgerProofs` | theorems about `MemberLedger`, and lemmas on sums | - |
| `MC*` | constants and symmetry for TLC | - |

Conventions. Each SQL statement (with the check of its own result) is one
action; what a handler computes between two statements touches nothing shared
and belongs to the statement before it or after it. A request is a record with
its stage and what it has read. A request that is refused on its first read
changes nothing and is a stuttering step. Definitions commented "Seeded fault"
are faulty variants of the definition that follows them; nothing uses them, and
`mutants` in `PROJECT.json` names the property each one breaks when substituted.

### OtpChallenge

`otp[c]` is the row of challenge `c` (status `absent` before the insert), and
`req[r]` the progress of a request: sending (`SendLoginOTP`, `SendRegisterOTP`,
`ForgotPassword`, then `SendSMS`, then `MarkOTPSent` or `MarkOTPSendFailed`),
verifying (`BeginVerify`, then `RejectCode`, `AcceptCode` or `AcceptLoginCode`),
redeeming (`BeginRedeem`, `CreateAccount`, `ConsumeRedeemed`, `Grant`). `seen` is
the attempt count read with the row, against which the limit is compared later.
`out[c]` records what came of the challenge outside its row: whether a client was
told it is verified, accounts, token pairs and password resets; its counters
saturate at 2. Whether a submitted code is right is a nondeterministic choice.
`Abort` is any error return between two statements, `Crash` loses all requests.
Reading a verified row does not look at its expiry, as in the code. The email
copies of a code change no state and are left out.

### LoginLockout

`log` holds the failed audit rows inside the window in a fixed set of row slots
(`AuditRows`), and `req` each request's stage, origin (member id and IP) and count.
`CountMember` and `CountIPAndGate` are the two SELECTs, the second with the
decision of `enforceLoginLockout`. Both login steps use the same gate, so one
set of actions stands for both. `RecordLoginAttempt` logs a failure;
`LeaveUnrecorded` is a success, an error, or a failed insert (its error is
dropped). Rows leave the window in any order, which includes the real one.

### AccountLock

`lock` is the table in insertion order, `mails` the goroutines, `req` the call
each refused request makes. `FindNone`/`FindActive` are the lookup,
`CreateLock` the insert and the start of the goroutine, `UpdateAttempts` the
refresh. `sent` in a row is not a column: it records that the email went out. It
is a module of its own because the rows decide nothing about later logins; its
only input is the count `LoginLockout` reports (`TripIsJustified` bounds it).

### RefreshSession

`session[t]` is the row of token `t` (the raw token and its SHA-256 are one to
one) with the token it was exchanged for in `from`, which is not a column.
`FindSession`, `RevokePresented` and `IssueTokens` are the statements of a
refresh; `SignIn` stands for every flow that ends in `issueTokens`. Any minted
token may be presented by any request.

### IPRateLimiter

`visitors[ip]` is the map entry, its `idle` the ticks since `lastSeen`;
`level[l]` is what limiter object `l` holds, in ticks, so a token is worth
`Refill`; `req[r]` is a request between `getLimiter` (`GetLimiter`,
`NewVisitor`) and `Allow` (`Allow`, `Reject`), with the limiter it fetched and how
long ago. Limiters that nothing reaches may be reused, as the heap does.
`CleanupVisitors` runs every `CleanupInterval` ticks. The library computes a
level lazily; the model refills at each `Tick`, which gives the same levels.
`TimeoutCoversRefill` relates the constants: in the code the timeout is ten
minutes, and a bucket fills in at most 30 seconds. `Patience` bounds how long a
request may be held up between its two adjacent statements; without such a
bound a request could spend a token of a limiter dropped long ago.

### UserTable, Accounts, SocialLink, LegacyMembers, Portal

A row of `users` carries the columns that decide something, whether its
`user_account_cred` row exists, and in `tx` the transaction that has inserted it
and not committed. Plain reads (`Findable`) see committed rows only; the unique
keys (`EmailRivals`, `MemberRivals`) also see deleted and uncommitted ones, and the
result of a conflicting insert depends on how the transactions that own the latter
end (`Undecided`). NULL emails never collide.

Of InnoDB's locks the modules keep those that decide what a statement returns:
uncommitted keys, the row of a link and the gap of a missing one. The others only
delay a statement and are left out: the shared key locks of inserts that collide,
the shared lock on the parent `users` row that the insert of a link takes for
`fk_social_user`, the row lock of an edit that waits for a key. A delayed statement
is one that has not been taken yet, so leaving them out removes no behaviour; where
delays form a cycle, InnoDB fails one of the statements, and `FailRequest`,
`FailSignIn` and `FailLegacy` may fail any statement at any time. For the same
reason the modules claim nothing about who waits for whom or how deadlocks come
about, only that every ending of a transaction takes its locks with it
(`NoLockLeftBehind`).

`Accounts` follows a registration through `FindEmail`, `FindMember`,
`InsertUser`, `InsertCred` and `Commit`, and a profile edit through
`FindOtherEmail`, `UpdateUserProfile` and `Reread`. What a registration does with
its challenge is `OtpChallenge`'s. A commit whose acknowledgement is lost is a
`failed` answer with the row in place.

`SocialLink` is the transaction of a sign-in. `FindLinked` locks the row of a
linked identity; `FindUnlinked` locks the gap, which several may hold;
`InsertLink` waits until nobody else does, `DeadlockVictim` is InnoDB's way out of
that wait.
The first plain read of the transaction fixes its snapshot, kept in `suspended`
and `snapshot`.

`LegacyMembers` is the command, row by row: `LookUp`, `InsertLegacy`, the second
attempt `InsertWithoutEmail`, `PairLegacy`, `CommitLegacy`, at the end
`WriteReport`; `FailLegacy` is a failed transaction, `Die` a fatal error or a
kill. `Portal` interleaves all of them with staff (`StaffUpdate`, external: no
code in `src/` suspends or deletes) and a crash of the portal, which the backfill
survives. Answers touch nothing shared and are delivered before anything else
happens (`AllAnswered`), which only removes interleavings that cannot matter.
`AtWork` are the actors whose request, sign-in or run is not over.

`MemberDirectory` is what all of this amounts to for a reader. An account enrols
whole, with its credentials, under a member id and an address nobody else has or
had; it changes its address to a free one, is suspended or marked deleted, and
never disappears; an identity is linked once, to an account that is there. Under
the refinement mapping (`Seen`, `LinkSeen`) an uncommitted row or link is not
there yet: lookups, inserts and rollbacks are stutters, a commit is `Enrol` or
`Link`. That a commit finds its keys still free is where the lookups, the keys and
the waiting have to work together.

### Credentials

One member's hash (as the password it was made from), address and preference.
`BeginChange` reads the row and verifies; the slow hash lies between it and
`UpdateUserPassword`. `ResetPassword` is the last statement of a reset.
`BeginSave`/`FinishSave` are the two statements of saving the settings,
`BeginGet`/`FinishGet` those of reading them. `alone` and `bought` are not
columns: they record whether another save overlapped, and how many changes a
password was good for since it was last in force. The backfill's UPDATE puts the
legacy hash back into force whatever the row holds, as the code says.

### Calendar, LoanLedger, DepositLedger, Statements, MemberLedger

Days are counted from 0 and months have one length, so `MonthsBack` and
`MonthStart` are exact; months of unequal length and the clamping of month ends
are not modelled. Postings come from the cooperative's core system (external);
only postings dated today are made, as the core system posts them, so nothing is
post-dated. Each report is an operator over the postings as they are, a `Pay`,
`Deposit` or `Generate` step adds one, and invariants compare reports. Amounts
are whole units. `LoanLedger` represents a penalty by the installments it is
charged for, not by its sum; a settlement is only posted for a penalty that the
report of that kind of loan shows. `Statements` follows one caller through the
middleware (`RequireMemberAuth`) and the two queries of the history, between
which the table, the date and the caller's link may change. `MemberLedger` puts
them together; a behaviour follows one family of reports, because the families
read disjoint rows.

## 3. Runs

| Run | Instance | States | Shows |
|---|---|---|---|
| `otp` | 1 challenge, 3 requests, 3 attempts | 9 011 | challenges are independent rows, so one suffices; three requests allow two racing redeemers plus a guesser, three attempts a first, a middle and a last one |
| `lockout` | 2 members, 2 IPs (3 origins), 2 requests, threshold 2, 4 audit rows | 75 041 | one member from two IPs and two members from one IP; 4 rows exceed the largest count allowed (3), so an overshoot would show |
| `lock_record` | 2 members, 2 requests, 2 rows, counts 2..4 | 341 801 | two rows are what two overlapping calls can insert; the bound counts calls about to insert, so a third would show |
| `session` | 4 tokens, 3 requests | 59 306 | a token with three successors, or chains of exchanges |
| `rate_limit` | 2 addresses, 2 requests, 3 limiters, burst 2, refill 2, timeout 4, sweep 2, patience 1 | 4 151 | the constants meet `TimeoutCoversRefill` with equality, so a visitor dropped a tick earlier would not be full; three limiters let a new one coexist with two in use |
| `accounts` | 2 rows, 2 requests, 2 sign-ins, 1 identity, 2 emails, 2 member ids, 3 legacy rows, 2 backfills, 2 actors at work | 866 002 | two of any kind race for one email, one member id or one identity; the legacy rows share an email with each other and with the portal; the second backfill follows every way the first can end |
| `credentials` | 2 requests, 4 passwords, 1 address, 2 backfills | 121 707 | both requests hold a password that is replaced twice; the second backfill brings the legacy hash back |
| `ledger` | months of 2 days, 10 days, 3 installments, 3 loan postings, 2 deposits, 2 statements, 2 accounts | 164 657 | windows of 2 to 4 months open, move and close again; payments are partial, early and late; the schedule has an unflagged installment |
| `otp_one_account`, `otp_told_verified`, `session_single_use`, `ar_penalty_again` | as above | - | violated: see Findings |

Properties, by run:

* `otp`: `RedeemedOnce`, `ExhaustedIsDead` (with the last permitted wrong code, and
  not one earlier), `EffectsMatchPurpose`,
  `AccountBeforeConsume`, `ConsumedIsFinal` (an action property) and
  `ImplementsOneTimePass` (refinement of `OneTimePass`).
* `lockout`: `BoundedOvershoot` and `TripIsJustified` ("bounded" in the comment
  of `LoginService`) and the liveness property `LockoutLifts` ("self-correcting").
* `lock_record`: `BoundedDuplicates`, `NotifiedMeansSent`.
* `session`: `ExchangedIsRevoked`, `BoundedReplay`.
* `rate_limit`: `BoundedResidence` ("so the map doesn't grow unbounded") and
  `ImplementsTokenBucket` (refinement of `TokenBucket`): dropping a visitor never
  gives an address an extra token.
* `accounts`: `EveryUserHasCred`, `EmailRefusalJustified` (lookup and unique key
  give one and the same answer), `SignInMatchesLink`, `NoLegacyMemberLost`,
  `EmailNeverCostsAMember`, `NoLockLeftBehind` (whatever fails, crashes or loses its
  acknowledgement, an uncommitted row or link belongs to an actor still at work on
  that one thing, so no key stays locked for good) and `ImplementsDirectory`
  (refinement of `MemberDirectory`).
* `credentials`: `StaleChangesBounded` (a change that proved a password which was
  replaced meanwhile still goes through; at most as many as were under way) and
  `LoneSettingsAreWhole`.
* `ledger`: `NextDueAgrees` (`/amortization` against `/loans` and `/ar`),
  `LoanPenaltyOnce` (of `/loans` only: for `/ar` see `ar_penalty_again`),
  `PenaltyOnlyWhenBehind`, `ActivityReconciles` (`/activity`
  against `/balance`), `RecentIsCharted` (`/transactions` against `/activity`),
  `SavingNeverHurts` (`/health`), `NewestIsListed` and `ListedOpens` (`/soa`).

Each run also checks its module's `TypeOK`.

Bounds. `MaxAttempts`, `Threshold` are 5 in the code; TLC uses smaller values and
the theorems hold for all. `AuditRows` and `MaxLocks` bound the tables: an insert
needs a free row. `out`'s counters saturate (`Many`). `MaxBusy` bounds how many
actors of `Portal` are at work at once: every hazard listed for it needs two. It
drops to one after the second backfill began, which then meets only what was
under way. `MaxRuns` bounds the runs of a backfill: two, a run and its re-run.
`MaxDay`, `MaxPostings` and `MaxDeposits` bound a history of the ledger: five
months and one posting more than it takes to pay, settle and pay again.

Fairness. Safety needs none. `LockoutLifts` assumes only `WF(LeaveWindow(s))`: the
clock moves and every row becomes 15 minutes old. No fairness is assumed of
requests. `Spec` of the other modules has no fairness: nothing in them must
happen, as a crash may always cut a request short and nothing resumes it. That
requests end at all is the timeouts' and InnoDB's doing, and is not modelled.

Three configurations switch the deadlock check off, where the bounds stop the
system: in `otp` once the challenge is consumed and expired, in `credentials`
once all passwords are used, in `ledger` on the last day.

## 4. Proofs

TLAPS proves, for every value of the constants:

* `OtpChallengeProofs`: `TypeCorrect`, `RedemptionSafe` (`RedeemedOnce`),
  `ExhaustionKills` (`ExhaustedIsDead`), `EffectsSafe` (`EffectsMatchPurpose`),
  `AccountComesFirst` (`AccountBeforeConsume`), `ConsumedRowsFinal`
  (`ConsumedIsFinal`) and `Refinement` (every behaviour of `OtpChallenge` is one
  of `OneTimePass`). The
  safety properties are not inductive: whether a redemption may still happen
  depends on which request is between two statements. `IInv` adds `RowInv` (what
  a row's status says about its attempts and effects; `NotCutShort` in it is the
  early side of `ExhaustedIsDead`), `ReqInv` (what each stage
  of a request knows of its row) and `Exclusive` (a row has one
  sender, and one request that is about to grant). Assumes `ChallengeAssumption`.
* `LoginLockoutProofs`: `TypeCorrect`, `OvershootBounded` (`BoundedOvershoot`),
  `RefusalsJustified` (`TripIsJustified`). A count alone is not inductive, since a
  request past the gate may log long after the count has grown. `Reserved` counts
  these requests with the failures: together they never pass
  `Threshold - 1 + |Requests|`. Reading a count below the threshold admits a
  request only while at most `|Requests|` are pending, and logging moves one
  element from the pending set to the rows, so the sum stands. Assumes
  `LockoutAssumption`: a positive threshold, finitely many requests and rows.
* `RefreshSessionProofs`: `TypeCorrect`, `ExchangeKills` (`ExchangedIsRevoked`),
  `ReplayBounded` (`BoundedReplay`). `InFlight` says what a request relies on
  between its statements: the token it is to issue for is already revoked, and
  never becomes open again. `BoundedReplay` counts successors and requests still
  exchanging; a token found active has no successor, so both fit. Assumes
  `SessionAssumption`: finitely many tokens and requests.
* `AccountLockProofs`: `TypeCorrect`, `DuplicatesBounded` (`BoundedDuplicates`),
  `NotifiedIsSent` (`NotifiedMeansSent`). The bound counts rows and the requests
  about to add one, so an insert moves one element between the two sets and
  leaves the sum alone; a request is only added when the member has no active
  row, and then the requests alone are within the bound. `MarkingIsSent` says
  what a goroutine knows between sending and writing `notified_at`. All actions
  but the insert only move rows forward (`TableAged`), which `ForwardStep` settles
  once. Assumes `LockAssumption`: finitely many requests.
* `IPRateLimiterProofs`: `TypeCorrect`, `ResidenceBounded` (`BoundedResidence`) and
  `BucketRefined` (`ImplementsTokenBucket`). `IInv` says that a request's limiter is
  still the one in the map, since its entry has been idle for no longer than the
  request has waited, that is for at most `Patience`; that a limiter idle for n
  ticks holds at least n - `Patience`, or is full; that a sweep leaves no entry
  older than the timeout; and that no two addresses share a limiter. With
  `TimeoutCoversRefill` an entry past the timeout is therefore full and held by
  nobody (`DroppedIsFull`), so that dropping it, and starting afresh with a full
  limiter, are stutters of the abstract bucket. Assumes `LimiterAssumption` and
  `TimeoutCoversRefill`.

* `PortalProofs`: `TypeCorrect`, `PairedAlways` (`EveryUserHasCred`), `LinkDecides`
  (`SignInMatchesLink`), `NobodyLost` (`NoLegacyMemberLost`), `EmailCostsNobody`
  (`EmailNeverCostsAMember`), `LocksEnd` (`NoLockLeftBehind`) and `RefusalsJustified`
  (`EmailRefusalJustified`). None is inductive, since a row without its credential row does exist while a
  transaction is under way. `IInv` says whose row it is: an uncommitted row belongs
  to the one transaction that is about to finish it (`RowInv`), each transaction
  still has its row (`RegInv`, `MigInv`), each legacy row is before the run, under
  way, in the table or on its list (`RunInv`), and an uncommitted link belongs to
  the one sign-in that holds the identity's row (`LinkInv`). The argument is by
  frames: a step touches its own uncommitted row, or a committed one without making
  it incomplete (`Touches`), which leaves all that the others know of the table; so
  each action has one lemma, about its own actor. Assumes `PortalAssumption`: NULL
  is no value, and no two actors share a name.

  Then, from the stronger `KeyInv`: `KeysUnique` (`UniqueKeys`: no two rows share a
  member id or an address, uncommitted and deleted ones included) and
  `DirectoryImplemented` (`ImplementsDirectory`). `KeyInv` adds to
  `IInv` the unique keys, that an uncommitted row is not deleted (`NewRowsKept`),
  and that whoever is or is about to be linked is committed while no locked gap
  has a link in it (`GapInv`). What a step does to the table is one of seven
  things, whoever takes it (`TableStep`), so keys and refinement are each proved
  once per thing instead of once per action.
  `DirectoryImplemented`: a committed row was unseen and has its credentials, and
  by `UniqueKeys` its keys are free (`Enrolled`); an edit that collides with nothing
  takes a free address (`EmailChanged`); a rollback only takes back what was unseen
  (`UnseenSteps`, `TakenBack`); a committed link was unseen and its user is seen, by
  `GapInv` (`LinkCommitted`). Assumes also `AccountAssumption` (NULL is no account).
* `CredentialsProofs`: `TypeCorrect`, `ReplacedPasswordsExpire`
  (`StaleChangesBounded`) and `LoneSettingsStayWhole` (`LoneSettingsAreWhole`). The
  changes a replaced password has bought are counted with the requests that have
  proved it and not yet written; a new password is new, so nobody has proved it
  (`NewPasswordsAreUnknown`), and a write moves one request from the pending ones to
  the count. A save that is still alone finds the address it wrote
  (`LoneIsCurrent`). Assumes `CredentialsAssumption`: finitely many requests.
* `MemberLedgerProofs`: all properties of `ledger`. `TypeCorrect`, `ReportsAgree`
  (`NextDueAgrees`), `LoanPenaltiesOnce` (`LoanPenaltyOnce`), `PenaltiesJustified`
  (`PenaltyOnlyWhenBehind`), `ChartAddsUp` (`ActivityReconciles`), `RecentShown`
  (`RecentIsCharted`), `LinksAlive` (`ListedOpens`), `NewestShown`
  (`NewestIsListed`), `SavingHelpsHealth` (`SavingNeverHurts`). `IInv` is `TypeOK`
  with `ReaderInv`: what was listed was a statement of the account the request was
  let in with, and that is still the caller's unless it had none. The reports are
  then related by arithmetic: installments fall due in the order of their numbers
  (`DueInOrder`), and what is due up to one of them is the amount less what is left
  after it (`PaidUpTo`); months start at multiples of their length, so the charted
  ones neither overlap (`MonthsApart`) nor leave a gap (`MonthsCover`); a sum over
  the days of the chart is the sum over its months (`SumOfSums`); rounding keeps
  the order (`RoundedGrows`). Assumes `CalendarAssumption`, `LoanAssumption` (a
  schedule of whole amounts), `DepositAssumption` (the recent transactions go less
  far back than the chart: 3 months and 6) and `StatementAssumption`.

The sums are `SumFunctionOnSet` of the community modules, a recursion over sets
that picks elements in some order. The library's induction theorems cannot be
used on it, as they take an operator; `CountingUp` and `TakingAway` state induction
for sets instead (a set with 0 and every successor has all of `Nat`; what passes
from a set less any one element to the set holds of every finite set), and
follow from the least-element theorem of well-founded relations. With them
`SumExists`, `SumSteps` and `SumSplit` show that the recursion defines a sum and
that the order does not matter; the other lemmas on sums rest on these. In the
other modules, each proof has one lemma per action; the temporal step is the last.

Only model-checked: `LockoutLifts` (liveness under fairness is out of the
prover's reach), and the four violations. Every other property of the passing
runs is a theorem.

## 5. Findings

1. `OneAccountPerChallenge`: registration creates the account before consuming
   the challenge; two concurrent requests with one reference create two accounts,
   and the loser is told its code is invalid although its account exists.
2. `ToldMeansVerified`: `MarkOTPVerified` does not look at the rows affected, so a
   verify request can answer "otp verified" for a challenge that concurrent wrong
   codes have just consumed.
3. `SingleUse`: concurrent refreshes with one token each mint a session.
   `BoundedReplay` shows how far it goes.
4. `ARPenaltyOnce`: the comment on `activeARQuery` says that `penalty_due` is
   replayed "since the last penalty settlement", but the query reads no settlement
   (`/loans` does): a penalty that was settled is shown again the next day, for the
   same installment and for as long as that stays unpaid.

Noted without a run:

* `otp_model.go:37` says a challenge is never consumed without being verified, but
  login consumes directly and wrong codes consume too; `otp_model.go:8` says
  pending is never seen at rest without a crash, but the error of `MarkOTPSent` is
  dropped; an SMS timeout marks a delivered text as failed; wrong codes can void a
  challenge that was already verified.
* `auth_service.go:370-373` says a second refusal does "not insert a duplicate row or
  send a second email for the same lockout episode", but the lookup and the insert
  of a lock row are two statements without a unique key: refusals that overlap each
  insert one and send an email. `BoundedDuplicates` bounds how many.
* A lock row's count can be lowered by a refresh that compared an older count;
  `locked_account_model.go:14` says nothing writes `UnlockedAt`, the development
  unlock does.
* `activity_repository.go:13` and `:25` speak of the trailing 12 months; the query's
  bound `n < 5` yields 6, which is what `ActivityMonths` models.
* The credential backfill says "Safe to re-run" (line 11 of its `main.go`), but a
  re-run puts the legacy password back over one the member has chosen since.
* A login challenge opened before a password change or reset still signs in
  afterwards.
* On a young member's eighteenth birthday balance and transactions go empty while
  activity and health still show the postings.
* On a loan without grace days (`LoanPENGP` = 0) the penalty of an installment due
  the day before a settlement is charged again after it, since the query counts
  from the day before; `LoanPenaltyOnce` states exactly this exception.
* `findUserByIDTx` does not look at `deleted_at`: a linked identity of a deleted
  member still signs in, as `ReadUser` models.

## 6. Not modelled

Not modelled: the provider verifiers and token signing (external cryptography;
their result is an input), phone numbers and birth dates (stateless helpers on
single values), the profile read (one SELECT), claim requests, contact messages
and the newsletter (single inserts nothing reads), routing, configuration,
connection retry, templates and schema migrations (I/O and wiring). Of the
ledger: interest and penalty rates, the loan repayment percentage of `/health`
(the constant `LoanPct`), listings by reference, the limit of ten transactions,
post-dated postings, leap days and unequal months. Of accounts: columns nothing
decides by, and `TouchLastLogin`.

Left out on purpose: a composition of gate, challenge and session. The three share
one attempt of one member and no variable, so it would repeat their actions and
add no interleaving that the separate modules do not have. The two-statement
development unlock across `LoginLockout` and `AccountLock` stays a hazard without a
property for the same reason: the lock rows decide nothing about a login.
