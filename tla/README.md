# TLA+ models of supervisor-arena

supervisor-arena is an HTTP server (axum on tokio) over one PostgreSQL database.
Users register, propose supervisors under generated aliases, rate them and vote on
the weights of the rating dimensions; reviewers approve what becomes public.  All
shared state is in the database.  Handlers run concurrently, every repository
function takes a connection of its own from the pool, and only four functions open
a transaction.  The code takes no explicit lock and checks nothing twice by
habit, so what is interesting is which statements of two calls may interleave,
which SQL guard or unique index saves the day, and what a call that stops between
two statements leaves behind.

Paths below are relative to `src/backend/src/` unless they start with `migrations/`
or `docs/`, or are `DEPLOYMENT.md` and `RUNBOOK.md` at the root.

## 1. Inventory

| component | state | operations | interacts with |
|---|---|---|---|
| supervisor creation and review (`supervisor/`) | `supervisor_creation_requests`, `supervisors` with `k_anonymity_count`, `supervisor_name_mappings` | `create_request`, `approve`, `reject`, `search`, `public_view_by_alias`, review queue | alias generator; aggregation and weights for the scores it shows |
| alias generator (`supervisor/alias.rs`) | none (whitelist and words are constants) | `generate(triple, salt)` | called on creation and again on approval |
| ratings (`rating/`) | `ratings`: `superseded_by`, `review_status`, `sensitivity_flags`, `reviewer_id` | `submit`, `approve_rating`, `reject_rating`, queue | classifier and redaction; read by aggregation and by voting eligibility |
| discipline weights (`discipline/`) | `discipline_weight_votes`, `_voters`, `discipline_weights`, `discipline_weight_history` | `submit_vote`, `cast_ballot`, `apply_vote` | eligibility is read from `ratings` and `accounts`; weights are read by aggregation |
| accounts (`account/`) | `accounts`, signed tokens held by clients | `register`, `login`, ban, soft-remove, `cancel_account` | invitations; filters of aggregation and eligibility |
| invitations (`invitation/`) | `account_invitations.use_count` | `create`, `validate_redeemable`, `redeem` | called by `register` |
| classifier and redaction (`rating/sensitivity.rs`, `rating/redaction.rs`) | none (pattern lists) | `classify`, `redact_p1` | decide what a submitted rating publishes |
| reports (`report/`) | `reports`: status, reviewer, resolution | `submit_report`, `claim`, `resolve`, `dismiss`, queue | reads `ratings` and `supervisors`, writes the audit log |
| aggregation (`aggregation/`) | none | `compute_from_approved` | reads approved current ratings and weights |
| rate limits (`rate_limit/`) | counters in the memory of the process | `check_and_record` | called by the login and rating handlers |
| start-up (`main.rs`, `config.rs`, `lib.rs`, `crypto/keystore.rs`) | the environment | `from_env`, `validate`, key decoding, pool, migrations, listener | everything else runs only after it |
| migrations (`db.rs`) | `_migrations` | `run_migrations` at start | the schema of everything above |
| web pages (`web/`) | the cookie of the browser | `index`, `register_*`, `login_*`, `logout`, `me`, `search_*`, `new_*` | call the services; know their visitor by the token in the cookie |
| audit log (`audit/`) | `encryption_audit_log`, append only | `log` (best effort) | called at the end of handlers |
| lookup, tracing | none that changes | | |

Two facts of the routing matter for what is reachable.  `rating_router` is not
mounted in `lib.rs`, so the rating limiter is never consulted; and
the web routes `/supervisors/{alias}` and `/supervisors/{alias}/rate` use the brace
syntax of axum 0.8 with axum 0.7.9, where a capture is written `:alias`.  The model of
ratings is therefore one of `RatingService` as its API can be called (the page
handler and the unmounted JSON handler both call `submit`; the reviewer's
functions have no route yet), not of a route.

What is hard here, and for each component what makes it correct:

* *Supervisor review.*  k-anonymity (G-14) rests on a stored count that
  approvals recompute without seeing each other.  An alias and a submitted
  triple must be unique (G-19, G-20) although the dedup check and the status
  check both run before the transaction they protect.  An approval writes three
  tables and must be all or nothing.
* *Ratings.*  One current rating per (account, supervisor, dimension) (B-9) under racing
  submissions that looked up the row they replace before their transaction; the
  self-reference used to free the partial unique index must never be seen; history is
  kept; a text the classifier calls P0 needs a person (G-12).
* *Weights.*  Counters must equal ballots; weights change only with a quorum; applying
  is up to 18 statements without a transaction.
* *Accounts and invitations.*  A code is not used more often than it allows; an
  account is linked to the inviter whose code it used; a cancelled or banned
  account gets no token.
* *Reports.*  A report is resolved once, by the reviewer who holds it; nobody reports
  his own rating.
* *Start-up and migrations.*  Several processes, possibly of two releases, start
  on one database: no migration takes effect twice or out of order, nobody
  serves without its schema and its keys, and who can serve does in the end.
* *Rate limits.*  A bounded number of logins per address and minute although the
  clock is read before the lock is taken.
* *Aggregation and redaction.*  The composite stays within the range of the
  means whatever the weights are just then; no account counts twice; what nobody
  has read shows no identifier but where a mask has cut one out of a word.
* *Web pages.*  Tabs share one cookie and responses arrive late: a ban, or the
  last sign-in it found under way, ends what an account can do in bounded time,
  who logged out stays out, and redirects end.

`PROJECT.json` lists every hazard at its line, with the properties that cover it.

## 2. Modules

| module | models | how |
|---|---|---|
| `SupervisorReview` | `supervisor/service.rs`, `supervisor/repo.rs` | one worker per HTTP call; `approve_request`'s transaction is `InsertEntry`, `MarkApproved`, `CountBucket`, `MatchRows`, `UpdateCounts`, `Commit` |
| `SupervisorDirectory` | abstract specification | entries with unique triples and aliases; any set of entries in buckets of at least K may be shown |
| `RatingSupersede` | `rating/service.rs`, `rating/repo.rs`, the index `uq_ratings_one_current` | lookup `Submit`; transaction `Detach`, `Insert`, `Attach`, `Commit`; then `Classify`; reviewers `Decide` |
| `CurrentRatings` | abstract specification | a submission atomically replaces the current rating of its key |
| `DisciplineVote` | `discipline/service.rs`, `discipline/repo.rs`, one discipline | each check and each statement of `apply_vote` is an action; `CastBallot` is the one transaction |
| `AccountInvitation` | `account/service.rs`, `account/repo.rs`, `invitation/` | every statement of `register` and `try_redeem_and_link` is an action; `Login` reads and checks, `IssueToken` follows; ban, cancellation and expiry happen in between |
| `ReportReview` | `report/service.rs`, `report/repo.rs`, `report/handler.rs` | the statements of `submit_report` with its audit row; `Claim`, `Resolve`; ratings are superseded and supervisors hidden meanwhile |
| `TextFilter` | `rating/sensitivity.rs`, `rating/redaction.rs` | a text is a sequence of the pieces the patterns tell apart, with the word boundaries between them; redaction masks pieces, one pattern after the other |
| `DisciplineApart` | `discipline/` and `aggregation/` together | `DisciplineVote` with the scores under its weights, and a history variable, `disturbed`: was an application ever overlapped by another or cut |
| `PublishedRatings` | what `rating/service.rs` publishes and `aggregation/repo.rs` reads | `RatingSupersede` with texts and accounts of the rows |
| `Scores` | `aggregation/service.rs` | the composite as an operator over exact fractions |
| `Migrations` | `main.rs`, `config.rs`, `crypto/keystore.rs`, `db.rs` | each step of a start and each statement of a migration is an action; a process may be killed at any |
| `Server` | `rate_limit/login.rs` in the processes of `Migrations` | `Attempt` reads the clock, `CheckAndRecord` runs under the lock; a crash loses the counters; `recent` remembers the ages of the last `2 * Limit + 1` admissions |
| `WebPages` | `web/`, `account/jwt.rs` | tabs, requests, sign-ins and responses under way, one cookie; handlers are functions of the token a request carries; a sign-in is a check and, some time later, `IssueToken` |
| `Site` | `Server` and `WebPages` composed | pages are served once the processes serve |
| `*_proofs` | theorems | section 5 |
| `MC*` | instances | sections 3 and 4 |

Conventions shared by the modules:

* A worker is one running call.  `pc` (or `call`) names the statement it will run next.  A
  read whose result is used later is its own action and what it read is kept with the
  worker, because other calls commit in between.
* A transaction's writes stay with the worker until `Commit`, as READ COMMITTED
  hides them. `HoldsRow`, `HoldsKeys`, `HoldsRequest` and `HoldsKey` say which
  row locks and unique-index entries it holds; a statement that needs one is not
  enabled while another worker holds it, and fails, as a unique violation, when
  a committed row has it.  Only committed rows are in the variables
  `supervisors`, `mappings` and `ratings`.
* In `SupervisorReview` the UPDATE of a bucket fixes the rows it matches
  (`MatchRows`) before it waits for their locks (`UpdateCounts`).  It takes the
  locks at once; PostgreSQL takes them one after the other and ends a deadlock
  of two such UPDATEs by failing one, which is `Fail`.
* `Fail` ends a call between any two statements: the client goes away and axum
  drops the handler, the server stops, or the database reports an error.  An
  open transaction rolls back.
* A supervisor row, its mapping and its request have the same id, because the
  UNIQUE `public_code` and the dedup key admit one row per request.
* Names, texts, keys and encryption are abstracted: a triple is a value,
  `AliasOf` maps triples to aliases (possibly two to one), `P0` is the set of
  rows whose text classifies as P0.
* Weights are integers with `Total` for 1.0.  `renormalize` ignores the current
  weights, so the call of `get_current_weights` before it is left out.  f64
  rounding is abstracted: divisions are exact in the instances by an assumption
  on the constants, the ratio 0.6 is compared as 5*yes >= 3*(yes + no).
* In `AccountInvitation` a session is an account of which somebody holds an
  unexpired token; tokens are verified without the database, so `CreateCode`,
  `Cancel` and `SetBanned` need only a session, whatever the account has become
  (any session may ban: the code checks no role).  `cancel_account` reads and
  then runs one guarded UPDATE; the read decides nothing that the guard does
  not, so `Cancel` is one action.  A code in a request exists when the request
  arrives, since codes are derived from a random UUID with a secret key.
* In `ReportReview` ids are numbers in the order of insertion, which is the
  order of the deadlines, so that the overdue reports are a prefix.  `dismiss`
  is `Resolve`: the handler only chooses the resolution.
* In `Migrations` an environment value is `missing`, `empty`, `short`, `garbled`
  or `ok`, what the checks of `from_env`, `validate` and
  `LocalKeyStore::from_config` tell apart.  The transactions of two processes
  for one version exclude each other: the second waits on the name the first
  creates or on the primary key of `_migrations`, then fails, unless its SQL
  runs a second time without an error (`Rerunnable`), in which case the INSERT
  into `_migrations` fails.
* In `Server` times are ages in ticks.  A login reads the clock at most one tick
  before it gets the lock.
* In `TextFilter` patterns of one shape share a piece (a mobile and an identity
  number; `wechat:`, `qq:` and the English `address:`).  Left out are the
  patterns that span several words (`my name is`, `i am`) and the English
  scolding words.  Neighbouring masks of one word stand for one `[REDACTED]`.
* In `WebPages` a handler that decides by its visitor's token does so before its
  first await: `Serve` is that moment, and what it awaits afterwards is a part
  of the way of its response.  `login` and `register` await between the check
  of the account (or the INSERT) and `jwt.issue`; a tab is `signing` in between,
  and accounts are banned and time passes meanwhile.  A request carries the
  token the cookie held when it was sent; `Receive` obeys `Set-Cookie` when the response
  arrives, then follows a redirect with the new cookie.  `/supervisors/{alias}`
  is no capture in matchit 0.7, so the redirect after a submitted supervisor
  ends at `not_found_handler`, and `detail`, `rate_form` and `rate_submit` never
  run.
* `RowsOf`, `Issued`, `InsertCode`, `Anonymize` and the like stand for one
  repository function each, and are used where the service calls it.
* The rows that migrations 13 and 14 write into the history are left out;
  both may write one per dimension.

`Visible` in `SupervisorReview` is the detail page's `visible` flag, `Listed`
the rows `search` returns for a request's bucket; `KAnonymity` is about both.
`Ready` in `DisciplineVote` is what a vote's page and the list show.
`public_view_by_alias` also returns the score of an entry that is not visible to
someone who knows its alias; `KAnonymity` says nothing about that.

Definitions named for a misbehaviour (`InsertEntryUnlocked`, `DetachOutside`,
...) stand before the action they vary.  They are used in no specification: each
shows, when it replaces the action, that a property can fail.

## 3. Runs

| run | configuration | shows |
|---|---|---|
| `supervisor` | 2 calls, 5 requests, K = 2, auto_pass, failures; symmetric calls and duplicate requests | `KAnonymity`, `KCountBound`, `OneEntryPerTripleAndAlias`, `ApprovedHasEntry`, refinement of `SupervisorDirectory`; 291,095 states |
| `supervisor_locks` | 2 calls, the 4 requests of one bucket, auto_pass, failures; strong fairness | `CallsReturn`; 232,741 states |
| `supervisor_stale` | the same 4 requests, no failures, manual review | `KCountExact` is violated: two approvals of one bucket each store a count without the other |
| `rating` | 2 calls, 3 rows of one key and 1 of another, one of them P0, texts with every flag and with a number that a mask uncovers, auto_pass, failures; strong fairness | `OneCurrent`, `ChainsEndAtCurrent`, `P0NeedsReviewer`, `HistoryIsKept`, `OnlyMasksUncover`, `CountedOnce`, refinement of `CurrentRatings`, `SubmissionsReturn`; 165,940 states |
| `rating_decision` | the same, no failures | `DecisionStands` is violated: the classification overwrites a reviewer's decision |
| `discipline` | 2 calls, 1 vote, 4 users, changing eligibility, failures; symmetric workers and voters | `CountsAreBallots`, `WeightsFromQuorum`, `AppliedIsLogged`; about 715,000 states |
| `discipline_apart` | 2 calls, 2 votes on different dimensions, 3 users, no failures, fixed eligibility; weak fairness | as long as no application was overlapped or cut: `ApartHistoryExplainsWeights`, `ApartWeightsSumToOne`, `ApartAppliedAsAWhole`; disturbed or not: `CompositeIsAMean`, `ReadyVotesGetApplied`; 362,405 states |
| `discipline_whole` | 2 calls, 2 votes, 3 users, no failures | `AppliedAsAWhole` is violated: two votes applied together leave weights of both |
| `discipline_cooldown` | 1 call, 2 votes | `OneChangePerCooldown` is violated: applying a vote rewrites dimensions that are cooling down |
| `accounts` | 2 calls, 3 accounts, 2 addresses, a code for one use that expires and one for two that does not, failures; symmetric calls, accounts and addresses; constraint `MCFewOut` | `UsesWithinLimit`, `InviteesWithinUses`, `InvitersCameFirst`, `NoWayBackIn`; 624,791 states |
| `reports` | 1 submitting call that may be cut, 2 accounts, a rating and a supervisor, 2 reports | `NoSelfReport`, `TargetsAreReal`, `HolderDecides`, `NeverReopened`; 1,047,308 states |
| `server` | 2 processes of two releases with 3 migrations, one of which runs twice without an error, any environment with at most one wrong setting, 1 fault, 2 logins from 1 address, limit 2 and window 2; then 2 tabs and 1 account, token lifetime 1, leeway 1, time up to 4 | `AppliedOnce`, `AppliedInOrder`, `ServingIsReady`, `BurstBounded`, `EveryProcessServes`; of the pages `WTypeOK`, `BanBitesInTime`, `SessionsComeFromLogins`, `PagesSettle`; 402,660 states |

The type invariants `TypeOK` are proved, for every instance, and not run; only
`WTypeOK` of the web pages is run, and proved as well.

*Bounds.*  Two calls are enough for every race in these components: each is
between a call that has read something and one that changes it.  The five
requests hold every relation the code distinguishes: same triple; same bucket;
same alias in another bucket.  With three different triples in one bucket two
approvals can both wait for the row of a third entry, and with K = 2 the bucket
crosses the threshold.  Three submissions of a key give first, replacing and
late-replacing ones at once; the other key shows that keys do not disturb each
other.  Three dimensions, weights in sixths and thresholds 2 of 2 replace six
dimensions, 3 and 5, so that a vote needs two agreeing voters and can fail by
either minimum or by the ratio.  In `accounts` two registrations can race for
the last use of either code, three accounts can form a chain of inviters, and
with two addresses a third account exists only after a cancellation has freed
one.  `MCFewOut` keeps at most one account banned and at most one cancelled
(possibly the same), which leaves every pair of calls around a ban or a
cancellation. In `reports` one submission at a time is enough, because
submissions share nothing but the next id; the claims and decisions of both
accounts, the deadline and the disappearing targets interleave with each of its
statements.  In `server` the newer release has a migration the older one lacks,
and the one fault of `MaxFaults` comes on top of the failed starts that the race
itself causes, which are not counted.  `Site` visits pages only in one settled
state of the servers (`Settled`): page handlers keep nothing in a process, so
the product of the two state spaces would show nothing more.  `MaxTime` = 4 is
past a ban, a token that is issued a tick after it, its lifetime and the leeway;
bans of `WebPages` are for good (lifting one is in `AccountInvitation`).  With
two tabs one response can be late while the other tab logs out or in.  `TLC` is
told not to check for deadlock because each model really stops: ids are used up.

*Fairness.*  tokio polls a started handler until it ends, which gives each
call's `Advance` weak fairness.  Calls that wait for a lock get strong fairness:
PostgreSQL wakes a waiter when the holder's transaction ends, so other calls
cannot take the lock for ever in between.  Nobody has to start a call, to review
or to fail.  In `server` each process takes its next step or is started again:
`DEPLOYMENT.md` runs it under systemd with `Restart=on-failure`, and a fault
cannot recur for ever (`MaxFaults`).  In the pages each request is served and
each response arrives, unless the visitor gives up; nobody has to visit a page.

## 4. What the violations mean

* `KCountExact`: the stored count of
  `migrations/20260819000003_create_supervisors.sql:38` may stay too small until
  the next approval in its bucket, so an entry is hidden although its bucket is
  large enough. It is never too large (`KCountBound`, proved), so k-anonymity
  holds.
* `DecisionStands`: `apply_sensitivity` is a statement of its own that sets the
  status whatever it is.  A rejected harmless text becomes approved in auto_pass
  mode, an approved one returns to the queue in manual mode.  P0 texts stay safe
  (`P0NeedsReviewer`, proved).
* `AppliedAsAWhole`: the comment "All in one transaction" of `apply_vote` is not
  what the code does; the mixed weights need not sum to 1.0.  A call that stops
  half-way has the same effect.  Two ballots that both meet the threshold also
  apply one vote twice, which changes no weight but doubles the history rows.
* `OneChangePerCooldown`: the cooldown is tested for the proposed dimension at
  proposal time only.

Seen while modelling and not run: `reject_request` has no status guard, so an
approved request can be listed as rejected while its entry is public (which is
why `ApprovedHasEntry` is an implication); in auto_pass mode a duplicate or an
alias clash leaves its request waiting; a call cut before the classification
leaves its row pending with NULL flags, which `list_pending_ratings` reads as a
`String`; a ballot can be counted on a vote that was applied after its status
check.

In accounts: `invitation/handler.rs:12` says that redemption must be atomic with
registration, and `invitation/service.rs:136` expects one transaction, but
`register` commits the account, the use and the link one by one, so a use may be
counted without an invitee (`InviteesWithinUses` is an inequality for that
reason); `used_by` and `used_at` are never written.  A login that read its row
before a ban or a cancellation issues its token after it, and the token lasts
its full time (`sealedAt` in `WebPages` counts from there).  `digest`, which
`anonymize_for_cancellation` calls, belongs to pgcrypto; no migration creates
that extension, only `docker/postgres/init.sql` does.  The login path does not
look at `is_cancelled`, contrary to `account/repo.rs:253-254`; the replaced
email hash and password are what keeps a cancelled account out.  A code created
without `expires_in_secs` never expires, although `invitation/handler.rs:41`
speaks of a default of 30 days (`default_expiry` is not called).

Since a bucket's rows are matched after its count is read, an approval can also
lower the counts that others stored meanwhile, so an entry that was visible may
vanish from search until the next approval (`KCountBound` and
`SupervisorDirectory` allow it).  `search` reads its total and its page in two
statements, which need not agree.

In reports: the comment at `report/repo.rs:152-155` lets a report be claimed
"ONLY if" it is pending or already the claimant's, but the SQL lets anybody take
over a report under review; what remains, that only the last claimant decides,
is `HolderDecides`.  Any account may review, the author of the reported rating
too.  Resolving touches nothing but the report.

In texts: `redaction.rs` says it mirrors the P1 patterns of the classifier, but
has none for a tutor group, a name joined to "Lab" or an acronym; a text with
one of those is approved in auto_pass mode and keeps it.  `redaction.rs:29` says
that the order of its patterns does not matter; it does, since each rewrites the
text for the next.  "李教授实验室 Lab" becomes "李教授[REDACTED] Lab", which the
last pattern no longer matches, and keeps the professor's name.  In "Vision Lab
Group" the match ends with "Lab", and "[REDACTED] Lab Group" remains.  And a mask
makes word boundaries: "课题组13812345678" is P1, because no boundary precedes
the number, and is approved unread; its public copy "[REDACTED]13812345678"
shows what the classifier alone would have held for a reviewer.  So the copy is
not public-safe, as `redaction.rs:4` has it.  `OnlyMasksUncover` says how far it
is: an identifier can only appear beside a mask, and only one whose pattern asks
for a word boundary; an email, an address or a self-introduction never does.
`apply_sensitivity`'s error is discarded.

In scores: the algorithm in `aggregation/mod.rs` clamps the mean over the
dimensions, the code clamps each dimension's mean before it weighs them.  The
detail JSON of an entry that is not visible still carries its score and its
count.

In rate limits: `rate_limit/counter.rs` speaks of a sliding window and has a
fixed one, hence twice the limit in `BurstBounded`; each process counts for
itself, and a restart forgets; the login form of the web pages does not ask the
limiter at all.

At start: a migration that fails leaves no row in `_migrations`, so there is no
unfinished one to look for there, as `RUNBOOK.md:312` asks; `db.rs` skips
directory entries it cannot read; a process that loses a migration race fails
and is started again rather than waiting.

In the pages: the Secure flag of the cookie is a constant `false`
(`web/auth_pages.rs:22`); `register_submit` ignores invitation codes; logging
out clears the cookie but the token stays valid.

## 5. Proofs

TLAPS proves, for every value of the constants that the named assumptions allow:

| module | theorem | statement |
|---|---|---|
| `SupervisorReview_proofs` | `TypeCorrect`, `KAnonymityHolds`, `KCountBoundHolds`, `UniqueEntries`, `ApprovalIsWhole` | `TypeOK` and the invariants of the run `supervisor` |
| | `Refinement` | `Spec => ImplementsDirectory` |
| `PublishedRatings_proofs` | `TypeCorrect`, `OneCurrentHolds`, `ChainsHold`, `P0Reviewed` | `TypeOK` and the first three invariants of the run `rating` |
| | `HistoryHolds`, `Refinement` | the action property `HistoryIsKept` and `Spec => ImplementsHistory` |
| | `PublicTextHolds`, `CountedOnceHolds` | the other two invariants of the run `rating` |
| `DisciplineVote_proofs` | `TypeCorrect`, `CountsHold`, `QuorumHolds`, `LogHolds` | `TypeOK` and the invariants of the run `discipline` |
| `DisciplineApart_proofs` | `ApplicationsAreWhole`, `WeightsSum`, `HistoriesExplain` | the invariants of the run `discipline_apart` about undisturbed applications |
| | `CompositesAreMeans` | `CompositeIsAMean`, for any finite sets of ratings |
| `AccountInvitation_proofs` | `TypeCorrect`, `UsesHold`, `InviteesHold`, `InvitersHold`, `OutStaysOut` | `TypeOK` and every property of the run `accounts` |
| `ReportReview_proofs` | `TypeCorrect`, `SelfReportsRefused`, `TargetsHold`, `AuditsHold`, `HolderResolves`, `ReviewGoesForward` | `TypeOK`, every property of the run `reports`, and `AuditedReportsExist`: an audit row is of a stored report |
| `Server_proofs` | `InvHolds`, `TypeCorrect`, `AppliedOnceHolds`, `InOrder`, `ReadyToServe` | the invariants of `Migrations`, for `MSpec` alone |
| | `ServersMigrate` | `Spec => MSpec`: a server with its limiter is a process of `Migrations` |
| | `ServerTypeCorrect`, `ServersApplyOnce`, `ServersApplyInOrder`, `ServersAreReady` | `TypeOK` and the first three invariants of the run `server` |
| | `BurstsBounded` | `BurstBounded`, for every limit, window and number of calls |
| `Site_proofs` | `PagesTypeCorrect`, `BansBite`, `SessionsNeedLogins` | the safety properties of the pages, for `WSpec` |
| | `SiteIsServed`, `SiteShowsPages` | `SiteSpec => Spec` and `SiteSpec => WSpec` |
| | `SiteIsSafe` | every safety property of the run `server`, for `SiteSpec` |

*Supervisor review.*  `KAnonymity` is not inductive: it says nothing about a
count that a transaction has read and not yet written.  `IInv` adds that
`counted[w]` is at most the size of the bucket counting w's own row, which stays
true because rows are never deleted; that the rows of w's snapshot are in its
bucket; and that two open transactions never hold the same alias or triple.
Then `KCountBound` is preserved by `Commit`, and it gives `KAnonymity` because a
visible entry's count is at least K.  The cardinality facts need `Requests`
finite (`ConstantsAssumption`).

*Ratings.*  `OneCurrent` and `ChainsEndAtCurrent` need what an open transaction
relies on: between `Insert` and `Commit` no other worker holds the key, the row
to be replaced is still the current one of the key, and no other current row of
the key exists.  A late replacement of an already superseded row cannot pass
`Insert`, which is why `HistoryIsKept` holds.  That chains leave every set of
superseded rows is preserved because `Commit` makes one row point to a row that
is new and current.

*Weights.*  `IInv` says that the counters are the cardinalities of the ballot
sets, that a worker's tally is at most the stored counters, and that from `read`
to `mark` its vote has at least `MinAgree` agreeing ballots; ballots are never
withdrawn, so a weight once written keeps its quorum.  `AppliedIsLogged` rests
on `LInv`: a call in the loop of `apply_vote` has logged every dimension before
the one it is at, and a row of the history never disappears.

*Undisturbed applications.*  The three properties speak of moments at which no
call is under way and say nothing about the middle of `apply_vote`.
`Undisturbed` does: at most one call applies a vote; the dimensions it has
written (`Written`) come from its vote and all others from one vote; the rows of
every dimension form a chain that ends at the live weight, except for the
dimension whose row is about to be inserted; and what the call read as the old
weight is still what the last row says.  `ApartInv` is `disturbed` or that.  It
holds although calls fail and eligibility changes: a call that is cut in the
loop sets `disturbed`, one that is cut before it could mark its vote has written
everything.  (The run leaves failures out for the sake of
`ReadyVotesGetApplied`; the theorems do not.)  With the quorum invariant of
`DisciplineVote`, weights of one vote are `Proposed` once and the same quotient
`Dims - 1` times, which makes their sum `Total`.

*Scores.*  `CompositeIsAMean` needs nothing of the weights but their type, so
that it survives every interleaving.  Its argument is about sums: a weighted sum
lies between the sum of the weights times the least and times the greatest mean
(`SumBetween`), and the fallback's denominator is positive (`SumPositive`).
These are inductions over finite sets.  The library's induction theorems take a
predicate as a parameter, which the provers cannot instantiate; `Induction` and
`SubsetInduction` are stated about a set of numbers and a set of subsets
instead, and follow from the theorem on minimal elements.  `FoldExists` shows
that a fold has a value at all, `SumUnfolds` what a sum is a step at a time.

*Published ratings.*  `PublicTextHolds` combines `P0NeedsReviewer` with three
lemmas.  `StrictestWins`: a direct identifier in either text outranks whatever
else matches, so an unread text had none.  `RedactPieces`: redaction leaves
every piece in its place or masks it.  `RedactUncovers`: a pattern without word
boundaries therefore matches the copy only where it matched the text, and one
with them only if a neighbour was masked.  `CountedOnceHolds` follows from
`OneCurrent`.

*Accounts.*  `UsesWithinLimit` follows from the guard that `Redeem` repeats; its
invariant `TypeInv` adds what each statement knows of its call (`CallsOK`: a
call that validates, redeems or links has a joined account and a code with a
creator).  `NoWayBackIn` needs that a cancelled account has no address
(`CancelledAnonymous`), so that no login can find it.  `InvitersCameFirst` is
not inductive: `Link` adds an edge between accounts that both exist, and the new
account may have logged in and have invitees of its own by then.  `TreeInv`
strengthens it: for every call that will still link there is a set of elders,
the accounts that had joined before the one it registers.  The inviter is an
elder, the new account is not, and no link of an elder leads, or will lead, out
of the set; so the inviter is not a descendant of the account that is linked to
him.

`InviteesWithinUses` is not inductive either, because between `Redeem` and
`Link` a use is counted and the invitee is not: `ClaimInv` counts as claims to i
the invitees of i and the accounts of calls that are about to link to i.
`Redeem` adds one use and at most one claim, `Link` turns a claim into a link,
and a failure only drops claims.  That the uses are finitely many is
`UsesWithinLimit`.

*Reports.*  The properties are inductive together with what a call has
established (`Inv`): past `author` it is not about its own rating, at `insert`
its target is of its kind's table, at `audit` its report exists.

*Start-up.*  `MInv` says that the ledger holds what has been committed, that a
process knows only versions in it (`KnownIsApplied`), and that a transaction
past `Record` is the only one of its version and not yet in the ledger; with the
migration files ordered and each release containing the earlier ones, the next
pending version of a process never skips one.  `ServersMigrate` is a refinement
with the identity mapping: each step of `Server` is a step of `Migrations` or
leaves its variables alone, which carries the three invariants over.

*Login limiter.*  `BurstBounded` says nothing about the entry that counts.
`WindowInv` relates it to the ages of the admissions: none that was counted is
older than the entry's window allows; those the entry has not counted are at
least as old as the entry; and of these all but the last `Limit` are a window
old.  That a clock read in one window may be counted in the next is in the case
of an expired entry: the new one starts at the time the call has read, up to a
tick before the lock.

*Pages.*  `BanBitesInTime` needs to know of every token somebody may still
send (`UnderWay`): the one in the cookie, those of requests under way and those
of cookies that redirects will set.  `WInv` says that none of them expires later
than a lifetime from now, nor, once its account is banned, later than a lifetime
after `sealedAt`: the ban, or the last token issued to a sign-in that had passed
its check before the ban.  `AllCleared` adds that no other sign-in of a banned
account is ever past its check, so nothing else can issue one.
`Site` adds nothing to either part: its steps
are steps of one and leave the other alone, which is what `SiteIsServed` and
`SiteShowsPages` say.

*Only model-checked:* liveness (`CallsReturn`, `SubmissionsReturn`,
`ReadyVotesGetApplied`, `EveryProcessServes`, `PagesSettle`), which needs
fairness and ENABLED, and these are beyond the prover.  Every invariant and
every action property that a passing run checks is also a theorem.

## 6. Not modelled

* The words of an alias.  `AliasOf` is any function of the triple.  Every
  template and every style puts `-` or a middle dot into an alias and no
  whitelisted name has one, so the whitelist retry of `generate` never fires.
* `detail`, `rate_form` and `rate_submit` of `web/`, which no route reaches, and
  the daily rating limiter, whose only caller is the unmounted `rating_router`.
* The `soft_removed` flag: it is an input of eligibility (`ChangeEligibility`)
  and of aggregation (`Withdrawn`), and nothing else reads it.
* Cryptography: pure, with keys that never change after the start.  Which keys a
  start accepts is in `Migrations`.
* The audit log beyond `ReportReview`: every other caller writes one row at its
  end, best effort, and nothing reads the table.
* Lookup tables, templates, DTOs, error texts, tracing and the health endpoints:
  read-only or without state.
* Wording of inputs: lengths, URL syntax and the like only end a call before its
  first statement.

What could still be added: a composition in which the eligibility of
`DisciplineVote` is derived from `RatingSupersede` instead of being free, and,
for the violations of section 4 that `discipline_apart` does not cover, theorems
that say under which condition the refuted statement does hold.
