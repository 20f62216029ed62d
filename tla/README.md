# Verification of fastapi-auth-api

TLA+ modules that model the API's stateful parts, TLC configurations that check
them on small instances, and TLAPS proofs of the properties that matter most for
every instance. Paths below are relative to the repository root (`src/`).

## The system

One FastAPI application, served by several Gunicorn workers; each runs its
synchronous handlers in a thread pool. All workers share one PostgreSQL database
(READ COMMITTED, one SQLAlchemy session per request, no row locks) and one Redis.
A Celery worker and Celery beat run mail, report and cleanup tasks. So two
requests interleave at every database statement and every Redis command, and a
worker can die between any two of them.

| Component | State | Operations | What makes it correct |
|---|---|---|---|
| JWT and revocation (`app/auth`, `services/token_blacklist.py`, `api/auth.py`) | tokens (held by clients), Redis keys `blacklist:token:*` with a TTL | login, refresh, logout, `get_current_user`, `get_current_user_ws` | a revoked token is refused, whatever runs or dies meanwhile, until it expires |
| Accounts (`api/auth.py`, `models/user.py`) | `users` rows, mail tokens, Redis keys `used:token:*` | register, verify, login, forgot, reset | one account per address; a mail token works once; nothing lost or resurrected by races |
| Self-service (`api/users.py`, `api/v2/users.py`, `services/user_profile.py`) | `users` rows | change address, change password, deactivate | a session acts on the account that logged in; a deactivation is not undone by a stale write |
| Cleanup (`tasks/cleanup.py`) | `users` rows | daily SELECT then DELETE | removes exactly never-verified accounts, eventually |
| Rate limiter (`services/rate_limit.py`) | a Redis counter per scope and client | INCR, EXPIRE | at most `times` per window; every window closes |
| Admin, RBAC (`api/admin.py`, `core/rbac.py`) | `users` flags, `user_roles` | status changes, assign, revoke, report | concurrent changes of roles do not undo each other; the default role stays |
| OAuth (`api/oauth.py`, `core/oauth.py`) | Redis state keys, `oauth_accounts` | login, link, callback, unlink | an identity never moves between accounts; no link to a deleted account; never without a way to sign in |
| WebSockets (`api/websocket.py`, `services/ws_pubsub.py`, `services/connection_manager.py`) | connections per worker, Redis channel | connect, message, listener | a message reaches the user's connections once; a failed push does not fail its cause; the listener comes back |
| Files (`api/files.py`, `services/storage.py`, `services/file_validation.py`) | S3 objects, `file_uploads` | upload, list, get, delete | rows and objects agree; content checks do not depend on chunking |
| Pagination (`services/pagination.py`) | none | offset pages, cursor pages | a cursor walk visits every stable row once |
| Mail and report tasks (`tasks/email.py`, `tasks/reports.py`) | Celery queue (acks late) | send with up to 3 retries, report | a mail is sent or given up after the retries; a report is not far from the truth |
| Configuration, middleware, logging, schemas, migrations | settings | validation, headers, records | environment rules |

Components call each other directly; the only asynchronous links are the Celery
queue and the Redis channel. They meet in shared state: the `users` table
(Accounts, Cleanup, Admin, OAuth), and `sub` in session tokens, which is the
account's *current* e-mail address and not its id.

The hard behaviours: check-then-act sequences over two stores without a
transaction (used-check / commit / mark; check address / insert; INCR / EXPIRE;
SELECT / DELETE; count links / delete one; store object / insert row), a clock
with three resolutions (JWT seconds, Python microseconds, Redis TTLs), workers that die between two calls, rows written back
after another request changed them, sockets and Redis connections that break
while a message is under way, tasks that run twice. `PROJECT.json`
lists each with its line under `hazards`.

## Modules

| Module | Models |
|---|---|
| `Revocation` | what the API promises about a token: issued, revoked, lapsing; only valid or lapsing tokens pass |
| `TokenRevocation` | JWTs with `exp`, the Redis blacklist, login/refresh/logout/authentication as processes with a clock; refines `Revocation` |
| `Accounts` | rows, mail tokens and session tokens; all handlers that write them; admin status endpoints; cleanup task |
| `OAuth` | extends `Accounts` with OAuth states, links, callbacks and unlinks: the handlers of both act on the same rows |
| `RateLimit` | one limiter key with clock and crashes |
| `WsDelivery` | the sockets of each worker, pushes, the Redis bridge and its listener, start and end of workers |
| `Files` | bucket and `file_uploads`, requests that fail between the two, accounts that go |
| `FileValidation` | the checks of one upload, chunk by chunk, and of its CSV sample |
| `Pagination` | a walk by offset or by cursor over a table that changes |
| `Reports` | extends `Pagination`: the report task over the same table |
| `MailTasks` | mails on the Celery queue: retries, late acknowledgement, deaths |
| `Rbac` | role tables, permission check, assign and revoke, accounts that come and go |
| `TokenRevocationProofs`, `FilesProofs`, `RbacProofs`, `WsDeliveryProofs`, `FileValidationProofs` | TLAPS proofs about the module of that name |
| `AccountsProofs` | about `Accounts`, and about its composition with `OAuth` |
| `CountingProofs` | about `RateLimit` and `MailTasks`, which both need sums |
| `ReportsProofs` | about `Reports`, and about the walks of `Pagination` within it |
| `MC...` | instances for TLC: symmetry sets, and constants that are functions or sets of records; `MCUploads` also puts the checks of `FileValidation` before the steps of `Files` |

Some definitions are preceded by a *mutated form*, the same
definition with a plausible mistake in it; `PROJECT.json` says which property
each one breaks. No specification uses them.

### How state and actions correspond to the code

* A request slot `r` is a thread running a handler. `req[r].pc` says which
  statement, commit or Redis command comes next; the record's other fields are
  the handler's local variables. Local computation is part of the step before
  it. A request refused in its first step changes nothing, and the step is
  simply not enabled.
* `tokens` is the set of JWTs in the world. The signature makes forged tokens
  fail to decode, so only issued tokens are presented.
* `Crash(r)` (`FlowCrash`, `Fail`) is the death of the worker or an exception
  raised by a client library between two steps (a 500): whatever was committed
  stays.
* The ORM writes, at commit, the columns whose value differs from the loaded
  one. So `EmailCommit` writes the address only, `AdminCommit` only the flags
  that differ from the loaded row (`Net`), `RevokeCommit` one row of
  `user_roles`. An UPDATE of a vanished row raises; a DELETE of a user or a
  link that has vanished does not.
* A password is known by the password it is a hash of; `NoHash` is the NULL of
  an account that signed up through OAuth.
* Variables under `history` record what happened for the properties' sake; no
  action's guard reads them. (`passed` in `TokenRevocation` is also the bound
  `MaxPassed` on requests per token, `changes` in `Pagination` the bound
  `MaxChanges`.)
* `TypeOK` of a module documents its state. Only `token_revocation` lists it as
  an invariant, and the proofs establish it for `TokenRevocation` and
  `RateLimit`; adding `TypeOK` to another run's INVARIANTS checks it there.

**TokenRevocation.** Time is in ticks, `TPS` to the second. `exp` is in whole
seconds and a token decodes while the current whole second is at most `exp`;
`remaining_ttl_seconds` truncates to whole seconds; a Redis key lives exactly its
TTL from the tick of its SET. The time to live is computed in one step and
used in the next. API hosts and Redis share one clock, and Redis keeps its keys
until they expire (no eviction, no loss on restart). Whether the user behind a
refresh token is still active is left open (either outcome).

**Accounts.** A behaviour keeps to one `scope`, chosen at the start from the
constant `Scopes` and never changed: the operations clients call, the addresses
and passwords they type, and the accounts there may be at the start. It is a
bound: it lets one run look at several groups of handlers, each with the names
that make it interesting. The environment (crashes, ageing, cleanup) is always
there. `Init` allows any set of existing verified accounts within the scope. A
mail token is `fresh`, `ending` (its last second, in which `mark_token_used`
stores nothing and the key may have gone) or `expired`; session tokens do not age
here. An account becomes `stale` (older than the seven days of the cleanup) only
when no request on it is in flight and its verification token (30 minutes) has
expired. `Lower` is `str.lower` on addresses.

**OAuth.** `states` are the Redis keys, read and deleted in two steps; `links` is
`oauth_accounts`, with its unique constraint and its foreign key (`Cascade`: a
deleted account takes its links along, and an insert for a deleted account
fails). What the provider answers, an identity with or without an address in any
spelling, is an input of `CallbackFindLink`. Every step of `Accounts` is a step
here (`AccountStep`), so callbacks race renames, resets, registrations and the
cleanup.

**WsDelivery.** A worker runs one event loop: a step lies between two awaits. A
push is a call of `publish_to_user`, from an HTTP handler or from an endpoint on
behalf of its client, to any user; `send_local` writes to one socket per step,
in any order, and raises at the first one that has gone (`PushRaises`). A
listener receives what is published while it is subscribed, forwards to its own
sockets, and sleeps after any exception; what arrives meanwhile is lost.
`Shutdown` and `Startup` are the lifespan of `app/main.py`. `owed` (history) is
whom a message must reach if nothing fails: the sockets of a user who has them
all on one worker, since `publish_to_user` stops at local delivery.

**FileValidation, Files.** A byte is told from another only where a check does;
sizes are scaled down (chunk 3, head 4, sample 3, limit 4). A signature is a set
of alternatives, each a set of strings at offsets, as the `_looks_like_...`
functions are. `Files` starts where validation has succeeded: store the object,
commit the row, refresh it; or load, delete the object, delete the row. `cut`
(history) are the files whose request failed between its two stores; one that
fails after both have been written, at the refresh, is not among them.

**Pagination, Reports.** Rows match the search or not, and come, go and change
between any two statements; an id is given out before its row is committed.
Order among equal values is the database's choice at every statement
(`Orders`). A report is four COUNT statements and may be begun again by another
worker at any time before its acknowledgement (`Ack`), when its result is stored
already included; the second result then replaces the first.

**MailTasks.** A message is taken, the mail sent or not (and an exception may come
after SMTP has taken it), then retried, given up or acknowledged. Either the
whole worker dies, and its messages go back to the queue, or one pool process is
killed, and the parent acknowledges its message (`task_reject_on_worker_lost` has
its default).

**Rbac.** `Start` checks the caller's permission, `Read` loads the user's roles
(those of the caller are in the session already), then commit and answer.
Whether the caller is active is left to `Accounts`.

**RateLimit.** One key, because keys are independent. A missing key has count
0; `ttl = NoTtl` is a key without expiry.

## Runs

| Run | Bounds | Shows |
|---|---|---|
| `token_revocation` | 2 requests, 3 tokens, 2 ticks per second, lifetimes 2 s, clock to 5, 2 starts per token | types, `NoServiceAfterRevocation`, refinement of `Revocation` |
| `accounts` | 2 requests, 2 ids, 3 addresses, 2 passwords, 2 tokens, three scopes | `EmailUnique`, `ActsOnHolderWhileAddressHeld`, `ReplayOnlyInLastSecond`, `SweepMeetsVerifiedOnlyByAdmin`, `DeactivationSticks`, `DeletedStaysDeleted` |
| `accounts_cleanup` | 1 request, 2 ids, 1 address, 1 token, with fairness | `UnverifiedEventuallyGone` |
| `accounts_single_use` | 2 requests, 1 account, 3 passwords, 1 token | **violated**: `SingleUse` |
| `rate_limit` | 3 requests, 3 per window of 4 ticks, count to 5, with fairness | limit per window and per sliding window, full windows, stuck keys explained, `WindowCloses` |
| `oauth` | 2 flows, 1 request, 2 identities, 1 state, 2 ids, 2 addresses of which one in two spellings, 2 tokens | `EmailUnique`, `NoDanglingLink`, `SessionNamesHolder`, `UnlinkLeavesSignIn`, `IdentityNeverMoves` |
| `oauth_password_reset` | as `oauth`, one address in two spellings | **violated**: `PasswordCanBeSet` |
| `ws_delivery` | 2 workers, 2 sockets of one user, another user without, 1 message, with fairness | `AtMostOnce`, `RaisesOnlyForGonePeer`, `DeliveredUnlessFault`, `ListenerRecovers`, `GoneIsForgotten` |
| `uploads` | every file of up to 5 bytes over 6 byte values, as image and as CSV; behind an accepted one 3 requests, 2 users, 2 files | `AcceptedIsSound`, `RefusedForCause`, `MissedOnlyAcrossChunks`, `RowHasObject`, `OrphansExplained`, `DeleteRemovesBoth` |
| `pagination_reports` | 5 ids, pages of 2, 2 changes, two sort columns, both directions | `CursorMissesOnlyLate`, `OffsetErrorsBounded`, `ReportWithinChurn` |
| `mail_tasks` | 1 mail, 2 processes, 3 retries, 2 deaths, with fairness | `ExtraMailsExplained`, `GivenUpAfterRetries`, `SentInTheEnd` |
| `rbac` | 2 requests, 2 users, the 3 roles and 4 permissions of the migration | `AnswerTrue`, `DefaultRoleUnlessRevoked` |

Why the bounds are enough to be interesting:

* `token_revocation`: both tokens of a login pass through every phase (well
  before expiry, last second, expired) while two requests race; two ticks per
  second are the coarsest clock on which truncation shows. The constraint
  `ChainAlone` cuts the run after a refresh has minted a third token: from then
  on requests come one by one and each token passes once. The theorems have no
  such bound.
* `accounts`: two requests race on every pair of handlers of a scope. `Sessions`
  has three addresses, so that one is given up and taken over; `Mail` has two
  passwords and one account; `Signup` has two ids for one address, so that it is
  registered again after the cleanup. The sets of scopes are closed under
  permutation of addresses, passwords and ids, so the symmetry is sound.
* `oauth`: one state is enough for two callbacks, since both may read it before
  either deletes it; two identities let an account be linked twice and unlinked
  twice; the capital spelling meets renames, resets and registrations in scopes
  of their own. Addresses are not permuted, because `Lower` tells them apart.
* `ws_delivery`: the sockets may be on one worker or on two, the push may come
  from either, from a handler or from the endpoint of one of the sockets.
* `uploads`: a file has up to two chunks, the limit and the end of the
  head fall inside the second, the sample ends where a character may; the test
  string falls within and across chunks. `Files` never looks at bytes, so its
  steps follow one of the accepted files; there two deletions of one file race a
  third request.
* `pagination_reports`: up to three pages, rows below and above the cursor
  change, both columns with and without equal values are sorted by.
* `mail_tasks`: a mail can be given up, sent twice, and outlive two deaths in one
  behaviour. `rbac`: an admin may change the roles of himself and of the other,
  who may be an admin too. `rate_limit`: counts pass the limit and several
  windows follow each other.

Deadlock checking is off where a bounded clock or table, or clients that need
not call, let the model come to rest.

### What the documents promise and the code keeps only in part

For each, the property that states what does hold. Items 1 and 7 have a run that
shows the plain promise violated; both are under `findings` in `PROJECT.json`.

1. *Single-use* mail tokens (`README.md:13`). Check and mark of a token are
   apart; two concurrent resets with one token both succeed
   (`accounts_single_use`). `ReplayOnlyInLastSecond` is what holds.
2. *Until its natural expiry* (`app/services/token_blacklist.py:8`). The TTL is
   rounded down, so the key goes up to a second before the token does, and a
   logout in the last second stores nothing. `NoServiceAfterRevocation` gives
   the exact bound: one second.
3. *Acts only on itself* (`README.md:145`). A session names its account by
   address. After A changes its address and B takes it, A's old token acts on
   B. `ActsOnHolderWhileAddressHeld` is what holds.
4. *Never verified their email* (`app/tasks/cleanup.py:14`). The cleanup also
   deletes accounts that an admin un-verified, or verified between its SELECT
   and its DELETE. `SweepMeetsVerifiedOnlyByAdmin`: nobody else can cause the
   second.
5. *Please try again later* (`app/services/rate_limit.py:34`). A request that
   dies between INCR and EXPIRE leaves a counter that never expires.
   `StuckOnlyAfterCrash` and `WindowCloses`: this is the only way.
6. Unlink *rejected if it's the account's only sign-in method*
   (`README.md:133`). Two unlinks of one account both count two links.
   `UnlinkLeavesSignIn`: only another unlink can do that.
7. A password *via the password-reset flow* (`README.md:135`,
   `app/models/user.py:22`, `app/api/oauth.py:241`). An account made under an
   address the provider spells with capitals is not found by `forgot_password`,
   which lower-cases what is typed. `PasswordCanBeSet`, that an active account
   without a password is found under some spelling, is violated
   (`oauth_password_reset`).
8. *Every new user gets the `user` role* (`README.md:139`). One made by
   `oauth_callback` does not. `DefaultRoleUnlessRevoked` covers the others.
9. *Never raises* (`README.md:166`, `app/services/ws_pubsub.py:25`).
   `send_local` is outside the `try`: a socket of the recipient that has gone
   makes it raise into the caller. `RaisesOnlyForGonePeer`: nothing else does.
10. *Rejects anything that isn't valid UTF-8 text*
    (`app/services/file_validation.py:155`). A valid file is refused as well
    when a character crosses the end of the sample, and a CR without LF raises
    `csv.Error`, which nobody catches. `RefusedForCause` states both exactly.
11. *Must not silently vanish* (`app/core/celery_app.py:19`). The message of a
    killed pool process is acknowledged. `SentInTheEnd` names this and the
    retry that cannot be published as the only losses.
12. An *error* answer *for anything malformed* (`README.md:164`). A text that is
    not JSON ends the endpoint without an answer (`MalformedText`).
    `GoneIsForgotten`: a socket that was closed this way, like one whose peer has
    gone, is dropped from its manager in the end.

### Fairness

* `Accounts!FairSpec`: every request goes on or fails (threads are scheduled,
  calls time out); tokens and accounts age whatever requests come in (strong
  fairness, because a request on an account postpones the model's `UserAge` but
  not the calendar); beat starts the cleanup every day, and the cleanup does not
  crash every single time it has something to delete (strong fairness).
* `RateLimit!FairSpec`: time passes, and a request that is not killed makes its
  EXPIRE call.
* `WsDelivery!FairSpec`: the event loop goes on with every push and listener that
  can go on; an endpoint notices in the end that its peer has gone (the server
  pings); a listener that tries again and again reaches Redis in the end (strong
  fairness of `Subscribe`).
* `MailTasks!MailFairSpec`: workers are restarted (`restart: unless-stopped` in
  `docker-compose.prod.yml`), take what is queued and go on with what they have.

Clients, admins, failures and crashes are never assumed to act or not to act.

## Proofs

Every theorem is about all values of the constants that satisfy the named
assumptions, so about any number of requests, accounts, sockets, files or mails,
and every inductive invariant below was first checked by TLC on the instance of
the corresponding run. Each proof module has one lemma per action (or per group
of actions that do the same to the invariant), `Invariance`, and then the
theorems, which follow from the invariant.

**`TokenRevocationProofs`**, from `TimeAssumption` (at least one tick per second,
lifetimes of two seconds or more) and `NoneAssumption`. The argument: truncation
loses less than a second (`RemainingTtl`, from `DivBounds`); so the TTL a logout
carries, added to *now*, reaches the token's last second, and keeps doing so as
time passes before the SET (`EnoughTtl` in `Sound`); so the key of every revoked
token reaches it too (`RevokedRecorded`); so a revoked token that is not on the
blacklist is in its last second (`UnlistedLapses`). Type correctness needs
`Sound` as well: only an issued token has a subject to mint the next one for.
`Forward` collects what no step undoes. Theorems: `TypeCorrect`,
`RevocationHolds`, and `Refinement` (the whole specification implements
`Revocation`, by the mapping `Status`; it needs that a new token is not lapsing,
`NewToken`).

**`AccountsProofs`**, from `ScopesAssumption`, `LowerAssumption` (lower-casing
twice is lower-casing once), `NoneAssumption`, and for OAuth
`OAuthNoneAssumption` and `IdentityAssumption` (finitely many identities, so that
links can be counted). A request works on what it read some steps ago, so the
invariant says what of that is still true whatever the others, the cleanup and
the clock have done since: of requests (`Served`), of tokens (`Vouched`), of rows
(`Kept`). Theorems: `TypeCorrect`, `AddressesAreUnique`, `SessionsActOnHolder`,
`ReplayIsBounded`, `SweepIsExplained`, and the action properties
`DeactivationIsKept` and `DeletionIsFinal`. Every step of `Accounts` is a step of
`OAuth`, but the steps of `OAuth` also write rows and tokens; the second half
carries the invariant over (`OAuthInv`) and adds what flows and links know of
each other: `OAuthTypeCorrect`, `OAuthAddressesAreUnique`, `LinksAreBacked`,
`SessionsNameHolder`, `SignInIsLeft` (a flow about to
unlink has counted two links, and only another unlink of the account takes one
away without being noticed), `LinksDoNotMove`.

**`CountingProofs`**, from `LimitAssumption` (positive limit and window) and
`BoundsAssumption` (finitely many processes).

* *Limiter*: `Inv` adds to the properties that the request between INCR and
  EXPIRE is the only one, that the key has no expiry while it is there, and that
  it is not yet counted among the admitted but has room (`OneWaiting`). Without
  that `AdmittedWithinLimit` is not inductive, since EXPIRE is followed by an
  admission that no guard checks. Theorems: `TypeCorrect`, `LimitHolds`,
  `WindowsFullLength`, `StuckKeysExplained`. `SlidingWindowsBounded` divides the
  ticks of the sliding window at the creation of the key (`Divided`): the later
  ones are counted in `admitted`, and the earlier ones fit into one earlier life
  of the key because that lasted a full window.
* *Mail tasks*: a step balances an account (`Accounted`): mails sent, messages
  queued and processes trying, against the call of `.delay()` and the doubts. A
  retry moves one from the processes to the queue, a worker that dies moves it
  back or adds a doubt. `GivenUpAfterRetries` needs that the number of retries a
  message carries is backed by failures (`RetriesFailed`). Theorems:
  `MailTypeCorrect`, `MailsAreAccounted`, `RetriesAreExhausted`.

**`FilesProofs`**, from `NoneAssumption`: until the row of a file is committed the
request that uploads it is the only one that knows its key (`Uploading`), so an
object that was removed is not stored again. Theorems: `TypeCorrect`,
`RowsHaveObjects`, `OrphansAreExplained`, `DeletionIsComplete`.

**`RbacProofs`**: an admin who changes his own roles decides on what the
permission check has read (`OwnRolesFresh`), and no request is on an account
still to be made (`Known`). Theorems: `TypeCorrect`, `AnswersAreTrue`,
`DefaultRoleStays`.

**`WsDeliveryProofs`**, from `AddressAssumption`: a message has two ways to a
socket, `send_local` of `publish_to_user` and the listener of its worker. Before
the publish no listener has it (`Inboxes`) and no socket still to be served has
got it (`Unsent`); after the publish each listener has it once, and serves the
sockets of its own worker only (`Placed`). Theorems: `TypeCorrect`,
`NoDuplicates`, `RaisesAreExplained`.

**`FileValidationProofs`**, from `CategoriesAssumption` (every signature lies
within the head that is kept, as the twelve bytes of WebP lie within the code's
32): the invariant is that of the loop of `read_and_validate_stream`
(`Reading`): position and count agree, the head is the start of the file, chunks
start at multiples of the chunk size, and no chunk read so far holds the test
string. Theorems, about `ChecksSpec`: `TypeCorrect`, `AcceptanceIsSound`, `ScanMissesOnlyAcross`,
`RefusalsAreJust`.

**`ReportsProofs`**, from `ParamsAssumption`. `ReportsAreBounded` compares numbers
that both move; the invariant keeps the sets behind them, and what a statement
has counted stays between the users that were in the group throughout and those
that ever were (`CountsStand`), and so does a stored result while the task is run
again (`ResultStands`). `CursorWalksAreComplete`: up to the cursor every listed row has
been seen or joined late, and the ids seen ascend; a page takes the least ids
beyond the cursor, which is argued by counting (the rank of a row is an injection
into `1..n`, hence onto it). `OffsetWalksAreBounded`: the invariant counts the
errors that are certain before the walk ends, rows before the offset that were
there all the time and were not seen (`Skipped`), rows seen that lie behind the
offset again (`Again`), and what the list has grown by since the COUNT of the page
under way (`Grown`). A change moves at most one row past the offset, one way or
the other, and a page turns what it skips or repeats into errors already counted.
For a quiet table with equal rows the number of rows seen keeps up with the
offset (`Quiet`), and every row seen stands where it, or one equal to it, is due
(`Placed`): however a statement orders equal rows, the k-th of its list has fewer
than k rows that must precede it and at least k that need not follow it
(`ListDue`, `PagePlaced`).

Two arguments replace induction, which the provers cannot instantiate: an
injection of a finite set into one of its own size is onto; and a set of natural
numbers that is not empty has a least element, from which `SetInduction`
(induction for a set) follows. With the second, the recursive function `Totals`
is shown to add up (`TotalsDef`, `TotalsUpdate`, `TotalsShift`).

### Only model-checked

* Liveness, `WindowCloses`, `UnverifiedEventuallyGone`, `DeliveredUnlessFault`,
  `ListenerRecovers`, `GoneIsForgotten` and `SentInTheEnd`: liveness under
  fairness is out of the prover's reach.
* `SingleUse` and `PasswordCanBeSet`, which do not hold.

## Plan

The modelling stages are done: tokens, accounts, limiter, OAuth, WebSockets,
files, pagination and reports, mail tasks, roles. Every safety property that a
run checks and that holds is proved. What could follow: an abstract
specification, like `Revocation`, for another component (the delivery of a
message, the life of a mail), with a proof that the component implements it.

## Assumptions, and what is not modelled

* Password hashing, JWT signatures, the CSV parser and mail transport are taken to
  do what their libraries promise. Quoting in CSV and UTF-8 characters of three
  or four bytes are left out: one is the parser's business, the others cross the
  sample's end as those of two do.
* Redis eviction and data loss on restart are left out: with either, no blacklist
  can hold. Clock skew between hosts is left out: it adds its own size to the
  one-second bound.
* The value a row is sorted by does not change during a walk. In `Reports` a row
  matches all three conditions or none; the statements are independent, so this
  loses no order of events.
* The provider client (`app/core/oauth.py`) and S3 are network services: what they
  answer is an input, and each call takes effect as a whole or not at all.
* Not modelled: configuration (validators of one immutable object at start-up);
  middleware, logging, metrics, error handlers and health checks (no state that
  another request reads); schemas and migrations (declarative; the constraints
  they create are guards here, and the data the RBAC migration inserts is the
  initial state of `Rbac`); set-up of the database session and the Redis client;
  the wording of mails and the contents of answers.
* Hazards without a property. `change_user_password` checks the current password
  on the row it loaded, so it may overwrite a reset that came in between; a
  verification link checked before an admin un-verifies the account verifies it
  again; a WebSocket outlives the session it was opened with, since the token is
  checked at the handshake: no document promises otherwise. Two requests that
  assign one role: the primary key of `user_roles` refuses the second row, which
  a set of pairs cannot hold anyway. A test string that crosses chunks is not
  found: the scanner is a declared placeholder, and `MissedOnlyAcrossChunks` says
  that this is its only miss. Where a property exempts the known gap of a hazard
  and rules out the rest, the hazard's `note` says so.
