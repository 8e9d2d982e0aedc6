# Private Club: models, checks and proofs

A TLA+ development kept beside the code of Private Club, a closed dating club
run from Telegram: a FastAPI backend, an aiogram bot, two background workers,
PostgreSQL, Redis and MinIO. The modules are translated from `app/`; the tests
and documents are used only for what they say the program does.

## 1. Inventory

| Component | State it keeps | Operations | Talks to |
|---|---|---|---|
| Tables and ORM sessions (`models.py`, `db.py`) | `users`, `profiles`, `verifications`, `profile_photos`, `likes`, `matches`, `blocks`, `outbox`, and the write-only `consents`, `complaints`, `audit_log` | SELECT, flush, commit, close | everything |
| Member API (`main.py` v6) | none of its own; one thread per request | profile form, start verification, catalog, like, matches, contact reveal, visibility, block, complaint, delete account | tables, object store, Redis |
| Staff API (`main.py` v7, v8) | none | decide on a member, decide on a photo, manual cleanup, close a complaint, lists | tables, object store, Redis, outbox |
| Bot (`bot.py`) | one event loop | registration, age gate, verification file, profile photo | tables, object store, Telegram |
| Retention worker (`worker.py`) | its place in the loop | sweep expired verifications, sweep photos of deleted accounts | tables, object store |
| Outbox worker (`outbox_worker.py`) | the batch in hand | send, back off, dead-letter | `outbox`, Telegram |
| Object store (`object_storage.py`) | objects | put under a fresh key, delete, sign | MinIO |
| Sessions and limits (`redis_store.py`, `auth_v6.py`) | tokens, an index per account, counters | create, resolve, revoke, revoke all, limit | Redis |
| Sign-in (`security.py`, `staff_auth.py`, `staff_2fa.py`, `v6_auth`, bot `start`) | none of its own | check initData, allowlist, TOTP; register; issue a session | tables, Redis |
| Upload intake (`upload_validation.py`, `malware.py`) | none | detect, size limits, scan | ClamAV |

What makes the system hard: four processes change the same rows, PostgreSQL runs
at READ COMMITTED, and nothing takes a lock. Every handler reads rows into a
session, decides on its copies and commits; the bot awaits a download in
between, the API and the worker call the object store in between. A commit
writes only the columns the handler changed, over whatever the table holds by
then. The object store, Redis and Telegram are outside the transaction, so a
crash or a failed call leaves the two sides apart.

What makes each part correct:

* *media*: an object in the store is known to a row or to the upload that put it,
  unless that upload failed or its row was given a second file; a row forgets an
  object only after it is gone; no two rows share one; it is deleted only when it is
  due; expired media and the photos of deleted accounts are deleted in the end;
* *accounts*: a deletion is final, erases and unlinks; a ban stands, and no handler
  writes over a decision it has seen; a status that speaks of a profile has one;
  flags move only at their owner's request;
* *matching*: a match rests on two likes, two likes make a match, a block is
  respected and never breaks a page, a contact withdrawn is not shown;
* *notices*: sent at least once before SENT, nothing after SENT or FAILED, every
  notice settled;
* *sign-in*: a completed revoke-all leaves no session alive that was held when it
  began and not lost by the index before, a committed deletion or ban rests on one,
  and the index outlives the sessions in it;
* *limits*: a window admits no more than its limit, and refuses nobody before.

What the code does not keep, and no property claims: the limit on profile photos
(an album is counted before its first row is inserted), a verification file whose
challenge is given a second one, the object of an upload that fails after its put,
the limit of a window for calls that come after the counter has been dropped, a
session that the index has lost. Section 3 has the details.

`PROJECT.json` lists the hazards at their lines. Most are covered by a property;
the rest say why not.

## 2. Modules

```
ClubData ──┬─ ApiHandlers ─────┐
           ├─ BotHandlers ─────┼─ Club ── ClubInvariant ─┬─ MC_Club
           └─ RetentionWorker ─┘    │                    └─ ClubProofs ── CustodyProofs ── DeletionProofs
                                    └─ INSTANCE MediaCustody
Matching ─┬─ MC_Matching        Sessions ─┬─ MC_Sessions
          └─ MatchingProofs               ├─ SessionsProofs ──┐
RateLimit ─┬─ MC_RateLimit                └─ SignIn ─┬────────┴─ SignInProofs
           └─ RateLimitProofs                        └─ MC_SignIn
Outbox ─── OutboxProofs                 (Outbox: INSTANCE Notices)
```

**ClubData** has one variable per table, the bucket (`store`), the keys ever used
(`minted`) and `sess`, the ORM session of each task: API request thread, bot
handler task or worker pass. A session keeps each row twice: as loaded
(`rowSeen`, `verifSeen`, ...) and as the handler has changed it (`row`,
`verif`, ...). `Commit` merges column by column: `Column` keeps the table's value
where the copy was not changed. `Rollback` is an exception, a failed commit or
the end of a process. `DeleteObjects` deletes a subset of the loaded keys, `gone`;
the calls that fail are the rest. A call may also be executed and its answer lost,
so the handler clears only the keys in `known`, a subset of `gone`.
`verif` ids are numbers because `order_by(id.desc())` picks the newest one.

**ApiHandlers**, **BotHandlers**, **RetentionWorker**: a `Begin...` action is a
handler up to the last read before it leaves the database: guards from its
conditions and early returns, copies changed by its assignments. A handler with
an object-store call has a step for it, and `Commit` is another step, so
everything else may run in between. `delete_account` selects the photos, deletes
their objects, and only then selects the verifications: two steps
(`BeginDelete`, `DeletePhotos`) before the common `DeleteObjects`. The bot is one
event loop: `LoopFree` lets no other bot task run inside `age_yes`, which never
awaits; `media` awaits the download between `Begin...File` and `StoreFile`, and the
files of an album are handlers like any other: nothing makes a member wait for the
answer to its last file.
`StoreUnanswered` is a put that the store executes and whose answer is lost: the
handler ends, the object stays.

**Club** composes the three processes and states the properties. **MediaCustody**
is the abstract specification of what the system promises of a stored file; Club
implements it with `held` = the keys of uploads in flight and `referenced` = the
`storage_key` columns. The chain of custody can break in two ways. Where uploads may
fail (`Fails`), a key may be lost by its own upload: a put whose answer does not come
(`PutUnanswered`) or the end of an upload that holds it (`Abandon`). And a row may be
given a second file (`Replace`): two files of one album are both meant for the challenge
that was empty when they were loaded. Nothing is promised of the files of such a row
afterwards (`doubled`); everything is still promised of all others. Club has a history
variable for it, `filed`, the keys each verification row was ever given, which no action
reads, and `Doubled` = the keys that share a row. **ClubInvariant** has the inductive
invariants.

**Matching** has `likes`, `matches`, `blocks`, the flags these handlers read, and a
request per thread that runs statement by statement. The INSERT flushed by
`like` is invisible to others until the commit, but a second INSERT of the same
row waits for it (`Pending`) and fails after it. The match is inserted by the
commit and may fail on its own index (`LikeConflicts`). `TwoBlocks` is
`scalar_one_or_none()` meeting two rows. `matches` reads the caller's
`contact_reveal` once, when it loads the account, and the other members' row by
row. For the properties only, `quiet` records who has kept the contact off since
the request arrived, and `heard` whether the other member's like was committed when
it did.

**Outbox** has the table, the batch as the worker's session holds it, and the
notice being sent. Telegram may deliver without the worker learning of it. A
crash forgets the batch and keeps what was delivered. **Notices** is the promise.

**Sessions** runs the three functions of `redis_store.py` one Redis command at a
time; each may raise. `create_session` is SETEX (`SetToken`), SADD (`IndexToken`), then
EXPIRE and the return of the token (`ExpireIndex`), which does nothing to an index that
is gone and may raise after the token is indexed. `timed` stands for the time to live of
an index: the tokens that existed when it was last set, so the index may lapse once all
of those have (`LapseIndex`), with whatever a login has added since. For the properties
only, `due` records which sessions were held when a revoke-all began, and `missed` the
tokens an index lost unread: taken by the DEL of a revoke-all though they came in after
its SMEMBERS, or gone with an index that lapsed between their SADD and their EXPIRE.

**SignIn** extends Sessions with the `users` rows and the requests that use both:
`v6_auth`, the bot's `start` and `login_staff` (select by `telegram_id`, insert
when nothing is found, then a session), logout, and the deletion and the ban
(revoke all, then commit). Each statement and each command is a step and may
fail (`RequestFails`). A registration that meets the unique index is a
`RequestFails` too: that a person has one linked row is the database's doing and no
property here. `out` records, for the property, the sessions that a committed
decision was about.

**RateLimit** is `limited()` for one key: the clock is read, INCR runs at any later
time under the name of the window that was read, EXPIRE follows the first INCR. Answers
of either command may be lost, and Redis drops a counter when its time has come. Other
keys share no state with it.

Definitions whose comment begins with "Mutant" are slips the properties are
measured against: with a mutant in the place of the definition, the run of the
property must fail. They take no part in the specifications.

## 3. Runs

| Run | Instance | Shows |
|---|---|---|
| `Club_media` | 1 member, 1 API thread, 2 bot tasks (an album), 2 challenges, 2 keys, 2 photos, limit 1, manual cleanup | `TypeOK`, `AwaitingMediaIsEmpty`, `OneRowPerFile`, `OnlyDueFilesDeleted`, the inductive `CustodyInv`, refinement of MediaCustody (`FilesInCustody`) |
| `Club_account` | 2 API threads, bot, one account | `DeletedIsUnlinked`, `CreatedHasProfile`, `FlagsAreTheMembers`, `DecisionsStand` |
| `Club_retention` | 1 API thread, bot that may be killed anywhere, puts that are not answered, worker, fairness of the worker | `ExpiredMediaIsDeleted`, `DeletedPhotosAreDeleted`, `OnlyDueFilesDeleted` and its inductive `DueInv`, `PhotosAreKept`, refinement of MediaCustody with failing uploads (`FilesInCustody`) |
| `Matching_race` | 2 members, 2 threads | `TypeOK`, `MatchedBothLike`, `BlocksRespected`, `WithdrawnStaysPrivate`, `LikeIsKept`, `LateLikeMatches` |
| `Outbox_batches` | 1 member, 3 notices, batches of 2, 2 attempts, fairness | `TypeOK`, refinement of Notices (`KeepsPromise`), `EverySettled` |
| `SignIn_revoked` | 1 person with up to 2 rows, 2 tokens, 2 threads, every command may fail, logins overlap revoke-alls | `TypeOK`, `RevokedUnlessMissed`, `HeldLostByRevocation`, `ClosedForGood`, the inductive `SignInInv` |
| `RateLimit_window` | 2 threads, limit 2, 3 windows of 2 s, grace of 1 s, calls as late as they like | `WindowLimit`, `RefusedOnlyOverLimit`, the inductive `RateLimitInv` |

Runs that find the code at odds with what the repository says of it (each is one
finding in `PROJECT.json`):

| Run | What happens |
|---|---|
| `Club_ban` | `age_yes`, which loaded the account before a ban, writes AGE_CONFIRMED over BANNED; `media` (while its file is downloaded), `start_verification` and the profile form do the same with their statuses |
| `Club_erasure` | a first profile form is inserted beside a deletion that has looked for a profile and found none: the account without a telegram_id keeps the text, whichever of the two commits last. A changed form over an erased profile ends the same way and takes more steps |
| `Matching_missed` | two simultaneous likes make no match |
| `Matching_twoblocks` | two simultaneous blocks make the catalog fail |
| `Sessions_login` | a login during a revoke-all leaves a session no revoke-all reaches |

### What the passing runs permit

No safety property assumes anything of members, staff or the network: albums are sent,
uploads end anywhere (`BotFails = TRUE` in `Club_retention` and in the theorems), calls
are late, and what follows from that is written into the properties.

* *An album of verification files.* Both handlers load the empty challenge; the second
  commit writes its key over that of the first, whose object no row names any more.
  `FilesInCustody` permits it (`Replace`) and says that it costs no other file;
  `PhotosAreKept` that no photo is lost so. `Club_media` contains it.
* *An album of profile photos.* `BeginPhotoFile` counts before the download, and the
  rows come after it: the limit is passed. No property claims it; `Club_media` contains it.
* *An upload that fails after its put.* The object stays and no row knows it, so no
  sweep finds it (`PutUnanswered`, `Abandon`).
* *A late call.* `WindowLimit` speaks of a window until `Grace` seconds (2 in the code)
  after its end. The counter may be dropped then, and an INCR that comes later (connecting
  and INCR may take up to two seconds each) counts from 1 again and is let through.
* *A session the index has lost.* `RevokedUnlessMissed` and `ClosedForGood` exempt the
  tokens in `missed`. There are two ways into it, and both are a login that is under way:
  its SADD falls between the SMEMBERS and the DEL of a revoke-all (`Sessions_login`
  shows it), or the old time to live of the index runs out between its SADD and its
  EXPIRE. The token is handed out afterwards and no later revoke-all reaches it.
  `HeldLostByRevocation` closes the list: a token that has been handed out is taken out
  of the index, alive and unread, by a revoke-all only.
* *When a verification file is due.* SECURITY.md:11-13 says that the object is deleted
  "после решения/истечения retention" (after the decision, or when the retention
  period ends). The code deletes it at an approval (main.py:350) and leaves it, after
  every other decision, to the retention sweep. `OnlyDueFilesDeleted` accepts a
  deletion on any decision, which is what the line says; that a rejection does not
  delete at once is how the code reads the "/", and `ExpiredMediaIsDeleted` is the
  promise that remains for it.

The limit is one per window, and the windows are cut at multiples of their
length: around a boundary twice the limit fits into one window's length, by
design. Nothing in the repository promises more, and `WindowLimit` says no more.

Four more races are in the models and belong to no run, because no line of the
repository says what should hold there or because nothing is lost by them for
good: an upload that commits over DELETED, or a decision of the staff on a deleted
account, stops the worker's retries for that account (`DeletedPhotosAreDeleted`
therefore speaks of accounts that stay deleted); a file lands on the older of two
challenges if staff asks for a revision and the member starts again during the
download; an approval committed during a deletion that loaded the photo as rejected
stays; a block committed while a list is being built may come too late for that list.

### Bounds, and why they are enough

All properties speak of one account, one row or one pair, and handlers meet only
through the rows of one account (or, in Matching, of one pair), so one member
(two in Matching) with two concurrent tasks of the kind in question shows every
pairwise race. Two challenges are needed for "the newest is not the one loaded";
two keys and two bot tasks for one file to replace another; two photos and a limit of
one for the limit to be passed. `Club_retention` has one row of each kind, which is what
its liveness properties can afford: a sweep that deletes some of its objects and not
others is covered by the theorems only. Two user rows for one
person are needed for an account that is registered again after a deletion, and two tokens for a session that an index loses while
another of the same account, or one of the other row, is in it. Two threads that call again and again, a limit of two and three windows give a window
that is over while its last calls are still under way and one that starts meanwhile. Three notices in batches of two for
a batch to leave a due notice behind, and two attempts for a retry and a dead
letter. The outbox worker reads only whether a member is linked, so one member
that can be unlinked at any moment is enough. The bounds are `MaxVerifs` and
the sets `Photo`, `Key`, `Token` and, in SignIn, `User` (an insert or a put is
disabled when its set is used up), `Horizon` (the clock of RateLimit stops there),
`MaxCount` (no INCR beyond it; one more than the limit is enough for a refusal),
`MaxJobs`, `MaxAttempts` (5 in the code), `BatchSize` (50) and
`MaxPhotos` (6). `Requests` and `Decisions` restrict a Club run to
the operations of its question; between them the runs use every operation. The
theorems below hold for every value of all of these. Symmetry is used in runs of
safety properties only.

### Fairness

`Club!FairSpec` assumes of the worker alone that it keeps going: weak fairness of
starting a sweep (the loop of `main`, in a container that restarts), strong
fairness of a pass in which the store answers every call and of its commit: a
store that is unreachable now and then does not stay so, and the worker is not
killed at the same place for ever. Nothing is assumed of members, staff, the API
or the bot. `Outbox!FairSpec` assumes that time passes (`Elapse`), the loop polls
(`Select`), and, strongly, that an attempt at a notice started again and again
after crashes is in the end made (`Try`), answered (`Succeed` or `Miss`) and
committed: the process does not die at the same place for ever. Try and its
answer are fair per notice, so that a crash that always hits the same notice of a
batch is excluded too. Delivery is never assumed: a notice
may also end as FAILED.

## 4. Theorems

Checked by TLAPS for every value of the constants under the modules'
assumptions (`DataAssumption`, `MatchingAssumption`, `OutboxAssumption`, `SessionsAssumption`,
`SignInAssumption`, `RateLimitAssumption`, which TLC evaluates in every run).

* `ClubProofs!TypeCorrect`: `Spec => []TypeOK`.
* `ClubProofs!DeletedStaysUnlinked`: `Spec => []DeletedIsUnlinked`. Not inductive:
  a stale session could write `linked` back. `UnlinkInv` adds that no session has
  a linked copy of a row it loaded unlinked, that a row loaded unlinked is still
  unlinked, and that a session which deletes also unlinks.
* `ClubProofs!FlagsChangeByOwnHand`: `Spec => FlagsAreTheMembers`, because a copy
  differs from what was loaded only where its handler assigned.
* `ClubProofs!DecisionsHold`: `Spec => DecisionsStand`. What may be written over a
  decision is written by a handler that loaded the account before it (the finding
  of `Club_ban`); `MovesUndecided` says that every other handler leaves a decided
  status, and the profile of a deleted account, as it found them.
* `ClubProofs!ProfileBehindStatus`: `Spec => []CreatedHasProfile`. `KeepsProfile`: a
  profile that a session has loaded is never taken away, and a session that writes
  PROFILE_CREATED inserts or updates one, or has loaded the status from a row that had
  it. The loser of two first forms changes neither table.
* `CustodyProofs!FilesAreNotShared`, `CustodyHolds`, `ClubImplementsCustody` and
  `AwaitedChallengeIsEmpty`, with no assumption on members or failures. `FileInv` gives
  each key one home: the verification row it was filed in, the photo row it was inserted
  with, or the upload that holds it (`Filed`, `OneHome`); a put takes a fresh key, an
  upload writes it to one row, and rows do not change hands. `CustodyInv` adds what a
  session may know of a file. A key it loaded is still the row's, or the object is gone
  and, keys never being reused, stays gone, or the row was given another file since
  (`SeenFiles`); its copy differs from what it loaded only where it deleted the object
  or put one (`Copies`, `Writes`). So a commit drops the key of a stored object only if
  it writes a second file to the same row, and `ClubImplementsCustody`:
  `Spec => FilesInCustody` follows step by step. `AwaitInv` is the reason for the
  empty challenge: only `start_verification` makes an account wait, and inserts a
  row newer than all others with the same commit (`InOrder`, `WaitsOnly`); only an
  upload gives it a file, and its commit ends the wait (`UploadsOwn`).
* `DeletionProofs!OnlyDueFilesAreDeleted`, `ReasonsHold` and `PhotosStay`, with no
  assumption either. A handler decides from the rows it has loaded and calls the store
  later, when they may have changed. Three facts make that safe. A file has one row, in
  the tables and in all that any session has ever loaded (`OneHome`). A handler loads a
  row for a reason (`DueRows`). A reason stays: an inserted row does not become younger,
  a deleted account stays unlinked (`UnlinkInv`), and a decision or a deletion is the
  session's own. `PhotosStay` follows from `CustodyInv`: a photo's key is written by its
  INSERT and only ever cleared, so its row keeps it while the file is stored; of the two
  kinds of media only a verification's can be overwritten by an album.
* `MatchingProofs!MatchesRestOnLikes`, `BlocksHold`, `LikesAreKept`, `LateLikesMatch`
  and `WithdrawnContactsHold`. Likes and blocks are only added, so what a request found
  in them (`Found`) is still true at its commit; a member in `quiet` has
  had the flag off at every moment at which the request could read it. `LateLikesMatch`
  bounds the finding of `Matching_missed`: a like that was committed when the other one
  was asked for is in `heard`, is found by the lookup, and the match is inserted or was
  there (`LikeEnds`). `MatchingTypes` is `Spec => []TypeOK`.
* `OutboxProofs!OutboxKeepsPromise`: `Spec => Promise!Spec`, the refinement of
  Notices. `OutboxInv`: only the worker changes a pending notice, its copy says
  SENT only for what was delivered, each notice of a batch is tried once.
  `OutboxTypes` is `Spec => []TypeOK`.
* `SessionsProofs!RevokedForGood` and `IndexOutlivesHeld`: `Spec => []RevokedUnlessMissed`
  and `Spec => HeldLostByRevocation`, for any overlap of logins, revocations and lapses.
  `Indexed`: every held session is in `missed`, or in its account's index and among the
  tokens its time to live was set for; and a revoke-all that has read the index has read
  every session it owes a revocation, but those in `missed`. `SessionsTypes` is
  `Spec => []TypeOK`.
* `SignInProofs!SignInImplementsSessions`: `SignInSpec => Spec`. Every step of SignIn
  issues one Redis command of Sessions or none, so both results carry over.
  `ClosedAccountsStayOut` rests on `SignInInv` (`RequestsServe`): a decision is ready
  only when the sessions it revokes are dead or in `missed`, and a token is issued once,
  so they stay so.
* `RateLimitProofs!OpenWindowsAreCounted` and `WindowLimitHolds`: while a window and its
  grace last (`Open`) its counter is not dropped, and it counts every call let through and
  the one between INCR and EXPIRE (`Pending`): that is `RateLimitInv`. It needs no bound on
  how late a call is, because a late EXPIRE only prolongs the life of a counter.
  `RefusalsAreDue`: a counter never exceeds the INCRs its own window has seen.

Every safety property of a passing run is a theorem. Only model-checked: what needs
fairness (`ExpiredMediaIsDeleted`, `DeletedPhotosAreDeleted`, `EverySettled`), which the
prover does not reach, and the counterexamples of the five runs that find one.

## 5. Abstractions

* A verification's `media_file_id` and `storage_key` move together and are one
  `key`. Its `status`, `note` and `code` are never read to decide anything and
  are left out, as are consents, audit rows and the wording of notices.
* In Club, members are already registered and their tokens already issued;
  `Current` checks the account only, since every account can hold a token.
  SignIn has the registration and the tokens, and of an account only whether it
  is open, banned or deleted; a suspension is a ban under another status.
* In SignIn, initData and TOTP are accepted or not: a request refused by either has
  changed nothing. `current()` is two steps, the token and then the row. A session
  issued after a deletion has committed (its login found the row before) is
  alive in Redis and refused by `current()`; `ClosedForGood` does not speak of it.
* RateLimit has one clock for the processes and for Redis.
* Consecutive SELECTs of a handler are one step where nothing is called between
  them (`delete_account`'s two loads are not). Two handlers call Redis in between and
  are one step all the same, the rate limit of the profile form (main.py:236, before the
  profile is selected at 239) and of a like (main.py:258, before the target is loaded at
  113). No property's outcome depends on that gap: profiles are added and erased and never
  taken away, and what a stale copy of the account permits is in the models already. In Matching, `blocked_pair` and the
  lookup of the like are one step, and `catalog`'s filters are left out: they
  only drop rows.
* An INSERT takes its id when it commits. A file refused by validation or
  the scanner, and a store that fails on put, end the handler (`BotRollback`).
* Matching's threads roll back only on the conflicts the code provokes; a crash
  of the API adds nothing, as a rollback there leaves all tables as they were.
* The outbox worker's session could serve a member loaded earlier in the same
  batch from its identity map; the model loads it again for each notice.
* Not modelled: the demo routes (absent in production), middleware, pages,
  start-up checks, migrations, cryptography, staff lists, complaints. Upload intake
  (`detect`, the size limits, `scan`) is sequential and stateless, and its tests
  reach every branch. Telegram, PostgreSQL, Redis, SQLAlchemy and MinIO are modelled from how `app/` uses them.

## 6. Plan

Done: the five systems of section 2, each with its invariants and its refinement
proved. Left, in the order of what they would add:

1. *Sweeps of several rows*: `Club_retention` with two photos, so that a sweep may
   delete one and fail on the other under the liveness properties, if the run can be
   made small enough.
2. *Progress without fairness*: the safety half of the three liveness properties (what
   is expired and stored stays in reach of the next sweep), which is provable.
3. *Announcements*: the notice a decision inserts commits with the decision, and the
   worker sends it later; a composition of Club's `Moderate` with Outbox would
   say what a member may be told of a status that has changed since.
4. *Staff roles*: `login_staff` promotes no existing member, and only it reads the
   allowlist, so a session outlives a removal from it; roles and the allowlist as
   state that changes between restarts.
5. *Intake*: `detect`, the size limits and the scan as pure operators against a
   reference, if the format list grows.
