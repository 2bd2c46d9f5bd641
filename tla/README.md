# naver-cafe-monitor: specifications and proofs

TLA+ models of naver-cafe-monitor, checked with TLC and, where it matters most,
proved with TLAPS. `PROJECT.json` lists the runs, the theorems, the hazards and,
under `map`, the source lines each definition translates.

## 1. The system

A cron job watches two boards of a Naver cafe, announces new posts on KakaoTalk
and keeps a history in MySQL. A FastAPI service with an Astro front end shows
the history behind a login and can send a post again. The API is deployed
blue-green by a self-hosted GitHub runner.

```
 cafe ──HTML──> batch run (cron, */30) ──send──> KakaoTalk <──resend── API <── web client
                  │        │       └ token file <── kakao_refresh (cron, */3 h)     │
                  │        └ last_seen.json (fallback)                              │
                  └────── posts table (MySQL) <──────read────────────────┘
```

### Inventory

| component | state it keeps | operations | what is hard | what makes it correct |
|---|---|---|---|---|
| **batch monitor** `batch/src/batch.py`, `crawler/post_tracker.py`, `shared/post_repository.py` | `posts` table, `last_seen.json`, the locals of a run | load cursor, list a page, announce, retry, save, retry the save, write the cursor back | runs overlap (no lock); every call fails; commits whose answer is lost; crash between send and save; two cursor stores | nothing skipped; SUCCESS only after delivery; repeats only after failures; every post eventually handled |
| **Kakao token** `messaging/kakao_auth.py`, `kakao_refresh.py`, `batch.py:63-80` | `kakao_token.json`, its lock file, a copy in each process, the token pair Kakao accepts | load, refresh (lock held over the HTTP call), commit changes, expiry alert | three kinds of process; rotation is not idempotent; crash between rotation and write; stale copies | the file holds the newest refresh token; nothing another process wrote is undone; one alert a day |
| **Kakao messages** `messaging/kakao.py`, `shared/kakao_format.py` | none | text, chunked text, notice summary, resend; preview of the web | limits and boundaries, markers, several messages for one notice | no text lost or doubled, no message cut, a resend is what the page showed |
| **image download** `crawler/image_downloader.py` | files on disk | download with existence check, filename | a stream cut off midway, retried notices, overlapping runs in one directory, dropped failures | an image that the page showed is missing only after a failure and never takes another's place |
| **summaries** `notice/` | none | external command line tool, image analysis | timeouts, fallbacks | – |
| **crawler** `crawler/session.py`, `naver_cafe.py`, `parser.py` | cookies, the browser | log in, fetch, parse, close | a session that ends shows empty boards; a browser closed under a job | – |
| **session tokens** `api/src/auth/token_service.py`, `router.py`, `shared/refresh_token_repository.py` | `refresh_tokens` (one row per user), cookies of the browser | issue, rotate, detect reuse, logout, Google sign-in | find / compare / upsert are separate statements; two API processes during a switch; the client's own concurrent refreshes | at most one usable refresh token; no refresh revives a session that was logged out; a client that behaves is not logged out |
| **lockout and rate limit** `login_service.py`, `shared/rate_limit.py`, `user_repository.py` | `rate_limit_buckets`, `failed_login_count`, `locked_until` | check and increment, lock, reset, purge | insert race, window boundaries, counters read before they are changed | never more than the limit in a window; locked means locked |
| **posts API** `api/src/main.py` | reads `posts` | list, detail, resend | resend beside a running batch | – |
| **web client** `web/src/lib/auth-client.ts`, `middleware.ts` | cookies | `csrfFetch`: 401, refresh, retry once | several tabs and requests | – |
| **legacy poller** `batch/src/__main__.py`, `scheduler/`, `crawler/post_tracker.py` | `last_seen.json`, its copy in memory, the scheduler's job | start, stop, poll, register, save, handle | the cursor is saved before the posts are handled; stop does not wait for the job | nothing announced twice without a failure; a lost post has a cause; a stop ends; no board starves |
| **blue-green deployment** `scripts/deploy/docker_bluegreen_deploy.sh`, `deploy/` | running colours, the active one, nginx upstream | choose, start, health check, switch, stop | failure at each step | the site always has a healthy colour |
| faces and photos, SQL migrations, installation scripts | – | – | run by hand, or no longer called | – |

Everything in this code that is hard to test is listed, at its line, under
`hazards` in `PROJECT.json`.

## 2. Modules and plan

| module | models | with it |
|---|---|---|
| `BatchMonitor` | the program's reason to exist: one cron run, and several that overlap; implements the abstract `PostHistory` | `MCBatchMonitor`, `BatchMonitorProofs`, `BatchSingleProofs` |
| `KakaoToken` | the token file and everyone who reads and writes it | `MCKakaoToken`, `KakaoTokenProofs` |
| `AuthSession` | sessions and their cookies; implements the abstract `SessionStore` | `MCAuthSession`, `AuthSessionProofs` |
| `LoginLockout` | password sign-in, rate limit and account lock, over time | `MCLoginLockout`, `LoginLockoutProofs` |
| `KakaoText` | texts and messages: pure operators, no state | `KakaoTextProofs` |
| `NoticeDelivery` | the inside of one notice: files, texts, messages, resend; extends `KakaoText` | `MCNoticeDelivery`, `NoticeDeliveryProofs` |
| `CafePoller` | the resident service that came before the batch | `MCCafePoller`, `CafePollerProofs` |

How they fit together: a step "send" of `BatchMonitor` is a `_send_template` of
`KakaoToken`; an attempt at a notice of `BatchMonitor` is a walk through
`NoticeDelivery`; the sign-in of `AuthSession` is a `Succeed` of `LoginLockout`.
Each module keeps of the others only that a call returns or raises.

Every safety invariant and action property that a passing run checks is also a theorem,
for every value of the constants. What stays with TLC is liveness: `EventuallyHandled`,
`LockServed`, `AccessRecovers`, `StopEnds` and `CatchesUp` rest on fairness and so on
ENABLED, which the provers at hand do not treat. The two violations (`auth_expiry`,
`notice_cut`) are TLC's as well.

The library's rules of induction take an operator as a parameter, which no prover
here can instantiate. What a recursive function computes (`Size`, `Chunks`, the
flattening of a sequence) is therefore proved by the least counterexample: the numbers
at which a claim holds are a set, and `NoFirstFailure` of `KakaoTextProofs` says that
a set that has 0 and passes from each number to the next has them all.

A theorem that needs a hypothesis names it (`Seeded`, `SingleRun`, `AllDb`, `DbAvailable`,
`WholeWrites`, `ExpiryTold`, `SingleBatch`, `OneProcess`); the sections below say why the
statement is false without it, and the runs satisfy it. Two proofs corrected the model
or a property: see `WindowBound` in section 6 and `RepeatsPaidByFaults` in section 3.

Of the plan, only the deployment script is left (section 9).

No module uses a RECURSIVE operator; parameters are CONSTANTS with named
assumptions; each invariant is a conjunction of named parts.

## 3. BatchMonitor

### State and actions

| variable | code |
|---|---|
| `newest` | the cafe: highest article number of each board. `Page(b)` is the first page, all that `_fetch_new_articles` reads |
| `posts` | the `status` column of the `posts` table, `"none"` without a row; upsert on the key (board, post) |
| `file` | `last_seen.json`; a missing file, a missing key and text that cannot be parsed all load as 0 (`JsonFileStore.load`) |
| `sent` | deliveries of each message at KakaoTalk, counted up to `SentCap` |
| `faults`, `gaveUp` | failures so far; notices whose last attempt raised (history variable) |
| `pc`, `mode`, `lastSeen`, `articles`, `maxId`, `attempt`, `part`, `saveTry`, `outcome` | the locals of a run: where it is, connection or file, the dictionary of cursors, the loop's remaining articles, `max_id`, the attempt at a notice, the next message of it, the try at its save, SUCCESS or FAIL |

A step is one call out of the process, because that is where another run, a
failure or the death of the process can come between: connect, load the
cursors, list a board, send one message, save one row, open the cursor file,
write it. What the code does between two such calls is part of the action: the
save of a post also advances `max_id`, leaves the loop after the last article
and writes `max_id` back to `last_seen`.

Each call has its failing twin. A send or a save that raises may still have
taken effect (`MayDeliver`, `UpsertRaises`): the answer may be what was lost.
What the code does with the exception differs and is the heart of the model:

* photo board: no handler around the send, so the run jumps to its `finally`
  and the notice board is not reached; a failed save is logged and ignored;
* notice board: the whole article is retried from its first message, after the
  last attempt a FAIL row is written; the save has tries of its own that do not
  send again; when they are used up the loop is left before `max_id` reaches
  the article;
* without a connection nothing is recorded and the save counts as done;
* `Crash` loses the locals at any point.

A run is started by cron every half hour (`Connect`), whatever the other slots
of `Runs` are doing: there is no lock in the code. Slots are reused, so the
number of runs over time is not bounded, only how many overlap.

`Poison` is the set of photo posts whose page or text makes every attempt
raise; they need no fault budget.

### Runs

| run | instance | shows |
|---|---|---|
| `batch_db` | one run after another, empty history, 3 posts per board on a page of 2, notices of 1 and 2 messages, 2 attempts, 2 save tries, any 3 failures | `TypeOK`; `NothingSkipped`; `SuccessMeansDelivered`; `RepeatsPaidByFaults`; `HolesPaidByFaults`; `SuccessIsFinal`; `RecordedNotResent`; `ImplementsHistory` |
| `batch_fallback` | the same with seeded stores, runs that cannot connect and continue from a stale file, file failures, one poisoned photo post | `RepeatsPaidByFaults` in the mix of both stores, `FileCursorCovers` |
| `batch_overlap` | two overlapping processes, seeded history, connection, send, save and file failures (an emptied file included) and crashes | `NothingSkipped`, `SuccessMeansDelivered` under overlap |
| `batch_live` | one slot, page of 3, any 2 failures, fairness | `EventuallyHandled` |

`PostHistory` is what a reader of the posts table may rely on, without runs, cursors,
parts and attempts: a post is announced (`Tell`) or recorded (`Record`) only above the
whole history, recorded as SUCCESS only when announced, as FAIL only on the notice board,
and, once the history has begun, only when every post between its end and the new one
that is still on the page was announced. `ImplementsHistory` maps `status` to `posts` and
`told` to the posts whose every part was delivered; sending a part that is not the last
missing one, and saving once more what is saved, are stutters. With overlapping runs, or
a run on the stale file, it is false: both announce posts that are recorded.

Three things the model contains and the properties leave room for:

* with overlap a post that one run has recorded is announced again by the other,
  because nothing is read between the load of the cursor and the send
  (`RecordedNotResent` is checked for one run at a time; `db/ddl.sql:38` says
  that the key prevents it);
* a failed save of a photo post leaves a hole in the history that no later run
  fills; `HolesPaidByFaults` says that there is no other hole;
* with a photo post that always raises (`Poison`) no run reaches the notice board
  any more; `EventuallyHandled` is checked without one.

Two things the model takes for granted:

* a page links a post once, so `Page` is a set. `_fetch_new_articles` keeps a list and removes
  no duplicate (`batch.py:110-123`): of a post linked twice, both would be announced in
  one run;
* a notice has a fixed number of messages (`NoticeParts`). The code reads the images anew in
  each attempt, and another answer may make more or fewer messages: `SUCCESS` then means all
  messages of that attempt. Which messages a text makes is the subject of `NoticeDelivery`.

Bounds. Three posts per board is the least for which a post can lie strictly
between two recorded ones while another scrolls off a page of two. Two attempts
and two tries separate "retry" from "last"; two messages separate the first
from the last. Three failures let one article use up its attempts (two) and
then fail its save or crash. `SentCap` is above 1 + `MaxFaults` wherever
deliveries are counted; elsewhere only "at least once" matters. Deadlock is
checked everywhere: a slot can always start a new run.

Fairness (`FairSpec`). Weak fairness on the normal steps of each slot: cron
fires every half hour and the operating system keeps a started process running.
Nothing obliges anyone to write a post or a call to fail, and failures are
finitely many (`MaxFaults`); with infinitely many a notice could be given up
and a photo post never announced. A hung HTTP call (the KakaoTalk calls have no
timeout) is outside this assumption. `EventuallyHandled` speaks of posts that
stay on the page: the program reads only the first page, and a post that
scrolls off before a run succeeds is lost by design.

### Proofs (`BatchMonitorProofs`, `BatchSingleProofs`)

For every value of the constants allowed by `BoundsAssumption` and
`ConfigAssumption` – any number of overlapping runs, posts, parts, attempts,
tries and failures, any page size:

* `TypeCorrect`: `Spec => []TypeOK`. `TypeOK` is not inductive: the next part
  of a notice stays within `MaxParts` only because it never exceeds the number
  of parts of the article the run is at. `TypeInv` adds that (`PartOK`).
* `SuccessCorrect`: `Spec => []SuccessMeansDelivered`. `DeliveryInv` adds to
  `TypeInv`, for each run, what it has sent of the article it is at (`SoFar`):
  at `sendNotice` all parts before `part`, at a save with outcome SUCCESS all
  of them. Other runs and crashes cannot undo it, because `sent` only grows
  (`SentStep`) and a run's locals are its own (`OneMoves`).
* `SkipCorrect`: `Seeded => Spec => []NothingSkipped`. `SkipInv` says that
  every recorded post is a *frontier*: all posts on the page from the seed up
  to it are handled (`Covered`). For a run with a connection the cursor it
  loaded is covered, and below any article it still holds the only unhandled
  posts are in its own list (`Queued`). The row it writes is for the lowest
  article left, so the new row is covered too, however stale its cursor is;
  rows of other runs only help. Runs without a connection write no rows.

`Seeded` (a history with at least one row per board, what
`db/migrate_last_seen.py` writes) is necessary, not a convenience: with an empty
history two overlapping first runs take only the newest post of the page each
saw, and a post published in between lies below the later row without having
been announced. From an empty history without overlap the property holds:
`batch_db` checks it, and `SkipCorrectUnseeded` below proves it.

`BatchSingleProofs` has what is true as long as a run ends before cron starts the next
(`SingleRun`: at most one slot). With overlap each of these is false, because a run that
loaded its cursor earlier announces or records what another one already has. Still
arbitrary are the page, the number of posts, parts, attempts, tries and failures, and
where a run crashes or an answer is lost.

* `ResentCorrect` (`RecordedNotResent`) and `FinalCorrect` (`SuccessIsFinal`), for runs that
  always have their database (`AllDb`; a run on the stale file does announce recorded
  posts). `RowInv`: while a board is still to be listed the cursor in memory is its newest
  row; while it is worked on every row is below every article the run holds, except
  that the notice being saved may have its row already, from a commit whose answer was
  lost, with the outcome that is being saved again.
* `HolesCorrect` (`HolesPaidByFaults`), under `AllDb`. The failed save that makes a
  hole comes before the row that closes it, so `GapInv` counts the holes to come as well: a
  post without a row, above some row, and below a row or below an article the run still
  holds. What a run holds is an unbroken stretch of the page (`Stretch`), so a hole begins
  only where a save failed.
* `HistoryCorrect` (`ImplementsHistory`), under `AllDb`: every step of the batch is a step of
  `PostHistory` or a stutter. That the history passes nothing untold needs `HistoryInv`: a
  post on the page above the history, below an article the run holds and not held
  itself was announced (`Untold`), because the run held it, sent it, and only its save
  failed. A save that repeats a row the lost answer had written is a stutter because the
  outcome is the same (`RowsBehind`).
* `SkipCorrectUnseeded` (`NothingSkipped`), under `AllDb`, without `Seeded`: from `HistoryInv`,
  since a new row lies above all others.
* `RepeatsCorrect` (`RepeatsPaidByFaults`), with pymysql installed (`DbAvailable`), in
  any mixture of runs with and without the database. `PaidInv` allows each message as
  many deliveries as failures, and one more if the history will keep later runs from
  sending it (`Backed`: a row at or above the post) or the present run stands at that
  post and is past the send. What a run may still send has not had that extra
  delivery. Without pymysql no run ever has a database and the statement is false:
  a poisoned photo post lets every run escape before it writes the file, so the posts
  before it are announced each time, without a failure.
* `FileCorrect` (`FileCursorCovers`), if the file starts with both boards and no write of it
  is interrupted (`WholeWrites`; an emptied file makes the next run a first run, which
  takes only the newest post). `WholeWrites` asks for more than that: no crash at all, not only
  none between opening and writing. With overlap it is false even so: the
  cursor in the file may move back, and a run that loads the file while another has just
  emptied it starts as a first run and passes over all but the newest post.
  `CursorInv`: the file, and the cursor and `max_id` of a run without a database, pass
  nothing on the page that was not announced or given up; what is missing below the
  article at hand is what the run holds. A run with a database reads the file but
  writes back only what it read from there or announced.

Checked by TLC only: `EventuallyHandled`.

### Not modelled here

The text of messages and summaries (`summarize_short` is called once for the message of a
photo post and again for its row, `batch.py:204`, so the two may differ), pauses between
retries, logging; the token alert at the start of `run()` and the 401 refresh inside a send
(see `KakaoToken`); posts deleted from the cafe; article numbers that are not consecutive (the code
only compares them); the connection that dies and is not reopened within a run
is the repeated "save" fault.

## 4. KakaoToken

### State and actions

| variable | code |
|---|---|
| `file` | `config/kakao_token.json`: access token, refresh token, its last day (0 when the file does not tell it), date of the last alert. Tokens are numbered in the order Kakao issues them |
| `locked` | who holds `kakao_token.json.lock` (`flock`, released by the kernel when a process dies) |
| `mem`, `disk`, `stamp` | per process: `KakaoAuth._token_data`; the `disk` dictionary read under the lock and merged; the `today` of `mark_alert_sent` |
| `why`, `pc` | per process: whether it is sending the alert, working, or is the refresh cron; and where it is |
| `kakao`, `dies` | Kakao (external): the one refresh token it honours, the newest access token, the oldest it still accepts; the last day of each refresh token |
| `day`, `faults` | the date in Korean time; failures so far |
| `strayed`, `alerts` | history: a newest token never reached the file; alerts delivered per day |

Processes come in three kinds and are slots used again and again. A batch loads
the file, decides about the alert, sends it, records its date, and sends its
messages; a resend of the API loads and sends; the refresh cron loads and
refreshes. Every send is `_send_template`: after a 401 one refresh and one more
try. A step ends at each call out of the process (KakaoTalk, the token
endpoint, the lock, the replacement of the file), because there another process
can come between or the process can die. `AskRaises` and `PostRaises` let Kakao
have acted on a request whose answer is lost; `WriteRaises` is the temporary file
that cannot be written or renamed. All exceptions end in `Raise`: the alert
catches it and the run goes on, the refresh cron exits.

Two things the model contains and no property calls wrong: two overlapping batches
both send the alert, because `should_alert_today` asks the data the process
loaded, not the file (`AlertsPaidByFaults` is checked for one batch at a time);
and `Setup`, after which the new token is in `batch/config/kakao_token.json`
(`kakao_setup.py:30`) where no process looks for it, so that it counts as strayed.

Midnight can fall anywhere, also between the decision about an alert, its
delivery, `today` of `mark_alert_sent` and the write.

### Runs

| run | instance | shows |
|---|---|---|
| `token_file` | a batch, the refresh cron, a resend; 3 refresh tokens, 2 days, any two failures | `TypeOK`, `FileIsCurrent`, `PresentsCurrent`, `ExpiryBelongs`, `NothingUndone`, and `AlertsPaidByFaults` |
| `token_live` | the three processes, timeouts and failed writes, fairness | `LockServed`, `AccessRecovers` |

Bounds. Two rotations let a process that read before the first write after the
second; the last refresh token is not rotated again and the last access token
is repeated, so nothing stops at the bound. Two days with a refresh token that
dies on the first or lives into the second make the alert due and not due, the
token alive and dead. One failure is enough to lose the only copy of a token,
two are needed for two repetitions of an alert. `AlertCap` lies above
1 + `MaxFaults` where alerts are counted.

`ExpiryBelongs` is checked without answers that rotate the token and do not
tell `refresh_token_expires_in`: there the code keeps the expiry of the token
that is gone (line 186), and the property does not hold.

Fairness (`FairSpec`). Weak fairness on the steps of each process: cron starts
it, the operating system runs it, and a call to the token endpoint returns
within its 30 seconds. Strong fairness on taking the lock, because it is free
again and again, not continuously; that is what a blocking `flock` gives.
`AccessRecovers` speaks of a refresh token that is alive and has not strayed;
otherwise only a new authorization helps.

### Proofs (`KakaoTokenProofs`)

For every number of batches, crons and resends, every number of tokens, days
and failures: `TypeCorrect`, `FileCorrect` (`[]FileIsCurrent`),
`PresentCorrect` (`[]PresentsCurrent`), `UndoneCorrect` (`NothingUndone`),
`ExpiryCorrect` (`[]ExpiryBelongs`) and `AlertsCorrect` (`[]AlertsPaidByFaults`).

`FileIsCurrent` is not inductive: it says nothing of what a process that is
about to write has in its hands. `FileInv` adds that a process is between read and
write exactly when it holds the lock, and that at most one does (`LockInv`);
what it holds then (`CopyInv`): before it asks, the file as it is; with the
answer, Kakao's newest token; with a new alert date, the file's tokens; and that no
copy has a token Kakao has not issued (`AccessInv`), so that an answer is newer
than the file. Most actions fall into a few kinds – quiet, taking the lock,
dropping it, replacing the file, the world outside – with one lemma each.

`ExpiryCorrect` assumes that Kakao tells the expiry with every rotated token
(`ExpiryTold`; see Bounds). An expiry travels with its token: every copy of the file, in
memory or read under the lock, has the expiry of its own token or none (`OwnInv`), and
Kakao never changes the last day of a token it has issued.

`AlertsCorrect` assumes one batch at a time (`SingleBatch`); resends and refresh crons are
as many as they like. `AlertInv`: today's alerts are paid for by failures, or one more
was delivered and its date is in the file or on the way there (`Today`); a batch
that has decided to send found today's paid for (`Mine`), and who writes the file for
another reason puts back the date it read, which the lock of `FileInv` keeps from
being older.

Checked by TLC only: the liveness properties.

### Not modelled here

A token file that is damaged (it is only replaced by rename, so a reader never
sees half of it); `_save_token`, which nothing calls; image uploads, whose
refresh is that of `_send_template`; a KakaoTalk call that never returns (it has no
timeout), which the fairness excludes.

## 5. AuthSession

### State and actions

| variable | code |
|---|---|
| `row` | `refresh_tokens.token_hash` of one account (`user_id` is the key, so there is one row or none). Refresh tokens are numbered in the order they are issued |
| `jar` | cookies of each browser: `short` is the pair its access and csrf cookies come from (both Max-Age 3600), `long` the pair of its refresh cookie (86400) |
| `young`, `alive` | time: the access tokens from `young` on and the refresh tokens from `alive` on have not expired |
| `loop` | the event loop of each uvicorn process. `refresh_session`, `login_endpoint` and `logout` are `async` functions without an `await`, so a loop serves one at a time; the Google callback is a plain function and runs in a worker thread |
| `pc`, `sent`, `holds` | each open page: where it is, the refresh cookie its request carries, the row that was read for it and then the pair its answer brings |
| `issued`, `renewed`, `family`, `signIns` | tokens issued; history: tokens exchanged, the sign-in each token goes back to, sign-ins |

The clients are pages that follow `middleware.ts` and `csrfFetch`: a click is
answered 403 without the csrf cookie (taken as final), 401 with an expired access
token (one refresh, then the click once more) or is served. Between the answer of
the API and the arrival of its cookies anything can happen, also that they
never arrive (`LoseAnswer`: a lost connection, or `log_auth_event` raising after
the row was written). Only a refresh has a point inside where somebody can come
between, from `find_by_user` (`FindRow`) to the comparison and the write
(`Refresh`); in one process that is the Google callback. An abstract module,
`SessionStore`, says what the row promises: sign-ins open a session, a renewal
uses up a token that was never used, and anything may end the session.

### Runs

| run | instance | shows |
|---|---|---|
| `auth_session` | one process; two pages in one browser, one in another; both ways to sign in; 3 tokens; one failure of any kind | `TypeOK`; `Implements`; `JarIsCurrent`; `OvertakenInFlight` |
| `auth_expiry` | one page, no failure | the csrf cookie expires with the access token, so the refresh that should follow is never tried: against `auth-client.ts:5` and the PRD |

Bounds. Three tokens are a sign-in, its renewal and either a second renewal or
another sign-in, which is what a token that is stale in one browser and
replaced in another needs; three pages are the least for two in one browser beside a
competing one. `FindRow` and `SignIn` leave a token for each refresh being
served (`Room`), so the bound stops nobody halfway.

`OvertakenInFlight` is what is left of F-08, that a sign-in ends the session before it: a
Google sign-in that falls between the two halves of a refresh is overwritten by the
session it should end, and only such a refresh can do that.

`Implements` holds for one process. While a deployment switches colours two
processes serve, a logout at one falls into a refresh at the other, and the refresh
writes the row again. `JarIsCurrent` speaks of what happens without failures: a lost
answer leaves a cookie that the next refresh takes for a theft, and so do two
pages of one browser that refresh at once, where the session ends but is never
left alive beside an old cookie.

### Proofs (`AuthSessionProofs`)

`TypeCorrect`, and `StoreCorrect`: with one process, `Spec => Implements` for every
number of browsers, pages, tokens, sign-ins and failures. The argument
(`StoreInv`): the loop is in a refresh exactly while a page is at `compare`
(`LoopInv`), so with one process there is at most one and no logout falls between;
the token of the row was never exchanged, nor the one read by the refresh being
served, and while it is being served the account has a session – a sign-in may have
replaced the row but not removed it (`FreshInv`). Each action then is a step of
`SessionStore` or leaves it alone (`Kept`).

`OvertakenCorrect` (`OvertakenInFlight`) needs no invariant beyond `TypeOK` and holds for any
number of processes: every action but the exchange leaves the row, deletes it or puts the
newest sign-in there (`RowMoves`).

`JarCorrect` (`[]JarIsCurrent`, one process). What has to be known is where a token can be.
`TokenInv`: the tokens of one sign-in never leave the browser that signed in (`HomeInv`); a
token that travels in an answer is in no jar, no request and no other answer
(`FlightInv`) and is the newest of its sign-in that a row or a refresh has (`NewestInv`);
so, until an answer is lost, the row's token is in the jar or in an answer on its way
there (`JarInv`). With two processes two answers of one sign-in can travel at once
and arrive in the wrong order.

### Not modelled here

Several accounts (rows and cookies are independent); `rotated_from`, `issued_at` and
`expires_at` of the row, which no request reads; the state cookie and the code
exchange of Google; who may sign in, failed sign-ins and the lockout (see
`LoginLockout`); the logout button of the web, a plain form without the csrf header, which
is always answered 403 and changes nothing – `Logout` is that of a client that
sends the header.

## 6. LoginLockout

### State and actions

| variable | code |
|---|---|
| `clock` | the time of the server, in ticks; `Window` and `Lock` are 5 and 15 minutes in the code |
| `count`, `window_end` | the rows of `rate_limit_buckets`, one per address and one for the account; `count` 0 is a missing row |
| `failed`, `locked` | `users.failed_login_count` and `locked_until` |
| `pc`, `now`, `ip`, `seen` | the request a process is serving: where it is, `current`, its address, the failures the user row had when it was read |
| `passed` | history: the requests each bucket let through, with the time they carry (`at`), when their window was opened and their number in it |

`login()` is one sequence of short transactions: the address bucket, the user row,
the account bucket, the password, then the counters. A step is one transaction.
The SELECT ... FOR UPDATE of an existing bucket holds it up to the commit, so
`Check` is one step; of a missing one it holds the gap, which several may do at
once, and then the first INSERT makes the others fail (`CheckNoRow`, `Insert`). The
user row is not held between its read and its update: `FindUser` keeps `seen`,
`Fail` adds one to the row and compares with `seen`, and `SetLock` is a third
transaction. `current` is taken once, at the beginning. `Abort` is a request that
ends in the middle, by an exception or the death of its process.

Time passes in `Tick`, but no request stays open for more than `Patience`
ticks (database reads end after 30 seconds, a window lasts five minutes). `LimitAssumption` asks
for no more than the constants of `rate_limit.py` give: a request is not open longer
than a window (`Patience <= Window`), and a lock, 15 minutes, is longer than a window, 5,
by twice the time a request stays open (`Lock >= Window + 2 * Patience`).

### Run `login_lockout`

Two processes (the colours of a deployment while both serve), one address, limits 3
and 2, window 2, lock 4, clock up to 5, one aborted request. The clock covers two
windows and a lock after them; limits above 1 separate the request that opens
a window, one inside, and the one that reaches the limit; the limit of the
address is above that of the account, as in the code.

* `WindowBound`: of the requests that begin within any span as long as a window, fewer
  than twice the limit are let through (at most `2 * Limit - 2`), and one more for each
  process beyond two. Windows follow one another, so a span meets two of them, and one
  that fills is prolonged to the end of the lock, so neither is full; that has to
  survive the missing row, several processes, and times taken long before the row is
  read. With more than two processes the plain bound is false: a third window may be
  opened, and requests that began before it was, within the span, are counted in it. Each
  needs a process of its own, hence `Beyond`.
* `LockFollowsFailures`: the count compared is the one read before the password was
  checked. Each request served beside this one, and each that died before it set
  the lock, may put the lock off by one failure, and no more: when nobody is about
  to set it, an account with `AccountLimit + |Procs| - 1 + faults` failures has been
  locked.
* `LockLiftedByLateRequestsOnly`: a lock that has not run out is lifted only by a right
  password that was on its way when the lock was set
  (`now[p] <= locked - Lock + Patience`), never by a request that came later.

`failed_login_count` survives the lock, so after it a single wrong password locks
again; that is the code's choice and nothing here speaks against it.

### Proofs (`LoginLockoutProofs`)

For any limits above 1, any number of addresses, processes and aborted requests, and
durations as `LimitAssumption` has them:

* `TypeCorrect`. `TypeInv` adds that a request being served began at most `Patience` ago
  (`Served`) and that a window that is not full has an end that tells when it was opened
  (`Dated`).
* `LiftCorrect` (`LockLiftedByLateRequestsOnly`). `Overtaken`: a request that was let past the
  lock began when the lock had run out, or before the lock was set, and then at most
  `Patience` before.
* `FollowCorrect` (`LockFollowsFailures`). `Paid`: while the account is not locked the failures
  are bounded by the limit, the requests that hold a count below it, those that are about
  to lock, and those that died; each wrong password moves a process from one of these
  numbers to another.
* `WindowCorrect` (`WindowBound`). `Windows` is the history of one bucket: numbers in a window
  are distinct, windows do not overlap, and after one that filled the next is opened
  later than any of its requests began by a window and `Patience` (`Filled`). So a span
  meets at most two windows with requests that are not late, neither full if both
  are met. `LateFew` bounds the late ones: those of a window, and the requests still
  open that began before it (`Behind`), are together fewer than the processes. The rest is
  counting finite sets.

### Not modelled here

The sign-up (one INSERT, no shared counter); `purge_expired_buckets`, which nothing
calls; requests without an address, for which the first check is skipped; several
accounts, which share only the address bucket; the decryption of the fields, an
error of which is an aborted request.

## 7. KakaoText and NoticeDelivery

### State and actions

`KakaoText` has the texts. A line is a record of where it comes from and how long it
is; the schedule marker is a line of its own. `Chunks` is `_send_chunked` with its
accumulator, line by line; `Split`, `NoticeMessages` and `Message` are the label, the
two parts of a notice, and the cut of `send_text`; `Preview` is what the admin page
shows; `Received` is what of a message arrives whole.

| variable of `NoticeDelivery` | code |
|---|---|
| `notice` | the post: number of its images, and how their URLs are named (`FileNames`) |
| `disk` | files under `data/images/<post>/`: which image, whether all of it, and who emptied the file last |
| `row` | status and summary of the post in `posts` |
| `pc`, `attempt`, `urls`, `url`, `got`, `answers`, `text`, `out` | a run: where it is, its attempt, `image_urls`, the index in it, `saved_paths`, `summaries`, `combined`, messages left |
| `phone` | history: messages of the present attempt that arrived |

`FetchDetail` reads the page two seconds after it was opened. What it gives is any part of the
images in their order, all and none included: without the element of the body the code
returns an empty list (`batch.py:138-139`), and it leaves out an image that is still a `data:`
placeholder (`145-146`), both without an exception. An empty list goes to the title alone.

`download_all` is taken apart where the world can intervene: HEAD and the existence
check (`CheckFile`), GET and the opening of the file (`Get`), its last chunk (`Finish`). A URL
without a name is called by its place in the list, with the extension of its type when HEAD
answered (`Path`). `GetFails` and `StreamBreaks` drop the image; after the second the file
stays. Opening empties the file: of two runs that write one file, the one that opened it last
leaves it whole, and the other only if that one gets to its end too; otherwise a hole
may be left at its beginning (`Stored`). The image library refuses a file that
stops in the middle, so the attempt ends (`CannotRead`). The administrator is one more
sender, of the row as it is.

### Runs

| run | instance | shows |
|---|---|---|
| `notice` | two overlapping runs (symmetric) and the administrator, up to 2 images, names distinct, equal or missing, every list a page may give, 2 attempts, any 2 failures; one answer without a marker, one that begins with it | `TypeOK`, `ArrivesInOrder`, `NoNeedlessCut`, `MissingPaidByFaults`, `ResendAsShown` |
| `notice_cut` | one run, one image, 4 attempts, one failure | a file that was cut off is returned as saved (`image_downloader.py:100`), and every further attempt fails at it |

Bounds. Lengths are scaled: a message of 16 and a cap of 18 with a label of 2 stand for
1900 and 2000; the texts are chosen to lie below, on and above the limit, to break
between lines, and to have no marker, one at the beginning or in the middle, or two (one per
image). Two images are the
least for a separator, a second marker and a name that collides; two attempts
separate retry and last. The run may end: a notice that has a row is not begun again.

What the properties leave room for, because the code does it:

* a page that is read too early. `FetchDetail` may find some of the images or none, without a
  failure; then the notice is recorded as SUCCESS without the others, or with its title
  alone, as if it had no images, which is what `batch.py:342` logs. `MissingPaidByFaults` is
  about `Shown` images only. The PRD wants no silent SUCCESS of a notice without its
  images (`src/docs/prd/20260425_085951_remove-notice-google-photos-upload_a8d4k2p9.md:32`);
  here the code does not keep to it;
* a resend that begins with a message the page did not show. Of a text that begins with the
  marker the page leaves the empty block out (`kakao_format.py:39`, and
  `test_notice_only_schedule_suppresses_empty_content_block`), while `send_notice_summary`
  sends it as a heading alone (`kakao.py:132`), although `kakao_format.py:15` promises the
  messages that will really be sent. `ResendAsShown` names this message (`HeadingAlone`),
  which the run does reach, and says that nothing else differs;
* the text after the second schedule marker, which is the schedule of the second image, is
  in no message; a line longer than a message is cut;
* an image that failed is missing from a notice that counts as SUCCESS;
* of two images with one name the second is never fetched, and images without names may be
  taken for one another when two attempts find lists of different length
  (`DistinctNames` excludes both).

### Proofs (`KakaoTextProofs`, `NoticeDeliveryProofs`)

For any number of images, any names, any number of runs in one directory, any attempts
and failures:

* `TypeCorrect`. `TypeInv` adds that whoever is at a GET or in a stream is at an entry of its
  list, that the file of a stream exists (`Opened`), that files only ever have the names
  of `Paths`, and that the directory never loses one, so a path that was saved stays good.
* `MissingCorrect` (`MissingPaidByFaults`). An image that the page showed is lost where its
  download is passed over. `LossInv`, for distinct names: a file is the image its name
  stands for (`FilesInPlace`), whoever wrote it; the images of the list passed over so far
  and not saved are at most as many as the failures (`Lost`); the k-th answer is about
  the image of the k-th path (`AnswersFollow`); and a run leaves the download behind the
  last image and the analysis behind the last path (`Passed`). A HEAD that failed
  does not matter because the name of the URL serves (`NamedPath`).

For any text whatever (`Texts` is any set of answers), any length of a message that holds
the lines of a heading, and any label that fits below the cap (`SizesAssumption`):

* `NoticeMessagesKeep`. `Kept` are the lines of a text that a message can hold at all. The
  loop of `_send_chunked` keeps them: after each line, what is in the chunks and in
  `current` is what was read so far (`ChunksKeep`), each chunk is short enough or one
  line, and holds text if every line leaves room for a newline. Then the label
  (`SplitKeeps`), the two parts around the markers (`PartsKeep`), and the headings, of
  which nothing is counted.
* `OrderCorrect` (`ArrivesInOrder`) and `CutCorrect` (`NoNeedlessCut`). `SentInv`: whoever is
  sending has delivered a beginning of the messages its text makes, and `out` is the
  rest (`Telling`, `Due`); so when nothing is left the phone has exactly
  `NoticeMessages(text)`, or the title alone when the list was empty. An attempt
  that fails starts the phone afresh: what it had delivered is the repetition that
  `RepeatsPaidByFaults` of `BatchMonitor` counts.
* `ResendCorrect` (`ResendAsShown`). What is delivered is compared message by message with the
  parts that the page showed, each as `Split` makes messages of it: number, headings, cuts
  and labels agree, except for the message with the heading alone, which is sent exactly
  when nothing stands before the marker (`PreviewTells`). From `SentInv` for the
  administrator.

### Not modelled here

The pieces an image is cut into, which are written beside it and, with overlapping
runs, written twice; the content of an answer; `send_matched_images` and the upload,
which no program calls; the resend of a photo post, one chunked text; the save that
fails (in `BatchMonitor`). Termination of the attempts is `EventuallyHandled` there.

## 8. CafePoller

### State and actions

| variable | code |
|---|---|
| `newest` | the cafe |
| `file`, `seen` | `last_seen.json` and `PostTracker._data` |
| `main` | the main thread of `__main__.py`: running, event set, `poller.stop()` returned, browser closed |
| `loggedIn` | whether Naver honours the cookies of the browser |
| `pc`, `turn`, `queue` | the job of the scheduler thread: where it is, the board, the rest of `new_posts` |
| `sent`, `taken`, `first`, `cut` | history: messages by post, posts found new, the newest post when a board was first seen, posts not handled when the browser was closed |

The scheduler starts a job when none runs (`Fire`). The job lists a board
(`List`: register, take or nothing), saves the file in two steps (opening it empties
it), and takes the posts from the newest down (`Detail`, then the handler of the
board). A row that cannot be parsed is left out of a page. An exception ends the
board, not the poll (`NextBoard`). `Stop` does not wait for the job and `Close` takes
the browser away, so that the job's next fetch raises; the process ends when
the job has (`Exit`).

Both handlers call `send_images`, a method `KakaoMessenger` does not have
(`SendImages`): a photo board sends nothing, and a notice with images is
announced but costs the older notices of the same poll their turn.

### Run `poller`

A photo board polled before a notice board, up to 2 and 4 posts on a page of 2, one
post with images, one failure or crash, any number of stops, starts and sessions
that end. Four notices are the first one, which registers the board, one below and one
above the one with images.

* `RepeatsPaidByFaults`, `NoSpam`: at whatever point of a poll the service is
  stopped and started.
* `LossHasCause`: the number is saved before a post is handled, so posts are lost; only to
  a failure, to the closing of the browser, or to a newer post with images.
* `StopEnds`, `CatchesUp`: liveness. Fairness: the scheduler's thread fires at every
  interval, every call of the job ends (page loads, the command line tool and requests
  have time limits; the KakaoTalk calls have none and are assumed to return), and the
  main thread goes on once it is awake. Setting an `asyncio.Event` in a handler of
  `signal.signal` does not wake a loop that waits in its selector, so `Stop` is fair only
  while the job waits for the browser, whose answers arrive in that loop; strongly,
  because polls come again and again.

### Proofs (`CafePollerProofs`)

For any list of boards that is not empty and names none twice (without one a poll does
nothing, `scheduler/poller.py:148`), any page, posts and failures, and any number of stops, starts and
expired sessions:

* `TypeCorrect`, `RepeatsCorrect` (`RepeatsPaidByFaults`). `RepeatInv`: a post announced once more
  than there were failures is one the cursor in memory has passed and no queue holds
  any more, and the cursor in the file has passed it too unless it is being written
  right now (`Safe`); a post that is still to be announced and that the file does not
  yet cover has a failure to spare (`Spare`).
* `SpamCorrect` (`NoSpam`). `SpamInv`: until something fails, the cursors in memory and in the
  file are unset together with the record of the first look, or not below it, and a
  queue holds only posts above it.
* `LossCorrect` (`LossHasCause`). `LossInv` accounts for every post found new: announced, still in
  the queue, taken with the browser, below a newer post with images, or after a failure.

`StopEnds` and `CatchesUp` are liveness and only model-checked.

### Not modelled here

`toggle` and `scheduler/retry.py`, which nothing calls; the synchronous twins of the
handlers; whether Playwright accepts calls from a second event loop, which the code takes
for granted; numbers that are not numbers (compared as strings); `data/cookies.json`, which
the crawler looks for below its working directory and the manual login writes below the
root of the repository: `Start` begins with a session that is valid.

## 9. Not modelled

* Blue-green deployment: a shell script around docker and curl whose switch, and the file that
  says which colour serves, belong to a script outside the repository.
* Face filter and photo upload: `is_match` returns True, and the batch no longer calls the uploader.
* Migrations and installation scripts: run once, by hand.
* Pages, islands and styles of the web client; `GET /api/posts`, which only reads.
