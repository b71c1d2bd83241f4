# Formal models of file-converter-server

TLA+ specifications of the conversion server in `src/file-converter-server`:
what it does with worker threads, uploads and their contents, spool files, history
rows, stored results, accounts, one-time codes, sessions and access rights,
model-checked with TLC on small instances, and the safety of all components, with
three refinements, proved with TLAPS for every size. Paths below are relative to
`src/file-converter-server/src/modules/` unless they start with `core/` or `src/`.

## 1. The system

A NestJS (Fastify) server in one Node.js process: one event loop, plus a fixed
number of worker threads for conversions. PostgreSQL and an S3 bucket are
outside. Concurrency therefore has two sources: every `await` lets another
handler run, and the threads run in parallel and talk by messages.

| component | state | operations | interacts with |
|---|---|---|---|
| worker pool (`convert/workers/conversion-worker.pool.ts`) | `workers`, `idle`, `pending`, `workerJob`, `nextId`, `closed`, a timer per job | `run`, `dispatch`, `onMessage`, `error`/`exit` listeners, `failTimeout`, `replaceWorker`, `onModuleDestroy` | threads (messages, events), conversion services (promises) |
| worker thread (`convert/workers/conversion.worker.ts`) | the job in hand | `handle`, `reply` | spool directory, pool |
| conversion services (`convert/services/{convert,image-convert}.service.ts`, controllers) | spool files, local variables | `convert`, `remember` | pool, history, response stream |
| transformation history (`transformations/services/transformation-history.service.ts`) | table `transformation_history` | `record`, `persist`, `list`, downloads | bucket, audit, users |
| cleanup (`transformations/services/transformation-cleanup.service.ts`) | none | hourly `removeExpired` | table, bucket |
| storage (`files/services/storage.service.ts`) | the bucket | put, get, delete | S3 |
| users, auth, jwt, otp | tables `users`, `otp`; `tokenVersion` | register, login, refresh, logout, verify, delete | mail, rbac, cascades to history |
| rbac (`rbac/services`) | roles, permissions, grants, user roles | CRUD, `canAccess` | guards of every controller |
| files (`files/services/files.service.ts`) | table `files` | upload, list | bucket, rbac |
| detection, graphs, codecs, adapters, images | none: functions | detect, parse, flatten, serialise, render | run inside requests or threads |

What makes each of them correct:

- **pool**: every accepted call settles exactly once and truthfully; capacity is
  neither lost nor gained by timeouts and dying threads; the queue is FIFO and
  never waits beside an idle worker; shutdown ends.
- **request**: no spool file is removed under a reader or outlives the last one;
  the history row agrees with what the caller was told; every request ends.
- **history and cleanup**: a row never promises a file that is not there; a
  sweep never leaves a result behind; rows that cannot be removed do not stop
  the others.
- **history queries**: paging shows each row once and leaves none out.
- **downloads**: a file that is offered can be had, and what is sent was audited.
- **accounts**: a code is tried a limited number of times; an account is
  activated by whoever reads the mail sent to it; a logout ends every session
  that began before it and no other.
- **rbac**: the guard decides by the tables as they are; a grant keeps within
  its permission; a replacement of roles leaves the roles it was asked for.
- **files**: a listed file is in the bucket and belongs to a user who exists.
- **detection, codecs, images**: name, type and content agree; limits refuse what
  exceeds them and nothing else; no cell, text or element is lost; nothing active that
  the cleaner sees is drawn, and sizes stay within their limits.

The behaviours that are hard to test (late answers, double events, timers racing
answers, failed or half-done steps of database and bucket, overlapping sweeps,
restarts) are listed, with their lines and the properties that cover them, under
`hazards` in `PROJECT.json`.

## 2. Modules

```
ConversionRunner            what run() promises           (abstract)
   ^ implemented by (proved + checked)       ^ extended by
ConversionWorkerPool                      ConvertRequest
   ^                ^                        persist() in detail:
MCConversion...  ConversionWorkerPool_proofs ConvertRequest_proofs

ResultHistory               what the history promises users   (abstract)
   ^ implemented by (proved + checked)
TransformationHistory       persist() and the sweep in detail
   ^                 ^
HistoryDownloads  <- TransformationHistory_proofs
   ^
MCHistoryDownloads

HistoryPaging               list(), page by page
   ^              ^
MCHistoryPaging   HistoryPaging_proofs

Sessions                    what sessions promise             (abstract)
   ^ implemented by (proved + checked)
Accounts                    registration, codes, sessions
   ^         ^
MCAccounts   Accounts_proofs

AccessControl               rbac and the guard
   ^
FileAccess                  uploads behind it
   ^             ^
MCFileAccess     AccessControl_proofs

FormatDetection, SvgImages, IntermediateForm     pure operators
   ^                                  ^
ConversionJob                         IntermediateForm_proofs
   ^        ^   the checks and the       ^
   |        |   conversion of one upload |
MCConv...   +---- ConversionJob_proofs --+
```

### ConversionRunner

The abstract specification: calls are accepted in order, a worker may convert a
job at any time, a call settles once with `result` only if it was converted,
`failed` only if it was not, `internal` (its worker was lost) only while the
pool is open, `timeout` at any time. Fairness: an accepted call settles.

### ResultHistory and Sessions

ResultHistory is the history as its users see it: a conversion is listed from
`Remember` until its time is over or its user leaves, a result is offered
(`hasFile`) from `Offer` until the row is due, and nothing that has left comes
back. Bucket, saves, sweeps and restarts do not occur in it. Under the mapping of
`Results` a live row is listed, and offered when it has a key and is not expired.

Sessions is what logging in and out promises: the logins of an account between two
of its logouts are one session, `EndAll` ends every open session of an account in one
step, and a session that is over never opens again. Versions, tokens and requests
under way do not occur in it. Under the mapping of `Abstract` in Accounts a session is
`<<user, logouts before its login>>` and is open while one of its tokens is accepted.

### ConversionWorkerPool

One variable per field of the class (`pending` is the key set of the map,
`assigned[j]` is `PendingJob.worker`, `timers` the armed timeouts, `shutdown` is
`closed` with the await of `onModuleDestroy` made visible), plus the promise of
each caller and the outside: the life cycle of each thread, the jobs posted to
it (`inHand`), and the answers under way (`inbox`). Each callback of the event
loop is one action, because nothing can run between its first and last line.

| action | code |
|---|---|
| `Run` | `run` when open; a call on a closed pool changes nothing and is a stutter |
| `OnMessage` | `onMessage` with `release` and `dispatch` |
| `OnError`, `OnExit` | listeners installed by `track`, with `replaceWorker` |
| `FailTimeout` | `failTimeout` with `replaceWorker` |
| `OnModuleDestroy`, `DestroyFinish` | the two sides of its `await` |
| `ThreadReply`, `ThreadDie`, `ThreadStop` | a thread answers, ends on its own, or is stopped by `terminate()` |

Abstractions, and why they are sound:

- `idle` is a stack in the code (`idle.pop()`); here any idle worker may be
  taken, a superset of the behaviours.
- `dispatch` is a loop in the code; here it makes at most one hand-over. A
  callback adds one waiting job or one idle worker to a state that does not
  have both (`WorkConserving`, proved), so the loop never runs its body twice.
- Answers of different threads, and of one thread, are delivered in any order:
  a superset of the order of message ports. The port of a thread is drained
  before its `exit` event, as Node.js documents.
- `release` runs before `pending.delete` in `onMessage`; the job still in the map
  then has a worker, so dispatch does not see it either way.

`IndInv` is the inductive invariant; its named parts are the safety properties
and what is needed to carry them from step to step (section 5).

### ConvertRequest

A request's handler as a program counter `step`, one action from one `await` to
the next, beside the abstract pool it calls and the background save. `spool`
holds the files `source`, `output` and `save` of each request. Text and image
services have the same control flow and share the model; the image service's
option parsing is one more way to `Refuse`. `withTimeout` adds no behaviour: its
timer is armed after the pool's own with the same delay and rejects with the
same code. `remember` without a user id cannot happen behind the guard of the
two controllers and is left out. The call of `rm(..., {force: true})` is assumed
to succeed.

The output file is written by a thread that does not know whether anyone still
waits. `FilesHaveOwners` names the consequence: the output of a conversion whose
caller was rejected (a timeout, a lost worker) belongs to nobody and stays in
the spool directory, and so do all files of a process that is killed.

### TransformationHistory

Rows are numbered in the order they are written, which is the order of
`expires_at`, the retention being one constant. `persist` is three steps after
`record`: `PutObject`, `UpdateRow`, `AuditSave`; `removeExpired` is `FindBatch`
and then, per row, `DeleteObject` and `DeleteRow`, on what the batch read
(`todo` is the `storageKey` as read). Every call may fail, with or without its
effect; the process may restart between any two; a user may be deleted at any
time, which cascades to the rows in the database and, unlike the sweep, does
not touch the bucket. A row expires only once its save is over: the retention is
at least a day (`core/config/config.validation.ts:179`).

### HistoryPaging

`list` and `history-query.ts`. A caller starts with no cursor and passes each
`nextCursor` on with the same filters; the page size may change from page to
page. `List` is the query (filters, cursor, order, `take(limit + 1)`, `slice`),
`Answer` the audit and the reply, `AnswerLost` a failed audit or a lost reply,
after which the caller asks again with its old cursor. Meanwhile rows are written
in two steps, because `created_at` is the time the transaction of `save()` began
and not when it committed, and removed by sweeps and cascades.

The columns the equality filters look at (owner, type, formats, status) are one
value `kind`, a query allows a set of them and a range of times. A query that
`parseHistoryQuery` or `assertActive` refuses changes nothing and is left out.
Time is counted in half milliseconds: the column rounds to milliseconds, and a
cursor holds whole ones.

### HistoryDownloads

`downloadOwn`, `downloadForAdmin` and `sendStoredFile` on top of
TransformationHistory: `Open` reads and checks the row, `GetObject` reads the
object, `AuditDownload` writes the audit, `Send` answers. `HistoryStep` is any
step of the history in between; a restart ends all downloads. A download that is
refused for its row changes nothing and is left out.

### Accounts

`auth`, `otp`, `users` and `jwt`. A caller is one request under way; `call[c]`
holds the await it stands at and what it has read so far.

| action | code |
|---|---|
| `FindByEmail`, `InsertUser`, `AssignRole`, `ForgetCodes`, `SaveCode`, `SendMail` | `register`: `createUser`, `createOtp` (delete, then save), `sendMail` |
| `ReadCode`, `RightCode`, `WrongCode`, `BurnCode` | `verifyOtp`: select, compare, save or delete |
| `FindVerified`, `Activate` | the rest of `verifyOTP` |
| `Expire`, `RemoveExpiredOtps` | the clock and the cron job |
| `ReadForLogin`, `ReadForRefresh`, `Sign` | `login`, `refresh`: the account as read, the tokens as signed later |
| `Logout` | `logout`: one `increment` statement |
| `UpdateUser`, `DeleteUser` | the users controller |
| `Fail` | any await rejects, or the process restarts; nothing is rolled back |

Which password or signature is right is data: a request refused before it has
changed anything is no step. A guess is a code that was mailed, or a wrong one.
`WrongCode` follows `save()` of TypeORM, which selects first: a row that was
deleted meanwhile is inserted again. Two simplifications: `bcrypt` and hashing are
equality, and the time a token lives is left out (an expired token is only one
that is no longer used).

### AccessControl and FileAccess

`rbac`: tables as functions from ids to rows; a request that reads, checks and then
writes is split at the await between the two, so that rows change in between.
Uniqueness and foreign keys are decided by the table, and a check the table repeats
is not modelled twice. `Saved` and `Written` say what TypeORM's `save()` does with a
row that was changed or deleted after it was loaded: only columns that differ from
what its own select finds are written. The guard is `ReadAssignments`, `ReadGrants`,
`Decide`. The initial rows are those of the seeding migration, cut down to two
actions.

FileAccess adds `upload` behind the guard: a request that was allowed `create` on
`my_files` stores the object and then its row. An upload that fails after the object
was written leaves the object; nothing removes it.

### ConversionJob

The pipeline of one upload as a program counter, for texts (`spool`, `fields`, `empty`,
`detect`, `cap`, `pair`, `decode`, `parse`, `adapt`, `serialize`) and images (`options`,
`clean`, `resolve` or `measure`, `render`). It is sequential; ConvertRequest has the
concurrency around it. Its operators are in three modules:

- FormatDetection: name, MIME type and content are described by what the
  detectors tell apart (the text after the last dot, how the content starts, the
  shape of the first line), not by characters.
- IntermediateForm: JSON-like values as trees (`Value`, nested up to `MaxNesting`; a
  `Document` two levels less, which XML output adds), keys as sequences of the parts
  between dots, so that the key `a.b` and the path `a`, `b` are the same column, as in the
  code; JavaScript objects with their order of keys and the properties all of them inherit
  (`InheritedNames`: a row that lacks such a column has a function there, no cell); CSV
  tables. The indices of a list are keys, too: `IndexParts` are their texts, so that their
  number bounds the lists.
  XML output is the set of elements that `XMLBuilder` writes (`XmlElements`): each with the
  tags and positions on the way to it and the text right below it. An attribute is an
  element whose tag begins with `@_` (`AttributeParts`). A list writes an element for each
  item under the name of its key, an empty one none, and a list that is an item itself
  writes indices for tags, which are no XML names. `toXmlName` is two tables, what it
  replaces (`Replaced`) and what it puts an underscore before (`Prefixed`); they are
  constants, so the theorems hold for any. Values that `XMLBuilder` throws at or writes as
  something else (`IsOdd`: lists or maps in an attribute or as `#text`, a name that becomes
  `__proto__`) may be refused or answered with anything.
  `Nodes`, `Reachable`, `Leaves` and `Shows` describe the same trees by the keys on the way
  to each place; the properties are stated with them.
- SvgImages: parsed SVG as trees of nodes (`Node`, nested up to `MaxSvgNesting`) with what
  their attributes refer to and which of the patterns of the code their texts match. A text
  may be `literal`, one that the parser makes a number or a truth value of, or stand in a
  CDATA section and hold markup (`live`). `Rebuilt` is the round trip through `XMLBuilder`,
  which writes without escapes: there the markup of a CDATA section becomes nodes.
  An empty tag in it keeps its slash in `local`, because the tests do not see it.
  `joined` are the patterns that only the rebuilt text as a whole matches. Sizes are
  numbers, rounded as `Math.round` does.

What the code does by recursion over a tree is a recursive function on the set of
trees up to that depth, so that it can be proved about for every depth.

Parsers, serializers and the image library are third-party: an upload says what a
correct parser reads in it, and whether it finds it malformed. The assumption on an
upload (`UploadAssumption`) is that a picture is a tree of nodes or has sides that are
numbers, and that a text which can be parsed is a table if it is CSV and a document
otherwise. The value of an XML document is what the parser's options make of it: texts are
trimmed, and entity references stay as they are written (`codecs/xml.codec.ts:35-37`). The
text of a cell is never `null`: that name is taken by the scalar that the code writes as an
empty cell. `sharp` may throw at any picture (`SharpErrors`, what `rethrowImageError` makes
of it), also because of its own limit on pixels.

## 3. Runs

| run | question | bounds |
|---|---|---|
| `pool` | safety of the pool and its inductive invariant | 2 workers, 3 jobs, 1 thread dying by itself; 6 thread identities = 2 + 3 timeouts + 1 death, so a spare thread is always there |
| `pool_live` | FIFO order; refinement of `ConversionRunner` with its liveness; dead workers leave; shutdown ends | 1 worker, 3 jobs, 1 death, 5 identities: two jobs wait, which `pool` is too small for |
| `request` | files, history, termination | 2 requests that share a pool of 2 calls, every combination of `save` |
| `request_converted_is_returned` | expected violation | 1 request |
| `history` | consistency of rows, results, audits and downloads; refinement of `ResultHistory` | 2 rows, 2 users, 2 overlapping sweeps with batches of 1 and 2 rounds, 1 restart, 1 download |
| `history_paging` | pages against concurrent writes and removals | 3 rows, 3 half-milliseconds (two rows of one millisecond are common), page sizes 1 and 2, filters with and without a range of times |
| `history_live` | expired rows go past a stuck one | 3 rows, batches of 2, the oldest row's object can never be deleted |
| `history_no_result_without_row` | expected violation | 1 row |
| `conversion_job` | detection, limits, adapters, XML output, SVG cleaning and sizes against reference definitions | 14,843 uploads, 154,117 states: documents of three levels with clashing, dotted, index-like, empty, inherited and dropped keys, attributes, `#text` and names that must be replaced; tables with blank, repeated and short lines; all combinations of 7 names, 6 types and 9 contents; pairs of 21 kinds of SVG nodes, among them numbers and CDATA sections with handlers, scripts and comments; lengths that are missing, zero, fractional |
| `conversion_unsafe_is_rejected` | expected violation | an SVG with a rectangle and one node of the 21 kinds |
| `accounts` | codes, activation, registration, sessions; refinement of `Sessions` | 2 callers, 6 requests, 2 emails, 2 accounts, 2 codes, 2 attempts, 3 inserts (so that a deleted code can be written again) |
| `access` | decisions, grants, role replacements, listed files | 2 callers, 4 requests, 2 rows of each table with 2 names and 2 actions, 1 user, 1 file |

Two workers and three jobs give every case of the pool but a longer queue: a job
waiting behind busy workers, a late answer of a replaced worker while its
successor and a third worker are busy. Thread identities are symmetric in `pool`.
`pool_live` uses no symmetry, which liveness does not allow, but the constraint
`BornInOrder`: threads take their names in the order they start. Every behaviour is one
of these up to the names of its threads, and so are its fair ones, since each step that
the constraint cuts off is left with another name. Two requests that share two
calls reach every pair of steps of two handlers; so do the two callers of
`accounts` and `access`, where the number of requests allows a registration, two
guesses, a login and a logout, or an update of a permission between the steps of an
update of a grant. `conversion_job` chooses its uploads by the case splits of the
code, at, below and above each limit. The batch of one row in
`history` makes the second round and the cap of rounds matter; the two users
separate the cascade from the sweep.

`CHECK_DEADLOCK FALSE` everywhere: all bounded instances stop when every job,
request, upload or row is done, and a closed pool stops for good. The pool's run
checks its inductive invariant. The type invariants and inductive invariants of the
other modules are proved and were checked on the same instances before; the runs
keep to the properties.

Each property of a passing run has a mutant: a definition named `Fault: ...`
in a comment, next to the definition it would replace, with which TLC finds the
property violated.

### What the expected violations show

- `ConvertedIsReturned`: `src/file-converter-server/README.md:96` says that the
  converted file is still returned if saving fails. A save starts with a
  `copyFile` inside the `try` of `convert` (`convert.service.ts:169`); its
  failure removes the output and the caller gets an error.
- `NoResultWithoutRow`: `.env.example:90` says rows and saved results are removed
  together. Deleting a user removes rows only, and a save that is interrupted
  between bucket and row leaves a result no row names; no sweep finds either.
- `UnsafeIsRejected`: `src/file-converter-server/README.md:92` says that SVG files with
  scripts or external resources are rejected. `sanitizeSvg` takes them out
  (`images/svg-safety.ts:113`, `158`) and draws the rest; it rejects a file only when
  nothing is left to draw (`:66`).

### Other things the models show

These follow from the actions without a run of their own.

- `src/file-converter-server/README.md:96` says every signed-in conversion is
  stored in the history. `remember` swallows a failure of `record`
  (`convert.service.ts:250`), and the result is returned without a row
  (`RecordSuccess` in ConvertRequest).
- `svg-safety.spec.ts` expects that a document whose only payload is a script is
  rejected. With an XML declaration it is not: `hasDrawable` counts the
  declaration (`images/svg-safety.ts:232`), and an empty picture is drawn.
- `user-roles.controller.ts:52` sets the roles of a user to exactly those given.
  Two replacements that overlap can leave the union of both, and a failure after
  the delete leaves none (`user-role.service.ts:51`); hence the two conditions of
  `LoneReplaceIsExact`. In the same way two updates of one grant can leave actions
  its permission never had, hence `contested` in `GrantsStayInCatalogue`.
- Wrong guesses that overlap cost one attempt together, and a late one writes a
  deleted code back (`otp.service.ts:70`); hence `raced` in `QuietCodesAreExact`.
- A code is looked up by email: after a change of emails it activates the account
  that has the email now. `ActivationIsEarned` is what remains true.
- `verifyOtp` deletes the code before the account is activated
  (`auth.service.ts:130`): if that update fails, no other code is ever sent, because a
  new registration is refused for the taken email; only an administrator can help.
- Two keys of one object can become one XML name (`a b` and `a_b`). The later one wins and
  what is below the other is gone (`codecs/xml.codec.ts:119`). So the condition of
  `NothingIsLost` for XML is that the names of each map differ (`HasDistinctNames`).
- `src/file-converter-server/README.md:84` says that lists become repeated `<item>`
  elements. That holds of a list that is the whole document (`codecs/xml.codec.ts:96`); any
  other repeats the name of its key (`:108`): `{a: [x, y]}` becomes
  `<root><a>x</a><a>y</a></root>`. This is what `Shows` says.
- The comment at `ir/adapters.ts:122` says that cells are strings. `row[header] ?? ''`
  (`:157`) looks the header up in a plain object and its prototype: when one row has the key
  `toString` and another has not, the cell of the other is the inherited function,
  csv-stringify throws at it, and the answer is 500 `CONVERT_INTERNAL` (`Serialize`).
- An empty list writes no element at all, so a key with one is gone from the XML. A list
  that is an item of a list is written with its indices for tags (`<a><0>x</0></a>`), which
  no XML parser reads. `Shows` says where the items are, not that this can be parsed. An
  attribute with the value true is written without it.
- A text that the SVG parser makes a number or a truth value of is no string and is left
  out without being noted (`images/svg-safety.ts:97`): `<text>42</text>` is drawn empty.
  Hence a tame SVG has no `literal` texts in `SvgIsTamed`.
- The text of a CDATA section is not cleaned and is written without escapes
  (`images/svg-safety.ts:73`), so that its markup, with handlers or an `<s:script>`, reaches
  the renderer. Only `<script` followed by a blank or `>`, and `javascript:`,
  are looked for in the text as a whole (`:81`); `<script/>` passes there. Hence the exception for CDATA sections in
  `SvgIsTamed`.
- Neither `style` attributes nor `<style>` elements are looked at for `url()` or `@import`,
  and `SvgIsTamed` says nothing of them. Whether the renderer follows any of these is up to
  `sharp`.
- `logout` swallows failures of its statement, and accepts tokens that are no
  longer valid; the guard does not ask for `isActive`. Sessions end by logout, or
  with the account.

## 4. Fairness

- Pool: timers fire, messages and events are delivered, a terminated thread
  stops, the await of `onModuleDestroy` resolves. These are the guarantees of
  the event loop and of `Worker.terminate()`. Threads are never assumed to
  answer: liveness of a call rests on its timer alone.
- Request: each await of the handler and of `persist` ends (disk, database, and
  the response stream, which Fastify closes when the client is gone), and the
  pool keeps the liveness of `ConversionRunner`, which `pool_live` checks.
- History: the cron job runs again and again; each call ends; a delete that is
  tried again and again, for a row whose object is not stuck, succeeds in the
  end (strong fairness). Nothing is assumed of users, failures and restarts.
- Paging: the query is answered, and of the answers to a caller that asks again
  and again not every one is lost (strong fairness).

## 5. Proofs

All safety properties of the passing runs are theorems, proved without bounds on the
constants, and so are the steps of the three refinements. Each module has an inductive invariant (`IndInv`, `DownloadsInv`,
`FilesInv`).

### ConversionWorkerPool_proofs

For every `PoolSize`, `MaxJobs`, `MaxCrashes` and set of workers
(`PoolAssumption`):

- `Invariance`: `Spec => []IndInv`, and from it `TypeCorrect`, `PoolStaysFull`,
  `CapacityKept`, `NeverIdleWithWork`, `FirstComeFirstServed`,
  `LateAnswersAreHarmless`, `NoCallForgotten`;
- `PoolImplementsRunner`: `Spec => Runner!RunnerSafety`.

Why the properties are not inductive alone: that a late answer is harmless
(`AnswersMatch`) depends on the answer being the only one for its job
(`OneAnswerPerJob`), which depends on a job being in the hands of one thread that
has not answered it (`HandsMatch`), which depends on a job with a worker being
the job that worker is busy with (`StartedIsBusy`), which depends on settled jobs
having left their worker (`SettledIsUnassigned`) and on a fresh thread being
untouched by earlier ones (`UnbornIsClean`). The size of the pool is preserved
because a replacement removes one member and adds a thread that was not one.

The proof has one lemma per action. All callbacks end in `dispatch`, so
`DispatchStep` is proved once: from what a callback leaves behind
(`BeforeDispatch`, which allows one idle worker beside waiting jobs, or one
waiting job beside idle workers) to the parts `dispatch` can disturb
(`AfterDispatch`). `ReplaceStep` serves the three callers of `replaceWorker`.

### ConvertRequest_proofs

For every set of requests and every `MaxJobs` (`RunnerAssumption`): `Invariance`,
`TypeCorrect`, `ReadersFindTheirFiles`, `NoFileIsForgotten`, `HistoryIsTrue`.

The files of a request cannot be judged by its files alone: that the output is
there when the copy starts depends on the call having a result, which only a
converted call has (`StepsFollowOutcomes`), and on the handler still waiting
while its call is open (`CallsHaveOwners`), so that a thread cannot write an
output behind a request that has already removed it. `Split` restates the
invariant as a predicate of one request, `Fine(r)`, plus `OwnCalls`, no two
requests share a call. Each action is then `Apart(r)`: it moves one request and
leaves the files, the row and the call of every other alone (`OthersStayFine`),
so only its own request needs a case per step (`LocalStep`, `SubmitStep`,
`WorkerWriteStep`, `PoolStep`).

The composition is complete in both directions: `RequestsRespectRunner` shows that the
handlers use the pool only as ConversionRunner allows, and `PoolImplementsRunner` that
the pool is one. So what is proved of requests beside the abstract pool holds beside
the real one, as far as safety goes.

### TransformationHistory_proofs

For any number of rows, users, sweeps, batches and restarts
(`HistoryAssumption`), of `Safety`, which is `Spec` without fairness: `Invariance`,
`TypeCorrect`, `SavedStaysDownloadable`,
`OnlyExpiredIsSwept`, `AuditTellsTheTruth`, and the action property
`ObjectIsRemovedFirst`.

Saves and sweeps never meet on one row: a row being saved has not expired
(`SaveInOrder`, from the guard of `Expire`), a row in a batch has
(`SweptIsExpired`). So what a sweep read of the storage key stays true until it
acts on it, and `ObjectGoesFirst` follows: a row a sweep has passed from `todo`
has no object any more, although other sweeps work on the same rows. Deleting
the row then keeps `RemovedTogether`. `UnwrittenIsClean` gives a new row a clean
start.

`HistoryImplementsResults`: every step of the detailed history is a step of
ResultHistory or invisible in it. Most are invisible (`HiddenStep`: puts, audits,
batches, deleted objects, restarts). A row becomes offered in `UpdateRow`, which finds
the row not due because of `SaveInOrder`; it leaves in `DeleteRow`, which finds it due
because of `SweptIsExpired`. So the same two facts that keep saves and sweeps apart are
why no user sees a result withdrawn early.

HistoryDownloads is treated in the same module. A step of a download leaves all
variables of TransformationHistory alone, and every other step is one of its steps:
`DownloadsKeepHistory`, `DownloadsSpec => Safety`. So all that is proved of the history
holds beside downloads (`DownloadsImplementResults`, too), and `DownloadsInvariance` may
use its invariant in each step. `DownloadsFindTheirObject` then needs that only a sweep
removes objects and that a sweep only holds expired rows; `SendingIsAudited` that the
owner of a row never changes.

### HistoryPaging_proofs

For any rows, clock, filters, page sizes and readers (`PagingAssumption`):
`Invariance`, `TypeCorrect`, `NoRowComesTwice`, `NoRowIsSkipped`.

The argument is about one query, `CursorIsExact`: nothing of a page is below its
cursor, all other candidates are, and the cursor is null only when the page is
all there is. It rests on `PageIsNewest` (the first `limit` rows are closed
upwards, by comparing cardinalities), on `EndsExist` (a set of rows has a newest
and an oldest member, from the well-foundedness of strict inclusion among finite
sets), and on created_at being whole milliseconds (`TimesAreExact`). Then
`CursorSeparates`: what was seen is at or above the cursor, what is still due is
below it.

### Accounts_proofs

For any callers, emails, accounts, codes and bounds (`AccountsAssumption`):
`Invariance`, `TypeCorrect`, `LogoutsEndSessions`, `QuietCodesStayExact`,
`ActivationStaysEarned`, `RegistrationIsComplete`.

Sessions are an equation: `version` counts logouts, in the table and in tokens
(`VersionsCountLogouts`), so a token is accepted exactly if no logout came after the
login it goes back to. For codes the invariant says what a request under way knows
while nothing overlaps with it (`QuietCallsAreAlone`): the attempts it read are those
in the table and the number of guesses so far. `MarkRaced` gives up on an email at
the first overlap. Activation rests on `CallsAreSound`: the account a request is about
to activate held the email of the code it verified when it was looked up, and `had`
never forgets one.

`AccountsImplementSessions` needs one more invariant, `SessionsArePast`: no token, and no
request about to sign one, is ahead of the logouts of its account, and none is of an
account that does not exist yet. Otherwise a logout, or a registration, could open a
session that has tokens already. Of all actions only six touch what Sessions sees
(`SessionSteps`); a login whose signature comes after a logout begins a session that is
over.

### AccessControl_proofs

For any rows, seeds, names, actions and callers (`AccessAssumption`,
`SeedAssumption`): `Invariance`, `TablesStaySound`, `GrantsKeepToCatalogue`,
`ReplaceIsExact`, and the action property `GuardIsExact`. A request that will save a
grant knows the row it loaded to be the row of the table unless the row is contested
(`CallsAreSound`, `UpdatesAreAlone`), so what `save()` writes is what was checked.
`WritersKnowRoles` gives the roles of a user at each step of their only writer.

`UploadsKeepAccess` shows that an upload only ends the request the guard allowed, so
these theorems hold of `FilesSpec`, too; `ListedStaysStored` is proved on top of them.

### IntermediateForm_proofs

For values of any depth, with any keys, and any texts for indices (`FormAssumption`).

A recursive definition gives the prover only a CHOOSE: that a function with this
equation exists has to be shown. `Recursion` does it once, for any set with a rank in the
natural numbers and any equation that asks only for members of lower rank. `ValueDepths`
gives values their rank, and `ValueRecursion` then serves `Visiting`, `Noding`, `Pruning`,
`Flattening`, `Preparing`, `Writing` and `Showing`, one for each recursive function of the module. The induction
theorems of the library cannot be instantiated with a formula, so `StrongInduction` speaks
of a set of numbers instead, and `KidInduction` of the set of values for which the claim
holds. `ConcatMembers`, `FlattenSteps`, `FlattenInjective` and `Sifted` say what
concatenations and selections hold, which `FlattenSeq` and so all loops of the code need.
On these rest four results:

- `VisitsCounted`: the walk visits each node that no dropped key leads to once, at its
  depth, and each key of such a node once. A visit goes to a node by its path
  (`EachIsVisited`), no node has two (`OneNodePerPath`), and no two visits are the same
  (`VisitsOfKid`), so counting visits is counting nodes.
- `PrunedKeepsNodes`: the value the walk builds has exactly those nodes.
- `RowsAreLeaves`: the row of a value has one cell for each leaf, named by its keys, and no
  other. `PathsBegin` and `LeavesBelow` say that a leaf of a tree is a leaf of a child.
  `TableComesBack` is the way back: assigning the cells of a line to an object and
  flattening it gives the line, up to the order of columns (`LineComesBack`).
- `DocumentIsShown`: the elements written for a document that can be told apart in XML
  (`Showable`) are those that show it, and no others. `Shows` is an equation on pairs of a
  value and a set of elements; `ShownByParts` is its step: a value is shown if its text is
  and each tag below it has the elements that show what is there (`InElement` takes them
  out again, `Shortened`). `OutputKids`, `OutputTagged` and `OutputSteps` say that the tags
  written are the tags to be shown: names of siblings differ, so that no assignment hides
  another (`PreparedKids`), and a value without odd keys has none below (`OddBelow`,
  `NamesBelow`). The two elements around the document are `OnlyShows`.

### ConversionJob_proofs

For any set of uploads and any limits (`ConversionAssumption`, `UploadAssumption`):

- `FormatsAgree`: name, type and content of an accepted upload never contradict each
  other, and a refusal for its format is one that the hints justify;
- `PicturesFit`: the size of a picture keeps to its limits, to the sides asked for and,
  up to rounding, to the proportions;
- `SvgStaysTame`: what reaches the renderer is tame except for what stood in CDATA
  sections, and without `<script>` or `javascript:` even there; a tame picture is
  drawn as it is;
- `LimitsAreKept`: a document is refused for its depth, nodes or keys exactly when it
  exceeds a limit, with the code of one that it exceeds;
- `CellsAreKept`: each leaf of a document is in the column its keys name, or the XML shows
  the document, and nothing else is there;
- `TablesComeBack`: a table survives being made a value, and CSV output can be read again.

`IndInv` has two parts besides `SizeIsSound`: `DetectionIsKept` (the source format is the
detected one from `detect` on) and `SizeIsKept` (texts and pictures keep to their own
path, and the size is resolved from options that passed and from the cleaned
picture). The arithmetic of `Math.round` is in `RoundDivBounds` and `ScaledInProportion`.

`TextIsKept` (`TextInvariance`) is proved on top of it and says what `work` is at each
point: the document, `Parsed` of it, `Adapted` of that, at the end `Written` of that; and
that a refusal after the checks of size, pair and encoding is one of the parser's, or comes
after the parser accepted the document and is none of the walk. So the last three theorems
are statements about these operators. `LimitsAreKept` joins two facts: `LimitsCountTheWalk`,
which holds of any sequence of visits (the walk, which stops at the first visit that is too
many, refuses exactly when the whole walk exceeds a limit), and `VisitsCounted`.

`SvgIsKept` says the same of pictures: an SVG on its way is the uploaded document, and from
`resolve` on the cleaned and rebuilt one. Of trees of any depth (`SvgAssumption`), with any
elements, attributes and texts, it is shown that

- `CleanedIsTamed`: in what it lets through, each node, at any depth, is tame or stood in a
  CDATA section of the upload, and none is a script or says `javascript:`;
- `TamedIsAccepted`: a tree of tame nodes that has an `<svg>` at its root is let through,
  and cleaned and rebuilt to itself.

Cleaning and rebuilding are both a replacement of leaves and attributes and a recursion into
elements. `Made` is this form, with what is dropped, the new attributes and the new leaves
as parameters (`IsPlan`), and three lemmas about it serve both: such a function exists
(`Making`), each node of its result comes from a node of the tree (`MadeMembers`), and a
tree in which it changes no node is left as it is (`MadeIsKept`). `CleanedIsHarmless` and
`RebuiltMembers` follow: after the cleaning no node is one to be dropped, and rebuilding adds
only nodes of CDATA sections. That these hold no script rests on the tests on the rebuilt
text, and on those alone.

### Only model-checked

No safety property is left here.

- Liveness: `ImplementsRunner` (the theorem is its safety), `DeadWorkerReplaced` and
  `DestroyCompletes` in `pool_live`, `EveryRequestEnds` and `ReturnedFilesGo` in `request`,
  `ExpiredRowsGo` in `history_live`, `ReadingEnds` in `history_paging`. ENABLED and fairness
  are beyond the prover.
- That the recursive definitions follow the code. `Nodes`, `Leaves` and the other
  reference definitions are an independent description of the same trees; the theorems say
  that the two agree, the runs that both are what was meant on documents one can read.
- The expected violations are counterexamples, not theorems.

## 6. Not modelled

- The libraries: parsers of CSV, XML and YAML, the characters and escapes that serializers
  write (the elements of `XMLBuilder` are modelled), `sharp`, `bcrypt`, JWT signatures,
  TypeORM beyond what its `save()` does with stale rows. The models say what the code
  relies on.
- Style sheets in SVG, which the code does not look at.
- `HistoryAuditFilter`, the audit of refused requests: it logs a failing audit
  and goes on, so nothing depends on it.
- HTTP filter, throttling, health, status, swagger, configuration: wiring of the
  framework without state of its own. Configuration values are CONSTANTS.
- The migrations, which are run once; their constraints and seeds are modelled.
- Mails beyond the one of a registration, pure output.
- The spool directory after a crash: nothing cleans it up, and nothing is promised.
- The script that allocates ports, a developer's tool.

## 7. What could be added

1. A bounded number of reruns of a registration by mail, if the server gets a
   route that sends a code again; today there is none.
2. The refusal audits, if something comes to rely on them.
3. Liveness of accounts: a registration that is repeated cannot be promised to end,
   as the notes in section 3 say.
