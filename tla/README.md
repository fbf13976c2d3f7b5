# Verification of the Integrated Writers Editor

TLA+ models of the Integrated Writers Editor (INE), TLC configurations that check
them on small instances, and TLAPS proofs of what matters most for every instance.
Paths without a prefix are below `src/apps/api/app/`; `web:` stands for
`src/apps/web/app/`.

## The system

INE is a FastAPI backend (one uvicorn worker, SQLAlchemy over PostgreSQL, Qdrant for
semantic search, Ollama or a cloud vendor for text generation) and a Next.js client.
A handler declared `async def` runs on the one event loop and gives it up only at an
`await`; a handler declared `def` runs on a thread of Starlette's pool, with a session
at READ COMMITTED. The client is React: a callback runs to its next `await` and goes on,
after the answer, with the values of the render it was started in. Most of what can go
wrong in this code is an interleaving of these three.
Authentication, users, file mirror, vector store, revisions and backups are thin
wrappers around the library `editor_common`, which is not in the repository: the models
take from it only what the calls here rely on, and `PROJECT.json` marks it external.

### The server

| Component | State it keeps | Operations | What is hard | What makes it correct |
|---|---|---|---|---|
| LLM queue (`llm_queue.py`, `providers.py`) | line, running list, finished list, a future per job | `submit`, `_promote`, `release`, `slot`, `wait_started`, `generate`, `generate_stream` | cancellation at any await, keep-alive timeouts, clients gone at a `yield`, dropped generators | limits, FIFO, no idle or leaked slot, no lost wakeup, every call released |
| Episode text (`main.py` 459-480, 519-598) | row, revisions, Markdown file, vectors | put, docx import, replace-all, restore, add, delete, index rebuild | loop against threads, state read before an await, four stores without a transaction | no text lost without a revision, mirror and index follow the row, deleted stays deleted |
| Background imports (`importer.py`, `main.py` 104-109, 484-510) | `import_jobs` row, task registry, projects and episodes | submit, the task's steps, start-up clean-up | restarts, refused rows, edits under a running import | counters add up, no number twice, a job shown as active is worked on, every job ends |
| Accounts (`main.py` 273-373, `auth.py`) | flags and password hashes, mailed reset links | create, update, delete, password changes, reset | check and commit on separate threads | an active admin remains, a link works once |
| Chat (`main.py` 645-665) | message rows | send, list, clear | question and answer in two commits around an await | no answer without its question |
| Runtime configuration (`runtime_config.py`, `main.py` 374-402) | one settings row, CORS cache | get, put, effective values | first insert, cache order, two reads per call | a call uses one configuration, a key is not lost |
| Connection pool (`db.py`) | pooled connections | taken by sessions | held while waiting for the LLM queue | nobody waits for a connection held by a waiter |
| Launchers, migrations, backups | files, process ids, schema revision | install, start, stop, upgrade | partial first run, two starters | a start after a failure completes it |

### The client

| Component | State it keeps | Operations | What is hard | What makes it correct |
|---|---|---|---|---|
| Editor panel (`web:components/WritePanel.tsx`, `DiffView.tsx`, `ProofreadPanel.tsx`) | list, open episode, AI result, dialogs | typing, voice, select, save, restore, docx, create, AI run, append, proofreading | answers that arrive late, aborted streams, closures | nothing typed is lost, a result goes where it was asked for |
| The rest of that screen | sources, history, older text, form of a new article | list, add, delete, compare, create | answers about another episode | only texts of one episode are compared |
| Requests and sign-in (`web:lib/api.ts`, `studio.tsx`, `components/Login.tsx`, `lib/i18n.tsx`) | stored credentials, cookie, language, login screen | page load, submit, OAuth, reset link, both sign-outs | a 401 of earlier credentials, an answer after the sign-out | signed out stays out, valid credentials are kept |
| Activity list (`web:lib/llmActivity.tsx`, `LlmQueueList.tsx`) | items, queue rows, poller | begin, end, open, tick | ticks of an interval already cleared | the poller runs while it is shown, every item ends |
| Import dialog (`web:components/ImportPanel.tsx`, `lib/notify.ts`) | job, timer, notification permission | upload, poll, finish | polls that overlap, a ref shared by two imports | the end of an import is shown |
| Dashboard and `ProjectHome` | projects and counts | load, open, create, import, sidebar | dialogs closed with a call under way | what is shown is what was loaded |
| Settings (`web:components/SettingsPanel.tsx`) | seven tabs in one component | project and style guide, connection, accounts, import, backup, usage, export | forms filled again by answers | a blank key wipes nothing, tables follow their changes |
| Search, materials, chat | selections, tabs, rows | find, replace-all, search, memos, templates, drafts, questions | a selection made for other words, tabs unmounted | only what was chosen is replaced |

Interactions: an episode handler, an import and a replace-all share the episode rows, the
mirror and the index; every AI handler goes through the queue; the queue reads the runtime
configuration before it enters; imports outlive the request that started them and are
polled by the client; every call of the client carries what is stored in the browser when
it is sent, and a 401 to any of them acts on what is stored when it arrives.

`PROJECT.json` lists every component with its status, and under `hazards` what is hard to
test in this code, each at its line with the properties that would catch it.

## Modules

### LlmQueue and LlmGate

`LlmQueue` is the queue with the coroutines that use it. `waiting`, `running` and `recent`
are the queue's three collections, `status` and `started` the fields of a `Job`, and
`pc[j]` says where the coroutine that owns job `j` is suspended. An action is the code
between two suspensions. `Promote`, `Release` and `Submit` are the methods of the same
name; `Release` is called from the owner's `finally` and from nowhere else, so it also ends
the owner. A stream can be suspended at an `await` (where a cancellation is raised inside
it) or at a `yield` (where it is not: `Disconnect` leaves it abandoned and `Finalize` is
the event loop's hook for dropped generators). `KeepAlive` may follow the resolution of
the future, as `asyncio.wait_for` allows. Labels, elapsed times, character counts and the
vendors' wire formats are left out; a vendor delivers any number of pieces, ends or fails.

`LlmGate` is the promise in seven lines: jobs arrive at the end of a line, leave from
anywhere in it, and the oldest `Limit[g]` of group `g` are being served.
`ImplementsGate` maps `present` to `running \o waiting` and `serving` to `running`.

### EpisodeStore

The row, its history, the file and the vectors, and one record per request in flight
(`call`) with the content its SQLAlchemy session has loaded (`session`). Every handler is a
chain of steps, one per access to the database or the disk: load, `Commit` (snapshot and
UPDATE become visible together and the session expires), `Refresh`, `WriteFile`, `Indexed`.
`loop` is the request whose coroutine runs; coroutines give it up in `Docx` (only when the
upload was spooled to disk, otherwise `UploadFile.read` does not suspend) and before
`Indexed`. Threads need no loop. A failed flush, a deleted row at `refresh`, a failed
index and a restart between any two steps (`Crash`) are modelled; a failed write of the file
is left to `ImportJobs`. Titles and summaries travel with the content and are not told apart
from it; episode numbers are stood for by ids. The cap of the history is a constant.

`mix` fixes for a behaviour which kinds of request come, how many at a time, and what may
fail. It is a variable so that one run covers the situations in which different guarantees
hold; it never changes. What each situation guarantees:

- `CopiesInStep`: with requests of the event loop only, or one request at a time, and no
  crash, the file is that of the row when no request is under way; so is the index when all
  requests are of the kinds that index, come one at a time and do not fail.
- `HistoryKeepsReplaced`: under the same two conditions (and for the loop without a spooled
  upload) a replaced text becomes the newest entry of the history.
- `HistoryDropsOnlyOldest` and `NoResurrection` (neither row nor revisions of a deleted
  episode come back): in every situation of the model. `ReplaceUsesCurrentText`: when no thread
  works on the episodes.

`Commit` makes one step of `snapshot_revision` (the query of the history and its pruning, for
example at `main.py` 586) and `db.commit` (588). For two coroutines that is so, since nothing is
awaited in between. For a thread it assumes that no other session's commit falls between
the two: of two that overlap there, each would prune the history it has seen, and together they
could leave more than the cap. `HistoryDropsOnlyOldest` rests on this assumption about
`editor_common` and the database, and what it says of threads is no more than that.

### ImportJobs

One `job` record per `import_jobs` row and one `task` per coroutine of `run_import_job`,
stepped at every access to the database. A task holds the loop except at `index()`;
`AddEpisode` and `DeleteEpisode` stand for the thread handlers that may come in between, in any
project that exists, also one that a running import has just created. `Submit` imports episodes
into any such project, or writers into a new one.
`Write` distinguishes an insertion, an overwrite, a row the database refuses and a row
deleted since it was looked up; a failed flush leads to `Die` (the handler's own commit
raises) and everything else to `Fail`. `Restart` loses the tasks and runs
`cleanup_stale_import_jobs` before anybody is served. A parsed file is the sequence of its
episode numbers.

`overtaken` is a history variable: the imports for which another request has added or deleted
the number in hand between the lookup (`Select`) and the write. `Watch` keeps it beside each
step, and no action reads it. The properties use it to say exactly when the code fails:
`DoublesOnlyWhenOvertaken` (a second episode of a number is an import's doing only then),
`NoGhostUnlessOvertaken` and `EveryJobEnds` (a task dies under its job only then, as long as the
database refuses no row). Every other order of imports, edits, failures and restarts is safe.

### Accounts

The user rows and one record per request with its stage: the middleware, the caller
loaded by the dependency, the target loaded by the handler, the guard's query and the
commit. Flags are written only when they differ from the loaded ones, as the ORM does.
`lastHash` makes every new password hash a fresh number; a reset link is the pair of user
and fingerprint.

All these handlers run on threads, so any number of requests interleave, and neither guard of
the code is held until it is used. `overtaken` is again a history variable: the requests under
way while another one's commit took an account or its rights away, or, for a confirmation that has
compared the link's fingerprint, replaced the password. `AdminsLostInRacesOnly` says that the last
active admin can be lost by the commit of such a request and in no other way, and
`LinkWorksOnce` that a link sets a password once and in place of the one it was issued for,
except by such a confirmation. Both exceptions do happen: they are findings.

### EditorPanel

The write screen in one browser tab (`web:components/WritePanel.tsx` and the
dialogs it opens). `es`, `e`, `ai`, `busy` and `diff` are the component's state, `panel` that
of the mounted `ProofreadPanel`, `items` the list of `LlmActivityProvider`, `activity` and the
last element of `runs` the two refs. An action is a callback up to its next `await`; a call in
flight is a record that carries the closure (`list`) whose `es.map` its answer will use.
`Serve` is the server's handler in one step (`EpisodeStore` has its inside), `Answer` the
rest of the callback, `Fail` a failure before or after the server's step. `Show` is `setE`
with the effect that starts an open check over when the episode's id changes. `AiOver` and
`CheckOver` are the `onDone` of a stream, which `streamSSE` calls once also for an aborted
one, later. A text is the set of the pieces it consists of, which tells whether something
written is in it; order and repetition inside a text are not modelled, nor are titles and the
`position` at which voice input is inserted. The dialogs cover the page but do not take the
focus, so an action of the page is possible while one is open (by keyboard, or by an answer
or a voice result that arrives).

A mix is `careful` when the writer starts something only after the last call has been
answered, the recognition has ended and no dialog or stream is open, except to use it. What
holds for everybody (`StreamsAreOwned`, `SavedTextIsUndoable`) is stated without this
condition. What holds for the careful writer only are `TypedStaysInItsEpisode`, `ListInStep`
and `NothingTypedVanishes`; dropping the condition gives the counterexamples listed as
hazards: a save answered after more was typed takes it away; of two saves that overlap the
later answer brings the older list back; a voice result restores the text of the moment at
which the recognition was started (an AI result adopted meanwhile included, which is why a
careful writer does not adopt one then); a proofread or merged text of one episode is put
into the one that is open by then. Only a careful writer starts with an empty project: a late
empty list shows no episode and takes the panel off the screen.

### The other screens: WebApi to Client

One module per screen, in the order of EXTENDS:

- `WebApi`: the requests of `web:lib/api.ts`. `calls` is the sequence of calls in flight; a
  call carries the credentials it was sent with, is handled by the server (in one step, or
  several for the chat), and is answered by what follows its `await`. The network may lose it
  before or after. A 401 forgets what is stored then.
- `LlmActivity`: the provider of the activity list and its poller. It outlives the screens.
- `ImportWatch`: the import dialog, used by the dashboard and by the settings, with its
  interval, the polls that may overlap, and the notification. Its server side is a status.
- `Dashboard`: projects, counts in two rounds, the dialogs, and the start page of a project.
- `SignIn`: page load, login form, OAuth, forgotten password and reset link, the language,
  the two ways to sign out, the change of one's own password.
- `ChatPanel`, `SearchPanel`, `MaterialsPanel`, `SettingsPanel`: the screen of that name with
  the handlers of `main.py` it calls.
- `WriteSide`: what the write screen shows beside the text that `EditorPanel` models: the
  list, the new-article form, sources, history, comparison, and the checklist's last line.
- `Client` composes them: `Workspace` mounts one screen at a time, so that they share the
  variable `panel`; a call whose screen is gone is an orphan, whose setters do nothing while
  the rest of its continuation still happens.

Conventions. A run of the poller in `LlmActivity` is named by the count of things done when it began
(`acts`), which tells two of them apart. `panel.asked` of the search screen is history: what was
confirmed last, in which texts, and whether no other replacement was under way (`alone`: one that
is may come in between, when the screen was left and opened again); so is `panel.meant` of the settings,
the key that was there when the screen was opened, or was typed or cleared with its button since. That a
save with an empty field means to keep the key is the code's statement (`SettingsPanel.tsx` 322) and not
that of `docs/user-guide.md` 112, see Findings. Fields with the same
life stand for each other: one model name, one key and two tests for the connection, the style guide
for the fields of a project. The rows of one project stand for those of all. The answer to the
question for notifications is decided when it is asked. When the whole workspace
is gone because the person was signed out, `WebApi.Void` leaves of a continuation only the few that reach
beyond it. That drops the further calls of a draft made from a memo, which reads the episodes and posts
the new one all the same (`MaterialsPanel.tsx` 151-153); a screen that is merely left (`Orphan`) keeps
them. No property that is checked depends on it. The dialogs of the dashboard cover its buttons, which a careful person respects
(`Uncovered`) although the keyboard reaches them.

A mix says on which screen a person starts, what he does there and how often, whether he waits
for every answer (`careful`), whether calls fail, whether the browser's storage works, how
many calls he leaves in flight and how many polls overlap. `SignedOutStaysOut`,
`ChoiceSurvives`, `ReplaceIsExact` and `ComparesOneEpisode` hold for everybody;
`ValidCredentialsKept` and `ScreensInStep` for careful persons only, the latter also only while calls
are answered. What these two leave out the code does not prevent: a 401 of earlier credentials
that comes after a new sign-in clears the new ones (`api.ts` 61), sources that come late are shown
under another episode (`WritePanel.tsx` 133), two drafts at once take one number
(`MaterialsPanel.tsx` 151), and settings read before a save and shown after it are the old ones
(`SettingsPanel.tsx` 311). `EveryWaitEnds` for everybody,
but for an import shown as active only where polls do not overlap and do not fail: of two
polls under way the older answer may come last and be shown for ever, since the other one has
cleared the interval.

What the code accepts, and the model with it: a save or a creation answered late takes the
person back to its project; two drafts, or two posts of the form, take the same number; the
sidebar's button keeps an OAuth cookie; a question whose answer a crash has taken stays.

### MC modules

`MCLlmQueue`, `MCEpisodeStore`, `MCImportJobs`, `MCAccounts`, `MCEditorPanel` and `MCClient`
only define the values the configurations give to the constants.

Definitions named `Faulty...` are seeded faults: each stands before the definition it would
replace and shows, when it does, that the property named with it in `PROJECT.json` can fail.

## Runs

All runs are finite by the bounds in the constants and let a bounded behaviour end
(`CHECK_DEADLOCK FALSE` is said in each configuration: when all the requests of a behaviour
are over, nothing is left to do).

| Run | Instance | Shows |
|---|---|---|
| `queue` | 3 jobs; groups of 1 and 2 slots; finished list of 2 | limits, FIFO, work conservation, ownership of slots, wake-ups, refinement of the gate, and that every call is released |
| `episodes` | 2 episodes, 3 contents, cap 2, four mixes of up to 2 requests at a time and 4 in all | what each situation guarantees, and that every request ends |
| `imports` | 2 jobs, 2 numbers, files of up to 3 episodes, 2 foreign edits in any project, 1 restart | counters, statuses, and that a number is doubled, a job left active or unfinished only under one whose episode in hand was edited |
| `accounts` | 2 accounts (1 admin), 3 requests at a time (symmetric), 3 password changes | admins are lost, and links work twice, in races only |
| `editor` | 2 episodes, eleven mixes of up to 4 calls, 3 AI runs, 2 checks and 2 pieces of writing | no hidden or mixed-up stream, no screen left busy, dialogs that close, saved text that can be got back, and what a careful writer can rely on |
| `client` | 15 careful and 23 hasty mixes of up to 8 things done, with up to 2 open polls | who is signed in, what is replaced, compared and shown, and that every wait ends |
| `episode_upload_race` | a save beside a spooled upload | a save is overwritten without a revision |
| `episode_mirror_race` | saves beside a restore | the file keeps an older text |
| `import_stuck` | one import with a row the database refuses | the job stays `running` |
| `import_duplicate` | one import beside one added episode | two episodes with one number |
| `editor_restore` | one unsaved piece of writing and a restore | the text on the screen is not in the history |
| `accounts_demote_race` | two admins demoting themselves | no active admin is left |

Why the bounds are enough. In the queue three jobs give a full group with one waiting and
one promoted while its owner still sleeps, in the group of two also a slot freed beside a
taken one; the safety results are proved for any number besides. For the episodes, two requests
are what a race takes, and four in all give a history that reaches its cap, a replace-all
suspended between two episodes and a restore of something saved before. Two overlapping
imports with a repeated number cover every order of lookups and insertions, and two foreign
edits an addition and a deletion, before and after the import has created their project. Three
requests on two accounts, in every order and interleaving, create a second admin and let both
resign, or use a link, use it again, and set another password in between (mailing a link is no
request that has steps); TLC reaches both exceptions of the two properties there, and the
proofs take any number. The names of the requests are symmetric: nothing distinguishes them, and no liveness is checked there. In the editor an answer needs one other episode to
come too late for; two calls give every order of handling and answering, three runs a stream
aborted while an aborted one has not ended, and two checks a panel closed or restarted while
the stream of the one before is still there. A click in the list restarts an open check only
while fewer than `checks` streams are there (the bound in `Select`). In the client every screen
appears with a careful person, long enough to do each thing after each other one, and with a
hasty one who leaves two or three calls in flight; the mixes name what is done together, since
all the tabs of the settings at once would only multiply states that do not touch each other.
Pages of a listing hold three rows (`ListLimit`), so that a listing can be cut short.

### Findings

The last six runs find violations and are reported under `findings`: each is a
disagreement between the code and a statement of its documentation, tests or comments.
They are narrow by intention: within a component the passing run states what does hold
(for handlers on the loop, for requests and imports that are not overtaken)
and the violation shows what the wider statement would need. Three more findings are the
reverse side of properties that pass:

- Two confirmations of one reset link may both compare its fingerprint (`main.py` 370) before either
  replaces the password (372), and both succeed; so does one that has compared when the password
  is changed by other means, which `tests/test_password_management.py` 160-165 expects to be refused.
  `LinkWorksOnce` excepts these and nothing else; without its exception TLC finds such a use.
- `docs/user-guide.md` 112 says "To clear a key, save an empty value". The connection form leaves an
  empty key out of what it sends (`SettingsPanel.tsx` 322-330), so that the stored one stays; only the
  clear button empties it. The statement is true of the request. `ScreensInStep` checks what
  the code's comment says: a save of other fields wipes no key.
- `docs/user-guide.md` 89 says that matching memos are pre-selected for replacement too.
  They are listed, but the search screen selects episodes only (`SearchPanel.tsx` 53) and
  `project_text_replace` (`main.py` 462) touches no memo: `ReplaceServed` leaves the notes alone, and
  `ReplaceIsExact` speaks of episodes.

### Fairness

`LlmQueue`: the loop resumes a resolved future (weak fairness of `Wake`) and finalises a
dropped generator; an event is sent or its client found gone; a vendor's answer is finite.
The last is strong fairness, since an answer in pieces goes back and forth between the
vendor and the response; the code bounds it by token limits and read timeouts. Cancellations
and submissions are never relied upon. `EpisodeStore` and `ImportJobs`: a step that can be
taken again and again is taken, although others use the loop in between (strong fairness of
a request's or a task's step: asyncio's ready queue is FIFO and threads are scheduled),
which also says that uploads, embedding and vector store end, by their timeouts.
`EditorPanel`: calls are answered or fail and streams end (weak fairness of `Network`,
`AiOver`, `CheckOver`), by the server's and the browser's timeouts; the writer owes nothing.
`Client`: in the group of the calls, the jobs and the chat's pending answers something moves
(weak fairness of `Progress`, for `moves`, which is the stage of each of them), and the polls of
each import move, since its interval fires (`PollProgress`). What a person does is not forced,
nor are the ticks of the queue, so that neither keeps anything else from being waited for.

## Proofs

Seven modules of theorems and one of lemmas, for every value of the constants that the named
assumptions of the modules allow. In each, the inductive invariant `IInv` (or what takes its
place) is kept by every action, and the theorems follow from it.

`LlmQueueProofs`, for every set of groups, every limit of at least one and any number of jobs:
`TypeCorrect`, `LimitRespected`, `NoIdleSlot`, `FirstComeFirstServed`, `NoLeakedSlot`,
`NoForgottenWaiter`, `CallsHoldSlots`, and the refinement `QueueImplementsGate`. The invariant
is the conjunction of `TypeOK`, `ConcurrencyLimit`, `WorkConserving`, `FifoOrder`,
`SlotsAreOwned` and `FuturesAgree`. None of them is inductive alone: that a promotion keeps the
order needs that the two lists are one increasing sequence, that a release removes the right
job needs that it is in exactly one of them, which follows from its status, and that a woken
coroutine may call the vendor needs that a resolved future means a running job
(`FuturesAgree`). The proof goes in layers: what `RemoveFirst` and concatenation do to
increasing sequences (`RemoveAtPlace` to `ConcatIncreasing`); what `Promote` makes of two such
lists and of the statuses (`PromoteLists`, `PromoteMembers`, `PromoteKeeps`); then
`SubmitKeeps`, `ReleaseKeeps` and `MoveKeeps`, to one of which every action reduces, and
`NextIInv`. For the refinement, `PromoteServes` says that after a promotion the running list
is the oldest part of the line, and a submission maps to `Arrive`, a release to `Leave`, every
other step to a stutter.

`EpisodeStoreProofs`, for any episodes, contents, cap and mixes: `TypeCorrect`, `CopiesFollow`,
`OnlyOldestIsDropped`, `DeletedStaysDeleted`, `ReplacedTextIsKept`, `ReplaceIsCurrent`. The
invariant says what each stage of a handler implies about its fields (`Ready`, `Kinds`), that
a session holds the present text where no thread can have come between (`Fresh`, under
`Exclusive`: no threads, or one request at a time), that a deleted episode has no history
(`HistoryOfRow`), and that a copy that differs from the row is owed by a request that is about
to write it (`MirrorOwed`, `IndexOwed`). With no request under way nobody owes anything, which
is `CopiesInStep`. That a first episode exists to be taken by a replace-all rests on the
well-foundedness of the natural numbers.

`ImportJobsProofs`, for any number of jobs, numbers and files: `TypeCorrect`, `ProgressAddsUp`,
`DoublesAreRaces`, `StatusMovesForward`, and `NoGhosts`, which assumes that the database
refuses no row (`Rejected = {}`; the run `import_stuck` shows why). The invariant relates the row of a job to
the state of its task (`StatusOfTask`, `CountersOfTask`, `EndIsShown`) and says that what a
lookup found is still true at the insertion unless the import is `overtaken`, because the loop is
held in between (`LookupHolds`): no other import can come there, and a thread that edits the number
is recorded. Repeated numbers in one file, imports that overlap, and edits of any project, one
just created included, are covered.

`AccountsProofs`, for any set of accounts and any number of requests however they interleave:
`TypeCorrect`, `AdminsLostInRaces` and `ALinkWorksOnce`. The invariant says what a request that nobody has
overtaken can still rely on (`Stands`): its caller is an active admin, so that one who acts on
another account remains himself, and one who acts on his own has been counted out by the
guard. A confirmation under way is about the password that is stored, or an older one if it was
overtaken (`UseStands`), and a link once used is older than the hash of its account
(`HashesStand`). `accounts_demote_race` shows that the first exception is needed, and the first of
the three findings above the second.

`EditorPanelProofs`, for any episodes, mixes and bounds: `TypeCorrect`, `StreamsBelong`,
`SavedTextIsKept`, `TextsStayApart`, `ListFollows`, `NothingIsLost`. `TInv` adds to the types that the
panel is about the episode in the editor, that the number of streams is bounded (so that a
check that is started over finds a name: `GensAssumption`, whose left side is what calls, voice
input and clicks can start), and that the client knows of no episode that the server does not
have. `StreamsAreOwned` and `SavedIsKept` are inductive with it. For the careful writer, `Care`
says that texts, lists, results and dialogs hold no writing of another episode (`PureTexts`),
that one call is under way and everything on the screen is about the episode in the editor
(`OneThing`), and that what the list lacks is in the answer that is awaited (`ListOwed`).
That no text is lost then has to be shown for the steps that replace the editor's text only.

`ClientProofs`, for any mixes, passwords, languages, names and bounds: `TypeCorrect`,
`SignedOutIsOut`, `ChoiceIsKept`, `ComparisonIsOfOne`, `ReplacementIsExact`, `CredentialsKept`. The
invariant `Inv` has a part for each thing the screens share. None of the theorems is about one
screen alone, since an answer arrives wherever the person is by then:

- `SignedOutIsOut` needs to know what is in flight. After the sign-out has been answered no call
  carries credentials or a cookie, and none of those that would let him in, `/auth/me` and the
  login's own, was let through (`LeftOK`). That a call sent earlier can have been answered before is
  excluded because the page is loaded again, which drops it.
- `ChoiceIsKept`: the stored language, that of the login screen and that of the workspace are the one
  chosen last (`ChoiceOK`), as far as the storage works.
- `CredentialsKept`: in a careful person's hands the calls in flight carry the stored credentials
  or there are none (`CredsOK`), so that a 401 is about those; it is the only step that clears
  them without something the person does (`StoredBy`).
- `ReplacementIsExact`: while the button waits, the one call of that kind carries what was confirmed,
  and either the texts are as they were then or they are already replaced; once it has returned
  there is none left (`ReplaceOK`). What else is typed, searched or selected meanwhile does not enter.
- `ComparisonIsOfOne`: an answer to the request for a revision exists only if the revision is the
  episode's (`AnsOK`).
- `TypeCorrect`: an answer that takes the person to a project (`create`, `project`, `save`) names a row
  there is, and is pending in the workspace only (`VoidOK`), so that he is in a project he can see; an
  import shown as completed has its project (`ImportOK`, `DbOK`); the items of the activity list are
  the AI calls in flight, those of screens that are gone included (`LlmOK`).

With some hundred actions in eleven modules the invariant is not carried through each of them.
`Stays` says what a step of a screen may do to the rest: every call afterwards is an old one that
went on (`OldCall`) or a new one with the stored credentials (`NewCall`), the rows that calls refer to
are still there (`DbGrows`), the same screen is mounted. `StaysInv` shows that such a step keeps `Inv` when
nobody comes or goes (`Still`); a lemma per module (`ActivityStays` to `DashboardStays`) shows that its
actions are such steps. What is left are the steps that mount another screen (`MountInv`), load the
page (`PageLoadInv`), let somebody in (`AdmitInv`, `SubmitInv`) or show him the door (`LoginInv`,
`LogoutInv`). `WebApiProofs` has what all this needs of sequences of calls: their concatenation,
removal and mapping, and how many calls of a kind are left.

The assumptions are that there is a password, a language and a name, that none of them is `None`, and
that the mixes are of the type `Mix`; the modules also assume that a page of a listing has a row
(`ListLimitAssumption`, from `clamp_limit`), which TLC evaluates like the others.

`ScreenProofs`, for the same parameters: `ScreensAreInStep`. That every screen shows what the server
has when nothing is under way is not inductive: it says nothing of the moments between. `ScreenInv`
does, for a person who waits and whose calls are answered (`Calm`; in a behaviour with other mixes
`ScreensInStep` claims nothing, and `CalmInv` is the invariant that holds in all of them,
`ScreensKeepUp`):

- What is shown is divided into `Parts`: the turns of the chat, the matches of the search, the rows
  of a tab, the list and the sources of the write screen, the connection, the key as it was meant,
  the accounts, the backups, the two halves of the usage, and the copy of the open project in
  `Workspace`. Each is right (`IsRight`) or owed by a call in flight (`Owes`): a change that was
  served owes the parts it has changed, a request that loads a part owes it from the moment it is
  sent. With no call in flight nothing is owed, which is the property.
- What such a call will bring is right too (`Answers`), and stays so until it is applied. That needs
  to know that no other change is served meanwhile (`Alone`: beside a change only calls that look on
  are in flight, and only one of the loads of the write screen), that the call is about the tab, the
  episode or the search that is still on the screen (`AboutThis`), that its screen is still mounted
  (`AtHome`), and that it fails only where the server may refuse it (`Refusable`).
- A question that is being answered by the AI is the exception: its second turn is stored when the
  answer is there, also when the person was signed out since. `AskedOK` says which call has asked
  it, and the last part of `Alone` that nobody reads the history before.
- `StoreOK` has what the rows need by themselves: an answer in the chat comes after its question,
  the episodes have numbers of their own. The second rests on `Free`, that a number chosen for a new
  episode from a complete list is not taken when the server inserts it.

`QuietStep` covers the steps that concern nothing shown, `ClickStep`, `WriteServedStep`,
`WriteOverStep`, `ReadServedStep`, `ReadOverStep` and `MountStep` the phases of a call and the
change of a screen; every action is one of these but the chat's two steps, signing in and out
(`PageStep`, `LeaveStep`) and `ProjectSavedStep`. One lemma per module (`ChatScreens` to
`SignInScreens`) collects its actions, and `ScreenNext` all of them. `ListLimit` enters where a list
is cut: the chat, and the list of the episodes with the numbers chosen from it, are right as long as
all rows are listed, as `ScreensInStep` says itself.

With this every invariant that a run checks, and every action property, is stated by a theorem.
Model-checked only: the liveness properties (fairness and ENABLED are beyond the prover) and the
violations.

## Not modelled

The table under `components` gives the reason for each part. In short: the internals of
`editor_common`, Qdrant, PostgreSQL and the vendors, among them the rounds of an OAuth sign-in
(the client sees a page that comes back with a cookie or without one); layout, export, the
widths of the columns and Word conversion; the log of the AI usage, one insert whose failure
is ignored; the Anna plugin, a relay without state; the wrappers around docker compose. Of the runtime
configuration the row is modelled, but not its transaction, the CORS cache, or the two reads
that an AI call makes of it. Titles, summaries and the names in the lists are left out
everywhere.

## Plan

1. The connection pool composed with `LlmQueue`: buffered handlers hold a connection while they
   wait for their turn. With it the two reads of the configuration by a queued call.
2. Backups (a manual one beside the loop, under the retention limit), launcher and migrations;
   and the text algorithms (`chunks`, `_snippets`, the sections of `narou_import`) as functions
   against a reference definition.
3. Abstract specifications: a versioned document that `EpisodeStore` implements for handlers
   on the loop, and a job that goes from queued to a final status for `ImportJobs`.
