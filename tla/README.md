# Formal model of WasmRedis

This directory holds TLA+ modules that model the program of this repository, the
TLC configurations that check them on small instances, and proofs that TLAPS
checks for every value of the constants.

    tlc -config MCEngine_power.cfg MCEngine        # one run
    tlapm EngineProofs.tla                         # one proof module

## 1. The system

WasmRedis is a key-value server with expiry dates, searches by value, an
append-only journal and snapshots. It also serves in-memory task queues over
HTTP, a terminal and a web dashboard. A script beside it draws its presentation.

| Part | Source | State it keeps | Operations |
| --- | --- | --- | --- |
| Key-value engine | `internal/engine/engine.go`, `query.go`, `batch.go` | the map, its index, the journal buffer, the sequence number, `closed`; one mutex | SET, GET, DELETE, GET WHERE, batches |
| Persistence | `internal/engine/persistence.go` | none of its own | `Flush`, `Snapshot`, `Restore`, `Close` |
| File storage | `internal/storage/storage.go` | the AOF and the snapshot file | append with repair, read with removal of a torn tail, atomic replacement |
| Background tasks | `internal/engine/background.go` | `running`, three tickers | flush, snapshot, sweep of the expired keys, until the first disk error |
| File locks | `internal/storage/lock.go` | two lock files | lock both or none |
| Process | `main.go`, `server.go`, `cli.go` | a context and its cancellation, deferred calls, the HTTP server, the terminal's reader | start, signal, shutdown, exit |
| Task queues | `internal/engine/queues.go`, `status.go` | per queue the tasks and a counter per status; the last task number; one mutex | `Create`, `Add`, `Claim`, `Update`, `Page`, `List` |
| Secondary index | `internal/index/index.go` | `entries`, `inverted`, two ordered trees | `Set`, `Delete`, `Find` |
| Command language | `internal/command/command.go` | none | `split`, `Parse` |
| Settings | `internal/config/config.go` | none | `Load`, `Validate` |
| HTTP API | `internal/api/api.go` | none | one handler per route |
| Dashboard | `web/src/` | the last answer of each poll and the path it is for, the revision, the chosen queue, the scroll position, the total last announced | polling with cancellation, changes, choice of a queue, virtual list |
| Slides | `presentation/build.py` | `_cache` of the quoted files, the pictures in `img/`, the page under construction | quoting and drawing code, placing pictures, remarks and notes |

**How they interact.** HTTP handlers, the terminal and the background goroutine
call the engine's methods, which its mutex serialises; a method that saves keeps
the mutex during its disk calls. The queues have a mutex of their own and share
nothing with the engine. A signal, the end of the background goroutine or the
end of the server cancels one context, which everything else watches; `run`
closes the engine and releases the locks in deferred calls. The dashboard and
other clients meet the queues only through HTTP answers, which may be old when
they are used. The dashboard polls two paths every two seconds; a change of the
user, of the chosen queue or of the position aborts requests and sends others. The
slides read the source files and nothing else of the program.

**What is hard.** Stops between two disk calls; writes and renames that a power
loss undoes in any combination; disk errors in the middle of an append, and
errors while undoing it; lines that appear twice or follow a line cut short;
expiry dates that pass while nothing runs; clients that act on an old view of
the tasks; the order of the shutdown; answers that arrive when the page asks for
something else; a list that shrinks under its reader; texts that look like numbers,
hold quotation marks or nothing; lines of code that are cut and files that change
while they are quoted. `PROJECT.json` lists these hazards at
their lines with the properties that cover them.

**What makes each part correct.**

- Engine and persistence: a start never refuses the files an earlier run left;
  a running engine serves exactly the result of its operations, in order and
  without a hole; what a successful flush, snapshot or close covered survives
  every stop; a stop loses only what is in the buffer, unless an earlier process ended
  without a successful `Close`; the index files the keys
  of the map under their values; expiry dates survive the files; operations that
  nobody flushes are saved in the end.
- Process: one process at a time has a file open and works on it, but for requests that
  a server could not wait for any longer; nobody leaves a lock behind; success means
  everything is saved; a signal or a disk error ends the process.
- Queues: counters, pages and lists agree; tasks start in the order they were
  added; a task is given out to one client at a time; reading page after page
  misses nothing; a completed task stays completed.
- Index: its four structures describe one filing of the map, and `Find` returns the
  keys a scan would, in order.
- Commands: `Parse` hears the command that was meant, and refuses what was mistyped.
- Dashboard: rows belong to the queue and position on the screen and are all there;
  nothing newer is replaced by something older; the user's own change is seen; the
  page catches up.
- Slides: one version of each file per run; only pictures of this run, and captures
  taken by hand; each number drawn once and explained once; nothing covers anything else.

## 2. The modules

| Module | Models |
| --- | --- |
| `Journal` | Data: entries, expiry, journal lines, the AOF with its torn tail, snapshots, what an unsynced write may leave |
| `DurableMap` | The promise of the engine: a history of maps, a prefix of it that is safe, recovery to a prefix that contains the safe one |
| `Engine` | Engine, persistence and storage together, every disk call a step; the stops; the properties; the mapping to `DurableMap` |
| `EngineInv` | The inductive invariants of `Engine` |
| `EngineProofs` | Lemmas on the data, typing, the invariant and what follows from it; what a power loss spares, and the refinement |
| `TaskBoard` | The promise of the queues: numbered tasks, oldest first, nothing given back by itself |
| `Queues` | `internal/engine/queues.go` with its counters, its searches and its pages; clients that read page after page; the mapping to `TaskBoard` |
| `QueuesProofs` | The invariants of the queues, of their pages and of their readers; the refinement of `TaskBoard` |
| `Ranks`, `RanksProofs` | The numbers of a finite set in ascending order, and that each comes once |
| `Service` | Processes: locks, start, goroutines, requests, signals, shutdown, exit |
| `ServiceProofs` | The invariant of the processes and what follows from it |
| `VirtualList` | Geometry of the list of tasks: rows drawn, page asked for, limits of scrolling |
| `Dashboard` | The page: `usePolling`, React's effects, the user, the network, the server it polls |
| `DashboardProofs` | The geometry for all sizes; the invariant of the page |
| `Words` | Texts: their order as Go strings and whether one holds another |
| `Index` | `internal/index`: the two maps and two ordered trees, `Set`, `Delete`, `Find` |
| `Command` | `internal/command`: `split` and `Parse` |
| `MemoryEngine` | The engine without storage, given lines of text: `Command` and `Index` at work together |
| `CommandProofs` | `Parse`, for all texts: what it makes of a command in any way of writing it, and of a line that lacks a word or a mark |
| `MemoryProofs` | Lines are heard as meant, the index describes the map, and a search in it answers like a scan |
| `Layout` | How `build.py` measures texts, cuts lines, sizes pictures, places blocks |
| `Deck` | The statements of `build.py`, page by page |
| `Slides` | The script as a program: files, cache, pictures on disk, runs that fail half-way |
| `SlidesProofs` | Typing; cutting and scaling for all lengths; where pictures and excerpts come from; what is on the pages of any script that is sound as a text |
| `MC...` | Symmetry, views and constants for TLC |

### Engine

The engine's mutex serialises its methods, so a method that stays in memory is one
action (`Set`, `Delete`, `GetExpired`). A method that uses the disk is a series of
actions, and `pc` says where it stands: `open` (before `Write`), `sync`, `repair`
(a failed append is undone), `syncdir`, `snapshot` (before the rename), `snapdir`,
`clear`, `cleardir`. `call` remembers whether `Flush`, `Snapshot` or `Close` is
behind an append. `SweepExpired` and `GetWhere` remove expired keys one by one
(`Evict`), in any order. `Restore` is `LoadFiles`, one `ReplayLine` per line, and
`FinishRestore`.

The files are modelled twice: as the operating system shows them (`aof`, `snap`)
and as what a power loss may leave of them: `aofNew` (contents of the file the name
leads to, each unsynced write kept up to any byte), `aofOld` (files the directory may
still lead to while its sync is missing) and `snapAlts`. A kill leaves the first, a
power loss any of the second, and the process then starts from there. Lines are
records; a line that is not complete is the flag `torn`, and an append after a torn
line produces `Corrupt`.

`run()` calls `Close` once, in a deferred call, and the process then ends whether or not
that succeeded (`returned`, `Exit`; `main.go:72-80`, `17-21`). So a process may end on its
own with lines in the file that the directory does not lead to for certain
(`storage.go:47`), as it may when it is killed.

Expiry dates are numbers; `Stored` is their trip through `UnixNano` and `time.Unix`,
which wraps beyond `MaxStamp`. `Set` refuses such dates as the code does. Two
history variables serve the properties: `hist` (the map after each operation) and
`safe` (the last operation that a successful save covered). Nothing reads them.
`safe` is not raised by a flush that finds an empty buffer.

### Queues

Every method holds the mutex from its first read to its last write, so each is one
action. Clients hold old pages, lose answers and repeat requests; since no method
asks who calls, that is covered by letting any client call anything at any time.
`started`, `runs` and `reports` are histories for the properties; `walks` are
clients that ask for consecutive pages.

### Service

Per process, `main` is the place in `run()`, `background` the goroutine of
`StartBackground`, `handler` what each request asks for, `reader` the goroutine
that reads the terminal, `user` the caller that works on the files with the engine's
mutex. The engine is reduced to counters of accepted and saved operations and
`closed`. Deferred calls run in Go's order: `Close`, then the locks, then `main`
returns and every other goroutine stops. The goroutine of `StartBackground` looks at
the context only between its calls of the engine, so it ends only when it is not
working on the files.

### MemoryEngine, Index, Command

Each step gives the engine one line of text, either a command as somebody means it
in one of the ways in which it can be written (`Say`), or one that was mistyped
(`Misspell`). A line is a sequence of pieces (`Alphabet`): blanks, quotation marks and
runs of other characters; texts are members of a small ordered set, of which `Number`
tells the numeric value, `Plain` the way `strconv` prints it and `Spelled` the pieces,
if a text has blanks or marks in it. `Scanned` is what the loop of `split` has made of
a line. `Written` is what README.md:56-82 allows: each command in each of its ways. `Forgotten` leaves
out a word, a blank or a quotation mark of such a line, except within marks,
where it would only be another text. A tree is the set of what is in it: a walk from
an operand on passes what lies on its way (`OnTheWay`) and ends before the first value
of the other type (`Met`), and `Find` sorts what it has collected, so the order of the
walk itself is not in the answer. Values that `Less` does not tell apart are one and the
same to the tree (`Removed`). The loops of `SweepExpired` and `GetWhere` over `remove`
are one step on all their keys (`AllUnfiled`); that deleting keys one after another comes
to the same is the theorem `OneByOne`. `meant`, `heard` and `answer` say what the last
line was and what became of it.

### Dashboard

`polls` is the state of the two `usePolling`, `requests` what is under way with the
answer once the server has computed it, `view` the `TaskList`. Rendering is part
of the step that changes the state (`Render`), because React does both before
anything else runs; its effects are a step of their own (`FlushEffects`), with old
answers arriving before it. What is shown is computed (`Shown`), as in the code.
`version` numbers the states of the server, so that properties can say which of
two answers is older.

### Slides

One action per kind of statement; `Deck` is the list of statements with what each
draws, quotes and places. A text is its number of characters, a file its version,
its number of lines and their length. The two captures of the dashboard in `img/` are
files as well, which people replace or remove and no run draws: one is placed as it is
(`PlaceCapture`, `build.py:1065`), a part of the other is cut out and placed like a
drawing (`Crop`, `build.py:475`, `1078`). `disk` remembers which run drew each picture,
from which version of which file; `page` holds the rectangles of the page under
construction, the numbers on its pictures and the numbers its remarks explain.
`OwnPictures`, `Excerpts`, `Explained` and `Neat` say of the text of a script what can be
seen without running it. `MCSlides` assumes them of the script at hand, so TLC evaluates
them, with lines of 0 to 150 characters.

## 3. The runs

| Run | Shows |
| --- | --- |
| `kill` | Process kills, disk errors and failing repairs anywhere, lifetimes on both sides of the last representable date: an engine that starts serves its history, under an index that follows the map, and nothing saved is rewritten |
| `power` | Power losses, kills and disk errors anywhere: every start succeeds, what was saved stays, only a stop without a successful `Close` exposes more than the buffer to a power loss (`GuardKept`), the inductive invariant of the proofs (`DurableInv`) holds, `DurableMap` is implemented |
| `live` | Without failures, every operation is saved in the end |
| `board` | Queues: counters, pages, order of the starts, one run at a time, reading page after page while tasks change, refinement of `TaskBoard` |
| `locks` | Two processes with a file in common, server or terminal, with requests that may outlive their server: who has a file open is alone with it but for such a request, and nobody leaves a lock behind |
| `shutdown` | A server with late requests: what is accepted is saved, signals and disk errors end it |
| `queries` | An engine without storage that is given every command in every way of writing it, and slips: the index stays consistent, GET WHERE answers as a scan would, lines are heard as meant, mistyped ones refused |
| `dashboard` | One page and a server that changes, restarts and loses messages, while the user clicks, scrolls and changes things: rows belong to the view and are there, nothing goes back, own changes are seen, the page catches up |
| `slides` | Two runs of the whole script on files that are edited at any moment: one version per file, pictures of this run or captures, numbers drawn and explained once, no overlap |
| `unsynced_restart`, `terminal_hang`, `deck_unsaved` | Counterexamples, see section 4 |

**Bounds.** Two keys are enough for a map that mixes two moments; two values in
`kill`, so that an update leaves one index entry for another, one in `power`,
where no property compares values. Three operations (`MaxSeq`) in `kill` give a
snapshot, a journal line after it and a buffered one; two in `power`, whose files have
images of their own, give any two of these. After a restart that lost operations
their numbers are used again, so histories do not end at the last write.
`MaxLines` 3 lets a repeated append duplicate a line, 4 (`power`, `live`) a line
and its successor. `MaxTime` lets entries expire before, during and after saves
and restarts. `MaxStamp` is just below the largest date a command can ask for, so
wrapping is reached. The number of stops, saves and errors is not bounded. Queues: three tasks in
two queues, each started at most twice, one per page, so that changes come between
any two pages; readers use the two filters that the properties are about. `Limit`
stands for at most 200. Service: two processes with one request each, or one with
two; a process is launched once, two in a row are the restart. Queries: the texts
are chosen so that each special case of the code meets another: the empty one, one
with a blank, one with a quotation mark, two spellings of one number, and a text
that is a string for one entry and a number for another; two keys are enough for a
value that several keys share or that none has any more. Lines are mistyped only
while the map is empty, because `Parse` does not read it. Dashboard: row height,
page and viewport are scaled down such that a list of five rows still fits and one
of seven is scaled; six rows are the limit of a page, as few as the
assumption of `VirtualList` allows. Two events (changes of the server, losses, clicks)
suffice for every race between two of them; requests, timers and effects are not
bounded. The theorems of section 5 have no such bounds. Slides: lines of 20 to 130
characters go from much shorter than the columns of any picture to lines that are cut;
`Shrink` removes the last 60 lines of a file, so that a quotation fails, or a capture;
of the two source files that are edited, one is quoted by several pages; both captures change too. Two edits and two runs are a run on the pictures of an earlier one, with an edit in each.

**View.** Without power losses no step reads `aofNew`, `aofOld` and `snapAlts`; the
run `kill` leaves them out of the state's identity (`KillView`). In `queries` the last
line and its answer are no part of the state's identity (`Content`); the properties
about them are action properties, checked at every step. Symmetry is used for
keys, values, queue names and readers, never in a run that checks a liveness
property.

**Deadlock** is checked except where the system may stop: an AOF with an undecodable
line blocks the start for good (`kill`), the queues are full (`board`), every process
is gone (`Service`), or the last run of the script has ended (`slides`). The page never
stops polling (`dashboard`).

**Fairness.** `Engine!FairSpec`: `main` restores, the holder of the mutex goes on,
and the background goroutine flushes again and again (`Flush` stays enabled while the
buffer is not empty and nobody holds the mutex, except during other methods, which
all end). `Service!FairSpec`: every goroutine that can go on does. The background
loop gets strong fairness for stopping, because `select` chooses among the ready
cases at random, and so do the handlers, because a goroutine that waits for a Go
mutex is served after at most a few others. The user at the terminal is under no
fairness: he may never type again. `Dashboard!FairSpec`: React runs its effects, the
timers of the browser expire, and for each poller a request that is not lost is
served and its answer received. Losses end because they are bounded, and `CatchesUp`
speaks of the time after the last one. The user owes nothing, and his changes may
stay under way for ever.

## 4. Where code and documentation disagree

- `unsynced_restart`: killed between `Write` and `Sync`, the restarted engine
  serves lines that were never synced, an explicit flush finds an empty buffer and
  returns, and a power loss takes them (`persistence.go:21`; README.md:95-97). The same
  comes about without a kill when the directory sync of the last flush fails
  (`storage.go:47`): `main` ends although `Close` has failed. `GuardKept` says that there
  is no third way, and that the next save which has something to write ends the danger.
- `terminal_hang`: a signal that arrives while the terminal's reader holds a line
  may leave `run()` waiting for a read error that never comes (`cli.go:41`;
  `main.go:89`).
- `deck_unsaved`: `build.py` ends without a call of `finish()`, which alone saves the
  presentation; a run renews the pictures in `img/` and leaves the `.pptx` as it was
  (`build.py:538-547`; `build.py:2`, `presentation/README.md:16-26`).

Two more have no run of their own. The first is excluded by an assumption, the second
an exception that the property makes:

- `"repair" \notin Faults`: a write fails halfway and its `Truncate` fails too. The
  unfinished line stays, the next append is glued to it, and `Close` reports success
  although the next start refuses the file (`storage.go:44-45`; README.md:95). The
  faults of `MCEngine_kill.cfg` with the invariant `RestoreNeverRefuses` show it. No
  property covers this: nothing in the code looks at the end of the file before an
  append, and `kill`, which has that fault, shows only what holds of an engine that
  starts.
- A handler that outlives the 5 s of the shutdown runs `Snapshot` after `Close` and after
  the locks are released, while another process may have opened the files
  (`server.go:40-45`, `persistence.go:31`; README.md:120). `ExclusiveFiles` says that
  nothing else can, and that such a server ends with an error; `MCService_locks.cfg`
  without that exception shows it.

Two numbers in the texts differ from the code without a consequence for what is
checked: rows of the list are 56 pixels high (`TaskList.jsx:13`), not 80
(README.md:171), and a page has 200 tasks (`TaskList.jsx:39`), not a hundred as one of
the slides says.

## 5. The proofs

TLAPS checks every theorem for all values of the constants that satisfy the named
assumptions of the modules. The invariants were first checked by TLC on the
instances of the runs, then strengthened until they were inductive. Where something holds
of every prefix of a sequence, the proof looks at the least one of which it would not
(`LeastNat` in `RanksProofs`), since the induction theorems of the library cannot be used.

### Engine

The properties that users rely on - `ServesHistory`, `IndexMatchesState`,
`SafePrefixKept`, `ImplementsDurableMap` - are proved for every mix of faults but one:
`~({"power", "repair"} \subseteq Faults)`. That mix breaks them: a `Truncate` that was
not synced shows a shorter file, a killed engine restarts from it with operations of
its own, and a power loss then brings back the lines of the earlier future (TLC, with
all four faults). Each of the two remaining cases has an invariant of its own, and
`Sound` is what they have in common, from which the theorems follow. What a start or a
stop may cost is proved under `"repair" \notin Faults` only, for otherwise
`RestoreNeverRefuses` is false (section 4).

The properties are not inductive. That a start succeeds depends on the files as a
power loss may have left them, in any combination of journal and snapshot; that
depends on where each save stood. `IInv` (`EngineInv`) says so:

- `AllTrue`: every line in a file or in the buffer says what that operation did;
- `FilesLead`: the files as they show are possible images and the most advanced
  ones, so a restart from them never leaves behind an image with a future of its own;
- `WholeLines`: lines are appended only after a newline;
- `AnyPairRestores`: any journal image replays without a gap on any snapshot image,
  at least up to `safe`;
- `SnapshotsLinked`: the journal leads from each snapshot image to each later one;
- `Safe`, `Replaying`, `Running`, `Saving`: where the history, the replay, the
  running engine and a save stand.

`power` checks `IInv` with TLC, as a part of `DurableInv`; `EngineProofs` proves that it holds initially
(`InitInvariant`) and is preserved, with one lemma per action (`StepInvariant`).

When undoing may fail and the power stays on, the AOF may hold lines twice, or a torn tail
that the next append turns into a glued line. `KillInv` therefore speaks of the shown files
only: apart from glued lines everything in them is true (`ShownTrue`), and a file without
glued line leads from the snapshot to all that has left the buffer (`Working`) and to all
that is safe, while an append that was interrupted leaves the old file to go back to
(`Appending`). Gaps need no place in it: a start that meets one does not finish. TLC
checks it with the constants of `MCEngine_kill.cfg`; the lemmas
`Kill...` prove each step.

It follows, for every set of keys and values, any lifetimes and any bounds:

| Theorem | States |
| --- | --- |
| `Invariance` | `Spec => []IInv`, without failed undos |
| `KillInvariance` | `Spec => []KillInv`, without power losses |
| `TypeCorrect` | `Spec => []TypeOK` |
| `StartsAlwaysSucceed` | `Spec => []RestoreNeverRefuses` |
| `HistoryServed` | `Spec => []ServesHistory` |
| `IndexFollowsMap` | `Spec => []IndexMatchesState` |
| `SavesLast` | `Spec => SafePrefixKept` |
| `Implements` | `Spec => ImplementsDurableMap` |
| `DurableInvariance` | `Spec => []DurableInv` |
| `GuardIsKept` | `Spec => GuardKept`, without failed undos |

`DurableInv` adds to `IInv` that a closed engine has an empty buffer and only a late
`Snapshot` at work (`Closing`). `GuardKept` is about a fact that comes and goes: that every
pair of images leads as far as the files do (`ImagesAlike` in `EngineProofs`). Each step
keeps it (`AlikeStep`), a power loss and a stop after `Close` included, except a process that
stops unclosed, and the save of something new brings it back (`SaveEnds`). Kills, power
losses and failed Closes may come in any mix; `unsynced_restart` shows that the exception is
needed.

`TypeOK` alone is not inductive: `At(sequence)` has a type only because the history
is as long as the sequence, which is part of `Running`.

### Service

`FilesAreExclusive`, `LocksGivenBack` and `SuccessIsSaved` hold with requests that outlive
their server. They rest on `IInv` of `ServiceProofs`: an opened process holds the locks of
its files, no two hold one, and a process that has released them holds none (`LocksHeld`);
whoever works on the files is there to do so (`UserThere`); `run` closes the engine only
when the background goroutine has ended, and requests that are still there then mean that
`run` has an error (`JoinedBeforeClose`); and behind `Close` the engine is closed with
everything saved, or the process reports failure (`ClosedOrFailed`). The last two are why
success cannot hide a lost operation: an operation is accepted only by an open engine, and a closed
one stays as it is, whoever is late.

### Queues

| Theorem | States |
| --- | --- |
| `CountersAreRight` | `Spec => []CountsMatch` |
| `OneRunOfATask` | `Spec => []OneRunAtATime` |
| `FirstInFirstOut` | `Spec => []FirstStartsInOrder` |
| `WellTyped` | `Spec => []TypeOK` |
| `PagesAreFull` | `Spec => []PagesFull` |
| `WholeWalksAreExact` | `Spec => []WholeWalkExact` |
| `CompletedWalksMissNone` | `Spec => []CompletedWalkMissesNone` |
| `KeepsThePromise` | `Spec => ImplementsTaskBoard` |

The invariant adds to these properties that numbers are unique over all queues and
that the tasks started so far are the first ones of their queue, all others pending
(`StartedFirst`). That is why a claim that starts a task for the first time starts the
next one, although retries may put pending tasks before it. The refinement needs two
more facts (`NumbersInOrder`): numbers grow along a queue, so that the first pending
place holds the least pending number, and every number given out belongs to a task, so
that the next one of the abstract board is `nextID + 1`.

Pages are cut from the tasks a scan keeps, in its order (`Ranks`): `InOrderLists` says
that this list has each of them once and ascending. With `CountsMatch` it makes a page as
long as the total announces. `WalksInvariant` is about readers: what a reader has got and
what it wants are numbers of tasks of its queue; without a filter its pages are a prefix of
the list, which only grows at its end; and of the completed tasks it wanted, each is in
what it has got or lies, in the list as it is now, at or behind its next offset, because a
completed task never leaves that list and one that joins it can only push others back.

### Dashboard

`PageReachesRows` and `RowsFillViewport` are about the geometry alone: for every length
of a list and every position, scaled or not, the page asked for reaches every row drawn,
and the rows cover the viewport or end with the list. `IInv` of `DashboardProofs` says
that each poller waits for one answer or for its timer, never for both, and for the path
its effect last ran with (`Asked`); that data are what the server answers to that path
(`Answered`), from no future version (`Bounded`); and that an answer under way is at least
as new as what is shown for its path, and as the change whose confirmation made the poller
ask (`Fresh`). From it follow `WellTyped`, `RowsAreOfView`, `RowsAreThere`, `NothingOlder`
and `OwnWritesRead`, for any queues, lists, clicks, losses and restarts. Aborting the
old request is what keeps `Fresh`: without it an answer for the same path, computed
before the change, could still come.

### Slides

`WellTyped` holds for any script whose statements name files and variables of the deck
(`SlidesAssumption`). `CharactersInside` and `CharactersApart`: `wrap` gives each character of a line, of any
length and indentation, a place of its own within the columns. `PictureFits`: `place`
never exceeds its room. `OneVersion` and `FreshPictures` hold for any script, files and
edits: a file is read at most once per run, a variable names a picture only after this run
has drawn it, and what else is placed is a capture. That a capture shows the page as it is
now is up to whoever takes it.

What is on the pages depends on the script. `PagesNeat` and `PagesExplained` reduce it to
the text of the script: if it is `Neat(Lengths)`, no run makes blocks overlap or leave
the page (`NothingOverlaps`), and if its `Explained` pages number lines once, so does
every finished page (`NumbersExplained`), although files are edited while the run draws,
runs stop half-way, and pictures of earlier runs, of other versions and of other sizes lie in
`img/`. The inductive invariant is `PagesInv`. Each picture drawn so far is in `img/` as
its statement draws it from lines of some length (`DiskInv`), a variable names the last
picture drawn for it (`EnvInv`), and the page is what the statements since it was opened
put there, each with lines of one length (`PageInv`). A picture depends on nothing else that an edit
changes (`OnlyLengths`), and `NumbersOnce` says that it carries each number of a quoted
line once, on the first of the rows the line is cut into. `OwnPictures` is needed: a script that draws
two excerpts to one file shows the second in place of the first.

### Index and commands

All theorems are for any texts, keys, values and numbers that `WordsAssumption` allows.
`LessTellsApart` is the lemma the index rests on: equal numbers are filed in one spelling
(`Scalar`), so values that the order does not tell apart are the same value. Without it,
an entry of the tree could go with the value of another key.

`IndexOf(E)` is the index that describes a filing `E` of keys under values. `Set` and
`Delete` on `IndexOf(E)` give `IndexOf` of the changed filing (`FiledIndex`,
`UnfiledIndex`, `AllUnfiledIndex`), all four parts of it. `FindScans` is about a search in
such an index: for each field, operator and operand, `Find` gives the keys a scan of the
map chooses, in order. For ranges of values, that is `MetOfOneType`: strings come before
numbers, so a walk from a number downwards ends where the strings begin, and a walk from
a string upwards where the numbers begin, and neither before.

| Theorem | States |
| --- | --- |
| `Understood` | `Spec => HeardAsMeant` |
| `SlipsStoreNothing` | `Spec => [][meant' = Slip => heard'.kind # "SET"]_vars` |
| `SlipsNeverPass` | `Spec => SlipsRefused`, if no key is GET, DEL, DELETE or PING |
| `OneByOne` | deleting keys one after another is deleting them at once |
| `FindScans` | `Find` returns what a scan finds, sorted |
| `Indexed` | `Spec => []MemInv` |
| `IndexAgrees` | `Spec => []IndexConsistent` |
| `SearchesScan` | `Spec => AnswersAsScan` |

The invariant `MemInv` says that the entries are typed as their users type them and that
the index is `IndexOf` of them. It needs to know what is heard: of a command, that it is
one about the texts in use; of a slip, that it is no SET.

`Understood` and the theorems on slips are for every set of texts, with any blanks and
quotation marks in them, and for lines of any number of pieces. What is assumed
of texts is what Go's strings and `Spelled` mean: the pieces of a text make that text
(`CommandAssumption`), a text that can be written without marks is a single piece, not
empty and neither a blank nor a mark (`BareAssumption`), and SET or DEL with a text glued
to it is not the beginning of another verb (`GluedAssumption`).

The loop of `split` is a function on the prefixes of a line (`Scanned`). There is one such function (`RunsAgree`:
the least prefix on which two differ), so a line in two parts is read part by part
(`ScannedJoin`), and a word from between two words is read as itself, with or without
marks (`Says`): `QuotedText` joins the pieces of a text one by one. `Reads` then follows
a line word by word, and `HearsSet`, `HearsOn`, `HearsPing` and `HearsWhere` apply
`Parse` to its words.

For slips, `QuotesApart` compares two readings of the same pieces, one inside marks and
one outside: no piece makes them agree. So a line that has lost a mark ends
within marks and is refused (`Open`), and else it has lost a blank or a whole word. `Ample`
is what `SlipNext` and `AmpleNext` carry from each line to the line with a word more: it has n + 1 words,
and whatever is forgotten of it leaves n or an open quotation, while the first word that is left is the verb,
the verb with the next word glued to it, or the next word. A SET is left with
2 or 4 words and a DELETE with 1, and `ShortParse` says which lines of so many words
`Parse` accepts: of 4 words none; of 2 words GET or DELETE with a key, if a key that has moved to the
front is such a verb; of 1 word PING. So `SlipsRefused` is not true of every key: SET
without its SET, before a key `del`, is a DELETE, and `SlipsNeverPass` excludes the four
verbs as keys. `SlipsStoreNothing` excludes none.

### Only model-checked

- That the script at hand is `Neat`, `Explained` and so on (`WasmRedisAssumption`): TLC
  evaluates it.
- Liveness (`EventuallySaved`, `SignalEnds`, `DiskErrorEnds`, `CatchesUp`), which is out
  of the provers' reach.

## 6. Not modelled, and simplifications

- Settings: `Load` and `Validate` compute one value before anything else runs, and
  nothing reads the environment again. What `Validate` asks for is assumed by `Engine`
  and `Service` (two different files, positive intervals).
- JSON and HTTP encoding, status codes other than success and refusal.
- A batch is a sequence of commands between which others may come; `Engine` has
  the single commands.
- `MemoryEngine` leaves out what `Engine` has: the default lifetime and the refusal of
  dates that cannot be stored (`engine.go:78-86`).
- Queues: readers with the filters pending, running and failed are not checked. Tasks
  leave these lists while somebody reads, so that pages do skip tasks, and nothing
  promises otherwise.
- Dashboard: a poller has one timer or none, so two timers of one poller cannot be
  represented; a change of the filter makes a new `TaskList`, as a change of the queue does,
  and is not modelled apart; the viewport keeps its height; texts of errors and notices,
  layout and styles are left out. At the end of a scaled list the last row may lie below
  the viewport: the first row on the screen goes to `total - visible` at most
  (`TaskList.jsx:30`) and `visible` counts a row that is only partly seen. The browser
  then scrolls on by the part that sticks out (`ScrollEnd`).
- Slides: `finish()` with its page numbers, which nothing calls; colours, fonts, the words
  themselves. Widths are computed with whole numbers where the code uses floats. `wrap`
  never ends for four columns or less (`build.py:169`); no statement asks for so few, and
  the theorems assume more (`Excerpts`). All lines of a file have the same length.
- Words are ASCII, and keywords are written in small letters or capitals, not mixed.
- Trees (`google/btree`) are modelled by their contents.
- `Snapshot` and `Restore` read the clock once here, once per key in the code; the
  clock never goes back.
- A write that stops in the middle is a disk error followed by a stop.
- Two saves never run at once: `FileStorage` has a mutex of its own, under the
  engine's.
- Signals before `signal.Notify` or after `signal.Stop` kill the process; `Engine`
  has kills at every point.

## 7. What could come next

Apart from what section 6 leaves out: a composition of `Dashboard` with `Queues` instead
of the server it has now, which changes in any way.
