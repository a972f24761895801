------------------------------- MODULE Queues -------------------------------
(***************************************************************************)
(* The task queues of internal/engine/queues.go.  The mutex of Queues makes *)
(* each method one step; clients reach them through HTTP, so any client may *)
(* call any method at any time, on the strength of an old answer or of one  *)
(* that was lost: no method asks who calls.  Names and payloads are valid   *)
(* here, an invalid one is refused before anything is read or changed.      *)
(***************************************************************************)
EXTENDS Integers, Sequences, Ranks

CONSTANTS
  Names,     \* names of queues
  Readers,   \* clients that read a queue page after page
  Filters,   \* bound: the filters they use
  Limit,     \* how many tasks they ask for at a time
  MaxTasks,  \* bound: tasks added
  MaxRuns    \* bound: times a task is started

Statuses == {"pending", "running", "completed", "failed"}

\* The filter that keeps every task.
All == ""

ASSUME QueuesAssumption ==
  /\ Filters \subseteq Statuses \cup {All}
  /\ Limit \in 1..200
  /\ MaxTasks \in Nat /\ MaxRuns \in Nat
  /\ "none" \notin Names

Ids == Nat \ {0}

Task == [id : Ids, status : Statuses]

VARIABLES
  queues,   \* the names of Queues.queues
  tasks,    \* queue.tasks, by name
  counts,   \* queue.counts, by name
  nextID,   \* Queues.nextID: the number of the last task
  started,  \* history: by name, the tasks in the order of their first start
  runs,     \* history: how often each task was started
  reports,  \* history: how often a run of each task was reported to be over
  walks     \* the readers

qvars == <<queues, tasks, counts, nextID>>
hvars == <<started, runs, reports>>
vars  == <<qvars, hvars, walks>>

Places(name) == 1..Len(tasks[name])

WithStatus(name, status) == {i \in Places(name) : tasks[name][i].status = status}

IdsOf(list) == [i \in 1..Len(list) |-> list[i].id]

Taken(ids) == {ids[i] : i \in 1..Len(ids)}

\* A reader before its walk.
NoWalk == [name |-> "none", filter |-> All, wanted |-> {}, got |-> << >>, over |-> FALSE]

Init ==
  /\ queues = {}
  /\ tasks = [n \in Names |-> << >>]
  /\ counts = [n \in Names |-> [s \in Statuses |-> 0]]
  /\ nextID = 0
  /\ started = [n \in Names |-> << >>]
  /\ runs = << >> /\ reports = << >>
  /\ walks = [r \in Readers |-> NoWalk]

----------------------------------------------------------------------------
(* Changes                                                                 *)

Create(name) ==
  /\ name \notin queues
  /\ queues' = queues \cup {name}
  /\ UNCHANGED <<tasks, counts, nextID, hvars, walks>>

Add(name) ==
  /\ name \in queues /\ nextID < MaxTasks
  /\ nextID' = nextID + 1
  /\ tasks' = [tasks EXCEPT ![name] = Append(@, [id |-> nextID + 1, status |-> "pending"])]
  /\ counts' = [counts EXCEPT ![name]["pending"] = @ + 1]
  /\ runs' = Append(runs, 0) /\ reports' = Append(reports, 0)
  /\ UNCHANGED <<queues, started, walks>>

\* Faulty variant of Move: every task is taken to come from the pending ones.
MoveFromPending(name, i, status) ==
  /\ tasks' = [tasks EXCEPT ![name][i].status = status]
  /\ counts' = [counts EXCEPT ![name]["pending"] = @ - 1, ![name][status] = @ + 1]
  /\ UNCHANGED <<queues, nextID, walks>>

\* The status and the counters of the two statuses change together.
Move(name, i, status) ==
  /\ tasks' = [tasks EXCEPT ![name][i].status = status]
  /\ counts' = [counts EXCEPT ![name][tasks[name][i].status] = @ - 1,
                              ![name][status] = @ + 1]
  /\ UNCHANGED <<queues, nextID, walks>>

Start(name, i) ==
  LET id == tasks[name][i].id
  IN /\ runs[id] < MaxRuns
     /\ Move(name, i, "running")
     /\ runs' = [runs EXCEPT ![id] = @ + 1]
     /\ started' = IF runs[id] = 0 THEN [started EXCEPT ![name] = Append(@, id)] ELSE started
     /\ UNCHANGED reports

\* Faulty variant of Claim: the search goes backwards.
ClaimNewest(name) ==
  /\ name \in queues
  /\ \E i \in WithStatus(name, "pending") :
       /\ \A j \in WithStatus(name, "pending") : j <= i
       /\ Start(name, i)

\* Faulty variant of Claim: the counter of pending tasks is forgotten.
ClaimMiscounts(name) ==
  /\ name \in queues
  /\ \E i \in WithStatus(name, "pending") :
       /\ \A j \in WithStatus(name, "pending") : i <= j
       /\ LET id == tasks[name][i].id
          IN /\ runs[id] < MaxRuns
             /\ tasks' = [tasks EXCEPT ![name][i].status = "running"]
             /\ counts' = [counts EXCEPT ![name]["running"] = @ + 1]
             /\ runs' = [runs EXCEPT ![id] = @ + 1]
             /\ started' = IF runs[id] = 0 THEN [started EXCEPT ![name] = Append(@, id)]
                                           ELSE started
  /\ UNCHANGED <<queues, nextID, reports, walks>>

\* The first pending task, wherever a retry has put it.
Claim(name) ==
  /\ name \in queues
  /\ \E i \in WithStatus(name, "pending") :
       /\ \A j \in WithStatus(name, "pending") : i <= j
       /\ Start(name, i)

\* Faulty variant of Allowed: a running task may be put back.
AllowedToDrop(current, status) ==
  \/ current = "running" /\ status # "running"
  \/ current = "failed" /\ status = "pending"

\* Faulty variant of Allowed: a completed task may be retried.
AllowedToRedo(current, status) ==
  \/ current = "running" /\ status \in {"completed", "failed"}
  \/ current \in {"completed", "failed"} /\ status = "pending"

Allowed(current, status) ==
  \/ current = "running" /\ status \in {"completed", "failed"}
  \/ current = "failed" /\ status = "pending"

Update(name, id, status) ==
  /\ name \in queues
  /\ \E i \in Places(name) :
       /\ tasks[name][i].id = id
       /\ Allowed(tasks[name][i].status, status)
       /\ Move(name, i, status)
  /\ reports' = IF status \in {"completed", "failed"}
                THEN [reports EXCEPT ![id] = @ + 1] ELSE reports
  /\ UNCHANGED <<started, runs>>

----------------------------------------------------------------------------
(* Pages                                                                   *)

Smaller(a, b) == IF a < b THEN a ELSE b

\* The places of the tasks a filter keeps.
Kept(name, filter) == {i \in Places(name) : filter \in {All, tasks[name][i].status}}

\* The tasks a filter keeps, in the order a scan sees them.
Matching(name, filter) ==
  LET kept == InOrder(Kept(name, filter))
  IN [n \in 1..Len(kept) |-> tasks[name][kept[n]]]

\* Faulty variant of Page: it starts one task too far.
PageSkipsOne(name, filter, offset, limit) ==
  LET list == Matching(name, filter)
  IN [items |-> SubSeq(list, offset + 2, Smaller(offset + 1 + limit, Len(list))),
      total |-> IF filter = All THEN Len(tasks[name]) ELSE counts[name][filter]]

\* The total of a filtered page is the counter, its tasks come from a scan.
Page(name, filter, offset, limit) ==
  LET list == Matching(name, filter)
  IN [items |-> SubSeq(list, offset + 1, Smaller(offset + limit, Len(list))),
      total |-> IF filter = All THEN Len(tasks[name]) ELSE counts[name][filter]]

\* A reader decides to read what a filter keeps of a queue.
BeginWalk(r, name, filter) ==
  /\ walks[r] = NoWalk /\ name \in queues
  /\ walks' = [walks EXCEPT ![r] =
       [name |-> name, filter |-> filter,
        wanted |-> Taken(IdsOf(Matching(name, filter))), got |-> << >>, over |-> FALSE]]
  /\ UNCHANGED <<qvars, hvars>>

\* It asks for the page after what it has, until one is not full.
NextPage(r) ==
  /\ walks[r].name \in queues /\ ~walks[r].over
  /\ LET w == walks[r]
         page == Page(w.name, w.filter, Len(w.got), Limit)
     IN walks' = [walks EXCEPT ![r].got = @ \o IdsOf(page.items),
                               ![r].over = Len(page.items) < Limit]
  /\ UNCHANGED <<qvars, hvars>>

----------------------------------------------------------------------------

Next ==
  \/ \E name \in Names : Create(name) \/ Add(name) \/ Claim(name)
  \/ \E name \in Names, id \in 1..nextID, s \in Statuses : Update(name, id, s)
  \/ \E r \in Readers, name \in Names, f \in Filters : BeginWalk(r, name, f)
  \/ \E r \in Readers : NextPage(r)

Spec == Init /\ [][Next]_vars

----------------------------------------------------------------------------
(* Properties                                                              *)

\* Typing of every variable.
TypeOK ==
  /\ queues \subseteq Names
  /\ tasks \in [Names -> Seq(Task)]
  /\ counts \in [Names -> [Statuses -> Nat]]
  /\ nextID \in Nat
  /\ started \in [Names -> Seq(Ids)]
  /\ runs \in [1..nextID -> Nat] /\ reports \in [1..nextID -> Nat]
  /\ walks \in [Readers -> [name : Names \cup {"none"}, filter : Statuses \cup {All},
                            wanted : SUBSET Ids, got : Seq(Ids), over : BOOLEAN]]

\* The counters that List and Page answer with, kept by increments in Add,
\* Claim and Update, are what a recount would give (queues.go:63, 117-118, 144-145).
CountsMatch ==
  \A n \in Names, s \in Statuses : counts[n][s] = Cardinality(WithStatus(n, s))

\* A page holds as many tasks as its own total announces from that offset on,
\* although the two are computed apart; the virtual list relies on it (queues.go:91-103).
PagesFull ==
  \A n \in queues, f \in Statuses \cup {All}, offset \in 0..nextID, limit \in 1..(Limit + 1) :
    LET page == Page(n, f, offset, limit)
    IN Len(page.items) = IF page.total <= offset THEN 0
                         ELSE Smaller(limit, page.total - offset)

\* Tasks are started for the first time in the order they were added, whatever
\* retries come in between (queues.go:114, README.md:149-151).
FirstStartsInOrder ==
  \A n \in Names :
    /\ Len(started[n]) <= Len(tasks[n])
    /\ started[n] = SubSeq(IdsOf(tasks[n]), 1, Len(started[n]))

\* A task is given out again only after its previous run has been reported:
\* concurrent or repeated claims never share a task (queues.go:107-123, 140-142).
OneRunAtATime ==
  \A n \in Names : \A i \in Places(n) :
    LET t == tasks[n][i]
    IN runs[t.id] - reports[t.id] = IF t.status = "running" THEN 1 ELSE 0

\* Reading a whole queue page after page yields each task once, in order, and
\* none of those it held at the beginning is missing, while others add and change tasks.
WholeWalkExact ==
  \A r \in Readers :
    LET w == walks[r]
    IN w.name # "none" /\ w.filter = All =>
         /\ Len(w.got) <= Len(tasks[w.name])
         /\ w.got = SubSeq(IdsOf(tasks[w.name]), 1, Len(w.got))
         /\ w.over => w.wanted \subseteq Taken(w.got)

\* Reading the completed tasks page after page misses none that was completed
\* at the beginning: a completed task never leaves the list the pages cut up.
CompletedWalkMissesNone ==
  \A r \in Readers :
    walks[r].filter = "completed" /\ walks[r].over
      => walks[r].wanted \subseteq Taken(walks[r].got)

----------------------------------------------------------------------------
(* What the queues promise: a board of numbered tasks, oldest first.       *)

Promised == INSTANCE TaskBoard WITH
  open  <- queues,
  board <- [n \in Names |->
              [id \in Taken(IdsOf(tasks[n])) |->
                 (CHOOSE t \in {tasks[n][i] : i \in Places(n)} : t.id = id).status]]

ImplementsTaskBoard == Promised!BSpec
============================================================================
