------------------------------ MODULE Dashboard ------------------------------
(***************************************************************************)
(* The web page (web/src): it polls the list of queues and one page of the   *)
(* tasks of the active queue, sends the user's changes, and follows what     *)
(* others do to the queues.  Answers are computed when the server serves a   *)
(* request and applied later; requests are aborted when the page has moved   *)
(* on; effects of React run some time after the state they depend on has     *)
(* changed.                                                                  *)
(***************************************************************************)
EXTENDS VirtualList, FiniteSets

CONSTANTS
  Names,       \* names of queues: numbers, in the order of the list
  FirstQueues, \* the queues when the page is opened
  Totals,      \* bound: numbers of tasks that match the filter of the page
  Positions,   \* bound: where the user scrolls to
  MaxEvents    \* bound: changes of the queues, losses of requests or answers,
               \*   and the user's clicks on queues and scroll movements, together

None   == 0     \* no queue
NoPath == <<>>
NoData == [version |-> -1]

ASSUME DashboardAssumption ==
  /\ Names \subseteq Nat \ {None} /\ Names # {} /\ FirstQueues \subseteq Names
  /\ Totals \subseteq Nat /\ Positions \subseteq Nat
  /\ MaxEvents \in Nat

VARIABLES
  server,    \* the queues: for each name the number of tasks that match
  version,   \* how often the queues have changed
  savedAt,   \* the version that holds the user's last confirmed change
  failures,  \* how many requests or answers were lost
  moves,     \* how often the user clicked on a queue or scrolled
  requests,  \* the polling requests that have not returned
  change,    \* the user's change: its state, what it is, to which queue
  revision, selected,  \* the state of App
  polls,     \* usePolling: the path and revision its effect ran with, whether
             \*   its timer is set, and its result
  view       \* QueueView and TaskList: the queue, the scroll position, the
             \*   total, and whether the total was taken from the data shown

vars == <<server, version, savedAt, failures, moves, requests, change,
          revision, selected, polls, view>>

Pollers  == {"list", "tasks"}
Eventful == version + failures + moves < MaxEvents
Idle    == [state |-> "idle", kind |-> "none", queue |-> None, version |-> 0]

NoResult == [path |-> NoPath, data |-> NoData, error |-> FALSE]
NewPoll  == [path |-> NoPath, rev |-> 0, timer |-> FALSE, result |-> NoResult]

NewView(q) == [queue |-> q, scrollTop |-> 0, total |-> 0, seen |-> FALSE]

----------------------------------------------------------------------------
(* What is on the page                                                     *)

\* The path each usePolling is called with; a page of tasks is named by its
\* queue and offset.  Without an active queue there is no TaskList.
Path(p) ==
  IF p = "list" THEN <<"queues">>
  ELSE IF view.queue = None THEN NoPath
  ELSE <<view.queue, Offset(view.total, view.scrollTop)>>

\* Faulty variant of Shown: the path of the result is not compared.
ShownAnyPath(p) == polls[p].result

Shown(p) == IF polls[p].result.path = Path(p) THEN polls[p].result ELSE NoResult

\* The active queue, for the answer to a poll of the list and the chosen name.
ActiveOf(data, name) ==
  IF data = NoData \/ DOMAIN data.queues = {} THEN None
  ELSE IF name \in DOMAIN data.queues THEN name
  ELSE CHOOSE q \in DOMAIN data.queues : \A r \in DOMAIN data.queues : q <= r

\* Faulty variant of Abort: the cleanup of the effect aborts nothing.
AbortNone(rs, ps) == rs

\* Aborting the requests of some pollers: neither an answer nor an error of
\* theirs passes the tests of controller.signal.aborted any more.
Abort(rs, ps) == {r \in rs : r.poller \notin ps}

\* Rendering App with another active queue replaces QueueView, and with it
\* the TaskList and its polling; ps, rs and v are the state otherwise.
Render(active, ps, rs, v) ==
  IF active = view.queue
  THEN polls' = ps /\ requests' = rs /\ view' = v
  ELSE /\ polls' = [ps EXCEPT !["tasks"] = NewPoll]
       /\ requests' = Abort(rs, {"tasks"})
       /\ view' = NewView(active)

----------------------------------------------------------------------------
(* usePolling                                                              *)

Request(p) == [poller |-> p, path |-> Path(p), state |-> "sent", data |-> NoData]

\* The dependencies of the effect have changed since it ran.
Changed(p) == Path(p) # polls[p].path \/ (Path(p) # NoPath /\ polls[p].rev # revision)

\* TaskList has data that its second effect has not looked at.
NewTotal == Shown("tasks").data # NoData /\ ~view.seen

\* The second effect of TaskList takes over the total and moves a position
\* that lies past the end.
Announced ==
  LET total == Shown("tasks").data.total
  IN [view EXCEPT !.total = total, !.seen = TRUE, !.scrollTop = Lesser(@, MaxScroll(total))]

\* React runs the effects: those of usePolling abort the request under way,
\* clear the timer and send a request.
FlushEffects ==
  /\ NewTotal \/ \E p \in Pollers : Changed(p)
  /\ polls' = [p \in Pollers |->
                 IF Changed(p) THEN [polls[p] EXCEPT !.path = Path(p), !.rev = revision, !.timer = FALSE]
                 ELSE polls[p]]
  /\ requests' = Abort(requests, {p \in Pollers : Changed(p)})
                   \cup {Request(p) : p \in {q \in Pollers : Changed(q) /\ Path(q) # NoPath}}
  /\ view' = IF NewTotal THEN Announced
             ELSE [view EXCEPT !.seen = Shown("tasks").data # NoData]
  /\ UNCHANGED <<server, version, savedAt, failures, moves, change, revision, selected>>

\* The timer of 2 s
TimerFires(p) ==
  /\ polls[p].timer
  /\ polls' = [polls EXCEPT ![p].timer = FALSE]
  /\ requests' = requests \cup {[Request(p) EXCEPT !.path = polls[p].path]}
  /\ UNCHANGED <<server, version, savedAt, failures, moves, change, revision, selected, view>>

\* The result after the return of request r: an error keeps the data.
Result(p, r) ==
  IF r.state = "ok" THEN [path |-> r.path, data |-> r.data, error |-> FALSE]
  ELSE [path |-> r.path, error |-> TRUE,
        data |-> IF polls[p].result.path = r.path THEN polls[p].result.data ELSE NoData]

\* Faulty variant of Receive: the timer is set after good answers only.
ReceiveOnce(r) ==
  LET p  == r.poller
      ps == [polls EXCEPT ![p].result = Result(p, r), ![p].timer = (r.state = "ok")]
  IN /\ r.state # "sent"
     /\ Render(ActiveOf(ps["list"].result.data, selected), ps, requests \ {r},
               [view EXCEPT !.seen = @ /\ ~(p = "tasks" /\ r.state = "ok")])
     /\ UNCHANGED <<server, version, savedAt, failures, moves, change, revision, selected>>

\* A request returns to load(): setResult and, in any case, the timer.
Receive(r) ==
  LET p  == r.poller
      ps == [polls EXCEPT ![p].result = Result(p, r), ![p].timer = TRUE]
  IN /\ r.state # "sent"
     /\ Render(ActiveOf(ps["list"].result.data, selected), ps, requests \ {r},
               [view EXCEPT !.seen = @ /\ ~(p = "tasks" /\ r.state = "ok")])
     /\ UNCHANGED <<server, version, savedAt, failures, moves, change, revision, selected>>

----------------------------------------------------------------------------
(* The server                                                              *)

\* GET /api/queues and GET /api/queues/{name}/tasks
Answer(path) ==
  IF path = <<"queues">> THEN [version |-> version, queues |-> server]
  ELSE [version |-> version, queue |-> path[1], offset |-> path[2], total |-> server[path[1]],
        count |-> Lesser(LIMIT, Larger(0, server[path[1]] - path[2]))]

\* A page of a queue that does not exist is answered with 404.
Serve(r) ==
  /\ r.state = "sent"
  /\ requests' = (requests \ {r}) \cup
       {IF r.poller = "list" \/ r.path[1] \in DOMAIN server
        THEN [r EXCEPT !.state = "ok", !.data = Answer(r.path)]
        ELSE [r EXCEPT !.state = "failed"]}
  /\ UNCHANGED <<server, version, savedAt, failures, moves, change, revision, selected, polls, view>>

\* A request or its answer is lost on the way.
Lose(r) ==
  /\ r.state = "sent" /\ Eventful
  /\ failures' = failures + 1
  /\ requests' = (requests \ {r}) \cup {[r EXCEPT !.state = "failed"]}
  /\ UNCHANGED <<server, version, savedAt, moves, change, revision, selected, polls, view>>

\* Somebody else adds, claims or reports tasks.
OthersChange(q) ==
  /\ Eventful
  /\ version' = version + 1
  /\ \E n \in Totals : server' = [server EXCEPT ![q] = n]
  /\ UNCHANGED <<savedAt, failures, moves, requests, change, revision, selected, polls, view>>

\* The server is restarted: the queues are gone (server.go:22 keeps them in memory).
Restart ==
  /\ Eventful
  /\ version' = version + 1
  /\ server' = [q \in {} |-> 0]
  /\ UNCHANGED <<savedAt, failures, moves, requests, change, revision, selected, polls, view>>

----------------------------------------------------------------------------
(* The user                                                                *)

\* mutate: the forms and buttons, unless one of them is under way.
Mutate(kind, q) ==
  /\ change.state = "idle"
  /\ kind = "act" => q = view.queue
  /\ change' = [state |-> "sent", kind |-> kind, queue |-> q, version |-> 0]
  /\ UNCHANGED <<server, version, savedAt, failures, moves, requests, revision, selected, polls, view>>

\* The server carries a change out or refuses it.
ServeChange ==
  /\ change.state = "sent"
  /\ \/ /\ Eventful
        /\ version' = version + 1
        /\ \/ change.kind = "create" /\ change.queue \notin DOMAIN server
              /\ server' = [q \in DOMAIN server \cup {change.queue} |->
                              IF q \in DOMAIN server THEN server[q] ELSE 0]
           \/ change.kind = "act" /\ change.queue \in DOMAIN server
              /\ \E n \in Totals : server' = [server EXCEPT ![change.queue] = n]
        /\ change' = [change EXCEPT !.state = "done", !.version = version + 1]
     \/ change' = [change EXCEPT !.state = "refused"] /\ UNCHANGED <<server, version>>
  /\ UNCHANGED <<savedAt, failures, moves, requests, revision, selected, polls, view>>

\* The confirmation of a change is lost.
LoseConfirmation ==
  /\ change.state = "done" /\ Eventful
  /\ failures' = failures + 1
  /\ change' = [change EXCEPT !.state = "refused"]
  /\ UNCHANGED <<server, version, savedAt, moves, requests, revision, selected, polls, view>>

\* Faulty variant of Confirmed: nothing is asked for again.
ConfirmedQuietly ==
  /\ change.state = "done"
  /\ savedAt' = change.version /\ change' = Idle
  /\ selected' = IF change.kind = "create" THEN change.queue ELSE selected
  /\ Render(ActiveOf(polls["list"].result.data, selected'), polls, requests, view)
  /\ UNCHANGED <<server, version, failures, moves, revision>>

\* mutate and createQueue: the next revision, and a new queue is selected.
Confirmed ==
  /\ change.state = "done"
  /\ savedAt' = change.version /\ change' = Idle
  /\ revision' = revision + 1
  /\ selected' = IF change.kind = "create" THEN change.queue ELSE selected
  /\ Render(ActiveOf(polls["list"].result.data, selected'), polls, requests, view)
  /\ UNCHANGED <<server, version, failures, moves>>

\* mutate: an error is shown.
Refused ==
  /\ change.state = "refused"
  /\ change' = Idle
  /\ UNCHANGED <<server, version, savedAt, failures, moves, requests, revision, selected, polls, view>>

\* A click on a queue of the list
Select(q) ==
  /\ Eventful /\ moves' = moves + 1
  /\ polls["list"].result.data # NoData /\ q \in DOMAIN polls["list"].result.data.queues
  /\ selected' = q
  /\ Render(ActiveOf(polls["list"].result.data, q), polls, requests, view)
  /\ UNCHANGED <<server, version, savedAt, failures, change, revision>>

Scroll ==
  /\ Eventful /\ moves' = moves + 1
  /\ view.queue # None
  /\ \E s \in Positions \cap 0..ScrollEnd(view.total, view.scrollTop) : view' = [view EXCEPT !.scrollTop = s]
  /\ UNCHANGED <<server, version, savedAt, failures, requests, change, revision, selected, polls>>

----------------------------------------------------------------------------

Init ==
  /\ server \in [FirstQueues -> {n \in Totals : n * ROW_HEIGHT > MAX_SPACE}]
  /\ version = 0 /\ savedAt = 0
  /\ failures = 0 /\ moves = 0
  /\ requests = {} /\ change = Idle
  /\ revision = 0 /\ selected = None
  /\ polls = [p \in Pollers |-> NewPoll] /\ view = NewView(None)

UserStep ==
  \/ \E q \in Names : Mutate("create", q) \/ Select(q)
  \/ Scroll
  \/ view.queue # None /\ Mutate("act", view.queue)

Next ==
  \/ FlushEffects
  \/ \E p \in Pollers : TimerFires(p)
  \/ \E r \in requests : Serve(r) \/ Lose(r) \/ Receive(r)
  \/ \E q \in DOMAIN server : OthersChange(q)
  \/ Restart \/ ServeChange \/ LoseConfirmation \/ Confirmed \/ Refused
  \/ UserStep

Spec == Init /\ [][Next]_vars

\* React runs effects, timers expire, and what is not lost arrives.
Fairness ==
  /\ WF_vars(FlushEffects)
  /\ \A p \in Pollers :
       /\ WF_vars(TimerFires(p))
       /\ WF_vars(\E r \in requests : r.poller = p /\ Serve(r))
       /\ WF_vars(\E r \in requests : r.poller = p /\ Receive(r))

FairSpec == Spec /\ Fairness

----------------------------------------------------------------------------
(* Properties                                                              *)

TypeOK ==
  /\ DOMAIN server \subseteq Names /\ \A q \in DOMAIN server : server[q] \in Totals \cup {0}
  /\ version \in 0..MaxEvents /\ savedAt \in 0..version /\ change.version \in 0..version
  /\ \A r \in requests : r.poller \in Pollers /\ r.state \in {"sent", "ok", "failed"}
                         /\ r.path # NoPath /\ r.data.version \in -1..version
  /\ \A p \in Pollers : polls[p].rev \in 0..revision
  /\ selected \in Names \cup {None} /\ view.queue \in Names \cup {None}
  /\ view.scrollTop \in Nat /\ view.total \in Totals \cup {0}

\* The rows on the screen are tasks of the queue whose name and buttons are
\* above them, and their numbers are those of the scroll position
\* (api.js:43): a late answer for another queue or page is never shown.
RowsBelongToView ==
  LET data == Shown("tasks").data
  IN data # NoData =>
       data.queue = view.queue /\ data.offset = Offset(view.total, view.scrollTop)

\* Once the page of tasks is there, every row that is drawn has its task:
\* the limit of 200 reaches from the offset to the last row (TaskList.jsx:39).
RowsLoaded ==
  LET data == Shown("tasks").data
  IN data # NoData =>
       \A row \in First(view.total, view.scrollTop)..(Last(view.total, view.scrollTop) - 1) :
         row < data.total => row - data.offset \in 0..(data.count - 1)

\* What a poll shows for a path is never replaced by an older answer, though
\* requests overlap after a change of revision (api.js:24).
NeverGoesBack ==
  [][\A p \in Pollers :
       LET old == polls[p].result
           new == polls'[p].result
       IN old.path = new.path /\ old.data # NoData => new.data.version >= old.data.version]_vars

\* After a confirmed change, whatever arrives for the new revision holds it:
\* an answer that was computed before is not applied any more (App.jsx:38).
ReadsOwnWrites ==
  [][\A p \in Pollers :
       polls'[p].result.data \notin {polls[p].result.data, NoData} /\ polls[p].rev = revision
         => polls'[p].result.data.version >= savedAt]_vars

\* The page shows the queues and tasks as they are, without an error.
UpToDate ==
  /\ polls["list"].result.data # NoData /\ polls["list"].result.data.queues = server
  /\ view.queue # None =>
       LET shown == Shown("tasks")
       IN /\ shown.data # NoData /\ shown.data.total = server[view.queue]
          /\ view.total = shown.data.total /\ ~shown.error
          /\ view.total > 0 => First(view.total, view.scrollTop) < Last(view.total, view.scrollTop)
  /\ ~polls["list"].result.error

\* When the queues stop changing and no more messages are lost, the page
\* catches up, after errors, restarts of the server and lists that shrank
\* while the user was at their end (api.js:34, TaskList.jsx:57).
CatchesUp == <>[]UpToDate
=============================================================================
