-------------------------- MODULE DashboardProofs --------------------------
(***************************************************************************)
(* Proofs about VirtualList.tla and Dashboard.tla: for any number of queues, *)
(* tasks, messages and clicks, and any height of the viewport the limit of a *)
(* page allows.                                                              *)
(***************************************************************************)
EXTENDS Dashboard, RanksProofs

----------------------------------------------------------------------------
(* The geometry of the list                                                *)

LEMMA DivMod ==
  ASSUME NEW a \in Nat, NEW b \in Nat \ {0}
  PROVE  /\ a \div b \in Nat /\ a % b \in 0..(b - 1)
         /\ a = b * (a \div b) + (a % b)
  OBVIOUS

LEMMA TimesNat ==
  ASSUME NEW a \in Nat, NEW b \in Nat
  PROVE  a * b \in Nat /\ a * b = b * a
  OBVIOUS

LEMMA VisibleNat == Visible \in Nat /\ Visible * ROW_HEIGHT >= Height + ROW_HEIGHT
  <1> DEFINE lines == (Height + ROW_HEIGHT - 1) \div ROW_HEIGHT
             rest  == (Height + ROW_HEIGHT - 1) % ROW_HEIGHT
  <1>1. ROW_HEIGHT \in Nat \ {0} /\ Height + ROW_HEIGHT - 1 \in Nat
    BY ListAssumption
  <1>2. /\ lines \in Nat /\ rest \in 0..(ROW_HEIGHT - 1)
        /\ Height + ROW_HEIGHT - 1 = ROW_HEIGHT * lines + rest
    BY <1>1, DivMod
  <1> HIDE DEF lines, rest
  <1>3. (lines + 1) * ROW_HEIGHT = ROW_HEIGHT * lines + ROW_HEIGHT
    BY <1>1, <1>2
  <1>4. Visible = lines + 1
    BY DEF Visible, lines
  <1> QED
    BY <1>1, <1>2, <1>3, <1>4, ListAssumption

LEMMA AnchorNat ==
  ASSUME NEW total \in Nat, NEW scrollTop \in Nat
  PROVE  Anchor(total, scrollTop) \in Nat
  <1>1. ASSUME NEW n \in Nat PROVE Share(total, scrollTop, n) \in Nat
    <2> DEFINE way  == Larger(1, Space(total) - Height)
               here == Lesser(scrollTop, way)
    <2>1. Space(total) \in Int
      BY TimesNat, ListAssumption DEF Space
    <2>2. way \in Nat \ {0}
      BY <2>1, ListAssumption DEF Larger
    <2>3. here \in Nat
      BY <2>2 DEF Lesser
    <2> HIDE DEF way, here
    <2>4. 2 * n * here \in Nat
      BY <1>1, <2>3, TimesNat
    <2>5. 2 * n * here + way \in Nat /\ 2 * way \in Nat \ {0}
      BY <2>2, <2>4
    <2>6. Share(total, scrollTop, n) = (2 * n * here + way) \div (2 * way)
      BY DEF Share, way, here
    <2> QED
      BY <2>5, <2>6, DivMod
  <1>2. Larger(0, total - Visible) \in Nat
    BY VisibleNat DEF Larger
  <1>3. scrollTop \div ROW_HEIGHT \in Nat
    BY DivMod, ListAssumption
  <1> QED
    BY <1>1, <1>2, <1>3 DEF Anchor

LEMMA RowsNat ==
  ASSUME NEW total \in Nat, NEW scrollTop \in Nat
  PROVE  /\ First(total, scrollTop) \in Nat /\ Last(total, scrollTop) \in Nat
         /\ Offset(total, scrollTop) \in Nat
         /\ Offset(total, scrollTop) <= First(total, scrollTop)
         /\ First(total, scrollTop) < Offset(total, scrollTop) + PAGE_SIZE
  <1>1. Anchor(total, scrollTop) \in Nat /\ Visible \in Nat /\ OVERSCAN \in Nat
    BY AnchorNat, VisibleNat, ListAssumption
  <1>2. First(total, scrollTop) \in Nat /\ Last(total, scrollTop) \in Nat
    BY <1>1 DEF First, Last, Larger, Lesser
  <1>3. PAGE_SIZE \in Nat \ {0}
    BY ListAssumption
  <1> DEFINE f == First(total, scrollTop)
             d == f \div PAGE_SIZE
  <1> HIDE DEF f, d
  <1>4. f \in Nat
    BY <1>2 DEF f
  <1>5. d \in Nat /\ f % PAGE_SIZE \in 0..(PAGE_SIZE - 1) /\ f = PAGE_SIZE * d + (f % PAGE_SIZE)
    BY <1>3, <1>4, DivMod DEF d
  <1>6. d * PAGE_SIZE = PAGE_SIZE * d /\ d * PAGE_SIZE \in Nat
    BY <1>3, <1>5, TimesNat
  <1>7. Offset(total, scrollTop) = d * PAGE_SIZE
    BY DEF Offset, d, f
  <1>8. First(total, scrollTop) = f
    BY DEF f
  <1> QED
    BY <1>2, <1>3, <1>4, <1>5, <1>6, <1>7, <1>8

\* The page that is asked for holds every row that is drawn, at any position
\* in any list, scaled or not (TaskList.jsx:38).
THEOREM PageReachesRows ==
  ASSUME NEW total \in Nat, NEW scrollTop \in Nat,
         NEW row \in First(total, scrollTop)..(Last(total, scrollTop) - 1)
  PROVE  row - Offset(total, scrollTop) \in 0..(LIMIT - 1)
  <1>1. /\ Anchor(total, scrollTop) \in Nat /\ Visible \in Nat /\ OVERSCAN \in Nat
        /\ LIMIT \in Nat /\ PAGE_SIZE \in Nat
    BY AnchorNat, VisibleNat, ListAssumption
  <1>2. First(total, scrollTop) >= Anchor(total, scrollTop) - OVERSCAN
    BY <1>1 DEF First, Larger
  <1>3. Last(total, scrollTop) <= Anchor(total, scrollTop) + Visible + OVERSCAN
    BY <1>1 DEF Last, Lesser
  <1>4. Visible + 2 * OVERSCAN + PAGE_SIZE - 1 <= LIMIT
    BY ListAssumption
  <1>5. /\ First(total, scrollTop) \in Nat /\ Last(total, scrollTop) \in Nat
        /\ Offset(total, scrollTop) \in Nat
        /\ Offset(total, scrollTop) <= First(total, scrollTop)
        /\ First(total, scrollTop) < Offset(total, scrollTop) + PAGE_SIZE
    BY RowsNat
  <1>6. row \in Int /\ First(total, scrollTop) <= row /\ row <= Last(total, scrollTop) - 1
    BY <1>5
  <1> QED
    BY <1>1, <1>2, <1>3, <1>4, <1>5, <1>6

\* The rows that are drawn leave no gap in the viewport: they begin at or above
\* its top and end below its bottom, unless the list ends before (TaskList.jsx:33-37).
THEOREM RowsFillViewport ==
  ASSUME NEW total \in Nat, NEW scrollTop \in Nat
  PROVE  /\ Origin(total, scrollTop) <= scrollTop
         /\ \/ Last(total, scrollTop) = total
            \/ Bottom(total, scrollTop) >= scrollTop + Height
  <1> DEFINE a == Anchor(total, scrollTop)
             f == First(total, scrollTop)
             l == Last(total, scrollTop)
  <1>1. a \in Nat /\ f \in Nat /\ l \in Nat
    BY AnchorNat, RowsNat
  <1>2. /\ ROW_HEIGHT \in Nat \ {0} /\ Visible \in Nat /\ OVERSCAN \in Nat /\ Height \in Nat
        /\ Visible * ROW_HEIGHT >= Height + ROW_HEIGHT
    BY VisibleNat, ListAssumption
  <1>3. f <= a /\ (l = total \/ l = a + Visible + OVERSCAN)
    BY <1>1, <1>2 DEF First, Last, Larger, Lesser
  <1>4. (a - f) * ROW_HEIGHT = a * ROW_HEIGHT - f * ROW_HEIGHT /\ (a - f) * ROW_HEIGHT >= 0
    <2>1. a - f \in Nat
      BY <1>1, <1>3
    <2>2. (a - f) * ROW_HEIGHT \in Nat
      BY <1>2, <2>1, TimesNat
    <2> HIDE DEF a, f
    <2> QED
      BY <1>1, <1>2, <2>2
  <1>5. (l - f) * ROW_HEIGHT = l * ROW_HEIGHT - f * ROW_HEIGHT
    <2> HIDE DEF l, f
    <2> QED
      BY <1>1, <1>2
  <1>6. l # total => l * ROW_HEIGHT >= a * ROW_HEIGHT + Height + ROW_HEIGHT
    <2>1. (a + Visible + OVERSCAN) * ROW_HEIGHT
            = a * ROW_HEIGHT + Visible * ROW_HEIGHT + OVERSCAN * ROW_HEIGHT
      <3> HIDE DEF a
      <3> QED
        BY <1>1, <1>2
    <2>2. OVERSCAN * ROW_HEIGHT \in Nat /\ a * ROW_HEIGHT \in Nat /\ Visible * ROW_HEIGHT \in Nat
      BY <1>1, <1>2, TimesNat
    <2> QED
      BY <1>2, <1>3, <2>1, <2>2
  <1> HIDE DEF l, f
  <1>7. f * ROW_HEIGHT \in Nat /\ a * ROW_HEIGHT \in Nat /\ l * ROW_HEIGHT \in Nat
    BY <1>1, <1>2, TimesNat
  <1>8. CASE Scaled(total)
    <2>1. Origin(total, scrollTop) = scrollTop - (a - f) * ROW_HEIGHT
      BY <1>8 DEF Origin, f
    <2>2. Bottom(total, scrollTop) = Origin(total, scrollTop) + (l - f) * ROW_HEIGHT
      BY DEF Bottom, l, f
    <2> HIDE DEF a
    <2> QED
      BY <1>1, <1>2, <1>4, <1>5, <1>6, <1>7, <2>1, <2>2 DEF l
  <1>9. CASE ~Scaled(total)
    <2>1. Origin(total, scrollTop) = f * ROW_HEIGHT
      BY <1>9 DEF Origin, f
    <2>2. Bottom(total, scrollTop) = Origin(total, scrollTop) + (l - f) * ROW_HEIGHT
      BY DEF Bottom, l, f
    <2>3. a = scrollTop \div ROW_HEIGHT
      BY <1>9 DEF Anchor
    <2>4. /\ scrollTop % ROW_HEIGHT \in 0..(ROW_HEIGHT - 1)
          /\ scrollTop = ROW_HEIGHT * a + (scrollTop % ROW_HEIGHT)
      BY <1>2, <2>3, DivMod
    <2> HIDE DEF a
    <2>5. ROW_HEIGHT * a = a * ROW_HEIGHT
      BY <1>1, <1>2, TimesNat
    <2> QED
      BY <1>1, <1>2, <1>4, <1>5, <1>6, <1>7, <2>1, <2>2, <2>4, <2>5 DEF l
  <1> QED
    BY <1>8, <1>9

----------------------------------------------------------------------------
(* The invariant                                                           *)

Servers == UNION {[S -> Totals \cup {0}] : S \in SUBSET Names}
Paths   == {NoPath, <<"queues">>} \cup (Names \X Nat)
Lists   == [version : Nat, queues : Servers]
Pages   == [version : Nat, queue : Names, offset : Nat, total : Totals \cup {0}, count : Nat]
Data    == {NoData} \cup Lists \cup Pages
Results == [path : Paths, data : Data, error : BOOLEAN]
Polls   == [path : Paths, rev : Nat, timer : BOOLEAN, result : Results]
Asks    == [poller : Pollers, path : Paths, state : {"sent", "ok", "failed"}, data : Data]
Views   == [queue : Names \cup {None}, scrollTop : Nat, total : Totals \cup {0}, seen : BOOLEAN]
Changes == [state : {"idle", "sent", "done", "refused"}, kind : {"none", "create", "act"},
            queue : Names \cup {None}, version : Nat]

\* The queues, the user's change and the bounds on what happens.
ServerTyped ==
  /\ server \in Servers /\ change \in Changes /\ selected \in Names \cup {None}
  /\ change.kind = "create" => change.queue # None
  /\ version \in Nat /\ savedAt \in Nat /\ failures \in Nat /\ moves \in Nat /\ revision \in Nat
  /\ version + failures + moves <= MaxEvents
  /\ savedAt <= version /\ change.version <= version

\* The parts about the page speak of polls ps, requests rs, a view v, version ver,
\* revision rev and saved version saved.
PageTyped(ps, rs, v) == ps \in [Pollers -> Polls] /\ rs \subseteq Asks /\ v \in Views

\* Each poller waits for one answer or for its timer, never for both, and what
\* it waits for is what its effect last ran with.
Asked(ps, rs) ==
  /\ ps["list"].path \in {NoPath, <<"queues">>} /\ ps["tasks"].path \in {NoPath} \cup (Names \X Nat)
  /\ \A p \in Pollers : ps[p].timer => ps[p].path # NoPath
  /\ \A r \in rs :
       /\ r.path = ps[r.poller].path /\ r.path # NoPath
       /\ ~ps[r.poller].timer
       /\ \A s \in rs : s.poller = r.poller => s = r

\* Data d is an answer of the server to poller p about path.
Right(p, path, d) ==
  \/ p = "list" /\ d \in Lists
  \/ /\ p = "tasks" /\ path \in Names \X Nat /\ d \in Pages
     /\ d.queue = path[1] /\ d.offset = path[2]
     /\ d.count = Lesser(LIMIT, Larger(0, d.total - d.offset))

Answered(ps, rs) ==
  /\ \A r \in rs : IF r.state = "ok" THEN Right(r.poller, r.path, r.data) ELSE r.data = NoData
  /\ \A p \in Pollers : \/ ps[p].result.data = NoData
                        \/ Right(p, ps[p].result.path, ps[p].result.data)

\* Nothing is known of versions and revisions to come.
Bounded(ps, rs, ver, rev) ==
  /\ \A r \in rs : r.data.version <= ver
  /\ \A p \in Pollers : ps[p].result.data.version <= ver /\ ps[p].rev <= rev

\* An answer under way is no older than what is shown, nor than the change whose
\* confirmation made the poller ask.
Fresh(ps, rs, rev, saved) ==
  \A r \in rs : r.state = "ok" =>
    /\ ps[r.poller].result.path = r.path => ps[r.poller].result.data.version <= r.data.version
    /\ ps[r.poller].rev = rev => saved <= r.data.version

Sound(ps, rs, v, ver, rev, saved) ==
  /\ PageTyped(ps, rs, v) /\ Asked(ps, rs) /\ Answered(ps, rs)
  /\ Bounded(ps, rs, ver, rev) /\ Fresh(ps, rs, rev, saved)

IInv == ServerTyped /\ Sound(polls, requests, view, version, revision, savedAt)

----------------------------------------------------------------------------
(* The data                                                                *)

LEMMA ServerShape ==
  ASSUME NEW f \in Servers
  PROVE  /\ DOMAIN f \subseteq Names
         /\ \A q \in DOMAIN f : f[q] \in Totals \cup {0}
         /\ f \in [DOMAIN f -> Totals \cup {0}]
  <1>1. PICK S \in SUBSET Names : f \in [S -> Totals \cup {0}]
    BY DEF Servers
  <1> QED
    BY <1>1

LEMMA ServerMade ==
  ASSUME NEW S \in SUBSET Names, NEW f \in [S -> Totals \cup {0}]
  PROVE  f \in Servers
  BY DEF Servers

LEMMA ServerSet ==
  ASSUME NEW f \in Servers, NEW q \in DOMAIN f, NEW n \in Totals
  PROVE  [f EXCEPT ![q] = n] \in Servers
  <1>1. [f EXCEPT ![q] = n] \in [DOMAIN f -> Totals \cup {0}]
    BY ServerShape
  <1> QED
    BY <1>1, ServerMade, ServerShape

LEMMA Versions ==
  /\ \A d \in Data : d.version \in Int /\ d.version >= -1
  /\ \A d \in Lists \cup Pages : d.version \in Nat /\ d # NoData /\ d \in Data
  /\ NoData \in Data /\ NoData.version = -1
  BY DEF Data, Lists, Pages, NoData

LEMMA PathsApart ==
  /\ NoPath \in Paths /\ <<"queues">> \in Paths /\ Names \X Nat \subseteq Paths
  /\ NoPath \notin Names \X Nat /\ <<"queues">> # NoPath
  BY DEF Paths, NoPath

LEMMA TotalsNat == Totals \cup {0} \subseteq Nat
  BY DashboardAssumption

LEMMA PathTyped ==
  ASSUME view \in Views
  PROVE  /\ Path("list") = <<"queues">>
         /\ Path("tasks") = IF view.queue = None THEN NoPath
                            ELSE <<view.queue, Offset(view.total, view.scrollTop)>>
         /\ Path("tasks") \in {NoPath} \cup (Names \X Nat)
         /\ view.total \in Nat /\ Offset(view.total, view.scrollTop) \in Nat
  <1>1. view.total \in Nat /\ view.scrollTop \in Nat
    <2>1. Totals \cup {0} \subseteq Nat
      BY TotalsNat
    <2>2. view.total \in Totals \cup {0} /\ view.scrollTop \in Nat
      BY DEF Views
    <2> QED
      BY <2>1, <2>2
  <1>2. Offset(view.total, view.scrollTop) \in Nat
    BY <1>1, RowsNat
  <1> QED
    BY <1>1, <1>2 DEF Path, Views

LEMMA ActiveTyped ==
  ASSUME NEW d, d = NoData \/ d \in Lists, NEW name
  PROVE  ActiveOf(d, name) \in Names \cup {None}
  <1>1. CASE d = NoData
    BY <1>1 DEF ActiveOf
  <1>2. CASE d \in Lists /\ d # NoData
    <2>1. d.queues \in Servers /\ DOMAIN d.queues \subseteq Names
      BY <1>2, ServerShape DEF Lists
    <2>2. CASE DOMAIN d.queues = {}
      BY <2>2 DEF ActiveOf
    <2>3. CASE DOMAIN d.queues # {}
      <3>1. DOMAIN d.queues \subseteq Nat
        BY <2>1, DashboardAssumption
      <3>2. \E m \in DOMAIN d.queues : \A n \in DOMAIN d.queues : m <= n
        BY <2>3, <3>1, LeastNat
      <3>3. (CHOOSE q \in DOMAIN d.queues : \A r \in DOMAIN d.queues : q <= r) \in DOMAIN d.queues
        BY <3>2
      <3> QED
        BY <1>2, <2>1, <2>3, <3>3, Zenon DEF ActiveOf
    <2> QED
      BY <2>2, <2>3
  <1> QED
    BY <1>1, <1>2

LEMMA NewPollTyped == NewPoll \in Polls /\ NewPoll.result.data = NoData /\ NewPoll.path = NoPath
                      /\ NewPoll.rev = 0 /\ NewPoll.timer = FALSE
  BY PathsApart, Versions DEF NewPoll, NoResult, Polls, Results

LEMMA PollersAre == Pollers = {"list", "tasks"}
  BY DEF Pollers

----------------------------------------------------------------------------
(* What every step keeps                                                   *)

\* When the queues change, what is known of them stays as true as it was.
LEMMA SoundLater ==
  ASSUME NEW ps, NEW rs, NEW v, NEW ver \in Nat, NEW rev, NEW saved,
         Sound(ps, rs, v, ver, rev, saved), NEW later \in Nat, ver <= later
  PROVE  Sound(ps, rs, v, later, rev, saved)
  <1>1. \A r \in rs : r.data.version \in Int
    BY Versions DEF Sound, PageTyped, Asks
  <1>2. \A p \in Pollers : ps[p].result.data.version \in Int
    BY Versions DEF Sound, PageTyped, Polls, Results
  <1>3. Bounded(ps, rs, later, rev)
    BY <1>1, <1>2 DEF Sound, Bounded
  <1> QED
    BY <1>3 DEF Sound

LEMMA SoundView ==
  ASSUME NEW ps, NEW rs, NEW v, NEW ver, NEW rev, NEW saved,
         Sound(ps, rs, v, ver, rev, saved), NEW w \in Views
  PROVE  Sound(ps, rs, w, ver, rev, saved)
  BY DEF Sound, PageTyped

LEMMA RenderKeeps ==
  ASSUME NEW ps, NEW rs, NEW v, NEW ver \in Nat, NEW rev \in Nat, NEW saved,
         NEW active \in Names \cup {None},
         Sound(ps, rs, v, ver, rev, saved), Render(active, ps, rs, v)
  PROVE  Sound(polls', requests', view', ver, rev, saved)
  <1>1. CASE active = view.queue
    BY <1>1 DEF Render
  <1>2. CASE active # view.queue
    <2> DEFINE qs == [ps EXCEPT !["tasks"] = NewPoll]
               ts == Abort(rs, {"tasks"})
               w  == NewView(active)
    <2>1. polls' = qs /\ requests' = ts /\ view' = w
      BY <1>2 DEF Render
    <2>2. /\ ts \subseteq rs /\ \A r \in ts : r.poller = "list"
      BY PollersAre DEF Abort, Sound, PageTyped, Asks
    <2>3. ps \in [Pollers -> Polls] /\ qs \in [Pollers -> Polls]
          /\ qs["tasks"] = NewPoll /\ qs["list"] = ps["list"]
      BY NewPollTyped, PollersAre DEF Sound, PageTyped
    <2>4. w \in Views
      BY DEF NewView, Views
    <2> HIDE DEF qs, ts, w
    <2>5. PageTyped(qs, ts, w)
      BY <2>2, <2>3, <2>4 DEF Sound, PageTyped
    <2>6. Asked(qs, ts)
      BY <2>2, <2>3, NewPollTyped, PollersAre DEF Sound, Asked
    <2>7. Answered(qs, ts)
      BY <2>2, <2>3, NewPollTyped, PollersAre DEF Sound, Answered
    <2>8. Bounded(qs, ts, ver, rev)
      BY <2>2, <2>3, NewPollTyped, PollersAre, Versions DEF Sound, Bounded
    <2>9. Fresh(qs, ts, rev, saved)
      BY <2>2, <2>3 DEF Sound, Fresh
    <2> QED
      BY <2>1, <2>5, <2>6, <2>7, <2>8, <2>9 DEF Sound
  <1> QED
    BY <1>1, <1>2

LEMMA ActiveKept ==
  ASSUME NEW ps, NEW rs, NEW v, NEW ver, NEW rev, NEW saved, NEW name,
         Sound(ps, rs, v, ver, rev, saved)
  PROVE  ActiveOf(ps["list"].result.data, name) \in Names \cup {None}
  <1>1. ps["list"].result.data = NoData \/ ps["list"].result.data \in Lists
    BY PollersAre DEF Sound, Answered, Right
  <1> QED
    BY <1>1, ActiveTyped

Served(r, d) == [r EXCEPT !.state = "ok", !.data = d]
Failed(r)    == [r EXCEPT !.state = "failed"]

LEMMA AskSet ==
  ASSUME NEW r \in Asks
  PROVE  /\ \A d \in Data : /\ Served(r, d) \in Asks /\ Served(r, d).state = "ok"
                            /\ Served(r, d).poller = r.poller /\ Served(r, d).path = r.path
                            /\ Served(r, d).data = d
         /\ Failed(r) \in Asks /\ Failed(r).state = "failed"
         /\ Failed(r).poller = r.poller /\ Failed(r).path = r.path /\ Failed(r).data = r.data
  BY DEF Asks, Served, Failed

\* Whatever becomes of a request, it is not answered with less than is known.
LEMMA SettledKeeps ==
  ASSUME IInv, NEW r \in requests, r.state = "sent", NEW s \in Asks,
         s.poller = r.poller, s.path = r.path, s.data.version <= version,
         IF s.state = "ok" THEN Right(s.poller, s.path, s.data) /\ s.data.version = version
         ELSE s.data = NoData
  PROVE  Sound(polls, (requests \ {r}) \cup {s}, view, version, revision, savedAt)
  <1> DEFINE rs == (requests \ {r}) \cup {s}
  <1>1. \A t \in rs : t = s \/ (t \in requests /\ t # r)
    OBVIOUS
  <1>2. /\ Sound(polls, requests, view, version, revision, savedAt)
        /\ savedAt \in Nat /\ version \in Nat /\ savedAt <= version
    BY DEF IInv, ServerTyped
  <1>3. requests \subseteq Asks /\ rs \subseteq Asks /\ s.poller \in Pollers
    BY <1>2 DEF Sound, PageTyped, Asks
  <1> HIDE DEF rs
  <1>4. PageTyped(polls, rs, view)
    BY <1>2, <1>3 DEF Sound, PageTyped
  <1>5. Asked(polls, rs)
    BY <1>1, <1>2 DEF Sound, Asked
  <1>6. Answered(polls, rs)
    BY <1>1, <1>2 DEF Sound, Answered
  <1>7. Bounded(polls, rs, version, revision)
    BY <1>1, <1>2 DEF Sound, Bounded
  <1>8. Fresh(polls, rs, revision, savedAt)
    BY <1>1, <1>2, <1>3 DEF Sound, Fresh, Bounded
  <1> QED
    BY <1>4, <1>5, <1>6, <1>7, <1>8 DEF Sound, rs

LEMMA ServeKeeps ==
  ASSUME IInv, NEW r \in requests, Serve(r)
  PROVE  IInv'
  <1> DEFINE good == Served(r, Answer(r.path))
             bad  == Failed(r)
  <1>1. /\ r \in Asks /\ r.state = "sent" /\ r.data = NoData
        /\ polls \in [Pollers -> Polls] /\ requests \subseteq Asks /\ version \in Nat
        /\ r.path = polls[r.poller].path /\ r.path # NoPath
    BY DEF IInv, ServerTyped, Sound, PageTyped, Serve, Answered, Asked
  <1>2. ServerTyped'
    BY DEF IInv, ServerTyped, Serve
  <1>3. PICK s : /\ requests' = (requests \ {r}) \cup {s}
                 /\ s \in Asks /\ s.poller = r.poller /\ s.path = r.path /\ s.data.version <= version
                 /\ IF s.state = "ok" THEN Right(s.poller, s.path, s.data) /\ s.data.version = version
                    ELSE s.data = NoData
    <2>1. CASE r.poller = "list" \/ r.path[1] \in DOMAIN server
      <3>1. requests' = (requests \ {r}) \cup {good}
        BY <2>1 DEF Serve, Served
      <3>2. Right(r.poller, r.path, Answer(r.path)) /\ Answer(r.path).version = version
        <4>1. CASE r.poller = "list"
          <5>1. r.path = <<"queues">>
            BY <1>1, <4>1 DEF IInv, Sound, Asked
          <5>2. server \in Servers
            BY DEF IInv, ServerTyped
          <5>3. Answer(r.path) = [version |-> version, queues |-> server]
            BY <5>1 DEF Answer
          <5>4. Answer(r.path) \in Lists /\ Answer(r.path).version = version
            BY <5>2, <5>3, <1>1 DEF Lists
          <5> QED
            BY <4>1, <5>4 DEF Right
        <4>2. CASE r.poller # "list"
          <5>1. r.poller = "tasks" /\ r.path \in Names \X Nat /\ r.path[1] \in DOMAIN server
            BY <1>1, <2>1, <4>2, PollersAre DEF IInv, Sound, Asked, Asks
          <5>2. server[r.path[1]] \in Totals \cup {0}
            BY <5>1, ServerShape DEF IInv, ServerTyped
          <5> DEFINE n == server[r.path[1]]
                     c == Lesser(LIMIT, Larger(0, n - r.path[2]))
          <5>3. c \in Nat
            <6>1. n \in Nat /\ r.path[2] \in Nat /\ LIMIT \in Nat
              <7>1. server[r.path[1]] \in Nat
                BY <5>2, TotalsNat
              <7> QED
                BY <5>1, <7>1, ListAssumption
            <6> HIDE DEF n
            <6> QED
              BY <6>1 DEF Lesser, Larger
          <5>4. r.path # <<"queues">>
            BY <5>1
          <5>5. Answer(r.path) = [version |-> version, queue |-> r.path[1], offset |-> r.path[2],
                                  total |-> n, count |-> c]
            BY <5>4 DEF Answer
          <5> HIDE DEF c
          <5>6. Answer(r.path) \in Pages
            BY <5>1, <5>2, <5>3, <5>5, <1>1 DEF Pages
          <5>7. /\ Answer(r.path).version = version /\ Answer(r.path).queue = r.path[1]
                /\ Answer(r.path).offset = r.path[2] /\ Answer(r.path).total = n
                /\ Answer(r.path).count = c
            BY <5>5
          <5> QED
            BY <5>1, <5>6, <5>7 DEF Right, c
        <4> QED
          BY <4>1, <4>2
      <3>3. Answer(r.path) \in Data
        BY <3>2, Versions DEF Right
      <3>4. good \in Asks /\ good.poller = r.poller /\ good.path = r.path
            /\ good.data = Answer(r.path) /\ good.state = "ok"
        BY <1>1, <3>3, AskSet
      <3> QED
        BY <3>1, <3>2, <3>4, <1>1
    <2>2. CASE ~(r.poller = "list" \/ r.path[1] \in DOMAIN server)
      <3>1. requests' = (requests \ {r}) \cup {bad}
        BY <2>2 DEF Serve, Failed
      <3>2. bad \in Asks /\ bad.poller = r.poller /\ bad.path = r.path
            /\ bad.data = NoData /\ bad.state = "failed"
        BY <1>1, AskSet
      <3> QED
        BY <3>1, <3>2, <1>1, Versions
    <2> QED
      BY <2>1, <2>2
  <1>4. Sound(polls, requests', view, version, revision, savedAt)
    BY <1>1, <1>3, SettledKeeps
  <1>5. UNCHANGED <<polls, view, version, revision, savedAt>>
    BY DEF Serve
  <1> QED
    BY <1>2, <1>4, <1>5 DEF IInv

LEMMA LoseKeeps ==
  ASSUME IInv, NEW r \in requests, Lose(r)
  PROVE  IInv'
  <1>1. r \in Asks /\ r.state = "sent" /\ r.data = NoData /\ version \in Nat
    BY DEF IInv, ServerTyped, Sound, PageTyped, Lose, Answered
  <1>2. ServerTyped'
    BY DashboardAssumption DEF IInv, ServerTyped, Lose, Eventful
  <1>3. requests' = (requests \ {r}) \cup {Failed(r)}
    BY DEF Lose, Failed
  <1>4. Sound(polls, requests', view, version, revision, savedAt)
    BY <1>1, <1>3, AskSet, Versions, SettledKeeps
  <1>5. UNCHANGED <<polls, view, version, revision, savedAt>>
    BY DEF Lose
  <1> QED
    BY <1>2, <1>4, <1>5 DEF IInv

LEMMA TimerKeeps ==
  ASSUME IInv, NEW p \in Pollers, TimerFires(p)
  PROVE  IInv'
  <1> DEFINE qs == [polls EXCEPT ![p].timer = FALSE]
             a  == [poller |-> p, path |-> polls[p].path, state |-> "sent", data |-> NoData]
             rs == requests \cup {a}
  <1>1. /\ polls \in [Pollers -> Polls] /\ requests \subseteq Asks /\ polls[p].timer
        /\ \A r \in requests : r.poller # p
    BY DEF IInv, Sound, PageTyped, Asked, TimerFires
  <1>2. ServerTyped'
    BY DEF IInv, ServerTyped, TimerFires
  <1>3. polls' = qs /\ requests' = rs
    BY DEF TimerFires, Request
  <1>4. /\ qs \in [Pollers -> Polls]
        /\ \A q \in Pollers : /\ qs[q].path = polls[q].path /\ qs[q].rev = polls[q].rev
                              /\ qs[q].result = polls[q].result
                              /\ qs[q].timer => polls[q].timer /\ q # p
    BY <1>1 DEF Polls
  <1>5. a \in Asks /\ a.poller = p /\ a.path = polls[p].path /\ a.state = "sent" /\ a.data = NoData
    BY <1>1, Versions DEF Asks, Polls
  <1> HIDE DEF qs, a
  <1>6. \A r \in rs : r = a \/ (r \in requests /\ r.poller # p)
    BY <1>1
  <1>7. version \in Nat /\ Sound(polls, requests, view, version, revision, savedAt)
    BY DEF IInv, ServerTyped
  <1>8. rs \subseteq Asks
    BY <1>1, <1>5
  <1> HIDE DEF rs
  <1>9. \A r \in rs : r.poller \in Pollers
    BY <1>8 DEF Asks
  <1>10. PageTyped(qs, rs, view)
    BY <1>4, <1>7, <1>8 DEF Sound, PageTyped
  <1>11. Asked(qs, rs)
    BY <1>1, <1>4, <1>5, <1>6, <1>7, <1>9, PollersAre DEF Sound, Asked
  <1>12. Answered(qs, rs)
    BY <1>4, <1>5, <1>6, <1>7 DEF Sound, Answered
  <1>13. Bounded(qs, rs, version, revision)
    BY <1>4, <1>5, <1>6, <1>7, Versions DEF Sound, Bounded
  <1>14. Fresh(qs, rs, revision, savedAt)
    BY <1>4, <1>5, <1>6, <1>7, <1>9 DEF Sound, Fresh
  <1>15. UNCHANGED <<view, version, revision, savedAt>>
    BY DEF TimerFires
  <1> QED
    BY <1>2, <1>3, <1>10, <1>11, <1>12, <1>13, <1>14, <1>15 DEF IInv, Sound

LEMMA ReceiveKeeps ==
  ASSUME IInv, NEW r \in requests, Receive(r)
  PROVE  IInv'
  <1> DEFINE p  == r.poller
             qs == [polls EXCEPT ![p].result = Result(p, r), ![p].timer = TRUE]
             rs == requests \ {r}
             w  == [view EXCEPT !.seen = @ /\ ~(p = "tasks" /\ r.state = "ok")]
  <1>1. /\ polls \in [Pollers -> Polls] /\ requests \subseteq Asks /\ view \in Views
        /\ r \in Asks /\ p \in Pollers
        /\ r.path = polls[p].path /\ r.path # NoPath
        /\ \A s \in rs : s \in requests /\ s.poller # p
    BY DEF IInv, Sound, PageTyped, Asked, Asks
  <1>2. ServerTyped'
    BY DEF IInv, ServerTyped, Receive
  <1>3. /\ version \in Nat /\ revision \in Nat
        /\ Sound(polls, requests, view, version, revision, savedAt)
    BY DEF IInv, ServerTyped
  <1>4. /\ Result(p, r) \in Results /\ Result(p, r).path = r.path
        /\ \/ Result(p, r).data = NoData \/ Right(p, r.path, Result(p, r).data)
        /\ Result(p, r).data.version <= version
    <2>1. CASE r.state = "ok"
      <3>1. Result(p, r) = [path |-> r.path, data |-> r.data, error |-> FALSE]
        BY <2>1 DEF Result
      <3> QED
        BY <1>1, <1>3, <2>1, <3>1 DEF Results, Asks, Sound, Answered, Bounded
    <2>2. CASE r.state # "ok" /\ polls[p].result.path = r.path
      <3>1. Result(p, r) = [path |-> r.path, error |-> TRUE, data |-> polls[p].result.data]
        BY <2>2 DEF Result
      <3>2. polls[p].result.data \in Data /\ r.path \in Paths
        BY <1>1 DEF Polls, Results, Asks
      <3>3. Result(p, r) \in Results
        BY <3>1, <3>2 DEF Results
      <3> QED
        BY <1>1, <1>3, <2>2, <3>1, <3>3 DEF Sound, Answered, Bounded
    <2>3. CASE r.state # "ok" /\ polls[p].result.path # r.path
      <3>1. Result(p, r) = [path |-> r.path, error |-> TRUE, data |-> NoData]
        BY <2>3 DEF Result
      <3> QED
        BY <1>1, <1>3, <3>1, Versions DEF Results, Asks
    <2> QED
      BY <2>1, <2>2, <2>3
  <1>5. /\ qs \in [Pollers -> Polls]
        /\ qs[p].path = polls[p].path /\ qs[p].rev = polls[p].rev
        /\ qs[p].timer = TRUE /\ qs[p].result = Result(p, r)
        /\ \A q \in Pollers \ {p} : qs[q] = polls[q]
    BY <1>1, <1>4 DEF Polls
  <1>6. w \in Views
    BY <1>1 DEF Views
  <1>7. Render(ActiveOf(qs["list"].result.data, selected), qs, rs, w)
    BY DEF Receive
  <1>8. UNCHANGED <<version, revision, savedAt, selected>>
    BY DEF Receive
  <1> HIDE DEF p, qs, rs, w
  <1>9. rs \subseteq Asks /\ \A s \in rs : s \in requests /\ s.poller \in Pollers \ {p}
    BY <1>1 DEF rs, Asks
  <1>10. PageTyped(qs, rs, w)
    BY <1>5, <1>6, <1>9 DEF PageTyped
  <1>11. Asked(qs, rs)
    BY <1>1, <1>3, <1>5, <1>9, PollersAre DEF Sound, Asked
  <1>12. Answered(qs, rs)
    BY <1>1, <1>3, <1>4, <1>5, <1>9 DEF Sound, Answered
  <1>13. Bounded(qs, rs, version, revision)
    BY <1>1, <1>3, <1>4, <1>5, <1>9 DEF Sound, Bounded
  <1>14. Fresh(qs, rs, revision, savedAt)
    BY <1>3, <1>5, <1>9 DEF Sound, Fresh
  <1>15. Sound(qs, rs, w, version, revision, savedAt)
    BY <1>10, <1>11, <1>12, <1>13, <1>14 DEF Sound
  <1>16. ActiveOf(qs["list"].result.data, selected) \in Names \cup {None}
    BY <1>15, ActiveKept
  <1>17. Sound(polls', requests', view', version, revision, savedAt)
    BY <1>3, <1>7, <1>15, <1>16, RenderKeeps
  <1> QED
    BY <1>2, <1>8, <1>17 DEF IInv

LEMMA ConfirmedKeeps ==
  ASSUME IInv, Confirmed
  PROVE  IInv'
  <1>1. /\ version \in Nat /\ revision \in Nat /\ savedAt' \in Nat /\ savedAt' <= version
        /\ revision' = revision + 1 /\ version' = version /\ change.queue \in Names \cup {None}
        /\ selected' \in Names \cup {None}
        /\ Sound(polls, requests, view, version, revision, savedAt)
    BY DEF IInv, ServerTyped, Confirmed, Changes
  <1>2. ServerTyped'
    <2>1. Idle \in Changes /\ Idle.version = 0 /\ Idle.kind = "none"
      BY DEF Idle, Changes
    <2> QED
      BY <1>1, <2>1 DEF IInv, ServerTyped, Confirmed
  <1>3. \A r \in requests : r.poller \in Pollers
    BY <1>1 DEF Sound, PageTyped, Asks
  <1>4. \A p \in Pollers : polls[p].rev \in Nat /\ polls[p].rev <= revision
    BY <1>1 DEF Sound, PageTyped, Polls, Bounded
  <1>5. Bounded(polls, requests, version, revision')
    BY <1>1, <1>4 DEF Sound, Bounded
  <1>6. Fresh(polls, requests, revision', savedAt')
    BY <1>1, <1>3, <1>4 DEF Sound, Fresh
  <1>7. Sound(polls, requests, view, version, revision', savedAt')
    BY <1>1, <1>5, <1>6 DEF Sound
  <1>8. ActiveOf(polls["list"].result.data, selected') \in Names \cup {None}
    BY <1>7, ActiveKept
  <1>9. Render(ActiveOf(polls["list"].result.data, selected'), polls, requests, view)
    BY DEF Confirmed
  <1>10. Sound(polls', requests', view', version, revision', savedAt')
    BY <1>1, <1>7, <1>8, <1>9, RenderKeeps
  <1> QED
    BY <1>1, <1>2, <1>10 DEF IInv

LEMMA SelectKeeps ==
  ASSUME IInv, NEW q \in Names, Select(q)
  PROVE  IInv'
  <1>1. /\ version \in Nat /\ revision \in Nat
        /\ Sound(polls, requests, view, version, revision, savedAt)
    BY DEF IInv, ServerTyped
  <1>2. ServerTyped'
    BY DashboardAssumption DEF IInv, ServerTyped, Select, Eventful
  <1>3. ActiveOf(polls["list"].result.data, q) \in Names \cup {None}
    BY <1>1, ActiveKept
  <1>4. Render(ActiveOf(polls["list"].result.data, q), polls, requests, view)
    BY DEF Select
  <1>5. Sound(polls', requests', view', version, revision, savedAt)
    BY <1>1, <1>3, <1>4, RenderKeeps
  <1>6. UNCHANGED <<version, revision, savedAt>>
    BY DEF Select
  <1> QED
    BY <1>2, <1>5, <1>6 DEF IInv

LEMMA ScrollKeeps ==
  ASSUME IInv, Scroll
  PROVE  IInv'
  <1>1. Sound(polls, requests, view, version, revision, savedAt) /\ view \in Views
    BY DEF IInv, Sound, PageTyped
  <1>2. ServerTyped'
    BY DashboardAssumption DEF IInv, ServerTyped, Scroll, Eventful
  <1>3. PICK s \in Positions : view' = [view EXCEPT !.scrollTop = s]
    BY DEF Scroll
  <1>4. view' \in Views
    BY <1>1, <1>3, DashboardAssumption DEF Views
  <1>5. UNCHANGED <<polls, requests, version, revision, savedAt>>
    BY DEF Scroll
  <1> QED
    BY <1>1, <1>2, <1>4, <1>5, SoundView DEF IInv

\* The steps that leave the page as it is: the server's and the user's.
LEMMA ServerKeeps ==
  ASSUME IInv, UNCHANGED <<polls, requests, view, revision, savedAt>>,
         version' \in Nat, version <= version', ServerTyped'
  PROVE  IInv'
  <1>1. Sound(polls, requests, view, version, revision, savedAt) /\ version \in Nat
    BY DEF IInv, ServerTyped
  <1> QED
    BY <1>1, SoundLater DEF IInv

LEMMA ChangeTyped ==
  ASSUME change \in Changes
  PROVE  /\ change.version \in Nat /\ change.queue \in Names \cup {None}
         /\ \A n \in Nat : LET c == [change EXCEPT !.state = "done", !.version = n]
                           IN c \in Changes /\ c.version = n /\ c.kind = change.kind /\ c.queue = change.queue
         /\ LET c == [change EXCEPT !.state = "refused"]
            IN c \in Changes /\ c.version = change.version /\ c.kind = change.kind /\ c.queue = change.queue
  BY DEF Changes

LEMMA OthersChangeKeeps ==
  ASSUME IInv, NEW q \in DOMAIN server, OthersChange(q)
  PROVE  IInv'
  <1>1. server' \in Servers
    BY ServerSet DEF IInv, ServerTyped, OthersChange
  <1>2. ServerTyped' /\ version' \in Nat /\ version <= version'
    <2>1. change.version \in Nat
      BY ChangeTyped DEF IInv, ServerTyped
    <2>2. /\ version' = version + 1 /\ version + failures + moves < MaxEvents
          /\ UNCHANGED <<savedAt, failures, moves, change, revision, selected>>
      BY DEF OthersChange, Eventful
    <2> QED
      BY <1>1, <2>1, <2>2, DashboardAssumption DEF IInv, ServerTyped
  <1> QED
    BY <1>2, ServerKeeps DEF OthersChange

LEMMA RestartKeeps ==
  ASSUME IInv, Restart
  PROVE  IInv'
  <1>1. server' \in Servers
    <2>1. {} \in SUBSET Names /\ server' \in [{} -> Totals \cup {0}]
      BY DEF Restart
    <2> QED
      BY <2>1, ServerMade
  <1>2. ServerTyped' /\ version' \in Nat /\ version <= version'
    <2>1. change.version \in Nat
      BY ChangeTyped DEF IInv, ServerTyped
    <2>2. /\ version' = version + 1 /\ version + failures + moves < MaxEvents
          /\ UNCHANGED <<savedAt, failures, moves, change, revision, selected>>
      BY DEF Restart, Eventful
    <2> QED
      BY <1>1, <2>1, <2>2, DashboardAssumption DEF IInv, ServerTyped
  <1> QED
    BY <1>2, ServerKeeps DEF Restart

LEMMA MutateKeeps ==
  ASSUME IInv, NEW kind \in {"create", "act"}, NEW q \in Names, Mutate(kind, q)
  PROVE  IInv'
  <1>1. change' \in Changes /\ change'.version = 0 /\ change'.queue # None
    BY DashboardAssumption DEF Mutate, Changes
  <1>2. ServerTyped' /\ version' \in Nat /\ version <= version'
    BY <1>1 DEF IInv, ServerTyped, Mutate
  <1> QED
    BY <1>2, ServerKeeps DEF Mutate

LEMMA RefusedKeeps ==
  ASSUME IInv, Refused
  PROVE  IInv'
  <1>1. Idle \in Changes /\ Idle.version = 0 /\ Idle.kind = "none"
    BY DEF Idle, Changes
  <1>2. ServerTyped' /\ version' \in Nat /\ version <= version'
    BY <1>1 DEF IInv, ServerTyped, Refused
  <1> QED
    BY <1>2, ServerKeeps DEF Refused

LEMMA LoseConfirmationKeeps ==
  ASSUME IInv, LoseConfirmation
  PROVE  IInv'
  <1>1. /\ change' \in Changes /\ change'.version = change.version
        /\ change'.kind = change.kind /\ change'.queue = change.queue
    BY ChangeTyped DEF IInv, ServerTyped, LoseConfirmation
  <1>2. ServerTyped' /\ version' \in Nat /\ version <= version'
    BY <1>1, DashboardAssumption DEF IInv, ServerTyped, LoseConfirmation, Eventful
  <1> QED
    BY <1>2, ServerKeeps DEF LoseConfirmation

LEMMA ServeChangeKeeps ==
  ASSUME IInv, ServeChange
  PROVE  IInv'
  <1>1. /\ server \in Servers /\ change \in Changes /\ version \in Nat /\ change.version <= version
    BY DEF IInv, ServerTyped
  <1>2. CASE change' = [change EXCEPT !.state = "refused"] /\ UNCHANGED <<server, version>>
    <2>1. /\ change' \in Changes /\ change'.version = change.version
          /\ change'.kind = change.kind /\ change'.queue = change.queue
      BY <1>1, <1>2, ChangeTyped
    <2>2. ServerTyped' /\ version' \in Nat /\ version <= version'
      BY <1>2, <2>1 DEF IInv, ServerTyped, ServeChange
    <2> QED
      BY <2>2, ServerKeeps DEF ServeChange
  <1>3. CASE /\ Eventful /\ version' = version + 1
             /\ change' = [change EXCEPT !.state = "done", !.version = version + 1]
             /\ \/ /\ change.kind = "create" /\ change.queue \notin DOMAIN server
                   /\ server' = [q \in DOMAIN server \cup {change.queue} |->
                                   IF q \in DOMAIN server THEN server[q] ELSE 0]
                \/ /\ change.kind = "act" /\ change.queue \in DOMAIN server
                   /\ \E n \in Totals : server' = [server EXCEPT ![change.queue] = n]
    <2>1. /\ change' \in Changes /\ change'.version = version + 1
          /\ change'.kind = change.kind /\ change'.queue = change.queue
      <3>1. version + 1 \in Nat
        BY <1>1
      <3> QED
        BY <1>1, <1>3, <3>1, ChangeTyped
    <2>2. server' \in Servers
      <3>1. CASE change.kind = "create"
        <4>1. change.queue \in Names
          BY <1>1, <3>1, ChangeTyped DEF IInv, ServerTyped
        <4>2. server' = [q \in DOMAIN server \cup {change.queue} |->
                           IF q \in DOMAIN server THEN server[q] ELSE 0]
          BY <1>3, <3>1
        <4>3. DOMAIN server \subseteq Names /\ \A q \in DOMAIN server : server[q] \in Totals \cup {0}
          BY <1>1, ServerShape
        <4>4. server' \in [DOMAIN server \cup {change.queue} -> Totals \cup {0}]
          BY <4>2, <4>3
        <4> QED
          BY <4>1, <4>3, <4>4, ServerMade
      <3>2. CASE change.kind = "act"
        BY <1>1, <1>3, <3>2, ServerSet
      <3> QED
        BY <1>3, <3>1, <3>2
    <2>3. ServerTyped' /\ version' \in Nat /\ version <= version'
      BY <1>3, <2>1, <2>2, DashboardAssumption DEF IInv, ServerTyped, ServeChange, Eventful
    <2> QED
      BY <2>3, ServerKeeps DEF ServeChange
  <1> QED
    BY <1>2, <1>3 DEF ServeChange

\* What is shown of a page of tasks is an answer about that page.
LEMMA ShownTasks ==
  ASSUME IInv, Shown("tasks").data # NoData
  PROVE  /\ Path("tasks") = <<view.queue, Offset(view.total, view.scrollTop)>>
         /\ Right("tasks", Path("tasks"), Shown("tasks").data)
         /\ Shown("tasks").data \in Pages
  <1>1. Answered(polls, requests) /\ view \in Views
    BY DEF IInv, Sound, PageTyped
  <1>2. polls["tasks"].result.path = Path("tasks") /\ Shown("tasks") = polls["tasks"].result
    <2>1. NoResult.data = NoData
      BY DEF NoResult
    <2> QED
      BY <2>1 DEF Shown
  <1>3. Right("tasks", Path("tasks"), Shown("tasks").data)
    BY <1>1, <1>2, PollersAre DEF Answered
  <1>4. Shown("tasks").data \in Pages /\ Path("tasks") \in Names \X Nat
    BY <1>3 DEF Right
  <1> QED
    BY <1>1, <1>3, <1>4, PathTyped, PathsApart

LEMMA FlushKeeps ==
  ASSUME IInv, FlushEffects
  PROVE  IInv'
  <1> DEFINE C == {p \in Pollers : Changed(p)}
  <1>1. /\ polls \in [Pollers -> Polls] /\ requests \subseteq Asks /\ view \in Views
        /\ version \in Nat /\ revision \in Nat
        /\ Sound(polls, requests, view, version, revision, savedAt)
    BY DEF IInv, ServerTyped, Sound, PageTyped
  <1>2. ServerTyped'
    BY DEF IInv, ServerTyped, FlushEffects
  <1>3. \A p \in Pollers : Path(p) \in Paths /\ (p = "list" => Path(p) = <<"queues">>)
                           /\ (p = "tasks" => Path(p) \in {NoPath} \cup (Names \X Nat))
    BY <1>1, PathTyped, PathsApart, PollersAre
  <1>4. ASSUME NEW p \in Pollers
        PROVE  /\ polls'[p] \in Polls /\ polls'[p].result = polls[p].result
               /\ p \notin C => polls'[p] = polls[p]
               /\ p \in C => polls'[p].path = Path(p) /\ polls'[p].rev = revision /\ polls'[p].timer = FALSE
    <2>1. CASE p \in C
      <3>1. polls'[p] = [polls[p] EXCEPT !.path = Path(p), !.rev = revision, !.timer = FALSE]
        BY <2>1 DEF FlushEffects
      <3>2. polls[p] \in Polls /\ Path(p) \in Paths
        BY <1>1, <1>3
      <3> QED
        BY <1>1, <2>1, <3>1, <3>2 DEF Polls
    <2>2. CASE p \notin C
      BY <1>1, <2>2 DEF FlushEffects
    <2> QED
      BY <2>1, <2>2
  <1>5. polls' \in [Pollers -> Polls]
    <2>1. \E f : polls' = [p \in Pollers |-> f[p]]
      <3>1. polls' = [p \in Pollers |-> IF Changed(p)
                        THEN [polls[p] EXCEPT !.path = Path(p), !.rev = revision, !.timer = FALSE]
                        ELSE polls[p]]
        BY DEF FlushEffects
      <3>2. polls' = [p \in Pollers |-> polls'[p]]
        BY <3>1
      <3> QED
        BY <3>2
    <2> QED
      BY <1>4, <2>1
  <1>6. ASSUME NEW r \in requests'
        PROVE  /\ r \in Asks
               /\ \/ r \in requests /\ r.poller \notin C
                  \/ /\ r.poller \in C /\ Path(r.poller) # NoPath
                     /\ r = Request(r.poller)
    <2>1. CASE r \in requests /\ r.poller \notin C
      BY <1>1, <2>1
    <2>2. CASE \E p \in C : Path(p) # NoPath /\ r = Request(p)
      <3>1. PICK p \in C : Path(p) # NoPath /\ r = Request(p)
        BY <2>2
      <3>2. r.poller = p /\ r \in Asks
        BY <1>3, <3>1, Versions DEF Request, Asks
      <3> QED
        BY <3>1, <3>2
    <2> QED
      BY <2>1, <2>2 DEF FlushEffects, Abort
  <1>7. \A p \in Pollers : /\ Request(p).poller = p /\ Request(p).path = Path(p)
                           /\ Request(p).state = "sent" /\ Request(p).data = NoData
    BY DEF Request
  <1>8. view' \in Views
    <2>1. CASE NewTotal
      <3> DEFINE t == Shown("tasks").data.total
      <3>1. t \in Totals \cup {0} /\ t \in Nat
        BY <2>1, ShownTasks, TotalsNat DEF NewTotal, Pages
      <3>2. MaxScroll(t) \in Nat
        <4>1. t * ROW_HEIGHT \in Nat
          BY <3>1, TimesNat, ListAssumption
        <4> HIDE DEF t
        <4> QED
          BY <4>1, ListAssumption DEF MaxScroll, Larger, Lesser
      <3>3. Lesser(view.scrollTop, MaxScroll(t)) \in Nat
        BY <1>1, <3>2 DEF Views, Lesser
      <3>4. view' = [view EXCEPT !.total = t, !.seen = TRUE,
                                 !.scrollTop = Lesser(@, MaxScroll(t))]
        BY <2>1 DEF FlushEffects, Announced
      <3> HIDE DEF t
      <3> QED
        BY <1>1, <3>1, <3>3, <3>4 DEF Views
    <2>2. CASE ~NewTotal
      <3>1. view' = [view EXCEPT !.seen = Shown("tasks").data # NoData]
        BY <2>2 DEF FlushEffects
      <3> QED
        BY <1>1, <3>1 DEF Views
    <2> QED
      BY <2>1, <2>2
  <1> HIDE DEF C
  <1>9. C \subseteq Pollers
    BY DEF C
  <1>10. \A r \in requests' : r.poller \in Pollers
    BY <1>6 DEF Asks
  <1>11. PageTyped(polls', requests', view')
    BY <1>5, <1>6, <1>8 DEF PageTyped
  <1>12. Asked(polls', requests')
    <2>1. polls'["list"].path \in {NoPath, <<"queues">>}
      BY <1>1, <1>3, <1>4, PollersAre DEF Sound, Asked
    <2>2. polls'["tasks"].path \in {NoPath} \cup (Names \X Nat)
      BY <1>1, <1>3, <1>4, PollersAre DEF Sound, Asked
    <2>3. ASSUME NEW p \in Pollers, polls'[p].timer PROVE polls'[p].path # NoPath
      BY <1>1, <1>4, <2>3 DEF Sound, Asked
    <2>4. ASSUME NEW r \in requests', NEW s \in requests', s.poller = r.poller PROVE s = r
      BY <1>1, <1>6, <2>4 DEF Sound, Asked
    <2>5. ASSUME NEW r \in requests'
          PROVE  r.path = polls'[r.poller].path /\ r.path # NoPath /\ ~polls'[r.poller].timer
      <3>1. CASE r \in requests /\ r.poller \notin C
        BY <1>1, <1>4, <1>10, <3>1 DEF Sound, Asked
      <3>2. CASE r.poller \in C /\ Path(r.poller) # NoPath /\ r = Request(r.poller)
        BY <1>4, <1>7, <1>10, <3>2
      <3> QED
        BY <1>6, <3>1, <3>2
    <2> QED
      BY <2>1, <2>2, <2>3, <2>4, <2>5 DEF Asked
  <1>13. Answered(polls', requests')
    <2>1. ASSUME NEW p \in Pollers
          PROVE  polls'[p].result.data = NoData \/ Right(p, polls'[p].result.path, polls'[p].result.data)
      <3>1. polls'[p].result = polls[p].result
        BY <1>4
      <3> QED
        BY <1>1, <3>1 DEF Sound, Answered
    <2>2. ASSUME NEW r \in requests'
          PROVE  IF r.state = "ok" THEN Right(r.poller, r.path, r.data) ELSE r.data = NoData
      BY <1>1, <1>6, <1>7, <1>10 DEF Sound, Answered
    <2> QED
      BY <2>1, <2>2 DEF Answered
  <1>14. Bounded(polls', requests', version, revision)
    <2>1. ASSUME NEW p \in Pollers PROVE polls'[p].result.data.version <= version /\ polls'[p].rev <= revision
      <3>1. polls[p].result.data.version <= version /\ polls[p].rev <= revision
        BY <1>1 DEF Sound, Bounded
      <3>2. polls'[p].rev = revision \/ polls'[p].rev = polls[p].rev
        BY <1>4
      <3>3. polls'[p].result = polls[p].result
        BY <1>4
      <3> QED
        BY <1>1, <3>1, <3>2, <3>3
    <2>2. ASSUME NEW r \in requests' PROVE r.data.version <= version
      BY <1>1, <1>6, <1>7, <1>10, Versions DEF Sound, Bounded
    <2> QED
      BY <2>1, <2>2 DEF Bounded
  <1>15. Fresh(polls', requests', revision, savedAt)
    BY <1>1, <1>4, <1>6, <1>7, <1>10 DEF Sound, Fresh
  <1>16. UNCHANGED <<version, revision, savedAt>>
    BY DEF FlushEffects
  <1> QED
    BY <1>2, <1>11, <1>12, <1>13, <1>14, <1>15, <1>16 DEF IInv, Sound

LEMMA InitHolds == Init => IInv
  <1> SUFFICES ASSUME Init PROVE IInv
    OBVIOUS
  <1>1. server \in Servers
    <2>1. server \in [FirstQueues -> Totals \cup {0}] /\ FirstQueues \in SUBSET Names
      BY DashboardAssumption DEF Init
    <2> QED
      BY <2>1, ServerMade
  <1>2. Idle \in Changes /\ Idle.version = 0 /\ Idle.kind = "none"
    BY DEF Idle, Changes
  <1>3. ServerTyped
    BY <1>1, <1>2, DashboardAssumption DEF Init, ServerTyped
  <1>4. /\ polls \in [Pollers -> Polls] /\ \A p \in Pollers : polls[p] = NewPoll
        /\ requests = {} /\ version = 0 /\ revision = 0 /\ savedAt = 0
    BY NewPollTyped DEF Init
  <1>5. view \in Views
    BY DEF Init, NewView, Views
  <1>6. Sound(polls, requests, view, version, revision, savedAt)
    BY <1>4, <1>5, NewPollTyped, PollersAre, Versions
       DEF Sound, PageTyped, Asked, Answered, Bounded, Fresh
  <1> QED
    BY <1>3, <1>6 DEF IInv

LEMMA NextKeeps == IInv /\ [Next]_vars => IInv'
  <1> SUFFICES ASSUME IInv, [Next]_vars PROVE IInv'
    OBVIOUS
  <1>1. CASE FlushEffects
    BY <1>1, FlushKeeps
  <1>2. CASE \E p \in Pollers : TimerFires(p)
    BY <1>2, TimerKeeps
  <1>3. CASE \E r \in requests : Serve(r) \/ Lose(r) \/ Receive(r)
    BY <1>3, ServeKeeps, LoseKeeps, ReceiveKeeps
  <1>4. CASE \E q \in DOMAIN server : OthersChange(q)
    BY <1>4, OthersChangeKeeps
  <1>5. CASE Restart \/ ServeChange \/ LoseConfirmation \/ Confirmed \/ Refused
    BY <1>5, RestartKeeps, ServeChangeKeeps, LoseConfirmationKeeps, ConfirmedKeeps, RefusedKeeps
  <1>6. CASE UserStep
    <2>1. view.queue \in Names \cup {None}
      BY DEF IInv, Sound, PageTyped, Views
    <2> QED
      BY <1>6, <2>1, MutateKeeps, SelectKeeps, ScrollKeeps DEF UserStep
  <1>7. CASE UNCHANGED vars
    BY <1>7 DEF vars, IInv, ServerTyped
  <1> QED
    BY <1>1, <1>2, <1>3, <1>4, <1>5, <1>6, <1>7 DEF Next

\* The invariant holds whatever the bounds, queues and clicks are.
THEOREM PageInvariant == Spec => []IInv
  BY InitHolds, NextKeeps, PTL DEF Spec

----------------------------------------------------------------------------
(* The properties                                                          *)

\* The state of the page and the messages are well formed.
THEOREM WellTyped == Spec => []TypeOK
  <1>1. IInv => TypeOK
    <2> SUFFICES ASSUME IInv PROVE TypeOK
      OBVIOUS
    <2>1. DOMAIN server \subseteq Names /\ \A q \in DOMAIN server : server[q] \in Totals \cup {0}
      BY ServerShape DEF IInv, ServerTyped
    <2>2. /\ version \in Nat /\ failures \in Nat /\ moves \in Nat /\ savedAt \in Nat /\ revision \in Nat
          /\ version + failures + moves <= MaxEvents /\ savedAt <= version
          /\ change.version \in Nat /\ change.version <= version
          /\ selected \in Names \cup {None}
      BY ChangeTyped DEF IInv, ServerTyped
    <2>3. version \in 0..MaxEvents /\ savedAt \in 0..version /\ change.version \in 0..version
      BY <2>2, DashboardAssumption
    <2>4. /\ polls \in [Pollers -> Polls] /\ requests \subseteq Asks /\ view \in Views
          /\ Asked(polls, requests) /\ Bounded(polls, requests, version, revision)
      BY DEF IInv, Sound, PageTyped
    <2>5. ASSUME NEW r \in requests
          PROVE  r.poller \in Pollers /\ r.state \in {"sent", "ok", "failed"}
                 /\ r.path # NoPath /\ r.data.version \in -1..version
      <3>1. r.data.version \in Int /\ r.data.version >= -1 /\ r.data.version <= version
        BY <2>4, Versions DEF Asks, Bounded
      <3>2. r.data.version \in -1..version
        BY <2>2, <3>1
      <3> QED
        BY <2>4, <3>2 DEF Asks, Asked
    <2>6. ASSUME NEW p \in Pollers PROVE polls[p].rev \in 0..revision
      <3>1. polls[p].rev \in Nat /\ polls[p].rev <= revision
        BY <2>4 DEF Polls, Bounded
      <3> QED
        BY <2>2, <3>1
    <2>7. view.queue \in Names \cup {None} /\ view.scrollTop \in Nat /\ view.total \in Totals \cup {0}
      BY <2>4 DEF Views
    <2> QED
      BY <2>1, <2>2, <2>3, <2>5, <2>6, <2>7 DEF TypeOK
  <1> QED
    BY <1>1, PageInvariant, PTL

\* Rows of another queue or page are never shown (api.js:43).
THEOREM RowsAreOfView == Spec => []RowsBelongToView
  <1>1. IInv => RowsBelongToView
    <2> SUFFICES ASSUME IInv, Shown("tasks").data # NoData
                 PROVE  /\ Shown("tasks").data.queue = view.queue
                        /\ Shown("tasks").data.offset = Offset(view.total, view.scrollTop)
      BY DEF RowsBelongToView
    <2> QED
      BY ShownTasks DEF Right
  <1> QED
    BY <1>1, PageInvariant, PTL

\* Every row that is drawn and exists is in the page, for lists of any length
\* (TaskList.jsx:39).
THEOREM RowsAreThere == Spec => []RowsLoaded
  <1>1. IInv => RowsLoaded
    <2> SUFFICES ASSUME IInv, Shown("tasks").data # NoData,
                        NEW row \in First(view.total, view.scrollTop)..(Last(view.total, view.scrollTop) - 1),
                        row < Shown("tasks").data.total
                 PROVE  row - Shown("tasks").data.offset \in 0..(Shown("tasks").data.count - 1)
      BY DEF RowsLoaded
    <2> DEFINE d == Shown("tasks").data
               o == Offset(view.total, view.scrollTop)
    <2>1. view.total \in Nat /\ view.scrollTop \in Nat
      <3>1. view.total \in Totals \cup {0} /\ view.scrollTop \in Nat
        BY DEF IInv, Sound, PageTyped, Views
      <3> QED
        BY <3>1, TotalsNat
    <2>2. row - o \in 0..(LIMIT - 1)
      BY <2>1, PageReachesRows
    <2>3. o \in Nat /\ row \in Int
      <3>1. /\ First(view.total, view.scrollTop) \in Nat /\ Last(view.total, view.scrollTop) \in Nat
            /\ Offset(view.total, view.scrollTop) \in Nat
        BY <2>1, RowsNat
      <3> QED
        BY <3>1
    <2>4. d.offset = o /\ d.count = Lesser(LIMIT, Larger(0, d.total - d.offset)) /\ d.total \in Nat
      <3>1. d \in Pages /\ d.offset = o /\ d.count = Lesser(LIMIT, Larger(0, d.total - d.offset))
        BY ShownTasks DEF Right
      <3>2. d.total \in Totals \cup {0}
        BY <3>1 DEF Pages
      <3> QED
        BY <3>1, <3>2, TotalsNat
    <2> HIDE DEF d, o
    <2>5. row < d.total
      BY DEF d
    <2>6. row - o < d.total - o /\ d.total - o \in Int
      BY <2>3, <2>4, <2>5
    <2>7. row - o \in 0..(d.count - 1)
      BY <2>2, <2>3, <2>4, <2>6, ListAssumption DEF Lesser, Larger
    <2> QED
      BY <2>4, <2>7 DEF d
  <1> QED
    BY <1>1, PageInvariant, PTL

\* A step replaces a result by nothing, or by what has returned, or not at all.
LEMMA RenderResults ==
  ASSUME NEW ps, DOMAIN ps = Pollers, NEW rs, NEW v, NEW active, Render(active, ps, rs, v),
         NEW p \in Pollers
  PROVE  polls'[p] = ps[p] \/ (p = "tasks" /\ polls'[p].result = NoResult)
  BY PollersAre DEF Render, NewPoll

LEMMA StepResults ==
  ASSUME IInv, [Next]_vars, NEW p \in Pollers
  PROVE  \/ polls'[p].result = polls[p].result
         \/ p = "tasks" /\ polls'[p].result = NoResult
         \/ \E r \in requests : /\ r.poller = p /\ r.state # "sent"
                                /\ polls'[p].result = Result(p, r)
  <1>1. polls \in [Pollers -> Polls] /\ requests \subseteq Asks
    BY DEF IInv, Sound, PageTyped
  <1>2. CASE FlushEffects
    <2>1. polls[p] \in Polls
      BY <1>1
    <2>2. \/ polls'[p] = [polls[p] EXCEPT !.path = Path(p), !.rev = revision, !.timer = FALSE]
          \/ polls'[p] = polls[p]
      BY <1>2 DEF FlushEffects
    <2> QED
      BY <2>1, <2>2 DEF Polls
  <1>3. CASE \E q \in Pollers : TimerFires(q)
    <2>1. PICK q \in Pollers : polls' = [polls EXCEPT ![q].timer = FALSE]
      BY <1>3 DEF TimerFires
    <2> QED
      BY <1>1, <2>1 DEF Polls
  <1>4. CASE \E r \in requests : Receive(r)
    <2>1. PICK r \in requests : Receive(r)
      BY <1>4
    <2> DEFINE qs == [polls EXCEPT ![r.poller].result = Result(r.poller, r), ![r.poller].timer = TRUE]
    <2>2. r \in Asks /\ r.poller \in Pollers /\ r.state # "sent"
      BY <1>1, <2>1 DEF Asks, Receive
    <2>3. DOMAIN qs = Pollers
      BY <1>1
    <2>4. polls'[p] = qs[p] \/ (p = "tasks" /\ polls'[p].result = NoResult)
      <3>1. Render(ActiveOf(qs["list"].result.data, selected), qs, requests \ {r},
                   [view EXCEPT !.seen = @ /\ ~(r.poller = "tasks" /\ r.state = "ok")])
        BY <2>1 DEF Receive
      <3> HIDE DEF qs
      <3> QED
        BY <2>3, <3>1, RenderResults
    <2>5. qs[p].result = IF p = r.poller THEN Result(p, r) ELSE polls[p].result
      BY <1>1, <2>2 DEF Polls
    <2> HIDE DEF qs
    <2> QED
      BY <2>2, <2>4, <2>5
  <1>5. CASE Confirmed \/ \E q \in Names : Select(q)
    <2>1. \E a : Render(a, polls, requests, view)
      BY <1>5 DEF Confirmed, Select
    <2> QED
      BY <1>1, <2>1, RenderResults
  <1>6. CASE UNCHANGED polls
    BY <1>6
  <1>7. CASE \/ \E r \in requests : Serve(r) \/ Lose(r)
             \/ \E q \in DOMAIN server : OthersChange(q)
             \/ Restart \/ ServeChange \/ LoseConfirmation \/ Refused
             \/ Scroll \/ \E k, q : Mutate(k, q)
    BY <1>7 DEF Serve, Lose, OthersChange, Restart, ServeChange, LoseConfirmation, Refused,
                Scroll, Mutate
  <1> QED
    BY <1>2, <1>3, <1>4, <1>5, <1>6, <1>7 DEF Next, UserStep, vars

\* What is shown for a path is never replaced by something older (api.js:24).
THEOREM NothingOlder == Spec => NeverGoesBack
  <1>1. IInv /\ [Next]_vars =>
          [\A p \in Pollers :
             LET old == polls[p].result
                 new == polls'[p].result
             IN old.path = new.path /\ old.data # NoData => new.data.version >= old.data.version]_vars
    <2> SUFFICES ASSUME IInv, [Next]_vars, NEW p \in Pollers,
                        polls[p].result.path = polls'[p].result.path, polls[p].result.data # NoData
                 PROVE  polls'[p].result.data.version >= polls[p].result.data.version
      OBVIOUS
    <2>1. /\ polls \in [Pollers -> Polls] /\ Asked(polls, requests)
          /\ Answered(polls, requests) /\ Fresh(polls, requests, revision, savedAt)
      BY DEF IInv, Sound, PageTyped
    <2>2. polls[p].result.data.version \in Int /\ polls[p].result \in Results
      BY <2>1, Versions DEF Polls, Results
    <2>3. CASE polls'[p].result = polls[p].result
      BY <2>2, <2>3
    <2>4. CASE p = "tasks" /\ polls'[p].result = NoResult
      <3>1. polls[p].result.path = NoPath
        BY <2>4 DEF NoResult
      <3>2. polls[p].result.path \in Names \X Nat
        BY <2>1, <2>4 DEF Answered, Right
      <3> QED
        BY <3>1, <3>2, PathsApart
    <2>5. ASSUME NEW r \in requests, r.poller = p, r.state # "sent", polls'[p].result = Result(p, r)
          PROVE  polls'[p].result.data.version >= polls[p].result.data.version
      <3>1. CASE r.state = "ok"
        <4>1. polls'[p].result.path = r.path /\ polls'[p].result.data = r.data
          BY <2>5, <3>1 DEF Result
        <4>2. polls[p].result.data.version <= r.data.version
          BY <2>1, <2>5, <3>1, <4>1 DEF Fresh
        <4>3. r.data.version \in Int
          BY <3>1, <2>1, Versions DEF Answered, Right
        <4> QED
          BY <2>2, <4>1, <4>2, <4>3
      <3>2. CASE r.state # "ok"
        <4>1. polls'[p].result.path = r.path
          BY <2>5, <3>2 DEF Result
        <4>2. polls'[p].result.data = polls[p].result.data
          BY <2>5, <3>2, <4>1 DEF Result
        <4> QED
          BY <2>2, <4>2
      <3> QED
        BY <3>1, <3>2
    <2> QED
      BY <2>3, <2>4, <2>5, StepResults
  <1> QED
    BY <1>1, PageInvariant, PTL DEF Spec, NeverGoesBack

\* What arrives for the current revision holds the user's last confirmed change
\* (App.jsx:38).
THEOREM OwnWritesRead == Spec => ReadsOwnWrites
  <1>1. IInv /\ [Next]_vars =>
          [\A p \in Pollers :
             polls'[p].result.data \notin {polls[p].result.data, NoData} /\ polls[p].rev = revision
               => polls'[p].result.data.version >= savedAt]_vars
    <2> SUFFICES ASSUME IInv, [Next]_vars, NEW p \in Pollers,
                        polls'[p].result.data \notin {polls[p].result.data, NoData},
                        polls[p].rev = revision
                 PROVE  polls'[p].result.data.version >= savedAt
      OBVIOUS
    <2>1. /\ Answered(polls, requests) /\ Fresh(polls, requests, revision, savedAt) /\ savedAt \in Nat
      BY DEF IInv, ServerTyped, Sound
    <2>2. PICK r \in requests : /\ r.poller = p /\ r.state # "sent"
                                /\ polls'[p].result = Result(p, r)
      BY StepResults DEF NoResult
    <2>3. r.state = "ok" /\ polls'[p].result.data = r.data
      BY <2>2 DEF Result
    <2>4. savedAt <= r.data.version /\ r.data.version \in Int
      BY <2>1, <2>2, <2>3, Versions DEF Fresh, Answered, Right
    <2> QED
      BY <2>1, <2>3, <2>4
  <1> QED
    BY <1>1, PageInvariant, PTL DEF Spec, ReadsOwnWrites
=============================================================================
