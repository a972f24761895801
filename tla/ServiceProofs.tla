--------------------------- MODULE ServiceProofs ----------------------------
(***************************************************************************)
(* Proofs about Service.tla: for any number of processes, however their      *)
(* files overlap, and any number of requests, lines and operations.          *)
(***************************************************************************)
EXTENDS Service, TLAPS

\* A process holds the locks it has taken until it releases all of them, and
\* has none then.
LocksHeld ==
  \A p \in Procs :
    /\ main[p] = "lock2" => owner[Paths[p][1]] = p
    /\ Opened(p) => owner[Paths[p][1]] = p /\ owner[Paths[p][2]] = p
    /\ \A f \in Files : owner[f] = p => main[p] = "lock2" \/ Opened(p)

\* The mutex of the engine is held by somebody who is still there to release it.
UserThere ==
  \A p \in Procs :
    \/ user[p] = NoUser
    \/ user[p].who = "background" /\ background[p] = "waiting"
    \/ user[p].who \in Handlers /\ handler[p][user[p].who] # "none"
    \/ user[p].who = "main" /\ main[p] = "close"

\* run() waits for the background goroutine before it closes the engine, and for
\* the requests too, unless it has given up waiting and returns an error.
JoinedBeforeClose ==
  \A p \in Procs :
    /\ background[p] = "waiting" =>
         main[p] \in {"serve", "shutdown", "prompt", "execute", "readerror", "join"}
    /\ \A h \in Handlers : handler[p][h] # "none" =>
         \/ main[p] \in {"serve", "shutdown"}
         \/ failed[p] /\ main[p] \in {"join", "close", "unlock", "unlocked"}

\* The engine that is closed has saved all, and only a failure leaves it open.
ClosedOrFailed ==
  \A p \in Procs :
    /\ closed[p] => saved[p] = accepted[p]
    /\ main[p] \in {"unlock", "unlocked", "gone"} => failed[p] \/ closed[p]

IInv == TypeOK /\ LocksHeld /\ UserThere /\ JoinedBeforeClose /\ ClosedOrFailed

----------------------------------------------------------------------------
(* What every step keeps                                                   *)

Callers == Handlers \cup {"main", "background"}
Methods == {"flush", "snapshot", "close"}

EngineTyped ==
  /\ accepted \in [Procs -> Nat] /\ saved \in [Procs -> Nat] /\ closed \in [Procs -> BOOLEAN]
  /\ user \in [Procs -> [who : Handlers \cup {"main", "background", "none"},
                         what : {"flush", "snapshot", "close", "none"}]]

\* The engine does its part of the typing, whoever calls it.
LEMMA EngineTypes ==
  ASSUME TypeOK, NEW p \in Procs, NEW who \in Callers, NEW what \in Methods, NEW ok \in BOOLEAN,
         \/ Record(p) \/ Begin(p, who, what) \/ NothingToSave(p, what) \/ End(p, who, what, ok)
  PROVE  EngineTyped'
  <1>1. CASE Record(p)
    <2>1. accepted' = accepted \/ accepted' = [accepted EXCEPT ![p] = @ + 1]
      BY <1>1 DEF Record
    <2>2. accepted' \in [Procs -> Nat]
      BY <2>1 DEF TypeOK
    <2>3. UNCHANGED <<saved, closed, user>>
      BY <1>1 DEF Record
    <2> QED
      BY <2>2, <2>3 DEF TypeOK, EngineTyped
  <1>2. CASE Begin(p, who, what)
    BY <1>2 DEF TypeOK, EngineTyped, Begin, Callers, Methods
  <1>3. CASE NothingToSave(p, what)
    BY <1>3 DEF TypeOK, EngineTyped, NothingToSave
  <1>4. CASE End(p, who, what, ok)
    BY <1>4 DEF TypeOK, EngineTyped, End, NoUser
  <1> QED
    BY <1>1, <1>2, <1>3, <1>4

\* A closed engine records nothing more.
LEMMA RecordSaves ==
  ASSUME TypeOK, ClosedOrFailed, NEW p \in Procs, Record(p), UNCHANGED <<main, failed>>
  PROVE  ClosedOrFailed'
  <1>1. CASE UNCHANGED accepted
    BY <1>1 DEF ClosedOrFailed, Record
  <1>2. CASE ~closed[p] /\ accepted' = [accepted EXCEPT ![p] = @ + 1]
    BY <1>2 DEF TypeOK, ClosedOrFailed, Record
  <1> QED
    BY <1>1, <1>2 DEF Record

LEMMA Kinds ==
  /\ Handlers \subseteq Callers /\ "main" \in Callers /\ "background" \in Callers
  /\ {"flush", "snapshot"} \subseteq Methods /\ "close" \in Methods
  /\ "main" \notin Handlers /\ "background" \notin Handlers /\ "none" \notin Handlers
  BY ServiceAssumption DEF Callers, Methods

LEMMA PathsAreFiles ==
  ASSUME NEW p \in Procs
  PROVE  Paths[p][1] \in Files /\ Paths[p][2] \in Files /\ Paths[p][1] # Paths[p][2] /\ p # "none"
  BY ServiceAssumption DEF Files

LEMMA ReleaseKeeps ==
  ASSUME TypeOK, LocksHeld, NEW p \in Procs, Release(p), NEW step \in Steps,
         main' = [main EXCEPT ![p] = step], step \notin {"lock2"}, ~(Opened(p)')
  PROVE  LocksHeld' /\ owner' \in [Files -> Procs \cup {"none"}]
  <1>1. owner' \in [Files -> Procs \cup {"none"}]
    BY DEF TypeOK, Release
  <1>2. ASSUME NEW q \in Procs, q # p
        PROVE  /\ main'[q] = main[q]
               /\ owner[Paths[q][1]] = q => owner'[Paths[q][1]] = q
               /\ owner[Paths[q][2]] = q => owner'[Paths[q][2]] = q
    BY <1>2, PathsAreFiles DEF TypeOK, Release
  <1>3. main'[p] = step
    BY DEF TypeOK
  <1>4. \A q \in Procs \ {p} : Opened(q)' <=> Opened(q)
    BY <1>2 DEF Opened
  <1>5. \A f \in Files : owner'[f] # p /\ (owner'[f] # "none" => owner'[f] = owner[f])
    BY PathsAreFiles DEF TypeOK, Release
  <1>6. LocksHeld'
    <2> SUFFICES ASSUME NEW q \in Procs
                 PROVE  /\ main'[q] = "lock2" => owner'[Paths[q][1]] = q
                        /\ Opened(q)' => owner'[Paths[q][1]] = q /\ owner'[Paths[q][2]] = q
                        /\ \A f \in Files : owner'[f] = q => main'[q] = "lock2" \/ Opened(q)'
      BY DEF LocksHeld
    <2>1. CASE q = p
      BY <1>3, <1>5, <2>1
    <2>2. CASE q # p
      BY <1>2, <1>4, <1>5, <2>2, PathsAreFiles DEF LocksHeld
    <2> QED
      BY <2>1, <2>2
  <1> QED
    BY <1>1, <1>6

LEMMA LaunchKeeps ==
  ASSUME IInv, NEW p \in Procs, Launch(p)
  PROVE  IInv'
  <1>1. TypeOK'
    BY DEF IInv, TypeOK, Steps, Launch, Goto, locks, helpers, typing, engine
  <1>2. LocksHeld' /\ UserThere' /\ JoinedBeforeClose' /\ ClosedOrFailed'
    BY DEF IInv, TypeOK, LocksHeld, UserThere, JoinedBeforeClose, ClosedOrFailed, Opened,
           Launch, Goto, locks, helpers, typing, engine
  <1> QED
    BY <1>1, <1>2 DEF IInv

LEMMA LockKeeps ==
  ASSUME IInv, NEW p \in Procs, NEW i \in {1, 2}, Lock(p, i)
  PROVE  IInv'
  <1> DEFINE next == IF i = 1 THEN "lock2" ELSE "restore"
  <1>1. TypeOK /\ LocksHeld /\ main[p] = IF i = 1 THEN "lock1" ELSE "lock2"
    BY DEF IInv, Lock
  <1>2. UNCHANGED <<mode, ctx, signalled, helpers, typing, engine>>
    BY DEF Lock
  <1>3. CASE /\ owner[Paths[p][i]] = "none" /\ owner' = [owner EXCEPT ![Paths[p][i]] = p]
             /\ main' = [main EXCEPT ![p] = next] /\ UNCHANGED failed
    <2>1. TypeOK'
      BY <1>1, <1>2, <1>3, PathsAreFiles DEF TypeOK, Steps, helpers, typing, engine
    <2>2. ASSUME NEW q \in Procs, q # p
          PROVE  /\ main'[q] = main[q]
                 /\ owner[Paths[q][1]] = q => owner'[Paths[q][1]] = q
                 /\ owner[Paths[q][2]] = q => owner'[Paths[q][2]] = q
      BY <1>1, <1>3, <2>2, PathsAreFiles DEF TypeOK
    <2>3. /\ main'[p] = next /\ owner'[Paths[p][i]] = p
          /\ i = 2 => owner'[Paths[p][1]] = p
      BY <1>1, <1>3, PathsAreFiles DEF TypeOK, LocksHeld
    <2>n. \A f \in Files : owner'[f] = p \/ owner'[f] = owner[f]
      BY <1>1, <1>3 DEF TypeOK
    <2>4. LocksHeld'
      <3> SUFFICES ASSUME NEW q \in Procs
                   PROVE  /\ main'[q] = "lock2" => owner'[Paths[q][1]] = q
                          /\ Opened(q)' => owner'[Paths[q][1]] = q /\ owner'[Paths[q][2]] = q
                          /\ \A f \in Files : owner'[f] = q => main'[q] = "lock2" \/ Opened(q)'
        BY DEF LocksHeld
      <3>1. CASE q = p
        BY <2>3, <3>1 DEF Opened
      <3>2. CASE q # p
        BY <1>1, <2>2, <2>n, <3>2 DEF LocksHeld, Opened
      <3> QED
        BY <3>1, <3>2
    <2>5. UserThere' /\ JoinedBeforeClose' /\ ClosedOrFailed'
      BY <1>1, <1>2, <1>3
         DEF IInv, TypeOK, UserThere, JoinedBeforeClose, ClosedOrFailed, helpers, typing, engine
    <2> QED
      BY <2>1, <2>4, <2>5 DEF IInv
  <1>4. CASE /\ Release(p) /\ main' = [main EXCEPT ![p] = "gone"]
             /\ failed' = [failed EXCEPT ![p] = TRUE]
    <2>1. main' \in [Procs -> Steps] /\ failed' \in [Procs -> BOOLEAN] /\ main'[p] = "gone"
      BY <1>1, <1>4 DEF TypeOK, Steps
    <2>2. LocksHeld' /\ owner' \in [Files -> Procs \cup {"none"}]
      BY <1>1, <1>4, <2>1, ReleaseKeeps DEF Steps, Opened
    <2>3. TypeOK'
      BY <1>1, <1>2, <2>1, <2>2 DEF TypeOK, helpers, typing, engine
    <2>4. UserThere' /\ JoinedBeforeClose' /\ ClosedOrFailed'
      BY <1>1, <1>2, <1>4
         DEF IInv, TypeOK, UserThere, JoinedBeforeClose, ClosedOrFailed, helpers, typing, engine
    <2> QED
      BY <2>2, <2>3, <2>4 DEF IInv
  <1>5. <<"lock1", "lock2">>[i] = (IF i = 1 THEN "lock1" ELSE "lock2")
        /\ <<"lock2", "restore">>[i] = next
    OBVIOUS
  <1> QED
    BY <1>3, <1>4, <1>5 DEF Lock, Goto, Fail

LEMMA RestoredKeeps ==
  ASSUME IInv, NEW p \in Procs, Restored(p)
  PROVE  IInv'
  <1>1. TypeOK'
    BY DEF IInv, TypeOK, Steps, Restored, Goto, locks, engine
  <1>2. LocksHeld' /\ UserThere' /\ JoinedBeforeClose' /\ ClosedOrFailed'
    BY DEF IInv, TypeOK, LocksHeld, UserThere, JoinedBeforeClose, ClosedOrFailed, Opened,
           Restored, Goto, locks, engine
  <1> QED
    BY <1>1, <1>2 DEF IInv

LEMMA RestoreFailsKeeps ==
  ASSUME IInv, NEW p \in Procs, RestoreFails(p)
  PROVE  IInv'
  <1>1. TypeOK'
    BY DEF IInv, TypeOK, Steps, RestoreFails, Goto, Fail, locks, helpers, typing, engine
  <1>2. LocksHeld' /\ UserThere' /\ JoinedBeforeClose' /\ ClosedOrFailed'
    BY DEF IInv, TypeOK, LocksHeld, UserThere, JoinedBeforeClose, ClosedOrFailed, Opened,
           RestoreFails, Goto, Fail, locks, helpers, typing, engine
  <1> QED
    BY <1>1, <1>2 DEF IInv

LEMMA RequestKeeps ==
  ASSUME IInv, NEW p \in Procs, NEW h \in Handlers, NEW what \in {"command", "flush", "snapshot"},
         Request(p, h, what)
  PROVE  IInv'
  <1>1. TypeOK'
    BY DEF IInv, TypeOK, Steps, Request, locks, run, typing, engine
  <1>2. LocksHeld' /\ UserThere' /\ JoinedBeforeClose' /\ ClosedOrFailed'
    BY DEF IInv, TypeOK, LocksHeld, UserThere, JoinedBeforeClose, ClosedOrFailed, Opened,
           Request, locks, run, typing, engine
  <1> QED
    BY <1>1, <1>2 DEF IInv

LEMMA HandleKeeps ==
  ASSUME IInv, NEW p \in Procs, NEW h \in Handlers, Handle(p, h)
  PROVE  IInv'
  <1> DEFINE what == handler[p][h]
  <1>1. /\ TypeOK /\ LocksHeld /\ UserThere /\ JoinedBeforeClose /\ ClosedOrFailed
        /\ UNCHANGED <<locks, run, background, typing>>
    BY DEF IInv, Handle, Answered, helpers
  <1>2. what \in {"none", "command", "flush", "snapshot"}
    BY <1>1 DEF TypeOK
  <1>3. LocksHeld'
    BY <1>1 DEF LocksHeld, Opened, locks, run
  <1>4. CASE what \in {"flush", "snapshot"} /\ Begin(p, h, what) /\ UNCHANGED helpers
    <2>1. EngineTyped'
      BY <1>1, <1>4, EngineTypes, Kinds
    <2>2. TypeOK'
      BY <1>1, <1>4, <2>1 DEF TypeOK, EngineTyped, locks, run, helpers, typing
    <2>3. UserThere' /\ JoinedBeforeClose' /\ ClosedOrFailed'
      BY <1>1, <1>4 DEF TypeOK, UserThere, JoinedBeforeClose, ClosedOrFailed, Begin, run, helpers
    <2> QED
      BY <1>3, <2>2, <2>3 DEF IInv
  <1>5. CASE /\ handler' = [handler EXCEPT ![p][h] = "none"]
             /\ \/ Record(p)
                \/ what = "flush" /\ NothingToSave(p, what)
                \/ \E ok \in BOOLEAN : End(p, h, what, ok)
    <2>1. EngineTyped'
      <3>1. CASE \E ok \in BOOLEAN : End(p, h, what, ok)
        <4>1. what \in {"flush", "snapshot"}
          <5>1. user[p].what = what /\ user[p].what \in {"flush", "snapshot", "close", "none"}
                /\ user[p].who = h /\ user[p] # NoUser
            BY <1>1, <3>1, Kinds DEF TypeOK, End, NoUser
          <5>2. what # "none"
            BY <1>1, <5>1, Kinds DEF UserThere
          <5> QED
            BY <1>2, <5>1, <5>2
        <4> QED
          BY <1>1, <3>1, <4>1, EngineTypes, Kinds
      <3> QED
        BY <1>1, <1>5, <3>1, EngineTypes, Kinds
    <2>2. /\ handler' \in [Procs -> [Handlers -> {"none", "command", "flush", "snapshot"}]]
          /\ \A q \in Procs, k \in Handlers : handler'[q][k] # "none" => handler[q][k] # "none"
          /\ \A q \in Procs \ {p} : handler'[q] = handler[q]
      BY <1>1, <1>5 DEF TypeOK
    <2>3. TypeOK'
      BY <1>1, <2>1, <2>2 DEF TypeOK, EngineTyped, locks, run, typing
    <2>4. user'[p] = NoUser /\ \A q \in Procs \ {p} : user'[q] = user[q]
      BY <1>1, <1>5 DEF TypeOK, Record, NothingToSave, End
    <2>5. UserThere'
      BY <1>1, <2>2, <2>4 DEF UserThere, run
    <2>6. JoinedBeforeClose'
      BY <1>1, <2>2 DEF JoinedBeforeClose, run
    <2>7. ClosedOrFailed'
      <3>1. CASE Record(p)
        BY <1>1, <3>1, RecordSaves DEF run
      <3>2. CASE what = "flush" /\ NothingToSave(p, what)
        BY <1>1, <3>2 DEF TypeOK, ClosedOrFailed, NothingToSave, run
      <3>3. CASE \E ok \in BOOLEAN : End(p, h, what, ok)
        BY <1>1, <3>3 DEF TypeOK, ClosedOrFailed, End, run
      <3> QED
        BY <1>5, <3>1, <3>2, <3>3
    <2> QED
      BY <1>3, <2>3, <2>5, <2>6, <2>7 DEF IInv
  <1> QED
    BY <1>4, <1>5 DEF Handle, Answered

LEMMA BackgroundCallsKeeps ==
  ASSUME IInv, NEW p \in Procs, BackgroundCalls(p)
  PROVE  IInv'
  <1>1. EngineTyped'
    BY EngineTypes, Kinds DEF IInv, BackgroundCalls
  <1>2. TypeOK'
    BY <1>1 DEF IInv, TypeOK, EngineTyped, BackgroundCalls, locks, run, helpers, typing
  <1>3. LocksHeld' /\ JoinedBeforeClose'
    BY DEF IInv, LocksHeld, JoinedBeforeClose, Opened, BackgroundCalls, locks, run, helpers
  <1>4. background[p] = "waiting" /\ UNCHANGED <<run, helpers>>
    BY DEF BackgroundCalls
  <1>5. CASE Record(p)
    <2>1. UserThere'
      BY <1>4, <1>5 DEF IInv, UserThere, Record, run, helpers
    <2>2. ClosedOrFailed'
      BY <1>4, <1>5, RecordSaves DEF IInv, run
    <2> QED
      BY <1>2, <1>3, <2>1, <2>2 DEF IInv
  <1>6. CASE \E what \in {"flush", "snapshot"} : Begin(p, "background", what)
    BY <1>2, <1>3, <1>4, <1>6
       DEF IInv, TypeOK, UserThere, ClosedOrFailed, Begin, run, helpers
  <1> QED
    BY <1>5, <1>6 DEF BackgroundCalls

LEMMA BackgroundReturnsKeeps ==
  ASSUME IInv, NEW p \in Procs, BackgroundReturns(p)
  PROVE  IInv'
  <1>1. TypeOK'
    BY DEF IInv, TypeOK, NoUser, BackgroundReturns, End, locks, run, helpers, typing
  <1>2. LocksHeld' /\ UserThere' /\ JoinedBeforeClose' /\ ClosedOrFailed'
    BY DEF IInv, TypeOK, LocksHeld, UserThere, JoinedBeforeClose, ClosedOrFailed, Opened,
           NoUser, BackgroundReturns, End, locks, run, helpers, typing
  <1> QED
    BY <1>1, <1>2 DEF IInv

LEMMA BackgroundFailsKeeps ==
  ASSUME IInv, NEW p \in Procs, BackgroundFails(p)
  PROVE  IInv'
  <1>1. TypeOK'
    BY DEF IInv, TypeOK, Steps, NoUser, BackgroundFails, End, locks, typing
  <1>2. LocksHeld' /\ UserThere' /\ JoinedBeforeClose' /\ ClosedOrFailed'
    BY DEF IInv, TypeOK, LocksHeld, UserThere, JoinedBeforeClose, ClosedOrFailed, Opened,
           NoUser, BackgroundFails, End, locks, typing
  <1> QED
    BY <1>1, <1>2 DEF IInv

LEMMA BackgroundStopsKeeps ==
  ASSUME IInv, NEW p \in Procs, BackgroundStops(p)
  PROVE  IInv'
  <1>1. TypeOK'
    BY DEF IInv, TypeOK, BackgroundStops, locks, run, typing, engine
  <1>2. LocksHeld' /\ UserThere' /\ JoinedBeforeClose' /\ ClosedOrFailed'
    BY DEF IInv, TypeOK, LocksHeld, UserThere, JoinedBeforeClose, ClosedOrFailed, Opened,
           BackgroundStops, locks, run, typing, engine
  <1> QED
    BY <1>1, <1>2 DEF IInv

LEMMA SignalKeeps ==
  ASSUME IInv, NEW p \in Procs, Signal(p)
  PROVE  IInv'
  <1>1. TypeOK'
    BY DEF IInv, TypeOK, Steps, Signal, locks, helpers, typing, engine
  <1>2. LocksHeld' /\ UserThere' /\ JoinedBeforeClose' /\ ClosedOrFailed'
    BY DEF IInv, TypeOK, LocksHeld, UserThere, JoinedBeforeClose, ClosedOrFailed, Opened,
           Signal, locks, helpers, typing, engine
  <1> QED
    BY <1>1, <1>2 DEF IInv

LEMMA WatchKeeps ==
  ASSUME IInv, NEW p \in Procs, Watch(p)
  PROVE  IInv'
  <1>1. TypeOK'
    BY DEF IInv, TypeOK, Steps, Watch, locks, helpers, typing, engine
  <1>2. LocksHeld' /\ UserThere' /\ JoinedBeforeClose' /\ ClosedOrFailed'
    BY DEF IInv, TypeOK, LocksHeld, UserThere, JoinedBeforeClose, ClosedOrFailed, Opened,
           Watch, locks, helpers, typing, engine
  <1> QED
    BY <1>1, <1>2 DEF IInv

LEMMA ListenFailsKeeps ==
  ASSUME IInv, NEW p \in Procs, ListenFails(p)
  PROVE  IInv'
  <1>1. TypeOK'
    BY DEF IInv, TypeOK, Steps, ListenFails, Leave, Idle, Goto, Fail, locks, helpers, typing,
           engine
  <1>2. LocksHeld' /\ UserThere' /\ JoinedBeforeClose' /\ ClosedOrFailed'
    BY DEF IInv, TypeOK, LocksHeld, UserThere, JoinedBeforeClose, ClosedOrFailed, Opened,
           ListenFails, Leave, Idle, Goto, Fail, locks, helpers, typing, engine
  <1> QED
    BY <1>1, <1>2 DEF IInv

LEMMA BeginShutdownKeeps ==
  ASSUME IInv, NEW p \in Procs, BeginShutdown(p)
  PROVE  IInv'
  <1>1. TypeOK'
    BY DEF IInv, TypeOK, Steps, BeginShutdown, Goto, locks, helpers, typing, engine
  <1>2. LocksHeld' /\ UserThere' /\ JoinedBeforeClose' /\ ClosedOrFailed'
    BY DEF IInv, TypeOK, LocksHeld, UserThere, JoinedBeforeClose, ClosedOrFailed, Opened,
           BeginShutdown, Goto, locks, helpers, typing, engine
  <1> QED
    BY <1>1, <1>2 DEF IInv

LEMMA ShutdownEndsKeeps ==
  ASSUME IInv, NEW p \in Procs, ShutdownEnds(p)
  PROVE  IInv'
  <1>1. TypeOK'
    BY DEF IInv, TypeOK, Steps, ShutdownEnds, Leave, Idle, Goto, locks, helpers, typing, engine
  <1>2. LocksHeld' /\ UserThere' /\ JoinedBeforeClose' /\ ClosedOrFailed'
    BY DEF IInv, TypeOK, LocksHeld, UserThere, JoinedBeforeClose, ClosedOrFailed, Opened,
           ShutdownEnds, Leave, Idle, Goto, locks, helpers, typing, engine
  <1> QED
    BY <1>1, <1>2 DEF IInv

LEMMA ShutdownTimesOutKeeps ==
  ASSUME IInv, NEW p \in Procs, ShutdownTimesOut(p)
  PROVE  IInv'
  <1>1. TypeOK'
    BY DEF IInv, TypeOK, Steps, ShutdownTimesOut, Leave, Goto, Fail, locks, helpers, typing,
           engine
  <1>2. LocksHeld' /\ UserThere' /\ JoinedBeforeClose' /\ ClosedOrFailed'
    BY DEF IInv, TypeOK, LocksHeld, UserThere, JoinedBeforeClose, ClosedOrFailed, Opened,
           ShutdownTimesOut, Leave, Goto, Fail, locks, helpers, typing, engine
  <1> QED
    BY <1>1, <1>2 DEF IInv

LEMMA ScanKeeps ==
  ASSUME IInv, NEW p \in Procs, Scan(p)
  PROVE  IInv'
  <1>1. /\ UNCHANGED <<locks, run, helpers, engine>> /\ reader[p] = "scan"
        /\ \/ /\ unread[p] > 0 /\ unread' = [unread EXCEPT ![p] = @ - 1]
              /\ reader' = [reader EXCEPT ![p] = "offer"] /\ UNCHANGED readError
           \/ /\ readError' = [readError EXCEPT ![p] = TRUE]
              /\ reader' = [reader EXCEPT ![p] = "closed"] /\ UNCHANGED unread
    BY DEF Scan
  <1>2. unread' \in [Procs -> Nat]
    <2>1. unread \in [Procs -> Nat]
      BY DEF IInv, TypeOK
    <2>2. CASE unread[p] > 0 /\ unread' = [unread EXCEPT ![p] = @ - 1]
      <3>1. unread[p] - 1 \in Nat
        BY <2>1, <2>2
      <3> QED
        BY <2>1, <2>2, <3>1
    <2>3. CASE UNCHANGED unread
      BY <2>1, <2>3
    <2> QED
      BY <1>1, <2>2, <2>3
  <1>3. TypeOK'
    BY <1>1, <1>2 DEF IInv, TypeOK, locks, run, helpers, engine
  <1>4. LocksHeld' /\ UserThere' /\ JoinedBeforeClose' /\ ClosedOrFailed'
    BY <1>1 DEF IInv, LocksHeld, UserThere, JoinedBeforeClose, ClosedOrFailed, Opened,
                locks, run, helpers, engine
  <1> QED
    BY <1>3, <1>4 DEF IInv

LEMMA ReaderStopsKeeps ==
  ASSUME IInv, NEW p \in Procs, ReaderStops(p)
  PROVE  IInv'
  <1>1. TypeOK'
    BY DEF IInv, TypeOK, ReaderStops, locks, run, helpers, engine
  <1>2. LocksHeld' /\ UserThere' /\ JoinedBeforeClose' /\ ClosedOrFailed'
    BY DEF IInv, TypeOK, LocksHeld, UserThere, JoinedBeforeClose, ClosedOrFailed, Opened,
           ReaderStops, locks, run, helpers, engine
  <1> QED
    BY <1>1, <1>2 DEF IInv

LEMMA TakeLineKeeps ==
  ASSUME IInv, NEW p \in Procs, TakeLine(p)
  PROVE  IInv'
  <1>1. /\ main[p] = "prompt" /\ reader' = [reader EXCEPT ![p] = "scan"]
        /\ UNCHANGED <<owner, mode, signalled, failed, unread, readError, background, handler,
                       accepted, saved, closed, user>>
        /\ ctx' = [ctx EXCEPT ![p] = TRUE] \/ UNCHANGED ctx
    BY DEF TakeLine, Leave, locks, helpers, engine
  <1>2. PICK step \in {"join", "prompt", "execute"} : main' = [main EXCEPT ![p] = step]
    BY DEF TakeLine, Leave, Goto
  <1>3. TypeOK'
    BY <1>1, <1>2 DEF IInv, TypeOK, Steps
  <1>4. LocksHeld'
    BY <1>1, <1>2 DEF IInv, TypeOK, LocksHeld, Opened
  <1>5. UserThere'
    BY <1>1, <1>2 DEF IInv, TypeOK, UserThere
  <1>6. JoinedBeforeClose'
    BY <1>1, <1>2 DEF IInv, TypeOK, JoinedBeforeClose
  <1>7. ClosedOrFailed'
    BY <1>1, <1>2 DEF IInv, TypeOK, ClosedOrFailed
  <1> QED
    BY <1>3, <1>4, <1>5, <1>6, <1>7 DEF IInv

LEMMA ExecuteKeeps ==
  ASSUME IInv, NEW p \in Procs, Execute(p)
  PROVE  IInv'
  <1>1. TypeOK'
    BY DEF IInv, TypeOK, Steps, NoUser, Execute, Record, Goto, locks, helpers, typing
  <1>2. LocksHeld' /\ UserThere' /\ JoinedBeforeClose' /\ ClosedOrFailed'
    BY DEF IInv, TypeOK, LocksHeld, UserThere, JoinedBeforeClose, ClosedOrFailed, Opened,
           NoUser, Execute, Record, Goto, locks, helpers, typing
  <1> QED
    BY <1>1, <1>2 DEF IInv

LEMMA PromptCancelledKeeps ==
  ASSUME IInv, NEW p \in Procs, PromptCancelled(p)
  PROVE  IInv'
  <1>1. TypeOK'
    BY DEF IInv, TypeOK, Steps, PromptCancelled, Leave, Goto, locks, helpers, typing, engine
  <1>2. LocksHeld' /\ UserThere' /\ JoinedBeforeClose' /\ ClosedOrFailed'
    BY DEF IInv, TypeOK, LocksHeld, UserThere, JoinedBeforeClose, ClosedOrFailed, Opened,
           PromptCancelled, Leave, Goto, locks, helpers, typing, engine
  <1> QED
    BY <1>1, <1>2 DEF IInv

LEMMA LinesClosedKeeps ==
  ASSUME IInv, NEW p \in Procs, LinesClosed(p)
  PROVE  IInv'
  <1>1. TypeOK'
    BY DEF IInv, TypeOK, Steps, LinesClosed, Goto, locks, helpers, typing, engine
  <1>2. LocksHeld' /\ UserThere' /\ JoinedBeforeClose' /\ ClosedOrFailed'
    BY DEF IInv, TypeOK, LocksHeld, UserThere, JoinedBeforeClose, ClosedOrFailed, Opened,
           LinesClosed, Goto, locks, helpers, typing, engine
  <1> QED
    BY <1>1, <1>2 DEF IInv

LEMMA TakeReadErrorKeeps ==
  ASSUME IInv, NEW p \in Procs, TakeReadError(p)
  PROVE  IInv'
  <1>1. /\ main[p] = "readerror" /\ main' = [main EXCEPT ![p] = "join"]
        /\ ctx' = [ctx EXCEPT ![p] = TRUE] /\ readError' = [readError EXCEPT ![p] = FALSE]
        /\ UNCHANGED <<owner, mode, signalled, background, handler, reader, unread, accepted,
                       saved, closed, user>>
    BY DEF TakeReadError, Leave, Goto, locks, helpers, engine
  <1>2. failed' \in [Procs -> BOOLEAN] /\ \A q \in Procs : failed[q] => failed'[q]
    BY DEF IInv, TypeOK, TakeReadError, Fail
  <1>3. TypeOK'
    BY <1>1, <1>2 DEF IInv, TypeOK, Steps
  <1>4. LocksHeld'
    BY <1>1 DEF IInv, TypeOK, LocksHeld, Opened
  <1>5. UserThere'
    BY <1>1 DEF IInv, TypeOK, UserThere
  <1>6. JoinedBeforeClose'
    BY <1>1, <1>2 DEF IInv, TypeOK, JoinedBeforeClose
  <1>7. ClosedOrFailed'
    BY <1>1, <1>2 DEF IInv, TypeOK, ClosedOrFailed
  <1> QED
    BY <1>3, <1>4, <1>5, <1>6, <1>7 DEF IInv

LEMMA JoinKeeps ==
  ASSUME IInv, NEW p \in Procs, Join(p)
  PROVE  IInv'
  <1>1. TypeOK'
    BY DEF IInv, TypeOK, Steps, Join, Goto, locks, helpers, typing, engine
  <1>2. LocksHeld' /\ UserThere' /\ JoinedBeforeClose' /\ ClosedOrFailed'
    BY DEF IInv, TypeOK, LocksHeld, UserThere, JoinedBeforeClose, ClosedOrFailed, Opened, Join,
           Goto, locks, helpers, typing, engine
  <1> QED
    BY <1>1, <1>2 DEF IInv

LEMMA CloseEngineKeeps ==
  ASSUME IInv, NEW p \in Procs, CloseEngine(p)
  PROVE  IInv'
  <1>1. TypeOK /\ main[p] = "close" /\ UNCHANGED <<locks, mode, ctx, signalled, helpers, typing>>
    BY DEF IInv, CloseEngine
  <1>2. EngineTyped'
    BY <1>1, EngineTypes, Kinds DEF CloseEngine
  <1>3. CASE Begin(p, "main", "close") /\ UNCHANGED <<main, failed>>
    <2>1. TypeOK'
      BY <1>1, <1>2, <1>3 DEF TypeOK, EngineTyped, locks, helpers, typing
    <2>2. LocksHeld' /\ JoinedBeforeClose'
      BY <1>1, <1>3 DEF IInv, LocksHeld, JoinedBeforeClose, Opened, locks, helpers
    <2>3. UserThere' /\ ClosedOrFailed'
      BY <1>1, <1>3 DEF IInv, TypeOK, UserThere, ClosedOrFailed, Begin, helpers
    <2> QED
      BY <2>1, <2>2, <2>3 DEF IInv
  <1>4. CASE /\ \/ NothingToSave(p, "close") \/ End(p, "main", "close", TRUE)
                \/ End(p, "main", "close", FALSE) /\ failed'[p]
             /\ main' = [main EXCEPT ![p] = "unlock"]
             /\ failed' = failed \/ failed' = [failed EXCEPT ![p] = TRUE]
    <2>1. TypeOK'
      BY <1>1, <1>2, <1>4 DEF TypeOK, EngineTyped, Steps, locks, helpers, typing
    <2>2. LocksHeld'
      BY <1>1, <1>4 DEF IInv, TypeOK, LocksHeld, Opened, locks
    <2>3. user'[p] = NoUser /\ \A q \in Procs \ {p} : user'[q] = user[q]
      BY <1>1, <1>4 DEF TypeOK, NothingToSave, End
    <2>4. UserThere'
      BY <1>1, <1>4, <2>3 DEF IInv, TypeOK, UserThere, helpers
    <2>5. JoinedBeforeClose'
      BY <1>1, <1>4 DEF IInv, TypeOK, JoinedBeforeClose, helpers
    <2>6. /\ \A q \in Procs \ {p} : /\ closed'[q] = closed[q] /\ saved'[q] = saved[q]
                                    /\ accepted'[q] = accepted[q] /\ failed'[q] = failed[q]
                                    /\ main'[q] = main[q]
          /\ accepted'[p] = accepted[p]
      BY <1>1, <1>4 DEF TypeOK, NothingToSave, End
    <2>7. /\ closed'[p] => saved'[p] = accepted'[p]
          /\ failed'[p] \/ closed'[p]
      <3>1. CASE NothingToSave(p, "close")
        BY <1>1, <3>1 DEF TypeOK, NothingToSave
      <3>2. CASE End(p, "main", "close", TRUE)
        BY <1>1, <3>2 DEF TypeOK, End
      <3>3. CASE End(p, "main", "close", FALSE) /\ failed'[p]
        BY <1>1, <3>3 DEF IInv, TypeOK, ClosedOrFailed, End
      <3> QED
        BY <1>4, <3>1, <3>2, <3>3
    <2>8. ClosedOrFailed'
      BY <2>6, <2>7 DEF IInv, ClosedOrFailed
    <2> QED
      BY <2>1, <2>2, <2>4, <2>5, <2>8 DEF IInv
  <1>5. failed' = [failed EXCEPT ![p] = TRUE] => failed'[p]
    BY <1>1 DEF TypeOK
  <1> QED
    BY <1>3, <1>4, <1>5 DEF CloseEngine, Goto, Fail

LEMMA UnlockKeeps ==
  ASSUME IInv, NEW p \in Procs, Unlock(p)
  PROVE  IInv'
  <1>1. /\ TypeOK /\ LocksHeld /\ main[p] = "unlock" /\ main' = [main EXCEPT ![p] = "unlocked"]
        /\ Release(p) /\ UNCHANGED <<mode, failed, ctx, signalled, helpers, typing, engine>>
    BY DEF IInv, Unlock, Goto
  <1>2. main' \in [Procs -> Steps] /\ main'[p] = "unlocked"
    BY <1>1 DEF TypeOK, Steps
  <1>3. LocksHeld' /\ owner' \in [Files -> Procs \cup {"none"}]
    BY <1>1, <1>2, ReleaseKeeps DEF Steps, Opened
  <1>4. TypeOK'
    BY <1>1, <1>2, <1>3 DEF TypeOK, helpers, typing, engine
  <1>5. UserThere' /\ JoinedBeforeClose' /\ ClosedOrFailed'
    BY <1>1 DEF IInv, TypeOK, UserThere, JoinedBeforeClose, ClosedOrFailed, helpers, typing, engine
  <1> QED
    BY <1>3, <1>4, <1>5 DEF IInv

LEMMA ExitKeeps ==
  ASSUME IInv, NEW p \in Procs, Exit(p)
  PROVE  IInv'
  <1>1. TypeOK'
    BY DEF IInv, TypeOK, Steps, NoUser, Exit, Goto, locks, typing
  <1>2. LocksHeld' /\ UserThere' /\ JoinedBeforeClose' /\ ClosedOrFailed'
    BY DEF IInv, TypeOK, LocksHeld, UserThere, JoinedBeforeClose, ClosedOrFailed, Opened,
           NoUser, Exit, Goto, locks, typing
  <1> QED
    BY <1>1, <1>2 DEF IInv

----------------------------------------------------------------------------
(* The properties                                                          *)

LEMMA InitHolds == Init => IInv
  <1> SUFFICES ASSUME Init PROVE IInv
    OBVIOUS
  <1>1. TypeOK
    BY ServiceAssumption DEF Init, TypeOK, Steps, NoUser
  <1>2. LocksHeld /\ UserThere /\ JoinedBeforeClose /\ ClosedOrFailed
    BY ServiceAssumption DEF Init, LocksHeld, UserThere, JoinedBeforeClose, ClosedOrFailed, Opened
  <1> QED
    BY <1>1, <1>2 DEF IInv

LEMMA NextKeeps == IInv /\ [Next]_vars => IInv'
  <1> SUFFICES ASSUME IInv, [Next]_vars PROVE IInv'
    OBVIOUS
  <1>1. ASSUME NEW p \in Procs, RunSteps(p) PROVE IInv'
    BY <1>1, LockKeeps, RestoredKeeps, BeginShutdownKeeps, ShutdownEndsKeeps,
       ShutdownTimesOutKeeps, TakeLineKeeps, ExecuteKeeps, PromptCancelledKeeps,
       LinesClosedKeeps, TakeReadErrorKeeps, JoinKeeps, CloseEngineKeeps, UnlockKeeps, ExitKeeps
       DEF RunSteps
  <1>2. ASSUME NEW p \in Procs, Launch(p) \/ RestoreFails(p) \/ ListenFails(p) PROVE IInv'
    BY <1>2, LaunchKeeps, RestoreFailsKeeps, ListenFailsKeeps
  <1>3. ASSUME NEW p \in Procs, BackgroundCalls(p) \/ BackgroundWork(p) \/ BackgroundStops(p)
        PROVE  IInv'
    BY <1>3, BackgroundCallsKeeps, BackgroundReturnsKeeps, BackgroundFailsKeeps,
       BackgroundStopsKeeps DEF BackgroundWork
  <1>4. ASSUME NEW p \in Procs, NEW h \in Handlers, NEW what \in {"command", "flush", "snapshot"},
               Request(p, h, what)
        PROVE  IInv'
    BY <1>4, RequestKeeps
  <1>5. ASSUME NEW p \in Procs, Signal(p) \/ Watch(p) \/ Scan(p) \/ ReaderStops(p) PROVE IInv'
    BY <1>5, SignalKeeps, WatchKeeps, ScanKeeps, ReaderStopsKeeps
  <1>6. CASE UNCHANGED vars
    BY <1>6 DEF IInv, TypeOK, LocksHeld, UserThere, JoinedBeforeClose, ClosedOrFailed, Opened,
                vars, locks, run, helpers, typing, engine
  <1>7. ASSUME NEW p \in Procs, NEW h \in Handlers, Handle(p, h) PROVE IInv'
    BY <1>7, HandleKeeps
  <1> QED
    BY <1>1, <1>2, <1>3, <1>4, <1>5, <1>6, <1>7 DEF Next

\* The invariant holds for any processes, files, requests and losses (main.go).
THEOREM ServiceInvariant == Spec => []IInv
  BY InitHolds, NextKeeps, PTL DEF Spec

\* The state of every process is well formed.
THEOREM WellTyped == Spec => []TypeOK
  <1>1. IInv => TypeOK
    BY DEF IInv
  <1> QED
    BY <1>1, ServiceInvariant, PTL

\* While a process has its files open, no other opens them, and whoever works on
\* them all the same is a late request of a process that has released its locks
\* and ends with an error: for any processes and files, and requests that last as
\* long as they like (lock.go:11-39, main.go:54-62, server.go:40-45).
THEOREM FilesAreExclusive == Spec => []ExclusiveFiles
  <1>1. IInv => ExclusiveFiles
    <2> SUFFICES ASSUME IInv, NEW p \in Procs, NEW q \in Procs, p # q, Opened(q),
                        {Paths[p][1], Paths[p][2]} \cap {Paths[q][1], Paths[q][2]} # {}
                 PROVE  /\ ~Opened(p)
                        /\ OnFiles(p) =>
                             user[p].who \in Handlers /\ main[p] = "unlocked" /\ failed[p]
      BY DEF ExclusiveFiles
    <2>1. ~Opened(p)
      <3>1. owner[Paths[q][1]] = q /\ owner[Paths[q][2]] = q
        BY DEF IInv, LocksHeld
      <3>2. Opened(p) => owner[Paths[p][1]] = p /\ owner[Paths[p][2]] = p
        BY DEF IInv, LocksHeld
      <3> QED
        BY <3>1, <3>2
    <2>2. ASSUME OnFiles(p)
          PROVE  user[p].who \in Handlers /\ main[p] = "unlocked" /\ failed[p]
      <3>1. user[p] # NoUser
        BY <2>1, <2>2 DEF OnFiles, Opened
      <3>2. user[p].who \in Handlers /\ handler[p][user[p].who] # "none"
        BY <2>1, <3>1 DEF IInv, UserThere, JoinedBeforeClose, Opened
      <3>3. failed[p] /\ main[p] \in {"join", "close", "unlock", "unlocked"}
        BY <2>1, <3>2 DEF IInv, JoinedBeforeClose, Opened
      <3> QED
        BY <2>1, <3>2, <3>3 DEF Opened
    <2> QED
      BY <2>1, <2>2
  <1> QED
    BY <1>1, ServiceInvariant, PTL

\* Whoever was refused a lock or has ended holds none (lock.go:33-35).
THEOREM LocksGivenBack == Spec => []NoLockLeft
  <1>1. IInv => NoLockLeft
    BY DEF IInv, LocksHeld, NoLockLeft
  <1> QED
    BY <1>1, ServiceInvariant, PTL

\* Success means that everything was saved, whoever was late (main.go:72-80).
THEOREM SuccessIsSaved == Spec => []SuccessMeansSaved
  <1>1. IInv => SuccessMeansSaved
    BY DEF IInv, ClosedOrFailed, SuccessMeansSaved
  <1> QED
    BY <1>1, ServiceInvariant, PTL
=============================================================================
