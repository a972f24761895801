------------------------------ MODULE Service -------------------------------
(***************************************************************************)
(* The life of a process, from main.go, server.go, cli.go and lock.go: the *)
(* locks, the start, the goroutines that call the engine, and the shutdown. *)
(* Several processes may be launched on files they share.                   *)
(*                                                                         *)
(* The engine is reduced to what the shutdown is about: how many operations *)
(* it has accepted and saved, closed, and its mutex, which a method keeps   *)
(* while it works on the files.  Engine.tla has the inside of that work.    *)
(***************************************************************************)
EXTENDS Integers, Sequences, FiniteSets

CONSTANTS
  Procs,         \* processes
  Paths,         \* Paths[p]: the AOF and the snapshot file of process p
  Modes,         \* what may be launched: "server", "cli"
  Handlers,      \* requests a server can be busy with
  LateHandlers,  \* requests may go on when run() leaves the server: they last
                 \* longer than it waits (5 s), or Accept fails under them
  Lines,         \* lines typed on a terminal
  MaxOps         \* bound: operations a process records

Files == UNION {{Paths[p][1], Paths[p][2]} : p \in Procs}

ASSUME ServiceAssumption ==
  /\ \A p \in Procs : DOMAIN Paths[p] = {1, 2} /\ Paths[p][1] # Paths[p][2]
  /\ Modes \subseteq {"server", "cli"}
  /\ LateHandlers \in BOOLEAN
  /\ Lines \in Nat /\ MaxOps \in Nat
  /\ "none" \notin Procs /\ Handlers \cap {"main", "background", "none"} = {}

VARIABLES
  owner,      \* who holds the lock of each file
  mode,       \* server or terminal
  main,       \* where run() stands
  failed,     \* run() has an error to return
  ctx,        \* the context is cancelled
  signalled,  \* a signal is in the channel "stopping"
  background, \* the goroutine of StartBackground
  handler,    \* what each request asks for
  reader,     \* the goroutine that reads the terminal
  unread,     \* lines it has not read
  readError,  \* the channel readError holds a value
  accepted,   \* operations recorded by the engine
  saved,      \* operations covered by a successful save
  closed,     \* Engine.closed
  user        \* the caller that works on the files, holding the mutex

locks   == <<owner>>
run     == <<mode, main, failed, ctx, signalled>>
helpers == <<background, handler>>
typing  == <<reader, unread, readError>>
engine  == <<accepted, saved, closed, user>>
vars    == <<locks, run, helpers, typing, engine>>

NoUser == [who |-> "none", what |-> "none"]

Steps == {"off", "lock1", "lock2", "restore", "serve", "shutdown", "prompt",
          "execute", "readerror", "join", "close", "unlock", "unlocked", "gone"}

\* run() has started its goroutines and has not finished yet.
Running(p) ==
  main[p] \in {"serve", "shutdown", "prompt", "execute", "readerror", "join", "close",
               "unlock", "unlocked"}

Init ==
  /\ owner = [f \in Files |-> "none"]
  /\ mode = [p \in Procs |-> "none"] /\ main = [p \in Procs |-> "off"]
  /\ failed = [p \in Procs |-> FALSE]
  /\ ctx = [p \in Procs |-> FALSE] /\ signalled = [p \in Procs |-> FALSE]
  /\ background = [p \in Procs |-> "none"]
  /\ handler = [p \in Procs |-> [h \in Handlers |-> "none"]]
  /\ reader = [p \in Procs |-> "none"]
  /\ unread = [p \in Procs |-> Lines] /\ readError = [p \in Procs |-> FALSE]
  /\ accepted = [p \in Procs |-> 0] /\ saved = [p \in Procs |-> 0]
  /\ closed = [p \in Procs |-> FALSE] /\ user = [p \in Procs |-> NoUser]

Goto(p, step) == main' = [main EXCEPT ![p] = step]

Fail(p) == failed' = [failed EXCEPT ![p] = TRUE]

Release(p) == owner' = [f \in Files |-> IF owner[f] = p THEN "none" ELSE owner[f]]

----------------------------------------------------------------------------
(* Start                                                                   *)

Launch(p) ==
  /\ main[p] = "off"
  /\ \E m \in Modes : mode' = [mode EXCEPT ![p] = m]
  /\ Goto(p, "lock1")
  /\ UNCHANGED <<locks, failed, ctx, signalled, helpers, typing, engine>>

\* Faulty variant of Lock: only the first file is locked.
LockFirst(p, i) ==
  /\ main[p] = <<"lock1", "lock2">>[i]
  /\ \/ /\ i = 2 \/ owner[Paths[p][i]] = "none"
        /\ owner' = IF i = 2 THEN owner ELSE [owner EXCEPT ![Paths[p][i]] = p]
        /\ Goto(p, <<"lock2", "restore">>[i])
        /\ UNCHANGED failed
     \/ /\ i = 1 /\ owner[Paths[p][i]] # "none"
        /\ Release(p) /\ Goto(p, "gone") /\ Fail(p)
  /\ UNCHANGED <<mode, ctx, signalled, helpers, typing, engine>>

\* Faulty variant of Lock: a refusal gives nothing back.
LockLeavesFirst(p, i) ==
  /\ main[p] = <<"lock1", "lock2">>[i]
  /\ \/ /\ owner[Paths[p][i]] = "none"
        /\ owner' = [owner EXCEPT ![Paths[p][i]] = p]
        /\ Goto(p, <<"lock2", "restore">>[i])
        /\ UNCHANGED failed
     \/ /\ owner[Paths[p][i]] # "none"
        /\ Goto(p, "gone") /\ Fail(p)
        /\ UNCHANGED owner
  /\ UNCHANGED <<mode, ctx, signalled, helpers, typing, engine>>

\* TryLock on one file after the other; a refusal gives back what was taken.
Lock(p, i) ==
  /\ main[p] = <<"lock1", "lock2">>[i]
  /\ \/ /\ owner[Paths[p][i]] = "none"
        /\ owner' = [owner EXCEPT ![Paths[p][i]] = p]
        /\ Goto(p, <<"lock2", "restore">>[i])
        /\ UNCHANGED failed
     \/ /\ owner[Paths[p][i]] # "none"
        /\ Release(p) /\ Goto(p, "gone") /\ Fail(p)
  /\ UNCHANGED <<mode, ctx, signalled, helpers, typing, engine>>

\* Restore is over: the goroutines start.
Restored(p) ==
  /\ main[p] = "restore"
  /\ Goto(p, IF mode[p] = "cli" THEN "prompt" ELSE "serve")
  /\ background' = [background EXCEPT ![p] = "waiting"]
  /\ reader' = [reader EXCEPT ![p] = IF mode[p] = "cli" THEN "scan" ELSE "none"]
  /\ UNCHANGED <<locks, mode, failed, ctx, signalled, handler, unread, readError, engine>>

\* Restore returns an error: there is no engine to close.
RestoreFails(p) ==
  /\ main[p] = "restore"
  /\ Goto(p, "unlock") /\ Fail(p)
  /\ UNCHANGED <<locks, mode, ctx, signalled, helpers, typing, engine>>

----------------------------------------------------------------------------
(* The engine, as its callers see it                                       *)

\* A command: it may record an operation, unless the engine is closed.
Record(p) ==
  /\ user[p] = NoUser
  /\ \/ UNCHANGED accepted
     \/ /\ ~closed[p] /\ accepted[p] < MaxOps
        /\ accepted' = [accepted EXCEPT ![p] = @ + 1]
  /\ UNCHANGED <<saved, closed, user>>

\* Flush, Snapshot or Close takes the mutex and starts to work on the files.
Begin(p, who, what) ==
  /\ user[p] = NoUser
  /\ what = "snapshot" \/ saved[p] < accepted[p]
  /\ user' = [user EXCEPT ![p] = [who |-> who, what |-> what]]
  /\ UNCHANGED <<accepted, saved, closed>>

\* Flush or Close with an empty buffer leaves the files alone.
NothingToSave(p, what) ==
  /\ user[p] = NoUser /\ what # "snapshot" /\ saved[p] = accepted[p]
  /\ closed' = [closed EXCEPT ![p] = @ \/ what = "close"]
  /\ UNCHANGED <<accepted, saved, user>>

\* The method returns, having saved everything or failed.
End(p, who, what, ok) ==
  /\ user[p] = [who |-> who, what |-> what]
  /\ user' = [user EXCEPT ![p] = NoUser]
  /\ saved' = IF ok THEN [saved EXCEPT ![p] = accepted[p]] ELSE saved
  /\ closed' = [closed EXCEPT ![p] = @ \/ (ok /\ what = "close")]
  /\ UNCHANGED accepted

----------------------------------------------------------------------------
(* The background goroutine                                                *)

BackgroundCalls(p) ==
  /\ background[p] = "waiting"
  /\ \/ Record(p)                      \* a sweep that may remove a key
     \/ \E what \in {"flush", "snapshot"} : Begin(p, "background", what)
  /\ UNCHANGED <<locks, run, helpers, typing>>

BackgroundReturns(p) ==
  /\ \E what \in {"flush", "snapshot"} : End(p, "background", what, TRUE)
  /\ UNCHANGED <<locks, run, helpers, typing>>

\* Faulty variant of BackgroundFails: nobody is told.
BackgroundFailsAlone(p) ==
  /\ \E what \in {"flush", "snapshot"} : End(p, "background", what, FALSE)
  /\ background' = [background EXCEPT ![p] = "failed"]
  /\ UNCHANGED <<locks, run, handler, typing>>

\* The first error ends the goroutine, which cancels the context.
BackgroundFails(p) ==
  /\ \E what \in {"flush", "snapshot"} : End(p, "background", what, FALSE)
  /\ background' = [background EXCEPT ![p] = "failed"]
  /\ ctx' = [ctx EXCEPT ![p] = TRUE]
  /\ UNCHANGED <<locks, mode, main, failed, signalled, handler, typing>>

\* Between two calls, the goroutine sees the cancellation.
BackgroundStops(p) ==
  /\ background[p] = "waiting" /\ user[p].who # "background" /\ ctx[p]
  /\ background' = [background EXCEPT ![p] = "stopped"]
  /\ UNCHANGED <<locks, run, handler, typing, engine>>

----------------------------------------------------------------------------
(* Requests: they stop coming when the shutdown begins, but those that have *)
(* arrived go on until they are done or the process is gone                 *)

Request(p, h, what) ==
  /\ mode[p] = "server" /\ main[p] = "serve"
  /\ handler[p][h] = "none"
  /\ handler' = [handler EXCEPT ![p][h] = what]
  /\ UNCHANGED <<locks, run, background, typing, engine>>

Answered(p, h) ==
  /\ handler' = [handler EXCEPT ![p][h] = "none"]
  /\ UNCHANGED <<locks, run, background, typing>>

\* Faulty variant of Handle: a command does not look at closed.
HandleAnyway(p, h) ==
  LET what == handler[p][h]
  IN \/ /\ what = "command" /\ user[p] = NoUser
        /\ \/ UNCHANGED accepted
           \/ accepted[p] < MaxOps /\ accepted' = [accepted EXCEPT ![p] = @ + 1]
        /\ UNCHANGED <<saved, closed, user>> /\ Answered(p, h)
     \/ what = "flush" /\ NothingToSave(p, what) /\ Answered(p, h)
     \/ what \in {"flush", "snapshot"} /\ Begin(p, h, what)
          /\ UNCHANGED <<locks, run, helpers, typing>>
     \/ \E ok \in BOOLEAN : End(p, h, what, ok) /\ Answered(p, h)

Handle(p, h) ==
  LET what == handler[p][h]
  IN \/ what = "command" /\ Record(p) /\ Answered(p, h)
     \/ what = "flush" /\ NothingToSave(p, what) /\ Answered(p, h)
     \/ what \in {"flush", "snapshot"} /\ Begin(p, h, what)
          /\ UNCHANGED <<locks, run, helpers, typing>>
     \/ \E ok \in BOOLEAN : End(p, h, what, ok) /\ Answered(p, h)

----------------------------------------------------------------------------
(* Signals                                                                 *)

Signal(p) ==
  /\ Running(p) /\ main[p] \notin {"close", "unlock", "unlocked"}
  /\ signalled' = [signalled EXCEPT ![p] = TRUE]
  /\ UNCHANGED <<locks, mode, main, failed, ctx, helpers, typing, engine>>

\* Faulty variant of Watch: the signal is logged and nothing more.
WatchLogs(p) ==
  /\ signalled[p] /\ Running(p)
  /\ UNCHANGED vars

\* The goroutine that waits for the signal cancels the context.
Watch(p) ==
  /\ signalled[p] /\ Running(p) /\ ~ctx[p]
  /\ ctx' = [ctx EXCEPT ![p] = TRUE]
  /\ UNCHANGED <<locks, mode, main, failed, signalled, helpers, typing, engine>>

----------------------------------------------------------------------------
(* The server's side of run()                                              *)

\* run() goes on to cancel and to wait for the background goroutine.
Leave(p) ==
  /\ Goto(p, "join")
  /\ ctx' = [ctx EXCEPT ![p] = TRUE]
  /\ UNCHANGED <<locks, mode, signalled, helpers, engine>>

Idle(p) == \A h \in Handlers : handler[p][h] = "none"

\* ListenAndServe returns an error, at the start or later.
ListenFails(p) ==
  /\ main[p] = "serve" /\ (LateHandlers \/ Idle(p))
  /\ Fail(p) /\ Leave(p) /\ UNCHANGED typing

BeginShutdown(p) ==
  /\ main[p] = "serve" /\ ctx[p]
  /\ Goto(p, "shutdown")
  /\ UNCHANGED <<locks, mode, failed, ctx, signalled, helpers, typing, engine>>

ShutdownEnds(p) ==
  /\ main[p] = "shutdown" /\ Idle(p)
  /\ Leave(p) /\ UNCHANGED <<failed, typing>>

\* After 5 s the connections are closed, not the requests that wait or work.
ShutdownTimesOut(p) ==
  /\ main[p] = "shutdown" /\ LateHandlers /\ ~Idle(p)
  /\ Fail(p) /\ Leave(p) /\ UNCHANGED typing

----------------------------------------------------------------------------
(* The terminal's side of run()                                            *)

\* Faulty variant of Scan: the end of the input is not noticed.
ScanPastEnd(p) ==
  /\ reader[p] = "scan" /\ Running(p)
  /\ unread' = [unread EXCEPT ![p] = @ - 1]
  /\ reader' = [reader EXCEPT ![p] = "offer"]
  /\ UNCHANGED <<locks, run, helpers, readError, engine>>

\* The user types a line, or ends the input.
Scan(p) ==
  /\ reader[p] = "scan" /\ Running(p)
  /\ \/ /\ unread[p] > 0
        /\ unread' = [unread EXCEPT ![p] = @ - 1]
        /\ reader' = [reader EXCEPT ![p] = "offer"]
        /\ UNCHANGED readError
     \/ /\ unread[p] = 0
        /\ readError' = [readError EXCEPT ![p] = TRUE]
        /\ reader' = [reader EXCEPT ![p] = "closed"]
        /\ UNCHANGED unread
  /\ UNCHANGED <<locks, run, helpers, engine>>

\* The reader has a line to give but sees the cancellation: it closes lines.
ReaderStops(p) ==
  /\ reader[p] = "offer" /\ ctx[p] /\ Running(p)
  /\ reader' = [reader EXCEPT ![p] = "closed"]
  /\ UNCHANGED <<locks, run, helpers, unread, readError, engine>>

\* run() receives the line: EXIT, nothing to do, or a command.
TakeLine(p) ==
  /\ main[p] = "prompt" /\ reader[p] = "offer"
  /\ reader' = [reader EXCEPT ![p] = "scan"]
  /\ UNCHANGED <<failed, unread, readError>>
  /\ \/ Leave(p)
     \/ /\ \E step \in {"prompt", "execute"} : Goto(p, step)
        /\ UNCHANGED <<locks, mode, ctx, signalled, helpers, engine>>

Execute(p) ==
  /\ main[p] = "execute" /\ Record(p)
  /\ Goto(p, "prompt")
  /\ UNCHANGED <<locks, mode, failed, ctx, signalled, helpers, typing>>

PromptCancelled(p) ==
  main[p] = "prompt" /\ ctx[p] /\ Leave(p) /\ UNCHANGED <<failed, typing>>

LinesClosed(p) ==
  /\ main[p] = "prompt" /\ reader[p] = "closed"
  /\ Goto(p, "readerror")
  /\ UNCHANGED <<locks, mode, failed, ctx, signalled, helpers, typing, engine>>

\* What scanner.Err() says, if anything, is what run() returns.
TakeReadError(p) ==
  /\ main[p] = "readerror" /\ readError[p]
  /\ readError' = [readError EXCEPT ![p] = FALSE]
  /\ Fail(p) \/ UNCHANGED failed
  /\ Leave(p) /\ UNCHANGED <<reader, unread>>

----------------------------------------------------------------------------
(* End of run()                                                            *)

Join(p) ==
  /\ main[p] = "join" /\ background[p] \in {"stopped", "failed"}
  /\ Goto(p, "close")
  /\ failed' = [failed EXCEPT ![p] = @ \/ background[p] = "failed"]
  /\ UNCHANGED <<locks, mode, ctx, signalled, helpers, typing, engine>>

\* Faulty variant of CloseEngine: the error is logged, not returned.
CloseEngineQuietly(p) ==
  /\ main[p] = "close"
  /\ \/ Begin(p, "main", "close") /\ UNCHANGED main
     \/ /\ \/ NothingToSave(p, "close")
           \/ \E ok \in BOOLEAN : End(p, "main", "close", ok)
        /\ Goto(p, "unlock")
  /\ UNCHANGED <<locks, mode, failed, ctx, signalled, helpers, typing>>

CloseEngine(p) ==
  /\ main[p] = "close"
  /\ \/ /\ Begin(p, "main", "close")
        /\ UNCHANGED <<main, failed>>
     \/ /\ NothingToSave(p, "close") \/ End(p, "main", "close", TRUE)
        /\ Goto(p, "unlock") /\ UNCHANGED failed
     \/ /\ End(p, "main", "close", FALSE)
        /\ Goto(p, "unlock") /\ Fail(p)
  /\ UNCHANGED <<locks, mode, ctx, signalled, helpers, typing>>

Unlock(p) ==
  /\ main[p] = "unlock"
  /\ Release(p) /\ Goto(p, "unlocked")
  /\ UNCHANGED <<mode, failed, ctx, signalled, helpers, typing, engine>>

\* main returns: whatever other goroutines were doing stops there.
Exit(p) ==
  /\ main[p] = "unlocked"
  /\ Goto(p, "gone")
  /\ user' = [user EXCEPT ![p] = NoUser]
  /\ handler' = [handler EXCEPT ![p] = [h \in Handlers |-> "none"]]
  /\ UNCHANGED <<locks, mode, failed, ctx, signalled, background, typing, accepted,
                 saved, closed>>

----------------------------------------------------------------------------

RunSteps(p) ==
  \/ Lock(p, 1) \/ Lock(p, 2) \/ Restored(p)
  \/ BeginShutdown(p) \/ ShutdownEnds(p) \/ ShutdownTimesOut(p)
  \/ TakeLine(p) \/ Execute(p) \/ PromptCancelled(p) \/ LinesClosed(p) \/ TakeReadError(p)
  \/ Join(p) \/ CloseEngine(p) \/ Unlock(p) \/ Exit(p)

BackgroundWork(p) == BackgroundReturns(p) \/ BackgroundFails(p)

Next ==
  \E p \in Procs :
    \/ Launch(p) \/ RestoreFails(p) \/ ListenFails(p) \/ RunSteps(p)
    \/ BackgroundCalls(p) \/ BackgroundWork(p) \/ BackgroundStops(p)
    \/ \E h \in Handlers : Handle(p, h)
    \/ \E h \in Handlers, what \in {"command", "flush", "snapshot"} : Request(p, h, what)
    \/ Signal(p) \/ Watch(p)
    \/ Scan(p) \/ ReaderStops(p)

Spec == Init /\ [][Next]_vars

\* Every goroutine that can go on does.  select chooses among the ready cases
\* at random, so the background loop does not pass over the cancellation for
\* ever; the mutex is handed to whoever waits long enough.
FairSpec ==
  /\ Spec
  /\ \A p \in Procs :
       /\ WF_vars(RunSteps(p)) /\ WF_vars(BackgroundWork(p)) /\ SF_vars(BackgroundStops(p))
       /\ WF_vars(Watch(p)) /\ WF_vars(ReaderStops(p))
       /\ \A h \in Handlers : SF_vars(Handle(p, h))

----------------------------------------------------------------------------
(* Properties                                                              *)

\* Typing of every variable.
TypeOK ==
  /\ owner \in [Files -> Procs \cup {"none"}]
  /\ mode \in [Procs -> Modes \cup {"none"}] /\ main \in [Procs -> Steps]
  /\ failed \in [Procs -> BOOLEAN] /\ ctx \in [Procs -> BOOLEAN]
  /\ signalled \in [Procs -> BOOLEAN] /\ readError \in [Procs -> BOOLEAN]
  /\ background \in [Procs -> {"none", "waiting", "stopped", "failed"}]
  /\ handler \in [Procs -> [Handlers -> {"none", "command", "flush", "snapshot"}]]
  /\ reader \in [Procs -> {"none", "scan", "offer", "closed"}]
  /\ unread \in [Procs -> Nat]
  /\ accepted \in [Procs -> Nat] /\ saved \in [Procs -> Nat] /\ closed \in [Procs -> BOOLEAN]
  /\ user \in [Procs -> [who : Handlers \cup {"main", "background", "none"},
                         what : {"flush", "snapshot", "close", "none"}]]

\* The process reads or writes its files.
OnFiles(p) == main[p] = "restore" \/ user[p] # NoUser

\* The process has its files open, from the start to the release of its locks.
Opened(p) ==
  main[p] \in {"restore", "serve", "shutdown", "prompt", "execute", "readerror", "join",
               "close", "unlock"}

\* While a process has a file open, no other opens it, reads it or writes it,
\* but for a request that another server has left behind: that one has waited
\* for its requests as long as it does, is about to end with an error, and has
\* released its locks (lock.go:11-39, main.go:54-62, server.go:40-45;
\* README.md:120).
ExclusiveFiles ==
  \A p, q \in Procs :
    /\ p # q /\ Opened(q)
    /\ {Paths[p][1], Paths[p][2]} \cap {Paths[q][1], Paths[q][2]} # {}
    => /\ ~Opened(p)
       /\ OnFiles(p) => user[p].who \in Handlers /\ main[p] = "unlocked" /\ failed[p]

\* Only a process that starts or has its files open holds locks: whoever was
\* refused one of them, has failed to start or has ended leaves none behind, so
\* that the files can be opened again (lock.go:33-35, main.go:59-62).
NoLockLeft ==
  \A f \in Files, p \in Procs : owner[f] = p => main[p] = "lock2" \/ Opened(p)

\* Once the engine is closed nothing it has accepted is unsaved, even if late
\* requests go on, and a process that reports success has closed it
\* (persistence.go:139-150, engine.go:76, main.go:72-80).
SuccessMeansSaved ==
  \A p \in Procs :
    /\ closed[p] => saved[p] = accepted[p]
    /\ main[p] = "gone" /\ ~failed[p] => closed[p]

\* A signal ends the process (main.go:86-93).
SignalEnds == \A p \in Procs : signalled[p] ~> main[p] = "gone"

\* A disk error in the background goroutine ends the process (main.go:95).
DiskErrorEnds == \A p \in Procs : background[p] = "failed" ~> main[p] = "gone"
============================================================================
