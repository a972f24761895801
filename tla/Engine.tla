------------------------------- MODULE Engine -------------------------------
(***************************************************************************)
(* The engine of internal/engine on top of internal/storage: an in-memory  *)
(* map with expiry dates, a buffer of journal lines, an append-only file    *)
(* (AOF) and a snapshot, with the disk calls one by one so that a stop, a   *)
(* disk error or the clock can come between any two of them.               *)
(*                                                                         *)
(* The engine's mutex serialises its methods.  pc = "idle" means that no    *)
(* method holds it; every other pc is a point inside the method that does.  *)
(* Methods that never touch the disk are one step.                         *)
(***************************************************************************)
EXTENDS Journal, FiniteSets

CONSTANTS
  TTLs,        \* durations a SET command may carry, 0 for "none given"
  DefaultTTL,  \* config.Config.DefaultTTL, 0 for "never expires"
  Faults,      \* which failures may happen:
               \*   "kill"    the process dies, the operating system stays
               \*   "power"   the machine dies: unsynced writes may be lost
               \*   "disk"    a call on a file fails
               \*   "repair"  undoing a failed append fails or is interrupted
  MaxSeq,      \* bound: operations recorded
  MaxTime,     \* bound: the clock
  MaxLines     \* bound: lines in the AOF

ASSUME EngineAssumption ==
  /\ TTLs \subseteq Nat
  /\ DefaultTTL \in Nat
  /\ Faults \subseteq {"kill", "power", "disk", "repair"}
  /\ MaxSeq \in Nat /\ MaxTime \in Nat /\ MaxLines \in Nat

VARIABLES
  state,      \* Engine.state; NoEntry for a key it does not hold
  index,      \* Engine.index as the value it files each key under
  buffer,     \* Engine.buffer: lines not yet appended to the AOF
  sequence,   \* Engine.sequence: number of the last operation
  closed,     \* Engine.closed
  returned,   \* run(): its deferred Close has returned, with or without error
  pc,         \* where the method that holds the mutex stands
  call,       \* the method that appends: "flush", "snapshot", "close" or "none"
  todo,       \* expired keys a sweep or a query has still to remove
  cursor,     \* next line Restore looks at
  mark,       \* the AOF as AppendAOF found it, until its lines are synced
  now,        \* the wall clock
  aof,        \* the AOF as the operating system shows it
  aofNew,     \* what that file may hold after a power loss
  aofOld,     \* what the name of the AOF may lead to instead, directory unsynced
  snap,       \* the snapshot as the operating system shows it
  snapAlts,   \* the snapshots a power loss may leave
  hist,       \* history: hist[n] is the map after operation n, expiry aside
  safe        \* history: the last operation a completed save has covered

mem   == <<state, index, buffer, sequence, closed, returned>>
ctl   == <<pc, call, todo, cursor, mark>>
files == <<aof, aofNew, aofOld, snap, snapAlts>>
ghost == <<hist, safe>>
vars  == <<mem, ctl, now, files, ghost>>

Calls == {"none", "flush", "snapshot", "close"}

Points == {"down", "replay", "idle", "evict", "open", "sync", "repair",
           "syncdir", "snapshot", "snapdir", "clear", "cleardir"}

\* The engine exists and answers: Restore has returned without error.
Up == pc \notin {"down", "replay"}

\* The map after operation n.
At(n) == IF n = 0 THEN EmptyState ELSE hist[n]

Filed(s) == [k \in Keys |-> s[k].val]

----------------------------------------------------------------------------
(* First start: no file, so no name for the AOF in the directory.          *)

Init ==
  /\ state = EmptyState /\ index = Filed(EmptyState)
  /\ buffer = << >> /\ sequence = 0 /\ closed = FALSE /\ returned = FALSE
  /\ pc = "down" /\ call = "none" /\ todo = {} /\ cursor = 1 /\ mark = EmptyFile
  /\ now = 1
  /\ aof = EmptyFile /\ aofNew = {EmptyFile} /\ aofOld = {EmptyFile}
  /\ snap = NoSnapshot /\ snapAlts = {NoSnapshot}
  /\ hist = << >> /\ safe = 0

----------------------------------------------------------------------------
(* Restore                                                                 *)

\* ReadSnapshot and ReadAOF; a torn tail is cut off and the cut is synced.
LoadFiles ==
  /\ pc = "down" /\ Readable(aof)
  /\ state' = snap.entries /\ sequence' = snap.seq
  /\ pc' = "replay" /\ cursor' = 1
  /\ aof' = Trimmed(aof)
  /\ aofNew' = IF aof.torn THEN {aof'} ELSE aofNew
  /\ UNCHANGED <<index, buffer, closed, returned, call, todo, mark, now,
                 aofOld, snap, snapAlts, ghost>>

\* The tail is cut off but the sync fails: the start is refused.
LoadFails ==
  /\ pc = "down" /\ Readable(aof) /\ aof.torn /\ "disk" \in Faults
  /\ aof' = Trimmed(aof)
  /\ aofNew' = aofNew \cup {aof'}
  /\ UNCHANGED <<mem, ctl, now, aofOld, snap, snapAlts, ghost>>

\* One turn of the loop over the lines.  A line the code refuses has no turn:
\* RestoreNeverRefuses says there is none.
ReplayLine ==
  /\ pc = "replay" /\ cursor \in Lines(aof)
  /\ LET op == aof.ops[cursor]
     IN \/ /\ op.seq \in 1..sequence
           /\ UNCHANGED <<state, sequence>>
        \/ /\ op.seq = sequence + 1
           /\ state' = ApplyOp(state, op)
           /\ sequence' = op.seq
  /\ cursor' = cursor + 1
  /\ UNCHANGED <<index, buffer, closed, returned, pc, call, todo, mark, now, files,
                 ghost>>

\* Drop what has expired, without a journal line, and rebuild the index.
FinishRestore ==
  /\ pc = "replay" /\ cursor \notin Lines(aof)
  /\ state' = Live(state, now)
  /\ index' = Filed(state')
  /\ pc' = "idle" /\ cursor' = 1
  /\ hist' = SubSeq(hist, 1, sequence)
  /\ UNCHANGED <<buffer, sequence, closed, returned, call, todo, mark, now, files,
                 safe>>

----------------------------------------------------------------------------
(* Commands                                                                *)

\* Faulty variant of Record: a removal leaves the index alone.
RecordIndexStale(k, e) ==
  /\ sequence < MaxSeq
  /\ state' = [state EXCEPT ![k] = e]
  /\ index' = IF e = NoEntry THEN index ELSE [index EXCEPT ![k] = e.val]
  /\ sequence' = sequence + 1
  /\ buffer' = Append(buffer, [seq |-> sequence + 1, key |-> k, entry |-> Stored(e)])
  /\ hist' = Append(hist, [At(sequence) EXCEPT ![k] = e])

\* The map, its index and its journal change together.
Record(k, e) ==
  /\ sequence < MaxSeq
  /\ state' = [state EXCEPT ![k] = e]
  /\ index' = [index EXCEPT ![k] = e.val]
  /\ sequence' = sequence + 1
  /\ buffer' = Append(buffer, [seq |-> sequence + 1, key |-> k, entry |-> Stored(e)])
  /\ hist' = Append(hist, [At(sequence) EXCEPT ![k] = e])

\* ExpiresAt for a SET at this instant.
Deadline(ttl) ==
  LET effective == IF ttl = 0 THEN DefaultTTL ELSE ttl
  IN IF effective = 0 THEN 0 ELSE now + effective

\* Faulty variant of Set: the date is not checked.
SetAnyDate(k, v, ttl) ==
  /\ pc = "idle" /\ ~closed
  /\ Record(k, [val |-> v, exp |-> Deadline(ttl)])
  /\ UNCHANGED <<closed, returned, ctl, now, files, safe>>

\* SET: refused when the date would not survive its trip through the journal.
Set(k, v, ttl) ==
  /\ pc = "idle" /\ ~closed
  /\ LET e == [val |-> v, exp |-> Deadline(ttl)]
     IN Stored(e) = e /\ Record(k, e)
  /\ UNCHANGED <<closed, returned, ctl, now, files, safe>>

\* DELETE is recorded even when the key is absent.
Delete(k) ==
  /\ pc = "idle" /\ ~closed
  /\ Record(k, NoEntry)
  /\ UNCHANGED <<closed, returned, ctl, now, files, safe>>

\* GET of an expired key removes it.
GetExpired(k) ==
  /\ pc = "idle" /\ ~closed
  /\ Expired(state[k], now)
  /\ Record(k, NoEntry)
  /\ UNCHANGED <<closed, returned, ctl, now, files, safe>>

\* A method starts removing the expired keys among ks, one operation each.
Collect(ks) ==
  /\ pc = "idle" /\ ~closed
  /\ todo' = {k \in ks : Expired(state[k], now)}
  /\ todo' # {}
  /\ sequence + Cardinality(todo') <= MaxSeq
  /\ pc' = "evict"
  /\ UNCHANGED <<mem, call, cursor, mark, now, files, ghost>>

SweepExpired == Collect(Keys)

\* GETWHERE: the index names the keys whose value matches.
GetWhere(matching) == Collect({k \in Keys : index[k] \in matching})

\* remove(key) in the loop of SweepExpired or GetWhere, in any order.
Evict(k) ==
  /\ pc = "evict" /\ k \in todo
  /\ Record(k, NoEntry)
  /\ todo' = todo \ {k}
  /\ pc' = IF todo' = {} THEN "idle" ELSE "evict"
  /\ UNCHANGED <<closed, returned, call, cursor, mark, now, files, safe>>

----------------------------------------------------------------------------
(* Flush, Snapshot, Close                                                  *)

\* flush() with something in the buffer calls AppendAOF.
BeginAppend(method) ==
  /\ buffer # << >>
  /\ Len(aof.ops) + Len(buffer) <= MaxLines
  /\ pc' = "open" /\ call' = method
  /\ UNCHANGED <<mem, todo, cursor, mark, now, files, ghost>>

\* Faulty variant of Flush: it waits for more than one line.
FlushBatches == pc = "idle" /\ Len(buffer) > 1 /\ BeginAppend("flush")

Flush == pc = "idle" /\ BeginAppend("flush")

\* Snapshot does not look at closed.
Snapshot ==
  /\ pc = "idle"
  /\ \/ BeginAppend("snapshot")
     \/ /\ buffer = << >>
        /\ pc' = "snapshot" /\ call' = "snapshot"
        /\ UNCHANGED <<mem, todo, cursor, mark, now, files, ghost>>

\* Faulty variant of Close: the buffer is not looked at.
CloseUnflushed ==
  /\ pc = "idle" /\ ~closed /\ ~returned
  /\ closed' = TRUE /\ returned' = TRUE
  /\ UNCHANGED <<state, index, buffer, sequence, ctl, now, files, ghost>>

\* run() calls Close once.
Close ==
  /\ pc = "idle" /\ ~closed /\ ~returned
  /\ \/ BeginAppend("close")
     \/ /\ buffer = << >>
        /\ closed' = TRUE /\ returned' = TRUE
        /\ UNCHANGED <<state, index, buffer, sequence, ctl, now, files, ghost>>

----------------------------------------------------------------------------
(* AppendAOF, one system call at a time                                    *)

\* The method that appends ends; run() goes on to its return if it was Close.
Answered == returned' = (returned \/ call = "close")

\* Write: all the lines, or k of them and a part t of the next on an error.
WriteLines(k, t) ==
  /\ pc = "open"
  /\ \/ k = Len(buffer) /\ ~t
     \/ k < Len(buffer) /\ "disk" \in Faults
  /\ mark' = aof
  /\ aof' = Extend(aof, buffer, k, t)
  /\ aofNew' = aofNew \cup Portions(aof, buffer, k, t)
  /\ pc' = IF k = Len(buffer) THEN "sync" ELSE "repair"
  /\ UNCHANGED <<mem, call, todo, cursor, now, aofOld, snap, snapAlts, ghost>>

\* Faulty variant of SyncOk: the append does not wait for the disk.
SyncSkipped ==
  /\ pc = "sync"
  /\ mark' = EmptyFile
  /\ pc' = "syncdir"
  /\ UNCHANGED <<mem, call, todo, cursor, now, files, ghost>>

SyncOk ==
  /\ pc = "sync"
  /\ aofNew' = {aof} /\ mark' = EmptyFile
  /\ pc' = "syncdir"
  /\ UNCHANGED <<mem, call, todo, cursor, now, aof, aofOld, snap, snapAlts, ghost>>

SyncFails ==
  /\ pc = "sync" /\ "disk" \in Faults
  /\ pc' = "repair"
  /\ UNCHANGED <<mem, call, todo, cursor, mark, now, files, ghost>>

\* Faulty variant of Repair: the lines are dropped with their write.
RepairDropsBuffer ==
  /\ pc = "repair"
  /\ aof' = mark /\ aofNew' = {mark} /\ mark' = EmptyFile
  /\ buffer' = << >>
  /\ pc' = "idle" /\ call' = "none" /\ Answered
  /\ UNCHANGED <<state, index, sequence, closed, todo, cursor, now, aofOld, snap,
                 snapAlts, ghost>>

\* Truncate to the old size and Sync; the append still reports its error.
Repair ==
  /\ pc = "repair"
  /\ aof' = mark /\ aofNew' = {mark} /\ mark' = EmptyFile
  /\ pc' = "idle" /\ call' = "none" /\ Answered
  /\ UNCHANGED <<state, index, buffer, sequence, closed, todo, cursor, now, aofOld,
                 snap, snapAlts, ghost>>

\* Truncate fails, or Sync fails after it.
RepairFails ==
  /\ pc = "repair" /\ "repair" \in Faults
  /\ aof' \in {aof, mark} /\ mark' = EmptyFile
  /\ pc' = "idle" /\ call' = "none" /\ Answered
  /\ UNCHANGED <<state, index, buffer, sequence, closed, todo, cursor, now, aofNew,
                 aofOld, snap, snapAlts, ghost>>

\* Faulty variant of AppendOk: Snapshot empties the AOF before anything else.
AppendOkClears ==
  /\ pc = "syncdir"
  /\ aofOld' = {}
  /\ buffer' = << >>
  /\ safe' = sequence
  /\ closed' = (closed \/ call = "close") /\ Answered
  /\ pc' = IF call = "snapshot" THEN "clear" ELSE "idle"
  /\ call' = IF call = "snapshot" THEN "snapshot" ELSE "none"
  /\ UNCHANGED <<state, index, sequence, todo, cursor, mark, now,
                 aof, aofNew, snap, snapAlts, hist>>

\* syncDir succeeds and AppendAOF returns: the buffer is dropped, and the
\* method that flushed ends or, for Snapshot, goes on.
AppendOk ==
  /\ pc = "syncdir"
  /\ aofOld' = {}
  /\ buffer' = << >>
  /\ safe' = sequence
  /\ closed' = (closed \/ call = "close") /\ Answered
  /\ pc' = IF call = "snapshot" THEN "snapshot" ELSE "idle"
  /\ call' = IF call = "snapshot" THEN "snapshot" ELSE "none"
  /\ UNCHANGED <<state, index, sequence, todo, cursor, mark, now,
                 aof, aofNew, snap, snapAlts, hist>>

----------------------------------------------------------------------------
(* WriteSnapshot and ClearAOF: each writes and syncs a temporary file,     *)
(* renames it, then syncs the directory                                    *)

\* The rename of WriteSnapshot.
RenameSnapshot ==
  /\ pc = "snapshot"
  /\ snap' = [seq     |-> sequence,
              entries |-> [k \in Keys |-> Stored(Live(state, now)[k])]]
  /\ snapAlts' = snapAlts \cup {snap'}
  /\ pc' = "snapdir"
  /\ UNCHANGED <<mem, call, todo, cursor, mark, now, aof, aofNew, aofOld, ghost>>

\* Faulty variant of SnapshotDirOk: the directory is not synced after the rename.
SnapshotDirSkipped ==
  /\ pc = "snapdir"
  /\ safe' = sequence
  /\ pc' = "clear"
  /\ UNCHANGED <<mem, call, todo, cursor, mark, now, files, hist>>

SnapshotDirOk ==
  /\ pc = "snapdir"
  /\ snapAlts' = {snap}
  /\ safe' = sequence
  /\ pc' = "clear"
  /\ UNCHANGED <<mem, call, todo, cursor, mark, now, aof, aofNew, aofOld, snap, hist>>

\* The rename of ClearAOF: the name leads to an empty file, or still to the
\* old one if the directory is lost.
ClearAOF ==
  /\ pc = "clear"
  /\ aof' = EmptyFile
  /\ aofOld' = aofOld \cup aofNew
  /\ aofNew' = {EmptyFile}
  /\ pc' = "cleardir"
  /\ UNCHANGED <<mem, call, todo, cursor, mark, now, snap, snapAlts, ghost>>

ClearDirOk ==
  /\ pc = "cleardir"
  /\ aofOld' = {}
  /\ pc' = "idle" /\ call' = "none"
  /\ UNCHANGED <<mem, todo, cursor, mark, now, aof, aofNew, snap, snapAlts, ghost>>

\* Opening, creating, writing the temporary file, renaming or syncing a
\* directory fails: the method returns the error and changes nothing more.
DiskCallFails ==
  /\ pc \in {"open", "syncdir", "snapshot", "snapdir", "clear", "cleardir"}
  /\ "disk" \in Faults
  /\ pc' = "idle" /\ call' = "none" /\ Answered
  /\ UNCHANGED <<state, index, buffer, sequence, closed, todo, cursor, mark, now,
                 files, ghost>>

----------------------------------------------------------------------------
(* Stops and time                                                          *)

\* The memory of the process is gone.
Forget ==
  /\ state' = EmptyState /\ index' = Filed(EmptyState)
  /\ buffer' = << >> /\ sequence' = 0 /\ closed' = FALSE /\ returned' = FALSE
  /\ pc' = "down" /\ call' = "none" /\ todo' = {} /\ cursor' = 1
  /\ mark' = EmptyFile
  /\ UNCHANGED <<now, ghost>>

\* run() is over and main ends the process, whether Close succeeded or not;
\* a method still running for somebody else is cut off where it stands.
Exit == Up /\ returned /\ Forget /\ UNCHANGED files

\* The process dies; what it wrote stays readable.
Kill == pc # "down" /\ "kill" \in Faults /\ Forget /\ UNCHANGED files

\* The machine dies: what was not synced may be lost, and from then on what
\* is left is on the disk.
PowerLoss ==
  /\ "power" \in Faults
  /\ \E c \in aofNew \cup aofOld, s \in snapAlts :
       /\ aof' = c /\ aofNew' = {c}
       /\ aofOld' = IF c = EmptyFile THEN {EmptyFile} ELSE {}
       /\ snap' = s /\ snapAlts' = {s}
  /\ Forget

Tick ==
  /\ now < MaxTime
  /\ now' = now + 1
  /\ UNCHANGED <<mem, ctl, files, ghost>>

----------------------------------------------------------------------------

Command ==
  \/ \E k \in Keys, v \in Values, ttl \in TTLs : Set(k, v, ttl)
  \/ \E k \in Keys : Delete(k) \/ GetExpired(k) \/ Evict(k)
  \/ SweepExpired
  \/ \E matching \in SUBSET Values : GetWhere(matching)

AppendSteps ==
  \/ \E k \in 0..Len(buffer), t \in BOOLEAN : WriteLines(k, t)
  \/ SyncOk \/ SyncFails \/ Repair \/ RepairFails \/ AppendOk

Compact ==
  RenameSnapshot \/ SnapshotDirOk \/ ClearAOF \/ ClearDirOk

Start == LoadFiles \/ LoadFails \/ ReplayLine \/ FinishRestore

Next ==
  \/ Start
  \/ Command
  \/ Flush \/ Snapshot \/ Close
  \/ AppendSteps \/ Compact \/ DiskCallFails
  \/ Exit \/ Kill \/ PowerLoss
  \/ Tick

Spec == Init /\ [][Next]_vars

\* The methods that run without waiting for a caller: the holder of the mutex
\* goes on, main restores, and the background goroutine flushes at each tick.
HolderStep == (\E k \in Keys : Evict(k)) \/ AppendSteps \/ Compact

FairSpec == Spec /\ WF_vars(Start) /\ WF_vars(HolderStep) /\ WF_vars(Flush)

----------------------------------------------------------------------------
(* Properties                                                              *)

\* Typing of every variable, the ghosts included.
TypeOK ==
  /\ state \in States /\ index \in [Keys -> Values \cup {NoValue}]
  /\ buffer \in Seq(Op) /\ sequence \in Nat
  /\ closed \in BOOLEAN /\ returned \in BOOLEAN
  /\ pc \in Points /\ call \in Calls
  /\ todo \subseteq Keys /\ cursor \in Nat \ {0} /\ mark \in File
  /\ now \in Nat
  /\ aof \in File /\ aofNew \subseteq File /\ aofOld \subseteq File
  /\ snap \in Snapshots /\ snapAlts \subseteq Snapshots
  /\ hist \in Seq(States) /\ safe \in Nat

\* Whatever was cut short before, the next start succeeds: no undecodable line
\* for ReadAOF, no missing or null sequence number for Restore
\* (persistence.go:85,94; storage.go:67).
RestoreNeverRefuses ==
  /\ pc = "down" => Readable(aof)
  /\ pc = "replay" /\ cursor \in Lines(aof)
       => aof.ops[cursor].seq \in 1..(sequence + 1)

\* A running engine serves exactly the map its history leads to, after any
\* number of saves, stops and replays: no hole, no mix of two moments, no key
\* that comes back, no expiry date changed by its trip through the files.
ServesHistory ==
  Up => /\ Len(hist) = sequence
        /\ safe <= sequence
        /\ Agree(state, At(sequence), now)

\* The index that GETWHERE searches files the keys of the map, and only them,
\* under the values of the map (engine.go:88-91, 131-133; persistence.go:107-113).
IndexMatchesState == Up => index = Filed(state)

\* No step, stop and replay included, takes back or rewrites an operation that
\* a successful Flush, Snapshot or Close has covered.
SafePrefixKept ==
  [][/\ safe <= safe' /\ safe <= Len(hist')
     /\ \A n \in 1..safe : hist'[n] = hist[n]]_vars

\* The files the next start may find if the process stops now.
SurvivingAofs == IF "power" \in Faults THEN aofNew \cup aofOld ELSE {aof}
SurvivingSnaps == IF "power" \in Faults THEN snapAlts ELSE {snap}

Survives(n) == \A c \in SurvivingAofs, s \in SurvivingSnaps : Covers(c, s.seq, n)

\* A brutal stop loses at most the operations that are still in the buffer
\* (README.md:95-96), at every point of every method.
OnlyBufferedOpsLost == Up => Survives(sequence - Len(buffer))

\* Whatever stop comes next takes no more than the buffer from a running engine;
\* from one that is down, nothing that Restore would serve.
Guarded ==
  IF Up THEN Survives(sequence - Len(buffer))
        ELSE \A m \in 0..Len(hist) : Covers(aof, snap.seq, m) => Survives(m)

\* The process stops on its own, before a Close has succeeded.
StopsUnclosed == Up /\ ~closed /\ ~Up' /\ UNCHANGED files

\* Only one thing makes a power loss take more than the buffer: the process
\* stopped without a successful Close, killed or after a Close that failed, and
\* left files whose last lines were not all synced (persistence.go:21; storage.go:47;
\* main.go:72-80).  After a successful Close even a kill in a late Snapshot does
\* no harm, and the next save that has something to write ends the danger.
GuardKept ==
  [][Guarded \/ safe' # safe => Guarded' \/ StopsUnclosed]_vars

\* Left to the background flush, every operation ends up saved.
EventuallySaved == \A n \in 1..MaxSeq : sequence >= n ~> safe >= n

----------------------------------------------------------------------------
(* The promise to users: the engine implements DurableMap.                 *)

Promised == INSTANCE DurableMap WITH
  history <- hist,
  safe    <- safe,
  serving <- Up,
  clock   <- now,
  view    <- IF Up THEN Live(state, now) ELSE EmptyState

ImplementsDurableMap == Promised!DSpec
============================================================================
