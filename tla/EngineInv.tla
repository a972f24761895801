----------------------------- MODULE EngineInv ------------------------------
(***************************************************************************)
(* Why restarts work: the inductive invariants behind the properties of    *)
(* Engine.tla.  IInv is for engines whose undos of failed appends succeed:  *)
(* it speaks of all the images a power loss may leave, not only of the      *)
(* files as they show.  KillInv is for engines whose undos may fail while   *)
(* the power stays on.                                                      *)
(***************************************************************************)
EXTENDS Engine

Images == aofNew \cup aofOld

\* The line says what operation l.seq did to the map.
LineTrue(l) ==
  /\ l \in Op
  /\ l.seq <= Len(hist)
  /\ hist[l.seq] = ApplyOp(At(l.seq - 1), l)

\* Nothing in a file or in the buffer is invented.
AllTrue ==
  /\ \A c \in Images : \A i \in Lines(c) : LineTrue(c.ops[i])
  /\ \A i \in 1..Len(buffer) : LineTrue(buffer[i])
  /\ \A s \in snapAlts : s.seq <= Len(hist) /\ Agree(s.entries, At(s.seq), now)

\* The files as they show are among the images, and are the most advanced:
\* no image holds an operation beyond them, so a restart from the files that
\* show never leaves behind an image with a future of its own.
FilesLead ==
  /\ aof \in aofNew /\ snap \in snapAlts
  /\ pc \in {"sync", "repair"} => mark \in aofNew
  /\ \A s \in snapAlts : s.seq <= snap.seq
  /\ \A c \in aofOld : \A i \in Lines(c) : c.ops[i].seq <= snap.seq
  /\ \A c \in aofNew : \A i \in Lines(c) :
       \/ c.ops[i].seq <= snap.seq
       \/ \E j \in Lines(aof) : c.ops[i].seq <= aof.ops[j].seq

\* Lines are only appended after a newline.
WholeLines ==
  /\ pc \notin {"down", "repair"} => ~aof.torn
  /\ pc \in {"sync", "repair"} => ~mark.torn

\* Any AOF image replays on any snapshot image, at least up to safe.
AnyPairRestores ==
  \A c \in Images, s \in snapAlts : Gapless(c, s.seq) /\ Covers(c, s.seq, safe)

\* The AOF leads from each snapshot image to each later one.
SnapshotsLinked == \A s, t \in snapAlts : Covers(aof, s.seq, t.seq)

Safe == safe <= Len(hist)

\* The loop of Restore has applied a prefix of the file.
Replaying ==
  pc = "replay" =>
    /\ sequence \in snap.seq..Len(hist)
    /\ Agree(state, At(sequence), now)
    /\ Covers(aof, snap.seq, sequence)
    /\ \A j \in Lines(aof) : j < cursor => aof.ops[j].seq <= sequence

\* The running engine: the buffer is the tail of the history, the files hold
\* all that precedes it.
Running ==
  IF Up
  THEN /\ Len(hist) = sequence
       /\ Agree(state, At(sequence), now)
       /\ Len(buffer) <= sequence
       /\ \A i \in 1..Len(buffer) : buffer[i].seq = sequence - Len(buffer) + i
       /\ \A s \in snapAlts : /\ s.seq <= sequence - Len(buffer)
                              /\ Covers(aof, s.seq, sequence - Len(buffer))
  ELSE buffer = << >>

\* Where a save stands.
Saving ==
  /\ pc \in {"sync", "repair"} =>
       \A s \in snapAlts : Covers(mark, s.seq, sequence - Len(buffer))
  /\ pc \in {"sync", "syncdir"} => \A s \in snapAlts : Covers(aof, s.seq, sequence)
  /\ pc = "syncdir" => aofNew = {aof}
  /\ pc \in {"snapshot", "snapdir", "clear", "cleardir"} => buffer = << >>
  /\ pc \in {"snapdir", "clear", "cleardir"} => snap.seq = sequence
  /\ pc \in {"clear", "cleardir"} => snapAlts = {snap} 

IInv ==
  /\ TypeOK /\ AllTrue /\ FilesLead /\ WholeLines /\ AnyPairRestores
  /\ SnapshotsLinked /\ Safe /\ Replaying /\ Running /\ Saving

----------------------------------------------------------------------------
(* What a power loss can take.                                             *)

\* A closed engine takes no more operations; only a late Snapshot still runs.
Closing ==
  closed => /\ pc \in {"idle", "snapshot", "snapdir", "clear", "cleardir"}
            /\ buffer = << >>

DurableInv == IInv /\ Closing

----------------------------------------------------------------------------
(* When undoing a failed append may fail too: the file keeps lines twice, or *)
(* a torn tail that the next append glues to its first line.  No power is    *)
(* lost, so only the files that show count.                                  *)

\* Apart from glued lines, no file that a start may read invents anything.
ShownTrue ==
  /\ \A c \in {aof} \cup (IF pc \in {"sync", "repair"} THEN {mark} ELSE {}) :
       \A i \in Lines(c) : c.ops[i] = Corrupt \/ LineTrue(c.ops[i])
  /\ \A i \in 1..Len(buffer) : LineTrue(buffer[i])
  /\ snap.seq <= Len(hist) /\ Agree(snap.entries, At(snap.seq), now)

\* A file that a start accepts leads from the snapshot to operation n.  One with
\* a glued line stops every start, until a compaction replaces it.
Reaches(c, n) == Readable(c) => Covers(c, snap.seq, n)

\* A start has refused the file by now if it must.
Reading ==
  /\ Replaying
  /\ pc = "replay" => Readable(aof)

\* The running engine, then the engine that is down or starting.
Working ==
  IF Up
  THEN /\ Len(hist) = sequence
       /\ Agree(state, At(sequence), now)
       /\ Len(buffer) <= sequence
       /\ \A i \in 1..Len(buffer) : buffer[i].seq = sequence - Len(buffer) + i
       /\ safe <= sequence - Len(buffer)
       /\ Reaches(aof, sequence - Len(buffer))
  ELSE buffer = << >> /\ Reaches(aof, safe)

\* Where a save stands.
Appending ==
  /\ pc \in {"sync", "repair"} => Reaches(mark, sequence - Len(buffer))
  /\ pc \in {"sync", "syncdir"} => Reaches(aof, sequence)
  /\ pc \in {"snapshot", "snapdir", "clear", "cleardir"} => buffer = << >>
  /\ pc \in {"snapdir", "clear", "cleardir"} => snap.seq = sequence

KillInv == TypeOK /\ Safe /\ ShownTrue /\ Reading /\ Working /\ Appending

----------------------------------------------------------------------------
(* What IInv and KillInv have in common, enough for those who use the engine. *)

Sound ==
  /\ TypeOK /\ Safe
  /\ Up => Len(hist) = sequence /\ Agree(state, At(sequence), now)
  /\ pc = "replay" /\ cursor \notin Lines(aof) => sequence \in safe..Len(hist)
============================================================================
