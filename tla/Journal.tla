------------------------------ MODULE Journal ------------------------------
(***************************************************************************)
(* The data of the engine and of its two files: entries with an expiry     *)
(* date, journal lines, the append-only file (AOF) and the snapshot.  No    *)
(* state here, only the values that Engine.tla moves around.               *)
(*   internal/engine/types.go, internal/storage/types.go, storage.go       *)
(***************************************************************************)
EXTENDS Integers, Sequences

CONSTANTS
  Keys,      \* the keys clients use
  Values,    \* the values they store; text or number makes no difference here
  NoValue,   \* stands for an absent value
  MaxStamp   \* the last date an int64 of nanoseconds can hold

ASSUME JournalAssumption ==
  /\ NoValue \notin Values
  /\ NoValue \notin Keys
  /\ MaxStamp \in Nat \ {0}

----------------------------------------------------------------------------
(* Entries and maps of entries.                                            *)

\* exp = 0 is Go's zero time: the entry never expires.
Entry == [val : Values, exp : 0..MaxStamp]

\* What a key without entry holds; also the entry field of a DELETE line.
NoEntry == [val |-> NoValue, exp |-> 0]

States == [Keys -> Entry \cup {NoEntry}]

EmptyState == [k \in Keys |-> NoEntry]

Expired(e, t) == e.exp # 0 /\ e.exp <= t

\* The entries of s that a reader can still obtain at time t.
Live(s, t) == [k \in Keys |-> IF Expired(s[k], t) THEN NoEntry ELSE s[k]]

\* No reader can tell s1 from s2 at time t or later.
Agree(s1, s2, t) == Live(s1, t) = Live(s2, t)

\* The expiry date after UnixNano and time.Unix: it wraps past the last date,
\* and a stamp of 0 is read back as "never".
Stored(e) == [e EXCEPT !.exp = @ % (MaxStamp + 1)]

----------------------------------------------------------------------------
(* Journal lines and files.                                                *)

Op == [seq : Nat \ {0}, key : Keys, entry : Entry \cup {NoEntry}]

\* A complete line that json.Unmarshal refuses: the end of a torn line glued
\* to the next one.
Corrupt == [seq |-> 0, key |-> NoValue, entry |-> NoEntry]

\* Faulty variant of ApplyOp: DELETE lines are skipped.
ApplySetsOnly(s, op) ==
  IF op.entry = NoEntry THEN s ELSE [s EXCEPT ![op.key] = op.entry]

ApplyOp(s, op) == [s EXCEPT ![op.key] = op.entry]

\* torn: bytes of an unfinished line follow the last newline.
File == [ops : Seq(Op \cup {Corrupt}), torn : BOOLEAN]

EmptyFile == [ops |-> << >>, torn |-> FALSE]

\* File c after the first k lines of batch are written at its end, followed
\* by a part of the next line if t.  A torn tail swallows the first line.
Extend(c, batch, k, t) ==
  [ops  |-> c.ops \o [i \in 1..k |-> IF i = 1 /\ c.torn THEN Corrupt
                                                       ELSE batch[i]],
   torn |-> t \/ (c.torn /\ k = 0)]

\* Everything that may be on the disk while that write is not yet synced.
Portions(c, batch, k, t) ==
  {Extend(c, batch, w[1], w[2]) :
     w \in {w \in (0..k) \X BOOLEAN : w[1] = k /\ w[2] => t}}

\* Faulty variant of Trimmed: the unfinished line stays in the file.
Untrimmed(c) == c

Trimmed(c) == [c EXCEPT !.torn = FALSE]

Snapshots == [seq : Nat, entries : States]

NoSnapshot == [seq |-> 0, entries |-> EmptyState]

----------------------------------------------------------------------------
(* Which operations a file holds.                                          *)

Lines(c) == 1..Len(c.ops)

Readable(c) == \A i \in Lines(c) : c.ops[i] # Corrupt

\* c holds every operation after lo up to hi.
Covers(c, lo, hi) == \A m \in (lo + 1)..hi : \E i \in Lines(c) : c.ops[i].seq = m

\* Replaying c on top of operation lo never meets a missing operation.
Gapless(c, lo) ==
  \A i \in Lines(c) :
    \/ c.ops[i].seq <= lo + 1
    \/ \E j \in 1..(i - 1) : c.ops[j].seq = c.ops[i].seq - 1
============================================================================
