---------------------------- MODULE EngineProofs ----------------------------
(***************************************************************************)
(* IInv is an invariant of Engine.tla when undoing a failed append never    *)
(* fails, KillInv when the power never does, whatever the keys, the values, *)
(* the bounds and the other faults.                                         *)
(* First come lemmas about the values of Journal.tla, then the types; for   *)
(* the rest of IInv each action has its lemma, then its theorems; last come  *)
(* what a power loss spares and the refinement.                              *)
(***************************************************************************)
EXTENDS EngineInv, SequenceTheorems, TLAPS

----------------------------------------------------------------------------
(* The values of Journal.tla: dates, maps of entries, files.               *)

\* A date that fits in the journal comes back unchanged from it.
LEMMA StoredIdentity ==
  ASSUME NEW e \in Entry \cup {NoEntry}
  PROVE  Stored(e) = e
<1>1. MaxStamp \in Nat /\ e.exp \in 0..MaxStamp
  BY JournalAssumption DEF Entry, NoEntry
<1>2. e.exp % (MaxStamp + 1) = e.exp
  BY <1>1
<1>3. [e EXCEPT !.exp = e.exp] = e
  BY DEF Entry, NoEntry
<1> QED BY <1>2, <1>3 DEF Stored

\* A map without its expired entries is a map.
LEMMA LiveType ==
  ASSUME NEW s \in States, NEW t \in Nat
  PROVE  Live(s, t) \in States
BY DEF Live, States

\* Dropping what has expired shows to no reader.
LEMMA LiveAgrees ==
  ASSUME NEW s \in States, NEW t \in Nat
  PROVE  Agree(Live(s, t), s, t)
<1>1. ~Expired(NoEntry, t)
  BY DEF Expired, NoEntry
<1>2. ASSUME NEW k \in Keys
      PROVE  Live(Live(s, t), t)[k] = Live(s, t)[k]
  BY <1>1 DEF Live
<1> QED BY <1>2 DEF Agree, Live

\* What readers cannot tell apart now, they never will.
LEMMA AgreeLater ==
  ASSUME NEW s1 \in States, NEW s2 \in States, NEW t \in Nat, NEW u \in Nat,
         t <= u, Agree(s1, s2, t)
  PROVE  Agree(s1, s2, u)
<1>1. ASSUME NEW k \in Keys
      PROVE  Live(s1, u)[k] = Live(s2, u)[k]
  <2>1. Live(s1, t)[k] = Live(s2, t)[k]
    BY DEF Agree
  <2>2. /\ s1[k].exp \in Nat /\ s2[k].exp \in Nat
        /\ NoEntry.exp = 0
    BY JournalAssumption DEF States, Entry, NoEntry
  <2>3. /\ Expired(s1[k], t) => Expired(s1[k], u)
        /\ Expired(s2[k], t) => Expired(s2[k], u)
    BY <2>2 DEF Expired
  <2> QED BY <2>1, <2>2, <2>3 DEF Live, Expired
<1> QED BY <1>1 DEF Agree, Live

\* One more operation on both sides changes nothing to that.
LEMMA ApplyAgrees ==
  ASSUME NEW s1 \in States, NEW s2 \in States, NEW t \in Nat, NEW op \in Op,
         Agree(s1, s2, t)
  PROVE  /\ ApplyOp(s1, op) \in States
         /\ Agree(ApplyOp(s1, op), ApplyOp(s2, op), t)
<1>1. op.key \in Keys /\ op.entry \in Entry \cup {NoEntry}
  BY DEF Op
<1>2. ApplyOp(s1, op) \in States /\ ApplyOp(s2, op) \in States
  BY <1>1 DEF ApplyOp, States
<1>3. ASSUME NEW k \in Keys
      PROVE  Live(ApplyOp(s1, op), t)[k] = Live(ApplyOp(s2, op), t)[k]
  <2>1. Live(s1, t)[k] = Live(s2, t)[k]
    BY DEF Agree
  <2> QED BY <1>1, <2>1 DEF ApplyOp, Live, States
<1> QED BY <1>2, <1>3 DEF Agree, Live

\* Appending to a file that ends with a newline.
LEMMA ExtendWhole ==
  ASSUME NEW c \in File, ~c.torn, NEW batch \in Seq(Op),
         NEW k \in 0..Len(batch), NEW t \in BOOLEAN
  PROVE  /\ Extend(c, batch, k, t) \in File
         /\ Extend(c, batch, k, t).torn = t
         /\ Len(Extend(c, batch, k, t).ops) = Len(c.ops) + k
         /\ \A i \in 1..Len(c.ops) : Extend(c, batch, k, t).ops[i] = c.ops[i]
         /\ \A i \in 1..k : Extend(c, batch, k, t).ops[Len(c.ops) + i] = batch[i]
<1> DEFINE d == Extend(c, batch, k, t)
           more == [i \in 1..k |-> batch[i]]
<1>1. d.ops = c.ops \o more /\ d.torn = t
  BY DEF Extend, File
<1>2. more \in Seq(Op) /\ Len(more) = k
  OBVIOUS
<1>3. c.ops \in Seq(Op \cup {Corrupt}) /\ more \in Seq(Op \cup {Corrupt})
  BY <1>2 DEF File
<1>4. c.ops \o more \in Seq(Op \cup {Corrupt})
  BY <1>3
<1>5. d \in File
  BY <1>1, <1>4 DEF Extend, File
<1>6. /\ Len(c.ops \o more) = Len(c.ops) + k
      /\ \A i \in 1..Len(c.ops) : (c.ops \o more)[i] = c.ops[i]
      /\ \A i \in 1..k : (c.ops \o more)[Len(c.ops) + i] = more[i]
  BY <1>2, <1>3
<1> HIDE DEF more
<1>7. \A i \in 1..k : more[i] = batch[i]
  BY DEF more
<1> QED BY <1>1, <1>5, <1>6, <1>7

\* What may be on the disk during a write is such an extension.
LEMMA PortionsExtend ==
  ASSUME NEW c, NEW batch, NEW k \in Nat, NEW t \in BOOLEAN,
         NEW p \in Portions(c, batch, k, t)
  PROVE  \E j \in 0..k, u \in BOOLEAN : p = Extend(c, batch, j, u)
BY DEF Portions

\* The whole write is one of the possibilities.
LEMMA WholePortion ==
  ASSUME NEW c, NEW batch, NEW k \in Nat, NEW t \in BOOLEAN
  PROVE  Extend(c, batch, k, t) \in Portions(c, batch, k, t)
<1>1. <<k, t>> \in {w \in (0..k) \X BOOLEAN : w[1] = k /\ w[2] => t}
  OBVIOUS
<1> QED BY <1>1 DEF Portions

\* Appending to any file: a torn tail spoils the first line added, no other.
LEMMA ExtendLines ==
  ASSUME NEW c \in File, NEW batch \in Seq(Op), NEW k \in 0..Len(batch), NEW t \in BOOLEAN
  PROVE  /\ Len(Extend(c, batch, k, t).ops) = Len(c.ops) + k
         /\ \A i \in 1..Len(c.ops) : Extend(c, batch, k, t).ops[i] = c.ops[i]
         /\ \A i \in 1..k : Extend(c, batch, k, t).ops[Len(c.ops) + i]
                              = IF i = 1 /\ c.torn THEN Corrupt ELSE batch[i]
<1> DEFINE d == Extend(c, batch, k, t)
           more == [i \in 1..k |-> IF i = 1 /\ c.torn THEN Corrupt ELSE batch[i]]
<1>1. d.ops = c.ops \o more
  BY DEF Extend, File
<1>2. more \in Seq(Op \cup {Corrupt}) /\ Len(more) = k
  <2>1. k \in Nat /\ \A i \in 1..k : more[i] \in Op \cup {Corrupt}
    OBVIOUS
  <2> QED BY <2>1
<1>3. c.ops \in Seq(Op \cup {Corrupt})
  BY DEF File
<1>4. \A i \in 1..k : more[i] = IF i = 1 /\ c.torn THEN Corrupt ELSE batch[i]
  OBVIOUS
<1> DEFINE old == c.ops
<1> HIDE DEF more, old
<1>5. /\ Len(old \o more) = Len(old) + k
      /\ \A i \in 1..Len(old) : (old \o more)[i] = old[i]
      /\ \A i \in 1..k : (old \o more)[Len(old) + i] = more[i]
  <2>1. old \in Seq(Op \cup {Corrupt})
    BY <1>3 DEF old
  <2>2. /\ Len(old \o more) = Len(old) + Len(more)
        /\ \A i \in 1..(Len(old) + Len(more)) : (old \o more)[i] =
             IF i <= Len(old) THEN old[i] ELSE more[i - Len(old)]
    BY <1>2, <2>1, ConcatProperties
  <2>3. Len(old) \in Nat /\ k \in Nat
    BY <2>1
  <2> QED BY <1>2, <2>2, <2>3
<1> QED BY <1>1, <1>4, <1>5 DEF old

\* A longer file covers at least as much.
LEMMA ExtendCovers ==
  ASSUME NEW c \in File, NEW batch \in Seq(Op), NEW k \in 0..Len(batch), NEW t \in BOOLEAN,
         NEW lo \in Nat, NEW hi \in Nat, Covers(c, lo, hi)
  PROVE  Covers(Extend(c, batch, k, t), lo, hi)
<1> DEFINE d == Extend(c, batch, k, t)
<1>1. /\ Len(d.ops) = Len(c.ops) + k
      /\ \A i \in 1..Len(c.ops) : d.ops[i] = c.ops[i]
  BY ExtendLines
<1>2. Len(c.ops) \in Nat
  BY DEF File
<1> HIDE DEF d
<1>3. \A i \in Lines(c) : i \in Lines(d) /\ d.ops[i] = c.ops[i]
  BY <1>1, <1>2 DEF Lines
<1> QED BY <1>3 DEF Covers, d

\* Appending the lines that follow what is covered covers them too.
LEMMA ExtendReaches ==
  ASSUME NEW c \in File, ~c.torn, NEW batch \in Seq(Op),
         NEW k \in 0..Len(batch), NEW t \in BOOLEAN,
         NEW lo \in Nat, NEW base \in Nat, Covers(c, lo, base),
         \A i \in 1..Len(batch) : batch[i].seq = base + i
  PROVE  Covers(Extend(c, batch, k, t), lo, base + k)
<1> DEFINE d == Extend(c, batch, k, t)
           n == Len(c.ops)
<1>1. /\ Len(d.ops) = n + k
      /\ \A i \in 1..n : d.ops[i] = c.ops[i]
      /\ \A i \in 1..k : d.ops[n + i] = batch[i]
  BY ExtendLines
<1>2. n \in Nat /\ k \in Nat /\ k <= Len(batch) /\ Len(batch) \in Nat
  BY DEF File
<1> HIDE DEF d, n
<1>3. ASSUME NEW m \in (lo + 1)..(base + k)
      PROVE  \E i \in Lines(d) : d.ops[i].seq = m
  <2>1. CASE m <= base
    <3>0. m \in (lo + 1)..base
      BY <1>2, <2>1
    <3>1. PICK i \in Lines(c) : c.ops[i].seq = m
      BY <3>0 DEF Covers
    <3>2. i \in Lines(d) /\ d.ops[i] = c.ops[i]
      BY <3>1, <1>1, <1>2 DEF Lines, n
    <3> QED BY <3>1, <3>2
  <2>2. CASE m > base
    <3>1. m - base \in 1..k /\ m - base \in 1..Len(batch)
      BY <2>2, <1>2
    <3>2. d.ops[n + (m - base)].seq = base + (m - base)
      BY <3>1, <1>1
    <3>3. n + (m - base) \in Lines(d)
      BY <3>1, <1>1, <1>2 DEF Lines
    <3> QED BY <3>2, <3>3
  <2> QED BY <2>1, <2>2
<1> QED BY <1>3 DEF Covers, d

\* Appending numbered lines next to what is covered leaves no gap.
LEMMA ExtendGapless ==
  ASSUME NEW c \in File, ~c.torn, NEW batch \in Seq(Op),
         NEW k \in 0..Len(batch), NEW t \in BOOLEAN,
         NEW lo \in Nat, NEW base \in Nat,
         Gapless(c, lo), Covers(c, lo, base),
         \A i \in 1..Len(batch) : batch[i].seq = base + i
  PROVE  /\ Gapless(Extend(c, batch, k, t), lo)
         /\ Covers(Extend(c, batch, k, t), lo, base + k)
<1> DEFINE d == Extend(c, batch, k, t)
           n == Len(c.ops)
<1>1. /\ Len(d.ops) = n + k
      /\ \A i \in 1..n : d.ops[i] = c.ops[i]
      /\ \A i \in 1..k : d.ops[n + i] = batch[i]
  <2>1. /\ Extend(c, batch, k, t) \in File
        /\ Extend(c, batch, k, t).torn = t
        /\ Len(Extend(c, batch, k, t).ops) = Len(c.ops) + k
        /\ \A i \in 1..Len(c.ops) : Extend(c, batch, k, t).ops[i] = c.ops[i]
        /\ \A i \in 1..k : Extend(c, batch, k, t).ops[Len(c.ops) + i] = batch[i]
    BY ExtendWhole
  <2> QED BY <2>1
<1>2. n \in Nat /\ k \in Nat /\ k <= Len(batch) /\ Len(batch) \in Nat
  BY DEF File
<1> HIDE DEF d, n
<1>3. \A i \in 1..k : d.ops[n + i].seq = base + i
  <2>1. ASSUME NEW i \in 1..k PROVE d.ops[n + i].seq = base + i
    <3>1. i \in 1..Len(batch) /\ d.ops[n + i] = batch[i]
      BY <1>1, <1>2
    <3> QED BY <3>1
  <2> QED BY <2>1
<1>4. ASSUME NEW i \in Lines(d)
      PROVE  \/ d.ops[i].seq <= lo + 1
             \/ \E j \in 1..(i - 1) : d.ops[j].seq = d.ops[i].seq - 1
  <2>1. CASE i <= n
    <3>1. i \in Lines(c) /\ d.ops[i] = c.ops[i]
      BY <1>1, <1>2, <2>1 DEF Lines, n
    <3>2. \A j \in 1..(i - 1) : d.ops[j] = c.ops[j]
      BY <1>1, <1>2, <2>1, <3>1 DEF Lines
    <3> QED BY <3>1, <3>2 DEF Gapless
  <2>2. CASE i = n + 1
    <3>0. 1 \in 1..k
      <4>1. n + 1 <= n + k
        BY <1>1, <2>2 DEF Lines
      <4> QED BY <4>1, <1>2
    <3>1. d.ops[i].seq = base + 1
      BY <3>0, <1>3, <2>2
    <3>2. CASE base <= lo
      BY <3>1, <3>2
    <3>3. CASE base > lo
      <4>1. PICK j \in Lines(c) : c.ops[j].seq = base
        BY <3>3 DEF Covers
      <4>2. j \in 1..(i - 1) /\ d.ops[j] = c.ops[j]
        BY <1>1, <1>2, <2>2, <4>1 DEF Lines, n
      <4> QED BY <3>1, <4>1, <4>2
    <3> QED BY <3>2, <3>3
  <2>3. CASE i > n + 1
    <3>1. i - n \in 1..k /\ (i - 1) - n \in 1..k
      BY <1>1, <1>2, <2>3 DEF Lines
    <3>2. d.ops[n + (i - n)].seq = base + (i - n)
      BY <1>3, <3>1
    <3>3. d.ops[n + ((i - 1) - n)].seq = base + ((i - 1) - n)
      BY <1>3, <3>1
    <3>4. i \in Nat /\ n + (i - n) = i /\ n + ((i - 1) - n) = i - 1
      BY <1>2 DEF Lines
    <3>5. d.ops[i - 1].seq = d.ops[i].seq - 1 /\ i - 1 \in 1..(i - 1)
      BY <3>2, <3>3, <3>4, <1>2, <2>3
    <3> QED BY <3>5
  <2> QED BY <2>1, <2>2, <2>3, <1>2 DEF Lines
<1>5. Covers(d, lo, base + k)
  BY ExtendReaches DEF d
<1> QED BY <1>4, <1>5 DEF Gapless, d

----------------------------------------------------------------------------
(* The types of Engine.tla                                                 *)

LEMMA NothingTypes ==
  /\ NoEntry \in Entry \cup {NoEntry}
  /\ EmptyState \in States /\ EmptyFile \in File /\ NoSnapshot \in Snapshots
  /\ Filed(EmptyState) \in [Keys -> Values \cup {NoValue}]
<1>1. << >> \in Seq(Op \cup {Corrupt})
  OBVIOUS
<1>2. EmptyState \in States
  BY DEF EmptyState, States
<1>3. Filed(EmptyState) \in [Keys -> Values \cup {NoValue}]
  BY DEF Filed, EmptyState, NoEntry
<1> QED BY <1>1, <1>2, <1>3 DEF EmptyFile, File, NoSnapshot, Snapshots

LEMMA FiledType ==
  ASSUME NEW s \in States
  PROVE  Filed(s) \in [Keys -> Values \cup {NoValue}]
BY DEF Filed, States, Entry, NoEntry

LEMMA AtType ==
  ASSUME TypeOK, NEW n \in 0..Len(hist)
  PROVE  At(n) \in States
<1>1. hist \in Seq(States) /\ (n # 0 => n \in 1..Len(hist))
  BY DEF TypeOK
<1>2. n # 0 => hist[n] \in States
  BY <1>1
<1> QED BY <1>2, NothingTypes DEF At

LEMMA InitTypes == Init => TypeOK
<1> SUFFICES ASSUME Init PROVE TypeOK
  OBVIOUS
<1>1. << >> \in Seq(Op) /\ << >> \in Seq(States)
  OBVIOUS
<1>2. /\ state \in States /\ index \in [Keys -> Values \cup {NoValue}]
      /\ mark \in File /\ aof \in File /\ aofNew \subseteq File /\ aofOld \subseteq File
  BY NothingTypes DEF Init
<1>3. snap \in Snapshots /\ snapAlts \subseteq Snapshots
  BY NothingTypes DEF Init
<1>7. closed \in BOOLEAN /\ returned \in BOOLEAN
  BY DEF Init
<1>4. /\ sequence \in Nat
      /\ todo \subseteq Keys /\ cursor \in Nat \ {0} /\ now \in Nat
      /\ safe \in Nat
  BY DEF Init
<1>6. buffer \in Seq(Op) /\ hist \in Seq(States)
  BY <1>1 DEF Init
<1>5. pc \in Points /\ call \in Calls
  BY DEF Init, Points, Calls
<1> QED BY <1>2, <1>3, <1>4, <1>5, <1>6, <1>7 DEF TypeOK

\* Files stay files when lines of the buffer are added to them, whatever their tail.
LEMMA ExtendType ==
  ASSUME NEW c \in File, NEW batch \in Seq(Op), NEW k \in 0..Len(batch),
         NEW t \in BOOLEAN
  PROVE  Extend(c, batch, k, t) \in File
<1> DEFINE more == [i \in 1..k |-> IF i = 1 /\ c.torn THEN Corrupt ELSE batch[i]]
<1>1. \A i \in 1..k : batch[i] \in Op
  OBVIOUS
<1>2. k \in Nat
  OBVIOUS
<1>3. \A i \in 1..k : more[i] \in Op \cup {Corrupt}
  BY <1>1
<1>4. more \in Seq(Op \cup {Corrupt})
  BY <1>2, <1>3
<1>5. c.ops \in Seq(Op \cup {Corrupt}) /\ c.torn \in BOOLEAN
  BY DEF File
<1>6. c.ops \o more \in Seq(Op \cup {Corrupt})
  BY <1>4, <1>5
<1> QED BY <1>5, <1>6 DEF Extend, File

\* A recorded operation has its types, ghost included.
LEMMA RecordTypes ==
  ASSUME TypeOK,
         NEW k \in Keys, NEW e \in Entry \cup {NoEntry},
         At(sequence) \in States, Record(k, e)
  PROVE  /\ state' \in States /\ index' \in [Keys -> Values \cup {NoValue}]
         /\ sequence' \in Nat /\ buffer' \in Seq(Op) /\ hist' \in Seq(States)
<1>1. /\ state \in States /\ index \in [Keys -> Values \cup {NoValue}]
      /\ sequence \in Nat /\ buffer \in Seq(Op) /\ hist \in Seq(States)
  BY DEF TypeOK
<1>2. Stored(e) = e
  BY StoredIdentity
<1>3. [seq |-> sequence + 1, key |-> k, entry |-> e] \in Op
  BY <1>1 DEF Op
<1>4. e.val \in Values \cup {NoValue}
  BY DEF Entry, NoEntry
<1>5. [At(sequence) EXCEPT ![k] = e] \in States
  BY DEF States
<1>6. state' \in States
  BY <1>1 DEF Record, States
<1>7. index' \in [Keys -> Values \cup {NoValue}]
  BY <1>1, <1>4 DEF Record
<1>8. buffer' \in Seq(Op)
  BY <1>1, <1>2, <1>3 DEF Record
<1>9. hist' \in Seq(States)
  BY <1>1, <1>5 DEF Record
<1> QED BY <1>1, <1>6, <1>7, <1>8, <1>9 DEF Record

\* The current map of the history has its type while the engine is up.
LEMMA AtSequence ==
  ASSUME TypeOK, Len(hist) = sequence
  PROVE  At(sequence) \in States
<1>1. sequence \in 0..Len(hist)
  BY DEF TypeOK
<1> QED BY <1>1, AtType

LEMMA StartTypes ==
  ASSUME TypeOK, Replaying, Start
  PROVE  TypeOK'
<1> USE DEF TypeOK, Points, Calls
<1>1. CASE LoadFiles
  <2>1. aof' \in File
    BY <1>1 DEF LoadFiles, Trimmed, File
  <2>2. state' \in States /\ sequence' \in Nat
    BY <1>1 DEF LoadFiles, Snapshots
  <2> QED BY <1>1, <2>1, <2>2 DEF LoadFiles, ghost
<1>2. CASE LoadFails
  <2>1. aof' \in File
    BY <1>2 DEF LoadFails, Trimmed, File
  <2> QED BY <1>2, <2>1 DEF LoadFails, ghost, mem, ctl
<1>3. CASE ReplayLine
  <2>1. PICK op : op = aof.ops[cursor]
    OBVIOUS
  <2>2. /\ pc = "replay" /\ cursor \in Lines(aof) /\ cursor' = cursor + 1
        /\ \/ UNCHANGED <<state, sequence>>
           \/ /\ op.seq = sequence + 1 /\ sequence' = op.seq
              /\ state' = ApplyOp(state, op)
    BY <1>3, <2>1 DEF ReplayLine
  <2>3. op \in Op \cup {Corrupt}
    BY <2>1, <2>2 DEF Lines, File
  <2>4. op.seq = sequence + 1 => op \in Op
    BY <2>3 DEF Corrupt
  <2>5. state' \in States /\ sequence' \in Nat
    BY <2>2, <2>4 DEF ApplyOp, States, Op
  <2> QED BY <1>3, <2>2, <2>5 DEF ReplayLine, files, ghost
<1>4. CASE FinishRestore
  <2>1. state' \in States
    BY <1>4, LiveType DEF FinishRestore
  <2>2. index' \in [Keys -> Values \cup {NoValue}]
    BY <1>4, <2>1, FiledType DEF FinishRestore
  <2>3. sequence \in 0..Len(hist)
    BY <1>4 DEF FinishRestore, Replaying, Snapshots
  <2>4. hist' \in Seq(States)
    BY <1>4, <2>3 DEF FinishRestore
  <2> QED BY <1>4, <2>1, <2>2, <2>4 DEF FinishRestore, files
<1> QED BY <1>1, <1>2, <1>3, <1>4 DEF Start

\* A SET records an entry whose date the journal can hold.
LEMMA SetRecords ==
  ASSUME TypeOK, NEW k \in Keys, NEW v \in Values, NEW ttl \in TTLs, Set(k, v, ttl)
  PROVE  \E e \in Entry \cup {NoEntry} :
           /\ Record(k, e) /\ pc = "idle"
           /\ UNCHANGED <<closed, returned, ctl, now, files, safe>>
<1>1. PICK e : e = [val |-> v, exp |-> Deadline(ttl)]
  OBVIOUS
<1>2. /\ Stored(e) = e /\ Record(k, e) /\ pc = "idle"
      /\ UNCHANGED <<closed, returned, ctl, now, files, safe>>
  BY <1>1 DEF Set
<1>3. Deadline(ttl) \in Nat
  BY EngineAssumption DEF Deadline, TypeOK
<1>4. Deadline(ttl) \in 0..MaxStamp
  <2>1. Stored(e).exp = Deadline(ttl) % (MaxStamp + 1) /\ e.exp = Deadline(ttl)
    BY <1>1 DEF Stored
  <2>2. Deadline(ttl) = Deadline(ttl) % (MaxStamp + 1)
    BY <1>2, <2>1
  <2> QED BY <1>3, <2>2, JournalAssumption
<1>5. e \in Entry \cup {NoEntry}
  BY <1>1, <1>4 DEF Entry
<1> QED BY <1>2, <1>5

LEMMA CommandTypes ==
  ASSUME TypeOK, Up => Len(hist) = sequence, Command
  PROVE  TypeOK'
<1> USE DEF TypeOK, Points, Calls
<1>1. ASSUME NEW k \in Keys, NEW e \in Entry \cup {NoEntry}, Record(k, e), Up,
             UNCHANGED <<closed, returned, call, cursor, mark, now, files, safe>>,
             pc' \in Points, todo' \subseteq Keys
      PROVE  TypeOK'
  <2>1. /\ state' \in States /\ index' \in [Keys -> Values \cup {NoValue}]
        /\ sequence' \in Nat /\ buffer' \in Seq(Op) /\ hist' \in Seq(States)
    BY <1>1, AtSequence, RecordTypes
  <2> QED BY <1>1, <2>1 DEF files
<1>2. ASSUME NEW k \in Keys, NEW v \in Values, NEW ttl \in TTLs, Set(k, v, ttl)
      PROVE  TypeOK'
  <2>1. PICK e \in Entry \cup {NoEntry} : /\ Record(k, e) /\ pc = "idle"
                                          /\ UNCHANGED <<closed, returned, ctl, now, files, safe>>
    BY <1>2, SetRecords
  <2> QED BY <1>1, <2>1 DEF ctl, Up
<1>3. ASSUME NEW k \in Keys, Delete(k) \/ GetExpired(k)
      PROVE  TypeOK'
  BY <1>1, <1>3, NothingTypes DEF Delete, GetExpired, ctl, Up
<1>4. ASSUME NEW k \in Keys, Evict(k)
      PROVE  TypeOK'
  BY <1>1, <1>4, NothingTypes DEF Evict, Up
<1>5. ASSUME NEW ks \in SUBSET Keys, Collect(ks)
      PROVE  TypeOK'
  BY <1>5 DEF Collect, mem, files, ghost
<1> QED BY <1>2, <1>3, <1>4, <1>5 DEF Command, SweepExpired, GetWhere

LEMMA SaveTypes ==
  ASSUME TypeOK,
         Flush \/ Snapshot \/ Close \/ AppendSteps \/ Compact \/ DiskCallFails
  PROVE  TypeOK'
<1>0. Answered => returned' \in BOOLEAN
  BY DEF Answered
<1> USE DEF TypeOK, Points, Calls
<1>1. ASSUME NEW method \in Calls, BeginAppend(method) PROVE TypeOK'
  BY <1>1 DEF BeginAppend, mem, files, ghost
<1>2. CASE Flush
  BY <1>1, <1>2 DEF Flush
<1>3. CASE Snapshot
  <2>1. CASE BeginAppend("snapshot")
    BY <1>1, <2>1
  <2>2. CASE ~BeginAppend("snapshot")
    BY <1>3, <2>2 DEF Snapshot, mem, files, ghost
  <2> QED BY <2>1, <2>2
<1>4. CASE Close
  <2>1. CASE BeginAppend("close")
    BY <1>1, <2>1
  <2>2. CASE ~BeginAppend("close")
    BY <1>4, <2>2 DEF Close, ctl, files, ghost
  <2> QED BY <2>1, <2>2
<1>5. ASSUME NEW k \in 0..Len(buffer), NEW t \in BOOLEAN, WriteLines(k, t)
      PROVE  TypeOK'
  <2>1. aof' \in File
    BY <1>5, ExtendType DEF WriteLines
  <2>2. ASSUME NEW p \in Portions(aof, buffer, k, t)
        PROVE  p \in File
    <3>1. PICK j \in 0..k, u \in BOOLEAN : p = Extend(aof, buffer, j, u)
      BY PortionsExtend
    <3>2. j \in 0..Len(buffer)
      OBVIOUS
    <3> QED BY <3>1, <3>2, ExtendType
  <2>3. aofNew' \subseteq File
    BY <1>5, <2>2 DEF WriteLines
  <2> QED BY <1>5, <2>1, <2>3 DEF WriteLines, mem, ghost
<1>6. CASE SyncOk
  BY <1>6, NothingTypes DEF SyncOk, mem, ghost
<1>7. CASE SyncFails
  BY <1>7 DEF SyncFails, mem, files, ghost
<1>8. CASE Repair
  BY <1>0, <1>8, NothingTypes DEF Repair, mem, ghost
<1>9. CASE RepairFails
  BY <1>0, <1>9, NothingTypes DEF RepairFails, mem, ghost
<1>10. CASE AppendOk
  <2>1. << >> \in Seq(Op)
    OBVIOUS
  <2>2. closed' \in BOOLEAN
    BY <1>10 DEF AppendOk
  <2> QED BY <1>0, <1>10, <2>1, <2>2 DEF AppendOk
<1>11. CASE RenameSnapshot
  <2>1. Live(state, now) \in States
    BY LiveType
  <2>2. \A k \in Keys : Stored(Live(state, now)[k]) = Live(state, now)[k]
    BY <2>1, StoredIdentity DEF States
  <2>3. snap'.entries \in States /\ snap' \in Snapshots
    BY <1>11, <2>1, <2>2 DEF RenameSnapshot, States, Snapshots
  <2> QED BY <1>11, <2>3 DEF RenameSnapshot, mem, ghost
<1>12. CASE SnapshotDirOk
  BY <1>12 DEF SnapshotDirOk, mem
<1>13. CASE ClearAOF
  BY <1>13, NothingTypes DEF ClearAOF, mem, ghost
<1>14. CASE ClearDirOk
  BY <1>14 DEF ClearDirOk, mem, ghost
<1>15. CASE DiskCallFails
  BY <1>0, <1>15 DEF DiskCallFails, files, ghost
<1> QED BY <1>2, <1>3, <1>4, <1>5, <1>6, <1>7, <1>8, <1>9, <1>10, <1>11, <1>12,
           <1>13, <1>14, <1>15 DEF AppendSteps, Compact

LEMMA StopTypes ==
  ASSUME TypeOK, Exit \/ Kill \/ PowerLoss \/ Tick
  PROVE  TypeOK'
<1> USE DEF TypeOK, Points, Calls
<1>0. << >> \in Seq(Op)
  OBVIOUS
<1>4. ASSUME Forget
      PROVE  /\ state' \in States /\ index' \in [Keys -> Values \cup {NoValue}]
             /\ buffer' \in Seq(Op) /\ sequence' \in Nat
             /\ closed' \in BOOLEAN /\ returned' \in BOOLEAN
             /\ pc' \in Points /\ call' \in Calls
             /\ todo' \subseteq Keys /\ cursor' \in Nat \ {0} /\ mark' \in File
             /\ now' \in Nat /\ hist' \in Seq(States) /\ safe' \in Nat
  <2>1. closed' \in BOOLEAN /\ returned' \in BOOLEAN
    BY <1>4 DEF Forget
  <2>2. /\ state' \in States /\ index' \in [Keys -> Values \cup {NoValue}]
        /\ buffer' \in Seq(Op) /\ mark' \in File
    BY <1>0, <1>4, NothingTypes DEF Forget
  <2>3. /\ sequence' \in Nat /\ pc' \in Points /\ call' \in Calls
        /\ todo' \subseteq Keys /\ cursor' \in Nat \ {0}
        /\ now' \in Nat /\ hist' \in Seq(States) /\ safe' \in Nat
    BY <1>4 DEF Forget, ghost
  <2> QED BY <2>1, <2>2, <2>3
<1>1. CASE Exit \/ Kill
  BY <1>1, <1>4 DEF Exit, Kill, files
<1>2. CASE PowerLoss
  <2>1. PICK c \in aofNew \cup aofOld, s \in snapAlts :
          /\ aof' = c /\ aofNew' = {c}
          /\ aofOld' = IF c = EmptyFile THEN {EmptyFile} ELSE {}
          /\ snap' = s /\ snapAlts' = {s}
    BY <1>2 DEF PowerLoss
  <2>2. c \in File /\ s \in Snapshots /\ EmptyFile \in File
    BY NothingTypes
  <2>3. /\ aof' \in File /\ aofNew' \subseteq File /\ aofOld' \subseteq File
        /\ snap' \in Snapshots /\ snapAlts' \subseteq Snapshots
    <3> HIDE DEF TypeOK
    <3> QED BY <2>1, <2>2
  <2> QED BY <1>2, <1>4, <2>3 DEF PowerLoss
<1>3. CASE Tick
  BY <1>3 DEF Tick, mem, ctl, files, ghost
<1> QED BY <1>1, <1>2, <1>3

\* Each step keeps the types, while the history is as long as it says.
LEMMA NextTypes ==
  ASSUME TypeOK, Replaying, Up => Len(hist) = sequence, [Next]_vars
  PROVE  TypeOK'
<1>1. TypeOK /\ Replaying /\ (Up => Len(hist) = sequence)
  OBVIOUS
<1>2. CASE Next
  BY <1>1, <1>2, StartTypes, CommandTypes, SaveTypes, StopTypes DEF Next
<1>3. CASE UNCHANGED vars
  BY <1>1, <1>3 DEF vars, mem, ctl, files, ghost, TypeOK
<1> QED BY <1>2, <1>3

----------------------------------------------------------------------------
(* The invariant                                                           *)

\* The invariant but for the types, which the lemmas above keep.
Rest ==
  /\ AllTrue /\ FilesLead /\ WholeLines /\ AnyPairRestores
  /\ SnapshotsLinked /\ Safe /\ Replaying /\ Running /\ Saving

----------------------------------------------------------------------------
(* Files with the same lines, and histories with a common start.           *)

\* What a file covers depends on its lines only.
LEMMA SameLines ==
  ASSUME NEW c, NEW d, c.ops = d.ops
  PROVE  /\ Lines(c) = Lines(d)
         /\ \A lo, hi : Covers(c, lo, hi) <=> Covers(d, lo, hi)
         /\ \A lo : Gapless(c, lo) <=> Gapless(d, lo)
BY DEF Lines, Covers, Gapless

\* A file without unfinished line has nothing to trim.
LEMMA TrimWhole ==
  ASSUME NEW c \in File
  PROVE  /\ Trimmed(c).ops = c.ops /\ Trimmed(c).torn = FALSE
         /\ Trimmed(c) \in File
         /\ ~c.torn => Trimmed(c) = c
BY DEF Trimmed, File

\* A line remains true as long as the history keeps its operation.
LEMMA LineKept ==
  ASSUME TypeOK, NEW n \in 0..Len(hist), n <= Len(hist'), TypeOK',
         \A i \in 1..n : hist'[i] = hist[i],
         NEW l, LineTrue(l), l.seq <= n
  PROVE  LineTrue(l)'
<1>1. l \in Op /\ l.seq \in 1..n
  BY DEF LineTrue, Op
<1>2. hist'[l.seq] = hist[l.seq]
  BY <1>1
<1>3. At(l.seq - 1)' = At(l.seq - 1)
  <2>1. CASE l.seq = 1
    BY <2>1 DEF At
  <2>2. CASE l.seq # 1
    <3>1. l.seq - 1 \in 1..n
      BY <1>1, <2>2
    <3> QED BY <3>1 DEF At
  <2> QED BY <2>1, <2>2
<1>4. Len(hist') \in Nat
  BY DEF TypeOK
<1>5. l.seq <= Len(hist')
  BY <1>1, <1>4
<1> QED BY <1>1, <1>2, <1>3, <1>5 DEF LineTrue

\* So do the maps before it.
LEMMA AtKept ==
  ASSUME TypeOK, NEW n \in 0..Len(hist),
         \A i \in 1..n : hist'[i] = hist[i], NEW m \in 0..n
  PROVE  At(m)' = At(m)
<1>1. CASE m = 0
  BY <1>1 DEF At
<1>2. CASE m # 0
  <2>1. m \in 1..n
    BY <1>2
  <2> QED BY <2>1 DEF At
<1> QED BY <1>1, <1>2

\* All lines of the images and of the buffer belong to the history.
LEMMA LineBounds ==
  ASSUME TypeOK, AllTrue
  PROVE  /\ \A c \in Images : \A i \in Lines(c) :
              c.ops[i] \in Op /\ c.ops[i].seq \in 1..Len(hist)
         /\ \A i \in 1..Len(buffer) : buffer[i].seq \in 1..Len(hist)
<1>1. ASSUME NEW l, LineTrue(l) PROVE l \in Op /\ l.seq \in 1..Len(hist)
  <2>1. l \in Op /\ l.seq \in Nat \ {0} /\ l.seq <= Len(hist) /\ Len(hist) \in Nat
    BY <1>1 DEF LineTrue, Op, TypeOK
  <2> QED BY <2>1
<1> QED BY <1>1 DEF AllTrue

----------------------------------------------------------------------------
(* Steps that touch neither the files nor the map.                         *)

\* A method takes the mutex or gives it back outside of a write.
LEMMA QuietStep ==
  ASSUME IInv, Up, pc # "repair",
         UNCHANGED <<state, buffer, sequence, mark, now, files, ghost>>,
         \/ pc' \in {"idle", "evict", "open"}
         \/ pc' = "snapshot" /\ buffer = << >>
  PROVE  Rest'
<1> USE DEF IInv
<1>0. /\ UNCHANGED <<state, buffer, sequence, mark, now, aof, aofNew, aofOld, snap,
                     snapAlts, hist, safe>>
      /\ Up' /\ pc' \notin {"replay", "down", "sync", "repair", "syncdir",
                            "snapdir", "clear", "cleardir"}
  BY DEF files, ghost, Up
<1>1. AllTrue'
  BY <1>0 DEF AllTrue, Images, LineTrue, At
<1>2. FilesLead'
  BY <1>0 DEF FilesLead
<1>3. WholeLines'
  BY <1>0 DEF WholeLines, Up
<1>4. AnyPairRestores'
  BY <1>0 DEF AnyPairRestores, Images
<1>5. SnapshotsLinked'
  BY <1>0 DEF SnapshotsLinked
<1>6. Safe' /\ Replaying'
  BY <1>0 DEF Safe, Replaying
<1>7. Running'
  BY <1>0 DEF Running, At
<1>8. Saving'
  BY <1>0 DEF Saving
<1> QED BY <1>1, <1>2, <1>3, <1>4, <1>5, <1>6, <1>7, <1>8 DEF Rest

----------------------------------------------------------------------------
(* Restore                                                                 *)

LEMMA LoadFilesStep ==
  ASSUME IInv, LoadFiles
  PROVE  Rest'
<1> USE DEF IInv
<1>0. /\ pc = "down" /\ pc' = "replay" /\ cursor' = 1
      /\ state' = snap.entries /\ sequence' = snap.seq
      /\ aof' = Trimmed(aof)
      /\ aofNew' = IF aof.torn THEN {aof'} ELSE aofNew
      /\ UNCHANGED <<buffer, mark, now, aofOld, snap, snapAlts, hist, safe>>
  BY DEF LoadFiles, ghost
<1>1. /\ aof \in File /\ aof \in aofNew /\ snap \in snapAlts
  BY DEF TypeOK, FilesLead
<1>2. /\ aof'.ops = aof.ops /\ ~aof'.torn
      /\ ~aof.torn => aof' = aof
  BY <1>0, <1>1, TrimWhole
<1>3. /\ Lines(aof') = Lines(aof)
      /\ \A lo, hi : Covers(aof', lo, hi) <=> Covers(aof, lo, hi)
      /\ \A lo : Gapless(aof', lo) <=> Gapless(aof, lo)
  BY <1>2, SameLines
<1>4. \A c \in Images' : c \in Images \/ c = aof'
  BY <1>0 DEF Images
<1>5. AllTrue'
  <2>1. ASSUME NEW c \in Images', NEW i \in Lines(c) PROVE LineTrue(c.ops[i])'
    <3>1. LineTrue(c.ops[i])
      BY <1>1, <1>2, <1>3, <1>4 DEF AllTrue, Images
    <3> QED BY <3>1, <1>0 DEF LineTrue, At
  <2> QED BY <2>1, <1>0 DEF AllTrue, LineTrue, At
<1>6. FilesLead'
  <2>1. aof' \in aofNew'
    BY <1>0, <1>1, <1>2
  <2>2. \A c \in aofNew' : c \in aofNew \/ (c = aof' /\ c.ops = aof.ops /\ Lines(c) = Lines(aof))
    BY <1>0, <1>2, <1>3
  <2>3. \A c \in aofNew' : \A i \in Lines(c) :
          \/ c.ops[i].seq <= snap.seq
          \/ \E j \in Lines(aof) : c.ops[i].seq <= aof.ops[j].seq
    BY <1>1, <2>2 DEF FilesLead
  <2> QED BY <1>0, <1>2, <1>3, <2>1, <2>3 DEF FilesLead
<1>7. WholeLines'
  BY <1>0, <1>2 DEF WholeLines
<1>8. AnyPairRestores'
  <2>1. ASSUME NEW c \in Images', NEW s \in snapAlts
        PROVE  Gapless(c, s.seq) /\ Covers(c, s.seq, safe)
    BY <1>1, <1>3, <1>4 DEF AnyPairRestores, Images
  <2> QED BY <1>0, <2>1 DEF AnyPairRestores
<1>9. SnapshotsLinked'
  BY <1>0, <1>3 DEF SnapshotsLinked
<1>10. Safe'
  BY <1>0 DEF Safe
<1>11. Replaying'
  <2>1. snap.seq \in Nat /\ snap.seq <= Len(hist) /\ Len(hist) \in Nat
    BY <1>1 DEF AllTrue, TypeOK, Snapshots
  <2>2. Agree(state, At(sequence), now)'
    BY <1>0, <1>1 DEF AllTrue, At
  <2>3. Covers(aof', snap.seq, snap.seq)
    BY <1>1 DEF SnapshotsLinked, Covers, TypeOK, Snapshots
  <2> QED BY <1>0, <2>1, <2>2, <2>3 DEF Replaying, Lines
<1>12. Running'
  BY <1>0 DEF Running, Up
<1>13. Saving'
  BY <1>0 DEF Saving
<1> QED BY <1>5, <1>6, <1>7, <1>8, <1>9, <1>10, <1>11, <1>12, <1>13 DEF Rest

LEMMA LoadFailsStep ==
  ASSUME IInv, LoadFails
  PROVE  Rest'
<1> USE DEF IInv
<1>0. /\ pc = "down" /\ pc' = "down"
      /\ aof' = Trimmed(aof) /\ aofNew' = aofNew \cup {aof'}
      /\ UNCHANGED <<state, sequence, buffer, cursor, mark, now, aofOld, snap, snapAlts,
                     hist, safe>>
  BY DEF LoadFails, mem, ctl, ghost
<1>1. /\ aof \in File /\ aof \in aofNew
  BY DEF TypeOK, FilesLead
<1>2. /\ aof'.ops = aof.ops /\ ~aof'.torn
  BY <1>0, <1>1, TrimWhole
<1>3. /\ Lines(aof') = Lines(aof)
      /\ \A lo, hi : Covers(aof', lo, hi) <=> Covers(aof, lo, hi)
      /\ \A lo : Gapless(aof', lo) <=> Gapless(aof, lo)
  BY <1>2, SameLines
<1>4. \A c \in Images' : c \in Images \/ c = aof'
  BY <1>0 DEF Images
<1>5. AllTrue'
  <2>1. ASSUME NEW c \in Images', NEW i \in Lines(c) PROVE LineTrue(c.ops[i])'
    <3>1. LineTrue(c.ops[i])
      BY <1>1, <1>2, <1>3, <1>4 DEF AllTrue, Images
    <3> QED BY <3>1, <1>0 DEF LineTrue, At
  <2> QED BY <2>1, <1>0 DEF AllTrue, LineTrue, At
<1>6. FilesLead'
  <2>2. \A c \in aofNew' : c \in aofNew \/ (c = aof' /\ c.ops = aof.ops /\ Lines(c) = Lines(aof))
    BY <1>0, <1>2, <1>3
  <2>3. \A c \in aofNew' : \A i \in Lines(c) :
          \/ c.ops[i].seq <= snap.seq
          \/ \E j \in Lines(aof) : c.ops[i].seq <= aof.ops[j].seq
    BY <1>1, <2>2 DEF FilesLead
  <2> QED BY <1>0, <1>2, <1>3, <2>3 DEF FilesLead
<1>7. WholeLines'
  BY <1>0 DEF WholeLines
<1>8. AnyPairRestores'
  <2>1. ASSUME NEW c \in Images', NEW s \in snapAlts
        PROVE  Gapless(c, s.seq) /\ Covers(c, s.seq, safe)
    BY <1>1, <1>3, <1>4 DEF AnyPairRestores, Images
  <2> QED BY <1>0, <2>1 DEF AnyPairRestores
<1>9. SnapshotsLinked' /\ Safe' /\ Replaying' /\ Running' /\ Saving'
  BY <1>0, <1>3 DEF SnapshotsLinked, Safe, Replaying, Running, Saving, Up
<1> QED BY <1>5, <1>6, <1>7, <1>8, <1>9 DEF Rest

\* The next line never jumps over an operation: the file has no gap.
LEMMA NextLineFollows ==
  ASSUME IInv, pc = "replay", cursor \in Lines(aof)
  PROVE  aof.ops[cursor] \in Op /\ aof.ops[cursor].seq \in 1..(sequence + 1)
<1> USE DEF IInv
<1>1. /\ aof \in Images /\ snap \in snapAlts
      /\ snap.seq \in Nat /\ sequence \in Nat /\ cursor \in Nat
  BY DEF FilesLead, Images, TypeOK, Snapshots
<1>2. aof.ops[cursor] \in Op /\ aof.ops[cursor].seq \in Nat \ {0}
  BY <1>1, LineBounds DEF Op
<1>3. sequence >= snap.seq
  BY <1>1 DEF Replaying, TypeOK
<1>4. CASE aof.ops[cursor].seq <= snap.seq + 1
  BY <1>1, <1>2, <1>3, <1>4
<1>5. CASE \E j \in 1..(cursor - 1) : aof.ops[j].seq = aof.ops[cursor].seq - 1
  <2>1. PICK j \in 1..(cursor - 1) : aof.ops[j].seq = aof.ops[cursor].seq - 1
    BY <1>5
  <2>2. j \in Lines(aof) /\ j < cursor
    BY <1>1 DEF Lines, TypeOK, File
  <2>3. aof.ops[j].seq <= sequence
    BY <2>2 DEF Replaying
  <2> QED BY <1>1, <1>2, <2>1, <2>3
<1>6. Gapless(aof, snap.seq)
  BY <1>1 DEF AnyPairRestores
<1> QED BY <1>4, <1>5, <1>6 DEF Gapless

\* One more line of the loop, when the lines are true.
LEMMA ReplayingOn ==
  ASSUME TypeOK, Replaying, \A i \in Lines(aof) : LineTrue(aof.ops[i]), ReplayLine
  PROVE  Replaying'
<1> DEFINE op == aof.ops[cursor]
<1>0. /\ pc = "replay" /\ pc' = "replay"
      /\ cursor \in Lines(aof) /\ cursor' = cursor + 1
      /\ UNCHANGED <<buffer, mark, now, aof, aofNew, aofOld, snap, snapAlts, hist, safe>>
  BY DEF ReplayLine, files, ghost
<1>1. LineTrue(op) /\ op \in Op
  BY <1>0 DEF LineTrue
<1>2. \/ op.seq \in 1..sequence /\ state' = state /\ sequence' = sequence
      \/ op.seq = sequence + 1 /\ state' = ApplyOp(state, op) /\ sequence' = sequence + 1
  BY DEF ReplayLine
<1>3. \A i \in Lines(aof) : aof.ops[i].seq \in Nat
  BY DEF LineTrue, Op
<1> HIDE DEF op
<1>4. /\ sequence \in Nat /\ snap.seq \in Nat /\ Len(hist) \in Nat /\ cursor \in Nat
      /\ state \in States /\ now \in Nat
  BY DEF TypeOK, Snapshots
<1>5. /\ sequence \in snap.seq..Len(hist) /\ Agree(state, At(sequence), now)
      /\ Covers(aof, snap.seq, sequence)
      /\ \A j \in Lines(aof) : j < cursor => aof.ops[j].seq <= sequence
  BY <1>0 DEF Replaying
<1>6. \A j \in Lines(aof) : j \in Nat
  BY DEF Lines
<1>7. CASE op.seq \in 1..sequence /\ state' = state /\ sequence' = sequence
  <2>1. \A j \in Lines(aof) : j < cursor' => aof.ops[j].seq <= sequence
    <3>1. aof.ops[cursor].seq <= sequence
      BY <1>4, <1>7 DEF op
    <3>2. \A j \in Lines(aof) : j < cursor' => j < cursor \/ j = cursor
      BY <1>0, <1>4, <1>6
    <3> QED BY <1>5, <3>1, <3>2
  <2> QED BY <1>0, <1>5, <1>7, <2>1 DEF Replaying, At
<1>8. CASE op.seq = sequence + 1 /\ state' = ApplyOp(state, op) /\ sequence' = sequence + 1
  <2>1. \A j \in Lines(aof) : j < cursor' => aof.ops[j].seq <= sequence + 1
    <3> SUFFICES ASSUME NEW j \in Lines(aof), j < cursor + 1
                 PROVE  aof.ops[j].seq <= sequence + 1
      BY <1>0
    <3>1. CASE j = cursor
      BY <1>4, <1>8, <3>1 DEF op
    <3>2. CASE j < cursor
      BY <1>3, <1>4, <1>5, <3>2
    <3> QED BY <1>4, <1>6, <3>1, <3>2
  <2>2. sequence + 1 <= Len(hist)
    BY <1>1, <1>8 DEF LineTrue
  <2>3. Covers(aof, snap.seq, sequence + 1)
    <3> SUFFICES ASSUME NEW m \in (snap.seq + 1)..(sequence + 1)
                 PROVE  \E i \in Lines(aof) : aof.ops[i].seq = m
      BY DEF Covers
    <3>1. CASE m = sequence + 1
      BY <1>0, <1>8, <3>1 DEF op
    <3>2. CASE m # sequence + 1
      <4>1. m \in (snap.seq + 1)..sequence
        BY <1>4, <3>2
      <4> QED BY <1>5, <4>1 DEF Covers
    <3> QED BY <3>1, <3>2
  <2>4. At(sequence + 1) = ApplyOp(At(sequence), op)
    <3>1. hist[op.seq] = ApplyOp(At(op.seq - 1), op)
      BY <1>1 DEF LineTrue
    <3>2. sequence + 1 # 0 /\ op.seq - 1 = sequence /\ op.seq = sequence + 1
      BY <1>4, <1>8
    <3> QED BY <3>1, <3>2 DEF At
  <2>5. At(sequence) \in States
    <3>1. sequence \in 0..Len(hist)
      BY <1>4, <1>5
    <3> QED BY <3>1, AtType
  <2>6. Agree(ApplyOp(state, op), ApplyOp(At(sequence), op), now)
    BY <1>1, <1>4, <1>5, <2>5, ApplyAgrees
  <2>7. At(sequence)' = At(sequence + 1)
    BY <1>0, <1>8 DEF At
  <2>8. Agree(state, At(sequence), now)'
    BY <1>0, <1>8, <2>4, <2>6, <2>7
  <2>9. sequence' \in snap.seq..Len(hist)
    BY <1>4, <1>5, <1>8, <2>2
  <2> QED BY <1>0, <1>8, <2>1, <2>3, <2>8, <2>9 DEF Replaying
<1> QED BY <1>2, <1>7, <1>8

LEMMA ReplayLineStep ==
  ASSUME IInv, TypeOK', ReplayLine
  PROVE  Rest'
<1> USE DEF IInv
<1>0. /\ pc = "replay" /\ pc' = "replay"
      /\ UNCHANGED <<buffer, mark, now, aof, aofNew, aofOld, snap, snapAlts, hist, safe>>
  BY DEF ReplayLine, files, ghost
<1>1. AllTrue' /\ FilesLead' /\ WholeLines' /\ AnyPairRestores' /\ SnapshotsLinked' /\ Safe'
  BY <1>0 DEF AllTrue, FilesLead, WholeLines, AnyPairRestores, SnapshotsLinked, Safe,
              Images, LineTrue, At
<1>2. \A i \in Lines(aof) : LineTrue(aof.ops[i])
  BY DEF FilesLead, AllTrue, Images
<1>3. Replaying'
  BY <1>2, ReplayingOn
<1>4. Running' /\ Saving'
  BY <1>0 DEF Running, Saving, Up
<1> QED BY <1>1, <1>3, <1>4 DEF Rest

\* A file whose lines have all been read holds nothing beyond what was reached,
\* and all that is safe has been reached.
LEMMA ReplayDone ==
  ASSUME TypeOK, Replaying, pc = "replay", cursor \notin Lines(aof), Covers(aof, snap.seq, safe)
  PROVE  /\ sequence \in 0..Len(hist) /\ snap.seq <= sequence
         /\ \A j \in Lines(aof) : aof.ops[j].seq <= sequence
         /\ safe <= sequence
<1>1. /\ sequence \in Nat /\ snap.seq \in Nat /\ Len(hist) \in Nat /\ cursor \in Nat \ {0}
      /\ safe \in Nat /\ Len(aof.ops) \in Nat
  BY DEF TypeOK, Snapshots, File
<1>2. sequence \in 0..Len(hist) /\ snap.seq <= sequence
  BY <1>1 DEF Replaying
<1>3. ASSUME NEW j \in Lines(aof) PROVE aof.ops[j].seq <= sequence
  <2>1. j < cursor
    BY <1>1 DEF Lines
  <2> QED BY <2>1 DEF Replaying
<1>4. CASE safe <= snap.seq
  BY <1>1, <1>2, <1>3, <1>4
<1>5. CASE safe > snap.seq
  <2>1. safe \in (snap.seq + 1)..safe
    BY <1>1, <1>5
  <2>2. \E i \in Lines(aof) : aof.ops[i].seq = safe
    BY <2>1 DEF Covers
  <2> QED BY <1>2, <1>3, <2>2
<1> QED BY <1>1, <1>4, <1>5

\* What Restore has read when it reaches the end of the file.
LEMMA ReplayReached ==
  ASSUME IInv, pc = "replay", cursor \notin Lines(aof)
  PROVE  /\ sequence \in 0..Len(hist) /\ snap.seq <= sequence
         /\ \A j \in Lines(aof) : aof.ops[j].seq <= sequence
         /\ \A c \in Images : \A i \in Lines(c) : c.ops[i].seq <= sequence
         /\ safe <= sequence
<1> USE DEF IInv
<1>1. /\ sequence \in Nat /\ snap.seq \in Nat /\ Len(hist) \in Nat /\ cursor \in Nat \ {0}
      /\ safe \in Nat /\ Len(aof.ops) \in Nat
      /\ aof \in Images /\ snap \in snapAlts
  BY DEF TypeOK, Snapshots, File, FilesLead, Images
<1>2. /\ sequence \in 0..Len(hist) /\ snap.seq <= sequence
      /\ \A j \in Lines(aof) : aof.ops[j].seq <= sequence
      /\ safe <= sequence
  BY <1>1, ReplayDone DEF AnyPairRestores
<1>4. ASSUME NEW c \in Images, NEW i \in Lines(c) PROVE c.ops[i].seq <= sequence
  <2>1. c.ops[i].seq \in Nat
    BY LineBounds DEF Op
  <2>2. CASE c.ops[i].seq <= snap.seq
    BY <1>1, <1>2, <2>1, <2>2
  <2>3. CASE c.ops[i].seq > snap.seq
    <3>1. c \notin aofOld
      BY <1>1, <2>1, <2>3 DEF FilesLead
    <3>2. c \in aofNew
      BY <3>1 DEF Images
    <3>3. PICK j \in Lines(aof) : c.ops[i].seq <= aof.ops[j].seq
      BY <1>1, <2>1, <2>3, <3>2 DEF FilesLead
    <3>4. aof.ops[j].seq \in Nat
      BY <1>1, LineBounds DEF Op
    <3> QED BY <1>1, <1>2, <2>1, <3>3, <3>4
  <2> QED BY <1>1, <2>1, <2>2, <2>3
<1> QED BY <1>2, <1>4

LEMMA FinishRestoreStep ==
  ASSUME IInv, TypeOK', FinishRestore
  PROVE  Rest'
<1> USE DEF IInv
<1>0. /\ pc = "replay" /\ pc' = "idle" /\ cursor \notin Lines(aof)
      /\ state' = Live(state, now) /\ hist' = SubSeq(hist, 1, sequence)
      /\ UNCHANGED <<buffer, sequence, mark, now, aof, aofNew, aofOld, snap, snapAlts, safe>>
  BY DEF FinishRestore, files
<1>1. /\ sequence \in 0..Len(hist) /\ snap.seq <= sequence
      /\ \A c \in Images : \A i \in Lines(c) : c.ops[i].seq <= sequence
      /\ safe <= sequence
  BY <1>0, ReplayReached
<1>2. /\ sequence \in Nat /\ snap.seq \in Nat /\ hist \in Seq(States) /\ Len(hist) \in Nat
      /\ state \in States /\ now \in Nat /\ buffer = << >> /\ ~aof.torn
      /\ \A s \in snapAlts : s.seq \in Nat /\ s.seq <= snap.seq
      /\ aof \in Images /\ snap \in snapAlts
  BY <1>0 DEF TypeOK, Snapshots, FilesLead, Images, Running, Up, WholeLines
<1>3. Len(hist') = sequence /\ \A i \in 1..sequence : hist'[i] = hist[i]
  BY <1>0, <1>1, <1>2
<1>4. \A m \in 0..sequence : At(m)' = At(m)
  BY <1>1, <1>3, AtKept
<1>5. AllTrue'
  <2>1. ASSUME NEW c \in Images, NEW i \in Lines(c) PROVE LineTrue(c.ops[i])'
    <3>1. LineTrue(c.ops[i]) /\ c.ops[i].seq <= sequence
      BY <1>1 DEF AllTrue
    <3> QED BY <1>1, <1>2, <1>3, <3>1, LineKept
  <2>2. ASSUME NEW s \in snapAlts
        PROVE  s.seq <= sequence /\ Agree(s.entries, At(s.seq)', now)
    <3>1. s.seq \in 0..sequence
      BY <1>1, <1>2
    <3> QED BY <1>4, <3>1 DEF AllTrue
  <2>3. Images' = Images
    BY <1>0 DEF Images
  <2>4. \A c \in Images' : \A i \in Lines(c) : LineTrue(c.ops[i])'
    BY <2>1, <2>3
  <2>5. \A i \in 1..Len(buffer') : LineTrue(buffer[i])'
    BY <1>0, <1>2
  <2>6. \A s \in snapAlts' : s.seq <= Len(hist') /\ Agree(s.entries, At(s.seq)', now')
    BY <1>0, <1>3, <2>2
  <2> QED BY <2>4, <2>5, <2>6 DEF AllTrue
<1>6. FilesLead' /\ WholeLines' /\ AnyPairRestores' /\ SnapshotsLinked' /\ Replaying' /\ Saving'
  BY <1>0 DEF FilesLead, WholeLines, AnyPairRestores, SnapshotsLinked, Replaying, Saving, Images
<1>7. Safe'
  BY <1>0, <1>1, <1>3 DEF Safe
<1>8. Running'
  <2>1. Agree(state, At(sequence), now)'
    <3>1. Agree(state, At(sequence), now)
      BY <1>0 DEF Replaying
    <3>2. Agree(Live(state, now), state, now)
      BY <1>2, LiveAgrees
    <3>3. At(sequence)' = At(sequence)
      <4>1. sequence \in 0..sequence
        BY <1>2
      <4>2. At(sequence)' = IF sequence = 0 THEN EmptyState ELSE hist'[sequence]
        BY <1>0 DEF At
      <4>3. sequence # 0 => hist'[sequence] = hist[sequence]
        BY <1>2, <1>3
      <4> QED BY <4>2, <4>3 DEF At
    <3> QED BY <1>0, <3>1, <3>2, <3>3 DEF Agree
  <2>2. ASSUME NEW s \in snapAlts
        PROVE  s.seq <= sequence /\ Covers(aof, s.seq, sequence)
    <3>1. Covers(aof, s.seq, snap.seq) /\ Covers(aof, snap.seq, sequence)
      BY <1>0, <1>2 DEF SnapshotsLinked, Replaying
    <3>2. Covers(aof, s.seq, sequence)
      <4> SUFFICES ASSUME NEW m \in (s.seq + 1)..sequence
                   PROVE  \E i \in Lines(aof) : aof.ops[i].seq = m
        BY DEF Covers
      <4>1. m \in (s.seq + 1)..snap.seq \/ m \in (snap.seq + 1)..sequence
        BY <1>2
      <4> QED BY <3>1, <4>1 DEF Covers
    <3> QED BY <1>1, <1>2, <3>2
  <2>3. Len(buffer) = 0 /\ sequence - Len(buffer) = sequence /\ 1..Len(buffer) = {}
    BY <1>2
  <2> QED BY <1>0, <1>2, <1>3, <2>1, <2>2, <2>3 DEF Running, Up
<1> QED BY <1>5, <1>6, <1>7, <1>8 DEF Rest

----------------------------------------------------------------------------
(* Commands                                                                *)

\* One more operation in the map, the history and the buffer: the buffer is
\* still the tail of the history, and what was true remains so.
LEMMA Recorded ==
  ASSUME TypeOK, TypeOK', NEW k \in Keys, NEW e \in Entry \cup {NoEntry}, Record(k, e),
         now' = now, Len(hist) = sequence, Agree(state, At(sequence), now),
         Len(buffer) <= sequence,
         \A i \in 1..Len(buffer) : buffer[i].seq = sequence - Len(buffer) + i,
         \A i \in 1..Len(buffer) : LineTrue(buffer[i])
  PROVE  /\ Len(hist') = sequence' /\ sequence' = sequence + 1
         /\ Agree(state, At(sequence), now)'
         /\ Len(buffer') <= sequence' /\ sequence' - Len(buffer') = sequence - Len(buffer)
         /\ \A i \in 1..Len(buffer') : buffer'[i].seq = sequence' - Len(buffer') + i
         /\ \A i \in 1..Len(buffer') : LineTrue(buffer[i])'
         /\ \A x : LineTrue(x) => LineTrue(x)'
         /\ \A m \in 0..sequence : At(m)' = At(m)
<1> DEFINE l == [seq |-> sequence + 1, key |-> k, entry |-> e]
           X == [At(sequence) EXCEPT ![k] = e]
<1>1. Stored(e) = e
  BY StoredIdentity
<1>2. /\ state' = [state EXCEPT ![k] = e] /\ sequence' = sequence + 1
      /\ buffer' = Append(buffer, l) /\ hist' = Append(hist, X)
  BY <1>1 DEF Record
<1>3. /\ state \in States /\ sequence \in Nat /\ buffer \in Seq(Op) /\ hist \in Seq(States)
      /\ now \in Nat /\ Len(buffer) \in Nat /\ At(sequence) \in States /\ l \in Op
  <2>1. sequence \in Nat /\ l \in Op
    BY DEF TypeOK, Op
  <2> QED BY <2>1, AtSequence DEF TypeOK
<1>4. X \in States
  BY <1>3 DEF States
<1>5. /\ Len(hist') = sequence + 1 /\ hist'[sequence + 1] = X
      /\ \A i \in 1..sequence : hist'[i] = hist[i]
  BY <1>2, <1>3, <1>4
<1>6. /\ Len(buffer') = Len(buffer) + 1 /\ buffer'[Len(buffer) + 1] = l
      /\ \A i \in 1..Len(buffer) : buffer'[i] = buffer[i]
  BY <1>2, <1>3
<1>7. \A m \in 0..sequence : At(m)' = At(m)
  <2>1. sequence \in 0..Len(hist)
    BY <1>3
  <2> QED BY <1>5, <2>1, AtKept
<1>8. ASSUME NEW x, LineTrue(x) PROVE LineTrue(x)'
  <2>1. x.seq <= sequence
    BY <1>3, <1>8 DEF LineTrue
  <2>2. sequence \in 0..Len(hist) /\ sequence <= Len(hist')
    BY <1>3, <1>5
  <2> QED BY <1>5, <1>8, <2>1, <2>2, LineKept
<1>9. PICK x : x = l
  OBVIOUS
<1>10. PICK n : n = sequence
  OBVIOUS
<1>11. x \in Op /\ x.seq = n + 1 /\ x.key = k /\ x.entry = e /\ n \in Nat
  BY <1>3, <1>9, <1>10
<1> HIDE DEF l
<1>12. At(n)' = At(sequence) /\ ApplyOp(At(sequence), x) = X
  <2>1. n \in 0..sequence
    BY <1>10, <1>11
  <2> QED BY <1>7, <1>10, <1>11, <2>1 DEF ApplyOp
<1>13. LineTrue(x)'
  <2>1. x.seq - 1 = n
    BY <1>11
  <2>4. At(x.seq - 1)' = At(n)'
    BY <2>1 DEF At
  <2>2. hist'[x.seq] = ApplyOp(At(x.seq - 1)', x)
    BY <1>5, <1>10, <1>11, <1>12, <2>1, <2>4
  <2>3. x.seq <= Len(hist')
    BY <1>5, <1>10, <1>11
  <2> QED BY <1>11, <2>2, <2>3 DEF LineTrue
<1>14. ASSUME NEW i \in 1..Len(buffer') PROVE LineTrue(buffer[i])'
  <2>1. CASE i = Len(buffer) + 1
    <3>1. buffer'[i] = x
      BY <1>6, <1>9, <2>1
    <3> QED BY <1>13, <3>1 DEF LineTrue, At
  <2>2. CASE i # Len(buffer) + 1
    <3>1. i \in 1..Len(buffer)
      BY <1>3, <1>6, <2>2
    <3>2. PICK y : y = buffer[i]
      OBVIOUS
    <3>3. LineTrue(y)'
      BY <1>8, <3>1, <3>2
    <3>4. buffer'[i] = y
      BY <1>6, <3>1, <3>2
    <3> QED BY <3>3, <3>4 DEF LineTrue, At
  <2> QED BY <2>1, <2>2
<1>15. Agree(state, At(sequence), now)'
  <2>1. At(sequence)' = X
    <3>1. At(sequence)' = IF sequence' = 0 THEN EmptyState ELSE hist'[sequence']
      BY DEF At
    <3> QED BY <1>2, <1>3, <1>5, <3>1
  <2>2. state' = ApplyOp(state, x)
    BY <1>2, <1>11 DEF ApplyOp
  <2>3. Agree(ApplyOp(state, x), ApplyOp(At(sequence), x), now)
    BY <1>3, <1>11, ApplyAgrees
  <2> QED BY <1>12, <2>1, <2>2, <2>3
<1>16. sequence' - Len(buffer') = sequence - Len(buffer)
  BY <1>2, <1>3, <1>6
<1>17. ASSUME NEW i \in 1..Len(buffer')
       PROVE  buffer'[i].seq = sequence' - Len(buffer') + i
  <2>1. CASE i = Len(buffer) + 1
    BY <1>3, <1>6, <1>9, <1>10, <1>11, <1>16, <2>1
  <2>2. CASE i # Len(buffer) + 1
    <3>1. i \in 1..Len(buffer)
      BY <1>3, <1>6, <2>2
    <3> QED BY <1>3, <1>6, <1>16, <3>1
  <2> QED BY <2>1, <2>2
<1>18. Len(buffer') <= sequence' /\ Len(hist') = sequence' /\ sequence' = sequence + 1
  BY <1>2, <1>3, <1>5, <1>6
<1> QED BY <1>7, <1>8, <1>14, <1>15, <1>16, <1>17, <1>18

LEMMA RecordStep ==
  ASSUME IInv, TypeOK', NEW k \in Keys, NEW e \in Entry \cup {NoEntry}, Record(k, e),
         pc \in {"idle", "evict"}, pc' \in {"idle", "evict"},
         UNCHANGED <<mark, now, files, safe>>
  PROVE  Rest'
<1> USE DEF IInv
<1>0. /\ UNCHANGED <<mark, now, safe, aof, aofNew, aofOld, snap, snapAlts>>
      /\ Up /\ Up' /\ Images' = Images
  BY DEF files, Up, Images
<1>1. /\ Len(hist) = sequence /\ Agree(state, At(sequence), now) /\ Len(buffer) <= sequence
      /\ \A i \in 1..Len(buffer) : buffer[i].seq = sequence - Len(buffer) + i
      /\ \A i \in 1..Len(buffer) : LineTrue(buffer[i])
      /\ sequence \in Nat
  BY <1>0 DEF Running, AllTrue, TypeOK
<1>2. /\ Len(hist') = sequence' /\ sequence' = sequence + 1
      /\ Agree(state, At(sequence), now)'
      /\ Len(buffer') <= sequence' /\ sequence' - Len(buffer') = sequence - Len(buffer)
      /\ \A i \in 1..Len(buffer') : buffer'[i].seq = sequence' - Len(buffer') + i
      /\ \A i \in 1..Len(buffer') : LineTrue(buffer[i])'
      /\ \A x : LineTrue(x) => LineTrue(x)'
      /\ \A m \in 0..sequence : At(m)' = At(m)
  BY <1>0, <1>1, Recorded
<1>3. AllTrue'
  <2>1. ASSUME NEW c \in Images, NEW i \in Lines(c) PROVE LineTrue(c.ops[i])'
    <3>1. LineTrue(c.ops[i])
      BY DEF AllTrue
    <3> QED BY <1>2, <3>1
  <2>2. ASSUME NEW s \in snapAlts
        PROVE  s.seq <= Len(hist') /\ Agree(s.entries, At(s.seq)', now)
    <3>1. s.seq \in 0..sequence
      BY <1>1 DEF AllTrue, TypeOK, Snapshots
    <3> QED BY <1>1, <1>2, <3>1 DEF AllTrue
  <2> QED BY <1>0, <1>2, <2>1, <2>2 DEF AllTrue
<1>4. FilesLead' /\ WholeLines' /\ AnyPairRestores' /\ SnapshotsLinked' /\ Replaying' /\ Saving'
  BY <1>0 DEF FilesLead, WholeLines, AnyPairRestores, SnapshotsLinked, Replaying, Saving
<1>5. Safe'
  BY <1>0, <1>1, <1>2 DEF Safe, TypeOK
<1>6. Running'
  BY <1>0, <1>2 DEF Running
<1> QED BY <1>3, <1>4, <1>5, <1>6 DEF Rest

LEMMA CommandStep ==
  ASSUME IInv, TypeOK', Command
  PROVE  Rest'
<1>1. CASE \E k \in Keys, v \in Values, ttl \in TTLs : Set(k, v, ttl)
  <2>1. PICK k \in Keys, v \in Values, ttl \in TTLs : Set(k, v, ttl)
    BY <1>1
  <2>2. PICK e \in Entry \cup {NoEntry} : /\ Record(k, e) /\ pc = "idle"
                                          /\ UNCHANGED <<closed, returned, ctl, now, files, safe>>
    BY <2>1, SetRecords DEF IInv
  <2> QED BY <2>2, RecordStep DEF ctl
<1>2. CASE \E k \in Keys : Delete(k) \/ GetExpired(k) \/ Evict(k)
  <2>1. PICK k \in Keys : Delete(k) \/ GetExpired(k) \/ Evict(k)
    BY <1>2
  <2>2. /\ Record(k, NoEntry) /\ pc \in {"idle", "evict"} /\ pc' \in {"idle", "evict"}
        /\ UNCHANGED <<mark, now, files, safe>>
    BY <2>1 DEF Delete, GetExpired, Evict, ctl
  <2> QED BY <2>2, RecordStep
<1>3. ASSUME NEW ks, Collect(ks) PROVE Rest'
  BY <1>3, QuietStep DEF Collect, Up, mem
<1> QED BY <1>1, <1>2, <1>3 DEF Command, SweepExpired, GetWhere

----------------------------------------------------------------------------
(* AppendAOF                                                               *)

\* What the disk may hold during a write, whole lines or not.
LEMMA WriteLinesStep ==
  ASSUME IInv, TypeOK', NEW k \in 0..Len(buffer), NEW t \in BOOLEAN, WriteLines(k, t)
  PROVE  Rest'
<1> USE DEF IInv
<1> DEFINE base == sequence - Len(buffer)
           d == Extend(aof, buffer, k, t)
<1>0. /\ pc = "open" /\ pc' \in {"sync", "repair"}
      /\ pc' = "sync" => k = Len(buffer) /\ ~t
      /\ mark' = aof /\ aof' = d
      /\ aofNew' = aofNew \cup Portions(aof, buffer, k, t)
      /\ UNCHANGED <<state, buffer, sequence, now, aofOld, snap, snapAlts, hist, safe>>
  BY DEF WriteLines, mem, ghost
<1>1. /\ aof \in File /\ ~aof.torn /\ buffer \in Seq(Op) /\ Len(buffer) \in Nat
      /\ sequence \in Nat /\ base \in Nat /\ base + Len(buffer) = sequence
      /\ \A s \in snapAlts : s.seq \in Nat /\ s.seq <= base /\ Covers(aof, s.seq, base)
      /\ \A i \in 1..Len(buffer) : buffer[i].seq = base + i
      /\ aof \in aofNew /\ aof \in Images /\ safe \in Nat
  BY <1>0 DEF TypeOK, WholeLines, Running, Up, Snapshots, FilesLead, Images
<1>2. d \in Portions(aof, buffer, k, t)
  BY WholePortion
<1>3. ASSUME NEW j \in 0..Len(buffer), NEW u \in BOOLEAN
      PROVE  LET x == Extend(aof, buffer, j, u)
             IN  /\ Len(x.ops) = Len(aof.ops) + j /\ x.torn = u
                 /\ \A i \in 1..Len(aof.ops) : x.ops[i] = aof.ops[i]
                 /\ \A i \in 1..j : x.ops[Len(aof.ops) + i] = buffer[i]
  BY <1>1, ExtendWhole
<1>4. ASSUME NEW p \in Portions(aof, buffer, k, t)
      PROVE  \E j \in 0..k, u \in BOOLEAN : p = Extend(aof, buffer, j, u) /\ j \in 0..Len(buffer)
  BY PortionsExtend
<1>5. Len(aof.ops) \in Nat
  BY <1>1 DEF File
<1> HIDE DEF d, base
\* Each line of an extension is a line of the AOF or of the buffer.
<1>6. ASSUME NEW j \in 0..Len(buffer), NEW u \in BOOLEAN,
             NEW p, p = Extend(aof, buffer, j, u), NEW i \in Lines(p)
      PROVE  \/ i \in Lines(aof) /\ p.ops[i] = aof.ops[i]
             \/ \E m \in 1..j : i = Len(aof.ops) + m /\ p.ops[i] = buffer[m]
  <2>1. /\ Len(p.ops) = Len(aof.ops) + j
        /\ \A x \in 1..Len(aof.ops) : p.ops[x] = aof.ops[x]
        /\ \A x \in 1..j : p.ops[Len(aof.ops) + x] = buffer[x]
    BY <1>3, <1>6
  <2>2. CASE i <= Len(aof.ops)
    BY <1>5, <2>1, <2>2 DEF Lines
  <2>3. CASE i > Len(aof.ops)
    <3>1. i - Len(aof.ops) \in 1..j /\ i = Len(aof.ops) + (i - Len(aof.ops))
      BY <1>5, <2>1, <2>3 DEF Lines
    <3> QED BY <2>1, <3>1
  <2> QED BY <1>5, <2>2, <2>3 DEF Lines
<1>7. ASSUME NEW j \in 0..Len(buffer), NEW u \in BOOLEAN,
             NEW p, p = Extend(aof, buffer, j, u), NEW i \in Lines(p)
      PROVE  LineTrue(p.ops[i])
  BY <1>1, <1>6, <1>7 DEF AllTrue
<1>8. AllTrue'
  <2>1. ASSUME NEW c \in Images', NEW i \in Lines(c) PROVE LineTrue(c.ops[i])
    <3>1. CASE c \in Images
      BY <3>1 DEF AllTrue
    <3>2. CASE c \in Portions(aof, buffer, k, t)
      BY <1>4, <1>7, <3>2
    <3> QED BY <1>0, <3>1, <3>2 DEF Images
  <2>2. ASSUME NEW c \in Images', NEW i \in Lines(c) PROVE LineTrue(c.ops[i])'
    BY <1>0, <2>1 DEF LineTrue, At
  <2> QED BY <1>0, <2>2 DEF AllTrue, LineTrue, At
<1>9. /\ Len(d.ops) = Len(aof.ops) + k /\ d.torn = t
      /\ \A i \in 1..Len(aof.ops) : d.ops[i] = aof.ops[i]
      /\ \A i \in 1..k : d.ops[Len(aof.ops) + i] = buffer[i]
  BY <1>3 DEF d
<1>10. FilesLead'
  <2>1. ASSUME NEW c \in aofNew, NEW i \in Lines(c)
        PROVE  c.ops[i].seq <= snap.seq \/ \E j \in Lines(d) : c.ops[i].seq <= d.ops[j].seq
    <3>1. CASE c.ops[i].seq <= snap.seq
      BY <3>1
    <3>2. CASE \E j \in Lines(aof) : c.ops[i].seq <= aof.ops[j].seq
      <4>1. PICK j \in Lines(aof) : c.ops[i].seq <= aof.ops[j].seq
        BY <3>2
      <4>2. j \in Lines(d) /\ d.ops[j] = aof.ops[j]
        BY <1>5, <1>9, <4>1 DEF Lines
      <4> QED BY <4>1, <4>2
    <3> QED BY <3>1, <3>2 DEF FilesLead
  <2>2. ASSUME NEW c \in Portions(aof, buffer, k, t), NEW i \in Lines(c)
        PROVE  \E j \in Lines(d) : c.ops[i].seq <= d.ops[j].seq
    <3>1. PICK n \in 0..k, u \in BOOLEAN : c = Extend(aof, buffer, n, u) /\ n \in 0..Len(buffer)
      BY <1>4
    <3>2. i \in Lines(d) /\ d.ops[i] = c.ops[i]
      <4>1. CASE i \in Lines(aof) /\ c.ops[i] = aof.ops[i]
        BY <1>5, <1>9, <4>1 DEF Lines
      <4>2. CASE \E m \in 1..n : i = Len(aof.ops) + m /\ c.ops[i] = buffer[m]
        <5>1. PICK m \in 1..n : i = Len(aof.ops) + m /\ c.ops[i] = buffer[m]
          BY <4>2
        <5>2. m \in 1..k
          BY <3>1
        <5> QED BY <1>5, <1>9, <5>1, <5>2 DEF Lines
      <4> QED BY <1>6, <3>1, <4>1, <4>2
    <3>3. c.ops[i].seq \in Nat
      BY <1>7, <3>1 DEF LineTrue, Op
    <3> QED BY <3>2, <3>3
  <2>3. aof' \in aofNew' /\ mark' \in aofNew'
    BY <1>0, <1>1, <1>2 DEF d
  <2> QED BY <1>0, <2>1, <2>2, <2>3 DEF FilesLead
<1>11. WholeLines'
  BY <1>0, <1>1, <1>9 DEF WholeLines
<1>12. ASSUME NEW s \in snapAlts, NEW j \in 0..Len(buffer), NEW u \in BOOLEAN
       PROVE  /\ Gapless(Extend(aof, buffer, j, u), s.seq)
              /\ Covers(Extend(aof, buffer, j, u), s.seq, base + j)
              /\ Covers(Extend(aof, buffer, j, u), s.seq, safe)
              /\ Covers(Extend(aof, buffer, j, u), s.seq, base)
  <2>1. Gapless(aof, s.seq) /\ Covers(aof, s.seq, safe)
    BY <1>1 DEF AnyPairRestores
  <2>2. base \in Nat
    BY <1>1
  <2> QED BY <1>1, <2>1, <2>2, ExtendGapless, ExtendCovers
<1>13. AnyPairRestores'
  <2>1. ASSUME NEW c \in Images', NEW s \in snapAlts
        PROVE  Gapless(c, s.seq) /\ Covers(c, s.seq, safe)
    <3>1. CASE c \in Images
      BY <3>1 DEF AnyPairRestores
    <3>2. CASE c \in Portions(aof, buffer, k, t)
      BY <1>4, <1>12, <3>2
    <3> QED BY <1>0, <3>1, <3>2 DEF Images
  <2> QED BY <1>0, <2>1 DEF AnyPairRestores
<1>14. SnapshotsLinked'
  <2>1. ASSUME NEW s \in snapAlts, NEW r \in snapAlts PROVE Covers(d, s.seq, r.seq)
    <3>1. Covers(aof, s.seq, r.seq)
      BY DEF SnapshotsLinked
    <3> QED BY <1>1, <3>1, ExtendCovers DEF d
  <2> QED BY <1>0, <2>1 DEF SnapshotsLinked
<1>15. Safe' /\ Replaying'
  BY <1>0 DEF Safe, Replaying
<1>16. Running'
  <2>1. ASSUME NEW s \in snapAlts PROVE Covers(d, s.seq, base)
    BY <1>12 DEF d
  <2> QED BY <1>0, <1>1, <2>1 DEF Running, Up, At, base
<1>17. Saving'
  <2>1. ASSUME NEW s \in snapAlts, k = Len(buffer) PROVE Covers(d, s.seq, sequence)
    BY <1>1, <1>12, <2>1 DEF d
  <2> QED BY <1>0, <1>1, <2>1 DEF Saving, base
<1> QED BY <1>8, <1>10, <1>11, <1>13, <1>14, <1>15, <1>16, <1>17 DEF Rest

LEMMA SyncOkStep ==
  ASSUME IInv, SyncOk
  PROVE  Rest'
<1> USE DEF IInv
<1>0. /\ pc = "sync" /\ pc' = "syncdir" /\ aofNew' = {aof}
      /\ UNCHANGED <<state, buffer, sequence, now, aof, aofOld, snap, snapAlts, hist, safe>>
  BY DEF SyncOk, mem, ghost
<1>1. aof \in aofNew /\ Images' \subseteq Images
  BY <1>0 DEF FilesLead, Images
<1>2. AllTrue'
  BY <1>0, <1>1 DEF AllTrue, LineTrue, At
<1>3. FilesLead'
  BY <1>0, <1>1 DEF FilesLead
<1>4. AnyPairRestores'
  BY <1>0, <1>1 DEF AnyPairRestores
<1>5. WholeLines' /\ SnapshotsLinked' /\ Safe' /\ Replaying' /\ Saving'
  BY <1>0 DEF WholeLines, SnapshotsLinked, Safe, Replaying, Saving
<1>6. Running'
  BY <1>0 DEF Running, Up, At
<1> QED BY <1>2, <1>3, <1>4, <1>5, <1>6 DEF Rest

LEMMA SyncFailsStep ==
  ASSUME IInv, SyncFails
  PROVE  Rest'
<1> USE DEF IInv
<1>0. /\ pc = "sync" /\ pc' = "repair"
      /\ UNCHANGED <<state, buffer, sequence, mark, now, aof, aofNew, aofOld, snap, snapAlts,
                     hist, safe>>
  BY DEF SyncFails, mem, files, ghost
<1>1. AllTrue' /\ FilesLead' /\ WholeLines'
  BY <1>0 DEF AllTrue, FilesLead, WholeLines, Images, LineTrue, At
<1>2. AnyPairRestores' /\ SnapshotsLinked' /\ Safe' /\ Replaying' /\ Saving'
  BY <1>0 DEF AnyPairRestores, SnapshotsLinked, Safe, Replaying, Saving, Images
<1>3. Running'
  BY <1>0 DEF Running, Up, At
<1> QED BY <1>1, <1>2, <1>3 DEF Rest

\* Undoing the append brings back the file that was there, known to be good.
LEMMA RepairStep ==
  ASSUME IInv, TypeOK', Repair
  PROVE  Rest'
<1> USE DEF IInv
<1>0. /\ pc = "repair" /\ pc' = "idle" /\ aof' = mark /\ aofNew' = {mark}
      /\ UNCHANGED <<state, buffer, sequence, now, aofOld, snap, snapAlts, hist, safe>>
  BY DEF Repair, mem, ghost
<1>1. mark \in aofNew /\ ~mark.torn /\ Images' \subseteq Images
  BY <1>0 DEF FilesLead, WholeLines, Images
<1>2. AllTrue'
  BY <1>0, <1>1 DEF AllTrue, LineTrue, At
<1>3. FilesLead'
  <2>1. \A i \in Lines(mark) : mark.ops[i].seq \in Nat
    BY <1>1, LineBounds DEF Images, Op
  <2> QED BY <1>0, <1>1, <2>1 DEF FilesLead
<1>4. AnyPairRestores' /\ WholeLines'
  BY <1>0, <1>1 DEF AnyPairRestores, WholeLines
<1>5. \A s \in snapAlts : /\ s.seq <= sequence - Len(buffer)
                         /\ Covers(mark, s.seq, sequence - Len(buffer))
  BY <1>0 DEF Running, Saving, Up
<1>6. SnapshotsLinked'
  <2>1. ASSUME NEW s \in snapAlts, NEW r \in snapAlts PROVE Covers(mark, s.seq, r.seq)
    <3>1. /\ s.seq \in Nat /\ r.seq \in Nat /\ sequence - Len(buffer) \in Int
          /\ r.seq <= sequence - Len(buffer)
      BY <1>5 DEF TypeOK, Snapshots
    <3>2. (s.seq + 1)..r.seq \subseteq (s.seq + 1)..(sequence - Len(buffer))
      BY <3>1
    <3> QED BY <1>5, <3>2 DEF Covers
  <2> QED BY <1>0, <2>1 DEF SnapshotsLinked
<1>7. Safe' /\ Replaying' /\ Saving'
  BY <1>0 DEF Safe, Replaying, Saving
<1>8. Running'
  BY <1>0, <1>5 DEF Running, Up, At
<1> QED BY <1>2, <1>3, <1>4, <1>6, <1>7, <1>8 DEF Rest

LEMMA AppendOkStep ==
  ASSUME IInv, TypeOK', AppendOk
  PROVE  Rest'
<1> USE DEF IInv
<1>0. /\ pc = "syncdir" /\ pc' \in {"idle", "snapshot"}
      /\ aofOld' = {} /\ buffer' = << >> /\ safe' = sequence
      /\ UNCHANGED <<state, sequence, now, aof, aofNew, snap, snapAlts, hist>>
  BY DEF AppendOk
<1>1. /\ aofNew = {aof} /\ Images' = {aof} /\ aof \in Images
      /\ \A s \in snapAlts : Covers(aof, s.seq, sequence)
      /\ Len(hist) = sequence /\ sequence \in Nat
  BY <1>0 DEF Saving, Images, Running, Up, TypeOK
<1>2. Len(buffer') = 0
  BY <1>0
<1>3. AllTrue'
  <2>1. \A i \in Lines(aof) : LineTrue(aof.ops[i])'
    <3>1. \A i \in Lines(aof) : LineTrue(aof.ops[i])
      BY <1>1 DEF AllTrue
    <3> QED BY <1>0, <3>1 DEF LineTrue, At
  <2>2. \A s \in snapAlts' : s.seq <= Len(hist') /\ Agree(s.entries, At(s.seq), now)'
    BY <1>0 DEF AllTrue, At
  <2> QED BY <1>0, <1>1, <1>2, <2>1, <2>2 DEF AllTrue, LineTrue, At
<1>4. FilesLead' /\ WholeLines' /\ SnapshotsLinked' /\ Replaying'
  BY <1>0 DEF FilesLead, WholeLines, SnapshotsLinked, Replaying
<1>5. AnyPairRestores' /\ Safe'
  BY <1>0, <1>1 DEF AnyPairRestores, Safe
<1>6. Running'
  <2>1. \A s \in snapAlts : s.seq <= sequence
    <3>1. ASSUME NEW s \in snapAlts PROVE s.seq <= sequence
      <4>1. s.seq <= Len(hist)
        BY DEF AllTrue
      <4> QED BY <1>1, <4>1
    <3> QED BY <3>1
  <2>2. sequence' - Len(buffer') = sequence /\ 1..Len(buffer') = {}
    BY <1>0, <1>1, <1>2
  <2> QED BY <1>0, <1>1, <1>2, <2>1, <2>2 DEF Running, Up, At
<1>7. Saving'
  BY <1>0 DEF Saving
<1> QED BY <1>3, <1>4, <1>5, <1>6, <1>7 DEF Rest

----------------------------------------------------------------------------
(* WriteSnapshot and ClearAOF                                              *)

LEMMA RenameSnapshotStep ==
  ASSUME IInv, TypeOK', RenameSnapshot
  PROVE  Rest'
<1> USE DEF IInv
<1>0. /\ pc = "snapshot" /\ pc' = "snapdir" /\ snapAlts' = snapAlts \cup {snap'}
      /\ snap' = [seq     |-> sequence,
                  entries |-> [k \in Keys |-> Stored(Live(state, now)[k])]]
      /\ UNCHANGED <<state, buffer, sequence, mark, now, aof, aofNew, aofOld, hist, safe>>
  BY DEF RenameSnapshot, mem, ghost
<1>1. /\ state \in States /\ now \in Nat /\ sequence \in Nat /\ Live(state, now) \in States
      /\ Len(hist) = sequence /\ buffer = << >> /\ safe \in Nat /\ safe <= sequence
      /\ Agree(state, At(sequence), now)
  BY <1>0, LiveType DEF TypeOK, Running, Up, Saving, Safe
<1>2. PICK new : new = snap'
  OBVIOUS
<1>3. /\ new.seq = sequence /\ new.entries = Live(state, now)
  <2>1. \A k \in Keys : Stored(Live(state, now)[k]) = Live(state, now)[k]
    BY <1>1, StoredIdentity DEF States
  <2>2. [k \in Keys |-> Stored(Live(state, now)[k])] = Live(state, now)
    BY <2>1 DEF Live
  <2> QED BY <1>0, <1>2, <2>2
<1>4. \A s \in snapAlts' : s \in snapAlts \/ s = new
  BY <1>0, <1>2
<1>5. \A s \in snapAlts : s.seq \in Nat /\ s.seq <= sequence
  <2>1. ASSUME NEW s \in snapAlts PROVE s.seq \in Nat /\ s.seq <= sequence
    BY <1>1 DEF AllTrue, TypeOK, Snapshots
  <2> QED BY <2>1
<1>6. \A c \in Images : \A i \in Lines(c) :
        c.ops[i].seq \in Nat /\ c.ops[i].seq <= sequence
  BY <1>1, LineBounds DEF Op
<1>7. AllTrue'
  <2>1. new.seq <= Len(hist) /\ Agree(new.entries, At(new.seq), now)
    <3>1. Agree(Live(state, now), state, now)
      BY <1>1, LiveAgrees
    <3>2. At(new.seq) = At(sequence)
      BY <1>3
    <3> QED BY <1>1, <1>3, <3>1, <3>2 DEF Agree
  <2>2. \A s \in snapAlts' : s.seq <= Len(hist') /\ Agree(s.entries, At(s.seq), now)'
    BY <1>0, <1>4, <2>1 DEF AllTrue, At
  <2>3. /\ \A c \in Images : \A i \in Lines(c) : LineTrue(c.ops[i])'
        /\ \A i \in 1..Len(buffer') : LineTrue(buffer[i])'
    BY <1>0 DEF AllTrue, LineTrue, At
  <2> QED BY <1>0, <2>2, <2>3 DEF AllTrue, Images
<1>8. FilesLead'
  <2>1. snap'.seq = sequence
    BY <1>2, <1>3
  <2>2. \A s \in snapAlts' : s.seq <= snap'.seq
    BY <1>1, <1>3, <1>4, <1>5, <2>1
  <2>3. aofNew \subseteq Images /\ aofOld \subseteq Images
    BY DEF Images
  <2> QED BY <1>0, <1>6, <2>1, <2>2, <2>3 DEF FilesLead
<1>9. \A c : \A hi \in Nat : hi <= sequence => Covers(c, sequence, hi)
  BY <1>1 DEF Covers
<1>10. AnyPairRestores'
  <2>1. ASSUME NEW c \in Images PROVE Gapless(c, new.seq) /\ Covers(c, new.seq, safe)
    <3>1. \A i \in Lines(c) : c.ops[i].seq <= new.seq + 1
      BY <1>1, <1>3, <1>6
    <3> QED BY <1>1, <1>3, <1>9, <3>1 DEF Gapless
  <2> QED BY <1>0, <1>4, <2>1 DEF AnyPairRestores, Images
<1>11. \A s \in snapAlts : Covers(aof, s.seq, sequence)
  <2>1. sequence - Len(buffer) = sequence
    BY <1>1
  <2> QED BY <1>0, <2>1 DEF Running, Up
<1>12. SnapshotsLinked'
  <2>1. ASSUME NEW s \in snapAlts', NEW r \in snapAlts' PROVE Covers(aof, s.seq, r.seq)
    <3>1. CASE s = new
      BY <1>1, <1>3, <1>4, <1>5, <1>9, <3>1
    <3>2. CASE s \in snapAlts /\ r = new
      BY <1>3, <1>11, <3>2
    <3>3. CASE s \in snapAlts /\ r \in snapAlts
      BY <3>3 DEF SnapshotsLinked
    <3> QED BY <1>4, <3>1, <3>2, <3>3
  <2> QED BY <1>0, <2>1 DEF SnapshotsLinked
<1>13. WholeLines' /\ Safe' /\ Replaying'
  BY <1>0 DEF WholeLines, Safe, Replaying
<1>14. Running'
  <2>1. sequence - Len(buffer) = sequence
    BY <1>1
  <2>2. \A s \in snapAlts' : s.seq <= sequence /\ Covers(aof, s.seq, sequence)
    BY <1>1, <1>3, <1>4, <1>5, <1>9, <1>11
  <2> QED BY <1>0, <2>1, <2>2 DEF Running, Up, At
<1>15. Saving'
  BY <1>0, <1>1, <1>2, <1>3 DEF Saving
<1> QED BY <1>7, <1>8, <1>10, <1>12, <1>13, <1>14, <1>15 DEF Rest

LEMMA SnapshotDirOkStep ==
  ASSUME IInv, SnapshotDirOk
  PROVE  Rest'
<1> USE DEF IInv
<1>0. /\ pc = "snapdir" /\ pc' = "clear" /\ snapAlts' = {snap} /\ safe' = sequence
      /\ UNCHANGED <<state, buffer, sequence, mark, now, aof, aofNew, aofOld, snap, hist>>
  BY DEF SnapshotDirOk, mem
<1>1. /\ snap \in snapAlts /\ snap.seq = sequence /\ buffer = << >>
      /\ Len(hist) = sequence /\ sequence \in Nat
  BY <1>0 DEF FilesLead, Saving, Running, Up, TypeOK
<1>2. AllTrue'
  BY <1>0, <1>1 DEF AllTrue, Images, LineTrue, At
<1>3. FilesLead'
  BY <1>0, <1>1 DEF FilesLead
<1>4. AnyPairRestores'
  <2>1. \A c \in Images : Covers(c, snap.seq, sequence)
    BY <1>1 DEF Covers
  <2> QED BY <1>0, <1>1, <2>1 DEF AnyPairRestores, Images
<1>5. WholeLines' /\ SnapshotsLinked' /\ Safe' /\ Replaying' /\ Saving'
  BY <1>0, <1>1 DEF WholeLines, SnapshotsLinked, Safe, Replaying, Saving
<1>6. Running'
  BY <1>0, <1>1 DEF Running, Up, At
<1> QED BY <1>2, <1>3, <1>4, <1>5, <1>6 DEF Rest

\* The AOF may go: the snapshot that replaces it is the only one left.
LEMMA ClearAOFStep ==
  ASSUME IInv, TypeOK', ClearAOF
  PROVE  Rest'
<1> USE DEF IInv
<1>0. /\ pc = "clear" /\ pc' = "cleardir" /\ aof' = EmptyFile
      /\ aofOld' = aofOld \cup aofNew /\ aofNew' = {EmptyFile}
      /\ UNCHANGED <<state, buffer, sequence, mark, now, snap, snapAlts, hist, safe>>
  BY DEF ClearAOF, mem, ghost
<1>1. /\ snapAlts = {snap} /\ snap.seq = sequence /\ buffer = << >>
      /\ Len(hist) = sequence /\ sequence \in Nat /\ safe \in Nat /\ safe <= sequence
  BY <1>0 DEF Saving, Running, Up, TypeOK, Safe
<1>2. /\ Lines(EmptyFile) = {} /\ ~EmptyFile.torn
      /\ Images' = Images \cup {EmptyFile}
  BY <1>0 DEF Lines, EmptyFile, Images
<1>3. AllTrue'
  BY <1>0, <1>2 DEF AllTrue, LineTrue, At
<1>4. FilesLead'
  <2>1. \A c \in Images : \A i \in Lines(c) : c.ops[i].seq <= snap.seq
    BY <1>1, LineBounds DEF Op
  <2> QED BY <1>0, <1>1, <1>2, <2>1 DEF FilesLead, Images
<1>5. \A hi \in Nat : hi <= sequence => Covers(EmptyFile, snap.seq, hi)
  BY <1>1 DEF Covers
<1>6. AnyPairRestores'
  <2>1. Gapless(EmptyFile, snap.seq) /\ Covers(EmptyFile, snap.seq, safe)
    BY <1>1, <1>2, <1>5 DEF Gapless
  <2> QED BY <1>0, <1>1, <1>2, <2>1 DEF AnyPairRestores
<1>7. WholeLines' /\ Safe' /\ Replaying' /\ Saving'
  BY <1>0, <1>1, <1>2 DEF WholeLines, Safe, Replaying, Saving
<1>8. SnapshotsLinked'
  BY <1>0, <1>1, <1>5 DEF SnapshotsLinked
<1>9. Running'
  <2>1. sequence - Len(buffer) = sequence
    BY <1>1
  <2> QED BY <1>0, <1>1, <1>5, <2>1 DEF Running, Up, At
<1> QED BY <1>3, <1>4, <1>6, <1>7, <1>8, <1>9 DEF Rest

LEMMA ClearDirOkStep ==
  ASSUME IInv, ClearDirOk
  PROVE  Rest'
<1> USE DEF IInv
<1>0. /\ pc = "cleardir" /\ pc' = "idle" /\ aofOld' = {}
      /\ UNCHANGED <<state, buffer, sequence, mark, now, aof, aofNew, snap, snapAlts,
                     hist, safe>>
  BY DEF ClearDirOk, mem, ghost
<1>1. Images' \subseteq Images
  BY <1>0 DEF Images
<1>2. AllTrue' /\ FilesLead' /\ AnyPairRestores'
  BY <1>0, <1>1 DEF AllTrue, LineTrue, At, FilesLead, AnyPairRestores
<1>3. WholeLines' /\ SnapshotsLinked' /\ Safe' /\ Replaying' /\ Saving'
  BY <1>0 DEF WholeLines, SnapshotsLinked, Safe, Replaying, Saving
<1>4. Running'
  BY <1>0 DEF Running, Up, At
<1> QED BY <1>2, <1>3, <1>4 DEF Rest

\* Flush, Snapshot and Close begin, or a disk call ends them with an error.
LEMMA BeginStep ==
  ASSUME IInv, Flush \/ Snapshot \/ Close \/ DiskCallFails
  PROVE  Rest'
<1>1. /\ Up /\ pc # "repair"
      /\ UNCHANGED <<state, buffer, sequence, mark, now, files, ghost>>
      /\ \/ pc' \in {"idle", "evict", "open"}
         \/ pc' = "snapshot" /\ buffer = << >>
  BY DEF Flush, Snapshot, Close, DiskCallFails, BeginAppend, mem, ctl, Up
<1> QED BY <1>1, QuietStep

LEMMA SaveStep ==
  ASSUME IInv, TypeOK', AppendSteps \/ Compact, "repair" \notin Faults
  PROVE  Rest'
<1>1. ASSUME NEW k \in 0..Len(buffer), NEW t \in BOOLEAN, WriteLines(k, t) PROVE Rest'
  BY <1>1, WriteLinesStep
<1>2. ~RepairFails
  BY DEF RepairFails
<1> QED BY <1>1, <1>2, SyncOkStep, SyncFailsStep, RepairStep, AppendOkStep,
           RenameSnapshotStep, SnapshotDirOkStep, ClearAOFStep, ClearDirOkStep
        DEF AppendSteps, Compact

----------------------------------------------------------------------------
(* Stops and time                                                          *)

\* A stop keeps the files as they show.
LEMMA ProcessStopStep ==
  ASSUME IInv, Exit \/ Kill
  PROVE  Rest'
<1> USE DEF IInv
<1>0. /\ pc' = "down" /\ buffer' = << >>
      /\ UNCHANGED <<now, aof, aofNew, aofOld, snap, snapAlts, hist, safe>>
  BY DEF Exit, Kill, Forget, files, ghost
<1>1. AllTrue'
  <2>1. /\ \A c \in Images' : \A i \in Lines(c) : LineTrue(c.ops[i])'
        /\ \A s \in snapAlts' : s.seq <= Len(hist') /\ Agree(s.entries, At(s.seq), now)'
    BY <1>0 DEF AllTrue, Images, LineTrue, At
  <2>2. Len(buffer') = 0
    BY <1>0
  <2> QED BY <1>0, <2>1, <2>2 DEF AllTrue
<1>2. FilesLead' /\ WholeLines' /\ AnyPairRestores'
  BY <1>0 DEF FilesLead, WholeLines, AnyPairRestores, Images
<1>3. SnapshotsLinked' /\ Safe' /\ Replaying' /\ Running' /\ Saving'
  BY <1>0 DEF SnapshotsLinked, Safe, Replaying, Running, Saving, Up
<1> QED BY <1>1, <1>2, <1>3 DEF Rest

\* A power loss leaves one image of each file, and any will do.
LEMMA PowerLossStep ==
  ASSUME IInv, PowerLoss
  PROVE  Rest'
<1> USE DEF IInv
<1>1. PICK c \in Images, s \in snapAlts :
        /\ aof' = c /\ aofNew' = {c}
        /\ aofOld' = IF c = EmptyFile THEN {EmptyFile} ELSE {}
        /\ snap' = s /\ snapAlts' = {s}
  BY DEF PowerLoss, Images
<1>2. pc' = "down" /\ buffer' = << >> /\ UNCHANGED <<now, hist, safe>>
  BY DEF PowerLoss, Forget, ghost
<1>3. Images' = {c} /\ Lines(EmptyFile) = {} /\ Len(buffer') = 0
  <2>1. Images' = {c}
    BY <1>1 DEF Images
  <2>2. Lines(EmptyFile) = {} /\ Len(buffer') = 0
    BY <1>2 DEF Lines, EmptyFile
  <2> QED BY <2>1, <2>2
<1>4. s.seq \in Nat /\ \A i \in Lines(c) : c.ops[i].seq \in Nat
  BY LineBounds DEF TypeOK, Snapshots, Op
<1>5. AllTrue'
  <2>1. /\ \A i \in Lines(c) : LineTrue(c.ops[i])'
        /\ s.seq <= Len(hist') /\ Agree(s.entries, At(s.seq), now)'
    BY <1>2 DEF AllTrue, LineTrue, At
  <2> QED BY <1>1, <1>3, <2>1 DEF AllTrue
<1>6. FilesLead'
  BY <1>1, <1>2, <1>3, <1>4 DEF FilesLead
<1>7. AnyPairRestores'
  BY <1>1, <1>2, <1>3 DEF AnyPairRestores
<1>8. SnapshotsLinked'
  <2>1. Covers(c, s.seq, s.seq)
    BY <1>4 DEF Covers
  <2> QED BY <1>1, <2>1 DEF SnapshotsLinked
<1>9. WholeLines' /\ Safe' /\ Replaying' /\ Running' /\ Saving'
  BY <1>2 DEF WholeLines, Safe, Replaying, Running, Saving, Up
<1> QED BY <1>5, <1>6, <1>7, <1>8, <1>9 DEF Rest

\* Time only makes more entries indistinguishable from absent ones.
LEMMA TickStep ==
  ASSUME IInv, TypeOK', Tick
  PROVE  Rest'
<1> USE DEF IInv
<1>0. /\ now' = now + 1 /\ now \in Nat
      /\ UNCHANGED <<state, buffer, sequence, pc, cursor, mark, aof, aofNew, aofOld, snap,
                     snapAlts, hist, safe>>
  BY DEF Tick, mem, ctl, files, ghost, TypeOK
<1>1. ASSUME NEW s \in snapAlts PROVE Agree(s.entries, At(s.seq), now')
  <2>1. s.entries \in States /\ s.seq \in 0..Len(hist) /\ Agree(s.entries, At(s.seq), now)
    BY DEF AllTrue, TypeOK, Snapshots
  <2> QED BY <1>0, <2>1, AtType, AgreeLater
<1>2. AllTrue'
  <2>1. /\ \A c \in Images' : \A i \in Lines(c) : LineTrue(c.ops[i])'
        /\ \A i \in 1..Len(buffer') : LineTrue(buffer[i])'
    BY <1>0 DEF AllTrue, Images, LineTrue, At
  <2>2. ASSUME NEW s \in snapAlts'
        PROVE  s.seq <= Len(hist') /\ Agree(s.entries, At(s.seq), now)'
    <3>1. At(s.seq)' = At(s.seq)
      BY <1>0 DEF At
    <3> QED BY <1>0, <1>1, <2>2, <3>1 DEF AllTrue
  <2> QED BY <2>1, <2>2 DEF AllTrue
<1>3. FilesLead' /\ WholeLines' /\ AnyPairRestores' /\ SnapshotsLinked' /\ Safe' /\ Saving'
  BY <1>0 DEF FilesLead, WholeLines, AnyPairRestores, SnapshotsLinked, Safe, Saving, Images
<1>4. ASSUME sequence \in 0..Len(hist), Agree(state, At(sequence), now)
      PROVE  Agree(state, At(sequence), now)'
  <2>1. Agree(state, At(sequence), now')
    BY <1>0, <1>4, AtType, AgreeLater DEF TypeOK
  <2> QED BY <1>0, <2>1 DEF At
<1>5. Replaying'
  <2>1. pc = "replay" => sequence \in 0..Len(hist)
    BY DEF Replaying, TypeOK, Snapshots, FilesLead
  <2> QED BY <1>0, <1>4, <2>1 DEF Replaying
<1>6. Running'
  <2>1. Up => sequence \in 0..Len(hist)
    BY DEF Running, TypeOK
  <2> QED BY <1>0, <1>4, <2>1 DEF Running, Up
<1> QED BY <1>2, <1>3, <1>5, <1>6 DEF Rest

----------------------------------------------------------------------------
(* KillInv: the undoing of an append may fail, the power does not.         *)

\* KillInv but for the types.
KillRest == Safe /\ ShownTrue /\ Reading /\ Working /\ Appending

\* Files with the same lines lead equally far.
LEMMA SameReach ==
  ASSUME NEW c, NEW d, c.ops = d.ops
  PROVE  /\ Readable(c) <=> Readable(d)
         /\ \A n : Reaches(c, n) <=> Reaches(d, n)
<1>1. Lines(c) = Lines(d) /\ \A lo, hi : Covers(c, lo, hi) <=> Covers(d, lo, hi)
  BY SameLines
<1> QED BY <1>1 DEF Readable, Reaches

\* What leads to an operation leads to those before it.
LEMMA ReachesLess ==
  ASSUME NEW c, NEW m \in Int, NEW n \in Int, m <= n, Reaches(c, n), snap.seq \in Nat
  PROVE  Reaches(c, m)
<1>1. \A x \in (snap.seq + 1)..m : x \in (snap.seq + 1)..n
  OBVIOUS
<1> QED BY <1>1 DEF Reaches, Covers

\* Every line of a file that a start accepts is true.
LEMMA ReadableTrue ==
  ASSUME ShownTrue, Readable(aof)
  PROVE  \A i \in Lines(aof) : LineTrue(aof.ops[i])
BY DEF ShownTrue, Readable

\* A write of part of the buffer, glued to a torn tail or not, leads at least as
\* far as before when it can be read, and invents nothing.
LEMMA ExtendShown ==
  ASSUME NEW c \in File, NEW batch \in Seq(Op), NEW k \in 0..Len(batch), NEW t \in BOOLEAN
  PROVE  /\ Readable(Extend(c, batch, k, t)) => Readable(c) /\ (k = 0 \/ ~c.torn)
         /\ \A i \in Lines(Extend(c, batch, k, t)) :
              LET l == Extend(c, batch, k, t).ops[i]
              IN  \/ l = Corrupt
                  \/ \E j \in Lines(c) : l = c.ops[j]
                  \/ \E j \in 1..Len(batch) : l = batch[j]
<1> DEFINE d == Extend(c, batch, k, t)
           n == Len(c.ops)
<1>1. /\ Len(d.ops) = n + k
      /\ \A i \in 1..n : d.ops[i] = c.ops[i]
      /\ \A i \in 1..k : d.ops[n + i] = IF i = 1 /\ c.torn THEN Corrupt ELSE batch[i]
  BY ExtendLines
<1>2. n \in Nat /\ k \in Nat /\ k <= Len(batch) /\ Len(batch) \in Nat
  BY DEF File
<1> HIDE DEF d
<1>3. ASSUME Readable(d) PROVE Readable(c) /\ (k = 0 \/ ~c.torn)
  <2>1. \A i \in Lines(c) : i \in Lines(d) /\ d.ops[i] = c.ops[i]
    <3>1. Lines(c) = 1..n /\ Lines(d) = 1..(n + k)
      BY <1>1 DEF Lines
    <3>2. \A i \in 1..n : i \in 1..(n + k)
      BY <1>2
    <3> QED BY <1>1, <3>1, <3>2
  <2>2. Readable(c)
    BY <1>3, <2>1 DEF Readable
  <2>3. ASSUME k # 0, c.torn PROVE FALSE
    <3>1. 1 \in 1..k /\ n + 1 \in Lines(d)
      BY <1>1, <1>2, <2>3 DEF Lines
    <3>2. d.ops[n + 1] = Corrupt
      BY <1>1, <2>3, <3>1
    <3> QED BY <1>3, <3>1, <3>2 DEF Readable
  <2> QED BY <2>2, <2>3
<1>4. ASSUME NEW i \in Lines(d)
      PROVE  \/ d.ops[i] = Corrupt
             \/ \E j \in Lines(c) : d.ops[i] = c.ops[j]
             \/ \E j \in 1..Len(batch) : d.ops[i] = batch[j]
  <2>1. CASE i <= n
    <3>1. i \in Lines(c) /\ d.ops[i] = c.ops[i]
      BY <1>1, <1>2, <2>1 DEF Lines
    <3> QED BY <3>1
  <2>2. CASE i > n
    <3>1. i - n \in 1..k /\ i - n \in 1..Len(batch) /\ n + (i - n) = i
      BY <1>1, <1>2, <2>2 DEF Lines
    <3>2. d.ops[i] = Corrupt \/ d.ops[i] = batch[i - n]
      BY <1>1, <3>1
    <3> QED BY <3>1, <3>2
  <2> QED BY <1>2, <2>1, <2>2 DEF Lines
<1> QED BY <1>3, <1>4 DEF d

\* Steps that touch neither the files nor the map.
LEMMA KillQuiet ==
  ASSUME KillInv, Up, Up',
         UNCHANGED <<state, buffer, sequence, now, aof, snap, hist, safe>>,
         pc' \in {"sync", "repair"} => pc \in {"sync", "repair"} /\ mark' = mark,
         pc' = "sync" => pc = "sync",
         pc' = "syncdir" => pc = "sync",
         pc' \in {"snapshot", "snapdir", "clear", "cleardir"} => buffer = << >>,
         pc' \in {"snapdir", "clear", "cleardir"} => snap.seq = sequence
  PROVE  KillRest'
<1> USE DEF KillInv
<1>1. ShownTrue'
  BY DEF ShownTrue, LineTrue, At
<1>2. Safe' /\ Reading'
  BY DEF Safe, Reading, Replaying, Up
<1>3. Working'
  BY DEF Working, Reaches, At
<1>4. Appending'
  BY DEF Appending, Reaches
<1> QED BY <1>1, <1>2, <1>3, <1>4 DEF KillRest

\* The files are read: LoadFiles, or LoadFails when a torn tail cannot be cut off.
LEMMA KillLoad ==
  ASSUME KillInv, TypeOK', LoadFiles \/ LoadFails
  PROVE  KillRest'
<1> USE DEF KillInv
<1>0. /\ pc = "down" /\ Readable(aof) /\ aof' = Trimmed(aof)
      /\ UNCHANGED <<buffer, now, snap, hist, safe>>
      /\ \/ pc' = "down" /\ UNCHANGED <<state, sequence, cursor>>
         \/ /\ pc' = "replay" /\ cursor' = 1
            /\ state' = snap.entries /\ sequence' = snap.seq
  BY DEF LoadFiles, LoadFails, mem, ctl, ghost
<1>1. /\ aof \in File /\ aof'.ops = aof.ops
      /\ snap.seq \in Nat /\ Len(hist) \in Nat
  <2>1. aof \in File /\ snap.seq \in Nat /\ Len(hist) \in Nat
    BY DEF TypeOK, Snapshots
  <2> QED BY <1>0, <2>1, TrimWhole
<1>2. /\ Lines(aof') = Lines(aof)
      /\ \A lo, hi : Covers(aof', lo, hi) <=> Covers(aof, lo, hi)
      /\ Readable(aof') /\ \A n : Reaches(aof', n) <=> Reaches(aof, n)
  BY <1>0, <1>1, SameLines, SameReach
<1>3. ShownTrue'
  BY <1>0, <1>1, <1>2 DEF ShownTrue, LineTrue, At
<1>4. Reading'
  <2>1. Covers(aof', snap.seq, snap.seq)
    BY <1>1 DEF Covers
  <2>2. snap.seq <= Len(hist) /\ Agree(snap.entries, At(snap.seq), now)
    BY DEF ShownTrue
  <2> QED BY <1>0, <1>1, <1>2, <2>1, <2>2 DEF Reading, Replaying, Lines, At
<1>5. Working'
  <2>1. buffer = << >> /\ Reaches(aof, safe)
    BY <1>0 DEF Working, Up
  <2> QED BY <1>0, <1>2, <2>1 DEF Working, Up, Reaches
<1>6. Safe' /\ Appending'
  BY <1>0 DEF Safe, Appending
<1> QED BY <1>3, <1>4, <1>5, <1>6 DEF KillRest

LEMMA KillReplay ==
  ASSUME KillInv, ReplayLine
  PROVE  KillRest'
<1> USE DEF KillInv
<1>0. /\ pc = "replay" /\ pc' = "replay"
      /\ UNCHANGED <<buffer, mark, now, aof, snap, hist, safe>>
  BY DEF ReplayLine, files, ghost
<1>1. \A i \in Lines(aof) : LineTrue(aof.ops[i])
  BY <1>0, ReadableTrue DEF Reading
<1>2. Reading'
  BY <1>0, <1>1, ReplayingOn DEF Reading
<1>3. Safe' /\ ShownTrue' /\ Working' /\ Appending'
  BY <1>0 DEF Safe, ShownTrue, Working, Appending, Reaches, LineTrue, At, Up
<1> QED BY <1>2, <1>3 DEF KillRest

\* At the end of the loop all that is safe has been replayed.
LEMMA KillReached ==
  ASSUME KillInv, pc = "replay", cursor \notin Lines(aof)
  PROVE  /\ sequence \in 0..Len(hist) /\ snap.seq <= sequence
         /\ \A j \in Lines(aof) : aof.ops[j].seq <= sequence
         /\ safe <= sequence
<1>1. Covers(aof, snap.seq, safe)
  BY DEF KillInv, Reading, Working, Reaches, Up
<1> QED BY <1>1, ReplayDone DEF KillInv, Reading

LEMMA KillFinish ==
  ASSUME KillInv, TypeOK', FinishRestore
  PROVE  KillRest'
<1> USE DEF KillInv
<1>0. /\ pc = "replay" /\ pc' = "idle" /\ cursor \notin Lines(aof)
      /\ state' = Live(state, now) /\ hist' = SubSeq(hist, 1, sequence)
      /\ UNCHANGED <<buffer, sequence, now, aof, snap, safe>>
  BY DEF FinishRestore, files
<1>1. /\ sequence \in 0..Len(hist) /\ snap.seq <= sequence
      /\ \A j \in Lines(aof) : aof.ops[j].seq <= sequence
      /\ safe <= sequence
  BY <1>0, KillReached
<1>2. /\ sequence \in Nat /\ snap.seq \in Nat /\ hist \in Seq(States) /\ Len(hist) \in Nat
      /\ state \in States /\ now \in Nat /\ buffer = << >> /\ safe \in Nat
      /\ Covers(aof, snap.seq, sequence) /\ Agree(state, At(sequence), now)
  BY <1>0 DEF TypeOK, Snapshots, Working, Up, Reading, Replaying
<1>3. Len(hist') = sequence /\ \A i \in 1..sequence : hist'[i] = hist[i]
  BY <1>0, <1>1, <1>2
<1>4. \A m \in 0..sequence : At(m)' = At(m)
  BY <1>1, <1>3, AtKept
<1>5. ShownTrue'
  <2>1. ASSUME NEW i \in Lines(aof) PROVE LineTrue(aof.ops[i])'
    <3>1. PICK x : x = aof.ops[i]
      OBVIOUS
    <3>2. LineTrue(x) /\ x.seq <= sequence
      BY <1>0, <1>1, <3>1, ReadableTrue DEF Reading
    <3>3. LineTrue(x)'
      BY <1>1, <1>2, <1>3, <3>2, LineKept
    <3> QED BY <1>0, <3>1, <3>3 DEF LineTrue, At
  <2>2. snap.seq \in 0..sequence /\ Agree(snap.entries, At(snap.seq), now)
    BY <1>1, <1>2 DEF ShownTrue
  <2>3. Agree(snap.entries, At(snap.seq), now)'
    <3>1. PICK n : n = snap.seq
      OBVIOUS
    <3>2. At(n)' = At(n)
      BY <1>4, <2>2, <3>1
    <3> QED BY <1>0, <2>2, <3>1, <3>2 DEF At
  <2>4. 1..Len(buffer') = {} /\ snap'.seq <= Len(hist')
    BY <1>0, <1>1, <1>2, <1>3
  <2> QED BY <1>0, <2>1, <2>3, <2>4 DEF ShownTrue
<1>6. Safe' /\ Reading' /\ Appending'
  BY <1>0, <1>1, <1>3 DEF Safe, Reading, Replaying, Appending
<1>7. Working'
  <2>1. Agree(state, At(sequence), now)'
    <3>1. Agree(Live(state, now), state, now)
      BY <1>2, LiveAgrees
    <3>2. At(sequence)' = At(sequence)
      <4>1. At(sequence)' = IF sequence = 0 THEN EmptyState ELSE hist'[sequence]
        BY <1>0 DEF At
      <4>2. sequence # 0 => hist'[sequence] = hist[sequence]
        BY <1>2, <1>3
      <4> QED BY <4>1, <4>2 DEF At
    <3> QED BY <1>0, <1>2, <3>1, <3>2 DEF Agree
  <2>2. Len(buffer) = 0 /\ sequence - Len(buffer) = sequence /\ 1..Len(buffer) = {}
    BY <1>2
  <2> QED BY <1>0, <1>1, <1>2, <1>3, <2>1, <2>2 DEF Working, Reaches, Up
<1> QED BY <1>5, <1>6, <1>7 DEF KillRest

LEMMA KillRecord ==
  ASSUME KillInv, TypeOK', NEW k \in Keys, NEW e \in Entry \cup {NoEntry}, Record(k, e),
         pc \in {"idle", "evict"}, pc' \in {"idle", "evict"},
         UNCHANGED <<mark, now, files, safe>>
  PROVE  KillRest'
<1> USE DEF KillInv
<1>0. UNCHANGED <<mark, now, safe, aof, snap>> /\ Up /\ Up'
  BY DEF files, Up
<1>1. /\ Len(hist) = sequence /\ Agree(state, At(sequence), now) /\ Len(buffer) <= sequence
      /\ \A i \in 1..Len(buffer) : buffer[i].seq = sequence - Len(buffer) + i
      /\ \A i \in 1..Len(buffer) : LineTrue(buffer[i])
      /\ sequence \in Nat /\ safe \in Nat /\ snap.seq \in Nat
  BY <1>0 DEF Working, ShownTrue, TypeOK, Snapshots
<1>2. /\ Len(hist') = sequence' /\ sequence' = sequence + 1
      /\ Agree(state, At(sequence), now)'
      /\ Len(buffer') <= sequence' /\ sequence' - Len(buffer') = sequence - Len(buffer)
      /\ \A i \in 1..Len(buffer') : buffer'[i].seq = sequence' - Len(buffer') + i
      /\ \A i \in 1..Len(buffer') : LineTrue(buffer[i])'
      /\ \A x : LineTrue(x) => LineTrue(x)'
      /\ \A m \in 0..sequence : At(m)' = At(m)
  BY <1>0, <1>1, Recorded
<1>3. ShownTrue'
  <2>1. ASSUME NEW i \in Lines(aof)
        PROVE  aof.ops[i] = Corrupt \/ LineTrue(aof.ops[i])'
    <3>1. PICK x : x = aof.ops[i]
      OBVIOUS
    <3>2. x = Corrupt \/ LineTrue(x)'
      BY <1>2, <3>1 DEF ShownTrue
    <3> QED BY <1>0, <3>1, <3>2 DEF LineTrue, At
  <2>2. snap.seq \in 0..sequence /\ Agree(snap.entries, At(snap.seq), now)
    BY <1>1 DEF ShownTrue
  <2>3. Agree(snap.entries, At(snap.seq), now)'
    BY <1>0, <1>2, <2>2 DEF At
  <2>4. snap'.seq <= Len(hist')
    BY <1>0, <1>1, <1>2, <2>2
  <2> QED BY <1>0, <1>2, <2>1, <2>3, <2>4 DEF ShownTrue
<1>4. Safe' /\ Reading' /\ Appending'
  BY <1>0, <1>1, <1>2 DEF Safe, Reading, Replaying, Appending
<1>5. Working'
  <2>1. safe <= sequence - Len(buffer) /\ Reaches(aof, sequence - Len(buffer))
    BY <1>0 DEF Working
  <2>2. Reaches(aof, sequence - Len(buffer))'
    BY <1>0, <1>2, <2>1 DEF Reaches
  <2> QED BY <1>0, <1>2, <2>1, <2>2 DEF Working
<1> QED BY <1>3, <1>4, <1>5 DEF KillRest

LEMMA KillCommand ==
  ASSUME KillInv, TypeOK', Command
  PROVE  KillRest'
<1>1. CASE \E k \in Keys, v \in Values, ttl \in TTLs : Set(k, v, ttl)
  <2>1. PICK k \in Keys, v \in Values, ttl \in TTLs : Set(k, v, ttl)
    BY <1>1
  <2>2. PICK e \in Entry \cup {NoEntry} : /\ Record(k, e) /\ pc = "idle"
                                          /\ UNCHANGED <<closed, returned, ctl, now, files, safe>>
    BY <2>1, SetRecords DEF KillInv
  <2> QED BY <2>2, KillRecord DEF ctl
<1>2. CASE \E k \in Keys : Delete(k) \/ GetExpired(k) \/ Evict(k)
  <2>1. PICK k \in Keys : Delete(k) \/ GetExpired(k) \/ Evict(k)
    BY <1>2
  <2>2. /\ Record(k, NoEntry) /\ pc \in {"idle", "evict"} /\ pc' \in {"idle", "evict"}
        /\ UNCHANGED <<mark, now, files, safe>>
    BY <2>1 DEF Delete, GetExpired, Evict, ctl
  <2> QED BY <2>2, KillRecord
<1>3. ASSUME NEW ks, Collect(ks) PROVE KillRest'
  BY <1>3, KillQuiet DEF Collect, Up, mem, files, ghost
<1> QED BY <1>1, <1>2, <1>3 DEF Command, SweepExpired, GetWhere

LEMMA KillWrite ==
  ASSUME KillInv, TypeOK', NEW k \in 0..Len(buffer), NEW t \in BOOLEAN, WriteLines(k, t)
  PROVE  KillRest'
<1> USE DEF KillInv
<1> DEFINE base == sequence - Len(buffer)
           d == Extend(aof, buffer, k, t)
<1>0. /\ pc = "open" /\ pc' \in {"sync", "repair"}
      /\ pc' = "sync" => k = Len(buffer)
      /\ mark' = aof /\ aof' = d
      /\ UNCHANGED <<state, buffer, sequence, now, snap, hist, safe>>
  BY DEF WriteLines, mem, ghost
<1>1. /\ aof \in File /\ buffer \in Seq(Op) /\ Len(buffer) \in Nat
      /\ sequence \in Nat /\ base \in Nat /\ base + Len(buffer) = sequence
      /\ snap.seq \in Nat /\ Reaches(aof, base)
      /\ \A i \in 1..Len(buffer) : buffer[i].seq = base + i
  BY <1>0 DEF TypeOK, Snapshots, Working, Up
<1> HIDE DEF base
<1>2. /\ Readable(d) => Readable(aof) /\ (k = 0 \/ ~aof.torn)
      /\ \A i \in Lines(d) : \/ d.ops[i] = Corrupt
                             \/ \E j \in Lines(aof) : d.ops[i] = aof.ops[j]
                             \/ \E j \in 1..Len(buffer) : d.ops[i] = buffer[j]
  BY <1>1, ExtendShown
<1>3. Reaches(d, base)
  BY <1>1, <1>2, ExtendCovers DEF Reaches
<1>4. Reaches(d, base + k)
  <2>1. CASE k = 0
    <3>1. base + k = base
      BY <1>1, <2>1
    <3> QED BY <1>3, <3>1
  <2>2. CASE k # 0
    <3> SUFFICES ASSUME Readable(d) PROVE Covers(d, snap.seq, base + k)
      BY DEF Reaches
    <3>1. ~aof.torn /\ Covers(aof, snap.seq, base)
      BY <1>1, <1>2, <2>2 DEF Reaches
    <3> QED BY <1>1, <3>1, ExtendReaches
  <2> QED BY <2>1, <2>2
<1> HIDE DEF d
<1>5. ShownTrue'
  <2>1. ASSUME NEW i \in Lines(d) PROVE d.ops[i] = Corrupt \/ LineTrue(d.ops[i])
    BY <1>2 DEF ShownTrue
  <2>2. \A i \in Lines(aof) : aof.ops[i] = Corrupt \/ LineTrue(aof.ops[i])
    BY DEF ShownTrue
  <2>3. /\ \A i \in Lines(aof') : aof'.ops[i] = Corrupt \/ LineTrue(aof.ops[i])'
        /\ \A i \in Lines(mark') : mark'.ops[i] = Corrupt \/ LineTrue(mark.ops[i])'
    BY <1>0, <2>1, <2>2 DEF LineTrue, At
  <2>4. /\ \A i \in 1..Len(buffer') : LineTrue(buffer[i])'
        /\ snap'.seq <= Len(hist') /\ Agree(snap.entries, At(snap.seq), now)'
    BY <1>0 DEF ShownTrue, LineTrue, At
  <2> QED BY <1>0, <2>3, <2>4 DEF ShownTrue
<1>6. Safe' /\ Reading'
  BY <1>0 DEF Safe, Reading, Replaying
<1>7. Working'
  <2>1. Reaches(aof, base)'
    BY <1>0, <1>3 DEF Reaches, base
  <2> QED BY <1>0, <2>1 DEF Working, Up, At, base
<1>8. Appending'
  <2>1. Reaches(mark, base)'
    BY <1>0, <1>1 DEF Reaches, base
  <2>2. k = Len(buffer) => Reaches(aof, sequence)'
    BY <1>0, <1>1, <1>4 DEF Reaches
  <2> QED BY <1>0, <2>1, <2>2 DEF Appending, base
<1> QED BY <1>5, <1>6, <1>7, <1>8 DEF KillRest

\* Repair or RepairFails: the file is the old one, or keeps what was written.
LEMMA KillRepair ==
  ASSUME KillInv, Repair \/ RepairFails
  PROVE  KillRest'
<1> USE DEF KillInv
<1>0. /\ pc = "repair" /\ pc' = "idle" /\ aof' \in {aof, mark}
      /\ UNCHANGED <<state, buffer, sequence, now, snap, hist, safe>>
  BY DEF Repair, RepairFails, mem, ghost
<1>1. ShownTrue'
  BY <1>0 DEF ShownTrue, LineTrue, At
<1>2. Safe' /\ Reading' /\ Appending'
  BY <1>0 DEF Safe, Reading, Replaying, Appending
<1>3. Reaches(aof', sequence - Len(buffer))
  BY <1>0 DEF Working, Up, Appending
<1>4. Working'
  BY <1>0, <1>3 DEF Working, Up, Reaches, At
<1> QED BY <1>1, <1>2, <1>4 DEF KillRest

LEMMA KillAppend ==
  ASSUME KillInv, AppendOk
  PROVE  KillRest'
<1> USE DEF KillInv
<1>0. /\ pc = "syncdir" /\ pc' \in {"snapshot", "idle"} /\ buffer' = << >> /\ safe' = sequence
      /\ UNCHANGED <<state, sequence, now, aof, snap, hist>>
      /\ Up /\ Up' /\ Len(hist) = sequence /\ sequence \in Nat
      /\ Len(buffer') = 0 /\ 1..Len(buffer') = {} /\ sequence - Len(buffer') = sequence
  BY DEF AppendOk, Up, Working, TypeOK
<1>1. ShownTrue'
  BY <1>0 DEF ShownTrue, LineTrue, At
<1>2. Safe' /\ Reading' /\ Appending'
  BY <1>0 DEF Safe, Reading, Replaying, Appending
<1>3. Reaches(aof, sequence)
  BY <1>0 DEF Appending
<1>4. Working'
  BY <1>0, <1>3 DEF Working, Reaches, At
<1> QED BY <1>1, <1>2, <1>4 DEF KillRest

LEMMA KillSnapshot ==
  ASSUME KillInv, RenameSnapshot
  PROVE  KillRest'
<1> USE DEF KillInv
<1>0. /\ pc = "snapshot" /\ pc' = "snapdir"
      /\ snap' = [seq |-> sequence, entries |-> [k \in Keys |-> Stored(Live(state, now)[k])]]
      /\ UNCHANGED <<state, buffer, sequence, now, aof, hist, safe>>
  BY DEF RenameSnapshot, mem, ghost
<1>1. /\ buffer = << >> /\ Len(hist) = sequence /\ Agree(state, At(sequence), now)
      /\ state \in States /\ now \in Nat /\ sequence \in Nat
  BY <1>0 DEF Appending, Working, Up, TypeOK
<1>2. snap'.entries = Live(state, now)
  <2>1. Live(state, now) \in States
    BY <1>1, LiveType
  <2>2. \A k \in Keys : Stored(Live(state, now)[k]) = Live(state, now)[k]
    BY <2>1, StoredIdentity DEF States
  <2> QED BY <1>0, <2>1, <2>2 DEF States
<1>3. Agree(snap.entries, At(snap.seq), now)'
  <2>1. Agree(Live(state, now), state, now)
    BY <1>1, LiveAgrees
  <2>2. At(snap.seq)' = At(sequence)
    BY <1>0 DEF At
  <2> QED BY <1>0, <1>1, <1>2, <2>1, <2>2 DEF Agree
<1>4. ShownTrue'
  BY <1>0, <1>1, <1>3 DEF ShownTrue, LineTrue, At
<1>5. Safe' /\ Reading' /\ Appending'
  BY <1>0, <1>1 DEF Safe, Reading, Replaying, Appending
<1>6. Working'
  <2>1. Covers(aof, sequence, sequence - Len(buffer))
    BY <1>1 DEF Covers
  <2>2. Reaches(aof, sequence - Len(buffer))'
    BY <1>0, <2>1 DEF Reaches
  <2> QED BY <1>0, <2>2 DEF Working, Up, At
<1> QED BY <1>4, <1>5, <1>6 DEF KillRest

\* The directory is synced after the rename: the snapshot makes all of it safe.
LEMMA KillSnapshotDir ==
  ASSUME KillInv, SnapshotDirOk
  PROVE  KillRest'
<1> USE DEF KillInv
<1>0. /\ pc = "snapdir" /\ pc' = "clear" /\ safe' = sequence
      /\ UNCHANGED <<state, buffer, sequence, now, aof, snap, hist>>
      /\ buffer = << >> /\ Len(hist) = sequence /\ sequence \in Nat /\ snap.seq = sequence
  BY DEF SnapshotDirOk, mem, Working, Up, TypeOK, Appending
<1>1. ShownTrue'
  BY <1>0 DEF ShownTrue, LineTrue, At
<1>2. Safe' /\ Reading' /\ Appending'
  BY <1>0 DEF Safe, Reading, Replaying, Appending
<1>3. Working'
  BY <1>0 DEF Working, Up, Reaches, At
<1> QED BY <1>1, <1>2, <1>3 DEF KillRest

LEMMA KillClear ==
  ASSUME KillInv, ClearAOF
  PROVE  KillRest'
<1> USE DEF KillInv
<1>0. /\ pc = "clear" /\ pc' = "cleardir" /\ aof' = EmptyFile /\ Lines(EmptyFile) = {}
      /\ UNCHANGED <<state, buffer, sequence, now, snap, hist, safe>>
      /\ buffer = << >> /\ sequence \in Nat /\ snap.seq = sequence
  BY DEF ClearAOF, mem, ghost, TypeOK, Appending, EmptyFile, Lines
<1>1. ShownTrue'
  BY <1>0 DEF ShownTrue, LineTrue, At
<1>2. Safe' /\ Reading' /\ Appending'
  BY <1>0 DEF Safe, Reading, Replaying, Appending
<1>3. Covers(EmptyFile, snap.seq, sequence - Len(buffer))
  BY <1>0 DEF Covers
<1>4. Working'
  BY <1>0, <1>3 DEF Working, Up, Reaches, At
<1> QED BY <1>1, <1>2, <1>4 DEF KillRest

\* The process is gone, the files are not.
LEMMA KillStop ==
  ASSUME KillInv, Exit \/ Kill
  PROVE  KillRest'
<1> USE DEF KillInv
<1>0. /\ pc' = "down" /\ ~Up' /\ buffer' = << >> /\ Len(buffer') = 0
      /\ UNCHANGED <<now, aof, snap, hist, safe>>
  BY DEF Exit, Kill, Forget, files, ghost, Up
<1>1. ShownTrue'
  BY <1>0 DEF ShownTrue, LineTrue, At
<1>2. Safe' /\ Reading' /\ Appending'
  BY <1>0 DEF Safe, Reading, Replaying, Appending
<1>3. Reaches(aof, safe)
  <2>1. safe \in Int /\ sequence - Len(buffer) \in Int /\ snap.seq \in Nat
    BY DEF TypeOK, Snapshots
  <2>2. CASE Up
    <3>1. safe <= sequence - Len(buffer) /\ Reaches(aof, sequence - Len(buffer))
      BY <2>2 DEF Working
    <3> QED BY <2>1, <3>1, ReachesLess
  <2>3. CASE ~Up
    BY <2>3 DEF Working
  <2> QED BY <2>2, <2>3
<1>4. Working'
  BY <1>0, <1>3 DEF Working, Reaches
<1> QED BY <1>1, <1>2, <1>4 DEF KillRest

LEMMA KillTick ==
  ASSUME KillInv, TypeOK', Tick
  PROVE  KillRest'
<1> USE DEF KillInv
<1>0. /\ now' = now + 1 /\ now \in Nat
      /\ UNCHANGED <<state, buffer, sequence, pc, cursor, mark, aof, snap, hist, safe>>
  BY DEF Tick, mem, ctl, files, ghost, TypeOK
<1>1. ASSUME NEW s \in States, NEW n \in 0..Len(hist), Agree(s, At(n), now)
      PROVE  Agree(s, At(n), now')
  BY <1>0, <1>1, AtType, AgreeLater
<1>2. ShownTrue'
  <2>1. snap.entries \in States /\ snap.seq \in 0..Len(hist)
    BY DEF ShownTrue, TypeOK, Snapshots
  <2>2. Agree(snap.entries, At(snap.seq), now')
    BY <1>1, <2>1 DEF ShownTrue
  <2> QED BY <1>0, <2>2 DEF ShownTrue, LineTrue, At
<1>3. Safe' /\ Appending'
  BY <1>0 DEF Safe, Appending, Reaches
<1>4. Reading'
  <2>1. pc = "replay" => sequence \in 0..Len(hist) /\ Agree(state, At(sequence), now)
    BY DEF Reading, Replaying, TypeOK, Snapshots
  <2>2. pc = "replay" => Agree(state, At(sequence), now')
    BY <1>1, <2>1 DEF TypeOK
  <2> QED BY <1>0, <2>2 DEF Reading, Replaying, At
<1>5. Working'
  <2>1. Up => sequence \in 0..Len(hist) /\ Agree(state, At(sequence), now)
    BY DEF Working, TypeOK
  <2>2. Up => Agree(state, At(sequence), now')
    BY <1>1, <2>1 DEF TypeOK
  <2> QED BY <1>0, <2>2 DEF Working, Up, Reaches, At
<1> QED BY <1>2, <1>3, <1>4, <1>5 DEF KillRest

LEMMA InitKill == Init => KillInv
<1> SUFFICES ASSUME Init PROVE KillInv
  OBVIOUS
<1>1. /\ pc = "down" /\ aof = EmptyFile /\ Lines(EmptyFile) = {}
      /\ Len(hist) = 0 /\ Len(buffer) = 0 /\ buffer = << >> /\ snap.seq = 0 /\ safe = 0
      /\ snap.entries = EmptyState
  BY DEF Init, Lines, EmptyFile, NoSnapshot
<1>2. TypeOK
  BY InitTypes
<1>3. ShownTrue
  BY <1>1 DEF ShownTrue, Agree, At
<1>4. Safe /\ Reading /\ Appending
  BY <1>1 DEF Safe, Reading, Replaying, Appending
<1>5. Working
  BY <1>1 DEF Working, Up, Reaches, Covers
<1> QED BY <1>2, <1>3, <1>4, <1>5 DEF KillInv

LEMMA StepKill ==
  ASSUME KillInv, [Next]_vars, "power" \notin Faults
  PROVE  KillInv'
<1>1. TypeOK'
  BY NextTypes DEF KillInv, Reading, Working
<1>2. Start => KillRest'
  BY <1>1, KillLoad, KillReplay, KillFinish DEF Start
<1>3. Command => KillRest'
  BY <1>1, KillCommand
<1>4. Flush \/ Snapshot \/ Close \/ DiskCallFails => KillRest'
  BY KillQuiet DEF Flush, Snapshot, Close, DiskCallFails, BeginAppend, Up, mem, ctl, files, ghost
<1>5. AppendSteps => KillRest'
  <2>1. SyncOk \/ SyncFails => KillRest'
    BY KillQuiet DEF SyncOk, SyncFails, Up, mem, files, ghost
  <2> QED BY <1>1, <2>1, KillWrite, KillRepair, KillAppend DEF AppendSteps
<1>6. Compact => KillRest'
  <2>1. ClearDirOk => KillRest'
    BY KillQuiet DEF ClearDirOk, Up, mem, ghost
  <2> QED BY <2>1, KillSnapshot, KillSnapshotDir, KillClear DEF Compact
<1>7. Exit \/ Kill \/ Tick => KillRest'
  BY <1>1, KillStop, KillTick
<1>8. ~PowerLoss
  BY DEF PowerLoss
<1>9. UNCHANGED vars => KillRest'
  BY DEF KillInv, KillRest, Safe, ShownTrue, Reading, Replaying, Working, Appending, Reaches,
         LineTrue, At, Up, vars, mem, ctl, files, ghost
<1> QED BY <1>1, <1>2, <1>3, <1>4, <1>5, <1>6, <1>7, <1>8, <1>9 DEF Next, KillInv, KillRest

----------------------------------------------------------------------------
(* The invariant and what follows from it                                  *)

LEMMA InitInvariant == Init => IInv
<1> SUFFICES ASSUME Init PROVE IInv
  OBVIOUS
<1>1. /\ pc = "down" /\ Images = {EmptyFile} /\ Lines(EmptyFile) = {}
      /\ Len(hist) = 0 /\ Len(buffer) = 0 /\ buffer = << >> /\ NoSnapshot.seq = 0
      /\ NoSnapshot.entries = EmptyState
  BY DEF Init, Images, Lines, EmptyFile, NoSnapshot
<1>2. TypeOK
  BY InitTypes
<1>3. AllTrue /\ FilesLead
  BY <1>1 DEF Init, AllTrue, FilesLead, Agree, At
<1>4. WholeLines /\ Safe /\ Replaying /\ Running /\ Saving
  BY <1>1 DEF Init, WholeLines, Safe, Replaying, Running, Saving, Up
<1>5. AnyPairRestores /\ SnapshotsLinked
  BY <1>1 DEF Init, AnyPairRestores, SnapshotsLinked, Gapless, Covers
<1> QED BY <1>2, <1>3, <1>4, <1>5 DEF IInv

LEMMA StepInvariant ==
  ASSUME IInv, [Next]_vars, "repair" \notin Faults
  PROVE  IInv'
<1>1. TypeOK'
  BY NextTypes DEF IInv, Running
<1>2. CASE Next
  <2>1. Start => Rest'
    BY <1>1, LoadFilesStep, LoadFailsStep, ReplayLineStep, FinishRestoreStep DEF Start
  <2>2. Command => Rest'
    BY <1>1, CommandStep
  <2>3. Flush \/ Snapshot \/ Close \/ DiskCallFails => Rest'
    BY BeginStep
  <2>4. AppendSteps \/ Compact => Rest'
    BY <1>1, SaveStep
  <2>5. Exit \/ Kill \/ PowerLoss \/ Tick => Rest'
    BY <1>1, ProcessStopStep, PowerLossStep, TickStep
  <2>6. Rest'
    BY <1>2, <2>1, <2>2, <2>3, <2>4, <2>5 DEF Next
  <2> QED BY <1>1, <2>6 DEF Rest, IInv
<1>3. CASE UNCHANGED vars
  <2>1. /\ UNCHANGED <<state, buffer, sequence, pc, cursor, mark, now, safe, hist>>
        /\ UNCHANGED <<aof, aofNew, aofOld, snap, snapAlts>>
    BY <1>3 DEF vars, mem, ctl, files, ghost
  <2>2. AllTrue' /\ FilesLead' /\ WholeLines' /\ AnyPairRestores'
    BY <2>1 DEF IInv, AllTrue, FilesLead, WholeLines, AnyPairRestores, Images, LineTrue, At
  <2>3. SnapshotsLinked' /\ Safe' /\ Replaying' /\ Running' /\ Saving'
    BY <2>1 DEF IInv, SnapshotsLinked, Safe, Replaying, Running, Saving, Up, At
  <2> QED BY <1>1, <2>2, <2>3 DEF IInv
<1> QED BY <1>2, <1>3

\* The inductive invariant holds in every reachable state.
THEOREM Invariance ==
  ASSUME "repair" \notin Faults
  PROVE  Spec => []IInv
<1>1. Init => IInv
  BY InitInvariant
<1>2. IInv /\ [Next]_vars => IInv'
  BY StepInvariant
<1> QED BY <1>1, <1>2, PTL DEF Spec

\* KillInv does, when no power is lost.
THEOREM KillInvariance ==
  ASSUME "power" \notin Faults
  PROVE  Spec => []KillInv
<1>1. Init => KillInv
  BY InitKill
<1>2. KillInv /\ [Next]_vars => KillInv'
  BY StepKill
<1> QED BY <1>1, <1>2, PTL DEF Spec

\* Together they leave out only the failed undo that a power loss brings back.
LEMMA SoundAlways ==
  ASSUME ~({"power", "repair"} \subseteq Faults)
  PROVE  Spec => []Sound
<1>1. IInv => Sound
  <2> SUFFICES ASSUME IInv PROVE Sound
    OBVIOUS
  <2>1. TypeOK /\ Safe /\ (Up => Len(hist) = sequence /\ Agree(state, At(sequence), now))
    BY DEF IInv, Running
  <2>2. safe \in Nat /\ sequence \in Nat /\ Len(hist) \in Nat
    BY <2>1 DEF TypeOK
  <2>3. pc = "replay" /\ cursor \notin Lines(aof) => sequence \in safe..Len(hist)
    BY <2>2, ReplayReached
  <2> QED BY <2>1, <2>3 DEF Sound
<1>2. KillInv => Sound
  <2> SUFFICES ASSUME KillInv PROVE Sound
    OBVIOUS
  <2>1. TypeOK /\ Safe /\ (Up => Len(hist) = sequence /\ Agree(state, At(sequence), now))
    BY DEF KillInv, Working
  <2>2. safe \in Nat /\ sequence \in Nat /\ Len(hist) \in Nat
    BY <2>1 DEF TypeOK
  <2>3. pc = "replay" /\ cursor \notin Lines(aof) => sequence \in safe..Len(hist)
    BY <2>2, KillReached
  <2> QED BY <2>1, <2>3 DEF Sound
<1>3. CASE "repair" \notin Faults
  BY <1>1, <1>3, Invariance, PTL
<1>4. CASE "power" \notin Faults
  BY <1>2, <1>4, KillInvariance, PTL
<1> QED BY <1>3, <1>4

\* Type correctness (engine.go, persistence.go, storage.go: every variable).
THEOREM TypeCorrect ==
  ASSUME ~({"power", "repair"} \subseteq Faults)
  PROVE  Spec => []TypeOK
<1>1. Sound => TypeOK
  BY DEF Sound
<1> QED BY <1>1, SoundAlways, PTL

\* After kills, power losses and disk errors in any number and at any point, a
\* start is never refused (persistence.go:85,94; storage.go:67).
THEOREM StartsAlwaysSucceed ==
  ASSUME "repair" \notin Faults
  PROVE  Spec => []RestoreNeverRefuses
<1>1. IInv => RestoreNeverRefuses
  <2> SUFFICES ASSUME IInv PROVE RestoreNeverRefuses
    OBVIOUS
  <2>1. \A i \in Lines(aof) : aof.ops[i].seq # 0
    BY LineBounds DEF IInv, FilesLead, Images, Op
  <2>2. Readable(aof)
    BY <2>1 DEF Readable, Corrupt
  <2> QED BY <2>2, NextLineFollows DEF RestoreNeverRefuses
<1> QED BY <1>1, Invariance, PTL

\* The engine that answers serves the map its history leads to, all that was
\* promised included (engine.go:63-147, persistence.go:57-115).
THEOREM HistoryServed ==
  ASSUME ~({"power", "repair"} \subseteq Faults)
  PROVE  Spec => []ServesHistory
<1>1. Sound => ServesHistory
  BY DEF Sound, Safe, ServesHistory, TypeOK
<1> QED BY <1>1, SoundAlways, PTL

\* What a flush, a snapshot or a close has saved is never taken back
\* (engine.go:137-147, persistence.go:20-55, 57-115).
THEOREM SavesLast ==
  ASSUME ~({"power", "repair"} \subseteq Faults)
  PROVE  Spec => SafePrefixKept
<1> DEFINE Kept == /\ safe <= safe' /\ safe <= Len(hist')
                   /\ \A n \in 1..safe : hist'[n] = hist[n]
<1>1. ASSUME Sound, [Next]_vars PROVE [Kept]_vars
  <2>1. /\ hist \in Seq(States) /\ safe \in Nat /\ Len(hist) \in Nat /\ safe <= Len(hist)
        /\ sequence \in Nat
    BY <1>1 DEF Sound, TypeOK, Safe
  <2>2. CASE hist' = hist /\ safe' = safe
    BY <2>1, <2>2
  <2>3. ASSUME NEW k \in Keys, NEW e, Record(k, e), safe' = safe PROVE Kept
    <3>1. PICK X : hist' = Append(hist, X)
      BY <2>3 DEF Record
    <3>2. Len(hist') = Len(hist) + 1 /\ \A n \in 1..Len(hist) : hist'[n] = hist[n]
      BY <2>1, <3>1, AppendProperties
    <3> QED BY <2>1, <2>3, <3>2
  <2>4. CASE Command
    BY <2>2, <2>3, <2>4
       DEF Command, Set, Delete, GetExpired, Evict, SweepExpired, GetWhere, Collect, ghost
  <2>5. CASE Start
    <3>1. CASE FinishRestore
      <4>1. sequence \in 0..Len(hist) /\ safe <= sequence
        BY <1>1, <2>1, <3>1 DEF FinishRestore, Sound
      <4>2. hist' = SubSeq(hist, 1, sequence) /\ safe' = safe
        BY <3>1 DEF FinishRestore
      <4>3. Len(hist') = sequence /\ \A n \in 1..sequence : hist'[n] = hist[n]
        BY <2>1, <4>1, <4>2
      <4> QED BY <2>1, <4>1, <4>2, <4>3
    <3> QED BY <2>2, <2>5, <3>1 DEF Start, LoadFiles, LoadFails, ReplayLine, ghost
  <2>6. CASE Flush \/ Snapshot \/ Close \/ DiskCallFails
    BY <2>2, <2>6 DEF Flush, Snapshot, Close, DiskCallFails, BeginAppend, ghost
  <2>7. CASE AppendOk \/ SnapshotDirOk
    <3>1. hist' = hist /\ safe' = sequence /\ Up
      BY <2>7 DEF AppendOk, SnapshotDirOk, Up
    <3>2. Len(hist) = sequence
      BY <1>1, <3>1 DEF Sound
    <3> QED BY <2>1, <3>1, <3>2
  <2>8. CASE (AppendSteps \/ Compact) /\ ~AppendOk /\ ~SnapshotDirOk
    BY <2>2, <2>8 DEF AppendSteps, Compact, WriteLines, SyncOk, SyncFails, Repair, RepairFails,
                      RenameSnapshot, ClearAOF, ClearDirOk, ghost
  <2>9. CASE Exit \/ Kill \/ PowerLoss \/ Tick
    BY <2>2, <2>9 DEF Exit, Kill, PowerLoss, Forget, Tick, ghost
  <2>10. CASE UNCHANGED vars
    BY <2>10
  <2> QED BY <1>1, <2>4, <2>5, <2>6, <2>7, <2>8, <2>9, <2>10 DEF Next
<1>2. Spec => []Sound
  BY SoundAlways
<1>3. Sound /\ [Next]_vars => [Kept]_vars
  BY <1>1
<1>4. Spec => [][Kept]_vars
  BY <1>2, <1>3, PTL DEF Spec
<1> QED BY <1>4 DEF SafePrefixKept

\* The index files the keys of the map under their values after every command,
\* eviction and start (engine.go:88-91, 131-133; persistence.go:107-113).
THEOREM IndexFollowsMap ==
  ASSUME ~({"power", "repair"} \subseteq Faults)
  PROVE  Spec => []IndexMatchesState
<1>1. Init => IndexMatchesState
  BY DEF Init, IndexMatchesState, Up
<1>2. ASSUME Sound, IndexMatchesState, [Next]_vars PROVE IndexMatchesState'
  <2>1. state \in States /\ index \in [Keys -> Values \cup {NoValue}]
    BY <1>2 DEF Sound, TypeOK
  <2>2. ASSUME NEW k \in Keys, NEW e, Record(k, e), Up PROVE IndexMatchesState'
    <3>1. index = [j \in Keys |-> state[j].val]
      BY <1>2, <2>2 DEF IndexMatchesState, Filed
    <3>2. state' = [state EXCEPT ![k] = e] /\ index' = [index EXCEPT ![k] = e.val]
      BY <2>2 DEF Record
    <3>3. \A j \in Keys : index'[j] = state'[j].val
      BY <2>1, <3>1, <3>2 DEF States
    <3>4. index' = [j \in Keys |-> state'[j].val]
      BY <2>1, <3>2, <3>3
    <3> QED BY <3>4 DEF IndexMatchesState, Filed
  <2>3. ASSUME UNCHANGED <<state, index>>, Up' => Up PROVE IndexMatchesState'
    BY <1>2, <2>3 DEF IndexMatchesState, Filed
  <2>4. CASE Command
    BY <2>2, <2>3, <2>4 DEF Command, Set, Delete, GetExpired, Evict, SweepExpired, GetWhere,
                            Collect, mem, Up
  <2>5. CASE Start
    BY <2>3, <2>5 DEF Start, LoadFiles, LoadFails, ReplayLine, FinishRestore, mem, ctl, Up,
                      IndexMatchesState, Filed
  <2>6. CASE Flush \/ Snapshot \/ Close \/ DiskCallFails
    BY <2>3, <2>6 DEF Flush, Snapshot, Close, DiskCallFails, BeginAppend, mem, ctl, Up
  <2>7. CASE AppendSteps \/ Compact
    BY <2>3, <2>7 DEF AppendSteps, Compact, WriteLines, SyncOk, SyncFails, Repair, RepairFails,
                      AppendOk, RenameSnapshot, SnapshotDirOk, ClearAOF, ClearDirOk, mem, Up
  <2>8. CASE Exit \/ Kill \/ PowerLoss
    BY <2>8 DEF Exit, Kill, PowerLoss, Forget, IndexMatchesState, Up
  <2>9. CASE Tick \/ UNCHANGED vars
    BY <2>3, <2>9 DEF Tick, vars, mem, ctl, Up
  <2> QED BY <1>2, <2>4, <2>5, <2>6, <2>7, <2>8, <2>9 DEF Next
<1> QED BY <1>1, <1>2, SoundAlways, PTL DEF Spec

----------------------------------------------------------------------------
(* What the engine promises: it implements DurableMap.tla, each of its steps *)
(* is one of the abstract map or leaves it alone, and a brutal stop takes    *)
(* only what is still in its buffer.                                         *)

\* DurableMap's own copy of Journal is this one.
LEMMA SameJournal ==
  /\ Promised!NoEntry = NoEntry /\ Promised!Entry = Entry
  /\ Promised!EmptyState = EmptyState
  /\ \A s, t : Promised!Live(s, t) = Live(s, t)
BY DEF Promised!NoEntry, NoEntry, Promised!Entry, Entry, Promised!EmptyState, EmptyState,
       Promised!Live, Live, Promised!Expired, Expired

\* What readers see, as the refinement mapping has it.
View == IF Up THEN Live(state, now) ELSE EmptyState

\* It is what the end of the history shows.
LEMMA ViewShown ==
  ASSUME Sound
  PROVE  View = Promised!Shown(hist, Up, now)
<1>1. CASE Up
  <2>1. Len(hist) = sequence /\ Agree(state, At(sequence), now)
    BY <1>1 DEF Sound
  <2>2. Promised!After(hist, Len(hist)) = At(sequence)
    BY <2>1, SameJournal DEF Promised!After, At
  <2> QED BY <1>1, <2>1, <2>2, SameJournal DEF View, Promised!Shown, Agree
<1>2. CASE ~Up
  BY <1>2, SameJournal DEF View, Promised!Shown
<1> QED BY <1>1, <1>2

\* The five kinds of steps the abstract map can take, or none.
Move ==
  \/ Promised!Commit \/ Promised!Promise \/ Promised!Stop \/ Promised!Recover
  \/ Promised!Pass
  \/ UNCHANGED <<hist, safe, Up, now>>

LEMMA CommandMoves ==
  ASSUME Sound, Command
  PROVE  Move
<1>1. ASSUME NEW k \in Keys, NEW e \in Entry \cup {NoEntry}, Record(k, e), Up, Up',
             now' = now, safe' = safe
      PROVE  Promised!Commit
  <2>1. Len(hist) = sequence
    BY <1>1 DEF Sound
  <2>2. Promised!After(hist, Len(hist)) = At(sequence)
    BY <2>1, SameJournal DEF Promised!After, At
  <2>3. hist' = Append(hist, [Promised!After(hist, Len(hist)) EXCEPT ![k] = e])
    BY <1>1, <2>2 DEF Record
  <2> QED BY <1>1, <2>3, SameJournal DEF Promised!Commit
<1>2. ASSUME NEW k \in Keys, NEW v \in Values, NEW ttl \in TTLs, Set(k, v, ttl)
      PROVE  Promised!Commit
  <2>1. PICK e \in Entry \cup {NoEntry} : /\ Record(k, e) /\ pc = "idle"
                                          /\ UNCHANGED <<closed, returned, ctl, now, files, safe>>
    BY <1>2, SetRecords DEF Sound
  <2>2. Up /\ Up'
    BY <2>1 DEF Up, ctl
  <2> QED BY <1>1, <2>1, <2>2
<1>3. ASSUME NEW k \in Keys, Delete(k) \/ GetExpired(k) \/ Evict(k)
      PROVE  Promised!Commit
  <2>1. /\ Record(k, NoEntry) /\ Up /\ Up' /\ now' = now /\ safe' = safe
    BY <1>3 DEF Delete, GetExpired, Evict, ctl, Up
  <2> QED BY <1>1, <2>1
<1>4. ASSUME NEW ks, Collect(ks) PROVE UNCHANGED <<hist, safe, Up, now>>
  BY <1>4 DEF Collect, Up, ghost
<1> QED BY <1>2, <1>3, <1>4 DEF Command, SweepExpired, GetWhere, Move

LEMMA NextMoves ==
  ASSUME Sound, [Next]_vars
  PROVE  Move
<1>1. CASE Command
  BY <1>1, CommandMoves
<1>2. CASE FinishRestore
  <2>1. sequence \in 0..Len(hist) /\ safe <= sequence
    BY <1>2 DEF FinishRestore, Sound, TypeOK
  <2>2. sequence \in safe..Len(hist)
    BY <2>1 DEF Sound, TypeOK
  <2>3. /\ hist' = SubSeq(hist, 1, sequence) /\ ~Up /\ Up' /\ safe' = safe /\ now' = now
    BY <1>2 DEF FinishRestore, Up
  <2>4. Promised!Recover
    BY <2>2, <2>3 DEF Promised!Recover
  <2> QED BY <2>4 DEF Move
<1>3. CASE LoadFiles \/ LoadFails \/ ReplayLine
  BY <1>3 DEF LoadFiles, LoadFails, ReplayLine, ctl, ghost, Up, Move
<1>4. CASE Flush \/ Snapshot \/ Close \/ DiskCallFails
  BY <1>4 DEF Flush, Snapshot, Close, DiskCallFails, BeginAppend, ctl, ghost, Up, Move
<1>5. CASE AppendOk \/ SnapshotDirOk
  <2>1. hist' = hist /\ safe' = sequence /\ Up /\ Up' /\ now' = now
    BY <1>5 DEF AppendOk, SnapshotDirOk, Up
  <2>2. Len(hist) = sequence
    BY <2>1 DEF Sound
  <2>3. Promised!Promise
    BY <2>1, <2>2 DEF Promised!Promise
  <2> QED BY <2>3 DEF Move
<1>6. CASE (AppendSteps \/ Compact) /\ ~AppendOk /\ ~SnapshotDirOk
  BY <1>6 DEF AppendSteps, Compact, WriteLines, SyncOk, SyncFails, Repair, RepairFails,
              RenameSnapshot, ClearAOF, ClearDirOk, ghost, Up, Move
<1>7. CASE Exit \/ Kill \/ PowerLoss
  <2>1. hist' = hist /\ safe' = safe /\ now' = now /\ ~Up'
    BY <1>7 DEF Exit, Kill, PowerLoss, Forget, ghost, Up
  <2>2. Up' = FALSE
    BY <2>1 DEF Up
  <2>3. Promised!Stop
    BY <2>1, <2>2 DEF Promised!Stop
  <2> QED BY <2>3 DEF Move
<1>8. CASE Tick
  BY <1>8 DEF Tick, ctl, ghost, Up, Promised!Pass, Move
<1>9. CASE UNCHANGED vars
  BY <1>9 DEF vars, ctl, ghost, Up, Move
<1> QED BY <1>1, <1>2, <1>3, <1>4, <1>5, <1>6, <1>7, <1>8, <1>9 DEF Next, Start

\* The engine keeps every promise of DurableMap.tla (engine.go, persistence.go,
\* storage.go), for any keys, values and bounds and any faults but
\* power losses together with failed undos.
THEOREM Implements ==
  ASSUME ~({"power", "repair"} \subseteq Faults)
  PROVE  Spec => ImplementsDurableMap
<1>1. Init => Promised!DInit
  BY SameJournal DEF Init, Promised!DInit, Promised!Shown, Up
<1>2. Sound => (View = Promised!Shown(hist, Up, now))
  BY ViewShown
<1>3. Sound' => (View = Promised!Shown(hist, Up, now))'
  BY <1>2, PTL
<1>4. ASSUME Sound, Sound', [Next]_vars
      PROVE  [Promised!DNext]_(Promised!dvars)
  <2>1. View = Promised!Shown(hist, Up, now) /\ (View = Promised!Shown(hist, Up, now))'
    BY <1>4, <1>2, <1>3
  <2>2. Move
    BY <1>4, NextMoves
  <2>3. CASE UNCHANGED <<hist, safe, Up, now>>
    <3>1. Promised!Shown(hist, Up, now)' = Promised!Shown(hist, Up, now)
      BY <2>3 DEF Promised!Shown, Promised!After
    <3>2. View' = View
      BY <2>1, <3>1
    <3> QED BY <2>3, <3>2 DEF Promised!dvars, View
  <2> QED BY <2>1, <2>2, <2>3 DEF Move, Promised!DNext, Promised!Shown, View
<1>5. Spec => []Sound
  BY SoundAlways
<1>6. Spec => Promised!DSpec
  BY <1>1, <1>4, <1>5, PTL DEF Spec, Promised!DSpec
<1> QED BY <1>6 DEF ImplementsDurableMap

----------------------------------------------------------------------------
(* What a brutal stop takes: nothing that has left the buffer.             *)

\* No method that appends or removes runs in a closed engine.
LEMMA ClosingStep ==
  ASSUME IInv, Closing, [Next]_vars
  PROVE  Closing'
<1>1. CASE Start
  <2>1. closed' = closed /\ ~closed
    BY <1>1 DEF Start, LoadFiles, LoadFails, ReplayLine, FinishRestore, mem, Closing
  <2> QED BY <2>1 DEF Closing
<1>2. CASE Command
  <2>1. closed' = closed /\ ~closed
    BY <1>2 DEF Command, Set, Delete, GetExpired, Evict, SweepExpired, GetWhere, Collect, mem,
                Closing
  <2> QED BY <2>1 DEF Closing
<1>3. CASE Flush \/ Snapshot \/ Close
  BY <1>3 DEF Flush, Snapshot, Close, BeginAppend, mem, ctl, Closing
<1>4. CASE AppendSteps \/ Compact
  <2>1. CASE AppendOk
    BY <2>1 DEF AppendOk, Closing
  <2>2. CASE AppendSteps /\ ~AppendOk
    <3>1. closed' = closed /\ ~closed
      BY <2>2 DEF AppendSteps, WriteLines, SyncOk, SyncFails, Repair, RepairFails, mem, Closing
    <3> QED BY <3>1 DEF Closing
  <2>3. CASE Compact
    BY <2>3 DEF Compact, RenameSnapshot, SnapshotDirOk, ClearAOF, ClearDirOk, mem, Closing
  <2> QED BY <1>4, <2>1, <2>2, <2>3
<1>5. CASE DiskCallFails \/ Tick \/ UNCHANGED vars
  BY <1>5 DEF DiskCallFails, Tick, vars, mem, ctl, Closing
<1>6. CASE Exit \/ Kill \/ PowerLoss
  BY <1>6 DEF Exit, Kill, PowerLoss, Forget, Closing
<1> QED BY <1>1, <1>2, <1>3, <1>4, <1>5, <1>6 DEF Next

\* Every pair of images leads as far as the files do: to the last operation
\* that left the buffer and, while no engine runs, as far as Restore will read.
ImagesAlike ==
  \A c \in Images, s \in snapAlts :
    IF Up THEN Covers(c, s.seq, sequence - Len(buffer))
          ELSE \A m \in 0..Len(hist) : Covers(aof, snap.seq, m) => Covers(c, s.seq, m)

\* The part of ImagesAlike that speaks of a running engine.
Reached(n) == \A c \in Images, s \in snapAlts : Covers(c, s.seq, n)

\* A start reads no further than every pair of images leads.
LEMMA StartReaches ==
  ASSUME IInv, ImagesAlike, Start
  PROVE  ImagesAlike'
<1> USE DEF IInv
<1>0. ~Up /\ hist \in Seq(States) /\ aof \in File /\ aof \in aofNew
  BY DEF Start, LoadFiles, LoadFails, ReplayLine, FinishRestore, Up, TypeOK, FilesLead
<1>1. CASE LoadFiles \/ LoadFails
  <2>1. /\ ~Up' /\ aof' = Trimmed(aof) /\ hist' = hist
        /\ \A c \in Images' : c \in Images \/ c = aof'
        /\ UNCHANGED <<snap, snapAlts>>
    BY <1>1 DEF LoadFiles, LoadFails, Up, ctl, ghost, Images
  <2>2. \A lo, hi : Covers(aof', lo, hi) <=> Covers(aof, lo, hi)
    BY <1>0, <2>1, TrimWhole, SameLines
  <2>3. aof \in Images
    BY <1>0 DEF Images
  <2>4. ASSUME NEW c \in Images', NEW s \in snapAlts, NEW m \in 0..Len(hist),
               Covers(aof', snap.seq, m)
        PROVE  Covers(c, s.seq, m)
    BY <1>0, <2>1, <2>2, <2>3, <2>4 DEF ImagesAlike
  <2> QED BY <2>1, <2>4 DEF ImagesAlike
<1>2. CASE ReplayLine
  <2>1. ~Up' /\ UNCHANGED <<aof, aofNew, aofOld, snap, snapAlts, hist>>
    BY <1>2 DEF ReplayLine, files, ghost, Up
  <2> QED BY <1>0, <2>1 DEF ImagesAlike, Images
<1>3. CASE FinishRestore
  <2>1. /\ Up' /\ pc = "replay" /\ cursor \notin Lines(aof)
        /\ UNCHANGED <<buffer, sequence, aof, aofNew, aofOld, snap, snapAlts>>
    BY <1>3 DEF FinishRestore, files, Up
  <2>2. sequence \in 0..Len(hist) /\ Covers(aof, snap.seq, sequence)
    BY <2>1, ReplayReached DEF Replaying
  <2>3. sequence - Len(buffer) = sequence
    BY <1>0, <2>2 DEF Running
  <2> QED BY <1>0, <2>1, <2>2, <2>3 DEF ImagesAlike, Images
<1> QED BY <1>1, <1>2, <1>3 DEF Start

\* An append only lengthens what may be on the disk, and a compaction empties
\* the file only behind a snapshot that holds everything.
LEMMA SaveReaches ==
  ASSUME IInv, ImagesAlike, AppendSteps \/ Compact, "repair" \notin Faults
  PROVE  ImagesAlike'
<1> USE DEF IInv
<1> DEFINE base == sequence - Len(buffer)
<1>0. /\ Up /\ Up' /\ buffer \in Seq(Op) /\ sequence \in Nat /\ base \in Nat
      /\ ~RepairFails /\ sequence' = sequence
  BY DEF AppendSteps, Compact, WriteLines, SyncOk, SyncFails, Repair, RepairFails, AppendOk,
         RenameSnapshot, SnapshotDirOk, ClearAOF, ClearDirOk, mem, Up, TypeOK, Running
<1>1. Reached(base)
  BY <1>0 DEF Reached, ImagesAlike
<1>2. \A s \in snapAlts : s.seq \in Nat
  BY DEF TypeOK, Snapshots
<1>3. SUFFICES \A c \in Images', s \in snapAlts' : Covers(c, s.seq, sequence' - Len(buffer'))
  BY <1>0 DEF ImagesAlike
<1>4. ASSUME UNCHANGED <<buffer, snapAlts>>, Images' \subseteq Images
      PROVE  \A c \in Images', s \in snapAlts' : Covers(c, s.seq, sequence' - Len(buffer'))
  BY <1>0, <1>1, <1>4 DEF Reached
<1>5. ASSUME NEW k \in 0..Len(buffer), NEW t \in BOOLEAN, WriteLines(k, t)
      PROVE  \A c \in Images', s \in snapAlts' : Covers(c, s.seq, sequence' - Len(buffer'))
  <2>1. /\ aofNew' = aofNew \cup Portions(aof, buffer, k, t)
        /\ aof \in File /\ ~aof.torn /\ aof \in Images
        /\ UNCHANGED <<buffer, aofOld, snapAlts>>
    BY <1>5 DEF WriteLines, mem, TypeOK, WholeLines, FilesLead, Images
  <2>2. ASSUME NEW c \in Portions(aof, buffer, k, t), NEW s \in snapAlts
        PROVE  Covers(c, s.seq, base)
    <3>1. PICK j \in 0..k, u \in BOOLEAN : c = Extend(aof, buffer, j, u)
      BY PortionsExtend
    <3>2. j \in 0..Len(buffer) /\ Covers(aof, s.seq, base)
      BY <1>0, <1>1, <2>1 DEF Reached
    <3> QED BY <1>0, <1>2, <2>1, <3>1, <3>2, ExtendCovers
  <2>3. \A c \in Images' : c \in Images \/ c \in Portions(aof, buffer, k, t)
    BY <2>1 DEF Images
  <2> QED BY <1>0, <1>1, <2>1, <2>2, <2>3 DEF Reached
<1>6. CASE SyncOk \/ SyncFails
  <2>1. UNCHANGED <<buffer, snapAlts>> /\ Images' \subseteq Images
    BY <1>6 DEF SyncOk, SyncFails, mem, files, Images, FilesLead
  <2> QED BY <1>4, <2>1
<1>7. CASE Repair
  <2>1. UNCHANGED <<buffer, snapAlts>> /\ Images' \subseteq Images
    BY <1>7 DEF Repair, mem, Images, FilesLead
  <2> QED BY <1>4, <2>1
<1>8. CASE AppendOk
  <2>1. pc = "syncdir" /\ Images' = {aof} /\ snapAlts' = snapAlts /\ buffer' = << >>
    BY <1>8 DEF AppendOk, Images, Saving
  <2>2. \A s \in snapAlts : Covers(aof, s.seq, sequence)
    BY <2>1 DEF Saving
  <2>3. sequence' - Len(buffer') = sequence
    BY <1>0, <2>1
  <2> QED BY <2>1, <2>2, <2>3
<1>9. CASE RenameSnapshot
  <2>1. /\ buffer = << >> /\ buffer' = buffer /\ Images' = Images
        /\ snapAlts' = snapAlts \cup {snap'} /\ snap'.seq = sequence
    BY <1>9 DEF RenameSnapshot, Saving, mem, Images
  <2>2. sequence' - Len(buffer') = sequence /\ base = sequence
    BY <1>0, <2>1
  <2>3. \A c : Covers(c, snap'.seq, sequence)
    BY <1>0, <2>1 DEF Covers
  <2> QED BY <1>1, <2>1, <2>2, <2>3 DEF Reached
<1>10. CASE SnapshotDirOk
  <2>1. /\ UNCHANGED <<buffer, aofNew, aofOld>> /\ snapAlts' \subseteq snapAlts
    BY <1>10 DEF SnapshotDirOk, mem, FilesLead
  <2> QED BY <1>0, <1>1, <2>1 DEF Reached, Images
<1>11. CASE ClearAOF
  <2>1. /\ buffer = << >> /\ buffer' = buffer /\ snapAlts = {snap} /\ snapAlts' = snapAlts
        /\ snap.seq = sequence
    BY <1>11 DEF ClearAOF, Saving, mem
  <2>2. sequence' - Len(buffer') = sequence
    BY <1>0, <2>1
  <2>3. \A c : Covers(c, snap.seq, sequence)
    BY <1>0, <2>1 DEF Covers
  <2> QED BY <2>1, <2>2, <2>3
<1>12. CASE ClearDirOk
  <2>1. UNCHANGED <<buffer, snapAlts>> /\ Images' \subseteq Images
    BY <1>12 DEF ClearDirOk, mem, Images
  <2> QED BY <1>4, <2>1
<1> QED BY <1>0, <1>5, <1>6, <1>7, <1>8, <1>9, <1>10, <1>11, <1>12 DEF AppendSteps, Compact

\* A power loss, or a stop after a successful Close, leaves images that all say
\* the same.
LEMMA StopReaches ==
  ASSUME IInv, Closing, ImagesAlike, ((Exit \/ Kill) /\ closed) \/ PowerLoss
  PROVE  ImagesAlike'
<1> USE DEF IInv
<1>1. ~Up' /\ hist' = hist
  BY DEF Exit, Kill, PowerLoss, Forget, Up, ghost
<1>2. CASE (Exit \/ Kill) /\ closed
  <2>1. /\ Up /\ buffer = << >> /\ sequence \in Nat /\ Len(hist) = sequence
        /\ UNCHANGED <<aofNew, aofOld, snapAlts>>
    BY <1>2 DEF Exit, Kill, Up, Closing, files, Running, TypeOK
  <2>2. sequence - Len(buffer) = sequence
    BY <2>1
  <2>3. \A c \in Images, s \in snapAlts : Covers(c, s.seq, sequence)
    BY <2>1, <2>2 DEF ImagesAlike
  <2>4. \A c \in Images, s \in snapAlts, m \in 0..sequence : Covers(c, s.seq, m)
    <3>1. ASSUME NEW c \in Images, NEW s \in snapAlts, NEW m \in 0..sequence,
                 NEW i \in (s.seq + 1)..m
          PROVE  \E j \in Lines(c) : c.ops[j].seq = i
      <4>1. s.seq \in Nat /\ i \in (s.seq + 1)..sequence
        BY <2>1, <3>1 DEF TypeOK, Snapshots
      <4> QED BY <2>3, <4>1 DEF Covers
    <3> QED BY <3>1 DEF Covers
  <2> QED BY <1>1, <2>1, <2>4 DEF ImagesAlike, Images
<1>3. CASE PowerLoss
  <2>1. PICK c \in Images, s \in snapAlts :
          aof' = c /\ Images' = {c} /\ snap' = s /\ snapAlts' = {s}
    BY <1>3 DEF PowerLoss, Images
  <2> QED BY <1>1, <2>1 DEF ImagesAlike
<1> QED BY <1>2, <1>3

\* Only a stop without a successful Close leaves images that differ.
LEMMA AlikeStep ==
  ASSUME IInv, Closing, ImagesAlike, [Next]_vars, "repair" \notin Faults
  PROVE  ImagesAlike' \/ StopsUnclosed
<1>1. CASE Start
  BY <1>1, StartReaches
<1>2. ASSUME Up, Up', UNCHANGED <<buffer, sequence, aofNew, aofOld, snapAlts>>
      PROVE  ImagesAlike'
  BY <1>2 DEF ImagesAlike, Images
<1>3. CASE Command
  <2>1. ASSUME NEW k, NEW e, Record(k, e), UNCHANGED files
        PROVE  /\ sequence' - Len(buffer') = sequence - Len(buffer)
               /\ UNCHANGED <<aofNew, aofOld, snapAlts>>
    <3>1. /\ sequence' = sequence + 1 /\ sequence \in Nat /\ buffer \in Seq(Op)
          /\ \E x : buffer' = Append(buffer, x)
      BY <2>1 DEF Record, IInv, TypeOK
    <3>2. Len(buffer') = Len(buffer) + 1 /\ Len(buffer) \in Nat
      BY <3>1
    <3> QED BY <2>1, <3>1, <3>2 DEF files
  <2>2. /\ sequence' - Len(buffer') = sequence - Len(buffer)
        /\ UNCHANGED <<aofNew, aofOld, snapAlts>>
    BY <1>3, <2>1 DEF Command, Set, Delete, GetExpired, Evict, SweepExpired, GetWhere, Collect,
                      mem, files
  <2>3. Up /\ Up'
    BY <1>3 DEF Command, Set, Delete, GetExpired, Evict, SweepExpired, GetWhere, Collect, ctl, Up
  <2> QED BY <2>2, <2>3 DEF ImagesAlike, Images
<1>4. CASE Flush \/ Snapshot \/ Close \/ DiskCallFails
  BY <1>2, <1>4 DEF Flush, Snapshot, Close, DiskCallFails, BeginAppend, mem, ctl, files, Up
<1>5. CASE AppendSteps \/ Compact
  BY <1>5, SaveReaches
<1>6. CASE Exit \/ Kill \/ PowerLoss
  <2>1. CASE PowerLoss \/ ((Exit \/ Kill) /\ closed)
    BY <2>1, StopReaches
  <2>2. CASE (Exit \/ Kill) /\ ~closed
    <3>1. ~Up' /\ UNCHANGED files /\ hist' = hist
      BY <2>2 DEF Exit, Kill, Forget, Up, ghost
    <3>2. CASE Up
      BY <2>2, <3>1, <3>2 DEF StopsUnclosed
    <3>3. CASE ~Up
      BY <3>1, <3>3 DEF ImagesAlike, Images, files
    <3> QED BY <3>2, <3>3
  <2> QED BY <1>6, <2>1, <2>2
<1>7. CASE Tick \/ UNCHANGED vars
  <2>1. UNCHANGED <<pc, buffer, sequence, hist, aof, aofNew, aofOld, snap, snapAlts>>
    BY <1>7 DEF Tick, vars, mem, ctl, files, ghost
  <2> QED BY <2>1 DEF ImagesAlike, Images, Up
<1> QED BY <1>1, <1>3, <1>4, <1>5, <1>6, <1>7 DEF Next

\* A save that covers something new leaves nothing in the buffer and no image
\* that lacks it.
LEMMA SaveEnds ==
  ASSUME IInv, [Next]_vars, safe' # safe
  PROVE  ImagesAlike'
<1> USE DEF IInv
<1>1. AppendOk \/ SnapshotDirOk
  <2>1. ~Start
    BY DEF Start, LoadFiles, LoadFails, ReplayLine, FinishRestore, ghost
  <2>2. ~Command
    BY DEF Command, Set, Delete, GetExpired, Evict, SweepExpired, GetWhere, Collect, ghost
  <2>3. ~(Flush \/ Snapshot \/ Close \/ DiskCallFails)
    BY DEF Flush, Snapshot, Close, DiskCallFails, BeginAppend, ghost
  <2>4. AppendSteps => AppendOk
    BY DEF AppendSteps, WriteLines, SyncOk, SyncFails, Repair, RepairFails, ghost
  <2>5. Compact => SnapshotDirOk
    BY DEF Compact, RenameSnapshot, ClearAOF, ClearDirOk, ghost
  <2>6. ~(Exit \/ Kill \/ PowerLoss \/ Tick \/ UNCHANGED vars)
    BY DEF Exit, Kill, PowerLoss, Forget, Tick, vars, ghost
  <2> QED BY <2>1, <2>2, <2>3, <2>4, <2>5, <2>6 DEF Next
<1>2. CASE AppendOk
  <2>1. /\ pc = "syncdir" /\ Images' = {aof} /\ snapAlts' = snapAlts /\ Up'
        /\ buffer' = << >> /\ sequence' = sequence /\ sequence \in Nat
    BY <1>2 DEF AppendOk, Images, Saving, Up, TypeOK
  <2>2. \A s \in snapAlts : Covers(aof, s.seq, sequence)
    BY <2>1 DEF Saving
  <2>3. sequence' - Len(buffer') = sequence
    BY <2>1
  <2> QED BY <2>1, <2>2, <2>3 DEF ImagesAlike
<1>3. CASE SnapshotDirOk
  <2>1. /\ snapAlts' = {snap} /\ snap.seq = sequence /\ Up'
        /\ buffer' = << >> /\ sequence' = sequence /\ sequence \in Nat
    BY <1>3 DEF SnapshotDirOk, Saving, Up, TypeOK, mem
  <2>2. sequence' - Len(buffer') = sequence
    BY <2>1
  <2>3. \A c : Covers(c, snap.seq, sequence)
    BY <2>1 DEF Covers
  <2> QED BY <2>1, <2>2, <2>3 DEF ImagesAlike
<1> QED BY <1>1, <1>2, <1>3

\* The invariant behind what a power loss spares: any pair of images of the two
\* files replays without a gap up to what is safe, whichever way the process
\* that wrote them ended, and a closed engine has nothing in its buffer.
THEOREM DurableInvariance ==
  ASSUME "repair" \notin Faults
  PROVE  Spec => []DurableInv
<1>1. Init => DurableInv
  BY InitInvariant DEF DurableInv, Init, Closing
<1>2. DurableInv /\ [Next]_vars => DurableInv'
  BY StepInvariant, ClosingStep DEF DurableInv
<1> QED BY <1>1, <1>2, PTL DEF Spec

\* No step but a stop without a successful Close makes a later power loss take
\* more than the buffer, and each save of something new ends that danger
\* (storage.go, engine.go:137-147, persistence.go:20-55, main.go:72-80), for any
\* mix of kills, power losses, failed Closes and other disk errors whose undo
\* succeeds.
THEOREM GuardIsKept ==
  ASSUME "repair" \notin Faults
  PROVE  Spec => GuardKept
<1>1. ASSUME DurableInv, DurableInv', [Next]_vars, Guarded \/ safe' # safe
      PROVE  Guarded' \/ StopsUnclosed
  <2>1. CASE "power" \in Faults
    <3>1. /\ Guarded => ImagesAlike
          /\ ImagesAlike' => Guarded'
      BY <2>1 DEF Guarded, ImagesAlike, Survives, SurvivingAofs, SurvivingSnaps, Images
    <3>2. ImagesAlike' \/ StopsUnclosed
      BY <1>1, <3>1, AlikeStep, SaveEnds DEF DurableInv
    <3> QED BY <3>1, <3>2
  <2>2. CASE "power" \notin Faults
    \* Only the files as they show count, and Running speaks of them.
    <3>1. Up' => \A s \in snapAlts' : Covers(aof', s.seq, sequence' - Len(buffer'))
      BY <1>1 DEF DurableInv, IInv, Running
    <3>2. snap' \in snapAlts'
      BY <1>1 DEF DurableInv, IInv, FilesLead
    <3> QED BY <2>2, <3>1, <3>2 DEF Guarded, Survives, SurvivingAofs, SurvivingSnaps
  <2> QED BY <2>1, <2>2
<1>2. DurableInv /\ DurableInv' /\ [Next]_vars
        => [Guarded \/ safe' # safe => Guarded' \/ StopsUnclosed]_vars
  BY <1>1
<1> QED BY <1>2, DurableInvariance, PTL DEF Spec, GuardKept
============================================================================
