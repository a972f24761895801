---------------------------- MODULE QueuesProofs ----------------------------
(***************************************************************************)
(* Proofs about Queues.tla: for any number of queues, tasks, runs and        *)
(* clients.  What the readers of pages see comes at the end.                 *)
(***************************************************************************)
EXTENDS Queues, RanksProofs, SequenceTheorems

----------------------------------------------------------------------------
(* The invariant                                                           *)

QueuesTyped ==
  /\ queues \subseteq Names
  /\ tasks \in [Names -> Seq(Task)]
  /\ counts \in [Names -> [Statuses -> Nat]]
  /\ nextID \in Nat
  /\ started \in [Names -> Seq(Ids)]
  /\ runs \in Seq(Nat) /\ Len(runs) = nextID
  /\ reports \in Seq(Nat) /\ Len(reports) = nextID

\* Each number from 1 to nextID belongs to one task, at one place.
NumbersUnique ==
  /\ \A n \in Names : \A i \in Places(n) : tasks[n][i].id \in 1..nextID
  /\ \A m, n \in Names : \A i \in Places(m) : \A j \in Places(n) :
       tasks[m][i].id = tasks[n][j].id => m = n /\ i = j

\* The tasks that have been started are the first ones of the queue; the others
\* are all pending, and so the next to be claimed unless a retry comes before.
StartedFirst ==
  \A n \in Names :
    /\ Len(started[n]) <= Len(tasks[n])
    /\ \A i \in Places(n) :
         /\ i <= Len(started[n]) => started[n][i] = tasks[n][i].id
         /\ runs[tasks[n][i].id] > 0 <=> i <= Len(started[n])
         /\ i > Len(started[n]) => tasks[n][i].status = "pending"

IInv == QueuesTyped /\ NumbersUnique /\ StartedFirst /\ OneRunAtATime /\ CountsMatch

----------------------------------------------------------------------------
(* Places and numbers                                                      *)

LEMMA TaskAt ==
  ASSUME QueuesTyped, NEW n \in Names
  PROVE  /\ tasks[n] \in Seq(Task) /\ Len(tasks[n]) \in Nat
         /\ Places(n) = 1..Len(tasks[n])
         /\ \A i \in Places(n) : /\ tasks[n][i] \in Task
                                 /\ tasks[n][i].id \in Ids
                                 /\ tasks[n][i].status \in Statuses
  <1>1. tasks[n] \in Seq(Task)
    BY DEF QueuesTyped
  <1>2. Len(tasks[n]) \in Nat /\ \A i \in 1..Len(tasks[n]) : tasks[n][i] \in Task
    BY <1>1, LenProperties, ElementOfSeq
  <1> QED
    BY <1>1, <1>2 DEF Places, Task

LEMMA WithStatusFinite ==
  ASSUME QueuesTyped, NEW n \in Names, NEW s
  PROVE  /\ IsFiniteSet(WithStatus(n, s)) /\ Cardinality(WithStatus(n, s)) \in Nat
         /\ WithStatus(n, s) \subseteq Places(n)
  <1>1. IsFiniteSet(Places(n))
    BY TaskAt, FS_Interval
  <1>2. WithStatus(n, s) \in SUBSET Places(n)
    BY DEF WithStatus
  <1> QED
    BY <1>1, <1>2, FS_Subset, FS_CardinalityType

\* A task changes its status, and nothing else of it or of the others changes.
Moved(name, i, status) ==
  /\ tasks' \in [Names -> Seq(Task)]
  /\ \A n \in Names : Len(tasks'[n]) = Len(tasks[n])
  /\ \A n \in Names : \A j \in Places(n) :
       /\ tasks'[n][j].id = tasks[n][j].id
       /\ tasks'[n][j].status = IF n = name /\ j = i THEN status ELSE tasks[n][j].status

LEMMA MoveMoves ==
  ASSUME QueuesTyped, NEW name \in Names, NEW i \in Places(name), NEW status \in Statuses,
         Move(name, i, status)
  PROVE  Moved(name, i, status)
  <1> DEFINE t == [tasks[name][i] EXCEPT !.status = status]
             s == [tasks[name] EXCEPT ![i] = t]
  <1>1. tasks' = [tasks EXCEPT ![name] = s]
    BY DEF Move
  <1>2. t \in Task /\ t.id = tasks[name][i].id /\ t.status = status
    BY TaskAt DEF Task
  <1>3. i \in 1..Len(tasks[name]) /\ tasks[name] \in Seq(Task)
    BY TaskAt
  <1> HIDE DEF t
  <1>4. s \in Seq(Task) /\ Len(s) = Len(tasks[name])
        /\ \A j \in 1..Len(tasks[name]) : s[j] = IF j = i THEN t ELSE tasks[name][j]
    BY <1>2, <1>3, ExceptSeq
  <1> HIDE DEF s
  <1>5. tasks' \in [Names -> Seq(Task)] /\ tasks'[name] = s
        /\ \A n \in Names \ {name} : tasks'[n] = tasks[n]
    BY <1>1, <1>4 DEF QueuesTyped
  <1>6. ASSUME NEW n \in Names, NEW j \in Places(n)
        PROVE  /\ tasks'[n][j].id = tasks[n][j].id
               /\ tasks'[n][j].status = IF n = name /\ j = i THEN status ELSE tasks[n][j].status
    <2>1. CASE n = name
      BY <1>2, <1>4, <1>5, <2>1 DEF Places
    <2>2. CASE n # name
      BY <1>5, <2>2
    <2> QED
      BY <2>1, <2>2
  <1>7. \A n \in Names : Len(tasks'[n]) = Len(tasks[n])
    BY <1>4, <1>5
  <1> QED
    BY <1>5, <1>6, <1>7 DEF Moved

\* The counters follow the tasks.
LEMMA MoveCounts ==
  ASSUME QueuesTyped, CountsMatch, NEW name \in Names, NEW i \in Places(name),
         NEW status \in Statuses, tasks[name][i].status # status, Move(name, i, status)
  PROVE  CountsMatch' /\ counts' \in [Names -> [Statuses -> Nat]]
  <1> DEFINE old == tasks[name][i].status
  <1>1. Moved(name, i, status)
    BY MoveMoves
  <1>2. old \in Statuses /\ old # status
    BY TaskAt
  <1>3. \A n \in Names : Places(n)' = Places(n)
    BY <1>1 DEF Moved, Places
  <1>4. ASSUME NEW n \in Names, NEW s \in Statuses
        PROVE  WithStatus(n, s)' = IF n # name THEN WithStatus(n, s)
                                   ELSE IF s = old THEN WithStatus(n, s) \ {i}
                                   ELSE IF s = status THEN WithStatus(n, s) \cup {i}
                                   ELSE WithStatus(n, s)
    BY <1>1, <1>2, <1>3 DEF WithStatus, Moved
  <1>5. i \in WithStatus(name, old) /\ i \notin WithStatus(name, status)
    BY <1>2 DEF WithStatus
  <1>6. \A n \in Names, s \in Statuses :
          IsFiniteSet(WithStatus(n, s)) /\ counts[n][s] = Cardinality(WithStatus(n, s))
    BY WithStatusFinite DEF CountsMatch
  <1>7. counts[name][old] - 1 \in Nat
    <2>1. Cardinality(WithStatus(name, old)) # 0
      BY <1>2, <1>5, <1>6, FS_EmptySet
    <2> QED
      BY <1>2, <1>6, <2>1, WithStatusFinite
  <1>8. /\ counts' \in [Names -> [Statuses -> Nat]]
        /\ \A n \in Names, s \in Statuses :
             counts'[n][s] = IF n # name THEN counts[n][s]
                             ELSE IF s = old THEN counts[n][s] - 1
                             ELSE IF s = status THEN counts[n][s] + 1
                             ELSE counts[n][s]
    <2>1. counts' = [counts EXCEPT ![name] =
                       [counts[name] EXCEPT ![old] = counts[name][old] - 1,
                                            ![status] = counts[name][status] + 1]]
      BY <1>2 DEF Move, QueuesTyped
    <2> HIDE DEF old
    <2> DEFINE c == counts[name]
               d == [c EXCEPT ![old] = @ - 1, ![status] = @ + 1]
    <2>2. c \in [Statuses -> Nat] /\ c[old] - 1 \in Nat /\ c[status] + 1 \in Nat
      BY <1>2, <1>7 DEF QueuesTyped
    <2> HIDE DEF c
    <2>3. /\ d \in [Statuses -> Nat]
          /\ \A s \in Statuses : d[s] = IF s = old THEN c[s] - 1
                                        ELSE IF s = status THEN c[s] + 1 ELSE c[s]
      <3>1. d = [s \in Statuses |-> IF s = old THEN c[s] - 1
                                    ELSE IF s = status THEN c[s] + 1 ELSE c[s]]
        BY <1>2, <2>2
      <3> QED
        BY <2>2, <3>1
    <2>4. counts' = [counts EXCEPT ![name] = d]
      BY <2>1 DEF c
    <2> HIDE DEF d
    <2> QED
      BY <2>3, <2>4 DEF QueuesTyped, c
  <1> HIDE DEF old
  <1>9. ASSUME NEW n \in Names, NEW s \in Statuses
        PROVE  counts'[n][s] = Cardinality(WithStatus(n, s)')
    <2>1. CASE n # name \/ (s # old /\ s # status)
      BY <1>4, <1>6, <1>8, <2>1
    <2>2. CASE n = name /\ s = old
      BY <1>4, <1>5, <1>6, <1>8, <2>2, FS_RemoveElement
    <2>3. CASE n = name /\ s = status
      BY <1>2, <1>4, <1>5, <1>6, <1>8, <2>3, FS_AddElement
    <2> QED
      BY <2>1, <2>2, <2>3
  <1> QED
    BY <1>8, <1>9 DEF CountsMatch
----------------------------------------------------------------------------
(* Add                                                                     *)

\* A pending task with the next number is put behind the others of its queue.
Added(name) ==
  /\ tasks' \in [Names -> Seq(Task)]
  /\ \A n \in Names : Len(tasks'[n]) = IF n = name THEN Len(tasks[n]) + 1 ELSE Len(tasks[n])
  /\ \A n \in Names : \A j \in Places(n) : tasks'[n][j] = tasks[n][j]
  /\ tasks'[name][Len(tasks[name]) + 1] = [id |-> nextID + 1, status |-> "pending"]

LEMMA AddAdds ==
  ASSUME QueuesTyped, NEW name \in Names, Add(name)
  PROVE  Added(name)
  <1> DEFINE t == [id |-> nextID + 1, status |-> "pending"]
             s == Append(tasks[name], t)
  <1>1. tasks' = [tasks EXCEPT ![name] = s]
    BY DEF Add
  <1>2. t \in Task
    BY DEF Task, Ids, Statuses, QueuesTyped
  <1>3. tasks[name] \in Seq(Task)
    BY TaskAt
  <1> HIDE DEF t
  <1>4. /\ s \in Seq(Task) /\ Len(s) = Len(tasks[name]) + 1
        /\ \A j \in 1..Len(tasks[name]) : s[j] = tasks[name][j]
        /\ s[Len(tasks[name]) + 1] = t
    BY <1>2, <1>3, AppendProperties
  <1> HIDE DEF s
  <1>5. tasks' \in [Names -> Seq(Task)] /\ tasks'[name] = s
        /\ \A n \in Names \ {name} : tasks'[n] = tasks[n]
    BY <1>1, <1>4 DEF QueuesTyped
  <1>6. ASSUME NEW n \in Names, NEW j \in Places(n)
        PROVE  tasks'[n][j] = tasks[n][j]
    BY <1>4, <1>5 DEF Places
  <1>7. tasks'[name][Len(tasks[name]) + 1] = t
    BY <1>4, <1>5
  <1>8. \A n \in Names : Len(tasks'[n]) = IF n = name THEN Len(tasks[n]) + 1 ELSE Len(tasks[n])
    BY <1>4, <1>5
  <1> QED
    BY <1>5, <1>6, <1>7, <1>8 DEF Added, t

\* It brings its counts of runs and reports, both zero.
LEMMA AddHistory ==
  ASSUME QueuesTyped, NEW name \in Names, Add(name)
  PROVE  /\ runs' \in Seq(Nat) /\ Len(runs') = nextID'
         /\ reports' \in Seq(Nat) /\ Len(reports') = nextID'
         /\ \A k \in 1..nextID : runs'[k] = runs[k] /\ reports'[k] = reports[k]
         /\ runs'[nextID + 1] = 0 /\ reports'[nextID + 1] = 0
         /\ nextID' = nextID + 1 /\ nextID' \in Nat
  <1>1. /\ runs' = Append(runs, 0) /\ reports' = Append(reports, 0)
        /\ nextID' = nextID + 1 /\ nextID \in Nat /\ 0 \in Nat
        /\ runs \in Seq(Nat) /\ Len(runs) = nextID
        /\ reports \in Seq(Nat) /\ Len(reports) = nextID
    BY DEF Add, QueuesTyped
  <1>2. /\ Append(runs, 0) \in Seq(Nat) /\ Len(Append(runs, 0)) = nextID + 1
        /\ \A k \in 1..nextID : Append(runs, 0)[k] = runs[k]
        /\ Append(runs, 0)[nextID + 1] = 0
    BY <1>1, AppendProperties
  <1>3. /\ Append(reports, 0) \in Seq(Nat) /\ Len(Append(reports, 0)) = nextID + 1
        /\ \A k \in 1..nextID : Append(reports, 0)[k] = reports[k]
        /\ Append(reports, 0)[nextID + 1] = 0
    BY <1>1, AppendProperties
  <1> QED
    BY <1>1, <1>2, <1>3

\* It makes one more place.
LEMMA OneMorePlace ==
  ASSUME QueuesTyped, NEW name \in Names, Added(name)
  PROVE  \A n \in Names : Places(n)' = IF n = name THEN Places(n) \cup {Len(tasks[name]) + 1}
                                      ELSE Places(n)
  <1> SUFFICES ASSUME NEW n \in Names
               PROVE  Places(n)' = IF n = name THEN Places(n) \cup {Len(tasks[name]) + 1}
                                   ELSE Places(n)
    OBVIOUS
  <1>1. Places(n)' = 1..Len(tasks'[n])
    BY DEF Places
  <1>2. Len(tasks'[n]) = IF n = name THEN Len(tasks[n]) + 1 ELSE Len(tasks[n])
    BY DEF Added
  <1>3. Len(tasks[n]) \in Nat /\ Places(n) = 1..Len(tasks[n])
    BY TaskAt
  <1>4. \A k \in Nat : 1..(k + 1) = (1..k) \cup {k + 1}
    OBVIOUS
  <1>5. CASE n = name
    BY <1>1, <1>2, <1>3, <1>4, <1>5
  <1>6. CASE n # name
    BY <1>1, <1>2, <1>3, <1>6
  <1> QED
    BY <1>5, <1>6

LEMMA AddCounts ==
  ASSUME QueuesTyped, CountsMatch, NEW name \in Names, Add(name)
  PROVE  CountsMatch' /\ counts' \in [Names -> [Statuses -> Nat]]
  <1> DEFINE last == Len(tasks[name]) + 1
  <1>1. Added(name)
    BY AddAdds
  <1>2. \A n \in Names : Len(tasks[n]) \in Nat /\ Places(n) = 1..Len(tasks[n])
    BY TaskAt
  <1>3. \A n \in Names : Places(n)' = IF n = name THEN Places(n) \cup {last} ELSE Places(n)
    BY <1>1, OneMorePlace
  <1>4. last \notin Places(name)
    BY <1>2
  <1> HIDE DEF last
  <1>5. tasks'[name][last].status = "pending"
    BY <1>1 DEF Added, last
  <1>6. ASSUME NEW n \in Names, NEW s \in Statuses
        PROVE  WithStatus(n, s)' = IF n = name /\ s = "pending" THEN WithStatus(n, s) \cup {last}
                                   ELSE WithStatus(n, s)
    BY <1>1, <1>3, <1>4, <1>5 DEF WithStatus, Added
  <1>7. last \notin WithStatus(name, "pending")
    BY <1>4 DEF WithStatus
  <1>8. \A n \in Names, s \in Statuses :
          IsFiniteSet(WithStatus(n, s)) /\ counts[n][s] = Cardinality(WithStatus(n, s))
    BY WithStatusFinite DEF CountsMatch
  <1>9. "pending" \in Statuses
    BY DEF Statuses
  <1>10. /\ counts' \in [Names -> [Statuses -> Nat]]
         /\ \A n \in Names, s \in Statuses :
              counts'[n][s] = IF n = name /\ s = "pending" THEN counts[n][s] + 1 ELSE counts[n][s]
    <2>1. counts' = [counts EXCEPT ![name] =
                       [counts[name] EXCEPT !["pending"] = counts[name]["pending"] + 1]]
      BY DEF Add
    <2> QED
      BY <1>9, <2>1 DEF QueuesTyped
  <1>11. ASSUME NEW n \in Names, NEW s \in Statuses
         PROVE  counts'[n][s] = Cardinality(WithStatus(n, s)')
    <2>1. CASE n = name /\ s = "pending"
      BY <1>6, <1>7, <1>8, <1>10, <2>1, FS_AddElement
    <2>2. CASE ~(n = name /\ s = "pending")
      BY <1>6, <1>8, <1>10, <2>2
    <2> QED
      BY <2>1, <2>2
  <1> QED
    BY <1>10, <1>11 DEF CountsMatch

LEMMA AddKeeps ==
  ASSUME IInv, NEW name \in Names, Add(name)
  PROVE  IInv'
  <1> DEFINE last == Len(tasks[name]) + 1
  <1> USE DEF IInv
  <1>1. Added(name)
    BY AddAdds
  <1>2. \A n \in Names : Len(tasks[n]) \in Nat /\ Places(n) = 1..Len(tasks[n])
    BY TaskAt
  <1>3. \A n \in Names : Places(n)' = IF n = name THEN Places(n) \cup {last} ELSE Places(n)
    BY <1>1, OneMorePlace
  <1>4. last \notin Places(name) /\ last \in Nat
    BY <1>2
  <1>5. tasks'[name][last].id = nextID + 1 /\ tasks'[name][last].status = "pending"
    BY <1>1 DEF Added
  <1>6. \A n \in Names : \A j \in Places(n) : tasks'[n][j] = tasks[n][j]
    BY <1>1 DEF Added
  <1>7. /\ runs' \in Seq(Nat) /\ Len(runs') = nextID'
        /\ reports' \in Seq(Nat) /\ Len(reports') = nextID'
        /\ \A k \in 1..nextID : runs'[k] = runs[k] /\ reports'[k] = reports[k]
        /\ runs'[nextID + 1] = 0 /\ reports'[nextID + 1] = 0
        /\ nextID' = nextID + 1 /\ nextID' \in Nat /\ nextID \in Nat
    BY AddHistory DEF QueuesTyped
  <1>8. queues' = queues /\ started' = started
    BY DEF Add
  <1>9. QueuesTyped'
    BY <1>1, <1>7, <1>8, AddCounts DEF QueuesTyped, Added
  <1>10. NumbersUnique'
    <2>1. ASSUME NEW n \in Names, NEW i \in Places(n)'
          PROVE  tasks'[n][i].id \in 1..nextID'
      BY <1>3, <1>5, <1>6, <1>7, <2>1 DEF NumbersUnique
    <2>2. ASSUME NEW m \in Names, NEW n \in Names, NEW i \in Places(m)', NEW j \in Places(n)',
                 tasks'[m][i].id = tasks'[n][j].id
          PROVE  m = n /\ i = j
      <3>1. CASE i \in Places(m) /\ j \in Places(n)
        BY <1>6, <2>2, <3>1 DEF NumbersUnique
      <3>2. CASE i \notin Places(m) /\ j \notin Places(n)
        BY <1>3, <3>2
      <3>3. CASE i \notin Places(m) /\ j \in Places(n)
        <4>1. tasks'[m][i].id = nextID + 1
          BY <1>3, <1>5, <3>3
        <4>2. tasks'[n][j].id \in 1..nextID
          BY <1>6, <3>3 DEF NumbersUnique
        <4> QED
          BY <1>7, <2>2, <4>1, <4>2
      <3>4. CASE i \in Places(m) /\ j \notin Places(n)
        BY <1>3, <1>5, <1>6, <1>7, <2>2, <3>4 DEF NumbersUnique
      <3> QED
        BY <3>1, <3>2, <3>3, <3>4
    <2> QED
      BY <2>1, <2>2 DEF NumbersUnique
  <1>11. StartedFirst'
    <2>1. ASSUME NEW n \in Names
          PROVE  Len(started[n]) <= Len(tasks'[n]) /\ Len(started[n]) \in Nat
      <3>1. Len(started[n]) \in Nat
        BY LenProperties DEF QueuesTyped
      <3> QED
        BY <1>1, <1>2, <3>1 DEF Added, StartedFirst
    <2>2. ASSUME NEW n \in Names, NEW i \in Places(n)'
          PROVE  /\ i <= Len(started[n]) => started[n][i] = tasks'[n][i].id
                 /\ runs'[tasks'[n][i].id] > 0 <=> i <= Len(started[n])
                 /\ i > Len(started[n]) => tasks'[n][i].status = "pending"
      <3>1. CASE i \in Places(n)
        <4>1. tasks[n][i].id \in 1..nextID
          BY <3>1 DEF NumbersUnique
        <4>2. tasks'[n][i] = tasks[n][i] /\ runs'[tasks[n][i].id] = runs[tasks[n][i].id]
          BY <1>6, <1>7, <3>1, <4>1
        <4>3. /\ i <= Len(started[n]) => started[n][i] = tasks[n][i].id
              /\ runs[tasks[n][i].id] > 0 <=> i <= Len(started[n])
              /\ i > Len(started[n]) => tasks[n][i].status = "pending"
          BY <3>1 DEF StartedFirst
        <4> QED
          BY <4>2, <4>3
      <3>2. CASE i \notin Places(n)
        <4>1. n = name /\ i = last
          BY <1>3, <3>2
        <4>2. Len(started[n]) <= Len(tasks[n])
          BY DEF StartedFirst
        <4>3. ~(i <= Len(started[n])) /\ i > Len(started[n])
          BY <1>2, <2>1, <4>1, <4>2
        <4>4. tasks'[n][i].status = "pending" /\ tasks'[n][i].id = nextID + 1
          BY <1>5, <4>1
        <4>5. ~(runs'[nextID + 1] > 0)
          BY <1>7
        <4> QED
          BY <4>3, <4>4, <4>5
      <3> QED
        BY <3>1, <3>2
    <2> QED
      BY <1>8, <2>1, <2>2 DEF StartedFirst
  <1>12. OneRunAtATime'
    <2>1. ASSUME NEW n \in Names, NEW i \in Places(n)'
          PROVE  runs'[tasks'[n][i].id] - reports'[tasks'[n][i].id]
                   = IF tasks'[n][i].status = "running" THEN 1 ELSE 0
      <3>1. CASE i \in Places(n)
        <4>1. tasks[n][i].id \in 1..nextID
          BY <3>1 DEF NumbersUnique
        <4>2. /\ tasks'[n][i] = tasks[n][i] /\ runs'[tasks[n][i].id] = runs[tasks[n][i].id]
              /\ reports'[tasks[n][i].id] = reports[tasks[n][i].id]
          BY <1>6, <1>7, <3>1, <4>1
        <4>3. runs[tasks[n][i].id] - reports[tasks[n][i].id]
                = IF tasks[n][i].status = "running" THEN 1 ELSE 0
          BY <3>1 DEF OneRunAtATime
        <4> QED
          BY <4>2, <4>3
      <3>2. CASE i \notin Places(n)
        <4>1. n = name /\ i = last
          BY <1>3, <3>2
        <4>2. tasks'[n][i].id = nextID + 1 /\ tasks'[n][i].status = "pending"
          BY <1>5, <4>1
        <4>3. runs'[nextID + 1] = 0 /\ reports'[nextID + 1] = 0
          BY <1>7
        <4> QED
          BY <4>2, <4>3
      <3> QED
        BY <3>1, <3>2
    <2> QED
      BY <2>1 DEF OneRunAtATime
  <1> QED
    BY <1>9, <1>10, <1>11, <1>12, AddCounts
----------------------------------------------------------------------------
(* Claim and Update                                                        *)

\* The tasks keep their places and numbers when one of them moves.
LEMMA MoveKeepsNumbers ==
  ASSUME QueuesTyped, NumbersUnique, NEW name \in Names, NEW i \in Places(name),
         NEW status \in Statuses, Move(name, i, status)
  PROVE  /\ NumbersUnique'
         /\ \A n \in Names : Places(n)' = Places(n)
         /\ \A n \in Names : \A j \in Places(n) :
              tasks[n][j].id = tasks[name][i].id <=> n = name /\ j = i
  <1>1. Moved(name, i, status)
    BY MoveMoves
  <1>2. \A n \in Names : Places(n)' = Places(n)
    BY <1>1 DEF Moved, Places
  <1>3. \A n \in Names : \A j \in Places(n) : tasks'[n][j].id = tasks[n][j].id
    BY <1>1 DEF Moved
  <1>4. nextID' = nextID
    BY DEF Move
  <1>5. NumbersUnique'
    BY <1>2, <1>3, <1>4 DEF NumbersUnique
  <1> QED
    BY <1>2, <1>5 DEF NumbersUnique

\* What every move leaves right.
LEMMA MoveKeeps ==
  ASSUME QueuesTyped, NumbersUnique, CountsMatch, NEW name \in Names, NEW i \in Places(name),
         NEW status \in Statuses, tasks[name][i].status # status, Move(name, i, status)
  PROVE  /\ NumbersUnique' /\ CountsMatch'
         /\ queues' = queues /\ nextID' = nextID
         /\ tasks' \in [Names -> Seq(Task)]
         /\ counts' \in [Names -> [Statuses -> Nat]]
  <1>1. Moved(name, i, status)
    BY MoveMoves
  <1>2. tasks' \in [Names -> Seq(Task)]
    BY <1>1 DEF Moved
  <1>3. queues' = queues /\ nextID' = nextID
    BY DEF Move
  <1>4. NumbersUnique'
    BY MoveKeepsNumbers
  <1>5. CountsMatch' /\ counts' \in [Names -> [Statuses -> Nat]]
    BY MoveCounts
  <1> QED
    BY <1>2, <1>3, <1>4, <1>5

LEMMA StartKeeps ==
  ASSUME IInv, NEW name \in Names, NEW i \in WithStatus(name, "pending"),
         \A j \in WithStatus(name, "pending") : i <= j, Start(name, i)
  PROVE  IInv'
  <1> DEFINE id == tasks[name][i].id
             list == started[name]
  <1> USE DEF IInv
  <1>1. i \in Places(name) /\ tasks[name][i].status = "pending"
    BY DEF WithStatus
  <1>2. "running" \in Statuses /\ "running" # "pending"
    BY DEF Statuses
  <1>3. /\ Move(name, i, "running") /\ reports' = reports
        /\ runs' = [runs EXCEPT ![id] = runs[id] + 1]
        /\ started' = IF runs[id] = 0 THEN [started EXCEPT ![name] = Append(list, id)]
                                      ELSE started
    BY DEF Start
  <1>4. Moved(name, i, "running")
    BY <1>1, <1>2, <1>3, MoveMoves
  <1>5. /\ NumbersUnique' /\ CountsMatch'
        /\ queues' = queues /\ nextID' = nextID
        /\ tasks' \in [Names -> Seq(Task)]
        /\ counts' \in [Names -> [Statuses -> Nat]]
    BY <1>1, <1>2, <1>3, MoveKeeps
  <1>6. /\ \A n \in Names : Places(n)' = Places(n)
        /\ \A n \in Names : \A j \in Places(n) : tasks[n][j].id = id <=> n = name /\ j = i
    BY <1>1, <1>2, <1>3, MoveKeepsNumbers
  <1>7. id \in 1..nextID /\ id \in Ids
    BY <1>1, TaskAt DEF NumbersUnique
  <1>8. /\ runs' \in Seq(Nat) /\ Len(runs') = nextID
        /\ \A k \in 1..nextID : runs'[k] = IF k = id THEN runs[id] + 1 ELSE runs[k]
        /\ \A k \in 1..nextID : runs[k] \in Nat
    <2>1. runs \in Seq(Nat) /\ Len(runs) = nextID
      BY DEF QueuesTyped
    <2> HIDE DEF id
    <2>2. \A k \in 1..nextID : runs[k] \in Nat
      BY <2>1, ElementOfSeq
    <2>3. runs[id] + 1 \in Nat
      BY <1>7, <2>2
    <2>4. /\ [runs EXCEPT ![id] = runs[id] + 1] \in Seq(Nat)
          /\ Len([runs EXCEPT ![id] = runs[id] + 1]) = Len(runs)
          /\ \A k \in 1..Len(runs) :
               [runs EXCEPT ![id] = runs[id] + 1][k] = IF k = id THEN runs[id] + 1 ELSE runs[k]
      BY <1>7, <2>1, <2>3, ExceptSeq
    <2> QED
      BY <1>3, <2>1, <2>2, <2>4
  <1>9. list \in Seq(Ids) /\ Len(list) \in Nat
    BY LenProperties DEF QueuesTyped
  <1>10. Len(tasks[name]) \in Nat /\ Places(name) = 1..Len(tasks[name])
    BY TaskAt
  <1>11. /\ Len(list) <= Len(tasks[name])
         /\ \A j \in Places(name) :
              /\ j <= Len(list) => list[j] = tasks[name][j].id
              /\ runs[tasks[name][j].id] > 0 <=> j <= Len(list)
              /\ j > Len(list) => tasks[name][j].status = "pending"
    BY DEF StartedFirst
  \* A task that starts for the first time is the one after those that were started.
  <1>12. ASSUME runs[id] = 0
         PROVE  i = Len(list) + 1
    <2>1. ~(i <= Len(list))
      BY <1>1, <1>11, <1>12
    <2>2. i \in Nat /\ i <= Len(tasks[name]) /\ i >= Len(list) + 1
      BY <1>1, <1>9, <1>10, <2>1
    <2>3. Len(list) + 1 \in Places(name)
      BY <1>9, <1>10, <2>2
    <2>4. Len(list) + 1 \in WithStatus(name, "pending")
      BY <1>9, <1>11, <2>3 DEF WithStatus
    <2> QED
      BY <1>9, <2>2, <2>4
  <1>13. /\ started' \in [Names -> Seq(Ids)]
         /\ \A n \in Names \ {name} : started'[n] = started[n]
         /\ Len(started'[name]) = IF runs[id] = 0 THEN Len(list) + 1 ELSE Len(list)
         /\ \A j \in 1..Len(list) : started'[name][j] = list[j]
         /\ runs[id] = 0 => started'[name][Len(list) + 1] = id
    <2>1. CASE runs[id] = 0
      <3> DEFINE longer == Append(list, id)
      <3>1. /\ longer \in Seq(Ids) /\ Len(longer) = Len(list) + 1
            /\ \A j \in 1..Len(list) : longer[j] = list[j]
            /\ longer[Len(list) + 1] = id
        BY <1>7, <1>9, AppendProperties
      <3>2. started' = [started EXCEPT ![name] = longer]
        BY <1>3, <2>1
      <3>3. started \in [Names -> Seq(Ids)]
        BY DEF QueuesTyped
      <3> HIDE DEF longer
      <3>4. started' \in [Names -> Seq(Ids)] /\ started'[name] = longer
            /\ \A n \in Names \ {name} : started'[n] = started[n]
        BY <3>1, <3>2, <3>3
      <3> QED
        BY <2>1, <3>1, <3>4
    <2>2. CASE runs[id] # 0
      BY <1>3, <2>2 DEF QueuesTyped
    <2> QED
      BY <2>1, <2>2
  <1>14. QueuesTyped'
    BY <1>3, <1>5, <1>8, <1>13 DEF QueuesTyped
  <1>15. \A n \in Names : \A j \in Places(n) :
           /\ tasks'[n][j].id = tasks[n][j].id
           /\ tasks'[n][j].status = IF n = name /\ j = i THEN "running" ELSE tasks[n][j].status
    BY <1>4 DEF Moved
  <1>16. \A n \in Names : \A j \in Places(n) :
           runs'[tasks[n][j].id] = IF n = name /\ j = i THEN runs[id] + 1
                                   ELSE runs[tasks[n][j].id]
    BY <1>6, <1>8 DEF NumbersUnique
  <1>17. OneRunAtATime'
    <2>1. ASSUME NEW n \in Names, NEW j \in Places(n)
          PROVE  runs'[tasks'[n][j].id] - reports[tasks'[n][j].id]
                   = IF tasks'[n][j].status = "running" THEN 1 ELSE 0
      <3>1. runs[tasks[n][j].id] - reports[tasks[n][j].id]
              = IF tasks[n][j].status = "running" THEN 1 ELSE 0
        BY DEF OneRunAtATime
      <3>2. CASE n = name /\ j = i
        <4>1. reports[id] \in Nat /\ runs[id] \in Nat
          BY <1>7, ElementOfSeq DEF QueuesTyped
        <4>2. runs[id] - reports[id] = 0
          BY <1>1, <3>1, <3>2
        <4> QED
          BY <1>15, <1>16, <3>2, <4>1, <4>2
      <3>3. CASE ~(n = name /\ j = i)
        BY <1>15, <1>16, <3>1, <3>3
      <3> QED
        BY <3>2, <3>3
    <2> QED
      BY <1>3, <1>6, <2>1 DEF OneRunAtATime
  <1>18. StartedFirst'
    <2>1. ASSUME NEW n \in Names
          PROVE  Len(started'[n]) <= Len(tasks'[n])
      <3>1. Len(tasks'[n]) = Len(tasks[n])
        BY <1>4 DEF Moved
      <3>2. CASE n # name
        BY <1>13, <3>1, <3>2 DEF StartedFirst
      <3>3. CASE n = name /\ runs[id] = 0
        BY <1>1, <1>10, <1>12, <1>13, <3>1, <3>3
      <3>4. CASE n = name /\ runs[id] # 0
        BY <1>11, <1>13, <3>1, <3>4
      <3> QED
        BY <3>2, <3>3, <3>4
    <2>2. ASSUME NEW n \in Names, NEW j \in Places(n)
          PROVE  /\ j <= Len(started'[n]) => started'[n][j] = tasks'[n][j].id
                 /\ runs'[tasks'[n][j].id] > 0 <=> j <= Len(started'[n])
                 /\ j > Len(started'[n]) => tasks'[n][j].status = "pending"
      <3>1. CASE n # name
        <4>1. /\ tasks'[n][j].id = tasks[n][j].id
              /\ tasks'[n][j].status = tasks[n][j].status
              /\ runs'[tasks'[n][j].id] = runs[tasks[n][j].id]
              /\ started'[n] = started[n]
          BY <1>13, <1>15, <1>16, <3>1
        <4> QED
          BY <4>1 DEF StartedFirst
      <3>2. CASE n = name /\ j # i
        <4>1. /\ tasks'[n][j].id = tasks[name][j].id
              /\ tasks'[n][j].status = tasks[name][j].status
              /\ runs'[tasks'[n][j].id] = runs[tasks[name][j].id]
          BY <1>15, <1>16, <3>2
        <4>2. j <= Len(started'[name]) <=> j <= Len(list)
          BY <1>9, <1>10, <1>12, <1>13, <3>2
        <4>3. j <= Len(list) => started'[name][j] = list[j]
          BY <1>9, <1>10, <1>13, <3>2
        <4>4. j \in Nat /\ Len(started'[name]) \in Nat
          BY <1>9, <1>10, <1>13, <3>2
        <4> QED
          BY <1>9, <1>11, <3>2, <4>1, <4>2, <4>3, <4>4
      <3>3. CASE n = name /\ j = i
        <4>1. runs[id] \in Nat /\ i \in Nat
          BY <1>1, <1>7, <1>8, <1>10
        <4>2. runs'[tasks'[n][j].id] > 0 /\ tasks'[n][j].id = id
          BY <1>15, <1>16, <3>3, <4>1
        <4>3. i <= Len(started'[name]) /\ started'[name][i] = id
          <5>1. CASE runs[id] = 0
            BY <1>9, <1>12, <1>13, <5>1
          <5>2. CASE runs[id] # 0
            <6>1. i <= Len(list) /\ list[i] = id
              BY <1>1, <1>11, <4>1, <5>2
            <6> QED
              BY <1>1, <1>9, <1>10, <1>13, <5>2, <6>1
          <5> QED
            BY <5>1, <5>2
        <4> HIDE DEF id
        <4>5. Len(started'[name]) \in Nat
          BY <1>9, <1>13
        <4> QED
          BY <3>3, <4>1, <4>2, <4>3, <4>5
      <3> QED
        BY <3>1, <3>2, <3>3
    <2> QED
      BY <1>6, <2>1, <2>2 DEF StartedFirst
  <1> QED
    BY <1>5, <1>14, <1>17, <1>18
LEMMA UpdateKeeps ==
  ASSUME IInv, NEW name \in Names, NEW id \in 1..nextID, NEW s \in Statuses,
         Update(name, id, s)
  PROVE  IInv'
  <1> USE DEF IInv
  <1>1. PICK i \in Places(name) : /\ tasks[name][i].id = id
                                  /\ Allowed(tasks[name][i].status, s)
                                  /\ Move(name, i, s)
    BY DEF Update
  <1>2. /\ runs' = runs /\ started' = started
        /\ reports' = IF s \in {"completed", "failed"}
                      THEN [reports EXCEPT ![id] = reports[id] + 1] ELSE reports
    BY DEF Update
  <1>3. \/ tasks[name][i].status = "running" /\ s \in {"completed", "failed"}
        \/ tasks[name][i].status = "failed" /\ s = "pending"
    BY <1>1 DEF Allowed
  <1>4. tasks[name][i].status # s
    BY <1>3
  <1>5. Moved(name, i, s)
    BY <1>1, MoveMoves
  <1>6. /\ NumbersUnique' /\ CountsMatch'
        /\ queues' = queues /\ nextID' = nextID
        /\ tasks' \in [Names -> Seq(Task)]
        /\ counts' \in [Names -> [Statuses -> Nat]]
    BY <1>1, <1>4, MoveKeeps
  <1>7. /\ \A n \in Names : Places(n)' = Places(n)
        /\ \A n \in Names : \A j \in Places(n) : tasks[n][j].id = id <=> n = name /\ j = i
    BY <1>1, MoveKeepsNumbers
  <1>8. /\ reports' \in Seq(Nat) /\ Len(reports') = nextID
        /\ \A k \in 1..nextID :
             reports'[k] = IF k = id /\ s \in {"completed", "failed"} THEN reports[id] + 1
                           ELSE reports[k]
        /\ \A k \in 1..nextID : reports[k] \in Nat /\ runs[k] \in Nat
    <2>1. reports \in Seq(Nat) /\ Len(reports) = nextID
      BY DEF QueuesTyped
    <2>2. \A k \in 1..nextID : reports[k] \in Nat /\ runs[k] \in Nat
      BY <2>1, ElementOfSeq DEF QueuesTyped
    <2>3. CASE s \in {"completed", "failed"}
      <3>1. reports[id] + 1 \in Nat
        BY <2>2
      <3>2. /\ [reports EXCEPT ![id] = reports[id] + 1] \in Seq(Nat)
            /\ Len([reports EXCEPT ![id] = reports[id] + 1]) = Len(reports)
            /\ \A k \in 1..Len(reports) :
                 [reports EXCEPT ![id] = reports[id] + 1][k]
                   = IF k = id THEN reports[id] + 1 ELSE reports[k]
        BY <2>1, <3>1, ExceptSeq
      <3> QED
        BY <1>2, <2>1, <2>2, <2>3, <3>2
    <2>4. CASE s \notin {"completed", "failed"}
      BY <1>2, <2>1, <2>2, <2>4
    <2> QED
      BY <2>3, <2>4
  <1>9. QueuesTyped'
    BY <1>2, <1>6, <1>8 DEF QueuesTyped
  <1>10. \A n \in Names : \A j \in Places(n) :
           /\ tasks'[n][j].id = tasks[n][j].id
           /\ tasks'[n][j].status = IF n = name /\ j = i THEN s ELSE tasks[n][j].status
    BY <1>5 DEF Moved
  <1>11. OneRunAtATime'
    <2>1. ASSUME NEW n \in Names, NEW j \in Places(n)
          PROVE  runs[tasks'[n][j].id] - reports'[tasks'[n][j].id]
                   = IF tasks'[n][j].status = "running" THEN 1 ELSE 0
      <3>1. runs[tasks[n][j].id] - reports[tasks[n][j].id]
              = IF tasks[n][j].status = "running" THEN 1 ELSE 0
        BY DEF OneRunAtATime
      <3>2. tasks[n][j].id \in 1..nextID
        BY DEF NumbersUnique
      <3>3. CASE n = name /\ j = i
        <4>1. tasks'[n][j].id = id /\ tasks'[n][j].status = s
          BY <1>1, <1>10, <3>3
        <4>2. CASE s \in {"completed", "failed"}
          <5>1. runs[id] - reports[id] = 1 /\ reports'[id] = reports[id] + 1 /\ s # "running"
            BY <1>1, <1>3, <1>8, <3>1, <3>3, <4>2
          <5> QED
            BY <1>8, <4>1, <5>1
        <4>3. CASE s \notin {"completed", "failed"}
          <5>1. runs[id] - reports[id] = 0 /\ reports'[id] = reports[id] /\ s # "running"
            BY <1>1, <1>3, <1>8, <3>1, <3>3, <4>3
          <5> QED
            BY <4>1, <5>1
        <4> QED
          BY <4>2, <4>3
      <3>4. CASE ~(n = name /\ j = i)
        <4>1. tasks[n][j].id # id
          BY <1>7, <3>4
        <4>2. /\ tasks'[n][j].id = tasks[n][j].id /\ tasks'[n][j].status = tasks[n][j].status
              /\ reports'[tasks[n][j].id] = reports[tasks[n][j].id]
          BY <1>8, <1>10, <3>2, <3>4, <4>1
        <4> QED
          BY <3>1, <4>2
      <3> QED
        BY <3>3, <3>4
    <2> QED
      BY <1>2, <1>7, <2>1 DEF OneRunAtATime
  <1>12. StartedFirst'
    <2>1. ASSUME NEW n \in Names
          PROVE  Len(started[n]) <= Len(tasks'[n])
      BY <1>5 DEF Moved, StartedFirst
    <2>2. ASSUME NEW n \in Names, NEW j \in Places(n)
          PROVE  /\ j <= Len(started[n]) => started[n][j] = tasks'[n][j].id
                 /\ runs[tasks'[n][j].id] > 0 <=> j <= Len(started[n])
                 /\ j > Len(started[n]) => tasks'[n][j].status = "pending"
      <3>1. /\ j <= Len(started[n]) => started[n][j] = tasks[n][j].id
            /\ runs[tasks[n][j].id] > 0 <=> j <= Len(started[n])
            /\ j > Len(started[n]) => tasks[n][j].status = "pending"
        BY DEF StartedFirst
      <3>2. j > Len(started[n]) => ~(n = name /\ j = i)
        BY <1>3, <3>1
      <3> QED
        BY <1>10, <3>1, <3>2
    <2> QED
      BY <1>2, <1>7, <2>1, <2>2 DEF StartedFirst
  <1> QED
    BY <1>6, <1>9, <1>11, <1>12

----------------------------------------------------------------------------
(* The invariant holds                                                     *)

LEMMA UnchangedKeeps ==
  ASSUME IInv, UNCHANGED <<qvars, hvars>>
  PROVE  IInv'
  <1>1. /\ queues' = queues /\ tasks' = tasks /\ counts' = counts /\ nextID' = nextID
        /\ started' = started /\ runs' = runs /\ reports' = reports
    BY DEF qvars, hvars
  <1> QED
    BY <1>1 DEF IInv, QueuesTyped, NumbersUnique, StartedFirst, OneRunAtATime, CountsMatch,
                Places, WithStatus

LEMMA InitHolds == Init => IInv
  <1> SUFFICES ASSUME Init PROVE IInv
    OBVIOUS
  <1> USE DEF Init
  <1>1. \A S : << >> \in Seq(S) /\ Len(<< >>) = 0
    BY EmptySeq
  <1>2. QueuesTyped
    BY <1>1 DEF QueuesTyped
  <1>3. \A n \in Names : tasks[n] = << >> /\ started[n] = << >> /\ Places(n) = {}
    BY <1>1 DEF Places
  <1>4. \A n \in Names, s \in Statuses : WithStatus(n, s) = {} /\ counts[n][s] = 0
    BY <1>3 DEF WithStatus
  <1>5. CountsMatch
    BY <1>4, FS_EmptySet DEF CountsMatch
  <1>6. NumbersUnique /\ OneRunAtATime
    BY <1>3 DEF NumbersUnique, OneRunAtATime
  <1>7. StartedFirst
    BY <1>1, <1>3 DEF StartedFirst
  <1> QED
    BY <1>2, <1>5, <1>6, <1>7 DEF IInv

LEMMA NextKeeps == IInv /\ [Next]_vars => IInv'
  <1> SUFFICES ASSUME IInv, [Next]_vars PROVE IInv'
    OBVIOUS
  <1>1. ASSUME NEW name \in Names, Create(name) PROVE IInv'
    <2>1. /\ queues' = queues \cup {name} /\ tasks' = tasks /\ counts' = counts
          /\ nextID' = nextID /\ started' = started /\ runs' = runs /\ reports' = reports
      BY <1>1 DEF Create, hvars
    <2>2. QueuesTyped'
      BY <2>1 DEF IInv, QueuesTyped
    <2>3. /\ \A n \in Names : Places(n)' = Places(n)
          /\ \A n \in Names, s \in Statuses : WithStatus(n, s)' = WithStatus(n, s)
      BY <2>1 DEF Places, WithStatus
    <2>4. NumbersUnique' /\ StartedFirst' /\ OneRunAtATime'
      BY <2>1, <2>3 DEF IInv, NumbersUnique, StartedFirst, OneRunAtATime
    <2>5. CountsMatch'
      BY <2>1, <2>3 DEF IInv, CountsMatch
    <2> QED
      BY <2>2, <2>4, <2>5 DEF IInv
  <1>2. ASSUME NEW name \in Names, Add(name) PROVE IInv'
    BY <1>2, AddKeeps
  <1>3. ASSUME NEW name \in Names, Claim(name) PROVE IInv'
    BY <1>3, StartKeeps DEF Claim
  <1>4. ASSUME NEW name \in Names, NEW id \in 1..nextID, NEW s \in Statuses, Update(name, id, s)
        PROVE  IInv'
    BY <1>4, UpdateKeeps
  <1>5. ASSUME NEW r \in Readers, NEW name \in Names, NEW f \in Filters, BeginWalk(r, name, f)
        PROVE  IInv'
    BY <1>5, UnchangedKeeps DEF BeginWalk
  <1>6. ASSUME NEW r \in Readers, NextPage(r) PROVE IInv'
    BY <1>6, UnchangedKeeps DEF NextPage
  <1>7. ASSUME UNCHANGED vars PROVE IInv'
    BY <1>7, UnchangedKeeps DEF vars
  <1> QED
    BY <1>1, <1>2, <1>3, <1>4, <1>5, <1>6, <1>7 DEF Next

\* The invariant holds for any queues, tasks and clients (queues.go).
THEOREM QueuesInvariant == Spec => []IInv
  BY InitHolds, NextKeeps, PTL DEF Spec

\* The counters of a queue, changed by single increments, never differ from a
\* recount of its tasks (queues.go:63, 117-118, 144-145).
THEOREM CountersAreRight == Spec => []CountsMatch
  <1>1. IInv => CountsMatch
    BY DEF IInv
  <1> QED
    BY <1>1, QueuesInvariant, PTL

\* However claims, reports and retries of all clients interleave, a task has no
\* more than one run that nobody has reported (queues.go:107-123, 140-142).
THEOREM OneRunOfATask == Spec => []OneRunAtATime
  <1>1. IInv => OneRunAtATime
    BY DEF IInv
  <1> QED
    BY <1>1, QueuesInvariant, PTL

\* Tasks start for the first time in the order in which they were added, however
\* often earlier ones are put back (queues.go:114, README.md:149-151).
THEOREM FirstInFirstOut == Spec => []FirstStartsInOrder
  <1>1. ASSUME IInv PROVE FirstStartsInOrder
    <2> SUFFICES ASSUME NEW n \in Names
                 PROVE  /\ Len(started[n]) <= Len(tasks[n])
                        /\ started[n] = SubSeq(IdsOf(tasks[n]), 1, Len(started[n]))
      BY DEF FirstStartsInOrder
    <2> DEFINE k == Len(started[n])
               ids == IdsOf(tasks[n])
    <2>1. /\ started[n] \in Seq(Ids) /\ k \in Nat /\ k <= Len(tasks[n])
          /\ Len(tasks[n]) \in Nat /\ Places(n) = 1..Len(tasks[n])
      BY <1>1, LenProperties, TaskAt DEF IInv, QueuesTyped, StartedFirst
    <2>2. \A i \in 1..k : ids[i] \in Ids /\ ids[i] = started[n][i]
      <3>1. \A i \in 1..k : i \in Places(n) /\ i <= k
        BY <2>1
      <3>2. \A i \in 1..k : ids[i] = tasks[n][i].id
        BY <2>1, <3>1 DEF IdsOf
      <3>3. \A i \in 1..k : tasks[n][i].id = started[n][i] /\ tasks[n][i].id \in Ids
        BY <1>1, <3>1, TaskAt DEF IInv, StartedFirst
      <3> QED
        BY <3>2, <3>3
    <2> HIDE DEF ids
    <2>3. /\ SubSeq(ids, 1, k) \in Seq(Ids) /\ Len(SubSeq(ids, 1, k)) = k
          /\ \A i \in 1..k : SubSeq(ids, 1, k)[i] = ids[i]
      <3> HIDE DEF k
      <3>1. 1 \in Int /\ k \in Int /\ \A i \in 1..k : ids[i] \in Ids
        BY <2>1, <2>2
      <3>2. /\ SubSeq(ids, 1, k) \in Seq(Ids)
            /\ Len(SubSeq(ids, 1, k)) = IF 1 <= k THEN k - 1 + 1 ELSE 0
            /\ \A i \in 1 .. k - 1 + 1 : SubSeq(ids, 1, k)[i] = ids[1 + i - 1]
        BY <3>1, SubSeqProperties
      <3> QED
        BY <2>1, <3>2
    <2>4. started[n] = SubSeq(ids, 1, k)
      BY <2>1, <2>2, <2>3, SeqEqual
    <2> QED
      BY <2>1, <2>4 DEF ids
  <1> QED
    BY <1>1, QueuesInvariant, PTL
----------------------------------------------------------------------------
(* The queues implement the board                                          *)

\* The numbers of a queue grow from place to place, and every number that was
\* given belongs to a task.
NumbersInOrder ==
  /\ \A n \in Names : \A i, j \in Places(n) : i < j => tasks[n][i].id < tasks[n][j].id
  /\ \A k \in 1..nextID : \E n \in Names : \E i \in Places(n) : tasks[n][i].id = k

LEMMA OrderHolds == Init => NumbersInOrder
  <1> SUFFICES ASSUME Init PROVE NumbersInOrder
    OBVIOUS
  <1>1. \A n \in Names : Places(n) = {}
    BY EmptySeq DEF Init, Places
  <1> QED
    BY <1>1 DEF Init, NumbersInOrder

LEMMA OrderKept == IInv /\ NumbersInOrder /\ [Next]_vars => NumbersInOrder'
  <1> SUFFICES ASSUME IInv, NumbersInOrder, [Next]_vars PROVE NumbersInOrder'
    OBVIOUS
  <1> USE DEF IInv
  <1>1. ASSUME tasks' = tasks, nextID' = nextID
        PROVE  NumbersInOrder'
    <2>1. \A n \in Names : Places(n)' = Places(n)
      BY <1>1 DEF Places
    <2> QED
      BY <1>1, <2>1 DEF NumbersInOrder
  <1>2. ASSUME NEW name \in Names, NEW i \in Places(name), NEW s \in Statuses, Move(name, i, s)
        PROVE  NumbersInOrder'
    <2>1. \A n \in Names : Places(n)' = Places(n)
      BY <1>2, MoveKeepsNumbers
    <2>2. \A n \in Names : \A j \in Places(n) : tasks'[n][j].id = tasks[n][j].id
      BY <1>2, MoveMoves DEF Moved
    <2>3. nextID' = nextID
      BY <1>2 DEF Move
    <2> QED
      BY <2>1, <2>2, <2>3 DEF NumbersInOrder
  <1>3. ASSUME NEW name \in Names, Add(name)
        PROVE  NumbersInOrder'
    <2> DEFINE last == Len(tasks[name]) + 1
    <2>1. Added(name)
      BY <1>3, AddAdds
    <2>2. \A n \in Names : Places(n)' = IF n = name THEN Places(n) \cup {last} ELSE Places(n)
      BY <2>1, OneMorePlace
    <2>3. \A n \in Names : Len(tasks[n]) \in Nat /\ Places(n) = 1..Len(tasks[n])
      BY TaskAt
    <2>4. tasks'[name][last].id = nextID + 1
      BY <2>1 DEF Added
    <2>5. \A n \in Names : \A j \in Places(n) : tasks'[n][j].id = tasks[n][j].id
      BY <2>1 DEF Added
    <2>6. nextID' = nextID + 1 /\ nextID \in Nat
      BY <1>3 DEF Add, QueuesTyped
    <2>7. \A j \in Places(name) : j < last /\ j \in Nat
      BY <2>3
    <2>8. \A j \in Places(name) : tasks[name][j].id < nextID + 1
      BY <2>6 DEF NumbersUnique
    <2>9. ~(last < last)
      BY <2>3
    <2> HIDE DEF last
    <2>10. ASSUME NEW n \in Names, NEW i \in Places(n)', NEW j \in Places(n)', i < j
           PROVE  tasks'[n][i].id < tasks'[n][j].id
      <3>1. CASE i \in Places(n) /\ j \in Places(n)
        BY <2>5, <2>10, <3>1 DEF NumbersInOrder
      <3>2. CASE i \in Places(n) /\ j \notin Places(n)
        BY <2>2, <2>4, <2>5, <2>8, <3>2
      <3>3. CASE i \notin Places(n)
        <4>1. n = name /\ i = last
          BY <2>2, <3>3
        <4>2. last \in Nat
          BY <2>3 DEF last
        <4>3. j \in Places(name) => ~(last < j)
          BY <2>7, <4>2
        <4> QED
          BY <2>2, <2>9, <2>10, <4>1, <4>3
      <3> QED
        BY <3>1, <3>2, <3>3
    <2>11. ASSUME NEW k \in 1..nextID'
           PROVE  \E n \in Names : \E i \in Places(n)' : tasks'[n][i].id = k
      <3>1. CASE k = nextID + 1
        BY <2>2, <2>4, <3>1
      <3>2. CASE k # nextID + 1
        <4>1. k \in 1..nextID
          BY <2>6, <3>2
        <4>2. PICK n \in Names : \E i \in Places(n) : tasks[n][i].id = k
          BY <4>1 DEF NumbersInOrder
        <4>3. PICK i \in Places(n) : tasks[n][i].id = k
          BY <4>2
        <4>4. i \in Places(n)' /\ tasks'[n][i].id = k
          BY <2>2, <2>5, <4>3
        <4> QED
          BY <4>4
      <3> QED
        BY <3>1, <3>2
    <2> QED
      BY <2>10, <2>11 DEF NumbersInOrder
  <1>4. ASSUME NEW name \in Names, Create(name) \/ Claim(name)
        PROVE  NumbersInOrder'
    <2>1. CASE Create(name)
      BY <1>1, <2>1 DEF Create
    <2>2. CASE Claim(name)
      <3>1. PICK i \in WithStatus(name, "pending") : Start(name, i)
        BY <2>2 DEF Claim
      <3>2. i \in Places(name) /\ "running" \in Statuses /\ Move(name, i, "running")
        BY <3>1 DEF WithStatus, Statuses, Start
      <3> QED
        BY <1>2, <3>2
    <2> QED
      BY <1>4, <2>1, <2>2
  <1>5. ASSUME NEW name \in Names, NEW id \in 1..nextID, NEW s \in Statuses, Update(name, id, s)
        PROVE  NumbersInOrder'
    BY <1>2, <1>5 DEF Update
  <1>6. ASSUME NEW r \in Readers, NEW name \in Names, NEW f \in Filters, BeginWalk(r, name, f)
        PROVE  NumbersInOrder'
    BY <1>1, <1>6 DEF BeginWalk, qvars
  <1>7. ASSUME NEW r \in Readers, NextPage(r)
        PROVE  NumbersInOrder'
    BY <1>1, <1>7 DEF NextPage, qvars
  <1>8. CASE UNCHANGED vars
    BY <1>1, <1>8 DEF vars, qvars
  <1> QED
    BY <1>3, <1>4, <1>5, <1>6, <1>7, <1>8 DEF Next

\* The board of one queue.
BoardOf(list) ==
  [id \in Taken(IdsOf(list)) |-> (CHOOSE t \in {list[i] : i \in 1..Len(list)} : t.id = id).status]

LEMMA BoardAt ==
  ASSUME NEW list \in Seq(Task),
         \A i, j \in 1..Len(list) : list[i].id = list[j].id => i = j
  PROVE  /\ BoardOf(list) = [id \in {list[i].id : i \in 1..Len(list)} |-> BoardOf(list)[id]]
         /\ \A i \in 1..Len(list) : BoardOf(list)[list[i].id] = list[i].status
  <1>1. Len(list) \in Nat
    BY LenProperties
  <1>2. Taken(IdsOf(list)) = {list[i].id : i \in 1..Len(list)}
    <2> DEFINE ids == [i \in 1..Len(list) |-> list[i].id]
    <2>1. ids \in Seq(Ids) /\ Len(ids) = Len(list)
      <3>1. ids \in [1..Len(list) -> Ids]
        <4>1. \A i \in 1..Len(list) : list[i].id \in Ids
          <5>1. \A i \in 1..Len(list) : list[i] \in Task
            BY ElementOfSeq
          <5> QED
            BY <5>1 DEF Task
        <4> QED
          BY <4>1
      <3> QED
        BY <1>1, <3>1
    <2>2. \A i \in 1..Len(list) : ids[i] = list[i].id
      OBVIOUS
    <2>3. Taken(ids) = {ids[i] : i \in 1..Len(list)}
      BY <2>1 DEF Taken
    <2>4. Taken(ids) = {list[i].id : i \in 1..Len(list)}
      BY <2>2, <2>3
    <2>5. IdsOf(list) = ids
      BY DEF IdsOf
    <2> QED
      BY <2>4, <2>5
  <1>3. ASSUME NEW i \in 1..Len(list)
        PROVE  BoardOf(list)[list[i].id] = list[i].status
    <2> DEFINE all == {list[k] : k \in 1..Len(list)}
               found == CHOOSE t \in all : t.id = list[i].id
    <2>1. list[i] \in all
      OBVIOUS
    <2>2. \E t \in all : t.id = list[i].id
      BY <2>1
    <2>3. found \in all /\ found.id = list[i].id
      BY <2>2
    <2>4. found = list[i]
      BY <2>3
    <2>5. list[i].id \in Taken(IdsOf(list))
      BY <1>2
    <2>6. BoardOf(list)[list[i].id] = found.status
      BY <2>5 DEF BoardOf
    <2> QED
      BY <2>4, <2>6
  <1> QED
    BY <1>2, <1>3 DEF BoardOf
\* The board as the refinement mapping of Queues has it.
Board == [n \in Names |-> BoardOf(tasks[n])]

LEMMA BoardIs ==
  Board = [n \in Names |->
             [id \in Taken(IdsOf(tasks[n])) |->
                (CHOOSE t \in {tasks[n][i] : i \in Places(n)} : t.id = id).status]]
  BY DEF Board, BoardOf, Places
\* Two lists of the same tasks, of which one has another status.
Restated(l, m, i, s) ==
  /\ l \in Seq(Task) /\ m \in Seq(Task) /\ Len(m) = Len(l) /\ i \in 1..Len(l)
  /\ \A j, k \in 1..Len(l) : l[j].id = l[k].id => j = k
  /\ \A k \in 1..Len(l) : m[k].id = l[k].id
  /\ \A k \in 1..Len(l) : m[k].status = IF k = i THEN s ELSE l[k].status

LEMMA BoardMove ==
  ASSUME NEW l, NEW m, NEW i, NEW s, Restated(l, m, i, s)
  PROVE  BoardOf(m) = [BoardOf(l) EXCEPT ![l[i].id] = s]
  <1> USE DEF Restated
  <1> DEFINE D == {l[k].id : k \in 1..Len(l)}
             old == BoardOf(l)
             new == BoardOf(m)
  <1>1. old = [x \in D |-> old[x]] /\ \A k \in 1..Len(l) : old[l[k].id] = l[k].status
    BY BoardAt
  <1>2. /\ new = [x \in {m[k].id : k \in 1..Len(m)} |-> new[x]]
        /\ \A k \in 1..Len(m) : new[m[k].id] = m[k].status
    <2>1. \A j, k \in 1..Len(m) : m[j].id = m[k].id => j = k
      <3>1. \A k \in 1..Len(m) : k \in 1..Len(l) /\ m[k].id = l[k].id
        OBVIOUS
      <3> QED
        BY <3>1
    <2> QED
      BY <2>1, BoardAt
  <1>3. {m[k].id : k \in 1..Len(m)} = D
    OBVIOUS
  <1>4. new = [x \in D |-> new[x]]
    BY <1>2, <1>3
  <1> HIDE DEF old, new
  <1>5. ASSUME NEW x \in D
        PROVE  new[x] = IF x = l[i].id THEN s ELSE old[x]
    <2>1. PICK k \in 1..Len(l) : x = l[k].id
      OBVIOUS
    <2>2. new[x] = m[k].status /\ old[x] = l[k].status
      BY <1>1, <1>2, <2>1
    <2>3. x = l[i].id <=> k = i
      BY <2>1
    <2> QED
      BY <2>2, <2>3
  <1> QED
    BY <1>1, <1>4, <1>5 DEF old, new

\* A list and the same list with a pending task behind it.
Extended(l, m, x) ==
  /\ l \in Seq(Task) /\ m \in Seq(Task) /\ Len(m) = Len(l) + 1
  /\ \A j, k \in 1..Len(m) : m[j].id = m[k].id => j = k
  /\ \A k \in 1..Len(l) : m[k] = l[k]
  /\ m[Len(l) + 1].id = x /\ m[Len(l) + 1].status = "pending"

\* A board with a pending task more.
With(b, x) == [y \in DOMAIN b \cup {x} |-> IF y = x THEN "pending" ELSE b[y]]

LEMMA BoardAdd ==
  ASSUME NEW l, NEW m, NEW x, Extended(l, m, x)
  PROVE  BoardOf(m) = With(BoardOf(l), x)
  <1> USE DEF Extended
  <1> DEFINE D == {l[k].id : k \in 1..Len(l)}
             E == {m[k].id : k \in 1..Len(m)}
             old == BoardOf(l)
             new == BoardOf(m)
             last == Len(l) + 1
  <1>1. Len(l) \in Nat
    BY LenProperties
  <1>2. \A k \in 1..Len(l) : k \in 1..Len(m) /\ k # last
    BY <1>1
  <1>3. last \in 1..Len(m) /\ \A k \in 1..Len(m) : k \in 1..Len(l) \/ k = last
    BY <1>1
  <1> HIDE DEF last
  <1>4. \A j, k \in 1..Len(l) : l[j].id = l[k].id => j = k
    BY <1>2
  <1>5. old = [y \in D |-> old[y]] /\ \A k \in 1..Len(l) : old[l[k].id] = l[k].status
    BY <1>4, BoardAt
  <1>6. new = [y \in E |-> new[y]] /\ \A k \in 1..Len(m) : new[m[k].id] = m[k].status
    BY BoardAt
  <1>7. m[last].id = x /\ m[last].status = "pending"
    BY DEF last
  <1>8. E = D \cup {x}
    <2>1. \A y \in E : y \in D \cup {x}
      BY <1>3, <1>7
    <2>2. \A y \in D : y \in E
      BY <1>2
    <2>3. x \in E
      BY <1>3, <1>7
    <2> QED
      BY <2>1, <2>2, <2>3
  <1> HIDE DEF old, new
  <1>9. ASSUME NEW y \in E
        PROVE  new[y] = IF y = x THEN "pending" ELSE old[y]
    <2>1. PICK k \in 1..Len(m) : y = m[k].id
      OBVIOUS
    <2>2. new[y] = m[k].status
      BY <1>6, <2>1
    <2>3. y = x <=> k = last
      BY <1>3, <1>7, <2>1
    <2>4. CASE k = last
      BY <1>7, <2>2, <2>3, <2>4
    <2>5. CASE k # last
      <3>1. k \in 1..Len(l) /\ m[k] = l[k]
        BY <1>3, <2>5
      <3>2. old[y] = l[k].status
        BY <1>5, <2>1, <3>1
      <3> QED
        BY <2>2, <2>3, <2>5, <3>1, <3>2
    <2> QED
      BY <2>4, <2>5
  <1>10. DOMAIN old = D
    BY <1>5
  <1> HIDE DEF D, E
  <1>11. new = [y \in DOMAIN old \cup {x} |-> IF y = x THEN "pending" ELSE old[y]]
    BY <1>6, <1>8, <1>9, <1>10
  <1> QED
    BY <1>11 DEF old, new, With

LEMMA BoardFacts ==
  ASSUME QueuesTyped, NumbersUnique, NEW n \in Names
  PROVE  /\ Board[n] = BoardOf(tasks[n])
         /\ DOMAIN Board[n] = {tasks[n][i].id : i \in Places(n)}
         /\ \A i \in Places(n) : Board[n][tasks[n][i].id] = tasks[n][i].status
  <1>1. tasks[n] \in Seq(Task) /\ Places(n) = 1..Len(tasks[n])
    BY TaskAt
  <1>2. \A i, j \in 1..Len(tasks[n]) : tasks[n][i].id = tasks[n][j].id => i = j
    BY <1>1 DEF NumbersUnique
  <1>3. Board[n] = BoardOf(tasks[n])
    BY DEF Board
  <1>4. /\ BoardOf(tasks[n]) = [id \in {tasks[n][i].id : i \in 1..Len(tasks[n])} |->
                                 BoardOf(tasks[n])[id]]
        /\ \A i \in 1..Len(tasks[n]) : BoardOf(tasks[n])[tasks[n][i].id] = tasks[n][i].status
    BY <1>1, <1>2, BoardAt
  <1> QED
    BY <1>1, <1>3, <1>4

\* A move changes one entry of the board.
LEMMA MoveChanges ==
  ASSUME IInv, NEW name \in Names, NEW i \in Places(name), NEW s \in Statuses, Move(name, i, s)
  PROVE  Board' = [Board EXCEPT ![name] = [Board[name] EXCEPT ![tasks[name][i].id] = s]]
  <1> USE DEF IInv
  <1>1. Moved(name, i, s)
    BY MoveMoves
  <1>2. \A n \in Names : /\ tasks[n] \in Seq(Task) /\ tasks'[n] \in Seq(Task)
                         /\ Len(tasks'[n]) = Len(tasks[n]) /\ Places(n) = 1..Len(tasks[n])
    BY <1>1, TaskAt DEF Moved
  <1>3. ASSUME NEW n \in Names \ {name}
        PROVE  BoardOf(tasks'[n]) = BoardOf(tasks[n])
    <2>1. tasks'[n] = tasks[n]
      BY DEF Move, QueuesTyped
    <2> QED
      BY <2>1
  <1>4. BoardOf(tasks'[name]) = [BoardOf(tasks[name]) EXCEPT ![tasks[name][i].id] = s]
    <2>1. \A j, k \in 1..Len(tasks[name]) : tasks[name][j].id = tasks[name][k].id => j = k
      BY <1>2 DEF NumbersUnique
    <2>2. \A k \in 1..Len(tasks[name]) :
            /\ tasks'[name][k].id = tasks[name][k].id
            /\ tasks'[name][k].status = IF k = i THEN s ELSE tasks[name][k].status
      BY <1>1, <1>2 DEF Moved
    <2>3. i \in 1..Len(tasks[name])
      BY <1>2
    <2>4. \A k \in 1..Len(tasks[name]) : tasks'[name][k].id = tasks[name][k].id
      BY <2>2
    <2>5. \A k \in 1..Len(tasks[name]) :
            tasks'[name][k].status = IF k = i THEN s ELSE tasks[name][k].status
      BY <2>2
    <2>6. Restated(tasks[name], tasks'[name], i, s)
      BY <1>2, <2>1, <2>3, <2>4, <2>5 DEF Restated
    <2> QED
      BY <2>6, BoardMove
  <1>5. Board' = [n \in Names |-> BoardOf(tasks'[n])]
    BY DEF Board
  <1>6. \A n \in Names : Board[n] = BoardOf(tasks[n])
    BY DEF Board
  <1>7. Board = [n \in Names |-> Board[n]]
    BY DEF Board
  <1> HIDE DEF Board
  <1> QED
    BY <1>3, <1>4, <1>5, <1>6, <1>7
\* An added task gets an entry of its own.
LEMMA AddPosts ==
  ASSUME IInv, IInv', NEW name \in Names, Add(name)
  PROVE  Board' = [Board EXCEPT ![name] = With(Board[name], nextID + 1)]
  <1>1. Added(name)
    BY AddAdds DEF IInv
  <1>2. \A n \in Names : tasks[n] \in Seq(Task) /\ tasks'[n] \in Seq(Task)
                         /\ Places(n) = 1..Len(tasks[n])
    BY <1>1, TaskAt DEF Added, IInv
  <1>3. ASSUME NEW n \in Names \ {name}
        PROVE  BoardOf(tasks'[n]) = BoardOf(tasks[n])
    <2>1. tasks'[n] = tasks[n]
      BY DEF Add, QueuesTyped, IInv
    <2> QED
      BY <2>1
  <1>4. BoardOf(tasks'[name]) = With(BoardOf(tasks[name]), nextID + 1)
    <2>1. Len(tasks'[name]) = Len(tasks[name]) + 1
      BY <1>1 DEF Added
    <2>2. \A j, k \in 1..Len(tasks'[name]) : tasks'[name][j].id = tasks'[name][k].id => j = k
      BY DEF IInv, NumbersUnique, Places
    <2>3. \A k \in 1..Len(tasks[name]) : tasks'[name][k] = tasks[name][k]
      BY <1>1, <1>2 DEF Added
    <2>4. /\ tasks'[name][Len(tasks[name]) + 1].id = nextID + 1
          /\ tasks'[name][Len(tasks[name]) + 1].status = "pending"
      BY <1>1 DEF Added
    <2>5. Extended(tasks[name], tasks'[name], nextID + 1)
      BY <1>2, <2>1, <2>2, <2>3, <2>4 DEF Extended
    <2> QED
      BY <2>5, BoardAdd
  <1>5. Board' = [n \in Names |-> BoardOf(tasks'[n])]
    BY DEF Board
  <1>6. \A n \in Names : Board[n] = BoardOf(tasks[n])
    BY DEF Board
  <1>7. Board = [n \in Names |-> Board[n]]
    BY DEF Board
  <1> HIDE DEF Board
  <1> QED
    BY <1>3, <1>4, <1>5, <1>6, <1>7

\* Its number is the next one that nobody has.
LEMMA NumbersPosted ==
  ASSUME IInv, NumbersInOrder
  PROVE  /\ UNION {DOMAIN Board[n] : n \in Names} = 1..nextID
         /\ Cardinality(1..nextID) + 1 = nextID + 1
         /\ nextID + 1 \notin 1..nextID
  <1>1. nextID \in Nat
    BY DEF IInv, QueuesTyped
  <1>2. \A n \in Names : DOMAIN Board[n] = {tasks[n][i].id : i \in Places(n)}
    BY BoardFacts DEF IInv
  <1>3. \A n \in Names : \A x \in DOMAIN Board[n] : x \in 1..nextID
    BY <1>2 DEF IInv, NumbersUnique
  <1>4. \A k \in 1..nextID : \E n \in Names : k \in DOMAIN Board[n]
    BY <1>2 DEF NumbersInOrder
  <1>5. Cardinality(1..nextID) = nextID
    BY <1>1, FS_Interval
  <1> QED
    BY <1>1, <1>3, <1>4, <1>5

\* The places of pending tasks are in the order of their numbers.
LEMMA FirstIsOldest ==
  ASSUME IInv, NumbersInOrder, NEW name \in Names, NEW i \in WithStatus(name, "pending"),
         \A j \in WithStatus(name, "pending") : i <= j
  PROVE  /\ tasks[name][i].id \in DOMAIN Board[name]
         /\ Board[name][tasks[name][i].id] = "pending"
         /\ \A x \in DOMAIN Board[name] : Board[name][x] = "pending" => tasks[name][i].id <= x
  <1>1. i \in Places(name) /\ tasks[name][i].status = "pending"
    BY DEF WithStatus
  <1>2. /\ DOMAIN Board[name] = {tasks[name][k].id : k \in Places(name)}
        /\ \A k \in Places(name) : Board[name][tasks[name][k].id] = tasks[name][k].status
    BY BoardFacts DEF IInv
  <1>3. ASSUME NEW x \in DOMAIN Board[name], Board[name][x] = "pending"
        PROVE  tasks[name][i].id <= x
    <2>1. PICK k \in Places(name) : x = tasks[name][k].id
      BY <1>2
    <2>2. k \in WithStatus(name, "pending")
      BY <1>2, <1>3, <2>1 DEF WithStatus
    <2>3. i <= k /\ i \in Nat /\ k \in Nat
      BY <1>1, <2>2, TaskAt DEF IInv
    <2>4. i = k \/ tasks[name][i].id < tasks[name][k].id
      BY <1>1, <2>3 DEF NumbersInOrder
    <2>5. tasks[name][i].id \in Nat /\ x \in Nat
      BY <1>1, <2>1, TaskAt DEF IInv, Ids
    <2> QED
      BY <2>1, <2>4, <2>5
  <1> QED
    BY <1>1, <1>2, <1>3
----------------------------------------------------------------------------

LEMMA InitOpens == Init => Promised!BInit
  <1> SUFFICES ASSUME Init PROVE Promised!BInit
    OBVIOUS
  <1>1. Len(<< >>) = 0 /\ << >> \in Seq(Task)
    BY EmptySeq
  <1>2. BoardOf(<< >>) = << >>
    <2> DEFINE b == BoardOf(<< >>)
    <2>1. b = [id \in {} |-> b[id]]
      <3>1. Taken(IdsOf(<< >>)) = {}
        BY <1>1 DEF Taken, IdsOf
      <3> QED
        BY <3>1 DEF BoardOf
    <2> HIDE DEF b
    <2>2. b = << >>
      BY <2>1
    <2> QED
      BY <2>2 DEF b
  <1>3. Board = [n \in Names |-> << >>]
    BY <1>2 DEF Init, Board
  <1> QED
    BY <1>3, BoardIs DEF Init, Promised!BInit

LEMMA SameCardinality == \A S : Promised!Cardinality(S) = Cardinality(S)
  BY DEF Promised!Cardinality, Cardinality

LEMMA AddSimulated ==
  ASSUME IInv, IInv', NumbersInOrder, NEW name \in Names, Add(name)
  PROVE  name \in queues /\ Promised!Post(name)
  <1>1. Cardinality(Promised!Posted) + 1 = nextID + 1 /\ nextID + 1 \notin Promised!Posted
    BY NumbersPosted, BoardIs DEF Promised!Posted
  <1>2. Board' = [Board EXCEPT ![name] = With(Board[name], nextID + 1)]
    BY AddPosts
  <1>3. name \in queues /\ queues' = queues
    BY DEF Add
  <1>4. ASSUME NEW id, id = Promised!Cardinality(Promised!Posted) + 1, id \notin Promised!Posted,
               Board' = [Board EXCEPT ![name] = With(Board[name], id)]
        PROVE  Promised!Post(name)
    <2>1. Board' = [Board EXCEPT ![name] =
                      [i \in DOMAIN Board[name] \cup {id} |->
                         IF i = id THEN "pending" ELSE Board[name][i]]]
      BY <1>4 DEF With
    <2> QED
      BY <1>3, <1>4, <2>1 DEF Promised!Post, Board, BoardOf, Places
  <1> QED
    BY <1>1, <1>2, <1>3, <1>4, SameCardinality
\* A move is a change on the board.
LEMMA MoveSimulated ==
  ASSUME IInv, NEW name \in Names, NEW i \in Places(name), NEW s \in Statuses,
         NEW id, id = tasks[name][i].id, Move(name, i, s)
  PROVE  Promised!Change(name, id, s)
  <1>1. Board' = [Board EXCEPT ![name] = [Board[name] EXCEPT ![id] = s]]
    BY MoveChanges
  <1>2. queues' = queues
    BY DEF Move
  <1>3. Board' = [Board EXCEPT ![name][id] = s]
    BY <1>1
  <1> QED
    BY <1>2, <1>3 DEF Promised!Change, Board, BoardOf, Places

LEMMA ClaimSimulated ==
  ASSUME IInv, NumbersInOrder, NEW name \in Names, Claim(name)
  PROVE  name \in queues /\ \E id \in DOMAIN Board[name] : Promised!Start(name, id)
  <1>1. PICK i \in WithStatus(name, "pending") :
               (\A j \in WithStatus(name, "pending") : i <= j) /\ Start(name, i)
    BY DEF Claim
  <1> PICK id : id = tasks[name][i].id
    OBVIOUS
  <1>2. i \in Places(name) /\ "running" \in Statuses /\ Move(name, i, "running")
    BY <1>1 DEF WithStatus, Statuses, Start
  <1>3. Promised!Change(name, id, "running")
    BY <1>2, MoveSimulated
  <1>4. /\ id \in DOMAIN Board[name] /\ Board[name][id] = "pending"
        /\ \A x \in DOMAIN Board[name] : Board[name][x] = "pending" => id <= x
    BY <1>1, FirstIsOldest
  <1>5. Promised!Pending(name) = {x \in DOMAIN Board[name] : Board[name][x] = "pending"}
    BY DEF Promised!Pending, Board, BoardOf, Places
  <1>6. Promised!Start(name, id)
    BY <1>3, <1>4, <1>5 DEF Promised!Start
  <1>7. name \in queues
    BY DEF Claim
  <1> QED
    BY <1>4, <1>6, <1>7

LEMMA UpdateSimulated ==
  ASSUME IInv, NEW name \in Names, NEW id \in 1..nextID, NEW s \in Statuses,
         Update(name, id, s)
  PROVE  name \in queues /\ id \in DOMAIN Board[name]
         /\ (Promised!Report(name, id) \/ Promised!Retry(name, id))
  <1>1. PICK i \in Places(name) : /\ tasks[name][i].id = id
                                  /\ Allowed(tasks[name][i].status, s)
                                  /\ Move(name, i, s)
    BY DEF Update
  <1>2. Promised!Change(name, id, s)
    BY <1>1, MoveSimulated
  <1>3. id \in DOMAIN Board[name] /\ Board[name][id] = tasks[name][i].status
    BY <1>1, BoardFacts DEF IInv
  <1>4. \/ Board[name][id] = "running" /\ (s = "completed" \/ s = "failed")
        \/ Board[name][id] = "failed" /\ s = "pending"
    BY <1>1, <1>3 DEF Allowed
  <1>5. CASE Board[name][id] = "running" /\ (s = "completed" \/ s = "failed")
    <2>1. Promised!Report(name, id)
      BY <1>2, <1>5 DEF Promised!Report, Board, BoardOf, Places
    <2> QED
      BY <1>3, <2>1 DEF Update
  <1>6. CASE Board[name][id] = "failed" /\ s = "pending"
    <2>1. Promised!Retry(name, id)
      BY <1>2, <1>6 DEF Promised!Retry, Board, BoardOf, Places
    <2> QED
      BY <1>3, <2>1 DEF Update
  <1> QED
    BY <1>4, <1>5, <1>6

LEMMA NextSimulated ==
  ASSUME IInv, IInv', NumbersInOrder, [Next]_vars
  PROVE  [Promised!BNext]_(Promised!bvars)
  <1> DEFINE domain(n) == DOMAIN Board[n]
  <1>1. Promised!BNext <=>
          \/ \E n \in Names \ queues : Promised!Open(n)
          \/ \E n \in queues :
               \/ Promised!Post(n)
               \/ \E id \in domain(n) :
                    Promised!Start(n, id) \/ Promised!Report(n, id) \/ Promised!Retry(n, id)
    BY DEF Promised!BNext, Board, BoardOf, Places
  <1>2. UNCHANGED Promised!bvars <=> queues' = queues /\ Board' = Board
    BY DEF Promised!bvars, Board, BoardOf, Places
  <1>3. tasks' = tasks => Board' = Board
    BY DEF Board
  <1> HIDE DEF domain
  <1>4. ASSUME NEW name \in Names, Create(name) PROVE Promised!BNext
    <2>1. queues' = queues \cup {name} /\ Board' = Board /\ name \in Names \ queues
      BY <1>3, <1>4 DEF Create
    <2>2. Promised!Open(name)
      BY <2>1 DEF Promised!Open, Board, BoardOf, Places
    <2> QED
      BY <1>1, <2>1, <2>2
  <1>5. ASSUME NEW name \in Names, Add(name) PROVE Promised!BNext
    BY <1>1, <1>5, AddSimulated
  <1>6. ASSUME NEW name \in Names, Claim(name) PROVE Promised!BNext
    <2>1. name \in queues /\ \E id \in domain(name) : Promised!Start(name, id)
      BY <1>6, ClaimSimulated DEF domain
    <2> QED
      BY <1>1, <2>1
  <1>7. ASSUME NEW name \in Names, NEW id \in 1..nextID, NEW s \in Statuses, Update(name, id, s)
        PROVE  Promised!BNext
    <2>1. /\ name \in queues /\ id \in domain(name)
          /\ Promised!Report(name, id) \/ Promised!Retry(name, id)
      BY <1>7, UpdateSimulated DEF domain
    <2> QED
      BY <1>1, <2>1
  <1>8. ASSUME NEW r \in Readers, NEW name \in Names, NEW f \in Filters, BeginWalk(r, name, f)
        PROVE  UNCHANGED Promised!bvars
    BY <1>2, <1>3, <1>8 DEF BeginWalk, qvars
  <1>9. ASSUME NEW r \in Readers, NextPage(r)
        PROVE  UNCHANGED Promised!bvars
    BY <1>2, <1>3, <1>9 DEF NextPage, qvars
  <1>10. CASE UNCHANGED vars
    BY <1>2, <1>3, <1>10 DEF vars, qvars
  <1> QED
    BY <1>4, <1>5, <1>6, <1>7, <1>8, <1>9, <1>10 DEF Next

\* The queues keep what TaskBoard promises: numbers that are never used twice,
\* the oldest pending task first, and no way back from completed (queues.go:51-149).
THEOREM KeepsThePromise == Spec => ImplementsTaskBoard
  <1>1. Init => Promised!BInit
    BY InitOpens
  <1>2. IInv /\ IInv' /\ NumbersInOrder /\ [Next]_vars => [Promised!BNext]_(Promised!bvars)
    BY NextSimulated
  <1> QED
    BY <1>1, <1>2, OrderHolds, OrderKept, QueuesInvariant, PTL
    DEF Spec, ImplementsTaskBoard, Promised!BSpec

----------------------------------------------------------------------------
(* Pages                                                                   *)

LEMMA KeptPlaces ==
  ASSUME QueuesTyped, NEW n \in Names, NEW f
  PROVE  /\ Kept(n, f) \in SUBSET Places(n) /\ Kept(n, f) \in SUBSET Nat
         /\ IsFiniteSet(Kept(n, f)) /\ Cardinality(Kept(n, f)) \in Nat
<1>1. IsFiniteSet(Places(n)) /\ Places(n) \in SUBSET Nat
  <2>1. Len(tasks[n]) \in Nat /\ Places(n) = 1..Len(tasks[n])
    BY TaskAt
  <2>2. IsFiniteSet(1..Len(tasks[n]))
    BY <2>1, FS_Interval
  <2> QED BY <2>1, <2>2
<1>2. Kept(n, f) \in SUBSET Places(n)
  BY DEF Kept
<1> QED BY <1>1, <1>2, FS_Subset, FS_CardinalityType

\* The list that pages cut up holds each kept task where the scan counts it.
LEMMA MatchingShape ==
  ASSUME QueuesTyped, NEW n \in Names, NEW f
  PROVE  /\ Matching(n, f) \in Seq(Task)
         /\ Len(Matching(n, f)) = Cardinality(Kept(n, f))
         /\ \A i \in Kept(n, f) : Matching(n, f)[Seen(Kept(n, f), i)] = tasks[n][i]
         /\ \A k \in 1..Len(Matching(n, f)) :
              \E i \in Kept(n, f) : Seen(Kept(n, f), i) = k /\ Matching(n, f)[k] = tasks[n][i]
<1> DEFINE K == Kept(n, f)
           at == InOrder(K)
           list == [k \in 1..Len(at) |-> tasks[n][at[k]]]
<1>1. K \in SUBSET Places(n) /\ K \in SUBSET Nat /\ IsFiniteSet(K) /\ Cardinality(K) \in Nat
  BY KeptPlaces
<1>2. Matching(n, f) = list
  BY DEF Matching
<1> HIDE DEF K
<1>3. /\ Len(at) = Cardinality(K) /\ \A k \in 1..Cardinality(K) : at[k] \in K
      /\ \A i \in K : at[Seen(K, i)] = i
      /\ \A k \in 1..Cardinality(K) : Seen(K, at[k]) = k
  <2>1. /\ at \in Seq(K) /\ Len(at) = Cardinality(K)
        /\ \A i \in K : at[Seen(K, i)] = i
        /\ \A k \in 1..Cardinality(K) : Seen(K, at[k]) = k
    BY <1>1, InOrderLists
  <2> HIDE DEF at
  <2>2. \A k \in 1..Len(at) : at[k] \in K
    BY <2>1, ElementOfSeq
  <2> QED BY <2>1, <2>2
<1>4. \A i \in K : Seen(K, i) \in 1..Cardinality(K)
  BY <1>1, SeenRises
<1> HIDE DEF at
<1>5. \A k \in 1..Cardinality(K) : tasks[n][at[k]] \in Task
  BY <1>1, <1>3, TaskAt
<1>6. list \in Seq(Task) /\ Len(list) = Cardinality(K)
  BY <1>1, <1>3, <1>5
<1>7. \A i \in K : list[Seen(K, i)] = tasks[n][i]
  BY <1>3, <1>4
<1>8. \A k \in 1..Len(list) : \E i \in K : Seen(K, i) = k /\ list[k] = tasks[n][i]
  BY <1>3, <1>6
<1> HIDE DEF list
<1> QED BY <1>2, <1>6, <1>7, <1>8 DEF K

\* Without a filter it is the list of the tasks itself.
LEMMA MatchingAll ==
  ASSUME QueuesTyped, NEW n \in Names
  PROVE  Matching(n, All) = tasks[n]
<1>1. /\ tasks[n] \in Seq(Task) /\ Len(tasks[n]) \in Nat /\ Places(n) = 1..Len(tasks[n])
  BY TaskAt
<1>2. Kept(n, All) = 1..Len(tasks[n])
  BY <1>1 DEF Kept
<1>3. \A m \in Nat : Cardinality(1..m) = m
  <2>1. \A m \in Nat : Cardinality(1..m) = IF 1 > m THEN 0 ELSE m - 1 + 1
    BY FS_Interval
  <2> QED BY <2>1
<1>4. \A i \in 1..Len(tasks[n]) : Seen(1..Len(tasks[n]), i) = i
  <2>1. ASSUME NEW i \in 1..Len(tasks[n]) PROVE {j \in 1..Len(tasks[n]) : j <= i} = 1..i
    BY <1>1
  <2>2. \A i \in 1..Len(tasks[n]) : i \in Nat /\ Cardinality(1..i) = i
    BY <1>3
  <2> QED BY <2>1, <2>2 DEF Seen
<1>5. /\ Matching(n, All) \in Seq(Task) /\ Len(Matching(n, All)) = Len(tasks[n])
      /\ \A i \in 1..Len(tasks[n]) : Matching(n, All)[i] = tasks[n][i]
  <2> DEFINE K == 1..Len(tasks[n])
  <2>1. /\ Matching(n, All) \in Seq(Task) /\ Len(Matching(n, All)) = Cardinality(K)
        /\ \A i \in K : Matching(n, All)[Seen(K, i)] = tasks[n][i]
    <3>1. /\ Matching(n, All) \in Seq(Task)
          /\ Len(Matching(n, All)) = Cardinality(Kept(n, All))
          /\ \A i \in Kept(n, All) : Matching(n, All)[Seen(Kept(n, All), i)] = tasks[n][i]
      BY MatchingShape
    <3> QED BY <1>2, <3>1
  <2>2. Cardinality(K) = Len(tasks[n]) /\ \A i \in K : Seen(K, i) = i
    BY <1>1, <1>3, <1>4
  <2> HIDE DEF K
  <2>3. \A i \in K : Matching(n, All)[i] = tasks[n][i]
    BY <2>1, <2>2
  <2> QED BY <2>1, <2>2, <2>3 DEF K
<1> QED BY <1>1, <1>5, SeqEqual

\* The window that a page cuts out of a list.
LEMMA Window ==
  ASSUME NEW S, NEW list \in Seq(S), NEW offset \in Nat, NEW limit \in Nat \ {0}
  PROVE  LET w == SubSeq(list, offset + 1, Smaller(offset + limit, Len(list)))
         IN  /\ w \in Seq(S)
             /\ Len(w) = IF Len(list) <= offset THEN 0 ELSE Smaller(limit, Len(list) - offset)
             /\ \A k \in 1..Len(w) : w[k] = list[offset + k] /\ offset + k <= Len(list)
<1> DEFINE m == Smaller(offset + limit, Len(list))
           w == SubSeq(list, offset + 1, m)
<1>1. Len(list) \in Nat /\ m \in Nat /\ m <= Len(list)
  BY DEF Smaller
<1>2. w \in Seq(S)
  <2>1. \A k \in (offset + 1)..m : list[k] \in S
    BY <1>1
  <2> HIDE DEF m
  <2> QED BY <1>1, <2>1
<1>3. Len(w) = IF offset + 1 <= m THEN m - offset ELSE 0
  <2> HIDE DEF m
  <2> QED BY <1>1
<1>4. \A k \in 1..Len(w) : w[k] = list[offset + k] /\ offset + k <= m
  <2> HIDE DEF m
  <2> QED BY <1>1, <1>3
<1> HIDE DEF w
<1>5. Len(w) = IF Len(list) <= offset THEN 0 ELSE Smaller(limit, Len(list) - offset)
  BY <1>1, <1>3 DEF Smaller
<1>6. \A k \in 1..Len(w) : w[k] = list[offset + k] /\ offset + k <= Len(list)
  <2>1. ASSUME NEW k \in 1..Len(w) PROVE w[k] = list[offset + k] /\ offset + k <= Len(list)
    <3>1. w[k] = list[offset + k] /\ offset + k <= m /\ k \in Nat
      BY <1>4
    <3> QED BY <1>1, <3>1
  <2> QED BY <2>1
<1> QED BY <1>2, <1>5, <1>6 DEF w

\* The total of a page is the length of the list it is cut out of.
LEMMA TotalIsLength ==
  ASSUME IInv, NEW n \in Names, NEW f \in Statuses \cup {All}, NEW offset, NEW limit
  PROVE  Page(n, f, offset, limit).total = Len(Matching(n, f))
<1>1. CASE f = All
  BY <1>1, MatchingAll DEF IInv, Page
<1>2. CASE f # All
  <2>1. f \in Statuses
    BY <1>2
  <2>2. Kept(n, f) = WithStatus(n, f)
    BY <1>2 DEF Kept, WithStatus
  <2>3. counts[n][f] = Cardinality(WithStatus(n, f))
    BY <2>1 DEF IInv, CountsMatch
  <2>4. Len(Matching(n, f)) = Cardinality(Kept(n, f))
    BY MatchingShape DEF IInv
  <2> QED BY <1>2, <2>2, <2>3, <2>4 DEF Page
<1> QED BY <1>1, <1>2

LEMMA LimitNat == Limit \in Nat \ {0} /\ \A k \in 1..(Limit + 1) : k \in Nat \ {0}
<1>1. Limit \in Nat \ {0}
  BY QueuesAssumption
<1> QED BY <1>1

\* A page is as full as its total says, for every state of the queues, offset
\* and limit (queues.go:72-105).
THEOREM PagesAreFull == Spec => []PagesFull
<1>1. IInv => PagesFull
  <2> SUFFICES ASSUME IInv, NEW n \in queues, NEW f \in Statuses \cup {All},
                      NEW offset \in 0..nextID, NEW limit \in 1..(Limit + 1)
               PROVE  LET page == Page(n, f, offset, limit)
                      IN Len(page.items) = IF page.total <= offset THEN 0
                                           ELSE Smaller(limit, page.total - offset)
    BY DEF PagesFull
  <2>1. n \in Names /\ offset \in Nat /\ limit \in Nat \ {0} /\ QueuesTyped
    <3>1. queues \subseteq Names /\ nextID \in Nat
      BY DEF IInv, QueuesTyped
    <3>2. offset \in Nat
      BY <3>1
    <3>3. limit \in Nat \ {0}
      BY LimitNat
    <3> QED BY <3>1, <3>2, <3>3 DEF IInv
  <2>2. Page(n, f, offset, limit).total = Len(Matching(n, f))
    BY <2>1, TotalIsLength
  <2>3. Matching(n, f) \in Seq(Task)
    BY <2>1, MatchingShape
  <2>4. Page(n, f, offset, limit).items
          = SubSeq(Matching(n, f), offset + 1, Smaller(offset + limit, Len(Matching(n, f))))
    BY DEF Page
  <2> DEFINE list == Matching(n, f)
  <2>5. Len(SubSeq(list, offset + 1, Smaller(offset + limit, Len(list))))
          = IF Len(list) <= offset THEN 0 ELSE Smaller(limit, Len(list) - offset)
    BY <2>1, <2>3, Window
  <2> QED BY <2>2, <2>4, <2>5
<1> QED BY <1>1, QueuesInvariant, PTL

----------------------------------------------------------------------------
(* Walks                                                                   *)

Walk == [name : Names \cup {"none"}, filter : Statuses \cup {All},
         wanted : SUBSET Ids, got : Seq(Ids), over : BOOLEAN]

WalksTyped ==
  /\ walks \in [Readers -> Walk]
  /\ \A r \in Readers : walks[r] = NoWalk \/ walks[r].name \in Names

\* No task leaves these filters.
Lasting == {All, "completed"}

\* The scan has still to meet the task numbered id when it has counted n tasks.
Ahead(name, filter, n, id) ==
  \E i \in Kept(name, filter) : tasks[name][i].id = id /\ Seen(Kept(name, filter), i) > n

\* What a reader wants, it has or will still meet.
NoneMissed ==
  \A r \in Readers : walks[r].filter \in Lasting =>
    \A id \in walks[r].wanted :
      \/ id \in Taken(walks[r].got)
      \/ ~walks[r].over /\ Ahead(walks[r].name, walks[r].filter, Len(walks[r].got), id)

\* A reader of everything has the first tasks of its queue.
FirstOnes ==
  \A r \in Readers : walks[r].name # "none" /\ walks[r].filter = All =>
    /\ Len(walks[r].got) <= Len(tasks[walks[r].name])
    /\ \A k \in 1..Len(walks[r].got) : walks[r].got[k] = tasks[walks[r].name][k].id

WalkInv == IInv /\ WalksTyped /\ NoneMissed /\ FirstOnes

----------------------------------------------------------------------------
(* The queues change under a reader                                        *)

\* Tasks keep their places and their numbers, completed ones their status.
Grows ==
  \A n \in Names :
    /\ Len(tasks[n]) <= Len(tasks'[n])
    /\ \A i \in Places(n) : /\ tasks'[n][i].id = tasks[n][i].id
                            /\ tasks[n][i].status = "completed" => tasks'[n][i].status = "completed"

LEMMA StatusesApart ==
  /\ All \notin Statuses /\ "completed" \in Statuses
  /\ "completed" # "pending" /\ "completed" # "running" /\ "completed" # "failed"
BY Zenon DEF All, Statuses

LEMMA MoveGrows ==
  ASSUME QueuesTyped, NEW n \in Names, NEW i \in Places(n), NEW s \in Statuses,
         tasks[n][i].status # "completed", Move(n, i, s)
  PROVE  Grows
<1>1. Moved(n, i, s)
  BY MoveMoves
<1>2. \A m \in Names : Len(tasks[m]) \in Nat
  BY TaskAt
<1> QED BY <1>1, <1>2 DEF Moved, Grows

LEMMA ChangesGrow ==
  ASSUME QueuesTyped,
         \/ \E n \in Names : Create(n) \/ Add(n) \/ Claim(n)
         \/ \E n \in Names, id \in 1..nextID, s \in Statuses : Update(n, id, s)
  PROVE  Grows /\ walks' = walks
<1>0. \A n \in Names : Len(tasks[n]) \in Nat
  BY TaskAt
<1>1. ASSUME NEW n \in Names, Create(n) PROVE Grows /\ walks' = walks
  BY <1>0, <1>1 DEF Create, Grows
<1>2. ASSUME NEW n \in Names, Add(n) PROVE Grows /\ walks' = walks
  <2>1. Added(n) /\ walks' = walks
    BY <1>2, AddAdds DEF Add
  <2> QED BY <1>0, <2>1 DEF Added, Grows
<1>3. ASSUME NEW n \in Names, Claim(n) PROVE Grows /\ walks' = walks
  <2>1. PICK i \in WithStatus(n, "pending") : Move(n, i, "running")
    BY <1>3 DEF Claim, Start
  <2>2. i \in Places(n) /\ tasks[n][i].status # "completed" /\ "running" \in Statuses
    BY DEF WithStatus, Statuses
  <2>3. walks' = walks
    BY <2>1 DEF Move
  <2> QED BY <2>1, <2>2, <2>3, MoveGrows
<1>4. ASSUME NEW n \in Names, NEW id \in 1..nextID, NEW s \in Statuses, Update(n, id, s)
      PROVE  Grows /\ walks' = walks
  <2>1. PICK i \in Places(n) : Allowed(tasks[n][i].status, s) /\ Move(n, i, s)
    BY <1>4 DEF Update
  <2>2. tasks[n][i].status # "completed"
    BY <2>1 DEF Allowed
  <2>3. walks' = walks
    BY <2>1 DEF Move
  <2> QED BY <2>1, <2>2, <2>3, MoveGrows
<1> QED BY <1>1, <1>2, <1>3, <1>4

KeptWell ==
  /\ \A n \in Names : Len(tasks[n]) \in Nat
  /\ \A n \in Names, f \in Lasting : IsFiniteSet(Kept(n, f)) /\ Kept(n, f) \in SUBSET Nat

LEMMA KeptShape == QueuesTyped => KeptWell
BY TaskAt, KeptPlaces DEF KeptWell

LEMMA KeptGrows ==
  ASSUME QueuesTyped, QueuesTyped', Grows, NEW n \in Names, NEW f \in Lasting
  PROVE  /\ Kept(n, f) \in SUBSET Kept(n, f)'
         /\ IsFiniteSet(Kept(n, f)') /\ Kept(n, f)' \in SUBSET Nat
<1>1. /\ \A m \in Names : Len(tasks[m]) \in Nat /\ Len(tasks'[m]) \in Nat
      /\ IsFiniteSet(Kept(n, f)') /\ Kept(n, f)' \in SUBSET Nat
  <2>1. QueuesTyped' => KeptWell'
    BY KeptShape, PTL
  <2> QED BY <2>1, KeptShape DEF KeptWell, Lasting, All
<1>6. Places(n) \subseteq Places(n)'
  BY <1>1 DEF Places, Grows
<1>7. ASSUME NEW i \in Kept(n, f) PROVE i \in Kept(n, f)'
  <2>1. i \in Places(n) /\ f \in {All, tasks[n][i].status}
    BY DEF Kept
  <2>2. f = All \/ tasks'[n][i].status = f
    BY <2>1, StatusesApart, Zenon DEF Lasting, Grows
  <2> QED BY <1>6, <2>1, <2>2, Zenon DEF Kept
<1> QED BY <1>1, <1>7

LEMMA GrowthKeeps ==
  ASSUME WalkInv, IInv', Grows, walks' = walks
  PROVE  WalkInv'
<1> USE DEF WalkInv
<1>0. QueuesTyped /\ QueuesTyped'
  BY DEF IInv
<1>1. WalksTyped'
  BY DEF WalksTyped, Walk, Ids
<1>2. NoneMissed'
  <2>1. SUFFICES ASSUME NEW r \in Readers, walks[r].filter \in Lasting,
                        NEW id \in walks[r].wanted, id \notin Taken(walks[r].got)
                 PROVE  ~walks[r].over
                        /\ Ahead(walks[r].name, walks[r].filter, Len(walks[r].got), id)'
    BY Zenon DEF NoneMissed, Lasting, All
  <2>2. ~walks[r].over /\ Ahead(walks[r].name, walks[r].filter, Len(walks[r].got), id)
    BY <2>1 DEF NoneMissed
  <2>n. PICK n : n = walks[r].name
    OBVIOUS
  <2>f. PICK f : f = walks[r].filter
    OBVIOUS
  <2>g. PICK g : g = Len(walks[r].got)
    OBVIOUS
  <2>3. n \in Names /\ f \in Lasting
    <3>1. NoWalk.wanted = {}
      BY DEF NoWalk
    <3> QED BY <2>1, <2>n, <2>f, <3>1 DEF WalksTyped
  <2>4. g \in Nat
    <3>1. walks[r].got \in Seq(Ids)
      BY DEF WalksTyped, Walk
    <3> QED BY <2>g, <3>1
  <2>5. PICK i \in Kept(n, f) : tasks[n][i].id = id /\ Seen(Kept(n, f), i) > g
    BY <2>2, <2>n, <2>f, <2>g DEF Ahead
  <2>6. i \in Kept(n, f)' /\ tasks'[n][i].id = id
    BY <1>0, <2>3, <2>5, KeptGrows DEF Grows, Kept
  <2>7. Seen(Kept(n, f), i) <= Seen(Kept(n, f)', i)
    BY <1>0, <2>3, KeptGrows, SeenGrows
  <2>8. Seen(Kept(n, f), i) \in Nat /\ Seen(Kept(n, f)', i) \in Nat
    <3>1. i \in Kept(n, f)'
      BY <2>6
    <3> QED BY <1>0, <2>3, <2>5, <3>1, KeptPlaces, KeptGrows, SeenRises, FS_CardinalityType
  <2>9. Seen(Kept(n, f)', i) > g
    BY <2>4, <2>5, <2>7, <2>8
  <2>10. Ahead(n, f, g, id)'
    BY <2>6, <2>9 DEF Ahead, Seen
  <2>11. Ahead(n, f, g, id)' = Ahead(walks[r].name, walks[r].filter, Len(walks[r].got), id)'
    BY <2>n, <2>f, <2>g DEF Ahead, Kept, Seen, Places, All
  <2> QED BY <2>2, <2>10, <2>11
<1>3. FirstOnes'
  <2>1. SUFFICES ASSUME NEW r \in Readers, walks[r].name # "none", walks[r].filter = All
                 PROVE  /\ Len(walks[r].got) <= Len(tasks'[walks[r].name])
                        /\ \A k \in 1..Len(walks[r].got) :
                             walks[r].got[k] = tasks'[walks[r].name][k].id
    BY Zenon DEF FirstOnes, All
  <2> DEFINE n == walks[r].name
             got == walks[r].got
  <2>2. n \in Names
    BY <2>1 DEF WalksTyped, NoWalk
  <2>3. Len(got) <= Len(tasks[n]) /\ \A k \in 1..Len(got) : got[k] = tasks[n][k].id
    BY <2>1 DEF FirstOnes
  <2>4. Len(got) \in Nat
    <3>1. walks[r].got \in Seq(Ids)
      BY DEF WalksTyped, Walk
    <3> QED BY <3>1
  <2>5. /\ Len(tasks[n]) \in Nat /\ Len(tasks'[n]) \in Nat /\ Len(tasks[n]) <= Len(tasks'[n])
        /\ Places(n) = 1..Len(tasks[n])
        /\ \A i \in Places(n) : tasks'[n][i].id = tasks[n][i].id
    <3>1. tasks'[n] \in Seq(Task)
      BY <1>0, <2>2 DEF QueuesTyped
    <3> QED BY <1>0, <2>2, <3>1, TaskAt DEF Grows
  <2> HIDE DEF n, got
  <2>6. \A k \in 1..Len(got) : k \in Places(n)
    BY <2>3, <2>4, <2>5
  <2>7. Len(got) <= Len(tasks'[n]) /\ \A k \in 1..Len(got) : got[k] = tasks'[n][k].id
    BY <2>3, <2>4, <2>5, <2>6
  <2> QED BY <2>7 DEF n, got
<1> QED BY <1>1, <1>2, <1>3

----------------------------------------------------------------------------
(* A reader reads                                                          *)

LEMMA NumbersListed ==
  ASSUME NEW list \in Seq(Task)
  PROVE  /\ IdsOf(list) \in Seq(Ids) /\ Len(IdsOf(list)) = Len(list)
         /\ \A k \in 1..Len(list) : IdsOf(list)[k] = list[k].id
<1>1. Len(list) \in Nat /\ \A k \in 1..Len(list) : list[k] \in Task
  BY LenProperties, ElementOfSeq
<1>2. \A t \in Task : t.id \in Ids
  BY DEF Task
<1>3. \A k \in 1..Len(list) : list[k].id \in Ids
  BY <1>1, <1>2
<1> QED BY <1>1, <1>3 DEF IdsOf

\* The place of a reader's walk, apart from the others.
LEMMA OneWalk ==
  ASSUME WalkInv, NEW r \in Readers, NEW w \in Walk, w.name \in Names,
         walks' = [walks EXCEPT ![r] = w], UNCHANGED <<qvars, hvars>>,
         w.filter \in Lasting => \A id \in w.wanted :
           \/ id \in Taken(w.got)
           \/ ~w.over /\ Ahead(w.name, w.filter, Len(w.got), id),
         w.filter = All =>
           /\ Len(w.got) <= Len(tasks[w.name])
           /\ \A k \in 1..Len(w.got) : w.got[k] = tasks[w.name][k].id
  PROVE  WalkInv'
<1>1. IInv' /\ tasks' = tasks
  BY UnchangedKeeps DEF WalkInv, qvars
<1>2. /\ walks' \in [Readers -> Walk] /\ walks'[r] = w
      /\ \A q \in Readers \ {r} : walks'[q] = walks[q]
  BY DEF WalkInv, WalksTyped
<1>3. \A q \in Readers : \A id :
        Ahead(walks[q].name, walks[q].filter, Len(walks[q].got), id)'
          <=> Ahead(walks'[q].name, walks'[q].filter, Len(walks'[q].got), id)
  BY <1>1 DEF Ahead, Kept, Seen, Places, All
<1>4. WalksTyped'
  <2>1. \A q \in Readers : walks'[q] = NoWalk \/ walks'[q].name \in Names
    BY <1>2 DEF WalkInv, WalksTyped
  <2>2. walks' \in [Readers -> Walk]
    BY <1>2
  <2> QED BY <2>1, <2>2 DEF WalksTyped, Walk, NoWalk, Ids, All
<1>5. NoneMissed'
  <2>1. ASSUME NEW q \in Readers, walks'[q].filter \in Lasting, NEW id \in walks'[q].wanted
        PROVE  \/ id \in Taken(walks'[q].got)
               \/ /\ ~walks'[q].over
                  /\ Ahead(walks[q].name, walks[q].filter, Len(walks[q].got), id)'
    <3>1. CASE q = r
      BY <1>2, <1>3, <2>1, <3>1
    <3>2. CASE q # r
      BY <1>2, <1>3, <2>1, <3>2 DEF WalkInv, NoneMissed
    <3> QED BY <3>1, <3>2
  <2> QED BY <2>1, Zenon DEF NoneMissed, Lasting, All
<1>6. FirstOnes'
  <2>1. ASSUME NEW q \in Readers, walks'[q].name # "none", walks'[q].filter = All
        PROVE  /\ Len(walks'[q].got) <= Len(tasks[walks'[q].name])
               /\ \A k \in 1..Len(walks'[q].got) :
                    walks'[q].got[k] = tasks[walks'[q].name][k].id
    BY <1>2, <2>1 DEF WalkInv, FirstOnes
  <2> QED BY <1>1, <2>1, Zenon DEF FirstOnes, All
<1> QED BY <1>1, <1>4, <1>5, <1>6 DEF WalkInv

LEMMA BeginKeeps ==
  ASSUME WalkInv, NEW r \in Readers, NEW name \in Names, NEW f \in Filters,
         BeginWalk(r, name, f)
  PROVE  WalkInv'
<1> DEFINE list == Matching(name, f)
           w == [name |-> name, filter |-> f, wanted |-> Taken(IdsOf(list)),
                 got |-> << >>, over |-> FALSE]
<1>1. walks' = [walks EXCEPT ![r] = w] /\ UNCHANGED <<qvars, hvars>>
  BY DEF BeginWalk
<1>2. QueuesTyped
  BY DEF WalkInv, IInv
<1>3. /\ list \in Seq(Task)
      /\ \A k \in 1..Len(list) :
           \E i \in Kept(name, f) : Seen(Kept(name, f), i) = k /\ list[k] = tasks[name][i]
  BY <1>2, MatchingShape
<1> HIDE DEF list
<1>4. /\ IdsOf(list) \in Seq(Ids) /\ Len(IdsOf(list)) = Len(list) /\ Len(list) \in Nat
      /\ \A k \in 1..Len(list) : IdsOf(list)[k] = list[k].id
  BY <1>3, NumbersListed
<1>5. Taken(IdsOf(list)) \in SUBSET Ids
  BY <1>4 DEF Taken
<1>6. w \in Walk
  BY <1>5, QueuesAssumption DEF Walk
<1>7. /\ w.name = name /\ w.filter = f /\ w.wanted = Taken(IdsOf(list)) /\ w.got = << >>
      /\ w.over = FALSE /\ Len(w.got) = 0
  OBVIOUS
<1> HIDE DEF w
<1>8. ASSUME NEW id \in Taken(IdsOf(list)) PROVE Ahead(name, f, 0, id)
  <2>1. PICK k \in 1..Len(list) : list[k].id = id
    BY <1>4 DEF Taken
  <2>2. PICK i \in Kept(name, f) : Seen(Kept(name, f), i) = k /\ list[k] = tasks[name][i]
    BY <1>3
  <2> QED BY <1>4, <2>1, <2>2 DEF Ahead
<1>9. Len(tasks[name]) \in Nat
  BY <1>2, TaskAt
<1>10. w.filter \in Lasting => \A id \in w.wanted :
         \/ id \in Taken(w.got)
         \/ ~w.over /\ Ahead(w.name, w.filter, Len(w.got), id)
  BY <1>7, <1>8
<1>11. w.filter = All => /\ Len(w.got) <= Len(tasks[w.name])
                         /\ \A k \in 1..Len(w.got) : w.got[k] = tasks[w.name][k].id
  BY <1>7, <1>9
<1> QED BY <1>1, <1>6, <1>7, <1>10, <1>11, OneWalk

LEMMA TakesOn ==
  ASSUME NEW a \in Walk, NEW g \in Seq(Ids), NEW b \in BOOLEAN
  PROVE  [a EXCEPT !.got = g, !.over = b] \in Walk
BY DEF Walk

\* A page goes on where the last one ended.
LEMMA PageKeeps ==
  ASSUME WalkInv, NEW r \in Readers, NextPage(r)
  PROVE  WalkInv'
<1> DEFINE v == walks[r]
           list == Matching(v.name, v.filter)
           K == Kept(v.name, v.filter)
           items == Page(v.name, v.filter, Len(v.got), Limit).items
           got == v.got \o IdsOf(items)
           over == Len(items) < Limit
           w == [v EXCEPT !.got = got, !.over = over]
<1>1. walks' = [walks EXCEPT ![r] = w] /\ UNCHANGED <<qvars, hvars>>
  BY DEF NextPage
<1>2. v \in Walk /\ QueuesTyped /\ v.name \in Names /\ ~v.over
  BY DEF WalkInv, WalksTyped, NextPage, IInv, QueuesTyped
<1>3. v.got \in Seq(Ids) /\ Len(v.got) \in Nat
  BY <1>2 DEF Walk
<1>4. /\ list \in Seq(Task) /\ Len(list) = Cardinality(K)
      /\ \A i \in K : list[Seen(K, i)] = tasks[v.name][i]
  BY <1>2, MatchingShape
<1>5. \A i \in K : Seen(K, i) \in 1..Cardinality(K)
  BY <1>2, KeptPlaces, SeenRises
<1>6. items = SubSeq(list, Len(v.got) + 1, Smaller(Len(v.got) + Limit, Len(list)))
  BY DEF Page
<1>7. v.filter = All => list = tasks[v.name]
  BY <1>2, MatchingAll
<1> HIDE DEF v, list, K, items
<1>8. /\ items \in Seq(Task)
      /\ Len(items) = IF Len(list) <= Len(v.got) THEN 0 ELSE Smaller(Limit, Len(list) - Len(v.got))
      /\ \A k \in 1..Len(items) : items[k] = list[Len(v.got) + k] /\ Len(v.got) + k <= Len(list)
  <2> DEFINE page == SubSeq(list, Len(v.got) + 1, Smaller(Len(v.got) + Limit, Len(list)))
  <2>1. /\ page \in Seq(Task)
        /\ Len(page) = IF Len(list) <= Len(v.got) THEN 0
                       ELSE Smaller(Limit, Len(list) - Len(v.got))
        /\ \A k \in 1..Len(page) : page[k] = list[Len(v.got) + k] /\ Len(v.got) + k <= Len(list)
    BY <1>3, <1>4, LimitNat, Window
  <2> HIDE DEF page
  <2>2. items = page
    BY <1>6 DEF page
  <2> QED BY <2>1, <2>2
<1>9. /\ IdsOf(items) \in Seq(Ids) /\ Len(IdsOf(items)) = Len(items)
      /\ \A k \in 1..Len(items) : IdsOf(items)[k] = items[k].id
  BY <1>8, NumbersListed
<1>10. Len(items) \in Nat /\ Len(list) \in Nat /\ Limit \in Nat \ {0}
  BY <1>4, <1>8, LimitNat
<1>11. /\ got \in Seq(Ids) /\ Len(got) = Len(v.got) + Len(items)
       /\ \A k \in 1..Len(v.got) : got[k] = v.got[k]
       /\ \A k \in 1..Len(items) : got[Len(v.got) + k] = items[k].id
  <2>1. \A a, b \in Seq(Ids) : /\ a \o b \in Seq(Ids) /\ Len(a \o b) = Len(a) + Len(b)
                               /\ \A k \in 1..Len(a) : (a \o b)[k] = a[k]
                               /\ \A k \in 1..Len(b) : (a \o b)[Len(a) + k] = b[k]
    BY ConcatProperties, LenProperties
  <2>2. /\ got \in Seq(Ids) /\ Len(got) = Len(v.got) + Len(IdsOf(items))
        /\ \A k \in 1..Len(v.got) : got[k] = v.got[k]
        /\ \A k \in 1..Len(IdsOf(items)) : got[Len(v.got) + k] = IdsOf(items)[k]
    BY <1>3, <1>9, <2>1
  <2> HIDE DEF got
  <2> QED BY <1>9, <2>2
<1> HIDE DEF got
<1>12. w \in Walk
  <2>1. over \in BOOLEAN
    OBVIOUS
  <2> HIDE DEF over
  <2> QED BY <1>2, <1>11, <2>1, TakesOn
<1>13. /\ w.name = v.name /\ w.filter = v.filter /\ w.wanted = v.wanted /\ w.got = got
       /\ w.over = over
  BY <1>2 DEF Walk
<1> HIDE DEF w
<1>14. Taken(v.got) \subseteq Taken(got)
  <2>1. \A k \in 1..Len(v.got) : k \in 1..Len(got) /\ got[k] = v.got[k]
    BY <1>3, <1>10, <1>11
  <2> QED BY <2>1 DEF Taken
\* A task that was ahead is in the page, or after it, and then the page is full.
<1>15. ASSUME NEW id, Ahead(v.name, v.filter, Len(v.got), id)
       PROVE  id \in Taken(got) \/ (~over /\ Ahead(v.name, v.filter, Len(got), id))
  <2>1. PICK i \in K : tasks[v.name][i].id = id /\ Seen(K, i) > Len(v.got)
    BY <1>15 DEF Ahead, K
  <2>2. PICK k : k = Seen(K, i) - Len(v.got)
    OBVIOUS
  <2>3. Seen(K, i) \in 1..Len(list) /\ list[Seen(K, i)].id = id
    BY <1>4, <1>5, <2>1
  <2>4. k \in Nat \ {0} /\ Seen(K, i) = Len(v.got) + k /\ Len(v.got) + k <= Len(list)
    BY <1>3, <1>10, <2>1, <2>2, <2>3
  <2>5. CASE k <= Len(items)
    <3>1. k \in 1..Len(items)
      BY <1>10, <2>4, <2>5
    <3>2. got[Len(v.got) + k] = id /\ Len(v.got) + k \in 1..Len(got)
      BY <1>3, <1>8, <1>10, <1>11, <2>3, <2>4, <3>1
    <3> QED BY <3>2 DEF Taken
  <2>6. CASE k > Len(items)
    <3>1. Len(items) = Limit
      BY <1>3, <1>8, <1>10, <2>4, <2>6 DEF Smaller
    <3>2. Seen(K, i) > Len(got)
      BY <1>3, <1>10, <1>11, <2>4, <2>6
    <3>3. ~over
      BY <1>10, <3>1
    <3> QED BY <2>1, <3>2, <3>3 DEF Ahead, K
  <2> QED BY <1>10, <2>4, <2>5, <2>6
<1>16. w.filter \in Lasting => \A id \in w.wanted :
         \/ id \in Taken(w.got)
         \/ ~w.over /\ Ahead(w.name, w.filter, Len(w.got), id)
  <2>1. ASSUME v.filter \in Lasting, NEW id \in v.wanted
        PROVE  id \in Taken(v.got) \/ Ahead(v.name, v.filter, Len(v.got), id)
    BY <2>1 DEF WalkInv, NoneMissed, v
  <2> QED BY <1>13, <1>14, <1>15, <2>1
<1>17. w.filter = All => /\ Len(w.got) <= Len(tasks[w.name])
                         /\ \A k \in 1..Len(w.got) : w.got[k] = tasks[w.name][k].id
  <2>1. SUFFICES ASSUME v.filter = All
                 PROVE  /\ Len(got) <= Len(tasks[v.name])
                        /\ \A k \in 1..Len(got) : got[k] = tasks[v.name][k].id
    BY <1>13
  <2>2. /\ Len(v.got) <= Len(tasks[v.name])
        /\ \A k \in 1..Len(v.got) : v.got[k] = tasks[v.name][k].id
    <3>1. v.name # "none"
      BY <1>2, QueuesAssumption
    <3> QED BY <2>1, <3>1 DEF WalkInv, FirstOnes, v
  <2>3. list = tasks[v.name]
    BY <1>7, <2>1
  <2>4. Len(got) <= Len(list)
    <3>1. Len(items) = 0 \/ Len(v.got) + Len(items) <= Len(list)
      BY <1>3, <1>8, <1>10
    <3> QED BY <1>3, <1>10, <1>11, <2>2, <2>3, <3>1
  <2>5. ASSUME NEW k \in 1..Len(got) PROVE got[k] = list[k].id
    <3>1. CASE k <= Len(v.got)
      BY <1>3, <1>11, <2>2, <2>3, <3>1
    <3>2. CASE k > Len(v.got)
      <4>1. k - Len(v.got) \in 1..Len(items) /\ Len(v.got) + (k - Len(v.got)) = k
        BY <1>3, <1>10, <1>11, <3>2
      <4> QED BY <1>8, <1>11, <4>1
    <3> QED BY <1>3, <3>1, <3>2
  <2> QED BY <2>3, <2>4, <2>5
<1> HIDE DEF over
<1>18. w.name \in Names
  BY <1>2, <1>13
<1> QED BY <1>1, <1>12, <1>16, <1>17, <1>18, OneWalk

----------------------------------------------------------------------------
(* The invariant of the readers and what follows from it                   *)

LEMMA WalksBegin == Init => WalkInv
<1> SUFFICES ASSUME Init PROVE WalkInv
  OBVIOUS
<1>1. \A r \in Readers : walks[r] = NoWalk
  BY DEF Init
<1>2. /\ NoWalk.wanted = {} /\ NoWalk.name = "none"
  BY DEF NoWalk
<1>3. NoWalk \in Walk
  BY EmptySeq DEF NoWalk, Walk
<1>4. WalksTyped
  BY <1>1, <1>3 DEF Init, WalksTyped
<1> QED BY <1>1, <1>2, <1>4, InitHolds DEF WalkInv, NoneMissed, FirstOnes

LEMMA WalksKeep == WalkInv /\ [Next]_vars => WalkInv'
<1> SUFFICES ASSUME WalkInv, [Next]_vars PROVE WalkInv'
  OBVIOUS
<1>1. IInv'
  BY NextKeeps DEF WalkInv
<1>2. CASE \/ \E name \in Names : Create(name) \/ Add(name) \/ Claim(name)
           \/ \E name \in Names, id \in 1..nextID, s \in Statuses : Update(name, id, s)
  BY <1>1, <1>2, ChangesGrow, GrowthKeeps DEF WalkInv, IInv
<1>3. CASE \E r \in Readers, name \in Names, f \in Filters : BeginWalk(r, name, f)
  BY <1>3, BeginKeeps
<1>4. CASE \E r \in Readers : NextPage(r)
  BY <1>4, PageKeeps
<1>5. CASE UNCHANGED vars
  <2>1. Grows /\ walks' = walks
    <3>1. tasks' = tasks /\ walks' = walks /\ \A n \in Names : Len(tasks[n]) \in Nat
      BY <1>5, TaskAt DEF vars, qvars, WalkInv, IInv
    <3> QED BY <3>1 DEF Grows
  <2> QED BY <1>1, <2>1, GrowthKeeps
<1> QED BY <1>2, <1>3, <1>4, <1>5 DEF Next

\* What a reader has, and what its scan has still to meet.
THEOREM WalksInvariant == Spec => []WalkInv
BY WalksBegin, WalksKeep, PTL DEF Spec

\* Type correctness of the queues and the readers (queues.go).
THEOREM WellTyped == Spec => []TypeOK
<1>1. WalkInv => TypeOK
  <2> SUFFICES ASSUME WalkInv PROVE TypeOK
    OBVIOUS
  <2>1. runs \in [1..nextID -> Nat] /\ reports \in [1..nextID -> Nat]
    BY DEF WalkInv, IInv, QueuesTyped
  <2> QED BY <2>1 DEF WalkInv, IInv, QueuesTyped, WalksTyped, Walk, TypeOK
<1> QED BY <1>1, WalksInvariant, PTL

\* Whoever reads a whole queue page after page, while others add, claim and
\* report tasks, gets each task once, in order, and none of those it held at
\* the beginning is missing (queues.go:72-105).
THEOREM WholeWalksAreExact == Spec => []WholeWalkExact
<1>1. WalkInv => WholeWalkExact
  <2> SUFFICES ASSUME WalkInv, NEW r \in Readers, walks[r].name # "none", walks[r].filter = All
               PROVE  LET w == walks[r]
                      IN /\ Len(w.got) <= Len(tasks[w.name])
                         /\ w.got = SubSeq(IdsOf(tasks[w.name]), 1, Len(w.got))
                         /\ w.over => w.wanted \subseteq Taken(w.got)
    BY DEF WholeWalkExact
  <2> DEFINE got == walks[r].got
             n == walks[r].name
  <2>1. n \in Names /\ got \in Seq(Ids) /\ Len(got) \in Nat
    BY DEF WalkInv, WalksTyped, Walk, NoWalk
  <2>2. tasks[n] \in Seq(Task)
    BY <2>1 DEF WalkInv, IInv, QueuesTyped
  <2>3. /\ IdsOf(tasks[n]) \in Seq(Ids) /\ Len(IdsOf(tasks[n])) = Len(tasks[n])
        /\ \A k \in 1..Len(tasks[n]) : IdsOf(tasks[n])[k] = tasks[n][k].id
    BY <2>2, NumbersListed
  <2>4. Len(got) <= Len(tasks[n]) /\ \A k \in 1..Len(got) : got[k] = tasks[n][k].id
    BY DEF WalkInv, FirstOnes
  <2>5. walks[r].over => walks[r].wanted \subseteq Taken(got)
    BY DEF WalkInv, NoneMissed, Lasting
  <2> HIDE DEF got, n
  <2>6. got = SubSeq(IdsOf(tasks[n]), 1, Len(got))
    <3> DEFINE first == SubSeq(IdsOf(tasks[n]), 1, Len(got))
    <3>1. first \in Seq(Ids) /\ Len(first) = Len(got)
          /\ \A k \in 1..Len(got) : first[k] = IdsOf(tasks[n])[k]
      BY <2>1, <2>2, <2>3, <2>4
    <3>2. \A k \in 1..Len(got) : first[k] = got[k]
      BY <2>1, <2>2, <2>3, <2>4, <3>1
    <3> HIDE DEF first
    <3>3. got = first
      BY <2>1, <3>1, <3>2, SeqEqual
    <3> QED BY <3>3 DEF first
  <2> QED BY <2>4, <2>5, <2>6 DEF got, n
<1> QED BY <1>1, WalksInvariant, PTL

\* Whoever reads the completed tasks page after page misses none that was
\* completed at the beginning (queues.go:72-105, 133-147).
THEOREM CompletedWalksMissNone == Spec => []CompletedWalkMissesNone
<1>1. WalkInv => CompletedWalkMissesNone
  BY DEF WalkInv, NoneMissed, Lasting, CompletedWalkMissesNone
<1> QED BY <1>1, WalksInvariant, PTL
=============================================================================
