----------------------------- MODULE TaskBoard ------------------------------
(***************************************************************************)
(* What the task queues promise, without lists, counters or searches: each *)
(* queue is a board of numbered tasks.  Numbers are never used twice, not   *)
(* even in two queues; the pending task with the least number is started    *)
(* first; a completed task stays completed; only a failed one is retried.   *)
(***************************************************************************)
EXTENDS Integers, FiniteSets

CONSTANT Names

VARIABLES
  open,   \* the queues that exist
  board   \* board[n]: the status of each task of queue n, by number

bvars == <<open, board>>

Posted == UNION {DOMAIN board[n] : n \in Names}

Pending(n) == {id \in DOMAIN board[n] : board[n][id] = "pending"}

BInit == open = {} /\ board = [n \in Names |-> << >>]

Open(n) == open' = open \cup {n} /\ UNCHANGED board

Post(n) ==
  LET id == Cardinality(Posted) + 1
  IN /\ id \notin Posted
     /\ board' = [board EXCEPT ![n] =
          [i \in DOMAIN @ \cup {id} |-> IF i = id THEN "pending" ELSE board[n][i]]]
     /\ UNCHANGED open

Change(n, id, status) ==
  /\ board' = [board EXCEPT ![n][id] = status]
  /\ UNCHANGED open

\* Only the oldest pending task can be started.
Start(n, id) ==
  /\ id \in Pending(n) /\ \A other \in Pending(n) : id <= other
  /\ Change(n, id, "running")

Report(n, id) ==
  /\ board[n][id] = "running"
  /\ Change(n, id, "completed") \/ Change(n, id, "failed")

Retry(n, id) == board[n][id] = "failed" /\ Change(n, id, "pending")

BNext ==
  \/ \E n \in Names \ open : Open(n)
  \/ \E n \in open :
       \/ Post(n)
       \/ \E id \in DOMAIN board[n] : Start(n, id) \/ Report(n, id) \/ Retry(n, id)

BSpec == BInit /\ [][BNext]_bvars
============================================================================
