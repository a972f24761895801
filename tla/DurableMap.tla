---------------------------- MODULE DurableMap -----------------------------
(***************************************************************************)
(* What the engine promises to its users, without files, buffer or replay: *)
(* a map whose successive values form a history.  Operations extend the    *)
(* history, a successful save makes all of it safe, and when the server    *)
(* comes back after a stop it serves some prefix that contains all that    *)
(* was safe: never a mix, never a hole, never an invented value.           *)
(***************************************************************************)
EXTENDS Journal

VARIABLES
  history,  \* history[n]: the map after operation n
  safe,     \* the operations up to this one survive every stop
  serving,  \* the server answers
  clock,    \* the current time
  view      \* what readers obtain

dvars == <<history, safe, serving, clock, view>>

\* The map after operation n of history h.
After(h, n) == IF n = 0 THEN EmptyState ELSE h[n]

\* A serving map shows the live entries of the end of its history.
Shown(h, up, t) == IF up THEN Live(After(h, Len(h)), t) ELSE EmptyState

DInit ==
  /\ history = << >> /\ safe = 0 /\ serving = FALSE
  /\ clock \in Nat
  /\ view = Shown(history, serving, clock)

\* One write or removal of one key.
Commit ==
  /\ serving
  /\ \E k \in Keys, e \in Entry \cup {NoEntry} :
       history' = Append(history, [After(history, Len(history)) EXCEPT ![k] = e])
  /\ UNCHANGED <<safe, serving, clock>>

\* A flush, a snapshot or a close answers that it succeeded.
Promise ==
  /\ serving
  /\ safe' = Len(history)
  /\ UNCHANGED <<history, serving, clock>>

Stop ==
  /\ serving' = FALSE
  /\ UNCHANGED <<history, safe, clock>>

\* The server is back with the first n operations, the safe ones included.
Recover ==
  /\ ~serving
  /\ \E n \in safe..Len(history) : history' = SubSeq(history, 1, n)
  /\ serving' = TRUE
  /\ UNCHANGED <<safe, clock>>

Pass ==
  /\ clock' = clock + 1
  /\ UNCHANGED <<history, safe, serving>>

DNext ==
  /\ Commit \/ Promise \/ Stop \/ Recover \/ Pass
  /\ view' = Shown(history', serving', clock')

DSpec == DInit /\ [][DNext]_dvars
============================================================================
