---------------------------- MODULE MemoryEngine ----------------------------
(***************************************************************************)
(* The engine without storage (-memory) as a user at the terminal or a       *)
(* client of /api/command meets it: lines of text are parsed (Command) and   *)
(* carried out on the map and its index (Index).  The mutex of the engine    *)
(* makes each command one step; record, flush and Snapshot do nothing        *)
(* without storage.                                                          *)
(***************************************************************************)
EXTENDS Index, Command

CONSTANTS
  Keys,     \* the keys in use
  Strings,  \* the texts stored as strings
  Numbers,  \* the texts stored as numbers
  TTLs      \* the seconds after EX

ASSUME MemoryAssumption ==
  /\ Keys \cup Strings \cup Numbers \subseteq Range(Texts)
  /\ Numbers \subseteq DOMAIN Number
  /\ TTLs \subseteq 1..MaxSeconds \cap Range(Seconds)

VARIABLES
  state,   \* the map; late: the expiry date of the entry has passed
  index,   \* the index
  closed,
  meant,   \* the last command as the user means it, "slip" for a mistake
  heard,   \* what Parse makes of it
  answer   \* the keys in the answer, or an error

vars == <<state, index, closed, meant, heard, answer>>

Slip == [NoCommand EXCEPT !.kind = "slip"]

\* What users ask for; a literal is a text or a number.
Commands ==
  {SetTo(k, v, FALSE, t) : k \in Keys, v \in Strings, t \in TTLs \cup {0}}
  \cup {SetTo(k, v, TRUE, t) : k \in Keys, v \in Numbers, t \in TTLs \cup {0}}
  \cup {On(d, k) : d \in {"GET", "DELETE"}, k \in Keys}
  \cup {Ping}
  \cup {Search(f, o, t, FALSE) : f \in Fields, o \in Operators, t \in Range(Texts)}
  \cup {Search("value", o, t, TRUE) : o \in Operators, t \in DOMAIN Number}

----------------------------------------------------------------------------

Without(keys) == [k \in DOMAIN state \ keys |-> state[k]]

\* remove
Removal(key) ==
  /\ state' = Without({key})
  /\ index' = Unfiled(index, key)

\* remove, for each of the keys
RemovalOfAll(keys) ==
  /\ state' = Without(keys)
  /\ index' = AllUnfiled(index, keys)

Late(keys) == {k \in keys : state[k].late}

\* The keys of the answer, or an error.
Answer(error, keys) == answer' = [error |-> error, keys |-> keys]

\* set; an EX of zero seconds does not come here, DefaultTTL is zero.
ExecuteSet(c) ==
  IF closed THEN Answer(TRUE, << >>) /\ UNCHANGED <<state, index>>
  ELSE /\ state' = With(state, c.key, [value |-> c.value, number |-> c.isNumber,
                                      ttl |-> c.ttl > 0, late |-> FALSE])
       /\ index' = Filed(index, c.key, c.value, c.isNumber)
       /\ Answer(FALSE, << >>)

\* getEntry
ExecuteGet(c) ==
  IF c.key \in DOMAIN state \ Late(DOMAIN state)
  THEN Answer(FALSE, <<c.key>>) /\ UNCHANGED <<state, index>>
  ELSE /\ Answer(TRUE, << >>)
       /\ IF closed \/ c.key \notin DOMAIN state THEN UNCHANGED <<state, index>>
          ELSE Removal(c.key)

ExecuteDelete(c) ==
  IF closed THEN Answer(TRUE, << >>) /\ UNCHANGED <<state, index>>
  ELSE Answer(FALSE, << >>) /\ Removal(c.key)

\* GetWhere; the entries that are left stay in their order.
ExecuteWhere(c) ==
  LET found == Find(index, c.field, c.operator, c.operand, c.operandIsNumber)
      late  == Late(Range(found.keys))
  IN /\ Answer(found.error, Sorted(Range(found.keys) \ late))
     /\ IF closed THEN UNCHANGED <<state, index>> ELSE RemovalOfAll(late)

\* ExecuteString
Execute(line) ==
  LET c == Parse(line)
  IN /\ heard' = c
     /\ CASE c.kind = "SET" -> ExecuteSet(c)
          [] c.kind = "GET" -> ExecuteGet(c)
          [] c.kind = "DELETE" -> ExecuteDelete(c)
          [] c.kind = "GET_WHERE" -> ExecuteWhere(c)
          [] c.kind = "PING" -> Answer(FALSE, << >>) /\ UNCHANGED <<state, index>>
          [] OTHER -> Answer(TRUE, << >>) /\ UNCHANGED <<state, index>>
     /\ UNCHANGED closed

----------------------------------------------------------------------------

Init ==
  /\ state = << >> /\ index = EmptyIndex /\ closed = FALSE
  /\ meant = NoCommand /\ heard = NoCommand
  /\ answer = [error |-> FALSE, keys |-> << >>]

\* A command is written in one of its ways.
Say(c) ==
  /\ meant' = c
  /\ \E line \in Written(c) : Execute(line)

\* A word or a quotation mark of a line is forgotten; what stands between
\* marks is text and not at stake.
Forgotten(line) ==
  {RemoveAt(line, i) : i \in
     {j \in DOMAIN line : Scanned(NoWord, SubSeq(line, 1, j - 1)).quote \in {"", line[j]}}}

\* Something is forgotten, or a duration is too long.
\* Bound: only while the map is empty, since Parse does not look at it.
Misspell(c) ==
  /\ state = << >> /\ c.kind \in {"SET", "DELETE"}
  /\ meant' = Slip
  /\ \/ \E line \in Written(c) : \E rest \in Forgotten(line) : Execute(rest)
     \/ \E t \in Range(Seconds) \ 0..MaxSeconds :
          \E line \in Written(SetTo(c.key, c.value, c.isNumber, t)) : c.kind = "SET" /\ Execute(line)

\* Something happens without a command.
Silence ==
  /\ meant' = NoCommand /\ heard' = NoCommand
  /\ answer' = [error |-> FALSE, keys |-> << >>]

\* SweepExpired
Sweep ==
  /\ ~closed
  /\ RemovalOfAll(Late(DOMAIN state))
  /\ UNCHANGED closed
  /\ Silence

\* The expiry date of an entry passes.
Expire(k) ==
  /\ state[k].ttl /\ ~state[k].late
  /\ state' = [state EXCEPT ![k].late = TRUE]
  /\ UNCHANGED <<index, closed>>
  /\ Silence

Close ==
  /\ closed' = TRUE
  /\ UNCHANGED <<state, index>>
  /\ Silence

Next ==
  \/ \E c \in Commands : Say(c) \/ Misspell(c)
  \/ \E k \in DOMAIN state : Expire(k)
  \/ Sweep \/ Close

Spec == Init /\ [][Next]_vars

----------------------------------------------------------------------------
(* Properties                                                              *)

Ascending(list) == \A i \in 1..(Len(list) - 1) : TextBelow(list[i], list[i + 1])

\* The type of the index: its four parts, each kept by its own assignments,
\* describe one and the same filing of the entries of the map, and no value
\* stays behind (index.go:49-77).
IndexConsistent ==
  /\ DOMAIN index.entries = DOMAIN state
  /\ \A k \in DOMAIN state : index.entries[k] = Scalar(state[k].value, state[k].number)
  /\ index.keys = DOMAIN state /\ index.values = Range(index.entries)
  /\ DOMAIN index.inverted = Range(index.entries)
  /\ \A i \in DOMAIN index.inverted :
       index.inverted[i] = {k \in DOMAIN state : index.entries[k] = i}

\* What the entry of a key is compared by: the key or the value, a number by
\* its size, any other text by its bytes (README.md:69-77).
Matches(k, c) ==
  LET e        == state[k]
      text     == IF c.field = "key" THEN k ELSE e.value
      isNumber == c.field = "value" /\ e.number
      gap      == IF isNumber THEN Number[e.value] - Number[c.operand]
                  ELSE Place(text) - Place(c.operand)
  IN /\ ~(c.operator = "contains" /\ isNumber)
     /\ c.operator # "contains" => isNumber = c.operandIsNumber
     /\ CASE c.operator = "contains" -> HasPart(text, c.operand)
          [] c.operator = "equals" -> gap = 0
          [] c.operator = ">"  -> gap > 0
          [] c.operator = ">=" -> gap >= 0
          [] c.operator = "<"  -> gap < 0
          [] c.operator = "<=" -> gap <= 0

\* GET WHERE answers with the entries that a scan of the whole map would find,
\* in the order of their keys: a walk over the mixed tree stops at the border
\* between strings and numbers and not before (index.go:121), and entries
\* whose date has passed are left out.
AnswersAsScan ==
  [][meant'.kind = "GET_WHERE" =>
       /\ Range(answer'.keys) = {k \in DOMAIN state \ Late(DOMAIN state) : Matches(k, meant')}
       /\ Ascending(answer'.keys) /\ ~answer'.error]_vars

\* Whatever way README.md:56-82 allows to write a command in, Parse hears that
\* command: quoted numbers are strings, marks keep blanks and marks of the other
\* kind, the empty text can be written (command.go:89).
HeardAsMeant == [][meant' # Slip => heard' = meant']_vars

\* A forgotten word or quotation mark never makes a SET or DELETE another
\* command that is carried out, nor does a duration that overflows (command.go:58,
\* 122); for keys that are not verbs themselves.
SlipsRefused == [][meant' = Slip => heard' = Invalid]_vars
=============================================================================
