------------------------------ MODULE Command ------------------------------
(***************************************************************************)
(* The command language (internal/command/command.go).  A line is a sequence *)
(* of pieces: a quotation mark, a blank, or a run of other characters.       *)
(***************************************************************************)
EXTENDS Words

CONSTANTS
  Seconds,    \* for the texts made of digits, their number
  MaxSeconds, \* the longest time.Duration
  Spelled     \* for texts with blanks or quotation marks, and for the empty
              \*   one, their pieces

Quotations == {"'", "\""}
Blanks     == {" ", "\t"}

\* The keywords in small letters and in capitals.
Capital ==
  [set |-> "SET", ex |-> "EX", get |-> "GET", where |-> "WHERE", del |-> "DEL", delete |-> "DELETE",
   ping |-> "PING", key |-> "KEY", value |-> "VALUE", equals |-> "EQUALS", contains |-> "CONTAINS"]
Keywords == DOMAIN Capital \cup Range(Capital) \cup {">", ">=", "<", "<="}

\* What lines are made of.
Alphabet ==
  Quotations \cup Blanks \cup Keywords \cup Range(Texts) \cup DOMAIN Seconds
  \cup UNION {Range(Spelled[t]) : t \in DOMAIN Spelled}

Pieces(t) == IF t \in DOMAIN Spelled THEN Spelled[t] ELSE <<t>>

\* The text that pieces make together.
TextOf(pieces) ==
  LET upto[n \in 0..Len(pieces)] == IF n = 0 THEN NoText ELSE upto[n - 1] \o pieces[n]
  IN upto[Len(pieces)]

ASSUME CommandAssumption ==
  /\ Range(Seconds) \subseteq Nat /\ MaxSeconds \in Nat
  /\ \A t \in DOMAIN Spelled : Spelled[t] \in Seq(Alphabet) /\ TextOf(Spelled[t]) = t

\* A word that is written without quotation marks is one piece.
ASSUME BareAssumption ==
  \A t \in (Range(Texts) \ DOMAIN Spelled) \cup DOMAIN Seconds \cup Keywords :
    t \notin Quotations \cup Blanks \cup {NoText} /\ TextOf(<<t>>) = t

Upper(t) == IF t \in DOMAIN Capital THEN Capital[t] ELSE t

Lower(t) == IF \E w \in DOMAIN Capital : Capital[w] = t
            THEN CHOOSE w \in DOMAIN Capital : Capital[w] = t ELSE t

\* SET and DEL are not the beginnings of other verbs.
ASSUME GluedAssumption ==
  \A w \in Keywords, t \in Range(Texts) :
    LET glued == Upper(TextOf(<<w>> \o Pieces(t)))
    IN /\ Upper(w) = "SET" => glued \notin {"GET", "DEL", "DELETE"}
       /\ Upper(w) \in {"DEL", "DELETE"} => glued # "PING"

----------------------------------------------------------------------------
(* split                                                                   *)

NoWord == [args |-> << >>, word |-> "", quote |-> "", started |-> FALSE, quoted |-> FALSE]

EndWord(s) ==
  IF s.started THEN [NoWord EXCEPT !.args = Append(s.args, [text |-> s.word, quoted |-> s.quoted])]
  ELSE s

\* Faulty variant of Opened: a quotation mark does not begin a word.
OpenedInside(s, piece) == [s EXCEPT !.quote = piece, !.quoted = TRUE]

Opened(s, piece) == [s EXCEPT !.quote = piece, !.quoted = TRUE, !.started = TRUE]

Continued(s, piece) == [s EXCEPT !.word = @ \o piece, !.started = TRUE]

Scan(s, piece) ==
  IF s.quote # ""
  THEN IF piece = s.quote THEN [s EXCEPT !.quote = ""] ELSE [s EXCEPT !.word = @ \o piece]
  ELSE IF piece \in Quotations THEN Opened(s, piece)
  ELSE IF piece \in Blanks THEN EndWord(s)
  ELSE Continued(s, piece)

\* What the loop has made of a line that it begins to read in s.
Scanned(s, line) ==
  LET after[n \in 0..Len(line)] == IF n = 0 THEN s ELSE Scan(after[n - 1], line[n])
  IN after[Len(line)]

\* Faulty variant of Split: the end of the line closes a quotation.
SplitLenient(line) ==
  LET end == Scanned(NoWord, line)
  IN [error |-> FALSE, args |-> EndWord(end).args]

Split(line) ==
  LET end == Scanned(NoWord, line)
  IN [error |-> end.quote # "", args |-> EndWord(end).args]

----------------------------------------------------------------------------
(* Parse                                                                   *)

NoCommand == [kind |-> NoText, key |-> NoText, value |-> NoText, isNumber |-> FALSE, ttl |-> 0,
              field |-> NoText, operator |-> NoText, operand |-> NoText, operandIsNumber |-> FALSE]

Invalid == [NoCommand EXCEPT !.kind = "error"]

SetTo(key, value, isNumber, ttl) ==
  [NoCommand EXCEPT !.kind = "SET", !.key = key, !.value = value, !.isNumber = isNumber, !.ttl = ttl]

On(kind, key) == [NoCommand EXCEPT !.kind = kind, !.key = key]

Search(field, operator, operand, isNumber) ==
  [NoCommand EXCEPT !.kind = "GET_WHERE", !.field = field, !.operator = operator,
                    !.operand = operand, !.operandIsNumber = isNumber]

Ping == [NoCommand EXCEPT !.kind = "PING"]

Numeric(token) == ~token.quoted /\ token.text \in DOMAIN Number

\* Whether the words after SET key value are missing or a duration.
ValidExpiry(rest) ==
  \/ rest = << >>
  \/ /\ Len(rest) = 2
     /\ Upper(rest[1].text) = "EX"
     /\ rest[2].text \in DOMAIN Seconds /\ Seconds[rest[2].text] \in 1..MaxSeconds

ParseWhere(args) ==
  LET field    == Lower(args[3].text)
      operator == Lower(args[4].text)
  IN IF /\ Len(args) = 5
        /\ field \in {"key", "value"}
        /\ operator \in {"equals", "contains", ">", ">=", "<", "<="}
     THEN Search(field, operator, args[5].text, field = "value" /\ Numeric(args[5]))
     ELSE Invalid

ParseSet(args) ==
  IF Len(args) \in {3, 5} /\ ValidExpiry(SubSeq(args, 4, Len(args)))
  THEN SetTo(args[2].text, args[3].text, Numeric(args[3]),
             IF Len(args) = 5 THEN Seconds[args[5].text] ELSE 0)
  ELSE Invalid

Parse(line) ==
  LET split == Split(line)
      args  == split.args
      kind  == Upper(args[1].text)
  IN IF split.error \/ args = << >> THEN Invalid
     ELSE CASE kind = "GET" /\ Len(args) > 2 /\ Upper(args[2].text) = "WHERE" -> ParseWhere(args)
            [] kind = "SET" -> ParseSet(args)
            [] kind \in {"GET", "DELETE", "DEL"} /\ Len(args) = 2 ->
                 On(IF kind = "GET" THEN "GET" ELSE "DELETE", args[2].text)
            [] kind = "PING" /\ Len(args) = 1 -> Ping
            [] OTHER -> Invalid

----------------------------------------------------------------------------
(* The language as README.md:56-82 describes it: how a command is written.  *)

\* The ways to write a text between quotation marks, and without.
InQuotes(t) == {<<q>> \o Pieces(t) \o <<q>> : q \in Quotations \ Range(Pieces(t))}
Bare(t)     == IF t \in DOMAIN Spelled THEN {} ELSE {<<t>>}

\* A text that would be a number must be quoted, a number must not be.
Literal(t, number) ==
  IF number THEN Bare(t)
  ELSE InQuotes(t) \cup (IF t \in DOMAIN Number THEN {} ELSE Bare(t))

Word(t) == Bare(t) \cup InQuotes(t)

\* A line and a word more.
Spaced(line, word) == line \o <<" ">> \o word

Then(lines, words) == {Spaced(l, w) : l \in lines, w \in words}

\* All keywords of a line are in small letters or in capitals (Spell).
WrittenWith(c, Spell(_)) ==
  LET Key(w) == {<<Spell(w)>>}
  IN CASE c.kind = "SET" ->
            LET stored == Then(Then(Key("set"), Word(c.key)), Literal(c.value, c.isNumber))
            IN IF c.ttl = 0 THEN stored
               ELSE Then(Then(stored, Key("ex")),
                         {<<t>> : t \in {s \in DOMAIN Seconds : Seconds[s] = c.ttl}})
       [] c.kind = "GET" -> Then(Key("get"), Word(c.key))
       [] c.kind = "DELETE" -> Then(Key("del") \cup Key("delete"), Word(c.key))
       [] c.kind = "GET_WHERE" ->
            Then(Then(Then(Then(Key("get"), Key("where")), Key(c.field)), Key(c.operator)),
                 IF c.field = "value" THEN Literal(c.operand, c.operandIsNumber) ELSE Word(c.operand))
       [] OTHER -> Key("ping")

Written(c) == WrittenWith(c, Lower) \cup WrittenWith(c, Upper)
=============================================================================
