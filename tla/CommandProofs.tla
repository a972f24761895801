--------------------------- MODULE CommandProofs ---------------------------
(***************************************************************************)
(* Proofs about Command.tla, for any texts: a line that is written as the    *)
(* README describes the language is heard as the command it was written for, *)
(* and a line from which something is forgotten is never carried out as a    *)
(* SET.                                                                     *)
(***************************************************************************)
EXTENDS Command, RanksProofs

----------------------------------------------------------------------------
(* A loop over a line                                                      *)

\* What the loop has made of each beginning of a line.
IsRun(run, s, line) ==
  /\ DOMAIN run = 0..Len(line) /\ run[0] = s
  /\ \A n \in 1..Len(line) : run[n] = Scan(run[n - 1], line[n])

RunTo(run, s, line, m) ==
  run = [n \in 0..m |-> IF n = 0 THEN s ELSE Scan(run[n - 1], line[n])]

\* There is a run over every line.
LEMMA RunExists ==
  ASSUME NEW s, NEW line, NEW k \in Nat
  PROVE  \E run : RunTo(run, s, line, k)
<1> DEFINE Missing == {m \in Nat : ~ \E run : RunTo(run, s, line, m)}
<1> SUFFICES ASSUME Missing # {} PROVE FALSE
  OBVIOUS
<1>1. PICK m \in Missing : \A n \in Missing : m <= n
  <2>1. Missing \subseteq Nat
    OBVIOUS
  <2> HIDE DEF Missing
  <2> QED BY <2>1, LeastNat
<1>2. CASE m = 0
  <2> DEFINE run == [n \in 0..0 |-> s]
  <2>1. 0..0 = {0}
    OBVIOUS
  <2>2. run = [n \in 0..0 |-> IF n = 0 THEN s ELSE Scan(run[n - 1], line[n])]
    BY <2>1
  <2> QED BY <1>2, <2>2 DEF RunTo
<1>3. CASE m # 0
  <2>1. m - 1 \in Nat /\ m - 1 \notin Missing
    BY <1>1, <1>3
  <2>2. PICK run : RunTo(run, s, line, m - 1)
    BY <2>1
  <2> DEFINE longer == [n \in 0..m |-> IF n = m THEN Scan(run[m - 1], line[m]) ELSE run[n]]
  <2>3. \A n \in 0..(m - 1) : run[n] = IF n = 0 THEN s ELSE Scan(run[n - 1], line[n])
    BY <2>2 DEF RunTo
  <2>4. \A n \in 0..m : longer[n] = IF n = 0 THEN s ELSE Scan(longer[n - 1], line[n])
    <3>1. ASSUME NEW n \in 0..m
          PROVE longer[n] = IF n = 0 THEN s ELSE Scan(longer[n - 1], line[n])
      <4>1. CASE n = m
        <5>1. longer[n - 1] = run[m - 1] /\ longer[n] = Scan(run[m - 1], line[m])
          BY <1>3, <2>1, <4>1
        <5> QED BY <1>3, <4>1, <5>1
      <4>2. CASE n # m /\ n # 0
        <5>1. n \in 0..(m - 1) /\ n - 1 \in 0..m /\ n - 1 # m
          BY <4>2
        <5>2. longer[n] = run[n] /\ longer[n - 1] = run[n - 1]
          BY <4>2, <5>1
        <5> HIDE DEF longer
        <5> QED BY <2>3, <4>2, <5>1, <5>2
      <4>3. CASE n # m /\ n = 0
        <5>1. longer[n] = run[0] /\ 0 \in 0..(m - 1)
          BY <2>1, <4>3
        <5> HIDE DEF longer
        <5> QED BY <2>3, <4>3, <5>1
      <4> QED BY <4>1, <4>2, <4>3
    <3> QED BY <3>1
  <2>5. RunTo(longer, s, line, m)
    <3>1. longer = [n \in 0..m |-> longer[n]]
      OBVIOUS
    <3> HIDE DEF longer
    <3>2. [n \in 0..m |-> longer[n]]
            = [n \in 0..m |-> IF n = 0 THEN s ELSE Scan(longer[n - 1], line[n])]
      BY <2>4, Zenon
    <3> QED BY <3>1, <3>2 DEF RunTo
  <2> QED BY <2>5
<1> QED BY <1>2, <1>3

\* There is only one.
LEMMA RunsAgree ==
  ASSUME NEW s, NEW line, Len(line) \in Nat, NEW f, NEW g, IsRun(f, s, line), IsRun(g, s, line)
  PROVE  \A n \in 0..Len(line) : f[n] = g[n]
<1> DEFINE Apart == {n \in 0..Len(line) : f[n] # g[n]}
<1> SUFFICES ASSUME Apart # {} PROVE FALSE
  OBVIOUS
<1>1. PICK m \in Apart : \A n \in Apart : m <= n
  <2>1. Apart \subseteq Nat
    OBVIOUS
  <2> HIDE DEF Apart
  <2> QED BY <2>1, LeastNat
<1>2. m # 0
  BY DEF IsRun
<1>3. m - 1 \in 0..Len(line) /\ m \in 1..Len(line) /\ ~(m <= m - 1)
  BY <1>2
<1>4. f[m - 1] = g[m - 1]
  BY <1>1, <1>3
<1> QED BY <1>3, <1>4 DEF IsRun

\* A run over the line ends with what the loop makes of it.
LEMMA ScannedIs ==
  ASSUME NEW s, NEW line, Len(line) \in Nat
  PROVE  /\ \E run : IsRun(run, s, line) /\ Scanned(s, line) = run[Len(line)]
         /\ \A run : IsRun(run, s, line) => Scanned(s, line) = run[Len(line)]
<1> DEFINE after == CHOOSE run : RunTo(run, s, line, Len(line))
<1>1. RunTo(after, s, line, Len(line))
  BY RunExists
<1>2. Scanned(s, line) = after[Len(line)]
  BY Zenon DEF Scanned, RunTo
<1> HIDE DEF after
<1>3. IsRun(after, s, line)
  BY <1>1 DEF RunTo, IsRun
<1> QED BY <1>2, <1>3, RunsAgree

LEMMA ScannedOne ==
  ASSUME NEW s, NEW piece
  PROVE  Scanned(s, <<piece>>) = Scan(s, piece)
<1> DEFINE line == <<piece>>
           run == [n \in 0..1 |-> IF n = 0 THEN s ELSE Scan(s, piece)]
<1>1. Len(line) = 1 /\ line[1] = piece
  OBVIOUS
<1>2. DOMAIN run = 0..1 /\ run[0] = s /\ run[1] = Scan(s, piece)
  OBVIOUS
<1> HIDE DEF line, run
<1>3. IsRun(run, s, line)
  <2>1. \A n \in 1..1 : n = 1 /\ n - 1 = 0
    OBVIOUS
  <2> QED BY <1>1, <1>2, <2>1 DEF IsRun
<1> QED BY <1>1, <1>2, <1>3, ScannedIs DEF line

\* A line in two parts is read one part after the other.
LEMMA ScannedJoin ==
  ASSUME NEW s, NEW a \in Seq(Alphabet), NEW b \in Seq(Alphabet)
  PROVE  Scanned(s, a \o b) = Scanned(Scanned(s, a), b)
<1>1. /\ Len(a) \in Nat /\ Len(b) \in Nat /\ a \o b \in Seq(Alphabet) /\ Len(a \o b) = Len(a) + Len(b)
      /\ \A n \in 1..Len(a) : (a \o b)[n] = a[n]
      /\ \A n \in 1..Len(b) : (a \o b)[Len(a) + n] = b[n]
  OBVIOUS
<1> DEFINE line == a \o b
<1>2. PICK f : IsRun(f, s, a) /\ Scanned(s, a) = f[Len(a)]
  BY <1>1, ScannedIs
<1>3. PICK g : IsRun(g, Scanned(s, a), b) /\ Scanned(Scanned(s, a), b) = g[Len(b)]
  BY <1>1, ScannedIs
<1> DEFINE h == [n \in 0..(Len(a) + Len(b)) |-> IF n <= Len(a) THEN f[n] ELSE g[n - Len(a)]]
<1> HIDE DEF line
<1>4. ASSUME NEW n \in 1..(Len(a) + Len(b)) PROVE h[n] = Scan(h[n - 1], line[n])
  <2>1. CASE n <= Len(a)
    <3>1. n \in 1..Len(a) /\ n - 1 <= Len(a) /\ n \in 0..(Len(a) + Len(b)) /\ n - 1 \in 0..(Len(a) + Len(b))
      BY <1>1, <2>1
    <3>2. h[n] = f[n] /\ h[n - 1] = f[n - 1]
      BY <2>1, <3>1
    <3>3. line[n] = a[n]
      BY <1>1, <3>1 DEF line
    <3> HIDE DEF h
    <3> QED BY <1>2, <3>1, <3>2, <3>3 DEF IsRun
  <2>2. CASE n > Len(a)
    <3> DEFINE m == n - Len(a)
    <3>1. m \in 1..Len(b) /\ n = Len(a) + m /\ n \in 0..(Len(a) + Len(b)) /\ n - 1 \in 0..(Len(a) + Len(b))
          /\ n - 1 - Len(a) = m - 1 /\ ~(n <= Len(a))
      BY <1>1, <2>2
    <3>2. h[n] = g[m]
      BY <3>1
    <3>3. h[n - 1] = g[m - 1]
      <4>1. CASE n - 1 <= Len(a)
        <5>1. n - 1 = Len(a) /\ m - 1 = 0
          BY <1>1, <2>2, <4>1
        <5>2. h[n - 1] = f[Len(a)]
          BY <3>1, <4>1, <5>1
        <5>3. g[0] = f[Len(a)]
          BY <1>2, <1>3 DEF IsRun
        <5> QED BY <5>1, <5>2, <5>3
      <4>2. CASE ~(n - 1 <= Len(a))
        BY <3>1, <4>2
      <4> QED BY <4>1, <4>2
    <3>4. line[n] = b[m]
      BY <1>1, <3>1 DEF line
    <3>5. g[m] = Scan(g[m - 1], b[m])
      BY <1>3, <3>1 DEF IsRun
    <3> HIDE DEF h, m
    <3> QED BY <3>2, <3>3, <3>4, <3>5
  <2> QED BY <1>1, <2>1, <2>2
<1>5. h[0] = s
  <2>1. 0 \in 0..(Len(a) + Len(b)) /\ 0 <= Len(a)
    BY <1>1
  <2>2. h[0] = f[0]
    BY <2>1
  <2> QED BY <1>2, <2>2 DEF IsRun
<1>6. h[Len(a) + Len(b)] = g[Len(b)]
  <2>1. Len(a) + Len(b) \in 0..(Len(a) + Len(b)) /\ Len(a) + Len(b) - Len(a) = Len(b)
    BY <1>1
  <2>2. CASE Len(b) = 0
    <3>1. h[Len(a) + Len(b)] = f[Len(a)]
      BY <1>1, <2>1, <2>2
    <3>2. g[0] = f[Len(a)]
      BY <1>2, <1>3 DEF IsRun
    <3> QED BY <2>2, <3>1, <3>2
  <2>3. CASE Len(b) # 0
    <3>1. ~(Len(a) + Len(b) <= Len(a))
      BY <1>1, <2>3
    <3> QED BY <2>1, <3>1
  <2> QED BY <2>2, <2>3
<1>7. DOMAIN h = 0..(Len(a) + Len(b))
  OBVIOUS
<1> HIDE DEF h
<1>8. IsRun(h, s, line) /\ Len(line) \in Nat /\ Len(line) = Len(a) + Len(b)
  BY <1>1, <1>4, <1>5, <1>7 DEF IsRun, line
<1>9. Scanned(s, line) = h[Len(line)]
  BY <1>8, ScannedIs
<1> QED BY <1>3, <1>6, <1>8, <1>9 DEF line

----------------------------------------------------------------------------
(* Words                                                                   *)

Token(word, quoted) == [text |-> word, quoted |-> quoted]

Kept == {"args", "word", "quote", "started", "quoted"}

\* Between words.
LEMMA Beginning ==
  /\ DOMAIN NoWord = Kept /\ NoWord.args = << >> /\ NoWord.word = NoText /\ NoWord.quote = NoText
  /\ ~NoWord.started /\ NoWord.quoted = FALSE
BY DEF NoWord, NoText, Kept

LEMMA Marks == /\ NoText \notin Quotations \cup Blanks
               /\ \A q \in Quotations : q \notin Blanks
BY DEF Quotations, Blanks, NoText

\* A blank ends a word.
LEMMA BlankEnds ==
  ASSUME NEW s, DOMAIN s = Kept, s.quote = NoText, NEW piece \in Blanks
  PROVE  /\ ~s.started => Scan(s, piece) = s
         /\ s.started =>
              LET r == Scan(s, piece)
              IN /\ DOMAIN r = Kept /\ r.args = Append(s.args, Token(s.word, s.quoted))
                 /\ r.word = NoText /\ r.quote = NoText /\ ~r.started /\ r.quoted = FALSE
<1> DEFINE more == Append(s.args, Token(s.word, s.quoted))
<1>1. Scan(s, piece) = EndWord(s)
  <2>1. piece \notin Quotations
    BY Marks
  <2> QED BY <2>1, Zenon DEF Scan, NoText
<1>2. ~s.started => Scan(s, piece) = s
  BY <1>1, Zenon DEF EndWord
<1>3. s.started => EndWord(s) = [NoWord EXCEPT !.args = more]
  BY Zenon DEF EndWord, Token
<1> HIDE DEF more
<1>4. LET r == [NoWord EXCEPT !.args = more]
      IN /\ DOMAIN r = Kept /\ r.args = more
         /\ r.word = NoText /\ r.quote = NoText /\ ~r.started /\ r.quoted = FALSE
  BY Beginning DEF Kept
<1> QED BY <1>1, <1>2, <1>3, <1>4, Zenon DEF more

\* A quotation mark begins or continues a word.
LEMMA MarkOpens ==
  ASSUME NEW s, DOMAIN s = Kept, s.quote = NoText, NEW q \in Quotations
  PROVE  LET r == Scan(s, q)
         IN /\ DOMAIN r = Kept /\ r.args = s.args /\ r.word = s.word /\ r.quote = q
            /\ r.started /\ r.quoted = TRUE
<1>1. Scan(s, q) = Opened(s, q)
  BY Zenon DEF Scan, NoText
<1>2. LET r == Opened(s, q)
      IN /\ DOMAIN r = Kept /\ r.args = s.args /\ r.word = s.word /\ r.quote = q
         /\ r.started /\ r.quoted = TRUE
  BY DEF Opened, Kept
<1> QED BY <1>1, <1>2, Zenon

\* So does a piece of a word.
LEMMA PieceContinues ==
  ASSUME NEW s, DOMAIN s = Kept, s.quote = NoText,
         NEW piece, piece \notin Quotations \cup Blanks
  PROVE  LET r == Scan(s, piece)
         IN /\ DOMAIN r = Kept /\ r.args = s.args /\ r.word = s.word \o piece /\ r.quote = NoText
            /\ r.started /\ r.quoted = s.quoted
<1>1. Scan(s, piece) = Continued(s, piece)
  BY Zenon DEF Scan, NoText
<1>2. LET r == Continued(s, piece)
      IN /\ DOMAIN r = Kept /\ r.args = s.args /\ r.word = s.word \o piece /\ r.quote = NoText
         /\ r.started /\ r.quoted = s.quoted
  BY DEF Continued, Kept
<1> QED BY <1>1, <1>2, Zenon

\* Between quotation marks only the same mark is not text.
LEMMA MarkCloses ==
  ASSUME NEW s, DOMAIN s = Kept, s.quote \in Quotations, NEW piece
  PROVE  LET r == Scan(s, piece)
         IN /\ DOMAIN r = Kept /\ r.args = s.args
            /\ r.started = s.started /\ r.quoted = s.quoted
            /\ piece = s.quote => r.word = s.word /\ r.quote = NoText
            /\ piece # s.quote => r.word = s.word \o piece /\ r.quote = s.quote
<1>1. s.quote # ""
  BY DEF Quotations
<1>2. CASE piece = s.quote
  <2>1. Scan(s, piece) = [s EXCEPT !.quote = ""]
    BY <1>1, <1>2, Zenon DEF Scan
  <2>2. LET r == [s EXCEPT !.quote = ""]
        IN /\ DOMAIN r = Kept /\ r.args = s.args /\ r.word = s.word /\ r.quote = NoText
           /\ r.started = s.started /\ r.quoted = s.quoted
    BY DEF Kept, NoText
  <2> QED BY <1>2, <2>1, <2>2, Zenon
<1>3. CASE piece # s.quote
  <2> DEFINE longer == s.word \o piece
  <2>1. Scan(s, piece) = [s EXCEPT !.word = longer]
    BY <1>1, <1>3, Zenon DEF Scan
  <2> HIDE DEF longer
  <2>2. LET r == [s EXCEPT !.word = longer]
        IN /\ DOMAIN r = Kept /\ r.args = s.args /\ r.word = longer /\ r.quote = s.quote
           /\ r.started = s.started /\ r.quoted = s.quoted
    BY DEF Kept
  <2> QED BY <1>3, <2>1, <2>2, Zenon DEF longer
<1> QED BY <1>2, <1>3

----------------------------------------------------------------------------
(* Texts and the words they are written as                                 *)

Lines == Seq(Alphabet)

LEMMA SameLine ==
  ASSUME NEW a \in Lines, NEW b \in Lines, Len(a) = Len(b), \A n \in 1..Len(a) : a[n] = b[n]
  PROVE  a = b
<1>1. a = [n \in 1..Len(a) |-> a[n]] /\ b = [n \in 1..Len(b) |-> b[n]]
  BY DEF Lines
<1> QED BY <1>1

LEMMA JoinParts ==
  ASSUME NEW a \in Lines, NEW b \in Lines
  PROVE  /\ a \o b \in Lines /\ Len(a \o b) = Len(a) + Len(b) /\ Len(a) \in Nat /\ Len(b) \in Nat
         /\ \A n \in 1..Len(a) : (a \o b)[n] = a[n]
         /\ \A n \in 1..Len(b) : (a \o b)[Len(a) + n] = b[n]
BY DEF Lines

LEMMA JoinAgain ==
  ASSUME NEW a \in Lines, NEW b \in Lines, NEW c \in Lines
  PROVE  (a \o b) \o c = a \o (b \o c)
BY DEF Lines

\* Joining pieces one by one makes their text.
LEMMA TextIs ==
  ASSUME NEW pieces, Len(pieces) \in Nat, NEW u, u = [n \in 0..Len(pieces) |-> u[n]],
         u[0] = NoText, \A n \in 1..Len(pieces) : u[n] = u[n - 1] \o pieces[n]
  PROVE  TextOf(pieces) = u[Len(pieces)]
<1> DEFINE Joins(f) ==
             f = [n \in 0..Len(pieces) |-> IF n = 0 THEN NoText ELSE f[n - 1] \o pieces[n]]
           upto == CHOOSE f : Joins(f)
<1>1. Joins(u)
  <2>1. \A n \in 0..Len(pieces) : u[n] = IF n = 0 THEN NoText ELSE u[n - 1] \o pieces[n]
    OBVIOUS
  <2>2. [n \in 0..Len(pieces) |-> u[n]]
          = [n \in 0..Len(pieces) |-> IF n = 0 THEN NoText ELSE u[n - 1] \o pieces[n]]
    BY <2>1, Zenon
  <2> QED BY <2>2, Zenon
<1>2. Joins(upto)
  BY <1>1, Zenon
<1>3. TextOf(pieces) = upto[Len(pieces)]
  BY Zenon DEF TextOf
<1> HIDE DEF upto
<1>4. \A n \in 0..Len(pieces) : upto[n] = IF n = 0 THEN NoText ELSE upto[n - 1] \o pieces[n]
  BY <1>2
<1> DEFINE Apart == {n \in 0..Len(pieces) : upto[n] # u[n]}
<1> HIDE DEF Joins
<1>5. Apart = {}
  <2> SUFFICES ASSUME Apart # {} PROVE FALSE
    OBVIOUS
  <2>1. PICK m \in Apart : \A n \in Apart : m <= n
    <3>1. Apart \subseteq Nat
      OBVIOUS
    <3> HIDE DEF Apart
    <3> QED BY <3>1, LeastNat
  <2>2. m # 0
    BY <1>4
  <2>3. m - 1 \in 0..Len(pieces) /\ m \in 1..Len(pieces) /\ ~(m <= m - 1)
    BY <2>2
  <2>4. upto[m - 1] = u[m - 1]
    BY <2>1, <2>3
  <2> QED BY <1>4, <2>2, <2>3, <2>4
<1>6. \A n \in 0..Len(pieces) : upto[n] = u[n]
  BY <1>5
<1>7. Len(pieces) \in 0..Len(pieces)
  OBVIOUS
<1> QED BY <1>3, <1>6, <1>7

LEMMA TextOfOne == \A t : TextOf(<<t>>) = NoText \o t
<1> SUFFICES ASSUME NEW t PROVE TextOf(<<t>>) = NoText \o t
  OBVIOUS
<1> DEFINE pieces == <<t>>
           longer == NoText \o t
           u == [n \in 0..1 |-> IF n = 0 THEN NoText ELSE longer]
<1>1. Len(pieces) = 1 /\ pieces[1] = t /\ \A n \in 1..1 : n = 1 /\ n - 1 = 0
  OBVIOUS
<1> HIDE DEF pieces, longer
<1>2. u[0] = NoText /\ u[1] = longer /\ u = [n \in 0..1 |-> u[n]]
  OBVIOUS
<1> HIDE DEF u
<1>3. \A n \in 1..1 : u[n] = u[n - 1] \o pieces[n]
  BY <1>1, <1>2 DEF longer
<1> QED BY <1>1, <1>2, <1>3, TextIs DEF longer, pieces

LEMMA OnePiece == ASSUME NEW P, NEW t \in P PROVE <<t>> \in Seq(P)
OBVIOUS

LEMMA TextOfTwo == \A w, t : TextOf(<<w, t>>) = (NoText \o w) \o t
<1> SUFFICES ASSUME NEW w, NEW t PROVE TextOf(<<w, t>>) = (NoText \o w) \o t
  OBVIOUS
<1> DEFINE pieces == <<w, t>>
           one == NoText \o w
           two == one \o t
           u == [n \in 0..2 |-> IF n = 0 THEN NoText ELSE IF n = 1 THEN one ELSE two]
<1>1. Len(pieces) = 2 /\ pieces[1] = w /\ pieces[2] = t
      /\ \A n \in 1..2 : (n = 1 /\ n - 1 = 0) \/ (n = 2 /\ n - 1 = 1)
  OBVIOUS
<1> HIDE DEF pieces, one, two
<1>2. u[0] = NoText /\ u[1] = one /\ u[2] = two /\ u = [n \in 0..2 |-> u[n]]
  OBVIOUS
<1> HIDE DEF u
<1>3. \A n \in 1..2 : u[n] = u[n - 1] \o pieces[n]
  BY <1>1, <1>2 DEF one, two
<1> QED BY <1>1, <1>2, <1>3, TextIs DEF one, two, pieces

\* Between quotation marks of another kind all pieces are text.
LEMMA QuotedText ==
  ASSUME NEW s, DOMAIN s = Kept, s.quote \in Quotations, NEW pieces \in Seq(Alphabet),
         \A n \in 1..Len(pieces) : pieces[n] # s.quote
  PROVE  LET r == Scanned(s, pieces)
         IN /\ DOMAIN r = Kept /\ r.args = s.args
            /\ r.quote = s.quote /\ r.started = s.started /\ r.quoted = s.quoted
            /\ s.word = NoText => r.word = TextOf(pieces)
            /\ \A w \in Alphabet : s.word = NoText \o w => r.word = TextOf(<<w>> \o pieces)
<1>0. Len(pieces) \in Nat
  OBVIOUS
<1>1. PICK f : IsRun(f, s, pieces) /\ Scanned(s, pieces) = f[Len(pieces)]
  BY <1>0, ScannedIs
<1> DEFINE Inside(r) == /\ DOMAIN r = Kept /\ r.args = s.args
                        /\ r.quote = s.quote /\ r.started = s.started /\ r.quoted = s.quoted
           Not == {n \in 0..Len(pieces) : ~Inside(f[n])}
<1>2. ASSUME NEW n \in 1..Len(pieces), Inside(f[n - 1])
      PROVE  Inside(f[n]) /\ f[n].word = f[n - 1].word \o pieces[n]
  <2> DEFINE b == f[n - 1]
  <2>1. f[n] = Scan(b, pieces[n])
    BY <1>1 DEF IsRun
  <2>2. DOMAIN b = Kept /\ b.quote \in Quotations /\ pieces[n] # b.quote
    BY <1>2
  <2> HIDE DEF b
  <2>3. LET r == Scan(b, pieces[n])
        IN /\ DOMAIN r = Kept /\ r.args = b.args
           /\ r.started = b.started /\ r.quoted = b.quoted
           /\ r.word = b.word \o pieces[n] /\ r.quote = b.quote
    BY <2>2, MarkCloses
  <2> QED BY <1>2, <2>1, <2>3 DEF b
<1>3. Not = {}
  <2> SUFFICES ASSUME Not # {} PROVE FALSE
    OBVIOUS
  <2>1. PICK m \in Not : \A n \in Not : m <= n
    <3>1. Not \subseteq Nat
      OBVIOUS
    <3> HIDE DEF Not
    <3> QED BY <3>1, LeastNat
  <2>2. m # 0
    BY <1>1 DEF IsRun
  <2>3. m - 1 \in 0..Len(pieces) /\ m \in 1..Len(pieces) /\ ~(m <= m - 1)
    BY <2>2
  <2>4. m - 1 \notin Not
    BY <2>1, <2>3
  <2>5. Inside(f[m - 1])
    BY <2>3, <2>4
  <2>6. Inside(f[m])
    BY <1>2, <2>3, <2>5
  <2> QED BY <2>6
<1>4. \A n \in 0..Len(pieces) : Inside(f[n])
  BY <1>3
<1>5. \A n \in 1..Len(pieces) : n - 1 \in 0..Len(pieces)
  OBVIOUS
<1>6. \A n \in 1..Len(pieces) : f[n].word = f[n - 1].word \o pieces[n]
  BY <1>2, <1>4, <1>5
<1>7. 0 \in 0..Len(pieces) /\ Len(pieces) \in 0..Len(pieces) /\ f[0] = s
  BY <1>0, <1>1 DEF IsRun
<1>8. Inside(f[Len(pieces)])
  BY <1>4, <1>7
<1>9. ASSUME s.word = NoText PROVE f[Len(pieces)].word = TextOf(pieces)
  <2> DEFINE u == [n \in 0..Len(pieces) |-> f[n].word]
  <2>1. /\ u = [n \in 0..Len(pieces) |-> u[n]] /\ u[0] = NoText /\ u[Len(pieces)] = f[Len(pieces)].word
        /\ \A n \in 1..Len(pieces) : u[n] = f[n].word /\ u[n - 1] = f[n - 1].word
    BY <1>5, <1>7, <1>9
  <2> HIDE DEF u
  <2>2. \A n \in 1..Len(pieces) : u[n] = u[n - 1] \o pieces[n]
    BY <1>6, <2>1
  <2> QED BY <1>0, <2>1, <2>2, TextIs
<1>10. ASSUME NEW w \in Alphabet, s.word = NoText \o w
       PROVE  f[Len(pieces)].word = TextOf(<<w>> \o pieces)
  <2> DEFINE one == <<w>>
             all == one \o pieces
             u == [n \in 0..(Len(pieces) + 1) |-> IF n = 0 THEN NoText ELSE f[n - 1].word]
  <2>1. one \in Seq(Alphabet) /\ Len(one) = 1 /\ one[1] = w
    OBVIOUS
  <2> HIDE DEF one
  <2>2. Len(all) = Len(pieces) + 1 /\ all[1] = w /\ \A n \in 1..Len(pieces) : all[n + 1] = pieces[n]
    <3>1. /\ Len(all) = Len(one) + Len(pieces) /\ \A n \in 1..Len(one) : all[n] = one[n]
          /\ \A n \in 1..Len(pieces) : all[Len(one) + n] = pieces[n]
      BY <2>1, JoinParts DEF Lines
    <3> HIDE DEF all
    <3> QED BY <1>0, <2>1, <3>1
  <2> HIDE DEF all
  <2>3. /\ u = [n \in 0..(Len(pieces) + 1) |-> u[n]] /\ u[0] = NoText
        /\ \A n \in 0..Len(pieces) : u[n + 1] = f[n].word
    <3>1. \A n \in 0..Len(pieces) : n + 1 \in 0..(Len(pieces) + 1) /\ n + 1 # 0 /\ (n + 1) - 1 = n
      BY <1>0
    <3>2. 0 \in 0..(Len(pieces) + 1)
      BY <1>0
    <3> QED BY <3>1, <3>2
  <2> HIDE DEF u
  <2>4. ASSUME NEW n \in 1..(Len(pieces) + 1) PROVE u[n] = u[n - 1] \o all[n]
    <3>1. CASE n = 1
      <4>1. u[0 + 1] = f[0].word /\ 0 + 1 = n /\ n - 1 = 0
        BY <1>7, <2>3, <3>1
      <4>2. u[n] = NoText \o w /\ u[n - 1] = NoText /\ all[n] = w
        BY <1>7, <1>10, <2>2, <2>3, <3>1, <4>1
      <4> QED BY <4>2
    <3>2. CASE n # 1
      <4> DEFINE m == n - 1
      <4>1. m \in 1..Len(pieces) /\ m \in 0..Len(pieces) /\ m - 1 \in 0..Len(pieces)
            /\ n = m + 1 /\ n - 1 = (m - 1) + 1
        BY <1>0, <3>2
      <4>2. u[n] = f[m].word /\ u[n - 1] = f[m - 1].word /\ all[n] = pieces[m]
        BY <2>2, <2>3, <4>1
      <4>3. f[m].word = f[m - 1].word \o pieces[m]
        BY <1>6, <4>1
      <4> HIDE DEF m
      <4> QED BY <4>2, <4>3
    <3> QED BY <3>1, <3>2
  <2>5. TextOf(all) = u[Len(all)]
    <3>1. Len(all) \in Nat
      BY <1>0, <2>2
    <3> QED BY <2>2, <2>3, <2>4, <3>1, TextIs
  <2> QED BY <1>7, <2>2, <2>3, <2>5 DEF all, one
<1> QED BY <1>1, <1>8, <1>9, <1>10

Between(s) == /\ DOMAIN s = Kept /\ s.word = NoText /\ s.quote = NoText
              /\ ~s.started /\ s.quoted = FALSE

\* In state r a word is at its end that is not in args yet.
AtEnd(r, args, word, quoted) ==
  /\ DOMAIN r = Kept /\ r.args = args /\ r.word = word /\ r.quote = NoText
  /\ r.started /\ r.quoted = quoted

\* The pieces v are read as one word.
Says(v, word, quoted) ==
  /\ v \in Seq(Alphabet)
  /\ \A s : Between(s) => AtEnd(Scanned(s, v), s.args, word, quoted)

\* A word without quotation marks.
LEMMA SaysBare ==
  ASSUME NEW t \in Alphabet, t \notin Quotations \cup Blanks, TextOf(<<t>>) = t
  PROVE  Says(<<t>>, t, FALSE)
<1>1. <<t>> \in Seq(Alphabet)
  BY OnePiece
<1>2. ASSUME NEW s, Between(s) PROVE AtEnd(Scanned(s, <<t>>), s.args, t, FALSE)
  <2>1. Scanned(s, <<t>>) = Scan(s, t)
    BY ScannedOne
  <2>2. LET r == Scan(s, t)
        IN /\ DOMAIN r = Kept /\ r.args = s.args /\ r.word = s.word \o t /\ r.quote = NoText
           /\ r.started /\ r.quoted = s.quoted
    BY <1>2, PieceContinues DEF Between
  <2>3. s.word = NoText /\ NoText \o t = t /\ s.quoted = FALSE
    BY <1>2, TextOfOne DEF Between
  <2> QED BY <2>1, <2>2, <2>3 DEF AtEnd
<1> QED BY <1>1, <1>2 DEF Says

\* A word between quotation marks.
LEMMA SaysQuoted ==
  ASSUME NEW t, Pieces(t) \in Seq(Alphabet), TextOf(Pieces(t)) = t, NEW v \in InQuotes(t)
  PROVE  Says(v, t, TRUE)
<1>1. PICK q \in Quotations : q \notin Range(Pieces(t)) /\ v = <<q>> \o Pieces(t) \o <<q>>
  BY DEF InQuotes
<1> DEFINE p == Pieces(t)
<1>2. <<q>> \in Seq(Alphabet) /\ p \in Seq(Alphabet) /\ Len(p) \in Nat /\ <<q>> \o p \in Seq(Alphabet)
  <2>1. q \in Alphabet
    BY <1>1 DEF Alphabet
  <2>2. <<q>> \in Seq(Alphabet)
    BY <2>1, OnePiece
  <2> QED BY <2>2
<1>3. \A n \in 1..Len(p) : p[n] # q
  <2>1. p = [n \in 1..Len(p) |-> p[n]]
    BY <1>2
  <2> QED BY <1>1, <2>1 DEF Range
<1>4. v = (<<q>> \o p) \o <<q>> /\ v \in Seq(Alphabet)
  BY <1>1, <1>2
<1> HIDE DEF p
<1>5. ASSUME NEW s, Between(s) PROVE AtEnd(Scanned(s, v), s.args, t, TRUE)
  <2> DEFINE a == Scan(s, q)
             b == Scanned(a, p)
             r == Scan(b, q)
  <2>1. Scanned(s, v) = r
    <3>1. Scanned(s, v) = Scanned(Scanned(s, <<q>> \o p), <<q>>)
      BY <1>2, <1>4, ScannedJoin
    <3>2. Scanned(s, <<q>> \o p) = Scanned(Scanned(s, <<q>>), p)
      BY <1>2, ScannedJoin
    <3> QED BY <3>1, <3>2, ScannedOne
  <2>2. /\ DOMAIN a = Kept /\ a.args = s.args /\ a.word = NoText /\ a.quote = q
        /\ a.started /\ a.quoted = TRUE
    <3>1. DOMAIN s = Kept /\ s.quote = NoText /\ s.word = NoText
      BY <1>5 DEF Between
    <3>2. LET x == Scan(s, q)
          IN /\ DOMAIN x = Kept /\ x.args = s.args /\ x.word = s.word /\ x.quote = q
             /\ x.started /\ x.quoted = TRUE
      BY <3>1, MarkOpens
    <3> QED BY <3>1, <3>2
  <2> HIDE DEF a
  <2>3. /\ DOMAIN b = Kept /\ b.args = a.args /\ b.word = TextOf(p)
        /\ b.quote = a.quote /\ b.started = a.started /\ b.quoted = a.quoted
    BY <1>2, <1>3, <2>2, QuotedText
  <2> HIDE DEF b
  <2>4. /\ DOMAIN r = Kept /\ r.args = b.args /\ r.started = b.started /\ r.quoted = b.quoted
        /\ r.word = b.word /\ r.quote = NoText
    BY <2>2, <2>3, MarkCloses
  <2> HIDE DEF r
  <2>5. b.word = t
    BY <2>3 DEF p
  <2> QED BY <2>1, <2>2, <2>3, <2>4, <2>5 DEF AtEnd
<1> QED BY <1>4, <1>5 DEF Says

----------------------------------------------------------------------------
(* Lines of words                                                          *)

\* The line is read as the words args and a last word.
Reads(line, args, word, quoted) ==
  line \in Seq(Alphabet) /\ AtEnd(Scanned(NoWord, line), args, word, quoted)

LEMMA ReadsFirst ==
  ASSUME NEW v, NEW word, NEW quoted, Says(v, word, quoted)
  PROVE  Reads(v, << >>, word, quoted)
<1>1. Between(NoWord) /\ NoWord.args = << >>
  BY Beginning DEF Between
<1> QED BY <1>1 DEF Says, Reads

LEMMA BlankPiece == <<" ">> \in Seq(Alphabet) /\ " " \in Blanks
<1>1. " " \in Blanks
  BY DEF Blanks
<1>2. " " \in Alphabet
  BY <1>1 DEF Alphabet
<1> QED BY <1>1, <1>2, OnePiece

\* A blank and a word more.
LEMMA ReadsNext ==
  ASSUME NEW line, NEW args, NEW word, NEW quoted, Reads(line, args, word, quoted),
         NEW v, NEW next, NEW marked, Says(v, next, marked)
  PROVE  Reads(Spaced(line, v), Append(args, Token(word, quoted)), next, marked)
<1> DEFINE a == Scanned(NoWord, line)
           b == Scan(a, " ")
           more == Append(args, Token(word, quoted))
<1>1. line \in Seq(Alphabet) /\ v \in Seq(Alphabet) /\ AtEnd(a, args, word, quoted)
  BY DEF Reads, Says
<1>2. <<" ">> \in Seq(Alphabet) /\ " " \in Blanks
  BY BlankPiece
<1> DEFINE blank == <<" ">>
<1> HIDE DEF blank
<1>3. line \o blank \in Seq(Alphabet) /\ line \o blank \o v \in Seq(Alphabet)
  <2>1. blank \in Seq(Alphabet)
    BY <1>2 DEF blank
  <2> QED BY <1>1, <2>1
<1>4. Scanned(NoWord, line \o blank \o v) = Scanned(b, v)
  <2>1. Scanned(NoWord, line \o blank \o v) = Scanned(Scanned(NoWord, line \o blank), v)
    BY <1>1, <1>3, ScannedJoin
  <2>2. Scanned(NoWord, line \o blank) = Scanned(a, blank)
    BY <1>1, <1>2, ScannedJoin DEF blank
  <2>3. Scanned(a, blank) = b
    BY ScannedOne DEF blank
  <2> QED BY <2>1, <2>2, <2>3
<1>5. Between(b) /\ b.args = more
  <2>1. DOMAIN a = Kept /\ a.quote = NoText /\ a.started /\ a.args = args
        /\ a.word = word /\ a.quoted = quoted
    BY <1>1 DEF AtEnd
  <2> HIDE DEF a, b
  <2>2. LET r == Scan(a, " ")
        IN /\ DOMAIN r = Kept /\ r.args = Append(a.args, Token(a.word, a.quoted))
           /\ r.word = NoText /\ r.quote = NoText /\ ~r.started /\ r.quoted = FALSE
    BY <1>2, <2>1, BlankEnds
  <2> QED BY <2>1, <2>2 DEF Between, b
<1> HIDE DEF a, b, more
<1>6. AtEnd(Scanned(b, v), more, next, marked)
  BY <1>5, Zenon DEF Says
<1>7. Spaced(line, v) = line \o blank \o v
  BY DEF Spaced, blank
<1> QED BY <1>3, <1>4, <1>6, <1>7 DEF Reads, more

\* The words that split makes of the line.
LEMMA ReadsSplit ==
  ASSUME NEW line, NEW args, NEW word, NEW quoted, Reads(line, args, word, quoted)
  PROVE  Split(line).error = FALSE /\ Split(line).args = Append(args, Token(word, quoted))
<1> DEFINE r == Scanned(NoWord, line)
           more == Append(r.args, Token(r.word, r.quoted))
<1>1. r.started /\ r.quote = NoText /\ more = Append(args, Token(word, quoted))
  BY DEF Reads, AtEnd
<1>2. Split(line) = [error |-> r.quote # "", args |-> EndWord(r).args]
  BY DEF Split
<1>3. EndWord(r) = [NoWord EXCEPT !.args = more]
  BY <1>1, Zenon DEF EndWord, Token
<1> HIDE DEF r, more
<1>4. [NoWord EXCEPT !.args = more].args = more
  BY Beginning DEF Kept
<1>5. EndWord(r).args = more
  BY <1>3, <1>4
<1>6. (r.quote # "") = FALSE
  BY <1>1 DEF NoText
<1>7. Split(line) = [error |-> FALSE, args |-> more]
  BY <1>2, <1>5, <1>6, Zenon
<1> QED BY <1>1, <1>7

----------------------------------------------------------------------------
(* The words of a command                                                  *)

LEMMA PiecesOf ==
  ASSUME NEW t \in Range(Texts)
  PROVE  Pieces(t) \in Seq(Alphabet) /\ TextOf(Pieces(t)) = t
<1>1. CASE t \in DOMAIN Spelled
  BY <1>1, CommandAssumption DEF Pieces
<1>2. CASE t \notin DOMAIN Spelled
  <2>1. Pieces(t) = <<t>> /\ t \in Alphabet
    BY <1>2 DEF Pieces, Alphabet
  <2>2. TextOf(<<t>>) = t
    BY <1>2, BareAssumption
  <2> QED BY <2>1, <2>2, OnePiece
<1> QED BY <1>1, <1>2

LEMMA SaysPlain ==
  ASSUME NEW t, \/ t \in Range(Texts) \ DOMAIN Spelled
                \/ t \in DOMAIN Seconds
                \/ t \in Keywords
  PROVE  Says(<<t>>, t, FALSE)
<1>1. t \notin Quotations \cup Blanks /\ TextOf(<<t>>) = t
  BY BareAssumption
<1>2. t \in Alphabet
  BY DEF Alphabet
<1> QED BY <1>1, <1>2, SaysBare

LEMMA SaysWord ==
  ASSUME NEW t \in Range(Texts), NEW v \in Word(t)
  PROVE  \E quoted : Says(v, t, quoted)
<1>1. CASE v \in Bare(t)
  <2>1. t \notin DOMAIN Spelled /\ v = <<t>>
    BY <1>1 DEF Bare
  <2> QED BY <2>1, SaysPlain
<1>2. CASE v \in InQuotes(t)
  <2>1. Pieces(t) \in Seq(Alphabet) /\ TextOf(Pieces(t)) = t
    BY PiecesOf
  <2> QED BY <1>2, <2>1, SaysQuoted
<1> QED BY <1>1, <1>2 DEF Word

\* A literal is read as a number or as a string as it is meant.
LEMMA SaysLiteral ==
  ASSUME NEW t \in Range(Texts), NEW number \in BOOLEAN, number = TRUE => t \in DOMAIN Number,
         NEW v \in Literal(t, number)
  PROVE  \E quoted : Says(v, t, quoted) /\ Numeric(Token(t, quoted)) = number
<1>0. \A quoted : Token(t, quoted).text = t /\ Token(t, quoted).quoted = quoted
  BY DEF Token
<1>1. CASE v \in Bare(t) /\ (number = TRUE \/ t \notin DOMAIN Number)
  <2>1. t \notin DOMAIN Spelled /\ v = <<t>>
    BY <1>1 DEF Bare
  <2>2. Says(v, t, FALSE)
    BY <2>1, SaysPlain
  <2>3. Numeric(Token(t, FALSE)) <=> t \in DOMAIN Number
    BY <1>0 DEF Numeric
  <2>4. Numeric(Token(t, FALSE)) \in BOOLEAN
    BY Zenon DEF Numeric
  <2>5. Numeric(Token(t, FALSE)) = number
    BY <1>1, <2>3, <2>4
  <2> QED BY <2>2, <2>5
<1>2. CASE v \in InQuotes(t) /\ number = FALSE
  <2>1. Pieces(t) \in Seq(Alphabet) /\ TextOf(Pieces(t)) = t
    BY PiecesOf
  <2>2. Says(v, t, TRUE)
    BY <1>2, <2>1, SaysQuoted
  <2>3. ~Numeric(Token(t, TRUE))
    BY <1>0 DEF Numeric
  <2>4. Numeric(Token(t, TRUE)) \in BOOLEAN
    BY Zenon DEF Numeric
  <2>5. Numeric(Token(t, TRUE)) = number
    BY <1>2, <2>3, <2>4
  <2> QED BY <2>2, <2>5
<1> QED BY <1>1, <1>2 DEF Literal

\* Keywords in small letters and in capitals are the same.
LEMMA Letters ==
  /\ \A w \in DOMAIN Capital : /\ Lower(w) = w /\ Upper(w) = Capital[w]
                               /\ Lower(Capital[w]) = w /\ Upper(Capital[w]) = Capital[w]
  /\ \A w \in {">", ">=", "<", "<="} : Lower(w) = w /\ Upper(w) = w
<1>1. DOMAIN Capital = {"set", "ex", "get", "where", "del", "delete", "ping", "key", "value",
                        "equals", "contains"}
  BY DEF Capital
<1>2. \A w, x \in DOMAIN Capital : Capital[w] # x /\ (Capital[w] = Capital[x] => w = x)
  BY DEF Capital
<1>3. \A w \in DOMAIN Capital : \A x \in {">", ">=", "<", "<="} : Capital[w] # x /\ w # x
  BY DEF Capital
<1>4. \A w \in DOMAIN Capital : Lower(w) = w /\ Lower(Capital[w]) = w
  BY <1>2 DEF Lower
<1>5. \A w \in DOMAIN Capital : Upper(w) = Capital[w] /\ Upper(Capital[w]) = Capital[w]
  BY <1>2 DEF Upper
<1>6. \A w \in {">", ">=", "<", "<="} : Lower(w) = w /\ Upper(w) = w
  BY <1>3 DEF Upper, Lower
<1> QED BY <1>4, <1>5, <1>6

----------------------------------------------------------------------------
(* Lines of two and more words                                             *)

LEMMA Joined ==
  ASSUME NEW A, NEW B, NEW line \in Then(A, B)
  PROVE  \E l \in A, v \in B : line = Spaced(l, v)
BY DEF Then

\* The words of a line, one after the other.
LEMMA Tuples ==
  /\ \A a : Append(<< >>, a) = <<a>>
  /\ \A a, b : Append(<<a>>, b) = <<a, b>>
  /\ \A a, b, c : Append(<<a, b>>, c) = <<a, b, c>>
  /\ \A a, b, c, d : Append(<<a, b, c>>, d) = <<a, b, c, d>>
  /\ \A a, b, c, d, e : Append(<<a, b, c, d>>, e) = <<a, b, c, d, e>>
<1>1. \A a : Append(<< >>, a) = <<a>>
  OBVIOUS
<1>2. ASSUME NEW a, NEW b PROVE Append(<<a>>, b) = <<a, b>>
  <2>1. <<a>> \in Seq({a, b}) /\ <<a, b>> \in Seq({a, b}) /\ Append(<<a>>, b) \in Seq({a, b})
    OBVIOUS
  <2>2. Len(Append(<<a>>, b)) = 2 /\ \A i \in 1..2 : Append(<<a>>, b)[i] = <<a, b>>[i]
    OBVIOUS
  <2>3. /\ Append(<<a>>, b) = [i \in 1..2 |-> Append(<<a>>, b)[i]]
        /\ <<a, b>> = [i \in 1..2 |-> <<a, b>>[i]]
    BY <2>1, <2>2
  <2> QED BY <2>2, <2>3
<1>3. ASSUME NEW a, NEW b, NEW c PROVE Append(<<a, b>>, c) = <<a, b, c>>
  <2> DEFINE S == {a, b, c}
             x == <<a, b>>
             y == <<a, b, c>>
             z == Append(x, c)
  <2>1. x \in Seq(S) /\ y \in Seq(S) /\ z \in Seq(S)
    OBVIOUS
  <2>2. Len(z) = 3 /\ \A i \in 1..3 : z[i] = y[i]
    OBVIOUS
  <2>3. z = [i \in 1..3 |-> z[i]] /\ y = [i \in 1..3 |-> y[i]]
    BY <2>1, <2>2
  <2> QED BY <2>2, <2>3
<1>4. ASSUME NEW a, NEW b, NEW c, NEW d PROVE Append(<<a, b, c>>, d) = <<a, b, c, d>>
  <2> DEFINE S == {a, b, c, d}
             x == <<a, b, c>>
             y == <<a, b, c, d>>
             z == Append(x, d)
  <2>1. x \in Seq(S) /\ y \in Seq(S) /\ z \in Seq(S)
    OBVIOUS
  <2>2. Len(z) = 4 /\ \A i \in 1..4 : z[i] = y[i]
    OBVIOUS
  <2>3. z = [i \in 1..4 |-> z[i]] /\ y = [i \in 1..4 |-> y[i]]
    BY <2>1, <2>2
  <2> QED BY <2>2, <2>3
<1>5. ASSUME NEW a, NEW b, NEW c, NEW d, NEW e
      PROVE  Append(<<a, b, c, d>>, e) = <<a, b, c, d, e>>
  <2> DEFINE S == {a, b, c, d, e}
             x == <<a, b, c, d>>
             y == <<a, b, c, d, e>>
             z == Append(x, e)
  <2>1. x \in Seq(S) /\ y \in Seq(S) /\ z \in Seq(S)
    OBVIOUS
  <2>2. Len(z) = 5 /\ \A i \in 1..5 : z[i] = y[i]
    OBVIOUS
  <2>3. z = [i \in 1..5 |-> z[i]] /\ y = [i \in 1..5 |-> y[i]]
    BY <2>1, <2>2
  <2> QED BY <2>2, <2>3
<1> QED BY <1>1, <1>2, <1>3, <1>4, <1>5

LEMMA TokenParts == \A t, q : Token(t, q).text = t /\ Token(t, q).quoted = q
BY DEF Token

----------------------------------------------------------------------------
(* Parse, by the words of a line                                           *)

\* What Parse decides by.
LEMMA ParseBy ==
  ASSUME NEW line, NEW args, Split(line).error = FALSE, Split(line).args = args, args # << >>,
         NEW kind, kind = Upper(args[1].text)
  PROVE  /\ kind = "GET" /\ Len(args) > 2 /\ Upper(args[2].text) = "WHERE"
              => Parse(line) = ParseWhere(args)
         /\ kind = "SET" => Parse(line) = ParseSet(args)
         /\ kind = "GET" /\ Len(args) = 2 => Parse(line) = On("GET", args[2].text)
         /\ kind \in {"DELETE", "DEL"} /\ Len(args) = 2 => Parse(line) = On("DELETE", args[2].text)
         /\ kind = "PING" /\ Len(args) = 1 => Parse(line) = Ping
         /\ (\/ kind \notin {"GET", "SET", "DELETE", "DEL", "PING"}
             \/ kind = "PING" /\ Len(args) # 1
             \/ kind \in {"DELETE", "DEL"} /\ Len(args) # 2
             \/ kind = "GET" /\ Len(args) # 2 /\ ~(Len(args) > 2 /\ Upper(args[2].text) = "WHERE"))
              => Parse(line) = Invalid
<1> DEFINE none   == Split(line).error \/ Split(line).args = << >>
           where  == kind = "GET" /\ Len(args) > 2 /\ Upper(args[2].text) = "WHERE"
           key    == kind \in {"GET", "DELETE", "DEL"} /\ Len(args) = 2
           ping   == kind = "PING" /\ Len(args) = 1
<1> DEFINE a == Split(line).args
           d == Upper(a[1].text)
<1>8. Parse(line) =
        IF none THEN Invalid
        ELSE CASE d = "GET" /\ Len(a) > 2 /\ Upper(a[2].text) = "WHERE" -> ParseWhere(a)
               [] d = "SET" -> ParseSet(a)
               [] d \in {"GET", "DELETE", "DEL"} /\ Len(a) = 2 ->
                    On(IF d = "GET" THEN "GET" ELSE "DELETE", a[2].text)
               [] d = "PING" /\ Len(a) = 1 -> Ping
               [] OTHER -> Invalid
  BY Zenon DEF Parse
<1>9. a = args /\ d = kind
  OBVIOUS
<1> HIDE DEF a, d, none
<1>1. Parse(line) = IF none THEN Invalid
                    ELSE CASE where -> ParseWhere(args)
                           [] kind = "SET" -> ParseSet(args)
                           [] key -> On(IF kind = "GET" THEN "GET" ELSE "DELETE", args[2].text)
                           [] ping -> Ping
                           [] OTHER -> Invalid
  BY <1>8, <1>9, Zenon
<1>2. ~none
  BY DEF none
<1>3. ~(where /\ key)
  <2>1. ASSUME NEW n, n = 2 PROVE ~(n > 2)
    BY <2>1
  <2> QED BY <2>1
<1>4. where => Parse(line) = ParseWhere(args)
  BY <1>1, <1>2, <1>3
<1>5. kind = "SET" => Parse(line) = ParseSet(args)
  BY <1>1, <1>2
<1>6. key => Parse(line) = On(IF kind = "GET" THEN "GET" ELSE "DELETE", args[2].text)
  BY <1>1, <1>2, <1>3
<1>7. ping => Parse(line) = Ping
  BY <1>1, <1>2
<1>10. ~where /\ kind # "SET" /\ ~key /\ ~ping => Parse(line) = Invalid
  BY <1>1, <1>2
<1> QED BY <1>4, <1>5, <1>6, <1>7, <1>10

LEMMA SetThree ==
  ASSUME NEW a, NEW b, NEW c
  PROVE  ParseSet(<<a, b, c>>) = SetTo(b.text, c.text, Numeric(c), 0)
<1> DEFINE args == <<a, b, c>>
<1>1. Len(args) = 3 /\ args[2] = b /\ args[3] = c /\ SubSeq(args, 4, 3) = << >>
  OBVIOUS
<1> HIDE DEF args
<1>2. ValidExpiry(SubSeq(args, 4, Len(args)))
  BY <1>1 DEF ValidExpiry
<1>3. ParseSet(args) = SetTo(b.text, c.text, Numeric(c), 0)
  BY <1>1, <1>2 DEF ParseSet
<1> QED BY <1>3 DEF args

LEMMA SetFive ==
  ASSUME NEW a, NEW b, NEW c, NEW d, NEW e, Upper(d.text) = "EX", e.text \in DOMAIN Seconds
  PROVE  /\ Seconds[e.text] \in 1..MaxSeconds =>
              ParseSet(<<a, b, c, d, e>>) = SetTo(b.text, c.text, Numeric(c), Seconds[e.text])
         /\ Seconds[e.text] \notin 1..MaxSeconds => ParseSet(<<a, b, c, d, e>>) = Invalid
<1> DEFINE args == <<a, b, c, d, e>>
           rest == SubSeq(args, 4, 5)
<1>1. Len(args) = 5 /\ args[2] = b /\ args[3] = c /\ args[5] = e
  OBVIOUS
<1>2. Len(rest) = 2 /\ rest[1] = d /\ rest[2] = e
  OBVIOUS
<1> HIDE DEF args, rest
<1>3. ValidExpiry(rest) <=> Seconds[e.text] \in 1..MaxSeconds
  <2>1. rest # << >>
    BY <1>2
  <2> QED BY <1>2, <2>1 DEF ValidExpiry
<1>4. SubSeq(args, 4, Len(args)) = rest
  BY <1>1 DEF rest
<1>5. ValidExpiry(rest) => ParseSet(args) = SetTo(b.text, c.text, Numeric(c), Seconds[e.text])
  BY <1>1, <1>4 DEF ParseSet
<1>6. ~ValidExpiry(rest) => ParseSet(args) = Invalid
  BY <1>1, <1>4 DEF ParseSet
<1> QED BY <1>3, <1>5, <1>6 DEF args

LEMMA WhereFive ==
  ASSUME NEW a, NEW b, NEW c, NEW d, NEW e, NEW f, NEW o, Lower(c.text) = f, Lower(d.text) = o,
         f \in {"key", "value"}, o \in {"equals", "contains", ">", ">=", "<", "<="}
  PROVE  ParseWhere(<<a, b, c, d, e>>) = Search(f, o, e.text, f = "value" /\ Numeric(e))
<1> DEFINE args == <<a, b, c, d, e>>
<1>1. Len(args) = 5 /\ args[3] = c /\ args[4] = d /\ args[5] = e
  OBVIOUS
<1> HIDE DEF args
<1>2. ParseWhere(args) = Search(f, o, e.text, f = "value" /\ Numeric(e))
  BY <1>1, Zenon DEF ParseWhere
<1> QED BY <1>2 DEF args

----------------------------------------------------------------------------
(* The lines of a command                                                  *)

LEMMA SetParts ==
  ASSUME NEW k, NEW v, NEW n, NEW t
  PROVE  LET c == SetTo(k, v, n, t)
         IN c.kind = "SET" /\ c.key = k /\ c.value = v /\ c.isNumber = n /\ c.ttl = t
BY DEF SetTo, NoCommand

LEMMA OnParts == \A d, k : On(d, k).kind = d /\ On(d, k).key = k
BY DEF On, NoCommand

LEMMA PingParts == Ping.kind = "PING"
BY DEF Ping, NoCommand

LEMMA SearchParts ==
  ASSUME NEW f, NEW o, NEW t, NEW n
  PROVE  LET c == Search(f, o, t, n)
         IN /\ c.kind = "GET_WHERE" /\ c.field = f /\ c.operator = o /\ c.operand = t
            /\ c.operandIsNumber = n
BY DEF Search, NoCommand

Lasting(t) == {<<s>> : s \in {x \in DOMAIN Seconds : Seconds[x] = t}}

\* The lines of a SET, with keywords w and x.
Stored(w, k, v, n)         == Then(Then({<<w>>}, Word(k)), Literal(v, n))
Expiring(w, k, v, n, x, t) == Then(Then(Stored(w, k, v, n), {<<x>>}), Lasting(t))

LEMMA SetLines ==
  ASSUME NEW k, NEW v, NEW n, NEW t, NEW line \in Written(SetTo(k, v, n, t))
  PROVE  \E w \in {"set", "SET"}, x \in {"ex", "EX"} :
           line \in IF t = 0 THEN Stored(w, k, v, n) ELSE Expiring(w, k, v, n, x, t)
<1> DEFINE c == SetTo(k, v, n, t)
<1>1. c.kind = "SET" /\ c.key = k /\ c.value = v /\ c.isNumber = n /\ c.ttl = t
  BY SetParts
<1>2. Lower("set") = "set" /\ Upper("set") = "SET" /\ Lower("ex") = "ex" /\ Upper("ex") = "EX"
  BY Letters DEF Capital
<1> HIDE DEF c
<1>3. WrittenWith(c, Lower) = IF t = 0 THEN Stored("set", k, v, n)
                              ELSE Expiring("set", k, v, n, "ex", t)
  BY <1>1, <1>2, Zenon DEF WrittenWith, Stored, Expiring, Lasting
<1>4. WrittenWith(c, Upper) = IF t = 0 THEN Stored("SET", k, v, n)
                              ELSE Expiring("SET", k, v, n, "EX", t)
  BY <1>1, <1>2, Zenon DEF WrittenWith, Stored, Expiring, Lasting
<1>5. line \in WrittenWith(c, Lower) \/ line \in WrittenWith(c, Upper)
  BY DEF Written, c
<1> QED BY <1>3, <1>4, <1>5

LEMMA OnLines ==
  ASSUME NEW d \in {"GET", "DELETE"}, NEW k, NEW line \in Written(On(d, k))
  PROVE  \E w \in (IF d = "GET" THEN {"get", "GET"} ELSE {"del", "delete", "DEL", "DELETE"}) :
           line \in Then({<<w>>}, Word(k))
<1> DEFINE c == On(d, k)
<1>1. c.kind = d /\ c.key = k
  BY OnParts
<1>2. /\ Lower("get") = "get" /\ Upper("get") = "GET" /\ Lower("del") = "del"
      /\ Upper("del") = "DEL" /\ Lower("delete") = "delete" /\ Upper("delete") = "DELETE"
  BY Letters DEF Capital
<1> HIDE DEF c
<1>3. line \in WrittenWith(c, Lower) \/ line \in WrittenWith(c, Upper)
  BY DEF Written, c
<1>4. CASE d = "GET"
  <2>1. /\ WrittenWith(c, Lower) = Then({<<"get">>}, Word(k))
        /\ WrittenWith(c, Upper) = Then({<<"GET">>}, Word(k))
    BY <1>1, <1>2, <1>4, Zenon DEF WrittenWith
  <2> QED BY <1>3, <1>4, <2>1
<1>5. CASE d = "DELETE"
  <2>1. /\ WrittenWith(c, Lower) = Then({<<"del">>} \cup {<<"delete">>}, Word(k))
        /\ WrittenWith(c, Upper) = Then({<<"DEL">>} \cup {<<"DELETE">>}, Word(k))
    BY <1>1, <1>2, <1>5, Zenon DEF WrittenWith
  <2>2. ASSUME NEW A, NEW B, NEW W, line \in Then(A \cup B, W)
        PROVE  line \in Then(A, W) \/ line \in Then(B, W)
    BY <2>2 DEF Then
  <2> QED BY <1>3, <1>5, <2>1, <2>2
<1> QED BY <1>4, <1>5

Where(w, x, f, o, last) == Then(Then(Then(Then({<<w>>}, {<<x>>}), {<<f>>}), {<<o>>}), last)

LEMMA WhereLines ==
  ASSUME NEW f, f \in {"key", "value"}, NEW o, o \in {"equals", "contains", ">", ">=", "<", "<="},
         NEW t, NEW n, NEW line \in Written(Search(f, o, t, n))
  PROVE  \E w \in {"get", "GET"}, x \in {"where", "WHERE"}, g \in {f, Upper(f)}, p \in {o, Upper(o)} :
           line \in Where(w, x, g, p, IF f = "value" THEN Literal(t, n) ELSE Word(t))
<1> DEFINE c == Search(f, o, t, n)
           last == IF f = "value" THEN Literal(t, n) ELSE Word(t)
<1>1. /\ c.kind = "GET_WHERE" /\ c.field = f /\ c.operator = o /\ c.operand = t
      /\ c.operandIsNumber = n
  BY SearchParts
<1>2. /\ Lower("get") = "get" /\ Upper("get") = "GET"
      /\ Lower("where") = "where" /\ Upper("where") = "WHERE"
  BY Letters DEF Capital
<1>3. Lower(f) = f /\ Lower(o) = o
  <2>1. f \in DOMAIN Capital /\ (o \in DOMAIN Capital \/ o \in {">", ">=", "<", "<="})
    BY DEF Capital
  <2> QED BY <2>1, Letters
<1> HIDE DEF c
<1>4. WrittenWith(c, Lower) = Where("get", "where", f, o, last)
  BY <1>1, <1>2, <1>3, Zenon DEF WrittenWith, Where
<1>5. WrittenWith(c, Upper) = Where("GET", "WHERE", Upper(f), Upper(o), last)
  BY <1>1, <1>2, Zenon DEF WrittenWith, Where
<1>6. line \in WrittenWith(c, Lower) \/ line \in WrittenWith(c, Upper)
  BY DEF Written, c
<1> HIDE DEF last
<1>7. \E w \in {"get", "GET"}, x \in {"where", "WHERE"}, g \in {f, Upper(f)}, p \in {o, Upper(o)} :
        line \in Where(w, x, g, p, last)
  BY <1>4, <1>5, <1>6
<1> QED BY <1>7 DEF last

LEMMA PingLines ==
  ASSUME NEW line \in Written(Ping)
  PROVE  line = <<"ping">> \/ line = <<"PING">>
<1>1. Lower("ping") = "ping" /\ Upper("ping") = "PING"
  BY Letters DEF Capital
<1>2. WrittenWith(Ping, Lower) = {<<"ping">>} /\ WrittenWith(Ping, Upper) = {<<"PING">>}
  BY <1>1, PingParts, Zenon DEF WrittenWith
<1> QED BY <1>2 DEF Written

----------------------------------------------------------------------------
(* Every line is heard as it is meant                                      *)

LEMMA KeywordsThere ==
  /\ {"set", "SET", "ex", "EX", "get", "GET", "where", "WHERE", "del", "DEL", "delete", "DELETE",
      "ping", "PING", "key", "KEY", "value", "VALUE", "equals", "EQUALS", "contains", "CONTAINS",
      ">", ">=", "<", "<="} \subseteq Keywords
  /\ Upper("set") = "SET" /\ Upper("SET") = "SET" /\ Upper("ex") = "EX" /\ Upper("EX") = "EX"
  /\ Upper("get") = "GET" /\ Upper("GET") = "GET"
  /\ Upper("where") = "WHERE" /\ Upper("WHERE") = "WHERE"
  /\ Upper("del") = "DEL" /\ Upper("DEL") = "DEL"
  /\ Upper("delete") = "DELETE" /\ Upper("DELETE") = "DELETE"
  /\ Upper("ping") = "PING" /\ Upper("PING") = "PING"
<1>1. {"set", "ex", "get", "where", "del", "delete", "ping", "key", "value", "equals", "contains"}
        \subseteq DOMAIN Capital
  BY DEF Capital
<1>2. /\ Capital["set"] = "SET" /\ Capital["ex"] = "EX" /\ Capital["get"] = "GET"
      /\ Capital["where"] = "WHERE" /\ Capital["del"] = "DEL" /\ Capital["delete"] = "DELETE"
      /\ Capital["ping"] = "PING" /\ Capital["key"] = "KEY" /\ Capital["value"] = "VALUE"
      /\ Capital["equals"] = "EQUALS" /\ Capital["contains"] = "CONTAINS"
  BY DEF Capital
<1>3. \A w \in DOMAIN Capital : w \in Keywords /\ Capital[w] \in Keywords
  BY DEF Keywords, Range
<1>4. {">", ">=", "<", "<="} \subseteq Keywords
  BY DEF Keywords
<1> QED BY <1>1, <1>2, <1>3, <1>4, Letters

LEMMA ReadsKeyword ==
  ASSUME NEW w \in Keywords
  PROVE  \E q : Says(<<w>>, w, q) /\ Reads(<<w>>, << >>, w, q)
BY SaysPlain, ReadsFirst

ReadsSet(line, w, k, v, n) ==
  \E p, q, r : /\ Reads(line, <<Token(w, p), Token(k, q)>>, v, r)
               /\ Numeric(Token(v, r)) = n

\* The first three words of a SET.
LEMMA ReadsStored ==
  ASSUME NEW k \in Range(Texts), NEW v \in Range(Texts), NEW n \in BOOLEAN,
         n = TRUE => v \in DOMAIN Number,
         NEW w \in Keywords, NEW line, line \in Stored(w, k, v, n)
  PROVE  ReadsSet(line, w, k, v, n)
<1>1. PICK first \in Then({<<w>>}, Word(k)), l \in Literal(v, n) : line = Spaced(first, l)
  BY Joined DEF Stored
<1>2. PICK u \in Word(k) : first = Spaced(<<w>>, u)
  BY <1>1, Joined
<1>3. PICK q : Says(u, k, q)
  BY <1>2, SaysWord
<1>4. PICK r : Says(l, v, r) /\ Numeric(Token(v, r)) = n
  BY <1>1, SaysLiteral
<1>5. PICK p : Reads(<<w>>, << >>, w, p)
  BY ReadsKeyword
<1>6. Reads(first, <<Token(w, p)>>, k, q)
  <2>1. Reads(first, Append(<< >>, Token(w, p)), k, q)
    BY <1>2, <1>3, <1>5, ReadsNext
  <2> QED BY <2>1, Tuples, Zenon
<1>7. Reads(line, <<Token(w, p), Token(k, q)>>, v, r)
  <2>1. Reads(line, Append(<<Token(w, p)>>, Token(k, q)), v, r)
    BY <1>1, <1>4, <1>6, ReadsNext
  <2> QED BY <2>1, Tuples, Zenon
<1> QED BY <1>4, <1>7 DEF ReadsSet

\* SET key value, with or without EX.
LEMMA HearsSet ==
  ASSUME NEW k \in Range(Texts), NEW v \in Range(Texts), NEW n \in BOOLEAN,
         n = TRUE => v \in DOMAIN Number, NEW t, NEW line \in Written(SetTo(k, v, n, t))
  PROVE  Parse(line) = IF t = 0 \/ t \in 1..MaxSeconds THEN SetTo(k, v, n, t) ELSE Invalid
<1>1. PICK w \in {"set", "SET"}, x \in {"ex", "EX"} :
        line \in IF t = 0 THEN Stored(w, k, v, n) ELSE Expiring(w, k, v, n, x, t)
  BY SetLines
<1>2. Upper(w) = "SET" /\ w \in Keywords /\ Upper(x) = "EX" /\ x \in Keywords
  BY <1>1, KeywordsThere
<1>3. \A p : Upper(Token(w, p).text) = "SET"
  BY <1>2, TokenParts
<1>4. CASE t = 0
  <2>1. line \in Stored(w, k, v, n)
    BY <1>1, <1>4
  <2>2. PICK p, q, r : Reads(line, <<Token(w, p), Token(k, q)>>, v, r) /\ Numeric(Token(v, r)) = n
    <3>1. ReadsSet(line, w, k, v, n)
      BY <1>2, <2>1, ReadsStored
    <3> QED BY <3>1 DEF ReadsSet
  <2> DEFINE a == Token(w, p)
             b == Token(k, q)
             c == Token(v, r)
             args == <<a, b, c>>
  <2> HIDE DEF a, b, c
  <2>3. Split(line).error = FALSE /\ Split(line).args = args
    <3>1. Split(line).error = FALSE /\ Split(line).args = Append(<<a, b>>, c)
      BY <2>2, ReadsSplit DEF a, b, c
    <3> QED BY <3>1, Tuples
  <2>4. args # << >> /\ args[1] = a
    OBVIOUS
  <2> HIDE DEF args
  <2>5. Parse(line) = ParseSet(args)
    BY <1>3, <2>3, <2>4, ParseBy DEF a
  <2>6. ParseSet(args) = SetTo(b.text, c.text, Numeric(c), 0)
    BY SetThree DEF args
  <2>7. b.text = k /\ c.text = v /\ Numeric(c) = n
    BY <2>2, TokenParts DEF b, c
  <2> QED BY <1>4, <2>5, <2>6, <2>7
<1>5. CASE t # 0
  <2>1. line \in Expiring(w, k, v, n, x, t)
    BY <1>1, <1>5
  <2>2. PICK l \in Then(Stored(w, k, v, n), {<<x>>}), s \in Lasting(t) : line = Spaced(l, s)
    BY <2>1, Joined DEF Expiring
  <2>3. PICK m \in Stored(w, k, v, n) : l = Spaced(m, <<x>>)
    BY <2>2, Joined
  <2>4. PICK d \in DOMAIN Seconds : Seconds[d] = t /\ s = <<d>>
    BY <2>2 DEF Lasting
  <2>5. PICK p, q, r : Reads(m, <<Token(w, p), Token(k, q)>>, v, r) /\ Numeric(Token(v, r)) = n
    <3>1. ReadsSet(m, w, k, v, n)
      BY <1>2, <2>3, ReadsStored
    <3> QED BY <3>1 DEF ReadsSet
  <2>13. PICK g : Says(<<x>>, x, g)
    BY <1>2, ReadsKeyword
  <2>14. PICK h : Says(<<d>>, d, h)
    BY <2>4, SaysPlain
  <2> DEFINE a == Token(w, p)
             b == Token(k, q)
             c == Token(v, r)
             e == Token(x, g)
             f == Token(d, h)
             args == <<a, b, c, e, f>>
  <2> HIDE DEF a, b, c, e, f
  <2>6. Reads(l, <<a, b, c>>, x, g)
    <3>1. Reads(l, Append(<<a, b>>, c), x, g)
      BY <2>3, <2>5, <2>13, ReadsNext DEF a, b, c
    <3> QED BY <3>1, Tuples
  <2>7. Reads(line, <<a, b, c, e>>, d, h)
    <3>1. Reads(line, Append(<<a, b, c>>, e), d, h)
      BY <2>2, <2>4, <2>6, <2>14, ReadsNext DEF e
    <3> QED BY <3>1, Tuples
  <2>8. Split(line).error = FALSE /\ Split(line).args = args
    <3>1. Split(line).error = FALSE /\ Split(line).args = Append(<<a, b, c, e>>, f)
      BY <2>7, ReadsSplit DEF f
    <3> QED BY <3>1, Tuples
  <2>9. args # << >> /\ args[1] = a
    OBVIOUS
  <2> HIDE DEF args
  <2>10. Parse(line) = ParseSet(args)
    BY <1>3, <2>8, <2>9, ParseBy DEF a
  <2>11. b.text = k /\ c.text = v /\ Numeric(c) = n /\ e.text = x /\ f.text = d
    BY <2>5, TokenParts DEF b, c, e, f
  <2>12. /\ Seconds[f.text] \in 1..MaxSeconds =>
              ParseSet(args) = SetTo(b.text, c.text, Numeric(c), Seconds[f.text])
         /\ Seconds[f.text] \notin 1..MaxSeconds => ParseSet(args) = Invalid
    <3>1. Upper(e.text) = "EX" /\ f.text \in DOMAIN Seconds
      BY <1>2, <2>4, <2>11
    <3> QED BY <3>1, SetFive DEF args
  <2> QED BY <1>5, <2>4, <2>10, <2>11, <2>12
<1> QED BY <1>4, <1>5

\* GET key and DELETE key.
LEMMA HearsOn ==
  ASSUME NEW d \in {"GET", "DELETE"}, NEW k \in Range(Texts), NEW line \in Written(On(d, k))
  PROVE  Parse(line) = On(d, k)
<1>1. PICK w \in (IF d = "GET" THEN {"get", "GET"} ELSE {"del", "delete", "DEL", "DELETE"}) :
        line \in Then({<<w>>}, Word(k))
  BY OnLines
<1>2. /\ w \in Keywords
      /\ d = "GET" => Upper(w) = "GET"
      /\ d = "DELETE" => Upper(w) \in {"DEL", "DELETE"}
  BY <1>1, KeywordsThere
<1>3. PICK v \in Word(k) : line = Spaced(<<w>>, v)
  BY <1>1, Joined
<1>4. PICK q : Says(v, k, q)
  BY <1>3, SaysWord
<1>10. PICK p : Reads(<<w>>, << >>, w, p)
  BY <1>2, ReadsKeyword
<1> DEFINE a == Token(w, p)
           b == Token(k, q)
           args == <<a, b>>
<1>5. a.text = w /\ b.text = k
  BY TokenParts
<1>6. Split(line).error = FALSE /\ Split(line).args = args
  <2>2. Reads(line, Append(<< >>, a), k, q)
    BY <1>3, <1>4, <1>10, ReadsNext
  <2>3. Reads(line, <<a>>, k, q)
    BY <2>2, Tuples, Zenon
  <2>4. Split(line).error = FALSE /\ Split(line).args = Append(<<a>>, b)
    BY <2>3, ReadsSplit
  <2> HIDE DEF a, b
  <2> QED BY <2>4, Tuples
<1> HIDE DEF a, b
<1>7. args # << >> /\ args[1] = a /\ args[2] = b /\ Len(args) = 2
  OBVIOUS
<1> HIDE DEF args
<1> DEFINE kind == Upper(w)
<1>8. kind = Upper(args[1].text)
  BY <1>5, <1>7
<1> HIDE DEF kind
<1>9. /\ kind = "GET" /\ Len(args) = 2 => Parse(line) = On("GET", args[2].text)
      /\ kind \in {"DELETE", "DEL"} /\ Len(args) = 2 => Parse(line) = On("DELETE", args[2].text)
  BY <1>6, <1>7, <1>8, ParseBy
<1> QED BY <1>2, <1>5, <1>7, <1>9 DEF kind

LEMMA HearsPing ==
  ASSUME NEW line \in Written(Ping)
  PROVE  Parse(line) = Ping
<1>1. PICK w \in {"ping", "PING"} : line = <<w>>
  BY PingLines
<1>2. w \in Keywords /\ Upper(w) = "PING"
  BY <1>1, KeywordsThere
<1>5. PICK p : Reads(line, << >>, w, p)
  BY <1>1, <1>2, ReadsKeyword
<1> DEFINE a == Token(w, p)
           args == <<a>>
<1>6. a.text = w
  BY TokenParts
<1>3. Split(line).error = FALSE /\ Split(line).args = args
  <2>1. Split(line).error = FALSE /\ Split(line).args = Append(<< >>, a)
    BY <1>5, ReadsSplit
  <2> HIDE DEF a
  <2> QED BY <2>1, Tuples
<1> HIDE DEF a
<1>4. args # << >> /\ args[1] = a /\ Len(args) = 1
  OBVIOUS
<1> HIDE DEF args
<1> QED BY <1>2, <1>3, <1>4, <1>6, ParseBy

\* One keyword more.
LEMMA ReadsOneMore ==
  ASSUME NEW line, NEW args, NEW word, NEW quoted, Reads(line, args, word, quoted),
         NEW w \in Keywords
  PROVE  \E q : Reads(Spaced(line, <<w>>), Append(args, Token(word, quoted)), w, q)
<1>1. PICK q : Says(<<w>>, w, q)
  BY ReadsKeyword
<1> QED BY <1>1, ReadsNext

\* The last word of a search.
LEMMA SaysOperand ==
  ASSUME NEW t \in Range(Texts), NEW n \in BOOLEAN, n = TRUE => t \in DOMAIN Number,
         NEW f, f \in {"key", "value"}, n = TRUE => f = "value",
         NEW v, v \in IF f = "value" THEN Literal(t, n) ELSE Word(t)
  PROVE  \E q : Says(v, t, q) /\ (f = "value" /\ Numeric(Token(t, q))) = n
<1>1. CASE f = "value"
  <2>1. PICK q : Says(v, t, q) /\ Numeric(Token(t, q)) = n
    BY <1>1, SaysLiteral
  <2>2. (f = "value" /\ Numeric(Token(t, q))) = n
    BY <1>1, <2>1
  <2> QED BY <2>1, <2>2
<1>2. CASE f # "value"
  <2>1. PICK q : Says(v, t, q)
    BY <1>2, SaysWord
  <2>2. (f = "value" /\ Numeric(Token(t, q))) = FALSE /\ n = FALSE
    BY <1>2
  <2> QED BY <2>1, <2>2
<1> QED BY <1>1, <1>2

\* What can be searched for.
Wanted(f, o, t, n) ==
  /\ f \in {"key", "value"} /\ o \in {"equals", "contains", ">", ">=", "<", "<="}
  /\ t \in Range(Texts) /\ n \in BOOLEAN
  /\ n = TRUE => t \in DOMAIN Number /\ f = "value"

LEMMA HearsWhere ==
  ASSUME NEW f, NEW o, NEW t, NEW n, Wanted(f, o, t, n), NEW line \in Written(Search(f, o, t, n))
  PROVE  Parse(line) = Search(f, o, t, n)
<1> SUFFICES ASSUME f \in {"key", "value"}, o \in {"equals", "contains", ">", ">=", "<", "<="},
                    t \in Range(Texts), n \in BOOLEAN, n = TRUE => t \in DOMAIN Number /\ f = "value"
             PROVE  Parse(line) = Search(f, o, t, n)
  BY DEF Wanted
<1> DEFINE last == IF f = "value" THEN Literal(t, n) ELSE Word(t)
<1> HIDE DEF last
<1>1. PICK w \in {"get", "GET"}, x \in {"where", "WHERE"}, g \in {f, Upper(f)}, p \in {o, Upper(o)} :
        line \in Where(w, x, g, p, last)
  BY WhereLines DEF last
<1>2. Upper(w) = "GET" /\ w \in Keywords /\ Upper(x) = "WHERE" /\ x \in Keywords
  BY <1>1, KeywordsThere
<1>3. Lower(g) = f /\ g \in Keywords /\ Lower(p) = o /\ p \in Keywords
  <2>1. f \in DOMAIN Capital /\ (o \in DOMAIN Capital \/ o \in {">", ">=", "<", "<="})
    BY DEF Capital
  <2>2. \A y \in DOMAIN Capital : y \in Keywords /\ Upper(y) \in Keywords
                                  /\ Lower(y) = y /\ Lower(Upper(y)) = y
    <3>1. \A y \in DOMAIN Capital : y \in Keywords /\ Capital[y] \in Keywords
      BY DEF Keywords, Range
    <3> QED BY <3>1, Letters
  <2>3. \A y \in {">", ">=", "<", "<="} : y \in Keywords /\ Upper(y) = y /\ Lower(y) = y
    <3>1. {">", ">=", "<", "<="} \subseteq Keywords
      BY DEF Keywords
    <3> QED BY <3>1, Letters
  <2> QED BY <1>1, <2>1, <2>2, <2>3, Zenon
<1> DEFINE one == Then({<<w>>}, {<<x>>})
           two == Then(one, {<<g>>})
           three == Then(two, {<<p>>})
<1>4. PICK l3 \in three, v \in last : line = Spaced(l3, v)
  BY <1>1, Joined DEF Where
<1>5. PICK l2 \in two : l3 = Spaced(l2, <<p>>)
  BY <1>4, Joined
<1>6. PICK l1 \in one : l2 = Spaced(l1, <<g>>)
  BY <1>5, Joined
<1>7. l1 = Spaced(<<w>>, <<x>>)
  BY <1>6, Joined
<1> HIDE DEF one, two, three
<1>8. PICK q5 : Says(v, t, q5) /\ (f = "value" /\ Numeric(Token(t, q5))) = n
  <2>1. v \in last /\ (n = TRUE => t \in DOMAIN Number) /\ (n = TRUE => f = "value")
    BY <1>4
  <2> QED BY <2>1, SaysOperand DEF last
<1>9. PICK q1 : Reads(<<w>>, << >>, w, q1)
  BY <1>2, ReadsKeyword
<1>10. PICK q2 : Reads(l1, Append(<< >>, Token(w, q1)), x, q2)
  BY <1>2, <1>7, <1>9, ReadsOneMore
<1> DEFINE a == Token(w, q1)
           b == Token(x, q2)
<1> HIDE DEF a, b
<1>11. Reads(l1, <<a>>, x, q2)
  BY <1>10, Tuples, Zenon DEF a
<1>12. PICK q3 : Reads(l2, Append(<<a>>, b), g, q3)
  BY <1>3, <1>6, <1>11, ReadsOneMore DEF b
<1> DEFINE c == Token(g, q3)
<1> HIDE DEF c
<1>13. Reads(l2, <<a, b>>, g, q3)
  BY <1>12, Tuples, Zenon
<1>14. PICK q4 : Reads(l3, Append(<<a, b>>, c), p, q4)
  BY <1>3, <1>5, <1>13, ReadsOneMore DEF c
<1> DEFINE d == Token(p, q4)
           e == Token(t, q5)
           args == <<a, b, c, d, e>>
<1> HIDE DEF d, e
<1>15. Reads(l3, <<a, b, c>>, p, q4)
  BY <1>14, Tuples, Zenon
<1>16. Reads(line, <<a, b, c, d>>, t, q5)
  <2>1. Reads(line, Append(<<a, b, c>>, d), t, q5)
    BY <1>4, <1>8, <1>15, ReadsNext DEF d
  <2> QED BY <2>1, Tuples, Zenon
<1>17. Split(line).error = FALSE /\ Split(line).args = args
  <2>1. Split(line).error = FALSE /\ Split(line).args = Append(<<a, b, c, d>>, e)
    BY <1>16, ReadsSplit DEF e
  <2> QED BY <2>1, Tuples
<1>18. args # << >> /\ args[1] = a /\ args[2] = b /\ Len(args) = 5
  OBVIOUS
<1>19. a.text = w /\ b.text = x /\ c.text = g /\ d.text = p /\ e.text = t
  BY TokenParts DEF a, b, c, d, e
<1>20. ParseWhere(args) = Search(f, o, t, n)
  <2>1. ParseWhere(args) = Search(f, o, e.text, f = "value" /\ Numeric(e))
    BY <1>3, <1>19, WhereFive
  <2>2. (f = "value" /\ Numeric(e)) = n
    BY <1>8 DEF e
  <2> QED BY <1>19, <2>1, <2>2
<1> HIDE DEF args
<1>21. Parse(line) = ParseWhere(args)
  <2>1. Upper(args[1].text) = "GET" /\ Upper(args[2].text) = "WHERE" /\ Len(args) > 2
    BY <1>2, <1>18, <1>19
  <2> QED BY <1>17, <1>18, <2>1, ParseBy
<1> QED BY <1>20, <1>21

----------------------------------------------------------------------------
(* What forgetting does                                                    *)

Sound(s) == DOMAIN s = Kept /\ s.quote \in Quotations \cup {NoText}

\* How a piece changes the quotation that the loop is in.
Turned(quote, piece) ==
  IF quote = NoText THEN IF piece \in Quotations THEN piece ELSE NoText
  ELSE IF piece = quote THEN NoText ELSE quote

LEMMA QuoteStep ==
  ASSUME NEW s, Sound(s), NEW piece
  PROVE  Sound(Scan(s, piece)) /\ Scan(s, piece).quote = Turned(s.quote, piece)
<1> DEFINE r == Scan(s, piece)
<1>1. DOMAIN s = Kept /\ s.quote \in Quotations \cup {NoText}
  BY DEF Sound
<1>2. CASE s.quote \in Quotations
  <2>1. /\ DOMAIN r = Kept /\ piece = s.quote => r.quote = NoText
        /\ piece # s.quote => r.quote = s.quote
    BY <1>1, <1>2, MarkCloses
  <2>2. DOMAIN r = Kept
    BY <1>1, <1>2, MarkCloses
  <2>3. s.quote # NoText
    BY <1>2, Marks
  <2> HIDE DEF r
  <2>4. r.quote = IF piece = s.quote THEN NoText ELSE s.quote
    BY <2>1, <2>2
  <2> QED BY <1>2, <2>2, <2>3, <2>4 DEF Sound, Turned, r
<1>3. CASE s.quote = NoText /\ piece \in Quotations
  <2>1. DOMAIN r = Kept /\ r.quote = piece
    BY <1>1, <1>3, MarkOpens
  <2> HIDE DEF r
  <2> QED BY <1>3, <2>1 DEF Sound, Turned, r
<1>4. CASE s.quote = NoText /\ piece \in Blanks
  <2>1. DOMAIN r = Kept /\ r.quote = NoText
    <3>1. CASE s.started
      BY <1>1, <1>4, <3>1, BlankEnds
    <3>2. CASE ~s.started
      <4>1. r = s
        BY <1>1, <1>4, <3>2, BlankEnds
      <4> QED BY <1>1, <1>4, <4>1
    <3> QED BY <3>1, <3>2
  <2>2. piece \notin Quotations
    BY <1>4, Marks
  <2> HIDE DEF r
  <2> QED BY <1>4, <2>1, <2>2 DEF Sound, Turned, r
<1>5. CASE s.quote = NoText /\ piece \notin Quotations \cup Blanks
  <2>1. DOMAIN r = Kept /\ r.quote = NoText
    BY <1>1, <1>5, PieceContinues
  <2> HIDE DEF r
  <2> QED BY <1>5, <2>1 DEF Sound, Turned, r
<1> QED BY <1>1, <1>2, <1>3, <1>4, <1>5

\* Two readings of the same pieces that are once in different quotations stay so.
LEMMA TurnedApart ==
  ASSUME NEW p \in Quotations \cup {NoText}, NEW q \in Quotations \cup {NoText}, p # q, NEW piece
  PROVE  Turned(p, piece) # Turned(q, piece)
BY Marks DEF Turned

LEMMA SoundEnd ==
  ASSUME NEW s, Sound(s), NEW line, Len(line) \in Nat
  PROVE  \A f : IsRun(f, s, line) => \A n \in 0..Len(line) : Sound(f[n])
<1> SUFFICES ASSUME NEW f, IsRun(f, s, line) PROVE \A n \in 0..Len(line) : Sound(f[n])
  OBVIOUS
<1> DEFINE Not == {n \in 0..Len(line) : ~Sound(f[n])}
<1> SUFFICES ASSUME Not # {} PROVE FALSE
  OBVIOUS
<1>1. PICK m \in Not : \A n \in Not : m <= n
  <2>1. Not \subseteq Nat
    OBVIOUS
  <2> HIDE DEF Not
  <2> QED BY <2>1, LeastNat
<1>2. m # 0
  BY DEF IsRun
<1>3. m - 1 \in 0..Len(line) /\ m \in 1..Len(line) /\ ~(m <= m - 1)
  BY <1>2
<1>4. m - 1 \notin Not
  BY <1>1, <1>3
<1>5. Sound(f[m - 1])
  BY <1>3, <1>4
<1>6. f[m] = Scan(f[m - 1], line[m])
  BY <1>3 DEF IsRun
<1> QED BY <1>5, <1>6, QuoteStep

LEMMA QuotesApart ==
  ASSUME NEW s, Sound(s), NEW t, Sound(t), s.quote # t.quote, NEW line, Len(line) \in Nat
  PROVE  /\ Sound(Scanned(s, line)) /\ Sound(Scanned(t, line))
         /\ Scanned(s, line).quote # Scanned(t, line).quote
<1>1. PICK f : IsRun(f, s, line) /\ Scanned(s, line) = f[Len(line)]
  BY ScannedIs
<1>2. PICK g : IsRun(g, t, line) /\ Scanned(t, line) = g[Len(line)]
  BY ScannedIs
<1>3. \A n \in 0..Len(line) : Sound(f[n]) /\ Sound(g[n])
  BY <1>1, <1>2, SoundEnd
<1> DEFINE Same == {n \in 0..Len(line) : f[n].quote = g[n].quote}
<1>4. Same = {}
  <2> SUFFICES ASSUME Same # {} PROVE FALSE
    OBVIOUS
  <2>1. PICK m \in Same : \A n \in Same : m <= n
    <3>1. Same \subseteq Nat
      OBVIOUS
    <3> HIDE DEF Same
    <3> QED BY <3>1, LeastNat
  <2>2. m # 0
    BY <1>1, <1>2 DEF IsRun
  <2>3. m - 1 \in 0..Len(line) /\ m \in 1..Len(line) /\ ~(m <= m - 1)
    BY <2>2
  <2>4. m - 1 \notin Same
    BY <2>1, <2>3
  <2>5. f[m - 1].quote # g[m - 1].quote
    BY <2>3, <2>4
  <2>6. f[m].quote = Turned(f[m - 1].quote, line[m]) /\ g[m].quote = Turned(g[m - 1].quote, line[m])
    BY <1>1, <1>2, <1>3, <2>3, QuoteStep DEF IsRun
  <2>7. f[m - 1].quote \in Quotations \cup {NoText} /\ g[m - 1].quote \in Quotations \cup {NoText}
    BY <1>3, <2>3 DEF Sound
  <2>8. f[m].quote # g[m].quote
    BY <2>5, <2>6, <2>7, TurnedApart
  <2> QED BY <2>8
<1>5. Len(line) \in 0..Len(line)
  OBVIOUS
<1> QED BY <1>1, <1>2, <1>3, <1>4, <1>5

----------------------------------------------------------------------------
(* Forgetting a piece of a line in parts                                   *)

\* A part of a line.
LEMMA PartOf ==
  ASSUME NEW a \in Lines, NEW i \in Nat, NEW j \in Nat, 1 <= i, i <= j + 1, j <= Len(a)
  PROVE  /\ SubSeq(a, i, j) \in Lines /\ Len(SubSeq(a, i, j)) = j - i + 1
         /\ \A n \in 1..(j - i + 1) : SubSeq(a, i, j)[n] = a[i + n - 1]
BY DEF Lines

Cut(line, pre, x, post) == line = (pre \o <<x>>) \o post

\* A piece of two parts is a piece of one of them.
LEMMA CutJoin ==
  ASSUME NEW a \in Lines, NEW b \in Lines, NEW pre \in Lines, NEW x \in Alphabet, NEW post \in Lines,
         Cut(a \o b, pre, x, post)
  PROVE  \/ \E mid \in Lines : Cut(a, pre, x, mid) /\ post = mid \o b
         \/ \E mid \in Lines : pre = a \o mid /\ Cut(b, mid, x, post)
<1>0. a \o b = (pre \o <<x>>) \o post
  BY DEF Cut
<1> DEFINE one == <<x>>
           upto == pre \o one
<1>1. one \in Lines /\ Len(one) = 1 /\ one[1] = x
  BY OnePiece DEF Lines
<1> HIDE DEF one
<1>2. /\ upto \in Lines /\ Len(upto) = Len(pre) + 1 /\ Len(pre) \in Nat
      /\ \A n \in 1..Len(pre) : upto[n] = pre[n]
      /\ upto[Len(pre) + 1] = x
  <2>1. /\ upto \in Lines /\ Len(upto) = Len(pre) + Len(one) /\ Len(pre) \in Nat
        /\ \A n \in 1..Len(pre) : upto[n] = pre[n]
        /\ \A n \in 1..Len(one) : upto[Len(pre) + n] = one[n]
    BY <1>1, JoinParts
  <2> HIDE DEF upto
  <2> QED BY <1>1, <2>1
<1> HIDE DEF upto
<1>3. /\ Len(a) + Len(b) = Len(pre) + 1 + Len(post) /\ Len(a) \in Nat /\ Len(b) \in Nat
      /\ Len(post) \in Nat
  <2>1. Len(a \o b) = Len(a) + Len(b) /\ Len(upto \o post) = Len(upto) + Len(post)
        /\ Len(a) \in Nat /\ Len(b) \in Nat /\ Len(post) \in Nat
    BY <1>2, JoinParts
  <2> QED BY <1>0, <1>2, <2>1 DEF upto, one
<1> DEFINE line == a \o b
<1>4. /\ \A n \in 1..Len(a) : line[n] = a[n]
      /\ \A n \in 1..Len(b) : line[Len(a) + n] = b[n]
  BY JoinParts
<1>5. /\ \A n \in 1..Len(upto) : line[n] = upto[n]
      /\ \A n \in 1..Len(post) : line[Len(upto) + n] = post[n]
  <2>1. line = upto \o post
    BY <1>0 DEF upto, one
  <2>2. /\ \A n \in 1..Len(upto) : (upto \o post)[n] = upto[n]
        /\ \A n \in 1..Len(post) : (upto \o post)[Len(upto) + n] = post[n]
    BY <1>2, JoinParts
  <2> HIDE DEF line
  <2> QED BY <2>1, <2>2
<1> HIDE DEF line
<1>6. CASE Len(upto) <= Len(a)
  <2> DEFINE mid == SubSeq(a, Len(upto) + 1, Len(a))
  <2>1. /\ mid \in Lines /\ Len(mid) = Len(a) - Len(upto)
        /\ \A n \in 1..(Len(a) - Len(upto)) : mid[n] = a[Len(upto) + n]
    <3>1. Len(upto) + 1 \in Nat /\ 1 <= Len(upto) + 1 /\ Len(upto) + 1 <= Len(a) + 1
      BY <1>2, <1>3, <1>6
    <3>2. /\ mid \in Lines /\ Len(mid) = Len(a) - (Len(upto) + 1) + 1
          /\ \A n \in 1..(Len(a) - (Len(upto) + 1) + 1) : mid[n] = a[Len(upto) + 1 + n - 1]
      BY <1>3, <3>1, PartOf
    <3> QED BY <1>2, <1>3, <3>2
  <2> HIDE DEF mid
  <2>2. a = upto \o mid
    <3>1. /\ upto \o mid \in Lines /\ Len(upto \o mid) = Len(a)
          /\ \A n \in 1..Len(upto) : (upto \o mid)[n] = upto[n]
          /\ \A n \in 1..Len(mid) : (upto \o mid)[Len(upto) + n] = mid[n]
      <4>1. /\ upto \o mid \in Lines /\ Len(upto \o mid) = Len(upto) + Len(mid)
            /\ \A n \in 1..Len(upto) : (upto \o mid)[n] = upto[n]
            /\ \A n \in 1..Len(mid) : (upto \o mid)[Len(upto) + n] = mid[n]
        BY <1>2, <2>1, JoinParts
      <4>2. Len(upto) + Len(mid) = Len(a)
        BY <1>2, <1>3, <2>1
      <4> QED BY <4>1, <4>2
    <3>2. ASSUME NEW n \in 1..Len(a) PROVE a[n] = (upto \o mid)[n]
      <4>1. CASE n <= Len(upto)
        <5>1. n \in 1..Len(upto)
          BY <1>2, <1>3, <4>1
        <5> QED BY <1>4, <1>5, <3>1, <5>1
      <4>2. CASE ~(n <= Len(upto))
        <5> DEFINE m == n - Len(upto)
        <5>1. m \in 1..(Len(a) - Len(upto)) /\ n = Len(upto) + m
          BY <1>2, <1>3, <4>2
        <5> HIDE DEF m
        <5> QED BY <2>1, <3>1, <5>1
      <4> QED BY <4>1, <4>2
    <3> QED BY <3>1, <3>2, SameLine
  <2>3. post = mid \o b
    <3>1. /\ mid \o b \in Lines /\ Len(mid \o b) = Len(post)
          /\ \A n \in 1..Len(mid) : (mid \o b)[n] = mid[n]
          /\ \A n \in 1..Len(b) : (mid \o b)[Len(mid) + n] = b[n]
      <4>1. /\ mid \o b \in Lines /\ Len(mid \o b) = Len(mid) + Len(b)
            /\ \A n \in 1..Len(mid) : (mid \o b)[n] = mid[n]
            /\ \A n \in 1..Len(b) : (mid \o b)[Len(mid) + n] = b[n]
        BY <2>1, JoinParts
      <4>2. Len(mid) + Len(b) = Len(post)
        BY <1>2, <1>3, <2>1
      <4> QED BY <4>1, <4>2
    <3>2. ASSUME NEW n \in 1..Len(post) PROVE post[n] = (mid \o b)[n]
      <4>0. post[n] = line[Len(upto) + n]
        BY <1>5
      <4>1. CASE n <= Len(mid)
        <5>1. n \in 1..Len(mid) /\ Len(upto) + n \in 1..Len(a) /\ n \in 1..(Len(a) - Len(upto))
          BY <1>2, <1>3, <2>1, <4>1
        <5> QED BY <1>4, <2>1, <3>1, <4>0, <5>1
      <4>2. CASE ~(n <= Len(mid))
        <5> DEFINE m == n - Len(mid)
        <5>1. m \in 1..Len(b) /\ n = Len(mid) + m /\ Len(upto) + n = Len(a) + m
          BY <1>2, <1>3, <1>6, <2>1, <4>2
        <5> HIDE DEF m
        <5> QED BY <1>4, <3>1, <4>0, <5>1
      <4> QED BY <4>1, <4>2
    <3> QED BY <3>1, <3>2, SameLine
  <2> QED BY <2>1, <2>2, <2>3 DEF upto, one, Cut
<1>7. CASE ~(Len(upto) <= Len(a))
  <2> DEFINE mid == SubSeq(pre, Len(a) + 1, Len(pre))
  <2>1. /\ mid \in Lines /\ Len(mid) = Len(pre) - Len(a)
        /\ \A n \in 1..(Len(pre) - Len(a)) : mid[n] = pre[Len(a) + n]
    <3>1. Len(a) + 1 \in Nat /\ 1 <= Len(a) + 1 /\ Len(a) + 1 <= Len(pre) + 1
      BY <1>2, <1>3, <1>7
    <3>2. /\ mid \in Lines /\ Len(mid) = Len(pre) - (Len(a) + 1) + 1
          /\ \A n \in 1..(Len(pre) - (Len(a) + 1) + 1) : mid[n] = pre[Len(a) + 1 + n - 1]
      BY <1>2, <3>1, PartOf
    <3> QED BY <1>2, <1>3, <3>2
  <2> HIDE DEF mid
  <2>2. pre = a \o mid
    <3>1. /\ a \o mid \in Lines /\ Len(a \o mid) = Len(pre)
          /\ \A n \in 1..Len(a) : (a \o mid)[n] = a[n]
          /\ \A n \in 1..Len(mid) : (a \o mid)[Len(a) + n] = mid[n]
      <4>1. /\ a \o mid \in Lines /\ Len(a \o mid) = Len(a) + Len(mid)
            /\ \A n \in 1..Len(a) : (a \o mid)[n] = a[n]
            /\ \A n \in 1..Len(mid) : (a \o mid)[Len(a) + n] = mid[n]
        BY <2>1, JoinParts
      <4>2. Len(a) + Len(mid) = Len(pre)
        BY <1>2, <1>3, <2>1
      <4> QED BY <4>1, <4>2
    <3>2. ASSUME NEW n \in 1..Len(pre) PROVE pre[n] = (a \o mid)[n]
      <4>1. CASE n <= Len(a)
        <5>1. n \in 1..Len(a) /\ n \in 1..Len(upto)
          BY <1>2, <1>3, <4>1
        <5> QED BY <1>2, <1>4, <1>5, <3>1, <5>1
      <4>2. CASE ~(n <= Len(a))
        <5> DEFINE m == n - Len(a)
        <5>1. m \in 1..(Len(pre) - Len(a)) /\ n = Len(a) + m
          BY <1>2, <1>3, <4>2
        <5> HIDE DEF m
        <5> QED BY <2>1, <3>1, <5>1
      <4> QED BY <4>1, <4>2
    <3> QED BY <3>1, <3>2, SameLine
  <2>3. b = (mid \o one) \o post
    <3> DEFINE front == mid \o one
    <3>1. /\ front \in Lines /\ Len(front) = Len(mid) + 1 /\ Len(mid) \in Nat
          /\ \A n \in 1..Len(mid) : front[n] = mid[n]
          /\ front[Len(mid) + 1] = x
      <4>1. /\ front \in Lines /\ Len(front) = Len(mid) + Len(one) /\ Len(mid) \in Nat
            /\ \A n \in 1..Len(mid) : front[n] = mid[n]
            /\ \A n \in 1..Len(one) : front[Len(mid) + n] = one[n]
        BY <1>1, <2>1, JoinParts
      <4> HIDE DEF front
      <4> QED BY <1>1, <4>1
    <3> HIDE DEF front
    <3>2. /\ front \o post \in Lines /\ Len(front \o post) = Len(b)
          /\ \A n \in 1..Len(front) : (front \o post)[n] = front[n]
          /\ \A n \in 1..Len(post) : (front \o post)[Len(front) + n] = post[n]
      <4>1. /\ front \o post \in Lines /\ Len(front \o post) = Len(front) + Len(post)
            /\ \A n \in 1..Len(front) : (front \o post)[n] = front[n]
            /\ \A n \in 1..Len(post) : (front \o post)[Len(front) + n] = post[n]
        BY <3>1, JoinParts
      <4> QED BY <1>2, <1>3, <2>1, <3>1, <4>1
    <3>3. ASSUME NEW n \in 1..Len(b) PROVE b[n] = (front \o post)[n]
      <4>0. b[n] = line[Len(a) + n]
        BY <1>4
      <4>1. CASE n <= Len(front)
        <5>1. n \in 1..Len(front) /\ Len(a) + n \in 1..Len(upto)
          BY <1>2, <1>3, <2>1, <3>1, <4>1
        <5>2. b[n] = upto[Len(a) + n] /\ (front \o post)[n] = front[n]
          BY <1>5, <3>2, <4>0, <5>1
        <5>3. CASE n = Len(mid) + 1
          <6>1. Len(a) + n = Len(pre) + 1
            BY <1>2, <1>3, <2>1, <5>3
          <6> QED BY <1>2, <3>1, <5>2, <5>3, <6>1
        <5>4. CASE n # Len(mid) + 1
          <6>1. n \in 1..Len(mid) /\ Len(a) + n \in 1..Len(pre)
            BY <1>2, <1>3, <2>1, <3>1, <4>1, <5>4
          <6> QED BY <1>2, <2>1, <3>1, <5>2, <6>1
        <5> QED BY <5>3, <5>4
      <4>2. CASE ~(n <= Len(front))
        <5> DEFINE m == n - Len(front)
        <5>1. m \in 1..Len(post) /\ n = Len(front) + m /\ Len(a) + n = Len(upto) + m
          BY <1>2, <1>3, <2>1, <3>1, <4>2
        <5> HIDE DEF m
        <5> QED BY <1>5, <3>2, <4>0, <5>1
      <4> QED BY <4>1, <4>2
    <3>4. b = front \o post
      BY <3>2, <3>3, SameLine
    <3> QED BY <3>4 DEF front
  <2> QED BY <2>1, <2>2, <2>3 DEF one, Cut
<1> QED BY <1>6, <1>7

\* rest is left of a line, read from s on, when a piece outside of marks, or a
\* mark, is forgotten.
Left(rest, s, line) ==
  \E pre \in Lines, x \in Alphabet, post \in Lines :
    /\ Cut(line, pre, x, post) /\ rest = pre \o post
    /\ Scanned(s, pre).quote \in {NoText, x}

LEMMA OneLine == \A x \in Alphabet : <<x>> \in Lines
BY OnePiece DEF Lines

LEMMA ScannedNext ==
  ASSUME NEW s, NEW a \in Lines, NEW b \in Lines
  PROVE  Scanned(s, a \o b) = Scanned(Scanned(s, a), b)
BY ScannedJoin DEF Lines

LEMMA ScannedNone == \A s : Scanned(s, << >>) = s
<1> SUFFICES ASSUME NEW s PROVE Scanned(s, << >>) = s
  OBVIOUS
<1>1. Len(<< >>) = 0
  OBVIOUS
<1>2. PICK f : IsRun(f, s, << >>) /\ Scanned(s, << >>) = f[0]
  BY <1>1, ScannedIs
<1> QED BY <1>2 DEF IsRun

LeftOfParts(rest, s, a, b) ==
  \/ \E r \in Lines : Left(r, s, a) /\ rest = r \o b
  \/ \E r \in Lines : Left(r, Scanned(s, a), b) /\ rest = a \o r

\* What is left of a line in two parts.
LEMMA LeftJoin ==
  ASSUME NEW s, NEW a \in Lines, NEW b \in Lines, NEW rest, Left(rest, s, a \o b)
  PROVE  LeftOfParts(rest, s, a, b)
<1>1. PICK pre \in Lines, x \in Alphabet, post \in Lines :
        /\ Cut(a \o b, pre, x, post) /\ rest = pre \o post
        /\ Scanned(s, pre).quote \in {NoText, x}
  BY DEF Left
<1>2. \/ \E mid \in Lines : Cut(a, pre, x, mid) /\ post = mid \o b
      \/ \E mid \in Lines : pre = a \o mid /\ Cut(b, mid, x, post)
  BY <1>1, CutJoin
<1>3. CASE \E mid \in Lines : Cut(a, pre, x, mid) /\ post = mid \o b
  <2>1. PICK mid \in Lines : Cut(a, pre, x, mid) /\ post = mid \o b
    BY <1>3
  <2>2. Left(pre \o mid, s, a)
    BY <1>1, <2>1 DEF Left
  <2>3. pre \o mid \in Lines
    BY <1>1, <2>1, JoinParts
  <2>4. rest = (pre \o mid) \o b
    BY <1>1, <2>1, JoinAgain
  <2> QED BY <2>2, <2>3, <2>4 DEF LeftOfParts
<1>4. CASE \E mid \in Lines : pre = a \o mid /\ Cut(b, mid, x, post)
  <2>1. PICK mid \in Lines : pre = a \o mid /\ Cut(b, mid, x, post)
    BY <1>4
  <2>2. Scanned(s, pre) = Scanned(Scanned(s, a), mid)
    BY <2>1, ScannedNext
  <2>3. Left(mid \o post, Scanned(s, a), b)
    BY <1>1, <2>1, <2>2 DEF Left
  <2>4. mid \o post \in Lines
    BY <1>1, <2>1, JoinParts
  <2>5. rest = a \o (mid \o post)
    BY <1>1, <2>1, JoinAgain
  <2> QED BY <2>3, <2>4, <2>5 DEF LeftOfParts
<1> QED BY <1>2, <1>3, <1>4

\* Of one piece nothing is left.
LEMMA LeftOne ==
  ASSUME NEW s, NEW x \in Alphabet, NEW rest, Left(rest, s, <<x>>)
  PROVE  rest = << >>
<1>1. PICK pre \in Lines, y \in Alphabet, post \in Lines :
        <<x>> = (pre \o <<y>>) \o post /\ rest = pre \o post
  BY DEF Left, Cut
<1> DEFINE one == <<y>>
           all == <<x>>
<1>2. one \in Lines /\ Len(one) = 1 /\ Len(all) = 1
  BY <1>1, OneLine
<1> HIDE DEF one, all
<1>3. /\ pre \o one \in Lines /\ Len(pre \o one) = Len(pre) + Len(one)
      /\ Len(pre) \in Nat /\ Len(post) \in Nat
  BY <1>2, JoinParts
<1>4. Len((pre \o one) \o post) = Len(pre \o one) + Len(post)
  BY <1>3, JoinParts
<1>5. Len(pre) = 0 /\ Len(post) = 0
  BY <1>1, <1>2, <1>3, <1>4 DEF one, all
<1>6. pre = << >> /\ post = << >>
  BY <1>5 DEF Lines
<1> QED BY <1>1, <1>6

\* Between marks nothing is forgotten.
LEMMA LeftQuoted ==
  ASSUME NEW s, DOMAIN s = Kept, s.quote \in Quotations,
         NEW p \in Lines, \A n \in 1..Len(p) : p[n] # s.quote
  PROVE  \A rest : ~Left(rest, s, p)
<1> SUFFICES ASSUME NEW rest, Left(rest, s, p) PROVE FALSE
  OBVIOUS
<1>1. PICK pre \in Lines, x \in Alphabet, post \in Lines :
        /\ p = (pre \o <<x>>) \o post
        /\ Scanned(s, pre).quote \in {NoText, x}
  BY DEF Left, Cut
<1> DEFINE one == <<x>>
           upto == pre \o one
<1>2. one \in Lines /\ Len(one) = 1 /\ one[1] = x
  BY <1>1, OneLine
<1> HIDE DEF one
<1>3. /\ upto \in Lines /\ Len(upto) = Len(pre) + Len(one) /\ Len(pre) \in Nat
      /\ \A n \in 1..Len(pre) : upto[n] = pre[n]
      /\ \A n \in 1..Len(one) : upto[Len(pre) + n] = one[n]
  BY <1>2, JoinParts
<1> HIDE DEF upto
<1>4. /\ Len(p) = Len(upto) + Len(post) /\ Len(post) \in Nat
      /\ \A n \in 1..Len(upto) : p[n] = upto[n]
  <2>1. p = upto \o post
    BY <1>1 DEF upto, one
  <2> QED BY <1>3, <2>1, JoinParts
<1>5. upto[Len(pre) + 1] = x /\ Len(upto) = Len(pre) + 1
  BY <1>2, <1>3
<1>6. x # s.quote
  <2>1. Len(pre) + 1 \in 1..Len(upto) /\ Len(pre) + 1 \in 1..Len(p)
    BY <1>3, <1>4, <1>5
  <2> QED BY <1>4, <1>5, <2>1
<1>7. \A n \in 1..Len(pre) : pre[n] # s.quote
  <2>1. \A n \in 1..Len(pre) : n \in 1..Len(upto) /\ n \in 1..Len(p)
    BY <1>3, <1>4, <1>5
  <2> QED BY <1>3, <1>4, <2>1
<1>8. Scanned(s, pre).quote = s.quote
  <2>1. pre \in Seq(Alphabet)
    BY DEF Lines
  <2> QED BY <1>7, <2>1, QuotedText
<1>9. s.quote # NoText
  BY Marks
<1> QED BY <1>1, <1>6, <1>8, <1>9

----------------------------------------------------------------------------
(* Forgetting a piece of a word                                            *)

\* v writes the text t of the pieces p, with marks or without.
Wording(v, t, p) ==
  /\ p \in Lines /\ TextOf(p) = t
  /\ \/ v = <<t>> /\ p = <<t>> /\ t \in Alphabet \ (Quotations \cup Blanks)
     \/ \E q \in Quotations : /\ v = (<<q>> \o p) \o <<q>>
                              /\ \A n \in 1..Len(p) : p[n] # q

LEMMA WordingPlain ==
  ASSUME NEW t, \/ t \in Range(Texts) \ DOMAIN Spelled
                \/ t \in DOMAIN Seconds
                \/ t \in Keywords
  PROVE  Wording(<<t>>, t, <<t>>)
<1>1. t \notin Quotations \cup Blanks /\ TextOf(<<t>>) = t
  BY BareAssumption
<1>2. t \in Alphabet
  BY DEF Alphabet
<1>3. <<t>> \in Lines
  BY <1>2, OneLine
<1> QED BY <1>1, <1>2, <1>3 DEF Wording

LEMMA WordingQuoted ==
  ASSUME NEW t \in Range(Texts), NEW v \in InQuotes(t)
  PROVE  Wording(v, t, Pieces(t))
<1>1. PICK q \in Quotations : q \notin Range(Pieces(t)) /\ v = <<q>> \o Pieces(t) \o <<q>>
  BY DEF InQuotes
<1>2. Pieces(t) \in Seq(Alphabet) /\ TextOf(Pieces(t)) = t
  BY PiecesOf
<1> DEFINE p == Pieces(t)
<1>3. \A n \in 1..Len(p) : p[n] # q
  <2>1. p = [n \in 1..Len(p) |-> p[n]]
    BY <1>2
  <2> QED BY <1>1, <2>1 DEF Range
<1>4. \E r \in Quotations : v = (<<r>> \o p) \o <<r>> /\ \A n \in 1..Len(p) : p[n] # r
  BY <1>1, <1>3
<1> HIDE DEF p
<1>5. Wording(v, t, p)
  BY <1>2, <1>4 DEF Wording, Lines, p
<1> QED BY <1>5 DEF p

LEMMA WordingWord ==
  ASSUME NEW t \in Range(Texts), NEW v, NEW n, v \in Word(t) \/ v \in Literal(t, n)
  PROVE  Wording(v, t, Pieces(t))
<1>1. CASE v \in Bare(t)
  <2>1. t \notin DOMAIN Spelled /\ v = <<t>> /\ Pieces(t) = <<t>>
    BY <1>1 DEF Bare, Pieces
  <2> QED BY <2>1, WordingPlain
<1>2. v \in Bare(t) \/ v \in InQuotes(t)
  BY DEF Word, Literal
<1> QED BY <1>1, <1>2, WordingQuoted

\* From s, which is outside of marks, the text of p has been read in marks.
ReadMarked(r, s, p, quote) ==
  /\ DOMAIN r = Kept /\ r.args = s.args /\ r.quote = quote /\ r.started /\ r.quoted = TRUE
  /\ s.word = NoText => r.word = TextOf(p)
  /\ \A w \in Alphabet : s.word = NoText \o w => r.word = TextOf(<<w>> \o p)

LEMMA MarkedRead ==
  ASSUME NEW s, DOMAIN s = Kept, s.quote = NoText, NEW p \in Lines, NEW q \in Quotations,
         \A n \in 1..Len(p) : p[n] # q
  PROVE  /\ ReadMarked(Scanned(s, <<q>> \o p), s, p, q)
         /\ ReadMarked(Scanned(s, (<<q>> \o p) \o <<q>>), s, p, NoText)
<1> DEFINE a == Scan(s, q)
           b == Scanned(a, p)
           r == Scan(b, q)
           one == <<q>>
<1>1. one \in Lines /\ one \o p \in Lines /\ p \in Seq(Alphabet)
  <2>1. q \in Alphabet
    BY DEF Alphabet
  <2>2. one \in Lines
    BY <2>1, OneLine
  <2> HIDE DEF one
  <2> QED BY <2>2, JoinParts DEF Lines
<1>2. Scanned(s, one \o p) = b /\ Scanned(s, (one \o p) \o one) = r
  <2>1. Scanned(s, one) = a /\ Scanned(b, one) = r
    BY ScannedOne
  <2> HIDE DEF one, a, b, r
  <2>2. Scanned(s, one \o p) = b
    BY <1>1, <2>1, ScannedNext DEF b
  <2> QED BY <1>1, <2>1, <2>2, ScannedNext
<1>3. /\ DOMAIN a = Kept /\ a.args = s.args /\ a.word = s.word /\ a.quote = q
      /\ a.started /\ a.quoted = TRUE
  BY MarkOpens
<1> HIDE DEF a
<1>4. /\ DOMAIN b = Kept /\ b.args = a.args
      /\ b.quote = a.quote /\ b.started = a.started /\ b.quoted = a.quoted
      /\ a.word = NoText => b.word = TextOf(p)
      /\ \A w \in Alphabet : a.word = NoText \o w => b.word = TextOf(<<w>> \o p)
  BY <1>1, <1>3, QuotedText
<1> HIDE DEF b
<1>5. ReadMarked(b, s, p, q)
  BY <1>3, <1>4 DEF ReadMarked
<1>6. DOMAIN b = Kept /\ b.quote = q /\ b.quote \in Quotations
  BY <1>5 DEF ReadMarked
<1>7. /\ DOMAIN r = Kept /\ r.args = b.args /\ r.started = b.started /\ r.quoted = b.quoted
      /\ r.word = b.word /\ r.quote = NoText
  BY <1>6, MarkCloses
<1> HIDE DEF r
<1>8. ReadMarked(r, s, p, NoText)
  BY <1>5, <1>7 DEF ReadMarked
<1> QED BY <1>2, <1>5, <1>8 DEF one

\* A word that follows another one without a blank becomes part of it.
LEMMA WordingGlued ==
  ASSUME NEW v, NEW t, NEW p, Wording(v, t, p),
         NEW e, NEW args, NEW word, NEW quoted, AtEnd(e, args, word, quoted)
  PROVE  \E x, y : /\ AtEnd(Scanned(e, v), args, x, y)
                   /\ \A w \in Alphabet : word = NoText \o w => x = TextOf(<<w>> \o p)
<1>1. DOMAIN e = Kept /\ e.args = args /\ e.word = word /\ e.quote = NoText /\ e.started
  BY DEF AtEnd
<1>2. CASE v = <<t>> /\ p = <<t>> /\ t \in Alphabet \ (Quotations \cup Blanks)
  <2> DEFINE r == Scan(e, t)
  <2>1. Scanned(e, v) = r
    BY <1>2, ScannedOne
  <2>2. /\ DOMAIN r = Kept /\ r.args = e.args /\ r.word = e.word \o t /\ r.quote = NoText
        /\ r.started /\ r.quoted = e.quoted
    BY <1>1, <1>2, PieceContinues
  <2> HIDE DEF r
  <2>3. ASSUME NEW w \in Alphabet, word = NoText \o w PROVE r.word = TextOf(<<w>> \o p)
    <3>1. <<w>> \o p = <<w, t>>
      <4> DEFINE x == <<w>> \o <<t>>
                 y == <<w, t>>
      <4>1. x \in Lines /\ y \in Lines
        BY <1>2 DEF Lines
      <4>2. Len(x) = 2 /\ Len(y) = 2 /\ \A n \in 1..2 : x[n] = y[n]
        OBVIOUS
      <4> HIDE DEF x, y
      <4>3. x = y
        BY <4>1, <4>2, SameLine
      <4> QED BY <1>2, <4>3 DEF x, y
    <3>2. TextOf(<<w, t>>) = (NoText \o w) \o t
      BY TextOfTwo
    <3> QED BY <1>1, <2>2, <2>3, <3>1, <3>2
  <2>4. AtEnd(r, args, r.word, e.quoted)
    BY <1>1, <2>2 DEF AtEnd
  <2> QED BY <2>1, <2>3, <2>4
<1>3. CASE \E q \in Quotations : v = (<<q>> \o p) \o <<q>> /\ \A n \in 1..Len(p) : p[n] # q
  <2>1. PICK q \in Quotations : v = (<<q>> \o p) \o <<q>> /\ \A n \in 1..Len(p) : p[n] # q
    BY <1>3
  <2>2. p \in Lines
    BY DEF Wording
  <2> DEFINE r == Scanned(e, (<<q>> \o p) \o <<q>>)
  <2>3. ReadMarked(r, e, p, NoText)
    BY <1>1, <2>1, <2>2, MarkedRead
  <2>4. r = Scanned(e, v)
    BY <2>1
  <2> HIDE DEF r
  <2>5. AtEnd(r, args, r.word, r.quoted)
    BY <1>1, <2>3 DEF AtEnd, ReadMarked
  <2> QED BY <1>1, <2>3, <2>4, <2>5 DEF ReadMarked
<1> QED BY <1>2, <1>3 DEF Wording

LEMMA WordingLine ==
  ASSUME NEW v, NEW t, NEW p, Wording(v, t, p)
  PROVE  v \in Lines /\ Len(v) \in Nat
<1>1. CASE v = <<t>> /\ p = <<t>>
  BY <1>1 DEF Wording, Lines
<1>2. CASE \E q \in Quotations : v = (<<q>> \o p) \o <<q>>
  <2>1. PICK q \in Quotations : v = (<<q>> \o p) \o <<q>>
    BY <1>2
  <2> DEFINE one == <<q>>
  <2>2. one \in Lines /\ p \in Lines
    <3>1. q \in Alphabet
      BY <2>1 DEF Alphabet
    <3> QED BY <3>1, OneLine DEF Wording
  <2> HIDE DEF one
  <2>3. (one \o p) \o one \in Lines
    BY <2>2, JoinParts
  <2> QED BY <2>1, <2>3 DEF one, Lines
<1> QED BY <1>1, <1>2 DEF Wording

LEMMA WordingSays ==
  ASSUME NEW v, NEW t, NEW p, Wording(v, t, p)
  PROVE  \E q : Says(v, t, q)
<1>1. v \in Seq(Alphabet)
  BY WordingLine DEF Lines
<1>2. CASE v = <<t>> /\ p = <<t>> /\ t \in Alphabet \ (Quotations \cup Blanks)
  <2>1. Says(<<t>>, t, FALSE)
    BY <1>2, SaysBare DEF Wording
  <2> QED BY <1>2, <2>1
<1>3. CASE \E q \in Quotations : v = (<<q>> \o p) \o <<q>> /\ \A n \in 1..Len(p) : p[n] # q
  <2>1. PICK q \in Quotations : v = (<<q>> \o p) \o <<q>> /\ \A n \in 1..Len(p) : p[n] # q
    BY <1>3
  <2>2. p \in Lines /\ TextOf(p) = t
    BY DEF Wording
  <2>3. ASSUME NEW s, Between(s) PROVE AtEnd(Scanned(s, v), s.args, t, TRUE)
    <3>1. DOMAIN s = Kept /\ s.quote = NoText /\ s.word = NoText
      BY <2>3 DEF Between
    <3>2. ReadMarked(Scanned(s, v), s, p, NoText)
      BY <2>1, <2>2, <3>1, MarkedRead
    <3> QED BY <2>2, <3>1, <3>2 DEF ReadMarked, AtEnd
  <2>4. Says(v, t, TRUE)
    BY <1>1, <2>3 DEF Says
  <2> QED BY <2>4
<1> QED BY <1>2, <1>3 DEF Wording

\* The line ends within quotation marks.
Open(rest) ==
  Sound(Scanned(NoWord, rest)) /\ Scanned(NoWord, rest).quote # NoText

\* Of a word without marks nothing is left; a forgotten mark leaves a quotation
\* that does not end.
LEMMA LeftWording ==
  ASSUME NEW v, NEW t, NEW p, Wording(v, t, p), NEW b, DOMAIN b = Kept, b.quote = NoText,
         NEW r, Left(r, b, v)
  PROVE  Scanned(b, r) = b \/ (Sound(Scanned(b, r)) /\ Scanned(b, r).quote # NoText)
<1>1. CASE v = <<t>> /\ t \in Alphabet
  <2>1. r = << >>
    BY <1>1, LeftOne
  <2>2. Scanned(b, << >>) = b
    BY ScannedNone
  <2>3. Scanned(b, r) = b
    BY <2>1, <2>2, Zenon
  <2> QED BY <2>3, Zenon
<1>2. CASE \E q \in Quotations : v = (<<q>> \o p) \o <<q>> /\ \A n \in 1..Len(p) : p[n] # q
  <2>1. PICK q \in Quotations : v = (<<q>> \o p) \o <<q>> /\ \A n \in 1..Len(p) : p[n] # q
    BY <1>2
  <2> DEFINE one == <<q>>
             a == Scanned(b, one)
  <2>2. one \in Lines /\ p \in Lines /\ Len(p) \in Nat /\ one \o p \in Lines /\ Len(one) \in Nat
    <3>1. q \in Alphabet
      BY <2>1 DEF Alphabet
    <3>2. one \in Lines /\ p \in Lines
      BY <3>1, OneLine DEF Wording
    <3> HIDE DEF one
    <3> QED BY <3>2, JoinParts
  <2>3. DOMAIN a = Kept /\ a.quote = q
    <3>1. a = Scan(b, q)
      BY ScannedOne
    <3> HIDE DEF a
    <3>2. LET x == Scan(b, q)
          IN /\ DOMAIN x = Kept /\ x.args = b.args /\ x.word = b.word /\ x.quote = q
             /\ x.started /\ x.quoted = TRUE
      BY <2>1, MarkOpens
    <3> QED BY <3>1, <3>2
  <2>4. \A x : Left(x, b, one) \/ Left(x, Scanned(b, one \o p), one) => x = << >>
    <3>1. q \in Alphabet
      BY <2>1 DEF Alphabet
    <3> QED BY <3>1, LeftOne
  <2>5. Sound(b) /\ Sound(a) /\ q # NoText
    BY <2>1, <2>3, Marks DEF Sound
  <2> DEFINE full == Scanned(b, (one \o p) \o one)
             part == Scanned(b, one \o p)
  <2>6. DOMAIN full = Kept /\ full.quote = NoText /\ DOMAIN part = Kept /\ part.quote = q
    <3>1. ReadMarked(part, b, p, q) /\ ReadMarked(full, b, p, NoText)
      BY <2>1, <2>2, MarkedRead
    <3> HIDE DEF full, part
    <3> QED BY <3>1 DEF ReadMarked
  <2>7. part = Scanned(a, p) /\ full = Scanned(part, one) /\ full = Scanned(a, p \o one)
    <3>1. (one \o p) \o one = one \o (p \o one) /\ p \o one \in Lines
      BY <2>2, JoinAgain, JoinParts
    <3> HIDE DEF one
    <3> QED BY <2>2, <3>1, ScannedNext
  <2> HIDE DEF one, a, full, part
  <2>8. \/ \E x \in Lines : Left(x, b, one \o p) /\ r = x \o one
        \/ \E x \in Lines : Left(x, part, one) /\ r = (one \o p) \o x
    <3>1. Left(r, b, (one \o p) \o one)
      BY <2>1 DEF one
    <3>2. LeftOfParts(r, b, one \o p, one)
      BY <2>2, <3>1, LeftJoin
    <3> QED BY <3>2 DEF part, LeftOfParts
  <2>9. CASE \E x \in Lines : Left(x, part, one) /\ r = (one \o p) \o x
    <3>1. r = (one \o p) \o << >>
      BY <2>4, <2>9 DEF part
    <3>2. (one \o p) \o << >> = one \o p
      BY <2>2 DEF Lines
    <3>3. Scanned(b, r) = part
      BY <3>1, <3>2 DEF part
    <3> QED BY <2>1, <2>5, <2>6, <3>3 DEF Sound
  <2>10. CASE \E x \in Lines : Left(x, b, one \o p) /\ r = x \o one
    <3>1. PICK x \in Lines : Left(x, b, one \o p) /\ r = x \o one
      BY <2>10
    <3>2. \/ \E y \in Lines : Left(y, b, one) /\ x = y \o p
          \/ \E y \in Lines : Left(y, a, p) /\ x = one \o y
      <4>1. LeftOfParts(x, b, one, p)
        BY <2>2, <3>1, LeftJoin
      <4> QED BY <4>1 DEF a, LeftOfParts
    <3>3. \A y : ~Left(y, a, p)
      BY <2>1, <2>2, <2>3, LeftQuoted
    <3>4. x = << >> \o p
      BY <2>4, <3>2, <3>3
    <3>5. << >> \o p = p
      BY <2>2 DEF Lines
    <3>6. r = p \o one /\ p \o one \in Lines /\ Len(p \o one) \in Nat
      BY <2>2, <3>1, <3>4, <3>5, JoinParts
    <3>7. /\ Sound(Scanned(b, r)) /\ Sound(Scanned(a, r))
          /\ Scanned(b, r).quote # Scanned(a, r).quote
      BY <2>3, <2>5, <3>6, QuotesApart
    <3>8. Scanned(a, r) = full
      BY <2>7, <3>6
    <3> QED BY <2>6, <3>7, <3>8
  <2> QED BY <2>8, <2>9, <2>10
<1> QED BY <1>1, <1>2 DEF Wording

----------------------------------------------------------------------------
(* Forgetting a piece of a line                                            *)

\* The line is read as the words of list.
Ends(rest, list) ==
  LET e == Scanned(NoWord, rest)
  IN \/ Between(e) /\ e.args = list
     \/ /\ DOMAIN e = Kept /\ e.quote = NoText /\ e.started
        /\ list = Append(e.args, Token(e.word, e.quoted))

LEMMA AtEndEnds ==
  ASSUME NEW rest, NEW args, NEW word, NEW quoted, AtEnd(Scanned(NoWord, rest), args, word, quoted)
  PROVE  Ends(rest, Append(args, Token(word, quoted)))
<1> DEFINE e == Scanned(NoWord, rest)
<1>1. /\ DOMAIN e = Kept /\ e.quote = NoText /\ e.started
      /\ Append(args, Token(word, quoted)) = Append(e.args, Token(e.word, e.quoted))
  BY DEF AtEnd
<1> QED BY <1>1 DEF Ends

LEMMA EndsBlank ==
  ASSUME NEW rest, NEW list, Ends(rest, list)
  PROVE  LET b == Scan(Scanned(NoWord, rest), " ") IN Between(b) /\ b.args = list
<1> DEFINE e == Scanned(NoWord, rest)
<1>1. \/ Between(e) /\ e.args = list
      \/ /\ DOMAIN e = Kept /\ e.quote = NoText /\ e.started
         /\ list = Append(e.args, Token(e.word, e.quoted))
  BY DEF Ends
<1> HIDE DEF e
<1>2. " " \in Blanks
  BY BlankPiece
<1>3. CASE Between(e) /\ e.args = list
  <2>1. Scan(e, " ") = e
    BY <1>2, <1>3, BlankEnds DEF Between
  <2> QED BY <1>3, <2>1 DEF e
<1>4. CASE DOMAIN e = Kept /\ e.quote = NoText /\ e.started
           /\ list = Append(e.args, Token(e.word, e.quoted))
  <2>1. LET r == Scan(e, " ")
        IN /\ DOMAIN r = Kept /\ r.args = Append(e.args, Token(e.word, e.quoted))
           /\ r.word = NoText /\ r.quote = NoText /\ ~r.started /\ r.quoted = FALSE
    BY <1>2, <1>4, BlankEnds
  <2> QED BY <1>4, <2>1 DEF Between, e
<1> QED BY <1>1, <1>3, <1>4

LEMMA BlankLine == <<" ">> \in Lines /\ Len(<<" ">>) \in Nat /\ " " \in Alphabet /\ " " \in Blanks
<1>1. " " \in Alphabet
  BY BlankPiece DEF Alphabet
<1> QED BY <1>1, BlankPiece DEF Lines

\* What is left of a line and a word more: the mark is missing, a word of the
\* line, the blank, or the new word.
LEMMA SlipNext ==
  ASSUME NEW line, NEW args, NEW word, NEW quoted, Reads(line, args, word, quoted),
         NEW v, NEW t, NEW p, Wording(v, t, p),
         \A r \in Lines : Left(r, NoWord, line) => Open(r) \/ \E list : Ends(r, list),
         NEW rest, Left(rest, NoWord, Spaced(line, v))
  PROVE  \/ Open(rest)
         \/ \E r \in Lines : /\ Left(r, NoWord, line)
                             /\ \E list, q : Ends(r, list) /\ Ends(rest, Append(list, Token(t, q)))
         \/ \E x, y : /\ Ends(rest, Append(args, Token(x, y)))
                      /\ \A w \in Alphabet : word = NoText \o w => x = TextOf(<<w>> \o p)
         \/ Ends(rest, Append(args, Token(word, quoted)))
<1> DEFINE blank == <<" ">>
           front == line \o blank
           a == Scanned(NoWord, line)
           b == Scan(a, " ")
           tail == blank \o v
<1>1. /\ blank \in Lines /\ line \in Lines /\ v \in Lines /\ Len(v) \in Nat
      /\ AtEnd(a, args, word, quoted)
  BY BlankLine, WordingLine DEF Reads, Lines
<1>2. Between(b) /\ b.args = Append(args, Token(word, quoted))
  <2>1. Ends(line, Append(args, Token(word, quoted)))
    BY <1>1, AtEndEnds
  <2> QED BY <2>1, EndsBlank
<1>3. Spaced(line, v) = front \o v
  BY DEF Spaced
<1>4. \A s : Scanned(s, blank) = Scan(s, " ")
  BY ScannedOne
<1>5. \A s, x : Left(x, s, blank) => x = << >>
  <2>1. " " \in Alphabet
    BY BlankLine
  <2> QED BY <2>1, LeftOne
<1> HIDE DEF blank
<1>6. front \in Lines /\ tail \in Lines /\ Len(tail) \in Nat
  BY <1>1, JoinParts
<1>7. Scanned(NoWord, front) = b
  BY <1>1, <1>4, ScannedNext
<1>8. PICK m : Says(v, t, m)
  BY WordingSays
<1> HIDE DEF a, b
<1>9. AtEnd(Scanned(b, v), b.args, t, m)
  BY <1>2, <1>8 DEF Says
<1>10. Sound(a) /\ Sound(NoWord) /\ a.quote = NoText /\ DOMAIN b = Kept /\ b.quote = NoText
  BY <1>1, <1>2, Beginning DEF Sound, AtEnd, Between
<1>11. ASSUME NEW s PROVE Scanned(s, tail) = Scanned(Scan(s, " "), v)
  <2>1. Scanned(s, blank \o v) = Scanned(Scanned(s, blank), v)
    BY <1>1, ScannedNext
  <2>2. Scanned(s, blank) = Scan(s, " ")
    BY <1>4
  <2> QED BY <2>1, <2>2 DEF tail
<1>12. LeftOfParts(rest, NoWord, front, v)
  BY <1>1, <1>3, <1>6, LeftJoin
<1> HIDE DEF front, tail
<1>13. CASE \E r \in Lines : Left(r, b, v) /\ rest = front \o r
  <2>1. PICK r \in Lines : Left(r, b, v) /\ rest = front \o r
    BY <1>13
  <2>2. Scanned(NoWord, rest) = Scanned(b, r)
    BY <1>6, <1>7, <2>1, ScannedNext
  <2>3. Scanned(b, r) = b \/ (Sound(Scanned(b, r)) /\ Scanned(b, r).quote # NoText)
    BY <1>10, <2>1, LeftWording
  <2>4. CASE Scanned(b, r) = b
    <3>1. Ends(rest, Append(args, Token(word, quoted)))
      BY <1>2, <2>2, <2>4 DEF Ends
    <3> QED BY <3>1
  <2>5. CASE Sound(Scanned(b, r)) /\ Scanned(b, r).quote # NoText
    BY <2>2, <2>5 DEF Open
  <2> QED BY <2>3, <2>4, <2>5
<1>14. ASSUME NEW x \in Lines, Left(x, NoWord, front), rest = x \o v
       PROVE  \/ \E r \in Lines : Left(r, NoWord, line) /\ rest = r \o tail
              \/ rest = line \o v
  <2>1. LeftOfParts(x, NoWord, line, blank)
    BY <1>1, <1>14, LeftJoin DEF front
  <2>2. CASE \E r \in Lines : Left(r, NoWord, line) /\ x = r \o blank
    <3>1. PICK r \in Lines : Left(r, NoWord, line) /\ x = r \o blank
      BY <2>2
    <3>2. (r \o blank) \o v = r \o tail
      BY <1>1, <3>1, JoinAgain DEF tail
    <3> QED BY <1>14, <3>1, <3>2
  <2>3. CASE \E r \in Lines : Left(r, Scanned(NoWord, line), blank) /\ x = line \o r
    <3>1. x = line \o << >>
      BY <1>5, <2>3
    <3>2. line \o << >> = line
      BY <1>1 DEF Lines
    <3> QED BY <1>14, <3>1, <3>2
  <2> QED BY <2>1, <2>2, <2>3 DEF LeftOfParts
<1>15. CASE rest = line \o v
  <2>1. Scanned(NoWord, rest) = Scanned(a, v)
    BY <1>1, <1>15, ScannedNext DEF a
  <2>2. PICK x, y : /\ AtEnd(Scanned(a, v), args, x, y)
                    /\ \A w \in Alphabet : word = NoText \o w => x = TextOf(<<w>> \o p)
    BY <1>1, WordingGlued
  <2>3. Ends(rest, Append(args, Token(x, y)))
    BY <2>1, <2>2, AtEndEnds
  <2> QED BY <2>2, <2>3
<1>16. ASSUME NEW r \in Lines, Left(r, NoWord, line), rest = r \o tail
       PROVE  \/ Open(rest)
              \/ \E list, q : Ends(r, list) /\ Ends(rest, Append(list, Token(t, q)))
  <2> DEFINE e == Scanned(NoWord, r)
  <2>1. Scanned(NoWord, rest) = Scanned(e, tail)
    BY <1>6, <1>16, ScannedNext
  <2>2. CASE Open(r)
    <3>1. Sound(e) /\ e.quote # a.quote
      BY <1>10, <2>2 DEF Open
    <3> HIDE DEF e
    <3>2. Sound(Scanned(e, tail)) /\ Scanned(e, tail).quote # Scanned(a, tail).quote
      BY <1>6, <1>10, <3>1, QuotesApart
    <3>3. Scanned(a, tail).quote = NoText
      BY <1>9, <1>11 DEF AtEnd, b
    <3> QED BY <2>1, <3>2, <3>3 DEF Open
  <2>3. CASE \E list : Ends(r, list)
    <3>1. PICK list : Ends(r, list)
      BY <2>3
    <3> DEFINE c == Scan(e, " ")
    <3>2. Between(c) /\ c.args = list
      BY <3>1, EndsBlank
    <3>3. Scanned(e, tail) = Scanned(c, v)
      BY <1>11
    <3> HIDE DEF c, e
    <3>4. AtEnd(Scanned(c, v), list, t, m)
      BY <1>8, <3>2 DEF Says
    <3>5. Ends(rest, Append(list, Token(t, m)))
      BY <2>1, <3>3, <3>4, AtEndEnds
    <3> QED BY <3>1, <3>5
  <2> QED BY <1>16, <2>2, <2>3
<1> QED BY <1>7, <1>12, <1>13, <1>14, <1>15, <1>16 DEF LeftOfParts

LEMMA EndsOnce ==
  ASSUME NEW rest, NEW list, NEW other, Ends(rest, list), Ends(rest, other)
  PROVE  list = other
<1> DEFINE e == Scanned(NoWord, rest)
<1>1. \/ Between(e) /\ e.args = list
      \/ e.started /\ list = Append(e.args, Token(e.word, e.quoted))
  BY DEF Ends
<1>2. \/ Between(e) /\ e.args = other
      \/ e.started /\ other = Append(e.args, Token(e.word, e.quoted))
  BY DEF Ends
<1> HIDE DEF e
<1> QED BY <1>1, <1>2 DEF Between

\* A list of n tokens, the text of the first of which is in texts.
Counted(list, n, texts) ==
  /\ \E tokens : list \in Seq(tokens)
  /\ Len(list) = n /\ list[1].text \in texts

LEMMA CountedFirst ==
  ASSUME NEW t, NEW q, NEW texts, t \in texts
  PROVE  Counted(Append(<< >>, Token(t, q)), 1, texts)
<1> DEFINE x == Token(t, q)
<1>1. x.text \in texts
  BY TokenParts
<1> HIDE DEF x
<1>2. Append(<< >>, x) = <<x>>
  BY Tuples, Zenon
<1>3. <<x>> \in Seq({x}) /\ Len(<<x>>) = 1 /\ <<x>>[1] = x
  OBVIOUS
<1>4. Counted(<<x>>, 1, texts)
  BY <1>1, <1>3 DEF Counted
<1> QED BY <1>2, <1>4 DEF x

LEMMA CountedNext ==
  ASSUME NEW list, NEW n \in Nat \ {0}, NEW texts, Counted(list, n, texts), NEW x
  PROVE  Counted(Append(list, x), n + 1, texts)
<1>1. PICK tokens : list \in Seq(tokens)
  BY DEF Counted
<1>2. Len(list) = n /\ list[1].text \in texts
  BY DEF Counted
<1>3. list \in Seq(tokens \cup {x}) /\ x \in tokens \cup {x}
  BY <1>1
<1> DEFINE more == Append(list, x)
<1>4. more \in Seq(tokens \cup {x}) /\ Len(more) = n + 1 /\ more[1] = list[1]
  BY <1>2, <1>3
<1> HIDE DEF more
<1>5. Counted(more, n + 1, texts)
  BY <1>2, <1>4 DEF Counted
<1> QED BY <1>5 DEF more

\* Of a line something is forgotten: it ends within marks, or has n words.
Lacking(line, n, texts) ==
  \A r \in Lines : Left(r, NoWord, line) =>
     Open(r) \/ \E list : Ends(r, list) /\ Counted(list, n, texts)

\* A line of n + 1 words.
Ample(line, n, texts) ==
  \E args, word, quoted : /\ Reads(line, args, word, quoted)
                          /\ Counted(args, n, texts) /\ Lacking(line, n, texts)

LEMMA AmpleNext ==
  ASSUME NEW line, NEW n \in Nat \ {0}, NEW texts, Ample(line, n, texts),
         NEW v, NEW t, NEW p, Wording(v, t, p)
  PROVE  Ample(Spaced(line, v), n + 1, texts)
<1>1. PICK args, word, quoted : /\ Reads(line, args, word, quoted)
                                /\ Counted(args, n, texts) /\ Lacking(line, n, texts)
  BY DEF Ample
<1>2. PICK m : Says(v, t, m)
  BY WordingSays
<1>3. Reads(Spaced(line, v), Append(args, Token(word, quoted)), t, m)
  BY <1>1, <1>2, ReadsNext
<1>4. Counted(Append(args, Token(word, quoted)), n + 1, texts)
  BY <1>1, CountedNext
<1>5. ASSUME NEW rest \in Lines, Left(rest, NoWord, Spaced(line, v))
      PROVE  Open(rest) \/ \E list : Ends(rest, list) /\ Counted(list, n + 1, texts)
  <2>1. \A r \in Lines : Left(r, NoWord, line) => Open(r) \/ \E list : Ends(r, list)
    BY <1>1 DEF Lacking
  <2>2. \/ Open(rest)
        \/ \E r \in Lines : /\ Left(r, NoWord, line)
                            /\ \E list, q : Ends(r, list) /\ Ends(rest, Append(list, Token(t, q)))
        \/ \E x, y : Ends(rest, Append(args, Token(x, y)))
        \/ Ends(rest, Append(args, Token(word, quoted)))
    BY <1>1, <1>5, <2>1, SlipNext
  <2>3. CASE \E r \in Lines :
               /\ Left(r, NoWord, line)
               /\ \E list, q : Ends(r, list) /\ Ends(rest, Append(list, Token(t, q)))
    <3>1. PICK r \in Lines :
            /\ Left(r, NoWord, line)
            /\ \E list, q : Ends(r, list) /\ Ends(rest, Append(list, Token(t, q)))
      BY <2>3
    <3>2. PICK list, q : Ends(r, list) /\ Ends(rest, Append(list, Token(t, q)))
      BY <3>1
    <3>3. CASE Open(r)
      <4>1. Scanned(NoWord, r).quote = NoText
        BY <3>2 DEF Ends, Between
      <4> QED BY <3>3, <4>1 DEF Open
    <3>4. CASE ~Open(r)
      <4>1. PICK other : Ends(r, other) /\ Counted(other, n, texts)
        BY <1>1, <3>1, <3>4 DEF Lacking
      <4>2. other = list
        BY <3>2, <4>1, EndsOnce
      <4>3. Counted(Append(list, Token(t, q)), n + 1, texts)
        BY <4>1, <4>2, CountedNext
      <4> QED BY <3>2, <4>3
    <3> QED BY <3>3, <3>4
  <2>4. CASE \E x, y : Ends(rest, Append(args, Token(x, y)))
    <3>1. PICK x, y : Ends(rest, Append(args, Token(x, y)))
      BY <2>4
    <3>2. Counted(Append(args, Token(x, y)), n + 1, texts)
      BY <1>1, CountedNext
    <3> QED BY <3>1, <3>2
  <2> QED BY <1>4, <2>2, <2>3, <2>4
<1>6. Lacking(Spaced(line, v), n + 1, texts)
  BY <1>5 DEF Lacking
<1> QED BY <1>3, <1>4, <1>6 DEF Ample

\* The first two words, a keyword and another.
LEMMA AmpleTwo ==
  ASSUME NEW w \in Keywords, NEW v, NEW t, NEW p, Wording(v, t, p),
         NEW texts, {w, t, TextOf(<<w>> \o p)} \subseteq texts
  PROVE  Ample(Spaced(<<w>>, v), 1, texts)
<1>1. PICK h : Reads(<<w>>, << >>, w, h)
  BY ReadsKeyword
<1>2. PICK m : Says(v, t, m)
  BY WordingSays
<1>3. Reads(Spaced(<<w>>, v), Append(<< >>, Token(w, h)), t, m)
  BY <1>1, <1>2, ReadsNext
<1>4. Counted(Append(<< >>, Token(w, h)), 1, texts)
  BY CountedFirst
<1>5. w \in Alphabet /\ w = NoText \o w
  <2>1. TextOf(<<w>>) = w
    BY BareAssumption
  <2> QED BY <2>1, TextOfOne DEF Alphabet
<1>6. \A r \in Lines : Left(r, NoWord, <<w>>) => r = << >>
  BY <1>5, LeftOne
<1>7. ASSUME NEW list, Ends(<< >>, list) PROVE list = << >>
  <2>1. Scanned(NoWord, << >>) = NoWord
    BY ScannedNone
  <2>2. ~NoWord.started /\ NoWord.args = << >>
    BY Beginning
  <2> QED BY <1>7, <2>1, <2>2 DEF Ends
<1>8. Ends(<< >>, << >>)
  <2>1. Scanned(NoWord, << >>) = NoWord
    BY ScannedNone
  <2>2. Between(NoWord) /\ NoWord.args = << >>
    BY Beginning DEF Between
  <2> QED BY <2>1, <2>2 DEF Ends
<1>9. ASSUME NEW rest \in Lines, Left(rest, NoWord, Spaced(<<w>>, v))
      PROVE  Open(rest) \/ \E list : Ends(rest, list) /\ Counted(list, 1, texts)
  <2>1. \A r \in Lines : Left(r, NoWord, <<w>>) => Open(r) \/ \E list : Ends(r, list)
    BY <1>6, <1>8
  <2>2. \/ Open(rest)
        \/ \E r \in Lines : /\ Left(r, NoWord, <<w>>)
                            /\ \E list, q : Ends(r, list) /\ Ends(rest, Append(list, Token(t, q)))
        \/ \E x, y : /\ Ends(rest, Append(<< >>, Token(x, y)))
                     /\ \A u \in Alphabet : w = NoText \o u => x = TextOf(<<u>> \o p)
        \/ Ends(rest, Append(<< >>, Token(w, h)))
    BY <1>1, <1>9, <2>1, SlipNext
  <2>3. CASE \E r \in Lines :
               /\ Left(r, NoWord, <<w>>)
               /\ \E list, q : Ends(r, list) /\ Ends(rest, Append(list, Token(t, q)))
    <3>1. PICK list, q : Ends(<< >>, list) /\ Ends(rest, Append(list, Token(t, q)))
      BY <1>6, <2>3
    <3>2. Ends(rest, Append(<< >>, Token(t, q)))
      BY <1>7, <3>1
    <3>3. Counted(Append(<< >>, Token(t, q)), 1, texts)
      BY CountedFirst
    <3> QED BY <3>2, <3>3
  <2>4. CASE \E x, y : /\ Ends(rest, Append(<< >>, Token(x, y)))
                       /\ \A u \in Alphabet : w = NoText \o u => x = TextOf(<<u>> \o p)
    <3>1. PICK x, y : /\ Ends(rest, Append(<< >>, Token(x, y)))
                      /\ \A u \in Alphabet : w = NoText \o u => x = TextOf(<<u>> \o p)
      BY <2>4
    <3>2. x \in texts
      BY <1>5, <3>1
    <3>3. Counted(Append(<< >>, Token(x, y)), 1, texts)
      BY <3>2, CountedFirst
    <3> QED BY <3>1, <3>3
  <2> QED BY <1>4, <2>2, <2>3, <2>4
<1>10. Lacking(Spaced(<<w>>, v), 1, texts)
  BY <1>9 DEF Lacking
<1> QED BY <1>3, <1>4, <1>10 DEF Ample

----------------------------------------------------------------------------
(* Parse, of a line that is short of words                                 *)

LEMMA EndsSplit ==
  ASSUME NEW rest, NEW list, Ends(rest, list)
  PROVE  Split(rest).error = FALSE /\ Split(rest).args = list
<1> DEFINE e == Scanned(NoWord, rest)
<1>1. \/ Between(e) /\ e.args = list
      \/ e.quote = NoText /\ e.started /\ list = Append(e.args, Token(e.word, e.quoted))
  BY DEF Ends
<1>2. Split(rest) = [error |-> e.quote # "", args |-> EndWord(e).args]
  BY DEF Split
<1> HIDE DEF e
<1>3. (e.quote # "") = FALSE
  BY <1>1 DEF Between, NoText
<1> DEFINE end == EndWord(e).args
<1> HIDE DEF end
<1>6. Split(rest) = [error |-> FALSE, args |-> end]
  BY <1>2, <1>3, Zenon DEF end
<1>4. CASE Between(e) /\ e.args = list
  <2>1. EndWord(e) = e
    BY <1>4 DEF EndWord, Between
  <2>2. EndWord(e).args = list
    BY <1>4, <2>1
  <2> QED BY <1>6, <2>2 DEF end
<1>5. CASE e.started /\ list = Append(e.args, Token(e.word, e.quoted))
  <2> DEFINE more == Append(e.args, Token(e.word, e.quoted))
  <2>1. EndWord(e) = [NoWord EXCEPT !.args = more]
    BY <1>5, Zenon DEF EndWord, Token
  <2> HIDE DEF more
  <2>2. [NoWord EXCEPT !.args = more].args = more
    BY Beginning DEF Kept
  <2>3. EndWord(e).args = list
    BY <1>5, <2>1, <2>2 DEF more
  <2> QED BY <1>6, <2>3 DEF end
<1> QED BY <1>1, <1>4, <1>5

LEMMA OpenParse ==
  ASSUME NEW rest, Open(rest)
  PROVE  Parse(rest) = Invalid
<1> DEFINE e == Scanned(NoWord, rest)
           none == Split(rest).error \/ Split(rest).args = << >>
<1>1. e.quote # ""
  BY DEF Open, NoText
<1>2. Split(rest) = [error |-> e.quote # "", args |-> EndWord(e).args]
  BY DEF Split
<1> HIDE DEF e
<1>3. (e.quote # "") = TRUE
  BY <1>1
<1> DEFINE end == EndWord(e).args
<1> HIDE DEF end
<1>4. Split(rest) = [error |-> TRUE, args |-> end]
  BY <1>2, <1>3, Zenon DEF end
<1>5. none
  BY <1>4
<1> DEFINE args == Split(rest).args
           kind == Upper(args[1].text)
<1>6. Parse(rest) =
        IF none THEN Invalid
        ELSE CASE kind = "GET" /\ Len(args) > 2 /\ Upper(args[2].text) = "WHERE" -> ParseWhere(args)
               [] kind = "SET" -> ParseSet(args)
               [] kind \in {"GET", "DELETE", "DEL"} /\ Len(args) = 2 ->
                    On(IF kind = "GET" THEN "GET" ELSE "DELETE", args[2].text)
               [] kind = "PING" /\ Len(args) = 1 -> Ping
               [] OTHER -> Invalid
  BY Zenon DEF Parse
<1> HIDE DEF none, args, kind
<1> QED BY <1>5, <1>6

\* A line of four words, or of fewer.
LEMMA ShortParse ==
  ASSUME NEW line, NEW list, NEW n \in {1, 2, 4}, NEW texts,
         Ends(line, list), Counted(list, n, texts)
  PROVE  /\ Parse(line).kind # "SET"
         /\ (\/ n = 4
             \/ n = 2 /\ \A t \in texts : Upper(t) \notin {"GET", "DEL", "DELETE"}
             \/ n = 1 /\ \A t \in texts : Upper(t) # "PING")
              => Parse(line) = Invalid
<1>1. Len(list) = n /\ list[1].text \in texts
  BY DEF Counted
<1>2. list # << >>
  <2>1. Len(<< >>) = 0
    OBVIOUS
  <2> QED BY <1>1, <2>1
<1>3. Split(line).error = FALSE /\ Split(line).args = list
  BY EndsSplit
<1> DEFINE kind == Upper(list[1].text)
           key  == list[2].text
           more == Upper(key) = "WHERE"
<1>4. Invalid.kind # "SET" /\ \A d \in {"GET", "DELETE"} : On(d, key).kind # "SET"
  BY OnParts DEF Invalid, NoCommand
<1>5. Ping.kind # "SET"
  BY PingParts
<1>6. ParseSet(list) = Invalid
  BY <1>1 DEF ParseSet
<1>7. n = 4 => ParseWhere(list) = Invalid
  BY <1>1 DEF ParseWhere
<1> DEFINE parsed == Parse(line)
<1>8. /\ kind = "GET" /\ Len(list) > 2 /\ more => parsed = ParseWhere(list)
      /\ kind = "SET" => parsed = ParseSet(list)
      /\ kind = "GET" /\ Len(list) = 2 => parsed = On("GET", key)
      /\ kind \in {"DELETE", "DEL"} /\ Len(list) = 2 => parsed = On("DELETE", key)
      /\ kind = "PING" /\ Len(list) = 1 => parsed = Ping
      /\ (\/ kind \notin {"GET", "SET", "DELETE", "DEL", "PING"}
          \/ kind = "PING" /\ Len(list) # 1
          \/ kind \in {"DELETE", "DEL"} /\ Len(list) # 2
          \/ kind = "GET" /\ Len(list) # 2 /\ ~(Len(list) > 2 /\ more))
           => parsed = Invalid
  BY <1>2, <1>3, ParseBy
<1>9. n = 2 /\ (\A t \in texts : Upper(t) \notin {"GET", "DEL", "DELETE"}) =>
        kind \notin {"GET", "DEL", "DELETE"}
  BY <1>1
<1>10. n = 1 /\ (\A t \in texts : Upper(t) # "PING") => kind # "PING"
  BY <1>1
<1> DEFINE get == On("GET", key)
           del == On("DELETE", key)
<1> HIDE DEF kind, key, more, parsed, get, del
<1>11. CASE n = 4
  <2>1. Len(list) > 2 /\ Len(list) # 2 /\ Len(list) # 1
    BY <1>1, <1>11
  <2>2. parsed = Invalid
    BY <1>6, <1>7, <1>8, <1>11, <2>1 DEF get, del
  <2> QED BY <1>4, <2>2 DEF parsed
<1>12. CASE n = 2
  <2>1. ~(Len(list) > 2) /\ Len(list) = 2 /\ Len(list) # 1
    BY <1>1, <1>12
  <2>2. \/ parsed = Invalid
        \/ kind = "GET" /\ parsed = get
        \/ kind \in {"DEL", "DELETE"} /\ parsed = del
    BY <1>6, <1>8, <2>1 DEF get, del
  <2>3. parsed.kind # "SET"
    BY <1>4, <2>2 DEF get, del
  <2>4. (\A t \in texts : Upper(t) \notin {"GET", "DEL", "DELETE"}) => parsed = Invalid
    BY <1>9, <1>12, <2>2
  <2> QED BY <1>12, <2>3, <2>4 DEF parsed
<1>13. CASE n = 1
  <2>1. ~(Len(list) > 2) /\ Len(list) # 2 /\ Len(list) = 1
    BY <1>1, <1>13
  <2>2. parsed = Invalid \/ (kind = "PING" /\ parsed = Ping)
    BY <1>6, <1>8, <2>1 DEF get, del
  <2>3. parsed.kind # "SET"
    BY <1>4, <1>5, <2>2
  <2>4. (\A t \in texts : Upper(t) # "PING") => parsed = Invalid
    BY <1>10, <1>13, <2>2
  <2> QED BY <1>13, <2>3, <2>4 DEF parsed
<1> QED BY <1>11, <1>12, <1>13

----------------------------------------------------------------------------
(* A line with a slip                                                      *)

LEMMA LineParts ==
  ASSUME NEW line \in Lines
  PROVE  /\ Len(line) \in Nat /\ DOMAIN line = 1..Len(line)
         /\ \A i \in 1..Len(line) : line[i] \in Alphabet
BY DEF Lines

LEMMA Positions == \A n \in Nat : \A i \in 1..n : i \in Nat /\ 1 <= i /\ i <= n
OBVIOUS

\* What stands before and after piece i.
LEMMA CutAt ==
  ASSUME NEW line \in Lines, NEW i \in Nat, 1 <= i, i <= Len(line), line[i] \in Alphabet
  PROVE  LET pre  == SubSeq(line, 1, i - 1)
             post == SubSeq(line, i + 1, Len(line))
         IN pre \in Lines /\ post \in Lines /\ Cut(line, pre, line[i], post)
<1>1. Len(line) \in Nat /\ i - 1 \in Nat /\ i + 1 \in Nat
  BY DEF Lines
<1> DEFINE pre  == SubSeq(line, 1, i - 1)
           one  == <<line[i]>>
           post == SubSeq(line, i + 1, Len(line))
<1>2. pre \in Lines /\ post \in Lines /\ one \in Lines
  <2>1. 1 <= 1 /\ 1 <= (i - 1) + 1 /\ i - 1 <= Len(line) /\ 1 \in Nat
    BY <1>1
  <2>2. 1 <= i + 1 /\ i + 1 <= Len(line) + 1 /\ Len(line) <= Len(line)
    BY <1>1
  <2>3. pre \in Lines
    BY <1>1, <2>1, PartOf
  <2>4. post \in Lines
    BY <1>1, <2>2, PartOf
  <2> QED BY <2>3, <2>4, OneLine
<1>4. line = (pre \o one) \o post
  <2>1. Len(pre) = i - 1 /\ \A m \in 1..(i - 1) : pre[m] = line[m]
    BY <1>1, PartOf
  <2>2. Len(post) = Len(line) - i /\ \A m \in 1..(Len(line) - i) : post[m] = line[i + m]
    BY <1>1, PartOf
  <2>3. Len(one) = 1 /\ one[1] = line[i]
    OBVIOUS
  <2> HIDE DEF pre, one, post
  <2> DEFINE front == pre \o one
             all == front \o post
  <2>4. /\ front \in Lines /\ Len(front) = Len(pre) + Len(one)
        /\ \A m \in 1..Len(pre) : front[m] = pre[m]
        /\ \A m \in 1..Len(one) : front[Len(pre) + m] = one[m]
    BY <1>2, JoinParts
  <2> HIDE DEF front
  <2>5. /\ all \in Lines /\ Len(all) = Len(front) + Len(post)
        /\ \A m \in 1..Len(front) : all[m] = front[m]
        /\ \A m \in 1..Len(post) : all[Len(front) + m] = post[m]
    BY <1>2, <2>4, JoinParts
  <2> HIDE DEF all
  <2>6. Len(front) = i /\ Len(all) = Len(line)
    BY <1>1, <2>1, <2>2, <2>3, <2>4, <2>5
  <2>7. ASSUME NEW m \in 1..Len(line) PROVE all[m] = line[m]
    <3>1. CASE m < i
      <4>1. m \in 1..(i - 1) /\ m \in 1..i
        BY <1>1, <3>1
      <4> QED BY <2>1, <2>4, <2>5, <2>6, <4>1
    <3>2. CASE m = i
      <4>1. front[(i - 1) + 1] = one[1]
        BY <2>1, <2>3, <2>4
      <4>2. (i - 1) + 1 = i /\ i \in 1..i
        BY <1>1
      <4> QED BY <2>3, <2>5, <2>6, <3>2, <4>1, <4>2
    <3>3. CASE ~(m <= i)
      <4> DEFINE j == m - i
      <4>1. j \in 1..(Len(line) - i) /\ i + j = m
        BY <1>1, <3>3
      <4> HIDE DEF j
      <4>2. all[i + j] = post[j] /\ post[j] = line[i + j]
        BY <2>2, <2>5, <2>6, <4>1
      <4> QED BY <4>1, <4>2
    <3> QED BY <1>1, <3>1, <3>2, <3>3
  <2>8. all = line
    BY <2>5, <2>6, <2>7, SameLine
  <2> QED BY <2>8 DEF all, front
<1>5. Cut(line, pre, line[i], post)
  BY <1>4 DEF Cut
<1> QED BY <1>2, <1>5

\* Piece i does not stand between marks.
Removable(line, i) ==
  i \in DOMAIN line /\ Scanned(NoWord, SubSeq(line, 1, i - 1)).quote \in {"", line[i]}

\* What remains of a line without its piece i.
LEMMA LeftRemoved ==
  ASSUME NEW line \in Lines, NEW i, Removable(line, i)
  PROVE  RemoveAt(line, i) \in Lines /\ Left(RemoveAt(line, i), NoWord, line)
<1> DEFINE pre  == SubSeq(line, 1, i - 1)
           post == SubSeq(line, i + 1, Len(line))
<1>1. i \in 1..Len(line) /\ line[i] \in Alphabet /\ Len(line) \in Nat
  BY LineParts DEF Removable
<1>2. i \in Nat /\ 1 <= i /\ i <= Len(line)
  BY <1>1, Positions
<1>3. pre \in Lines /\ post \in Lines /\ Cut(line, pre, line[i], post)
  BY <1>1, <1>2, CutAt
<1>4. Scanned(NoWord, pre).quote \in {NoText, line[i]}
  BY DEF NoText, Removable
<1>5. RemoveAt(line, i) = pre \o post
  BY DEF RemoveAt
<1> HIDE DEF pre, post
<1>6. pre \o post \in Lines
  BY <1>3, JoinParts
<1>7. Left(pre \o post, NoWord, line)
  BY <1>1, <1>3, <1>4 DEF Left
<1> QED BY <1>5, <1>6, <1>7
----------------------------------------------------------------------------
(* The command of a line with a slip                                       *)

\* The line is no SET; unless the key is a verb, it is no command at all.
Refused(rest, key) ==
  /\ Parse(rest).kind # "SET"
  /\ Upper(key) \notin {"GET", "DEL", "DELETE", "PING"} => Parse(rest) = Invalid

\* A line of n + 1 words without its piece i.
LEMMA AmpleRefused ==
  ASSUME NEW line, NEW n \in {1, 2, 4}, NEW texts, Ample(line, n, texts), NEW i, Removable(line, i),
         NEW key, Upper(key) \notin {"GET", "DEL", "DELETE", "PING"} =>
                    (\/ n = 4
                     \/ n = 2 /\ \A t \in texts : Upper(t) \notin {"GET", "DEL", "DELETE"}
                     \/ n = 1 /\ \A t \in texts : Upper(t) # "PING")
  PROVE  Refused(RemoveAt(line, i), key)
<1> DEFINE rest == RemoveAt(line, i)
<1>3. Lacking(line, n, texts) /\ line \in Lines
  BY DEF Ample, Reads, Lines
<1>4. rest \in Lines /\ Left(rest, NoWord, line)
  BY <1>3, LeftRemoved
<1> HIDE DEF rest
<1>5. Open(rest) \/ \E list : Ends(rest, list) /\ Counted(list, n, texts)
  BY <1>3, <1>4 DEF Lacking
<1>1. ASSUME Open(rest) PROVE Refused(rest, key)
  <2>1. Parse(rest) = Invalid
    BY <1>1, OpenParse
  <2>2. Invalid.kind # "SET"
    BY DEF Invalid, NoCommand
  <2> QED BY <2>1, <2>2 DEF Refused
<1>2. ASSUME \E list : Ends(rest, list) /\ Counted(list, n, texts) PROVE Refused(rest, key)
  <2>1. PICK list : Ends(rest, list) /\ Counted(list, n, texts)
    BY <1>2
  <2>2. /\ Parse(rest).kind # "SET"
        /\ (\/ n = 4
            \/ n = 2 /\ \A t \in texts : Upper(t) \notin {"GET", "DEL", "DELETE"}
            \/ n = 1 /\ \A t \in texts : Upper(t) # "PING")
             => Parse(rest) = Invalid
    BY <2>1, ShortParse
  <2> QED BY <2>2 DEF Refused
<1>6. Refused(rest, key)
  BY <1>1, <1>2, <1>5
<1> QED BY <1>6 DEF rest

\* SET key value, with or without EX.
LEMMA SlipOfSet ==
  ASSUME NEW k \in Range(Texts), NEW v \in Range(Texts), NEW n, NEW t,
         NEW line \in Written(SetTo(k, v, n, t)), NEW i, Removable(line, i)
  PROVE  Refused(RemoveAt(line, i), k)
<1>1. PICK w \in {"set", "SET"}, x \in {"ex", "EX"} :
        line \in IF t = 0 THEN Stored(w, k, v, n) ELSE Expiring(w, k, v, n, x, t)
  BY SetLines
<1>2. Upper(w) = "SET" /\ w \in Keywords /\ x \in Keywords
  BY <1>1, KeywordsThere
<1> DEFINE glued == TextOf(<<w>> \o Pieces(k))
           texts == {w, k, glued}
<1>3. Upper(k) \notin {"GET", "DEL", "DELETE", "PING"} =>
        \A u \in texts : Upper(u) \notin {"GET", "DEL", "DELETE"}
  <2>1. Upper(glued) \notin {"GET", "DEL", "DELETE"}
    BY <1>2, GluedAssumption
  <2> HIDE DEF glued
  <2> QED BY <1>2, <2>1
<1> HIDE DEF texts
<1>4. ASSUME NEW m \in Stored(w, k, v, n)
      PROVE  Ample(m, 2, texts)
  <2>1. PICK first \in Then({<<w>>}, Word(k)), l \in Literal(v, n) : m = Spaced(first, l)
    BY Joined DEF Stored
  <2>2. PICK u \in Word(k) : first = Spaced(<<w>>, u)
    BY <2>1, Joined
  <2>3. Wording(u, k, Pieces(k)) /\ Wording(l, v, Pieces(v))
    BY <2>1, <2>2, WordingWord
  <2>4. Ample(first, 1, texts)
    BY <1>2, <2>2, <2>3, AmpleTwo DEF texts
  <2>5. Ample(m, 1 + 1, texts)
    BY <2>1, <2>3, <2>4, AmpleNext
  <2> QED BY <2>5
<1>5. CASE t = 0
  <2>1. Ample(line, 2, texts)
    BY <1>1, <1>4, <1>5
  <2> QED BY <1>3, <2>1, AmpleRefused
<1>6. CASE t # 0
  <2>1. line \in Expiring(w, k, v, n, x, t)
    BY <1>1, <1>6
  <2>2. PICK l \in Then(Stored(w, k, v, n), {<<x>>}), s \in Lasting(t) : line = Spaced(l, s)
    BY <2>1, Joined DEF Expiring
  <2>3. PICK m \in Stored(w, k, v, n) : l = Spaced(m, <<x>>)
    BY <2>2, Joined
  <2>4. PICK d \in DOMAIN Seconds : s = <<d>>
    BY <2>2 DEF Lasting
  <2>5. Wording(<<x>>, x, <<x>>) /\ Wording(s, d, <<d>>)
    BY <1>2, <2>4, WordingPlain
  <2>6. Ample(m, 2, texts)
    BY <1>4
  <2>7. Ample(l, 2 + 1, texts)
    BY <2>3, <2>5, <2>6, AmpleNext
  <2>8. Ample(l, 3, texts)
    BY <2>7
  <2>9. Ample(line, 3 + 1, texts)
    BY <2>2, <2>5, <2>8, AmpleNext
  <2>10. Ample(line, 4, texts)
    BY <2>9
  <2> QED BY <2>10, AmpleRefused
<1> QED BY <1>5, <1>6

\* DELETE key.
LEMMA SlipOfDelete ==
  ASSUME NEW k \in Range(Texts), NEW line \in Written(On("DELETE", k)), NEW i, Removable(line, i)
  PROVE  Refused(RemoveAt(line, i), k)
<1>1. PICK w \in {"del", "delete", "DEL", "DELETE"} : line \in Then({<<w>>}, Word(k))
  BY OnLines
<1>2. w \in Keywords /\ Upper(w) \in {"DEL", "DELETE"}
  BY <1>1, KeywordsThere
<1> DEFINE glued == TextOf(<<w>> \o Pieces(k))
           texts == {w, k, glued}
<1>3. Upper(k) \notin {"GET", "DEL", "DELETE", "PING"} => \A u \in texts : Upper(u) # "PING"
  <2>1. Upper(glued) # "PING"
    BY <1>2, GluedAssumption
  <2> HIDE DEF glued
  <2> QED BY <1>2, <2>1
<1> HIDE DEF texts
<1>4. PICK u \in Word(k) : line = Spaced(<<w>>, u)
  BY <1>1, Joined
<1>5. Wording(u, k, Pieces(k))
  BY <1>4, WordingWord
<1>6. Ample(line, 1, texts)
  BY <1>2, <1>4, <1>5, AmpleTwo DEF texts
<1> QED BY <1>3, <1>6, AmpleRefused

============================================================================
