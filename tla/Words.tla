------------------------------- MODULE Words -------------------------------
(***************************************************************************)
(* The texts that keys, values and operands are made of, as Go compares,     *)
(* sorts and reads them: strings.Contains, the order of strings,             *)
(* sort.Strings, strconv.ParseFloat and FormatFloat on the texts in use.     *)
(***************************************************************************)
EXTENDS Integers, Sequences, SequencesExt, Ranks

CONSTANTS
  Texts,   \* the texts in use, in the order of their bytes
  Number,  \* for the texts that ParseFloat reads as a finite number, that number
  Plain    \* how FormatFloat writes each of these numbers

NoText == ""

ASSUME WordsAssumption ==
  /\ Texts \in Seq(Range(Texts)) /\ IsInjective(Texts)
  /\ DOMAIN Number \subseteq Range(Texts) \ {NoText} /\ Range(Number) \subseteq Int
  /\ DOMAIN Plain = Range(Number)
  /\ \A n \in DOMAIN Plain : Plain[n] \in DOMAIN Number /\ Number[Plain[n]] = n

Place(t) == CHOOSE i \in DOMAIN Texts : Texts[i] = t

TextBelow(a, b) == Place(a) < Place(b)

Sorted(texts) ==
  LET places == InOrder({Place(t) : t \in texts})
  IN [n \in 1..Len(places) |-> Texts[places[n]]]

HasPart(text, part) ==
  \E i \in 1..(Len(text) - Len(part) + 1) : SubSeq(text, i, i + Len(part) - 1) = part
=============================================================================
