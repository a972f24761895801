--------------------------- MODULE MCMemoryEngine ---------------------------
(* Model checking of MemoryEngine.tla with a few texts.                     *)
EXTENDS MemoryEngine, TLC

TextsInOrder == <<"", "10", "2", "2.0", "a", "a b", "l'an">>

NumberOf == ("10" :> 10) @@ ("2" :> 2) @@ ("2.0" :> 2)
PlainOf  == (10 :> "10") @@ (2 :> "2")

SecondsOf == ("10" :> 10) @@ ("4" :> 4)

SpelledOf == ("" :> << >>) @@ ("a b" :> <<"a", " ", "b">>) @@ ("l'an" :> <<"l", "'", "an">>)

\* The last command and its answer are compared with the state before it.
Content == <<state, index, closed>>
=============================================================================
