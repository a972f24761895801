------------------------------ MODULE MCSlides ------------------------------
(* Model checking of Slides.tla with the statements of Deck.tla.           *)
EXTENDS Slides, TLC

D == INSTANCE Deck

WasmRedis == D!WasmRedis

\* The numbers of lines of the quoted files at this commit, and the captures.
LinesOfTheCommit ==
  ("engine/types.go" :> 67) @@ ("command/command.go" :> 130) @@ ("engine/engine.go" :> 181) @@
  ("index/index.go" :> 147) @@ ("engine/persistence.go" :> 151) @@ ("storage/storage.go" :> 155) @@
  ("index/types.go" :> 17) @@ ("engine/background.go" :> 62) @@ ("main.go" :> 104) @@
  ("api/api.go" :> 180) @@ ("engine/batch.go" :> 20) @@ ("TaskList.jsx" :> 203) @@
  ("ui-dashboard" :> 1) @@ ("ui-liste" :> 1)

Shots == {"ui-dashboard", "ui-liste"}

Quotes == DOMAIN LinesOfTheCommit \ Shots

\* What the theorems about the pages ask of a script holds of this one, with
\* lines of up to 150 characters; no file of the commit has longer ones.
ASSUME WasmRedisAssumption == OwnPictures /\ Excerpts /\ Explained /\ Neat(0..150)
============================================================================
