---------------------------- MODULE SlidesProofs ----------------------------
(***************************************************************************)
(* Proofs about Slides.tla and Layout.tla, for any script and any files.    *)
(***************************************************************************)
EXTENDS Slides, FiniteSetTheorems, TLAPS

----------------------------------------------------------------------------
(* Cutting long lines                                                      *)

LEMMA DivMod ==
  ASSUME NEW a \in Nat, NEW b \in Nat \ {0}
  PROVE  /\ a \div b \in Nat /\ a % b \in 0..(b - 1)
         /\ a = b * (a \div b) + (a % b)
  OBVIOUS

\* On a picture wider than four columns, the blanks of a cut line leave room
\* for at least one character, so that wrap (build.py:165) comes to an end.
LEMMA IndentLeavesRoom ==
  ASSUME NEW leading \in Nat, NEW cols \in Nat, cols > 4
  PROVE  Indent(leading, cols) \in 0..(cols - 1)
  BY DEF Indent, Least, Greatest

\* wrap draws every character within the picture ...
THEOREM CharactersInside ==
  ASSUME NEW leading \in Nat, NEW cols \in Nat, cols > 4, NEW c \in Nat
  PROVE  Spot(c, leading, cols).col \in 0..(cols - 1)
  <1>1. CASE c < cols
    BY <1>1 DEF Spot
  <1>2. CASE c >= cols
    <2> DEFINE room == cols - Indent(leading, cols)
               rest == c - cols
    <2>1. room \in Nat \ {0} /\ rest \in Nat /\ Indent(leading, cols) \in Nat
      BY <1>2, IndentLeavesRoom
    <2>2. rest % room \in 0..(room - 1)
      BY <2>1, DivMod
    <2>3. Spot(c, leading, cols).col = Indent(leading, cols) + (rest % room)
      BY <1>2 DEF Spot
    <2> QED
      BY <2>1, <2>2, <2>3
  <1> QED
    BY <1>1, <1>2

\* ... and no two characters of a line at the same place.
THEOREM CharactersApart ==
  ASSUME NEW leading \in Nat, NEW cols \in Nat, cols > 4,
         NEW c \in Nat, NEW d \in Nat, Spot(c, leading, cols) = Spot(d, leading, cols)
  PROVE  c = d
  <1> DEFINE room == cols - Indent(leading, cols)
  <1>1. room \in Nat \ {0}
    BY IndentLeavesRoom
  <1>2. \A e \in Nat : e < cols => Spot(e, leading, cols) = [row |-> 1, col |-> e]
    BY DEF Spot
  <1>3. \A e \in Nat : e >= cols =>
          Spot(e, leading, cols) = [row |-> 2 + ((e - cols) \div room),
                                    col |-> Indent(leading, cols) + ((e - cols) % room)]
    BY DEF Spot
  <1>4. \A e \in Nat : e >= cols =>
          /\ (e - cols) \div room \in Nat /\ (e - cols) % room \in Nat
          /\ e - cols = room * ((e - cols) \div room) + ((e - cols) % room)
    <2> SUFFICES ASSUME NEW e \in Nat, e >= cols
                 PROVE  /\ (e - cols) \div room \in Nat /\ (e - cols) % room \in Nat
                        /\ e - cols = room * ((e - cols) \div room) + ((e - cols) % room)
      OBVIOUS
    <2>1. e - cols \in Nat
      OBVIOUS
    <2> HIDE DEF room
    <2>2. (e - cols) % room \in Nat
      BY <1>1, <2>1, DivMod
    <2> QED
      BY <1>1, <2>1, <2>2, DivMod
  <1>5. CASE c < cols /\ d < cols
    BY <1>2, <1>5
  <1>6. CASE c < cols /\ d >= cols
    BY <1>2, <1>3, <1>4, <1>6
  <1>7. CASE c >= cols /\ d < cols
    BY <1>2, <1>3, <1>4, <1>7
  <1>8. CASE c >= cols /\ d >= cols
    <2>1. Spot(c, leading, cols).row = Spot(d, leading, cols).row
          /\ Spot(c, leading, cols).col = Spot(d, leading, cols).col
      OBVIOUS
    <2>2. 2 + ((c - cols) \div room) = 2 + ((d - cols) \div room)
          /\ Indent(leading, cols) + ((c - cols) % room) = Indent(leading, cols) + ((d - cols) % room)
      BY <2>1, <1>3, <1>8
    <2>3. (c - cols) \div room = (d - cols) \div room /\ (c - cols) % room = (d - cols) % room
      BY <2>2, <1>4, <1>8, IndentLeavesRoom
    <2>4. c - cols = d - cols
      BY <2>3, <1>4, <1>8
    <2> QED
      BY <2>4
  <1> QED
    BY <1>5, <1>6, <1>7, <1>8

----------------------------------------------------------------------------
(* Placing pictures                                                        *)

LEMMA DivBelow ==
  ASSUME NEW a \in Nat, NEW b \in Nat \ {0}, NEW q \in Nat, a \div b > q
  PROVE  a >= b * q
  <1>1. a = b * (a \div b) + (a % b) /\ a % b \in Nat /\ a \div b \in Nat
    BY DivMod
  <1>2. PICK k \in Nat : a \div b = q + k
    <2>1. (a \div b) - q \in Nat /\ a \div b = q + ((a \div b) - q)
      BY <1>1
    <2> QED
      BY <2>1
  <1>3. b * (q + k) = b * q + b * k /\ b * k \in Nat
    OBVIOUS
  <1> QED
    BY <1>1, <1>2, <1>3

LEMMA DivAtMost ==
  ASSUME NEW a \in Nat, NEW b \in Nat \ {0}, NEW q \in Nat, a <= b * q
  PROVE  a \div b <= q
  <1>1. a = b * (a \div b) + (a % b) /\ a % b \in Nat /\ a \div b \in Nat
    BY DivMod
  <1>2. SUFFICES ASSUME a \div b > q PROVE FALSE
    BY <1>1
  <1>3. PICK k \in Nat : a \div b = q + 1 + k
    <2>1. (a \div b) - q - 1 \in Nat /\ a \div b = q + 1 + ((a \div b) - q - 1)
      BY <1>1, <1>2
    <2> QED
      BY <2>1
  <1>4. b * (q + 1 + k) = b * q + b + b * k /\ b * k \in Nat
    OBVIOUS
  <1> QED
    BY <1>1, <1>3, <1>4

\* place (build.py:460) never exceeds the width and the height it is given,
\* whatever the size of the picture.
THEOREM PictureFits ==
  ASSUME NEW size \in [w : Nat \ {0}, h : Nat \ {0}], NEW x \in Nat, NEW y \in Nat,
         NEW maxW \in Nat, NEW maxH \in Nat
  PROVE  /\ Place(size, x, y, maxW, maxH).w <= maxW
         /\ Place(size, x, y, maxW, maxH).h <= maxH
  <1> DEFINE h == (maxW * size.h) \div size.w
  <1>1. maxW * size.h \in Nat /\ maxH * size.w \in Nat /\ maxW * size.h = size.h * maxW
        /\ maxH * size.w = size.w * maxH
    OBVIOUS
  <1>2. h \in Nat
    BY <1>1, DivMod
  <1>3. CASE h > maxH
    <2>1. maxW * size.h >= size.w * maxH
      BY <1>1, <1>3, DivBelow
    <2>2. maxH * size.w <= size.h * maxW
      BY <1>1, <2>1
    <2>3. (maxH * size.w) \div size.h <= maxW
      BY <1>1, <2>2, DivAtMost
    <2> QED
      BY <1>3, <2>3 DEF Place, Block
  <1>4. CASE ~(h > maxH)
    BY <1>2, <1>4 DEF Place, Block
  <1> QED
    BY <1>3, <1>4

----------------------------------------------------------------------------
(* Runs and edits                                                          *)

\* Where the pictures of img/ come from: what the current run drew quotes the
\* files as the run has them in its cache, its variables only lead to pictures
\* it drew, and its page to those and to captures.
Provenance ==
  /\ run \in Nat /\ pc \in Nat /\ (pc # 0 => run # 0)
  /\ \A p \in Paths : files[p].version \in Nat
  /\ \A n \in Names :
       /\ disk[n].run \in 0..run
       /\ run = 0 /\ disk[n].path \in Paths => disk[n].version = 0
       /\ disk[n].run = run /\ run # 0 /\ disk[n].path \in Paths =>
            /\ cache[disk[n].path] # Unread
            /\ disk[n].version = cache[disk[n].path].version
  /\ \A v \in DOMAIN env : env[v] # None => env[v] \in Names /\ disk[env[v]].run = run
  /\ PicturesFresh

Domains ==
  DOMAIN disk = Names /\ DOMAIN cache = Paths /\ DOMAIN files = Files /\ DOMAIN env = Vars

LEMMA InitProvenance == Init => Provenance /\ Domains
  <1> SUFFICES ASSUME Init PROVE Provenance /\ Domains
    OBVIOUS
  <1>1. \A p \in Files : files[p].version = 0
    BY DEF Init
  <1>2. \A n \in Names : disk[n].run = 0 /\ (disk[n].path \in Paths => disk[n].version = 0)
    <2> SUFFICES ASSUME NEW n \in Names
                 PROVE  disk[n].run = 0 /\ (disk[n].path \in Paths => disk[n].version = 0)
      OBVIOUS
    <2> DEFINE s == CHOOSE d \in Drawings : d.name = n
    <2>1. s \in Drawings /\ s.name = n
      BY DEF Names
    <2>2. disk[n] = Drawn(s, IF s.do = "text_png" THEN Unread ELSE files[s.path], 0)
      BY DEF Init
    <2>3. s.do # "text_png" /\ s.path \in Paths => files[s.path].version = 0
      BY <1>1 DEF Files
    <2>4. None \notin Paths
      BY SlidesAssumption DEF SlidesAssumption, Files
    <2> HIDE DEF s
    <2> QED
      BY <2>2, <2>3, <2>4 DEF Drawn
  <1>3. Domains
    BY DEF Init, Domains
  <1>4. \A v \in DOMAIN env : env[v] = None
    BY DEF Init
  <1>5. run = 0 /\ pc = 0 /\ PicturesFresh
    BY DEF Init, PicturesFresh, NewPage
  <1> QED
    BY <1>1, <1>2, <1>3, <1>4, <1>5 DEF Provenance, Files

\* Steps that draw nothing and read nothing keep the invariant if what they
\* add to the page comes from a variable or is a capture.
LEMMA QuietSteps ==
  ASSUME Provenance, Domains, UNCHANGED <<files, disk, run, cache, env>>, pc' \in Nat, pc # 0,
         \A picture \in page'.pictures :
           \/ picture \in page.pictures
           \/ \E v \in DOMAIN env : env[v] # None /\ picture = disk[env[v]]
           \/ picture.run = NoRun /\ picture.path \in Captures
  PROVE  Provenance' /\ Domains'
  <1>1. PicturesFresh'
    BY DEF Provenance, PicturesFresh
  <1> QED
    BY <1>1 DEF Provenance, Domains

LEMMA DrawKeeps ==
  ASSUME Provenance, Domains, DrawCode
  PROVE  Provenance' /\ Domains'
  <1> DEFINE s == Script[pc]
             file == Tokenized(s.path)
  <1>1. /\ s \in Drawings /\ s.do = "code_png" /\ pc \in Nat /\ pc # 0 /\ run \in Nat /\ run # 0
    BY DEF DrawCode, Current, Draw, Drawings, Provenance
  <1>2. s.name \in Names /\ s.path \in Paths /\ s.name # None
    BY <1>1, SlidesAssumption DEF SlidesAssumption, Names
  <1>3. file # Unread
    <2>1. files[s.path].version \in Nat
      BY <1>2 DEF Provenance
    <2>2. files[s.path] # Unread
      BY <2>1 DEF Unread
    <2> QED
      BY <2>2 DEF Tokenized
  <1>4. /\ cache' = [cache EXCEPT ![s.path] = file]
        /\ disk' = [disk EXCEPT ![s.name] = Drawn(s, file, run)]
        /\ env' = [env EXCEPT ![s.var] = s.name]
        /\ pc' = pc + 1 /\ UNCHANGED <<files, run, page>>
    BY DEF DrawCode
  <1>5. Drawn(s, file, run).run = run /\ Drawn(s, file, run).path = s.path
        /\ Drawn(s, file, run).version = file.version
    BY <1>1 DEF Drawn
  <1>6. \A p \in Paths : cache[p] # Unread => cache'[p] = cache[p]
    BY <1>2, <1>4 DEF Tokenized, Domains
  <1>7. cache'[s.path] = file
    BY <1>2, <1>4 DEF Domains
  <1>8. disk'[s.name] = Drawn(s, file, run) /\ \A n \in Names \ {s.name} : disk'[n] = disk[n]
    BY <1>2, <1>4 DEF Domains
  <1>9. DOMAIN env' = DOMAIN env /\ \A v \in DOMAIN env : env'[v] = s.name \/ env'[v] = env[v]
    BY <1>4
  <1>10. Domains'
    BY <1>4 DEF Domains
  <1> HIDE DEF s, file
  <1>11. PicturesFresh'
    BY <1>4 DEF Provenance, PicturesFresh
  <1>12. \A n \in Names :
           /\ disk'[n].run \in 0..run
           /\ disk'[n].run = run /\ disk'[n].path \in Paths =>
                /\ cache'[disk'[n].path] # Unread
                /\ disk'[n].version = cache'[disk'[n].path].version
    <2> SUFFICES ASSUME NEW n \in Names
                 PROVE  /\ disk'[n].run \in 0..run
                        /\ disk'[n].run = run /\ disk'[n].path \in Paths =>
                             /\ cache'[disk'[n].path] # Unread
                             /\ disk'[n].version = cache'[disk'[n].path].version
      OBVIOUS
    <2>1. CASE n = s.name
      BY <2>1, <1>1, <1>2, <1>3, <1>5, <1>7, <1>8
    <2>2. CASE n # s.name
      BY <2>2, <1>1, <1>6, <1>8 DEF Provenance
    <2> QED
      BY <2>1, <2>2
  <1>13. \A v \in DOMAIN env' : env'[v] # None => env'[v] \in Names /\ disk'[env'[v]].run = run
    <2> SUFFICES ASSUME NEW v \in DOMAIN env, env'[v] # None
                 PROVE  env'[v] \in Names /\ disk'[env'[v]].run = run
      BY <1>9
    <2>1. CASE env'[v] = s.name
      BY <2>1, <1>2, <1>5, <1>8
    <2>2. CASE env'[v] # s.name
      BY <2>2, <1>8, <1>9 DEF Provenance
    <2> QED
      BY <2>1, <2>2
  <1> QED
    BY <1>1, <1>4, <1>10, <1>11, <1>12, <1>13 DEF Provenance

\* Pictures of texts and cuttings of captures quote no file.
LEMMA DrawOtherKeeps ==
  ASSUME Provenance, Domains, DrawText \/ Crop
  PROVE  Provenance' /\ Domains'
  <1> DEFINE s == Script[pc]
  <1>1. s \in Drawings /\ pc \in Nat /\ pc # 0 /\ run \in Nat /\ run # 0
    BY DEF DrawText, Crop, Current, Draw, Drawings, Provenance
  <1>2. s.name \in Names
    BY <1>1 DEF Names
  <1>3. PICK picture :
          /\ disk' = [disk EXCEPT ![s.name] = picture]
          /\ picture.run = run /\ picture.path \notin Paths
    <2>1. CASE DrawText
      <3> DEFINE picture == Drawn(s, Unread, run)
      <3>1. None \notin Paths
        BY SlidesAssumption DEF SlidesAssumption, Files
      <3>2. disk' = [disk EXCEPT ![s.name] = picture] /\ s.do = "text_png"
        BY <2>1 DEF DrawText, Current
      <3>3. picture.run = run /\ picture.path = None
        BY <3>2 DEF Drawn
      <3> HIDE DEF picture
      <3> QED
        BY <3>1, <3>2, <3>3
    <2>2. CASE Crop
      <3> DEFINE picture == Drawn(s, files[s.path], run)
      <3>1. s.path \in Captures /\ s.path \notin Paths
        BY <2>2, SlidesAssumption DEF SlidesAssumption, Crop, Current
      <3>2. disk' = [disk EXCEPT ![s.name] = picture] /\ s.do = "crop"
        BY <2>2 DEF Crop, Current
      <3>3. picture.run = run /\ picture.path = s.path
        BY <3>2 DEF Drawn
      <3> HIDE DEF picture
      <3> QED
        BY <3>1, <3>2, <3>3
    <2> QED
      BY <2>1, <2>2
  <1>4. /\ env' = [env EXCEPT ![s.var] = s.name]
        /\ pc' = pc + 1 /\ UNCHANGED <<files, run, cache, page>>
    BY DEF DrawText, Crop
  <1>5. disk'[s.name] = picture /\ \A n \in Names \ {s.name} : disk'[n] = disk[n]
    BY <1>2, <1>3 DEF Domains
  <1>6. DOMAIN env' = DOMAIN env /\ \A v \in DOMAIN env : env'[v] = s.name \/ env'[v] = env[v]
    BY <1>4
  <1>7. Domains'
    BY <1>3, <1>4 DEF Domains
  <1> HIDE DEF s
  <1>8. PicturesFresh'
    BY <1>4 DEF Provenance, PicturesFresh
  <1>9. \A n \in Names :
          /\ disk'[n].run \in 0..run
          /\ disk'[n].run = run /\ disk'[n].path \in Paths =>
               /\ cache[disk'[n].path] # Unread
               /\ disk'[n].version = cache[disk'[n].path].version
    BY <1>1, <1>3, <1>5 DEF Provenance
  <1>10. \A v \in DOMAIN env' : env'[v] # None => env'[v] \in Names /\ disk'[env'[v]].run = run
    BY <1>2, <1>3, <1>5, <1>6 DEF Provenance
  <1> QED
    BY <1>1, <1>4, <1>7, <1>8, <1>9, <1>10 DEF Provenance

LEMMA StepProvenance ==
  ASSUME Provenance, Domains, [Next]_vars
  PROVE  Provenance' /\ Domains'
  <1>1. ASSUME NEW p \in Editable, Edit(p) PROVE Provenance' /\ Domains'
    <2>1. \A q \in Paths : q \in DOMAIN files
      BY DEF Domains, Files
    <2>2. \A q \in Paths : files'[q].version \in Nat
      BY <1>1, <2>1 DEF Edit, Provenance
    <2>3. DOMAIN files' = Files
      BY <1>1 DEF Edit, Domains
    <2> QED
      BY <1>1, <2>2, <2>3 DEF Edit, Provenance, Domains, PicturesFresh
  <1>2. CASE Launch
    BY <1>2 DEF Launch, Provenance, Domains, PicturesFresh, NewPage
  <1>3. CASE BeginPage
    BY <1>3, QuietSteps DEF BeginPage, Current, NewPage, Provenance
  <1>4. CASE AddBlocks
    <2>1. \A picture \in page'.pictures : picture \in page.pictures
      BY <1>4 DEF AddBlocks
    <2> QED
      BY <1>4, <2>1, QuietSteps DEF AddBlocks, Current, Provenance
  <1>5. CASE Remark
    BY <1>5, QuietSteps DEF Remark, Current, Provenance
  <1>6. CASE DrawCode
    BY <1>6, DrawKeeps
  <1>7. CASE DrawText \/ Crop
    BY <1>7, DrawOtherKeeps
  <1>8. CASE PlacePicture
    <2>1. Script[pc].var \in DOMAIN env /\ env[Script[pc].var] # None
      BY <1>8, SlidesAssumption DEF PlacePicture, Raises, Current, SlidesAssumption, Domains
    <2>2. \A picture \in page'.pictures :
            picture \in page.pictures \/ picture = disk[env[Script[pc].var]]
      BY <1>8 DEF PlacePicture
    <2> QED
      BY <1>8, <2>1, <2>2, QuietSteps DEF PlacePicture, Current, Provenance
  <1>9. CASE ExplainCode
    <2>1. Script[pc].var \in DOMAIN env /\ env[Script[pc].var] # None
      BY <1>9, SlidesAssumption DEF ExplainCode, Raises, Current, SlidesAssumption, Domains
    <2>2. \A picture \in page'.pictures :
            picture \in page.pictures \/ picture = disk[env[Script[pc].var]]
      BY <1>9 DEF ExplainCode
    <2> QED
      BY <1>9, <2>1, <2>2, QuietSteps DEF ExplainCode, Current, Provenance
  <1>10. CASE Fail
    <2>1. \A p \in Paths : cache[p] # Unread => cache'[p] = cache[p]
      BY <1>10 DEF Fail, Tokenized, Domains
    <2>2. Domains'
      BY <1>10 DEF Fail, Domains
    <2>3. PicturesFresh'
      BY <1>10 DEF Fail, PicturesFresh, NewPage
    <2> QED
      BY <1>10, <2>1, <2>2, <2>3 DEF Fail, Provenance
  <1>11. CASE End
    BY <1>11, QuietSteps DEF End, NewPage, Provenance
  <1>12. CASE PlaceCapture
    <2>1. Captured(Script[pc]).run = NoRun /\ Captured(Script[pc]).path \in Captures
      BY <1>12, SlidesAssumption DEF SlidesAssumption, PlaceCapture, Current, Captured
    <2>2. \A picture \in page'.pictures :
            picture \in page.pictures \/ picture = Captured(Script[pc])
      BY <1>12 DEF PlaceCapture
    <2>3. pc' \in Nat /\ pc # 0 /\ UNCHANGED <<files, disk, run, cache, env>>
      BY <1>12 DEF PlaceCapture, Current, Provenance
    <2> QED
      BY <2>1, <2>2, <2>3, QuietSteps
  <1>13. CASE UNCHANGED vars
    BY <1>13 DEF vars, Provenance, Domains, PicturesFresh
  <1> QED
    BY <1>1, <1>2, <1>3, <1>4, <1>5, <1>6, <1>7, <1>8, <1>9, <1>10, <1>11, <1>12, <1>13 DEF Next

\* Each picture quotes the version that its run has in the cache.
THEOREM ProvenanceKept == Spec => []Provenance
  <1>1. Init => Provenance /\ Domains
    BY InitProvenance
  <1>2. Provenance /\ Domains /\ [Next]_vars => Provenance' /\ Domains'
    BY StepProvenance
  <1> QED
    BY <1>1, <1>2, PTL DEF Spec

\* All excerpts that a run draws of one file quote the same version of it, for
\* any script, any files and any edits (build.py:90).
THEOREM OneVersion == Spec => []OneVersionPerFile
  <1>1. Provenance => OneVersionPerFile
    BY DEF Provenance, OneVersionPerFile
  <1> QED
    BY <1>1, ProvenanceKept, PTL

\* A page shows only pictures that its own run has drawn, and captures, which
\* no run draws (build.py:257, 460), for any script and any captures.
THEOREM FreshPictures == Spec => []PicturesFresh
  <1>1. Provenance => PicturesFresh
    BY DEF Provenance
  <1> QED
    BY <1>1, ProvenanceKept, PTL
----------------------------------------------------------------------------
(* Types                                                                   *)

FilesTyped == files \in [Files -> [version : 0..MaxEdits, lines : Nat, length : Lengths]]

TypeInv == FilesTyped /\ TypeOK /\ DOMAIN cache = Paths /\ DOMAIN env = Vars

\* A file that may still be edited has not reached its last version.
LEMMA EditsLeft ==
  ASSUME FilesTyped, NEW p \in Editable, Edits < MaxEdits
  PROVE  files[p].version < MaxEdits
<1> DEFINE all  == Editable \X (1..MaxEdits)
           E    == {e \in all : e[2] <= files[e[1]].version}
           mine == {p} \X (1..MaxEdits)
<1>1. MaxEdits \in Nat /\ p \in Files /\ IsFiniteSet(Editable)
  BY SlidesAssumption
<1>2. files[p].version \in 0..MaxEdits
  BY <1>1 DEF FilesTyped
<1>3. IsFiniteSet(1..MaxEdits) /\ Cardinality(1..MaxEdits) = MaxEdits
  <2>1. IsFiniteSet(1..MaxEdits)
        /\ Cardinality(1..MaxEdits) = IF 1 > MaxEdits THEN 0 ELSE MaxEdits - 1 + 1
    BY <1>1, FS_Interval
  <2> QED BY <1>1, <2>1
<1>4. IsFiniteSet(E)
  BY <1>1, <1>3, FS_Product, FS_Subset
<1>5. Cardinality(mine) = MaxEdits
  <2>1. IsFiniteSet({p}) /\ Cardinality({p}) = 1
    BY FS_Singleton
  <2>2. Cardinality(mine) = Cardinality({p}) * Cardinality(1..MaxEdits)
    BY <1>3, <2>1, FS_Product
  <2> QED BY <1>1, <1>3, <2>1, <2>2
<1>6. SUFFICES ASSUME files[p].version = MaxEdits PROVE FALSE
  BY <1>1, <1>2
<1>7. mine \in SUBSET E
  BY <1>1, <1>6
<1>8. Cardinality(mine) <= Cardinality(E) /\ Cardinality(E) \in Nat
  BY <1>4, <1>7, FS_Subset, FS_CardinalityType
<1> QED BY <1>1, <1>5, <1>8 DEF Edits

LEMMA InitTyped == Init => TypeInv
<1> SUFFICES ASSUME Init PROVE TypeInv
  OBVIOUS
<1>1. FilesTyped
  BY SlidesAssumption DEF Init, FilesTyped
<1>2. \A n \in Names : disk[n].run = 0
  BY DEF Init, Drawn
<1>3. \A p \in Files : files[p].version \in 0..MaxEdits /\ files[p].length \in Lengths
  BY <1>1 DEF FilesTyped
<1>4. MaxEdits \in Nat /\ MaxRuns \in Nat /\ Len(Script) \in Nat
  BY SlidesAssumption
<1> QED BY <1>1, <1>2, <1>3, <1>4 DEF Init, TypeInv, TypeOK

\* What a run has read is never newer than the file.
LEMMA TokenizedTyped ==
  ASSUME TypeInv, NEW p \in Paths
  PROVE  \A q \in Paths :
           LET read == [cache EXCEPT ![p] = Tokenized(p)]
           IN read[q] = Unread \/ read[q].version \in 0..files[q].version
<1>1. files[p].version \in Nat
  BY SlidesAssumption DEF TypeInv, FilesTyped, Files
<1> QED BY <1>1 DEF TypeInv, TypeOK, Tokenized

LEMMA StepTyped == TypeInv /\ [Next]_vars => TypeInv'
<1> SUFFICES ASSUME TypeInv, [Next]_vars PROVE TypeInv'
  OBVIOUS
<1>0. /\ run \in 0..MaxRuns /\ pc \in 0..(Len(Script) + 1) /\ over \in 0..run
      /\ MaxEdits \in Nat /\ MaxRuns \in Nat /\ Shrink \in Nat /\ Len(Script) \in Nat
  BY SlidesAssumption DEF TypeInv, TypeOK
<1>1. ASSUME NEW p \in Editable, Edit(p) PROVE TypeInv'
  <2>1. p \in Files /\ files[p].version < MaxEdits /\ files[p].length \in Lengths
    BY <1>1, EditsLeft, SlidesAssumption DEF TypeInv, Edit, FilesTyped
  <2>2. PICK n \in Lengths, fewer \in {0, Shrink} :
          files' = [files EXCEPT ![p] = [version |-> files[p].version + 1, length |-> n,
                                         lines |-> Greatest(0, files[p].lines - fewer)]]
    BY <1>1, <2>1 DEF Edit
  <2>3. files[p].version \in 0..MaxEdits /\ files[p].lines \in Nat
    BY <2>1 DEF TypeInv, FilesTyped
  <2>4. files[p].version + 1 \in 0..MaxEdits /\ Greatest(0, files[p].lines - fewer) \in Nat
    BY <1>0, <2>1, <2>3 DEF Greatest
  <2>5. FilesTyped'
    BY <2>2, <2>4 DEF TypeInv, FilesTyped
  <2>6. \A q \in Files : files[q].version \in Nat /\ files'[q].version \in Nat
                         /\ files[q].version <= files'[q].version
    BY <1>0, <2>1, <2>2, <2>3 DEF TypeInv, FilesTyped
  <2>7. \A q \in Paths : cache[q] = Unread \/ cache[q].version \in 0..files'[q].version
    BY <2>6 DEF TypeInv, TypeOK, Files
  <2>8. \A q \in Files : files'[q].version \in 0..MaxEdits /\ files'[q].length \in Lengths
    BY <2>5 DEF FilesTyped
  <2> QED BY <1>1, <2>5, <2>7, <2>8 DEF Edit, TypeInv, TypeOK
<1>2. CASE Launch
  BY <1>0, <1>2 DEF Launch, TypeInv, TypeOK, FilesTyped
<1>3. CASE BeginPage \/ AddBlocks \/ Remark \/ PlaceCapture \/ PlacePicture \/ ExplainCode
  <2>1. pc' \in 0..(Len(Script) + 1)
    BY <1>0, <1>3 DEF BeginPage, AddBlocks, Remark, PlaceCapture, PlacePicture, ExplainCode, Current
  <2>2. UNCHANGED <<files, disk, cache, env, run, over>>
    BY <1>3 DEF BeginPage, AddBlocks, Remark, PlaceCapture, PlacePicture, ExplainCode
  <2> QED BY <2>1, <2>2 DEF TypeInv, TypeOK, FilesTyped
<1>4. CASE DrawCode \/ DrawText \/ Crop
  <2> DEFINE s == Script[pc]
  <2>1. pc \in 1..Len(Script) /\ s \in Drawings
    BY <1>4 DEF DrawCode, DrawText, Crop, Current, Draw, Drawings
  <2>2. s.name \in Names
    BY <2>1 DEF Names
  <2>3. \E picture : disk' = [disk EXCEPT ![s.name] = picture] /\ picture.run = run
    BY <1>4 DEF DrawCode, DrawText, Crop, Drawn
  <2>4. DOMAIN disk' = Names /\ \A n \in Names : disk'[n].run \in 0..run
    BY <1>0, <2>2, <2>3 DEF TypeInv, TypeOK
  <2>5. env' = [env EXCEPT ![s.var] = s.name] /\ pc' = pc + 1 /\ UNCHANGED <<files, run, over>>
    BY <1>4 DEF DrawCode, DrawText, Crop
  <2>6. DOMAIN env' = Vars /\ \A v \in DOMAIN env' : env'[v] \in Names \cup {None}
    BY <2>2, <2>5 DEF TypeInv, TypeOK
  <2>7. /\ DOMAIN cache' = Paths
        /\ \A q \in Paths : cache'[q] = Unread \/ cache'[q].version \in 0..files[q].version
    <3>1. CASE DrawCode
      <4>1. s.path \in Paths
        BY <2>1, <3>1, SlidesAssumption DEF DrawCode, Current, Draw
      <4>2. cache' = [cache EXCEPT ![s.path] = Tokenized(s.path)]
        BY <3>1 DEF DrawCode
      <4> HIDE DEF s
      <4> QED BY <4>1, <4>2, TokenizedTyped DEF TypeInv
    <3>2. CASE DrawText \/ Crop
      BY <3>2 DEF DrawText, Crop, TypeInv, TypeOK
    <3> QED BY <1>4, <3>1, <3>2
  <2> HIDE DEF s
  <2> QED BY <1>0, <2>1, <2>4, <2>5, <2>6, <2>7 DEF TypeInv, TypeOK, FilesTyped
<1>5. CASE Fail
  <2> DEFINE s == Script[pc]
  <2>1. /\ DOMAIN cache' = Paths
        /\ \A q \in Paths : cache'[q] = Unread \/ cache'[q].version \in 0..files[q].version
    <3>1. CASE s.do = "code_png"
      <4>1. s.path \in Paths
        BY <1>5, <3>1, SlidesAssumption DEF Fail, Draw, Drawings
      <4>2. cache' = [cache EXCEPT ![s.path] = Tokenized(s.path)]
        BY <1>5, <3>1 DEF Fail
      <4> HIDE DEF s
      <4> QED BY <4>1, <4>2, TokenizedTyped DEF TypeInv
    <3>2. CASE s.do # "code_png"
      BY <1>5, <3>2 DEF Fail, TypeInv, TypeOK
    <3> QED BY <3>1, <3>2
  <2>2. pc' \in 0..(Len(Script) + 1) /\ UNCHANGED <<files, disk, env, run, over>>
    BY <1>0, <1>5 DEF Fail
  <2> QED BY <2>1, <2>2 DEF TypeInv, TypeOK, FilesTyped
<1>6. CASE End
  BY <1>0, <1>6 DEF End, TypeInv, TypeOK, FilesTyped
<1>7. CASE UNCHANGED vars
  BY <1>7 DEF vars, TypeInv, TypeOK, FilesTyped
<1> QED BY <1>1, <1>2, <1>3, <1>4, <1>5, <1>6, <1>7 DEF Next

\* Type correctness: nothing that a run has read or drawn is newer than the
\* file or the run itself (build.py:90, 257).
THEOREM WellTyped == Spec => []TypeOK
<1>1. TypeInv => TypeOK
  BY DEF TypeInv
<1> QED BY <1>1, InitTyped, StepTyped, PTL DEF Spec

----------------------------------------------------------------------------
(* The numbers on a picture                                                *)

\* With e rows each, the first row of line i belongs to line i.
LEMMA FirstRow ==
  ASSUME NEW i \in Nat, NEW e \in Nat \ {0}
  PROVE  (i * e) \div e = i /\ (i * e) % e = 0
<1> DEFINE a == i * e
           q == a \div e
           r == a % e
<1>1. a \in Nat
  OBVIOUS
<1>2. q \in Nat /\ r \in 0..(e - 1) /\ a = e * q + r
  <2> HIDE DEF a
  <2> QED BY <1>1, DivMod
<1>3. CASE q < i
  <2>1. PICK k \in Nat : i = q + 1 + k
    <3>1. i - q - 1 \in Nat /\ i = q + 1 + (i - q - 1)
      BY <1>2, <1>3
    <3> QED BY <3>1
  <2>2. (q + 1 + k) * e = e * q + e + k * e /\ k * e \in Nat /\ e * q \in Nat
    BY <1>2
  <2>3. a = e * q + e + k * e
    BY <2>1, <2>2
  <2> HIDE DEF a, q, r
  <2> QED BY <1>2, <2>2, <2>3
<1>4. CASE q > i
  <2>1. PICK k \in Nat : q = i + 1 + k
    <3>1. q - i - 1 \in Nat /\ q = i + 1 + (q - i - 1)
      BY <1>2, <1>4
    <3> QED BY <3>1
  <2>2. e * (i + 1 + k) = i * e + e + e * k /\ e * k \in Nat
    OBVIOUS
  <2>3. e * q = a + e + e * k
    BY <2>1, <2>2
  <2> HIDE DEF a, q, r
  <2> QED BY <1>1, <1>2, <2>2, <2>3
<1>5. CASE q = i
  <2>1. a = e * q
    BY <1>5
  <2>2. e * q \in Nat
    BY <1>2
  <2> HIDE DEF a, q, r
  <2>3. r = 0
    BY <1>2, <2>1, <2>2
  <2> QED BY <1>5, <2>3 DEF a, q, r
<1> QED
  <2> HIDE DEF a, q, r
  <2> QED BY <1>2, <1>3, <1>4, <1>5

\* A line is drawn on at least one row.
LEMMA SomeRow ==
  ASSUME NEW length \in Nat, NEW cols \in Nat, cols > 4
  PROVE  Pieces(length, Leading, cols) \in Nat \ {0}
<1>1. CASE length = 0
  BY <1>1 DEF Pieces
<1>2. CASE length # 0 /\ length - 1 < cols
  BY <1>2 DEF Pieces, Spot
<1>3. CASE length # 0 /\ length - 1 >= cols
  <2> DEFINE room == cols - Indent(Leading, cols)
             rest == length - 1 - cols
  <2>1. room \in Nat \ {0} /\ rest \in Nat
    BY <1>3, IndentLeavesRoom DEF Leading
  <2>2. rest \div room \in Nat
    BY <2>1, DivMod
  <2>3. Pieces(length, Leading, cols) = 2 + (rest \div room)
    BY <1>3 DEF Pieces, Spot
  <2> HIDE DEF room, rest
  <2> QED BY <2>2, <2>3
<1> QED BY <1>1, <1>2, <1>3

\* A picture carries the number of each line it quotes once, on the first row
\* of that line (build.py:208), whatever the length of the lines.
LEMMA NumbersOnce ==
  ASSUME NEW s, NEW n \in Nat, s.cols \in Nat, s.cols > 4,
         Quoted(s) \in Seq(Nat), IsInjective(Quoted(s))
  PROVE  /\ {m[2] : m \in Numbers(s, OfLength(n))}
              = {x \in DOMAIN s.badges : s.badges[x] \in ToSet(Quoted(s))}
         /\ \A a, b \in Numbers(s, OfLength(n)) : a[2] = b[2] => a = b
<1> DEFINE quoted  == Quoted(s)
           each    == RowsEach(s, OfLength(n))
           rows    == 1..(Len(quoted) * each)
           line(r) == 1 + ((r - 1) \div each)
           N       == Numbers(s, OfLength(n))
<1>1. each \in Nat \ {0}
  BY SomeRow DEF RowsEach, OfLength
<1>2. Len(quoted) \in Nat /\ DOMAIN quoted = 1..Len(quoted)
  OBVIOUS
<1>3. N = {m \in rows \X DOMAIN s.badges : s.badges[m[2]] = quoted[line(m[1])] /\ (m[1] - 1) % each = 0}
  BY DEF Numbers
<1>4. ToSet(quoted) = {quoted[i] : i \in 1..Len(quoted)}
  BY <1>2 DEF ToSet
<1>5. \A a, b \in 1..Len(quoted) : quoted[a] = quoted[b] => a = b
  BY <1>2 DEF IsInjective
<1> HIDE DEF quoted, each, N
<1>6. \A r \in rows : line(r) \in 1..Len(quoted)
  <2> SUFFICES ASSUME NEW r \in rows PROVE line(r) \in 1..Len(quoted)
    OBVIOUS
  <2>1. r \in Nat /\ r - 1 \in Nat /\ Len(quoted) * each \in Nat /\ r <= Len(quoted) * each
    BY <1>1, <1>2
  <2>2. (r - 1) \div each \in Nat
    BY <1>1, <2>1, DivMod
  <2>3. (r - 1) \div each < Len(quoted)
    <3>1. SUFFICES ASSUME (r - 1) \div each >= Len(quoted) PROVE FALSE
      BY <1>2, <2>2
    <3>2. CASE Len(quoted) = 0
      BY <1>1, <2>1, <3>2
    <3>3. CASE Len(quoted) # 0
      <4>1. Len(quoted) - 1 \in Nat /\ (r - 1) \div each > Len(quoted) - 1
        BY <1>2, <2>2, <3>1, <3>3
      <4>2. r - 1 >= each * (Len(quoted) - 1)
        BY <1>1, <2>1, <4>1, DivBelow
      <4>3. r - 1 = each * ((r - 1) \div each) + ((r - 1) % each) /\ (r - 1) % each \in Nat
        BY <1>1, <2>1, DivMod
      <4>4. PICK k \in Nat : (r - 1) \div each = Len(quoted) + k
        <5>1. ((r - 1) \div each) - Len(quoted) \in Nat
              /\ (r - 1) \div each = Len(quoted) + (((r - 1) \div each) - Len(quoted))
          BY <1>2, <2>2, <3>1
        <5> QED BY <5>1
      <4>5. each * (Len(quoted) + k) = Len(quoted) * each + each * k /\ each * k \in Nat
        BY <1>1, <1>2
      <4> QED BY <2>1, <4>3, <4>4, <4>5
    <3> QED BY <3>2, <3>3
  <2> QED BY <1>2, <2>2, <2>3
<1>7. ASSUME NEW m \in N
      PROVE  m[2] \in DOMAIN s.badges /\ s.badges[m[2]] \in ToSet(quoted)
  BY <1>3, <1>4, <1>6, <1>7
<1>8. ASSUME NEW x \in DOMAIN s.badges, s.badges[x] \in ToSet(quoted)
      PROVE  \E m \in N : m[2] = x
  <2>1. PICK i \in 1..Len(quoted) : s.badges[x] = quoted[i]
    BY <1>4, <1>8
  <2> DEFINE r == (i - 1) * each + 1
  <2>2. i - 1 \in Nat /\ (i - 1) * each \in Nat /\ Len(quoted) - i \in Nat
    BY <1>1, <1>2
  <2>3. Len(quoted) * each = (i - 1) * each + each + (Len(quoted) - i) * each
        /\ (Len(quoted) - i) * each \in Nat
    <3>1. \A a, b, e \in Nat : (a + 1 + b) * e = a * e + e + b * e /\ b * e \in Nat
      OBVIOUS
    <3>2. Len(quoted) = (i - 1) + 1 + (Len(quoted) - i)
      BY <1>2
    <3> QED BY <1>1, <2>2, <3>1, <3>2
  <2>4. r \in rows /\ r - 1 = (i - 1) * each
    BY <1>1, <1>2, <2>2, <2>3
  <2>5. ((i - 1) * each) \div each = i - 1 /\ ((i - 1) * each) % each = 0
    BY <1>1, <2>2, FirstRow
  <2>6. line(r) = i /\ (r - 1) % each = 0
    BY <2>2, <2>4, <2>5
  <2> HIDE DEF r
  <2>7. <<r, x>> \in rows \X DOMAIN s.badges
    BY <1>8, <2>4
  <2>8. <<r, x>> \in N
    BY <1>3, <2>1, <2>6, <2>7
  <2> QED BY <2>8
<1>9. ASSUME NEW a \in N, NEW b \in N, a[2] = b[2] PROVE a = b
  <2>1. /\ a[1] \in rows /\ b[1] \in rows /\ a = <<a[1], a[2]>> /\ b = <<b[1], b[2]>>
        /\ quoted[line(a[1])] = quoted[line(b[1])]
        /\ (a[1] - 1) % each = 0 /\ (b[1] - 1) % each = 0
    BY <1>3, <1>9
  <2>2. line(a[1]) = line(b[1])
    BY <1>5, <1>6, <2>1
  <2>3. a[1] \in Nat /\ a[1] - 1 \in Nat /\ b[1] \in Nat /\ b[1] - 1 \in Nat
    BY <1>1, <1>2, <2>1
  <2>4. /\ (a[1] - 1) \div each \in Nat /\ (b[1] - 1) \div each \in Nat
        /\ a[1] - 1 = each * ((a[1] - 1) \div each) + ((a[1] - 1) % each)
        /\ b[1] - 1 = each * ((b[1] - 1) \div each) + ((b[1] - 1) % each)
    BY <1>1, <2>3, DivMod
  <2>5. (a[1] - 1) \div each = (b[1] - 1) \div each
    BY <2>2, <2>4
  <2>6. a[1] - 1 = b[1] - 1
    BY <2>1, <2>4, <2>5
  <2>7. a[1] = b[1]
    BY <2>3, <2>6
  <2> QED BY <1>9, <2>1, <2>7
<1>10. {m[2] : m \in N} = {x \in DOMAIN s.badges : s.badges[x] \in ToSet(quoted)}
  BY <1>7, <1>8
<1> QED BY <1>9, <1>10 DEF quoted, N

----------------------------------------------------------------------------
(* Pages                                                                   *)

\* The picture shows what statement s draws, with lines of length n.
Alike(picture, s, n) ==
  /\ picture.size = Size(s, OfLength(n))
  /\ picture.numbers = IF s.do = "code_png" THEN Numbers(s, OfLength(n)) ELSE {}

\* Each picture this run has drawn is in img/ ...
DiskInv ==
  pc # 0 => \A j \in 1..(pc - 1) :
              IsDrawing(j) => \E n \in Lengths : Alike(disk[Script[j].name], Script[j], n)

\* ... and a variable names the last one that was drawn for it.
EnvInv ==
  pc # 0 => \A v \in Vars :
              env[v] # None => \E j \in 1..(pc - 1) :
                                 /\ IsDrawing(j) /\ Script[j].var = v /\ env[v] = Script[j].name
                                 /\ \A i \in (j + 1)..(pc - 1) : ~(IsDrawing(i) /\ Script[i].var = v)

CacheInv == \A p \in Paths : cache[p] # Unread => cache[p].length \in Lengths

\* What statement k draws its numbers from.
NumbersOf(k, n) ==
  IF Shows(k) /\ Script[LastDraw(k)].do = "code_png"
  THEN Numbers(Script[LastDraw(k)], OfLength(n)) ELSE {}

Filled(i) == {k \in DOMAIN Script : OnPage(k, i)}

\* The page, if each picture on it quotes lines of the length f gives it.
PageOf(f) ==
  /\ \A k \in Filled(pc) : Shows(k) => LastDraw(k) \in 1..(k - 1) /\ IsDrawing(LastDraw(k))
  /\ \A b \in page.blocks : \E k \in Filled(pc) : b \in BlocksOf(k, f[k])
  /\ page.drawn = UNION {{k} \X NumbersOf(k, f[k]) : k \in Filled(pc)}
  /\ page.told = UNION {{k} \X Tells(k) : k \in Filled(pc)}

PageInv ==
  /\ DOMAIN page = {"blocks", "pictures", "drawn", "told"}
  /\ pc = 0 => page = NewPage
  /\ pc # 0 => \E f \in [DOMAIN Script -> Lengths] : PageOf(f)

PagesInv == DiskInv /\ EnvInv /\ CacheInv /\ PageInv

\* When a run comes to statement i, the page holds statement i - 1 and, unless
\* that opened it, what it held before.
LEMMA FilledNext ==
  ASSUME NEW i \in DOMAIN Script
  PROVE  /\ Opens(i) => Filled(i + 1) = {i}
         /\ ~Opens(i) => Filled(i + 1) = Filled(i) \cup {i}
         /\ i \notin Filled(i)
<1>1. DOMAIN Script = 1..Len(Script) /\ Len(Script) \in Nat
  BY SlidesAssumption
<1>2. i \in Nat /\ i \notin Filled(i)
  BY <1>1 DEF Filled, OnPage
<1>3. \A k \in Nat : k < i => (k + 1)..(i + 1 - 1) = ((k + 1)..(i - 1)) \cup {i}
  BY <1>2
<1>4. (i + 1)..(i + 1 - 1) = {} /\ i < i + 1
  BY <1>2
<1>5. i \in Filled(i + 1)
  <2>1. OnPage(i, i + 1)
    BY <1>2, <1>4 DEF OnPage
  <2> QED BY <2>1 DEF Filled
<1>6. \A k \in DOMAIN Script : OnPage(k, i + 1) => k = i \/ k < i
  BY <1>1, <1>2 DEF OnPage
<1>7. \A k \in DOMAIN Script : k < i =>
        (OnPage(k, i + 1) <=> OnPage(k, i) /\ ~Opens(i))
  <2> SUFFICES ASSUME NEW k \in DOMAIN Script, k < i
               PROVE  OnPage(k, i + 1) <=> OnPage(k, i) /\ ~Opens(i)
    OBVIOUS
  <2>1. k \in Nat /\ k < i + 1
    BY <1>1, <1>2
  <2>2. (k + 1)..(i + 1 - 1) = ((k + 1)..(i - 1)) \cup {i}
    BY <1>3, <2>1
  <2> QED BY <2>1, <2>2 DEF OnPage
<1>8. \A k \in DOMAIN Script : OnPage(k, i) => k < i
  BY DEF OnPage
<1> QED BY <1>2, <1>5, <1>6, <1>7, <1>8 DEF Filled

\* A statement that adds to the page keeps the invariant ...
LEMMA PageGrows ==
  ASSUME PageInv, pc \in DOMAIN Script, ~Opens(pc), pc' = pc + 1, NEW n \in Lengths,
         Shows(pc) => LastDraw(pc) \in 1..(pc - 1) /\ IsDrawing(LastDraw(pc)),
         DOMAIN page' = DOMAIN page,
         page'.blocks = page.blocks \cup BlocksOf(pc, n),
         page'.drawn = page.drawn \cup ({pc} \X NumbersOf(pc, n)),
         page'.told = page.told \cup ({pc} \X Tells(pc))
  PROVE  PageInv'
<1>1. pc \in Nat /\ pc # 0 /\ pc' # 0
  BY SlidesAssumption
<1>2. PICK f \in [DOMAIN Script -> Lengths] : PageOf(f)
  BY <1>1 DEF PageInv
<1>3. Filled(pc') = Filled(pc) \cup {pc} /\ pc \notin Filled(pc)
  BY FilledNext
<1>4. PICK g \in [DOMAIN Script -> Lengths] : g[pc] = n /\ \A k \in Filled(pc) : g[k] = f[k]
  <2> DEFINE g == [f EXCEPT ![pc] = n]
  <2>1. g \in [DOMAIN Script -> Lengths] /\ g[pc] = n /\ \A k \in Filled(pc) : g[k] = f[k]
    BY <1>3 DEF Filled
  <2> QED BY <2>1
<1>5. \A b \in page'.blocks : \E k \in Filled(pc') : b \in BlocksOf(k, g[k])
  BY <1>2, <1>3, <1>4 DEF PageOf
<1>6. page'.drawn = UNION {{k} \X NumbersOf(k, g[k]) : k \in Filled(pc')}
  BY <1>2, <1>3, <1>4 DEF PageOf
<1>7. page'.told = UNION {{k} \X Tells(k) : k \in Filled(pc')}
  BY <1>2, <1>3, <1>4 DEF PageOf
<1>8. PageOf(g)'
  BY <1>2, <1>3, <1>5, <1>6, <1>7 DEF PageOf
<1> QED BY <1>1, <1>4, <1>8 DEF PageInv

\* ... and so does one that opens a page.
LEMMA PageOpens ==
  ASSUME PageInv, pc \in DOMAIN Script, Opens(pc), pc' = pc + 1, NEW n \in Lengths,
         Shows(pc) => LastDraw(pc) \in 1..(pc - 1) /\ IsDrawing(LastDraw(pc)),
         DOMAIN page' = DOMAIN page,
         page'.blocks = BlocksOf(pc, n),
         page'.drawn = {pc} \X NumbersOf(pc, n),
         page'.told = {pc} \X Tells(pc)
  PROVE  PageInv'
<1>1. pc \in Nat /\ pc # 0 /\ pc' # 0
  BY SlidesAssumption
<1>3. Filled(pc') = {pc}
  BY FilledNext
<1> DEFINE g == [k \in DOMAIN Script |-> n]
<1>4. g \in [DOMAIN Script -> Lengths] /\ g[pc] = n
  OBVIOUS
<1> HIDE DEF g
<1>5. \A b \in page'.blocks : \E k \in Filled(pc') : b \in BlocksOf(k, g[k])
  BY <1>3, <1>4
<1>6. page'.drawn = UNION {{k} \X NumbersOf(k, g[k]) : k \in Filled(pc')}
  BY <1>3, <1>4
<1>7. page'.told = UNION {{k} \X Tells(k) : k \in Filled(pc')}
  BY <1>3, <1>4
<1>8. PageOf(g)'
  BY <1>3, <1>5, <1>6, <1>7 DEF PageOf
<1> QED BY <1>1, <1>4, <1>8 DEF PageInv

\* What a statement shows is what the last statement before it drew for its
\* variable.
LEMMA ShownFound ==
  ASSUME DiskInv, EnvInv, pc \in DOMAIN Script, Shows(pc), env[Script[pc].var] # None
  PROVE  /\ LastDraw(pc) \in 1..(pc - 1) /\ IsDrawing(LastDraw(pc))
         /\ \E n \in Lengths : Alike(disk[env[Script[pc].var]], Script[LastDraw(pc)], n)
<1> DEFINE v == Script[pc].var
<1>1. pc \in Nat /\ pc # 0 /\ v \in Vars
  BY SlidesAssumption DEF Shows
<1>2. PICK j \in 1..(pc - 1) :
        /\ IsDrawing(j) /\ Script[j].var = v /\ env[v] = Script[j].name
        /\ \A i \in (j + 1)..(pc - 1) : ~(IsDrawing(i) /\ Script[i].var = v)
  BY <1>1 DEF EnvInv
<1> DEFINE last(k) == Draws(k, pc) /\ \A i \in (k + 1)..(pc - 1) : ~Draws(i, pc)
<1>3. last(j)
  BY <1>2 DEF Draws
<1>4. \A k \in 1..(pc - 1) : last(k) => k = j
  <2> SUFFICES ASSUME NEW k \in 1..(pc - 1), last(k) PROVE k = j
    OBVIOUS
  <2>1. k < j => j \in (k + 1)..(pc - 1)
    BY <1>1
  <2>2. j < k => k \in (j + 1)..(pc - 1)
    BY <1>1
  <2>3. k < j \/ j < k \/ k = j
    BY <1>1
  <2> QED BY <1>3, <2>1, <2>2, <2>3
<1>5. LastDraw(pc) = CHOOSE k \in 1..(pc - 1) : last(k)
  BY DEF LastDraw
<1> HIDE DEF last
<1>6. LastDraw(pc) = j
  BY <1>3, <1>4, <1>5
<1>7. \E n \in Lengths : Alike(disk[Script[j].name], Script[j], n)
  BY <1>1, <1>2 DEF DiskInv
<1> QED BY <1>2, <1>6, <1>7

\* A picture depends on the length of the lines of the file, and on nothing
\* else that an edit may change.
LEMMA OnlyLengths ==
  ASSUME NEW s, NEW file, NEW r, s.do \in Draw
  PROVE  Alike(Drawn(s, file, r), s, file.length)
<1>1. RowsEach(s, file) = RowsEach(s, OfLength(file.length))
  BY DEF RowsEach, OfLength
<1>2. OfLength(file.length).length = file.length
  BY DEF OfLength
<1>3. Size(s, file) = Size(s, OfLength(file.length))
  BY <1>1, <1>2 DEF Size
<1>4. Numbers(s, file) = Numbers(s, OfLength(file.length))
  BY <1>1 DEF Numbers
<1>5. CASE s.do = "code_png"
  BY <1>3, <1>4, <1>5 DEF Alike, Drawn
<1>6. CASE s.do # "code_png"
  BY <1>3, <1>6 DEF Alike, Drawn
<1> QED BY <1>5, <1>6

\* A statement that draws nothing leaves img/ and the variables alone.
LEMMA QuietPages ==
  ASSUME DiskInv, EnvInv, CacheInv, pc \in DOMAIN Script, ~IsDrawing(pc), pc' = pc + 1,
         UNCHANGED <<disk, env, cache>>
  PROVE  DiskInv' /\ EnvInv' /\ CacheInv'
<1>1. pc \in Nat /\ pc # 0 /\ pc' - 1 = pc
  BY SlidesAssumption
<1>2. \A j \in 1..(pc' - 1) : j = pc \/ j \in 1..(pc - 1)
  BY <1>1
<1>3. DiskInv'
  BY <1>1, <1>2 DEF DiskInv
<1>4. EnvInv'
  <2> SUFFICES ASSUME NEW v \in Vars, env[v] # None
               PROVE  \E j \in 1..(pc' - 1) :
                        /\ IsDrawing(j) /\ Script[j].var = v /\ env[v] = Script[j].name
                        /\ \A i \in (j + 1)..(pc' - 1) : ~(IsDrawing(i) /\ Script[i].var = v)
    BY DEF EnvInv
  <2>1. PICK j \in 1..(pc - 1) :
          /\ IsDrawing(j) /\ Script[j].var = v /\ env[v] = Script[j].name
          /\ \A i \in (j + 1)..(pc - 1) : ~(IsDrawing(i) /\ Script[i].var = v)
    BY <1>1 DEF EnvInv
  <2>2. j \in 1..(pc' - 1) /\ \A i \in (j + 1)..(pc' - 1) : i = pc \/ i \in (j + 1)..(pc - 1)
    BY <1>1
  <2> QED BY <2>1, <2>2
<1>5. CacheInv'
  BY DEF CacheInv
<1> QED BY <1>3, <1>4, <1>5

\* A statement that draws a picture no other one draws: it is in img/ then, and
\* its variable names it.
LEMMA DrawPages ==
  ASSUME OwnPictures, Domains, DiskInv, EnvInv, pc \in DOMAIN Script, IsDrawing(pc), pc' = pc + 1,
         NEW picture, NEW n \in Lengths, Alike(picture, Script[pc], n),
         disk' = [disk EXCEPT ![Script[pc].name] = picture],
         env' = [env EXCEPT ![Script[pc].var] = Script[pc].name]
  PROVE  DiskInv' /\ EnvInv'
<1> DEFINE s == Script[pc]
<1>1. pc \in Nat /\ pc # 0 /\ pc' - 1 = pc /\ DOMAIN Script = 1..Len(Script) /\ Len(Script) \in Nat
  BY SlidesAssumption
<1>2. s \in Drawings
  BY DEF IsDrawing, Drawings
<1>3. s.name \in Names /\ s.var \in Vars
  BY <1>2 DEF Names, Vars
<1>4. disk'[s.name] = picture /\ \A m \in Names : m # s.name => disk'[m] = disk[m]
  BY <1>3 DEF Domains
<1>5. env'[s.var] = s.name /\ \A v \in Vars : v # s.var => env'[v] = env[v]
  BY <1>3 DEF Domains
<1>6. \A j \in 1..(pc' - 1) : j = pc \/ (j \in 1..(pc - 1) /\ j \in DOMAIN Script)
  <2>1. \A j \in 1..pc : j = pc \/ j \in 1..(pc - 1)
    BY <1>1
  <2>2. pc <= Len(Script)
    BY <1>1
  <2>3. \A j \in 1..pc : j \in 1..Len(Script)
    BY <1>1, <2>2
  <2> QED BY <1>1, <2>1, <2>3
<1>7. DiskInv'
  <2> SUFFICES ASSUME NEW j \in 1..(pc' - 1), IsDrawing(j)
               PROVE  \E l \in Lengths : Alike(disk'[Script[j].name], Script[j], l)
    BY DEF DiskInv, Alike
  <2>1. CASE j = pc
    BY <1>4, <2>1
  <2>2. CASE j # pc
    <3>1. j \in 1..(pc - 1) /\ j \in DOMAIN Script
      BY <1>6, <2>2
    <3>2. Script[j].name # s.name /\ Script[j].name \in Names
      BY <2>2, <3>1 DEF OwnPictures, Names, Drawings, IsDrawing
    <3>3. disk'[Script[j].name] = disk[Script[j].name]
      BY <1>4, <3>2
    <3> QED BY <1>1, <3>1, <3>3 DEF DiskInv
  <2> QED BY <2>1, <2>2
<1>8. EnvInv'
  <2> SUFFICES ASSUME NEW v \in Vars, env'[v] # None
               PROVE  \E j \in 1..(pc' - 1) :
                        /\ IsDrawing(j) /\ Script[j].var = v /\ env'[v] = Script[j].name
                        /\ \A i \in (j + 1)..(pc' - 1) : ~(IsDrawing(i) /\ Script[i].var = v)
    BY DEF EnvInv
  <2>1. CASE v = s.var
    <3>1. pc \in 1..(pc' - 1) /\ (pc + 1)..(pc' - 1) = {}
      BY <1>1
    <3> QED BY <1>5, <2>1, <3>1
  <2>2. CASE v # s.var
    <3>1. PICK j \in 1..(pc - 1) :
            /\ IsDrawing(j) /\ Script[j].var = v /\ env[v] = Script[j].name
            /\ \A i \in (j + 1)..(pc - 1) : ~(IsDrawing(i) /\ Script[i].var = v)
      BY <1>1, <1>5, <2>2 DEF EnvInv
    <3>2. j \in 1..(pc' - 1) /\ \A i \in (j + 1)..(pc' - 1) : i = pc \/ i \in (j + 1)..(pc - 1)
      BY <1>1
    <3> QED BY <1>5, <2>2, <3>1, <3>2
  <2> QED BY <2>1, <2>2
<1> QED BY <1>7, <1>8

\* What tokenize returns has lines of the bounded lengths.
LEMMA ReadLengths ==
  ASSUME FilesTyped, CacheInv, NEW p \in Paths
  PROVE  Tokenized(p).length \in Lengths
BY DEF FilesTyped, CacheInv, Tokenized, Files

LEMMA InitPages == Init => PagesInv
<1> SUFFICES ASSUME Init PROVE PagesInv
  OBVIOUS
<1>1. pc = 0 /\ page = NewPage
  BY DEF Init
<1>2. CacheInv
  BY DEF Init, CacheInv
<1> QED BY <1>1, <1>2 DEF PagesInv, DiskInv, EnvInv, PageInv, NewPage

LEMMA StepPages ==
  ASSUME OwnPictures, PagesInv, TypeInv, Domains, [Next]_vars
  PROVE  PagesInv'
<1>0. /\ DiskInv /\ EnvInv /\ CacheInv /\ PageInv /\ FilesTyped
      /\ DOMAIN Script = 1..Len(Script) /\ Len(Script) \in Nat /\ pc \in 0..(Len(Script) + 1)
      /\ DOMAIN page = {"blocks", "pictures", "drawn", "told"}
  BY SlidesAssumption DEF PagesInv, TypeInv, TypeOK, PageInv
<1>n. PICK n0 \in Lengths : TRUE
  BY SlidesAssumption
<1>1. ASSUME NEW p \in Editable, Edit(p) PROVE PagesInv'
  <2>1. UNCHANGED <<disk, pc, cache, env, page>>
    BY <1>1 DEF Edit
  <2> QED BY <1>0, <2>1 DEF PagesInv, DiskInv, EnvInv, CacheInv, PageInv, PageOf
<1>2. CASE Launch
  <2>1. pc' = 1 /\ page' = NewPage /\ UNCHANGED disk /\ env' = [v \in Vars |-> None]
        /\ cache' = [p \in Paths |-> Unread]
    BY <1>2 DEF Launch, Domains
  <2>2. DiskInv' /\ EnvInv' /\ CacheInv'
    BY <2>1 DEF DiskInv, EnvInv, CacheInv
  <2>3. Filled(pc') = {}
    BY <1>0, <2>1 DEF Filled, OnPage
  <2>4. PICK f \in [DOMAIN Script -> Lengths] : TRUE
    <3>1. [k \in DOMAIN Script |-> n0] \in [DOMAIN Script -> Lengths]
      BY <1>n
    <3> QED BY <3>1
  <2>5. PageOf(f)'
    BY <2>1, <2>3 DEF PageOf, NewPage
  <2>6. PageInv'
    BY <2>1, <2>5 DEF PageInv, NewPage
  <2> QED BY <2>2, <2>6 DEF PagesInv
<1>3. CASE BeginPage
  <2>1. /\ pc \in DOMAIN Script /\ Opens(pc) /\ ~Shows(pc) /\ ~IsDrawing(pc)
        /\ Script[pc].do = "page" /\ pc' = pc + 1 /\ page' = NewPage
    BY <1>0, <1>3 DEF BeginPage, Current, Opens, Shows, IsDrawing, Draw
  <2>2. BlocksOf(pc, n0) = {} /\ NumbersOf(pc, n0) = {} /\ Tells(pc) = {}
    BY <2>1 DEF BlocksOf, NumbersOf, Tells
  <2>3. PageInv'
    BY <1>0, <1>n, <2>1, <2>2, PageOpens DEF NewPage
  <2> QED BY <1>0, <1>3, <2>1, <2>3, QuietPages DEF BeginPage, PagesInv
<1>4. CASE AddBlocks
  <2>1. /\ pc \in DOMAIN Script /\ ~Opens(pc) /\ ~Shows(pc) /\ ~IsDrawing(pc)
        /\ Script[pc].do = "add" /\ pc' = pc + 1
        /\ page' = [page EXCEPT !.blocks = @ \cup Script[pc].blocks]
    BY <1>0, <1>4 DEF AddBlocks, Current, Opens, Shows, IsDrawing, Draw
  <2>2. BlocksOf(pc, n0) = Script[pc].blocks /\ NumbersOf(pc, n0) = {} /\ Tells(pc) = {}
    BY <2>1 DEF BlocksOf, NumbersOf, Tells
  <2>3. PageInv'
    BY <1>0, <1>n, <2>1, <2>2, PageGrows
  <2> QED BY <1>0, <1>4, <2>1, <2>3, QuietPages DEF AddBlocks, PagesInv
<1>5. CASE Remark
  <2>1. /\ pc \in DOMAIN Script /\ ~Opens(pc) /\ ~Shows(pc) /\ ~IsDrawing(pc)
        /\ Script[pc].do = "annotations" /\ pc' = pc + 1
        /\ page' = [page EXCEPT !.blocks = @ \cup {Script[pc].block},
                                !.told = @ \cup ({pc} \X Script[pc].numbers)]
    BY <1>0, <1>5 DEF Remark, Current, Opens, Shows, IsDrawing, Draw
  <2>2. /\ BlocksOf(pc, n0) = {Script[pc].block} /\ NumbersOf(pc, n0) = {}
        /\ Tells(pc) = Script[pc].numbers
    BY <2>1 DEF BlocksOf, NumbersOf, Tells
  <2>3. PageInv'
    BY <1>0, <1>n, <2>1, <2>2, PageGrows
  <2> QED BY <1>0, <1>5, <2>1, <2>3, QuietPages DEF Remark, PagesInv
<1>6. ASSUME DrawCode \/ DrawText \/ Crop PROVE PagesInv'
  <2> DEFINE s == Script[pc]
  <2>1. /\ pc \in DOMAIN Script /\ ~Opens(pc) /\ ~Shows(pc) /\ IsDrawing(pc)
        /\ s.do \in {"code_png", "text_png", "crop"} /\ s.do \in Draw
        /\ pc' = pc + 1 /\ UNCHANGED page
    BY <1>0, <1>6 DEF DrawCode, DrawText, Crop, Current, Opens, Shows, IsDrawing, Draw
  <2>2. BlocksOf(pc, n0) = {} /\ NumbersOf(pc, n0) = {} /\ Tells(pc) = {}
    BY <2>1 DEF BlocksOf, NumbersOf, Tells
  <2>3. PageInv'
    BY <1>0, <1>n, <2>1, <2>2, PageGrows
  <2>4. CASE DrawCode
    <3>1. s.path \in Paths
      BY <2>4, SlidesAssumption DEF DrawCode, Current, SlidesAssumption, Draw, Drawings
    <3> DEFINE file == Tokenized(s.path)
    <3>2. file.length \in Lengths
      BY <1>0, <3>1, ReadLengths
    <3>3. /\ cache' = [cache EXCEPT ![s.path] = file]
          /\ disk' = [disk EXCEPT ![s.name] = Drawn(s, file, run)]
          /\ env' = [env EXCEPT ![s.var] = s.name]
      BY <2>4 DEF DrawCode
    <3>4. Alike(Drawn(s, file, run), s, file.length)
      BY <2>1, OnlyLengths
    <3> HIDE DEF file
    <3>5. DiskInv' /\ EnvInv'
      BY <1>0, <2>1, <3>2, <3>3, <3>4, DrawPages
    <3>6. CacheInv'
      BY <1>0, <3>1, <3>2, <3>3 DEF CacheInv, Domains
    <3> QED BY <2>3, <3>5, <3>6 DEF PagesInv
  <2>5. CASE DrawText \/ Crop
    <3>1. PICK file :
            /\ disk' = [disk EXCEPT ![s.name] = Drawn(s, file, run)]
            /\ env' = [env EXCEPT ![s.var] = s.name] /\ UNCHANGED cache /\ s.do # "code_png"
      BY <2>5 DEF DrawText, Crop, Current
    <3>2. Alike(Drawn(s, file, run), s, n0)
      BY <3>1 DEF Alike, Drawn, Size
    <3>3. DiskInv' /\ EnvInv'
      BY <1>0, <1>n, <2>1, <3>1, <3>2, DrawPages
    <3>4. CacheInv'
      BY <1>0, <3>1 DEF CacheInv
    <3> QED BY <2>3, <3>3, <3>4 DEF PagesInv
  <2> QED BY <1>6, <2>4, <2>5
<1>7. CASE PlacePicture
  <2> DEFINE s       == Script[pc]
             picture == disk[env[s.var]]
             d       == Script[LastDraw(pc)]
  <2>1. /\ pc \in DOMAIN Script /\ ~Opens(pc) /\ Shows(pc) /\ ~IsDrawing(pc)
        /\ s.do = "place" /\ pc' = pc + 1 /\ env[s.var] # None
        /\ page' = [page EXCEPT !.blocks = @ \cup {Place(picture.size, s.x, s.y, s.maxW, s.maxH)},
                                !.pictures = @ \cup {picture},
                                !.drawn = @ \cup ({pc} \X picture.numbers)]
    BY <1>0, <1>7 DEF PlacePicture, Current, Opens, Shows, IsDrawing, Draw, Raises
  <2>2. LastDraw(pc) \in 1..(pc - 1) /\ IsDrawing(LastDraw(pc))
        /\ \E n \in Lengths : Alike(picture, d, n)
    BY <1>0, <2>1, ShownFound
  <2>3. PICK n \in Lengths : Alike(picture, d, n)
    BY <2>2
  <2>4. picture.size = SizeOf(pc, n) /\ picture.numbers = NumbersOf(pc, n)
    BY <2>1, <2>3 DEF Alike, SizeOf, NumbersOf
  <2>5. BlocksOf(pc, n) = {Place(picture.size, s.x, s.y, s.maxW, s.maxH)} /\ Tells(pc) = {}
    BY <2>1, <2>4 DEF BlocksOf, Tells
  <2> HIDE DEF picture, d
  <2>6. PageInv'
    BY <1>0, <2>1, <2>2, <2>4, <2>5, PageGrows
  <2> QED BY <1>0, <1>7, <2>1, <2>6, QuietPages DEF PlacePicture, PagesInv
<1>8. CASE ExplainCode
  <2> DEFINE s       == Script[pc]
             picture == disk[env[s.var]]
             d       == Script[LastDraw(pc)]
  <2>1. /\ pc \in DOMAIN Script /\ Opens(pc) /\ Shows(pc) /\ ~IsDrawing(pc)
        /\ s.do = "code_slide" /\ pc' = pc + 1 /\ env[s.var] # None
        /\ page' = [blocks |-> CodeSlide(picture.size, s.items, s.lead, s.footer, s.size, s.maxW),
                    pictures |-> {picture}, drawn |-> {pc} \X picture.numbers,
                    told |-> {pc} \X (1..Len(s.items))]
    BY <1>0, <1>8 DEF ExplainCode, Current, Opens, Shows, IsDrawing, Draw, Raises
  <2>2. LastDraw(pc) \in 1..(pc - 1) /\ IsDrawing(LastDraw(pc))
        /\ \E n \in Lengths : Alike(picture, d, n)
    BY <1>0, <2>1, ShownFound
  <2>3. PICK n \in Lengths : Alike(picture, d, n)
    BY <2>2
  <2>4. picture.size = SizeOf(pc, n) /\ picture.numbers = NumbersOf(pc, n)
    BY <2>1, <2>3 DEF Alike, SizeOf, NumbersOf
  <2>5. /\ BlocksOf(pc, n) = CodeSlide(picture.size, s.items, s.lead, s.footer, s.size, s.maxW)
        /\ Tells(pc) = 1..Len(s.items)
    BY <2>1, <2>4 DEF BlocksOf, Tells
  <2> HIDE DEF picture, d
  <2>6. PageInv'
    BY <1>0, <2>1, <2>2, <2>4, <2>5, PageOpens
  <2> QED BY <1>0, <1>8, <2>1, <2>6, QuietPages DEF ExplainCode, PagesInv
<1>9. CASE Fail
  <2> DEFINE s == Script[pc]
  <2>1. pc' = 0 /\ page' = NewPage
    BY <1>9 DEF Fail
  <2>2. CacheInv'
    <3>1. CASE s.do = "code_png"
      <4>1. s.path \in Paths
        BY <1>0, <1>9, <3>1, SlidesAssumption DEF Fail, SlidesAssumption, Draw, Drawings
      <4>2. cache' = [cache EXCEPT ![s.path] = Tokenized(s.path)]
        BY <1>9, <3>1 DEF Fail
      <4>3. Tokenized(s.path).length \in Lengths
        BY <1>0, <4>1, ReadLengths
      <4> HIDE DEF s
      <4> QED BY <1>0, <4>1, <4>2, <4>3 DEF CacheInv, Domains
    <3>2. CASE s.do # "code_png"
      BY <1>0, <1>9, <3>2 DEF Fail, CacheInv
    <3> QED BY <3>1, <3>2
  <2> QED BY <2>1, <2>2 DEF PagesInv, DiskInv, EnvInv, PageInv, NewPage
<1>10. CASE End
  <2>1. pc' = 0 /\ page' = NewPage /\ UNCHANGED cache
    BY <1>10 DEF End
  <2> QED BY <1>0, <2>1 DEF PagesInv, DiskInv, EnvInv, CacheInv, PageInv, NewPage
<1>11. CASE PlaceCapture
  <2> DEFINE s == Script[pc]
  <2>1. /\ pc \in DOMAIN Script /\ ~Opens(pc) /\ ~Shows(pc) /\ ~IsDrawing(pc)
        /\ s.do = "place_capture" /\ pc' = pc + 1
        /\ page' = [page EXCEPT !.blocks = @ \cup {Place(s.size, s.x, s.y, s.maxW, s.maxH)},
                                !.pictures = @ \cup {Captured(s)}]
    BY <1>0, <1>11 DEF PlaceCapture, Current, Opens, Shows, IsDrawing, Draw
  <2>2. /\ BlocksOf(pc, n0) = {Place(s.size, s.x, s.y, s.maxW, s.maxH)}
        /\ NumbersOf(pc, n0) = {} /\ Tells(pc) = {}
    BY <2>1 DEF BlocksOf, NumbersOf, Tells
  <2>3. PageInv'
    BY <1>0, <1>n, <2>1, <2>2, PageGrows
  <2> QED BY <1>0, <1>11, <2>1, <2>3, QuietPages DEF PlaceCapture, PagesInv
<1>12. CASE UNCHANGED vars
  <2>1. UNCHANGED <<disk, pc, cache, env, page>>
    BY <1>12 DEF vars
  <2> QED BY <1>0, <2>1 DEF PagesInv, DiskInv, EnvInv, CacheInv, PageInv, PageOf
<1> QED BY <1>1, <1>2, <1>3, <1>4, <1>5, <1>6, <1>7, <1>8, <1>9, <1>10, <1>11, <1>12 DEF Next

----------------------------------------------------------------------------
(* What the reader of the pages sees                                       *)

LEMMA PagesKept == ASSUME OwnPictures PROVE Spec => []PagesInv
<1>1. Init => PagesInv /\ TypeInv /\ Provenance /\ Domains
  BY InitPages, InitTyped, InitProvenance
<1>2. PagesInv /\ TypeInv /\ Provenance /\ Domains /\ [Next]_vars
        => PagesInv' /\ TypeInv' /\ Provenance' /\ Domains'
  BY StepPages, StepTyped, StepProvenance
<1> QED BY <1>1, <1>2, PTL DEF Spec

\* Two statements of a page follow each other with no other page in between.
LEMMA FilledTogether ==
  ASSUME NEW i \in Nat, NEW k \in Filled(i), NEW l \in Filled(i)
  PROVE  Together(k, l) \/ Together(l, k)
<1>1. k \in Nat /\ l \in Nat /\ k < i /\ l < i
  BY SlidesAssumption DEF Filled, OnPage
<1>2. CASE k <= l
  <2>1. \A j \in (k + 1)..l : j \in (k + 1)..(i - 1)
    BY <1>1
  <2> QED BY <1>2, <2>1 DEF Together, Filled, OnPage
<1>3. CASE l <= k
  <2>1. \A j \in (l + 1)..k : j \in (l + 1)..(i - 1)
    BY <1>1
  <2> QED BY <1>3, <2>1 DEF Together, Filled, OnPage
<1> QED BY <1>1, <1>2, <1>3

\* If the blocks of each page of the script stay apart and on the page for lines
\* of any length in Lengths, they do so in every run, whatever is edited while
\* it draws (build.py:460, build.py:508, build.py:516): a page never mixes a
\* picture with the place and the remarks of another one.
THEOREM PagesNeat ==
  ASSUME OwnPictures, Neat(Lengths)
  PROVE  Spec => []NothingOverlaps
<1>1. PagesInv /\ TypeInv => NothingOverlaps
  <2> SUFFICES ASSUME PagesInv, TypeInv PROVE NothingOverlaps
    OBVIOUS
  <2>1. CASE pc = 0
    BY <2>1 DEF PagesInv, PageInv, NewPage, NothingOverlaps
  <2>2. CASE pc # 0
    <3>1. PICK f \in [DOMAIN Script -> Lengths] : PageOf(f)
      BY <2>2 DEF PagesInv, PageInv
    <3>2. pc \in Nat
      BY SlidesAssumption DEF TypeInv, TypeOK
    <3>3. \A k \in Filled(pc) :
            k \in DOMAIN Script /\ BlocksOf(k, f[k]) \in {BlocksOf(k, n) : n \in Lengths}
      BY DEF Filled
    <3>4. \A b \in page.blocks : \E k \in Filled(pc) : b \in BlocksOf(k, f[k])
      BY <3>1 DEF PageOf
    <3>5. \A a \in page.blocks : OnThePage(a)
      BY <3>3, <3>4 DEF Neat
    <3>6. ASSUME NEW a \in page.blocks, NEW b \in page.blocks, a # b PROVE ~Overlap(a, b)
      <4>1. PICK k \in Filled(pc) : a \in BlocksOf(k, f[k])
        BY <3>4
      <4>2. PICK l \in Filled(pc) : b \in BlocksOf(l, f[l])
        BY <3>4
      <4>3. CASE k = l
        BY <3>3, <3>6, <4>1, <4>2, <4>3 DEF Neat
      <4>4. CASE k # l /\ Together(k, l)
        BY <3>3, <3>6, <4>1, <4>2, <4>4 DEF Neat
      <4>5. CASE k # l /\ Together(l, k)
        <5>1. ~Overlap(b, a)
          BY <3>3, <3>6, <4>1, <4>2, <4>5 DEF Neat
        <5> QED BY <5>1 DEF Overlap
      <4> QED BY <3>2, <4>3, <4>4, <4>5, FilledTogether
    <3> QED BY <3>5, <3>6 DEF NothingOverlaps
  <2> QED BY <2>1, <2>2
<1>2. Spec => []PagesInv
  BY PagesKept
<1>3. Spec => []TypeInv
  BY InitTyped, StepTyped, PTL DEF Spec
<1> QED BY <1>1, <1>2, <1>3, PTL

\* The numbers on what a statement shows are those the text of the script says.
LEMMA MarksDrawn ==
  ASSUME Excerpts, NEW k \in DOMAIN Script, NEW n \in Nat,
         Shows(k) => LastDraw(k) \in 1..(k - 1) /\ IsDrawing(LastDraw(k))
  PROVE  /\ {m[2] : m \in NumbersOf(k, n)} = Marks(k)
         /\ \A a, b \in NumbersOf(k, n) : a[2] = b[2] => a = b
<1> DEFINE s == Script[LastDraw(k)]
<1>1. CASE Shows(k) /\ s.do = "code_png"
  <2>1. LastDraw(k) \in DOMAIN Script
    <3>1. k \in Nat /\ k <= Len(Script) /\ Len(Script) \in Nat /\ DOMAIN Script = 1..Len(Script)
      BY SlidesAssumption
    <3>2. LastDraw(k) \in 1..(k - 1)
      BY <1>1
    <3> QED BY <3>1, <3>2
  <2>2. s \in Drawings
    BY <1>1, <2>1 DEF Draw, Drawings
  <2>3. Quoted(s) \in Seq(Nat) /\ IsInjective(Quoted(s)) /\ s.cols \in Nat /\ s.cols > 4
    BY <1>1, <2>2 DEF Excerpts
  <2>4. NumbersOf(k, n) = Numbers(s, OfLength(n))
    BY <1>1 DEF NumbersOf
  <2>5. Marks(k) = {x \in DOMAIN s.badges : s.badges[x] \in ToSet(Quoted(s))}
    BY <1>1 DEF Marks
  <2> HIDE DEF s
  <2> QED BY <2>3, <2>4, <2>5, NumbersOnce
<1>2. CASE ~(Shows(k) /\ s.do = "code_png")
  BY <1>2 DEF NumbersOf, Marks
<1> QED BY <1>1, <1>2

\* If the text of the script explains on each page the numbers it gives to the
\* lines it shows there, a finished page of any run draws each of them once and
\* explains each of them once, whatever the lengths of the lines, though they
\* change between two pictures (build.py:208).
THEOREM PagesExplained ==
  ASSUME OwnPictures, Excerpts, Explained
  PROVE  Spec => []NumbersExplained
<1>1. PagesInv /\ TypeInv => NumbersExplained
  <2> SUFFICES ASSUME PagesInv, TypeInv, PageDone, page.drawn # {}
               PROVE  /\ {d[2][2] : d \in page.drawn} = {t[2] : t \in page.told}
                      /\ \A d, e \in page.drawn : d[2][2] = e[2][2] => d = e
                      /\ \A t, u \in page.told : t[2] = u[2] => t = u
    BY DEF NumbersExplained
  <2>1. pc \in 1..(Len(Script) + 1) /\ (pc \in DOMAIN Script => Opens(pc)) /\ pc \in Nat /\ pc # 0
    <3>1. pc \in 0..(Len(Script) + 1) /\ Len(Script) \in Nat /\ DOMAIN Script = 1..Len(Script)
      BY SlidesAssumption DEF TypeInv, TypeOK
    <3>2. pc > Len(Script) \/ (pc \in 1..Len(Script) /\ Script[pc].do \in {"page", "code_slide"})
      BY DEF PageDone, Current
    <3> QED BY <3>1, <3>2 DEF Opens
  <2>2. PICK f \in [DOMAIN Script -> Lengths] : PageOf(f)
    BY <2>1 DEF PagesInv, PageInv
  <2> DEFINE F     == Filled(pc)
             N(k)  == NumbersOf(k, f[k])
             marks == UNION {Marks(k) : k \in F}
             tells == UNION {Tells(k) : k \in F}
  <2>3. /\ page.drawn = UNION {{k} \X N(k) : k \in F}
        /\ page.told = UNION {{k} \X Tells(k) : k \in F}
    BY <2>2 DEF PageOf
  <2>4. \A k \in F : k \in DOMAIN Script /\ f[k] \in Nat
    BY SlidesAssumption DEF Filled
  <2>5. \A k \in F : /\ {m[2] : m \in N(k)} = Marks(k)
                     /\ \A a, b \in N(k) : a[2] = b[2] => a = b
    BY <2>2, <2>4, MarksDrawn DEF PageOf
  <2>6. \A k, l \in F : k # l => Marks(k) \cap Marks(l) = {} /\ Tells(k) \cap Tells(l) = {}
    <3> SUFFICES ASSUME NEW k \in F, NEW l \in F, k # l
                 PROVE  Marks(k) \cap Marks(l) = {} /\ Tells(k) \cap Tells(l) = {}
      OBVIOUS
    <3>1. Together(k, l) \/ Together(l, k)
      BY <2>1, FilledTogether
    <3> QED BY <2>4, <3>1 DEF Explained
  <2>7. marks = {} \/ marks = tells
    BY <2>1 DEF Explained, Filled
  <2> HIDE DEF N, F
  <2>8. {d[2][2] : d \in page.drawn} = marks
    <3>1. ASSUME NEW d \in page.drawn PROVE d[2][2] \in marks
      <4>1. PICK k \in F : d \in {k} \X N(k)
        BY <2>3
      <4>2. d[2][2] \in Marks(k)
        BY <2>5, <4>1
      <4> QED BY <4>2
    <3>2. ASSUME NEW x \in marks PROVE \E d \in page.drawn : x = d[2][2]
      <4>1. PICK k \in F : x \in Marks(k)
        OBVIOUS
      <4>2. PICK m \in N(k) : x = m[2]
        BY <2>5, <4>1
      <4>3. <<k, m>> \in page.drawn
        BY <2>3
      <4> QED BY <4>2, <4>3
    <3> QED BY <3>1, <3>2
  <2>9. {t[2] : t \in page.told} = tells
    <3>1. ASSUME NEW t \in page.told PROVE t[2] \in tells
      <4>1. PICK k \in F : t \in {k} \X Tells(k)
        BY <2>3
      <4> QED BY <4>1
    <3>2. ASSUME NEW x \in tells PROVE \E t \in page.told : x = t[2]
      <4>1. PICK k \in F : x \in Tells(k)
        OBVIOUS
      <4>2. <<k, x>> \in page.told
        BY <2>3, <4>1
      <4> QED BY <4>2
    <3> QED BY <3>1, <3>2
  <2>10. marks # {}
    <3>1. PICK d \in page.drawn : TRUE
      OBVIOUS
    <3>2. d[2][2] \in {e[2][2] : e \in page.drawn}
      BY <3>1
    <3> QED BY <2>8, <3>2
  <2>11. ASSUME NEW d \in page.drawn, NEW e \in page.drawn, d[2][2] = e[2][2] PROVE d = e
    <3>1. PICK k \in F : d \in {k} \X N(k)
      BY <2>3
    <3>2. PICK l \in F : e \in {l} \X N(l)
      BY <2>3
    <3>3. d[2][2] \in Marks(k) /\ e[2][2] \in Marks(l)
      BY <2>5, <3>1, <3>2
    <3>4. k = l
      BY <2>6, <2>11, <3>3
    <3>5. d[2] = e[2]
      BY <2>5, <2>11, <3>1, <3>2, <3>4
    <3> QED BY <3>1, <3>2, <3>4, <3>5
  <2>12. ASSUME NEW t \in page.told, NEW u \in page.told, t[2] = u[2] PROVE t = u
    <3>1. PICK k \in F : t \in {k} \X Tells(k)
      BY <2>3
    <3>2. PICK l \in F : u \in {l} \X Tells(l)
      BY <2>3
    <3>3. k = l
      BY <2>6, <2>12, <3>1, <3>2
    <3> QED BY <2>12, <3>1, <3>2, <3>3
  <2> QED BY <2>7, <2>8, <2>9, <2>10, <2>11, <2>12
<1>2. Spec => []PagesInv
  BY PagesKept
<1>3. Spec => []TypeInv
  BY InitTyped, StepTyped, PTL DEF Spec
<1> QED BY <1>1, <1>2, <1>3, PTL
=============================================================================
