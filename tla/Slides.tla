------------------------------- MODULE Slides -------------------------------
(***************************************************************************)
(* presentation/build.py as a program that runs through its statements      *)
(* (Deck): it reads the source files it quotes, draws them to img/, puts    *)
(* the pictures it reads back from img/ on pages, and ends.  Two captures   *)
(* of the dashboard lie in img/ too, which somebody has taken and no run    *)
(* draws.  The files may be edited at any moment, also between two          *)
(* statements of a run, and a run may stop half-way; the next one starts    *)
(* over.                                                                    *)
(***************************************************************************)
EXTENDS Layout

CONSTANTS
  Script,            \* the statements of build.py
  Paths,             \* the files they quote
  Captures,          \* the pictures of img/ that somebody has taken by hand
  FirstLines,        \* how many lines each file had when the script was written;
                     \*   a capture counts as one line, or as none if it is gone
  Editable,          \* bound: the files that are edited
  Lengths,           \* bound: the lengths of lines, all lines of a file are alike
  Shrink,            \* bound: how many lines an edit removes, if any
  MaxEdits, MaxRuns  \* bounds

None == "none"

\* What a picture has in place of a run if no run draws it.
NoRun == -1

Files == Paths \cup Captures

\* The statements that draw a picture.
Draw == {"code_png", "text_png", "crop"}

Drawings == {Script[i] : i \in {j \in DOMAIN Script : Script[j].do \in Draw}}
Names    == {s.name : s \in Drawings}
Vars     == {s.var : s \in Drawings}

ASSUME SlidesAssumption ==
  /\ Script \in Seq(ToSet(Script))
  /\ Editable \subseteq Files /\ IsFiniteSet(Editable)
  /\ None \notin Names /\ None \notin Files /\ Paths \cap Captures = {} /\ Names \cap Captures = {}
  /\ FirstLines \in [Files -> Nat] /\ Lengths \subseteq Nat /\ Lengths # {}
  /\ \A s \in Drawings : s.do = "code_png" => s.path \in Paths
  /\ \A i \in DOMAIN Script : Script[i].do \in {"crop", "place_capture"} => Script[i].path \in Captures
  /\ \A i \in DOMAIN Script : Script[i].do \in {"place", "code_slide"} => Script[i].var \in Vars
  /\ MaxEdits \in Nat /\ MaxRuns \in Nat /\ Shrink \in Nat

VARIABLES
  files,  \* the files that are read: version, number of lines, length of the lines
  disk,   \* img/ but for the captures: the run that drew each picture, from
          \*   which version of which file, its size and the numbers on it
  saved,  \* the run that wrote the .pptx
  over,   \* the last run that came to the end of the script
  run,    \* the current or last run
  pc,     \* the next statement of the run, 0 between runs
  cache,  \* _cache: the files as this run read them
  env,    \* the picture that each variable of the script names
  page    \* the last page: its blocks, the pictures on it, the numbers on
          \*   the pictures and the numbers explained, each with the statement
          \*   that put it there

vars == <<files, disk, saved, over, run, pc, cache, env, page>>

Unread == [version |-> -1, lines |-> 0, length |-> 0]
NewPage == [blocks |-> {}, pictures |-> {}, drawn |-> {}, told |-> {}]

\* How many edits there have been.
Edits == Cardinality({e \in Editable \X (1..MaxEdits) : e[2] <= files[e[1]].version})

----------------------------------------------------------------------------
(* Pictures                                                                *)

Leading == 4  \* bound: the blanks a line starts with

\* file_rows: the numbers of the quoted lines; dots stand between two ranges.
Quoted(s) == FlattenSeq([r \in 1..Len(s.ranges) |->
               [i \in 1..(s.ranges[r][2] - s.ranges[r][1] + 1) |-> s.ranges[r][1] + i - 1]])

\* On how many rows each of them is drawn.
RowsEach(s, file) == Pieces(file.length, Leading, s.cols)

\* Faulty variant of Numbers: each row of a line carries its number.
NumbersOnRows(s, file) ==
  LET quoted == Quoted(s)
      each   == RowsEach(s, file)
  IN {m \in (1..(Len(quoted) * each)) \X DOMAIN s.badges :
        s.badges[m[2]] = quoted[1 + ((m[1] - 1) \div each)]}

\* The rows with numbers and the numbers on them: on the first row of a line.
Numbers(s, file) ==
  LET quoted == Quoted(s)
      each   == RowsEach(s, file)
  IN {m \in (1..(Len(quoted) * each)) \X DOMAIN s.badges :
        s.badges[m[2]] = quoted[1 + ((m[1] - 1) \div each)] /\ (m[1] - 1) % each = 0}

Size(s, file) ==
  IF s.do # "code_png" THEN s.size
  ELSE PictureSize(Len(Quoted(s)) * RowsEach(s, file) + Len(s.ranges) - 1,
                   Least(file.length, s.cols), Digits(Last(Quoted(s))), s.badges # <<>>, s.font)

\* code_png, json_png, term_png and crop: the picture that statement s draws in
\* run r from a file, if it needs one.
Drawn(s, file, r) ==
  [run |-> r, path |-> IF s.do = "text_png" THEN None ELSE s.path, version |-> file.version,
   size |-> Size(s, file), numbers |-> IF s.do = "code_png" THEN Numbers(s, file) ELSE {}]

\* A capture as it lies in img/ now.
Captured(s) ==
  [run |-> NoRun, path |-> s.path, version |-> files[s.path].version, size |-> s.size, numbers |-> {}]

\* Faulty variant of Tokenized: every excerpt reads the file again.
TokenizedAgain(p) == files[p]

\* Faulty variant of Tokenized: the cache holds one file for all.
TokenizedAny(p) ==
  LET read == {q \in Paths : cache[q] # Unread}
  IN IF read # {} THEN cache[CHOOSE q \in read : TRUE] ELSE files[p]

\* tokenize: a file is read once, further excerpts come from the cache.
Tokenized(p) == IF cache[p] # Unread THEN cache[p] ELSE files[p]

\* The statement cannot be carried out: a quoted line does not exist any more
\* (what follows the last newline counts as one), a capture is gone, or a
\* variable names no picture yet.
Raises(s) ==
  \/ s.do = "code_png" /\ \E i \in DOMAIN s.ranges : s.ranges[i][2] > Tokenized(s.path).lines + 1
  \/ s.do \in {"crop", "place_capture"} /\ files[s.path].lines = 0
  \/ s.do \in {"place", "code_slide"} /\ env[s.var] = None

----------------------------------------------------------------------------
(* The program                                                             *)

\* img/ holds the pictures of an earlier run on the same files.
Init ==
  /\ \E n \in Lengths :
       files = [p \in Files |-> [version |-> 0, lines |-> FirstLines[p], length |-> n]]
  /\ disk = [n \in Names |->
               LET s == CHOOSE d \in Drawings : d.name = n
               IN Drawn(s, IF s.do = "text_png" THEN Unread ELSE files[s.path], 0)]
  /\ saved = 0 /\ over = 0 /\ run = 0 /\ pc = 0
  /\ cache = [p \in Paths |-> Unread]
  /\ env = [v \in Vars |-> None]
  /\ page = NewPage

\* Somebody saves another version of a file, takes another capture or removes it.
Edit(p) ==
  /\ Edits < MaxEdits
  /\ \E n \in IF p \in Paths THEN Lengths ELSE {files[p].length}, fewer \in {0, Shrink} :
       files' = [files EXCEPT ![p] = [version |-> @.version + 1, length |-> n,
                                      lines |-> Greatest(0, @.lines - fewer)]]
  /\ UNCHANGED <<disk, saved, over, run, pc, cache, env, page>>

\* python build.py
Launch ==
  /\ pc = 0 /\ run < MaxRuns
  /\ run' = run + 1 /\ pc' = 1
  /\ cache' = [p \in Paths |-> Unread]
  /\ env' = [v \in DOMAIN env |-> None]
  /\ page' = NewPage
  /\ UNCHANGED <<files, disk, saved, over>>

Current(kind) == pc \in 1..Len(Script) /\ Script[pc].do = kind

\* slide, divider
BeginPage ==
  /\ Current("page")
  /\ page' = NewPage
  /\ pc' = pc + 1
  /\ UNCHANGED <<files, disk, saved, over, run, cache, env>>

\* cards, tables, flows, texts and notes
AddBlocks ==
  /\ Current("add")
  /\ page' = [page EXCEPT !.blocks = @ \cup Script[pc].blocks]
  /\ pc' = pc + 1
  /\ UNCHANGED <<files, disk, saved, over, run, cache, env>>

Remark ==
  /\ Current("annotations")
  /\ page' = [page EXCEPT !.blocks = @ \cup {Script[pc].block}, !.told = @ \cup ({pc} \X Script[pc].numbers)]
  /\ pc' = pc + 1
  /\ UNCHANGED <<files, disk, saved, over, run, cache, env>>

\* Faulty variant of DrawCode: a picture that exists is kept.
DrawMissingCode ==
  LET s == Script[pc]
  IN /\ Current("code_png") /\ ~Raises(s)
     /\ cache' = [cache EXCEPT ![s.path] = Tokenized(s.path)]
     /\ env' = [env EXCEPT ![s.var] = s.name]
     /\ pc' = pc + 1
     /\ UNCHANGED <<files, disk, saved, over, run, page>>

DrawCode ==
  LET s == Script[pc]
  IN /\ Current("code_png") /\ ~Raises(s)
     /\ cache' = [cache EXCEPT ![s.path] = Tokenized(s.path)]
     /\ disk' = [disk EXCEPT ![s.name] = Drawn(s, Tokenized(s.path), run)]
     /\ env' = [env EXCEPT ![s.var] = s.name]
     /\ pc' = pc + 1
     /\ UNCHANGED <<files, saved, over, run, page>>

\* json_png, term_png
DrawText ==
  LET s == Script[pc]
  IN /\ Current("text_png")
     /\ disk' = [disk EXCEPT ![s.name] = Drawn(s, Unread, run)]
     /\ env' = [env EXCEPT ![s.var] = s.name]
     /\ pc' = pc + 1
     /\ UNCHANGED <<files, saved, over, run, cache, page>>

\* crop: a part of a capture, from the file as it is now
Crop ==
  LET s == Script[pc]
  IN /\ Current("crop") /\ ~Raises(s)
     /\ disk' = [disk EXCEPT ![s.name] = Drawn(s, files[s.path], run)]
     /\ env' = [env EXCEPT ![s.var] = s.name]
     /\ pc' = pc + 1
     /\ UNCHANGED <<files, saved, over, run, cache, page>>

\* place of a capture
PlaceCapture ==
  LET s == Script[pc]
  IN /\ Current("place_capture") /\ ~Raises(s)
     /\ page' = [page EXCEPT !.blocks = @ \cup {Place(s.size, s.x, s.y, s.maxW, s.maxH)},
                             !.pictures = @ \cup {Captured(s)}]
     /\ pc' = pc + 1
     /\ UNCHANGED <<files, disk, saved, over, run, cache, env>>

\* Faulty variant of PlacePicture: only the width is limited.
PlacePictureByWidth ==
  LET s       == Script[pc]
      picture == disk[env[s.var]]
  IN /\ Current("place") /\ ~Raises(s)
     /\ page' = [page EXCEPT !.blocks = @ \cup {Place(picture.size, s.x, s.y, s.maxW, BOTTOM)},
                             !.pictures = @ \cup {picture},
                             !.drawn = @ \cup ({pc} \X picture.numbers)]
     /\ pc' = pc + 1
     /\ UNCHANGED <<files, disk, saved, over, run, cache, env>>

PlacePicture ==
  LET s       == Script[pc]
      picture == disk[env[s.var]]
  IN /\ Current("place") /\ ~Raises(s)
     /\ page' = [page EXCEPT !.blocks = @ \cup {Place(picture.size, s.x, s.y, s.maxW, s.maxH)},
                             !.pictures = @ \cup {picture},
                             !.drawn = @ \cup ({pc} \X picture.numbers)]
     /\ pc' = pc + 1
     /\ UNCHANGED <<files, disk, saved, over, run, cache, env>>

\* code_slide: a new page with a picture, its remarks and a note
ExplainCode ==
  LET s       == Script[pc]
      picture == disk[env[s.var]]
  IN /\ Current("code_slide") /\ ~Raises(s)
     /\ page' = [blocks |-> CodeSlide(picture.size, s.items, s.lead, s.footer, s.size, s.maxW),
                 pictures |-> {picture}, drawn |-> {pc} \X picture.numbers,
                 told |-> {pc} \X (1..Len(s.items))]
     /\ pc' = pc + 1
     /\ UNCHANGED <<files, disk, saved, over, run, cache, env>>

\* An exception ends the program; the pictures drawn so far stay in img/.
Fail ==
  /\ pc \in 1..Len(Script) /\ Raises(Script[pc])
  /\ cache' = IF Script[pc].do = "code_png"
              THEN [cache EXCEPT ![Script[pc].path] = Tokenized(Script[pc].path)] ELSE cache
  /\ pc' = 0 /\ page' = NewPage
  /\ UNCHANGED <<files, disk, saved, over, run, env>>

\* The last line of the script; finish() is defined above and called nowhere.
End ==
  /\ pc = Len(Script) + 1
  /\ over' = run
  /\ pc' = 0 /\ page' = NewPage
  /\ UNCHANGED <<files, disk, saved, run, cache, env>>

Next ==
  \/ \E p \in Editable : Edit(p)
  \/ Launch \/ BeginPage \/ AddBlocks \/ Remark \/ DrawCode \/ DrawText
  \/ Crop \/ PlaceCapture \/ PlacePicture \/ ExplainCode \/ Fail \/ End

Spec == Init /\ [][Next]_vars

----------------------------------------------------------------------------
(* What the text of the script says of its pages, before any run: which    *)
(* pictures a page shows, with lines of any length, and what it explains.  *)
(* Statements are their positions.                                         *)

IsDrawing(i) == Script[i].do \in Draw
Shows(i)     == Script[i].do \in {"place", "code_slide"}
Opens(i)     == Script[i].do \in {"page", "code_slide"}

\* Statement k fills the page that is open when the run comes to i.
OnPage(k, i) == k < i /\ \A j \in (k + 1)..(i - 1) : ~Opens(j)

Together(k, l) == k <= l /\ \A j \in (k + 1)..l : ~Opens(j)

\* The statement that drew what statement k shows.
Draws(j, k) == IsDrawing(j) /\ Script[j].var = Script[k].var
LastDraw(k) == CHOOSE j \in 1..(k - 1) : Draws(j, k) /\ \A i \in (j + 1)..(k - 1) : ~Draws(i, k)

\* The size of that picture, if the lines of the file have length n.
OfLength(n)  == [version |-> 0, lines |-> 0, length |-> n]
SizeOf(k, n) == Size(Script[LastDraw(k)], OfLength(n))

\* What statement k puts on the page then.
BlocksOf(k, n) ==
  LET s == Script[k]
  IN CASE s.do = "add"         -> s.blocks
       [] s.do = "annotations" -> {s.block}
       [] s.do = "place_capture" -> {Place(s.size, s.x, s.y, s.maxW, s.maxH)}
       [] s.do = "place"       -> {Place(SizeOf(k, n), s.x, s.y, s.maxW, s.maxH)}
       [] s.do = "code_slide"  -> CodeSlide(SizeOf(k, n), s.items, s.lead, s.footer, s.size, s.maxW)
       [] OTHER                -> {}

\* The numbers that the picture of statement k carries, and those explained.
Marks(k) ==
  LET s == Script[LastDraw(k)]
  IN IF Shows(k) /\ s.do = "code_png"
     THEN {m \in DOMAIN s.badges : s.badges[m] \in ToSet(Quoted(s))} ELSE {}

Tells(k) ==
  LET s == Script[k]
  IN CASE s.do = "annotations" -> s.numbers
       [] s.do = "code_slide"  -> 1..Len(s.items)
       [] OTHER                -> {}

\* No picture is drawn over another one.
OwnPictures ==
  \A i, j \in DOMAIN Script :
    IsDrawing(i) /\ IsDrawing(j) /\ Script[i].name = Script[j].name => i = j

\* An excerpt quotes each line once, with more than four columns.
Excerpts ==
  \A s \in Drawings : s.do = "code_png" =>
    Quoted(s) \in Seq(Nat) /\ IsInjective(Quoted(s)) /\ s.cols \in Nat /\ s.cols > 4

\* A page whose pictures carry numbers explains the same ones, none twice.
Explained ==
  /\ \A k, l \in DOMAIN Script :
       k # l /\ Together(k, l) => Marks(k) \cap Marks(l) = {} /\ Tells(k) \cap Tells(l) = {}
  /\ \A i \in 1..(Len(Script) + 1) :
       (i \in DOMAIN Script => Opens(i)) =>
         LET filled == {k \in DOMAIN Script : OnPage(k, i)}
             marks  == UNION {Marks(k) : k \in filled}
         IN marks = {} \/ marks = UNION {Tells(k) : k \in filled}

\* Blocks of a page stay apart and on the page, if lines have these lengths.
Neat(lengths) ==
  \A k \in DOMAIN Script :
    LET mine == {BlocksOf(k, n) : n \in lengths}
    IN /\ \A A \in mine : \A a \in A : OnThePage(a) /\ \A b \in A : a # b => ~Overlap(a, b)
       /\ \A l \in DOMAIN Script : k # l /\ Together(k, l) =>
            LET others == {BlocksOf(l, n) : n \in lengths}
            IN \A A \in mine, B \in others : \A a \in A, b \in B : a # b => ~Overlap(a, b)

----------------------------------------------------------------------------
(* Properties                                                              *)

\* Every variable keeps its type.
TypeOK ==
  /\ \A p \in Files : files[p].version \in 0..MaxEdits /\ files[p].length \in Lengths
  /\ \A p \in Paths : cache[p] = Unread \/ cache[p].version \in 0..files[p].version
  /\ \A n \in Names : disk[n].run \in 0..run
  /\ DOMAIN disk = Names /\ \A v \in DOMAIN env : env[v] \in Names \cup {None}
  /\ run \in 0..MaxRuns /\ pc \in 0..(Len(Script) + 1) /\ over \in 0..run

\* All excerpts that a run draws of one file quote the same version of it,
\* whenever the file is edited (_cache, build.py:90).  Otherwise line numbers
\* of two pages would not belong together.
OneVersionPerFile ==
  \A m, n \in Names :
    disk[m].run = run /\ disk[n].run = run /\ disk[m].path = disk[n].path /\ disk[m].path \in Paths
      => disk[m].version = disk[n].version

\* A page shows only pictures that its own run has drawn, though they go
\* through files of img/ that earlier runs left there (build.py:257), and
\* captures, which presentation/README.md:32-34 leaves to people.  The part of
\* a capture that crop cuts out (build.py:475) is drawn by the run as well.
PicturesFresh ==
  \A picture \in page.pictures :
    \/ picture.run = run
    \/ picture.run = NoRun /\ picture.path \in Captures

\* The page is finished: the next statement begins another one or there is none.
PageDone == pc > Len(Script) \/ Current("page") \/ Current("code_slide")

\* On a finished page with numbered code, each number is drawn once and
\* explained once, whatever the lengths of the lines: a line that is cut does
\* not carry its number twice (build.py:208).
NumbersExplained ==
  PageDone /\ page.drawn # {} =>
    /\ {d[2][2] : d \in page.drawn} = {t[2] : t \in page.told}
    /\ \A d, e \in page.drawn : d[2][2] = e[2][2] => d = e
    /\ \A t, u \in page.told : t[2] = u[2] => t = u

\* Nothing on a page overlaps or leaves the page, whatever the lengths of the
\* quoted lines: place, code_slide and note work out their sizes from each
\* other (build.py:460, build.py:508, build.py:516).
NothingOverlaps ==
  /\ \A a, b \in page.blocks : a # b => ~Overlap(a, b)
  /\ \A a \in page.blocks : OnThePage(a)

\* build.py:2 says that the program generates WasmRedis-soutenance.pptx: a run
\* that comes to its end has written it.
DeckRegenerated == over = run => saved = run
=============================================================================
