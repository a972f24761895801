-------------------------------- MODULE Deck --------------------------------
(***************************************************************************)
(* The slides of presentation/build.py as a sequence of statements, in the  *)
(* order of the script.  Texts are their lengths; titles and decoration     *)
(* (rectangles behind a page, lines, arrows) are left out.                  *)
(***************************************************************************)
EXTENDS Layout

----------------------------------------------------------------------------
(* Statements                                                              *)

\* slide() or divider(): a new page.
Page == [do |-> "page"]

\* Blocks whose place does not depend on a picture drawn from the code.
Add(blocks) == [do |-> "add", blocks |-> blocks]

\* code_png: lines of a file, drawn to a file of img/ that the variable var
\* names.  The i-th line of badges carries the number i.
CodePng(var, name, path, ranges, badges, font, cols) ==
  [do |-> "code_png", var |-> var, name |-> name, path |-> path, ranges |-> ranges,
   badges |-> badges, font |-> font, cols |-> cols]

\* json_png and term_png draw texts of the script.
TextPng(var, name, rows, longest, font) ==
  [do |-> "text_png", var |-> var, name |-> name, size |-> PictureSize(rows, longest, 0, FALSE, font)]

\* crop: so many thousandths of the height of a capture, whose size is given.
CropPng(var, name, capture, size, share) ==
  [do |-> "crop", var |-> var, name |-> name, path |-> capture,
   size |-> [w |-> size.w, h |-> (size.h * share) \div 1000]]

\* place() of a capture itself.
PlaceShot(capture, size, x, y, maxW, maxH) ==
  [do |-> "place_capture", path |-> capture, size |-> size, x |-> x, y |-> y,
   maxW |-> maxW, maxH |-> maxH]

PlacePng(var, x, y, maxW, maxH) ==
  [do |-> "place", var |-> var, x |-> x, y |-> y, maxW |-> maxW, maxH |-> maxH]

\* annotations(): remarks numbered from start.
Remarks(x, y, w, items, size, start) ==
  [do |-> "annotations", block |-> Annotations(x, y, w, items, size),
   numbers |-> start..(start + Len(items) - 1)]

\* code_slide, where it differs from its default arguments.
CodeSlideWith(items, lead, footer, size, maxW) ==
  [do |-> "code_slide", var |-> "img", items |-> items, lead |-> lead, footer |-> footer,
   size |-> size, maxW |-> maxW]

CodeSlideFor(items, footer) == CodeSlideWith(items, FALSE, footer, 125, 7500)

SmallCodeSlide(items, footer) == CodeSlideWith(items, FALSE, footer, 120, 7500)

LeadCodeSlide(items, footer) == CodeSlideWith(items, TRUE, footer, 125, 7500)

----------------------------------------------------------------------------
(* 1. The project                                                          *)

Third == CW \div 2 - 220
Quarter == (CW - 3 * 220) \div 4
Step == Quarter + 220

Project == <<
  Page,
  Add({Text(1450, 2080, 10400, <<Para(22, 115, 120)>>),
       Text(1420, 2420, 10400, <<Para(9, 540, 100)>>),
       Text(1450, 3620, 9600, <<Para(44, 170, 135), Para(28, 170, 135)>>),
       Text(1450, 4920, 10000, <<Para(73, 120, 120)>>),
       Text(1660, 5710, 8200, <<Para(72, 130, 120)>>)}),
  Page,
  Add(LET h(n) == Est_h(n, CW - 400, 150, 132)
          text(n, y) == Text(ML, y, CW - 400, <<Para(n, 150, 132)>>)
      IN {text(156, TOP), text(107, TOP + h(156) + 300),
          text(114, TOP + h(156) + h(107) + 600)}),
  Add({Kpi(ML + i * (CW \div 5), 4620, CW \div 5 - 300) : i \in 0..4} \cup {NoteAt(130, 6280)}),
  Page,
  Add({Card(ML, TOP, Third, 2550), Card(ML + CW \div 2 + 220, TOP, Third, 2550),
       Text(ML, TOP + 2900, CW, <<[Para(28, 140, 120) EXCEPT !.after = 97], Para(289, 130, 130)>>),
       NoteAt(114, 6100)}),
  Page,
  Add({Node(ML + i * Step, 1800, Quarter, 740) : i \in 0..3}
      \cup {Node(ML + Step, 2860, Quarter * 2 + 220, 740), Node(ML, 3920, CW, 860)}
      \cup {Node(ML + i * Step, 5140, Quarter, 800) : i \in 0..3}
      \cup {NoteAt(162, 6180)}),
  CodePng("img", "s05_types", "engine/types.go", <<<<11, 29>>>>,
          <<12, 13, 14, 17, 18, 26>>, 150, 86),
  CodeSlideFor(<<68, 47, 107, 73, 74, 92>>, 135) >>

----------------------------------------------------------------------------
(* 2. What happens on a SET                                                *)

SetInMemory == <<
  Page,
  Page,
  Add({Table(ML, TOP, CW,
             << <<1, 17, 26, 82>>, <<1, 23, 26, 58>>, <<1, 15, 28, 60>>, <<1, 22, 22, 46>>,
                <<1, 17, 24, 49>>, <<1, 19, 25, 66>>, <<1, 20, 30, 81>> >>,
             <<4, 30, 36, 82>>, 115, 0),
       Note(114)}),
  CodePng("img", "s07_split", "command/command.go", <<<<96, 113>>, <<122, 124>>>>,
          <<97, 106, 110, 112, 122>>, 140, 86),
  CodeSlideFor(<<122, 88, 90, 118, 75>>, 155),
  CodePng("img", "s08_parse", "command/command.go", <<<<47, 62>>>>, <<49, 52, 53, 55, 58>>, 140, 86),
  CodeSlideFor(<<118, 80, 45, 125, 96>>, 131),
  CodePng("img", "s09_numeric", "command/command.go", <<<<81, 87>>>>, <<82, 85, 86>>, 150, 86),
  Page,
  PlacePng("img", ML, TOP, 6900, 1900),
  Remarks(ML, TOP + 2050, 6600, <<64, 42, 117>>, 120, 1),
  Add({Table(ML + 7150, TOP, CW - 7150,
             << <<10, 9>>, <<12, 13>>, <<11, 12>>, <<11, 14>>, <<11, 14>> >>, <<13, 10>>, 120, 0),
       Note(191)}),
  CodePng("img", "s11_set_a", "engine/engine.go", <<<<63, 80>>>>, <<64, 67, 73, 74, 78>>, 140, 86),
  CodeSlideFor(<<48, 137, 111, 81, 115>>, 118),
  CodePng("img", "s12_set_b", "engine/engine.go", <<<<81, 94>>>>,
          <<81, 83, 84, 88, 91, 92>>, 140, 86),
  CodeSlideFor(<<54, 84, 134, 119, 116, 96>>, 110) >>

SetToDisk == <<
  CodePng("img", "s13_index_set", "index/index.go", <<<<49, 63>>>>, <<50, 54, 56, 59, 61>>, 150, 86),
  CodeSlideFor(<<104, 130, 56, 79, 87>>, 120),
  CodePng("img", "s14_record", "engine/engine.go", <<<<137, 147>>>>,
          <<138, 141, 142, 143, 146>>, 150, 86),
  CodeSlideFor(<<110, 55, 102, 114, 102>>, 128),
  CodePng("img", "s15_flush", "engine/persistence.go", <<<<14, 29>>>>, <<14, 21, 24, 25, 27>>, 150, 86),
  CodeSlideFor(<<130, 60, 71, 122, 57>>, 145),
  CodePng("img", "s16_append", "storage/storage.go", <<<<22, 28>>, <<32, 47>>>>,
          <<24, 32, 37, 41, 45, 47>>, 135, 86),
  SmallCodeSlide(<<123, 62, 72, 94, 128, 123>>, 76),
  TextPng("img", "s17_session", 19, 79, 135),
  CodeSlideWith(<<90, 137, 81, 78>>, FALSE, 0, 125, 7600),
  TextPng("img", "s18_aof", 5, 106, 140),
  Page,
  PlacePng("img", ML, TOP, CW, 1500),
  Remarks(ML, TOP + 1720, CW \div 2 - 250, <<99, 104, 92>>, 120, 1),
  Remarks(ML + CW \div 2 + 250, TOP + 1720, CW \div 2 - 250, <<88, 134>>, 120, 4),
  Add({Note(101)}) >>

----------------------------------------------------------------------------
(* 3. Reading, searching, forgetting                                       *)

Reading == <<
  Page,
  CodePng("img", "s20_get", "engine/engine.go", <<<<96, 119>>>>, <<104, 108, 109, 110, 118>>, 135, 86),
  CodeSlideFor(<<50, 93, 69, 100, 125>>, 107),
  CodePng("img", "s21_delete", "engine/engine.go", <<<<121, 135>>>>,
          <<124, 127, 132, 133, 134>>, 150, 86),
  CodeSlideFor(<<69, 59, 51, 92, 102>>, 141),
  CodePng("img", "s22_index_types", "index/types.go", <<<<5, 16>>>>, <<6, 12, 13, 14, 15>>, 150, 86),
  LeadCodeSlide(<<95, 59, 66, 82, 90>>, 145),
  CodePng("img", "s23_find_eq", "index/index.go", <<<<95, 101>>, <<134, 137>>, <<144, 145>>>>,
          <<96, 98, 135, 144>>, 140, 78),
  SmallCodeSlide(<<71, 94, 126, 126>>, 165),
  CodePng("img", "s24_find_range", "index/index.go", <<<<121, 132>>, <<138, 142>>>>,
          <<121, 122, 125, 128, 139, 141>>, 140, 86),
  CodeSlideFor(<<73, 77, 68, 87, 109, 46>>, 156),
  CodePng("img", "s25_less", "index/index.go", <<<<23, 31>>>>, <<24, 25, 28, 30>>, 150, 86),
  TextPng("trace", "s25_trace", 5, 79, 125),
  Page,
  PlacePng("img", ML, TOP, 6700, 2050),
  PlacePng("trace", ML, TOP + 2250, 6700, 1700),
  Remarks(ML + 7150, TOP + 50, CW - 7150, <<70, 93, 38, 39>>, 125, 1),
  Add({Note(209)}),
  CodePng("img", "s26_sweep", "engine/background.go", <<<<9, 24>>>>, <<12, 16, 17, 19>>, 150, 86),
  CodeSlideFor(<<95, 119, 98, 66>>, 177) >>

----------------------------------------------------------------------------
(* 4. Surviving a restart                                                  *)

Surviving == <<
  Page,
  CodePng("img", "s28_snapshot", "engine/persistence.go", <<<<31, 45>>, <<49, 55>>>>,
          <<37, 40, 42, 51, 54>>, 135, 88),
  SmallCodeSlide(<<91, 133, 75, 53, 41>>, 164),
  CodePng("img", "s29_atomic", "storage/storage.go", <<<<125, 145>>>>,
          <<129, 133, 134, 137, 141, 144>>, 135, 86),
  SmallCodeSlide(<<107, 105, 90, 94, 136, 86>>, 121),
  CodePng("img", "s30_replay", "engine/persistence.go", <<<<83, 101>>>>, <<84, 88, 94, 97, 100>>, 140, 86),
  CodeSlideFor(<<72, 114, 113, 62, 72>>, 176),
  CodePng("img", "s31_readaof", "storage/storage.go", <<<<60, 71>>>>, <<60, 62, 67>>, 140, 86),
  CodeSlideFor(<<137, 40, 115>>, 156),
  Page,
  Add({Table(ML, TOP, CW,
             << <<24, 89>>, <<27, 85>>, <<49, 89>>, <<38, 91>>, <<31, 99>>, <<37, 92>> >>,
             <<44, 90>>, 120, 520),
       Note(151)}) >>

----------------------------------------------------------------------------
(* 5. Around the engine                                                    *)

Around == <<
  Page,
  CodePng("img", "s33_main", "main.go", <<<<81, 102>>>>, <<82, 84, 88, 95, 101, 102>>, 135, 86),
  SmallCodeSlide(<<44, 74, 94, 127, 71, 129>>, 146),
  Page,
  Add({Card(ML + i * (Third + 440), TOP + j * 2670, Third, 2420) : i, j \in 0..1}),
  CodePng("img", "s35_api", "api/api.go", <<<<84, 95>>>>, <<84, 86, 89, 91>>, 140, 86),
  CodeSlideFor(<<94, 94, 102, 110>>, 164),
  CodePng("img", "s36_batch", "engine/batch.go", <<<<5, 19>>>>, <<6, 8, 13>>, 150, 86),
  LeadCodeSlide(<<73, 101, 89>>, 181),
  Page,
  PlaceShot("ui-dashboard", [w |-> 2720, h |-> 1640], ML, TOP + 260, 7550, 4350),
  Add({Bullets(ML + 7850, TOP + 300, CW - 8050, <<131, 128, 89, 99, 82>>, 120), Note(122)}),
  CodePng("img", "s38_virtual", "TaskList.jsx", <<<<13, 16>>, <<23, 24>>, <<30, 34>>, <<38, 39>>>>,
          <<16, 24, 30, 33, 38>>, 140, 74),
  CropPng("strip", "ui-liste-strip", "ui-liste", [w |-> 1872, h |-> 400], 815),
  Page,
  PlacePng("img", ML, TOP, 5950, 3300),
  Remarks(ML + 6350, TOP + 20, CW - 6350, <<118, 108, 144, 83, 75>>, 120, 1),
  PlacePng("strip", ML, TOP + 3540, 8550, 1450),
  Add({Text(ML + 8850, TOP + 3620, CW - 8850, <<Para(139, 115, 125)>>)}) >>

\* On the page of the checks, the second title follows the first list.
Closing == <<
  Page,
  Add(LET cx     == ML + 7450
          cwidth == CW - 7600
          first  == Bullets(cx, TOP + 360, cwidth, <<53, 53, 58, 52>>, 115)
          cy     == first.y + first.h + 150
      IN {Table(ML, TOP, 7000, << <<19, 61>>, <<12, 53>>, <<14, 34>>, <<26, 34>>, <<29, 44>> >>,
                <<31, 39>>, 115, 580),
          Text(cx, TOP, cwidth, <<Para(31, 95, 120)>>), first,
          Text(cx, cy + 220, cwidth, <<Para(32, 95, 120)>>),
          Bullets(cx, cy + 580, cwidth, <<54, 63, 44>>, 115), Note(149)}),
  Page,
  Add({Card(ML, TOP, Third, 2620), Card(ML + Third + 440, TOP, Third, 2620),
       Text(ML, TOP + 2920, CW, <<[Para(42, 140, 120) EXCEPT !.after = 111], Para(370, 130, 132)>>)}),
  Page,
  Add({Flow(ML, TOP + 100, CW, 720), Flow(ML, TOP + 1050, (CW * 74) \div 100, 720),
       Text(ML + (CW * 76) \div 100, TOP + 1120, (CW * 24) \div 100,
            <<Para(48, 110, 130), Para(44, 110, 130)>>),
       Note(86)}),
  Add(LET column(i, title, body) ==
            LET x == ML + i * (CW \div 3)
                w == CW \div 3 - 450
            IN {Text(x, TOP + 2550, w, <<Para(title, 140, 120)>>),
                Text(x, TOP + 3000, w, <<Para(body, 125, 128)>>)}
      IN column(0, 27, 88) \cup column(1, 29, 99) \cup column(2, 31, 94)) >>

WasmRedis ==
  Project \o SetInMemory \o SetToDisk \o Reading \o Surviving \o Around \o Closing
============================================================================
