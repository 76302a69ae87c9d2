--------------------------- MODULE PositionProofs ---------------------------
(***************************************************************************)
(* Where the lexer takes a line of the preprocessor's output to be: at the *)
(* line of the source it comes from, for every set of files, every search  *)
(* path, every depth limit and every macro expansion.                      *)
(***************************************************************************)
EXTENDS PreprocessorProofs

\* m is the last marker among the first n lines.
IsLastMarker(lines, n, m) ==
  /\ m \in 1 .. n /\ lines[m].k = "marker"
  /\ \A j \in m + 1 .. n : lines[j].k # "marker"

\* Where the lexer takes the line after the first n to be, if m is the last marker.
Located(lines, n, m) ==
  LexerLocation(lines, n + 1) = <<lines[m].file, lines[m].line + (n - m)>>

\* Where the last marker places the line that follows the first n.
LEMMA LocationIs ==
  ASSUME NEW lines, NEW n \in Nat, NEW m, IsLastMarker(lines, n, m)
  PROVE  Located(lines, n, m)
<1>i. PICK i : i = n + 1
  OBVIOUS
<1> USE <1>i
<1> DEFINE I == {j \in 1 .. i - 1 : lines[j].k = "marker"}
<1>1. m \in 1 .. n /\ lines[m].k = "marker" /\ \A j \in m + 1 .. n : lines[j].k # "marker"
  BY DEF IsLastMarker
<1>2. 1 .. i - 1 = 1 .. n
  OBVIOUS
<1>3. m \in I /\ I # {}
  BY <1>1, <1>2
<1>4. \A j \in I : j \in 1 .. n /\ lines[j].k = "marker"
  BY <1>2, Zenon
<1>5. LexerLocation(lines, i) = <<lines[Max(I)].file, lines[Max(I)].line + (i - Max(I) - 1)>>
  BY <1>3 DEF LexerLocation, SelectLastInSubSeq
<1> HIDE DEF I
<1>6. \A j \in I : j <= m
  BY <1>1, <1>4
<1>7. I \in SUBSET (0 .. n)
  BY <1>4
<1>8. Max(I) \in I /\ \A y \in I : y <= Max(I)
  BY <1>3, <1>7, GreatestOf, Zenon
<1>9. Max(I) = m
  <2>1. Max(I) <= m /\ m <= Max(I)
    BY <1>3, <1>6, <1>8
  <2>2. Max(I) \in 1 .. n /\ m \in 1 .. n
    BY <1>3, <1>4, <1>8
  <2> QED BY ONLY <2>1, <2>2, n \in Nat
<1>10. i - m - 1 = n - m
  BY <1>1
<1> QED BY <1>5, <1>9, <1>10 DEF Located

\* Lines that begin with a marker have a last one.
LEMMA LastMarkerExists ==
  ASSUME NEW lines, lines[1].k = "marker", NEW n \in Nat \ {0}
  PROVE  \E m : IsLastMarker(lines, n, m)
<1> DEFINE I == {j \in 1 .. n : lines[j].k = "marker"}
<1>1. 1 \in 1 .. n
  OBVIOUS
<1>2. I \in SUBSET (0 .. n) /\ n \in Nat
  OBVIOUS
<1>3. I # {}
  BY <1>1, Zenon
<1>4. Max(I) \in I /\ \A y \in I : y <= Max(I)
  <2> HIDE DEF I
  <2> QED BY <1>2, <1>3, GreatestOf, Zenon
<1> DEFINE m == Max(I)
<1>5. m \in 1 .. n /\ lines[m].k = "marker"
  BY <1>4, Zenon
<1>6. \A y \in 1 .. n : lines[y].k = "marker" => y <= m
  BY <1>4, Zenon
<1> HIDE DEF m
<1>7. \A j \in m + 1 .. n : j \in 1 .. n /\ ~(j <= m)
  BY <1>5
<1> QED BY <1>5, <1>6, <1>7 DEF IsLastMarker

Placed(lines) ==
  \A i \in DOMAIN lines :
    lines[i].k = "text" /\ lines[i].text # << >>
      => LexerLocation(lines, i) = <<lines[i].file, lines[i].line - lines[i].extra>>

\* After these lines the lexer is at line n of file.
Reaches(lines, file, n) ==
  /\ lines \in Seq(OutLine) /\ lines # << >> /\ lines[1].k = "marker"
  /\ Placed(lines)
  /\ LexerLocation(lines, Len(lines) + 1) = <<file, n>>

\* What follows does not move the lines that are there.
LEMMA PlacedStays ==
  ASSUME NEW lines \in Seq(OutLine), lines[1].k = "marker", Placed(lines),
         NEW all, \A j \in 1 .. Len(lines) : all[j] = lines[j],
         NEW i \in 1 .. Len(lines), all[i].k = "text", all[i].text # << >>
  PROVE  LexerLocation(all, i) = <<all[i].file, all[i].line - all[i].extra>>
<1>1. i \in DOMAIN lines /\ all[i] = lines[i]
  OBVIOUS
<1>2. LexerLocation(lines, i) = <<lines[i].file, lines[i].line - lines[i].extra>>
  BY <1>1 DEF Placed
<1> DEFINE h == i - 1
<1>3. h \in Nat \ {0} /\ h \in Nat /\ i = h + 1
  <2>1. i # 1
    BY <1>1
  <2> QED BY <2>1
<1>4. \A j \in 1 .. h : all[j] = lines[j]
  OBVIOUS
<1> HIDE DEF h
<1>5. PICK p : IsLastMarker(lines, h, p)
  BY <1>3, LastMarkerExists, Zenon
<1>6. p \in 1 .. h /\ \A j \in p + 1 .. h : j \in 1 .. h
  <2>1. p \in 1 .. h
    BY <1>5 DEF IsLastMarker
  <2> QED BY <1>3, <2>1
<1>7. IsLastMarker(all, h, p)
  BY <1>4, <1>5, <1>6, Zenon DEF IsLastMarker
<1>8. Located(lines, h, p) /\ Located(all, h, p)
  BY <1>3, <1>5, <1>7, LocationIs
<1>9. LexerLocation(lines, i) = <<lines[p].file, lines[p].line + (h - p)>>
  BY <1>3, <1>8 DEF Located
<1>10. LexerLocation(all, i) = <<all[p].file, all[p].line + (h - p)>>
  BY <1>3, <1>8 DEF Located
<1> QED BY <1>1, <1>2, <1>4, <1>6, <1>9, <1>10, Zenon

\* Lines without markers move the lexer line by line.
LEMMA BlockReaches ==
  ASSUME NEW lines, NEW file, NEW n \in Int, Reaches(lines, file, n),
         NEW ext \in Seq(OutLine),
         \A i \in 1 .. Len(ext) :
           /\ ext[i].k # "marker"
           /\ ext[i].k = "text" /\ ext[i].text # << >>
                => ext[i].file = file /\ ext[i].line - ext[i].extra = n + (i - 1)
  PROVE  Reaches(lines \o ext, file, n + Len(ext))
<1> DEFINE all == lines \o ext
           L == Len(lines)
<1>1. /\ lines \in Seq(OutLine) /\ lines # << >> /\ lines[1].k = "marker" /\ Placed(lines)
      /\ LexerLocation(lines, L + 1) = <<file, n>>
  BY DEF Reaches
<1>2. L \in Nat \ {0} /\ Len(ext) \in Nat
  BY <1>1
<1>3. /\ all \in Seq(OutLine) /\ Len(all) = L + Len(ext) /\ all # << >>
      /\ \A i \in 1 .. L : all[i] = lines[i]
      /\ \A i \in 1 .. Len(ext) : all[L + i] = ext[i]
  BY <1>1, <1>2
<1> HIDE DEF all, L
<1>4. PICK m : IsLastMarker(lines, L, m)
  BY <1>1, <1>2, LastMarkerExists, Zenon
<1>5. m \in 1 .. L /\ lines[m].k = "marker" /\ \A j \in m + 1 .. L : lines[j].k # "marker"
  BY <1>4 DEF IsLastMarker
<1>6. lines[m].file = file /\ lines[m].line + (L - m) = n
  <2>1. L \in Nat
    BY <1>2
  <2>2. LexerLocation(lines, L + 1) = <<lines[m].file, lines[m].line + (L - m)>>
    <3>1. Located(lines, L, m)
      BY <1>4, <2>1, LocationIs
    <3> QED BY <3>1, Zenon DEF Located
  <2>3. <<file, n>> = <<lines[m].file, lines[m].line + (L - m)>>
    BY <1>1, <2>2, Zenon
  <2> QED BY <2>3
<1>7. lines[m].line \in Int /\ all[m] = lines[m]
  <2>1. lines[m] \in OutLine
    BY <1>1, <1>5 DEF L
  <2> QED BY <1>3, <1>5, <2>1 DEF OutLine
\* The lexer stands n + i - 1 lines down at the i-th new line.
<1>8. ASSUME NEW i \in 0 .. Len(ext)
      PROVE  LexerLocation(all, L + i + 1) = <<file, n + i>>
  <2>1. L + i \in Nat
    BY <1>2
  <2>2. IsLastMarker(all, L + i, m)
    <3>1. m \in 1 .. L + i
      BY <1>2, <1>5
    <3>2. ASSUME NEW j \in m + 1 .. L + i PROVE all[j].k # "marker"
      <4>1. CASE j <= L
        <5>1. j \in m + 1 .. L /\ j \in 1 .. L
          BY <1>2, <1>5, <4>1
        <5> QED BY <1>3, <1>5, <5>1
      <4>2. CASE j > L
        <5>1. j - L \in 1 .. Len(ext) /\ L + (j - L) = j
          BY <1>2, <1>5, <4>2
        <5> QED BY <1>3, <5>1
      <4> QED BY <1>2, <1>5, <4>1, <4>2
    <3>3. all[m].k = "marker"
      BY <1>5, <1>7, Zenon
    <3> HIDE DEF IsLastMarker
    <3> QED BY <3>1, <3>2, <3>3 DEF IsLastMarker
  <2>3. LexerLocation(all, L + i + 1) = <<all[m].file, all[m].line + ((L + i) - m)>>
    <3>1. Located(all, L + i, m)
      BY <2>1, <2>2, LocationIs
    <3> QED BY <3>1 DEF Located
  <2>4. \A x \in Int : x + (L - m) = n => x + ((L + i) - m) = n + i
    BY ONLY <1>2, <1>5, n \in Int, i \in 0 .. Len(ext)
  <2>5. lines[m].line + ((L + i) - m) = n + i
    BY <1>6, <1>7, <2>4
  <2> QED BY <1>6, <1>7, <2>3, <2>5, Zenon
<1>9. LexerLocation(all, Len(all) + 1) = <<file, n + Len(ext)>>
  <2>1. Len(ext) \in 0 .. Len(ext)
    BY <1>2
  <2> QED BY <1>3, <1>8, <2>1
<1>10. ASSUME NEW i \in DOMAIN all, all[i].k = "text", all[i].text # << >>
       PROVE  LexerLocation(all, i) = <<all[i].file, all[i].line - all[i].extra>>
  <2>1. i \in 1 .. L + Len(ext)
    BY <1>3
  <2>2. CASE i <= L
    <3>1. i \in 1 .. L
      BY <2>1, <2>2
    <3> QED BY <1>1, <1>3, <1>10, <3>1, PlacedStays, Zenon DEF L
  <2>3. CASE i > L
    <3>1. /\ i - L \in 1 .. Len(ext) /\ i - L - 1 \in 0 .. Len(ext) /\ L + (i - L) = i
          /\ L + (i - L - 1) + 1 = i
      BY <1>2, <2>1, <2>3
    <3>2. all[i] = ext[i - L]
      BY <1>3, <3>1, Zenon
    <3>3. all[i].file = file /\ all[i].line - all[i].extra = n + (i - L - 1)
      BY <1>10, <3>1, <3>2
    <3>4. LexerLocation(all, i) = <<file, n + (i - L - 1)>>
      BY <1>8, <3>1
    <3> QED BY <3>3, <3>4, Zenon
  <2> QED BY <1>2, <2>1, <2>2, <2>3
<1>11. all[1].k = "marker"
  <2>1. 1 \in 1 .. L
    BY <1>2
  <2> QED BY <1>1, <1>3, <2>1, Zenon
<1> QED BY <1>3, <1>9, <1>10, <1>11 DEF Reaches, Placed, all

\* A marker moves the lexer to where it says.
LEMMA MarkerReaches ==
  ASSUME NEW lines, NEW file, NEW n, Reaches(lines, file, n), NEW l \in OutLine, l.k = "marker"
  PROVE  Reaches(lines \o <<l>>, l.file, l.line)
<1> DEFINE all == lines \o <<l>>
           L == Len(lines)
<1>1. lines \in Seq(OutLine) /\ lines # << >> /\ lines[1].k = "marker" /\ Placed(lines)
  BY DEF Reaches
<1>2. /\ L \in Nat \ {0} /\ all \in Seq(OutLine) /\ Len(all) = L + 1 /\ all # << >>
      /\ \A i \in 1 .. L : all[i] = lines[i]
      /\ all[L + 1] = l
  BY <1>1
<1> HIDE DEF all
<1>3. all[1].k = "marker"
  BY <1>1, <1>2
<1>4. Placed(all)
  <2> SUFFICES ASSUME NEW i \in DOMAIN all, all[i].k = "text", all[i].text # << >>
               PROVE  LexerLocation(all, i) = <<all[i].file, all[i].line - all[i].extra>>
    BY DEF Placed
  <2>1. i \in 1 .. Len(lines)
    <3>1. i \in 1 .. L + 1 /\ i # L + 1
      BY <1>2
    <3> QED BY <1>2, <3>1
  <2> QED BY <1>1, <1>2, <2>1, PlacedStays, Zenon
<1>5. LexerLocation(all, Len(all) + 1) = <<l.file, l.line>>
  <2>1. PICK k : k = L + 1
    OBVIOUS
  <2>2. k \in Nat /\ k \in 1 .. k /\ k - k = 0 /\ k + 1 .. k = {}
    BY <1>2, <2>1
  <2>3. all[k] = l /\ Len(all) = k
    BY <1>2, <2>1
  <2>4. IsLastMarker(all, k, k)
    BY <2>2, <2>3 DEF IsLastMarker
  <2>5. Located(all, k, k)
    BY <2>2, <2>4, LocationIs
  <2>6. LexerLocation(all, k + 1) = <<l.file, l.line + 0>>
    BY <2>2, <2>3, <2>5 DEF Located
  <2>7. l.line \in Int
    BY DEF OutLine
  <2>8. l.line + 0 = l.line
    BY <2>7
  <2> QED BY <2>3, <2>6, <2>8
<1> QED BY <1>2, <1>3, <1>4, <1>5 DEF Reaches, all

\* The marker at the head of the output.
LEMMA MarkerStarts ==
  ASSUME NEW l \in OutLine, l.k = "marker"
  PROVE  Reaches(<<l>>, l.file, l.line)
<1> DEFINE all == <<l>>
<1>1. /\ all \in Seq(OutLine) /\ all # << >> /\ Len(all) = 1 /\ DOMAIN all = {1}
      /\ all[1] = l /\ 1 \in Nat /\ 1 \in 1 .. 1 /\ 1 + 1 .. 1 = {}
  OBVIOUS
<1> HIDE DEF all
<1>2. IsLastMarker(all, 1, 1)
  BY <1>1 DEF IsLastMarker
<1>3. Located(all, 1, 1)
  BY <1>1, <1>2, LocationIs
<1>4. l.line \in Int
  BY DEF OutLine
<1>5. l.line + (1 - 1) = l.line
  BY <1>4
<1>6. LexerLocation(all, Len(all) + 1) = <<l.file, l.line>>
  BY <1>1, <1>3, <1>5 DEF Located
<1>7. Placed(all)
  <2>1. "marker" # "text"
    OBVIOUS
  <2> QED BY <1>1, <2>1 DEF Placed
<1> QED BY <1>1, <1>6, <1>7 DEF Reaches, all

LinesKept == \A f \in Files : KeepsLines(Source(f))

\* None of the lines read of the file of f is a #line.
NoLine(files, f) == \A i \in 1 .. f.line_no : files[f.file][i].k # "line"

\* Where the invocation being accumulated in f began.
First(f, offset) == (f.line_no + offset) - f.extra_lines

\* The lexer is where the next text of f begins.
Stands(files, lines, f, offset, file) ==
  /\ Reaches(lines, file, IF f.open THEN First(f, offset) ELSE f.line_no + 1 + offset)
  /\ NoLine(files, f) => offset = 0 /\ file = f.file

\* A file that waits for an include is between two lines, and had not used #line.
Waits(f, g) == f.open = FALSE /\ g.saved_voffset = 0 /\ g.saved_vfile = f.file
Callers(fs) == \A i \in 1 .. Len(fs) - 1 : Waits(fs[i], fs[i + 1])

Aligned(files, fs, lines, offset, file) ==
  /\ Placed(lines)
  /\ fs # << >> => Callers(fs) /\ Stands(files, lines, Last(fs), offset, file)

PosInv ==
  LinesKept /\ ~interrupted
    => Aligned(config.files, frames, out, virtual_line_offset_, virtual_file_)

Standing == Stands(config.files, out, Top, virtual_line_offset_, virtual_file_)

-----------------------------------------------------------------------------
\* The includers still wait when the innermost activation goes on.
LEMMA ReplacedCallers ==
  ASSUME TypeInv, frames # << >>, Callers(frames), NEW g \in Frame,
         g.saved_voffset = Top.saved_voffset, g.saved_vfile = Top.saved_vfile,
         frames' = Append(Front(frames), g)
  PROVE  frames' # << >> /\ Last(frames') = g /\ Callers(frames')
<1>1. frames \in Seq(Frame) /\ Top = frames[Len(frames)] /\ Len(frames) \in Nat \ {0}
  BY TopFacts DEF TypeInv
<1>2. Replaced(Frame, frames, g, frames')
  BY <1>1, ReplaceTop
<1>3. /\ frames' # << >> /\ Last(frames') = g /\ Len(frames') = Len(frames)
      /\ frames'[Len(frames)] = g
      /\ \A i \in 1 .. Len(frames) - 1 : frames'[i] = frames[i]
  BY <1>2 DEF Replaced
<1>4. ASSUME NEW i \in 1 .. Len(frames') - 1 PROVE Waits(frames'[i], frames'[i + 1])
  <2>1. i \in 1 .. Len(frames) - 1 /\ i + 1 \in 2 .. Len(frames)
    BY <1>1, <1>3
  <2>2. Waits(frames[i], frames[i + 1]) /\ frames'[i] = frames[i]
    BY <1>3, <2>1 DEF Callers
  <2>3. CASE i + 1 = Len(frames)
    <3>1. frames'[i + 1] = g /\ frames[i + 1] = Top
      BY <1>1, <1>3, <2>3
    <3> QED BY <2>2, <3>1 DEF Waits
  <2>4. CASE i + 1 # Len(frames)
    <3>1. i + 1 \in 1 .. Len(frames) - 1
      BY <1>1, <2>1, <2>4
    <3> QED BY <1>3, <2>2, <3>1
  <2> QED BY <2>3, <2>4
<1> QED BY <1>3, <1>4, Zenon DEF Callers

\* Fewer lines hold no #line if more lines hold none.
LEMMA LessRead ==
  ASSUME NEW files, NEW f, NEW g, f.line_no \in Nat, g.file = f.file,
         g.line_no = f.line_no + 1, NoLine(files, g)
  PROVE  NoLine(files, f)
<1>1. \A i \in 1 .. f.line_no : i \in 1 .. g.line_no
  OBVIOUS
<1> QED BY <1>1 DEF NoLine

\* A line of output that is no marker takes the lexer to the next line.
LEMMA OneLine ==
  ASSUME NEW lines, NEW file, NEW n \in Int, Reaches(lines, file, n),
         NEW l \in OutLine, l.k # "marker",
         l.k = "text" /\ l.text # << >> => l.file = file /\ l.line - l.extra = n
  PROVE  Reaches(lines \o <<l>>, file, n + 1)
<1> DEFINE ext == <<l>>
<1>1. ext \in Seq(OutLine) /\ Len(ext) = 1 /\ \A i \in 1 .. Len(ext) : ext[i] = l /\ n = n + (i - 1)
  OBVIOUS
<1> HIDE DEF ext
<1>2. \A i \in 1 .. Len(ext) :
        /\ ext[i].k # "marker"
        /\ ext[i].k = "text" /\ ext[i].text # << >>
             => ext[i].file = file /\ ext[i].line - ext[i].extra = n + (i - 1)
  BY <1>1
<1>3. Reaches(lines \o ext, file, n + Len(ext))
  BY <1>1, <1>2, BlockReaches, Zenon
<1> QED BY <1>1, <1>3 DEF ext

\* A line read outside an invocation leaves one line at its location.
LEMMA NextLine ==
  ASSUME TypeInv, HasLine, Standing, ~Top.open, NEW g, g.open = FALSE, g.file = Top.file,
         g.line_no = Top.line_no + 1,
         NEW l \in OutLine, l.k # "marker",
         l.k = "text" /\ l.text # << >> => l.file = virtual_file_ /\ l.line - l.extra = vline
  PROVE  Stands(config.files, out \o <<l>>, g, virtual_line_offset_, virtual_file_)
<1>1. Top.line_no \in Nat /\ virtual_line_offset_ \in Int
      /\ vline = Top.line_no + 1 + virtual_line_offset_ /\ vline \in Int
  BY LineFacts, TopFields, Zenon DEF TypeInv
<1>2. Reaches(out, virtual_file_, vline)
  BY <1>1 DEF Standing, Stands
<1>3. Reaches(out \o <<l>>, virtual_file_, vline + 1)
  BY <1>1, <1>2, OneLine
<1>4. vline + 1 = g.line_no + 1 + virtual_line_offset_
  BY ONLY <1>1, g.line_no = Top.line_no + 1
<1>5. NoLine(config.files, g) => virtual_line_offset_ = 0 /\ virtual_file_ = g.file
  BY <1>1, LessRead, Zenon DEF Standing, Stands
<1>6. Reaches(out \o <<l>>, virtual_file_, g.line_no + 1 + virtual_line_offset_)
  BY <1>3, <1>4
<1> QED BY <1>5, <1>6, Zenon DEF Stands

\* A line that is read and counted leaves the first where it was.
LEMMA FirstStays ==
  ASSUME NEW x \in Nat, NEW n \in Nat, NEW v \in Int
  PROVE  ((n + 1) + v) - (x + 1) = (n + v) - x
  OBVIOUS

\* A line absorbed by an invocation leaves none.
LEMMA Absorbed ==
  ASSUME TypeInv, HasLine, Standing, Top.open, NEW g, g.open = TRUE, g.file = Top.file,
         g.line_no = Top.line_no + 1, g.extra_lines = Top.extra_lines + 1
  PROVE  Stands(config.files, out, g, virtual_line_offset_, virtual_file_)
<1>1. Top.line_no \in Nat /\ virtual_line_offset_ \in Int /\ Top.extra_lines \in Nat
  BY LineFacts, TopFields DEF TypeInv
<1>2. Reaches(out, virtual_file_, First(Top, virtual_line_offset_))
  BY DEF Standing, Stands
<1>3. First(g, virtual_line_offset_) = First(Top, virtual_line_offset_)
  <2>1. ((Top.line_no + 1) + virtual_line_offset_) - (Top.extra_lines + 1)
          = (Top.line_no + virtual_line_offset_) - Top.extra_lines
    BY <1>1, FirstStays, Zenon
  <2> QED BY <2>1, Zenon DEF First
<1>4. NoLine(config.files, g) => virtual_line_offset_ = 0 /\ virtual_file_ = g.file
  BY <1>1, LessRead DEF Standing, Stands
<1> QED BY <1>2, <1>3, <1>4 DEF Stands

IsText(l, text, n, e) ==
  l.k = "text" /\ l.text = text /\ l.file = virtual_file_ /\ l.line = n /\ l.extra = e
IsMarker(l, file, n) == l.k = "marker" /\ l.file = file /\ l.line = n

\* The fields of a text.
LEMMA TextFields ==
  ASSUME NEW text, NEW n, NEW e
  PROVE  IsText(Text(text, n, e), text, n, e)
  BY DEF Text, IsText

\* The fields of a marker.
LEMMA MarkerFields ==
  ASSUME NEW file, NEW n
  PROVE  IsMarker(Marker(file, n), file, n)
  BY DEF Marker, IsMarker

\* The expanded invocation and its blank lines: the lexer is at the line after
\* the last one read.
LEMMA Flushed ==
  ASSUME TypeInv, NEW file, file = virtual_file_, NEW line \in Int, NEW n \in Nat,
         Reaches(out, file, line - n), NEW text \in Seq(Token)
  PROVE  Reaches(out \o Invocation(text, line, n), file, line + 1)
<1> DEFINE ext == Invocation(text, line, n)
<1>1. /\ ext \in Seq(OutLine) /\ Len(ext) = n + 1
      /\ ext[1] = Text(text, line, n)
      /\ \A i \in 1 .. n : ext[i + 1] = Text(<< >>, line, 0)
  BY InvocationTypes, Zenon
<1> HIDE DEF ext
<1>2. line - n \in Int /\ (line - n) + (n + 1) = line + 1
  OBVIOUS
<1>3. ASSUME NEW i \in 1 .. Len(ext)
      PROVE  /\ ext[i].k # "marker"
             /\ ext[i].k = "text" /\ ext[i].text # << >>
                  => ext[i].file = file /\ ext[i].line - ext[i].extra = (line - n) + (i - 1)
  <2>1. "text" # "marker"
    OBVIOUS
  <2>2. CASE i = 1
    <3>1. line - n = (line - n) + (i - 1)
      BY <1>2, <2>2
    <3>2. IsText(ext[i], text, line, n)
      BY <1>1, <2>2, TextFields
    <3> QED BY <2>1, <3>1, <3>2 DEF IsText
  <2>3. CASE i # 1
    <3>1. PICK j : j = i - 1
      OBVIOUS
    <3>2. j \in 1 .. n /\ j + 1 = i
      BY <1>1, <2>3, <3>1
    <3>3. ext[i] = Text(<< >>, line, 0)
      BY <1>1, <3>2, Zenon
    <3>4. IsText(ext[i], << >>, line, 0)
      BY <3>3, TextFields, Zenon
    <3> QED BY <2>1, <3>4 DEF IsText
  <2> QED BY <2>2, <2>3
<1>4. Reaches(out \o ext, file, (line - n) + Len(ext))
  BY <1>1, <1>2, <1>3, BlockReaches, Zenon
<1> QED BY <1>1, <1>2, <1>4 DEF ext

\* Emitting nothing.
LEMMA EmitNothing ==
  ASSUME TypeInv, Emit(<< >>)
  PROVE  out' = out
<1>1. out \in Seq(OutLine)
  BY DEF TypeInv
<1> QED BY <1>1 DEF Emit

\* Joining nothing.
LEMMA EmptyExt ==
  ASSUME NEW s \in Seq(OutLine)
  PROVE  s \o << >> = s /\ << >> \o s = s
  OBVIOUS

\* What a step has to establish: the same of the state after it.
AlignedNext ==
  Aligned(config.files, frames', out', virtual_line_offset_', virtual_file_')

\* It is enough to place the innermost activation.
LEMMA ReplacedAligned ==
  ASSUME TypeInv, frames # << >>, Callers(frames), NEW g \in Frame,
         g.saved_voffset = Top.saved_voffset, g.saved_vfile = Top.saved_vfile,
         frames' = Append(Front(frames), g),
         Stands(config.files, out', g, virtual_line_offset_', virtual_file_')
  PROVE  AlignedNext
<1>1. Last(frames') = g /\ Callers(frames')
  BY ReplacedCallers
<1>2. Placed(out')
  BY DEF Stands, Reaches
<1> QED BY <1>1, <1>2 DEF AlignedNext, Aligned

\* The line advances and its text, or a blank line, is emitted.
LEMMA ReadsLine ==
  ASSUME TypeInv, HasLine, ReadLine, Standing, Callers(frames), ~Top.open, UNCHANGED location,
         NEW l \in OutLine, Emit(<<l>>), l.k # "marker",
         l.k = "text" /\ l.text # << >> => l.file = virtual_file_ /\ l.line - l.extra = vline
  PROVE  AlignedNext
<1>1. /\ frames # << >> /\ Advanced \in Frame /\ Advanced.file = Top.file
      /\ Advanced.line_no = Top.line_no + 1 /\ Advanced.open = Top.open
      /\ Advanced.saved_voffset = Top.saved_voffset /\ Advanced.saved_vfile = Top.saved_vfile
  BY LineFacts, AdvancedFacts
<1>2. Advanced.open = FALSE
  BY <1>1, TopFields
<1>3. Stands(config.files, out \o <<l>>, Advanced, virtual_line_offset_, virtual_file_)
  BY <1>1, <1>2, NextLine, Zenon
<1>4. Stands(config.files, out', Advanced, virtual_line_offset_', virtual_file_')
  BY <1>3 DEF Emit, location
<1> QED BY <1>1, <1>4, ReplacedAligned DEF ReadLine

\* A blank line.
LEMMA BlankFields ==
  ASSUME TypeInv, HasLine
  PROVE  Blank \in OutLine /\ Blank.k # "marker" /\ Blank.text = << >>
<1>1. "text" # "marker"
  OBVIOUS
<1>2. IsText(Blank, << >>, vline, 0)
  BY TextFields DEF Blank
<1> QED BY <1>1, <1>2, LineOut DEF IsText

\* A directive that leaves a blank line.
LEMMA BlankAligned ==
  ASSUME TypeInv, LeavesBlank, Standing, Callers(frames), ~interrupted'
  PROVE  AlignedNext
<1>1. HasLine /\ Interrupts /\ ReadLine /\ Emit(<<Blank>>) /\ UNCHANGED location
  BY DEF LeavesBlank
<1>2. ~Top.open
  BY <1>1, Zenon DEF Interrupts, ReadLine, Interrupt, Accumulating
<1> QED BY <1>1, <1>2, BlankFields, ReadsLine

\* A text that is expanded on its own.
LEMMA PlainAligned ==
  ASSUME TypeInv, ExpansionYieldsText, PlainText, Standing, Callers(frames)
  PROVE  AlignedNext
<1> DEFINE text == Expand(Line.text).text
<1>1. /\ HasLine /\ Line.k = "text" /\ ReadLine /\ UNCHANGED location /\ ~Top.open
      /\ Emit(<<Text(text, vline, 0)>>)
  BY DEF PlainText, Unaffected, Accumulating
<1>2. Line.text \in Seq(Token) /\ vline \in Int
  BY <1>1, LineFacts, LineFields
<1>3. text \in Seq(Token)
  BY <1>2, ExpandTypes, Zenon DEF Expand, TypeInv, WellFormed
<1> HIDE DEF text
<1>4. Text(text, vline, 0) \in OutLine
  <2>1. 0 \in Nat
    OBVIOUS
  <2> QED BY <1>2, <1>3, <2>1, TextTypes, Zenon
<1> DEFINE l == Text(text, vline, 0)
<1>5. l.k = "text" /\ l.file = virtual_file_ /\ l.line - l.extra = vline
  <2>1. IsText(l, text, vline, 0)
    BY TextFields
  <2>2. vline - 0 = vline
    BY <1>2
  <2> QED BY <2>1, <2>2 DEF IsText
<1>6. "text" # "marker"
  OBVIOUS
<1> QED BY <1>1, <1>4, <1>5, <1>6, ReadsLine

\* KeepsLines of the file being read.
LEMMA KeptSource ==
  ASSUME TypeInv, LinesKept, HasLine
  PROVE  /\ Line.k \in {"pragma", "_Pragma"} => Line.pragma # "preserved"
         /\ Line.k = "include" => NoLine(config.files, Top)
<1>1. /\ Top.file \in Files /\ Top.line_no \in Nat /\ line_no = Top.line_no + 1
      /\ line_no \in DOMAIN Source(Top.file) /\ Line = Source(Top.file)[line_no]
      /\ line_no \in 1 .. Len(Source(Top.file)) /\ Source(Top.file) \in Seq(SourceLine)
  BY LineFacts, TopFields
<1>2. KeepsLines(Source(Top.file))
  BY <1>1 DEF LinesKept
<1>3. Line.k \in {"pragma", "_Pragma"} => Line.pragma # "preserved"
  BY <1>1, <1>2, Zenon DEF KeepsLines
<1>4. ASSUME Line.k = "include", NEW i \in 1 .. Top.line_no
      PROVE  Source(Top.file)[i].k # "line"
  <2> DEFINE src == Source(Top.file)
  <2> HIDE DEF src
  <2>1. i \in DOMAIN src /\ line_no \in i .. Len(src)
    BY <1>1 DEF src
  <2>2. src[line_no].k = "include"
    BY <1>1, <1>4, Zenon DEF src
  <2> QED BY <1>2, <2>1, <2>2 DEF KeepsLines, src
<1> QED BY <1>3, <1>4 DEF NoLine, Source

\* A pragma, alone or in an invocation.
LEMMA PragmaAligned ==
  ASSUME TypeInv, LinesKept, LeavesPragma, Standing, Callers(frames), ~interrupted'
  PROVE  AlignedNext
<1>1. HasLine /\ Line.k \in {"pragma", "_Pragma"} /\ ReadLine /\ UNCHANGED location
  BY DEF LeavesPragma
<1>2. PragmaLines = <<Blank>>
  BY <1>1, KeptSource DEF PragmaLines
<1>3. CASE Interrupts /\ Emit(PragmaLines)
  <2>1. ~Top.open
    BY <1>1, <1>3, Zenon DEF Interrupts, ReadLine, Interrupt, Accumulating
  <2>2. Emit(<<Blank>>)
    BY <1>2, <1>3
  <2> QED BY <1>1, <2>1, <2>2, BlankFields, ReadsLine
<1>4. CASE Accumulating /\ Line.k = "_Pragma" /\ Emit(<< >>)
  <2>1. /\ frames # << >> /\ Advanced \in Frame /\ Advanced.file = Top.file
        /\ Advanced.line_no = Top.line_no + 1 /\ Advanced.open = Top.open
        /\ Advanced.extra_lines = (IF Top.open THEN Top.extra_lines + 1 ELSE Top.extra_lines)
        /\ Advanced.saved_voffset = Top.saved_voffset /\ Advanced.saved_vfile = Top.saved_vfile
    BY <1>1, LineFacts, AdvancedFacts, Zenon
  <2>2. Top.open /\ Top.open \in BOOLEAN
    BY <1>4, <2>1, TopFields DEF Accumulating
  <2>3. Advanced.open = TRUE /\ Advanced.extra_lines = Top.extra_lines + 1
    BY <2>1, <2>2, Zenon
  <2>4. Stands(config.files, out, Advanced, virtual_line_offset_, virtual_file_)
    BY <1>1, <2>1, <2>2, <2>3, Absorbed, Zenon
  <2>5. out' = out
    BY <1>4, EmitNothing, Zenon
  <2>6. Stands(config.files, out', Advanced, virtual_line_offset_', virtual_file_')
    BY <1>1, <2>4, <2>5 DEF location
  <2> QED BY <1>1, <2>1, <2>6, ReplacedAligned DEF ReadLine
<1> QED BY <1>3, <1>4, Zenon DEF LeavesPragma

\* The offset that #line sets leads from the physical to the given number.
LEMMA OffsetLeads ==
  ASSUME NEW m \in Int, NEW n \in Int
  PROVE  n = m + 1 + (n - (m + 1))
OBVIOUS

\* #line: the marker takes the place of the line, the offset that of NoLine.
LEMMA HandleLineAligned ==
  ASSUME TypeInv, handle_line, Standing, Callers(frames), ~interrupted'
  PROVE  AlignedNext
<1>1. /\ HasLine /\ Line.k = "line" /\ ReadLine
      /\ virtual_line_offset_' = Line.number - (line_no + 1)
      /\ virtual_file_' = (IF Line.file = << >> THEN virtual_file_ ELSE Line.file)
      /\ Emit(<<Marker(virtual_file_', Line.number)>>)
  BY DEF handle_line, Directive
<1>2. /\ Line.number \in Nat /\ Line.file \in Path /\ line_no = Top.line_no + 1
      /\ Top.line_no \in Nat /\ virtual_file_ \in Path
      /\ Line = Source(Top.file)[line_no]
  BY <1>1, LineFacts, LineFields, TopFields, Zenon DEF TypeInv
<1>3. Line.number \in Int /\ virtual_file_' \in Path
  <2>1. Line.number \in Int
    BY <1>2
  <2> QED BY <1>1, <1>2, <2>1, Zenon
<1>4. PICK l : l = Marker(virtual_file_', Line.number)
  OBVIOUS
<1>5. l \in OutLine /\ IsMarker(l, virtual_file_', Line.number)
  BY <1>3, <1>4, EmptyText, MarkerTypes, MarkerFields, Zenon
<1>6. ~Top.open
  <2>1. "line" # "_Pragma"
    OBVIOUS
  <2> QED BY <1>1, <2>1, Zenon DEF ReadLine, Interrupt, Accumulating
<1>7. \E n : Reaches(out, virtual_file_, n)
  BY DEF Standing, Stands
<1>8. Reaches(out', virtual_file_', Line.number)
  <2>1. Reaches(out \o <<l>>, l.file, l.line)
    BY <1>5, <1>7, MarkerReaches, Zenon DEF IsMarker
  <2> QED BY <1>1, <1>4, <1>5, <2>1, Zenon DEF IsMarker, Emit
<1>9. /\ frames # << >> /\ Advanced \in Frame /\ Advanced.file = Top.file
      /\ Advanced.line_no = Top.line_no + 1 /\ Advanced.open = Top.open
      /\ Advanced.saved_voffset = Top.saved_voffset /\ Advanced.saved_vfile = Top.saved_vfile
  BY <1>1, LineFacts, AdvancedFacts, Zenon
<1>10. Line.number = Advanced.line_no + 1 + virtual_line_offset_'
  <2>1. PICK m, n : m = Advanced.line_no /\ n = Line.number
    OBVIOUS
  <2>2. m = Top.line_no + 1 /\ virtual_line_offset_' = n - (m + 1)
    BY <1>1, <1>2, <1>9, <2>1, Zenon
  <2>3. m \in Int /\ n \in Int
    <3>1. Top.line_no \in Nat /\ n \in Nat
      BY <1>2, <2>1, Zenon
    <3> QED BY ONLY <2>2, <3>1
  <2>4. n = m + 1 + (n - (m + 1))
    BY <2>3, OffsetLeads, Zenon
  <2> QED BY <2>1, <2>2, <2>4, Zenon
<1>11. ~NoLine(config.files, Advanced)
  <2>1. Advanced.line_no \in 1 .. Advanced.line_no
    BY <1>2, <1>9
  <2>2. config.files[Advanced.file][Advanced.line_no].k = "line"
    BY <1>1, <1>2, <1>9, Zenon DEF Source
  <2> QED BY <2>1, <2>2 DEF NoLine
<1>12. Stands(config.files, out', Advanced, virtual_line_offset_', virtual_file_')
  BY <1>6, <1>8, <1>9, <1>10, <1>11 DEF Stands
<1> QED BY <1>1, <1>9, <1>12, ReplacedAligned DEF ReadLine

\* Three lines joined one by one.
LEMMA ThreeLines ==
  ASSUME NEW s \in Seq(OutLine), NEW a \in OutLine, NEW b \in OutLine, NEW c \in OutLine
  PROVE  s \o <<a, b, c>> = ((s \o <<a>>) \o <<b>>) \o <<c>>
<1> DEFINE l == s \o <<a, b, c>>
           s1 == s \o <<a>>
           s2 == s1 \o <<b>>
           r == s2 \o <<c>>
           n == Len(s)
<1>1. /\ n \in Nat /\ l \in Seq(OutLine) /\ Len(l) = n + 3
      /\ \A i \in 1 .. n : l[i] = s[i]
      /\ l[n + 1] = a /\ l[n + 2] = b /\ l[n + 3] = c
  OBVIOUS
<1>2. /\ s1 \in Seq(OutLine) /\ Len(s1) = n + 1 /\ s1[n + 1] = a
      /\ \A i \in 1 .. n : s1[i] = s[i]
  OBVIOUS
<1> HIDE DEF s1
<1>3. /\ s2 \in Seq(OutLine) /\ Len(s2) = n + 2 /\ s2[n + 2] = b /\ s2[n + 1] = a
      /\ \A i \in 1 .. n : s2[i] = s[i]
  BY <1>1, <1>2
<1> HIDE DEF s2
<1>4. /\ r \in Seq(OutLine) /\ Len(r) = n + 3 /\ r[n + 3] = c /\ r[n + 2] = b /\ r[n + 1] = a
      /\ \A i \in 1 .. n : r[i] = s[i]
  BY <1>1, <1>3
<1> HIDE DEF l, r
<1>5. \A i \in 1 .. n + 3 : l[i] = r[i]
  <2> TAKE i \in 1 .. n + 3
  <2>1. i \in 1 .. n \/ i = n + 1 \/ i = n + 2 \/ i = n + 3
    BY <1>1
  <2> QED BY <1>1, <1>4, <2>1
<1>6. l = r
  BY <1>1, <1>4, <1>5
<1> QED BY <1>6, Zenon DEF l, r, s1, s2

\* An include that is refused for its depth: a marker, a blank line and a marker back.
LEMMA RefusedAligned ==
  ASSUME TypeInv, HasLine, NEW path \in Files, NEW n, Reaches(out, virtual_file_, n),
         Emit(<<Marker(path, 1), Blank, ReturnMarker(Advanced)>>),
         frames' = Append(Front(frames), Advanced), UNCHANGED location,
         Callers(frames), ~Top.open, virtual_line_offset_ = 0, virtual_file_ = Top.file
  PROVE  AlignedNext
<1>1. /\ frames # << >> /\ Advanced \in Frame /\ Advanced.file = Top.file
      /\ Advanced.line_no = Top.line_no + 1 /\ Advanced.open = Top.open
      /\ Advanced.saved_voffset = Top.saved_voffset /\ Advanced.saved_vfile = Top.saved_vfile
      /\ Top.line_no \in Nat /\ Top.file \in Path /\ path \in Path
  BY LineFacts, AdvancedFacts, TopFields, FileTypes
<1>2. Advanced.line_no + 1 \in Int /\ 1 \in Int
  <2>1. Top.line_no \in Nat /\ Advanced.line_no = Top.line_no + 1
    BY <1>1, Zenon
  <2> QED BY ONLY <2>1
<1>3. PICK a, b, c : a = Marker(path, 1) /\ b = Blank /\ c = ReturnMarker(Advanced)
  OBVIOUS
<1>4. a \in OutLine /\ IsMarker(a, path, 1)
  BY <1>1, <1>2, <1>3, EmptyText, MarkerTypes, MarkerFields, Zenon
<1>5. c \in OutLine /\ IsMarker(c, Top.file, Advanced.line_no + 1)
  BY <1>1, <1>2, <1>3, EmptyText, MarkerTypes, MarkerFields, Zenon DEF ReturnMarker
<1>6. b \in OutLine /\ b.k # "marker" /\ b.text = << >>
  BY <1>3, BlankFields, Zenon
<1>7. Reaches(out \o <<a>>, path, 1)
  <2>1. Reaches(out \o <<a>>, a.file, a.line)
    BY <1>4, MarkerReaches, Zenon DEF IsMarker
  <2> QED BY <1>4, <2>1 DEF IsMarker
<1>8. Reaches((out \o <<a>>) \o <<b>>, path, 1 + 1)
  BY <1>2, <1>6, <1>7, OneLine
<1>9. Reaches(((out \o <<a>>) \o <<b>>) \o <<c>>, Top.file, Advanced.line_no + 1)
  <2>1. Reaches(((out \o <<a>>) \o <<b>>) \o <<c>>, c.file, c.line)
    BY <1>5, <1>8, MarkerReaches DEF IsMarker
  <2> QED BY <1>5, <2>1 DEF IsMarker
<1>10. out' = ((out \o <<a>>) \o <<b>>) \o <<c>>
  <2>1. out \in Seq(OutLine)
    BY DEF TypeInv
  <2>2. out' = out \o <<a, b, c>>
    BY <1>3, Zenon DEF Emit
  <2> QED BY <1>4, <1>5, <1>6, <2>1, <2>2, ThreeLines, Zenon
<1>11. Advanced.line_no + 1 + virtual_line_offset_' = Advanced.line_no + 1
  <2>1. virtual_line_offset_' = 0
    BY DEF location
  <2> QED BY <1>2, <2>1
<1>12. Stands(config.files, out', Advanced, virtual_line_offset_', virtual_file_')
  BY <1>1, <1>9, <1>10, <1>11, Zenon DEF Stands, location
<1> QED BY <1>1, <1>12, ReplacedAligned, Zenon

\* An include that is entered: the includer waits, with no offset.
LEMMA EnteredAligned ==
  ASSUME TypeInv, HasLine, NEW path \in Files, NEW n, Reaches(out, virtual_file_, n),
         Emit(<<Marker(path, 1)>>),
         frames' = Append(Append(Front(frames), Advanced), NewFrame(path)),
         virtual_line_offset_' = 0, virtual_file_' = path,
         Callers(frames), ~Top.open, virtual_line_offset_ = 0, virtual_file_ = Top.file
  PROVE  AlignedNext
<1>1. /\ frames # << >> /\ Advanced \in Frame /\ Advanced.file = Top.file
      /\ Advanced.open = Top.open
      /\ Advanced.saved_voffset = Top.saved_voffset /\ Advanced.saved_vfile = Top.saved_vfile
      /\ path \in Path /\ Top = frames[Len(frames)] /\ Len(frames) \in Nat \ {0}
      /\ frames \in Seq(Frame)
  BY LineFacts, AdvancedFacts, TopFacts, FileTypes, Zenon DEF TypeInv
<1>2. PICK g : g = NewFrame(path)
  OBVIOUS
<1>3. /\ g \in Frame /\ g.file = path /\ g.line_no = 0 /\ g.open = FALSE
      /\ g.saved_voffset = 0 /\ g.saved_vfile = Top.file
  BY <1>2, NewFrameTypes, Zenon
<1>4. PICK a : a = Marker(path, 1)
  OBVIOUS
<1>5. a \in OutLine /\ IsMarker(a, path, 1)
  <2>1. 1 \in Int
    OBVIOUS
  <2> QED BY <1>1, <1>4, <2>1, EmptyText, MarkerTypes, MarkerFields, Zenon
<1>6. Reaches(out', path, 1)
  <2>1. Reaches(out \o <<a>>, a.file, a.line)
    BY <1>5, MarkerReaches DEF IsMarker
  <2> QED BY <1>4, <1>5, <2>1 DEF IsMarker, Emit
<1>7. Stands(config.files, out', g, virtual_line_offset_', virtual_file_')
  <2>1. 0 + 1 + 0 = 1
    OBVIOUS
  <2> QED BY <1>3, <1>6, <2>1 DEF Stands
<1>8. PICK mid : mid = Append(Front(frames), Advanced)
  BY Zenon
<1>9. /\ mid \in Seq(Frame) /\ Len(mid) = Len(frames) /\ mid[Len(frames)] = Advanced
      /\ \A i \in 1 .. Len(frames) - 1 : mid[i] = frames[i]
  <2>1. Replaced(Frame, frames, Advanced, mid)
    BY <1>1, <1>8, ReplaceTop, Zenon
  <2> QED BY <2>1 DEF Replaced
<1>10. /\ Len(frames') = Len(mid) + 1 /\ frames'[Len(mid) + 1] = g /\ frames' # << >>
       /\ Last(frames') = g
       /\ \A i \in 1 .. Len(mid) : frames'[i] = mid[i]
  <2>1. frames' = Append(mid, g)
    BY <1>2, <1>8, Zenon
  <2>2. Pushed(Frame, mid, g, frames')
    BY <1>3, <1>9, <2>1, PushTop
  <2> QED BY <2>2, Zenon DEF Pushed
<1>11. ASSUME NEW i \in 1 .. Len(frames') - 1 PROVE Waits(frames'[i], frames'[i + 1])
  <2>1. i \in 1 .. Len(frames) /\ i \in 1 .. Len(mid) /\ Len(frames') = Len(frames) + 1
    BY <1>1, <1>9, <1>10
  <2>2. CASE i = Len(frames)
    <3>1. frames'[i] = Advanced /\ frames'[i + 1] = g
      BY <1>9, <1>10, <2>1, <2>2
    <3>2. Advanced.open = FALSE
      BY <1>1, TopFields
    <3> QED BY <1>1, <1>3, <3>1, <3>2 DEF Waits
  <2>3. CASE i # Len(frames)
    <3>1. i \in 1 .. Len(frames) - 1 /\ i + 1 \in 1 .. Len(mid)
      BY <1>1, <1>9, <2>1, <2>3
    <3>2. frames'[i] = frames[i] /\ frames'[i + 1] = mid[i + 1]
      BY <1>9, <1>10, <2>1, <3>1, Zenon
    <3>3. Waits(frames[i], frames[i + 1])
      BY <3>1, Zenon DEF Callers
    <3>4. CASE i + 1 = Len(frames)
      <4>1. frames'[i + 1] = Advanced /\ frames[i + 1] = Top
        BY <1>1, <1>9, <3>2, <3>4, Zenon
      <4> QED BY <1>1, <3>2, <3>3, <4>1 DEF Waits
    <3>5. CASE i + 1 # Len(frames)
      <4>1. i + 1 \in 1 .. Len(frames) - 1
        BY <1>1, <3>1, <3>5
      <4> QED BY <1>9, <3>2, <3>3, <4>1
    <3> QED BY <3>4, <3>5
  <2> QED BY <2>2, <2>3, Zenon
<1>12. Callers(frames')
  BY <1>11, Zenon DEF Callers
<1>13. Placed(out')
  BY <1>6, Zenon DEF Reaches
<1> QED BY <1>7, <1>10, <1>12, <1>13, Zenon DEF AlignedNext, Aligned

\* An include: below no #line, so __LINE__ counts the lines of the file itself.
LEMMA IncludeAligned ==
  ASSUME TypeInv, LinesKept, NEW path, Enters(path), Standing, Callers(frames), ~interrupted'
  PROVE  AlignedNext
<1>1. HasLine /\ Line.k = "include" /\ path \in Files /\ EnterFile(path)
  BY DEF Enters
<1>2. ~Top.open
  <2>1. "include" # "_Pragma"
    OBVIOUS
  <2> QED BY <1>1, <2>1, Zenon DEF EnterFile, Interrupt, Accumulating
<1>3. virtual_line_offset_ = 0 /\ virtual_file_ = Top.file
  BY <1>1, KeptSource, Zenon DEF Standing, Stands
<1>4. PICK n : Reaches(out, virtual_file_, n)
  BY DEF Standing, Stands
<1>5. CASE Len(frames) > DepthLimit
  <2>1. /\ Emit(<<Marker(path, 1), Blank, ReturnMarker(Advanced)>>)
        /\ frames' = Append(Front(frames), Advanced) /\ UNCHANGED location
    BY <1>1, <1>5 DEF EnterFile
  <2> QED BY <1>1, <1>2, <1>3, <1>4, <2>1, RefusedAligned
<1>6. CASE ~(Len(frames) > DepthLimit)
  <2>1. /\ Emit(<<Marker(path, 1)>>)
        /\ frames' = Append(Append(Front(frames), Advanced), NewFrame(path))
        /\ virtual_line_offset_' = 0 /\ virtual_file_' = path
    BY <1>1, <1>6 DEF EnterFile
  <2> QED BY <1>1, <1>2, <1>3, <1>4, <2>1, EnteredAligned
<1> QED BY <1>5, <1>6, Zenon

\* An invocation begins.
LEMMA StartAligned ==
  ASSUME TypeInv, StartInvocation, Standing, Callers(frames)
  PROVE  AlignedNext
<1>1. HasLine /\ ~Top.open /\ out' = out /\ UNCHANGED location
  BY DEF StartInvocation, Accumulating, Unaffected
<1>2. PICK g \in Frame :
        /\ frames # << >> /\ frames' = Append(Front(frames), g)
        /\ g.file = Top.file /\ g.line_no = Top.line_no + 1
        /\ g.open = TRUE /\ g.extra_lines = 0
        /\ g.saved_voffset = Top.saved_voffset /\ g.saved_vfile = Top.saved_vfile
  BY StartInvocationTypes, Zenon
<1>3. /\ Top.line_no \in Nat /\ vline \in Int /\ virtual_line_offset_ \in Int
      /\ vline = Top.line_no + 1 + virtual_line_offset_
  BY <1>1, LineFacts, TopFields DEF TypeInv
<1>4. Reaches(out, virtual_file_, vline)
  BY <1>1, <1>3, Zenon DEF Standing, Stands
<1>5. First(g, virtual_line_offset_) = vline
  <2>1. g.line_no = Top.line_no + 1 /\ g.extra_lines = 0
    BY <1>2
  <2>2. (Top.line_no + 1 + virtual_line_offset_) - 0 = vline
    BY <1>3
  <2> QED BY <2>1, <2>2 DEF First
<1>6. NoLine(config.files, g) => virtual_line_offset_ = 0 /\ virtual_file_ = g.file
  BY <1>2, <1>3, LessRead DEF Standing, Stands
<1>7. Stands(config.files, out, g, virtual_line_offset_, virtual_file_)
  BY <1>2, <1>4, <1>5, <1>6 DEF Stands
<1>8. Stands(config.files, out', g, virtual_line_offset_', virtual_file_')
  BY <1>1, <1>7 DEF location
<1> QED BY <1>2, <1>8, ReplacedAligned

\* An invocation goes on, or is emitted with its blank lines.
LEMMA ContinueAligned ==
  ASSUME TypeInv, ExpansionYieldsText, ContinueInvocation, Standing, Callers(frames)
  PROVE  AlignedNext
<1>1. HasLine /\ Top.open /\ UNCHANGED location
  BY DEF ContinueInvocation, Accumulating, Unaffected
<1>2. PICK g \in Frame, text \in Seq(Token) :
        /\ frames # << >> /\ frames' = Append(Front(frames), g)
        /\ g.file = Top.file /\ g.line_no = Top.line_no + 1
        /\ g.extra_lines = Top.extra_lines + 1
        /\ g.saved_voffset = Top.saved_voffset /\ g.saved_vfile = Top.saved_vfile
        /\ Emit(IF g.open THEN << >> ELSE Invocation(text, vline, Top.extra_lines + 1))
  BY ContinueInvocationTypes
<1>3. /\ Top.line_no \in Nat /\ virtual_line_offset_ \in Int
      /\ Top.extra_lines \in Nat
      /\ vline = Top.line_no + 1 + virtual_line_offset_ /\ vline \in Int
  BY <1>1, <1>2, TopFields, LineFacts, Zenon DEF TypeInv
<1>4. g.open \in BOOLEAN
  BY DEF Frame
<1>5. CASE g.open = TRUE
  <2>1. Stands(config.files, out, g, virtual_line_offset_, virtual_file_)
    BY <1>1, <1>2, <1>5, Absorbed, Zenon
  <2>2. Emit(<< >>)
    BY <1>2, <1>5, Zenon
  <2>3. out' = out
    BY <2>2, EmitNothing
  <2>4. Stands(config.files, out', g, virtual_line_offset_', virtual_file_')
    BY <1>1, <2>1, <2>3 DEF location
  <2> QED BY <1>2, <2>4, ReplacedAligned
<1>6. CASE g.open = FALSE
  <2>1. PICK e : e = Top.extra_lines + 1
    OBVIOUS
  <2>2. e \in Nat
    BY <1>3, <2>1
  <2>3. out' = out \o Invocation(text, vline, e)
    BY <1>2, <1>6, <2>1 DEF Emit
  <2>4. Reaches(out, virtual_file_, vline - e)
    <3>1. Reaches(out, virtual_file_, First(Top, virtual_line_offset_))
      BY <1>1 DEF Standing, Stands
    <3>2. First(Top, virtual_line_offset_) = vline - e
      <4>1. ((Top.line_no + 1) + virtual_line_offset_) - (Top.extra_lines + 1)
              = (Top.line_no + virtual_line_offset_) - Top.extra_lines
        BY <1>3, FirstStays, Zenon
      <4> QED BY <1>3, <2>1, <4>1, Zenon DEF First
    <3> QED BY <3>1, <3>2
  <2>5. Reaches(out', virtual_file_, vline + 1)
    BY <1>2, <1>3, <2>2, <2>3, <2>4, Flushed, Zenon
  <2>6. vline + 1 = g.line_no + 1 + virtual_line_offset_
    BY <1>2, <1>3
  <2>7. NoLine(config.files, g) => virtual_line_offset_ = 0 /\ virtual_file_ = g.file
    BY <1>2, <1>3, LessRead DEF Standing, Stands
  <2>8. Stands(config.files, out', g, virtual_line_offset_, virtual_file_)
    BY <1>6, <2>5, <2>6, <2>7, Zenon DEF Stands
  <2>9. Stands(config.files, out', g, virtual_line_offset_', virtual_file_')
    BY <1>1, <2>8, Zenon DEF location
  <2> QED BY <1>2, <2>9, ReplacedAligned
<1>7. g.open = TRUE \/ g.open = FALSE
  BY <1>4, Zenon
<1> QED BY <1>5, <1>6, <1>7, Zenon

\* Joining is associative.
LEMMA JoinedTwice ==
  ASSUME NEW s \in Seq(OutLine), NEW a \in Seq(OutLine), NEW b \in Seq(OutLine)
  PROVE  s \o (a \o b) = (s \o a) \o b
  OBVIOUS

\* The end of a file: what is pending is flushed, and the includer goes on after
\* the line of its #include.
LEMMA EndAligned ==
  ASSUME TypeInv, ExpansionYieldsText, EndOfText, Standing, Callers(frames)
  PROVE  AlignedNext
<1> DEFINE whole == Expand(Top.text)
           caller == Front(frames)
           line == Top.line_no + virtual_line_offset_
           a == IF Accumulating THEN Invocation(whole.text, line, Top.extra_lines) ELSE << >>
           b == IF caller = << >> THEN << >> ELSE <<ReturnMarker(Last(caller))>>
<1>1. /\ frames # << >> /\ frames' = caller /\ Emit(a \o b)
      /\ virtual_line_offset_' = Top.saved_voffset /\ virtual_file_' = Top.saved_vfile
  BY DEF EndOfText
<1>2. /\ Top.text \in Seq(Token) /\ Top.extra_lines \in Nat /\ out \in Seq(OutLine)
      /\ IsMacroTable(macros_) /\ counter_ \in Nat /\ line \in Int
  BY <1>1, TopFields DEF TypeInv, WellFormed
<1>3. whole.text \in Seq(Token)
  BY <1>2, ExpandTypes DEF Expand
<1> HIDE DEF whole
<1>4. a \in Seq(OutLine) /\ \E n : Reaches(out \o a, virtual_file_, n)
  <2>1. CASE Accumulating
    <3>1. a = Invocation(whole.text, line, Top.extra_lines)
      BY <2>1, Zenon
    <3>2. Invocation(whole.text, line, Top.extra_lines) \in Seq(OutLine)
      BY <1>1, <1>2, <1>3, InvocationTypes, Zenon
    <3>3. Top.open
      BY <2>1 DEF Accumulating
    <3>4. Reaches(out, virtual_file_, line - Top.extra_lines)
      <4>1. Reaches(out, virtual_file_, First(Top, virtual_line_offset_))
        BY <3>3 DEF Standing, Stands
      <4> QED BY <4>1 DEF First
    <3>5. Reaches(out \o Invocation(whole.text, line, Top.extra_lines), virtual_file_, line + 1)
      BY <1>2, <1>3, <3>4, Flushed, Zenon
    <3> QED BY <3>1, <3>2, <3>5
  <2>2. CASE ~Accumulating
    <3>1. a = << >> /\ out \o a = out
      BY <1>2, <2>2, EmptyExt
    <3> QED BY <3>1, EmptyOut, Zenon DEF Standing, Stands
  <2> QED BY <2>1, <2>2, Zenon
<1>5. /\ frames \in Seq(Frame) /\ Top = frames[Len(frames)] /\ Len(frames) \in Nat \ {0}
      /\ caller \in Seq(Frame) /\ Len(caller) = Len(frames) - 1
      /\ \A i \in 1 .. Len(frames) - 1 : caller[i] = frames[i]
  BY <1>1, TopFacts, Zenon DEF TypeInv
<1>6. PICK n : Reaches(out \o a, virtual_file_, n)
  BY <1>4
<1>7. out \o a \in Seq(OutLine)
  BY <1>6 DEF Reaches
<1> HIDE DEF a, caller
<1>8. CASE caller = << >>
  <2>1. a \o b = a
    BY <1>4, <1>8, EmptyExt
  <2>2. out' = out \o a
    BY <1>1, <2>1, Zenon DEF Emit
  <2>3. Placed(out')
    BY <1>6, <2>2, Zenon DEF Reaches
  <2> QED BY <1>1, <1>8, <2>3 DEF AlignedNext, Aligned
<1>9. CASE caller # << >>
  <2>1. PICK c : c = Last(caller)
    OBVIOUS
  <2>2. /\ c \in Frame /\ c = caller[Len(caller)] /\ Len(caller) \in Nat \ {0}
    BY <1>5, <1>9, <2>1, LastAndFront
  <2>3. Waits(c, Top)
    <3>1. PICK k : k = Len(caller)
      BY Zenon
    <3>2. k \in 1 .. Len(frames) - 1 /\ k + 1 = Len(frames)
      BY <1>5, <2>2, <3>1
    <3>3. Waits(frames[k], frames[k + 1])
      BY <3>2 DEF Callers
    <3> QED BY <1>5, <2>2, <3>1, <3>2, <3>3
  <2>4. virtual_line_offset_' = 0 /\ virtual_file_' = c.file /\ c.open = FALSE
    BY <1>1, <2>3, Zenon DEF Waits
  <2>5. c.line_no \in Nat /\ c.file \in Path
    BY <2>2 DEF Frame
  <2>6. c.line_no + 1 \in Int /\ c.line_no + 1 + 0 = c.line_no + 1
    BY <2>5
  <2>7. PICK m : m = ReturnMarker(c)
    OBVIOUS
  <2>8. m \in OutLine /\ IsMarker(m, c.file, c.line_no + 1)
    BY <2>5, <2>6, <2>7, EmptyText, MarkerTypes, MarkerFields, Zenon DEF ReturnMarker
  <2>9. out' = (out \o a) \o <<m>>
    <3>1. <<m>> \in Seq(OutLine)
      BY <2>8
    <3>2. out' = out \o (a \o <<m>>)
      BY <1>1, <1>9, <2>1, <2>7 DEF Emit
    <3> QED BY <1>2, <1>4, <3>1, <3>2, JoinedTwice
  <2>10. Reaches(out', c.file, c.line_no + 1)
    <3>1. Reaches((out \o a) \o <<m>>, m.file, m.line)
      BY <1>6, <2>8, MarkerReaches DEF IsMarker
    <3> QED BY <2>8, <2>9, <3>1, Zenon DEF IsMarker
  <2>11. Stands(config.files, out', c, virtual_line_offset_', virtual_file_')
    BY <2>4, <2>6, <2>10, Zenon DEF Stands
  <2>12. ASSUME NEW i \in 1 .. Len(caller) - 1 PROVE Waits(caller[i], caller[i + 1])
    <3>1. i \in 1 .. Len(frames) - 1 /\ i + 1 \in 1 .. Len(frames) - 1
      BY <1>5, <2>2
    <3> QED BY <1>5, <3>1, Zenon DEF Callers
  <2>13. Callers(frames')
    BY <1>1, <2>12, Zenon DEF Callers
  <2>14. Placed(out')
    BY <2>10 DEF Reaches
  <2> QED BY <1>1, <2>1, <2>11, <2>13, <2>14 DEF AlignedNext, Aligned
<1> QED BY <1>8, <1>9, Zenon

\* A run begins with the marker of its file.
LEMMA FileAligned ==
  ASSUME TypeInv, preprocess_file
  PROVE  AlignedNext
<1>1. roots \in Seq(Files) /\ roots # << >>
  BY DEF preprocess_file, TypeInv, WellFormed, Files
<1>2. PICK path : path = Head(roots)
  OBVIOUS
<1>3. path \in Files
  BY <1>1, <1>2
<1>4. PICK g : g = NewFrame(path)
  OBVIOUS
<1>5. g \in Frame /\ g.file = path /\ g.line_no = 0 /\ g.open = FALSE /\ path \in Path
  BY <1>3, <1>4, NewFrameTypes, FileTypes, Zenon
<1>6. PICK m : m = Marker(path, 1)
  OBVIOUS
<1>7. /\ frames' = <<g>> /\ out' = <<m>> /\ virtual_line_offset_' = 0 /\ virtual_file_' = path
  BY <1>2, <1>4, <1>6 DEF preprocess_file
<1>8. m \in OutLine /\ IsMarker(m, path, 1)
  <2>1. 1 \in Int
    OBVIOUS
  <2> QED BY <1>5, <1>6, <2>1, EmptyText, MarkerTypes, MarkerFields, Zenon
<1>9. Reaches(out', path, 1)
  <2>1. Reaches(<<m>>, m.file, m.line)
    BY <1>8, MarkerStarts, Zenon DEF IsMarker
  <2> QED BY <1>7, <1>8, <2>1 DEF IsMarker
<1>10. Stands(config.files, out', g, virtual_line_offset_', virtual_file_')
  <2>1. 0 + 1 + 0 = 1
    OBVIOUS
  <2> QED BY <1>5, <1>7, <1>9, <2>1 DEF Stands
<1>11. Last(frames') = g /\ 1 .. Len(frames') - 1 = {}
  BY <1>7 DEF Last
<1>12. Callers(frames')
  BY <1>11 DEF Callers
<1>13. Placed(out')
  BY <1>9 DEF Reaches
<1> QED BY <1>10, <1>11, <1>12, <1>13 DEF AlignedNext, Aligned

\* A run that is not interrupted after a step was not before it.
LEMMA InterruptedStays ==
  ASSUME TypeInv, Next, ~interrupted', ~preprocess_file
  PROVE  ~interrupted /\ frames # << >>
<1>1. CASE EndOfText \/ StartInvocation \/ ContinueInvocation
  <2>1. interrupted' = interrupted
    BY <1>1, Zenon DEF EndOfText, StartInvocation, ContinueInvocation
  <2>2. frames # << >>
    BY <1>1 DEF EndOfText, StartInvocation, ContinueInvocation, HasLine
  <2> QED BY <2>1, <2>2, Zenon
<1>2. CASE HasLine /\ Interrupt
  BY <1>2, Zenon DEF HasLine, Interrupt
<1>3. LeavesBlank \/ LeavesPragma \/ PlainText => HasLine /\ Interrupt
  BY DEF LeavesBlank, LeavesPragma, PlainText, ReadLine
<1>4. handle_line => HasLine /\ Interrupt
  BY DEF handle_line, Directive, ReadLine
<1>5. (\E path : Enters(path)) => HasLine /\ Interrupt
  BY DEF Enters, EnterFile
<1> QED BY <1>1, <1>2, <1>3, <1>4, <1>5, LoopStep

\* PosInv is inductive.
LEMMA PosStep ==
  ASSUME TypeInv, PosInv, [Next]_vars, ExpansionYieldsText
  PROVE  PosInv'
<1>1. CASE Next
  <2>1. config' = config
    BY <1>1, FixedStep
  <2>2. LinesKept' = LinesKept
    BY <2>1 DEF LinesKept, Files, Source
  <2>3. ASSUME LinesKept, ~interrupted' PROVE AlignedNext
    <3>1. CASE preprocess_file
      BY <3>1, FileAligned, Zenon
    <3>2. CASE ~preprocess_file
      <4>1. ~interrupted /\ frames # << >>
        BY <1>1, <2>3, <3>2, InterruptedStays
      <4>2. Callers(frames) /\ Standing
        BY <2>3, <4>1, Zenon DEF PosInv, Aligned, Standing, Top
      <4> QED BY <1>1, <2>3, <3>2, <4>2, LoopStep, BlankAligned, PragmaAligned, HandleLineAligned,
            IncludeAligned, PlainAligned, StartAligned, ContinueAligned, EndAligned
    <3> QED BY <3>1, <3>2, Zenon
  <2> QED BY <2>1, <2>2, <2>3 DEF PosInv, AlignedNext
<1>2. CASE UNCHANGED vars
  BY <1>2 DEF vars, fixed, location, PosInv, LinesKept, Files, Source
<1> QED BY <1>1, <1>2, Zenon

\* PosInv holds when the driver starts.
LEMMA PosInit ==
  ASSUME Init
  PROVE  PosInv
<1>1. DOMAIN << >> = {}
  OBVIOUS
<1> QED BY <1>1 DEF Init, Start, PosInv, Aligned, Placed

\* README.md, "These fields keep __LINE__, __FILE__, and downstream diagnostics
\* aligned": for every program that keeps its lines, through any nesting of
\* includes, the lexer places a text of one line where __FILE__ and __LINE__ say it
\* is, and an invocation as many lines above __LINE__ as it absorbed.
THEOREM PositionsStayAligned ==
  ASSUME ExpansionYieldsText
  PROVE  Spec => []PositionsAgree
<1>1. Init => TypeInv /\ PosInv
  BY TypeInit, PosInit
<1>2. TypeInv /\ PosInv /\ [Next]_vars => TypeInv' /\ PosInv'
  BY TypeStep, PosStep
<1>3. PosInv => PositionsAgree
  BY DEF PosInv, LinesKept, Files, Aligned, Placed, PositionsAgree
<1> QED BY <1>1, <1>2, <1>3, PTL DEF Spec
=============================================================================
