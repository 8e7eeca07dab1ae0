------------------------------- MODULE Watermark -------------------------------
(***************************************************************************)
(* DrawText (watermark/watermark.cpp), called for one packet after another  *)
(* in a process that keeps the FreeType singleton in between.  Each turn of *)
(* its loop is a step.  The image is the set of the indexes of the pixels    *)
(* that are 255, those that WatermarkToBits makes 1.                         *)
(***************************************************************************)
EXTENDS FreeTypeWrapper, Sequences, FiniteSets, FiniteSetsExt

CONSTANTS
  Fonts,           \* the fonts considered
  Texts,           \* the texts that are drawn, sequences of characters
  Sizes,           \* the sizes of images, <<width, height>>
  UintRange        \* 2^32, the range of an unsigned int

ASSUME TextsAssumption == Texts \subseteq Seq(STRING)
ASSUME SizesAssumption == Sizes \subseteq Nat \X Nat /\ UintRange \in Nat \ {0}

VARIABLES
  font,            \* the font that is installed
  freeType,        \* the singleton, or NoInstance
  draw,            \* the arguments, variables and image of the call of DrawText
  before           \* history: the singleton when the call began

vars == <<font, freeType, draw, before>>

NewLine == "\n"
Placeholder == "pilcrow"          \* L'¶'
BadByte == "bad byte"             \* not UTF-8
Replacement == "U+FFFD"

(* The font size that PackmsgFromPrepacket takes for a width. *)
FontSize(width) ==
  CASE width <= 224 -> 8
    [] width \in 225 .. 360 -> 10
    [] width \in 361 .. 448 -> 12
    [] width \in 449 .. 540 -> 16
    [] OTHER -> 24

FontSizes == { FontSize(size[1]) : size \in Sizes }

(***************************************************************************)
(* A font has the placeholder (DrawText uses it without another look) and   *)
(* no glyph for a newline ("bitmap will be a nullptr in case of newline",   *)
(* watermark.cpp:128).  Its lines have a height at every size that is used. *)
(***************************************************************************)
ASSUME FontsAssumption ==
  \A f \in Fonts :
    /\ Placeholder \in f.charmap /\ f.charmap \cap {NewLine, NoChar} = {}
    /\ \A size \in FontSizes :
         /\ f.lineHeight[size] \in Nat \ {0}
         /\ \A c \in f.charmap :
              LET glyph == f.glyph[size][c]
              IN  /\ ~ glyph.isNull /\ glyph.pixels \subseteq Nat \X Nat
                  /\ {glyph.left, glyph.top, glyph.advance} \subseteq Int
                  /\ f.hasKerning => \A d \in f.charmap : f.kern[size][c][d] \in Int

NoInstance == FreeType            \* as it is before and after its constructor

(* What is drawn of a text: utf8::replace_invalid. *)
ReplaceInvalid(text) ==
  [i \in DOMAIN text |-> IF text[i] = BadByte THEN Replacement ELSE text[i]]

Idle ==
  [phase |-> "idle", text |-> <<>>, fontSize |-> 8, width |-> 0, height |-> 0,
   at |-> 1, penX |-> 0, offsetX |-> 0, offsetHeight |-> 0, img |-> {}]

Init ==
  /\ font \in Fonts
  /\ freeType = NoInstance
  /\ draw = Idle
  /\ before = NoInstance

--------------------------------------------------------------------------------
(* The call, and the blank image of an empty text. *)
Call(text, width, height) ==
  /\ draw.phase \notin {"instance", "loop"}
  /\ draw' = [Idle EXCEPT !.phase = IF text = <<>> THEN "returned" ELSE "instance",
                          !.text = ReplaceInvalid(text), !.fontSize = FontSize(width),
                          !.width = width, !.height = height]
  /\ before' = freeType
  /\ UNCHANGED <<font, freeType>>

(* FreeType::GetInstance.  Its constructor throws if the font does not open;  *)
(* the next call tries again.                                                 *)
GetInstance ==
  /\ draw.phase = "instance"
  /\ \/ draw' = [draw EXCEPT !.phase = "loop"]
     \/ freeType = NoInstance /\ draw' = [draw EXCEPT !.phase = "threw"]
  /\ UNCHANGED <<font, freeType, before>>

(* Mutant: the pen stays where it is. *)
AfterNewLineOnly(ft) ==
  [draw EXCEPT !.offsetHeight = @ + GetLineHeight(ft, draw.fontSize)]

(* What a newline does after GetChar. *)
AfterNewLine(ft) ==
  [draw EXCEPT !.offsetHeight = @ + GetLineHeight(ft, draw.fontSize), !.penX = 0]

(* The pixels of a glyph whose positions, as unsigned ints, are in the image. *)
Drawn(glyph, offsetX, offsetHeight, penX) ==
  LET x(p) == (offsetX + p[1] + penX + glyph.left) % UintRange
      y(p) == (p[2] + offsetHeight - glyph.top) % UintRange
  IN  { x(p) + y(p) * draw.width :
          p \in { q \in glyph.pixels : x(q) < draw.width /\ y(q) < draw.height } }

(* What any other character does: the first sets the offsets. *)
AfterGlyph(got) ==
  LET lineHeight == GetLineHeight(got.ft, draw.fontSize)
      offsetHeight == IF draw.offsetHeight = 0 THEN lineHeight ELSE draw.offsetHeight
      offsetX == IF draw.offsetX = 0 THEN 2 * offsetHeight ELSE draw.offsetX
  IN  [draw EXCEPT
         !.offsetHeight = offsetHeight,
         !.offsetX = offsetX,
         !.img = @ \cup Drawn(got.glyph, offsetX, offsetHeight, draw.penX),
         !.penX = @ + got.advanceX]

DrawChar ==
  /\ draw.phase = "loop" /\ draw.at <= Len(draw.text)
  /\ LET c == draw.text[draw.at]
         got == GetChar(font, freeType, draw.fontSize, c)
         instead == GetChar(font, got.ft, draw.fontSize, Placeholder)
         next == CASE c = NewLine -> [ft |-> got.ft, draw |-> AfterNewLine(got.ft)]
                   [] c # NewLine /\ ~ got.glyph.isNull ->
                        [ft |-> got.ft, draw |-> AfterGlyph(got)]
                   [] OTHER -> [ft |-> instead.ft, draw |-> AfterGlyph(instead)]
     IN  /\ freeType' = next.ft
         /\ draw' = [next.draw EXCEPT !.at = @ + 1]
  /\ UNCHANGED <<font, before>>

Return ==
  /\ draw.phase = "loop" /\ draw.at > Len(draw.text)
  /\ draw' = [draw EXCEPT !.phase = "returned"]
  /\ UNCHANGED <<font, freeType, before>>

Next ==
  \/ \E text \in Texts, size \in Sizes : Call(text, size[1], size[2])
  \/ GetInstance
  \/ DrawChar
  \/ Return

Spec == Init /\ [][Next]_vars

--------------------------------------------------------------------------------
TypeOK ==
  /\ font \in Fonts
  /\ draw.phase \in {"idle", "instance", "loop", "returned", "threw"}
  /\ draw.at \in 1 .. Len(draw.text) + 1
  /\ freeType.previous \in font.charmap \cup {NoChar}

(***************************************************************************)
(* The layout of a text, character by character: in lines of lineHeight,    *)
(* each from the same margin.  The margin is twice the height of the first  *)
(* baseline, below the newlines that come before any other character.       *)
(***************************************************************************)
Lines(text, n) == Cardinality({ i \in 1 .. n : text[i] = NewLine })

FirstGlyph(text) ==
  CHOOSE k \in DOMAIN text :
    text[k] # NewLine /\ \A i \in 1 .. k - 1 : text[i] = NewLine

FirstLine(text) ==
  LET newLines == Lines(text, FirstGlyph(text)) IN IF newLines = 0 THEN 1 ELSE newLines

Baseline(text, k) ==
  FirstLine(text) + Lines(text, k) - Lines(text, FirstGlyph(text))

GlyphChar(text, k) == IF text[k] \in font.charmap THEN text[k] ELSE Placeholder

(* The character drawn before the k-th, be it the last one of another text. *)
CharBefore(text, k) ==
  LET drawn == { i \in 1 .. k - 1 : text[i] # NewLine }
  IN  IF drawn = {} THEN before.previous ELSE GlyphChar(text, Max(drawn))

AdvanceAt(text, size, k) ==
  font.glyph[size][GlyphChar(text, k)].advance
    + IF font.hasKerning /\ CharBefore(text, k) # NoChar
        THEN font.kern[freeType.faceSize][CharBefore(text, k)][GlyphChar(text, k)]
        ELSE 0

Advances(text, size) == [k \in DOMAIN text |-> AdvanceAt(text, size, k)]

OnLine(text, k) ==
  { i \in 1 .. k - 1 : text[i] # NewLine /\ Lines(text, i) = Lines(text, k - 1) }

PenAt(text, size, k) == SumFunctionOnSet(Advances(text, size), OnLine(text, k))

PixelsAt(text, size, k) ==
  LET glyph == font.glyph[size][GlyphChar(text, k)]
      lineHeight == font.lineHeight[size]
  IN  { << 2 * lineHeight * FirstLine(text) + PenAt(text, size, k) + glyph.left + p[1],
           lineHeight * Baseline(text, k) - glyph.top + p[2] >> : p \in glyph.pixels }

Layout(text, size, width, height) ==
  LET pixels == UNION { PixelsAt(text, size, k) : k \in { i \in DOMAIN text : text[i] # NewLine } }
  IN  { p[1] + p[2] * width : p \in pixels \cap (0 .. width - 1) \X (0 .. height - 1) }

(* DrawText draws its text laid out so, clipped to the image, whatever was   *)
(* drawn before and at whatever size: the glyphs of the cache are those of   *)
(* the size, and the pen starts again with every line.  Of the calls before  *)
(* nothing is left but the last glyph and the size of the face, which only a *)
(* font with kerning reads.                                                  *)
DrawsLayout ==
  draw.phase = "returned" =>
    draw.img = Layout(draw.text, draw.fontSize, draw.width, draw.height)

(* The cache is transparent: whatever entry GetChar may find is the glyph of *)
(* the font at that size, or null for a character that the font lacks, and a *)
(* size that is cached has its line height.                                  *)
CacheIsTheFont ==
  /\ DOMAIN freeType.glyphs = DOMAIN freeType.lineHeights
  /\ \A size \in DOMAIN freeType.glyphs :
       /\ freeType.lineHeights[size] = font.lineHeight[size]
       /\ \A c \in DOMAIN freeType.glyphs[size] :
            freeType.glyphs[size][c] = IF c \in font.charmap THEN font.glyph[size][c] ELSE Null

================================================================================
