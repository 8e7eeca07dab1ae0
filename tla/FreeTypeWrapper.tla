---------------------------- MODULE FreeTypeWrapper ----------------------------
(***************************************************************************)
(* The FreeType singleton (watermark/freetype_wrapper.cpp): a font file and *)
(* a cache of its glyphs, for each font size that was asked for.  A font is *)
(* a record                                                                 *)
(*   charmap      the characters it has,                                    *)
(*   glyph        the glyph of a character at a size: the pixels to draw,   *)
(*                where they start (left, top) and how far the next one is, *)
(*   lineHeight   the height of a line at a size,                           *)
(*   kern         the kerning between two characters at a size; hasKerning  *)
(*                is FT_HAS_KERNING, FALSE for the font in data/.           *)
(* A character stands for its glyph index too.                              *)
(***************************************************************************)
EXTENDS Integers

Null == [left |-> 0, top |-> 0, advance |-> 0, pixels |-> {}, isNull |-> TRUE]

(* The glyph index 0, which is no character's: previous_glyph_index_ of an   *)
(* object in static storage.                                                 *)
NoChar == "none"

Empty == [x \in {} |-> Null]

(* A std::map with a value under a key that it has not.  A key that it has   *)
(* keeps its value.                                                          *)
With(map, key, value) ==
  [k \in DOMAIN map \cup {key} |-> IF k \in DOMAIN map THEN map[k] ELSE value]

(* The constructor: the face is open, nothing is cached. *)
FreeType == [glyphs |-> Empty, lineHeights |-> Empty, previous |-> NoChar, faceSize |-> 0]

(***************************************************************************)
(* InitGlyphsCache: the size of the face is set, and every glyph it has is  *)
(* loaded at that size.                                                     *)
(***************************************************************************)
FT_Set_Char_Size(ft, size) == [ft EXCEPT !.faceSize = size]

(* Mutant: the size is set once, for all. *)
InitAtFirstSize(font, ft, size) ==
  LET sized == IF ft.faceSize = 0 THEN FT_Set_Char_Size(ft, size) ELSE ft
      loaded == [c \in font.charmap |-> font.glyph[sized.faceSize][c]]
  IN  [sized EXCEPT
         !.glyphs = With(@, size, loaded),
         !.lineHeights = With(@, size, font.lineHeight[sized.faceSize])]

InitGlyphsCache(font, ft, size) ==
  LET sized == FT_Set_Char_Size(ft, size)
      loaded == [c \in font.charmap |-> font.glyph[sized.faceSize][c]]
  IN  [sized EXCEPT
         !.glyphs = With(@, size, loaded),
         !.lineHeights = With(@, size, font.lineHeight[sized.faceSize])]

(* FT_Get_Kerning, at the size that the face has. *)
Kerning(font, ft, c) ==
  IF font.hasKerning /\ ft.previous # NoChar
    THEN font.kern[ft.faceSize][ft.previous][c]
    ELSE 0

(***************************************************************************)
(* GetChar: the cache of the size is filled first if there is none; looking *)
(* up a character that the font lacks leaves a null entry.                  *)
(***************************************************************************)
CacheFor(font, ft, size) ==
  IF size \in DOMAIN ft.glyphs THEN ft ELSE InitGlyphsCache(font, ft, size)

GlyphOf(ft, size, c) ==
  IF c \in DOMAIN ft.glyphs[size] THEN ft.glyphs[size][c] ELSE Null

(* Mutant: the character is stored before it is known to have a glyph. *)
StoreThenReturn(ft, size, c) ==
  [ft EXCEPT !.previous = c, !.glyphs[size] = With(@, c, Null)]

(* What GetChar leaves behind. *)
AfterGetChar(ft, size, c) ==
  IF GlyphOf(ft, size, c).isNull
    THEN [ft EXCEPT !.glyphs[size] = With(@, c, Null)]
    ELSE [ft EXCEPT !.previous = c]

GetChar(font, ft, size, c) ==
  LET cached == CacheFor(font, ft, size)
      glyph == GlyphOf(cached, size, c)
  IN  [ft       |-> AfterGetChar(cached, size, c),
       glyph    |-> glyph,
       advanceX |-> IF glyph.isNull THEN 0 ELSE Kerning(font, cached, c) + glyph.advance]

GetLineHeight(ft, size) == ft.lineHeights[size]

================================================================================
