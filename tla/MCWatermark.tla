------------------------------ MODULE MCWatermark ------------------------------
(* Instances for model checking Watermark. *)
EXTENDS Watermark

\* A glyph that starts left of the pen and above its line, one that fills the
\* space to the next, and the placeholder.
MCGlyph(size) ==
  [A |-> [left |-> -1, top |-> 3 * size, advance |-> 2 * size,
          pixels |-> {<<0, 0>>, <<size, 2 * size>>}, isNull |-> FALSE],
   V |-> [left |-> 2, top |-> 5 * size, advance |-> 5 * size,
          pixels |-> {<<0, 0>>, <<3, 4 * size>>}, isNull |-> FALSE],
   pilcrow |-> [left |-> 0, top |-> size, advance |-> 3 * size,
                pixels |-> {<<1, size>>}, isNull |-> FALSE]]

MCSizes == {<<120, 52>>, <<400, 100>>}
MCFontSizes == {8, 12}

MCChars == {"A", "V", Placeholder}

MCFont(hasKerning) ==
  [charmap    |-> MCChars,
   glyph      |-> [size \in MCFontSizes |-> MCGlyph(size)],
   lineHeight |-> [size \in MCFontSizes |-> 4 * size],
   hasKerning |-> hasKerning,
   kern       |-> [size \in MCFontSizes |-> [c \in MCChars |-> [d \in MCChars |->
                     IF c = d THEN 0 ELSE 0 - size]]]]

MCFonts == { MCFont(hasKerning) : hasKerning \in BOOLEAN }

MCTexts ==
  {<<>>, <<"A", "V", NewLine, "A">>, <<NewLine, "V">>,
   <<NewLine, NewLine, "A", NewLine, NewLine, "V">>, <<"missing", BadByte, "A">>,
   <<"V", "V", "V", "V">>, <<NewLine>>}

================================================================================
