---------------------------- MODULE Watermark_proofs ----------------------------
(***************************************************************************)
(* For every font, text and image size: the cache of glyphs never shows     *)
(* anything but the font, the glyph before, which the kerning is asked for, *)
(* is one that the font has, and a text is drawn as it is laid out.         *)
(*                                                                          *)
(* A null entry is left only for a character that the loading of its size   *)
(* has not put into the cache, so the invariant of the cache says also that *)
(* a size that is cached has all characters of the font.  The invariant of  *)
(* the drawing says of every turn of the loop where its pen, its offsets    *)
(* and its image are in the layout of the whole text.  The pen is a sum of  *)
(* advances over the characters of a line: the first part is about sums.    *)
(***************************************************************************)
EXTENDS Watermark, FiniteSetTheorems, WellFoundedInduction, TLAPS

(* CacheIsTheFont, of any font and singleton. *)
TrueToFont(f, ft) ==
  /\ DOMAIN ft.glyphs = DOMAIN ft.lineHeights
  /\ \A size \in DOMAIN ft.glyphs :
       /\ ft.lineHeights[size] = f.lineHeight[size]
       /\ \A c \in DOMAIN ft.glyphs[size] :
            ft.glyphs[size][c] = IF c \in f.charmap THEN f.glyph[size][c] ELSE Null

FullyLoaded(f, ft) ==
  /\ DOMAIN ft = {"glyphs", "lineHeights", "previous", "faceSize"}
  /\ \A size \in DOMAIN ft.glyphs : f.charmap \subseteq DOMAIN ft.glyphs[size]

IInv == TrueToFont(font, freeType) /\ FullyLoaded(font, freeType)

(* Loading a size that is not there, which sets the size of the face first,  *)
(* loads it as the font has it.                                              *)
LEMMA InitGlyphsCacheLoadsFont ==
  ASSUME NEW f, NEW ft, NEW size, size \notin DOMAIN ft.glyphs,
         TrueToFont(f, ft), FullyLoaded(f, ft)
  PROVE  LET loaded == InitGlyphsCache(f, ft, size)
         IN  /\ TrueToFont(f, loaded) /\ FullyLoaded(f, loaded)
             /\ size \in DOMAIN loaded.glyphs
<1> DEFINE chars == [c \in f.charmap |-> f.glyph[size][c]]
           loaded == InitGlyphsCache(f, ft, size)
           sized == FT_Set_Char_Size(ft, size)
<1>1. /\ DOMAIN sized = {"glyphs", "lineHeights", "previous", "faceSize"}
      /\ sized.faceSize = size /\ sized.glyphs = ft.glyphs
      /\ sized.lineHeights = ft.lineHeights
  BY DEF FT_Set_Char_Size, FullyLoaded
<1>2. /\ DOMAIN loaded = {"glyphs", "lineHeights", "previous", "faceSize"}
      /\ loaded.glyphs = With(ft.glyphs, size, chars)
      /\ loaded.lineHeights = With(ft.lineHeights, size, f.lineHeight[size])
  <2> HIDE DEF sized
  <2>1. loaded = [sized EXCEPT
                    !.glyphs = With(@, size, [c \in f.charmap |-> f.glyph[sized.faceSize][c]]),
                    !.lineHeights = With(@, size, f.lineHeight[sized.faceSize])]
    BY DEF InitGlyphsCache, sized
  <2> HIDE DEF loaded
  <2> QED BY <1>1, <2>1
<1> HIDE DEF loaded, sized
<1>3. /\ DOMAIN loaded.glyphs = {size} \cup DOMAIN ft.glyphs
      /\ loaded.glyphs[size] = chars
      /\ \A s \in DOMAIN ft.glyphs : s # size => loaded.glyphs[s] = ft.glyphs[s]
  BY <1>2 DEF With
<1>4. /\ DOMAIN loaded.lineHeights = {size} \cup DOMAIN ft.lineHeights
      /\ loaded.lineHeights[size] = f.lineHeight[size]
      /\ \A s \in DOMAIN ft.lineHeights :
           s # size => loaded.lineHeights[s] = ft.lineHeights[s]
  BY <1>2 DEF With, TrueToFont
<1>5. TrueToFont(f, loaded) BY <1>3, <1>4 DEF TrueToFont
<1>6. FullyLoaded(f, loaded) BY <1>2, <1>3 DEF FullyLoaded
<1> QED BY <1>3, <1>5, <1>6 DEF loaded

(* Whatever GetChar looks up, found or not, the cache stays true. *)
LEMMA GetCharKeepsFont ==
  ASSUME NEW f, NEW ft, NEW size, NEW c, TrueToFont(f, ft), FullyLoaded(f, ft)
  PROVE  LET got == GetChar(f, ft, size, c)
         IN  TrueToFont(f, got.ft) /\ FullyLoaded(f, got.ft)
<1> DEFINE cached == CacheFor(f, ft, size)
           after == AfterGetChar(cached, size, c)
<1>1. /\ TrueToFont(f, cached) /\ FullyLoaded(f, cached)
      /\ size \in DOMAIN cached.glyphs
  BY InitGlyphsCacheLoadsFont DEF CacheFor
<1>2. GetChar(f, ft, size, c).ft = after BY DEF GetChar
<1> HIDE DEF cached
<1>3. CASE ~ GlyphOf(cached, size, c).isNull
  <2>1. after = [cached EXCEPT !.previous = c] BY <1>3 DEF AfterGetChar
  <2> HIDE DEF after
  <2>2. /\ DOMAIN after = DOMAIN cached /\ after.glyphs = cached.glyphs
        /\ after.lineHeights = cached.lineHeights
    BY <1>1, <2>1 DEF FullyLoaded
  <2> QED BY <1>1, <1>2, <2>2 DEF TrueToFont, FullyLoaded
<1>4. CASE GlyphOf(cached, size, c).isNull
  <2> DEFINE chars == With(cached.glyphs[size], c, Null)
  <2>1. after = [cached EXCEPT !.glyphs[size] = chars] BY <1>4 DEF AfterGetChar
  <2>2. /\ DOMAIN chars = DOMAIN cached.glyphs[size] \cup {c}
        /\ \A d \in DOMAIN cached.glyphs[size] : chars[d] = cached.glyphs[size][d]
        /\ c \notin DOMAIN cached.glyphs[size] => chars[c] = Null
    BY DEF With
  <2> HIDE DEF after, chars
  <2>3. /\ DOMAIN after = DOMAIN cached
        /\ after.glyphs = [cached.glyphs EXCEPT ![size] = chars]
        /\ after.lineHeights = cached.lineHeights
    BY <1>1, <2>1 DEF FullyLoaded
  <2>4. /\ DOMAIN after.glyphs = DOMAIN cached.glyphs
        /\ after.glyphs[size] = chars
        /\ \A s \in DOMAIN cached.glyphs : s # size => after.glyphs[s] = cached.glyphs[s]
    BY <1>1, <2>3
  <2>5. c \notin DOMAIN cached.glyphs[size] => c \notin f.charmap
    BY <1>1 DEF FullyLoaded
  <2>6. \A d \in DOMAIN chars : chars[d] = IF d \in f.charmap THEN f.glyph[size][d] ELSE Null
    BY <1>1, <2>2, <2>5 DEF TrueToFont
  <2>7. TrueToFont(f, after) BY <1>1, <2>3, <2>4, <2>6 DEF TrueToFont
  <2>8. FullyLoaded(f, after) BY <1>1, <2>2, <2>3, <2>4 DEF FullyLoaded
  <2> QED BY <1>2, <2>7, <2>8
<1> QED BY <1>3, <1>4

(* Every step keeps it: only DrawChar touches the singleton, and only by     *)
(* GetChar, for the character and perhaps for the placeholder.               *)
LEMMA Inductive ==
  ASSUME IInv, [Next]_vars
  PROVE  IInv'
<1>1. CASE DrawChar
  <2> DEFINE c == draw.text[draw.at]
             got == GetChar(font, freeType, draw.fontSize, c)
             instead == GetChar(font, got.ft, draw.fontSize, Placeholder)
  <2>1. freeType' \in {got.ft, instead.ft} /\ font' = font
    <3> HIDE DEF got, instead, c
    <3>1. CASE c = NewLine BY <1>1, <3>1 DEF DrawChar, c, got, instead
    <3>2. CASE c # NewLine /\ ~ got.glyph.isNull
      BY <1>1, <3>2 DEF DrawChar, c, got, instead
    <3>3. CASE c # NewLine /\ got.glyph.isNull
      BY <1>1, <3>3 DEF DrawChar, c, got, instead
    <3> QED BY <3>1, <3>2, <3>3
  <2>2. TrueToFont(font, got.ft) /\ FullyLoaded(font, got.ft)
    BY GetCharKeepsFont DEF IInv
  <2> HIDE DEF got
  <2>3. TrueToFont(font, instead.ft) /\ FullyLoaded(font, instead.ft)
    BY <2>2, GetCharKeepsFont
  <2> HIDE DEF instead
  <2> QED BY <2>1, <2>2, <2>3 DEF IInv
<1>2. CASE UNCHANGED <<font, freeType>>
  BY <1>2 DEF IInv, TrueToFont, FullyLoaded
<1> QED BY <1>1, <1>2 DEF Next, vars, Call, GetInstance, Return

(***************************************************************************)
(* CacheIsTheFont, for every font, text and image: what GetChar may find is *)
(* the glyph of the font at the size that is asked for.                     *)
(***************************************************************************)
THEOREM CacheIsAlwaysTheFont == Spec => []CacheIsTheFont
<1>1. Init => IInv
  BY DEF Init, IInv, TrueToFont, FullyLoaded, NoInstance, FreeType, Empty
<1>2. IInv /\ [Next]_vars => IInv' BY Inductive
<1>3. IInv => CacheIsTheFont BY DEF IInv, TrueToFont, CacheIsTheFont
<1> QED BY <1>1, <1>2, <1>3, PTL DEF Spec

--------------------------------------------------------------------------------
(* The glyph that the next kerning is asked for is one of the font, whatever *)
(* GetChar was asked for.                                                    *)
LEMMA PreviousIsOfFont ==
  ASSUME NEW f, NEW ft, NEW size, NEW c, TrueToFont(f, ft), FullyLoaded(f, ft)
  PROVE  GetChar(f, ft, size, c).ft.previous \in {ft.previous} \cup f.charmap
<1> DEFINE cached == CacheFor(f, ft, size)
           after == AfterGetChar(cached, size, c)
           sized == FT_Set_Char_Size(ft, size)
           loaded == InitGlyphsCache(f, ft, size)
<1>1. TrueToFont(f, cached) /\ FullyLoaded(f, cached) /\ size \in DOMAIN cached.glyphs
  BY InitGlyphsCacheLoadsFont DEF CacheFor
<1>2. cached.previous = ft.previous
  <2>1. /\ DOMAIN sized = {"glyphs", "lineHeights", "previous", "faceSize"}
        /\ sized.previous = ft.previous
    BY DEF FT_Set_Char_Size, FullyLoaded
  <2>2. \E glyphs, lineHeights :
          loaded = [sized EXCEPT !.glyphs = With(@, size, glyphs),
                                 !.lineHeights = With(@, size, lineHeights)]
    BY DEF InitGlyphsCache
  <2> HIDE DEF sized, loaded
  <2>3. loaded.previous = ft.previous BY <2>1, <2>2
  <2> QED BY <2>3 DEF CacheFor, loaded
<1>3. GetChar(f, ft, size, c).ft = after BY DEF GetChar
<1> HIDE DEF cached
<1>4. ~ GlyphOf(cached, size, c).isNull => c \in f.charmap
  BY <1>1 DEF GlyphOf, TrueToFont, Null
<1>5. after.previous \in {cached.previous, c}
  BY <1>1 DEF AfterGetChar, FullyLoaded
<1>6. GlyphOf(cached, size, c).isNull => after.previous = cached.previous
  BY <1>1 DEF AfterGetChar, FullyLoaded
<1> QED BY <1>2, <1>3, <1>4, <1>5, <1>6

DrawFields ==
  {"phase", "text", "fontSize", "width", "height", "at", "penX", "offsetX", "offsetHeight",
   "img"}

(* The characters that are drawn. *)
Chars == STRING \cup {Replacement}

(* TypeOK, and what it takes to keep it. *)
TypeInv == TypeOK /\ IInv /\ DOMAIN draw = DrawFields /\ draw.text \in Seq(Chars)

(* The text of a call stays, character for character. *)
LEMMA ReplacedText ==
  ASSUME NEW text \in Texts
  PROVE  ReplaceInvalid(text) \in Seq(Chars)
<1> DEFINE n == Len(text)
<1>1. text \in Seq(STRING) BY TextsAssumption
<1>2. n \in Nat /\ DOMAIN text = 1 .. n /\ \A k \in 1 .. n : text[k] \in STRING BY <1>1
<1> HIDE DEF n
<1>3. ReplaceInvalid(text) \in [1 .. n -> Chars]
  BY <1>2 DEF ReplaceInvalid, Chars
<1>4. \A m \in Nat : \A f \in [1 .. m -> Chars] : f \in Seq(Chars)
  OBVIOUS
<1> QED BY <1>2, <1>3, <1>4

LEMMA DrawCharKeepsTypes ==
  ASSUME TypeInv, DrawChar
  PROVE  TypeInv'
<1> DEFINE c == draw.text[draw.at]
           got == GetChar(font, freeType, draw.fontSize, c)
           instead == GetChar(font, got.ft, draw.fontSize, Placeholder)
<1> USE DEF TypeInv, TypeOK
<1>1. IInv' /\ font' = font BY Inductive DEF DrawChar, Next
<1>2. freeType'.previous \in font.charmap \cup {NoChar}
  <2>1. freeType' \in {got.ft, instead.ft}
    <3> HIDE DEF got, instead, c
    <3>1. CASE c = NewLine BY <3>1 DEF DrawChar, c, got, instead
    <3>2. CASE c # NewLine /\ ~ got.glyph.isNull BY <3>2 DEF DrawChar, c, got, instead
    <3>3. CASE c # NewLine /\ got.glyph.isNull BY <3>3 DEF DrawChar, c, got, instead
    <3> QED BY <3>1, <3>2, <3>3
  <2>2. got.ft.previous \in {freeType.previous} \cup font.charmap
    BY PreviousIsOfFont DEF IInv
  <2>3. TrueToFont(font, got.ft) /\ FullyLoaded(font, got.ft) BY GetCharKeepsFont DEF IInv
  <2> HIDE DEF got
  <2>4. instead.ft.previous \in {got.ft.previous} \cup font.charmap
    BY <2>3, PreviousIsOfFont
  <2> HIDE DEF instead
  <2> QED BY <2>1, <2>2, <2>4
<1>3. \E next : /\ DOMAIN next = DrawFields /\ next.text = draw.text /\ next.at = draw.at
                /\ next.phase = draw.phase /\ draw' = [next EXCEPT !.at = @ + 1]
  <2>1. \A ft : LET next == AfterNewLine(ft)
                IN  /\ DOMAIN next = DrawFields /\ next.text = draw.text /\ next.at = draw.at
                    /\ next.phase = draw.phase
    BY DEF AfterNewLine, DrawFields
  <2>2. \A g : LET next == AfterGlyph(g)
               IN  /\ DOMAIN next = DrawFields /\ next.text = draw.text /\ next.at = draw.at
                   /\ next.phase = draw.phase
    BY DEF AfterGlyph, DrawFields
  <2>3. \/ \E ft : draw' = [AfterNewLine(ft) EXCEPT !.at = @ + 1]
        \/ \E g : draw' = [AfterGlyph(g) EXCEPT !.at = @ + 1]
    <3> HIDE DEF got, instead, c
    <3>1. CASE c = NewLine BY <3>1 DEF DrawChar, c, got, instead
    <3>2. CASE c # NewLine /\ ~ got.glyph.isNull BY <3>2 DEF DrawChar, c, got, instead
    <3>3. CASE c # NewLine /\ got.glyph.isNull BY <3>3 DEF DrawChar, c, got, instead
    <3> QED BY <3>1, <3>2, <3>3
  <2> QED BY <2>1, <2>2, <2>3
<1>4. PICK next : /\ DOMAIN next = DrawFields /\ next.text = draw.text /\ next.at = draw.at
                  /\ next.phase = draw.phase /\ draw' = [next EXCEPT !.at = @ + 1]
  BY <1>3
<1>5. /\ DOMAIN draw' = DrawFields /\ draw'.text = draw.text /\ draw'.phase = draw.phase
      /\ draw'.at = draw.at + 1
  BY <1>4 DEF DrawFields
<1>6. draw.at <= Len(draw.text) /\ Len(draw.text) \in Nat
  <2>1. draw.at <= Len(draw.text)
    <3> HIDE DEF TypeInv, TypeOK
    <3> QED BY DEF DrawChar
  <2>2. Len(draw.text) \in Nat OBVIOUS
  <2> QED BY <2>1, <2>2
<1>7. draw'.at \in 1 .. Len(draw'.text) + 1
  <2> DEFINE k == draw.at
             m == Len(draw.text)
  <2>1. k \in 1 .. m + 1 /\ k <= m /\ m \in Nat BY <1>6
  <2>2. draw'.at = k + 1 /\ Len(draw'.text) = m BY <1>5
  <2> HIDE DEF k, m
  <2> QED BY <2>1, <2>2
<1>8. font \in Fonts /\ draw.text \in Seq(Chars)
      /\ draw.phase \in {"idle", "instance", "loop", "returned", "threw"}
  OBVIOUS
<1> QED
  <2>1. TypeOK'
    <3> HIDE DEF TypeInv
    <3> QED BY <1>1, <1>2, <1>5, <1>7, <1>8
  <2> HIDE DEF TypeOK
  <2> QED BY <1>1, <1>5, <1>8, <2>1

LEMMA InitTypes ==
  ASSUME Init
  PROVE  TypeInv
<1>1. IInv BY DEF Init, IInv, TrueToFont, FullyLoaded, NoInstance, FreeType, Empty
<1>2. /\ DOMAIN draw = DrawFields /\ draw.text = <<>> /\ draw.at = 1 /\ draw.phase = "idle"
  BY DEF Init, Idle, DrawFields
<1>3. font \in Fonts /\ freeType.previous = NoChar BY DEF Init, NoInstance, FreeType
<1> QED BY <1>1, <1>2, <1>3 DEF TypeInv, TypeOK

LEMMA NextKeepsTypes ==
  ASSUME TypeInv, [Next]_vars
  PROVE  TypeInv'
<1>1. IInv' BY Inductive DEF TypeInv
<1>2. ASSUME NEW text \in Texts, NEW size \in Sizes, Call(text, size[1], size[2])
      PROVE  TypeInv'
  <2>1. /\ DOMAIN draw' = DrawFields /\ draw'.text = ReplaceInvalid(text) /\ draw'.at = 1
        /\ draw'.phase \in {"returned", "instance"} /\ UNCHANGED <<font, freeType>>
    BY <1>2 DEF Call, Idle, DrawFields
  <2>2. draw'.text \in Seq(Chars) BY <2>1, ReplacedText
  <2> QED BY <1>1, <2>1, <2>2 DEF TypeInv, TypeOK
<1>3. CASE DrawChar BY <1>3, DrawCharKeepsTypes
<1>4. CASE GetInstance \/ Return
  <2>1. \E phase \in {"loop", "threw", "returned"} : draw' = [draw EXCEPT !.phase = phase]
    BY <1>4 DEF GetInstance, Return
  <2>2. UNCHANGED <<font, freeType>> BY <1>4 DEF GetInstance, Return
  <2>3. /\ DOMAIN draw' = DrawFields /\ draw'.text = draw.text /\ draw'.at = draw.at
        /\ draw'.phase \in {"loop", "threw", "returned"}
    BY <2>1 DEF TypeInv, DrawFields
  <2> QED BY <1>1, <2>2, <2>3 DEF TypeInv, TypeOK
<1>5. CASE UNCHANGED vars BY <1>1, <1>5 DEF TypeInv, TypeOK, vars
<1> QED BY <1>2, <1>3, <1>4, <1>5 DEF Next

(***************************************************************************)
(* TypeOK, for every font, text and image: the loop stays within its text,  *)
(* and the kerning is asked for a glyph that the font has.                  *)
(***************************************************************************)
THEOREM TypesOK == Spec => []TypeOK
<1>1. Init => TypeInv
  BY InitTypes
<1>2. TypeInv /\ [Next]_vars => TypeInv'
  BY NextKeepsTypes
<1>3. TypeInv => TypeOK BY DEF TypeInv
<1> QED BY <1>1, <1>2, <1>3, PTL DEF Spec

--------------------------------------------------------------------------------
(* Induction over the naturals, for a set of them. *)
LEMMA NatSetInduction ==
  ASSUME NEW P \in SUBSET Nat, 0 \in P, \A n \in P : n + 1 \in P
  PROVE  P = Nat
<1> DEFINE Less == { p \in Nat \X Nat : p[1] < p[2] }
<1> SUFFICES ASSUME Nat \ P # {} PROVE FALSE
  OBVIOUS
<1>1. IsWellFoundedOn(Less, Nat)
  BY NatLessThanWellFounded DEF OpToRel
<1>2. PICK m \in Nat \ P : \A y \in Nat \ P : <<y, m>> \notin Less
  <2> HIDE DEF Less
  <2> QED BY <1>1, WFMin
<1>3. m - 1 \in Nat /\ m - 1 < m
  BY <1>2
<1>4. <<m - 1, m>> \in Less
  BY <1>3
<1>5. m - 1 \in P
  BY <1>2, <1>3, <1>4
<1>6. (m - 1) + 1 = m
  BY <1>2
<1> QED BY <1>2, <1>5, <1>6

(* Induction over the subsets of a finite set: a set of them that has each   *)
(* subset whose proper subsets it has.                                       *)
LEMMA SubsetInduction ==
  ASSUME NEW S, IsFiniteSet(S), NEW P,
         \A s \in SUBSET S : (\A t \in SUBSET s : t # s => t \in P) => s \in P
  PROVE  SUBSET S \subseteq P
<1> DEFINE Small(n) == { s \in SUBSET S : Cardinality(s) <= n }
           N == { n \in Nat : Small(n) \subseteq P }
<1>1. \A s \in SUBSET S : /\ IsFiniteSet(s) /\ Cardinality(s) \in Nat
                          /\ \A t \in SUBSET s : t # s => Cardinality(t) < Cardinality(s)
                                                          /\ Cardinality(t) \in Nat
  BY FS_Subset, FS_CardinalityType
<1>2. ASSUME NEW s \in SUBSET S, NEW n \in Nat, Cardinality(s) <= n,
             n = 0 \/ (n - 1 \in N)
      PROVE  s \in P
  <2>1. ASSUME NEW t \in SUBSET s, t # s PROVE t \in P
    <3>1. Cardinality(t) < Cardinality(s) /\ Cardinality(t) \in Nat /\ Cardinality(s) \in Nat
      BY <1>1, <2>1
    <3>2. n # 0 /\ Cardinality(t) <= n - 1
      BY <1>2, <3>1
    <3> QED BY <1>2, <3>2
  <2> QED BY <2>1
<1>3. 0 \in N
  BY <1>2
<1>4. ASSUME NEW n \in N PROVE n + 1 \in N
  <2>1. n \in Nat /\ n + 1 \in Nat /\ (n + 1) - 1 = n
    OBVIOUS
  <2> QED BY <1>2, <2>1
<1>5. N = Nat
  <2> HIDE DEF N
  <2>1. N \in SUBSET Nat BY DEF N
  <2> QED BY <2>1, <1>3, <1>4, NatSetInduction
<1> QED BY <1>1, <1>5

--------------------------------------------------------------------------------
(* The element that the fold takes next, and what it makes of a function. *)
Choice(s) == CHOOSE x \in s : TRUE

IsSum(F, S, g) ==
  g = [s \in SUBSET S |-> IF s = {} THEN 0 ELSE F[Choice(s)] + g[s \ {Choice(s)}]]

LEMMA Chosen ==
  ASSUME NEW s, s # {}
  PROVE  Choice(s) \in s
BY DEF Choice

(* SumFunctionOnSet is such a sum, if there is one. *)
LEMMA TotalIsSum ==
  ASSUME NEW S, NEW F, NEW h, IsSum(F, S, h)
  PROVE \E g : IsSum(F, S, g) /\ SumFunctionOnSet(F, S) = g[S]
<1> DEFINE r == CHOOSE g : IsSum(F, S, g)
<1>1. IsSum(F, S, r)
  OBVIOUS
<1>2. SumFunctionOnSet(F, S) = r[S]
  BY DEF SumFunctionOnSet, FoldFunctionOnSet, MapThenFoldSet, IsSum, Choice
<1> QED BY <1>1, <1>2

SmallSubsets(S, n) == { s \in SUBSET S : Cardinality(s) <= n }

(* The sums of the subsets of n elements, from those of fewer. *)
Sums(F, S, h, n) ==
  [s \in SmallSubsets(S, n) |-> IF s = {} THEN 0 ELSE F[Choice(s)] + h[s \ {Choice(s)}]]

(* There is one for every finite set. *)
LEMMA SumExists ==
  ASSUME NEW S, IsFiniteSet(S), NEW F
  PROVE  \E g : IsSum(F, S, g)
<1> DEFINE N == { n \in Nat : \E h : h = Sums(F, S, h, n) }
<1>1. \A s \in SUBSET S : IsFiniteSet(s) /\ Cardinality(s) \in Nat
  BY FS_Subset, FS_CardinalityType
<1>2. \A s \in SUBSET S : Cardinality(s) <= 0 => s = {}
  <2> SUFFICES ASSUME NEW s \in SUBSET S, Cardinality(s) <= 0 PROVE s = {}
    OBVIOUS
  <2>1. Cardinality(s) = 0
    BY <1>1
  <2> QED BY <1>1, <2>1, FS_EmptySet
<1>3. 0 \in N
  <2> DEFINE h == [s \in SmallSubsets(S, 0) |-> 0]
  <2>1. \A s \in SmallSubsets(S, 0) : s = {}
    BY <1>2 DEF SmallSubsets
  <2>2. h = Sums(F, S, h, 0)
    BY <2>1 DEF Sums
  <2> QED BY <2>2
<1>4. ASSUME NEW n \in N PROVE n + 1 \in N
  <2>1. n \in Nat /\ n + 1 \in Nat /\ \E h : h = Sums(F, S, h, n)
    OBVIOUS
  <2>2. PICK h : h = Sums(F, S, h, n)
    BY <2>1
  <2> DEFINE k == Sums(F, S, h, n + 1)
  <2>3. ASSUME NEW s \in SmallSubsets(S, n + 1), s # {}
        PROVE  k[s \ {Choice(s)}] = h[s \ {Choice(s)}]
    <3> DEFINE t == s \ {Choice(s)}
    <3>1. Choice(s) \in s
      BY <2>3, Chosen
    <3>2. Cardinality(t) = Cardinality(s) - 1
      BY <1>1, <3>1, FS_RemoveElement DEF SmallSubsets
    <3>3. t \in SmallSubsets(S, n) /\ t \in SmallSubsets(S, n + 1)
      BY <1>1, <2>1, <3>2 DEF SmallSubsets
    <3> HIDE DEF t
    <3>4. h[t] = IF t = {} THEN 0 ELSE F[Choice(t)] + h[t \ {Choice(t)}]
      BY <2>2, <3>3 DEF Sums
    <3>5. k[t] = IF t = {} THEN 0 ELSE F[Choice(t)] + h[t \ {Choice(t)}]
      BY <3>3 DEF Sums
    <3> QED BY <3>4, <3>5 DEF t
  <2>4. k = Sums(F, S, k, n + 1)
    BY <2>3 DEF Sums
  <2> QED BY <2>1, <2>4
<1>5. N = Nat
  <2> HIDE DEF N
  <2>1. N \in SUBSET Nat BY DEF N
  <2> QED BY <2>1, <1>3, <1>4, NatSetInduction
<1>6. PICK h : h = Sums(F, S, h, Cardinality(S))
  BY <1>1, <1>5
<1>7. SmallSubsets(S, Cardinality(S)) = SUBSET S
  BY FS_Subset DEF SmallSubsets
<1> QED BY <1>6, <1>7 DEF IsSum, Sums

(* A sum does not depend on the order in which its elements are chosen. *)
LEMMA SumOfAny ==
  ASSUME NEW S, IsFiniteSet(S), NEW F, \A y \in S : F[y] \in Int,
         NEW g, IsSum(F, S, g)
  PROVE  \A s \in SUBSET S : g[s] \in Int /\ \A x \in s : g[s] = F[x] + g[s \ {x}]
<1> DEFINE P == { s \in SUBSET S : g[s] \in Int /\ \A x \in s : g[s] = F[x] + g[s \ {x}] }
<1>1. ASSUME NEW s \in SUBSET S, \A t \in SUBSET s : t # s => t \in P
      PROVE  s \in P
  <2>1. CASE s = {}
    <3>1. g[s] = 0 BY <2>1 DEF IsSum
    <3> QED BY <2>1, <3>1
  <2>2. CASE s # {}
    <3> DEFINE y == Choice(s)
    <3>1. y \in s BY <2>2, Chosen
    <3> HIDE DEF y
    <3>2. g[s] = F[y] + g[s \ {y}]
      BY <2>2 DEF IsSum, y
    <3>3. s \ {y} \in P BY <1>1, <3>1
    <3>4. F[y] \in Int /\ g[s \ {y}] \in Int BY <3>1, <3>3
    <3>5. ASSUME NEW x \in s, x # y PROVE g[s] = F[x] + g[s \ {x}]
      <4> DEFINE both == s \ {x, y}
      <4>1. s \ {x} \in P /\ both \in P /\ y \in s \ {x} /\ x \in s \ {y}
        BY <1>1, <3>1, <3>5
      <4>2. (s \ {x}) \ {y} = both /\ (s \ {y}) \ {x} = both
        OBVIOUS
      <4>3. g[s \ {x}] = F[y] + g[both]
        BY <4>1, <4>2
      <4>4. g[s \ {y}] = F[x] + g[both]
        BY <3>3, <4>1, <4>2
      <4>5. F[x] \in Int /\ g[both] \in Int
        BY <4>1
      <4> HIDE DEF both, P
      <4> QED BY <3>2, <3>4, <4>3, <4>4, <4>5
    <3>6. g[s] \in Int BY <3>2, <3>4
    <3>7. \A x \in s : g[s] = F[x] + g[s \ {x}]
      BY <3>2, <3>5
    <3> QED BY <3>6, <3>7
  <2> QED BY <2>1, <2>2
<1> HIDE DEF P
<1>2. SUBSET S \subseteq P BY <1>1, SubsetInduction
<1> QED BY <1>2 DEF P

(* Nor on the larger set it is looked up in. *)
LEMMA SumIsOne ==
  ASSUME NEW S, NEW T, IsFiniteSet(S), S \subseteq T, NEW F, NEW g, NEW h,
         IsSum(F, S, g), IsSum(F, T, h)
  PROVE  g[S] = h[S]
<1> DEFINE P == { s \in SUBSET S : g[s] = h[s] }
<1>1. ASSUME NEW s \in SUBSET S, \A t \in SUBSET s : t # s => t \in P
      PROVE  s \in P
  <2> DEFINE t == s \ {Choice(s)}
  <2>1. g[s] = IF s = {} THEN 0 ELSE F[Choice(s)] + g[t]
    BY DEF IsSum
  <2>2. h[s] = IF s = {} THEN 0 ELSE F[Choice(s)] + h[t]
    BY DEF IsSum
  <2>3. s # {} => g[t] = h[t]
    BY <1>1, Chosen
  <2> QED BY <2>1, <2>2, <2>3
<1> HIDE DEF P
<1>2. SUBSET S \subseteq P BY <1>1, SubsetInduction
<1> QED BY <1>2 DEF P

(***************************************************************************)
(* The sum of a function over a set: element by element, in any order.      *)
(***************************************************************************)
LEMMA SumGrows ==
  ASSUME NEW S, IsFiniteSet(S), NEW F, \A y \in S : F[y] \in Int
  PROVE  /\ SumFunctionOnSet(F, {}) = 0
         /\ SumFunctionOnSet(F, S) \in Int
         /\ \A x \in S : SumFunctionOnSet(F, S) = F[x] + SumFunctionOnSet(F, S \ {x})
<1>1. \A T \in SUBSET S : \E g : IsSum(F, T, g) /\ SumFunctionOnSet(F, T) = g[T]
  <2> SUFFICES ASSUME NEW T \in SUBSET S
               PROVE  \E g : IsSum(F, T, g) /\ SumFunctionOnSet(F, T) = g[T]
    OBVIOUS
  <2>1. PICK h : IsSum(F, T, h)
    BY FS_Subset, SumExists
  <2> QED BY <2>1, TotalIsSum
<1>2. PICK g : IsSum(F, S, g) /\ SumFunctionOnSet(F, S) = g[S]
  BY <1>1
<1>3. ASSUME NEW T \in SUBSET S PROVE SumFunctionOnSet(F, T) = g[T]
  <2>1. PICK h : IsSum(F, T, h) /\ SumFunctionOnSet(F, T) = h[T]
    BY <1>1
  <2>2. IsFiniteSet(T)
    BY FS_Subset
  <2> QED BY <1>2, <2>1, <2>2, SumIsOne
<1>4. SumFunctionOnSet(F, {}) = 0
  <2>1. g[{}] = 0
    BY <1>2 DEF IsSum
  <2> QED BY <1>3, <2>1
<1>5. g[S] \in Int /\ \A x \in S : g[S] = F[x] + g[S \ {x}]
  <2>1. IsSum(F, S, g) /\ S \in SUBSET S
    BY <1>2
  <2>2. \A s \in SUBSET S : g[s] \in Int /\ \A x \in s : g[s] = F[x] + g[s \ {x}]
    BY <2>1, SumOfAny
  <2> QED BY <2>1, <2>2
<1> QED BY <1>2, <1>3, <1>4, <1>5

--------------------------------------------------------------------------------
IsGlyph(text, k) == text[k] # NewLine
GlyphBefore(text, k) == \E i \in 1 .. k - 1 : IsGlyph(text, i)

(* The line the k-th character would be drawn on, counted in newlines. *)
LineAt(text, k) ==
  IF GlyphBefore(text, k)
    THEN FirstLine(text) + Lines(text, k - 1) - Lines(text, FirstGlyph(text))
    ELSE Lines(text, k - 1)

(* Pixels whose positions, as unsigned ints, are in an image. *)
Clipped(pixels, width, height) ==
  { (p[1] % UintRange) + (p[2] % UintRange) * width :
      p \in { q \in pixels : q[1] % UintRange < width /\ q[2] % UintRange < height } }

GlyphsBefore(text, k) == { i \in 1 .. k - 1 : IsGlyph(text, i) }

DrawnBefore(text, size, width, height, k) ==
  UNION { Clipped(PixelsAt(text, size, i), width, height) : i \in GlyphsBefore(text, k) }

FaceInv == \A size \in DOMAIN freeType.glyphs : freeType.faceSize \in FontSizes

Called ==
  /\ draw.fontSize \in FontSizes /\ draw.width \in Nat /\ draw.height \in Nat
  /\ before.previous \in font.charmap \cup {NoChar}
  /\ draw.phase = "returned" => draw.at = Len(draw.text) + 1
  /\ draw.at > 1 => draw.fontSize \in DOMAIN freeType.glyphs

(* Pen, offsets and image are those of the layout of the characters before. *)
LaidOut ==
  /\ freeType.previous = CharBefore(draw.text, draw.at)
  /\ draw.penX = PenAt(draw.text, draw.fontSize, draw.at)
  /\ draw.offsetHeight = font.lineHeight[draw.fontSize] * LineAt(draw.text, draw.at)
  /\ draw.offsetX = IF GlyphBefore(draw.text, draw.at)
                      THEN 2 * font.lineHeight[draw.fontSize] * FirstLine(draw.text)
                      ELSE 0
  /\ GlyphBefore(draw.text, draw.at) =>
       /\ FirstGlyph(draw.text) \in 1 .. draw.at - 1
       /\ IsGlyph(draw.text, FirstGlyph(draw.text))
  /\ draw.img = DrawnBefore(draw.text, draw.fontSize, draw.width, draw.height, draw.at)

DrawInv == FaceInv /\ (draw.phase \in {"instance", "loop", "returned"} => Called /\ LaidOut)

(* No glyph is so far out of the image that it wraps around into it. *)
PositionsFit ==
  draw.phase = "returned" =>
    \A k \in DOMAIN draw.text : IsGlyph(draw.text, k) =>
      PixelsAt(draw.text, draw.fontSize, k) \subseteq
        (draw.width - UintRange .. UintRange - 1) \X (draw.height - UintRange .. UintRange - 1)

(* What kerning adds before character c, at the size that the face has. *)
PairKerning(f, face, previous, c) ==
  IF f.hasKerning /\ previous # NoChar THEN f.kern[face][previous][c] ELSE 0

(* GetChar found the glyph of the character, or found that there is none. *)
Hits(f, ft, size, c, got) ==
  /\ got.glyph = f.glyph[size][c] /\ got.ft.previous = c
  /\ got.advanceX = PairKerning(f, got.ft.faceSize, ft.previous, c) + got.glyph.advance

Misses(ft, got) == got.glyph = Null /\ got.ft.previous = ft.previous

(* The singleton after GetChar has been called at a size. *)
Loaded(f, ft, size, later) ==
  /\ size \in DOMAIN later.glyphs
  /\ DOMAIN later.glyphs \subseteq DOMAIN ft.glyphs \cup {size}
  /\ later.lineHeights[size] = f.lineHeight[size]
  /\ later.faceSize = IF size \in DOMAIN ft.glyphs THEN ft.faceSize ELSE size

(* GetChar, with the size cached before or not. *)
LEMMA GetCharFinds ==
  ASSUME NEW f \in Fonts, NEW ft, NEW size \in FontSizes, NEW c,
         TrueToFont(f, ft), FullyLoaded(f, ft), NEW got, got = GetChar(f, ft, size, c)
  PROVE  /\ Loaded(f, ft, size, got.ft)
         /\ c \in f.charmap => Hits(f, ft, size, c, got)
         /\ c \notin f.charmap => Misses(ft, got)
<1> DEFINE cached == CacheFor(f, ft, size)
           loaded == InitGlyphsCache(f, ft, size)
           sized == FT_Set_Char_Size(ft, size)
           after == AfterGetChar(cached, size, c)
<1>1. /\ TrueToFont(f, cached) /\ FullyLoaded(f, cached) /\ size \in DOMAIN cached.glyphs
  BY InitGlyphsCacheLoadsFont DEF CacheFor
<1>2. /\ loaded.previous = ft.previous /\ loaded.faceSize = size
      /\ DOMAIN loaded.glyphs = DOMAIN ft.glyphs \cup {size}
  <2>1. /\ DOMAIN sized = {"glyphs", "lineHeights", "previous", "faceSize"}
        /\ sized.previous = ft.previous /\ sized.faceSize = size /\ sized.glyphs = ft.glyphs
    BY DEF FT_Set_Char_Size, FullyLoaded
  <2>2. \E glyphs, lineHeights :
          loaded = [sized EXCEPT !.glyphs = With(@, size, glyphs),
                                 !.lineHeights = With(@, size, lineHeights)]
    BY DEF InitGlyphsCache
  <2> HIDE DEF sized, loaded
  <2>3. /\ loaded.previous = ft.previous /\ loaded.faceSize = size
        /\ \E glyphs : loaded.glyphs = With(ft.glyphs, size, glyphs)
    BY <2>1, <2>2
  <2> QED BY <2>3 DEF With
<1>3. /\ cached.previous = ft.previous
      /\ cached.faceSize = IF size \in DOMAIN ft.glyphs THEN ft.faceSize ELSE size
      /\ DOMAIN cached.glyphs \subseteq DOMAIN ft.glyphs \cup {size}
  <2> HIDE DEF loaded
  <2> QED BY <1>2 DEF CacheFor, loaded
<1>4. /\ got.ft = after /\ got.glyph = GlyphOf(cached, size, c)
      /\ got.advanceX = IF got.glyph.isNull THEN 0
                        ELSE Kerning(f, cached, c) + got.glyph.advance
  BY DEF GetChar
<1> HIDE DEF cached
<1>5. /\ DOMAIN after.glyphs = DOMAIN cached.glyphs
      /\ after.lineHeights = cached.lineHeights /\ after.faceSize = cached.faceSize
      /\ after.previous = IF GlyphOf(cached, size, c).isNull THEN cached.previous ELSE c
  BY <1>1 DEF AfterGetChar, FullyLoaded
<1> HIDE DEF after
<1>6. Loaded(f, ft, size, got.ft)
  BY <1>1, <1>3, <1>4, <1>5 DEF TrueToFont, Loaded
<1>7. CASE c \in f.charmap
  <2>1. c \in DOMAIN cached.glyphs[size] /\ cached.glyphs[size][c] = f.glyph[size][c]
    BY <1>1, <1>7 DEF FullyLoaded, TrueToFont
  <2>2. GlyphOf(cached, size, c) = f.glyph[size][c]
    BY <2>1 DEF GlyphOf
  <2>3. ~ f.glyph[size][c].isNull
    BY <1>7, FontsAssumption
  <2>4. got.glyph = f.glyph[size][c] /\ got.ft.previous = c
    BY <1>4, <1>5, <2>2, <2>3
  <2>5. got.advanceX = Kerning(f, cached, c) + got.glyph.advance
    BY <1>4, <2>3, <2>4
  <2>6. got.ft.faceSize = cached.faceSize
    BY <1>4, <1>5
  <2> QED BY <1>3, <1>6, <1>7, <2>4, <2>5, <2>6 DEF Kerning, PairKerning, Hits
<1>8. CASE c \notin f.charmap
  <2>1. GlyphOf(cached, size, c) = Null
    BY <1>1, <1>8 DEF TrueToFont, GlyphOf
  <2>2. got.glyph = Null /\ got.ft.previous = ft.previous
    BY <1>3, <1>4, <1>5, <2>1 DEF Null
  <2> QED BY <1>6, <1>8, <2>2 DEF Misses
<1> QED BY <1>7, <1>8

--------------------------------------------------------------------------------
(* Lines. *)

LEMMA LinesStep ==
  ASSUME NEW text
  PROVE  /\ Lines(text, 0) = 0
         /\ \A n \in Nat : Lines(text, n) \in Nat
         /\ \A k \in Nat \ {0} :
              Lines(text, k) = Lines(text, k - 1) + IF IsGlyph(text, k) THEN 0 ELSE 1
         /\ \A m, n \in Nat : m <= n => Lines(text, m) <= Lines(text, n)
<1> DEFINE Newlines(n) == { i \in 1 .. n : text[i] = NewLine }
<1>1. ASSUME NEW n \in Nat
      PROVE  IsFiniteSet(Newlines(n)) /\ Cardinality(Newlines(n)) \in Nat
  <2>1. IsFiniteSet(1 .. n)
    BY FS_Interval
  <2>2. Newlines(n) \in SUBSET (1 .. n)
    OBVIOUS
  <2> QED BY <2>1, <2>2, FS_Subset, FS_CardinalityType
<1>2. Newlines(0) = {}
  OBVIOUS
<1>3. ASSUME NEW k \in Nat \ {0}
      PROVE  Lines(text, k) = Lines(text, k - 1) + IF IsGlyph(text, k) THEN 0 ELSE 1
  <2>1. k - 1 \in Nat /\ k \notin Newlines(k - 1)
    OBVIOUS
  <2>2. Newlines(k) = IF text[k] = NewLine THEN Newlines(k - 1) \cup {k} ELSE Newlines(k - 1)
    OBVIOUS
  <2>3. /\ IsFiniteSet(Newlines(k - 1)) /\ Cardinality(Newlines(k - 1)) \in Nat
    BY <1>1, <2>1
  <2>4. Lines(text, k) = Cardinality(Newlines(k))
        /\ Lines(text, k - 1) = Cardinality(Newlines(k - 1))
    BY DEF Lines
  <2> HIDE DEF Newlines
  <2>5. Cardinality(Newlines(k - 1) \cup {k}) = Cardinality(Newlines(k - 1)) + 1
    BY <2>1, <2>3, FS_AddElement
  <2> QED BY <2>2, <2>3, <2>4, <2>5 DEF IsGlyph
<1>4. ASSUME NEW m \in Nat, NEW n \in Nat, m <= n
      PROVE  Lines(text, m) <= Lines(text, n)
  <2>1. Newlines(m) \in SUBSET Newlines(n)
    BY <1>4
  <2> HIDE DEF Newlines
  <2>2. Cardinality(Newlines(m)) <= Cardinality(Newlines(n))
    BY <1>1, <2>1, FS_Subset
  <2> QED BY <2>2 DEF Lines, Newlines
<1>5. Lines(text, 0) = 0 /\ \A n \in Nat : Lines(text, n) \in Nat
  <2> HIDE DEF Newlines
  <2>1. Cardinality(Newlines(0)) = 0
    BY <1>2, FS_EmptySet
  <2> QED BY <1>1, <2>1 DEF Lines, Newlines
<1> QED BY <1>3, <1>4, <1>5

(* The characters that the pen has passed on the line. *)
LEMMA OnLineStep ==
  ASSUME NEW text, NEW k \in Nat \ {0}
  PROVE  /\ OnLine(text, 1) = {}
         /\ IsGlyph(text, k) => /\ OnLine(text, k + 1) = OnLine(text, k) \cup {k}
                                /\ k \notin OnLine(text, k)
         /\ ~ IsGlyph(text, k) => OnLine(text, k + 1) = {}
<1>0. /\ k - 1 \in Nat /\ Lines(text, k - 1) \in Nat
      /\ Lines(text, k) = Lines(text, k - 1) + IF IsGlyph(text, k) THEN 0 ELSE 1
  <2>1. k - 1 \in Nat
    OBVIOUS
  <2> QED BY <2>1, LinesStep
<1>1. (k + 1) - 1 = k
  OBVIOUS
<1>2. OnLine(text, k + 1) = { i \in 1 .. k : IsGlyph(text, i) /\ Lines(text, i) = Lines(text, k) }
  BY <1>1 DEF OnLine, IsGlyph
<1>5. OnLine(text, 1) = {}
  BY DEF OnLine
<1>3. CASE IsGlyph(text, k)
  <2>1. Lines(text, k) = Lines(text, k - 1)
    BY <1>0, <1>3
  <2>2. 1 .. k = (1 .. k - 1) \cup {k} /\ k \notin 1 .. k - 1
    OBVIOUS
  <2>3. OnLine(text, k) = { i \in 1 .. k - 1 : IsGlyph(text, i) /\ Lines(text, i) = Lines(text, k) }
    BY <2>1 DEF OnLine, IsGlyph
  <2> QED BY <1>2, <1>3, <1>5, <2>2, <2>3
<1>4. CASE ~ IsGlyph(text, k)
  <2>1. /\ Lines(text, k) = Lines(text, k - 1) + 1 /\ Lines(text, k - 1) \in Nat
    BY <1>0, <1>4
  <2>2. ASSUME NEW i \in 1 .. k, IsGlyph(text, i) PROVE Lines(text, i) # Lines(text, k)
    <3>1. i \in Nat /\ k - 1 \in Nat /\ i <= k - 1
      BY <1>4, <2>2
    <3>2. Lines(text, i) <= Lines(text, k - 1) /\ Lines(text, i) \in Nat
      BY <3>1, LinesStep
    <3> QED BY <2>1, <3>2
  <2>3. \A i \in 1 .. k : ~ (IsGlyph(text, i) /\ Lines(text, i) = Lines(text, k))
    BY <2>2
  <2>4. OnLine(text, k + 1) = {}
    BY <1>2, <2>3
  <2> QED BY <1>4, <1>5, <2>4
<1> QED BY <1>3, <1>4, <1>5

LEMMA OnLineIsFinite ==
  ASSUME NEW text, NEW k \in Nat
  PROVE  IsFiniteSet(OnLine(text, k)) /\ OnLine(text, k) \subseteq 1 .. k - 1
<1>1. IsFiniteSet(1 .. k - 1)
  BY FS_Interval
<1>2. OnLine(text, k) \in SUBSET (1 .. k - 1)
  BY DEF OnLine
<1> QED BY <1>1, <1>2, FS_Subset

(* The pen moves by what the character advances, or back to the margin. *)
LEMMA PenMoves ==
  ASSUME NEW text, NEW k \in Nat \ {0}, NEW advances,
         \A i \in OnLine(text, k) \cup {k} : advances[i] \in Int
  PROVE  /\ SumFunctionOnSet(advances, OnLine(text, 1)) = 0
         /\ SumFunctionOnSet(advances, OnLine(text, k)) \in Int
         /\ SumFunctionOnSet(advances, OnLine(text, k + 1)) =
              IF IsGlyph(text, k)
                THEN SumFunctionOnSet(advances, OnLine(text, k)) + advances[k] ELSE 0
<1> DEFINE S == OnLine(text, k)
<1>1. IsFiniteSet(S) /\ IsFiniteSet(S \cup {k})
  BY OnLineIsFinite, FS_AddElement
<1>2. SumFunctionOnSet(advances, {}) = 0 /\ SumFunctionOnSet(advances, S) \in Int
  <2> HIDE DEF S
  <2>1. \A i \in S : advances[i] \in Int
    BY DEF S
  <2> QED BY <1>1, <2>1, SumGrows
<1>3. SumFunctionOnSet(advances, S \cup {k}) =
        advances[k] + SumFunctionOnSet(advances, (S \cup {k}) \ {k})
  <2> DEFINE T == S \cup {k}
  <2>1. k \in T /\ IsFiniteSet(T) /\ \A i \in T : advances[i] \in Int
    BY <1>1
  <2> HIDE DEF T
  <2>2. SumFunctionOnSet(advances, T) = advances[k] + SumFunctionOnSet(advances, T \ {k})
    BY <2>1, SumGrows
  <2> QED BY <2>2 DEF T
<1>4. k \notin S => (S \cup {k}) \ {k} = S
  OBVIOUS
<1>5. advances[k] \in Int
  OBVIOUS
<1>6. /\ OnLine(text, 1) = {}
      /\ IsGlyph(text, k) => OnLine(text, k + 1) = S \cup {k} /\ k \notin S
      /\ ~ IsGlyph(text, k) => OnLine(text, k + 1) = {}
  BY OnLineStep
<1> HIDE DEF S
<1>7. CASE IsGlyph(text, k)
  <2>1. OnLine(text, k + 1) = S \cup {k} /\ (S \cup {k}) \ {k} = S
    BY <1>4, <1>6, <1>7
  <2>2. SumFunctionOnSet(advances, OnLine(text, k + 1)) =
          advances[k] + SumFunctionOnSet(advances, S)
    BY <1>3, <2>1
  <2>3. SumFunctionOnSet(advances, OnLine(text, k + 1)) =
          SumFunctionOnSet(advances, S) + advances[k]
    BY <1>2, <1>5, <2>2
  <2> QED BY <1>2, <1>6, <1>7, <2>3 DEF S
<1>8. CASE ~ IsGlyph(text, k)
  BY <1>2, <1>6, <1>8 DEF S
<1> QED BY <1>7, <1>8

(* The character before the next one. *)
LEMMA MaxOfAppended ==
  ASSUME NEW S, NEW k \in Nat, S \subseteq 1 .. k - 1
  PROVE  Max(S \cup {k}) = k
<1>1. \A y \in S \cup {k} : k >= y
  OBVIOUS
<1>2. \A x \in S \cup {k} : x >= k => x = k
  OBVIOUS
<1>3. \A x : x \in S \cup {k} /\ (\A y \in S \cup {k} : x >= y) <=> x = k
  BY <1>1, <1>2
<1> QED BY <1>3, Zenon DEF Max

LEMMA GlyphsStep ==
  ASSUME NEW text, NEW k \in Nat \ {0}
  PROVE  LET glyphs(n) == { i \in 1 .. n - 1 : IsGlyph(text, i) }
         IN  /\ glyphs(k + 1) = IF IsGlyph(text, k) THEN glyphs(k) \cup {k} ELSE glyphs(k)
             /\ GlyphBefore(text, k + 1) <=> GlyphBefore(text, k) \/ IsGlyph(text, k)
<1>1. 1 .. (k + 1) - 1 = (1 .. k - 1) \cup {k}
  OBVIOUS
<1> QED BY <1>1 DEF GlyphBefore

LEMMA CharBeforeStep ==
  ASSUME NEW text, NEW k \in Nat \ {0}
  PROVE  CharBefore(text, k + 1) =
           IF IsGlyph(text, k) THEN GlyphChar(text, k) ELSE CharBefore(text, k)
<1> DEFINE drawn(n) == { i \in 1 .. n - 1 : text[i] # NewLine }
<1>1. drawn(k + 1) = IF IsGlyph(text, k) THEN drawn(k) \cup {k} ELSE drawn(k)
  BY GlyphsStep DEF IsGlyph
<1>2. Max(drawn(k) \cup {k}) = k
  BY MaxOfAppended
<1>3. \A n : CharBefore(text, n) = IF drawn(n) = {} THEN before.previous
                                   ELSE GlyphChar(text, Max(drawn(n)))
  BY DEF CharBefore
<1> HIDE DEF drawn
<1> QED BY <1>1, <1>2, <1>3

(* The first glyph, once there is one, and the line the next character is on. *)
LEMMA FirstGlyphFound ==
  ASSUME NEW text, NEW k \in DOMAIN text, DOMAIN text \subseteq Nat \ {0},
         IsGlyph(text, k), ~ GlyphBefore(text, k)
  PROVE  FirstGlyph(text) = k
<1> DEFINE IsFirst(n) == IsGlyph(text, n) /\ \A i \in 1 .. n - 1 : ~ IsGlyph(text, i)
<1>1. IsFirst(k)
  BY DEF GlyphBefore
<1>2. \A n \in DOMAIN text : IsFirst(n) => n = k
  <2> SUFFICES ASSUME NEW n \in DOMAIN text, IsFirst(n) PROVE n = k
    OBVIOUS
  <2>1. n \in Nat \ {0} /\ k \in Nat \ {0}
    OBVIOUS
  <2>2. ~ (k \in 1 .. n - 1) /\ ~ (n \in 1 .. k - 1)
    BY <1>1
  <2> QED BY <2>1, <2>2
<1>3. FirstGlyph(text) = CHOOSE n \in DOMAIN text : IsFirst(n)
  BY DEF FirstGlyph, IsGlyph
<1> HIDE DEF IsFirst
<1>4. \A n : n \in DOMAIN text /\ IsFirst(n) <=> n = k
  BY <1>1, <1>2
<1> QED BY <1>3, <1>4, Zenon

--------------------------------------------------------------------------------
(* A turn of the loop. *)

(* GetChar for the current character, and for the placeholder if it must be. *)
Got == GetChar(font, freeType, draw.fontSize, draw.text[draw.at])
Instead == GetChar(font, Got.ft, draw.fontSize, Placeholder)

(* The singleton after GetChar has been called with it. *)
Looked(ft) == Loaded(font, freeType, draw.fontSize, ft)

(* The character, or the placeholder instead, is found. *)
LEMMA LooksUp ==
  ASSUME TypeInv, draw.fontSize \in FontSizes
  PROVE  LET c == draw.text[draw.at]
             d == GlyphChar(draw.text, draw.at)
         IN  /\ Looked(Got.ft) /\ Looked(Instead.ft)
             /\ c \in font.charmap => Hits(font, freeType, draw.fontSize, d, Got)
             /\ c \notin font.charmap => /\ Misses(freeType, Got)
                                        /\ Hits(font, freeType, draw.fontSize, d, Instead)
<1> DEFINE c == draw.text[draw.at]
           size == draw.fontSize
           ft == Got.ft
<1>1. /\ font \in Fonts /\ size \in FontSizes
      /\ TrueToFont(font, freeType) /\ FullyLoaded(font, freeType)
  BY DEF TypeInv, TypeOK, IInv
<1>2. Got = GetChar(font, freeType, size, c)
  BY DEF Got
<1>3. TrueToFont(font, ft) /\ FullyLoaded(font, ft)
  BY <1>1, <1>2, GetCharKeepsFont
<1>4. Placeholder \in font.charmap
  BY <1>1, FontsAssumption
<1>5. Instead = GetChar(font, ft, size, Placeholder)
  BY DEF Instead
<1>6. GlyphChar(draw.text, draw.at) = IF c \in font.charmap THEN c ELSE Placeholder
  BY DEF GlyphChar
<1>7. Looked(Got.ft) <=> Loaded(font, freeType, size, ft)
  BY DEF Looked
<1>8. Looked(Instead.ft) <=> Loaded(font, freeType, size, Instead.ft)
  BY DEF Looked
<1> HIDE DEF c, size
<1>9. /\ Loaded(font, freeType, size, Got.ft)
      /\ c \in font.charmap => Hits(font, freeType, size, c, Got)
      /\ c \notin font.charmap => Misses(freeType, Got)
  BY <1>1, <1>2, GetCharFinds
<1> HIDE DEF ft
<1>10. /\ Loaded(font, ft, size, Instead.ft)
       /\ Hits(font, ft, size, Placeholder, Instead)
  BY <1>1, <1>3, <1>4, <1>5, GetCharFinds
<1>11. Loaded(font, freeType, size, Instead.ft)
  BY <1>9, <1>10 DEF Loaded, ft
<1>12. Misses(freeType, Got) => Hits(font, freeType, size, Placeholder, Instead)
  BY <1>10 DEF Misses, Hits, ft
<1> QED BY <1>6, <1>7, <1>8, <1>9, <1>11, <1>12 DEF c, size, ft

(* The glyph, the offsets and the advance of a character that is drawn. *)
GlyphDrawn == font.glyph[draw.fontSize][GlyphChar(draw.text, draw.at)]
LineHeight == font.lineHeight[draw.fontSize]
HeightDrawn == IF draw.offsetHeight = 0 THEN LineHeight ELSE draw.offsetHeight
MarginDrawn == IF draw.offsetX = 0 THEN 2 * HeightDrawn ELSE draw.offsetX

(* DrawChar, field by field. *)
LEMMA CharDrawn ==
  ASSUME TypeInv, draw.fontSize \in FontSizes, DrawChar
  PROVE  /\ UNCHANGED <<font, before>> /\ Looked(freeType')
         /\ draw.phase = "loop" /\ draw.at \in 1 .. Len(draw.text)
         /\ draw'.phase = draw.phase /\ draw'.text = draw.text /\ draw'.at = draw.at + 1
         /\ draw'.fontSize = draw.fontSize
         /\ draw'.width = draw.width /\ draw'.height = draw.height
         /\ IF IsGlyph(draw.text, draw.at)
              THEN /\ freeType'.previous = GlyphChar(draw.text, draw.at)
                   /\ draw'.offsetHeight = HeightDrawn /\ draw'.offsetX = MarginDrawn
                   /\ draw'.img = draw.img \cup
                                    Drawn(GlyphDrawn, MarginDrawn, HeightDrawn, draw.penX)
                   /\ draw'.penX = draw.penX +
                        (PairKerning(font, freeType'.faceSize, freeType.previous,
                                     GlyphChar(draw.text, draw.at)) + GlyphDrawn.advance)
              ELSE /\ freeType'.previous = freeType.previous
                   /\ draw'.offsetHeight = draw.offsetHeight + LineHeight
                   /\ draw'.offsetX = draw.offsetX /\ draw'.img = draw.img /\ draw'.penX = 0
<1> DEFINE c == draw.text[draw.at]
           d == GlyphChar(draw.text, draw.at)
           g == IF c \in font.charmap THEN Got ELSE Instead
<1>1. /\ Looked(Got.ft) /\ Looked(Instead.ft)
      /\ c \notin font.charmap => Got.glyph = Null /\ Got.ft.previous = freeType.previous
      /\ g.glyph = font.glyph[draw.fontSize][d] /\ g.ft.previous = d
      /\ g.advanceX = PairKerning(font, g.ft.faceSize, freeType.previous, d) + g.glyph.advance
  BY LooksUp DEF Hits, Misses
<1>2. /\ UNCHANGED <<font, before>>
      /\ draw.phase = "loop" /\ draw.at \in 1 .. Len(draw.text)
  <2>1. /\ UNCHANGED <<font, before>> /\ draw.phase = "loop" /\ draw.at <= Len(draw.text)
    BY DEF DrawChar
  <2>2. draw.at \in 1 .. Len(draw.text) + 1 /\ Len(draw.text) \in Nat
    BY DEF TypeInv, TypeOK
  <2>3. \A n \in Nat : \A k \in 1 .. n + 1 : k <= n => k \in 1 .. n
    OBVIOUS
  <2> QED BY <2>1, <2>2, <2>3
<1>3. DOMAIN draw = DrawFields /\ font \in Fonts
  BY DEF TypeInv, TypeOK
<1>4. CASE ~ IsGlyph(draw.text, draw.at)
  <2>1. c = NewLine /\ c \notin font.charmap
    BY <1>3, <1>4, FontsAssumption DEF IsGlyph
  <2>2. freeType' = Got.ft /\ draw' = [AfterNewLine(Got.ft) EXCEPT !.at = @ + 1]
    BY <2>1 DEF DrawChar, Got
  <2>3. GetLineHeight(Got.ft, draw.fontSize) = LineHeight
    BY <1>1 DEF Looked, Loaded, GetLineHeight, LineHeight
  <2>4. AfterNewLine(Got.ft) =
          [draw EXCEPT !.offsetHeight = @ + LineHeight, !.penX = 0]
    BY <2>3 DEF AfterNewLine
  <2>5. draw' = [draw EXCEPT !.offsetHeight = @ + LineHeight, !.penX = 0, !.at = @ + 1]
    BY <1>3, <2>2, <2>4 DEF DrawFields
  <2> QED BY <1>1, <1>2, <1>3, <1>4, <2>1, <2>2, <2>5 DEF DrawFields
<1>5. CASE IsGlyph(draw.text, draw.at)
  <2>1. freeType' = g.ft /\ draw' = [AfterGlyph(g) EXCEPT !.at = @ + 1]
    <3>1. c # NewLine
      BY <1>5 DEF IsGlyph
    <3>2. CASE c \in font.charmap
      <4>1. ~ Got.glyph.isNull
        BY <1>1, <1>3, <3>2, FontsAssumption DEF GlyphChar
      <4> QED BY <3>1, <3>2, <4>1 DEF DrawChar, Got
    <3>3. CASE c \notin font.charmap
      <4>1. Got.glyph.isNull
        BY <1>1, <3>3 DEF Null
      <4> QED BY <3>1, <3>3, <4>1 DEF DrawChar, Got, Instead
    <3> QED BY <3>2, <3>3
  <2> HIDE DEF g
  <2>2. Looked(g.ft) BY <1>1 DEF g
  <2>3. GetLineHeight(g.ft, draw.fontSize) = LineHeight
    BY <2>2 DEF Looked, Loaded, GetLineHeight, LineHeight
  <2>4. AfterGlyph(g) =
          [draw EXCEPT !.offsetHeight = HeightDrawn, !.offsetX = MarginDrawn,
             !.img = @ \cup Drawn(g.glyph, MarginDrawn, HeightDrawn, draw.penX),
             !.penX = @ + g.advanceX]
    BY <2>3 DEF AfterGlyph, HeightDrawn, MarginDrawn
  <2>5. draw' =
          [draw EXCEPT !.offsetHeight = HeightDrawn, !.offsetX = MarginDrawn,
             !.img = @ \cup Drawn(g.glyph, MarginDrawn, HeightDrawn, draw.penX),
             !.penX = @ + g.advanceX, !.at = @ + 1]
    BY <1>3, <2>1, <2>4 DEF DrawFields
  <2>6. g.glyph = GlyphDrawn
    BY <1>1 DEF GlyphDrawn
  <2>7. /\ draw'.phase = draw.phase /\ draw'.text = draw.text /\ draw'.at = draw.at + 1
        /\ draw'.fontSize = draw.fontSize
        /\ draw'.width = draw.width /\ draw'.height = draw.height
        /\ draw'.offsetHeight = HeightDrawn /\ draw'.offsetX = MarginDrawn
        /\ draw'.img = draw.img \cup Drawn(g.glyph, MarginDrawn, HeightDrawn, draw.penX)
        /\ draw'.penX = draw.penX + g.advanceX
    BY <1>3, <2>5 DEF DrawFields
  <2> QED BY <1>1, <1>2, <1>5, <2>1, <2>2, <2>6, <2>7
<1> QED BY <1>4, <1>5

--------------------------------------------------------------------------------
(* The layout is the same for the same font, size of the face and text. *)

(* What the layout reads of the singleton is the size of its face, for kerning. *)
LEMMA SameFont ==
  ASSUME NEW text, NEW size, UNCHANGED <<font, before>>,
         freeType'.faceSize = freeType.faceSize
  PROVE  \A k : /\ CharBefore(text, k)' = CharBefore(text, k)
                /\ PenAt(text, size, k)' = PenAt(text, size, k)
                /\ PixelsAt(text, size, k)' = PixelsAt(text, size, k)
<1>1. \A k : GlyphChar(text, k)' = GlyphChar(text, k)
  BY DEF GlyphChar
<1>2. \A k : CharBefore(text, k)' = CharBefore(text, k)
  BY <1>1 DEF CharBefore
<1>3. \A k : AdvanceAt(text, size, k)' = AdvanceAt(text, size, k)
  BY <1>1, <1>2 DEF AdvanceAt
<1>4. Advances(text, size)' = Advances(text, size)
  BY <1>3 DEF Advances
<1>5. \A k : PenAt(text, size, k)' = PenAt(text, size, k)
  BY <1>4 DEF PenAt
<1>6. \A k : PixelsAt(text, size, k)' = PixelsAt(text, size, k)
  BY <1>1, <1>5 DEF PixelsAt
<1> QED BY <1>2, <1>5, <1>6

(* A step that only moves from one phase to the next keeps all. *)
LEMMA SameLayout ==
  ASSUME DrawInv, UNCHANGED <<font, freeType, before>>,
         draw'.text = draw.text, draw'.fontSize = draw.fontSize, draw'.width = draw.width,
         draw'.height = draw.height, draw'.at = draw.at, draw'.penX = draw.penX,
         draw'.offsetX = draw.offsetX, draw'.offsetHeight = draw.offsetHeight,
         draw'.img = draw.img,
         draw'.phase \in {"instance", "loop", "returned"} =>
           draw.phase \in {"instance", "loop", "returned"},
         draw'.phase = "returned" => draw.at = Len(draw.text) + 1
  PROVE  DrawInv'
<1>1. FaceInv'
  BY DEF DrawInv, FaceInv, FontSizes, FontSize
<1>2. SUFFICES ASSUME draw'.phase \in {"instance", "loop", "returned"}
               PROVE  Called' /\ LaidOut'
  BY <1>1 DEF DrawInv
<1>3. Called /\ LaidOut
  BY <1>2 DEF DrawInv
<1>4. Called'
  BY <1>2, <1>3 DEF Called, FontSizes, FontSize
<1>5. PICK text, size, w, h, k :
        text = draw.text /\ size = draw.fontSize /\ w = draw.width /\ h = draw.height
          /\ k = draw.at
  OBVIOUS
<1>6. \A i : /\ CharBefore(text, i)' = CharBefore(text, i)
             /\ PenAt(text, size, i)' = PenAt(text, size, i)
             /\ PixelsAt(text, size, i)' = PixelsAt(text, size, i)
  BY SameFont
<1>7. DrawnBefore(text, size, w, h, k)' = DrawnBefore(text, size, w, h, k)
  BY <1>6 DEF DrawnBefore
<1>8. /\ freeType.previous = CharBefore(text, k) /\ draw.penX = PenAt(text, size, k)
      /\ draw.offsetHeight = font.lineHeight[size] * LineAt(text, k)
      /\ draw.offsetX = IF GlyphBefore(text, k)
                          THEN 2 * font.lineHeight[size] * FirstLine(text) ELSE 0
      /\ GlyphBefore(text, k) =>
           FirstGlyph(text) \in 1 .. k - 1 /\ IsGlyph(text, FirstGlyph(text))
      /\ draw.img = DrawnBefore(text, size, w, h, k)
  BY <1>3, <1>5 DEF LaidOut
<1>9. /\ freeType'.previous = CharBefore(text, k)' /\ draw'.penX = PenAt(text, size, k)'
      /\ draw'.offsetHeight = font'.lineHeight[size] * LineAt(text, k)
      /\ draw'.offsetX = IF GlyphBefore(text, k)
                           THEN 2 * font'.lineHeight[size] * FirstLine(text) ELSE 0
      /\ draw'.img = DrawnBefore(text, size, w, h, k)'
  BY <1>6, <1>7, <1>8
<1>10. text = draw'.text /\ size = draw'.fontSize /\ w = draw'.width /\ h = draw'.height
         /\ k = draw'.at
  BY <1>5
<1> QED BY <1>4, <1>8, <1>9, <1>10 DEF LaidOut

(* The line of the next character, from the line of this one. *)
LEMMA LineStep ==
  ASSUME NEW text, DOMAIN text \subseteq Nat \ {0}, NEW k \in DOMAIN text,
         GlyphBefore(text, k) =>
           FirstGlyph(text) \in 1 .. k - 1 /\ IsGlyph(text, FirstGlyph(text))
  PROVE  /\ LineAt(text, k) \in Nat
         /\ ~ IsGlyph(text, k) => /\ LineAt(text, k + 1) = LineAt(text, k) + 1
                                  /\ GlyphBefore(text, k + 1) <=> GlyphBefore(text, k)
         /\ IsGlyph(text, k) =>
              /\ GlyphBefore(text, k + 1) /\ LineAt(text, k + 1) = Baseline(text, k)
              /\ FirstGlyph(text) \in 1 .. k /\ IsGlyph(text, FirstGlyph(text))
              /\ FirstLine(text) \in Nat \ {0} /\ Baseline(text, k) \in Nat \ {0}
              /\ GlyphBefore(text, k) => LineAt(text, k) = Baseline(text, k)
              /\ ~ GlyphBefore(text, k) =>
                   /\ FirstLine(text) = IF LineAt(text, k) = 0 THEN 1 ELSE LineAt(text, k)
                   /\ Baseline(text, k) = FirstLine(text)
<1> DEFINE first == FirstGlyph(text)
           L(n) == Lines(text, n)
<1>1. k \in Nat \ {0} /\ k - 1 \in Nat /\ (k + 1) - 1 = k
  OBVIOUS
<1>2. /\ L(k) \in Nat /\ L(k - 1) \in Nat
      /\ L(k) = IF IsGlyph(text, k) THEN L(k - 1) ELSE L(k - 1) + 1
  BY <1>1, LinesStep
<1>3. FirstLine(text) = IF L(first) = 0 THEN 1 ELSE L(first)
  BY DEF FirstLine
<1>4. Baseline(text, k) = FirstLine(text) + L(k) - L(first)
  BY DEF Baseline
<1>5. GlyphBefore(text, k + 1) <=> GlyphBefore(text, k) \/ IsGlyph(text, k)
  BY <1>1, GlyphsStep
<1>6. LineAt(text, k) = IF GlyphBefore(text, k)
                          THEN FirstLine(text) + L(k - 1) - L(first) ELSE L(k - 1)
  BY DEF LineAt
<1>7. LineAt(text, k + 1) = IF GlyphBefore(text, k + 1)
                              THEN FirstLine(text) + L(k) - L(first) ELSE L(k)
  BY <1>1 DEF LineAt
<1>8. CASE GlyphBefore(text, k)
  <2>1. first \in Nat /\ first <= k - 1 /\ first \in 1 .. k /\ IsGlyph(text, first)
    BY <1>1, <1>8
  <2>2. L(first) \in Nat /\ L(first) <= L(k - 1)
    BY <1>1, <2>1, LinesStep
  <2> HIDE DEF L, first
  <2>3. FirstLine(text) \in Nat \ {0}
    BY <1>3, <2>2
  <2>4. FirstLine(text) + L(k - 1) - L(first) \in Nat \ {0}
    BY <1>2, <2>2, <2>3
  <2> QED BY <1>2, <1>4, <1>5, <1>6, <1>7, <1>8, <2>1, <2>2, <2>3, <2>4 DEF first
<1>9. CASE ~ GlyphBefore(text, k) /\ IsGlyph(text, k)
  <2>1. first = k
    BY <1>9, FirstGlyphFound
  <2> HIDE DEF L
  <2>2. L(first) = L(k - 1) /\ L(first) = L(k)
    BY <1>2, <1>9, <2>1
  <2>3. FirstLine(text) \in Nat \ {0} /\ Baseline(text, k) = FirstLine(text)
    BY <1>2, <1>3, <1>4, <2>2
  <2> HIDE DEF first
  <2> QED BY <1>1, <1>2, <1>3, <1>4, <1>5, <1>6, <1>7, <1>9, <2>1, <2>2, <2>3 DEF first
<1>10. CASE ~ GlyphBefore(text, k) /\ ~ IsGlyph(text, k)
  <2> HIDE DEF L
  <2> QED BY <1>2, <1>5, <1>6, <1>7, <1>10
<1> QED BY <1>8, <1>9, <1>10

(* Products of a height of lines and a number of lines. *)
LEMMA Heights ==
  ASSUME NEW h \in Nat \ {0}, NEW n \in Nat
  PROVE  /\ h * n \in Nat /\ h * n + h = h * (n + 1) /\ h * 1 = h
         /\ 2 * (h * n) = 2 * h * n
         /\ n # 0 => h * n # 0 /\ 2 * h * n # 0
         /\ h * 0 = 0
<1>1. h * n \in Nat /\ (n # 0 => h * n # 0)
  OBVIOUS
<1>2. 2 * (h * n) = 2 * h * n
  OBVIOUS
<1> QED BY <1>1, <1>2

(* What AfterGlyph takes for the offsets is where the layout has the glyph. *)
LEMMA OffsetsOfLayout ==
  ASSUME TypeInv, DrawInv, draw.phase = "loop", draw.at \in DOMAIN draw.text,
         IsGlyph(draw.text, draw.at)
  PROVE  /\ HeightDrawn = LineHeight * Baseline(draw.text, draw.at)
         /\ MarginDrawn = 2 * LineHeight * FirstLine(draw.text)
         /\ LineHeight \in Nat \ {0}
<1>1. /\ draw.offsetHeight = LineHeight * LineAt(draw.text, draw.at)
      /\ draw.offsetX = IF GlyphBefore(draw.text, draw.at)
                          THEN 2 * LineHeight * FirstLine(draw.text) ELSE 0
      /\ GlyphBefore(draw.text, draw.at) =>
           /\ FirstGlyph(draw.text) \in 1 .. draw.at - 1
           /\ IsGlyph(draw.text, FirstGlyph(draw.text))
  BY DEF DrawInv, LaidOut, LineHeight
<1>2. LineHeight \in Nat \ {0}
  BY FontsAssumption DEF DrawInv, Called, TypeInv, TypeOK, LineHeight
<1>3. DOMAIN draw.text \subseteq Nat \ {0}
  BY DEF TypeInv
<1>4. PICK text, k, h, line, base, margin :
        /\ text = draw.text /\ k = draw.at /\ h = LineHeight
        /\ line = LineAt(text, k) /\ base = Baseline(text, k) /\ margin = FirstLine(text)
  OBVIOUS
<1>5. /\ line \in Nat /\ base \in Nat \ {0} /\ margin \in Nat \ {0}
      /\ GlyphBefore(text, k) => line = base
      /\ ~ GlyphBefore(text, k) => margin = (IF line = 0 THEN 1 ELSE line) /\ base = margin
  BY <1>1, <1>3, <1>4, LineStep
<1>6. /\ h * line = 0 <=> line = 0
      /\ h * base # 0 /\ 2 * h * margin # 0
      /\ h * 1 = h
      /\ 2 * (h * margin) = 2 * h * margin
  BY <1>2, <1>4, <1>5, Heights
<1>7. HeightDrawn = h * base
  BY <1>1, <1>4, <1>5, <1>6 DEF HeightDrawn
<1>8. MarginDrawn = 2 * h * margin
  BY <1>1, <1>4, <1>5, <1>6, <1>7 DEF MarginDrawn
<1> QED BY <1>2, <1>4, <1>7, <1>8

LEMMA SameChars ==
  ASSUME NEW text, UNCHANGED <<font, before>>
  PROVE  \A k : /\ GlyphChar(text, k)' = GlyphChar(text, k)
                /\ CharBefore(text, k)' = CharBefore(text, k)
<1>1. \A k : GlyphChar(text, k)' = GlyphChar(text, k)
  BY DEF GlyphChar
<1> QED BY <1>1 DEF CharBefore

(* Every advance is an integer, once the face has a size. *)
LEMMA AdvancesOfFace ==
  ASSUME NEW text, NEW size \in FontSizes, font \in Fonts, UNCHANGED <<font, before>>,
         before.previous \in font.charmap \cup {NoChar}, freeType'.faceSize \in FontSizes
  PROVE  \A i \in DOMAIN text :
           LET d == GlyphChar(text, i)
               kerning == PairKerning(font, freeType'.faceSize, CharBefore(text, i), d)
           IN  /\ Advances(text, size)'[i] = font.glyph[size][d].advance + kerning
               /\ font.glyph[size][d].advance \in Int /\ kerning \in Int
<1>1. \A i : GlyphChar(text, i) \in font.charmap
  BY FontsAssumption DEF GlyphChar
<1>2. \A i : CharBefore(text, i) \in font.charmap \cup {NoChar}
  BY <1>1 DEF CharBefore
<1>3. ASSUME NEW i \in DOMAIN text
      PROVE  LET d == GlyphChar(text, i)
                 kerning == PairKerning(font, freeType'.faceSize, CharBefore(text, i), d)
             IN  /\ AdvanceAt(text, size, i)' = font.glyph[size][d].advance + kerning
                 /\ font.glyph[size][d].advance \in Int /\ kerning \in Int
  <2>1. PICK d, b : d = GlyphChar(text, i) /\ b = CharBefore(text, i)
    OBVIOUS
  <2>2. d \in font.charmap /\ b \in font.charmap \cup {NoChar}
    BY <1>1, <1>2, <2>1
  <2>3. font.glyph[size][d].advance \in Int
    BY <2>2, FontsAssumption
  <2>4. font.hasKerning /\ b # NoChar => font.kern[freeType'.faceSize][b][d] \in Int
    BY <2>2, FontsAssumption
  <2>5. PairKerning(font, freeType'.faceSize, b, d) \in Int
    BY <2>4 DEF PairKerning
  <2>6. AdvanceAt(text, size, i)' =
          font.glyph[size][d].advance + PairKerning(font, freeType'.faceSize, b, d)
    <3>1. d = GlyphChar(text, i)' /\ b = CharBefore(text, i)'
      BY <2>1, SameChars
    <3> QED BY <3>1 DEF AdvanceAt, PairKerning
  <2> QED BY <2>1, <2>3, <2>5, <2>6
<1> QED BY <1>3 DEF Advances

(* The loop over the pixels of a glyph clips it where it is drawn. *)
LEMMA DrawnIsClipped ==
  ASSUME NEW glyph, glyph.pixels \subseteq Nat \X Nat, {glyph.left, glyph.top} \subseteq Int,
         NEW offsetX \in Int, NEW offsetHeight \in Int, NEW penX \in Int
  PROVE  Drawn(glyph, offsetX, offsetHeight, penX) =
           Clipped({ << offsetX + penX + glyph.left + p[1], offsetHeight - glyph.top + p[2] >> :
                       p \in glyph.pixels }, draw.width, draw.height)
<1> DEFINE q(p) == << offsetX + penX + glyph.left + p[1], offsetHeight - glyph.top + p[2] >>
           x(p) == (offsetX + p[1] + penX + glyph.left) % UintRange
           y(p) == (p[2] + offsetHeight - glyph.top) % UintRange
           X(r) == r[1] % UintRange
           Y(r) == r[2] % UintRange
           in(p) == x(p) < draw.width /\ y(p) < draw.height
           pixels == { q(p) : p \in glyph.pixels }
<1>1. ASSUME NEW p \in glyph.pixels
      PROVE  q(p)[1] % UintRange = x(p) /\ q(p)[2] % UintRange = y(p)
  <2>1. p[1] \in Int /\ p[2] \in Int
    OBVIOUS
  <2>2. offsetX + p[1] + penX + glyph.left = offsetX + penX + glyph.left + p[1]
    BY <2>1
  <2>3. p[2] + offsetHeight - glyph.top = offsetHeight - glyph.top + p[2]
    BY <2>1
  <2> QED BY <2>2, <2>3
<1>2. Drawn(glyph, offsetX, offsetHeight, penX) =
        { x(p) + y(p) * draw.width : p \in { r \in glyph.pixels : in(r) } }
  BY DEF Drawn
<1>3. Clipped(pixels, draw.width, draw.height) =
        { X(r) + Y(r) * draw.width :
            r \in { s \in pixels : X(s) < draw.width /\ Y(s) < draw.height } }
  BY DEF Clipped
<1>4. \A p \in glyph.pixels : X(q(p)) = x(p) /\ Y(q(p)) = y(p)
  BY <1>1
<1> HIDE DEF x, y, q, X, Y
<1>5. \A v : v \in Drawn(glyph, offsetX, offsetHeight, penX)
              <=> \E p \in glyph.pixels : in(p) /\ v = x(p) + y(p) * draw.width
  BY <1>2
<1>6. \A v : v \in Clipped(pixels, draw.width, draw.height)
              <=> \E p \in glyph.pixels : /\ X(q(p)) < draw.width /\ Y(q(p)) < draw.height
                                         /\ v = X(q(p)) + Y(q(p)) * draw.width
  BY <1>3
<1>7. Drawn(glyph, offsetX, offsetHeight, penX) = Clipped(pixels, draw.width, draw.height)
  BY <1>4, <1>5, <1>6
<1> QED BY <1>7 DEF q

LEMMA EmptySum ==
  ASSUME NEW F
  PROVE  SumFunctionOnSet(F, {}) = 0
<1>1. IsFiniteSet({}) /\ \A y \in {} : F[y] \in Int
  BY FS_EmptySet
<1> QED BY <1>1, SumGrows

(* DrawChar puts the next character where the layout has it. *)
LEMMA DrawCharKeepsLayout ==
  ASSUME TypeInv, DrawInv, DrawChar
  PROVE  DrawInv'
<1>1. draw.phase = "loop" /\ Called /\ LaidOut /\ FaceInv
  BY DEF DrawInv, DrawChar
<1>2. draw.fontSize \in FontSizes /\ font \in Fonts
  BY <1>1 DEF Called, TypeInv, TypeOK
<1>3. PICK text, size, w, h, k, d :
        /\ text = draw.text /\ size = draw.fontSize /\ w = draw.width /\ h = draw.height
        /\ k = draw.at /\ d = GlyphChar(text, k)
  OBVIOUS
<1>4. /\ UNCHANGED <<font, before>> /\ Loaded(font, freeType, size, freeType')
      /\ k \in DOMAIN text /\ DOMAIN text \subseteq Nat \ {0} /\ DOMAIN text = 1 .. Len(text)
      /\ draw'.phase = draw.phase /\ draw'.text = text /\ draw'.at = k + 1
      /\ draw'.fontSize = size /\ draw'.width = w /\ draw'.height = h
  BY <1>2, <1>3, CharDrawn DEF Looked, TypeInv
<1>5. /\ IsGlyph(text, k) =>
           /\ freeType'.previous = d
           /\ draw'.offsetHeight = HeightDrawn /\ draw'.offsetX = MarginDrawn
           /\ draw'.img = draw.img \cup Drawn(GlyphDrawn, MarginDrawn, HeightDrawn, draw.penX)
           /\ draw'.penX = draw.penX + (PairKerning(font, freeType'.faceSize, freeType.previous, d)
                                          + GlyphDrawn.advance)
      /\ ~ IsGlyph(text, k) =>
           /\ freeType'.previous = freeType.previous
           /\ draw'.offsetHeight = draw.offsetHeight + LineHeight
           /\ draw'.offsetX = draw.offsetX /\ draw'.img = draw.img /\ draw'.penX = 0
  BY <1>2, <1>3, CharDrawn
<1>6. /\ freeType.previous = CharBefore(text, k) /\ draw.penX = PenAt(text, size, k)
      /\ draw.offsetHeight = LineHeight * LineAt(text, k)
      /\ draw.offsetX = IF GlyphBefore(text, k) THEN 2 * LineHeight * FirstLine(text) ELSE 0
      /\ GlyphBefore(text, k) =>
           FirstGlyph(text) \in 1 .. k - 1 /\ IsGlyph(text, FirstGlyph(text))
      /\ draw.img = DrawnBefore(text, size, w, h, k)
  BY <1>1, <1>3 DEF LaidOut, LineHeight
<1>7. /\ freeType'.faceSize \in FontSizes /\ size \in DOMAIN freeType'.glyphs
      /\ k # 1 => freeType'.faceSize = freeType.faceSize
  <2>1. k # 1 => size \in DOMAIN freeType.glyphs
    BY <1>1, <1>3, <1>4 DEF Called
  <2> QED BY <1>1, <1>2, <1>3, <1>4, <2>1 DEF Loaded, FaceInv
<1>8. FaceInv'
  BY <1>7 DEF FaceInv, FontSizes, FontSize
<1>9. Called'
  <2>1. /\ draw'.fontSize \in FontSizes /\ draw'.width \in Nat /\ draw'.height \in Nat
        /\ before'.previous \in font'.charmap \cup {NoChar} /\ draw'.phase # "returned"
        /\ draw'.fontSize \in DOMAIN freeType'.glyphs
    BY <1>1, <1>3, <1>4, <1>7 DEF Called
  <2> QED BY <2>1 DEF Called, FontSizes, FontSize
<1>10. PICK advances : advances = Advances(text, size)'
  OBVIOUS
<1>11. /\ \A i \in DOMAIN text : advances[i] \in Int
       /\ advances[k] = font.glyph[size][d].advance
                          + PairKerning(font, freeType'.faceSize, CharBefore(text, k), d)
       /\ font.glyph[size][d].advance \in Int
       /\ PairKerning(font, freeType'.faceSize, CharBefore(text, k), d) \in Int
  <2>1. before.previous \in font.charmap \cup {NoChar}
    BY <1>1 DEF Called
  <2>2. \A i \in DOMAIN text :
          LET c == GlyphChar(text, i)
              kerning == PairKerning(font, freeType'.faceSize, CharBefore(text, i), c)
          IN  /\ Advances(text, size)'[i] = font.glyph[size][c].advance + kerning
              /\ font.glyph[size][c].advance \in Int /\ kerning \in Int
    BY <1>2, <1>3, <1>4, <1>7, <2>1, AdvancesOfFace
  <2>3. \A i \in DOMAIN text : advances[i] \in Int
    BY <1>10, <2>2
  <2> QED BY <1>3, <1>4, <1>10, <2>2, <2>3
<1>12. /\ SumFunctionOnSet(advances, OnLine(text, 1)) = 0
       /\ SumFunctionOnSet(advances, OnLine(text, k)) \in Int
       /\ SumFunctionOnSet(advances, OnLine(text, k + 1)) =
            IF IsGlyph(text, k)
              THEN SumFunctionOnSet(advances, OnLine(text, k)) + advances[k] ELSE 0
  <2>1. OnLine(text, k) \cup {k} \subseteq DOMAIN text /\ k \in Nat \ {0}
    BY <1>4, OnLineIsFinite
  <2> QED BY <1>11, <2>1, PenMoves
<1>13. \A i : PenAt(text, size, i)' = SumFunctionOnSet(advances, OnLine(text, i))
  BY <1>10 DEF PenAt
<1>14. draw.penX = SumFunctionOnSet(advances, OnLine(text, k))
  <2>1. CASE k = 1
    <3>1. OnLine(text, 1) = {}
      BY <1>4, OnLineStep
    <3>2. PenAt(text, size, 1) = 0
      BY <3>1, EmptySum DEF PenAt
    <3> QED BY <1>6, <1>12, <2>1, <3>2
  <2>2. CASE k # 1
    BY <1>4, <1>6, <1>7, <1>13, <2>2, SameFont
  <2> QED BY <2>1, <2>2
<1>15. draw'.penX = PenAt(text, size, k + 1)'
  <2>1. CASE IsGlyph(text, k)
    <3>1. GlyphDrawn = font.glyph[size][d]
      BY <1>3 DEF GlyphDrawn
    <3> QED BY <1>5, <1>6, <1>11, <1>12, <1>13, <1>14, <2>1, <3>1
  <2>2. CASE ~ IsGlyph(text, k)
    BY <1>5, <1>12, <1>13, <2>2
  <2> QED BY <2>1, <2>2
<1>16. freeType'.previous = CharBefore(text, k + 1)'
  BY <1>3, <1>4, <1>5, <1>6, CharBeforeStep, SameChars
<1>17. /\ draw'.offsetHeight = LineHeight * LineAt(text, k + 1)
       /\ draw'.offsetX = IF GlyphBefore(text, k + 1) THEN 2 * LineHeight * FirstLine(text) ELSE 0
       /\ GlyphBefore(text, k + 1) =>
            FirstGlyph(text) \in 1 .. k /\ IsGlyph(text, FirstGlyph(text))
  <2>1. LineHeight \in Nat \ {0}
    BY <1>2, FontsAssumption DEF LineHeight
  <2>2. CASE IsGlyph(text, k)
    BY <1>1, <1>3, <1>4, <1>5, <1>6, <2>2, LineStep, OffsetsOfLayout
  <2>3. CASE ~ IsGlyph(text, k)
    <3>1. /\ LineAt(text, k) \in Nat /\ LineAt(text, k + 1) = LineAt(text, k) + 1
          /\ GlyphBefore(text, k + 1) <=> GlyphBefore(text, k)
      BY <1>4, <1>6, <2>3, LineStep
    <3>2. LineHeight * LineAt(text, k) + LineHeight = LineHeight * LineAt(text, k + 1)
      BY <2>1, <3>1, Heights
    <3>3. 1 .. k - 1 \subseteq 1 .. k
      BY <1>4
    <3> QED BY <1>5, <1>6, <2>3, <3>1, <3>2, <3>3
  <2> QED BY <2>2, <2>3
<1>18. draw'.img = DrawnBefore(text, size, w, h, k + 1)'
  <2>1. GlyphsBefore(text, k + 1) =
          IF IsGlyph(text, k) THEN GlyphsBefore(text, k) \cup {k} ELSE GlyphsBefore(text, k)
    BY <1>4, GlyphsStep DEF GlyphsBefore
  <2>2. \A i \in GlyphsBefore(text, k) : PixelsAt(text, size, i)' = PixelsAt(text, size, i)
    <3>1. CASE k = 1
      BY <3>1 DEF GlyphsBefore
    <3>2. CASE k # 1
      BY <1>4, <1>7, <3>2, SameFont
    <3> QED BY <3>1, <3>2
  <2>3. DrawnBefore(text, size, w, h, k + 1)' =
          UNION { Clipped(PixelsAt(text, size, i)', w, h) : i \in GlyphsBefore(text, k + 1) }
    BY DEF DrawnBefore, Clipped
  <2>4. draw.img = UNION { Clipped(PixelsAt(text, size, i), w, h) : i \in GlyphsBefore(text, k) }
    BY <1>6 DEF DrawnBefore
  <2>5. CASE IsGlyph(text, k)
    <3>1. /\ HeightDrawn = LineHeight * Baseline(text, k)
          /\ MarginDrawn = 2 * LineHeight * FirstLine(text) /\ LineHeight \in Nat \ {0}
      BY <1>1, <1>3, <1>4, <2>5, OffsetsOfLayout
    <3>2. FirstLine(text) \in Nat /\ Baseline(text, k) \in Nat
      BY <1>4, <1>6, <2>5, LineStep
    <3>3. HeightDrawn \in Int /\ MarginDrawn \in Int /\ draw.penX \in Int
      BY <1>12, <1>14, <3>1, <3>2
    <3>4. /\ GlyphDrawn = font.glyph[size][d] /\ d \in font.charmap
          /\ GlyphDrawn.pixels \subseteq Nat \X Nat
          /\ {GlyphDrawn.left, GlyphDrawn.top} \subseteq Int
      <4>1. d \in font.charmap
        BY <1>2, <1>3, FontsAssumption DEF GlyphChar
      <4> QED BY <1>2, <1>3, <4>1, FontsAssumption DEF GlyphDrawn
    <3>5. Drawn(GlyphDrawn, MarginDrawn, HeightDrawn, draw.penX) =
            Clipped({ << MarginDrawn + draw.penX + GlyphDrawn.left + p[1],
                         HeightDrawn - GlyphDrawn.top + p[2] >> : p \in GlyphDrawn.pixels }, w, h)
      BY <1>3, <3>3, <3>4, DrawnIsClipped
    <3>6. PixelsAt(text, size, k)' =
            { << MarginDrawn + draw.penX + GlyphDrawn.left + p[1],
                 HeightDrawn - GlyphDrawn.top + p[2] >> : p \in GlyphDrawn.pixels }
      <4>1. font'.glyph[size][GlyphChar(text, k)'] = GlyphDrawn /\ PenAt(text, size, k)' = draw.penX
        BY <1>3, <1>4, <1>13, <1>14, <3>4, SameChars
      <4>2. font'.lineHeight[size] = LineHeight
        BY <1>3, <1>4 DEF LineHeight
      <4> QED BY <3>1, <4>1, <4>2 DEF PixelsAt
    <3>7. draw'.img = draw.img \cup Clipped(PixelsAt(text, size, k)', w, h)
      BY <1>5, <2>5, <3>5, <3>6
    <3> QED BY <2>1, <2>2, <2>3, <2>4, <2>5, <3>7
  <2>6. CASE ~ IsGlyph(text, k)
    BY <1>5, <2>1, <2>2, <2>3, <2>4, <2>6
  <2> QED BY <2>5, <2>6
<1>19. LaidOut'
  <2>1. LineHeight = font'.lineHeight[size] /\ (k + 1) - 1 = k
    BY <1>3, <1>4 DEF LineHeight
  <2> QED BY <1>4, <1>15, <1>16, <1>17, <1>18, <2>1 DEF LaidOut
<1> QED BY <1>8, <1>9, <1>19 DEF DrawInv

(* The call of DrawText begins with an empty layout. *)
LEMMA CallBeginsLayout ==
  ASSUME TypeInv, DrawInv, NEW text \in Texts, NEW size \in Sizes,
         Call(text, size[1], size[2])
  PROVE  DrawInv'
<1>1. /\ UNCHANGED <<font, freeType>> /\ before' = freeType
      /\ draw'.text = ReplaceInvalid(text) /\ draw'.fontSize = FontSize(size[1])
      /\ draw'.width = size[1] /\ draw'.height = size[2] /\ draw'.at = 1
      /\ draw'.penX = 0 /\ draw'.offsetX = 0 /\ draw'.offsetHeight = 0 /\ draw'.img = {}
      /\ draw'.phase = IF text = <<>> THEN "returned" ELSE "instance"
  BY DEF Call, Idle
<1>2. FaceInv'
  BY <1>1 DEF DrawInv, FaceInv, FontSizes, FontSize
<1>3. FontSize(size[1]) \in FontSizes /\ size[1] \in Nat /\ size[2] \in Nat
  BY SizesAssumption DEF FontSizes
<1>4. text = <<>> => Len(ReplaceInvalid(text)) = 0
  BY DEF ReplaceInvalid
<1>5. Called'
  <2>1. /\ draw'.fontSize \in FontSizes /\ draw'.width \in Nat /\ draw'.height \in Nat
        /\ before'.previous \in font'.charmap \cup {NoChar}
        /\ draw'.phase = "returned" => draw'.at = Len(draw'.text) + 1
        /\ ~ (draw'.at > 1)
    BY <1>1, <1>3, <1>4 DEF TypeInv, TypeOK
  <2> QED BY <2>1 DEF Called, FontSizes, FontSize
<1>6. PICK t, s, w, h : t = draw'.text /\ s = draw'.fontSize /\ w = draw'.width /\ h = draw'.height
  OBVIOUS
<1>7. 1 .. 1 - 1 = {}
  OBVIOUS
<1>8. ~ GlyphBefore(t, 1) /\ OnLine(t, 1) = {} /\ GlyphsBefore(t, 1) = {} /\ LineAt(t, 1) = 0
  BY <1>7, LinesStep DEF GlyphBefore, OnLine, GlyphsBefore, LineAt
<1>9. CharBefore(t, 1)' = before'.previous
  BY <1>7 DEF CharBefore
<1>10. PenAt(t, s, 1)' = 0
  BY <1>8, EmptySum DEF PenAt
<1>11. DrawnBefore(t, s, w, h, 1)' = {}
  BY <1>8 DEF DrawnBefore
<1>12. font'.lineHeight[s] * 0 = 0
  BY <1>1, <1>3, <1>6, FontsAssumption, Heights DEF TypeInv, TypeOK
<1>13. LaidOut'
  BY <1>1, <1>6, <1>8, <1>9, <1>10, <1>11, <1>12 DEF LaidOut
<1> QED BY <1>2, <1>5, <1>13 DEF DrawInv

(* Every step keeps it. *)
LEMMA DrawInvInductive ==
  ASSUME TypeInv, DrawInv, [Next]_vars
  PROVE  DrawInv'
<1>1. ASSUME NEW text \in Texts, NEW size \in Sizes, Call(text, size[1], size[2])
      PROVE  DrawInv'
  BY <1>1, CallBeginsLayout
<1>2. CASE DrawChar
  BY <1>2, DrawCharKeepsLayout
<1>3. CASE GetInstance
  <2>1. /\ UNCHANGED <<font, freeType, before>> /\ draw.phase = "instance"
        /\ \E phase \in {"loop", "threw"} : draw' = [draw EXCEPT !.phase = phase]
    BY <1>3 DEF GetInstance
  <2>2. /\ draw'.text = draw.text /\ draw'.fontSize = draw.fontSize /\ draw'.width = draw.width
        /\ draw'.height = draw.height /\ draw'.at = draw.at /\ draw'.penX = draw.penX
        /\ draw'.offsetX = draw.offsetX /\ draw'.offsetHeight = draw.offsetHeight
        /\ draw'.img = draw.img /\ draw'.phase \in {"loop", "threw"}
    BY <2>1 DEF TypeInv, DrawFields
  <2> QED BY <2>1, <2>2, SameLayout
<1>4. CASE Return
  <2>1. /\ UNCHANGED <<font, freeType, before>> /\ draw.phase = "loop"
        /\ draw' = [draw EXCEPT !.phase = "returned"] /\ draw.at > Len(draw.text)
    BY <1>4 DEF Return
  <2>2. /\ draw'.text = draw.text /\ draw'.fontSize = draw.fontSize /\ draw'.width = draw.width
        /\ draw'.height = draw.height /\ draw'.at = draw.at /\ draw'.penX = draw.penX
        /\ draw'.offsetX = draw.offsetX /\ draw'.offsetHeight = draw.offsetHeight
        /\ draw'.img = draw.img
    BY <2>1 DEF TypeInv, DrawFields
  <2>3. draw.at \in 1 .. Len(draw.text) + 1 /\ Len(draw.text) \in Nat
    BY DEF TypeInv, TypeOK
  <2>4. \A n \in Nat : \A k \in 1 .. n + 1 : k > n => k = n + 1
    OBVIOUS
  <2>5. draw.at = Len(draw.text) + 1
    BY <2>1, <2>3, <2>4
  <2> QED BY <2>1, <2>2, <2>5, SameLayout
<1>5. CASE UNCHANGED vars
  <2>1. UNCHANGED <<font, freeType, before, draw>>
    BY <1>5 DEF vars
  <2>2. draw.phase = "returned" => draw.at = Len(draw.text) + 1
    BY DEF DrawInv, Called
  <2> QED BY <2>1, <2>2, SameLayout
<1> QED BY <1>1, <1>2, <1>3, <1>4, <1>5 DEF Next

LEMMA InitLayout ==
  ASSUME Init
  PROVE  DrawInv
BY DEF Init, DrawInv, FaceInv, NoInstance, FreeType, Empty, Idle

(* A position that does not wrap around is in the image before if it is after. *)
LEMMA FitsUnwrapped ==
  ASSUME NEW n \in Nat, NEW x \in n - UintRange .. UintRange - 1
  PROVE  /\ x % UintRange < n <=> x \in 0 .. n - 1
         /\ x \in 0 .. n - 1 => x % UintRange = x
<1>1. UintRange \in Nat \ {0} /\ x \in Int
  BY SizesAssumption
<1>2. CASE x >= 0
  <2>1. x % UintRange = x
    BY <1>1, <1>2
  <2> QED BY <1>1, <1>2, <2>1
<1>3. CASE x < 0
  <2>1. x + UintRange \in 0 .. UintRange - 1 /\ x + UintRange >= n
    BY <1>1, <1>3
  <2>2. x % UintRange = x + UintRange
    BY <1>1, <2>1
  <2> QED BY <1>1, <1>3, <2>1, <2>2
<1> QED BY <1>1, <1>2, <1>3

(* Clipping on unsigned ints is clipping to the image. *)
LEMMA ClippedFits ==
  ASSUME NEW w \in Nat, NEW h \in Nat,
         NEW pixels \in SUBSET
           ((w - UintRange .. UintRange - 1) \X (h - UintRange .. UintRange - 1))
  PROVE  Clipped(pixels, w, h) =
           { p[1] + p[2] * w : p \in pixels \cap (0 .. w - 1) \X (0 .. h - 1) }
<1>1. ASSUME NEW p \in pixels
      PROVE  /\ p[1] % UintRange < w /\ p[2] % UintRange < h
                  <=> p \in (0 .. w - 1) \X (0 .. h - 1)
             /\ p \in (0 .. w - 1) \X (0 .. h - 1) =>
                  p[1] % UintRange = p[1] /\ p[2] % UintRange = p[2]
  <2>1. /\ p[1] \in w - UintRange .. UintRange - 1
        /\ p[2] \in h - UintRange .. UintRange - 1 /\ p = <<p[1], p[2]>>
    OBVIOUS
  <2>2. /\ p[1] % UintRange < w <=> p[1] \in 0 .. w - 1
        /\ p[1] \in 0 .. w - 1 => p[1] % UintRange = p[1]
    BY <2>1, FitsUnwrapped
  <2>3. /\ p[2] % UintRange < h <=> p[2] \in 0 .. h - 1
        /\ p[2] \in 0 .. h - 1 => p[2] % UintRange = p[2]
    BY <2>1, FitsUnwrapped
  <2> QED BY <2>1, <2>2, <2>3
<1> QED BY <1>1 DEF Clipped

(***************************************************************************)
(* DrawsLayout, for every font, text and size of image, and whatever was    *)
(* drawn before: the image is the layout of the text, if no position is so   *)
(* far out of the image that it wraps around into it.                        *)
(***************************************************************************)
THEOREM TextIsLaidOut == Spec => [](PositionsFit => DrawsLayout)
<1>1. Init => TypeInv /\ DrawInv
  BY InitTypes, InitLayout
<1>2. TypeInv /\ DrawInv /\ [Next]_vars => (TypeInv /\ DrawInv)'
  BY NextKeepsTypes, DrawInvInductive
<1>3. TypeInv /\ DrawInv => (PositionsFit => DrawsLayout)
  <2> SUFFICES ASSUME TypeInv, DrawInv, PositionsFit, draw.phase = "returned"
               PROVE  draw.img = Layout(draw.text, draw.fontSize, draw.width, draw.height)
    BY DEF DrawsLayout
  <2>1. Called /\ LaidOut
    BY DEF DrawInv
  <2>2. PICK text, size, w, h, n :
          /\ text = draw.text /\ size = draw.fontSize /\ w = draw.width /\ h = draw.height
          /\ n = Len(text)
    OBVIOUS
  <2>3. DOMAIN text = 1 .. n /\ n \in Nat /\ draw.at = n + 1 /\ w \in Nat /\ h \in Nat
    BY <2>1, <2>2 DEF Called, TypeInv
  <2>4. draw.img = DrawnBefore(text, size, w, h, n + 1)
    BY <2>1, <2>2, <2>3 DEF LaidOut
  <2> DEFINE glyphs == { i \in DOMAIN text : text[i] # NewLine }
             inside == (0 .. w - 1) \X (0 .. h - 1)
  <2>5. GlyphsBefore(text, n + 1) = glyphs
    BY <2>3 DEF GlyphsBefore, IsGlyph
  <2>6. ASSUME NEW i \in glyphs
        PROVE  Clipped(PixelsAt(text, size, i), w, h) =
                 { p[1] + p[2] * w : p \in PixelsAt(text, size, i) \cap inside }
    <3>1. PixelsAt(text, size, i) \subseteq
            (w - UintRange .. UintRange - 1) \X (h - UintRange .. UintRange - 1)
      BY <2>2 DEF PositionsFit, IsGlyph
    <3> QED BY <2>3, <3>1, ClippedFits
  <2>7. draw.img = UNION { { p[1] + p[2] * w : p \in PixelsAt(text, size, i) \cap inside } :
                             i \in glyphs }
    BY <2>4, <2>5, <2>6 DEF DrawnBefore
  <2>8. Layout(text, size, w, h) =
          { p[1] + p[2] * w :
              p \in (UNION { PixelsAt(text, size, i) : i \in glyphs }) \cap inside }
    BY DEF Layout
  <2>9. PICK pixels : pixels = [i \in glyphs |-> PixelsAt(text, size, i)]
    OBVIOUS
  <2>10. Layout(text, size, w, h) =
           { p[1] + p[2] * w : p \in (UNION { pixels[i] : i \in glyphs }) \cap inside }
    BY <2>8, <2>9
  <2>11. draw.img = UNION { { p[1] + p[2] * w : p \in pixels[i] \cap inside } : i \in glyphs }
    BY <2>7, <2>9
  <2> HIDE DEF glyphs, inside
  <2>12. draw.img = Layout(text, size, w, h)
    BY <2>10, <2>11
  <2> QED BY <2>2, <2>12
<1> QED BY <1>1, <1>2, <1>3, PTL DEF Spec

================================================================================
