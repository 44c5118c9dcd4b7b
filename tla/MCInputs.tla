------------------------------- MODULE MCInputs --------------------------------
(***************************************************************************)
(* What the functions of module MCCalls are called with, and the tables    *)
(* and models they find.  "X", "Y" and "Z" are Chinese characters, "a" and *)
(* "b" letters; a word is a sequence of them.                              *)
(***************************************************************************)
EXTENDS Integers, Sequences, SequencesExt, FiniteSetsExt, TLC

-----------------------------------------------------------------------------
(* WordCreator: all lexicons of one to three of a few words of all lengths.*)
(* A pinyin list needs three to be left early, an English answer more than *)
(* two to be cut.                                                          *)
CreatorWords ==
  { <<1>>, <<1, 2, 3>>, <<3, 2, 1>>, <<1, 2, 3, 3>>, <<2, 1, 3, 3>>,
    <<1, 1, 3, 3>>, <<1, 2, 3, 3, 2, 1>> }
CreatorLonger == [kind \in {"en", "ch", "wp"} |-> 7]
CreatorAnswers == [kind \in {"en", "ch", "wp"} |-> 2]
CreatorLexicons(kind) == UNION {kSubset(n, CreatorWords) : n \in 1 .. 3}
CreatorWeight == [w \in CreatorWords |-> 1 + ((w[1] + 2 * w[Len(w)] + Len(w)) % 5)]
CreatorBefore(v, w) ==
  \E p \in 1 .. Len(w) :
    /\ p > Len(v) \/ v[p] < w[p]
    /\ \A q \in 1 .. Min({p - 1, Len(v)}) : v[q] = w[q]

-----------------------------------------------------------------------------
(* BestPath: two syllables with two characters each, behind BEG or a       *)
(* number, or one that no character is read as.                            *)
BestCodes == {"BEG", "NUM", "x", "y", "END"}
BestRows ==
  { <<<<"BEG">>, <<"x", "y">>, <<"x", "y">>, <<"END">>>>,
    <<<<"BEG">>, <<"NUM">>, <<"x", "y">>, <<"END">>>>,
    <<<<"BEG">>, <<"NUM">>, <<"x">>, <<"y", "x">>, <<"END">>>>,
    <<<<"BEG">>, <<"x">>, <<>>, <<"END">>>> }

Unseen == 65535
FreePairs == {<<"BEG", "x">>, <<"x", "y">>, <<"y", "x">>, <<"y", "END">>, <<"NUM", "y">>}
FixedPairs ==
  (<<"BEG", "y">> :> 700) @@ (<<"x", "x">> :> 300) @@ (<<"y", "y">> :> 900)
  @@ (<<"x", "END">> :> 300) @@ (<<"BEG", "NUM">> :> 0) @@ (<<"NUM", "x">> :> 900)
BestShifts ==
  {[p \in BestCodes \X BestCodes |->
     IF p \in FreePairs THEN f[p] ELSE IF p \in DOMAIN FixedPairs THEN FixedPairs[p] ELSE Unseen]
   : f \in [FreePairs -> {0, 300, 900, Unseen}]}

-----------------------------------------------------------------------------
(* NgramRec: up to two texts of one and of two words, whose weights make   *)
(* them likely or not when they are divided by their length.               *)
Offers(words, weights) == [word : words, weight : weights]
Ordered(offers) ==
  {<<>>} \union {<<o>> : o \in offers} \union {c \in offers \X offers : c[1].word # c[2].word}
RowsOf(size, offers) == [size : {size}, texts : Ordered(offers)]
NgramRows ==
  RowsOf(1, Offers({<<"x">>, <<"y">>}, {300, 561, 600}))
  \union RowsOf(2, Offers({<<"x", "x">>, <<"x", "y">>, <<"y">>}, {561, 890, 1100}))
NgramOriginals == {<<>>, <<"x">>, <<"x", "y">>, <<"y", "x", "x">>}

-----------------------------------------------------------------------------
(* PinYin: three characters with up to three readings, two of them with    *)
(* one letter in front.                                                    *)
ReadCharacters == {"X", "Y", "Z"}
ReadingTables ==
  [ ReadCharacters -> { <<>>, <<<<"h", 1>>>>, <<<<"h", 1>>, <<"h", 2>>>>,
                        <<<<"h", 2>>, <<"x", 1>>, <<"x", 2>>>> } ]

-----------------------------------------------------------------------------
(* Character: one character is made another, and one whose bytes are those *)
(* of others.                                                              *)
Converted == (<<129, 65>> :> <<193, 161>>) @@ (<<161, 218>> :> <<218, 65>>)

-----------------------------------------------------------------------------
Entry(word, weight) == [word |-> word, weight |-> weight]
X == <<"X">>
Y == <<"Y">>
XX == <<"X", "X">>
XY == <<"X", "Y">>
YX == <<"Y", "X">>
YY == <<"Y", "Y">>
ab == <<"a", "b">>
abb == <<"a", "b", "b">>
aab == <<"a", "a", "b">>
aabbb == <<"a", "a", "b", "b", "b">>
a1 == <<"a", "1">>
b1 == <<"b", "1">>

(* PinYinRec: pinyin typed with and without its syllables known, and up to *)
(* two candidates, with lists that are empty, of common or of rare words,  *)
(* some of which have letters behind the Chinese.                          *)
WordLists ==
  { <<>>, <<Entry(X, 9000)>>, <<Entry(X, 90000), Entry(XY, 20000)>>,
    <<Entry(<<"X", "b">>, 150000), Entry(YX, 9000)>>, <<Entry(XY, 20000)>> }
Spelt(words, weights, lists) == [word : words, weight : weights, list : lists]
PinYinCandidates ==
  LET one == Spelt({ab, abb, aab}, {400, 6000, 9000, 80000}, WordLists)
      other == Spelt({ab, aab}, {400, 9000, 600000}, {<<Entry(XY, 9000)>>})
      both == {c \in one \X other : c[1].word # c[2].word}
  IN  {<<>>} \union {<<c>> : c \in one} \union both \union {Reverse(c) : c \in both}
RightOf == {<<>>, <<"1">>, <<"a">>, a1}
PinYinInputs ==
  [caller : {"word", "first"}, ori_word : {ab, abb, aab}, pinyin : {<<>>}, rword : RightOf]
  \union [caller : {"run"}, ori_word : {ab}, pinyin : {<<ab>>, <<<<"a">>, <<"b">>>>}, rword : RightOf]
  \union [caller : {"run"}, ori_word : {aab}, pinyin : {<<aab>>}, rword : RightOf]
PinYinModels ==
  { [cooccur |-> (X :> {a1, b1}) @@ (a1 :> {X}), rword |-> X :> <<<<"a", "2">>, b1>>],
    [cooccur |-> (YX :> {<<"a", "b", "1">>}) @@ (XY :> {<<"a", "b", "1">>}) @@ (a1 :> {XX}),
     rword |-> (XY :> <<<<"a", "b", "1">>>>) @@ (a1 :> <<XX>>)] }
PinYinSections ==
  (ab :> <<<<ab>>, <<<<"a">>, <<"b">>>>>>) @@ (abb :> <<<<abb>>>>) @@ (aab :> <<<<<<"a">>, ab>>>>)
RightWords == {X, ab}

-----------------------------------------------------------------------------
(* WordRec: Chinese words of one to three characters, some of them with    *)
(* more readings or none; English words beside numbers and Chinese; words  *)
(* of characters that look alike.                                          *)
Neighbour(mark, word) == [mark |-> mark, word |-> word]
Nothing == Neighbour("none", <<>>)
One == Neighbour("NUMBER", <<"1">>)
OfX == Neighbour("CHWORD", X)
Call(caller, word, py, left, before, right) ==
  [caller |-> caller, word |-> word, py |-> py, left |-> left, before |-> before, right |-> right]
Syllables(w) == [k \in DOMAIN w |-> IF w[k] = "X" THEN <<"a">> ELSE <<"b">>]
WordInputs ==
  {Call("chinese", w, Syllables(w), Nothing, "none", right) :
     w \in {X, XY, <<"X", "X", "Y">>, <<"Y", "X", "X">>}, right \in {Nothing, Neighbour("ALPHA", <<"b">>)}}
  \union {Call("near", w, <<>>, Nothing, "none", Nothing) : w \in {X, XY, XX, YY, <<"X", "b">>}}
  \union {Call("english", w, <<>>, n[1], n[2], n[3]) :
     w \in {ab, abb, aabbb},
     n \in { <<Nothing, "none", Nothing>>, <<Nothing, "none", One>>, <<OfX, "none", One>>,
             <<OfX, "none", Nothing>>, <<OfX, "NUMBER", Nothing>>, <<One, "none", Nothing>>,
             <<One, "none", OfX>>, <<Nothing, "none", OfX>> }}

ChineseOffers ==
  Offers({X, Y, XY, XX, YY, <<"X", "X", "Y">>, <<"X", "Y", "Y">>, <<"X", "Y", "X">>,
          <<"X", "Y", "X", "Y">>}, {1000, 25000, 60000, 100000})
EnglishOffers ==
  Offers({ab, <<"a">>, abb, aabbb, <<"b", "a", "b">>}, {3000, 7000, 15000, 50000})
WordCandidates ==
  [ chinese |-> Ordered(ChineseOffers),
    english |-> Ordered(EnglishOffers)
                \union {<<o, Entry(<<"b">>, 7000), Entry(<<"b", "b", "a", "b">>, 90000)>>
                        : o \in EnglishOffers} ]

ModelOf(readings, ofAb, ofA) ==
  [ cooccur |-> (ab :> {<<"1">>, X}) @@ (<<"1">> :> {ab}) @@ (<<"b">> :> {XY}),
    rword |-> (X :> <<<<"b">>>>),
    wpy |-> (ab :> ofAb) @@ (<<"a">> :> ofA) @@ (<<"b", "a">> :> <<Entry(YX, 7)>>),
    near |-> ("X" :> Y) @@ ("Y" :> X), fpy |-> {ab},
    readings |-> readings,
    sections |-> (ab :> <<<<<<"a">>, <<"b">>>>>>) @@ (<<"a">> :> <<<<<<"a">>>>>>)
                 @@ (aabbb :> <<<<<<"a", "a">>, <<"b", "b", "b">>>>>>) ]
WordModels ==
  { ModelOf(readings, ofAb, ofA) :
      readings \in { ("X" :> <<<<"a">>, <<"b">>>>) @@ ("Y" :> <<<<"b">>>>),
                     ("X" :> <<<<"a">>>>) @@ ("Y" :> <<<<"a">>, <<"b">>>>),
                     ("X" :> <<<<"a">>>>) },
      ofAb \in { <<Entry(XY, 8), Entry(XX, 6), Entry(YY, 6)>>,
                 <<Entry(XX, 9), Entry(YY, 8), Entry(XY, 2), Entry(YX, 1)>> },
      ofA \in { <<Entry(X, 3), Entry(Y, 2)>>,
                <<Entry(Y, 30000), Entry(X, 2), Entry(<<"X", "b">>, 90)>> } }
=============================================================================
