--------------------------- MODULE MCRectifyQuery ---------------------------
(* Small lexicons for RectifyQuery.                                        *)
EXTENDS RectifyQuery

Plain(mark, size) ==
  [mark |-> mark, size |-> size, white |-> FALSE, fix |-> FALSE,
   py |-> FALSE, blank |-> FALSE, odd |-> FALSE]
Read(w)    == [w EXCEPT !.py = TRUE]
White(w)   == [w EXCEPT !.white = TRUE]
Fixed(w)   == [w EXCEPT !.fix = TRUE]
Blank(w)   == [w EXCEPT !.blank = TRUE]
Odd(w)     == [w EXCEPT !.odd = TRUE]

Chinese4   == Read(Plain("CHWORD", 4))
Unread4    == Plain("CHWORD", 4)
Char       == Read(Plain("CHWORD", 2))
OddChar    == Odd(Read(Plain("CHWORD", 2)))
PinYin     == Read(Plain("ALPHA", 5))
Model      == Plain("ALPHA", 4)
Letter     == Plain("ALPHA", 1)
OddLetter  == Odd(Plain("ALPHA", 1))
Number     == Plain("NUMBER", 1)
Space      == Blank(Plain("ENPUNC", 1))
WideSpace  == Blank(Plain("CHPUNC", 2))
Comma      == Plain("CHPUNC", 2)

(* Every branch, in queries of up to three words; four are too many.       *)
BroadWords ==
  {Chinese4, Unread4, Char, OddChar, PinYin, Model, Letter, OddLetter,
   Number, Space, WideSpace, Comma,
   Plain("CHWORD", 12), Plain("CHWORD", 16), White(Read(Plain("CHWORD", 6))),
   White(PinYin), Fixed(Unread4), Fixed(PinYin)}

(* The words that make and break runs, in longer queries.                  *)
RunWords == {Chinese4, Char, PinYin, White(PinYin), Model, Number, Space, WideSpace, Comma}
StaleWords == {Chinese4, Unread4, OddChar, PinYin, Number}
=============================================================================
