--------------------------- MODULE MCDictionaryTrie ---------------------------
(* Words that collide, share beginnings and begin others.  1 ends a word.  *)
EXTENDS DictionaryTrie

MCWords ==
  { <<2>>, <<2, 3>>, <<2, 3, 4>>, <<3>>, <<3, 2, 4>>, <<2, 4>> }

MCTexts == MCWords \union {v \o w : v, w \in {<<2, 3>>, <<3, 2>>, <<4>>}}
=============================================================================
