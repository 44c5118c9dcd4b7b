---------------------------- MODULE DictionaryTrie ----------------------------
(***************************************************************************)
(* util/dictionary.cpp: the dictionary of syllables, a trie in two arrays. *)
(* Node n's child for byte c is BASE(n) + c, and it is one only if its     *)
(* CHECK says n.  A leaf's BASE is negative: where the rest of its word    *)
(* begins in the tail.  When a new child's place is taken, one of the two  *)
(* parents moves all its children, whose own children must then be told.   *)
(*                                                                         *)
(* insert() is one action: the dictionary is used by one thread.           *)
(***************************************************************************)
EXTENDS Integers, Sequences, FiniteSetsExt

CONSTANTS
  Words,          (* sequences of bytes that callers insert                *)
  Texts,          (* ... and those they look for words in                  *)
  POSTFIX_CHAR,   (* 10: the byte that ends a word                         *)
  MAX_CODE        (* 256: bytes are 1 .. MAX_CODE - 2                      *)

Codes == 1 .. MAX_CODE - 2
Letters == Codes \ {POSTFIX_CHAR}

ASSUME DictionaryTrieAssumption ==
  /\ MAX_CODE \in Nat /\ POSTFIX_CHAR \in Codes
  /\ Words \subseteq Seq(Letters) /\ Texts \subseteq Seq(Letters)

VARIABLES
  trie,   (* the arrays and counters of the object                         *)
  file,   (* what update() wrote, and whether it did                       *)
  found,  (* what search() now answers, for the words it has               *)
  matched (* what fmm() and bmm() now answer, for each text                *)

vars == <<trie, file, found, matched>>

-----------------------------------------------------------------------------
(* Reading and writing the arrays of a trie T.  They grow when written to; *)
(* what was not written is zero.                                           *)

Free == [base |-> 0, check |-> 0, detail |-> 0]
Cell(T, n) == IF n > T.m_nBC_POS THEN Free ELSE T.m_pnBC[n]
BASE(T, n) == Cell(T, n).base
CHECK(T, n) == Cell(T, n).check
DETAIL(T, n) == Cell(T, n).detail

Write(T, n, cell) ==
  LET pos == IF n > T.m_nBC_POS THEN n ELSE T.m_nBC_POS
  IN  [T EXCEPT !.m_pnBC = [m \in 0 .. pos |-> IF m = n THEN cell ELSE Cell(T, m)],
                !.m_nBC_POS = pos]
Write_BASE(T, n, v) == Write(T, n, [Cell(T, n) EXCEPT !.base = v])
Write_CHECK(T, n, v) == Write(T, n, [Cell(T, n) EXCEPT !.check = v])
Write_DETAIL(T, n, v) == Write(T, n, [Cell(T, n) EXCEPT !.detail = v])

(* The end moves on; a rewritten shorter tail does not move it back.       *)
Write_TAIL(T, s, p) ==
  LET end == IF p + Len(s) + 1 > T.m_nTAIL_POS THEN p + Len(s) ELSE T.m_nTAIL_POS
  IN  [T EXCEPT !.m_psTAIL = [q \in 0 .. end - 1 |-> IF q \in p .. p + Len(s) - 1
                                                     THEN s[q - p + 1] ELSE @[q]],
                !.m_nTAIL_POS = end]

TailEnd(T, p) == Min({q \in p .. T.m_nTAIL_POS - 1 : T.m_psTAIL[q] = POSTFIX_CHAR})
READ_TAIL(T, p) == [k \in 1 .. TailEnd(T, p) - p + 1 |-> T.m_psTAIL[p + k - 1]]

EmptyTrie ==
  [m_pnBC |-> [n \in 0 .. 1 |-> [Free EXCEPT !.base = n]], m_nBC_POS |-> 1,
   m_psTAIL |-> [q \in 0 .. 0 |-> POSTFIX_CHAR], m_nTAIL_POS |-> 1,
   m_nPreCurrent_Detail_Pos |-> 0, m_nDictWordCount |-> 0, m_nMaxLenOfWord |-> 0]

-----------------------------------------------------------------------------
(* Placing nodes.                                                          *)

(* The least base at which all the bytes of a list find room: there is     *)
(* always room beyond the last node.                                       *)
X_CHECK(T, list) ==
  Min({b \in 1 .. T.m_nBC_POS : \A k \in DOMAIN list : CHECK(T, b + list[k]) = 0})

(* The bytes for which node s has a child.                                 *)
Set_List(T, s) ==
  LET UpTo[c \in 0 .. MAX_CODE - 2] ==
        IF c = 0 THEN <<>>
        ELSE IF CHECK(T, BASE(T, s) + c) = s THEN Append(UpTo[c - 1], c) ELSE UpTo[c - 1]
  IN  UpTo[MAX_CODE - 2]

(* A leaf for the first byte of b; the others go to the tail.              *)
Separate(T, s, b, tail_pos, detail_pos) ==
  LET t == BASE(T, s) + b[1]
      leaf == Write_DETAIL(Write_BASE(Write_CHECK(T, t, s), t, -tail_pos), t, detail_pos)
  IN  Write_TAIL(leaf, Tail(b), tail_pos)

(* The children of a moved node get its new place as CHECK.                *)
Children(T, n) ==
  {k \in 0 .. T.m_nBC_POS : /\ k > BASE(T, n) /\ CHECK(T, k) = n
                            /\ k - BASE(T, n) < MAX_CODE - 1 \/ k < T.m_nBC_POS}
LeaveChildren(T, old, new) == T
TellChildren(T, old, new) ==
  IF BASE(T, old) <= 0 THEN T
  ELSE [T EXCEPT !.m_pnBC = [k \in DOMAIN @ |-> IF k \in Children(T, old)
                                                THEN [@[k] EXCEPT !.check = new] ELSE @[k]]]

MoveNode(T, s, old, new) ==
  LET copied == Write_CHECK(Write_DETAIL(Write_BASE(T, new, BASE(T, old)),
                                         new, DETAIL(T, old)), new, s)
      told == TellChildren(copied, old, new)
  IN  Write_CHECK(Write_DETAIL(Write_BASE(told, old, 0), old, 0), old, 0)

(* Node s moves its children, listed in mylist, to a base with room for    *)
(* them and for extra; current is a node that may be among them.           *)
CHANGE_BC(T, current, s, mylist, extra) ==
  LET old_base == BASE(T, s)
      Moved[i \in 0 .. Len(mylist)] ==
        IF i = 0
        THEN [trie |-> Write_BASE(T, s, X_CHECK(T, mylist \o extra)), current |-> current]
        ELSE LET x == Moved[i - 1]
                 old == old_base + mylist[i]
                 new == BASE(x.trie, s) + mylist[i]
             IN  [trie |-> MoveNode(x.trie, s, old, new),
                  current |-> IF x.current # s /\ x.current = old THEN new ELSE x.current]
  IN  Moved[Len(mylist)]

(* A new leaf below s for the bytes b; who moves has fewer children.       *)
MadeRoom(T, s, b) ==
  LET t == BASE(T, s) + b[1]
      list_s == Set_List(T, s)
      list_t == Set_List(T, CHECK(T, t))
  IN  IF CHECK(T, t) = 0 THEN [trie |-> T, current |-> s]
      ELSE IF Len(list_s) + 1 < Len(list_t) THEN CHANGE_BC(T, s, s, list_s, <<b[1]>>)
      ELSE CHANGE_BC(T, s, CHECK(T, t), list_t, <<>>)
BC_INSERT(T, s, b) ==
  LET x == MadeRoom(T, s, b)
  IN  Separate(x.trie, x.current, b, T.m_nTAIL_POS, T.m_nPreCurrent_Detail_Pos)

(* Leaf s, with the rest a of its word in the tail, becomes a chain for    *)
(* what a and the rest b of the new word share, with two leaves.           *)
Shared(a, b) == Min({n \in 0 .. Len(a) - 1 : n < Len(b) /\ a[n + 1] # b[n + 1]})
ChainDown(T, s, a, length) ==
  LET Chain[i \in 0 .. length] ==
        IF i = 0 THEN [trie |-> T, node |-> s]
        ELSE LET x == Chain[i - 1]
                 based == Write_BASE(x.trie, x.node, X_CHECK(x.trie, <<a[i]>>))
                 t == BASE(based, x.node) + a[i]
             IN  [trie |-> Write_CHECK(based, t, x.node), node |-> t]
  IN  Chain[length]
TAIL_INSERT(T, s, a, b) ==
  LET length == Shared(a, b)
      end == ChainDown(T, s, a, length)
      fork == Write_BASE(end.trie, end.node,
                         X_CHECK(end.trie, <<a[length + 1], b[length + 1]>>))
      older == Separate(fork, end.node, SubSeq(a, length + 1, Len(a)), -BASE(T, s), DETAIL(T, s))
  IN  Separate(older, end.node, SubSeq(b, length + 1, Len(b)),
               older.m_nTAIL_POS, T.m_nPreCurrent_Detail_Pos)

-----------------------------------------------------------------------------
(* Walking down from the root, node 1, along a key: Path[h] is where h     *)
(* bytes lead, 0 for nowhere; the walk stops there or at a leaf.           *)
Child(T, n, c) ==
  LET t == BASE(T, n) + c
  IN  IF n # 0 /\ BASE(T, n) >= 0 /\ CHECK(T, t) = n THEN t ELSE 0
Path(T, key) ==
  LET N[h \in 0 .. Len(key)] == IF h = 0 THEN 1 ELSE Child(T, N[h - 1], key[h])
  IN  N
Stop(T, key) ==
  LET N == Path(T, key)
  IN  Min({h \in 1 .. Len(key) : N[h] = 0 \/ BASE(T, N[h]) < 0})

Key(w) == Append(w, POSTFIX_CHAR)
RestOf(T, t) == READ_TAIL(T, -BASE(T, t))

(* Where a walk along the key stops is the leaf of the key.                *)
IsLeafOf(T, key) ==
  LET h == Stop(T, key)
      t == Path(T, key)[h]
  IN  t # 0 /\ (key[h] = POSTFIX_CHAR \/ RestOf(T, t) = SubSeq(key, h + 1, Len(key)))

search(T, w) ==
  IF IsLeafOf(T, Key(w)) THEN DETAIL(T, Path(T, Key(w))[Stop(T, Key(w))]) ELSE -1

Grown(T, key) ==
  LET h == Stop(T, key)
      t == Path(T, key)[h]
  IN  IF t = 0 THEN BC_INSERT(T, Path(T, key)[h - 1], SubSeq(key, h, Len(key)))
      ELSE TAIL_INSERT(T, t, RestOf(T, t), SubSeq(key, h + 1, Len(key)))
Inserted(T, w) ==
  IF IsLeafOf(T, Key(w)) THEN T
  ELSE [Grown([T EXCEPT !.m_nPreCurrent_Detail_Pos = @ + 1], Key(w))
        EXCEPT !.m_nDictWordCount = @ + 1,
               !.m_nMaxLenOfWord = IF Len(w) > @ THEN Len(w) ELSE @]

-----------------------------------------------------------------------------
(* Matching words at the start and the end of a text.                      *)

(* The longest word the text starts with.  The text is cut to the longest  *)
(* word's length and filled with zeros.                                    *)
CutText(T, text) ==
  Append([k \in 1 .. T.m_nMaxLenOfWord |-> IF k <= Len(text) THEN text[k] ELSE 0], POSTFIX_CHAR)
EndsAtAnyone(T, s) == BASE(T, BASE(T, s) + POSTFIX_CHAR) < 0
EndsAt(T, s) == LET c == BASE(T, s) + POSTFIX_CHAR IN BASE(T, c) < 0 /\ CHECK(T, c) = s
fmm(T, text) ==
  LET key == CutText(T, text)
      N == Path(T, key)
      stop == Stop(T, key)
      ended == {h \in 0 .. stop - 1 : EndsAt(T, N[h])}
      rest == RestOf(T, N[stop])
      val == stop + Len(rest) - 1
      whole == /\ N[stop] # 0 /\ key[stop] # POSTFIX_CHAR
               /\ val < Len(key) /\ \A k \in 1 .. Len(rest) - 1 : rest[k] = key[stop + k]
  IN  IF whole THEN val ELSE Max(ended \union {0})

(* Where the longest word the text ends with begins, counted from 0.       *)
bmm(T, text) ==
  LET from == IF Len(text) > T.m_nMaxLenOfWord THEN Len(text) - T.m_nMaxLenOfWord ELSE 0
      starts == {p \in from .. Len(text) - 1 : search(T, SubSeq(text, p + 1, Len(text))) > 0}
  IN  IF starts = {} THEN -1 ELSE Min(starts)

-----------------------------------------------------------------------------
Answers(T) == [w \in {v \in Words : search(T, v) # -1} |-> search(T, w)]
Matches(T) == [text \in Texts |-> [fmm |-> fmm(T, text), bmm |-> bmm(T, text)]]
Becomes(T) == trie' = T /\ found' = Answers(T) /\ matched' = Matches(T)

Init ==
  /\ trie = EmptyTrie
  /\ file = [there |-> FALSE, trie |-> EmptyTrie, found |-> Answers(EmptyTrie)]
  /\ found = Answers(EmptyTrie) /\ matched = Matches(EmptyTrie)

insert(w) == Becomes(Inserted(trie, w)) /\ UNCHANGED file

(* update() saves arrays and counters, once: InitDict(file, newdict) calls *)
(* it when it has inserted the words of a file.                            *)
update ==
  /\ ~file.there
  /\ file' = [there |-> TRUE, trie |-> trie, found |-> found]
  /\ UNCHANGED <<trie, found, matched>>

(* InitDict(file): a new object; the number of the last word is its count. *)
Restored(T) == [T EXCEPT !.m_nPreCurrent_Detail_Pos = T.m_nDictWordCount]
InitDict ==
  /\ file.there
  /\ Becomes(Restored(file.trie))
  /\ UNCHANGED file

Next == (\E w \in Words : insert(w)) \/ update \/ InitDict

Spec == Init /\ [][Next]_vars

-----------------------------------------------------------------------------
(* Type correctness: each node in use but the root is the child, for one   *)
(* byte, of a node with children; it has a base, and where that is the     *)
(* place of a tail the tail ends within the array and the word a number.   *)
TypeOK ==
  /\ trie.m_nBC_POS \in Nat \ {0} /\ trie.m_nTAIL_POS \in Nat \ {0}
  /\ DOMAIN trie.m_pnBC = 0 .. trie.m_nBC_POS
  /\ trie.m_psTAIL \in [0 .. trie.m_nTAIL_POS - 1 -> Codes]
  /\ \A n \in 0 .. trie.m_nBC_POS : CHECK(trie, n) # 0 =>
       LET parent == CHECK(trie, n)
           c == n - BASE(trie, parent)
       IN  /\ parent \in 1 .. trie.m_nBC_POS /\ BASE(trie, parent) > 0 /\ c \in Codes
           /\ BASE(trie, n) # 0
           /\ BASE(trie, n) < 0 =>
                /\ DETAIL(trie, n) \in 1 .. trie.m_nPreCurrent_Detail_Pos
                /\ c = POSTFIX_CHAR \/ \E q \in -BASE(trie, n) .. trie.m_nTAIL_POS - 1 :
                                         q > 0 /\ trie.m_psTAIL[q] = POSTFIX_CHAR
  /\ trie.m_nDictWordCount = trie.m_nPreCurrent_Detail_Pos
  /\ file.there \in BOOLEAN

(***************************************************************************)
(* The trie is a table of the words inserted: search() finds exactly them, *)
(* each under the number it was given, whatever came after it; loaded from *)
(* a file, it is the table that was saved.                                 *)
(***************************************************************************)
Promise == INSTANCE WordTable WITH table <- found, saved <- file.found
ImplementsWordTable == Promise!Spec

(***************************************************************************)
(* fmm() and bmm() find the longest word a text starts or ends with.       *)
(***************************************************************************)
WordPrefixes(text) == {n \in 1 .. Len(text) : SubSeq(text, 1, n) \in DOMAIN found}
WordSuffixes(text) == {p \in 0 .. Len(text) - 1 : SubSeq(text, p + 1, Len(text)) \in DOMAIN found}
LongestMatched ==
  \A text \in Texts :
    /\ matched[text].fmm = Max(WordPrefixes(text) \union {0})
    /\ matched[text].bmm = IF WordSuffixes(text) = {} THEN -1 ELSE Min(WordSuffixes(text))
=============================================================================
