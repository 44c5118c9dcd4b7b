------------------------------- MODULE Character ------------------------------
(***************************************************************************)
(* util/Character.h: traditional characters are made simplified and wide   *)
(* ones narrow, in place: src reads the buffer ahead of where dest writes. *)
(* One step is one character.                                              *)
(***************************************************************************)
EXTENDS Integers, Sequences, SequencesExt

CONSTANTS
  Bytes,       (* the bytes texts are made of: 1 to 255                    *)
  Table,       (* wordlist: characters (pairs of bytes) to characters      *)
  MaxLen       (* bound of the instance                                    *)

High(b) == b >= 128
Wide(c) == c[1] = 163
WideBlank == <<161, 161>>
Upper == 65 .. 90

(* Nothing is made traditional, wide or a blank.                           *)
CharacterAssumption ==
  /\ Bytes \subseteq 1 .. 255
  /\ \A c \in DOMAIN Table :
       /\ High(c[1]) /\ High(Table[c][1]) /\ Table[c] \notin DOMAIN Table
       /\ ~Wide(Table[c]) /\ Table[c] # WideBlank

VARIABLES
  op,                      (* which function runs                          *)
  ifSimp, ifHalf, ifLower,
  text,                    (* what it is given                             *)
  buf, src, dest,          (* the bytes, how many are read and written     *)
  returned                 (* "no", "true" or "false"                      *)

vars == <<op, ifSimp, ifHalf, ifLower, text, buf, src, dest, returned>>

(* An empty text is returned at once.                                      *)
Texts == UNION {[1 .. n -> Bytes] : n \in 1 .. MaxLen}

-----------------------------------------------------------------------------
(* The characters of a text from byte k on; the last may be a half one.    *)
RECURSIVE From(_, _)
From(s, k) ==
  IF k > Len(s) THEN <<>>
  ELSE IF High(s[k]) THEN <<SubSeq(s, k, Min({k + 1, Len(s)}))>> \o From(s, k + 2)
  ELSE <<<<s[k]>>>> \o From(s, k + 1)
Characters(s) == From(s, 1)
HalfAtEnd(s) == s # <<>> /\ Len(Last(Characters(s))) = 1 /\ High(Last(Characters(s))[1])

(* The wide block begins at 161; what is user defined below it has no      *)
(* narrow form.  ConvertDigitAlpha reads on behind half a character.       *)
Given(o) ==
  {s \in Texts :
     /\ \A c \in ToSet(Characters(s)) : Wide(c) /\ Len(c) = 2 => c[2] >= 161
     /\ o = "ConvertDigitAlpha" => ~HalfAtEnd(s)}

Flags(o) == IF o = "NormalizeString" THEN BOOLEAN ELSE {FALSE}

Init ==
  /\ op \in {"Convert_t2s", "ConvertDigitAlpha", "NormalizeString"}
  /\ ifSimp \in Flags(op) /\ ifHalf \in Flags(op) /\ ifLower \in Flags(op)
  /\ text \in Given(op) /\ buf = text
  /\ src = 0 /\ dest = 0
  /\ returned = "no"

-----------------------------------------------------------------------------
tolower(b) == IF b \in Upper THEN b + 32 ELSE b
Narrow(b) == (b + 128) % 256

Simplified(c) == IF c \in DOMAIN Table THEN Table[c] ELSE c
HalfWidth(c) == IF Wide(c) /\ c[2] \in 176 .. 185 \union 225 .. 250 \union 193 .. 217
                THEN <<Narrow(c[2])>> ELSE c
Normal(c) ==
  IF ifSimp /\ c \in DOMAIN Table THEN Table[c]
  ELSE IF ~ifHalf THEN c
  ELSE IF Wide(c) THEN <<IF ifLower THEN tolower(Narrow(c[2])) ELSE Narrow(c[2])>>
  ELSE IF c = WideBlank THEN <<32>>
  ELSE c

Image(c) ==
  CASE op = "Convert_t2s" -> Simplified(c) [] op = "ConvertDigitAlpha" -> HalfWidth(c)
    [] op = "NormalizeString" -> Normal(c)
ImageOfByte(b) == IF op = "NormalizeString" /\ ifLower THEN tolower(b) ELSE b

WrittenInStep(bytes) == src + Len(bytes)
Written(bytes) == dest + Len(bytes)
Write(bytes) ==
  /\ buf' = [k \in DOMAIN buf |-> IF k - dest \in DOMAIN bytes THEN bytes[k - dest] ELSE buf[k]]
  /\ dest' = Written(bytes)

Reading == returned = "no" /\ src < Len(buf)
InPair == Reading /\ High(buf[src + 1])

Single ==
  /\ Reading /\ ~InPair
  /\ Write(<<ImageOfByte(buf[src + 1])>>) /\ src' = src + 1
  /\ UNCHANGED returned

Double ==
  /\ InPair /\ src + 2 <= Len(buf)
  /\ Write(Image(SubSeq(buf, src + 1, src + 2))) /\ src' = src + 2
  /\ UNCHANGED returned

(* Half a character at the end is cut off.                                 *)
Finish ==
  /\ returned = "no" /\ (~Reading \/ (InPair /\ src + 1 = Len(buf)))
  /\ buf' = SubSeq(buf, 1, dest)
  /\ returned' = IF Reading THEN "false" ELSE "true"
  /\ UNCHANGED <<src, dest>>

Next ==
  /\ Single \/ Double \/ Finish
  /\ UNCHANGED <<op, ifSimp, ifHalf, ifLower, text>>

Spec == Init /\ [][Next]_vars

-----------------------------------------------------------------------------
Images(s) ==
  FlattenSeq([k \in DOMAIN Characters(s) |->
    LET c == Characters(s)[k]
    IN  IF ~High(c[1]) THEN <<ImageOfByte(c[1])>> ELSE IF Len(c) = 1 THEN <<>> ELSE Image(c)])

TypeOK ==
  /\ src \in 0 .. Len(text) /\ dest \in 0 .. src
  /\ \A k \in DOMAIN buf : buf[k] \in 1 .. 255
  /\ returned \in {"no", "true", "false"}

(* What is written in place, ahead of nothing that is still to be read, is *)
(* the text with each character converted, and half a character at its end *)
(* is reported.                                                            *)
EachCharacterConverted ==
  returned # "no" => buf = Images(text) /\ (returned = "false" <=> HalfAtEnd(text))

(* Converting what was converted changes nothing, so the trainer and the   *)
(* rectifier, which both convert, agree on a text whatever came before.    *)
ConvertedOnce == returned # "no" => Images(buf) = buf
=============================================================================
