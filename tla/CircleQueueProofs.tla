-------------------------- MODULE CircleQueueProofs ---------------------------
(***************************************************************************)
(* Theorems about CircleQueue, for files and records of every size and any *)
(* number of records and crashes.  The records in the file lie in at most  *)
(* two stretches: from the read offset up, and, when the writer has turned *)
(* around, from the start of the file up to the write offset.  A store     *)
(* only writes between the write offset and what the reader may walk.      *)
(*                                                                         *)
(* Then about what comes out of the file: nothing is lost, the file is a   *)
(* queue of records (RecordFifo), and records of two sessions never get    *)
(* the same log_id.                                                        *)
(***************************************************************************)
EXTENDS CircleQueue, SetInduction, TLAPS

(* Where a reader is that has passed record k.                             *)
Pos(k) == IF k = taken THEN readOff ELSE End(k)

(* Record k lies in the stretch that the read offset is in.                *)
Upper(k) == readOff <= log[k].off

(* A record begins where the one before it ends or, in the second stretch, *)
(* at the start, when there is a flag where the one before it ends.        *)
Placed(k) ==
  /\ End(k) < BufLen - StampLen
  /\ \/ /\ Upper(k) /\ log[k].off = Pos(k - 1)
        /\ readOff <= writeOff => End(k) <= writeOff
     \/ /\ readOff > writeOff /\ End(k) <= writeOff
        /\ \/ log[k].off = Pos(k - 1)
           \/ log[k].off = HeaderLen /\ Pos(k - 1) >= readOff /\ IsFlag(Pos(k - 1))

(* The second stretch is behind the first.                                 *)
Before(j, k) ==
  IF Upper(k) THEN Upper(j) /\ End(j) <= log[k].off
  ELSE Upper(j) \/ End(j) <= log[k].off

Written(off, len, n) ==
  /\ \A b \in 0 .. StampLen - 1 : mem[off + b] = 1
  /\ LenAt(off) = len
  /\ \A b \in off + StoreHeader .. After(off, len) - 1 : mem[b] = n

Chain ==
  /\ taken <= Len(log) /\ (taken = Len(log) <=> readOff = writeOff)
  /\ Pos(Len(log)) = writeOff
  /\ \A k \in Unread : Placed(k) /\ Written(log[k].off, log[k].len, k)
  /\ \A j, k \in Unread : j < k => Before(j, k)

(* A store behind the last record, or at the start behind a flag.          *)
Here == wpos = writeOff /\ (readOff > writeOff => wnext < readOff)
AtStart == wpos = HeaderLen /\ readOff <= writeOff /\ wnext < readOff
Storing ==
  /\ wpc # "idle" => wlen \in Lengths
  /\ wpc \notin {"idle", "try"} =>
       /\ wnext = After(wpos, wlen) /\ wnext < BufLen - StampLen
       /\ \/ Here /\ wpc # "flag"
          \/ AtStart /\ (wpc # "flag" => IsFlag(writeOff))
  /\ wpc \in {"len", "copy", "publish"} => \A b \in 0 .. StampLen - 1 : mem[wpos + b] = 1
  /\ wpc \in {"copy", "publish"} => LenAt(wpos) = wlen
  /\ wpc = "publish" =>
       \A b \in wpos + StoreHeader .. wnext - 1 : mem[b] = Len(log) + 1

(* What a reader knows of the records it has not released.                 *)
Marks(from, to) == {k \in from .. to : log[k].len = 0}
Reading ==
  /\ rpc \in {"check", "record"} => taken < Len(log) /\ roff = readOff
  /\ rpc = "record" => log[taken + 1].off = readOff
  /\ rpc = "find" =>
       /\ rop = "sessions" /\ passed = 0 /\ peeked = <<>>
       /\ \E p \in taken .. Len(log) :
            /\ roff = Pos(p)
            /\ rmark = 0 \/ \E m \in Marks(taken + 1, p) : rmark = log[m].off
            /\ \E q \in p .. Len(log) : rend = Pos(q)
  /\ rpc \in {"walk", "write", "release"} =>
       taken + passed <= Len(log) /\ roff = Pos(taken + passed) /\ rop \in {"all", "sessions"}
  /\ rpc = "walk" =>
       \/ rop = "all" /\ \E q \in taken + passed .. Len(log) : rend = Pos(q)
       \/ rop = "sessions" /\ \E m \in Marks(taken + passed + 1, Len(log)) : rend = log[m].off
  /\ rpc \in {"write", "release"} /\ rop = "sessions" =>
       passed > 0 /\ log[taken + passed].len = 0
  /\ rpc \notin {"walk", "write", "release"} => passed = 0 /\ peeked = <<>>
  /\ rpc = "idle" => rmark = 0

IInv == TypeOK /\ Chain /\ Storing /\ Reading /\ PeekIsFaithful

-----------------------------------------------------------------------------
LEMMA Constants ==
  /\ HeaderLen \in Nat /\ HeaderLen > 0 /\ StampLen \in Nat /\ StampLen > 0
  /\ LenLen \in Nat /\ LenLen > 0
  /\ BufLen \in Nat /\ BufLen > HeaderLen + StampLen
  /\ StoreHeader \in Nat /\ StoreHeader = StampLen + LenLen
  /\ Lengths \subseteq Nat /\ 0 \in 0 .. StampLen - 1
  BY CircleQueueAssumption DEF StoreHeader

(* A record that was published, in numbers.                                *)
LEMMA Records ==
  ASSUME TypeOK
  PROVE  /\ Len(log) \in Nat /\ DOMAIN log = 1 .. Len(log) /\ taken \in Nat
         /\ \A k \in 1 .. Len(log) :
              /\ log[k].off \in Int /\ log[k].len \in Nat /\ log[k].len \in Lengths
              /\ HeaderLen <= log[k].off /\ log[k].off \in Offsets
              /\ End(k) \in Int /\ End(k) = log[k].off + StoreHeader + log[k].len
              /\ log[k].off + StoreHeader <= End(k)
  <1> DEFINE R == [off : Offsets, len : Lengths]
  <1>0. log \in Seq(R) /\ taken \in Nat
    BY DEF TypeOK
  <1>1. /\ Len(log) \in Nat /\ DOMAIN log = 1 .. Len(log)
        /\ \A k \in 1 .. Len(log) : log[k] \in R
    <2> HIDE DEF R
    <2> QED
      BY <1>0
  <1>2. ASSUME NEW k \in 1 .. Len(log)
        PROVE  /\ log[k].off \in Int /\ log[k].len \in Nat /\ log[k].len \in Lengths
               /\ HeaderLen <= log[k].off /\ log[k].off \in Offsets
               /\ End(k) \in Int /\ End(k) = log[k].off + StoreHeader + log[k].len
               /\ log[k].off + StoreHeader <= End(k)
    <2>1. log[k].off \in Offsets /\ log[k].len \in Lengths
      BY <1>1
    <2>2. log[k].off \in Int /\ HeaderLen <= log[k].off /\ log[k].len \in Nat
      <3> DEFINE o == log[k].off
                 l == log[k].len
      <3>1. o \in Offsets /\ l \in Lengths
        BY <2>1
      <3> HIDE DEF o, l
      <3>2. o \in Int /\ HeaderLen <= o /\ l \in Nat
        BY <3>1, Constants DEF Offsets
      <3> QED
        BY <3>2 DEF o, l
    <2>3. End(k) = log[k].off + StoreHeader + log[k].len
      BY DEF End, After
    <2> QED
      BY <2>1, <2>2, <2>3, Constants
  <1> QED
    BY <1>0, <1>1, <1>2

LEMMA OffsetsInFile ==
  ASSUME TypeOK
  PROVE  /\ readOff \in Int /\ HeaderLen <= readOff /\ readOff < BufLen - StampLen
         /\ writeOff \in Int /\ HeaderLen <= writeOff /\ writeOff < BufLen - StampLen
  BY Constants DEF TypeOK, Offsets

(* Where an unread record may lie.                                         *)
LEMMA UnreadInside ==
  ASSUME TypeOK, Chain, NEW k \in Unread
  PROVE  /\ k \in 1 .. Len(log) /\ k \in Nat /\ k > taken
         /\ log[k].off \in Int /\ End(k) \in Int
         /\ HeaderLen <= log[k].off /\ log[k].off < End(k)
         /\ End(k) < BufLen - StampLen
         /\ readOff <= writeOff => readOff <= log[k].off /\ End(k) <= writeOff
         /\ readOff > writeOff =>
              readOff <= log[k].off \/ (End(k) <= writeOff /\ log[k].off < readOff)
  <1>1. k \in 1 .. Len(log) /\ k \in Nat /\ k > taken
    BY Records DEF Unread
  <1>2. /\ log[k].off \in Int /\ End(k) \in Int
        /\ HeaderLen <= log[k].off /\ log[k].off < End(k)
    <2>1. /\ log[k].off \in Int /\ End(k) \in Int /\ HeaderLen <= log[k].off
          /\ log[k].off + StoreHeader <= End(k)
      BY <1>1, Records
    <2>2. StoreHeader \in Nat /\ StoreHeader > 0
      BY Constants
    <2> QED
      BY <2>1, <2>2
  <1>3. Placed(k)
    BY DEF Chain
  <1>4. /\ End(k) < BufLen - StampLen
        /\ \/ readOff <= log[k].off /\ (readOff <= writeOff => End(k) <= writeOff)
           \/ readOff > writeOff /\ End(k) <= writeOff
    BY <1>3 DEF Placed, Upper
  <1>5. readOff <= writeOff => readOff <= log[k].off /\ End(k) <= writeOff
    BY <1>4, OffsetsInFile
  <1>6. readOff > writeOff =>
          readOff <= log[k].off \/ (End(k) <= writeOff /\ log[k].off < readOff)
    BY <1>2, <1>4, OffsetsInFile
  <1> QED
    BY <1>1, <1>2, <1>4, <1>5, <1>6

(* Where a reader stands that has passed it.                               *)
LEMMA Positions ==
  ASSUME TypeOK, Chain, NEW k \in taken .. Len(log)
  PROVE  /\ Pos(k) \in Offsets /\ Pos(k) \in Int
         /\ k # taken => k \in Unread /\ Pos(k) = End(k)
  <1>1. CASE k = taken
    BY <1>1, OffsetsInFile DEF Pos, TypeOK
  <1>2. CASE k # taken
    <2>1. k \in Unread /\ Pos(k) = End(k)
      BY <1>2, Records DEF Pos, Unread
    <2>2. End(k) \in Int /\ HeaderLen <= End(k) /\ End(k) < BufLen - StampLen
      BY <2>1, UnreadInside, Constants
    <2> QED
      BY <2>1, <2>2, Constants, <1>2 DEF Offsets
  <1> QED
    BY <1>1, <1>2

LEMMA WrittenInside ==
  ASSUME TypeOK, Chain, NEW k \in Unread,
         NEW b \in log[k].off .. End(k) - 1
  PROVE  b \in UnreadCells
  <1>1. b \in Int /\ log[k].off <= b /\ b < End(k)
    BY UnreadInside
  <1> QED
    BY <1>1, UnreadInside, OffsetsInFile, Constants DEF UnreadCells

(***************************************************************************)
(* The cells a store writes are none that the reader may walk.             *)
(***************************************************************************)
LEMMA StoreIsClear ==
  ASSUME TypeOK, Storing
  PROVE  WriterStaysClear
  <1>1. CASE wpc \in {"idle", "try"}
    BY <1>1 DEF WriterStaysClear, ClaimedCells
  <1>2. CASE wpc \notin {"idle", "try"}
    <2>1. /\ wnext = wpos + StoreHeader + wlen /\ wnext < BufLen - StampLen
          /\ wlen \in Nat /\ wpos \in Int /\ wnext \in Int
          /\ \/ Here /\ wpc # "flag"
             \/ AtStart
      BY <1>2, Constants DEF Storing, After, TypeOK, Offsets
    <2>2. CASE Here /\ wpc # "flag"
      <3>1. ClaimedCells = wpos .. wnext - 1
        BY <1>2, <2>2 DEF ClaimedCells
      <3> QED
        BY <2>1, <2>2, <3>1, OffsetsInFile, Constants
        DEF WriterStaysClear, UnreadCells, Cells, Here
    <2>3. CASE AtStart
      <3>1. ClaimedCells \subseteq (wpos .. wnext - 1) \union (writeOff .. writeOff + StampLen - 1)
        BY DEF ClaimedCells
      <3>2. UnreadCells = readOff .. writeOff - 1
        BY <2>3 DEF UnreadCells, AtStart
      <3> QED
        BY <2>1, <2>3, <3>1, <3>2, OffsetsInFile, Constants
        DEF WriterStaysClear, Cells, AtStart
    <2> QED
      BY <2>1, <2>2, <2>3
  <1> QED
    BY <1>1, <1>2

(* The records, and the places of a reader among them, are all different.  *)
LEMMA PlacesDiffer ==
  ASSUME TypeOK, Chain
  PROVE  /\ \A j, k \in Unread : j < k => log[j].off # log[k].off
         /\ \A p, q \in taken .. Len(log) : p < q => Pos(p) # Pos(q)
         /\ \A q \in Unread : Pos(q) > HeaderLen
  <1>1. ASSUME NEW j \in Unread, NEW k \in Unread, j < k
        PROVE  log[j].off # log[k].off /\ End(j) # End(k)
    <2>1. Before(j, k)
      BY <1>1 DEF Chain
    <2> QED
      BY <2>1, UnreadInside, OffsetsInFile DEF Before, Upper
  <1>2. ASSUME NEW k \in Unread
        PROVE  End(k) # readOff /\ Pos(k) = End(k) /\ End(k) > HeaderLen
    <2>1. Pos(k) = End(k)
      BY UnreadInside, Records DEF Pos
    <2> QED
      BY <2>1, UnreadInside, OffsetsInFile, Constants
  <1>3. ASSUME NEW p \in taken .. Len(log), NEW q \in taken .. Len(log), p < q
        PROVE  Pos(p) # Pos(q)
    <2>1. q \in Unread
      BY <1>3, Records DEF Unread
    <2>2. CASE p = taken
      BY <2>1, <2>2, <1>2 DEF Pos
    <2>3. CASE p # taken
      <3>1. p \in Unread
        BY <2>3, Records DEF Unread
      <3> QED
        BY <2>1, <3>1, <1>1, <1>2, <1>3
    <2> QED
      BY <2>2, <2>3
  <1> QED
    BY <1>1, <1>2, <1>3

(* From a place among the records the flag leads to the next record.       *)
LEMMA NextRecord ==
  ASSUME TypeOK, Chain, NEW p \in taken .. Len(log), p < Len(log)
  PROVE  /\ p + 1 \in Unread /\ log[p + 1].off = Follow(Pos(p))
         /\ ~IsFlag(log[p + 1].off)
         /\ LenAt(log[p + 1].off) = log[p + 1].len
         /\ After(log[p + 1].off, LenAt(log[p + 1].off)) = Pos(p + 1)
         /\ log[p + 1].len # 0 => PayloadAt(log[p + 1].off) = p + 1
  <1>1. p \in Nat /\ p + 1 \in Unread /\ p + 1 # taken /\ (p + 1) - 1 = p
    BY Records DEF Unread
  <1>2. Placed(p + 1) /\ Written(log[p + 1].off, log[p + 1].len, p + 1)
    BY <1>1 DEF Chain
  <1>3. ~IsFlag(log[p + 1].off)
    <2>1. mem[log[p + 1].off + 0] = 1
      BY <1>2, Constants DEF Written
    <2>2. p + 1 \in 1 .. Len(log)
      BY <1>1, UnreadInside
    <2>3. log[p + 1].off + 0 = log[p + 1].off
      BY <2>2, Records
    <2> QED
      BY <2>1, <2>3 DEF IsFlag
  <1>4. log[p + 1].off = Follow(Pos(p))
    BY <1>1, <1>2, <1>3 DEF Placed, Follow
  <1>5. LenAt(log[p + 1].off) = log[p + 1].len
    BY <1>2 DEF Written
  <1>6. After(log[p + 1].off, LenAt(log[p + 1].off)) = Pos(p + 1)
    BY <1>1, <1>5 DEF Pos, End
  <1>7. ASSUME log[p + 1].len # 0
        PROVE  PayloadAt(log[p + 1].off) = p + 1
    <2>1. p + 1 \in 1 .. Len(log)
      BY <1>1, UnreadInside
    <2>2. /\ log[p + 1].off \in Int /\ log[p + 1].len \in Nat
      BY <2>1, Records
    <2>3. log[p + 1].off + StoreHeader \in
            log[p + 1].off + StoreHeader .. After(log[p + 1].off, log[p + 1].len) - 1
      BY <2>2, <1>7, Constants DEF After
    <2> QED
      BY <2>3, <1>2 DEF Written, PayloadAt
  <1> QED
    BY <1>1, <1>3, <1>4, <1>5, <1>6, <1>7

-----------------------------------------------------------------------------
(* Steps of the reader that release records, or turn around.               *)

LEMMA Advance ==
  ASSUME TypeOK, Chain, Storing,
         NEW m \in taken .. Len(log),
         readOff' = Pos(m), taken' = m,
         UNCHANGED <<writeOff, mem, log, writer>>
  PROVE  Chain' /\ Storing'
  <1> DEFINE n == Len(log)
  <1>0. n \in Nat /\ m \in Nat /\ Pos(m) \in Int /\ taken <= m /\ m <= n /\ taken \in Nat
    BY Records, Positions
  <1>1. /\ readOff <= writeOff => readOff <= Pos(m) /\ Pos(m) <= writeOff
        /\ readOff > writeOff => readOff <= Pos(m) \/ Pos(m) <= writeOff
    <2>1. CASE m = taken
      BY <2>1, OffsetsInFile, Chain DEF Pos, Chain
    <2>2. CASE m # taken
      <3>1. m \in Unread /\ Pos(m) = End(m)
        BY <2>2, Positions
      <3> QED
        BY <3>1, UnreadInside, OffsetsInFile
    <2> QED
      BY <2>1, <2>2
  <1>2. \A k \in m .. n : Pos(k)' = Pos(k)
    BY <1>0 DEF Pos, End, After
  <1>3. Unread' = m + 1 .. n /\ \A k \in Unread' : k \in Unread /\ k - 1 \in m .. n
    BY <1>0 DEF Unread
  <1>4. ASSUME NEW k \in m + 1 .. n
        PROVE  /\ readOff <= writeOff => Pos(m) <= log[k].off
               /\ readOff > writeOff /\ readOff <= Pos(m) => (Upper(k) <=> Pos(m) <= log[k].off)
               /\ readOff > writeOff /\ Pos(m) <= writeOff => ~Upper(k) /\ Pos(m) <= log[k].off
    <2>1. k \in Unread /\ k \in 1 .. n
      BY <1>0 DEF Unread
    <2>2. CASE m = taken
      BY <2>1, <2>2, UnreadInside, OffsetsInFile DEF Pos, Upper
    <2>3. CASE m # taken
      <3>1. m \in Unread /\ Pos(m) = End(m) /\ m \in 1 .. n
        BY <2>3, Positions, UnreadInside
      <3>2. Before(m, k)
        BY <3>1, <2>1, <1>0 DEF Chain
      <3> QED
        BY <3>1, <3>2, <2>1, UnreadInside, OffsetsInFile DEF Before, Upper
    <2> QED
      BY <2>2, <2>3
  <1>5. Chain'
    <2>1. /\ taken' <= Len(log)' /\ (taken' = Len(log)' <=> readOff' = writeOff')
          /\ Pos(Len(log))' = writeOff'
      <3>1. Pos(n) = writeOff /\ Pos(n)' = Pos(n)
        BY <1>0, <1>2 DEF Chain
      <3>2. m = n <=> Pos(m) = Pos(n)
        BY <1>0, PlacesDiffer
      <3> QED
        BY <1>0, <3>1, <3>2
    <2>2. ASSUME NEW k \in Unread'
          PROVE  Written(log[k].off, log[k].len, k)'
      <3>1. Written(log[k].off, log[k].len, k)
        BY <1>3 DEF Chain
      <3> QED
        BY <3>1 DEF Written, LenAt, After
    <2>3. ASSUME NEW k \in Unread'
          PROVE  Placed(k)'
      <3>1. k \in Unread /\ k \in m + 1 .. n /\ k - 1 \in m .. n /\ Placed(k)
        BY <1>3 DEF Chain
      <3>2. Pos(k - 1)' = Pos(k - 1) /\ End(k)' = End(k) /\ (IsFlag(Pos(k - 1)))' = IsFlag(Pos(k - 1))
        BY <3>1, <1>2 DEF End, After, IsFlag
      <3>3. /\ End(k) \in Int /\ log[k].off \in Int /\ End(k) < BufLen - StampLen
            /\ log[k].off < End(k)
            /\ readOff <= writeOff => readOff <= log[k].off /\ End(k) <= writeOff
            /\ readOff > writeOff =>
                 readOff <= log[k].off \/ (End(k) <= writeOff /\ log[k].off < readOff)
        BY <3>1, UnreadInside
      <3>4. Pos(k - 1) \in Int
        BY <3>1, <1>0, Positions
      <3>5. log[k].off # Pos(k - 1) =>
              readOff > writeOff /\ ~Upper(k) /\ log[k].off = HeaderLen
              /\ Pos(k - 1) >= Pos(m) /\ Pos(m) >= readOff /\ IsFlag(Pos(k - 1))
        <4> SUFFICES ASSUME log[k].off # Pos(k - 1)
                     PROVE  readOff > writeOff /\ ~Upper(k) /\ log[k].off = HeaderLen
                            /\ Pos(k - 1) >= Pos(m) /\ Pos(m) >= readOff /\ IsFlag(Pos(k - 1))
          OBVIOUS
        <4>1. readOff > writeOff /\ log[k].off = HeaderLen /\ End(k) <= writeOff
              /\ Pos(k - 1) >= readOff /\ IsFlag(Pos(k - 1))
          BY <3>1 DEF Placed
        <4>2. ~Upper(k)
          BY <4>1, <3>3, OffsetsInFile DEF Upper
        <4>3. CASE k - 1 = m
          BY <4>1, <4>2, <4>3, <3>4
        <4>4. CASE k - 1 # m
          <5>1. k - 1 \in m + 1 .. n /\ k - 1 \in Unread /\ Pos(k - 1) = End(k - 1)
            BY <4>4, <3>1, <1>0, Positions
          <5>2. k - 1 \in Unread
            BY <5>1
          <5>3. /\ End(k - 1) \in Int /\ log[k - 1].off < End(k - 1) /\ log[k - 1].off \in Int
                /\ readOff <= log[k - 1].off \/ End(k - 1) <= writeOff
            BY <5>2, <4>1, UnreadInside
          <5>4. readOff <= log[k - 1].off
            BY <5>1, <5>3, <4>1, OffsetsInFile
          <5>5. Pos(m) <= log[k - 1].off
            BY <5>1, <5>4, <1>0, <1>1, <1>4, <4>1, OffsetsInFile DEF Upper
          <5>6. readOff <= Pos(m)
            BY <5>1, <5>4, <1>0, <1>1, <1>4, <4>1, OffsetsInFile DEF Upper
          <5> QED
            BY <4>1, <4>2, <5>1, <5>3, <5>5, <5>6, <1>0
        <4> QED
          BY <4>3, <4>4
      <3>6. Upper(k)' <=> Pos(m) <= log[k].off
        BY DEF Upper
      <3>7. (\/ /\ Pos(m) <= log[k].off /\ log[k].off = Pos(k - 1)
                /\ Pos(m) <= writeOff => End(k) <= writeOff
             \/ /\ Pos(m) > writeOff /\ End(k) <= writeOff
                /\ \/ log[k].off = Pos(k - 1)
                   \/ log[k].off = HeaderLen /\ Pos(k - 1) >= Pos(m) /\ IsFlag(Pos(k - 1)))
        <4>1. k \in m + 1 .. n
          BY <3>1
        <4>2. CASE log[k].off # Pos(k - 1)
          BY <4>1, <4>2, <3>3, <3>5, <1>0, <1>1, OffsetsInFile DEF Upper
        <4>3. CASE log[k].off = Pos(k - 1)
          BY <4>1, <4>3, <3>3, <1>0, <1>1, <1>4, OffsetsInFile DEF Upper
        <4> QED
          BY <4>2, <4>3
      <3> QED
        BY <3>2, <3>3, <3>6, <3>7 DEF Placed
    <2>4. ASSUME NEW j \in Unread', NEW k \in Unread', j < k
          PROVE  Before(j, k)'
      <3>1. /\ j \in Unread /\ k \in Unread /\ j \in m + 1 .. n /\ k \in m + 1 .. n
            /\ Before(j, k)
        BY <1>3, <2>4 DEF Chain
      <3>2. /\ readOff <= writeOff => Pos(m) <= log[j].off
            /\ readOff > writeOff /\ readOff <= Pos(m) => (Upper(j) <=> Pos(m) <= log[j].off)
            /\ readOff > writeOff /\ Pos(m) <= writeOff => ~Upper(j) /\ Pos(m) <= log[j].off
        BY <3>1, <1>4
      <3>3. /\ readOff <= writeOff => Pos(m) <= log[k].off
            /\ readOff > writeOff /\ readOff <= Pos(m) => (Upper(k) <=> Pos(m) <= log[k].off)
            /\ readOff > writeOff /\ Pos(m) <= writeOff => ~Upper(k) /\ Pos(m) <= log[k].off
        BY <3>1, <1>4
      <3>4. /\ Upper(k)' <=> Pos(m) <= log[k].off
            /\ Upper(j)' <=> Pos(m) <= log[j].off
            /\ End(j)' = End(j) /\ (log[k].off)' = log[k].off
        BY DEF Upper, End, After
      <3>5. readOff <= writeOff => Upper(j) /\ Upper(k)
        BY <3>1, UnreadInside DEF Upper
      <3> QED
        BY <3>1, <3>2, <3>3, <3>4, <3>5, <1>0, <1>1, OffsetsInFile DEF Before
    <2> QED
      BY <2>1, <2>2, <2>3, <2>4 DEF Chain
  <1>6. Storing'
    <2>0. wnext \in Int /\ UNCHANGED <<writer, mem, writeOff, log>>
      BY Constants DEF TypeOK, Offsets
    <2>1. Here => Here'
      BY <2>0, <1>0, <1>1, OffsetsInFile DEF Here, writer
    <2>2. AtStart => AtStart'
      BY <2>0, <1>0, <1>1, OffsetsInFile DEF AtStart, writer
    <2> QED
      BY <2>0, <2>1, <2>2 DEF Storing, IsFlag, LenAt, After, writer
  <1> QED
    BY <1>5, <1>6

(* A reader that follows the flag finds all it has not released behind it. *)
LEMMA FollowFlag ==
  ASSUME TypeOK, Chain, Storing,
         taken < Len(log), IsFlag(readOff),
         readOff' = HeaderLen,
         UNCHANGED <<writeOff, mem, log, taken, writer>>
  PROVE  Chain' /\ Storing' /\ log[taken + 1].off = HeaderLen
  <1> DEFINE n == Len(log)
  <1>0. n \in Nat /\ taken \in Nat /\ taken \in taken .. n /\ Pos(taken) = readOff
    BY Records DEF Pos
  <1>1. taken + 1 \in Unread /\ log[taken + 1].off = HeaderLen /\ readOff # HeaderLen
    <2>1. /\ taken + 1 \in Unread /\ log[taken + 1].off = Follow(readOff)
          /\ ~IsFlag(log[taken + 1].off)
      BY <1>0, NextRecord
    <2> QED
      BY <2>1 DEF Follow
  <1>2. ~Upper(taken + 1) /\ readOff > writeOff
    BY <1>1, UnreadInside, OffsetsInFile, Constants DEF Upper
  <1>3. ASSUME NEW k \in Unread
        PROVE  ~Upper(k) /\ End(k) <= writeOff /\ readOff > Pos(k)
    <2>1. ~Upper(k)
      <3>1. CASE k = taken + 1
        BY <3>1, <1>2
      <3>2. CASE k # taken + 1
        <4>1. taken + 1 < k
          BY <3>2, <1>0, UnreadInside
        <4>2. Before(taken + 1, k)
          BY <4>1, <1>1 DEF Chain
        <4> QED
          BY <4>2, <1>2 DEF Before
      <3> QED
        BY <3>1, <3>2
    <2>2. Pos(k) = End(k)
      BY UnreadInside, Records DEF Pos
    <2> QED
      BY <2>1, <2>2, <1>2, UnreadInside, OffsetsInFile DEF Upper
  <1>4. Unread' = Unread
    BY DEF Unread
  <1>5. /\ \A k \in Unread : Pos(k)' = Pos(k) /\ End(k)' = End(k) /\ (log[k].off)' = log[k].off
        /\ Pos(taken)' = HeaderLen
    BY UnreadInside, <1>0 DEF Pos, End, After
  <1>6. \A k \in Unread : Upper(k)'
    BY <1>5, UnreadInside DEF Upper
  <1>7. Chain'
    <2>1. /\ taken' <= Len(log)' /\ (taken' = Len(log)' <=> readOff' = writeOff')
          /\ Pos(Len(log))' = writeOff'
      <3>1. n \in Unread /\ Pos(n) = writeOff
        BY <1>0 DEF Unread, Chain
      <3>2. writeOff # HeaderLen
        BY <3>1, PlacesDiffer, OffsetsInFile, Constants
      <3>3. Pos(n)' = writeOff
        BY <3>1, <1>5
      <3> QED
        BY <1>0, <3>2, <3>3
    <2>2. ASSUME NEW k \in Unread'
          PROVE  Written(log[k].off, log[k].len, k)'
      <3>1. Written(log[k].off, log[k].len, k)
        BY <1>4 DEF Chain
      <3> QED
        BY <3>1 DEF Written, LenAt, After
    <2>3. ASSUME NEW k \in Unread'
          PROVE  Placed(k)'
      <3>1. k \in Unread /\ Placed(k) /\ ~Upper(k) /\ Upper(k)' /\ End(k) <= writeOff
        BY <1>3, <1>4, <1>6 DEF Chain
      <3>2. log[k].off = Pos(k - 1)'
        <4>1. CASE k = taken + 1
          <5>1. k - 1 = taken
            BY <4>1, <1>0
          <5> QED
            BY <4>1, <5>1, <1>1, <1>5
        <4>2. CASE k # taken + 1
          <5>1. k - 1 \in Unread
            BY <4>2, <3>1, <1>0 DEF Unread
          <5>2. readOff > Pos(k - 1) /\ Pos(k - 1)' = Pos(k - 1) /\ Pos(k - 1) \in Int
            <6>1. k - 1 \in taken .. n
              BY <5>1, <1>0 DEF Unread
            <6> QED
              BY <5>1, <6>1, <1>3, <1>5, Positions
          <5>3. ~(Pos(k - 1) >= readOff)
            BY <5>2, OffsetsInFile
          <5> QED
            BY <3>1, <5>2, <5>3 DEF Placed
        <4> QED
          BY <4>1, <4>2
      <3>3. End(k) < BufLen - StampLen /\ End(k)' = End(k) /\ (log[k].off)' = log[k].off
        BY <3>1, <1>5 DEF Placed
      <3> QED
        BY <3>1, <3>2, <3>3 DEF Placed
    <2>4. ASSUME NEW j \in Unread', NEW k \in Unread', j < k
          PROVE  Before(j, k)'
      <3>1. /\ j \in Unread /\ k \in Unread /\ Before(j, k)
            /\ ~Upper(j) /\ ~Upper(k) /\ Upper(j)' /\ Upper(k)'
        BY <1>3, <1>4, <1>6, <2>4 DEF Chain
      <3>2. End(j) <= log[k].off /\ End(j)' = End(j) /\ (log[k].off)' = log[k].off
        BY <3>1, <1>5 DEF Before
      <3> QED
        BY <3>1, <3>2 DEF Before
    <2> QED
      BY <2>1, <2>2, <2>3, <2>4 DEF Chain
  <1>8. Storing'
    <2>1. UNCHANGED <<writer, mem, writeOff, log>>
      OBVIOUS
    <2>2. ~AtStart
      BY <1>2, OffsetsInFile DEF AtStart
    <2>3. Here => Here'
      BY <2>1, <1>2, OffsetsInFile, Constants DEF Here, writer
    <2> QED
      BY <2>1, <2>2, <2>3 DEF Storing, IsFlag, LenAt, After, writer
  <1> QED
    BY <1>1, <1>7, <1>8

(* Steps of the reader that leave the mapping and the history alone.       *)
LEMMA SharedSame ==
  ASSUME Chain, Storing, UNCHANGED <<shared, writer, log, taken>>
  PROVE  Chain' /\ Storing'
  BY DEF Chain, Storing, shared, writer, Pos, End, After, Unread, Placed, Written,
         LenAt, Upper, IsFlag, Before, Here, AtStart

-----------------------------------------------------------------------------
(* Steps of the writer.                                                    *)

(* A store to cells that no reader may walk changes no record.             *)
LEMMA StoreKeepsRecords ==
  ASSUME TypeOK, Chain,
         UNCHANGED <<readOff, writeOff, log, taken>>,
         \A b \in UnreadCells : mem'[b] = mem[b]
  PROVE  Chain'
  <1>1. /\ Unread' = Unread /\ \A k : Pos(k)' = Pos(k) /\ End(k)' = End(k)
        /\ \A k : Upper(k)' <=> Upper(k)
        /\ \A j, k : Before(j, k)' <=> Before(j, k)
    BY DEF Unread, Pos, End, After, Upper, Before
  <1>2. ASSUME NEW k \in Unread
        PROVE  Placed(k)'
    <2>1. Placed(k)
      BY DEF Chain
    <2>2. ASSUME readOff > writeOff, Pos(k - 1) >= readOff, IsFlag(Pos(k - 1))
          PROVE  IsFlag(Pos(k - 1))'
      <3>1. k - 1 \in taken .. Len(log)
        BY UnreadInside, Records
      <3>2. Pos(k - 1) \in Int /\ Pos(k - 1) < BufLen
        BY <3>1, Positions, Constants DEF Offsets
      <3>3. Pos(k - 1) \in UnreadCells
        BY <2>2, <3>2, OffsetsInFile, Constants DEF UnreadCells
      <3> QED
        BY <3>3, <2>2, <1>1 DEF IsFlag
    <2> QED
      BY <1>1, <2>1, <2>2 DEF Placed
  <1>3. ASSUME NEW k \in Unread
        PROVE  Written(log[k].off, log[k].len, k)'
    <2>1. Written(log[k].off, log[k].len, k)
      BY DEF Chain
    <2>2. /\ log[k].off \in Int /\ log[k].len \in Nat
          /\ End(k) = log[k].off + StoreHeader + log[k].len
      BY UnreadInside, Records
    <2>3. \A b \in log[k].off .. End(k) - 1 : mem'[b] = mem[b]
      BY WrittenInside
    <2>4. \A b \in 0 .. StampLen - 1 : mem'[log[k].off + b] = 1
      <3> TAKE b \in 0 .. StampLen - 1
      <3>1. log[k].off + b \in log[k].off .. End(k) - 1
        BY <2>2, Constants
      <3> QED
        BY <3>1, <2>1, <2>3 DEF Written
    <2>5. LenAt(log[k].off)' = log[k].len
      <3>1. log[k].off + StampLen \in log[k].off .. End(k) - 1
        BY <2>2, Constants
      <3> QED
        BY <3>1, <2>1, <2>3 DEF Written, LenAt
    <2>6. \A b \in log[k].off + StoreHeader .. End(k) - 1 : mem'[b] = k
      <3> TAKE b \in log[k].off + StoreHeader .. End(k) - 1
      <3>1. b \in log[k].off .. End(k) - 1
        BY <2>2, Constants
      <3>2. mem[b] = k
        BY <2>1 DEF Written, End
      <3> QED
        BY <3>1, <3>2, <2>3
    <2> QED
      BY <2>4, <2>5, <2>6 DEF Written, End, After
  <1> QED
    BY <1>1, <1>2, <1>3 DEF Chain

(* Where the cells of a store lie.                                         *)
LEMMA StoreInside ==
  ASSUME TypeOK, Storing, wpc \notin {"idle", "try"}
  PROVE  /\ wlen \in Nat /\ wlen \in Lengths /\ wpos \in Int /\ wnext \in Int
         /\ wnext = wpos + StoreHeader + wlen /\ wnext < BufLen - StampLen
         /\ HeaderLen <= wpos
         /\ (Here /\ wpc # "flag") \/ (AtStart /\ (wpc # "flag" => IsFlag(writeOff)))
  <1>1. /\ wlen \in Nat /\ wlen \in Lengths /\ wpos \in Int /\ wnext \in Int
        /\ wnext = wpos + StoreHeader + wlen /\ wnext < BufLen - StampLen
        /\ (Here /\ wpc # "flag") \/ (AtStart /\ (wpc # "flag" => IsFlag(writeOff)))
    BY Constants DEF Storing, After, TypeOK, Offsets
  <1>2. HeaderLen <= wpos
    BY <1>1, OffsetsInFile, Constants DEF Here, AtStart
  <1> QED
    BY <1>1, <1>2

(* What the cells hold after a store, the cells being in the file.         *)
LEMMA FillCells ==
  ASSUME TypeOK, NEW from \in Int, NEW c \in Nat, NEW v \in Nat,
         HeaderLen <= from, from + c <= BufLen,
         mem' = Fill(from, c, v)
  PROVE  /\ mem' \in [Cells -> Nat]
         /\ \A b \in from .. from + c - 1 : mem'[b] = v
         /\ \A b \in Cells : b < from \/ from + c <= b => mem'[b] = mem[b]
  <1>1. mem \in [Cells -> Nat]
    BY DEF TypeOK
  <1>2. \A b \in from .. from + c - 1 : b \in Cells
    BY Constants DEF Cells
  <1>3. \A b \in Cells : b \in Int
    BY Constants DEF Cells
  <1> QED
    BY <1>1, <1>2, <1>3 DEF Fill

(* The four stores to the mapping, with what each leaves to the next.      *)
LEMMA StoreStep ==
  ASSUME TypeOK, Chain, Storing, StoreFlag \/ StoreStamp \/ StoreLen \/ StoreCopy
  PROVE  Chain' /\ Storing' /\ mem' \in [Cells -> Nat] /\ wpc' \in {"stamp", "len", "copy", "publish"}
  <1>0. wpc \notin {"idle", "try"}
    BY DEF StoreFlag, StoreStamp, StoreLen, StoreCopy
  <1> DEFINE from == CASE wpc = "flag" -> writeOff
                       [] wpc = "stamp" -> wpos
                       [] wpc = "len" -> wpos + StampLen
                       [] wpc = "copy" -> wpos + StoreHeader
             c == CASE wpc = "flag" -> StampLen
                    [] wpc = "stamp" -> StampLen
                    [] wpc = "len" -> LenLen
                    [] wpc = "copy" -> wlen
             v == CASE wpc = "flag" -> 0
                    [] wpc = "stamp" -> 1
                    [] wpc = "len" -> wlen
                    [] wpc = "copy" -> Len(log) + 1
  <1>1. /\ mem' = Fill(from, c, v) /\ wpc \in {"flag", "stamp", "len", "copy"}
        /\ UNCHANGED <<readOff, writeOff, wlen, wpos, wnext, log, taken>>
        /\ wpc = "flag" => wpc' = "stamp"
        /\ wpc = "stamp" => wpc' = "len"
        /\ wpc = "len" => wpc' = "copy"
        /\ wpc = "copy" => wpc' = "publish"
    BY DEF StoreFlag, StoreStamp, StoreLen, StoreCopy, WriteCells, history
  <1>2. /\ from \in Int /\ c \in Nat /\ v \in Nat /\ HeaderLen <= from /\ from + c <= BufLen
        /\ wpc # "flag" => wpos <= from /\ from + c <= wnext
        /\ wpc = "flag" => from = writeOff /\ c = StampLen
    <2>1. CASE wpc = "flag"
      <3>1. from = writeOff /\ c = StampLen /\ v = 0
        BY <2>1
      <3> HIDE DEF from, c, v
      <3> QED
        BY <2>1, <3>1, OffsetsInFile, Constants
    <2>2. CASE wpc = "stamp"
      <3>1. from = wpos /\ c = StampLen /\ v = 1
        BY <2>2
      <3> HIDE DEF from, c, v
      <3> QED
        BY <2>2, <3>1, <1>0, StoreInside, Constants
    <2>3. CASE wpc = "len"
      <3>1. from = wpos + StampLen /\ c = LenLen /\ v = wlen
        BY <2>3
      <3> HIDE DEF from, c, v
      <3> QED
        BY <2>3, <3>1, <1>0, StoreInside, Constants
    <2>4. CASE wpc = "copy"
      <3>1. from = wpos + StoreHeader /\ c = wlen /\ v = Len(log) + 1
        BY <2>4
      <3> HIDE DEF from, c, v
      <3> QED
        BY <2>4, <3>1, <1>0, StoreInside, Records, Constants
    <2> QED
      BY <1>1, <2>1, <2>2, <2>3, <2>4
  <1> HIDE DEF from, c, v
  <1>3. /\ mem' \in [Cells -> Nat]
        /\ \A b \in from .. from + c - 1 : mem'[b] = v
        /\ \A b \in Cells : b < from \/ from + c <= b => mem'[b] = mem[b]
    BY <1>1, <1>2, FillCells
  <1>4. Chain'
    <2>1. \A b \in UnreadCells : b \in Cells /\ (b < from \/ from + c <= b)
      <3> TAKE b \in UnreadCells
      <3>1. CASE Here /\ wpc # "flag"
        BY <3>1, <1>0, <1>2, StoreInside, OffsetsInFile, Constants DEF UnreadCells, Cells, Here
      <3>2. CASE AtStart
        BY <3>2, <1>0, <1>2, StoreInside, OffsetsInFile, Constants DEF UnreadCells, Cells, AtStart
      <3> QED
        BY <3>1, <3>2, <1>0, StoreInside
    <2> QED
      BY <2>1, <1>1, <1>3, StoreKeepsRecords
  <1>5. Here' <=> Here
    BY <1>1 DEF Here
  <1>6. AtStart' <=> AtStart
    BY <1>1 DEF AtStart
  <1>7. AtStart => IsFlag(writeOff)'
    <2> SUFFICES ASSUME AtStart PROVE mem'[writeOff] = 0
      BY <1>1 DEF IsFlag
    <2>1. CASE wpc = "flag"
      <3>1. writeOff \in from .. from + c - 1 /\ v = 0
        BY <2>1, <1>2, OffsetsInFile, Constants DEF v
      <3> QED
        BY <3>1, <1>3
    <2>2. CASE wpc # "flag"
      <3>1. mem[writeOff] = 0
        BY <2>2, <1>0, StoreInside, OffsetsInFile, Constants DEF IsFlag, Here, AtStart
      <3>2. writeOff \in Cells /\ from + c <= writeOff
        BY <2>2, <1>0, <1>2, StoreInside, OffsetsInFile, Constants DEF AtStart, Cells
      <3> QED
        BY <3>1, <3>2, <1>3
    <2> QED
      BY <2>1, <2>2
  <1>8. wpc' \in {"len", "copy", "publish"} => \A b \in 0 .. StampLen - 1 : mem'[wpos + b] = 1
    <2>1. CASE wpc = "stamp"
      <3>1. from = wpos /\ c = StampLen /\ v = 1
        BY <2>1 DEF from, c, v
      <3>2. \A b \in 0 .. StampLen - 1 : wpos + b \in from .. from + c - 1
        BY <3>1, <1>0, StoreInside, Constants
      <3> QED
        BY <3>1, <3>2, <1>3
    <2>2. CASE wpc \in {"len", "copy"}
      <3>1. \A b \in 0 .. StampLen - 1 : mem[wpos + b] = 1
        BY <2>2 DEF Storing
      <3>2. wpos + StampLen <= from
        BY <2>2, <1>0, StoreInside, Constants DEF from
      <3>3. \A b \in 0 .. StampLen - 1 : wpos + b \in Cells /\ wpos + b < from
        BY <3>2, <1>0, <1>2, StoreInside, Constants DEF Cells
      <3> QED
        BY <3>1, <3>3, <1>3
    <2> QED
      BY <2>1, <2>2, <1>1
  <1>9. wpc' \in {"copy", "publish"} => mem'[wpos + StampLen] = wlen
    <2>1. CASE wpc = "len"
      <3>1. from = wpos + StampLen /\ c = LenLen /\ v = wlen
        BY <2>1 DEF from, c, v
      <3>2. wpos + StampLen \in from .. from + c - 1
        BY <3>1, <1>0, StoreInside, Constants
      <3> QED
        BY <3>1, <3>2, <1>3
    <2>2. CASE wpc = "copy"
      <3>1. mem[wpos + StampLen] = wlen
        BY <2>2 DEF Storing, LenAt
      <3>2. wpos + StampLen \in Cells /\ wpos + StampLen < from
        BY <2>2, <1>0, <1>2, StoreInside, Constants DEF Cells, from
      <3> QED
        BY <3>1, <3>2, <1>3
    <2> QED
      BY <2>1, <2>2, <1>1
  <1>10. wpc' = "publish" => \A b \in wpos + StoreHeader .. wnext - 1 : mem'[b] = Len(log) + 1
    <2>1. CASE wpc = "copy"
      <3>1. from = wpos + StoreHeader /\ from + c = wnext /\ v = Len(log) + 1
        BY <2>1, <1>0, StoreInside, Constants DEF from, c, v
      <3>2. \A b \in wpos + StoreHeader .. wnext - 1 : b \in from .. from + c - 1
        BY <3>1, <1>2
      <3> QED
        BY <3>1, <3>2, <1>3
    <2>2. CASE wpc # "copy"
      <3>1. wpc' = "stamp" \/ wpc' = "len" \/ wpc' = "copy"
        BY <2>2, <1>1
      <3> QED
        BY <3>1
    <2> QED
      BY <2>1, <2>2
  <1>11. Storing'
    <2>1. /\ wlen \in Lengths /\ wnext = After(wpos, wlen) /\ wnext < BufLen - StampLen
          /\ Here \/ AtStart
      BY <1>0 DEF Storing
    <2> QED
      BY <2>1, <1>1, <1>5, <1>6, <1>7, <1>8, <1>9, <1>10 DEF Storing, LenAt, After
  <1> QED
    BY <1>1, <1>3, <1>4, <1>11

(* The record becomes readable when the write offset passes it.            *)
LEMMA PublishStep ==
  ASSUME TypeOK, Chain, Storing, Publish
  PROVE  /\ Chain' /\ Storing' /\ writeOff' \in Offsets
         /\ log' \in Seq([off : Offsets, len : Lengths]) /\ Len(log') = Len(log) + 1
         /\ \A k \in 1 .. Len(log) : log'[k] = log[k]
         /\ \A k \in taken .. Len(log) : Pos(k)' = Pos(k)
  <1>n. PICK n \in Nat : n = Len(log)
    BY Records
  <1> DEFINE r == [off |-> wpos, len |-> wlen]
  <1>0. /\ n = Len(log) /\ n \in Nat /\ taken \in Nat /\ taken <= n
        /\ wpc = "publish" /\ wpc' = "idle"
        /\ readOff' = readOff /\ mem' = mem /\ taken' = taken
        /\ writeOff' = wnext /\ log' = Append(log, r)
    BY <1>n, Records DEF Publish, WriterIdle, Chain
  <1>1. /\ wlen \in Nat /\ wlen \in Lengths /\ wpos \in Int /\ wnext \in Int
        /\ wnext = wpos + StoreHeader + wlen /\ wnext < BufLen - StampLen
        /\ HeaderLen <= wpos /\ wpos < wnext
        /\ Here \/ (AtStart /\ IsFlag(writeOff))
    BY <1>0, StoreInside, Constants
  <1>2. wpos \in Offsets /\ wnext \in Offsets /\ r \in [off : Offsets, len : Lengths]
    BY <1>1, Constants DEF Offsets
  <1>3. /\ log' \in Seq([off : Offsets, len : Lengths]) /\ Len(log') = n + 1
        /\ \A k \in 1 .. n : log'[k] = log[k]
        /\ log'[n + 1] = r
    <2> DEFINE R == [off : Offsets, len : Lengths]
    <2>1. log \in Seq(R)
      BY DEF TypeOK
    <2>2. r \in R
      BY <1>2
    <2> HIDE DEF R, r
    <2> QED
      BY <2>1, <2>2, <1>0 DEF R
  <1>4. (log[n + 1].off)' = wpos /\ (log[n + 1].len)' = wlen /\ End(n + 1)' = wnext
    <2>1. (log[n + 1].off)' = wpos /\ (log[n + 1].len)' = wlen
      BY <1>3
    <2> QED
      BY <2>1, <1>1 DEF End, After
  <1>5. \A k \in 1 .. n : End(k)' = End(k) /\ (log[k].off)' = log[k].off
    BY <1>3 DEF End, After
  <1>6. \A k \in taken .. n : Pos(k)' = Pos(k)
    BY <1>0, <1>5 DEF Pos
  <1>7. /\ Pos(n + 1)' = wnext /\ Pos(n) = writeOff /\ Pos(n)' = writeOff /\ (n + 1) - 1 = n
    BY <1>0, <1>4, <1>6 DEF Pos, Chain
  <1>8. \A k \in Unread' : k \in Unread \/ k = n + 1
    BY <1>0, <1>3 DEF Unread
  <1>9. Chain'
    <2>1. /\ taken' <= Len(log)' /\ (taken' = Len(log)' <=> readOff' = writeOff')
          /\ Pos(Len(log))' = writeOff'
      <3>1. readOff # wnext
        BY <1>1, OffsetsInFile DEF Here, AtStart
      <3>2. Len(log)' = n + 1
        BY <1>3
      <3>3. Pos(Len(log))' = writeOff'
        <4>1. Pos(Len(log))' = Pos(n + 1)'
          BY <3>2 DEF Pos, End, After
        <4> QED
          BY <4>1, <1>0, <1>7
      <3> QED
        BY <3>1, <3>2, <3>3, <1>0
    <2>2. ASSUME NEW k \in Unread
          PROVE  Placed(k)' /\ Written(log[k].off, log[k].len, k)'
      <3>1. k \in 1 .. n /\ k - 1 \in taken .. n /\ Placed(k) /\ Written(log[k].off, log[k].len, k)
        BY <1>0, UnreadInside DEF Chain
      <3>2. /\ Pos(k - 1)' = Pos(k - 1) /\ End(k)' = End(k) /\ (log[k].off)' = log[k].off
            /\ Upper(k)' <=> Upper(k)
            /\ IsFlag(Pos(k - 1))' <=> IsFlag(Pos(k - 1))
        BY <3>1, <1>0, <1>5, <1>6 DEF Upper, IsFlag
      <3>3. /\ End(k) \in Int /\ log[k].off \in Int
            /\ readOff <= writeOff => readOff <= log[k].off /\ End(k) <= writeOff
        BY UnreadInside
      <3>4. /\ readOff <= wnext => (Upper(k) => End(k) <= wnext) /\ readOff <= writeOff
            /\ readOff > writeOff => readOff > wnext \/ AtStart
        BY <1>1, <3>3, OffsetsInFile, <3>1 DEF Here, AtStart, Placed
      <3>5. Placed(k)'
        <4>1. CASE Here
          <5>1. readOff > writeOff <=> readOff > wnext
            BY <4>1, <1>1, OffsetsInFile DEF Here
          <5>2. writeOff < wnext
            BY <4>1, <1>1 DEF Here
          <5>3. (readOff <= writeOff => End(k) <= writeOff) => (readOff <= wnext => End(k) <= wnext)
            BY <5>1, <5>2, <3>3, <1>1, OffsetsInFile
          <5>4. End(k) <= writeOff => End(k) <= wnext
            BY <5>2, <3>3, <1>1, OffsetsInFile
          <5> QED
            BY <5>1, <5>3, <5>4, <3>1, <3>2, <1>0 DEF Placed
        <4>2. CASE AtStart
          <5>1. readOff <= writeOff /\ ~(readOff > writeOff) /\ ~(readOff <= wnext)
            BY <4>2, <1>1, OffsetsInFile DEF AtStart
          <5> QED
            BY <5>1, <3>1, <3>2, <1>0 DEF Placed
        <4> QED
          BY <4>1, <4>2, <1>1
      <3>6. Written(log[k].off, log[k].len, k)'
        BY <3>1, <3>2, <1>0, <1>3 DEF Written, LenAt, After
      <3> QED
        BY <3>5, <3>6
    <2>3. Placed(n + 1)'
      <3>1. Upper(n + 1)' <=> readOff <= wpos
        BY <1>0, <1>4 DEF Upper
      <3>2. CASE Here
        <4>1. readOff <= wnext => readOff <= wpos
          BY <3>2, <1>1, OffsetsInFile DEF Here
        <4>2. wnext <= wnext /\ (readOff > wnext \/ readOff <= wnext)
          BY <1>1, OffsetsInFile
        <4>3. wpos = Pos(n)' /\ (Pos((n + 1) - 1))' = Pos(n)'
          BY <3>2, <1>7 DEF Here
        <4> QED
          BY <4>1, <4>2, <4>3, <3>1, <1>0, <1>1, <1>4 DEF Placed
      <3>3. CASE AtStart /\ IsFlag(writeOff)
        <4>1. readOff > wnext /\ wnext <= wnext /\ wpos = HeaderLen /\ writeOff >= readOff
          BY <3>3, <1>1, OffsetsInFile DEF AtStart
        <4>2. (Pos((n + 1) - 1))' = writeOff /\ (IsFlag(Pos((n + 1) - 1)))'
          BY <3>3, <1>0, <1>7 DEF IsFlag
        <4> QED
          BY <4>1, <4>2, <1>0, <1>1, <1>4 DEF Placed
      <3> QED
        BY <3>2, <3>3, <1>1
    <2>4. Written(log[n + 1].off, log[n + 1].len, n + 1)'
      BY <1>0, <1>1, <1>4 DEF Written, LenAt, After, Storing
    <2>5. ASSUME NEW j \in Unread', NEW k \in Unread', j < k
          PROVE  Before(j, k)'
      <3>1. j \in Unread /\ j \in 1 .. n
        BY <2>5, <1>0, <1>8, <1>3 DEF Unread
      <3>2. /\ End(j)' = End(j) /\ (log[j].off)' = log[j].off /\ (Upper(j)' <=> Upper(j))
        BY <3>1, <1>0, <1>5 DEF Upper
      <3>3. CASE k \in Unread
        <4>1. Before(j, k) /\ k \in 1 .. n
          BY <3>1, <3>3, <2>5, <1>0, UnreadInside DEF Chain
        <4>2. (log[k].off)' = log[k].off /\ (Upper(k)' <=> Upper(k))
          BY <4>1, <1>0, <1>5 DEF Upper
        <4> QED
          BY <4>1, <4>2, <3>2 DEF Before
      <3>4. CASE k = n + 1
        <4>1. Upper(k)' <=> readOff <= wpos
          BY <3>4, <1>0, <1>4 DEF Upper
        <4>2. /\ End(j) \in Int /\ log[j].off \in Int
              /\ readOff <= writeOff => Upper(j) /\ End(j) <= writeOff
              /\ readOff > writeOff => Upper(j) \/ End(j) <= writeOff
          BY <3>1, UnreadInside DEF Upper
        <4>3. IF readOff <= wpos THEN Upper(j) /\ End(j) <= wpos
              ELSE Upper(j) \/ End(j) <= wpos
          BY <4>2, <1>1, OffsetsInFile DEF Here, AtStart
        <4> QED
          BY <4>1, <4>3, <3>2, <3>4, <1>4 DEF Before
      <3> QED
        BY <3>3, <3>4, <1>8
    <2> QED
      BY <2>1, <2>2, <2>3, <2>4, <2>5, <1>8 DEF Chain
  <1>10. Storing'
    BY <1>0 DEF Storing
  <1> QED
    BY <1>0, <1>2, <1>3, <1>6, <1>9, <1>10

(* A step that leaves the reader and its records alone.                    *)
LEMMA ReadingSame ==
  ASSUME Reading, PeekIsFaithful, UNCHANGED <<readOff, log, taken, passed, reader>>
  PROVE  Reading' /\ PeekIsFaithful'
  <1>1. \A k : Pos(k)' = Pos(k)
    BY DEF Pos, End, After
  <1>2. Reading'
    BY <1>1 DEF Reading, Marks, reader
  <1>3. PeekIsFaithful'
    BY DEF PeekIsFaithful, reader
  <1> QED
    BY <1>2, <1>3

(* What the reader knows stays true when a record is added.                *)
LEMMA ReadingWhenPublished ==
  ASSUME TypeOK, Chain, Storing, Reading, PeekIsFaithful, Publish
  PROVE  Reading' /\ PeekIsFaithful'
  <1>n. PICK n \in Nat : n = Len(log)
    BY Records
  <1>1. /\ Len(log') = n + 1 /\ taken \in Nat /\ taken <= n /\ passed \in Nat
        /\ \A k \in 1 .. n : log'[k] = log[k]
        /\ \A k \in taken .. n : Pos(k)' = Pos(k)
    BY <1>n, PublishStep, Records DEF TypeOK, Chain
  <1>2. UNCHANGED <<readOff, taken, passed, rpc, rop, roff, rend, rmark, peeked, cnt>>
    BY DEF Publish, reader
  <1>3. \A p, q \in taken .. n : \A m \in Marks(p + 1, q) :
          m \in Marks(p + 1, q)' /\ m \in Marks(p + 1, n + 1)' /\ (log[m].off)' = log[m].off
    <2> SUFFICES ASSUME NEW p \in taken .. n, NEW q \in taken .. n, NEW m \in Marks(p + 1, q)
                 PROVE  m \in Marks(p + 1, q)' /\ m \in Marks(p + 1, n + 1)'
                        /\ (log[m].off)' = log[m].off
      OBVIOUS
    <2>1. m \in p + 1 .. q /\ log[m].len = 0 /\ m \in 1 .. n /\ m \in p + 1 .. n + 1
      BY <1>1 DEF Marks
    <2>2. log'[m] = log[m]
      BY <2>1, <1>1
    <2> QED
      BY <2>1, <2>2 DEF Marks
  <1>4. Reading'
    <2>1. (rpc \in {"check", "record"} => taken < Len(log) /\ roff = readOff)'
      BY <1>n, <1>1, <1>2 DEF Reading
    <2>2. (rpc = "record" => log[taken + 1].off = readOff)'
      <3> SUFFICES ASSUME rpc = "record" PROVE log'[taken + 1].off = readOff
        BY <1>2
      <3>1. log[taken + 1].off = readOff /\ taken < n
        BY <1>n DEF Reading
      <3>2. taken + 1 \in 1 .. n
        BY <3>1, <1>1
      <3> QED
        BY <3>1, <3>2, <1>1
    <2>3. (rpc = "find" =>
             /\ rop = "sessions" /\ passed = 0 /\ peeked = <<>>
             /\ \E p \in taken .. Len(log) :
                  /\ roff = Pos(p)
                  /\ rmark = 0 \/ \E m \in Marks(taken + 1, p) : rmark = log[m].off
                  /\ \E q \in p .. Len(log) : rend = Pos(q))'
      <3> SUFFICES ASSUME rpc = "find"
                   PROVE  (/\ rop = "sessions" /\ passed = 0 /\ peeked = <<>>
                           /\ \E p \in taken .. Len(log) :
                                /\ roff = Pos(p)
                                /\ rmark = 0 \/ \E m \in Marks(taken + 1, p) : rmark = log[m].off
                                /\ \E q \in p .. Len(log) : rend = Pos(q))'
        BY <1>2
      <3>1. rop = "sessions" /\ passed = 0 /\ peeked = <<>>
        BY DEF Reading
      <3>2. PICK p \in taken .. n :
              /\ roff = Pos(p)
              /\ rmark = 0 \/ \E m \in Marks(taken + 1, p) : rmark = log[m].off
              /\ \E q \in p .. n : rend = Pos(q)
        BY <1>n DEF Reading
      <3>3. PICK q \in p .. n : rend = Pos(q)
        BY <3>2
      <3>4. p \in taken .. n + 1 /\ q \in p .. n + 1 /\ q \in taken .. n
        BY <1>1
      <3>5. roff' = Pos(p)' /\ rend' = Pos(q)'
        BY <1>1, <1>2, <3>2, <3>3, <3>4
      <3>6. (rmark = 0 \/ \E m \in Marks(taken + 1, p) : rmark = log[m].off)'
        <4>1. CASE rmark = 0
          BY <4>1, <1>2
        <4>2. CASE \E m \in Marks(taken + 1, p) : rmark = log[m].off
          <5>1. PICK m \in Marks(taken + 1, p) : rmark = log[m].off
            BY <4>2
          <5>2. PICK t \in taken .. n : t = taken
            BY <1>1
          <5>3. m \in Marks(t + 1, p)
            BY <5>1, <5>2
          <5>4. m \in Marks(t + 1, p)' /\ (log[m].off)' = log[m].off
            BY <5>3, <1>3
          <5> QED
            BY <5>1, <5>2, <5>4, <1>2 DEF Marks
        <4> QED
          BY <4>1, <4>2, <3>2
      <3> QED
        BY <3>1, <3>4, <3>5, <3>6, <1>1, <1>2
    <2>4. (rpc \in {"walk", "write", "release"} =>
             taken + passed <= Len(log) /\ roff = Pos(taken + passed) /\ rop \in {"all", "sessions"})'
      <3> SUFFICES ASSUME rpc \in {"walk", "write", "release"}
                   PROVE  (taken + passed <= Len(log) /\ roff = Pos(taken + passed)
                           /\ rop \in {"all", "sessions"})'
        BY <1>2
      <3>1. taken + passed <= n /\ roff = Pos(taken + passed) /\ rop \in {"all", "sessions"}
        BY <1>n DEF Reading
      <3>2. taken + passed \in taken .. n
        BY <3>1, <1>1
      <3>3. Pos(taken + passed)' = Pos(taken + passed)
        <4>1. PICK p \in taken .. n : p = taken + passed
          BY <3>2
        <4>2. Pos(p)' = Pos(p)
          BY <1>1
        <4> QED
          BY <4>1, <4>2, <1>2 DEF Pos, End, After
      <3> QED
        BY <3>1, <3>3, <1>1, <1>2
    <2>5. (rpc = "walk" =>
             \/ rop = "all" /\ \E q \in taken + passed .. Len(log) : rend = Pos(q)
             \/ rop = "sessions" /\ \E m \in Marks(taken + passed + 1, Len(log)) : rend = log[m].off)'
      <3> SUFFICES ASSUME rpc = "walk"
                   PROVE  (\/ rop = "all" /\ \E q \in taken + passed .. Len(log) : rend = Pos(q)
                           \/ /\ rop = "sessions"
                              /\ \E m \in Marks(taken + passed + 1, Len(log)) : rend = log[m].off)'
        BY <1>2
      <3>1. taken + passed \in taken .. n
        BY <1>n, <1>1 DEF Reading
      <3>2. CASE rop = "all" /\ \E q \in taken + passed .. n : rend = Pos(q)
        <4>1. PICK q \in taken + passed .. n : rend = Pos(q)
          BY <3>2
        <4>2. q \in taken .. n /\ q \in taken + passed .. n + 1
          BY <3>1, <1>1
        <4>3. rend' = Pos(q)'
          BY <4>1, <4>2, <1>1, <1>2
        <4> QED
          BY <3>2, <4>2, <4>3, <1>1, <1>2
      <3>3. CASE rop = "sessions" /\ \E m \in Marks(taken + passed + 1, n) : rend = log[m].off
        <4>1. PICK m \in Marks(taken + passed + 1, n) : rend = log[m].off
          BY <3>3
        <4>2. m \in Marks(taken + passed + 1, n + 1)' /\ (log[m].off)' = log[m].off
          <5>1. n \in taken .. n
            BY <1>1
          <5>2. PICK p \in taken .. n : p = taken + passed
            BY <3>1
          <5>3. m \in Marks(p + 1, n)
            BY <4>1, <5>2
          <5>4. m \in Marks(p + 1, n + 1)' /\ (log[m].off)' = log[m].off
            BY <5>1, <5>3, <1>3
          <5> QED
            BY <5>2, <5>4, <1>2 DEF Marks
        <4> QED
          BY <3>3, <4>1, <4>2, <1>1, <1>2 DEF Marks
      <3> QED
        BY <3>2, <3>3, <1>n DEF Reading
    <2>6. (rpc \in {"write", "release"} /\ rop = "sessions" =>
             passed > 0 /\ log[taken + passed].len = 0)'
      <3> SUFFICES ASSUME rpc \in {"write", "release"}, rop = "sessions"
                   PROVE  passed > 0 /\ log'[taken + passed].len = 0
        BY <1>2
      <3>1. passed > 0 /\ log[taken + passed].len = 0 /\ taken + passed <= n
        BY <1>n DEF Reading
      <3>2. taken + passed \in 1 .. n
        BY <3>1, <1>1
      <3> QED
        BY <3>1, <3>2, <1>1
    <2>7. (rpc \notin {"walk", "write", "release"} => passed = 0 /\ peeked = <<>>)'
      BY <1>2 DEF Reading
    <2>8. (rpc = "idle" => rmark = 0)'
      BY <1>2 DEF Reading
    <2> QED
      BY <2>1, <2>2, <2>3, <2>4, <2>5, <2>6, <2>7, <2>8 DEF Reading
  <1>5. PeekIsFaithful'
    <2> SUFFICES ASSUME rpc \in {"walk", "write", "release"}
                 PROVE  PeekIsFaithful'
      BY <1>2 DEF PeekIsFaithful
    <2>1. taken + passed <= n /\ taken + passed \in Nat
      BY <1>n, <1>1 DEF PeekIsFaithful
    <2>2. \A k \in taken + 1 .. taken + passed : log'[k] = log[k]
      BY <2>1, <1>1
    <2>3. (rop = "sessions" /\ rpc # "walk" => log[taken + passed].len = 0)'
      BY <1>4, <1>2 DEF Reading
    <2>4. {k \in taken + 1 .. taken + passed : log'[k].len # 0}
          = {k \in taken + 1 .. taken + passed : log[k].len # 0}
      BY <2>2
    <2> QED
      BY <2>1, <2>3, <2>4, <1>1, <1>2 DEF PeekIsFaithful
  <1> QED
    BY <1>4, <1>5

-----------------------------------------------------------------------------
(* Each step of the writer keeps the invariant.                            *)

LEMMA WriterSteps ==
  ASSUME IInv, Submit \/ Store \/ WriterCrash
  PROVE  IInv'
  <1> USE DEF IInv
  <1>1. CASE Submit
    <2>1. TypeOK'
      BY <1>1, Constants DEF TypeOK, Submit, shared, reader, history
    <2>2. Chain'
      BY <1>1 DEF Chain, Submit, shared, history, Pos, End, After, Unread, Placed, Written,
                  LenAt, Upper, IsFlag, Before
    <2>3. Storing'
      BY <1>1 DEF Submit, Storing
    <2>4. Reading' /\ PeekIsFaithful'
      BY <1>1, ReadingSame DEF Submit, shared, history
    <2> QED
      BY <2>1, <2>2, <2>3, <2>4
  <1>2. CASE StoreHere \/ StoreAtStart
    <2>1. /\ wpc = "try" /\ wlen \in Nat /\ wlen \in Lengths
          /\ UNCHANGED <<shared, wlen, reader, history>>
      BY <1>2, Constants DEF StoreHere, StoreAtStart, Storing
    <2>2. /\ wpos' = writeOff \/ wpos' = HeaderLen
          /\ wpos' \in Offsets /\ wnext' \in Int
          /\ wnext' = After(wpos', wlen) /\ wnext' < BufLen - StampLen /\ wnext' > HeaderLen
          /\ \/ wpc' = "stamp" /\ Here'
             \/ wpc' = "flag" /\ AtStart'
      <3>1. CASE StoreHere
        <4>1. wpos' = writeOff /\ wnext' = After(writeOff, wlen) /\ wpc' = "stamp"
              /\ After(writeOff, wlen) < (IF readOff > writeOff THEN readOff ELSE BufLen - StampLen)
          BY <3>1 DEF StoreHere, FitsHere
        <4>2. wnext' \in Int /\ wnext' > HeaderLen /\ wnext' < BufLen - StampLen
              /\ (readOff > writeOff => wnext' < readOff)
          BY <4>1, <2>1, OffsetsInFile, Constants DEF After
        <4>3. Here' /\ wpos' \in Offsets
          BY <4>1, <4>2, <2>1 DEF Here, shared, TypeOK
        <4> QED
          BY <4>1, <4>2, <4>3
      <3>2. CASE StoreAtStart
        <4>1. wpos' = HeaderLen /\ wnext' = After(HeaderLen, wlen) /\ wpc' = "flag"
              /\ readOff <= writeOff /\ After(HeaderLen, wlen) < readOff
          BY <3>2 DEF StoreAtStart, FitsAtStart
        <4>2. wnext' \in Int /\ wnext' > HeaderLen /\ wnext' < BufLen - StampLen
          BY <4>1, <2>1, OffsetsInFile, Constants DEF After
        <4>3. AtStart' /\ wpos' \in Offsets
          BY <4>1, <2>1, Constants DEF AtStart, shared, Offsets
        <4> QED
          BY <4>1, <4>2, <4>3
      <3> QED
        BY <3>1, <3>2, <1>2
    <2>3. wnext' \in Offsets
      BY <2>2, Constants DEF Offsets
    <2>4. TypeOK'
      BY <2>1, <2>2, <2>3 DEF TypeOK, shared, reader, history
    <2>5. Chain'
      BY <2>1 DEF Chain, shared, history, Pos, End, After, Unread, Placed, Written,
                  LenAt, Upper, IsFlag, Before
    <2>6. Storing'
      <3>1. wnext' = After(wpos', wlen') /\ wlen' \in Lengths
        BY <2>1, <2>2
      <3>2. CASE wpc' = "stamp" /\ Here'
        BY <3>1, <3>2, <2>2 DEF Storing, After
      <3>3. CASE wpc' = "flag" /\ AtStart'
        BY <3>1, <3>3, <2>2 DEF Storing, After
      <3> QED
        BY <3>2, <3>3, <2>2
    <2>7. Reading' /\ PeekIsFaithful'
      BY <2>1, ReadingSame DEF shared, history
    <2> QED
      BY <2>4, <2>5, <2>6, <2>7
  <1>3. CASE StoreFlag \/ StoreStamp \/ StoreLen \/ StoreCopy
    <2>1. Chain' /\ Storing' /\ mem' \in [Cells -> Nat] /\ wpc' \in {"stamp", "len", "copy", "publish"}
      BY <1>3, StoreStep
    <2>2. UNCHANGED <<readOff, writeOff, wlen, wpos, wnext, reader, history>>
      BY <1>3 DEF StoreFlag, StoreStamp, StoreLen, StoreCopy, WriteCells
    <2>3. TypeOK'
      BY <2>1, <2>2 DEF TypeOK, reader, history
    <2>4. Reading' /\ PeekIsFaithful'
      BY <2>2, ReadingSame DEF history
    <2> QED
      BY <2>1, <2>3, <2>4
  <1>4. CASE Publish
    <2>1. /\ Chain' /\ Storing' /\ writeOff' \in Offsets
          /\ log' \in Seq([off : Offsets, len : Lengths])
      BY <1>4, PublishStep
    <2>2. TypeOK'
      BY <1>4, <2>1 DEF TypeOK, Publish, WriterIdle, reader
    <2>3. Reading' /\ PeekIsFaithful'
      BY <1>4, ReadingWhenPublished
    <2> QED
      BY <2>1, <2>2, <2>3
  <1>5. CASE WriterCrash
    <2>1. TypeOK'
      BY <1>5, CircleQueueAssumption DEF TypeOK, WriterCrash, WriterIdle, shared, reader
    <2>2. Chain'
      BY <1>5 DEF Chain, WriterCrash, shared, Pos, End, After, Unread, Placed, Written,
                  LenAt, Upper, IsFlag, Before
    <2>3. Storing'
      BY <1>5 DEF WriterCrash, WriterIdle, Storing
    <2>4. Reading' /\ PeekIsFaithful'
      BY <1>5, ReadingSame DEF WriterCrash, shared
    <2> QED
      BY <2>1, <2>2, <2>3, <2>4
  <1> QED
    BY <1>1, <1>2, <1>3, <1>4, <1>5 DEF Store

-----------------------------------------------------------------------------
(* Each step of the reader keeps the invariant.                            *)

(* A reader that gives up, is done, or crashes.                            *)
LEMMA ReaderStops ==
  ASSUME ReaderIdle
  PROVE  Reading' /\ PeekIsFaithful'
  BY DEF ReaderIdle, Reading, PeekIsFaithful

(* Where a walk from place p looks next.                                   *)
LEMMA WalkAt ==
  ASSUME TypeOK, Chain, NEW p \in taken .. Len(log), roff = Pos(p)
  PROVE  /\ \A q \in p .. Len(log) : rend = Pos(q) =>
              /\ WalkEnds <=> p = q
              /\ p # q => p < Len(log) /\ p + 1 <= q /\ Turned(roff) = log[p + 1].off
         /\ \A m \in Marks(p + 1, Len(log)) : rend = log[m].off =>
              /\ p < Len(log) /\ Turned(roff) = log[p + 1].off
              /\ WalkEnds <=> m = p + 1
              /\ m # p + 1 => m \in Marks(p + 2, Len(log))
  <1>n. PICK n \in Nat : n = Len(log)
    BY Records
  <1>0. p \in Nat /\ taken \in Nat /\ taken <= p /\ p <= n
    BY <1>n, Records
  <1>1. ASSUME NEW q \in p .. Len(log), rend = Pos(q)
        PROVE  /\ WalkEnds <=> p = q
               /\ p # q => p < Len(log) /\ p + 1 <= q /\ Turned(roff) = log[p + 1].off
    <2>1. CASE p = q
      BY <2>1, <1>1 DEF WalkEnds, Turned
    <2>2. CASE p # q
      <3>1. p < n /\ p + 1 <= q /\ q \in taken .. n /\ q \in Unread /\ p < q
        BY <2>2, <1>n, <1>0, <1>1 DEF Unread
      <3>2. Pos(p) # Pos(q) /\ Pos(q) > HeaderLen /\ Pos(q) \in Int
        BY <3>1, <1>n, PlacesDiffer, Positions
      <3>3. Turned(roff) = Follow(Pos(p))
        BY <3>2, <1>1 DEF Turned, Follow
      <3>4. log[p + 1].off = Follow(Pos(p))
        BY <3>1, <1>n, NextRecord
      <3>5. Turned(roff) # rend
        BY <3>2, <1>1, Constants DEF Turned
      <3> QED
        BY <2>2, <3>1, <3>3, <3>4, <3>5, <1>n DEF WalkEnds
    <2> QED
      BY <2>1, <2>2
  <1>2. ASSUME NEW m \in Marks(p + 1, Len(log)), rend = log[m].off
        PROVE  /\ p < Len(log) /\ Turned(roff) = log[p + 1].off
               /\ WalkEnds <=> m = p + 1
               /\ m # p + 1 => m \in Marks(p + 2, Len(log))
    <2>1. m \in p + 1 .. n /\ log[m].len = 0 /\ p < n /\ m \in Nat
      BY <1>n, <1>0 DEF Marks
    <2>2. m \in Unread /\ p + 1 \in Unread
      BY <2>1, <1>0, <1>n DEF Unread
    <2>3. /\ log[p + 1].off = Follow(Pos(p)) /\ ~IsFlag(log[p + 1].off)
      BY <2>1, <1>n, NextRecord
    <2>4. ~IsFlag(rend)
      <3>1. PICK k \in taken .. Len(log) : m = k + 1
        <4>1. m - 1 \in taken .. Len(log) /\ m = (m - 1) + 1
          BY <2>1, <1>0, <1>n
        <4> QED
          BY <4>1
      <3>2. k < Len(log)
        BY <2>1, <3>1, <1>n
      <3> QED
        BY <3>1, <3>2, <1>2, NextRecord
    <2>5. Turned(roff) = log[p + 1].off
      BY <2>3, <2>4 DEF Turned, Follow
    <2>6. m # p + 1 => log[p + 1].off # log[m].off
      BY <2>1, <2>2, <1>0, PlacesDiffer
    <2>7. WalkEnds <=> m = p + 1
      BY <2>5, <2>6, <1>2 DEF WalkEnds
    <2>8. m # p + 1 => m \in Marks(p + 2, Len(log))
      BY <2>1, <1>0, <1>n DEF Marks
    <2> QED
      BY <2>1, <2>5, <2>7, <2>8, <1>n
  <1> QED
    BY <1>1, <1>2

LEMMA ReadSteps ==
  ASSUME IInv, Read
  PROVE  IInv'
  <1> USE DEF IInv
  <1>0. taken \in Nat /\ Len(log) \in Nat /\ taken \in taken .. Len(log) /\ Pos(taken) = readOff
    BY Records DEF Chain, Pos
  <1>1. CASE ReadStart
    <2>1. TypeOK'
      BY <1>1 DEF TypeOK, ReadStart, StartWalk, shared, writer, history
    <2>2. Chain' /\ Storing'
      BY <1>1, SharedSame DEF ReadStart, StartWalk, history
    <2>3. taken < Len(log) /\ passed = 0 /\ peeked = <<>>
      BY <1>0, <1>1 DEF Chain, ReadStart, StartWalk, Reading
    <2>4. Reading' /\ PeekIsFaithful'
      BY <1>1, <2>3 DEF ReadStart, StartWalk, Reading, PeekIsFaithful, shared, history
    <2> QED
      BY <2>1, <2>2, <2>4
  <1>2. CASE ReadCheck
    <2>1. /\ rpc = "check" /\ roff = readOff /\ taken < Len(log) /\ passed = 0 /\ peeked = <<>>
          /\ UNCHANGED <<writeOff, mem, writer, cnt, log, taken, logged, numbered, crashes>>
      BY <1>2 DEF ReadCheck, Reading
    <2>2. Chain' /\ Storing' /\ log[taken + 1].off = readOff' /\ readOff' \in Offsets
      <3>1. CASE IsFlag(roff)
        <4>1. readOff' = HeaderLen
          BY <3>1, <1>2 DEF ReadCheck
        <4>2. HeaderLen \in Offsets
          BY Constants DEF Offsets
        <4> QED
          BY <3>1, <4>1, <4>2, <2>1, FollowFlag
      <3>2. CASE ~IsFlag(roff)
        <4>1. readOff' = readOff
          BY <3>2, <1>2 DEF ReadCheck
        <4>2. log[taken + 1].off = Follow(Pos(taken))
          BY <1>0, <2>1, NextRecord
        <4>3. log[taken + 1].off = readOff
          BY <4>2, <1>0, <2>1, <3>2 DEF Follow
        <4>4. Chain' /\ Storing'
          BY <4>1, <2>1, SharedSame DEF shared
        <4> QED
          BY <4>1, <4>3, <4>4 DEF TypeOK
      <3> QED
        BY <3>1, <3>2
    <2>3. CASE readOff' = rend
      <3>1. ReaderIdle
        BY <2>3, <1>2 DEF ReadCheck
      <3>2. TypeOK'
        BY <3>1, <2>1, <2>2 DEF TypeOK, ReaderIdle, writer
      <3> QED
        BY <3>1, <3>2, <2>2, ReaderStops
    <2>4. CASE readOff' # rend
      <3>1. rpc' = "record" /\ roff' = readOff' /\ UNCHANGED <<rop, rend, rmark, peeked, passed>>
        BY <2>4, <1>2 DEF ReadCheck
      <3>2. TypeOK'
        BY <3>1, <2>1, <2>2 DEF TypeOK, writer
      <3>3. Reading' /\ PeekIsFaithful'
        BY <3>1, <2>1, <2>2 DEF Reading, PeekIsFaithful
      <3> QED
        BY <3>2, <3>3, <2>2
    <2> QED
      BY <2>3, <2>4
  <1>3. CASE ReadTooEarly \/ ReadUsed
    <2>1. ReaderIdle /\ UNCHANGED <<shared, writer, cnt, log, taken, logged, numbered, crashes>>
      BY <1>3 DEF ReadTooEarly, ReadUsed
    <2>2. TypeOK'
      BY <2>1 DEF TypeOK, ReaderIdle, shared, writer
    <2>3. Chain' /\ Storing'
      BY <2>1, SharedSame
    <2> QED
      BY <2>1, <2>2, <2>3, ReaderStops
  <1>4. CASE ReadTake
    <2>1. /\ rpc = "record" /\ roff = readOff /\ taken < Len(log) /\ log[taken + 1].off = readOff
          /\ passed = 0 /\ peeked = <<>>
          /\ readOff' = After(roff, LenAt(roff)) /\ taken' = taken + 1 /\ rpc' = "use"
          /\ UNCHANGED <<writeOff, mem, writer, rop, roff, rend, rmark, peeked, cnt,
                         log, passed, numbered, crashes>>
      BY <1>4 DEF ReadTake, Reading
    <2>2. /\ taken + 1 \in taken .. Len(log) /\ readOff' = Pos(taken + 1)
          /\ LenAt(roff) = log[taken + 1].len
          /\ log[taken + 1].len # 0 => PayloadAt(roff) = taken + 1
      BY <2>1, <1>0, NextRecord
    <2>3. Chain' /\ Storing'
      BY <2>1, <2>2, Advance
    <2>4. readOff' \in Offsets
      BY <2>2, Positions
    <2>5. logged' \subseteq Nat
      <3>1. logged \subseteq Nat
        BY DEF TypeOK
      <3>2. LenAt(roff) # 0 => PayloadAt(roff) \in Nat
        BY <2>2, <1>0
      <3> QED
        BY <3>1, <3>2, <1>4 DEF ReadTake
    <2>6. TypeOK'
      BY <2>1, <2>4, <2>5, <1>0 DEF TypeOK, writer
    <2>7. Reading' /\ PeekIsFaithful'
      BY <2>1 DEF Reading, PeekIsFaithful
    <2> QED
      BY <2>3, <2>6, <2>7
  <1> QED
    BY <1>1, <1>2, <1>3, <1>4 DEF Read

(* Copying the next record out keeps the copies complete and in order.     *)
LEMMA CopyOut ==
  ASSUME TypeOK, Chain, PeekIsFaithful,
         NEW p \in taken .. Len(log), p = taken + passed, p < Len(log),
         rpc = "walk", rpc' = "walk", passed' = passed + 1,
         UNCHANGED <<log, taken>>,
         peeked' = IF log[p + 1].len # 0
                   THEN Append(peeked, [id |-> p + 1, session |-> cnt])
                   ELSE peeked
  PROVE  PeekIsFaithful' /\ peeked' \in Seq([id : Nat, session : Nat])
  <1> DEFINE R == [id : Nat, session : Nat]
             r == [id |-> p + 1, session |-> cnt]
             S == {k \in taken + 1 .. p : log[k].len # 0}
  <1>0. /\ p \in Nat /\ taken \in Nat /\ passed \in Nat /\ Len(log) \in Nat
        /\ cnt \in Nat /\ peeked \in Seq(R) /\ taken + (passed + 1) = p + 1
    BY Records DEF TypeOK
  <1>1. /\ \A j, k \in DOMAIN peeked : j < k => peeked[j].id < peeked[k].id
        /\ {peeked[k].id : k \in DOMAIN peeked} = S
    BY DEF PeekIsFaithful
  <1>2. /\ \A j, k \in DOMAIN peeked' : j < k => peeked'[j].id < peeked'[k].id
        /\ {peeked'[k].id : k \in DOMAIN peeked'} = {k \in taken + 1 .. p + 1 : log[k].len # 0}
        /\ peeked' \in Seq(R)
    <2>1. CASE log[p + 1].len = 0
      <3>1. {k \in taken + 1 .. p + 1 : log[k].len # 0} = S
        BY <2>1, <1>0
      <3> QED
        BY <2>1, <3>1, <1>0, <1>1
    <2>2. CASE log[p + 1].len # 0
      <3>1. {k \in taken + 1 .. p + 1 : log[k].len # 0} = S \union {p + 1}
        BY <2>2, <1>0
      <3>2. r \in R /\ r.id = p + 1
        BY <1>0
      <3>3. peeked' = Append(peeked, r)
        BY <2>2
      <3>n. PICK n \in Nat : n = Len(peeked)
        BY <1>0
      <3> HIDE DEF r, R, S
      <3>4. /\ peeked' \in Seq(R) /\ DOMAIN peeked = 1 .. n /\ DOMAIN peeked' = 1 .. n + 1
            /\ \A k \in 1 .. n : peeked'[k] = peeked[k]
            /\ peeked'[n + 1] = r
        BY <3>2, <3>3, <3>n, <1>0
      <3>5. \A k \in 1 .. n : peeked'[k].id = peeked[k].id /\ peeked[k].id \in S
        BY <3>4, <1>1
      <3>6. peeked'[n + 1].id = p + 1
        BY <3>2, <3>4
      <3>7. \A s \in S : s \in Nat /\ s < p + 1
        BY <1>0 DEF S
      <3>8. ASSUME NEW j \in DOMAIN peeked', NEW k \in DOMAIN peeked', j < k
            PROVE  peeked'[j].id < peeked'[k].id
        <4>1. j \in 1 .. n
          BY <3>4, <3>8
        <4>2. CASE k \in 1 .. n
          BY <4>1, <4>2, <3>4, <3>5, <3>8, <1>1
        <4>3. CASE k = n + 1
          BY <4>1, <4>3, <3>5, <3>6, <3>7
        <4> QED
          BY <4>2, <4>3, <3>4
      <3>9. {peeked'[k].id : k \in DOMAIN peeked'} = S \union {p + 1}
        <4>1. ASSUME NEW k \in DOMAIN peeked'
              PROVE  peeked'[k].id \in S \union {p + 1}
          <5>1. k \in 1 .. n \/ k = n + 1
            BY <3>4
          <5> QED
            BY <5>1, <3>5, <3>6
        <4>2. ASSUME NEW s \in S
              PROVE  \E k \in DOMAIN peeked' : peeked'[k].id = s
          <5>1. PICK k \in DOMAIN peeked : peeked[k].id = s
            BY <1>1
          <5>2. k \in DOMAIN peeked' /\ peeked'[k].id = s
            BY <5>1, <3>4, <3>5
          <5> QED
            BY <5>2
        <4>3. \E k \in DOMAIN peeked' : peeked'[k].id = p + 1
          BY <3>4, <3>6
        <4> QED
          BY <4>1, <4>2, <4>3
      <3> QED
        BY <3>1, <3>4, <3>8, <3>9
    <2> QED
      BY <2>1, <2>2
  <1>3. PeekIsFaithful'
    <2>1. (taken + passed)' = p + 1 /\ taken' = taken /\ log' = log
      BY <1>0
    <2>2. (taken + passed <= Len(log))'
      BY <2>1, <1>0
    <2>3. {k \in taken' + 1 .. taken' + passed' : log'[k].len # 0}
          = {k \in taken + 1 .. p + 1 : log[k].len # 0}
      BY <2>1
    <2> QED
      BY <2>2, <2>3, <1>2 DEF PeekIsFaithful
  <1> QED
    BY <1>2, <1>3

LEMMA PeekSteps ==
  ASSUME IInv, Peek
  PROVE  IInv'
  <1> USE DEF IInv
  <1>n. PICK n \in Nat : n = Len(log)
    BY Records
  <1>0. /\ taken \in Nat /\ passed \in Nat /\ taken <= n /\ taken \in taken .. n /\ n \in taken .. n
        /\ Pos(taken) = readOff /\ Pos(n) = writeOff
    BY <1>n, Records DEF Chain, Pos, TypeOK
  <1>1. CASE PeekAll
    <2>1. TypeOK'
      BY <1>1 DEF TypeOK, PeekAll, StartWalk, shared, writer, history
    <2>2. /\ rpc = "idle" /\ rpc' = "walk" /\ rop' = "all" /\ roff' = readOff /\ rend' = writeOff
          /\ passed = 0 /\ peeked = <<>>
          /\ UNCHANGED <<readOff, writeOff, mem, writer, log, taken, passed, peeked>>
      BY <1>1 DEF PeekAll, StartWalk, Reading, shared, history
    <2>3. Chain' /\ Storing'
      BY <2>2, SharedSame DEF shared
    <2>4. /\ Pos(taken + passed)' = readOff /\ Pos(n)' = writeOff /\ taken + passed = taken
      BY <2>2, <1>0 DEF Pos, End, After
    <2>5. Reading'
      BY <2>2, <2>4, <1>0, <1>n DEF Reading
    <2>6. PeekIsFaithful'
      BY <2>2, <1>0, <1>n DEF PeekIsFaithful
    <2> QED
      BY <2>1, <2>3, <2>5, <2>6
  <1>2. CASE PeekSessions
    <2>1. TypeOK'
      BY <1>2 DEF TypeOK, PeekSessions, StartWalk, shared, writer, history
    <2>2. /\ rpc = "idle" /\ rpc' = "find" /\ rop' = "sessions" /\ roff' = readOff /\ rend' = writeOff
          /\ passed = 0 /\ peeked = <<>> /\ rmark' = rmark
          /\ UNCHANGED <<readOff, writeOff, mem, writer, log, taken, passed, peeked>>
      BY <1>2 DEF PeekSessions, StartWalk, Reading, shared, history
    <2>3. Chain' /\ Storing'
      BY <2>2, SharedSame DEF shared
    <2>4. Pos(taken)' = readOff /\ Pos(n)' = writeOff
      BY <2>2, <1>0 DEF Pos, End, After
    <2>5. rmark = 0
      BY <2>2 DEF Reading
    <2>6. Reading'
      BY <2>2, <2>4, <2>5, <1>0, <1>n DEF Reading
    <2>7. PeekIsFaithful'
      BY <2>2 DEF PeekIsFaithful
    <2> QED
      BY <2>1, <2>3, <2>6, <2>7
  <1>3. CASE FindStep \/ FindEnd
    <2>1. /\ rpc = "find" /\ rop = "sessions" /\ passed = 0 /\ peeked = <<>>
          /\ UNCHANGED <<readOff, writeOff, mem, writer, log, taken, cnt, logged, numbered, crashes>>
      BY <1>3 DEF FindStep, FindEnd, shared, history, Reading
    <2>2. PICK p \in taken .. n :
            /\ roff = Pos(p)
            /\ rmark = 0 \/ \E m \in Marks(taken + 1, p) : rmark = log[m].off
            /\ \E q \in p .. n : rend = Pos(q)
      BY <2>1, <1>n DEF Reading
    <2>3. PICK q \in p .. n : rend = Pos(q)
      BY <2>2
    <2>4. Chain' /\ Storing'
      BY <2>1, SharedSame DEF shared
    <2>5. \A k : Pos(k)' = Pos(k)
      BY <2>1 DEF Pos, End, After
    <2>6. CASE FindStep
      <3>1. /\ ~WalkEnds /\ rpc' = rpc /\ rop' = rop /\ rend' = rend /\ peeked' = peeked
            /\ passed' = passed
            /\ rmark' = IF LenAt(Turned(roff)) = 0 THEN Turned(roff) ELSE rmark
            /\ roff' = After(Turned(roff), LenAt(Turned(roff)))
        BY <2>6 DEF FindStep, history
      <3>2. p < n /\ p + 1 <= q /\ Turned(roff) = log[p + 1].off
        BY <3>1, <2>2, <2>3, <1>n, WalkAt
      <3>3. /\ LenAt(Turned(roff)) = log[p + 1].len /\ roff' = Pos(p + 1)
            /\ p + 1 \in taken .. n /\ q \in p + 1 .. n /\ p + 1 \in taken + 1 .. p + 1
        BY <3>1, <3>2, <1>0, <1>n, NextRecord
      <3>4. rmark' = 0 \/ \E m \in Marks(taken + 1, p + 1) : rmark' = log[m].off
        <4>1. CASE log[p + 1].len = 0
          BY <4>1, <3>1, <3>2, <3>3 DEF Marks
        <4>2. CASE log[p + 1].len # 0
          <5>1. rmark' = rmark
            BY <4>2, <3>1, <3>3
          <5>2. \A m \in Marks(taken + 1, p) : m \in Marks(taken + 1, p + 1)
            BY <1>0 DEF Marks
          <5> QED
            BY <5>1, <5>2, <2>2
        <4> QED
          BY <4>1, <4>2
      <3>5. /\ (rmark = 0 \/ \E m \in Marks(taken + 1, p + 1) : rmark = log[m].off)'
        BY <3>4, <2>1 DEF Marks
      <3>6. roff' = Pos(p + 1)' /\ rend' = Pos(q)'
        BY <3>1, <3>3, <2>3, <2>5
      <3>7. Reading'
        BY <2>1, <3>1, <3>3, <3>5, <3>6, <1>n DEF Reading
      <3>8. PeekIsFaithful'
        BY <2>1, <3>1 DEF PeekIsFaithful
      <3>9. TypeOK'
        <4>1. roff' \in Offsets
          BY <3>3, <1>n, Positions
        <4>2. rmark' \in Offsets \union {0}
          <5>1. p + 1 \in 1 .. Len(log)
            BY <3>2, <1>0, <1>n
          <5> QED
            BY <5>1, <3>1, <3>2, Records DEF TypeOK
        <4> QED
          BY <4>1, <4>2, <2>1, <3>1 DEF TypeOK, writer
      <3> QED
        BY <2>4, <3>7, <3>8, <3>9
    <2>7. CASE FindEnd /\ rmark = 0
      <3>1. ReaderIdle
        BY <2>7 DEF FindEnd
      <3>2. TypeOK'
        BY <3>1, <2>1 DEF TypeOK, ReaderIdle, writer
      <3> QED
        BY <3>1, <3>2, <2>4, ReaderStops
    <2>8. CASE FindEnd /\ rmark # 0
      <3>1. /\ rpc' = "walk" /\ roff' = readOff /\ rend' = rmark
            /\ UNCHANGED <<rop, rmark, peeked, passed>>
        BY <2>8 DEF FindEnd
      <3>2. PICK m \in Marks(taken + 1, p) : rmark = log[m].off
        BY <2>2, <2>8
      <3>3. m \in Marks(taken + passed + 1, n) /\ taken + passed = taken
        BY <2>1, <1>0 DEF Marks
      <3>4. m \in Marks(taken + passed + 1, n)' /\ rend' = (log[m].off)'
        BY <3>1, <3>2, <3>3, <2>1 DEF Marks
      <3>5. roff' = Pos(taken + passed)' /\ (taken + passed <= n)'
        <4>1. (taken + passed)' = taken
          BY <3>1, <3>3, <2>1
        <4> QED
          BY <4>1, <3>1, <2>1, <1>0 DEF Pos
      <3>6. Reading'
        BY <3>1, <3>4, <3>5, <2>1, <1>n DEF Reading
      <3>7. PeekIsFaithful'
        BY <3>1, <2>1, <1>0, <1>n DEF PeekIsFaithful
      <3>8. TypeOK'
        BY <2>1, <3>1 DEF TypeOK, writer
      <3> QED
        BY <2>4, <3>6, <3>7, <3>8
    <2> QED
      BY <2>6, <2>7, <2>8, <1>3
  <1>4. CASE WalkStep \/ WalkEnd
    <2>1. /\ rpc = "walk" /\ taken + passed <= n /\ roff = Pos(taken + passed)
          /\ \/ rop = "all" /\ \E q \in taken + passed .. n : rend = Pos(q)
             \/ rop = "sessions" /\ \E m \in Marks(taken + passed + 1, n) : rend = log[m].off
          /\ UNCHANGED <<readOff, writeOff, mem, writer, rop, rend, rmark, log, taken,
                         logged, numbered, crashes>>
      BY <1>4, <1>n DEF WalkStep, WalkEnd, shared, Reading
    <2>2. PICK p \in taken .. n : p = taken + passed
      BY <2>1, <1>0
    <2>3. p \in Nat /\ taken + (passed + 1) = p + 1 /\ roff = Pos(p)
      BY <2>1, <2>2, <1>0
    <2>4. Chain' /\ Storing'
      BY <2>1, SharedSame DEF shared
    <2>5. \A k : Pos(k)' = Pos(k)
      BY <2>1 DEF Pos, End, After
    <2>6. CASE WalkStep
      <3> DEFINE off == Turned(roff)
      <3>1. /\ ~WalkEnds /\ rpc' = "walk" /\ passed' = passed + 1
            /\ peeked' = IF LenAt(off) # 0
                         THEN Append(peeked, [id |-> PayloadAt(off), session |-> cnt])
                         ELSE peeked
            /\ cnt' = CountsMarks(LenAt(off)) /\ roff' = After(off, LenAt(off))
        BY <2>6, <2>1 DEF WalkStep
      <3>2. /\ p < n /\ off = log[p + 1].off
            /\ \/ rop = "all" /\ \E q \in p + 1 .. n : rend = Pos(q)
               \/ rop = "sessions" /\ \E m \in Marks(p + 2, n) : rend = log[m].off
        <4>1. CASE rop = "all"
          <5>1. PICK q \in p .. n : rend = Pos(q)
            BY <4>1, <2>1, <2>2
          <5>2. p # q /\ p < n /\ p + 1 <= q /\ off = log[p + 1].off
            BY <5>1, <3>1, <2>3, <1>n, WalkAt
          <5>3. q \in p + 1 .. n
            BY <5>2, <2>3
          <5> QED
            BY <4>1, <5>1, <5>2, <5>3
        <4>2. CASE rop = "sessions"
          <5>1. PICK m \in Marks(p + 1, n) : rend = log[m].off
            BY <4>2, <2>1, <2>2
          <5>2. p < n /\ off = log[p + 1].off /\ m \in Marks(p + 2, n)
            BY <5>1, <3>1, <2>3, <1>n, WalkAt
          <5> QED
            BY <4>2, <5>1, <5>2
        <4> QED
          BY <4>1, <4>2, <2>1
      <3>3. /\ LenAt(off) = log[p + 1].len /\ roff' = Pos(p + 1)
            /\ log[p + 1].len # 0 => PayloadAt(off) = p + 1
            /\ p + 1 \in taken .. n
        BY <3>1, <3>2, <2>3, <1>0, <1>n, NextRecord
      <3>4. PeekIsFaithful' /\ peeked' \in Seq([id : Nat, session : Nat])
        <4>1. peeked' = IF log[p + 1].len # 0
                        THEN Append(peeked, [id |-> p + 1, session |-> cnt])
                        ELSE peeked
          BY <3>1, <3>3
        <4> HIDE DEF off
        <4> QED
          BY <4>1, <2>1, <2>2, <3>1, <3>2, <1>n, CopyOut
      <3>5. (taken + passed)' = p + 1
        BY <3>1, <2>1, <2>3
      <3>6. Reading'
        <4>1. (taken + passed <= Len(log) /\ roff = Pos(taken + passed) /\ rop \in {"all", "sessions"})'
          <5>1. Pos(taken + passed)' = Pos(p + 1)'
            BY <3>5 DEF Pos, End, After
          <5> QED
            BY <5>1, <3>2, <3>3, <3>5, <2>1, <2>3, <2>5, <1>n
        <4>2. (\/ rop = "all" /\ \E q \in taken + passed .. Len(log) : rend = Pos(q)
               \/ rop = "sessions" /\ \E m \in Marks(taken + passed + 1, Len(log)) : rend = log[m].off)'
          <5>1. CASE rop = "all" /\ \E q \in p + 1 .. n : rend = Pos(q)
            <6>1. PICK q \in p + 1 .. n : rend = Pos(q)
              BY <5>1
            <6>2. rend' = Pos(q)'
              BY <6>1, <2>1, <2>5
            <6> QED
              BY <5>1, <6>2, <3>5, <2>1, <1>n
          <5>2. CASE rop = "sessions" /\ \E m \in Marks(p + 2, n) : rend = log[m].off
            <6>1. PICK m \in Marks(p + 2, n) : rend = log[m].off
              BY <5>2
            <6>2. (p + 1) + 1 = p + 2
              BY <2>3
            <6> QED
              BY <5>2, <6>1, <6>2, <3>5, <2>1, <1>n DEF Marks
          <5> QED
            BY <5>1, <5>2, <3>2
        <4> QED
          BY <4>1, <4>2, <3>1 DEF Reading
      <3>7. TypeOK'
        <4>1. roff' \in Offsets
          BY <3>3, <1>n, Positions
        <4>2. cnt' \in Nat
          BY <3>1 DEF CountsMarks, TypeOK
        <4> QED
          BY <4>1, <4>2, <2>1, <3>1, <3>4 DEF TypeOK, writer
      <3> QED
        BY <2>4, <3>4, <3>6, <3>7
    <2>7. CASE WalkEnd
      <3>1. /\ WalkEnds /\ rpc' = "write" /\ peeked' = peeked /\ roff' = NextStart
            /\ cnt' = NextSessionNumber
            /\ passed' = IF rop = "sessions" THEN passed + 1 ELSE passed
        BY <2>7 DEF WalkEnd
      <3>2. PICK z \in taken .. n : (taken + passed)' = z /\ roff' = Pos(z)
              /\ {k \in taken + 1 .. z : log[k].len # 0} = {k \in taken + 1 .. p : log[k].len # 0}
              /\ (rop = "sessions" => passed' > 0 /\ log[z].len = 0)
        <4>1. CASE rop = "all"
          <5>1. PICK q \in p .. n : rend = Pos(q)
            BY <4>1, <2>1, <2>2
          <5>2. p = q
            BY <5>1, <3>1, <2>3, <1>n, WalkAt
          <5> QED
            BY <4>1, <5>1, <5>2, <3>1, <2>1, <2>2 DEF NextStart
        <4>2. CASE rop = "sessions"
          <5>1. PICK m \in Marks(p + 1, n) : rend = log[m].off
            BY <4>2, <2>1, <2>2
          <5>2. p < n /\ m = p + 1
            BY <5>1, <3>1, <2>3, <1>n, WalkAt
          <5>3. p + 1 \in taken .. n /\ p + 1 # taken /\ log[p + 1].len = 0
            BY <5>1, <5>2, <2>3, <1>0 DEF Marks
          <5>4. roff' = Pos(p + 1)
            BY <5>1, <5>2, <5>3, <3>1, <4>2 DEF NextStart, Pos, End
          <5>5. (taken + passed)' = p + 1 /\ passed' > 0
            BY <4>2, <3>1, <2>1, <2>3, <1>0
          <5>6. {k \in taken + 1 .. p + 1 : log[k].len # 0} = {k \in taken + 1 .. p : log[k].len # 0}
            BY <5>3, <2>3, <1>0
          <5> QED
            BY <5>3, <5>4, <5>5, <5>6
        <4> QED
          BY <4>1, <4>2, <2>1
      <3>3. PeekIsFaithful'
        BY <3>1, <3>2, <2>1, <2>2, <1>0, <1>n DEF PeekIsFaithful
      <3>4. Reading'
        <4>1. Pos(taken + passed)' = Pos(z)'
          BY <3>2 DEF Pos, End, After
        <4> QED
          BY <4>1, <3>1, <3>2, <2>1, <2>5, <1>0, <1>n DEF Reading
      <3>5. TypeOK'
        <4>1. roff' \in Offsets /\ cnt' \in Nat /\ passed' \in Nat
          BY <3>1, <3>2, <1>n, Positions DEF TypeOK, NextSessionNumber
        <4> QED
          BY <4>1, <2>1, <3>1 DEF TypeOK, writer
      <3> QED
        BY <2>4, <3>3, <3>4, <3>5
    <2> QED
      BY <2>6, <2>7, <1>4
  <1>5. CASE WriteOut
    <2>1. /\ rpc = "write" /\ rpc' = "release"
          /\ logged' = logged \union {peeked[k].id : k \in DOMAIN peeked}
          /\ numbered' = numbered \union {peeked[k] : k \in DOMAIN peeked}
          /\ UNCHANGED <<readOff, writeOff, mem, writer, rop, roff, rend, rmark, peeked, cnt,
                         log, taken, passed, crashes>>
      BY <1>5 DEF WriteOut, shared
    <2>2. Chain' /\ Storing'
      BY <2>1, SharedSame DEF shared
    <2>3. \A k : Pos(k)' = Pos(k)
      BY <2>1 DEF Pos, End, After
    <2>4. Reading'
      BY <2>1, <2>3 DEF Reading
    <2>5. PeekIsFaithful'
      BY <2>1 DEF PeekIsFaithful
    <2>6. logged' \subseteq Nat /\ numbered' \subseteq [id : Nat, session : Nat]
      <3> DEFINE R == [id : Nat, session : Nat]
      <3>1. /\ peeked \in Seq(R) /\ logged \subseteq Nat /\ numbered \subseteq R
        BY DEF TypeOK
      <3>2. \A k \in DOMAIN peeked : peeked[k] \in R
        <4> HIDE DEF R
        <4> QED
          BY <3>1
      <3>3. \A k \in DOMAIN peeked : peeked[k].id \in Nat
        BY <3>2
      <3> QED
        BY <2>1, <3>1, <3>2, <3>3
    <2>7. TypeOK'
      BY <2>1, <2>6 DEF TypeOK, writer
    <2> QED
      BY <2>2, <2>4, <2>5, <2>7
  <1>6. CASE SetReadOff
    <2>1. /\ rpc = "release" /\ readOff' = roff /\ taken' = taken + passed /\ ReaderIdle
          /\ UNCHANGED <<writeOff, mem, writer, cnt, log, logged, numbered, crashes>>
      BY <1>6 DEF SetReadOff
    <2>2. taken + passed \in taken .. Len(log) /\ roff = Pos(taken + passed)
      BY <2>1, <1>0, <1>n DEF Reading
    <2>3. Chain' /\ Storing'
      BY <2>1, <2>2, Advance
    <2>4. readOff' \in Offsets /\ taken' \in Nat
      BY <2>1, <2>2, <1>0, Positions
    <2>5. TypeOK'
      BY <2>1, <2>4 DEF TypeOK, ReaderIdle, writer
    <2> QED
      BY <2>1, <2>3, <2>5, ReaderStops
  <1> QED
    BY <1>1, <1>2, <1>3, <1>4, <1>5, <1>6 DEF Peek

LEMMA ReaderCrashStep ==
  ASSUME IInv, ReaderCrash
  PROVE  IInv'
  <1> USE DEF IInv
  <1>1. ReaderIdle /\ UNCHANGED <<shared, writer, log, taken>>
    BY DEF ReaderCrash
  <1>2. TypeOK'
    BY CircleQueueAssumption DEF TypeOK, ReaderCrash, ReaderIdle, shared, writer
  <1> QED
    BY <1>1, <1>2, SharedSame, ReaderStops

-----------------------------------------------------------------------------
(* The invariant, and what follows from it.                                *)

LEMMA InitInvariant == Init => IInv
  <1> SUFFICES ASSUME Init PROVE IInv
    OBVIOUS
  <1>1. log = <<>> /\ taken = 0 /\ Len(log) = 0 /\ Unread = {}
    BY DEF Init, Unread
  <1>2. TypeOK
    <2>1. HeaderLen \in Offsets /\ 0 \in 0 .. MaxCrashes
      BY CircleQueueAssumption DEF Offsets
    <2> QED
      BY <2>1 DEF Init, TypeOK
  <1>3. Chain
    BY <1>1 DEF Init, Chain, Pos
  <1>4. Storing
    BY DEF Init, Storing
  <1>5. Reading /\ PeekIsFaithful
    BY DEF Init, Reading, PeekIsFaithful
  <1> QED
    BY <1>2, <1>3, <1>4, <1>5 DEF IInv

LEMMA Stuttering ==
  ASSUME IInv, UNCHANGED vars
  PROVE  IInv'
  <1>1. UNCHANGED <<shared, writer, reader, history>>
    BY DEF vars
  <1>2. UNCHANGED <<log, taken, passed, logged, numbered, crashes, readOff>>
    BY <1>1 DEF history, shared
  <1>3. TypeOK'
    BY <1>1, <1>2 DEF IInv, TypeOK, shared, writer, reader
  <1>4. Chain' /\ Storing'
    BY <1>1, <1>2, SharedSame DEF IInv
  <1>5. Reading' /\ PeekIsFaithful'
    BY <1>1, <1>2, ReadingSame DEF IInv
  <1> QED
    BY <1>3, <1>4, <1>5 DEF IInv

LEMMA InvariantKept == IInv /\ [Next]_vars => IInv'
  <1> SUFFICES ASSUME IInv, [Next]_vars
               PROVE  IInv'
    OBVIOUS
  <1>1. CASE Submit \/ Store \/ WriterCrash
    BY <1>1, WriterSteps
  <1>2. CASE Read
    BY <1>2, ReadSteps
  <1>3. CASE Peek
    BY <1>3, PeekSteps
  <1>4. CASE ReaderCrash
    BY <1>4, ReaderCrashStep
  <1>5. CASE UNCHANGED vars
    BY <1>5, Stuttering
  <1> QED
    BY <1>1, <1>2, <1>3, <1>4, <1>5 DEF Next

(* The chain of records is what a reader needs that starts anywhere.       *)
LEMMA ChainIsIntact ==
  ASSUME IInv
  PROVE  QueueIntact
  <1> USE DEF IInv
  <1>n. PICK n \in Nat : n = Len(log)
    BY Records
  <1>0. taken \in Nat /\ taken <= n /\ (taken = n <=> readOff = writeOff) /\ Pos(n) = writeOff
    BY <1>n, Records DEF Chain
  <1>1. Unread = {} <=> readOff = writeOff
    BY <1>0, <1>n DEF Unread
  <1>2. Unread # {} => End(n) = writeOff
    BY <1>0, <1>n DEF Unread, Pos
  <1>3. ASSUME NEW k \in Unread
        PROVE  /\ log[k].off = Follow(IF k = taken + 1 THEN readOff ELSE End(k - 1))
               /\ \A b \in 0 .. StampLen - 1 : mem[log[k].off + b] = 1
               /\ LenAt(log[k].off) = log[k].len
               /\ \A b \in log[k].off + StoreHeader .. End(k) - 1 : mem[b] = k
    <2>1. Written(log[k].off, log[k].len, k)
      BY DEF Chain
    <2>2. PICK p \in taken .. n : k = p + 1 /\ p < n
      <3>1. k - 1 \in taken .. n /\ k = (k - 1) + 1 /\ k - 1 < n
        BY <1>0, <1>n DEF Unread
      <3> QED
        BY <3>1
    <2>3. log[k].off = Follow(Pos(p))
      BY <2>2, <1>n, NextRecord
    <2>4. Pos(p) = IF k = taken + 1 THEN readOff ELSE End(k - 1)
      BY <2>2, <1>0 DEF Pos
    <2> QED
      BY <2>1, <2>3, <2>4 DEF Written, End
  <1> QED
    BY <1>0, <1>n, <1>1, <1>2, <1>3 DEF QueueIntact

LEMMA Invariance == Spec => []IInv
  BY InitInvariant, InvariantKept, PTL DEF Spec

(***************************************************************************)
(* The offsets stay in the file with room for a stamp behind them, the     *)
(* walks stay between them, and the cells hold what their readers expect.  *)
(***************************************************************************)
THEOREM TypeCorrect == Spec => []TypeOK
  <1>1. IInv => TypeOK
    BY DEF IInv
  <1> QED
    BY <1>1, Invariance, PTL

(***************************************************************************)
(* No step of either process, and no crash between two of its stores,      *)
(* breaks the chain of the records that lie in the file unread.            *)
(***************************************************************************)
THEOREM QueueStaysIntact == Spec => []QueueIntact
  BY ChainIsIntact, Invariance, PTL

(***************************************************************************)
(* The writer never stores to a cell that a reader may still walk, nor     *)
(* behind the end of the file, although neither process takes a lock.      *)
(***************************************************************************)
THEOREM StoresStayClear == Spec => []WriterStaysClear
  <1>1. IInv => WriterStaysClear
    BY StoreIsClear DEF IInv
  <1> QED
    BY <1>1, Invariance, PTL

(***************************************************************************)
(* A walk copies out every record behind the read offset, none twice, and  *)
(* with PeekSessionsFromQueue ends at the mark of a session.               *)
(***************************************************************************)
THEOREM PeeksAreFaithful == Spec => []PeekIsFaithful
  <1>1. IInv => PeekIsFaithful
    BY DEF IInv
  <1> QED
    BY <1>1, Invariance, PTL

-----------------------------------------------------------------------------
(* What a walk finds.                                                      *)

(* One call of Walk.                                                       *)
WalkBody(n, w) ==
  [off \in Cells |->
     IF n = 0 \/ off = writeOff \/ Follow(off) = writeOff THEN <<>>
     ELSE <<FoundAt(Follow(off))>> \o w[NextPlace(off)]]

(* The equation of Walk has a solution, built from the walks of at most k. *)
LEMMA WalkEquation == \A n \in Nat : Walk[n] = WalkBody(n, Walk[n - 1])
  <1> DEFINE Upto(h, k) == h = [n \in 0 .. k |-> WalkBody(n, h[n - 1])]
  <1>1. \A v, w : WalkBody(0, v) = WalkBody(0, w)
    BY DEF WalkBody
  <1>2. \A k \in Nat : \E h : Upto(h, k)
    <2> DEFINE S == {k \in Nat : \E h : Upto(h, k)}
    <2>1. 0 \in S
      <3> DEFINE h == [n \in 0 .. 0 |-> WalkBody(n, <<>>)]
      <3>1. h = [n \in 0 .. 0 |-> WalkBody(n, h[n - 1])]
        <4>1. \A n \in 0 .. 0 : WalkBody(n, <<>>) = WalkBody(n, h[n - 1])
          <5>1. \A n \in 0 .. 0 : n = 0
            OBVIOUS
          <5> QED
            BY <1>1, <5>1
        <4> HIDE DEF h
        <4> QED
          BY <4>1 DEF h
      <3> QED
        BY <3>1
    <2>2. ASSUME NEW k \in Nat, k \in S PROVE k + 1 \in S
      <3>1. PICK h : Upto(h, k)
        BY <2>2
      <3> DEFINE g == [n \in 0 .. k + 1 |-> WalkBody(n, h[n - 1])]
      <3>2. \A n \in 0 .. k : g[n] = h[n]
        BY <3>1
      <3>3. ASSUME NEW n \in 0 .. k + 1 PROVE WalkBody(n, h[n - 1]) = WalkBody(n, g[n - 1])
        <4>1. CASE n = 0
          BY <4>1, <1>1
        <4>2. CASE n # 0
          <5>1. n - 1 \in 0 .. k
            BY <4>2
          <5> QED
            BY <5>1, <3>2
        <4> QED
          BY <4>1, <4>2
      <3>4. g = [n \in 0 .. k + 1 |-> WalkBody(n, g[n - 1])]
        <4> HIDE DEF g
        <4> QED
          BY <3>3 DEF g
      <3>5. \E f : Upto(f, k + 1)
        <4> HIDE DEF g
        <4> QED
          BY <3>4
      <3> QED
        BY <3>5
    <2> HIDE DEF S
    <2>3. \A k \in Nat : k \in S
      BY <2>1, <2>2, Induction
    <2> QED
      BY <2>3 DEF S
  <1>3. ASSUME NEW j \in Nat, NEW k \in Nat, NEW g, NEW h, Upto(g, j), Upto(h, k)
        PROVE  \A n \in Nat : n <= j /\ n <= k => g[n] = h[n]
    <2> DEFINE S == {n \in Nat : n <= j /\ n <= k => g[n] = h[n]}
    <2>1. 0 \in S
      BY <1>1, <1>3
    <2>2. ASSUME NEW n \in Nat, n \in S PROVE n + 1 \in S
      <3> SUFFICES ASSUME n + 1 <= j, n + 1 <= k PROVE g[n + 1] = h[n + 1]
        OBVIOUS
      <3>1. g[n] = h[n] /\ n + 1 \in 0 .. j /\ n + 1 \in 0 .. k /\ (n + 1) - 1 = n
        BY <2>2
      <3> QED
        BY <3>1, <1>3
    <2> HIDE DEF S
    <2>3. \A n \in Nat : n \in S
      BY <2>1, <2>2, Induction
    <2> QED
      BY <2>3 DEF S
  <1> DEFINE H(k) == CHOOSE h : Upto(h, k)
             W == [n \in Nat |-> H(n)[n]]
  <1>4. \A k \in Nat : Upto(H(k), k)
    BY <1>2
  <1>5. ASSUME NEW n \in Nat PROVE W[n] = WalkBody(n, W[n - 1])
    <2>1. W[n] = H(n)[n]
      OBVIOUS
    <2>2. H(n)[n] = WalkBody(n, H(n)[n - 1])
      <3> HIDE DEF H
      <3>1. n \in 0 .. n
        OBVIOUS
      <3> QED
        BY <1>4, <3>1
    <2>3. CASE n = 0
      <3> HIDE DEF H, W
      <3> QED
        BY <2>1, <2>2, <2>3, <1>1
    <2>4. CASE n # 0
      <3>1. n - 1 \in Nat /\ n - 1 <= n /\ n - 1 <= n - 1
        BY <2>4
      <3>2. W[n - 1] = H(n - 1)[n - 1]
        BY <3>1
      <3>3. H(n - 1)[n - 1] = H(n)[n - 1]
        <4>1. Upto(H(n - 1), n - 1) /\ Upto(H(n), n)
          BY <1>4, <3>1
        <4> HIDE DEF Upto, H
        <4> QED
          BY <1>3, <3>1, <4>1
      <3> HIDE DEF H, W
      <3> QED
        BY <2>1, <2>2, <3>2, <3>3
    <2> QED
      BY <2>3, <2>4
  <1>6. W = [n \in Nat |-> WalkBody(n, W[n - 1])]
    <2>1. W = [n \in Nat |-> W[n]]
      OBVIOUS
    <2> HIDE DEF W
    <2> QED
      BY <2>1, <1>5
  <1>7. \E w : w = [n \in Nat |-> WalkBody(n, w[n - 1])]
    BY <1>6
  <1>8. Walk = CHOOSE w : w = [n \in Nat |-> WalkBody(n, w[n - 1])]
    BY DEF Walk, WalkBody
  <1>9. Walk = [n \in Nat |-> WalkBody(n, Walk[n - 1])]
    BY <1>7, <1>8, Zenon
  <1> QED
    BY <1>9

(* The records behind record p, as a walk shows them.                      *)
Shown(k) == [len |-> log[k].len, id |-> IF log[k].len = 0 THEN 0 ELSE k]
Behind(p) == [k \in 1 .. Len(log) - p |-> Shown(p + k)]

(* A record in front of a sequence.                                        *)
LEMMA PrefixOne ==
  ASSUME NEW m \in Nat, NEW s, s = [k \in 1 .. m |-> s[k]], NEW r
  PROVE  <<r>> \o s = [k \in 1 .. m + 1 |-> IF k = 1 THEN r ELSE s[k - 1]]
  <1> DEFINE R == {r} \union {s[k] : k \in 1 .. m}
             t == [k \in 1 .. m + 1 |-> IF k = 1 THEN r ELSE s[k - 1]]
  <1>1. \A k \in 1 .. m : s[k] \in R
    OBVIOUS
  <1>2. s \in [1 .. m -> R]
    <2> HIDE DEF R
    <2> QED
      BY <1>1
  <1>3. s \in Seq(R) /\ Len(s) = m /\ r \in R
    <2>1. r \in R
      OBVIOUS
    <2> HIDE DEF R
    <2> QED
      BY <1>2, <2>1
  <1>4. <<r>> \in Seq(R) /\ Len(<<r>>) = 1 /\ <<r>>[1] = r
    <2>1. r \in R
      BY <1>3
    <2> HIDE DEF R
    <2> QED
      BY <2>1
  <1>5. <<r>> \o s \in Seq(R) /\ Len(<<r>> \o s) = m + 1
    <2> HIDE DEF R
    <2> QED
      BY <1>3, <1>4
  <1>6. \A k \in 1 .. m + 1 : (<<r>> \o s)[k] = t[k]
    <2> TAKE k \in 1 .. m + 1
    <2>1. (<<r>> \o s)[k] = IF k <= 1 THEN <<r>>[k] ELSE s[k - 1]
      <3> HIDE DEF R
      <3> QED
        BY <1>3, <1>4
    <2> QED
      BY <2>1, <1>4
  <1>7. <<r>> \o s = [k \in 1 .. m + 1 |-> (<<r>> \o s)[k]]
    <2> HIDE DEF R
    <2> QED
      BY <1>5
  <1> QED
    BY <1>6, <1>7

(* A walk from a place among the records finds the records behind it, when *)
(* it may pass as many as there are.                                       *)
LEMMA WalkFinds ==
  ASSUME TypeOK, Chain
  PROVE  \A p \in taken .. Len(log) : \A f \in Nat :
           f >= Len(log) - p => Walk[f][Pos(p)] = Behind(p)
  <1>n. PICK n \in Nat : n = Len(log)
    BY Records
  <1>0. taken \in Nat /\ taken <= n
    BY <1>n, Records DEF Chain
  <1> DEFINE S == {j \in Nat : \A p \in taken .. n : \A f \in Nat :
                     n - p = j /\ f >= j => Walk[f][Pos(p)] = Behind(p)}
  <1>1. \A p \in taken .. n : Pos(p) \in Cells
    BY <1>n, Positions, Constants DEF Offsets, Cells
  <1>2. ASSUME NEW f \in Nat, NEW p \in taken .. n
        PROVE  Walk[f][Pos(p)] =
                 IF f = 0 \/ Pos(p) = writeOff \/ Follow(Pos(p)) = writeOff THEN <<>>
                 ELSE <<FoundAt(Follow(Pos(p)))>> \o Walk[f - 1][NextPlace(Pos(p))]
    BY <1>1, WalkEquation DEF WalkBody
  <1>3. 0 \in S
    <2> SUFFICES ASSUME NEW p \in taken .. n, NEW f \in Nat, n - p = 0
                 PROVE  Walk[f][Pos(p)] = Behind(p)
      OBVIOUS
    <2>1. p = n
      BY <1>0
    <2>2. Pos(p) = writeOff
      BY <2>1, <1>n DEF Chain
    <2>3. Behind(p) = <<>>
      <3>1. Behind(p) = [k \in 1 .. 0 |-> Shown(p + k)]
        BY <1>n DEF Behind
      <3>2. 1 .. 0 = {}
        OBVIOUS
      <3> QED
        BY <3>1, <3>2
    <2> QED
      BY <2>2, <2>3, <1>2
  <1>4. ASSUME NEW j \in Nat, j \in S PROVE j + 1 \in S
    <2> SUFFICES ASSUME NEW p \in taken .. n, NEW f \in Nat, n - p = j + 1, f >= j + 1
                 PROVE  Walk[f][Pos(p)] = Behind(p)
      OBVIOUS
    <2>1. /\ p \in Nat /\ p < n /\ p + 1 \in taken .. n /\ n - (p + 1) = j
          /\ f - 1 \in Nat /\ f - 1 >= j /\ f # 0 /\ p # n /\ n \in taken .. n
      BY <1>0
    <2>2. /\ log[p + 1].off = Follow(Pos(p))
          /\ LenAt(log[p + 1].off) = log[p + 1].len
          /\ After(log[p + 1].off, LenAt(log[p + 1].off)) = Pos(p + 1)
          /\ log[p + 1].len # 0 => PayloadAt(log[p + 1].off) = p + 1
      BY <2>1, <1>n, NextRecord
    <2>3. Pos(n) = writeOff /\ n \in Unread
      BY <2>1, <1>n, <1>0 DEF Chain, Unread
    <2>4. Pos(p) # writeOff /\ Pos(n) > HeaderLen
      BY <2>1, <2>3, <1>n, PlacesDiffer
    <2>5. Follow(Pos(p)) # writeOff
      BY <2>3, <2>4, OffsetsInFile, Constants DEF Follow
    <2>6. FoundAt(Follow(Pos(p))) = Shown(p + 1)
      BY <2>2 DEF FoundAt, Shown
    <2>7. NextPlace(Pos(p)) = Pos(p + 1)
      BY <2>2 DEF NextPlace
    <2>8. Walk[f - 1][Pos(p + 1)] = Behind(p + 1)
      BY <1>4, <2>1
    <2>9. Walk[f][Pos(p)] = <<Shown(p + 1)>> \o Behind(p + 1)
      <3>1. Walk[f][Pos(p)] =
              IF f = 0 \/ Pos(p) = writeOff \/ Follow(Pos(p)) = writeOff THEN <<>>
              ELSE <<FoundAt(Follow(Pos(p)))>> \o Walk[f - 1][NextPlace(Pos(p))]
        BY <1>2
      <3>2. Walk[f][Pos(p)] = <<FoundAt(Follow(Pos(p)))>> \o Walk[f - 1][NextPlace(Pos(p))]
        BY <3>1, <2>1, <2>4, <2>5
      <3> QED
        BY <3>2, <2>6, <2>7, <2>8
    <2>10. Behind(p + 1) = [k \in 1 .. j |-> Shown(p + 1 + k)]
      BY <2>1, <1>n DEF Behind
    <2>11. Behind(p) = [k \in 1 .. j + 1 |-> Shown(p + k)]
      BY <1>n DEF Behind
    <2>12. <<Shown(p + 1)>> \o Behind(p + 1)
           = [k \in 1 .. j + 1 |-> IF k = 1 THEN Shown(p + 1) ELSE Behind(p + 1)[k - 1]]
      <3>1. Behind(p + 1) = [k \in 1 .. j |-> Behind(p + 1)[k]]
        BY <2>10
      <3> QED
        BY <3>1, PrefixOne
    <2>13. ASSUME NEW k \in 1 .. j + 1
           PROVE  (IF k = 1 THEN Shown(p + 1) ELSE Behind(p + 1)[k - 1]) = Shown(p + k)
      <3>1. CASE k = 1
        BY <3>1
      <3>2. CASE k # 1
        <4>1. k - 1 \in 1 .. j /\ (p + 1) + (k - 1) = p + k
          BY <3>2, <2>1
        <4> QED
          BY <3>2, <4>1, <2>10
      <3> QED
        BY <3>1, <3>2
    <2> QED
      BY <2>9, <2>11, <2>12, <2>13
  <1> HIDE DEF S
  <1>5. \A j \in Nat : j \in S
    BY <1>3, <1>4, Induction
  <1>6. ASSUME NEW p \in taken .. n, NEW f \in Nat, f >= n - p
        PROVE  Walk[f][Pos(p)] = Behind(p)
    <2>1. n - p \in Nat
      BY <1>0
    <2> QED
      BY <2>1, <1>5, <1>6 DEF S
  <1> QED
    BY <1>6, <1>n

(* What a reader finds that starts now is what is published and unread.    *)
LEMMA QueuedIsUnread == IInv => Queued = Behind(taken)
  <1> SUFFICES ASSUME TypeOK, Chain PROVE Queued = Behind(taken)
    BY DEF IInv
  <1>1. PICK n \in Nat : n = Len(log)
    BY Records
  <1>2. taken \in Nat /\ taken <= n /\ n + 1 \in Nat
    BY <1>1, Records DEF Chain
  <1>3. taken \in taken .. n /\ n + 1 >= n - taken
    BY <1>2
  <1>4. Walk[n + 1][Pos(taken)] = Behind(taken)
    BY <1>1, <1>2, <1>3, WalkFinds
  <1> QED
    BY <1>1, <1>4 DEF Queued, Pos

(* The same in the next state.                                             *)
LEMMA QueuedIsUnreadNext == IInv' => (Queued = Behind(taken))'
  BY QueuedIsUnread, PTL

(* Records released, and records written out before they are released,     *)
(* have been returned or written out.                                      *)
Kept(to) == \A k \in 1 .. to : log[k].len = 0 \/ k \in logged
Logging ==
  /\ Kept(taken)
  /\ rpc = "release" => Kept(taken + passed)

(* What a step does to the records: one more is published, or some are     *)
(* released.                                                               *)
LEMMA RecordsMove ==
  ASSUME IInv, [Next]_vars
  PROVE  \/ /\ log' = log /\ taken' \in taken .. Len(log)
         \/ /\ taken' = taken /\ wlen \in Lengths
            /\ log' = Append(log, [off |-> wpos, len |-> wlen])
  <1> USE DEF shared, writer, reader, history
  <1>1. taken \in Nat /\ Len(log) \in Nat /\ taken \in taken .. Len(log)
    BY Records DEF IInv, Chain
  <1>2. CASE Publish
    BY <1>2 DEF Publish, IInv, Storing
  <1>3. CASE ReadTake
    <2>1. taken < Len(log) /\ taken' = taken + 1 /\ log' = log
      BY <1>3 DEF ReadTake, IInv, Reading
    <2> QED
      BY <2>1, <1>1
  <1>4. CASE SetReadOff
    <2>1. taken + passed <= Len(log) /\ taken' = taken + passed /\ log' = log
      BY <1>4 DEF SetReadOff, IInv, Reading
    <2>2. passed \in Nat
      BY DEF IInv, TypeOK
    <2> QED
      BY <2>1, <2>2, <1>1
  <1>5. CASE UNCHANGED <<log, taken>>
    BY <1>1, <1>5
  <1> QED
    BY <1>2, <1>3, <1>4, <1>5
    DEF Next, Submit, Store, StoreHere, StoreAtStart, StoreFlag, StoreStamp, StoreLen, StoreCopy,
        WriteCells, WriterCrash, ReaderCrash, Read, ReadStart, ReadCheck, ReadTooEarly, ReadUsed,
        Peek, PeekAll, PeekSessions, StartWalk, FindStep, FindEnd, WalkStep, WalkEnd, WriteOut, vars

(* A record is logged before the read offset moves past it, also when the  *)
(* reader crashes between WriteOut and SetReadOff.                         *)
LEMMA LoggingKept ==
  ASSUME IInv, Logging, [Next]_vars
  PROVE  Logging'
  <1> USE DEF shared, writer, reader, history
  <1>n. PICK n \in Nat : n = Len(log)
    BY Records DEF IInv
  <1>0. /\ taken \in Nat /\ passed \in Nat /\ taken <= n /\ taken \in taken .. n
        /\ rpc \in {"walk", "write", "release"} => taken + passed <= n
    BY <1>n, Records DEF IInv, Chain, TypeOK, Reading
  <1>1. ASSUME NEW to \in 0 .. n, Kept(to),
               logged \subseteq logged', \A k \in 1 .. n : log'[k] = log[k]
        PROVE  \A k \in 1 .. to : log'[k].len = 0 \/ k \in logged'
    BY <1>1 DEF Kept
  <1>2. CASE Publish
    <2>1. \A k \in 1 .. n : log'[k] = log[k]
      <3> DEFINE R == [off : Offsets, len : Lengths]
      <3>1. log \in Seq(R) /\ log' = Append(log, [off |-> wpos, len |-> wlen])
        BY <1>2 DEF Publish, IInv, TypeOK
      <3> HIDE DEF R
      <3> QED
        BY <3>1, <1>n
    <2>2. UNCHANGED <<logged, taken, passed, rpc>>
      BY <1>2 DEF Publish
    <2>3. taken \in 0 .. n /\ (rpc = "release" => taken + passed \in 0 .. n)
      BY <1>0
    <2> QED
      BY <2>1, <2>2, <2>3, <1>1 DEF Logging, Kept
  <1>3. CASE ReadTake
    <2>1. /\ rpc = "record" /\ taken < n /\ log[taken + 1].off = readOff /\ roff = readOff
          /\ taken' = taken + 1 /\ log' = log /\ rpc' = "use"
          /\ logged' = IF LenAt(roff) = 0 THEN logged ELSE logged \union {PayloadAt(roff)}
      BY <1>3, <1>n DEF ReadTake, IInv, Reading
    <2>2. /\ LenAt(roff) = log[taken + 1].len
          /\ log[taken + 1].len # 0 => PayloadAt(roff) = taken + 1
      BY <2>1, <1>n, <1>0, NextRecord DEF IInv
    <2>3. log[taken + 1].len = 0 \/ taken + 1 \in logged'
      BY <2>1, <2>2
    <2>4. \A k \in 1 .. taken : log[k].len = 0 \/ k \in logged'
      BY <2>1 DEF Logging, Kept
    <2>5. \A k \in 1 .. taken + 1 : k \in 1 .. taken \/ k = taken + 1
      BY <1>0
    <2> QED
      BY <2>1, <2>3, <2>4, <2>5 DEF Logging, Kept
  <1>4. CASE WriteOut
    <2>1. /\ rpc = "write" /\ UNCHANGED <<log, taken, passed>>
          /\ logged' = logged \union {peeked[k].id : k \in DOMAIN peeked}
          /\ {peeked[k].id : k \in DOMAIN peeked}
             = {k \in taken + 1 .. taken + passed : log[k].len # 0}
      BY <1>4 DEF WriteOut, IInv, PeekIsFaithful
    <2>2. \A k \in 1 .. taken + passed :
            k \in 1 .. taken \/ k \in taken + 1 .. taken + passed
      BY <1>0
    <2>3. \A k \in 1 .. taken : log[k].len = 0 \/ k \in logged'
      BY <2>1 DEF Logging, Kept
    <2>4. \A k \in taken + 1 .. taken + passed : log[k].len = 0 \/ k \in logged'
      BY <2>1
    <2> QED
      BY <2>1, <2>2, <2>3, <2>4 DEF Logging, Kept
  <1>5. CASE SetReadOff
    <2>1. /\ rpc = "release" /\ taken' = taken + passed /\ rpc' = "idle"
          /\ UNCHANGED <<log, logged>>
      BY <1>5 DEF SetReadOff, ReaderIdle
    <2> QED
      BY <2>1 DEF Logging, Kept
  <1>6. CASE UNCHANGED <<log, logged, taken>> /\ (rpc' = "release" => rpc = "release" /\ passed' = passed)
    BY <1>6 DEF Logging, Kept
  <1> QED
    BY <1>2, <1>3, <1>4, <1>5, <1>6
    DEF Next, Submit, Store, StoreHere, StoreAtStart, StoreFlag, StoreStamp, StoreLen, StoreCopy,
        WriteCells, WriterCrash, ReaderCrash, ReaderIdle, WriterIdle, Read, ReadStart, ReadCheck,
        ReadTooEarly, ReadUsed,
        Peek, PeekAll, PeekSessions, StartWalk, FindStep, FindEnd, WalkStep, WalkEnd, vars

(* What is neither released nor found would be lost.                       *)
LEMMA KeptOrQueued ==
  ASSUME IInv, Logging
  PROVE  NothingLost
  <1>n. PICK n \in Nat : n = Len(log)
    BY Records DEF IInv
  <1>0. taken \in Nat /\ taken <= n
    BY <1>n, Records DEF IInv, Chain
  <1>1. Queued = [k \in 1 .. n - taken |-> Shown(taken + k)]
    BY <1>n, QueuedIsUnread DEF Behind
  <1>2. ASSUME NEW k \in 1 .. n, log[k].len # 0, k > taken
        PROVE  k \in QueuedIds
    <2>1. k - taken \in 1 .. n - taken /\ taken + (k - taken) = k
      BY <1>0, <1>2
    <2>2. Queued[k - taken] = Shown(k) /\ k - taken \in DOMAIN Queued
      BY <2>1, <1>1
    <2>3. Shown(k).id = k
      BY <1>2 DEF Shown
    <2> QED
      BY <2>2, <2>3 DEF QueuedIds
  <1>3. ASSUME NEW k \in 1 .. n, log[k].len # 0, ~(k > taken)
        PROVE  k \in logged
    <2>1. k \in 1 .. taken
      BY <1>0, <1>3
    <2> QED
      BY <2>1, <1>3 DEF Logging, Kept
  <1> QED
    BY <1>n, <1>2, <1>3 DEF NothingLost

(***************************************************************************)
(* No record that was published is lost: it has been returned or written   *)
(* out, or a reader that starts now still finds it, crashes or not.        *)
(***************************************************************************)
THEOREM NoRecordIsLost == Spec => []NothingLost
  <1>1. Init => Logging
    BY DEF Init, Logging, Kept
  <1>2. IInv /\ Logging /\ [Next]_vars => Logging'
    BY LoggingKept
  <1>3. IInv /\ Logging => NothingLost
    BY KeptOrQueued
  <1> QED
    BY <1>1, <1>2, <1>3, Invariance, PTL DEF Spec

(* A record published is put behind those that are unread.                 *)
LEMMA PublishPuts ==
  ASSUME IInv, (Queued = Behind(taken))', taken' = taken, NEW len \in Lengths, NEW off,
         log' = Append(log, [off |-> off, len |-> len])
  PROVE  Fifo!Put
  <1>n. PICK n \in Nat : n = Len(log)
    BY Records DEF IInv
  <1>0. taken \in Nat /\ taken <= n
    BY <1>n, Records DEF IInv, Chain
  <1>1. /\ Len(log') = n + 1 /\ log'[n + 1].len = len
        /\ \A k \in 1 .. n : log'[k] = log[k]
    <2> DEFINE R == [off : Offsets, len : Lengths]
               r == [off |-> off, len |-> len]
    <2>1. log \in Seq(R) /\ log' = Append(log, r) /\ r.len = len
      BY DEF IInv, TypeOK
    <2> HIDE DEF R, r
    <2> QED
      BY <2>1, <1>n
  <1>2. PICK m \in Nat : m = n - taken
    BY <1>0
  <1> DEFINE q == [k \in 1 .. m |-> Shown(taken + k)]
             r == Fifo!Record(len, n + 1)
  <1>3. Queued = q
    BY <1>n, <1>2, QueuedIsUnread DEF Behind
  <1>4. Queued' = [k \in 1 .. m + 1 |-> IF k <= m THEN Shown(taken + k) ELSE r]
    <2>1. Queued' = [k \in 1 .. (n + 1) - taken |->
                       [len |-> log'[taken + k].len,
                        id |-> IF log'[taken + k].len = 0 THEN 0 ELSE taken + k]]
      BY <1>1 DEF Behind, Shown
    <2>2. (n + 1) - taken = m + 1
      BY <1>0, <1>2
    <2>3. ASSUME NEW k \in 1 .. m + 1
          PROVE  [len |-> log'[taken + k].len,
                  id |-> IF log'[taken + k].len = 0 THEN 0 ELSE taken + k]
                 = IF k <= m THEN Shown(taken + k) ELSE r
      <3>1. CASE k <= m
        <4>1. taken + k \in 1 .. n
          BY <3>1, <1>0, <1>2
        <4> QED
          BY <3>1, <4>1, <1>1 DEF Shown
      <3>2. CASE ~(k <= m)
        <4>1. taken + k = n + 1
          BY <3>2, <1>0, <1>2
        <4> QED
          BY <3>2, <4>1, <1>1 DEF Fifo!Record
      <3> QED
        BY <3>1, <3>2
    <2> HIDE DEF r
    <2> QED
      BY <2>1, <2>2, <2>3
  <1>5. Append(q, r) = [k \in 1 .. m + 1 |-> IF k <= m THEN Shown(taken + k) ELSE r]
    <2>1. Len(q) = m
      OBVIOUS
    <2> QED
      BY <2>1
  <1> QED
    BY <1>1, <1>3, <1>4, <1>5, <1>n DEF Fifo!Put

(* A release takes records away from the front, or none.                   *)
LEMMA AdvanceReleases ==
  ASSUME IInv, (Queued = Behind(taken))', log' = log, NEW m \in taken .. Len(log), taken' = m
  PROVE  Fifo!Release \/ UNCHANGED <<Queued, Len(log)>>
  <1>n. PICK n \in Nat : n = Len(log)
    BY Records DEF IInv
  <1>0. taken \in Nat /\ taken <= n /\ m \in Nat /\ taken <= m /\ m <= n
    BY <1>n, Records DEF IInv, Chain
  <1>1. PICK d \in Nat : d = m - taken
    BY <1>0
  <1>2. PICK l \in Nat : l = n - taken
    BY <1>0
  <1>3. d <= l /\ n - m = l - d
    BY <1>0, <1>1, <1>2
  <1>4. Queued = [k \in 1 .. l |-> Shown(taken + k)]
    BY <1>n, <1>2, QueuedIsUnread DEF Behind
  <1>5. Queued' = [k \in 1 .. l - d |-> Shown(m + k)]
    BY <1>n, <1>3 DEF Behind, Shown
  <1>6. CASE d = 0
    <2>1. m = taken /\ l - d = l
      BY <1>6, <1>0, <1>1
    <2> QED
      BY <2>1, <1>4, <1>5
  <1>7. CASE d # 0
    <2>1. Len(Queued) = l /\ d \in 1 .. l
      BY <1>3, <1>4, <1>7
    <2>2. SubSeq(Queued, d + 1, l) = [k \in 1 .. l - d |-> Queued[k + d]]
      <3> DEFINE R == {Queued[k] : k \in 1 .. l}
      <3>1. Queued \in Seq(R)
        <4>1. Queued = [k \in 1 .. l |-> Queued[k]] /\ \A k \in 1 .. l : Queued[k] \in R
          BY <1>4
        <4> HIDE DEF R
        <4> QED
          BY <4>1
      <3> HIDE DEF R
      <3>2. l - (d + 1) + 1 = l - d
        BY <1>3
      <3>3. SubSeq(Queued, d + 1, l) = [k \in 1 .. l - (d + 1) + 1 |-> Queued[k + (d + 1) - 1]]
        BY <2>1, <3>1
      <3>4. \A k \in 1 .. l - d : k + (d + 1) - 1 = k + d
        BY <1>3
      <3> QED
        BY <3>2, <3>3, <3>4
    <2>3. ASSUME NEW k \in 1 .. l - d
          PROVE  Queued[k + d] = Shown(m + k)
      <3>1. k + d \in 1 .. l /\ taken + (k + d) = m + k
        BY <1>0, <1>1, <1>3
      <3> QED
        BY <3>1, <1>4
    <2>4. Queued' = SubSeq(Queued, d + 1, l)
      BY <1>5, <2>2, <2>3
    <2> QED
      BY <2>1, <2>4 DEF Fifo!Release
  <1> QED
    BY <1>6, <1>7

(* Every step puts a record, releases some or is invisible.                *)
LEMMA StepImplementsFifo ==
  ASSUME IInv, (Queued = Behind(taken))', [Next]_vars
  PROVE  [Fifo!Next]_<<Queued, Len(log)>>
  <1>1. CASE log' = log /\ taken' \in taken .. Len(log)
    BY <1>1, AdvanceReleases DEF Fifo!Next
  <1>2. CASE /\ taken' = taken /\ wlen \in Lengths
             /\ log' = Append(log, [off |-> wpos, len |-> wlen])
    BY <1>2, PublishPuts DEF Fifo!Next
  <1> QED
    BY <1>1, <1>2, RecordsMove

(***************************************************************************)
(* The mapped file is a queue: what a reader that starts now would find    *)
(* changes only by records put at its end and taken off its front, under   *)
(* every interleaving of the stores and the walks, and crashes of both.    *)
(***************************************************************************)
THEOREM QueueImplementsFifo == Spec => ImplementsRecordFifo
  <1>1. Init => Fifo!Init
    <2> SUFFICES ASSUME Init PROVE Queued = <<>> /\ Len(log) = 0
      BY DEF Fifo!Init
    <2>1. IInv /\ log = <<>> /\ taken = 0 /\ Len(log) = 0
      BY InitInvariant DEF Init
    <2>2. Behind(taken) = [k \in 1 .. 0 |-> Shown(taken + k)] /\ 1 .. 0 = {}
      BY <2>1 DEF Behind
    <2>3. Behind(taken) = <<>>
      BY <2>2
    <2> QED
      BY <2>1, <2>3, QueuedIsUnread
  <1>2. IInv /\ (Queued = Behind(taken))' /\ [Next]_vars => [Fifo!Next]_<<Queued, Len(log)>>
    BY StepImplementsFifo
  <1> QED
    BY <1>1, <1>2, QueuedIsUnreadNext, Invariance, PTL DEF Spec, ImplementsRecordFifo, Fifo!Spec

-----------------------------------------------------------------------------
(* The numbers the log is written with.                                    *)

(* How far a walk has come: the records before are released or passed.     *)
Passed == taken + passed

(* A number is given to a record that was passed, and a number given in an *)
(* earlier walk is behind the counter.                                     *)
NumbersGiven ==
  /\ \A a \in Numbered :
       a.id \in 1 .. Passed /\ log[a.id].len # 0 /\ a.session <= cnt
  /\ \A a \in numbered : a.session < cnt
  /\ rpc \in {"write", "release"} => \A k \in DOMAIN peeked : peeked[k].session < cnt

(* A session is still open while the counter stands at its number, and     *)
(* with whole sessions only, closed by a mark when the counter has moved.  *)
SessionIsOpen ==
  \A a \in Numbered : a.session = cnt => \A k \in a.id .. Passed : log[k].len # 0
SessionIsClosed ==
  ReaderOps = {"sessions"} =>
    \A a \in Numbered : a.session < cnt => \E k \in a.id .. Passed : log[k].len = 0

NumberInv ==
  /\ NumbersGiven /\ SessionIsOpen /\ SessionIsClosed
  /\ NumbersSeparateSessions /\ SessionHasOneNumber

(* Numbers are pairs of a record and a session.                            *)
LEMMA NumberTypes ==
  ASSUME TypeOK
  PROVE  /\ Passed \in Nat /\ cnt \in Nat
         /\ Numbered \subseteq [id : Nat, session : Nat]
         /\ \A a \in Numbered : a.id \in Nat /\ a.session \in Nat
         /\ peeked \in Seq([id : Nat, session : Nat])
         /\ \A k \in DOMAIN peeked : peeked[k] \in Numbered
  <1> DEFINE R == [id : Nat, session : Nat]
  <1>1. /\ peeked \in Seq(R) /\ numbered \subseteq R /\ Passed \in Nat /\ cnt \in Nat
    BY DEF TypeOK, Passed
  <1>2. Numbered \subseteq R
    <2> HIDE DEF R
    <2>1. \A k \in DOMAIN peeked : peeked[k] \in R
      BY <1>1
    <2> QED
      BY <1>1, <2>1 DEF Numbered
  <1>3. \A k \in DOMAIN peeked : peeked[k] \in Numbered
    BY DEF Numbered
  <1> QED
    BY <1>1, <1>2, <1>3

(* The provers do not type a sum of primed variables without it.           *)
LEMMA Sums == \A i, j \in Nat : i + j \in Nat
  OBVIOUS

(* A step that gives no number, and passes a record only between walks.    *)
LEMMA NumbersKept ==
  ASSUME TypeOK, TypeOK', NumberInv,
         Numbered' \subseteq Numbered, cnt' = cnt,
         \A a \in numbered' : a.session < cnt,
         rpc' \in {"write", "release"} => \A k \in DOMAIN peeked' : peeked'[k].session < cnt,
         Passed <= Passed', \A k \in 1 .. Passed : log'[k] = log[k],
         Passed' = Passed \/ \A a \in Numbered : a.session < cnt
  PROVE  NumberInv'
  <1>0. /\ Passed \in Nat /\ Passed' \in Nat /\ cnt \in Nat
        /\ \A a \in Numbered : a.id \in Nat /\ a.session \in Nat /\ a.id \in 1 .. Passed
    <2>1. Passed' \in Nat
      <3>1. taken' \in Nat /\ passed' \in Nat
        BY DEF TypeOK
      <3> QED
        BY <3>1, Sums DEF Passed
    <2>2. \A a \in Numbered : a.id \in 1 .. Passed
      BY DEF NumberInv, NumbersGiven
    <2> QED
      BY <2>1, <2>2, NumberTypes
  <1>1. NumbersGiven'
    <2>1. ASSUME NEW a \in Numbered'
          PROVE  a.id \in 1 .. Passed' /\ log'[a.id].len # 0 /\ a.session <= cnt'
      <3>1. a \in Numbered /\ a.id \in 1 .. Passed /\ log[a.id].len # 0 /\ a.session <= cnt
        BY DEF NumberInv, NumbersGiven
      <3>2. a.id \in 1 .. Passed'
        BY <3>1, <1>0
      <3>3. log'[a.id] = log[a.id]
        BY <3>1
      <3> QED
        BY <3>1, <3>2, <3>3
    <2> QED
      BY <2>1 DEF NumbersGiven
  <1>2. SessionIsOpen'
    BY <1>0 DEF NumberInv, SessionIsOpen
  <1>3. SessionIsClosed'
    <2> SUFFICES ASSUME ReaderOps = {"sessions"}, NEW a \in Numbered', a.session < cnt
                 PROVE  \E k \in a.id .. Passed' : log'[k].len = 0
      BY DEF SessionIsClosed
    <2>1. PICK k \in a.id .. Passed : log[k].len = 0
      BY DEF NumberInv, SessionIsClosed
    <2> QED
      BY <2>1, <1>0
  <1>4. NumbersSeparateSessions'
    BY <1>0 DEF NumberInv, NumbersSeparateSessions
  <1>5. SessionHasOneNumber'
    <2> SUFFICES ASSUME ReaderOps = {"sessions"}, NEW a \in Numbered', NEW b \in Numbered',
                        a.session # b.session
                 PROVE  \E k \in (a.id .. b.id) \union (b.id .. a.id) : log'[k].len = 0
      BY DEF SessionHasOneNumber
    <2>1. PICK k \in (a.id .. b.id) \union (b.id .. a.id) : log[k].len = 0
      BY DEF NumberInv, SessionHasOneNumber
    <2>2. k \in 1 .. Passed
      BY <2>1, <1>0
    <2> QED
      BY <2>1, <2>2
  <1> QED
    BY <1>1, <1>2, <1>3, <1>4, <1>5 DEF NumberInv

(* A step that leaves the walk where it is.                                *)
LEMMA WalkRests ==
  ASSUME IInv, IInv', NumberInv,
         UNCHANGED <<cnt, numbered, peeked, taken, passed>>,
         rpc' \in {"write", "release"} => rpc' = rpc,
         log' = log \/ \E r : log' = Append(log, r)
  PROVE  NumberInv'
  <1>1. Numbered' = Numbered
    BY DEF Numbered
  <1>2. TypeOK /\ TypeOK' /\ Passed \in Nat /\ Passed' = Passed
    BY NumberTypes DEF IInv, Passed
  <1>3. \A k \in 1 .. Passed : log'[k] = log[k]
    <2>1. CASE log' = log
      BY <2>1
    <2>2. CASE \E r : log' = Append(log, r)
      <3>1. PICK r : log' = Append(log, r)
        BY <2>2
      <3>2. PICK n \in Nat : n = Len(log)
        BY <1>2, Records
      <3>3. Passed <= n
        <4>1. rpc \in {"walk", "write", "release"} => Passed <= n
          BY <3>2 DEF IInv, Reading, Passed
        <4>2. rpc \notin {"walk", "write", "release"} => Passed = taken
          BY <1>2 DEF IInv, Reading, Passed, TypeOK
        <4> QED
          BY <4>1, <4>2, <3>2 DEF IInv, Chain
      <3>4. \A k \in 1 .. n : log'[k] = log[k]
        <4> DEFINE R == [off : Offsets, len : Lengths]
        <4>1. log \in Seq(R)
          BY <1>2 DEF TypeOK
        <4> HIDE DEF R
        <4> QED
          BY <4>1, <3>1, <3>2
      <3> QED
        BY <3>3, <3>4, <1>2, <3>2
    <2> QED
      BY <2>1, <2>2
  <1>4. /\ \A a \in numbered' : a.session < cnt
        /\ rpc' \in {"write", "release"} => \A k \in DOMAIN peeked' : peeked'[k].session < cnt
    BY DEF NumberInv, NumbersGiven
  <1>5. Passed <= Passed'
    BY <1>2
  <1> QED
    BY <1>1, <1>2, <1>3, <1>4, <1>5, NumbersKept

(* A step of the second walk passes the record behind those passed.        *)
LEMMA WalkPasses ==
  ASSUME IInv, WalkStep, NEW p \in taken .. Len(log), p = Passed
  PROVE  /\ p < Len(log) /\ Passed' = p + 1
         /\ peeked' = IF log[p + 1].len # 0
                      THEN Append(peeked, [id |-> p + 1, session |-> cnt])
                      ELSE peeked
         /\ cnt' = IF log[p + 1].len = 0 THEN cnt + 1 ELSE cnt
         /\ UNCHANGED <<log, taken, numbered>> /\ rpc' = "walk"
         /\ rop = "sessions" \/ rop = "all"
  <1> USE DEF IInv
  <1> DEFINE off == Turned(roff)
  <1>1. /\ rpc = "walk" /\ ~WalkEnds /\ roff = Pos(p)
        /\ \/ rop = "all" /\ \E q \in p .. Len(log) : rend = Pos(q)
           \/ rop = "sessions" /\ \E m \in Marks(p + 1, Len(log)) : rend = log[m].off
    BY DEF WalkStep, Reading, Passed
  <1>2. p < Len(log) /\ off = log[p + 1].off
    <2>1. CASE rop = "all" /\ \E q \in p .. Len(log) : rend = Pos(q)
      BY <2>1, <1>1, WalkAt
    <2>2. CASE rop = "sessions" /\ \E m \in Marks(p + 1, Len(log)) : rend = log[m].off
      BY <2>2, <1>1, WalkAt
    <2> QED
      BY <2>1, <2>2, <1>1
  <1>3. LenAt(off) = log[p + 1].len /\ (log[p + 1].len # 0 => PayloadAt(off) = p + 1)
    BY <1>2, NextRecord
  <1>4. /\ peeked' = IF LenAt(off) # 0
                     THEN Append(peeked, [id |-> PayloadAt(off), session |-> cnt])
                     ELSE peeked
        /\ cnt' = CountsMarks(LenAt(off)) /\ passed' = passed + 1 /\ rpc' = "walk"
        /\ UNCHANGED <<log, taken, numbered>>
    BY DEF WalkStep
  <1>5. Passed' = p + 1
    <2>1. taken \in Nat /\ passed \in Nat
      BY DEF TypeOK
    <2>2. taken + (passed + 1) = (taken + passed) + 1
      BY <2>1
    <2> QED
      BY <1>4, <2>2 DEF Passed
  <1> QED
    BY <1>1, <1>2, <1>3, <1>4, <1>5 DEF CountsMarks

(* A mark: the session that stands is over.                                *)
LEMMA MarkNumbers ==
  ASSUME TypeOK, NumberInv, NEW p \in Nat, p = Passed, Passed' = p + 1,
         log[p + 1].len = 0, peeked' = peeked, cnt' = cnt + 1,
         UNCHANGED <<log, taken, numbered>>, rpc' = "walk"
  PROVE  NumberInv'
  <1>1. Numbered' = Numbered
    BY DEF Numbered
  <1>2. /\ cnt \in Nat
        /\ \A a \in Numbered : /\ a.id \in 1 .. p /\ a.id \in Nat /\ a.session \in Nat
                               /\ a.session <= cnt /\ log[a.id].len # 0
    BY NumberTypes DEF NumberInv, NumbersGiven
  <1>3. NumbersGiven'
    <2>1. ASSUME NEW a \in Numbered'
          PROVE  a.id \in 1 .. Passed' /\ log'[a.id].len # 0 /\ a.session <= cnt'
      BY <1>1, <1>2
    <2>2. \A a \in numbered' : a.session < cnt'
      <3>1. \A a \in numbered : a.session < cnt /\ a.session \in Nat
        BY <1>2 DEF NumberInv, NumbersGiven, Numbered
      <3> QED
        BY <3>1, <1>2
    <2> QED
      BY <2>1, <2>2 DEF NumbersGiven
  <1>4. SessionIsOpen'
    BY <1>1, <1>2 DEF SessionIsOpen
  <1>5. SessionIsClosed'
    <2>1. ASSUME NEW a \in Numbered
          PROVE  \E k \in a.id .. p + 1 : log[k].len = 0
      BY <1>2
    <2> QED
      BY <1>1, <2>1 DEF SessionIsClosed
  <1>6. NumbersSeparateSessions'
    BY <1>1 DEF NumberInv, NumbersSeparateSessions
  <1>7. SessionHasOneNumber'
    BY <1>1 DEF NumberInv, SessionHasOneNumber
  <1> QED
    BY <1>3, <1>4, <1>5, <1>6, <1>7 DEF NumberInv

(* A record: it gets the number that stands, like those of its session.    *)
LEMMA RecordNumbers ==
  ASSUME TypeOK, NumberInv, NEW p \in Nat, p = Passed, Passed' = p + 1,
         log[p + 1].len # 0, cnt' = cnt,
         peeked' = Append(peeked, [id |-> p + 1, session |-> cnt]),
         UNCHANGED <<log, taken, numbered>>, rpc' = "walk"
  PROVE  NumberInv'
  <1> DEFINE r == [id |-> p + 1, session |-> cnt]
  <1>1. Numbered' = Numbered \union {r}
    <2> DEFINE R == [id : Nat, session : Nat]
    <2>1. peeked \in Seq(R) /\ r \in R
      BY NumberTypes
    <2> HIDE DEF R, r
    <2>2. PICK n \in Nat : n = Len(peeked)
      BY <2>1
    <2>3. /\ DOMAIN peeked = 1 .. n /\ DOMAIN peeked' = 1 .. n + 1
          /\ \A k \in 1 .. n : peeked'[k] = peeked[k]
          /\ peeked'[n + 1] = r
      BY <2>1, <2>2 DEF r
    <2>4. {peeked'[k] : k \in DOMAIN peeked'} = {peeked[k] : k \in DOMAIN peeked} \union {r}
      BY <2>2, <2>3
    <2> QED
      BY <2>4 DEF Numbered
  <1>2. /\ cnt \in Nat
        /\ \A a \in Numbered : /\ a.id \in 1 .. p /\ a.id \in Nat /\ a.session \in Nat
                               /\ a.session <= cnt /\ log[a.id].len # 0
    BY NumberTypes DEF NumberInv, NumbersGiven
  <1>3. r.id = p + 1 /\ r.session = cnt
    OBVIOUS
  <1> HIDE DEF r
  <1>4. NumbersGiven'
    <2>1. ASSUME NEW a \in Numbered'
          PROVE  a.id \in 1 .. Passed' /\ log'[a.id].len # 0 /\ a.session <= cnt'
      BY <1>1, <1>2, <1>3
    <2>2. \A a \in numbered' : a.session < cnt'
      BY DEF NumberInv, NumbersGiven
    <2> QED
      BY <2>1, <2>2 DEF NumbersGiven
  <1>5. SessionIsOpen'
    <2> SUFFICES ASSUME NEW a \in Numbered', a.session = cnt, NEW k \in a.id .. p + 1
                 PROVE  log[k].len # 0
      BY DEF SessionIsOpen
    <2>1. CASE k = p + 1
      BY <2>1
    <2>2. CASE k # p + 1
      <3>1. a \in Numbered /\ k \in a.id .. p
        BY <2>2, <1>1, <1>2, <1>3
      <3> QED
        BY <3>1 DEF NumberInv, SessionIsOpen
    <2> QED
      BY <2>1, <2>2
  <1>6. SessionIsClosed'
    <2> SUFFICES ASSUME ReaderOps = {"sessions"}, NEW a \in Numbered', a.session < cnt
                 PROVE  \E k \in a.id .. p + 1 : log[k].len = 0
      BY DEF SessionIsClosed
    <2>1. a \in Numbered
      BY <1>1, <1>2, <1>3
    <2>2. PICK k \in a.id .. p : log[k].len = 0
      BY <2>1 DEF NumberInv, SessionIsClosed
    <2> QED
      BY <2>1, <2>2, <1>2
  <1>7. NumbersSeparateSessions'
    <2> SUFFICES ASSUME NEW a \in Numbered', NEW b \in Numbered', a.session = b.session,
                        NEW k \in a.id .. b.id
                 PROVE  log[k].len # 0
      BY DEF NumbersSeparateSessions
    <2>1. CASE a \in Numbered /\ b \in Numbered
      BY <2>1 DEF NumberInv, NumbersSeparateSessions
    <2>2. CASE a = r
      <3>1. k = p + 1
        BY <2>2, <1>1, <1>2, <1>3
      <3> QED
        BY <3>1
    <2>3. CASE a \in Numbered /\ b = r
      <3>1. a.session = cnt /\ b.id = p + 1
        BY <2>3, <1>3
      <3>2. CASE k = p + 1
        BY <3>2
      <3>3. CASE k # p + 1
        <4>1. k \in a.id .. p
          BY <3>1, <3>3, <2>3, <1>2
        <4> QED
          BY <4>1, <3>1, <2>3 DEF NumberInv, SessionIsOpen
      <3> QED
        BY <3>2, <3>3
    <2> QED
      BY <2>1, <2>2, <2>3, <1>1
  <1>8. SessionHasOneNumber'
    <2> SUFFICES ASSUME ReaderOps = {"sessions"}, NEW a \in Numbered', NEW b \in Numbered',
                        a.session # b.session
                 PROVE  \E k \in (a.id .. b.id) \union (b.id .. a.id) : log[k].len = 0
      BY DEF SessionHasOneNumber
    <2>1. ASSUME NEW c \in Numbered, c.session # cnt
          PROVE  \E k \in c.id .. p + 1 : log[k].len = 0
      <3>1. c.session < cnt
        BY <2>1, <1>2
      <3>2. PICK k \in c.id .. p : log[k].len = 0
        BY <3>1 DEF NumberInv, SessionIsClosed
      <3> QED
        BY <3>2, <1>2
    <2>2. CASE a \in Numbered /\ b \in Numbered
      BY <2>2 DEF NumberInv, SessionHasOneNumber
    <2>3. CASE a \in Numbered /\ b = r
      BY <2>1, <2>3, <1>3
    <2>4. CASE a = r /\ b \in Numbered
      BY <2>1, <2>4, <1>3
    <2> QED
      BY <2>2, <2>3, <2>4, <1>1
  <1> QED
    BY <1>4, <1>5, <1>6, <1>7, <1>8 DEF NumberInv

(* The end of a walk: what it copied out is numbered below the counter,    *)
(* and with whole sessions it ends behind a mark.                          *)
LEMMA WalkEndNumbers ==
  ASSUME IInv, NumberInv, WalkEnd
  PROVE  NumberInv'
  <1> USE DEF IInv
  <1>n. PICK p \in taken .. Len(log) : p = Passed
    <2>1. Passed <= Len(log)
      BY DEF WalkEnd, Reading, Passed
    <2> QED
      BY <2>1, Records DEF Passed, TypeOK
  <1>0. p \in Nat /\ taken \in Nat /\ passed \in Nat
    BY <1>n, NumberTypes DEF TypeOK
  <1>1. /\ rpc = "walk" /\ WalkEnds /\ roff = Pos(p)
        /\ rop = "sessions" \/ rop = "all"
        /\ rop = "sessions" => \E m \in Marks(p + 1, Len(log)) : rend = log[m].off
        /\ cnt' = NextSessionNumber /\ rpc' = "write"
        /\ UNCHANGED <<log, taken, numbered, peeked>>
        /\ passed' = IF rop = "sessions" THEN passed + 1 ELSE passed
    BY <1>n DEF WalkEnd, Reading, Passed
  <1>2. Numbered' = Numbered
    BY <1>1 DEF Numbered
  <1>3. /\ Passed' = IF rop = "sessions" THEN p + 1 ELSE p
        /\ rop = "sessions" => log[p + 1].len = 0
    <2>1. CASE rop = "sessions"
      <3>1. PICK m \in Marks(p + 1, Len(log)) : rend = log[m].off
        BY <2>1, <1>1
      <3>2. m = p + 1
        BY <3>1, <1>1, <1>n, WalkAt
      <3>3. taken + (passed + 1) = (taken + passed) + 1
        BY <1>0
      <3> QED
        BY <2>1, <3>1, <3>2, <3>3, <1>1, <1>n DEF Marks, Passed
    <2>2. CASE rop # "sessions"
      BY <2>2, <1>1, <1>n DEF Passed
    <2> QED
      BY <2>1, <2>2
  <1>4. /\ cnt \in Nat
        /\ \A a \in Numbered : /\ a.id \in 1 .. p /\ a.id \in Nat /\ a.session \in Nat
                               /\ a.session <= cnt /\ log[a.id].len # 0
    BY <1>n, NumberTypes DEF NumberInv, NumbersGiven
  <1>5. \A a \in Numbered : a.session < cnt'
    <2>1. CASE peeked = <<>>
      <3>1. Numbered = numbered /\ cnt' = cnt
        BY <2>1, <1>1 DEF Numbered, NextSessionNumber
      <3> QED
        BY <3>1 DEF NumberInv, NumbersGiven
    <2>2. CASE peeked # <<>>
      <3>1. cnt' = cnt + 1
        BY <2>2, <1>1 DEF NextSessionNumber
      <3> QED
        BY <3>1, <1>4
    <2> QED
      BY <2>1, <2>2
  <1>6. cnt' \in Nat /\ cnt <= cnt'
    BY <1>1, <1>4 DEF NextSessionNumber
  <1>7. NumbersGiven'
    <2>1. ASSUME NEW a \in Numbered'
          PROVE  a.id \in 1 .. Passed' /\ log'[a.id].len # 0 /\ a.session <= cnt'
      <3>1. a.id \in 1 .. p + 1 /\ a.id \in 1 .. p
        BY <1>0, <1>2, <1>4
      <3>2. a.session < cnt' /\ a.session \in Nat /\ log[a.id].len # 0
        BY <1>2, <1>4, <1>5
      <3> QED
        BY <3>1, <3>2, <1>1, <1>3, <1>6
    <2>2. \A a \in numbered' : a.session < cnt'
      BY <1>1, <1>5 DEF Numbered
    <2>3. \A k \in DOMAIN peeked' : peeked'[k].session < cnt'
      BY <1>1, <1>5 DEF Numbered
    <2> QED
      BY <2>1, <2>2, <2>3 DEF NumbersGiven
  <1>8. SessionIsOpen'
    BY <1>2, <1>4, <1>5, <1>6 DEF SessionIsOpen
  <1>9. SessionIsClosed'
    <2> SUFFICES ASSUME ReaderOps = {"sessions"}, NEW a \in Numbered
                 PROVE  \E k \in a.id .. Passed' : log'[k].len = 0
      BY <1>2 DEF SessionIsClosed
    <2>1. rop = "sessions"
      BY <1>1 DEF TypeOK
    <2>2. p + 1 \in a.id .. p + 1
      BY <1>0, <1>4
    <2> QED
      BY <2>1, <2>2, <1>1, <1>3
  <1>10. NumbersSeparateSessions' /\ SessionHasOneNumber'
    BY <1>1, <1>2 DEF NumberInv, NumbersSeparateSessions, SessionHasOneNumber
  <1> QED
    BY <1>7, <1>8, <1>9, <1>10 DEF NumberInv

(* WriteOut only moves what was copied to what was written.                *)
LEMMA WriteOutNumbers ==
  ASSUME IInv, IInv', NumberInv, WriteOut
  PROVE  NumberInv'
  <1>1. /\ numbered' = numbered \union {peeked[k] : k \in DOMAIN peeked}
        /\ rpc = "write" /\ UNCHANGED <<peeked, cnt, log, taken, passed>>
    BY DEF WriteOut
  <1>2. Numbered' = Numbered
    BY <1>1 DEF Numbered
  <1>3. Passed \in Nat /\ Passed' = Passed /\ TypeOK /\ TypeOK'
    BY <1>1, NumberTypes DEF Passed, IInv
  <1>4. /\ \A a \in numbered' : a.session < cnt
        /\ \A k \in DOMAIN peeked' : peeked'[k].session < cnt
    BY <1>1 DEF NumberInv, NumbersGiven
  <1>5. Passed <= Passed' /\ \A k \in 1 .. Passed : log'[k] = log[k]
    BY <1>1, <1>3
  <1> QED
    BY <1>1, <1>2, <1>3, <1>4, <1>5, NumbersKept

(* A release counts the records passed as taken, and forgets the copies.   *)
LEMMA SetReadOffNumbers ==
  ASSUME IInv, IInv', NumberInv, SetReadOff
  PROVE  NumberInv'
  <1>1. /\ taken' = taken + passed /\ passed' = 0 /\ peeked' = <<>> /\ rpc' = "idle"
        /\ UNCHANGED <<cnt, log, numbered>>
    BY DEF SetReadOff, ReaderIdle
  <1>2. Numbered' \subseteq Numbered
    BY <1>1 DEF Numbered
  <1>3. Passed \in Nat /\ Passed' = Passed /\ TypeOK /\ TypeOK'
    <2>1. taken \in Nat /\ passed \in Nat
      BY DEF IInv, TypeOK
    <2>2. (taken + passed) + 0 = taken + passed /\ taken + passed \in Nat
      BY <2>1
    <2> QED
      BY <1>1, <2>2 DEF Passed, IInv
  <1>4. \A a \in numbered' : a.session < cnt
    BY <1>1 DEF NumberInv, NumbersGiven
  <1>5. Passed <= Passed' /\ \A k \in 1 .. Passed : log'[k] = log[k]
    BY <1>1, <1>3
  <1> QED
    BY <1>1, <1>2, <1>3, <1>4, <1>5, NumbersKept

(* ReadFromCircleQueue passes a record that gets no number.                *)
LEMMA ReadTakeNumbers ==
  ASSUME IInv, IInv', NumberInv, ReadTake
  PROVE  NumberInv'
  <1>1. /\ taken' = taken + 1 /\ passed' = 0 /\ passed = 0 /\ peeked = <<>> /\ rpc' = "use"
        /\ UNCHANGED <<cnt, log, numbered, peeked>>
    BY DEF ReadTake, IInv, Reading
  <1>2. Numbered' = Numbered /\ Numbered = numbered
    BY <1>1 DEF Numbered
  <1>3. Passed \in Nat /\ Passed' = Passed + 1 /\ TypeOK /\ TypeOK'
    <2>1. taken \in Nat /\ taken + 0 = taken /\ (taken + 1) + 0 = taken + 1
      BY DEF IInv, TypeOK
    <2> QED
      BY <1>1, <2>1 DEF Passed, IInv
  <1>4. \A a \in numbered' : a.session < cnt
    BY <1>1 DEF NumberInv, NumbersGiven
  <1>5. Passed <= Passed' /\ \A k \in 1 .. Passed : log'[k] = log[k]
    BY <1>1, <1>3
  <1>6. Passed' = Passed \/ \A a \in Numbered : a.session < cnt
    BY <1>1, <1>2, <1>4
  <1> QED
    BY <1>1, <1>2, <1>3, <1>4, <1>5, <1>6, NumbersKept

(* A restarted reader counts from 0 and has given no number yet.           *)
LEMMA CrashNumbers ==
  ASSUME ReaderCrash
  PROVE  NumberInv'
  <1>1. Numbered' = {} /\ numbered' = {} /\ peeked' = <<>> /\ rpc' = "idle"
    BY DEF ReaderCrash, ReaderIdle, Numbered
  <1> QED
    BY <1>1 DEF NumberInv, NumbersGiven, SessionIsOpen, SessionIsClosed,
                NumbersSeparateSessions, SessionHasOneNumber

(* Every step keeps the numbering.                                         *)
LEMMA NumbersInvariant == IInv /\ IInv' /\ NumberInv /\ [Next]_vars => NumberInv'
  <1> SUFFICES ASSUME IInv, IInv', NumberInv, [Next]_vars
               PROVE  NumberInv'
    OBVIOUS
  <1> USE DEF shared, writer, reader, history
  <1>1. CASE Submit \/ Store \/ WriterCrash \/ UNCHANGED vars
    <2>1. /\ UNCHANGED <<cnt, numbered, peeked, taken, passed, rpc>>
          /\ log' = log \/ \E r : log' = Append(log, r)
      BY <1>1 DEF Submit, Store, StoreHere, StoreAtStart, StoreFlag, StoreStamp, StoreLen,
                  StoreCopy, WriteCells, Publish, WriterCrash, vars
    <2> QED
      BY <2>1, WalkRests
  <1>2. CASE ReadStart \/ ReadCheck \/ ReadTooEarly \/ ReadUsed \/ PeekAll \/ PeekSessions
             \/ FindStep \/ FindEnd
    <2>1. rpc \notin {"walk", "write", "release"} /\ passed = 0 /\ peeked = <<>>
      BY <1>2 DEF ReadStart, ReadCheck, ReadTooEarly, ReadUsed, PeekAll, PeekSessions, StartWalk,
                  FindStep, FindEnd, IInv, Reading
    <2>2. UNCHANGED <<cnt, numbered, taken, log>> /\ rpc' \notin {"write", "release"}
      BY <1>2 DEF ReadStart, ReadCheck, ReadTooEarly, ReadUsed, PeekAll, PeekSessions, StartWalk,
                  FindStep, FindEnd, ReaderIdle
    <2>3. passed' = 0 /\ peeked' = <<>>
      BY <1>2, <2>1 DEF ReadStart, ReadCheck, ReadTooEarly, ReadUsed, PeekAll, PeekSessions,
                        StartWalk, FindStep, FindEnd, ReaderIdle
    <2> QED
      BY <2>1, <2>2, <2>3, WalkRests
  <1>3. CASE WalkStep
    <2>1. PICK p \in taken .. Len(log) : p = Passed
      <3>1. Passed <= Len(log)
        BY <1>3 DEF WalkStep, IInv, Reading, Passed
      <3> QED
        BY <3>1, Records DEF Passed, IInv, TypeOK
    <2>2. p \in Nat
      BY <2>1, NumberTypes DEF IInv
    <2>3. CASE log[p + 1].len = 0
      BY <1>3, <2>1, <2>2, <2>3, WalkPasses, MarkNumbers DEF IInv
    <2>4. CASE log[p + 1].len # 0
      BY <1>3, <2>1, <2>2, <2>4, WalkPasses, RecordNumbers DEF IInv
    <2> QED
      BY <2>3, <2>4
  <1> QED
    BY <1>1, <1>2, <1>3, WalkEndNumbers, WriteOutNumbers, SetReadOffNumbers, ReadTakeNumbers,
       CrashNumbers DEF Next, Read, Peek

(* Before the first call no number is given.                               *)
LEMMA NumberingHolds == Spec => []NumberInv
  <1>1. Init => NumberInv
    <2> SUFFICES ASSUME Init PROVE NumberInv
      OBVIOUS
    <2>1. Numbered = {} /\ numbered = {} /\ peeked = <<>> /\ rpc = "idle"
      BY DEF Init, Numbered
    <2> QED
      BY <2>1 DEF NumberInv, NumbersGiven, SessionIsOpen, SessionIsClosed,
                  NumbersSeparateSessions, SessionHasOneNumber
  <1> QED
    BY <1>1, NumbersInvariant, Invariance, PTL DEF Spec

(***************************************************************************)
(* Two records with the same log_id lie in the same session, for every     *)
(* sequence of peeks of both kinds and reads in between.                   *)
(***************************************************************************)
THEOREM SessionsStaySeparate == Spec => []NumbersSeparateSessions
  <1>1. NumberInv => NumbersSeparateSessions
    BY DEF NumberInv
  <1> QED
    BY <1>1, NumberingHolds, PTL

(***************************************************************************)
(* With PeekSessionsFromQueue alone, records of one session get the same   *)
(* log_id.                                                                 *)
(***************************************************************************)
THEOREM SessionsHaveOneNumber == Spec => []SessionHasOneNumber
  <1>1. NumberInv => SessionHasOneNumber
    BY DEF NumberInv
  <1> QED
    BY <1>1, NumberingHolds, PTL
=============================================================================
