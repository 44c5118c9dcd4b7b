----------------------------- MODULE CircleQueue -----------------------------
(***************************************************************************)
(* util/circle_queue.cpp: a ring of records in a memory-mapped file, with  *)
(* one writer and one reader that share nothing but the mapping and take   *)
(* no lock.  A record is |time stamp|length|payload|; a zero stamp is the  *)
(* turning flag that sends the reader back to the first record.            *)
(*                                                                         *)
(* The writer takes one step per store to the mapping, the reader one step *)
(* per decision on what it loaded.  Either process may crash at any step;  *)
(* the mapping is a shared file and survives, the locals do not.           *)
(***************************************************************************)
EXTENDS Integers, Sequences

CONSTANTS
  BufLen,      (* size of the file                                         *)
  HeaderLen,   (* BUFFER_HEADER_LEN                                        *)
  StampLen,    (* sizeof(time_t)                                           *)
  LenLen,      (* sizeof(int)                                              *)
  Lengths,     (* lengths of the records stored; 0 is the mark that ends a *)
               (* session                                                  *)
  ReaderOps,   (* the calls the reader makes: "read", "all", "sessions"    *)
  MaxStored,   (* bound of the instance: records stored                    *)
  MaxCrashes   (* bound of the instance: crashes of either process         *)

StoreHeader == StampLen + LenLen

ASSUME CircleQueueAssumption ==
  /\ HeaderLen \in Nat \ {0} /\ StampLen \in Nat \ {0} /\ LenLen \in Nat \ {0}
  /\ BufLen \in Nat /\ BufLen > HeaderLen + StampLen
  /\ Lengths \subseteq Nat
  /\ ReaderOps \subseteq {"read", "all", "sessions"}
  /\ MaxStored \in Nat /\ MaxCrashes \in Nat

VARIABLES
  readOff, writeOff,  (* the two offsets of the header                     *)
  mem,                (* the cells behind the header                       *)
  wpc, wlen,          (* the writer: where it is, the length it stores,    *)
  wpos, wnext,        (* where the record goes and where the next will go  *)
  rpc, rop,           (* the reader: where it is and in which call         *)
  roff, rend,         (* the walk: next offset, offset it stops at         *)
  rmark,              (* lastReadOff, 0 for the code's -1                  *)
  peeked,             (* strOut: the records copied out, with log_id       *)
  cnt,                (* the session number the reader's caller keeps      *)
  log,                (* history: the records published                    *)
  taken,              (* history: how many of them were released           *)
  passed,             (* history: records the current walk has passed      *)
  logged,             (* history: the records returned or written out      *)
  numbered,           (* history: log_ids given since the reader started   *)
  crashes

shared  == <<readOff, writeOff, mem>>
writer  == <<wpc, wlen, wpos, wnext>>
reader  == <<rpc, rop, roff, rend, rmark, peeked, cnt>>
history == <<log, taken, passed, logged, numbered, crashes>>
vars    == <<shared, writer, reader, history>>

-----------------------------------------------------------------------------
(* The mapping.  A cell holds what the bytes there stand for: 0 or 1 in a  *)
(* stamp (the flag, or a time), the length, the record's number in its     *)
(* payload.  A fresh file is all zero.                                     *)

Cells == HeaderLen .. BufLen - 1
Fill(from, n, v) == [b \in Cells |-> IF b \in from .. from + n - 1 THEN v ELSE mem[b]]

IsFlag(off) == mem[off] = 0
LenAt(off) == mem[off + StampLen]
PayloadAt(off) == mem[off + StoreHeader]
After(off, len) == off + StoreHeader + len

(* The header as it lies in the file: *(int* )p, p + 1, p + 2.             *)
Header == <<BufLen, readOff, writeOff>>

-----------------------------------------------------------------------------
(* The writer: StoreToCircleQueue.                                         *)

(* A record goes behind the last one as long as it stays short of the      *)
(* reader, or leaves room for the turning flag at the end of the file.     *)
FitsNoFlag(len) ==
  After(writeOff, len) < (IF readOff > writeOff THEN readOff ELSE BufLen)
FitsHere(len) ==
  After(writeOff, len) < (IF readOff > writeOff THEN readOff ELSE BufLen - StampLen)

(* Else it goes to the start, short of the reader, behind a flag.          *)
FitsAtStartLoose(len) ==
  readOff <= writeOff /\ ~FitsHere(len) /\ After(HeaderLen, len) <= readOff
FitsAtStartBusy(len) ==
  readOff < writeOff /\ ~FitsHere(len) /\ After(HeaderLen, len) < readOff
FitsAtStart(len) ==
  readOff <= writeOff /\ ~FitsHere(len) /\ After(HeaderLen, len) < readOff

WriterIdle == wpc' = "idle" /\ wlen' = 0 /\ wpos' = 0 /\ wnext' = 0

(* The caller has a record to store, and tries until there is room.        *)
Submit ==
  /\ wpc = "idle" /\ Len(log) < MaxStored
  /\ \E len \in Lengths : wlen' = len
  /\ wpc' = "try"
  /\ UNCHANGED <<shared, wpos, wnext, reader, history>>

(* BUFFER_FULL is returned when neither branch applies.                    *)
StoreHere ==
  /\ wpc = "try" /\ FitsHere(wlen)
  /\ wpos' = writeOff /\ wnext' = After(writeOff, wlen)
  /\ wpc' = "stamp"
  /\ UNCHANGED <<shared, wlen, reader, history>>

StoreAtStart ==
  /\ wpc = "try" /\ FitsAtStart(wlen)
  /\ wpos' = HeaderLen /\ wnext' = After(HeaderLen, wlen)
  /\ wpc' = "flag"
  /\ UNCHANGED <<shared, wlen, reader, history>>

WriteCells(from, n, v, next) ==
  /\ mem' = Fill(from, n, v)
  /\ wpc' = next
  /\ UNCHANGED <<readOff, writeOff, wlen, wpos, wnext, reader, history>>

StoreFlag == wpc = "flag" /\ WriteCells(writeOff, StampLen, 0, "stamp")
StoreStamp == wpc = "stamp" /\ WriteCells(wpos, StampLen, 1, "len")
StoreLen == wpc = "len" /\ WriteCells(wpos + StampLen, LenLen, wlen, "copy")
StoreCopy ==
  wpc = "copy" /\ WriteCells(wpos + StoreHeader, wlen, Len(log) + 1, "publish")

(* *pWriteOff = nextWriteOff                                               *)
Publish ==
  /\ wpc = "publish"
  /\ writeOff' = wnext
  /\ log' = Append(log, [off |-> wpos, len |-> wlen])
  /\ WriterIdle
  /\ UNCHANGED <<readOff, mem, reader, taken, passed, logged, numbered, crashes>>

-----------------------------------------------------------------------------
(* The reader: ReadFromCircleQueue.                                        *)

ReaderIdle ==
  /\ rpc' = "idle" /\ rop' = "none"
  /\ roff' = 0 /\ rend' = 0 /\ rmark' = 0
  /\ peeked' = <<>> /\ passed' = 0

StartWalk(op, next) ==
  /\ rpc = "idle" /\ op \in ReaderOps
  /\ rop' = op /\ rpc' = next
  /\ roff' = readOff /\ rend' = writeOff
  /\ UNCHANGED <<shared, writer, rmark, peeked, cnt, history>>

(* BUFFER_EPMTY leaves everything as it was.                               *)
ReadStart == readOff # writeOff /\ StartWalk("read", "check")

(* The flag moves the shared read offset at once, even when the call then  *)
(* finds nothing or comes too early.                                       *)
ReadCheck ==
  /\ rpc = "check"
  /\ IF IsFlag(roff) THEN readOff' = HeaderLen ELSE UNCHANGED readOff
  /\ IF readOff' = rend
     THEN ReaderIdle
     ELSE rpc' = "record" /\ roff' = readOff'
          /\ UNCHANGED <<rop, rend, rmark, peeked, passed>>
  /\ UNCHANGED <<writeOff, mem, writer, cnt, log, taken, logged, numbered, crashes>>

(* TIME_AGAIN: the record is younger than the caller asks for.             *)
ReadTooEarly ==
  /\ rpc = "record" /\ ReaderIdle
  /\ UNCHANGED <<shared, writer, cnt, log, taken, logged, numbered, crashes>>

(* The record is released before the caller gets to see it: retPtr points  *)
(* into the mapping.                                                       *)
ReadTake ==
  /\ rpc = "record"
  /\ readOff' = After(roff, LenAt(roff))
  /\ taken' = taken + 1
  /\ logged' = IF LenAt(roff) = 0 THEN logged ELSE logged \union {PayloadAt(roff)}
  /\ rpc' = "use"
  /\ UNCHANGED <<writeOff, mem, writer, rop, roff, rend, rmark, peeked, cnt,
                 log, passed, numbered, crashes>>

(* The caller is done with retPtr.                                         *)
ReadUsed ==
  /\ rpc = "use" /\ ReaderIdle
  /\ UNCHANGED <<shared, writer, cnt, log, taken, logged, numbered, crashes>>

-----------------------------------------------------------------------------
(* The reader of the log: PeekAllFromQueue or PeekSessionsFromQueue copies *)
(* records out, the caller writes them and then calls SetReadOff.          *)

PeekAllMarked == StartWalk("all", "find")
PeekAll == StartWalk("all", "walk")
PeekSessions == StartWalk("sessions", "find")

(* The walk stops at rend, looked at before and after the flag is followed. *)
Turned(off) == IF off # rend /\ IsFlag(off) THEN HeaderLen ELSE off
WalkEnds == Turned(roff) = rend

(* FindLastZeroLenOff                                                      *)
FindStep ==
  /\ rpc = "find" /\ ~WalkEnds
  /\ LET off == Turned(roff)
     IN  /\ rmark' = IF LenAt(off) = 0 THEN off ELSE rmark
         /\ roff' = After(off, LenAt(off))
  /\ UNCHANGED <<shared, writer, rpc, rop, rend, peeked, cnt, history>>

(* Without a mark there is nothing to write and the offset stays; with one *)
(* the second walk starts at the read offset and stops at the mark.        *)
FindEnd ==
  /\ rpc = "find" /\ WalkEnds
  /\ IF rmark = 0
     THEN ReaderIdle
     ELSE /\ rpc' = "walk" /\ roff' = readOff /\ rend' = rmark
          /\ UNCHANGED <<rop, rmark, peeked, passed>>
  /\ UNCHANGED <<shared, writer, cnt, log, taken, logged, numbered, crashes>>

(* A mark ends its session.                                                *)
CountsRecords(len) == cnt + 1
CountsMarks(len) == IF len = 0 THEN cnt + 1 ELSE cnt

WalkStep ==
  /\ rpc = "walk" /\ ~WalkEnds
  /\ LET off == Turned(roff)
     IN  /\ IF LenAt(off) # 0
            THEN peeked' = Append(peeked, [id |-> PayloadAt(off), session |-> cnt])
            ELSE UNCHANGED peeked
         /\ cnt' = CountsMarks(LenAt(off))
         /\ roff' = After(off, LenAt(off))
  /\ passed' = passed + 1
  /\ UNCHANGED <<shared, writer, rpc, rop, rend, rmark, log, taken, logged,
                 numbered, crashes>>

(* The offset handed back: where the walk stopped, or past the mark that   *)
(* ends the last whole session.                                            *)
NextStartAtMark == rend
NextStartAtWriteOff == IF rop = "sessions" THEN After(rend, 0) ELSE writeOff
NextStart == IF rop = "sessions" THEN After(rend, 0) ELSE rend

SameSessionNumber == cnt
NextSessionNumber == IF peeked # <<>> THEN cnt + 1 ELSE cnt

WalkEnd ==
  /\ rpc = "walk" /\ WalkEnds
  /\ roff' = NextStart
  /\ cnt' = NextSessionNumber
  /\ passed' = IF rop = "sessions" THEN passed + 1 ELSE passed
  /\ rpc' = "write"
  /\ UNCHANGED <<shared, writer, rop, rend, rmark, peeked, log, taken, logged,
                 numbered, crashes>>

(* The caller writes strOut to its log ...                                 *)
WriteOut ==
  /\ rpc = "write"
  /\ logged' = logged \union {peeked[k].id : k \in DOMAIN peeked}
  /\ numbered' = numbered \union {peeked[k] : k \in DOMAIN peeked}
  /\ rpc' = "release"
  /\ UNCHANGED <<shared, writer, rop, roff, rend, rmark, peeked, cnt, log,
                 taken, passed, crashes>>

(* ... and then releases what it has written.                              *)
SetReadOff ==
  /\ rpc = "release"
  /\ readOff' = roff
  /\ taken' = taken + passed
  /\ ReaderIdle
  /\ UNCHANGED <<writeOff, mem, writer, cnt, log, logged, numbered, crashes>>

-----------------------------------------------------------------------------
(* A crash loses the locals.  The restarted process maps the file again    *)
(* and InitializeCircleQueue keeps what it finds there.                    *)

WriterCrash ==
  /\ wpc # "idle" /\ crashes < MaxCrashes
  /\ WriterIdle
  /\ crashes' = crashes + 1
  /\ UNCHANGED <<shared, reader, log, taken, passed, logged, numbered>>

ReaderCrash ==
  /\ rpc # "idle" /\ crashes < MaxCrashes
  /\ ReaderIdle
  /\ cnt' = 0 /\ numbered' = {}
  /\ crashes' = crashes + 1
  /\ UNCHANGED <<shared, writer, log, taken, logged>>

(* InitializeCircleQueue on a file it has just created.                    *)
Init ==
  /\ readOff = HeaderLen /\ writeOff = HeaderLen
  /\ mem = [b \in Cells |-> 0]
  /\ wpc = "idle" /\ wlen = 0 /\ wpos = 0 /\ wnext = 0
  /\ rpc = "idle" /\ rop = "none" /\ roff = 0 /\ rend = 0 /\ rmark = 0
  /\ peeked = <<>> /\ cnt = 0
  /\ log = <<>> /\ taken = 0 /\ passed = 0
  /\ logged = {} /\ numbered = {} /\ crashes = 0

Store ==
  \/ StoreHere \/ StoreAtStart
  \/ StoreFlag \/ StoreStamp \/ StoreLen \/ StoreCopy \/ Publish
Read == ReadStart \/ ReadCheck \/ ReadTooEarly \/ ReadTake \/ ReadUsed
Peek ==
  \/ PeekAll \/ PeekSessions \/ FindStep \/ FindEnd \/ WalkStep \/ WalkEnd
  \/ WriteOut \/ SetReadOff

Next == Submit \/ Store \/ Read \/ Peek \/ WriterCrash \/ ReaderCrash

Spec == Init /\ [][Next]_vars

(* The writer retries while it runs, and the reader keeps emptying the     *)
(* queue; nobody has to have anything to store, and nobody has to crash.   *)
Fairness == WF_vars(Store) /\ WF_vars(Peek)
FairSpec == Spec /\ Fairness

-----------------------------------------------------------------------------
(***************************************************************************)
(* Type correctness.  The offsets the processes publish leave room for a   *)
(* stamp, so a turning flag written at writeOff never leaves the file.     *)
(***************************************************************************)
Offsets == HeaderLen .. BufLen - StampLen - 1
TypeOK ==
  /\ readOff \in Offsets /\ writeOff \in Offsets
  /\ mem \in [Cells -> Nat]
  /\ wpc \in {"idle", "try", "flag", "stamp", "len", "copy", "publish"}
  /\ wlen \in Nat /\ wpos \in Offsets \union {0} /\ wnext \in Offsets \union {0}
  /\ rpc \in {"idle", "check", "record", "use", "find", "walk", "write", "release"}
  /\ rop \in ReaderOps \union {"none"}
  /\ roff \in Offsets \union {0} /\ rend \in Offsets \union {0}
  /\ rmark \in Offsets \union {0}
  /\ peeked \in Seq([id : Nat, session : Nat])
  /\ cnt \in Nat
  /\ log \in Seq([off : Offsets, len : Lengths])
  /\ taken \in Nat /\ passed \in Nat
  /\ logged \subseteq Nat /\ numbered \subseteq [id : Nat, session : Nat]
  /\ crashes \in 0 .. MaxCrashes

(* The records that are published and not yet released.                    *)
Unread == taken + 1 .. Len(log)
End(k) == After(log[k].off, log[k].len)
Follow(off) == IF IsFlag(off) THEN HeaderLen ELSE off

(* What a reader finds in the file that starts at off and passes at most n *)
(* records: it follows a flag, and stops when it is at the write offset    *)
(* before or after it has done so.                                         *)
NextPlace(off) == After(Follow(off), LenAt(Follow(off)))
FoundAt(off) == [len |-> LenAt(off), id |-> IF LenAt(off) = 0 THEN 0 ELSE PayloadAt(off)]
Walk[n \in Nat] ==
  [off \in Cells |->
     IF n = 0 \/ off = writeOff \/ Follow(off) = writeOff THEN <<>>
     ELSE <<FoundAt(Follow(off))>> \o Walk[n - 1][NextPlace(off)]]

(* What a reader that starts now finds.  No walk finds more records than   *)
(* were stored: one more would show that it does.                          *)
Queued == Walk[Len(log) + 1][readOff]
QueuedIds == LET found == Queued IN {found[k].id : k \in DOMAIN found}

(***************************************************************************)
(* What lies between the two offsets is the unread records, whole and in   *)
(* order: each begins where the one before ends or, behind a turning flag, *)
(* at the start, and its stamp, length and payload are the ones stored.    *)
(***************************************************************************)
QueueIntact ==
  /\ taken <= Len(log)
  /\ Unread = {} <=> readOff = writeOff
  /\ Unread # {} => End(Len(log)) = writeOff
  /\ \A k \in Unread :
       /\ log[k].off = Follow(IF k = taken + 1 THEN readOff ELSE End(k - 1))
       /\ \A b \in 0 .. StampLen - 1 : mem[log[k].off + b] = 1
       /\ LenAt(log[k].off) = log[k].len
       /\ \A b \in log[k].off + StoreHeader .. End(k) - 1 : mem[b] = k

(***************************************************************************)
(* Lock freedom is safe for what is still queued: the cells a store is     *)
(* going to write are disjoint from the cells the reader may still walk,   *)
(* at every step of both, and lie inside the file.                         *)
(***************************************************************************)
UnreadCells ==
  IF readOff <= writeOff THEN readOff .. writeOff - 1
  ELSE (readOff .. BufLen - 1) \union (HeaderLen .. writeOff - 1)
ClaimedCells ==
  IF wpc \in {"idle", "try"} THEN {}
  ELSE (wpos .. wnext - 1) \union
       (IF wpc = "flag" THEN writeOff .. writeOff + StampLen - 1 ELSE {})
WriterStaysClear ==
  /\ ClaimedCells \intersect UnreadCells = {}
  /\ ClaimedCells \subseteq Cells

(***************************************************************************)
(* A walk copies out the payloads of the records behind the read offset,   *)
(* without a gap and in order; with PeekSessions it ends at the mark of a  *)
(* session, so that no part of an unfinished session is written.           *)
(***************************************************************************)
PeekIsFaithful ==
  rpc \in {"walk", "write", "release"} =>
    /\ taken + passed <= Len(log)
    /\ \A j, k \in DOMAIN peeked : j < k => peeked[j].id < peeked[k].id
    /\ {peeked[k].id : k \in DOMAIN peeked}
       = {k \in taken + 1 .. taken + passed : log[k].len # 0}
    /\ rop = "sessions" /\ rpc # "walk" => log[taken + passed].len = 0

(***************************************************************************)
(* The reader loses nothing, to a crash or to a walk that runs while       *)
(* records arrive: a record has been returned or written out, or a walk    *)
(* that starts at the read offset still finds it (at least once).          *)
(***************************************************************************)
NothingLost ==
  {k \in 1 .. Len(log) : log[k].len # 0} \subseteq logged \union QueuedIds

(***************************************************************************)
(* Records of two sessions never get the same log_id, however the session  *)
(* counter is carried from one peek to the next.                           *)
(***************************************************************************)
Numbered == numbered \union {peeked[k] : k \in DOMAIN peeked}
NumbersSeparateSessions ==
  \A a, b \in Numbered :
    a.session = b.session => \A k \in a.id .. b.id : log[k].len # 0

(* When only whole sessions are peeked, a session has one number.          *)
SessionHasOneNumber ==
  ReaderOps = {"sessions"} =>
    \A a, b \in Numbered :
      a.session # b.session => \E k \in (a.id .. b.id) \union (b.id .. a.id) : log[k].len = 0

(***************************************************************************)
(* Every record the writer waits to store is stored, if the process does   *)
(* not crash: with a reader that keeps releasing, room appears.  It takes  *)
(* a record of less than half the file: a longer one may find an empty     *)
(* queue whose offsets lie in the middle, and wait for ever.               *)
(***************************************************************************)
Small(len) == After(After(HeaderLen, len), len) + StampLen < BufLen
StoreIsServed == wpc = "try" /\ Small(wlen) ~> wpc # "try"

(***************************************************************************)
(* Whatever was published leaves the queue in the end, while new records   *)
(* keep arriving behind it.                                                *)
(***************************************************************************)
QueueDrains == \A n \in 1 .. MaxStored : n \in QueuedIds ~> n \notin QueuedIds

(***************************************************************************)
(* The file is a queue: seen through the walk, every step of the writer    *)
(* and of the reader is a step of RecordFifo or invisible, crashes too.    *)
(***************************************************************************)
Fifo == INSTANCE RecordFifo WITH queue <- Queued, stored <- Len(log)
ImplementsRecordFifo == Fifo!Spec

(***************************************************************************)
(* circle_queue.h:5, "one read one write lockfree": a reader that uses the *)
(* record ReadFromCircleQueue gave it sees that record.                    *)
(***************************************************************************)
ReturnedRecordIsStable ==
  rpc = "use" =>
    \A b \in roff + StoreHeader .. End(taken) - 1 : mem[b] = taken

(***************************************************************************)
(* circle_queue.cpp:15, "header three fields of int |bufsize|write off|    *)
(* read off": a store moves the second field and leaves the third.         *)
(***************************************************************************)
DocumentedHeader ==
  [][Publish => Header'[2] # Header[2] /\ Header'[3] = Header[3]]_vars
=============================================================================
