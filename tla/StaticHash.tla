------------------------------ MODULE StaticHash ------------------------------
(***************************************************************************)
(* util/nokey_static_hash.h: a read-only hash table in a file.  Only the   *)
(* 64-bit hashes of the keys are stored, grouped by bucket and sorted      *)
(* within one; a bucket's entry is the position of its first element, and  *)
(* a lookup scans from there until the hashes leave the bucket.            *)
(*                                                                         *)
(* Building takes one step per element and per bucket.  std::sort is not   *)
(* stable: elements with equal hashes come in any order.                   *)
(***************************************************************************)
EXTENDS Integers, Sequences, SequencesExt

CONSTANTS
  Keys,
  Hash,           (* _hash_wrap: a function from Keys to 64-bit numbers    *)
  MinPow, MaxPow, (* 10 and 25 in the code: bounds on the bucket count     *)
  Pows,           (* the bucket_pow the caller may ask for                 *)
  MaxElements     (* bound of the instance: elements of the container      *)

StaticHashAssumption ==
  /\ Hash \in [Keys -> Nat]
  /\ MinPow \in Nat /\ MaxPow \in Nat /\ 0 < MinPow /\ MinPow <= MaxPow
  /\ Pows \subseteq Nat /\ MaxElements \in Nat

VARIABLES
  vec,       (* the keys, in the container's order; the value of an        *)
             (* element is its position                                    *)
  pow,       (* bucket_pow                                                 *)
  pc,
  bucket,    (* p_bucket; 0 when nothing hashes there                      *)
  chain,     (* p_tmp_hasher: hash and next element of the same bucket     *)
  table,     (* p_hasher: hash and value, with the end mark                *)
  b, last,   (* the bucket being packed, the last that held something      *)
  file,      (* what is on disk                                            *)
  loaded,    (* the pointers of static_hash_map are set                    *)
  invalid    (* m_invalid_val                                              *)

vars == <<vec, pow, pc, bucket, chain, table, b, last, file, loaded, invalid>>

(* 1 << n                                                                  *)
Power[n \in 0 .. MaxPow] == IF n = 0 THEN 1 ELSE 2 * Power[n - 1]
BucketNum ==
  Power[IF pow < MinPow THEN MinPow ELSE IF pow > MaxPow THEN MaxPow ELSE pow]
Buckets == 0 .. BucketNum - 1

(* num & (buck_num - 1)                                                    *)
BucketId(h) == h % BucketNum

Vty == 0       (* Vty() of an int                                          *)
NotFound == -1 (* the invalid_val the callers load with                    *)
Junk == -2     (* memory nobody wrote                                      *)

Init ==
  /\ vec \in UNION {[1 .. n -> Keys] : n \in 0 .. MaxElements}
  /\ pow \in Pows
  /\ pc = "chain"
  /\ bucket = [id \in Buckets |-> 0]
  /\ chain = <<>> /\ table = <<>>
  /\ b = 0 /\ last = 0
  /\ file = "none" /\ loaded = FALSE /\ invalid = Vty

(* The end of the chain that starts at element o.                          *)
ChainEnd(o) ==
  LET Walk[e \in 1 .. Len(chain)] ==
        IF chain[e].next = 0 THEN e ELSE Walk[chain[e].next]
  IN  Walk[o]
Members(o) ==
  LET Walk[e \in 1 .. Len(chain)] ==
        <<e>> \o (IF chain[e].next = 0 THEN <<>> ELSE Walk[chain[e].next])
  IN  Walk[o]

(* One element goes to the end of its bucket's chain.                      *)
LinkFrom(id) == ChainEnd(bucket[id])
AddElement ==
  /\ pc = "chain" /\ Len(chain) < Len(vec)
  /\ LET n == Len(chain) + 1
         h == Hash[vec[n]]
         id == BucketId(h)
         longer == Append(chain, [hasher |-> h, next |-> 0])
     IN  IF bucket[id] = 0
         THEN bucket' = [bucket EXCEPT ![id] = n] /\ chain' = longer
         ELSE chain' = [longer EXCEPT ![LinkFrom(id)].next = n] /\ UNCHANGED bucket
  /\ UNCHANGED <<vec, pow, pc, table, b, last, file, loaded, invalid>>

Chained ==
  /\ pc = "chain" /\ Len(chain) = Len(vec)
  /\ pc' = "pack"
  /\ UNCHANGED <<vec, pow, bucket, chain, table, b, last, file, loaded, invalid>>

(* The orders std::sort may leave the elements of a bucket in.             *)
Sorted(s) == \A i, j \in DOMAIN s : i < j => chain[s[i]].hasher <= chain[s[j]].hasher
AnyOrders(s) == SetToSeqs(ToSet(s))
Orders(s) == {p \in SetToSeqs(ToSet(s)) : Sorted(p)}

(* The entry of a bucket whose elements s come next in the table.          *)
RunAfter(s) == Len(table) + Len(s) + 1
RunStart(s) == Len(table) + 1

(* The chain of bucket b becomes a run of the table.                       *)
Pack ==
  /\ pc = "pack" /\ b \in Buckets
  /\ IF bucket[b] = 0
     THEN UNCHANGED <<bucket, table, last>>
     ELSE /\ \E s \in Orders(Members(bucket[b])) :
               table' = table \o
                 [i \in DOMAIN s |-> [hasher |-> chain[s[i]].hasher, val |-> s[i]]]
          /\ bucket' = [bucket EXCEPT ![b] = RunStart(Members(bucket[b]))]
          /\ last' = b
  /\ b' = b + 1
  /\ UNCHANGED <<vec, pow, pc, chain, file, loaded, invalid>>

(* The end mark hashes to another bucket than the last one.                *)
EndMark == last + 1
Packed ==
  /\ pc = "pack" /\ b \notin Buckets
  /\ table' = Append(table, [hasher |-> EndMark, val |-> Junk])
  /\ pc' = "write"
  /\ UNCHANGED <<vec, pow, bucket, chain, b, last, file, loaded, invalid>>

(* container_to_hash_file returns; what fwrite left behind stays on disk.  *)
Write ==
  /\ pc = "write"
  /\ pc' = "done"
  /\ file' \in {"none", "partial", "whole"}
  /\ UNCHANGED <<vec, pow, bucket, chain, table, b, last, loaded, invalid>>

(* load_serialized_hash_file: the sizes come from the header and nothing   *)
(* tells a truncated file.                                                 *)
Load ==
  /\ pc = "done" /\ ~loaded /\ invalid = Vty
  /\ invalid' = NotFound
  /\ loaded' = (file # "none")
  /\ UNCHANGED <<vec, pow, pc, bucket, chain, table, b, last, file>>

Next == AddElement \/ Chained \/ Pack \/ Packed \/ Write \/ Load

Spec == Init /\ [][Next]_vars

-----------------------------------------------------------------------------
(* operator[], on a table that is whole.                                   *)

(* Where the scan for hash h stops, from position o on: at an element that *)
(* is not smaller or of another bucket.  Len(table) + 1 is past the table. *)
ScanEnd(id, h, o) ==
  LET Scan[p \in 1 .. Len(table) + 1] ==
        IF p <= Len(table) /\ BucketId(table[p].hasher) = id /\ table[p].hasher < h
        THEN Scan[p + 1] ELSE p
  IN  Scan[o]
Found(k) ==
  LET id == BucketId(Hash[k])
      off == bucket[id]
  IN  IF table[off].hasher = Hash[k] THEN off ELSE ScanEnd(id, Hash[k], off + 1)
Lookup(k) ==
  IF ~loaded \/ bucket[BucketId(Hash[k])] = 0 THEN invalid
  ELSE IF table[Found(k)].hasher = Hash[k] THEN table[Found(k)].val ELSE invalid

Ready == loaded /\ file = "whole"

-----------------------------------------------------------------------------
(* Type correctness: links and bucket entries are elements.                *)
TypeOK ==
  /\ vec \in Seq(Keys) /\ pow \in Pows
  /\ pc \in {"chain", "pack", "write", "done"}
  /\ bucket \in [Buckets -> 0 .. Len(vec)]
  /\ chain \in Seq([hasher : Nat, next : 0 .. Len(vec)])
  /\ table \in Seq([hasher : Nat, val : 1 .. Len(vec)]
                   \union [hasher : Nat, val : {Junk}])
  /\ b \in 0 .. BucketNum /\ last \in Buckets
  /\ file \in {"none", "partial", "whole"}
  /\ loaded \in BOOLEAN /\ invalid \in {Vty, NotFound}

(***************************************************************************)
(* The loop of line 340 has no bound but what it reads: it must stop at    *)
(* the end mark at the latest, for keys of the table and for any other.    *)
(***************************************************************************)
ScanStaysInTable ==
  Ready => \A k \in Keys :
    bucket[BucketId(Hash[k])] # 0 => Found(k) <= Len(table)

(***************************************************************************)
(* A lookup finds the value of a key that was stored under the same hash   *)
(* (of the key itself, when nothing collides with it), and the invalid     *)
(* value when there is none.                                               *)
(***************************************************************************)
Stored(k) == {n \in 1 .. Len(vec) : Hash[vec[n]] = Hash[k]}
LookupIsRight ==
  Ready => \A k \in Keys :
    ScanStaysInTable => IF Stored(k) = {} THEN Lookup(k) = NotFound
                        ELSE Lookup(k) \in Stored(k)
=============================================================================
