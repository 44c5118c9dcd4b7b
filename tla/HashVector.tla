------------------------------ MODULE HashVector ------------------------------
(***************************************************************************)
(* util/static_hash_vector.h: a read-only map from keys to lists, kept in  *)
(* two files.  X.bin holds the items of all lists behind each other and    *)
(* their total size; X is a static_hash_map (module StaticHash) from a key *)
(* to its number of items and their offset.  One process writes the files, *)
(* key by key, and may crash; another reads them.  Sizes count items here  *)
(* (m_type_size bytes each).                                               *)
(***************************************************************************)
EXTENDS Integers, Sequences, SequencesExt

CONSTANTS
  Keys, Items,
  Cut,       (* the first STRMAXNUM - 1 bytes of an item                   *)
  Maps,      (* the maps somebody writes: from sets of keys to lists       *)
  MaxWrites  (* bound of the instance: calls of write                      *)

HashVectorAssumption ==
  /\ Cut \in [Items -> Items] /\ \A i \in Items : Cut[Cut[i]] = Cut[i]
  /\ \A m \in Maps : DOMAIN m \subseteq Keys /\ \A k \in DOMAIN m : m[k] \in Seq(Items)
  /\ MaxWrites \in Nat

VARIABLES
  pc,
  hashmap,   (* the map being written                                      *)
  left,      (* keys the loop has not come to                              *)
  tmpHash,   (* the index of the keys written                              *)
  offset,
  bin,       (* X.bin: its size field and the items on disk                *)
  index,     (* X                                                          *)
  full,      (* fwrite of items has begun to fail                          *)
  flag, memIndex, data,  (* m_flag, m_static_hash_map, m_data              *)
  writes,
  intact,    (* history: the map of the last write, when it returned true  *)
             (* and no other has begun since                               *)
  source     (* history: intact when read was called                       *)

vars == <<pc, hashmap, left, tmpHash, offset, bin, index, full, flag, memIndex,
          data, writes, intact, source>>
reader == <<flag, memIndex, data, source>>

NoMap == [k \in {} |-> <<>>]
NoFile == [exists |-> FALSE, size |-> 0, data |-> <<>>]
Nothing == [written |-> FALSE, map |-> NoMap]
Invalid == [count |-> -1, offset |-> -1]

Init ==
  /\ pc = "idle" /\ hashmap = NoMap /\ left = {} /\ tmpHash = NoMap /\ offset = 0
  /\ bin = NoFile /\ index = [state |-> "none", of |-> NoMap]
  /\ full = FALSE
  /\ flag = FALSE /\ memIndex = NoMap /\ data = <<>>
  /\ writes = 0 /\ intact = Nothing /\ source = Nothing

-----------------------------------------------------------------------------
(* write                                                                   *)

(* fopen with "wb" empties the file; the first four bytes stay 0 till the  *)
(* end.                                                                    *)
OpenedToAppend == [exists |-> TRUE, size |-> 0, data |-> bin.data]
Opened == [exists |-> TRUE, size |-> 0, data |-> <<>>]
Begin ==
  /\ pc = "idle" /\ writes < MaxWrites
  /\ \E m \in Maps : hashmap' = m /\ left' = DOMAIN m
  /\ pc' = "items" /\ tmpHash' = NoMap /\ offset' = 0
  /\ bin' = Opened /\ full' = FALSE
  /\ writes' = writes + 1 /\ intact' = Nothing
  /\ UNCHANGED index /\ UNCHANGED reader

(* What fwrite leaves of the items; its result is not looked at.           *)
Stored(s) == [i \in DOMAIN s |-> Cut[s[i]]]
Entry(k) == [count |-> Len(hashmap[k]), offset |-> offset]
Inserted(k) ==
  [l \in DOMAIN tmpHash \union {k} |-> IF l = k THEN Entry(k) ELSE tmpHash[l]]
WriteKey ==
  /\ pc = "items"
  /\ \E k \in left :
       /\ left' = left \ {k}
       /\ tmpHash' = Inserted(k)
       /\ offset' = offset + Len(hashmap[k])
       /\ hashmap' = [hashmap EXCEPT ![k] = Stored(@)]
       /\ \/ ~full /\ full' = full /\ bin' = [bin EXCEPT !.data = @ \o Stored(hashmap[k])]
          \/ full' = TRUE /\ bin' = bin
  /\ UNCHANGED <<pc, index, writes, intact>> /\ UNCHANGED reader

SizeOfItems == offset
WriteSize ==
  /\ pc = "items" /\ left = {}
  /\ pc' = "index"
  /\ bin' = [bin EXCEPT !.size = SizeOfItems]
  /\ UNCHANGED <<hashmap, left, tmpHash, offset, index, full, writes, intact>>
  /\ UNCHANGED reader

(* container_to_hash_file succeeds, cannot open the file, or leaves a part *)
(* of it.                                                                  *)
WriteIndex ==
  /\ pc = "index"
  /\ pc' = "idle"
  /\ \/ /\ index' = [state |-> "whole", of |-> tmpHash]
        /\ intact' = [written |-> TRUE, map |-> hashmap]
     \/ index' = index /\ intact' = intact
     \/ index' = [state |-> "partial", of |-> NoMap] /\ intact' = intact
  /\ UNCHANGED <<hashmap, left, tmpHash, offset, bin, full, writes>>
  /\ UNCHANGED reader

Crash ==
  /\ pc # "idle"
  /\ pc' = "idle"
  /\ UNCHANGED <<hashmap, left, tmpHash, offset, bin, index, full, writes, intact>>
  /\ UNCHANGED reader

-----------------------------------------------------------------------------
(* read, by a process that starts between two writes or during one         *)

(* fread must deliver as many bytes as the size field says.                *)
SizeHolds == Len(bin.data) >= bin.size
Read ==
  /\ source' = intact
  /\ memIndex' = IF index.state = "none" THEN memIndex ELSE index.of
  /\ IF index.state # "none" /\ bin.exists
     THEN /\ data' = SubSeq(bin.data, 1, Min({bin.size, Len(bin.data)}))
          /\ flag' = SizeHolds
     ELSE flag' = FALSE /\ UNCHANGED data
  /\ UNCHANGED <<pc, hashmap, left, tmpHash, offset, bin, index, full, writes, intact>>

Next == Begin \/ WriteKey \/ WriteSize \/ WriteIndex \/ Crash \/ Read

Spec == Init /\ [][Next]_vars

-----------------------------------------------------------------------------
(* operator[]: the list of a key, if the object was read and the index has *)
(* the key.                                                                *)
EntryOf(k) == IF k \in DOMAIN memIndex THEN memIndex[k] ELSE Invalid
HasList(k) == flag /\ EntryOf(k) # Invalid
ListOf(k) == SubSeq(data, EntryOf(k).offset + 1, EntryOf(k).offset + EntryOf(k).count)

-----------------------------------------------------------------------------
(* Type correctness; the lists of the keys written lie within the items.   *)
TypeOK ==
  /\ pc \in {"idle", "items", "index"}
  /\ DOMAIN hashmap \subseteq Keys /\ left \subseteq DOMAIN hashmap
  /\ \A k \in DOMAIN tmpHash :
       /\ k \in Keys /\ tmpHash[k].offset \in 0 .. offset
       /\ tmpHash[k].count \in 0 .. offset - tmpHash[k].offset
  /\ bin.data \in Seq(Items) /\ bin.size \in Nat
  /\ index.state \in {"none", "partial", "whole"}
  /\ flag \in BOOLEAN /\ full \in BOOLEAN /\ data \in Seq(Items)
  /\ writes \in 0 .. MaxWrites

(***************************************************************************)
(* After a write that returned true, an object that was read gives every   *)
(* key exactly its list, cut to the stored length, and nothing to other    *)
(* keys, whatever earlier writes left behind and in whatever order the     *)
(* keys came; also when items were lost and the write did not notice.      *)
(***************************************************************************)
LookupExact ==
  flag /\ source.written =>
    \A k \in Keys : /\ HasList(k) <=> k \in DOMAIN source.map
                    /\ HasList(k) => ListOf(k) = source.map[k]

=============================================================================
