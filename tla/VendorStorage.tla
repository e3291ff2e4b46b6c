--------------------------- MODULE VendorStorage ---------------------------
(***************************************************************************)
(* The vendor storage of u-boot (arch/arm/mach-rockchip/vendor.c): a small *)
(* item store that is kept whole in RAM and written whole, in turn, to one *)
(* of PartNum parts of the flash.  A part is valid when the version in its *)
(* first sector equals version2 in its last one; vendor_storage_init loads *)
(* the valid part with the largest version.                                *)
(*                                                                         *)
(* A part is two pieces here.  "head" is the run of sectors that starts    *)
(* with the header, "tail" is the rest, which ends with version2.  The     *)
(* block layer writes sectors in order, so that an interrupted write is a  *)
(* new head with an old tail.                                              *)
(***************************************************************************)
EXTENDS Integers

CONSTANTS
  Ids,         \* item ids
  HeadIds,     \* the ids whose data lies in the head piece
  Vals,        \* item values
  None,        \* "no such item"
  PartNum,     \* VENDOR_PART_NUM 4, NAND_VENDOR_PART_NUM 2
  MaxVersion,  \* bound: no write is started beyond this version
  MaxFails     \* bound: failed writes since the newest complete image

ASSUME PartNumAssumption == PartNum \in Nat /\ PartNum >= 2
ASSUME BoundAssumption == MaxVersion \in Nat /\ MaxFails \in Nat
ASSUME ValAssumption == None \notin Vals /\ HeadIds \subseteq Ids

VARIABLES
  parts,         \* the flash: one part per index
  vendor_info,   \* the image in RAM
  bootdev_type,  \* TRUE once vendor_storage_init has succeeded
  pc,            \* where vendor_storage_write stands in its flash write
  next_index,    \* its local copy of the part index it writes to
  acked,         \* auxiliary: the last image whose write returned success
  last,          \* auxiliary: part and version of the newest complete image
  fails          \* auxiliary: failed writes since that image

vars == <<parts, vendor_info, bootdev_type, pc, next_index, acked, last, fails>>

Parts == 0 .. PartNum - 1
Data == [Ids -> Vals \cup {None}]
Image == [version : Nat, next_index : Parts, data : Data]
Tail == [version2 : Nat, data : Data]

Empty == [id \in Ids |-> None]

\* memset plus the header fields that vendor_storage_init sets when no part
\* is valid.
ResetImage == [version |-> 1, next_index |-> 0, data |-> Empty]

\* A part that was never written: no VENDOR_TAG, which version 0 stands for
\* (max_ver starts at 0, so version 0 is never selected either).
BlankPart == [head |-> [version |-> 0, next_index |-> 0, data |-> Empty],
              tail |-> [version2 |-> 0, data |-> Empty]]

\* hdr->next_index++, back to 0 at part_num.
Advance(i) == IF i + 1 >= PartNum THEN 0 ELSE i + 1

\* Mutant of Valid: version2 is not compared.
ValidByHead(p) == p.head.version > 0

Valid(p) == p.head.version > 0 /\ p.head.version = p.tail.version2

\* Mutant of Loaded: hdr->next_index is not taken from the part.
LoadedFromZero(p) ==
  [version |-> p.head.version,
   next_index |-> 0,
   data |-> [id \in Ids |-> IF id \in HeadIds THEN p.head.data[id]
                                              ELSE p.tail.data[id]]]

\* The image that reading part p leaves in the buffer.
Loaded(p) ==
  [version |-> p.head.version,
   next_index |-> p.head.next_index,
   data |-> [id \in Ids |-> IF id \in HeadIds THEN p.head.data[id]
                                              ELSE p.tail.data[id]]]

\* Mutant of IsMaxIndex: the scan stops at the first valid part.
IsFirstValid(i) ==
  /\ Valid(parts[i])
  /\ \A j \in Parts : Valid(parts[j]) => i <= j

\* The scan keeps the first part that has the largest version.
IsMaxIndex(i) ==
  /\ Valid(parts[i])
  /\ \A j \in Parts : Valid(parts[j]) =>
        \/ parts[j].head.version < parts[i].head.version
        \/ parts[j].head.version = parts[i].head.version /\ i <= j

NoneValid == \A i \in Parts : ~Valid(parts[i])

-----------------------------------------------------------------------------

Init ==
  /\ parts = [i \in Parts |-> BlankPart]
  /\ vendor_info = ResetImage
  /\ bootdev_type = FALSE
  /\ pc = "idle"
  /\ next_index = 0
  /\ acked = ResetImage
  /\ last = [part |-> PartNum - 1, version |-> 1]
  /\ fails = 0

\* vendor_storage_init finds a valid part.  The first read, write or fixup
\* after power-up calls it; nothing but a crash can come between its return
\* and the rest of that call.
vendor_storage_init ==
  /\ ~bootdev_type
  /\ \E i \in Parts :
       /\ IsMaxIndex(i)
       /\ vendor_info' = Loaded(parts[i])
       /\ last' = [part |-> i, version |-> parts[i].head.version]
  /\ bootdev_type' = TRUE
  /\ fails' = 0
  /\ UNCHANGED <<parts, pc, next_index, acked>>

\* vendor_storage_init finds none and starts an empty image in RAM.
vendor_storage_reset ==
  /\ ~bootdev_type
  /\ NoneValid
  /\ vendor_info' = ResetImage
  /\ last' = [part |-> PartNum - 1, version |-> 1]
  /\ bootdev_type' = TRUE
  /\ fails' = 0
  /\ UNCHANGED <<parts, pc, next_index, acked>>

\* A part cannot be read: init returns -EIO, bootdev_type stays 0 and the
\* buffer is left with what the scan read so far.
vendor_storage_init_eio ==
  /\ ~bootdev_type
  /\ \E i \in Parts : vendor_info' = Loaded(parts[i])
  /\ UNCHANGED <<parts, bootdev_type, pc, next_index, acked, last, fails>>

\* Mutant of vendor_storage_write: hdr->version is not incremented.
WriteSameVersion(id, v) ==
  /\ bootdev_type
  /\ pc = "idle"
  /\ vendor_info' = [version |-> vendor_info.version,
                     next_index |-> Advance(vendor_info.next_index),
                     data |-> [vendor_info.data EXCEPT ![id] = v]]
  /\ next_index' = vendor_info.next_index
  /\ pc' = "head"
  /\ UNCHANGED <<parts, bootdev_type, acked, last, fails>>

\* Mutant of vendor_storage_write: hdr->next_index is not advanced.
WriteSamePart(id, v) ==
  /\ bootdev_type
  /\ pc = "idle"
  /\ vendor_info.version < MaxVersion
  /\ vendor_info' = [version |-> vendor_info.version + 1,
                     next_index |-> vendor_info.next_index,
                     data |-> [vendor_info.data EXCEPT ![id] = v]]
  /\ next_index' = vendor_info.next_index
  /\ pc' = "head"
  /\ UNCHANGED <<parts, bootdev_type, acked, last, fails>>

\* vendor_storage_write up to its call of vendor_ops: the RAM image already
\* holds the new item, version and next_index when the flash write starts.
\* Whether the item fits is VendorItems' subject; a write that does not fit
\* returns before it changes anything.
vendor_storage_write(id, v) ==
  /\ bootdev_type
  /\ pc = "idle"
  /\ vendor_info.version < MaxVersion
  /\ vendor_info' = [version |-> vendor_info.version + 1,
                     next_index |-> Advance(vendor_info.next_index),
                     data |-> [vendor_info.data EXCEPT ![id] = v]]
  /\ next_index' = vendor_info.next_index
  /\ pc' = "head"
  /\ UNCHANGED <<parts, bootdev_type, acked, last, fails>>

\* vendor_ops(write): the sectors that carry the header land ...
vendor_ops_head ==
  /\ pc = "head"
  /\ parts' = [parts EXCEPT ![next_index].head = vendor_info]
  /\ pc' = "tail"
  /\ UNCHANGED <<vendor_info, bootdev_type, next_index, acked, last, fails>>

\* ... and then the ones up to version2, which complete the image.
vendor_ops_tail ==
  /\ pc = "tail"
  /\ parts' = [parts EXCEPT ![next_index].tail =
                 [version2 |-> vendor_info.version, data |-> vendor_info.data]]
  /\ pc' = "done"
  /\ last' = [part |-> next_index, version |-> vendor_info.version]
  /\ fails' = 0
  /\ UNCHANGED <<vendor_info, bootdev_type, next_index, acked>>

\* cnt = part_size: the write returns its size.
return_size ==
  /\ pc = "done"
  /\ pc' = "idle"
  /\ acked' = vendor_info
  /\ UNCHANGED <<parts, vendor_info, bootdev_type, next_index, last, fails>>

\* cnt # part_size: the write returns -EIO.  The sectors written so far stay
\* written, and the RAM image keeps the new item, version and next_index.
return_eio ==
  /\ pc \in {"head", "tail", "done"}
  /\ IF pc = "done" THEN fails' = fails
                    ELSE fails < MaxFails /\ fails' = fails + 1
  /\ pc' = "idle"
  /\ UNCHANGED <<parts, vendor_info, bootdev_type, next_index, acked, last>>

\* Power loss or reset: RAM is gone, the flash keeps what has landed.
crash ==
  /\ bootdev_type
  /\ bootdev_type' = FALSE
  /\ pc' = "idle"
  /\ vendor_info' = ResetImage
  /\ UNCHANGED <<parts, next_index, acked, last, fails>>

Next ==
  \/ vendor_storage_init
  \/ vendor_storage_reset
  \/ vendor_storage_init_eio
  \/ \E id \in Ids, v \in Vals : vendor_storage_write(id, v)
  \/ vendor_ops_head
  \/ vendor_ops_tail
  \/ return_size
  \/ return_eio
  \/ crash

Spec == Init /\ [][Next]_vars

-----------------------------------------------------------------------------
\* The image that vendor_storage_init would leave in RAM if it ran now.
Recovered ==
  IF NoneValid THEN ResetImage
               ELSE Loaded(parts[CHOOSE i \in Parts : IsMaxIndex(i)])

TypeOK ==
  /\ parts \in [Parts -> [head : Image, tail : Tail]]
  /\ vendor_info \in Image
  /\ bootdev_type \in BOOLEAN
  /\ pc \in {"idle", "head", "tail", "done"}
  /\ next_index \in Parts
  /\ acked \in Image
  /\ last \in [part : Parts, version : Nat]
  /\ fails \in Nat

\* "(version2 == hdr->version): Data valid": a part that the validity test of
\* vendor_storage_init accepts was written by one vendor_storage_write from
\* its first sector to its last, never the head of one write and the tail of
\* another.
ValidIsWhole ==
  \A i \in Parts : Valid(parts[i]) => parts[i].head.data = parts[i].tail.data

\* A write that returned its size survives whatever interrupts the writes
\* after it: a restart at any moment loads an image at least as new, and the
\* very image that was acknowledged when no newer one is complete.
AckedIsDurable ==
  /\ Recovered.version >= acked.version
  /\ Recovered.version = acked.version => Recovered.data = acked.data

\* The part that vendor_storage_write is about to overwrite is never the one
\* a restart would need.
NeverOverwritesNewest ==
  pc = "head" => ~IsMaxIndex(next_index)

\* What a restart would load never becomes older, whatever step comes next: an
\* image that one boot has found, acknowledged or not, no later boot falls
\* behind.
NeverRollsBack == [][Recovered.version' >= Recovered.version]_vars

\* How far part b lies ahead of part a in the order in which parts are written.
Ahead(a, b) == IF b > a THEN b - a ELSE b - a + PartNum

\* Every tail on the flash is older than the newest complete image, except
\* that image's own.
TailsOld ==
  \A i \in Parts :
    /\ parts[i].tail.version2 # 1
    /\ parts[i].tail.version2 <= last.version
    /\ i # last.part => parts[i].tail.version2 < last.version

\* The newest complete image is on the flash, unless the store is still empty.
LastIsValid ==
  /\ last.version >= 1
  /\ last.version = 1 => last.part = PartNum - 1
  /\ last.version > 1 => /\ Valid(parts[last.part])
                         /\ parts[last.part].head.version = last.version

\* A valid part names the part behind it as the next one to write.
ValidNamesNext ==
  \A i \in Parts : Valid(parts[i]) => parts[i].head.next_index = Advance(i)

\* The write in progress, and the next one, are as many parts ahead of the
\* newest complete image as writes were started since: with fewer failures
\* than there are other parts, they never come round to it.
RamAhead ==
  /\ fails <= MaxFails
  /\ ~bootdev_type => pc = "idle"
  /\ bootdev_type /\ pc = "idle" =>
       /\ vendor_info.version = last.version + fails
       /\ Ahead(last.part, vendor_info.next_index) = fails + 1
  /\ pc \in {"head", "tail"} =>
       /\ vendor_info.version = last.version + fails + 1
       /\ Ahead(last.part, next_index) = fails + 1
       /\ vendor_info.next_index = Advance(next_index)
  /\ pc = "done" =>
       /\ vendor_info.version = last.version
       /\ last.version > 1
       /\ fails = 0
       /\ next_index = last.part
       /\ vendor_info.next_index = Advance(next_index)
  /\ pc \in {"tail", "done"} => parts[next_index].head = vendor_info

\* The last acknowledged image is the newest complete one or older.
AckedNotNewer ==
  /\ acked.version <= last.version
  /\ acked.version = last.version =>
       acked.data = IF last.version = 1 THEN Empty
                                        ELSE parts[last.part].head.data

\* The inductive invariant behind the properties above; it needs fewer than
\* PartNum - 1 failed writes in a row (MaxFails + 2 <= PartNum).
IInv ==
  /\ TypeOK
  /\ TailsOld
  /\ LastIsValid
  /\ ValidIsWhole
  /\ ValidNamesNext
  /\ RamAhead
  /\ AckedNotNewer

\* vendor_storage_write changes the durable contents at one instant, from one
\* image to the next: the store is an AtomicStore.
Atomic == INSTANCE AtomicStore WITH
  mem <- IF bootdev_type THEN vendor_info.data ELSE Empty,
  disk <- Recovered.data,
  up <- bootdev_type,
  busy <- pc # "idle",
  acked <- acked.data

RefinesAtomicStore == Atomic!Spec
=============================================================================
