---------------------------- MODULE VendorItems ----------------------------
(***************************************************************************)
(* The item table of the vendor storage of u-boot                          *)
(* (arch/arm/mach-rockchip/vendor.c).  Items lie in one data area, each in *)
(* an extent of aligned size; an item that outgrows its extent is taken    *)
(* out, the items behind it move down, and it is appended again.           *)
(*                                                                         *)
(* The flash is an AtomicStore here: VendorStorage shows that the parts    *)
(* and versions implement one.  A write therefore becomes durable at one   *)
(* instant (persist), and a restart loads the last image that did.         *)
(***************************************************************************)
EXTENDS Integers

CONSTANTS
  Ids,        \* item ids
  Vals,       \* values that are written to items
  None,       \* an unwritten cell, the id of an unused entry
  Align,      \* VENDOR_BTYE_ALIGN + 1
  DataSize,   \* bytes between data and hash
  MaxItems,   \* EMMC_, NAND_ or FLASH_VENDOR_ITEM_NUM
  Sizes       \* bound: the sizes that are written

ASSUME AlignAssumption == Align \in Nat /\ Align >= 1
ASSUME SizeAssumption == DataSize \in Nat /\ MaxItems \in Nat /\ Sizes \subseteq Nat
ASSUME NoneAssumption == None \notin Ids /\ None \notin Vals

VARIABLES
  info,      \* vendor_info: the image in RAM
  flash,     \* the image that a restart loads
  up,        \* bootdev_type is set
  pc,        \* where vendor_storage_write stands
  j,         \* its loop variable
  offset,    \* its local offset
  req,       \* its arguments
  stored,    \* auxiliary: what the finished writes put into RAM
  saved      \* auxiliary: what they put onto the flash

vars == <<info, flash, up, pc, j, offset, req, stored, saved>>

Entries == 0 .. MaxItems - 1

\* The k-th byte of value v of item id.
Byte(id, v, k) == <<id, v, k>>

NoItem == [id |-> None, offset |-> 0, size |-> 0]
NoReq == [id |-> None, v |-> None, size |-> 0, alloc |-> 0]

\* memset, version and free_size of a store without a valid part.
ResetImage == [item |-> [a \in Entries |-> NoItem], item_num |-> 0,
               free_offset |-> 0, free_size |-> DataSize,
               data |-> [c \in 0 .. DataSize - 1 |-> None]]

Absent == [id \in Ids |-> [v |-> None, size |-> 0]]

\* (n + VENDOR_BTYE_ALIGN) & ~VENDOR_BTYE_ALIGN
AlignUp(n) == ((n + Align - 1) \div Align) * Align

\* memcpy of a value to offset o of the data area.
Put(data, o, id, v, n) ==
  [c \in DOMAIN data |-> IF c >= o /\ c < o + n THEN Byte(id, v, c - o)
                                                ELSE data[c]]

\* memcpy inside the data area, byte after byte in ascending order, from o
\* to the lower offset d.
Move(data, d, o, n) ==
  [c \in DOMAIN data |-> IF c >= d /\ c < d + n THEN data[c - d + o]
                                                ELSE data[c]]

Used(img) == 0 .. img.item_num - 1

\* Entry i of image img takes the value v in the extent it has.
Updated(img, i, v, size) ==
  [img EXCEPT !.item[i].size = size,
              !.data = Put(img.data, img.item[i].offset, img.item[i].id, v, size)]

\* Mutant of Shifted: the data stays where it was.
ShiftedEntryOnly(img, n, o) ==
  LET next == img.item[n + 1] IN
  [img EXCEPT !.item[n] = [id |-> next.id, offset |-> o, size |-> next.size]]

\* Entry n + 1 moves down to entry n, its data to offset o.
Shifted(img, n, o) ==
  LET next == img.item[n + 1] IN
  [img EXCEPT !.item[n] = [id |-> next.id, offset |-> o, size |-> next.size],
              !.data = Move(img.data, o, next.offset, AlignUp(next.size))]

\* Mutant of Appended: free_offset is not moved.
AppendedKeepsOffset(img, n, o, r) ==
  [img EXCEPT !.item[n] = [id |-> r.id, offset |-> o, size |-> r.size],
              !.data = Put(img.data, o, r.id, r.v, r.size),
              !.free_size = img.free_size - (AlignUp(r.size) - r.alloc)]

\* Mutant of Appended: the whole old extent is given back twice.
AppendedFreesTwice(img, n, o, r) ==
  [img EXCEPT !.item[n] = [id |-> r.id, offset |-> o, size |-> r.size],
              !.data = Put(img.data, o, r.id, r.v, r.size),
              !.free_offset = o + AlignUp(r.size),
              !.free_size = img.free_size - AlignUp(r.size) + 2 * r.alloc]

\* The item of request r becomes entry n, the last one, at offset o.
Appended(img, n, o, r) ==
  [img EXCEPT !.item[n] = [id |-> r.id, offset |-> o, size |-> r.size],
              !.data = Put(img.data, o, r.id, r.v, r.size),
              !.free_offset = o + AlignUp(r.size),
              !.free_size = img.free_size - (AlignUp(r.size) - r.alloc)]

\* A new entry behind the others, at free_offset.
Created(img, id, v, size) ==
  [img EXCEPT !.item[img.item_num] =
                 [id |-> id, offset |-> img.free_offset, size |-> size],
              !.item_num = img.item_num + 1,
              !.free_offset = img.free_offset + AlignUp(size),
              !.free_size = img.free_size - AlignUp(size),
              !.data = Put(img.data, img.free_offset, id, v, size)]

Stored(contents, id, v, size) ==
  [contents EXCEPT ![id] = [v |-> v, size |-> size]]

-----------------------------------------------------------------------------

Init ==
  /\ info = ResetImage
  /\ flash = ResetImage
  /\ up = FALSE
  /\ pc = "idle"
  /\ j = 0
  /\ offset = 0
  /\ req = NoReq
  /\ stored = Absent
  /\ saved = Absent

\* The first call after power-up loads the newest image.
vendor_storage_init ==
  /\ ~up
  /\ up' = TRUE
  /\ info' = flash
  /\ stored' = saved
  /\ UNCHANGED <<flash, pc, j, offset, req, saved>>

\* The item exists and the new value fits its extent: it is updated in place.
update(id, v, size) ==
  /\ up /\ pc = "idle"
  /\ \E i \in Used(info) :
       /\ info.item[i].id = id
       /\ size <= AlignUp(info.item[i].size)
       /\ info' = Updated(info, i, v, size)
  /\ stored' = Stored(stored, id, v, size)
  /\ pc' = "flash"
  /\ UNCHANGED <<flash, up, j, offset, req, saved>>

\* Mutant of grow: the items behind are packed from free_offset on.
GrowFromFree(id, v, size) ==
  /\ up /\ pc = "idle"
  /\ \E i \in Used(info) :
       /\ info.item[i].id = id
       /\ size > AlignUp(info.item[i].size)
       /\ info.free_size >= AlignUp(size)
       /\ j' = i
       /\ offset' = info.free_offset
       /\ req' = [id |-> id, v |-> v, size |-> size,
                  alloc |-> AlignUp(info.item[i].size)]
  /\ pc' = "shift"
  /\ UNCHANGED <<info, flash, up, stored, saved>>

\* The item exists, the value does not fit its extent and there is room for
\* a new one: the loop over the items behind it starts.  Without that room
\* the call returns -EINVAL and changes nothing.
grow(id, v, size) ==
  /\ up /\ pc = "idle"
  /\ \E i \in Used(info) :
       /\ info.item[i].id = id
       /\ size > AlignUp(info.item[i].size)
       /\ info.free_size >= AlignUp(size)
       /\ j' = i
       /\ offset' = info.item[i].offset
       /\ req' = [id |-> id, v |-> v, size |-> size,
                  alloc |-> AlignUp(info.item[i].size)]
  /\ pc' = "shift"
  /\ UNCHANGED <<info, flash, up, stored, saved>>

\* One iteration of the loop.
shift ==
  /\ pc = "shift"
  /\ j < info.item_num - 1
  /\ info' = Shifted(info, j, offset)
  /\ offset' = offset + AlignUp(info.item[j + 1].size)
  /\ j' = j + 1
  /\ UNCHANGED <<flash, up, pc, req, stored, saved>>

\* After the loop: the item becomes the last one.
append ==
  /\ pc = "shift"
  /\ j >= info.item_num - 1
  /\ info' = Appended(info, j, offset, req)
  /\ stored' = Stored(stored, req.id, req.v, req.size)
  /\ pc' = "flash"
  /\ j' = 0 /\ offset' = 0 /\ req' = NoReq
  /\ UNCHANGED <<flash, up, saved>>

\* The item does not exist and there is an entry and room for it.  Otherwise
\* the call returns -ENOMEM and changes nothing.
create(id, v, size) ==
  /\ up /\ pc = "idle"
  /\ \A i \in Used(info) : info.item[i].id # id
  /\ info.item_num < MaxItems
  /\ info.free_size >= AlignUp(size)
  /\ info' = Created(info, id, v, size)
  /\ stored' = Stored(stored, id, v, size)
  /\ pc' = "flash"
  /\ UNCHANGED <<flash, up, j, offset, req, saved>>

\* vendor_ops: the new image becomes the one that a restart loads.
persist ==
  /\ pc = "flash"
  /\ flash' = info
  /\ saved' = stored
  /\ pc' = "written"
  /\ UNCHANGED <<info, up, j, offset, req, stored>>

return_size ==
  /\ pc = "written"
  /\ pc' = "idle"
  /\ UNCHANGED <<info, flash, up, j, offset, req, stored, saved>>

\* -EIO: the RAM image keeps the new item.
return_eio ==
  /\ pc \in {"flash", "written"}
  /\ pc' = "idle"
  /\ UNCHANGED <<info, flash, up, j, offset, req, stored, saved>>

\* Power loss, in the middle of the loop too.
crash ==
  /\ up
  /\ up' = FALSE
  /\ info' = ResetImage
  /\ stored' = Absent
  /\ pc' = "idle"
  /\ j' = 0 /\ offset' = 0 /\ req' = NoReq
  /\ UNCHANGED <<flash, saved>>

Next ==
  \/ vendor_storage_init
  \/ \E id \in Ids, v \in Vals, size \in Sizes :
       \/ update(id, v, size)
       \/ grow(id, v, size)
       \/ create(id, v, size)
  \/ shift
  \/ append
  \/ persist
  \/ return_size
  \/ return_eio
  \/ crash

Spec == Init /\ [][Next]_vars

-----------------------------------------------------------------------------
Item == [id : Ids \cup {None}, offset : Nat, size : Nat]

Image == [item : [Entries -> Item], item_num : 0 .. MaxItems,
          free_offset : Nat, free_size : Nat,
          data : [0 .. DataSize - 1 ->
                    (Ids \X Vals \X Nat) \cup {None}]]

Request == [id : Ids \cup {None}, v : Vals \cup {None}, size : Nat, alloc : Nat]

Contents == [Ids -> [v : Vals \cup {None}, size : Nat]]

TypeOK ==
  /\ info \in Image /\ flash \in Image
  /\ up \in BOOLEAN
  /\ pc \in {"idle", "shift", "flash", "written"}
  /\ j \in Nat /\ offset \in Nat
  /\ req \in Request
  /\ stored \in Contents /\ saved \in Contents

\* vendor_storage_read: the bytes of the item, from the first matching entry.
vendor_storage_read(img, id, size) ==
  LET i == CHOOSE a \in Used(img) : /\ img.item[a].id = id
                                    /\ \A b \in 0 .. a - 1 : img.item[b].id # id
      n == IF size > img.item[i].size THEN img.item[i].size ELSE size
  IN  [k \in 0 .. n - 1 |-> img.data[img.item[i].offset + k]]

\* Reading any item of an image gives the bytes that contents says.
ReadsBack(img, contents) ==
  \A id \in Ids :
    IF contents[id].v = None
    THEN \A a \in Used(img) : img.item[a].id # id
    ELSE /\ \E a \in Used(img) : img.item[a].id = id
         /\ vendor_storage_read(img, id, DataSize)
              = [k \in 0 .. contents[id].size - 1 |-> Byte(id, contents[id].v, k)]

\* However items grow, shrink and move, whichever writes fail and wherever
\* power is lost, vendor_storage_read returns what was last written to the
\* item, and after a restart what was last written to the flash.
ReadBack ==
  /\ up /\ pc # "shift" => ReadsBack(info, stored)
  /\ ReadsBack(flash, saved)

End(e) == e.offset + AlignUp(e.size)

\* Extents lie in the order of the table, apart from each other, below
\* free_offset, and with the free space inside the data area.
Laid(img) ==
  /\ \A a, b \in Used(img) : a < b => End(img.item[a]) <= img.item[b].offset
  /\ \A a \in Used(img) : End(img.item[a]) <= img.free_offset
  /\ img.free_offset + img.free_size <= DataSize

\* No item shares a byte with another one or reaches into the hash behind the
\* data area, in RAM and in whatever a restart loads.
ExtentsApart ==
  /\ pc # "shift" => Laid(info)
  /\ Laid(flash)

\* Every memcpy of the compaction loop copies towards lower addresses and
\* inside the data area.  The ranges may overlap, for which memcpy gives no
\* guarantee; copying down is what makes an ascending copy correct.
CopiesDown ==
  pc = "shift" /\ j < info.item_num - 1 =>
    /\ offset <= info.item[j + 1].offset
    /\ End(info.item[j + 1]) <= DataSize

\* "Free space size": free_size is the room between free_offset and the end
\* of the data area.  Not an invariant: when an item that has shrunk in place grows
\* again, free_size is charged with room that the compaction has just given back.
FreeIsAccounted == pc # "shift" => info.free_offset + info.free_size = DataSize

-----------------------------------------------------------------------------
\* The inductive invariant.  Entry a of img holds what contents says of its id.
Holds(img, contents, a) ==
  LET e == img.item[a] IN
  /\ e.id \in Ids
  /\ contents[e.id].v # None
  /\ contents[e.id].size = e.size
  /\ \A k \in 0 .. e.size - 1 :
       img.data[e.offset + k] = Byte(e.id, contents[e.id].v, k)

Distinct(img) ==
  \A a, b \in Used(img) : img.item[a].id = img.item[b].id => a = b

Whole(img, contents) ==
  /\ Laid(img)
  /\ Distinct(img)
  /\ \A a \in Used(img) : Holds(img, contents, a)
  /\ \A id \in Ids : contents[id].v # None =>
                        \E a \in Used(img) : img.item[a].id = id

\* Inside the loop entry n is free: the entries before it are in place below
\* offset o, the ones behind it have not moved and lie at least the extent of
\* the removed item above o.
Compacting(img, contents, n, o, r) ==
  LET Others == Used(img) \ {n} IN
  /\ n \in Used(img)
  /\ r.id \in Ids /\ r.v \in Vals
  /\ r.alloc <= AlignUp(r.size)
  /\ AlignUp(r.size) <= img.free_size
  /\ img.free_offset + img.free_size <= DataSize
  /\ o + r.alloc <= img.free_offset
  /\ \A a, b \in Others : a < b => End(img.item[a]) <= img.item[b].offset
  /\ \A a \in Others :
       /\ End(img.item[a]) <= img.free_offset
       /\ a < n => End(img.item[a]) <= o
       /\ a > n => o + r.alloc <= img.item[a].offset
       /\ img.item[a].id # r.id
       /\ Holds(img, contents, a)
  /\ \A a, b \in Others : img.item[a].id = img.item[b].id => a = b
  /\ \A id \in Ids \ {r.id} : contents[id].v # None =>
                                \E a \in Others : img.item[a].id = id

IInv ==
  /\ TypeOK
  /\ up \/ pc = "idle"
  /\ Whole(flash, saved)
  /\ pc # "shift" => Whole(info, stored)
  /\ pc = "shift" => Compacting(info, stored, j, offset, req)
=============================================================================
