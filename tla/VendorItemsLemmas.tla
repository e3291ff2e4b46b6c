------------------------- MODULE VendorItemsLemmas -------------------------
(***************************************************************************)
(* What the operations of VendorItems that need no second step do to a     *)
(* whole image, for every data area, alignment, table size and set of item *)
(* sizes: a reset, an update in place and a new item keep it whole.        *)
(***************************************************************************)
EXTENDS VendorItems, TLAPS

\* ALIGN rounds a size up.
LEMMA AlignType ==
  ASSUME NEW n \in Nat
  PROVE  AlignUp(n) \in Nat /\ AlignUp(n) >= n
<1>1. PICK q \in Nat : q = (n + Align - 1) \div Align
  BY AlignAssumption
<1>2. Align * q <= n + Align - 1 /\ n + Align - 1 < Align * q + Align
  BY <1>1, AlignAssumption
<1>3. q * Align \in Nat /\ q * Align = Align * q
  BY AlignAssumption
<1> QED BY <1>1, <1>2, <1>3, AlignAssumption DEF AlignUp

\* ALIGN is monotone: a size that fits a room of t bytes, rounded, fits it rounded.
LEMMA AlignLeast ==
  ASSUME NEW s \in Nat, NEW t \in Nat, s <= AlignUp(t)
  PROVE  AlignUp(s) <= AlignUp(t)
<1>1. PICK q \in Nat : q = (s + Align - 1) \div Align
  BY AlignAssumption
<1>2. PICK r \in Nat : r = (t + Align - 1) \div Align
  BY AlignAssumption
<1>3. Align * q <= s + Align - 1
  BY <1>1, AlignAssumption
<1>4. s <= r * Align
  BY <1>2, AlignAssumption DEF AlignUp
<1>5. q <= r
  <2> SUFFICES ASSUME q >= r + 1 PROVE FALSE
    OBVIOUS
  <2>1. Align * q >= Align * (r + 1)
    BY AlignAssumption
  <2>2. Align * (r + 1) = r * Align + Align
    BY AlignAssumption
  <2>3. r * Align \in Nat /\ Align * q \in Nat
    BY AlignAssumption
  <2> QED BY <2>1, <2>2, <2>3, <1>3, <1>4, AlignAssumption
<1>6. q * Align <= r * Align
  BY <1>5, AlignAssumption
<1> QED BY <1>1, <1>2, <1>6 DEF AlignUp

\* The image that init lays out when it finds no valid copy is whole and empty.
LEMMA ResetWhole ==
  ResetImage \in Image /\ Absent \in Contents /\ Whole(ResetImage, Absent)
BY SizeAssumption DEF ResetImage, Absent, Image, Contents, Item, NoItem, Entries,
   Whole, Laid, Distinct, Used

\* d is the data of img after value v of item id, n bytes, was written to o.
Wrote(img, d, o, id, v, n) ==
  /\ d \in [0 .. DataSize - 1 -> (Ids \X Vals \X Nat) \cup {None}]
  /\ \A k \in 0 .. n - 1 : d[o + k] = Byte(id, v, k)
  /\ \A c \in 0 .. DataSize - 1 : c < o \/ c >= o + n => d[c] = img.data[c]

\* A memcpy of a value changes the bytes of its range only.
LEMMA PutBytes ==
  ASSUME NEW img \in Image, NEW o \in Nat, NEW id \in Ids, NEW v \in Vals,
         NEW n \in Nat, o + n <= DataSize
  PROVE  Wrote(img, Put(img.data, o, id, v, n), o, id, v, n)
<1>1. img.data \in [0 .. DataSize - 1 -> (Ids \X Vals \X Nat) \cup {None}]
  BY DEF Image
<1>2. \A c \in 0 .. DataSize - 1 :
        c >= o /\ c < o + n => Byte(id, v, c - o) \in Ids \X Vals \X Nat
  BY SizeAssumption DEF Byte
<1>3. \A k \in 0 .. n - 1 : o + k \in 0 .. DataSize - 1 /\ (o + k) - o = k
  BY SizeAssumption
<1> DEFINE d == Put(img.data, o, id, v, n)
<1>4. d = [c \in 0 .. DataSize - 1 |-> IF c >= o /\ c < o + n THEN Byte(id, v, c - o)
                                                             ELSE img.data[c]]
  BY <1>1 DEF Put
<1>5. d \in [0 .. DataSize - 1 -> (Ids \X Vals \X Nat) \cup {None}]
  BY <1>1, <1>2, <1>4
<1>6. ASSUME NEW k \in 0 .. n - 1 PROVE d[o + k] = Byte(id, v, k)
  <2>1. o + k >= o /\ o + k < o + n
    OBVIOUS
  <2> QED BY <2>1, <1>3, <1>4
<1>7. ASSUME NEW c \in 0 .. DataSize - 1, c < o \/ c >= o + n
      PROVE  d[c] = img.data[c]
  BY <1>4, <1>7
<1> HIDE DEF d
<1>8. Wrote(img, d, o, id, v, n)
  BY <1>5, <1>6, <1>7 DEF Wrote
<1> QED BY <1>8 DEF d

\* m is the data of img after a copy of n bytes from o to d.
MovedDown(img, m, d, o, n) ==
  /\ m \in [0 .. DataSize - 1 -> (Ids \X Vals \X Nat) \cup {None}]
  /\ \A k \in 0 .. n - 1 : m[d + k] = img.data[o + k]
  /\ \A c \in 0 .. DataSize - 1 : c < d \/ c >= d + n => m[c] = img.data[c]

\* The memcpy of an item towards the start of the data changes the bytes of its
\* new range only.
LEMMA MoveBytes ==
  ASSUME NEW img \in Image, NEW d \in Nat, NEW o \in Nat, NEW n \in Nat,
         d <= o, o + n <= DataSize
  PROVE  MovedDown(img, Move(img.data, d, o, n), d, o, n)
<1>1. img.data \in [0 .. DataSize - 1 -> (Ids \X Vals \X Nat) \cup {None}]
  BY DEF Image
<1>2. \A c \in 0 .. DataSize - 1 :
        c >= d /\ c < d + n => c - d + o \in 0 .. DataSize - 1
  BY SizeAssumption
<1>3. \A k \in 0 .. n - 1 : d + k \in 0 .. DataSize - 1 /\ (d + k) - d + o = o + k
  BY SizeAssumption
<1> DEFINE m == Move(img.data, d, o, n)
<1>4. m = [c \in 0 .. DataSize - 1 |-> IF c >= d /\ c < d + n THEN img.data[c - d + o]
                                                             ELSE img.data[c]]
  BY <1>1 DEF Move
<1>5. m \in [0 .. DataSize - 1 -> (Ids \X Vals \X Nat) \cup {None}]
  BY <1>1, <1>2, <1>4
<1>6. ASSUME NEW k \in 0 .. n - 1 PROVE m[d + k] = img.data[o + k]
  <2>1. d + k >= d /\ d + k < d + n
    OBVIOUS
  <2> QED BY <2>1, <1>3, <1>4
<1>7. ASSUME NEW c \in 0 .. DataSize - 1, c < d \/ c >= d + n
      PROVE  m[c] = img.data[c]
  BY <1>4, <1>7
<1> QED BY <1>5, <1>6, <1>7 DEF MovedDown

\* The types of the fields of an image and of the entries in use.
LEMMA ImageFields ==
  ASSUME NEW img \in Image
  PROVE  /\ img.item \in [Entries -> Item]
         /\ img.item_num \in 0 .. MaxItems
         /\ img.free_offset \in Nat /\ img.free_size \in Nat
         /\ img.data \in [0 .. DataSize - 1 -> (Ids \X Vals \X Nat) \cup {None}]
         /\ Used(img) \subseteq Entries
         /\ Used(img) \subseteq Nat
         /\ \A a \in Entries : /\ img.item[a] \in Item
                               /\ img.item[a].offset \in Nat
                               /\ img.item[a].size \in Nat
                               /\ AlignUp(img.item[a].size) \in Nat
                               /\ AlignUp(img.item[a].size) >= img.item[a].size
<1>1. img.item \in [Entries -> Item] /\ img.item_num \in 0 .. MaxItems
  BY DEF Image
<1>2. \A a \in Entries : /\ img.item[a] \in Item
                        /\ img.item[a].offset \in Nat
                        /\ img.item[a].size \in Nat
  BY <1>1 DEF Item
<1>3. Used(img) \subseteq Entries /\ Used(img) \subseteq Nat
  BY <1>1, SizeAssumption DEF Used, Entries
<1> QED BY <1>1, <1>2, <1>3, AlignType DEF Image

\* Only the n bytes from o on differ.
SameOutside(img, new, o, n) ==
  \A c \in 0 .. DataSize - 1 : c < o \/ c >= o + n => new.data[c] = img.data[c]

\* Writing to a range that an item's extent does not meet leaves it as it is.
LEMMA HoldsElsewhere ==
  ASSUME NEW img \in Image, NEW new \in Image, NEW contents, NEW contents2,
         NEW a \in Entries, NEW o \in Nat, NEW n \in Nat,
         Holds(img, contents, a),
         new.item[a] = img.item[a],
         contents2[img.item[a].id] = contents[img.item[a].id],
         End(img.item[a]) <= DataSize,
         SameOutside(img, new, o, n),
         End(img.item[a]) <= o \/ o + n <= img.item[a].offset
  PROVE  Holds(new, contents2, a)
<1> DEFINE e == img.item[a]
<1>1. /\ e.offset \in Nat /\ e.size \in Nat
      /\ AlignUp(e.size) \in Nat /\ AlignUp(e.size) >= e.size
  BY ImageFields
<1>2. ASSUME NEW k \in 0 .. e.size - 1
      PROVE  new.data[e.offset + k] = img.data[e.offset + k]
  <2>1. e.offset + k \in 0 .. DataSize - 1 /\ e.offset + k < End(e)
    BY <1>1, SizeAssumption DEF End
  <2>2. e.offset + k < o \/ e.offset + k >= o + n
    BY <2>1, <1>1 DEF End
  <2> QED BY <2>1, <2>2 DEF SameOutside
<1> QED BY <1>2 DEF Holds

\* A write that fits the room of its item keeps the image whole.
LEMMA UpdateWhole ==
  ASSUME NEW img \in Image, NEW contents \in Contents, Whole(img, contents),
         NEW i \in Used(img), NEW v \in Vals, NEW size \in Nat, NEW id \in Ids,
         img.item[i].id = id, size <= AlignUp(img.item[i].size)
  PROVE  /\ Updated(img, i, v, size) \in Image
         /\ Stored(contents, id, v, size) \in Contents
         /\ Whole(Updated(img, i, v, size), Stored(contents, id, v, size))
<1> DEFINE e == img.item[i]
           new == Updated(img, i, v, size)
           contents2 == Stored(contents, id, v, size)
<1>fields. /\ new.item_num = img.item_num
      /\ new.free_offset = img.free_offset /\ new.free_size = img.free_size
      /\ new.item = [img.item EXCEPT ![i].size = size]
      /\ new.data = Put(img.data, e.offset, id, v, size)
  BY DEF Image, Updated
<1>image. ASSUME new.item \in [Entries -> Item],
              new.data \in [0 .. DataSize - 1 -> (Ids \X Vals \X Nat) \cup {None}]
       PROVE  new \in Image
  BY <1>image, <1>fields DEF Image, Updated
<1> HIDE DEF new
<1>1. /\ i \in Entries /\ i \in Nat
      /\ e.offset \in Nat /\ e.size \in Nat /\ e \in Item
      /\ AlignUp(e.size) \in Nat
      /\ img.free_offset \in Nat /\ img.free_size \in Nat
      /\ \A a \in Used(img) : a \in Entries /\ a \in Nat
  BY ImageFields
<1>2. End(e) <= img.free_offset /\ img.free_offset + img.free_size <= DataSize
  BY DEF Whole, Laid
<1>3. e.offset + size <= End(e) /\ End(e) <= DataSize /\ e.offset + size <= DataSize
  BY <1>1, <1>2, SizeAssumption DEF End
<1>4. /\ new.item_num = img.item_num
      /\ new.free_offset = img.free_offset /\ new.free_size = img.free_size
      /\ new.item = [img.item EXCEPT ![i] = [id |-> e.id, offset |-> e.offset, size |-> size]]
      /\ new.data = Put(img.data, e.offset, id, v, size)
      /\ Used(new) = Used(img)
  <2>1. [e EXCEPT !.size = size] = [id |-> e.id, offset |-> e.offset, size |-> size]
    BY <1>1 DEF Item
  <2> QED BY <2>1, <1>fields, <1>1, ImageFields DEF Used
<1>5. /\ new.data \in [0 .. DataSize - 1 -> (Ids \X Vals \X Nat) \cup {None}]
      /\ \A k \in 0 .. size - 1 : new.data[e.offset + k] = Byte(id, v, k)
      /\ SameOutside(img, new, e.offset, size)
  <2>1. Wrote(img, Put(img.data, e.offset, id, v, size), e.offset, id, v, size)
    BY <1>1, <1>3, PutBytes
  <2>2. Wrote(img, new.data, e.offset, id, v, size)
    BY <2>1, <1>4
  <2> QED BY <2>2 DEF Wrote, SameOutside
<1>6. new.item \in [Entries -> Item]
  <2>1. [id |-> e.id, offset |-> e.offset, size |-> size] \in Item
    BY <1>1 DEF Item
  <2> QED BY <2>1, <1>1, <1>4, ImageFields
<1>7. new \in Image
  BY <1>image, <1>5, <1>6
<1>8. /\ contents2 \in Contents
      /\ contents2[id] = [v |-> v, size |-> size]
      /\ \A x \in Ids : x # id => contents2[x] = contents[x]
  BY DEF Contents, Stored
<1> HIDE DEF contents2
<1>9. /\ new.item[i] = [id |-> id, offset |-> e.offset, size |-> size]
      /\ \A a \in Used(img) : a # i => new.item[a] = img.item[a]
      /\ \A a \in Used(img) : /\ new.item[a].id = img.item[a].id
                              /\ new.item[a].offset = img.item[a].offset
  BY <1>1, <1>4, ImageFields
<1>10. \A a \in Used(img) : /\ End(new.item[a]) \in Nat /\ End(img.item[a]) \in Nat
                            /\ End(new.item[a]) <= End(img.item[a])
  <2> TAKE a \in Used(img)
  <2>1. /\ img.item[a].offset \in Nat /\ AlignUp(img.item[a].size) \in Nat
    BY ImageFields
  <2>2. CASE a # i
    BY <2>1, <2>2, <1>9 DEF End
  <2>3. CASE a = i
    <3>1. AlignUp(size) <= AlignUp(e.size) /\ AlignUp(size) \in Nat
      BY <1>1, AlignLeast, AlignType
    <3> QED BY <2>1, <2>3, <3>1, <1>9 DEF End
  <2> QED BY <2>2, <2>3
<1>11. Laid(new)
  <2>1. ASSUME NEW a \in Used(img), NEW b \in Used(img), a < b
        PROVE  End(new.item[a]) <= new.item[b].offset
    <3>1. End(img.item[a]) <= img.item[b].offset /\ img.item[b].offset \in Nat
      BY <2>1, ImageFields DEF Whole, Laid
    <3> QED BY <3>1, <1>9, <1>10
  <2>2. ASSUME NEW a \in Used(img) PROVE End(new.item[a]) <= new.free_offset
    <3>1. End(img.item[a]) <= img.free_offset
      BY DEF Whole, Laid
    <3> QED BY <3>1, <1>1, <1>4, <1>10
  <2> QED BY <2>1, <2>2, <1>2, <1>4 DEF Laid
<1>12. Distinct(new)
  BY <1>4, <1>9 DEF Distinct, Whole
<1>13. ASSUME NEW a \in Used(img) PROVE Holds(new, contents2, a)
  <2>1. CASE a = i
    BY <2>1, <1>5, <1>8, <1>9, NoneAssumption DEF Holds
  <2>2. CASE a # i
    <3>1. Holds(img, contents, a) /\ img.item[a].id # id
      BY <2>2 DEF Whole, Distinct
    <3>2. contents2[img.item[a].id] = contents[img.item[a].id]
      BY <3>1, <1>8 DEF Holds
    <3>3. End(img.item[a]) <= DataSize
      <4>1. End(img.item[a]) <= img.free_offset
        BY DEF Whole, Laid
      <4> QED BY <4>1, <1>1, <1>2, <1>10, SizeAssumption
    <3>4. End(img.item[a]) <= e.offset \/ e.offset + size <= img.item[a].offset
      <4>1. a \in Nat /\ img.item[a].offset \in Nat
        BY ImageFields
      <4>2. CASE a < i
        BY <4>2 DEF Whole, Laid
      <4>3. CASE i < a
        <5>1. End(e) <= img.item[a].offset
          BY <4>3 DEF Whole, Laid
        <5> QED BY <5>1, <4>1, <1>1, <1>3, <1>10
      <4> QED BY <2>2, <4>1, <4>2, <4>3, <1>1
    <3>5. a \in Entries /\ new.item[a] = img.item[a]
      BY <2>2, <1>1, <1>9
    <3> QED BY <3>1, <3>2, <3>3, <3>4, <3>5, <1>1, <1>5, <1>7, HoldsElsewhere, SMTT(30)
  <2> QED BY <2>1, <2>2
<1>14. ASSUME NEW x \in Ids, contents2[x].v # None
       PROVE  \E a \in Used(new) : new.item[a].id = x
  <2>1. x = id \/ contents[x].v # None
    BY <1>8, <1>14
  <2>2. \E a \in Used(img) : img.item[a].id = x
    BY <2>1 DEF Whole
  <2> QED BY <2>2, <1>4, <1>9
<1> QED BY <1>4, <1>7, <1>8, <1>11, <1>12, <1>13, <1>14 DEF Whole, new, contents2

\* A write of a new item, put at free_offset, keeps the image whole.
LEMMA CreateWhole ==
  ASSUME NEW img \in Image, NEW contents \in Contents, Whole(img, contents),
         NEW v \in Vals, NEW size \in Nat, NEW id \in Ids,
         \A i \in Used(img) : img.item[i].id # id,
         img.item_num < MaxItems, AlignUp(size) <= img.free_size
  PROVE  /\ Created(img, id, v, size) \in Image
         /\ Stored(contents, id, v, size) \in Contents
         /\ Whole(Created(img, id, v, size), Stored(contents, id, v, size))
<1> DEFINE new == Created(img, id, v, size)
           contents2 == Stored(contents, id, v, size)
           n == img.item_num
           o == img.free_offset
<1>1. /\ n \in Entries /\ n \in Nat
      /\ o \in Nat /\ img.free_size \in Nat
      /\ AlignUp(size) \in Nat /\ size <= AlignUp(size)
      /\ \A a \in Used(img) : a \in Entries /\ a \in Nat /\ a < n
      /\ \A a \in Entries : /\ img.item[a].offset \in Nat
                            /\ AlignUp(img.item[a].size) \in Nat
                            /\ End(img.item[a]) \in Nat
  <2>1. n \in Entries /\ n \in Nat
    BY ImageFields, SizeAssumption DEF Entries
  <2>2. \A a \in Used(img) : a \in Entries /\ a \in Nat /\ a < n
    BY <2>1, ImageFields DEF Used
  <2>3. AlignUp(size) \in Nat /\ size <= AlignUp(size)
    BY AlignType
  <2>4. \A a \in Entries : /\ img.item[a].offset \in Nat
                          /\ AlignUp(img.item[a].size) \in Nat
    BY ImageFields
  <2>5. \A a \in Entries : End(img.item[a]) \in Nat
    BY <2>4 DEF End
  <2>6. o \in Nat /\ img.free_size \in Nat
    BY ImageFields
  <2> QED BY <2>1, <2>2, <2>3, <2>4, <2>5, <2>6
<1>fields.
      /\ new.item_num = n + 1
      /\ new.free_offset = o + AlignUp(size)
      /\ new.free_size = img.free_size - AlignUp(size)
      /\ new.item = [img.item EXCEPT ![n] = [id |-> id, offset |-> o, size |-> size]]
      /\ new.data = Put(img.data, o, id, v, size)
  BY DEF Image, Created
<1>2. /\ new.item_num \in 0 .. MaxItems
      /\ new.free_offset \in Nat /\ new.free_size \in Nat
      /\ new.free_offset + new.free_size = o + img.free_size
  <2> HIDE DEF new
  <2>1. n + 1 \in 0 .. MaxItems
    BY <1>1, SizeAssumption
  <2>2. img.free_size - AlignUp(size) \in Nat
    BY <1>1
  <2> QED BY <2>1, <2>2, <1>1, <1>fields
<1>image. ASSUME new.item \in [Entries -> Item],
                 new.data \in [0 .. DataSize - 1 -> (Ids \X Vals \X Nat) \cup {None}]
          PROVE  new \in Image
  BY <1>image, <1>2 DEF Image, Created
<1> HIDE DEF new
<1>3. o + img.free_size <= DataSize
  BY DEF Whole, Laid
<1>4. o + size <= DataSize /\ o + AlignUp(size) <= DataSize
  BY <1>1, <1>3, SizeAssumption
<1>5. /\ new.data \in [0 .. DataSize - 1 -> (Ids \X Vals \X Nat) \cup {None}]
      /\ \A k \in 0 .. size - 1 : new.data[o + k] = Byte(id, v, k)
      /\ SameOutside(img, new, o, size)
  <2>1. Wrote(img, Put(img.data, o, id, v, size), o, id, v, size)
    BY <1>1, <1>4, PutBytes
  <2>2. Wrote(img, new.data, o, id, v, size)
    BY <2>1, <1>fields
  <2> QED BY <2>2 DEF Wrote, SameOutside
<1>6. new.item \in [Entries -> Item]
  <2>1. [id |-> id, offset |-> o, size |-> size] \in Item
    BY <1>1 DEF Item
  <2> QED BY <2>1, <1>1, <1>fields, ImageFields
<1>7. new \in Image
  BY <1>image, <1>5, <1>6
<1>8. /\ contents2 \in Contents
      /\ contents2[id] = [v |-> v, size |-> size]
      /\ \A x \in Ids : x # id => contents2[x] = contents[x]
  BY DEF Contents, Stored
<1> HIDE DEF contents2
<1>9. /\ Used(new) = Used(img) \cup {n}
      /\ new.item[n] = [id |-> id, offset |-> o, size |-> size]
      /\ \A a \in Used(img) : new.item[a] = img.item[a] /\ a # n
  <2>1. Used(new) = Used(img) \cup {n}
    BY <1>1, <1>fields, ImageFields, SMTT(30) DEF Used
  <2>2. new.item[n] = [id |-> id, offset |-> o, size |-> size]
    BY <1>1, <1>fields, ImageFields
  <2>3. \A a \in Used(img) : a # n
    BY <1>1
  <2>4. \A a \in Used(img) : new.item[a] = img.item[a]
    BY <1>1, <2>3, <1>fields, ImageFields
  <2> QED BY <2>1, <2>2, <2>3, <2>4
<1>10. End(new.item[n]) = new.free_offset /\ o <= new.free_offset
  BY <1>1, <1>9, <1>fields DEF End
<1>11. \A a \in Used(img) : End(img.item[a]) <= o
  BY DEF Whole, Laid
<1>12. Laid(new)
  <2>1. ASSUME NEW a \in Used(new), NEW b \in Used(new), a < b
        PROVE  End(new.item[a]) <= new.item[b].offset
    <3>1. a \in Used(img)
      BY <2>1, <1>1, <1>9
    <3>2. CASE b = n
      BY <3>1, <3>2, <1>9, <1>11
    <3>3. CASE b \in Used(img)
      BY <2>1, <3>1, <3>3, <1>9 DEF Whole, Laid
    <3> QED BY <3>2, <3>3, <1>9
  <2>2. ASSUME NEW a \in Used(new) PROVE End(new.item[a]) <= new.free_offset
    <3>1. CASE a = n
      BY <3>1, <1>2, <1>10
    <3>2. CASE a \in Used(img)
      <4>1. End(img.item[a]) <= o /\ End(img.item[a]) \in Nat
        BY <3>2, <1>1, <1>11
      <4> QED BY <4>1, <3>2, <1>1, <1>2, <1>9, <1>10
    <3> QED BY <3>1, <3>2, <1>9
  <2>3. new.free_offset + new.free_size <= DataSize
    BY <1>2, <1>3
  <2> QED BY <2>1, <2>2, <2>3 DEF Laid
<1>13. Distinct(new)
  BY <1>9 DEF Distinct, Whole
<1>14. ASSUME NEW a \in Used(new) PROVE Holds(new, contents2, a)
  <2>1. CASE a = n
    BY <2>1, <1>5, <1>8, <1>9, NoneAssumption DEF Holds
  <2>2. CASE a \in Used(img)
    <3>1. Holds(img, contents, a) /\ img.item[a].id # id
      BY <2>2 DEF Whole
    <3>2. contents2[img.item[a].id] = contents[img.item[a].id]
      BY <3>1, <1>8 DEF Holds
    <3>3. End(img.item[a]) <= DataSize /\ End(img.item[a]) <= o
      BY <2>2, <1>1, <1>3, <1>11, SizeAssumption
    <3>4. a \in Entries /\ new.item[a] = img.item[a]
      BY <2>2, <1>1, <1>9
    <3> QED BY <3>1, <3>2, <3>3, <3>4, <1>1, <1>5, <1>7, HoldsElsewhere
  <2> QED BY <2>1, <2>2, <1>9
<1>15. ASSUME NEW x \in Ids, contents2[x].v # None
       PROVE  \E a \in Used(new) : new.item[a].id = x
  <2>1. CASE x = id
    BY <2>1, <1>9
  <2>2. CASE x # id
    <3>1. \E a \in Used(img) : img.item[a].id = x
      BY <2>2, <1>8, <1>15 DEF Whole
    <3> QED BY <3>1, <1>9
  <2> QED BY <2>1, <2>2
<1> QED BY <1>7, <1>8, <1>12, <1>13, <1>14, <1>15 DEF Whole, new, contents2
============================================================================
