------------------------- MODULE VendorItemsProofs -------------------------
(***************************************************************************)
(* The theorems about VendorItems, for every data area, alignment, table   *)
(* size and set of item sizes, and the lemmas on the loop that makes room  *)
(* for an item that has outgrown its space.                                *)
(***************************************************************************)
EXTENDS VendorItemsLemmas

-----------------------------------------------------------------------------
(***************************************************************************)
(* The loop that moves the later items down over the space of an item that *)
(* grows: its invariant Compacting holds when the loop starts, is kept by  *)
(* an iteration, and gives a whole image at its end.                       *)
(***************************************************************************)

\* grow starts the loop in a state that its invariant describes.
LEMMA GrowCompacting ==
  ASSUME NEW img \in Image, NEW contents \in Contents, Whole(img, contents),
         NEW i \in Used(img), NEW v \in Vals, NEW size \in Nat, NEW id \in Ids,
         img.item[i].id = id, size > AlignUp(img.item[i].size),
         AlignUp(size) <= img.free_size
  PROVE  Compacting(img, contents, i, img.item[i].offset,
                    [id |-> id, v |-> v, size |-> size,
                     alloc |-> AlignUp(img.item[i].size)])
<1> DEFINE e == img.item[i]
           r == [id |-> id, v |-> v, size |-> size, alloc |-> AlignUp(e.size)]
<1>1. /\ AlignUp(size) \in Nat /\ size <= AlignUp(size)
      /\ AlignUp(e.size) \in Nat /\ e.offset \in Nat
      /\ \A a \in Used(img) : a \in Nat
  BY ImageFields, AlignType
<1>2. AlignUp(e.size) <= AlignUp(size)
  BY <1>1
<1>3. e.offset + AlignUp(e.size) <= img.free_offset
  BY DEF Whole, Laid, End
<1>4. ASSUME NEW a \in Used(img) \ {i}
      PROVE  /\ End(img.item[a]) <= img.free_offset
             /\ a < i => End(img.item[a]) <= e.offset
             /\ a > i => e.offset + AlignUp(e.size) <= img.item[a].offset
             /\ img.item[a].id # id
             /\ Holds(img, contents, a)
  <2>1. a > i => End(e) <= img.item[a].offset
    BY <1>1 DEF Whole, Laid
  <2> QED BY <2>1, <1>1 DEF Whole, Laid, Distinct, End
<1>5. /\ \A a, b \in Used(img) \ {i} : a < b => End(img.item[a]) <= img.item[b].offset
      /\ \A a, b \in Used(img) \ {i} : img.item[a].id = img.item[b].id => a = b
      /\ img.free_offset + img.free_size <= DataSize
  BY DEF Whole, Laid, Distinct
<1>6. \A x \in Ids \ {id} : contents[x].v # None =>
                           \E a \in Used(img) \ {i} : img.item[a].id = x
  BY DEF Whole
<1>7. r.id = id /\ r.v = v /\ r.size = size /\ r.alloc = AlignUp(e.size)
  OBVIOUS
<1> HIDE DEF r
<1> QED BY <1>2, <1>3, <1>4, <1>5, <1>6, <1>7 DEF Compacting, r

\* An iteration of the loop keeps its invariant.
LEMMA ShiftCompacting ==
  ASSUME NEW img \in Image, NEW contents \in Contents, NEW n \in Nat, NEW o \in Nat,
         NEW r \in Request, Compacting(img, contents, n, o, r),
         n < img.item_num - 1
  PROVE  /\ Shifted(img, n, o) \in Image
         /\ Compacting(Shifted(img, n, o), contents, n + 1,
                       o + AlignUp(img.item[n + 1].size), r)
<1> DEFINE new == Shifted(img, n, o)
           next == img.item[n + 1]
           s == AlignUp(next.size)
           Others == Used(img) \ {n}
           Others2 == Used(img) \ {n + 1}
<1>1. /\ n + 1 \in Others /\ n \in Used(img) /\ n \in Entries /\ n + 1 \in Entries
      /\ n \in Others2
      /\ \A a \in Used(img) : a \in Nat /\ a \in Entries
  <2>1. n + 1 \in Used(img) /\ n \in Used(img) /\ n + 1 # n
    BY ImageFields DEF Used
  <2> QED BY <2>1, ImageFields
<1>2. /\ next.offset \in Nat /\ next.size \in Nat /\ next.id \in Ids
      /\ s \in Nat /\ next.size <= s
      /\ r.alloc \in Nat /\ img.free_offset \in Nat /\ img.free_size \in Nat
      /\ \A a \in Entries : /\ img.item[a].offset \in Nat /\ img.item[a].size \in Nat
                            /\ End(img.item[a]) \in Nat
                            /\ img.item[a].offset <= End(img.item[a])
  <2>1. \A a \in Entries : /\ img.item[a].offset \in Nat /\ img.item[a].size \in Nat
                            /\ AlignUp(img.item[a].size) \in Nat
                            /\ img.item[a].size <= AlignUp(img.item[a].size)
    BY ImageFields
  <2>2. next.id \in Ids
    BY <1>1 DEF Compacting, Holds
  <2>3. r.alloc \in Nat /\ img.free_offset \in Nat /\ img.free_size \in Nat
    BY ImageFields DEF Request
  <2> QED BY <2>1, <2>2, <2>3, <1>1 DEF End
<1>3. /\ \A a, b \in Others : a < b => End(img.item[a]) <= img.item[b].offset
      /\ \A a \in Others :
           /\ End(img.item[a]) <= img.free_offset
           /\ a < n => End(img.item[a]) <= o
           /\ a > n => o + r.alloc <= img.item[a].offset
           /\ img.item[a].id # r.id
           /\ Holds(img, contents, a)
      /\ img.free_offset + img.free_size <= DataSize
      /\ o + r.alloc <= img.free_offset
      /\ \A a, b \in Others : img.item[a].id = img.item[b].id => a = b
      /\ \A id \in Ids \ {r.id} : contents[id].v # None =>
                                  \E a \in Others : img.item[a].id = id
      /\ r.id \in Ids /\ r.v \in Vals
      /\ r.alloc <= AlignUp(r.size) /\ AlignUp(r.size) <= img.free_size
  BY DEF Compacting
<1>4. /\ o + r.alloc <= next.offset /\ o <= next.offset
      /\ next.offset + s = End(next)
      /\ End(next) <= img.free_offset /\ End(next) <= DataSize
      /\ o + s + r.alloc <= End(next)
  <2>1. o + r.alloc <= next.offset
    BY <1>1, <1>3
  <2>2. next.offset + s = End(next)
    BY DEF End
  <2>3. End(next) <= img.free_offset /\ End(next) \in Nat
    BY <1>1, <1>2, <1>3
  <2> QED BY <2>1, <2>2, <2>3, <1>2, <1>3, SizeAssumption
<1>fields.
      /\ new.item_num = img.item_num
      /\ new.free_offset = img.free_offset /\ new.free_size = img.free_size
      /\ new.item = [img.item EXCEPT ![n] = [id |-> next.id, offset |-> o,
                                            size |-> next.size]]
      /\ new.data = Move(img.data, o, next.offset, s)
  BY DEF Image, Shifted
<1>image. ASSUME new.item \in [Entries -> Item],
                 new.data \in [0 .. DataSize - 1 -> (Ids \X Vals \X Nat) \cup {None}]
          PROVE  new \in Image
  BY <1>image DEF Image, Shifted
<1> HIDE DEF new
<1>5. /\ new.data \in [0 .. DataSize - 1 -> (Ids \X Vals \X Nat) \cup {None}]
      /\ \A k \in 0 .. s - 1 : new.data[o + k] = img.data[next.offset + k]
      /\ SameOutside(img, new, o, s)
  <2>1. next.offset + s <= DataSize /\ next.offset \in Nat /\ s \in Nat
    BY <1>2, <1>4
  <2> HIDE DEF s, next
  <2>2. o <= next.offset
    BY <1>4
  <2>3. MovedDown(img, Move(img.data, o, next.offset, s), o, next.offset, s)
    BY <2>1, <2>2, MoveBytes
  <2> QED BY <2>3, <1>fields DEF MovedDown, SameOutside
<1>6. new.item \in [Entries -> Item]
  <2>1. [id |-> next.id, offset |-> o, size |-> next.size] \in Item
    BY <1>2 DEF Item
  <2> QED BY <2>1, <1>1, <1>fields, ImageFields
<1>7. new \in Image
  BY <1>image, <1>5, <1>6
<1>8. /\ Used(new) = Used(img)
      /\ new.item[n] = [id |-> next.id, offset |-> o, size |-> next.size]
      /\ \A a \in Entries : a # n => new.item[a] = img.item[a]
      /\ End(new.item[n]) = o + s
  <2>1. /\ new.item[n] = [id |-> next.id, offset |-> o, size |-> next.size]
        /\ \A a \in Entries : a # n => new.item[a] = img.item[a]
    BY <1>1, <1>fields, ImageFields
  <2> QED BY <2>1, <1>fields DEF End, Used
<1>9. ASSUME NEW a \in Others2, a # n
      PROVE  /\ a \in Others
             /\ new.item[a] = img.item[a]
             /\ a < n \/ a > n + 1
  <2>1. a \in Used(img) /\ a # n + 1 /\ a # n
    BY <1>9
  <2>2. a \in Entries /\ a \in Nat
    BY <2>1, <1>1
  <2>3. new.item[a] = img.item[a]
    BY <2>1, <2>2, <1>8
  <2>4. a < n \/ a > n + 1
    BY <2>1, <2>2
  <2> QED BY <2>1, <2>3, <2>4
<1>10. \A a \in Others2 : a > n + 1 => End(next) <= img.item[a].offset
  <2> TAKE a \in Others2
  <2>1. CASE a = n
    BY <2>1, <1>1
  <2>2. CASE a # n
    <3>1. a \in Others /\ n + 1 \in Others
      BY <2>2, <1>1, <1>9
    <3> QED BY <3>1, <1>3
  <2> QED BY <2>1, <2>2
<1>11. ASSUME NEW a \in Others2, NEW b \in Others2, a < b
       PROVE  End(new.item[a]) <= new.item[b].offset
  <2>1. a \in Nat /\ b \in Nat /\ a \in Entries /\ b \in Entries
    BY <1>1
  <2>2. CASE a = n
    <3>1. b > n + 1 /\ new.item[b] = img.item[b]
      BY <2>1, <2>2, <1>9, <1>11
    <3>2. End(next) <= img.item[b].offset
      BY <3>1, <1>10
    <3> QED BY <2>1, <2>2, <3>1, <3>2, <1>1, <1>2, <1>4, <1>8
  <2>3. CASE b = n
    <3>1. new.item[a] = img.item[a] /\ a \in Others
      BY <2>3, <1>9, <1>11, <2>1
    <3>2. End(img.item[a]) <= o
      BY <3>1, <2>3, <1>3, <1>11
    <3> QED BY <2>3, <3>1, <3>2, <1>8
  <2>4. CASE a # n /\ b # n
    BY <2>4, <1>3, <1>9, <1>11
  <2> QED BY <2>2, <2>3, <2>4
<1>12. ASSUME NEW a \in Others2
       PROVE  Holds(new, contents, a)
  <2>1. CASE a = n
    <3>1. Holds(img, contents, n + 1)
      BY <1>1, <1>3
    <3>2. ASSUME NEW k \in 0 .. next.size - 1
          PROVE  new.data[o + k] = Byte(next.id, contents[next.id].v, k)
      <4>1. k \in 0 .. s - 1
        BY <1>2
      <4>2. img.data[next.offset + k] = Byte(next.id, contents[next.id].v, k)
        BY <3>1 DEF Holds
      <4>3. new.data[o + k] = img.data[next.offset + k]
        BY <4>1, <1>5
      <4> QED BY <4>2, <4>3
    <3> QED BY <2>1, <3>1, <3>2, <1>8 DEF Holds
  <2>2. CASE a # n
    <3>1. /\ a \in Others /\ a \in Entries /\ new.item[a] = img.item[a]
          /\ a < n \/ a > n + 1
      BY <2>2, <1>1, <1>9
    <3>2. Holds(img, contents, a) /\ End(img.item[a]) <= DataSize
      <4>1. Holds(img, contents, a) /\ End(img.item[a]) <= img.free_offset
        BY <3>1, <1>3
      <4> QED BY <4>1, <3>1, <1>2, <1>3, SizeAssumption
    <3>3. End(img.item[a]) <= o \/ o + s <= img.item[a].offset
      <4>1. CASE a < n
        BY <4>1, <3>1, <1>3
      <4>2. CASE a > n + 1
        <5>1. End(next) <= img.item[a].offset
          BY <4>2, <1>10
        <5> QED BY <5>1, <3>1, <1>1, <1>2, <1>4
      <4> QED BY <4>1, <4>2, <3>1
    <3> QED BY <3>1, <3>2, <3>3, <1>2, <1>5, <1>7, HoldsElsewhere
  <2> QED BY <2>1, <2>2
<1>13. ASSUME NEW a \in Others2
       PROVE  /\ End(new.item[a]) <= new.free_offset
              /\ a < n + 1 => End(new.item[a]) <= o + s
              /\ a > n + 1 => (o + s) + r.alloc <= new.item[a].offset
              /\ new.item[a].id # r.id
  <2>1. CASE a = n
    <3>1. next.id # r.id
      BY <1>1, <1>3
    <3>2. o + s <= img.free_offset
      BY <1>1, <1>2, <1>4
    <3> QED BY <2>1, <3>1, <3>2, <1>2, <1>8, <1>fields
  <2>2. CASE a # n
    <3>1. /\ a \in Others /\ a \in Entries /\ a \in Nat /\ new.item[a] = img.item[a]
          /\ a < n \/ a > n + 1
      BY <2>2, <1>1, <1>9
    <3>2. End(img.item[a]) <= img.free_offset /\ img.item[a].id # r.id
      BY <3>1, <1>3
    <3>3. a < n + 1 => End(img.item[a]) <= o + s
      <4>1. a < n + 1 => a < n
        BY <3>1
      <4>2. a < n => End(img.item[a]) <= o
        BY <3>1, <1>3
      <4> QED BY <4>1, <4>2, <3>1, <1>2
    <3>4. a > n + 1 => (o + s) + r.alloc <= img.item[a].offset
      BY <3>1, <1>1, <1>2, <1>4, <1>10
    <3> QED BY <3>1, <3>2, <3>3, <3>4, <1>fields
  <2> QED BY <2>1, <2>2
<1>14. ASSUME NEW a \in Others2, NEW b \in Others2, new.item[a].id = new.item[b].id
       PROVE  a = b
  <2> DEFINE old(x) == IF x = n THEN n + 1 ELSE x
  <2>1. \A x \in Others2 : old(x) \in Others /\ new.item[x].id = img.item[old(x)].id
    BY <1>1, <1>8, <1>9
  <2>2. old(a) = old(b)
    BY <2>1, <1>3, <1>14
  <2> QED BY <2>2
<1>15. ASSUME NEW id \in Ids \ {r.id}, contents[id].v # None
       PROVE  \E a \in Others2 : new.item[a].id = id
  <2>1. PICK a \in Others : img.item[a].id = id
    BY <1>3, <1>15
  <2>2. CASE a = n + 1
    BY <2>1, <2>2, <1>1, <1>8
  <2>3. CASE a # n + 1
    BY <2>1, <2>3, <1>1, <1>8
  <2> QED BY <2>2, <2>3
<1>16. n + 1 \in Used(new) /\ (o + s) + r.alloc <= new.free_offset
  BY <1>1, <1>2, <1>4, <1>8, <1>fields
<1>17. Compacting(new, contents, n + 1, o + s, r)
  BY <1>3, <1>8, <1>11, <1>12, <1>13, <1>14, <1>15, <1>16, <1>fields DEF Compacting
<1> QED BY <1>7, <1>17 DEF new

\* After the last iteration the removed item fits behind the others.
LEMMA AppendWhole ==
  ASSUME NEW img \in Image, NEW contents \in Contents, NEW n \in Nat, NEW o \in Nat,
         NEW r \in Request, Compacting(img, contents, n, o, r),
         n >= img.item_num - 1
  PROVE  /\ Appended(img, n, o, r) \in Image
         /\ Stored(contents, r.id, r.v, r.size) \in Contents
         /\ Whole(Appended(img, n, o, r), Stored(contents, r.id, r.v, r.size))
<1> DEFINE new == Appended(img, n, o, r)
           contents2 == Stored(contents, r.id, r.v, r.size)
           s == AlignUp(r.size)
           Others == Used(img) \ {n}
<1>1. /\ \A a, b \in Others : a < b => End(img.item[a]) <= img.item[b].offset
      /\ \A a \in Others :
           /\ End(img.item[a]) <= img.free_offset
           /\ a < n => End(img.item[a]) <= o
           /\ img.item[a].id # r.id
           /\ Holds(img, contents, a)
      /\ img.free_offset + img.free_size <= DataSize
      /\ o + r.alloc <= img.free_offset
      /\ \A a, b \in Others : img.item[a].id = img.item[b].id => a = b
      /\ \A id \in Ids \ {r.id} : contents[id].v # None =>
                                  \E a \in Others : img.item[a].id = id
      /\ r.id \in Ids /\ r.v \in Vals
      /\ r.alloc <= s /\ s <= img.free_size
      /\ n \in Used(img)
  BY DEF Compacting
<1>2. /\ r.size \in Nat /\ r.alloc \in Nat /\ s \in Nat /\ r.size <= s
      /\ img.free_offset \in Nat /\ img.free_size \in Nat
      /\ n \in Entries
      /\ \A a \in Entries : img.item[a].offset \in Nat /\ End(img.item[a]) \in Nat
  <2>1. r.size \in Nat /\ r.alloc \in Nat
    BY DEF Request
  <2>2. \A a \in Entries : img.item[a].offset \in Nat /\ AlignUp(img.item[a].size) \in Nat
    BY ImageFields
  <2>3. \A a \in Entries : End(img.item[a]) \in Nat
    BY <2>2 DEF End
  <2>4. s \in Nat /\ r.size <= s
    BY <2>1, AlignType
  <2>5. img.free_offset \in Nat /\ img.free_size \in Nat /\ n \in Entries
    BY <1>1, ImageFields
  <2> QED BY <2>1, <2>2, <2>3, <2>4, <2>5
<1>3. \A a \in Others : a \in Entries /\ a \in Nat /\ a < n
  <2> TAKE a \in Others
  <2>1. a \in Nat /\ a \in Entries /\ a < img.item_num /\ img.item_num \in Nat
    BY ImageFields, SizeAssumption DEF Used
  <2> QED BY <2>1
<1>4. /\ o + s + (img.free_size - (s - r.alloc)) <= DataSize
      /\ o + s <= DataSize /\ o + r.size <= DataSize
      /\ img.free_size - (s - r.alloc) \in Nat
  BY <1>1, <1>2, SizeAssumption
<1>fields.
      /\ new.item_num = img.item_num
      /\ new.free_offset = o + s
      /\ new.free_size = img.free_size - (s - r.alloc)
      /\ new.item = [img.item EXCEPT ![n] = [id |-> r.id, offset |-> o, size |-> r.size]]
      /\ new.data = Put(img.data, o, r.id, r.v, r.size)
  BY DEF Image, Appended
<1>image. ASSUME new.item \in [Entries -> Item], new.free_offset \in Nat,
                 new.free_size \in Nat,
                 new.data \in [0 .. DataSize - 1 -> (Ids \X Vals \X Nat) \cup {None}]
          PROVE  new \in Image
  BY <1>image DEF Image, Appended
<1> HIDE DEF new, s, Others
<1>5. /\ new.data \in [0 .. DataSize - 1 -> (Ids \X Vals \X Nat) \cup {None}]
      /\ \A k \in 0 .. r.size - 1 : new.data[o + k] = Byte(r.id, r.v, k)
      /\ SameOutside(img, new, o, r.size)
  <2>0. r.id \in Ids /\ r.v \in Vals /\ r.size \in Nat /\ o + r.size <= DataSize
    BY <1>1, <1>2, <1>4
  <2>1. Wrote(img, Put(img.data, o, r.id, r.v, r.size), o, r.id, r.v, r.size)
    BY <2>0, <1>1, <1>2, PutBytes
  <2>2. Wrote(img, new.data, o, r.id, r.v, r.size)
    BY <2>1, <1>fields
  <2> QED BY <2>2 DEF Wrote, SameOutside
<1>6. new.item \in [Entries -> Item]
  <2>1. [id |-> r.id, offset |-> o, size |-> r.size] \in Item
    BY <1>1, <1>2 DEF Item
  <2> QED BY <2>1, <1>2, <1>fields, ImageFields
<1>7. new \in Image
  <2>1. new.free_offset \in Nat /\ new.free_size \in Nat
    BY <1>2, <1>4, <1>fields
  <2> QED BY <2>1, <1>image, <1>5, <1>6
<1>8. /\ contents2 \in Contents
      /\ contents2[r.id] = [v |-> r.v, size |-> r.size]
      /\ \A x \in Ids : x # r.id => contents2[x] = contents[x]
  BY <1>1, <1>2 DEF Contents, Stored
<1> HIDE DEF contents2
<1>9. /\ Used(new) = Others \cup {n}
      /\ new.item[n] = [id |-> r.id, offset |-> o, size |-> r.size]
      /\ \A a \in Others : new.item[a] = img.item[a]
      /\ End(new.item[n]) = o + s
  <2>1. Used(new) = Used(img)
    BY <1>fields DEF Used
  <2>2. new.item[n] = [id |-> r.id, offset |-> o, size |-> r.size]
    BY <1>2, <1>fields, ImageFields
  <2>3. \A a \in Others : new.item[a] = img.item[a]
    BY <1>3, <1>fields, ImageFields
  <2>4. Used(new) = Others \cup {n}
    BY <2>1, <1>1 DEF Others
  <2>5. End(new.item[n]) = o + s
    BY <2>2 DEF End, s
  <2> QED BY <2>2, <2>3, <2>4, <2>5
<1>10. \A a \in Others : End(img.item[a]) <= o
  BY <1>1, <1>3
<1>11. Laid(new)
  <2>1. ASSUME NEW a \in Used(new), NEW b \in Used(new), a < b
        PROVE  End(new.item[a]) <= new.item[b].offset
    <3>1. a \in Others
      BY <2>1, <1>2, <1>3, <1>9
    <3>2. CASE b = n
      BY <3>1, <3>2, <1>9, <1>10
    <3>3. CASE b \in Others
      BY <2>1, <3>1, <3>3, <1>1, <1>9
    <3> QED BY <3>2, <3>3, <1>9
  <2>2. ASSUME NEW a \in Used(new) PROVE End(new.item[a]) <= new.free_offset
    <3>1. CASE a = n
      BY <3>1, <1>2, <1>9, <1>fields
    <3>2. CASE a \in Others
      <4>1. End(img.item[a]) <= o /\ End(img.item[a]) \in Nat
        BY <3>2, <1>2, <1>3, <1>10
      <4> QED BY <4>1, <3>2, <1>2, <1>9, <1>fields
    <3> QED BY <3>1, <3>2, <1>9
  <2>3. new.free_offset + new.free_size <= DataSize
    BY <1>4, <1>fields
  <2> QED BY <2>1, <2>2, <2>3 DEF Laid
<1>12. Distinct(new)
  <2>1. \A a \in Others : new.item[a].id # new.item[n].id
    BY <1>1, <1>9
  <2> QED BY <2>1, <1>1, <1>9 DEF Distinct
<1>13. ASSUME NEW a \in Used(new) PROVE Holds(new, contents2, a)
  <2>1. CASE a = n
    <3>1. /\ new.item[a].id = r.id /\ new.item[a].offset = o
          /\ new.item[a].size = r.size
      BY <2>1, <1>9
    <3>2. /\ contents2[r.id].v = r.v /\ contents2[r.id].size = r.size
          /\ r.id \in Ids /\ r.v # None
      BY <1>1, <1>8, NoneAssumption
    <3>3. \A k \in 0 .. r.size - 1 : new.data[o + k] = Byte(r.id, r.v, k)
      BY <1>5
    <3> QED BY <3>1, <3>2, <3>3 DEF Holds
  <2>2. CASE a \in Others
    <3>1. Holds(img, contents, a) /\ img.item[a].id # r.id
      BY <2>2, <1>1
    <3>2. contents2[img.item[a].id] = contents[img.item[a].id]
      BY <3>1, <1>8 DEF Holds
    <3>3. End(img.item[a]) <= DataSize /\ End(img.item[a]) <= o
      BY <2>2, <1>2, <1>3, <1>4, <1>10, SizeAssumption
    <3>4. a \in Entries /\ new.item[a] = img.item[a]
      BY <2>2, <1>3, <1>9
    <3> QED BY <3>1, <3>2, <3>3, <3>4, <1>2, <1>5, <1>7, HoldsElsewhere
  <2> QED BY <2>1, <2>2, <1>9
<1>14. ASSUME NEW x \in Ids, contents2[x].v # None
       PROVE  \E a \in Used(new) : new.item[a].id = x
  <2>1. CASE x = r.id
    BY <2>1, <1>9
  <2>2. CASE x # r.id
    <3>1. \E a \in Others : img.item[a].id = x
      BY <2>2, <1>1, <1>8, <1>14
    <3> QED BY <3>1, <1>9
  <2> QED BY <2>1, <2>2
<1> QED BY <1>7, <1>8, <1>11, <1>12, <1>13, <1>14 DEF Whole, new, contents2

-----------------------------------------------------------------------------
(* The steps.                                                              *)

\* The first init, on flash that holds no image, establishes the invariant.
LEMMA InitIInv == Init => IInv
<1> SUFFICES ASSUME Init PROVE IInv
  OBVIOUS
<1>1. NoReq \in Request
  BY DEF NoReq, Request
<1>2. TypeOK
  BY <1>1, ResetWhole DEF Init, TypeOK
<1> QED BY <1>2, ResetWhole DEF Init, IInv

\* Every step keeps the inductive invariant.
LEMMA NextIInv == IInv /\ [Next]_vars => IInv'
<1> SUFFICES ASSUME IInv, [Next]_vars PROVE IInv'
  OBVIOUS
<1>0. /\ info \in Image /\ flash \in Image /\ up \in BOOLEAN
      /\ pc \in {"idle", "shift", "flash", "written"}
      /\ j \in Nat /\ offset \in Nat /\ req \in Request
      /\ stored \in Contents /\ saved \in Contents
      /\ Whole(flash, saved)
      /\ pc # "shift" => Whole(info, stored)
      /\ pc = "shift" => Compacting(info, stored, j, offset, req)
      /\ NoReq \in Request
      /\ up \/ pc = "idle"
  BY DEF IInv, TypeOK, NoReq, Request
<1>1. CASE vendor_storage_init
  <2>1. /\ info' = flash /\ stored' = saved
        /\ UNCHANGED <<flash, pc, j, offset, req, saved>> /\ up' = TRUE
    BY <1>1 DEF vendor_storage_init
  <2>2. CASE pc = "shift"
    BY <2>2, <1>0, <1>1, <2>1 DEF vendor_storage_init, IInv
  <2>3. CASE pc # "shift"
    BY <2>1, <2>3, <1>0 DEF IInv, TypeOK
  <2> QED BY <2>2, <2>3
<1>2. ASSUME NEW id \in Ids, NEW v \in Vals, NEW size \in Sizes, update(id, v, size)
      PROVE  IInv'
  <2>1. PICK i \in Used(info) : /\ info.item[i].id = id
                               /\ size <= AlignUp(info.item[i].size)
                               /\ info' = Updated(info, i, v, size)
    BY <1>2 DEF update
  <2>2. /\ up /\ pc = "idle" /\ pc' = "flash"
        /\ stored' = Stored(stored, id, v, size)
        /\ UNCHANGED <<flash, up, j, offset, req, saved>>
    BY <1>2 DEF update
  <2>3. info' \in Image /\ stored' \in Contents /\ Whole(info', stored')
    BY <2>1, <2>2, <1>0, UpdateWhole, SizeAssumption
  <2> QED BY <2>2, <2>3, <1>0 DEF IInv, TypeOK
<1>3. ASSUME NEW id \in Ids, NEW v \in Vals, NEW size \in Sizes, grow(id, v, size)
      PROVE  IInv'
  <2>1. PICK i \in Used(info) :
          /\ info.item[i].id = id
          /\ size > AlignUp(info.item[i].size)
          /\ info.free_size >= AlignUp(size)
          /\ j' = i /\ offset' = info.item[i].offset
          /\ req' = [id |-> id, v |-> v, size |-> size,
                     alloc |-> AlignUp(info.item[i].size)]
    BY <1>3 DEF grow
  <2>2. up /\ pc = "idle" /\ pc' = "shift" /\ UNCHANGED <<info, flash, up, stored, saved>>
    BY <1>3 DEF grow
  <2>3. /\ i \in Nat /\ info.item[i].offset \in Nat /\ size \in Nat
        /\ AlignUp(info.item[i].size) \in Nat
        /\ AlignUp(size) \in Nat /\ info.free_size \in Nat
    BY <1>0, ImageFields, AlignType, SizeAssumption
  <2>4. req' \in Request
    BY <2>1, <2>3 DEF Request
  <2>5. Compacting(info, stored, j', offset', req')
    BY <2>1, <2>2, <2>3, <1>0, GrowCompacting
  <2>6. Compacting(info, stored, j, offset, req)'
    BY <2>2, <2>5
  <2> QED BY <2>1, <2>2, <2>3, <2>4, <2>6, <1>0 DEF IInv, TypeOK
<1>4. ASSUME NEW id \in Ids, NEW v \in Vals, NEW size \in Sizes, create(id, v, size)
      PROVE  IInv'
  <2>1. /\ up /\ pc = "idle" /\ pc' = "flash"
        /\ \A i \in Used(info) : info.item[i].id # id
        /\ info.item_num < MaxItems /\ info.free_size >= AlignUp(size)
        /\ info' = Created(info, id, v, size)
        /\ stored' = Stored(stored, id, v, size)
        /\ UNCHANGED <<flash, up, j, offset, req, saved>>
    BY <1>4 DEF create
  <2>2. AlignUp(size) <= info.free_size /\ size \in Nat
    BY <2>1, <1>0, ImageFields, AlignType, SizeAssumption
  <2>3. info' \in Image /\ stored' \in Contents /\ Whole(info', stored')
    BY <2>1, <2>2, <1>0, CreateWhole
  <2> QED BY <2>1, <2>3, <1>0 DEF IInv, TypeOK
<1>5. CASE shift
  <2>1. /\ pc = "shift" /\ j < info.item_num - 1
        /\ info' = Shifted(info, j, offset)
        /\ offset' = offset + AlignUp(info.item[j + 1].size) /\ j' = j + 1
        /\ UNCHANGED <<flash, up, pc, req, stored, saved>>
    BY <1>5 DEF shift
  <2>2. info' \in Image /\ Compacting(info', stored, j', offset', req)
    BY <2>1, <1>0, ShiftCompacting
  <2>3. j' \in Nat /\ offset' \in Nat
    <3>1. j + 1 \in Entries
      BY <2>1, <1>0, ImageFields, SizeAssumption DEF Entries
    <3> QED BY <3>1, <2>1, <1>0, ImageFields
  <2>4. Compacting(info, stored, j, offset, req)'
    BY <2>1, <2>2
  <2> QED BY <2>1, <2>2, <2>3, <2>4, <1>0 DEF IInv, TypeOK
<1>6. CASE append
  <2>1. /\ pc = "shift" /\ j >= info.item_num - 1 /\ pc' = "flash"
        /\ info' = Appended(info, j, offset, req)
        /\ stored' = Stored(stored, req.id, req.v, req.size)
        /\ j' = 0 /\ offset' = 0 /\ req' = NoReq
        /\ UNCHANGED <<flash, up, saved>>
    BY <1>6 DEF append
  <2>2. info' \in Image /\ stored' \in Contents /\ Whole(info', stored')
    BY <2>1, <1>0, AppendWhole
  <2> QED BY <2>1, <2>2, <1>0 DEF IInv, TypeOK
<1>7. CASE persist
  BY <1>0, <1>7 DEF persist, IInv, TypeOK
<1>8. CASE return_size
  BY <1>0, <1>8 DEF return_size, IInv, TypeOK
<1>9. CASE return_eio
  BY <1>0, <1>9 DEF return_eio, IInv, TypeOK
<1>10. CASE crash
  BY <1>0, <1>10, ResetWhole DEF crash, IInv, TypeOK
<1>11. CASE UNCHANGED vars
  BY <1>0, <1>11 DEF vars, IInv, TypeOK
<1> QED BY <1>1, <1>2, <1>3, <1>4, <1>5, <1>6, <1>7, <1>8, <1>9, <1>10, <1>11 DEF Next

\* In a whole image vendor_storage_read finds the one entry of the id and
\* returns the bytes that the contents say.
LEMMA WholeReadsBack ==
  ASSUME NEW img \in Image, NEW contents \in Contents, Whole(img, contents)
  PROVE  ReadsBack(img, contents)
<1> SUFFICES ASSUME NEW id \in Ids
             PROVE  IF contents[id].v = None
                    THEN \A a \in Used(img) : img.item[a].id # id
                    ELSE /\ \E a \in Used(img) : img.item[a].id = id
                         /\ vendor_storage_read(img, id, DataSize)
                              = [k \in 0 .. contents[id].size - 1 |->
                                   Byte(id, contents[id].v, k)]
  BY DEF ReadsBack
<1>1. CASE contents[id].v = None
  BY <1>1 DEF Whole, Holds
<1>2. CASE contents[id].v # None
  <2> DEFINE First(a) == /\ img.item[a].id = id
                         /\ \A b \in 0 .. a - 1 : img.item[b].id # id
             i == CHOOSE a \in Used(img) : First(a)
             n == IF DataSize > img.item[i].size THEN img.item[i].size ELSE DataSize
  <2>1. PICK e \in Used(img) : img.item[e].id = id
    BY <1>2 DEF Whole
  <2>2. First(e)
    <3> SUFFICES ASSUME NEW b \in 0 .. e - 1, img.item[b].id = id PROVE FALSE
      BY <2>1
    <3>1. e \in Nat /\ img.item_num \in Nat
      BY ImageFields, SizeAssumption
    <3>2. b \in Used(img) /\ b # e
      BY <3>1 DEF Used
    <3> QED BY <3>2, <2>1 DEF Whole, Distinct
  <2>3. \A a \in Used(img) : First(a) => a = e
    BY <2>1 DEF Whole, Distinct
  <2>4. i = e
    <3> HIDE DEF First
    <3> QED BY <2>2, <2>3
  <2> HIDE DEF i
  <2>5. Holds(img, contents, e) /\ End(img.item[e]) <= img.free_offset
        /\ img.free_offset + img.free_size <= DataSize
    BY DEF Whole, Laid
  <2>6. /\ img.item[e].size \in Nat /\ img.item[e].offset \in Nat
        /\ AlignUp(img.item[e].size) \in Nat
        /\ img.item[e].size <= AlignUp(img.item[e].size)
        /\ img.free_offset \in Nat /\ img.free_size \in Nat
    BY ImageFields
  <2>7. img.item[e].size <= DataSize
    BY <2>5, <2>6, SizeAssumption DEF End
  <2>8. n = img.item[e].size /\ n = contents[id].size
    BY <2>1, <2>4, <2>5, <2>6, <2>7, SizeAssumption DEF Holds
  <2>9. \A k \in 0 .. n - 1 : img.data[img.item[i].offset + k]
                              = Byte(id, contents[id].v, k)
    BY <2>1, <2>4, <2>5, <2>8 DEF Holds
  <2>10. vendor_storage_read(img, id, DataSize)
           = [k \in 0 .. n - 1 |-> img.data[img.item[i].offset + k]]
    BY DEF vendor_storage_read, i
  <2> HIDE DEF n
  <2> QED BY <1>2, <2>1, <2>8, <2>9, <2>10
<1> QED BY <1>1, <1>2

\* The loop's invariant gives the direction of each memcpy.
LEMMA LoopCopiesDown == IInv => CopiesDown
<1> SUFFICES ASSUME IInv, pc = "shift", j < info.item_num - 1
             PROVE  /\ offset <= info.item[j + 1].offset
                    /\ End(info.item[j + 1]) <= DataSize
  BY DEF CopiesDown
<1>1. /\ info \in Image /\ j \in Nat /\ offset \in Nat /\ req.alloc \in Nat
      /\ Compacting(info, stored, j, offset, req)
  BY DEF IInv, TypeOK, Request
<1>2. /\ j + 1 \in Used(info) \ {j} /\ j + 1 > j /\ j + 1 \in Entries
  BY <1>1, ImageFields, SizeAssumption DEF Used, Entries
<1>3. /\ offset + req.alloc <= info.item[j + 1].offset
      /\ End(info.item[j + 1]) <= info.free_offset
      /\ info.free_offset + info.free_size <= DataSize
  BY <1>1, <1>2 DEF Compacting
<1>4. /\ info.item[j + 1].offset \in Nat /\ AlignUp(info.item[j + 1].size) \in Nat
      /\ info.free_offset \in Nat /\ info.free_size \in Nat
  BY <1>1, <1>2, ImageFields
<1> QED BY <1>1, <1>3, <1>4, SizeAssumption DEF End

-----------------------------------------------------------------------------
\* The inductive invariant holds in every reachable state, whatever sizes the
\* data area, the table, the alignment and the items have.
THEOREM Inductive == Spec => []IInv
<1>1. Init => IInv
  BY InitIInv
<1>2. IInv /\ [Next]_vars => IInv'
  BY NextIInv
<1> QED BY <1>1, <1>2, PTL DEF Spec

\* The variables of vendor_storage_write and the image keep their types; in
\* particular free_size never drops below zero.
THEOREM Typing == Spec => []TypeOK
<1>1. IInv => TypeOK
  BY DEF IInv
<1> QED BY <1>1, Inductive, PTL

\* vendor_storage_read returns what vendor_storage_write last wrote, across
\* compaction, failed flash writes and restarts.
THEOREM ReadsWhatWasWritten == Spec => []ReadBack
<1>1. IInv => ReadBack
  BY WholeReadsBack DEF IInv, TypeOK, ReadBack
<1> QED BY <1>1, Inductive, PTL

\* No two items share a byte and none reaches beyond the data area.
THEOREM Separation == Spec => []ExtentsApart
<1>1. IInv => ExtentsApart
  BY DEF IInv, ExtentsApart, Whole
<1> QED BY <1>1, Inductive, PTL

\* The memcpy calls of the compaction loop copy down and inside the area.
THEOREM CopyDirection == Spec => []CopiesDown
<1> QED BY LoopCopiesDown, Inductive, PTL
============================================================================
