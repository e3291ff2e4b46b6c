------------------------ MODULE VendorStorageProofs ------------------------
(***************************************************************************)
(* Proofs about VendorStorage for every number of parts, every set of ids  *)
(* and values and every bound on the version.                              *)
(***************************************************************************)
EXTENDS VendorStorage, TLAPS

\* Fewer than PartNum - 1 writes in a row fail: with the two parts of the
\* NAND, none; with the four parts of eMMC and SPI NOR, at most two.
ASSUME FailsAssumption == MaxFails + 2 <= PartNum

USE PartNumAssumption, BoundAssumption, ValAssumption, FailsAssumption

\* No item stored is a value of the item table.
LEMMA EmptyType == Empty \in Data
BY DEF Empty, Data

\* The part after a part is a part.
LEMMA AdvanceType == \A i \in Parts : Advance(i) \in Parts
BY DEF Advance, Parts

\* A reset lays out an image.
LEMMA ResetType == ResetImage \in Image
BY EmptyType DEF ResetImage, Image, Parts

\* A part as it is before the first write has a head and a tail.
LEMMA BlankType == BlankPart \in [head : Image, tail : Tail]
BY EmptyType DEF BlankPart, Image, Tail, Parts

\* What init reads from a part is an image.
LEMMA LoadedType == \A p \in [head : Image, tail : Tail] : Loaded(p) \in Image
BY DEF Loaded, Image, Tail, Data

\* How far a part is ahead of another grows by one with next_index, until it
\* has come round.
LEMMA AheadAdvance ==
  ASSUME NEW a \in Parts, NEW b \in Parts
  PROVE  /\ Ahead(a, Advance(a)) = 1
         /\ Ahead(a, b) < PartNum => Ahead(a, Advance(b)) = Ahead(a, b) + 1
         /\ Ahead(a, b) < PartNum => a # b
BY DEF Ahead, Advance, Parts

\* The invariant holds before the first init.
LEMMA InitIInv == Init => IInv
<1> SUFFICES ASSUME Init PROVE IInv
  OBVIOUS
<1> USE DEF Init
<1>1. TypeOK
  <2>1. /\ parts \in [Parts -> [head : Image, tail : Tail]]
        /\ vendor_info \in Image
        /\ acked \in Image
    BY ResetType, BlankType
  <2>2. /\ next_index \in Parts
        /\ last \in [part : Parts, version : Nat]
        /\ fails \in Nat
    BY DEF Parts
  <2> QED
    BY <2>1, <2>2 DEF TypeOK
<1>2. \A i \in Parts : parts[i] = BlankPart
  OBVIOUS
<1>3. TailsOld /\ ValidIsWhole /\ ValidNamesNext
  BY <1>2 DEF TailsOld, ValidIsWhole, ValidNamesNext, Valid, BlankPart
<1>4. LastIsValid /\ RamAhead /\ AckedNotNewer
  BY DEF LastIsValid, RamAhead, AckedNotNewer, ResetImage
<1> QED
  BY <1>1, <1>3, <1>4 DEF IInv

\* Every step keeps the types.
LEMMA TypeStep == TypeOK /\ [Next]_vars => TypeOK'
<1> SUFFICES ASSUME TypeOK, [Next]_vars PROVE TypeOK'
  OBVIOUS
<1> USE DEF TypeOK
<1>1. CASE vendor_storage_init
  BY <1>1, LoadedType DEF vendor_storage_init, Image, Tail
<1>2. CASE vendor_storage_reset
  BY <1>2, ResetType DEF vendor_storage_reset, Parts
<1>3. CASE vendor_storage_init_eio
  BY <1>3, LoadedType DEF vendor_storage_init_eio
<1>4. ASSUME NEW id \in Ids, NEW v \in Vals, vendor_storage_write(id, v)
      PROVE TypeOK'
  <2>1. vendor_info' \in Image
    BY <1>4, AdvanceType DEF vendor_storage_write, Image, Data
  <2> QED
    BY <1>4, <2>1 DEF vendor_storage_write, Image
<1>5. CASE vendor_ops_head
  BY <1>5 DEF vendor_ops_head
<1>6. CASE vendor_ops_tail
  BY <1>6 DEF vendor_ops_tail, Image, Tail
<1>7. CASE return_size
  BY <1>7 DEF return_size
<1>8. CASE return_eio
  BY <1>8 DEF return_eio
<1>9. CASE crash
  BY <1>9, ResetType DEF crash
<1>10. CASE UNCHANGED vars
  BY <1>10 DEF vars
<1> QED
  BY <1>1, <1>2, <1>3, <1>4, <1>5, <1>6, <1>7, <1>8, <1>9, <1>10 DEF Next

-----------------------------------------------------------------------------
(* The three steps that read the flash or leave it alone. *)

\* vendor_storage_init keeps the invariant.
LEMMA InitStep == IInv /\ vendor_storage_init => IInv'
<1> SUFFICES ASSUME IInv, vendor_storage_init PROVE IInv'
  OBVIOUS
<1>1. PICK i \in Parts :
        /\ IsMaxIndex(i)
        /\ vendor_info' = Loaded(parts[i])
        /\ last' = [part |-> i, version |-> parts[i].head.version]
  BY DEF vendor_storage_init
<1>2. /\ parts' = parts /\ acked' = acked /\ fails' = 0 /\ bootdev_type' = TRUE
      /\ pc' = pc /\ next_index' = next_index /\ pc = "idle"
  BY DEF vendor_storage_init, IInv, RamAhead, TypeOK
<1>3. TypeOK'
  BY TypeStep DEF IInv, Next
<1>4. Valid(parts[i]) /\ parts[i].head.version \in Nat
  BY <1>1 DEF IsMaxIndex, IInv, TypeOK, Image
<1>5. last.version > 1 /\ i = last.part
  BY <1>1, <1>4 DEF IInv, TypeOK, TailsOld, Valid, Image, Tail, IsMaxIndex, LastIsValid
<1>6. last' = last
  BY <1>1, <1>5 DEF IInv, LastIsValid, TypeOK
<1>7. (TailsOld /\ LastIsValid /\ ValidIsWhole /\ ValidNamesNext)'
  BY <1>2, <1>6 DEF IInv, TailsOld, LastIsValid, ValidIsWhole, ValidNamesNext
<1>8. RamAhead'
  <2>1. /\ vendor_info'.version = last.version
        /\ vendor_info'.next_index = Advance(last.part)
    BY <1>1, <1>4, <1>5 DEF Loaded, IInv, LastIsValid, ValidNamesNext
  <2>2. Ahead(last.part, vendor_info'.next_index) = 1
    BY <2>1, AheadAdvance DEF IInv, TypeOK
  <2> QED
    BY <1>2, <1>6, <2>1, <2>2 DEF IInv, RamAhead, TypeOK
<1>9. AckedNotNewer'
  BY <1>2, <1>6 DEF IInv, AckedNotNewer
<1> QED
  BY <1>3, <1>7, <1>8, <1>9 DEF IInv

\* The reset of init on media without a valid part keeps it.
LEMMA ResetStep == IInv /\ vendor_storage_reset => IInv'
<1> SUFFICES ASSUME IInv, vendor_storage_reset PROVE IInv'
  OBVIOUS
<1>1. TypeOK'
  BY TypeStep DEF IInv, Next
<1>2. /\ parts' = parts /\ acked' = acked /\ fails' = 0
      /\ vendor_info' = ResetImage
      /\ pc' = "idle"
  BY DEF vendor_storage_reset, IInv, RamAhead, TypeOK
<1>3. last' = last
  BY DEF vendor_storage_reset, NoneValid, IInv, LastIsValid, TypeOK
<1>4. last.version = 1 /\ last.part = PartNum - 1
  BY DEF vendor_storage_reset, NoneValid, IInv, LastIsValid, TypeOK
<1>5. (TailsOld /\ LastIsValid /\ ValidIsWhole /\ ValidNamesNext /\ AckedNotNewer)'
  BY <1>2, <1>3 DEF IInv, TailsOld, LastIsValid, ValidIsWhole, ValidNamesNext, AckedNotNewer
<1>6. RamAhead'
  BY <1>2, <1>3, <1>4 DEF RamAhead, ResetImage, Ahead
<1> QED
  BY <1>1, <1>5, <1>6 DEF IInv

\* A write, which only starts the sequence on the medium, keeps it.
LEMMA WriteStep ==
  ASSUME IInv, NEW id \in Ids, NEW v \in Vals, vendor_storage_write(id, v)
  PROVE  IInv'
<1>1. TypeOK'
  BY TypeStep DEF IInv, Next
<1>2. UNCHANGED <<parts, bootdev_type, acked, last, fails>>
  BY DEF vendor_storage_write
<1>3. (TailsOld /\ LastIsValid /\ ValidIsWhole /\ ValidNamesNext /\ AckedNotNewer)'
  BY <1>2 DEF IInv, TailsOld, LastIsValid, ValidIsWhole, ValidNamesNext, AckedNotNewer
<1>4. RamAhead'
  BY <1>2 DEF vendor_storage_write, IInv, RamAhead, TypeOK, Image
<1> QED
  BY <1>1, <1>3, <1>4 DEF IInv

-----------------------------------------------------------------------------
(* The two steps that change the flash. *)

\* The part being written is not the newest complete image, and every tail on
\* the flash is older than the version being written.
LEMMA WritesElsewhere ==
  ASSUME IInv, pc \in {"head", "tail"}
  PROVE  /\ next_index # last.part
         /\ vendor_info.version > last.version
         /\ \A i \in Parts : parts[i].tail.version2 < vendor_info.version
<1>1. /\ vendor_info.version = last.version + fails + 1
      /\ Ahead(last.part, next_index) = fails + 1
      /\ fails <= MaxFails
  BY DEF IInv, RamAhead
<1>2. next_index # last.part
  BY <1>1, AheadAdvance DEF IInv, TypeOK
<1>3. /\ last.version \in Nat /\ fails \in Nat /\ vendor_info.version \in Nat
      /\ \A i \in Parts : parts[i].tail.version2 \in Nat
  BY DEF IInv, TypeOK, Image, Tail
<1>4. \A i \in Parts : parts[i].tail.version2 <= last.version
  BY DEF IInv, TailsOld
<1> QED
  BY <1>1, <1>2, <1>3, <1>4

\* The write of the head, on a part that is not the newest, keeps it.
LEMMA HeadStep == IInv /\ vendor_ops_head => IInv'
<1> SUFFICES ASSUME IInv, vendor_ops_head PROVE IInv'
  OBVIOUS
<1>1. TypeOK'
  BY TypeStep DEF IInv, Next
<1>2. /\ UNCHANGED <<vendor_info, bootdev_type, next_index, acked, last, fails>>
      /\ pc = "head" /\ pc' = "tail"
      /\ parts' = [parts EXCEPT ![next_index].head = vendor_info]
  BY DEF vendor_ops_head
<1>3. /\ next_index # last.part
      /\ parts[next_index].tail.version2 < vendor_info.version
  BY <1>2, WritesElsewhere DEF IInv, TypeOK
<1>4. /\ next_index \in Parts /\ last.part \in Parts
      /\ parts \in [Parts -> [head : Image, tail : Tail]]
      /\ vendor_info \in Image
  BY DEF IInv, TypeOK
<1>5. /\ parts'[next_index].head = vendor_info
      /\ parts'[next_index].tail = parts[next_index].tail
      /\ \A i \in Parts : parts'[i].tail = parts[i].tail
      /\ \A i \in Parts \ {next_index} : parts'[i] = parts[i]
  BY <1>2, <1>4
<1>6. ~Valid(parts'[next_index])
  BY <1>3, <1>4, <1>5 DEF Valid, Image, Tail
<1>7. TailsOld'
  BY <1>2, <1>5 DEF IInv, TailsOld
<1>8. LastIsValid'
  BY <1>2, <1>3, <1>4, <1>5 DEF IInv, LastIsValid
<1>9. ValidIsWhole' /\ ValidNamesNext'
  BY <1>5, <1>6 DEF IInv, ValidIsWhole, ValidNamesNext
<1>10. RamAhead'
  BY <1>2, <1>5 DEF IInv, RamAhead
<1>11. AckedNotNewer'
  BY <1>2, <1>3, <1>4, <1>5 DEF IInv, AckedNotNewer
<1> QED
  BY <1>1, <1>7, <1>8, <1>9, <1>10, <1>11 DEF IInv

\* The write of the tail, which completes an image, keeps it.
LEMMA TailStep == IInv /\ vendor_ops_tail => IInv'
<1> SUFFICES ASSUME IInv, vendor_ops_tail PROVE IInv'
  OBVIOUS
<1>1. TypeOK'
  BY TypeStep DEF IInv, Next
<1>2. /\ UNCHANGED <<vendor_info, bootdev_type, next_index, acked>>
      /\ pc = "tail" /\ pc' = "done" /\ fails' = 0
      /\ last' = [part |-> next_index, version |-> vendor_info.version]
      /\ parts' = [parts EXCEPT ![next_index].tail =
              [version2 |-> vendor_info.version, data |-> vendor_info.data]]
  BY DEF vendor_ops_tail
<1>3. /\ vendor_info.version > last.version
      /\ \A i \in Parts : parts[i].tail.version2 < vendor_info.version
  BY <1>2, WritesElsewhere
<1>4. /\ next_index \in Parts /\ last.part \in Parts /\ last.version \in Nat
      /\ parts \in [Parts -> [head : Image, tail : Tail]]
      /\ vendor_info \in Image /\ vendor_info.version \in Nat
      /\ acked.version \in Nat /\ last.version >= 1
  BY DEF IInv, TypeOK, Image, LastIsValid
<1>5. /\ parts[next_index].head = vendor_info
      /\ vendor_info.next_index = Advance(next_index)
  BY <1>2 DEF IInv, RamAhead
<1>6. /\ parts'[next_index].head = vendor_info
      /\ parts'[next_index].tail =
              [version2 |-> vendor_info.version, data |-> vendor_info.data]
      /\ \A i \in Parts \ {next_index} : parts'[i] = parts[i]
  BY <1>2, <1>4, <1>5
<1>7. TailsOld'
  <2> SUFFICES ASSUME NEW i \in Parts
               PROVE  /\ parts'[i].tail.version2 # 1
                      /\ parts'[i].tail.version2 <= last'.version
                      /\ i # last'.part => parts'[i].tail.version2 < last'.version
    BY DEF TailsOld
  <2>1. CASE i = next_index
    BY <1>2, <1>3, <1>4, <1>6, <2>1
  <2>2. CASE i # next_index
    BY <1>2, <1>3, <1>4, <1>6, <2>2 DEF IInv, TailsOld, TypeOK, Tail
  <2> QED
    BY <2>1, <2>2
<1>8. LastIsValid'
  BY <1>2, <1>3, <1>4, <1>6 DEF LastIsValid, Valid
<1>9. ValidIsWhole' /\ ValidNamesNext'
  BY <1>5, <1>6 DEF IInv, ValidIsWhole, ValidNamesNext
<1>10. RamAhead'
  <2>1. fails' <= MaxFails /\ bootdev_type'
    BY <1>2 DEF IInv, RamAhead, TypeOK
  <2> QED
    BY <1>2, <1>3, <1>4, <1>5, <1>6, <2>1 DEF RamAhead
<1>11. AckedNotNewer'
  BY <1>2, <1>3, <1>4 DEF IInv, AckedNotNewer
<1> QED
  BY <1>1, <1>7, <1>8, <1>9, <1>10, <1>11 DEF IInv

-----------------------------------------------------------------------------

\* Every step keeps the inductive invariant.
LEMMA NextIInv == IInv /\ [Next]_vars => IInv'
<1> SUFFICES ASSUME IInv, [Next]_vars PROVE IInv'
  OBVIOUS
<1>t. TypeOK'
  BY TypeStep DEF IInv
<1>1. CASE vendor_storage_init
  BY <1>1, InitStep
<1>2. CASE vendor_storage_reset
  BY <1>2, ResetStep
<1>3. CASE vendor_storage_init_eio
  BY <1>3, <1>t DEF vendor_storage_init_eio, IInv, TailsOld, LastIsValid,
       ValidIsWhole, ValidNamesNext, RamAhead, AckedNotNewer
<1>4. ASSUME NEW id \in Ids, NEW v \in Vals, vendor_storage_write(id, v)
      PROVE  IInv'
  BY <1>4, WriteStep
<1>5. CASE vendor_ops_head
  BY <1>5, HeadStep
<1>6. CASE vendor_ops_tail
  BY <1>6, TailStep
<1>7. CASE return_size
  <2>1. (TailsOld /\ LastIsValid /\ ValidIsWhole /\ ValidNamesNext)'
    BY <1>7 DEF return_size, IInv, TailsOld, LastIsValid, ValidIsWhole, ValidNamesNext
  <2>2. RamAhead'
    BY <1>7, AheadAdvance DEF return_size, IInv, RamAhead, TypeOK
  <2>3. AckedNotNewer'
    <3>1. /\ acked' = vendor_info /\ last' = last /\ parts' = parts
          /\ last.version \in Nat
          /\ vendor_info.version = last.version /\ last.version > 1
          /\ parts[last.part].head = vendor_info
      BY <1>7 DEF return_size, IInv, RamAhead, TypeOK
    <3> QED
      BY <3>1 DEF AckedNotNewer
  <2> QED
    BY <1>t, <2>1, <2>2, <2>3 DEF IInv
<1>8. CASE return_eio
  <2>1. (TailsOld /\ LastIsValid /\ ValidIsWhole /\ ValidNamesNext /\ AckedNotNewer)'
    BY <1>8 DEF return_eio, IInv, TailsOld, LastIsValid, ValidIsWhole, ValidNamesNext, AckedNotNewer
  <2>2. RamAhead'
    <3>1. /\ last.part \in Parts /\ next_index \in Parts /\ fails \in Nat
          /\ UNCHANGED <<parts, vendor_info, bootdev_type, next_index, acked, last>>
          /\ pc' = "idle"
      BY <1>8 DEF return_eio, IInv, TypeOK
    <3>2. CASE pc = "done"
      <4>1. /\ fails' = 0 /\ fails = 0
            /\ vendor_info.version = last.version
            /\ vendor_info.next_index = Advance(last.part)
        BY <1>8, <3>2 DEF return_eio, IInv, RamAhead
      <4>2. Ahead(last.part, vendor_info.next_index) = 1
        BY <3>1, <4>1, AheadAdvance
      <4> QED
        BY <3>1, <4>1, <4>2 DEF RamAhead, IInv, TypeOK
    <3>3. CASE pc \in {"head", "tail"}
      <4>1. /\ fails' = fails + 1 /\ fails' <= MaxFails
            /\ vendor_info.version = last.version + fails + 1
            /\ vendor_info.next_index = Advance(next_index)
            /\ Ahead(last.part, next_index) = fails + 1
        BY <1>8, <3>1, <3>3 DEF return_eio, IInv, RamAhead
      <4>2. Ahead(last.part, vendor_info.next_index) = fails' + 1
        BY <3>1, <4>1, AheadAdvance
      <4>3. vendor_info.version = last.version + fails'
        BY <3>1, <4>1 DEF IInv, TypeOK
      <4> QED
        BY <3>1, <4>1, <4>2, <4>3 DEF RamAhead
    <3> QED
      BY <1>8, <3>2, <3>3 DEF return_eio
  <2> QED
    BY <1>t, <2>1, <2>2 DEF IInv
<1>9. CASE crash
  BY <1>9, <1>t DEF crash, IInv, TailsOld, LastIsValid,
       ValidIsWhole, ValidNamesNext, RamAhead, AckedNotNewer
<1>10. CASE UNCHANGED vars
  BY <1>10, <1>t DEF vars, IInv, TailsOld, LastIsValid,
       ValidIsWhole, ValidNamesNext, RamAhead, AckedNotNewer
<1> QED
  BY <1>1, <1>2, <1>3, <1>4, <1>5, <1>6, <1>7, <1>8, <1>9, <1>10 DEF Next

\* vendor_info, the parts, the acknowledged image and the auxiliary variables
\* keep their types.
THEOREM Typing == Spec => []TypeOK
<1>1. Init => TypeOK
  BY InitIInv DEF IInv
<1> QED
  BY <1>1, TypeStep, PTL DEF Spec

\* The inductive invariant holds in every reachable state.
THEOREM Inductive == Spec => []IInv
BY InitIInv, NextIInv, PTL DEF Spec

\* Whatever part passes the test version = version2 of vendor_storage_init was
\* written by a single vendor_storage_write.
THEOREM Wholeness == Spec => []ValidIsWhole
BY Inductive, PTL DEF IInv

-----------------------------------------------------------------------------
(* What a restart loads. *)

\* A part whose head and tail belong to one image is loaded as written.
LEMMA LoadedWhole ==
  ASSUME NEW p \in [head : Image, tail : Tail], p.head.data = p.tail.data
  PROVE  Loaded(p) = p.head
BY DEF Loaded, Image, Tail, Data

\* The part init chooses is the one completed last.
LEMMA OnlyLastIsMax ==
  ASSUME IInv, NEW i \in Parts
  PROVE  IsMaxIndex(i) <=> i = last.part /\ last.version > 1
<1>1. /\ last.version \in Nat /\ last.version >= 1 /\ last.part \in Parts
      /\ \A j \in Parts : parts[j].head.version \in Nat /\ parts[j].tail.version2 \in Nat
  BY DEF IInv, TypeOK, Image, Tail, LastIsValid
<1>2. \A j \in Parts : Valid(parts[j]) =>
        /\ parts[j].head.version > 1
        /\ parts[j].head.version <= last.version
        /\ j # last.part => parts[j].head.version < last.version
  BY <1>1 DEF IInv, TailsOld, Valid
<1>3. last.version > 1 => /\ Valid(parts[last.part])
                          /\ parts[last.part].head.version = last.version
  BY DEF IInv, LastIsValid
<1>4. ASSUME i = last.part, last.version > 1 PROVE IsMaxIndex(i)
  BY <1>1, <1>2, <1>3, <1>4 DEF IsMaxIndex, Parts
<1>5. ASSUME IsMaxIndex(i) PROVE last.version > 1
  BY <1>1, <1>2, <1>5 DEF IsMaxIndex
<1>6. ASSUME IsMaxIndex(i), i # last.part PROVE FALSE
  <2>1. parts[last.part].head.version < parts[i].head.version
        \/ parts[last.part].head.version = parts[i].head.version
    BY <1>1, <1>3, <1>5, <1>6 DEF IsMaxIndex
  <2>2. parts[i].head.version < last.version
    BY <1>2, <1>6 DEF IsMaxIndex
  <2> QED
    BY <1>1, <1>3, <1>5, <1>6, <2>1, <2>2
<1> QED
  BY <1>4, <1>5, <1>6

\* A restart loads the image completed last, or an empty one.
LEMMA RecoveredIsLast ==
  ASSUME IInv
  PROVE  Recovered = IF last.version = 1 THEN ResetImage ELSE parts[last.part].head
<1>1. last.version \in Nat /\ last.version >= 1 /\ last.part \in Parts
  BY DEF IInv, TypeOK, LastIsValid
<1>2. CASE last.version = 1
  <2>1. NoneValid
    BY <1>2 DEF NoneValid, IInv, TailsOld, TypeOK, Image, Tail, Valid
  <2> QED
    BY <1>2, <2>1 DEF Recovered
<1>3. CASE last.version > 1
  <2>1. ~NoneValid
    BY <1>1, <1>3 DEF NoneValid, IInv, LastIsValid
  <2>2. IsMaxIndex(last.part) /\ \A i \in Parts : IsMaxIndex(i) => i = last.part
    BY <1>1, <1>3, OnlyLastIsMax
  <2>3. (CHOOSE i \in Parts : IsMaxIndex(i)) = last.part
    BY <1>1, <2>2
  <2>4. Recovered = Loaded(parts[last.part])
    BY <2>1, <2>3 DEF Recovered
  <2>5. parts[last.part] \in [head : Image, tail : Tail]
    BY <1>1 DEF IInv, TypeOK
  <2>6. parts[last.part].head.data = parts[last.part].tail.data
    BY <1>1, <1>3 DEF IInv, LastIsValid, ValidIsWhole
  <2>7. Loaded(parts[last.part]) = parts[last.part].head
    BY <2>5, <2>6, LoadedWhole
  <2> QED
    BY <1>3, <2>4, <2>7
<1> QED
  BY <1>1, <1>2, <1>3

\* A write that returned its size is never lost, wherever the writes after it
\* are interrupted.
THEOREM Durability == Spec => []AckedIsDurable
<1>1. IInv => AckedIsDurable
  <2> SUFFICES ASSUME IInv PROVE AckedIsDurable
    OBVIOUS
  <2>1. Recovered = IF last.version = 1 THEN ResetImage ELSE parts[last.part].head
    BY RecoveredIsLast
  <2>2. Recovered.version = last.version
    BY <2>1 DEF IInv, TypeOK, LastIsValid, ResetImage
  <2>3. acked.version <= last.version /\ acked.version \in Nat /\ last.version \in Nat
    BY DEF IInv, AckedNotNewer, TypeOK, Image
  <2>4. Recovered.data = IF last.version = 1 THEN Empty ELSE parts[last.part].head.data
    BY <2>1 DEF ResetImage
  <2> QED
    BY <2>2, <2>3, <2>4 DEF AckedIsDurable, IInv, AckedNotNewer
<1> QED
  BY <1>1, Inductive, PTL

\* vendor_storage_write never starts to overwrite the part that a restart
\* would load.
THEOREM Sparing == Spec => []NeverOverwritesNewest
<1>1. IInv => NeverOverwritesNewest
  BY WritesElsewhere, OnlyLastIsMax DEF NeverOverwritesNewest, IInv, TypeOK
<1> QED
  BY <1>1, Inductive, PTL

-----------------------------------------------------------------------------
(* What successive restarts load. *)

\* The version a restart loads is that of the image completed last.
LEMMA RecoveredVersion == IInv => Recovered.version = last.version
BY RecoveredIsLast DEF IInv, TypeOK, LastIsValid, ResetImage

\* No step makes the image completed last an older one: init finds it again,
\* and a write that completes is newer than it by the failed writes between.
LEMMA LastGrows == IInv /\ [Next]_vars => last'.version >= last.version
<1> SUFFICES ASSUME IInv, [Next]_vars PROVE last'.version >= last.version
  OBVIOUS
<1>1. last.version \in Nat /\ fails \in Nat
  BY DEF IInv, TypeOK
<1>2. CASE vendor_storage_init
  <2>1. PICK i \in Parts :
          /\ IsMaxIndex(i)
          /\ last' = [part |-> i, version |-> parts[i].head.version]
    BY <1>2 DEF vendor_storage_init
  <2>2. i = last.part /\ last.version > 1
    BY <2>1, OnlyLastIsMax
  <2>3. last'.version = last.version
    BY <2>1, <2>2 DEF IInv, LastIsValid
  <2> QED
    BY <1>1, <2>3
<1>3. CASE vendor_storage_reset
  <2>1. last.version = 1 /\ last'.version = 1
    BY <1>3 DEF vendor_storage_reset, NoneValid, IInv, LastIsValid, TypeOK
  <2> QED
    BY <2>1
<1>4. CASE vendor_ops_tail
  <2>1. last'.version = last.version + fails + 1
    BY <1>4 DEF vendor_ops_tail, IInv, RamAhead
  <2> QED
    BY <1>1, <2>1
<1>5. CASE UNCHANGED last
  BY <1>1, <1>5
<1> QED
  BY <1>2, <1>3, <1>4, <1>5 DEF Next, vars, vendor_storage_init_eio,
     vendor_storage_write, vendor_ops_head, return_size, return_eio, crash

\* A later boot never loads an older image than an earlier one could have
\* loaded, however the writes between them ended.
THEOREM Monotone == Spec => NeverRollsBack
<1>1. IInv /\ IInv' /\ [Next]_vars => Recovered.version' >= Recovered.version
  <2> SUFFICES ASSUME IInv, IInv', [Next]_vars
               PROVE  Recovered.version' >= Recovered.version
    OBVIOUS
  <2>1. (IInv => Recovered.version = last.version)'
    BY RecoveredVersion, PTL
  <2> QED
    BY <2>1, RecoveredVersion, LastGrows
<1> QED
  BY <1>1, Inductive, PTL DEF Spec, NeverRollsBack

-----------------------------------------------------------------------------
(* The detailed store implements the atomic one. *)

\* What a restart finds, read off the auxiliary variable.
DiskData == IF last.version = 1 THEN Empty ELSE parts[last.part].head.data

\* What a restart loads are the items on the medium.
LEMMA RecoveredData == IInv => Recovered.data = DiskData
BY RecoveredIsLast DEF DiskData, ResetImage

\* Every step of the store is a step of AtomicStore or leaves its variables
\* as they are.
LEMMA StepSimulation == IInv /\ IInv' /\ [Next]_vars => [Atomic!Next]_(Atomic!vars)
<1> SUFFICES ASSUME IInv, IInv', [Next]_vars PROVE [Atomic!Next]_(Atomic!vars)
  OBVIOUS
<1>1. Recovered.data = DiskData
  BY RecoveredData
<1>2. Recovered.data' = DiskData'
  <2>1. (IInv => Recovered.data = DiskData)'
    BY RecoveredData, PTL
  <2> QED
    BY <2>1
<1>3. CASE vendor_storage_init
  <2>1. PICK i \in Parts :
          /\ IsMaxIndex(i)
          /\ vendor_info' = Loaded(parts[i])
          /\ last' = [part |-> i, version |-> parts[i].head.version]
    BY <1>3 DEF vendor_storage_init
  <2>2. i = last.part /\ last.version > 1
    BY <2>1, OnlyLastIsMax
  <2>3. last' = last /\ parts' = parts /\ Valid(parts[i])
    BY <1>3, <2>1, <2>2 DEF vendor_storage_init, IInv, LastIsValid, TypeOK
  <2>4. vendor_info' = parts[last.part].head
    BY <2>1, <2>2, <2>3, LoadedWhole DEF IInv, ValidIsWhole, TypeOK
  <2>5. DiskData' = DiskData /\ vendor_info'.data = DiskData
    BY <2>2, <2>3, <2>4 DEF DiskData, IInv, TypeOK
  <2>6. Atomic!Start
    BY <1>1, <1>2, <1>3, <2>5 DEF Atomic!Start, vendor_storage_init
  <2> QED
    BY <2>6 DEF Atomic!Next
<1>4. CASE vendor_storage_reset
  <2>1. last.version = 1 /\ last'.version = 1
    BY <1>4 DEF vendor_storage_reset, NoneValid, IInv, LastIsValid, TypeOK
  <2>2. DiskData = Empty /\ DiskData' = Empty /\ vendor_info'.data = Empty
    BY <1>4, <2>1 DEF DiskData, vendor_storage_reset, ResetImage, Empty
  <2>3. Atomic!Start
    BY <1>1, <1>2, <1>4, <2>2 DEF Atomic!Start, vendor_storage_reset
  <2> QED
    BY <2>3 DEF Atomic!Next
<1>5. CASE vendor_storage_init_eio
  <2>1. DiskData' = DiskData
    BY <1>5 DEF vendor_storage_init_eio, DiskData, Empty
  <2> QED
    BY <1>1, <1>2, <1>5, <2>1 DEF vendor_storage_init_eio, Atomic!vars, Empty
<1>6. ASSUME NEW id \in Ids, NEW v \in Vals, vendor_storage_write(id, v)
      PROVE  Atomic!Next
  <2>1. DiskData' = DiskData
    BY <1>6 DEF vendor_storage_write, DiskData, Empty
  <2>2. Atomic!Put(id, v)
    BY <1>1, <1>2, <1>6, <2>1 DEF vendor_storage_write, Atomic!Put
  <2> QED
    BY <2>2 DEF Atomic!Next
<1>7. CASE vendor_ops_head
  <2>1. next_index # last.part /\ next_index \in Parts /\ last.part \in Parts
    BY <1>7, WritesElsewhere DEF vendor_ops_head, IInv, TypeOK
  <2>2. parts'[last.part] = parts[last.part]
    BY <1>7, <2>1 DEF vendor_ops_head, IInv, TypeOK
  <2>3. DiskData' = DiskData
    <3>1. last' = last
      BY <1>7 DEF vendor_ops_head
    <3> QED
      BY <2>2, <3>1 DEF DiskData, Empty
  <2> QED
    BY <1>1, <1>2, <1>7, <2>3 DEF vendor_ops_head, Atomic!vars, Empty
<1>8. CASE vendor_ops_tail
  <2>1. last' = [part |-> next_index, version |-> vendor_info.version]
    BY <1>8 DEF vendor_ops_tail
  <2>2. last'.version # 1 /\ parts'[next_index].head = vendor_info
    BY <1>8 DEF vendor_ops_tail, IInv, RamAhead, TypeOK
  <2>3. DiskData' = vendor_info.data
    BY <2>1, <2>2 DEF DiskData
  <2>4. bootdev_type
    BY <1>8 DEF vendor_ops_tail, IInv, RamAhead, TypeOK
  <2>5. Atomic!Persist
    BY <1>2, <1>8, <2>3, <2>4 DEF vendor_ops_tail, Atomic!Persist
  <2> QED
    BY <2>5 DEF Atomic!Next
<1>9. CASE return_size
  <2>1. DiskData' = DiskData
    BY <1>9 DEF return_size, DiskData, Empty
  <2>2. DiskData = vendor_info.data /\ bootdev_type
    <3>1. bootdev_type
      BY <1>9 DEF return_size, IInv, RamAhead, TypeOK
    <3>2. last.version # 1 /\ parts[last.part].head = vendor_info
      BY <1>9 DEF return_size, IInv, RamAhead, TypeOK
    <3> QED
      BY <3>1, <3>2 DEF DiskData
  <2>3. Atomic!Ack
    BY <1>1, <1>2, <1>9, <2>1, <2>2 DEF return_size, Atomic!Ack
  <2> QED
    BY <2>3 DEF Atomic!Next
<1>10. CASE return_eio
  <2>1. DiskData' = DiskData
    BY <1>10 DEF return_eio, DiskData, Empty
  <2>2. Atomic!Fail
    BY <1>1, <1>2, <1>10, <2>1 DEF return_eio, Atomic!Fail, Empty
  <2> QED
    BY <2>2 DEF Atomic!Next
<1>11. CASE crash
  <2>1. DiskData' = DiskData
    BY <1>11 DEF crash, DiskData, Empty
  <2>2. Atomic!Crash
    BY <1>1, <1>2, <1>11, <2>1 DEF crash, Atomic!Crash, Atomic!Nothing, Empty
  <2> QED
    BY <2>2 DEF Atomic!Next
<1>12. CASE UNCHANGED vars
  <2>1. DiskData' = DiskData
    BY <1>12 DEF vars, DiskData, Empty
  <2> QED
    BY <1>1, <1>2, <1>12, <2>1 DEF vars, Atomic!vars, Empty
<1> QED
  BY <1>3, <1>4, <1>5, <1>6, <1>7, <1>8, <1>9, <1>10, <1>11, <1>12 DEF Next

\* Under a restart at any moment the vendor storage behaves as the atomic item
\* store: contents change all at once, and success means durable.
THEOREM Refinement == Spec => RefinesAtomicStore
<1>1. Init => Atomic!Init
  <2> SUFFICES ASSUME Init PROVE Atomic!Init
    OBVIOUS
  <2>1. Recovered.data = Empty
    BY InitIInv, RecoveredData DEF DiskData, Init
  <2> QED
    BY <2>1 DEF Init, Atomic!Init, Atomic!Nothing, Empty, ResetImage
<1> QED
  BY <1>1, Inductive, StepSimulation, PTL DEF Spec, RefinesAtomicStore, Atomic!Spec

=============================================================================
