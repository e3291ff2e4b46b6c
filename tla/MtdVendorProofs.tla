--------------------------- MODULE MtdVendorProofs ---------------------------
(***************************************************************************)
(* Proofs about MtdVendor: the raw-flash log keeps the last acknowledged   *)
(* image through every crash and never programs a page twice, for every    *)
(* geometry in which programming the first page of a block does not fail   *)
(* and a block has more pages than a write may waste.                      *)
(***************************************************************************)
EXTENDS MtdVendor, TLAPS

\* What the theorems assume of the flash: the run MtdVendor_page0 shows that the
\* first part is needed.
Tolerable == 0 \notin FailPages /\ MaxErr + 1 < Pages

\* AckedIsDurable without the detour over the loaded image.
Safe ==
  \/ NothingFound /\ acked = ResetImage
  \/ \E b \in BlockNos, p \in PageNos :
       IsNewestBlock(b) /\ IsLastImage(b, p) /\ UpToDate(b, p)

\* Block and page numbers that every geometry has.
LEMMA Numbers ==
  /\ 0 \in BlockNos /\ 0 \in PageNos /\ 1 \in PageNos
  /\ BlockNos \subseteq Nat /\ PageNos \subseteq Nat
BY SizeAssumption DEF BlockNos, PageNos

\* A page that holds an image holds a record with a version.
LEMMA Pagewise ==
  ASSUME TypeOK
  PROVE  /\ \A b \in BlockNos, p \in PageNos :
              /\ flash[b][p] \in Image \cup {Blank, Junk}
              /\ IsImage(flash[b][p]) =>
                   flash[b][p] \in Image /\ flash[b][p].version \in Nat
         /\ \A b \in BlockNos : HeadVersion(b) \in Nat
<1>1. \A b \in BlockNos, p \in PageNos : flash[b][p] \in Image \cup {Blank, Junk}
  BY DEF TypeOK
<1>2. \A b \in BlockNos, p \in PageNos :
        IsImage(flash[b][p]) => flash[b][p] \in Image /\ flash[b][p].version \in Nat
  BY <1>1 DEF IsImage, Image
<1>3. \A b \in BlockNos : HeadVersion(b) \in Nat
  BY <1>2, Numbers DEF HeadVersion
<1> QED BY <1>1, <1>2, <1>3

\* There is one newest block.
LEMMA OneNewest ==
  ASSUME TypeOK, NEW b \in BlockNos, NEW c \in BlockNos,
         IsNewestBlock(b), IsNewestBlock(c)
  PROVE  b = c
<1>1. HeadVersion(b) \in Nat /\ HeadVersion(c) \in Nat
  BY Pagewise
<1>2. HeadVersion(b) = HeadVersion(c)
  BY <1>1 DEF IsNewestBlock
<1>3. b <= c /\ c <= b
  BY <1>2 DEF IsNewestBlock
<1> QED BY <1>3, Numbers

\* There is one last image in a block.
LEMMA OneLast ==
  ASSUME NEW b \in BlockNos, NEW p \in PageNos, NEW q \in PageNos,
         IsLastImage(b, p), IsLastImage(b, q)
  PROVE  p = q
<1>1. ~(p < q) /\ ~(q < p)
  BY DEF IsLastImage
<1> QED BY <1>1, Numbers

\* The two forms of AckedIsDurable.
LEMMA SafeForm ==
  ASSUME TypeOK, acked.version >= 1
  PROVE  AckedIsDurable <=> Safe
<1>1. ASSUME AckedIsDurable PROVE Safe
  <2>1. PICK img \in {ResetImage} \cup {flash[b][p] : b \in BlockNos, p \in PageNos} :
          Loadable(img) /\ (img.version > acked.version \/ img = acked)
    BY <1>1 DEF AckedIsDurable
  <2>2. CASE NothingFound /\ img = ResetImage
    <3>1. acked.version \in Nat
      BY DEF TypeOK, Image
    <3> QED BY <2>1, <2>2, <3>1 DEF Safe, ResetImage
  <2>3. CASE \E b \in BlockNos, p \in PageNos :
               IsNewestBlock(b) /\ IsLastImage(b, p) /\ img = flash[b][p]
    BY <2>1, <2>3 DEF Safe, UpToDate
  <2> QED BY <2>1, <2>2, <2>3 DEF Loadable
<1>2. ASSUME Safe PROVE AckedIsDurable
  <2>1. CASE NothingFound /\ acked = ResetImage
    BY <2>1 DEF AckedIsDurable, Loadable
  <2>2. CASE \E b \in BlockNos, p \in PageNos :
               IsNewestBlock(b) /\ IsLastImage(b, p) /\ UpToDate(b, p)
    BY <2>2 DEF AckedIsDurable, Loadable, UpToDate
  <2> QED BY <1>2, <2>1, <2>2 DEF Safe
<1> QED BY <1>1, <1>2

-----------------------------------------------------------------------------
\* What is said of the other blocks survives a change of block k.
LEMMA Frame ==
  ASSUME NEW k, \A b \in BlockNos \ {k} : flash'[b] = flash[b]
  PROVE  \A b \in BlockNos \ {k} :
           /\ HeadVersion(b)' = HeadVersion(b)
           /\ \A p \in PageNos : IsLastImage(b, p)' <=> IsLastImage(b, p)
BY DEF HeadVersion, IsLastImage

LEMMA FrameNewest ==
  ASSUME NEW k, \A b \in BlockNos \ {k} : flash'[b] = flash[b],
         NEW b \in BlockNos \ {k}
  PROVE  IsNewestIn(BlockNos \ {k}, b)' <=> IsNewestIn(BlockNos \ {k}, b)
<1>1. \A c \in BlockNos \ {k} : HeadVersion(c)' = HeadVersion(c)
  BY Frame
<1> QED BY <1>1 DEF IsNewestIn

LEMMA FrameBacked ==
  ASSUME NEW k, \A b \in BlockNos \ {k} : flash'[b] = flash[b],
         acked' = acked, Backed(BlockNos \ {k})
  PROVE  Backed(BlockNos \ {k})'
<1>1. CASE acked = ResetImage /\ \A b \in BlockNos \ {k} : HeadVersion(b) = 0
  BY <1>1, Frame DEF Backed
<1>2. CASE \E b \in BlockNos \ {k}, p \in PageNos :
             /\ IsNewestIn(BlockNos \ {k}, b) /\ IsLastImage(b, p)
             /\ UpToDate(b, p) /\ flash[b][1] # Blank
  <2>1. PICK b \in BlockNos \ {k}, p \in PageNos :
             /\ IsNewestIn(BlockNos \ {k}, b) /\ IsLastImage(b, p)
             /\ UpToDate(b, p) /\ flash[b][1] # Blank
    BY <1>2
  <2>2. IsNewestIn(BlockNos \ {k}, b)' /\ IsLastImage(b, p)'
    BY <2>1, FrameNewest, Frame
  <2>3. UpToDate(b, p)' /\ (flash[b][1] # Blank)'
    BY <2>1 DEF UpToDate
  <2> QED BY <2>2, <2>3 DEF Backed
<1> QED BY <1>1, <1>2 DEF Backed

\* A block that loses its images: the other blocks are all the next boot needs.
\* This is the erase, the erase that power loss cuts off, and the first page that
\* power loss leaves half programmed.
LEMMA DropBlock ==
  ASSUME TypeOK, TypeOK', acked.version >= 1, FlashInv, acked' = acked,
         NEW k \in BlockNos,
         \A b \in BlockNos \ {k} : flash'[b] = flash[b],
         Backed(BlockNos \ {k}),
         \A p \in PageNos : ~IsImage(flash'[k][p]),
         \E n \in 0 .. Pages : \A p \in PageNos : flash'[k][p] = Blank <=> p >= n
  PROVE  AckedIsDurable' /\ FlashInv'
<1>1. HeadVersion(k)' = 0
  BY Numbers DEF HeadVersion
<1>2. \A b \in BlockNos \ {k} : HeadVersion(b)' = HeadVersion(b)
  BY Frame
<1>3. \A b \in BlockNos : HeadVersion(b)' \in Nat /\ HeadVersion(b) \in Nat
  <2>1. \A b \in BlockNos : HeadVersion(b) \in Nat
    BY Pagewise
  <2> QED BY <2>1, <1>1, <1>2
<1>4. Backed(BlockNos \ {k})'
  BY FrameBacked
<1>5. \A b \in BlockNos \ {k} : IsNewestIn(BlockNos \ {k}, b)' => IsNewestBlock(b)'
  BY <1>1, <1>3 DEF IsNewestIn, IsNewestBlock
<1>6. Safe'
  <2>1. CASE (acked = ResetImage /\ \A b \in BlockNos \ {k} : HeadVersion(b) = 0)'
    BY <2>1, <1>1 DEF Safe, NothingFound
  <2>2. CASE (\E b \in BlockNos \ {k}, p \in PageNos :
                /\ IsNewestIn(BlockNos \ {k}, b) /\ IsLastImage(b, p)
                /\ UpToDate(b, p) /\ flash[b][1] # Blank)'
    BY <2>2, <1>5 DEF Safe
  <2> QED BY <2>1, <2>2, <1>4 DEF Backed
<1>7. AckedIsDurable'
  <2>1. (acked.version >= 1)'
    OBVIOUS
  <2> QED BY <1>6, <2>1, SafeForm, PTL
<1>8. ASSUME NEW b \in BlockNos
      PROVE  (\E n \in 0 .. Pages : \A p \in PageNos : flash[b][p] = Blank <=> p >= n)'
  <2>1. CASE b = k
    BY <2>1
  <2>2. CASE b # k
    BY <2>2 DEF FlashInv
  <2> QED BY <2>1, <2>2
<1>9. ASSUME NEW b \in BlockNos, NEW p \in PageNos, IsImage(flash'[b][p])
      PROVE  HeadVersion(b)' <= flash'[b][p].version
  BY <1>9, <1>2 DEF FlashInv
<1>10. ASSUME NEW b \in BlockNos, IsNewestBlock(b)', flash'[b][1] = Blank
       PROVE  Backed(BlockNos \ {b})'
  <2>1. b # k
    BY <1>1, <1>10 DEF IsNewestBlock
  <2>2. ~(\E c \in BlockNos \ {k}, p \in PageNos :
                /\ IsNewestIn(BlockNos \ {k}, c) /\ IsLastImage(c, p)
                /\ UpToDate(c, p) /\ flash[c][1] # Blank)'
    <3>1. SUFFICES ASSUME NEW c \in BlockNos \ {k},
                          IsNewestIn(BlockNos \ {k}, c)', flash'[c][1] # Blank
                   PROVE  FALSE
      OBVIOUS
    <3>2. HeadVersion(c)' = HeadVersion(b)'
      BY <3>1, <1>3, <1>10, <2>1 DEF IsNewestIn, IsNewestBlock
    <3>3. b <= c /\ c <= b
      BY <3>1, <3>2, <1>10, <2>1 DEF IsNewestIn, IsNewestBlock
    <3> QED BY <3>1, <3>3, <1>10, Numbers
  <2>3. (\A c \in BlockNos \ {k} : HeadVersion(c) = 0)'
    BY <1>4, <2>2 DEF Backed
  <2> QED BY <2>1, <2>3, <1>10 DEF IsNewestBlock
<1> QED BY <1>7, <1>8, <1>9, <1>10 DEF FlashInv

\* A page after the first is programmed, with an image or in vain, at the end of
\* the newest block.
LEMMA Append ==
  ASSUME TypeOK, TypeOK', FlashInv,
         NEW k \in BlockNos, NEW p \in PageNos, p > 0,
         IsNewestBlock(k),
         \A q \in PageNos : flash[k][q] = Blank <=> q >= p,
         \A b \in BlockNos \ {k} : flash'[b] = flash[b],
         \A q \in PageNos \ {p} : flash'[k][q] = flash[k][q],
         flash'[k][p] # Blank,
         IsImage(flash'[k][p]) => HeadVersion(k) <= flash'[k][p].version
  PROVE  /\ FlashInv'
         /\ IsNewestBlock(k)'
         /\ \A b \in BlockNos : HeadVersion(b)' = HeadVersion(b)
         /\ \A q \in PageNos : flash'[k][q] = Blank <=> q >= p + 1
         /\ IsImage(flash'[k][p]) => IsLastImage(k, p)'
         /\ ~IsImage(flash'[k][p]) => \A q \in PageNos : IsLastImage(k, q) =>
                             IsLastImage(k, q)' /\ flash'[k][q] = flash[k][q]
<1>1. \A b \in BlockNos : HeadVersion(b)' = HeadVersion(b)
  BY Numbers DEF HeadVersion
<1>2. \A q \in PageNos : flash'[k][q] = Blank <=> q >= p + 1
  BY Numbers
<1>3. IsNewestBlock(k)'
  BY <1>1 DEF IsNewestBlock
<1>4. IsImage(flash'[k][p]) => IsLastImage(k, p)'
  BY <1>2, Numbers DEF IsLastImage, IsImage
<1>5. ASSUME ~IsImage(flash'[k][p]), NEW q \in PageNos, IsLastImage(k, q)
      PROVE  IsLastImage(k, q)' /\ flash'[k][q] = flash[k][q]
  <2>1. q # p
    BY <1>5, Numbers DEF IsLastImage, IsImage
  <2> QED BY <1>5, <2>1 DEF IsLastImage
<1>6. ASSUME NEW b \in BlockNos
      PROVE  (\E n \in 0 .. Pages : \A q \in PageNos : flash[b][q] = Blank <=> q >= n)'
  <2>1. CASE b = k
    <3>1. p + 1 \in 0 .. Pages
      BY SizeAssumption DEF PageNos
    <3> QED BY <2>1, <3>1, <1>2
  <2>2. CASE b # k
    BY <2>2 DEF FlashInv
  <2> QED BY <2>1, <2>2
<1>7. ASSUME NEW b \in BlockNos, NEW q \in PageNos, IsImage(flash'[b][q])
      PROVE  HeadVersion(b)' <= flash'[b][q].version
  BY <1>7, <1>1 DEF FlashInv
<1>8. ASSUME NEW b \in BlockNos, IsNewestBlock(b)', flash'[b][1] = Blank
       PROVE  FALSE
  <2>1. b = k
    BY <1>1, <1>8, OneNewest DEF IsNewestBlock
  <2> QED BY <2>1, <1>2, <1>8, Numbers
<1> QED BY <1>1, <1>2, <1>3, <1>4, <1>5, <1>6, <1>7, <1>8 DEF FlashInv

\* An image newer than every head opens an erased block.
LEMMA OpenBlock ==
  ASSUME TypeOK, TypeOK', FlashInv,
         NEW k \in BlockNos, NEW x \in Image,
         \A c \in BlockNos \ {k} : HeadVersion(c) < x.version,
         x.version > 0,
         \A q \in PageNos : flash[k][q] = Blank,
         flash' = [flash EXCEPT ![k][0] = x],
         Backed(BlockNos \ {k})'
  PROVE  /\ FlashInv'
         /\ IsNewestBlock(k)'
         /\ HeadVersion(k)' = x.version
         /\ \A b \in BlockNos \ {k} : HeadVersion(b)' = HeadVersion(b)
         /\ \A q \in PageNos : flash'[k][q] = Blank <=> q >= 1
         /\ flash'[k][0] = x
         /\ IsLastImage(k, 0)'
<1>1. /\ \A b \in BlockNos \ {k} : flash'[b] = flash[b]
      /\ flash'[k][0] = x
      /\ \A q \in PageNos \ {0} : flash'[k][q] = Blank
  BY Numbers DEF TypeOK
<1>2. IsImage(x) /\ x # Blank
  BY PageAssumption DEF IsImage
<1>3. /\ HeadVersion(k)' = x.version
      /\ \A b \in BlockNos \ {k} : HeadVersion(b)' = HeadVersion(b)
  BY <1>1, <1>2 DEF HeadVersion
<1>4. \A q \in PageNos : flash'[k][q] = Blank <=> q >= 1
  BY <1>1, <1>2, Numbers
<1>5. \A b \in BlockNos : HeadVersion(b) \in Nat
  BY Pagewise
<1>6. x.version \in Nat
  BY DEF Image
<1>7. IsNewestBlock(k)'
  BY <1>3, <1>5, <1>6, Numbers DEF IsNewestBlock
<1>8. IsLastImage(k, 0)'
  BY <1>1, <1>2, Numbers DEF IsLastImage, IsImage
<1>9. ASSUME NEW b \in BlockNos
      PROVE  (\E n \in 0 .. Pages : \A q \in PageNos : flash[b][q] = Blank <=> q >= n)'
  <2>1. CASE b = k
    <3>1. 1 \in 0 .. Pages
      BY SizeAssumption
    <3> QED BY <2>1, <3>1, <1>4
  <2>2. CASE b # k
    BY <2>2, <1>1 DEF FlashInv
  <2> QED BY <2>1, <2>2
<1>10. ASSUME NEW b \in BlockNos, NEW q \in PageNos, IsImage(flash'[b][q])
       PROVE  HeadVersion(b)' <= flash'[b][q].version
  <2>1. CASE b = k
    BY <2>1, <1>1, <1>3, <1>6, <1>10 DEF IsImage
  <2>2. CASE b # k
    BY <2>2, <1>1, <1>3, <1>10 DEF FlashInv
  <2> QED BY <2>1, <2>2
<1>11. ASSUME NEW b \in BlockNos, IsNewestBlock(b)'
       PROVE  Backed(BlockNos \ {b})'
  <2>1. HeadVersion(b)' = HeadVersion(k)'
    BY <1>3, <1>5, <1>6, <1>7, <1>11 DEF IsNewestBlock
  <2>2. b = k
    BY <2>1, <1>3, <1>5, <1>6
  <2> QED BY <2>2
<1> QED BY <1>1, <1>3, <1>4, <1>7, <1>8, <1>9, <1>10, <1>11 DEF FlashInv

-----------------------------------------------------------------------------
\* Steps that leave the flash alone.
LEMMA StillFlash ==
  ASSUME UNCHANGED <<flash, acked>>
  PROVE  /\ FlashInv => FlashInv'
         /\ AckedIsDurable => AckedIsDurable'
         /\ \A b : HeadVersion(b)' = HeadVersion(b)
         /\ \A b : IsNewestBlock(b)' <=> IsNewestBlock(b)
         /\ \A b, p : IsLastImage(b, p)' <=> IsLastImage(b, p)
<1>1. \A b : HeadVersion(b)' = HeadVersion(b)
  BY DEF HeadVersion
<1>2. \A b : IsNewestBlock(b)' <=> IsNewestBlock(b)
  BY <1>1 DEF IsNewestBlock
<1>3. \A b, p : IsLastImage(b, p)' <=> IsLastImage(b, p)
  BY DEF IsLastImage
<1>4. ASSUME AckedIsDurable PROVE AckedIsDurable'
  BY <1>1, <1>2, <1>3, <1>4 DEF AckedIsDurable, Loadable, NothingFound
<1>5. ASSUME FlashInv PROVE FlashInv'
  <2>1. ASSUME NEW b \in BlockNos, Backed(BlockNos \ {b}) PROVE Backed(BlockNos \ {b})'
    BY <2>1, FrameBacked
  <2> QED BY <1>1, <1>2, <1>5, <2>1 DEF FlashInv
<1> QED BY <1>1, <1>2, <1>3, <1>4, <1>5

\* Where the log goes on in the newest block.
LEMMA NextPageIs ==
  ASSUME TypeOK, NEW b \in BlockNos, IsNewestBlock(b), NEW n \in 0 .. Pages,
         \A q \in PageNos : flash[b][q] = Blank <=> q >= n
  PROVE  n > 0 /\ NextPage(b) = IF n > 1 THEN n ELSE 0
<1>1. n > 0
  BY Numbers DEF IsNewestBlock, HeadVersion, IsImage
<1>2. n - 1 \in PageNos /\ n \in Nat
  BY <1>1, SizeAssumption DEF PageNos
<1>3. IsLastProgrammed(b, n - 1)
  BY <1>2, Numbers DEF IsLastProgrammed
<1>4. ASSUME NEW q \in PageNos, IsLastProgrammed(b, q) PROVE q = n - 1
  <2>1. ~(q >= n)
    BY <1>4 DEF IsLastProgrammed
  <2>2. ~(n - 1 > q)
    BY <1>2, <1>3, <1>4 DEF IsLastProgrammed
  <2> QED BY <1>2, <2>1, <2>2, Numbers
<1> DEFINE last == CHOOSE q \in PageNos : IsLastProgrammed(b, q)
<1>5. last = n - 1
  BY <1>2, <1>3, <1>4
<1>6. NextPage(b) = IF last > 0 THEN last + 1 ELSE 0
  BY DEF NextPage
<1> HIDE DEF last
<1> QED BY <1>1, <1>2, <1>5, <1>6

LEMMA BootIInv ==
  ASSUME IInv, mtd_vendor_storage_init
  PROVE  IInv'
<1> USE DEF mtd_vendor_storage_init
<1>1. PICK b \in BlockNos, p \in PageNos :
        /\ IsNewestBlock(b) /\ IsLastImage(b, p)
        /\ info' = flash[b][p] /\ blk_offset' = b /\ page_offset' = NextPage(b)
  OBVIOUS
<1>2. TypeOK /\ FlashInv /\ pc = "idle" /\ acked.version >= 1 /\ AckedIsDurable
  BY DEF IInv
<1>3. PICK n \in 0 .. Pages : \A q \in PageNos : flash[b][q] = Blank <=> q >= n
  BY <1>2 DEF FlashInv
<1>4. n > 0 /\ page_offset' = IF n > 1 THEN n ELSE 0
  BY <1>1, <1>2, <1>3, NextPageIs
<1>5. IsImage(flash[b][p]) /\ flash[b][p] \in Image /\ flash[b][p].version \in Nat
  BY <1>1, <1>2, Pagewise DEF IsLastImage
<1>6. TypeOK'
  BY <1>1, <1>2, <1>4, <1>5, SizeAssumption DEF TypeOK
<1>7. acked.version <= flash[b][p].version
  <2>1. Safe
    BY <1>2, SafeForm
  <2>2. PICK c \in BlockNos, q \in PageNos :
          IsNewestBlock(c) /\ IsLastImage(c, q) /\ UpToDate(c, q)
    BY <1>1, <2>1 DEF Safe, NothingFound, IsNewestBlock
  <2>3. c = b /\ q = p
    BY <1>1, <1>2, <2>2, OneNewest, OneLast
  <2>4. acked.version \in Nat
    BY <1>2 DEF TypeOK, Image
  <2> QED BY <2>2, <2>3, <2>4, <1>5 DEF UpToDate
<1>8. \A c \in BlockNos : HeadVersion(c) <= flash[b][p].version
  <2>1. HeadVersion(b) <= flash[b][p].version
    BY <1>2, <1>5 DEF FlashInv
  <2>2. \A c \in BlockNos : HeadVersion(c) <= HeadVersion(b) /\ HeadVersion(c) \in Nat
    BY <1>1, <1>2, Pagewise DEF IsNewestBlock
  <2> QED BY <2>1, <2>2, <1>5
<1>9. n <= 1 => Backed(BlockNos \ {b})'
  <2>1. n <= 1 => Backed(BlockNos \ {b})
    BY <1>1, <1>2, <1>3, Numbers DEF FlashInv
  <2> QED BY <2>1, FrameBacked
<1>10. LogInv'
  BY <1>1, <1>3, <1>4, <1>7, <1>8, <1>9, StillFlash DEF LogInv
<1> QED BY <1>2, <1>6, <1>10, StillFlash DEF IInv

LEMMA ResetIInv ==
  ASSUME IInv, mtd_vendor_storage_reset
  PROVE  IInv'
<1> USE DEF mtd_vendor_storage_reset
<1>1. TypeOK /\ FlashInv /\ pc = "idle" /\ acked.version >= 1 /\ AckedIsDurable
  BY DEF IInv
<1>2. ResetImage \in Image /\ ResetImage.version = 1
  BY DEF ResetImage, Image
<1>3. TypeOK'
  BY <1>1, <1>2, Numbers, SizeAssumption DEF TypeOK
<1>4. Safe
  BY <1>1, SafeForm
<1>5. acked = ResetImage
  BY <1>4 DEF Safe, NothingFound, IsNewestBlock
<1>6. Backed(BlockNos \ {0})'
  <2>1. Backed(BlockNos \ {0})
    BY <1>5 DEF Backed, NothingFound
  <2> QED BY <2>1, FrameBacked
<1>7. LogInv'
  BY <1>2, <1>5, <1>6, StillFlash DEF LogInv, NothingFound
<1> QED BY <1>1, <1>3, <1>7, StillFlash DEF IInv

LEMMA WriteIInv ==
  ASSUME IInv, NEW v \in Vals, mtd_vendor_write(v)
  PROVE  IInv'
<1> USE DEF mtd_vendor_write
<1>1. TypeOK /\ FlashInv /\ acked.version >= 1 /\ AckedIsDurable /\ LogInv
  BY DEF IInv
<1>2. info.version \in Nat /\ acked.version \in Nat
  BY <1>1 DEF TypeOK, Image
<1>3. info' \in Image /\ info'.version = info.version + 1
  BY <1>2 DEF Image
<1>4. TypeOK'
  BY <1>1, <1>3 DEF TypeOK
<1>5. \A b \in BlockNos : HeadVersion(b) < info'.version /\ HeadVersion(b) <= info'.version
  BY <1>1, <1>2, <1>3, Pagewise DEF LogInv
<1>6. acked.version < info'.version /\ acked.version <= info'.version
  BY <1>1, <1>2, <1>3 DEF LogInv
<1>7. page_offset = 0 => Backed(BlockNos \ {blk_offset})'
  BY <1>1, FrameBacked DEF LogInv
<1>8. LogInv'
  BY <1>1, <1>5, <1>6, <1>7, StillFlash DEF LogInv
<1>9. WriteInv'
  BY <1>5, <1>6, StillFlash, SizeAssumption DEF WriteInv
<1> QED BY <1>1, <1>4, <1>8, <1>9, StillFlash DEF IInv

LEMMA StartIInv ==
  ASSUME IInv, start_page
  PROVE  IInv'
<1> USE DEF start_page
<1>1. TypeOK /\ FlashInv /\ acked.version >= 1 /\ AckedIsDurable /\ up /\ LogInv /\ WriteInv
  BY DEF IInv
<1>2. TypeOK'
  BY <1>1 DEF TypeOK
<1>3. LogInv'
  <2>1. page_offset = 0 => Backed(BlockNos \ {blk_offset})'
    BY <1>1, FrameBacked DEF LogInv
  <2> QED BY <1>1, <2>1, StillFlash DEF LogInv
<1>4. FirstCopy => FirstCopy'
  BY StillFlash DEF FirstCopy, IsNewestIn
<1>5. WriteInv'
  BY <1>1, <1>4, StillFlash DEF WriteInv
<1> QED BY <1>1, <1>2, <1>3, <1>5, StillFlash DEF IInv

\* The full block stays the newest of the others, and holds the first copy if it
\* has been written: not as its head, for a block has more pages than that.
LEMMA NextBlockIInv ==
  ASSUME Tolerable, IInv, next_block
  PROVE  IInv'
<1> USE DEF next_block
<1>1. TypeOK /\ FlashInv /\ acked.version >= 1 /\ AckedIsDurable /\ up /\ LogInv /\ WriteInv
  BY DEF IInv
<1>2. PICK b \in BlockNos, c \in BlockNos :
        b = blk_offset /\ c = blk_offset' /\ c # b /\ page_offset = Pages
  BY <1>1, SizeAssumption DEF TypeOK, BlockNos
<1>3. TypeOK'
  BY <1>1, <1>2, SizeAssumption DEF TypeOK
<1>4. IsNewestBlock(b) /\ flash[b][1] # Blank
  BY <1>1, <1>2, SizeAssumption, Numbers DEF LogInv, PageNos
<1>5. IsNewestIn(BlockNos \ {c}, b)
  BY <1>2, <1>4 DEF IsNewestBlock, IsNewestIn
<1>6. Backed(BlockNos \ {c})
  <2>1. Safe
    BY <1>1, SafeForm
  <2>2. PICK d \in BlockNos, p \in PageNos :
          IsNewestBlock(d) /\ IsLastImage(d, p) /\ UpToDate(d, p)
    BY <1>2, <1>4, <2>1 DEF Safe, NothingFound, IsNewestBlock
  <2>3. d = b
    BY <1>1, <1>2, <1>4, <2>2, OneNewest
  <2> QED BY <1>2, <1>4, <1>5, <2>2, <2>3 DEF Backed
<1>7. LogInv'
  <2>1. Backed(BlockNos \ {c})'
    BY <1>6, FrameBacked
  <2> QED BY <1>1, <1>2, <2>1, StillFlash DEF LogInv
<1>8. ASSUME count = 1 PROVE FirstCopy'
  <2>1. PICK k \in PageNos :
          /\ IsLastImage(b, k) /\ flash[b][k] = info
          /\ page_offset - 1 - k <= err
          /\ k = 0 \/ HeadVersion(b) < info.version
    BY <1>1, <1>2, <1>8, SizeAssumption DEF WriteInv, FirstCopy
  <2>2. k # 0
    <3>1. err \in Nat /\ err <= MaxErr
      BY <1>1 DEF WriteInv, TypeOK
    <3> QED BY <1>2, <2>1, <3>1, SizeAssumption DEF Tolerable
  <2>3. \A d \in BlockNos : HeadVersion(d) < info.version
    <3>1. \A d \in BlockNos : HeadVersion(d) <= HeadVersion(b) /\ HeadVersion(d) \in Nat
      BY <1>1, <1>4, Pagewise DEF IsNewestBlock
    <3>2. info.version \in Nat
      BY <1>1 DEF TypeOK, Image
    <3> QED BY <1>2, <2>1, <2>2, <3>1, <3>2
  <2>4. IsNewestIn(BlockNos \ {c}, b)' /\ IsLastImage(b, k)'
    <3>1. \A d : HeadVersion(d)' = HeadVersion(d)
      BY StillFlash
    <3>2. IsLastImage(b, k)'
      BY <2>1, StillFlash
    <3> QED BY <1>5, <3>1, <3>2 DEF IsNewestIn
  <2> QED BY <1>2, <1>4, <2>1, <2>3, <2>4, StillFlash DEF FirstCopy
<1>9. WriteInv'
  BY <1>1, <1>8, StillFlash DEF WriteInv
<1> QED BY <1>1, <1>3, <1>7, <1>9, StillFlash DEF IInv

-----------------------------------------------------------------------------
\* Steps that change the flash.
LEMMA BlankAhead ==
  ASSUME IInv
  PROVE  ProgramsBlankPages
<1>1. ASSUME pc = "program" PROVE flash[blk_offset][page_offset] = Blank
  <2>1. TypeOK /\ LogInv /\ WriteInv
    BY <1>1 DEF IInv
  <2>2. page_offset \in PageNos
    BY <1>1, <2>1, SizeAssumption DEF TypeOK, WriteInv, PageNos
  <2> QED BY <1>1, <2>1, <2>2, Numbers DEF LogInv, WriteInv
<1> QED BY <1>1 DEF ProgramsBlankPages

LEMMA EraseIInv ==
  ASSUME IInv, erase
  PROVE  IInv'
<1> USE DEF erase
<1>1. TypeOK /\ FlashInv /\ acked.version >= 1 /\ up /\ LogInv /\ WriteInv /\ page_offset = 0
  BY DEF IInv, WriteInv
<1>2. PICK k \in BlockNos : k = blk_offset
  BY <1>1 DEF TypeOK
<1>3. TypeOK'
  BY <1>1 DEF TypeOK
<1>4. /\ \A b \in BlockNos \ {k} : flash'[b] = flash[b]
      /\ \A p \in PageNos : flash'[k][p] = Blank
  BY <1>1, <1>2 DEF TypeOK
<1>5. Backed(BlockNos \ {k})
  BY <1>1, <1>2 DEF LogInv
<1>6. AckedIsDurable' /\ FlashInv'
  <2>1. \A p \in PageNos : ~IsImage(flash'[k][p])
    BY <1>4 DEF IsImage
  <2>2. \E n \in 0 .. Pages : \A p \in PageNos : flash'[k][p] = Blank <=> p >= n
    <3>1. 0 \in 0 .. Pages
      BY SizeAssumption
    <3> QED BY <1>4, <3>1, Numbers
  <2> QED BY <1>1, <1>3, <1>4, <1>5, <2>1, <2>2, DropBlock
<1>7. /\ HeadVersion(k)' = 0
      /\ \A b \in BlockNos \ {k} : HeadVersion(b)' = HeadVersion(b)
  BY <1>4, Frame, Numbers DEF HeadVersion, IsImage
<1>8. info.version \in Nat /\ acked.version \in Nat /\ 0 < info.version
  BY <1>1 DEF TypeOK, Image, WriteInv
<1>9. LogInv'
  <2>1. Backed(BlockNos \ {k})'
    BY <1>4, <1>5, FrameBacked
  <2> QED BY <1>1, <1>2, <1>7, <1>8, <2>1 DEF LogInv
<1>10. ASSUME count = 1 PROVE FirstCopy'
  <2>1. PICK b \in BlockNos \ {k}, q \in PageNos :
          /\ IsNewestIn(BlockNos \ {k}, b) /\ IsLastImage(b, q) /\ flash[b][q] = info
          /\ flash[b][1] # Blank
    BY <1>1, <1>2, <1>10 DEF WriteInv, FirstCopy
  <2>2. \A c \in BlockNos \ {k} : HeadVersion(c) < info.version
    BY <1>1, <1>2, <1>10 DEF WriteInv, FirstCopy
  <2>3. IsNewestIn(BlockNos \ {k}, b)' /\ IsLastImage(b, q)'
    BY <1>4, <2>1, FrameNewest, Frame
  <2> QED BY <1>1, <1>2, <1>4, <1>7, <2>1, <2>2, <2>3 DEF FirstCopy
<1>11. WriteInv'
  BY <1>1, <1>2, <1>4, <1>7, <1>8, <1>10, SizeAssumption DEF WriteInv
<1> QED BY <1>1, <1>3, <1>6, <1>9, <1>11 DEF IInv

\* A page after the first that took no image: the next boot reads what it would
\* have read before.
LEMMA Wasted ==
  ASSUME IInv, pc = "program", TypeOK', acked' = acked,
         NEW k \in BlockNos, NEW p \in PageNos,
         k = blk_offset, p = page_offset, p > 0,
         flash' = [flash EXCEPT ![k][p] = Junk]
  PROVE  /\ FlashInv' /\ AckedIsDurable'
         /\ IsNewestBlock(k)'
         /\ \A b \in BlockNos : HeadVersion(b)' = HeadVersion(b)
         /\ \A q \in PageNos : flash'[k][q] = Blank <=> q >= p + 1
         /\ \A q \in PageNos : IsLastImage(k, q) =>
               IsLastImage(k, q)' /\ flash'[k][q] = flash[k][q]
<1>1. TypeOK /\ FlashInv /\ acked.version >= 1 /\ AckedIsDurable /\ LogInv
  BY DEF IInv
<1>3. IsNewestBlock(k) /\ \A q \in PageNos : flash[k][q] = Blank <=> q >= p
  BY <1>1 DEF LogInv
<1>4. /\ \A b \in BlockNos \ {k} : flash'[b] = flash[b]
      /\ \A q \in PageNos \ {p} : flash'[k][q] = flash[k][q]
      /\ flash'[k][p] # Blank /\ ~IsImage(flash'[k][p])
  BY <1>1, PageAssumption DEF TypeOK, IsImage
<1>5. /\ FlashInv'
      /\ IsNewestBlock(k)'
      /\ \A b \in BlockNos : HeadVersion(b)' = HeadVersion(b)
      /\ \A q \in PageNos : flash'[k][q] = Blank <=> q >= p + 1
      /\ \A q \in PageNos : IsLastImage(k, q) =>
                             IsLastImage(k, q)' /\ flash'[k][q] = flash[k][q]
  BY <1>1, <1>3, <1>4, Append
<1>6. Safe'
  <2>1. Safe
    BY <1>1, SafeForm
  <2>2. PICK d \in BlockNos, q \in PageNos :
          IsNewestBlock(d) /\ IsLastImage(d, q) /\ UpToDate(d, q)
    BY <1>3, <2>1 DEF Safe, NothingFound, IsNewestBlock
  <2>3. d = k
    BY <1>1, <1>3, <2>2, OneNewest
  <2>4. IsLastImage(k, q)' /\ UpToDate(k, q)'
    BY <1>5, <2>2, <2>3 DEF UpToDate
  <2> QED BY <1>5, <2>4 DEF Safe
<1>7. AckedIsDurable'
  <2>1. (acked.version >= 1)'
    BY <1>1
  <2> QED BY <1>6, <2>1, SafeForm, PTL
<1> QED BY <1>5, <1>7

LEMMA FailedIInv ==
  ASSUME Tolerable, IInv, program_failed
  PROVE  IInv'
<1> USE DEF program_failed
<1>1. TypeOK /\ acked.version >= 1 /\ up /\ LogInv /\ WriteInv
  BY DEF IInv
<1>2. PICK k \in BlockNos, p \in PageNos : k = blk_offset /\ p = page_offset /\ p > 0
  BY <1>1, SizeAssumption DEF TypeOK, WriteInv, PageNos, Tolerable
<1>3. TypeOK'
  BY <1>1, <1>2, SizeAssumption DEF TypeOK, PageNos
<1>4. /\ FlashInv' /\ AckedIsDurable'
      /\ IsNewestBlock(k)'
      /\ \A b \in BlockNos : HeadVersion(b)' = HeadVersion(b)
      /\ \A q \in PageNos : flash'[k][q] = Blank <=> q >= p + 1
      /\ \A q \in PageNos : IsLastImage(k, q) =>
            IsLastImage(k, q)' /\ flash'[k][q] = flash[k][q]
  BY <1>2, <1>3, Wasted
<1>5. LogInv'
  BY <1>1, <1>2, <1>4, Numbers DEF LogInv
<1>6. ASSUME pc' # "idle" PROVE WriteInv'
  <2>1. err \in Nat /\ err + 1 <= MaxErr /\ pc' = "re_write"
    BY <1>1, <1>6, SizeAssumption DEF TypeOK
  <2>2. ASSUME count = 1 PROVE FirstCopy'
    <3>1. PICK q \in PageNos :
            /\ IsLastImage(k, q) /\ flash[k][q] = info
            /\ p - 1 - q <= err
            /\ q = 0 \/ HeadVersion(k) < info.version
      BY <1>1, <1>2, <2>2 DEF WriteInv, FirstCopy
    <3>2. page_offset' - 1 - q <= err' /\ page_offset' # 0
      BY <1>2, <2>1, <3>1, Numbers
    <3>3. IsLastImage(k, q)' /\ flash'[k][q] = info'
      BY <1>4, <3>1
    <3>4. q = 0 \/ HeadVersion(k)' < info'.version
      BY <1>4, <3>1
    <3> QED BY <1>2, <3>2, <3>3, <3>4 DEF FirstCopy
  <2> QED BY <1>1, <1>4, <2>1, <2>2 DEF WriteInv
<1> QED BY <1>1, <1>3, <1>4, <1>5, <1>6 DEF IInv

LEMMA CrashIInv ==
  ASSUME Tolerable, IInv, crash
  PROVE  IInv'
<1> USE DEF crash
<1>1. TypeOK /\ FlashInv /\ acked.version >= 1 /\ AckedIsDurable /\ LogInv
  BY DEF IInv
<1>2. TypeOK'
  <2>1. ResetImage \in Image
    BY DEF ResetImage, Image
  <2>2. flash' \in [BlockNos -> [PageNos -> Image \cup {Blank, Junk}]]
    BY <1>1 DEF TypeOK, Interrupted
  <2>3. 0 \in 0 .. Pages /\ 0 \in 0 .. 2 /\ 0 \in Nat
    BY SizeAssumption
  <2>4. acked' \in Image
    BY <1>1 DEF TypeOK
  <2> QED BY <2>1, <2>2, <2>3, <2>4, Numbers DEF TypeOK
<1>3. SUFFICES FlashInv' /\ AckedIsDurable'
  BY <1>1, <1>2 DEF IInv
<1>4. CASE flash' = flash
  BY <1>1, <1>4, StillFlash
<1>5. CASE pc = "erase" /\ flash' = [flash EXCEPT ![blk_offset] = [p \in PageNos |-> Junk]]
  <2>1. PICK k \in BlockNos : k = blk_offset
    BY <1>1 DEF TypeOK
  <2>2. /\ \A b \in BlockNos \ {k} : flash'[b] = flash[b]
        /\ \A p \in PageNos : flash'[k][p] = Junk
    BY <1>1, <1>5, <2>1 DEF TypeOK
  <2>3. Backed(BlockNos \ {k})
    BY <1>5, <2>1 DEF IInv, LogInv, WriteInv
  <2>4. \A p \in PageNos : ~IsImage(flash'[k][p])
    BY <2>2 DEF IsImage
  <2>5. \E n \in 0 .. Pages : \A p \in PageNos : flash'[k][p] = Blank <=> p >= n
    <3>1. Pages \in 0 .. Pages /\ \A p \in PageNos : ~(p >= Pages)
      BY SizeAssumption DEF PageNos
    <3> QED BY <2>2, <3>1, PageAssumption
  <2> QED BY <1>1, <1>2, <2>2, <2>3, <2>4, <2>5, DropBlock
<1>6. CASE pc = "program" /\ flash' = [flash EXCEPT ![blk_offset][page_offset] = Junk]
  <2>1. WriteInv
    BY <1>6 DEF IInv
  <2>2. PICK k \in BlockNos, p \in PageNos : k = blk_offset /\ p = page_offset
    BY <1>1, <1>6, <2>1, SizeAssumption DEF TypeOK, WriteInv, PageNos
  <2>3. CASE p > 0
    BY <1>2, <1>6, <2>2, <2>3, Wasted
  <2>4. CASE p = 0
    <3>1. /\ \A b \in BlockNos \ {k} : flash'[b] = flash[b]
          /\ flash'[k][0] = Junk
          /\ \A q \in PageNos \ {0} : flash'[k][q] = Blank
      BY <1>1, <1>6, <2>1, <2>2, <2>4, Numbers DEF TypeOK, WriteInv
    <3>2. Backed(BlockNos \ {k})
      BY <1>1, <2>2, <2>4 DEF LogInv
    <3>3. \A q \in PageNos : ~IsImage(flash'[k][q])
      BY <3>1 DEF IsImage
    <3>4. \E n \in 0 .. Pages : \A q \in PageNos : flash'[k][q] = Blank <=> q >= n
      <4>1. 1 \in 0 .. Pages
        BY SizeAssumption
      <4> QED BY <3>1, <4>1, PageAssumption, Numbers
    <3> QED BY <1>1, <1>2, <3>1, <3>2, <3>3, <3>4, DropBlock
  <2> QED BY <2>3, <2>4, Numbers
<1> QED BY <1>4, <1>5, <1>6 DEF Interrupted

\* The image in RAM becomes the last one of the newest block.
LEMMA ProgrammedFlash ==
  ASSUME IInv, TypeOK', programmed,
         NEW k \in BlockNos, NEW p \in PageNos, k = blk_offset, p = page_offset
  PROVE  /\ FlashInv' /\ IsNewestBlock(k)' /\ IsLastImage(k, p)'
         /\ flash'[k][p] = info
         /\ \A q \in PageNos : flash'[k][q] = Blank <=> q >= p + 1
         /\ \A b \in BlockNos : HeadVersion(b)' <= info.version
         /\ count = 0 /\ p > 0 => HeadVersion(k)' < info.version
<1> USE DEF programmed
<1>1. TypeOK /\ FlashInv /\ LogInv /\ WriteInv
  BY DEF IInv
<1>2. info \in Image /\ info.version \in Nat /\ IsImage(info)
  BY <1>1, PageAssumption DEF TypeOK, Image, IsImage
<1>3. flash' = [flash EXCEPT ![k][p] = info]
  BY BlankAhead DEF ProgramsBlankPages, Program
<1>4. CASE p > 0
  <2>1. IsNewestBlock(k) /\ \A q \in PageNos : flash[k][q] = Blank <=> q >= p
    BY <1>1, <1>4 DEF LogInv
  <2>2. HeadVersion(k) <= info.version
    BY <1>1 DEF LogInv
  <2>3. /\ FlashInv' /\ IsNewestBlock(k)' /\ IsLastImage(k, p)'
        /\ flash'[k][p] = info
        /\ \A q \in PageNos : flash'[k][q] = Blank <=> q >= p + 1
        /\ \A b \in BlockNos : HeadVersion(b)' = HeadVersion(b)
    <3>1. /\ \A b \in BlockNos \ {k} : flash'[b] = flash[b]
          /\ \A q \in PageNos \ {p} : flash'[k][q] = flash[k][q]
          /\ flash'[k][p] = info
      BY <1>1, <1>3 DEF TypeOK
    <3>2. flash'[k][p] # Blank
      BY <1>2, <3>1 DEF IsImage
    <3> HIDE DEF programmed
    <3> QED BY <1>1, <1>2, <1>4, <2>1, <2>2, <3>1, <3>2, Append
  <2> QED BY <1>1, <2>3 DEF LogInv, WriteInv
<1>5. CASE p = 0
  <2>1. \A c \in BlockNos \ {k} : HeadVersion(c) < info.version
    BY <1>1, <1>5 DEF WriteInv, FirstCopy
  <2>2. info.version > 0
    BY <1>1, <1>2 DEF WriteInv, TypeOK, Image
  <2>3. \A q \in PageNos : flash[k][q] = Blank
    BY <1>1, <1>5 DEF WriteInv
  <2>4. \A b \in BlockNos \ {k} : flash'[b] = flash[b]
    BY <1>1, <1>3 DEF TypeOK
  <2>5. Backed(BlockNos \ {k})'
    <3>1. CASE count = 0
      <4>1. Backed(BlockNos \ {k}) /\ acked' = acked
        BY <1>1, <1>5, <3>1 DEF LogInv
      <4> QED BY <2>4, <4>1, FrameBacked
    <3>2. CASE count = 1
      <4>1. PICK b \in BlockNos \ {k}, q \in PageNos :
              /\ IsNewestIn(BlockNos \ {k}, b) /\ IsLastImage(b, q)
              /\ flash[b][q] = info /\ flash[b][1] # Blank
        BY <1>1, <1>5, <3>2 DEF WriteInv, FirstCopy
      <4>2. IsNewestIn(BlockNos \ {k}, b)' /\ IsLastImage(b, q)'
        BY <2>4, <4>1, FrameNewest, Frame
      <4>3. UpToDate(b, q)' /\ flash'[b][1] # Blank
        BY <2>4, <3>2, <4>1 DEF UpToDate
      <4> QED BY <4>2, <4>3 DEF Backed
    <3> QED BY <1>1, <3>1, <3>2 DEF WriteInv
  <2>6. /\ FlashInv' /\ IsNewestBlock(k)' /\ IsLastImage(k, 0)'
        /\ flash'[k][0] = info
        /\ HeadVersion(k)' = info.version
        /\ \A b \in BlockNos \ {k} : HeadVersion(b)' = HeadVersion(b)
        /\ \A q \in PageNos : flash'[k][q] = Blank <=> q >= 1
    BY <1>1, <1>2, <1>3, <1>5, <2>1, <2>2, <2>3, <2>5, OpenBlock
  <2>7. \A b \in BlockNos : HeadVersion(b)' <= info.version
    <3>1. \A b \in BlockNos : HeadVersion(b) <= info.version
      BY <1>1 DEF LogInv
    <3> HIDE DEF programmed
    <3> QED BY <1>2, <2>6, <3>1
  <2>8. \A q \in PageNos : q >= 1 <=> q >= p + 1
    BY <1>5
  <2>9. \A q \in PageNos : flash'[k][q] = Blank <=> q >= p + 1
    BY <2>6, <2>8
  <2> HIDE DEF programmed
  <2> QED BY <1>5, <2>6, <2>7, <2>9
<1> QED BY <1>4, <1>5, Numbers

LEMMA ProgrammedIInv ==
  ASSUME IInv, programmed
  PROVE  IInv'
<1> USE DEF programmed
<1>1. TypeOK /\ acked.version >= 1 /\ up /\ LogInv /\ WriteInv
  BY DEF IInv
<1>2. PICK k \in BlockNos, p \in PageNos : k = blk_offset /\ p = page_offset
  BY <1>1, SizeAssumption DEF TypeOK, WriteInv, PageNos
<1>3. info.version \in Nat /\ acked.version \in Nat
  BY <1>1 DEF TypeOK, Image
<1>4. TypeOK'
  <2>1. page_offset' \in 0 .. Pages /\ count' \in 0 .. 2
    BY <1>1, <1>2, SizeAssumption DEF PageNos, WriteInv
  <2>2. flash' \in [BlockNos -> [PageNos -> Image \cup {Blank, Junk}]]
    BY <1>1 DEF TypeOK, Program
  <2> QED BY <1>1, <2>1, <2>2 DEF TypeOK
<1>5. /\ FlashInv' /\ IsNewestBlock(k)' /\ IsLastImage(k, p)'
      /\ flash'[k][p] = info
      /\ \A q \in PageNos : flash'[k][q] = Blank <=> q >= p + 1
      /\ \A b \in BlockNos : HeadVersion(b)' <= info.version
      /\ count = 0 /\ p > 0 => HeadVersion(k)' < info.version
  BY <1>2, <1>4, ProgrammedFlash
<1>6. acked' = acked \/ acked' = info
  OBVIOUS
<1>7. (acked.version >= 1)' /\ acked'.version <= info.version
  BY <1>1, <1>3, <1>6 DEF WriteInv
<1>8. AckedIsDurable'
  <2>1. UpToDate(k, p)'
    BY <1>1, <1>3, <1>5, <1>6 DEF UpToDate, WriteInv
  <2>2. Safe'
    BY <1>5, <2>1 DEF Safe
  <2> QED BY <1>4, <1>7, <2>2, SafeForm, PTL
<1>9. page_offset' = p + 1 /\ page_offset' > 0 /\ blk_offset' = k /\ info' = info
  BY <1>2, Numbers
<1>10. LogInv'
  BY <1>5, <1>7, <1>9 DEF LogInv
<1>11. ASSUME pc' # "idle" PROVE WriteInv'
  <2>1. count = 0 /\ count' = 1 /\ pc' = "re_write" /\ acked' = acked
    BY <1>1, <1>11 DEF WriteInv
  <2>2. FirstCopy'
    <3>1. page_offset' - 1 - p <= err' /\ page_offset' # 0
      BY <1>1, <1>9, Numbers DEF TypeOK
    <3>2. p = 0 \/ HeadVersion(k)' < info'.version
      BY <1>5, <2>1, Numbers
    <3> QED BY <1>5, <1>9, <3>1, <3>2 DEF FirstCopy
  <2> QED BY <1>1, <2>1, <2>2 DEF WriteInv
<1> QED BY <1>1, <1>4, <1>5, <1>7, <1>8, <1>10, <1>11 DEF IInv

-----------------------------------------------------------------------------
LEMMA InitIInv ==
  ASSUME Init
  PROVE  IInv
<1> USE DEF Init
<1>1. ResetImage \in Image /\ ResetImage.version = 1
  BY DEF ResetImage, Image
<1>2. TypeOK
  <2>1. 0 \in 0 .. Pages /\ 0 \in 0 .. 2 /\ 0 \in Nat
    BY SizeAssumption
  <2>2. flash \in [BlockNos -> [PageNos -> Image \cup {Blank, Junk}]]
    OBVIOUS
  <2> QED BY <1>1, <2>1, <2>2, Numbers DEF TypeOK
<1>3. \A b \in BlockNos, p \in PageNos : flash[b][p] = Blank
  OBVIOUS
<1>4. \A b \in BlockNos : HeadVersion(b) = 0
  BY <1>3, Numbers DEF HeadVersion, IsImage
<1>5. AckedIsDurable
  <2>1. Safe
    BY <1>4 DEF Safe, NothingFound
  <2> QED BY <1>1, <1>2, <2>1, SafeForm
<1>6. FlashInv
  <2>1. 0 \in 0 .. Pages
    BY SizeAssumption
  <2>2. \A b \in BlockNos : \E k \in 0 .. Pages :
          \A p \in PageNos : flash[b][p] = Blank <=> p >= k
    BY <1>3, <2>1, Numbers
  <2> QED BY <1>3, <1>4, <2>2 DEF FlashInv, IsImage, IsNewestBlock
<1> QED BY <1>1, <1>2, <1>5, <1>6 DEF IInv

LEMMA NextIInv ==
  ASSUME Tolerable, IInv, [Next]_vars
  PROVE  IInv'
<1>1. CASE UNCHANGED vars
  <2>1. UNCHANGED <<flash, acked>>
    BY <1>1 DEF vars
  <2>2. TypeOK => TypeOK'
    BY <1>1 DEF TypeOK, vars
  <2>3. ASSUME LogInv PROVE LogInv'
    <3>1. page_offset = 0 => Backed(BlockNos \ {blk_offset})'
      BY <1>1, <2>1, <2>3, FrameBacked DEF LogInv, vars
    <3>2. blk_offset' = blk_offset /\ page_offset' = page_offset /\ info' = info
      BY <1>1 DEF vars
    <3> QED BY <2>1, <2>3, <3>1, <3>2, StillFlash DEF LogInv
  <2>4. FirstCopy => FirstCopy'
    BY <1>1, <2>1, StillFlash DEF FirstCopy, IsNewestIn, vars
  <2>5. WriteInv => WriteInv'
    BY <1>1, <2>1, <2>4, StillFlash DEF WriteInv, vars
  <2> QED BY <1>1, <2>1, <2>2, <2>3, <2>5, StillFlash DEF IInv, vars
<1>2. CASE Next
  BY <1>2, BootIInv, ResetIInv, WriteIInv, NextBlockIInv, StartIInv, EraseIInv,
     ProgrammedIInv, FailedIInv, CrashIInv DEF Next
<1> QED BY <1>1, <1>2

\* mtd_vendor_storage_init, mtd_vendor_write and power loss at any point of them
\* keep the inductive invariant.
THEOREM Inductive ==
  ASSUME Tolerable
  PROVE  Spec => []IInv
BY InitIInv, NextIInv, PTL DEF Spec

\* Block and page offsets stay inside the partition.
THEOREM Typing ==
  ASSUME Tolerable
  PROVE  Spec => []TypeOK
<1>1. IInv => TypeOK
  BY DEF IInv
<1> QED BY <1>1, Inductive, PTL

\* The next mtd_vendor_storage_init finds the last acknowledged image or a newer
\* one, whatever erase or program the power loss cut off.
THEOREM Durability ==
  ASSUME Tolerable
  PROVE  Spec => []AckedIsDurable
<1>1. IInv => AckedIsDurable
  BY DEF IInv
<1> QED BY <1>1, Inductive, PTL

\* mtd_vendor_write never programs a page twice between two erases.
THEOREM BlankPages ==
  ASSUME Tolerable
  PROVE  Spec => []ProgramsBlankPages
<1>1. IInv => ProgramsBlankPages
  BY BlankAhead
<1> QED BY <1>1, Inductive, PTL

-----------------------------------------------------------------------------
(* The order of the log.                                                   *)

\* Steps that leave fewer images: an image that is there was there before, in a block
\* with the same head.
LEMMA FewerImages ==
  ASSUME TypeOK, Sorted, VersionsNameImages,
         \A b \in BlockNos, p \in PageNos : IsImage(flash'[b][p]) =>
           flash'[b][p] = flash[b][p] /\ HeadVersion(b)' = HeadVersion(b),
         \A b \in BlockNos : HeadVersion(b)' \in {0, HeadVersion(b)}
  PROVE  Sorted' /\ VersionsNameImages'
<1>1. \A b \in BlockNos : HeadVersion(b) \in Nat
  BY Pagewise
<1>2. \A b \in BlockNos, p \in PageNos : IsImage(flash'[b][p]) => HeadVersion(b)' > 0
  BY DEF Sorted
<1>3. \A b \in BlockNos, p, q \in PageNos :
        IsImage(flash'[b][p]) /\ IsImage(flash'[b][q]) /\ p < q =>
          flash'[b][p].version <= flash'[b][q].version
  BY DEF Sorted
<1>4. ASSUME NEW b \in BlockNos, NEW c \in BlockNos, NEW p \in PageNos,
             HeadVersion(c)' < HeadVersion(b)', IsImage(flash'[c][p])
      PROVE  flash'[c][p].version <= HeadVersion(b)'
  <2>1. HeadVersion(c)' = HeadVersion(c) /\ flash'[c][p] = flash[c][p]
    BY <1>4
  <2>2. HeadVersion(b)' = HeadVersion(b)
    BY <1>1, <1>4, <2>1
  <2> QED BY <1>4, <2>1, <2>2 DEF Sorted
<1>5. \A b, c \in BlockNos :
        HeadVersion(b)' = HeadVersion(c)' /\ HeadVersion(b)' > 0 => b = c
  BY <1>1 DEF Sorted
<1>6. Sorted'
  BY <1>2, <1>3, <1>4, <1>5 DEF Sorted
<1>7. VersionsNameImages'
  BY DEF VersionsNameImages
<1> QED BY <1>6, <1>7

\* What mtd_vendor_storage_init loads is the newest image of all.
LEMMA LoadsNewest ==
  ASSUME VersionInv, NEW b \in BlockNos, NEW p \in PageNos,
         IsNewestBlock(b), IsLastImage(b, p),
         NEW c \in BlockNos, NEW q \in PageNos, IsImage(flash[c][q])
  PROVE  flash[c][q].version < flash[b][p].version \/ flash[c][q] = flash[b][p]
<1>1. TypeOK /\ FlashInv /\ Sorted /\ VersionsNameImages /\ IsImage(flash[b][p])
  BY DEF VersionInv, IInv, IsLastImage
<1>2. /\ flash[c][q].version \in Nat /\ flash[b][p].version \in Nat
      /\ HeadVersion(b) \in Nat /\ HeadVersion(c) \in Nat
  BY <1>1, Pagewise
<1>3. flash[c][q].version <= flash[b][p].version
  <2>1. CASE c = b
    <3>1. q <= p
      BY <2>1, Numbers DEF IsLastImage
    <3> QED BY <1>1, <1>2, <2>1, <3>1, Numbers DEF Sorted
  <2>2. CASE c # b
    <3>1. HeadVersion(c) > 0 /\ HeadVersion(c) <= HeadVersion(b) /\ HeadVersion(c) # HeadVersion(b)
      BY <1>1, <2>2 DEF Sorted, IsNewestBlock
    <3>2. flash[c][q].version <= HeadVersion(b)
      BY <1>1, <1>2, <3>1 DEF Sorted
    <3>3. HeadVersion(b) <= flash[b][p].version
      BY <1>1 DEF FlashInv
    <3> QED BY <1>2, <3>2, <3>3
  <2> QED BY <2>1, <2>2
<1> QED BY <1>1, <1>2, <1>3 DEF VersionsNameImages

\* A copy goes behind all other images, or becomes a head that no block has yet.
LEMMA ProgrammedVersions ==
  ASSUME VersionInv, programmed
  PROVE  Sorted' /\ VersionsNameImages' /\ RamNewest'
<1>1. /\ TypeOK /\ LogInv /\ WriteInv /\ ProgramsBlankPages
      /\ Sorted /\ VersionsNameImages /\ RamNewest
  BY BlankAhead DEF VersionInv, IInv, programmed
<1>2. PICK k \in BlockNos, n \in PageNos : k = blk_offset /\ n = page_offset
  BY <1>1, SizeAssumption DEF TypeOK, WriteInv, PageNos, programmed
<1>3. flash' = [flash EXCEPT ![k][n] = info] /\ info' = info
  BY <1>1, <1>2 DEF programmed, Program, ProgramsBlankPages
<1>4. /\ \A b \in BlockNos \ {k} : flash'[b] = flash[b]
      /\ \A q \in PageNos \ {n} : flash'[k][q] = flash[k][q]
      /\ flash'[k][n] = info
  BY <1>1, <1>3 DEF TypeOK
<1>5. info \in Image /\ info.version \in Nat /\ info.version > 0 /\ IsImage(info)
  <2>1. info \in Image /\ info.version \in Nat /\ acked.version \in Nat
    BY <1>1 DEF TypeOK, Image
  <2> QED BY <1>1, <2>1, PageAssumption DEF WriteInv, IsImage
<1>6. \A b \in BlockNos, p \in PageNos : IsImage(flash[b][p]) =>
        flash[b][p].version \in Nat /\ flash[b][p].version <= info.version
  BY <1>1, <1>5, Pagewise DEF RamNewest
<1>7. RamNewest'
  BY <1>1, <1>3, <1>4 DEF RamNewest
<1>8. VersionsNameImages'
  <2>1. \A b \in BlockNos, p \in PageNos : IsImage(flash'[b][p]) =>
          flash'[b][p] = info \/ (flash'[b][p] = flash[b][p] /\ IsImage(flash[b][p]))
    BY <1>4
  <2>2. \A b \in BlockNos, p \in PageNos :
          IsImage(flash[b][p]) /\ flash[b][p].version = info.version => flash[b][p] = info
    BY <1>1, <1>5, <1>6 DEF RamNewest
  <2> QED BY <1>1, <2>1, <2>2 DEF VersionsNameImages
<1>9. \A b \in BlockNos \ {k} : HeadVersion(b)' = HeadVersion(b) /\ HeadVersion(b) \in Nat
  BY <1>1, <1>4, Frame, Pagewise
<1>10. CASE n > 0
  <2>1. IsNewestBlock(k)
    BY <1>1, <1>2, <1>10 DEF LogInv
  <2>2. /\ \A b \in BlockNos : HeadVersion(b)' = HeadVersion(b) /\ HeadVersion(b) \in Nat
        /\ \A b \in BlockNos : HeadVersion(b) <= HeadVersion(k)
        /\ HeadVersion(k) > 0
    <3>1. flash'[k][0] = flash[k][0]
      BY <1>4, <1>10, Numbers
    <3> QED BY <1>1, <1>9, <2>1, <3>1, Pagewise DEF HeadVersion, IsNewestBlock
  <2>3. \A b \in BlockNos, p \in PageNos : IsImage(flash'[b][p]) => HeadVersion(b)' > 0
    BY <1>1, <1>4, <2>2 DEF Sorted
  <2>4. ASSUME NEW b \in BlockNos, NEW p \in PageNos, NEW q \in PageNos,
               IsImage(flash'[b][p]), IsImage(flash'[b][q]), p < q
        PROVE  flash'[b][p].version <= flash'[b][q].version
    <3>1. CASE b = k /\ q = n
      BY <1>4, <1>5, <1>6, <2>4, <3>1, Numbers
    <3>2. CASE b = k /\ p = n
      <4>1. flash[k][q] = Blank
        <5>1. \A i \in PageNos : flash[k][i] = Blank <=> i >= n
          BY <1>1, <1>2, <1>10 DEF LogInv
        <5>2. q >= n
          BY <2>4, <3>2, Numbers
        <5> QED BY <5>1, <5>2
      <4> QED BY <1>4, <2>4, <3>2, <4>1, Numbers DEF IsImage
    <3>3. CASE b # k \/ (p # n /\ q # n)
      BY <1>1, <1>4, <2>4, <3>3 DEF Sorted
    <3> QED BY <3>1, <3>2, <3>3
  <2>5. ASSUME NEW b \in BlockNos, NEW c \in BlockNos, NEW p \in PageNos,
               HeadVersion(c)' < HeadVersion(b)', IsImage(flash'[c][p])
        PROVE  flash'[c][p].version <= HeadVersion(b)'
    <3>1. c # k
      BY <2>2, <2>5
    <3> QED BY <1>1, <1>4, <2>2, <2>5, <3>1 DEF Sorted
  <2>6. \A b, c \in BlockNos :
          HeadVersion(b)' = HeadVersion(c)' /\ HeadVersion(b)' > 0 => b = c
    BY <1>1, <2>2 DEF Sorted
  <2>7. Sorted'
    BY <2>3, <2>4, <2>5, <2>6 DEF Sorted
  <2> QED BY <1>7, <1>8, <2>7
<1>11. CASE n = 0
  <2>1. \A p \in PageNos : flash[k][p] = Blank
    BY <1>1, <1>2, <1>11 DEF WriteInv, programmed
  <2>2. \A p \in PageNos : IsImage(flash'[k][p]) => p = 0
    BY <1>4, <1>11, <2>1 DEF IsImage
  <2>3. HeadVersion(k)' = info.version
    BY <1>4, <1>5, <1>11 DEF HeadVersion
  <2>4. \A b \in BlockNos \ {k} : HeadVersion(b) < info.version
    BY <1>1, <1>2, <1>11 DEF WriteInv, FirstCopy
  <2>5. \A b \in BlockNos, p \in PageNos : IsImage(flash'[b][p]) => HeadVersion(b)' > 0
    BY <1>1, <1>4, <1>5, <1>9, <2>3 DEF Sorted
  <2>6. ASSUME NEW b \in BlockNos, NEW p \in PageNos, NEW q \in PageNos,
               IsImage(flash'[b][p]), IsImage(flash'[b][q]), p < q
        PROVE  flash'[b][p].version <= flash'[b][q].version
    <3>1. b # k
      BY <2>2, <2>6
    <3> QED BY <1>1, <1>4, <2>6, <3>1 DEF Sorted
  <2>7. ASSUME NEW b \in BlockNos, NEW c \in BlockNos, NEW p \in PageNos,
               HeadVersion(c)' < HeadVersion(b)', IsImage(flash'[c][p])
        PROVE  flash'[c][p].version <= HeadVersion(b)'
    <3>1. c # k
      BY <1>5, <1>9, <2>3, <2>4, <2>7
    <3>2. CASE b = k
      BY <1>4, <1>6, <2>3, <2>7, <3>1, <3>2
    <3>3. CASE b # k
      BY <1>1, <1>4, <1>9, <2>7, <3>1, <3>3 DEF Sorted
    <3> QED BY <3>2, <3>3
  <2>8. ASSUME NEW b \in BlockNos, NEW c \in BlockNos,
               HeadVersion(b)' = HeadVersion(c)', HeadVersion(b)' > 0
        PROVE  b = c
    BY <1>1, <1>5, <1>9, <2>3, <2>4, <2>8 DEF Sorted
  <2>9. Sorted'
    BY <2>5, <2>6, <2>7, <2>8 DEF Sorted
  <2> QED BY <1>7, <1>8, <2>9
<1> QED BY <1>2, <1>10, <1>11, Numbers

\* Steps that leave the flash alone leave its order alone.
LEMMA StillSorted ==
  ASSUME UNCHANGED flash, Sorted, VersionsNameImages
  PROVE  Sorted' /\ VersionsNameImages'
BY DEF Sorted, VersionsNameImages, HeadVersion

\* The steps that take images away: an erase, a failed program and power loss.
LEMMA LossVersions ==
  ASSUME Tolerable, VersionInv, erase \/ program_failed \/ crash
  PROVE  /\ Sorted' /\ VersionsNameImages'
         /\ UNCHANGED info => (RamNewest => RamNewest')
<1>1. TypeOK /\ Sorted /\ VersionsNameImages /\ ProgramsBlankPages
  BY BlankAhead DEF VersionInv, IInv
<1>2. PICK k \in BlockNos, n \in 0 .. Pages : k = blk_offset /\ n = page_offset
  BY <1>1 DEF TypeOK
<1>3. pc = "program" => n \in PageNos /\ flash[k][n] = Blank
  BY <1>1, <1>2, SizeAssumption
     DEF VersionInv, IInv, WriteInv, PageNos, ProgramsBlankPages
<1>4. \/ flash' = flash
      \/ pc = "program" /\ flash' = [flash EXCEPT ![k][n] = Junk]
      \/ flash' = [flash EXCEPT ![k] = [p \in PageNos |-> Junk]]
      \/ flash' = [flash EXCEPT ![k] = [p \in PageNos |-> Blank]]
  <2>1. CASE erase
    BY <1>2, <2>1 DEF erase
  <2>2. CASE program_failed
    BY <1>2, <2>2 DEF program_failed
  <2>3. CASE crash
    BY <1>2, <2>3 DEF crash, Interrupted
  <2> QED BY <2>1, <2>2, <2>3
<1>5. /\ \A b \in BlockNos, p \in PageNos : IsImage(flash'[b][p]) =>
           flash'[b][p] = flash[b][p] /\ HeadVersion(b)' = HeadVersion(b)
      /\ \A b \in BlockNos : HeadVersion(b)' \in {0, HeadVersion(b)}
  <2>1. CASE flash' = flash
    BY <2>1 DEF HeadVersion
  <2>2. CASE pc = "program" /\ flash' = [flash EXCEPT ![k][n] = Junk]
    <3>1. /\ \A b \in BlockNos, p \in PageNos : <<b, p>> # <<k, n>> => flash'[b][p] = flash[b][p]
          /\ ~IsImage(flash'[k][n]) /\ ~IsImage(flash[k][n])
      BY <1>1, <1>3, <2>2 DEF TypeOK, IsImage
    <3>2. \A b \in BlockNos : HeadVersion(b)' = HeadVersion(b)
      BY <3>1, Numbers DEF HeadVersion
    <3> QED BY <3>1, <3>2
  <2>3. CASE \/ flash' = [flash EXCEPT ![k] = [p \in PageNos |-> Junk]]
             \/ flash' = [flash EXCEPT ![k] = [p \in PageNos |-> Blank]]
    <3>1. /\ \A b \in BlockNos \ {k} : flash'[b] = flash[b]
          /\ \A p \in PageNos : ~IsImage(flash'[k][p])
      BY <1>1, <2>3 DEF TypeOK, IsImage
    <3>2. HeadVersion(k)' = 0 /\ \A b \in BlockNos \ {k} : HeadVersion(b)' = HeadVersion(b)
      BY <3>1, Numbers DEF HeadVersion
    <3> QED BY <3>1, <3>2
  <2> QED BY <1>4, <2>1, <2>2, <2>3
<1>6. Sorted' /\ VersionsNameImages'
  BY <1>1, <1>5, FewerImages
<1>7. ASSUME UNCHANGED info, RamNewest PROVE RamNewest'
  BY <1>5, <1>7 DEF RamNewest
<1> QED BY <1>6, <1>7

LEMMA NextVersionInv ==
  ASSUME Tolerable, VersionInv, [Next]_vars
  PROVE  VersionInv'
<1>1. TypeOK /\ Sorted /\ VersionsNameImages /\ IInv'
  BY NextIInv DEF VersionInv, IInv
<1>2. CASE mtd_vendor_storage_init
  <2>1. PICK b \in BlockNos, p \in PageNos :
          IsNewestBlock(b) /\ IsLastImage(b, p) /\ info' = flash[b][p]
    BY <1>2 DEF mtd_vendor_storage_init
  <2>2. RamNewest'
    BY <1>2, <2>1, LoadsNewest DEF RamNewest, mtd_vendor_storage_init
  <2> QED BY <1>1, <1>2, <2>2, StillSorted DEF VersionInv, mtd_vendor_storage_init
<1>3. CASE mtd_vendor_storage_reset
  <2>1. \A b \in BlockNos, p \in PageNos : ~IsImage(flash[b][p])
    BY <1>1, <1>3 DEF Sorted, NothingFound, mtd_vendor_storage_reset
  <2>2. RamNewest'
    BY <1>3, <2>1 DEF RamNewest, mtd_vendor_storage_reset
  <2> QED BY <1>1, <1>3, <2>2, StillSorted DEF VersionInv, mtd_vendor_storage_reset
<1>4. ASSUME NEW v \in Vals, mtd_vendor_write(v) PROVE VersionInv'
  <2>1. info'.version = info.version + 1 /\ info.version \in Nat
    BY <1>1, <1>4 DEF mtd_vendor_write, TypeOK, Image
  <2>2. \A b \in BlockNos, p \in PageNos : IsImage(flash[b][p]) =>
          flash[b][p].version \in Nat /\ flash[b][p].version <= info.version
    BY <1>1, <1>4, <2>1, Pagewise DEF mtd_vendor_write, VersionInv, RamNewest
  <2>3. RamNewest'
    BY <1>4, <2>1, <2>2 DEF RamNewest, mtd_vendor_write
  <2> QED BY <1>1, <1>4, <2>3, StillSorted DEF VersionInv, mtd_vendor_write
<1>5. CASE next_block \/ start_page \/ UNCHANGED vars
  <2>1. UNCHANGED <<flash, info, up>>
    BY <1>5 DEF next_block, start_page, vars
  <2>2. RamNewest => RamNewest'
    BY <2>1 DEF RamNewest
  <2> QED BY <1>1, <2>1, <2>2, StillSorted DEF VersionInv
<1>6. CASE erase \/ program_failed
  <2>1. UNCHANGED <<info, up>>
    BY <1>6 DEF erase, program_failed
  <2> QED BY <1>1, <1>6, <2>1, LossVersions DEF VersionInv
<1>7. CASE crash
  BY <1>1, <1>7, LossVersions DEF VersionInv, crash
<1>8. CASE programmed
  BY <1>1, <1>8, ProgrammedVersions DEF VersionInv
<1> QED BY <1>2, <1>3, <1>4, <1>5, <1>6, <1>7, <1>8 DEF Next

\* The order of the log, on top of the invariant behind Durability.
THEOREM Ordered ==
  ASSUME Tolerable
  PROVE  Spec => []VersionInv
<1>1. Init => VersionInv
  <2> SUFFICES ASSUME Init PROVE VersionInv
    OBVIOUS
  <2>1. \A b \in BlockNos, p \in PageNos : ~IsImage(flash[b][p])
    BY DEF Init, IsImage
  <2>2. \A b \in BlockNos : HeadVersion(b) = 0
    BY <2>1, Numbers DEF HeadVersion
  <2> QED BY <2>1, <2>2, InitIInv DEF VersionInv, Sorted, RamNewest, VersionsNameImages
<1>2. VersionInv /\ [Next]_vars => VersionInv'
  BY NextVersionInv
<1> QED BY <1>1, <1>2, PTL DEF Spec

\* A version names one image: mtd_vendor_write never gives a version out again while
\* another image with it is on the flash (vendor.c 169-308).
THEOREM Naming ==
  ASSUME Tolerable
  PROVE  Spec => []VersionsNameImages
<1>1. VersionInv => VersionsNameImages
  BY DEF VersionInv
<1> QED BY <1>1, Ordered, PTL
=============================================================================
