----------------------------- MODULE MtdVendor -----------------------------
(***************************************************************************)
(* The vendor storage of u-boot on raw flash (arch/arm/mach-rockchip/      *)
(* vendor.c, the CONFIG_MTD_BLK part): a log of images over a ring of      *)
(* erase blocks.  Every write appends two copies; a block is erased when   *)
(* the log enters it.  mtd_vendor_storage_init looks at the first page of  *)
(* each block, takes the block with the largest version there and then the *)
(* last valid page of that block.                                          *)
(*                                                                         *)
(* A page is ops_size sectors, the room of one image.  Blocks are counted  *)
(* after bad-block mapping.  The block layer below (drivers/mtd/mtd_blk.c) *)
(* erases a block by itself before it programs its first page.             *)
(***************************************************************************)
EXTENDS Integers

CONSTANTS
  Blocks,      \* part_size / blk_size, after bad blocks
  Pages,       \* blk_size / ops_size
  MaxErr,      \* failed programs a write puts up with (3 in the code)
  Vals,        \* contents of the item store
  Blank,       \* an erased page
  Junk,        \* a page that is programmed and not valid
  FailPages,   \* bound: the pages of a block whose programming may fail
  MaxVersion   \* bound: no write is started beyond this version

ASSUME SizeAssumption ==
  /\ Blocks \in Nat /\ Blocks >= 2
  /\ Pages \in Nat /\ Pages >= 2
  /\ MaxErr \in Nat /\ MaxVersion \in Nat
  /\ FailPages \subseteq Nat

VARIABLES
  flash,        \* the blocks and their pages
  info,         \* vendor_info, the image in RAM
  up,           \* bootdev_type is set
  blk_offset,   \* of s_flash_info, in blocks
  page_offset,  \* of s_flash_info, in pages
  pc, count, err,  \* mtd_vendor_write
  acked         \* auxiliary: the last image whose write returned success

vars == <<flash, info, up, blk_offset, page_offset, pc, count, err, acked>>

BlockNos == 0 .. Blocks - 1
PageNos == 0 .. Pages - 1
Image == [version : Nat, data : Vals \cup {Blank}]

ASSUME PageAssumption == Blank # Junk /\ Blank \notin Image /\ Junk \notin Image

\* The image that a store without a valid page starts with.
ResetImage == [version |-> 1, data |-> Blank]

IsImage(page) == page \notin {Blank, Junk}

-----------------------------------------------------------------------------
\* mtd_vendor_storage_init: the version the first page of a block counts with.
HeadVersion(b) == IF IsImage(flash[b][0]) THEN flash[b][0].version ELSE 0

\* Mutant of IsNewestBlock: the scan stops at the first valid block.
IsFirstBlock(b) ==
  /\ HeadVersion(b) > 0
  /\ \A c \in BlockNos : HeadVersion(c) > 0 => b <= c

\* The block the scan keeps, if there is a valid first page at all.
IsNewestBlock(b) ==
  /\ HeadVersion(b) > 0
  /\ \A c \in BlockNos : /\ HeadVersion(c) <= HeadVersion(b)
                         /\ HeadVersion(c) = HeadVersion(b) => b <= c

NothingFound == \A b \in BlockNos : HeadVersion(b) = 0

\* The last valid page of block b.
IsLastImage(b, p) ==
  /\ IsImage(flash[b][p])
  /\ \A q \in PageNos : q > p => ~IsImage(flash[b][q])

\* Its last page that is not blank.
IsLastProgrammed(b, p) ==
  /\ flash[b][p] # Blank
  /\ \A q \in PageNos : q > p => flash[b][q] = Blank

\* Mutant of NextPage: pages that are not valid count as free.
NextPageAfterImage(b) ==
  LET p == CHOOSE q \in PageNos : IsLastImage(b, q)
  IN  IF p > 0 THEN p + 1 ELSE 0

\* Walking down from the end of the block, page_offset < offset holds at the
\* first programmed page, unless that is page 0.
NextPage(b) ==
  LET p == CHOOSE q \in PageNos : IsLastProgrammed(b, q)
  IN  IF p > 0 THEN p + 1 ELSE 0

-----------------------------------------------------------------------------
Init ==
  /\ flash = [b \in BlockNos |-> [p \in PageNos |-> Blank]]
  /\ info = ResetImage
  /\ up = FALSE
  /\ blk_offset = 0 /\ page_offset = 0
  /\ pc = "idle" /\ count = 0 /\ err = 0
  /\ acked = ResetImage

mtd_vendor_storage_init ==
  /\ ~up
  /\ up' = TRUE
  /\ \E b \in BlockNos, p \in PageNos :
       /\ IsNewestBlock(b)
       /\ IsLastImage(b, p)
       /\ info' = flash[b][p]
       /\ blk_offset' = b
       /\ page_offset' = NextPage(b)
  /\ UNCHANGED <<flash, pc, count, err, acked>>

\* No valid first page: an empty image, and the log starts at block 0.
mtd_vendor_storage_reset ==
  /\ ~up
  /\ up' = TRUE
  /\ NothingFound
  /\ info' = ResetImage
  /\ blk_offset' = 0 /\ page_offset' = 0
  /\ UNCHANGED <<flash, pc, count, err, acked>>

\* Mutant of mtd_vendor_write: the version stays what it was.
WriteSameVersion(v) ==
  /\ up /\ pc = "idle"
  /\ info.version < MaxVersion
  /\ info' = [info EXCEPT !.data = v]
  /\ count' = 0 /\ err' = 0
  /\ pc' = "re_write"
  /\ UNCHANGED <<flash, up, blk_offset, page_offset, acked>>

\* vendor_storage_write calls mtd_vendor_write with the next version.
mtd_vendor_write(v) ==
  /\ up /\ pc = "idle"
  /\ info.version < MaxVersion
  /\ info' = [version |-> info.version + 1, data |-> v]
  /\ count' = 0 /\ err' = 0
  /\ pc' = "re_write"
  /\ UNCHANGED <<flash, up, blk_offset, page_offset, acked>>

\* The block is full: the next one is entered and erased (mtd_map_write erases
\* it once more, which changes nothing).
next_block ==
  /\ pc = "re_write"
  /\ page_offset >= Pages
  /\ blk_offset' = IF blk_offset + 1 >= Blocks THEN 0 ELSE blk_offset + 1
  /\ page_offset' = 0
  /\ pc' = "erase"
  /\ UNCHANGED <<flash, info, up, count, err, acked>>

\* The program of a page starts; for page 0 mtd_map_write erases the block.
start_page ==
  /\ pc = "re_write"
  /\ page_offset < Pages
  /\ pc' = IF page_offset = 0 THEN "erase" ELSE "program"
  /\ UNCHANGED <<flash, info, up, blk_offset, page_offset, count, err, acked>>

erase ==
  /\ pc = "erase"
  /\ flash' = [flash EXCEPT ![blk_offset] = [p \in PageNos |-> Blank]]
  /\ pc' = "program"
  /\ UNCHANGED <<info, up, blk_offset, page_offset, count, err, acked>>

\* A page that is not blank cannot take an image.
Program(b, p) ==
  [flash EXCEPT ![b][p] = IF flash[b][p] = Blank THEN info ELSE Junk]

\* A copy is written; the second one ends the write.
programmed ==
  /\ pc = "program"
  /\ flash' = Program(blk_offset, page_offset)
  /\ page_offset' = page_offset + 1
  /\ count' = count + 1
  /\ IF count + 1 < 2
     THEN pc' = "re_write" /\ UNCHANGED acked
     ELSE pc' = "idle" /\ acked' = info
  /\ UNCHANGED <<info, up, blk_offset, err>>

\* Mutant of program_failed: the failures are not counted.
FailsUncounted ==
  /\ pc = "program"
  /\ page_offset \in FailPages
  /\ flash' = [flash EXCEPT ![blk_offset][page_offset] = Junk]
  /\ page_offset' = page_offset + 1
  /\ pc' = "re_write"
  /\ UNCHANGED <<info, up, blk_offset, count, err, acked>>

\* A program fails and is tried again on the next page, MaxErr times.
program_failed ==
  /\ pc = "program"
  /\ page_offset \in FailPages
  /\ flash' = [flash EXCEPT ![blk_offset][page_offset] = Junk]
  /\ page_offset' = page_offset + 1
  /\ err' = err + 1
  /\ pc' = IF err + 1 > MaxErr THEN "idle" ELSE "re_write"
  /\ UNCHANGED <<info, up, blk_offset, count, acked>>

\* What power loss leaves of an operation that is under way.
Interrupted ==
  {flash} \cup
  (IF pc = "erase"
   THEN {[flash EXCEPT ![blk_offset] = [p \in PageNos |-> Junk]]} ELSE {}) \cup
  (IF pc = "program"
   THEN {[flash EXCEPT ![blk_offset][page_offset] = Junk]} ELSE {})

crash ==
  /\ up
  /\ up' = FALSE
  /\ flash' \in Interrupted
  /\ info' = ResetImage
  /\ blk_offset' = 0 /\ page_offset' = 0
  /\ pc' = "idle" /\ count' = 0 /\ err' = 0
  /\ UNCHANGED acked

Next ==
  \/ mtd_vendor_storage_init \/ mtd_vendor_storage_reset
  \/ \E v \in Vals : mtd_vendor_write(v)
  \/ next_block \/ start_page \/ erase \/ programmed \/ program_failed
  \/ crash

Spec == Init /\ [][Next]_vars

-----------------------------------------------------------------------------
\* Block and page numbers stay inside the partition, and every page is blank,
\* an image or neither.
TypeOK ==
  /\ flash \in [BlockNos -> [PageNos -> Image \cup {Blank, Junk}]]
  /\ info \in Image /\ acked \in Image
  /\ up \in BOOLEAN
  /\ blk_offset \in BlockNos /\ page_offset \in 0 .. Pages
  /\ pc \in {"idle", "re_write", "erase", "program"}
  /\ count \in 0 .. 2 /\ err \in Nat

\* What mtd_vendor_storage_init would load now.
Loadable(img) ==
  \/ NothingFound /\ img = ResetImage
  \/ \E b \in BlockNos, p \in PageNos :
       IsNewestBlock(b) /\ IsLastImage(b, p) /\ img = flash[b][p]

\* Whatever was interrupted, and wherever the log stands, the next boot finds
\* the last acknowledged image or one that was written after it.
AckedIsDurable ==
  \E img \in {ResetImage} \cup {flash[b][p] : b \in BlockNos, p \in PageNos} :
    /\ Loadable(img)
    /\ \/ img.version > acked.version
       \/ img = acked

\* No page is programmed twice between two erases.
ProgramsBlankPages ==
  pc = "program" => flash[blk_offset][page_offset] = Blank

\* A version names one image: two writes never leave different images with the same
\* version on the flash, although a restart may count on from an older one.
VersionsNameImages ==
  \A b, c \in BlockNos, p, q \in PageNos :
    /\ IsImage(flash[b][p]) /\ IsImage(flash[c][q])
    /\ flash[b][p].version = flash[c][q].version
    => flash[b][p] = flash[c][q]

\* The block that a scan of the blocks S keeps.
IsNewestIn(S, b) ==
  /\ b \in S
  /\ HeadVersion(b) > 0
  /\ \A c \in S : /\ HeadVersion(c) <= HeadVersion(b)
                  /\ HeadVersion(c) = HeadVersion(b) => b <= c

\* The image on page p of block b is the last acknowledged one or was written
\* after it.
UpToDate(b, p) ==
  \/ flash[b][p].version > acked.version
  \/ flash[b][p] = acked

\* The blocks S alone hold what the next boot needs, and their newest block has
\* more than one programmed page, so that it will not be taken for empty.
Backed(S) ==
  \/ acked = ResetImage /\ \A b \in S : HeadVersion(b) = 0
  \/ \E b \in S, p \in PageNos :
       IsNewestIn(S, b) /\ IsLastImage(b, p) /\ UpToDate(b, p) /\ flash[b][1] # Blank

\* The blocks are programmed from the front, the head of a block has its smallest
\* version, and a newest block with one programmed page can be spared.
FlashInv ==
  /\ \A b \in BlockNos : \E k \in 0 .. Pages :
       \A p \in PageNos : flash[b][p] = Blank <=> p >= k
  /\ \A b \in BlockNos, p \in PageNos :
       IsImage(flash[b][p]) => HeadVersion(b) <= flash[b][p].version
  /\ \A b \in BlockNos :
       IsNewestBlock(b) /\ flash[b][1] = Blank => Backed(BlockNos \ {b})

\* Between the two copies: where the first one is.  If it is the head of a block
\* then the second one will be in that block, too.
FirstCopy ==
  /\ page_offset > 0 =>
       \E k \in PageNos :
         /\ IsLastImage(blk_offset, k) /\ flash[blk_offset][k] = info
         /\ page_offset - 1 - k <= err
         /\ k = 0 \/ HeadVersion(blk_offset) < info.version
  /\ page_offset = 0 =>
       LET S == BlockNos \ {blk_offset} IN
       /\ \E b \in S, k \in PageNos :
            /\ IsNewestIn(S, b) /\ IsLastImage(b, k) /\ flash[b][k] = info
            /\ flash[b][1] # Blank
       /\ \A c \in S : HeadVersion(c) < info.version

\* s_flash_info agrees with the flash, and the version in RAM is ahead of it.
LogInv ==
  /\ acked.version <= info.version
  /\ \A b \in BlockNos : HeadVersion(b) <= info.version
  /\ page_offset > 0 =>
       /\ IsNewestBlock(blk_offset)
       /\ \A p \in PageNos : flash[blk_offset][p] = Blank <=> p >= page_offset
  /\ page_offset = 0 => Backed(BlockNos \ {blk_offset})

\* A write under way.
WriteInv ==
  /\ count \in {0, 1} /\ err <= MaxErr
  /\ acked.version < info.version
  /\ count = 0 => \A b \in BlockNos : HeadVersion(b) < info.version
  /\ count = 1 => FirstCopy
  /\ pc = "erase" => page_offset = 0
  /\ pc = "program" =>
       /\ page_offset < Pages
       /\ page_offset = 0 => \A p \in PageNos : flash[blk_offset][p] = Blank

\* The inductive invariant behind AckedIsDurable and ProgramsBlankPages.
IInv ==
  /\ TypeOK
  /\ acked.version >= 1
  /\ AckedIsDurable
  /\ FlashInv
  /\ up => LogInv
  /\ pc # "idle" => up /\ WriteInv

\* The images of a block are in the order of their versions, the blocks in the order
\* of their heads, and no two heads are equal.
Sorted ==
  /\ \A b \in BlockNos, p \in PageNos : IsImage(flash[b][p]) => HeadVersion(b) > 0
  /\ \A b \in BlockNos, p, q \in PageNos :
       IsImage(flash[b][p]) /\ IsImage(flash[b][q]) /\ p < q =>
         flash[b][p].version <= flash[b][q].version
  /\ \A b, c \in BlockNos, p \in PageNos :
       HeadVersion(c) < HeadVersion(b) /\ IsImage(flash[c][p]) =>
         flash[c][p].version <= HeadVersion(b)
  /\ \A b, c \in BlockNos : HeadVersion(b) = HeadVersion(c) /\ HeadVersion(b) > 0 => b = c

\* The image in RAM is the newest of all, those that no boot would find included.
RamNewest ==
  \A b \in BlockNos, p \in PageNos : IsImage(flash[b][p]) =>
    \/ flash[b][p].version < info.version
    \/ flash[b][p] = info

\* The inductive invariant behind VersionsNameImages.
VersionInv ==
  /\ IInv
  /\ Sorted
  /\ up => RamNewest
  /\ VersionsNameImages

\* What the next boot finds is never older than what it would have found before.  Not
\* so: after a power loss between its two copies a boot finds, and hands out, an image
\* whose block the next write erases.
Found ==
  CHOOSE img \in {ResetImage} \cup {flash[b][p] : b \in BlockNos, p \in PageNos} :
    Loadable(img)

NeverRollsBack == [][Found'.version >= Found.version]_vars

\* "write 2 copies for reliability": an acknowledged image is there twice until
\* a newer one has been written.  Not an invariant: mtd_vendor_storage_init takes
\* a block with one programmed page for an empty one, and the next write erases it.
TwoCopies ==
  acked # ResetImage =>
    \/ \E b, c \in BlockNos, p, q \in PageNos :
         <<b, p>> # <<c, q>> /\ flash[b][p] = acked /\ flash[c][q] = acked
    \/ \E b \in BlockNos, p \in PageNos :
         IsImage(flash[b][p]) /\ flash[b][p].version > acked.version
=============================================================================
