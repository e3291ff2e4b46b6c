# Formal models of the RK3128 XMIO Armbian port

TLA+ specifications of the parts of this repository that keep state across failures, restarts and interleavings, with
TLC configurations for small instances and TLAPS proofs for every instance. Line numbers refer to the sources named;
`vendor.c` is `repos/u-boot-rk3128-tvbox/arch/arm/mach-rockchip/vendor.c`.

## 1. The system and its parts

The repository turns an RK3128 TV box into an Armbian machine: a patched u-boot and kernel, a boot script, an LED daemon
and the tools that build and flash the images.

| part | code | state | operations | what is hard |
|---|---|---|---|---|
| vendor storage, parts | `vendor.c` | image in RAM, 2 or 4 parts on flash, versions | init, write | power loss inside a write, failed writes, version numbers used again |
| vendor storage, items | `vendor.c` | item table, extents, bytes, free counters | read, write (update, grow, create) | compaction in place, full data area, failure half way |
| vendor storage, raw flash | `vendor.c`, `drivers/mtd/mtd_blk.c` | log of images over erase blocks | init, write | erase before write, failed programs, block boundaries |
| status LED | `tools/xmio-led.c` | flags, tick counters, LED values | one loop iteration | surroundings change between probe and display |
| MAC of eth0 | `tools/archive/v24.4c-kernel.sh` | first deferral, delayed work | probe, re-probe | one probe thread, its timeout, a slow or dead rk_nand |
| NAND garbage collection | `tools/patches/v16-gc-restore.py` | arming flag, ready flag, mutex | init, collect, request | a blob that is not re-entrant |
| boot script | `tools/boot-patch/boot.cmd` | environment, device tree in memory | import, filter, apply, restore, boot | an overlay that fails half way, a second attempt in the first one's environment |
| MAC writer | `tools/v24-vendor-mac.c` | none of its own | show, write and verify | the verifying read is answered from RAM |
| fbdev shadow buffer | `tools/patches/v28-patch.py`, `v28-patch2.py` | shadow and scanned-out buffer, damage | draw, write, copy | drawing and copying share no lock |
| tick timer | `tools/patches/v9*`, `v13*`, `v14*` | timer mode | set once | the hardware |
| build pipeline | `tools/rebuild-all.sh` and what it calls | images | build, repack, pack | artifacts of an earlier run |
| patches as text edits | `tools/patches/*.py` | source files | one edit each | order, idempotence |

How they interact: the MAC that `rk_gmac_probe` wants is an item of the vendor storage, which the kernel reaches through
rk_nand; rk_nand starts the collector and reads the vendor area while it registers its disk, on the one thread that
probes deferred devices, gmac included (`RkNandBringUp`); the boot script decides which storage driver gets a
device-tree node at all.

## 2. Modules

| module | models | state and actions |
|---|---|---|
| `VendorStorage` | parts, versions, recovery | `parts` (flash), `vendor_info` (RAM), `bootdev_type`, `pc`. A flash write has two steps, `vendor_ops_head` and `vendor_ops_tail`, so that power loss (`crash`) or an error (`return_eio`) can come between them |
| `AtomicStore` | what users of the store rely on | contents in RAM and on disk; a write reaches the disk at once; success means durable |
| `VendorItems` | item table | `update`, `create`, and for an item that outgrows its extent `grow`, `shift` (one turn of the loop), `append`. The flash is one durable image, the promise of `AtomicStore` |
| `MtdVendor` | raw-flash log | `flash[block][page]`; `next_block`, `start_page`, `erase`, `programmed`, `program_failed` are the steps of a write, a crash may leave any step half done |
| `XmioLed`, `XmioYellow` | the LED daemon | the loop cut where it sleeps, pings or writes; the network, the end of the boot (`reached`: multi-user.target or 90 s of uptime) and the LED nodes move in between. A `write()` on an open node may fail, which the daemon does not notice (`missed`). The counter `tick` is kept as `phase` and `due`, the two ways it is used |
| `DeferredProbe` | driver core around gmac (external) | one thread and one queue, rk_nand behind gmac, a timeout after which nothing is queued again, the clock in units of two seconds |
| `GmacProbe` | `rk_gmac_probe` and its delayed work | `first` (first deferral), `work` (due time), `running`; extends `DeferredProbe` |
| `FtlGcGate` | collector, requests and init around the FTL blob | `rk_ftl_gc_do`, `v16_ftl_ready`, the mutex, and where each thread is; a call that meets the init in the blob may be lost with the mutex (`blob_hangs`, `hung`) |
| `RkNandBringUp` | `GmacProbe` and `FtlGcGate` together | the deferred-probe thread takes the steps of `nand_blk_register` in the probe of rk_nand; rk_nand is bound when the vendor-storage init returns (`nand_ready`) |
| `FbShadow` | the framebuffer console | `behind`, the pixels drawn and not yet on the screen; `clip`, `queued` (damage of the fb helper, external), `taken`, `left` (the worker). A drawing call goes pixel by pixel (`draw_pixel`) and then notes its damage; the worker takes the clip and copies row by row |
| `BootScript` | `boot.cmd` and the next attempt | the environment, the list left to a loop (`todo`), the tree in memory (`applied`, `magic`), `overlay_error` |

`*Proofs` modules hold theorems, and those of the item table rest on `VendorItemsLemmas`; `GmacProbeProofs` has those of
`RkNandBringUp` and of the gate too. `MCVendorStorage` and `MCVendorItems` instantiate for TLC what the configurations
alone cannot (the proofs' assumption on failed writes, and a symmetry set). Definitions headed "Mutant of ..." are
plausible bugs of the definition below them; substituting one must make a property fail. No specification uses them.

## 3. Runs

| run | instance | shows |
|---|---|---|
| `vendor_parts` | 4 parts, 1 item, 2 values, 6 writes, 2 failures in a row | acknowledged writes survive any crash, a valid part is one write, the newest part is never overwritten, what a restart finds never becomes older (`NeverRollsBack`), `AtomicStore` is implemented |
| `vendor_torn` | 2 parts, 1 failure | **violation** of `ValidIsWhole`: version 3 fails, version 4 loses power with its head over the only valid part; versions start at 1 again, and the head of a second version 2 meets the tail of the first, `version == version2` |
| `vendor_items` | 3 items, sizes 1 and 3, area of 11 bytes, alignment 2 | every item reads back, extents stay apart, copies go down, across compaction, failures and crashes |
| `mtd_log` | 3 blocks of 4 pages, 1 failure per write, not on first pages | acknowledged images survive, no page is programmed twice, a version number belongs to one image (`VersionsNameImages`), and the invariant of the proof holds |
| `mtd_page0` | the same, failures on first pages | **violation** of `AckedIsDurable`: the retries succeed and the write is acknowledged, but init looks at first pages only |
| `led_status` | periods 5, 2 and 3 ticks, one restart | a verdict is never older than its period; the LED settles in the right colour, with or without multi-user.target; it blinks until the end of the boot is noticed, and that is noticed once the carrier the loop sees is steady |
| `led_yellow` | up to 2 sectors read, 2 written, one restart | transfers light the LED, nothing else does (`OnlyTransfers`), and it goes dark, also when the daemon died with it lit |
| `bring_up` | vendor area with a MAC, empty, dead; rk_nand 2 s to 32 s; 2 block requests | eth0 always comes up, with the stored MAC where it is there in time; the retries end; the collector is out of the blob until the init is called and never in it beside a request (`GateHolds`), it gets to run, and what requests have armed is collected when the disk falls idle, whatever the vendor area is like |
| `gc_race` | 3 requests | **violation** of `NoGcDuringInit`: `v16_ftl_ready` is set before the call it is to outlast |
| `boot_overlays` | 4 media, 3 names in lists of up to 2, 2 attempts, missing, invalid and failing overlays | the list is what the medium needs, the kernel gets all overlays or the original tree, a second attempt takes neither root device nor extra overlays from the first; the invariant of the proof holds |
| `fb_shadow` | a screen of 2 by 2 pixels, one drawer against the worker | no damage is lost; when the drawing stops the screen shows what was drawn |
| `boot_restore` | 1 attempt | **violation** of `RequiredInTree`: the restored tree lacks the overlay that eMMC and SD boots require |

Bounds. `MaxVersion` of `vendor_parts` lets the writes go round all four parts and half round again, so each part is
overwritten with older and newer neighbours; that of `mtd_log` makes the log leave a block and enter the next. Three
items fill the data area of 11 bytes, so that the last extent meets the end and the item that grows can be first, middle
or last. `PING_EVERY` must exceed `RETRY` by two for a stale `next_probe` to show, and with `MU_EVERY` below 3 a
flapping carrier could not starve the check for the end of the boot, which is where `Blinks` has something to say. The
times of rk_nand lie before the core's timeout, between it and the deadline, at the deadline and behind it; two requests
meet in the queue of the mutex with the collector as a third. On a screen of 2 by 2 pixels the union of two rectangles
is larger than both, and a write can end inside its first row or run over into the next; the proof has any number of
drawers. A list of two overlays holds the required one twice or next to the blocked one; the second attempt starts from
the up to four the first has left, and the proof has lists and attempts without number.

Fairness. `XmioLed`, `XmioYellow`: the daemon's own steps, since its sleep ends and its poll has a timeout, and the
uptime that gets to 90 s (line 92, if `/proc/uptime` can be read); nothing is assumed of the network, of the target or
of the LED. A write of the LED that fails is not repeated (line 48), so the properties on the colour that is left
exclude a *last* write that failed (`~missed`), not earlier ones. `RkNandBringUp`: the kernel's threads and the clock go
on; other drivers need not bind, and no request need come. A call into the blob returns unless it met the vendor-storage
init there; such a call may be lost, and the mutex with it (v12-patch.py line 8, FLASH-GUIDE.md lines 498-503; later
logs blame another fault for that freeze, so the model leaves both outcomes open). The init itself returns, as in the
log quoted there. A waiter gets a mutex that stays free, and no more is assumed of the mutex, whose code is not here:
`Collects` and `FirstCollection` are therefore about a disk that falls idle, and `Collects` about boots in which no call
was lost. `FbShadow`: drawing calls return and the workqueue runs; nobody need draw. All other properties are safety
properties.

## 4. Proofs

| module | theorems | assumptions |
|---|---|---|
| `VendorStorageProofs` | `Typing`, `Inductive`, `Wholeness`, `Durability`, `Sparing`, `Monotone`, `Refinement` | at least two parts, and `MaxFails + 2 <= PartNum`: fewer than `PartNum - 1` failures in a row |
| `VendorItemsProofs` | `Inductive`, `Typing`, `ReadsWhatWasWritten`, `Separation`, `CopyDirection` | alignment at least 1 |
| `MtdVendorProofs` | `Inductive`, `Typing`, `Durability`, `BlankPages`, `Ordered`, `Naming` | at least two blocks and two pages; `Tolerable`: programs of first pages do not fail, and `MaxErr + 1 < Pages` |
| `XmioLedProofs` | `Inductive`, `Typing`, `Freshness`, `Shown`; of `XmioYellow` `Lit` | periods at least 1 |
| `GmacProbeProofs` | `Inductive`, `Typing`, `NoLostRetry`, `StoredMac`; of the composed boot `SysInductive`, `BringUp`, `Gate`, `Composition`, `ReadyAfterGate` | those of the modules it uses |
| `FbShadowProofs` | `Inductive`, `Typing`, `Damage` | a screen of at least one pixel |
| `BootScriptProofs` | `Inductive`, `Corrected`, `ListFits`, `OwnRoot`, `Retry`; `WholeTree`, `Unblocked`, `RequiredUnlessRestored` | none; the last three assume that loads of the device tree succeed (`"dtb" \notin Faults`), as `boot_overlays` does |

- *VendorStorage.* Durability is not inductive: it says nothing about where the next write goes. `IInv` adds the newest
  complete image (`last`), that all other tails are older (`TailsOld`), that a valid part names its successor
  (`ValidNamesNext`) and that the write in progress is exactly `fails + 1` parts ahead of `last` (`RamAhead`). With fewer
  failures than other parts it cannot come round. `Refinement` maps every step to a step of `AtomicStore` or a stutter.
  `Monotone` is an action property: a restart loads the version of `last` (`RecoveredVersion`), and no step lowers it.
- *VendorItems.* `IInv` says that an image is whole outside the loop and describes the loop inside it: the extents before
  `j` are packed, those behind are where they were, and the gap is as large as the extent taken out. The lemmas on the
  operations without a loop are in `VendorItemsLemmas`, those on the loop come first in `VendorItemsProofs`.
- *MtdVendor.* Durability speaks of the block whose first page is newest and of its last image. `IInv` adds that blocks
  are programmed from the front, that the first page of a block has its smallest version, and that a newest block with
  one programmed page, which init takes for empty, can be spared (`FlashInv`); that the offsets in RAM point behind the
  newest image, or at a block whose erasure leaves the acknowledged image in the others (`LogInv`, `Backed`); and where a
  write under way stands (`WriteInv`): before its first copy every block starts with an older version, after it the copy
  is what the next boot would find (`FirstCopy`). `mtd_page0` shows that the first half of `Tolerable` is needed. The
  second keeps the failed pages of one write from filling a block; the code gives up at the fourth failure (`MaxErr = 3`)
  and a block of 128 KB has 32 pages of 4 KB. `VersionInv` adds the order of versions: within a block they grow page by
  page, a block with an older head has nothing newer than a younger block's head (`Sorted`), and nothing on the flash is
  newer than the image in RAM (`RamNewest`). Without `Sorted` a restart could count on from a version below one that lies
  on the flash unseen, and give it out again, which is what happens to parts in `vendor_torn`; `Naming` excludes it here.
- *XmioLed.* With a carrier, `age + due` is the period of the verdict; `st_status` is what the LED shows unless the write of that colour
  failed (`Remembered`). For the yellow LED, the counters remembered are those of the disk while nothing was transferred
  (`YellowInv`); `Lit` follows from that.
- *GmacProbe.* gmac yields at once, so rk_nand is next in the queue or being probed until it is bound (`NandIsNext`); a
  vendor area not ready after the deadline is then slow or dead. `BringUp` carries the result over to `RkNandBringUp`:
  each of its steps is a step of `GmacProbe` or leaves its variables alone (`SysSteps`; `FtlSteps` says the same of
  `FtlGcGate`, and `Composition` puts both together).
- *FtlGcGate.* `GateInv`: whoever is in the blob, the init apart, holds the mutex, also when the call is lost, and the gate is
  open exactly from the call of the init on. `SysInv` ties it to the probes: rk_nand is bound exactly when the init has returned. `Gate` is as
  much as can be proved: that the collector stays out until the init has returned is what `gc_race` refutes.
- *FbShadow.* A drawing call stays inside the rectangle that it will report, and joining clips loses no pixel
  (`JoinCovers`, `RangeCovers`).
- *BootScript.* What the loop over the list computes is said without recursion: `Kept` are the positions that stay,
  `Place` counts them, and `Body` has each at its place. `FilterInv` describes the loop half way: the flag tells whether
  the required overlay was seen, and the new list has what was kept so far, at its places (`Filtered`). One turn adds the
  next kept position or none (`FilterOne`); at the end the list is `Body` (`FilterAll`, `BodyUnique`). `Retry` rests on
  `WantedTwice`: correcting a corrected list changes nothing. For the tree, `Applying` says what a loop of `fdt apply` has
  left of it while no overlay failed. `RequiredUnlessRestored` shows that `boot_restore` has found the only case.

Only model-checked: liveness (`SettlesGreen`, `SettlesRed`, `Blinks`, `NoticedOnceSteady`, `TransferIsShown`, `GoesDark`,
`EthEventually`, `Quiesces`, `Collects`, `FirstCollection`, `Settles`), which is out of the prover's reach. Every safety property that a passing run checks is proved.

## 5. Other statements the code does not keep

These are stated in the modules, or are a change of a bound, and TLC refutes them when they are added to a configuration:

- `VendorItems!FreeIsAccounted`: an item that shrinks in place and grows again leaves `free_size` below the room there is.
- `MtdVendor!TwoCopies`: a block with one programmed page counts as empty and is erased by the next write.
- `MtdVendor!NeverRollsBack`: after power loss between its two copies a boot loads an image that was never acknowledged,
  and the next write erases its block; another power loss then brings the image before it back. The parts do keep this
  property (`Monotone`), so raw flash promises less than `AtomicStore`.
- `XmioLed!GreenIsAnswered`: no gateway, or no socket, counts as connected.
- `XmioLed!TargetNoticed`: a flapping carrier resets `tick` and starves the check for multi-user.target.
- `SettlesGreen`, `SettlesRed` and `GoesDark` without `~missed`: a colour whose write failed is never written again.
- `FtlGcGate!Served`: a call of the blob that is lost to the race of `gc_race` keeps the mutex, and TLC finds the deadlock
  with every request waiting.
- `BootScript!WholeOrOriginal` and `BlockedNotInTree` with `"dtb"` in `Faults`: an unchecked load leaves the tree of the
  last attempt.

Reading the scripts that are not modelled showed:

- `repack-rootfs.sh` leaves the root filesystem in `/workspace/work` (lines 11-13, 20), while `rebuild-all.sh` reads
  `$OUT` (lines 71, 77, 109): the delivered images carry the root filesystem of an earlier run.
- `rebuild-all.sh` line 41 takes a source tree with a `Makefile` for a complete one, which an interrupted extraction leaves
  too; line 57 asks for packages numbered 2 although line 47 has the numbering start again, and drops the error.
- `v14-patch.py` calls itself idempotent (line 2) but looks for a marker (line 47) that line 87 renames: a second run
  inserts its block again. `v12-patch.py` run again after `v16-gc-restore.py` switches the collector off.

## 6. Not modelled

- Vendor storage: SPI NOR on the MTD path, failing erases and reads there, a failed program that leaves its page blank, the
  built-in self test.
- Boot script: the command line apart from `root=`, `xmio_fdt_override`, the fixup scripts.
- fbdev: setting up and freeing the shadow buffer, whose order the kernel decides; programs that map the framebuffer,
  which go round the damage; a `dirty` callback that
  fails, which rockchip's does not.
- rk_nand, the driver core, the fb helper and `fdt apply` are modelled from how the code here uses them, or from the
  vendored sources.
- `vendor-mac`: three ioctls in sequence, answered by a kernel driver that is not in the repository; a model could only
  check what it assumes of that driver.
- The tick timer: the patches insert instrumentation and set a mode once; what can go wrong lies in the hardware and in
  kernel code that is not here.
- The build pipeline and the patches as text edits: sequential scripts over fixed paths, and edits of sources that are not
  here. Section 5 has what reading them showed.
- The two earlier rules for the MAC (v24.1 counting deferrals, v24.4 waiting in the probe) and the v12 patch that switched
  the collector off are superseded.
- Device-tree patches, image format tools, rkflashtool, inspection scripts, the rest of u-boot: constant edits, formats,
  or code that keeps no state of this port.
