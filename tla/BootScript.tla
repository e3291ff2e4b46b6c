----------------------------- MODULE BootScript -----------------------------
(***************************************************************************)
(* The boot script (tools/boot-patch/boot.cmd).  It imports armbianEnv.txt *)
(* from the medium it was found on, corrects the list of overlays for that *)
(* medium, chooses the root device, applies the overlays to the device     *)
(* tree and calls bootz.  When bootz returns, u-boot tries the next of its *)
(* boot targets, and then the user may type boot at the prompt: the script *)
(* runs again in the environment, and with the memory, left behind.        *)
(***************************************************************************)
EXTENDS Integers, SequencesExt

CONSTANTS
  Names,       \* the overlays an armbianEnv.txt may list
  MaxLen,      \* bound: the longest such list
  MaxAttempts, \* bound: runs of the script
  Faults       \* what may go wrong: a subset of AllFaults

\* "dtb": the load of the device tree fails; "missing": an overlay has no
\* file; "reject": the file is not an overlay; "damage": it does not apply.
AllFaults == {"dtb", "missing", "reject", "damage"}

ASSUME BootAssumption ==
  /\ MaxLen \in Nat /\ MaxAttempts \in Nat \ {0} /\ Faults \subseteq AllFaults

VARIABLES
  medium,         \* devtype and devnum
  xmio_overrides, \* set at the prompt
  overlays, user_overlays, filtered_overlays, required_boot_overlay_seen,
  rootdev, partuuid,
  todo,           \* the names a for loop has not come to yet
  fdt,            \* the memory at fdt_addr_r
  overlay_error, pc, attempts,
  input, missing, last  \* auxiliary: the list before it is corrected, the
                        \* overlays that had no file, the attempt before

env  == <<xmio_overrides, overlays, user_overlays, filtered_overlays,
          required_boot_overlay_seen, rootdev, partuuid>>
vars == <<medium, env, todo, fdt, overlay_error, pc, attempts, input, missing, last>>

Targets == <<"usb", "sd", "emmc", "nand">>
Media   == ToSet(Targets)
Unset   == <<"unset">>
Lists   == SeqOf(Names, MaxLen)
User    == {<<>>, <<"user">>}
Otg     == {"usb-otg-host", "usb-otg-peripheral"}

\* A root device is named by armbianEnv.txt, by a PARTUUID or by a device
\* name, and lies on the medium that named it.
NoRoot == [by |-> "", on |-> ""]
Roots  == {NoRoot} \cup [by : {"env", "partuuid", "name"}, on : Media]

\* The overlays applied to the tree in memory, and whether its magic is intact.
Loaded == [applied |-> {}, magic |-> TRUE]

\* The overlays a boot medium needs, and the ones it cannot live with.
RequiredOn(m) ==
  CASE m = "emmc" -> {"emmc-enabled"}
    [] m = "sd"   -> {"sdcard-enabled"}
    [] OTHER      -> {}

BlockedOn(m) ==
  CASE m = "sd"   -> {"gpio2-sdcard-disabled"}
    [] m = "nand" -> {"emmc-enabled"}
    [] OTHER      -> {}

required_boot_overlay == RequiredOn(medium)
blocked_boot_overlay == BlockedOn(medium)

Init ==
  /\ medium \in Media
  /\ xmio_overrides \in {<<>>, <<"uart1">>}
  /\ overlays = <<>> /\ user_overlays = <<>> /\ filtered_overlays = <<>>
  /\ required_boot_overlay_seen = FALSE
  /\ rootdev = NoRoot /\ partuuid = ""
  /\ todo = <<>>
  /\ fdt = [applied |-> {}, magic |-> FALSE]
  /\ overlay_error = FALSE
  /\ pc = "import" /\ attempts = 1
  /\ input = <<>> /\ missing = {} /\ last = [medium |-> "", overlays |-> <<>>]

-----------------------------------------------------------------------------
(* The settings, armbianEnv.txt, and what is known of the boot partition.  *)

\* Mutant of RootBefore: an earlier root device is not cleared.
RootKept == rootdev

\* What the script clears first: the root device and the partition's UUID.
RootBefore == NoRoot
UuidBefore == ""

\* armbianEnv.txt may be missing, and each of its lines may be; a list given at
\* the prompt wins over the file's.  "part uuid" may find nothing, and is not
\* asked for the NAND.
import ==
  /\ pc = "import"
  /\ overlay_error' = FALSE
  /\ \E list \in {Unset} \cup Lists :
       overlays' = IF xmio_overrides # <<>> THEN xmio_overrides
                   ELSE IF list # Unset THEN list ELSE overlays
  /\ user_overlays' \in {user_overlays} \cup User
  /\ rootdev' \in {RootBefore, [by |-> "env", on |-> medium]}
  /\ partuuid' \in {UuidBefore} \cup ({medium} \ {"nand"})
  /\ filtered_overlays' = <<>> /\ required_boot_overlay_seen' = FALSE
  /\ todo' = overlays' /\ input' = overlays' /\ missing' = {}
  /\ pc' = "filter"
  /\ UNCHANGED <<medium, xmio_overrides, fdt, attempts, last>>

-----------------------------------------------------------------------------
(* The correction of the list.                                             *)

\* Mutants of keep_overlay: the blocked overlay is kept; the required one is
\* kept twice.
KeepBlocked(name) == name \in required_boot_overlay => ~required_boot_overlay_seen
KeepDuplicate(name) == name \notin blocked_boot_overlay

keep_overlay(name) ==
  /\ name \notin blocked_boot_overlay
  /\ name \in required_boot_overlay => ~required_boot_overlay_seen

\* One turn of the loop over the list.
filter ==
  /\ pc = "filter" /\ todo # <<>>
  /\ LET name == Head(todo)
     IN  /\ filtered_overlays' = IF keep_overlay(name)
                                 THEN Append(filtered_overlays, name)
                                 ELSE filtered_overlays
         /\ required_boot_overlay_seen' =
              (required_boot_overlay_seen \/ name \in required_boot_overlay)
  /\ todo' = Tail(todo)
  /\ UNCHANGED <<medium, xmio_overrides, overlays, user_overlays, rootdev, partuuid,
                 fdt, overlay_error, pc, attempts, input, missing, last>>

\* Mutant of Forced: also where no overlay is required.
ForcedEmpty(list) ==
  IF ~required_boot_overlay_seen
  THEN Append(list, IF required_boot_overlay = {} THEN ""
                    ELSE CHOOSE name \in required_boot_overlay : TRUE)
  ELSE list

\* The required overlay is forced onto a list that has not got it.
Forced(list) ==
  IF required_boot_overlay # {} /\ ~required_boot_overlay_seen
  THEN Append(list, CHOOSE name \in required_boot_overlay : TRUE)
  ELSE list

\* The root device, unless armbianEnv.txt has named one.
RootOf(uuid) ==
  IF medium # "nand" /\ uuid # ""
  THEN [by |-> "partuuid", on |-> uuid]
  ELSE [by |-> "name", on |-> medium]

force ==
  /\ pc = "filter" /\ todo = <<>>
  /\ overlays' = Forced(filtered_overlays)
  /\ rootdev' = IF rootdev = NoRoot THEN RootOf(partuuid) ELSE rootdev
  /\ pc' = "load"
  /\ UNCHANGED <<medium, xmio_overrides, user_overlays, filtered_overlays,
                 required_boot_overlay_seen, partuuid, todo, fdt, overlay_error,
                 attempts, input, missing, last>>

-----------------------------------------------------------------------------
(* The device tree.                                                        *)

\* A load of the device tree: its result is not looked at.
LoadDtb == fdt' \in {Loaded} \cup IF "dtb" \in Faults THEN {fdt} ELSE {}

\* Mutant of WithOtg: the list is not searched first.
AlwaysOtg(list) == Append(list, "usb-otg-host")

\* Either of the two overlays for the OTG port must be there.
WithOtg(list) ==
  IF ToSet(list) \cap Otg = {} THEN Append(list, "usb-otg-host") ELSE list

load ==
  /\ pc = "load"
  /\ LoadDtb
  /\ overlays' = WithOtg(overlays)
  /\ todo' = overlays'
  /\ pc' = "apply"
  /\ UNCHANGED <<medium, xmio_overrides, user_overlays, filtered_overlays, rootdev,
                 required_boot_overlay_seen, partuuid, overlay_error, attempts,
                 input, missing, last>>

\* fdt apply: refuses what is not a tree, and erases the magic of a tree it
\* may have left half changed.  It refuses a tree without magic.
FdtApply(name) ==
  \/ /\ fdt.magic
     /\ fdt' = [fdt EXCEPT !.applied = @ \cup {name}]
     /\ UNCHANGED overlay_error
  \/ /\ "reject" \in Faults \/ ~fdt.magic
     /\ overlay_error' = TRUE
     /\ UNCHANGED fdt
  \/ /\ "damage" \in Faults /\ fdt.magic
     /\ overlay_error' = TRUE
     /\ \E half \in {{}, {name}} : fdt' = [applied |-> fdt.applied \cup half, magic |-> FALSE]

\* One turn of a loop that applies overlays; an overlay without a file is skipped.
ApplyNext ==
  /\ todo # <<>>
  /\ \/ FdtApply(Head(todo)) /\ UNCHANGED missing
     \/ /\ "missing" \in Faults
        /\ missing' = missing \cup {Head(todo)}
        /\ UNCHANGED <<fdt, overlay_error>>
  /\ todo' = Tail(todo)

apply ==
  /\ pc = "apply"
  /\ ApplyNext
  /\ UNCHANGED <<medium, env, pc, attempts, input, last>>

apply_user ==
  /\ pc = "apply" /\ todo = <<>>
  /\ pc' = "apply_user" /\ todo' = user_overlays
  /\ UNCHANGED <<medium, env, fdt, overlay_error, attempts, input, missing, last>>

apply_user_next ==
  /\ pc = "apply_user"
  /\ ApplyNext
  /\ UNCHANGED <<medium, env, pc, attempts, input, last>>

\* Mutant of restore: the tree is not loaded again.
restore_nothing ==
  /\ pc = "apply_user" /\ todo = <<>>
  /\ pc' = "bootz"
  /\ UNCHANGED <<medium, env, todo, fdt, overlay_error, attempts, input, missing, last>>

\* After an error the original tree is loaded again.  The fixup scripts that run
\* otherwise are not modelled.
restore ==
  /\ pc = "apply_user" /\ todo = <<>>
  /\ IF overlay_error THEN LoadDtb ELSE UNCHANGED fdt
  /\ pc' = "bootz"
  /\ UNCHANGED <<medium, env, todo, overlay_error, attempts, input, missing, last>>

-----------------------------------------------------------------------------
(* The kernel, or another attempt.                                         *)

bootz ==
  /\ pc = "bootz"
  /\ pc' = "kernel"
  /\ UNCHANGED <<medium, env, todo, fdt, overlay_error, attempts, input, missing, last>>

Again ==
  /\ pc = "bootz" /\ attempts < MaxAttempts
  /\ attempts' = attempts + 1
  /\ last' = [medium |-> medium, overlays |-> overlays]
  /\ pc' = "import"
  /\ UNCHANGED <<overlays, user_overlays, filtered_overlays, required_boot_overlay_seen,
                 rootdev, partuuid, todo, fdt, overlay_error, input, missing>>

Position(m) == CHOOSE i \in DOMAIN Targets : Targets[i] = m

\* "SCRIPT FAILED: continuing": a later boot target is tried.
script_failed ==
  /\ Again
  /\ medium' \in {m \in Media : Position(m) > Position(medium)}
  /\ UNCHANGED xmio_overrides

\* No target is left, and boot is typed at the prompt.
boot ==
  /\ Again
  /\ medium' \in Media
  /\ xmio_overrides' \in {<<>>, <<"uart1">>}

Done == pc = "kernel" /\ UNCHANGED vars

Next ==
  \/ import \/ filter \/ force \/ load
  \/ apply \/ apply_user \/ apply_user_next \/ restore
  \/ bootz \/ script_failed \/ boot \/ Done

Spec == Init /\ [][Next]_vars

-----------------------------------------------------------------------------
(* Properties.                                                             *)

AllNames == Names \cup Otg \cup {"emmc-enabled", "sdcard-enabled", "uart1", "user"}

\* The environment and the tree hold overlays, and one of the script's root
\* devices.
TypeOK ==
  /\ medium \in Media /\ partuuid \in {""} \cup Media /\ rootdev \in Roots
  /\ {xmio_overrides, overlays, filtered_overlays, todo, input} \subseteq Seq(AllNames)
  /\ user_overlays \in User
  /\ fdt \in [applied : SUBSET AllNames, magic : BOOLEAN]
  /\ {required_boot_overlay_seen, overlay_error} \subseteq BOOLEAN
  /\ last \in [medium : Media \cup {""}, overlays : Seq(AllNames)]
  /\ pc \in {"import", "filter", "load", "apply", "apply_user", "bootz", "kernel"}
  /\ attempts \in 1..MaxAttempts

\* The list that medium m calls for, without the loop.  The blocked overlay is
\* gone, the required one is kept once, and everything else in its order:
Kept(m, list) ==
  {i \in DOMAIN list :
     /\ list[i] \notin BlockedOn(m)
     /\ list[i] \in RequiredOn(m) => \A j \in 1..(i - 1) : list[j] # list[i]}

KeptUpto(m, list, n) == {i \in Kept(m, list) : i <= n}

Place(m, list, i) == Cardinality(KeptUpto(m, list, i))

Body(m, list) ==
  [k \in 1..Cardinality(Kept(m, list)) |->
     list[CHOOSE i \in Kept(m, list) : Place(m, list, i) = k]]

\* ... then come the required overlay, if the list lacks it, and an overlay for
\* the OTG port, if there is none.
Full(m, list) == Body(m, list) \o SetToSeq(RequiredOn(m) \ ToSet(list))

Wanted(m, list) ==
  LET full == Full(m, list)
  IN  full \o IF Otg \cap ToSet(full) = {} THEN <<"usb-otg-host">> ELSE <<>>

\* The overlays that are applied are the list the medium calls for, whatever
\* armbianEnv.txt, the prompt or an earlier attempt has left in overlays
\* (boot.cmd 129-173 and 238-251).
CorrectedList ==
  pc \in {"apply", "apply_user", "bootz"} => overlays = Wanted(medium, input)

\* The kernel gets every overlay that has a file or none of them, and never a
\* tree that fdt apply has damaged, however the failures are spread over the two
\* loops (boot.cmd 253-271).
WholeOrOriginal ==
  pc = "bootz" =>
    /\ fdt.magic
    /\ IF overlay_error
       THEN fdt.applied = {}
       ELSE LET all == ToSet(overlays) \cup ToSet(user_overlays)
            IN  fdt.applied \subseteq all /\ all \ missing \subseteq fdt.applied

\* The root device is never one that an earlier attempt, on another medium, has
\* found (boot.cmd 12-13, 175-203).
RootIsOwn == pc = "bootz" => rootdev.on = medium

\* A second attempt on the same medium that starts from the list the first has
\* left ends with that list: the correction does not pile up (boot.cmd 129-251).
SameOnRetry ==
  pc = "bootz" /\ medium = last.medium /\ input = last.overlays => overlays = last.overlays

\* "eMMC boot requires emmc-enabled", "SD boot requires sdcard-enabled": the tree
\* the kernel gets has the overlay unless its file is missing (boot.cmd 112-115).
RequiredInTree == pc = "bootz" => required_boot_overlay \subseteq fdt.applied \cup missing

\* "NAND boot must not keep emmc-enabled", and SD boot not the overlay that
\* disables the SD card: the tree the kernel gets has not got it (boot.cmd 114-115).
BlockedNotInTree == pc = "bootz" => blocked_boot_overlay \cap fdt.applied = {}

-----------------------------------------------------------------------------
(* The inductive invariant behind them.                                    *)

\* f has the names that are kept of the first n, at their places.
Filtered(m, list, n, f) ==
  /\ Len(f) = Cardinality(KeptUpto(m, list, n))
  /\ \A k \in DOMAIN f : \E i \in Kept(m, list) :
       i <= n /\ Place(m, list, i) = k /\ f[k] = list[i]

\* The loop has come to position Seen of the list it corrects.
Seen == Len(input) - Len(todo)

FilterInv ==
  /\ Seen >= 0
  /\ \A k \in DOMAIN todo : todo[k] = input[Seen + k]
  /\ required_boot_overlay_seen <=>
       \E i \in 1..Seen : input[i] \in required_boot_overlay
  /\ Filtered(medium, input, Seen, filtered_overlays)

\* The root device found so far is the medium's own, and so is the UUID.
RootInv ==
  /\ pc = "filter" => rootdev = NoRoot \/ rootdev.on = medium
  /\ pc = "filter" => partuuid \in {"", medium}
  /\ pc \in {"load", "apply", "apply_user", "bootz"} => rootdev.on = medium

\* A loop is applying the last of names: while no overlay has failed, the tree has
\* those of them that were dealt with and had a file.
Applying(names) ==
  /\ ToSet(todo) \subseteq names
  /\ ~overlay_error =>
       /\ fdt.magic /\ fdt.applied \subseteq names
       /\ names \subseteq fdt.applied \cup missing \cup ToSet(todo)

TreeInv ==
  /\ pc \in {"filter", "load"} => ~overlay_error
  /\ pc = "apply" => Applying(ToSet(overlays))
  /\ pc = "apply_user" => Applying(ToSet(overlays) \cup ToSet(user_overlays))
  /\ WholeOrOriginal

\* An earlier attempt has left a list that its medium calls for.
LastInv ==
  last.medium # "" => Wanted(last.medium, last.overlays) = last.overlays

IInv ==
  /\ TypeOK
  /\ pc = "filter" => FilterInv
  /\ pc = "load" => overlays = Full(medium, input)
  /\ CorrectedList
  /\ RootInv
  /\ "dtb" \notin Faults => TreeInv
  /\ LastInv
=============================================================================
