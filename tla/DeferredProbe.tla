--------------------------- MODULE DeferredProbe ---------------------------
(***************************************************************************)
(* The surroundings of rk_gmac_probe at boot, as the patches of            *)
(* dwmac-rk.c rely on them: the deferred-probe thread of the driver core   *)
(* (one thread, one queue, no retries after its timeout), the rk_nand      *)
(* driver behind gmac in that queue, whose probe ends with the vendor      *)
(* storage ready or dead, and the clock.                                   *)
(*                                                                         *)
(* Time passes in units of two seconds.  What is due at an instant happens *)
(* before the clock moves (Urgent); everything that happens at an instant  *)
(* happens in any order.                                                   *)
(***************************************************************************)
EXTENDS Integers, Sequences

CONSTANTS
  Freeze,     \* driver_deferred_probe_timeout, about 15 s
  Vendors,    \* vendor areas: "mac" (a MAC is stored), "empty", "dead"
  NandTimes,  \* how long the probe of rk_nand may take
  MaxTime     \* bound: the clock stops here

ASSUME ProbeAssumption ==
  /\ Freeze \in Nat /\ MaxTime \in Nat
  /\ Vendors \subseteq {"mac", "empty", "dead"}
  /\ NandTimes \subseteq Nat

VARIABLES
  box,       \* the machine: DT MAC, vendor area, length of the rk_nand probe
  now,
  active,    \* the queue of the deferred-probe thread
  deferred,  \* devices whose probe returned -EPROBE_DEFER
  worker,    \* the device the thread is probing, or "idle"
  until,     \* when the probe the thread is in will have waited long enough
  nand,      \* "unbound", "ok" (vendor storage ready) or "dead"
  others,    \* other drivers that may still bind at this instant
  eth        \* the MAC of the interface, "none" while gmac is not bound

coreVars == <<box, now, active, deferred, worker, until, nand, others, eth>>

Boxes == [dt : BOOLEAN, vendor : Vendors, time : NandTimes]

InitCore ==
  /\ box \in Boxes
  /\ now = 0
  /\ active = <<"gmac", "nand">> /\ deferred = {}
  /\ worker = "idle" /\ until = 0
  /\ nand = "unbound"
  /\ others = TRUE
  /\ eth = "none"

\* What is_rk_vendor_ready() answers.
is_rk_vendor_ready == nand = "ok"

\* The probe goes on without a MAC from the DT and without vendor storage.
NeedsVendor == ~box.dt /\ ~is_rk_vendor_ready

\* The MAC that the rest of the probe ends up with.
Mac ==
  IF box.dt THEN "dt"
  ELSE IF is_rk_vendor_ready /\ box.vendor = "mac" THEN "stored" ELSE "random"

\* driver_deferred_probe_trigger: a driver was bound, the deferred go again.
Trigger ==
  IF now < Freeze /\ "gmac" \in deferred
  THEN active' = Append(Tail(active), "gmac") /\ deferred' = {}
  ELSE active' = Tail(active) /\ UNCHANGED deferred

\* Some other driver binds: at most one at an instant.
other_bound ==
  /\ others
  /\ others' = FALSE
  /\ now < Freeze
  /\ "gmac" \in deferred
  /\ active' = Append(active, "gmac") /\ deferred' = {}
  /\ UNCHANGED <<box, now, worker, until, nand, eth>>

nand_probe ==
  /\ worker = "idle" /\ active # <<>> /\ Head(active) = "nand"
  /\ worker' = "nand" /\ until' = now + box.time
  /\ UNCHANGED <<box, now, active, deferred, nand, others, eth>>

\* rk_ftl_vendor_storage_init has returned; rk_nand is bound either way.
nand_bound ==
  /\ worker = "nand" /\ until <= now
  /\ nand' = IF box.vendor = "dead" THEN "dead" ELSE "ok"
  /\ worker' = "idle"
  /\ Trigger
  /\ UNCHANGED <<box, now, until, others, eth>>

\* The thread finds gmac bound already.
skip_bound ==
  /\ worker = "idle" /\ active # <<>> /\ Head(active) = "gmac"
  /\ eth # "none"
  /\ active' = Tail(active)
  /\ UNCHANGED <<box, now, deferred, worker, until, nand, others, eth>>

\* The thread is at the probe of gmac.
AtGmac ==
  /\ worker = "idle" /\ active # <<>> /\ Head(active) = "gmac"
  /\ eth = "none"

\* ... which returns 0, or -EPROBE_DEFER.
GmacBinds(mac) ==
  /\ eth' = mac
  /\ active' = Tail(active)
  /\ UNCHANGED <<box, now, deferred, worker, until, nand, others>>

GmacDefers ==
  /\ active' = Tail(active)
  /\ deferred' = deferred \cup {"gmac"}
  /\ UNCHANGED <<box, now, worker, until, nand, others, eth>>

Urgent ==
  \/ worker = "idle" /\ active # <<>>
  \/ worker # "idle" /\ until <= now

tick ==
  /\ ~Urgent
  /\ now < MaxTime
  /\ now' = now + 1
  /\ others' = TRUE
  /\ UNCHANGED <<box, active, deferred, worker, until, nand, eth>>

CoreNext == other_bound \/ nand_probe \/ nand_bound \/ skip_bound

TypeOKCore ==
  /\ box \in Boxes
  /\ now \in 0 .. MaxTime
  /\ deferred \subseteq {"gmac"}
  /\ worker \in {"idle", "nand", "gmac"} /\ until \in Nat
  /\ nand \in {"unbound", "ok", "dead"}
  /\ others \in BOOLEAN
  /\ eth \in {"none", "dt", "stored", "random"}
=============================================================================
