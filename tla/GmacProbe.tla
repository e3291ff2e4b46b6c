----------------------------- MODULE GmacProbe -----------------------------
(***************************************************************************)
(* The shipped rule for the MAC of eth0 (tools/archive/v24.4c-kernel.sh):  *)
(* while the vendor storage is not ready rk_gmac_probe defers and drives   *)
(* its own retries with a delayed work, until a deadline.                  *)
(***************************************************************************)
EXTENDS DeferredProbe

CONSTANTS
  Deadline,  \* 30 s after the first deferral
  Slack,     \* the work keeps itself going 2 s longer
  Retry      \* the delay of the work, 2 s

ASSUME DeadlineAssumption ==
  Deadline \in Nat /\ Slack \in Nat /\ Retry \in Nat \ {0}

VARIABLES
  first,    \* rk_gmac_first_defer_jif, -1 while it is not set
  work,     \* when rk_gmac_vendor_reprobe is due, -1 while it is not pending
  running   \* rk_gmac_vendor_reprobe_fn is past its device_attach

vars == <<coreVars, first, work, running>>

None == -1

Init == InitCore /\ first = None /\ work = None /\ running = FALSE

-----------------------------------------------------------------------------
\* schedule_delayed_work: a work that is pending stays as it is.
Scheduled == IF work = None THEN now + Retry ELSE work

\* Mutant of FirstDefer: every deferral starts the deadline anew.
LastDefer == now

\* rk_gmac_first_defer_jif is set once.
FirstDefer == IF first = None THEN now ELSE first

\* Mutant of PastDeadline: the deadline of the driver core is used.
PastFreeze(d) == FirstDefer + Freeze < now

\* time_is_before_jiffies(rk_gmac_first_defer_jif + d)
PastDeadline(d) == FirstDefer + d < now

\* The outcomes of rk_gmac_probe on the deferred-probe thread: the MAC is
\* known or can be read; the deadline is over; the probe is put off.
probe_binds ==
  /\ AtGmac
  /\ ~NeedsVendor
  /\ GmacBinds(Mac)
  /\ UNCHANGED <<first, work, running>>

probe_random ==
  /\ AtGmac
  /\ NeedsVendor
  /\ PastDeadline(Deadline)
  /\ GmacBinds("random")
  /\ work' = None
  /\ UNCHANGED <<first, running>>

\* Mutant of probe_defers: the retry is left to the driver core.
DefersToCore ==
  /\ AtGmac
  /\ NeedsVendor
  /\ ~PastDeadline(Deadline)
  /\ first' = FirstDefer
  /\ GmacDefers
  /\ UNCHANGED <<work, running>>

\* Mutant of probe_defers: the probe waits for the vendor storage on the thread.
WaitsInProbe ==
  /\ AtGmac
  /\ NeedsVendor
  /\ ~PastDeadline(Deadline)
  /\ first' = FirstDefer
  /\ work' = Scheduled
  /\ UNCHANGED <<coreVars, running>>

probe_defers ==
  /\ AtGmac
  /\ NeedsVendor
  /\ ~PastDeadline(Deadline)
  /\ first' = FirstDefer
  /\ work' = Scheduled
  /\ GmacDefers
  /\ UNCHANGED running

\* rk_gmac_vendor_reprobe_fn starts: its device_attach finds the device bound,
\* or runs the same probe.
Due == work # None /\ work <= now /\ ~running

attach_binds ==
  /\ Due
  /\ running' = TRUE
  /\ \/ eth # "none" /\ UNCHANGED <<eth, deferred>>
     \/ eth = "none" /\ ~NeedsVendor /\ eth' = Mac /\ deferred' = {}
     \/ /\ eth = "none" /\ NeedsVendor /\ PastDeadline(Deadline)
        /\ eth' = "random" /\ deferred' = {}
  /\ work' = None
  /\ UNCHANGED <<box, now, active, worker, until, nand, others, first>>

attach_defers ==
  /\ Due
  /\ eth = "none" /\ NeedsVendor /\ ~PastDeadline(Deadline)
  /\ running' = TRUE
  /\ work' = now + Retry
  /\ deferred' = IF \E i \in DOMAIN active : active[i] = "gmac"
                 THEN deferred ELSE {"gmac"}
  /\ UNCHANGED <<box, now, active, worker, until, nand, others, eth, first>>

\* Mutant of reprobe_again: the work keeps itself going while there is no vendor.
ReprobeForever ==
  /\ running
  /\ running' = FALSE
  /\ work' = IF ~is_rk_vendor_ready THEN Scheduled ELSE work
  /\ UNCHANGED <<coreVars, first>>

\* The end of rk_gmac_vendor_reprobe_fn.
reprobe_again ==
  /\ running
  /\ running' = FALSE
  /\ work' = IF ~is_rk_vendor_ready /\ ~PastDeadline(Deadline + Slack)
             THEN Scheduled ELSE work
  /\ UNCHANGED <<coreVars, first>>

core == CoreNext /\ UNCHANGED <<first, work, running>>

clock == tick /\ ~Due /\ ~running /\ UNCHANGED <<first, work, running>>

Next ==
  \/ core \/ probe_binds \/ probe_random \/ probe_defers \/ attach_binds \/ attach_defers
  \/ reprobe_again \/ clock

\* The threads and the clock go on; other drivers need not bind.
Fairness ==
  /\ WF_vars((nand_probe \/ nand_bound \/ skip_bound) /\ UNCHANGED <<first, work, running>>)
  /\ WF_vars(probe_binds \/ probe_random \/ probe_defers)
  /\ WF_vars(attach_binds \/ attach_defers)
  /\ WF_vars(reprobe_again)
  /\ WF_vars(clock)

Spec == Init /\ [][Next]_vars /\ Fairness

-----------------------------------------------------------------------------
\* The first deferral lies in the past, and the next retry is never further
\* away than the delay of the work.
TypeOK ==
  /\ TypeOKCore
  /\ first \in -1 .. now /\ work \in -1 .. now + Retry
  /\ running \in BOOLEAN

\* "the only correct posture is to YIELD": a box with a stored MAC never comes
\* up with a random one, whatever the order of probes and retries, if the probe
\* of rk_nand takes no longer than the deadline.
HealthyGetsStored ==
  box.vendor = "mac" /\ box.time <= Deadline => eth # "random"

\* No retry is lost: while gmac has deferred and is not bound the work is
\* pending, whoever probed last.
RetryPending == first # None /\ eth = "none" => work # None

\* Until rk_nand is bound it is next in the queue or being probed, and the
\* thread got to it at the first instant.
NandIsNext ==
  /\ now <= box.time
  /\ worker = "idle" => now = 0
  /\ worker = "nand" => until = box.time /\ active # <<"gmac", "nand">>
  /\ active \in {<<"gmac", "nand">>, <<"nand">>, <<"nand", "gmac">>}
  /\ active = <<"gmac", "nand">> => first = None /\ deferred = {}

\* The inductive invariant behind RetryPending and HealthyGetsStored: gmac,
\* which yields at once, never keeps rk_nand waiting, so a vendor area that is
\* still not ready after the deadline belongs to a slow or a dead rk_nand.
IInv ==
  /\ TypeOK
  /\ RetryPending
  /\ HealthyGetsStored
  /\ work # None \/ running => first # None
  /\ worker # "gmac"
  /\ worker = "nand" => nand = "unbound"
  /\ nand = "unbound" => NandIsNext
  /\ nand # "unbound" => /\ active \in {<<>>, <<"gmac">>}
                         /\ nand = "dead" => box.vendor = "dead"
  /\ active \in {<<"gmac">>, <<"nand", "gmac">>} => deferred = {}

\* The interface comes up on every box, with a dead vendor area too.
EthEventually == <>(eth # "none")

\* The retries come to an end.
Quiesces == <>[](work = None /\ ~running)
=============================================================================
