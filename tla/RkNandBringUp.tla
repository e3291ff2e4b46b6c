--------------------------- MODULE RkNandBringUp ---------------------------
(***************************************************************************)
(* GmacProbe and FtlGcGate at work together.  To the rule for the MAC the  *)
(* probe of rk_nand is one wait that ends with the vendor storage ready or *)
(* dead; to the patch of the garbage collection it is the steps of         *)
(* nand_blk_register, with the collector thread and the first block        *)
(* requests beside them.  Here the deferred-probe thread takes these steps *)
(* in the probe; rk_nand is bound when the vendor-storage init returns.    *)
(***************************************************************************)
EXTENDS GmacProbe

CONSTANT Requests

VARIABLES rk_ftl_gc_do, v16_ftl_ready, init, gc, rq, mutex, hung

Ftl == INSTANCE FtlGcGate

gmacVars == vars
ftlVars == <<rk_ftl_gc_do, v16_ftl_ready, init, gc, rq, mutex, hung>>
sysVars == <<gmacVars, ftlVars>>

SysInit == Init /\ Ftl!Init

-----------------------------------------------------------------------------
\* nand_blk_register runs on the deferred-probe thread, in the probe of rk_nand.
registering ==
  /\ worker = "nand"
  /\ Ftl!start_gc_thread \/ Ftl!release_gate
  /\ UNCHANGED gmacVars

\* The end of the probe is the return of rk_ftl_vendor_storage_init.
nand_ready ==
  /\ nand_bound /\ UNCHANGED <<first, work, running>>
  /\ Ftl!init_returns

\* The collector thread and the block requests.
ftl_users ==
  /\ \/ Ftl!gc_lock \/ Ftl!gc_unlock \/ Ftl!blob_hangs
     \/ \E r \in Requests : Ftl!queue_rq(r) \/ Ftl!rq_lock(r) \/ Ftl!rq_done(r)
  /\ UNCHANGED gmacVars

probes ==
  /\ \/ (other_bound \/ nand_probe \/ skip_bound) /\ UNCHANGED <<first, work, running>>
     \/ probe_binds \/ probe_random \/ probe_defers
     \/ attach_binds \/ attach_defers \/ reprobe_again \/ clock
  /\ UNCHANGED ftlVars

SysNext == registering \/ nand_ready \/ ftl_users \/ probes

\* The fairness of the two components: threads and clock go on, a call of the blob
\* returns unless it is lost, and a waiter gets a mutex that stays free.  Other drivers
\* need not bind, and requests need not come.
SysFairness ==
  /\ WF_sysVars((nand_probe \/ skip_bound) /\ UNCHANGED <<first, work, running, ftlVars>>)
  /\ WF_sysVars((probe_binds \/ probe_random \/ probe_defers) /\ UNCHANGED ftlVars)
  /\ WF_sysVars((attach_binds \/ attach_defers) /\ UNCHANGED ftlVars)
  /\ WF_sysVars(reprobe_again /\ UNCHANGED ftlVars)
  /\ WF_sysVars(clock /\ UNCHANGED ftlVars)
  /\ WF_sysVars(registering) /\ WF_sysVars(nand_ready)
  /\ WF_sysVars(Ftl!gc_lock /\ UNCHANGED gmacVars)
  /\ WF_sysVars(Ftl!gc_unlock /\ UNCHANGED gmacVars)
  /\ \A r \in Requests : /\ WF_sysVars(Ftl!rq_lock(r) /\ UNCHANGED gmacVars)
                         /\ WF_sysVars(Ftl!rq_done(r) /\ UNCHANGED gmacVars)

SysSpec == SysInit /\ [][SysNext]_sysVars /\ SysFairness

-----------------------------------------------------------------------------
\* Until nand_blk_register calls the vendor-storage init, in the probe of rk_nand, the
\* collector is out of the blob; it is never there beside a request
\* (v16-gc-restore.py 59-66).
GateHolds == Ftl!GateHolds

\* The inductive invariant of both components, and what ties them: rk_nand is bound
\* exactly when the vendor-storage init has returned.
SysInv ==
  /\ IInv
  /\ Ftl!GateInv
  /\ nand # "unbound" <=> init = "done"

\* "restore vendor background GC": when the disk falls idle, what requests have armed is
\* collected, on boxes whose vendor area is dead too, if no call of the blob was lost.
Collects == Ftl!Collects

\* The collector gets to run on every box whose disk falls idle.  Its gate is opened in
\* the probe of rk_nand, so this rests on rk_gmac_probe leaving the one deferred-probe
\* thread that both devices need.
FirstCollection == <>[]Ftl!Idle => <>(gc = "blob")
=============================================================================
