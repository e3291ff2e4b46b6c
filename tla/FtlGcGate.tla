----------------------------- MODULE FtlGcGate -----------------------------
(***************************************************************************)
(* The users of the FTL blob of rk_nand at boot and the patch that is to   *)
(* keep them apart (tools/patches/v16-gc-restore.py, the flag              *)
(* v16_ftl_ready).  Block requests and the background garbage collection   *)
(* take g_rk_nand_ops_mutex around the blob; the vendor-storage init,      *)
(* called from nand_blk_register after the collector thread was started,   *)
(* does not.  The blob is not re-entrant: a call that meets the init in it *)
(* may never return, and then keeps the mutex (v12-patch.py 5-8).          *)
(***************************************************************************)
EXTENDS Integers

CONSTANT Requests   \* block requests, each served any number of times

VARIABLES
  rk_ftl_gc_do, v16_ftl_ready,
  init,   \* nand_blk_register: where the registering thread is
  gc,     \* nand_gc_thread
  rq,     \* block requests
  mutex,  \* g_rk_nand_ops_mutex: its holder, or "free"
  hung    \* the holder's call of the blob never returns

vars == <<rk_ftl_gc_do, v16_ftl_ready, init, gc, rq, mutex, hung>>

Init ==
  /\ rk_ftl_gc_do = FALSE /\ v16_ftl_ready = FALSE
  /\ init = "register" /\ gc = "none"
  /\ rq = [r \in Requests |-> "idle"]
  /\ mutex = "free" /\ hung = FALSE

\* kthread_run(nand_gc_thread): armed from the start, as the vendor has it.
start_gc_thread ==
  /\ init = "register"
  /\ init' = "started"
  /\ gc' = "idle"
  /\ rk_ftl_gc_do' = TRUE
  /\ UNCHANGED <<v16_ftl_ready, rq, mutex, hung>>

\* Mutant of release_gate: the gate stays closed.
KeepGate ==
  /\ init = "started"
  /\ init' = "blob"
  /\ UNCHANGED <<v16_ftl_ready, rk_ftl_gc_do, gc, rq, mutex, hung>>

\* v16_ftl_ready = true; ret = rk_ftl_vendor_storage_init();
release_gate ==
  /\ init = "started"
  /\ v16_ftl_ready' = TRUE
  /\ init' = "blob"
  /\ UNCHANGED <<rk_ftl_gc_do, gc, rq, mutex, hung>>

\* rk_ftl_vendor_storage_init returns, with or without a vendor area.
init_returns ==
  /\ init = "blob"
  /\ init' = "done"
  /\ UNCHANGED <<rk_ftl_gc_do, v16_ftl_ready, gc, rq, mutex, hung>>

\* Mutant of GcMayRun: without the gate, as the vendor has it.
Ungated == rk_ftl_gc_do

\* if (rk_ftl_gc_do && v16_ftl_ready)
GcMayRun == rk_ftl_gc_do /\ v16_ftl_ready

gc_lock ==
  /\ gc = "idle" /\ GcMayRun /\ mutex = "free"
  /\ mutex' = "gc" /\ gc' = "blob"
  /\ UNCHANGED <<rk_ftl_gc_do, v16_ftl_ready, init, rq, hung>>

\* rk_ftl_garbage_collect returns; when nothing is left the thread rests.
gc_unlock ==
  /\ gc = "blob" /\ ~hung
  /\ gc' = "idle" /\ mutex' = "free"
  /\ \E more \in BOOLEAN : rk_ftl_gc_do' = (rk_ftl_gc_do /\ more)
  /\ UNCHANGED <<v16_ftl_ready, init, rq, hung>>

\* A request reaches the driver once the disk is registered.
queue_rq(r) ==
  /\ init # "register"
  /\ rq[r] = "idle"
  /\ rq' = [rq EXCEPT ![r] = "queued"]
  /\ UNCHANGED <<rk_ftl_gc_do, v16_ftl_ready, init, gc, mutex, hung>>

rq_lock(r) ==
  /\ rq[r] = "queued" /\ mutex = "free"
  /\ mutex' = "rq" /\ rq' = [rq EXCEPT ![r] = "blob"]
  /\ UNCHANGED <<rk_ftl_gc_do, v16_ftl_ready, init, gc, hung>>

\* The request is done; the collector is armed again and woken up.
rq_done(r) ==
  /\ rq[r] = "blob" /\ ~hung
  /\ mutex' = "free" /\ rq' = [rq EXCEPT ![r] = "idle"]
  /\ rk_ftl_gc_do' = TRUE
  /\ UNCHANGED <<v16_ftl_ready, init, gc, hung>>

\* The holder of the mutex meets the vendor-storage init in the blob, and its call is
\* lost.  The init returned all the same on the box (FLASH-GUIDE.md 501-502).
blob_hangs ==
  /\ init = "blob" /\ mutex # "free"
  /\ ~hung
  /\ hung' = TRUE
  /\ UNCHANGED <<rk_ftl_gc_do, v16_ftl_ready, init, gc, rq, mutex>>

Next ==
  \/ start_gc_thread \/ release_gate \/ init_returns
  \/ gc_lock \/ gc_unlock \/ blob_hangs
  \/ \E r \in Requests : queue_rq(r) \/ rq_lock(r) \/ rq_done(r)

\* The threads run, and a call of the blob returns unless it is lost to the init.  A
\* waiter gets a mutex that stays free; between waiters nothing is promised.
Fairness ==
  /\ WF_vars(start_gc_thread) /\ WF_vars(release_gate) /\ WF_vars(init_returns)
  /\ WF_vars(gc_lock) /\ WF_vars(gc_unlock)
  /\ \A r \in Requests : WF_vars(rq_lock(r)) /\ WF_vars(rq_done(r))

Spec == Init /\ [][Next]_vars /\ Fairness

-----------------------------------------------------------------------------
\* "gated so it can NEVER race the vendor-storage init": the collector thread is
\* not in the blob while rk_ftl_vendor_storage_init is.
NoGcDuringInit == ~(gc = "blob" /\ init = "blob")

\* What the gate does achieve: the collector is out of the blob until the registering
\* thread calls the vendor-storage init, and it is never there beside a request, nor
\* are two requests, whenever they come.
GateHolds ==
  /\ gc = "blob" => init \in {"blob", "done"} /\ \A r \in Requests : rq[r] # "blob"
  /\ \A r, s \in Requests : rq[r] = "blob" /\ rq[s] = "blob" => r = s

\* The inductive invariant behind it: the mutex is held by whoever is in the blob, the
\* gate is open from the call of the init on, and a lost call keeps the mutex.
GateInv ==
  /\ rq \in [Requests -> {"idle", "queued", "blob"}]
  /\ mutex \in {"free", "gc", "rq"}
  /\ gc = "blob" <=> mutex = "gc"
  /\ (\E r \in Requests : rq[r] = "blob") <=> mutex = "rq"
  /\ v16_ftl_ready \in BOOLEAN
  /\ v16_ftl_ready <=> init \in {"blob", "done"}
  /\ gc = "blob" => v16_ftl_ready
  /\ hung \in BOOLEAN
  /\ hung => v16_ftl_ready /\ mutex # "free"
  /\ GateHolds

Idle == \A r \in Requests : rq[r] = "idle"

\* "restore vendor background GC": when the disk falls idle, what requests have armed is
\* collected, if no call of the blob was lost to the race that NoGcDuringInit is about.
Collects == []~hung /\ <>[]Idle => (rk_ftl_gc_do ~> gc = "blob")

\* Every request is served.  It does not hold: a lost call keeps the mutex, "every read
\* blocks forever" (FLASH-GUIDE.md 503).
Served == \A r \in Requests : rq[r] = "queued" ~> rq[r] = "idle"
=============================================================================
