---------------------------- MODULE AtomicStore ----------------------------
(***************************************************************************)
(* What the users of the vendor storage rely on: an item store of which a  *)
(* restart sees the contents either before or after a write, never a       *)
(* mixture, and sees every write that was acknowledged.                    *)
(***************************************************************************)
CONSTANTS Ids, Vals, None

VARIABLES
  mem,    \* the contents that reads are answered from
  disk,   \* the contents that a restart would find
  up,     \* the store has been started
  busy,   \* a write has not returned yet
  acked   \* the contents of the last acknowledged write

vars == <<mem, disk, up, busy, acked>>

Nothing == [id \in Ids |-> None]

Init ==
  /\ mem = Nothing
  /\ disk = Nothing
  /\ up = FALSE
  /\ busy = FALSE
  /\ acked = Nothing

Start ==
  /\ ~up
  /\ up' = TRUE
  /\ mem' = disk
  /\ UNCHANGED <<disk, busy, acked>>

Put(id, v) ==
  /\ up /\ ~busy
  /\ busy' = TRUE
  /\ mem' = [mem EXCEPT ![id] = v]
  /\ UNCHANGED <<disk, up, acked>>

\* The instant at which the write becomes durable, all of it at once.
Persist ==
  /\ busy
  /\ disk' = mem
  /\ UNCHANGED <<mem, up, busy, acked>>

\* Success is reported only for what a restart would find.
Ack ==
  /\ busy
  /\ disk = mem
  /\ busy' = FALSE
  /\ acked' = mem
  /\ UNCHANGED <<mem, disk, up>>

Fail ==
  /\ busy
  /\ busy' = FALSE
  /\ UNCHANGED <<mem, disk, up, acked>>

Crash ==
  /\ up
  /\ up' = FALSE
  /\ busy' = FALSE
  /\ mem' = Nothing
  /\ UNCHANGED <<disk, acked>>

Next ==
  \/ Start
  \/ \E id \in Ids, v \in Vals : Put(id, v)
  \/ Persist
  \/ Ack
  \/ Fail
  \/ Crash

Spec == Init /\ [][Next]_vars
=============================================================================
