-------------------------- MODULE GmacProbeProofs --------------------------
(***************************************************************************)
(* RetryPending and HealthyGetsStored for every timeout, deadline, delay   *)
(* and length of the rk_nand probe, of the rule alone and of the rule at   *)
(* work beside the garbage collector of rk_nand.                           *)
(***************************************************************************)
EXTENDS RkNandBringUp, SequenceTheorems, TLAPS

\* The one queue that grows while rk_nand is in it.
LEMMA AppendGmac == Append(<<"nand">>, "gmac") = <<"nand", "gmac">>
PROOF
  <1> DEFINE s == <<"nand">>
             t == Append(s, "gmac")
             S == {"nand", "gmac"}
  <1>1. s \in Seq(S) /\ "gmac" \in S /\ Len(s) = 1 /\ s[1] = "nand"
    OBVIOUS
  <1>2. /\ t \in Seq(S) /\ Len(t) = Len(s) + 1
        /\ \A i \in 1 .. Len(s) : t[i] = s[i]
        /\ t[Len(s) + 1] = "gmac"
    <2> HIDE DEF s
    <2> QED
      BY <1>1, AppendProperties, ZenonT(30)
  <1> HIDE DEF s, t
  <1>3. t \in Seq(S) /\ Len(t) = 2 /\ t[1] = "nand" /\ t[2] = "gmac"
    BY <1>1, <1>2
  <1>4. t = <<"nand", "gmac">>
    BY <1>3
  <1> QED
    BY <1>4 DEF s, t

\* The queues that occur, taken apart.
LEMMA Queues ==
  /\ Head(<<"gmac", "nand">>) = "gmac" /\ Tail(<<"gmac", "nand">>) = <<"nand">>
  /\ Head(<<"nand">>) = "nand" /\ Tail(<<"nand">>) = <<>>
  /\ Head(<<"gmac">>) = "gmac" /\ Tail(<<"gmac">>) = <<>>
  /\ Head(<<"nand", "gmac">>) = "nand" /\ Tail(<<"nand", "gmac">>) = <<"gmac">>
  /\ Append(<<>>, "gmac") = <<"gmac">>
  /\ <<>> # <<"gmac">> /\ <<>> # <<"nand", "gmac">>
  /\ <<"nand">> # <<"gmac">> /\ <<"nand">> # <<"nand", "gmac">>
  /\ <<"gmac", "nand">> # <<"nand">> /\ <<"gmac", "nand">> # <<"nand", "gmac">>
  /\ <<"gmac">> # <<"gmac", "nand">> /\ <<"gmac">> # <<"nand", "gmac">>
PROOF
  <1>1. Head(<<"gmac", "nand">>) = "gmac" /\ Tail(<<"gmac", "nand">>) = <<"nand">>
    OBVIOUS
  <1>2. Head(<<"nand">>) = "nand" /\ Tail(<<"nand">>) = <<>>
    OBVIOUS
  <1>3. Head(<<"gmac">>) = "gmac" /\ Tail(<<"gmac">>) = <<>>
    OBVIOUS
  <1>4. Head(<<"nand", "gmac">>) = "nand" /\ Tail(<<"nand", "gmac">>) = <<"gmac">>
    OBVIOUS
  <1>5. Append(<<>>, "gmac") = <<"gmac">>
    OBVIOUS
  <1>6. <<>> # <<"gmac">> /\ <<>> # <<"nand", "gmac">>
    OBVIOUS
  <1>7. <<"nand">> # <<"gmac">> /\ <<"nand">> # <<"nand", "gmac">>
    OBVIOUS
  <1>8. <<"gmac", "nand">> # <<"nand">> /\ <<"gmac", "nand">> # <<"nand", "gmac">>
    OBVIOUS
  <1>9. <<"gmac">> # <<"gmac", "nand">> /\ <<"gmac">> # <<"nand", "gmac">>
    OBVIOUS
  <1> QED
    BY <1>1, <1>2, <1>3, <1>4, <1>5, <1>6, <1>7, <1>8, <1>9

\* The kernel starts with both drivers queued: the invariant holds.
LEMMA Inits == Init => IInv
PROOF
  <1> SUFFICES ASSUME Init PROVE IInv
    OBVIOUS
  <1> USE ProbeAssumption, DeadlineAssumption DEF Init, InitCore, None
  <1>0. others \in BOOLEAN /\ running \in BOOLEAN
    OBVIOUS
  <1>1. TypeOK
    BY <1>0 DEF TypeOK, TypeOKCore
  <1>2. box.time \in Nat
    BY DEF Boxes
  <1>3. active \notin {<<"gmac">>, <<"nand", "gmac">>}
    OBVIOUS
  <1> QED
    BY <1>1, <1>2, <1>3 DEF IInv, RetryPending, HealthyGetsStored, NandIsNext

\* The numbers, as the provers need them.
LEMMA Numbers ==
  ASSUME IInv
  PROVE  /\ now \in Nat /\ box.time \in Nat /\ until \in Nat
         /\ first \in Int /\ (first = -1 \/ first >= 0) /\ first <= now
         /\ work \in Int /\ (work = -1 \/ work >= 0) /\ work <= now + Retry
PROOF
  <1> USE ProbeAssumption, DeadlineAssumption DEF IInv, TypeOK, TypeOKCore
  <1>1. box \in Boxes
    OBVIOUS
  <1>2. box.time \in Nat
    BY <1>1 DEF Boxes
  <1>3. now \in Nat /\ until \in Nat
    OBVIOUS
  <1>4. first \in -1 .. now /\ work \in -1 .. now + Retry
    OBVIOUS
  <1> QED
    BY <1>2, <1>3, <1>4

\* rk_nand is bound: the queue behind it is what is left.
LEMMA NandBound ==
  ASSUME IInv, nand_bound, UNCHANGED <<first, work, running>>
  PROVE  IInv'
PROOF
  <1> USE ProbeAssumption, DeadlineAssumption DEF None
  <1>1. nand = "unbound" /\ NandIsNext /\ worker' = "idle"
    BY DEF IInv, nand_bound
  <1>2. active \in {<<"nand">>, <<"nand", "gmac">>}
    BY <1>1 DEF NandIsNext, nand_bound
  <1>3. nand' \in {"ok", "dead"} /\ (nand' = "dead" => box.vendor = "dead")
    BY DEF nand_bound
  <1>4. /\ active' \in {<<>>, <<"gmac">>}
        /\ active' = <<"gmac">> => deferred' = {}
        /\ deferred' \subseteq {"gmac"}
    <2>0. deferred = {} \/ deferred = {"gmac"}
      BY DEF IInv, TypeOK, TypeOKCore
    <2>1. CASE active = <<"nand">>
      <3>1. Tail(active) = <<>>
        BY <2>1
      <3>2. Append(Tail(active), "gmac") = <<"gmac">>
        BY <3>1, Queues
      <3> QED
        BY <2>0, <3>1, <3>2, Queues DEF nand_bound, Trigger
    <2>2. CASE active = <<"nand", "gmac">>
      <3>1. deferred = {}
        BY <2>2 DEF IInv
      <3> QED
        BY <2>2, <3>1, Queues DEF nand_bound, Trigger
    <2> QED
      BY <1>2, <2>1, <2>2
  <1>5. TypeOK'
    BY <1>3, <1>4 DEF nand_bound, IInv, TypeOK, TypeOKCore
  <1>6. (RetryPending /\ HealthyGetsStored /\ (work # None \/ running => first # None))'
    BY DEF nand_bound, IInv, RetryPending, HealthyGetsStored
  <1> QED
    BY <1>1, <1>3, <1>4, <1>5, <1>6 DEF IInv, nand_bound

\* Another driver binds, and gmac is queued again behind rk_nand.
LEMMA OtherBound ==
  ASSUME IInv, other_bound, UNCHANGED <<first, work, running>>
  PROVE  IInv'
PROOF
  <1> USE ProbeAssumption, DeadlineAssumption DEF None
  <1>1. deferred = {"gmac"} /\ deferred' = {} /\ others' \in BOOLEAN
    BY DEF other_bound, IInv, TypeOK, TypeOKCore
  <1>2. TypeOK'
    BY <1>1 DEF other_bound, IInv, TypeOK, TypeOKCore
  <1>3. (RetryPending /\ HealthyGetsStored /\ (work # None \/ running => first # None))'
    BY DEF other_bound, IInv, RetryPending, HealthyGetsStored
  <1>4. CASE nand = "unbound"
    <2>1. active = <<"nand">>
      BY <1>1, <1>4 DEF IInv, NandIsNext
    <2>2. active' = <<"nand", "gmac">>
      BY <2>1, AppendGmac DEF other_bound
    <2>3. NandIsNext'
      BY <1>4, <2>2, Queues DEF other_bound, IInv, NandIsNext
    <2> QED
      BY <1>1, <1>2, <1>3, <1>4, <2>3 DEF other_bound, IInv
  <1>5. CASE nand # "unbound"
    <2>1. active = <<>>
      BY <1>1, <1>5 DEF IInv
    <2>2. active' = <<"gmac">>
      BY <2>1, Queues DEF other_bound
    <2> QED
      BY <1>1, <1>2, <1>3, <1>5, <2>2 DEF other_bound, IInv
  <1> QED
    BY <1>4, <1>5

\* The thread starts with rk_nand, at the first instant.
LEMMA NandProbe ==
  ASSUME IInv, nand_probe, UNCHANGED <<first, work, running>>
  PROVE  IInv'
PROOF
  <1> USE ProbeAssumption, DeadlineAssumption DEF None
  <1>1. nand = "unbound"
    <2>1. Head(active) = "nand" /\ active # <<>>
      BY DEF nand_probe
    <2>2. active # <<"gmac">>
      BY <2>1, Queues
    <2> QED
      BY <2>1, <2>2 DEF IInv
  <1>2. box.time \in Nat /\ now \in Nat
    BY Numbers
  <1>3. now = 0 /\ until' = box.time
    BY <1>1, <1>2 DEF nand_probe, IInv, NandIsNext
  <1>4. active # <<"gmac", "nand">>
    BY Queues DEF nand_probe
  <1>5. NandIsNext'
    BY <1>1, <1>3, <1>4 DEF nand_probe, IInv, NandIsNext
  <1>6. TypeOK'
    BY <1>2, <1>3 DEF nand_probe, IInv, TypeOK, TypeOKCore
  <1>7. (RetryPending /\ HealthyGetsStored)'
    BY DEF nand_probe, IInv, RetryPending, HealthyGetsStored
  <1> QED
    BY <1>1, <1>5, <1>6, <1>7 DEF nand_probe, IInv

\* The thread drops gmac, which is bound.
LEMMA SkipBound ==
  ASSUME IInv, skip_bound, UNCHANGED <<first, work, running>>
  PROVE  IInv'
PROOF
  <1> USE ProbeAssumption, DeadlineAssumption DEF None
  <1>1. TypeOK'
    BY DEF skip_bound, IInv, TypeOK, TypeOKCore
  <1>2. (RetryPending /\ HealthyGetsStored)'
    BY DEF skip_bound, IInv, RetryPending, HealthyGetsStored
  <1>3. CASE nand = "unbound"
    <2>1. active = <<"gmac", "nand">> /\ active' = <<"nand">>
      BY <1>3, Queues DEF skip_bound, IInv, NandIsNext
    <2>2. NandIsNext'
      BY <1>3, <2>1, Queues DEF skip_bound, IInv, NandIsNext
    <2> QED
      BY <1>1, <1>2, <1>3, <2>1, <2>2, Queues DEF skip_bound, IInv
  <1>4. CASE nand # "unbound"
    <2>1. active' = <<>>
      BY <1>4, Queues DEF skip_bound, IInv
    <2> QED
      BY <1>1, <1>2, <1>4, <2>1, Queues DEF skip_bound, IInv
  <1> QED
    BY <1>3, <1>4

\* The thread takes gmac off the head of the queue, wherever the probe leads.
LEMMA HeadGmac ==
  ASSUME IInv, AtGmac, active' = Tail(active),
         UNCHANGED <<box, now, worker, until, nand>>
  PROVE  /\ nand = "unbound" => /\ active = <<"gmac", "nand">>
                                /\ active' = <<"nand">>
                                /\ deferred = {} /\ first = None
         /\ nand # "unbound" => active' = <<>>
         /\ active' \notin {<<"gmac">>, <<"nand", "gmac">>, <<"gmac", "nand">>}
PROOF
  <1>1. CASE nand = "unbound"
    BY <1>1, Queues DEF AtGmac, IInv, NandIsNext
  <1>2. CASE nand # "unbound"
    <2>1. active = <<"gmac">>
      BY <1>2 DEF AtGmac, IInv
    <2>2. active' = <<>> /\ <<>> # <<"gmac", "nand">>
      BY <2>1, Queues
    <2> QED
      BY <1>2, <2>2, Queues
  <1> QED
    BY <1>1, <1>2

\* A box with a stored MAC and a quick rk_nand is never past the deadline with
\* its vendor storage not ready.
LEMMA InTime ==
  ASSUME IInv, NeedsVendor, PastDeadline(Deadline)
  PROVE  ~(box.vendor = "mac" /\ box.time <= Deadline)
PROOF
  <1> USE ProbeAssumption, DeadlineAssumption DEF None
  <1> SUFFICES ASSUME box.vendor = "mac", box.time <= Deadline PROVE FALSE
    OBVIOUS
  <1>1. nand = "unbound"
    BY DEF NeedsVendor, is_rk_vendor_ready, IInv, TypeOK, TypeOKCore
  <1>2. now <= box.time
    BY <1>1 DEF IInv, NandIsNext
  <1>3. /\ now \in Nat /\ box.time \in Nat /\ first \in Int
        /\ first = -1 \/ first >= 0
    BY Numbers
  <1>4. FirstDefer >= 0 /\ FirstDefer \in Int
    BY <1>3 DEF FirstDefer
  <1> QED
    BY <1>2, <1>3, <1>4 DEF PastDeadline

\* A probe of gmac that finds an address keeps the invariant.
LEMMA ProbeBinds ==
  ASSUME IInv, probe_binds PROVE IInv'
PROOF
  <1> USE ProbeAssumption, DeadlineAssumption DEF None
  <1> USE DEF probe_binds, GmacBinds
  <1>1. eth' \in {"dt", "stored", "random"}
    BY DEF Mac
  <1>2. TypeOK'
    BY <1>1 DEF IInv, TypeOK, TypeOKCore
  <1>3. HealthyGetsStored'
    BY DEF HealthyGetsStored, Mac, NeedsVendor
  <1>4. RetryPending'
    BY <1>1 DEF RetryPending
  <1>5. /\ nand = "unbound" => NandIsNext'
        /\ nand # "unbound" => active' \in {<<>>, <<"gmac">>}
        /\ active' \notin {<<"gmac">>, <<"nand", "gmac">>}
    BY HeadGmac DEF IInv, NandIsNext, AtGmac
  <1> QED
    BY <1>2, <1>3, <1>4, <1>5 DEF IInv

\* A probe of gmac past the deadline, which takes a random address, keeps it.
LEMMA ProbeRandom ==
  ASSUME IInv, probe_random PROVE IInv'
PROOF
  <1> USE ProbeAssumption, DeadlineAssumption DEF None
  <1> USE DEF probe_random, GmacBinds
  <1>1. TypeOK'
    BY DEF IInv, TypeOK, TypeOKCore
  <1>2. HealthyGetsStored' /\ RetryPending'
    BY InTime DEF HealthyGetsStored, RetryPending
  <1>3. /\ nand = "unbound" => NandIsNext'
        /\ nand # "unbound" => active' \in {<<>>, <<"gmac">>}
        /\ active' \notin {<<"gmac">>, <<"nand", "gmac">>}
    BY HeadGmac DEF IInv, NandIsNext, AtGmac
  <1> QED
    BY <1>1, <1>2, <1>3 DEF IInv

\* A probe of gmac that yields and schedules the retry keeps it.
LEMMA ProbeDefers ==
  ASSUME IInv, probe_defers PROVE IInv'
PROOF
  <1> USE ProbeAssumption, DeadlineAssumption DEF None
  <1> USE DEF probe_defers, GmacDefers
  <1>1. /\ first' \in 0 .. now /\ work' \in 0 .. now + Retry
        /\ now \in Nat
    BY DEF IInv, TypeOK, TypeOKCore, FirstDefer, Scheduled
  <1>2. TypeOK'
    BY <1>1 DEF IInv, TypeOK, TypeOKCore
  <1>3. HealthyGetsStored' /\ RetryPending' /\ first' # None
    BY <1>1 DEF IInv, HealthyGetsStored, RetryPending
  <1>4. /\ nand = "unbound" => NandIsNext'
        /\ nand # "unbound" => active' \in {<<>>, <<"gmac">>}
        /\ active' \notin {<<"gmac">>, <<"nand", "gmac">>}
    BY HeadGmac DEF IInv, NandIsNext, AtGmac
  <1> QED
    BY <1>2, <1>3, <1>4 DEF IInv

\* A retry that binds gmac through device_attach keeps it.
LEMMA AttachBinds ==
  ASSUME IInv, attach_binds PROVE IInv'
PROOF
  <1> USE ProbeAssumption, DeadlineAssumption DEF None
  <1>1. eth' \in {"dt", "stored", "random"} /\ deferred' \in {{}, deferred}
    BY DEF attach_binds, Mac, IInv, TypeOK, TypeOKCore
  <1>2. running' \in BOOLEAN /\ work' = None
    BY DEF attach_binds
  <1>3. deferred' \subseteq {"gmac"} /\ first' = first /\ first # None
    BY <1>1 DEF attach_binds, Due, IInv, TypeOK, TypeOKCore
  <1>4. UNCHANGED <<box, now, active, worker, until, nand, others>>
    BY DEF attach_binds
  <1>5. first' \in -1 .. now' /\ work' \in -1 .. now' + Retry
    BY <1>2, <1>3, <1>4, Numbers
  <1>6. TypeOK'
    BY <1>1, <1>2, <1>3, <1>4, <1>5 DEF IInv, TypeOK, TypeOKCore
  <1>7. HealthyGetsStored'
    <2>1. CASE eth # "none"
      BY <2>1 DEF attach_binds, IInv, HealthyGetsStored
    <2>2. CASE eth = "none" /\ ~NeedsVendor
      BY <2>2 DEF attach_binds, HealthyGetsStored, Mac, NeedsVendor
    <2>3. CASE eth = "none" /\ NeedsVendor
      BY <2>3, InTime DEF attach_binds, HealthyGetsStored
    <2> QED
      BY <2>1, <2>2, <2>3
  <1>8. RetryPending'
    BY <1>1 DEF RetryPending
  <1>9. nand = "unbound" => NandIsNext'
    BY <1>1 DEF attach_binds, IInv, NandIsNext
  <1> QED
    BY <1>1, <1>2, <1>3, <1>4, <1>6, <1>7, <1>8, <1>9 DEF IInv

\* A retry whose probe yields again keeps it.
LEMMA AttachDefers ==
  ASSUME IInv, attach_defers PROVE IInv'
PROOF
  <1> USE ProbeAssumption, DeadlineAssumption DEF None
  <1>1. /\ running' \in BOOLEAN
        /\ work' = now + Retry /\ work # None
        /\ UNCHANGED <<box, now, active, worker, until, nand, others, eth, first>>
    BY DEF attach_defers, Due
  <1>2. first # None
    BY <1>1 DEF IInv
  <1>3. deferred' \subseteq {"gmac"}
    BY DEF attach_defers, IInv, TypeOK, TypeOKCore
  <1>4. TypeOK'
    BY <1>1, <1>3, Numbers DEF IInv, TypeOK, TypeOKCore
  <1>5. HealthyGetsStored' /\ RetryPending' /\ work' # None
    BY <1>1, Numbers DEF IInv, HealthyGetsStored, RetryPending
  <1>6. active \in {<<"gmac">>, <<"nand", "gmac">>} => deferred' = {}
    <2>1. CASE active = <<"gmac">>
      <3>1. 1 \in DOMAIN active /\ active[1] = "gmac"
        BY <2>1
      <3> QED
        BY <2>1, <3>1 DEF attach_defers, IInv
    <2>2. CASE active = <<"nand", "gmac">>
      <3>1. 2 \in DOMAIN active /\ active[2] = "gmac"
        BY <2>2
      <3> QED
        BY <2>2, <3>1 DEF attach_defers, IInv
    <2> QED
      BY <2>1, <2>2
  <1>7. nand = "unbound" => NandIsNext'
    BY <1>1, <1>2 DEF IInv, NandIsNext
  <1> QED
    BY <1>1, <1>2, <1>4, <1>5, <1>6, <1>7 DEF IInv

\* The end of the retry, which schedules the next one if need be, keeps it.
LEMMA ReprobeAgain ==
  ASSUME IInv, reprobe_again PROVE IInv'
PROOF
  <1> USE ProbeAssumption, DeadlineAssumption DEF None
  <1>1. running' \in BOOLEAN /\ UNCHANGED coreVars /\ UNCHANGED first
    BY DEF reprobe_again
  <1>2. work' = work \/ (work = None /\ work' = now + Retry)
    BY DEF reprobe_again, Scheduled
  <1>3. running /\ first # None
    BY DEF reprobe_again, IInv
  <1>4. TypeOK'
    BY <1>1, <1>2, Numbers DEF coreVars, IInv, TypeOK, TypeOKCore
  <1>5. (RetryPending /\ HealthyGetsStored)'
    BY <1>1, <1>2, Numbers DEF coreVars, IInv, RetryPending, HealthyGetsStored
  <1>6. nand = "unbound" => NandIsNext'
    BY <1>1 DEF coreVars, IInv, NandIsNext
  <1> QED
    BY <1>1, <1>3, <1>4, <1>5, <1>6 DEF coreVars, IInv

\* The clock moves only when nothing is due, so while rk_nand is being probed
\* its end is still ahead.
LEMMA Clock ==
  ASSUME IInv, clock PROVE IInv'
PROOF
  <1> USE ProbeAssumption, DeadlineAssumption DEF None
  <1>1. /\ now' = now + 1 /\ now < MaxTime /\ others' \in BOOLEAN
        /\ UNCHANGED <<box, active, deferred, worker, until, nand, eth>>
        /\ UNCHANGED <<first, work, running>>
    BY DEF clock, tick
  <1>2. TypeOK'
    <2>1. now' \in 0 .. MaxTime /\ first' \in -1 .. now' /\ work' \in -1 .. now' + Retry
      BY <1>1, Numbers
    <2> QED
      BY <1>1, <2>1 DEF IInv, TypeOK, TypeOKCore
  <1>3. (RetryPending /\ HealthyGetsStored)'
    BY <1>1 DEF IInv, RetryPending, HealthyGetsStored
  <1>4. ASSUME nand = "unbound" PROVE NandIsNext'
    <2>1. active \in {<<"gmac", "nand">>, <<"nand">>, <<"nand", "gmac">>}
      BY <1>4 DEF IInv, NandIsNext
    <2>2. active # <<>>
      BY <2>1
    <2>3. worker # "idle"
      BY <2>2 DEF clock, tick, Urgent
    <2>4. worker = "nand"
      BY <2>3 DEF IInv, TypeOK, TypeOKCore
    <2>5. until > now /\ until = box.time
      BY <1>4, <2>3, <2>4, Numbers DEF clock, tick, Urgent, IInv, NandIsNext
    <2>6. now' <= box.time'
      BY <1>1, <2>5, Numbers
    <2> QED
      BY <1>1, <1>4, <2>3, <2>6 DEF IInv, NandIsNext
  <1> QED
    BY <1>1, <1>2, <1>3, <1>4 DEF IInv

\* Every step keeps the inductive invariant.
LEMMA Steps == IInv /\ [Next]_vars => IInv'
PROOF
  <1> SUFFICES ASSUME IInv, [Next]_vars PROVE IInv'
    OBVIOUS
  <1>1. CASE core
    BY <1>1, OtherBound, NandProbe, NandBound, SkipBound DEF core, CoreNext
  <1>2. CASE probe_binds
    BY <1>2, ProbeBinds
  <1>3. CASE probe_random
    BY <1>3, ProbeRandom
  <1>4. CASE probe_defers
    BY <1>4, ProbeDefers
  <1>5. CASE attach_binds
    BY <1>5, AttachBinds
  <1>6. CASE attach_defers
    BY <1>6, AttachDefers
  <1>7. CASE reprobe_again
    BY <1>7, ReprobeAgain
  <1>8. CASE clock
    BY <1>8, Clock
  <1>9. CASE UNCHANGED vars
    BY <1>9 DEF vars, coreVars, IInv, TypeOK, TypeOKCore, RetryPending,
                HealthyGetsStored, NandIsNext
  <1> QED
    BY <1>1, <1>2, <1>3, <1>4, <1>5, <1>6, <1>7, <1>8, <1>9 DEF Next

\* The inductive invariant holds for every timeout, delay and length of the
\* rk_nand probe.
THEOREM Inductive == Spec => []IInv
PROOF
  <1> QED
    BY Inits, Steps, PTL DEF Spec

\* rk_gmac_probe never drops the last retry of an unbound gmac.
THEOREM NoLostRetry == Spec => []RetryPending
PROOF
  <1>1. IInv => RetryPending
    BY DEF IInv
  <1> QED
    BY <1>1, Inductive, PTL

\* The 30 s deadline never hits a box with a stored MAC whose rk_nand needs no
\* longer than that: the yielding probe does not hold rk_nand up.
THEOREM StoredMac == Spec => []HealthyGetsStored
PROOF
  <1>1. IInv => HealthyGetsStored
    BY DEF IInv
  <1> QED
    BY <1>1, Inductive, PTL

\* The clock of the retries: the first deferral lies in the past and the next
\* retry no further ahead than the delay of the work.
THEOREM Typing == Spec => []TypeOK
PROOF
  <1>1. IInv => TypeOK
    BY DEF IInv
  <1> QED
    BY <1>1, Inductive, PTL

\* The steps of nand_blk_register, of the collector and of the requests leave the
\* rule for the MAC alone, and the probe of rk_nand ends as the rule expects.
LEMMA SysSteps == [SysNext]_sysVars => [Next]_vars
PROOF
  <1> SUFFICES ASSUME [SysNext]_sysVars PROVE [Next]_vars
    OBVIOUS
  <1>1. CASE registering
    BY <1>1 DEF registering, gmacVars
  <1>2. CASE nand_ready
    BY <1>2 DEF nand_ready, Next, core, CoreNext
  <1>3. CASE ftl_users
    BY <1>3 DEF ftl_users, gmacVars
  <1>4. CASE probes
    BY <1>4 DEF probes, Next, core, CoreNext
  <1>5. CASE UNCHANGED sysVars
    BY <1>5 DEF sysVars, gmacVars
  <1> QED
    BY <1>1, <1>2, <1>3, <1>4, <1>5 DEF SysNext

-----------------------------------------------------------------------------
(* The collector and its gate, for every set of requests.                  *)

LEMMA GateInit == Ftl!Init => Ftl!GateInv
  BY DEF Ftl!Init, Ftl!GateInv, Ftl!GateHolds

\* Only the registering thread opens the gate, and nothing closes it.
LEMMA RegisterSteps ==
  ASSUME Ftl!GateInv, Ftl!start_gc_thread \/ Ftl!release_gate \/ Ftl!init_returns
  PROVE  Ftl!GateInv'
PROOF
  <1>1. CASE Ftl!start_gc_thread
    BY <1>1 DEF Ftl!start_gc_thread, Ftl!GateInv, Ftl!GateHolds
  <1>2. CASE Ftl!release_gate
    BY <1>2 DEF Ftl!release_gate, Ftl!GateInv, Ftl!GateHolds
  <1>3. CASE Ftl!init_returns
    BY <1>3 DEF Ftl!init_returns, Ftl!GateInv, Ftl!GateHolds
  <1> QED
    BY <1>1, <1>2, <1>3

LEMMA CollectorSteps ==
  ASSUME Ftl!GateInv, Ftl!gc_lock \/ Ftl!gc_unlock \/ Ftl!blob_hangs
  PROVE  Ftl!GateInv'
PROOF
  <1>1. CASE Ftl!gc_lock
    BY <1>1 DEF Ftl!gc_lock, Ftl!GcMayRun, Ftl!GateInv, Ftl!GateHolds
  <1>2. CASE Ftl!gc_unlock
    BY <1>2 DEF Ftl!gc_unlock, Ftl!GateInv, Ftl!GateHolds
  <1>3. CASE Ftl!blob_hangs
    BY <1>3 DEF Ftl!blob_hangs, Ftl!GateInv, Ftl!GateHolds
  <1> QED
    BY <1>1, <1>2, <1>3

LEMMA RequestSteps ==
  ASSUME Ftl!GateInv, NEW r \in Requests, Ftl!queue_rq(r) \/ Ftl!rq_lock(r) \/ Ftl!rq_done(r)
  PROVE  Ftl!GateInv'
PROOF
  <1>1. CASE Ftl!queue_rq(r)
    BY <1>1 DEF Ftl!queue_rq, Ftl!GateInv, Ftl!GateHolds
  <1>2. CASE Ftl!rq_lock(r)
    BY <1>2 DEF Ftl!rq_lock, Ftl!GateInv, Ftl!GateHolds
  <1>3. CASE Ftl!rq_done(r)
    BY <1>3 DEF Ftl!rq_done, Ftl!GateInv, Ftl!GateHolds
  <1> QED
    BY <1>1, <1>2, <1>3

\* The probes of the other devices leave the FTL alone.
LEMMA SysGate == Ftl!GateInv /\ [SysNext]_sysVars => Ftl!GateInv'
PROOF
  <1> SUFFICES ASSUME Ftl!GateInv, [SysNext]_sysVars PROVE Ftl!GateInv'
    OBVIOUS
  <1>1. CASE registering
    BY <1>1, RegisterSteps DEF registering
  <1>2. CASE nand_ready
    BY <1>2, RegisterSteps DEF nand_ready
  <1>3. CASE ftl_users
    BY <1>3, CollectorSteps, RequestSteps DEF ftl_users
  <1>4. CASE probes \/ UNCHANGED sysVars
    <2>1. UNCHANGED ftlVars
      BY <1>4 DEF probes, sysVars
    <2> QED
      BY <2>1 DEF ftlVars, Ftl!GateInv, Ftl!GateHolds
  <1> QED
    BY <1>1, <1>2, <1>3, <1>4 DEF SysNext

-----------------------------------------------------------------------------
(* The composed boot.                                                      *)

\* The probe of rk_nand binds when the vendor-storage init returns, and only then.
LEMMA BoundWhenDone ==
  (nand # "unbound" <=> init = "done") /\ [SysNext]_sysVars
    => (nand # "unbound" <=> init = "done")'
PROOF
  <1> SUFFICES ASSUME nand # "unbound" <=> init = "done", [SysNext]_sysVars
               PROVE  (nand # "unbound" <=> init = "done")'
    OBVIOUS
  <1>1. CASE registering
    BY <1>1 DEF registering, gmacVars, vars, coreVars, Ftl!start_gc_thread, Ftl!release_gate
  <1>2. CASE nand_ready
    BY <1>2 DEF nand_ready, nand_bound, Ftl!init_returns
  <1>3. CASE ftl_users
    BY <1>3 DEF ftl_users, gmacVars, vars, coreVars, Ftl!gc_lock, Ftl!gc_unlock,
                Ftl!blob_hangs, Ftl!queue_rq, Ftl!rq_lock, Ftl!rq_done
  <1>4. CASE probes
    BY <1>4 DEF probes, ftlVars, other_bound, nand_probe, skip_bound, probe_binds,
                probe_random, probe_defers, GmacBinds, GmacDefers, attach_binds,
                attach_defers, reprobe_again, clock, tick, coreVars
  <1>5. CASE UNCHANGED sysVars
    BY <1>5 DEF sysVars, gmacVars, vars, coreVars, ftlVars
  <1> QED
    BY <1>1, <1>2, <1>3, <1>4, <1>5 DEF SysNext

\* Both inductive invariants hold of the boot in which the steps of nand_blk_register,
\* the collector and the block requests are interleaved with the probes.
THEOREM SysInductive == SysSpec => []SysInv
PROOF
  <1>1. SysInit => SysInv
    <2>1. SysInit => (nand # "unbound" <=> init = "done")
      BY DEF SysInit, Init, InitCore, Ftl!Init
    <2> QED
      BY <2>1, Inits, GateInit DEF SysInit, SysInv
  <1>2. SysInv /\ [SysNext]_sysVars => SysInv'
    BY SysSteps, Steps, SysGate, BoundWhenDone DEF SysInv
  <1> QED
    BY <1>1, <1>2, PTL DEF SysSpec

\* Every step of the boot is a step of the FTL's users or leaves them alone.
LEMMA FtlSteps == [SysNext]_sysVars => [Ftl!Next]_(Ftl!vars)
PROOF
  <1> SUFFICES ASSUME [SysNext]_sysVars PROVE [Ftl!Next]_(Ftl!vars)
    OBVIOUS
  <1>1. CASE registering
    BY <1>1 DEF registering, Ftl!Next
  <1>2. CASE nand_ready
    BY <1>2 DEF nand_ready, Ftl!Next
  <1>3. CASE ftl_users
    BY <1>3 DEF ftl_users, Ftl!Next
  <1>4. CASE probes \/ UNCHANGED sysVars
    BY <1>4 DEF probes, sysVars, ftlVars, Ftl!vars
  <1> QED
    BY <1>1, <1>2, <1>3, <1>4 DEF SysNext

\* The composed boot is a behaviour of the rule for the MAC and of the collector with
\* its gate: neither component does anything in it that it does not do alone.
THEOREM Composition ==
  SysSpec => /\ Init /\ [][Next]_vars
             /\ Ftl!Init /\ [][Ftl!Next]_(Ftl!vars)
PROOF
  BY SysSteps, FtlSteps, PTL DEF SysSpec, SysInit

\* When is_rk_vendor_ready answers yes to rk_gmac_probe, nand_blk_register has opened
\* the collector's gate and its vendor-storage init has returned.
THEOREM ReadyAfterGate ==
  SysSpec => [](is_rk_vendor_ready => v16_ftl_ready /\ init = "done")
PROOF
  <1>1. SysInv => (is_rk_vendor_ready => v16_ftl_ready /\ init = "done")
    BY DEF SysInv, is_rk_vendor_ready, Ftl!GateInv
  <1> QED
    BY <1>1, SysInductive, PTL

\* With all of them in it, a boot still gives no random MAC to a box with a stored
\* one, and no retry is lost.
THEOREM BringUp == SysSpec => [](HealthyGetsStored /\ RetryPending)
PROOF
  <1>1. SysInv => HealthyGetsStored /\ RetryPending
    BY DEF SysInv, IInv
  <1> QED
    BY <1>1, SysInductive, PTL

\* The collector is out of the blob until the vendor-storage init is called, and never
\* in it beside a request (v16-gc-restore.py 59-66).
THEOREM Gate == SysSpec => []GateHolds
PROOF
  <1>1. SysInv => GateHolds
    BY DEF SysInv, GateHolds, Ftl!GateInv
  <1> QED
    BY <1>1, SysInductive, PTL
=============================================================================
