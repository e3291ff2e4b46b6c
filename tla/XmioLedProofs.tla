--------------------------- MODULE XmioLedProofs ---------------------------
(***************************************************************************)
(* Proofs about the two LEDs of the daemon, XmioLed and XmioYellow, for    *)
(* all periods, any number of transfers and any number of restarts.        *)
(***************************************************************************)
EXTENDS XmioLed, TLAPS

CONSTANT MaxSectors
VARIABLES
  rd, wr, listed, yellow, yellow_missed, looping, prd, pwr, have_disk, st_yellow, moved

\* One daemon: the nodes and the restarts are the same, writes fail one by one.
Yellow == INSTANCE XmioYellow WITH missed <- yellow_missed

\* The invariant holds before main has run.
LEMMA InitIInv == Init => IInv
<1> SUFFICES ASSUME Init PROVE IInv
  OBVIOUS
<1>0. /\ boot \in BOOLEAN /\ had_link \in BOOLEAN /\ answered \in BOOLEAN
      /\ missed \in BOOLEAN
  BY DEF Init
<1>1. TypeOK
  BY <1>0, PeriodAssumption, FaultAssumption DEF Init, TypeOK, RED, GREEN
<1>2. pc = "start" /\ had_link = FALSE /\ Remembered
  BY DEF Init, Remembered
<1> QED BY <1>1, <1>2 DEF IInv

\* Only set_status and a restart change what the daemon remembers.
LEMMA NextRemembered == TypeOK /\ Remembered /\ [Next]_vars => Remembered'
<1> SUFFICES ASSUME TypeOK, Remembered, [Next]_vars PROVE Remembered'
  OBVIOUS
<1>1. CASE killed
  BY <1>1 DEF killed, Remembered
<1>2. CASE show
  <2>1. \E v : set_status(v)
    BY <1>2 DEF show
  <2> QED BY <2>1 DEF set_status, lamp, Remembered, TypeOK
<1>3. CASE UNCHANGED <<lamp, st_status>>
  BY <1>3 DEF lamp, Remembered
<1> QED
  BY <1>1, <1>2, <1>3 DEF Next, Daemon, network, multiuser_reached, led_node, start, tick,
     no_link, link, ping_gw, vars, env, daemon

\* Every step keeps the inductive invariant.
LEMMA NextIInv == IInv /\ [Next]_vars => IInv'
<1> SUFFICES ASSUME IInv, [Next]_vars PROVE IInv'
  OBVIOUS
<1>0. Remembered'
  BY NextRemembered DEF IInv
<1> USE <1>0, PeriodAssumption, FaultAssumption DEF IInv, TypeOK, Gateways, RED, GREEN, Period, lamp
<1>1. CASE network
  <2>1. carrier' \in BOOLEAN /\ addr' \in BOOLEAN /\ gw' \in Gateways
    BY <1>1 DEF network
  <2> QED BY <1>1, <2>1 DEF network, daemon
<1>2. CASE multiuser_reached
  BY <1>2 DEF multiuser_reached, daemon
<1>3. CASE led_node
  BY <1>3 DEF led_node, daemon
<1>4. CASE killed
  <2>0. /\ boot' \in BOOLEAN /\ had_link' \in BOOLEAN /\ answered' \in BOOLEAN
        /\ missed' \in BOOLEAN
    BY <1>4 DEF killed
  <2>1. TypeOK'
    BY <1>4, <2>0 DEF killed, env
  <2>2. pc' = "start" /\ had_link' = FALSE
    BY <1>4 DEF killed
  <2> QED BY <2>1, <2>2
<1>5. CASE start
  BY <1>5 DEF start, env
<1>6. CASE tick
  <2>1. phase' \in 0 .. MU_EVERY - 1
    BY <1>6 DEF tick
  <2>2. had_link => due >= 1 /\ age' + due' = age + due
    BY <1>6 DEF tick
  <2> QED BY <1>6, <2>1, <2>2 DEF tick, env
<1>7. CASE no_link
  <2>1. TypeOK'
    BY <1>7 DEF no_link, env
  <2>2. pc' = "show" /\ ~had_link' /\ netok' # -1
    BY <1>7 DEF no_link
  <2> QED BY <2>1, <2>2
<1>8. CASE link
  <2>1. TypeOK'
    <3>1. had_link' \in BOOLEAN /\ answered' \in BOOLEAN
      BY <1>8 DEF link, Decide
    <3>2. phase' \in 0 .. MU_EVERY - 1
      BY <1>8 DEF link
    <3>3. netok' \in {-1, 0, 1} /\ due' \in Nat /\ age' \in Nat
      BY <1>8 DEF link, Decide
    <3>4. pc' \in {"show", "gateway"}
      BY <1>8 DEF link, Decide
    <3> QED BY <1>8, <3>1, <3>2, <3>3, <3>4 DEF link, env
  <2>2. ASSUME pc' = "show"
        PROVE  netok' # -1 /\ due' >= 1 /\ age' + due' = Period'
    <3>1. CASE Decide(0, FALSE)
      BY <3>1 DEF Decide
    <3>2. CASE /\ ~(~had_link \/ netok < 0 \/ due = 0)
               /\ UNCHANGED <<netok, due, age, answered>>
      BY <1>8, <3>2 DEF link
    <3> QED BY <1>8, <2>2, <3>1, <3>2 DEF link
  <2>3. pc' \in {"show", "gateway"} /\ had_link'
    BY <1>8 DEF link, Decide
  <2> QED BY <2>1, <2>2, <2>3
<1>9. CASE ping_gw
  <2>0. Decide(0, FALSE) \/ Decide(1, gw = "answers")
    BY <1>9 DEF ping_gw
  <2>1. TypeOK'
    <3>1. answered' \in BOOLEAN
      BY <2>0 DEF Decide
    <3> QED BY <1>9, <2>0, <3>1 DEF ping_gw, Decide, env
  <2>2. pc' = "show" /\ netok' # -1 /\ due' >= 1 /\ age' + due' = Period'
    BY <2>0 DEF Decide
  <2> QED BY <2>1, <2>2
<1>10. CASE show
  <2>1. /\ st_status' \in {-1, RED, GREEN} /\ led' \in {RED, GREEN}
        /\ blink' \in {0, 1}
    BY <1>10 DEF show, set_status
  <2>2. \E v : set_status(v)
    BY <1>10 DEF show
  <2>3. missed' \in BOOLEAN
    BY <2>2 DEF set_status
  <2> QED BY <1>10, <2>1, <2>3 DEF show, env
<1>11. CASE UNCHANGED vars
  BY <1>11 DEF vars, env, daemon
<1> QED BY <1>1, <1>2, <1>3, <1>4, <1>5, <1>6, <1>7, <1>8, <1>9, <1>10, <1>11
        DEF Next, Daemon

-----------------------------------------------------------------------------
\* The inductive invariant of the loop holds for all periods.
THEOREM Inductive == Spec => []IInv
<1> QED BY InitIInv, NextIInv, PTL DEF Spec

\* With a carrier the verdict on display is never older than its period: a
\* working network is asked again after PING_EVERY ticks, a failing one after
\* five.
THEOREM Freshness == Spec => []NeverStale
<1>1. IInv => NeverStale
  BY DEF IInv, TypeOK, NeverStale, Period
<1> QED BY <1>1, Inductive, PTL

\* tick % MU_EVERY and next_probe stay in their ranges for all periods.
THEOREM Typing == Spec => []TypeOK
<1>1. IInv => TypeOK
  BY DEF IInv
<1> QED BY <1>1, Inductive, PTL

\* The colour that set_status compares with is the one on display, across nodes that
\* come and go, restarts and writes that failed before the last: what it skips as
\* already shown is shown.
THEOREM Shown == Spec => []Remembered
<1>1. IInv => Remembered
  BY DEF IInv
<1> QED BY <1>1, Inductive, PTL

-----------------------------------------------------------------------------
(* The yellow LED.                                                         *)

LEMMA YellowInit == Yellow!Init => Yellow!YellowInv
  BY DEF Yellow!Init, Yellow!YellowInv

\* Only a transfer moves the counters away from what the daemon remembers.
LEMMA YellowStep ==
  Yellow!YellowInv /\ [Yellow!Next]_(Yellow!vars) => Yellow!YellowInv'
<1> SUFFICES ASSUME Yellow!YellowInv, [Yellow!Next]_(Yellow!vars) PROVE Yellow!YellowInv'
  OBVIOUS
<1> USE DEF Yellow!YellowInv, Yellow!env, Yellow!daemon
<1>1. CASE Yellow!disk_io
  BY <1>1 DEF Yellow!disk_io
<1>2. CASE Yellow!surroundings
  BY <1>2 DEF Yellow!surroundings
<1>3. CASE Yellow!killed
  BY <1>3 DEF Yellow!killed
<1>4. CASE Yellow!start
  BY <1>4 DEF Yellow!start
<1>5. CASE Yellow!tick
  <2>1. rd' = rd /\ wr' = wr
    BY <1>5 DEF Yellow!tick
  <2>2. CASE moved' = FALSE /\ prd' = rd /\ pwr' = wr
    BY <2>1, <2>2
  <2>3. CASE UNCHANGED <<have_disk, prd, pwr, moved>>
    BY <2>1, <2>3
  <2> QED BY <1>5, <2>2, <2>3 DEF Yellow!tick, Yellow!disk_sectors
<1>6. CASE UNCHANGED Yellow!vars
  BY <1>6 DEF Yellow!vars
<1> QED BY <1>1, <1>2, <1>3, <1>4, <1>5, <1>6 DEF Yellow!Next

\* The yellow LED is lit only for a transfer since the daemon last read the counters,
\* whatever was transferred before it started and however often they cannot be read.
THEOREM Lit == Yellow!Spec => Yellow!OnlyTransfers
<1>1. Yellow!YellowInv /\ [Yellow!Next]_(Yellow!vars)
        => [yellow = 0 /\ yellow' = 1 => moved]_(Yellow!vars)
  <2> SUFFICES ASSUME Yellow!YellowInv, Yellow!Next, yellow = 0, yellow' = 1 PROVE moved
    OBVIOUS
  <2>1. Yellow!tick
    BY DEF Yellow!Next, Yellow!disk_io, Yellow!surroundings, Yellow!killed, Yellow!start,
           Yellow!lamp
  <2>2. ~Yellow!set_yellow(0)
    BY DEF Yellow!set_yellow, Yellow!lamp
  <2>3. have_disk /\ listed /\ (rd # prd \/ wr # pwr)
    BY <2>1, <2>2 DEF Yellow!tick, Yellow!disk_sectors
  <2> QED BY <2>3 DEF Yellow!YellowInv
<1> QED BY <1>1, YellowInit, YellowStep, PTL DEF Yellow!Spec, Yellow!OnlyTransfers
=============================================================================
