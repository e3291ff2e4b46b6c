------------------------------ MODULE XmioLed ------------------------------
(***************************************************************************)
(* The status LED of the daemon tools/xmio-led.c: one loop that wakes      *)
(* every 400 ms, looks for multi-user.target, looks at the carrier, now    *)
(* and then pings the gateway, and sets a red/green LED.  The network, the *)
(* sysfs node of the LED and the boot go on while the loop sleeps, pings   *)
(* or writes.                                                              *)
(*                                                                         *)
(* The loop uses its counter tick in two ways only: tick % MU_EVERY and    *)
(* tick >= next_probe.  The module keeps exactly these two: phase is       *)
(* tick % MU_EVERY, due is next_probe - tick, or 0 once that is reached.   *)
(* The yellow LED, set at the end of the loop body, is in XmioYellow: the  *)
(* two share no variable.                                                  *)
(***************************************************************************)
EXTENDS Integers

CONSTANTS
  PING_EVERY,   \* ticks between two probes of a working network
  RETRY,        \* ticks between two probes of a failing one (5 in the code)
  MU_EVERY,     \* ticks between two looks at multi-user.target
  MaxKills      \* bound: how often the daemon dies and is started again

ASSUME PeriodAssumption ==
  /\ PING_EVERY \in Nat /\ RETRY \in Nat /\ MU_EVERY \in Nat
  /\ PING_EVERY >= 1 /\ RETRY >= 1 /\ MU_EVERY >= 1
ASSUME FaultAssumption == MaxKills \in Nat

RED == 1
GREEN == 0

VARIABLES
  carrier,    \* an interface that counts has IFF_RUNNING
  addr,       \* and a global IPv4 address
  gw,         \* the gateway: answers, is silent, or there is none to ask
  reached,    \* what multiuser_reached() answers
  node,       \* the nodes of the LEDs can be opened
  led,        \* what the LED shows
  missed,     \* auxiliary: the last write() on the open node failed
  pc,         \* where the loop stands
  netok,      \* -1 undecided, 1 connected, 0 not
  boot, blink, had_link, st_status,
  phase, due, \* tick and next_probe
  age,        \* auxiliary: ticks since the verdict was found
  answered,   \* auxiliary: it rests on an echo reply
  kills       \* auxiliary

env == <<carrier, addr, gw, reached, node>>
lamp == <<led, missed>>
daemon == <<pc, netok, boot, blink, had_link, st_status, phase, due, age, answered>>
vars == <<env, lamp, daemon, kills>>

Gateways == {"answers", "silent", "none"}

\* Any surroundings, and the variables of main before its loop.
Init ==
  /\ carrier \in BOOLEAN /\ addr \in BOOLEAN /\ gw \in Gateways
  /\ reached \in BOOLEAN /\ node \in BOOLEAN
  /\ led \in {RED, GREEN} /\ missed = FALSE
  /\ pc = "start"
  /\ netok = -1 /\ boot = FALSE /\ blink = 0
  /\ had_link = FALSE /\ st_status = -1
  /\ phase = 0 /\ due = 0
  /\ age = 0 /\ answered = FALSE
  /\ kills = 0

-----------------------------------------------------------------------------
\* The surroundings.
network ==
  /\ \/ carrier' = ~carrier /\ UNCHANGED <<addr, gw>>
     \/ addr' = ~addr /\ UNCHANGED <<carrier, gw>>
     \/ gw' \in Gateways \ {gw} /\ UNCHANGED <<carrier, addr>>
  /\ UNCHANGED <<reached, node, lamp, daemon, kills>>

\* multi-user.target is reached, or the box has been up for 90 s, whichever comes
\* first; either stays so.
multiuser_reached ==
  /\ ~reached
  /\ reached' = TRUE
  /\ UNCHANGED <<carrier, addr, gw, node, lamp, daemon, kills>>

led_node ==
  /\ node' = ~node
  /\ UNCHANGED <<carrier, addr, gw, reached, lamp, daemon, kills>>

\* The daemon dies; its unit has Restart=on-failure.
killed ==
  /\ pc # "start"
  /\ kills < MaxKills
  /\ kills' = kills + 1
  /\ pc' = "start"
  /\ netok' = -1 /\ boot' = FALSE /\ blink' = 0
  /\ had_link' = FALSE /\ st_status' = -1 /\ missed' = FALSE
  /\ phase' = 0 /\ due' = 0
  /\ age' = 0 /\ answered' = FALSE
  /\ UNCHANGED <<env, led>>

-----------------------------------------------------------------------------
\* Up to the loop.  Unless both nodes are writable main returns 1 and is started
\* again; they belong to one gpio-leds device and come and go together.
start ==
  /\ pc = "start"
  /\ node
  /\ pc' = "tick"
  /\ UNCHANGED <<env, lamp, netok, boot, blink, had_link, st_status, phase, due,
                 age, answered, kills>>

\* The sleep is over; every MU_EVERY ticks multiuser_reached is called.
tick ==
  /\ pc = "tick"
  /\ phase' = (phase + 1) % MU_EVERY
  /\ due' = IF due > 0 THEN due - 1 ELSE 0
  /\ age' = age + 1
  /\ boot' = (boot \/ (phase' = 0 /\ reached))
  /\ pc' = "probe"
  /\ UNCHANGED <<env, lamp, netok, blink, had_link, st_status, answered, kills>>

\* Mutant of no_link: the verdict stays.
NoLinkKeepsVerdict ==
  /\ pc = "probe"
  /\ ~carrier
  /\ had_link' = FALSE
  /\ age' = 0 /\ answered' = FALSE
  /\ pc' = "show"
  /\ UNCHANGED <<env, lamp, netok, boot, blink, st_status, phase, due, kills>>

\* No carrier: not connected, and the next carrier is a new one.
no_link ==
  /\ pc = "probe"
  /\ ~carrier
  /\ netok' = 0
  /\ had_link' = FALSE
  /\ age' = 0 /\ answered' = FALSE
  /\ pc' = "show"
  /\ UNCHANGED <<env, lamp, boot, blink, st_status, phase, due, kills>>

\* Mutant of Decide: a failing network waits as long as a working one.
DecideLong(v, reply) ==
  /\ netok' = v
  /\ due' = PING_EVERY
  /\ age' = 0
  /\ answered' = reply
  /\ pc' = "show"

\* What a probe that found verdict v leaves behind.
Decide(v, reply) ==
  /\ netok' = v
  /\ due' = IF v = 1 THEN PING_EVERY ELSE RETRY
  /\ age' = 0
  /\ answered' = reply
  /\ pc' = "show"

\* Mutant of link: a new carrier waits for the old next_probe.
LinkWaits ==
  /\ pc = "probe"
  /\ carrier
  /\ had_link' = TRUE
  /\ phase' = IF had_link THEN phase ELSE 0
  /\ LET probing == netok < 0 \/ due = 0 IN
     \/ /\ probing /\ ~addr
        /\ Decide(0, FALSE)
     \/ /\ probing /\ addr
        /\ pc' = "gateway"
        /\ UNCHANGED <<netok, due, age, answered>>
     \/ /\ ~probing
        /\ pc' = "show"
        /\ UNCHANGED <<netok, due, age, answered>>
  /\ UNCHANGED <<env, lamp, boot, blink, st_status, kills>>

\* Mutant of link: tick is reset by every carrier, new or not.
LinkAlwaysResets ==
  /\ pc = "probe"
  /\ carrier
  /\ had_link' = TRUE
  /\ phase' = 0
  /\ LET probing == ~had_link \/ netok < 0 \/ due = 0 IN
     \/ /\ probing /\ ~addr
        /\ Decide(0, FALSE)
     \/ /\ probing /\ addr
        /\ netok' = IF had_link THEN netok ELSE -1
        /\ due' = IF had_link THEN due ELSE 0
        /\ pc' = "gateway"
        /\ UNCHANGED <<age, answered>>
     \/ /\ ~probing
        /\ pc' = "show"
        /\ UNCHANGED <<netok, due, age, answered>>
  /\ UNCHANGED <<env, lamp, boot, blink, st_status, kills>>

\* Carrier.  A new one resets tick and next_probe and is probed at once, an
\* old one when next_probe is reached.  Without an address the verdict is
\* there, with one the gateway is asked.
link ==
  /\ pc = "probe"
  /\ carrier
  /\ had_link' = TRUE
  /\ phase' = IF had_link THEN phase ELSE 0
  /\ LET probing == ~had_link \/ netok < 0 \/ due = 0 IN
     \/ /\ probing /\ ~addr
        /\ Decide(0, FALSE)
     \/ /\ probing /\ addr
        /\ netok' = IF had_link THEN netok ELSE -1
        /\ due' = IF had_link THEN due ELSE 0
        /\ pc' = "gateway"
        /\ UNCHANGED <<age, answered>>
     \/ /\ ~probing
        /\ pc' = "show"
        /\ UNCHANGED <<netok, due, age, answered>>
  /\ UNCHANGED <<env, lamp, boot, blink, st_status, kills>>

\* get_gw and ping_gw: no default gateway, no socket and a failed send count
\* as connected.
ping_gw ==
  /\ pc = "gateway"
  /\ IF gw = "silent" THEN Decide(0, FALSE) ELSE Decide(1, gw = "answers")
  /\ UNCHANGED <<env, lamp, boot, blink, had_link, st_status, phase, kills>>

\* Mutant of set_status: the result of wr is not looked at.
SetStatusAlways(v) ==
  /\ st_status' = v
  /\ led' = IF v # st_status /\ node THEN v ELSE led
  /\ missed' = FALSE

\* wr fails when the node cannot be opened, and the next tick tries again.  A write()
\* that fails goes unnoticed: the colour counts as set.
set_status(v) ==
  \/ /\ v = st_status \/ ~node
     /\ UNCHANGED <<lamp, st_status>>
  \/ /\ v # st_status /\ node
     /\ st_status' = v
     /\ \/ led' = v /\ missed' = FALSE
        \/ led' = led /\ missed' = TRUE

\* Mutant of show: blink is not turned over.
ShowWithoutBlink ==
  /\ pc = "show"
  /\ set_status(IF boot /\ netok = 1 THEN GREEN ELSE RED)
  /\ pc' = "tick"
  /\ UNCHANGED <<env, netok, boot, blink, had_link, phase, due, age, answered, kills>>

\* The end of the loop body.
show ==
  /\ pc = "show"
  /\ IF ~boot \/ netok < 0
     THEN /\ blink' = 1 - blink
          /\ set_status(1 - blink)
     ELSE /\ set_status(IF netok = 1 THEN GREEN ELSE RED)
          /\ UNCHANGED blink
  /\ pc' = "tick"
  /\ UNCHANGED <<env, netok, boot, had_link, phase, due, age, answered, kills>>

-----------------------------------------------------------------------------
Daemon == start \/ tick \/ no_link \/ link \/ ping_gw \/ show

Next == network \/ multiuser_reached \/ led_node \/ killed \/ Daemon

Spec == Init /\ [][Next]_vars

\* The process is scheduled, its sleep ends, its poll times out; and the uptime gets
\* to 90 s.
FairSpec == Spec /\ WF_vars(Daemon) /\ WF_vars(multiuser_reached)

-----------------------------------------------------------------------------
TypeOK ==
  /\ carrier \in BOOLEAN /\ addr \in BOOLEAN /\ gw \in Gateways
  /\ reached \in BOOLEAN /\ node \in BOOLEAN
  /\ led \in {RED, GREEN} /\ missed \in BOOLEAN
  /\ pc \in {"start", "tick", "probe", "gateway", "show"}
  /\ netok \in {-1, 0, 1}
  /\ boot \in BOOLEAN /\ blink \in {0, 1} /\ had_link \in BOOLEAN
  /\ st_status \in {-1, RED, GREEN}
  /\ phase \in 0 .. MU_EVERY - 1 /\ due \in Nat
  /\ age \in Nat /\ answered \in BOOLEAN
  /\ kills \in 0 .. MaxKills

\* The ticks after which a verdict is looked at again.
Period == IF netok = 1 THEN PING_EVERY ELSE RETRY

\* "connected: recheck every 20s; undecided/missing IP: retry every 2s": while
\* the carrier stays, the verdict the LED shows is never older than that,
\* however often the carrier, the address and the gateway came and went.
NeverStale ==
  pc = "tick" /\ had_link => age < Period

\* st_status is what the LED shows, unless the write of that very colour failed: a node
\* that could not be opened, a restart and failures of earlier writes leave no trace.
Remembered == st_status # -1 /\ ~missed => led = st_status

\* The inductive invariant: with a carrier, the age of the verdict and the ticks
\* that are left to the next probe add up to its period.
IInv ==
  /\ TypeOK
  /\ pc = "start" => ~had_link
  /\ pc = "gateway" => had_link
  /\ pc = "show" => netok # -1
  /\ pc \in {"tick", "show"} /\ had_link => due >= 1
  /\ pc \in {"tick", "probe", "show"} /\ had_link => netok # -1 /\ age + due = Period
  /\ Remembered

\* Once the network works and stays and the node can be opened, the LED turns green and
\* stays so, whatever went before: an outage, a restarted daemon, a node that was away.
\* multi-user.target need not be reached.  The last write must not have failed, since
\* set_status does not repeat it; earlier ones may have.
SettlesGreen ==
  <>[](carrier /\ addr /\ gw # "silent" /\ node /\ ~missed) => <>[](led = GREEN)

\* Without a carrier, without an address or with a gateway that stays silent
\* it turns red and stays so.
SettlesRed ==
  /\ <>[](node /\ ~missed)
  /\ \/ <>[]~carrier
     \/ <>[](carrier /\ ~addr)
     \/ <>[](carrier /\ gw = "silent")
  => <>[](led = RED)

\* "boot / deciding: red blink": as long as the daemon has not noticed the end of the
\* boot, which a carrier that keeps coming back can put off for ever, the LED keeps
\* changing.
Blinks ==
  <>[](~boot /\ node /\ ~missed) => []<>(led = RED) /\ []<>(led = GREEN)

\* "fallback if invocation links absent": the end of the boot is noticed with or without
\* multi-user.target, if the loop stops seeing new carriers, which set back the count
\* its check depends on.  The carrier may go on flapping between two looks at it, and
\* the network need not work.
NoticedOnceSteady ==
  <>[](pc # "start") /\ (<>[]had_link \/ <>[]~had_link) => <>[]boot

\* "GREEN when global IPv4 + default GW answers ICMP echo; RED otherwise."  Not an
\* invariant: without a gateway or a socket the network counts as connected.
GreenIsAnswered == pc = "tick" /\ boot /\ st_status = GREEN /\ netok = 1 => answered

\* "1.6s between multi-user checks": a running daemon notices the end of the boot.  It
\* does not hold: a carrier that keeps coming back keeps setting tick to 0.
TargetNoticed == [](reached /\ pc # "start" => <>(boot \/ pc = "start"))
=============================================================================
