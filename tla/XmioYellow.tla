----------------------------- MODULE XmioYellow -----------------------------
(***************************************************************************)
(* The yellow LED of tools/xmio-led.c, the end of its loop body: lit for a *)
(* tick when the sector counters of rknand_root have moved since the tick  *)
(* before.  The box has used the disk before the daemon starts, and the    *)
(* daemon may die with the LED lit.                                        *)
(***************************************************************************)
EXTENDS Integers

CONSTANTS
  MaxSectors,   \* bound: sectors read, and sectors written
  MaxKills      \* bound: how often the daemon dies and is started again

VARIABLES
  rd, wr,      \* the counters in /proc/diskstats
  listed,      \* /proc/diskstats can be read and has the device
  node,        \* the nodes of the LEDs can be opened
  yellow,      \* what the LED shows
  missed,      \* auxiliary: the last write() on the open node failed
  looping,     \* main is in its loop
  prd, pwr, have_disk, st_yellow,
  moved,       \* auxiliary: a transfer since the daemon read the counters
  kills        \* auxiliary

env == <<rd, wr, listed, node>>
lamp == <<yellow, missed>>
daemon == <<looping, prd, pwr, have_disk, st_yellow>>
vars == <<env, lamp, daemon, moved, kills>>

Init ==
  /\ rd \in 0 .. MaxSectors /\ wr \in 0 .. MaxSectors
  /\ listed \in BOOLEAN /\ node \in BOOLEAN
  /\ yellow \in {0, 1} /\ missed = FALSE
  /\ looping = FALSE
  /\ prd = 0 /\ pwr = 0
  /\ have_disk = FALSE
  /\ st_yellow = -1
  /\ moved = FALSE
  /\ kills = 0

\* The block layer, the mount state and the LED class.
disk_io ==
  /\ \/ rd < MaxSectors /\ rd' = rd + 1 /\ wr' = wr
     \/ wr < MaxSectors /\ wr' = wr + 1 /\ rd' = rd
  /\ moved' = TRUE
  /\ UNCHANGED <<listed, node, lamp, daemon, kills>>

surroundings ==
  /\ \/ listed' = ~listed /\ node' = node
     \/ node' = ~node /\ listed' = listed
  /\ UNCHANGED <<rd, wr, lamp, daemon, moved, kills>>

\* The daemon dies; its unit has Restart=on-failure.
killed ==
  /\ looping
  /\ kills < MaxKills
  /\ kills' = kills + 1
  /\ looping' = FALSE
  /\ prd' = 0 /\ pwr' = 0 /\ have_disk' = FALSE
  /\ st_yellow' = -1 /\ missed' = FALSE
  /\ moved' = FALSE
  /\ UNCHANGED <<env, yellow>>

\* Unless the nodes are writable main returns 1 and is started again.
start ==
  /\ ~looping
  /\ node
  /\ looping' = TRUE
  /\ UNCHANGED <<env, lamp, prd, pwr, have_disk, st_yellow, moved, kills>>

\* Mutant of disk_sectors: only the sectors that were read.
ReadSectors == IF listed THEN [rd |-> rd, wr |-> 0] ELSE [rd |-> 0, wr |-> 0]

disk_sectors == IF listed THEN [rd |-> rd, wr |-> wr] ELSE [rd |-> 0, wr |-> 0]

\* Mutant of set_yellow: the result of wr is not looked at.
SetYellowAlways(v) ==
  /\ st_yellow' = v
  /\ yellow' = IF v # st_yellow /\ node THEN v ELSE yellow
  /\ missed' = FALSE

\* wr fails when the node cannot be opened, and the next tick tries again.  A write()
\* that fails goes unnoticed: the value counts as set.
set_yellow(v) ==
  \/ /\ v = st_yellow \/ ~node
     /\ UNCHANGED <<lamp, st_yellow>>
  \/ /\ v # st_yellow /\ node
     /\ st_yellow' = v
     /\ \/ yellow' = v /\ missed' = FALSE
        \/ yellow' = yellow /\ missed' = TRUE

\* Mutant of tick: the first counters are compared with prd and pwr, too.
TickComparesFirst ==
  /\ looping
  /\ LET d == disk_sectors IN
     \/ /\ d.rd # 0 \/ d.wr # 0
        /\ set_yellow(IF d.rd # prd \/ d.wr # pwr THEN 1 ELSE 0)
        /\ have_disk' = TRUE
        /\ prd' = d.rd /\ pwr' = d.wr
        /\ moved' = FALSE
     \/ /\ d.rd = 0 /\ d.wr = 0
        /\ set_yellow(0)
        /\ UNCHANGED <<have_disk, prd, pwr, moved>>
  /\ UNCHANGED <<env, looping, kills>>

\* The end of the loop body.  The first counters are only remembered.
tick ==
  /\ looping
  /\ LET d == disk_sectors IN
     \/ /\ d.rd # 0 \/ d.wr # 0
        /\ set_yellow(IF have_disk /\ (d.rd # prd \/ d.wr # pwr) THEN 1 ELSE 0)
        /\ have_disk' = TRUE
        /\ prd' = d.rd /\ pwr' = d.wr
        /\ moved' = FALSE
     \/ /\ d.rd = 0 /\ d.wr = 0
        /\ set_yellow(0)
        /\ UNCHANGED <<have_disk, prd, pwr, moved>>
  /\ UNCHANGED <<env, looping, kills>>

Next == disk_io \/ surroundings \/ killed \/ start \/ tick

Spec == Init /\ [][Next]_vars

\* The process is scheduled and its sleep ends.
FairSpec == Spec /\ WF_vars(start) /\ WF_vars(tick)

-----------------------------------------------------------------------------
\* "Yellow blinks on rknand_root sector delta", and on nothing else: the LED is lit only
\* for a transfer since this daemon last read the counters, never for what the disk did
\* before the daemon was started, or for counters that could not be read in between.
OnlyTransfers == [][yellow = 0 /\ yellow' = 1 => moved]_vars

\* The inductive invariant behind it: while nothing was transferred, the counters the
\* daemon remembers are those of the disk.
YellowInv ==
  /\ moved \in BOOLEAN
  /\ have_disk /\ ~moved => prd = rd /\ pwr = wr

\* Once the first counters are known, every transfer lights the LED, unless the device
\* or the node is away, the daemon dies or the last write of the node failed: set_yellow
\* does not repeat a value that was not taken.
TransferIsShown ==
  (have_disk /\ (rd # prd \/ wr # pwr))
    ~> (yellow = 1 \/ ~node \/ ~listed \/ missed \/ ~have_disk)

\* Transfers end here, and the LED then goes dark and stays so if the node can be opened
\* and the last write of it did not fail: whatever attempts failed before, and also when
\* the daemon died with the LED lit.
GoesDark == <>[](node /\ ~missed) => <>[](yellow = 0)
=============================================================================
