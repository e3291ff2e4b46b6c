------------------------------ MODULE FbShadow ------------------------------
(***************************************************************************)
(* The framebuffer console of kernel #28 (tools/patches/v28-patch.py with  *)
(* v28-patch2.py): drawing goes to a shadow buffer, the drawn rectangle is *)
(* added to the damage of the fb helper, and the helper's worker copies    *)
(* the damaged rectangle into the buffer that is scanned out.  Drawing and *)
(* copying share no lock.                                                  *)
(*                                                                         *)
(* A pixel is a pair <<x, y>>; a rectangle is half open, as drm_clip_rect  *)
(* is.  Of the contents of the two buffers the model keeps which pixels    *)
(* were drawn since they were last copied.                                 *)
(***************************************************************************)
EXTENDS Integers

CONSTANTS
  Width, Height,
  Drawers,       \* fbcon and the writers of /dev/fb0
  Idle           \* a drawer that is not in an operation

ASSUME ScreenAssumption ==
  /\ Width \in Nat \ {0} /\ Height \in Nat \ {0}

VARIABLES
  behind,    \* pixels of info->screen_buffer drawn since rk_obj->kvaddr got them
  kvaddr,    \* the scanned-out buffer has a kernel mapping
  clip,      \* damage_clip of the helper
  queued,    \* damage_work is pending
  taken,     \* the clip that rockchip_fbdev_dirty works on, or NoClip
  left,      \* its pixels that are still to be copied
  op         \* what each drawer is drawing

vars == <<behind, kvaddr, clip, queued, taken, left, op>>

Columns == 0 .. Width - 1
Rows == 0 .. Height - 1
Pixels == Columns \X Rows

Rects == [x1 : 0 .. Width, y1 : 0 .. Height, x2 : 0 .. Width, y2 : 0 .. Height]

NoClip == [x1 |-> Width, y1 |-> Height, x2 |-> 0, y2 |-> 0]

ASSUME IdleAssumption == Idle \notin [rect : Rects, todo : SUBSET Pixels]

In(r) == {p \in Pixels : r.x1 <= p[1] /\ p[1] < r.x2 /\ r.y1 <= p[2] /\ p[2] < r.y2}

Least(i, j) == IF i < j THEN i ELSE j
Most(i, j) == IF i < j THEN j ELSE i

\* drm_fb_helper_add_damage_clip: the smallest rectangle around both.
Join(r, s) == [x1 |-> Least(r.x1, s.x1), y1 |-> Least(r.y1, s.y1),
               x2 |-> Most(r.x2, s.x2), y2 |-> Most(r.y2, s.y2)]

-----------------------------------------------------------------------------
Init ==
  /\ behind = {}
  /\ kvaddr \in BOOLEAN
  /\ clip = NoClip /\ queued = FALSE
  /\ taken = NoClip /\ left = {}
  /\ op = [d \in Drawers |-> Idle]

\* fillrect, copyarea and imageblit: sys_* draws a rectangle pixel by pixel ...
draw(d, r) ==
  /\ op[d] = Idle
  /\ In(r) # {}
  /\ op' = [op EXCEPT ![d] = [rect |-> r, todo |-> In(r)]]
  /\ UNCHANGED <<behind, kvaddr, clip, queued, taken, left>>

\* The pixels from p to q in the order of memory.
Span(p, q) ==
  {s \in Pixels : /\ p[2] < s[2] \/ (p[2] = s[2] /\ p[1] <= s[1])
                  /\ s[2] < q[2] \/ (s[2] = q[2] /\ s[1] <= q[1])}

\* drm_fb_helper_damage_range: whole rows, unless all is in one.
RangeClip(p, q) ==
  [x1 |-> IF p[2] = q[2] THEN p[1] ELSE 0,
   y1 |-> p[2],
   x2 |-> IF p[2] = q[2] THEN q[1] + 1 ELSE Width,
   y2 |-> q[2] + 1]

\* Mutant of defio_write: *ppos is read after the write has moved it.
WriteThenOffset(d, p, q) ==
  /\ op[d] = Idle
  /\ Span(p, q) # {}
  /\ op' = [op EXCEPT ![d] = [rect |-> RangeClip(q, q), todo |-> Span(p, q)]]
  /\ UNCHANGED <<behind, kvaddr, clip, queued, taken, left>>

\* rockchip_fbdev_defio_write: fb_sys_write stores a range of pixels ...
defio_write(d, p, q) ==
  /\ op[d] = Idle
  /\ Span(p, q) # {}
  /\ op' = [op EXCEPT ![d] = [rect |-> RangeClip(p, q), todo |-> Span(p, q)]]
  /\ UNCHANGED <<behind, kvaddr, clip, queued, taken, left>>

draw_pixel(d) ==
  /\ op[d] # Idle
  /\ \E p \in op[d].todo :
       /\ behind' = behind \cup {p}
       /\ op' = [op EXCEPT ![d].todo = @ \ {p}]
  /\ UNCHANGED <<kvaddr, clip, queued, taken, left>>

\* Mutant of damage: the worker is not woken up while it is busy.
DamageIfIdle(d) ==
  /\ op[d] # Idle /\ op[d].todo = {}
  /\ clip' = Join(clip, op[d].rect)
  /\ queued' = (queued \/ taken = NoClip)
  /\ op' = [op EXCEPT ![d] = Idle]
  /\ UNCHANGED <<behind, kvaddr, taken, left>>

\* ... and then the damage is noted and the worker woken up.
damage(d) ==
  /\ op[d] # Idle /\ op[d].todo = {}
  /\ clip' = Join(clip, op[d].rect)
  /\ queued' = TRUE
  /\ op' = [op EXCEPT ![d] = Idle]
  /\ UNCHANGED <<behind, kvaddr, taken, left>>

-----------------------------------------------------------------------------
\* Mutant of take_clip: the loop over the rows ends one row early.
TakeLessARow ==
  /\ queued /\ taken = NoClip
  /\ queued' = FALSE
  /\ taken' = clip /\ clip' = NoClip
  /\ left' = IF kvaddr THEN In([clip EXCEPT !.y2 = @ - 1]) ELSE {}
  /\ UNCHANGED <<behind, kvaddr, op>>

\* drm_fb_helper_damage_work takes the clip and leaves an empty one, and
\* rockchip_fbdev_dirty looks at it.
take_clip ==
  /\ queued /\ taken = NoClip
  /\ queued' = FALSE
  /\ taken' = clip /\ clip' = NoClip
  /\ left' = IF kvaddr THEN In(clip) ELSE {}
  /\ UNCHANGED <<behind, kvaddr, op>>

\* memcpy, one row after the other.
blit ==
  /\ \E p \in left :
       /\ \A q \in left : p[2] <= q[2]
       /\ behind' = behind \ {p}
       /\ left' = left \ {p}
  /\ UNCHANGED <<kvaddr, clip, queued, taken, op>>

\* Without a mapping nothing was copied: -EINVAL, and the helper takes the
\* damage back.
dirty_returns ==
  /\ taken # NoClip /\ left = {}
  /\ taken' = NoClip
  /\ clip' = IF kvaddr THEN clip ELSE Join(clip, taken)
  /\ UNCHANGED <<behind, kvaddr, queued, left, op>>

Next ==
  \/ \E d \in Drawers :
       \/ \E r \in Rects : draw(d, r)
       \/ \E p, q \in Pixels : defio_write(d, p, q)
       \/ draw_pixel(d) \/ damage(d)
  \/ take_clip \/ blit \/ dirty_returns

\* Drawing calls return, and the system workqueue runs.
Fairness ==
  /\ \A d \in Drawers : WF_vars(draw_pixel(d) \/ damage(d))
  /\ WF_vars(take_clip \/ blit \/ dirty_returns)

Spec == Init /\ [][Next]_vars /\ Fairness

-----------------------------------------------------------------------------
TypeOK ==
  /\ behind \subseteq Pixels
  /\ kvaddr \in BOOLEAN /\ queued \in BOOLEAN
  /\ clip \in Rects /\ taken \in Rects
  /\ left \subseteq In(taken)
  /\ op \in [Drawers -> {Idle} \cup [rect : Rects, todo : SUBSET Pixels]]

\* Pixels that some drawer, the worker or the worker's next round is still
\* answerable for.
Pending ==
  In(clip) \cup (IF kvaddr THEN left ELSE In(taken))
    \cup UNION {In(op[d].rect) : d \in {e \in Drawers : op[e] # Idle}}

\* No damage is lost between the drawers and the worker: a pixel on the screen
\* that is not what was drawn is in the damage, is about to be copied, or belongs
\* to a drawing call that has yet to note its damage.
NoLostDamage == behind \subseteq Pending

\* The inductive invariant behind NoLostDamage: a drawing call stays inside the
\* rectangle that it will report.
IInv ==
  /\ TypeOK
  /\ NoLostDamage
  /\ \A d \in Drawers : op[d] # Idle => op[d].todo \subseteq In(op[d].rect)

\* When the drawing stops, the screen ends up with what was drawn.
Settles ==
  kvaddr /\ <>[](\A d \in Drawers : op[d] = Idle) => <>[](behind = {})
=============================================================================
