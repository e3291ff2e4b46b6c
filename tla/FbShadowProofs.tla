--------------------------- MODULE FbShadowProofs ---------------------------
(***************************************************************************)
(* No damage of the framebuffer console is lost, for any screen size and   *)
(* any number of drawers.                                                  *)
(***************************************************************************)
EXTENDS FbShadow, TLAPS

\* What Join returns is a rectangle around both its arguments.
LEMMA JoinCovers ==
  ASSUME NEW r \in Rects, NEW s \in Rects
  PROVE  Join(r, s) \in Rects /\ In(r) \cup In(s) \subseteq In(Join(r, s))
<1>1. Join(r, s) \in Rects
  BY ScreenAssumption, SMT DEF Join, Rects, Least, Most
<1>2. ASSUME NEW p \in Pixels, p \in In(r) \/ p \in In(s)
      PROVE  p \in In(Join(r, s))
  BY <1>2, ScreenAssumption, SMT DEF Join, Rects, Least, Most, In, Pixels, Columns, Rows
<1> QED  BY <1>1, <1>2 DEF In

\* The empty clip is a rectangle without pixels.
LEMMA NoClipEmpty == NoClip \in Rects /\ In(NoClip) = {}
<1>1. NoClip \in Rects
  BY ScreenAssumption DEF NoClip, Rects
<1>2. ASSUME NEW p \in Pixels PROVE p \notin In(NoClip)
  BY ScreenAssumption DEF NoClip, In, Pixels, Columns, Rows
<1> QED  BY <1>1, <1>2 DEF In

\* The damage of a write covers every pixel that it stored.
LEMMA RangeCovers ==
  ASSUME NEW p \in Pixels, NEW q \in Pixels, Span(p, q) # {}
  PROVE  RangeClip(p, q) \in Rects /\ Span(p, q) \subseteq In(RangeClip(p, q))
<1>1. RangeClip(p, q) \in Rects
  BY ScreenAssumption DEF RangeClip, Rects, Pixels, Columns, Rows
<1>2. ASSUME NEW s \in Pixels, s \in Span(p, q)
      PROVE  s \in In(RangeClip(p, q))
  BY <1>2, ScreenAssumption DEF RangeClip, In, Span, Pixels, Columns, Rows
<1> QED  BY <1>1, <1>2 DEF Span

\* Initially nothing is drawn and nothing is damaged.
LEMMA InitIInv == Init => IInv
<1> SUFFICES ASSUME Init PROVE IInv
  OBVIOUS
<1>1. TypeOK
  BY NoClipEmpty DEF Init, TypeOK
<1> QED  BY <1>1 DEF Init, IInv, NoLostDamage

\* A drawing call starts: its rectangle covers what it is going to draw.
LEMMA StartIInv ==
  ASSUME IInv, NEW d \in Drawers, NEW r \in Rects, NEW S \in SUBSET In(r),
         op[d] = Idle,
         op' = [op EXCEPT ![d] = [rect |-> r, todo |-> S]],
         UNCHANGED <<behind, kvaddr, clip, queued, taken, left>>
  PROVE  IInv'
<1> DEFINE o == [rect |-> r, todo |-> S]
<1>1. S \subseteq Pixels
  BY DEF In
<1>2. TypeOK'
  BY <1>1 DEF IInv, TypeOK
<1>3. op'[d] = o /\ \A e \in Drawers \ {d} : op'[e] = op[e]
  BY DEF IInv, TypeOK
<1>4. NoLostDamage'
  <2> SUFFICES ASSUME NEW p \in behind PROVE p \in Pending'
    BY DEF NoLostDamage
  <2>1. p \in Pending
    BY DEF IInv, NoLostDamage
  <2> QED  BY <2>1, <1>3 DEF Pending
<1>5. \A e \in Drawers : op'[e] # Idle => op'[e].todo \subseteq In(op'[e].rect)
  BY <1>3 DEF IInv
<1> QED  BY <1>2, <1>4, <1>5 DEF IInv, In

\* A pixel that is being drawn lies in the rectangle of its drawing call.
LEMMA DrawIInv == ASSUME IInv, NEW d \in Drawers, draw_pixel(d) PROVE IInv'
<1>1. PICK p \in op[d].todo : /\ behind' = behind \cup {p}
                              /\ op' = [op EXCEPT ![d].todo = @ \ {p}]
  BY DEF draw_pixel
<1>2. op[d] \in [rect : Rects, todo : SUBSET Pixels] /\ op[d] # Idle
  BY DEF IInv, TypeOK, draw_pixel
<1>3. /\ op'[d] = [rect |-> op[d].rect, todo |-> op[d].todo \ {p}]
      /\ \A e \in Drawers \ {d} : op'[e] = op[e]
  BY <1>1, <1>2 DEF IInv, TypeOK
<1>4. op' \in [Drawers -> {Idle} \cup [rect : Rects, todo : SUBSET Pixels]]
  BY <1>1, <1>2 DEF IInv, TypeOK
<1>5. op'[d] # Idle
  BY <1>2, <1>3, IdleAssumption
<1>6. TypeOK'
  BY <1>1, <1>2, <1>4 DEF IInv, TypeOK, draw_pixel
<1>7. NoLostDamage'
  <2> SUFFICES ASSUME NEW q \in behind' PROVE q \in Pending'
    BY DEF NoLostDamage
  <2>1. CASE q = p
    BY <2>1, <1>2, <1>3, <1>5 DEF Pending, IInv
  <2>2. CASE q \in behind
    <3>1. q \in Pending
      BY <2>2 DEF IInv, NoLostDamage
    <3> QED  BY <3>1, <1>3, <1>5 DEF Pending, draw_pixel
  <2> QED  BY <1>1, <2>1, <2>2
<1>8. \A e \in Drawers : op'[e] # Idle => op'[e].todo \subseteq In(op'[e].rect)
  BY <1>2, <1>3 DEF IInv
<1> QED  BY <1>6, <1>7, <1>8 DEF IInv, In

\* The rectangle of a drawing call passes into the clip.
LEMMA DamageIInv == ASSUME IInv, NEW d \in Drawers, damage(d) PROVE IInv'
<1>1. op[d] \in [rect : Rects, todo : SUBSET Pixels] /\ op[d] # Idle
  BY DEF IInv, TypeOK, damage
<1>2. clip' \in Rects /\ In(clip) \cup In(op[d].rect) \subseteq In(clip')
  BY <1>1, JoinCovers DEF IInv, TypeOK, damage
<1>3. op'[d] = Idle /\ \A e \in Drawers \ {d} : op'[e] = op[e]
  BY DEF IInv, TypeOK, damage
<1>4. TypeOK'
  BY <1>2 DEF IInv, TypeOK, damage
<1>5. NoLostDamage'
  <2> SUFFICES ASSUME NEW q \in behind PROVE q \in Pending'
    BY DEF NoLostDamage, damage
  <2>1. q \in Pending
    BY DEF IInv, NoLostDamage
  <2> QED  BY <2>1, <1>2, <1>3 DEF Pending, damage
<1>6. \A e \in Drawers : op'[e] # Idle => op'[e].todo \subseteq In(op'[e].rect)
  BY <1>3 DEF IInv
<1> QED  BY <1>4, <1>5, <1>6 DEF IInv, In

\* The worker is answerable for the clip that it takes, copies and, if it
\* cannot copy, gives back.
LEMMA WorkIInv ==
  ASSUME IInv, take_clip \/ blit \/ dirty_returns
  PROVE  IInv'
<1>1. op' = op /\ kvaddr' = kvaddr
  BY DEF take_clip, blit, dirty_returns
<1>2. SUFFICES TypeOK' /\ NoLostDamage'
  BY <1>1 DEF IInv, In
<1>3. CASE take_clip
  <2>1. TypeOK'
    BY <1>3, NoClipEmpty DEF IInv, TypeOK, take_clip
  <2>2. left = {} /\ In(taken) = {}
    BY <1>3, NoClipEmpty DEF IInv, TypeOK, take_clip
  <2>3. \A q \in behind : q \in Pending'
    BY <1>3, <2>2 DEF IInv, NoLostDamage, Pending, take_clip
  <2> QED  BY <2>1, <2>3, <1>3 DEF NoLostDamage, take_clip
<1>4. CASE blit
  <2>1. PICK p \in left : behind' = behind \ {p} /\ left' = left \ {p}
    BY <1>4 DEF blit
  <2>2. TypeOK'
    BY <1>4, <2>1 DEF IInv, TypeOK, blit
  <2>3. \A q \in behind' : q \in Pending'
    BY <1>4, <2>1 DEF IInv, NoLostDamage, Pending, blit
  <2> QED  BY <2>2, <2>3 DEF NoLostDamage
<1>5. CASE dirty_returns
  <2>1. clip' \in Rects /\ In(clip) \subseteq In(clip')
        /\ (~kvaddr => In(taken) \subseteq In(clip'))
    BY <1>5, JoinCovers DEF IInv, TypeOK, dirty_returns
  <2>2. TypeOK'
    BY <1>5, <2>1, NoClipEmpty DEF IInv, TypeOK, dirty_returns
  <2>3. \A q \in behind : q \in Pending'
    BY <1>5, <2>1 DEF IInv, NoLostDamage, Pending, dirty_returns
  <2> QED  BY <2>2, <2>3, <1>5 DEF NoLostDamage, dirty_returns
<1> QED  BY <1>3, <1>4, <1>5

\* Every step keeps the invariant.
LEMMA NextIInv == ASSUME IInv, [Next]_vars PROVE IInv'
<1>1. ASSUME NEW d \in Drawers, NEW r \in Rects, draw(d, r) PROVE IInv'
  BY <1>1, StartIInv DEF draw
<1>2. ASSUME NEW d \in Drawers, NEW p \in Pixels, NEW q \in Pixels, defio_write(d, p, q)
      PROVE  IInv'
  BY <1>2, RangeCovers, StartIInv DEF defio_write
<1>3. CASE UNCHANGED vars
  BY <1>3 DEF vars, IInv, TypeOK, NoLostDamage, Pending, In
<1> QED  BY <1>1, <1>2, <1>3, DrawIInv, DamageIInv, WorkIInv DEF Next

\* The inductive invariant of the shadow buffer.
THEOREM Inductive == Spec => []IInv
<1>1. Init => IInv
  BY InitIInv
<1>2. IInv /\ [Next]_vars => IInv'
  BY NextIInv
<1> QED  BY <1>1, <1>2, PTL DEF Spec

\* The variables of the shadow buffer keep their types, and the worker copies
\* inside the clip that it took.
THEOREM Typing == Spec => []TypeOK
<1>1. IInv => TypeOK
  BY DEF IInv
<1> QED  BY <1>1, Inductive, PTL

\* Whatever the order of drawing, reporting and copying, a pixel that the screen
\* does not show yet is still in somebody's hands.
THEOREM Damage == Spec => []NoLostDamage
<1>1. IInv => NoLostDamage
  BY DEF IInv
<1> QED  BY <1>1, Inductive, PTL
=============================================================================
