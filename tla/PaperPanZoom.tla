----------------------------- MODULE PaperPanZoom -----------------------------
(***************************************************************************)
(* Panning and zooming of a page: paperPanZoom.js with the gestures of     *)
(* controlTouchPanZoom.js and controlDrawing.js that drive it.  Gestures   *)
(* set where the view is; animation frames show it, and let it drift on    *)
(* after a fling.                                                          *)
(*                                                                         *)
(* Of the zoom factor z the module has `unit` = 1/z, the length on the     *)
(* paper of a pixel, in which all the formulas of the code are sums and    *)
(* products of integers.  NaN is what arithmetic with an undefined value   *)
(* gives; each comparison with it is false.                                *)
(***************************************************************************)
EXTENDS Integers

CONSTANTS
  Axes,         \* the two directions
  Vertical,     \* the one that a wheel with shift pans
  MinUnit,      \* at the highest zoom factor
  MaxUnit,      \* at the lowest zoom factor
  FirstUnit,    \* at the zoom factor of a new page
  Extents,      \* how far the paper may reach
  Point,        \* places of a pointer on the screen
  Flings,       \* velocities of a fling on the screen
  MaxVelocity,  \* bound on what flings add up to
  Intervals,    \* times between two frames
  NaN

ASSUME UnitAssumption == 
  MinUnit \in Nat \ {0} /\ MaxUnit \in Nat /\ FirstUnit \in MinUnit..MaxUnit
ASSUME ExtentsAssumption == Extents \subseteq Nat /\ Extents # {}
ASSUME InputsAssumption ==
  Point \subseteq [Axes -> Int] /\ Flings \subseteq [Axes -> Int] /\ MaxVelocity \in Nat
ASSUME IntervalsAssumption == Intervals \subseteq Nat \ {0} /\ Intervals # {}
ASSUME AxesAssumption == Vertical \in Axes
ASSUME NaNAssumption == NaN \notin Int

VARIABLES
  scroll,       \* scrollLeft and scrollTop
  velocity,     \* velocityX and velocityY
  unit,         \* 1 / zoomFactor
  unitStart,    \* 1 / zoomFactorStart, and so on, set by relStart
  scrollStart,
  centerStart,
  offsetStart,  \* offsetXstart and offsetYstart of controlDrawing
  moving,       \* lastFrame is not null
  animating,    \* an animation frame is requested
  extent,       \* of the paper, in every direction
  stale,        \* history: changed since it was last shown
  gesture,      \* history: the gesture that set the start values
  unstarted     \* history: a pan went on that had never begun

starts == <<unitStart, scrollStart, centerStart, gesture>>
vars == <<scroll, velocity, unit, starts, offsetStart, moving, animating, extent,
          stale, unstarted>>

Unit == MinUnit..MaxUnit
Undefined == [a \in Axes |-> NaN]
Still == [a \in Axes |-> 0]

\* The movements of a pointer, or of the fingers.
Drag == {[a \in Axes |-> p[a] - q[a]] : p, q \in Point}

----------------------------------------------------------------------------
\* Mutant: no lower limit.
PanUpwards(left) == IF left # NaN /\ left > extent THEN extent ELSE left

\* setPan.  Neither comparison holds for NaN.
Pan(left) ==
  CASE left = NaN -> NaN
    [] left # NaN /\ left < 0 -> 0
    [] left # NaN /\ left > extent -> extent
    [] OTHER -> left

\* Mutant: no limit to how small the paper gets.
ZoomOut(u) == IF u # NaN /\ u < MinUnit THEN MinUnit ELSE u

\* setZoom.
Zoom(u) ==
  CASE u = NaN -> NaN
    [] u # NaN /\ u < MinUnit -> MinUnit
    [] u # NaN /\ u > MaxUnit -> MaxUnit
    [] OTHER -> u

\* relStart.
RelStart(center, who) ==
  /\ unitStart' = unit
  /\ scrollStart' = scroll
  /\ centerStart' = center
  /\ gesture' = who

\* Mutant: scales the center by the zoom that was asked for.
MovedUnlimited(start, from, center, u, delta) ==
  IF NaN \in {start, from, u, delta} THEN NaN
  ELSE start + center * (from - u) - delta * Zoom(u)

(***************************************************************************)
(* relZoomPan in one direction: the start of the view, the unit then, and  *)
(* the center (on the screen), the unit asked for and the movement.        *)
(***************************************************************************)
Moved(start, from, center, u, delta) ==
  IF NaN \in {start, from, u, delta} THEN NaN
  ELSE start + center * (from - Zoom(u)) - delta * Zoom(u)

RelZoomPan(start, from, center, u, delta) ==
  /\ unit' = Zoom(u)
  /\ scroll' = [a \in Axes |-> Pan(Moved(start[a], from, center[a], u, delta[a]))]
  /\ animating' = TRUE
  /\ stale' = TRUE

----------------------------------------------------------------------------
\* The constructor.
Init ==
  /\ scroll = Still
  /\ velocity = Still
  /\ unit = FirstUnit
  /\ unitStart = NaN
  /\ scrollStart = Undefined
  /\ centerStart = Undefined
  /\ offsetStart = Undefined
  /\ moving = FALSE
  /\ animating = TRUE
  /\ extent \in Extents
  /\ stale = TRUE
  /\ gesture = "None"
  /\ unstarted = FALSE

\* The units a gesture asks for.  Beyond the limits they are all alike, a
\* wheel that asks for a negative factor included.
Asked == MinUnit - 1..MaxUnit + 1

\* pinchstart, pinch and pinchend.  A pinch may go on after the wheel or a
\* pan has set the start values anew.
PinchStart(center) ==
  /\ RelStart(center, "Pinch")
  /\ UNCHANGED <<scroll, velocity, unit, offsetStart, moving, animating, extent,
                 stale, unstarted>>

Pinch(u, delta) ==
  /\ unitStart # NaN
  /\ RelZoomPan(scrollStart, unitStart, centerStart, u, delta)
  /\ UNCHANGED <<velocity, starts, offsetStart, moving, extent, unstarted>>

\* setPanVelocity: flings in the same direction add up.
Flung(v, x) ==
  IF NaN \notin {v, x} /\ ((x > 0 /\ v > 0) \/ (x < 0 /\ v < 0)) THEN v + x ELSE x

PinchEnd(v) ==
  /\ velocity' = [a \in Axes |->
       Flung(velocity[a], IF unit = NaN THEN NaN ELSE 0 - v[a] * unit)]
  /\ \A a \in Axes : velocity'[a] # NaN => velocity'[a] \in (-MaxVelocity)..MaxVelocity
  /\ animating' = TRUE
  /\ UNCHANGED <<scroll, unit, starts, offsetStart, moving, extent, stale, unstarted>>

\* The wheel: a gesture of its own, which zooms, or pans with shift.
WheelZoom(center, u) ==
  /\ RelStart(center, "None")
  /\ RelZoomPan(scroll, unit, center, IF unit = NaN THEN NaN ELSE u, Still)
  /\ UNCHANGED <<velocity, offsetStart, moving, extent, unstarted>>

WheelPan(center, delta) ==
  /\ RelStart(center, "None")
  /\ RelZoomPan(scroll, unit, center, unit, [Still EXCEPT ![Vertical] = delta])
  /\ UNCHANGED <<velocity, offsetStart, moving, extent, unstarted>>

\* panStart: the middle button, or the first one in mode Point.
PanStart(p) ==
  /\ RelStart(p, "Pan")
  /\ offsetStart' = p
  /\ UNCHANGED <<scroll, velocity, unit, moving, animating, extent, stale, unstarted>>

(***************************************************************************)
(* onPointerMove with the middle button down, or with the first one in     *)
(* mode Point.  Nothing makes sure that the press was seen by panStart.    *)
(***************************************************************************)
PanMove(p) ==
  /\ RelZoomPan(scrollStart, unitStart, [a \in Axes |-> 0], unitStart,
                [a \in Axes |-> IF offsetStart[a] = NaN THEN NaN ELSE p[a] - offsetStart[a]])
  /\ unstarted' = (unstarted \/ offsetStart = Undefined)
  /\ UNCHANGED <<velocity, starts, offsetStart, moving, extent>>

\* Somebody draws, or undoes something.
PaperChanges ==
  /\ extent' \in Extents
  /\ UNCHANGED <<scroll, velocity, unit, starts, offsetStart, moving, animating,
                 stale, unstarted>>

----------------------------------------------------------------------------
\* Mutant: goes on past zero.
SlowedPastZero(v, dt) ==
  CASE NaN \in {v, unit} -> NaN
    [] NaN \notin {v, unit} /\ v > 0 -> v - unit * dt
    [] OTHER -> v + unit * dt

\* calcV.
Slowed(v, dt) ==
  CASE NaN \in {v, unit} -> NaN
    [] NaN \notin {v, unit} /\ unit * dt >= v /\ unit * dt >= 0 - v -> 0
    [] NaN \notin {v, unit} /\ v > unit * dt -> v - unit * dt
    [] OTHER -> v + unit * dt

Drifted(a, dt) ==
  Pan(IF NaN \in {scroll[a], velocity[a]} THEN NaN ELSE scroll[a] + velocity[a] * dt)

\* Mutant: forgets the frame, as when only one velocity counted.
AnimateOnce(dt) ==
  /\ animating
  /\ scroll' = IF moving THEN [a \in Axes |-> Drifted(a, dt)] ELSE scroll
  /\ velocity' = IF moving THEN [a \in Axes |-> Slowed(velocity[a], dt)] ELSE velocity
  /\ stale' = FALSE
  /\ moving' = (velocity' # Still)
  /\ animating' = (velocity'[Vertical] # 0)
  /\ UNCHANGED <<unit, starts, offsetStart, extent, unstarted>>

\* animate: drifts, shows the view, and asks for another frame while it moves.
Animate(dt) ==
  /\ animating
  /\ scroll' = IF moving THEN [a \in Axes |-> Drifted(a, dt)] ELSE scroll
  /\ velocity' = IF moving THEN [a \in Axes |-> Slowed(velocity[a], dt)] ELSE velocity
  /\ stale' = FALSE
  /\ moving' = (velocity' # Still)
  /\ animating' = (velocity' # Still)
  /\ UNCHANGED <<unit, starts, offsetStart, extent, unstarted>>

Frame == \E dt \in Intervals : Animate(dt)

Fling == \E v \in Flings : PinchEnd(v)

Next ==
  \/ Frame
  \/ Fling
  \/ \E p \in Point :
       \/ PinchStart(p)
       \/ PanStart(p)
       \/ PanMove(p)
       \/ \E u \in Asked : WheelZoom(p, u)
       \/ \E d \in Drag : WheelPan(p, d[Vertical])
  \/ \E d \in Drag, u \in Asked : Pinch(u, d)
  \/ PaperChanges

Spec == Init /\ [][Next]_vars

\* The browser gives the frames it is asked for.
FairSpec == Spec /\ WF_vars(Frame)

----------------------------------------------------------------------------
Number == Int \union {NaN}

TypeOK ==
  /\ scroll \in [Axes -> Number]
  /\ velocity \in [Axes -> Number]
  /\ {unit, unitStart} \subseteq Unit \union {NaN}
  /\ scrollStart \in [Axes -> Number]
  /\ centerStart \in [Axes -> Number]
  /\ offsetStart \in [Axes -> Number]
  /\ moving \in BOOLEAN
  /\ animating \in BOOLEAN
  /\ extent \in Extents
  /\ stale \in BOOLEAN
  /\ gesture \in {"None", "Pinch", "Pan"}
  /\ unstarted \in BOOLEAN

(***************************************************************************)
(* Whatever gestures, flings and frames come together, the zoom keeps its  *)
(* limits and the view does not leave the paper at the top and the left.   *)
(* The exception is a page on which a pan went on before any had begun:    *)
(* its view is NaN, and stays it.                                          *)
(***************************************************************************)
ViewInLimits ==
  ~unstarted => unit \in Unit /\ \A a \in Axes : scroll[a] \in Nat

(***************************************************************************)
(* A view that changed is shown and a fling goes on: a frame is requested. *)
(* And the time of the last frame is kept only while frames follow each    *)
(* other, so that the first step of a fling does not jump by all the time  *)
(* since the last one.                                                     *)
(***************************************************************************)
FrameRequested == (stale \/ moving \/ velocity # Still) => animating

(***************************************************************************)
(* The place of the paper that a pinch or a pan took hold of stays under   *)
(* the fingers, or the pointer, at any zoom, at the limits of the zoom     *)
(* too, and though a fling may still move the view between two events.     *)
(* The edges of the paper stop it, and another gesture ends it.            *)
(***************************************************************************)
HeldAt(place) ==
  \A a \in Axes :
    \/ scroll'[a] + place[a] * unit' = scrollStart[a] + centerStart[a] * unitStart
    \/ scroll'[a] \in {0, extent}

Holds ==
  ~unstarted =>
    /\ gesture = "Pan" => \A p \in Point : PanMove(p) => HeldAt(p)
    /\ gesture = "Pinch" =>
         \A d \in Drag, u \in Asked :
           Pinch(u, d) => HeldAt([a \in Axes |-> centerStart[a] + d[a]])

Anchored == [][Holds]_vars

\* Every fling comes to a stop, if the user does not fling for ever.
FlingEnds == []<>(velocity = Still \/ unstarted) \/ []<><<Fling>>_vars
==============================================================================
