-------------------------- MODULE PaperPanZoomProofs --------------------------
(***************************************************************************)
(* For any paper, any limits of the zoom and any gestures: the view keeps  *)
(* its limits, a view that changed is shown, and what the fingers hold     *)
(* stays under them.                                                       *)
(*                                                                         *)
(* ViewInLimits says nothing of what gestures start from; Started does,    *)
(* for each way a gesture may begin or go on.                              *)
(***************************************************************************)
EXTENDS PaperPanZoom, TLAPS

\* Once a gesture began, the start values are those of a view in its limits;
\* a pan that began has them, and holds the paper where it was pressed.
Started ==
  /\ unitStart # NaN =>
       /\ unitStart \in Unit
       /\ scrollStart \in [Axes -> Nat]
       /\ centerStart \in [Axes -> Int]
  /\ offsetStart # Undefined => offsetStart \in [Axes -> Int] /\ unitStart # NaN
  /\ gesture = "Pan" => offsetStart = centerStart /\ unitStart # NaN

InLimits ==
  ~unstarted =>
    /\ unit \in Unit
    /\ scroll \in [Axes -> Nat]
    /\ velocity \in [Axes -> Int]
    /\ Started

LEMMA Units ==
  /\ Unit \subseteq Int
  /\ \A u \in Unit : u >= 1
  /\ FirstUnit \in Unit
  /\ \A u \in Asked : u \in Int
BY UnitAssumption DEF Unit, Asked

\* The limits of setZoom and setPan.
LEMMA ZoomLimits ==
  /\ \A u \in Int : Zoom(u) \in Unit
  /\ \A u \in Unit : Zoom(u) = u
  /\ Zoom(NaN) = NaN
BY UnitAssumption, NaNAssumption DEF Zoom, Unit

LEMMA PanLimits ==
  ASSUME extent \in Extents
  PROVE  /\ \A left \in Int : Pan(left) \in Nat /\ Pan(left) \in {left, 0, extent}
         /\ Pan(NaN) = NaN
BY ExtentsAssumption, NaNAssumption DEF Pan

\* relZoomPan computes in numbers if it is given numbers, ...
LEMMA MovedInt ==
  ASSUME NEW start \in Int, NEW from \in Int, NEW center \in Int, NEW u \in Int,
         NEW delta \in Int
  PROVE  /\ Moved(start, from, center, u, delta) \in Int
         /\ Moved(start, from, center, u, delta) =
              start + center * (from - Zoom(u)) - delta * Zoom(u)
<1>1. Zoom(u) \in Int
  BY ZoomLimits, Units
<1>2. NaN \notin {start, from, u, delta}
  BY NaNAssumption
<1> QED
  BY <1>1, <1>2 DEF Moved

\* ... and gives a number or NaN whatever it is given.
LEMMA MovedNumber ==
  ASSUME NEW start \in Number, NEW from \in Number, NEW center \in Number,
         NEW u \in Number, NEW delta \in Number,
         from # NaN => center # NaN
  PROVE  Moved(start, from, center, u, delta) \in Number
<1>1. CASE NaN \in {start, from, u, delta}
  BY <1>1 DEF Moved, Number
<1>2. CASE NaN \notin {start, from, u, delta}
  BY <1>2, MovedInt DEF Number
<1> QED
  BY <1>1, <1>2

(***************************************************************************)
(* The place under the center is the same before and after: the algebra    *)
(* behind Anchored.                                                        *)
(***************************************************************************)
LEMMA SamePlace ==
  ASSUME NEW start \in Int, NEW from \in Int, NEW center \in Int, NEW z \in Int,
         NEW delta \in Int
  PROVE  (start + center * (from - z) - delta * z) + (center + delta) * z
           = start + center * from
<1>1. center * (from - z) = center * from - center * z
  OBVIOUS
<1>2. (center + delta) * z = center * z + delta * z
  OBVIOUS
<1>3. center * from \in Int /\ center * z \in Int /\ delta * z \in Int
  OBVIOUS
<1> QED
  BY <1>1, <1>2, <1>3
----------------------------------------------------------------------------
\* A pinch has a center as soon as it has a unit.
Centered == unitStart # NaN => centerStart \in [Axes -> Int]

\* The inputs.
LEMMA Inputs ==
  /\ \A p \in Point : p \in [Axes -> Int]
  /\ \A d \in Drag : d \in [Axes -> Int]
  /\ \A d \in Drag : [Still EXCEPT ![Vertical] = d[Vertical]] \in [Axes -> Int]
  /\ \A v \in Flings : v \in [Axes -> Int]
  /\ Still \in [Axes -> Int] /\ [a \in Axes |-> 0] \in [Axes -> Int]
BY InputsAssumption, AxesAssumption DEF Drag, Still

\* What the types say of the units.
LEMMA UnitTypes ==
  ASSUME TypeOK
  PROVE  /\ unit \in Unit \union {NaN} /\ unitStart \in Unit \union {NaN}
         /\ unit \in Number /\ unitStart \in Number
         /\ unit # NaN => unit \in Int
         /\ \A n \in Int : unit # NaN => unit * n \in Int /\ n * unit \in Int
<1>1. unit \in Unit \union {NaN} /\ unitStart \in Unit \union {NaN}
  BY DEF TypeOK
<1>2. unit # NaN => unit \in Int
  BY <1>1, Units
<1>3. ASSUME NEW n \in Int, unit # NaN
      PROVE  unit * n \in Int /\ n * unit \in Int
  <2>1. unit \in Int
    BY <1>2, <1>3
  <2> QED
    BY <2>1
<1> QED
  BY <1>1, <1>2, <1>3, Units DEF Number

\* relZoomPan keeps the types of what it sets.
LEMMA RelZoomPanType ==
  ASSUME TypeOK, NEW start \in [Axes -> Number], NEW from \in Unit \union {NaN},
         NEW center \in [Axes -> Number], NEW u \in Number, NEW delta \in [Axes -> Number],
         from # NaN => center \in [Axes -> Int],
         RelZoomPan(start, from, center, u, delta)
  PROVE  /\ unit' \in Unit \union {NaN}
         /\ scroll' \in [Axes -> Number]
         /\ animating' \in BOOLEAN
         /\ stale' \in BOOLEAN
<1>1. unit' \in Unit \union {NaN}
  BY ZoomLimits DEF RelZoomPan, Number
<1>2. ASSUME NEW a \in Axes
      PROVE  Pan(Moved(start[a], from, center[a], u, delta[a])) \in Number
  <2>1. from \in Number
    BY Units DEF Number
  <2>2. from # NaN => center[a] # NaN
    BY NaNAssumption
  <2>3. Moved(start[a], from, center[a], u, delta[a]) \in Number
    BY <2>1, <2>2, MovedNumber
  <2> QED
    BY <2>3, PanLimits DEF TypeOK, Number
<1> QED
  BY <1>1, <1>2 DEF RelZoomPan

(***************************************************************************)
(* Type correctness, for any axes, units, extents and gestures.            *)
(***************************************************************************)
THEOREM TypeCorrect == Spec => []TypeOK
<1>1. Init => TypeOK /\ Centered
  <2> SUFFICES ASSUME Init PROVE TypeOK /\ Centered
    OBVIOUS
  <2>1. Still \in [Axes -> Number] /\ Undefined \in [Axes -> Number]
    BY DEF Still, Undefined, Number
  <2>2. {unit, unitStart} \subseteq Unit \union {NaN}
    BY Units DEF Init
  <2> QED
    BY <2>1, <2>2 DEF Init, TypeOK, Centered
<1>2. TypeOK /\ Centered /\ [Next]_vars => TypeOK' /\ Centered'
  <2> SUFFICES ASSUME TypeOK, Centered, [Next]_vars
               PROVE  TypeOK' /\ Centered'
    OBVIOUS
  <2>1. ASSUME NEW dt \in Intervals, Animate(dt)
        PROVE  TypeOK' /\ Centered'
    <3>1. dt \in Int
      BY IntervalsAssumption
    <3>2. \A a \in Axes : Drifted(a, dt) \in Number
      BY <3>1, PanLimits DEF Drifted, TypeOK, Number
    <3>3. \A v \in Number : Slowed(v, dt) \in Number
      <4>1. unit # NaN => unit * dt \in Int
        BY <3>1, UnitTypes
      <4> QED
        BY <4>1 DEF Slowed, Number
    <3>4. scroll' \in [Axes -> Number]
      BY <2>1, <3>2 DEF Animate, TypeOK
    <3>5. velocity' \in [Axes -> Number]
      BY <2>1, <3>3 DEF Animate, TypeOK
    <3>6. moving' \in BOOLEAN /\ animating' \in BOOLEAN /\ stale' \in BOOLEAN
      BY <2>1 DEF Animate
    <3> QED
      BY <2>1, <3>4, <3>5, <3>6 DEF Animate, TypeOK, Centered, starts
  <2>2. ASSUME NEW v \in Flings, PinchEnd(v)
        PROVE  TypeOK' /\ Centered'
    <3>1. v \in [Axes -> Int]
      BY Inputs
    <3>2. ASSUME NEW a \in Axes
          PROVE  (IF unit = NaN THEN NaN ELSE 0 - v[a] * unit) \in Number
      <4>1. unit # NaN => v[a] * unit \in Int
        BY <3>1, UnitTypes
      <4> QED
        BY <4>1 DEF Number
    <3>3. \A w, x \in Number : Flung(w, x) \in Number
      BY DEF Flung, Number
    <3>4. velocity' \in [Axes -> Number]
      BY <2>2, <3>2, <3>3 DEF PinchEnd, TypeOK
    <3> QED
      BY <2>2, <3>4 DEF PinchEnd, TypeOK, Centered, starts
  <2>3. ASSUME NEW p \in Point, PinchStart(p)
        PROVE  TypeOK' /\ Centered'
    BY <2>3, Inputs DEF PinchStart, RelStart, TypeOK, Centered, Number
  <2>4. ASSUME NEW p \in Point, PanStart(p)
        PROVE  TypeOK' /\ Centered'
    BY <2>4, Inputs DEF PanStart, RelStart, TypeOK, Centered, Number
  <2>5. ASSUME NEW p \in Point, PanMove(p)
        PROVE  TypeOK' /\ Centered'
    <3> DEFINE delta == [a \in Axes |-> IF offsetStart[a] = NaN THEN NaN ELSE p[a] - offsetStart[a]]
               zero == [a \in Axes |-> 0]
    <3>1. delta \in [Axes -> Number]
      BY Inputs DEF TypeOK, Number
    <3>2. zero \in [Axes -> Int] /\ zero \in [Axes -> Number] /\ unitStart \in Number
      BY UnitTypes DEF Number
    <3>3. RelZoomPan(scrollStart, unitStart, zero, unitStart, delta)
      BY <2>5 DEF PanMove
    <3>4. /\ unit' \in Unit \union {NaN} /\ scroll' \in [Axes -> Number]
          /\ animating' \in BOOLEAN /\ stale' \in BOOLEAN
      <4> HIDE DEF delta, zero
      <4> QED
        BY <3>1, <3>2, <3>3, RelZoomPanType DEF TypeOK
    <3>5. unstarted' \in BOOLEAN
      BY <2>5 DEF PanMove, TypeOK
    <3> QED
      BY <2>5, <3>4, <3>5 DEF PanMove, TypeOK, Centered, starts
  <2>6. ASSUME NEW p \in Point, NEW u \in Asked, WheelZoom(p, u)
        PROVE  TypeOK' /\ Centered'
    <3>1. (IF unit = NaN THEN NaN ELSE u) \in Number
      BY Units DEF Number
    <3>2. p \in [Axes -> Int] /\ p \in [Axes -> Number] /\ Still \in [Axes -> Number]
      BY Inputs DEF Number, Still
    <3>3. /\ unit' \in Unit \union {NaN} /\ scroll' \in [Axes -> Number]
          /\ animating' \in BOOLEAN /\ stale' \in BOOLEAN
      BY <2>6, <3>1, <3>2, RelZoomPanType DEF WheelZoom, TypeOK
    <3> QED
      BY <2>6, <3>2, <3>3 DEF WheelZoom, RelStart, TypeOK, Centered
  <2>7. ASSUME NEW p \in Point, NEW d \in Drag, WheelPan(p, d[Vertical])
        PROVE  TypeOK' /\ Centered'
    <3> DEFINE delta == [Still EXCEPT ![Vertical] = d[Vertical]]
    <3>1. delta \in [Axes -> Number] /\ unit \in Number
      BY Inputs, Units DEF TypeOK, Number
    <3>2. p \in [Axes -> Int] /\ p \in [Axes -> Number]
      BY Inputs DEF Number
    <3>3. RelZoomPan(scroll, unit, p, unit, delta)
      BY <2>7 DEF WheelPan
    <3>4. /\ unit' \in Unit \union {NaN} /\ scroll' \in [Axes -> Number]
          /\ animating' \in BOOLEAN /\ stale' \in BOOLEAN
      <4> HIDE DEF delta
      <4> QED
        BY <3>1, <3>2, <3>3, RelZoomPanType DEF TypeOK
    <3> QED
      BY <2>7, <3>2, <3>4 DEF WheelPan, RelStart, TypeOK, Centered
  <2>8. ASSUME NEW d \in Drag, NEW u \in Asked, Pinch(u, d)
        PROVE  TypeOK' /\ Centered'
    <3>1. u \in Number /\ d \in [Axes -> Number]
      BY Inputs, Units DEF Number
    <3>2. /\ unit' \in Unit \union {NaN} /\ scroll' \in [Axes -> Number]
          /\ animating' \in BOOLEAN /\ stale' \in BOOLEAN
      BY <2>8, <3>1, RelZoomPanType DEF Pinch, TypeOK, Centered
    <3> QED
      BY <2>8, <3>2 DEF Pinch, TypeOK, Centered, starts
  <2>9. CASE PaperChanges
    BY <2>9 DEF PaperChanges, TypeOK, Centered, starts
  <2>10. CASE UNCHANGED vars
    BY <2>10 DEF vars, starts, TypeOK, Centered
  <2> QED
    BY <2>1, <2>2, <2>3, <2>4, <2>5, <2>6, <2>7, <2>8, <2>9, <2>10
    DEF Next, Frame, Fling
<1> QED
  BY <1>1, <1>2, PTL DEF Spec
----------------------------------------------------------------------------
\* relZoomPan from a start in the limits stays in them, and is what it computes
\* unless an edge of the paper stops it.
LEMMA RelZoomPanLimits ==
  ASSUME extent \in Extents, NEW start \in [Axes -> Nat], NEW from \in Unit,
         NEW center \in [Axes -> Int], NEW u \in Int, NEW delta \in [Axes -> Int],
         RelZoomPan(start, from, center, u, delta)
  PROVE  /\ unit' \in Unit
         /\ scroll' \in [Axes -> Nat]
         /\ \A a \in Axes :
              \/ scroll'[a] + (center[a] + delta[a]) * unit' = start[a] + center[a] * from
              \/ scroll'[a] \in {0, extent}
<1>1. unit' = Zoom(u) /\ unit' \in Unit /\ unit' \in Int /\ from \in Int
  BY ZoomLimits, Units DEF RelZoomPan
<1>2. ASSUME NEW a \in Axes
      PROVE  /\ Pan(Moved(start[a], from, center[a], u, delta[a])) \in Nat
             /\ \/ Pan(Moved(start[a], from, center[a], u, delta[a]))
                     + (center[a] + delta[a]) * unit' = start[a] + center[a] * from
                \/ Pan(Moved(start[a], from, center[a], u, delta[a])) \in {0, extent}
  <2> DEFINE moved == Moved(start[a], from, center[a], u, delta[a])
  <2>1. start[a] \in Int /\ center[a] \in Int /\ delta[a] \in Int
    OBVIOUS
  <2>2. moved \in Int /\ moved = start[a] + center[a] * (from - unit') - delta[a] * unit'
    <3>1. u \in Int /\ from \in Int /\ Zoom(u) = unit'
      BY <1>1
    <3>2. moved \in Int
      BY <2>1, <3>1, MovedInt
    <3>3. moved = start[a] + center[a] * (from - Zoom(u)) - delta[a] * Zoom(u)
      BY <1>1, <2>1, <3>1, NaNAssumption DEF Moved
    <3> QED
      BY <3>1, <3>2, <3>3
  <2>3. moved + (center[a] + delta[a]) * unit' = start[a] + center[a] * from
    BY <1>1, <2>1, <2>2, SamePlace
  <2> HIDE DEF moved
  <2>4. Pan(moved) \in Nat /\ Pan(moved) \in {moved, 0, extent}
    BY <2>2, PanLimits
  <2>5. CASE Pan(moved) = moved
    BY <2>3, <2>4, <2>5 DEF moved
  <2>6. CASE Pan(moved) \in {0, extent}
    BY <2>4, <2>6 DEF moved
  <2> QED
    BY <2>4, <2>5, <2>6
<1> DEFINE left(a) == Pan(Moved(start[a], from, center[a], u, delta[a]))
<1>3. scroll' = [a \in Axes |-> left(a)]
  BY DEF RelZoomPan
<1>4. \A a \in Axes : left(a) \in Nat
  BY <1>2
<1>5. \A a \in Axes : scroll'[a] = left(a)
  BY <1>3
<1> QED
  BY <1>1, <1>2, <1>3, <1>4, <1>5

\* Gestures that go on keep their start values.
LEMMA StartedStays ==
  ASSUME Started, UNCHANGED <<starts, offsetStart>>
  PROVE  Started'
BY DEF Started, starts

\* A view in its limits is what a gesture may start from.
LEMMA RelStartStarted ==
  ASSUME unit \in Unit, scroll \in [Axes -> Nat], NEW p \in Point, NEW who,
         RelStart(p, who)
  PROVE  /\ unitStart' \in Unit /\ unitStart' # NaN
         /\ scrollStart' \in [Axes -> Nat]
         /\ centerStart' \in [Axes -> Int] /\ centerStart' = p
         /\ gesture' = who
<1>1. unit # NaN
  BY Units, NaNAssumption
<1> QED
  BY <1>1, Inputs DEF RelStart

(***************************************************************************)
(* No gesture, fling or frame takes the zoom or the view out of its limits *)
(* unless a pan went on that never began.                                  *)
(***************************************************************************)
LEMMA InLimitsInductive ==
  ASSUME TypeOK, InLimits, [Next]_vars
  PROVE  InLimits'
<1> SUFFICES ASSUME ~unstarted' PROVE InLimits'
  BY DEF InLimits
<1>0. ~unstarted
  BY DEF Next, vars, Frame, Fling, Animate, PinchEnd, PinchStart, PanStart, PanMove, WheelZoom,
     WheelPan, Pinch, PaperChanges, TypeOK
<1>1. /\ unit \in Unit /\ scroll \in [Axes -> Nat] /\ velocity \in [Axes -> Int] /\ Started
      /\ unit \in Int /\ unit # NaN
      /\ extent \in Extents /\ extent \in Nat
  BY <1>0, Units, ExtentsAssumption, NaNAssumption DEF InLimits, TypeOK
<1>2. ASSUME NEW dt \in Intervals, Animate(dt)
      PROVE  InLimits'
  <2>1. dt \in Int /\ unit * dt \in Int
    BY <1>1, IntervalsAssumption
  <2>2. ASSUME NEW a \in Axes
        PROVE  Drifted(a, dt) \in Nat
    <3>1. scroll[a] \in Int /\ velocity[a] \in Int /\ velocity[a] * dt \in Int
      BY <1>1, <2>1
    <3> QED
      BY <1>1, <3>1, PanLimits, NaNAssumption DEF Drifted
  <2>3. \A v \in Int : Slowed(v, dt) \in Int
    BY <1>1, <2>1, NaNAssumption DEF Slowed
  <2>4. scroll' \in [Axes -> Nat]
    BY <1>1, <1>2, <2>2 DEF Animate
  <2>5. velocity' \in [Axes -> Int]
    BY <1>1, <1>2, <2>3 DEF Animate
  <2>6. Started'
    BY <1>1, <1>2, StartedStays DEF Animate
  <2> QED
    BY <1>1, <1>2, <2>4, <2>5, <2>6 DEF Animate, InLimits
<1>3. ASSUME NEW v \in Flings, PinchEnd(v)
      PROVE  InLimits'
  <2>1. ASSUME NEW a \in Axes
        PROVE  Flung(velocity[a], IF unit = NaN THEN NaN ELSE 0 - v[a] * unit) \in Int
    <3>1. v[a] \in Int
      BY Inputs
    <3>2. v[a] * unit \in Int
      BY <1>1, <3>1
    <3> QED
      BY <1>1, <3>2 DEF Flung
  <2>2. velocity' \in [Axes -> Int]
    BY <1>3, <2>1 DEF PinchEnd
  <2>3. Started'
    BY <1>1, <1>3, StartedStays DEF PinchEnd
  <2> QED
    BY <1>1, <1>3, <2>2, <2>3 DEF PinchEnd, InLimits
<1>4. ASSUME NEW p \in Point, PinchStart(p)
      PROVE  InLimits'
  <2>1. Started'
    BY <1>1, <1>4, RelStartStarted DEF PinchStart, Started
  <2> QED
    BY <1>1, <1>4, <2>1 DEF PinchStart, InLimits
<1>5. ASSUME NEW p \in Point, PanStart(p)
      PROVE  InLimits'
  <2>1. Started'
    BY <1>1, <1>5, RelStartStarted, Inputs DEF PanStart, Started
  <2> QED
    BY <1>1, <1>5, <2>1 DEF PanStart, InLimits
<1>6. ASSUME NEW p \in Point, PanMove(p)
      PROVE  InLimits'
  <2> DEFINE delta == [a \in Axes |-> IF offsetStart[a] = NaN THEN NaN ELSE p[a] - offsetStart[a]]
             zero == [a \in Axes |-> 0]
  <2>1. offsetStart # Undefined
    BY <1>6 DEF PanMove
  <2>2. /\ offsetStart \in [Axes -> Int] /\ unitStart \in Unit /\ unitStart \in Int
        /\ scrollStart \in [Axes -> Nat]
    BY <1>1, <2>1, Units DEF Started
  <2>3. delta \in [Axes -> Int] /\ zero \in [Axes -> Int]
    BY <2>2, Inputs, NaNAssumption
  <2>4. RelZoomPan(scrollStart, unitStart, zero, unitStart, delta)
    BY <1>6 DEF PanMove
  <2>5. unit' \in Unit /\ scroll' \in [Axes -> Nat]
    <3> HIDE DEF delta, zero
    <3> QED
      BY <1>1, <2>2, <2>3, <2>4, RelZoomPanLimits
  <2>6. Started'
    BY <1>1, <1>6, StartedStays DEF PanMove
  <2> QED
    BY <1>1, <1>6, <2>5, <2>6 DEF PanMove, InLimits
<1>7. ASSUME NEW p \in Point, NEW u \in Asked, WheelZoom(p, u)
      PROVE  InLimits'
  <2>1. RelZoomPan(scroll, unit, p, u, Still)
    BY <1>1, <1>7 DEF WheelZoom
  <2>2. unit' \in Unit /\ scroll' \in [Axes -> Nat]
    BY <1>1, <2>1, Inputs, Units, RelZoomPanLimits
  <2>3. Started'
    BY <1>1, <1>7, RelStartStarted DEF WheelZoom, Started
  <2> QED
    BY <1>1, <1>7, <2>2, <2>3 DEF WheelZoom, InLimits
<1>8. ASSUME NEW p \in Point, NEW d \in Drag, WheelPan(p, d[Vertical])
      PROVE  InLimits'
  <2> DEFINE delta == [Still EXCEPT ![Vertical] = d[Vertical]]
  <2>1. RelZoomPan(scroll, unit, p, unit, delta)
    BY <1>8 DEF WheelPan
  <2>2. delta \in [Axes -> Int]
    BY Inputs
  <2>3. unit' \in Unit /\ scroll' \in [Axes -> Nat]
    <3> HIDE DEF delta
    <3> QED
      BY <1>1, <2>1, <2>2, Inputs, RelZoomPanLimits
  <2>4. Started'
    BY <1>1, <1>8, RelStartStarted DEF WheelPan, Started
  <2> QED
    BY <1>1, <1>8, <2>3, <2>4 DEF WheelPan, InLimits
<1>9. ASSUME NEW d \in Drag, NEW u \in Asked, Pinch(u, d)
      PROVE  InLimits'
  <2>1. /\ unitStart \in Unit /\ scrollStart \in [Axes -> Nat]
        /\ centerStart \in [Axes -> Int]
    BY <1>1, <1>9 DEF Pinch, Started
  <2>2. unit' \in Unit /\ scroll' \in [Axes -> Nat]
    BY <1>1, <1>9, <2>1, Inputs, Units, RelZoomPanLimits DEF Pinch
  <2>3. Started'
    BY <1>1, <1>9, StartedStays DEF Pinch
  <2> QED
    BY <1>1, <1>9, <2>2, <2>3 DEF Pinch, InLimits
<1>10. CASE PaperChanges
  BY <1>1, <1>10, StartedStays DEF PaperChanges, InLimits
<1>11. CASE UNCHANGED vars
  BY <1>1, <1>11, StartedStays DEF vars, InLimits
<1> QED
  BY <1>2, <1>3, <1>4, <1>5, <1>6, <1>7, <1>8, <1>9, <1>10, <1>11 DEF Next, Frame, Fling
\* A new page is in its limits.
LEMMA InitInLimits == Init => InLimits
<1> SUFFICES ASSUME Init PROVE InLimits
  OBVIOUS
<1>1. unit \in Unit
  BY Units DEF Init
<1>2. scroll \in [Axes -> Nat] /\ velocity \in [Axes -> Int]
  BY DEF Init, Still
<1>3. Started
  BY DEF Init, Started
<1> QED
  BY <1>1, <1>2, <1>3 DEF InLimits

(***************************************************************************)
(* The zoom keeps its limits and the view stays on the paper, whatever     *)
(* comes together, unless a pan went on that had never begun.              *)
(***************************************************************************)
THEOREM ViewStaysInLimits == Spec => []ViewInLimits
<1>1. InLimits => ViewInLimits
  BY DEF InLimits, ViewInLimits
<1> QED
  BY <1>1, InitInLimits, InLimitsInductive, TypeCorrect, PTL DEF Spec

(***************************************************************************)
(* A view that changed, or is still moving, has a frame requested.  The    *)
(* invariant needs no other: each gesture requests a frame, and a frame    *)
(* that leaves something moving requests the next.                         *)
(***************************************************************************)
THEOREM FrameIsRequested == Spec => []FrameRequested
<1>1. Init => FrameRequested
  BY DEF Init, FrameRequested
<1>2. FrameRequested /\ [Next]_vars => FrameRequested'
  <2> SUFFICES ASSUME FrameRequested, [Next]_vars
               PROVE  FrameRequested'
    OBVIOUS
  <2>1. ASSUME NEW dt \in Intervals, Animate(dt)
        PROVE  FrameRequested'
    <3>1. stale' = FALSE /\ (moving' <=> velocity' # Still) /\ (animating' <=> velocity' # Still)
      BY <2>1 DEF Animate
    <3> QED
      BY <3>1 DEF FrameRequested, Still
  <2>2. CASE \/ \E v \in Flings : PinchEnd(v)
             \/ \E p \in Point : PanMove(p) \/ \E u \in Asked : WheelZoom(p, u)
             \/ \E p \in Point, d \in Drag : WheelPan(p, d[Vertical])
             \/ \E d \in Drag, u \in Asked : Pinch(u, d)
    BY <2>2 DEF PinchEnd, PanMove, WheelZoom, WheelPan, Pinch, RelZoomPan, FrameRequested
  <2>3. CASE \/ \E p \in Point : PinchStart(p) \/ PanStart(p)
             \/ PaperChanges
             \/ UNCHANGED vars
    BY <2>3 DEF PinchStart, PanStart, PaperChanges, vars, FrameRequested, Still
  <2> QED
    BY <2>1, <2>2, <2>3 DEF Next, Frame, Fling
<1> QED
  BY <1>1, <1>2, PTL DEF Spec

\* What a pan holds.
LEMMA PanHolds ==
  ASSUME TypeOK, InLimits, ~unstarted, gesture = "Pan", NEW p \in Point, PanMove(p)
  PROVE  HeldAt(p)
<1> DEFINE delta == [a \in Axes |-> IF offsetStart[a] = NaN THEN NaN ELSE p[a] - offsetStart[a]]
           zero == [a \in Axes |-> 0]
<1>1. /\ unitStart \in Unit /\ unitStart \in Int
      /\ scrollStart \in [Axes -> Nat] /\ centerStart \in [Axes -> Int]
      /\ offsetStart = centerStart
      /\ extent \in Extents
  BY Units DEF InLimits, Started, TypeOK
<1>2. zero \in [Axes -> Int] /\ delta \in [Axes -> Int]
  BY <1>1, Inputs, NaNAssumption
<1>3. RelZoomPan(scrollStart, unitStart, zero, unitStart, delta)
  BY DEF PanMove
<1>4. /\ extent' = extent /\ scrollStart' = scrollStart /\ unit' = unitStart
  BY <1>1, ZoomLimits DEF PanMove, RelZoomPan, starts
<1>5. ASSUME NEW a \in Axes
      PROVE  \/ scroll'[a] + (zero[a] + delta[a]) * unit' = scrollStart[a] + zero[a] * unitStart
             \/ scroll'[a] \in {0, extent}
  <2> HIDE DEF delta, zero
  <2> QED
    BY <1>1, <1>2, <1>3, RelZoomPanLimits
<1>6. scroll' \in [Axes -> Nat]
  <2> HIDE DEF delta, zero
  <2> QED
    BY <1>1, <1>2, <1>3, RelZoomPanLimits
<1>7. ASSUME NEW a \in Axes
      PROVE  \/ scroll'[a] + p[a] * unit' = scrollStart[a] + centerStart[a] * unitStart
             \/ scroll'[a] \in {0, extent}
  <2>1. CASE scroll'[a] \in {0, extent}
    BY <2>1
  <2>2. CASE scroll'[a] + (zero[a] + delta[a]) * unit' = scrollStart[a] + zero[a] * unitStart
    <3>1. /\ p[a] \in Int /\ centerStart[a] \in Int /\ scroll'[a] \in Int
          /\ scrollStart[a] \in Int
      BY <1>1, <1>6, Inputs
    <3>2. zero[a] = 0 /\ delta[a] = p[a] - centerStart[a]
      BY <1>1, <3>1, NaNAssumption
    <3>3. scroll'[a] + (p[a] - centerStart[a]) * unitStart = scrollStart[a]
      BY <1>1, <1>4, <2>2, <3>1, <3>2
    <3>4. (p[a] - centerStart[a]) * unitStart = p[a] * unitStart - centerStart[a] * unitStart
      BY <1>1, <3>1
    <3>5. p[a] * unitStart \in Int /\ centerStart[a] * unitStart \in Int
      BY <1>1, <3>1
    <3> QED
      BY <1>4, <3>1, <3>3, <3>4, <3>5
  <2> QED
    BY <1>5, <2>1, <2>2
<1> QED
  BY <1>7 DEF HeldAt

\* What a pinch holds.
LEMMA PinchHolds ==
  ASSUME TypeOK, InLimits, ~unstarted, NEW d \in Drag, NEW u \in Asked, Pinch(u, d)
  PROVE  HeldAt([a \in Axes |-> centerStart[a] + d[a]])
<1>1. /\ unitStart \in Unit /\ scrollStart \in [Axes -> Nat]
      /\ centerStart \in [Axes -> Int] /\ extent \in Extents
  BY DEF InLimits, Started, TypeOK, Pinch
<1>2. RelZoomPan(scrollStart, unitStart, centerStart, u, d) /\ u \in Int /\ d \in [Axes -> Int]
  BY Inputs, Units DEF Pinch
<1>3. \A a \in Axes :
        \/ scroll'[a] + (centerStart[a] + d[a]) * unit' = scrollStart[a] + centerStart[a] * unitStart
        \/ scroll'[a] \in {0, extent}
  BY <1>1, <1>2, RelZoomPanLimits
<1> QED
  BY <1>3 DEF HeldAt

(***************************************************************************)
(* What a pan or a pinch took hold of stays under the pointer or between   *)
(* the fingers, at any zoom and at its limits, up to the paper's edges.    *)
(***************************************************************************)
THEOREM StaysAnchored == Spec => Anchored
<1>1. TypeOK /\ InLimits /\ [Next]_vars => [Holds]_vars
  BY PanHolds, PinchHolds DEF Holds
<1> QED
  BY <1>1, InitInLimits, InLimitsInductive, TypeCorrect, PTL DEF Spec, Anchored
===============================================================================
