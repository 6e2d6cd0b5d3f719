\* Two classes and two ids: a connection that broke keeps one while the next
\* takes the other, or the same again.
CONSTANTS
  Ids = {1, 2}
  Classes = {Polyline, Rectangle}
  Polyline = Polyline
  NoClass = NoClass
  MaxPending = 2
SPECIFICATION Spec
INVARIANTS TypeOK EnabledWhenSynced OwnIdOnly SameClass EchoAgrees StraysAfterLostPress
\* A page that lost its second connection stands still.
CHECK_DEADLOCK FALSE
