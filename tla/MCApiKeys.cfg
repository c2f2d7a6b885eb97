CONSTANTS
  Principals = {p1, p2}
  Keys = {k1}
  Dummy = Dummy
  Calls = {c1, c2}
  Null = Null
  MaxClock = 2
  MaxLag = 1
SPECIFICATION Spec
SYMMETRY Symmetry
INVARIANTS
  TypeOK
  KeysArePublished
  AcceptanceJustified
  RevocationStopsInFlight
PROPERTY DisabledIsFinal
CHECK_DEADLOCK FALSE
