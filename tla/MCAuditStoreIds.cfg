SPECIFICATION Spec
CONSTANTS
  c1 = c1
  c2 = c2
  Clients = {c1, c2}
  ReservationRange = 2
  MaxBytes = 2
  MaxEvents = 2
  MaxId = 4
  Faults = {"io", "torn"}
SYMMETRY Handlers
INVARIANT ReservationInv
INVARIANT LogWithinReservation
INVARIANT AckedRetained
PROPERTY NeverReissued
CHECK_DEADLOCK FALSE
