SYMMETRY Interchangeable
SPECIFICATION ControllerSpec
CONSTANTS
  Users = {u1, u2}
  Nobody = nobody
  MaxHandlers = 2
INVARIANTS
  SwitchedRight
  GoneLeavesNothing
CHECK_DEADLOCK FALSE
