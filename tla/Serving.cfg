SPECIFICATION FairSpec
CONSTANTS
  t1 = t1
  t2 = t2
  Targets = {t1, t2}
  Allowed = {t1}
  Addresses = 2
  MaxConns = 2
INVARIANTS NothingHeld GrantedIsOpen RequestAnswered
PROPERTIES StopEnds
CHECK_DEADLOCK FALSE
