\* Polls from none to four periods apart, delays that are no multiple of one.
SPECIFICATION Spec
CONSTANTS
  Period = 3
  Delay = 4
  MaxTime = 13
INVARIANTS
  TypeOK
  NoDrift
  NotEarly
  NotLate
PROPERTIES
  NeedTickIsNews
