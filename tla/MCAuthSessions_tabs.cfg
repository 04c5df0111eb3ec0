\* Two sign-ins, one rotation, and two requests at a time.
SPECIFICATION Spec
CONSTANTS
  Families = {f1, f2}
  Tokens = {t1, t2, t3}
  Requests = {r1, r2}
  NONE = NONE
SYMMETRY Ids
CONSTRAINT OneMishap
INVARIANTS TypeOK OneLiveToken NoFalseAlarm DeactivatedSignedOut
PROPERTIES RevokedIsFinal
