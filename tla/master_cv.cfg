SPECIFICATION Spec
CONSTANTS
  t1 = t1
  t2 = t2
  r1 = r1
  r2 = r2
  r3 = r3
  c1 = c1
  c2 = c2
  MaxAsks = 3
  None = None
  Absent = Absent
  Deleted = Deleted
  Texts <- MCTexts
  Resumes <- MCResumes
  Callers <- MCCallers
CHECK_DEADLOCK FALSE
SYMMETRY MCSymmetry
INVARIANTS
  TypeOK
  FormalInvariant
PROPERTIES
  MasterIsChosen
