SPECIFICATION Spec
CONSTANTS
  Boxes = {s1, s2, s3}
  Edits = {e1, e2}
  Foreign = {f1}
  None = None
SYMMETRY Symmetry
PROPERTIES
  ResultSurvives
  LocalCandidateIsWhole
CHECK_DEADLOCK FALSE
