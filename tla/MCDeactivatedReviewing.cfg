SPECIFICATION OnceSpec
CONSTANTS
  Users = {u1, u2}
  Teams = {t1}
  PRs = {p1}
  Workers = {w1, w2}
  None = None
  Endpoints = {"create", "teamDeactivate"}
  MayFail = FALSE
SYMMETRY Symmetry
PROPERTIES
  NobodyLeftReviewing
CHECK_DEADLOCK FALSE
