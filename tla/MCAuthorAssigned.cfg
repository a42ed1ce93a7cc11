SPECIFICATION SoloSpec
CONSTANTS
  Users = {u1, u2, u3}
  Teams = {t1, t2}
  PRs = {p1}
  Workers = {w1, w2}
  None = None
  Endpoints = {"teamDeactivate"}
  MayFail = FALSE
SYMMETRY DataSymmetry
INVARIANTS
  AuthorNeverReviews
CHECK_DEADLOCK FALSE
