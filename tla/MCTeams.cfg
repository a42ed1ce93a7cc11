SPECIFICATION SoloSpec
CONSTANTS
  Users = {u1, u2, u3, u4}
  Teams = {t1, t2}
  PRs = {p1, p2}
  Workers = {w1}
  None = None
  Endpoints = {"create", "merge", "reassign", "teamAdd", "teamDeactivate", "teamGet", "setIsActive", "getReview", "stats", "malformed"}
  MayFail = TRUE
SYMMETRY DataSymmetry
INVARIANTS
  AtMostTwoReviewers
  SoloInv
PROPERTIES
  OnlyActiveAssigned
  MergedAtOnce
  TeamsImplement
CHECK_DEADLOCK FALSE
