SPECIFICATION SerialSpec
CONSTANTS
  Users = {u1, u2, u3, u4}
  Teams = {t1, t2}
  PRs = {p1}
  Workers = {w1, w2}
  None = None
  Endpoints = {"create", "merge", "reassign", "setIsActive", "teamAdd"}
  MayFail = TRUE
SYMMETRY Symmetry
INVARIANTS
  AtMostTwoReviewers
  SerialInv
PROPERTIES
  FrozenOnceMerged
  OnlyActiveAssigned
  Implements
