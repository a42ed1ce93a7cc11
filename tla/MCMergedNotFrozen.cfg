SPECIFICATION Spec
CONSTANTS
  Users = {u1, u2, u3, u4}
  Teams = {t1}
  PRs = {p1}
  Workers = {w1, w2}
  None = None
  Endpoints = {"create", "merge", "reassign"}
  MayFail = FALSE
SYMMETRY Symmetry
PROPERTIES
  FrozenOnceMerged
