SPECIFICATION Spec
CONSTANTS
  Users = {u1, u2}
  Teams = {t1}
  PRs = {p1}
  Workers = {w1}
  None = None
  Endpoints = {"create", "setIsActive"}
  MayFail = FALSE
SYMMETRY Symmetry
PROPERTIES
  OnlyActiveAssigned
