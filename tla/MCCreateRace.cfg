SPECIFICATION Spec
CONSTANTS
  Users = {u1, u2}
  Teams = {t1}
  PRs = {p1}
  Workers = {w1, w2}
  None = None
  Endpoints = {"create"}
  MayFail = FALSE
SYMMETRY Symmetry
INVARIANTS
  CreateAnswers
