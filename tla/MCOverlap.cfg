SPECIFICATION SettledSpec
CONSTANTS
  Users = {u1, u2, u3, u4}
  Teams = {t1, t2}
  PRs = {p1}
  Workers = {w1, w2}
  None = None
  Endpoints = {"create", "merge", "reassign", "teamAdd"}
  MayFail = TRUE
SYMMETRY Symmetry
INVARIANTS
  TypeOK
  AuthorNeverReviews
  CreatedOnce
  MergedAnswersHold
  ReviewersShareTeam
  IInv
PROPERTIES
  ReviewersNeverRunOut
