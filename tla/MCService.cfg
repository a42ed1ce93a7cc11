SPECIFICATION OnceSpec
CONSTANTS
  Users = {u1, u2, u3}
  Teams = {t1, t2}
  PRs = {p1}
  Workers = {w1, w2}
  None = None
  Endpoints = {"create", "merge", "reassign", "teamAdd", "teamDeactivate", "teamGet", "setIsActive", "getReview", "stats", "malformed"}
  MayFail = TRUE
SYMMETRY Symmetry
INVARIANTS
  ServiceTypeOK
  ReferencesHold
  TeamCreatedOnce
  DomainErrorsAnswered
  CreatedOnce
  ServiceInv
PROPERTIES
  EmptiedForWantOfSubstitutes
CHECK_DEADLOCK FALSE
