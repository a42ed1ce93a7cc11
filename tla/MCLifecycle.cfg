SPECIFICATION RushSpec
CONSTANTS
  Alice = u1
  Rob = u2
  Rita = u3
  Ben = u4
  Dan = u5
  Left = t1
  Stay = t2
  Answered = w1
  Second = w2
  Third = w3
  Users = {u1, u2, u3, u4, u5}
  Teams = {t1, t2}
  PRs = {p1}
  Workers = {w1, w2, w3}
  None = None
  Endpoints = {"create", "merge", "reassign", "teamAdd", "teamDeactivate", "teamGet", "setIsActive", "getReview", "stats", "malformed"}
  MayFail = TRUE
  MaxOpenConns = 2
INVARIANTS
  ConnectionsAccounted
PROPERTIES
  RequestsAnswered
  ShutdownCompletes
CHECK_DEADLOCK FALSE
