--------------------------- MODULE SerialService ----------------------------
(***************************************************************************)
(* What Service keeps true when it has one worker, so that requests do not *)
(* overlap, whichever statement of a request fails.                        *)
(***************************************************************************)
EXTENDS Service, SerialPullRequests

Only == CHOOSE w \in Workers : TRUE

Teamwork == INSTANCE TeamBoard WITH
  asked <- task[Only],
  told  <- answer[Only],
  left  <- IF at[Only] = "members" THEN job[Only].list ELSE {},
  added <- at[Only] = "members",
  short <- job[Only].skipped \ {job[Only].pr} # {}

\* The statements of CreateTeam, DeactivateTeam, GetTeam, SetUserIsActive and
\* GetUserReviews add up to the steps their callers may rely on: a half-made
\* team after a failure, but never a member deactivated who still reviews an
\* open pull request.
TeamsImplement == Teamwork!Spec

=============================================================================
