-------------------------- MODULE MCGitLabIdentity --------------------------
(* Model values and bounds for checking GitLabIdentity with TLC. *)
EXTENDS GitLabIdentity

\* One- and two-digit ids whose digits overlap, so that a formatting that
\* loses or reorders a digit makes two accounts' identities collide.
MCIDs == {1, 2, 12, 21}
=============================================================================
