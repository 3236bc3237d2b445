----------------------------- MODULE MCUnionAuth -----------------------------
(* Header values and challenge handler answers for checking UnionAuth. *)
EXTENDS UnionAuth

\* The header maps a challenge handler can return: nothing, a redirect, a
\* Basic challenge with or without a code-199 warning, another warning.
MCChallengeHeaders ==
    { EmptyHeader,
      [EmptyHeader EXCEPT ![Location] = <<"loc1">>],
      [EmptyHeader EXCEPT ![Location] = <<"loc2">>],
      [EmptyHeader EXCEPT ![WWWAuth] = <<"basic">>],
      [EmptyHeader EXCEPT ![WWWAuth] = <<"basic">>, ![Warning] = <<"w199">>],
      [EmptyHeader EXCEPT ![Warning] = <<"w299">>] }

MCMisc199 == {"w199"}
=============================================================================
