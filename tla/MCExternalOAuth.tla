--------------------------- MODULE MCExternalOAuth ---------------------------
(* Model values and bounds for checking ExternalOAuth with TLC. *)
EXTENDS ExternalOAuth, TLC

\* CSRF tokens are interchangeable: none is special to the csrf collaborator.
Symmetry == Permutations(Tokens)

\* With no leaking provider, the configured providers are interchangeable too.
SymmetryProviders == Permutations(Tokens) \cup Permutations(Providers)
=============================================================================
