\* One victim and the attacker; two honest providers, each with its own
\* Handler, share the csrf collaborator (the browser's CSRF cookie).  The
\* collaborators do not fail here; MCExternalOAuthRefines.cfg adds their
\* failures with one provider.
CONSTANTS
    Browsers = {v, a}
    Attacker = a
    Providers = {gh, gl}
    Tokens = {t1, t2}
    Paths = {p1}
    Foreign = {evil}
    Unparsable = bad
    NoCookie = nocookie
    NoUser = nouser
    LeakingProviders = {}
    Failures = FALSE
    MaxCodes = 1
    MaxInFlight = 2
SPECIFICATION Spec
SYMMETRY SymmetryProviders
INVARIANT TypeOK
INVARIANT CodeRedeemedOnlyByItsUser
INVARIANT RedirectsOnlyToRequested
