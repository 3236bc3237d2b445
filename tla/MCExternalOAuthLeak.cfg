\* One victim and the attacker; two providers share the csrf collaborator,
\* and the attacker reads the states sent to one of them (gl).
\* No collaborator fails, so the redemption in the trace is a login.
CONSTANTS
    Browsers = {v, a}
    Attacker = a
    Providers = {gh, gl}
    Tokens = {t1, t2}
    Paths = {p1}
    Foreign = {evil}
    Unparsable = bad
    NoCookie = nocookie
    NoUser = nouser
    LeakingProviders = {gl}
    Failures = FALSE
    MaxCodes = 1
    MaxInFlight = 2
SPECIFICATION Spec
SYMMETRY Symmetry
INVARIANT CodeRedeemedOnlyByItsUser
