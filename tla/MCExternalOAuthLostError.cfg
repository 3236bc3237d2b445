\* One victim and the attacker, an honest provider.
CONSTANTS
    Browsers = {v, a}
    Attacker = a
    Providers = {gh}
    Tokens = {t1, t2}
    Paths = {p1}
    Foreign = {evil}
    Unparsable = bad
    NoCookie = nocookie
    NoUser = nouser
    LeakingProviders = {}
    Failures = TRUE
    MaxCodes = 2
    MaxInFlight = 2
SPECIFICATION Spec
SYMMETRY Symmetry
INVARIANT DeclineKeepsError
