\* One victim and the attacker, two honest providers sharing the csrf
\* collaborator, no failing collaborator; every callback URL in flight is
\* eventually opened.
CONSTANTS
    Browsers = {v, a}
    Attacker = a
    Providers = {gh, gl}
    Tokens = {t1, t2}
    Paths = {p1}
    Foreign = {}
    Unparsable = bad
    NoCookie = nocookie
    NoUser = nouser
    LeakingProviders = {}
    Failures = FALSE
    MaxCodes = 1
    MaxInFlight = 2
SPECIFICATION FairSpec
PROPERTY CallbackLogsIn
