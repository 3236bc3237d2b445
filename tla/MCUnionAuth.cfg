\* Two challengers, two redirectors; every registry configuration and request.
CONSTANTS
    Challengers = {c1, c2}
    Names = {gh, gl}
    ChallengeHeaders <- MCChallengeHeaders
    Misc199 <- MCMisc199
    Unknown = unknown
    NoIdp = noidp
    None = none
SPECIFICATION Spec
\* Each behaviour is one call of AuthenticationNeeded, which returns.
CHECK_DEADLOCK FALSE
INVARIANT TypeOK
INVARIANT ChallengeResponseConsistent
INVARIANT HandledIffWritten
INVARIANT RedirectOnlyToChosenProvider
