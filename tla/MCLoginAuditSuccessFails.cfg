\* Three concurrent callbacks, two local users; a success handler (a session store) that can fail.
CONSTANTS
    Requests = {r1, r2, r3}
    Users = {u1, u2}
    NoUser = nouser
    SuccessCanFail = TRUE
SPECIFICATION Spec
CHECK_DEADLOCK FALSE
INVARIANT AllowOnlyOnSuccess
