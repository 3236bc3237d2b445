\* Three accounts, two passwords, and besides invalid_grant one other OAuth
\* error id (a misconfigured client).
CONSTANTS
    Users = {u1, u2, u3}
    Passwords = {pw1, pw2}
    OAuthErrors = {"invalid_grant", "unauthorized_client"}
    NoUser = nouser
SPECIFICATION Spec
CHECK_DEADLOCK FALSE
INVARIANT TypeOK
INVARIANT Verdict
