\* Two accounts; every user API answer for the owner's token.
CONSTANTS
    Accounts = {acct1, acct2}
    IDs <- MCIDs
    Strings = {"", "x", "y"}
    Statuses = {200, 401, 404, 502}
SPECIFICATION Spec
\* A call has run once result is set: nothing more happens.
CHECK_DEADLOCK FALSE
INVARIANT TypeOK
INVARIANT IdentityNamesTokenOwner
