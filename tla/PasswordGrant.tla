---------------------------- MODULE PasswordGrant ----------------------------
(***************************************************************************)
(* Handler.AuthenticatePassword (src/unnamed/part_000 244-266): the        *)
(* resource-owner password grant against the provider's token endpoint,  *)
(* then Provider.GetUserIdentity, then identitymapper.ResponseFor.  One    *)
(* behaviour is one call: Init picks the credentials typed and the         *)
(* provider's accounts, the single step is the whole call with every       *)
(* answer its collaborators can give.                                      *)
(***************************************************************************)
CONSTANTS
    Users,       \* provider accounts (and the user names a client can type)
    Passwords,   \* passwords
    OAuthErrors, \* error ids a token endpoint answers with, "invalid_grant" among them
    NoUser

ASSUME "invalid_grant" \in OAuthErrors

\* The token endpoint's answer to a grant: access data for an account, an
\* OAuth error (*osincli.Error with its Id), or a transport failure.
TokenAnswers ==
    [kind : {"token"}, user : Users] \cup [kind : {"oauth_error"}, id : OAuthErrors]
      \cup [kind : {"transport"}]

Results == [user : Users \cup {NoUser}, ok : BOOLEAN, err : BOOLEAN]

VARIABLES
    username, password,  \* the credentials passed in
    accounts,            \* the provider's password of each account
    answer,              \* history: what the token endpoint answered
    result               \* (response, ok, err) returned, once the call is done

vars == <<username, password, accounts, answer, result>>

None == [kind |-> "none"]

TypeOK ==
    /\ username \in Users /\ password \in Passwords
    /\ accounts \in [Users -> Passwords]
    /\ answer \in TokenAnswers \cup {None}
    /\ result \in Results \cup {None}
    /\ result # None => (result.ok => result.user # NoUser)

Init ==
    /\ username \in Users /\ password \in Passwords
    /\ accounts \in [Users -> Passwords]
    /\ answer = None
    /\ result = None

\* What the provider's token endpoint can answer to these credentials: the
\* account's token if the password is right and invalid_grant if it is
\* wrong; any other OAuth error or a transport failure at any time.
Honest(a) ==
    \/ a.kind = "token" /\ a.user = username /\ accounts[username] = password
    \/ a.kind = "oauth_error" /\ a.id = "invalid_grant" /\ accounts[username] # password
    \/ a.kind = "oauth_error" /\ a.id # "invalid_grant"
    \/ a.kind = "transport"

\* A plausible bug: a mapper answer with no user and no error is taken as a login.
ResponseForNilUser(user) ==
    \/ result' = [user |-> NoUser, ok |-> TRUE, err |-> FALSE]
    \/ result' = [user |-> NoUser, ok |-> FALSE, err |-> TRUE]

\* identitymapper.ResponseFor: mapper.UserFor succeeds or fails.
ResponseFor(user) ==
    \/ result' = [user |-> user, ok |-> TRUE, err |-> FALSE]
    \/ result' = [user |-> NoUser, ok |-> FALSE, err |-> TRUE]

\* A plausible bug: every *osincli.Error is taken for rejected credentials.
IsInvalidGrantAnyId(a) == a.kind = "oauth_error"

\* err.(*osincli.Error) with Id "invalid_grant".
IsInvalidGrant(a) == a.kind = "oauth_error" /\ a.id = "invalid_grant"

AuthenticatePassword ==
    /\ result = None
    /\ \E a \in TokenAnswers :
         /\ Honest(a)
         /\ answer' = a
         /\ \/ /\ IsInvalidGrant(a)
               /\ result' = [user |-> NoUser, ok |-> FALSE, err |-> FALSE]
            \/ /\ a.kind # "token" /\ ~IsInvalidGrant(a)
               /\ result' = [user |-> NoUser, ok |-> FALSE, err |-> TRUE]
            \/ /\ a.kind = "token"
               /\ \/ result' = [user |-> NoUser, ok |-> FALSE, err |-> TRUE]  \* GetUserIdentity fails
                  \/ ResponseFor(a.user)
    /\ UNCHANGED <<username, password, accounts>>

Next == AuthenticatePassword

Spec == Init /\ [][Next]_vars

-----------------------------------------------------------------------------
(* The verdict the caller acts on matches what happened at the provider:   *)
(* (user, true, nil) only for the account whose password was typed, when  *)
(* the provider accepted it; (nil, false, nil), "bad credentials", exactly *)
(* when the provider said invalid_grant; every other failure (another      *)
(* OAuth error, transport, identity or mapping) is an error, so a broken   *)
(* provider configuration is never reported to the user as a wrong        *)
(* password.                                                               *)
Verdict ==
    result # None =>
        /\ result.ok => answer.kind = "token" /\ result.user = username
                          /\ accounts[username] = password
        /\ (~result.ok /\ ~result.err)
              <=> answer.kind = "oauth_error" /\ answer.id = "invalid_grant"
=============================================================================
