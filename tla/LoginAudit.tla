----------------------------- MODULE LoginAudit -----------------------------
(***************************************************************************)
(* Handler.login (src/unnamed/part_000 309-352) with the audit annotations *)
(* it makes and handleError (354-362): after the code exchange, the        *)
(* identity is resolved and mapped, the decision and user name are         *)
(* annotated on the request's audit event, and the success handler runs.   *)
(* Callbacks are served concurrently, each with its own request and audit *)
(* event; a step is one whole call of login for one request, with every    *)
(* answer its collaborators can give.                                     *)
(***************************************************************************)
CONSTANTS
    Requests,       \* callback requests being served
    Users,          \* local user names (and provider-preferred names)
    NoUser,
    SuccessCanFail  \* the success handler can return an error

VARIABLES
    decision,   \* audit decision annotation ("none" until one is added)
    auditUser,  \* audit username annotation
    response,   \* what the browser gets: nothing yet, the success redirect, or a 500
    done

vars == <<decision, auditUser, response, done>>

Init ==
    /\ decision = [r \in Requests |-> "none"]
    /\ auditUser = [r \in Requests |-> NoUser]
    /\ response = [r \in Requests |-> "none"]
    /\ done = [r \in Requests |-> FALSE]

\* What Provider.GetUserIdentity returns: an identity, an
\* AuthorizationDeniedError or AuthorizationFailedError carrying the
\* identity's preferred user name, or any other error.
Identities ==
    [kind : {"identity", "denied", "failed"}, name : Users]
      \cup [kind : {"other"}, name : {NoUser}]

\* The audit annotations login leaves (decision, user name) and the response.
Outcome(d, u, resp) == [decision |-> d, user |-> u, response |-> resp]

\* handleError: the errors login passes are not *osincli.Error, so
\* defaultState.AuthenticationError declines and a 500 is written.
handleError == "500"

\* The switch on the GetUserIdentity error (errors.As, denied first), then
\* handleError.
IdentityError(id) ==
    CASE id.kind = "denied" -> Outcome("deny", id.name, handleError)
      [] id.kind = "failed" -> Outcome("error", id.name, handleError)
      [] id.kind = "other"  -> Outcome("error", NoUser, handleError)

\* The outcomes of login: identity error; mapper.UserFor fails; or the user
\* is mapped to u, annotated as allowed, and the success handler redirects
\* (or, where it can, fails into handleError).
LoginOutcomes ==
    {IdentityError(id) : id \in {i \in Identities : i.kind # "identity"}}
      \cup {Outcome("error", NoUser, handleError)}
      \cup {Outcome("allow", u, "redirect") : u \in Users}
      \cup (IF SuccessCanFail THEN {Outcome("allow", u, handleError) : u \in Users} ELSE {})

login(r) ==
    /\ ~done[r]
    /\ \E o \in LoginOutcomes :
         /\ decision' = [decision EXCEPT ![r] = o.decision]
         /\ auditUser' = [auditUser EXCEPT ![r] = o.user]
         /\ response' = [response EXCEPT ![r] = o.response]
    /\ done' = [done EXCEPT ![r] = TRUE]

Next == \E r \in Requests : login(r)

Spec == Init /\ [][Next]_vars

-----------------------------------------------------------------------------
(* The audit decision is allow only if the user was logged in: the spec    *)
(* says each failure is annotated before the shared error path runs.       *)
AllowOnlyOnSuccess ==
    \A r \in Requests : done[r] /\ decision[r] = "allow" => response[r] = "redirect"
=============================================================================
