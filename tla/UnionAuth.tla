------------------------------ MODULE UnionAuth ------------------------------
(***************************************************************************)
(* unionAuthenticationHandler.AuthenticationNeeded                         *)
(* (src/pkg/oauth/handlers/default_auth_handler.go): for one request,      *)
(* either merge the headers of every challenge handler into a 302 or a 401 *)
(* response, or pick one redirect handler (the "idp" parameter, the        *)
(* selection handler's choice, or the only one registered) and let it      *)
(* redirect.  The registries are fixed at start-up, so a behaviour is one  *)
(* call against one configuration, both chosen in Init.                    *)
(***************************************************************************)
EXTENDS Naturals, Sequences, SequencesExt

CONSTANTS
    Challengers,       \* names of challenge handlers that can be registered
    Names,             \* names of redirect handlers that can be registered
    ChallengeHeaders,  \* header maps a challenge handler can return
    Misc199,           \* Warning values matching warningRegex with code "199"
    Unknown,           \* an "idp" value no redirector is registered under
    NoIdp,             \* no (or an empty) "idp" query parameter
    None               \* no provider redirected to / chosen

Location == "Location"
WWWAuth  == "WWW-Authenticate"
Warning  == "Warning"
HeaderKeys == {Location, WWWAuth, Warning}
EmptyHeader == [k \in HeaderKeys |-> <<>>]

\* The OAuth client's RespondWithChallenges, the "idp" parameter and the
\* credentials getAuthMethods looks at.
Requests == [challenges : BOOLEAN, idp : Names \cup {Unknown, NoIdp},
             authorization : {"none", "basic", "bearer"},
             accessToken : BOOLEAN, clientCert : BOOLEAN]

\* Registries built at start-up: the redirectors in GetNames order.
RedirectorLists == {s \in SeqOf(Names, 2) : IsInjective(s)}

Pending == [handled |-> FALSE, err |-> FALSE, done |-> FALSE]

VARIABLES
    challengers,   \* names registered in the challengers map
    redirectors,   \* AuthenticationRedirectors: names in GetNames order
    selection,     \* is a selection handler configured?
    req,           \* the request
    header,        \* w.Header()
    status,        \* status written to w (0 = none)
    body,          \* Warning values whose text was printed into the body
    audit,         \* ResponseStatus.Message of the audit event
    selected,      \* provider the selection handler chose
    redirectedTo,  \* redirector whose AuthenticationRedirect wrote the response
    result         \* what AuthenticationNeeded returned

vars == <<challengers, redirectors, selection, req, header, status, body,
          audit, selected, redirectedTo, result>>

TypeOK ==
    /\ challengers \subseteq Challengers
    /\ redirectors \in RedirectorLists
    /\ selection \in BOOLEAN
    /\ req \in Requests
    /\ header \in [HeaderKeys -> Seq(UNION {Range(h[k]) : h \in ChallengeHeaders,
                                                        k \in HeaderKeys})]
    /\ status \in {0, 302, 401, 200}
    /\ body \in Seq(Misc199)
    /\ audit \in Seq({"basic", "bearer", "access_token", "x509"}) \cup {<<"none">>}
    /\ selected \in Names \cup {None}
    /\ redirectedTo \in Names \cup {None}
    /\ result \in [handled : BOOLEAN, err : BOOLEAN, done : BOOLEAN]

Init ==
    /\ challengers \in SUBSET Challengers
    /\ redirectors \in RedirectorLists
    /\ selection \in BOOLEAN
    /\ req \in Requests
    /\ header = EmptyHeader
    /\ status = 0
    /\ body = <<>>
    /\ audit = <<"none">>
    /\ selected = None
    /\ redirectedTo = None
    /\ result = Pending

Return(handled, err) == result' = [handled |-> handled, err |-> err, done |-> TRUE]

\* mergeHeaders: every value of toAdd is Add-ed (appended) under its key.
mergeHeaders(dest, toAdd) == [k \in HeaderKeys |-> dest[k] \o toAdd[k]]

\* len(headers) > 0: Add only creates a key together with a value.
HasHeaders(h) == \E k \in HeaderKeys : h[k] # <<>>

\* A plausible bug: every Warning header is printed, whatever its code.
PrintedWarningsUnfiltered(h) == h[Warning]

\* The loop printing Warning headers: the quoted text of each code-199 value.
PrintedWarnings(h) == SelectSeq(h[Warning], LAMBDA w : w \in Misc199)

\* getAuthMethods: the credential kinds the request carried, in this order.
Attempted(r, m) ==
    \/ m = "basic" /\ r.authorization = "basic"
    \/ m = "bearer" /\ r.authorization = "bearer"
    \/ m = "access_token" /\ r.accessToken
    \/ m = "x509" /\ r.clientCert

getAuthMethods(r) ==
    LET ms == SelectSeq(<<"basic", "bearer", "access_token", "x509">>,
                        LAMBDA m : Attempted(r, m))
    IN IF ms = <<>> THEN <<"none">> ELSE ms

\* What one challenge handler's AuthenticationChallenge can return.
Outcomes == {[err |-> TRUE, headers |-> EmptyHeader]}
              \cup {[err |-> FALSE, headers |-> h] : h \in ChallengeHeaders}

-----------------------------------------------------------------------------
(***************************************************************************)
(* The challenge branch.  The challengers map is iterated in Go's random   *)
(* map order; a handler's error is collected and its headers skipped.      *)
(* The merged headers are copied into w.Header() before the switch looks   *)
(* at them.                                                                *)
(***************************************************************************)
\* w.Header().Get(k): the first value of header k, "" if it has none.
HeaderGet(w, k) == IF w[k] = <<>> THEN "" ELSE w[k][1]

\* The two writes after the switch: the status, and the misc warnings
\* printed to the body; a 401 also sets the audit message.
WriteChallenge(w, code) ==
    /\ status' = code
    /\ body' = PrintedWarnings(w)
    /\ audit' = IF code = 401 THEN getAuthMethods(req) ELSE audit
    /\ Return(TRUE, FALSE)

\* A plausible bug: the single-Location case is tested before the conflicts.
ChallengeSwitchLocationFirst(w) ==
    IF HeaderGet(w, Location) # "" THEN WriteChallenge(w, 302)
    ELSE WriteChallenge(w, 401)

\* The switch on the merged headers: its cases are tried in the code's order.
ChallengeSwitch(w) ==
    LET redirectHeader  == HeaderGet(w, Location)
        redirectHeaders == w[Location]
        challengeHeader == HeaderGet(w, WWWAuth)
    IN IF redirectHeader # "" /\ challengeHeader # ""
       THEN Return(FALSE, TRUE) /\ UNCHANGED <<status, body, audit>>
       ELSE IF Len(redirectHeaders) > 1
       THEN Return(FALSE, TRUE) /\ UNCHANGED <<status, body, audit>>
       ELSE IF redirectHeader # ""
       THEN WriteChallenge(w, 302)
       ELSE WriteChallenge(w, 401)

AuthenticationNeededChallenge ==
    /\ ~result.done
    /\ req.challenges
    /\ \E order \in SetToSeqs(challengers), out \in [challengers -> Outcomes] :
         LET merged == FoldLeft(LAMBDA h, c : mergeHeaders(h, out[c].headers),
                                EmptyHeader, order)
             errs   == \E c \in challengers : out[c].err
         IN \/ /\ ~HasHeaders(merged)
               /\ Return(FALSE, errs)
               /\ UNCHANGED <<header, status, body, audit>>
            \/ /\ HasHeaders(merged)
               /\ header' = mergeHeaders(header, merged)
               /\ ChallengeSwitch(mergeHeaders(header, merged))
    /\ UNCHANGED <<challengers, redirectors, selection, req, selected, redirectedTo>>

-----------------------------------------------------------------------------
(***************************************************************************)
(* The redirect branches.  A redirector's AuthenticationRedirect either    *)
(* writes its 302 or returns an error (ExternalOAuth: Generate found no    *)
(* request URL); an error goes to the error handler, which either writes a *)
(* response itself or declines and returns the error.                      *)
(***************************************************************************)
IsRegistered(name) == \E i \in DOMAIN redirectors : redirectors[i] = name

\* A plausible bug: "return true, nil" even when the error handler declined.
RedirectWithDeclineHandled(name) ==
    \/ /\ status' = 302
       /\ redirectedTo' = name
       /\ Return(TRUE, FALSE)
    \/ /\ Return(TRUE, FALSE)
       /\ UNCHANGED <<status, redirectedTo>>

RedirectWith(name) ==
    \/ /\ status' = 302
       /\ redirectedTo' = name
       /\ Return(TRUE, FALSE)
    \/ /\ status' = 200
       /\ Return(TRUE, FALSE)
       /\ UNCHANGED redirectedTo
    \/ /\ Return(FALSE, TRUE)
       /\ UNCHANGED <<status, redirectedTo>>

\* A plausible bug: with several redirectors the first one is taken.
AutoSelectFirst ==
    \/ /\ Len(redirectors) >= 1
       /\ RedirectWith(redirectors[1])
    \/ /\ Len(redirectors) = 0
       /\ Return(FALSE, FALSE)
       /\ UNCHANGED <<status, redirectedTo>>

\* Otherwise, automatically select a single provider, and error on multiple.
AutoSelect ==
    \/ /\ Len(redirectors) = 1
       /\ RedirectWith(redirectors[1])
    \/ /\ Len(redirectors) > 1
       /\ Return(FALSE, TRUE)
       /\ UNCHANGED <<status, redirectedTo>>
    \/ /\ Len(redirectors) = 0
       /\ Return(FALSE, FALSE)
       /\ UNCHANGED <<status, redirectedTo>>

\* "idp" names a provider: redirect with it, or fail if it is not registered.
AuthenticationNeededIdp ==
    /\ ~result.done
    /\ ~req.challenges
    /\ req.idp # NoIdp
    /\ \/ /\ IsRegistered(req.idp)
          /\ RedirectWith(req.idp)
       \/ /\ ~IsRegistered(req.idp)
          /\ Return(FALSE, TRUE)
          /\ UNCHANGED <<status, redirectedTo>>
    /\ UNCHANGED <<challengers, redirectors, selection, req, header, body, audit,
                   selected>>

\* The selection handler is shown every redirector (with "idp" set to its
\* name in the URL); it fails, writes its own page, picks one of them, or
\* picks none, and then auto-selection decides.
AuthenticationNeededSelection ==
    /\ ~result.done
    /\ ~req.challenges
    /\ req.idp = NoIdp
    /\ selection
    /\ \/ /\ \/ /\ status' = 200
                /\ Return(TRUE, FALSE)
             \/ /\ Return(FALSE, TRUE)
                /\ UNCHANGED status
          /\ UNCHANGED <<selected, redirectedTo>>
       \/ /\ status' = 200
          /\ Return(TRUE, FALSE)
          /\ UNCHANGED <<selected, redirectedTo>>
       \/ \E i \in DOMAIN redirectors :
            /\ selected' = redirectors[i]
            /\ RedirectWith(redirectors[i])
       \/ /\ AutoSelect
          /\ UNCHANGED selected
    /\ UNCHANGED <<challengers, redirectors, selection, req, header, body, audit>>

AuthenticationNeededAuto ==
    /\ ~result.done
    /\ ~req.challenges
    /\ req.idp = NoIdp
    /\ ~selection
    /\ AutoSelect
    /\ UNCHANGED <<challengers, redirectors, selection, req, header, body, audit,
                   selected>>

Next ==
    \/ AuthenticationNeededChallenge
    \/ AuthenticationNeededIdp
    \/ AuthenticationNeededSelection
    \/ AuthenticationNeededAuto

Spec == Init /\ [][Next]_vars

-----------------------------------------------------------------------------
(***************************************************************************)
(* Properties                                                              *)
(***************************************************************************)

(* A challenge response never carries both signals: a 302 has exactly one  *)
(* Location and no WWW-Authenticate header, a 401 has no Location, however *)
(* the challenge handlers' headers combine and in whatever order the map   *)
(* is iterated.                                                            *)
ChallengeResponseConsistent ==
    /\ status = 302 /\ req.challenges =>
           Len(header[Location]) = 1 /\ header[WWWAuth] = <<>>
    /\ status = 401 => header[Location] = <<>>

(* AuthenticationNeeded "returns whether the response was written": it     *)
(* reports handled exactly when a response was written, by itself, a       *)
(* redirector, the selection handler or the error handler.                 *)
HandledIffWritten == result.done => (result.handled <=> status # 0)

(* A client is only sent to a provider it named with "idp", that the       *)
(* selection handler chose, or that is the only one registered: with       *)
(* several redirectors and no choice the handler reports an error rather   *)
(* than guess, and a challenge client is never redirected to a provider.   *)
RedirectOnlyToChosenProvider ==
    redirectedTo # None =>
        /\ ~req.challenges
        /\ \/ redirectedTo = req.idp
           \/ redirectedTo = selected
           \/ Len(redirectors) = 1 /\ req.idp = NoIdp

(* The spec of the challenge branch: when a Location and a WWW-Authenticate*)
(* header conflict, or several Location headers are set, an error is       *)
(* returned and nothing is written to the response.                        *)
NothingWrittenOnError ==
    result.done /\ ~result.handled => header = EmptyHeader /\ status = 0
=============================================================================
