---------------------------- MODULE ExternalOAuth ----------------------------
(***************************************************************************)
(* The redirect / callback protocol of the external OAuth handler          *)
(* (pkg/oauth/external handler.go, src/unnamed/part_000 lines 127-492):    *)
(* Handler.AuthenticationRedirect sends a browser to the provider with a   *)
(* CSRF-bound state, Handler.ServeHTTP takes the provider's callback,      *)
(* checks the state, exchanges the code and logs the user in, and          *)
(* defaultState turns success into a redirect to "then" and a provider     *)
(* error into a redirect to "then" with the error echoed.  Handler         *)
(* .AuthenticatePassword is modelled in PasswordGrant.                     *)
(*                                                                         *)
(* Actors: browsers (one of which the attacker controls), the providers'  *)
(* authorize and token endpoints, and the network of callback URLs a       *)
(* browser can be made to open.  Each browser is signed in at every        *)
(* provider as the user of the same name.  Every configured provider has   *)
(* its own Handler (its own callback URL and codes); all of them share the *)
(* one csrf collaborator, i.e. the browser's CSRF cookie.                  *)
(***************************************************************************)
EXTENDS Naturals, FiniteSets, Sequences

CONSTANTS
    Browsers,            \* user agents; browser b is user b at the provider
    Attacker,            \* the browser the attacker controls
    Providers,           \* configured external providers, one Handler each
    Tokens,              \* CSRF token values the csrf collaborator can mint
    Paths,               \* server URLs a browser can request (the "then" of a state)
    Foreign,             \* URLs that parse but that no browser requested here
    Unparsable,          \* a "then" string url.Parse rejects
    NoCookie,            \* no CSRF cookie in the browser
    NoUser,              \* no session / code not redeemed
    LeakingProviders,    \* providers whose authorize endpoint the attacker reads
    Failures,            \* token endpoint, identity provider and cookies can fail
    MaxCodes,            \* bound on authorization codes each provider issues
    MaxInFlight          \* bound on callback URLs in flight

ASSUME /\ Attacker \in Browsers
       /\ MaxCodes \in Nat /\ MaxInFlight \in Nat
       /\ LeakingProviders \subseteq Providers /\ Failures \in BOOLEAN

Victims == Browsers \ {Attacker}
Thens   == Paths \cup Foreign \cup {Unparsable}

(***************************************************************************)
(* StateCodec.  encodeState is base64(form-encode({csrf, then})); the      *)
(* round trip decode(encode(v)) = v and the failure of decode on strings   *)
(* that are not base64 are what the protocol relies on, so a wire state is *)
(* its decoded values plus whether it decodes at all.  The empty state ""  *)
(* decodes to empty values (url.ParseQuery("") succeeds).                  *)
(***************************************************************************)
encodeState(csrf, then) == [decodes |-> TRUE, csrf |-> csrf, then |-> then]
EmptyState   == [decodes |-> TRUE, csrf |-> "", then |-> ""]
GarbageState == [decodes |-> FALSE, csrf |-> "", then |-> ""]
WireStates   == {encodeState(t, p) : t \in Tokens, p \in Thens}
                  \cup {EmptyState, GarbageState}

\* Errors handed to handleError: an *osincli.Error with Id and State, or any other error.
OsinError(id, state) == [osin |-> TRUE, id |-> id, state |-> state]
OtherError           == [osin |-> FALSE, id |-> "", state |-> EmptyState]

\* A callback URL of provider idp's Handler: ?code=..&state=.. or
\* ?error=..&state=.. (code 0 = no code).  The state names no provider.
Callbacks == [to : Browsers, idp : Providers, code : 0..MaxCodes,
              error : {"", "access_denied"}, state : WireStates]

Flows == [browser : Browsers, idp : Providers, state : WireStates]

VARIABLES
    cookie,       \* CSRF cookie of each browser (the csrf collaborator's store)
    issued,       \* history: states Generate produced, with browser and provider
    authorizing,  \* browsers at a provider's authorize page, with the state
    codes,        \* provider p: code i was issued to codes[p][i].user, redeemed by .redeemer
    net,          \* callback URLs a browser is about to open
    session,      \* user the success collaborator logged each browser in as
    redirects,    \* history: "then" targets each browser was redirected to
    lostError     \* history: AuthenticationError declined with a nil error

vars == <<cookie, issued, authorizing, codes, net, session, redirects,
          lostError>>

TypeOK ==
    /\ cookie \in [Browsers -> Tokens \cup {NoCookie}]
    /\ issued \subseteq Flows
    /\ authorizing \subseteq Flows
    /\ codes \in [Providers -> Seq([user : Browsers, redeemer : Browsers \cup {NoUser}])]
    /\ \A p \in Providers : Len(codes[p]) <= MaxCodes
    /\ net \subseteq Callbacks
    /\ session \in [Browsers -> Browsers \cup {NoUser}]
    /\ redirects \in [Browsers -> SUBSET Thens]
    /\ lostError \in BOOLEAN

Init ==
    /\ cookie = [b \in Browsers |-> NoCookie]
    /\ issued = {}
    /\ authorizing = {}
    /\ codes = [p \in Providers |-> <<>>]
    /\ net = {}
    /\ session = [b \in Browsers |-> NoUser]
    /\ redirects = [b \in Browsers |-> {}]
    /\ lostError = FALSE

-----------------------------------------------------------------------------
(***************************************************************************)
(* The csrf collaborator (a cookie): Generate reuses the browser's cookie  *)
(* or mints a fresh token and sets it; Check accepts a non-empty value     *)
(* equal to the cookie.                                                    *)
(***************************************************************************)
UsedTokens == {cookie[b] : b \in Browsers} \cup {i.state.csrf : i \in issued}

\* A plausible bug: every Generate mints a new token and overwrites the
\* cookie, so a second login started in another tab invalidates the first.
CsrfGenerateFresh(b) == Tokens \ UsedTokens

CsrfGenerate(b) ==
    IF cookie[b] # NoCookie THEN {cookie[b]} ELSE Tokens \ UsedTokens

CsrfCheck(b, value) == cookie[b] # NoCookie /\ value # "" /\ cookie[b] = value

\* A plausible bug in Check: the CSRF comparison is left out.
CheckNoCsrf(state, b) == state.decodes /\ state.then # ""

\* defaultState.Check: the state decodes, its csrf matches the cookie, it has a "then".
Check(state, b) == state.decodes /\ CsrfCheck(b, state.csrf) /\ state.then # ""

\* A plausible bug in AuthenticationError: the state is echoed without Check.
EchoesUnchecked(err, b) == err.osin /\ err.id # "" /\ err.state.decodes

\* AuthenticationError's first three checks: an OAuth error from the provider
\* that embeds a state passing Check.
Echoes(err, b) == err.osin /\ err.id # "" /\ Check(err.state, b)

\* AuthenticationError declines (returns false and an error, keeping or losing
\* the original one); handleError then writes a 500 and nothing is redirected.
Decline(b, errorKept) ==
    /\ lostError' = (lostError \/ ~errorKept)
    /\ UNCHANGED redirects

\* handleError with defaultState.AuthenticationError as the error handler.
handleError(b, err) ==
    \/ /\ Echoes(err, b)
       /\ err.state.then # Unparsable
       /\ redirects' = [redirects EXCEPT ![b] = @ \cup {err.state.then}]
       /\ UNCHANGED lostError
    \/ /\ ~Echoes(err, b)
       /\ Decline(b, TRUE)
    \/ \* url.Parse(then) fails after "values, err := decodeState(..)" reassigned err
       /\ Echoes(err, b)
       /\ err.state.then = Unparsable
       /\ Decline(b, FALSE)

\* defaultState.AuthenticationSucceeded, preceded by the success collaborator's
\* login of the user into the browser's session.
AuthenticationSucceeded(b, user, state) ==
    /\ state.decodes /\ state.then # ""
    /\ session' = [session EXCEPT ![b] = user]
    /\ redirects' = [redirects EXCEPT ![b] = @ \cup {state.then}]
    /\ UNCHANGED lostError

-----------------------------------------------------------------------------
(***************************************************************************)
(* Handler.AuthenticationRedirect with defaultState.Generate: the state    *)
(* binds the CSRF token and the request URL, and the browser is sent to    *)
(* the provider's authorize URL.  Generate's error for a request without  *)
(* a URL is returned to the caller before anything changes; UnionAuth      *)
(* models what the caller does with it.                                    *)
(***************************************************************************)
\* A plausible bug: the csrf collaborator's token is not obtained, so the
\* state binds an empty token and the cookie is set to "".
GenerateEmptyToken(b, url) == {[csrf |-> "", state |-> encodeState("", url)]}

\* defaultState.Generate: the state binds the csrf collaborator's token
\* (which it may have just set as the cookie) to the request URL.
Generate(b, url) ==
    {[csrf |-> tok, state |-> encodeState(tok, url)] : tok \in CsrfGenerate(b)}

\* The Handler of provider p.
AuthenticationRedirect(b, url, p) ==
    /\ \E g \in Generate(b, url) :
         LET f == [browser |-> b, idp |-> p, state |-> g.state]
         IN /\ cookie' = [cookie EXCEPT ![b] = g.csrf]
            /\ issued' = issued \cup {f}
            /\ authorizing' = authorizing \cup {f}
    /\ UNCHANGED <<codes, net, session, redirects, lostError>>

\* Provider a.idp's authorize endpoint: the signed-in user consents (a fresh
\* code) or denies (error=access_denied); either way the state is echoed to
\* that provider's callback URL.
ProviderAuthorize(a) ==
    /\ Cardinality(net) < MaxInFlight
    /\ authorizing' = authorizing \ {a}
    /\ \/ /\ Len(codes[a.idp]) < MaxCodes
          /\ codes' = [codes EXCEPT ![a.idp] = Append(@, [user |-> a.browser,
                                                          redeemer |-> NoUser])]
          /\ net' = net \cup {[to |-> a.browser, idp |-> a.idp,
                               code |-> Len(codes[a.idp]) + 1,
                               error |-> "", state |-> a.state]}
       \/ /\ net' = net \cup {[to |-> a.browser, idp |-> a.idp, code |-> 0,
                               error |-> "access_denied", state |-> a.state]}
          /\ UNCHANGED codes
    /\ UNCHANGED <<cookie, issued, session, redirects, lostError>>

\* The attacker makes a browser (its own or a victim's) open a callback URL
\* of any provider: with a code that provider issued to the attacker, or
\* with an error, and a state built from a CSRF token the attacker knows
\* (its own, or one in a state sent to a leaking provider) and any "then",
\* or a garbage state.
KnownTokens ==
    ({cookie[Attacker]} \ {NoCookie})
      \cup {i.state.csrf : i \in {j \in issued : j.idp \in LeakingProviders}}

ForgedStates ==
    {encodeState(t, p) : t \in KnownTokens, p \in Thens} \cup {GarbageState}

Forge ==
    /\ Cardinality(net) < MaxInFlight
    /\ \E v \in Browsers, p \in Providers, st \in ForgedStates :
         \/ \E c \in {i \in 1..Len(codes[p]) : codes[p][i].user = Attacker} :
              net' = net \cup {[to |-> v, idp |-> p, code |-> c, error |-> "",
                                state |-> st]}
         \/ net' = net \cup {[to |-> v, idp |-> p, code |-> 0,
                              error |-> "access_denied", state |-> st]}
    /\ UNCHANGED <<cookie, issued, authorizing, codes, session, redirects,
                   lostError>>

-----------------------------------------------------------------------------
(***************************************************************************)
(* Handler.ServeHTTP with login: one action per path through the handler. *)
(* A browser may open the same callback URL again (reload, back button),  *)
(* so delivering it may leave it in flight.                               *)
(***************************************************************************)
Deliver(m) == \E keep \in BOOLEAN : net' = IF keep THEN net ELSE net \ {m}

\* ?error=..: authReq.HandleRequest returns an *osincli.Error carrying the state.
ServeHTTPProviderError(b, m) ==
    /\ m.error # ""
    /\ handleError(b, OsinError(m.error, m.state))
    /\ UNCHANGED <<codes, session>>

\* The state is checked before any server-to-server call.
ServeHTTPStateRejected(b, m) ==
    /\ m.error = ""
    /\ ~Check(m.state, b)
    /\ handleError(b, OtherError)
    /\ UNCHANGED <<codes, session>>

\* accessReq.GetToken fails: the provider rejects a redeemed code with
\* invalid_grant (an *osincli.Error without state), the request never reaches
\* the provider, or the provider redeems the code and the answer is lost.
ServeHTTPExchangeFailed(b, m) ==
    /\ m.error = ""
    /\ Check(m.state, b)
    /\ \/ /\ codes[m.idp][m.code].redeemer # NoUser
          /\ handleError(b, OsinError("invalid_grant", EmptyState))
          /\ UNCHANGED codes
       \/ /\ Failures
          /\ handleError(b, OtherError)
          /\ UNCHANGED codes
       \/ /\ Failures
          /\ codes[m.idp][m.code].redeemer = NoUser
          /\ codes' = [codes EXCEPT ![m.idp][m.code].redeemer = b]
          /\ handleError(b, OtherError)
    /\ UNCHANGED session

\* The code is redeemed and login runs: GetUserIdentity fails (denied, failed,
\* or another error such as GitLab's "Could not retrieve GitLab id"), or
\* mapper.UserFor fails, both into handleError; or the user is logged in.
ServeHTTPLogin(b, m) ==
    /\ m.error = ""
    /\ Check(m.state, b)
    /\ codes[m.idp][m.code].redeemer = NoUser
    /\ codes' = [codes EXCEPT ![m.idp][m.code].redeemer = b]
    /\ \/ /\ Failures
          /\ handleError(b, OtherError)
          /\ UNCHANGED session
       \/ AuthenticationSucceeded(b, codes[m.idp][m.code].user, m.state)

ServeHTTP(b, m) ==
    /\ Deliver(m)
    /\ \/ ServeHTTPProviderError(b, m)
       \/ ServeHTTPStateRejected(b, m)
       \/ ServeHTTPExchangeFailed(b, m)
       \/ ServeHTTPLogin(b, m)
    /\ UNCHANGED <<cookie, issued, authorizing>>

\* The browser loses its CSRF cookie (expiry, or the user clears cookies).
ClearCookie(b) ==
    /\ Failures
    /\ cookie[b] # NoCookie
    /\ cookie' = [cookie EXCEPT ![b] = NoCookie]
    /\ UNCHANGED <<issued, authorizing, codes, net, session, redirects,
                   lostError>>

Next ==
    \/ \E b \in Browsers, url \in Paths, p \in Providers :
         AuthenticationRedirect(b, url, p)
    \/ \E a \in authorizing : ProviderAuthorize(a)
    \/ Forge
    \/ \E m \in net : ServeHTTP(m.to, m)
    \/ \E b \in Browsers : ClearCookie(b)

Spec == Init /\ [][Next]_vars

(***************************************************************************)
(* Fairness.  The browser opens every callback URL it was sent to (a      *)
(* redirect the user does not abandon), so each callback in flight is     *)
(* eventually served.  Neither the provider's consent page, nor the       *)
(* attacker, nor a new login attempt is assumed to happen.                *)
(***************************************************************************)
FairSpec == Spec /\ \A m \in Callbacks : WF_vars(m \in net /\ ServeHTTP(m.to, m))

-----------------------------------------------------------------------------
(***************************************************************************)
(* Properties                                                              *)
(***************************************************************************)

(* A code that a provider the attacker cannot read issued to user u is    *)
(* only ever redeemed from u's own browser: ServeHTTP makes no             *)
(* server-to-server call for a callback whose state does not carry the     *)
(* browser's own CSRF token, so neither an attacker's forwarded callback   *)
(* (login CSRF) nor a replayed or forged one redeems a code in the wrong   *)
(* browser, even when the exchange's answer is lost, and whichever         *)
(* provider's flow the state was minted in.                                *)
CodeRedeemedOnlyByItsUser ==
    \A p \in Providers \ LeakingProviders :
        \A i \in 1..Len(codes[p]) : codes[p][i].redeemer \in {NoUser, codes[p][i].user}

(* After the callback, a victim's browser is only redirected (to "then" on *)
(* success by AuthenticationSucceeded, or with the error echoed by         *)
(* AuthenticationError) to a URL it requested itself, i.e. the "then" of a *)
(* state Generate issued to it.                                            *)
RequestedBy(b) == {i.state.then : i \in {j \in issued : j.browser = b}}

RedirectsOnlyToRequested ==
    \A v \in Victims : redirects[v] \subseteq RequestedBy(v)

(* AuthenticationError's comment: in any case but the echo it "returns     *)
(* false and the original error", never a nil error.                       *)
DeclineKeepsError == ~lostError

(* Liveness: once the provider has sent a victim back with a fresh code    *)
(* issued to it and a state that carries its CSRF cookie, the victim ends  *)
(* up logged in as itself, whatever else the victim (a second login in     *)
(* another tab), the attacker or the network does meanwhile, provided the  *)
(* token endpoint, identity provider and cookie do not fail.               *)
ConsentedCallback(v) ==
    \E m \in net : /\ m.to = v /\ m.error = "" /\ m.code # 0
                  /\ codes[m.idp][m.code].user = v /\ codes[m.idp][m.code].redeemer = NoUser
                  /\ Check(m.state, v)

CallbackLogsIn == \A v \in Victims : ConsentedCallback(v) ~> session[v] = v

(* Refinement: the protocol implements AbstractLogin, with a browser's      *)
(* requested URLs being the "then" URLs of the states Generate issued to   *)
(* it: a victim's session only ever becomes its own user, and it is only   *)
(* redirected to URLs it requested, step by step.                           *)
Abstract == INSTANCE AbstractLogin
               WITH Urls <- Thens,
                    requested <- [b \in Browsers |-> RequestedBy(b)]

ImplementsAbstractLogin == Abstract!Spec
=============================================================================
