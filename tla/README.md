# TLA+ models of the external-IdP federation core of oauth-server

This directory holds TLA+ models of the two parts of the repository that decide
how a user is authenticated against an external OAuth provider:

* `src/unnamed/part_000` lines 127-492 (`pkg/oauth/external`): the
  redirect/callback protocol (`Handler`) and the CSRF-bound state
  (`defaultState`). Lines 1-126 of the same file are the GitLab provider adapter.
* `src/pkg/oauth/handlers/default_auth_handler.go`: the union handler that
  decides, for each request, between challenges and redirects.

Every definition a module uses to model code is listed under `map` in
`PROJECT.json`, with the lines it stands for.

## 1. Inventory

| Component | Source | State it keeps | Operations |
|---|---|---|---|
| StateCodec | part_000 481-492 | none (a value) | `encodeState`, `decodeState` |
| defaultState | part_000 364-479 | none; it uses the csrf collaborator's cookie | `Generate`, `Check`, `AuthenticationSucceeded`, `AuthenticationError` |
| RedirectSession (`Handler`) | part_000 152-362 | immutable config; per-flow state lives in the browser (state parameter, CSRF cookie) and at the provider (codes) | `AuthenticationRedirect`, `ServeHTTP` (+`login`, `handleError`), `AuthenticatePassword` |
| UnionHandler | default_auth_handler.go 17-250 | immutable registries; per request the response writer (`w.Header()`, status, body) and the audit event | `AuthenticationNeeded`, `mergeHeaders`, `getAuthMethods` |
| Registries | not under src/ (`AuthenticationRedirectors`), a Go map of challengers | immutable after start-up | `Get`, `GetNames`, `Count` |
| GitLab provider | part_000 1-126 | config; per call the user API's answer | `GetUserIdentity` (user API request, JSON, id check, identity) |
| Collaborators | not under src/ | csrf cookie store; the provider's authorize and token endpoints; identity mapper; success, error and selection handlers; audit | as the interfaces say |

How they interact. A browser request without a session reaches
`AuthenticationNeeded`. A challenge client gets the merged headers of all
challengers as a 302 or 401. A browser client is sent to one redirector,
chosen by `idp`, by the selection handler, or because it is the only one. That
redirector's `AuthenticationRedirect` has `Generate` mint a state that binds the
browser's CSRF cookie to the request URL (`then`) and redirects to the provider.
The provider later sends the browser to the callback (`ServeHTTP`) with a code
or an error and the state echoed. `ServeHTTP` checks the state against the
cookie, exchanges the code at the token endpoint, resolves and maps the identity,
and hands success to the success handler (log in, redirect to `then`). Failures
go to the error handler, which echoes a provider error to `then` when the state
checks, and otherwise yields a 500.

What is hard. Nothing is shared in memory between requests: the protocol's
state is spread over the browser's cookie, the state parameter and the
provider's codes. So the hard behaviours are those of several parties and
several requests:

* an attacker who forwards its own callback to a victim (login CSRF), or forges
  callback URLs;
* callbacks opened twice or out of order;
* a cookie that expires between the redirect and the callback;
* a token exchange whose answer is lost;
* a provider error echoed to a URL taken from an unauthenticated state;
* in the union handler, Go's random map order and the way challenge headers
  combine.

Properties that make each part correct:

* RedirectSession and defaultState: a code is only redeemed in the browser of
  the user who authorised it (no exchange on an unverified state). A victim is
  only redirected to URLs it asked for. A declined error keeps the original
  error.
* UnionHandler: a challenge response never carries both Location and
  WWW-Authenticate, and a 302 carries exactly one Location. `handled` means a
  response was written. No provider is guessed. Nothing is written when an
  error is returned.
* StateCodec: `decode(encode(v)) = v` for every csrf token and `then` URL,
  also when the provider does not escape the state.
* Password grant: "bad credentials" exactly when the provider said
  `invalid_grant`; every other failure is an error.
* Audit: an Allow decision means the user was logged in.
* Several providers: a state minted in one provider's flow is only usable by
  the browser it was minted for, at whichever provider's callback.
* Warning printing: a Warning value's quoted text is printed exactly when the
  value is a well-formed warning with code 199.

## 2. Plan

Modules in the order they are built (most important behaviour first):

1. `ExternalOAuth` (done): the redirect/callback protocol with browsers, an
   attacker, the csrf cookie and the provider. `MCExternalOAuth` instantiates
   it.
2. `UnionAuth` (done): one `AuthenticationNeeded` call against every registry
   configuration. `MCUnionAuth` instantiates it.
3. `PasswordGrant` (done): `AuthenticatePassword`.
4. `StateCodec` (done): byte-level `url.Values.Encode`, `ParseQuery` and
   padded base64url as RECURSIVE operators, with the round trip checked
   against the values `ExternalOAuth` abstracts a state to.
5. `AbstractLogin` and the refinement (done): `ExternalOAuth` (honest
   provider) implements it via `INSTANCE ... WITH`, checked as a PROPERTY.
6. Liveness in `ExternalOAuth` (done).
7. `LoginAudit` (done): the audit annotations of `login`.
8. Composition (done): `ExternalOAuth` is parameterised by `Providers`, one
   `Handler` each, all sharing the csrf cookie. The honest and liveness runs
   use two providers; the leak run has one provider whose states the
   attacker reads, and asks whether a state minted for it is accepted by the
   other's callback, since `Check` does not bind the provider.
9. `WarningHeader` (done): `warningRegex` and the Warning printing loop at
   byte level, checked against the RFC 2616 grammar.
10. `GitLabIdentity` (done): the GitLab adapter's `GetUserIdentity` over
    every answer of the user API.
11. Larger instances: the honest run now has two providers and the foreign
    URL, with the collaborator failures left to the one-provider refinement
    run. Two victims stay out of reach: one victim with two providers and
    failures already passed 5.6 million states.

## 3. Modules and how they map to the code

### ExternalOAuth (part_000)

Constants:

* `Browsers`, with `Attacker` one of them; browser `b` is user `b` at every
  provider.
* `Providers`: the configured external providers. Each has its own `Handler`
  (its own callback URL and codes); they share the csrf collaborator.
* `Tokens`: CSRF token values.
* `Paths`: URLs of this server.
* `Foreign`: URLs elsewhere.
* `Unparsable`: a string `url.Parse` rejects.
* `LeakingProviders`: providers whose authorize requests (and so the states
  sent to them) the attacker reads.
* `Failures`: whether the token endpoint, the identity provider, the mapper
  and the cookie can fail. It is TRUE only in the refinement and lost-error
  runs. The honest, liveness and leak runs set it FALSE. So expired cookies
  and lost token answers are checked through `ImplementsAbstractLogin`, with
  one provider.
* `MaxCodes` (per provider), `MaxInFlight`: bounds.

Variables:

* `cookie`: the csrf collaborator's cookie per browser.
* `issued`: history of the states `Generate` minted, with browser and
  provider.
* `authorizing`: browsers on the provider's page.
* `codes`: each provider's codes, with the user each was issued to and the
  browser that redeemed it.
* `net`: callback URLs a browser will open. A callback names the provider
  whose callback URL it is; the state in it names none.
* `session`: the success handler's login.
* `redirects`: history of the `then` targets each browser was sent to.
* `lostError`: history flag, set when `AuthenticationError` declined with a nil
  error.

A wire state is modelled by what decoding yields: its `csrf`, its `then`, and
whether it decodes at all. `StateCodec`'s round trip is what justifies this.
The empty state from a token-endpoint error decodes to empty values.

Actions:

* `AuthenticationRedirect(b, url, p)` = provider `p`'s
  `Handler.AuthenticationRedirect` with `Generate` and the csrf collaborator's
  `Generate`. The collaborator reuses the cookie's
  token if there is one.
* `ServeHTTP`: the whole callback, one disjunct per path through the handler:
  * `ServeHTTPProviderError`: `?error=`;
  * `ServeHTTPStateRejected`: `Check` fails;
  * `ServeHTTPExchangeFailed`: `invalid_grant` on a spent code, unreachable
    provider, or lost answer after the redemption;
  * `ServeHTTPLogin`: `login`, where identity resolution or mapping fails, or
    `AuthenticationSucceeded` runs.

  Every failure goes through `handleError`, which runs `defaultState`'s
  `AuthenticationError` with all its early returns.
* Environment: `ProviderAuthorize` (consent gives a fresh code, or
  `access_denied`, to that provider's callback), `Forge` (the attacker makes a
  browser open any provider's callback built from codes and CSRF tokens it
  knows: its own cookie's, and those in states sent to a leaking provider),
  `ClearCookie`.

Refinement. `AbstractLogin` is the promise with no provider, cookie or token.
A browser requests URLs. A victim is logged in only as itself (`LogIn`) and
returned only to a URL it requested (`ReturnTo`). The attacker's browser may
do anything (`AttackerStep`). `ExternalOAuth!Abstract` instantiates it with
`Urls <- Thens` and `requested <- [b |-> RequestedBy(b)]`. Sessions and
redirects map to themselves. `ImplementsAbstractLogin == Abstract!Spec` is
checked as a PROPERTY.

Not in this module:

* `Generate`'s error for a request without URL. It returns before any state
  changes, and `UnionAuth` models what the caller does with it.
* The unreachable failures of `AuthenticationSucceeded` after `Check` passed.
* Audit annotations (see `LoginAudit`).

### StateCodec (part_000 380-409, 481-492)

A string is a sequence of byte values. The module defines:

* `EscapeByte` / `QueryEscape`: `url.QueryEscape`. Unreserved bytes are kept,
  space becomes `+`, and every other byte becomes `%XX`.
* `FormEncode`: `url.Values{csrf, then}.Encode()`, with the keys sorted.
* `EncodeToString` / `DecodeString`: `base64.URLEncoding`, with padding
  required. The decoder checks padding and trailing garbage per quantum and
  ignores the unused bits of a padded quantum (Go's non-strict mode).
* `ParseQuery` / `QueryUnescape`: `url.ParseQuery`. A `;` or a bad `%` escape
  is an error, and empty segments are skipped.
* `Get`: `values.Get`.

The state machine is one round trip at a time:

1. `Generate` picks a token and a non-empty `then`.
2. `ProviderReturns` carries the state back. `Behaviours` decides how:
   verbatim, or written into the URL unescaped.
3. `Callback` runs `decodeState` as `Check` does.

`decodeState` skips the `\r` and `\n` that Go's decoder ignores. They cannot
occur in a query parameter.

### WarningHeader (default_auth_handler.go 40-72, 126-134)

A Warning value is a sequence of byte values.

* `FindStringSubmatch` is `warningRegex` as RE2 matches it. The agent ends at
  the first space after the code. `CloseQuote` finds the `"` that ends the
  quoted-string, skipping `\` pairs (`.` does not match a newline).
  `DateRest` is the optional quoted date (at least one byte, `[^"]+`) and
  the end anchor.
* `PrintWarning` is the loop body: group 3 is printed when group 1 is
  `WarningHeaderMiscCode`.
* `Build` is how a challenge handler writes a value: code, agent, the text as
  an RFC 2616 quoted-string, and an optional date.

`Init` picks one value: a value `Build` makes, or one with a byte replaced or
dropped. `PrintWarnings` runs the loop. The reference `MiscTexts` reads the
RFC grammar declaratively, splitting the value every possible way.
`UnionAuth` abstracts all this to the set `Misc199` of printed values.

### GitLabIdentity (part_000 37-42, 83-126)

One call of `GetUserIdentity` for a token owned by `owner`. `profile` holds
each account's user object; ids are distinct and non-zero.

* `Answers` is `client.Do` and `ioutil.ReadAll`. The request fails, the read
  fails, or a body comes back with any status. The body is the owner's user
  object, a JSON error object, an HTML page or nothing. The code never reads
  `res.StatusCode`, so the status changes nothing.
* `Unmarshal` is `json.Unmarshal` into a zero `gitlabUser`. A JSON object
  without the fields leaves them zero, and a body that is not JSON is an
  error.
* `RetrievedID` is the `ID == 0` check.
* `FormatDecimal` is `%d`, as a RECURSIVE operator.
* `NewIdentity` builds the identity and its extras. An empty string stands
  for an absent extra.

`ExternalOAuth`, `PasswordGrant` and `LoginAudit` pick `GetUserIdentity`'s
outcome nondeterministically. This module shows which outcomes the GitLab
adapter can actually produce.

### PasswordGrant (part_000 244-266)

`Init` chooses the typed credentials and the provider's passwords. The single
action `AuthenticatePassword` covers the whole call:

* The token endpoint answers with one of: a token (only for the right
  password), `invalid_grant` (only for a wrong one), another OAuth error, or a
  transport failure.
* Then `GetUserIdentity` either fails or succeeds.
* Then `identitymapper.ResponseFor` either fails or maps the identity to a
  user.

`answer` records what the endpoint said.

### LoginAudit (part_000 309-362)

Callbacks are served concurrently, and each has its own audit event. The
requests share no state, so the three of them only repeat the one-call
outcome table; the finding needs a single request. `login(r)` is the whole
call for request `r`. It picks one of
`LoginOutcomes`:

* an identity error, annotated as deny or error by `IdentityError`;
* a mapper failure;
* an Allow annotation followed by the success redirect;
* where `SuccessCanFail`, an Allow annotation followed by a 500.

### UnionAuth (default_auth_handler.go)

The registries are chosen in `Init` and never change: any subset of
`Challengers`, any list of at most two distinct redirector names, and whether a
selection handler exists. The request is also chosen in `Init`: challenge client
or not, `idp` (registered, unknown or absent), and the credentials
`getAuthMethods` looks at. One action per branch of `AuthenticationNeeded`:

* `AuthenticationNeededChallenge`: the map is iterated in every order, and each
  challenger returns an error or one of `ChallengeHeaders`. The action covers
  `mergeHeaders`, the switch, the Warning loop and the audit message.
  `ChallengeSwitch` is the switch as written: its cases are tried in order
  (an IF/ELSE IF chain) on `Get("Location")`, the Location values and
  `Get("WWW-Authenticate")`. `HeaderGet` is `Header.Get`, the first value.
  The challengers' header values are non-empty, so `Get` returns `""`
  only for an absent header.
* `AuthenticationNeededIdp`.
* `AuthenticationNeededSelection`: the selection handler errs, writes its own
  page, picks a listed provider, or picks none and falls through.
* `AuthenticationNeededAuto`.

`RedirectWith` is the redirector call followed by the error handler, which can
write a page or decline.

Three error returns write nothing and are left out:

* the type assertion on the client's data (lines 81-84). oauth-server's
  clients always carry an `OAuthClient`.
* the selected provider not found (179-182). The selection handler picks from
  the registered names.
* the lookup of the single redirector failing (194-197). `Count` and `Get`
  come from the same registry. A behaviour is one call, and the call returns, so the
run does not check deadlock. `PasswordGrant` and `LoginAudit` are single calls
for the same reason.

## 4. Runs

| Run | Config | Expect | What it shows |
|---|---|---|---|
| external_honest | MCExternalOAuth.cfg | pass | Two honest providers share the csrf cookie. `CodeRedeemedOnlyByItsUser` and `RedirectsOnlyToRequested` hold against an attacker that forwards its own callbacks to either provider's callback URL, forges states with its own token and a path, foreign or unparsable `then`, garbage states and errors, with reloads. |
| external_refinement | MCExternalOAuthRefines.cfg | pass | With one provider, the system implements `AbstractLogin` step by step. |
| external_liveness | MCExternalOAuthLive.cfg | pass | `CallbackLogsIn` with two providers: with no failing collaborator and every callback eventually opened, a victim sent back with a fresh code and its own state is logged in. This holds even if it starts a login at the other provider meanwhile, because the cookie's token is reused. |
| external_state_leak | MCExternalOAuthLeak.cfg | violation | The attacker reads the states sent to provider `gl`. It authorises at the honest provider `gh` and makes the victim open `gh`'s callback with its code and the victim's token. The victim redeems the attacker's `gh` code and is logged in as the attacker in 6 steps. No collaborator fails in this run, so the redemption is the login. |
| external_lost_error | MCExternalOAuthLostError.cfg | violation | `AuthenticationError` returns `(false, nil)` when `then` does not parse (err reassigned at line 448). |
| codec_roundtrip | MCStateCodec.cfg | pass | `RoundTrip` for every token and `then` of up to 2 bytes from `a`, space, `&`, `=`, `%`, `+`, `~`, `;`, both echoed and written unescaped. |
| password_grant | MCPasswordGrant.cfg | pass | `Verdict`: bad credentials iff `invalid_grant`; a login only for the account whose password was accepted. |
| login_audit_success_fails | MCLoginAuditSuccessFails.cfg | violation | A failing success handler leaves Allow on a request that ended in a 500 (line 344). |
| union_arbitration | MCUnionAuth.cfg | pass | `ChallengeResponseConsistent`, `HandledIffWritten` and `RedirectOnlyToChosenProvider` hold for every configuration, request, map order and collaborator answer. |
| union_conflict_headers | MCUnionAuthHeaders.cfg | violation | On a Location/WWW-Authenticate conflict the error is returned with the merged headers already on the response (line 101). The spec says nothing is written. |
| gitlab_identity | MCGitLabIdentity.cfg | pass | `IdentityNamesTokenOwner`: an identity comes only from the owner's user object. It is named by the owner's decimal id, unlike any other account's, and carries the owner's fields, whatever status and body came back (148 thousand states). |
| warning_header | MCWarningHeader.cfg | pass | `WarningPrinted` for every value (79 thousand states) from codes 199 and 299, two agents, every text of up to three bytes from `a`, space, `"` and `\`, with and without a date, and every one-byte corruption of each. |

With the leak run's constants, `RedirectsOnlyToRequested` is violated too. The
same leaked token steers the error echo to any `then`, because nothing binds
`then` to the token.

Each property of a passing run has a mutant in `PROJECT.json` that TLC catches:

* the CSRF comparison dropped from `Check`. This breaks both
  `CodeRedeemedOnlyByItsUser` and the refinement;
* the error echoed without `Check`;
* an empty CSRF token;
* a fresh CSRF token on every `Generate`, which overwrites the cookie and
  strands the first tab's callback (liveness);
* `url.PathEscape` instead of `QueryEscape`;
* StdEncoding's alphabet;
* every OAuth error taken for bad credentials;
* a mapper answer without a user taken as a login;
* the `ID == 0` check dropped, so a JSON error object becomes identity `0`;
* the id printed with `%x`;
* the quoted-string group written as `"([^"]*)"`, which ignores escapes;
* all Warning headers printed;
* the single-Location case tested first;
* a declined error reported as handled;
* the first of several redirectors taken.

### Bounds and why they are enough

* ExternalOAuth, refinement run: one victim and one attacker, one provider,
  two CSRF tokens, one path, one foreign URL, two codes, two callbacks in
  flight. That is enough for every
  attack the properties are about:
  * the attacker's code forwarded with the attacker's state;
  * a forged state with the attacker's token and a foreign or unparsable
    `then`;
  * a reload of a used code;
  * a lost exchange;
  * a victim whose cookie expired and who then uses a second token.

  Tokens are a symmetry set: the csrf collaborator treats them alike, and the
  abstract state does not mention them. The refinement run explores 2.3
  million distinct states in about 2 minutes.
* ExternalOAuth, honest run: two providers with one code each, the foreign
  URL, and no collaborator failures. The two providers are a symmetry set
  (849 thousand states, half a minute). With the failures as well, the run
  passes 5.6 million states and does not fit in five minutes. The failures
  (lost exchange answers, expiring cookies, failing identity lookups) are
  checked with one provider in the refinement run, which implies both
  safety properties.
* ExternalOAuth, liveness and leak runs: two providers with one code each,
  and no foreign URL. The attacker can still forge states with `then` equal
  to the path or the unparsable string. So a victim who never requested the
  path, but was sent there by a bug, is still caught. The liveness run has no
  symmetry, which is unsound for liveness (944 thousand states, under 2
  minutes). One code per provider still gives the victim one flow at each
  provider, and those two flows are what share the cookie.
* StateCodec: tokens and URLs of up to two bytes over eight byte values. Every
  reserved byte that matters to the form encoding (`&`, `=`, `%`, `+`, `;`,
  space) occurs alone and next to another. The total length varies enough to
  give all three padding cases. `~` as a third byte gives base64 digit 62, the
  one where the URL and Std alphabets differ.
* PasswordGrant: three accounts and two passwords give right and wrong
  passwords for every account. Two OAuth error ids separate `invalid_grant`
  from any other id.
* LoginAudit: three concurrent requests and two users.
* GitLabIdentity: two accounts with ids from {1, 2, 12, 21}. These are one-
  and two-digit ids with shared digits, so a name that loses or reorders a
  digit collides with another account's. Empty and non-empty name and email
  fields, and four statuses, are included.
* WarningHeader: texts of up to three bytes already hold an escaped quote
  next to a byte, an escaped backslash before a quote, and a lone quote. The
  replacement bytes include space, `"`, `\` and newline, the bytes the
  grammar's boundaries are made of.
* UnionAuth: two challengers are enough for two Location values, a
  Location/WWW-Authenticate conflict, and both map orders. Two redirector
  names give the empty, single and ambiguous registries. The challenge
  answers include no headers, two distinct redirects, a Basic challenge with
  and without a code-199 warning, another warning, and an error.

## 5. Fairness

`FairSpec` adds weak fairness, for every callback URL, of the browser opening
it while it is in flight (`WF_vars(m \in net /\ ServeHTTP(m.to, m))`). A
browser follows the redirect it was sent. A reload may open the URL again,
and that is still allowed. Nothing else is fair, because nothing else is
something the code or the user can be relied on to do:

* the user need not consent at the provider;
* the attacker need not act;
* no new login need start.

The code does not retry. A failed flow ends and the user starts a new one. So
the liveness run sets `Failures` to FALSE: the token endpoint, identity
provider, mapper and cookie do not fail. Without that, no property of the form
"eventually logged in" can hold.

## 6. Not modelled

* The GitLab adapter's constructor and `NewConfig`. They build URLs and copy
  configuration.
* A provider that strips the `=` padding of the state. RFC 6749 requires the
  state to come back exactly. Such a provider would make every state fail
  `decodeState` when its form encoding is not a multiple of 3 bytes long. To
  see this, add a `Carry` that drops the padding to `StateCodec`.
* osincli's wire protocol, and the identity mapper's persistence.
* Log output.
* The constructors. `NewExternalOAuthRedirector` and
  `NewOAuthPasswordAuthenticator` only copy configuration; their errors come
  from the provider's config.
