--------------------------- MODULE GitLabIdentity ---------------------------
(***************************************************************************)
(* The GitLab provider's GetUserIdentity (src/unnamed/part_000 83-126):    *)
(* after the code exchange, the handler asks GitLab's user API who owns    *)
(* the access token and turns the answer into the identity the mapper      *)
(* logs in.  The request is sent with the token, the whole body is read    *)
(* and unmarshalled into gitlabUser, whatever the HTTP status was; an id   *)
(* of 0 is refused; the identity is the provider name and the id printed   *)
(* with %d, with the non-empty name, username and email as extras.         *)
(*                                                                         *)
(* A behaviour is one call for a token owned by one account.  What the API *)
(* answers is chosen from everything GitLab or a proxy in front of it can  *)
(* answer: the owner's user object, a JSON error object ({"message": ...}, *)
(* e.g. 401 for a revoked token or 404 where the v3 API is gone), an HTML  *)
(* or empty body, a broken connection while the body is read, or no       *)
(* response at all.                                                        *)
(***************************************************************************)
EXTENDS Naturals, Sequences

CONSTANTS
    Accounts,   \* GitLab accounts
    IDs,        \* their user ids (GitLab numbers users from 1)
    Strings,    \* values of the username, name and email fields; "" among them
    Statuses    \* HTTP statuses the user API answers with

ASSUME 0 \notin IDs /\ "" \in Strings

\* Bodies the user API can send: the owner's user object, a JSON object with
\* none of gitlabUser's fields, or something that is not JSON.
Bodies(u) ==
    {[kind |-> "user", id |-> u.id, username |-> u.username, name |-> u.name, email |-> u.email],
     [kind |-> "message"], [kind |-> "html"], [kind |-> "empty"]}

Profiles == [id : IDs, username : Strings \ {""}, name : Strings, email : Strings]

VARIABLES
    owner,    \* the account the access token belongs to
    profile,  \* each account's user object
    answer,   \* what client.Do and ioutil.ReadAll returned
    result    \* what GetUserIdentity returned, once it has run

vars == <<owner, profile, answer, result>>

None == [kind |-> "none"]

\* The identity: provider user name and the extras, "" standing for absent.
Identities == [kind : {"identity"}, userName : Seq(0..9),
               displayName : Strings, preferredUsername : Strings, email : Strings]

TypeOK ==
    /\ owner \in Accounts
    /\ profile \in [Accounts -> Profiles]
    /\ result \in Identities \cup [kind : {"error"}] \cup {None}

Init ==
    /\ owner \in Accounts
    /\ profile \in {p \in [Accounts -> Profiles] :
                      \A a, b \in Accounts : p[a].id = p[b].id => a = b}
    /\ answer = None
    /\ result = None

\* client.Do, then ioutil.ReadAll of the body of whatever status came back.
Answers(u) ==
    [kind : {"transport"}] \cup [kind : {"read"}]
      \cup {[kind |-> "body", status |-> s, body |-> b] : s \in Statuses, b \in Bodies(u)}

\* json.Unmarshal into a zero gitlabUser: fields missing from the object keep
\* their zero value; a body that is not JSON is an error.
Unmarshal(body) ==
    CASE body.kind = "user"    -> [ok |-> TRUE, id |-> body.id, username |-> body.username,
                                   name |-> body.name, email |-> body.email]
      [] body.kind = "message" -> [ok |-> TRUE, id |-> 0, username |-> "", name |-> "", email |-> ""]
      [] OTHER                 -> [ok |-> FALSE]

\* A plausible bug: the id is not checked, so an object without one is a user.
RetrievedIDUnchecked(userdata) == TRUE

\* if userdata.ID == 0 { return nil, errors.New("Could not retrieve GitLab id") }
RetrievedID(userdata) == userdata.id # 0

\* A plausible bug: the id printed with %x, in hexadecimal digits.
RECURSIVE FormatHex(_)
FormatHex(n) ==
    IF n < 16 THEN <<n>> ELSE FormatHex(n \div 16) \o <<n % 16>>

\* fmt.Sprintf("%d", id): the decimal digits, most significant first.
RECURSIVE FormatDecimal(_)
FormatDecimal(n) ==
    IF n < 10 THEN <<n>> ELSE FormatDecimal(n \div 10) \o <<n % 10>>

\* NewDefaultUserIdentityInfo and the extras set only for non-empty fields.
NewIdentity(userdata) ==
    [kind |-> "identity", userName |-> FormatDecimal(userdata.id),
     displayName |-> userdata.name, preferredUsername |-> userdata.username,
     email |-> userdata.email]

GetUserIdentity ==
    /\ result = None
    /\ \E a \in Answers(profile[owner]) :
         /\ answer' = a
         /\ result' =
              IF a.kind # "body" THEN [kind |-> "error"]
              ELSE LET userdata == Unmarshal(a.body)
                   IN IF userdata.ok /\ RetrievedID(userdata)
                      THEN NewIdentity(userdata) ELSE [kind |-> "error"]
    /\ UNCHANGED <<owner, profile>>

Next == GetUserIdentity

Spec == Init /\ [][Next]_vars

-----------------------------------------------------------------------------
(* The identity GetUserIdentity returns names the account that owns the   *)
(* token and no other: its provider user name is the owner's id in         *)
(* decimal and differs from every other account's, and its extras are the  *)
(* owner's fields, whatever status and body the user API answered with.    *)
(* The code never looks at the HTTP status, so an error answer must not    *)
(* become an identity (one shared by every failed lookup).                 *)
IdentityNamesTokenOwner ==
    result.kind = "identity" =>
        /\ \A a \in Accounts : result.userName = FormatDecimal(profile[a].id) <=> a = owner
        /\ result.preferredUsername = profile[owner].username
        /\ result.displayName = profile[owner].name
        /\ result.email = profile[owner].email
=============================================================================
