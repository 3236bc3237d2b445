---------------------------- MODULE AbstractLogin ----------------------------
(***************************************************************************)
(* What the external OAuth login promises a browser, with no provider,     *)
(* no cookies and no state token: a user asks for URLs of this server; a   *)
(* browser that is not the attacker's is only ever logged in as its own    *)
(* user, and only ever sent back to a URL it asked for.  The attacker's    *)
(* own browser may end up in any state.  ExternalOAuth implements this     *)
(* specification (ExternalOAuth!ImplementsAbstractLogin).                  *)
(***************************************************************************)
CONSTANTS Browsers, Attacker, Urls, NoUser

VARIABLES
    requested,  \* URLs each browser asked for
    session,    \* the user each browser is logged in as
    redirects   \* URLs each browser was sent back to

vars == <<requested, session, redirects>>

Victims == Browsers \ {Attacker}

Init ==
    /\ requested = [b \in Browsers |-> {}]
    /\ session = [b \in Browsers |-> NoUser]
    /\ redirects = [b \in Browsers |-> {}]

\* A browser asks for a URL that needs a login.
Request(b, u) ==
    /\ requested' = [requested EXCEPT ![b] = @ \cup {u}]
    /\ UNCHANGED <<session, redirects>>

\* A victim is logged in as its own user and sent to a URL it asked for.
LogIn(v) ==
    /\ \E u \in requested[v] :
         /\ session' = [session EXCEPT ![v] = v]
         /\ redirects' = [redirects EXCEPT ![v] = @ \cup {u}]
    /\ UNCHANGED requested

\* A failed login sends a victim back to a URL it asked for (with the error).
ReturnTo(v) ==
    /\ \E u \in requested[v] : redirects' = [redirects EXCEPT ![v] = @ \cup {u}]
    /\ UNCHANGED <<requested, session>>

\* Whatever happens in the attacker's own browser.
AttackerStep ==
    /\ \E r \in SUBSET Urls, s \in Browsers \cup {NoUser}, d \in SUBSET Urls :
         /\ requested' = [requested EXCEPT ![Attacker] = r]
         /\ session' = [session EXCEPT ![Attacker] = s]
         /\ redirects' = [redirects EXCEPT ![Attacker] = d]

Next ==
    \/ \E b \in Browsers, u \in Urls : Request(b, u)
    \/ \E v \in Victims : LogIn(v) \/ ReturnTo(v)
    \/ AttackerStep

Spec == Init /\ [][Next]_vars
=============================================================================
