-------------------------------- MODULE Csrf --------------------------------
(***************************************************************************)
(* The double-submit token of middleware/csrf.go between one browser and   *)
(* the server: pages are rendered with the token of the request that asked *)
(* for them, forms on them are submitted with that token, and the cookie   *)
(* they are compared with is whichever the browser got last. The secret is *)
(* drawn when the middleware is made, unless one is configured.            *)
(***************************************************************************)
EXTENDS Naturals, FiniteSets

CONSTANTS
  Visits,       \* requests of the browser
  LastToken,    \* bound: the tokens there are at one time
  LastSecret    \* bound: the secrets of a server that draws its own; 0 if configured

ASSUME CsrfAssumption == LastToken \in Nat /\ LastSecret \in Nat

VARIABLES
  secret,       \* the secret of the running server
  csrfJar,      \* the browser's cookie
  pages,        \* the tokens in the pages it has open
  visit,        \* the requests
  excused       \* history: the browser lost its cookie, or sent two at once
                \* without one, or the server lost its secret

csrfVars == <<secret, csrfJar, pages, visit, excused>>

NoToken == [secret |-> 0, n |-> 0]
Tokens == [secret : 0..LastSecret, n : 0..LastToken]
Stages == {"new", "sent", "page", "refused", "passed"}

CsrfTypeOK ==
  /\ secret \in 0..LastSecret
  /\ csrfJar \in Tokens /\ pages \subseteq Tokens
  /\ visit \in [Visits -> [stage : Stages, safe : BOOLEAN, sets : BOOLEAN,
                           cookie : Tokens, submitted : Tokens]]
  /\ excused \in BOOLEAN

Idle == [stage |-> "new", safe |-> TRUE, sets |-> FALSE,
         cookie |-> NoToken, submitted |-> NoToken]

CsrfInit ==
  /\ secret = 0
  /\ csrfJar = NoToken /\ pages = {}
  /\ visit = [v \in Visits |-> Idle]
  /\ excused = FALSE

InFlight == {v \in Visits : visit[v].stage \in {"sent", "page", "refused", "passed"}}

\* The tokens there are: in the cookie, in pages, in requests.
InUse == (pages \cup {csrfJar}
            \cup UNION {{visit[v].cookie, visit[v].submitted} : v \in Visits}) \ {NoToken}

\* The browser asks for a page, or submits the form of one, with the cookie it
\* has; the bound leaves a token for every request under way.
Send(v, safe, token) ==
  /\ visit[v].stage = "new"
  /\ Cardinality(InUse) + Cardinality(InFlight) < LastToken
  /\ visit' = [visit EXCEPT ![v] =
                 [Idle EXCEPT !.stage = "sent", !.safe = safe,
                              !.cookie = csrfJar, !.submitted = token]]
  /\ excused' = (excused \/ (csrfJar = NoToken /\ InFlight # {}))
  /\ UNCHANGED <<secret, csrfJar, pages>>

\* validSignedCSRFToken: the token is one of ours and our secret signed it.
ValidSigned(token) == token # NoToken /\ token.secret = secret

\* generateCSRFToken: a token like none there is.
Fresh(token) == token.secret = secret /\ \A other \in InUse : token.n # other.n

\* A plausible bug: every safe request gets a token of its own, as the comment of
\* CSRF has it.
TokenEachTime(v, token) ==
  IF ValidSigned(visit[v].cookie) /\ ~visit[v].safe THEN token = visit[v].cookie ELSE Fresh(token)

\* The token of a request: its cookie if that is valid, else a fresh one.
RequestToken(v, token) ==
  IF ValidSigned(visit[v].cookie) THEN token = visit[v].cookie ELSE Fresh(token)

\* csrfTokensEqual: nothing equals an empty token.
TokensEqual(token, submitted) == token # NoToken /\ submitted = token

\* The middleware. A fresh token goes into the response whatever the method, so
\* that a refusal brings the browser a cookie too.
CheckToken(v) ==
  /\ visit[v].stage = "sent"
  /\ \E token \in [secret : {secret}, n : 1..LastToken] :
       /\ RequestToken(v, token)
       /\ visit' = [visit EXCEPT
            ![v].cookie = token,
            ![v].sets = token # visit[v].cookie,
            ![v].stage = IF visit[v].safe THEN "page"
                         ELSE IF TokensEqual(token, visit[v].submitted) THEN "passed" ELSE "refused"]
  /\ UNCHANGED <<secret, csrfJar, pages, excused>>

\* The response arrives, with a cookie if a token was generated. A page shows
\* the token of its request.
Receive(v) ==
  /\ visit[v].stage \in {"page", "passed", "refused"}
  /\ csrfJar' = IF visit[v].sets THEN visit[v].cookie ELSE csrfJar
  /\ pages' = IF visit[v].safe THEN pages \cup {visit[v].cookie} ELSE pages
  /\ visit' = [visit EXCEPT ![v] = Idle]
  /\ UNCHANGED <<secret, excused>>

ClosePage ==
  /\ \E token \in pages : pages' = pages \ {token}
  /\ UNCHANGED <<secret, csrfJar, visit, excused>>

\* CookieMaxAge ends, or the user clears the cookie.
LoseCookie ==
  /\ csrfJar # NoToken
  /\ csrfJar' = NoToken /\ excused' = TRUE
  /\ UNCHANGED <<secret, pages, visit>>

\* The process starts anew; with an empty Secret it draws another one.
Restart ==
  /\ secret < LastSecret
  /\ secret' = secret + 1 /\ excused' = TRUE
  /\ UNCHANGED <<csrfJar, pages, visit>>

CsrfNext ==
  \/ LoseCookie \/ ClosePage \/ Restart
  \/ \E v \in Visits :
       \/ Send(v, TRUE, NoToken) \/ \E token \in pages \cup {NoToken} : Send(v, FALSE, token)
       \/ CheckToken(v) \/ Receive(v)

CsrfSpec == CsrfInit /\ [][CsrfNext]_csrfVars

-----------------------------------------------------------------------------

\* Every form the browser has open can be submitted, whatever pages were asked
\* for before and after it and whatever was refused in between, as long as the
\* browser keeps its cookie, waits for its first, and the server keeps its secret.
OpenFormsWork ==
  \A v \in Visits :
    visit[v].stage = "refused" /\ visit[v].submitted # NoToken => excused
=============================================================================
