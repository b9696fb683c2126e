---------------------------- MODULE MCRateLimiter ----------------------------
(* What stands before an operation and remembers requests or refuses them: the *)
(* rate limiter, the session, the CSRF token and the chain of middleware. They *)
(* share no state, so each behaviour is of one of them, the others standing    *)
(* still.                                                                      *)
(*                                                                             *)
(* Limiter: two clients, two requests at a time; a bucket holds one request    *)
(* and a half, one is earned in two ticks, five idle ticks forget a client.    *)
(* Session: two overlapping requests of one browser, a session of two keys     *)
(* where one fits. CSRF: two requests at a time, three tokens, one restart.    *)
EXTENDS RateLimiter, Session, Csrf, Chain, TLC

VARIABLE subject

otherVars == <<sessionVars, csrfVars, chainVars>>
allVars == <<subject, vars, otherVars>>

\* The order of the generated project, that of the documentation, all guards.
MCChains ==
  { <<"requestID", "recovery", "logger", "cors", "deprecation", "jwt">>,
    <<"logger", "recovery", "secure", "i18n", "csrf", "upload", "typed">>,
    <<"logger", "cors", "recovery", "apiKey", "basic", "bearer", "oauth2">> }

\* The default mapper alone, and before two of a program.
MCMappers ==
  { <<"deadline" :> "timeout">>,
    <<"deadline" :> "timeout",
      "library" :> "notFound" @@ "deadline" :> "badRequest",
      "library" :> "badRequest">> }

MCInit ==
  /\ subject \in {"limiter", "session", "csrf", "chain"}
  /\ Init /\ SessionInit /\ CsrfInit /\ ChainInit

\* The requests of a browser or of a chain are done.
AllDone ==
  /\ \/ subject = "session" /\ \A r \in SessionRequests : at[r] = "done"
     \/ subject = "chain" /\ way \in {"answered", "cut"}
  /\ UNCHANGED allVars

MCNext ==
  \/ subject = "limiter" /\ Next
       /\ UNCHANGED <<subject, sessionVars, csrfVars, chainVars>>
  \/ subject = "session" /\ SessionNext
       /\ UNCHANGED <<subject, vars, csrfVars, chainVars>>
  \/ subject = "csrf" /\ CsrfNext
       /\ UNCHANGED <<subject, vars, sessionVars, chainVars>>
  \/ subject = "chain" /\ ChainNext
       /\ UNCHANGED <<subject, vars, sessionVars, csrfVars>>
  \/ AllDone

MCSpec == MCInit /\ [][MCNext]_allVars

\* Every part keeps its types.
MCTypeOK == TypeOK /\ SessionTypeOK /\ CsrfTypeOK /\ ChainTypeOK

Symmetry == Permutations(Requests)
=============================================================================
