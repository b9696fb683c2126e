-------------------------------- MODULE Chain --------------------------------
(***************************************************************************)
(* One request on its way through gin's chain of handlers: the middleware  *)
(* of package middleware in the order a program registers it, the wrappers *)
(* of the operation and the operation itself, and back. gin goes on to the *)
(* next handler when one returns without c.Next, unless it has aborted, so *)
(* a refusal is only as final as the Abort in it.                          *)
(*                                                                         *)
(* A middleware is its name. Credentials, bodies and origins are what each *)
(* makes of them: it passes the request on or refuses it.                  *)
(***************************************************************************)
EXTENDS Naturals, Sequences

CONSTANTS
  Chains,   \* the orders of middleware, sequences of Middleware
  Mappers   \* the lists of error mappers, sequences of functions on Errors

Middleware == {"requestID", "logger", "recovery", "i18n", "secure", "cors", "deprecation", "csrf",
               "upload", "typed", "apiKey", "basic", "bearer", "oauth2", "jwt"}

\* wrapTimeout records the response of an operation and wrapCache captures it.
Operations == {"plain", "timed", "cached"}

\* What handlers and typed middleware return: an *Error of each status, one
\* without a status, a *ValidationError, a deadline, and errors of libraries.
Errors == {"badRequest", "notFound", "uncoded", "validation", "deadline", "library"}

\* Any list of middleware; the mappers are any functions to kinds of errors.
ASSUME ChainAssumption == Chains # {} /\ Chains \subseteq Seq(Middleware) /\ Mappers # {}

VARIABLES
  chain, operation, mappers,  \* how the API was set up
  next,      \* the handler that is next, past the end for the operation
  frames,    \* the middleware whose c.Next has not returned, the last innermost
  way,       \* where the request is: going down, up, panicking, answered, cut off
  keys,      \* the keys of the gin context, and who set the principal
  headers,   \* the headers of the response, by who set them
  status, bodies,  \* the status of the response and the bodies written to it
  refusal,   \* history: who refused the request, with which status
  passed,    \* history: the middleware that ran and passed the request on
  handled,   \* history: the handler function was called
  captured,  \* c.Writer is a capture that wrapCache has left behind
  log        \* the status in the line of Logger, 0 before it

chainVars == <<chain, operation, mappers, next, frames, way, keys, headers, status, bodies,
               refusal, passed, handled, captured, log>>
setup == <<chain, operation, mappers>>
response == <<headers, status, bodies>>
chainHistory == <<refusal, passed, handled, captured>>

NoRefusal == [by |-> "nobody", status |-> 0]
Statuses == {200, 204, 400, 401, 403, 404, 408, 413, 415, 422, 500}

ChainTypeOK ==
  /\ chain \in Chains /\ operation \in Operations /\ mappers \in Mappers
  /\ next \in 1..Len(chain) + 1 /\ frames \in Seq(Middleware)
  /\ way \in {"idle", "down", "up", "panic", "answered", "cut"}
  /\ keys \subseteq {"id", "locale", "claims", "scopes"} \cup Middleware
  /\ headers \subseteq Middleware \cup {"operation"}
  /\ status \in Statuses \cup {0} /\ log \in Statuses \cup {0} /\ bodies \in Nat
  /\ refusal \in [by : Middleware \cup {"nobody"}, status : Statuses \cup {0}]
  /\ passed \subseteq Middleware /\ handled \in BOOLEAN /\ captured \in BOOLEAN

ChainInit ==
  /\ chain = CHOOSE c \in Chains : TRUE
  /\ operation = "plain" /\ mappers = CHOOSE m \in Mappers : TRUE
  /\ next = 1 /\ frames = <<>> /\ way = "idle"
  /\ keys = {} /\ headers = {} /\ status = 0 /\ bodies = 0
  /\ refusal = NoRefusal /\ passed = {} /\ handled = FALSE /\ captured = FALSE /\ log = 0

\* The request of an API that is set up in one way or another.
Serve ==
  /\ way = "idle"
  /\ chain' \in Chains /\ operation' \in Operations /\ mappers' \in Mappers
  /\ way' = "down"
  /\ UNCHANGED <<next, frames, keys, log, response, chainHistory>>

-----------------------------------------------------------------------------
(* Answers.                                                                *)

\* mapErrorWithMappers: the first mapper that handles the error maps it, once.
MapError(error) ==
  LET handles == {i \in DOMAIN mappers : error \in DOMAIN mappers[i]} IN
  IF handles = {} THEN error
  ELSE mappers[CHOOSE i \in handles : \A j \in handles : i <= j][error]

\* WriteError: the status of an error.
StatusOf(error) ==
  CASE MapError(error) = "badRequest" -> 400
    [] MapError(error) = "notFound"   -> 404
    [] MapError(error) = "validation" -> 422
    [] MapError(error) = "timeout"    -> 408
    [] OTHER                          -> 500

\* AbortWithStatusJSON: a status that is out already stays.
Answer(code) ==
  /\ status' = IF bodies = 0 THEN code ELSE status
  /\ bodies' = bodies + 1

-----------------------------------------------------------------------------
(* The middleware: the keys it puts in the context, the headers it may set *)
(* before c.Next, and the statuses it may refuse a request with.           *)

Plain == [keys |-> {}, heads |-> {{}}, refuses |-> {}]

\* A client's id is taken over if it is valid; either way there is one.
RequestID == [Plain EXCEPT !.keys = {"id"}, !.heads = {{"requestID"}}]

I18n == [Plain EXCEPT !.keys = {"locale"}]

\* Every header is opt-in, HSTS besides needs a secure connection.
SecureHeaders == [Plain EXCEPT !.heads = {{}, {"secure"}}]

\* gin-contrib/cors: requests without an Origin pass as they are; a preflight is
\* answered, a foreign origin refused.
CORS == [Plain EXCEPT !.heads = {{}, {"cors"}}, !.refuses = {204, 403}]

Deprecation == [Plain EXCEPT !.heads = {{"deprecation"}}]

\* The cookie of a token that was generated; see Csrf.
CSRF == [Plain EXCEPT !.heads = {{}, {"csrf"}}, !.refuses = {403}]

\* A declared length beyond the limit, a type that is not allowed.
UploadLimit == [Plain EXCEPT !.refuses = {413, 415}]

\* Middleware of Router.Use, which returns an error.
Typed == [Plain EXCEPT !.refuses = {StatusOf(e) : e \in Errors}]

APIKeyAuth == [Plain EXCEPT !.keys = {"apiKey"}, !.refuses = {401}]
HTTPBasicAuth == [Plain EXCEPT !.keys = {"basic"}, !.refuses = {401}]
HTTPBearerAuth == [Plain EXCEPT !.keys = {"bearer"}, !.refuses = {401}]

\* A token that lacks one of the scopes is valid, and forbidden.
OAuth2BearerAuth == [Plain EXCEPT !.keys = {"scopes", "oauth2"}, !.refuses = {401, 403}]

JWTAuth == [Plain EXCEPT !.keys = {"claims", "jwt"}, !.refuses = {401}]

Does(mw) ==
  CASE mw = "requestID" -> RequestID       [] mw = "i18n"        -> I18n
    [] mw = "secure"    -> SecureHeaders   [] mw = "deprecation" -> Deprecation
    [] mw = "cors"      -> CORS            [] mw = "csrf"        -> CSRF
    [] mw = "upload"    -> UploadLimit     [] mw = "typed"       -> Typed
    [] mw = "apiKey"    -> APIKeyAuth      [] mw = "basic"       -> HTTPBasicAuth
    [] mw = "bearer"    -> HTTPBearerAuth  [] mw = "oauth2"      -> OAuth2BearerAuth
    [] mw = "jwt"       -> JWTAuth         [] OTHER              -> Plain

Authenticators == {"apiKey", "basic", "bearer", "oauth2", "jwt"}

-----------------------------------------------------------------------------
(* Down the chain.                                                         *)

\* authPrincipalKey holds one principal, that of the last authenticator.
Pass ==
  LET mw == chain[next] IN
  /\ way = "down" /\ next <= Len(chain)
  /\ frames' = Append(frames, mw)
  /\ next' = next + 1
  /\ keys' = (IF mw \in Authenticators THEN keys \ Authenticators ELSE keys) \cup Does(mw).keys
  /\ \E heads \in Does(mw).heads : headers' = headers \cup heads
  /\ passed' = passed \cup {mw}
  /\ UNCHANGED <<setup, way, status, bodies, refusal, handled, captured, log>>

\* A plausible bug: the refusal is written but the chain is not aborted.
RefuseGoingOn ==
  LET mw == chain[next] IN
  /\ way = "down" /\ next <= Len(chain)
  /\ \E code \in Does(mw).refuses :
       /\ refusal' = [by |-> mw, status |-> code]
       /\ Answer(code)
  /\ next' = next + 1
  /\ headers' = headers \cup {mw}
  /\ UNCHANGED <<setup, frames, way, keys, passed, handled, captured, log>>

\* The answer of a refusal, WWW-Authenticate or the like in its headers.
Refuse ==
  LET mw == chain[next] IN
  /\ way = "down" /\ next <= Len(chain)
  /\ \E code \in Does(mw).refuses :
       /\ refusal' = [by |-> mw, status |-> code]
       /\ Answer(code)
  /\ way' = "up"
  /\ headers' = headers \cup {mw}
  /\ UNCHANGED <<setup, next, frames, keys, passed, handled, captured, log>>

\* The operation returns its output or an error. What wrapTimeout recorded and
\* wrapCache captured replaces the headers there are (copyHeader).
Operate ==
  /\ way = "down" /\ next > Len(chain)
  /\ \E code \in {200, 204} \cup {StatusOf(e) : e \in Errors} : Answer(code)
  /\ headers' = IF operation = "plain" THEN headers \cup {"operation"} ELSE {"operation"}
  /\ handled' = TRUE /\ way' = "up"
  /\ UNCHANGED <<setup, next, frames, keys, refusal, passed, captured, log>>

\* The deadline of wrapTimeout: 408, to the response as it is. The default mapper
\* would answer the same for an error of the context.
OperationTimesOut ==
  /\ way = "down" /\ next > Len(chain) /\ operation = "timed"
  /\ Answer(408)
  /\ handled' = TRUE /\ way' = "up"
  /\ UNCHANGED <<setup, next, frames, keys, headers, refusal, passed, captured, log>>

OperationPanics ==
  /\ way = "down" /\ next > Len(chain)
  /\ handled' = TRUE /\ way' = "panic"
  /\ captured' = (operation = "cached")
  /\ UNCHANGED <<setup, next, frames, keys, log, response, refusal, passed>>

-----------------------------------------------------------------------------
(* Up the chain.                                                           *)

Innermost == frames[Len(frames)]
Pop == frames' = SubSeq(frames, 1, Len(frames) - 1)

\* c.Next returns. Logger writes its line; the others have nothing left to do.
Return ==
  /\ way = "up" /\ frames # <<>>
  /\ Pop
  /\ log' = IF Innermost = "logger" THEN status ELSE log
  /\ UNCHANGED <<setup, next, way, keys, response, chainHistory>>

\* A panic runs the deferred functions only: Recovery answers and returns.
Unwind ==
  /\ way = "panic" /\ frames # <<>>
  /\ Pop
  /\ IF Innermost = "recovery"
     THEN way' = "up" /\ Answer(StatusOf("internal"))
     ELSE UNCHANGED <<way, status, bodies>>
  /\ UNCHANGED <<setup, next, keys, headers, log, chainHistory>>

\* gin sends what its own writer holds, which is nothing if the answer went into a
\* capture; or net/http closes the connection after a panic.
Leave ==
  /\ way \in {"up", "panic"} /\ frames = <<>>
  /\ way' = IF way = "up" THEN "answered" ELSE "cut"
  /\ IF captured /\ way = "up" THEN status' = 200 /\ bodies' = 0 ELSE UNCHANGED <<status, bodies>>
  /\ UNCHANGED <<setup, next, frames, keys, headers, log, chainHistory>>

ChainNext ==
  Serve \/ Pass \/ Refuse \/ Operate \/ OperationTimesOut \/ OperationPanics
    \/ Return \/ Unwind \/ Leave

ChainSpec == ChainInit /\ [][ChainNext]_chainVars

-----------------------------------------------------------------------------

\* In whatever order middleware is registered, a refusal is the only answer: no
\* handler behind it runs, nothing is added to its body, its status stays.
RefusalIsFinal ==
  refusal # NoRefusal =>
    ~handled /\ bodies = 1 /\ status = refusal.status

\* If Logger logs a request, then with the status the client got: also when an
\* inner Recovery made the answer of a panic, and when a guard between refused.
LoggedAsAnswered ==
  way = "answered" /\ ~captured => status # 0 /\ bodies = 1 /\ log \in {0, status}

\* What a middleware put into the headers before the operation gets lost only in
\* an operation with a timeout or a cache that ran to its end (copyHeader).
HeadersArrive ==
  \A mw \in passed \cap {"requestID", "deprecation"} :
    mw \notin headers => handled /\ operation # "plain" /\ "operation" \in headers

\* Every request that is answered is answered once: by the one who refused it or by
\* the operation, as it is logged, and with the headers of the middleware it
\* passed. A panic under wrapCache, whose answer goes into the capture, is logged
\* as a 500 and received as an empty 200.
AnsweredOnce == RefusalIsFinal /\ LoggedAsAnswered /\ HeadersArrive
=============================================================================
