-------------------------- MODULE OperationContract --------------------------
(***************************************************************************)
(* The contract of one operation: what its options make of it, in the      *)
(* order they are given, what the OpenAPI document says of its answers,    *)
(* and what it then answers.                                               *)
(*                                                                         *)
(* The document and the serializer each look through the same fields of    *)
(* the operation for the model of a success, in different orders.          *)
(***************************************************************************)
EXTENDS Integers, FiniteSets, SequencesExt

CONSTANTS
  Handlers,      \* the functions registered: [method, returns]
  HandlerCodes,  \* the statuses of the *Errors that handlers return, 0 for none
  GuardCodes,    \* the statuses that the middleware of SecurityMiddleware refuses with
  MaxOptions     \* bound: options given to one operation

\* What a handler returns: nothing (Delete), a model, a page or a cursor page of
\* models, or a file.
Envelopes == {"nothing", "model", "page", "cursor", "file"}

ASSUME ContractAssumption ==
  /\ Handlers \subseteq [method : {"GET", "POST", "PUT", "PATCH", "DELETE"}, returns : Envelopes]
  /\ HandlerCodes \subseteq Nat /\ GuardCodes \subseteq Nat
  /\ MaxOptions \in Nat

VARIABLES
  contract,  \* the operation
  given,     \* the number of options given so far
  phase,     \* where the operation is
  answer     \* [by, status, content, headers]: what it answered, and whose answer it is

contractVars == <<contract, given, phase, answer>>

\* A model as it is, its view (a struct embedding ModelSchema), a type it cannot
\* become, and a selection of its fields (a descriptor).
None == "none"
Models == {"row", "view", "stranger"}
Selections == {"brief"}

\* newOperation, newVoidOperation and the status of Post.
NewOperation(handler) ==
  [method |-> handler.method, returns |-> handler.returns,
   status |-> IF handler.returns = "nothing" THEN 204
              ELSE IF handler.method = "POST" THEN 201 ELSE 200,
   responseType |-> None, responseSchema |-> None,
   paginatedItemType |-> None, paginatedResponseSchema |-> None,
   cursorPaginatedItemType |-> None, cursorPaginatedResponseSchema |-> None,
   responses |-> <<>>, security |-> 0, ginMiddleware |-> 0, deprecated |-> FALSE,
   hidden |-> FALSE, timeout |-> FALSE, rateLimit |-> FALSE, transaction |-> FALSE,
   cache |-> "off", control |-> "", etag |-> FALSE]

ContractTypeOK ==
  /\ given \in 0..MaxOptions
  /\ phase \in {"building", "registered", "answered", "panicked"}
  /\ contract.returns \in Envelopes
  /\ contract.responseType \in Models \cup {None} /\ contract.responseSchema \in Selections \cup {None}
  /\ contract.cache \in {"off", "on", "noTTL"} /\ contract.control \in {"", "default", "custom"}
  /\ contract.ginMiddleware <= contract.security

ContractInit ==
  /\ \E handler \in Handlers : contract = NewOperation(handler)
  /\ given = 0 /\ phase = "building" /\ answer = [by |-> "nobody", status |-> 0]

-----------------------------------------------------------------------------
(* The options.                                                            *)

ResponseModel(op, t) ==
  [op EXCEPT !.responseType = t, !.responseSchema = None,
             !.paginatedResponseSchema = None, !.cursorPaginatedResponseSchema = None]

ResponseSchema(op, d) ==
  [op EXCEPT !.responseSchema = d, !.responseType = None,
             !.paginatedResponseSchema = None, !.cursorPaginatedResponseSchema = None]

Paginated(op, t) == [op EXCEPT !.paginatedItemType = t, !.paginatedResponseSchema = None]
PaginatedSchema(op, d) == [op EXCEPT !.paginatedResponseSchema = d, !.paginatedItemType = None]
CursorPaginated(op, t) ==
  [op EXCEPT !.cursorPaginatedItemType = t, !.cursorPaginatedResponseSchema = None]
CursorPaginatedSchema(op, d) ==
  [op EXCEPT !.cursorPaginatedResponseSchema = d, !.cursorPaginatedItemType = None]

Modelling(op) ==
  (UNION {{ResponseModel(op, t), Paginated(op, t), CursorPaginated(op, t)} : t \in Models})
  \cup (UNION {{ResponseSchema(op, d), PaginatedSchema(op, d), CursorPaginatedSchema(op, d)} :
                 d \in Selections})

SuccessStatus(op, code) == [op EXCEPT !.status = code]

\* Response, PaginatedResponse and CursorPaginatedResponse: one more answer.
Response(op, code, content) ==
  [op EXCEPT !.responses = Append(@, [status |-> code, content |-> content])]

\* Cache sets its default header only over none; an operation's own header wins
\* in whichever order the two options come.
Cache(op, ttl) ==
  [op EXCEPT !.cache = IF ttl > 0 THEN "on" ELSE "noTTL",
             !.control = IF @ = "" /\ ttl > 0 THEN "default" ELSE @,
             !.etag = TRUE]
CacheControl(op) == [op EXCEPT !.control = "custom"]
ETag(op) == [op EXCEPT !.etag = TRUE]

Timeout(op) == [op EXCEPT !.timeout = TRUE]
RateLimit(op, perSecond) == [op EXCEPT !.rateLimit = perSecond > 0]
WithTransaction(op) == [op EXCEPT !.transaction = TRUE]
Deprecated(op) == [op EXCEPT !.deprecated = TRUE]
ExcludeFromDocs(op) == [op EXCEPT !.hidden = TRUE]

Security(op) == [op EXCEPT !.security = @ + 1]
SecurityMiddleware(op) == [Security(op) EXCEPT !.ginMiddleware = @ + 1]

Behaving(op) ==
  {SuccessStatus(op, 202), Timeout(op), RateLimit(op, 5), RateLimit(op, 0), WithTransaction(op),
   Cache(op, 1), Cache(op, 0), CacheControl(op), ETag(op), Deprecated(op), ExcludeFromDocs(op),
   Security(op), SecurityMiddleware(op)}
  \cup {Response(op, code, content) : code \in {202, 409}, content \in {<<>>, <<"page", "row">>}}

-----------------------------------------------------------------------------
(* The document.                                                           *)

\* buildOperationSpec: the content of the success. The declared model of a
\* handler with none is its own output.
Content(op) ==
  IF op.paginatedResponseSchema # None THEN <<"page", op.paginatedResponseSchema>>
  ELSE IF op.paginatedItemType # None THEN <<"page", op.paginatedItemType>>
  ELSE IF op.cursorPaginatedResponseSchema # None
       THEN <<"cursor", op.cursorPaginatedResponseSchema>>
  ELSE IF op.cursorPaginatedItemType # None THEN <<"cursor", op.cursorPaginatedItemType>>
  ELSE IF op.responseSchema # None THEN <<"model", op.responseSchema>>
  ELSE IF op.responseType # None THEN <<"model", op.responseType>>
  ELSE IF op.returns = "nothing" THEN <<>> ELSE <<op.returns, "row">>

\* responseHeadersForOperation, without those of a version.
DocumentedHeaders(op) ==
  (IF op.etag THEN {"ETag"} ELSE {})
  \cup (IF op.cache # "off" \/ op.control # "" THEN {"Cache-Control"} ELSE {})

\* A later answer of the same status replaces an earlier one, the success too.
DocumentedResponses(op) ==
  LET standard ==
        {[status |-> 422, content |-> <<>>], [status |-> 500, content |-> <<>>]}
        \cup (IF op.timeout THEN {[status |-> 408, content |-> <<>>]} ELSE {})
        \cup (IF op.rateLimit THEN {[status |-> 429, content |-> <<>>]} ELSE {})
        \cup {[status |-> op.status, content |-> Content(op)]}
      declared == DOMAIN op.responses
      StatusOf(i) == op.responses[i].status
  IN {x \in standard : \A i \in declared : StatusOf(i) # x.status}
     \cup {op.responses[i] :
             i \in {j \in declared : \A later \in declared : later > j => StatusOf(later) # StatusOf(j)}}

-----------------------------------------------------------------------------
(* The answers.                                                            *)

\* finalize, from the outside in. A file is written straight to the client, under
\* a timeout that only cancels the context.
Wrappers(op) ==
  (IF op.rateLimit THEN <<"rate limit">> ELSE <<>>)
  \o (IF op.cache # "off" \/ op.control # "" \/ op.etag THEN <<"cache">> ELSE <<>>)
  \o (IF op.timeout THEN <<IF op.returns = "file" THEN "cooperative timeout" ELSE "timeout">>
      ELSE <<>>)
  \o <<"handler">>

Failure == <<"error">>
\* A row becomes its view and a selection of it; a required field that is empty
\* fails the validation of either.
BoundModel(t, valid) == t # "stranger" /\ valid

\* serializePaginatedResponseModel and serializePaginatedModelSchemaResponse: the
\* envelope is the handler's.
SerializePage(op, t, valid) ==
  IF op.returns \in {"page", "cursor"} /\ BoundModel(t, valid) THEN <<op.returns, t>> ELSE Failure

\* Plausible bug: a model declared for the response goes before the items of a page.
SerializeModelFirst(op, valid) ==
  IF op.responseType # None
  THEN (IF op.returns = "model" /\ BoundModel(op.responseType, valid) THEN <<"model", op.responseType>>
        ELSE <<op.returns, "row">>)
  ELSE <<op.returns, "row">>

\* serializeModelSchemaResponse: a selection is of the handler's own type, whose
\* required fields it checks as deep as it selects.
SerializeSelection(op, d, valid) ==
  IF op.returns = "model" /\ valid THEN <<"model", d>> ELSE Failure

\* serializeResponse.
Serialize(op, valid) ==
  IF op.paginatedResponseSchema # None THEN SerializePage(op, op.paginatedResponseSchema, valid)
  ELSE IF op.cursorPaginatedResponseSchema # None
       THEN SerializePage(op, op.cursorPaginatedResponseSchema, valid)
  ELSE IF op.paginatedItemType # None THEN SerializePage(op, op.paginatedItemType, valid)
  ELSE IF op.cursorPaginatedItemType # None
       THEN SerializePage(op, op.cursorPaginatedItemType, valid)
  ELSE IF op.responseSchema # None
       THEN SerializeSelection(op, op.responseSchema, valid)
  ELSE IF op.responseType = None THEN <<op.returns, "row">>
  ELSE IF op.returns = "model" /\ BoundModel(op.responseType, valid) THEN <<"model", op.responseType>>
  ELSE Failure

\* Download.writeTo and Stream's: they know HEAD themselves.
WriteFile(op, request) ==
  [status |-> op.status, content |-> IF request.head THEN <<>> ELSE <<"file", "row">>]

\* writeSuccessResponse: a nil output answers 204, and a HEAD request gets the
\* headers only.
Success(op, request) ==
  IF op.returns = "nothing" \/ request.output = "nil" THEN [status |-> 204, content |-> <<>>]
  ELSE IF op.returns = "file" THEN WriteFile(op, request)
  ELSE IF request.head THEN [status |-> op.status, content |-> <<>>]
  ELSE LET body == Serialize(op, request.output = "valid")
       IN IF body = Failure THEN [status |-> 500, content |-> Failure]
          ELSE [status |-> op.status, content |-> body]

\* What a handler returns as an error: an *Error, a *ValidationError, an error that is
\* a DeadlineExceeded, whoever's deadline it was, or any other.
HandlerErrors ==
  [kind : {"error"}, code : HandlerCodes] \cup [kind : {"validation", "deadline", "other"}]

\* WriteError, with the error mappers an API has of its own accord.
WriteError(error) ==
  CASE error.kind = "error" -> IF error.code = 0 THEN 500 ELSE error.code
    [] error.kind = "validation" -> 422
    [] error.kind = "deadline" -> 408
    [] error.kind = "other" -> 500

\* The answers that are no success: of the guards in front of the operation, of the
\* framework (binding, wrappers, transaction, Recovery), and of the handler, which
\* the kind of its error tells apart.
Refusals(op) ==
  (IF op.ginMiddleware > 0 THEN [by : {"guard"}, status : GuardCodes] ELSE {})
  \cup [by : {"framework"}, status : {400, 413, 422, 500}]
  \cup (IF "rate limit" \in ToSet(Wrappers(op)) THEN [by : {"framework"}, status : {429}] ELSE {})
  \cup (IF {"timeout", "cooperative timeout"} \cap ToSet(Wrappers(op)) # {}
        THEN [by : {"framework"}, status : {408}] ELSE {})
  \cup {[by |-> error.kind, status |-> WriteError(error)] : error \in HandlerErrors}

\* wrapCache adds its headers to the answer of a GET; a file passes it by, unless
\* it is cached, which it never is.
AnsweredHeaders(op, response) ==
  IF "cache" \notin ToSet(Wrappers(op)) \/ op.method # "GET" \/ op.returns = "file"
     \/ response.status >= 400
  THEN {}
  ELSE (IF op.control # "" THEN {"Cache-Control"} ELSE {})
       \cup (IF op.etag /\ response.content # <<>> THEN {"ETag"} ELSE {})

-----------------------------------------------------------------------------

GiveOption ==
  /\ phase = "building" /\ given < MaxOptions
  /\ contract' \in Modelling(contract) \cup Behaving(contract)
  /\ given' = given + 1
  /\ UNCHANGED <<phase, answer>>

\* BearerAuth and its like with no middleware, or with a nil one.
GiveGuardWithoutMiddleware ==
  /\ phase = "building" /\ given < MaxOptions
  /\ phase' = "panicked"
  /\ UNCHANGED <<contract, given, answer>>

Register ==
  /\ phase = "building"
  /\ phase' = "registered"
  /\ UNCHANGED <<contract, given, answer>>

AnswerSuccess ==
  /\ phase = "registered"
  /\ \E output \in {"nil", "valid", "invalid"}, head \in {FALSE, contract.method = "GET"} :
       LET response == Success(contract, [output |-> output, head |-> head])
       IN answer' = [by |-> "output", status |-> response.status, content |-> response.content,
                     headers |-> AnsweredHeaders(contract, response)]
  /\ phase' = "answered"
  /\ UNCHANGED <<contract, given>>

Refuse ==
  /\ phase = "registered"
  /\ \E refusal \in Refusals(contract) :
       answer' = [by |-> refusal.by, status |-> refusal.status, content |-> Failure,
                  headers |-> IF refusal.by = "guard" THEN {}
                              ELSE AnsweredHeaders(contract, [status |-> refusal.status, content |-> Failure])]
  /\ phase' = "answered"
  /\ UNCHANGED <<contract, given>>

ContractNext ==
  GiveOption \/ GiveGuardWithoutMiddleware \/ Register \/ AnswerSuccess \/ Refuse

ContractSpec == ContractInit /\ [][ContractNext]_contractVars

-----------------------------------------------------------------------------

\* The options belong to the handler: those for pages to one that returns a page,
\* those for cursor pages to one that returns a cursor page, and none of them or of
\* those for models to one that returns a file or nothing.
Fitting(op) ==
  /\ op.paginatedItemType # None \/ op.paginatedResponseSchema # None => op.returns = "page"
  /\ op.cursorPaginatedItemType # None \/ op.cursorPaginatedResponseSchema # None
       => op.returns = "cursor"
  /\ op.responseType # None \/ op.responseSchema # None => op.returns \notin {"file", "nothing"}

\* The status is the choice of the program's own code: of a guard, of an *Error, or of
\* a deadline that a handler ran into in an operation without Timeout. The document
\* says nothing of these unless Response does.
OwnStatus == answer.by \in {"guard", "error"} \/ (answer.by = "deadline" /\ ~contract.timeout)

\* Whatever the options and their order, what the framework makes of a request is in
\* the document: a refusal of its own and an error whose status it chose by the status,
\* a success with a body by its status, model, envelope and headers. (A nil output and a
\* Delete answer 204 and the binding 400 and 413 whatever is documented; Response may
\* replace the documented success; a mapper of the program's own may choose otherwise.)
AnswersAsDocumented ==
  phase = "answered" /\ ~contract.hidden /\ Fitting(contract) =>
    /\ OwnStatus
       \/ answer.status \in {r.status : r \in DocumentedResponses(contract)} \cup {204, 400, 413}
    /\ answer.headers \subseteq DocumentedHeaders(contract)
    /\ answer.by = "output" /\ answer.status < 400 /\ answer.content # <<>>
         /\ (\A i \in DOMAIN contract.responses : contract.responses[i].status # contract.status)
       => [status |-> answer.status, content |-> answer.content] \in DocumentedResponses(contract)
=============================================================================
