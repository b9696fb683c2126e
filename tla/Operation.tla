------------------------------ MODULE Operation ------------------------------
(***************************************************************************)
(* One GET operation as newOperation and finalize build it: the typed      *)
(* handler, run in a transaction (orm.WithTransaction) if the operation    *)
(* asks for one, under wrapTimeout, under wrapCache, under the Recovery    *)
(* middleware and gin. Several requests run at once.                       *)
(*                                                                         *)
(* With a timeout the handler runs on a goroutine of its own and goes on   *)
(* after the request was answered. So each request has two program         *)
(* counters, pc of the request goroutine and hpc of the handler; without a *)
(* timeout the former only waits for the latter. A response is abstracted  *)
(* to what wrote it, see Responses.                                        *)
(***************************************************************************)
EXTENDS Naturals, FiniteSets

CONSTANTS
  Requests,
  Configurations  \* the sets of options an operation is registered with

Options == {"timeout", "transaction", "cache"}

ASSUME OperationAssumption == Configurations \subseteq SUBSET Options

VARIABLES
  options,   \* the options of this operation, fixed at registration
  stored,    \* the response in the route's cache; expiry empties it
  pc, hpc,   \* the request goroutine, the goroutine of the handler
  ctx,       \* the request context
  tx,        \* the transaction, as the database sees it
  txKey,     \* the transaction is under txContextKey in the gin context
  original,  \* what the gin writer of the request holds
  capture,   \* what the captureResponseWriter of wrapCache holds
  recorder,  \* what the timeoutCaptureResponseWriter holds
  writer,    \* which of the first two c.Writer is
  failed     \* history: how the handler function itself ended

requestVars == <<pc, ctx, original, capture, writer>>
handlerVars == <<hpc, tx, txKey, recorder, failed>>
vars == <<options, stored, requestVars, handlerVars>>

\* "none" is a writer nobody wrote to, which goes out as a 200 without a body.
\* "ok" is the 2xx response of the handler, "large" one beyond maxBodyBytes of
\* the cache, "huge" one beyond TimeoutMaxBodyBytes as well, "error" the
\* response to an error of the handler or the framework, "timeout" the 408 of
\* wrapTimeout, "internal" the 500 of Recovery, "notModified" a 304.
Successes == {"ok", "large", "huge"}
Responses ==
  Successes \cup {"notModified", "none", "error", "timeout", "internal"}

\* A response with an ETag, that is one with a body and status 2xx or 3xx, may
\* match the If-None-Match of the request.
Conditional(response) ==
  IF response = "ok" THEN {response, "notModified"} ELSE {response}

TypeOK ==
  /\ options \in Configurations
  /\ stored \in Responses \cup {"empty"}
  /\ pc \in [Requests -> {"new", "wait", "unwind", "write", "store", "finish", "done"}]
  /\ hpc \in [Requests -> {"off", "begin", "body", "guard", "commit", "fail",
                           "respond", "panicked", "returned"}]
  /\ ctx \in [Requests -> {"live", "expired", "canceled", "over"}]
  /\ tx \in [Requests -> {"none", "open", "committed", "rolledback"}]
  /\ txKey \in [Requests -> BOOLEAN]
  /\ original \in [Requests -> Responses]
  /\ capture \in [Requests -> Responses \cup {"passthrough"}]
  /\ recorder \in [Requests -> Responses]
  /\ writer \in [Requests -> {"original", "capture"}]
  /\ failed \in [Requests -> {"no", "error", "panic"}]
  \* wrapCache stores what it captured, after it has put the writer back.
  /\ \A r \in Requests :
       pc[r] = "store" => writer[r] = "original" /\ capture[r] # "passthrough"

Init ==
  /\ options \in Configurations
  /\ stored = "empty"
  /\ pc = [r \in Requests |-> "new"] /\ hpc = [r \in Requests |-> "off"]
  /\ ctx = [r \in Requests |-> "live"]
  /\ tx = [r \in Requests |-> "none"] /\ txKey = [r \in Requests |-> FALSE]
  /\ original = [r \in Requests |-> "none"]
  /\ capture = [r \in Requests |-> "none"]
  /\ recorder = [r \in Requests |-> "none"]
  /\ writer = [r \in Requests |-> "original"]
  /\ failed = [r \in Requests |-> "no"]

Set(f, r, x) == f' = [f EXCEPT ![r] = x]

\* Writing to c.Writer. The capture of wrapCache keeps what fits and otherwise
\* switches to passing everything through to the writer under it.
WriteResponse(r, response) ==
  IF writer[r] = "original"
  THEN Set(original, r, response) /\ UNCHANGED capture
  ELSE IF response \in {"large", "huge"}
       THEN Set(original, r, response) /\ Set(capture, r, "passthrough")
       ELSE Set(capture, r, response) /\ UNCHANGED original

-----------------------------------------------------------------------------
(* wrapCache, before the handler.                                          *)

\* The lookup hits: the stored response is written and nothing else runs.
ServeFromCache(r) ==
  /\ pc[r] = "new" /\ "cache" \in options
  /\ stored # "empty"
  /\ \E response \in Conditional(stored) : Set(original, r, response)
  /\ Set(pc, r, "finish")
  /\ UNCHANGED <<options, stored, ctx, capture, writer, handlerVars>>

CallHandler(r) ==
  /\ pc[r] = "new"
  /\ "cache" \in options => stored = "empty"
  /\ Set(writer, r, IF "cache" \in options THEN "capture" ELSE "original")
  /\ Set(pc, r, "wait")
  /\ Set(hpc, r, "begin")
  /\ UNCHANGED <<options, stored, ctx, original, capture, tx, txKey, recorder, failed>>

-----------------------------------------------------------------------------
(* The context of the request.                                             *)

\* The deadline of context.WithTimeout; only an operation with a timeout has it.
Deadline(r) ==
  /\ "timeout" \in options
  /\ pc[r] = "wait" /\ ctx[r] = "live"
  /\ Set(ctx, r, "expired")
  /\ UNCHANGED <<options, stored, pc, original, capture, writer, handlerVars>>

\* The client goes away: net/http cancels the context of the request.
Disconnect(r) ==
  /\ pc[r] = "wait" /\ ctx[r] = "live"
  /\ Set(ctx, r, "canceled")
  /\ UNCHANGED <<options, stored, pc, original, capture, writer, handlerVars>>

\* database/sql rolls a transaction back by itself when its context ends.
SqlRollsBack(r) ==
  /\ tx[r] = "open" /\ ctx[r] # "live"
  /\ Set(tx, r, "rolledback")
  /\ UNCHANGED <<options, stored, requestVars, hpc, txKey, recorder, failed>>

-----------------------------------------------------------------------------
(* The handler: newOperation's ginHandler with orm.WithTransaction.        *)

HandlerGoes(r, location) == Set(hpc, r, location)

\* A plausible bug: the copy keeps the writer of the original.
HandlerWritesThrough(r, response) ==
  WriteResponse(r, response) /\ UNCHANGED recorder

\* With a timeout the gin context is a copy whose writer is the recorder.
HandlerWrites(r, response) ==
  IF "timeout" \in options
  THEN Set(recorder, r, response) /\ UNCHANGED <<original, capture>>
  ELSE WriteResponse(r, response) /\ UNCHANGED recorder

BeginTx(r) ==
  /\ hpc[r] = "begin"
  /\ IF "transaction" \notin options
     THEN HandlerGoes(r, "body") /\ UNCHANGED <<tx, txKey>>
     ELSE \/ /\ ctx[r] = "live"
             /\ Set(tx, r, "open") /\ Set(txKey, r, TRUE)
             /\ HandlerGoes(r, "body")
          \/ HandlerGoes(r, "fail") /\ UNCHANGED <<tx, txKey>>  \* Begin fails
  /\ UNCHANGED <<options, stored, requestVars, recorder, failed>>

\* Rollback is a no-op without the key; with it the database may have been faster.
RollbackTx(r) ==
  /\ Set(tx, r, IF txKey[r] /\ tx[r] = "open" THEN "rolledback" ELSE tx[r])
  /\ Set(txKey, r, FALSE)

\* The handler returns an output and no error, or binding and handler did.
HandlerReturns(r) ==
  /\ hpc[r] = "body"
  /\ HandlerGoes(r, IF "transaction" \in options THEN "guard" ELSE "respond")
  /\ UNCHANGED <<options, stored, requestVars, tx, txKey, recorder, failed>>

\* A plausible bug: what fn returned is forgotten and the defer commits.
HandlerFailsIntoCommit(r) ==
  /\ hpc[r] = "body"
  /\ HandlerGoes(r, IF "transaction" \in options THEN "commit" ELSE "fail")
  /\ Set(failed, r, "error")
  /\ UNCHANGED <<options, stored, requestVars, tx, txKey, recorder>>

HandlerFails(r) ==
  /\ hpc[r] = "body"
  /\ RollbackTx(r)
  /\ HandlerGoes(r, "fail")
  /\ Set(failed, r, "error")
  /\ UNCHANGED <<options, stored, requestVars, recorder>>

\* The deferred recover of WithTransaction rolls back and panics again.
HandlerPanics(r) ==
  /\ hpc[r] = "body"
  /\ RollbackTx(r)
  /\ HandlerGoes(r, "panicked")
  /\ Set(failed, r, "panic")
  /\ UNCHANGED <<options, stored, requestVars, recorder>>

\* invokeWithContextGuard and the second look at the context in WithTransaction.
GuardContext(r) ==
  /\ hpc[r] = "guard"
  /\ IF ctx[r] = "live"
     THEN HandlerGoes(r, "commit") /\ UNCHANGED <<tx, txKey>>
     ELSE RollbackTx(r) /\ HandlerGoes(r, "fail")
  /\ UNCHANGED <<options, stored, requestVars, recorder, failed>>

\* The key is cleared first. database/sql refuses a commit whose context ended,
\* and the commit itself can fail.
CommitTx(r) ==
  /\ hpc[r] = "commit"
  /\ Set(txKey, r, FALSE)
  /\ \/ /\ ctx[r] = "live" /\ tx[r] = "open"
        /\ Set(tx, r, "committed") /\ HandlerGoes(r, "respond")
     \/ /\ Set(tx, r, IF ctx[r] = "live" THEN "rolledback" ELSE tx[r])
        /\ HandlerGoes(r, "fail")
  /\ UNCHANGED <<options, stored, requestVars, recorder, failed>>

\* writeSuccessResponse; serializing the output may still fail.
Respond(r) ==
  /\ hpc[r] = "respond"
  /\ \E response \in Successes \cup {"error"} : HandlerWrites(r, response)
  /\ HandlerGoes(r, "returned")
  /\ UNCHANGED <<options, stored, pc, ctx, writer, tx, txKey, failed>>

\* WriteError of binding, handler, transaction or context error.
RespondError(r) ==
  /\ hpc[r] = "fail"
  /\ HandlerWrites(r, "error")
  /\ HandlerGoes(r, "returned")
  /\ UNCHANGED <<options, stored, pc, ctx, writer, tx, txKey, failed>>

-----------------------------------------------------------------------------
(* wrapTimeout, and the return through wrapCache, Recovery and gin.        *)

AfterHandler(r) == IF writer[r] = "capture" THEN "write" ELSE "finish"

\* The deferred cancel of wrapTimeout ends the context it gave the handler.
Cancel(r) ==
  Set(ctx, r, IF "timeout" \in options /\ ctx[r] = "live" THEN "over" ELSE ctx[r])

\* The handler is back, and with a timeout the select takes its result: what it
\* recorded is copied, a response that did not fit the recorder is an error.
TakeResult(r) ==
  /\ pc[r] = "wait" /\ hpc[r] = "returned"
  /\ IF "timeout" \in options
     THEN WriteResponse(r, IF recorder[r] = "huge" THEN "error" ELSE recorder[r])
     ELSE UNCHANGED <<original, capture>>
  /\ Set(pc, r, AfterHandler(r))
  /\ Cancel(r)
  /\ UNCHANGED <<options, stored, writer, handlerVars>>

\* The panic unwinds this goroutine, through wrapTimeout's select or directly.
TakePanic(r) ==
  /\ pc[r] = "wait" /\ hpc[r] = "panicked"
  /\ Set(pc, r, "unwind")
  /\ Cancel(r)
  /\ UNCHANGED <<options, stored, original, capture, writer, handlerVars>>

\* A plausible bug: only the context is cancelled and nothing is written.
TimeOutSilently(r) ==
  /\ pc[r] = "wait" /\ "timeout" \in options /\ ctx[r] # "live"
  /\ Set(pc, r, AfterHandler(r))
  /\ UNCHANGED <<options, stored, ctx, original, capture, writer, handlerVars>>

\* The select takes the context: 408 for a deadline, nothing for a client that
\* is gone. The handler goes on by itself.
TimeOut(r) ==
  /\ pc[r] = "wait" /\ "timeout" \in options /\ ctx[r] # "live"
  /\ IF ctx[r] = "expired" THEN WriteResponse(r, "timeout")
                           ELSE UNCHANGED <<original, capture>>
  /\ Set(pc, r, AfterHandler(r))
  /\ UNCHANGED <<options, stored, ctx, writer, handlerVars>>

\* A plausible bug: passedThrough is not looked at before the response is stored.
WriteCapturedStoresAll(r) ==
  /\ pc[r] = "write"
  /\ Set(writer, r, "original")
  /\ \/ capture[r] = "passthrough" /\ Set(pc, r, "store") /\ UNCHANGED original
     \/ \E response \in Conditional(capture[r]) \ {"passthrough"} :
          /\ Set(original, r, response)
          /\ Set(pc, r, IF response = "notModified" THEN "finish" ELSE "store")
  /\ UNCHANGED <<options, stored, ctx, capture, handlerVars>>

\* wrapCache restores c.Writer and writes what was captured, a status of 0 as
\* 200, or 304 in its place. What was passed through is out already. Neither
\* that nor a response that was answered with 304 is cached.
WriteCaptured(r) ==
  /\ pc[r] = "write"
  /\ Set(writer, r, "original")
  /\ \/ capture[r] = "passthrough" /\ Set(pc, r, "finish") /\ UNCHANGED original
     \/ \E response \in Conditional(capture[r]) \ {"passthrough"} :
          /\ Set(original, r, response)
          /\ Set(pc, r, IF response = "notModified" THEN "finish" ELSE "store")
  /\ UNCHANGED <<options, stored, ctx, capture, handlerVars>>

Storable == {"ok", "none"}  \* status 2xx: "none" has become a 200

StoreCaptured(r) ==
  /\ pc[r] = "store"
  /\ stored' = IF capture[r] \in Storable THEN capture[r] ELSE stored
  /\ Set(pc, r, "finish")
  /\ UNCHANGED <<options, ctx, original, capture, writer, handlerVars>>

\* The entry expires or is invalidated.
Expire ==
  /\ stored # "empty"
  /\ stored' = "empty"
  /\ UNCHANGED <<options, requestVars, handlerVars>>

\* Recovery, outside of all wrappers, writes its 500 to c.Writer as it finds it:
\* wrapCache has no defer that puts the original back.
Recover(r) ==
  /\ pc[r] = "unwind"
  /\ WriteResponse(r, "internal")
  /\ Set(pc, r, "finish")
  /\ UNCHANGED <<options, stored, ctx, writer, handlerVars>>

\* gin ends the request: what the original writer holds goes out.
Finish(r) ==
  /\ pc[r] = "finish"
  /\ Set(pc, r, "done")
  /\ UNCHANGED <<options, stored, ctx, original, capture, writer, handlerVars>>

-----------------------------------------------------------------------------

HandlerStep(r) ==
  BeginTx(r) \/ HandlerReturns(r) \/ HandlerFails(r) \/ HandlerPanics(r)
    \/ GuardContext(r) \/ CommitTx(r) \/ Respond(r) \/ RespondError(r)

RequestStep(r) ==
  ServeFromCache(r) \/ CallHandler(r) \/ TakeResult(r) \/ TakePanic(r) \/ TimeOut(r)
    \/ WriteCaptured(r) \/ StoreCaptured(r) \/ Recover(r) \/ Finish(r)

Environment(r) == Deadline(r) \/ Disconnect(r) \/ SqlRollsBack(r)

Next == Expire \/ \E r \in Requests : HandlerStep(r) \/ RequestStep(r) \/ Environment(r)

\* The request goroutine runs, deadlines come, the database notices an ended
\* context. The handler is user code and promises nothing.
Fairness ==
  \A r \in Requests :
    WF_vars(RequestStep(r)) /\ WF_vars(Deadline(r)) /\ WF_vars(SqlRollsBack(r))

Spec == Init /\ [][Next]_vars /\ Fairness

-----------------------------------------------------------------------------
(* Safety.                                                                 *)

FromHandler(r) == hpc[r] # "off"

\* A client that is told of success has a committed transaction behind it, and
\* a handler that failed or panicked has committed nothing.
CommittedIffSuccess ==
  "transaction" \in options =>
    \A r \in Requests :
      /\ FromHandler(r) /\ original[r] \in Successes \cup {"notModified"}
           => tx[r] = "committed"
      /\ failed[r] # "no" => tx[r] # "committed"

\* A handler that is over leaves no transaction open, on any path: not in the
\* database, unless its context has ended and the database is about to close it,
\* and not under the key either, where a later call would join it.
NoTransactionLeaks ==
  \A r \in Requests : hpc[r] \in {"fail", "respond", "panicked", "returned"} =>
    ~txKey[r] /\ (tx[r] = "open" => ctx[r] # "live")

\* What was sent is sent: a handler that goes on after its timeout changes
\* neither the response of its request nor, through it, the cache.
LateHandlerIsSilent ==
  [][ \A r \in Requests : pc[r] \in {"finish", "done"} => original'[r] = original[r] ]_vars

\* Failures are not cached, nor are 408s, nor responses beyond maxBodyBytes.
OnlySuccessIsCached == stored \in {"empty", "none", "ok"}

\* A client that is still there gets a response that somebody wrote: the
\* handler's, an error, a 408. Left out are the panics under wrapCache (see
\* PanicIsInternalError) and what others get from the cache (see
\* CacheHoldsResponses).
NobodyGetsNothing ==
  \A r \in Requests :
    pc[r] = "done" /\ original[r] = "none" =>
      \/ ctx[r] = "canceled"
      \/ hpc[r] = "panicked" /\ "cache" \in options
      \/ ~FromHandler(r)

\* A panic of the handler that the request still waits for is a 500, if nothing
\* but Recovery is around the handler and its timeout.
PanicIsInternalErrorUncached ==
  "cache" \notin options =>
    \A r \in Requests : pc[r] = "done" /\ failed[r] = "panic" =>
      original[r] \in {"internal", "timeout"} \/ ctx[r] = "canceled"

\* A handler's outcome, its transaction and what the client is told agree.
TransactionsMatchAnswers == CommittedIffSuccess /\ NoTransactionLeaks

\* Every answer is somebody's, a panic's is Recovery's, and only good ones are kept.
AnswersAreWritten == NobodyGetsNothing /\ PanicIsInternalErrorUncached /\ OnlySuccessIsCached

\* The documentation of the route cache: what it stores are the successful
\* responses of the operation. A request whose client goes away while
\* wrapTimeout waits for the handler leaves an empty capture behind, which
\* wrapCache takes for a 200 and serves to everybody until it expires.
CacheHoldsResponses == stored # "none"

\* Recovery answers a panic with 500, as its test expects. Under wrapCache it
\* writes into the capture that was left in c.Writer, and the client gets the
\* untouched original: 200 with no body.
PanicIsInternalError ==
  \A r \in Requests :
    pc[r] = "done" /\ failed[r] = "panic" /\ ctx[r] = "live" => original[r] = "internal"

-----------------------------------------------------------------------------
(* Liveness.                                                               *)

\* A timeout bounds the request whatever the handler does, even if it never
\* returns.
TimeoutAnswers ==
  \A r \in Requests : "timeout" \in options /\ pc[r] = "wait" ~> pc[r] = "done"

\* A transaction ends even if the handler that the timeout left behind never does.
TransactionEnds ==
  \A r \in Requests : "timeout" \in options /\ tx[r] = "open" ~> tx[r] # "open"

\* With a timeout, request and transaction end, and nothing comes after the end.
TimeoutIsTheEnd == TimeoutAnswers /\ TransactionEnds /\ LateHandlerIsSilent
=============================================================================
