--------------------------- MODULE OperationProofs ---------------------------
(***************************************************************************)
(* TransactionsMatchAnswers for any number of concurrent requests and any  *)
(* of the options: where the handler is says what has become of its        *)
(* transaction, and while that is not committed no writer of the request   *)
(* holds a success. And AnswersAsDocumented for any options in any order:  *)
(* what an operation answers is in its document.                           *)
(***************************************************************************)
EXTENDS Operation, OperationContract, LeastElements

InTransaction == "transaction" \in options

\* What tells a client of success.
Told == Successes \cup {"notModified"}

\* The transaction of a handler that has not begun, is running, or has ended.
HandlerTx(r) ==
  /\ hpc[r] \in {"off", "begin"} => tx[r] = "none" /\ ~txKey[r] /\ failed[r] = "no"
  /\ hpc[r] \in {"body", "guard", "commit"} =>
       /\ failed[r] = "no" /\ tx[r] # "committed"
       /\ txKey[r] <=> InTransaction
       /\ tx[r] = "open" => InTransaction
  /\ hpc[r] \in {"guard", "commit"} => InTransaction
  /\ hpc[r] = "respond" =>
       /\ failed[r] = "no" /\ ~txKey[r] /\ tx[r] # "open"
       /\ InTransaction => tx[r] = "committed"
  /\ hpc[r] \in {"fail", "panicked", "returned"} => ~txKey[r] /\ (tx[r] = "open" => ctx[r] # "live")
  /\ hpc[r] \in {"fail", "panicked"} => tx[r] # "committed"
  /\ failed[r] # "no" => tx[r] # "committed"

\* A request that has not begun has written nothing.
Untouched(r) == pc[r] = "new" => hpc[r] = "off" /\ original[r] = "none"

\* No writer holds a success of a transaction that is not committed.
NoFalseSuccess(r) ==
  InTransaction /\ tx[r] # "committed" =>
    /\ recorder[r] \notin Told /\ capture[r] \notin Told
    /\ hpc[r] # "off" => original[r] \notin Told

OperationInv == TypeOK /\ \A r \in Requests : HandlerTx(r) /\ Untouched(r) /\ NoFalseSuccess(r)

-----------------------------------------------------------------------------
(* Steps by what they change.                                              *)

\* One request at a time.
OneRequest(r) ==
  \A q \in Requests \ {r} :
    /\ pc'[q] = pc[q] /\ hpc'[q] = hpc[q] /\ ctx'[q] = ctx[q] /\ tx'[q] = tx[q]
    /\ txKey'[q] = txKey[q] /\ original'[q] = original[q] /\ capture'[q] = capture[q]
    /\ recorder'[q] = recorder[q] /\ failed'[q] = failed[q]

\* What the others have to do with it is nothing.
LEMMA OthersKeep ==
  ASSUME OperationInv, NEW r \in Requests, OneRequest(r), UNCHANGED options,
         TypeOK', HandlerTx(r)', Untouched(r)', NoFalseSuccess(r)'
  PROVE  OperationInv'
<1>. SUFFICES ASSUME NEW q \in Requests \ {r}
              PROVE  HandlerTx(q)' /\ Untouched(q)' /\ NoFalseSuccess(q)'
  BY DEF OperationInv
<1>1. HandlerTx(q) /\ Untouched(q) /\ NoFalseSuccess(q)
  BY DEF OperationInv
<1>2. HandlerTx(q)'
  BY <1>1 DEF OneRequest, HandlerTx, InTransaction
<1>3. Untouched(q)' /\ NoFalseSuccess(q)'
  BY <1>1 DEF OneRequest, Untouched, NoFalseSuccess, InTransaction
<1>. QED
  BY <1>2, <1>3

\* A response goes to one of the two writers, or through the one to the other.
LEMMA WritesOne ==
  ASSUME TypeOK, NEW r \in Requests, NEW response \in Responses, WriteResponse(r, response)
  PROVE  /\ original' \in [Requests -> Responses]
         /\ capture' \in [Requests -> Responses \cup {"passthrough"}]
         /\ original'[r] \in {original[r], response}
         /\ capture'[r] \in {capture[r], response, "passthrough"}
         /\ writer[r] = "original" => capture'[r] = capture[r]
         /\ \A q \in Requests \ {r} : original'[q] = original[q] /\ capture'[q] = capture[q]
  BY DEF TypeOK, WriteResponse, Set, Responses, Successes

\* The handler writes to them, or to the recorder.
LEMMA HandlerWritesOne ==
  ASSUME TypeOK, NEW r \in Requests, NEW response \in Responses, HandlerWrites(r, response)
  PROVE  /\ original' \in [Requests -> Responses]
         /\ capture' \in [Requests -> Responses \cup {"passthrough"}]
         /\ recorder' \in [Requests -> Responses]
         /\ original'[r] \in {original[r], response}
         /\ capture'[r] \in {capture[r], response, "passthrough"}
         /\ recorder'[r] \in {recorder[r], response}
         /\ writer[r] = "original" => capture'[r] = capture[r]
         /\ \A q \in Requests \ {r} :
              original'[q] = original[q] /\ capture'[q] = capture[q] /\ recorder'[q] = recorder[q]
  BY WritesOne DEF TypeOK, HandlerWrites, Set, Responses, Successes

\* A rollback leaves no transaction that is open under the key.
LEMMA RollbackEnds ==
  ASSUME TypeOK, NEW r \in Requests, RollbackTx(r)
  PROVE  /\ tx' \in [Requests -> {"none", "open", "committed", "rolledback"}]
         /\ txKey' \in [Requests -> BOOLEAN]
         /\ ~txKey'[r]
         /\ tx'[r] = IF txKey[r] /\ tx[r] = "open" THEN "rolledback" ELSE tx[r]
         /\ \A q \in Requests \ {r} : tx'[q] = tx[q] /\ txKey'[q] = txKey[q]
  BY DEF TypeOK, RollbackTx, Set

-----------------------------------------------------------------------------

\* Nothing has begun.
LEMMA OperationStarts == Init => OperationInv
  BY OperationAssumption
  DEF Init, OperationInv, TypeOK, HandlerTx, Untouched, NoFalseSuccess, InTransaction, Told,
      Successes, Responses

-----------------------------------------------------------------------------
(* The handler.                                                            *)

\* A transaction begins, or does not and its error is on the way.
LEMMA BeginKeeps ==
  ASSUME OperationInv, NEW r \in Requests, BeginTx(r)
  PROVE  OperationInv'
<1>1. CASE InTransaction /\ ctx[r] = "live" /\ Set(tx, r, "open") /\ Set(txKey, r, TRUE)
            /\ HandlerGoes(r, "body")
  <2>1. TypeOK' /\ OneRequest(r) /\ UNCHANGED options
    BY <1>1 DEF OperationInv, TypeOK, BeginTx, HandlerGoes, Set, requestVars, OneRequest
  <2>2. HandlerTx(r)'
    BY <1>1 DEF OperationInv, TypeOK, BeginTx, HandlerGoes, Set, requestVars, HandlerTx,
         InTransaction
  <2>3. Untouched(r)' /\ NoFalseSuccess(r)'
    BY <1>1 DEF OperationInv, TypeOK, BeginTx, HandlerGoes, Set, requestVars, HandlerTx, Untouched,
         NoFalseSuccess, InTransaction
  <2>. QED
    BY <2>1, <2>2, <2>3, OthersKeep
<1>2. CASE UNCHANGED <<tx, txKey>> /\ (InTransaction => HandlerGoes(r, "fail"))
            /\ (~InTransaction => HandlerGoes(r, "body"))
  <2>1. TypeOK' /\ OneRequest(r) /\ UNCHANGED options
    BY <1>2 DEF OperationInv, TypeOK, BeginTx, HandlerGoes, Set, requestVars, OneRequest
  <2>2. HandlerTx(r)'
    BY <1>2 DEF OperationInv, TypeOK, BeginTx, HandlerGoes, Set, requestVars, HandlerTx,
         InTransaction
  <2>3. Untouched(r)' /\ NoFalseSuccess(r)'
    BY <1>2 DEF OperationInv, TypeOK, BeginTx, HandlerGoes, Set, requestVars, HandlerTx, Untouched,
         NoFalseSuccess, InTransaction
  <2>. QED
    BY <2>1, <2>2, <2>3, OthersKeep
<1>. QED
  BY <1>1, <1>2 DEF BeginTx, InTransaction

\* The handler function ends well.
LEMMA ReturnKeeps ==
  ASSUME OperationInv, NEW r \in Requests, HandlerReturns(r)
  PROVE  OperationInv'
<1>1. TypeOK'
  BY DEF OperationInv, TypeOK, HandlerReturns, HandlerGoes, Set, requestVars
<1>2. OneRequest(r) /\ UNCHANGED options
  BY DEF OperationInv, TypeOK, HandlerReturns, HandlerGoes, Set, requestVars, OneRequest
<1>3. HandlerTx(r)'
  BY DEF OperationInv, TypeOK, HandlerReturns, HandlerGoes, Set, requestVars, HandlerTx,
         InTransaction
<1>4. Untouched(r)' /\ NoFalseSuccess(r)'
  BY DEF OperationInv, TypeOK, HandlerReturns, HandlerGoes, Set, requestVars, HandlerTx, Untouched,
         NoFalseSuccess, InTransaction
<1>. QED
  BY <1>1, <1>2, <1>3, <1>4, OthersKeep

\* Or it does not, and its transaction is rolled back.
LEMMA FailKeeps ==
  ASSUME OperationInv, NEW r \in Requests, HandlerFails(r) \/ HandlerPanics(r)
  PROVE  OperationInv'
<1>1. RollbackTx(r)
  BY DEF HandlerFails, HandlerPanics
<1>2. TypeOK'
  BY <1>1, RollbackEnds
  DEF OperationInv, TypeOK, HandlerFails, HandlerPanics, HandlerGoes, Set, requestVars
<1>3. OneRequest(r) /\ UNCHANGED options
  BY <1>1, RollbackEnds
  DEF OperationInv, TypeOK, HandlerFails, HandlerPanics, HandlerGoes, Set, requestVars, OneRequest
<1>4. tx'[r] \in {"none", "rolledback"} /\ ~txKey'[r] /\ tx[r] # "committed"
  BY <1>1, RollbackEnds
  DEF OperationInv, HandlerFails, HandlerPanics, HandlerTx, InTransaction
<1>5. HandlerTx(r)'
  BY <1>4
  DEF OperationInv, TypeOK, HandlerFails, HandlerPanics, HandlerGoes, Set, HandlerTx
<1>6. Untouched(r)' /\ NoFalseSuccess(r)'
  BY <1>4
  DEF OperationInv, TypeOK, HandlerFails, HandlerPanics, HandlerGoes, Set, requestVars, Untouched,
      NoFalseSuccess, InTransaction
<1>. QED
  BY <1>2, <1>3, <1>5, <1>6, OthersKeep

\* The context is looked at once more.
LEMMA GuardKeeps ==
  ASSUME OperationInv, NEW r \in Requests, GuardContext(r)
  PROVE  OperationInv'
<1>1. CASE ctx[r] = "live"
  <2>1. TypeOK' /\ OneRequest(r) /\ UNCHANGED options
    BY <1>1
    DEF OperationInv, TypeOK, GuardContext, HandlerGoes, Set, requestVars, OneRequest
  <2>2. HandlerTx(r)'
    BY <1>1
    DEF OperationInv, TypeOK, GuardContext, HandlerGoes, Set, requestVars, HandlerTx,
         InTransaction
  <2>3. Untouched(r)' /\ NoFalseSuccess(r)'
    BY <1>1
    DEF OperationInv, TypeOK, GuardContext, HandlerGoes, Set, requestVars, Untouched,
        NoFalseSuccess, InTransaction
  <2>. QED
    BY <2>1, <2>2, <2>3, OthersKeep
<1>2. CASE ctx[r] # "live"
  <2>1. RollbackTx(r)
    BY <1>2 DEF GuardContext
  <2>2. TypeOK' /\ OneRequest(r) /\ UNCHANGED options
    BY <1>2, <2>1, RollbackEnds
    DEF OperationInv, TypeOK, GuardContext, HandlerGoes, Set, requestVars, OneRequest
  <2>3. tx'[r] \in {"none", "rolledback"} /\ ~txKey'[r] /\ tx[r] # "committed"
    BY <2>1, RollbackEnds DEF OperationInv, GuardContext, HandlerTx, InTransaction
  <2>4. HandlerTx(r)'
    BY <1>2, <2>3
    DEF OperationInv, TypeOK, GuardContext, HandlerGoes, Set, HandlerTx
  <2>5. Untouched(r)' /\ NoFalseSuccess(r)'
    BY <1>2, <2>3
    DEF OperationInv, TypeOK, GuardContext, HandlerGoes, Set, requestVars, Untouched,
        NoFalseSuccess, InTransaction
  <2>. QED
    BY <2>2, <2>4, <2>5, OthersKeep
<1>. QED
  BY <1>1, <1>2

\* It commits, or an error is on the way.
LEMMA CommitKeeps ==
  ASSUME OperationInv, NEW r \in Requests, CommitTx(r)
  PROVE  OperationInv'
<1>1. TypeOK'
  BY DEF OperationInv, TypeOK, CommitTx, HandlerGoes, Set, requestVars
<1>2. OneRequest(r) /\ UNCHANGED options
  BY DEF OperationInv, TypeOK, CommitTx, HandlerGoes, Set, requestVars, OneRequest
<1>3. HandlerTx(r)'
  BY DEF OperationInv, TypeOK, CommitTx, HandlerGoes, Set, requestVars, HandlerTx,
         InTransaction
<1>4. Untouched(r)' /\ NoFalseSuccess(r)'
  BY DEF OperationInv, TypeOK, CommitTx, HandlerGoes, Set, requestVars, HandlerTx, Untouched,
         NoFalseSuccess, InTransaction
<1>. QED
  BY <1>1, <1>2, <1>3, <1>4, OthersKeep

\* The handler answers: with success only once there is nothing left to commit.
LEMMA RespondKeeps ==
  ASSUME OperationInv, NEW r \in Requests, Respond(r) \/ RespondError(r)
  PROVE  OperationInv'
<1>1. PICK response \in Responses :
        /\ HandlerWrites(r, response)
        /\ hpc[r] = "respond" \/ response \notin Told
  BY DEF Respond, RespondError, Responses, Successes, Told
<1>2. TypeOK'
  BY <1>1, HandlerWritesOne
  DEF OperationInv, TypeOK, Respond, RespondError, HandlerGoes, Set
<1>3. OneRequest(r) /\ UNCHANGED options
  BY <1>1, HandlerWritesOne
  DEF OperationInv, TypeOK, Respond, RespondError, HandlerGoes, Set, OneRequest
<1>4. HandlerTx(r)'
  BY DEF OperationInv, TypeOK, Respond, RespondError, HandlerGoes, Set, HandlerTx, InTransaction
<1>5. Untouched(r)'
  BY DEF OperationInv, TypeOK, Respond, RespondError, Untouched
<1>6. NoFalseSuccess(r)'
  BY <1>1, HandlerWritesOne
  DEF OperationInv, TypeOK, Respond, RespondError, HandlerTx, NoFalseSuccess, InTransaction, Told,
      Successes
<1>. QED
  BY <1>2, <1>3, <1>4, <1>5, <1>6, OthersKeep

-----------------------------------------------------------------------------
(* The request.                                                            *)

\* A step of the request goroutine leaves the handler alone: it writes nothing that
\* is a success unless a writer held one.
LEMMA RequestKeeps ==
  ASSUME OperationInv, NEW r \in Requests, TypeOK', OneRequest(r),
         UNCHANGED <<options, tx, txKey, hpc, recorder, failed>>,
         pc'[r] # "new",
         ctx[r] # "live" => ctx'[r] # "live",
         capture'[r] \in Told => {capture[r], recorder[r]} \cap Told # {},
         original'[r] \in Told => {original[r], capture[r], recorder[r]} \cap Told # {}
  PROVE  OperationInv'
<1>1. HandlerTx(r)'
  BY DEF OperationInv, HandlerTx, InTransaction
<1>2. Untouched(r)'
  BY DEF Untouched
<1>3. NoFalseSuccess(r)'
  BY DEF OperationInv, NoFalseSuccess, InTransaction
<1>. QED
  BY <1>1, <1>2, <1>3, OthersKeep

\* An answer from the cache involves no handler.
LEMMA ServeKeeps ==
  ASSUME OperationInv, NEW r \in Requests, ServeFromCache(r)
  PROVE  OperationInv'
<1>1. TypeOK'
  BY DEF OperationInv, TypeOK, ServeFromCache, Set, handlerVars, Conditional, Responses, Successes
<1>2. OneRequest(r) /\ UNCHANGED options
  BY DEF OperationInv, TypeOK, ServeFromCache, Set, handlerVars, OneRequest
<1>3. HandlerTx(r)' /\ Untouched(r)' /\ NoFalseSuccess(r)'
  BY DEF OperationInv, TypeOK, ServeFromCache, Set, handlerVars, HandlerTx, Untouched,
         NoFalseSuccess, InTransaction
<1>. QED
  BY <1>1, <1>2, <1>3, OthersKeep

\* The handler is called, with writers nobody has written to.
LEMMA CallKeeps ==
  ASSUME OperationInv, NEW r \in Requests, CallHandler(r)
  PROVE  OperationInv'
<1>1. TypeOK'
  BY DEF OperationInv, TypeOK, CallHandler, Set
<1>2. OneRequest(r) /\ UNCHANGED options
  BY DEF OperationInv, TypeOK, CallHandler, Set, OneRequest
<1>3. hpc[r] = "off" /\ original[r] = "none" /\ pc'[r] = "wait" /\ hpc'[r] = "begin"
  BY DEF OperationInv, TypeOK, CallHandler, Set, Untouched
<1>4. HandlerTx(r)' /\ Untouched(r)'
  BY <1>3 DEF OperationInv, CallHandler, HandlerTx, Untouched, InTransaction
<1>5. NoFalseSuccess(r)'
  BY <1>3 DEF OperationInv, CallHandler, NoFalseSuccess, InTransaction, Told, Successes
<1>. QED
  BY <1>1, <1>2, <1>4, <1>5, OthersKeep

\* The deferred cancel ends contexts, and revives none.
LEMMA CancelEnds ==
  ASSUME TypeOK, NEW r \in Requests, Cancel(r)
  PROVE  /\ ctx' \in [Requests -> {"live", "expired", "canceled", "over"}]
         /\ ctx[r] # "live" => ctx'[r] # "live"
         /\ \A q \in Requests \ {r} : ctx'[q] = ctx[q]
<1>. DEFINE x == IF "timeout" \in options /\ ctx[r] = "live" THEN "over" ELSE ctx[r]
<1>1. x \in {"live", "expired", "canceled", "over"} /\ (ctx[r] # "live" => x # "live")
  BY DEF TypeOK
<1>2. ctx' = [ctx EXCEPT ![r] = x]
  BY DEF Cancel, Set
<1>. HIDE DEF x
<1>. QED
  BY <1>1, <1>2 DEF TypeOK

\* The writers of one request may have changed, but hold no success nobody held before.
WrittenOrBlank(r) ==
  /\ original' \in [Requests -> Responses]
  /\ capture' \in [Requests -> Responses \cup {"passthrough"}]
  /\ capture'[r] \in Told => {capture[r], recorder[r]} \cap Told # {}
  /\ original'[r] \in Told => {original[r], capture[r], recorder[r]} \cap Told # {}
  /\ \A q \in Requests \ {r} : original'[q] = original[q] /\ capture'[q] = capture[q]

\* Which is so if what is written is no success that was not recorded.
LEMMA AnswerOnlyTells ==
  ASSUME OperationInv, NEW r \in Requests, NEW response \in Responses,
         response \in Told => recorder[r] \in Told, WriteResponse(r, response)
  PROVE  WrittenOrBlank(r)
<1>1. "passthrough" \notin Told
  BY DEF Told, Successes
<1>. QED
  BY <1>1, WritesOne DEF OperationInv, WrittenOrBlank

\* The request takes the result of its handler, its panic, or the end of its context.
LEMMA TakeKeeps ==
  ASSUME OperationInv, NEW r \in Requests, TakeResult(r) \/ TakePanic(r) \/ TimeOut(r)
  PROVE  OperationInv'
<1>. DEFINE result == IF recorder[r] = "huge" THEN "error" ELSE recorder[r]
<1>0. result \in {recorder[r], "error"}
  OBVIOUS
<1>1. \/ UNCHANGED <<original, capture>>
      \/ WriteResponse(r, result) \/ WriteResponse(r, "timeout")
  BY DEF TakeResult, TakePanic, TimeOut
<1>. HIDE DEF result
<1>2. recorder[r] \in Responses /\ {"error", "timeout"} \subseteq Responses \ Told
  BY DEF OperationInv, TypeOK, Responses, Successes, Told
<1>3. WrittenOrBlank(r)
  <2>1. CASE UNCHANGED <<original, capture>>
    BY <2>1 DEF OperationInv, TypeOK, WrittenOrBlank
  <2>2. CASE WriteResponse(r, result)
    <3>1. PICK response : response = result
      OBVIOUS
    <3>2. response \in Responses /\ (response \in Told => recorder[r] \in Told)
      BY <1>0, <1>2, <3>1
    <3>3. WriteResponse(r, response)
      BY <2>2, <3>1 DEF WriteResponse
    <3>. QED
      BY <3>2, <3>3, AnswerOnlyTells
  <2>3. CASE WriteResponse(r, "timeout")
    <3>1. "timeout" \in Responses /\ "timeout" \notin Told
      BY <1>2
    <3>. QED
      BY <2>3, <3>1, AnswerOnlyTells
  <2>. QED
    BY <1>1, <2>1, <2>2, <2>3
<1>4. PICK location \in {"unwind", "write", "finish"} : Set(pc, r, location)
  BY DEF TakeResult, TakePanic, TimeOut, AfterHandler
<1>5. /\ ctx' \in [Requests -> {"live", "expired", "canceled", "over"}]
      /\ ctx[r] # "live" => ctx'[r] # "live"
      /\ \A q \in Requests \ {r} : ctx'[q] = ctx[q]
  BY CancelEnds DEF OperationInv, TypeOK, TakeResult, TakePanic, TimeOut
<1>6. UNCHANGED <<options, stored, writer, hpc, tx, txKey, recorder, failed>>
  BY DEF TakeResult, TakePanic, TimeOut, handlerVars
<1>7. TypeOK'
  <2>1. \A q \in Requests : pc'[q] = "store" => q # r /\ pc[q] = "store"
    BY <1>4 DEF OperationInv, TypeOK, Set
  <2>2. \A q \in Requests :
          pc'[q] = "store" => writer'[q] = "original" /\ capture'[q] # "passthrough"
    BY <1>3, <1>6, <2>1 DEF OperationInv, TypeOK, WrittenOrBlank
  <2>. QED
    BY <1>3, <1>4, <1>5, <1>6, <2>2 DEF OperationInv, TypeOK, Set, WrittenOrBlank
<1>8. OneRequest(r) /\ pc'[r] # "new"
  BY <1>3, <1>4, <1>5, <1>6 DEF OperationInv, TypeOK, Set, OneRequest, WrittenOrBlank
<1>. QED
  BY <1>3, <1>5, <1>6, <1>7, <1>8, RequestKeeps DEF WrittenOrBlank

\* wrapCache puts out what it captured, keeps it, or has nothing to put out.
LEMMA WriteCapturedKeeps ==
  ASSUME OperationInv, NEW r \in Requests, WriteCaptured(r)
  PROVE  OperationInv'
<1>1. PICK location \in {"finish", "store"} :
        /\ Set(pc, r, location)
        /\ location = "store" => capture[r] # "passthrough"
  BY DEF WriteCaptured, Conditional
<1>2. PICK response \in Responses :
        /\ original' = [original EXCEPT ![r] = response]
        /\ response \in Told => {original[r], capture[r]} \cap Told # {}
  <2>1. CASE capture[r] = "passthrough" /\ UNCHANGED original
    BY <2>1 DEF OperationInv, TypeOK
  <2>2. CASE \E response \in Conditional(capture[r]) \ {"passthrough"} : Set(original, r, response)
    <3>1. PICK response \in Conditional(capture[r]) \ {"passthrough"} : Set(original, r, response)
      BY <2>2
    <3>2. response \in Responses /\ (response \in Told => capture[r] \in Told)
      BY DEF OperationInv, TypeOK, Conditional, Responses, Told, Successes
    <3>. QED
      BY <3>1, <3>2 DEF Set
  <2>. QED
    BY <2>1, <2>2 DEF WriteCaptured
<1>3. UNCHANGED <<options, stored, ctx, capture, hpc, tx, txKey, recorder, failed>>
      /\ Set(writer, r, "original")
  BY DEF WriteCaptured, handlerVars
<1>4. TypeOK'
  BY <1>1, <1>2, <1>3 DEF OperationInv, TypeOK, Set
<1>5. OneRequest(r) /\ pc'[r] # "new"
  BY <1>1, <1>2, <1>3 DEF OperationInv, TypeOK, Set, OneRequest
<1>6. original'[r] = response /\ capture'[r] = capture[r] /\ ctx'[r] = ctx[r]
  BY <1>2, <1>3 DEF OperationInv, TypeOK
<1>. QED
  BY <1>2, <1>3, <1>4, <1>5, <1>6, RequestKeeps

\* It stores, and the request ends.
LEMMA FinishKeeps ==
  ASSUME OperationInv, NEW r \in Requests, StoreCaptured(r) \/ Finish(r)
  PROVE  OperationInv'
<1>1. stored' \in Responses \cup {"empty"}
  BY DEF OperationInv, TypeOK, StoreCaptured, Finish, Storable, Responses, Successes
<1>2. PICK location \in {"finish", "done"} : Set(pc, r, location)
  BY DEF StoreCaptured, Finish
<1>3. UNCHANGED <<options, ctx, original, capture, writer, hpc, tx, txKey, recorder, failed>>
  BY DEF StoreCaptured, Finish, handlerVars
<1>4. TypeOK'
  BY <1>1, <1>2, <1>3 DEF OperationInv, TypeOK, Set
<1>5. OneRequest(r) /\ pc'[r] # "new"
  BY <1>2, <1>3 DEF OperationInv, TypeOK, Set, OneRequest
<1>. QED
  BY <1>3, <1>4, <1>5, RequestKeeps

\* Recovery answers with an error.
LEMMA RecoverKeeps ==
  ASSUME OperationInv, NEW r \in Requests, Recover(r)
  PROVE  OperationInv'
<1>1. "internal" \in Responses \ Told
  BY DEF Responses, Successes, Told
<1>2. WrittenOrBlank(r)
  BY <1>1, AnswerOnlyTells DEF Recover
<1>3. TypeOK'
  BY <1>2 DEF OperationInv, TypeOK, Recover, Set, handlerVars, WrittenOrBlank
<1>4. OneRequest(r) /\ pc'[r] # "new"
  BY <1>2 DEF OperationInv, TypeOK, Recover, Set, handlerVars, OneRequest, WrittenOrBlank
<1>. QED
  BY <1>2, <1>3, <1>4, RequestKeeps DEF Recover, handlerVars, WrittenOrBlank

-----------------------------------------------------------------------------
(* The environment.                                                        *)

\* A context ends, which no invariant minds.
LEMMA ContextEndKeeps ==
  ASSUME OperationInv, NEW r \in Requests, Deadline(r) \/ Disconnect(r)
  PROVE  OperationInv'
<1>1. PICK state \in {"expired", "canceled"} : Set(ctx, r, state)
  BY DEF Deadline, Disconnect
<1>2. /\ UNCHANGED <<options, stored, pc, original, capture, writer, hpc, tx, txKey, recorder,
                     failed>>
      /\ pc[r] = "wait"
  BY DEF Deadline, Disconnect, handlerVars
<1>3. TypeOK'
  BY <1>1, <1>2 DEF OperationInv, TypeOK, Set
<1>4. OneRequest(r) /\ pc'[r] # "new" /\ (ctx[r] # "live" => ctx'[r] # "live")
  BY <1>1, <1>2 DEF OperationInv, TypeOK, Set, OneRequest
<1>. QED
  BY <1>2, <1>3, <1>4, RequestKeeps

\* The database closes an open transaction, which nobody was told had succeeded.
LEMMA SqlRollsBackKeeps ==
  ASSUME OperationInv, NEW r \in Requests, SqlRollsBack(r)
  PROVE  OperationInv'
<1>1. TypeOK'
  BY DEF OperationInv, TypeOK, SqlRollsBack, Set, requestVars
<1>2. OneRequest(r) /\ UNCHANGED options
  BY DEF OperationInv, TypeOK, SqlRollsBack, Set, requestVars, OneRequest
<1>3. tx[r] = "open" /\ tx'[r] = "rolledback"
  BY DEF OperationInv, TypeOK, SqlRollsBack, Set
<1>4. HandlerTx(r)'
  BY <1>3 DEF OperationInv, SqlRollsBack, requestVars, HandlerTx, InTransaction
<1>5. Untouched(r)' /\ NoFalseSuccess(r)'
  BY <1>3 DEF OperationInv, SqlRollsBack, requestVars, Untouched, NoFalseSuccess, InTransaction
<1>. QED
  BY <1>1, <1>2, <1>4, <1>5, OthersKeep

\* An entry that expires concerns no request.
LEMMA ExpireKeeps ==
  ASSUME OperationInv, Expire
  PROVE  OperationInv'
  BY DEF OperationInv, TypeOK, Expire, requestVars, handlerVars, HandlerTx, Untouched,
         NoFalseSuccess, InTransaction

-----------------------------------------------------------------------------

\* Every step keeps the invariant.
LEMMA OperationSteps ==
  ASSUME OperationInv, [Next]_vars
  PROVE  OperationInv'
<1>1. CASE Expire
  BY <1>1, ExpireKeeps
<1>2. ASSUME NEW r \in Requests, HandlerStep(r)
      PROVE  OperationInv'
  BY <1>2, BeginKeeps, ReturnKeeps, FailKeeps, GuardKeeps, CommitKeeps, RespondKeeps DEF HandlerStep
<1>3. ASSUME NEW r \in Requests, RequestStep(r)
      PROVE  OperationInv'
  BY <1>3, ServeKeeps, CallKeeps, TakeKeeps, WriteCapturedKeeps, FinishKeeps, RecoverKeeps
  DEF RequestStep
<1>4. ASSUME NEW r \in Requests, Environment(r)
      PROVE  OperationInv'
  BY <1>4, ContextEndKeeps, SqlRollsBackKeeps DEF Environment
<1>5. CASE UNCHANGED vars
  BY <1>5
  DEF vars, requestVars, handlerVars, OperationInv, TypeOK, HandlerTx, Untouched, NoFalseSuccess,
      InTransaction
<1>. QED
  BY <1>1, <1>2, <1>3, <1>4, <1>5 DEF Next

\* The invariant holds in every reachable state.
THEOREM OperationInvHolds == Spec => []OperationInv
  BY OperationStarts, OperationSteps, PTL DEF Spec

\* A client that is told of success has a committed transaction behind it, a handler that
\* failed or panicked has committed nothing, and one that is over leaves no transaction
\* open, for any number of concurrent requests and whatever the options of the operation
\* (operation.go 392-515, orm/transaction.go 57-86, operation_limits.go 100-164).
THEOREM SuccessMeansCommitted == Spec => []TransactionsMatchAnswers
<1>1. OperationInv => TransactionsMatchAnswers
  <2>1. ASSUME OperationInv PROVE CommittedIffSuccess
    BY <2>1
    DEF OperationInv, HandlerTx, NoFalseSuccess, InTransaction, Told, CommittedIffSuccess,
        FromHandler
  <2>2. ASSUME OperationInv PROVE NoTransactionLeaks
    BY <2>2 DEF OperationInv, HandlerTx, NoTransactionLeaks
  <2>. QED
    BY <2>1, <2>2 DEF TransactionsMatchAnswers
<1>. QED
  BY <1>1, OperationInvHolds, PTL

-----------------------------------------------------------------------------
(* Who wrote the answer.                                                   *)

\* The writer the request would put out next has been written to.
Written(r) == IF writer[r] = "original" THEN original[r] # "none" ELSE capture[r] # "none"

\* A panic under wrapCache, whose 500 is lost.
LostPanic(r) == hpc[r] = "panicked" /\ "cache" \in options

\* The request goroutine and the writers: which is in use, and what wrapCache holds.
Writers(r) ==
  /\ writer[r] = "capture" => "cache" \in options
  /\ pc[r] \in {"write", "store"} => "cache" \in options
  /\ pc[r] = "write" => writer[r] = "capture"
  /\ capture[r] = "passthrough" => original[r] # "none"
  /\ pc[r] \in {"new", "wait"} => ctx[r] # "over"

\* The two goroutines: only a timeout lets one leave the other behind.
Goroutines(r) ==
  /\ pc[r] = "unwind" => hpc[r] = "panicked"
  /\ failed[r] = "panic" => hpc[r] = "panicked"
  /\ "timeout" \notin options /\ hpc[r] \notin {"off", "returned", "panicked"} => pc[r] = "wait"

\* An answer is on its way from the handler or wrapTimeout to the original writer.
Answer(r) ==
  /\ hpc[r] = "returned" =>
       /\ "timeout" \in options => recorder[r] # "none"
       /\ "timeout" \notin options /\ pc[r] = "wait" => Written(r)
  /\ pc[r] = "write" => capture[r] # "none" \/ ctx[r] = "canceled"
  /\ pc[r] \in {"store", "finish", "done"} /\ hpc[r] # "off" =>
       original[r] # "none" \/ ctx[r] = "canceled" \/ LostPanic(r)
  /\ "cache" \notin options /\ pc[r] \in {"finish", "done"} /\ hpc[r] \notin {"off", "returned"} =>
       original[r] \in {"internal", "timeout"} \/ ctx[r] = "canceled"

AnswerInv ==
  /\ OperationInv /\ OnlySuccessIsCached
  /\ \A r \in Requests : Writers(r) /\ Goroutines(r) /\ Answer(r)

\* A step of one request leaves the answers of the others alone.
LEMMA OthersAnswered ==
  ASSUME AnswerInv, OperationInv', OnlySuccessIsCached', NEW r \in Requests, OneRequest(r),
         \A q \in Requests \ {r} : writer'[q] = writer[q],
         UNCHANGED options, Writers(r)', Goroutines(r)', Answer(r)'
  PROVE  AnswerInv'
<1>. SUFFICES ASSUME NEW q \in Requests \ {r}
              PROVE  Writers(q)' /\ Goroutines(q)' /\ Answer(q)'
  BY DEF AnswerInv
<1>1. Writers(q) /\ Goroutines(q) /\ Answer(q)
  BY DEF AnswerInv
<1>2. Writers(q)' /\ Goroutines(q)'
  BY <1>1 DEF OneRequest, Writers, Goroutines
<1>3. Answer(q)'
  BY <1>1 DEF OneRequest, Answer, Written, LostPanic
<1>. QED
  BY <1>2, <1>3

LEMMA AnswersStart == Init => AnswerInv
  BY OperationStarts
  DEF Init, AnswerInv, OnlySuccessIsCached, Writers, Goroutines, Answer, Written, LostPanic

\* Until the handler answers, its steps leave the writers alone.
LEMMA HandlerRunsSilently ==
  ASSUME AnswerInv, NEW r \in Requests,
         BeginTx(r) \/ HandlerReturns(r) \/ HandlerFails(r) \/ HandlerPanics(r)
           \/ GuardContext(r) \/ CommitTx(r)
  PROVE  AnswerInv'
<1>. USE DEF HandlerGoes, Set, requestVars
<1>1. OperationInv'
  BY BeginKeeps, ReturnKeeps, FailKeeps, GuardKeeps, CommitKeeps DEF AnswerInv
<1>2. /\ UNCHANGED <<options, stored, pc, ctx, original, capture, writer, recorder>>
      /\ hpc[r] \in {"begin", "body", "guard", "commit"}
      /\ hpc' = [hpc EXCEPT ![r] = hpc'[r]] /\ failed' = [failed EXCEPT ![r] = failed'[r]]
      /\ hpc'[r] \in {"body", "guard", "commit", "respond", "fail", "panicked"}
      /\ failed'[r] = "panic" => hpc'[r] = "panicked" \/ failed[r] = "panic"
  BY DEF AnswerInv, OperationInv, TypeOK, BeginTx, HandlerReturns, HandlerFails, HandlerPanics,
         GuardContext, CommitTx
<1>3. OneRequest(r)
  <2>1. \A q \in Requests \ {r} : tx'[q] = tx[q] /\ txKey'[q] = txKey[q]
    BY RollbackEnds DEF AnswerInv, OperationInv, TypeOK, BeginTx, HandlerReturns, HandlerFails,
       HandlerPanics, GuardContext, CommitTx
  <2>. QED
    BY <1>2, <2>1 DEF OneRequest, AnswerInv, OperationInv, TypeOK
<1>4. Writers(r) /\ Goroutines(r) /\ Answer(r)
  BY DEF AnswerInv
<1>5. Writers(r)' /\ Goroutines(r)'
  BY <1>2, <1>4 DEF Writers, Goroutines
<1>6. Answer(r)'
  BY <1>2, <1>4 DEF Answer, Written, LostPanic, Goroutines
<1>. QED
  BY <1>1, <1>2, <1>3, <1>5, <1>6, OthersAnswered DEF AnswerInv, OnlySuccessIsCached

\* What is written is there; it does not disappear in a writer that passes it through.
LEMMA WrittenIsThere ==
  ASSUME TypeOK, NEW r \in Requests, NEW response \in Responses \ {"none"},
         WriteResponse(r, response)
  PROVE  /\ writer[r] = "original" => original'[r] = response /\ capture'[r] = capture[r]
         /\ writer[r] # "original" => capture'[r] # "none"
         /\ original'[r] \in {original[r], response}
         /\ capture'[r] = "passthrough" => original'[r] = response \/ capture'[r] = capture[r]
  BY DEF TypeOK, WriteResponse, Set, Responses, Successes

\* The handler answers, to the recorder or to the writer of the request.
LEMMA AnswerIsWritten ==
  ASSUME AnswerInv, NEW r \in Requests, Respond(r) \/ RespondError(r)
  PROVE  AnswerInv'
<1>1. OperationInv'
  BY RespondKeeps DEF AnswerInv
<1>2. PICK response \in Responses \ {"none"} : HandlerWrites(r, response)
  BY DEF Respond, RespondError, Responses, Successes
<1>3. TypeOK /\ Writers(r) /\ Goroutines(r) /\ Answer(r)
  BY DEF AnswerInv, OperationInv
<1>4. /\ UNCHANGED <<options, stored, pc, ctx, writer, tx, txKey, failed>>
      /\ hpc[r] \in {"respond", "fail"} /\ hpc' = [hpc EXCEPT ![r] = "returned"]
  BY DEF Respond, RespondError, HandlerGoes, Set
<1>5. OneRequest(r)
  BY <1>2, <1>3, <1>4, HandlerWritesOne DEF OneRequest, TypeOK
<1>6. hpc'[r] = "returned" /\ failed[r] # "panic"
  BY <1>3, <1>4 DEF TypeOK, Goroutines
<1>7. CASE "timeout" \in options
  <2>1. UNCHANGED <<original, capture>> /\ recorder'[r] # "none"
    BY <1>2, <1>3, <1>7 DEF HandlerWrites, Set, TypeOK
  <2>2. Writers(r)' /\ Goroutines(r)' /\ Answer(r)'
    BY <1>3, <1>4, <1>6, <1>7, <2>1 DEF Writers, Goroutines, Answer, LostPanic
  <2>. QED
    BY <1>1, <1>4, <1>5, <2>2, OthersAnswered DEF AnswerInv, OnlySuccessIsCached
<1>8. CASE "timeout" \notin options
  <2>1. pc[r] = "wait"
    BY <1>3, <1>4, <1>8 DEF Goroutines
  <2>2. WriteResponse(r, response)
    BY <1>2, <1>8 DEF HandlerWrites
  <2>3. Writers(r)'
    BY <1>2, <1>3, <1>4, <2>1, <2>2, WrittenIsThere DEF Writers
  <2>4. Goroutines(r)' /\ Answer(r)'
    BY <1>2, <1>3, <1>4, <1>6, <1>8, <2>1, <2>2, WrittenIsThere DEF Goroutines, Answer, Written
  <2>. QED
    BY <1>1, <1>4, <1>5, <2>3, <2>4, OthersAnswered DEF AnswerInv, OnlySuccessIsCached
<1>. QED
  BY <1>7, <1>8

\* From the cache, or on to the handler.
LEMMA CacheIsAsked ==
  ASSUME AnswerInv, NEW r \in Requests, ServeFromCache(r) \/ CallHandler(r)
  PROVE  AnswerInv'
<1>1. OperationInv'
  BY ServeKeeps, CallKeeps DEF AnswerInv
<1>2. TypeOK /\ Untouched(r) /\ Writers(r) /\ Goroutines(r) /\ Answer(r)
  BY DEF AnswerInv, OperationInv
<1>3. /\ pc[r] = "new" /\ hpc[r] = "off" /\ original[r] = "none"
      /\ UNCHANGED <<options, stored, ctx, capture, recorder, failed, tx, txKey>>
  BY <1>2 DEF ServeFromCache, CallHandler, handlerVars, Untouched
<1>4. CASE ServeFromCache(r)
  <2>1. pc'[r] = "finish" /\ UNCHANGED <<writer, hpc>> /\ OneRequest(r)
    BY <1>2, <1>3, <1>4 DEF TypeOK, ServeFromCache, Set, handlerVars, OneRequest
  <2>2. capture[r] # "passthrough"
    BY <1>2, <1>3 DEF Writers
  <2>3. Writers(r)' /\ Goroutines(r)' /\ Answer(r)'
    BY <1>2, <1>3, <2>1, <2>2 DEF Writers, Goroutines, Answer
  <2>. QED
    BY <1>1, <1>3, <2>1, <2>3, OthersAnswered DEF AnswerInv, OnlySuccessIsCached
<1>5. CASE CallHandler(r)
  <2>1. /\ pc'[r] = "wait" /\ hpc'[r] = "begin" /\ original' = original /\ OneRequest(r)
        /\ writer'[r] = "capture" => "cache" \in options
        /\ \A q \in Requests \ {r} : writer'[q] = writer[q]
    BY <1>2, <1>3, <1>5 DEF TypeOK, CallHandler, Set, OneRequest
  <2>2. failed[r] = "no" /\ ctx[r] # "over"
    BY <1>3 DEF AnswerInv, OperationInv, HandlerTx, Writers
  <2>3. Writers(r)' /\ Goroutines(r)' /\ Answer(r)'
    BY <1>2, <1>3, <2>1, <2>2 DEF Writers, Goroutines, Answer
  <2>. QED
    BY <1>1, <1>3, <2>1, <2>3, OthersAnswered DEF AnswerInv, OnlySuccessIsCached
<1>. QED
  BY <1>4, <1>5

\* The request goroutine takes the end of its context: a deadline is answered.
LEMMA TimeOutAnswers ==
  ASSUME AnswerInv, NEW r \in Requests, TimeOut(r)
  PROVE  AnswerInv'
<1>1. OperationInv'
  BY TakeKeeps DEF AnswerInv
<1>2. TypeOK /\ Writers(r) /\ Goroutines(r) /\ Answer(r)
  BY DEF AnswerInv, OperationInv
<1>3. /\ pc[r] = "wait" /\ pc' = [pc EXCEPT ![r] = AfterHandler(r)]
      /\ "timeout" \in options /\ ctx[r] \in {"expired", "canceled"}
      /\ UNCHANGED <<options, stored, ctx, writer, hpc, tx, txKey, recorder, failed>>
  BY <1>2 DEF TimeOut, Set, handlerVars, TypeOK, Writers
<1>4. /\ pc'[r] = (IF writer[r] = "capture" THEN "write" ELSE "finish")
      /\ \A q \in Requests \ {r} : pc'[q] = pc[q]
  BY <1>2, <1>3 DEF TypeOK, AfterHandler
<1>5. CASE ctx[r] = "expired"
  <2>1. WriteResponse(r, "timeout") /\ "timeout" \in Responses \ {"none"}
    BY <1>5 DEF TimeOut, Responses
  <2>2. OneRequest(r)
    BY <1>2, <1>3, <1>4, <2>1, WritesOne DEF OneRequest
  <2>3. Writers(r)' /\ Goroutines(r)'
    BY <1>2, <1>3, <1>4, <2>1, WrittenIsThere DEF Writers, Goroutines, TypeOK
  <2>4. Answer(r)'
    BY <1>2, <1>3, <1>4, <2>1, WrittenIsThere DEF Answer, Writers, TypeOK
  <2>. QED
    BY <1>1, <1>3, <2>2, <2>3, <2>4, OthersAnswered DEF AnswerInv, OnlySuccessIsCached
<1>6. CASE ctx[r] # "expired"
  <2>1. UNCHANGED <<original, capture>>
    BY <1>6 DEF TimeOut
  <2>2. OneRequest(r)
    BY <1>3, <1>4, <2>1 DEF OneRequest
  <2>3. Writers(r)' /\ Goroutines(r)' /\ Answer(r)'
    BY <1>2, <1>3, <1>4, <1>6, <2>1 DEF Writers, Goroutines, Answer, TypeOK
  <2>. QED
    BY <1>1, <1>3, <2>1, <2>2, <2>3, OthersAnswered DEF AnswerInv, OnlySuccessIsCached
<1>. QED
  BY <1>5, <1>6

\* Or the panic of the handler.
LEMMA PanicIsTaken ==
  ASSUME AnswerInv, NEW r \in Requests, TakePanic(r)
  PROVE  AnswerInv'
<1>1. OperationInv'
  BY TakeKeeps DEF AnswerInv
<1>2. TypeOK /\ Writers(r) /\ Goroutines(r) /\ Answer(r)
  BY DEF AnswerInv, OperationInv
<1>3. /\ pc'[r] = "unwind" /\ \A q \in Requests \ {r} : pc'[q] = pc[q] /\ ctx'[q] = ctx[q]
      /\ hpc[r] = "panicked"
      /\ UNCHANGED <<options, stored, original, capture, writer, hpc, tx, txKey, recorder, failed>>
  BY <1>2, CancelEnds DEF TakePanic, Set, handlerVars, TypeOK
<1>4. OneRequest(r)
  BY <1>3 DEF OneRequest
<1>5. Writers(r)' /\ Goroutines(r)' /\ Answer(r)'
  BY <1>2, <1>3 DEF Writers, Goroutines, Answer
<1>. QED
  BY <1>1, <1>3, <1>4, <1>5, OthersAnswered DEF AnswerInv, OnlySuccessIsCached

\* Or what it answered.
LEMMA ResultIsTaken ==
  ASSUME AnswerInv, NEW r \in Requests, TakeResult(r)
  PROVE  AnswerInv'
<1>1. OperationInv'
  BY TakeKeeps DEF AnswerInv
<1>2. TypeOK /\ Writers(r) /\ Goroutines(r) /\ Answer(r)
  BY DEF AnswerInv, OperationInv
<1>3. /\ pc[r] = "wait" /\ hpc[r] = "returned" /\ pc' = [pc EXCEPT ![r] = AfterHandler(r)]
      /\ UNCHANGED <<options, stored, writer, hpc, tx, txKey, recorder, failed>>
  BY DEF TakeResult, Set, handlerVars
<1>4. /\ pc'[r] = (IF writer[r] = "capture" THEN "write" ELSE "finish")
      /\ \A q \in Requests \ {r} : pc'[q] = pc[q] /\ ctx'[q] = ctx[q]
      /\ failed[r] # "panic"
  BY <1>2, <1>3, CancelEnds DEF TypeOK, AfterHandler, TakeResult, Goroutines
<1>5. CASE "timeout" \in options
  <2>1. PICK response : response = IF recorder[r] = "huge" THEN "error" ELSE recorder[r]
    OBVIOUS
  <2>2. response \in Responses \ {"none"}
    BY <1>2, <1>3, <1>5, <2>1 DEF TypeOK, Answer, Responses
  <2>3. WriteResponse(r, response)
    BY <1>5, <2>1 DEF TakeResult, WriteResponse
  <2>4. OneRequest(r)
    BY <1>2, <1>3, <1>4, <2>2, <2>3, WritesOne DEF OneRequest
  <2>5. Writers(r)' /\ Goroutines(r)'
    BY <1>2, <1>3, <1>4, <2>2, <2>3, WrittenIsThere DEF Writers, Goroutines
  <2>6. Answer(r)'
    BY <1>2, <1>3, <1>4, <1>5, <2>2, <2>3, WrittenIsThere DEF Answer, Writers, TypeOK
  <2>. QED
    BY <1>1, <1>3, <2>4, <2>5, <2>6, OthersAnswered DEF AnswerInv, OnlySuccessIsCached
<1>6. CASE "timeout" \notin options
  <2>1. UNCHANGED <<original, capture>> /\ Written(r)
    BY <1>2, <1>3, <1>6 DEF TakeResult, Answer
  <2>2. OneRequest(r)
    BY <1>3, <1>4, <2>1 DEF OneRequest
  <2>3. Writers(r)' /\ Goroutines(r)' /\ Answer(r)'
    BY <1>2, <1>3, <1>4, <1>6, <2>1 DEF Writers, Goroutines, Answer, Written, TypeOK
  <2>. QED
    BY <1>1, <1>3, <2>1, <2>2, <2>3, OthersAnswered DEF AnswerInv, OnlySuccessIsCached
<1>. QED
  BY <1>5, <1>6

\* What wrapCache captured is put out.
LEMMA CaptureIsPutOut ==
  ASSUME AnswerInv, NEW r \in Requests, WriteCaptured(r)
  PROVE  AnswerInv'
<1>1. OperationInv'
  BY WriteCapturedKeeps DEF AnswerInv
<1>2. TypeOK /\ Writers(r) /\ Goroutines(r) /\ Answer(r)
  BY DEF AnswerInv, OperationInv
<1>3. /\ pc[r] = "write" /\ pc'[r] \in {"finish", "store"}
      /\ \A q \in Requests \ {r} :
           pc'[q] = pc[q] /\ original'[q] = original[q] /\ writer'[q] = writer[q]
      /\ writer'[r] = "original"
      /\ UNCHANGED <<options, stored, ctx, capture, hpc, tx, txKey, recorder, failed>>
  BY <1>2 DEF WriteCaptured, Set, handlerVars, TypeOK
<1>4. OneRequest(r)
  BY <1>3 DEF OneRequest
<1>5. capture[r] # "none" => original'[r] # "none"
  <2>1. CASE capture[r] = "passthrough" /\ UNCHANGED original
    BY <1>2, <2>1 DEF Writers
  <2>2. CASE \E response \in Conditional(capture[r]) \ {"passthrough"} : Set(original, r, response)
    BY <1>2, <2>2 DEF Conditional, Set, TypeOK
  <2>. QED
    BY <2>1, <2>2 DEF WriteCaptured
<1>6. Writers(r)' /\ Goroutines(r)' /\ Answer(r)'
  BY <1>2, <1>3, <1>5 DEF Writers, Goroutines, Answer
<1>. QED
  BY <1>1, <1>3, <1>4, <1>6, OthersAnswered DEF AnswerInv, OnlySuccessIsCached

\* It is stored if it is a success, and the request ends.
LEMMA RequestEnds ==
  ASSUME AnswerInv, NEW r \in Requests, StoreCaptured(r) \/ Finish(r)
  PROVE  AnswerInv'
<1>1. OperationInv'
  BY FinishKeeps DEF AnswerInv
<1>2. TypeOK /\ Writers(r) /\ Goroutines(r) /\ Answer(r)
  BY DEF AnswerInv, OperationInv
<1>3. /\ pc[r] \in {"store", "finish"} /\ pc'[r] \in {"finish", "done"}
      /\ pc[r] = "store" => "cache" \in options
      /\ \A q \in Requests \ {r} : pc'[q] = pc[q]
      /\ UNCHANGED <<options, ctx, original, capture, writer, hpc, tx, txKey, recorder, failed>>
  BY <1>2 DEF StoreCaptured, Finish, Set, handlerVars, TypeOK, Writers
<1>4. OneRequest(r)
  BY <1>3 DEF OneRequest
<1>5. OnlySuccessIsCached'
  BY DEF AnswerInv, OnlySuccessIsCached, StoreCaptured, Finish, Storable
<1>6. Writers(r)' /\ Goroutines(r)' /\ Answer(r)'
  BY <1>2, <1>3 DEF Writers, Goroutines, Answer, LostPanic
<1>. QED
  BY <1>1, <1>3, <1>4, <1>5, <1>6, OthersAnswered

\* Recovery answers, under wrapCache into a capture that nobody will look at.
LEMMA RecoveryAnswers ==
  ASSUME AnswerInv, NEW r \in Requests, Recover(r)
  PROVE  AnswerInv'
<1>1. OperationInv'
  BY RecoverKeeps DEF AnswerInv
<1>2. TypeOK /\ Writers(r) /\ Goroutines(r) /\ Answer(r)
  BY DEF AnswerInv, OperationInv
<1>3. /\ hpc[r] = "panicked" /\ pc'[r] = "finish" /\ \A q \in Requests \ {r} : pc'[q] = pc[q]
      /\ WriteResponse(r, "internal") /\ "internal" \in Responses \ {"none"}
      /\ UNCHANGED <<options, stored, ctx, writer, hpc, tx, txKey, recorder, failed>>
  BY <1>2 DEF Recover, Set, handlerVars, TypeOK, Goroutines, Responses
<1>4. OneRequest(r)
  BY <1>2, <1>3, WritesOne DEF OneRequest
<1>5. Writers(r)' /\ Goroutines(r)'
  BY <1>2, <1>3, WrittenIsThere DEF Writers, Goroutines
<1>6. CASE "cache" \in options
  BY <1>1, <1>2, <1>3, <1>4, <1>5, <1>6, OthersAnswered
  DEF Answer, LostPanic, AnswerInv, OnlySuccessIsCached
<1>7. CASE "cache" \notin options
  <2>1. original'[r] = "internal"
    BY <1>2, <1>3, <1>7, WrittenIsThere DEF Writers, TypeOK
  <2>2. Answer(r)'
    BY <1>3, <2>1 DEF Answer
  <2>. QED
    BY <1>1, <1>3, <1>4, <1>5, <2>2, OthersAnswered DEF AnswerInv, OnlySuccessIsCached
<1>. QED
  BY <1>6, <1>7

\* The end of a context takes no answer away.
LEMMA EnvironmentIsSilent ==
  ASSUME AnswerInv, NEW r \in Requests, Environment(r)
  PROVE  AnswerInv'
<1>1. OperationInv'
  BY ContextEndKeeps, SqlRollsBackKeeps DEF AnswerInv, Environment
<1>2. TypeOK /\ Writers(r) /\ Goroutines(r) /\ Answer(r)
  BY DEF AnswerInv, OperationInv
<1>3. /\ \/ ctx'[r] = ctx[r]
         \/ pc[r] = "wait" /\ ctx'[r] \in {"expired", "canceled"}
      /\ \A q \in Requests \ {r} : ctx'[q] = ctx[q] /\ tx'[q] = tx[q]
      /\ UNCHANGED <<options, stored, pc, original, capture, writer, hpc, txKey, recorder, failed>>
  BY <1>2 DEF Environment, Deadline, Disconnect, SqlRollsBack, Set, handlerVars, requestVars, TypeOK
<1>4. OneRequest(r)
  BY <1>3 DEF OneRequest
<1>5. Writers(r)' /\ Goroutines(r)' /\ Answer(r)'
  BY <1>2, <1>3 DEF Writers, Goroutines, Answer, Written, LostPanic
<1>. QED
  BY <1>1, <1>3, <1>4, <1>5, OthersAnswered DEF AnswerInv, OnlySuccessIsCached

LEMMA AnswerSteps ==
  ASSUME AnswerInv, [Next]_vars
  PROVE  AnswerInv'
<1>1. CASE Expire
  <2>1. OperationInv' /\ OnlySuccessIsCached'
    BY <1>1, ExpireKeeps DEF AnswerInv, OnlySuccessIsCached, Expire
  <2>. QED
    BY <1>1, <2>1 DEF AnswerInv, Expire, requestVars, handlerVars, Writers, Goroutines, Answer,
       Written, LostPanic
<1>2. ASSUME NEW r \in Requests, HandlerStep(r)
      PROVE  AnswerInv'
  BY <1>2, HandlerRunsSilently, AnswerIsWritten DEF HandlerStep
<1>3. ASSUME NEW r \in Requests, RequestStep(r)
      PROVE  AnswerInv'
  BY <1>3, CacheIsAsked, TimeOutAnswers, PanicIsTaken, ResultIsTaken, CaptureIsPutOut, RequestEnds,
     RecoveryAnswers DEF RequestStep
<1>4. ASSUME NEW r \in Requests, Environment(r)
      PROVE  AnswerInv'
  BY <1>4, EnvironmentIsSilent
<1>5. CASE UNCHANGED vars
  <2>1. OperationInv'
    BY <1>5, OperationSteps DEF AnswerInv
  <2>. QED
    BY <1>5, <2>1
    DEF vars, requestVars, handlerVars, AnswerInv, OnlySuccessIsCached, Writers, Goroutines, Answer,
        Written, LostPanic
<1>. QED
  BY <1>1, <1>2, <1>3, <1>4, <1>5 DEF Next

\* The second invariant holds in every reachable state.
THEOREM AnswerInvHolds == Spec => []AnswerInv
  BY AnswersStart, AnswerSteps, PTL DEF Spec

\* Whoever is still there gets an answer that the handler, wrapTimeout or Recovery wrote,
\* a panic is a 500 or comes after the 408, and only what went well is kept in the cache,
\* for any number of requests and whatever the options (cache.go 263-337,
\* operation_limits.go 100-164, middleware/recovery.go 16-40).
THEOREM EverybodyIsAnswered == Spec => []AnswersAreWritten
<1>1. AnswerInv => AnswersAreWritten
  <2>. SUFFICES ASSUME AnswerInv, NEW r \in Requests, pc[r] = "done"
                PROVE  /\ original[r] = "none" =>
                            \/ ctx[r] = "canceled"
                            \/ hpc[r] = "panicked" /\ "cache" \in options
                            \/ ~FromHandler(r)
                       /\ "cache" \notin options /\ failed[r] = "panic" =>
                            original[r] \in {"internal", "timeout"} \/ ctx[r] = "canceled"
    BY DEF AnswerInv, AnswersAreWritten, NobodyGetsNothing, PanicIsInternalErrorUncached
  <2>. QED
    BY DEF AnswerInv, Answer, Goroutines, LostPanic, FromHandler
<1>. QED
  BY <1>1, AnswerInvHolds, PTL

\* What was sent is sent: the handler a timeout left behind writes to its recorder only.
THEOREM LateHandlersAreSilent == Spec => LateHandlerIsSilent
<1>. DEFINE Silent ==
       \A r \in Requests : pc[r] \in {"finish", "done"} => original'[r] = original[r]
<1>1. AnswerInv /\ [Next]_vars => Silent
  <2>. SUFFICES ASSUME AnswerInv, [Next]_vars, NEW r \in Requests, pc[r] \in {"finish", "done"}
                PROVE  original'[r] = original[r]
    OBVIOUS
  <2>1. TypeOK
    BY DEF AnswerInv, OperationInv
  <2>2. ASSUME NEW q \in Requests, Respond(q) \/ RespondError(q)
        PROVE  original'[r] = original[r]
    <3>1. PICK response \in Responses : HandlerWrites(q, response)
      BY <2>2 DEF Respond, RespondError, Responses, Successes
    <3>2. CASE q = r
      <4>1. "timeout" \in options
        BY <2>2, <3>2 DEF AnswerInv, Goroutines, Respond, RespondError
      <4>. QED
        BY <3>1, <4>1 DEF HandlerWrites
    <3>3. CASE q # r
      BY <2>1, <3>1, <3>3, HandlerWritesOne
    <3>. QED
      BY <3>2, <3>3
  <2>3. ASSUME NEW q \in Requests, HandlerStep(q)
        PROVE  original'[r] = original[r]
    BY <2>2, <2>3 DEF HandlerStep, BeginTx, HandlerReturns, HandlerFails, HandlerPanics,
       GuardContext, CommitTx, requestVars
  <2>4. ASSUME NEW q \in Requests, TakeResult(q) \/ TakePanic(q) \/ TimeOut(q) \/ Recover(q)
        PROVE  original'[r] = original[r]
    <3>1. q # r
      BY <2>4 DEF TakeResult, TakePanic, TimeOut, Recover
    <3>2. \/ UNCHANGED original
          \/ \E response \in Responses : WriteResponse(q, response)
      <4>1. PICK result : result = IF recorder[q] = "huge" THEN "error" ELSE recorder[q]
        OBVIOUS
      <4>2. {result, "timeout", "internal"} \subseteq Responses
        BY <2>1, <4>1 DEF TypeOK, Responses
      <4>3. TakeResult(q) => WriteResponse(q, result) \/ UNCHANGED original
        BY <4>1 DEF TakeResult, WriteResponse
      <4>. QED
        BY <2>4, <4>2, <4>3 DEF TakePanic, TimeOut, Recover
    <3>. QED
      BY <2>1, <3>1, <3>2, WritesOne
  <2>5. ASSUME NEW q \in Requests, RequestStep(q)
        PROVE  original'[r] = original[r]
    BY <2>1, <2>4, <2>5 DEF RequestStep, ServeFromCache, CallHandler, WriteCaptured,
       StoreCaptured, Finish, Set, TypeOK
  <2>6. ASSUME NEW q \in Requests, Environment(q)
        PROVE  original'[r] = original[r]
    BY <2>6 DEF Environment, Deadline, Disconnect, SqlRollsBack, requestVars
  <2>. QED
    BY <2>3, <2>5, <2>6 DEF Next, Expire, vars, requestVars
<1>. QED
  BY <1>1, AnswerInvHolds, PTL DEF Spec, LateHandlerIsSilent

\* Everything keeps its type, and wrapCache stores only after it has put the writer back.
THEOREM OperationTypesHold == Spec => []TypeOK
<1>1. OperationInv => TypeOK
  BY DEF OperationInv
<1>. QED
  BY <1>1, OperationInvHolds, PTL

-----------------------------------------------------------------------------
(* What an operation declares, documents and answers.                      *)

\* The answers that Response and its like have declared, in their order.
Declared == [status : Nat, content : {<<>>, <<"page", "row">>}]
Declares(op) == "responses" \in DOMAIN op /\ op.responses \in Seq(Declared)

ContractInv ==
  /\ Declares(contract)
  /\ phase \in {"building", "registered", "answered", "panicked"}
  /\ AnswersAsDocumented

\* An operation is new, and has answered nothing.
LEMMA ContractStarts == ContractInit => ContractInv
<1>. SUFFICES ASSUME ContractInit PROVE ContractInv
  OBVIOUS
<1>1. PICK handler \in Handlers : contract = NewOperation(handler)
  BY DEF ContractInit
<1>2. Declares(NewOperation(handler))
  BY DEF NewOperation, Declares
<1>. QED
  BY <1>1, <1>2 DEF ContractInit, ContractInv, AnswersAsDocumented

\* Only Response adds an answer, behind the others.
LEMMA OptionsDeclare ==
  ASSUME NEW op, Declares(op), NEW made \in Modelling(op) \cup Behaving(op)
  PROVE  Declares(made)
<1>1. CASE made \in Modelling(op)
  <2>1. ASSUME NEW t, made \in {ResponseModel(op, t), Paginated(op, t), CursorPaginated(op, t)}
        PROVE  Declares(made)
    BY <2>1 DEF ResponseModel, Paginated, CursorPaginated, Declares
  <2>2. ASSUME NEW d, made \in {ResponseSchema(op, d), PaginatedSchema(op, d),
                                CursorPaginatedSchema(op, d)}
        PROVE  Declares(made)
    BY <2>2 DEF ResponseSchema, PaginatedSchema, CursorPaginatedSchema, Declares
  <2>3. CASE made \in UNION {{ResponseModel(op, t), Paginated(op, t), CursorPaginated(op, t)} : t \in Models}
    <3>1. PICK t \in Models : made \in {ResponseModel(op, t), Paginated(op, t), CursorPaginated(op, t)}
      BY <2>3, Zenon
    <3>. QED
      BY <3>1, <2>1
  <2>4. CASE made \in UNION {{ResponseSchema(op, d), PaginatedSchema(op, d), CursorPaginatedSchema(op, d)} :
                                d \in Selections}
    <3>1. PICK d \in Selections :
            made \in {ResponseSchema(op, d), PaginatedSchema(op, d), CursorPaginatedSchema(op, d)}
      BY <2>4, Zenon
    <3>. QED
      BY <3>1, <2>2
  <2>. QED
    BY <1>1, <2>3, <2>4 DEF Modelling
<1>2. ASSUME NEW code \in {202, 409}, NEW content \in {<<>>, <<"page", "row">>},
             made = Response(op, code, content)
      PROVE  Declares(made)
  BY <1>2 DEF Response, Declares, Declared
<1>3. CASE made \in {Security(op), SecurityMiddleware(op), Cache(op, 1), Cache(op, 0)}
  BY <1>3 DEF Security, SecurityMiddleware, Cache, Declares
<1>4. CASE made \in {SuccessStatus(op, 202), Timeout(op), RateLimit(op, 5), RateLimit(op, 0),
                     WithTransaction(op), CacheControl(op), ETag(op), Deprecated(op),
                     ExcludeFromDocs(op)}
  BY <1>4 DEF SuccessStatus, Timeout, RateLimit, WithTransaction, CacheControl, ETag,
     Deprecated, ExcludeFromDocs, Declares
<1>. QED
  BY <1>1, <1>2, <1>3, <1>4 DEF Behaving

-----------------------------------------------------------------------------

\* The statuses that an operation has in its document whatever else it declares.
Standard(op) ==
  {422, 500, op.status} \cup (IF op.timeout THEN {408} ELSE {}) \cup (IF op.rateLimit THEN {429} ELSE {})

\* Of several answers with one status the last is documented; nothing hides a status.
LEMMA StatusesAreDocumented ==
  ASSUME NEW op, Declares(op),
         NEW status \in Standard(op)
  PROVE  \E r \in DocumentedResponses(op) : r.status = status
<1>. DEFINE declared == DOMAIN op.responses
            Same == {i \in declared : op.responses[i].status = status}
<1>1. CASE Same = {}
  <2>1. \E r \in DocumentedResponses(op) : r.status = status
    <3>. DEFINE entry == [status |-> status, content |-> IF status = op.status THEN Content(op) ELSE <<>>]
    <3>1. \A i \in declared : op.responses[i].status # entry.status
      BY <1>1
    <3>2. entry \in {[status |-> 422, content |-> <<>>], [status |-> 500, content |-> <<>>]}
                    \cup (IF op.timeout THEN {[status |-> 408, content |-> <<>>]} ELSE {})
                    \cup (IF op.rateLimit THEN {[status |-> 429, content |-> <<>>]} ELSE {})
                    \cup {[status |-> op.status, content |-> Content(op)]}
      <4>1. CASE status = op.status
        BY <4>1
      <4>2. CASE status # op.status
        BY <4>2 DEF Standard
      <4>. QED
        BY <4>1, <4>2
    <3>. HIDE DEF entry
    <3>3. entry \in DocumentedResponses(op)
      BY <3>1, <3>2 DEF DocumentedResponses
    <3>4. entry.status = status
      BY DEF entry
    <3>. QED
      BY <3>3, <3>4
  <2>. QED
    BY <2>1
<1>2. CASE Same # {}
  <2>1. declared = 1..Len(op.responses) /\ Len(op.responses) \in Nat
    BY DEF Declares
  <2>2. PICK last \in Same : \A other \in Same : other <= last
    BY <1>2, <2>1, LastThereIs
  <2>3. \A later \in declared : later > last => op.responses[later].status # op.responses[last].status
    BY <2>1, <2>2
  <2>. QED
    BY <2>2, <2>3 DEF DocumentedResponses
<1>. QED
  BY <1>1, <1>2

\* What is in a list of wrappers.
LEMMA ConcatenationHolds ==
  ASSUME NEW S, NEW s \in Seq(S), NEW t \in Seq(S)
  PROVE  s \o t \in Seq(S) /\ ToSet(s \o t) = ToSet(s) \cup ToSet(t)
<1>1. ASSUME NEW x \in ToSet(s) PROVE x \in ToSet(s \o t)
  <2>1. PICK i \in DOMAIN s : x = s[i]
    BY <1>1 DEF ToSet
  <2>2. i \in DOMAIN (s \o t) /\ (s \o t)[i] = x
    BY <2>1
  <2>. QED
    BY <2>2 DEF ToSet
<1>2. ASSUME NEW x \in ToSet(t) PROVE x \in ToSet(s \o t)
  <2>1. PICK i \in DOMAIN t : x = t[i]
    BY <1>2 DEF ToSet
  <2>2. Len(s) + i \in DOMAIN (s \o t) /\ (s \o t)[Len(s) + i] = x
    BY <2>1
  <2>. QED
    BY <2>2 DEF ToSet
<1>3. ASSUME NEW x \in ToSet(s \o t) PROVE x \in ToSet(s) \cup ToSet(t)
  <2>1. PICK i \in DOMAIN (s \o t) : x = (s \o t)[i]
    BY <1>3 DEF ToSet
  <2>2. CASE i <= Len(s)
    <3>1. i \in DOMAIN s /\ s[i] = x
      BY <2>1, <2>2
    <3>. QED
      BY <3>1 DEF ToSet
  <2>3. CASE ~(i <= Len(s))
    <3>1. i - Len(s) \in DOMAIN t /\ t[i - Len(s)] = x
      BY <2>1, <2>3
    <3>. QED
      BY <3>1 DEF ToSet
  <2>. QED
    BY <2>2, <2>3
<1>. QED
  BY <1>1, <1>2, <1>3

LEMMA SingletonHolds ==
  ASSUME NEW S, NEW x \in S
  PROVE  <<x>> \in Seq(S) /\ ToSet(<<x>>) = {x}
<1>1. DOMAIN <<x>> = {1} /\ <<x>>[1] = x /\ <<x>> \in Seq(S)
  <2>1. <<x>> \in Seq(S) /\ Len(<<x>>) = 1 /\ <<x>>[1] = x
    OBVIOUS
  <2>. QED
    BY <2>1
<1>2. ToSet(<<x>>) = {<<x>>[i] : i \in {1}}
  BY <1>1 DEF ToSet
<1>. QED
  BY <1>1, <1>2

LEMMA WrappersAre ==
  ASSUME NEW op
  PROVE  /\ "rate limit" \in ToSet(Wrappers(op)) => op.rateLimit
         /\ {"timeout", "cooperative timeout"} \cap ToSet(Wrappers(op)) # {} => op.timeout
<1>. DEFINE Names == {"rate limit", "cache", "timeout", "cooperative timeout", "handler"}
            limit == IF op.rateLimit THEN <<"rate limit">> ELSE <<>>
            cache == IF op.cache # "off" \/ op.control # "" \/ op.etag THEN <<"cache">> ELSE <<>>
            patience == IF op.returns = "file" THEN "cooperative timeout" ELSE "timeout"
            timeout == IF op.timeout THEN <<patience>> ELSE <<>>
<1>1. <<>> \in Seq(Names) /\ ToSet(<<>>) = {}
  BY DEF ToSet
<1>0. \A x \in Names : <<x>> \in Seq(Names) /\ ToSet(<<x>>) = {x}
  BY SingletonHolds
<1>2. limit \in Seq(Names) /\ ToSet(limit) \subseteq {"rate limit"} /\ (~op.rateLimit => ToSet(limit) = {})
  BY <1>0, <1>1
<1>3. cache \in Seq(Names) /\ ToSet(cache) \subseteq {"cache"}
  BY <1>0, <1>1
<1>4. patience \in {"cooperative timeout", "timeout"} /\ patience \in Names
  OBVIOUS
<1>5. /\ timeout \in Seq(Names) /\ ToSet(timeout) \subseteq {"cooperative timeout", "timeout"}
      /\ ~op.timeout => ToSet(timeout) = {}
  <2>. HIDE DEF patience
  <2>1. <<patience>> \in Seq(Names) /\ ToSet(<<patience>>) = {patience}
    BY <1>0, <1>4
  <2>. QED
    BY <1>1, <1>4, <2>1
<1>6. Wrappers(op) = limit \o cache \o timeout \o <<"handler">>
  BY DEF Wrappers
<1>7. \A s, t \in Seq(Names) : s \o t \in Seq(Names) /\ ToSet(s \o t) = ToSet(s) \cup ToSet(t)
  <2>. HIDE DEF Names
  <2>. QED
    BY ConcatenationHolds
<1>. HIDE DEF limit, cache, timeout
<1>8. ToSet(Wrappers(op)) = ToSet(limit) \cup ToSet(cache) \cup ToSet(timeout) \cup {"handler"}
  <2>1. limit \o cache \in Seq(Names) /\ ToSet(limit \o cache) = ToSet(limit) \cup ToSet(cache)
    BY <1>2, <1>3, <1>7
  <2>2. /\ (limit \o cache) \o timeout \in Seq(Names)
        /\ ToSet((limit \o cache) \o timeout) = ToSet(limit \o cache) \cup ToSet(timeout)
    BY <1>5, <2>1, <1>7
  <2>3. <<"handler">> \in Seq(Names) /\ ToSet(<<"handler">>) = {"handler"}
    BY <1>0
  <2>4. ToSet(((limit \o cache) \o timeout) \o <<"handler">>)
          = ToSet((limit \o cache) \o timeout) \cup ToSet(<<"handler">>)
    BY <2>2, <2>3, <1>7
  <2>. QED
    BY <1>6, <2>1, <2>2, <2>3, <2>4, Zenon
<1>9. op.rateLimit \/ "rate limit" \notin ToSet(Wrappers(op))
  BY <1>2, <1>3, <1>5, <1>8
<1>10. op.timeout \/ {"timeout", "cooperative timeout"} \cap ToSet(Wrappers(op)) = {}
  BY <1>2, <1>3, <1>5, <1>8
<1>. QED
  BY <1>9, <1>10

-----------------------------------------------------------------------------

\* When the options belong to the handler, the serializer and the document look
\* through the fields for the same model, in whatever order they look.
LEMMA SerializedIsDocumented ==
  ASSUME NEW op, Fitting(op), op.returns # "nothing", NEW valid \in BOOLEAN,
         Serialize(op, valid) # Failure
  PROVE  Serialize(op, valid) = Content(op)
<1>1. CASE op.paginatedResponseSchema # None \/ op.paginatedItemType # None
  <2>1. /\ op.returns = "page" /\ op.cursorPaginatedItemType = None
        /\ op.cursorPaginatedResponseSchema = None
    BY <1>1 DEF Fitting
  <2>. QED
    BY <1>1, <2>1 DEF Serialize, SerializePage, Content
<1>2. CASE /\ op.paginatedResponseSchema = None /\ op.paginatedItemType = None
           /\ op.cursorPaginatedResponseSchema # None \/ op.cursorPaginatedItemType # None
  <2>1. op.returns = "cursor"
    BY <1>2 DEF Fitting
  <2>. QED
    BY <1>2, <2>1 DEF Serialize, SerializePage, Content
<1>3. CASE /\ op.paginatedResponseSchema = None /\ op.paginatedItemType = None
           /\ op.cursorPaginatedResponseSchema = None /\ op.cursorPaginatedItemType = None
  BY <1>3 DEF Serialize, SerializeSelection, Content
<1>. QED
  BY <1>1, <1>2, <1>3

\* A success has a status that is documented or 204; with a body it has the one of
\* the operation, and the body that the document has for it.
LEMMA SuccessIsDocumented ==
  ASSUME NEW op, Fitting(op), NEW request, request.head \in BOOLEAN
  PROVE  LET response == Success(op, request)
         IN  /\ response.status \in {204, 500, op.status}
             /\ response.status < 400 /\ response.content # <<>>
                  => response.status = op.status /\ response.content = Content(op)
<1>. DEFINE response == Success(op, request)
            body == Serialize(op, request.output = "valid")
<1>1. CASE op.returns = "nothing" \/ request.output = "nil"
  <2>1. response = [status |-> 204, content |-> <<>>]
    BY <1>1 DEF Success
  <2>. QED
    BY <2>1
<1>2. CASE ~(op.returns = "nothing" \/ request.output = "nil") /\ op.returns = "file"
  <2>1. response = [status |-> op.status, content |-> IF request.head THEN <<>> ELSE <<"file", "row">>]
    BY <1>2 DEF Success, WriteFile
  <2>2. Content(op) = <<"file", "row">>
    BY <1>2 DEF Fitting, Content
  <2>. QED
    BY <2>1, <2>2
<1>3. CASE ~(op.returns = "nothing" \/ request.output = "nil") /\ op.returns # "file" /\ request.head
  <2>1. response = [status |-> op.status, content |-> <<>>]
    BY <1>3 DEF Success
  <2>. QED
    BY <2>1
<1>4. CASE /\ ~(op.returns = "nothing" \/ request.output = "nil") /\ op.returns # "file"
           /\ ~request.head /\ body = Failure
  <2>1. response = [status |-> 500, content |-> Failure]
    BY <1>4 DEF Success
  <2>. QED
    BY <2>1
<1>5. CASE /\ ~(op.returns = "nothing" \/ request.output = "nil") /\ op.returns # "file"
           /\ ~request.head /\ body # Failure
  <2>1. response = [status |-> op.status, content |-> body]
    BY <1>5 DEF Success
  <2>2. body = Content(op)
    BY <1>5, SerializedIsDocumented
  <2>. QED
    BY <2>1, <2>2
<1>. QED
  BY <1>1, <1>2, <1>3, <1>4, <1>5

\* The route cache sets a header only for an option that documents it.
LEMMA HeadersAreDocumented ==
  ASSUME NEW op, NEW response
  PROVE  AnsweredHeaders(op, response) \subseteq DocumentedHeaders(op)
BY DEF AnsweredHeaders, DocumentedHeaders

-----------------------------------------------------------------------------

\* Until it is registered an operation has answered nothing.
LEMMA BuildingKeepsTheContract ==
  ASSUME ContractInv, GiveOption \/ GiveGuardWithoutMiddleware \/ Register
  PROVE  ContractInv'
<1>1. CASE GiveOption
  <2>1. Declares(contract')
    BY <1>1, OptionsDeclare DEF GiveOption, ContractInv
  <2>. QED
    BY <1>1, <2>1 DEF GiveOption, ContractInv, AnswersAsDocumented, Declares
<1>2. CASE GiveGuardWithoutMiddleware
  BY <1>2 DEF GiveGuardWithoutMiddleware, ContractInv, AnswersAsDocumented, Declares
<1>3. CASE Register
  BY <1>3 DEF Register, ContractInv, AnswersAsDocumented, Declares
<1>. QED
  BY <1>1, <1>2, <1>3

\* A success is in the document.
LEMMA SuccessKeepsTheContract ==
  ASSUME ContractInv, AnswerSuccess
  PROVE  ContractInv'
<1>1. /\ contract' = contract /\ phase' = "answered" /\ Declares(contract)
  BY DEF AnswerSuccess, ContractInv
<1>2. PICK output \in {"nil", "valid", "invalid"}, head \in {FALSE, contract.method = "GET"} :
        answer' = [by |-> "output",
                   status |-> Success(contract, [output |-> output, head |-> head]).status,
                   content |-> Success(contract, [output |-> output, head |-> head]).content,
                   headers |-> AnsweredHeaders(contract, Success(contract, [output |-> output, head |-> head]))]
  BY Zenon DEF AnswerSuccess
<1>. DEFINE request == [output |-> output, head |-> head]
            response == Success(contract, request)
<1>3. request.head \in BOOLEAN
  BY Zenon
<1>4. ASSUME Fitting(contract)
      PROVE  /\ response.status \in {204, 500, contract.status}
             /\ response.status < 400 /\ response.content # <<>>
                  => response.status = contract.status /\ response.content = Content(contract)
  <2>. HIDE DEF request
  <2>. QED
    BY <1>3, <1>4, SuccessIsDocumented
<1>. HIDE DEF request
<1>5. /\ answer'.by = "output"
      /\ answer'.status = response.status /\ answer'.content = response.content
      /\ answer'.headers = AnsweredHeaders(contract, response)
  BY <1>2 DEF request
<1>. HIDE DEF response
<1>6. ASSUME Fitting(contract)
      PROVE  answer'.status \in {r.status : r \in DocumentedResponses(contract)} \cup {204, 400, 413}
  <2>1. CASE response.status = 204
    BY <2>1, <1>5
  <2>2. CASE response.status # 204
    <3>0. response.status \in Standard(contract)
      BY <1>4, <1>6, <2>2 DEF Standard
    <3>1. PICK r \in DocumentedResponses(contract) : r.status = response.status
      BY <1>1, <3>0, StatusesAreDocumented
    <3>. QED
      BY <1>5, <3>1
  <2>. QED
    BY <2>1, <2>2
<1>7. answer'.headers \subseteq DocumentedHeaders(contract)
  BY <1>5, HeadersAreDocumented
<1>8. ASSUME Fitting(contract), answer'.status < 400, answer'.content # <<>>,
             \A i \in DOMAIN contract.responses : contract.responses[i].status # contract.status
      PROVE  [status |-> answer'.status, content |-> answer'.content] \in DocumentedResponses(contract)
  <2>1. answer'.status = contract.status /\ answer'.content = Content(contract)
    BY <1>4, <1>5, <1>8
  <2>. DEFINE entry == [status |-> contract.status, content |-> Content(contract)]
  <2>2. \A i \in DOMAIN contract.responses : contract.responses[i].status # entry.status
    BY <1>8
  <2>3. entry \in DocumentedResponses(contract)
    <3>. HIDE DEF entry
    <3>1. entry \in {[status |-> contract.status, content |-> Content(contract)]}
      BY DEF entry
    <3>. QED
      BY <2>2, <3>1 DEF DocumentedResponses
  <2>. QED
    BY <2>1, <2>3
<1>9. AnswersAsDocumented'
  BY <1>1, <1>6, <1>7, <1>8, ZenonT(40) DEF AnswersAsDocumented, OwnStatus
<1>. QED
  BY <1>1, <1>9 DEF ContractInv, Declares

\* A refusal whose status the program did not choose is one of a few.
LEMMA RefusalsAre ==
  ASSUME NEW op, NEW refusal \in Refusals(op)
  PROVE  /\ refusal.by # "output"
         /\ \/ refusal.by \in {"guard", "error"}
            \/ refusal.by = "deadline" /\ ~op.timeout
            \/ refusal.status \in {400, 413, 422, 500} \cup (IF op.timeout THEN {408} ELSE {})
                                    \cup (IF op.rateLimit THEN {429} ELSE {})
<1>1. CASE refusal \in [by : {"guard"}, status : GuardCodes]
  BY <1>1
<1>2. CASE refusal \in [by : {"framework"}, status : {400, 413, 422, 500}]
  BY <1>2
<1>3. CASE refusal \in [by : {"framework"}, status : {429}] /\ "rate limit" \in ToSet(Wrappers(op))
  <2>1. op.rateLimit
    BY <1>3, WrappersAre, Zenon
  <2>2. refusal.status \in (IF op.rateLimit THEN {429} ELSE {}) /\ refusal.by = "framework"
    BY <1>3, <2>1
  <2>. QED
    BY <2>2
<1>4. CASE /\ refusal \in [by : {"framework"}, status : {408}]
           /\ {"timeout", "cooperative timeout"} \cap ToSet(Wrappers(op)) # {}
  <2>1. op.timeout
    BY <1>4, WrappersAre, Zenon
  <2>2. refusal.status \in (IF op.timeout THEN {408} ELSE {}) /\ refusal.by = "framework"
    BY <1>4, <2>1
  <2>. QED
    BY <2>2
<1>5. ASSUME NEW error \in HandlerErrors,
             refusal = [by |-> error.kind, status |-> WriteError(error)]
      PROVE  /\ refusal.by \in {"error", "validation", "deadline", "other"}
             /\ refusal.by = "deadline" => refusal.status = 408
             /\ refusal.by = "validation" => refusal.status = 422
             /\ refusal.by = "other" => refusal.status = 500
  <2>1. error.kind \in {"error", "validation", "deadline", "other"}
    BY <1>5 DEF HandlerErrors
  <2>2. refusal.by = error.kind /\ refusal.status = WriteError(error)
    BY <1>5
  <2>. QED
    BY <2>1, <2>2 DEF WriteError
<1>6. CASE refusal \in {[by |-> error.kind, status |-> WriteError(error)] : error \in HandlerErrors}
  <2>1. PICK error \in HandlerErrors : refusal = [by |-> error.kind, status |-> WriteError(error)]
    BY <1>6, Zenon
  <2>2. /\ refusal.by \in {"error", "validation", "deadline", "other"}
        /\ refusal.by = "deadline" => refusal.status = 408
        /\ refusal.by = "validation" => refusal.status = 422
        /\ refusal.by = "other" => refusal.status = 500
    BY <1>5, <2>1
  <2>. QED
    BY <2>2
<1>. QED
  BY <1>1, <1>2, <1>3, <1>4, <1>6, ZenonT(60) DEF Refusals

\* A refusal of the framework is in the document by its status, or a fault of the
\* request; one of the program's own adds no header that is not.
LEMMA RefusalKeepsTheContract ==
  ASSUME ContractInv, Refuse
  PROVE  ContractInv'
<1>1. contract' = contract /\ phase' = "answered" /\ Declares(contract)
  BY DEF Refuse, ContractInv
<1>2. PICK refusal \in Refusals(contract) :
        answer' = [by |-> refusal.by, status |-> refusal.status, content |-> Failure,
                   headers |-> IF refusal.by = "guard" THEN {}
                               ELSE AnsweredHeaders(contract, [status |-> refusal.status, content |-> Failure])]
  BY Zenon DEF Refuse
<1>3. answer'.by = refusal.by /\ answer'.status = refusal.status
  BY <1>2
<1>4. answer'.headers \subseteq DocumentedHeaders(contract)
  <2>1. answer'.headers = {} \/ answer'.headers
          = AnsweredHeaders(contract, [status |-> refusal.status, content |-> Failure])
    BY <1>2
  <2>. QED
    BY <2>1, HeadersAreDocumented
<1>5. answer'.by # "output"
  BY <1>3, RefusalsAre
<1>6. CASE refusal.by \in {"guard", "error"} \/ (refusal.by = "deadline" /\ ~contract.timeout)
  <2>1. OwnStatus'
    BY <1>1, <1>3, <1>6 DEF OwnStatus
  <2>. QED
    BY <1>1, <1>4, <1>5, <2>1 DEF AnswersAsDocumented, ContractInv, Declares
<1>7. CASE refusal.status \in {400, 413}
  <2>1. answer'.status \in {r.status : r \in DocumentedResponses(contract)} \cup {204, 400, 413}
    BY <1>3, <1>7
  <2>. QED
    BY <1>1, <1>4, <1>5, <2>1 DEF AnswersAsDocumented, ContractInv, Declares
<1>8. CASE refusal.status \in {422, 500} \cup (IF contract.timeout THEN {408} ELSE {})
                                \cup (IF contract.rateLimit THEN {429} ELSE {})
  <2>1. refusal.status \in Standard(contract)
    BY <1>8 DEF Standard
  <2>2. PICK r \in DocumentedResponses(contract) : r.status = refusal.status
    BY <1>1, <2>1, StatusesAreDocumented
  <2>3. answer'.status \in {r2.status : r2 \in DocumentedResponses(contract)} \cup {204, 400, 413}
    BY <1>3, <2>2
  <2>. QED
    BY <1>1, <1>4, <1>5, <2>3 DEF AnswersAsDocumented, ContractInv, Declares
<1>. QED
  BY <1>6, <1>7, <1>8, RefusalsAre

\* Whatever the handler, the options, however many, and their order, what the framework
\* makes of a request is in the document of the operation: successes, and the refusals
\* whose status is not the choice of a guard, of an *Error, or of a deadline without
\* Timeout. A header that an answer has is documented in any case.
THEOREM OperationsAnswerAsDocumented == ContractSpec => []AnswersAsDocumented
<1>1. ContractInv /\ [ContractNext]_contractVars => ContractInv'
  <2>. SUFFICES ASSUME ContractInv, [ContractNext]_contractVars PROVE ContractInv'
    OBVIOUS
  <2>1. CASE ContractNext
    BY <2>1, BuildingKeepsTheContract, SuccessKeepsTheContract, RefusalKeepsTheContract
       DEF ContractNext
  <2>2. CASE UNCHANGED contractVars
    BY <2>2 DEF contractVars, ContractInv, AnswersAsDocumented, OwnStatus, Declares
  <2>. QED
    BY <2>1, <2>2
<1>2. ContractInv => AnswersAsDocumented
  BY DEF ContractInv
<1>. QED
  BY <1>1, <1>2, ContractStarts, PTL DEF ContractSpec
=============================================================================
