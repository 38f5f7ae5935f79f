------------------------------ MODULE Exchange ------------------------------
(***************************************************************************)
(* One call from end to end: a sender, the wire, the router, the stages of *)
(* a generated handler around the service method, and back.  The sender is *)
(* the generated client over an HTTPClient, which may send a request again *)
(* while the server still works on the last attempt, or anything else that *)
(* speaks HTTP.  Calls share nothing in this layer, so one is enough.      *)
(***************************************************************************)
EXTENDS Integers, FiniteSets

CONSTANT MaxAttempts      \* one more than the retry policy's backoffs

ASSUME ExchangeAssumption == MaxAttempts \in Nat \ {0}

VARIABLES
  call,             \* the sender's side
  request,          \* what it sends
  exchange          \* the server's side of each attempt

vars == <<call, request, exchange>>

None == "none"
Attempts == 1 .. MaxAttempts

(***************************************************************************)
(* Requests, down to what the server tells apart.  PUT stands for every    *)
(* method without an operation, "form" is the body of a registration and   *)
(* "params" the segments of a tap link.                                    *)
(***************************************************************************)
Operations == {"getHealthz", "register", "tap", "tapConfirm"}

Request ==
  [ method : {"GET", "POST", "OPTIONS", "PUT"},
    path   : {"healthz", "register", "link", "metrics", "elsewhere"},
    token  : {"right", "wrong", None},
    form   : {"decodable", "undecodable", "otherType"},
    params : {"valid", "invalid"} ]

(***************************************************************************)
(* What service methods answer.  "failed" is a Go error.                   *)
(***************************************************************************)
RegisterAnswers == {"Registration", "RegisterBadRequest", "RegisterConflict",
                    "failed"}
TapAnswers == {"TapOK", "TapNotFound", "TapGone", "TapBadGateway"}
TapConfirmAnswers == {"TapConfirmOK", "TapConfirmNotFound", "TapConfirmGone"}
HealthAnswers == {"Health"}

Answers ==
  RegisterAnswers \cup TapAnswers \cup TapConfirmAnswers \cup HealthAnswers

\* An answer on the wire.  A body with shape "Error" has the message that
\* the schema requires; "foreign" is the JSON of the library's own handler.
Response ==
  [ status : {200, 204, 400, 401, 404, 405, 409, 410, 415, 500, 502},
    type   : {"json", "html", "text", None},
    shape  : {"Health", "Registration", "Error", "foreign", "page", "text",
              None},
    by     : {"operation", "NewError", "ErrorHandler", "router"} ]

NoResponse == [status |-> 200, type |-> None, shape |-> None, by |-> "router"]

Label == [operation : Operations, method : {"GET", "POST", "OPTIONS", "PUT"},
          status : {200, 500}]

NoLabel == [operation |-> None, method |-> None, status |-> 0]

ServerSide ==
  [ stage    : {"unsent", "arriving", "security", "decoding", "running",
                "encoding", "answered"},
    operation: Operations \cup {None},    \* the route
    ran      : BOOLEAN,                   \* history: the service method ran
    answer   : Answers \cup {None},
    measured : Label \cup {NoLabel},
    response : Response ]

NotSent ==
  [ stage |-> "unsent", operation |-> None, ran |-> FALSE, answer |-> None,
    measured |-> NoLabel, response |-> NoResponse ]

\* What a call to the generated client may return besides an answer: the
\* default response as an error, a response it cannot decode ("decode
\* response"), no response.
Results ==
  (Answers \ {"failed"}) \cup
    {"RegisterUnauthorized", "ErrorStatusCode", "undecodable", "noResponse",
     "notSent", "raw", None}

CallState ==
  [ phase     : {"idle", "sent", "done"},
    operation : Operations \cup {None},   \* None: not the generated client
    attempt   : Attempts,
    cut       : BOOLEAN,       \* history: the answer broke off in its body
    result    : Results ]

Init ==
  /\ call = [phase |-> "idle", operation |-> None, attempt |-> 1,
             cut |-> FALSE, result |-> None]
  /\ request = [method |-> "GET", path |-> "healthz", token |-> None,
                form |-> "undecodable", params |-> "invalid"]
  /\ exchange = [i \in Attempts |-> NotSent]

-----------------------------------------------------------------------------
(***************************************************************************)
(* The server.  Each attempt that arrives has a goroutine, which goes on   *)
(* when the sender has given up.                                           *)
(***************************************************************************)
Becomes(i, x) ==
  /\ exchange' = [exchange EXCEPT ![i] = x]
  /\ UNCHANGED <<call, request>>

\* Attempt i is at a stage of the handler of operation o.
At(i, stage, o) == exchange[i].stage = stage /\ exchange[i].operation = o

Passed(x, stage) == [x EXCEPT !.stage = stage]
Answered(x, r) == [x EXCEPT !.stage = "answered", !.response = r]

\* External: the status of a kind of error, in the library's ErrorCode.
ErrorCode(kind) ==
  CASE kind = "unauthorized" -> 401
    [] kind = "undecodable" -> 400
    [] kind = "contentType" -> 415
    [] kind = "internal" -> 500

NewError(kind) ==
  [status |-> ErrorCode(kind), type |-> "json", shape |-> "Error",
   by |-> "NewError"]

\* External: the default of the configuration's ErrorHandler.
ErrorHandler(kind) ==
  [status |-> ErrorCode(kind), type |-> "json", shape |-> "foreign",
   by |-> "ErrorHandler"]

\* Mutant: the method is looked at for registrations only.
MutantRoutesAnyMethod(r) ==
  CASE r.path = "healthz" -> "getHealthz"
    [] r.path = "register" /\ r.method = "POST" -> "register"
    [] r.path = "link" /\ r.method = "GET" -> "tapConfirm"
    [] r.path = "link" /\ r.method # "GET" -> "tap"
    [] OTHER -> None

\* The operation whose path and method a request has.
RouteOf(r) ==
  CASE r.path = "healthz" /\ r.method = "GET" -> "getHealthz"
    [] r.path = "register" /\ r.method = "POST" -> "register"
    [] r.path = "link" /\ r.method = "GET" -> "tapConfirm"
    [] r.path = "link" /\ r.method = "POST" -> "tap"
    [] OTHER -> None

\* A known path with another method.
NotAllowed(r) ==
  [status |-> IF r.method = "OPTIONS" THEN 204 ELSE 405,
   type |-> None, shape |-> None, by |-> "router"]

\* The mux sends /metrics elsewhere; the router does not know the rest.
Unrouted(r) ==
  CASE r.path = "metrics" ->
         [status |-> 200, type |-> "text", shape |-> "text", by |-> "router"]
    [] r.path = "elsewhere" ->
         [status |-> 404, type |-> "text", shape |-> "text", by |-> "router"]
    [] OTHER -> NotAllowed(r)

FirstStage(o) ==
  CASE o = "getHealthz" -> "running"
    [] o = "register" -> "security"
    [] OTHER -> "decoding"

Route(i) ==
  LET o == RouteOf(request) IN
  /\ exchange[i].stage = "arriving"
  /\ \/ /\ o = None
        /\ Becomes(i, Answered(exchange[i], Unrouted(request)))
     \/ /\ o # None
        /\ Becomes(i, [exchange[i] EXCEPT
                         !.operation = o, !.stage = FirstStage(o)])

\* HandleRegisterToken accepts it.
HandleRegisterToken(token) == token = "right"

\* Mutant: the requirement is not checked, only a token that is there.
MutantSecurityWhenPresent(token) ==
  token # None => HandleRegisterToken(token)

\* The header is there and its token accepted.
SecurityRegisterToken(token) == token # None /\ HandleRegisterToken(token)

SecureRegister(i) ==
  /\ At(i, "security", "register")
  /\ Becomes(i,
       IF SecurityRegisterToken(request.token)
       THEN Passed(exchange[i], "decoding")
       ELSE Answered(exchange[i], NewError("unauthorized")))

\* What decodeRegisterRequest says of the body.
DecodeRegisterRequest(form) ==
  CASE form = "decodable" -> "ok"
    [] form = "undecodable" -> "undecodable"
    [] form = "otherType" -> "contentType"

DecodeRegister(i) ==
  LET decoded == DecodeRegisterRequest(request.form) IN
  /\ At(i, "decoding", "register")
  /\ Becomes(i,
       IF decoded = "ok" THEN Passed(exchange[i], "running")
       ELSE Answered(exchange[i], ErrorHandler(decoded)))

\* What decodeTapParams and decodeTapConfirmParams say of the link.
DecodeTapParams(params) == params = "valid"
DecodeTapConfirmParams(params) == params = "valid"

DecodeTap(i) ==
  /\ At(i, "decoding", "tap")
  /\ Becomes(i,
       IF DecodeTapParams(request.params) THEN Passed(exchange[i], "running")
       ELSE Answered(exchange[i], ErrorHandler("undecodable")))

DecodeTapConfirm(i) ==
  /\ At(i, "decoding", "tapConfirm")
  /\ Becomes(i,
       IF DecodeTapConfirmParams(request.params)
       THEN Passed(exchange[i], "running")
       ELSE Answered(exchange[i], ErrorHandler("undecodable")))

\* What observe counts for an operation with this answer.
Observe(o, answer) ==
  IF o = "getHealthz" THEN NoLabel
  ELSE [operation |-> o, method |-> request.method,
        status |-> IF answer = "failed" THEN 500 ELSE 200]

\* The service method runs and returns a, under the middleware.
Runs(i, o, a) ==
  /\ At(i, "running", o)
  /\ Becomes(i, [exchange[i] EXCEPT
       !.stage = "encoding", !.ran = TRUE, !.answer = a,
       !.measured = Observe(o, a)])

Register(i)   == \E a \in RegisterAnswers : Runs(i, "register", a)
Tap(i)        == \E a \in TapAnswers : Runs(i, "tap", a)
TapConfirm(i) == \E a \in TapConfirmAnswers : Runs(i, "tapConfirm", a)
GetHealthz(i) == \E a \in HealthAnswers : Runs(i, "getHealthz", a)

EncodeRegisterResponse(a) ==
  [status |-> CASE a = "Registration" -> 200
                [] a = "RegisterBadRequest" -> 400
                [] a = "RegisterConflict" -> 409,
   type   |-> "json",
   shape  |-> IF a = "Registration" THEN "Registration" ELSE "Error",
   by     |-> "operation"]

\* Mutant: a failed publish is answered like an expired link.
MutantEncodeBadGatewayAsGone(a) ==
  [status |-> CASE a = "TapOK" -> 200
                [] a = "TapNotFound" -> 404
                [] a \in {"TapGone", "TapBadGateway"} -> 410,
   type |-> "html", shape |-> "page", by |-> "operation"]

EncodeTapResponse(a) ==
  [status |-> CASE a = "TapOK" -> 200
                [] a = "TapNotFound" -> 404
                [] a = "TapGone" -> 410
                [] a = "TapBadGateway" -> 502,
   type |-> "html", shape |-> "page", by |-> "operation"]

EncodeTapConfirmResponse(a) ==
  [status |-> CASE a = "TapConfirmOK" -> 200
                [] a = "TapConfirmNotFound" -> 404
                [] a = "TapConfirmGone" -> 410,
   type |-> "html", shape |-> "page", by |-> "operation"]

EncodeGetHealthzResponse(a) ==
  [status |-> 200, type |-> "json", shape |-> "Health", by |-> "operation"]

\* The generated handlers' last stage.
Encoded(o, a) ==
  IF a = "failed" THEN NewError("internal")
  ELSE CASE o = "register" -> EncodeRegisterResponse(a)
         [] o = "tap" -> EncodeTapResponse(a)
         [] o = "tapConfirm" -> EncodeTapConfirmResponse(a)
         [] o = "getHealthz" -> EncodeGetHealthzResponse(a)

Encode(i) ==
  LET x == exchange[i] IN
  /\ x.stage = "encoding"
  /\ Becomes(i, Answered(x, Encoded(x.operation, x.answer)))

-----------------------------------------------------------------------------
(***************************************************************************)
(* The sender.                                                             *)
(***************************************************************************)
Sends(o, r) ==
  /\ call.phase = "idle"
  /\ call' = [call EXCEPT !.phase = "sent", !.operation = o]
  /\ request' = r
  /\ exchange' = [exchange EXCEPT ![1].stage = "arriving"]

\* Requests of the generated client.  It does not validate what it sends.
SendRegister ==
  \E token \in {"right", "wrong"}, form \in {"decodable", "undecodable"} :
    Sends("register", [method |-> "POST", path |-> "register",
                       token |-> token, form |-> form, params |-> "invalid"])

\* The source of tokens fails or has none.
RegisterNotSent ==
  /\ call.phase = "idle"
  /\ call' = [call EXCEPT
       !.phase = "done", !.operation = "register", !.result = "notSent"]
  /\ UNCHANGED <<request, exchange>>

Link(method, params) ==
  [method |-> method, path |-> "link", token |-> None,
   form |-> "undecodable", params |-> params]

SendTap ==
  \E params \in {"valid", "invalid"} : Sends("tap", Link("POST", params))

SendTapConfirm ==
  \E params \in {"valid", "invalid"} : Sends("tapConfirm", Link("GET", params))

SendGetHealthz ==
  Sends("getHealthz",
        [method |-> "GET", path |-> "healthz", token |-> None,
         form |-> "undecodable", params |-> "invalid"])

\* External: curl, a browser, a link preview, a probe.
SendOther == \E r \in Request : Sends(None, r)

\* Mutant: a request is sent again whatever its method.
MutantRepeatsPosts ==
  call.operation # None /\ call.attempt < MaxAttempts

\* Mutant: the number of attempts is not bounded.
MutantRepeatsForEver ==
  call.operation # None /\ request.method \in {"GET", "OPTIONS", "PUT"}

\* Do makes another attempt if this one failed.
RepeatsFailures ==
  /\ call.operation # None
  /\ call.attempt < MaxAttempts
  /\ request.method \in {"GET", "OPTIONS", "PUT"}

\* The response is one that the retry policies count as a failure.
FailureStatus(r) == r.status = 429 \/ r.status >= 500

\* The attempt failed: no answer came, or one that asks for another.
Repeat ==
  /\ call.phase = "sent"
  /\ RepeatsFailures
  /\ call' = [call EXCEPT !.attempt = @ + 1]
  /\ exchange' = [exchange EXCEPT ![call.attempt + 1].stage = "arriving"]
  /\ UNCHANGED request

\* The last attempt failed without an answer, at any stage of the server.
Fail ==
  /\ call.phase = "sent"
  /\ ~ RepeatsFailures
  /\ call' = [call EXCEPT !.phase = "done", !.result = "noResponse"]
  /\ UNCHANGED <<request, exchange>>

\* The header came and the body broke off: the client's timeout covers the
\* body too, and the connection may be reset in it.  Do has returned by then,
\* so this is no failure that another attempt is made for.
CutShort(r) == [r EXCEPT !.shape = "cut"]

\* io.ReadAll of the body.
ReadsAll(r) == r.shape # "cut"

\* The body is JSON of the schema, with everything it requires.
IsError(r) == r.type = "json" /\ ReadsAll(r) /\ r.shape = "Error"
IsRegistration(r) ==
  r.type = "json" /\ ReadsAll(r) /\ r.shape = "Registration"
IsHealth(r) == r.type = "json" /\ ReadsAll(r) /\ r.shape = "Health"

DecodedError(r) == IF IsError(r) THEN "ErrorStatusCode" ELSE "undecodable"

DecodeRegisterResponse(r) ==
  CASE r.status = 200 ->
         IF IsRegistration(r) THEN "Registration" ELSE "undecodable"
    [] r.status \in {400, 401, 409} ->
         IF IsError(r)
         THEN CASE r.status = 400 -> "RegisterBadRequest"
                [] r.status = 401 -> "RegisterUnauthorized"
                [] r.status = 409 -> "RegisterConflict"
         ELSE "undecodable"
    [] OTHER -> DecodedError(r)

DecodeTapResponse(r) ==
  IF r.status \in {200, 404, 410, 502}
  THEN IF r.type = "html" /\ ReadsAll(r)
       THEN CASE r.status = 200 -> "TapOK"
              [] r.status = 404 -> "TapNotFound"
              [] r.status = 410 -> "TapGone"
              [] r.status = 502 -> "TapBadGateway"
       ELSE "undecodable"
  ELSE DecodedError(r)

DecodeTapConfirmResponse(r) ==
  IF r.status \in {200, 404, 410}
  THEN IF r.type = "html" /\ ReadsAll(r)
       THEN CASE r.status = 200 -> "TapConfirmOK"
              [] r.status = 404 -> "TapConfirmNotFound"
              [] r.status = 410 -> "TapConfirmGone"
       ELSE "undecodable"
  ELSE DecodedError(r)

DecodeGetHealthzResponse(r) ==
  IF r.status = 200
  THEN IF IsHealth(r) THEN "Health" ELSE "undecodable"
  ELSE DecodedError(r)

Decoded(o, r) ==
  CASE o = "register" -> DecodeRegisterResponse(r)
    [] o = "tap" -> DecodeTapResponse(r)
    [] o = "tapConfirm" -> DecodeTapConfirmResponse(r)
    [] o = "getHealthz" -> DecodeGetHealthzResponse(r)
    [] OTHER -> "raw"

\* The answer to the attempt the sender waits for, whole or cut.
Receives(cut) ==
  LET r == exchange[call.attempt].response IN
  /\ call.phase = "sent"
  /\ exchange[call.attempt].stage = "answered"
  /\ ~ (RepeatsFailures /\ FailureStatus(r))
  /\ call' = [call EXCEPT
       !.phase = "done", !.cut = cut,
       !.result = Decoded(call.operation, IF cut THEN CutShort(r) ELSE r)]
  /\ UNCHANGED <<request, exchange>>

Receive == \E cut \in BOOLEAN : Receives(cut)

-----------------------------------------------------------------------------
Serve(i) ==
  \/ Route(i)
  \/ SecureRegister(i)
  \/ DecodeRegister(i) \/ DecodeTap(i) \/ DecodeTapConfirm(i)
  \/ Register(i) \/ Tap(i) \/ TapConfirm(i) \/ GetHealthz(i)
  \/ Encode(i)

Send ==
  \/ SendRegister \/ RegisterNotSent
  \/ SendTap \/ SendTapConfirm \/ SendGetHealthz
  \/ SendOther

Next ==
  \/ Send \/ Repeat \/ Fail \/ Receive
  \/ \E i \in Attempts : Serve(i)

Spec == Init /\ [][Next]_vars

-----------------------------------------------------------------------------
TypeOK ==
  /\ call \in CallState
  /\ request \in Request
  /\ exchange \in [Attempts -> ServerSide]

\* A service method runs for a request that asked for it with the method of
\* the specification, was decoded, and for a registration had the token:
\* no GET decides, and nothing is registered without the secret.
Entitled(o) ==
  CASE o = "register" ->
         request.method = "POST" /\ request.token = "right"
           /\ request.form = "decodable"
    [] o = "tap" -> request.method = "POST" /\ request.params = "valid"
    [] o = "tapConfirm" -> request.method = "GET" /\ request.params = "valid"
    [] o = "getHealthz" -> request.method = "GET"

ChecksFirst ==
  \A i \in Attempts : exchange[i].ran => Entitled(exchange[i].operation)

\* A call to the generated client ends in what the operation answered to
\* the attempt it waited for: every documented answer that comes whole
\* survives both encodings, an error with a status is an operation that
\* failed, and a registration told to be unauthorized did not run.  That an
\* answer cannot be decoded says nothing of the kind: a refusal while decoding
\* ends so, and so does an operation that ran and whose answer was cut.
HearsTheAnswer ==
  LET x == exchange[call.attempt] IN
  call.phase = "done" /\ call.operation # None =>
    /\ call.result \in Answers =>
         x.ran /\ x.answer = call.result /\ x.operation = call.operation
    /\ call.result = "ErrorStatusCode" => x.ran /\ x.answer = "failed"
    /\ call.result = "RegisterUnauthorized" => ~ x.ran
    /\ call.result = "undecodable" => ~ x.ran \/ call.cut

\* Every run but a probe's is counted, under its own operation and with no
\* method but those of the specification, so callers cannot add labels; and
\* nothing else is counted.
MeasuredAsRun ==
  \A i \in Attempts :
    LET x == exchange[i] IN
    IF x.ran /\ x.operation # "getHealthz"
    THEN /\ x.measured.operation = x.operation
         /\ x.measured.method = (IF x.operation = "tapConfirm"
                                 THEN "GET" ELSE "POST")
    ELSE x.measured = NoLabel

-----------------------------------------------------------------------------
(***************************************************************************)
(* The call as its caller may understand it.                               *)
(***************************************************************************)
AnswersOf(o) ==
  CASE o = "register" -> RegisterAnswers
    [] o = "tap" -> TapAnswers
    [] o = "tapConfirm" -> TapConfirmAnswers
    [] o = "getHealthz" -> HealthAnswers

Sent == exchange[1].stage # "unsent"

\* What the caller meant: the method of the client it called, or what the
\* request says where there is none.
Asked == IF call.operation # None THEN call.operation ELSE RouteOf(request)

Granted == Asked # None /\ Entitled(Asked)

Standing ==
  IF ~ Sent THEN "unasked" ELSE IF Granted THEN "granted" ELSE "refused"

AskedFor == IF Sent THEN Asked ELSE None

Given == [i \in Attempts |-> exchange[i].answer]

\* What a result means.  The error of a refusal that is not the documented
\* one is the error of an answer that was cut, so it means nothing; responses
\* to other senders are not interpreted.
Told ==
  CASE call.result = "ErrorStatusCode" -> "failed"
    [] call.result = "RegisterUnauthorized" -> "refused"
    [] call.result \in {"undecodable", "noResponse", "raw"} -> "unknown"
    [] call.result = "notSent" -> "notAsked"
    [] OTHER -> call.result

Promise == INSTANCE OneCall WITH
  Changing  <- {"register", "tap"},
  Replies   <- [o \in Operations |-> AnswersOf(o)],
  standing  <- Standing,
  operation <- AskedFor,
  answer    <- Given,
  told      <- Told

\* However its attempts overlap and answers are lost or cut, a call keeps the
\* promise: what is told to be refused has not run and will not, in any
\* attempt, and what changes something runs once, even after the caller has
\* given up.
ImplementsOneCall == Promise!Spec
=============================================================================
