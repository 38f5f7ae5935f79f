--------------------------- MODULE ExchangeProofs ---------------------------
(***************************************************************************)
(* The properties of one call for every number of attempts the client may  *)
(* make, every request and every moment at which it gives up.              *)
(***************************************************************************)
EXTENDS Exchange, TLAPS

-----------------------------------------------------------------------------
(***************************************************************************)
(* Encoding and decoding.                                                  *)
(***************************************************************************)
\* The client decodes every answer of an operation to that answer.
LEMMA AnswersSurvive ==
  ASSUME NEW o \in Operations, NEW a \in AnswersOf(o), a # "failed"
  PROVE  Decoded(o, Encoded(o, a)) = a
<1>1. CASE o = "register"
  BY <1>1 DEF AnswersOf, RegisterAnswers, Decoded, DecodeRegisterResponse,
     DecodedError, IsError, IsRegistration, IsHealth, ReadsAll,
     Encoded, EncodeRegisterResponse
<1>2. CASE o = "tap"
  BY <1>2 DEF AnswersOf, TapAnswers, Decoded, DecodeTapResponse,
     DecodedError, IsError, IsRegistration, IsHealth, ReadsAll,
     Encoded, EncodeTapResponse
<1>3. CASE o = "tapConfirm"
  BY <1>3 DEF AnswersOf, TapConfirmAnswers, Decoded,
     DecodeTapConfirmResponse, DecodedError, IsError, IsRegistration, IsHealth, ReadsAll,
     Encoded,
     EncodeTapConfirmResponse
<1>4. CASE o = "getHealthz"
  BY <1>4 DEF AnswersOf, HealthAnswers, Decoded, DecodeGetHealthzResponse,
     DecodedError, IsError, IsRegistration, IsHealth, ReadsAll,
     Encoded, EncodeGetHealthzResponse
<1> QED
  BY <1>1, <1>2, <1>3, <1>4 DEF Operations

\* A failed operation becomes an error with a status.
LEMMA FailuresSurvive ==
  ASSUME NEW o \in Operations
  PROVE  Decoded(o, Encoded(o, "failed")) = "ErrorStatusCode"
BY DEF Operations, Decoded, DecodeRegisterResponse, DecodeTapResponse,
   DecodeTapConfirmResponse, DecodeGetHealthzResponse, DecodedError,
   IsError, IsRegistration, IsHealth, ReadsAll, Encoded,
   NewError, ErrorCode

\* The client can decode the refusal of a token and no other.
LEMMA RefusalsDecoded ==
  ASSUME NEW o \in Operations
  PROVE  /\ Decoded("register", NewError("unauthorized"))
              = "RegisterUnauthorized"
         /\ \A kind \in {"undecodable", "contentType"} :
              Decoded(o, ErrorHandler(kind)) = "undecodable"
BY DEF Operations, Decoded, DecodeRegisterResponse, DecodeTapResponse,
   DecodeTapConfirmResponse, DecodeGetHealthzResponse, DecodedError,
   IsError, IsRegistration, IsHealth, ReadsAll, NewError, ErrorHandler,
   ErrorCode

\* An answer that is cut is an error of the decoder, whatever it was.
LEMMA CutUndecoded ==
  ASSUME NEW o \in Operations, NEW r \in Response
  PROVE  Decoded(o, CutShort(r)) = "undecodable"
<1> DEFINE c == CutShort(r)
<1>1. ~ ReadsAll(c)
  BY DEF CutShort, ReadsAll, Response
<1> HIDE DEF c
<1>2. ~ IsError(c) /\ ~ IsRegistration(c) /\ ~ IsHealth(c)
  BY <1>1 DEF IsError, IsRegistration, IsHealth
<1>3. Decoded(o, c) = "undecodable"
  BY <1>1, <1>2 DEF Operations, Decoded, DecodeRegisterResponse,
     DecodeTapResponse, DecodeTapConfirmResponse, DecodeGetHealthzResponse,
     DecodedError
<1> QED
  BY <1>3 DEF c

LEMMA ResponsesTyped ==
  /\ \A o \in Operations : \A a \in AnswersOf(o) : Encoded(o, a) \in Response
  /\ NewError("unauthorized") \in Response
  /\ \A kind \in {"undecodable", "contentType"} :
       ErrorHandler(kind) \in Response
  /\ \A r \in Request : Unrouted(r) \in Response
<1>1. ASSUME NEW a \in RegisterAnswers
      PROVE  Encoded("register", a) \in Response
  BY DEF RegisterAnswers, Encoded, EncodeRegisterResponse, NewError, ErrorCode,
     Response, None
<1>2. ASSUME NEW a \in TapAnswers PROVE Encoded("tap", a) \in Response
  BY DEF TapAnswers, Encoded, EncodeTapResponse, Response, None
<1>3. ASSUME NEW a \in TapConfirmAnswers
      PROVE  Encoded("tapConfirm", a) \in Response
  BY DEF TapConfirmAnswers, Encoded, EncodeTapConfirmResponse, Response, None
<1>4. ASSUME NEW a \in HealthAnswers
      PROVE  Encoded("getHealthz", a) \in Response
  BY DEF HealthAnswers, Encoded, EncodeGetHealthzResponse, Response, None
<1>5. \A o \in Operations : \A a \in AnswersOf(o) : Encoded(o, a) \in Response
  BY <1>1, <1>2, <1>3, <1>4 DEF Operations, AnswersOf
<1>6. NewError("unauthorized") \in Response
  BY DEF NewError, ErrorCode, Response, None
<1>7. \A kind \in {"undecodable", "contentType"} :
        ErrorHandler(kind) \in Response
  BY DEF ErrorHandler, ErrorCode, Response, None
<1>8. \A r \in Request : Unrouted(r) \in Response
  BY DEF Unrouted, NotAllowed, Response, None
<1> QED
  BY <1>5, <1>6, <1>7, <1>8

-----------------------------------------------------------------------------
(***************************************************************************)
(* The inductive invariant: what the server's side of an attempt has been  *)
(* through is what its stage says, and the sender makes its attempts in    *)
(* order.                                                                  *)
(***************************************************************************)
Routed(x) ==
  /\ x.operation # None => x.operation = RouteOf(request)
  /\ x.stage \in {"unsent", "arriving"} => x.operation = None
  /\ x.stage \in {"security", "decoding", "running", "encoding"} =>
       x.operation \in Operations
  /\ x.stage = "answered" /\ x.operation = None => RouteOf(request) = None

Checked(x) ==
  /\ x.stage = "decoding" /\ x.operation = "register" =>
       request.token = "right"
  /\ x.stage = "running" => Entitled(x.operation)
  /\ x.ran => x.operation \in Operations /\ Entitled(x.operation)
  /\ x.stage \in {"unsent", "arriving", "security", "decoding", "running"} =>
       ~ x.ran
  /\ x.stage = "encoding" => x.ran

Counted(x) ==
  IF x.ran
  THEN x.answer \in AnswersOf(x.operation)
         /\ x.measured = Observe(x.operation, x.answer)
  ELSE x.answer = None /\ x.measured = NoLabel

Refusal(x) ==
  \/ x.operation = "register" /\ x.response = NewError("unauthorized")
  \/ \E kind \in {"undecodable", "contentType"} :
       x.response = ErrorHandler(kind)

Replied(x) ==
  x.stage = "answered" =>
    /\ x.ran => x.response = Encoded(x.operation, x.answer)
    /\ ~ x.ran /\ x.operation # None => Refusal(x)

Sound(x) ==
  /\ x \in ServerSide
  /\ Routed(x)
  /\ Checked(x)
  /\ Counted(x)
  /\ Replied(x)

InOrder ==
  /\ call.phase = "idle" =>
       call.attempt = 1 /\ call.operation = None /\ call.result = None
  /\ \A i \in Attempts :
       (call.phase = "idle" \/ i > call.attempt) => exchange[i] = NotSent
  /\ request.method = "POST" => call.attempt = 1
  /\ call.phase = "sent" /\ call.operation # None =>
       RouteOf(request) = call.operation

\* A call that ended in a response ended in the last word on its attempt.
EndsAnswered ==
  call.phase = "done" /\ call.operation # None
    /\ call.result \notin {"noResponse", "notSent"} =>
      exchange[call.attempt].stage = "answered"

AllSound == \A i \in Attempts : Sound(exchange[i])

ExchangeInv ==
  /\ TypeOK
  /\ AllSound
  /\ InOrder
  /\ EndsAnswered
  /\ HearsTheAnswer

LEMMA AttemptsOK == MaxAttempts \in Nat \ {0} /\ 1 \in Attempts
BY ExchangeAssumption DEF ExchangeAssumption, Attempts

LEMMA NotSentSound == NotSent \in ServerSide /\ Sound(NotSent)
<1>1. NoResponse \in Response
  BY DEF NoResponse, Response, None
<1>2. NotSent \in ServerSide
  BY <1>1 DEF NotSent, ServerSide, None
<1> QED
  BY <1>2 DEF NotSent, Sound, Routed, Checked, Counted, Replied, None

\* What an attempt has been through depends on the request alone.
LEMMA SoundKept ==
  ASSUME request' = request, NEW j \in Attempts, Sound(exchange'[j])
  PROVE  Sound(exchange[j])'
<1>1. Routed(exchange[j])' /\ Checked(exchange[j])'
  BY DEF Sound, Routed, Checked, Entitled
<1>2. Counted(exchange[j])' /\ Replied(exchange[j])'
  BY DEF Sound, Counted, Observe, Replied, Refusal
<1> QED
  BY <1>1, <1>2 DEF Sound

LEMMA InitExchange == Init => ExchangeInv
<1> SUFFICES ASSUME Init PROVE ExchangeInv
  OBVIOUS
<1>1. call \in CallState /\ request \in Request
  BY AttemptsOK DEF Init, CallState, Request, Results, Answers, None
<1>2. exchange \in [Attempts -> ServerSide]
  BY NotSentSound DEF Init
<1>3. AllSound
  BY NotSentSound DEF Init, AllSound
<1>4. InOrder /\ EndsAnswered /\ HearsTheAnswer
  BY DEF Init, InOrder, EndsAnswered, HearsTheAnswer
<1> QED
  BY <1>1, <1>2, <1>3, <1>4 DEF ExchangeInv, TypeOK

-----------------------------------------------------------------------------
(***************************************************************************)
(* The server's steps.  Each leaves attempt i sound.                       *)
(***************************************************************************)

\* A step of the server changes one attempt, which has arrived and was not
\* answered.
ServerStep(i, x) ==
  /\ exchange[i].stage \notin {"unsent", "answered"}
  /\ Becomes(i, x)

LEMMA RouteSound ==
  ASSUME ExchangeInv, NEW i \in Attempts, Route(i)
  PROVE  \E x : ServerStep(i, x) /\ Sound(x)
<1> DEFINE o == RouteOf(request)
<1>1. Sound(exchange[i]) /\ request \in Request
  BY DEF ExchangeInv, TypeOK, AllSound
<1>2. o \in Operations \cup {None} /\ (o # None => FirstStage(o) \in
        {"running", "security", "decoding"})
  BY DEF RouteOf, Operations, FirstStage
<1>3. CASE o = None
  <2> DEFINE x == Answered(exchange[i], Unrouted(request))
  <2>1. x \in ServerSide
    BY <1>1, ResponsesTyped DEF Sound, Answered, ServerSide
  <2>2. Sound(x)
    BY <1>1, <1>3, <2>1 DEF Route, Sound, Routed, Checked, Counted, Replied,
       Answered, ServerSide
  <2> QED
    BY <1>3, <2>2 DEF Route, ServerStep
<1>4. CASE o # None
  <2> DEFINE x == [exchange[i] EXCEPT
                     !.operation = o, !.stage = FirstStage(o)]
  <2>1. x \in ServerSide
    <3>1. o \in Operations /\ FirstStage(o) \in
            {"running", "security", "decoding"}
      BY <1>2, <1>4
    <3> HIDE DEF o
    <3> QED
      BY <1>1, <3>1 DEF Sound, ServerSide
  <2>2. Routed(x) /\ Counted(x) /\ Replied(x)
    BY <1>1, <1>2, <1>4 DEF Route, Sound, Routed, Checked, Counted, Replied,
       ServerSide
  <2>3. Checked(x)
    BY <1>1, <1>4 DEF Route, Sound, Checked, ServerSide, RouteOf, FirstStage,
       Entitled
  <2> QED
    BY <1>4, <2>1, <2>2, <2>3 DEF Route, ServerStep, Sound
<1> QED
  BY <1>3, <1>4

LEMMA SecureSound ==
  ASSUME ExchangeInv, NEW i \in Attempts, SecureRegister(i)
  PROVE  \E x : ServerStep(i, x) /\ Sound(x)
<1>1. Sound(exchange[i])
  BY DEF ExchangeInv, AllSound
<1>2. CASE SecurityRegisterToken(request.token)
  <2>1. Sound(Passed(exchange[i], "decoding"))
    BY <1>1, <1>2 DEF SecureRegister, At, Passed, Sound, Routed, Checked,
       Counted, Replied, ServerSide, SecurityRegisterToken,
       HandleRegisterToken
  <2> QED
    BY <1>2, <2>1 DEF SecureRegister, At, ServerStep
<1>3. CASE ~ SecurityRegisterToken(request.token)
  <2> DEFINE x == Answered(exchange[i], NewError("unauthorized"))
  <2>1. x \in ServerSide /\ Refusal(x)
    BY <1>1, ResponsesTyped DEF SecureRegister, At, Sound, Answered,
       ServerSide, Refusal
  <2>2. Sound(x)
    BY <1>1, <2>1 DEF SecureRegister, At, Answered, Sound, Routed, Checked,
       Counted, Replied, ServerSide, None
  <2> QED
    BY <1>3, <2>2 DEF SecureRegister, At, ServerStep
<1> QED
  BY <1>2, <1>3

\* An attempt that could not be decoded.
LEMMA UndecodableSound ==
  ASSUME ExchangeInv, NEW i \in Attempts, exchange[i].stage = "decoding",
         NEW kind \in {"undecodable", "contentType"}
  PROVE  Sound(Answered(exchange[i], ErrorHandler(kind)))
<1> DEFINE x == Answered(exchange[i], ErrorHandler(kind))
<1>1. Sound(exchange[i])
  BY DEF ExchangeInv, AllSound
<1>2. x \in ServerSide /\ x.response = ErrorHandler(kind)
  BY <1>1, ResponsesTyped DEF Sound, Answered, ServerSide
<1>3. Refusal(x)
  BY <1>2 DEF Refusal
<1> HIDE DEF x
<1>4. /\ x.stage = "answered" /\ x.operation = exchange[i].operation
      /\ x.ran = exchange[i].ran /\ x.answer = exchange[i].answer
      /\ x.measured = exchange[i].measured
  BY <1>1 DEF x, Sound, Answered, ServerSide
<1>5. x.operation # None
  BY <1>1, <1>4 DEF Sound, Routed, Operations, None
<1>6. Routed(x) /\ Checked(x) /\ Counted(x) /\ Replied(x)
  BY <1>1, <1>3, <1>4, <1>5 DEF Sound, Routed, Checked, Counted, Replied
<1> QED
  BY <1>2, <1>6 DEF Sound, x

\* An attempt that could.
LEMMA DecodedSound ==
  ASSUME ExchangeInv, NEW i \in Attempts, exchange[i].stage = "decoding",
         Entitled(exchange[i].operation)
  PROVE  Sound(Passed(exchange[i], "running"))
BY DEF ExchangeInv, AllSound, Passed, Sound, Routed, Checked, Counted, Replied,
   ServerSide

LEMMA DecodeSound ==
  ASSUME ExchangeInv, NEW i \in Attempts,
         DecodeRegister(i) \/ DecodeTap(i) \/ DecodeTapConfirm(i)
  PROVE  \E x : ServerStep(i, x) /\ Sound(x)
<1>1. /\ Sound(exchange[i]) /\ exchange[i].stage = "decoding"
      /\ request \in Request
  BY DEF ExchangeInv, TypeOK, AllSound, DecodeRegister, DecodeTap,
     DecodeTapConfirm, At
<1>2. CASE DecodeRegister(i)
  <2>1. DecodeRegisterRequest(request.form) \in
          {"ok", "undecodable", "contentType"}
    BY <1>1 DEF DecodeRegisterRequest, Request
  <2>2. CASE DecodeRegisterRequest(request.form) = "ok"
    <3>1. Entitled(exchange[i].operation)
      BY <1>1, <1>2, <2>2 DEF DecodeRegister, At, Sound, Routed, Checked,
         Entitled, RouteOf, DecodeRegisterRequest, Request, None
    <3> QED
      BY <1>1, <1>2, <2>2, <3>1, DecodedSound DEF DecodeRegister, ServerStep
  <2>3. CASE DecodeRegisterRequest(request.form) # "ok"
    BY <1>1, <1>2, <2>1, <2>3, UndecodableSound DEF DecodeRegister, ServerStep
  <2> QED
    BY <2>2, <2>3
<1>3. CASE DecodeTap(i)
  <2>1. CASE DecodeTapParams(request.params)
    <3>1. Entitled(exchange[i].operation)
      BY <1>1, <1>3, <2>1 DEF DecodeTap, At, Sound, Routed, Entitled, RouteOf,
         DecodeTapParams, None
    <3> QED
      BY <1>1, <1>3, <2>1, <3>1, DecodedSound DEF DecodeTap, ServerStep
  <2>2. CASE ~ DecodeTapParams(request.params)
    BY <1>1, <1>3, <2>2, UndecodableSound DEF DecodeTap, ServerStep
  <2> QED
    BY <2>1, <2>2
<1>4. CASE DecodeTapConfirm(i)
  <2>1. CASE DecodeTapConfirmParams(request.params)
    <3>1. Entitled(exchange[i].operation)
      BY <1>1, <1>4, <2>1 DEF DecodeTapConfirm, At, Sound, Routed, Entitled,
         RouteOf, DecodeTapConfirmParams, None
    <3> QED
      BY <1>1, <1>4, <2>1, <3>1, DecodedSound DEF DecodeTapConfirm, ServerStep
  <2>2. CASE ~ DecodeTapConfirmParams(request.params)
    BY <1>1, <1>4, <2>2, UndecodableSound DEF DecodeTapConfirm, ServerStep
  <2> QED
    BY <2>1, <2>2
<1> QED
  BY <1>2, <1>3, <1>4

LEMMA RunSound ==
  ASSUME ExchangeInv, NEW i \in Attempts,
         Register(i) \/ Tap(i) \/ TapConfirm(i) \/ GetHealthz(i)
  PROVE  \E x : ServerStep(i, x) /\ Sound(x)
<1>1. PICK o \in Operations : \E a \in AnswersOf(o) : Runs(i, o, a)
  BY DEF Register, Tap, TapConfirm, GetHealthz, Operations, AnswersOf
<1>2. PICK a \in AnswersOf(o) : Runs(i, o, a)
  BY <1>1
<1> DEFINE x == [exchange[i] EXCEPT
                   !.stage = "encoding", !.ran = TRUE, !.answer = a,
                   !.measured = Observe(o, a)]
<1>3. /\ Sound(exchange[i]) /\ request \in Request
      /\ exchange[i].stage = "running" /\ exchange[i].operation = o
  BY <1>2 DEF ExchangeInv, TypeOK, AllSound, Runs, At
<1>4. a \in Answers
  BY <1>2 DEF AnswersOf, Answers, Operations
<1>5. Observe(o, a) \in Label \cup {NoLabel}
  BY <1>3 DEF Observe, Label, Request
<1>6. x \in ServerSide
  BY <1>3, <1>4, <1>5 DEF Sound, ServerSide
<1>7. /\ x.stage = "encoding" /\ x.operation = o /\ x.ran = TRUE
      /\ x.answer = a /\ x.measured = Observe(o, a)
  BY <1>3 DEF Sound, ServerSide
<1> HIDE DEF x
<1>8. Sound(x)
  BY <1>3, <1>6, <1>7 DEF Sound, Routed, Checked, Counted, Replied
<1> QED
  BY <1>2, <1>3, <1>8 DEF Runs, ServerStep, x

LEMMA EncodeSound ==
  ASSUME ExchangeInv, NEW i \in Attempts, Encode(i)
  PROVE  \E x : ServerStep(i, x) /\ Sound(x)
<1> DEFINE e == exchange[i]
           x == Answered(e, Encoded(e.operation, e.answer))
<1>1. Sound(e) /\ e.stage = "encoding"
  BY DEF ExchangeInv, AllSound, Encode
<1>2. e.ran /\ e.operation \in Operations /\ e.answer \in AnswersOf(e.operation)
  BY <1>1 DEF Sound, Checked, Counted
<1>3. Encoded(e.operation, e.answer) \in Response
  BY <1>2, ResponsesTyped
<1>4. x \in ServerSide
  BY <1>1, <1>3 DEF Sound, Answered, ServerSide
<1>5. /\ x.stage = "answered" /\ x.operation = e.operation /\ x.ran = e.ran
      /\ x.answer = e.answer /\ x.measured = e.measured
      /\ x.response = Encoded(e.operation, e.answer)
  BY <1>1 DEF Sound, Answered, ServerSide
<1> HIDE DEF x
<1>6. Sound(x)
  BY <1>1, <1>2, <1>4, <1>5 DEF Sound, Routed, Checked, Counted, Replied,
     Operations, None
<1> QED
  BY <1>1, <1>6 DEF Encode, ServerStep, x

LEMMA ServePreserves ==
  ASSUME ExchangeInv, NEW i \in Attempts, Serve(i)
  PROVE  ExchangeInv'
<1>1. PICK x : ServerStep(i, x) /\ Sound(x)
  BY RouteSound, SecureSound, DecodeSound, RunSound, EncodeSound DEF Serve
<1>2. /\ exchange' = [exchange EXCEPT ![i] = x]
      /\ call' = call /\ request' = request
      /\ exchange \in [Attempts -> ServerSide]
  BY <1>1 DEF ServerStep, Becomes, ExchangeInv, TypeOK
<1>3. x \in ServerSide
  BY <1>1 DEF Sound
<1>4. TypeOK'
  BY <1>2, <1>3 DEF ExchangeInv, TypeOK, CallState
<1>5. \A j \in Attempts : exchange'[j] = (IF j = i THEN x ELSE exchange[j])
  BY <1>2
<1>6. AllSound'
  <2>1. \A j \in Attempts : Sound(exchange'[j])
    BY <1>1, <1>5 DEF ExchangeInv, AllSound
  <2> QED
    BY <1>2, <2>1, SoundKept DEF AllSound
<1>7. InOrder'
  <2>1. exchange[i] # NotSent
    BY <1>1 DEF ServerStep, NotSent
  <2>2. call.phase # "idle" /\ ~ (i > call.attempt)
    BY <2>1 DEF ExchangeInv, InOrder
  <2> QED
    BY <1>2, <1>5, <2>2 DEF ExchangeInv, InOrder
<1>8. EndsAnswered' /\ HearsTheAnswer'
  <2>1. call.attempt \in Attempts
    BY DEF ExchangeInv, TypeOK, CallState
  <2>2. exchange[call.attempt].stage = "answered" =>
          exchange'[call.attempt] = exchange[call.attempt]
    BY <1>1, <1>5, <2>1 DEF ServerStep
  <2>3. EndsAnswered'
    BY <1>2, <2>2 DEF ExchangeInv, EndsAnswered
  <2>4. HearsTheAnswer'
    BY <1>2, <2>2 DEF ExchangeInv, EndsAnswered, HearsTheAnswer, Answers,
       RegisterAnswers, TapAnswers, TapConfirmAnswers, HealthAnswers
  <2> QED
    BY <2>3, <2>4
<1> QED
  BY <1>4, <1>6, <1>7, <1>8 DEF ExchangeInv

-----------------------------------------------------------------------------
(***************************************************************************)
(* The sender's steps.                                                     *)
(***************************************************************************)
LEMMA SendsPreserves ==
  ASSUME ExchangeInv, NEW o \in Operations \cup {None}, NEW r \in Request,
         Sends(o, r), o # None => RouteOf(r) = o
  PROVE  ExchangeInv'
<1> DEFINE x == [NotSent EXCEPT !.stage = "arriving"]
<1>1. /\ call.phase = "idle" /\ call.attempt = 1 /\ call.result = None
      /\ call \in CallState /\ exchange = [j \in Attempts |-> NotSent]
  BY DEF ExchangeInv, TypeOK, InOrder, Sends
<1>2. /\ call' = [call EXCEPT !.phase = "sent", !.operation = o]
      /\ request' = r
      /\ exchange' = [exchange EXCEPT ![1] = x]
  BY <1>1, AttemptsOK DEF Sends
<1>3. x \in ServerSide
  BY NotSentSound DEF ServerSide
<1>4. TypeOK'
  BY <1>1, <1>2, <1>3, NotSentSound, AttemptsOK DEF TypeOK, CallState
<1>5. \A j \in Attempts : exchange'[j] = (IF j = 1 THEN x ELSE NotSent)
  BY <1>1, <1>2
<1>6. x.stage = "arriving" /\ x.operation = None /\ x.ran = FALSE
        /\ x.answer = None /\ x.measured = NoLabel
  BY DEF NotSent
<1> HIDE DEF x
<1>7. Sound(x)' /\ Sound(NotSent)'
  BY <1>3, <1>6, NotSentSound DEF Sound, Routed, Checked, Counted, Replied,
     NotSent, None
<1>8. AllSound'
  <2> SUFFICES ASSUME NEW j \in Attempts PROVE Sound(exchange[j])'
    BY DEF AllSound
  <2>1. CASE j = 1
    <3>1. exchange'[j] = x
      BY <1>5, <2>1
    <3> QED
      BY <1>7, <3>1 DEF Sound, Routed, Checked, Counted, Replied, Refusal,
         Entitled, Observe
  <2>2. CASE j # 1
    <3>1. exchange'[j] = NotSent
      BY <1>5, <2>2
    <3> QED
      BY <1>7, <3>1 DEF Sound, Routed, Checked, Counted, Replied, Refusal,
         Entitled, Observe
  <2> QED
    BY <2>1, <2>2
<1>9. call'.phase = "sent" /\ call'.attempt = 1 /\ call'.operation = o
  BY <1>1, <1>2 DEF CallState
<1>10. InOrder'
  BY <1>2, <1>5, <1>9, AttemptsOK DEF InOrder, Attempts
<1>11. EndsAnswered' /\ HearsTheAnswer'
  BY <1>9 DEF EndsAnswered, HearsTheAnswer
<1> QED
  BY <1>4, <1>8, <1>10, <1>11 DEF ExchangeInv

LEMMA SendPreserves ==
  ASSUME ExchangeInv, Send
  PROVE  ExchangeInv'
<1>1. CASE RegisterNotSent
  <2>1. call \in CallState /\ UNCHANGED <<request, exchange>>
    BY <1>1 DEF ExchangeInv, TypeOK, RegisterNotSent
  <2>2. /\ call'.phase = "done" /\ call'.result = "notSent"
        /\ call'.attempt = call.attempt /\ call' \in CallState
    BY <1>1, <2>1 DEF RegisterNotSent, CallState, Operations, Results
  <2>3. TypeOK' /\ AllSound'
    BY <2>1, <2>2 DEF ExchangeInv, TypeOK, AllSound, Sound, Routed, Checked,
       Counted, Replied, Refusal, Entitled, Observe
  <2>4. InOrder' /\ EndsAnswered' /\ HearsTheAnswer'
    BY <1>1, <2>1, <2>2 DEF ExchangeInv, InOrder, EndsAnswered, HearsTheAnswer,
       RegisterNotSent, Answers, RegisterAnswers, TapAnswers,
       TapConfirmAnswers, HealthAnswers
  <2> QED
    BY <2>3, <2>4 DEF ExchangeInv
<1>2. CASE SendRegister
  <2>1. PICK token \in {"right", "wrong"},
             form \in {"decodable", "undecodable"} :
          Sends("register", [method |-> "POST", path |-> "register",
                token |-> token, form |-> form, params |-> "invalid"])
    BY <1>2 DEF SendRegister
  <2> DEFINE r == [method |-> "POST", path |-> "register", token |-> token,
                   form |-> form, params |-> "invalid"]
  <2>2. r \in Request /\ RouteOf(r) = "register" /\ "register" \in Operations
    BY DEF Request, RouteOf, Operations, None
  <2> QED
    BY <2>1, <2>2, SendsPreserves
<1>3. CASE SendTap
  <2>1. PICK params \in {"valid", "invalid"} :
          Sends("tap", Link("POST", params))
    BY <1>3 DEF SendTap
  <2>2. /\ Link("POST", params) \in Request /\ "tap" \in Operations
        /\ RouteOf(Link("POST", params)) = "tap"
    BY DEF Link, Request, RouteOf, Operations, None
  <2> QED
    BY <2>1, <2>2, SendsPreserves
<1>4. CASE SendTapConfirm
  <2>1. PICK params \in {"valid", "invalid"} :
          Sends("tapConfirm", Link("GET", params))
    BY <1>4 DEF SendTapConfirm
  <2>2. /\ Link("GET", params) \in Request /\ "tapConfirm" \in Operations
        /\ RouteOf(Link("GET", params)) = "tapConfirm"
    BY DEF Link, Request, RouteOf, Operations, None
  <2> QED
    BY <2>1, <2>2, SendsPreserves
<1>5. CASE SendGetHealthz
  <2> DEFINE r == [method |-> "GET", path |-> "healthz", token |-> None,
                   form |-> "undecodable", params |-> "invalid"]
  <2>1. /\ r \in Request /\ RouteOf(r) = "getHealthz"
        /\ "getHealthz" \in Operations
    BY DEF Request, RouteOf, Operations, None
  <2> QED
    BY <1>5, <2>1, SendsPreserves DEF SendGetHealthz
<1>6. CASE SendOther
  BY <1>6, SendsPreserves DEF SendOther
<1> QED
  BY <1>1, <1>2, <1>3, <1>4, <1>5, <1>6 DEF Send

LEMMA RepeatPreserves ==
  ASSUME ExchangeInv, Repeat
  PROVE  ExchangeInv'
<1> DEFINE n == call.attempt + 1
           x == [NotSent EXCEPT !.stage = "arriving"]
<1>1. /\ call \in CallState /\ call.phase = "sent"
      /\ exchange \in [Attempts -> ServerSide] /\ request \in Request
      /\ request.method # "POST" /\ request' = request
  BY DEF ExchangeInv, TypeOK, Repeat, RepeatsFailures
<1>2. n \in Attempts /\ exchange[n] = NotSent
  BY <1>1, ExchangeAssumption DEF ExchangeInv, InOrder, Repeat,
     RepeatsFailures, Attempts, CallState, ExchangeAssumption
<1>3. /\ call' = [call EXCEPT !.attempt = n]
      /\ exchange' = [exchange EXCEPT ![n] = x]
  BY <1>1, <1>2 DEF Repeat
<1>4. x \in ServerSide
  BY NotSentSound DEF ServerSide
<1>5. x.stage = "arriving" /\ x.operation = None /\ x.ran = FALSE
        /\ x.answer = None /\ x.measured = NoLabel
  BY DEF NotSent
<1> HIDE DEF x
<1>6. TypeOK'
  BY <1>1, <1>2, <1>3, <1>4 DEF TypeOK, CallState
<1>7. \A j \in Attempts : exchange'[j] = (IF j = n THEN x ELSE exchange[j])
  BY <1>1, <1>3
<1>8. AllSound'
  <2>1. Sound(x)
    BY <1>4, <1>5 DEF Sound, Routed, Checked, Counted, Replied, None
  <2>2. \A j \in Attempts : Sound(exchange'[j])
    BY <1>7, <2>1 DEF ExchangeInv, AllSound
  <2> QED
    BY <1>1, <2>2, SoundKept DEF AllSound
<1>9. /\ call'.phase = "sent" /\ call'.attempt = n
      /\ call'.operation = call.operation
  BY <1>1, <1>3 DEF CallState
<1>10. \A j \in Attempts : j > n => exchange'[j] = NotSent
  BY <1>1, <1>7 DEF ExchangeInv, InOrder, Attempts, CallState
<1>11. InOrder'
  BY <1>1, <1>9, <1>10 DEF ExchangeInv, InOrder
<1>12. EndsAnswered' /\ HearsTheAnswer'
  BY <1>9 DEF EndsAnswered, HearsTheAnswer
<1> QED
  BY <1>6, <1>8, <1>11, <1>12 DEF ExchangeInv

\* The call ends and nothing else changes.
LEMMA EndPreserves ==
  ASSUME ExchangeInv, call.phase = "sent", call' \in CallState,
         call'.phase = "done", call'.attempt = call.attempt,
         UNCHANGED <<request, exchange>>,
         EndsAnswered', HearsTheAnswer'
  PROVE  ExchangeInv'
<1>1. TypeOK' /\ AllSound' /\ InOrder'
  BY DEF ExchangeInv, TypeOK, AllSound, Sound, Routed, Checked, Counted,
     Replied, Refusal, Entitled, Observe, InOrder
<1> QED
  BY <1>1 DEF ExchangeInv

LEMMA FailPreserves ==
  ASSUME ExchangeInv, Fail
  PROVE  ExchangeInv'
<1>1. /\ call \in CallState /\ call.phase = "sent"
      /\ call' = [call EXCEPT !.phase = "done", !.result = "noResponse"]
      /\ UNCHANGED <<request, exchange>>
  BY DEF ExchangeInv, TypeOK, Fail
<1>2. /\ call' \in CallState /\ call'.phase = "done"
      /\ call'.result = "noResponse" /\ call'.attempt = call.attempt
  BY <1>1 DEF CallState, Results
<1>3. EndsAnswered' /\ HearsTheAnswer'
  BY <1>2 DEF EndsAnswered, HearsTheAnswer, Answers, RegisterAnswers,
     TapAnswers, TapConfirmAnswers, HealthAnswers
<1> QED
  BY <1>1, <1>2, <1>3, EndPreserves

\* What the generated client makes of the last word on its attempt, if that
\* came whole.
LEMMA WholeDecoded ==
  ASSUME NEW x, Sound(x), x.stage = "answered", x.operation \in Operations,
         NEW result, result = Decoded(x.operation, x.response)
  PROVE  /\ result \in Results
         /\ result \in Answers => x.ran /\ x.answer = result
         /\ result = "ErrorStatusCode" => x.ran /\ x.answer = "failed"
         /\ result \in {"RegisterUnauthorized", "undecodable"} => ~ x.ran
<1>1. CASE x.ran /\ x.answer # "failed"
  <2>1. result = x.answer
    BY <1>1, AnswersSurvive DEF Sound, Counted, Replied
  <2>2. x.answer \in Answers \ {"failed"}
    BY <1>1 DEF Sound, Counted, AnswersOf, Answers, Operations
  <2> QED
    BY <1>1, <2>1, <2>2 DEF Results, Answers, RegisterAnswers, TapAnswers,
       TapConfirmAnswers, HealthAnswers
<1>2. CASE x.ran /\ x.answer = "failed"
  <2>1. result = "ErrorStatusCode"
    BY <1>2, FailuresSurvive DEF Sound, Replied
  <2> QED
    BY <1>2, <2>1 DEF Results, Answers, RegisterAnswers, TapAnswers,
       TapConfirmAnswers, HealthAnswers
<1>3. CASE ~ x.ran
  <2>1. Refusal(x)
    BY <1>3 DEF Sound, Replied, Operations, None
  <2>2. result \in {"RegisterUnauthorized", "undecodable"}
    BY <2>1, RefusalsDecoded DEF Refusal
  <2> QED
    BY <1>3, <2>2 DEF Results, Answers, RegisterAnswers, TapAnswers,
       TapConfirmAnswers, HealthAnswers
<1> QED
  BY <1>1, <1>2, <1>3 DEF Sound, ServerSide

LEMMA ReceivePreserves ==
  ASSUME ExchangeInv, Receive
  PROVE  ExchangeInv'
<1>1. PICK cut \in BOOLEAN : Receives(cut)
  BY DEF Receive
<1> DEFINE x == exchange[call.attempt]
           o == call.operation
           r == IF cut THEN CutShort(x.response) ELSE x.response
           result == Decoded(o, r)
<1>2. /\ Sound(x) /\ x \in ServerSide
      /\ x.stage = "answered" /\ call.phase = "sent"
      /\ o \in Operations \cup {None} /\ call \in CallState
      /\ call' = [call EXCEPT
           !.phase = "done", !.cut = cut, !.result = result]
      /\ UNCHANGED <<request, exchange>>
  BY <1>1 DEF ExchangeInv, TypeOK, AllSound, CallState, Receives
<1>3. CASE o = None
  <2>1. result = "raw" /\ "raw" \in Results
    BY <1>3 DEF Decoded, Results, None
  <2> HIDE DEF result
  <2>2. /\ call' \in CallState /\ call'.phase = "done"
        /\ call'.attempt = call.attempt /\ call'.operation = None
    BY <1>2, <1>3, <2>1 DEF CallState
  <2>3. EndsAnswered' /\ HearsTheAnswer'
    BY <2>2 DEF EndsAnswered, HearsTheAnswer
  <2> QED
    BY <1>2, <2>2, <2>3, EndPreserves
<1>4. CASE o # None
  <2>1. x.operation = o /\ o \in Operations
    BY <1>2, <1>4 DEF ExchangeInv, InOrder, Sound, Routed
  <2>2. /\ result \in Results
        /\ result \in Answers => x.ran /\ x.answer = result
        /\ result = "ErrorStatusCode" => x.ran /\ x.answer = "failed"
        /\ result = "RegisterUnauthorized" => ~ x.ran
        /\ result = "undecodable" => ~ x.ran \/ cut
    <3>1. CASE cut
      <4>1. result = "undecodable"
        BY <1>2, <2>1, <3>1, CutUndecoded DEF ServerSide
      <4> QED
        BY <3>1, <4>1 DEF Results, Answers, RegisterAnswers, TapAnswers,
           TapConfirmAnswers, HealthAnswers
    <3>2. CASE ~ cut
      BY <1>2, <2>1, <3>2, WholeDecoded
    <3> QED
      BY <3>1, <3>2
  <2> HIDE DEF result
  <2>3. /\ call' \in CallState /\ call'.phase = "done"
        /\ call'.attempt = call.attempt /\ call'.operation = o
        /\ call'.cut = cut /\ call'.result = result
    BY <1>1, <1>2, <2>2 DEF CallState
  <2>4. EndsAnswered' /\ HearsTheAnswer'
    BY <1>2, <2>1, <2>2, <2>3 DEF EndsAnswered, HearsTheAnswer
  <2> QED
    BY <1>2, <2>3, <2>4, EndPreserves
<1> QED
  BY <1>3, <1>4

LEMMA StepExchange == ExchangeInv /\ [Next]_vars => ExchangeInv'
<1> SUFFICES ASSUME ExchangeInv, [Next]_vars PROVE ExchangeInv'
  OBVIOUS
<1>1. CASE UNCHANGED vars
  BY <1>1 DEF vars, ExchangeInv, TypeOK, AllSound, Sound, Routed, Checked,
     Counted, Replied, Refusal, Entitled, Observe, InOrder, EndsAnswered,
     HearsTheAnswer
<1> QED
  BY <1>1, SendPreserves, RepeatPreserves, FailPreserves, ReceivePreserves,
     ServePreserves DEF Next

THEOREM ExchangeInvariant == Spec => []ExchangeInv
BY InitExchange, StepExchange, PTL DEF Spec

-----------------------------------------------------------------------------
(***************************************************************************)
(* The theorems.                                                           *)
(***************************************************************************)

\* Every variable keeps its type: no attempt is made beyond the policy's,
\* and only documented statuses are sent.
THEOREM ExchangeTypeCorrect == Spec => []TypeOK
<1>1. ExchangeInv => TypeOK
  BY DEF ExchangeInv
<1> QED
  BY <1>1, ExchangeInvariant, PTL

\* No service method runs before its checks, whoever asks.
THEOREM ChecksFirstHolds == Spec => []ChecksFirst
<1>1. ExchangeInv => ChecksFirst
  BY DEF ExchangeInv, AllSound, Sound, Checked, ChecksFirst
<1> QED
  BY <1>1, ExchangeInvariant, PTL

\* The answer a call to the generated client returns is what the operation
\* answered to the attempt the client waited for; an answer that came whole
\* and was not decoded is one of an operation that did not run.
THEOREM HearsTheAnswerHolds == Spec => []HearsTheAnswer
<1>1. ExchangeInv => HearsTheAnswer
  BY DEF ExchangeInv
<1> QED
  BY <1>1, ExchangeInvariant, PTL

\* A call runs an operation that changes something once at most, though
\* the server may still work on an attempt that the client gave up.
RunsOnce ==
  request.method = "POST" =>
    \A i, j \in Attempts : exchange[i].ran /\ exchange[j].ran => i = j

\* No call makes the server run register or tap twice.
THEOREM RunsOnceHolds == Spec => []RunsOnce
<1>1. ExchangeInv => RunsOnce
  <2> SUFFICES ASSUME ExchangeInv, request.method = "POST",
                      NEW i \in Attempts, exchange[i].ran
               PROVE  i = 1
    BY DEF RunsOnce
  <2>1. i > call.attempt => exchange[i] = NotSent
    BY DEF ExchangeInv, InOrder
  <2>2. ~ (i > call.attempt)
    BY <2>1 DEF NotSent
  <2>3. call.attempt = 1
    BY DEF ExchangeInv, InOrder
  <2> QED
    BY <2>2, <2>3, ExchangeAssumption DEF Attempts, ExchangeAssumption
<1> QED
  BY <1>1, ExchangeInvariant, PTL

\* Metrics count what ran, once, with labels no caller chooses.
THEOREM MeasuredAsRunHolds == Spec => []MeasuredAsRun
<1>1. ExchangeInv => MeasuredAsRun
  <2> SUFFICES ASSUME ExchangeInv, NEW i \in Attempts
               PROVE  LET x == exchange[i] IN
                      IF x.ran /\ x.operation # "getHealthz"
                      THEN /\ x.measured.operation = x.operation
                           /\ x.measured.method =
                                (IF x.operation = "tapConfirm"
                                 THEN "GET" ELSE "POST")
                      ELSE x.measured = NoLabel
    BY DEF MeasuredAsRun
  <2>1. Checked(exchange[i]) /\ Counted(exchange[i])
    BY DEF ExchangeInv, AllSound, Sound
  <2>2. CASE exchange[i].ran /\ exchange[i].operation # "getHealthz"
    <3>1. /\ exchange[i].measured.operation = exchange[i].operation
          /\ exchange[i].measured.method = request.method
      BY <2>1, <2>2 DEF Counted, Observe
    <3>2. /\ exchange[i].operation \in {"register", "tap", "tapConfirm"}
          /\ Entitled(exchange[i].operation)
      BY <2>1, <2>2 DEF Checked, Operations
    <3> QED
      BY <2>2, <3>1, <3>2 DEF Entitled
  <2>3. CASE ~ (exchange[i].ran /\ exchange[i].operation # "getHealthz")
    BY <2>1, <2>3 DEF Counted, Observe
  <2> QED
    BY <2>2, <2>3
<1> QED
  BY <1>1, ExchangeInvariant, PTL

-----------------------------------------------------------------------------
(***************************************************************************)
(* Exchange implements OneCall.  Two things beside ExchangeInv: a handler  *)
(* refuses only what no attempt of the call may run, which is why another  *)
(* attempt cannot run what this one refused; and nothing is served before  *)
(* the first attempt is sent, whose request is the one the caller meant.   *)
(***************************************************************************)
RefusedJustly(x) ==
  x.stage = "answered" /\ ~ x.ran /\ x.operation # None =>
    ~ Entitled(x.operation)

AllJust == \A i \in Attempts : RefusedJustly(exchange[i])

Begun ==
  /\ call.phase = "sent" => Sent /\ call.result = None
  /\ \A i \in Attempts : exchange[i].stage # "unsent" => Sent
  /\ Sent /\ call.operation # None => RouteOf(request) = call.operation

PromiseInv == ExchangeInv /\ AllJust /\ Begun

\* A goroutine's step replaces its own record.
LEMMA BecomesOne ==
  ASSUME ExchangeInv, NEW i \in Attempts, NEW x, Becomes(i, x)
  PROVE  /\ exchange'[i] = x
         /\ \A j \in Attempts : j # i => exchange'[j] = exchange[j]
         /\ call' = call /\ request' = request
         /\ RefusedJustly(x) => RefusedJustly(exchange[i])'
<1>1. exchange \in [Attempts -> ServerSide]
  BY DEF ExchangeInv, TypeOK
<1>2. /\ exchange' = [exchange EXCEPT ![i] = x]
      /\ call' = call /\ request' = request
  BY DEF Becomes
<1>3. exchange'[i] = x /\ \A j \in Attempts : j # i => exchange'[j] = exchange[j]
  BY <1>1, <1>2
<1>4. RefusedJustly(x) => RefusedJustly(exchange[i])'
  BY <1>2, <1>3 DEF RefusedJustly, Entitled
<1> QED
  BY <1>2, <1>3, <1>4

LEMMA ServeChangesOne ==
  ASSUME ExchangeInv, NEW i \in Attempts, Serve(i)
  PROVE  /\ call' = call /\ request' = request
         /\ \A j \in Attempts : j # i => exchange'[j] = exchange[j]
         /\ exchange[i].stage # "unsent"
<1>1. PICK x : ServerStep(i, x) /\ Sound(x)
  BY RouteSound, SecureSound, DecodeSound, RunSound, EncodeSound DEF Serve
<1>2. Becomes(i, x) /\ exchange[i].stage # "unsent"
  BY <1>1 DEF ServerStep
<1> QED
  BY <1>2, BecomesOne

\* A goroutine that refuses does so for a reason that holds of the request;
\* only a service method gives an attempt an answer.
LEMMA ServeJustly ==
  ASSUME ExchangeInv, NEW i \in Attempts, Serve(i)
  PROVE  /\ RefusedJustly(exchange[i])'
         /\ exchange'[i].stage # "unsent"
         /\ \/ \E o \in Operations : \E a \in AnswersOf(o) : Runs(i, o, a)
            \/ exchange'[i].answer = exchange[i].answer
<1> DEFINE y == exchange[i]
           Quiet(x) == /\ RefusedJustly(x) /\ x.answer = y.answer
                       /\ x.stage # "unsent"
<1>1. Sound(y) /\ y \in ServerSide /\ request \in Request
  BY DEF ExchangeInv, TypeOK, AllSound
<1>2. SUFFICES ASSUME \A x : ~ (Becomes(i, x) /\ Quiet(x))
               PROVE  /\ RefusedJustly(exchange[i])'
                      /\ exchange'[i].stage # "unsent"
                      /\ \E o \in Operations :
                           \E a \in AnswersOf(o) : Runs(i, o, a)
  BY BecomesOne
<1>3. CASE Route(i)
  <2>1. CASE RouteOf(request) = None
    <3> DEFINE x == Answered(y, Unrouted(request))
    <3>1. x.stage = "answered" /\ x.operation = None /\ x.answer = y.answer
      BY <1>1, <1>3 DEF Route, Answered, ServerSide, Sound, Routed
    <3> QED
      BY <1>2, <1>3, <2>1, <3>1 DEF Route, RefusedJustly
  <2>2. CASE RouteOf(request) # None
    <3> DEFINE x == [y EXCEPT !.operation = RouteOf(request),
                              !.stage = FirstStage(RouteOf(request))]
    <3>1. FirstStage(RouteOf(request)) \in {"running", "security", "decoding"}
      BY DEF FirstStage
    <3>2. x.stage \in {"running", "security", "decoding"}
            /\ x.answer = y.answer
      BY <1>1, <3>1 DEF ServerSide
    <3>3. Becomes(i, x)
      BY <1>3, <2>2 DEF Route
    <3> HIDE DEF x
    <3> QED
      BY <1>2, <3>2, <3>3 DEF RefusedJustly
  <2> QED
    BY <2>1, <2>2
<1>4. ASSUME NEW stage \in {"decoding", "running"}, Becomes(i, Passed(y, stage))
      PROVE  FALSE
  <2>1. /\ Passed(y, stage).stage = stage
        /\ Passed(y, stage).answer = y.answer
    BY <1>1 DEF Passed, ServerSide
  <2> QED
    BY <1>2, <1>4, <2>1 DEF RefusedJustly
<1>5. ASSUME NEW r, Becomes(i, Answered(y, r)), ~ Entitled(y.operation)
      PROVE  FALSE
  <2>1. /\ Answered(y, r).stage = "answered"
        /\ Answered(y, r).answer = y.answer
        /\ Answered(y, r).operation = y.operation
    BY <1>1 DEF Answered, ServerSide
  <2> QED
    BY <1>2, <1>5, <2>1 DEF RefusedJustly
<1>6. CASE SecureRegister(i)
  <2>1. y.operation = "register"
    BY <1>6 DEF SecureRegister, At
  <2>2. CASE SecurityRegisterToken(request.token)
    BY <1>4, <1>6, <2>2 DEF SecureRegister
  <2>3. CASE ~ SecurityRegisterToken(request.token)
    <3>1. ~ Entitled(y.operation)
      BY <2>1, <2>3 DEF SecurityRegisterToken, HandleRegisterToken, Entitled,
         None
    <3> QED
      BY <1>5, <1>6, <2>3, <3>1 DEF SecureRegister
  <2> QED
    BY <2>2, <2>3
<1>7. CASE DecodeRegister(i)
  <2>1. y.operation = "register"
    BY <1>7 DEF DecodeRegister, At
  <2>2. CASE DecodeRegisterRequest(request.form) = "ok"
    BY <1>4, <1>7, <2>2 DEF DecodeRegister
  <2>3. CASE DecodeRegisterRequest(request.form) # "ok"
    <3>1. ~ Entitled(y.operation)
      BY <2>1, <2>3 DEF DecodeRegisterRequest, Entitled
    <3> QED
      BY <1>5, <1>7, <2>3, <3>1 DEF DecodeRegister
  <2> QED
    BY <2>2, <2>3
<1>8. CASE DecodeTap(i) \/ DecodeTapConfirm(i)
  <2>1. y.operation \in {"tap", "tapConfirm"}
    BY <1>8 DEF DecodeTap, DecodeTapConfirm, At
  <2>2. CASE request.params = "valid"
    BY <1>4, <1>8, <2>2 DEF DecodeTap, DecodeTapConfirm, DecodeTapParams,
       DecodeTapConfirmParams
  <2>3. CASE request.params # "valid"
    <3>1. ~ Entitled(y.operation)
      BY <2>1, <2>3 DEF Entitled
    <3> QED
      BY <1>5, <1>8, <2>3, <3>1 DEF DecodeTap, DecodeTapConfirm,
         DecodeTapParams, DecodeTapConfirmParams
  <2> QED
    BY <2>2, <2>3
<1>9. CASE Register(i) \/ Tap(i) \/ TapConfirm(i) \/ GetHealthz(i)
  <2>1. PICK o \in Operations : \E a \in AnswersOf(o) : Runs(i, o, a)
    BY <1>9 DEF Register, Tap, TapConfirm, GetHealthz, Operations, AnswersOf
  <2>2. PICK a \in AnswersOf(o) : Runs(i, o, a)
    BY <2>1
  <2> DEFINE x == [y EXCEPT !.stage = "encoding", !.ran = TRUE, !.answer = a,
                            !.measured = Observe(o, a)]
  <2>3. Becomes(i, x) /\ x.stage = "encoding"
    BY <1>1, <2>2 DEF Runs, ServerSide
  <2> HIDE DEF x
  <2>4. RefusedJustly(x)
    BY <2>3 DEF RefusedJustly
  <2> QED
    BY <2>1, <2>3, <2>4, BecomesOne
<1>10. CASE Encode(i)
  <2> DEFINE x == Answered(y, Encoded(y.operation, y.answer))
  <2>1. Becomes(i, x) /\ y.ran
    BY <1>1, <1>10 DEF Encode, Sound, Checked
  <2>2. x.ran = y.ran /\ x.answer = y.answer /\ x.stage = "answered"
    BY <1>1 DEF Answered, ServerSide
  <2> HIDE DEF x
  <2> QED
    BY <1>2, <2>1, <2>2 DEF RefusedJustly
<1> QED
  BY <1>3, <1>6, <1>7, <1>8, <1>9, <1>10 DEF Serve

LEMMA InitPromise == Init => PromiseInv
<1> SUFFICES ASSUME Init PROVE PromiseInv
  OBVIOUS
<1>1. \A i \in Attempts : exchange[i] = NotSent
  BY DEF Init
<1>2. AllJust
  BY <1>1 DEF AllJust, RefusedJustly, NotSent
<1>3. ~ Sent /\ \A i \in Attempts : exchange[i].stage = "unsent"
  BY <1>1, AttemptsOK DEF Sent, NotSent
<1>4. Begun
  BY <1>3 DEF Init, Begun
<1> QED
  BY <1>2, <1>4, InitExchange DEF PromiseInv

LEMMA ServeKeepsPromise ==
  ASSUME PromiseInv, NEW i \in Attempts, Serve(i)
  PROVE  (AllJust /\ Begun)' /\ Sent /\ Sent'
<1>1. ExchangeInv /\ AllJust /\ Begun
  BY DEF PromiseInv
<1>2. /\ call' = call /\ request' = request
      /\ \A j \in Attempts : j # i => exchange'[j] = exchange[j]
      /\ exchange[i].stage # "unsent" /\ exchange'[i].stage # "unsent"
      /\ RefusedJustly(exchange[i])'
  BY <1>1, ServeChangesOne, ServeJustly
<1>3. Sent
  BY <1>1, <1>2 DEF Begun
<1>4. Sent'
  BY <1>2, <1>3, AttemptsOK DEF Sent
<1>5. AllJust'
  <2> SUFFICES ASSUME NEW j \in Attempts PROVE RefusedJustly(exchange[j])'
    BY DEF AllJust
  <2>1. CASE j = i
    BY <1>2, <2>1
  <2>2. CASE j # i
    <3>1. exchange'[j] = exchange[j] /\ RefusedJustly(exchange[j])
      BY <1>1, <1>2, <2>2 DEF AllJust
    <3> QED
      BY <1>2, <3>1 DEF RefusedJustly, Entitled
  <2> QED
    BY <2>1, <2>2
<1>6. Begun'
  BY <1>1, <1>2, <1>3, <1>4 DEF Begun
<1> QED
  BY <1>3, <1>4, <1>5, <1>6

\* The records after an attempt is sent.
LEMMA ArrivingKeepsJust ==
  ASSUME ExchangeInv, NEW n \in Attempts, exchange[n] = NotSent,
         exchange' = [exchange EXCEPT ![n].stage = "arriving"],
         request' = request \/ \A j \in Attempts : exchange[j] = NotSent
  PROVE  /\ AllJust => AllJust'
         /\ exchange'[n].stage = "arriving"
         /\ \A j \in Attempts : exchange'[j].answer = exchange[j].answer
         /\ \A j \in Attempts : j # n => exchange'[j] = exchange[j]
<1>1. exchange \in [Attempts -> ServerSide]
  BY DEF ExchangeInv, TypeOK
<1>2. exchange'[n] = [NotSent EXCEPT !.stage = "arriving"]
  BY <1>1
<1>3. exchange'[n].stage = "arriving" /\ exchange'[n].answer = None
  BY <1>2 DEF NotSent
<1>4. exchange[n].answer = None
  BY DEF NotSent
<1>5. \A j \in Attempts : j # n => exchange'[j] = exchange[j]
  BY <1>1
<1>6. ASSUME AllJust, NEW j \in Attempts
      PROVE  RefusedJustly(exchange[j])'
  <2>1. CASE j = n
    BY <1>3, <2>1 DEF RefusedJustly
  <2>2. CASE exchange[j].stage = "unsent" /\ j # n
    BY <1>5, <2>2 DEF RefusedJustly
  <2>3. CASE exchange[j].stage # "unsent" /\ j # n
    <3>1. RefusedJustly(exchange[j]) /\ request' = request
      BY <1>6, <2>3 DEF AllJust, NotSent
    <3> QED
      BY <1>5, <2>3, <3>1 DEF RefusedJustly, Entitled
  <2> QED
    BY <2>1, <2>2, <2>3
<1> QED
  BY <1>3, <1>4, <1>5, <1>6 DEF AllJust

-----------------------------------------------------------------------------
(***************************************************************************)
(* The steps of the promise.                                               *)
(***************************************************************************)
LEMMA RoutesTyped ==
  ASSUME NEW r \in Request
  PROVE  RouteOf(r) \in Operations \cup {None}
BY DEF RouteOf, Operations

LEMMA SendsAsks ==
  ASSUME PromiseInv, NEW o \in Operations \cup {None}, NEW r \in Request,
         Sends(o, r), o # None => RouteOf(r) = o
  PROVE  PromiseInv' /\ Promise!Next
<1> DEFINE asked == IF o # None THEN o ELSE RouteOf(r)
<1>1. /\ call.phase = "idle" /\ call.result = None /\ call.operation = None
      /\ call \in CallState
      /\ \A j \in Attempts : exchange[j] = NotSent
      /\ ExchangeInv /\ AllJust
  BY DEF PromiseInv, ExchangeInv, TypeOK, InOrder, Sends
<1>2. /\ call' = [call EXCEPT !.phase = "sent", !.operation = o]
      /\ request' = r
      /\ exchange' = [exchange EXCEPT ![1].stage = "arriving"]
  BY DEF Sends
<1>3. /\ call'.phase = "sent" /\ call'.operation = o /\ call'.result = None
  BY <1>1, <1>2 DEF CallState
<1>4. /\ AllJust' /\ exchange'[1].stage = "arriving"
      /\ \A j \in Attempts : exchange'[j].answer = exchange[j].answer
  BY <1>1, <1>2, AttemptsOK, ArrivingKeepsJust
<1>5. ~ Sent /\ Sent'
  BY <1>1, <1>4, AttemptsOK DEF Sent, NotSent
<1>6. Begun'
  BY <1>2, <1>3, <1>5 DEF Begun
<1>7. PromiseInv'
  BY <1>1, <1>4, <1>6, SendsPreserves DEF PromiseInv
<1>8. Asked' = asked /\ asked \in Operations \cup {None}
  BY <1>2, <1>3, RoutesTyped DEF Asked
<1>9. /\ Standing = "unasked" /\ Standing' \in {"granted", "refused"}
      /\ Standing' = "granted" => asked # None
  BY <1>5, <1>8 DEF Standing, Granted
<1>10. AskedFor' = asked
  BY <1>5, <1>8 DEF AskedFor
<1>11. Told = None /\ Told' = None
  BY <1>1, <1>3 DEF Told, None
<1>12. Given' = Given
  BY <1>4 DEF Given
<1> HIDE DEF asked
<1>13. Promise!Ask(asked, Standing')
  BY <1>9, <1>10, <1>11, <1>12 DEF Promise!Ask
<1> QED
  BY <1>7, <1>8, <1>9, <1>13 DEF Promise!Next

\* Every request of the generated client is one its method routes to.
LEMMA SendAsks ==
  ASSUME PromiseInv, Send
  PROVE  PromiseInv' /\ [Promise!Next]_Promise!vars
<1>1. CASE RegisterNotSent
  <2>1. /\ call.phase = "idle" /\ call.result = None /\ call \in CallState
        /\ \A j \in Attempts : exchange[j] = NotSent
        /\ ExchangeInv /\ AllJust /\ Begun
    BY <1>1 DEF PromiseInv, ExchangeInv, TypeOK, InOrder, RegisterNotSent
  <2>2. /\ call'.phase = "done" /\ call'.result = "notSent"
        /\ UNCHANGED <<request, exchange>>
    BY <1>1, <2>1 DEF RegisterNotSent, CallState
  <2>3. ~ Sent /\ ~ Sent'
    BY <2>1, <2>2, AttemptsOK DEF Sent, NotSent
  <2>4. AllJust'
    BY <2>1, <2>2 DEF AllJust, RefusedJustly, Entitled
  <2>5. Begun'
    BY <2>1, <2>2, <2>3 DEF Begun
  <2>6. PromiseInv'
    BY <1>1, <2>1, <2>4, <2>5, SendPreserves DEF PromiseInv
  <2>7. /\ Standing = "unasked" /\ Standing' = "unasked"
        /\ AskedFor' = AskedFor /\ Given' = Given
        /\ Told = None /\ Told' = "notAsked"
    BY <2>1, <2>2, <2>3 DEF Standing, AskedFor, Given, Told, None
  <2>8. Promise!TellNotAsked
    BY <2>7 DEF Promise!TellNotAsked, Promise!Tell
  <2> QED
    BY <2>6, <2>8 DEF Promise!Next
<1>2. CASE SendRegister
  <2>1. PICK token \in {"right", "wrong"}, form \in {"decodable", "undecodable"} :
          Sends("register", [method |-> "POST", path |-> "register",
                             token |-> token, form |-> form,
                             params |-> "invalid"])
    BY <1>2 DEF SendRegister
  <2> DEFINE r == [method |-> "POST", path |-> "register", token |-> token,
                   form |-> form, params |-> "invalid"]
  <2>2. r \in Request /\ RouteOf(r) = "register"
    BY DEF Request, RouteOf
  <2> QED
    BY <2>1, <2>2, SendsAsks DEF Operations
<1>3. CASE SendTap
  <2>1. PICK params \in {"valid", "invalid"} :
          Sends("tap", Link("POST", params))
    BY <1>3 DEF SendTap
  <2>2. /\ Link("POST", params) \in Request
        /\ RouteOf(Link("POST", params)) = "tap"
    BY DEF Request, RouteOf, Link, None
  <2> QED
    BY <2>1, <2>2, SendsAsks DEF Operations
<1>4. CASE SendTapConfirm
  <2>1. PICK params \in {"valid", "invalid"} :
          Sends("tapConfirm", Link("GET", params))
    BY <1>4 DEF SendTapConfirm
  <2>2. /\ Link("GET", params) \in Request
        /\ RouteOf(Link("GET", params)) = "tapConfirm"
    BY DEF Request, RouteOf, Link, None
  <2> QED
    BY <2>1, <2>2, SendsAsks DEF Operations
<1>5. CASE SendGetHealthz
  <2> DEFINE r == [method |-> "GET", path |-> "healthz", token |-> None,
                   form |-> "undecodable", params |-> "invalid"]
  <2>1. r \in Request /\ RouteOf(r) = "getHealthz"
    BY DEF Request, RouteOf, None
  <2> QED
    BY <1>5, <2>1, SendsAsks DEF SendGetHealthz, Operations
<1>6. CASE SendOther
  BY <1>6, SendsAsks DEF SendOther
<1> QED
  BY <1>1, <1>2, <1>3, <1>4, <1>5, <1>6 DEF Send

\* Another attempt is no step of the promise.
LEMMA RepeatStutters ==
  ASSUME PromiseInv, Repeat
  PROVE  PromiseInv' /\ UNCHANGED Promise!vars
<1> DEFINE n == call.attempt + 1
<1>1. /\ call.phase = "sent" /\ call.result = None /\ Sent
      /\ call \in CallState /\ ExchangeInv /\ AllJust /\ Begun
  BY DEF PromiseInv, ExchangeInv, TypeOK, Begun, Repeat
<1>2. n \in Attempts /\ exchange[n] = NotSent
  BY <1>1, ExchangeAssumption DEF ExchangeInv, InOrder, Repeat,
     RepeatsFailures, Attempts, CallState, ExchangeAssumption
<1>3. /\ call' = [call EXCEPT !.attempt = n] /\ request' = request
      /\ exchange' = [exchange EXCEPT ![n].stage = "arriving"]
  BY <1>1 DEF Repeat, CallState
<1> HIDE DEF n
<1>4. /\ call'.phase = "sent" /\ call'.operation = call.operation
      /\ call'.result = None
  BY <1>1, <1>3 DEF CallState
<1>5. /\ AllJust' /\ exchange'[n].stage = "arriving"
      /\ \A j \in Attempts : exchange'[j].answer = exchange[j].answer
      /\ \A j \in Attempts : j # n => exchange'[j] = exchange[j]
  BY <1>1, <1>2, <1>3, ArrivingKeepsJust
<1>6. Sent'
  BY <1>1, <1>2, <1>5, AttemptsOK DEF Sent
<1>7. Begun'
  BY <1>1, <1>3, <1>4, <1>6 DEF Begun
<1>8. PromiseInv'
  BY <1>1, <1>5, <1>7, RepeatPreserves DEF PromiseInv
<1>9. /\ Asked' = Asked /\ Granted' = Granted /\ Told' = Told
  BY <1>1, <1>3, <1>4 DEF Asked, Granted, Entitled, Told
<1>10. UNCHANGED <<Standing, AskedFor, Given, Told>>
  BY <1>1, <1>5, <1>6, <1>9 DEF Standing, AskedFor, Given
<1> QED
  BY <1>8, <1>10 DEF Promise!vars

\* No response is decoded to a request that was not sent.
LEMMA DecodedWasSent ==
  ASSUME NEW o \in Operations \cup {None}, NEW r
  PROVE  Decoded(o, r) # "notSent"
BY DEF Operations, Decoded, DecodeRegisterResponse, DecodeTapResponse,
   DecodeTapConfirmResponse, DecodeGetHealthzResponse, DecodedError

\* The end of a call changes what is told, and nothing else.
LEMMA EndTells ==
  ASSUME PromiseInv, call.phase = "sent", call'.phase = "done",
         call'.operation = call.operation,
         UNCHANGED <<request, exchange>>, ExchangeInv'
  PROVE  /\ PromiseInv' /\ call'.result \in Results
         /\ Standing # "unasked" /\ Told = None
         /\ UNCHANGED <<Standing, AskedFor, Given>>
<1>1. /\ ExchangeInv /\ AllJust /\ Begun /\ Sent /\ call.result = None
  BY DEF PromiseInv, Begun
<1>2. call'.result \in Results
  BY DEF ExchangeInv, TypeOK, CallState
<1>3. AllJust' /\ Sent'
  BY <1>1 DEF AllJust, RefusedJustly, Entitled, Sent
<1>4. Begun'
  BY <1>1, <1>3 DEF Begun
<1>5. Asked' = Asked /\ Granted' = Granted
  BY DEF Asked, Granted, Entitled
<1>6. Standing # "unasked" /\ UNCHANGED <<Standing, AskedFor, Given>>
  BY <1>1, <1>3, <1>5 DEF Standing, AskedFor, Given
<1>7. Told = None
  BY <1>1 DEF Told, None
<1> QED
  BY <1>2, <1>3, <1>4, <1>6, <1>7 DEF PromiseInv

LEMMA FailTells ==
  ASSUME PromiseInv, Fail
  PROVE  PromiseInv' /\ Promise!Next
<1>1. ExchangeInv' /\ call \in CallState
  BY FailPreserves DEF PromiseInv, ExchangeInv, TypeOK
<1>2. /\ call.phase = "sent" /\ call'.phase = "done"
      /\ call'.operation = call.operation /\ call'.result = "noResponse"
      /\ UNCHANGED <<request, exchange>>
  BY <1>1 DEF Fail, CallState
<1>3. /\ PromiseInv' /\ Standing # "unasked" /\ Told = None
      /\ UNCHANGED <<Standing, AskedFor, Given>>
  BY <1>1, <1>2, EndTells
<1>4. Told' = "unknown"
  BY <1>2 DEF Told
<1> QED
  BY <1>3, <1>4 DEF Promise!Next, Promise!TellNothing, Promise!Tell

LEMMA ReceiveTells ==
  ASSUME PromiseInv, Receive
  PROVE  PromiseInv' /\ [Promise!Next]_Promise!vars
<1>0. PICK cut \in BOOLEAN : Receives(cut)
  BY DEF Receive
<1> DEFINE x == exchange[call.attempt]
           r == IF cut THEN CutShort(x.response) ELSE x.response
           result == Decoded(call.operation, r)
<1>1. /\ ExchangeInv /\ AllJust /\ Begun /\ Sent
      /\ call \in CallState /\ call.attempt \in Attempts
  BY <1>0 DEF PromiseInv, ExchangeInv, TypeOK, CallState, Begun, Receives
<1>2. ExchangeInv'
  BY <1>1, ReceivePreserves
<1>3. /\ call.phase = "sent" /\ x.stage = "answered"
      /\ call' = [call EXCEPT
           !.phase = "done", !.cut = cut, !.result = result]
      /\ UNCHANGED <<request, exchange>>
  BY <1>0 DEF Receives
<1>4. result # "notSent"
  BY <1>1, DecodedWasSent DEF CallState
<1> HIDE DEF result
<1>5. /\ PromiseInv'
      /\ call'.phase = "done" /\ call'.result = result /\ result \in Results
      /\ call'.operation = call.operation /\ call'.attempt = call.attempt
      /\ Standing # "unasked" /\ Told = None
      /\ UNCHANGED <<Standing, AskedFor, Given>>
  <2>1. /\ call'.phase = "done" /\ call'.result = result
        /\ call'.operation = call.operation /\ call'.attempt = call.attempt
    BY <1>1, <1>3 DEF CallState
  <2> QED
    BY <1>2, <1>3, <2>1, EndTells
<1>6. ASSUME NEW what, Told' = what
      PROVE  Promise!Tell(what)
  BY <1>5, <1>6 DEF Promise!Tell
<1>7. Given[call.attempt] = x.answer
  BY <1>1 DEF Given
<1>8. CASE call.operation = None
  <2>1. result = "raw"
    BY <1>8 DEF result, Decoded, None
  <2>2. Told' = "unknown"
    BY <1>5, <2>1 DEF Told
  <2> QED
    BY <1>5, <1>6, <2>2 DEF Promise!Next, Promise!TellNothing
<1>9. CASE call.operation # None
  <2>1. /\ result \in Answers => x.ran /\ x.answer = result
        /\ result = "ErrorStatusCode" => x.ran /\ x.answer = "failed"
        /\ result = "RegisterUnauthorized" => ~ x.ran
    BY <1>2, <1>3, <1>5, <1>9 DEF ExchangeInv, HearsTheAnswer
  <2>2. CASE result \in Answers
    <3>1. Told' = result /\ result # None
      BY <1>5, <2>2 DEF Told, Results, Answers, RegisterAnswers, TapAnswers,
         TapConfirmAnswers, HealthAnswers, None
    <3>2. Promise!TellAnswer
      BY <1>1, <1>6, <1>7, <2>1, <2>2, <3>1 DEF Promise!TellAnswer
    <3> QED
      BY <1>5, <3>2 DEF Promise!Next
  <2>3. CASE result = "ErrorStatusCode"
    <3>1. Told' = "failed" /\ "failed" # None
      BY <1>5, <2>3 DEF Told, None
    <3>2. Promise!TellAnswer
      BY <1>1, <1>6, <1>7, <2>1, <2>3, <3>1 DEF Promise!TellAnswer
    <3> QED
      BY <1>5, <3>2 DEF Promise!Next
  <2>4. CASE result = "RegisterUnauthorized"
    <3>1. Told' = "refused"
      BY <1>5, <2>4 DEF Told
    <3>2. Routed(x) /\ RefusedJustly(x) /\ ~ x.ran
      BY <1>1, <2>1, <2>4 DEF ExchangeInv, AllSound, AllJust, Sound
    <3>3. RouteOf(request) = call.operation
      BY <1>1, <1>9 DEF Begun
    <3>4. x.operation = call.operation
      BY <1>3, <1>9, <3>2, <3>3 DEF Routed
    <3>5. ~ Entitled(Asked)
      BY <1>3, <1>9, <3>2, <3>4 DEF RefusedJustly, Asked
    <3>6. Standing = "refused"
      BY <1>1, <3>5 DEF Standing, Granted
    <3> QED
      BY <1>5, <1>6, <3>1, <3>6 DEF Promise!Next, Promise!TellRefused
  <2>5. CASE result \in {"undecodable", "noResponse", "raw"}
    <3>1. Told' = "unknown"
      BY <1>5, <2>5 DEF Told
    <3> QED
      BY <1>5, <1>6, <3>1 DEF Promise!Next, Promise!TellNothing
  <2>6. CASE result = None
    <3>1. Told' = None
      BY <1>5, <2>6 DEF Told, None
    <3> QED
      BY <1>5, <3>1 DEF Promise!vars
  <2> QED
    BY <1>4, <1>5, <2>2, <2>3, <2>4, <2>5, <2>6 DEF Results
<1> QED
  BY <1>8, <1>9

-----------------------------------------------------------------------------
\* A service method is a run of the promise: of what was asked for, by a
\* request that was granted, and the first if it changes something.
LEMMA RunRuns ==
  ASSUME PromiseInv, NEW i \in Attempts, NEW o \in Operations,
         NEW a \in AnswersOf(o), Runs(i, o, a), Sent, Sent'
  PROVE  Promise!Next
<1> DEFINE x == exchange[i]
<1>1. /\ ExchangeInv /\ Begun /\ Sound(x) /\ x \in ServerSide
      /\ exchange \in [Attempts -> ServerSide]
  BY DEF PromiseInv, ExchangeInv, TypeOK, AllSound
<1>2. /\ x.stage = "running" /\ x.operation = o
      /\ call' = call /\ request' = request
      /\ exchange' = [exchange EXCEPT ![i] = [x EXCEPT
           !.stage = "encoding", !.ran = TRUE, !.answer = a,
           !.measured = Observe(o, a)]]
  BY DEF Runs, At, Becomes
<1>3. /\ Entitled(o) /\ ~ x.ran /\ x.answer = None /\ o = RouteOf(request)
      /\ o # None
  BY <1>1, <1>2 DEF Sound, Routed, Checked, Counted, Operations, None
<1>4. Asked = o
  BY <1>1, <1>3 DEF Asked, Begun
<1>5. Asked' = Asked /\ Granted' = Granted /\ Told' = Told
  BY <1>2 DEF Asked, Granted, Entitled, Told
<1>6. /\ Standing = "granted" /\ AskedFor = o
      /\ Standing' = Standing /\ AskedFor' = AskedFor
  BY <1>3, <1>4, <1>5 DEF Standing, Granted, AskedFor
<1>7. Given' = [Given EXCEPT ![i] = a]
  <2>1. exchange'[i].answer = a
    BY <1>1, <1>2 DEF ServerSide
  <2>2. \A j \in Attempts : j # i => exchange'[j] = exchange[j]
    BY <1>1, <1>2
  <2> QED
    BY <2>1, <2>2 DEF Given
<1>8. Given[i] = None
  BY <1>3 DEF Given
<1>9. ASSUME o \in {"register", "tap"}, NEW j \in Attempts
      PROVE  Given[j] = None
  <2>1. request.method = "POST"
    BY <1>3, <1>9 DEF Entitled
  <2>2. call.attempt = 1 /\ \A k \in Attempts : k > 1 => exchange[k] = NotSent
    BY <1>1, <2>1 DEF ExchangeInv, InOrder
  <2>3. i = 1
    BY <1>2, <2>2, ExchangeAssumption DEF ExchangeAssumption, Attempts, NotSent
  <2>4. j = i \/ exchange[j] = NotSent
    BY <2>2, <2>3, ExchangeAssumption DEF ExchangeAssumption, Attempts
  <2> QED
    BY <1>8, <2>4 DEF Given, NotSent
<1>10. Promise!Run(i, a)
  BY <1>5, <1>6, <1>7, <1>8, <1>9 DEF Promise!Run
<1> QED
  BY <1>6, <1>10 DEF Promise!Next

LEMMA ServeRuns ==
  ASSUME PromiseInv, NEW i \in Attempts, Serve(i)
  PROVE  PromiseInv' /\ [Promise!Next]_Promise!vars
<1>1. ExchangeInv /\ (AllJust /\ Begun)' /\ Sent /\ Sent'
  BY ServeKeepsPromise DEF PromiseInv
<1>2. PromiseInv'
  BY <1>1, ServePreserves DEF PromiseInv
<1>3. CASE \E o \in Operations : \E a \in AnswersOf(o) : Runs(i, o, a)
  BY <1>1, <1>2, <1>3, RunRuns
<1>4. CASE exchange'[i].answer = exchange[i].answer
  <2>1. /\ call' = call /\ request' = request
        /\ \A j \in Attempts : j # i => exchange'[j] = exchange[j]
    BY <1>1, ServeChangesOne
  <2>2. Given' = Given
    BY <1>4, <2>1 DEF Given
  <2>3. Asked' = Asked /\ Granted' = Granted /\ Told' = Told
    BY <2>1 DEF Asked, Granted, Entitled, Told
  <2>4. UNCHANGED <<Standing, AskedFor, Given, Told>>
    BY <1>1, <2>2, <2>3 DEF Standing, AskedFor
  <2> QED
    BY <1>2, <2>4 DEF Promise!vars
<1> QED
  BY <1>1, <1>3, <1>4, ServeJustly

LEMMA StepPromise ==
  PromiseInv /\ [Next]_vars => PromiseInv' /\ [Promise!Next]_Promise!vars
<1> SUFFICES ASSUME PromiseInv, [Next]_vars
             PROVE  PromiseInv' /\ [Promise!Next]_Promise!vars
  OBVIOUS
<1>1. CASE UNCHANGED vars
  <2>1. ExchangeInv'
    BY <1>1, StepExchange DEF PromiseInv
  <2>2. AllJust' /\ Begun'
    BY <1>1 DEF vars, PromiseInv, AllJust, RefusedJustly, Entitled, Begun, Sent
  <2>3. UNCHANGED <<Standing, AskedFor, Given, Told>>
    BY <1>1 DEF vars, Standing, Sent, Granted, Entitled, AskedFor, Asked,
       Given, Told
  <2> QED
    BY <2>1, <2>2, <2>3 DEF PromiseInv, Promise!vars
<1> QED
  BY <1>1, SendAsks, RepeatStutters, FailTells, ReceiveTells, ServeRuns
     DEF Next

\* Every call keeps the promise, whatever is lost, late or sent again: it
\* starts as one that has asked nothing, and every step of the sender or of
\* a goroutine asks, runs, tells, or changes nothing the promise speaks of.
THEOREM ImplementsOneCallHolds == Spec => ImplementsOneCall
<1>1. Init => Promise!Init
  <2> SUFFICES ASSUME Init PROVE Promise!Init
    OBVIOUS
  <2>1. \A i \in Attempts : exchange[i] = NotSent
    BY DEF Init
  <2>2. ~ Sent
    BY <2>1, AttemptsOK DEF Sent, NotSent
  <2>3. /\ Standing = "unasked" /\ AskedFor = None /\ Told = None
        /\ Given = [i \in Attempts |-> None]
    BY <2>1, <2>2 DEF Init, Standing, AskedFor, Told, Given, NotSent, None
  <2> QED
    BY <2>3 DEF Promise!Init
<1> QED
  BY <1>1, InitPromise, StepPromise, PTL
     DEF Spec, ImplementsOneCall, Promise!Spec
=============================================================================
