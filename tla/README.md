# approvald, specified

TLA+ modules, TLC configurations and TLAPS proofs for approvald, the service
that turns a tap on a phone notification into one decision a waiting machine
can trust.  Everything is written from the source beside this directory
(`src/approval.go`, `src/server.go`, ...); where a comment, a page or
`openapi.yml` says something else than the code does, the model follows the
code and a run shows the difference.

## The system

A machine ("the Mac") that needs an approval registers a nonce
(`POST /register`, bearer token) and gets two links, each holding a capability
token.  It sends them to a phone through ntfy.  Opening a link (`GET
/d/{nonce}/{token}/{verb}`) changes nothing and returns a page that submits
itself as a `POST` to the same path; that `POST` records the decision and
publishes it to the ntfy response topic, which only approvald can write to.
The Mac listens to that topic.

| component | state | operations | talks to |
|---|---|---|---|
| request store (`approval.go`) | map nonce -> record (token, createdAt, decided, decidedAt, publishing, published, detail), one mutex | register, decide, peek, detailFor, markPublished, releasePublish, reap | called by handler goroutines and the reaper |
| tap handling and publishing (`approval.go`) | a goroutine per request | confirmPage, decide, publish, register | store (calls), ntfy (HTTP with a 10s deadline), the person (pages) |
| HTTP adapter (`server.go`) | metrics | Register, TapConfirm, Tap, observe, NewError, HandleRegisterToken | generated handlers call it; it calls the server |
| process (`main.go`) | running, draining, gone | start, SIGTERM, Shutdown(20s) | Kubernetes (signals), goroutines |
| deployment (`deploy/`) | one pod, two during a rollout | surge, drain, kill after 30s | routes requests to a pod |
| registration input (`approval.go`, generated validators) | none | length checks, trim, alphabet, cut, mapping | the store, the links, the publish header |
| Go client (`api/client.go`) | breaker counters; one attempt loop per request | Do, allow, record, retryAfter | approvald, over HTTP |
| paging (`api/paging.go`) | cursor and set of seen cursors | Paged | a fetch function |
| TypeScript client (`clients/ts`) | as the Go client | the same, and its own Retry-After rule | approvald |
| generated API code (`api/oas_*`) | none | route, security, decode, validate, call, encode | net/http and `server.go` |

What is hard in it, and what makes each part correct:

* **Store and taps.**  `decide` runs, then `detailFor`, then an HTTP call of up
  to ten seconds, then `markPublished` or `releasePublish`, each a critical
  section of its own; other taps, the reaper, registrations and a restart fall
  between them.  Correct means: a registration gets at most one decision;
  everything the machine can hear and everything a page says is that decision;
  a failed publish can be retried and is retried with that decision; a
  successful one is not repeated; two goroutines never publish one record at
  once; every POST is answered; every record is dropped in the end.
* **Process and rollout.**  The store is memory, and a rollout runs two pods with
  one each.  Five deadlines start at different moments: of reading a request, of
  a publish, of the drain, of the grace period.  Correct means: no exit cuts a
  request short; no decision is lost without a word; two stores behind one
  address still give a registration one decision.
* **Registration input.**  The detail is bounded in bytes and then changed in
  runes.  Correct means: whatever was sent, a publish can carry what is
  registered, the text up to the cut is the sent one, and links open.
* **HTTP adapter.**  Correct means: every refusal reaches the caller, the log
  and the metrics with its own status; nothing runs before its checks.
* **Clients.**  Correct means: only idempotent requests are repeated, a bounded
  number of times, and when the server asked for it; a dependency that is down
  gets a bounded number of calls per cooldown; no wait is longer than its bound.
* **Paging.**  Correct means: every item once, in order, and no truncation the
  caller cannot see.

The hazards, at their lines, are in `PROJECT.json`.

## Modules

| module | what it is |
|---|---|
| `ApprovalStore` | the record, the map, and each operation of `store` as an operator on them |
| `Approval` | the service as a state machine: registration, pages, taps, publishing, ntfy, time, reaper, crash; its invariants and liveness properties |
| `OneTap` | the promise: a registration is open until one decision or void, and only that decision is heard |
| `ApprovalOneTap` | the refinement mapping from `Approval` to `OneTap` |
| `MCApproval` | instances for TLC |
| `StoreProofs` | lemmas about the operators of `ApprovalStore` |
| `ApprovalProofs` | type correctness, the safety of decisions, and that `Approval` implements `OneTap`, for all constants |
| `ApprovalClaimProofs` | the safety of the publish claim, for all constants, with fresh nonces |
| `Rollout` | two pods, each with a store: surge, SIGTERM, drain, exit, and registrations, taps and publishes meanwhile; its invariants and its refinement mapping to `OneTap` |
| `MCRollout` | instances for TLC |
| `RolloutProofs` | type correctness, the safety of the drain, and that `Rollout` implements `OneTap`, for all constants |
| `RegisterInput` | one registration form from its decoding to its record, byte by byte and rune by rune |
| `MCRegisterInput` | the instance for TLC |
| `RegisterInputProofs` | what becomes of the nonce and the detail, for every form and every bound |
| `RetryAfter` | what the two clients make of a `Retry-After` header, and the rule their comments state |
| `Breaker` | the circuit breaker of the Go client as a record, with `allow` and `record` as operators on it |
| `HTTPClient` | goroutines that share one `HTTPClient` and its breaker: the whole of `Do`, a dependency that fails, the clock |
| `MCHTTPClient` | instances for TLC |
| `HTTPClientProofs` | type correctness, the three bounds of `Do`, the rule of `Retry-After` and what opens the breaker, for all constants |
| `Paging` | the iterator `Paged` between a range loop and an arbitrary server |
| `MCPaging` | instances for TLC |
| `PagingProofs` | type correctness and the safety of the iterator, for all constants |
| `Exchange` | one call from end to end: the generated client or another sender, the router, the stages of a generated handler around the service method, and back |
| `OneCall` | the promise of a call: one operation asked for once, refused or run, told once |
| `MCExchange` | instances for TLC |
| `ExchangeProofs` | type correctness and the safety of a call, and that `Exchange` implements `OneCall`, for any number of attempts |

`Approval` and `Rollout` both extend `ApprovalStore`: one server in every detail,
and several servers in less.  Both implement `OneTap`, as `Exchange` implements
`OneCall` (the mappings are at the end of `Rollout` and `Exchange`).  `HTTPClient` extends
`Breaker` and `RetryAfter`, and the proof modules extend what they prove about.
The other parts share no state: the clients meet the service over HTTP,
`Exchange` is that meeting with the inside of both ends abstracted away,
`RegisterInput` is the inside of the step that `Approval` and `Rollout` take as
`Register`, and each of the other modules has one end against everything the
other may do.

### How `Approval` corresponds to the code

*State.*  `store` is `store.m`.  Times enter the code only as differences from
`createdAt` and `decidedAt`, so a record keeps the two elapsed times, in ticks,
stopped one past the duration they are compared with: `age <= RequestTTL` is
`now.Sub(r.createdAt) <= requestTTL`.  `clients[c]` is one sender of requests,
a person's browser or a link preview: either the page it last got or, with a
`pc` in `InFlightPcs`, its POST inside the server, at one of four points of
`server.decide`:

| pc | the goroutine |
|---|---|
| `claimed` | `store.decide` returned `publish: true` |
| `publishing` | `detailFor` returned; in `s.client.Do` |
| `acked` | ntfy answered 2xx; `markPublished` is next |
| `errored` | the attempt failed; `releasePublish` is next |

`topic` is what the machine can hear; `limbo` what was written to the network
by attempts that ended before ntfy accepted it; `reply` the last answer to a
registration.  `registrations`, `verdicts` and `acked` are history, read by
properties and by the two facts about fresh names below, never by the server.

*Actions.*  Each critical section is one action and its guard is the code's
early returns:

| code | action |
|---|---|
| `server.register`, `store.register` | `Register`, `RegisterDuplicate` |
| `confirmPage` with `store.peek` | `TapConfirm`: `ConfirmUnknown`, `ConfirmExpired`, `ConfirmDecided`, `ConfirmForm` |
| `store.decide` inside `server.decide` | `Tap`: `TapUnknown`, `TapExpired`, `TapDecides`, `TapRetries`, `TapReplayed` |
| `store.detailFor` | `ReadDetail` |
| `publish` | `NtfyAccepts`, `PublishSucceeds`, `PublishFails` |
| `markPublished` and the page | `Marks` |
| `releasePublish` and the page | `Releases` |
| `reapLoop`, `reap` | `Reap` |
| the clock, the deadline of `publish` | `Tick` |
| the process dies and is restarted | `Crash` |

A client may post any link at any time, with or without the page: a browser's
reload, a second phone and a script are all just clients.

*ntfy.*  It may accept a message and answer, accept and lose the answer, refuse,
never answer, or accept after the server gave up (`LateArrival`).  A message
carries the token of the registration it was claimed for, so that properties
can tell registrations of one nonce apart; on the wire there is only the
decision, the nonce and the detail.

*Fresh names.*  `randHex(32)` is modelled as never repeating a token.  The
constant `FreshNonces` says whether the machine may register a nonce again
after its record is gone.  `openapi.yml` asks that a nonce "must be unique while
pending", so it may, and the properties of decisions are checked and proved
with reuse.  The bookkeeping after a publish finds its record by nonce alone,
and the properties of the claim hold only without reuse; the run `marked` shows
what goes wrong with it.

### The promise

`OneTap` has no nonces, clock, store or goroutines.  A registration is
`unissued`, `open`, decided or `void`; a decision is only ever made on an open
one and heard only after it is made; `confirmed` registrations are ones that can
be heard.  Under the refinement mapping a registration is open while an
undecided record of it is in the store and not older than the TTL, so the
refinement also says that no tap decides late, and that a restart voids what was
open and nothing else.

`OneCall` has no wire, stages, statuses or attempts in flight.  A request is
`unasked` until it is sent and from then on `granted` or `refused`, for good: the
mapping reads that off the request (`Granted`), not off what the server has
done with it so far.  Only a granted request runs, once per attempt and once at
all if its operation changes something, and the caller is told once: what a run
answered, `refused`, or `unknown`.  So being told `refused` means that no attempt
ran and none will, the one that is still in flight included, while `unknown`
(a timeout, an answer that is lost, cut in its body or not decodable) stops
nothing: the operation may have run or may run yet.  Only `RegisterUnauthorized`
is told as `refused`.  The refusals of a decoding stage reach the caller as a
"decode response" error, and so does the answer of an operation that ran if its
body breaks off, so that error says nothing.  Responses to senders other than the
generated client are not interpreted and count as `unknown`.

### How `HTTPClient` corresponds to the code

`breaker` is the `Breaker` struct.  `openedAt` is only ever compared through
`time.Since`, so the record keeps the ticks since then.  `call[c]` is one
goroutine's last `Do`; with phase `sending` it is inside `c.http.Do`, with
`waiting` in `time.Sleep`, with `ended` between the loop and
`breaker.record`.  `idle` with an outcome is a `Do` that returned it.

| code | action |
|---|---|
| `breaker.allow` returns false, `ErrCircuitOpen` | `Refuse` |
| `breaker.allow` returns true, the first attempt | `Begin` |
| `c.http.Do` returns; the decision to retry; `retryAfter` | `AttemptEnds` |
| `time.Sleep` returns; the next attempt | `Wake` |
| `breaker.record`, `Do` returns | `Record` |
| the caller's context is done | `Cancel` |

`AttemptEnds` separates four ways an attempt may end, because that is as far as
the code tells them apart: an error, a 5xx, a 429, anything else.  The
dependency is free to choose among them and to take as long as it likes; only
while it is `healthy` do attempts end with an answer that is not a 5xx.
`Backoffs[n]` is the set of waits a policy with jitter may choose before retry
`n`, so `ExponentialRetry` and a policy of one's own are both instances.
`Headers` are what `Retry-After` may say.  `RetryAfter` has both clients'
reading of them: in Go the number of seconds is an int64 and its product with a
second is computed modulo 2^64 (`Wrapped`, with `Span` for 2^63 nanoseconds), so
it may come out negative, or short, and then passes the comparison with the
maximum; the time until a date does not wrap but stops at the largest
`Duration`.  In TypeScript the product does not wrap, but `Number` and
`Date.parse` accept texts that Go refuses: `"0x10"` and `"1e1"` are numbers, and
`"1.5"` is no integer and then, in V8, a day in 2001, so the retry comes at once
(`"lenient"`).  `Stated`, `Due` and `Regular` are the rule the comments of both
functions state, and the headers it speaks of.

A tick passes only where the code waits: in an attempt, in a sleep, or with the
caller outside `Do`.  The bounds on a call are therefore bounds on its waits;
what the scheduler adds to them is not counted.

`admitted`, `sent`, `elapsed`, `asked` and `waited` are history for the properties.

`resilientFetch` of `clients/ts/index.js` is the same loop around the same
breaker; it replaces the caller's abort signal by its own, so it is the instance
with `TypeScript` and without cancellations.

### How `Rollout` corresponds to the code

`pods[p]` is a pod of the Deployment: `ready` from its first successful probe,
`draining` from SIGTERM (with the ticks since then), `absent` before it exists
and after it exits; the name of a pod that exited is used again for the next.
`stores[p]` is its `store.m`.  `callers[c]` is one request on one connection: the
machine's form or somebody's tap being read (`sendingForm`, `sendingTap`), or a
tap's handler at the points of `server.decide` that `Approval` has too.  `left`
is what is left of the deadline it is under.

| code | action |
|---|---|
| `maxUnavailable: 0`, `maxSurge: 1`, the readiness probe | `Surge` |
| SIGTERM; `srv.Shutdown` closes the listener | `Terminate` |
| `Shutdown` returns, `<-idle`, `main` returns; or SIGKILL | `Exit`, when `MayExit` |
| a connection is accepted; `ReadHeaderTimeout`, `ReadTimeout` | `Connect`, `GivesUp` |
| `server.register` with `store.register` | `Register`, `RegisterDuplicate` |
| `store.decide` inside `server.decide` | `Tap` and its disjuncts |
| `publish`, `markPublished`, `releasePublish` | `NtfyAccepts`, `PublishSucceeds`, `PublishFails`, `Marks`, `Releases` |
| `reap` | `Reap` |

`Shutdown` waits for connections that are being read as well as for handlers,
and neither the request's context nor the drain cancels a publish.  A connection
a draining pod holds may therefore deliver its request late: reading its header
may take `ReadHeaderTimeout` from the accept, and a publish begins after that.
`RolloutAssumption` is what the numbers of `main.go`, `publish` and
`deployment.yaml` give: 5s + 10s < 20s, 15s < 20s and 20s <= 30s.  Only a form
has a body, so only a form is read for `ReadTimeout`; a tap that could take that
long to arrive would be cut short by the exit, which is one of the mutants.

Which ready pod a new connection reaches is free.  Left out: the Service
sending a connection to a pod that no longer listens (it is refused, which
changes nothing), GETs (they change nothing), answers no property tells apart,
and pods that crash (`Approval` has that).

`ImplementsOneTap` reads the phase of a registration off all stores at once: it
is open while any pod holds it so, and void when the pod that held it is gone.

### How `RegisterInput` corresponds to the code

`form` is what the decoder found in the body, with the nonce as runes and the
detail as bytes, both down to the classes the code tells apart: for a byte,
whether it is a control character, other ASCII, the first byte of a rune of two,
three or four, a continuation, or one that begins nothing (an overlong or
surrogate encoding is such a byte and its continuations).  `Decode` is the
generated validation, `Check` the first lines of `server.register`, `Mint` the
token and the cut, `MapRune` one iteration of `strings.Map` with what it writes,
`Register` the end.  `DetailKept` compares the result of that loop with a
definition that has no loop.  `Routed` and `Sendable` are what the links and the
publish need of the result.

### How `Paging` corresponds to the code

`pc` is the line of the iterator: at the check of `ctx.Err()`, about to call
`fetch`, inside it, or yielding a page.  `Cancelled` and `Proceed` are the two
outcomes of the check, `FetchBegins` and `FetchFails`/`FetchReturns` the call,
`Yield` and `Break` one iteration of the loop that ends with `continue` or with
`break`, `Finish` and `Advance` the end of a page.  The cancellation of the context is
an action of the environment and may fall between any two of them, also
between the check and the fetch.  Items are counted and not told apart; a page
of any size up to `MaxItems` with any cursor is possible at every fetch, so the
server may repeat cursors, run in circles and send empty pages.

Cursors are strings, and nothing in `Paged` bounds how many different ones a
server may name.  The safety properties hold, and are proved, for any set of
them.  That the loop ends is true only of a server that names finitely many, and
`IterationEnds` says so: its premise `RunsOutOfCursors` is that from some time on
no cursor is named for the first time.  In the run `Cursors` is finite, so there the
premise always holds; in the code it is an assumption about the server.

### How `Exchange` corresponds to the code

`call` is the sender's side of one call: the method of the generated client it
went through (none for curl, a browser or a probe), the attempt it waits for,
and what it returned.  `request` is what it sends, down to what the server tells
apart; `PUT` stands for every method without an operation.  `exchange[i]` is the
goroutine that serves attempt `i`, with its `stage`:

| stage | code | action that leaves it |
|---|---|---|
| `arriving` | the mux, `ServeHTTP` of the router | `Route` |
| `security` | `securityRegisterToken` and the requirement | `SecureRegister` |
| `decoding` | `decodeRegisterRequest`, `decodeTapParams`, `decodeTapConfirmParams` | `DecodeRegister`, `DecodeTap`, `DecodeTapConfirm` |
| `running` | `observe` around the service method | `Register`, `Tap`, `TapConfirm`, `GetHealthz` |
| `encoding` | the `encode...Response` functions, `NewError` | `Encode` |
| `answered` | | |

A handler only goes through the stages its operation has.  Which answer a
service method gives is `Approval`'s matter and free here.  On the client's side
`SendRegister`, `SendTap`, `SendTapConfirm` and `SendGetHealthz` are the four
generated methods, `Repeat` is the loop of `Do` going round, `Fail` its end
without an answer, and `Receive` its end with one and the decoding of it.
`Do` returns with the header of the response; its body is read by the
`decode...Response` functions, under the same timeout, so `Receive` takes it
whole or cut (`CutShort`).  A cut body makes `io.ReadAll` fail (`ReadsAll`), which
is an error of the decoder and no reason for `Do` to repeat anything.
`call.cut` remembers it for `HearsTheAnswer`.
`Repeat` and `Fail` are possible whatever the server has done so far: the request
or the answer may be lost or the client's timeout may run out, and the server's
goroutine goes on.  The breaker, the waits and the policies are in `HTTPClient`;
here only the count of attempts and the methods that are repeated matter, and a
repeating policy may always find a reason to.

One call is enough, because calls share nothing in this layer.  Answers come
from approvald and not from an ingress in front of it, and the mux's cleaning of
odd paths is left out.  `ErrorCode` and `ErrorHandler` are the library's, from
what the tests of the repository say of the first and `oas_cfg_gen.go` of the
second.

## Runs

| run | instance | checks |
|---|---|---|
| `reuse` | 1 nonce registered up to twice, 2 clients, TTL 1, retention 2 | `OneVerdict`, `HeardIsVerdict`, `ShownIsVerdict`, `ExpiredIsFinal`, `SentWasHeard`, `ImplementsOneTap` |
| `claims` | 2 nonces, each registered once, 2 clients, TTL 0, retention 1 | `TypeOK`, `ClaimHeld`, `PublishedWasHeard`, `AckedOnce` |
| `live` | 1 registration with or without a detail, 2 clients, fairness | `Answered`, `NonceFreed` |
| `rollout` | 2 pods, 2 callers, 1 nonce, 2 tokens; ticks of 5s: header 1, body 3, publish 2, drain 4, grace 6; TTL 1, retention 0 | `TypeOK`, `NoneCut`, `NotStranded`, `ImplementsOneTap` |
| `inputs` | nonces of up to 4 runes with at most 3 sent and 2 kept, details of up to 6 bytes with at most 5 runes sent and 4 bytes kept | `TypeOK`, `DetailSendable`, `DetailKept`, `DetailBounded`, `LinksOpen` |
| `calls` | 2 Go callers, threshold 2, cooldown 1, timeout 2, one jittered retry, seconds of 3 ticks in Durations below 5, a maximum of 3, faults and cancellations | `TypeOK`, `SafeRepeats`, `BoundedTime`, `Shielded`, `WhenAsked`, `OpensJustly` |
| `client_live` | 2 TypeScript callers, threshold 1, cooldown 1, timeout 1, one retry, faults, fairness | `WhenAsked`, `CallsEnd`, `Recovers` |
| `pages` | 3 cursors, pages of up to 2 items, fairness | `TypeOK`, `NoRefetch`, `CancelStops`, `QuietEnd`, `IterationEnds` |
| `exchange` | 2 attempts, every request and every answer | `TypeOK`, `ChecksFirst`, `HearsTheAnswer`, `MeasuredAsRun`, `ImplementsOneCall` |
| `tapagain`, `marked`, `visible` | the smallest that shows it | one statement each that the code does not keep, see below |

Bounds.  Two clients are enough for every race between two handler goroutines,
and a client is free for another request as soon as it is answered; the
properties relate at most two goroutines.  Two tokens allow two records at once
(`claims`) or two generations of one nonce (`reuse`).  With a TTL of one tick a
record passes through young, just in time and too old; `claims`, whose
properties are about decided records, makes do with a TTL of none, where a link
is good until the next tick.  Retention of two ticks
with a publish deadline of one lets a retry start inside the retention and end
after the record is reaped, which is what separates generations.  Tokens bound
the number of registrations, so every run is finite.  `Clients`, `Tokens` and
`Nonces` are interchangeable and the safety runs use that symmetry; the liveness
run does not.  In these runs no state is without a successor: the clock always
ticks or a handler can step, so deadlock is checked.

In `calls` a threshold of two makes the failure that opens the breaker another
one than the first, while the other caller may be anywhere in `Do`; a cooldown
shorter than an attempt lets attempts span it.  Of the numbers a server may
name there, 1 is a delay just obeyed, 2 wraps to the past and 4 to a delay that is
obeyed; the dates are past and too far.  In `rollout` the ticks keep the
proportions of the real deadlines, one caller can be inside the drained pod
while the other meets the new one, and with two tokens one nonce can be
registered on both pods or again on the second; pods, callers and tokens are
interchangeable.  In `inputs` the cut falls at every byte of a rune of every
size, with up to two bytes behind it; the forms are every nonce with an empty
detail and every detail with one nonce, because neither field is looked at
together with the other.  In `pages` three cursors are enough
for a cycle that does not begin at the first page; that they are finitely many
makes the premise of `IterationEnds` true, so the run says nothing of a server
that names new cursors for ever.  In `exchange` two attempts
let one overtake another; a third would be to the second what the second is to
the first.  `pages`, `exchange` and `inputs` do not check deadlock: an iteration
ends, and so do a call and a registration.

Fairness of `live`: weak fairness of `Tick`, of `Reap`
(the ticker of `reapLoop` runs for the life of the process) and of each
handler goroutine (the Go scheduler; `PublishFails` stays possible for as long
as ntfy has not answered because the request has a ten second deadline).
Nothing is assumed of ntfy, of people, or of the machine.

Fairness of `client_live`: strong fairness of `Tick`, because time passes
however often other callers begin and end calls in between, and weak fairness
of what a goroutine does next: run into the deadline of its attempt
(`TimesOut`), wake up, record.  Nothing is assumed of the dependency: `CallsEnd`
holds if it never answers, and `Recovers` only has it stay well from some time
on.

Fairness of `pages`: the iterator runs in its caller's goroutine, so some step of
it is taken as long as there is one.  That includes that `fetch` returns, which
the client's timeouts give, and that the body of the loop does.  Nothing is
assumed of the server in the specification; that it does not name new cursors for
ever is the premise of `IterationEnds` itself.

What the violation runs show:

* `tapagain`: after a failed publish the person reads "Tap again to retry.", but
  tapping is a GET, and `confirmPage` answers a decided request with "Already
  decided" and no form.  The retry path of `store.decide` is reached only by
  submitting the earlier page again.
* `marked`: an attempt for an earlier registration of a nonce marks the later
  one published.  The same mistake of identity lets `releasePublish` give back
  another goroutine's claim.
* `visible`: "draining inside that window is what makes a rollout invisible to
  callers" (`main.go:83`).  The drain keeps every request alive, as `NoneCut` says,
  but the store is the process's: while two pods serve the address a link is
  answered "Not found" by the pod that did not mint it, and once the old pod has
  exited by the only one there is.

More statements do not hold, and have no run of their own:

* "lets one request through every Cooldown" (`api/client.go:129`).  After the
  cooldown `allow` sets the count of failures to zero, so every caller is let
  through until `Threshold` of them have failed again.  How many that can be is
  what `Shielded` says and proves.  Nor is it nothing else meanwhile: a success
  that was in flight when the breaker opened sets the count to zero and closes it
  inside its cooldown.
* "a rejected bearer token, an undecodable body and a bad path parameter all
  arrive here" (`server.go:136`, of `NewError`).  The generated handlers give what
  they cannot decode to `cfg.ErrorHandler`, which nobody sets: the caller gets the
  right status with a body that is not the `Error` of `openapi.yml`, and no log
  line is written.  The generated client cannot decode that body either, so its
  caller cannot tell this refusal from an answer that was cut, and `ImplementsOneCall`
  has both told as `unknown`.
* "Requests by operation, method and status" (`server.go:41`).  `observe` counts
  200 for every answer that is not a Go error, and the pages for 404, 410 and 502
  and the refusals 400 and 409 are answers like any other.
* "further away than maxRetryAfter" (`api/client.go:282`): seconds whose product
  wraps are not recognised as that.  With `9223372037`, 292 years, the retry comes
  at once.
* "Bounded" (`approval.go:35`, of `maxDetailLen`, 256): the cut is made before
  the mapping, and U+FFFD is longer than the byte it stands for, so a detail of
  text can be stored with up to 262 bytes and one of arbitrary bytes with 768.
  `DetailBounded` is the bound that holds.
* "reporting false if the nonce is already in flight" (`approval.go:83`): while
  two pods run, each accepts it.
* "Tap again to retry." (`approval.go:378`), after a rollout: the record that
  knew of the failed publish went with its pod.

* "Bounds how long a leaked tap URL stays useful", of `requestTTL`
  (`approval.go:28`): the retry path
  of `store.decide` is taken before the age is looked at, so a decided link can
  be posted again, and published, after the TTL.
* "already registered and still pending" of a 409 (`openapi.yml:56`): a nonce is
  refused until its record is reaped, decided or not.
* "`ErrCircuitOpen` is returned instead of calling a dependency that is failing"
  (`api/client.go:124`): an attempt that ends because its caller cancelled is an
  error like any other, so callers that give up open the breaker of a dependency
  that is well.
* "A server that repeats a cursor would spin forever; stop rather than hammer it"
  (`api/paging.go:74`): so would one that names a new cursor on every page, and
  that one is followed for as long as the caller's context and loop allow.
* "a `range` loop that checks err and returns cannot silently process a truncated
  list" (`api/paging.go:45`): a repeated cursor ends the iteration like the last
  page does.
* "returns the registered detail string for a decided request"
  (`approval.go:176`): `detailFor` after a reap returns the empty detail, because
  `decide` has given the lock back in between.

## Proofs

The theorems about the server hold for every set of nonces, tokens, clients and
details and every TTL, retention and publish deadline, from the assumptions
`StoreAssumption` and `ApprovalAssumption` (durations are naturals, the empty
detail is a detail, `None` is no nonce and no token).  Those about the other
modules hold for every value of their own constants.

* `StoreProofs` has the lemmas about the operators of `ApprovalStore` that both
  servers rest on: what `decide`, `markPublished`, `releasePublish`, `reap` and a
  registration return, and what they leave alone.
* `ApprovalProofs`.  `TypeCorrect`: `TypeOK` needs `ClaimTyped` beside it, a POST
  in the server carries a real link and a real decision, or messages would not
  be typed.  `OneVerdictHolds`, `HeardIsVerdictHolds`, `ShownIsVerdictHolds`,
  `ExpiredIsFinalHolds` and `SentWasHeardHolds` all follow from one inductive
  invariant, `VerdictInv`.  What it adds: a token belongs to one record and was
  minted (`TokensUnique`, `StoreMinted`); verdicts are on minted tokens, so a
  fresh one has none (`VerdictsMinted`); the token of an undecided record has no
  verdict (`UndecidedFree`), which is why a tap may decide it; a link shown as
  expired has `Lapsed`, its record gone or undecided and too old, which no step
  takes back; and what an attempt delivered is on the topic.
  `ImplementsOneTapHolds` rests on it too: the initial states map to initial
  states of `OneTap`, and under `VerdictInv` every step is one of `OneTap` or
  changes nothing it speaks of.  A registration issues a token, a first tap
  decides, ntfy hears and confirms, and a tick, the reaper and a crash, which
  only do bookkeeping, may void.  The proof of a
  step first shows that the step only does bookkeeping (records keep their
  token and decision) or is a registration or a first tap, then that history
  only grows, then deals with the one client that was answered.
* `ApprovalClaimProofs`, with `FreshNonces`.  `ClaimHeldHolds`,
  `PublishedWasHeardHolds` and `AckedOnceHolds` follow from `ClaimInv`: a nonce
  and a token name one registration (`OneRegistration`) and every goroutine
  belongs to one (`ClaimRegistered`), so finding the record by nonce finds the
  right one (`ClaimedRecord`); flags are set on decided records only; the record
  of an acknowledged publish is marked or about to be (`AckedSettled`).
* `RolloutProofs`, for any set of pods and callers and any deadlines, from
  `RolloutAssumption` and `StoreAssumption`: reading a tap's header and then
  publishing takes less than the drain, so does reading a whole request, and the
  drain is no longer than the grace period.
  `TypeCorrect`, `NoneCutHolds` and `NotStrandedHolds` follow from `IInv`.  Its
  part about callers says of every request on a pod that the time since the
  signal and the time the request still needs are together less than the drain
  (`InTime`, in `CallersSound`), so the pod leaves only when there is nothing
  left on it (`ExitIsDrained`).  `ImplementsOneTapHolds` needs `LinksApart` and
  `VerdictsSound` beside it: a token is in one store, on one record, so two
  stores that accepted the same nonce still decide two different registrations.
* `HTTPClientProofs`, for any number of callers, any policy, any headers and any
  threshold, from `ClientAssumption`, `BreakerAssumption` and
  `RetryAfterAssumption`.  `ClientTypeCorrect`, `SafeRepeatsHolds`,
  `BoundedTimeHolds`, `ShieldedHolds` and `WhenAskedHolds` follow from
  `ClientInv`.  It keeps for every call that the requests sent are no more than
  the attempts (`SendsOncePerAttempt`) and that the time it has used, with what
  is left of the present attempt or wait, fits the attempts it has made
  (`InTime`), which is where the bound on a call comes from; that the calls let
  through since the last success are covered by counted failures and callers
  still inside (`Counted`), which is where the bound of `Shielded` comes from:
  `allow` lets nobody in once the failures reach the threshold; and that a wait
  runs towards the moment the header asked for (`AsAsked`).  `WhenAsked` also
  needs that the arithmetic of both clients gives what the rule says
  (`RegularIsExact`) for a header that is `Regular`: a product that fits its
  width is not changed by the wrap (`WrapsNot`).  `OpensJustlyHolds` is
  about steps.  Every step leaves the breaker alone or is an `allow`, a `record`
  or a tick (`BreakerSteps`).  A call between its loop and `record` that will be
  counted as a failure has its reason (`FailuresJust`), and a count that has
  reached the threshold does not reach it again.
* `PagingProofs`, for any set of cursors and any page size.
  `PagingTypeCorrect`, `NoRefetchHolds`, `CancelStopsHolds` and `QuietEndHolds`
  follow from `PagingInv`: what was fetched are cursors that were seen, and the
  cursor about to be fetched is seen and not yet fetched.
* `ExchangeProofs`, for any number of attempts.  `ExchangeTypeCorrect`,
  `ChecksFirstHolds`, `HearsTheAnswerHolds`, `RunsOnceHolds` and
  `MeasuredAsRunHolds` follow from `ExchangeInv`.  It says of each attempt's record
  what its stage implies: it was routed by the request's path and method
  (`Routed`), what ran passed the checks of its operation (`Checked`) and was
  counted (`Counted`), and the response on the wire is the encoding of the answer
  or the refusal of a stage (`Replied`); and of the sender that it makes attempts
  one after another and only of requests that may be repeated (`InOrder`).
  Three lemmas say that a response that comes whole decodes to what was encoded
  (`AnswersSurvive`, `FailuresSurvive`, `RefusalsDecoded`), a fourth that one that is
  cut decodes to nothing (`CutUndecoded`).  `RunsOnceHolds`, that no
  POST runs twice, has no run of its own, because `ImplementsOneCall` includes it.
  `ImplementsOneCallHolds` needs two
  things more (`PromiseInv`).  A handler refuses only what the request itself is
  not entitled to (`RefusedJustly`): without that another attempt could run what
  this one refused.  And nothing is served before the first attempt was sent,
  with a request that routes to the method the caller meant (`Begun`).  Then
  sending is `Ask`, a service method is `Run`, the end of a call tells, and a
  repeated attempt and the other stages change nothing `OneCall` speaks of.
* `RegisterInputProofs`, for any form and any limits, from
  `RegisterInputAssumption`.  `RegisterTypeCorrect`, `DetailSendableHolds`,
  `DetailKeptHolds`, `DetailBoundedHolds` and `LinksOpenHolds` follow from
  `RegisterInv`.  It says of the loop of `strings.Map` that what it has written is
  what `KeepsBytes` says of the bytes it has read, that the rest begins where a
  rune or a stray byte begins, and that what is written is text, can be sent
  and has at most three bytes for each byte read.  The bound of `DetailBounded`
  for a detail of text needs one more fact (`FewAreSplit`): the cut splits one
  rune at most, of which three bytes at most are left to be replaced.  What the
  loop does to sequences of any length calls for induction, and the library's
  induction theorems cannot be instantiated (they take an operator as
  parameter), so the proofs go through the least or the greatest place where
  something holds (`LeastExists`, `GreatestExists`), which the well-foundedness
  of `<` on the naturals gives.  That is also why `DetailKept` is stated by the
  places of bytes and what is printed before them, and not by a fold.

Only model-checked: the liveness properties `Answered`, `NonceFreed`, `CallsEnd`,
`Recovers` and `IterationEnds`, because the prover's temporal backend knows
neither fairness nor `ENABLED`; and the three violations.  Every invariant and
every step property of a passing run is a theorem.

## Not modelled, and the plan

Not modelled, and why:

* HTML rendering, log wording and the latency histogram: the program writes them
  and never reads them.
* The JSON and form syntax of the generated code, and most of what its
  validators look at: `Exchange` keeps whether a stage accepts, which is what
  decides the path through a handler; the lengths that matter are in
  `RegisterInput`.
* The cleaning of paths by the mux, and what an ingress answers in a pod's place:
  neither is in this program.
* In `Rollout`, opening a link (a GET changes no store) and a pod that crashes
  outside a rollout, which `Approval` has.
* A wall clock that is set back under the TypeScript client: the clock of
  `Breaker` only advances.

What is left for later: fairness and liveness for `Rollout` (a drained pod
exits, its callers have an answer) and for `Exchange`; `calls` with a third
caller; and `Rollout` with crashing pods.
