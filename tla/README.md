# A verification of the FSPIOP interoperability service

TLA+ models of the Mojaloop FSPIOP APIs bounded context: the service that takes the HTTP
requests of FSPs (financial service providers) and turns them into Kafka events, and the
service that turns the events of the other bounded contexts into HTTP callbacks to FSPs.
TLC checks the models on small instances; TLAPS proves the most important results for
every value of the constants.

    tlc -workers 2 -config Events.cfg MCEventHandler.tla       # check one run
    tlapm EventHandlerProofs.tla                               # check the proofs

PROJECT.json lists the runs, which source lines every definition stands for, the hazards
each property is about, and for every property a mistake in the code that would break it
(the operators marked "Variant", which no specification uses).

## 1. Inventory of the system

    FSP --HTTP--> fspiop-api-svc --Kafka--> accounts / quotes / transfers bounded contexts
                                                              | Kafka
    FSP <--HTTP-- fspiop-event-handler-svc <------------------+
                        |-- HTTP --> participants service
                        |-- Kafka --> operator (error events)

Paths below are relative to `src/packages`.

| Component | State | Operations | What makes it correct |
|---|---|---|---|
| Event handlers `fspiop-event-handler-svc/src/event_handlers` | position in the topic, committed offset, the message in memory with its headers, the FSPs still to be told of an error | `_processMessagesBatch`, three `processMessage` switches, 23 handler methods, `_sendErrorFeedbackToFsp`, `handleErrorEventForFspFeedbackFailure` | order of the topic kept; nothing committed before it is settled; no silent loss; the right FSP is told; nothing said twice without a crash |
| Event handler service `.../service.ts` | the process, the shared producer, three consumers, two timers | `start`, `init` of each handler, `stop`, signals, `uncaughtException` | no event lost by a stop, wherever it comes; an operator's event lost by nothing but a stop; ready or ended after the startup timer; ends when told to; one handler does not hold up another |
| API routes `fspiop-api-svc/src/http_routes` | none beyond the request | 30 handlers and one `preHandler` hook | only what passed every check is published; what the API specification permits is not refused |
| API service `fspiop-api-svc/src/service.ts` | the process, HTTP server, producer | `start`, `setupFastify`, `stop`, signals | every request answered; accepted only when published; stop ends, and answers every FSP that waits before it gives up the producer |
| JWS `fspiop-utils-lib/src/jws.ts` | keys, enabled or not; the headers object it is handed and changes | `validate`, `sign`, `getSignature` | what is signed verifies, no other is accepted, and what the services change on the way spoils neither |
| Validator, ILP packets `validator.ts`, `ilp.ts` | currency list | `currencyAndAmount`, `validateCondition`, `decodeIlpPacket` | verdicts at the boundaries |
| HTTP requests, URLs `request.ts` | none | `sendRequest`, `URLBuilder` | the outcome of a request is known or it fails |
| Header parsing, builders, transformers, error mappings | none | pure functions | result for each input |
| Participants adapter | an HTTP client, created with a cache timeout | `getParticipantInfo` | null means unknown *or* unreachable |
| Configuration, client library, mocks, API specification | - | - | not modelled |

How they interact. An API handler publishes one event per request, with the request's
FSPIOP headers inside it; the headers come back in the events of the other contexts
(`inboundProtocolOpaqueState`), and the event handlers use them to decide whom to call.
Within a process everything is asynchronous JavaScript: between two awaits a handler runs
alone, at each await others may run, a signal may arrive or the process may die. The three
event handlers consume different topics in different consumer groups; one handler processes
one message at a time. The producer is shared by all handlers of a process.

The hard behaviours:

- a crash between two awaits of an event, with offsets committed per batch;
- a request to an FSP that fails although the FSP has received it;
- events that need two requests (`TransferFulfiledEvt`: PUT to the payer, PATCH to the
  payee), or feedback to several FSPs, of which one fails;
- headers that a handler switches *in the message object* and a later reader takes for the
  original ones;
- failures of failure handling: no endpoint for the feedback, no Kafka for the operator;
- acknowledgements of Kafka that are lost, FSPs that hang up or try again;
- `stop()` running while `start()` has not ended or requests are being handled;
- 30 handlers that each check in their own order;
- a signature made by one FSP, verified by the API after it has replaced a header, passed on
  by another process that rebuilds the body, and replaced by the switch's own in some
  requests and not in others;
- three handlers with one producer, which each `init()` connects again and the `destroy()`
  of the first one disconnects.

PROJECT.json gives each of these its line and the properties about it. Two of its hazards
have no property (an expiration that does not parse, a port that cannot be listened on);
section 6 says why.

## 2. The modules

| Module | What it is |
|---|---|
| `FspiopEvents` | The events and, for each handler method, its *plan*: participants looked up, requests made in order with the headers each goes out under, headers left behind in the message |
| `EventHandler` | One event handler: the consumer loop, the execution of a plan, feedback, operator events, crash, restart |
| `EventSettlement` | Abstract: what an event handler promises about its topic |
| `EventHandlerProofs` | Theorems about the topic and the offsets of `EventHandler` |
| `EventHandlerDeliveryProofs` | Theorems about who is told what by `EventHandler` |
| `MCEventHandler` | Events and FSPs for TLC |
| `FspiopRoutes` | The 30 API handlers as data: method, ordered checks with the status each failure leads to, event, success status; the verdict on a request |
| `FspiopApi` | The API process: requests, the producer, `start()` and `stop()`, crash, restart |
| `EventIngress` | Abstract: what the API promises an FSP about a request |
| `FspiopApiProofs` | Theorems about `FspiopApi` |
| `MCFspiopApi` | Requests for TLC |
| `EventHandlerService` | The process of the event handlers: `start()`, `stop()`, timers, the handlers with the producer they share |
| `EventHandlerServiceProofs`, `MCEventHandlerService` | Its theorems; the handlers for TLC |
| `InteropFlow` | Composition of `FspiopApi`, a bounded context and `EventHandler` for transfers |
| `EndToEnd` | Abstract: what an FSP may rely on from its request to the callbacks |
| `EndToEndProofs` | Theorems about whatever implements `EndToEnd` |
| `InteropFlowProofs`, `InteropFlowDeliveryProofs` | Theorems of the composition: what crosses it; what is carried over from the event handler alone |
| `MCInteropFlow` | Requests for TLC |
| `FspiopSignatures` | The signature of one request, from the FSP through both services |
| `FspiopSignaturesProofs`, `MCFspiopSignatures` | Its theorems; FSPs, headers and bodies for TLC |

### EventHandler

One of the three subclasses (`handlerName`) reads one topic (`log`). `pc` says where the
loop is: `idle` between batches, `dispatch` before `processMessage` looks at a message,
`send` at the await of a request, `feedback` at the await of an error callback, `operator`
at the await of the operator's event, `return` when `processMessage` is about to return,
`commit` when the batch callback has returned, `down` when there is no process.

| Action | Code |
|---|---|
| `Fetch`, `Commit` | the Kafka client hands over a batch and commits it when `_processMessagesBatch` returns |
| `Ignore` | not an FSPIOP message, or an event the `switch` does not know |
| `ReceiveErrorEvent` | `_handleErrorReceivedEvt`: whom the error mappings name |
| `Prepare`, `PrepareFails` | a handler method up to its first request: lookups, `validatePayload()` |
| `SendOk`, `SendFails` | `_sendHttpRequest`; on failure the catch of `processMessage` |
| `FeedbackOk`, `FeedbackFails` | one turn of the loop of `_sendErrorFeedbackToFsp` |
| `OperatorEvent` | `handleErrorEventForFspFeedbackFailure`, taken by Kafka or not |
| `Return` | the next message of the batch, or its end |
| `Crash`, `Restart` | the process ends at any await; the group resumes at its offset |

`PrepareFails` may happen to any event: the participants adapter answers null for an
unknown participant and for a service that does not answer. A failing request was received
or not, freely. `outbox`, `operator`, `dropped` and `settled` are history, kept so that the
properties can be stated. A plan
says under which headers each request goes out and which headers the handler method leaves
in the message; `hdr` carries the latter to the catch, the feedback and the operator's
event, until the message is read again, so a switch in place is seen by everything that
follows it.

### FspiopApi

A request is a route and the set of its faults, fixed from the start. Everything a handler
does before `await producer.send(msg)` is one step (`Refuse` or `Handle`), since nothing
can come between; then it is `sending`, `appended` when Kafka has the event, `answered`
when the acknowledgement got through. A handler that has given up or died leaves its
request `adrift`: Kafka may take the event yet. `boot` and `halt` are the program counters
of `start()` and `stop()`, which run concurrently.

| Action | Code |
|---|---|
| `Unheard`, `Unavailable` | nobody listens; fastify closing or under pressure (503) |
| `Refuse`, `Handle` | the `preHandler` hook and the handler up to the send |
| `BrokerAppends`, `SendResolves`, `SendRejects` | the send and its two endings |
| `HangUp` | the FSP closes the connection |
| `Connect`, `Listen` | `start()`; the callback of `listen` ignores its error |
| `Signal`, `CloseApp`, `AppClosed`, `DestroyProducer`, `Exit` | `stop()`, step by step |
| `KillTimer` | the five seconds of the signal handler |
| `Crash`, `Restart` | uncaught exceptions, the startup timer, the container |

`FspiopRoutes` orders the checks of each handler as the code makes them: an optional
object read without looking ends as 500, an absent element as 400, and which comes first
differs between handlers; an element the API specification does not require is a fault of
its own (`optional`) where a handler insists on it. `app.close()` waits for open connections
and not for handlers, so a handler whose FSP has hung up may lose its producer in the middle
of a send: `AppClosed` waits for `Waiting`, not for `Pending`. A producer that has been
destroyed may still deliver what was
queued, so the model lets `BrokerAppends` happen at any time: the promises hold without
knowing.

### EventHandlerService

`EventHandler` has one handler in full and a process that is up or down;
`EventHandlerService` has all handlers of a process at once and keeps of each event only how
its processing ends: an FSP was told, the operator's event was sent, or it was dropped since
the producer is gone. `boot` is where `start()` is, `init` where the `init()` of each handler
is, `halt` and `left` where `stop()` is and which handlers it has still to destroy; `producer`
and `consumer` say what is connected.

| Action | Code |
|---|---|
| `Connect`, `StartConsumer`, `ConnectAgain`, `CreateApp`, `Started` | `start()`: the producer, then `init()` of the handlers (a consumer that starts, the shared producer again), then the HTTP server and the end of the startup timer |
| `Publish`, `Fetch`, `Tell`, `OperatorEvent`, `Return`, `Commit` | the topics and the handlers at work |
| `Signal`, `CloseApp`, `DestroyProducerOf`, `DestroyConsumerOf`, `DestroyProducer`, `Exit` | `stop()`, step by step: each handler destroys the shared producer first and its own consumer next |
| `KillTimer`, `StartupTimer`, `Crash`, `Restart` | the timers, uncaught exceptions and failures of `start()`, the container |

A handler starts to work when its consumer starts, which is before `start()` has ended; a
signal can come at any moment of both. `stop()` does not wait for a message that is being
processed, so `Crash` is not the only thing that interrupts one.

### InteropFlow

`InteropFlow` EXTENDS `FspiopApi` and instantiates `EventHandler` as the transfers handler;
`about` says of each event of the handler's topic which request it answers. Between them is
the transfers bounded context, which is external and modelled by what the two services rely
on: `Respond` takes a published request and publishes an event about it, and may do so again
up to `MaxAnswers` times, since Kafka gives it its events at least once. Which event it
publishes is free among the answers there are to the request. The handler's steps and the
API's steps interleave, and each process crashes by itself. `stop()` is left to the modules
of the two services: to the FSPs it is a crash with better manners.

### FspiopSignatures

One request is made by an FSP (`operation`: forward, fulfil, associate, parties,
participants or query, which differ in what the event handler makes of them), then

| Action | Code |
|---|---|
| `Alter` | somebody on the way rewrites a header, the body or the signature |
| `Arrive`, `Take` | the `preHandler` hook, which puts the admin UI's FSPIOP-Date in place of the Date header, `validate()`, the event; the event handler reads the headers from it |
| `Forward`, `Answer`, `Patch`, `Fails`, `Feedback`, `FeedbackFails` | the requests of the event handler: body rebuilt, headers switched or not, signed anew or not, method and date rewritten by `sendRequest` |
| `Redeliver` | the event is processed once more, from the headers in the topic |

The cryptography is external: a signature is its key, its protected header and its body, and
nobody has another's key. What protects what, which of the protected names are compared with
the headers, in which order headers are changed and signed, and that `sign()` changes the
object it is handed, is the code's.

### What implements what

`EventHandler` implements `EventSettlement` under `published <- Len(log)`,
`noticed <- Noticed` (the events anybody outside has heard of), with `settled` and
`committed` as they are: a refinement with crashes and repeated batches. `FspiopApi`
implements `EventIngress` under `published <- Published` (the set of events in the topic)
and a reply computed from where the service is with a request and what the FSP was told. A
crash maps to the loss of the replies of all pending requests at once.

In `EventHandlerService` the handler that `stop()` destroys first and the one it destroys
last each implement `EventSettlement` with batches of one, so the promise about a topic does
not depend on where in the order of destruction a handler is.

`InteropFlow` implements `EndToEnd`: a request is kept by the system (`Keep`), replied to
(`Reply`) or its reply lost (`Lose`), heard of by somebody (`Hear`) and concluded
(`Conclude`), with `kept <- Published`, the API's own mapping for `reply`, the requests
an FSP or the operator has heard of for `heard` and those whose event is settled for `concluded`.

## 3. What the runs check

| Run | Instance | Shows |
|---|---|---|
| `events` (`Events.cfg`) | all three handlers, 39 events, one event in the topic, two participants and a stranger, two crashes | what becomes of one event: nobody left untold, the right FSP told and nobody else, nothing repeated without a crash, PATCH after PUT, no feedback that contradicts a success but one; the second inductive invariant, `DeliveryInv` |
| `topic` (`Topic.cfg`) | one handler, three events (a request nobody hears of when it fails, feedback that can fail), batches of one and two, one crash | order, offsets, refinement of `EventSettlement`, the inductive invariant, every published event committed |
| `switched_failure` | queries | **finding**: a failed answer to a query is reported to the switch |
| `transfer_answers` | queries | **finding**: the answer to a query goes to the FSP named as its destination |
| `api_routes` (`ApiRoutes.cfg`) | one request: every route with every set of at most two faults | which requests are refused, and that nothing unverified is published |
| `api_service` (`ApiService.cfg`) | two concurrent requests, three kinds, two restarts | refinement of `EventIngress`, no FSP left waiting when the producer goes, every request answered, stopping ends, the inductive invariant |
| `bulk_query` | `GET /bulkTransfers/{ID}`, JWS enabled | **finding**: always 500 |
| `party_info` | `PUT /parties/{Type}/{ID}` without `personalInfo` | **finding**: always 500 |
| `bulk_results` | `PUT /bulkTransfers/{ID}` and `PUT /bulkQuotes/{ID}` without the results of the individual transfers or quotes | **finding**: always 400 |
| `service` (`Service.cfg`) | the first and the last handler of the process, one event each, one restart | `stop()` and its timers in any order with `start()` and the handlers: no event lost, an operator's event lost only by a stop, ready or ended, ends when told to, one handler goes on while the FSPs of another hang |
| `flow` (`Flow.cfg`) | one request of five contents (a transfer, a rejection, a query, an expired and a badly signed transfer), JWS enabled, up to two answers, one crash of the handler | what an FSP may conclude from the status it got, that only verified requests reach FSPs, that the maker of a request is told when it fails, unless it is a rejection or a query, refinement of `EndToEnd`, every published request concluded |
| `signatures` (`Signatures.cfg`) | two FSPs, JWS on or off in either service, two URIs and dates, three bodies of which one is the errorInformation of feedback, one alteration | what a signature is worth to the API, to the FSP at the other end and to whoever gets the switch's requests |

Bounds and why they are enough:

- `MaxEvents`, `BatchSize`. What is said about one event depends on that event alone, for a
  handler keeps nothing from one message to the next: `events` takes them one at a time
  and in every kind. What relates events is about the batch: `topic` has three, so a batch
  of two can be followed or preceded by another. Its two kinds of event have a request and
  feedback, each able to fail, and leave the graph small enough for the liveness property to
  be checked of three events. The proofs lift both bounds.
- `MaxRestarts`. One crash repeats a batch; two let a repetition be repeated. In the API
  two restarts let a request be lost in one life and Kafka take its event in a later one.
- Participants. The payer and the payee are participants, the stranger is not; the switch
  and an absent header are values of their own.
- Faults. Two at once show which of two checks is made first.
- Requests. Two let one wait for Kafka while the other arrives, is refused or is lost. `flow`
  has one: the API keeps nothing from one request to another, and two answers to one are
  what the handler's topic has in it.
- Handlers. `service` has two of the three: the one that loses the producer with its own
  `destroy()` and the one that works longest without it. The third is between them. The
  proofs have any number.
- `MaxAlterations`. One rewriting of any header, of the body or of the signature is enough to
  show that each of them is looked at or not; the proof lifts the bound. FSPs are
  symmetric in `signatures`, where no property is temporal.
- `FspiopApi`'s `MaxRestarts` is 0 in `flow`: the API still crashes, but does not come back,
  which `api_service` has. The handler comes back once.
- In every run the topic, the restarts or the request are used up in the end and the system
  stops, so deadlock is not checked.

Fairness. `EventHandler`'s `FairSpec` has weak fairness of the consumer loop, of
`processMessage` and of the restart. The first two hold for an event loop whose awaits all
end; *that requests to FSPs end is an assumption*, since `sendRequest` sets no timeout. The
restart is the container's. `FspiopApi`'s `FairSpec` has weak fairness of the end of every
send (an assumption about the Kafka client, which times out) and of the timer of the signal
handler; no step of `stop()` is fair, so `StopEnds` rests on the timer alone. `EventHandlerService`'s `FairSpec`
is as weak: the two timers, and the handler `Answering` whose FSPs are assumed to answer; no
step of `start()`, of `stop()` or of another handler is fair, so `StopEnds` and `StartEnds`
hold wherever those hang. `InteropFlow`'s `FairFlowSpec` assumes that the bounded
context answers each request at least once, and the fairness of the handler above; nothing of
the API, so `EveryRequestConcluded` speaks of published requests.

## 4. What the code does and a document says otherwise

- *The requester of a failed query is not told* (`switched_failure`). The query handlers
  switch `clonedHeaders`, which is the message's own object; the catch of `processMessage`
  then takes "switch" for the source. `base_event_handler.ts:268`: "We always have a
  sourceFsp to send info to".
- *Answers to transfer queries go to the wrong FSP* (`transfer_answers`).
  `transfers_evt_handler.ts:408` reads the destination before switching. The account lookup
  handler reads it after; `OracleAnswersReachRequester` shows the difference.
- *Bulk transfers cannot be queried with JWS enabled* (`bulk_query`). A GET has no payload
  and the JWS helper refuses to verify without one.
- *A Party needs personalInfo* (`party_info`), which the API specification does not require.
  (Nor does it require the `fspId` of a `partyIdInfo`, without which `party_routes.ts:313`
  answers 400.)
- *Bulk results need the individual ones* (`bulk_results`). `bulk_transfers_routes.ts:291`
  and `bulk_quote_routes.ts:266` refuse a callback without `individualTransferResults` or
  `individualQuoteResults`; `api_spec.yaml:2687` and `2622` require only
  `bulkTransferState` and `expiration`.

Seen while modelling, true of the models, and without a run since no document of the
repository says otherwise plainly, or since what it says is not a property of a run:

- `stop()` of the event handler service destroys the producer all handlers share with the
  first of them. The others go on until their turn, and the operator's events they have to
  send are dropped: `DroppedOnlyByStop` says that this is the only way to lose one.
- The signature of a PATCH and of error feedback is the switch's, under headers whose source
  is an FSP. It verifies with the switch's key (`SwitchSignsWhatItSends`), so a receiver
  that takes the key of the source refuses it.
- Without JWS in the event handler, feedback about a rejection that could not be passed on
  goes out as a PUT under the headers and the signature of the rejection. If that carried the
  errorInformation of the feedback itself ("2000", "Generic server error", with any
  extensionList, which the feedback copies), the feedback verifies as the FSP's own request.
  `OwnRequestsPassForNobodys` makes this its one exception, and `signatures` has it.
- A body the event handler rebuilds other than its sender wrote it carries the sender's
  signature of what he wrote. `ForwardedVerifies` has this as its precondition.
- An error event of a transfer whose source is its destination is fed back twice to the same
  FSP: `_sendErrorFeedbackToFsp` does not compare the two ids. `NoRepeatWithoutRestart` makes
  this its one exception (`ToItself`), and `events` has such an event.
- Of a rejection that fails only the *other* party is told
  (`buildErrorResponseBasedOnErrorEvent`), of a failed answer to a query only the operator:
  the two cases `SenderIsTold` has to name.
- `sign()` throws without FSPIOP-URI. Feedback about an unsigned query that came without it
  cannot be sent, and the operator alone is told.
- Callbacks the event handler forwards carry the FSPIOP-URI of the request they answer or
  pass on (`api_spec.yaml:3749`: it "should contain the service URI"). It and FSPIOP-HTTP-Method are compared with the signature by `validate()`, and by
  nobody with the URL and the method of the HTTP request.
- `getSignature` protects "FSPIOP-Date" where a date is given; `validate()` looks at "Date".

## 5. What is proved

For any participants and published events, any of the handlers, any batch size and any
number of events and crashes (`EventHandlerProofs`, `EventHandlerDeliveryProofs`):

- `Invariant`: `Spec => []IInv`. `IInv` is `TypeOK`, `BatchInv`, `MessageInv` and `InOrder`.
  `CommittedAreSettled` is not inductive alone: that a commit does not pass what is settled
  needs to know where the batch ends (`batchEnd`), that the loop has reached its end
  (`pos = batchEnd` at `commit`), and that what is settled is at least `pos`, also when a
  crash has thrown `pos` back behind `settled`. `MessageInv` says that a request being
  made belongs to a plan and that a feedback turn has somebody to tell; the type of the
  outbox needs it. The lemmas of the first part show that each of the 23 plans is well
  formed.
- `TypeCorrect`, `NothingCommittedUnsettled`, `EventsInOrder`, `NeverAfterCommit` follow.
- `Implementation`: `Spec => ImplementsSettlement`, by one step per action.
- `DeliveryInvariant`: `Spec => []DeliveryInv`, a second inductive invariant on top of
  `IInv`. What is promised about one event is about the outbox alone and nothing in the
  outbox says what the handler does next, so the parts tie the two together. `OutboxInv`: an
  entry is about an event the handler has reached, in a life it has had, and is a request of
  that event's plan. `SendInv`: the headers in memory are those of the next request of the
  plan, and every request before it was acknowledged in this life. `FeedbackInv`: whoever is
  still to be told is in `targets`, everybody else the handler names has been attempted, of
  an event that is no error event it is `HeldSource` alone (the source the handler method has
  left in the message, which is the switch for a query response), and after an answered
  request it is the payee of a failed PATCH. `UntriedInv`: nobody is in `targets` twice, and
  who has not been tried has received no feedback on this event in this life, which is what
  `NoRepeatWithoutRestart` needs. `PartiesInv`: the rest of the plan and of `targets` are
  parties to the event. `HeldInv`: the headers in memory name `HeldSource`. `ConcludedInv`:
  what is settled has been delivered, or `HeldSource`, or all an error event names, were
  picked to be told. The proof rests on lemmas
  about *every* plan (a PATCH comes second and after a PUT, only the PUT and PATCH of
  `TransferFulfiledEvt` are two requests, only query responses switch the headers left
  behind) and on monotonicity: the outbox and the operator's events only grow, so what was
  delivered, attempted or acknowledged stays so.
- `PutBeforePatch`, `NoFalseFailure`, `NothingIsLost`, `RequesterHears`, `AllAreTold`,
  `NothingIsRepeated`, `OnlyPartiesAreCalled` and `AccountAnswersReachRequester` follow for
  `PatchAfterPut`, `FeedbackAfterSuccess`, `NoSilentLoss`, `RequesterIsToldOfFailure`,
  `ErrorEventReachesAll`, `NoRepeatWithoutRestart`, `OnlyPartiesHear` and
  `OracleAnswersReachRequester`. `SourcesAreKept`: whatever goes out names the event's source,
  or the switch where the handler answers in its name.
- Two theorems say of every event what a violation run shows of one.
  `FailedAnswersEndWithOperator`: *no* FSP receives feedback about an answer to a query, and
  *every* one that is settled undelivered ends with the operator or in the log
  (`switched_failure`). `QueryAnswersAddressed`: the answers of the account lookup handler go
  to the FSP that asked, *all* of the transfers and quoting handlers' to the query's
  destination (`transfer_answers`).
- `ProcessingIsBounded`: `StepsLeft`, which is at most eight, decreases with every step that
  has a message in hand, unless the step ends the message or the process, or is the topic
  growing. This is the part of `EveryEventCommitted` that does not need fairness: whatever
  fails, `processMessage` never goes back to where it was.

For any requests, any routes and faults they have, any number of restarts, JWS enabled or
not (`FspiopApiProofs`):

- `Invariant`: `Spec => []IInv` with `IInv` = `TypeOK`, `TopicInv`, `AnswerInv`,
  `ProcessInv`: where the service is with a request agrees with what is in the topic, with
  what the FSP has been told and with the verdict on the request; a process that is dead or
  has no server has nobody waiting. `RefusalType` shows that the first failing check exists.
- `Draining`: `StopDrains`, which needs that a closed server is never opened again and that
  no handler starts when the server is not open, so that who waits now was waiting before. It
  is about FSPs that wait: a handler whose FSP has hung up may lose the producer.
- `Verified`: `OnlyVerifiedPublished`. The invariant says that what is in the topic was not
  refused; `SignedRoutes` says that every POST and PUT route has the check.
- `PermittedAccepted`: `PermittedNotRefused`. `AnswerInv` says that a request is refused only
  when a check fails, or with 503 or a lost connection; `CheckedFaults` goes through the
  routes and shows that none but the five of the findings checks what a request need not
  have. It is about which elements and headers must be there: what values they may have, and
  what else the external `validatePayload()` of the events asks for, is not compared with
  the API specification.
- `Implementation`: `Spec => ImplementsIngress`, by one step per action.

For any handlers in any order, any events and restarts (`EventHandlerServiceProofs`):

- `Invariant`: `Spec => []IInv` with `IInv` = `TypeOK`, `TopicInv`, `ProcessInv`, `WorkInv`: a
  process that has got past `connect` and was not told to stop has its producer, which is what
  `DropsAreStops` needs; what is settled is at most one event beyond what is committed.
- `DropsAreStops`: `DroppedOnlyByStop`. `Implementation`: `ImplementsSettlement`, for the first
  and the last handler. `EveryHandlerSettles`: the same for `Answering`, a constant of which
  `Spec` says only that it is one of the handlers, and so for each of them.

For any requests, senders, recipients, answers and crashes (`InteropFlowProofs`,
`InteropFlowDeliveryProofs`, `EndToEndProofs`):

- `FlowInvariant`: `FlowSpec => []FlowInv`. It has the API's `IInv`, what is needed of the
  handler's loop and what relates the two: every event of the handler's topic is about a published request,
  and the requests of settled events have been heard of. The API's step lemmas are
  cited, not repeated.
- `RefusalsAreFinal` (a request answered 400, 404 or 503 is heard of by nobody, ever),
  `VerifiedCallbacks` (the API's `Verified` carried through both topics), `FlowImplements`
  (`ImplementsEndToEnd`, which cites the API's refinement of `EventIngress`).
- `PromisesHold` and `PromisesAreFinal` are about `EndToEnd` itself: what is concluded was
  heard of, what is heard of or was accepted is in the topic, what was refused is not, and
  nothing of this is ever taken back. `PromisesKept` has both of the three services, through
  the refinement.
- `HandlerDelivers`, `HandlerKeepsOrder`, `HandlerSettles`: what is proved of `EventHandler`
  holds of it in the composition. `InteropFlowDeliveryProofs` instantiates the module of the
  theorems with the composition's constants and variables (`Proved`), shows that these meet
  `HandlerAssumption` (the answers of the bounded context are events) and that `FlowSpec`
  implies the handler's `Spec` (`HandlerInFlow`); then each theorem is cited, none repeated.
- `SendersAreTold`: `SenderIsTold`. It takes the handler's `ConcludedInv`, the headers that
  `AboutInv` ties to the request an event is about, and `FailedAnswersEndWithOperator`
  for queries. `OthersHearNothing`: only participants among the maker and the
  recipient of a request get anything about it, and only under the maker's or the switch's name.

For any FSPs, keys, header values, bodies, alterations and redeliveries
(`FspiopSignaturesProofs`):

- `Invariant`: `Spec => []IInv`: what an FSP sends would be accepted as it is (`SentInv`),
  what is published is what was verified (`EventInv`), and the event handler's headers are
  those of the event until it changes them, and its signature as long as it makes none
  (`HdrInv`), with four of the properties, three of which speak of the last request sent and
  so of headers that are in memory no longer.
- `Authentic`, `Accepting`: what the API publishes is signed as it is; what nobody touched is
  not refused. `EndToEndSignature`, `SwitchSignatures`, `NobodysRequests`: what the event
  handler sends verifies with the sender's or with the switch's key, and what it sends for
  itself passes for nobody's request, but for the feedback of section 4.

The assumptions are those of the modules: `FspAssumption`, `HandlerAssumption`,
`JwsAssumption`, `ApiAssumption`, `ServiceAssumption`, `FlowAssumption`,
`SignaturesAssumption`. They say what sort of value each constant is; that
`SignaturesAssumption` also has FSPs sign POST and PUT requests under their own names only is
what it means to have a key.

Every invariant and every action property that a passing run checks is a theorem. Model-checked
and not proved are the liveness properties (`EveryEventCommitted`, `EveryRequestAnswered`,
`StopEnds` of both services, `StartEnds`, `AnsweringGoOn`, `EveryRequestConcluded`): they
rest on fairness, and so on ENABLED, which is out of the prover's reach.

## 6. What is abstracted, and what is not modelled

Abstracted: payloads, ids, URLs, header values other than those of a signature and of the
source and destination, tracing, metrics, logging, wording. An event carries the one FSP of
its payload that a handler looks at, whether `validatePayload()` accepts it, and the headers.
The names of the error events of each handler are treated alike by the code and are one name,
with the exception of the two whose feedback has other targets. A signature verifies or does
not, but in `FspiopSignatures`, which has what is signed.

Not modelled:

- the start of the logger, configuration, audit and tracing clients of both services: a
  failure there ends the process, which is `Crash` or the startup timer;
- functions of text without state: the grammar of accept and content-type headers, amounts
  ("0.0", negative numbers, decimals), the encoding of ILP packets, `URLBuilder` and
  `URLTemplates`, the texts that
  transformers, error codes and error mappings give. The models have what the services do
  with their results. An expiration that does not parse (`transfers_routes.ts:137-155`) is NaN
  and counts as not past, as in the code; nothing says what should become of it;
- what becomes of an API service that cannot listen: `listen`'s callback ignores the error
  (`service.ts:497`), so the process stays up and hears nobody. The model has it
  (`Listen(FALSE)`, `Unheard`), but no document says what it should do, so no property does;
- the other bounded contexts and the participants service, which are external;
- the client library, the mocks, the configuration package, the API specification.

## 7. Plan

Done, in this order: `FspiopEvents`, `EventHandler`, `EventSettlement` and proofs, first because
the callbacks are what FSPs act on; `FspiopRoutes`, `FspiopApi`, `EventIngress` and proofs;
`EventHandlerService` and proofs; `InteropFlow`, `EndToEnd` and proofs, which compose the two
services; `FspiopSignatures` and proofs; the proofs of what becomes of one event, and those that
carry them into the composition.

Left, of what has a state: the composition for quotes and
account lookup, whose handlers `events` has and whose context differs in the answers it
gives. Left, of what has none: amounts, header grammar and error mappings as operators
against reference definitions, which would each be as long as the code they model.
