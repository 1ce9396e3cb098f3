----------------------------- MODULE FspiopApi ------------------------------
(***************************************************************************)
(* The FSPIOP API service: one Node.js process that takes HTTP requests,   *)
(* checks them and publishes an event for each through one Kafka producer, *)
(* and the start() and stop() of that process.                             *)
(*                                                                         *)
(* A handler runs without interruption up to "await producer.send(msg)",   *)
(* so what it checks is one step; any number of requests can wait there at *)
(* the same time, and meanwhile the process can be told to stop or crash,  *)
(* the FSP can hang up, and Kafka can take the event without its answer    *)
(* getting through.  An FSP that tries again makes a new request.          *)
(*                                                                         *)
(* start() and stop() interleave: a signal does not interrupt start().     *)
(*                                                                         *)
(* Operators marked "Variant" are mistakes the code does not make: they    *)
(* show that the properties below would notice them.                       *)
(***************************************************************************)
EXTENDS FspiopRoutes

CONSTANTS Requests,    \* the requests FSPs make
          Contents,    \* what a request may be: a route and the faults it has
          MaxRestarts  \* bound on the number of times the process is started again

ASSUME ApiAssumption == Contents \subseteq Request /\ MaxRestarts \in Nat

VARIABLES
    up,        \* is there a process?
    boot,      \* what start() will do next
    halt,      \* what stop() will do next; "none": there was no signal
    app,       \* the HTTP server; "deaf": listen() failed
    connected, \* the Kafka producer is connected
    restarts,
    request,   \* what each request is
    stage,     \* where the service is with it
    answer,    \* what the FSP was told
    topic      \* the requests whose events Kafka has taken, in that order

process == <<up, boot, halt, app, connected, restarts>>
requests == <<request, stage, answer, topic>>
vars == <<process, requests>>

Boots == {"connect", "listen", "done"}
Halts == {"none", "routes", "close", "producer", "exit"}
Apps == {"none", "open", "deaf", "closing", "closed"}

\* "sending": waiting for the producer; "appended": and Kafka has taken the event;
\* "adrift": nobody is waiting any more, but Kafka may take the event yet; "refused":
\* the producer was never asked.
Stages == {"unsent", "sending", "appended", "adrift", "answered", "refused"}

Answers == Statuses \cup {"none", "lost"}

TypeOK ==
    /\ up \in BOOLEAN
    /\ boot \in Boots
    /\ halt \in Halts
    /\ app \in Apps
    /\ connected \in BOOLEAN
    /\ restarts \in Nat
    /\ request \in [Requests -> Request]
    /\ stage \in [Requests -> Stages]
    /\ answer \in [Requests -> Answers]
    /\ topic \in Seq(Requests)

Published == {topic[k] : k \in DOMAIN topic}

\* The requests whose handlers wait for the producer.
Pending == {q \in Requests : stage[q] \in {"sending", "appended"}}

\* Those of them whose FSPs wait for the answer: their connections are open.
Waiting == {q \in Pending : answer[q] = "none"}

\* What a request will be is fixed from the start: only that it is made is a step.
Init ==
    /\ up = TRUE
    /\ boot = "connect"
    /\ halt = "none"
    /\ app = "none"
    /\ connected = FALSE
    /\ restarts = 0
    /\ request \in [Requests -> Contents]
    /\ stage = [q \in Requests |-> "unsent"]
    /\ answer = [q \in Requests |-> "none"]
    /\ topic = <<>>

-----------------------------------------------------------------------------
(* Requests.                                                                *)

Settle(q, newStage, newAnswer) ==
    /\ stage' = [stage EXCEPT ![q] = newStage]
    /\ answer' = [answer EXCEPT ![q] = IF @ = "none" THEN newAnswer ELSE @]

\* There is nobody listening, or no longer.
Unheard(q) ==
    /\ stage[q] = "unsent"
    /\ ~up \/ app # "open"
    /\ Settle(q, "refused", "lost")
    /\ UNCHANGED <<process, request, topic>>

\* fastify answers 503 when it is closing, under-pressure when the process is overloaded.
Unavailable(q) ==
    /\ stage[q] = "unsent"
    /\ up /\ app \in {"open", "closing"}
    /\ Settle(q, "refused", "ServiceUnavailable")
    /\ UNCHANGED <<process, request, topic>>

Refuse(q) ==
    /\ stage[q] = "unsent"
    /\ up /\ app = "open"
    /\ Refused(request[q])
    /\ Settle(q, "refused", Refusal(request[q]))
    /\ UNCHANGED <<process, request, topic>>

\* Variant: requests are taken as long as the server exists.
HandleWhileClosing(q) ==
    /\ stage[q] = "unsent"
    /\ up /\ app \in {"open", "closing", "closed"}
    /\ ~Refused(request[q])
    /\ stage' = [stage EXCEPT ![q] = "sending"]
    /\ UNCHANGED <<process, request, answer, topic>>

\* Everything checks out: "await this._kafkaProducer.send(msg)".
Handle(q) ==
    /\ stage[q] = "unsent"
    /\ up /\ app = "open"
    /\ ~Refused(request[q])
    /\ stage' = [stage EXCEPT ![q] = "sending"]
    /\ UNCHANGED <<process, request, answer, topic>>

\* Kafka takes the event, while the handler waits or when it no longer does.
BrokerAppends(q) ==
    /\ stage[q] \in {"sending", "adrift"}
    /\ q \notin Published
    /\ topic' = Append(topic, q)
    /\ stage' = [stage EXCEPT ![q] = IF @ = "sending" THEN "appended" ELSE @]
    /\ UNCHANGED <<process, request, answer>>

\* Variant: the handler does not wait for Kafka's acknowledgement.
SendResolvesEarly(q) ==
    /\ up
    /\ stage[q] \in {"sending", "appended"}
    /\ Settle(q, "answered", request[q].route.success)
    /\ UNCHANGED <<process, request, topic>>

SendResolves(q) ==
    /\ up
    /\ stage[q] = "appended"
    /\ Settle(q, "answered", request[q].route.success)
    /\ UNCHANGED <<process, request, topic>>

\* Variant: the failure is logged and the request left unanswered.
SendRejectsSilently(q) ==
    /\ up
    /\ q \in Pending
    /\ stage' = [stage EXCEPT ![q] = "adrift"]
    /\ UNCHANGED <<process, request, answer, topic>>

\* Variant: the failure is reported as one of the service, to be tried again.
SendRejectsUnavailable(q) ==
    /\ up
    /\ q \in Pending
    /\ Settle(q, "adrift", "ServiceUnavailable")
    /\ UNCHANGED <<process, request, topic>>

\* The producer gives up, whether Kafka has taken the event, will take it or not.
SendRejects(q) ==
    /\ up
    /\ q \in Pending
    /\ Settle(q, "adrift", "InternalServerError")
    /\ UNCHANGED <<process, request, topic>>

\* The FSP closes the connection; the handler does not notice.
HangUp(q) ==
    /\ q \in Pending
    /\ answer[q] = "none"
    /\ answer' = [answer EXCEPT ![q] = "lost"]
    /\ UNCHANGED <<process, request, stage, topic>>

-----------------------------------------------------------------------------
(* start() and stop().                                                      *)

Connect ==
    /\ up /\ boot = "connect"
    /\ connected' = TRUE
    /\ boot' = "listen"
    /\ UNCHANGED <<up, halt, app, restarts, requests>>

\* The callback of listen() does not look at the error it is given.
Listen(ok) ==
    /\ up /\ boot = "listen"
    /\ app' = IF ok THEN "open" ELSE "deaf"
    /\ boot' = "done"
    /\ UNCHANGED <<up, halt, connected, restarts, requests>>

\* SIGINT, SIGTERM: if there is an app yet, stop() closes it first.
Signal ==
    /\ up /\ halt = "none"
    /\ halt' = IF app = "none" THEN "producer" ELSE "routes"
    /\ UNCHANGED <<up, boot, app, connected, restarts, requests>>

\* The routes' destroy() closes routers nothing is bound to; then app.close() is called.
CloseApp ==
    /\ up /\ halt = "routes"
    /\ app' = IF app = "open" THEN "closing" ELSE app
    /\ halt' = "close"
    /\ UNCHANGED <<up, boot, connected, restarts, requests>>

\* Variant: app.close() is not waited for.
AppClosedAtOnce ==
    /\ up /\ halt = "close"
    /\ app' = "closed"
    /\ halt' = "producer"
    /\ UNCHANGED <<up, boot, connected, restarts, requests>>

\* app.close() is done when there is no open connection with a request in it.  Of a handler
\* whose FSP has hung up it knows nothing.
AppClosed ==
    /\ up /\ halt = "close"
    /\ Waiting = {}
    /\ app' = "closed"
    /\ halt' = "producer"
    /\ UNCHANGED <<up, boot, connected, restarts, requests>>

DestroyProducer ==
    /\ up /\ halt = "producer"
    /\ connected' = FALSE
    /\ halt' = "exit"
    /\ UNCHANGED <<up, boot, app, restarts, requests>>

\* The process is gone and with it every open connection.
Die ==
    /\ up' = FALSE
    /\ app' = "none"
    /\ connected' = FALSE
    /\ halt' = "none"
    /\ boot' = "connect"
    /\ stage' = [q \in Requests |-> IF q \in Pending THEN "adrift" ELSE stage[q]]
    /\ answer' = [q \in Requests |->
                     IF q \in Pending /\ answer[q] = "none" THEN "lost" ELSE answer[q]]
    /\ UNCHANGED <<restarts, request, topic>>

Exit ==
    /\ up /\ halt = "exit"
    /\ Die

\* Variant: clean_exit is set before stop() is called.
KillTimerDisarmed ==
    /\ up /\ halt = "exit"
    /\ Die

\* The timer of the signal handler: exit code 99, wherever stop() is.
KillTimer ==
    /\ up /\ halt # "none"
    /\ Die

\* An uncaught exception, the startup timer, a kill.
Crash ==
    /\ up
    /\ Die

Restart ==
    /\ ~up
    /\ restarts < MaxRestarts
    /\ up' = TRUE
    /\ restarts' = restarts + 1
    /\ UNCHANGED <<boot, halt, app, connected, requests>>

-----------------------------------------------------------------------------
Serve(q) ==
    \/ Unheard(q)
    \/ Unavailable(q)
    \/ Refuse(q)
    \/ Handle(q)
    \/ BrokerAppends(q)
    \/ SendResolves(q)
    \/ SendRejects(q)
    \/ HangUp(q)

Next ==
    \/ \E q \in Requests : Serve(q)
    \/ Connect
    \/ \E ok \in BOOLEAN : Listen(ok)
    \/ Signal
    \/ CloseApp
    \/ AppClosed
    \/ DestroyProducer
    \/ Exit
    \/ KillTimer
    \/ Crash
    \/ Restart

Spec == Init /\ [][Next]_vars

\* The producer answers every send() in the end and a timer fires.  Nothing is assumed
\* of the steps of stop(), each of which may wait for Kafka for ever.
FairSpec ==
    /\ Spec
    /\ \A q \in Requests : WF_vars(SendResolves(q) \/ SendRejects(q))
    /\ WF_vars(KillTimer)

-----------------------------------------------------------------------------
(* What the service promises.                                               *)

\* A request the service has decided on without asking the producer is "refused"
\* whatever the FSP heard; otherwise what it heard counts.
ReplyTo(q) ==
    IF stage[q] = "refused" THEN "refused"
    ELSE IF answer[q] = "InternalServerError" THEN "failed"
    ELSE IF answer[q] \in {"none", "lost"} THEN answer[q]
    ELSE "accepted"

Ingress == INSTANCE EventIngress
    WITH published <- Published, reply <- [q \in Requests |-> ReplyTo(q)]

\* The API implements EventIngress: an event is published at most once, before its
\* request is accepted and never when it is refused, through crashes, hang-ups and
\* lost acknowledgements ("skipAcknowledgements: false // never change this to true").
ImplementsIngress == Ingress!Spec

\* Nothing gets into a topic under a signature that does not verify.
OnlyVerifiedPublished ==
    \A q \in Published :
        (JwsEnabled /\ request[q].route.method \in {"POST", "PUT"}) =>
            "signature" \notin request[q].faults

\* stop() does not take the producer away from a request whose FSP waits for the answer, once
\* it has closed the server: closing it waits for the open connections and lets nobody in.  A
\* handler whose FSP has hung up may lose the producer in the middle of its send().
StopDrains == (app = "closed") => Waiting = {}

\* Every request that was made is answered, or its connection is lost: no failure of
\* Kafka leaves one hanging (the catch of every handler replies).
EveryRequestAnswered ==
    \A q \in Requests : (stage[q] = "sending") ~> (answer[q] # "none")

\* A process that was told to stop does, even when Kafka never answers.
StopEnds == (halt # "none") ~> (~up)

\* What the API specification allows a request to be without: a signature only where none is
\* verified.
Permitted(r) ==
    r.faults \subseteq {"personalInfo", "optional"}
                         \cup (IF r.route.method = "GET" THEN {} ELSE {"noAccept"})
                         \cup (IF JwsEnabled THEN {} ELSE {"signature"})

\* A request for one of the operations that has everything the API specification requires,
\* and nothing wrong with what it has, is not answered with an error before the producer is
\* asked, unless the service is overloaded or stopping.
NotRefused(operations) ==
    \A q \in Requests :
        (/\ stage[q] = "refused"
         /\ request[q].route \in operations
         /\ Permitted(request[q])) =>
            answer[q] \in {"lost", "ServiceUnavailable"}

\* "GET /bulkTransfers/{ID} is used to get information regarding a bulk transfer created
\* or requested earlier" (api_spec.yaml).
BulkTransfersCanBeQueried == NotRefused({bulkTransferQueryReceived})

PutParty == {getPartyInfoAvailableByTypeAndId, getPartyInfoAvailableByTypeAndIdAndSubId}

PutBulkResults == {bulkTransferFulfilRequested, bulkQuotePending}

\* Of a Party only partyIdInfo is "required", of partyIdInfo only partyIdType and
\* partyIdentifier (api_spec.yaml).
PartyNeedsOnlyIdInfo == NotRefused(PutParty)

\* Of PUT /bulkTransfers/{ID} only bulkTransferState is "required", of PUT /bulkQuotes/{ID}
\* only expiration (api_spec.yaml): not the results of every single transfer or quote.
BulkResultsAreOptional == NotRefused(PutBulkResults)

\* All the other operations, the 25 of the 30 that the three properties above are not about,
\* take a request that lacks what the specification does not require.
PermittedNotRefused ==
    NotRefused(Routes \ (PutParty \cup PutBulkResults \cup {bulkTransferQueryReceived}))

-----------------------------------------------------------------------------
(* The inductive invariant.                                                 *)

\* Kafka has the event of a request whose send() has been acknowledged, and has none
\* of a request that was refused or not made; no event is there twice.
TopicInv ==
    /\ \A q \in Requests : stage[q] \in {"appended", "answered"} => q \in Published
    /\ \A q \in Published : stage[q] \in {"appended", "answered", "adrift"}
    /\ \A j, k \in DOMAIN topic : topic[j] = topic[k] => j = k

\* What the FSP has been told fits where the service is with the request.
AnswerInv ==
    \A q \in Requests :
        /\ stage[q] = "unsent" => answer[q] = "none"
        /\ stage[q] \in {"sending", "appended"} => answer[q] \in {"none", "lost"}
        /\ stage[q] = "adrift" => answer[q] \in {"InternalServerError", "lost"}
        /\ stage[q] = "answered" => answer[q] \in {request[q].route.success, "lost"}
        /\ stage[q] \in {"sending", "appended", "adrift", "answered"} => ~Refused(request[q])
        /\ stage[q] = "refused" =>
               Refused(request[q]) \/ answer[q] \in {"lost", "ServiceUnavailable"}

\* A dead process has no server, no connection and no handler that waits; at a closed server
\* none waits but those whose FSPs have hung up.
ProcessInv ==
    /\ ~up => app = "none" /\ ~connected /\ Pending = {} /\ halt = "none"
    /\ app = "none" => Pending = {}
    /\ StopDrains

IInv == TypeOK /\ TopicInv /\ AnswerInv /\ ProcessInv
=============================================================================
