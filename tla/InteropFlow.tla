----------------------------- MODULE InteropFlow -----------------------------
(***************************************************************************)
(* The whole way of a transfer request: an FSP makes it, the API service   *)
(* checks and publishes it, the transfers bounded context answers it with  *)
(* an event of its own, and the transfers event handler turns that event   *)
(* into requests to the FSPs, or into error feedback, or into an event for *)
(* the operator.                                                           *)
(*                                                                         *)
(* The two services are FspiopApi and EventHandler as they are; between    *)
(* them is the bounded context, which is not part of the repository.  It   *)
(* answers an event with success or failure and may answer it again (its   *)
(* own consumer delivers at least once); its answers carry the headers of  *)
(* the request (inboundProtocolOpaqueState).                               *)
(***************************************************************************)
EXTENDS FspiopApi, FiniteSets

CONSTANTS Fsp, Switch, NoFsp, Participants,
          Sender,          \* the FSP that makes each request
          Recipient,       \* the FSP it is for
          BatchSize,
          MaxAnswers,      \* bound on the answers to one request
          MaxEvents,       \* bound on the length of the handler's topic
          HandlerRestarts  \* bound on the crashes of the event handler service

ASSUME FlowAssumption ==
    /\ Switch \notin Fsp /\ NoFsp \notin Fsp /\ Switch # NoFsp
    /\ Participants \subseteq Fsp
    /\ Sender \in [Requests -> Fsp]
    /\ Recipient \in [Requests -> Fsp]
    /\ BatchSize \in Nat \ {0}
    /\ MaxAnswers \in Nat
    /\ MaxEvents \in Nat
    /\ HandlerRestarts \in Nat

VARIABLES log, committed, handlerName, life, pc, pos, batchEnd, hdr, call, targets,
          outbox, operator, dropped, settled,
          about  \* the request each event of the handler's topic is about

handler == <<log, committed, handlerName, life, pc, pos, batchEnd, hdr, call, targets,
             outbox, operator, dropped, settled>>

flow == <<vars, handler, about>>

-----------------------------------------------------------------------------
(* The bounded context.                                                     *)

Response(event, success) == [event |-> event, success |-> success]

\* How it answers each of the API's events when all is well.
Successes ==
    {Response("TransferPrepareRequestedEvt", "TransferPreparedEvt"),
     Response("TransferFulfilRequestedEvt", "TransferFulfiledEvt"),
     Response("TransferRejectRequestedEvt", "TransferRejectRequestProcessedEvt"),
     Response("TransferQueryReceivedEvt", "TransferQueryResponseEvt")}

\* The error event names the message it is about; the handler looks at two of them.
SourceMessage(name) ==
    IF name \in {"TransferFulfilRequestedEvt", "TransferRejectRequestedEvt"}
    THEN name ELSE "Other"

\* An event about request q.
EventAbout(q, name, notifyPayee, sourceMessage) ==
    [name |-> name, fromFspiop |-> TRUE,
     headers |-> [source |-> Sender[q], destination |-> Recipient[q]],
     payloadFsp |-> Recipient[q], payloadValid |-> TRUE,
     notifyPayee |-> notifyPayee, sourceMessage |-> sourceMessage]

\* Only a fulfilment may ask for the payee to be notified.
Outcomes(q) ==
    {e \in {EventAbout(q, s.success, notifyPayee, "Other") :
               s \in {x \in Successes : x.event = request[q].route.event},
               notifyPayee \in BOOLEAN} :
        e.notifyPayee => e.name = "TransferFulfiledEvt"}

\* Success, or the failure of it.
AnswersTo(q) ==
    Outcomes(q) \cup
    (IF Outcomes(q) = {} THEN {}
     ELSE {EventAbout(q, "ErrorEvent", FALSE, SourceMessage(request[q].route.event))})

\* Every event the bounded context can publish.
AnyAnswer ==
    {EventAbout(q, name, notifyPayee, sourceMessage) :
        q \in Requests, name \in {s.success : s \in Successes} \cup {"ErrorEvent"},
        notifyPayee \in BOOLEAN,
        sourceMessage \in {SourceMessage(s.event) : s \in Successes}}

Handler == INSTANCE EventHandler
    WITH Handlers <- {"Transfers"}, MaxRestarts <- HandlerRestarts,
         Published <- [h \in {"Transfers"} |-> AnyAnswer]

\* The requests the bounded context has answered.
Answered == {about[n] : n \in DOMAIN about}

Respond(q) ==
    /\ q \in Published
    /\ Cardinality({n \in DOMAIN about : about[n] = q}) < MaxAnswers
    /\ \E e \in AnswersTo(q) : Handler!Publish(e)
    /\ about' = Append(about, q)
    /\ UNCHANGED vars

-----------------------------------------------------------------------------
(* The services.                                                            *)

FlowInit ==
    /\ Init
    /\ Handler!Init
    /\ about = <<>>

\* stop() is left out here: to the FSPs it is a crash with better manners.
Api ==
    \/ \E q \in Requests : Serve(q)
    \/ Connect
    \/ Listen(TRUE)
    \/ Crash
    \/ Restart

ApiStep == Api /\ UNCHANGED <<handler, about>>

\* The steps the event handler is sure to go on with.
Work == Handler!Consume \/ Handler!ProcessMessage \/ Handler!Restart

HandlerStep ==
    /\ Work \/ \E received \in BOOLEAN : Handler!Crash(received)
    /\ UNCHANGED <<vars, about>>

FlowNext ==
    \/ ApiStep
    \/ \E q \in Requests : Respond(q)
    \/ HandlerStep

FlowSpec == FlowInit /\ [][FlowNext]_flow

\* The bounded context answers what is in its topic once, and the event handler is as fair as
\* in EventHandler.  Nothing is assumed of the API: once Kafka has the event it does not
\* matter what becomes of the process.
FairFlowSpec ==
    /\ FlowSpec
    /\ \A q \in Requests : WF_flow(q \notin Answered /\ Respond(q))
    /\ WF_flow(Handler!Consume /\ UNCHANGED <<vars, about>>)
    /\ WF_flow(Handler!ProcessMessage /\ UNCHANGED <<vars, about>>)
    /\ WF_flow(Handler!Restart /\ UNCHANGED <<vars, about>>)

-----------------------------------------------------------------------------
(* What the two services promise together.                                  *)

Heard == {about[n] : n \in Handler!Noticed}

Concluded == {about[n] : n \in 1 .. settled}

Promise == INSTANCE EndToEnd
    WITH kept <- Published, reply <- [q \in Requests |-> ReplyTo(q)],
         heard <- Heard, concluded <- Concluded

\* The API, the bounded context and the handler implement EndToEnd: nothing comes of a
\* refused request, and no event is done with before an FSP or the operator has heard
\* of it, whatever fails on the way and whoever crashes.
ImplementsEndToEnd == Promise!Spec

\* What an FSP may conclude from the status it got: nobody ever hears of a request that
\* was answered with 400, 404 or 503, so it can be made again; a 500 says nothing (the
\* catch of every API handler answers 500 also when Kafka may have the event).
RefusalIsFinal ==
    \A q \in Heard : answer[q] \notin {"BadRequest", "NotFound", "ServiceUnavailable"}

\* No FSP gets a callback about a POST or PUT whose signature did not verify, whatever
\* service it passes through on the way.
OnlyVerifiedReachFsps ==
    \A k \in DOMAIN outbox :
        LET r == request[about[outbox[k].event]]
        IN  (JwsEnabled /\ r.route.method \in {"POST", "PUT"}) => "signature" \notin r.faults

\* What is due to the FSP that made request q when event n about it is settled: what came
\* of the request was delivered, or feedback was attempted for its maker.  Of a rejection
\* that failed it is the other party that is told (buildErrorResponseBasedOnErrorEvent), and
\* of an answer to a query only the operator, its feedback being meant for the switch.
SenderIsDue(n, q) ==
    \/ log[n].name # "ErrorEvent" /\ Handler!Delivered(n)
    \/ Sender[q] \in Handler!AttemptedFor(n)
    \/ /\ log[n].name = "ErrorEvent"
       /\ log[n].sourceMessage = "TransferRejectRequestedEvt"
       /\ Recipient[q] \in Handler!AttemptedFor(n)
    \/ /\ log[n].name \in Handler!QueryResponses
       /\ [event |-> n, fsp |-> Switch] \in operator \cup dropped

\* The FSP that made a request the switch is done with is never left in the dark by a
\* failure on the way, although three services and two topics stand between the headers it
\* sent and the ones the feedback is addressed by.
SenderIsTold == \A n \in 1 .. settled : SenderIsDue(n, about[n])

\* Whatever becomes of the API's process and however often the handler's is restarted,
\* a request in the topic is concluded, and an FSP or the operator has heard of it.
EveryRequestConcluded ==
    \A q \in Requests : (q \in Published) ~> (q \in Concluded \cap Heard)

-----------------------------------------------------------------------------
(* The inductive invariant.                                                 *)

\* The event handler works within its topic, and what it has settled it has read.
LoopInv ==
    /\ handlerName = "Transfers"
    /\ log \in Seq(AnyAnswer)
    /\ committed \in Nat /\ settled \in Nat /\ pos \in Nat /\ batchEnd \in Nat
    /\ committed <= settled
    /\ pos <= settled
    /\ settled <= Len(log)
    /\ pc \in Handler!Working => pos < batchEnd /\ batchEnd <= Len(log)
    /\ pc = "commit" => pos = batchEnd

\* Every event of the handler's topic is about a request in the API's, and carries its
\* headers.
AboutInv ==
    /\ about \in Seq(Requests)
    /\ Len(about) = Len(log)
    /\ \A n \in DOMAIN about :
           /\ about[n] \in Published
           /\ log[n].headers =
                  [source |-> Sender[about[n]], destination |-> Recipient[about[n]]]

\* What is heard of is in the topic, and processMessage does not return before somebody
\* has heard of its event.
HeardInv ==
    /\ Handler!Noticed \subseteq DOMAIN about
    /\ 1 .. settled \subseteq Handler!Noticed
    /\ pc = "return" => pos + 1 \in Handler!Noticed

FlowInv == IInv /\ LoopInv /\ AboutInv /\ HeardInv
=============================================================================
