---------------------------- MODULE EventHandler ----------------------------
(***************************************************************************)
(* One event handler of the FSPIOP event handler service: the Kafka        *)
(* consumer loop of BaseEventHandler, the processMessage of the subclass   *)
(* handlerName, the HTTP requests it makes to the FSPs, its error feedback *)
(* and the operator error events it falls back to.                         *)
(*                                                                         *)
(* Every await that an outside party can see is a step of its own, so the  *)
(* process can stop between any two of them; after a restart the consumer  *)
(* group resumes at the last committed offset and a fresh copy of the      *)
(* event is parsed, with the headers it was published with.                *)
(*                                                                         *)
(* The events a handler reads are named by their position in the topic.    *)
(* "outbox" is what the FSPs have received, in order: history, as are      *)
(* "operator", "dropped" and "settled".                                    *)
(*                                                                         *)
(* Operators marked "Variant" are mistakes the code does not make: they    *)
(* show that the properties below would notice them.                       *)
(***************************************************************************)
EXTENDS FspiopEvents, Functions

CONSTANTS Handlers,      \* the subclasses looked at
          Participants,  \* the FSPs the participants service knows, with an endpoint
          Published,     \* for each of them, the events its topic may be sent
          BatchSize,     \* bound on one batch of the consumer
          MaxEvents,     \* bound on the length of the topic
          MaxRestarts    \* bound on the number of crashes

ASSUME HandlerAssumption ==
    /\ Handlers \subseteq HandlerNames
    /\ Participants \subseteq Fsp
    /\ Published \in [Handlers -> SUBSET Event]
    /\ BatchSize \in Nat \ {0}
    /\ MaxEvents \in Nat
    /\ MaxRestarts \in Nat

VARIABLES
    log,         \* the topic: the events published so far
    committed,   \* the consumer group's offset: the events it will not read again
    handlerName, \* which of the three subclasses this is
    life,        \* how often the process has been restarted
    pc,          \* where the consumer loop is
    pos,         \* events of the topic this life is done with
    batchEnd,    \* the last event of the batch being processed
    hdr,         \* the headers of the message object in memory
    call,        \* the next request of the delivery plan
    targets,     \* the FSPs still to be told of an error
    outbox,      \* the requests FSPs have received
    operator,    \* the operator error events published
    dropped,     \* the operator error events that could not be published
    settled      \* the events processMessage has returned for, in any life

kafka == <<log, committed>>
loop == <<handlerName, life, pos, batchEnd>>
message == <<hdr, call, targets>>
effects == <<outbox, operator, dropped>>
vars == <<kafka, loop, pc, message, effects, settled>>

Locations == {"down", "idle", "dispatch", "send", "feedback", "operator", "return", "commit"}

NoHeaders == [source |-> NoFsp, destination |-> NoFsp]

Callback == [event : Nat, life : Nat, to : FspId, method : Methods,
             headers : Headers, acked : BOOLEAN]

Report == [event : Nat, fsp : FspId]

TypeOK ==
    /\ log \in Seq(Event)
    /\ committed \in Nat
    /\ handlerName \in Handlers
    /\ life \in Nat
    /\ pc \in Locations
    /\ pos \in Nat
    /\ batchEnd \in Nat
    /\ hdr \in Headers
    /\ call \in Nat
    /\ targets \in Seq(FspId)
    /\ outbox \in Seq(Callback)
    /\ operator \subseteq Report
    /\ dropped \subseteq Report
    /\ settled \in Nat

Init ==
    /\ log = <<>>
    /\ committed = 0
    /\ handlerName \in Handlers
    /\ life = 0
    /\ pc = "idle"
    /\ pos = 0
    /\ batchEnd = 0
    /\ hdr = NoHeaders
    /\ call = 0
    /\ targets = <<>>
    /\ outbox = <<>>
    /\ operator = {}
    /\ dropped = {}
    /\ settled = 0

-----------------------------------------------------------------------------
(* The message being processed.                                             *)

current == pos + 1

event == log[current]

plan == PlanOf(handlerName, event)

Received(to, method, headers, acked) ==
    [event |-> current, life |-> life, to |-> to, method |-> method,
     headers |-> headers, acked |-> acked]

\* The request _sendHttpRequest is waiting for.
SentCall(acked) ==
    LET c == plan.calls[call] IN Received(c.to, c.method, c.headers, acked)

\* The error feedback goes out under the headers of the message, whoever it is
\* for; a missing destination becomes the source.
FeedbackHeaders ==
    IF hdr.destination = NoFsp THEN [hdr EXCEPT !.destination = hdr.source] ELSE hdr

SentFeedback(acked) == Received(Head(targets), "FEEDBACK", FeedbackHeaders, acked)

OperatorReport == [event |-> current, fsp |-> Head(targets)]

\* Variant: the destination is told in the source's place.
CatchTellsDestination(h) ==
    /\ hdr' = h
    /\ targets' = <<h.destination>>
    /\ call' = 0
    /\ pc' = "feedback"

\* Variant: both parties of the headers are told.
CatchTellsBoth(h) ==
    /\ hdr' = h
    /\ targets' = FspIds(h.source, h.destination)
    /\ call' = 0
    /\ pc' = "feedback"

\* What processMessage's catch block does: it reads the headers of the message
\* object as the handler method has left them, and tells their source.
Catch(h) ==
    /\ hdr' = h
    /\ targets' = <<h.source>>
    /\ call' = 0
    /\ pc' = "feedback"

\* Variant: the try is around the loop, which ends with its first FSP.
NextTargetEndsLoop ==
    /\ targets' = <<>>
    /\ pc' = "return"
    /\ UNCHANGED <<hdr, call>>

\* The next FSP of _sendErrorFeedbackToFsp's loop, if there is one.
NextTarget ==
    /\ targets' = Tail(targets)
    /\ pc' = IF Len(targets) = 1 THEN "return" ELSE "feedback"
    /\ UNCHANGED <<hdr, call>>

-----------------------------------------------------------------------------
(* The other bounded contexts and Kafka.                                    *)

Publish(e) ==
    /\ Len(log) < MaxEvents
    /\ log' = Append(log, e)
    /\ UNCHANGED <<committed, loop, pc, message, effects, settled>>

\* Variant: the offsets of a batch are committed as it is fetched.
FetchCommitsFirst(n) ==
    /\ pc = "idle"
    /\ n \in 1 .. BatchSize
    /\ pos + n <= Len(log)
    /\ batchEnd' = pos + n
    /\ committed' = pos + n
    /\ pc' = "dispatch"
    /\ UNCHANGED <<log, handlerName, life, pos, message, effects, settled>>

\* Variant: a batch may reach one beyond the end of the topic.
FetchPastEnd(n) ==
    /\ pc = "idle"
    /\ n \in 1 .. BatchSize
    /\ pos + n <= Len(log) + 1
    /\ batchEnd' = pos + n
    /\ pc' = "dispatch"
    /\ UNCHANGED <<kafka, handlerName, life, pos, message, effects, settled>>

Fetch(n) ==
    /\ pc = "idle"
    /\ n \in 1 .. BatchSize
    /\ pos + n <= Len(log)
    /\ batchEnd' = pos + n
    /\ pc' = "dispatch"
    /\ UNCHANGED <<kafka, handlerName, life, pos, message, effects, settled>>

\* Variant: the high watermark is committed.
CommitPublished ==
    /\ pc = "commit"
    /\ committed' = Len(log)
    /\ pc' = "idle"
    /\ UNCHANGED <<log, loop, message, effects, settled>>

\* The batch callback has returned: the client commits the batch's last offset.
Commit ==
    /\ pc = "commit"
    /\ committed' = batchEnd
    /\ pc' = "idle"
    /\ UNCHANGED <<log, loop, message, effects, settled>>

-----------------------------------------------------------------------------
(* processMessage.                                                          *)

Ignore ==
    /\ pc = "dispatch"
    /\ ~Handles(handlerName, event)
    /\ pc' = "return"
    /\ UNCHANGED <<kafka, loop, message, effects, settled>>

ReceiveErrorEvent ==
    /\ pc = "dispatch"
    /\ Handles(handlerName, event)
    /\ event.name = "ErrorEvent"
    /\ hdr' = event.headers
    /\ targets' = ErrorEventTargets(handlerName, event)
    /\ pc' = "feedback"
    /\ UNCHANGED <<kafka, loop, call, effects, settled>>

IsCallbackEvent ==
    /\ pc = "dispatch"
    /\ Handles(handlerName, event)
    /\ event.name # "ErrorEvent"

\* Variant: what the lookups have found is not looked at.
PrepareUnchecked ==
    /\ IsCallbackEvent
    /\ plan.validates => event.payloadValid
    /\ hdr' = plan.calls[1].headers
    /\ call' = 1
    /\ pc' = "send"
    /\ UNCHANGED <<kafka, loop, targets, effects, settled>>

\* Every participant is found, the payload is valid: the first request goes out.
Prepare ==
    /\ IsCallbackEvent
    /\ \A k \in DOMAIN plan.lookups : plan.lookups[k] \in Participants
    /\ plan.validates => event.payloadValid
    /\ hdr' = plan.calls[1].headers
    /\ call' = 1
    /\ pc' = "send"
    /\ UNCHANGED <<kafka, loop, targets, effects, settled>>

\* An unknown participant, a participants service that does not answer (the adapter
\* returns null for both) or an invalid payload.
PrepareFails ==
    /\ IsCallbackEvent
    /\ Catch(plan.headers)
    /\ UNCHANGED <<kafka, loop, effects, settled>>

\* Variant: the headers are switched after the first request, as a query's are.
SendOkSwitches ==
    /\ pc = "send"
    /\ outbox' = Append(outbox, SentCall(TRUE))
    /\ hdr' = Switched(hdr)
    /\ IF call < Len(plan.calls)
       THEN call' = call + 1 /\ UNCHANGED pc
       ELSE call' = 0 /\ pc' = "return"
    /\ UNCHANGED <<kafka, loop, targets, operator, dropped, settled>>

SendOk ==
    /\ pc = "send"
    /\ outbox' = Append(outbox, SentCall(TRUE))
    /\ IF call < Len(plan.calls)
       THEN /\ call' = call + 1
            /\ hdr' = plan.calls[call + 1].headers
            /\ UNCHANGED pc
       ELSE /\ call' = 0
            /\ pc' = "return"
            /\ UNCHANGED hdr
    /\ UNCHANGED <<kafka, loop, targets, operator, dropped, settled>>

\* Variant: the failure is swallowed where it happens.
SendFailsSwallowed(received) ==
    /\ pc = "send"
    /\ outbox' = IF received THEN Append(outbox, SentCall(FALSE)) ELSE outbox
    /\ pc' = "return"
    /\ UNCHANGED <<kafka, loop, message, operator, dropped, settled>>

\* Variant: the request is tried again.
SendFailsRetried(received) ==
    /\ pc = "send"
    /\ outbox' = IF received THEN Append(outbox, SentCall(FALSE)) ELSE outbox
    /\ UNCHANGED <<kafka, loop, pc, message, operator, dropped, settled>>

\* The connection is refused, the answer is an error or it is lost: in the last two
\* cases the FSP has received the request.
SendFails(received) ==
    /\ pc = "send"
    /\ outbox' = IF received THEN Append(outbox, SentCall(FALSE)) ELSE outbox
    /\ Catch(hdr)
    /\ UNCHANGED <<kafka, loop, operator, dropped, settled>>

FeedbackOk ==
    /\ pc = "feedback"
    /\ Head(targets) \in Participants
    /\ outbox' = Append(outbox, SentFeedback(TRUE))
    /\ NextTarget
    /\ UNCHANGED <<kafka, loop, operator, dropped, settled>>

\* Variant: an FSP that has no endpoint is waited for.
FeedbackFailsWaits(received) ==
    /\ pc = "feedback"
    /\ Head(targets) \in Participants
    /\ outbox' = IF received THEN Append(outbox, SentFeedback(FALSE)) ELSE outbox
    /\ pc' = "operator"
    /\ UNCHANGED <<kafka, loop, message, operator, dropped, settled>>

\* The target has no endpoint, or the request fails, received or not.
FeedbackFails(received) ==
    /\ pc = "feedback"
    /\ received => Head(targets) \in Participants
    /\ outbox' = IF received THEN Append(outbox, SentFeedback(FALSE)) ELSE outbox
    /\ pc' = "operator"
    /\ UNCHANGED <<kafka, loop, message, operator, dropped, settled>>

\* handleErrorEventForFspFeedbackFailure: if Kafka does not take the operator's
\* event either, the error is logged and that is all.
OperatorEvent(accepted) ==
    /\ pc = "operator"
    /\ IF accepted
       THEN operator' = operator \cup {OperatorReport} /\ UNCHANGED dropped
       ELSE dropped' = dropped \cup {OperatorReport} /\ UNCHANGED operator
    /\ NextTarget
    /\ UNCHANGED <<kafka, loop, outbox, settled>>

\* Variant: the loop over the batch advances twice.
ReturnSkipsNext ==
    /\ pc = "return"
    /\ pos' = current + 1
    /\ settled' = IF settled < current THEN current ELSE settled
    /\ pc' = IF current + 1 >= batchEnd THEN "commit" ELSE "dispatch"
    /\ hdr' = NoHeaders
    /\ UNCHANGED <<kafka, handlerName, life, batchEnd, call, targets, effects>>

\* processMessage returns to _processMessagesBatch, which goes on to the next message.
Return ==
    /\ pc = "return"
    /\ pos' = current
    /\ settled' = IF settled < current THEN current ELSE settled
    /\ pc' = IF current = batchEnd THEN "commit" ELSE "dispatch"
    /\ hdr' = NoHeaders
    /\ UNCHANGED <<kafka, handlerName, life, batchEnd, call, targets, effects>>

-----------------------------------------------------------------------------
(* The process.                                                             *)

\* What was in flight may or may not have arrived; what was in memory is lost.
Crash(received) ==
    /\ pc # "down"
    /\ life < MaxRestarts
    /\ \/ ~received /\ UNCHANGED effects
       \/ /\ received /\ pc = "send"
          /\ outbox' = Append(outbox, SentCall(FALSE))
          /\ UNCHANGED <<operator, dropped>>
       \/ /\ received /\ pc = "feedback" /\ Head(targets) \in Participants
          /\ outbox' = Append(outbox, SentFeedback(FALSE))
          /\ UNCHANGED <<operator, dropped>>
       \/ /\ received /\ pc = "operator"
          /\ operator' = operator \cup {OperatorReport}
          /\ UNCHANGED <<outbox, dropped>>
    /\ pc' = "down"
    /\ hdr' = NoHeaders
    /\ call' = 0
    /\ targets' = <<>>
    /\ UNCHANGED <<kafka, loop, settled>>

\* Variant: the consumer resumes one event too early.
RestartOneEarly ==
    /\ pc = "down"
    /\ life' = life + 1
    /\ pos' = committed - 1
    /\ batchEnd' = committed
    /\ pc' = "idle"
    /\ UNCHANGED <<kafka, handlerName, message, effects, settled>>

\* Variant: the consumer group starts from the beginning of the topic.
RestartFromBeginning ==
    /\ pc = "down"
    /\ life' = life + 1
    /\ pos' = 0
    /\ batchEnd' = 0
    /\ pc' = "idle"
    /\ UNCHANGED <<kafka, handlerName, message, effects, settled>>

Restart ==
    /\ pc = "down"
    /\ life' = life + 1
    /\ pos' = committed
    /\ batchEnd' = committed
    /\ pc' = "idle"
    /\ UNCHANGED <<kafka, handlerName, message, effects, settled>>

-----------------------------------------------------------------------------
ProcessMessage ==
    \/ Ignore
    \/ ReceiveErrorEvent
    \/ Prepare
    \/ PrepareFails
    \/ SendOk
    \/ \E received \in BOOLEAN : SendFails(received)
    \/ FeedbackOk
    \/ \E received \in BOOLEAN : FeedbackFails(received)
    \/ \E accepted \in BOOLEAN : OperatorEvent(accepted)
    \/ Return

Consume == Commit \/ \E n \in 1 .. BatchSize : Fetch(n)

Next ==
    \/ \E e \in Published[handlerName] : Publish(e)
    \/ Consume
    \/ ProcessMessage
    \/ \E received \in BOOLEAN : Crash(received)
    \/ Restart

Spec == Init /\ [][Next]_vars

\* The consumer loop goes on as long as the process runs and a container restarts a
\* process that has ended.  Taking ProcessMessage as fair assumes that every HTTP
\* request is answered in the end: sendRequest sets no timeout of its own.
FairSpec ==
    /\ Spec
    /\ WF_vars(Consume)
    /\ WF_vars(ProcessMessage)
    /\ WF_vars(Restart)

-----------------------------------------------------------------------------
(* What the handler promises about the topic.                               *)

\* The events an FSP or the operator has heard of.
Noticed ==
    {outbox[k].event : k \in DOMAIN outbox} \cup {r.event : r \in operator \cup dropped}

Settlement == INSTANCE EventSettlement
    WITH Batch <- BatchSize, published <- Len(log), noticed <- Noticed

\* The handler implements EventSettlement: events are taken in order, none is
\* committed before processMessage has returned for it, and a crash makes it repeat
\* at most the events of one batch (_processMessagesBatch awaits every message).
ImplementsSettlement == Settlement!Spec

\* Nothing is said outside about event n before every event ahead of it is settled,
\* although each message takes many awaits (the batch loop awaits processMessage).
InOrder == \A n \in Noticed : n <= settled + 1

\* "otherwise this will commit the event and will be lost": an event is committed only
\* when processMessage has returned for it, and what a crash can repeat is one batch.
CommittedAreSettled == committed <= settled /\ settled <= committed + BatchSize

\* No FSP hears again of an event whose offset is committed, however often the process
\* crashes: only the events of the batch under way are ever repeated.
NoCallbackAfterCommit ==
    [][Len(outbox') > Len(outbox) => outbox'[Len(outbox')].event > committed]_vars

\* Every event published is committed in the end, whatever fails: an event that cannot
\* be delivered must not hold up those behind it (the catch of processMessage and the
\* .catch of the operator event see to it).
EveryEventCommitted ==
    \A n \in 1 .. MaxEvents : (Len(log) >= n) ~> (committed >= n)

-----------------------------------------------------------------------------
(* What it promises about one event.                                        *)

Settled(n) == n \in 1 .. settled /\ Handles(handlerName, log[n])

\* The FSPs that were sent error feedback for event n, or could not be and the
\* operator's event says so, or its loss is in the log file.
AttemptedFor(n) ==
    {outbox[k].to : k \in {j \in DOMAIN outbox : /\ outbox[j].event = n
                                                  /\ outbox[j].method = "FEEDBACK"
                                                  /\ outbox[j].acked}}
        \cup {r.fsp : r \in {s \in operator \cup dropped : s.event = n}}

Acked(n, l, c) ==
    \E k \in DOMAIN outbox : outbox[k] = [event |-> n, life |-> l, to |-> c.to,
                                          method |-> c.method, headers |-> c.headers,
                                          acked |-> TRUE]

\* Every request of event n's plan was answered, all in the same life.
Delivered(n) ==
    \E l \in 0 .. life :
        LET calls == PlanOf(handlerName, log[n]).calls
        IN  \A k \in DOMAIN calls : Acked(n, l, calls[k])

\* An event is never settled in silence: either all its requests were answered or
\* somebody was picked to be told of the failure (processMessage's catch).
NoSilentLoss ==
    \A n \in 1 .. settled :
        (Settled(n) /\ log[n].name # "ErrorEvent") => Delivered(n) \/ AttemptedFor(n) # {}

\* Of an error event every FSP buildErrorResponseBasedOnErrorEvent names is told, also
\* when telling the one before it fails (the try is inside the loop of
\* _sendErrorFeedbackToFsp).
ErrorEventReachesAll ==
    \A n \in 1 .. settled :
        (Settled(n) /\ log[n].name = "ErrorEvent") =>
            \A k \in DOMAIN ErrorEventTargets(handlerName, log[n]) :
                ErrorEventTargets(handlerName, log[n])[k] \in AttemptedFor(n)

\* The events whose handlers switch the headers, because the requester asked the switch.
QueriesOfTransfers == {"TransferQueryResponseEvt", "BulkTransferQueryResponseEvt"}
QueriesOfQuotes == {"QuoteQueryResponseEvt", "BulkQuoteQueryResponseEvt"}
QueriesOfAccounts ==
    {"ParticipantQueryResponseEvt", "ParticipantAssociationCreatedEvt",
     "ParticipantAssociationRemovedEvt"}

QueryResponses == QueriesOfTransfers \cup QueriesOfQuotes \cup QueriesOfAccounts

\* The source header of the message in the handler method, from its first lookup on.
HeldSource(e) == IF e.name \in QueryResponses THEN Switch ELSE e.headers.source

DeliveredOrReported(n) == Delivered(n) \/ log[n].headers.source \in AttemptedFor(n)

\* When an event could not be delivered, error feedback was attempted for the FSP that
\* made the request the event is about, unless the handler had switched its headers
\* (the catch of processMessage reads the source header when all is over).
RequesterIsToldOfFailure ==
    \A n \in 1 .. settled :
        (Settled(n) /\ log[n].name \notin QueryResponses \cup {"ErrorEvent"}) =>
            DeliveredOrReported(n)

\* "We always have a sourceFsp to send info to" (base_event_handler.ts): the same, of
\* every event.
AlwaysASourceFsp ==
    \A n \in 1 .. settled :
        (Settled(n) /\ log[n].name # "ErrorEvent") => DeliveredOrReported(n)

\* The payee hears PATCH only after the payer has acknowledged the PUT, in the same
\* life: a redelivery after a crash starts again with the payer.
PatchAfterPut ==
    \A j \in DOMAIN outbox :
        outbox[j].method = "PATCH" =>
            \E i \in 1 .. j - 1 :
                /\ outbox[i].event = outbox[j].event
                /\ outbox[i].life = outbox[j].life
                /\ outbox[i].method = "PUT"
                /\ outbox[i].acked

\* An error event about an FSP's request to itself.
ToItself(e) == e.name = "ErrorEvent" /\ e.headers.source = e.headers.destination

\* Without a crash an FSP never receives the same request twice: no path of the code
\* retries one, nor sends the same feedback again.  Only who is both parties of a failed
\* fulfilment hears of it twice: _sendErrorFeedbackToFsp does not compare the two ids.
NoRepeatWithoutRestart ==
    \A i, j \in DOMAIN outbox :
        (/\ i < j
         /\ outbox[i].event = outbox[j].event
         /\ outbox[i].life = outbox[j].life
         /\ ~ToItself(log[outbox[i].event])) =>
            <<outbox[i].to, outbox[i].method>> # <<outbox[j].to, outbox[j].method>>

\* Feedback after an answered request contradicts it, unless it is the one case of two
\* requests: the payer has its PUT, the PATCH to the payee has failed, and it is the
\* payee who is told.
FeedbackAfterSuccess ==
    \A i, j \in DOMAIN outbox :
        (/\ outbox[i].event = outbox[j].event
         /\ outbox[i].life = outbox[j].life
         /\ outbox[i].acked
         /\ outbox[i].method # "FEEDBACK"
         /\ outbox[j].method = "FEEDBACK") =>
            LET e == log[outbox[i].event]
            IN  /\ e.name = "TransferFulfiledEvt"
                /\ e.notifyPayee
                /\ outbox[i].method = "PUT"
                /\ outbox[j].to = e.headers.source

\* The FSPs an event is about.
Parties(e) == {e.headers.source, e.headers.destination, e.payloadFsp}

\* Whoever receives anything about an event is a participant and a party to it, though ids
\* come from the payload of some events and from the headers of others, are switched on the
\* way, and both participants of a fulfilment are looked up before either is called.
OnlyPartiesHear ==
    \A k \in DOMAIN outbox :
        outbox[k].to \in Participants \cap Parties(log[outbox[k].event])

\* Whatever goes out about an event names as its source the FSP the event names, or the
\* switch where the handler answers in its name: the header is changed in the message object
\* and read again by each request, the catch of processMessage and all of its feedback.
SourceIsHeld ==
    \A k \in DOMAIN outbox :
        outbox[k].headers.source = HeldSource(log[outbox[k].event])

\* The PUT that answers a query goes to the FSP that asked.
AnswersReachRequester(queries) ==
    \A k \in DOMAIN outbox :
        (outbox[k].method = "PUT" /\ log[outbox[k].event].name \in queries) =>
            outbox[k].to = log[outbox[k].event].headers.source

\* So it is with what the account lookup handler answers in the switch's name: it reads
\* destinationFspId after it has switched the headers.
OracleAnswersReachRequester == AnswersReachRequester(QueriesOfAccounts)

\* "The callback PUT /transfers/{ID} is used to inform the client of a requested or
\* created transfer" (api_spec.yaml): the transfers handler reads destinationFspId before
\* it switches the headers.
TransferAnswersReachClient == AnswersReachRequester(QueriesOfTransfers)

-----------------------------------------------------------------------------
(* The inductive invariant.                                                 *)

Working == {"dispatch", "send", "feedback", "operator", "return"}

\* The batch under way starts at the committed offset, lies within the topic, and what
\* has been settled beyond the committed offset, in this life or before, is one batch.
BatchInv ==
    /\ CommittedAreSettled
    /\ settled <= Len(log)
    /\ pos <= settled
    /\ pc = "idle" => pos = committed
    /\ pc \in Working \cup {"commit"} =>
           /\ committed <= pos
           /\ batchEnd <= Len(log)
           /\ batchEnd <= committed + BatchSize
    /\ pc \in Working => pos < batchEnd
    /\ pc = "commit" => pos = batchEnd

\* A request is made only for an event with a plan, and a step of the feedback loop
\* has an FSP to tell.
MessageInv ==
    /\ pc = "send" =>
           /\ Handles(handlerName, event)
           /\ event.name # "ErrorEvent"
           /\ call \in 1 .. Len(plan.calls)
    /\ pc \in {"feedback", "operator"} => Len(targets) > 0

\* Every fact about the past that the promises need: who reads this as an invariant
\* learns that no interleaving of crashes, batches and failures gets out of step.
IInv == TypeOK /\ BatchInv /\ MessageInv /\ InOrder

\* What FSPs have received about the event being processed, in this life.
Here == {k \in DOMAIN outbox : outbox[k].event = current /\ outbox[k].life = life}

\* The outbox is about events of the topic, what this life has sent is about events it has
\* read, and every request but feedback is of the plan for its event.
OutboxInv ==
    \A k \in DOMAIN outbox :
        LET c == outbox[k]
        IN  /\ c.event \in 1 .. Len(log)
            /\ c.life <= life
            /\ (c.life = life /\ pc # "down") =>
                   c.event <= pos \/ (c.event = current /\ pc \in Working \ {"dispatch"})
            /\ c.method # "FEEDBACK" =>
                   /\ Handles(handlerName, log[c.event])
                   /\ log[c.event].name # "ErrorEvent"
                   /\ \E r \in Range(PlanOf(handlerName, log[c.event]).calls) :
                          c.to = r.to /\ c.method = r.method

\* The requests of the plan are made one after the other, each when the one before it has
\* been answered.
SendInv ==
    pc = "send" =>
        /\ hdr = plan.calls[call].headers
        /\ \A j \in 1 .. call - 1 : Acked(current, life, plan.calls[j])
        /\ \A k \in Here : \E j \in 1 .. call - 1 : outbox[k].method = plan.calls[j].method

\* While anybody is still to be told, those who need not be told any more have been; after
\* an answered request that is the payee alone.
FeedbackInv ==
    pc \in {"feedback", "operator"} =>
        /\ Handles(handlerName, event)
        /\ event.name = "ErrorEvent" =>
               \A f \in Range(ErrorEventTargets(handlerName, event)) :
                   f \in AttemptedFor(current) \cup Range(targets)
        /\ event.name # "ErrorEvent" =>
               /\ Len(targets) = 1
               /\ Head(targets) = HeldSource(event)
               /\ \A k \in Here :
                      (outbox[k].acked /\ outbox[k].method # "FEEDBACK") =>
                          /\ event.name = "TransferFulfiledEvt"
                          /\ event.notifyPayee
                          /\ outbox[k].method = "PUT"

\* The FSPs the loop has not tried to tell: in "operator" the first of the list has been.
Untried == IF pc = "operator" THEN Range(Tail(targets)) ELSE Range(targets)

\* Nobody is on the list twice, and whoever has not been tried has received no feedback on
\* this event in this life.
UntriedInv ==
    (pc \in {"feedback", "operator"} /\ ~ToItself(event)) =>
        /\ IsInjective(targets)
        /\ \A k \in Here : outbox[k].method = "FEEDBACK" => outbox[k].to \notin Untried

\* Those who are going to receive something are parties too; the switch may be on the list
\* of those to be told, but it is no participant.
PartiesInv ==
    /\ pc = "send" =>
           \A j \in DOMAIN plan.calls : plan.calls[j].to \in Participants \cap Parties(event)
    /\ pc \in {"feedback", "operator"} =>
           \A k \in DOMAIN targets : targets[k] \in Parties(event) \cup {Switch}

\* The message object names that source until processMessage returns.
HeldInv == pc \in {"send", "feedback", "operator"} => hdr.source = HeldSource(event)

\* All that can be done about event n has been done.
Concluded(n) ==
    /\ log[n].name = "ErrorEvent" =>
           Range(ErrorEventTargets(handlerName, log[n])) \subseteq AttemptedFor(n)
    /\ log[n].name # "ErrorEvent" =>
           Delivered(n) \/ HeldSource(log[n]) \in AttemptedFor(n)

ConcludedInv ==
    /\ (pc = "return" /\ Handles(handlerName, event)) => Concluded(current)
    /\ \A n \in 1 .. settled : Settled(n) => Concluded(n)

\* What is promised about one event, and what it takes to keep it: the outbox, the steps of
\* processMessage and the plan agree in every life.
DeliveryInv ==
    /\ OutboxInv
    /\ SendInv
    /\ FeedbackInv
    /\ UntriedInv
    /\ PartiesInv
    /\ HeldInv
    /\ ConcludedInv
    /\ PatchAfterPut
    /\ FeedbackAfterSuccess
    /\ NoRepeatWithoutRestart
    /\ OnlyPartiesHear
    /\ SourceIsHeld
=============================================================================
