------------------------- MODULE EventHandlerProofs -------------------------
(***************************************************************************)
(* Proofs about EventHandler, for any set of participants and published    *)
(* events, any of the three handlers, any batch size and any number of     *)
(* events and crashes.                                                     *)
(***************************************************************************)
EXTENDS EventHandler, SequenceTheorems, TLAPS

-----------------------------------------------------------------------------
(* What the handler methods plan is well formed.                            *)

Request == [method : Methods, to : FspId, headers : Headers]

\* Headers of the message, and at least one request, each well formed.
WellFormed(p) ==
    /\ p.headers \in Headers
    /\ p.calls \in Seq(Request)
    /\ Len(p.calls) > 0

\* A plan with one lookup and one request is well formed.
LEMMA ToFspType ==
    ASSUME NEW h \in Headers, NEW fsp \in FspId, NEW method \in Methods
    PROVE  WellFormed(ToFsp(h, fsp, method))
  BY DEF WellFormed, ToFsp, Plan, Call, Request

\* Leaving out the validation changes neither the headers nor the requests.
LEMMA ToFspUnvalidatedType ==
    ASSUME NEW h \in Headers, NEW fsp \in FspId, NEW method \in Methods
    PROVE  WellFormed([ToFsp(h, fsp, method) EXCEPT !.validates = FALSE])
  BY DEF WellFormed, ToFsp, Plan, Call, Request

\* The headers of an event, switched or not, and its payload's FSP are well formed.
LEMMA EventHeaders ==
    ASSUME NEW e \in Event
    PROVE  /\ e.headers \in Headers
           /\ e.headers.source \in FspId
           /\ e.headers.destination \in FspId
           /\ e.payloadFsp \in FspId
           /\ Switched(e.headers) \in Headers
           /\ Switched(e.headers).destination \in FspId
  BY DEF Event, Headers, FspId, Switched

\* The two handler methods that are not one lookup and one request under one set of
\* headers.
LEMMA FulfilType ==
    ASSUME NEW e \in Event
    PROVE  WellFormed(handleTransferFulfiledEvt(e))
  <1>1. /\ Call("PUT", e.headers.destination, e.headers) \in Request
        /\ Call("PATCH", e.headers.source, e.headers) \in Request
    BY EventHeaders DEF Call, Request, Methods
  <1>. QED
    BY <1>1, EventHeaders DEF WellFormed, handleTransferFulfiledEvt, Plan

\* The party request, which may fill in the destination.
LEMMA PartyInfoType ==
    ASSUME NEW e \in Event
    PROVE  WellFormed(handlePartyInfoRequestedEvt(e))
  <1>. DEFINE sent == IF e.headers.destination = NoFsp
                      THEN [e.headers EXCEPT !.destination = e.payloadFsp]
                      ELSE e.headers
  <1>1. sent \in Headers
    BY EventHeaders DEF Headers
  <1>2. Call("GET", e.payloadFsp, sent) \in Request
    BY <1>1, EventHeaders DEF Call, Request, Methods
  <1>. QED
    BY <1>2, EventHeaders DEF WellFormed, handlePartyInfoRequestedEvt, Plan

\* The switch statement of the transfers handler ends in a well-formed plan.
LEMMA TransfersPlanType ==
    ASSUME NEW e \in Event, e.name \in TransfersEvents
    PROVE  WellFormed(TransfersPlan(e))
  <1>1. CASE e.name = "TransferPreparedEvt"
    BY <1>1, EventHeaders, ToFspType
    DEF TransfersPlan, handleTransferPreparedEvt, Methods
  <1>2. CASE e.name = "TransferFulfiledEvt"
    BY <1>2, FulfilType DEF TransfersPlan
  <1>3. CASE e.name = "TransferQueryResponseEvt"
    BY <1>3, EventHeaders, ToFspType
    DEF TransfersPlan, handleTransferQueryResponseEvt, Methods
  <1>4. CASE e.name = "TransferRejectRequestProcessedEvt"
    BY <1>4, EventHeaders, ToFspType
    DEF TransfersPlan, handleTransferRejectRequestEvt, ToDestination, Methods
  <1>5. CASE e.name = "BulkTransferPreparedEvt"
    BY <1>5, EventHeaders, ToFspType
    DEF TransfersPlan, handleBulkTransferPreparedEvt, ToDestination, Methods
  <1>6. CASE e.name = "BulkTransferFulfiledEvt"
    BY <1>6, EventHeaders, ToFspType
    DEF TransfersPlan, handleBulkTransferFulfiledEvt, ToDestination, Methods
  <1>7. CASE e.name = "BulkTransferQueryResponseEvt"
    BY <1>7, EventHeaders, ToFspType
    DEF TransfersPlan, handleBulkTransferQueryResponseEvt, Methods
  <1>8. CASE e.name = "BulkTransferRejectRequestProcessedEvt"
    BY <1>8, EventHeaders, ToFspType
    DEF TransfersPlan, handleBulkTransferRejectRequestEvt, ToDestination, Methods
  <1>. QED
    BY <1>1, <1>2, <1>3, <1>4, <1>5, <1>6, <1>7, <1>8 DEF TransfersEvents

\* So does the one of the quoting handler.
LEMMA QuotingPlanType ==
    ASSUME NEW e \in Event, e.name \in QuotingEvents
    PROVE  WellFormed(QuotingPlan(e))
  <1>1. CASE e.name = "QuoteRequestAcceptedEvt"
    BY <1>1, EventHeaders, ToFspType
    DEF QuotingPlan, handleQuoteRequestAcceptedEvt, Methods
  <1>2. CASE e.name = "QuoteResponseAcceptedEvt"
    BY <1>2, EventHeaders, ToFspType
    DEF QuotingPlan, handleQuoteResponseAcceptedEvt, ToDestination, Methods
  <1>3. CASE e.name = "QuoteQueryResponseEvt"
    BY <1>3, EventHeaders, ToFspUnvalidatedType
    DEF QuotingPlan, handleQuoteQueryResponseEvt, Methods
  <1>4. CASE e.name = "QuoteRejectedResponseEvt"
    BY <1>4, EventHeaders, ToFspType
    DEF QuotingPlan, handleQuoteRejectRequestEvt, ToDestination, Methods
  <1>5. CASE e.name = "BulkQuoteReceivedEvt"
    BY <1>5, EventHeaders, ToFspType
    DEF QuotingPlan, handleBulkQuoteReceivedEvt, ToDestination, Methods
  <1>6. CASE e.name = "BulkQuoteAcceptedEvt"
    BY <1>6, EventHeaders, ToFspType
    DEF QuotingPlan, handleBulkQuoteAcceptedEvt, ToDestination, Methods
  <1>7. CASE e.name = "BulkQuoteQueryResponseEvt"
    BY <1>7, EventHeaders, ToFspUnvalidatedType
    DEF QuotingPlan, handleBulkQuoteQueryResponseEvt, Methods
  <1>8. CASE e.name = "BulkQuoteRejectedResponseEvt"
    BY <1>8, EventHeaders, ToFspType
    DEF QuotingPlan, handleBulkQuoteRejectRequestEvt, ToDestination, Methods
  <1>. QED
    BY <1>1, <1>2, <1>3, <1>4, <1>5, <1>6, <1>7, <1>8 DEF QuotingEvents

\* And the one of the account lookup handler.
LEMMA AccountLookupPlanType ==
    ASSUME NEW e \in Event, e.name \in AccountLookupEvents
    PROVE  WellFormed(AccountLookupPlan(e))
  <1>1. CASE e.name = "ParticipantAssociationCreatedEvt"
    BY <1>1, EventHeaders, ToFspUnvalidatedType
    DEF AccountLookupPlan, handleParticipantAssociationRequestReceivedEvt, ToRequester,
        Methods
  <1>2. CASE e.name = "ParticipantAssociationRemovedEvt"
    BY <1>2, EventHeaders, ToFspType
    DEF AccountLookupPlan, handleParticipantDisassociateRequestReceivedEvt, ToRequester,
        Methods
  <1>3. CASE e.name = "PartyInfoRequestedEvt"
    BY <1>3, PartyInfoType DEF AccountLookupPlan
  <1>4. CASE e.name = "PartyQueryResponseEvt"
    BY <1>4, EventHeaders, ToFspType
    DEF AccountLookupPlan, handlePartyQueryResponseEvt, ToDestination, Methods
  <1>5. CASE e.name = "ParticipantQueryResponseEvt"
    BY <1>5, EventHeaders, ToFspType
    DEF AccountLookupPlan, handleParticipantQueryResponseEvt, ToRequester, Methods
  <1>6. CASE e.name = "PartyRejectedResponseEvt"
    BY <1>6, EventHeaders, ToFspType
    DEF AccountLookupPlan, handlePartyRejectedResponseEvt, ToDestination, Methods
  <1>7. CASE e.name = "ParticipantRejectedResponseEvt"
    BY <1>7, EventHeaders, ToFspType
    DEF AccountLookupPlan, handleParticipantRejectedResponseEvt, ToDestination, Methods
  <1>. QED
    BY <1>1, <1>2, <1>3, <1>4, <1>5, <1>6, <1>7 DEF AccountLookupEvents

\* Whatever the handler, what it plans for an event it handles is well formed.
LEMMA PlanType ==
    ASSUME NEW h \in HandlerNames, NEW e \in Event, Handles(h, e), e.name # "ErrorEvent"
    PROVE  WellFormed(PlanOf(h, e))
  <1>1. e.name \in CallbackEvents(h)
    BY DEF Handles
  <1>2. CASE h = "Transfers"
    BY <1>1, <1>2, TransfersPlanType DEF PlanOf, CallbackEvents
  <1>3. CASE h = "Quotes"
    BY <1>1, <1>3, QuotingPlanType DEF PlanOf, CallbackEvents
  <1>4. CASE h = "AccountLookUp"
    BY <1>1, <1>4, AccountLookupPlanType DEF PlanOf, CallbackEvents
  <1>. QED
    BY <1>2, <1>3, <1>4 DEF HandlerNames

\* An error event always has somebody to be told.
LEMMA ErrorTargetsType ==
    ASSUME NEW h, NEW e \in Event
    PROVE  /\ ErrorEventTargets(h, e) \in Seq(FspId)
           /\ Len(ErrorEventTargets(h, e)) > 0
  <1>. DEFINE s == e.headers.source
              d == e.headers.destination
  <1>1. s \in FspId /\ d \in FspId
    BY EventHeaders
  <1>2. \A a, b \in FspId : FspIds(a, b) \in Seq(FspId) /\ Len(FspIds(a, b)) > 0
    BY DEF FspIds
  <1>3. NoFsp \in FspId
    BY DEF FspId
  <1>4. ErrorEventTargets(h, e) \in {FspIds(s, d), FspIds(d, NoFsp), FspIds(s, NoFsp)}
    BY DEF ErrorEventTargets
  <1>. QED
    BY <1>1, <1>2, <1>3, <1>4

-----------------------------------------------------------------------------
(* The message being processed.                                             *)

\* While a message is being processed it is one of the topic's events.
LEMMA EventType ==
    ASSUME TypeOK, BatchInv, pc \in Working
    PROVE  current \in 1 .. Len(log) /\ event \in Event
  <1>1. current \in 1 .. Len(log)
    BY DEF TypeOK, BatchInv, CommittedAreSettled, current
  <1>. QED
    BY <1>1, ElementOfSeq DEF TypeOK, event

\* And what is planned for it is well formed, if it is handled.
LEMMA PlanWellFormed ==
    ASSUME TypeOK, BatchInv, pc \in Working,
           Handles(handlerName, event), event.name # "ErrorEvent"
    PROVE  WellFormed(plan)
  BY EventType, PlanType, HandlerAssumption DEF TypeOK, plan

\* A request that is sent is recorded as one well-formed callback about the message.
LEMMA SentCallType ==
    ASSUME TypeOK, BatchInv, MessageInv, pc = "send", NEW acked \in BOOLEAN
    PROVE  SentCall(acked) \in Callback /\ SentCall(acked).event = current
  <1>1. event \in Event /\ current \in Nat
    BY EventType DEF Working
  <1>2. WellFormed(plan)
    BY PlanWellFormed DEF MessageInv, Working
  <1>3. plan.calls[call] \in Request
    BY <1>2, ElementOfSeq DEF WellFormed, MessageInv
  <1>. QED
    BY <1>1, <1>3 DEF SentCall, Received, Request, Callback, TypeOK

\* So is error feedback.
LEMMA SentFeedbackType ==
    ASSUME TypeOK, BatchInv, MessageInv, pc = "feedback", NEW acked \in BOOLEAN
    PROVE  SentFeedback(acked) \in Callback /\ SentFeedback(acked).event = current
  <1>1. current \in Nat
    BY EventType DEF Working
  <1>2. Head(targets) \in FspId
    BY DEF TypeOK, MessageInv
  <1>3. FeedbackHeaders \in Headers
    BY DEF FeedbackHeaders, Headers, TypeOK
  <1>. QED
    BY <1>1, <1>2, <1>3 DEF SentFeedback, Received, Callback, Methods, TypeOK

\* And so is the report to the operator.
LEMMA OperatorReportType ==
    ASSUME TypeOK, BatchInv, MessageInv, pc = "operator"
    PROVE  OperatorReport \in Report /\ OperatorReport.event = current
  <1>1. current \in Nat
    BY EventType DEF Working
  <1>2. Head(targets) \in FspId
    BY DEF TypeOK, MessageInv
  <1>. QED
    BY <1>1, <1>2 DEF OperatorReport, Report

\* Sending something about event n adds n to the events noticed, and nothing else.
LEMMA NoticedBySending ==
    ASSUME TypeOK, NEW c \in Callback, outbox' = Append(outbox, c),
           UNCHANGED <<operator, dropped>>
    PROVE  Noticed' = Noticed \cup {c.event}
  <1>1. /\ DOMAIN outbox' = DOMAIN outbox \cup {Len(outbox) + 1}
        /\ \A k \in DOMAIN outbox : outbox'[k] = outbox[k]
        /\ outbox'[Len(outbox) + 1] = c
    BY AppendProperties DEF TypeOK
  <1>. QED
    BY <1>1 DEF Noticed

\* Reporting to the operator, with or without success, likewise.
LEMMA NoticedByReporting ==
    ASSUME OperatorReport.event = current, UNCHANGED outbox,
           \/ operator' = operator \cup {OperatorReport} /\ UNCHANGED dropped
           \/ dropped' = dropped \cup {OperatorReport} /\ UNCHANGED operator
    PROVE  Noticed' = Noticed \cup {current}
  <1>1. (operator \cup dropped)' = (operator \cup dropped) \cup {OperatorReport}
    OBVIOUS
  <1>. QED
    BY <1>1 DEF Noticed

-----------------------------------------------------------------------------
(* The steps that say something to the outside world, and what they say.    *)

Speaks ==
    /\ pc \in Working
    /\ Noticed' = Noticed \cup {current}
    /\ outbox' \in Seq(Callback)
    /\ operator' \subseteq Report
    /\ dropped' \subseteq Report

\* Appending a callback about the message.
LEMMA SpeaksBySending ==
    ASSUME TypeOK, pc \in Working, NEW c \in Callback, c.event = current,
           outbox' = Append(outbox, c), UNCHANGED <<operator, dropped>>
    PROVE  Speaks
  <1>1. outbox' \in Seq(Callback)
    BY AppendProperties DEF TypeOK
  <1>. QED
    BY <1>1, NoticedBySending DEF Speaks, TypeOK

\* Reporting the message to the operator.
LEMMA SpeaksByReporting ==
    ASSUME TypeOK, BatchInv, MessageInv, pc = "operator", UNCHANGED outbox,
           \/ operator' = operator \cup {OperatorReport} /\ UNCHANGED dropped
           \/ dropped' = dropped \cup {OperatorReport} /\ UNCHANGED operator
    PROVE  Speaks
  <1>1. OperatorReport \in Report /\ OperatorReport.event = current
    BY OperatorReportType
  <1>. QED
    BY <1>1, NoticedByReporting DEF Speaks, TypeOK, Working

\* Every step is silent or speaks about the message being processed, and a step that
\* speaks moves no offset.
LEMMA StepEffect ==
    ASSUME IInv, [Next]_vars
    PROVE  \/ UNCHANGED effects
           \/ Speaks /\ UNCHANGED <<kafka, loop, settled>>
  <1>. USE DEF IInv
  <1>1. CASE SendOk
    BY <1>1, SentCallType, SpeaksBySending DEF SendOk, Working
  <1>2. ASSUME NEW received \in BOOLEAN, SendFails(received)
        PROVE  UNCHANGED effects \/ (Speaks /\ UNCHANGED <<kafka, loop, settled>>)
    BY <1>2, SentCallType, SpeaksBySending DEF SendFails, Working, effects
  <1>3. CASE FeedbackOk
    BY <1>3, SentFeedbackType, SpeaksBySending DEF FeedbackOk, Working
  <1>4. ASSUME NEW received \in BOOLEAN, FeedbackFails(received)
        PROVE  UNCHANGED effects \/ (Speaks /\ UNCHANGED <<kafka, loop, settled>>)
    BY <1>4, SentFeedbackType, SpeaksBySending DEF FeedbackFails, Working, effects
  <1>5. ASSUME NEW accepted \in BOOLEAN, OperatorEvent(accepted)
        PROVE  Speaks /\ UNCHANGED <<kafka, loop, settled>>
    BY <1>5, SpeaksByReporting DEF OperatorEvent
  <1>6. ASSUME NEW received \in BOOLEAN, Crash(received)
        PROVE  UNCHANGED effects \/ (Speaks /\ UNCHANGED <<kafka, loop, settled>>)
    <2>1. CASE received /\ pc = "send" /\ outbox' = Append(outbox, SentCall(FALSE))
                        /\ UNCHANGED <<operator, dropped>>
      BY <1>6, <2>1, SentCallType, SpeaksBySending DEF Crash, Working
    <2>2. CASE received /\ pc = "feedback" /\ outbox' = Append(outbox, SentFeedback(FALSE))
                        /\ UNCHANGED <<operator, dropped>>
      BY <1>6, <2>2, SentFeedbackType, SpeaksBySending DEF Crash, Working
    <2>3. CASE received /\ pc = "operator" /\ operator' = operator \cup {OperatorReport}
                        /\ UNCHANGED <<outbox, dropped>>
      BY <1>6, <2>3, SpeaksByReporting DEF Crash
    <2>. QED
      BY <1>6, <2>1, <2>2, <2>3 DEF Crash
  <1>. QED
    BY <1>1, <1>2, <1>3, <1>4, <1>5, <1>6
    DEF Next, Consume, ProcessMessage, Publish, Commit, Fetch, Ignore, ReceiveErrorEvent,
        Prepare, PrepareFails, Return, Restart, vars

-----------------------------------------------------------------------------
(* The inductive invariant holds.                                           *)

\* The initial states satisfy IInv.
LEMMA InitInv == Init => IInv
  <1>. SUFFICES ASSUME Init PROVE IInv
    OBVIOUS
  <1>. USE HandlerAssumption DEF Init
  <1>1. TypeOK
    BY DEF TypeOK, Locations, NoHeaders, Headers, FspId
  <1>2. BatchInv /\ MessageInv
    BY DEF BatchInv, CommittedAreSettled, MessageInv, Working
  <1>3. Noticed = {}
    BY DEF Noticed
  <1>. QED
    BY <1>1, <1>2, <1>3 DEF IInv, InOrder

\* Types.
LEMMA TypeStep ==
    ASSUME IInv, [Next]_vars
    PROVE  TypeOK'
  <1>. USE DEF IInv
  <1>1. outbox' \in Seq(Callback) /\ operator' \subseteq Report /\ dropped' \subseteq Report
    BY StepEffect DEF effects, Speaks, TypeOK
  <1>2. NoHeaders \in Headers
    BY DEF NoHeaders, Headers, FspId
  <1>3. ASSUME NEW h \in Headers, Catch(h)
        PROVE  hdr' \in Headers /\ targets' \in Seq(FspId) /\ call' \in Nat /\ pc' \in Locations
    BY <1>3 DEF Catch, Headers, Locations
  <1>4. ASSUME NextTarget, pc \in {"feedback", "operator"}
        PROVE  targets' \in Seq(FspId) /\ pc' \in Locations /\ UNCHANGED <<hdr, call>>
    BY <1>4, HeadTailProperties DEF NextTarget, TypeOK, MessageInv, Locations
  <1>5. CASE UNCHANGED vars
    BY <1>5 DEF vars, kafka, loop, message, effects, TypeOK
  <1>6. ASSUME NEW e \in Published[handlerName], Publish(e)
        PROVE  TypeOK'
    <2>1. log' \in Seq(Event)
      BY <1>6, AppendProperties, HandlerAssumption DEF Publish, TypeOK
    <2>. QED
      BY <1>6, <2>1 DEF Publish, loop, message, effects, TypeOK
  <1>7. CASE Consume
    BY <1>7, HandlerAssumption
    DEF Consume, Commit, Fetch, kafka, loop, message, effects, TypeOK, Locations
  <1>8. CASE Ignore
    BY <1>8 DEF Ignore, kafka, loop, message, effects, TypeOK, Locations
  <1>9. CASE ReceiveErrorEvent
    BY <1>9, EventType, EventHeaders, ErrorTargetsType
    DEF ReceiveErrorEvent, kafka, loop, effects, TypeOK, Locations, Working
  <1>10. CASE Prepare
    <2>1. WellFormed(plan)
      BY <1>10, PlanWellFormed DEF Prepare, IsCallbackEvent, Working
    <2>2. plan.calls[1] \in Request
      BY <2>1, ElementOfSeq DEF WellFormed
    <2>. QED
      BY <1>10, <2>2 DEF Prepare, IsCallbackEvent, Request, kafka, loop, effects, TypeOK, Locations
  <1>11. CASE PrepareFails
    <2>1. plan.headers \in Headers
      BY <1>11, PlanWellFormed DEF PrepareFails, IsCallbackEvent, Working, WellFormed
    <2>. QED
      BY <1>11, <1>3, <2>1 DEF PrepareFails, kafka, loop, effects, TypeOK
  <1>12. CASE SendOk
    <2>1. WellFormed(plan)
      BY <1>12, PlanWellFormed DEF SendOk, MessageInv, Working
    <2>2. ASSUME call < Len(plan.calls)
          PROVE  hdr' \in Headers /\ call' \in Nat /\ pc' \in Locations
      <3>1. plan.calls[call + 1] \in Request
        BY <1>12, <2>1, <2>2, ElementOfSeq DEF WellFormed, TypeOK
      <3>2. hdr' = plan.calls[call + 1].headers /\ call' = call + 1 /\ pc' = pc
        BY <1>12, <2>2 DEF SendOk
      <3>. QED
        BY <3>1, <3>2 DEF Request, TypeOK
    <2>3. ASSUME ~(call < Len(plan.calls))
          PROVE  hdr' \in Headers /\ call' \in Nat /\ pc' \in Locations
      BY <1>12, <2>3 DEF SendOk, TypeOK, Locations
    <2>4. hdr' \in Headers /\ call' \in Nat /\ pc' \in Locations
      BY <2>2, <2>3
    <2>. QED
      BY <1>1, <1>12, <2>4 DEF SendOk, kafka, loop, TypeOK
  <1>13. ASSUME NEW received \in BOOLEAN, SendFails(received)
         PROVE  TypeOK'
    BY <1>1, <1>3, <1>13 DEF SendFails, kafka, loop, TypeOK
  <1>14. CASE FeedbackOk
    BY <1>1, <1>4, <1>14 DEF FeedbackOk, kafka, loop, TypeOK
  <1>15. ASSUME NEW received \in BOOLEAN, FeedbackFails(received)
         PROVE  TypeOK'
    BY <1>1, <1>15 DEF FeedbackFails, kafka, loop, message, TypeOK, Locations
  <1>16. ASSUME NEW accepted \in BOOLEAN, OperatorEvent(accepted)
         PROVE  TypeOK'
    BY <1>1, <1>4, <1>16 DEF OperatorEvent, kafka, loop, TypeOK
  <1>17. CASE Return
    BY <1>2, <1>17 DEF Return, current, kafka, message, effects, TypeOK, Locations
  <1>18. ASSUME NEW received \in BOOLEAN, Crash(received)
         PROVE  TypeOK'
    BY <1>1, <1>2, <1>18 DEF Crash, kafka, loop, TypeOK, Locations
  <1>19. CASE Restart
    BY <1>19 DEF Restart, kafka, message, effects, TypeOK, Locations
  <1>. QED
    BY <1>5, <1>6, <1>7, <1>8, <1>9, <1>10, <1>11, <1>12, <1>13, <1>14, <1>15, <1>16,
       <1>17, <1>18, <1>19
    DEF Next, ProcessMessage

\* The batch and the offsets.
LEMMA BatchStep ==
    ASSUME IInv, [Next]_vars
    PROVE  BatchInv'
  <1>. USE HandlerAssumption DEF IInv
  <1>1. BatchSize \in Nat /\ committed \in Nat /\ pos \in Nat /\ settled \in Nat
        /\ batchEnd \in Nat /\ Len(log) \in Nat
    BY DEF TypeOK
  <1>2. ASSUME UNCHANGED <<kafka, loop, settled>>, pc \in Working, pc' \in Working
        PROVE  BatchInv'
    BY <1>1, <1>2 DEF kafka, loop, BatchInv, CommittedAreSettled, Working
  <1>3. ASSUME NEW e \in Published[handlerName], Publish(e)
        PROVE  BatchInv'
    <2>1. Len(log') = Len(log) + 1
      BY <1>3, AppendProperties, HandlerAssumption DEF Publish, TypeOK
    <2>. QED
      BY <1>1, <1>3, <2>1 DEF Publish, loop, BatchInv, CommittedAreSettled
  <1>4. CASE Commit
    BY <1>1, <1>4 DEF Commit, loop, BatchInv, CommittedAreSettled, Working
  <1>5. ASSUME NEW n \in 1 .. BatchSize, Fetch(n)
        PROVE  BatchInv'
    BY <1>1, <1>5 DEF Fetch, kafka, BatchInv, CommittedAreSettled, Working
  <1>6. ASSUME Ignore \/ ReceiveErrorEvent \/ Prepare \/ PrepareFails \/ SendOk
               \/ (\E received \in BOOLEAN : SendFails(received) \/ FeedbackFails(received))
               \/ FeedbackOk
               \/ (\E accepted \in BOOLEAN : OperatorEvent(accepted))
        PROVE  UNCHANGED <<kafka, loop, settled>> /\ pc \in Working /\ pc' \in Working
    BY <1>6 DEF Ignore, ReceiveErrorEvent, Prepare, PrepareFails, IsCallbackEvent, Catch, SendOk,
                SendFails, FeedbackOk, FeedbackFails, OperatorEvent, NextTarget, Working
  <1>7. CASE Return
    BY <1>1, <1>7 DEF Return, current, kafka, BatchInv, CommittedAreSettled, Working
  <1>8. ASSUME NEW received \in BOOLEAN, Crash(received)
        PROVE  BatchInv'
    BY <1>8 DEF Crash, kafka, loop, BatchInv, CommittedAreSettled, Working
  <1>9. CASE Restart
    BY <1>1, <1>9 DEF Restart, kafka, BatchInv, CommittedAreSettled, Working
  <1>10. CASE UNCHANGED vars
    BY <1>10 DEF vars, kafka, loop, BatchInv, CommittedAreSettled
  <1>. QED
    BY <1>2, <1>3, <1>4, <1>5, <1>6, <1>7, <1>8, <1>9, <1>10
    DEF Next, Consume, ProcessMessage

\* While a message is being processed, the topic below it does not change.
LEMMA SameMessage ==
    ASSUME IInv, [Next]_vars, pc \in Working, UNCHANGED pos
    PROVE  UNCHANGED <<current, event, plan, handlerName>>
  <1>. USE DEF IInv
  <1>1. current \in 1 .. Len(log)
    BY EventType
  <1>2. \A k \in 1 .. Len(log) : log'[k] = log[k]
    <2>1. ASSUME NEW e \in Published[handlerName], log' = Append(log, e)
          PROVE  \A k \in 1 .. Len(log) : log'[k] = log[k]
      BY <2>1, AppendProperties, HandlerAssumption DEF TypeOK
    <2>2. UNCHANGED log \/ \E e \in Published[handlerName] : log' = Append(log, e)
      BY DEF Next, vars, Consume, ProcessMessage, Publish, Commit, Fetch, Ignore,
             ReceiveErrorEvent, Prepare, PrepareFails, SendOk, SendFails, FeedbackOk,
             FeedbackFails, OperatorEvent, Return, Crash, Restart, kafka
    <2>. QED
      BY <2>1, <2>2
  <1>3. UNCHANGED handlerName
    BY DEF Next, vars, Consume, ProcessMessage, Publish, Commit, Fetch, Ignore,
           ReceiveErrorEvent, Prepare, PrepareFails, SendOk, SendFails, FeedbackOk,
           FeedbackFails, OperatorEvent, Return, Crash, Restart, loop
  <1>. QED
    BY <1>1, <1>2, <1>3 DEF current, event, plan

\* The request and the FSP to tell.
LEMMA MessageStep ==
    ASSUME IInv, [Next]_vars
    PROVE  MessageInv'
  <1>. USE DEF IInv
  <1>1. ASSUME pc \in Working, UNCHANGED pos, pc' # "send", pc' \notin {"feedback", "operator"}
        PROVE  MessageInv'
    BY <1>1 DEF MessageInv
  <1>2. CASE Prepare
    <2>1. Len(plan.calls) > 0 /\ Len(plan.calls) \in Nat
      BY <1>2, PlanWellFormed DEF Prepare, IsCallbackEvent, Working, WellFormed
    <2>2. UNCHANGED <<event, plan, handlerName>>
      BY <1>2, SameMessage DEF Prepare, IsCallbackEvent, Working, loop
    <2>. QED
      BY <1>2, <2>1, <2>2 DEF Prepare, IsCallbackEvent, MessageInv
  <1>3. CASE SendOk
    <2>1. UNCHANGED <<event, plan, handlerName>>
      BY <1>3, SameMessage DEF SendOk, Working, loop
    <2>2. Len(plan.calls) \in Nat
      BY <1>3, PlanWellFormed DEF SendOk, MessageInv, Working, WellFormed
    <2>3. CASE call < Len(plan.calls)
      <3>1. call' = call + 1 /\ pc' = "send" /\ pc = "send"
        BY <1>3, <2>3 DEF SendOk
      <3>. QED
        BY <2>1, <2>2, <2>3, <3>1 DEF MessageInv
    <2>4. CASE ~(call < Len(plan.calls))
      BY <1>3, <2>4 DEF SendOk, MessageInv
    <2>. QED
      BY <2>3, <2>4
  <1>4. ASSUME NEW h, Catch(h)
        PROVE  MessageInv'
    BY <1>4 DEF Catch, MessageInv
  <1>5. CASE ReceiveErrorEvent
    BY <1>5, EventType, ErrorTargetsType DEF ReceiveErrorEvent, MessageInv, Working
  <1>6. ASSUME NextTarget, pc \in {"feedback", "operator"}
        PROVE  MessageInv'
    <2>1. Len(targets) \in Nat /\ Len(targets) > 0 /\ Len(targets') = Len(targets) - 1
      BY <1>6, HeadTailProperties DEF NextTarget, MessageInv, TypeOK
    <2>2. pc' = IF Len(targets) = 1 THEN "return" ELSE "feedback"
      BY <1>6 DEF NextTarget
    <2>3. pc' = "feedback" => Len(targets') > 0
      BY <2>1, <2>2
    <2>. QED
      BY <2>2, <2>3 DEF MessageInv
  <1>7. ASSUME NEW received \in BOOLEAN, FeedbackFails(received)
        PROVE  MessageInv'
    BY <1>7 DEF FeedbackFails, message, MessageInv
  <1>8. ASSUME pc' \notin {"send", "feedback", "operator"}
        PROVE  MessageInv'
    BY <1>8 DEF MessageInv
  <1>9. ASSUME NEW e \in Published[handlerName], Publish(e)
        PROVE  MessageInv'
    <2>1. pc' = "send" => UNCHANGED <<event, plan, handlerName>>
      BY <1>9, SameMessage DEF Publish, Working, loop
    <2>. QED
      BY <1>9, <2>1 DEF Publish, message, MessageInv
  <1>10. CASE UNCHANGED vars
    BY <1>10 DEF vars, kafka, loop, message, MessageInv, event, plan, current
  <1>. QED
    BY <1>2, <1>3, <1>4, <1>5, <1>6, <1>7, <1>8, <1>9, <1>10
    DEF Next, Consume, ProcessMessage, Commit, Fetch, Ignore, PrepareFails, SendFails,
        FeedbackOk, OperatorEvent, Return, Crash, Restart

\* The offset of what is settled never goes back.
LEMMA SettledGrows ==
    ASSUME IInv, [Next]_vars
    PROVE  settled' \in Nat /\ settled <= settled'
  <1>1. settled' = settled \/ Return
    BY DEF Next, vars, Consume, ProcessMessage, Publish, Commit, Fetch, Ignore,
           ReceiveErrorEvent, Prepare, PrepareFails, SendOk, SendFails, FeedbackOk,
           FeedbackFails, OperatorEvent, Crash, Restart
  <1>2. settled \in Nat /\ pos \in Nat
    BY DEF IInv, TypeOK
  <1>. QED
    BY <1>1, <1>2 DEF Return, current

\* Whoever is told something is told about the event after the settled ones, or, after
\* a crash, about one of those.
LEMMA InOrderStep ==
    ASSUME IInv, [Next]_vars
    PROVE  InOrder'
  <1>. USE DEF IInv
  <1>1. settled \in Nat /\ settled' \in Nat /\ settled <= settled'
    BY SettledGrows DEF TypeOK
  <1>2. \A n \in Noticed : n \in Nat
    <2>1. ASSUME NEW k \in DOMAIN outbox
          PROVE  outbox[k].event \in Nat
      <3>1. outbox[k] \in Callback
        BY ElementOfSeq DEF TypeOK
      <3>. QED
        BY <3>1 DEF Callback
    <2>2. \A r \in operator \cup dropped : r.event \in Nat
      BY DEF TypeOK, Report
    <2>. QED
      BY <2>1, <2>2 DEF Noticed
  <1>3. CASE UNCHANGED effects
    <2>1. Noticed' = Noticed
      BY <1>3 DEF effects, Noticed
    <2>. QED
      BY <1>1, <1>2, <2>1 DEF InOrder
  <1>4. CASE Speaks /\ UNCHANGED settled
    <2>1. current <= settled + 1
      BY <1>1 DEF current, BatchInv, TypeOK
    <2>. QED
      BY <1>4, <2>1 DEF InOrder, Speaks
  <1>. QED
    BY <1>3, <1>4, StepEffect

-----------------------------------------------------------------------------
(* Theorems.                                                                *)

\* IInv is inductive and so holds of every reachable state.
THEOREM Invariant == Spec => []IInv
  <1>1. Init => IInv
    BY InitInv
  <1>2. IInv /\ [Next]_vars => IInv'
    BY TypeStep, BatchStep, MessageStep, InOrderStep DEF IInv
  <1>. QED
    BY <1>1, <1>2, PTL DEF Spec

\* Every variable keeps its type: whatever handler methods leave behind in the message
\* object's headers is headers, and the feedback loop's list a list of FSPs.
THEOREM TypeCorrect == Spec => []TypeOK
  <1>1. IInv => TypeOK
    BY DEF IInv
  <1>. QED
    BY <1>1, Invariant, PTL

\* An event is committed only once processMessage has returned for it, and at most one
\* batch of settled events is not yet committed.
THEOREM NothingCommittedUnsettled == Spec => []CommittedAreSettled
  <1>1. IInv => CommittedAreSettled
    BY DEF IInv, BatchInv
  <1>. QED
    BY <1>1, Invariant, PTL

\* No FSP and no operator hears of an event before every event ahead of it is settled.
THEOREM EventsInOrder == Spec => []InOrder
  <1>1. IInv => InOrder
    BY DEF IInv
  <1>. QED
    BY <1>1, Invariant, PTL

\* No FSP is sent anything about an event whose offset is committed: each new callback
\* is about an event beyond it.
THEOREM NeverAfterCommit == Spec => NoCallbackAfterCommit
  <1>1. ASSUME IInv, [Next]_vars, Len(outbox') > Len(outbox)
        PROVE  outbox'[Len(outbox')].event > committed
    <2>. USE DEF IInv
    <2>1. PICK c \in Callback : c.event = current /\ pc \in Working
                                /\ outbox' = Append(outbox, c)
      <3>1. ~UNCHANGED outbox
        BY <1>1
      <3>2. CASE SendOk
        BY <1>1, <3>2, SentCallType DEF SendOk, Working
      <3>3. ASSUME NEW received \in BOOLEAN, SendFails(received)
            PROVE  pc = "send" /\ outbox' = Append(outbox, SentCall(FALSE))
        BY <3>1, <3>3 DEF SendFails
      <3>4. CASE FeedbackOk
        BY <1>1, <3>4, SentFeedbackType DEF FeedbackOk, Working
      <3>5. ASSUME NEW received \in BOOLEAN, FeedbackFails(received)
            PROVE  pc = "feedback" /\ outbox' = Append(outbox, SentFeedback(FALSE))
        BY <3>1, <3>5 DEF FeedbackFails
      <3>6. ASSUME NEW received \in BOOLEAN, Crash(received)
            PROVE  \/ pc = "send" /\ outbox' = Append(outbox, SentCall(FALSE))
                   \/ pc = "feedback" /\ outbox' = Append(outbox, SentFeedback(FALSE))
        BY <3>1, <3>6 DEF Crash, effects
      <3>7. \/ SendOk \/ FeedbackOk
            \/ \E received \in BOOLEAN :
                   SendFails(received) \/ FeedbackFails(received) \/ Crash(received)
        BY <1>1, <3>1
        DEF Next, vars, Consume, ProcessMessage, Publish, Commit, Fetch, Ignore, effects,
            ReceiveErrorEvent, Prepare, PrepareFails, OperatorEvent, Return, Restart
      <3>8. CASE pc = "send" /\ outbox' = Append(outbox, SentCall(FALSE))
        BY <1>1, <3>8, SentCallType DEF Working
      <3>9. CASE pc = "feedback" /\ outbox' = Append(outbox, SentFeedback(FALSE))
        BY <1>1, <3>9, SentFeedbackType DEF Working
      <3>. QED
        BY <3>2, <3>3, <3>4, <3>5, <3>6, <3>7, <3>8, <3>9
    <2>2. outbox'[Len(outbox')] = c
      BY <1>1, <2>1, AppendProperties DEF TypeOK
    <2>3. current > committed
      BY <1>1, <2>1 DEF BatchInv, TypeOK, current
    <2>. QED
      BY <2>1, <2>2, <2>3
  <1>2. IInv /\ [Next]_vars =>
            [Len(outbox') > Len(outbox) => outbox'[Len(outbox')].event > committed]_vars
    BY <1>1
  <1>. QED
    BY <1>2, Invariant, PTL DEF Spec, NoCallbackAfterCommit

\* The handler implements the abstract specification of event settlement: each of its
\* steps is a step of EventSettlement or changes nothing that EventSettlement sees.
THEOREM Implementation == Spec => ImplementsSettlement
  <1>1. Init => Settlement!Init
    BY DEF Init, Settlement!Init, Noticed
  <1>2. ASSUME IInv, [Next]_vars
        PROVE  [Settlement!Next]_Settlement!vars
    <2>. USE HandlerAssumption DEF IInv
    <2>1. BatchSize \in Nat /\ committed \in Nat /\ pos \in Nat /\ settled \in Nat
          /\ batchEnd \in Nat /\ Len(log) \in Nat
      BY <1>2 DEF TypeOK
    <2>2. UNCHANGED effects => UNCHANGED Noticed
      BY DEF effects, Noticed
    <2>3. CASE Speaks /\ UNCHANGED <<kafka, loop, settled>>
      <3>1. /\ current \in committed + 1 .. committed + BatchSize
            /\ current <= Len(log)
            /\ current <= settled + 1
        BY <1>2, <2>1, <2>3 DEF current, Speaks, BatchInv
      <3>2. Settlement!Notice(current)
        BY <2>1, <2>3, <3>1 DEF Settlement!Notice, Speaks, kafka
      <3>. QED
        BY <3>1, <3>2 DEF Settlement!Next
    <2>4. ASSUME UNCHANGED effects, NEW e \in Published[handlerName], Publish(e)
          PROVE  Settlement!Next
      <3>1. Len(log') = Len(log) + 1
        BY <1>2, <2>4, AppendProperties DEF Publish, TypeOK
      <3>. QED
        BY <2>2, <2>4, <3>1 DEF Publish, Settlement!Next, Settlement!Publish
    <2>5. ASSUME UNCHANGED effects, Commit
          PROVE  Settlement!Next \/ UNCHANGED Settlement!vars
      <3>1. committed' = pos /\ committed <= pos /\ pos <= settled
        BY <1>2, <2>5 DEF Commit, BatchInv
      <3>2. UNCHANGED <<Len(log), Noticed, settled>>
        BY <2>2, <2>5 DEF Commit
      <3>3. CASE pos > committed
        BY <2>1, <3>1, <3>2, <3>3 DEF Settlement!Next, Settlement!Commit
      <3>4. CASE pos = committed
        BY <3>1, <3>2, <3>4 DEF Settlement!vars
      <3>. QED
        BY <2>1, <3>1, <3>3, <3>4
    <2>6. ASSUME UNCHANGED effects, Return
          PROVE  Settlement!Next \/ UNCHANGED Settlement!vars
      <3>1. UNCHANGED <<Len(log), Noticed, committed>>
        BY <2>2, <2>6 DEF Return, kafka
      <3>2. current <= settled + 1 /\ current <= Len(log) /\ current <= committed + BatchSize
        BY <1>2, <2>1, <2>6 DEF Return, current, BatchInv, Working
      <3>3. CASE settled < current
        <4>1. settled' = settled + 1
          BY <2>1, <2>6, <3>2, <3>3 DEF Return, current
        <4>2. settled < Len(log) /\ settled < committed + BatchSize
          BY <2>1, <3>2, <3>3 DEF current
        <4>. QED
          BY <3>1, <4>1, <4>2 DEF Settlement!Next, Settlement!Settle
      <3>4. CASE ~(settled < current)
        BY <2>6, <3>1, <3>4 DEF Return, Settlement!vars
      <3>. QED
        BY <3>3, <3>4
    <2>7. ASSUME UNCHANGED effects, UNCHANGED <<kafka, settled>>
          PROVE  UNCHANGED Settlement!vars
      BY <2>2, <2>7 DEF Settlement!vars, kafka
    <2>8. \/ UNCHANGED <<kafka, settled>>
          \/ \E e \in Published[handlerName] : Publish(e)
          \/ Commit
          \/ Return
      BY <1>2
      DEF Next, vars, Consume, ProcessMessage, Fetch, Ignore, ReceiveErrorEvent, Prepare,
          PrepareFails, SendOk, SendFails, FeedbackOk, FeedbackFails, OperatorEvent, Crash,
          Restart
    <2>. QED
      BY <1>2, <2>3, <2>4, <2>5, <2>6, <2>7, <2>8, StepEffect
  <1>. QED
    BY <1>1, <1>2, Invariant, PTL DEF Spec, ImplementsSettlement, Settlement!Spec
=============================================================================
