--------------------- MODULE EventHandlerDeliveryProofs ---------------------
(***************************************************************************)
(* Proofs of what EventHandler promises about one event, for any           *)
(* participants and events, any of the three handlers, any batches and any *)
(* number of crashes.                                                      *)
(***************************************************************************)
EXTENDS EventHandlerProofs

-----------------------------------------------------------------------------
(* What is planned for an event.                                            *)

\* Where the answer to a query goes: the account lookup handler alone reads the destination
\* after it has switched the headers.
AnswerFor(e) == IF e.name \in QueriesOfAccounts THEN e.headers.source ELSE e.headers.destination

\* The source stays the event's unless the handler switches it; a second request is the
\* notification of the payee.
Planned(e, p) ==
    /\ Len(p.calls) \in {1, 2}
    /\ \A j \in 1 .. Len(p.calls) : p.calls[j].method # "FEEDBACK"
    /\ p.headers.source = HeldSource(e)
    /\ \A j \in 1 .. Len(p.calls) : p.calls[j].headers.source = HeldSource(e)
    /\ e.name \in QueryResponses =>
           \A j \in 1 .. Len(p.calls) : p.calls[j].to = AnswerFor(e)
    /\ p.calls[1].method # "PATCH"
    /\ Len(p.calls) = 2 =>
           /\ e.name = "TransferFulfiledEvt"
           /\ e.notifyPayee
           /\ p.calls[1].method = "PUT"
           /\ p.calls[2].method = "PATCH"

\* A plan of one request, whatever its lookups and validation, is as planned.
LEMMA OneRequest ==
    ASSUME NEW e, NEW h, NEW fsp, NEW method, method \notin {"FEEDBACK", "PATCH"}, NEW p,
           p.headers = h, p.calls = <<Call(method, fsp, h)>>,
           h.source = HeldSource(e),
           e.name \in QueryResponses => fsp = AnswerFor(e)
    PROVE  Planned(e, p)
  <1>1. /\ Len(p.calls) = 1
        /\ p.calls[1] = Call(method, fsp, h)
    OBVIOUS
  <1>. QED
    BY <1>1 DEF Planned, Call

\* So is the plan of one lookup and one request for the same FSP, validated or not.
LEMMA ToFspPlanned ==
    ASSUME NEW e, NEW h, NEW fsp, NEW method, method \notin {"FEEDBACK", "PATCH"},
           h.source = HeldSource(e),
           e.name \in QueryResponses => fsp = AnswerFor(e)
    PROVE  /\ Planned(e, ToFsp(h, fsp, method))
           /\ Planned(e, [ToFsp(h, fsp, method) EXCEPT !.validates = FALSE])
  <1>. DEFINE p == ToFsp(h, fsp, method)
              q == [ToFsp(h, fsp, method) EXCEPT !.validates = FALSE]
  <1>1. /\ p.headers = h /\ p.calls = <<Call(method, fsp, h)>>
        /\ q.headers = h /\ q.calls = <<Call(method, fsp, h)>>
    BY DEF ToFsp, Plan
  <1>. HIDE DEF p, q
  <1>2. Planned(e, p) /\ Planned(e, q)
    BY <1>1, OneRequest
  <1>. QED
    BY <1>2 DEF p, q

\* The fulfil event is the one with two requests: the payer's PUT, then the payee's PATCH.
LEMMA FulfilPlanned ==
    ASSUME NEW e \in Event, e.name = "TransferFulfiledEvt"
    PROVE  Planned(e, handleTransferFulfiledEvt(e))
  <1>. DEFINE p == handleTransferFulfiledEvt(e)
              put == Call("PUT", e.headers.destination, e.headers)
              patch == Call("PATCH", e.headers.source, e.headers)
  <1>1. p.headers = e.headers
    BY DEF handleTransferFulfiledEvt, Plan
  <1>2. /\ e.name \notin QueryResponses /\ HeldSource(e) = e.headers.source
        /\ put.method = "PUT" /\ put.headers = e.headers
        /\ patch.method = "PATCH" /\ patch.headers = e.headers
    BY DEF QueryResponses, QueriesOfTransfers, QueriesOfQuotes, QueriesOfAccounts, HeldSource,
           Call
  <1>3. CASE e.notifyPayee
    <2>1. p.calls = <<put>> \o <<patch>>
      BY <1>3 DEF handleTransferFulfiledEvt, Plan
    <2>. HIDE DEF put, patch, p
    <2>2. Len(p.calls) = 2 /\ p.calls[1] = put /\ p.calls[2] = patch
      BY <2>1
    <2>3. Planned(e, p)
      BY <1>1, <1>2, <1>3, <2>2 DEF Planned
    <2>. QED
      BY <2>3 DEF p
  <1>4. CASE ~e.notifyPayee
    <2>1. p.calls = <<put>> \o <<>>
      BY <1>4 DEF handleTransferFulfiledEvt, Plan
    <2>. HIDE DEF put, patch, p
    <2>2. Len(p.calls) = 1 /\ p.calls[1] = put
      BY <2>1
    <2>3. Planned(e, p)
      BY <1>1, <1>2, <2>2 DEF Planned
    <2>. QED
      BY <2>3 DEF p
  <1>. QED
    BY <1>3, <1>4

\* The party request may fill in the destination, never change the source.
LEMMA PartyInfoPlanned ==
    ASSUME NEW e \in Event, e.name = "PartyInfoRequestedEvt"
    PROVE  Planned(e, handlePartyInfoRequestedEvt(e))
  <1>. DEFINE sent == IF e.headers.destination = NoFsp
                      THEN [e.headers EXCEPT !.destination = e.payloadFsp]
                      ELSE e.headers
              p == handlePartyInfoRequestedEvt(e)
  <1>1. /\ p.headers = e.headers
        /\ p.calls = <<Call("GET", e.payloadFsp, sent)>>
    BY DEF handlePartyInfoRequestedEvt, Plan
  <1>2. sent.source = e.headers.source
    BY DEF Event
  <1>3. e.name \notin QueryResponses /\ HeldSource(e) = e.headers.source
    BY DEF QueryResponses, QueriesOfTransfers, QueriesOfQuotes, QueriesOfAccounts, HeldSource
  <1>. HIDE DEF p, sent
  <1>4. Len(p.calls) = 1 /\ p.calls[1] = Call("GET", e.payloadFsp, sent)
    BY <1>1
  <1>5. Planned(e, p)
    BY <1>1, <1>2, <1>3, <1>4 DEF Planned, Call
  <1>. QED
    BY <1>5 DEF p

\* A query's answer is planned under switched headers.
LEMMA QueryPlanned ==
    ASSUME NEW e, e.name \in QueryResponses, NEW fsp, fsp = AnswerFor(e)
    PROVE  /\ Planned(e, ToFsp(Switched(e.headers), fsp, "PUT"))
           /\ Planned(e, [ToFsp(Switched(e.headers), fsp, "PUT") EXCEPT !.validates = FALSE])
  <1>1. PICK h : h = Switched(e.headers)
    OBVIOUS
  <1>2. h.source = HeldSource(e)
    BY <1>1 DEF Switched, HeldSource
  <1>3. /\ Planned(e, ToFsp(h, fsp, "PUT"))
        /\ Planned(e, [ToFsp(h, fsp, "PUT") EXCEPT !.validates = FALSE])
    BY <1>2, ToFspPlanned
  <1>. QED
    BY <1>1, <1>3

\* Any other request of one lookup goes out under the event's headers.
LEMMA RequestPlanned ==
    ASSUME NEW e, e.name \notin QueryResponses, NEW fsp,
           NEW method, method \notin {"FEEDBACK", "PATCH"}
    PROVE  Planned(e, ToFsp(e.headers, fsp, method))
  <1>1. PICK h : h = e.headers
    OBVIOUS
  <1>2. h.source = HeldSource(e)
    BY <1>1 DEF HeldSource
  <1>3. /\ Planned(e, ToFsp(h, fsp, method))
        /\ Planned(e, [ToFsp(h, fsp, method) EXCEPT !.validates = FALSE])
    BY <1>2, ToFspPlanned
  <1>. QED
    BY <1>1, <1>3

\* The switch statements of the three handlers plan accordingly.
LEMMA TransfersPlanned ==
    ASSUME NEW e \in Event, e.name \in TransfersEvents
    PROVE  Planned(e, TransfersPlan(e))
  <1>1. CASE e.name = "TransferFulfiledEvt"
    BY <1>1, FulfilPlanned DEF TransfersPlan
  <1>2. CASE e.name \in QueriesOfTransfers
    <2>1. e.name \in QueryResponses /\ AnswerFor(e) = e.headers.destination
      BY <1>2 DEF QueryResponses, QueriesOfTransfers, QueriesOfAccounts, AnswerFor
    <2>2. Planned(e, ToFsp(Switched(e.headers), e.headers.destination, "PUT"))
      BY <2>1, QueryPlanned
    <2>. QED
      BY <1>2, <2>2
      DEF TransfersPlan, QueriesOfTransfers, handleTransferQueryResponseEvt,
          handleBulkTransferQueryResponseEvt
  <1>3. CASE e.name \notin QueriesOfTransfers \cup {"TransferFulfiledEvt"}
    <2>1. e.name \notin QueryResponses
      BY <1>3
      DEF TransfersEvents, QueryResponses, QueriesOfTransfers, QueriesOfQuotes,
          QueriesOfAccounts
    <2>. QED
      BY <1>3, <2>1, RequestPlanned
      DEF TransfersPlan, TransfersEvents, QueriesOfTransfers, ToDestination,
          handleTransferPreparedEvt, handleTransferRejectRequestEvt,
          handleBulkTransferPreparedEvt, handleBulkTransferFulfiledEvt,
          handleBulkTransferRejectRequestEvt
  <1>. QED
    BY <1>1, <1>2, <1>3

\* The quoting handler.
LEMMA QuotesPlanned ==
    ASSUME NEW e \in Event, e.name \in QuotingEvents
    PROVE  Planned(e, QuotingPlan(e))
  <1>1. CASE e.name \in QueriesOfQuotes
    <2>1. e.name \in QueryResponses /\ AnswerFor(e) = e.headers.destination
      BY <1>1 DEF QueryResponses, QueriesOfQuotes, QueriesOfAccounts, AnswerFor
    <2>2. Planned(e, [ToFsp(Switched(e.headers), e.headers.destination, "PUT")
                          EXCEPT !.validates = FALSE])
      BY <2>1, QueryPlanned
    <2>. QED
      BY <1>1, <2>2
      DEF QuotingPlan, QueriesOfQuotes, handleQuoteQueryResponseEvt,
          handleBulkQuoteQueryResponseEvt
  <1>2. CASE e.name \notin QueriesOfQuotes
    <2>1. e.name \notin QueryResponses
      BY <1>2
      DEF QuotingEvents, QueryResponses, QueriesOfTransfers, QueriesOfQuotes,
          QueriesOfAccounts
    <2>. QED
      BY <1>2, <2>1, RequestPlanned
      DEF QuotingPlan, QuotingEvents, QueriesOfQuotes, ToDestination,
          handleQuoteRequestAcceptedEvt, handleQuoteResponseAcceptedEvt,
          handleQuoteRejectRequestEvt, handleBulkQuoteReceivedEvt,
          handleBulkQuoteAcceptedEvt, handleBulkQuoteRejectRequestEvt
  <1>. QED
    BY <1>1, <1>2

\* The account lookup handler.
LEMMA AccountsPlanned ==
    ASSUME NEW e \in Event, e.name \in AccountLookupEvents
    PROVE  Planned(e, AccountLookupPlan(e))
  <1>1. CASE e.name = "PartyInfoRequestedEvt"
    BY <1>1, PartyInfoPlanned DEF AccountLookupPlan
  <1>2. CASE e.name \in QueriesOfAccounts
    <2>1. e.name \in QueryResponses /\ Switched(e.headers).destination = AnswerFor(e)
      BY <1>2 DEF QueryResponses, Switched, AnswerFor
    <2>2. /\ Planned(e, ToRequester(e))
          /\ Planned(e, [ToRequester(e) EXCEPT !.validates = FALSE])
      BY <2>1, QueryPlanned DEF ToRequester
    <2>. QED
      BY <1>2, <2>2 DEF AccountLookupPlan, QueriesOfAccounts,
         handleParticipantAssociationRequestReceivedEvt,
         handleParticipantDisassociateRequestReceivedEvt,
         handleParticipantQueryResponseEvt
  <1>3. CASE e.name \notin QueriesOfAccounts \cup {"PartyInfoRequestedEvt"}
    <2>1. e.name \notin QueryResponses
      BY <1>3
      DEF AccountLookupEvents, QueryResponses, QueriesOfTransfers, QueriesOfQuotes,
          QueriesOfAccounts
    <2>. QED
      BY <1>3, <2>1, RequestPlanned
      DEF AccountLookupPlan, AccountLookupEvents, QueriesOfAccounts, ToDestination,
          handlePartyQueryResponseEvt, handlePartyRejectedResponseEvt,
          handleParticipantRejectedResponseEvt
  <1>. QED
    BY <1>1, <1>2, <1>3

\* Whatever the handler, what it plans for an event it handles is so.
LEMMA HandledPlanned ==
    ASSUME NEW h \in HandlerNames, NEW e \in Event, Handles(h, e), e.name # "ErrorEvent"
    PROVE  Planned(e, PlanOf(h, e))
  <1>1. e.name \in CallbackEvents(h)
    BY DEF Handles
  <1>. QED
    BY <1>1, TransfersPlanned, QuotesPlanned, AccountsPlanned
    DEF PlanOf, CallbackEvents, HandlerNames

\* The plan of the message in a handler method.
LEMMA MessagePlanned ==
    ASSUME IInv, pc \in Working, Handles(handlerName, event), event.name # "ErrorEvent"
    PROVE  /\ Planned(event, plan)
           /\ \A j \in 1 .. Len(plan.calls) : plan.calls[j] \in Request
  <1>1. handlerName \in HandlerNames /\ event \in Event
    BY EventType, HandlerAssumption DEF IInv, TypeOK
  <1>2. WellFormed(plan)
    BY PlanWellFormed DEF IInv
  <1>. QED
    BY <1>1, <1>2, HandledPlanned, ElementOfSeq DEF plan, WellFormed

-----------------------------------------------------------------------------
(* Whom a plan is for.                                                      *)

\* A request goes to a party of the event that has been looked up.
Addressed(e, p) ==
    \A j \in DOMAIN p.calls : p.calls[j].to \in Parties(e) \cap Range(p.lookups)

\* One lookup and one request for the same party.
LEMMA ToFspAddressed ==
    ASSUME NEW e, NEW h, NEW fsp \in Parties(e), NEW method
    PROVE  /\ Addressed(e, ToFsp(h, fsp, method))
           /\ Addressed(e, [ToFsp(h, fsp, method) EXCEPT !.validates = FALSE])
  <1>1. ASSUME NEW p, p.lookups = <<fsp>>, p.calls = <<Call(method, fsp, h)>>
        PROVE  Addressed(e, p)
    <2>1. DOMAIN p.calls = {1} /\ p.calls[1] = Call(method, fsp, h) /\ fsp \in Range(p.lookups)
      BY <1>1 DEF Range
    <2>. QED
      BY <2>1 DEF Addressed, Call
  <1>. DEFINE p == ToFsp(h, fsp, method)
              q == [ToFsp(h, fsp, method) EXCEPT !.validates = FALSE]
  <1>2. /\ p.lookups = <<fsp>> /\ p.calls = <<Call(method, fsp, h)>>
        /\ q.lookups = <<fsp>> /\ q.calls = <<Call(method, fsp, h)>>
    BY DEF ToFsp, Plan
  <1>. HIDE DEF p, q
  <1>3. Addressed(e, p) /\ Addressed(e, q)
    BY <1>1, <1>2
  <1>. QED
    BY <1>3 DEF p, q

\* Both parties of a fulfilment are looked up before either is called.
LEMMA FulfilAddressed ==
    ASSUME NEW e
    PROVE  Addressed(e, handleTransferFulfiledEvt(e))
  <1>. DEFINE p == handleTransferFulfiledEvt(e)
              put == Call("PUT", e.headers.destination, e.headers)
              patch == Call("PATCH", e.headers.source, e.headers)
              rest == IF e.notifyPayee THEN <<patch>> ELSE <<>>
  <1>1. /\ p.lookups = <<e.headers.destination, e.headers.source>>
        /\ p.calls = <<put>> \o rest
    BY DEF handleTransferFulfiledEvt, Plan
  <1>2. put.to = e.headers.destination /\ patch.to = e.headers.source
    BY DEF Call
  <1>. HIDE DEF p, put, patch
  <1>3. \A j \in DOMAIN p.calls : p.calls[j] \in {put, patch}
    BY <1>1
  <1>4. /\ e.headers.destination \in Parties(e) \cap Range(p.lookups)
        /\ e.headers.source \in Parties(e) \cap Range(p.lookups)
    BY <1>1 DEF Range, Parties
  <1>5. Addressed(e, p)
    BY <1>2, <1>3, <1>4 DEF Addressed
  <1>. QED
    BY <1>5 DEF p

\* The party request goes to the FSP that was looked up, with or without a destination.
LEMMA PartyInfoAddressed ==
    ASSUME NEW e
    PROVE  Addressed(e, handlePartyInfoRequestedEvt(e))
  <1>. DEFINE p == handlePartyInfoRequestedEvt(e)
  <1>1. p.lookups = <<e.payloadFsp>> /\ \E h : p.calls = <<Call("GET", e.payloadFsp, h)>>
    BY DEF handlePartyInfoRequestedEvt, Plan
  <1>. HIDE DEF p
  <1>2. \A j \in DOMAIN p.calls : p.calls[j].to = e.payloadFsp
    BY <1>1 DEF Call
  <1>3. e.payloadFsp \in Parties(e) \cap Range(p.lookups)
    BY <1>1 DEF Range, Parties
  <1>4. Addressed(e, p)
    BY <1>2, <1>3 DEF Addressed
  <1>. QED
    BY <1>4 DEF p

\* Every plan of the three handlers is addressed so.
LEMMA PlanAddressed ==
    ASSUME NEW h \in HandlerNames, NEW e \in Event
    PROVE  Addressed(e, PlanOf(h, e))
  <1>1. /\ e.headers.source \in Parties(e) /\ e.headers.destination \in Parties(e)
        /\ e.payloadFsp \in Parties(e)
    BY DEF Parties
  <1>2. ASSUME NEW hs, NEW method
        PROVE  /\ Addressed(e, ToFsp(hs, e.headers.source, method))
               /\ Addressed(e, ToFsp(hs, e.headers.destination, method))
               /\ Addressed(e, ToFsp(hs, e.payloadFsp, method))
               /\ Addressed(e, [ToFsp(hs, e.headers.source, method) EXCEPT !.validates = FALSE])
               /\ Addressed(e, [ToFsp(hs, e.headers.destination, method)
                                    EXCEPT !.validates = FALSE])
    BY <1>1, ToFspAddressed
  <1>3. \A method : Addressed(e, ToDestination(e, method))
    BY <1>2 DEF ToDestination
  <1>4. /\ Addressed(e, ToRequester(e))
        /\ Addressed(e, [ToRequester(e) EXCEPT !.validates = FALSE])
    <2>1. Switched(e.headers).destination = e.headers.source
      BY DEF Switched
    <2>. QED
      BY <1>2, <2>1 DEF ToRequester
  <1>5. Addressed(e, TransfersPlan(e))
    BY <1>2, <1>3, FulfilAddressed
    DEF TransfersPlan, handleTransferPreparedEvt, handleTransferQueryResponseEvt,
        handleTransferRejectRequestEvt, handleBulkTransferPreparedEvt,
        handleBulkTransferFulfiledEvt, handleBulkTransferQueryResponseEvt,
        handleBulkTransferRejectRequestEvt
  <1>6. Addressed(e, QuotingPlan(e))
    BY <1>2, <1>3
    DEF QuotingPlan, handleQuoteRequestAcceptedEvt, handleQuoteResponseAcceptedEvt,
        handleQuoteQueryResponseEvt, handleQuoteRejectRequestEvt, handleBulkQuoteReceivedEvt,
        handleBulkQuoteAcceptedEvt, handleBulkQuoteQueryResponseEvt,
        handleBulkQuoteRejectRequestEvt
  <1>7. Addressed(e, AccountLookupPlan(e))
    BY <1>3, <1>4, PartyInfoAddressed
    DEF AccountLookupPlan, handleParticipantAssociationRequestReceivedEvt,
        handleParticipantDisassociateRequestReceivedEvt, handlePartyQueryResponseEvt,
        handleParticipantQueryResponseEvt, handlePartyRejectedResponseEvt,
        handleParticipantRejectedResponseEvt
  <1>. QED
    BY <1>5, <1>6, <1>7 DEF PlanOf

-----------------------------------------------------------------------------
(* What a step does to what has been received, and to the loop.             *)

\* A step is silent towards the FSPs, or a request, or feedback to a participant, reaches one
\* of them.
LEMMA OutboxStep ==
    ASSUME [Next]_vars
    PROVE  \/ UNCHANGED outbox
           \/ \E a \in BOOLEAN :
                 \/ pc = "send" /\ outbox' = Append(outbox, SentCall(a))
                 \/ /\ pc = "feedback" /\ outbox' = Append(outbox, SentFeedback(a))
                    /\ Head(targets) \in Participants
  <1>1. ASSUME NEW received \in BOOLEAN, Crash(received)
        PROVE  \/ UNCHANGED outbox
               \/ pc = "send" /\ outbox' = Append(outbox, SentCall(FALSE))
               \/ /\ pc = "feedback" /\ outbox' = Append(outbox, SentFeedback(FALSE))
                  /\ Head(targets) \in Participants
    BY <1>1 DEF Crash, effects
  <1>2. ASSUME NEW received \in BOOLEAN, SendFails(received)
        PROVE  \/ UNCHANGED outbox
               \/ pc = "send" /\ outbox' = Append(outbox, SentCall(FALSE))
    BY <1>2 DEF SendFails
  <1>3. ASSUME NEW received \in BOOLEAN, FeedbackFails(received)
        PROVE  \/ UNCHANGED outbox
               \/ /\ pc = "feedback" /\ outbox' = Append(outbox, SentFeedback(FALSE))
                  /\ Head(targets) \in Participants
    BY <1>3 DEF FeedbackFails
  <1>4. CASE UNCHANGED outbox
    BY <1>4
  <1>5. CASE SendOk
    BY <1>5 DEF SendOk
  <1>6. CASE FeedbackOk
    BY <1>6 DEF FeedbackOk
  <1>. QED
    BY <1>1, <1>2, <1>3, <1>4, <1>5, <1>6
    DEF Next, vars, effects, Consume, ProcessMessage, Publish, Commit, Fetch, Ignore,
        ReceiveErrorEvent, Prepare, PrepareFails, OperatorEvent, Return, Restart

\* What has been said is about the message, in this life.
LEMMA SentIsHere ==
    ASSUME NEW a
    PROVE  /\ SentCall(a).event = current /\ SentCall(a).life = life
           /\ SentCall(a).acked = a
           /\ SentCall(a).to = plan.calls[call].to
           /\ SentCall(a).method = plan.calls[call].method
           /\ SentFeedback(a).event = current /\ SentFeedback(a).life = life
           /\ SentFeedback(a).acked = a
           /\ SentFeedback(a).to = Head(targets)
           /\ SentFeedback(a).method = "FEEDBACK"
  BY DEF SentCall, SentFeedback, Received

\* Within a life the loop goes on from one message to the next; nothing but a return of
\* processMessage leaves a message.
LEMMA LoopStep ==
    ASSUME [Next]_vars
    PROVE  \/ pc' = "down" /\ UNCHANGED <<life, pos>>
           \/ pc = "down" /\ life' = life + 1 /\ UNCHANGED <<log, outbox>>
           \/ /\ pc = "return" /\ pos' = current /\ UNCHANGED <<life, log, outbox>>
              /\ pc' \in {"dispatch", "commit"}
           \/ /\ pc # "down"
              /\ UNCHANGED <<life, pos>>
              /\ pc \in Working \ {"dispatch"} => pc' \in Working \ {"dispatch"}
  <1>. USE DEF Working
  <1>1. CASE UNCHANGED vars
    BY <1>1 DEF vars, loop
  <1>2. ASSUME NEW e, Publish(e)
        PROVE  UNCHANGED <<pc, life, pos>>
    BY <1>2 DEF Publish, loop
  <1>3. CASE Consume
    BY <1>3 DEF Consume, Commit, Fetch, loop
  <1>4. CASE Ignore \/ ReceiveErrorEvent \/ Prepare \/ PrepareFails
    BY <1>4 DEF Ignore, ReceiveErrorEvent, Prepare, PrepareFails, Catch, IsCallbackEvent, loop
  <1>5. CASE SendOk \/ \E received \in BOOLEAN : SendFails(received)
    BY <1>5 DEF SendOk, SendFails, Catch, loop
  <1>6. CASE \/ FeedbackOk
             \/ \E a \in BOOLEAN : FeedbackFails(a) \/ OperatorEvent(a)
    BY <1>6 DEF FeedbackOk, FeedbackFails, OperatorEvent, NextTarget, loop
  <1>7. CASE Return
    BY <1>7 DEF Return, kafka, effects
  <1>8. ASSUME NEW received \in BOOLEAN, Crash(received)
        PROVE  pc' = "down" /\ UNCHANGED <<life, pos>>
    BY <1>8 DEF Crash, loop
  <1>9. CASE Restart
    BY <1>9 DEF Restart, kafka, effects
  <1>. QED
    BY <1>1, <1>2, <1>3, <1>4, <1>5, <1>6, <1>7, <1>8, <1>9 DEF Next, ProcessMessage

\* The topic, the outbox and the reports only grow.
Grows ==
    /\ UNCHANGED handlerName
    /\ Len(log) <= Len(log') /\ \A n \in 1 .. Len(log) : log'[n] = log[n]
    /\ life <= life'
    /\ outbox' \in Seq(Callback)
    /\ Len(outbox) <= Len(outbox') /\ \A k \in 1 .. Len(outbox) : outbox'[k] = outbox[k]
    /\ operator \subseteq operator'
    /\ dropped \subseteq dropped'

\* Every step of the specification lets them grow.
LEMMA StepGrows ==
    ASSUME IInv, [Next]_vars
    PROVE  Grows
  <1>. USE DEF IInv, TypeOK
  <1>1. UNCHANGED handlerName
    BY DEF Next, vars, loop, Consume, ProcessMessage, Publish, Commit, Fetch, Ignore,
           ReceiveErrorEvent, Prepare, PrepareFails, SendOk, SendFails, FeedbackOk,
           FeedbackFails, OperatorEvent, Return, Crash, Restart
  <1>2. Len(log) <= Len(log') /\ \A n \in 1 .. Len(log) : log'[n] = log[n]
    <2>1. ASSUME NEW e \in Published[handlerName], Publish(e)
          PROVE  Len(log') = Len(log) + 1 /\ \A n \in 1 .. Len(log) : log'[n] = log[n]
      <3>1. e \in Event
        BY HandlerAssumption
      <3>. QED
        BY <2>1, <3>1, AppendProperties DEF Publish
    <2>2. UNCHANGED log \/ \E e \in Published[handlerName] : Publish(e)
      BY DEF Next, vars, kafka, Consume, ProcessMessage, Commit, Fetch, Ignore,
             ReceiveErrorEvent, Prepare, PrepareFails, SendOk, SendFails, FeedbackOk,
             FeedbackFails, OperatorEvent, Return, Crash, Restart
    <2>. QED
      BY <2>1, <2>2
  <1>3. life <= life'
    BY LoopStep
  <1>4. Len(outbox) <= Len(outbox') /\ \A k \in 1 .. Len(outbox) : outbox'[k] = outbox[k]
    <2>1. ASSUME NEW a \in BOOLEAN, pc = "send"
          PROVE  SentCall(a) \in Callback
      BY <2>1, SentCallType
    <2>2. ASSUME NEW a \in BOOLEAN, pc = "feedback"
          PROVE  SentFeedback(a) \in Callback
      BY <2>2, SentFeedbackType
    <2>3. ASSUME NEW c \in Callback, outbox' = Append(outbox, c)
          PROVE  /\ Len(outbox) <= Len(outbox')
                 /\ \A k \in 1 .. Len(outbox) : outbox'[k] = outbox[k]
      BY <2>3, AppendProperties
    <2>. QED
      BY <2>1, <2>2, <2>3, OutboxStep
  <1>5. operator \subseteq operator' /\ dropped \subseteq dropped'
    BY DEF Next, vars, effects, Consume, ProcessMessage, Publish, Commit, Fetch, Ignore,
           ReceiveErrorEvent, Prepare, PrepareFails, SendOk, SendFails, FeedbackOk,
           FeedbackFails, OperatorEvent, Return, Crash, Restart
  <1>. QED
    BY <1>1, <1>2, <1>3, <1>4, <1>5, TypeStep DEF Grows

\* What has been answered, attempted or concluded stays so.
LEMMA StillAcked ==
    ASSUME IInv, Grows, NEW n, NEW l, NEW c, Acked(n, l, c)
    PROVE  Acked(n, l, c)'
  <1>1. PICK k \in DOMAIN outbox :
            outbox[k] = [event |-> n, life |-> l, to |-> c.to, method |-> c.method,
                         headers |-> c.headers, acked |-> TRUE]
    BY DEF Acked
  <1>2. k \in 1 .. Len(outbox) /\ k \in DOMAIN outbox'
    BY <1>1 DEF Grows, IInv, TypeOK
  <1>. QED
    BY <1>1, <1>2 DEF Acked, Grows

\* An FSP that was picked to be told stays on record.
LEMMA StillAttempted ==
    ASSUME IInv, Grows, NEW n
    PROVE  AttemptedFor(n) \subseteq AttemptedFor(n)'
  <1>1. DOMAIN outbox \subseteq DOMAIN outbox' /\ \A k \in DOMAIN outbox : outbox'[k] = outbox[k]
    BY DEF Grows, IInv, TypeOK
  <1>. QED
    BY <1>1 DEF AttemptedFor, Grows

\* A delivered event stays delivered.
LEMMA StillDelivered ==
    ASSUME IInv, TypeOK', Grows, NEW n \in 1 .. Len(log), Delivered(n)
    PROVE  Delivered(n)'
  <1>. DEFINE calls == PlanOf(handlerName, log[n]).calls
  <1>1. PICK l \in 0 .. life : \A k \in DOMAIN calls : Acked(n, l, calls[k])
    BY DEF Delivered
  <1>2. l \in 0 .. life'
    BY DEF Grows, IInv, TypeOK
  <1>3. calls' = calls
    BY DEF Grows
  <1>4. \A k \in DOMAIN calls' : Acked(n, l, calls[k])'
    <2>. SUFFICES ASSUME NEW k \in DOMAIN calls'
                  PROVE  Acked(n, l, calls[k])'
      OBVIOUS
    <2>. HIDE DEF calls
    <2>1. PICK r : r = calls[k]
      OBVIOUS
    <2>2. Acked(n, l, r)
      BY <1>1, <1>3, <2>1
    <2>3. Acked(n, l, r)'
      BY <2>2, StillAcked
    <2>. QED
      BY <1>3, <2>1, <2>3 DEF Acked
  <1>. QED
    BY <1>2, <1>4 DEF Delivered

\* And a concluded one concluded.
LEMMA StillConcluded ==
    ASSUME IInv, TypeOK', Grows, NEW n \in 1 .. Len(log), Concluded(n)
    PROVE  Concluded(n)'
  <1>1. log'[n] = log[n] /\ handlerName' = handlerName
    BY DEF Grows
  <1>2. AttemptedFor(n) \subseteq AttemptedFor(n)' /\ (Delivered(n) => Delivered(n)')
    BY StillAttempted, StillDelivered
  <1>. QED
    BY <1>1, <1>2 DEF Concluded

-----------------------------------------------------------------------------
(* The outbox.                                                              *)

DInv == IInv /\ DeliveryInv

\* A request that is added to the outbox is the last of it.
LEMMA Added ==
    ASSUME IInv, NEW c, outbox' = Append(outbox, c)
    PROVE  /\ DOMAIN outbox' = DOMAIN outbox \cup {Len(outbox) + 1}
           /\ outbox'[Len(outbox) + 1] = c
           /\ \A k \in DOMAIN outbox : outbox'[k] = outbox[k] /\ k < Len(outbox) + 1
  BY DEF IInv, TypeOK

\* The message is handled and not an error event when a request is waited for.
LEMMA SendsPlan ==
    ASSUME IInv, pc = "send"
    PROVE  /\ Handles(handlerName, event) /\ event.name # "ErrorEvent"
           /\ call \in 1 .. Len(plan.calls)
           /\ Planned(event, plan)
           /\ plan.calls[call] \in Range(plan.calls)
           /\ plan.calls[call].method # "FEEDBACK"
           /\ call # 1 => call = 2
           /\ current \in 1 .. Len(log)
  <1>1. /\ Handles(handlerName, event) /\ event.name # "ErrorEvent"
        /\ call \in 1 .. Len(plan.calls)
        /\ pc \in Working
    BY DEF IInv, MessageInv, Working
  <1>2. Planned(event, plan)
    BY <1>1, MessagePlanned
  <1>3. current \in 1 .. Len(log) /\ WellFormed(plan)
    BY <1>1, EventType, PlanWellFormed DEF IInv
  <1>4. plan.calls[call] \in Range(plan.calls)
    BY <1>1, <1>3 DEF Range, WellFormed
  <1>5. plan.calls[call].method # "FEEDBACK" /\ (call # 1 => call = 2)
    BY <1>1, <1>2 DEF Planned
  <1>. QED
    BY <1>1, <1>2, <1>3, <1>4, <1>5

\* Every step keeps OutboxInv.
LEMMA OutboxInvStep ==
    ASSUME DInv, [Next]_vars
    PROVE  OutboxInv'
  <1>. USE DEF DInv, DeliveryInv
  <1>1. Grows /\ TypeOK'
    BY StepGrows, TypeStep DEF DInv
  <1>. DEFINE Sound(c) ==
                 /\ c.event \in 1 .. Len(log)
                 /\ c.life <= life
                 /\ (c.life = life /\ pc # "down") =>
                        c.event <= pos \/ (c.event = current /\ pc \in Working \ {"dispatch"})
                 /\ c.method # "FEEDBACK" =>
                        /\ Handles(handlerName, log[c.event])
                        /\ log[c.event].name # "ErrorEvent"
                        /\ \E r \in Range(PlanOf(handlerName, log[c.event]).calls) :
                               c.to = r.to /\ c.method = r.method
  <1>2. SUFFICES ASSUME NEW k \in DOMAIN outbox'
                 PROVE  Sound(outbox[k])'
    BY DEF OutboxInv
  <1>3. ASSUME NEW c, c.event \in Nat, c.life \in Nat, Sound(c)
        PROVE  /\ c.event \in 1 .. Len(log')
               /\ c.life <= life'
               /\ (c.life = life' /\ pc' # "down") =>
                       c.event <= pos' \/ (c.event = current' /\ pc' \in Working \ {"dispatch"})
               /\ c.method # "FEEDBACK" =>
                       /\ Handles(handlerName', log'[c.event])
                       /\ log'[c.event].name # "ErrorEvent"
                       /\ \E r \in Range(PlanOf(handlerName', log'[c.event]).calls) :
                              c.to = r.to /\ c.method = r.method
    <2>1. c.event \in 1 .. Len(log') /\ log'[c.event] = log[c.event] /\ handlerName' = handlerName
      <3>1. c.event \in 1 .. Len(log)
        BY <1>3
      <3>2. Len(log) \in Nat /\ Len(log') \in Nat
        BY <1>1 DEF IInv, TypeOK
      <3>. QED
        BY <1>1, <3>1, <3>2 DEF Grows
    <2>2. life \in Nat /\ pos \in Nat /\ life' \in Nat /\ life <= life'
      BY <1>1 DEF Grows, IInv, TypeOK
    <2>3. (c.life = life' /\ pc' # "down") =>
               c.event <= pos' \/ (c.event = current' /\ pc' \in Working \ {"dispatch"})
      BY <1>3, <2>2, LoopStep DEF current
    <2>. QED
      BY <1>3, <2>1, <2>2, <2>3
  <1>4. CASE k \in DOMAIN outbox /\ outbox'[k] = outbox[k]
    <2>1. Sound(outbox[k])
      BY <1>4 DEF OutboxInv
    <2>2. outbox[k] \in Callback
      BY <1>4, ElementOfSeq DEF IInv, TypeOK
    <2>3. outbox[k].event \in Nat /\ outbox[k].life \in Nat
      BY <2>2 DEF Callback
    <2>. QED
      BY <1>3, <1>4, <2>1, <2>3
  <1>5. ASSUME NEW a \in BOOLEAN, pc = "send", outbox' = Append(outbox, SentCall(a)),
               k = Len(outbox) + 1
        PROVE  Sound(outbox[k])'
    <2>1. outbox'[k] = SentCall(a)
      BY <1>5, Added
    <2>2. Sound(SentCall(a))
      <3>1. life \in Nat
        BY DEF IInv, TypeOK
      <3>2. \E r \in Range(plan.calls) : r = plan.calls[call]
        BY <1>5, SendsPlan
      <3>. HIDE DEF DInv
      <3>. QED
        BY <1>5, <3>1, <3>2, SendsPlan, SentIsHere DEF event, plan, Working, DInv
    <2>3. SentCall(a).event \in Nat /\ SentCall(a).life \in Nat
      BY <1>5, SentCallType DEF Callback, IInv
    <2>. QED
      BY <1>3, <2>1, <2>2, <2>3
  <1>6. ASSUME NEW a \in BOOLEAN, pc = "feedback", outbox' = Append(outbox, SentFeedback(a)),
               k = Len(outbox) + 1
        PROVE  Sound(outbox[k])'
    <2>1. outbox'[k] = SentFeedback(a)
      BY <1>6, Added
    <2>2. current \in 1 .. Len(log)
      BY <1>6, EventType DEF IInv, Working
    <2>3. Sound(SentFeedback(a))
      BY <1>6, <2>2, SentIsHere DEF Working, IInv, TypeOK
    <2>4. SentFeedback(a).event \in Nat /\ SentFeedback(a).life \in Nat
      BY <1>6, SentFeedbackType DEF Callback, IInv
    <2>. QED
      BY <1>3, <2>1, <2>3, <2>4
  <1>. QED
    BY <1>2, <1>4, <1>5, <1>6, OutboxStep, Added

-----------------------------------------------------------------------------
(* The requests of a message.                                               *)

\* Nothing has been sent about a message that has only been read.
LEMMA NothingYet ==
    ASSUME DInv, pc = "dispatch"
    PROVE  Here = {}
  <1>1. SUFFICES ASSUME NEW k \in Here
                 PROVE  FALSE
    OBVIOUS
  <1>2. k \in DOMAIN outbox /\ outbox[k].event = current /\ outbox[k].life = life
    BY <1>1 DEF Here
  <1>3. outbox[k].event <= pos
    BY <1>2 DEF DInv, DeliveryInv, OutboxInv
  <1>. QED
    BY <1>2, <1>3 DEF current, DInv, IInv, TypeOK

\* What a step adds to what has been sent about the message.
LEMMA HereSilent ==
    ASSUME UNCHANGED <<outbox, life, pos>>
    PROVE  Here' = Here
  BY DEF Here, current

\* A request or feedback adds one.
LEMMA HereSent ==
    ASSUME IInv, NEW c, c.event = current, c.life = life, outbox' = Append(outbox, c),
           UNCHANGED <<life, pos>>
    PROVE  Here' = Here \cup {Len(outbox) + 1}
  BY Added DEF Here, current

\* An answered request is in the outbox.
LEMMA AnsweredIsAcked ==
    ASSUME IInv, outbox' = Append(outbox, SentCall(TRUE)),
           NEW n, n = current, NEW l, l = life, NEW r, r = plan.calls[call]
    PROVE  Acked(n, l, r)'
  <1>1. outbox'[Len(outbox) + 1] = SentCall(TRUE) /\ Len(outbox) + 1 \in DOMAIN outbox'
    BY Added
  <1>. QED
    BY <1>1 DEF Acked, SentCall, Received

\* So every request of the plan up to one that has just been answered is acknowledged.
LEMMA AckedSoFar ==
    ASSUME DInv, [Next]_vars, pc = "send", UNCHANGED <<life, pos>>,
           \/ UNCHANGED <<call, outbox>>
           \/ outbox' = Append(outbox, SentCall(TRUE)),
           NEW j \in 1 .. call, j < call \/ outbox' = Append(outbox, SentCall(TRUE)),
           NEW n, n = current, NEW l, l = life, NEW r, r = plan.calls[j]
    PROVE  Acked(n, l, r)'
  <1>1. call \in Nat /\ Grows
    BY StepGrows DEF DInv, IInv, TypeOK
  <1>2. CASE j < call
    <2>1. j \in 1 .. call - 1
      BY <1>1, <1>2
    <2>2. Acked(n, l, r)
      BY <2>1 DEF DInv, DeliveryInv, SendInv
    <2>. QED
      BY <1>1, <2>2, StillAcked DEF DInv
  <1>3. CASE ~(j < call)
    <2>1. j = call
      BY <1>1, <1>3
    <2>. QED
      BY <1>3, <2>1, AnsweredIsAcked DEF DInv
  <1>. QED
    BY <1>2, <1>3

\* Every step keeps SendInv.
LEMMA SendInvStep ==
    ASSUME DInv, [Next]_vars
    PROVE  SendInv'
  <1>. SUFFICES ASSUME pc' = "send"
                PROVE  SendInv'
    BY DEF SendInv
  <1>1. CASE Prepare
    <2>1. UNCHANGED <<pos, life, outbox, handlerName, log>> /\ pc = "dispatch"
      BY <1>1 DEF Prepare, IsCallbackEvent, kafka, loop, effects
    <2>2. plan' = plan
      BY <2>1 DEF plan, event, current
    <2>3. Here' = {}
      BY <2>1, NothingYet, HereSilent
    <2>4. hdr' = plan.calls[1].headers /\ call' = 1
      BY <1>1 DEF Prepare
    <2>. QED
      BY <2>2, <2>3, <2>4 DEF SendInv
  <1>2. CASE SendOk
    <2>1. /\ pc = "send" /\ UNCHANGED <<pos, life>>
          /\ outbox' = Append(outbox, SentCall(TRUE))
          /\ call' = call + 1 /\ hdr' = plan.calls[call + 1].headers
      BY <1>2 DEF SendOk, loop
    <2>2. plan' = plan /\ current' = current /\ call \in Nat
      BY <2>1, SameMessage DEF Working, DInv, IInv, TypeOK
    <2>3. ASSUME NEW j \in 1 .. call' - 1
          PROVE  Acked(current, life, plan.calls[j])'
      <3>1. j \in 1 .. call
        BY <2>1, <2>2, <2>3
      <3>2. PICK n, l, r : n = current /\ l = life /\ r = plan.calls[j]
        OBVIOUS
      <3>3. Acked(n, l, r)'
        BY <2>1, <3>1, <3>2, AckedSoFar
      <3>. QED
        BY <2>1, <2>2, <3>2, <3>3 DEF Acked
    <2>4. ASSUME NEW k \in Here'
          PROVE  \E j \in 1 .. call' - 1 : outbox'[k].method = plan'.calls[j].method
      <3>1. Here' = Here \cup {Len(outbox) + 1}
        BY <2>1, HereSent, SentIsHere DEF DInv
      <3>2. CASE k \in Here
        <4>1. outbox'[k] = outbox[k]
          BY <2>1, <3>2, Added DEF Here, DInv
        <4>2. PICK j \in 1 .. call - 1 : outbox[k].method = plan.calls[j].method
          BY <2>1, <3>2 DEF DInv, DeliveryInv, SendInv
        <4>3. j \in 1 .. call' - 1
          BY <2>1, <2>2, <4>2
        <4>4. outbox'[k].method = plan'.calls[j].method
          BY <2>2, <4>1, <4>2
        <4>. QED
          BY <4>3, <4>4
      <3>3. CASE k = Len(outbox) + 1
        <4>1. outbox'[k] = SentCall(TRUE)
          BY <2>1, <3>3, Added DEF DInv
        <4>2. call \in 1 .. call' - 1
          <5>1. call \in 1 .. Len(plan.calls)
            BY <2>1, SendsPlan DEF DInv
          <5>. QED
            BY <2>1, <2>2, <5>1
        <4>3. outbox'[k].method = plan'.calls[call].method
          <5>1. SentCall(TRUE).method = plan.calls[call].method
            BY SentIsHere
          <5>. QED
            BY <2>2, <4>1, <5>1
        <4>. QED
          BY <4>2, <4>3
      <3>. QED
        BY <3>1, <3>2, <3>3
    <2>. QED
      BY <2>1, <2>2, <2>3, <2>4 DEF SendInv
  <1>3. ASSUME pc = "send", UNCHANGED <<pos, life, outbox, hdr, call>>
        PROVE  SendInv'
    <2>1. plan' = plan /\ current' = current
      BY <1>3, SameMessage DEF Working, DInv
    <2>2. Here' = Here
      BY <1>3, HereSilent
    <2>3. SendInv
      BY DEF DInv, DeliveryInv
    <2>4. \A j \in 1 .. call - 1 : Acked(current, life, plan.calls[j])'
      BY <1>3, <2>1, <2>3 DEF SendInv, Acked
    <2>. QED
      BY <1>3, <2>1, <2>2, <2>3, <2>4 DEF SendInv
  <1>4. \/ Prepare
        \/ SendOk
        \/ pc = "send" /\ UNCHANGED <<pos, life, outbox, hdr, call>>
    <2>1. CASE UNCHANGED vars
      BY <2>1 DEF vars, loop, message, effects
    <2>2. ASSUME NEW e, Publish(e)
          PROVE  pc = "send" /\ UNCHANGED <<pos, life, outbox, hdr, call>>
      BY <2>2 DEF Publish, loop, message, effects
    <2>. QED
      BY <2>1, <2>2
      DEF Next, Consume, ProcessMessage, Commit, Fetch, Ignore, ReceiveErrorEvent,
          PrepareFails, Catch, SendFails, FeedbackOk, FeedbackFails, OperatorEvent,
          NextTarget, Return, Crash, Restart
  <1>. QED
    BY <1>1, <1>2, <1>3, <1>4

-----------------------------------------------------------------------------
(* Feedback.                                                                *)

\* Feedback that is answered, or that the operator is told of, counts for its FSP.
LEMMA HeadAttempted ==
    ASSUME IInv, [Next]_vars, NEW n, n = current,
           \/ outbox' = Append(outbox, SentFeedback(TRUE))
           \/ OperatorReport \in (operator \cup dropped)'
    PROVE  Head(targets) \in AttemptedFor(n)'
  <1>1. CASE outbox' = Append(outbox, SentFeedback(TRUE))
    <2>1. /\ Len(outbox) + 1 \in DOMAIN outbox'
          /\ outbox'[Len(outbox) + 1] = SentFeedback(TRUE)
      BY <1>1, Added
    <2>2. /\ SentFeedback(TRUE).event = current
          /\ SentFeedback(TRUE).to = Head(targets)
          /\ SentFeedback(TRUE).method = "FEEDBACK"
          /\ SentFeedback(TRUE).acked = TRUE
      BY SentIsHere
    <2>. QED
      BY <2>1, <2>2 DEF AttemptedFor
  <1>2. CASE OperatorReport \in (operator \cup dropped)'
    BY <1>2 DEF AttemptedFor, OperatorReport
  <1>. QED
    BY <1>1, <1>2

\* The failure of a message's request: its source is told, and if a request was answered
\* before, it was the payer's.
LEMMA CaughtInSend ==
    ASSUME DInv, pc = "send"
    PROVE  /\ hdr.source = HeldSource(event)
           /\ Here # {} =>
                  /\ event.name = "TransferFulfiledEvt"
                  /\ event.notifyPayee
                  /\ \A k \in Here : outbox[k].method = "PUT"
  <1>1. /\ call \in 1 .. Len(plan.calls)
        /\ call # 1 => call = 2
        /\ Planned(event, plan)
    BY SendsPlan DEF DInv
  <1>2. /\ hdr = plan.calls[call].headers
        /\ \A k \in Here : \E j \in 1 .. call - 1 : outbox[k].method = plan.calls[j].method
    BY DEF DInv, DeliveryInv, SendInv
  <1>3. hdr.source = HeldSource(event)
    BY <1>1, <1>2 DEF Planned
  <1>4. ASSUME NEW k \in Here
        PROVE  /\ event.name = "TransferFulfiledEvt"
               /\ event.notifyPayee
               /\ outbox[k].method = "PUT"
    <2>1. PICK j \in 1 .. call - 1 : outbox[k].method = plan.calls[j].method
      BY <1>2
    <2>2. call = 2 /\ j = 1
      BY <1>1, <2>1
    <2>3. Len(plan.calls) = 2
      BY <1>1, <2>2 DEF Planned
    <2>. QED
      BY <1>1, <2>1, <2>2, <2>3 DEF Planned
  <1>. QED
    BY <1>3, <1>4

\* A failure or feedback adds no answered request to what has been sent about the message.
LEMMA NoneAnswered ==
    ASSUME DInv, UNCHANGED <<pos, life>>,
           \/ UNCHANGED outbox
           \/ outbox' = Append(outbox, SentCall(FALSE))
           \/ \E a \in BOOLEAN : outbox' = Append(outbox, SentFeedback(a)),
           NEW k \in Here', outbox'[k].acked, outbox'[k].method # "FEEDBACK"
    PROVE  k \in Here /\ outbox'[k] = outbox[k]
  <1>1. CASE UNCHANGED outbox
    BY <1>1, HereSilent
  <1>2. ASSUME NEW c, c.event = current, c.life = life, outbox' = Append(outbox, c),
               ~c.acked \/ c.method = "FEEDBACK"
        PROVE  k \in Here /\ outbox'[k] = outbox[k]
    <2>1. Here' = Here \cup {Len(outbox) + 1}
      BY <1>2, HereSent DEF DInv
    <2>2. outbox'[Len(outbox) + 1] = c /\ \A i \in DOMAIN outbox : outbox'[i] = outbox[i]
      BY <1>2, Added DEF DInv
    <2>. QED
      BY <1>2, <2>1, <2>2 DEF Here
  <1>3. CASE outbox' = Append(outbox, SentCall(FALSE))
    <2>1. /\ SentCall(FALSE).event = current /\ SentCall(FALSE).life = life
          /\ SentCall(FALSE).acked = FALSE
      BY SentIsHere
    <2>. QED
      BY <1>2, <1>3, <2>1
  <1>4. ASSUME NEW a \in BOOLEAN, outbox' = Append(outbox, SentFeedback(a))
        PROVE  k \in Here /\ outbox'[k] = outbox[k]
    BY <1>2, <1>4, SentIsHere
  <1>. QED
    BY <1>1, <1>3, <1>4

\* One FSP of the feedback loop has been told, or its failure reported.
LEMMA OneTold ==
    ASSUME DInv, [Next]_vars, FeedbackOk \/ \E a \in BOOLEAN : OperatorEvent(a)
    PROVE  /\ pc \in {"feedback", "operator"}
           /\ UNCHANGED <<pos, life, log, current, event, handlerName>>
           /\ \E a \in BOOLEAN : UNCHANGED outbox \/ outbox' = Append(outbox, SentFeedback(a))
           /\ \A n : n = current => Head(targets) \in AttemptedFor(n)'
           /\ targets' = Tail(targets)
           /\ pc' = IF Len(targets) = 1 THEN "return" ELSE "feedback"
  <1>1. /\ pc \in {"feedback", "operator"}
        /\ UNCHANGED <<pos, life, log>>
        /\ targets' = Tail(targets)
        /\ pc' = IF Len(targets) = 1 THEN "return" ELSE "feedback"
    BY DEF FeedbackOk, OperatorEvent, NextTarget, kafka, loop
  <1>2. UNCHANGED <<current, event, handlerName>>
    BY <1>1, SameMessage DEF DInv, Working
  <1>3. CASE FeedbackOk
    <2>1. outbox' = Append(outbox, SentFeedback(TRUE))
      BY <1>3 DEF FeedbackOk
    <2>. QED
      BY <1>1, <1>2, <2>1, HeadAttempted DEF DInv
  <1>4. ASSUME NEW a \in BOOLEAN, OperatorEvent(a)
        PROVE  UNCHANGED outbox /\ \A n : n = current => Head(targets) \in AttemptedFor(n)'
    <2>1. UNCHANGED outbox /\ OperatorReport \in (operator \cup dropped)'
      BY <1>4 DEF OperatorEvent
    <2>. QED
      BY <2>1, HeadAttempted DEF DInv
  <1>. QED
    BY <1>1, <1>2, <1>3, <1>4

\* Everybody the loop still had to tell has been told, or is in what is left of the list.
LEMMA ToldOrLeft ==
    ASSUME DInv, [Next]_vars, FeedbackOk \/ \E a \in BOOLEAN : OperatorEvent(a),
           event.name = "ErrorEvent", NEW n, n = current,
           NEW f \in Range(ErrorEventTargets(handlerName, event))
    PROVE  f \in AttemptedFor(n)' \cup Range(Tail(targets))
  <1>1. /\ pc \in {"feedback", "operator"}
        /\ Head(targets) \in AttemptedFor(n)'
        /\ AttemptedFor(n) \subseteq AttemptedFor(n)'
    BY OneTold, StepGrows, StillAttempted DEF DInv
  <1>2. f \in AttemptedFor(n) \cup Range(targets)
    BY <1>1 DEF DInv, DeliveryInv, FeedbackInv
  <1>3. targets \in Seq(FspId) /\ Len(targets) > 0
    BY <1>1 DEF DInv, IInv, TypeOK, MessageInv
  <1>4. Range(targets) \subseteq {Head(targets)} \cup Range(Tail(targets))
    <2>1. SUFFICES ASSUME NEW k \in 1 .. Len(targets), k # 1
                   PROVE  targets[k] \in Range(Tail(targets))
      BY <1>3 DEF Range
    <2>2. k - 1 \in 1 .. Len(Tail(targets)) /\ Tail(targets)[k - 1] = targets[k]
      BY <1>3, <2>1
    <2>3. DOMAIN Tail(targets) = 1 .. Len(Tail(targets))
      BY <1>3
    <2>. QED
      BY <2>2, <2>3 DEF Range
  <1>. QED
    BY <1>1, <1>2, <1>4

\* Feedback of a failure goes to one FSP.
LEMMA CaughtInv ==
    ASSUME DInv, [Next]_vars, pc \in {"dispatch", "send"}, UNCHANGED <<pos, life>>,
           Handles(handlerName, event), event.name # "ErrorEvent",
           NEW h, Catch(h),
           h.source = HeldSource(event),
           \/ UNCHANGED outbox
           \/ outbox' = Append(outbox, SentCall(FALSE))
    PROVE  FeedbackInv'
  <1>1. event' = event /\ handlerName' = handlerName
    BY SameMessage DEF DInv, Working
  <1>2. targets' = <<h.source>> /\ Len(targets') = 1 /\ Head(targets') = h.source
    BY DEF Catch
  <1>3. ASSUME NEW k \in Here', outbox'[k].acked, outbox'[k].method # "FEEDBACK"
        PROVE  /\ event.name = "TransferFulfiledEvt"
               /\ event.notifyPayee
               /\ outbox'[k].method = "PUT"
    <2>1. k \in Here /\ outbox'[k] = outbox[k]
      BY <1>3, NoneAnswered
    <2>2. pc = "send"
      BY <2>1, NothingYet
    <2>. QED
      BY <2>1, <2>2, CaughtInSend
  <1>. QED
    BY <1>1, <1>2, <1>3 DEF FeedbackInv

\* Every step keeps FeedbackInv.
LEMMA FeedbackInvStep ==
    ASSUME DInv, [Next]_vars
    PROVE  FeedbackInv'
  <1>. SUFFICES ASSUME pc' \in {"feedback", "operator"}
                PROVE  FeedbackInv'
    BY DEF FeedbackInv
  <1>1. CASE ReceiveErrorEvent
    <2>1. /\ pc = "dispatch" /\ UNCHANGED <<pos, life>>
          /\ Handles(handlerName, event) /\ event.name = "ErrorEvent"
          /\ targets' = ErrorEventTargets(handlerName, event)
      BY <1>1 DEF ReceiveErrorEvent, loop
    <2>2. event' = event /\ handlerName' = handlerName
      BY <2>1, SameMessage DEF DInv, Working
    <2>. QED
      BY <2>1, <2>2 DEF FeedbackInv
  <1>2. CASE PrepareFails
    <2>1. /\ pc = "dispatch" /\ UNCHANGED <<pos, life, outbox>>
          /\ Handles(handlerName, event) /\ event.name # "ErrorEvent"
          /\ Catch(plan.headers)
      BY <1>2 DEF PrepareFails, IsCallbackEvent, loop, effects
    <2>2. Planned(event, plan)
      BY <2>1, MessagePlanned DEF DInv, Working
    <2>. QED
      BY <2>1, <2>2, CaughtInv DEF Planned
  <1>3. ASSUME NEW received \in BOOLEAN, SendFails(received)
        PROVE  FeedbackInv'
    <2>1. /\ pc = "send" /\ UNCHANGED <<pos, life>>
          /\ Catch(hdr)
          /\ UNCHANGED outbox \/ outbox' = Append(outbox, SentCall(FALSE))
      BY <1>3 DEF SendFails, loop
    <2>. QED
      BY <2>1, SendsPlan, CaughtInSend, CaughtInv DEF DInv
  <1>4. CASE FeedbackOk \/ \E a \in BOOLEAN : OperatorEvent(a)
    <2>1. /\ pc \in {"feedback", "operator"} /\ UNCHANGED <<current, event, handlerName>>
          /\ targets' = Tail(targets) /\ Len(targets) # 1
      BY <1>4, OneTold
    <2>2. Handles(handlerName, event) /\ event.name = "ErrorEvent"
      BY <2>1 DEF DInv, DeliveryInv, FeedbackInv
    <2>3. ASSUME NEW f \in Range(ErrorEventTargets(handlerName, event))
          PROVE  f \in AttemptedFor(current)' \cup Range(targets')
      <3>1. PICK n : n = current
        OBVIOUS
      <3>2. f \in AttemptedFor(n)' \cup Range(Tail(targets))
        BY <1>4, <2>2, <3>1, ToldOrLeft
      <3>. QED
        BY <2>1, <3>1, <3>2 DEF AttemptedFor
    <2>. QED
      BY <2>1, <2>2, <2>3 DEF FeedbackInv
  <1>5. ASSUME pc \in {"feedback", "operator"}, UNCHANGED <<pos, life, targets>>,
               UNCHANGED outbox \/ outbox' = Append(outbox, SentFeedback(FALSE))
        PROVE  FeedbackInv'
    <2>1. UNCHANGED <<current, event, handlerName>>
      BY <1>5, SameMessage DEF DInv, Working
    <2>2. FeedbackInv
      BY DEF DInv, DeliveryInv
    <2>3. AttemptedFor(current) \subseteq AttemptedFor(current)'
      <3>1. PICK n : n = current
        OBVIOUS
      <3>2. AttemptedFor(n) \subseteq AttemptedFor(n)'
        BY StepGrows, StillAttempted DEF DInv
      <3>. QED
        BY <2>1, <3>1, <3>2 DEF AttemptedFor
    <2>4. ASSUME NEW k \in Here', outbox'[k].acked, outbox'[k].method # "FEEDBACK"
          PROVE  k \in Here /\ outbox'[k] = outbox[k]
      BY <1>5, <2>4, NoneAnswered
    <2>. QED
      BY <1>5, <2>1, <2>2, <2>3, <2>4 DEF FeedbackInv
  <1>6. \/ ReceiveErrorEvent
        \/ PrepareFails
        \/ \E received \in BOOLEAN : SendFails(received)
        \/ FeedbackOk \/ \E a \in BOOLEAN : OperatorEvent(a)
        \/ /\ pc \in {"feedback", "operator"} /\ UNCHANGED <<pos, life, targets>>
           /\ UNCHANGED outbox \/ outbox' = Append(outbox, SentFeedback(FALSE))
    <2>1. CASE UNCHANGED vars
      BY <2>1 DEF vars, loop, message, effects
    <2>2. ASSUME NEW e, Publish(e)
          PROVE  pc \in {"feedback", "operator"} /\ UNCHANGED <<pos, life, targets, outbox>>
      BY <2>2 DEF Publish, loop, message, effects
    <2>3. ASSUME NEW received \in BOOLEAN, FeedbackFails(received)
          PROVE  /\ pc = "feedback" /\ UNCHANGED <<pos, life, targets>>
                 /\ UNCHANGED outbox \/ outbox' = Append(outbox, SentFeedback(FALSE))
      BY <2>3 DEF FeedbackFails, loop, message
    <2>. QED
      BY <2>1, <2>2, <2>3
      DEF Next, Consume, ProcessMessage, Commit, Fetch, Ignore, Prepare, SendOk, Return,
          Crash, Restart
  <1>. QED
    BY <1>1, <1>2, <1>3, <1>4, <1>5, <1>6

-----------------------------------------------------------------------------
(* Nobody hears twice.                                                      *)

\* A list of one FSP, or of two different ones, has nobody twice.
LEMMA TargetsDistinct ==
    ASSUME NEW h, NEW e, e.headers.source # e.headers.destination
    PROVE  IsInjective(ErrorEventTargets(h, e))
  <1>. DEFINE s == e.headers.source
              d == e.headers.destination
  <1>1. IsInjective(<<s>>) /\ IsInjective(<<d>>) /\ IsInjective(<<s, d>>)
    BY DEF IsInjective
  <1>2. ErrorEventTargets(h, e) \in {<<s>>, <<d>>, <<s, d>>}
    BY DEF ErrorEventTargets, FspIds
  <1>. QED
    BY <1>1, <1>2

\* The first of a list without repetition is not among the others.
LEMMA HeadNotInTail ==
    ASSUME NEW fsps \in Seq(FspId), Len(fsps) > 0, IsInjective(fsps)
    PROVE  /\ Head(fsps) \notin Range(Tail(fsps))
           /\ Range(Tail(fsps)) \subseteq Range(fsps)
           /\ IsInjective(Tail(fsps))
  <1>. DEFINE rest == Tail(fsps)
  <1>1. /\ DOMAIN fsps = 1 .. Len(fsps) /\ Len(fsps) \in Nat
        /\ DOMAIN rest = 1 .. Len(fsps) - 1
        /\ Head(fsps) = fsps[1]
    OBVIOUS
  <1>2. \A k \in DOMAIN rest : rest[k] = fsps[k + 1] /\ k + 1 \in DOMAIN fsps /\ k + 1 # 1
    BY <1>1
  <1>3. 1 \in DOMAIN fsps
    BY <1>1
  <1>. HIDE DEF rest
  <1>4. Head(fsps) \notin Range(rest) /\ Range(rest) \subseteq Range(fsps)
    BY <1>1, <1>2, <1>3 DEF Range, IsInjective
  <1>5. IsInjective(rest)
    BY <1>1, <1>2 DEF IsInjective
  <1>. QED
    BY <1>4, <1>5 DEF rest

\* While a request is waited for, nobody has received feedback on the message.
LEMMA NoFeedbackYet ==
    ASSUME DInv, pc \in {"dispatch", "send"}, NEW k \in Here
    PROVE  outbox[k].method # "FEEDBACK"
  <1>1. pc = "send"
    BY NothingYet
  <1>2. outbox[k].method = "PUT"
    BY <1>1, CaughtInSend
  <1>. QED
    BY <1>2

\* What a failure puts on the list is one FSP, who has received no feedback.
LEMMA UntriedFirst ==
    ASSUME DInv, [Next]_vars, pc \in {"dispatch", "send"}, UNCHANGED <<pos, life>>,
           pc' = "feedback",
           \/ UNCHANGED outbox
           \/ outbox' = Append(outbox, SentCall(FALSE)) /\ pc = "send",
           ~ToItself(event)' => IsInjective(targets')
    PROVE  UntriedInv'
  <1>1. ASSUME NEW k \in Here'
        PROVE  outbox'[k].method # "FEEDBACK"
    <2>1. CASE UNCHANGED outbox
      <3>1. k \in Here /\ outbox'[k] = outbox[k]
        BY <1>1, <2>1, HereSilent
      <3>. QED
        BY <3>1, NoFeedbackYet
    <2>2. CASE outbox' = Append(outbox, SentCall(FALSE)) /\ pc = "send"
      <3>1. Here' = Here \cup {Len(outbox) + 1}
        BY <2>2, HereSent, SentIsHere DEF DInv
      <3>2. outbox'[Len(outbox) + 1] = SentCall(FALSE)
            /\ \A i \in DOMAIN outbox : outbox'[i] = outbox[i]
        BY <2>2, Added DEF DInv
      <3>3. SentCall(FALSE).method # "FEEDBACK"
        BY <2>2, SendsPlan, SentIsHere DEF DInv
      <3>4. \A i \in Here : outbox[i].method # "FEEDBACK"
        BY NoFeedbackYet
      <3>. QED
        BY <1>1, <3>1, <3>2, <3>3, <3>4 DEF Here
    <2>. QED
      BY <2>1, <2>2
  <1>. QED
    BY <1>1 DEF UntriedInv

\* Whom the loop has tried is not among the others of the list.
LEMMA UntriedRest ==
    ASSUME DInv, pc \in {"feedback", "operator"}, UNCHANGED <<pos, life, event>>,
           \/ UNCHANGED outbox
           \/ \E a \in BOOLEAN : pc = "feedback" /\ outbox' = Append(outbox, SentFeedback(a)),
           ~ToItself(event),
           NEW k \in Here', outbox'[k].method = "FEEDBACK"
    PROVE  /\ IsInjective(targets) /\ IsInjective(Tail(targets))
           /\ outbox'[k].to \notin Range(Tail(targets))
  <1>1. targets \in Seq(FspId) /\ Len(targets) > 0
    BY DEF DInv, IInv, TypeOK, MessageInv
  <1>2. /\ IsInjective(targets)
        /\ \A i \in Here : outbox[i].method = "FEEDBACK" => outbox[i].to \notin Untried
    BY DEF DInv, DeliveryInv, UntriedInv
  <1>3. /\ Head(targets) \notin Range(Tail(targets))
        /\ IsInjective(Tail(targets))
        /\ Range(Tail(targets)) \subseteq Untried
    BY <1>1, <1>2, HeadNotInTail DEF Untried
  <1>4. CASE UNCHANGED outbox
    <2>1. k \in Here /\ outbox'[k] = outbox[k]
      BY <1>4, HereSilent
    <2>. QED
      BY <1>2, <1>3, <2>1
  <1>5. ASSUME NEW a \in BOOLEAN, pc = "feedback", outbox' = Append(outbox, SentFeedback(a))
        PROVE  outbox'[k].to \notin Range(Tail(targets))
    <2>1. Here' = Here \cup {Len(outbox) + 1}
      BY <1>5, HereSent, SentIsHere DEF DInv
    <2>2. outbox'[Len(outbox) + 1] = SentFeedback(a)
          /\ \A i \in DOMAIN outbox : outbox'[i] = outbox[i]
      BY <1>5, Added DEF DInv
    <2>3. SentFeedback(a).to = Head(targets)
      BY SentIsHere
    <2>4. CASE k \in Here
      BY <1>2, <1>3, <2>2, <2>4 DEF Here
    <2>5. CASE k = Len(outbox) + 1
      BY <1>3, <2>2, <2>3, <2>5
    <2>. QED
      BY <2>1, <2>4, <2>5
  <1>. QED
    BY <1>2, <1>3, <1>4, <1>5

\* Every step keeps UntriedInv.
LEMMA UntriedInvStep ==
    ASSUME DInv, [Next]_vars
    PROVE  UntriedInv'
  <1>. SUFFICES ASSUME pc' \in {"feedback", "operator"}
                PROVE  UntriedInv'
    BY DEF UntriedInv
  <1>1. CASE ReceiveErrorEvent
    <2>1. /\ pc = "dispatch" /\ pc' = "feedback" /\ UNCHANGED <<pos, life, outbox>>
          /\ event.name = "ErrorEvent"
          /\ targets' = ErrorEventTargets(handlerName, event)
      BY <1>1 DEF ReceiveErrorEvent, loop, effects
    <2>2. event' = event
      BY <2>1, SameMessage DEF DInv, Working
    <2>3. ~ToItself(event)' => IsInjective(targets')
      BY <2>1, <2>2, TargetsDistinct DEF ToItself
    <2>. QED
      BY <2>1, <2>3, UntriedFirst
  <1>2. CASE PrepareFails \/ \E received \in BOOLEAN : SendFails(received)
    <2>1. /\ pc \in {"dispatch", "send"} /\ UNCHANGED <<pos, life>>
          /\ \E h : Catch(h)
          /\ UNCHANGED outbox \/ (outbox' = Append(outbox, SentCall(FALSE)) /\ pc = "send")
      BY <1>2 DEF PrepareFails, SendFails, IsCallbackEvent, loop, effects
    <2>2. pc' = "feedback" /\ \E f : targets' = <<f>>
      BY <2>1 DEF Catch
    <2>3. IsInjective(targets')
      BY <2>2 DEF IsInjective
    <2>. QED
      BY <2>1, <2>2, <2>3, UntriedFirst
  <1>3. ASSUME pc \in {"feedback", "operator"}, UNCHANGED <<pos, life>>,
               \/ UNCHANGED outbox
               \/ \E a \in BOOLEAN : pc = "feedback" /\ outbox' = Append(outbox, SentFeedback(a)),
               \/ targets' = Tail(targets) /\ pc' = "feedback"
               \/ UNCHANGED targets /\ pc' = "operator"
        PROVE  UntriedInv'
    <2>1. event' = event
      BY <1>3, SameMessage DEF DInv, Working
    <2>2. SUFFICES ASSUME ~ToItself(event)
                   PROVE  /\ IsInjective(targets')
                          /\ \A k \in Here' : outbox'[k].method = "FEEDBACK" =>
                                 outbox'[k].to \notin Untried'
      BY <2>1 DEF UntriedInv
    <2>3. IsInjective(targets) /\ targets \in Seq(FspId) /\ Len(targets) > 0
      BY <1>3, <2>2 DEF DInv, DeliveryInv, UntriedInv, IInv, TypeOK, MessageInv
    <2>4. IsInjective(Tail(targets))
      BY <2>3, HeadNotInTail
    <2>5. Untried' = Range(Tail(targets))
      BY <1>3 DEF Untried
    <2>6. \A k \in Here' : outbox'[k].method = "FEEDBACK" =>
              outbox'[k].to \notin Range(Tail(targets))
      BY <1>3, <2>1, <2>2, UntriedRest
    <2>. QED
      BY <1>3, <2>3, <2>4, <2>5, <2>6
  <1>4. ASSUME pc \in {"feedback", "operator"}, UNCHANGED <<pc, pos, life, targets, outbox>>
        PROVE  UntriedInv'
    <2>1. event' = event /\ Here' = Here /\ Untried' = Untried
      BY <1>4, SameMessage, HereSilent DEF DInv, Working, Untried
    <2>. QED
      BY <1>4, <2>1 DEF DInv, DeliveryInv, UntriedInv
  <1>5. CASE FeedbackOk \/ \E a \in BOOLEAN : FeedbackFails(a) \/ OperatorEvent(a)
    BY <1>3, <1>5 DEF FeedbackOk, FeedbackFails, OperatorEvent, NextTarget, loop, message
  <1>6. \/ ReceiveErrorEvent
        \/ PrepareFails \/ \E received \in BOOLEAN : SendFails(received)
        \/ FeedbackOk \/ \E a \in BOOLEAN : FeedbackFails(a) \/ OperatorEvent(a)
        \/ /\ pc \in {"feedback", "operator"}
           /\ UNCHANGED <<pc, pos, life, targets, outbox>>
    <2>1. CASE UNCHANGED vars
      BY <2>1 DEF vars, loop, message, effects
    <2>2. ASSUME NEW e, Publish(e)
          PROVE  /\ pc \in {"feedback", "operator"}
                 /\ UNCHANGED <<pc, pos, life, targets, outbox>>
      BY <2>2 DEF Publish, loop, message, effects
    <2>. QED
      BY <2>1, <2>2
      DEF Next, Consume, ProcessMessage, Commit, Fetch, Ignore, Prepare, SendOk, Return,
          Crash, Restart
  <1>. QED
    BY <1>1, <1>2, <1>4, <1>5, <1>6

-----------------------------------------------------------------------------
(* Nobody else hears.                                                       *)

\* The message's plan is addressed to the parties of its event.
LEMMA MessageAddressed ==
    ASSUME DInv, pc \in Working
    PROVE  Addressed(event, plan)
  <1>1. handlerName \in HandlerNames /\ event \in Event
    BY EventType, HandlerAssumption DEF DInv, IInv, TypeOK
  <1>. QED
    BY <1>1, PlanAddressed DEF plan

\* The FSPs that are told of an error event are parties to it.
LEMMA TargetsAreParties ==
    ASSUME NEW h, NEW e, NEW k \in DOMAIN ErrorEventTargets(h, e)
    PROVE  ErrorEventTargets(h, e)[k] \in Parties(e)
  <1>. DEFINE s == e.headers.source
              d == e.headers.destination
  <1>1. ErrorEventTargets(h, e) \in {<<s>>, <<d>>, <<s, d>>}
    BY DEF ErrorEventTargets, FspIds
  <1>2. s \in Parties(e) /\ d \in Parties(e)
    BY DEF Parties
  <1>. HIDE DEF s, d
  <1>. QED
    BY <1>1, <1>2

\* Of a failure the event's source is told, or the switch.
LEMMA CaughtParties ==
    ASSUME DInv, [Next]_vars, pc \in Working, UNCHANGED pos, NEW h, Catch(h),
           h.source = HeldSource(event)
    PROVE  PartiesInv'
  <1>1. event' = event
    BY SameMessage DEF DInv
  <1>2. pc' = "feedback" /\ targets' = <<h.source>>
    BY DEF Catch
  <1>3. \A k \in DOMAIN targets' : targets'[k] = h.source
    BY <1>2
  <1>. QED
    BY <1>1, <1>2, <1>3 DEF PartiesInv, Parties, HeldSource

\* Every step keeps PartiesInv.
LEMMA PartiesInvStep ==
    ASSUME DInv, [Next]_vars
    PROVE  PartiesInv'
  <1>. SUFFICES ASSUME pc' \in {"send", "feedback", "operator"}
                PROVE  PartiesInv'
    BY DEF PartiesInv
  <1>1. CASE Prepare
    <2>1. /\ pc = "dispatch" /\ pc' = "send" /\ UNCHANGED pos
          /\ \A k \in DOMAIN plan.lookups : plan.lookups[k] \in Participants
      BY <1>1 DEF Prepare, IsCallbackEvent, loop
    <2>2. event' = event /\ plan' = plan
      BY <2>1, SameMessage DEF DInv, Working
    <2>3. Addressed(event, plan)
      BY <2>1, MessageAddressed DEF Working
    <2>4. \A j \in DOMAIN plan.calls : plan.calls[j].to \in Participants \cap Parties(event)
      BY <2>1, <2>3 DEF Addressed, Range
    <2>. QED
      BY <2>1, <2>2, <2>4 DEF PartiesInv, Parties
  <1>2. CASE ReceiveErrorEvent
    <2>1. /\ pc = "dispatch" /\ pc' = "feedback" /\ UNCHANGED pos
          /\ targets' = ErrorEventTargets(handlerName, event)
      BY <1>2 DEF ReceiveErrorEvent, loop
    <2>2. event' = event
      BY <2>1, SameMessage DEF DInv, Working
    <2>3. \A k \in DOMAIN targets' : targets'[k] \in Parties(event)
      BY <2>1, TargetsAreParties
    <2>. QED
      BY <2>1, <2>2, <2>3 DEF PartiesInv, Parties
  <1>3. CASE PrepareFails
    <2>1. /\ pc = "dispatch" /\ UNCHANGED pos /\ Catch(plan.headers)
          /\ Handles(handlerName, event) /\ event.name # "ErrorEvent"
      BY <1>3 DEF PrepareFails, IsCallbackEvent, loop
    <2>2. plan.headers.source = HeldSource(event)
      BY <2>1, MessagePlanned DEF DInv, Working, Planned
    <2>. QED
      BY <2>1, <2>2, CaughtParties DEF Working
  <1>4. ASSUME NEW received \in BOOLEAN, SendFails(received)
        PROVE  PartiesInv'
    <2>1. pc = "send" /\ UNCHANGED pos /\ Catch(hdr)
      BY <1>4 DEF SendFails, loop
    <2>. QED
      BY <2>1, CaughtInSend, CaughtParties DEF Working
  <1>5. ASSUME pc = "send", pc' = "send", UNCHANGED pos
        PROVE  PartiesInv'
    <2>1. event' = event /\ plan' = plan
      BY <1>5, SameMessage DEF DInv, Working
    <2>. QED
      BY <1>5, <2>1 DEF DInv, DeliveryInv, PartiesInv, Parties
  <1>6. ASSUME pc \in {"feedback", "operator"}, pc' # "send", UNCHANGED pos,
               targets' = Tail(targets) \/ UNCHANGED targets
        PROVE  PartiesInv'
    <2>1. event' = event
      BY <1>6, SameMessage DEF DInv, Working
    <2>2. targets \in Seq(FspId) /\ Len(targets) > 0
      BY <1>6 DEF DInv, IInv, TypeOK, MessageInv
    <2>3. \A k \in DOMAIN targets' : \E j \in DOMAIN targets : targets'[k] = targets[j]
      BY <1>6, <2>2
    <2>. QED
      BY <1>6, <2>1, <2>3 DEF DInv, DeliveryInv, PartiesInv, Parties
  <1>7. CASE FeedbackOk \/ \E a \in BOOLEAN : FeedbackFails(a) \/ OperatorEvent(a)
    BY <1>6, <1>7 DEF FeedbackOk, FeedbackFails, OperatorEvent, NextTarget, loop, message
  <1>8. \/ Prepare
        \/ ReceiveErrorEvent
        \/ PrepareFails
        \/ \E received \in BOOLEAN : SendFails(received)
        \/ FeedbackOk \/ \E a \in BOOLEAN : FeedbackFails(a) \/ OperatorEvent(a)
        \/ pc = "send" /\ pc' = "send" /\ UNCHANGED pos
        \/ pc \in {"feedback", "operator"} /\ pc' # "send" /\ UNCHANGED <<pos, targets>>
    <2>1. CASE UNCHANGED vars
      BY <2>1 DEF vars, loop, message
    <2>2. ASSUME NEW e, Publish(e)
          PROVE  UNCHANGED <<pc, pos, targets>>
      BY <2>2 DEF Publish, loop, message
    <2>3. CASE SendOk
      BY <2>3 DEF SendOk, loop
    <2>. QED
      BY <2>1, <2>2, <2>3
      DEF Next, Consume, ProcessMessage, Commit, Fetch, Ignore, Return, Crash, Restart
  <1>. QED
    BY <1>1, <1>2, <1>3, <1>4, <1>5, <1>6, <1>7, <1>8

-----------------------------------------------------------------------------
(* In whose name.                                                           *)

\* Every step keeps HeldInv.
LEMMA HeldInvStep ==
    ASSUME DInv, [Next]_vars
    PROVE  HeldInv'
  <1>. SUFFICES ASSUME pc' \in {"send", "feedback", "operator"}
                PROVE  HeldInv'
    BY DEF HeldInv
  <1>1. ASSUME pc \in Working, UNCHANGED pos, hdr'.source = HeldSource(event)
        PROVE  HeldInv'
    <2>1. event' = event
      BY <1>1, SameMessage DEF DInv
    <2>. QED
      BY <1>1, <2>1 DEF HeldInv, HeldSource
  <1>2. CASE Prepare
    <2>1. /\ pc = "dispatch" /\ UNCHANGED pos /\ hdr' = plan.calls[1].headers
          /\ Handles(handlerName, event) /\ event.name # "ErrorEvent"
      BY <1>2 DEF Prepare, IsCallbackEvent, loop
    <2>2. Planned(event, plan)
      BY <2>1, MessagePlanned DEF DInv, Working
    <2>3. 1 \in 1 .. Len(plan.calls)
      BY <2>2 DEF Planned
    <2>4. hdr'.source = HeldSource(event)
      BY <2>1, <2>2, <2>3 DEF Planned
    <2>. QED
      BY <1>1, <2>1, <2>4 DEF Working
  <1>3. CASE ReceiveErrorEvent
    <2>1. /\ pc = "dispatch" /\ UNCHANGED pos /\ hdr' = event.headers
          /\ event.name = "ErrorEvent"
      BY <1>3 DEF ReceiveErrorEvent, loop
    <2>2. HeldSource(event) = event.headers.source
      BY <2>1
      DEF HeldSource, QueryResponses, QueriesOfTransfers, QueriesOfQuotes, QueriesOfAccounts
    <2>. QED
      BY <1>1, <2>1, <2>2 DEF Working
  <1>4. CASE PrepareFails
    <2>1. /\ pc = "dispatch" /\ UNCHANGED pos /\ Catch(plan.headers)
          /\ Handles(handlerName, event) /\ event.name # "ErrorEvent"
      BY <1>4 DEF PrepareFails, IsCallbackEvent, loop
    <2>2. plan.headers.source = HeldSource(event)
      BY <2>1, MessagePlanned DEF DInv, Working, Planned
    <2>. QED
      BY <1>1, <2>1, <2>2 DEF Catch, Working
  <1>5. CASE SendOk
    <2>1. /\ pc = "send" /\ UNCHANGED pos /\ call + 1 \in Nat
          /\ call < Len(plan.calls) /\ hdr' = plan.calls[call + 1].headers
      BY <1>5 DEF SendOk, loop, DInv, IInv, TypeOK
    <2>2. Planned(event, plan) /\ call \in 1 .. Len(plan.calls)
      BY <2>1, SendsPlan DEF DInv
    <2>3. call + 1 \in 1 .. Len(plan.calls)
      BY <2>1, <2>2 DEF Planned
    <2>4. hdr'.source = HeldSource(event)
      BY <2>1, <2>2, <2>3 DEF Planned
    <2>. QED
      BY <1>1, <2>1, <2>4 DEF Working
  <1>6. ASSUME pc \in {"send", "feedback", "operator"}, UNCHANGED <<pos, hdr>>
        PROVE  HeldInv'
    BY <1>1, <1>6 DEF DInv, DeliveryInv, HeldInv, Working
  <1>7. \/ Prepare \/ ReceiveErrorEvent \/ PrepareFails \/ SendOk
        \/ pc \in {"send", "feedback", "operator"} /\ UNCHANGED <<pos, hdr>>
    <2>1. CASE UNCHANGED vars
      BY <2>1 DEF vars, loop, message
    <2>2. ASSUME NEW e, Publish(e)
          PROVE  UNCHANGED <<pc, pos, hdr>>
      BY <2>2 DEF Publish, loop, message
    <2>3. ASSUME NEW a \in BOOLEAN, SendFails(a) \/ FeedbackFails(a) \/ OperatorEvent(a)
          PROVE  pc \in {"send", "feedback", "operator"} /\ UNCHANGED <<pos, hdr>>
      BY <2>3 DEF SendFails, Catch, FeedbackFails, OperatorEvent, NextTarget, loop, message
    <2>4. CASE FeedbackOk
      BY <2>4 DEF FeedbackOk, NextTarget, loop
    <2>. QED
      BY <2>1, <2>2, <2>3, <2>4
      DEF Next, Consume, ProcessMessage, Commit, Fetch, Ignore, Return, Crash, Restart
  <1>. QED
    BY <1>2, <1>3, <1>4, <1>5, <1>6, <1>7

-----------------------------------------------------------------------------
(* When all is done.                                                        *)

\* An empty list of FSPs has nobody in it.
LEMMA NobodyLeft ==
    ASSUME NEW fsps, fsps \in Seq(FspId), Len(fsps) = 0
    PROVE  Range(fsps) = {}
  BY DEF Range

\* A callback event whose last request has been answered is delivered.
LEMMA LastAnswered ==
    ASSUME DInv, [Next]_vars, SendOk, pc' = "return", NEW n, n = current
    PROVE  Concluded(n)'
  <1>1. /\ pc = "send" /\ UNCHANGED <<pos, life>>
        /\ outbox' = Append(outbox, SentCall(TRUE))
    BY DEF SendOk, loop
  <1>2. /\ event.name # "ErrorEvent"
        /\ call \in 1 .. Len(plan.calls)
        /\ current \in 1 .. Len(log)
    BY <1>1, SendsPlan DEF DInv
  <1>3. call = Len(plan.calls)
    BY <1>1, <1>2 DEF SendOk
  <1>4. UNCHANGED <<current, event, plan, handlerName>>
    BY <1>1, SameMessage DEF DInv, Working
  <1>5. WellFormed(plan)
    BY <1>1, PlanWellFormed, SendsPlan DEF DInv, IInv, Working
  <1>6. ASSUME NEW k \in DOMAIN plan.calls
        PROVE  Acked(n, life, plan.calls[k])'
    <2>1. k \in 1 .. call
      BY <1>3, <1>5 DEF WellFormed
    <2>2. PICK l, r : l = life /\ r = plan.calls[k]
      OBVIOUS
    <2>3. Acked(n, l, r)'
      BY <1>1, <2>1, <2>2, AckedSoFar
    <2>. QED
      BY <1>1, <1>4, <2>2, <2>3 DEF Acked
  <1>7. life' \in 0 .. life'
    BY <1>1 DEF DInv, IInv, TypeOK
  <1>8. plan' = PlanOf(handlerName, log[n])' /\ event' = log'[n]
    BY <1>4 DEF plan, event
  <1>9. Delivered(n)'
    BY <1>4, <1>6, <1>7, <1>8 DEF Delivered
  <1>. QED
    BY <1>2, <1>4, <1>8, <1>9 DEF Concluded

\* An event of which the last FSP has been told is concluded.
LEMMA LastTold ==
    ASSUME DInv, [Next]_vars, FeedbackOk \/ \E a \in BOOLEAN : OperatorEvent(a),
           pc' = "return", NEW n, n = current
    PROVE  Concluded(n)'
  <1>1. /\ pc \in {"feedback", "operator"}
        /\ UNCHANGED <<current, event, handlerName>>
        /\ Head(targets) \in AttemptedFor(n)'
        /\ Len(targets) = 1
    BY OneTold
  <1>2. event' = log'[n]
    BY <1>1 DEF event
  <1>3. FeedbackInv
    BY DEF DInv, DeliveryInv
  <1>4. CASE event.name = "ErrorEvent"
    <2>1. Range(Tail(targets)) = {}
      <3>1. targets \in Seq(FspId)
        BY DEF DInv, IInv, TypeOK
      <3>2. Len(targets) = 1
        BY <1>1
      <3>3. Tail(targets) \in Seq(FspId) /\ Len(Tail(targets)) = 0
        BY <3>1, <3>2
      <3>. QED
        BY <3>3, NobodyLeft
    <2>2. \A f \in Range(ErrorEventTargets(handlerName, event)) : f \in AttemptedFor(n)'
      BY <1>4, <2>1, ToldOrLeft
    <2>. QED
      BY <1>1, <1>2, <1>4, <2>2 DEF Concluded
  <1>5. CASE event.name # "ErrorEvent"
    <2>1. Head(targets) = HeldSource(event)
      BY <1>1, <1>3, <1>5 DEF FeedbackInv
    <2>. QED
      BY <1>1, <1>2, <1>5, <2>1 DEF Concluded, HeldSource
  <1>. QED
    BY <1>4, <1>5

\* So the message is concluded whenever processMessage is about to return.
LEMMA ReturnConcluded ==
    ASSUME DInv, [Next]_vars, pc' = "return", Handles(handlerName, event)'
    PROVE  Concluded(current)'
  <1>1. PICK n : n = current'
    OBVIOUS
  <1>2. SUFFICES Concluded(n)'
    BY <1>1 DEF Concluded, Delivered, Acked, AttemptedFor
  <1>3. CASE SendOk
    <2>1. current' = current
      BY <1>3 DEF SendOk, loop, current
    <2>. QED
      BY <1>1, <1>3, <2>1, LastAnswered
  <1>4. CASE FeedbackOk \/ \E a \in BOOLEAN : OperatorEvent(a)
    <2>1. current' = current
      BY <1>4, OneTold
    <2>. QED
      BY <1>1, <1>4, <2>1, LastTold
  <1>5. CASE Ignore
    <2>1. pc = "dispatch" /\ UNCHANGED pos /\ ~Handles(handlerName, event)
      BY <1>5 DEF Ignore, loop
    <2>2. UNCHANGED <<event, handlerName>>
      BY <2>1, SameMessage DEF DInv, Working
    <2>. QED
      BY <2>1, <2>2
  <1>6. CASE pc = "return" /\ UNCHANGED pos
    <2>1. UNCHANGED <<current, event, handlerName>>
      BY <1>6, SameMessage DEF DInv, Working
    <2>2. Concluded(n)
      BY <1>1, <1>6, <2>1 DEF DInv, DeliveryInv, ConcludedInv
    <2>3. n \in 1 .. Len(log)
      BY <1>1, <1>6, <2>1, EventType DEF DInv, IInv, Working
    <2>. QED
      BY <2>2, <2>3, StepGrows, TypeStep, StillConcluded DEF DInv
  <1>7. SendOk \/ FeedbackOk \/ (\E a \in BOOLEAN : OperatorEvent(a)) \/ Ignore
        \/ (pc = "return" /\ UNCHANGED pos)
    <2>1. CASE UNCHANGED vars
      BY <2>1 DEF vars, loop
    <2>2. ASSUME NEW e, Publish(e)
          PROVE  pc = "return" /\ UNCHANGED pos
      BY <2>2 DEF Publish, loop
    <2>. QED
      BY <2>1, <2>2
      DEF Next, Consume, ProcessMessage, Commit, Fetch, ReceiveErrorEvent, Prepare,
          PrepareFails, Catch, SendFails, FeedbackFails, Return, Crash, Restart
  <1>. QED
    BY <1>3, <1>4, <1>5, <1>6, <1>7

\* Every step keeps ConcludedInv.
LEMMA ConcludedInvStep ==
    ASSUME DInv, [Next]_vars
    PROVE  ConcludedInv'
  <1>1. Grows /\ TypeOK'
    BY StepGrows, TypeStep DEF DInv
  <1>2. ASSUME NEW n \in 1 .. settled', Settled(n)'
        PROVE  Concluded(n)'
    <2>1. settled \in Nat /\ settled <= Len(log) /\ Len(log) \in Nat
      BY DEF DInv, IInv, TypeOK, BatchInv
    <2>2. CASE n \in 1 .. settled
      <3>1. n \in 1 .. Len(log)
        BY <2>1, <2>2
      <3>2. Settled(n)
        BY <1>1, <1>2, <2>2, <3>1 DEF Settled, Grows
      <3>3. Concluded(n)
        BY <2>2, <3>2 DEF DInv, DeliveryInv, ConcludedInv
      <3>. QED
        BY <1>1, <3>1, <3>3, StillConcluded DEF DInv
    <2>3. CASE n \notin 1 .. settled
      <3>1. Return
        <4>1. ~UNCHANGED settled
          BY <2>3
        <4>. QED
          BY <4>1
          DEF Next, vars, Consume, ProcessMessage, Publish, Commit, Fetch, Ignore,
              ReceiveErrorEvent, Prepare, PrepareFails, SendOk, SendFails, FeedbackOk,
              FeedbackFails, OperatorEvent, Crash, Restart
      <3>2. n = current /\ pc = "return" /\ UNCHANGED <<log, handlerName>>
        <4>1. settled' = current /\ pos <= settled /\ pos \in Nat
          BY <2>3, <3>1 DEF Return, DInv, IInv, TypeOK, BatchInv
        <4>. QED
          BY <2>1, <2>3, <3>1, <4>1 DEF Return, kafka, current
      <3>3. n \in 1 .. Len(log)
        BY <3>2, EventType DEF DInv, IInv, Working
      <3>4. Handles(handlerName, event)
        BY <1>2, <3>2 DEF Settled, event
      <3>5. Concluded(n)
        BY <3>2, <3>4 DEF DInv, DeliveryInv, ConcludedInv
      <3>. QED
        BY <1>1, <3>3, <3>5, StillConcluded DEF DInv
    <2>. QED
      BY <2>2, <2>3
  <1>. QED
    BY <1>2, ReturnConcluded DEF ConcludedInv

-----------------------------------------------------------------------------
(* The order of what the FSPs have received.                                *)

\* Every step keeps PatchAfterPut.
LEMMA PatchStep ==
    ASSUME DInv, [Next]_vars
    PROVE  PatchAfterPut'
  <1>1. SUFFICES ASSUME NEW j \in DOMAIN outbox', outbox'[j].method = "PATCH"
                 PROVE  \E i \in 1 .. j - 1 :
                            /\ outbox'[i].event = outbox'[j].event
                            /\ outbox'[i].life = outbox'[j].life
                            /\ outbox'[i].method = "PUT"
                            /\ outbox'[i].acked
    BY DEF PatchAfterPut
  <1>2. PatchAfterPut
    BY DEF DInv, DeliveryInv
  <1>3. Grows /\ DOMAIN outbox = 1 .. Len(outbox) /\ Len(outbox) \in Nat
    BY StepGrows DEF DInv, IInv, TypeOK
  <1>4. CASE j \in DOMAIN outbox
    <2>1. outbox'[j] = outbox[j]
      BY <1>3, <1>4 DEF Grows
    <2>2. PICK i \in 1 .. j - 1 : /\ outbox[i].event = outbox[j].event
                                  /\ outbox[i].life = outbox[j].life
                                  /\ outbox[i].method = "PUT"
                                  /\ outbox[i].acked
      BY <1>1, <1>2, <1>4, <2>1 DEF PatchAfterPut
    <2>3. outbox'[i] = outbox[i]
      BY <1>3, <1>4 DEF Grows
    <2>. QED
      BY <2>1, <2>2, <2>3
  <1>5. CASE j \notin DOMAIN outbox
    <2>1. PICK a \in BOOLEAN :
              \/ pc = "send" /\ outbox' = Append(outbox, SentCall(a))
              \/ pc = "feedback" /\ outbox' = Append(outbox, SentFeedback(a))
      BY <1>5, OutboxStep
    <2>2. j = Len(outbox) + 1
      BY <1>5, <2>1, Added DEF DInv
    <2>3. pc = "send" /\ outbox'[j] = SentCall(a)
      BY <1>1, <2>1, <2>2, Added, SentIsHere DEF DInv
    <2>4. plan.calls[call].method = "PATCH"
      BY <1>1, <2>3, SentIsHere
    <2>5. call = 2 /\ plan.calls[1].method = "PUT"
      BY <2>3, <2>4, SendsPlan DEF DInv, Planned
    <2>6. Acked(current, life, plan.calls[1])
      BY <2>3, <2>5 DEF DInv, DeliveryInv, SendInv
    <2>7. PICK i \in DOMAIN outbox : /\ outbox[i].event = current
                                     /\ outbox[i].life = life
                                     /\ outbox[i].method = "PUT"
                                     /\ outbox[i].acked
      BY <2>5, <2>6 DEF Acked
    <2>8. i \in 1 .. j - 1 /\ outbox'[i] = outbox[i]
      BY <1>3, <2>2 DEF Grows
    <2>. QED
      BY <2>3, <2>7, <2>8, SentIsHere
  <1>. QED
    BY <1>4, <1>5

\* Every step keeps FeedbackAfterSuccess.
LEMMA FeedbackAfterSuccessStep ==
    ASSUME DInv, [Next]_vars
    PROVE  FeedbackAfterSuccess'
  <1>1. SUFFICES ASSUME NEW i \in DOMAIN outbox', NEW j \in DOMAIN outbox',
                        outbox'[i].event = outbox'[j].event,
                        outbox'[i].life = outbox'[j].life,
                        outbox'[i].acked,
                        outbox'[i].method # "FEEDBACK",
                        outbox'[j].method = "FEEDBACK"
                 PROVE  LET e == log'[outbox'[i].event]
                        IN  /\ e.name = "TransferFulfiledEvt"
                            /\ e.notifyPayee
                            /\ outbox'[i].method = "PUT"
                            /\ outbox'[j].to = e.headers.source
    BY DEF FeedbackAfterSuccess
  <1>2. Grows /\ DOMAIN outbox = 1 .. Len(outbox) /\ FeedbackAfterSuccess /\ OutboxInv
    BY StepGrows DEF DInv, IInv, TypeOK, DeliveryInv
  <1>3. \A k \in DOMAIN outbox : outbox'[k] = outbox[k]
    BY <1>2 DEF Grows
  <1>4. \A k \in DOMAIN outbox : log'[outbox[k].event] = log[outbox[k].event]
    BY <1>2 DEF Grows, OutboxInv
  <1>5. CASE i \in DOMAIN outbox /\ j \in DOMAIN outbox
    <2>1. outbox'[i] = outbox[i] /\ outbox'[j] = outbox[j]
          /\ log'[outbox'[i].event] = log[outbox[i].event]
      BY <1>3, <1>4, <1>5
    <2>. QED
      BY <1>1, <1>2, <1>5, <2>1 DEF FeedbackAfterSuccess
  <1>6. CASE i \notin DOMAIN outbox \/ j \notin DOMAIN outbox
    <2>1. PICK a \in BOOLEAN :
              \/ pc = "send" /\ outbox' = Append(outbox, SentCall(a))
              \/ pc = "feedback" /\ outbox' = Append(outbox, SentFeedback(a))
      BY <1>6, OutboxStep
    <2>2. CASE pc = "send" /\ outbox' = Append(outbox, SentCall(a))
      <3>1. outbox'[Len(outbox) + 1] = SentCall(a)
            /\ DOMAIN outbox' = DOMAIN outbox \cup {Len(outbox) + 1}
        BY <2>2, Added DEF DInv
      <3>2. plan.calls[call].method # "FEEDBACK"
        BY <2>2, SendsPlan DEF DInv
      <3>3. SentCall(a).method # "FEEDBACK" /\ SentCall(a).event = current
            /\ SentCall(a).life = life
        BY <3>2, SentIsHere
      <3>4. j \in DOMAIN outbox /\ outbox'[j] = outbox[j]
        BY <1>1, <1>3, <3>1, <3>3
      <3>5. outbox'[i] = SentCall(a)
        BY <1>6, <3>1, <3>4
      <3>6. j \in Here
        BY <1>1, <3>3, <3>4, <3>5 DEF Here
      <3>7. outbox[j].method = "PUT"
        BY <2>2, <3>6, CaughtInSend
      <3>. QED
        BY <1>1, <3>4, <3>7
    <2>3. CASE pc = "feedback" /\ outbox' = Append(outbox, SentFeedback(a))
      <3>1. outbox'[Len(outbox) + 1] = SentFeedback(a)
            /\ DOMAIN outbox' = DOMAIN outbox \cup {Len(outbox) + 1}
        BY <2>3, Added DEF DInv
      <3>2. /\ SentFeedback(a).method = "FEEDBACK" /\ SentFeedback(a).to = Head(targets)
            /\ SentFeedback(a).event = current /\ SentFeedback(a).life = life
        BY SentIsHere
      <3>3. i \in DOMAIN outbox /\ outbox'[i] = outbox[i]
        BY <1>1, <1>3, <3>1, <3>2
      <3>4. outbox'[j] = SentFeedback(a)
        BY <1>6, <3>1, <3>3
      <3>5. i \in Here
        BY <1>1, <3>2, <3>3, <3>4 DEF Here
      <3>6. event.name # "ErrorEvent"
        BY <1>1, <1>2, <3>3, <3>5 DEF OutboxInv, Here, event
      <3>7. /\ event.name = "TransferFulfiledEvt" /\ event.notifyPayee
            /\ outbox[i].method = "PUT"
            /\ Head(targets) = HeldSource(event)
        BY <1>1, <2>3, <3>3, <3>5, <3>6 DEF DInv, DeliveryInv, FeedbackInv
      <3>8. HeldSource(event) = event.headers.source
        BY <3>7
        DEF QueryResponses, QueriesOfTransfers, QueriesOfQuotes, QueriesOfAccounts, HeldSource
      <3>9. log'[outbox'[i].event] = event
        BY <1>4, <3>3, <3>5 DEF Here, event
      <3>. QED
        BY <3>2, <3>3, <3>4, <3>7, <3>8, <3>9
    <2>. QED
      BY <2>1, <2>2, <2>3
  <1>. QED
    BY <1>5, <1>6

\* Every step keeps NoRepeatWithoutRestart.
LEMMA NoRepeatStep ==
    ASSUME DInv, [Next]_vars
    PROVE  NoRepeatWithoutRestart'
  <1>1. SUFFICES ASSUME NEW i \in DOMAIN outbox', NEW j \in DOMAIN outbox',
                        i < j,
                        outbox'[i].event = outbox'[j].event,
                        outbox'[i].life = outbox'[j].life,
                        ~ToItself(log'[outbox'[i].event]),
                        outbox'[i].to = outbox'[j].to,
                        outbox'[i].method = outbox'[j].method
                 PROVE  FALSE
    BY DEF NoRepeatWithoutRestart, ToItself
  <1>2. Grows /\ DOMAIN outbox = 1 .. Len(outbox) /\ Len(outbox) \in Nat
    BY StepGrows DEF DInv, IInv, TypeOK
  <1>3. \A k \in DOMAIN outbox : /\ outbox'[k] = outbox[k]
                                /\ log'[outbox[k].event] = log[outbox[k].event]
    BY <1>2 DEF Grows, DInv, DeliveryInv, OutboxInv
  <1>4. CASE j \in DOMAIN outbox
    <2>1. i \in DOMAIN outbox
      BY <1>1, <1>2, <1>4 DEF Grows
    <2>. QED
      BY <1>1, <1>3, <1>4, <2>1 DEF DInv, DeliveryInv, NoRepeatWithoutRestart
  <1>5. CASE j \notin DOMAIN outbox
    <2>1. PICK a \in BOOLEAN :
              \/ pc = "send" /\ outbox' = Append(outbox, SentCall(a))
              \/ pc = "feedback" /\ outbox' = Append(outbox, SentFeedback(a))
      BY <1>5, OutboxStep
    <2>2. j = Len(outbox) + 1
      BY <1>5, <2>1, Added DEF DInv
    <2>3. i \in DOMAIN outbox /\ outbox'[i] = outbox[i]
      BY <1>1, <1>3, <2>1, <2>2, Added DEF DInv
    <2>4. outbox'[j].event = current /\ outbox'[j].life = life
      BY <2>1, <2>2, Added, SentIsHere DEF DInv
    <2>5. i \in Here /\ ~ToItself(event)
      BY <1>1, <1>3, <2>3, <2>4 DEF Here, event
    <2>6. CASE pc = "send" /\ outbox' = Append(outbox, SentCall(a))
      <3>1. outbox'[j] = SentCall(a)
        BY <2>2, <2>6, Added DEF DInv
      <3>2. outbox[i].method = plan.calls[call].method
        BY <1>1, <2>3, <3>1, SentIsHere
      <3>3. PICK m \in 1 .. call - 1 : outbox[i].method = plan.calls[m].method
        BY <2>5, <2>6 DEF DInv, DeliveryInv, SendInv
      <3>4. /\ Planned(event, plan) /\ call \in 1 .. Len(plan.calls)
            /\ call # 1 => call = 2
        BY <2>6, SendsPlan DEF DInv
      <3>5. call = 2 /\ m = 1 /\ Len(plan.calls) = 2
        BY <3>3, <3>4 DEF Planned
      <3>. QED
        BY <3>2, <3>3, <3>4, <3>5 DEF Planned
    <2>7. CASE pc = "feedback" /\ outbox' = Append(outbox, SentFeedback(a))
      <3>1. outbox'[j] = SentFeedback(a)
        BY <2>2, <2>7, Added DEF DInv
      <3>2. outbox[i].method = "FEEDBACK" /\ outbox[i].to = Head(targets)
        BY <1>1, <2>3, <3>1, SentIsHere
      <3>3. outbox[i].to \notin Range(targets)
        BY <2>5, <2>7, <3>2 DEF DInv, DeliveryInv, UntriedInv, Untried
      <3>4. targets \in Seq(FspId) /\ Len(targets) > 0
        BY <2>7 DEF DInv, IInv, TypeOK, MessageInv
      <3>5. Head(targets) \in Range(targets)
        BY <3>4 DEF Range
      <3>. QED
        BY <3>2, <3>3, <3>5
    <2>. QED
      BY <2>1, <2>6, <2>7
  <1>. QED
    BY <1>4, <1>5

\* Every step keeps OnlyPartiesHear.
LEMMA OnlyPartiesStep ==
    ASSUME DInv, [Next]_vars
    PROVE  OnlyPartiesHear'
  <1>1. SUFFICES ASSUME NEW k \in DOMAIN outbox'
                 PROVE  outbox'[k].to \in Participants \cap Parties(log'[outbox'[k].event])
    BY DEF OnlyPartiesHear, Parties
  <1>2. Grows /\ DOMAIN outbox = 1 .. Len(outbox)
    BY StepGrows DEF DInv, IInv, TypeOK
  <1>3. CASE k \in DOMAIN outbox
    <2>1. outbox'[k] = outbox[k] /\ log'[outbox[k].event] = log[outbox[k].event]
      BY <1>2, <1>3 DEF Grows, DInv, DeliveryInv, OutboxInv
    <2>. QED
      BY <1>3, <2>1 DEF DInv, DeliveryInv, OnlyPartiesHear
  <1>4. CASE k \notin DOMAIN outbox
    <2>1. PICK a \in BOOLEAN :
              \/ pc = "send" /\ outbox' = Append(outbox, SentCall(a))
              \/ /\ pc = "feedback" /\ outbox' = Append(outbox, SentFeedback(a))
                 /\ Head(targets) \in Participants
      BY <1>4, OutboxStep
    <2>2. /\ outbox'[k].event = current
          /\ pc = "send" => outbox'[k].to = plan.calls[call].to
          /\ pc # "send" => outbox'[k].to = Head(targets)
      BY <1>4, <2>1, Added, SentIsHere DEF DInv
    <2>3. log'[current] = event
      <3>1. current \in 1 .. Len(log)
        BY <2>1, EventType DEF DInv, IInv, Working
      <3>. QED
        BY <1>2, <3>1 DEF Grows, event
    <2>4. CASE pc = "send"
      <3>1. call \in 1 .. Len(plan.calls) /\ WellFormed(plan)
        BY <2>4, SendsPlan, PlanWellFormed DEF DInv, IInv, Working
      <3>2. call \in DOMAIN plan.calls
        BY <3>1 DEF WellFormed
      <3>3. plan.calls[call].to \in Participants \cap Parties(event)
        BY <2>4, <3>2 DEF DInv, DeliveryInv, PartiesInv
      <3>. QED
        BY <2>2, <2>3, <2>4, <3>3 DEF Parties
    <2>5. CASE pc # "send"
      <3>1. pc = "feedback" /\ Head(targets) \in Participants
        BY <2>1, <2>5
      <3>2. targets \in Seq(FspId) /\ Len(targets) > 0
        BY <3>1 DEF DInv, IInv, TypeOK, MessageInv
      <3>3. 1 \in DOMAIN targets /\ Head(targets) = targets[1]
        BY <3>2
      <3>4. Head(targets) \in Parties(event) \cup {Switch}
        BY <3>1, <3>3 DEF DInv, DeliveryInv, PartiesInv
      <3>5. Head(targets) # Switch
        BY <3>1, HandlerAssumption, FspAssumption
      <3>. QED
        BY <2>2, <2>3, <2>5, <3>1, <3>4, <3>5 DEF Parties
    <2>. QED
      BY <2>4, <2>5
  <1>. QED
    BY <1>3, <1>4

\* Every step keeps SourceIsHeld.
LEMMA SourceStep ==
    ASSUME DInv, [Next]_vars
    PROVE  SourceIsHeld'
  <1>1. SUFFICES ASSUME NEW k \in DOMAIN outbox'
                 PROVE  outbox'[k].headers.source = HeldSource(log'[outbox'[k].event])
    BY DEF SourceIsHeld, HeldSource
  <1>2. Grows /\ DOMAIN outbox = 1 .. Len(outbox)
    BY StepGrows DEF DInv, IInv, TypeOK
  <1>3. CASE k \in DOMAIN outbox
    <2>1. outbox'[k] = outbox[k] /\ log'[outbox[k].event] = log[outbox[k].event]
      BY <1>2, <1>3 DEF Grows, DInv, DeliveryInv, OutboxInv
    <2>. QED
      BY <1>3, <2>1 DEF DInv, DeliveryInv, SourceIsHeld, HeldSource
  <1>4. CASE k \notin DOMAIN outbox
    <2>1. PICK a \in BOOLEAN :
              \/ pc = "send" /\ outbox' = Append(outbox, SentCall(a))
              \/ pc = "feedback" /\ outbox' = Append(outbox, SentFeedback(a))
      BY <1>4, OutboxStep
    <2>2. /\ pc = "send" => outbox'[k] = SentCall(a)
          /\ pc # "send" => outbox'[k] = SentFeedback(a)
      BY <1>4, <2>1, Added DEF DInv
    <2>3. outbox'[k].event = current
      BY <2>2, SentIsHere
    <2>4. log'[current] = event
      <3>1. current \in 1 .. Len(log)
        BY <2>1, EventType DEF DInv, IInv, Working
      <3>. QED
        BY <1>2, <3>1 DEF Grows, event
    <2>5. hdr.source = HeldSource(event)
      BY <2>1 DEF DInv, DeliveryInv, HeldInv
    <2>6. outbox'[k].headers.source = hdr.source
      <3>1. pc = "send" => SentCall(a).headers = hdr
        BY DEF SentCall, Received, DInv, DeliveryInv, SendInv
      <3>2. SentFeedback(a).headers = FeedbackHeaders
        BY DEF SentFeedback, Received
      <3>3. FeedbackHeaders.source = hdr.source
        BY DEF FeedbackHeaders, DInv, IInv, TypeOK, Headers
      <3>. QED
        BY <2>2, <3>1, <3>2, <3>3
    <2>. QED
      BY <2>3, <2>4, <2>5, <2>6 DEF HeldSource
  <1>. QED
    BY <1>3, <1>4

\* The initial states satisfy all of it.
LEMMA InitDelivery == Init => DInv
  <1>. SUFFICES ASSUME Init
                PROVE  DInv
    OBVIOUS
  <1>1. IInv
    BY InitInv
  <1>2. DOMAIN outbox = {} /\ pc = "idle" /\ settled = 0
    BY DEF Init
  <1>3. OutboxInv /\ PatchAfterPut /\ FeedbackAfterSuccess
    BY <1>2 DEF OutboxInv, PatchAfterPut, FeedbackAfterSuccess
  <1>4. SendInv /\ FeedbackInv
    BY <1>2 DEF SendInv, FeedbackInv
  <1>5. ConcludedInv
    BY <1>2 DEF ConcludedInv
  <1>6. UntriedInv /\ NoRepeatWithoutRestart
    BY <1>2 DEF UntriedInv, NoRepeatWithoutRestart
  <1>7. PartiesInv /\ HeldInv /\ OnlyPartiesHear /\ SourceIsHeld
    BY <1>2 DEF PartiesInv, HeldInv, OnlyPartiesHear, SourceIsHeld
  <1>. QED
    BY <1>1, <1>3, <1>4, <1>5, <1>6, <1>7 DEF DInv, DeliveryInv

-----------------------------------------------------------------------------
(* Theorems.                                                                *)

\* The outbox, the plan of each event and the steps of processMessage agree in every life:
\* DeliveryInv is inductive with IInv.
THEOREM DeliveryInvariant == Spec => [](IInv /\ DeliveryInv)
  <1>1. Init => DInv
    BY InitDelivery
  <1>2. DInv /\ [Next]_vars => DInv'
    <2>1. ASSUME DInv, [Next]_vars
          PROVE  IInv'
      BY <2>1, TypeStep, BatchStep, MessageStep, InOrderStep DEF IInv, DInv
    <2>. QED
      BY <2>1, OutboxInvStep, SendInvStep, FeedbackInvStep, UntriedInvStep,
         PartiesInvStep, HeldInvStep, ConcludedInvStep, PatchStep, FeedbackAfterSuccessStep,
         NoRepeatStep, OnlyPartiesStep, SourceStep
      DEF DInv, DeliveryInv
  <1>3. DInv => IInv /\ DeliveryInv
    BY DEF DInv
  <1>. QED
    BY <1>1, <1>2, <1>3, PTL DEF Spec

\* The payee hears PATCH only after the payer has acknowledged the PUT, in the same life.
THEOREM PutBeforePatch == Spec => []PatchAfterPut
  <1>1. IInv /\ DeliveryInv => PatchAfterPut
    BY DEF DeliveryInv
  <1>. QED
    BY <1>1, DeliveryInvariant, PTL

\* Feedback contradicts an answered request in one case only: the PATCH to the payee has
\* failed, and it is the payee who is told.
THEOREM NoFalseFailure == Spec => []FeedbackAfterSuccess
  <1>1. IInv /\ DeliveryInv => FeedbackAfterSuccess
    BY DEF DeliveryInv
  <1>. QED
    BY <1>1, DeliveryInvariant, PTL

\* Without a crash no FSP receives the same request or feedback twice, unless it is both
\* parties of a failed transfer.
THEOREM NothingIsRepeated == Spec => []NoRepeatWithoutRestart
  <1>1. IInv /\ DeliveryInv => NoRepeatWithoutRestart
    BY DEF DeliveryInv
  <1>. QED
    BY <1>1, DeliveryInvariant, PTL

\* Nobody receives anything about an event but participants that are parties to it.
THEOREM OnlyPartiesAreCalled == Spec => []OnlyPartiesHear
  <1>1. IInv /\ DeliveryInv => OnlyPartiesHear
    BY DEF DeliveryInv
  <1>. QED
    BY <1>1, DeliveryInvariant, PTL

\* Whatever is sent about an event names its source, or the switch where the handler answers
\* in its name: no change of the headers in memory is ever read in the wrong place.
THEOREM SourcesAreKept == Spec => []SourceIsHeld
  <1>1. IInv /\ DeliveryInv => SourceIsHeld
    BY DEF DeliveryInv
  <1>. QED
    BY <1>1, DeliveryInvariant, PTL

\* An event that is settled was delivered, or somebody was picked to be told.
THEOREM NothingIsLost == Spec => []NoSilentLoss
  <1>1. IInv /\ DeliveryInv => NoSilentLoss
    BY DEF DeliveryInv, ConcludedInv, Concluded, NoSilentLoss
  <1>. QED
    BY <1>1, DeliveryInvariant, PTL

\* When an event whose headers are not switched was not delivered, feedback was attempted
\* for the FSP that made the request.
THEOREM RequesterHears == Spec => []RequesterIsToldOfFailure
  <1>1. IInv /\ DeliveryInv => RequesterIsToldOfFailure
    BY DEF DeliveryInv, ConcludedInv, Concluded, RequesterIsToldOfFailure,
           DeliveredOrReported, HeldSource
  <1>. QED
    BY <1>1, DeliveryInvariant, PTL

\* Of an error event every FSP that the handler names is told.
THEOREM AllAreTold == Spec => []ErrorEventReachesAll
  <1>1. IInv /\ DeliveryInv => ErrorEventReachesAll
    BY DEF DeliveryInv, ConcludedInv, Concluded, ErrorEventReachesAll, Range
  <1>. QED
    BY <1>1, DeliveryInvariant, PTL

\* No FSP receives feedback about an answer to a query.
NoFeedbackOnAnswers ==
    \A k \in DOMAIN outbox :
        log[outbox[k].event].name \in QueryResponses => outbox[k].method # "FEEDBACK"

\* What becomes of an answer to a query that cannot be delivered: the handler has put the
\* switch in the source's place, so feedback is meant for the switch, which has no endpoint.
OnlyOperatorHears ==
    /\ NoFeedbackOnAnswers
    /\ \A n \in 1 .. settled :
           (Settled(n) /\ log[n].name \in QueryResponses) =>
               Delivered(n) \/ [event |-> n, fsp |-> Switch] \in operator \cup dropped

\* Feedback about an answer is for the switch, and only participants receive any.
LEMMA NoFeedbackStep ==
    ASSUME DInv, NoFeedbackOnAnswers, [Next]_vars
    PROVE  NoFeedbackOnAnswers'
  <1>1. SUFFICES ASSUME NEW k \in DOMAIN outbox',
                        log'[outbox'[k].event].name \in QueryResponses
                 PROVE  outbox'[k].method # "FEEDBACK"
    BY DEF NoFeedbackOnAnswers, QueryResponses, QueriesOfTransfers, QueriesOfQuotes,
           QueriesOfAccounts
  <1>2. Grows /\ DOMAIN outbox = 1 .. Len(outbox)
    BY StepGrows DEF DInv, IInv, TypeOK
  <1>3. CASE k \in DOMAIN outbox
    <2>1. outbox'[k] = outbox[k] /\ log'[outbox[k].event] = log[outbox[k].event]
      BY <1>2, <1>3 DEF Grows, DInv, DeliveryInv, OutboxInv
    <2>. QED
      BY <1>1, <1>3, <2>1 DEF NoFeedbackOnAnswers
  <1>4. CASE k \notin DOMAIN outbox
    <2>1. PICK a \in BOOLEAN :
              \/ pc = "send" /\ outbox' = Append(outbox, SentCall(a))
              \/ /\ pc = "feedback" /\ outbox' = Append(outbox, SentFeedback(a))
                 /\ Head(targets) \in Participants
      BY <1>4, OutboxStep
    <2>2. /\ outbox'[k].event = current
          /\ pc = "send" => outbox'[k] = SentCall(a)
      BY <1>4, <2>1, Added, SentIsHere DEF DInv
    <2>3. log'[current] = event
      <3>1. current \in 1 .. Len(log)
        BY <2>1, EventType DEF DInv, IInv, Working
      <3>. QED
        BY <1>2, <3>1 DEF Grows, event
    <2>4. pc = "send"
      <3>1. event.name \in QueryResponses /\ event.name # "ErrorEvent"
        BY <1>1, <2>2, <2>3
        DEF QueryResponses, QueriesOfTransfers, QueriesOfQuotes, QueriesOfAccounts
      <3>2. pc = "feedback" => Head(targets) = Switch
        BY <3>1 DEF DInv, DeliveryInv, FeedbackInv, HeldSource
      <3>3. Switch \notin Participants
        BY HandlerAssumption, FspAssumption
      <3>. QED
        BY <2>1, <3>2, <3>3
    <2>5. outbox'[k].method = plan.calls[call].method
      BY <2>2, <2>4 DEF SentCall, Received
    <2>6. plan.calls[call].method # "FEEDBACK"
      BY <2>4, SendsPlan DEF DInv
    <2>. QED
      BY <2>5, <2>6
  <1>. QED
    BY <1>3, <1>4

\* No FSP ever hears of the failure: it ends with the operator, or in the log file if Kafka
\* does not take the operator's event either.  The run switched_failure shows one such case,
\* this theorem that every answer that cannot be delivered is one.
THEOREM FailedAnswersEndWithOperator == Spec => []OnlyOperatorHears
  <1>1. ASSUME IInv, DeliveryInv, NoFeedbackOnAnswers
        PROVE  OnlyOperatorHears
    <2>1. SUFFICES ASSUME NEW n \in 1 .. settled, Settled(n),
                          log[n].name \in QueryResponses, ~Delivered(n)
                   PROVE  [event |-> n, fsp |-> Switch] \in operator \cup dropped
      BY <1>1 DEF OnlyOperatorHears
    <2>2. log[n].name # "ErrorEvent" /\ HeldSource(log[n]) = Switch
      BY <2>1
      DEF QueryResponses, QueriesOfTransfers, QueriesOfQuotes, QueriesOfAccounts, HeldSource
    <2>3. Switch \in AttemptedFor(n)
      BY <1>1, <2>1, <2>2 DEF DeliveryInv, ConcludedInv, Concluded
    <2>4. \A k \in DOMAIN outbox : outbox[k].to # Switch
      BY <1>1, HandlerAssumption, FspAssumption DEF DeliveryInv, OnlyPartiesHear
    <2>5. PICK r \in operator \cup dropped : r.event = n /\ r.fsp = Switch
      BY <2>3, <2>4 DEF AttemptedFor
    <2>6. r \in Report
      BY <1>1 DEF IInv, TypeOK
    <2>. QED
      BY <2>5, <2>6 DEF Report
  <1>2. Init => NoFeedbackOnAnswers
    BY DEF Init, NoFeedbackOnAnswers
  <1>3. IInv /\ DeliveryInv /\ NoFeedbackOnAnswers /\ [Next]_vars => NoFeedbackOnAnswers'
    BY NoFeedbackStep DEF DInv
  <1>. QED
    BY <1>1, <1>2, <1>3, DeliveryInvariant, PTL DEF Spec

\* Every answer to a query goes where AnswerFor says.
AnswersGoWhereRead ==
    \A k \in DOMAIN outbox :
        (outbox[k].method = "PUT" /\ log[outbox[k].event].name \in QueryResponses) =>
            outbox[k].to = AnswerFor(log[outbox[k].event])

\* The answers of the account lookup handler go to the FSP that asked, those of the other two
\* to the FSP that the query named as its destination: what the run transfer_answers shows of
\* one query is so of all of them.
THEOREM QueryAnswersAddressed == Spec => []AnswersGoWhereRead
  <1>1. ASSUME IInv, DeliveryInv
        PROVE  AnswersGoWhereRead
    <2>1. SUFFICES ASSUME NEW k \in DOMAIN outbox, outbox[k].method = "PUT",
                          log[outbox[k].event].name \in QueryResponses
                   PROVE  outbox[k].to = AnswerFor(log[outbox[k].event])
      BY DEF AnswersGoWhereRead
    <2>. DEFINE e == log[outbox[k].event]
                p == PlanOf(handlerName, e)
    <2>2. /\ outbox[k].event \in 1 .. Len(log)
          /\ Handles(handlerName, e) /\ e.name # "ErrorEvent"
          /\ \E r \in Range(p.calls) : outbox[k].to = r.to
      BY <1>1, <2>1 DEF DeliveryInv, OutboxInv
    <2>3. e \in Event /\ handlerName \in HandlerNames
      BY <1>1, <2>2, ElementOfSeq, HandlerAssumption DEF IInv, TypeOK
    <2>4. Planned(e, p) /\ WellFormed(p)
      BY <2>2, <2>3, HandledPlanned, PlanType
    <2>. HIDE DEF p, e
    <2>5. \A j \in 1 .. Len(p.calls) : p.calls[j].to = AnswerFor(e)
      BY <2>1, <2>4 DEF Planned, e
    <2>6. DOMAIN p.calls = 1 .. Len(p.calls)
      BY <2>4 DEF WellFormed
    <2>. QED
      BY <2>2, <2>5, <2>6 DEF Range, e
  <1>. QED
    BY <1>1, DeliveryInvariant, PTL

\* What the account lookup handler answers in the switch's name goes to the FSP that asked.
THEOREM AccountAnswersReachRequester == Spec => []OracleAnswersReachRequester
  <1>1. AnswersGoWhereRead => OracleAnswersReachRequester
    BY DEF AnswersGoWhereRead, OracleAnswersReachRequester, AnswersReachRequester, AnswerFor,
           QueryResponses
  <1>. QED
    BY <1>1, QueryAnswersAddressed, PTL

-----------------------------------------------------------------------------
(* What is left to do for a message.                                        *)

\* A bound on the steps processMessage still takes for the message in hand.
StepsLeft ==
    IF pc = "dispatch" THEN 8
    ELSE IF pc = "send" THEN 8 - call
    ELSE IF pc = "feedback" THEN 2 * Len(targets) + 1
    ELSE IF pc = "operator" THEN 2 * Len(targets)
    ELSE 1

\* Each step with a message in hand brings its end nearer, is its end, or the process's, or
\* is none of the handler's: no failure sends processMessage back to where it was, so it
\* makes eight steps at the most, whatever fails.
MessageEnds ==
    [][(pc \in Working) =>
           \/ StepsLeft' \in 1 .. StepsLeft - 1
           \/ pos' = current
           \/ pc' = "down"
           \/ Len(log') > Len(log) /\ StepsLeft' = StepsLeft]_vars

\* The list of an error event has one FSP or two.
LEMMA TargetsAreFew ==
    ASSUME NEW h, NEW e
    PROVE  Len(ErrorEventTargets(h, e)) \in {1, 2}
  <1>. DEFINE s == e.headers.source
              d == e.headers.destination
  <1>1. ErrorEventTargets(h, e) \in {<<s>>, <<d>>, <<s, d>>}
    BY DEF ErrorEventTargets, FspIds
  <1>. HIDE DEF s, d
  <1>. QED
    BY <1>1

\* The first step of a message.
LEMMA FirstStepNearer ==
    ASSUME pc = "dispatch", Ignore \/ ReceiveErrorEvent \/ Prepare \/ PrepareFails
    PROVE  StepsLeft' \in 1 .. StepsLeft - 1
  <1>1. StepsLeft = 8
    BY DEF StepsLeft
  <1>2. CASE Ignore
    BY <1>1, <1>2 DEF Ignore, StepsLeft
  <1>3. CASE ReceiveErrorEvent
    <2>1. pc' = "feedback" /\ Len(targets') \in {1, 2}
      BY <1>3, TargetsAreFew DEF ReceiveErrorEvent
    <2>2. CASE Len(targets') = 1
      BY <1>1, <2>1, <2>2 DEF StepsLeft
    <2>3. CASE Len(targets') = 2
      BY <1>1, <2>1, <2>3 DEF StepsLeft
    <2>. QED
      BY <2>1, <2>2, <2>3
  <1>4. CASE Prepare
    <2>1. pc' = "send" /\ call' = 1
      BY <1>4 DEF Prepare
    <2>. QED
      BY <1>1, <2>1 DEF StepsLeft
  <1>5. CASE PrepareFails
    <2>1. pc' = "feedback" /\ Len(targets') = 1
      BY <1>5 DEF PrepareFails, Catch
    <2>. QED
      BY <1>1, <2>1 DEF StepsLeft
  <1>. QED
    BY <1>2, <1>3, <1>4, <1>5

\* A request.
LEMMA RequestNearer ==
    ASSUME IInv, SendOk \/ \E received \in BOOLEAN : SendFails(received)
    PROVE  StepsLeft' \in 1 .. StepsLeft - 1
  <1>1. pc = "send"
    BY DEF SendOk, SendFails
  <1>2. call \in {1, 2} /\ Len(plan.calls) \in {1, 2}
    <2>1. Planned(event, plan) /\ call \in 1 .. Len(plan.calls)
      BY <1>1, SendsPlan
    <2>. QED
      BY <2>1 DEF Planned
  <1>3. StepsLeft = 8 - call
    BY <1>1 DEF StepsLeft
  <1>4. CASE SendOk
    <2>1. \/ pc' = "send" /\ call' = call + 1 /\ call < Len(plan.calls)
          \/ pc' = "return"
      BY <1>1, <1>4 DEF SendOk
    <2>. QED
      BY <1>2, <1>3, <2>1 DEF StepsLeft
  <1>5. ASSUME NEW received \in BOOLEAN, SendFails(received)
        PROVE  StepsLeft' \in 1 .. StepsLeft - 1
    <2>1. pc' = "feedback" /\ Len(targets') = 1
      BY <1>5 DEF SendFails, Catch
    <2>. QED
      BY <1>2, <1>3, <2>1 DEF StepsLeft
  <1>. QED
    BY <1>4, <1>5

\* A step of the feedback loop.
LEMMA FeedbackNearer ==
    ASSUME IInv,
           FeedbackOk \/ \E a \in BOOLEAN : FeedbackFails(a) \/ OperatorEvent(a)
    PROVE  StepsLeft' \in 1 .. StepsLeft - 1
  <1>1. pc \in {"feedback", "operator"}
    BY DEF FeedbackOk, FeedbackFails, OperatorEvent
  <1>2. targets \in Seq(FspId) /\ Len(targets) \in Nat \ {0}
    BY <1>1 DEF IInv, TypeOK, MessageInv
  <1>3. Len(Tail(targets)) = Len(targets) - 1
    BY <1>2
  <1>4. \/ StepsLeft = 2 * Len(targets) + 1 /\ pc = "feedback"
        \/ StepsLeft = 2 * Len(targets) /\ pc = "operator"
    BY <1>1 DEF StepsLeft
  <1>5. ASSUME NEW a \in BOOLEAN, FeedbackFails(a)
        PROVE  StepsLeft' \in 1 .. StepsLeft - 1
    <2>1. pc = "feedback" /\ pc' = "operator" /\ UNCHANGED targets
      BY <1>5 DEF FeedbackFails, message
    <2>2. StepsLeft' = 2 * Len(targets)
      BY <2>1 DEF StepsLeft
    <2>. QED
      BY <1>2, <1>4, <2>1, <2>2
  <1>6. CASE FeedbackOk \/ \E a \in BOOLEAN : OperatorEvent(a)
    <2>1. /\ targets' = Tail(targets)
          /\ pc' = IF Len(targets) = 1 THEN "return" ELSE "feedback"
      BY <1>6 DEF FeedbackOk, OperatorEvent, NextTarget
    <2>2. StepsLeft' = IF Len(targets) = 1 THEN 1 ELSE 2 * (Len(targets) - 1) + 1
      BY <1>3, <2>1 DEF StepsLeft
    <2>. QED
      BY <1>2, <1>4, <2>2
  <1>. QED
    BY <1>5, <1>6

\* So processMessage ends, whatever fails: nothing is tried again.
THEOREM ProcessingIsBounded == Spec => MessageEnds
  <1>1. ASSUME IInv, [Next]_vars, pc \in Working
        PROVE  \/ StepsLeft' \in 1 .. StepsLeft - 1
               \/ pos' = current
               \/ pc' = "down"
               \/ Len(log') > Len(log) /\ StepsLeft' = StepsLeft
               \/ UNCHANGED vars
    <2>1. ASSUME NEW e \in Published[handlerName], Publish(e)
          PROVE  Len(log') > Len(log) /\ StepsLeft' = StepsLeft
      <3>1. e \in Event
        BY <1>1, HandlerAssumption DEF IInv, TypeOK
      <3>2. log' = Append(log, e) /\ UNCHANGED <<pc, call, targets>>
        BY <2>1 DEF Publish, message
      <3>3. Len(log') = Len(log) + 1 /\ Len(log) \in Nat
        BY <1>1, <3>1, <3>2, AppendProperties DEF IInv, TypeOK
      <3>. QED
        BY <3>2, <3>3 DEF StepsLeft
    <2>2. CASE ProcessMessage
      <3>1. CASE Return
        BY <3>1 DEF Return
      <3>2. CASE Ignore \/ ReceiveErrorEvent \/ Prepare \/ PrepareFails
        BY <3>2, FirstStepNearer
        DEF Ignore, ReceiveErrorEvent, Prepare, PrepareFails, IsCallbackEvent
      <3>. QED
        BY <1>1, <2>2, <3>1, <3>2, RequestNearer, FeedbackNearer DEF ProcessMessage
    <2>3. CASE Consume \/ Restart
      BY <1>1, <2>3 DEF Consume, Commit, Fetch, Restart, Working
    <2>4. ASSUME NEW a \in BOOLEAN, Crash(a)
          PROVE  pc' = "down"
      BY <2>4 DEF Crash
    <2>. QED
      BY <1>1, <2>1, <2>2, <2>3, <2>4 DEF Next
  <1>2. IInv /\ [Next]_vars =>
            [(pc \in Working) =>
                 \/ StepsLeft' \in 1 .. StepsLeft - 1
                 \/ pos' = current
                 \/ pc' = "down"
                 \/ Len(log') > Len(log) /\ StepsLeft' = StepsLeft]_vars
    BY <1>1
  <1>. QED
    BY <1>2, Invariant, PTL DEF Spec, MessageEnds
=============================================================================
