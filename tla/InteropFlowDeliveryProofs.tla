--------------------- MODULE InteropFlowDeliveryProofs ---------------------
(***************************************************************************)
(* What EventHandlerDeliveryProofs proves of the event handler alone holds *)
(* of it in InteropFlow, where its topic is filled by the bounded context  *)
(* with answers to the requests the API has published.                     *)
(*                                                                         *)
(* "Proved" is the event handler of InteropFlow once more, as an instance  *)
(* of the module with the theorems: every definition of EventHandler has   *)
(* the same meaning under both names.                                      *)
(***************************************************************************)
EXTENDS InteropFlowProofs

Proved == INSTANCE EventHandlerDeliveryProofs
    WITH Handlers <- {"Transfers"}, MaxRestarts <- HandlerRestarts,
         Published <- [h \in {"Transfers"} |-> AnyAnswer]

-----------------------------------------------------------------------------
(* The constants.                                                           *)

\* The answers are events as the handler parses them.
LEMMA AnswersAreEvents == AnyAnswer \subseteq Proved!Event
  <1>. SUFFICES ASSUME NEW q \in Requests,
                       NEW n \in {s.success : s \in Successes} \cup {"ErrorEvent"},
                       NEW b \in BOOLEAN, NEW m \in {SourceMessage(s.event) : s \in Successes}
                PROVE  EventAbout(q, n, b, m) \in Proved!Event
    BY DEF AnyAnswer
  <1>1. n \in Proved!EventNames
    BY DEF Proved!EventNames, Proved!TransfersEvents, Successes, Response
  <1>2. Sender[q] \in Fsp /\ Recipient[q] \in Fsp
    BY FlowAssumption
  <1>. QED
    BY <1>1, <1>2 DEF EventAbout, SourceMessage, Proved!Event

\* What the event handler's modules assume of their constants is so here.
LEMMA HandlerAssumed == Proved!HandlerAssumption /\ Proved!FspAssumption
  BY AnswersAreEvents, FlowAssumption
  DEF Proved!HandlerAssumption, Proved!HandlerNames, Proved!FspAssumption

-----------------------------------------------------------------------------
(* The same operators under two names.                                      *)

\* The transfers handler's plans.
LEMMA SamePlan ==
    ASSUME NEW e
    PROVE  Handler!PlanOf("Transfers", e) = Proved!PlanOf("Transfers", e)
  BY DEF Handler!PlanOf, Proved!PlanOf, Handler!TransfersPlan, Proved!TransfersPlan,
         Handler!handleTransferPreparedEvt, Proved!handleTransferPreparedEvt,
         Handler!handleTransferFulfiledEvt, Proved!handleTransferFulfiledEvt,
         Handler!handleTransferQueryResponseEvt, Proved!handleTransferQueryResponseEvt,
         Handler!handleTransferRejectRequestEvt, Proved!handleTransferRejectRequestEvt,
         Handler!handleBulkTransferPreparedEvt, Proved!handleBulkTransferPreparedEvt,
         Handler!handleBulkTransferFulfiledEvt, Proved!handleBulkTransferFulfiledEvt,
         Handler!handleBulkTransferQueryResponseEvt,
         Proved!handleBulkTransferQueryResponseEvt,
         Handler!handleBulkTransferRejectRequestEvt,
         Proved!handleBulkTransferRejectRequestEvt, Handler!ToDestination,
         Proved!ToDestination, Handler!ToFsp, Proved!ToFsp, Handler!Plan, Proved!Plan,
         Handler!Call, Proved!Call, Handler!Switched, Proved!Switched

\* Which events it handles, and whom it tells of an error event.
LEMMA SameDispatch ==
    ASSUME NEW e
    PROVE  /\ Handler!Handles("Transfers", e) <=> Proved!Handles("Transfers", e)
           /\ Handler!ErrorEventTargets("Transfers", e)
                  = Proved!ErrorEventTargets("Transfers", e)
  BY DEF Handler!Handles, Proved!Handles, Handler!CallbackEvents, Proved!CallbackEvents,
         Handler!TransfersEvents, Proved!TransfersEvents, Handler!ErrorEventTargets,
         Proved!ErrorEventTargets, Handler!FspIds, Proved!FspIds

\* The message in hand, and what is sent about it.
LEMMA SameMessageInHand ==
    ASSUME handlerName = "Transfers"
    PROVE  /\ Handler!event = Proved!event /\ Handler!plan = Proved!plan
           /\ \A a : Handler!SentCall(a) = Proved!SentCall(a)
           /\ \A a : Handler!SentFeedback(a) = Proved!SentFeedback(a)
           /\ Handler!OperatorReport = Proved!OperatorReport
           /\ Handler!NoHeaders = Proved!NoHeaders
           /\ Handler!Handles(handlerName, Handler!event)
                  <=> Proved!Handles(handlerName, Proved!event)
           /\ Handler!ErrorEventTargets(handlerName, Handler!event)
                  = Proved!ErrorEventTargets(handlerName, Proved!event)
  <1>1. Handler!event = Proved!event
    BY DEF Handler!event, Proved!event, Handler!current, Proved!current
  <1>2. Handler!plan = Proved!plan
    BY <1>1, SamePlan DEF Handler!plan, Proved!plan
  <1>. QED
    BY <1>1, <1>2, SameDispatch
    DEF Handler!SentCall, Proved!SentCall, Handler!SentFeedback, Proved!SentFeedback,
        Handler!Received, Proved!Received, Handler!FeedbackHeaders, Proved!FeedbackHeaders,
        Handler!OperatorReport, Proved!OperatorReport, Handler!NoHeaders, Proved!NoHeaders,
        Handler!current, Proved!current

-----------------------------------------------------------------------------
(* The same actions under two names.                                        *)

\* Each step of processMessage.
LEMMA SameProcessing ==
    ASSUME handlerName = "Transfers", Handler!ProcessMessage
    PROVE  Proved!ProcessMessage
  <1>. USE DEF Handler!kafka, Proved!kafka, Handler!loop, Proved!loop, Handler!message,
               Proved!message, Handler!effects, Proved!effects
  <1>1. ASSUME Handler!Ignore PROVE Proved!Ignore
    BY <1>1, SameMessageInHand
    DEF Handler!Ignore, Proved!Ignore
  <1>2. ASSUME Handler!ReceiveErrorEvent PROVE Proved!ReceiveErrorEvent
    BY <1>2, SameMessageInHand
    DEF Handler!ReceiveErrorEvent, Proved!ReceiveErrorEvent
  <1>3. ASSUME Handler!Prepare PROVE Proved!Prepare
    BY <1>3, SameMessageInHand
    DEF Handler!Prepare, Proved!Prepare, Handler!IsCallbackEvent, Proved!IsCallbackEvent
  <1>4. ASSUME Handler!PrepareFails PROVE Proved!PrepareFails
    BY <1>4, SameMessageInHand
    DEF Handler!PrepareFails, Proved!PrepareFails, Handler!IsCallbackEvent,
        Proved!IsCallbackEvent, Handler!Catch, Proved!Catch
  <1>5. ASSUME Handler!SendOk PROVE Proved!SendOk
    BY <1>5, SameMessageInHand
    DEF Handler!SendOk, Proved!SendOk
  <1>6. ASSUME NEW a \in BOOLEAN, Handler!SendFails(a) PROVE Proved!SendFails(a)
    BY <1>6, SameMessageInHand
    DEF Handler!SendFails, Proved!SendFails, Handler!Catch, Proved!Catch
  <1>7. ASSUME Handler!FeedbackOk PROVE Proved!FeedbackOk
    BY <1>7, SameMessageInHand
    DEF Handler!FeedbackOk, Proved!FeedbackOk, Handler!NextTarget, Proved!NextTarget
  <1>8. ASSUME NEW a \in BOOLEAN, Handler!FeedbackFails(a) PROVE Proved!FeedbackFails(a)
    BY <1>8, SameMessageInHand
    DEF Handler!FeedbackFails, Proved!FeedbackFails
  <1>9. ASSUME NEW a \in BOOLEAN, Handler!OperatorEvent(a) PROVE Proved!OperatorEvent(a)
    BY <1>9, SameMessageInHand
    DEF Handler!OperatorEvent, Proved!OperatorEvent, Handler!NextTarget, Proved!NextTarget
  <1>10. ASSUME Handler!Return PROVE Proved!Return
    BY <1>10, SameMessageInHand
    DEF Handler!Return, Proved!Return, Handler!current, Proved!current
  <1>. QED
    BY <1>1, <1>2, <1>3, <1>4, <1>5, <1>6, <1>7, <1>8, <1>9, <1>10 DEF Handler!ProcessMessage, Proved!ProcessMessage

\* The consumer, the process and the other bounded contexts.
LEMMA SameSurroundings ==
    ASSUME handlerName = "Transfers"
    PROVE  /\ Handler!Consume => Proved!Consume
           /\ Handler!Restart => Proved!Restart
           /\ \A a \in BOOLEAN : Handler!Crash(a) => Proved!Crash(a)
           /\ \A e \in AnyAnswer : Handler!Publish(e) => Proved!Next
  <1>. USE DEF Handler!kafka, Proved!kafka, Handler!loop, Proved!loop, Handler!message,
               Proved!message, Handler!effects, Proved!effects
  <1>1. Handler!Consume => Proved!Consume
    BY DEF Handler!Consume, Proved!Consume, Handler!Commit, Proved!Commit, Handler!Fetch,
           Proved!Fetch
  <1>2. Handler!Restart => Proved!Restart
    BY DEF Handler!Restart, Proved!Restart
  <1>3. ASSUME NEW a \in BOOLEAN, Handler!Crash(a) PROVE Proved!Crash(a)
    BY <1>3, SameMessageInHand DEF Handler!Crash, Proved!Crash
  <1>4. ASSUME NEW e \in AnyAnswer, Handler!Publish(e) PROVE Proved!Next
    <2>1. Proved!Publish(e)
      BY <1>4 DEF Handler!Publish, Proved!Publish
    <2>. QED
      BY <2>1 DEF Proved!Next
  <1>. QED
    BY <1>1, <1>2, <1>3, <1>4

\* A step of the composition is one of the event handler, or none.
LEMMA HandlerSteps == FlowInv /\ [FlowNext]_flow => [Proved!Next]_(Proved!vars)
  <1>. SUFFICES ASSUME FlowInv, [FlowNext]_flow
                PROVE  Proved!Next \/ UNCHANGED Proved!vars
    OBVIOUS
  <1>1. handlerName = "Transfers"
    BY DEF FlowInv, LoopInv
  <1>2. CASE ApiStep \/ UNCHANGED flow
    BY <1>2
    DEF ApiStep, flow, handler, Proved!vars, Proved!kafka, Proved!loop, Proved!message,
        Proved!effects
  <1>3. ASSUME NEW q \in Requests, Respond(q)
        PROVE  Proved!Next
    <2>1. PICK e \in AnswersTo(q) : Handler!Publish(e)
      BY <1>3 DEF Respond
    <2>. QED
      BY <1>1, <2>1, AnswerType, SameSurroundings
  <1>4. CASE HandlerStep
    BY <1>1, <1>4, SameProcessing, SameSurroundings DEF HandlerStep, Work, Proved!Next
  <1>. QED
    BY <1>2, <1>3, <1>4 DEF FlowNext

\* So the event handler of the composition behaves as the one that was proved correct.
LEMMA HandlerInFlow == FlowSpec => Proved!Spec
  <1>1. FlowInit => Proved!Init
    BY DEF FlowInit, Handler!Init, Proved!Init, Handler!NoHeaders, Proved!NoHeaders
  <1>. QED
    BY <1>1, HandlerSteps, FlowInvariant, PTL DEF FlowSpec, Proved!Spec

-----------------------------------------------------------------------------
(* The same promises under two names.                                       *)

\* What has become of an event.
LEMMA SameHistory ==
    ASSUME handlerName = "Transfers"
    PROVE  \A n : /\ Handler!AttemptedFor(n) = Proved!AttemptedFor(n)
                  /\ Handler!Delivered(n) <=> Proved!Delivered(n)
                  /\ Handler!Settled(n) <=> Proved!Settled(n)
                  /\ Handler!Concluded(n) <=> Proved!Concluded(n)
  <1>1. \A n : Handler!AttemptedFor(n) = Proved!AttemptedFor(n)
    BY DEF Handler!AttemptedFor, Proved!AttemptedFor
  <1>2. \A n, l, c : Handler!Acked(n, l, c) <=> Proved!Acked(n, l, c)
    BY DEF Handler!Acked, Proved!Acked
  <1>3. \A n : Handler!Delivered(n) <=> Proved!Delivered(n)
    BY <1>2, SamePlan DEF Handler!Delivered, Proved!Delivered
  <1>4. \A n : Handler!Settled(n) <=> Proved!Settled(n)
    BY SameDispatch DEF Handler!Settled, Proved!Settled
  <1>5. /\ Handler!QueryResponses = Proved!QueryResponses
        /\ \A e : Handler!HeldSource(e) = Proved!HeldSource(e)
    BY DEF Handler!QueryResponses, Proved!QueryResponses, Handler!QueriesOfTransfers,
           Proved!QueriesOfTransfers, Handler!QueriesOfQuotes, Proved!QueriesOfQuotes,
           Handler!QueriesOfAccounts, Proved!QueriesOfAccounts, Handler!HeldSource,
           Proved!HeldSource
  <1>6. \A n : Handler!Concluded(n) <=> Proved!Concluded(n)
    BY <1>1, <1>3, <1>5, SameDispatch
    DEF Handler!Concluded, Proved!Concluded, Handler!Range, Proved!Range
  <1>. QED
    BY <1>1, <1>3, <1>4, <1>6

\* What is promised about the events.
LEMMA SameDelivery ==
    ASSUME handlerName = "Transfers", Proved!DeliveryInv
    PROVE  Handler!DeliveryInv
  <1>. USE DEF Proved!DeliveryInv
  <1>1. Handler!current = Proved!current /\ Handler!Here = Proved!Here
    BY DEF Handler!current, Proved!current, Handler!Here, Proved!Here
  <1>2. /\ Handler!Working = Proved!Working
        /\ Handler!QueryResponses = Proved!QueryResponses
        /\ \A e : Handler!HeldSource(e) = Proved!HeldSource(e)
    BY DEF Handler!Working, Proved!Working, Handler!QueryResponses, Proved!QueryResponses,
           Handler!QueriesOfTransfers, Proved!QueriesOfTransfers, Handler!QueriesOfQuotes,
           Proved!QueriesOfQuotes, Handler!QueriesOfAccounts, Proved!QueriesOfAccounts,
           Handler!HeldSource, Proved!HeldSource
  <1>3. Handler!OutboxInv
    BY <1>1, <1>2, SamePlan, SameDispatch DEF Handler!OutboxInv, Proved!OutboxInv,
        Handler!Range, Proved!Range
  <1>4. Handler!SendInv
    BY <1>1, SameMessageInHand
    DEF Handler!SendInv, Proved!SendInv, Handler!Acked, Proved!Acked
  <1>5. Handler!FeedbackInv
    BY <1>1, <1>2, SameMessageInHand, SameHistory
    DEF Handler!FeedbackInv, Proved!FeedbackInv, Handler!Range, Proved!Range
  <1>6. Handler!UntriedInv
    BY <1>1, SameMessageInHand
    DEF Handler!UntriedInv, Proved!UntriedInv, Handler!Untried, Proved!Untried,
        Handler!ToItself, Proved!ToItself, Handler!Range, Proved!Range,
        Handler!IsInjective, Proved!IsInjective
  <1>7. Handler!ConcludedInv
    BY <1>1, SameMessageInHand, SameHistory DEF Handler!ConcludedInv, Proved!ConcludedInv
  <1>8. Handler!PatchAfterPut /\ Handler!FeedbackAfterSuccess
    BY DEF Handler!PatchAfterPut, Proved!PatchAfterPut, Handler!FeedbackAfterSuccess,
           Proved!FeedbackAfterSuccess
  <1>9. Handler!NoRepeatWithoutRestart
    BY DEF Handler!NoRepeatWithoutRestart, Proved!NoRepeatWithoutRestart, Handler!ToItself,
           Proved!ToItself
  <1>10. Handler!PartiesInv /\ Handler!OnlyPartiesHear
    BY SameMessageInHand
    DEF Handler!PartiesInv, Proved!PartiesInv, Handler!OnlyPartiesHear,
        Proved!OnlyPartiesHear, Handler!Parties, Proved!Parties
  <1>11. Handler!HeldInv /\ Handler!SourceIsHeld
    BY <1>2, SameMessageInHand
    DEF Handler!HeldInv, Proved!HeldInv, Handler!SourceIsHeld, Proved!SourceIsHeld
  <1>. QED
    BY <1>3, <1>4, <1>5, <1>6, <1>7, <1>8, <1>9, <1>10, <1>11
    DEF Handler!DeliveryInv

-----------------------------------------------------------------------------
(* Theorems.                                                                *)

\* Every promise of the event handler about a single event holds in the composition: it
\* does not depend on who fills the topic, or on what the API does meanwhile.
THEOREM HandlerDelivers == FlowSpec => []Handler!DeliveryInv
  <1>1. Proved!Spec => [](Proved!IInv /\ Proved!DeliveryInv)
    BY Proved!DeliveryInvariant, HandlerAssumed
  <1>2. FlowInv /\ Proved!IInv /\ Proved!DeliveryInv => Handler!DeliveryInv
    BY SameDelivery DEF FlowInv, LoopInv
  <1>. QED
    BY <1>1, <1>2, HandlerInFlow, FlowInvariant, PTL

\* The FSP that made a request the switch is done with has been told of any failure on the
\* way: what the bounded context answered was delivered, or feedback was attempted for it,
\* whatever crashed in between; but for the two cases SenderIsDue names.
THEOREM SendersAreTold == FlowSpec => []SenderIsTold
  <1>1. Proved!Spec => []Proved!OnlyOperatorHears
    BY Proved!FailedAnswersEndWithOperator, HandlerAssumed
  <1>2. FlowInv /\ Handler!DeliveryInv /\ Proved!OnlyOperatorHears => SenderIsTold
    <2>. SUFFICES ASSUME FlowInv, Handler!DeliveryInv, Proved!OnlyOperatorHears,
                         NEW n \in 1 .. settled
                  PROVE  SenderIsDue(n, about[n])
      BY DEF SenderIsTold
    <2>1. /\ handlerName = "Transfers" /\ log \in Seq(AnyAnswer)
          /\ settled \in Nat /\ settled <= Len(log) /\ Len(about) = Len(log)
          /\ about \in Seq(Requests)
      BY DEF FlowInv, LoopInv, AboutInv
    <2>2. n \in 1 .. Len(log) /\ n \in DOMAIN about
      BY <2>1
    <2>3. log[n] \in AnyAnswer
      BY <2>1, <2>2
    <2>4. Handler!Handles("Transfers", log[n])
      BY <2>3, AnswerHandled
    <2>5. Handler!Concluded(n) /\ Handler!Settled(n)
      BY <2>1, <2>4 DEF Handler!DeliveryInv, Handler!ConcludedInv, Handler!Settled
    <2>6. /\ log[n].headers.source = Sender[about[n]]
          /\ log[n].headers.destination = Recipient[about[n]]
      <3>1. log[n].headers = [source |-> Sender[about[n]], destination |-> Recipient[about[n]]]
        BY <2>2 DEF FlowInv, AboutInv
      <3>. QED
        BY <3>1
    <2>7. CASE log[n].name # "ErrorEvent" /\ log[n].name \notin Handler!QueryResponses
      BY <2>5, <2>6, <2>7 DEF Handler!Concluded, Handler!HeldSource, SenderIsDue
    <2>8. CASE log[n].name = "ErrorEvent"
      <3>1. \A f \in Handler!Range(Handler!ErrorEventTargets("Transfers", log[n])) :
                f \in Handler!AttemptedFor(n)
        BY <2>1, <2>5, <2>8 DEF Handler!Concluded
      <3>. DEFINE fsps == Handler!ErrorEventTargets("Transfers", log[n])
      <3>2. 1 \in DOMAIN fsps
            /\ fsps[1] = IF log[n].sourceMessage = "TransferRejectRequestedEvt"
                         THEN Recipient[about[n]] ELSE Sender[about[n]]
        BY <2>6 DEF Handler!ErrorEventTargets, Handler!FspIds
      <3>. HIDE DEF fsps
      <3>3. fsps[1] \in Handler!AttemptedFor(n)
        BY <3>1, <3>2 DEF Handler!Range, fsps
      <3>. QED
        BY <2>8, <3>2, <3>3 DEF SenderIsDue
    <2>9. CASE log[n].name \in Handler!QueryResponses /\ log[n].name # "ErrorEvent"
      <3>1. Handler!QueryResponses = Proved!QueryResponses
        BY DEF Handler!QueryResponses, Proved!QueryResponses, Handler!QueriesOfTransfers,
               Proved!QueriesOfTransfers, Handler!QueriesOfQuotes, Proved!QueriesOfQuotes,
               Handler!QueriesOfAccounts, Proved!QueriesOfAccounts
      <3>2. Handler!Delivered(n) \/ [event |-> n, fsp |-> Switch] \in operator \cup dropped
        BY <2>1, <2>5, <2>9, <3>1, SameHistory DEF Proved!OnlyOperatorHears
      <3>. QED
        BY <2>9, <3>2 DEF SenderIsDue
    <2>. QED
      BY <2>7, <2>8, <2>9
  <1>. QED
    BY <1>1, <1>2, HandlerInFlow, FlowInvariant, HandlerDelivers, PTL

\* Only the FSP that made a request and the one it is for are ever called about it, only if
\* they are participants, and in nobody's name but its maker's or the switch's, whatever was
\* switched, redelivered or repeated on the way.
OnlyItsPartiesAreReached ==
    \A k \in DOMAIN outbox :
        LET q == about[outbox[k].event]
        IN  /\ outbox[k].to \in Participants \cap {Sender[q], Recipient[q]}
            /\ outbox[k].headers.source \in {Sender[q], Switch}

\* An answer's payload names the FSP its headers are for.
LEMMA AnswerPayload ==
    ASSUME NEW e \in AnyAnswer
    PROVE  e.payloadFsp = e.headers.destination
  BY DEF AnyAnswer, EventAbout

\* Nobody else hears of a request, in all of the composition.
THEOREM OthersHearNothing == FlowSpec => []OnlyItsPartiesAreReached
  <1>1. FlowInv /\ Handler!DeliveryInv => OnlyItsPartiesAreReached
    <2>. SUFFICES ASSUME FlowInv, Handler!DeliveryInv, NEW k \in DOMAIN outbox
                  PROVE  LET q == about[outbox[k].event]
                         IN  /\ outbox[k].to \in Participants \cap {Sender[q], Recipient[q]}
                             /\ outbox[k].headers.source \in {Sender[q], Switch}
      BY DEF OnlyItsPartiesAreReached
    <2>. DEFINE n == outbox[k].event
                e == log[n]
    <2>1. /\ n \in 1 .. Len(log)
          /\ outbox[k].to \in Participants \cap Handler!Parties(e)
          /\ outbox[k].headers.source \in {e.headers.source, Switch}
      BY DEF Handler!DeliveryInv, Handler!OutboxInv, Handler!OnlyPartiesHear,
             Handler!SourceIsHeld, Handler!HeldSource
    <2>2. /\ log \in Seq(AnyAnswer) /\ about \in Seq(Requests) /\ Len(about) = Len(log)
          /\ \A i \in DOMAIN about :
                 log[i].headers = [source |-> Sender[about[i]],
                                   destination |-> Recipient[about[i]]]
      BY DEF FlowInv, LoopInv, AboutInv
    <2>. HIDE DEF n
    <2>3. e \in AnyAnswer
      BY <2>1, <2>2
    <2>4. e.headers = [source |-> Sender[about[n]], destination |-> Recipient[about[n]]]
      BY <2>1, <2>2
    <2>5. e.payloadFsp = e.headers.destination
      BY <2>3, AnswerPayload
    <2>6. Handler!Parties(e) = {Sender[about[n]], Recipient[about[n]]}
      BY <2>4, <2>5 DEF Handler!Parties
    <2>7. e.headers.source = Sender[about[n]]
      BY <2>4
    <2>. QED
      BY <2>1, <2>6, <2>7 DEF n
  <1>. QED
    BY <1>1, FlowInvariant, HandlerDelivers, PTL

\* The handler's offsets are as safe as they are alone: what is committed is settled, what a
\* crash can repeat is one batch, nothing is heard of an event before those ahead of it are
\* settled, and nothing at all once its offset is committed.
THEOREM HandlerKeepsOrder ==
    FlowSpec => /\ [](Handler!CommittedAreSettled /\ Handler!InOrder)
                /\ Handler!NoCallbackAfterCommit
  <1>1. Proved!Spec => []Proved!CommittedAreSettled
    BY Proved!NothingCommittedUnsettled, HandlerAssumed
  <1>2. Proved!Spec => []Proved!InOrder
    BY Proved!EventsInOrder, HandlerAssumed
  <1>3. Proved!Spec => Proved!NoCallbackAfterCommit
    BY Proved!NeverAfterCommit, HandlerAssumed
  <1>4. /\ Proved!CommittedAreSettled => Handler!CommittedAreSettled
        /\ Proved!InOrder => Handler!InOrder
    BY DEF Proved!CommittedAreSettled, Handler!CommittedAreSettled, Proved!InOrder,
           Handler!InOrder, Proved!Noticed, Handler!Noticed
  <1>5. [Len(outbox') > Len(outbox) => outbox'[Len(outbox')].event > committed]_(Proved!vars)
            => [Len(outbox') > Len(outbox)
                    => outbox'[Len(outbox')].event > committed]_(Handler!vars)
    BY DEF Proved!vars, Handler!vars, Proved!kafka, Handler!kafka, Proved!loop, Handler!loop,
           Proved!message, Handler!message, Proved!effects, Handler!effects
  <1>. QED
    BY <1>1, <1>2, <1>3, <1>4, <1>5, HandlerInFlow, PTL
    DEF Proved!NoCallbackAfterCommit, Handler!NoCallbackAfterCommit

\* The transfers handler of the composition implements EventSettlement.
THEOREM HandlerSettles == FlowSpec => Handler!ImplementsSettlement
  <1>1. Proved!Spec => Proved!ImplementsSettlement
    BY Proved!Implementation, HandlerAssumed
  <1>2. Handler!Noticed = Proved!Noticed
    BY DEF Handler!Noticed, Proved!Noticed
  <1>3. Proved!Settlement!Init => Handler!Settlement!Init
    BY <1>2 DEF Proved!Settlement!Init, Handler!Settlement!Init
  <1>4. [Proved!Settlement!Next]_(Proved!Settlement!vars)
            => [Handler!Settlement!Next]_(Handler!Settlement!vars)
    <2>1. Handler!Noticed' = Proved!Noticed'
      BY DEF Handler!Noticed, Proved!Noticed
    <2>. QED
      BY <1>2, <2>1
      DEF Handler!Settlement!Next, Proved!Settlement!Next, Handler!Settlement!vars,
          Proved!Settlement!vars, Handler!Settlement!Publish, Proved!Settlement!Publish,
          Handler!Settlement!Notice, Proved!Settlement!Notice, Handler!Settlement!Settle,
          Proved!Settlement!Settle, Handler!Settlement!Commit, Proved!Settlement!Commit
  <1>. QED
    BY <1>1, <1>3, <1>4, HandlerInFlow, PTL
    DEF Proved!ImplementsSettlement, Handler!ImplementsSettlement, Proved!Settlement!Spec,
        Handler!Settlement!Spec
=============================================================================
