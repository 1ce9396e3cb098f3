------------------------- MODULE InteropFlowProofs -------------------------
(***************************************************************************)
(* Proofs about InteropFlow, for any requests and routes, any answers of   *)
(* the bounded context and any number of crashes of either service.  What  *)
(* FspiopApiProofs says of the API holds in the composition, since each of *)
(* its steps is one of FspiopApi or leaves the API alone.                  *)
(***************************************************************************)
EXTENDS InteropFlow, FspiopApiProofs

-----------------------------------------------------------------------------
(* The API in the composition.                                              *)

\* A step of the composition is one of the API, or none.
LEMMA ApiSteps == [FlowNext]_flow => [Next]_vars
  BY DEF FlowNext, ApiStep, Api, Respond, HandlerStep, Next, flow

\* Kafka loses no event of the API.
LEMMA PublishedStays == IInv /\ [Next]_vars => Published \subseteq Published'
  <1>. SUFFICES ASSUME IInv, [Next]_vars PROVE Published \subseteq Published'
    OBVIOUS
  <1>1. [Ingress!Next]_(Ingress!vars)
    BY StepImplements
  <1>. QED
    BY <1>1 DEF Ingress!Next, Ingress!vars, Ingress!Publish, Ingress!Reply, Ingress!Lose

-----------------------------------------------------------------------------
(* The bounded context's answers.                                           *)

\* An event about a request is one of the events that can come.
LEMMA AnswerMade ==
    ASSUME NEW q \in Requests, NEW n \in {s.success : s \in Successes} \cup {"ErrorEvent"},
           NEW notifyPayee \in BOOLEAN,
           NEW m \in {SourceMessage(s.event) : s \in Successes}
    PROVE  EventAbout(q, n, notifyPayee, m) \in AnyAnswer
  BY DEF AnyAnswer

\* What a bounded context makes of a request carries the headers of the request.
LEMMA AnswerHeaders ==
    ASSUME NEW q \in Requests, NEW e \in AnswersTo(q)
    PROVE  e.headers = [source |-> Sender[q], destination |-> Recipient[q]]
  <1>1. ASSUME NEW n, NEW b, NEW m, e = EventAbout(q, n, b, m)
        PROVE  e.headers = [source |-> Sender[q], destination |-> Recipient[q]]
    BY <1>1 DEF EventAbout
  <1>2. CASE e \in Outcomes(q)
    <2>1. PICK s \in Successes, b \in BOOLEAN : e = EventAbout(q, s.success, b, "Other")
      BY <1>2 DEF Outcomes
    <2>. QED
      BY <1>1, <2>1
  <1>3. CASE e \notin Outcomes(q)
    <2>1. e = EventAbout(q, "ErrorEvent", FALSE, SourceMessage(request[q].route.event))
      BY <1>3 DEF AnswersTo
    <2>. QED
      BY <1>1, <2>1
  <1>. QED
    BY <1>2, <1>3

\* What a bounded context makes of a request is one of them.
LEMMA AnswerType ==
    ASSUME NEW q \in Requests, NEW e \in AnswersTo(q)
    PROVE  e \in AnyAnswer
  <1>1. CASE e \in Outcomes(q)
    <2>1. PICK s \in Successes, n \in BOOLEAN : e = EventAbout(q, s.success, n, "Other")
      BY <1>1 DEF Outcomes
    <2>2. SourceMessage("TransferPrepareRequestedEvt") = "Other"
      BY DEF SourceMessage
    <2>3. Response("TransferPrepareRequestedEvt", "TransferPreparedEvt") \in Successes
      BY DEF Successes
    <2>4. "Other" \in {SourceMessage(t.event) : t \in Successes}
      BY <2>2, <2>3 DEF Response
    <2>5. s.success \in {t.success : t \in Successes} \cup {"ErrorEvent"}
      OBVIOUS
    <2>. QED
      BY <2>1, <2>4, <2>5, AnswerMade
  <1>2. CASE e \notin Outcomes(q)
    <2>1. /\ Outcomes(q) # {}
          /\ e = EventAbout(q, "ErrorEvent", FALSE, SourceMessage(request[q].route.event))
      BY <1>2 DEF AnswersTo
    <2>2. PICK s \in Successes : s.event = request[q].route.event
      BY <2>1 DEF Outcomes
    <2>3. SourceMessage(s.event) \in {SourceMessage(t.event) : t \in Successes}
      OBVIOUS
    <2>4. "ErrorEvent" \in {t.success : t \in Successes} \cup {"ErrorEvent"}
      OBVIOUS
    <2>5. e = EventAbout(q, "ErrorEvent", FALSE, SourceMessage(s.event))
      BY <2>1, <2>2
    <2>. QED
      BY <2>3, <2>4, <2>5, AnswerMade
  <1>. QED
    BY <1>1, <1>2

\* The handler has a case for each of them.
LEMMA AnswerHandled ==
    ASSUME NEW e \in AnyAnswer
    PROVE  Handler!Handles("Transfers", e)
  <1>1. /\ e.fromFspiop
        /\ e.name \in {s.success : s \in Successes} \cup {"ErrorEvent"}
    BY DEF AnyAnswer, EventAbout
  <1>. QED
    BY <1>1 DEF Handler!Handles, Handler!CallbackEvents, Handler!TransfersEvents,
                Successes, Response

-----------------------------------------------------------------------------
(* The event handler in the composition.                                    *)

\* A record of what an FSP has received, appended to the outbox.
LEMMA OutboxAppend ==
    ASSUME NEW S, outbox \in Seq(S), NEW x, outbox' = Append(outbox, x)
    PROVE  /\ outbox' \in Seq(S \cup {x})
           /\ {outbox'[k].event : k \in DOMAIN outbox'} =
                  {outbox[k].event : k \in DOMAIN outbox} \cup {x.event}
  <1>1. /\ outbox \in Seq(S \cup {x})
        /\ x \in S \cup {x}
    OBVIOUS
  <1>2. /\ outbox' \in Seq(S \cup {x})
        /\ DOMAIN outbox' = DOMAIN outbox \cup {Len(outbox) + 1}
        /\ \A k \in DOMAIN outbox : outbox'[k] = outbox[k]
        /\ outbox'[Len(outbox) + 1] = x
    BY <1>1
  <1>. QED
    BY <1>2

\* What a step of the handler does to what is heard of and settled: it may be heard of the
\* event in hand, which is one of the topic, or the event in hand is settled.
Hearing ==
    /\ pc \in Handler!Working
    /\ Handler!Noticed' = Handler!Noticed \cup {pos + 1}
    /\ UNCHANGED <<pos, batchEnd, settled>>

Quiet ==
    /\ Handler!Noticed' = Handler!Noticed
    /\ UNCHANGED settled

Done ==
    /\ pc = "return"
    /\ Handler!Noticed' = Handler!Noticed
    /\ pos' = pos + 1
    /\ settled' = IF settled < pos + 1 THEN pos + 1 ELSE settled
    /\ batchEnd' = batchEnd
    /\ pc' = IF pos + 1 = batchEnd THEN "commit" ELSE "dispatch"

Listed == \E S : outbox \in Seq(S)

\* An FSP, or the operator, hears of the event in hand.
LEMMA Sends ==
    ASSUME Listed, NEW x, x.event = pos + 1, outbox' = Append(outbox, x),
           UNCHANGED <<operator, dropped>>
    PROVE  Handler!Noticed' = Handler!Noticed \cup {pos + 1} /\ Listed'
  <1>1. PICK S : outbox \in Seq(S)
    BY DEF Listed
  <1>2. /\ outbox' \in Seq(S \cup {x})
        /\ {outbox'[k].event : k \in DOMAIN outbox'} =
               {outbox[k].event : k \in DOMAIN outbox} \cup {pos + 1}
    BY <1>1, OutboxAppend
  <1>. QED
    BY <1>2 DEF Listed, Handler!Noticed

\* A report to the operator is heard of.
LEMMA Reports ==
    ASSUME NEW r, r.event = pos + 1, UNCHANGED outbox,
           \/ operator' = operator \cup {r} /\ UNCHANGED dropped
           \/ dropped' = dropped \cup {r} /\ UNCHANGED operator
    PROVE  Handler!Noticed' = Handler!Noticed \cup {pos + 1}
  <1>1. {x.event : x \in (operator \cup dropped)'} =
            {x.event : x \in operator \cup dropped} \cup {pos + 1}
    OBVIOUS
  <1>. QED
    BY <1>1 DEF Handler!Noticed

\* Without a request or a report nothing new is heard of.
LEMMA Silent ==
    ASSUME UNCHANGED <<outbox, operator, dropped>>
    PROVE  Handler!Noticed' = Handler!Noticed
  BY DEF Handler!Noticed

\* A step that hears of the event in hand keeps the place in the topic.
LEMMA HearingKeeps ==
    ASSUME FlowInv, Hearing, UNCHANGED <<log, committed, handlerName>>,
           pc' \in Handler!Working \cup {"down"}
    PROVE  LoopInv'
  BY DEF FlowInv, LoopInv, Hearing, Handler!Working

\* What a step of the event handler does to what is heard of and settled.
Effect ==
    /\ UNCHANGED <<log, handlerName>>
    /\ Hearing \/ Quiet \/ Done
    /\ LoopInv'
    /\ Listed'
    /\ pc' = "return" => Hearing

\* A step of the handler lets an event be heard of, settles one, or does neither.
LEMMA HandlerEffect ==
    ASSUME FlowInv, Listed, HandlerStep
    PROVE  Effect
  <1>. USE DEF Handler!Working
  <1>1. LoopInv
    BY DEF FlowInv
  <1>2. ASSUME UNCHANGED <<outbox, operator, dropped, settled>> PROVE Quiet /\ Listed'
    BY <1>2, Silent DEF Quiet, Listed
  <1>3. ASSUME NEW x, x.event = pos + 1, outbox' = Append(outbox, x),
               pc \in Handler!Working, pc' \in Handler!Working \cup {"down"},
               UNCHANGED <<operator, dropped, log, committed, handlerName, pos, batchEnd,
                           settled>>
        PROVE  Effect
    <2>1. Hearing /\ Listed'
      BY <1>3, Sends DEF Hearing
    <2>. QED
      BY <1>3, <2>1, HearingKeeps DEF Effect
  <1>4. ASSUME NEW r, r.event = pos + 1, UNCHANGED outbox,
               \/ operator' = operator \cup {r} /\ UNCHANGED dropped
               \/ dropped' = dropped \cup {r} /\ UNCHANGED operator,
               pc \in Handler!Working, pc' \in Handler!Working \cup {"down"},
               UNCHANGED <<log, committed, handlerName, pos, batchEnd, settled>>
        PROVE  Effect
    <2>1. Hearing /\ Listed'
      BY <1>4, Reports DEF Hearing, Listed
    <2>. QED
      BY <1>4, <2>1, HearingKeeps DEF Effect
  <1>5. ASSUME UNCHANGED <<outbox, operator, dropped, settled, log, committed, handlerName,
                           pos, batchEnd>>,
               pc' \in {"send", "feedback", "operator"}, pc \in Handler!Working
        PROVE  Effect
    BY <1>1, <1>2, <1>5 DEF Effect, LoopInv
  <1>6. CASE Handler!Commit
    BY <1>1, <1>2, <1>6 DEF Handler!Commit, Handler!loop, Handler!effects, Effect, LoopInv
  <1>7. ASSUME NEW n \in 1 .. BatchSize, Handler!Fetch(n) PROVE Effect
    <2>1. /\ pos \in Nat /\ n \in Nat /\ n >= 1 /\ Len(log) \in Nat
      BY <1>1, FlowAssumption DEF LoopInv
    <2>. QED
      BY <1>1, <1>2, <1>7, <2>1
      DEF Handler!Fetch, Handler!kafka, Handler!effects, Effect, LoopInv
  <1>8. CASE Handler!Ignore
    <2>1. log[pos + 1] \in AnyAnswer /\ handlerName = "Transfers"
      BY <1>1, <1>8 DEF LoopInv, Handler!Ignore
    <2>. QED
      BY <1>8, <2>1, AnswerHandled DEF Handler!Ignore, Handler!event, Handler!current
  <1>9. CASE Handler!ReceiveErrorEvent
    BY <1>5, <1>9
    DEF Handler!ReceiveErrorEvent, Handler!kafka, Handler!loop, Handler!effects
  <1>10. CASE Handler!Prepare
    BY <1>5, <1>10
    DEF Handler!Prepare, Handler!IsCallbackEvent, Handler!kafka, Handler!loop,
        Handler!effects
  <1>11. CASE Handler!PrepareFails
    BY <1>5, <1>11
    DEF Handler!PrepareFails, Handler!IsCallbackEvent, Handler!Catch, Handler!kafka,
        Handler!loop, Handler!effects
  <1>12. CASE Handler!SendOk
    <2>1. outbox' = Append(outbox, Handler!SentCall(TRUE))
      BY <1>12 DEF Handler!SendOk
    <2>2. Handler!SentCall(TRUE).event = pos + 1
      BY DEF Handler!SentCall, Handler!Received, Handler!current
    <2>3. pc = "send" /\ pc' \in {"send", "return"}
      BY <1>12 DEF Handler!SendOk
    <2>. QED
      BY <1>3, <1>12, <2>1, <2>2, <2>3 DEF Handler!SendOk, Handler!kafka, Handler!loop
  <1>13. ASSUME NEW received \in BOOLEAN, Handler!SendFails(received) PROVE Effect
    <2>1. Handler!SentCall(FALSE).event = pos + 1
      BY DEF Handler!SentCall, Handler!Received, Handler!current
    <2>2. /\ pc = "send" /\ pc' = "feedback"
          /\ UNCHANGED <<log, committed, handlerName, pos, batchEnd, operator, dropped,
                         settled>>
      BY <1>13 DEF Handler!SendFails, Handler!Catch, Handler!kafka, Handler!loop
    <2>3. CASE received
      <3>1. outbox' = Append(outbox, Handler!SentCall(FALSE))
        BY <1>13, <2>3 DEF Handler!SendFails
      <3>. QED
        BY <1>3, <2>1, <2>2, <3>1
    <2>4. CASE ~received
      <3>1. UNCHANGED outbox
        BY <1>13, <2>4 DEF Handler!SendFails
      <3>. QED
        BY <1>5, <2>2, <3>1
    <2>. QED
      BY <2>3, <2>4
  <1>14. CASE Handler!FeedbackOk
    <2>1. outbox' = Append(outbox, Handler!SentFeedback(TRUE))
      BY <1>14 DEF Handler!FeedbackOk
    <2>2. Handler!SentFeedback(TRUE).event = pos + 1
      BY DEF Handler!SentFeedback, Handler!Received, Handler!current
    <2>3. pc = "feedback" /\ pc' \in {"feedback", "return"}
      BY <1>14 DEF Handler!FeedbackOk, Handler!NextTarget
    <2>. QED
      BY <1>3, <1>14, <2>1, <2>2, <2>3 DEF Handler!FeedbackOk, Handler!kafka, Handler!loop
  <1>15. ASSUME NEW received \in BOOLEAN, Handler!FeedbackFails(received) PROVE Effect
    <2>1. Handler!SentFeedback(FALSE).event = pos + 1
      BY DEF Handler!SentFeedback, Handler!Received, Handler!current
    <2>2. /\ pc = "feedback" /\ pc' = "operator"
          /\ UNCHANGED <<log, committed, handlerName, pos, batchEnd, operator, dropped,
                         settled>>
      BY <1>15 DEF Handler!FeedbackFails, Handler!kafka, Handler!loop
    <2>3. CASE received
      <3>1. outbox' = Append(outbox, Handler!SentFeedback(FALSE))
        BY <1>15, <2>3 DEF Handler!FeedbackFails
      <3>. QED
        BY <1>3, <2>1, <2>2, <3>1
    <2>4. CASE ~received
      <3>1. UNCHANGED outbox
        BY <1>15, <2>4 DEF Handler!FeedbackFails
      <3>. QED
        BY <1>5, <2>2, <3>1
    <2>. QED
      BY <2>3, <2>4
  <1>16. ASSUME NEW accepted \in BOOLEAN, Handler!OperatorEvent(accepted) PROVE Effect
    <2>1. Handler!OperatorReport.event = pos + 1
      BY DEF Handler!OperatorReport, Handler!current
    <2>2. /\ pc = "operator" /\ pc' \in {"feedback", "return"}
          /\ UNCHANGED <<log, committed, handlerName, pos, batchEnd, outbox, settled>>
      BY <1>16 DEF Handler!OperatorEvent, Handler!NextTarget, Handler!kafka, Handler!loop
    <2>3. \/ operator' = operator \cup {Handler!OperatorReport} /\ UNCHANGED dropped
          \/ dropped' = dropped \cup {Handler!OperatorReport} /\ UNCHANGED operator
      BY <1>16 DEF Handler!OperatorEvent
    <2>. QED
      BY <1>4, <2>1, <2>2, <2>3
  <1>17. CASE Handler!Return
    <2>1. /\ pc = "return" /\ pos' = pos + 1
          /\ settled' = IF settled < pos + 1 THEN pos + 1 ELSE settled
          /\ pc' = IF pos + 1 = batchEnd THEN "commit" ELSE "dispatch"
          /\ UNCHANGED <<log, committed, handlerName, batchEnd, outbox, operator, dropped>>
      BY <1>17 DEF Handler!Return, Handler!current, Handler!kafka, Handler!effects
    <2>2. Done /\ Listed'
      BY <2>1, Silent DEF Done, Listed
    <2>3. Len(log) \in Nat
      BY <1>1 DEF LoopInv
    <2>4. LoopInv'
      BY <1>1, <2>1, <2>3 DEF LoopInv
    <2>. QED
      BY <2>1, <2>2, <2>4 DEF Effect
  <1>18. ASSUME NEW received \in BOOLEAN, Handler!Crash(received) PROVE Effect
    <2>1. /\ pc' = "down"
          /\ UNCHANGED <<log, committed, handlerName, pos, batchEnd, settled>>
      BY <1>18 DEF Handler!Crash, Handler!kafka, Handler!loop
    <2>2. CASE UNCHANGED <<outbox, operator, dropped>>
      BY <1>1, <1>2, <2>1, <2>2 DEF Effect, LoopInv
    <2>3. CASE /\ pc = "send"
               /\ outbox' = Append(outbox, Handler!SentCall(FALSE))
               /\ UNCHANGED <<operator, dropped>>
      <3>1. Handler!SentCall(FALSE).event = pos + 1
        BY DEF Handler!SentCall, Handler!Received, Handler!current
      <3>. QED
        BY <1>3, <2>1, <2>3, <3>1
    <2>4. CASE /\ pc = "feedback"
               /\ outbox' = Append(outbox, Handler!SentFeedback(FALSE))
               /\ UNCHANGED <<operator, dropped>>
      <3>1. Handler!SentFeedback(FALSE).event = pos + 1
        BY DEF Handler!SentFeedback, Handler!Received, Handler!current
      <3>. QED
        BY <1>3, <2>1, <2>4, <3>1
    <2>5. CASE /\ pc = "operator"
               /\ operator' = operator \cup {Handler!OperatorReport}
               /\ UNCHANGED <<outbox, dropped>>
      <3>1. Handler!OperatorReport.event = pos + 1
        BY DEF Handler!OperatorReport, Handler!current
      <3>. QED
        BY <1>4, <2>1, <2>5, <3>1
    <2>. QED
      BY <1>18, <2>2, <2>3, <2>4, <2>5 DEF Handler!Crash, Handler!effects
  <1>19. CASE Handler!Restart
    BY <1>1, <1>2, <1>19
    DEF Handler!Restart, Handler!kafka, Handler!effects, Effect, LoopInv
  <1>. QED
    BY <1>6, <1>7, <1>8, <1>9, <1>10, <1>11, <1>12, <1>13, <1>14, <1>15, <1>16, <1>17,
       <1>18, <1>19
    DEF HandlerStep, Work, Handler!Consume, Handler!ProcessMessage

-----------------------------------------------------------------------------
(* The inductive invariant of the composition.                              *)

\* The initial states of the composition.
LEMMA FlowStarts == FlowInit => FlowInv /\ Listed
  <1>. SUFFICES ASSUME FlowInit PROVE FlowInv /\ Listed
    OBVIOUS
  <1>1. IInv
    BY InitInv DEF FlowInit
  <1>2. /\ log = <<>> /\ committed = 0 /\ handlerName = "Transfers" /\ pc = "idle"
        /\ pos = 0 /\ batchEnd = 0 /\ outbox = <<>> /\ operator = {} /\ dropped = {}
        /\ settled = 0 /\ about = <<>>
    BY DEF FlowInit, Handler!Init
  <1>3. LoopInv
    BY <1>2 DEF LoopInv, Handler!Working
  <1>4. AboutInv
    BY <1>2 DEF AboutInv
  <1>5. Handler!Noticed = {}
    BY <1>2 DEF Handler!Noticed
  <1>6. HeardInv
    BY <1>2, <1>5 DEF HeardInv
  <1>7. Listed
    BY <1>2 DEF Listed
  <1>. QED
    BY <1>1, <1>3, <1>4, <1>6, <1>7 DEF FlowInv

\* The event handler leaves the API and the bounded context alone.
LEMMA HandlerKeeps == FlowInv /\ Listed /\ HandlerStep => FlowInv' /\ Listed'
  <1>. SUFFICES ASSUME FlowInv, Listed, HandlerStep PROVE FlowInv' /\ Listed'
    OBVIOUS
  <1>1. Effect
    BY HandlerEffect
  <1>2. UNCHANGED <<vars, about>>
    BY DEF HandlerStep
  <1>3. IInv'
    BY <1>2, TypeStep, TopicStep, AnswerStep, ProcessStep DEF FlowInv, IInv
  <1>4. UNCHANGED Published
    BY <1>2 DEF vars, requests, Published
  <1>5. AboutInv'
    BY <1>1, <1>2, <1>4 DEF FlowInv, AboutInv, Effect
  <1>6. LoopInv /\ AboutInv /\ HeardInv
    BY DEF FlowInv
  <1>7. DOMAIN about = 1 .. Len(log) /\ Len(log) \in Nat
    BY <1>6 DEF AboutInv, LoopInv
  <1>8. CASE Hearing
    <2>1. pos + 1 \in 1 .. Len(log)
      BY <1>6, <1>7, <1>8 DEF LoopInv, Hearing
    <2>. QED
      BY <1>1, <1>2, <1>3, <1>5, <1>6, <1>7, <1>8, <2>1
      DEF FlowInv, HeardInv, Hearing, Effect
  <1>9. CASE Quiet /\ ~Hearing
    BY <1>1, <1>2, <1>3, <1>5, <1>6, <1>9 DEF FlowInv, HeardInv, Quiet, Effect
  <1>10. CASE Done /\ ~Hearing
    <2>1. 1 .. pos + 1 \subseteq Handler!Noticed
      BY <1>6, <1>10 DEF HeardInv, LoopInv, Done
    <2>. QED
      BY <1>1, <1>2, <1>3, <1>5, <1>6, <1>10, <2>1 DEF FlowInv, HeardInv, Done, Effect
  <1>. QED
    BY <1>1, <1>8, <1>9, <1>10 DEF Effect

\* An answer of the bounded context is about a request in the API's topic.
LEMMA RespondKeeps ==
    ASSUME FlowInv, Listed, NEW q \in Requests, Respond(q)
    PROVE  FlowInv' /\ Listed'
  <1>1. PICK e \in AnswersTo(q) : Handler!Publish(e)
    BY DEF Respond
  <1>2. /\ q \in Published
        /\ about' = Append(about, q)
        /\ log' = Append(log, e)
        /\ UNCHANGED vars
        /\ UNCHANGED <<committed, handlerName, pc, pos, batchEnd, outbox, operator,
                       dropped, settled>>
    BY <1>1 DEF Respond, Handler!Publish, Handler!loop, Handler!message, Handler!effects
  <1>3. IInv'
    BY <1>2, TypeStep, TopicStep, AnswerStep, ProcessStep DEF FlowInv, IInv
  <1>4. UNCHANGED Published
    BY <1>2 DEF vars, requests, Published
  <1>5. e \in AnyAnswer
    BY AnswerType
  <1>6. LoopInv /\ AboutInv /\ HeardInv
    BY DEF FlowInv
  <1>7. /\ log' \in Seq(AnyAnswer)
        /\ Len(log') = Len(log) + 1
        /\ Len(log) \in Nat
        /\ \A n \in 1 .. Len(log) : log'[n] = log[n]
        /\ log'[Len(log) + 1] = e
    BY <1>2, <1>5, <1>6 DEF LoopInv
  <1>8. LoopInv'
    BY <1>2, <1>6, <1>7 DEF LoopInv
  <1>9. /\ about' \in Seq(Requests)
        /\ Len(about') = Len(about) + 1
        /\ DOMAIN about' = DOMAIN about \cup {Len(about) + 1}
        /\ \A n \in DOMAIN about : about'[n] = about[n]
        /\ about'[Len(about) + 1] = q
    BY <1>2, <1>6 DEF AboutInv
  <1>10. AboutInv'
    <2>1. Len(about') = Len(log') /\ DOMAIN about = 1 .. Len(log)
      BY <1>6, <1>7, <1>9 DEF AboutInv
    <2>2. ASSUME NEW n \in DOMAIN about
          PROVE  /\ about'[n] \in Published
                 /\ log'[n].headers =
                        [source |-> Sender[about'[n]], destination |-> Recipient[about'[n]]]
      BY <1>6, <1>7, <1>9, <2>1 DEF AboutInv
    <2>3. e.headers = [source |-> Sender[q], destination |-> Recipient[q]]
      BY AnswerHeaders
    <2>4. Len(about) = Len(log)
      BY <1>6 DEF AboutInv
    <2>5. ASSUME NEW n, n = Len(about) + 1
          PROVE  /\ about'[n] \in Published
                 /\ log'[n].headers =
                        [source |-> Sender[about'[n]], destination |-> Recipient[about'[n]]]
      BY <1>2, <1>7, <1>9, <2>3, <2>4, <2>5
    <2>6. \A n \in DOMAIN about' :
              /\ about'[n] \in Published
              /\ log'[n].headers =
                     [source |-> Sender[about'[n]], destination |-> Recipient[about'[n]]]
      BY <1>9, <2>2, <2>5
    <2>. QED
      BY <1>4, <1>9, <2>1, <2>6 DEF AboutInv
  <1>11. Handler!Noticed' = Handler!Noticed /\ Listed'
    BY <1>2, Silent DEF Listed
  <1>12. HeardInv'
    BY <1>2, <1>6, <1>9, <1>11 DEF HeardInv
  <1>. QED
    BY <1>3, <1>8, <1>10, <1>11, <1>12 DEF FlowInv

\* The API leaves the event handler alone, and what is published stays so.
LEMMA ApiKeeps ==
    ASSUME FlowInv, Listed, [Next]_vars, UNCHANGED <<handler, about>>
    PROVE  FlowInv' /\ Listed'
  <1>1. IInv'
    BY TypeStep, TopicStep, AnswerStep, ProcessStep DEF FlowInv, IInv
  <1>2. Published \subseteq Published'
    BY PublishedStays DEF FlowInv
  <1>3. UNCHANGED <<log, committed, handlerName, pc, pos, batchEnd, outbox, operator,
                    dropped, settled, about>>
    BY DEF handler
  <1>4. Handler!Noticed' = Handler!Noticed /\ Listed'
    BY <1>3, Silent DEF Listed
  <1>5. LoopInv' /\ AboutInv' /\ HeardInv'
    BY <1>2, <1>3, <1>4 DEF FlowInv, LoopInv, AboutInv, HeardInv
  <1>. QED
    BY <1>1, <1>4, <1>5 DEF FlowInv

\* Every step of the composition keeps its invariant.
LEMMA FlowKeeps == FlowInv /\ Listed /\ [FlowNext]_flow => FlowInv' /\ Listed'
  <1>. SUFFICES ASSUME FlowInv, Listed, [FlowNext]_flow PROVE FlowInv' /\ Listed'
    OBVIOUS
  <1>1. CASE ApiStep \/ UNCHANGED flow
    BY <1>1, ApiSteps, ApiKeeps DEF ApiStep, flow
  <1>2. ASSUME NEW q \in Requests, Respond(q) PROVE FlowInv' /\ Listed'
    BY <1>2, RespondKeeps
  <1>3. CASE HandlerStep
    BY <1>3, HandlerKeeps
  <1>. QED
    BY <1>1, <1>2, <1>3 DEF FlowNext

\* The inductive invariant holds whatever the bounded context answers, however long the
\* topic grows and however often either service crashes: every event of the handler's
\* topic is about a request the API has published, and what is settled has been heard of.
THEOREM FlowInvariant == FlowSpec => []FlowInv
  <1>. DEFINE Inv == FlowInv /\ Listed
  <1>1. FlowInit => Inv
    BY FlowStarts
  <1>2. Inv /\ [FlowNext]_flow => Inv'
    BY FlowKeeps
  <1>3. Inv => FlowInv
    OBVIOUS
  <1>. HIDE DEF Inv
  <1>. QED
    BY <1>1, <1>2, <1>3, PTL DEF FlowSpec

-----------------------------------------------------------------------------
(* What FSPs hear of.                                                       *)

\* What is heard of is in the API's topic.
LEMMA HeardPublished == FlowInv => Heard \subseteq Published
  BY DEF FlowInv, AboutInv, HeardInv, Heard

\* What FspiopApiProofs proves of the API alone holds of it here.
LEMMA ApiInFlow == FlowSpec => Spec
  <1>1. FlowInit => Init
    BY DEF FlowInit
  <1>. QED
    BY <1>1, ApiSteps, PTL DEF FlowSpec, Spec

\* A request that was answered with 400, 404 or 503 can be made again: no FSP and no
\* operator ever hears of the first, whatever crashes and whatever Kafka is late with.
THEOREM RefusalsAreFinal == FlowSpec => []RefusalIsFinal
  <1>1. FlowInv => RefusalIsFinal
    <2>. SUFFICES ASSUME FlowInv, NEW q \in Heard
                  PROVE  answer[q] \notin {"BadRequest", "NotFound", "ServiceUnavailable"}
      BY DEF RefusalIsFinal
    <2>1. TypeOK /\ TopicInv /\ AnswerInv
      BY DEF FlowInv, IInv
    <2>2. q \in Published /\ q \in Requests
      BY <2>1, HeardPublished DEF TypeOK, Published
    <2>3. stage[q] \in {"appended", "answered", "adrift"}
      BY <2>1, <2>2 DEF TopicInv
    <2>4. request[q].route.success \in {"OK", "Accepted"}
      BY <2>1, <2>2, SuccessType
    <2>. QED
      BY <2>1, <2>2, <2>3, <2>4 DEF AnswerInv
  <1>. QED
    BY <1>1, FlowInvariant, PTL

\* No FSP ever gets a callback about a POST or PUT under a signature that does not verify.
THEOREM VerifiedCallbacks == FlowSpec => []OnlyVerifiedReachFsps
  <1>1. FlowInv /\ OnlyVerifiedPublished => OnlyVerifiedReachFsps
    <2>. SUFFICES ASSUME FlowInv, OnlyVerifiedPublished, NEW k \in DOMAIN outbox
                  PROVE  about[outbox[k].event] \in Published
      BY DEF OnlyVerifiedReachFsps, OnlyVerifiedPublished
    <2>1. outbox[k].event \in Handler!Noticed
      BY DEF Handler!Noticed
    <2>. QED
      BY <2>1, HeardPublished DEF Heard
  <1>. QED
    BY <1>1, FlowInvariant, ApiInFlow, Verified, PTL

-----------------------------------------------------------------------------
(* The composition implements EndToEnd.                                     *)

promises == <<Published, replies, Heard, Concluded>>

\* A step in which nothing is heard or settled leaves every request where it was.
LEMMA HeardStays ==
    ASSUME FlowInv, Handler!Noticed' = Handler!Noticed, UNCHANGED settled,
           \A n \in DOMAIN about : about'[n] = about[n]
    PROVE  UNCHANGED <<Heard, Concluded>>
  BY DEF FlowInv, HeardInv, Heard, Concluded

\* What the API does, EventIngress allows.
LEMMA IngressPromises ==
    ASSUME FlowInv, [Next]_vars, UNCHANGED <<Heard, Concluded>>
    PROVE  Promise!Next \/ UNCHANGED promises
  <1>1. Ingress!Next \/ UNCHANGED <<Published, replies>>
    BY StepImplements DEF FlowInv, Ingress!vars, replies
  <1>2. CASE Ingress!Next
    BY <1>2 DEF Ingress!Next, Ingress!Publish, Ingress!Reply, Ingress!Lose,
                Promise!Next, Promise!Keep, Promise!Reply, Promise!Lose
  <1>3. CASE UNCHANGED <<Published, replies>>
    BY <1>3 DEF promises
  <1>. QED
    BY <1>1, <1>2, <1>3

\* What the handler does, EndToEnd allows.
LEMMA HandlerPromises ==
    ASSUME FlowInv, Listed, HandlerStep
    PROVE  Promise!Next \/ UNCHANGED promises
  <1>1. Effect
    BY HandlerEffect
  <1>2. UNCHANGED <<vars, about>>
    BY DEF HandlerStep
  <1>3. UNCHANGED <<Published, replies>>
    BY <1>2 DEF vars, requests, Published, replies, ReplyTo
  <1>4. LoopInv /\ AboutInv /\ HeardInv
    BY DEF FlowInv
  <1>5. CASE Hearing
    <2>1. pos + 1 \in DOMAIN about
      BY <1>4, <1>5 DEF LoopInv, AboutInv, Hearing
    <2>2. about[pos + 1] \in Published /\ about[pos + 1] \in Requests
      <3>1. about \in Seq(Requests) /\ \A n \in DOMAIN about : about[n] \in Published
        BY <1>4 DEF AboutInv
      <3>. QED
        BY <2>1, <3>1
    <2>3. Heard' = Heard \cup {about[pos + 1]}
      BY <1>2, <1>5 DEF Heard, Hearing
    <2>4. UNCHANGED Concluded
      BY <1>2, <1>5 DEF Concluded, Hearing
    <2>. QED
      BY <1>3, <2>2, <2>3, <2>4 DEF Promise!Next, Promise!Hear, replies
  <1>6. CASE Quiet
    <2>1. UNCHANGED <<Heard, Concluded>>
      BY <1>2, <1>6, HeardStays DEF Quiet
    <2>. QED
      BY <1>3, <2>1 DEF promises
  <1>7. CASE Done
    <2>1. /\ pos + 1 \in Handler!Noticed
          /\ pos + 1 \in DOMAIN about
      BY <1>4, <1>7 DEF HeardInv, Done
    <2>2. about[pos + 1] \in Heard /\ about[pos + 1] \in Requests
      BY <1>4, <2>1 DEF Heard, AboutInv
    <2>3. UNCHANGED Heard
      BY <1>2, <1>7 DEF Heard, Done
    <2>4. CASE settled < pos + 1
      <3>1. 1 .. settled' = (1 .. settled) \cup {pos + 1}
        BY <1>4, <1>7, <2>4 DEF Done, LoopInv
      <3>2. Concluded' = Concluded \cup {about[pos + 1]}
        BY <1>2, <3>1 DEF Concluded
      <3>. QED
        BY <1>3, <2>2, <2>3, <3>2 DEF Promise!Next, Promise!Conclude, replies
    <2>5. CASE ~(settled < pos + 1)
      <3>1. UNCHANGED Concluded
        BY <1>2, <1>7, <2>5 DEF Concluded, Done
      <3>. QED
        BY <1>3, <2>3, <3>1 DEF promises
    <2>. QED
      BY <2>4, <2>5
  <1>. QED
    BY <1>1, <1>5, <1>6, <1>7 DEF Effect

\* Every step of the composition is one of EndToEnd, or invisible to it.
LEMMA FlowPromises == FlowInv /\ Listed /\ [FlowNext]_flow => [Promise!Next]_(Promise!vars)
  <1>. SUFFICES ASSUME FlowInv, Listed, [FlowNext]_flow
                PROVE  Promise!Next \/ UNCHANGED promises
    BY DEF Promise!vars, promises, replies
  <1>1. CASE ApiStep \/ UNCHANGED flow
    <2>1. [Next]_vars /\ UNCHANGED <<handler, about>>
      BY <1>1, ApiSteps DEF ApiStep, flow
    <2>2. UNCHANGED <<Heard, Concluded>>
      BY <2>1, Silent DEF handler, Heard, Concluded
    <2>. QED
      BY <2>1, <2>2, IngressPromises
  <1>2. ASSUME NEW q \in Requests, Respond(q) PROVE Promise!Next \/ UNCHANGED promises
    <2>1. /\ about' = Append(about, q)
          /\ UNCHANGED <<outbox, operator, dropped, settled, vars>>
      BY <1>2 DEF Respond, Handler!Publish, Handler!effects
    <2>2. \A n \in DOMAIN about : about'[n] = about[n]
      BY <2>1 DEF FlowInv, AboutInv
    <2>3. UNCHANGED <<Heard, Concluded>>
      BY <2>1, <2>2, Silent, HeardStays
    <2>. QED
      BY <2>1, <2>3, IngressPromises
  <1>3. CASE HandlerStep
    BY <1>3, HandlerPromises
  <1>. QED
    BY <1>1, <1>2, <1>3 DEF FlowNext

\* The API, the bounded context and the event handler together implement EndToEnd.
THEOREM FlowImplements == FlowSpec => ImplementsEndToEnd
  <1>. DEFINE Inv == FlowInv /\ Listed
  <1>1. FlowInit => Inv
    BY FlowStarts
  <1>2. Inv /\ [FlowNext]_flow => Inv'
    BY FlowKeeps
  <1>3. FlowInit => Promise!Init
    <2>. SUFFICES ASSUME FlowInit PROVE Promise!Init
      OBVIOUS
    <2>1. /\ topic = <<>>
          /\ stage = [q \in Requests |-> "unsent"]
          /\ answer = [q \in Requests |-> "none"]
          /\ outbox = <<>> /\ operator = {} /\ dropped = {} /\ settled = 0
      BY DEF FlowInit, Init, Handler!Init
    <2>2. Published = {}
      BY <2>1 DEF Published
    <2>3. [q \in Requests |-> ReplyTo(q)] = [q \in Requests |-> "none"]
      BY <2>1 DEF ReplyTo
    <2>4. Heard = {} /\ Concluded = {}
      BY <2>1 DEF Heard, Concluded, Handler!Noticed
    <2>. QED
      BY <2>2, <2>3, <2>4 DEF Promise!Init
  <1>4. Inv /\ [FlowNext]_flow => [Promise!Next]_(Promise!vars)
    BY FlowPromises
  <1>. HIDE DEF Inv
  <1>. QED
    BY <1>1, <1>2, <1>3, <1>4, PTL DEF FlowSpec, ImplementsEndToEnd, Promise!Spec

-----------------------------------------------------------------------------
(* And so what EndToEnd promises holds of the flow.                         *)

Promised == INSTANCE EndToEndProofs
    WITH kept <- Published, reply <- [q \in Requests |-> ReplyTo(q)],
         heard <- Heard, concluded <- Concluded

\* Of the three services: what the switch is done with was heard of, what was answered with a
\* 202 is in a topic, and what was answered with a 400, 404 or 503 never gets there; and no
\* crash or restart takes any of it back.
THEOREM PromisesKept == FlowSpec => []Promise!PromiseInv /\ Promise!NothingIsTakenBack
  <1>1. Promised!Spec => []Promised!PromiseInv
    BY Promised!PromisesHold
  <1>2. Promised!Spec => Promised!NothingIsTakenBack
    BY Promised!PromisesAreFinal
  <1>3. Promise!Init => Promised!Init
    BY DEF Promise!Init, Promised!Init
  <1>4. [Promise!Next]_(Promise!vars) => [Promised!Next]_(Promised!vars)
    BY DEF Promise!Next, Promised!Next, Promise!vars, Promised!vars,
           Promise!Keep, Promised!Keep, Promise!Reply, Promised!Reply, Promise!Lose,
           Promised!Lose, Promise!Hear, Promised!Hear, Promise!Conclude, Promised!Conclude
  <1>5. Promised!PromiseInv => Promise!PromiseInv
    BY DEF Promised!PromiseInv, Promise!PromiseInv, Promised!Replies, Promise!Replies
  <1>6. [Promised!Keeps]_(Promised!vars) => [Promise!Keeps]_(Promise!vars)
    BY DEF Promise!Keeps, Promised!Keeps, Promise!vars, Promised!vars
  <1>. QED
    BY <1>1, <1>2, <1>3, <1>4, <1>5, <1>6, FlowImplements, PTL
    DEF ImplementsEndToEnd, Promise!Spec, Promised!Spec, Promise!NothingIsTakenBack,
        Promised!NothingIsTakenBack
=============================================================================
