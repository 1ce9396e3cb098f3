-------------------------- MODULE FspiopApiProofs ---------------------------
(***************************************************************************)
(* Proofs about FspiopApi, for any set of requests, any routes and faults  *)
(* they have, any number of restarts and JWS enabled or not.               *)
(***************************************************************************)
EXTENDS FspiopApi, SequenceTheorems, TLAPS

-----------------------------------------------------------------------------
(* What the routes answer.                                                  *)

\* A route has at most eight checks and answers 200 or 202 when all is well.
LEMMA RouteType ==
    ASSUME NEW r \in Routes
    PROVE  /\ r.checks \in Seq(Checks)
           /\ DOMAIN r.checks \subseteq 1 .. 8
           /\ r.success \in {"OK", "Accepted"}
  <1>. DEFINE Ok(x) == /\ x.checks \in Seq(Checks)
                       /\ DOMAIN x.checks \subseteq 1 .. 8
                       /\ x.success \in {"OK", "Accepted"}
  <1>. USE DEF Route
  <1>1. {BodyThere, PersonalInfoThere, IlpDecodes, ElementsThere, NotExpired,
         CurrencyAndAmount, IlpAgainstQuoteResponse, ValidCondition, SignatureVerifies,
         ValidPayload, OptionalThere} \subseteq Checks
    BY DEF Checks, Check, Faults, Statuses, BodyThere, PersonalInfoThere, IlpDecodes,
           ElementsThere, OptionalThere, NotExpired, CurrencyAndAmount, IlpAgainstQuoteResponse,
           ValidCondition, SignatureVerifies, ValidPayload
  <1>2. /\ Ok(transferPrepareRequested)
        /\ Ok(transferFulfilRequested)
        /\ Ok(transferRejectRequested)
        /\ Ok(transferQueryReceived)
    BY <1>1 DEF transferPrepareRequested, transferFulfilRequested, transferRejectRequested,
                transferQueryReceived
  <1>3. /\ Ok(bulkTransferQueryReceived)
        /\ Ok(bulkTransferPrepareRequest)
        /\ Ok(bulkTransferFulfilRequested)
        /\ Ok(bulkTransfersRejectRequest)
    BY <1>1 DEF bulkTransferQueryReceived, bulkTransferPrepareRequest,
                bulkTransferFulfilRequested, bulkTransfersRejectRequest
  <1>4. /\ Ok(quoteRequestReceived)
        /\ Ok(quoteResponseReceived)
        /\ Ok(quoteQueryReceived)
        /\ Ok(quoteRejectRequest)
    BY <1>1 DEF quoteRequestReceived, quoteResponseReceived, quoteQueryReceived,
                quoteRejectRequest
  <1>5. /\ Ok(bulkQuoteQueryReceived)
        /\ Ok(bulkQuoteRequest)
        /\ Ok(bulkQuotePending)
        /\ Ok(bulkQuoteRejectRequest)
    BY <1>1 DEF bulkQuoteQueryReceived, bulkQuoteRequest, bulkQuotePending,
                bulkQuoteRejectRequest
  <1>6. /\ Ok(getPartyQueryReceivedByTypeAndId)
        /\ Ok(getPartyQueryReceivedByTypeAndIdSubId)
        /\ Ok(getPartyInfoAvailableByTypeAndId)
        /\ Ok(getPartyInfoAvailableByTypeAndIdAndSubId)
        /\ Ok(getPartyByTypeAndIdQueryReject)
        /\ Ok(getPartyByTypeAndIdAndSubIdQueryReject)
    BY <1>1 DEF getPartyQueryReceivedByTypeAndId, getPartyQueryReceivedByTypeAndIdSubId,
                getPartyInfoAvailableByTypeAndId, getPartyInfoAvailableByTypeAndIdAndSubId,
                getPartyByTypeAndIdQueryReject, getPartyByTypeAndIdAndSubIdQueryReject
  <1>7. /\ Ok(getParticipantsByTypeAndID)
        /\ Ok(getParticipantsByTypeAndIDAndSubId)
        /\ Ok(associatePartyByTypeAndId)
        /\ Ok(associatePartyByTypeAndIdAndSubId)
        /\ Ok(disassociatePartyByTypeAndId)
        /\ Ok(disassociatePartyByTypeAndIdAndSubId)
        /\ Ok(participantRequestByTypeAndIdReject)
        /\ Ok(participantRequestByTypeAndIdAndSubIdReject)
    BY <1>1 DEF getParticipantsByTypeAndID, getParticipantsByTypeAndIDAndSubId,
                associatePartyByTypeAndId, associatePartyByTypeAndIdAndSubId,
                disassociatePartyByTypeAndId, disassociatePartyByTypeAndIdAndSubId,
                participantRequestByTypeAndIdReject,
                participantRequestByTypeAndIdAndSubIdReject
  <1>. HIDE DEF Ok
  <1>8. Ok(r)
    BY <1>2, <1>3, <1>4, <1>5, <1>6, <1>7, Zenon DEF Routes
  <1>. QED
    BY <1>8 DEF Ok

\* Every route that changes something but the deletions verifies the signature.
LEMMA SignedRoutes ==
    ASSUME NEW r \in Routes, r.method \in {"POST", "PUT"}
    PROVE  \E k \in DOMAIN r.checks : r.checks[k] = SignatureVerifies
  <1>. DEFINE At(x, k) == k \in DOMAIN x.checks /\ x.checks[k] = SignatureVerifies
              Unsigned(x) == x.method \in {"GET", "DELETE"}
  <1>. USE DEF Route
  <1>1. /\ At(transferPrepareRequested, 7)
        /\ At(transferFulfilRequested, 3)
        /\ At(transferRejectRequested, 3)
        /\ Unsigned(transferQueryReceived)
    BY DEF transferPrepareRequested, transferFulfilRequested, transferRejectRequested,
           transferQueryReceived
  <1>2. /\ Unsigned(bulkTransferQueryReceived)
        /\ At(bulkTransferPrepareRequest, 5)
        /\ At(bulkTransferFulfilRequested, 4)
        /\ At(bulkTransfersRejectRequest, 3)
    BY DEF bulkTransferQueryReceived, bulkTransferPrepareRequest,
           bulkTransferFulfilRequested, bulkTransfersRejectRequest
  <1>3. /\ At(quoteRequestReceived, 4)
        /\ At(quoteResponseReceived, 7)
        /\ Unsigned(quoteQueryReceived)
        /\ At(quoteRejectRequest, 3)
    BY DEF quoteRequestReceived, quoteResponseReceived, quoteQueryReceived,
           quoteRejectRequest
  <1>4. /\ Unsigned(bulkQuoteQueryReceived)
        /\ At(bulkQuoteRequest, 4)
        /\ At(bulkQuotePending, 5)
        /\ At(bulkQuoteRejectRequest, 3)
    BY DEF bulkQuoteQueryReceived, bulkQuoteRequest, bulkQuotePending,
           bulkQuoteRejectRequest
  <1>5. /\ Unsigned(getPartyQueryReceivedByTypeAndId)
        /\ Unsigned(getPartyQueryReceivedByTypeAndIdSubId)
        /\ At(getPartyInfoAvailableByTypeAndId, 6)
        /\ At(getPartyInfoAvailableByTypeAndIdAndSubId, 6)
        /\ At(getPartyByTypeAndIdQueryReject, 4)
        /\ At(getPartyByTypeAndIdAndSubIdQueryReject, 4)
    BY DEF getPartyQueryReceivedByTypeAndId, getPartyQueryReceivedByTypeAndIdSubId,
           getPartyInfoAvailableByTypeAndId, getPartyInfoAvailableByTypeAndIdAndSubId,
           getPartyByTypeAndIdQueryReject, getPartyByTypeAndIdAndSubIdQueryReject
  <1>6. /\ Unsigned(getParticipantsByTypeAndID)
        /\ Unsigned(getParticipantsByTypeAndIDAndSubId)
        /\ At(associatePartyByTypeAndId, 4)
        /\ At(associatePartyByTypeAndIdAndSubId, 4)
        /\ Unsigned(disassociatePartyByTypeAndId)
        /\ Unsigned(disassociatePartyByTypeAndIdAndSubId)
        /\ At(participantRequestByTypeAndIdReject, 4)
        /\ At(participantRequestByTypeAndIdAndSubIdReject, 4)
    BY DEF getParticipantsByTypeAndID, getParticipantsByTypeAndIDAndSubId,
           associatePartyByTypeAndId, associatePartyByTypeAndIdAndSubId,
           disassociatePartyByTypeAndId, disassociatePartyByTypeAndIdAndSubId,
           participantRequestByTypeAndIdReject,
           participantRequestByTypeAndIdAndSubIdReject
  <1>7. \A x : Unsigned(x) => x.method \notin {"POST", "PUT"}
    OBVIOUS
  <1>. HIDE DEF At, Unsigned
  <1>8. Unsigned(r) \/ \E k : At(r, k)
    BY <1>1, <1>2, <1>3, <1>4, <1>5, <1>6, Zenon DEF Routes
  <1>. QED
    BY <1>7, <1>8 DEF At

\* Only the operations that bring a Party or the results of a bulk look at what a request need
\* not have, and only the query of bulk transfers verifies a signature that a request without
\* a body cannot have.
LEMMA CheckedFaults ==
    ASSUME NEW r \in Routes,
           r \notin PutParty \cup PutBulkResults \cup {bulkTransferQueryReceived},
           NEW k \in DOMAIN r.checks
    PROVE  /\ r.checks[k].fault \notin {"personalInfo", "optional", "noAccept"}
           /\ r.method = "GET" => r.checks[k].fault # "signature"
  <1>. DEFINE Plain == {BodyThere, IlpDecodes, ElementsThere, NotExpired, CurrencyAndAmount,
                        IlpAgainstQuoteResponse, ValidCondition, SignatureVerifies,
                        ValidPayload}
              Unsigned == {ElementsThere, CurrencyAndAmount, ValidPayload}
              Ok(x) == \A j \in DOMAIN x.checks :
                           /\ x.checks[j] \in Plain
                           /\ x.method = "GET" => x.checks[j] \in Unsigned
  <1>. USE DEF Route
  <1>1. /\ Ok(transferPrepareRequested)
        /\ Ok(transferFulfilRequested)
        /\ Ok(transferRejectRequested)
        /\ Ok(transferQueryReceived)
    BY DEF transferPrepareRequested, transferFulfilRequested, transferRejectRequested,
           transferQueryReceived
  <1>2. /\ Ok(bulkTransferPrepareRequest)
        /\ Ok(bulkTransfersRejectRequest)
    BY DEF bulkTransferPrepareRequest, bulkTransfersRejectRequest
  <1>3. /\ Ok(quoteRequestReceived)
        /\ Ok(quoteResponseReceived)
        /\ Ok(quoteQueryReceived)
        /\ Ok(quoteRejectRequest)
    BY DEF quoteRequestReceived, quoteResponseReceived, quoteQueryReceived,
           quoteRejectRequest
  <1>4. /\ Ok(bulkQuoteQueryReceived)
        /\ Ok(bulkQuoteRequest)
        /\ Ok(bulkQuoteRejectRequest)
    BY DEF bulkQuoteQueryReceived, bulkQuoteRequest, bulkQuoteRejectRequest
  <1>5. /\ Ok(getPartyQueryReceivedByTypeAndId)
        /\ Ok(getPartyQueryReceivedByTypeAndIdSubId)
        /\ Ok(getPartyByTypeAndIdQueryReject)
        /\ Ok(getPartyByTypeAndIdAndSubIdQueryReject)
    BY DEF getPartyQueryReceivedByTypeAndId, getPartyQueryReceivedByTypeAndIdSubId,
           getPartyByTypeAndIdQueryReject, getPartyByTypeAndIdAndSubIdQueryReject
  <1>6. /\ Ok(getParticipantsByTypeAndID)
        /\ Ok(getParticipantsByTypeAndIDAndSubId)
        /\ Ok(associatePartyByTypeAndId)
        /\ Ok(associatePartyByTypeAndIdAndSubId)
        /\ Ok(disassociatePartyByTypeAndId)
        /\ Ok(disassociatePartyByTypeAndIdAndSubId)
        /\ Ok(participantRequestByTypeAndIdReject)
        /\ Ok(participantRequestByTypeAndIdAndSubIdReject)
    BY DEF getParticipantsByTypeAndID, getParticipantsByTypeAndIDAndSubId,
           associatePartyByTypeAndId, associatePartyByTypeAndIdAndSubId,
           disassociatePartyByTypeAndId, disassociatePartyByTypeAndIdAndSubId,
           participantRequestByTypeAndIdReject,
           participantRequestByTypeAndIdAndSubIdReject
  <1>. HIDE DEF Ok
  <1>7. Ok(r)
    BY <1>1, <1>2, <1>3, <1>4, <1>5, <1>6, Zenon DEF Routes, PutParty, PutBulkResults
  <1>8. /\ \A c \in Plain : c.fault \notin {"personalInfo", "optional", "noAccept"}
        /\ \A c \in Unsigned : c.fault # "signature"
    BY DEF Check, BodyThere, IlpDecodes, ElementsThere, NotExpired, CurrencyAndAmount,
           IlpAgainstQuoteResponse, ValidCondition, SignatureVerifies, ValidPayload
  <1>. HIDE DEF Plain, Unsigned
  <1>. QED
    BY <1>7, <1>8 DEF Ok

\* A set of places among the first eight has a first.
LEMMA FirstOfEight ==
    ASSUME NEW S \in SUBSET (1 .. 8), S # {}
    PROVE  \E k \in S : \A j \in S : k <= j
  <1>. SUFFICES ASSUME \A k \in S : \E j \in S : j < k
                PROVE  FALSE
    OBVIOUS
  <1>1. 1 \notin S
    OBVIOUS
  <1>2. 2 \notin S
    BY <1>1
  <1>3. 3 \notin S
    BY <1>1, <1>2
  <1>4. 4 \notin S
    BY <1>1, <1>2, <1>3
  <1>5. 5 \notin S
    BY <1>1, <1>2, <1>3, <1>4
  <1>6. 6 \notin S
    BY <1>1, <1>2, <1>3, <1>4, <1>5
  <1>7. 7 \notin S
    BY <1>1, <1>2, <1>3, <1>4, <1>5, <1>6
  <1>8. 8 \notin S
    BY <1>1, <1>2, <1>3, <1>4, <1>5, <1>6, <1>7
  <1>9. PICK k \in S : TRUE
    OBVIOUS
  <1>10. k \in 1 .. 8
    OBVIOUS
  <1>11. k \in {1, 2, 3, 4, 5, 6, 7, 8}
    BY <1>10
  <1>. QED
    BY <1>1, <1>2, <1>3, <1>4, <1>5, <1>6, <1>7, <1>8, <1>9, <1>11, Zenon

\* A refused request gets an answer.
LEMMA RefusalType ==
    ASSUME NEW r \in Request, Refused(r)
    PROVE  Refusal(r) \in Statuses
  <1>1. CASE DoesNotParse(r) \/ preHandlerContentType(r)
    BY <1>1 DEF Refusal, Statuses
  <1>2. CASE ~DoesNotParse(r) /\ ~preHandlerContentType(r)
    <2>1. r.route \in Routes
      BY DEF Request
    <2>2. FailedChecks(r) \in SUBSET (1 .. 8) /\ FailedChecks(r) # {}
      BY <1>2, <2>1, RouteType DEF Refused, FailedChecks
    <2>. DEFINE first == CHOOSE k \in FailedChecks(r) : \A j \in FailedChecks(r) : k <= j
    <2>3. first \in FailedChecks(r)
      BY <2>2, FirstOfEight
    <2>4. first \in DOMAIN r.route.checks
      BY <2>3 DEF FailedChecks
    <2>5. r.route.checks[first] \in Checks
      BY <2>1, <2>4, RouteType, ElementOfSeq
    <2>6. Refusal(r) = r.route.checks[first].status
      BY <1>2 DEF Refusal
    <2>. QED
      BY <2>5, <2>6 DEF Checks
  <1>. QED
    BY <1>1, <1>2

\* A request that was handled ends with the success of its route.
LEMMA SuccessType ==
    ASSUME TypeOK, NEW q \in Requests
    PROVE  request[q].route.success \in {"OK", "Accepted"}
  <1>1. request[q].route \in Routes
    BY DEF TypeOK, Request
  <1>. QED
    BY <1>1, RouteType

\* One more event in the topic is one more request with its event published, and the
\* events that were there stay where they are.
LEMMA PublishedAppend ==
    ASSUME topic \in Seq(Requests), NEW q \in Requests, topic' = Append(topic, q)
    PROVE  /\ topic' \in Seq(Requests)
           /\ Published' = Published \cup {q}
           /\ DOMAIN topic' = DOMAIN topic \cup {Len(topic) + 1}
           /\ \A k \in DOMAIN topic : topic'[k] = topic[k]
           /\ topic'[Len(topic) + 1] = q
  <1>1. /\ topic' \in Seq(Requests)
        /\ Len(topic') = Len(topic) + 1
        /\ \A k \in 1 .. Len(topic) : topic'[k] = topic[k]
        /\ topic'[Len(topic) + 1] = q
    BY AppendProperties
  <1>2. DOMAIN topic = 1 .. Len(topic) /\ DOMAIN topic' = 1 .. Len(topic')
    BY <1>1
  <1>3. DOMAIN topic' = DOMAIN topic \cup {Len(topic) + 1}
    BY <1>1, <1>2
  <1>. QED
    BY <1>1, <1>2, <1>3 DEF Published

-----------------------------------------------------------------------------
(* The initial states.                                                      *)

\* When the process starts nothing has been asked or published.
LEMMA InitInv == Init => IInv
  <1>. SUFFICES ASSUME Init PROVE IInv
    OBVIOUS
  <1>. USE DEF Init
  <1>1. topic \in Seq(Requests) /\ Published = {}
    BY DEF Published
  <1>2. TypeOK
    BY <1>1, ApiAssumption DEF TypeOK, Boots, Halts, Apps, Stages, Answers
  <1>3. TopicInv
    BY <1>1 DEF TopicInv
  <1>4. AnswerInv
    BY DEF AnswerInv
  <1>5. ProcessInv
    BY DEF ProcessInv, StopDrains, Pending, Waiting
  <1>. QED
    BY <1>2, <1>3, <1>4, <1>5 DEF IInv

-----------------------------------------------------------------------------
(* One lemma for each part of the invariant, one step for each action.      *)

\* A step that settles a request leaves every other one alone.
LEMMA SettleOne ==
    ASSUME TypeOK, NEW q \in Requests, NEW newStage \in Stages, NEW newAnswer \in Answers,
           Settle(q, newStage, newAnswer)
    PROVE  /\ stage' \in [Requests -> Stages]
           /\ answer' \in [Requests -> Answers]
           /\ stage'[q] = newStage
           /\ answer'[q] = IF answer[q] = "none" THEN newAnswer ELSE answer[q]
           /\ \A r \in Requests : r # q => stage'[r] = stage[r] /\ answer'[r] = answer[r]
  BY DEF TypeOK, Settle

\* The type invariant.
LEMMA TypeStep == TypeOK /\ [Next]_vars => TypeOK'
  <1>. SUFFICES ASSUME TypeOK, [Next]_vars PROVE TypeOK'
    OBVIOUS
  <1>. USE DEF TypeOK
  <1>1. ASSUME NEW q \in Requests, Unheard(q) PROVE TypeOK'
    <2>1. Settle(q, "refused", "lost") /\ UNCHANGED <<process, request, topic>>
      BY <1>1 DEF Unheard
    <2>. QED
      BY <2>1, SettleOne DEF process, Stages, Answers
  <1>2. ASSUME NEW q \in Requests, Unavailable(q) PROVE TypeOK'
    <2>1. /\ Settle(q, "refused", "ServiceUnavailable")
          /\ UNCHANGED <<process, request, topic>>
      BY <1>2 DEF Unavailable
    <2>. QED
      BY <2>1, SettleOne DEF process, Stages, Answers, Statuses
  <1>3. ASSUME NEW q \in Requests, Refuse(q) PROVE TypeOK'
    <2>1. Refusal(request[q]) \in Statuses
      BY <1>3, RefusalType DEF Refuse
    <2>2. /\ Settle(q, "refused", Refusal(request[q]))
          /\ UNCHANGED <<process, request, topic>>
      BY <1>3 DEF Refuse
    <2>. QED
      BY <2>1, <2>2, SettleOne DEF process, Stages, Answers
  <1>4. ASSUME NEW q \in Requests, Handle(q) PROVE TypeOK'
    BY <1>4 DEF Handle, process, Stages
  <1>5. ASSUME NEW q \in Requests, BrokerAppends(q) PROVE TypeOK'
    <2>1. topic' \in Seq(Requests)
      BY <1>5, PublishedAppend DEF BrokerAppends
    <2>2. stage' \in [Requests -> Stages]
      BY <1>5 DEF BrokerAppends, Stages
    <2>. QED
      BY <1>5, <2>1, <2>2 DEF BrokerAppends, process
  <1>6. ASSUME NEW q \in Requests, SendResolves(q) PROVE TypeOK'
    <2>1. request[q].route.success \in {"OK", "Accepted"}
      BY SuccessType
    <2>2. /\ Settle(q, "answered", request[q].route.success)
          /\ UNCHANGED <<process, request, topic>>
      BY <1>6 DEF SendResolves
    <2>. QED
      BY <2>1, <2>2, SettleOne DEF process, Stages, Answers, Statuses
  <1>7. ASSUME NEW q \in Requests, SendRejects(q) PROVE TypeOK'
    <2>1. /\ Settle(q, "adrift", "InternalServerError")
          /\ UNCHANGED <<process, request, topic>>
      BY <1>7 DEF SendRejects
    <2>. QED
      BY <2>1, SettleOne DEF process, Stages, Answers, Statuses
  <1>8. ASSUME NEW q \in Requests, HangUp(q) PROVE TypeOK'
    BY <1>8 DEF HangUp, process, Answers
  <1>9. CASE Connect
    BY <1>9 DEF Connect, requests, Boots
  <1>10. ASSUME NEW ok \in BOOLEAN, Listen(ok) PROVE TypeOK'
    BY <1>10 DEF Listen, requests, Boots, Apps
  <1>11. CASE Signal
    BY <1>11 DEF Signal, requests, Halts
  <1>12. CASE CloseApp
    BY <1>12 DEF CloseApp, requests, Halts, Apps
  <1>13. CASE AppClosed
    BY <1>13 DEF AppClosed, requests, Halts, Apps
  <1>14. CASE DestroyProducer
    BY <1>14 DEF DestroyProducer, requests, Halts
  <1>15. CASE Die
    BY <1>15 DEF Die, Boots, Halts, Apps, Stages, Answers
  <1>16. CASE Restart
    BY <1>16 DEF Restart, requests
  <1>17. CASE UNCHANGED vars
    BY <1>17 DEF vars, process, requests
  <1>. QED
    BY <1>1, <1>2, <1>3, <1>4, <1>5, <1>6, <1>7, <1>8, <1>9, <1>10, <1>11, <1>12, <1>13,
       <1>14, <1>15, <1>16, <1>17
    DEF Next, Serve, Exit, KillTimer, Crash

\* Kafka has the events of the requests it has acknowledged and of no refused one, and
\* no event twice.
LEMMA TopicStep == TypeOK /\ TopicInv /\ [Next]_vars => TopicInv'
  <1>. SUFFICES ASSUME TypeOK, TopicInv, [Next]_vars PROVE TopicInv'
    OBVIOUS
  <1>. USE DEF TopicInv
  <1>1. ASSUME UNCHANGED topic PROVE UNCHANGED Published
    BY <1>1 DEF Published
  <1>2. ASSUME NEW q \in Requests, stage[q] = "unsent", UNCHANGED topic,
               NEW newStage \in Stages, newStage # "appended", newStage # "answered",
               stage' = [stage EXCEPT ![q] = newStage]
        PROVE  TopicInv'
    <2>1. q \notin Published
      BY <1>2
    <2>2. \A r \in Requests : stage'[r] = IF r = q THEN newStage ELSE stage[r]
      BY <1>2 DEF TypeOK
    <2>3. Published \subseteq Requests
      BY DEF TypeOK, Published
    <2>. QED
      BY <1>1, <1>2, <2>1, <2>2, <2>3
  <1>3. ASSUME NEW q \in Requests, NEW newStage \in {"answered", "adrift"},
               q \in Published \/ newStage = "adrift", UNCHANGED topic,
               stage[q] \in {"sending", "appended"},
               stage' = [stage EXCEPT ![q] = newStage]
        PROVE  TopicInv'
    <2>1. \A r \in Requests : stage'[r] = IF r = q THEN newStage ELSE stage[r]
      BY <1>3 DEF TypeOK
    <2>2. Published \subseteq Requests
      BY DEF TypeOK, Published
    <2>. QED
      BY <1>1, <1>3, <2>1, <2>2
  <1>4. ASSUME NEW q \in Requests, Unheard(q) \/ Unavailable(q) \/ Refuse(q) \/ Handle(q)
        PROVE  TopicInv'
    BY <1>2, <1>4 DEF Unheard, Unavailable, Refuse, Handle, Settle, Stages
  <1>5. ASSUME NEW q \in Requests, BrokerAppends(q) PROVE TopicInv'
    <2>1. /\ q \notin Published
          /\ stage[q] \in {"sending", "adrift"}
          /\ topic' = Append(topic, q)
          /\ stage' = [stage EXCEPT ![q] = IF @ = "sending" THEN "appended" ELSE @]
      BY <1>5 DEF BrokerAppends
    <2>2. /\ Published' = Published \cup {q}
          /\ DOMAIN topic' = DOMAIN topic \cup {Len(topic) + 1}
          /\ \A k \in DOMAIN topic : topic'[k] = topic[k]
          /\ topic'[Len(topic) + 1] = q
      BY <2>1, PublishedAppend DEF TypeOK
    <2>3. /\ stage'[q] \in {"appended", "adrift"}
          /\ \A r \in Requests : r # q => stage'[r] = stage[r]
      BY <2>1 DEF TypeOK
    <2>4. \A k \in DOMAIN topic : topic[k] # q
      BY <2>1 DEF Published
    <2>5. \A j, k \in DOMAIN topic' : topic'[j] = topic'[k] => j = k
      BY <2>2, <2>4
    <2>6. Published \subseteq Requests
      BY DEF TypeOK, Published
    <2>. QED
      BY <2>2, <2>3, <2>5, <2>6
  <1>6. ASSUME NEW q \in Requests, SendResolves(q) PROVE TopicInv'
    BY <1>3, <1>6 DEF SendResolves, Settle
  <1>7. ASSUME NEW q \in Requests, SendRejects(q) PROVE TopicInv'
    BY <1>3, <1>7 DEF SendRejects, Settle, Pending
  <1>8. CASE Die
    <2>1. \A r \in Requests :
              stage'[r] = IF stage[r] \in {"sending", "appended"} THEN "adrift"
                          ELSE stage[r]
      BY <1>8 DEF Die, Pending
    <2>2. Published \subseteq Requests
      BY DEF TypeOK, Published
    <2>. QED
      BY <1>1, <1>8, <2>1, <2>2 DEF Die
  <1>9. CASE UNCHANGED <<stage, topic>>
    BY <1>1, <1>9
  <1>. QED
    BY <1>4, <1>5, <1>6, <1>7, <1>8, <1>9
    DEF Next, Serve, HangUp, Connect, Listen, Signal, CloseApp, AppClosed, DestroyProducer,
        Exit, KillTimer, Crash, Restart, vars, requests

\* What the FSP has been told fits where the service is with the request.
LEMMA AnswerStep == TypeOK /\ AnswerInv /\ [Next]_vars => AnswerInv'
  <1>. SUFFICES ASSUME TypeOK, AnswerInv, [Next]_vars PROVE AnswerInv'
    OBVIOUS
  <1>. DEFINE Fits(rq, st, an) ==
           /\ st = "unsent" => an = "none"
           /\ st \in {"sending", "appended"} => an \in {"none", "lost"}
           /\ st = "adrift" => an \in {"InternalServerError", "lost"}
           /\ st = "answered" => an \in {rq.route.success, "lost"}
           /\ st \in {"sending", "appended", "adrift", "answered"} => ~Refused(rq)
           /\ st = "refused" => Refused(rq) \/ an \in {"lost", "ServiceUnavailable"}
  <1>1. \A r \in Requests : Fits(request[r], stage[r], answer[r])
    BY DEF AnswerInv
  <1>2. UNCHANGED request
    BY DEF Next, Serve, Unheard, Unavailable, Refuse, Handle, BrokerAppends, SendResolves,
           SendRejects, HangUp, Connect, Listen, Signal, CloseApp, AppClosed,
           DestroyProducer, Exit, KillTimer, Crash, Die, Restart, vars, requests
  <1>3. SUFFICES ASSUME NEW r \in Requests
                 PROVE  Fits(request[r], stage'[r], answer'[r])
    BY <1>2 DEF AnswerInv
  <1>4. ASSUME NEW q \in Requests, NEW newStage \in Stages, NEW newAnswer \in Answers,
               Settle(q, newStage, newAnswer),
               Fits(request[q], newStage,
                    IF answer[q] = "none" THEN newAnswer ELSE answer[q])
        PROVE  Fits(request[r], stage'[r], answer'[r])
    BY <1>1, <1>4, SettleOne
  <1>5. ASSUME NEW q \in Requests, Unheard(q) \/ Unavailable(q) \/ Refuse(q)
        PROVE  Fits(request[r], stage'[r], answer'[r])
    <2>1. PICK newAnswer \in Answers :
              /\ Settle(q, "refused", newAnswer)
              /\ Refused(request[q]) \/ newAnswer \in {"lost", "ServiceUnavailable"}
      BY <1>5, RefusalType DEF Unheard, Unavailable, Refuse, Answers, Statuses, TypeOK
    <2>2. answer[q] = "none"
      BY <1>1, <1>5 DEF Unheard, Unavailable, Refuse
    <2>. QED
      BY <1>4, <2>1, <2>2 DEF Stages
  <1>6. ASSUME NEW q \in Requests, Handle(q)
        PROVE  Fits(request[r], stage'[r], answer'[r])
    <2>1. /\ stage[q] = "unsent" /\ ~Refused(request[q])
          /\ UNCHANGED answer
          /\ stage'[r] = IF r = q THEN "sending" ELSE stage[r]
      BY <1>6 DEF Handle, TypeOK
    <2>. QED
      BY <1>1, <2>1
  <1>7. ASSUME NEW q \in Requests, BrokerAppends(q)
        PROVE  Fits(request[r], stage'[r], answer'[r])
    <2>1. /\ UNCHANGED answer
          /\ stage'[r] = IF r = q /\ stage[r] = "sending" THEN "appended" ELSE stage[r]
      BY <1>7 DEF BrokerAppends, TypeOK
    <2>. QED
      BY <1>1, <2>1
  <1>8. ASSUME NEW q \in Requests, SendResolves(q)
        PROVE  Fits(request[r], stage'[r], answer'[r])
    <2>1. request[q].route.success \in Answers
      BY SuccessType DEF Answers, Statuses
    <2>2. stage[q] = "appended" /\ Settle(q, "answered", request[q].route.success)
      BY <1>8 DEF SendResolves
    <2>. QED
      BY <1>1, <1>4, <2>1, <2>2 DEF Stages
  <1>9. ASSUME NEW q \in Requests, SendRejects(q)
        PROVE  Fits(request[r], stage'[r], answer'[r])
    <2>1. /\ stage[q] \in {"sending", "appended"}
          /\ Settle(q, "adrift", "InternalServerError")
      BY <1>9 DEF SendRejects, Pending
    <2>. QED
      BY <1>1, <1>4, <2>1 DEF Stages, Answers, Statuses
  <1>10. ASSUME NEW q \in Requests, HangUp(q)
         PROVE  Fits(request[r], stage'[r], answer'[r])
    <2>1. /\ stage[q] \in {"sending", "appended"}
          /\ UNCHANGED stage
          /\ answer'[r] = IF r = q THEN "lost" ELSE answer[r]
      BY <1>10 DEF HangUp, Pending, TypeOK
    <2>. QED
      BY <1>1, <2>1
  <1>11. CASE Die
    <2>1. /\ stage'[r] = IF r \in Pending THEN "adrift" ELSE stage[r]
          /\ answer'[r] = IF r \in Pending /\ answer[r] = "none" THEN "lost" ELSE answer[r]
      BY <1>11 DEF Die
    <2>. QED
      BY <1>1, <2>1 DEF Pending
  <1>12. CASE UNCHANGED <<stage, answer>>
    BY <1>1, <1>12
  <1>. QED
    BY <1>5, <1>6, <1>7, <1>8, <1>9, <1>10, <1>11, <1>12
    DEF Next, Serve, Connect, Listen, Signal, CloseApp, AppClosed, DestroyProducer, Exit,
        KillTimer, Crash, Restart, vars, requests

\* A dead process has no handler that waits, a closed server none whose FSP waits.
LEMMA ProcessStep == TypeOK /\ ProcessInv /\ [Next]_vars => ProcessInv'
  <1>. SUFFICES ASSUME TypeOK, ProcessInv, [Next]_vars PROVE ProcessInv'
    OBVIOUS
  <1>. USE DEF ProcessInv, StopDrains
  <1>1. ASSUME NEW q \in Requests, UNCHANGED process,
               Unheard(q) \/ Unavailable(q) \/ Refuse(q) \/ SendResolves(q)
                 \/ SendRejects(q) \/ BrokerAppends(q) \/ HangUp(q)
        PROVE  ProcessInv'
    <2>1. Pending' \subseteq Pending /\ Waiting' \subseteq Waiting
      BY <1>1 DEF Unheard, Unavailable, Refuse, SendResolves, SendRejects, BrokerAppends,
                  HangUp, Settle, Pending, Waiting, TypeOK
    <2>. QED
      BY <1>1, <2>1 DEF process
  <1>2. ASSUME NEW q \in Requests, Handle(q) PROVE ProcessInv'
    BY <1>2 DEF Handle, process
  <1>3. CASE Connect
    BY <1>3 DEF Connect, requests, Pending, Waiting
  <1>4. ASSUME NEW ok \in BOOLEAN, Listen(ok) PROVE ProcessInv'
    BY <1>4 DEF Listen, requests, Pending, Waiting
  <1>5. CASE Signal
    BY <1>5 DEF Signal, requests, Pending, Waiting
  <1>6. CASE CloseApp
    BY <1>6 DEF CloseApp, requests, Pending, Waiting
  <1>7. CASE AppClosed
    BY <1>7 DEF AppClosed, requests, Pending, Waiting
  <1>8. CASE DestroyProducer
    BY <1>8 DEF DestroyProducer, requests, Pending, Waiting
  <1>9. CASE Die
    <2>1. Pending' = {} /\ Waiting' = {}
      BY <1>9 DEF Die, Pending, Waiting
    <2>. QED
      BY <1>9, <2>1 DEF Die
  <1>10. CASE Restart
    BY <1>10 DEF Restart, requests, Pending, Waiting
  <1>11. CASE UNCHANGED vars
    BY <1>11 DEF vars, process, requests, Pending, Waiting
  <1>. QED
    BY <1>1, <1>2, <1>3, <1>4, <1>5, <1>6, <1>7, <1>8, <1>9, <1>10, <1>11
    DEF Next, Serve, Unheard, Unavailable, Refuse, SendResolves, SendRejects,
        BrokerAppends, HangUp, Exit, KillTimer, Crash

-----------------------------------------------------------------------------
\* The inductive invariant holds in every reachable state, whatever is asked of the
\* service and however often it crashes or is stopped.
THEOREM Invariant == Spec => []IInv
  <1>1. IInv /\ [Next]_vars => IInv'
    BY TypeStep, TopicStep, AnswerStep, ProcessStep DEF IInv
  <1>. QED
    BY <1>1, InitInv, PTL DEF Spec

\* After it has closed the server stop() takes the producer away from no request whose FSP
\* waits for the answer.
THEOREM Draining == Spec => []StopDrains
  <1>1. IInv => StopDrains
    BY DEF IInv, ProcessInv
  <1>. QED
    BY <1>1, Invariant, PTL

\* No event gets into a topic under a signature that does not verify, whatever else is
\* wrong with its request and whenever Kafka takes it.
THEOREM Verified == Spec => []OnlyVerifiedPublished
  <1>1. IInv => OnlyVerifiedPublished
    <2>. SUFFICES ASSUME IInv, NEW q \in Published, JwsEnabled,
                         request[q].route.method \in {"POST", "PUT"},
                         "signature" \in request[q].faults
                  PROVE  FALSE
      BY DEF OnlyVerifiedPublished
    <2>1. q \in Requests
      BY DEF IInv, TypeOK, Published
    <2>2. request[q].route \in Routes
      BY <2>1 DEF IInv, TypeOK, Request
    <2>3. ~Refused(request[q])
      BY <2>1 DEF IInv, TopicInv, AnswerInv
    <2>4. PICK k \in DOMAIN request[q].route.checks :
              request[q].route.checks[k] = SignatureVerifies
      BY <2>2, SignedRoutes
    <2>5. Fails(SignatureVerifies, request[q])
      BY DEF Fails, SignatureVerifies, Check
    <2>6. k \in FailedChecks(request[q])
      BY <2>4, <2>5 DEF FailedChecks
    <2>. QED
      BY <2>3, <2>6 DEF Refused
  <1>. QED
    BY <1>1, Invariant, PTL

\* Apart from the five operations the runs find fault with, no handler refuses a request for
\* want of something the API specification does not require, with JWS enabled or not.
THEOREM PermittedAccepted == Spec => []PermittedNotRefused
  <1>1. IInv => PermittedNotRefused
    <2>. DEFINE Others == Routes \ (PutParty \cup PutBulkResults
                                        \cup {bulkTransferQueryReceived})
    <2>. SUFFICES ASSUME IInv, NEW q \in Requests, stage[q] = "refused",
                         request[q].route \in Others, Permitted(request[q])
                  PROVE  answer[q] \in {"lost", "ServiceUnavailable"}
      BY DEF PermittedNotRefused, NotRefused
    <2>. DEFINE r == request[q]
    <2>1. /\ r.faults \subseteq {"personalInfo", "optional", "noAccept", "signature"}
          /\ JwsEnabled => "signature" \notin r.faults
          /\ r.route.method = "GET" => "noAccept" \notin r.faults
      BY DEF Permitted
    <2>2. ~DoesNotParse(r)
      BY <2>1 DEF DoesNotParse
    <2>3. ~preHandlerContentType(r)
      BY <2>1 DEF preHandlerContentType
    <2>4. ASSUME NEW k \in DOMAIN r.route.checks PROVE ~Fails(r.route.checks[k], r)
      <3>1. /\ r.route.checks[k].fault \notin {"personalInfo", "optional", "noAccept"}
            /\ r.route.method = "GET" => r.route.checks[k].fault # "signature"
        BY <2>4, CheckedFaults
      <3>. QED
        BY <2>1, <3>1 DEF Fails
    <2>5. FailedChecks(r) = {}
      BY <2>4 DEF FailedChecks
    <2>6. ~Refused(r)
      BY <2>2, <2>3, <2>5 DEF Refused
    <2>. QED
      BY <2>6 DEF IInv, AnswerInv
  <1>. QED
    BY <1>1, Invariant, PTL

-----------------------------------------------------------------------------
(* The API implements EventIngress.                                         *)

replies == [q \in Requests |-> ReplyTo(q)]

\* Before an FSP has been answered the reply is what its connection says.
LEMMA RepliesWhileOpen ==
    ASSUME IInv, NEW q \in Requests
    PROVE  /\ stage[q] = "unsent" => replies[q] = "none"
           /\ stage[q] \in {"sending", "appended"} => replies[q] = answer[q]
           /\ stage[q] = "adrift" => replies[q] \in {"failed", "lost"}
  BY DEF IInv, AnswerInv, replies, ReplyTo

\* When only one request is settled, only its reply changes.
LEMMA OneReply ==
    ASSUME TypeOK, NEW q \in Requests, NEW newStage \in Stages, NEW newAnswer \in Answers,
           Settle(q, newStage, newAnswer)
    PROVE  replies' = [replies EXCEPT ![q] = ReplyTo(q)']
  <1>1. \A r \in Requests : r # q => ReplyTo(r)' = ReplyTo(r)
    BY SettleOne DEF ReplyTo
  <1>. QED
    BY <1>1 DEF replies

\* Every step of the service is a step of EventIngress or changes nothing there.
LEMMA StepImplements == IInv /\ [Next]_vars => [Ingress!Next]_(Ingress!vars)
  <1>. SUFFICES ASSUME IInv, [Next]_vars
                PROVE  Ingress!Next \/ UNCHANGED <<Published, replies>>
    BY DEF Ingress!vars, replies
  <1>1. TypeOK /\ TopicInv /\ AnswerInv
    BY DEF IInv
  <1>2. UNCHANGED topic => UNCHANGED Published
    BY DEF Published
  <1>3. UNCHANGED <<stage, answer>> => UNCHANGED replies
    BY DEF replies, ReplyTo
  <1>4. ASSUME NEW q \in Requests, NEW said \in {"accepted", "refused", "failed"},
               replies[q] = "none", UNCHANGED Published,
               said = "accepted" => q \in Published,
               said = "refused" => q \notin Published,
               replies' = [replies EXCEPT ![q] = said]
        PROVE  Ingress!Next
    BY <1>4 DEF Ingress!Next, Ingress!Reply, replies
  <1>5. ASSUME NEW lost \in SUBSET Requests, UNCHANGED Published,
               \A r \in Requests :
                   replies'[r] = IF r \in lost /\ replies[r] = "none" THEN "lost"
                                 ELSE replies[r]
        PROVE  Ingress!Next
    BY <1>5 DEF Ingress!Next, Ingress!Lose, replies
  <1>6. ASSUME NEW q \in Requests, Unheard(q) \/ Unavailable(q) \/ Refuse(q)
        PROVE  Ingress!Next
    <2>1. PICK newAnswer \in Answers : Settle(q, "refused", newAnswer)
      BY <1>1, <1>6, RefusalType
      DEF Unheard, Unavailable, Refuse, Answers, Statuses, TypeOK
    <2>2. stage[q] = "unsent" /\ UNCHANGED topic
      BY <1>6 DEF Unheard, Unavailable, Refuse
    <2>3. ReplyTo(q)' = "refused"
      BY <1>1, <2>1, SettleOne DEF ReplyTo, Stages
    <2>4. replies' = [replies EXCEPT ![q] = "refused"]
      BY <1>1, <2>1, <2>3, OneReply DEF Stages
    <2>5. replies[q] = "none" /\ q \notin Published
      BY <1>1, <2>2, RepliesWhileOpen DEF TopicInv
    <2>. QED
      BY <1>2, <1>4, <2>2, <2>4, <2>5
  <1>7. ASSUME NEW q \in Requests, Handle(q) PROVE UNCHANGED <<Published, replies>>
    <2>1. stage[q] = "unsent" /\ UNCHANGED answer /\ UNCHANGED topic
      BY <1>7 DEF Handle
    <2>2. \A r \in Requests : stage'[r] = IF r = q THEN "sending" ELSE stage[r]
      BY <1>1, <1>7 DEF Handle, TypeOK
    <2>. QED
      BY <1>2, <2>1, <2>2 DEF replies, ReplyTo
  <1>8. ASSUME NEW q \in Requests, BrokerAppends(q) PROVE Ingress!Next
    <2>1. /\ stage[q] \in {"sending", "adrift"}
          /\ q \notin Published
          /\ UNCHANGED answer
          /\ topic' = Append(topic, q)
      BY <1>8 DEF BrokerAppends
    <2>2. \A r \in Requests :
              stage'[r] = IF r = q /\ stage[r] = "sending" THEN "appended" ELSE stage[r]
      BY <1>1, <1>8 DEF BrokerAppends, TypeOK
    <2>3. Published' = Published \cup {q}
      BY <1>1, <2>1, PublishedAppend DEF TypeOK
    <2>4. replies[q] \in {"none", "failed", "lost"}
      BY <1>1, <2>1, RepliesWhileOpen DEF AnswerInv
    <2>5. UNCHANGED replies
      BY <2>1, <2>2 DEF replies, ReplyTo
    <2>. QED
      BY <2>1, <2>3, <2>4, <2>5 DEF Ingress!Next, Ingress!Publish, replies
  <1>9. ASSUME NEW q \in Requests, SendResolves(q)
        PROVE  Ingress!Next \/ UNCHANGED <<Published, replies>>
    <2>. DEFINE success == request[q].route.success
    <2>1. success \in {"OK", "Accepted"} /\ success \in Answers
      BY <1>1, SuccessType DEF Answers, Statuses
    <2>2. /\ stage[q] = "appended" /\ UNCHANGED topic
          /\ Settle(q, "answered", success)
      BY <1>9 DEF SendResolves
    <2>3. /\ stage'[q] = "answered"
          /\ answer'[q] = IF answer[q] = "none" THEN success ELSE answer[q]
          /\ replies' = [replies EXCEPT ![q] = ReplyTo(q)']
      BY <1>1, <2>1, <2>2, SettleOne, OneReply DEF Stages
    <2>4. q \in Published /\ replies[q] = answer[q] /\ answer[q] \in {"none", "lost"}
      BY <1>1, <2>2, RepliesWhileOpen DEF TopicInv, AnswerInv
    <2>5. CASE answer[q] = "none"
      <3>1. ReplyTo(q)' = "accepted"
        BY <2>1, <2>3, <2>5 DEF ReplyTo
      <3>. QED
        BY <1>2, <1>4, <2>2, <2>3, <2>4, <2>5, <3>1
    <2>6. CASE answer[q] = "lost"
      <3>1. ReplyTo(q)' = "lost"
        BY <2>3, <2>6 DEF ReplyTo
      <3>2. UNCHANGED replies
        BY <2>3, <2>4, <2>6, <3>1 DEF replies
      <3>. QED
        BY <1>2, <2>2, <3>2
    <2>. QED
      BY <2>4, <2>5, <2>6
  <1>10. ASSUME NEW q \in Requests, SendRejects(q)
         PROVE  Ingress!Next \/ UNCHANGED <<Published, replies>>
    <2>1. /\ stage[q] \in {"sending", "appended"} /\ UNCHANGED topic
          /\ Settle(q, "adrift", "InternalServerError")
      BY <1>10 DEF SendRejects, Pending
    <2>2. /\ stage'[q] = "adrift"
          /\ answer'[q] = IF answer[q] = "none" THEN "InternalServerError" ELSE answer[q]
          /\ replies' = [replies EXCEPT ![q] = ReplyTo(q)']
      BY <1>1, <2>1, SettleOne, OneReply DEF Stages, Answers, Statuses
    <2>3. replies[q] = answer[q] /\ answer[q] \in {"none", "lost"}
      BY <1>1, <2>1, RepliesWhileOpen DEF AnswerInv
    <2>4. CASE answer[q] = "none"
      <3>1. ReplyTo(q)' = "failed"
        BY <2>2, <2>4 DEF ReplyTo
      <3>. QED
        BY <1>2, <1>4, <2>1, <2>2, <2>3, <2>4, <3>1
    <2>5. CASE answer[q] = "lost"
      <3>1. ReplyTo(q)' = "lost"
        BY <2>2, <2>5 DEF ReplyTo
      <3>2. UNCHANGED replies
        BY <2>2, <2>3, <2>5, <3>1 DEF replies
      <3>. QED
        BY <1>2, <2>1, <3>2
    <2>. QED
      BY <2>3, <2>4, <2>5
  <1>11. ASSUME NEW q \in Requests, HangUp(q) PROVE Ingress!Next
    <2>1. /\ stage[q] \in {"sending", "appended"} /\ answer[q] = "none"
          /\ UNCHANGED <<stage, topic>>
          /\ \A r \in Requests : answer'[r] = IF r = q THEN "lost" ELSE answer[r]
      BY <1>1, <1>11 DEF HangUp, Pending, TypeOK
    <2>2. replies[q] = "none"
      BY <2>1, RepliesWhileOpen
    <2>3. \A r \in Requests : replies'[r] = IF r = q THEN "lost" ELSE replies[r]
      BY <2>1 DEF replies, ReplyTo
    <2>4. \A r \in Requests :
              replies'[r] = IF r \in {q} /\ replies[r] = "none" THEN "lost" ELSE replies[r]
      BY <2>2, <2>3
    <2>5. {q} \in SUBSET Requests /\ UNCHANGED Published
      BY <1>2, <2>1
    <2>. QED
      BY <1>5, <2>4, <2>5
  <1>12. CASE Die
    <2>1. \A r \in Requests :
              /\ stage'[r] = IF r \in Pending THEN "adrift" ELSE stage[r]
              /\ answer'[r] = IF r \in Pending /\ answer[r] = "none" THEN "lost"
                              ELSE answer[r]
      BY <1>12 DEF Die
    <2>2. \A r \in Pending :
              replies[r] = answer[r] /\ answer[r] \in {"none", "lost"}
      BY <1>1, RepliesWhileOpen DEF Pending, AnswerInv
    <2>3. \A r \in Requests :
              replies'[r] = IF r \in Pending /\ replies[r] = "none" THEN "lost"
                            ELSE replies[r]
      BY <2>1, <2>2 DEF replies, ReplyTo
    <2>4. Pending \in SUBSET Requests /\ UNCHANGED topic
      BY <1>12 DEF Die, Pending
    <2>. QED
      BY <1>2, <1>5, <2>3, <2>4
  <1>13. CASE UNCHANGED <<stage, answer, topic>>
    BY <1>2, <1>3, <1>13
  <1>. QED
    BY <1>6, <1>7, <1>8, <1>9, <1>10, <1>11, <1>12, <1>13
    DEF Next, Serve, Connect, Listen, Signal, CloseApp, AppClosed, DestroyProducer, Exit,
        KillTimer, Crash, Restart, vars, requests

\* Whatever happens to the process, to Kafka and to the connections, an event is
\* published at most once, before its request is accepted and never when it is refused.
THEOREM Implementation == Spec => ImplementsIngress
  <1>1. Init => Ingress!Init
    BY DEF Init, Ingress!Init, Published, ReplyTo
  <1>2. IInv /\ [Next]_vars => [Ingress!Next]_(Ingress!vars)
    BY StepImplements
  <1>. QED
    BY <1>1, <1>2, Invariant, PTL DEF Spec, ImplementsIngress, Ingress!Spec
=============================================================================
