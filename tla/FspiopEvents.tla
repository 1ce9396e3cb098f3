---------------------------- MODULE FspiopEvents ----------------------------
(***************************************************************************)
(* The domain events the FSPIOP event handler service consumes, and what   *)
(* each handler method of the service does with one of them: which         *)
(* participants it looks up, which HTTP requests it then makes, in which   *)
(* order, and what it has done to the FSPIOP headers by then.              *)
(*                                                                         *)
(* The headers travel inside the event (inboundProtocolOpaqueState) and    *)
(* the handlers call them "clonedHeaders", but the variable is an alias of *)
(* the message's own object: a handler that switches them switches them    *)
(* for every later reader of the message too.                              *)
(*                                                                         *)
(* Payloads, entity ids, URLs, tracing and the wording of errors are left  *)
(* out.  The 36 + 25 + 17 names of the error events, which the three       *)
(* handlers treat alike, are the one name "ErrorEvent".                    *)
(***************************************************************************)
EXTENDS Naturals, Sequences

CONSTANTS Fsp,     \* the ids an FSP can put in a header or a payload
          Switch,  \* FSPIOP_HEADERS_SWITCH, the id of the switch itself
          NoFsp    \* an absent header or payload field

ASSUME FspAssumption == Switch \notin Fsp /\ NoFsp \notin Fsp /\ Switch # NoFsp

HandlerNames == {"AccountLookUp", "Quotes", "Transfers"}

FspId == Fsp \cup {Switch, NoFsp}

Headers == [source : FspId, destination : FspId]

\* "FEEDBACK" is the PUT .../error the base handler sends on its own account,
\* "PUT_ERROR" the one that forwards a rejection made by an FSP.
Methods == {"GET", "POST", "PUT", "PUT_ERROR", "PATCH", "FEEDBACK"}

TransfersEvents ==
    {"TransferPreparedEvt", "TransferFulfiledEvt", "TransferQueryResponseEvt",
     "TransferRejectRequestProcessedEvt", "BulkTransferPreparedEvt",
     "BulkTransferFulfiledEvt", "BulkTransferQueryResponseEvt",
     "BulkTransferRejectRequestProcessedEvt"}

QuotingEvents ==
    {"QuoteRequestAcceptedEvt", "QuoteResponseAcceptedEvt", "QuoteQueryResponseEvt",
     "QuoteRejectedResponseEvt", "BulkQuoteReceivedEvt", "BulkQuoteAcceptedEvt",
     "BulkQuoteQueryResponseEvt", "BulkQuoteRejectedResponseEvt"}

AccountLookupEvents ==
    {"ParticipantAssociationCreatedEvt", "ParticipantAssociationRemovedEvt",
     "PartyInfoRequestedEvt", "PartyQueryResponseEvt", "ParticipantQueryResponseEvt",
     "PartyRejectedResponseEvt", "ParticipantRejectedResponseEvt"}

EventNames == TransfersEvents \cup QuotingEvents \cup AccountLookupEvents
                  \cup {"ErrorEvent", "OtherEvent"}

Event ==
    [name          : EventNames,
     fromFspiop    : BOOLEAN,   \* inboundProtocolType and opaque headers present
     headers       : [source : Fsp, destination : Fsp \cup {NoFsp}],
     payloadFsp    : Fsp \cup {NoFsp},  \* payeeFsp, payee.partyIdInfo.fspId, destinationFspId
     payloadValid  : BOOLEAN,   \* does validatePayload() accept it?
     notifyPayee   : BOOLEAN,
     sourceMessage : {"TransferFulfilRequestedEvt", "TransferRejectRequestedEvt", "Other"}]

-----------------------------------------------------------------------------
(* Delivery plans: what a handler method will do if nothing fails.          *)

Call(method, fsp, h) == [method |-> method, to |-> fsp, headers |-> h]

\* The headers as they are while participants are looked up, the participants in
\* the order of the lookups, whether validatePayload() is called, and the requests.
Plan(h, lookups, validates, calls) ==
    [headers |-> h, lookups |-> lookups, validates |-> validates, calls |-> calls]

\* One lookup and one request, both for the same FSP.
ToFsp(h, fsp, method) == Plan(h, <<fsp>>, TRUE, <<Call(method, fsp, h)>>)

ToDestination(e, method) == ToFsp(e.headers, e.headers.destination, method)

\* "NOTE: This is a query, so we have to switch headers"
Switched(h) == [source |-> Switch, destination |-> h.source]

\* The endpoint is the payee's of the payload, the headers are left as they are.
handleTransferPreparedEvt(e) == ToFsp(e.headers, e.payloadFsp, "POST")

\* Variant: the payee is notified before the payer.
handleTransferFulfiledEvtPatchFirst(e) ==
    LET payer == e.headers.destination
        payee == e.headers.source
    IN  Plan(e.headers, <<payer, payee>>, TRUE,
             (IF e.notifyPayee THEN <<Call("PATCH", payee, e.headers)>> ELSE <<>>) \o
             <<Call("PUT", payer, e.headers)>>)

\* Both endpoints are looked up before the payer is told; the payee, who made the
\* request, gets the commit notification second and with the same headers.
handleTransferFulfiledEvt(e) ==
    LET payer == e.headers.destination
        payee == e.headers.source
    IN  Plan(e.headers, <<payer, payee>>, TRUE,
             <<Call("PUT", payer, e.headers)>> \o
             (IF e.notifyPayee THEN <<Call("PATCH", payee, e.headers)>> ELSE <<>>))

\* destinationFspId is read before the headers are switched.
handleTransferQueryResponseEvt(e) ==
    ToFsp(Switched(e.headers), e.headers.destination, "PUT")

handleTransferRejectRequestEvt(e) == ToDestination(e, "PUT_ERROR")

handleBulkTransferPreparedEvt(e) == ToDestination(e, "POST")

handleBulkTransferFulfiledEvt(e) == ToDestination(e, "PUT")

handleBulkTransferQueryResponseEvt(e) ==
    ToFsp(Switched(e.headers), e.headers.destination, "PUT")

handleBulkTransferRejectRequestEvt(e) == ToDestination(e, "PUT_ERROR")

\* The endpoint is the payee's of the payload, the destination header stays.
handleQuoteRequestAcceptedEvt(e) == ToFsp(e.headers, e.payloadFsp, "POST")

handleQuoteResponseAcceptedEvt(e) == ToDestination(e, "PUT")

\* The payload is not validated here: the call is commented out.
handleQuoteQueryResponseEvt(e) ==
    [ToFsp(Switched(e.headers), e.headers.destination, "PUT") EXCEPT !.validates = FALSE]

handleBulkQuoteReceivedEvt(e) == ToDestination(e, "POST")

handleBulkQuoteAcceptedEvt(e) == ToDestination(e, "PUT")

handleBulkQuoteQueryResponseEvt(e) ==
    [ToFsp(Switched(e.headers), e.headers.destination, "PUT") EXCEPT !.validates = FALSE]

handleQuoteRejectRequestEvt(e) == ToDestination(e, "PUT_ERROR")

handleBulkQuoteRejectRequestEvt(e) == ToDestination(e, "PUT_ERROR")

\* Variant: destinationFspId is read before the switch.
ToRequesterUnswitched(e) == ToFsp(Switched(e.headers), e.headers.destination, "PUT")

\* Here destinationFspId is read after the switch: it is the requester.
ToRequester(e) == ToFsp(Switched(e.headers), Switched(e.headers).destination, "PUT")

handleParticipantAssociationRequestReceivedEvt(e) ==
    [ToRequester(e) EXCEPT !.validates = FALSE]

handleParticipantDisassociateRequestReceivedEvt(e) == ToRequester(e)

handleParticipantQueryResponseEvt(e) == ToRequester(e)

\* Only the payload knows whom to ask; a missing destination header is filled in
\* between the lookup and the request.
handlePartyInfoRequestedEvt(e) ==
    LET sent == IF e.headers.destination = NoFsp
                THEN [e.headers EXCEPT !.destination = e.payloadFsp]
                ELSE e.headers
    IN  Plan(e.headers, <<e.payloadFsp>>, TRUE, <<Call("GET", e.payloadFsp, sent)>>)

handlePartyQueryResponseEvt(e) == ToDestination(e, "PUT")

handlePartyRejectedResponseEvt(e) == ToDestination(e, "PUT_ERROR")

handleParticipantRejectedResponseEvt(e) == ToDestination(e, "PUT_ERROR")

-----------------------------------------------------------------------------
(* Dispatch: the switch statement of each handler's processMessage.         *)

TransfersPlan(e) ==
    IF e.name = "TransferPreparedEvt" THEN handleTransferPreparedEvt(e)
    ELSE IF e.name = "TransferFulfiledEvt" THEN handleTransferFulfiledEvt(e)
    ELSE IF e.name = "TransferQueryResponseEvt" THEN handleTransferQueryResponseEvt(e)
    ELSE IF e.name = "TransferRejectRequestProcessedEvt" THEN handleTransferRejectRequestEvt(e)
    ELSE IF e.name = "BulkTransferPreparedEvt" THEN handleBulkTransferPreparedEvt(e)
    ELSE IF e.name = "BulkTransferFulfiledEvt" THEN handleBulkTransferFulfiledEvt(e)
    ELSE IF e.name = "BulkTransferQueryResponseEvt" THEN handleBulkTransferQueryResponseEvt(e)
    ELSE handleBulkTransferRejectRequestEvt(e)

QuotingPlan(e) ==
    IF e.name = "QuoteRequestAcceptedEvt" THEN handleQuoteRequestAcceptedEvt(e)
    ELSE IF e.name = "QuoteResponseAcceptedEvt" THEN handleQuoteResponseAcceptedEvt(e)
    ELSE IF e.name = "QuoteQueryResponseEvt" THEN handleQuoteQueryResponseEvt(e)
    ELSE IF e.name = "QuoteRejectedResponseEvt" THEN handleQuoteRejectRequestEvt(e)
    ELSE IF e.name = "BulkQuoteReceivedEvt" THEN handleBulkQuoteReceivedEvt(e)
    ELSE IF e.name = "BulkQuoteAcceptedEvt" THEN handleBulkQuoteAcceptedEvt(e)
    ELSE IF e.name = "BulkQuoteQueryResponseEvt" THEN handleBulkQuoteQueryResponseEvt(e)
    ELSE handleBulkQuoteRejectRequestEvt(e)

AccountLookupPlan(e) ==
    IF e.name = "ParticipantAssociationCreatedEvt"
    THEN handleParticipantAssociationRequestReceivedEvt(e)
    ELSE IF e.name = "ParticipantAssociationRemovedEvt"
    THEN handleParticipantDisassociateRequestReceivedEvt(e)
    ELSE IF e.name = "PartyInfoRequestedEvt" THEN handlePartyInfoRequestedEvt(e)
    ELSE IF e.name = "PartyQueryResponseEvt" THEN handlePartyQueryResponseEvt(e)
    ELSE IF e.name = "ParticipantQueryResponseEvt" THEN handleParticipantQueryResponseEvt(e)
    ELSE IF e.name = "PartyRejectedResponseEvt" THEN handlePartyRejectedResponseEvt(e)
    ELSE handleParticipantRejectedResponseEvt(e)

CallbackEvents(handler) ==
    IF handler = "Transfers" THEN TransfersEvents
    ELSE IF handler = "Quotes" THEN QuotingEvents
    ELSE AccountLookupEvents

\* The plan for an event among CallbackEvents(handler).
PlanOf(handler, e) ==
    IF handler = "Transfers" THEN TransfersPlan(e)
    ELSE IF handler = "Quotes" THEN QuotingPlan(e)
    ELSE AccountLookupPlan(e)

\* The guard at the top of processMessage lets the event through and the switch
\* has a case for it; anything else is logged and ignored.
Handles(handler, e) ==
    /\ e.fromFspiop
    /\ e.name \in CallbackEvents(handler) \cup {"ErrorEvent"}

-----------------------------------------------------------------------------
(* Whom the base handler tells of an error.                                 *)

\* _sendErrorFeedbackToFsp: the source always, the destination if there is one.
FspIds(source, destination) ==
    IF destination = NoFsp THEN <<source>> ELSE <<source, destination>>

\* buildErrorResponseBasedOnErrorEvent: only the transfers handler looks at the
\* request the error answers.
ErrorEventTargets(handler, e) ==
    IF handler = "Transfers" /\ e.sourceMessage = "TransferFulfilRequestedEvt"
    THEN FspIds(e.headers.source, e.headers.destination)
    ELSE IF handler = "Transfers" /\ e.sourceMessage = "TransferRejectRequestedEvt"
    THEN FspIds(e.headers.destination, NoFsp)
    ELSE FspIds(e.headers.source, NoFsp)
=============================================================================
