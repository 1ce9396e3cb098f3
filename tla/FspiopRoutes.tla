---------------------------- MODULE FspiopRoutes ----------------------------
(***************************************************************************)
(* The routes of the FSPIOP API service: for each handler, what it checks  *)
(* of a request, in the order it checks it, how it answers a request that  *)
(* fails the check, the event it publishes for one that passes them all    *)
(* and the answer it gives when the event is published.                    *)
(*                                                                         *)
(* A request is abstracted to the faults it has.  The values of headers,   *)
(* parameters and payloads, tracing, metrics and the wording of errors are *)
(* left out.                                                               *)
(***************************************************************************)
EXTENDS Naturals, Sequences

CONSTANT JwsEnabled   \* the JWS_DISABLED setting, negated

ASSUME JwsAssumption == JwsEnabled \in BOOLEAN

HttpMethods == {"GET", "POST", "PUT", "DELETE"}

Statuses == {"OK", "Accepted", "BadRequest", "NotFound", "InternalServerError",
             "ServiceUnavailable"}

Faults ==
    {"json",          \* the body does not parse
     "contentType",   \* the content-type header is absent or not the resource's
     "noAccept",      \* there is no accept header
     "accept",        \* the accept header is malformed or names no known version
     "date",          \* the date header is no date
     "body",          \* the body, or an object in it the handler looks into, is absent
     "personalInfo",  \* party.personalInfo or its complexName, both optional, is absent
     "ilp",           \* the ILP packet is absent or cannot be decoded
     "element",       \* an element or a header the API specification requires is absent
     "optional",      \* an element the handler demands and the specification does not is
     "expired",       \* the expiration is in the past
     "currency",      \* an unknown currency, an amount of "0", too many decimals
     "ilpMismatch",   \* the ILP packet's amount is not that of the payload
     "condition",     \* the condition is no SHA-256 condition
     "signature",     \* a JWS header is absent or the signature does not verify
     "payload"}       \* the event's own validatePayload() objects

-----------------------------------------------------------------------------
(* The checks.                                                              *)

Check(fault, status) == [fault |-> fault, status |-> status]

\* What throws in a handler ends in its catch, which answers 500; what a handler
\* checks itself is answered with 400, and so is a ValidationdError where it can occur.
BodyThere == Check("body", "InternalServerError")
PersonalInfoThere == Check("personalInfo", "InternalServerError")
IlpDecodes == Check("ilp", "InternalServerError")
ElementsThere == Check("element", "BadRequest")
OptionalThere == Check("optional", "BadRequest")
NotExpired == Check("expired", "BadRequest")
CurrencyAndAmount == Check("currency", "BadRequest")
IlpAgainstQuoteResponse == Check("ilpMismatch", "BadRequest")
ValidCondition == Check("condition", "BadRequest")
SignatureVerifies == Check("signature", "InternalServerError")
ValidPayload == Check("payload", "InternalServerError")

Checks == [fault : Faults, status : Statuses]

Route(method, event, checks, success) ==
    [method |-> method, event |-> event, checks |-> checks, success |-> success]

-----------------------------------------------------------------------------
(* /transfers                                                               *)

transferPrepareRequested ==
    Route("POST", "TransferPrepareRequestedEvt",
          <<BodyThere, IlpDecodes, ElementsThere, NotExpired, CurrencyAndAmount,
            ValidCondition, SignatureVerifies, ValidPayload>>, "Accepted")

transferFulfilRequested ==
    Route("PUT", "TransferFulfilRequestedEvt",
          <<BodyThere, ElementsThere, SignatureVerifies, ValidPayload>>, "OK")

transferRejectRequested ==
    Route("PUT", "TransferRejectRequestedEvt",
          <<BodyThere, ElementsThere, SignatureVerifies, ValidPayload>>, "OK")

transferQueryReceived ==
    Route("GET", "TransferQueryReceivedEvt", <<ElementsThere, ValidPayload>>, "Accepted")

(* /bulkTransfers                                                           *)

\* The only query whose signature is looked at.
bulkTransferQueryReceived ==
    Route("GET", "BulkTransferQueryReceivedEvt",
          <<ElementsThere, SignatureVerifies, ValidPayload>>, "Accepted")

\* The conditions of the individual transfers are not looked at, their ILP packets last.
bulkTransferPrepareRequest ==
    Route("POST", "BulkTransferPrepareRequestedEvt",
          <<BodyThere, ElementsThere, NotExpired, CurrencyAndAmount, SignatureVerifies,
            IlpDecodes, ValidPayload>>, "Accepted")

\* It demands individualTransferResults.
bulkTransferFulfilRequested ==
    Route("PUT", "BulkTransferFulfilRequestedEvt",
          <<BodyThere, ElementsThere, OptionalThere, SignatureVerifies, ValidPayload>>,
          "Accepted")

bulkTransfersRejectRequest ==
    Route("PUT", "BulkTransferRejectRequestedEvt",
          <<BodyThere, ElementsThere, SignatureVerifies, ValidPayload>>, "Accepted")

(* /quotes                                                                  *)

quoteRequestReceived ==
    Route("POST", "QuoteRequestReceivedEvt",
          <<BodyThere, ElementsThere, CurrencyAndAmount, SignatureVerifies, ValidPayload>>,
          "Accepted")

quoteResponseReceived ==
    Route("PUT", "QuoteResponseReceivedEvt",
          <<BodyThere, IlpDecodes, ElementsThere, CurrencyAndAmount,
            IlpAgainstQuoteResponse, ValidCondition, SignatureVerifies, ValidPayload>>, "OK")

quoteQueryReceived ==
    Route("GET", "QuoteQueryReceivedEvt", <<ElementsThere, ValidPayload>>, "Accepted")

quoteRejectRequest ==
    Route("PUT", "QuoteRejectedEvt",
          <<BodyThere, ElementsThere, SignatureVerifies, ValidPayload>>, "Accepted")

(* /bulkQuotes                                                              *)

bulkQuoteQueryReceived ==
    Route("GET", "BulkQuoteQueryReceivedEvt", <<ElementsThere, ValidPayload>>, "Accepted")

bulkQuoteRequest ==
    Route("POST", "BulkQuoteRequestedEvt",
          <<BodyThere, ElementsThere, CurrencyAndAmount, SignatureVerifies, ValidPayload>>,
          "Accepted")

\* It demands individualQuoteResults.
bulkQuotePending ==
    Route("PUT", "BulkQuotePendingReceivedEvt",
          <<BodyThere, ElementsThere, OptionalThere, CurrencyAndAmount, SignatureVerifies,
            ValidPayload>>, "Accepted")

bulkQuoteRejectRequest ==
    Route("PUT", "BulkQuoteRejectedEvt",
          <<BodyThere, ElementsThere, SignatureVerifies, ValidPayload>>, "Accepted")

(* /parties: the calls of validatePayload() are commented out but for the   *)
(* rejections, and each handler has a twin for /{type}/{id}/{subid}.  Those *)
(* that bring a Party demand the fspId of its partyIdInfo.                  *)

getPartyQueryReceivedByTypeAndId ==
    Route("GET", "PartyQueryReceivedEvt", <<ElementsThere, CurrencyAndAmount>>, "Accepted")

getPartyQueryReceivedByTypeAndIdSubId ==
    Route("GET", "PartyQueryReceivedEvt", <<ElementsThere, CurrencyAndAmount>>, "Accepted")

getPartyInfoAvailableByTypeAndId ==
    Route("PUT", "PartyInfoAvailableEvt",
          <<BodyThere, PersonalInfoThere, ElementsThere, OptionalThere, CurrencyAndAmount,
            SignatureVerifies>>, "Accepted")

getPartyInfoAvailableByTypeAndIdAndSubId ==
    Route("PUT", "PartyInfoAvailableEvt",
          <<BodyThere, PersonalInfoThere, ElementsThere, OptionalThere, CurrencyAndAmount,
            SignatureVerifies>>, "Accepted")

getPartyByTypeAndIdQueryReject ==
    Route("PUT", "PartyRejectedEvt",
          <<BodyThere, ElementsThere, CurrencyAndAmount, SignatureVerifies, ValidPayload>>,
          "Accepted")

getPartyByTypeAndIdAndSubIdQueryReject ==
    Route("PUT", "PartyRejectedEvt",
          <<BodyThere, ElementsThere, CurrencyAndAmount, SignatureVerifies, ValidPayload>>,
          "Accepted")

(* /participants                                                            *)

getParticipantsByTypeAndID ==
    Route("GET", "ParticipantQueryReceivedEvt", <<ElementsThere, CurrencyAndAmount>>,
          "Accepted")

getParticipantsByTypeAndIDAndSubId ==
    Route("GET", "ParticipantQueryReceivedEvt", <<ElementsThere, CurrencyAndAmount>>,
          "Accepted")

associatePartyByTypeAndId ==
    Route("POST", "ParticipantAssociationRequestReceivedEvt",
          <<BodyThere, ElementsThere, CurrencyAndAmount, SignatureVerifies>>, "Accepted")

associatePartyByTypeAndIdAndSubId ==
    Route("POST", "ParticipantAssociationRequestReceivedEvt",
          <<BodyThere, ElementsThere, CurrencyAndAmount, SignatureVerifies>>, "Accepted")

disassociatePartyByTypeAndId ==
    Route("DELETE", "ParticipantDisassociateRequestReceivedEvt",
          <<ElementsThere, CurrencyAndAmount>>, "Accepted")

disassociatePartyByTypeAndIdAndSubId ==
    Route("DELETE", "ParticipantDisassociateRequestReceivedEvt",
          <<ElementsThere, CurrencyAndAmount>>, "Accepted")

participantRequestByTypeAndIdReject ==
    Route("PUT", "ParticipantRejectedEvt",
          <<BodyThere, ElementsThere, CurrencyAndAmount, SignatureVerifies, ValidPayload>>,
          "Accepted")

participantRequestByTypeAndIdAndSubIdReject ==
    Route("PUT", "ParticipantRejectedEvt",
          <<BodyThere, ElementsThere, CurrencyAndAmount, SignatureVerifies, ValidPayload>>,
          "Accepted")

Routes ==
    {transferPrepareRequested, transferFulfilRequested, transferRejectRequested,
     transferQueryReceived, bulkTransferQueryReceived, bulkTransferPrepareRequest,
     bulkTransferFulfilRequested, bulkTransfersRejectRequest, quoteRequestReceived,
     quoteResponseReceived, quoteQueryReceived, quoteRejectRequest, bulkQuoteQueryReceived,
     bulkQuoteRequest, bulkQuotePending, bulkQuoteRejectRequest,
     getPartyQueryReceivedByTypeAndId, getPartyQueryReceivedByTypeAndIdSubId,
     getPartyInfoAvailableByTypeAndId, getPartyInfoAvailableByTypeAndIdAndSubId,
     getPartyByTypeAndIdQueryReject, getPartyByTypeAndIdAndSubIdQueryReject,
     getParticipantsByTypeAndID, getParticipantsByTypeAndIDAndSubId,
     associatePartyByTypeAndId, associatePartyByTypeAndIdAndSubId,
     disassociatePartyByTypeAndId, disassociatePartyByTypeAndIdAndSubId,
     participantRequestByTypeAndIdReject, participantRequestByTypeAndIdAndSubIdReject}

Request == [route : Routes, faults : SUBSET Faults]

-----------------------------------------------------------------------------
(* The verdict on a request.                                                *)

\* Variant: the accept header is demanded of every request.
preHandlerContentTypeStrict(r) ==
    \/ r.faults \cap {"contentType", "noAccept", "accept"} # {}
    \/ "date" \in r.faults

\* _preHandlerContentType: only a GET needs an accept header, and the content-type
\* header is looked at only where there is an accept header or there ought to be one.
preHandlerContentType(r) ==
    \/ /\ r.route.method = "GET" \/ "noAccept" \notin r.faults
       /\ r.faults \cap {"contentType", "noAccept", "accept"} # {}
    \/ "date" \in r.faults

\* Variant: the signature is not looked at.
FailsUnsigned(check, r) == check.fault # "signature" /\ check.fault \in r.faults

\* validate() of the JWS helper refuses to verify a request without a payload.
Fails(check, r) ==
    IF check.fault = "signature"
    THEN JwsEnabled /\ ("signature" \in r.faults \/ r.route.method = "GET")
    ELSE check.fault \in r.faults

FailedChecks(r) == {k \in DOMAIN r.route.checks : Fails(r.route.checks[k], r)}

\* A body that is no JSON ends in the error handler, which takes it for an unknown URI.
DoesNotParse(r) == r.route.method \in {"POST", "PUT"} /\ "json" \in r.faults

Refused(r) == DoesNotParse(r) \/ preHandlerContentType(r) \/ FailedChecks(r) # {}

\* The answer to a refused request: the first check that fails decides.
Refusal(r) ==
    IF DoesNotParse(r) THEN "NotFound"
    ELSE IF preHandlerContentType(r) THEN "BadRequest"
    ELSE LET first == CHOOSE k \in FailedChecks(r) : \A j \in FailedChecks(r) : k <= j
         IN  r.route.checks[first].status
=============================================================================
