--------------------------- MODULE MCEventHandler ---------------------------
(***************************************************************************)
(* Events for model-checking EventHandler: for each handler, what the      *)
(* other bounded contexts publish about the requests of two participants,  *)
(* including requests that name an FSP the switch does not know.           *)
(***************************************************************************)
EXTENDS EventHandler

CONSTANTS bluebank,   \* the FSP of the payer, a participant
          greenbank,  \* the FSP of the payee, a participant
          stranger    \* an FSP nobody has registered

AllFsps == {bluebank, greenbank, stranger}
BothFsps == {bluebank, greenbank}

\* A well-formed event about a request of src, addressed to dst.
Base(name, src, dst) ==
    [name |-> name, fromFspiop |-> TRUE, headers |-> [source |-> src, destination |-> dst],
     payloadFsp |-> greenbank, payloadValid |-> TRUE, notifyPayee |-> FALSE,
     sourceMessage |-> "Other"]

ErrorOf(sourceMessage, src, dst) ==
    [Base("ErrorEvent", src, dst) EXCEPT !.sourceMessage = sourceMessage]

AllHandlers == HandlerNames
TransfersHandler == {"Transfers"}

-----------------------------------------------------------------------------
\* Bluebank prepares, greenbank fulfils or rejects; TransferFulfilRequestedEvt and
\* TransferRejectRequestedEvt are the requests of greenbank that can fail.  Either FSP
\* may query.  One error event is about a fulfilment that names one FSP twice.
TransfersPublished ==
    {Base("TransferPreparedEvt", bluebank, greenbank),
     [Base("TransferPreparedEvt", bluebank, stranger) EXCEPT !.payloadFsp = stranger],
     [Base("TransferFulfiledEvt", greenbank, bluebank) EXCEPT !.notifyPayee = TRUE],
     Base("TransferFulfiledEvt", greenbank, bluebank),
     Base("TransferRejectRequestProcessedEvt", greenbank, bluebank),
     Base("TransferQueryResponseEvt", bluebank, greenbank),
     ErrorOf("Other", bluebank, greenbank),
     ErrorOf("TransferFulfilRequestedEvt", greenbank, bluebank),
     ErrorOf("TransferFulfilRequestedEvt", bluebank, bluebank),
     ErrorOf("TransferRejectRequestedEvt", greenbank, bluebank),
     [Base("TransferPreparedEvt", bluebank, greenbank) EXCEPT !.fromFspiop = FALSE],
     Base("BulkTransferPreparedEvt", bluebank, greenbank),
     Base("BulkTransferFulfiledEvt", greenbank, bluebank),
     [Base("BulkTransferFulfiledEvt", greenbank, bluebank) EXCEPT !.payloadValid = FALSE],
     Base("BulkTransferRejectRequestProcessedEvt", greenbank, bluebank),
     Base("BulkTransferQueryResponseEvt", greenbank, bluebank),
     Base("OtherEvent", bluebank, greenbank)}

QuotesPublished ==
    {Base("QuoteRequestAcceptedEvt", bluebank, greenbank),
     Base("QuoteResponseAcceptedEvt", greenbank, bluebank),
     [Base("QuoteResponseAcceptedEvt", greenbank, bluebank) EXCEPT !.payloadValid = FALSE],
     Base("QuoteRejectedResponseEvt", greenbank, bluebank),
     Base("QuoteQueryResponseEvt", bluebank, greenbank),
     Base("BulkQuoteReceivedEvt", bluebank, greenbank),
     Base("BulkQuoteAcceptedEvt", greenbank, bluebank),
     Base("BulkQuoteRejectedResponseEvt", greenbank, bluebank),
     [Base("BulkQuoteQueryResponseEvt", bluebank, greenbank) EXCEPT !.payloadValid = FALSE],
     ErrorOf("Other", bluebank, greenbank),
     Base("OtherEvent", bluebank, greenbank)}

\* GET /parties and GET /participants need not name a destination; the payload does.
\* The last three are answered by the switch itself: the headers are turned around.
AccountLookUpPublished ==
    {Base("PartyInfoRequestedEvt", bluebank, NoFsp),
     Base("PartyInfoRequestedEvt", bluebank, greenbank),
     [Base("PartyInfoRequestedEvt", bluebank, NoFsp) EXCEPT !.payloadFsp = NoFsp],
     Base("PartyQueryResponseEvt", greenbank, bluebank),
     Base("PartyRejectedResponseEvt", greenbank, bluebank),
     Base("ParticipantRejectedResponseEvt", greenbank, bluebank),
     ErrorOf("Other", bluebank, NoFsp),
     Base("ParticipantAssociationCreatedEvt", bluebank, NoFsp),
     Base("ParticipantAssociationRemovedEvt", bluebank, NoFsp),
     Base("ParticipantQueryResponseEvt", bluebank, NoFsp),
     Base("ParticipantQueryResponseEvt", bluebank, greenbank)}

EverythingPublished ==
    [Transfers |-> TransfersPublished, Quotes |-> QuotesPublished,
     AccountLookUp |-> AccountLookUpPublished]

\* For the run that looks at the topic: an event that takes one request, which nobody hears
\* of when it fails, and one that takes feedback, which is left to the operator then.
TopicPublished ==
    [Transfers |-> {Base("TransferQueryResponseEvt", bluebank, greenbank),
                    ErrorOf("Other", bluebank, greenbank)}]

\* For the runs that look at GET /transfers/{id} and GET /bulkTransfers/{id}.
QueriesPublished ==
    [Transfers |-> {Base("TransferQueryResponseEvt", bluebank, greenbank),
                    Base("BulkTransferQueryResponseEvt", greenbank, bluebank)}]
=============================================================================
