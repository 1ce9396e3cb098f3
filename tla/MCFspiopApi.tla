---------------------------- MODULE MCFspiopApi -----------------------------
(***************************************************************************)
(* Requests for model-checking FspiopApi.                                  *)
(***************************************************************************)
EXTENDS FspiopApi, FiniteSets

CONSTANTS a, b   \* requests

OneRequest == {a}
TwoRequests == {a, b}

\* Every route, with no fault, with one and with two at once: what the service answers
\* depends on the order of the checks.
EveryContent ==
    [route : Routes, faults : {f \in SUBSET Faults : Cardinality(f) <= 2}]

\* A request that is published, one that is refused and one whose signature is bad.
FewContents ==
    {[route |-> transferPrepareRequested, faults |-> {}],
     [route |-> transferFulfilRequested, faults |-> {"element"}],
     [route |-> quoteResponseReceived, faults |-> {"signature"}]}

Queries == {[route |-> bulkTransferQueryReceived, faults |-> {}]}

Parties ==
    {[route |-> getPartyInfoAvailableByTypeAndId, faults |-> f] :
        f \in {{}, {"personalInfo"}}}

BulkResults == [route : PutBulkResults, faults : {{}, {"optional"}}]
=============================================================================
