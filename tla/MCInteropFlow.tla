--------------------------- MODULE MCInteropFlow ----------------------------
(***************************************************************************)
(* Requests for model-checking InteropFlow.                                *)
(***************************************************************************)
EXTENDS InteropFlow

CONSTANTS bluebank, greenbank, a

BothFsps == {bluebank, greenbank}
OneRequest == {a}
FromBluebank == [q \in Requests |-> bluebank]
ToGreenbank == [q \in Requests |-> greenbank]

\* A transfer, a rejection, a query, a transfer that has expired and one that is badly signed.
TransferContents ==
    {[route |-> transferPrepareRequested, faults |-> {}],
     [route |-> transferRejectRequested, faults |-> {}],
     [route |-> transferQueryReceived, faults |-> {}],
     [route |-> transferPrepareRequested, faults |-> {"expired"}],
     [route |-> transferPrepareRequested, faults |-> {"signature"}]}
=============================================================================
