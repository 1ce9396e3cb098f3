----------------------- MODULE MCEventHandlerService ------------------------
(***************************************************************************)
(* Handlers for model-checking EventHandlerService: the one stop() destroys *)
(* first and the one it destroys last.                                      *)
(***************************************************************************)
EXTENDS EventHandlerService

FirstAndLast == <<"AccountLookUp", "Transfers">>
=============================================================================
