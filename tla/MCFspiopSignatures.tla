------------------------- MODULE MCFspiopSignatures -------------------------
(***************************************************************************)
(* Two FSPs with keys; a URI as the resource names it and the same behind  *)
(* a base path; a date as toUTCString writes it and the same written       *)
(* otherwise; a body as the transformers write it, another they change,    *)
(* and the errorInformation of error feedback.                             *)
(***************************************************************************)
EXTENDS FspiopSignatures, TLC

CONSTANTS f1, f2, service, behindPath, utc, local, rebuilt, written

McServiceUri == service :> service @@ behindPath :> service

McUTCString == utc :> utc @@ local :> utc

McTransformed == rebuilt :> rebuilt @@ written :> rebuilt @@ ErrorBody :> ErrorBody

\* Each FSP has once asked the other something, without protecting its date.
McEarlier ==
    {[key |-> f,
      protected |-> [source |-> f, destination |-> g, uri |-> service, method |-> "PUT",
                     date |-> NoDate],
      body |-> rebuilt] : f, g \in Fsp}

McSymmetry == Permutations(Fsp)
=============================================================================
