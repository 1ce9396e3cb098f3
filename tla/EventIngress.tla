---------------------------- MODULE EventIngress ----------------------------
(***************************************************************************)
(* What the FSPIOP API promises an FSP about a request, whatever happens   *)
(* to the process, to Kafka and to the connection: its event is published  *)
(* at most once; it is published before the request is accepted, and never *)
(* when the request is refused.  An FSP that hears of a failure, or hears  *)
(* nothing, cannot tell: the event may be there or may still appear.       *)
(***************************************************************************)
CONSTANT Requests

VARIABLES published,  \* the requests whose events are in the topics
          reply       \* what the FSP was told of each request

vars == <<published, reply>>

Replies == {"none", "accepted", "refused", "failed", "lost"}

Init ==
    /\ published = {}
    /\ reply = [q \in Requests |-> "none"]

Publish(q) ==
    /\ q \notin published
    /\ reply[q] \in {"none", "failed", "lost"}
    /\ published' = published \cup {q}
    /\ UNCHANGED reply

Reply(q, answer) ==
    /\ reply[q] = "none"
    /\ answer = "accepted" => q \in published
    /\ answer = "refused" => q \notin published
    /\ reply' = [reply EXCEPT ![q] = answer]
    /\ UNCHANGED published

\* A crash loses the replies to any number of requests.
Lose(lost) ==
    /\ reply' = [q \in Requests |->
                    IF q \in lost /\ reply[q] = "none" THEN "lost" ELSE reply[q]]
    /\ UNCHANGED published

Next ==
    \/ \E q \in Requests :
           Publish(q) \/ \E answer \in {"accepted", "refused", "failed"} : Reply(q, answer)
    \/ \E lost \in SUBSET Requests : Lose(lost)

Spec == Init /\ [][Next]_vars
=============================================================================
