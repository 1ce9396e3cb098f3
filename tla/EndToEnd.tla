------------------------------ MODULE EndToEnd ------------------------------
(***************************************************************************)
(* What the two services together promise about a request, whatever        *)
(* crashes and whatever is lost: an FSP that is told its request was       *)
(* refused will never see anything come of it; one that was told it was    *)
(* accepted has an event in the topic; and an event that is done with has  *)
(* been heard of by an FSP or by the operator.                             *)
(***************************************************************************)
CONSTANT Requests

VARIABLES kept,      \* the requests whose events Kafka has
          reply,     \* what the FSP that made it was told of each request
          heard,     \* the requests an FSP or the operator has heard of since
          concluded  \* the requests the switch is done with

vars == <<kept, reply, heard, concluded>>

Init ==
    /\ kept = {}
    /\ reply = [q \in Requests |-> "none"]
    /\ heard = {}
    /\ concluded = {}

Keep(q) ==
    /\ q \notin kept
    /\ reply[q] \in {"none", "failed", "lost"}
    /\ kept' = kept \cup {q}
    /\ UNCHANGED <<reply, heard, concluded>>

Reply(q, answer) ==
    /\ reply[q] = "none"
    /\ answer = "accepted" => q \in kept
    /\ answer = "refused" => q \notin kept
    /\ reply' = [reply EXCEPT ![q] = answer]
    /\ UNCHANGED <<kept, heard, concluded>>

\* A crash loses the replies to any number of requests.
Lose(lost) ==
    /\ reply' = [q \in Requests |->
                    IF q \in lost /\ reply[q] = "none" THEN "lost" ELSE reply[q]]
    /\ UNCHANGED <<kept, heard, concluded>>

Hear(q) ==
    /\ q \in kept
    /\ heard' = heard \cup {q}
    /\ UNCHANGED <<kept, reply, concluded>>

Conclude(q) ==
    /\ q \in heard
    /\ concluded' = concluded \cup {q}
    /\ UNCHANGED <<kept, reply, heard>>

Next ==
    \/ \E q \in Requests :
           \/ Keep(q)
           \/ \E answer \in {"accepted", "refused", "failed"} : Reply(q, answer)
           \/ Hear(q)
           \/ Conclude(q)
    \/ \E lost \in SUBSET Requests : Lose(lost)

Spec == Init /\ [][Next]_vars

-----------------------------------------------------------------------------
(* What an FSP may rely on, of everything that implements this.             *)

Replies == {"none", "accepted", "refused", "failed", "lost"}

\* What is done with has been heard of, only what is in the topic is heard of, what was
\* accepted is in the topic and what was refused never gets there.
PromiseInv ==
    /\ reply \in [Requests -> Replies]
    /\ concluded \subseteq heard
    /\ heard \subseteq kept
    /\ \A q \in Requests : (reply[q] = "accepted" => q \in kept) /\
                           (reply[q] = "refused" => q \notin kept)

\* Nothing is taken back: neither a reply, nor an event, nor what was made of it.
Keeps ==
    /\ \A q \in Requests : reply[q] # "none" => reply'[q] = reply[q]
    /\ kept \subseteq kept'
    /\ heard \subseteq heard'
    /\ concluded \subseteq concluded'

NothingIsTakenBack == [][Keeps]_vars
=============================================================================
