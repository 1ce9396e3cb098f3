-------------------------- MODULE EventSettlement --------------------------
(***************************************************************************)
(* What an event handler promises about the topic it reads, whatever the   *)
(* events are and whatever becomes of the requests it makes.  Events are   *)
(* numbered in the order they were published.                              *)
(*                                                                         *)
(* The handler works through them in that order: it tells the FSPs about   *)
(* event n ("noticed") only when it has settled all events before n, and   *)
(* gives up the right to see an event again ("committed") only when it has *)
(* settled it.  After a crash it may notice again what it had settled      *)
(* since the last commit, at most one batch, but never a committed event.  *)
(***************************************************************************)
EXTENDS Naturals

CONSTANT Batch  \* the most events settled between two commits

VARIABLES published,  \* the number of events published
          noticed,    \* the events an FSP or the operator has heard of
          settled,    \* events 1 .. settled are settled
          committed   \* events 1 .. committed are committed

vars == <<published, noticed, settled, committed>>

Init ==
    /\ published = 0
    /\ noticed = {}
    /\ settled = 0
    /\ committed = 0

Publish ==
    /\ published' = published + 1
    /\ UNCHANGED <<noticed, settled, committed>>

Notice(n) ==
    /\ n > committed
    /\ n <= published
    /\ n <= settled + 1
    /\ n <= committed + Batch
    /\ noticed' = noticed \cup {n}
    /\ UNCHANGED <<published, settled, committed>>

Settle ==
    /\ settled < published
    /\ settled < committed + Batch
    /\ settled' = settled + 1
    /\ UNCHANGED <<published, noticed, committed>>

Commit(n) ==
    /\ n > committed
    /\ n <= settled
    /\ committed' = n
    /\ UNCHANGED <<published, noticed, settled>>

Next ==
    \/ Publish
    \/ \E n \in committed + 1 .. committed + Batch : Notice(n)
    \/ Settle
    \/ \E n \in committed + 1 .. settled : Commit(n)

Spec == Init /\ [][Next]_vars
=============================================================================
