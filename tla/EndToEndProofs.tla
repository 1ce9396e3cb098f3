--------------------------- MODULE EndToEndProofs ---------------------------
(***************************************************************************)
(* What an FSP may rely on of everything that implements EndToEnd.          *)
(***************************************************************************)
EXTENDS EndToEnd, TLAPS

\* A step keeps the promises made.
LEMMA PromiseStep == PromiseInv /\ [Next]_vars => PromiseInv'
  <1>. SUFFICES ASSUME PromiseInv, [Next]_vars PROVE PromiseInv'
    OBVIOUS
  <1>. USE DEF PromiseInv, Replies
  <1>1. ASSUME NEW q \in Requests, Keep(q) PROVE PromiseInv'
    BY <1>1 DEF Keep
  <1>2. ASSUME NEW q \in Requests, NEW a \in {"accepted", "refused", "failed"}, Reply(q, a)
        PROVE  PromiseInv'
    BY <1>2 DEF Reply
  <1>3. ASSUME NEW q \in Requests, Hear(q) PROVE PromiseInv'
    BY <1>3 DEF Hear
  <1>4. ASSUME NEW q \in Requests, Conclude(q) PROVE PromiseInv'
    BY <1>4 DEF Conclude
  <1>5. ASSUME NEW lost \in SUBSET Requests, Lose(lost) PROVE PromiseInv'
    BY <1>5 DEF Lose
  <1>6. CASE UNCHANGED vars
    BY <1>6 DEF vars
  <1>. QED
    BY <1>1, <1>2, <1>3, <1>4, <1>5, <1>6 DEF Next

\* What is concluded was heard of, what is heard of or was accepted is in the topic, and what
\* was refused is not.
THEOREM PromisesHold == Spec => []PromiseInv
  <1>1. Init => PromiseInv
    BY DEF Init, PromiseInv, Replies
  <1>. QED
    BY <1>1, PromiseStep, PTL DEF Spec

\* A reply is final: an FSP that was refused stays refused, however long it waits, and
\* nothing that was kept, heard of or concluded is undone.
THEOREM PromisesAreFinal == Spec => NothingIsTakenBack
  <1>1. PromiseInv /\ [Next]_vars => [Keeps]_vars
    <2>. SUFFICES ASSUME PromiseInv, Next PROVE Keeps
      OBVIOUS
    <2>. USE DEF PromiseInv, Keeps
    <2>1. ASSUME NEW q \in Requests, Keep(q) \/ Hear(q) \/ Conclude(q) PROVE Keeps
      BY <2>1 DEF Keep, Hear, Conclude
    <2>2. ASSUME NEW q \in Requests, NEW a \in {"accepted", "refused", "failed"}, Reply(q, a)
          PROVE  Keeps
      BY <2>2 DEF Reply
    <2>3. ASSUME NEW lost \in SUBSET Requests, Lose(lost) PROVE Keeps
      BY <2>3 DEF Lose
    <2>. QED
      BY <2>1, <2>2, <2>3 DEF Next
  <1>. QED
    BY <1>1, PromisesHold, PTL DEF Spec, NothingIsTakenBack
=============================================================================
