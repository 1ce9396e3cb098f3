--------------------- MODULE EventHandlerServiceProofs ----------------------
(***************************************************************************)
(* Proofs about EventHandlerService, for any number of handlers, events    *)
(* and restarts.                                                           *)
(***************************************************************************)
EXTENDS EventHandlerService, SequenceTheorems, TLAPS

-----------------------------------------------------------------------------
(* Typing.                                                                  *)

\* The order of destruction is a sequence of handlers, with a first and a last one.
LEMMA OrderType ==
    /\ Order \in Seq(Handlers)
    /\ Len(Order) \in Nat /\ Len(Order) > 0
    /\ First \in Handlers
    /\ Last \in Handlers
  <1>1. Order \in Seq(STRING) /\ Order # <<>>
    BY ServiceAssumption
  <1>2. Len(Order) \in Nat /\ Len(Order) > 0 /\ DOMAIN Order = 1 .. Len(Order)
    BY <1>1
  <1>3. \A k \in 1 .. Len(Order) : Order[k] \in Handlers
    BY <1>2 DEF Handlers
  <1>4. Order \in Seq(Handlers)
    BY <1>1, <1>2, <1>3, IsASeq
  <1>5. 1 \in DOMAIN Order /\ Len(Order) \in DOMAIN Order
    BY <1>2
  <1>6. Head(Order) = Order[1]
    BY <1>1, <1>2
  <1>. QED
    BY <1>2, <1>3, <1>4, <1>5, <1>6 DEF First, Last

\* What ends with the process.
LEMMA DieType ==
    ASSUME TypeOK, Die
    PROVE  TypeOK'
  BY EmptySeq DEF TypeOK, Die, All, topics, Boots, Inits, Halts, Consumers, Phases

\* Every step keeps every variable's type.
LEMMA TypeStep ==
    ASSUME TypeOK, ProcessInv, [Next]_vars
    PROVE  TypeOK'
  <1>. USE DEF TypeOK, process, starting, stopping, topics
  <1>1. CASE Connect
    BY <1>1 DEF Connect, All, Boots, Inits
  <1>2. CASE CreateApp
    BY <1>2 DEF CreateApp, Boots
  <1>3. CASE Started
    BY <1>3 DEF Started, Boots
  <1>4. ASSUME NEW h \in Handlers, StartConsumer(h)
        PROVE  TypeOK'
    BY <1>4 DEF StartConsumer, Inits, Consumers
  <1>5. ASSUME NEW h \in Handlers, ConnectAgain(h)
        PROVE  TypeOK'
    BY <1>5 DEF ConnectAgain, Inits
  <1>6. ASSUME NEW h \in Handlers, Publish(h)
        PROVE  TypeOK'
    BY <1>6 DEF Publish
  <1>7. ASSUME NEW h \in Handlers, Fetch(h)
        PROVE  TypeOK'
    BY <1>7 DEF Fetch, Goto, Phases
  <1>8. ASSUME NEW h \in Handlers, NEW how \in Ends, End(h, how)
        PROVE  TypeOK'
    BY <1>8 DEF End, Goto, Phases, Outcome, current
  <1>9. ASSUME NEW h \in Handlers, Return(h)
        PROVE  TypeOK'
    BY <1>9 DEF Return, Goto, Phases, current
  <1>10. ASSUME NEW h \in Handlers, Commit(h)
         PROVE  TypeOK'
    BY <1>10 DEF Commit, Goto, Phases
  <1>11. CASE Signal
    BY <1>11, OrderType DEF Signal, Halts
  <1>12. CASE CloseApp
    BY <1>12 DEF CloseApp, Halts
  <1>13. CASE DestroyProducerOf
    BY <1>13 DEF DestroyProducerOf, Halts
  <1>14. CASE DestroyConsumerOf
    <2>1. left # <<>>
      BY <1>14 DEF DestroyConsumerOf, ProcessInv
    <2>2. left' \in Seq(Handlers)
      BY <1>14, <2>1, HeadTailProperties DEF DestroyConsumerOf
    <2>. QED
      BY <1>14, <2>2 DEF DestroyConsumerOf, Halts, Consumers
  <1>15. CASE DestroyProducer
    BY <1>15 DEF DestroyProducer, Halts
  <1>16. CASE Die
    BY <1>16, DieType
  <1>17. CASE Restart
    BY <1>17 DEF Restart
  <1>18. CASE UNCHANGED vars
    BY <1>18 DEF vars
  <1>. QED
    BY <1>1, <1>2, <1>3, <1>4, <1>5, <1>6, <1>7, <1>8, <1>9, <1>10, <1>11, <1>12, <1>13,
       <1>14, <1>15, <1>16, <1>17, <1>18
    DEF Next, Boot, Handle, Stop, Tell, OperatorEvent, SignalTooEarly, Exit, KillTimer,
        StartupTimer, Crash, Ends
-----------------------------------------------------------------------------
(* The invariant.                                                           *)

\* In the initial state there is nothing yet.
LEMMA InitInv ==
    ASSUME Init
    PROVE  IInv
  <1>1. TypeOK
    BY EmptySeq DEF Init, TypeOK, All, Boots, Inits, Halts, Consumers, Phases
  <1>2. TopicInv /\ WorkInv
    BY DEF Init, TopicInv, WorkInv, All
  <1>3. ProcessInv
    BY DEF Init, ProcessInv
  <1>. QED
    BY <1>1, <1>2, <1>3 DEF IInv

\* No step of the process touches what a handler does or what the topics hold, but the
\* end of it, which makes every handler idle.
LEMMA ProcessStep ==
    ASSUME [Next]_vars
    PROVE  \/ UNCHANGED <<phase, published, committed, settled, outcomes>>
           \/ Die
           \/ \E h \in Handlers : Publish(h) \/ Handle(h)
  BY DEF Next, vars, topics, Boot, Stop, Connect, CreateApp, Started, StartConsumer,
         ConnectAgain, SignalTooEarly, Signal, CloseApp, DestroyProducerOf,
         DestroyConsumerOf, DestroyProducer, Exit, KillTimer, StartupTimer, Crash, Restart

\* What a handler's step does to its own counters; those of the others stay.
LEMMA HandleStep ==
    ASSUME TypeOK, TopicInv, NEW h \in Handlers, Handle(h)
    PROVE  /\ UNCHANGED <<process, published>>
           /\ \A g \in Handlers \ {h} :
                  UNCHANGED <<phase[g], committed[g], settled[g]>>
           /\ \/ Fetch(h)
              \/ \E how \in Ends : phase[h] = "working" /\ End(h, how)
              \/ Return(h)
              \/ Commit(h)
  <1>. USE DEF TypeOK
  <1>1. CASE Fetch(h)
    BY <1>1 DEF Fetch, Goto, topics
  <1>2. CASE Tell(h)
    BY <1>2 DEF Tell, End, Goto, Ends
  <1>3. CASE OperatorEvent(h)
    BY <1>3 DEF OperatorEvent, End, Goto, Ends
  <1>4. CASE Return(h)
    BY <1>4 DEF Return, Goto
  <1>5. CASE Commit(h)
    BY <1>5 DEF Commit, Goto
  <1>. QED
    BY <1>1, <1>2, <1>3, <1>4, <1>5 DEF Handle

\* The counters of a topic stay in step.
LEMMA TopicStep ==
    ASSUME TypeOK, TopicInv, [Next]_vars
    PROVE  TopicInv'
  <1>. USE DEF TypeOK, TopicInv
  <1>1. CASE UNCHANGED <<phase, published, committed, settled, outcomes>>
    BY <1>1
  <1>2. CASE Die
    BY <1>2 DEF Die, All, topics
  <1>3. ASSUME NEW h \in Handlers, Publish(h)
        PROVE  TopicInv'
    BY <1>3 DEF Publish
  <1>4. ASSUME NEW h \in Handlers, Handle(h)
        PROVE  TopicInv'
    <2>1. CASE Fetch(h)
      BY <1>4, <2>1, HandleStep DEF Fetch, Goto, topics
    <2>2. ASSUME NEW how \in Ends, phase[h] = "working", End(h, how)
          PROVE  TopicInv'
      BY <1>4, <2>2, HandleStep DEF End, Goto
    <2>3. CASE Return(h)
      BY <1>4, <2>3, HandleStep DEF Return, Goto, current
    <2>4. CASE Commit(h)
      BY <1>4, <2>4, HandleStep DEF Commit, Goto
    <2>. QED
      BY <1>4, <2>1, <2>2, <2>3, <2>4, HandleStep
  <1>. QED
    BY <1>1, <1>2, <1>3, <1>4, ProcessStep

\* The parts of the process stay in step.
LEMMA ProcessInvStep ==
    ASSUME TypeOK, ProcessInv, [Next]_vars
    PROVE  ProcessInv'
  <1>. USE DEF TypeOK, ProcessInv, starting, stopping
  <1>1. CASE Connect
    BY <1>1 DEF Connect
  <1>2. CASE CreateApp \/ Started
    BY <1>2 DEF CreateApp, Started
  <1>3. ASSUME NEW h \in Handlers, Boot(h)
        PROVE  ProcessInv'
    BY <1>3 DEF Boot, StartConsumer, ConnectAgain, All
  <1>4. ASSUME NEW h \in Handlers, Publish(h) \/ Handle(h)
        PROVE  ProcessInv'
    BY <1>4
    DEF Publish, Handle, Fetch, Tell, OperatorEvent, End, Return, Commit, process
  <1>5. CASE Signal
    BY <1>5, OrderType DEF Signal
  <1>6. CASE CloseApp \/ DestroyProducerOf \/ DestroyProducer
    BY <1>6 DEF CloseApp, DestroyProducerOf, DestroyProducer
  <1>7. CASE DestroyConsumerOf
    <2>1. left # <<>> /\ boot # "connect"
      BY <1>7 DEF DestroyConsumerOf
    <2>2. Len(left') = Len(left) - 1
      BY <1>7, <2>1, HeadTailProperties DEF DestroyConsumerOf
    <2>3. Len(left) \in Nat /\ Len(left) > 0
      BY <1>7 DEF DestroyConsumerOf
    <2>. QED
      BY <1>7, <2>1, <2>2, <2>3 DEF DestroyConsumerOf
  <1>8. CASE Die
    BY <1>8 DEF Die
  <1>9. CASE Restart
    BY <1>9 DEF Restart
  <1>10. CASE UNCHANGED vars
    BY <1>10 DEF vars, process
  <1>. QED
    BY <1>1, <1>2, <1>3, <1>4, <1>5, <1>6, <1>7, <1>8, <1>9, <1>10
    DEF Next, Stop, SignalTooEarly, Exit, KillTimer, StartupTimer, Crash

\* No handler is at work before start() has got to the handlers.
LEMMA WorkStep ==
    ASSUME TypeOK, ProcessInv, WorkInv, [Next]_vars
    PROVE  WorkInv'
  <1>. USE DEF TypeOK, ProcessInv, WorkInv
  <1>1. CASE Die
    BY <1>1 DEF Die, All
  <1>2. ASSUME NEW h \in Handlers, Fetch(h)
        PROVE  WorkInv'
    <2>1. boot # "connect"
      BY <1>2 DEF Fetch, All
    <2>. QED
      BY <1>2, <2>1 DEF Fetch, Goto, process, starting
  <1>3. ASSUME NEW h \in Handlers, Handle(h), ~Fetch(h)
        PROVE  WorkInv'
    <2>1. phase[h] # "idle" /\ UNCHANGED boot
      BY <1>3
      DEF Handle, Tell, OperatorEvent, End, Return, Commit, process, starting
    <2>. QED
      BY <1>3, <2>1
      DEF Handle, Tell, OperatorEvent, End, Return, Commit, Goto
  <1>4. CASE UNCHANGED phase /\ (boot' = "connect" => boot = "connect")
    BY <1>4
  <1>5. \/ Die
        \/ \E h \in Handlers : Handle(h)
        \/ UNCHANGED phase /\ (boot' = "connect" => boot = "connect")
    BY DEF Next, vars, process, starting, Boot, Publish, Stop, Connect, CreateApp, Started,
           StartConsumer, ConnectAgain, SignalTooEarly, Signal, CloseApp,
           DestroyProducerOf, DestroyConsumerOf, DestroyProducer, Exit, KillTimer,
           StartupTimer, Crash, Restart
  <1>. QED
    BY <1>1, <1>2, <1>3, <1>4, <1>5

-----------------------------------------------------------------------------
(* Theorems.                                                                *)

\* IInv is inductive and so holds of every reachable state.
THEOREM Invariant == Spec => []IInv
  <1>1. Init => IInv
    BY InitInv
  <1>2. IInv /\ [Next]_vars => IInv'
    BY TypeStep, TopicStep, ProcessInvStep, WorkStep DEF IInv
  <1>. QED
    BY <1>1, <1>2, PTL DEF Spec

\* As long as there was no signal, every operator's event a handler has is sent: init()
\* of a handler and a crash of the process in between change nothing of that.
THEOREM DropsAreStops == Spec => DroppedOnlyByStop
  <1>1. ASSUME IInv, [Next]_vars,
               NEW o \in outcomes', o \notin outcomes, o.end = "dropped"
        PROVE  halt # "none"
    <2>. USE DEF IInv
    <2>1. PICK h \in Handlers : Handle(h)
      BY <1>1, ProcessStep DEF Die, topics, Publish
    <2>2. OperatorEvent(h) /\ ~producer
      BY <1>1, <2>1
      DEF Handle, Fetch, Tell, OperatorEvent, End, Return, Commit, topics
    <2>3. boot # "connect"
      BY <1>1, <2>2 DEF WorkInv, OperatorEvent
    <2>. QED
      BY <1>1, <2>2, <2>3 DEF ProcessInv
  <1>2. IInv /\ [Next]_vars =>
            [\A o \in outcomes' :
                (o \notin outcomes /\ o.end = "dropped") => halt # "none"]_vars
    BY <1>1
  <1>. QED
    BY <1>2, Invariant, PTL DEF Spec, DroppedOnlyByStop

\* Whatever a step does, to the topic of one handler it does what EventSettlement allows,
\* or nothing.
LEMMA SettlementStep ==
    ASSUME IInv, [Next]_vars, NEW h \in Handlers
    PROVE  \/ /\ published'[h] = published[h] + 1
              /\ UNCHANGED <<Noticed(h), settled[h], committed[h]>>
           \/ /\ Noticed(h)' = Noticed(h) \cup {committed[h] + 1}
              /\ committed[h] < published[h]
              /\ UNCHANGED <<published[h], settled[h], committed[h]>>
           \/ /\ settled'[h] = settled[h] + 1
              /\ settled[h] < published[h] /\ settled[h] = committed[h]
              /\ UNCHANGED <<published[h], Noticed(h), committed[h]>>
           \/ /\ committed'[h] = committed[h] + 1
              /\ settled[h] = committed[h] + 1
              /\ UNCHANGED <<published[h], Noticed(h), settled[h]>>
           \/ UNCHANGED <<published[h], Noticed(h), settled[h], committed[h]>>
  <1>. USE DEF IInv
  <1>1. /\ published[h] \in Nat /\ committed[h] \in Nat /\ settled[h] \in Nat
        /\ committed[h] <= settled[h] /\ settled[h] <= committed[h] + 1
        /\ settled[h] <= published[h]
    BY DEF TypeOK, TopicInv
  <1>2. CASE UNCHANGED <<published, committed, settled, outcomes>>
    BY <1>2 DEF Noticed
  <1>3. ASSUME NEW g \in Handlers, Publish(g)
        PROVE  /\ published'[h] = published[h] + 1 \/ UNCHANGED published[h]
               /\ UNCHANGED <<Noticed(h), settled[h], committed[h]>>
    BY <1>3 DEF Publish, Noticed, TypeOK
  <1>4. ASSUME NEW g \in Handlers, NEW how \in Ends, phase[g] = "working", End(g, how)
        PROVE  /\ Noticed(h)' = IF g = h THEN Noticed(h) \cup {committed[h] + 1}
                                         ELSE Noticed(h)
               /\ committed[g] < published[g]
               /\ UNCHANGED <<published, settled, committed>>
    <2>1. /\ committed[g] < published[g]
          /\ UNCHANGED <<published, settled, committed>>
      BY <1>4 DEF End, TopicInv
    <2>. DEFINE r == [handler |-> g, event |-> committed[g] + 1, end |-> how]
    <2>2. outcomes' = outcomes \cup {r}
      BY <1>4 DEF End, current
    <2>3. r.handler = g /\ r.event = committed[g] + 1
      OBVIOUS
    <2>. HIDE DEF r
    <2>4. \A n : n \in Noticed(h)' <=> \E o \in outcomes \cup {r} : o.handler = h /\ o.event = n
      BY <2>2 DEF Noticed
    <2>5. \A n : n \in Noticed(h) <=> \E o \in outcomes : o.handler = h /\ o.event = n
      BY DEF Noticed
    <2>6. CASE g = h
      <3>1. \A n : n \in Noticed(h)' <=> n \in Noticed(h) \/ n = committed[h] + 1
        BY <2>3, <2>4, <2>5, <2>6
      <3>. QED
        BY <2>1, <2>6, <3>1
    <2>7. CASE g # h
      <3>1. \A n : n \in Noticed(h)' <=> n \in Noticed(h)
        BY <2>3, <2>4, <2>5, <2>7
      <3>. QED
        BY <2>1, <2>7, <3>1
    <2>. QED
      BY <2>1, <2>6, <2>7
  <1>5. ASSUME NEW g \in Handlers, Return(g)
        PROVE  /\ settled'[h] = settled[h] \/ settled'[h] = committed[h] + 1
               /\ settled'[h] # settled[h] =>
                      settled[h] < committed[h] + 1 /\ committed[h] < published[h]
               /\ UNCHANGED <<published, Noticed(h), committed>>
    BY <1>5 DEF Return, current, Noticed, TypeOK, TopicInv
  <1>6. ASSUME NEW g \in Handlers, Commit(g)
        PROVE  /\ \/ committed'[h] = committed[h]
                  \/ committed'[h] = committed[h] + 1 /\ settled[h] = committed[h] + 1
               /\ UNCHANGED <<published, Noticed(h), settled>>
    BY <1>6 DEF Commit, Noticed, TypeOK, TopicInv
  <1>7. CASE Die
    BY <1>7 DEF Die, topics, Noticed
  <1>8. ASSUME NEW g \in Handlers, Fetch(g)
         PROVE  UNCHANGED <<published, Noticed(h), settled, committed>>
    BY <1>8 DEF Fetch, topics, Noticed
  <1>9. ASSUME NEW g \in Handlers, Handle(g)
         PROVE  \/ Fetch(g)
                \/ \E how \in Ends : phase[g] = "working" /\ End(g, how)
                \/ Return(g)
                \/ Commit(g)
    BY <1>9, HandleStep
  <1>. QED
    BY <1>1, <1>2, <1>3, <1>4, <1>5, <1>6, <1>7, <1>8, <1>9, ProcessStep

\* Both the handler that is destroyed first and the one destroyed last implement the
\* abstract specification of event settlement.
THEOREM Implementation == Spec => ImplementsSettlement
  <1>. USE OrderType
  <1>1. Init => FirstSettlement!Init /\ LastSettlement!Init
    BY DEF Init, FirstSettlement!Init, LastSettlement!Init, Noticed, All
  <1>2. IInv => \A h \in Handlers :
                   published[h] \in Nat /\ committed[h] \in Nat /\ settled[h] \in Nat
                   /\ committed[h] <= settled[h] /\ settled[h] <= committed[h] + 1
    BY DEF IInv, TypeOK, TopicInv
  <1>3. IInv /\ [Next]_vars => [FirstSettlement!Next]_FirstSettlement!vars
    <2>. SUFFICES ASSUME IInv, [Next]_vars
                  PROVE  [FirstSettlement!Next]_FirstSettlement!vars
      OBVIOUS
    <2>. USE <1>2, SettlementStep
    <2>. QED
      BY DEF FirstSettlement!Next, FirstSettlement!vars, FirstSettlement!Publish,
             FirstSettlement!Notice, FirstSettlement!Settle, FirstSettlement!Commit
  <1>4. IInv /\ [Next]_vars => [LastSettlement!Next]_LastSettlement!vars
    <2>. SUFFICES ASSUME IInv, [Next]_vars
                  PROVE  [LastSettlement!Next]_LastSettlement!vars
      OBVIOUS
    <2>. USE <1>2, SettlementStep
    <2>. QED
      BY DEF LastSettlement!Next, LastSettlement!vars, LastSettlement!Publish,
             LastSettlement!Notice, LastSettlement!Settle, LastSettlement!Commit
  <1>. QED
    BY <1>1, <1>3, <1>4, Invariant, PTL
    DEF Spec, ImplementsSettlement, FirstSettlement!Spec, LastSettlement!Spec

AnySettlement == INSTANCE EventSettlement
    WITH Batch <- 1, published <- published[Answering], noticed <- Noticed(Answering),
         settled <- settled[Answering], committed <- committed[Answering]

\* So does every other: Spec says nothing of Answering but that it is one of the handlers
\* (only FairSpec does), so what holds of it holds of each of them.
THEOREM EveryHandlerSettles == Spec => AnySettlement!Spec
  <1>1. Answering \in Handlers
    BY ServiceAssumption
  <1>2. Init => AnySettlement!Init
    BY <1>1 DEF Init, AnySettlement!Init, Noticed, All
  <1>3. IInv => /\ published[Answering] \in Nat
                /\ committed[Answering] \in Nat /\ settled[Answering] \in Nat
                /\ committed[Answering] <= settled[Answering]
                /\ settled[Answering] <= committed[Answering] + 1
    BY <1>1 DEF IInv, TypeOK, TopicInv
  <1>4. IInv /\ [Next]_vars => [AnySettlement!Next]_AnySettlement!vars
    BY <1>1, <1>3, SettlementStep
    DEF AnySettlement!Next, AnySettlement!vars, AnySettlement!Publish,
        AnySettlement!Notice, AnySettlement!Settle, AnySettlement!Commit
  <1>. QED
    BY <1>2, <1>4, Invariant, PTL DEF Spec, AnySettlement!Spec
=============================================================================
