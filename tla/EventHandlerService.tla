------------------------ MODULE EventHandlerService ------------------------
(***************************************************************************)
(* The process of the FSPIOP event handler service: start(), stop(), the   *)
(* signal handler and its timer, the startup timer, and the three event    *)
(* handlers, which run at the same time, each with a Kafka consumer of its *)
(* own, and share one Kafka producer for the operator's events.            *)
(*                                                                         *)
(* What a handler does with one event, which EventHandler has in full, is  *)
(* here only how it ends: an FSP is told, or the operator's event is sent, *)
(* or there is no producer to send it.  Events come one at a time; those a *)
(* handler ignores are left out.                                           *)
(*                                                                         *)
(* start() and stop() interleave: a signal does not interrupt start(), and *)
(* init() of a handler connects the shared producer again.                 *)
(*                                                                         *)
(* Operators marked "Variant" are mistakes the code does not make.         *)
(***************************************************************************)
EXTENDS Naturals, Sequences

CONSTANTS Order,       \* the handlers, in the order in which stop() destroys them
          Answering,   \* the one handler whose FSPs are sure to answer
          MaxEvents,   \* bound on the events published to a topic
          MaxRestarts  \* bound on the number of times the process is started again

Handlers == {Order[k] : k \in DOMAIN Order}

ASSUME ServiceAssumption ==
    /\ Order \in Seq(STRING) /\ Order # <<>>
    /\ Answering \in Handlers
    /\ MaxEvents \in Nat
    /\ MaxRestarts \in Nat

\* What the code has for Order.
AllHandlers == <<"AccountLookUp", "Quotes", "Transfers">>

VARIABLES
    up,        \* is there a process?
    boot,      \* what start() will do next
    init,      \* what init() of each handler will do next
    halt,      \* what stop() will do next; "none": there was no signal
    left,      \* the handlers stop() has still to destroy
    producer,  \* is the shared producer connected?
    restarts,
    consumer,  \* each handler's Kafka consumer
    phase,     \* what each handler does with the event after its committed ones
    published, \* how many events each topic has
    committed, \* the offset of each consumer group
    settled,   \* the events processMessage has returned for, in any life
    outcomes   \* how the processing of each event has ended, in any life

starting == <<boot, init>>
stopping == <<halt, left>>
process == <<up, starting, stopping, producer, restarts, consumer>>
topics == <<published, committed, settled, outcomes>>
vars == <<process, phase, topics>>

Boots == {"connect", "init", "listen", "done"}
Inits == {"none", "consumer", "producer", "done"}
Halts == {"none", "app", "producerOf", "consumerOf", "producer", "exit"}
Consumers == {"off", "on", "destroyed"}
Phases == {"idle", "working", "returning", "commit"}

\* "told": an FSP has been told; "sent": the operator's event was sent to Kafka, which
\* may have taken it or not; "dropped": it could not be sent.
Ends == {"told", "sent", "dropped"}

Outcome == [handler : Handlers, event : Nat, end : Ends]

TypeOK ==
    /\ up \in BOOLEAN
    /\ boot \in Boots
    /\ init \in [Handlers -> Inits]
    /\ halt \in Halts
    /\ left \in Seq(Handlers)
    /\ producer \in BOOLEAN
    /\ restarts \in Nat
    /\ consumer \in [Handlers -> Consumers]
    /\ phase \in [Handlers -> Phases]
    /\ published \in [Handlers -> Nat]
    /\ committed \in [Handlers -> Nat]
    /\ settled \in [Handlers -> Nat]
    /\ outcomes \subseteq Outcome

All(value) == [h \in Handlers |-> value]

Init ==
    /\ up = TRUE
    /\ boot = "connect"
    /\ init = All("none")
    /\ halt = "none"
    /\ left = <<>>
    /\ producer = FALSE
    /\ restarts = 0
    /\ consumer = All("off")
    /\ phase = All("idle")
    /\ published = All(0)
    /\ committed = All(0)
    /\ settled = All(0)
    /\ outcomes = {}

-----------------------------------------------------------------------------
(* start().  What comes before the producer is connected can only fail,    *)
(* which is Crash or StartupTimer.                                         *)

\* Variant: the handlers are set up while the producer connects.
ConnectLater ==
    /\ up /\ boot = "connect"
    /\ boot' = "init"
    /\ init' = All("consumer")
    /\ UNCHANGED <<up, stopping, producer, restarts, consumer, phase, topics>>

\* "await this.producer.connect()"; setupEventHandlers() then constructs the three
\* handlers and calls init() on each without waiting.
Connect ==
    /\ up /\ boot = "connect"
    /\ producer' = TRUE
    /\ boot' = "init"
    /\ init' = All("consumer")
    /\ UNCHANGED <<up, stopping, restarts, consumer, phase, topics>>

\* startAndWaitForRebalance(): from here on the handler gets events.  A consumer that
\* was destroyed while it was connecting may come up nevertheless.
StartConsumer(h) ==
    /\ up /\ init[h] = "consumer"
    /\ consumer' = [consumer EXCEPT ![h] = "on"]
    /\ init' = [init EXCEPT ![h] = "producer"]
    /\ UNCHANGED <<up, boot, stopping, producer, restarts, phase, topics>>

\* "await this._kafkaProducer.connect()" in init(): the shared producer, once more.
ConnectAgain(h) ==
    /\ up /\ init[h] = "producer"
    /\ producer' = TRUE
    /\ init' = [init EXCEPT ![h] = "done"]
    /\ UNCHANGED <<up, boot, stopping, restarts, consumer, phase, topics>>

\* Promise.all is done: setupFastify() creates the app.
CreateApp ==
    /\ up /\ boot = "init"
    /\ \A h \in Handlers : init[h] = "done"
    /\ boot' = "listen"
    /\ UNCHANGED <<up, init, stopping, producer, restarts, consumer, phase, topics>>

\* listen() calls back and the startup timer is cleared.
Started ==
    /\ up /\ boot = "listen"
    /\ boot' = "done"
    /\ UNCHANGED <<up, init, stopping, producer, restarts, consumer, phase, topics>>

-----------------------------------------------------------------------------
(* The handlers.                                                           *)

Publish(h) ==
    /\ published[h] < MaxEvents
    /\ published' = [published EXCEPT ![h] = @ + 1]
    /\ UNCHANGED <<process, phase, committed, settled, outcomes>>

current(h) == committed[h] + 1

Goto(h, next) == phase' = [phase EXCEPT ![h] = next]

End(h, how) ==
    /\ Goto(h, "returning")
    /\ outcomes' = outcomes \cup {[handler |-> h, event |-> current(h), end |-> how]}
    /\ UNCHANGED <<process, published, committed, settled>>

\* Variant: one handler at a time has the process to itself.
FetchAlone(h) ==
    /\ up /\ consumer[h] = "on"
    /\ \A g \in Handlers : phase[g] = "idle"
    /\ committed[h] < published[h]
    /\ Goto(h, "working")
    /\ UNCHANGED <<process, topics>>

Fetch(h) ==
    /\ up /\ consumer[h] = "on"
    /\ phase[h] = "idle"
    /\ committed[h] < published[h]
    /\ Goto(h, "working")
    /\ UNCHANGED <<process, topics>>

\* The callback or the error feedback gets through.
Tell(h) ==
    /\ up /\ phase[h] = "working"
    /\ End(h, "told")

\* Nobody can be told: the operator's event is sent if the producer is connected;
\* otherwise send() throws and the error is logged.
OperatorEvent(h) ==
    /\ up /\ phase[h] = "working"
    /\ End(h, IF producer THEN "sent" ELSE "dropped")

\* processMessage and the batch callback return.
Return(h) ==
    /\ up /\ phase[h] = "returning"
    /\ settled' = [settled EXCEPT ![h] = IF @ < current(h) THEN current(h) ELSE @]
    /\ Goto(h, "commit")
    /\ UNCHANGED <<process, published, committed, outcomes>>

\* Variant: the offset is committed as soon as the event has been handed over.
CommitEarly(h) ==
    /\ up /\ phase[h] # "idle" /\ consumer[h] = "on"
    /\ committed' = [committed EXCEPT ![h] = @ + 1]
    /\ Goto(h, "idle")
    /\ UNCHANGED <<process, published, settled, outcomes>>

\* A consumer that has been destroyed commits nothing any more.
Commit(h) ==
    /\ up /\ phase[h] = "commit" /\ consumer[h] = "on"
    /\ committed' = [committed EXCEPT ![h] = @ + 1]
    /\ Goto(h, "idle")
    /\ UNCHANGED <<process, published, settled, outcomes>>

-----------------------------------------------------------------------------
(* The end of the process.                                                 *)

\* Everything in memory is gone.
Die ==
    /\ up' = FALSE
    /\ boot' = "connect"
    /\ init' = All("none")
    /\ halt' = "none"
    /\ left' = <<>>
    /\ producer' = FALSE
    /\ consumer' = All("off")
    /\ phase' = All("idle")
    /\ UNCHANGED <<restarts, topics>>

\* stop() before there are handlers: "accountEvtHandler" is undefined, the signal
\* handler's promise is rejected and the process ends with that.
SignalTooEarly ==
    /\ up /\ halt = "none" /\ boot = "connect"
    /\ Die

\* SIGINT, SIGTERM: stop() closes the app first, if there is one.
Signal ==
    /\ up /\ halt = "none" /\ boot # "connect"
    /\ halt' = IF boot \in {"listen", "done"} THEN "app" ELSE "producerOf"
    /\ left' = Order
    /\ UNCHANGED <<up, starting, producer, restarts, consumer, phase, topics>>

CloseApp ==
    /\ up /\ halt = "app"
    /\ halt' = "producerOf"
    /\ UNCHANGED <<up, starting, left, producer, restarts, consumer, phase, topics>>

\* destroy() of a handler destroys the producer, which is everybody's ...
DestroyProducerOf ==
    /\ up /\ halt = "producerOf"
    /\ producer' = FALSE
    /\ halt' = "consumerOf"
    /\ UNCHANGED <<up, starting, left, restarts, consumer, phase, topics>>

\* ... and then its consumer, without waiting for the event in hand.
DestroyConsumerOf ==
    /\ up /\ halt = "consumerOf"
    /\ consumer' = [consumer EXCEPT ![Head(left)] = "destroyed"]
    /\ left' = Tail(left)
    /\ halt' = IF Len(left) = 1 THEN "producer" ELSE "producerOf"
    /\ UNCHANGED <<up, starting, producer, restarts, phase, topics>>

\* The producer once more, and the audit client.
DestroyProducer ==
    /\ up /\ halt = "producer"
    /\ producer' = FALSE
    /\ halt' = "exit"
    /\ UNCHANGED <<up, starting, left, restarts, consumer, phase, topics>>

Exit ==
    /\ up /\ halt = "exit"
    /\ Die

\* Variant: the timer is set after stop().
KillTimerLate ==
    /\ up /\ halt = "exit"
    /\ Die

\* Five seconds after the signal: exit code 99.
KillTimer ==
    /\ up /\ halt # "none"
    /\ Die

\* Variant: the timer is cleared when the producer is connected.
StartupTimerCleared ==
    /\ up /\ boot = "connect"
    /\ Die

\* "Service start timed-out" is thrown in a timer: an uncaught exception.
StartupTimer ==
    /\ up /\ boot # "done"
    /\ Die

\* An uncaught exception, a rejected promise (init() that throws), a kill.
Crash ==
    /\ up
    /\ Die

Restart ==
    /\ ~up /\ restarts < MaxRestarts
    /\ up' = TRUE
    /\ restarts' = restarts + 1
    /\ UNCHANGED <<starting, stopping, producer, consumer, phase, topics>>

-----------------------------------------------------------------------------
Boot(h) == StartConsumer(h) \/ ConnectAgain(h)

Handle(h) ==
    \/ Fetch(h)
    \/ Tell(h)
    \/ OperatorEvent(h)
    \/ Return(h)
    \/ Commit(h)

Stop ==
    \/ SignalTooEarly
    \/ Signal
    \/ CloseApp
    \/ DestroyProducerOf
    \/ DestroyConsumerOf
    \/ DestroyProducer
    \/ Exit
    \/ KillTimer

Next ==
    \/ Connect
    \/ CreateApp
    \/ Started
    \/ \E h \in Handlers : Boot(h) \/ Publish(h) \/ Handle(h)
    \/ Stop
    \/ StartupTimer
    \/ Crash
    \/ Restart

Spec == Init /\ [][Next]_vars

\* Timers fire.  Of the handlers only one is taken to go on: the FSPs that the others
\* call may never answer.  Of start() and stop() nothing is assumed: each of their steps
\* may wait for ever.
FairSpec ==
    /\ Spec
    /\ WF_vars(KillTimer)
    /\ WF_vars(StartupTimer)
    /\ WF_vars(Handle(Answering))

-----------------------------------------------------------------------------
(* What the service promises.                                              *)

Noticed(h) == {o.event : o \in {p \in outcomes : p.handler = h}}

\* The handlers stop() destroys first and last.
First == Head(Order)
Last == Order[Len(Order)]

FirstSettlement == INSTANCE EventSettlement
    WITH Batch <- 1, published <- published[First], noticed <- Noticed(First),
         settled <- settled[First], committed <- committed[First]

LastSettlement == INSTANCE EventSettlement
    WITH Batch <- 1, published <- published[Last], noticed <- Noticed(Last),
         settled <- settled[Last], committed <- committed[Last]

\* A handler keeps its promise about its topic (EventSettlement) whatever the others,
\* start() and stop() do: a stop in the middle of an event, with a consumer that does
\* not wait for it, repeats the event in the next life and loses none.
ImplementsSettlement == FirstSettlement!Spec /\ LastSettlement!Spec

\* "make sure we only return from the processMessage/handler after completing the
\* request, otherwise this will commit the event and will be lost" (processMessage): no
\* failure is lost to the operator for want of a producer unless stop() is under way.
\* stop() itself does lose them: it destroys the producer before most of the consumers.
DroppedOnlyByStop ==
    [][\A o \in outcomes' : (o \notin outcomes /\ o.end = "dropped") => halt # "none"]_vars

\* A process that is told to stop does, wherever start() and stop() hang.
StopEnds == (halt # "none") ~> ~up

\* A process that is started is ready in the end, or has ended: the startup timer is
\* cleared when everything is there and not before.
StartEnds == up ~> (boot = "done" \/ ~up)

\* FSPs that never answer one handler do not hold up another: in a process that is
\* neither stopped nor crashes, every event of a handler whose FSPs answer is committed.
AnsweringGoOn ==
    \A n \in 1 .. MaxEvents :
        (up /\ published[Answering] >= n) ~>
            (committed[Answering] >= n \/ halt # "none" \/ ~up)

-----------------------------------------------------------------------------
(* The inductive invariant.                                                *)

\* An event that has been returned for is settled and its end is known; one is settled
\* beyond the committed ones at most.
TopicInv ==
    \A h \in Handlers :
        /\ committed[h] <= settled[h]
        /\ settled[h] <= committed[h] + 1
        /\ settled[h] <= published[h]
        /\ phase[h] # "idle" => committed[h] < published[h]
        /\ phase[h] = "commit" => settled[h] = committed[h] + 1

\* Nothing is connected before start() has connected it, nor after the process is gone,
\* and stop() is under way only when it has something left to do.
ProcessInv ==
    /\ ~up => boot = "connect" /\ halt = "none"
    /\ boot = "connect" =>
           /\ init = All("none")
           /\ consumer = All("off")
           /\ halt = "none"
    /\ halt = "none" /\ boot # "connect" => producer
    /\ halt \in {"app", "producerOf", "consumerOf"} => Len(left) > 0

\* A handler is at work only in a process that has got to the handlers.
WorkInv == \A h \in Handlers : phase[h] # "idle" => boot # "connect"

IInv == TypeOK /\ TopicInv /\ ProcessInv /\ WorkInv
=============================================================================
