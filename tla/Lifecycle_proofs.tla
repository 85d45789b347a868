-------------------------- MODULE Lifecycle_proofs --------------------------
(***************************************************************************)
(* The safety invariants of module Lifecycle, for any sets of requests and *)
(* of stop commands.                                                       *)
(***************************************************************************)
EXTENDS Lifecycle, TLAPS

\* Where Serve is once Shutdown has been called.
AfterShutdown == (Stopping \ {"shuttingDown"}) \cup Leaving \cup {"ended"}
\* ... and once it has returned.
AfterDrain == AfterShutdown \ {"draining"}

\* The listener's goroutine is started by a server that has loaded its cache,
\* and what a handler is at work on came through the listener.
LoadedFirst ==
  /\ main \in {"opening", "serving", "shuttingDown"} \cup AfterShutdown => loaded
  /\ main \in Starting \ {"opening"} => ~loaded
  /\ listener # "down" => loaded
  /\ NothingHandledBeforeLoad

\* Without TLS no request comes after Shutdown was called.
DrainedUnlessTimedOut ==
  ~tls => /\ main \in AfterShutdown => listener = "closed"
          /\ main \in AfterDrain /\ ~drainTimedOut => InHand = {} /\ StopsInHand = {}

\* The pruner's goroutine exists only where pruning is enabled, once it was started.
PrunerFollowsSetting ==
  /\ ~pruning \/ main \in Early \cup {"startingPruner"} => pruner = "off"
  /\ PrunerIsQuiet

\* The pulls owed are in progress, and none is left when WaitPulls returns.
OwedArePulling == owed \subseteq Pulling /\ OwedPullsFinish

\* Who waits for a pull is parked, and waits for no other.
ParkedWait ==
  \A p \in Clients : \A c \in parked[p] :
    request[c] = "parked" /\ \A q \in Clients : c \in parked[q] => q = p

\* The inductive invariant.
LifeInv ==
  /\ LifeTypeOK
  /\ LoadedFirst
  /\ DrainedUnlessTimedOut
  /\ PrunerFollowsSetting
  /\ OwedArePulling
  /\ ParkedWait
-----------------------------------------------------------------------------
\* The initial states satisfy the inductive invariant.
LEMMA LifeInitInv == LifeInit => LifeInv
BY DEF LifeInit, LifeInv, LifeTypeOK, LoadedFirst, DrainedUnlessTimedOut, PrunerFollowsSetting,
  PrunerIsQuiet, OwedArePulling, OwedPullsFinish, ParkedWait, NothingHandledBeforeLoad, InHand, StopsInHand,
  Pulling, AfterDrain, AfterShutdown, Starting, Early, Stopping, Leaving, Final

\* A call enters one list, when it parks, and leaves it when it is signaled or gives up.
LEMMA ParkedStep ==
  ASSUME LifeTypeOK, ParkedWait, [LifeNext]_lifeVars
  PROVE  ParkedWait'
<1> USE DEF LifeTypeOK, RequestGoes, RequestsGo, queue
<1>1. CASE UNCHANGED <<request, parked>>
  BY <1>1 DEF ParkedWait
<1>2. ASSUME NEW c \in Clients,
             Arrives(c) \/ BeginsPull(c) \/ Answers(c) \/ AsksAgain(c)
      PROVE  ParkedWait'
  BY <1>2 DEF Arrives, BeginsPull, Answers, AsksAgain, ParkedWait
<1>3. ASSUME NEW p \in Clients, EndsPull(p) PROVE ParkedWait'
  BY <1>3 DEF EndsPull, ParkedWait
<1>4. ASSUME NEW p \in Clients, Jams(p) PROVE ParkedWait'
  BY <1>4 DEF Jams, ParkedWait
<1>5. ASSUME NEW c \in Clients, NEW p \in Clients, Parks(c, p) PROVE ParkedWait'
  BY <1>5 DEF Parks, ParkedWait
<1>6. ASSUME NEW c \in Clients, NEW p \in Clients, GivesUp(c, p) PROVE ParkedWait'
  BY <1>6 DEF GivesUp, ParkedWait
<1>7. MainStep => UNCHANGED <<request, parked>>
  BY DEF MainStep, Preloads, Authorizes, StartsPruner, LoadsCache, Serves, StopsOnSignal,
     StopsOnCommand, Shutdown, Drained, DrainTimesOut, StopsPruner, PrunerStopped,
     ChecksPulls, PullsAreOver, Ends
<1>8. \/ ListenerOpens \/ StartFails \/ Interrupt \/ PassBegins \/ PassEnds
      \/ \E s \in Stoppers : StopArrives(s)
      => UNCHANGED <<request, parked>>
  BY DEF ListenerOpens, StartFails, Interrupt, PassBegins, PassEnds, PrunerGoes, StopArrives
<1>9. UNCHANGED lifeVars => UNCHANGED <<request, parked>>
  BY DEF lifeVars
<1> QED
  BY <1>1, <1>2, <1>3, <1>4, <1>5, <1>6, <1>7, <1>8, <1>9 DEF LifeNext, Environment

\* Every step of Serve, of a handler and of the pruner keeps the inductive invariant.
LEMMA LifeStepInv == LifeInv /\ [LifeNext]_lifeVars => LifeInv'
<1> SUFFICES ASSUME LifeInv, [LifeNext]_lifeVars PROVE LifeInv'
  OBVIOUS
<1>0. ParkedWait'
  BY ParkedStep DEF LifeInv
<1> USE DEF LifeInv, LifeTypeOK, LoadedFirst, DrainedUnlessTimedOut, PrunerFollowsSetting,
  PrunerIsQuiet, OwedArePulling, OwedPullsFinish, NothingHandledBeforeLoad, InHand, StopsInHand,
  Pulling, AfterDrain, AfterShutdown, Starting, Early, Stopping, Leaving, Final, Alive,
  MainGoes, RequestGoes, RequestsGo, PrunerGoes, settings, queue
<1>1. CASE Preloads
  BY <1>0, <1>1 DEF Preloads
<1>2. CASE Authorizes
  BY <1>0, <1>2 DEF Authorizes
<1>3. CASE StartsPruner
  BY <1>0, <1>3 DEF StartsPruner
<1>4. CASE LoadsCache
  BY <1>0, <1>4 DEF LoadsCache
<1>5. CASE ListenerOpens
  BY <1>0, <1>5 DEF ListenerOpens
<1>6. CASE Serves
  BY <1>0, <1>6 DEF Serves
<1>7. CASE StartFails
  BY <1>0, <1>7 DEF StartFails
<1>8. CASE Interrupt
  <2>1. CASE main \in Early
    BY <1>0, <1>8, <2>1 DEF Interrupt
  <2>2. CASE main \notin Early
    BY <1>0, <1>8, <2>2 DEF Interrupt
  <2> QED
    BY <2>1, <2>2
<1>9. CASE StopsOnSignal
  BY <1>0, <1>9 DEF StopsOnSignal
<1>10. CASE Shutdown
  BY <1>0, <1>10 DEF Shutdown
<1>11. CASE Drained
  BY <1>0, <1>11 DEF Drained
<1>12. CASE DrainTimesOut
  BY <1>0, <1>12 DEF DrainTimesOut
<1>13. CASE StopsPruner
  BY <1>0, <1>13 DEF StopsPruner
<1>14. CASE PrunerStopped
  BY <1>0, <1>14 DEF PrunerStopped
<1>15. CASE ChecksPulls
  BY <1>0, <1>15 DEF ChecksPulls
<1>16. CASE PullsAreOver
  BY <1>0, <1>16 DEF PullsAreOver
<1>17. CASE Ends
  BY <1>0, <1>17 DEF Ends
<1>18. CASE PassBegins
  BY <1>0, <1>18 DEF PassBegins
<1>19. CASE PassEnds
  BY <1>0, <1>19 DEF PassEnds
<1>20. ASSUME NEW s \in Stoppers, StopsOnCommand(s) PROVE LifeInv'
  BY <1>0, <1>20 DEF StopsOnCommand
<1>21. ASSUME NEW s \in Stoppers, StopArrives(s) PROVE LifeInv'
  BY <1>0, <1>21 DEF StopArrives
<1>22. ASSUME NEW c \in Clients, Arrives(c) PROVE LifeInv'
  BY <1>0, <1>22 DEF Arrives
<1>23. ASSUME NEW c \in Clients, BeginsPull(c) PROVE LifeInv'
  BY <1>0, <1>23 DEF BeginsPull
<1>24. ASSUME NEW c \in Clients, EndsPull(c) PROVE LifeInv'
  BY <1>0, <1>24 DEF EndsPull, ParkedWait
<1>25. ASSUME NEW c \in Clients, Answers(c) PROVE LifeInv'
  BY <1>0, <1>25 DEF Answers
<1>26. ASSUME NEW c \in Clients, AsksAgain(c) PROVE LifeInv'
  BY <1>0, <1>26 DEF AsksAgain
<1>27. ASSUME NEW c \in Clients, Jams(c) PROVE LifeInv'
  BY <1>0, <1>27 DEF Jams, ParkedWait
<1>28. ASSUME NEW c \in Clients, NEW p \in Clients, Parks(c, p) PROVE LifeInv'
  BY <1>0, <1>28 DEF Parks
<1>29. ASSUME NEW c \in Clients, NEW p \in Clients, GivesUp(c, p) PROVE LifeInv'
  BY <1>0, <1>29 DEF GivesUp
<1>30. CASE UNCHANGED lifeVars
  BY <1>0, <1>30 DEF lifeVars
<1> QED
  BY <1>1, <1>2, <1>3, <1>4, <1>5, <1>6, <1>7, <1>8, <1>9, <1>10, <1>11,
     <1>12, <1>13, <1>14, <1>15, <1>16, <1>17, <1>18, <1>19, <1>20, <1>21,
     <1>22, <1>23, <1>24, <1>25, <1>26, <1>27, <1>28, <1>29, <1>30
     DEF LifeNext, MainStep, Environment

\* The inductive invariant holds in every reachable state.
THEOREM LifeAlwaysInv == LifeSpec => []LifeInv
BY LifeInitInv, LifeStepInv, PTL DEF LifeSpec

\* Type correctness.
THEOREM LifeAlwaysTyped == LifeSpec => []LifeTypeOK
<1>1. LifeInv => LifeTypeOK
  BY DEF LifeInv
<1> QED
  BY <1>1, LifeAlwaysInv, PTL

\* No handler is at work on a cache that has not been loaded.
THEOREM NothingIsHandledBeforeLoad == LifeSpec => []NothingHandledBeforeLoad
<1>1. LifeInv => NothingHandledBeforeLoad
  BY DEF LifeInv, LoadedFirst
<1> QED
  BY <1>1, LifeAlwaysInv, PTL

\* A server without TLS that was not hurried answers every request before it ends.
THEOREM CleanStopsAnswerAll == LifeSpec => []CleanStopAnswersAll
<1>1. LifeInv => CleanStopAnswersAll
  BY DEF LifeInv, DrainedUnlessTimedOut, CleanStopAnswersAll, AfterDrain, AfterShutdown,
    Stopping, Leaving
<1> QED
  BY <1>1, LifeAlwaysInv, PTL

\* No pass of the pruner is under way when the process ends.
THEOREM PrunerIsAlwaysQuiet == LifeSpec => []PrunerIsQuiet
<1>1. LifeInv => PrunerIsQuiet
  BY DEF LifeInv, PrunerFollowsSetting
<1> QED
  BY <1>1, LifeAlwaysInv, PTL

-----------------------------------------------------------------------------
(* Serve keeps the promises of GracefulStop.                               *)

\* The process is alive exactly as long as it is seen to run.
LEMMA SeenAlive ==
  ASSUME LifeInv
  PROVE  Alive <=> Promised!Running
BY DEF LifeInv, LifeTypeOK, Alive, Promised!Running, Phase, Starting, Early, Stopping, Leaving, Final

\* What the steps of Serve itself are to those who only see the server.
LEMMA ServeStepIsSeen ==
  ASSUME LifeInv, MainStep
  PROVE  [Promised!StopNext]_(Promised!stopVars)
<1> USE DEF LifeInv, LifeTypeOK, Phase, MainGoes, settings, InHand, StopsInHand, Starting, Early,
     Stopping, Leaving, Final, Promised!stopVars, Promised!PhaseGoes
<1>1. CASE Preloads
  BY <1>1 DEF Preloads
<1>12. CASE Authorizes
  BY <1>12 DEF Authorizes
<1>13. CASE StartsPruner
  BY <1>13 DEF StartsPruner, PrunerFollowsSetting
<1>2. CASE LoadsCache
  <2>1. Promised!Loads
    BY <1>2 DEF LoadsCache, Promised!Loads
  <2> QED BY <2>1 DEF Promised!StopNext
<1>3. CASE Serves
  <2>1. Promised!Opens
    BY <1>3 DEF Serves, Promised!Opens
  <2> QED BY <2>1 DEF Promised!StopNext
<1>4. CASE StopsOnSignal \/ Drained \/ StopsPruner \/ PrunerStopped \/ PullsAreOver
  BY <1>4 DEF StopsOnSignal, Drained, StopsPruner, PrunerStopped, PullsAreOver
<1>5. ASSUME NEW s \in Stoppers, StopsOnCommand(s) PROVE Promised!Finishes(s)
  BY <1>5, LifeAssumption DEF StopsOnCommand, Promised!Finishes, Promised!Running, OwedArePulling, Pulling
<1>6. CASE Shutdown
  <2>1. Promised!Closes
    BY <1>6 DEF Shutdown, Promised!Closes
  <2> QED BY <2>1 DEF Promised!StopNext
<1>7. CASE DrainTimesOut
  <2>1. \/ Promised!LosesPatience
        \/ UNCHANGED Promised!stopVars
    BY <1>7 DEF DrainTimesOut, Promised!LosesPatience
  <2> QED BY <2>1 DEF Promised!StopNext
<1>8. CASE ChecksPulls /\ Pulling # {}
  <2>1. Promised!Leaves
    BY <1>8 DEF ChecksPulls, Promised!Leaves, Pulling, DrainedUnlessTimedOut, AfterDrain,
         AfterShutdown, PrunerFollowsSetting, PrunerIsQuiet
  <2> QED BY <2>1 DEF Promised!StopNext
<1>9. CASE ChecksPulls /\ Pulling = {}
  <2>1. Promised!Leaves
    BY <1>9 DEF ChecksPulls, Promised!Leaves, DrainedUnlessTimedOut, AfterDrain,
         AfterShutdown, PrunerFollowsSetting, PrunerIsQuiet
  <2> QED BY <2>1 DEF Promised!StopNext
<1>10. CASE Ends
  <2>1. Promised!Stops
    BY <1>10 DEF Ends, Promised!Stops, OwedArePulling, OwedPullsFinish
  <2> QED BY <2>1 DEF Promised!StopNext
<1>11. \A s \in Stoppers : StopsOnCommand(s) => Promised!StopNext
  BY <1>5 DEF Promised!StopNext
<1> QED BY <1>1, <1>2, <1>3, <1>4, <1>6, <1>7, <1>8, <1>9, <1>10, <1>11, <1>12, <1>13 DEF MainStep

\* What a request goes through is to take it, to finish it, or to settle what is due.
LEMMA RequestIsSeen ==
  ASSUME LifeInv, NEW c \in Clients,
         \/ Arrives(c) \/ BeginsPull(c) \/ EndsPull(c) \/ Jams(c) \/ Answers(c) \/ AsksAgain(c)
         \/ \E p \in Clients : Parks(c, p) \/ GivesUp(c, p)
  PROVE  [Promised!StopNext]_(Promised!stopVars)
<1> USE DEF LifeInv, LifeTypeOK, RequestGoes, RequestsGo, settings, Promised!stopVars
<1>1. UNCHANGED <<Phase, StopsInHand, pruner, tls, drainTimedOut>>
  BY DEF Arrives, BeginsPull, EndsPull, Jams, Parks, GivesUp, Answers, AsksAgain, Phase, StopsInHand
<1>2. Promised!Running
  BY SeenAlive DEF Arrives, BeginsPull, EndsPull, Jams, Parks, GivesUp, Answers, AsksAgain
<1>3. CASE Arrives(c)
  <2>1. InHand' = InHand \cup {c} /\ owed' = owed
    BY <1>3 DEF Arrives, InHand
  <2>2. Phase \in {"loaded", "open"} \/ (Phase \in {"closing", "leaving"} /\ ~(~tls /\ ~drainTimedOut))
    BY <1>3 DEF Arrives, Phase, LoadedFirst, DrainedUnlessTimedOut, AfterShutdown, Alive, Starting,
         Early, Stopping, Leaving, Final
  <2>3. Promised!Takes(c)
    BY <1>1, <2>1, <2>2 DEF Promised!Takes
  <2> QED BY <2>3 DEF Promised!StopNext
<1>4. CASE BeginsPull(c) \/ AsksAgain(c) \/ \E p \in Clients : Parks(c, p) \/ GivesUp(c, p)
  <2>1. InHand' = InHand /\ owed' = owed
    BY <1>4 DEF BeginsPull, AsksAgain, Parks, GivesUp, InHand
  <2> QED BY <1>1, <2>1
<1>5. CASE EndsPull(c)
  <2>1. InHand' = InHand /\ owed' = owed \ {c}
    BY <1>5 DEF EndsPull, InHand, ParkedWait
  <2>2. CASE c \in owed
    <3>1. Promised!Settles(c)
      BY <1>1, <1>2, <2>1, <2>2 DEF Promised!Settles
    <3> QED BY <3>1 DEF Promised!StopNext
  <2>3. CASE c \notin owed
    BY <1>1, <2>1, <2>3
  <2> QED BY <2>2, <2>3
<1>6. CASE Jams(c)
  <2>1. PICK signaled \in SUBSET parked[c] : RequestsGo(signaled, "replying")
    BY <1>6 DEF Jams
  <2>2. InHand' = InHand
    BY <2>1 DEF InHand, ParkedWait
  <2>3. owed' = owed
    BY <1>6 DEF Jams
  <2> QED BY <1>1, <2>2, <2>3
<1>7. CASE Answers(c)
  <2>1. InHand' = InHand \ {c} /\ c \in InHand /\ owed' = owed
    BY <1>7 DEF Answers, InHand
  <2>2. c \notin owed /\ c \notin StopsInHand
    BY <1>7, LifeAssumption DEF Answers, OwedArePulling, Pulling, StopsInHand
  <2>3. Promised!Finishes(c)
    BY <1>1, <1>2, <2>1, <2>2 DEF Promised!Finishes
  <2> QED BY <2>3 DEF Promised!StopNext
<1> QED BY <1>3, <1>4, <1>5, <1>6, <1>7

\* And what the listener, the signals, the stop commands and the pruner do.
LEMMA OthersAreSeen ==
  ASSUME LifeInv,
         \/ ListenerOpens \/ StartFails \/ Interrupt \/ PassBegins \/ PassEnds
         \/ \E s \in Stoppers : StopArrives(s)
  PROVE  [Promised!StopNext]_(Promised!stopVars)
<1> USE DEF LifeInv, LifeTypeOK, settings, Promised!stopVars
<1>1. CASE ListenerOpens
  BY <1>1 DEF ListenerOpens, Phase, InHand, StopsInHand
<1>2. CASE StartFails
  <2>1. Promised!Fails
    BY <1>2 DEF StartFails, Promised!Fails, Promised!PhaseGoes, Phase, InHand, StopsInHand,
         Starting, Early, Stopping, Leaving, Final
  <2> QED BY <2>1 DEF Promised!StopNext
<1>3. CASE Interrupt
  <2>1. CASE main \in Early
    <3>1. Promised!Fails
      BY <1>3, <2>1 DEF Interrupt, Promised!Fails, Promised!PhaseGoes, Phase, InHand, StopsInHand,
           Starting, Early, Stopping, Leaving, Final
    <3> QED BY <3>1 DEF Promised!StopNext
  <2>2. CASE main \notin Early
    BY <1>3, <2>2 DEF Interrupt, Phase, InHand, StopsInHand
  <2> QED BY <2>1, <2>2
<1>4. CASE PassBegins
  <2>1. UNCHANGED <<Phase, InHand, StopsInHand, owed, tls, drainTimedOut>>
    BY <1>4 DEF PassBegins, PrunerGoes, Phase, InHand, StopsInHand
  <2>2. Phase # "leaving"
    BY <1>4 DEF PassBegins, PrunerGoes, Phase, PrunerFollowsSetting, PrunerIsQuiet, Starting,
         Early, Stopping, Leaving, Final
  <2>3. Promised!Running
    BY <1>4, SeenAlive DEF PassBegins, PrunerGoes
  <2>4. Promised!PassBegins
    BY <1>4, <2>1, <2>2, <2>3 DEF PassBegins, PrunerGoes, Promised!PassBegins
  <2> QED BY <2>4 DEF Promised!StopNext
<1>5. CASE PassEnds
  <2>1. UNCHANGED <<Phase, InHand, StopsInHand, owed, tls, drainTimedOut>>
    BY <1>5 DEF PassEnds, PrunerGoes, Phase, InHand, StopsInHand
  <2>2. Promised!Running
    BY <1>5, SeenAlive DEF PassEnds, PrunerGoes
  <2>3. Promised!PassEnds
    BY <1>5, <2>1, <2>2 DEF PassEnds, PrunerGoes, Promised!PassEnds
  <2> QED BY <2>3 DEF Promised!StopNext
<1>6. ASSUME NEW s \in Stoppers, StopArrives(s)
      PROVE  Promised!StopNext
  <2>1. UNCHANGED <<Phase, InHand, pruner, owed, tls, drainTimedOut>>
        /\ StopsInHand' = StopsInHand \cup {s}
    BY <1>6 DEF StopArrives, Phase, InHand, StopsInHand
  <2>2. Phase \in {"loaded", "open"} \/ (Phase \in {"closing", "leaving"} /\ ~(~tls /\ ~drainTimedOut))
    BY <1>6 DEF StopArrives, Phase, LoadedFirst, DrainedUnlessTimedOut, AfterShutdown, Alive, Starting,
         Early, Stopping, Leaving, Final
  <2>3. Promised!Takes(s)
    BY <2>1, <2>2 DEF Promised!Takes
  <2> QED BY <2>3 DEF Promised!StopNext
<1> QED BY <1>1, <1>2, <1>3, <1>4, <1>5, <1>6

\* Serve ends as GracefulStop promises, for any requests and stop commands: the
\* listener, the signals and the timers are hidden behind the phases of the server.
THEOREM ServeEndsGracefully == LifeSpec => ImplementsGracefulStop
<1>1. LifeInit => Promised!StopInit
  <2> SUFFICES ASSUME LifeInit PROVE Promised!StopInit
    OBVIOUS
  <2>1. Phase = "starting" /\ owed = {}
    BY DEF LifeInit, Phase, Starting, Early, Stopping, Leaving
  <2>2. InHand \cup StopsInHand = {}
    BY DEF LifeInit, InHand, StopsInHand
  <2>3. (pruner = "pass") = FALSE /\ (~tls /\ ~drainTimedOut) \in BOOLEAN
    BY DEF LifeInit
  <2> QED BY <2>1, <2>2, <2>3 DEF Promised!StopInit
<1>2. LifeInv /\ [LifeNext]_lifeVars => [Promised!StopNext]_(Promised!stopVars)
  <2>1. CASE UNCHANGED lifeVars
    BY <2>1 DEF lifeVars, settings, queue, Promised!stopVars, Phase, InHand, StopsInHand
  <2>2. LifeInv /\ LifeNext => [Promised!StopNext]_(Promised!stopVars)
    BY ServeStepIsSeen, RequestIsSeen, OthersAreSeen DEF LifeNext, Environment
  <2> QED BY <2>1, <2>2
<1> QED BY <1>1, <1>2, LifeAlwaysInv, PTL DEF LifeSpec, ImplementsGracefulStop, Promised!StopSpec
=============================================================================
