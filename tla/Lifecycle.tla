------------------------------ MODULE Lifecycle ------------------------------
(***************************************************************************)
(* The life of the server: function Serve of cmd/subcmd/serve.go with the  *)
(* goroutines it starts (the listener, the pruner of impl/cache/prune.go,  *)
(* one handler for each request), the channels between them, and WaitPulls *)
(* of impl/cache/cache.go, which the server ends with.                     *)
(*                                                                         *)
(* A request is only a place in its handler here: what it reads and writes *)
(* is the subject of module Registry.  Of the pull queue of module         *)
(* PullQueue this one keeps who waits for whose pull, because a call that  *)
(* gave up leaves a channel behind on which signalWaiters then blocks for  *)
(* ever, with the mutex of the queue that WaitPulls takes.  With TLS the   *)
(* listener belongs to an http.Server of its own, which the Shutdown of    *)
(* e.Server does not touch, so requests go on being accepted until the     *)
(* process ends.                                                           *)
(***************************************************************************)
EXTENDS Naturals, FiniteSets

CONSTANTS
  Clients,  \* requests for images
  Stoppers  \* executions of CmdStop

ASSUME LifeAssumption == Clients \cap Stoppers = {}

VARIABLES
  tls, pruning,  \* configuration
  main,          \* how far Serve has come
  loaded,        \* cache.Load returned no error
  listener,      \* "down", "up" or "closed"
  interrupted,   \* a signal is in the buffer of stopCh
  stop,          \* where each execution of CmdStop is
  request,       \* where each request is
  parked,        \* the requests that wait for the pull of each request
  forsaken,      \* pulls with a channel in their list that nobody receives from any more
  jammed,        \* signalWaiters is blocked for ever, with the mutex of the queue
  pruner,        \* where the goroutine of RunPruner is
  drainTimedOut, \* history: Shutdown returned because its 30 seconds were over
  owed           \* history: pulls that WaitPulls found and that have not ended

settings == <<tls, pruning>>
queue == <<parked, forsaken, jammed>>
lifeVars == <<settings, main, loaded, listener, interrupted, stop, request, queue,
              pruner, drainTimedOut, owed>>

\* What Serve does before it tells the runtime to deliver signals to stopCh.
Early == {"preloading", "authorizing"}
Starting == Early \cup {"startingPruner", "loading", "opening"}
Stopping == {"shuttingDown", "draining", "stoppingPruner", "awaitingPruner"}
Leaving == {"checkingPulls", "waitingPulls", "returning"}
Final == {"ended", "failed"}
Alive == main \notin Final

Pulling == {c \in Clients : request[c] = "pulling"}
\* Requests that a handler is at work on.
InHand == {c \in Clients : request[c] \in {"handling", "pulling", "parked", "replying"}}
StopsInHand == {s \in Stoppers : stop[s] = "sending"}

LifeInit ==
  /\ tls \in BOOLEAN /\ pruning \in BOOLEAN
  /\ main = "preloading"
  /\ loaded = FALSE
  /\ listener = "down"
  /\ interrupted = FALSE
  /\ stop = [s \in Stoppers |-> "none"]
  /\ request = [c \in Clients |-> "none"]
  /\ parked = [c \in Clients |-> {}]
  /\ forsaken = {} /\ jammed = FALSE
  /\ pruner = "off"
  /\ drainTimedOut = FALSE
  /\ owed = {}

MainGoes(from, to) == main = from /\ main' = to
-----------------------------------------------------------------------------
\* preload.Load returned nil, or there is nothing to preload; ParseTls as well.
Preloads ==
  /\ MainGoes("preloading", "authorizing")
  /\ UNCHANGED <<settings, loaded, listener, interrupted, stop, request, queue, pruner, drainTimedOut, owed>>

\* Every provider is initialized, and signals are delivered to stopCh from now on.
Authorizes ==
  /\ MainGoes("authorizing", "startingPruner")
  /\ UNCHANGED <<settings, loaded, listener, interrupted, stop, request, queue, pruner, drainTimedOut, owed>>

\* A slip: the goroutine of the listener is started before the cache is loaded.
StartsPrunerAndListens ==
  /\ MainGoes("startingPruner", "loading")
  /\ pruner' = IF pruning THEN "idle" ELSE "off"
  /\ listener' = "up"
  /\ UNCHANGED <<settings, loaded, interrupted, stop, request, queue, drainTimedOut, owed>>

\* RunPruner starts its goroutine, if pruning is enabled.
StartsPruner ==
  /\ MainGoes("startingPruner", "loading")
  /\ pruner' = IF pruning THEN "idle" ELSE "off"
  /\ UNCHANGED <<settings, loaded, listener, interrupted, stop, request, queue, drainTimedOut, owed>>

\* cache.Load read every manifest file; the listener's goroutine is started.
LoadsCache ==
  /\ MainGoes("loading", "opening")
  /\ loaded' = TRUE
  /\ UNCHANGED <<settings, listener, interrupted, stop, request, queue, pruner, drainTimedOut, owed>>

\* The listener's goroutine: e.Start or e.StartServer got its port.
ListenerOpens ==
  /\ main = "opening" /\ listener = "down"
  /\ listener' = "up"
  /\ UNCHANGED <<settings, main, loaded, interrupted, stop, request, queue, pruner, drainTimedOut, owed>>

\* waitForEchoListener saw the listener.
Serves ==
  /\ MainGoes("opening", "serving")
  /\ listener = "up"
  /\ UNCHANGED <<settings, loaded, listener, interrupted, stop, request, queue, pruner, drainTimedOut, owed>>

\* A step of the start returned an error, the port was taken (Logger.Fatal), or
\* three seconds went by before waitForEchoListener looked again: the process exits.
StartFails ==
  /\ main \in Starting
  /\ main' = "failed"
  /\ UNCHANGED <<settings, loaded, listener, interrupted, stop, request, queue, pruner, drainTimedOut, owed>>

\* SIGINT or SIGTERM: the default action before signal.Notify, buffered after it.
Interrupt ==
  /\ Alive
  /\ IF main \in Early
       THEN main' = "failed" /\ interrupted' = interrupted
       ELSE main' = main /\ interrupted' = TRUE
  /\ UNCHANGED <<settings, loaded, listener, stop, request, queue, pruner, drainTimedOut, owed>>

\* The select of Serve receives the signal.
StopsOnSignal ==
  /\ MainGoes("serving", "shuttingDown")
  /\ interrupted
  /\ interrupted' = FALSE
  /\ UNCHANGED <<settings, loaded, listener, stop, request, queue, pruner, drainTimedOut, owed>>

\* The select receives what one CmdStop sends; nobody receives from any other.
StopsOnCommand(s) ==
  /\ MainGoes("serving", "shuttingDown")
  /\ stop[s] = "sending"
  /\ stop' = [stop EXCEPT ![s] = "answered"]
  /\ UNCHANGED <<settings, loaded, listener, interrupted, request, queue, pruner, drainTimedOut, owed>>

\* A slip: Close, which does not wait for the handlers.
ShutdownAtOnce ==
  /\ main = "shuttingDown"
  /\ main' = "stoppingPruner"
  /\ listener' = IF tls THEN listener ELSE "closed"
  /\ UNCHANGED <<settings, loaded, interrupted, stop, request, queue, pruner, drainTimedOut, owed>>

\* e.Server.Shutdown: without TLS the listener is closed and the handlers are waited for.
Shutdown ==
  /\ main = "shuttingDown"
  /\ IF tls THEN main' = "stoppingPruner" /\ listener' = listener
            ELSE main' = "draining" /\ listener' = "closed"
  /\ UNCHANGED <<settings, loaded, interrupted, stop, request, queue, pruner, drainTimedOut, owed>>

\* No handler is at work any more.
Drained ==
  /\ MainGoes("draining", "stoppingPruner")
  /\ InHand = {} /\ StopsInHand = {}
  /\ UNCHANGED <<settings, loaded, listener, interrupted, stop, request, queue, pruner, drainTimedOut, owed>>

\* The context of 30 seconds ends first: the error is logged and Serve goes on.
DrainTimesOut ==
  /\ MainGoes("draining", "stoppingPruner")
  /\ drainTimedOut' = TRUE
  /\ UNCHANGED <<settings, loaded, listener, interrupted, stop, request, queue, pruner, owed>>

\* A slip: a pass that is under way is not waited for.
StopsPrunerUnheard ==
  /\ main = "stoppingPruner"
  /\ main' = "checkingPulls"
  /\ UNCHANGED <<settings, loaded, listener, interrupted, stop, request, queue, pruner, drainTimedOut, owed>>

\* A slip: the send does not ask whether a pruner was started.
StopsPrunerAlways ==
  /\ main = "stoppingPruner"
  /\ pruner = "idle" /\ pruner' = "acknowledging" /\ main' = "awaitingPruner"
  /\ UNCHANGED <<settings, loaded, listener, interrupted, stop, request, queue, drainTimedOut, owed>>

\* stopPruneCh <- true: the pruner receives between two passes only.
StopsPruner ==
  /\ main = "stoppingPruner"
  /\ IF pruning
       THEN pruner = "idle" /\ pruner' = "acknowledging" /\ main' = "awaitingPruner"
       ELSE pruner' = pruner /\ main' = "checkingPulls"
  /\ UNCHANGED <<settings, loaded, listener, interrupted, stop, request, queue, drainTimedOut, owed>>

\* <-pruneStoppedCh: the pruner's goroutine returns.
PrunerStopped ==
  /\ MainGoes("awaitingPruner", "checkingPulls")
  /\ pruner = "acknowledging"
  /\ pruner' = "gone"
  /\ UNCHANGED <<settings, loaded, listener, interrupted, stop, request, queue, drainTimedOut, owed>>

\* WaitPulls looks for pulls in progress, for which it needs the mutex of the queue.
ChecksPulls ==
  /\ main = "checkingPulls" /\ ~jammed
  /\ main' = IF Pulling = {} THEN "returning" ELSE "waitingPulls"
  /\ owed' = Pulling
  /\ UNCHANGED <<settings, loaded, listener, interrupted, stop, request, queue, pruner, drainTimedOut>>

\* WaitPulls looks again, every two seconds and without end: after a minute it logs
\* an error, and does not return.
PullsAreOver ==
  /\ MainGoes("waitingPulls", "returning")
  /\ ~jammed /\ Pulling = {}
  /\ UNCHANGED <<settings, loaded, listener, interrupted, stop, request, queue, pruner, drainTimedOut, owed>>

\* Serve returns and with it the process ends.
Ends ==
  /\ MainGoes("returning", "ended")
  /\ UNCHANGED <<settings, loaded, listener, interrupted, stop, request, queue, pruner, drainTimedOut, owed>>
-----------------------------------------------------------------------------
\* Handlers move from one place to another while the process lives.
RequestsGo(some, to) ==
  /\ Alive
  /\ request' = [c \in Clients |-> IF c \in some THEN to ELSE request[c]]
  /\ UNCHANGED <<settings, main, loaded, listener, interrupted, stop, pruner, drainTimedOut>>
RequestGoes(c, from, to) == request[c] = from /\ RequestsGo({c}, to)

\* A request is accepted and given to its handler.
Arrives(c) ==
  /\ listener = "up"
  /\ RequestGoes(c, "none", "handling") /\ UNCHANGED <<queue, owed>>
\* The handler has to pull from the upstream (GetManifest, enqueuePull) ...
BeginsPull(c) ==
  /\ ~jammed
  /\ RequestGoes(c, "handling", "pulling") /\ UNCHANGED <<queue, owed>>
\* ... or finds the pull of p under way: its channel is put in the list of that pull.
Parks(c, p) ==
  /\ ~jammed /\ request[p] = "pulling"
  /\ RequestGoes(c, "handling", "parked")
  /\ parked' = [parked EXCEPT ![p] = @ \cup {c}]
  /\ UNCHANGED <<forsaken, jammed, owed>>
\* The pull timeout of a call that waits for p ends; its channel stays in the list.
GivesUp(c, p) ==
  /\ c \in parked[p] /\ RequestGoes(c, "parked", "replying")
  /\ parked' = [parked EXCEPT ![p] = @ \ {c}]
  /\ forsaken' = forsaken \cup {p}
  /\ UNCHANGED <<jammed, owed>>
\* The pull has ended and its waiters are signaled (signalWaiters).
EndsPull(p) ==
  /\ request[p] = "pulling" /\ ~jammed /\ p \notin forsaken
  /\ RequestsGo({p} \cup parked[p], "replying")
  /\ parked' = [parked EXCEPT ![p] = {}]
  /\ owed' = owed \ {p}
  /\ UNCHANGED <<forsaken, jammed>>
\* The pull has ended, but signalWaiters comes to a channel whose receiver gave up:
\* some of the waiters were signaled before it, the mutex is never released.
Jams(p) ==
  /\ request[p] = "pulling" /\ ~jammed /\ p \in forsaken
  /\ jammed' = TRUE
  /\ \E signaled \in SUBSET parked[p] :
       /\ RequestsGo(signaled, "replying")
       /\ parked' = [parked EXCEPT ![p] = @ \ signaled]
  /\ UNCHANGED <<forsaken, owed>>
\* The handler answers, from the cache or after its pull.
Answers(c) ==
  /\ \/ RequestGoes(c, "handling", "answered")
     \/ RequestGoes(c, "replying", "answered")
  /\ UNCHANGED <<queue, owed>>
\* The client asks for something else.
AsksAgain(c) == RequestGoes(c, "answered", "none") /\ UNCHANGED <<queue, owed>>

\* GET /cmd/stop: the handler is about to send on shutdownCh.
StopArrives(s) ==
  /\ Alive /\ listener = "up"
  /\ stop[s] = "none" /\ stop' = [stop EXCEPT ![s] = "sending"]
  /\ UNCHANGED <<settings, main, loaded, listener, interrupted, request, queue, pruner, drainTimedOut, owed>>

PrunerGoes(from, to) ==
  /\ Alive
  /\ pruner = from /\ pruner' = to
  /\ UNCHANGED <<settings, main, loaded, listener, interrupted, stop, request, queue, drainTimedOut, owed>>

\* The timer of the pruner fires, and doPrune returns.
PassBegins == PrunerGoes("idle", "pass")
PassEnds == PrunerGoes("pass", "idle")

MainStep ==
  \/ Preloads \/ Authorizes \/ StartsPruner \/ LoadsCache \/ Serves
  \/ StopsOnSignal \/ \E s \in Stoppers : StopsOnCommand(s)
  \/ Shutdown \/ Drained \/ DrainTimesOut
  \/ StopsPruner \/ PrunerStopped
  \/ ChecksPulls \/ PullsAreOver \/ Ends

Environment ==
  \/ ListenerOpens \/ StartFails \/ Interrupt
  \/ \E s \in Stoppers : StopArrives(s)
  \/ \E c \in Clients : Arrives(c) \/ BeginsPull(c) \/ EndsPull(c) \/ Jams(c) \/ Answers(c) \/ AsksAgain(c)
  \/ \E c, p \in Clients : Parks(c, p) \/ GivesUp(c, p)
  \/ PassBegins \/ PassEnds

LifeNext == MainStep \/ Environment
LifeSpec == LifeInit /\ [][LifeNext]_lifeVars

\* A download ends, with an error if need be, and then its waiters are signaled,
\* unless that blocks; a handler goes on while it can have the mutex of the queue.
\* Serve runs when it can, and does not wait for the handlers longer than the 30
\* seconds of its context; when a timer of the pruner and the send of Serve are both
\* ready the select may choose either, hence strong fairness for the send.
Proceeds(c) == ~jammed /\ (BeginsPull(c) \/ (\E p \in Clients : Parks(c, p)) \/ Answers(c))
LifeFairness ==
  /\ WF_lifeVars(MainStep \/ ListenerOpens)
  /\ SF_lifeVars(StopsPruner)
  /\ WF_lifeVars(PassEnds)
  /\ \A c \in Clients : WF_lifeVars(EndsPull(c) \/ Jams(c)) /\ WF_lifeVars(Proceeds(c))

FairLifeSpec == LifeSpec /\ LifeFairness
-----------------------------------------------------------------------------
\* Type invariant.
LifeTypeOK ==
  /\ tls \in BOOLEAN /\ pruning \in BOOLEAN
  /\ main \in Starting \cup {"serving"} \cup Stopping \cup Leaving \cup Final
  /\ loaded \in BOOLEAN
  /\ listener \in {"down", "up", "closed"}
  /\ interrupted \in BOOLEAN
  /\ stop \in [Stoppers -> {"none", "sending", "answered"}]
  /\ request \in [Clients -> {"none", "handling", "pulling", "parked", "replying", "answered"}]
  /\ parked \in [Clients -> SUBSET Clients] /\ forsaken \subseteq Clients /\ jammed \in BOOLEAN
  /\ pruner \in {"off", "idle", "pass", "acknowledging", "gone"}
  /\ drainTimedOut \in BOOLEAN
  /\ owed \subseteq Clients

\* Nothing is asked of the cache before Load has filled it: a request that
\* came earlier would be pulled again, or answered 404 by an air-gapped server.
NothingHandledBeforeLoad ==
  InHand # {} \/ StopsInHand # {} => loaded

\* A server without TLS that stopped, and whose handlers did not outlast the 30
\* seconds of Shutdown, left no request unanswered, whichever of a signal and
\* several stop commands came first.
CleanStopAnswersAll ==
  main = "ended" /\ ~tls /\ ~drainTimedOut => InHand = {} /\ StopsInHand = {}

\* The process does not exit under a pull that WaitPulls had found (which is not what
\* its comment says: "waits 60 seconds ... and then returns").
OwedPullsFinish ==
  main \in {"returning", "ended"} => owed = {}

\* The process exits, and WaitPulls looks for pulls, only when no pass of the
\* pruner is deleting files.
PrunerIsQuiet ==
  main \in Leaving \cup {"ended"} => pruner \in {"off", "gone"}

\* A server without TLS that was told to stop stops, whatever the pruner, the
\* requests in hand and further stop commands do (Serve), unless a call that gave up
\* waiting for a pull has left signalWaiters blocked with the mutex that WaitPulls needs.
StopEndsServer ==
  ~tls /\ (interrupted \/ StopsInHand # {}) ~> main \in Final \/ jammed

\* What the stages of Serve are to those who only see the server.
Phase ==
  CASE main \in Starting \ {"opening"} -> "starting"
    [] main = "opening" -> "loaded"
    [] main \in {"serving", "shuttingDown"} -> "open"
    [] main \in (Stopping \ {"shuttingDown"}) \cup {"checkingPulls"} -> "closing"
    [] main \in {"waitingPulls", "returning"} -> "leaving"
    [] main = "ended" -> "stopped"
    [] OTHER -> "failed"

Promised == INSTANCE GracefulStop WITH
  Work <- Clients \cup Stoppers, phase <- Phase, inHand <- InHand \cup StopsInHand,
  due <- owed, pass <- pruner = "pass", patient <- ~tls /\ ~drainTimedOut

\* Serve, with its listener, signals, stop commands and pruner, ends as GracefulStop
\* promises: whatever the order of what it waits for, a server that serves ends by a
\* stop only, and a stop cuts off neither a pass of the pruner nor a pull that is owed.
ImplementsGracefulStop == Promised!StopSpec
=============================================================================
