------------------------------ MODULE PullQueue ------------------------------
(***************************************************************************)
(* The coalescing of concurrent upstream pulls: type concurrentPulls of    *)
(* impl/cache/cache.go and the control flow of GetManifest around it.      *)
(*                                                                         *)
(* A call is one execution of GetManifest, in its own goroutine.  The      *)
(* first call that misses the cache for a URL pulls it; the calls that     *)
(* miss while it pulls are parked, each on an unbuffered channel of its    *)
(* own, until the puller has sent to it or its timer fires.  Because a     *)
(* call makes at most one channel, the channel is named by its call.       *)
(*                                                                         *)
(* The manifest cache is outside this module: a call enters when it has    *)
(* missed it, and "pulling" covers doPull and the insertion into the       *)
(* cache.  Module Registry opens both.                                     *)
(***************************************************************************)
EXTENDS Naturals, Sequences

CONSTANTS
  Calls,       \* executions of GetManifest
  Urls,        \* manifest URLs
  MayTimeOut,  \* the calls whose pull timeout may fire while they are parked
  Nobody       \* no call: the value of a free mutex

ASSUME QueueAssumption ==
  /\ MayTimeOut \subseteq Calls
  /\ Nobody \notin Calls

VARIABLES
  pulls,     \* cp.pulls: URL being pulled -> channels of the parked calls
  cpLock,    \* the call that holds the mutex of cp across steps, or Nobody
  toSignal,  \* channels the holder of cp has still to send to
  pc,        \* where each call is in GetManifest
  url        \* pr.Url() of each call

queueVars == <<pulls, cpLock, toSignal, pc, url>>

PcValues == {"idle", "missed", "pulling", "waiting", "signaling", "woken", "done"}

ElementsOf(s) == {s[i] : i \in DOMAIN s}

\* A call that has a pull of its URL in progress, or has still to announce its end.
Active(c) == pc[c] \in {"pulling", "signaling"}

\* The channel of call c is still referenced by cp.pulls.
Listed(c) == \E u \in DOMAIN pulls : c \in ElementsOf(pulls[u])

QueueInit ==
  /\ pulls = <<>>
  /\ cpLock = Nobody
  /\ toSignal = <<>>
  /\ pc = [c \in Calls |-> "idle"]
  /\ url \in [Calls -> Urls]

Goto(c, state) == pc' = [pc EXCEPT ![c] = state]

-----------------------------------------------------------------------------
\* getManifestOrEnqueue: the cache has no manifest for u, or the pull is forced.
Miss(c, u) ==
  /\ pc[c] = "idle"
  /\ Goto(c, "missed")
  /\ url' = [url EXCEPT ![c] = u]
  /\ UNCHANGED <<pulls, cpLock, toSignal>>

\* A slip: the map is not consulted, so every call that misses pulls.
EnqueueFirstUnchecked(c) ==
  /\ pc[c] = "missed"
  /\ cpLock = Nobody
  /\ pulls' = [u \in DOMAIN pulls \cup {url[c]} |->
                 IF u = url[c] THEN <<>> ELSE pulls[u]]
  /\ Goto(c, "pulling")
  /\ UNCHANGED <<cpLock, toSignal, url>>

\* A slip: the new list starts with a channel of the puller itself.
EnqueueFirstListed(c) ==
  /\ pc[c] = "missed"
  /\ cpLock = Nobody
  /\ url[c] \notin DOMAIN pulls
  /\ pulls' = [u \in DOMAIN pulls \cup {url[c]} |->
                 IF u = url[c] THEN <<c>> ELSE pulls[u]]
  /\ Goto(c, "pulling")
  /\ UNCHANGED <<cpLock, toSignal, url>>

\* enqueuePull, nobody is pulling the URL: this call becomes the puller.
EnqueueFirst(c) ==
  /\ pc[c] = "missed"
  /\ cpLock = Nobody
  /\ url[c] \notin DOMAIN pulls
  /\ pulls' = [u \in DOMAIN pulls \cup {url[c]} |->
                 IF u = url[c] THEN <<>> ELSE pulls[u]]
  /\ Goto(c, "pulling")
  /\ UNCHANGED <<cpLock, toSignal, url>>

\* A slip: the new channel replaces those that are in the list.
EnqueueWaitAlone(c) ==
  /\ pc[c] = "missed"
  /\ cpLock = Nobody
  /\ url[c] \in DOMAIN pulls
  /\ pulls' = [pulls EXCEPT ![url[c]] = <<c>>]
  /\ Goto(c, "waiting")
  /\ UNCHANGED <<cpLock, toSignal, url>>

\* enqueuePull, the URL is being pulled: this call is parked on a new channel.
EnqueueWait(c) ==
  /\ pc[c] = "missed"
  /\ cpLock = Nobody
  /\ url[c] \in DOMAIN pulls
  /\ pulls' = [pulls EXCEPT ![url[c]] = Append(@, c)]
  /\ Goto(c, "waiting")
  /\ UNCHANGED <<cpLock, toSignal, url>>

\* doPull and the insertion have ended, in success or failure: the deferred
\* signalWaiters is about to run.
FinishPull(c) ==
  /\ pc[c] = "pulling"
  /\ Goto(c, "signaling")
  /\ UNCHANGED <<pulls, cpLock, toSignal, url>>

\* A slip: the channels of every URL are taken, not those of the one pulled.
SignalLockAny(c) ==
  /\ pc[c] = "signaling"
  /\ cpLock = Nobody
  /\ cpLock' = c
  /\ \E u \in DOMAIN pulls : toSignal' = pulls[u]
  /\ UNCHANGED <<pulls, pc, url>>

\* signalWaiters takes the mutex and reads the channels of its URL.
SignalLock(c) ==
  /\ pc[c] = "signaling"
  /\ cpLock = Nobody
  /\ cpLock' = c
  /\ toSignal' = IF url[c] \in DOMAIN pulls THEN pulls[url[c]] ELSE <<>>
  /\ UNCHANGED <<pulls, pc, url>>

\* One send on an unbuffered channel: it needs its receiver in the select.
SignalSend(c) ==
  /\ cpLock = c
  /\ toSignal # <<>>
  /\ pc[Head(toSignal)] = "waiting"
  /\ Goto(Head(toSignal), "woken")
  /\ toSignal' = Tail(toSignal)
  /\ UNCHANGED <<pulls, cpLock, url>>

\* A slip: the URL is given up before every channel was sent to.
SignalUnlockEarly(c) ==
  /\ cpLock = c
  /\ pulls' = [u \in DOMAIN pulls \ {url[c]} |-> pulls[u]]
  /\ cpLock' = Nobody
  /\ toSignal' = <<>>
  /\ Goto(c, "done")
  /\ UNCHANGED url

\* A slip: the mutex is not unlocked.
SignalUnlockForgotten(c) ==
  /\ cpLock = c
  /\ toSignal = <<>>
  /\ pulls' = [u \in DOMAIN pulls \ {url[c]} |-> pulls[u]]
  /\ Goto(c, "done")
  /\ UNCHANGED <<cpLock, toSignal, url>>

\* Every send is done: the URL is no longer being pulled, the mutex is freed.
SignalUnlock(c) ==
  /\ cpLock = c
  /\ toSignal = <<>>
  /\ pulls' = [u \in DOMAIN pulls \ {url[c]} |-> pulls[u]]
  /\ cpLock' = Nobody
  /\ Goto(c, "done")
  /\ UNCHANGED <<toSignal, url>>

\* The timer of a parked call fires: GetManifest returns an error.
TimeOut(c) ==
  /\ c \in MayTimeOut
  /\ pc[c] = "waiting"
  /\ Goto(c, "done")
  /\ UNCHANGED <<pulls, cpLock, toSignal, url>>

\* A call that received its signal reads the cache again and returns.
ReadAfterWait(c) ==
  /\ pc[c] = "woken"
  /\ Goto(c, "done")
  /\ UNCHANGED <<pulls, cpLock, toSignal, url>>

\* The name of a finished call is given to a new one, once no list holds its channel.
Recycle(c) ==
  /\ pc[c] = "done"
  /\ ~Listed(c)
  /\ Goto(c, "idle")
  /\ UNCHANGED <<pulls, cpLock, toSignal, url>>

\* The process dies and is started again: cp is a fresh package variable.
QueueRestart ==
  /\ pulls' = <<>>
  /\ cpLock' = Nobody
  /\ toSignal' = <<>>
  /\ pc' = [c \in Calls |-> "idle"]
  /\ url' = url

Step(c) ==
  \/ EnqueueFirst(c)
  \/ EnqueueWait(c)
  \/ FinishPull(c)
  \/ SignalLock(c)
  \/ SignalSend(c)
  \/ SignalUnlock(c)
  \/ ReadAfterWait(c)

QueueNext ==
  \/ \E c \in Calls, u \in Urls : Miss(c, u)
  \/ \E c \in Calls : Step(c) \/ TimeOut(c) \/ Recycle(c)
  \/ QueueRestart

QueueSpec == QueueInit /\ [][QueueNext]_queueVars

\* A goroutine that can run runs.  The mutex is fair to the goroutines that
\* ask for it again and again (sync.Mutex hands it over in starvation mode),
\* hence strong fairness for the steps that acquire it.  A pull from the
\* upstream is assumed to end.
QueueFairness ==
  \A c \in Calls :
    /\ SF_queueVars(EnqueueFirst(c) \/ EnqueueWait(c))
    /\ SF_queueVars(SignalLock(c))
    /\ WF_queueVars(FinishPull(c))
    /\ WF_queueVars(SignalSend(c) \/ SignalUnlock(c))
    /\ WF_queueVars(ReadAfterWait(c))

FairQueueSpec == QueueSpec /\ QueueFairness
-----------------------------------------------------------------------------
\* Type invariant.
QueueTypeOK ==
  /\ DOMAIN pulls \subseteq Urls
  /\ \A u \in DOMAIN pulls : pulls[u] \in Seq(Calls)
  /\ pulls = [u \in DOMAIN pulls |-> pulls[u]]
  /\ cpLock \in Calls \cup {Nobody}
  /\ toSignal \in Seq(Calls)
  /\ pc \in [Calls -> PcValues]
  /\ url \in [Calls -> Urls]

\* No two calls pull one URL from the upstream at the same time, whatever the
\* order in which they missed the cache (concurrentPulls, GetManifest).
SinglePuller ==
  \A c, d \in Calls : Active(c) /\ Active(d) /\ url[c] = url[d] => c = d

\* cp.pulls has a key exactly while a call pulls that URL or has yet to signal
\* the end of it, so pullsInProgress counts the pulls that WaitPulls waits for.
PullsAreTracked ==
  DOMAIN pulls = {url[c] : c \in {d \in Calls : Active(d)}}

\* A parked call is never forgotten: an active puller of its URL exists, and
\* the channel is in the list that puller will send to (or is sending to).
NoWaiterForgotten ==
  \A c \in Calls : pc[c] = "waiting" =>
    \E p \in Calls :
      /\ Active(p)
      /\ url[p] = url[c]
      /\ url[c] \in DOMAIN pulls
      /\ c \in ElementsOf(IF cpLock = p THEN toSignal ELSE pulls[url[c]])

\* The mutex is held across steps only by a call that signals.
LockIsForSignaling == cpLock # Nobody => pc[cpLock] = "signaling"

\* A parked call is in the list of its URL and, while that list is being sent
\* to, among the channels still ahead.
ParkedIsListed ==
  \A c \in Calls : pc[c] = "waiting" =>
    /\ url[c] \in DOMAIN pulls
    /\ c \in ElementsOf(pulls[url[c]])
    /\ cpLock # Nobody /\ url[cpLock] = url[c] => c \in ElementsOf(toSignal)

\* A list names only calls that are, or were, parked for its URL, and the
\* holder of the mutex sends to channels of its own list only.
ListedForUrl ==
  /\ \A u \in DOMAIN pulls : \A c \in ElementsOf(pulls[u]) :
       url[c] = u /\ pc[c] \in {"waiting", "woken", "done"}
  /\ cpLock # Nobody =>
       ElementsOf(toSignal) \subseteq ElementsOf(pulls[url[cpLock]])

\* The inductive invariant: what the three invariants above rest on.
QueueInv ==
  /\ QueueTypeOK
  /\ SinglePuller
  /\ PullsAreTracked
  /\ LockIsForSignaling
  /\ ParkedIsListed
  /\ ListedForUrl

\* A channel that a send can still end on, or that its call has abandoned.
Awaited(c) == pc[c] = "waiting" \/ (pc[c] = "done" /\ c \in MayTimeOut)

NoRepeats(s) == \A i, j \in DOMAIN s : s[i] = s[j] => i = j

\* The send that signalWaiters is at, with the mutex held, is received at once
\* unless the call it is for has given up: the pull timeout is the one thing
\* that can leave every puller of every URL waiting for the mutex.
OnlyTimeoutsBlockSends ==
  cpLock # Nobody /\ toSignal # <<>> => Awaited(Head(toSignal))

\* What that rests on: a channel is listed once, and no channel that is still
\* to be sent to has been received from.
QueueSendInv ==
  /\ QueueInv
  /\ \A u \in DOMAIN pulls : NoRepeats(pulls[u])
  /\ NoRepeats(toSignal)
  /\ cpLock # Nobody => \A c \in ElementsOf(toSignal) : Awaited(c)
  /\ \A u \in DOMAIN pulls : (cpLock # Nobody => url[cpLock] # u) =>
       \A c \in ElementsOf(pulls[u]) : Awaited(c)

\* A call is woken only by the puller of its own URL after that pull ended.
WokenByItsPuller ==
  [][\A c \in Calls : pc[c] = "waiting" /\ pc'[c] = "woken" =>
       \E p \in Calls : pc[p] = "signaling" /\ url[p] = url[c] /\ cpLock = p]_queueVars

\* Calls for different URLs do not hold each other up: a call that missed the
\* cache comes to pull or to wait for its own URL (docs/docs/concur-design.md).
MissedCallProceeds ==
  \A c \in Calls : (pc[c] = "missed") ~> (pc[c] # "missed")

\* The role a call plays for its URL, read off its place in GetManifest.
RoleOf(c) ==
  CASE pc[c] \in {"idle", "done"} -> "out"
    [] pc[c] = "missed"           -> "asking"
    [] pc[c] = "pulling"          -> "leader"
    [] pc[c] = "signaling"        -> "announcing"
    [] pc[c] = "waiting"          -> "follower"
    [] OTHER                      -> "released"

Flight == INSTANCE SingleFlight WITH role <- [c \in Calls |-> RoleOf(c)]

\* The map of channels under its mutex does what GetManifest promises: one
\* puller per URL, and a puller that is done has released everyone it parked.
ImplementsSingleFlight == Flight!FlightSpec

\* With no timer firing, the progress promised to the callers is kept as well.
ImplementsFairFlight == Flight!FairFlightSpec
=============================================================================
