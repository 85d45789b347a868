--------------------------- MODULE Registry_proofs ---------------------------
(***************************************************************************)
(* Theorems about Registry for any set of calls, repositories, tags,       *)
(* images, blobs and pruners, and any configuration.                       *)
(***************************************************************************)
EXTENDS Registry, ImageStore_proofs, TLAPS

QP == INSTANCE PullQueue_proofs WITH Urls <- ImageUrls

\* Every step of the registry is a step of the queue of pulls or leaves it
\* alone, as long as the calls ask for URLs of images.
LEMMA QueueStepOfRegistry ==
  ASSUME url \in [Calls -> ImageUrls], [RegistryNext]_vars
  PROVE  [Q!QueueNext]_(Q!queueVars)
<1> USE DEF Q!QueueNext, Q!Step
<1>1. ASSUME NEW c \in Calls, Miss(c) \/ MissUnwritable(c) PROVE Q!QueueNext
  <2>1. Q!Miss(c, url[c]) /\ url[c] \in ImageUrls
    BY <1>1 DEF Miss, MissUnwritable
  <2> QED BY <2>1
<1>2. ASSUME NEW c \in Calls, Enqueue(c) PROVE Q!QueueNext
  BY <1>2 DEF Enqueue
<1>3. ASSUME NEW c \in Calls, PullFails(c) \/ Insert(c) PROVE Q!QueueNext
  BY <1>3 DEF PullFails, Insert
<1>4. ASSUME NEW c \in Calls, Signal(c) PROVE Q!QueueNext
  BY <1>4 DEF Signal
<1>5. ASSUME NEW c \in Calls, TimeOut(c) \/ ReadAfterWait(c) PROVE Q!QueueNext
  BY <1>5 DEF TimeOut, ReadAfterWait
<1>6. ASSUME NEW c \in Calls, Admit(c) \/ Serve(c) \/ Fetch(c) \/ Download(c)
      PROVE UNCHANGED Q!queueVars
  BY <1>6 DEF Admit, Serve, Fetch, Download, queueVars, Q!queueVars
<1>7. ASSUME NEW p \in Pruners, Select(p) \/ PruneOne(p) PROVE UNCHANGED Q!queueVars
  BY <1>7 DEF Select, PruneOne, queueVars, Q!queueVars
<1>8. ASSUME NEW r \in Readers, CheckBlob(r) \/ OpenBlob(r) PROVE UNCHANGED Q!queueVars
  BY <1>8 DEF CheckBlob, OpenBlob, queueVars, Q!queueVars
<1>9. CASE Restart
  BY <1>9 DEF Restart
<1>10. CASE UNCHANGED vars
  BY <1>10 DEF vars, queueVars, Q!queueVars
<1> QED BY <1>1, <1>2, <1>3, <1>4, <1>5, <1>6, <1>7, <1>8, <1>9, <1>10
        DEF RegistryNext, CallStep

\* No step changes what a call asks for.
LEMMA UrlsAreFixed ==
  ASSUME url \in [Calls -> ImageUrls], [RegistryNext]_vars
  PROVE  url' = url
<1>1. ASSUME NEW c \in Calls, Q!Miss(c, url[c]) PROVE url' = url
  BY <1>1 DEF Q!Miss
<1>2. ASSUME NEW c \in Calls,
             \/ Q!EnqueueFirst(c) \/ Q!EnqueueWait(c) \/ Q!FinishPull(c) \/ Q!SignalLock(c)
             \/ Q!SignalSend(c) \/ Q!SignalUnlock(c) \/ Q!TimeOut(c) \/ Q!ReadAfterWait(c)
             \/ UNCHANGED queueVars
      PROVE  url' = url
  BY <1>2 DEF Q!EnqueueFirst, Q!EnqueueWait, Q!FinishPull, Q!SignalLock, Q!SignalSend,
              Q!SignalUnlock, Q!TimeOut, Q!ReadAfterWait, queueVars
<1>3. ASSUME NEW c \in Calls, CallStep(c) PROVE url' = url
  BY <1>1, <1>2, <1>3 DEF CallStep, Admit, Serve, Miss, MissUnwritable, Enqueue, Fetch, Download,
     PullFails, Insert, Signal, TimeOut, ReadAfterWait
<1>4. ASSUME NEW p \in Pruners, Select(p) \/ PruneOne(p) PROVE url' = url
  BY <1>4 DEF Select, PruneOne, queueVars
<1>5. ASSUME NEW r \in Readers, CheckBlob(r) \/ OpenBlob(r) PROVE url' = url
  BY <1>5 DEF CheckBlob, OpenBlob, queueVars
<1>6. CASE Restart
  BY <1>6 DEF Restart, Q!QueueRestart
<1>7. CASE UNCHANGED vars
  BY <1>7 DEF vars, queueVars
<1> QED BY <1>3, <1>4, <1>5, <1>6, <1>7 DEF RegistryNext

\* So the calls ask for URLs of images throughout.
LEMMA UrlsOfCalls ==
  RegistrySpec => [](url \in [Calls -> ImageUrls])
<1>1. RegistryInit => url \in [Calls -> ImageUrls]
  BY RegistryAssumption DEF RegistryInit
<1>2. url \in [Calls -> ImageUrls] /\ [RegistryNext]_vars => (url \in [Calls -> ImageUrls])'
  BY UrlsAreFixed
<1> QED BY <1>1, <1>2, PTL DEF RegistrySpec

\* The registry drives the queue of pulls only as PullQueue says.
LEMMA RegistryUsesPullQueue ==
  RegistrySpec => UsesPullQueue
<1>1. RegistryInit => Q!QueueInit
  BY DEF RegistryInit
<1>2. url \in [Calls -> ImageUrls] /\ [RegistryNext]_vars => [Q!QueueNext]_(Q!queueVars)
  BY QueueStepOfRegistry
<1> QED BY <1>1, <1>2, UrlsOfCalls, PTL DEF RegistrySpec, UsesPullQueue, Q!QueueSpec

\* The queue the registry is composed with is the one the theorems are about ...
LEMMA SameQueue ==
  /\ Q!QueueInit <=> QP!QueueInit
  /\ [Q!QueueNext]_(Q!queueVars) <=> [QP!QueueNext]_(QP!queueVars)
<1> USE DEF Q!QueueInit, QP!QueueInit, Q!queueVars, QP!queueVars, Q!Goto, QP!Goto,
            Q!ElementsOf, QP!ElementsOf, Q!Listed, QP!Listed
<1>1. Q!QueueInit <=> QP!QueueInit
  OBVIOUS
<1>2. [Q!QueueNext]_(Q!queueVars) <=> [QP!QueueNext]_(QP!queueVars)
  BY DEF Q!QueueNext, Q!Step, Q!Miss, Q!EnqueueFirst, Q!EnqueueWait, Q!FinishPull,
         Q!SignalLock, Q!SignalSend, Q!SignalUnlock, Q!TimeOut, Q!ReadAfterWait,
         Q!Recycle, Q!QueueRestart,
         QP!QueueNext, QP!Step, QP!Miss, QP!EnqueueFirst, QP!EnqueueWait, QP!FinishPull,
         QP!SignalLock, QP!SignalSend, QP!SignalUnlock, QP!TimeOut, QP!ReadAfterWait,
         QP!Recycle, QP!QueueRestart
<1> QED BY <1>1, <1>2

\* ... so what is proved of PullQueue holds in the registry.
LEMMA RegistryRunsQueue ==
  RegistrySpec => QP!QueueSpec
BY SameQueue, RegistryUsesPullQueue, PTL DEF UsesPullQueue, Q!QueueSpec, QP!QueueSpec

LEMMA QueueOfRegistry ==
  RegistrySpec => []QP!SinglePuller /\ []QP!QueueTypeOK
<1>1. QP!QueueSpec => []QP!SinglePuller
  BY QP!OnePullerPerUrl, RegistryAssumption
<1>2. QP!QueueSpec => []QP!QueueTypeOK
  BY QP!QueueTyped, RegistryAssumption
<1> QED BY <1>1, <1>2, RegistryRunsQueue, PTL

\* In the whole registry, whatever pruners, crashes and timers do, no two calls
\* pull one URL at a time.
THEOREM RegistrySinglePuller ==
  RegistrySpec => []Q!SinglePuller
<1>1. Q!SinglePuller <=> QP!SinglePuller
  BY DEF Q!SinglePuller, QP!SinglePuller, Q!Active, QP!Active
<1> QED BY <1>1, QueueOfRegistry, PTL

\* In the whole registry a parked request is in the list its puller has still to
\* send to, also when that pull fails and when the manifest it brought is pruned.
THEOREM RegistryForgetsNobody ==
  RegistrySpec => []Q!NoWaiterForgotten
<1>1. Q!NoWaiterForgotten <=> QP!NoWaiterForgotten
  BY DEF Q!NoWaiterForgotten, QP!NoWaiterForgotten, Q!Active, QP!Active,
         Q!ElementsOf, QP!ElementsOf
<1>2. QP!QueueSpec => []QP!NoWaiterForgotten
  BY QP!NobodyForgotten, RegistryAssumption
<1> QED BY <1>1, <1>2, RegistryRunsQueue, PTL

\* In the whole registry nothing but a pull timeout can leave the mutex of the
\* pulls held: no failed pull, prune or late answer does.
THEOREM RegistrySendsBlockOnTimeoutsOnly ==
  RegistrySpec => []Q!OnlyTimeoutsBlockSends
<1>1. Q!OnlyTimeoutsBlockSends <=> QP!OnlyTimeoutsBlockSends
  BY DEF Q!OnlyTimeoutsBlockSends, QP!OnlyTimeoutsBlockSends, Q!Awaited, QP!Awaited
<1>2. QP!QueueSpec => []QP!OnlyTimeoutsBlockSends
  BY QP!SendsBlockOnTimeoutsOnly, RegistryAssumption
<1> QED BY <1>1, <1>2, RegistryRunsQueue, PTL

\* The whole registry, with its cache, pruners and crashes, does to its callers
\* what SingleFlight promises: the composition of the two refinements.
THEOREM RegistryImplementsFlight ==
  RegistrySpec => Q!ImplementsSingleFlight
<1>1. Q!Flight!FlightInit <=> QP!Flight!FlightInit
  BY DEF Q!Flight!FlightInit, QP!Flight!FlightInit, Q!RoleOf, QP!RoleOf
<1>2. [Q!Flight!FlightNext]_(Q!Flight!flightVars) <=> [QP!Flight!FlightNext]_(QP!Flight!flightVars)
  BY DEF Q!RoleOf, QP!RoleOf, Q!Flight!flightVars, QP!Flight!flightVars,
         Q!Flight!FlightNext, Q!Flight!Ask, Q!Flight!Lead, Q!Flight!Follow, Q!Flight!Announce,
         Q!Flight!Release, Q!Flight!Finish, Q!Flight!GiveUp, Q!Flight!Return, Q!Flight!Crash,
         Q!Flight!Leads, Q!Flight!Become,
         QP!Flight!FlightNext, QP!Flight!Ask, QP!Flight!Lead, QP!Flight!Follow, QP!Flight!Announce,
         QP!Flight!Release, QP!Flight!Finish, QP!Flight!GiveUp, QP!Flight!Return, QP!Flight!Crash,
         QP!Flight!Leads, QP!Flight!Become
<1>3. QP!QueueSpec => QP!ImplementsSingleFlight
  BY QP!QueueImplementsFlight, RegistryAssumption
<1> QED BY <1>1, <1>2, <1>3, RegistryRunsQueue, PTL
        DEF Q!ImplementsSingleFlight, QP!ImplementsSingleFlight, Q!Flight!FlightSpec,
            QP!Flight!FlightSpec

-----------------------------------------------------------------------------
\* What was asked for by digest u and answered with m is that digest.
Answering(u, m) == u.ref \in Digests => m.digest = u.ref

\* What call c, which asks for u, has is what it asked for: what it has pulled
\* and has still to add to the cache, and what it answers.
CallHonest(u, s, h, r) ==
  /\ s \in Stages /\ h \in Manifests \cup {NoReply} /\ r \in Replies
  /\ s \in {"fetched", "downloaded"} => Honest(h) /\ h.url = u
  /\ r \in Manifests => Answering(u, r)

CallsHonest ==
  /\ url \in [Calls -> ImageUrls]
  /\ stage \in [Calls -> Stages]
  /\ held \in [Calls -> Manifests \cup {NoReply}]
  /\ reply \in [Calls -> Replies]
  /\ \A c \in Calls : CallHonest(url[c], stage[c], held[c], reply[c])

\* The types of what pruners and readers keep; what is pruned was in the cache.
OthersTyped ==
  /\ toPrune \in [Pruners -> SUBSET Manifests]
  /\ \A p \in Pruners : \A m \in toPrune[p] : Honest(m)
  /\ passes \in [Pruners -> 0..MaxPasses]
  /\ toOpen \in [Readers -> Blobs \cup {NoBlob}]
  /\ restarts \in 0..MaxRestarts
  /\ alwaysPullLatest \in BOOLEAN /\ airGapped \in BOOLEAN

\* The store is honest whatever happened, and safe unless a race was recorded.
StoreKept ==
  HonestStore /\ TypedStore /\ raced \subseteq Races /\ (raced = {} => SafeStore)

RegistryInv == CallsHonest /\ OthersTyped /\ StoreKept

\* A call moves on, holding and answering honestly.
LEMMA CallMoves ==
  ASSUME CallsHonest, url' = url, NEW c \in Calls, NEW s, NEW h, NEW r,
         stage' = [stage EXCEPT ![c] = s], held' = [held EXCEPT ![c] = h],
         reply' = [reply EXCEPT ![c] = r], CallHonest(url[c], s, h, r)
  PROVE  CallsHonest'
<1>1. stage' \in [Calls -> Stages] /\ held' \in [Calls -> Manifests \cup {NoReply}]
      /\ reply' \in [Calls -> Replies]
  BY DEF CallsHonest, CallHonest
<1>2. ASSUME NEW e \in Calls
      PROVE  CallHonest(url[e], stage'[e], held'[e], reply'[e])
  <2>1. CASE e = c
    BY <2>1 DEF CallsHonest
  <2>2. CASE e # c
    <3>1. stage'[e] = stage[e] /\ held'[e] = held[e] /\ reply'[e] = reply[e]
      BY <2>2 DEF CallsHonest
    <3> QED BY <3>1 DEF CallsHonest
  <2> QED BY <2>1, <2>2
<1> QED BY <1>1, <1>2 DEF CallsHonest, CallHonest

\* The same, when it only changes its stage, or its stage and answer.
LEMMA CallAdvances ==
  ASSUME CallsHonest, url' = url, NEW c \in Calls, NEW s \in Stages, Advance(c, s),
         UNCHANGED held, s \in {"fetched", "downloaded"} => stage[c] \in {"fetched", "downloaded"}
  PROVE  /\ UNCHANGED reply => CallsHonest'
         /\ \A r \in Replies : reply' = [reply EXCEPT ![c] = r]
                               /\ (r \in Manifests => Answering(url[c], r)) => CallsHonest'
<1>1. CallHonest(url[c], stage[c], held[c], reply[c])
  BY DEF CallsHonest
<1>2. held' = [held EXCEPT ![c] = held[c]]
  BY DEF CallsHonest
<1>3. CASE UNCHANGED reply
  <2>1. reply' = [reply EXCEPT ![c] = reply[c]]
    BY <1>3 DEF CallsHonest
  <2>2. CallHonest(url[c], s, held[c], reply[c])
    BY <1>1 DEF CallHonest
  <2> QED BY <1>2, <2>1, <2>2, CallMoves DEF Advance
<1>4. ASSUME NEW r \in Replies, reply' = [reply EXCEPT ![c] = r],
             r \in Manifests => Answering(url[c], r)
      PROVE  CallsHonest'
  <2>1. CallHonest(url[c], s, held[c], r)
    BY <1>1, <1>4 DEF CallHonest
  <2> QED BY <1>2, <1>4, <2>1, CallMoves DEF Advance
<1> QED BY <1>3, <1>4

\* An answer from the cache is honest.
LEMMA ServedIsHonest ==
  ASSUME HonestStore, NEW u \in ImageUrls, NEW k \in KeyFor(u)
  PROVE  FromCache(k) \in Replies /\ Answering(u, FromCache(k))
BY KeyHasReference, FoundIsHonest DEF Answering, Honest, Replies

\* A step that leaves the maps and counts alone, and only adds files.
LEMMA StoreKeptWhenQuiet ==
  ASSUME StoreKept, UNCHANGED <<manifests, latest, refCnt>>, HonestDirs(disk'),
         blobFiles \subseteq blobFiles', blobFiles' \subseteq Blobs, UNCHANGED raced
  PROVE  StoreKept'
<1>1. PrimaryOf(manifests', latest') = Primary
  BY PrimaryIsOf DEF StoreKept
<1>2. HonestStore' /\ HonestMaps(manifests', latest')
  BY DEF StoreKept, HonestStore
<1> QED BY <1>1, <1>2, QuietIsSafe DEF StoreKept

\* A step that has nothing to do with the store.
LEMMA StoreKeptAlone ==
  ASSUME StoreKept, UNCHANGED <<storeVars, raced>>
  PROVE  StoreKept'
BY StoreKeptWhenQuiet DEF storeVars, StoreKept, HonestStore, TypedStore

\* A hit, whether or not the file can be written.
LEMMA StoreKeptWhenTouched ==
  ASSUME StoreKept, NEW u \in ImageUrls, NEW k \in KeyFor(u), UNCHANGED raced,
         Touch(u, k) \/ (TouchInMemory(u, k) /\ UNCHANGED <<refCnt, disk, blobFiles>>)
  PROVE  StoreKept'
<1>1. HonestStore' /\ PrimaryOf(manifests', latest') = Primary
  BY TouchKeepsHonest, PrimaryTouched DEF Touch, StoreKept
<1>2. UNCHANGED <<refCnt, blobFiles>>
  BY DEF Touch
<1> QED BY <1>1, <1>2, QuietIsSafe DEF StoreKept, HonestStore, TypedStore

-----------------------------------------------------------------------------
\* The requests of a call that leaves the cache alone.
LEMMA PlainCallKeeps ==
  ASSUME RegistryInv, NEW c \in Calls, UNCHANGED url,
         Admit(c) \/ Miss(c) \/ Enqueue(c) \/ Signal(c) \/ TimeOut(c)
  PROVE  RegistryInv'
<1>1. UNCHANGED <<storeVars, raced>> /\ UNCHANGED <<prunerVars, toOpen, restarts, settings, held>>
  BY DEF Admit, Miss, Enqueue, Signal, TimeOut, callVars
<1>2. StoreKept' /\ OthersTyped'
  <2>1. StoreKept'
    BY <1>1, StoreKeptAlone DEF RegistryInv
  <2>2. OthersTyped'
    BY <1>1 DEF RegistryInv, OthersTyped, prunerVars, settings
  <2> QED BY <2>1, <2>2
<1>3. CASE UNCHANGED <<stage, reply>>
  BY <1>1, <1>2, <1>3 DEF RegistryInv, CallsHonest, CallHonest
<1>4. ASSUME NEW s \in Stages \ {"fetched", "downloaded"}, Advance(c, s), UNCHANGED reply
      PROVE  CallsHonest'
  BY <1>1, <1>4, CallAdvances DEF RegistryInv
<1>5. ASSUME Answer(c, Failed)
      PROVE  CallsHonest'
  <2>1. Failed \in Replies /\ Failed \notin Manifests /\ "over" \in Stages
    BY RegistryAssumption DEF Replies, Stages
  <2>2. Advance(c, "over") /\ reply' = [reply EXCEPT ![c] = Failed]
    BY <1>5 DEF Answer
  <2>3. "over" \notin {"fetched", "downloaded"}
    OBVIOUS
  <2> HIDE DEF Advance, Answer
  <2> QED BY <1>1, <2>1, <2>2, <2>3, CallAdvances DEF RegistryInv
<1>6. \/ UNCHANGED <<stage, reply>>
      \/ \E s \in Stages \ {"fetched", "downloaded"} : Advance(c, s) /\ UNCHANGED reply
      \/ Answer(c, Failed)
  <2>1. {"admitted", "looked", "over"} \subseteq Stages \ {"fetched", "downloaded"}
    BY DEF Stages
  <2>2. CASE Admit(c)
    BY <2>1, <2>2 DEF Admit
  <2>3. CASE Miss(c)
    BY <2>1, <2>3 DEF Miss
  <2>4. CASE Enqueue(c)
    BY <2>4 DEF Enqueue, callVars
  <2>5. CASE Signal(c)
    BY <2>1, <2>5 DEF Signal
  <2>6. CASE TimeOut(c)
    BY <2>6 DEF TimeOut
  <2> QED BY <2>2, <2>3, <2>4, <2>5, <2>6
<1> QED BY <1>2, <1>3, <1>4, <1>5, <1>6 DEF RegistryInv

\* A call that finds the manifest, at once or after waiting.
LEMMA ServeKeeps ==
  ASSUME RegistryInv, NEW c \in Calls, UNCHANGED url,
         Serve(c) \/ ReadAfterWait(c) \/ MissUnwritable(c)
  PROVE  RegistryInv'
<1> USE DEF RegistryInv
<1>1. UNCHANGED <<prunerVars, toOpen, restarts, settings, held, raced>>
  BY DEF Serve, ReadAfterWait, MissUnwritable
<1>2. OthersTyped'
  BY <1>1 DEF OthersTyped, prunerVars, settings
<1>3. url[c] \in ImageUrls /\ HonestStore
  BY DEF CallsHonest, StoreKept
<1>4. {"looked", "over"} \subseteq Stages
  BY DEF Stages
<1>5. ASSUME NEW k \in KeyFor(url[c]), Touch(url[c], k), Answer(c, FromCache(k))
      PROVE  CallsHonest' /\ StoreKept'
  <2>1. FromCache(k) \in Replies /\ Answering(url[c], FromCache(k))
    BY <1>3, ServedIsHonest
  <2>2. CallsHonest'
    BY <1>1, <1>4, <1>5, <2>1, CallAdvances DEF Answer
  <2>3. StoreKept'
    BY <1>1, <1>3, <1>5, StoreKeptWhenTouched
  <2> QED BY <2>2, <2>3
<1>6. ASSUME Answer(c, Failed), UNCHANGED storeVars
      PROVE  CallsHonest' /\ StoreKept'
  <2>1. Failed \in Replies /\ Failed \notin Manifests
    BY RegistryAssumption DEF Replies
  <2>2. CallsHonest'
    BY <1>1, <1>4, <1>6, <2>1, CallAdvances DEF Answer
  <2> QED BY <1>1, <1>6, <2>2, StoreKeptAlone
<1>7. ASSUME NEW k \in KeyFor(url[c]), TouchInMemory(url[c], k),
             UNCHANGED <<refCnt, disk, blobFiles>>,
             (Advance(c, "looked") /\ UNCHANGED reply) \/ Answer(c, Failed)
      PROVE  CallsHonest' /\ StoreKept'
  <2>1. Failed \in Replies /\ Failed \notin Manifests
    BY RegistryAssumption DEF Replies
  <2>2. StoreKept'
    BY <1>1, <1>3, <1>7, StoreKeptWhenTouched
  <2>3. CASE Advance(c, "looked") /\ UNCHANGED reply
    BY <1>1, <1>4, <2>2, <2>3, CallAdvances
  <2>4. CASE Answer(c, Failed)
    BY <1>1, <1>4, <2>1, <2>2, <2>4, CallAdvances DEF Answer
  <2> QED BY <1>7, <2>3, <2>4
<1>8. CASE MissUnwritable(c)
  BY <1>2, <1>7, <1>8 DEF MissUnwritable
<1>9. CASE Serve(c)
  BY <1>2, <1>5, <1>9 DEF Serve
<1>10. CASE ReadAfterWait(c)
  BY <1>2, <1>5, <1>6, <1>7, <1>10 DEF ReadAfterWait
<1> QED BY <1>8, <1>9, <1>10

\* The upstream answers with an honest manifest, whose file is written.
LEMMA FetchKeeps ==
  ASSUME RegistryInv, NEW c \in Calls, UNCHANGED url, Fetch(c)
  PROVE  RegistryInv'
<1> USE DEF RegistryInv
<1>1. UNCHANGED <<manifests, latest, refCnt, blobFiles, reply, prunerVars, toOpen, restarts, raced, settings>>
  BY DEF Fetch
<1>2. url[c] \in ImageUrls
  BY DEF CallsHonest
<1>3. PICK d \in Answers(url[c]) :
        /\ held' = [held EXCEPT ![c] = [url |-> url[c], digest |-> d]]
        /\ disk' = FileAdded([url |-> url[c], digest |-> d])
        /\ Advance(c, "fetched")
  BY DEF Fetch
<1> DEFINE m == [url |-> url[c], digest |-> d]
<1>4. Honest(m) /\ m \in Manifests /\ m.url = url[c]
  <2>1. d \in Digests
    BY <1>3 DEF Answers
  <2> QED BY <1>2, <1>3, <2>1, PulledIsHonest DEF Honest
<1>5. held' = [held EXCEPT ![c] = m] /\ disk' = FileAdded(m)
  BY <1>3
<1> HIDE DEF m
<1>6. CallsHonest'
  <2>1. reply' = [reply EXCEPT ![c] = reply[c]] /\ CallHonest(url[c], stage[c], held[c], reply[c])
    BY <1>1 DEF CallsHonest
  <2>2. CallHonest(url[c], "fetched", m, reply[c])
    BY <1>4, <2>1 DEF CallHonest, Stages
  <2> QED BY <1>3, <1>5, <2>1, <2>2, CallMoves DEF Advance
<1>7. HonestDirs(disk')
  BY <1>4, <1>5, FilesStayHonest DEF StoreKept, HonestStore
<1>8. StoreKept'
  BY <1>1, <1>7, StoreKeptWhenQuiet DEF StoreKept, TypedStore
<1> QED BY <1>1, <1>6, <1>8 DEF OthersTyped, prunerVars, settings

\* Blobs are downloaded, all of them or only some.
LEMMA DownloadKeeps ==
  ASSUME RegistryInv, NEW c \in Calls, UNCHANGED url, Download(c) \/ PullFails(c)
  PROVE  RegistryInv'
<1> USE DEF RegistryInv
<1>1. UNCHANGED <<manifests, latest, refCnt, disk, held, prunerVars, toOpen, restarts, raced, settings>>
  BY DEF Download, PullFails
<1>2. stage[c] = "fetched" => BlobsOf(held[c].digest) \subseteq Blobs
  BY LayersTyped DEF CallsHonest, CallHonest, Honest, Manifests
<1>3. blobFiles \subseteq blobFiles' /\ blobFiles' \subseteq Blobs
  BY <1>2 DEF Download, PullFails, StoreKept, TypedStore
<1>4. StoreKept'
  BY <1>1, <1>3, StoreKeptWhenQuiet DEF StoreKept, HonestStore
<1>5. CASE Download(c)
  <2>1. Advance(c, "downloaded") /\ stage[c] = "fetched" /\ UNCHANGED reply /\ "downloaded" \in Stages
    BY <1>5 DEF Download, Stages
  <2> QED BY <1>1, <1>4, <2>1, CallAdvances DEF OthersTyped, prunerVars, settings
<1>6. CASE PullFails(c)
  <2>1. Advance(c, "returning") /\ reply' = [reply EXCEPT ![c] = Failed] /\ "returning" \in Stages
    BY <1>6 DEF PullFails, Return, Stages
  <2>2. Failed \in Replies /\ Failed \notin Manifests
    BY RegistryAssumption DEF Replies
  <2>3. CallsHonest'
    BY <1>1, <2>1, <2>2, CallAdvances
  <2> QED BY <1>1, <1>4, <2>3 DEF OthersTyped, prunerVars, settings
<1> QED BY <1>5, <1>6

\* The manifest is added to the cache or replaces what is there.  If a blob has
\* been taken away in the meantime, that is recorded as a race.
LEMMA InsertKeeps ==
  ASSUME RegistryInv, NEW c \in Calls, UNCHANGED url, Insert(c)
  PROVE  RegistryInv'
<1> USE DEF RegistryInv
<1> DEFINE m == held[c]
           missing == ~Complete(m.digest, blobFiles)
           unchanged == Forced(url[c]) /\ url[c] \in Cached /\ FromCache(url[c]).digest = m.digest
<1>1. UNCHANGED <<held, prunerVars, toOpen, restarts, settings>>
  BY DEF Insert
<1>2. Honest(m) /\ m.url = url[c] /\ m \in Manifests
  BY DEF Insert, CallsHonest, CallHonest, Honest
<1>3. raced' = raced \cup {x \in {"blob"} : missing /\ ~unchanged}
  BY DEF Insert
<1>4. \/ Forced(url[c]) /\ ReplaceInCache(m, disk, blobFiles)
      \/ AddToCache(m, blobFiles) /\ UNCHANGED <<disk, blobFiles>> /\ ~Forced(url[c])
  BY DEF Insert
<1>5. Return(c, Failed) \/ Return(c, m)
  BY DEF Insert
<1>6. HonestStore /\ TypedStore /\ HonestDirs(disk) /\ blobFiles \in SUBSET Blobs
      /\ raced \subseteq Races /\ (raced = {} => SafeStore)
  BY DEF StoreKept, HonestStore, TypedStore
<1>7. HonestStore' /\ TypedStore' /\ (SafeStore /\ (unchanged \/ ~missing) => SafeStore')
  <2>1. CASE Forced(url[c]) /\ ReplaceInCache(m, disk, blobFiles)
    <3>1. IsLatest(m.url)
      BY <1>2, <2>1 DEF Forced
    <3>2. HonestStore'
      BY <1>2, <1>6, <2>1, ReplaceKeepsHonest
    <3>3. TypedStore' /\ (/\ SafeStore
                          /\ \/ Complete(m.digest, blobFiles)
                             \/ m.url \in Cached /\ FromCache(m.url).digest = m.digest
                          => SafeStore')
      BY <1>2, <1>6, <2>1, <3>1, ReplaceIsSafe
    <3> QED BY <1>2, <3>2, <3>3
  <2>2. CASE AddToCache(m, blobFiles) /\ UNCHANGED <<disk, blobFiles>> /\ ~Forced(url[c])
    <3>1. HonestMaps(manifests', latest')
      BY <1>2, <1>6, <2>2, AddKeepsHonest
    <3>2. TypedStore' /\ (SafeStore /\ Complete(m.digest, blobFiles) => SafeStore')
      BY <1>2, <1>6, <2>2, AddIsSafe
    <3> QED BY <1>6, <2>2, <3>1, <3>2 DEF HonestStore
  <2> QED BY <1>4, <2>1, <2>2
<1> HIDE DEF m, missing, unchanged
<1>8. StoreKept'
  <2>1. raced' \subseteq Races
    BY <1>3, <1>6 DEF Races
  <2>2. raced' = {} => raced = {} /\ (unchanged \/ ~missing)
    BY <1>3
  <2> QED BY <1>6, <1>7, <2>1, <2>2 DEF StoreKept
<1>9. CallsHonest'
  <2>1. Failed \in Replies /\ Failed \notin Manifests /\ "returning" \in Stages
    BY RegistryAssumption DEF Replies, Stages
  <2>2. m \in Replies /\ Answering(url[c], m)
    BY <1>2 DEF Replies, Answering, Honest
  <2>3. CASE Return(c, Failed)
    BY <1>1, <2>1, <2>3, CallAdvances DEF Return
  <2>4. CASE Return(c, m)
    BY <1>1, <2>1, <2>2, <2>4, CallAdvances DEF Return
  <2> QED BY <1>5, <2>3, <2>4
<1> QED BY <1>1, <1>8, <1>9 DEF OthersTyped, prunerVars, settings

\* A pruner selects honest manifests, and prunes them later: one that is no
\* longer there is recorded as a race.
LEMMA PrunerKeeps ==
  ASSUME RegistryInv, NEW p \in Pruners, UNCHANGED url, Select(p) \/ PruneOne(p)
  PROVE  RegistryInv'
<1> USE DEF RegistryInv
<1>1. UNCHANGED <<stage, held, reply, toOpen, restarts, settings>>
  BY DEF Select, PruneOne, callVars
<1>2. CallsHonest'
  BY <1>1 DEF CallsHonest, CallHonest
<1>3. CASE Select(p)
  <2>1. UNCHANGED <<storeVars, raced>>
    BY <1>3 DEF Select
  <2>2. PICK ms \in SUBSET Primary : toPrune' = [toPrune EXCEPT ![p] = ms]
    BY <1>3 DEF Select
  <2>3. \A m \in ms : Honest(m) /\ m \in Manifests
    BY PrimaryIsHonest DEF StoreKept, Honest
  <2>4. passes' = [passes EXCEPT ![p] = @ + 1] /\ passes[p] < MaxPasses
    BY <1>3 DEF Select
  <2>5. passes' \in [Pruners -> 0..MaxPasses]
    BY <2>4, RegistryAssumption DEF OthersTyped
  <2>6. OthersTyped'
    BY <1>1, <2>2, <2>3, <2>5 DEF OthersTyped, settings
  <2> QED BY <1>2, <2>1, <2>6, StoreKeptAlone
<1>4. CASE PruneOne(p)
  <2>1. PICK m \in toPrune[p] :
          /\ Prune(m)
          /\ toPrune' = [toPrune EXCEPT ![p] = @ \ {m}]
          /\ raced' = raced \cup {x \in {"manifest"} : m \notin Primary}
    BY <1>4 DEF PruneOne
  <2>2. Honest(m) /\ UNCHANGED passes
    BY <1>4 DEF OthersTyped, PruneOne
  <2>3. OthersTyped'
    BY <1>1, <2>1, <2>2 DEF OthersTyped, settings
  <2>4. HonestStore' /\ TypedStore' /\ (SafeStore /\ m \in Primary => SafeStore')
    BY <2>1, <2>2, PruneKeepsHonest, PruneIsSafe DEF StoreKept
  <2>5. raced' \subseteq Races /\ (raced' = {} => raced = {} /\ m \in Primary)
    BY <2>1 DEF StoreKept, Races
  <2> QED BY <1>2, <2>3, <2>4, <2>5 DEF StoreKept
<1> QED BY <1>3, <1>4

\* A blob that is counted is noted, and later opened.
LEMMA ReaderKeeps ==
  ASSUME RegistryInv, NEW r \in Readers, UNCHANGED url, CheckBlob(r) \/ OpenBlob(r)
  PROVE  RegistryInv'
<1>1. UNCHANGED <<storeVars, raced>> /\ UNCHANGED <<callVars, prunerVars, restarts, settings>>
  BY DEF CheckBlob, OpenBlob
<1>2. toOpen' \in [Readers -> Blobs \cup {NoBlob}]
  BY DEF CheckBlob, OpenBlob, RegistryInv, OthersTyped
<1> QED BY <1>1, <1>2, StoreKeptAlone
        DEF RegistryInv, CallsHonest, CallHonest, OthersTyped, callVars, prunerVars, settings

\* The process dies and is started again.
LEMMA RestartKeeps ==
  ASSUME RegistryInv, UNCHANGED url, Restart
  PROVE  RegistryInv'
<1> USE DEF RegistryInv
<1>1. HonestStore' /\ TypedStore' /\ SafeStore' /\ raced' = {}
  BY LoadKeepsHonest, LoadIsSafe DEF Restart, StoreKept
<1>2. stage' = [c \in Calls |-> IF stage[c] = "over" THEN "over" ELSE "received"]
      /\ held' = [c \in Calls |-> NoReply]
      /\ reply' = [c \in Calls |-> IF stage[c] = "over" THEN reply[c] ELSE NoReply]
  BY DEF Restart
<1>3. ASSUME NEW c \in Calls
      PROVE  CallHonest(url[c], stage'[c], held'[c], reply'[c])
  <2>1. CallHonest(url[c], stage[c], held[c], reply[c]) /\ NoReply \notin Manifests
    BY RegistryAssumption DEF CallsHonest
  <2>2. CASE stage[c] = "over"
    BY <1>2, <2>1, <2>2 DEF CallHonest
  <2>3. CASE stage[c] # "over"
    BY <1>2, <2>1, <2>3 DEF CallHonest, Stages, Replies
  <2> QED BY <2>2, <2>3
<1>4. CallsHonest'
  BY <1>2, <1>3 DEF CallsHonest, CallHonest
<1>5. restarts' = restarts + 1 /\ restarts < MaxRestarts /\ UNCHANGED <<passes, settings>>
      /\ toPrune' = [p \in Pruners |-> {}] /\ toOpen' = [r \in Readers |-> NoBlob]
  BY DEF Restart
<1>6. OthersTyped'
  BY <1>5, RegistryAssumption DEF OthersTyped, settings
<1> QED BY <1>1, <1>4, <1>6 DEF StoreKept

\* RegistryInv is inductive.
LEMMA RegistryStep ==
  ASSUME RegistryInv, [RegistryNext]_vars
  PROVE  RegistryInv'
<1>1. UNCHANGED url
  BY UrlsAreFixed DEF RegistryInv, CallsHonest
<1>2. ASSUME NEW c \in Calls, CallStep(c) PROVE RegistryInv'
  BY <1>1, <1>2, PlainCallKeeps, ServeKeeps, FetchKeeps, DownloadKeeps, InsertKeeps DEF CallStep
<1>3. CASE UNCHANGED vars
  <2>1. UNCHANGED <<storeVars, raced>> /\ UNCHANGED <<stage, held, reply, toPrune, passes, toOpen, restarts, settings>>
    BY <1>3 DEF vars, callVars, prunerVars
  <2> QED BY <1>1, <2>1, StoreKeptAlone DEF RegistryInv, CallsHonest, CallHonest, OthersTyped, settings
<1> QED BY <1>1, <1>2, <1>3, PrunerKeeps, ReaderKeeps, RestartKeeps DEF RegistryNext

\* And it holds when the server first starts.
LEMMA RegistryStart ==
  ASSUME RegistryInit
  PROVE  RegistryInv
<1>1. \A m \in Preloaded : Honest(m)
  BY RegistryAssumption DEF Honest
<1>2. HonestStore /\ TypedStore /\ SafeStore /\ raced = {}
  BY <1>1, StartIsSafe DEF RegistryInit
<1>3. CallsHonest
  BY RegistryAssumption DEF RegistryInit, CallsHonest, CallHonest, Stages, Replies
<1>4. OthersTyped
  BY RegistryAssumption, StoreAssumption DEF RegistryInit, OthersTyped
<1> QED BY <1>2, <1>3, <1>4 DEF RegistryInv, StoreKept

\* It always holds.
LEMMA RegistryAlwaysInv ==
  RegistrySpec => []RegistryInv
<1>1. RegistryInit => RegistryInv
  BY RegistryStart
<1>2. RegistryInv /\ [RegistryNext]_vars => RegistryInv'
  BY RegistryStep
<1> QED BY <1>1, <1>2, PTL DEF RegistrySpec

\* However many requests, prunes, replacements, failures and crashes overlap, a
\* request by digest is answered with that digest or an error (GetManifest).
THEOREM AnswersAlwaysHonest ==
  RegistrySpec => []AnswersAreHonest
<1>1. RegistryInv => AnswersAreHonest
  BY DEF RegistryInv, CallsHonest, CallHonest, AnswersAreHonest, Answered, Answering
<1> QED BY <1>1, RegistryAlwaysInv, PTL

\* And as long as no insertion came upon a blob, and no prune upon a manifest,
\* that had been taken away, no count is too low and every listed image can be
\* served (addToCache, replaceInCache, doPrune).
THEOREM SafeUnlessRacedAlways ==
  RegistrySpec => []SafeUnlessRaced
<1>1. RegistryInv => SafeUnlessRaced
  BY SafetyMeans DEF RegistryInv, StoreKept, SafeUnlessRaced
<1> QED BY <1>1, RegistryAlwaysInv, PTL

\* Every variable of the registry has its type.
THEOREM RegistryTyped ==
  RegistrySpec => []RegistryTypeOK
<1>1. QP!QueueTypeOK => Q!QueueTypeOK
  BY DEF QP!QueueTypeOK, Q!QueueTypeOK, QP!PcValues, Q!PcValues, QP!ElementsOf, Q!ElementsOf
<1>2. RegistryInv /\ Q!QueueTypeOK => RegistryTypeOK
  <2> SUFFICES ASSUME RegistryInv, Q!QueueTypeOK PROVE RegistryTypeOK
    OBVIOUS
  <2>1. StoreTypeOK
    BY TypesOfStore DEF RegistryInv, StoreKept, OthersTyped
  <2> QED BY <2>1 DEF RegistryInv, CallsHonest, OthersTyped, StoreKept, RegistryTypeOK
<1> QED BY <1>1, <1>2, RegistryAlwaysInv, QueueOfRegistry, PTL

-----------------------------------------------------------------------------
\* Nothing is pruned or replaced: there is no pruner, and alwaysPullLatest is off.
NothingIsTakenAway == Pruners = {} /\ PullLatestSettings \subseteq {FALSE}

\* A manifest with digest d has a file; one that is kept also has all its blobs,
\* each with a file and a count.
OnDisk(d, dirs) == \E dir \in Dirs : d \in DOMAIN dirs[dir]
Kept(d, dirs, cnt, files) ==
  OnDisk(d, dirs) /\ \A b \in BlobsOf(d) : cnt[b] > 0 /\ b \in files

\* What call c has pulled so far is there, and so is all of what it answers.
CallKept(s, h, r, dirs, cnt, files) ==
  /\ s \in {"fetched", "downloaded"} => OnDisk(h.digest, dirs)
  /\ s = "downloaded" => Complete(h.digest, files)
  /\ r \in Manifests => Kept(r.digest, dirs, cnt, files)

CallsKept == \A c \in Calls : CallKept(stage[c], held[c], reply[c], disk, refCnt, blobFiles)

EntriesKept ==
  /\ \A k \in DOMAIN manifests : Kept(manifests[k].digest, disk, refCnt, blobFiles)
  /\ \A k \in DOMAIN latest : Kept(latest[k].digest, disk, refCnt, blobFiles)

NoFileTorn == \A dir \in Dirs : \A d \in DOMAIN disk[dir] : disk[dir][d] # Torn

\* What holds when nothing is taken away: every entry is kept, and so is what was answered.
NothingLost ==
  /\ alwaysPullLatest = FALSE /\ raced = {}
  /\ NoFileTorn /\ EntriesKept /\ CallsKept

\* The files and counts have only grown.
Grown ==
  /\ \A dir \in Dirs : DOMAIN disk[dir] \subseteq DOMAIN disk'[dir]
  /\ blobFiles \subseteq blobFiles'
  /\ \A b \in Blobs : refCnt[b] > 0 => refCnt'[b] > 0

\* The URL of an image is not what a torn file holds.
LEMMA UrlIsNotTorn ==
  \A u \in ImageUrls : u # Torn
<1>1. DOMAIN Torn = {"cut"}
  BY DEF Torn
<1>2. \A u \in ImageUrls : "repo" \in DOMAIN u
  BY DEF ImageUrls
<1> QED BY <1>1, <1>2

\* What was kept, and what a call had, is kept as files and counts grow.
LEMMA GrownKeeps ==
  ASSUME Grown
  PROVE  /\ \A d \in Digests : Kept(d, disk, refCnt, blobFiles) => Kept(d, disk', refCnt', blobFiles')
         /\ \A s, r : \A h \in Manifests \cup {NoReply} :
              CallKept(s, h, r, disk, refCnt, blobFiles) => CallKept(s, h, r, disk', refCnt', blobFiles')
<1>1. ASSUME NEW d \in Digests, Kept(d, disk, refCnt, blobFiles)
      PROVE  Kept(d, disk', refCnt', blobFiles')
  <2>1. BlobsOf(d) \subseteq Blobs
    BY LayersTyped
  <2> QED BY <1>1, <2>1 DEF Grown, Kept, OnDisk
<1>2. ASSUME NEW s, NEW r, NEW h, CallKept(s, h, r, disk, refCnt, blobFiles)
      PROVE  CallKept(s, h, r, disk', refCnt', blobFiles')
  <2>1. r \in Manifests => r.digest \in Digests
    BY DEF Manifests
  <2>2. OnDisk(h.digest, disk) => OnDisk(h.digest, disk')
    BY DEF Grown, OnDisk
  <2>3. Complete(h.digest, blobFiles) => Complete(h.digest, blobFiles')
    BY DEF Grown, Complete
  <2> QED BY <1>1, <1>2, <2>1, <2>2, <2>3 DEF CallKept
<1> QED BY <1>1, <1>2

\* A step of call c, after which only more is there.
LEMMA CallStepLosesNothing ==
  ASSUME RegistryInv, NothingLost, Grown, NEW c \in Calls, NEW s, NEW h, NEW r,
         stage' = [stage EXCEPT ![c] = s], held' = [held EXCEPT ![c] = h],
         reply' = [reply EXCEPT ![c] = r], CallKept(s, h, r, disk', refCnt', blobFiles')
  PROVE  CallsKept'
<1> SUFFICES ASSUME NEW e \in Calls
             PROVE  CallKept(stage'[e], held'[e], reply'[e], disk', refCnt', blobFiles')
  BY DEF CallsKept
<1>1. CASE e = c
  BY <1>1 DEF RegistryInv, CallsHonest
<1>2. CASE e # c
  <2>1. stage'[e] = stage[e] /\ held'[e] = held[e] /\ reply'[e] = reply[e]
    BY <1>2 DEF RegistryInv, CallsHonest
  <2>2. CallKept(stage[e], held[e], reply[e], disk, refCnt, blobFiles)
    BY DEF NothingLost, CallsKept
  <2>3. held[e] \in Manifests \cup {NoReply}
    BY DEF RegistryInv, CallsHonest
  <2> QED BY <2>1, <2>2, <2>3, GrownKeeps
<1> QED BY <1>1, <1>2

\* The entries that stay are kept as files and counts grow.
LEMMA EntriesStayKept ==
  ASSUME RegistryInv, NothingLost, Grown,
         \A k \in DOMAIN manifests' :
           \/ Kept(manifests'[k].digest, disk', refCnt', blobFiles')
           \/ k \in DOMAIN manifests /\ manifests'[k] = manifests[k],
         \A k \in DOMAIN latest' :
           \/ Kept(latest'[k].digest, disk', refCnt', blobFiles')
           \/ k \in DOMAIN latest /\ latest'[k] = latest[k]
  PROVE  EntriesKept'
<1>1. /\ \A k \in DOMAIN manifests : manifests[k].digest \in Digests
      /\ \A k \in DOMAIN latest : latest[k].digest \in Digests
  BY DEF RegistryInv, StoreKept, HonestStore, HonestMaps, HonestMap, Honest, Manifests
<1>2. EntriesKept
  BY DEF NothingLost
<1>3. ASSUME NEW k \in DOMAIN manifests'
      PROVE  Kept(manifests'[k].digest, disk', refCnt', blobFiles')
  BY <1>1, <1>2, GrownKeeps DEF EntriesKept
<1>4. ASSUME NEW k \in DOMAIN latest'
      PROVE  Kept(latest'[k].digest, disk', refCnt', blobFiles')
  BY <1>1, <1>2, GrownKeeps DEF EntriesKept
<1> QED BY <1>3, <1>4 DEF EntriesKept

\* Writing the file of an honest manifest leaves every file there, and none torn.
LEMMA FileAddedGrows ==
  ASSUME HonestDirs(disk), NoFileTorn, NEW m, Honest(m), disk' = FileAdded(m)
  PROVE  /\ \A dir \in Dirs : DOMAIN disk[dir] \subseteq DOMAIN disk'[dir]
         /\ NoFileTorn' /\ OnDisk(m.digest, disk')
<1>1. m.url \in ImageUrls /\ m.url # Torn
  BY UrlIsNotTorn DEF Honest, Manifests
<1>2. DirOf(m.url) \in Dirs /\ DOMAIN disk = Dirs
  BY DEF DirOf, Dirs, HonestDirs
<1>3. \A dir \in Dirs : disk'[dir] = IF dir = DirOf(m.url) THEN Put(disk[dir], m.digest, m.url) ELSE disk[dir]
  BY <1>2 DEF FileAdded
<1>4. \A f : DOMAIN Put(f, m.digest, m.url) = DOMAIN f \cup {m.digest}
  BY DEF Put
<1>5. \A f : \A d \in DOMAIN f : Put(f, m.digest, m.url)[d] \in {f[d], m.url}
  BY DEF Put
<1>6. \A f : Put(f, m.digest, m.url)[m.digest] = m.url
  BY DEF Put
<1>7. ASSUME NEW dir \in Dirs, NEW d \in DOMAIN disk'[dir]
      PROVE  disk'[dir][d] # Torn
  <2>1. CASE dir = DirOf(m.url)
    <3>1. disk'[dir] = Put(disk[dir], m.digest, m.url)
      BY <1>3, <2>1
    <3>2. d \in DOMAIN disk[dir] \/ d = m.digest
      BY <1>4, <1>7, <3>1
    <3>3. (disk'[dir][d] = disk[dir][d] /\ d \in DOMAIN disk[dir]) \/ disk'[dir][d] = m.url
      BY <1>5, <1>6, <3>1, <3>2
    <3> QED BY <1>1, <3>3 DEF NoFileTorn
  <2>2. CASE dir # DirOf(m.url)
    BY <1>3, <1>7, <2>2 DEF NoFileTorn
  <2> QED BY <2>1, <2>2
<1>8. OnDisk(m.digest, disk')
  BY <1>2, <1>3, <1>4 DEF OnDisk
<1> QED BY <1>3, <1>4, <1>7, <1>8 DEF NoFileTorn

\* What is found in the cache is kept.
LEMMA FoundIsKept ==
  ASSUME NothingLost, NEW k \in Cached
  PROVE  Kept(FromCache(k).digest, disk, refCnt, blobFiles)
BY DEF NothingLost, EntriesKept, Cached, FromCache

\* A hit changes which entries there are, to one that is kept.
LEMMA TouchLosesNothing ==
  ASSUME RegistryInv, NothingLost, NEW u \in ImageUrls, NEW k \in KeyFor(u), TouchInMemory(u, k),
         UNCHANGED <<refCnt, blobFiles>>, disk' = disk \/ disk' = FileAdded(FromCache(k))
  PROVE  /\ Grown /\ NoFileTorn' /\ EntriesKept'
         /\ Kept(FromCache(k).digest, disk', refCnt', blobFiles')
<1>1. k \in Cached /\ HonestStore
  BY KeyHasReference DEF RegistryInv, StoreKept
<1>2. Honest(FromCache(k)) /\ FromCache(k).digest \in Digests
  BY <1>1, FoundIsHonest DEF Honest, Manifests
<1>3. NoFileTorn /\ Kept(FromCache(k).digest, disk, refCnt, blobFiles)
  BY <1>1, FoundIsKept DEF NothingLost
<1>4. Grown /\ NoFileTorn'
  <2>1. CASE disk' = disk
    BY <1>3, <2>1 DEF Grown, NoFileTorn
  <2>2. CASE disk' = FileAdded(FromCache(k))
    <3>1. NoFileTorn' /\ \A dir \in Dirs : DOMAIN disk[dir] \subseteq DOMAIN disk'[dir]
      <4> HIDE DEF FromCache, FileAdded
      <4> QED BY <1>1, <1>2, <1>3, <2>2, FileAddedGrows DEF HonestStore
    <3> QED BY <3>1 DEF Grown
  <2> QED BY <2>1, <2>2
<1>5. Kept(FromCache(k).digest, disk', refCnt', blobFiles')
  BY <1>2, <1>3, <1>4, GrownKeeps
<1>6. \A j \in DOMAIN manifests' :
        manifests'[j] = FromCache(k) \/ (j \in DOMAIN manifests /\ manifests'[j] = manifests[j])
  BY DEF TouchInMemory, Put
<1>7. \A j \in DOMAIN latest' :
        latest'[j] = FromCache(k) \/ (j \in DOMAIN latest /\ latest'[j] = latest[j])
  BY DEF TouchInMemory, Put
<1>8. EntriesKept'
  BY <1>4, <1>5, <1>6, <1>7, EntriesStayKept
<1> QED BY <1>4, <1>5, <1>8

\* A call that has its answer keeps it.
LEMMA AnsweredLosesNothing ==
  ASSUME RegistryInv, NothingLost, Grown, NEW c \in Calls, NEW s \in Stages \ {"fetched", "downloaded"},
         Advance(c, s), UNCHANGED held,
         \/ UNCHANGED reply
         \/ reply' = [reply EXCEPT ![c] = Failed]
         \/ \E m \in Manifests : /\ reply' = [reply EXCEPT ![c] = m]
                                 /\ Kept(m.digest, disk', refCnt', blobFiles')
  PROVE  CallsKept'
<1>1. held' = [held EXCEPT ![c] = held[c]]
  BY DEF RegistryInv, CallsHonest
<1>2. Failed \notin Manifests
  BY RegistryAssumption
<1>3. CASE UNCHANGED reply
  <2>1. reply' = [reply EXCEPT ![c] = reply[c]] /\ held[c] \in Manifests \cup {NoReply}
    BY <1>3 DEF RegistryInv, CallsHonest
  <2>2. CallKept(stage[c], held[c], reply[c], disk, refCnt, blobFiles)
    BY DEF NothingLost, CallsKept
  <2>3. CallKept(s, held[c], reply[c], disk', refCnt', blobFiles')
    BY <2>1, <2>2, GrownKeeps DEF CallKept
  <2> QED BY <1>1, <2>1, <2>3, CallStepLosesNothing DEF Advance
<1>4. CASE reply' = [reply EXCEPT ![c] = Failed]
  <2>1. CallKept(s, held[c], Failed, disk', refCnt', blobFiles')
    BY <1>2 DEF CallKept
  <2> QED BY <1>1, <1>4, <2>1, CallStepLosesNothing DEF Advance
<1>5. ASSUME NEW m \in Manifests, reply' = [reply EXCEPT ![c] = m],
             Kept(m.digest, disk', refCnt', blobFiles')
      PROVE  CallsKept'
  <2>1. CallKept(s, held[c], m, disk', refCnt', blobFiles')
    BY <1>5 DEF CallKept
  <2> QED BY <1>1, <1>5, <2>1, CallStepLosesNothing DEF Advance
<1> QED BY <1>3, <1>4, <1>5

\* What Load finds of a manifest that has a file and all its blobs, with no file
\* torn: it counts each of them.
LEMMA LoadCounts ==
  ASSUME HonestDirs(disk), NoFileTorn, NEW d, OnDisk(d, disk), Complete(d, blobFiles)
  PROVE  \A b \in BlobsOf(d) : LoadedCounts[b] > 0
<1>1. PICK dir \in Dirs : d \in DOMAIN disk[dir]
  BY DEF OnDisk
<1>2. \A x \in Dirs : Readable(x) = DOMAIN disk[x]
  BY DEF NoFileTorn, Readable
<1>3. d \in FilesToLoad(dir)
  <2>1. "lts" \in Dirs
    BY DEF Dirs
  <2>2. d \in Walked(dir)
    BY <1>1, <1>2, <2>1 DEF Walked
  <2> QED BY <2>2 DEF FilesToLoad
<1>4. [url |-> disk[dir][d], digest |-> d] \in LoadedFiles
  BY <1>3 DEF LoadedFiles
<1>5. IsFiniteSet(LoadedFiles) /\ \A m \in LoadedFiles : m.digest \in Digests
  BY LoadedFilesTyped
<1>6. d \in Digests
  BY <1>4, <1>5
<1>7. ASSUME NEW b \in BlobsOf(d) PROVE LoadedCounts[b] > 0
  <2>1. PICK i \in DOMAIN Layers[d] : Layers[d][i] = b
    BY <1>7 DEF BlobsOf
  <2>2. <<[url |-> disk[dir][d], digest |-> d], i>> \in Places(LoadedFiles, b)
    BY <1>4, <2>1 DEF Places
  <2>3. IsFiniteSet(Places(LoadedFiles, b)) /\ Cardinality(Places(LoadedFiles, b)) \in Nat
    BY <1>5, PlacesFinite
  <2>4. Cardinality(Places(LoadedFiles, b)) # 0
    BY <2>2, <2>3, FS_EmptySet
  <2>5. b \in Blobs
    BY <1>6, <1>7, LayersTyped
  <2> QED BY <2>3, <2>4, <2>5 DEF LoadedCounts
<1> QED BY <1>7

\* So the entries that Load makes are kept.
LEMMA LoadedIsKept ==
  ASSUME HonestDirs(disk), NoFileTorn, NEW dir \in Dirs, NEW k \in DOMAIN LoadedMap(dir)
  PROVE  Kept(LoadedMap(dir)[k].digest, disk, LoadedCounts, blobFiles)
<1>1. PICK d \in FilesToLoad(dir) : LoadedMap(dir)[k].digest = d
  BY LoadedHonestly
<1>2. OnDisk(d, disk) /\ Complete(d, blobFiles)
  BY DEF FilesToLoad, Walked, Readable, OnDisk
<1> QED BY <1>1, <1>2, LoadCounts DEF Kept, Complete

\* Calls that leave the cache alone, and blob readers, lose nothing.
LEMMA QuietLosesNothing ==
  ASSUME RegistryInv, NothingLost, UNCHANGED <<storeVars, raced, settings>>
  PROVE  Grown /\ (CallsKept' => NothingLost')
<1>1. UNCHANGED <<manifests, latest, refCnt, disk, blobFiles, alwaysPullLatest>>
  BY DEF storeVars, settings
<1> QED BY <1>1 DEF NothingLost, Grown, NoFileTorn, EntriesKept

\* Steps of a call that only change how far it has come.
LEMMA PlainCallLosesNothing ==
  ASSUME RegistryInv, NothingLost, NEW c \in Calls,
         Admit(c) \/ Miss(c) \/ Enqueue(c) \/ Signal(c) \/ TimeOut(c)
  PROVE  NothingLost'
<1>1. UNCHANGED <<storeVars, raced, settings>> /\ UNCHANGED <<toOpen, held>>
  BY DEF Admit, Miss, Enqueue, Signal, TimeOut, callVars
<1>2. Grown /\ UNCHANGED <<disk, refCnt, blobFiles>>
  BY <1>1, QuietLosesNothing DEF storeVars
<1>3. {"admitted", "looked", "over"} \subseteq Stages \ {"fetched", "downloaded"}
  BY DEF Stages
<1>4. \/ UNCHANGED <<stage, reply>>
      \/ \E s \in {"admitted", "looked", "over"} :
           Advance(c, s) /\ (UNCHANGED reply \/ reply' = [reply EXCEPT ![c] = Failed])
  <2>1. CASE Admit(c)
    BY <2>1 DEF Admit, Answer
  <2>2. CASE Miss(c)
    BY <2>2 DEF Miss
  <2>3. CASE Enqueue(c)
    BY <2>3 DEF Enqueue, callVars
  <2>4. CASE Signal(c)
    BY <2>4 DEF Signal
  <2>5. CASE TimeOut(c)
    BY <2>5 DEF TimeOut, Answer
  <2> QED BY <2>1, <2>2, <2>3, <2>4, <2>5
<1>5. CASE UNCHANGED <<stage, reply>>
  BY <1>1, <1>2, <1>5, QuietLosesNothing DEF NothingLost, CallsKept
<1>6. ASSUME NEW s \in Stages \ {"fetched", "downloaded"}, Advance(c, s),
             UNCHANGED reply \/ reply' = [reply EXCEPT ![c] = Failed]
      PROVE  NothingLost'
  <2>1. CallsKept'
    BY <1>1, <1>2, <1>6, AnsweredLosesNothing
  <2> QED BY <1>1, <2>1, QuietLosesNothing DEF NothingLost
<1> QED BY <1>3, <1>4, <1>5, <1>6

\* A call that finds the manifest.
LEMMA ServeLosesNothing ==
  ASSUME RegistryInv, NothingLost, NEW c \in Calls,
         Serve(c) \/ ReadAfterWait(c) \/ MissUnwritable(c)
  PROVE  NothingLost'
<1>1. UNCHANGED <<toOpen, settings, held, raced>> /\ UNCHANGED <<refCnt, blobFiles>>
  BY DEF Serve, ReadAfterWait, MissUnwritable, Touch, storeVars
<1>2. url[c] \in ImageUrls /\ HonestStore
  BY DEF RegistryInv, CallsHonest, StoreKept
<1>3. "looked" \in Stages \ {"fetched", "downloaded"} /\ "over" \in Stages \ {"fetched", "downloaded"}
  BY DEF Stages
<1>4. NoFileTorn' /\ EntriesKept' /\ CallsKept' => NothingLost'
  BY <1>1 DEF NothingLost, settings
<1>5. ASSUME NEW k \in KeyFor(url[c]), Touch(url[c], k), Answer(c, FromCache(k))
      PROVE  NothingLost'
  <2>1. /\ Grown /\ NoFileTorn' /\ EntriesKept'
        /\ Kept(FromCache(k).digest, disk', refCnt', blobFiles')
    BY <1>1, <1>2, <1>5, TouchLosesNothing DEF Touch
  <2>2. FromCache(k) \in Manifests
    BY <1>2, KeyHasReference, FoundIsHonest DEF Honest
  <2>3. CallsKept'
    BY <1>1, <1>3, <1>5, <2>1, <2>2, AnsweredLosesNothing DEF Answer
  <2> QED BY <1>4, <2>1, <2>3
<1>6. ASSUME Answer(c, Failed), UNCHANGED storeVars
      PROVE  NothingLost'
  <2>1. Grown
    BY <1>1, <1>6, QuietLosesNothing
  <2>2. CallsKept'
    BY <1>1, <1>3, <1>6, <2>1, AnsweredLosesNothing DEF Answer
  <2> QED BY <1>1, <1>6, <2>2, QuietLosesNothing DEF NothingLost
<1>7. ASSUME NEW k \in KeyFor(url[c]), TouchInMemory(url[c], k), UNCHANGED disk,
             (Advance(c, "looked") /\ UNCHANGED reply) \/ Answer(c, Failed)
      PROVE  NothingLost'
  <2>1. Grown /\ NoFileTorn' /\ EntriesKept'
    BY <1>1, <1>2, <1>7, TouchLosesNothing
  <2>2. CallsKept'
    BY <1>1, <1>3, <1>7, <2>1, AnsweredLosesNothing DEF Answer
  <2> QED BY <1>4, <2>1, <2>2
<1>8. CASE MissUnwritable(c)
  BY <1>7, <1>8 DEF MissUnwritable
<1>9. CASE Serve(c)
  BY <1>5, <1>9 DEF Serve
<1>10. CASE ReadAfterWait(c)
  BY <1>5, <1>6, <1>7, <1>10 DEF ReadAfterWait
<1> QED BY <1>8, <1>9, <1>10

\* A pull writes files and takes none away.
LEMMA PullLosesNothing ==
  ASSUME RegistryInv, NothingLost, NEW c \in Calls, Fetch(c) \/ Download(c) \/ PullFails(c)
  PROVE  NothingLost'
<1>1. UNCHANGED <<manifests, latest, refCnt, toOpen, raced, settings>>
  BY DEF Fetch, Download, PullFails
<1>2. blobFiles \subseteq blobFiles'
  BY DEF Fetch, Download, PullFails
<1>3. CallKept(stage[c], held[c], reply[c], disk, refCnt, blobFiles)
      /\ held[c] \in Manifests \cup {NoReply} /\ NoFileTorn
  BY DEF NothingLost, CallsKept, RegistryInv, CallsHonest
<1>4. Grown /\ NoFileTorn' /\ CallsKept'
  <2>1. CASE Fetch(c)
    <3>1. PICK d \in Answers(url[c]) :
            /\ held' = [held EXCEPT ![c] = [url |-> url[c], digest |-> d]]
            /\ disk' = FileAdded([url |-> url[c], digest |-> d])
            /\ Advance(c, "fetched")
      BY <2>1 DEF Fetch
    <3> DEFINE m == [url |-> url[c], digest |-> d]
    <3>2. d \in Digests /\ url[c] \in ImageUrls
      BY <3>1 DEF Answers, RegistryInv, CallsHonest
    <3>3. Honest(m) /\ held' = [held EXCEPT ![c] = m] /\ disk' = FileAdded(m)
      BY <3>1, <3>2, PulledIsHonest
    <3> HIDE DEF m
    <3>4. Grown /\ NoFileTorn' /\ OnDisk(m.digest, disk')
      BY <1>1, <1>2, <1>3, <3>3, FileAddedGrows DEF RegistryInv, StoreKept, HonestStore, Grown
    <3>5. reply' = [reply EXCEPT ![c] = reply[c]]
      BY <2>1 DEF Fetch, RegistryInv, CallsHonest
    <3>6. CallKept(stage[c], held[c], reply[c], disk', refCnt', blobFiles')
      BY <1>3, <3>4, GrownKeeps
    <3>7. CallKept("fetched", m, reply[c], disk', refCnt', blobFiles')
      BY <3>4, <3>6 DEF CallKept
    <3> QED BY <3>1, <3>3, <3>4, <3>5, <3>7, CallStepLosesNothing DEF Advance
  <2>2. CASE Download(c)
    <3>1. stage[c] = "fetched" /\ Advance(c, "downloaded") /\ UNCHANGED <<disk, held, reply>>
          /\ Complete(held[c].digest, blobFiles')
      BY <2>2 DEF Download, Complete
    <3>2. Grown /\ NoFileTorn'
      BY <1>1, <1>2, <1>3, <3>1 DEF Grown, NoFileTorn
    <3>3. held' = [held EXCEPT ![c] = held[c]] /\ reply' = [reply EXCEPT ![c] = reply[c]]
      BY <3>1 DEF RegistryInv, CallsHonest
    <3>4. CallKept(stage[c], held[c], reply[c], disk', refCnt', blobFiles')
      BY <1>3, <3>2, GrownKeeps
    <3>5. CallKept("downloaded", held[c], reply[c], disk', refCnt', blobFiles')
      BY <3>1, <3>4 DEF CallKept
    <3>6. stage' = [stage EXCEPT ![c] = "downloaded"]
      BY <3>1 DEF Advance
    <3>7. CallsKept'
      BY <3>2, <3>3, <3>5, <3>6, CallStepLosesNothing
    <3> QED BY <3>2, <3>7
  <2>3. CASE PullFails(c)
    <3>1. Advance(c, "returning") /\ reply' = [reply EXCEPT ![c] = Failed] /\ UNCHANGED <<disk, held>>
      BY <2>3 DEF PullFails, Return
    <3>2. Grown /\ NoFileTorn'
      BY <1>1, <1>2, <1>3, <3>1 DEF Grown, NoFileTorn
    <3>3. "returning" \in Stages \ {"fetched", "downloaded"}
      BY DEF Stages
    <3>4. CallsKept'
      BY <3>1, <3>2, <3>3, AnsweredLosesNothing
    <3> QED BY <3>2, <3>4
  <2> QED BY <2>1, <2>2, <2>3
<1>5. EntriesKept'
  BY <1>1, <1>4, EntriesStayKept
<1> QED BY <1>1, <1>2, <1>4, <1>5 DEF NothingLost, settings

\* An insertion finds its blobs, and counts each of them.
LEMMA InsertLosesNothing ==
  ASSUME RegistryInv, NothingLost, NEW c \in Calls, Insert(c)
  PROVE  NothingLost'
<1> DEFINE m == held[c]
<1>1. /\ ~Forced(url[c]) /\ AddToCache(m, blobFiles) /\ UNCHANGED <<disk, blobFiles>>
      /\ stage[c] = "downloaded"
  BY DEF Insert, Forced, NothingLost
<1>2. UNCHANGED <<toOpen, settings, held>>
  BY DEF Insert
<1>3. Honest(m) /\ m \in Manifests /\ m.digest \in Digests
  BY <1>1 DEF RegistryInv, CallsHonest, CallHonest, Honest, Manifests
<1>4. OnDisk(m.digest, disk) /\ Complete(m.digest, blobFiles)
  BY <1>1 DEF NothingLost, CallsKept, CallKept
<1>5. raced' = {} /\ Return(c, m)
  BY <1>1, <1>4 DEF Insert, NothingLost
<1>6. TypedStore /\ SafeStore
  BY DEF RegistryInv, StoreKept, NothingLost
<1>7. \A b \in Blobs : refCnt[b] \in Int /\ refCnt'[b] = refCnt[b] + Refs(m.digest, b)
  BY <1>1, <1>3, <1>4, <1>6, AllCounted DEF AddToCache, TypedStore
<1>8. \A b \in Blobs : Refs(m.digest, b) \in Nat /\ (b \in BlobsOf(m.digest) => Refs(m.digest, b) > 0)
  BY <1>3, RefsTyped
<1>9. BlobsOf(m.digest) \subseteq Blobs
  BY <1>3, LayersTyped
<1> HIDE DEF m
<1>10. Grown
  BY <1>1, <1>7, <1>8 DEF Grown
<1>11. Kept(m.digest, disk', refCnt', blobFiles')
  <2>1. \A b \in Blobs : refCnt[b] >= 0
    BY <1>6, SafetyMeans DEF NoNegativeCount, RegistryInv, StoreKept
  <2>2. \A b \in BlobsOf(m.digest) : refCnt'[b] > 0
    BY <1>7, <1>8, <1>9, <2>1
  <2> QED BY <1>1, <1>4, <2>2 DEF Kept, Complete, OnDisk
<1>12. EntriesKept'
  <2>1. /\ \A k \in DOMAIN manifests' :
             manifests'[k] = m \/ (k \in DOMAIN manifests /\ manifests'[k] = manifests[k])
        /\ \A k \in DOMAIN latest' :
             latest'[k] = m \/ (k \in DOMAIN latest /\ latest'[k] = latest[k])
    BY <1>1 DEF AddToCache, ManifestAdded, PutAll
  <2> QED BY <1>10, <1>11, <2>1, EntriesStayKept
<1>13. CallsKept'
  <2>1. "returning" \in Stages \ {"fetched", "downloaded"}
    BY DEF Stages
  <2> QED BY <1>2, <1>3, <1>5, <1>10, <1>11, <2>1, AnsweredLosesNothing DEF Return
<1> QED BY <1>1, <1>2, <1>5, <1>12, <1>13 DEF NothingLost, NoFileTorn, settings

\* A blob reader leaves the cache and the calls alone.
LEMMA ReaderLosesNothing ==
  ASSUME RegistryInv, NothingLost, NEW r \in Readers, CheckBlob(r) \/ OpenBlob(r)
  PROVE  NothingLost'
<1>1. UNCHANGED <<storeVars, raced, settings>> /\ UNCHANGED callVars
  BY DEF CheckBlob, OpenBlob
<1>2. CallsKept'
  BY <1>1 DEF NothingLost, CallsKept, callVars, storeVars
<1> QED BY <1>1, <1>2, QuietLosesNothing

\* Load finds again all that was answered before the crash.
LEMMA RestartLosesNothing ==
  ASSUME RegistryInv, NothingLost, Restart
  PROVE  NothingLost'
<1>1. HonestDirs(disk) /\ NoFileTorn
  BY DEF RegistryInv, StoreKept, HonestStore, NothingLost
<1>2. /\ manifests' = LoadedMap("img") /\ latest' = LoadedMap("lts")
      /\ refCnt' = LoadedCounts /\ UNCHANGED <<disk, blobFiles>>
  BY DEF Restart, LoadStore
<1>3. /\ stage' = [c \in Calls |-> IF stage[c] = "over" THEN "over" ELSE "received"]
      /\ reply' = [c \in Calls |-> IF stage[c] = "over" THEN reply[c] ELSE NoReply]
      /\ toOpen' = [r \in Readers |-> NoBlob] /\ raced' = {} /\ UNCHANGED settings
  BY DEF Restart
<1>4. EntriesKept'
  <2>1. "img" \in Dirs /\ "lts" \in Dirs
    BY DEF Dirs
  <2> QED BY <1>1, <1>2, <2>1, LoadedIsKept DEF EntriesKept
<1>5. ASSUME NEW c \in Calls
      PROVE  CallKept(stage'[c], held'[c], reply'[c], disk', refCnt', blobFiles')
  <2>1. stage'[c] \notin {"fetched", "downloaded"}
    BY <1>3
  <2>2. ASSUME reply'[c] \in Manifests
        PROVE  Kept(reply'[c].digest, disk', refCnt', blobFiles')
    <3>1. reply'[c] = reply[c] /\ Kept(reply[c].digest, disk, refCnt, blobFiles)
      BY <1>3, <2>2, RegistryAssumption DEF NothingLost, CallsKept, CallKept
    <3>2. \A b \in BlobsOf(reply[c].digest) : LoadedCounts[b] > 0
      BY <1>1, <3>1, LoadCounts DEF Kept, Complete
    <3> QED BY <1>2, <3>1, <3>2 DEF Kept, OnDisk
  <2> QED BY <2>1, <2>2 DEF CallKept
<1>6. CallsKept'
  BY <1>5 DEF CallsKept
<1> QED BY <1>1, <1>2, <1>3, <1>4, <1>6 DEF NothingLost, NoFileTorn, settings

\* NothingLost holds when the server first starts.
LEMMA StartLosesNothing ==
  ASSUME RegistryInit, PullLatestSettings \subseteq {FALSE}
  PROVE  NothingLost
<1> DEFINE Here(dir) == {m \in Preloaded : DirOf(m.url) = dir}
           Of(dir, d) == CHOOSE m \in Here(dir) : m.digest = d
<1>1. /\ DOMAIN disk = Dirs
      /\ \A dir \in Dirs : /\ DOMAIN disk[dir] = {m.digest : m \in Here(dir)}
                           /\ \A d \in DOMAIN disk[dir] : disk[dir][d] = Of(dir, d).url
  BY DEF RegistryInit, StoreInit
<1>2. NoFileTorn
  <2>1. ASSUME NEW dir \in Dirs, NEW d \in DOMAIN disk[dir] PROVE disk[dir][d] # Torn
    <3>1. Of(dir, d) \in Here(dir)
      BY <1>1
    <3>2. Of(dir, d).url \in ImageUrls
      BY <3>1, RegistryAssumption DEF Manifests
    <3> QED BY <1>1, <3>2, UrlIsNotTorn
  <2> QED BY <2>1 DEF NoFileTorn
<1>3. HonestDirs(disk)
  BY RegistryStart DEF RegistryInv, StoreKept, HonestStore
<1>4. manifests = LoadedMap("img") /\ latest = LoadedMap("lts") /\ refCnt = LoadedCounts
  BY DEF RegistryInit, StoreInit
<1>5. EntriesKept
  <2>1. "img" \in Dirs /\ "lts" \in Dirs
    BY DEF Dirs
  <2> QED BY <1>2, <1>3, <1>4, <2>1, LoadedIsKept DEF EntriesKept
<1>6. CallsKept
  BY RegistryAssumption DEF RegistryInit, CallsKept, CallKept
<1> QED BY <1>2, <1>5, <1>6 DEF RegistryInit, NothingLost

\* While nothing is taken away, nothing is lost.
LEMMA NothingIsLost ==
  ASSUME NothingIsTakenAway
  PROVE  RegistrySpec => []NothingLost
<1>1. RegistryInit => NothingLost
  BY StartLosesNothing DEF NothingIsTakenAway
<1>2. ASSUME RegistryInv, NothingLost, [RegistryNext]_vars PROVE NothingLost'
  <2>1. ASSUME NEW c \in Calls, CallStep(c) PROVE NothingLost'
    BY <1>2, <2>1, PlainCallLosesNothing, ServeLosesNothing, PullLosesNothing, InsertLosesNothing
       DEF CallStep
  <2>2. CASE UNCHANGED vars
    <3>1. UNCHANGED <<storeVars, raced, settings>> /\ UNCHANGED <<callVars, toOpen>>
      BY <2>2 DEF vars
    <3>2. CallsKept'
      BY <1>2, <3>1 DEF NothingLost, CallsKept, callVars, storeVars
    <3> QED BY <1>2, <3>1, <3>2, QuietLosesNothing DEF NothingLost
  <2> QED BY <1>2, <2>1, <2>2, ReaderLosesNothing, RestartLosesNothing DEF RegistryNext, NothingIsTakenAway
<1> QED BY <1>1, <1>2, RegistryAlwaysInv, PTL DEF RegistrySpec

\* So a client that was given a manifest finds each of its blobs counted and on the
\* file system, also after any number of crashes, and when the manifests that hits
\* write back cannot be written (GetManifest, Load).
THEOREM AnsweredImagesComplete ==
  ASSUME NothingIsTakenAway
  PROVE  RegistrySpec => []AnsweredImageIsComplete
<1>1. NothingLost => AnsweredImageIsComplete
  BY DEF NothingLost, CallsKept, CallKept, Kept, AnsweredImageIsComplete, Answered
<1> QED BY <1>1, NothingIsLost, PTL
=============================================================================
