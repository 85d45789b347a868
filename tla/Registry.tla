------------------------------ MODULE Registry ------------------------------
(***************************************************************************)
(* The pull-through registry: concurrent executions of the manifest        *)
(* handler (impl/handlers.go) and of GetManifest (impl/cache/cache.go),    *)
(* pruners (impl/cache/prune.go), and crashes followed by Load.  It        *)
(* composes the queue of pulls (PullQueue) with the cache (ImageStore):    *)
(* each step below is what one goroutine does between two points where     *)
(* another one may run.                                                    *)
(*                                                                         *)
(* A call is one request; it asks once for the URL chosen for it in the    *)
(* initial state, and is asked again only when a crash cut it short.       *)
(***************************************************************************)
EXTENDS ImageStore

CONSTANTS
  Calls, MayTimeOut, Nobody,  \* as in PullQueue
  Requests,     \* the URLs that calls ask for
  Preloaded,    \* the images on the file system when the server first starts
  Readers,      \* executions of the blob handler
  NoBlob,
  Pruners,      \* the background pruner and executions of CmdPrune
  AirGapSettings, \* the settings of airGapped to consider
  DiskMayFail,  \* writing a manifest file on a cache hit may fail
  NoReply, Failed,
  MaxPasses,    \* bound: passes of each pruner through the cache
  MaxRestarts   \* bound: crashes

ASSUME RegistryAssumption ==
  /\ MayTimeOut \subseteq Calls /\ Nobody \notin Calls
  /\ Requests \subseteq ImageUrls /\ Preloaded \subseteq Manifests
  /\ \A m \in Preloaded : m.url.ref \in Digests => m.digest = m.url.ref
  /\ NoBlob \notin Blobs
  /\ AirGapSettings \subseteq BOOLEAN /\ DiskMayFail \in BOOLEAN
  /\ NoReply \notin Manifests /\ Failed \notin Manifests /\ NoReply # Failed
  /\ MaxPasses \in Nat /\ MaxRestarts \in Nat

VARIABLES
  pulls, cpLock, toSignal, pc, url,  \* as in PullQueue
  stage,     \* how far the request of each call has come
  held,      \* mh in GetManifest: what each call has pulled
  reply,     \* what each call was answered, or is about to be
  toPrune,   \* the manifests each pruner selected and has still to prune
  passes,    \* passes begun by each pruner
  toOpen,    \* the blob each reader has checked and has still to open
  restarts,
  raced,     \* history: what was no longer there when a step came to use it
  airGapped  \* configuration: answer 404 rather than pull

Q == INSTANCE PullQueue WITH Urls <- ImageUrls

queueVars == <<pulls, cpLock, toSignal, pc, url>>
callVars == <<stage, held, reply>>
prunerVars == <<toPrune, passes>>
settings == <<alwaysPullLatest, airGapped>>
vars == <<storeVars, queueVars, callVars, prunerVars, toOpen, restarts, raced, settings>>

Stages == {"received", "admitted", "looked", "fetched", "downloaded", "returning", "over"}
Races == {"blob", "manifest"}
Replies == Manifests \cup {NoReply, Failed}

RegistryInit ==
  /\ StoreInit(Preloaded)
  /\ Q!QueueInit
  /\ url \in [Calls -> Requests]
  /\ stage = [c \in Calls |-> "received"]
  /\ held = [c \in Calls |-> NoReply]
  /\ reply = [c \in Calls |-> NoReply]
  /\ toPrune = [p \in Pruners |-> {}]
  /\ passes = [p \in Pruners |-> 0]
  /\ toOpen = [r \in Readers |-> NoBlob]
  /\ restarts = 0
  /\ raced = {}
  /\ alwaysPullLatest \in PullLatestSettings
  /\ airGapped \in AirGapSettings

Advance(c, s) == stage' = [stage EXCEPT ![c] = s]
Answer(c, r) == Advance(c, "over") /\ reply' = [reply EXCEPT ![c] = r]
\* The result is known, but the deferred signalWaiters runs before it is returned.
Return(c, r) == Advance(c, "returning") /\ reply' = [reply EXCEPT ![c] = r]
-----------------------------------------------------------------------------
\* handleV2ManifestsReference in an air-gapped site: IsCached, under the mutex
\* of the cache, looks for the URL in its own spelling only.
Admit(c) ==
  /\ airGapped
  /\ stage[c] = "received"
  /\ IF url[c] \in Cached THEN Advance(c, "admitted") /\ UNCHANGED reply
                          ELSE Answer(c, Failed)
  /\ UNCHANGED <<storeVars, queueVars, held, prunerVars, toOpen, restarts, raced, settings>>

MayLook(c) == stage[c] = IF airGapped THEN "admitted" ELSE "received"

\* getManifestFromCache finds the manifest.
Serve(c) ==
  /\ MayLook(c)
  /\ ~Forced(url[c])
  /\ \E k \in KeyFor(url[c]) : Touch(url[c], k) /\ Answer(c, FromCache(k))
  /\ UNCHANGED <<queueVars, held, prunerVars, toOpen, restarts, raced, settings>>

\* It does not, or the pull is forced.  The queue is not entered yet.
Miss(c) ==
  /\ MayLook(c)
  /\ Forced(url[c]) \/ KeyFor(url[c]) = {}
  /\ Q!Miss(c, url[c])
  /\ Advance(c, "looked")
  /\ UNCHANGED <<storeVars, held, reply, prunerVars, toOpen, restarts, raced, settings>>

\* It finds the manifest but cannot write its file: that counts as a miss.
MissUnwritable(c) ==
  /\ DiskMayFail
  /\ MayLook(c)
  /\ ~Forced(url[c])
  /\ \E k \in KeyFor(url[c]) : TouchInMemory(url[c], k)
  /\ Q!Miss(c, url[c])
  /\ Advance(c, "looked")
  /\ UNCHANGED <<refCnt, disk, blobFiles, held, reply, prunerVars, toOpen, restarts, raced, settings>>

\* enqueuePull
Enqueue(c) ==
  /\ Q!EnqueueFirst(c) \/ Q!EnqueueWait(c)
  /\ UNCHANGED <<storeVars, callVars, prunerVars, toOpen, restarts, raced, settings>>

\* doPull has the manifest from the upstream and has written its file, without
\* any mutex of the cache.
Fetch(c) ==
  /\ pc[c] = "pulling"
  /\ stage[c] = "looked"
  /\ \E d \in Answers(url[c]) :
       LET m == [url |-> url[c], digest |-> d] IN
       held' = [held EXCEPT ![c] = m] /\ disk' = FileAdded(m)
  /\ Advance(c, "fetched")
  /\ UNCHANGED <<manifests, latest, refCnt, blobFiles, queueVars, reply, prunerVars,
                 toOpen, restarts, raced, settings>>

\* A slip: the error of PullBlobs is logged and not returned.
DownloadSome(c) ==
  /\ pc[c] = "pulling"
  /\ stage[c] = "fetched"
  /\ \E some \in SUBSET BlobsOf(held[c].digest) : blobFiles' = blobFiles \cup some
  /\ Advance(c, "downloaded")
  /\ UNCHANGED <<manifests, latest, refCnt, disk, queueVars, held, reply, prunerVars,
                 toOpen, restarts, raced, settings>>

\* PullBlobs has every blob of the image on the file system.
Download(c) ==
  /\ pc[c] = "pulling"
  /\ stage[c] = "fetched"
  /\ blobFiles' = blobFiles \cup BlobsOf(held[c].digest)
  /\ Advance(c, "downloaded")
  /\ UNCHANGED <<manifests, latest, refCnt, disk, queueVars, held, reply, prunerVars,
                 toOpen, restarts, raced, settings>>

\* A slip: signalWaiters is deferred only after doPull has succeeded.
PullFailsSilently(c) ==
  /\ pc[c] = "pulling"
  /\ stage[c] \in {"looked", "fetched"}
  /\ Answer(c, Failed)
  /\ UNCHANGED <<storeVars, queueVars, held, prunerVars, toOpen, restarts, raced, settings>>

\* doPull fails: before it has a manifest, or with some of the blobs written.
PullFails(c) ==
  /\ pc[c] = "pulling"
  /\ \/ stage[c] = "looked" /\ UNCHANGED blobFiles
     \/ /\ stage[c] = "fetched"
        /\ \E some \in SUBSET BlobsOf(held[c].digest) : blobFiles' = blobFiles \cup some
  /\ Q!FinishPull(c)
  /\ Return(c, Failed)
  /\ UNCHANGED <<manifests, latest, refCnt, disk, held, prunerVars, toOpen, restarts, raced, settings>>

\* addToCache or replaceInCache.  The first, and the second for a URL that was
\* not cached, report a missing blob to the caller; the entry stays.
Insert(c) ==
  LET m == held[c]
      missing == ~Complete(m.digest, blobFiles)
      replaced == Forced(url[c]) /\ url[c] \in Cached
      unchanged == replaced /\ FromCache(url[c]).digest = m.digest
  IN
  /\ pc[c] = "pulling"
  /\ stage[c] = "downloaded"
  /\ \/ Forced(url[c]) /\ ReplaceInCache(m, disk, blobFiles)
     \/ /\ ~Forced(url[c])
        /\ AddToCache(m, blobFiles)
        /\ UNCHANGED <<disk, blobFiles>>
  /\ raced' = raced \cup {x \in {"blob"} : missing /\ ~unchanged}
  /\ Q!FinishPull(c)
  /\ Return(c, IF missing /\ ~replaced THEN Failed ELSE m)
  /\ UNCHANGED <<held, prunerVars, toOpen, restarts, settings>>

\* signalWaiters
Signal(c) ==
  /\ \/ (Q!SignalLock(c) \/ Q!SignalSend(c)) /\ UNCHANGED stage
     \/ Q!SignalUnlock(c) /\ Advance(c, "over")
  /\ UNCHANGED <<storeVars, held, reply, prunerVars, toOpen, restarts, raced, settings>>

\* The timer of a parked call fires first.
TimeOut(c) ==
  /\ Q!TimeOut(c)
  /\ Answer(c, Failed)
  /\ UNCHANGED <<storeVars, held, prunerVars, toOpen, restarts, raced, settings>>

\* A parked call was signaled: it looks in the cache again, also when forced.  If the
\* file of what it finds cannot be written it answers "not found", not that it found it.
ReadAfterWait(c) ==
  /\ Q!ReadAfterWait(c)
  /\ \/ \E k \in KeyFor(url[c]) : Touch(url[c], k) /\ Answer(c, FromCache(k))
     \/ /\ DiskMayFail
        /\ \E k \in KeyFor(url[c]) : TouchInMemory(url[c], k)
        /\ Answer(c, Failed) /\ UNCHANGED <<refCnt, disk, blobFiles>>
     \/ KeyFor(url[c]) = {} /\ Answer(c, Failed) /\ UNCHANGED storeVars
  /\ UNCHANGED <<held, prunerVars, toOpen, restarts, raced, settings>>

-----------------------------------------------------------------------------
\* doPrune selects under the mutex: any criterion, any limit on the number.
Select(p) ==
  /\ toPrune[p] = {}
  /\ passes[p] < MaxPasses
  /\ \E ms \in SUBSET Primary \ {{}} : toPrune' = [toPrune EXCEPT ![p] = ms]
  /\ passes' = [passes EXCEPT ![p] = @ + 1]
  /\ UNCHANGED <<storeVars, queueVars, callVars, toOpen, restarts, raced, settings>>

\* It then prunes what it selected, one manifest for each time it has the mutex.
PruneOne(p) ==
  /\ \E m \in toPrune[p] :
       /\ Prune(m)
       /\ toPrune' = [toPrune EXCEPT ![p] = @ \ {m}]
       /\ raced' = raced \cup {x \in {"manifest"} : m \notin Primary}
  /\ UNCHANGED <<queueVars, callVars, passes, toOpen, restarts, settings>>

-----------------------------------------------------------------------------
\* handleV2BlobsDigest asks GetBlob for the count under the mutex of the blobs.
CheckBlob(r) ==
  /\ toOpen[r] = NoBlob
  /\ \E b \in Blobs : refCnt[b] > 0 /\ toOpen' = [toOpen EXCEPT ![r] = b]
  /\ UNCHANGED <<storeVars, queueVars, callVars, prunerVars, restarts, raced, settings>>

\* Later, without a mutex, it opens the file.  A prune in between may have removed it;
\* the handler then answers with an error, which changes nothing.
OpenBlob(r) ==
  /\ toOpen[r] # NoBlob
  /\ toOpen' = [toOpen EXCEPT ![r] = NoBlob]
  /\ UNCHANGED <<storeVars, queueVars, callVars, prunerVars, restarts, raced, settings>>

-----------------------------------------------------------------------------
\* The process dies at any point and is started again; clients repeat the
\* requests that got no answer.
Restart ==
  /\ restarts < MaxRestarts
  /\ restarts' = restarts + 1
  /\ LoadStore
  /\ Q!QueueRestart
  /\ stage' = [c \in Calls |-> IF stage[c] = "over" THEN "over" ELSE "received"]
  /\ held' = [c \in Calls |-> NoReply]
  /\ reply' = [c \in Calls |-> IF stage[c] = "over" THEN reply[c] ELSE NoReply]
  /\ toPrune' = [p \in Pruners |-> {}]
  /\ toOpen' = [r \in Readers |-> NoBlob]
  /\ raced' = {}
  /\ UNCHANGED <<passes, settings>>

CallStep(c) ==
  \/ Admit(c) \/ Serve(c) \/ Miss(c) \/ MissUnwritable(c) \/ Enqueue(c)
  \/ Fetch(c) \/ Download(c) \/ PullFails(c) \/ Insert(c)
  \/ Signal(c) \/ TimeOut(c) \/ ReadAfterWait(c)

RegistryNext ==
  \/ \E c \in Calls : CallStep(c)
  \/ \E p \in Pruners : Select(p) \/ PruneOne(p)
  \/ \E r \in Readers : CheckBlob(r) \/ OpenBlob(r)
  \/ Restart

RegistrySpec == RegistryInit /\ [][RegistryNext]_vars

\* Every goroutine that can run does, mutexes are fair (see PullQueue), and
\* the upstream answers or fails.
RegistryFairness ==
  \A c \in Calls :
    /\ WF_vars(Admit(c) \/ Serve(c) \/ Miss(c) \/ MissUnwritable(c))
    /\ SF_vars(Enqueue(c))
    /\ WF_vars(Fetch(c) \/ Download(c) \/ Insert(c))
    /\ SF_vars(Signal(c))
    /\ WF_vars(ReadAfterWait(c))

FairRegistrySpec == RegistrySpec /\ RegistryFairness
-----------------------------------------------------------------------------
\* Type invariant.
RegistryTypeOK ==
  /\ StoreTypeOK
  /\ Q!QueueTypeOK
  /\ stage \in [Calls -> Stages]
  /\ held \in [Calls -> Manifests \cup {NoReply}]
  /\ reply \in [Calls -> Replies]
  /\ toPrune \in [Pruners -> SUBSET Manifests]
  /\ passes \in [Pruners -> 0..MaxPasses]
  /\ toOpen \in [Readers -> Blobs \cup {NoBlob}]
  /\ restarts \in 0..MaxRestarts
  /\ raced \subseteq Races
  /\ airGapped \in BOOLEAN

Answered(c) == stage[c] = "over" /\ reply[c] \in Manifests

\* A request by digest is answered with that digest, however the answer came:
\* from the cache, from the upstream, or after waiting for another call.
AnswersAreHonest ==
  \A c \in Calls : Answered(c) /\ url[c].ref \in Digests => reply[c].digest = url[c].ref

\* While nothing is pruned or replaced, a client that was given the manifest of
\* an image can go on to fetch each of its blobs, across restarts too.
AnsweredImageIsComplete ==
  \A c \in Calls : Answered(c) =>
    \A b \in BlobsOf(reply[c].digest) : refCnt[b] > 0 /\ b \in blobFiles

\* Pulls, replacements, prunes and restarts in any interleaving keep the counts
\* high enough that no blob is removed while a listed image needs it, provided
\* that no insertion came upon a blob, and no prune upon a manifest, that was
\* taken away since it was fetched or selected.
SafeUnlessRaced ==
  raced = {} => NeverUndercounted /\ NoNegativeCount /\ CountedBlobsHaveFiles
                /\ PrimaryIsServable

\* addBlobsToCache: "The blobs are expected to already exist on the file system
\* before this function is called."
InsertFindsItsBlobs == "blob" \notin raced

\* The registry uses the queue of pulls as PullQueue says, and so implements
\* SingleFlight as well.
UsesPullQueue == Q!QueueSpec

\* With nobody giving up, the queue as the registry uses it keeps the progress that
\* SingleFlight promises its callers, however pulls fail and the process dies.
KeepsPullPromises == Q!ImplementsFairFlight

\* Every request is answered.
EveryRequestIsAnswered == \A c \in Calls : <>(stage[c] = "over")
=============================================================================
