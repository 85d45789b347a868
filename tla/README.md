# Verification of ociregistry

ociregistry is a pull-only, caching OCI distribution server: a client asks for a
manifest or a blob, the server answers from its cache or pulls the image from the
upstream registry first.  This directory holds TLA+ models of it, the TLC
configurations that check them on small instances, and theorems about them that
TLAPS checks.  Paths below are relative to `src/`.

## Inventory of the system

| Component | State | Operations | Interacts with |
|---|---|---|---|
| Pull queue, `impl/cache/cache.go` `concurrentPulls` | `cp.pulls`: URL being pulled -> channels of parked calls; a mutex | `enqueuePull`, `signalWaiters`, `pullsInProgress`, `WaitPulls` | called by `GetManifest` in each request's goroutine; channels wake parked calls |
| Manifest cache, `cache.go` `manifestCache` | `mc.manifests`, `mc.latest`: URL -> manifest; a mutex | `getManifestFromCache`, `IsCached`, `addToCache`, `replaceInCache`, `Load`, `prune` | writes manifest files; takes the blob mutex inside its own |
| Blob cache, `cache.go` `blobCache` | `bc.blobs`: digest -> count; an RWMutex | `addBlobsToCache`, `rmBlobs`, `GetBlob` | removes blob files |
| Pruner, `impl/cache/prune.go` | criteria; a list of selected manifests | `RunPruner`, `Prune`, `doPrune`, `prune` | background goroutine, and one execution per `CmdPrune` request |
| Image files, `impl/serialize` | directories `lts`, `img` (a file per manifest digest), `blobs` | `MhToFilesystem`, `RmManifest`, `WalkTheCache`, `BlobExists`, `RmBlob`, `MhFromFilesystem` | written by pulls without a mutex, by hits and prunes under the cache mutex |
| Pull requests, `impl/pullrequest` | none | `NewPullRequest`, `NewPullRequestFromUrl`, `Url`, `AltDockerUrl`, `UrlWithDigest` | the keys of every map above |
| Handlers, `impl/handlers.go`, `impl/ociregistry.go` | configuration | manifests, blobs, `/v2/` | call the cache |
| Command API, `impl/cmd_handlers.go`, `impl/cache/query.go` | none | stop, list manifests, blobs and images, prune | read the caches; prune changes them |
| Server lifecycle, `cmd/subcmd/serve.go` | listener, stop channels | start (preload, pruner, `Load`, listen), stop | all |
| Command-line prune, `cmd/subcmd/prune.go` | counts and matches of one run | `Prune`, `doPrune` | image files of a stopped server |
| Preload, `impl/preload` | none | `Load`, `LoadFromListFile`, `LoadTarball` | image files, before the server runs |
| Upstream authentication, `impl/auth` | provider -> token, expiry | `Init`, `GetToken`, `tokenRefresher` | options of each upstream pull |
| Configuration, `cmd/getconfig.go`, `impl/config`, `impl/cmdline` | settings | parse, merge, getters | read everywhere |
| Entry point, `cmd/ociregistry.go`, `cmd/hello-world.go` | none | `realMain`, the directory of hello-world mode | runs one command |
| REST bindings, `api/ociregistry.gen.go`, `impl/ociregistry.go` | none | routes by number of segments | call the handlers |
| Metrics, `impl/metrics` | counters and gauges | deltas | written everywhere, read by nothing in the program |

Behaviours that are hard to get right or to test:

* many goroutines ask for one image; one pulls, the others are parked, each with a timer;
* the mutex of the cache, the mutex of the queue and the mutex of the blobs are
  taken in sequences with gaps between them, in which other goroutines run;
* a pull writes files for seconds without any mutex while prunes remove files;
* one image may be cached under several URLs (two tags, tag and digest, both
  spellings of a docker.io repository) that share a file, an entry and counts;
* `latest` lives in a map and a directory of its own, and may be replaced on every request;
* a crash leaves a manifest without some of its blobs; `Load` has to notice;
* a stop meets requests, pulls, a pruner and other stops, over channels some of which nobody reads;
* a timestamp is kept in two copies of an entry, in each of two maps, and in two files; a hit
  refreshes one copy, a forced pull of what is cached only the file;
* one image has many names (tag, digest, two spellings of Docker Hub, four ways to say
  the registry), and the name of its file has to be one it is found under after a restart.

What makes each component correct: the queue lets one call pull a URL and
forgets no other; the counts are never below the number of references, so that a
prune takes nothing from another image; a counted blob has a file; a listed image
can be served whole; an answer by digest is that digest; an air-gapped server
learns no name; every request ends; a stop loses nothing that is in hand and ends;
a prune by age takes only what was not in use; an option given on the command
line, or else in the file, is in force; a token that is needed is there; what was answered
stays cached until it is pruned, or its file is given to another of its names.  Where
the code falls short of one of these, the property names the case, or a run shows it (below).
PROJECT.json lists the hazards line by line, with the properties that cover each.

## Modules

| Module | What it is |
|---|---|
| `SingleFlight` | abstract: what GetManifest promises to concurrent callers of one URL |
| `PullQueue` | `concurrentPulls` and the control flow of `GetManifest` around it; refines `SingleFlight` |
| `PullQueue_proofs` | its theorems, and the refinement |
| `ImageStore` | the two manifest maps, the counts and the files; one operator per function that runs under the cache mutex, and a sequential specification of them |
| `ImageStore_proofs` | what its operations keep, one lemma each; the theorems of the sequential store |
| `Registry` | requests, blob readers, pruners and crashes, composing `PullQueue` and `ImageStore` at the granularity of the code's mutexes |
| `Registry_proofs` | theorems of the composition, by the lemmas of the two |
| `ImageFiles` | the image files and the names images have: what the server, the preload and the command-line prune share |
| `CliPrune` | the prune of the command line |
| `Preload` | the preload from lists and tarballs |
| `Offline` | composes the two over one set of files, with a server reduced to what it may do to them |
| `ImageFiles_proofs`, `Offline_proofs` | lemmas about the files; the inductive invariant and theorems of the tools |
| `GracefulStop` | abstract: what `Serve` promises about the end of the server |
| `Lifecycle` | `Serve`: its goroutines and channels from the start to the end of the process; refines `GracefulStop` |
| `Lifecycle_proofs` | its inductive invariant and theorems, and the refinement |
| `PruneAge` | pruning by age, pattern and count over the timestamps of one image in both maps and files, by the background pruner and by commands |
| `PruneAge_proofs` | its inductive invariant and theorems |
| `PullRequests` | names of images: the two parsers, the URLs, the routes |
| `Settings` | the configuration, from command line and file, up to the command that is run |
| `Upstream` | options and tokens for upstream registries |
| `Front` | composes the three with the preload, the load, requests and prunes, over restarts |
| `Front_proofs` | its inductive invariant and theorems |
| `MC*` | constants for TLC |

### PullQueue

A *call* is one execution of `GetManifest`.  `pc[c]` is its place: `missed`
(between `getManifestFromCache` and `enqueuePull`), `pulling` (`doPull` and the
insertion), `signaling` (the deferred `signalWaiters`), `waiting` (in the
`select`), `woken`, `done`.  `pulls` is `cp.pulls`; the channel of a call is named
by the call, because it makes at most one.  `EnqueueFirst` and `EnqueueWait` are the
two outcomes of `enqueuePull` and run under the mutex in one step.
`signalWaiters` holds the mutex over several steps, because a send on an
unbuffered channel blocks: `SignalLock`, one `SignalSend` per channel, which needs
the receiver in its `select`, then `SignalUnlock`; `cpLock` and `toSignal` are the
mutex and the rest of the loop.  `TimeOut` takes a call out of the `select` and leaves
its channel in the list, as the code does.  `Recycle` lets a finished call stand
for a new request, so the model has no bound on the number of requests.
`QueueRestart` is a crash at any point.

The recover in the send loop guards against closed channels; no channel is ever
closed, so it is left out.

### ImageStore

A URL is a pair of a repository and a reference; a manifest is its URL and its digest.
`Layers` gives the blobs a digest lists, repetitions included (an image may
list a layer twice; the counts count it twice).  `disk` maps each of `lts` and
`img` from file name (digest) to the URL in the file; `blobFiles` is the set of
blob files (both are in `ImageFiles`).  `KeyFor` is the lookup with the second docker.io spelling;
`Touch` stores the found manifest in the map chosen by the *requested* reference
and rewrites its file; `ManifestAdded` makes the second entry by digest; `AddToCache`,
`ReplaceInCache` and `Prune` are the functions of those names with everything they
call.  The loops over layers are modelled with their early exits: `CountsAfterAdd`
stops after counting a blob whose file is missing, `RemovedLayers` at the first
negative count.  `References` and `LoadedCounts`, what the counts are compared with and
start from, are cardinalities of sets of places (a manifest and a position among its layers).  `LoadStore` is `Load`: manifests with all blobs on disk, in file-name
order, `lts` first.

`StoreSpec` performs these one after the other, with pulls that stop half way, also
in the middle of a manifest file: it explores what a long legal sequence of single requests does.

`prune` parses the URL of what it removes again, and if that fails drops the error, leaves entry
and file, and discounts the blobs nevertheless (`prune.go:264`).  No image here gets there: `Repos`
of `ImageFiles` are names that read back as they are written (no capitals, a registry with a
period), and those that do not are the subject of `Front`.

Left out: timestamps (a pruner may select anything; module `PruneAge` has them), sizes
and metrics, failures to remove a file.  Torn files occur in `StoreSpec` and `Offline`, not in `Registry`.

### Registry

What one goroutine does between two points at which another may run is one step:

| Action | Code |
|---|---|
| `Admit` | `IsCached` in an air-gapped server |
| `Serve`, `Miss`, `MissUnwritable` | `getManifestFromCache`: found; not found or forced; found but its file cannot be written |
| `Enqueue` | `enqueuePull` |
| `Fetch`, `Download`, `PullFails` | `doPull`: the manifest and its file; the blobs; any error |
| `Insert` | `addToCache` or `replaceInCache`, and the error it returns |
| `Signal` | `signalWaiters` |
| `TimeOut`, `ReadAfterWait` | the `select` |
| `Select`, `PruneOne` | `doPrune`: the selection under the mutex, then one `prune` at a time |
| `CheckBlob`, `OpenBlob` | `handleV2BlobsDigest` |
| `Restart` | a crash at any point and `Load` |

The queue is `Q == INSTANCE PullQueue`; the actions of Registry conjoin its actions.
`raced` is a history variable: what was no longer there when a step came to use it,
a `"blob"` that an insertion was to count or a `"manifest"` that a pruner had selected.
The two races it records break the counts (they are findings, below);
`SafeUnlessRaced` says that nothing else does.  The settings `airGapped` and
`alwaysPullLatest` are variables that are chosen once, so that one run covers their values.

A call that was parked looks at the cache again, and like the first look this fails
if the found manifest cannot be written back (`ReadAfterWait`).  An air-gapped server
asks `IsCached` in a step of its own, so what `Serve` or `Miss` find may be another
thing, and it does pull in the cases listed at the end; readers check for a blob in one step and
open it in another, and a prune between the two only makes the request fail.  Both take part in the runs so that
the other properties hold beside them; neither has a property of its own.

### ImageFiles, CliPrune, Preload and Offline

`Put` with `FileAdded` is `MhToFilesystem` with `replace`; `FileTorn` is the same write cut short by
a crash or a full disk, which leaves a file that does not parse.  `Readable` are
the files `MhFromFilesystem` finds, `Walked` those `WalkTheCache` visits before it ends
with an error.

`SelectMatches` is everything the command-line prune reads and computes before it
removes anything: the walk that fills `matches` (a pattern or a date may select any
set of files), `addImageManifests`, the counts and their two errors.  `matched` is
the map `matches`, keyed by URL, and loses a manifest when it is removed; `unused`
holds the blobs of count 0 that still have a file.  `RemoveBlob` and
`RemoveManifest` are one removal each, blobs first; `PruneStops` is an error or the
death of the process between any two.  The counts are cardinalities of sets of
places (`Uses`: key and layer) instead of sums, which is what makes them provable.

`loading`, `todo` and `next` are the local state of `doPull`: the manifest being
stored, the blobs it still needs, and the image of the list that is to be loaded
after it.  `Store` is `getFromCacheOrRemote` with the two different tests for a file:
one parses it, the other only asks whether it exists.  `HEAD` and `GET` may
answer differently for a tag.  The image of a list carries the URL of the list, as
`impl/preload/preload_test.go:54-58` expects, or its own digest if the list was named by one.

`OfflineNext` lets one tool run at a time, as the comment of `Prune`
(`cmd/subcmd/prune.go:29`) asks.  `ServerPulls` and `ServerPrunes` are the files' view of a
server between two tools: a pull may stop anywhere; a prune removes a manifest
file and those of its blobs that the server's counts let go, any of them, since
those counts may be too high.

Taken from imgpull, external: a manifest's `Digest` is the bare hexadecimal digest
(the file name), digests inside manifests carry `sha256:`, and `PullBlobs` and `SaveBlobs`
write blob after blob.  Torn blob files are left out: no code here looks into a blob.

### Lifecycle

`main` is how far `Serve` has come, one value per point at which another goroutine may
run: `preloading` to `opening`, `serving`, `shuttingDown`
and `draining` (`Shutdown` with its 30 seconds), `stoppingPruner` and `awaitingPruner` (a send
and a receive on the pruner's two channels), `checkingPulls` and `waitingPulls` (`WaitPulls`),
`returning`, `ended` or `failed`.  `interrupted` is the buffer of `stopCh`; before
`signal.Notify` a signal ends the process (`Interrupt`).  An execution of `CmdStop` is parked
in its send until `StopsOnCommand` receives it, which happens to one of them at most.  A request is
a place in its handler.  With TLS the listener is started on an `http.Server` that
`Shutdown` is not called on, so it stays `up`.

A request may begin a pull or wait for the pull of another (`Parks`; any two requests may want one URL), and give
up waiting (`GivesUp`), which leaves its channel in the list: the pull is `forsaken`.  `EndsPull`
signals the waiters of a pull that is not; of one that is, `signalWaiters` blocks for ever
with the mutex of the queue (`Jams`), and from then on nothing that needs that mutex moves: no handler that
enters the queue, no other pull's end, not `WaitPulls`.

The histories are `drainTimedOut` and `owed`, the pulls
that `WaitPulls` found.  That the process does not end under them is what the code does; the comment of
`WaitPulls` says that it gives up after 60 seconds, which it does not.

`GracefulStop` has no listener, channels or timers: a `phase`, the work `inHand`, what is `due` of it, whether a
`pass` is deleting files, and whether the stop is `patient`.  `ImplementsGracefulStop` maps `main` to `phase`
(`Phase`), requests and stop commands to the work, `owed` to what is due, and takes a server
for patient that has no TLS and whose `Shutdown` has not run out of time.

### PruneAge

One image: its tags, the tag latest and its digest are the keys.  `manifests` with the file `img` and `latest` with the
file `lts` are the two places it can be in; an entry has its URL and when it was last
pulled.  `Pull` is a miss.  `PullSame` and `PullOther` are the two outcomes of a forced pull of a latest that is
cached: the same digest, for which `doPull` has written the file but `replaceInCache` leaves the entry with its
old time, or another, which removes this image from the map of latest.  `Hit` refreshes the copy it was
answered from, stores it in the map of the reference that was *asked for*, and writes the file of the manifest's own URL: a
request by digest copies a latest image among the others.  `Removes` deletes from the map and the directory
of the manifest's URL only.

`cutoff` is the time `RunPruner` captures once for all passes; `CallSelects` computes that of a
command.  `Select` is `GetManifestsCompare`: copies are skipped, the rest are taken in any order up to the limit,
because a map is ranged over.  `DryRun` is TRUE for a command that does not say, `Unlimited` is `count` in
the two forms the callers give it.  `logTo` is where the process's logger writes:
`CallBegins` takes it, `CallEnds` gives it to stderr whoever had it; what a prune logs is of level info and dropped unless
the setting `logLevel` is that.  The histories are `lastUse`, `lost` (the commands whose reply lacks something they
pruned) and `alone` (the commands no other overlapped).

Three of the properties say of the code what it does and name the case in which it does less than one would expect:
`SelectedWasIdle` excepts a latest that is always pulled, `OrphanIsCopyOfLatest` the copy of a latest, and
`LoneReplyIsComplete` speaks of the level info.

### Settings, Upstream, PullRequests and Front

`Settings` abstracts the value of an option to where it comes from: `"flag"`, `"file"`,
`"default"`, `"zero"` or `"set"` (by hello-world mode).  `Parsed` is `cmdline.Parse`, `Merged` is `config.Merge`,
with the structs for prune and list merged as one value each and the marks that the Actions of flags
set.  `EndsAtOnce` and `GetsReady` are `realMain`.

In `Upstream` a provider has no token, one from its last refresh, or an old one, the refresh
having failed.  How old a token gets is left out: nothing makes the goroutine of `tokenRefresher` run in time.  `SkipsEntry`, `InitializesProvider` and
`CannotAuthorize` are the loop of `Serve` over the registries and `auth.Init`; `Refreshes`
and `RefreshFails` the ticker of `tokenRefresher`; `ConfigFor` what it may return for a registry.

In `PullRequests` a word (a host, a segment, a tag, a digest) is its text with the
three things the parsers tell apart: whether it has a period, whether it begins with `sha256:`, and whether
it is spelled with capitals.  `NewPullRequest`, `FromUrl`, `Url`, `UrlWithDigest`, `AltDockerUrl` and
`IsLatest` are the functions of the code; `RouteOf` is the table of routes.

`Front` runs the program from its command line on: it is started with any command line and file,
preloads (`PreloadsLine`), initializes providers, loads the files (`Loads`), and answers
requests under any names (`ServesFromCache`, `PullsAndServes`), prunes, and dies at any point, over and
over on one image path.  One request is answered at a time and a tag stands for one image, because
this module is about names and settings.  The histories are `answered`, the requests that were answered and whose
image was not pruned since, and `takenOver`, those among them whose only file was then written under another
name of the image, one that a load does not make their keys of: these the code forgets at the next start.
`denied` records a pull that found the provider of its registry not initialized.  `FoundIsWhatWasAsked` and
`AirGappedAddsNoName` are about the two lookups, `IsCached` under one spelling and `getManifestFromCache` under two:
what a request finds is the image it names, and no lookup lets an air-gapped server learn a name.

## Runs

What the bounds are, and why they are enough:

* Queue: three calls give a puller, a waiter and a late miss of one URL, four over two URLs
  a second queue besides.
* Store and registry: two images that share a blob are the smallest store in which a prune can
  hurt another image.  A fixed tag, `latest` and a digest are the three kinds of reference
  the code tells apart.  `MaxRefs`, `MaxPasses` and `MaxRestarts` cap the counts, the passes
  of each pruner and the crashes; with `MaxRefs` 2 in `store` a blob can be counted for one image, for
  two, and once too often, and come down again.  The sequential store tears one manifest file at a
  time (`OneTornAtATime`), since the first one ends every walk; it needs no other bound.
* Tools: two lists, of two repositories, with an image in common, and two images with a layer in
  common: the least with which a file can be matched under two URLs while another manifest
  needs its blobs.  The state is finite without bounds.
* `requests`: two calls, a reader and one crash, with both settings of `airGapped` and any write of a found
  manifest failing.
* `lifecycle`: two requests, one in hand while another arrives, or one waiting for the pull of the
  other and giving up, and two stop commands, one of which nobody receives from.  The state is
  finite without bounds.
* `prune_age`: an image by a tag, as latest and by digest is the least that fills both maps and both files.
  Two commands overlap each other and the background pruner, which takes one manifest at a time so that it has to choose.
  Two values of the clock (`StartTime` 0, `MaxTime` 1) and a duration of 0 let an image be out of
  age, in use, and after `MaxRestarts` 1 be read back with either time.  Of the settings
  one has `alwaysPullLatest` and messages of level info, the other neither, which are the defaults.
* `fixed_cutoff`: a duration of 1 and a clock from 1 to 3, in which an image that is young when the server
  starts comes of age at 2 and has been so for a while at 3.
* `front`: 36 command lines, with each switch that decides what the server does on and off by
  flag, and zero flags; three files; eleven requests that name five images in all the ways
  there are and some that are refused.  Restarts and prunes are not bounded.

| Run | Shows |
|---|---|
| `queue_safety` (`SinglePuller`, `OnlyTimeoutsBlockSends`, `NoWaiterForgotten`, `WokenByItsPuller`, `ImplementsSingleFlight`) | Four calls over two URLs, any of which may time out or be cut short by a crash, share pulls as GetManifest promises: one puller per URL, nobody forgotten, everybody woken by the right puller, and no send blocked but by a waiter that gave up. |
| `store` (`NeverUndercounted`, `CountedBlobsHaveFiles`, `PrimaryIsServable`, `DigestUrlsHonest`, `FilesInTheirDirectory`, `ExcessIsAccountedFor`) | Pulls, interrupted pulls, hits, replacements of latest, prunes and restarts, one at a time, over tags, the tag latest, digests and both docker.io spellings, keep the maps, the counts and the files consistent, and what a blob is counted for beyond the listed images comes from where it is known to come from. |
| `requests` (`AnsweredImageIsComplete`, `EveryRequestIsAnswered`, `KeepsPullPromises`) | With nothing pruned and no timer, two concurrent requests, across failing upstreams, writes of a manifest that fail on a hit and a crash, are all answered, with complete images only, and the queue inside keeps all promises of the abstract single flight, progress included. Air gaps and a blob reader take part, without a property of their own. |
| `races` (`SafeUnlessRaced`, `AnswersAreHonest`) | Three concurrent requests by tag, by latest and by digest, timeouts, failing writes and a pruner: but for the two races that Registry records nothing loses a blob that a listed image needs, and no answer by digest is another image. |
| `offline_tools` (`PruneSparesOthers`, `NoOrphanLeft`, `NegativeOnlyIfTwice`, `ToolsMakeNoOrphan`) | Preloads, pulls and prunes of a server and prunes of any selection from the command line, each stopped anywhere: a prune takes no blob another manifest uses unless it has a file twice in its map, leaves none that nothing uses, and no tool leaves a blob without a manifest. |
| `lifecycle` (`NothingHandledBeforeLoad`, `CleanStopAnswersAll`, `StopEndsServer`, `ImplementsGracefulStop`) | With and without TLS and a pruner, signals and two stop commands at any time, failing starts and requests that keep coming, wait for each other's pulls and give up waiting: nothing is asked of an empty cache, a clean stop answers what is in hand, and a stop ends the server, unless a call that gave up has left signalWaiters blocked with the mutex that WaitPulls needs: Serve implements the promises of GracefulStop. |
| `prune_age` (`SelectedWasIdle`, `OrphanIsCopyOfLatest`, `LoneReplyIsComplete`, `IdleAtStartIsPruned`) | A background pruner that takes one manifest at a time and two prune commands, over the two maps and the two files of an image, hits by tag and by digest, forced pulls, a clock and a restart: no tag that is in use is selected but a latest that is always pulled, the only copy that outlives its tag is one of latest, what is idle at the start is taken in the end, and where the log level is info a reply tells all of its prune. |
| `front` (`PrecedenceHolds`, `AnsweredStaysCached`, `ServingPullsHaveToken`, `FoundIsWhatWasAsked`, `AirGappedAddsNoName`) | The program from its command line to its answers, over 36 command lines, three files and any number of restarts: the configuration is what flags, file and defaults ask for, a pull of a running server finds the provider of its registry initialized, an image that was answered under one name is found under it until it is pruned, or its file is written anew as another of its names, and by what it is asked for only, and an air-gapped server learns no name. |

Runs that end in a violation are findings; each quotes the sentence it refutes in PROJECT.json:

| Run | The code |
|---|---|
| `queue_stuck` (`MissedCallProceeds`) | One waiter that timed out leaves the puller blocked in its send with the mutex of all URLs held: calls for another URL never get past enqueuePull. |
| `prune_in_flight` (`InsertFindsItsBlobs`) | A prune removes a shared blob between PullBlobs, which found it in place, and addBlobsToCache. |
| `half_loaded` (`LoadedIsComplete`) | A preload that was cut short between the manifest and its blobs is repeated: it finds the manifest and ends well, without the blobs. |
| `fixed_cutoff` (`BackgroundTakesAllIdle`) | An image that was not out of age when the server was started comes of age, and a pass of the background pruner, without a limit, leaves it: the cutoff is still that of the start. |

CHECK_DEADLOCK is off where the system may come to rest: in `store`, `requests`, `races`,
`prune_in_flight`, `prune_age` and `fixed_cutoff` requests, passes or the clock are finite, in
`lifecycle` the process ends, and in `queue_safety` a signal to a timed-out call
blocks for ever (the finding of `queue_stuck`).  It is on in `queue_stuck`, `offline_tools`,
`half_loaded` and `front`.

## Fairness

`QueueFairness` and `RegistryFairness` assume that a goroutine that can run does
(weak fairness for its own steps), that a Go mutex is handed to every goroutine
that keeps asking (strong fairness for `enqueuePull` and for the lock in
`signalWaiters`; `sync.Mutex` switches to first-in first-out after a millisecond), and that
the upstream answers or fails in the end: the transport has timeouts and `doPull` returns their
error.  No fairness is assumed of timers, pruners, readers, new requests or crashes.
`requests` lets no timer fire, because with one the system does stop: that is what
`queue_stuck` shows, under the same fairness.  Its property `KeepsPullPromises` is the refinement
of the fair abstract specification, `SingleFlight` with its own fairness, by the whole registry.

`LifeFairness` assumes that `Serve` runs when it can (the listener with it), that a pass of the pruner
comes to an end, and that `Serve` gets its send to the pruner through
in the end: that is strong fairness, because when the pruner's timer and the send are both
ready its `select` chooses at random.  A download ends, because the transport has timeouts, and then its waiters
are signaled or, if one of them has given up, `signalWaiters` blocks for ever with the mutex of the queue
(`WF(EndsPull \/ Jams)`); a handler moves on only while it can have that mutex (`Proceeds`).
So `StopEndsServer` promises the end of the server or such a jam, which is the
deadlock of `queue_stuck` and takes `WaitPulls` with it.  `DrainTimesOut` is among the steps of `Serve`: the
context of `Shutdown` ends after 30 seconds whatever the handlers do, and that is what bounds
the drain.  No fairness is assumed of clients, signals, pull timers or the timer of the pruner.

`PruneAge` assumes that the background pruner runs again and again (`WF_vars(BackgroundStep)`: its
ticker fires and its passes end), and nothing of clients, commands or the clock.

## What is proved

Every safety property of the passing runs is also a theorem; so are `PullsAreTracked`, `NoNegativeCount`
and `PrunerIsQuiet`, which the runs leave to the theorems.  The theorems hold for any
sets of calls, URLs, images, pruners, clients, commands, command lines, files and
requests, under the named assumptions of the modules (`QueueAssumption`, `FilesAssumption`, `StoreAssumption`,
`RegistryAssumption`, `MembersAssumption`, `PreloadAssumption`, `PruneAgeAssumption`, `WordsAssumption`,
`SettingsAssumption`, `UpstreamAssumption`, `FrontAssumption`), which TLC evaluates in every run of
their modules.  They say what the constants are: the types, that digests are finitely many, that what is on
disk when the server first starts was written by one (`RegistryAssumption`: a file with a URL
by digest holds that digest).  `LifeAssumption` says that a stop command is not another request.

**The queue.**  `SinglePuller` and `NoWaiterForgotten` are not inductive.  That the puller is unique
rests on `cp.pulls` having a key exactly while its puller is active
(`PullsAreTracked`); that no waiter is forgotten rests on where its channel is:
in the list of its URL, and, while that list is being sent to, in the part still
ahead (`ParkedIsListed`, `ListedForUrl`), which holds because the mutex is held
across the sends (`LockIsForSignaling`) so that no channel is appended to a
list being read.  `QueueInv` is the conjunction, proved
invariant in `PullQueue_proofs` with one lemma per group of conjuncts and one step
per action.  From it follow the theorems `QueueTyped`, `OnePullerPerUrl`,
`PullsTracked`, `NobodyForgotten`, `WokenByOwnPuller`, and the refinement
`QueueImplementsFlight`: each step of the queue is a step of `SingleFlight` or a
stutter under the mapping `RoleOf`.

`QueueSendInv` strengthens it for what a send finds: a list names a channel once, and a
channel that is still to be sent to belongs to a call that is parked or has timed out.  It has to say this of the
lists in `cp.pulls` too, except of the one that is being sent to, and of a call that is
recycled, which can be in no list unless it timed out.  From it follows
`SendsBlockOnTimeoutsOnly` (`OnlyTimeoutsBlockSends`), and from that, where no timer fires,
`HolderIsNeverStuck`: the deadlock that `queue_stuck` shows has no cause but the pull timeout.

**The registry and its queue.**  `Registry_proofs` shows that every step of the registry, pruners and crashes
included, is a step of the queue or leaves it alone (the lemma `RegistryUsesPullQueue`), so
what is proved of the queue carries over: `RegistrySinglePuller`, `RegistryForgetsNobody`,
`RegistrySendsBlockOnTimeoutsOnly`.  With `QueueImplementsFlight` this composes to `RegistryImplementsFlight`: the
whole registry, however its disk fails and its pruners run, implements `SingleFlight`; the refinement of
the fair specification, `KeepsPullPromises`, stays with TLC.

The theorems of the registry that its runs check rest on `RegistryInv`, in three
parts.  `CallsHonest` says of each call what it may hold and answer at each stage, so
that an answer by digest is that digest (`AnswersAlwaysHonest`).  `OthersTyped` types the
pruners and readers.  `StoreKept` says that the store is honest whatever happened, and safe as long as `raced` is
empty, which is `SafeUnlessRaced`; it is proved with the lemmas of `ImageStore_proofs`, one
per operation, which hold under every interleaving because they speak of one operation on
any honest store.

One more invariant holds when nothing is taken away, `NothingLost`: every entry and every image that was answered is `Kept`, on disk with
each blob counted and in place, also by what a crash and `Load` make of the
files.  From it follows `AnsweredImagesComplete`.

**The store.**  `StoreInv` is `HonestStore` (entries under keys of their own, the map of
`latest` apart, each file in the directory of its URL), `TypedStore`, and `SafeStore`, which is
`Covers` and `Filed`.  `Covers` bounds each count from below by the number of places at which
primary manifests list the blob; it needs `HonestStore`, because whether an operation
changes what is primary depends on which keys can hold which manifest.  `Filed` says that what is
counted has a file; both together are inductive, where the properties about counts and files are not by themselves.
Theorems: `StoreTyped`, `StoreDigestsHonest`, `StoreFilesPlaced`, `StoreNeverUndercounted`,
`StoreCountsNotNegative`, `StoreCountedBlobsHaveFiles`, `StoreServesWhatItLists`.

The counts may also be too high, and then a blob stays on the disk.  `StoreExcessIsAccounted` says exactly
when and by how much.  `Excess` is the count of a blob less the places that primary manifests list it at.  A start leaves the
excess that `Outdated` files list (files of a URL whose later file wins); after it, every
step adds what its `Abandoned` manifests list, the entries by digest that a tag takes over or
deletes with its own, and no step adds or takes anything else.  The proof counts instead of comparing:
`PlacesSplit`, `PlacesMove` and `ExcessMoves` say how places, and with them the excess, divide when primary manifests come and go,
`AllCounted` and `AllDiscounted` that an operation counts or discounts a manifest whole, which is where
`StoreInv` is needed: the early exits of the loops over layers are never taken on a safe store.
`AddIsAccounted`, `PruneIsAccounted`, `ReplaceIsAccounted` and `LoadIsAccounted` are the steps.

**The tools.**  `Offline_proofs` proves what `offline_tools` checks.
The properties are not inductive: that no manifest which stays loses a blob
and that no blob is left over both hold because of what the counts said when the
prune began, several removals earlier.  `OfflineInv` keeps it: `LeftIsUsed` (each blob outside `unused` is
listed by a manifest outside `matched`), `MatchedAreFiles` (what is in the map is on
disk or already gone), `Placed` (a file's directory follows from the URL in it, so no manifest
has two files) and `TodoHasFile` (what is being downloaded has a manifest file).
The counts themselves are compared by injections between sets of places:
`DiscountedIsTallied` maps each place that is discounted to the place that was
tallied, which is injective exactly if no file is in the map twice; `UsedElsewhere`
shows that it misses the places of a manifest that stays, `UsedNowhereElse` is the converse.
Then one lemma per action shows `OfflineInv` kept and no orphan made, and the
theorems `OfflineTyped`, `OfflineSparesOthers`, `OfflineNoOrphan`, `OfflineNegative`
and the action property `OfflineOrphans` follow.  `PruneSparesOthers` and `NegativeOnlyIfTwice` carry the
condition "unless a file is in the map twice" because the code needs it: it
discounts such a file twice.

**The lifecycle.**  `LifeInv`: `LoadedFirst` (the listener's goroutine starts after the load, and what is in hand came
through the listener), `DrainedUnlessTimedOut` (without TLS nothing arrives after `Shutdown`, and nothing is in
hand once it returned, unless its context ended first), `PrunerFollowsSetting`, `OwedArePulling` (a pull that is
owed is still a pull, and the process has not ended under it), `ParkedWait` (a call in a list is parked, and in no other list).  From it follows the refinement `ServeEndsGracefully`: a step of `Serve`, the listener,
a handler or the pruner is a step of `GracefulStop` or leaves its variables alone (`ServeStepIsSeen`,
`RequestIsSeen`, `OthersAreSeen`).  `DrainedUnlessTimedOut` gives that a patient stop leaves with nothing in hand,
`PrunerFollowsSetting` that it leaves with no pass running, and `LoadedFirst` that nothing is taken before the load.
`StopEndsServer` stays with TLC.

**Pruning by age.**  `PruneAgeInv`: `EntriesPlaced` (which URL may be in which map and file, and that the entry by
digest has beside it the tag it is a copy of, unless it is the copy of latest among the others),
`UseIsRecorded` (no use is later than the time in the entry under its own URL, unless it is a latest that is always pulled, nor than that in the
file, which is what `Restart` reads), `LoneHasLogger` (a command that no other overlapped
has the logger until its end).  `OrphansAreCopiesOfLatest`, `LoneRepliesAreComplete` and the action
property `OnlyIdleIsSelected` follow.

**The front.**  `FrontInv`: `SettingsInv` (the configuration is `Parsed` or `Merged` of what was
given), `AuthInv` (the entries before `nextEntry` have their tokens), `TokenInv` (the type of the tokens), and for `AnsweredStaysCached` `EntryInv`, `KeptInv` and `CacheInv`: each entry has a key of its
image as it was spelled or as it was loaded; each request that was answered and whose file was not
taken over (`Kept`) is found under the URL of a lasting file; and while the server runs, in the cache.  The step from files to cache is `Loads`, and is an
argument about names alone: a request without capitals and with a period is a fixed point of the
two parsers, the second spelling of Docker Hub is its own inverse up to where `library` is left out, and the digest copy
has the digest of the tag.  `RequestsFindWhatTheyAskFor` follows from `EntryInv` (`FoundIsEntry`, `SoughtIsImage`);
`AirGappedNeverAddsNames` is an action property of the same invariant.

The arguments about names are theorems of their own, for all words: `NamesAtMostOne` (a request, and a URL, names one image or none),
`UrlReadsBack` and `PlainReadsBack` (parsing what was formatted gives the same image), and
`HubSpellingsFindEachOther`, with its exception: of `docker.io/library/library/x` the second
spelling is `docker.io/library/x`, whose own second spelling is `docker.io/x`.

Model-checked only: liveness (`EveryRequestIsAnswered`, `KeepsPullPromises`, `StopEndsServer`,
`IdleAtStartIsPruned`), which the proof system does not cover, and the violations.  The theorem
`AnsweredImagesComplete` assumes `NothingIsTakenAway`, no pruner and no
replacement, and says so in its statement, as the constants of the run `requests` do: with pruners the property does
not hold (`prune_in_flight`).

## Not modelled

* Manifest and blob cache: fromCache, getManifestFromCache, addToCache, replaceInCache, prune, Load and canAdd as atomic steps, their timestamps in PruneAge; ResetCache (tests only) and the metrics are left out.
* Image files: Manifest files of lts and img and blob files, written, torn, overwritten, walked and removed; failures to remove a file and to create the directories are not distinguished from the process ending.
* Manifest and blob handlers: handleV2ManifestsReference with air-gapped and alwaysPullLatest, handleV2BlobsDigest, and the routes to them; the handlers of /, /v2/ and /v2/auth answer a constant, and status codes are reduced to answered or failed.
* Generated REST bindings: The table of routes to manifests and blobs, by number of segments and method, and what a wrapper hands to its handler; the validation against the OpenAPI specification and its embedded copy are not modelled: a request that fails it changes nothing.
* Command API queries: Reads that change no state and format what they read; the selection of primary entries is modelled as ImageStore!Primary and PruneAge!Select.
* Metrics: Counters for observation only: nothing reads them back.
* Logging and TLS configuration: Formatting of log lines and reading of certificate files, with no state but the logger's output, which PruneAge has.

## Plan

Done: all the components with state of their own are modelled, each safety property of the passing runs is proved,
the queue and the registry are shown to implement `SingleFlight` and the lifecycle `GracefulStop`,
and liveness is model-checked where the code's scheduling justifies a fairness assumption: `PullQueue` and
`Registry` (through `KeepsPullPromises`), `Lifecycle`, `PruneAge`.

Next to prove: what `StoreExcessIsAccounted` says of one operation at a time, for the steps of the registry, as far as the
races that `raced` records allow; and that `SingleFlight` and `GracefulStop` by themselves promise what their
comments say, so that the invariants of the queue and of the lifecycle are seen to come from there.

What remains to model, and why it is not here: the queries of the command API, metrics, validation against the OpenAPI
document, log formats and certificate files change no state that other code reads.  Two
compositions would be worth their size if the code changes there: `Lifecycle` with `Registry`
(a stop in the middle of an insertion, where today the two meet only in `WaitPulls` and in a crash, and `Registry` has crashes
everywhere), and `PruneAge` with `Registry` (a selection by age while pulls run, where today `Registry` lets a pruner select anything).
If the findings are fixed, and the models with them, the properties of the violation runs belong into passing ones:
`MissedCallProceeds`, `InsertFindsItsBlobs` with pruners, `LoadedIsComplete`, `BackgroundTakesAllIdle`.

Behaviours of the code met on the way.  The models follow them; no run is about them:

* Cache.  An image pulled by digest and then by tag is counted twice for one entry, and its blobs stay
  on disk (`cache.go:393`).  A hit by digest on an image tagged latest puts its entry among the others, where it outlives the prune of
  the image (`cache.go:478-483`, `prune.go:279-291`; the comment at `prune.go:258-261` has it gone); another hit on that entry writes the
  pruned manifest's file again, without its blobs.  A forced pull that gets the same digest leaves the old time in the entry, so that a prune
  by access time selects a latest in use (`cache.go:345-348`).  Two tags of one image share its entry by digest, and pruning one tag
  deletes it (`prune.go:289`).  A prune discounts its selection again if another pass has pruned it meanwhile (`prune.go:231`).  A
  call that looked at the cache before the insertion and enters the queue after it pulls again.  A parked call whose
  second look cannot write the manifest back is answered "manifest not found" (`cache.go:119-122`, `cache.go:484-487`).
* Command API.  What a prune logs is of level info and the default level is error, so the reply to a prune command is empty by
  default (`parse.go:33`, `logging.go:24`; `docs/docs/rest-api.md:15` and `:23` promise one).  `rmManifest` does nothing about a
  URL that does not parse, but the blobs are discounted (`prune.go:264`).
* Names.  `IsCached` does not look for the docker.io twin that `GetManifest` finds, so an air-gapped
  server refuses what it has.  A registry or repository spelled with capitals in a request is lowered only when its file is loaded, and is
  not found after a restart.  A registry without a period is accepted in a request, and stops the next start.
* Air gap.  Against `ociregistry.go:27` an air-gapped (or hello-world) server does go to the upstream: for a cached latest with
  `alwaysPullLatest` (`handlers.go:33`), when a prune takes the manifest between `IsCached` and
  `GetManifest`, and when the found manifest cannot be written; though never under a name the
  server does not have (`AirGappedAddsNoName`).
* Settings.  `dryRun` defaults to true for the prune command, unlike
  `docs/docs/rest-api.md:15` (`prune.go:80-96`).  `list --pattern` marks the settings of prune (`parse.go:312`).  The yaml tag is `dryrun` (`config.go:71`), where
  `docs/docs/configuring-the-server.md:266` has `dryRun`.  `SetConcurrentBlobs` is given `pullTimeout * 1000` (`cmd/ociregistry.go:67`).
* Upstream.  Images are preloaded before providers are initialized, so a registry with a provider has no token then
  (`serve.go:49`, `docs/docs/auth.md:9`).  There is one token per provider, whichever registry asks (`auth.go:55`).  Options in a
  registry's entry win over its static token (`config.go:313-316`); those that are computed are not saved, so the certificates
  are read again by every pull (`config.go:375`); the configured os and arch are not used (`config.go:297`).  An expiry of zero or less makes the ticker panic.  The error of a failed `auth.Init` formats
  another error, which is nil (`serve.go:68`).
* Lifecycle.  `WaitPulls` logs after a minute and goes on waiting, unlike its comment (`cache.go:208`), and if `signalWaiters` is blocked on a
  call that gave up, the server does not stop at all (`StopEndsServer`).
* Command-line prune.  A file matched under two keys is discounted twice (`subcmd/prune.go:185`).  A pruned list whose tag is
  not latest leaves its images.  One image with a missing blob stops every prune that selects it.
