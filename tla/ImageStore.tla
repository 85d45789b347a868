----------------------------- MODULE ImageStore -----------------------------
(***************************************************************************)
(* The cache of images: the two manifest maps and the blob reference       *)
(* counts of impl/cache/cache.go and prune.go, over the files of           *)
(* ImageFiles.  Each operator below is the whole effect of a function that *)
(* runs under the mutex of the manifest cache, so it is one atomic step.   *)
(* StoreSpec uses the store sequentially: a pull ends before the next      *)
(* operation starts.  Module Registry lets them overlap.                   *)
(*                                                                         *)
(* Timestamps are left out: a pruner may select any manifests.             *)
(***************************************************************************)
EXTENDS ImageFiles

CONSTANTS
  Alt,        \* the other spelling of a repository of docker.io, or NoRepo
  NoRepo,
  PullLatestSettings, \* the settings of alwaysPullLatest to consider
  MaxRefs     \* bound on the reference counts StoreSpec reaches

ASSUME StoreAssumption ==
  /\ NoRepo \notin Repos
  /\ Alt \in [Repos -> Repos \cup {NoRepo}]
  /\ PullLatestSettings \subseteq BOOLEAN
  /\ MaxRefs \in Nat

VARIABLES
  manifests,  \* mc.manifests: URL -> manifest
  latest,     \* mc.latest: URL -> manifest
  refCnt,     \* bc.blobs; a digest without an entry has count 0
  alwaysPullLatest \* configuration: a tag "latest" is pulled on every request

storeVars == <<manifests, latest, refCnt, disk, blobFiles>>

-----------------------------------------------------------------------------
\* fromCache
Cached == DOMAIN manifests \cup DOMAIN latest
FromCache(u) == IF u \in DOMAIN manifests THEN manifests[u] ELSE latest[u]

\* A slip: the other spelling is built without the reference.
KeyForRepo(u) == IF u \in Cached THEN {u} ELSE {k \in Cached : k.repo = u.repo}

\* The key a lookup of u finds: u itself, else its other docker.io spelling.
KeyFor(u) ==
  IF u \in Cached THEN {u} ELSE {[u EXCEPT !.repo = Alt[u.repo]]} \cap Cached

\* getManifestFromCache, found under key k: the entry is stored again, in the
\* map the REQUESTED reference selects, and written to its file.
TouchInMemory(u, k) ==
  IF IsLatest(u)
    THEN latest' = Put(latest, k, FromCache(k)) /\ UNCHANGED manifests
    ELSE manifests' = Put(manifests, k, FromCache(k)) /\ UNCHANGED latest

Touch(u, k) ==
  /\ TouchInMemory(u, k)
  /\ disk' = FileAdded(FromCache(k))
  /\ UNCHANGED <<refCnt, blobFiles>>

\* The keys of a manifest pulled as u: its URL and, for a tag, its digest too.
KeysOf(u, d) == {u} \cup (IF ByTag(u) THEN {WithDigest(u, d)} ELSE {})

PutAll(f, ks, v) == [x \in DOMAIN f \cup ks |-> IF x \in ks THEN v ELSE f[x]]

\* addManifestToCache, given the maps it starts from
ManifestAdded(mans, lts, m) ==
  IF IsLatest(m.url)
    THEN manifests' = mans /\ latest' = PutAll(lts, KeysOf(m.url, m.digest), m)
    ELSE manifests' = PutAll(mans, KeysOf(m.url, m.digest), m) /\ latest' = lts

\* mc.delete, in the map that m's own URL selects, under the keys that rmManifest reads
\* from that URL: see Repos in ImageFiles
ManifestsWithout(m) ==
  IF IsLatest(m.url) THEN manifests ELSE Without(manifests, KeysOf(m.url, m.digest))
LatestWithout(m) ==
  IF IsLatest(m.url) THEN Without(latest, KeysOf(m.url, m.digest)) ELSE latest

-----------------------------------------------------------------------------
\* A loop over layers 1..n ends at the first of those in stops, if there is one.
LoopEnd(n, stops) == IF stops = {} THEN n ELSE Min(stops)

\* addBlobsToCache counts a blob before it looks for its file, and returns at
\* the first file that is missing.
CountsAfterAdd(cnt, files, d) ==
  LET len == Len(Layers[d])
      n == LoopEnd(len, {i \in 1..len : Layers[d][i] \notin files})
  IN  [b \in Blobs |-> cnt[b] + Occurs(d, n, b)]

\* rmBlobs discounts each layer, removes a blob whose count becomes 0, and
\* returns at the first count below 0.
CountAt(cnt, d, i) == cnt[Layers[d][i]] - Occurs(d, i, Layers[d][i])
RemovedLayers(cnt, d) ==
  LET len == Len(Layers[d]) IN LoopEnd(len, {i \in 1..len : CountAt(cnt, d, i) < 0})
CountsAfterRm(cnt, d) ==
  [b \in Blobs |-> cnt[b] - Occurs(d, RemovedLayers(cnt, d), b)]
\* A slip: the files go whatever the counts are.
FilesAfterRmAll(cnt, files, d) == files \ BlobsOf(d)
FilesAfterRm(cnt, files, d) ==
  files \ {Layers[d][i] : i \in {j \in 1..RemovedLayers(cnt, d) : CountAt(cnt, d, j) = 0}}

\* A slip: a digest that is in the cache under another URL is not counted again.
AddToCacheOnce(m, files) ==
  /\ ManifestAdded(manifests, latest, m)
  /\ refCnt' = IF \E u \in Cached : FromCache(u).digest = m.digest
                 THEN refCnt ELSE CountsAfterAdd(refCnt, files, m.digest)

\* addToCache
AddToCache(m, files) ==
  /\ ManifestAdded(manifests, latest, m)
  /\ refCnt' = CountsAfterAdd(refCnt, files, m.digest)

\* A slip: the blobs of the old manifest are discounted before the new are counted.
ReplaceInCacheRmFirst(m, dirs, files) ==
  LET old == FromCache(m.url)
      counts == CountsAfterRm(refCnt, old.digest)
      left == FilesAfterRm(refCnt, files, old.digest)
  IN  CASE m.url \notin Cached ->
             AddToCache(m, files) /\ disk' = dirs /\ blobFiles' = files
        [] m.url \in Cached /\ old.digest = m.digest ->
             disk' = dirs /\ blobFiles' = files /\ UNCHANGED <<manifests, latest, refCnt>>
        [] OTHER ->
             /\ ManifestAdded(ManifestsWithout(old), LatestWithout(old), m)
             /\ disk' = FileRemoved(dirs, old)
             /\ refCnt' = CountsAfterAdd(counts, left, m.digest)
             /\ blobFiles' = left

\* A slip: the entries of the old manifest are overwritten in place, the one by
\* its digest too.
ReplaceInCacheInPlace(m, dirs, files) ==
  LET old == FromCache(m.url) IN
  IF m.url \notin Cached
    THEN AddToCache(m, files) /\ disk' = dirs /\ blobFiles' = files
    ELSE /\ latest' = PutAll(latest, KeysOf(m.url, old.digest), m)
         /\ refCnt' = CountsAfterAdd(refCnt, files, m.digest)
         /\ disk' = dirs /\ blobFiles' = files /\ UNCHANGED manifests

\* A slip: the blobs of the old manifest keep the references it made.
ReplaceInCacheNoRm(m, dirs, files) ==
  LET old == FromCache(m.url)
  IN  CASE m.url \notin Cached ->
             AddToCache(m, files) /\ disk' = dirs /\ blobFiles' = files
        [] m.url \in Cached /\ old.digest = m.digest ->
             disk' = dirs /\ blobFiles' = files /\ UNCHANGED <<manifests, latest, refCnt>>
        [] OTHER ->
             /\ ManifestAdded(ManifestsWithout(old), LatestWithout(old), m)
             /\ disk' = FileRemoved(dirs, old)
             /\ refCnt' = CountsAfterAdd(refCnt, files, m.digest)
             /\ blobFiles' = files

\* replaceInCache, from the files dirs and files: a manifest with the digest
\* already cached changes nothing; one with another digest takes the place of
\* the old one, and only then do the blobs of the old one lose a reference.
ReplaceInCache(m, dirs, files) ==
  LET old == FromCache(m.url)
      counts == CountsAfterAdd(refCnt, files, m.digest)
  IN  CASE m.url \notin Cached ->
             AddToCache(m, files) /\ disk' = dirs /\ blobFiles' = files
        [] m.url \in Cached /\ old.digest = m.digest ->
             disk' = dirs /\ blobFiles' = files /\ UNCHANGED <<manifests, latest, refCnt>>
        [] OTHER ->
             /\ ManifestAdded(ManifestsWithout(old), LatestWithout(old), m)
             /\ disk' = FileRemoved(dirs, old)
             /\ refCnt' = CountsAfterRm(counts, old.digest)
             /\ blobFiles' = FilesAfterRm(counts, files, old.digest)

\* prune, whose rmManifest never fails to read a URL made of Repos: if it did, the blobs
\* alone would be discounted
Prune(m) ==
  /\ manifests' = ManifestsWithout(m)
  /\ latest' = LatestWithout(m)
  /\ disk' = FileRemoved(disk, m)
  /\ refCnt' = CountsAfterRm(refCnt, m.digest)
  /\ blobFiles' = FilesAfterRm(refCnt, blobFiles, m.digest)

\* GetManifestsCompare: the entries whose key is their manifest's own URL.
Primary ==
  {FromCache(u) : u \in {k \in Cached : FromCache(k).url = k}}

\* WalkTheCache visits the files of a directory in the order of their names;
\* when two name the same URL the later one stays in the map.
\* A slip: canAdd is not asked.
FilesToLoadUnchecked(dir) == Walked(dir)
FilesToLoad(dir) == {d \in Walked(dir) : Complete(d, blobFiles)}
LoadedMap(dir) ==
  LET files == FilesToLoad(dir)
      Keys(d) == KeysOf(disk[dir][d], d)
      Last(k) == CHOOSE d \in files : k \in Keys(d) /\
                   \A e \in files : k \in Keys(e) => WalkOrder[e] <= WalkOrder[d]
  IN  [k \in UNION {Keys(d) : d \in files} |->
         [url |-> disk[dir][Last(k)], digest |-> Last(k)]]

\* Each place where a manifest of ms lists blob b: the manifest and the layer.
Places(ms, b) ==
  UNION {{<<m, i>> : i \in {j \in DOMAIN Layers[m.digest] : Layers[m.digest][j] = b}} : m \in ms}

\* Load counts every place in a file it loads; a file's directory follows from its URL.
LoadedFiles ==
  UNION {{[url |-> disk[dir][d], digest |-> d] : d \in FilesToLoad(dir)} : dir \in Dirs}
LoadedCounts == [b \in Blobs |-> Cardinality(Places(LoadedFiles, b))]

\* The process is started again: Load rebuilds the maps and the counts.
LoadStore ==
  /\ UNCHANGED <<disk, blobFiles>>
  /\ manifests' = LoadedMap("img")
  /\ latest' = LoadedMap("lts")
  /\ refCnt' = LoadedCounts

\* The first start, over the files of images ms that were preloaded.
StoreInit(ms) ==
  /\ disk = [dir \in Dirs |->
       LET here == {m \in ms : DirOf(m.url) = dir}
       IN  [d \in {m.digest : m \in here} |-> (CHOOSE m \in here : m.digest = d).url]]
  /\ blobFiles = UNION {BlobsOf(m.digest) : m \in ms}
  /\ manifests = LoadedMap("img")
  /\ latest = LoadedMap("lts")
  /\ refCnt = LoadedCounts

-----------------------------------------------------------------------------
\* The store used by one caller at a time.

\* The request goes to the upstream whatever the cache has.
Forced(u) == alwaysPullLatest /\ IsLatest(u)

\* GetManifest finds the URL.
Hit(u) == ~Forced(u) /\ \E k \in KeyFor(u) : Touch(u, k)

\* What the upstream may answer a request for u with: a digest names its manifest.
Answers(u) == IF u.ref \in Digests THEN {u.ref} ELSE Digests

\* GetManifest misses it: doPull writes the manifest, then the blobs, and the
\* result is added to the cache, or replaces what is there.
Pull(u, d) ==
  LET m == [url |-> u, digest |-> d]
      files == blobFiles \cup BlobsOf(d)
  IN
  /\ d \in Answers(u)
  /\ \A b \in Blobs : refCnt[b] + Occurs(d, Len(Layers[d]), b) <= MaxRefs
  /\ \/ /\ ~Forced(u) /\ KeyFor(u) = {}
        /\ disk' = FileAdded(m) /\ blobFiles' = files
        /\ AddToCache(m, files)
     \/ Forced(u) /\ ReplaceInCache(m, FileAdded(m), files)

\* A bound on the files that cannot be read: the first of them ends every walk.
OneTornAtATime == ~WalkFails

\* The same, but the manifest is only written in part, or PullBlobs fails, or
\* the process dies, with only some blobs written.
PullInterrupted(u, d) ==
  /\ d \in Answers(u)
  /\ Forced(u) \/ KeyFor(u) = {}
  /\ LET m == [url |-> u, digest |-> d] IN
     \/ OneTornAtATime /\ disk' = FileTorn(m) /\ UNCHANGED blobFiles
     \/ /\ disk' = FileAdded(m)
        /\ \E some \in SUBSET BlobsOf(d) : blobFiles' = blobFiles \cup some
  /\ UNCHANGED <<manifests, latest, refCnt>>

Configured == UNCHANGED alwaysPullLatest

StoreNext ==
  \/ \E u \in ImageUrls : Hit(u) /\ Configured
  \/ \E u \in ImageUrls, d \in Digests : Pull(u, d) /\ Configured
  \/ \E u \in ImageUrls, d \in Digests : PullInterrupted(u, d) /\ Configured
  \/ \E m \in Primary : Prune(m) /\ Configured
  \/ LoadStore /\ Configured

StoreSpec ==
  /\ StoreInit({})
  /\ alwaysPullLatest \in PullLatestSettings
  /\ [][StoreNext]_<<storeVars, alwaysPullLatest>>
-----------------------------------------------------------------------------
\* Type invariant.
StoreTypeOK ==
  /\ DOMAIN manifests \subseteq ImageUrls
  /\ \A u \in DOMAIN manifests : manifests[u] \in Manifests
  /\ DOMAIN latest \subseteq ImageUrls
  /\ \A u \in DOMAIN latest : latest[u] \in Manifests
  /\ refCnt \in [Blobs -> Int]
  /\ DOMAIN disk = Dirs
  /\ \A dir \in Dirs : /\ DOMAIN disk[dir] \subseteq Digests
                       /\ \A d \in DOMAIN disk[dir] : disk[dir][d] \in ImageUrls \cup {Torn}
  /\ blobFiles \subseteq Blobs
  /\ alwaysPullLatest \in BOOLEAN

\* The references that the primary manifests in the cache make to blob b.
References(b) == Cardinality(Places(Primary, b))

\* A blob is never counted for less than the manifests that reference it, so
\* pruning one image cannot take a blob away from another (type blobCache).
NeverUndercounted == \A b \in Blobs : refCnt[b] >= References(b)

\* No count is negative: "should never happen" in rmBlob.
NoNegativeCount == \A b \in Blobs : refCnt[b] >= 0

\* What blob b is counted for beyond the references of the listed images: as long
\* as it is above 0 no prune takes the blob away.
Excess(b) == refCnt[b] - References(b)

\* The images listed by digest whose entry a step gives to, or deletes with, a tag
\* of the same image.
Abandoned ==
  {m \in Primary \ Primary' :
     \E tagged \in (Primary \ Primary') \cup (Primary' \ Primary) :
        ByTag(tagged.url) /\ m.url = WithDigest(tagged.url, tagged.digest)}

\* The files that Load counts although a later one takes their URL.
Outdated ==
  {m \in LoadedFiles : \E n \in LoadedFiles :
     n.url = m.url /\ WalkOrder[m.digest] < WalkOrder[n.digest]}

\* Every reference that is counted is discounted with its image, and no other: an
\* excess comes from an abandoned entry by digest, or from the outdated files of a
\* start, and is then exactly what those list.
ExcessIsAccountedFor ==
  [][IF LoadStore
       THEN \A b \in Blobs : Excess(b)' = Cardinality(Places(Outdated, b))
       ELSE \A b \in Blobs : Excess(b)' = Excess(b) + Cardinality(Places(Abandoned, b))]_storeVars

\* A blob that the server would answer for has its file: handleV2BlobsDigest
\* checks the count, then opens the file.
CountedBlobsHaveFiles == \A b \in Blobs : refCnt[b] > 0 => b \in blobFiles

\* An image the cache lists by its own URL can be served with all its blobs.
PrimaryIsServable ==
  \A m \in Primary : \A b \in BlobsOf(m.digest) : refCnt[b] > 0 /\ b \in blobFiles

\* A request by digest is answered with that digest or not at all.
DigestUrlsHonest ==
  \A u \in Cached : u.ref \in Digests => FromCache(u).digest = u.ref

\* Each file of lts holds a manifest with tag latest, each file of img another
\* one, so Load fills the map that GetManifest looks in.
FilesInTheirDirectory ==
  \A dir \in Dirs : \A d \in Readable(dir) : DirOf(disk[dir][d]) = dir
=============================================================================
