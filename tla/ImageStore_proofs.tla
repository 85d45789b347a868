-------------------------- MODULE ImageStore_proofs --------------------------
(***************************************************************************)
(* Theorems about ImageStore for any repositories, tags, images and blobs: *)
(* what its maps and files say of digests and directories, and what its    *)
(* counts are good for.  The facts about single operations are stated for  *)
(* any state with the invariant they need, so that Registry_proofs can use *)
(* them under every interleaving.                                          *)
(***************************************************************************)
EXTENDS ImageStore, ImageFiles_proofs

\* A manifest pulled by digest is that digest.
Honest(m) == m \in Manifests /\ (m.url.ref \in Digests => m.digest = m.url.ref)

\* Every entry of a map is, and it is under its URL or, for a tag, its digest.
HonestMap(f) ==
  /\ IsFiniteSet(DOMAIN f)
  /\ \A k \in DOMAIN f : Honest(f[k]) /\ k \in KeysOf(f[k].url, f[k].digest)

\* A file of a directory holds an honest manifest that belongs there, or is torn.
HonestFile(dir, d, x) ==
  d \in Digests /\ (x = Torn \/ (Honest([url |-> x, digest |-> d]) /\ DirOf(x) = dir))
HonestDirs(dirs) ==
  /\ DOMAIN dirs = Dirs
  /\ \A dir \in Dirs : \A d \in DOMAIN dirs[dir] : HonestFile(dir, d, dirs[dir][d])

\* The map of latest holds images tagged latest only; in the other one they have
\* at most the key with their digest, which a hit by digest gives them.
LatestApart(mans, lts) ==
  /\ \A k \in DOMAIN mans : ~IsLatest(k)
  /\ \A k \in DOMAIN lts : IsLatest(lts[k].url)

HonestMaps(mans, lts) == HonestMap(mans) /\ HonestMap(lts) /\ LatestApart(mans, lts)
HonestStore == HonestMaps(manifests, latest) /\ HonestDirs(disk)

-----------------------------------------------------------------------------
\* The keys an honest manifest is cached under are URLs of images, and one that
\* names a digest names its own.
LEMMA KeysAreHonest ==
  ASSUME NEW m, Honest(m)
  PROVE  \A k \in KeysOf(m.url, m.digest) : k \in ImageUrls /\ (k.ref \in Digests => m.digest = k.ref)
<1>1. m.url \in ImageUrls /\ m.digest \in Digests
  BY DEF Honest, Manifests
<1>2. WithDigest(m.url, m.digest) \in ImageUrls /\ WithDigest(m.url, m.digest).ref = m.digest
  BY <1>1 DEF WithDigest, ImageUrls
<1> QED BY <1>1, <1>2 DEF KeysOf, Honest

\* The keys of an image tagged latest are that URL and one with a digest; those
\* of another image are never latest.
LEMMA KeysApart ==
  ASSUME NEW m, Honest(m), NEW k \in KeysOf(m.url, m.digest)
  PROVE  /\ IsLatest(k) => k = m.url
         /\ ~IsLatest(m.url) => ~IsLatest(k)
<1>1. m.url \in ImageUrls /\ m.digest \in Digests
  BY DEF Honest, Manifests
<1>2. WithDigest(m.url, m.digest).ref = m.digest
  BY <1>1 DEF WithDigest, ImageUrls
<1>3. ~IsLatest(WithDigest(m.url, m.digest))
  BY <1>1, <1>2, FilesAssumption DEF IsLatest
<1> QED BY <1>3 DEF KeysOf

\* Adding honest entries to an honest map, and removing any, keeps it honest.
LEMMA MapsStayHonest ==
  ASSUME NEW f, HonestMap(f), NEW ks, NEW m, Honest(m)
  PROVE  /\ HonestMap(Without(f, ks))
         /\ HonestMap(PutAll(f, KeysOf(m.url, m.digest), m))
         /\ \A k \in KeysOf(m.url, m.digest) : HonestMap(Put(f, k, m))
<1>1. HonestMap(Without(f, ks))
  BY FS_Subset DEF HonestMap, Without
<1>2. HonestMap(PutAll(f, KeysOf(m.url, m.digest), m))
  <2>1. IsFiniteSet(DOMAIN f \cup KeysOf(m.url, m.digest))
    BY FS_Union, FS_Singleton, FS_EmptySet DEF KeysOf, HonestMap
  <2> QED BY <2>1 DEF HonestMap, PutAll
<1>3. ASSUME NEW k \in KeysOf(m.url, m.digest)
      PROVE  HonestMap(Put(f, k, m))
  BY <1>3, FS_AddElement DEF HonestMap, Put
<1> QED BY <1>1, <1>2, <1>3

\* addManifestToCache adds an honest manifest to honest maps.
LEMMA AddedHonestly ==
  ASSUME NEW mans, NEW lts, HonestMaps(mans, lts), NEW m, Honest(m), ManifestAdded(mans, lts, m)
  PROVE  HonestMaps(manifests', latest')
<1>1. HonestMap(manifests') /\ HonestMap(latest')
  BY MapsStayHonest DEF ManifestAdded, HonestMaps
<1>2. LatestApart(manifests', latest')
  BY KeysApart DEF ManifestAdded, HonestMaps, LatestApart, PutAll
<1> QED BY <1>1, <1>2 DEF HonestMaps

\* What is found in the cache is honest, under the key it was found with.
LEMMA FoundIsHonest ==
  ASSUME HonestStore, NEW k \in Cached
  PROVE  /\ Honest(FromCache(k)) /\ k \in KeysOf(FromCache(k).url, FromCache(k).digest)
         /\ k \in ImageUrls /\ (k.ref \in Digests => FromCache(k).digest = k.ref)
<1>1. Honest(FromCache(k)) /\ k \in KeysOf(FromCache(k).url, FromCache(k).digest)
  BY DEF HonestStore, HonestMaps, HonestMap, Cached, FromCache
<1> QED BY <1>1, KeysAreHonest

\* A lookup finds the reference that was asked for, in one spelling or the other.
LEMMA KeyHasReference ==
  ASSUME NEW u \in ImageUrls, NEW k \in KeyFor(u)
  PROVE  k \in Cached /\ k.ref = u.ref
<1>1. [u EXCEPT !.repo = Alt[u.repo]].ref = u.ref
  BY DEF ImageUrls
<1> QED BY <1>1 DEF KeyFor

\* Files written for honest manifests, torn, and removed leave honest directories.
LEMMA FilesStayHonest ==
  ASSUME HonestDirs(disk), NEW m, Honest(m)
  PROVE  /\ HonestDirs(FileAdded(m)) /\ HonestDirs(FileTorn(m))
         /\ \A dirs : HonestDirs(dirs) => HonestDirs(FileRemoved(dirs, m))
<1> DEFINE here == DirOf(m.url)
<1>1. here \in Dirs /\ m.digest \in Digests /\ m = [url |-> m.url, digest |-> m.digest]
  BY DEF DirOf, Dirs, Honest, Manifests
<1>2. HonestFile(here, m.digest, m.url) /\ HonestFile(here, m.digest, Torn)
  BY <1>1 DEF HonestFile
<1> HIDE DEF here
<1>3. ASSUME NEW x, HonestFile(here, m.digest, x)
      PROVE  HonestDirs([disk EXCEPT ![here] = Put(@, m.digest, x)])
  BY <1>1, <1>3 DEF HonestDirs, Put
<1>4. ASSUME NEW dirs, HonestDirs(dirs)
      PROVE  HonestDirs([dirs EXCEPT ![here] = Without(@, {m.digest})])
  BY <1>1, <1>4 DEF HonestDirs, Without
<1> QED BY <1>2, <1>3, <1>4 DEF FileAdded, FileTorn, FileRemoved, here

-----------------------------------------------------------------------------
\* What Load puts under a key is the last of the files it reads that have that key.
LEMMA LoadedLast ==
  ASSUME HonestDirs(disk), NEW dir \in Dirs
  PROVE  /\ FilesToLoad(dir) \in SUBSET Digests
         /\ DOMAIN LoadedMap(dir) = UNION {KeysOf(disk[dir][d], d) : d \in FilesToLoad(dir)}
         /\ \A k \in DOMAIN LoadedMap(dir) : \E d \in FilesToLoad(dir) :
              /\ LoadedMap(dir)[k] = [url |-> disk[dir][d], digest |-> d]
              /\ k \in KeysOf(disk[dir][d], d)
              /\ \A e \in FilesToLoad(dir) :
                   k \in KeysOf(disk[dir][e], e) => WalkOrder[e] <= WalkOrder[d]
<1> DEFINE files == FilesToLoad(dir)
           Keys(d) == KeysOf(disk[dir][d], d)
           IsLast(d, k) == k \in Keys(d) /\ \A e \in files : k \in Keys(e) => WalkOrder[e] <= WalkOrder[d]
           Last(k) == CHOOSE d \in files : IsLast(d, k)
           all == {Keys(d) : d \in files}
<1>1. files \in SUBSET Digests
  BY DEF FilesToLoad, Walked, Readable, HonestDirs, HonestFile
<1>2. /\ DOMAIN LoadedMap(dir) = UNION all
      /\ \A k \in DOMAIN LoadedMap(dir) :
           LoadedMap(dir)[k] = [url |-> disk[dir][Last(k)], digest |-> Last(k)]
  BY DEF LoadedMap
<1>3. ASSUME NEW k \in UNION all
      PROVE  Last(k) \in files /\ IsLast(Last(k), k)
  <2> DEFINE S == {d \in files : k \in Keys(d)}
  <2>1. S \in SUBSET Digests /\ S # {}
    BY <1>1
  <2>2. \E d \in S : \A e \in S : WalkOrder[e] <= WalkOrder[d]
    <3> HIDE DEF S
    <3> QED BY <2>1, LastWalked
  <2>3. \E d \in files : IsLast(d, k)
    BY <2>2
  <2> HIDE DEF files, IsLast
  <2> QED BY <2>3
<1>4. ASSUME NEW k \in DOMAIN LoadedMap(dir)
      PROVE  \E d \in files : LoadedMap(dir)[k] = [url |-> disk[dir][d], digest |-> d] /\ IsLast(d, k)
  <2> HIDE DEF all, Last, IsLast, files
  <2> QED BY <1>2, <1>3
<1> QED BY <1>1, <1>2, <1>4

\* What Load reads from honest files is honest, and each entry is one of the files.
LEMMA LoadedHonestly ==
  ASSUME HonestDirs(disk), NEW dir \in Dirs
  PROVE  /\ HonestMap(LoadedMap(dir))
         /\ \A k \in DOMAIN LoadedMap(dir) : \E d \in FilesToLoad(dir) :
              LoadedMap(dir)[k] = [url |-> disk[dir][d], digest |-> d] /\ DirOf(disk[dir][d]) = dir
<1> DEFINE files == FilesToLoad(dir)
           Keys(d) == KeysOf(disk[dir][d], d)
           M(d) == [url |-> disk[dir][d], digest |-> d]
           all == {Keys(d) : d \in files}
<1>1. ASSUME NEW d \in files PROVE Honest(M(d)) /\ DirOf(disk[dir][d]) = dir
  BY DEF FilesToLoad, Walked, Readable, HonestDirs, HonestFile
<1>2. ASSUME NEW k \in DOMAIN LoadedMap(dir)
      PROVE  \E d \in files : LoadedMap(dir)[k] = M(d) /\ k \in KeysOf(M(d).url, M(d).digest)
  BY LoadedLast
<1>3. IsFiniteSet(UNION all)
  <2>1. files \in SUBSET Digests
    BY LoadedLast
  <2>2. IsFiniteSet(files)
    <3> HIDE DEF files
    <3> QED BY <2>1, FilesAssumption, FS_Subset
  <2>3. [d \in files |-> Keys(d)] \in Surjection(files, all)
    BY DEF Surjection
  <2>4. \A T \in all : IsFiniteSet(T)
    <3>1. ASSUME NEW T \in all PROVE IsFiniteSet(T)
      <4>1. PICK d \in files : T = KeysOf(disk[dir][d], d)
        OBVIOUS
      <4>2. IsFiniteSet({disk[dir][d]}) /\ IsFiniteSet({WithDigest(disk[dir][d], d)}) /\ IsFiniteSet({})
        BY FS_Singleton, FS_EmptySet
      <4>3. IsFiniteSet(KeysOf(disk[dir][d], d))
        BY <4>2, FS_Union DEF KeysOf
      <4> QED BY <4>1, <4>3
    <3> QED BY <3>1
  <2> HIDE DEF files, all
  <2> QED BY <2>2, <2>3, <2>4, FS_Surjection, FS_UNION
<1>4. DOMAIN LoadedMap(dir) = UNION all
  BY LoadedLast
<1>5. HonestMap(LoadedMap(dir))
  <2> HIDE DEF all, M, files
  <2> QED BY <1>1, <1>2, <1>3, <1>4 DEF HonestMap
<1> HIDE DEF files, M
<1>6. ASSUME NEW k \in DOMAIN LoadedMap(dir)
      PROVE  \E d \in files : LoadedMap(dir)[k] = M(d) /\ DirOf(disk[dir][d]) = dir
  BY <1>1, <1>2
<1> QED BY <1>5, <1>6 DEF files, M

\* The maps that Load fills are honest, and apart.
LEMMA LoadedApart ==
  ASSUME HonestDirs(disk)
  PROVE  HonestMaps(LoadedMap("img"), LoadedMap("lts"))
<1>1. "img" \in Dirs /\ "lts" \in Dirs
  BY DEF Dirs
<1>2. ASSUME NEW k \in DOMAIN LoadedMap("img") PROVE ~IsLatest(k)
  <2>1. Honest(LoadedMap("img")[k]) /\ ~IsLatest(LoadedMap("img")[k].url)
        /\ k \in KeysOf(LoadedMap("img")[k].url, LoadedMap("img")[k].digest)
    BY <1>1, LoadedHonestly DEF HonestMap, DirOf
  <2> QED BY <2>1, KeysApart
<1>3. \A k \in DOMAIN LoadedMap("lts") : IsLatest(LoadedMap("lts")[k].url)
  BY <1>1, LoadedHonestly DEF DirOf
<1> QED BY <1>1, <1>2, <1>3, LoadedHonestly DEF HonestMaps, LatestApart

\* The process is started again.
LEMMA LoadKeepsHonest ==
  ASSUME HonestStore, LoadStore
  PROVE  HonestStore'
BY LoadedApart DEF HonestStore, LoadStore

\* A hit stores an honest manifest under the key it was found with.
LEMMA TouchKeepsHonest ==
  ASSUME HonestStore, NEW u \in ImageUrls, NEW k \in KeyFor(u)
  PROVE  /\ TouchInMemory(u, k) /\ UNCHANGED disk => HonestStore'
         /\ Touch(u, k) => HonestStore'
<1>1. k \in Cached /\ k.ref = u.ref
  BY KeyHasReference
<1>2. Honest(FromCache(k)) /\ k \in KeysOf(FromCache(k).url, FromCache(k).digest)
  BY <1>1, FoundIsHonest
<1>3. TouchInMemory(u, k) => HonestMaps(manifests', latest')
  <2> SUFFICES ASSUME TouchInMemory(u, k) PROVE HonestMaps(manifests', latest')
    OBVIOUS
  <2>1. HonestMap(manifests') /\ HonestMap(latest')
    BY <1>2, MapsStayHonest DEF TouchInMemory, HonestStore, HonestMaps
  <2>2. IsLatest(u) => IsLatest(FromCache(k).url)
    BY <1>1, <1>2, KeysApart DEF IsLatest
  <2>3. LatestApart(manifests', latest')
    BY <1>1, <2>2 DEF LatestApart, TouchInMemory, HonestStore, HonestMaps, Put, IsLatest
  <2> QED BY <2>1, <2>3 DEF HonestMaps
<1>4. HonestDirs(FileAdded(FromCache(k)))
  BY <1>2, FilesStayHonest DEF HonestStore
<1> QED BY <1>3, <1>4 DEF HonestStore, Touch

\* So does an insertion of what was pulled, and a replacement.
LEMMA AddKeepsHonest ==
  ASSUME HonestStore, NEW m, Honest(m), NEW files, AddToCache(m, files)
  PROVE  HonestMaps(manifests', latest')
BY AddedHonestly DEF AddToCache, HonestStore

\* The maps without an entry are honest.
LEMMA RemovedHonestly ==
  ASSUME HonestStore, NEW m, Honest(m)
  PROVE  HonestMaps(ManifestsWithout(m), LatestWithout(m))
<1>1. HonestMap(ManifestsWithout(m)) /\ HonestMap(LatestWithout(m))
  BY MapsStayHonest DEF HonestStore, HonestMaps, ManifestsWithout, LatestWithout
<1>2. LatestApart(ManifestsWithout(m), LatestWithout(m))
  BY DEF HonestStore, HonestMaps, LatestApart, ManifestsWithout, LatestWithout, Without
<1> QED BY <1>1, <1>2 DEF HonestMaps

\* replaceInCache, with the file of the new manifest written.
LEMMA ReplaceKeepsHonest ==
  ASSUME HonestStore, NEW m, Honest(m), NEW dirs, HonestDirs(dirs), NEW files,
         ReplaceInCache(m, dirs, files)
  PROVE  HonestStore'
<1> DEFINE old == FromCache(m.url)
<1>1. CASE m.url \notin Cached
  <2>1. AddToCache(m, files) /\ disk' = dirs
    BY <1>1 DEF ReplaceInCache
  <2> QED BY <2>1, AddKeepsHonest DEF HonestStore
<1>2. CASE m.url \in Cached /\ old.digest = m.digest
  <2>1. disk' = dirs /\ UNCHANGED <<manifests, latest>>
    BY <1>2 DEF ReplaceInCache
  <2> QED BY <2>1 DEF HonestStore
<1>3. CASE m.url \in Cached /\ old.digest # m.digest
  <2>1. /\ ManifestAdded(ManifestsWithout(old), LatestWithout(old), m)
        /\ disk' = FileRemoved(dirs, old)
    BY <1>3 DEF ReplaceInCache
  <2>2. Honest(old)
    BY <1>3, FoundIsHonest
  <2>3. HonestMaps(manifests', latest')
    <3> HIDE DEF old
    <3> QED BY <2>1, <2>2, RemovedHonestly, AddedHonestly
  <2>4. HonestDirs(disk')
    <3> HIDE DEF old
    <3> QED BY <2>1, <2>2, FilesStayHonest DEF HonestStore
  <2> QED BY <2>3, <2>4 DEF HonestStore
<1> QED BY <1>1, <1>2, <1>3

\* prune
LEMMA PruneKeepsHonest ==
  ASSUME HonestStore, NEW m, Honest(m), Prune(m)
  PROVE  HonestStore'
BY RemovedHonestly, FilesStayHonest DEF Prune, HonestStore

\* The manifests a pruner may select are honest.
LEMMA PrimaryIsHonest ==
  ASSUME HonestStore
  PROVE  \A m \in Primary : Honest(m)
BY FoundIsHonest DEF Primary

\* The first start over files of honest manifests.
LEMMA StartsHonest ==
  ASSUME NEW ms, \A m \in ms : Honest(m), StoreInit(ms)
  PROVE  HonestStore
<1> DEFINE Here(dir) == {m \in ms : DirOf(m.url) = dir}
           Of(dir, d) == CHOOSE m \in Here(dir) : m.digest = d
<1>1. /\ DOMAIN disk = Dirs
      /\ \A dir \in Dirs : /\ DOMAIN disk[dir] = {m.digest : m \in Here(dir)}
                           /\ \A d \in DOMAIN disk[dir] : disk[dir][d] = Of(dir, d).url
  BY DEF StoreInit
<1>2. ASSUME NEW dir \in Dirs, NEW d \in DOMAIN disk[dir]
      PROVE  HonestFile(dir, d, disk[dir][d])
  <2>1. Of(dir, d) \in Here(dir) /\ Of(dir, d).digest = d
    BY <1>1
  <2>2. Honest(Of(dir, d)) /\ DirOf(Of(dir, d).url) = dir
    BY <2>1
  <2>3. Of(dir, d) = [url |-> disk[dir][d], digest |-> d] /\ d \in Digests
    <3> HIDE DEF Of
    <3> QED BY <1>1, <2>1, <2>2 DEF Honest, Manifests
  <2> HIDE DEF Of
  <2> QED BY <1>1, <2>2, <2>3 DEF HonestFile
<1>3. HonestDirs(disk)
  BY <1>1, <1>2 DEF HonestDirs
<1> QED BY <1>3, LoadedApart DEF StoreInit, HonestStore

\* What the upstream sends is honest: for a digest it is the digest asked for.
LEMMA PulledIsHonest ==
  ASSUME NEW u \in ImageUrls, NEW d \in Digests, d \in Answers(u)
  PROVE  Honest([url |-> u, digest |-> d])
BY DEF Answers, Honest, Manifests
-----------------------------------------------------------------------------
\* How often layers 1..n list a blob is a number, which grows with n and is not
\* 0 for a blob that is among them.
LEMMA OccursTyped ==
  ASSUME NEW d, NEW b, NEW n \in Nat
  PROVE  /\ Occurs(d, n, b) \in Nat
         /\ \A k \in 0..n : Occurs(d, k, b) <= Occurs(d, n, b)
         /\ \A i \in 1..n : Layers[d][i] = b => Occurs(d, n, b) > 0
         /\ Occurs(d, n, b) > 0 => \E i \in 1..n : Layers[d][i] = b
<1> DEFINE At(k) == {i \in 1..k : Layers[d][i] = b}
<1>1. ASSUME NEW k \in Nat PROVE IsFiniteSet(At(k)) /\ Cardinality(At(k)) \in Nat
  <2>1. IsFiniteSet(1..k) /\ At(k) \in SUBSET (1..k)
    BY FS_Interval
  <2> HIDE DEF At
  <2> QED BY <2>1, FS_Subset, FS_CardinalityType
<1>2. ASSUME NEW k \in 0..n PROVE At(k) \in SUBSET At(n)
  OBVIOUS
<1>3. \A k \in Nat : Occurs(d, k, b) = Cardinality(At(k))
  BY DEF Occurs
<1>4. ASSUME NEW k \in 0..n PROVE Cardinality(At(k)) <= Cardinality(At(n))
  <2> HIDE DEF At
  <2> QED BY <1>1, <1>2, FS_Subset
<1>5. Cardinality(At(n)) > 0 <=> At(n) # {}
  <2> HIDE DEF At
  <2> QED BY <1>1, FS_EmptySet
<1>6. At(n) # {} <=> \E i \in 1..n : Layers[d][i] = b
  OBVIOUS
<1> HIDE DEF At
<1>7. Occurs(d, n, b) \in Nat /\ \A k \in 0..n : Occurs(d, k, b) <= Occurs(d, n, b)
  BY <1>1, <1>3, <1>4
<1>8. Occurs(d, n, b) > 0 <=> \E i \in 1..n : Layers[d][i] = b
  BY <1>3, <1>5, <1>6
<1> QED BY <1>7, <1>8

\* A digest lists finitely many blobs, all of them blobs.
LEMMA LayersTyped ==
  ASSUME NEW d \in Digests
  PROVE  /\ Len(Layers[d]) \in Nat /\ DOMAIN Layers[d] = 1..Len(Layers[d])
         /\ \A i \in 1..Len(Layers[d]) : Layers[d][i] \in Blobs
         /\ BlobsOf(d) = {Layers[d][i] : i \in 1..Len(Layers[d])} /\ BlobsOf(d) \subseteq Blobs
<1>1. Layers[d] \in Seq(Blobs)
  BY FilesAssumption
<1>2. /\ Len(Layers[d]) \in Nat /\ DOMAIN Layers[d] = 1..Len(Layers[d])
      /\ \A i \in 1..Len(Layers[d]) : Layers[d][i] \in Blobs
  BY <1>1
<1> QED BY <1>2 DEF BlobsOf

\* The references that a digest makes to a blob.
Refs(d, b) == Occurs(d, Len(Layers[d]), b)

\* How often an image lists a blob is a number, and not 0 for its blobs.
LEMMA RefsTyped ==
  ASSUME NEW d \in Digests, NEW b
  PROVE  Refs(d, b) \in Nat /\ (Refs(d, b) > 0 <=> b \in BlobsOf(d))
<1>1. Len(Layers[d]) \in Nat /\ BlobsOf(d) = {Layers[d][i] : i \in 1..Len(Layers[d])}
  BY LayersTyped
<1> QED BY <1>1, OccursTyped DEF Refs

-----------------------------------------------------------------------------
\* The places of one manifest are as many as its references.
LEMMA PlacesOfOne ==
  ASSUME NEW m, m.digest \in Digests, NEW b
  PROVE  IsFiniteSet(Places({m}, b)) /\ Cardinality(Places({m}, b)) = Refs(m.digest, b)
<1> DEFINE n == Len(Layers[m.digest])
           At == {i \in 1..n : Layers[m.digest][i] = b}
           f == [i \in At |-> <<m, i>>]
<1>1. n \in Nat /\ DOMAIN Layers[m.digest] = 1..n
  BY LayersTyped
<1>2. Places({m}, b) = {<<m, i>> : i \in At}
  <2>1. Places({m}, b) = {<<m, i>> : i \in {j \in DOMAIN Layers[m.digest] : Layers[m.digest][j] = b}}
    BY DEF Places
  <2> QED BY <1>1, <2>1
<1>3. f \in Bijection(At, Places({m}, b))
  <2>1. \A i, j \in At : <<m, i>> = <<m, j>> => i = j
    OBVIOUS
  <2> HIDE DEF At
  <2> QED BY <1>2, <2>1 DEF Bijection, Injection, Surjection, IsInjective
<1>4. IsFiniteSet(At)
  <2>1. IsFiniteSet(1..n) /\ At \in SUBSET (1..n)
    BY <1>1, FS_Interval
  <2> HIDE DEF At
  <2> QED BY <2>1, FS_Subset
<1>5. Refs(m.digest, b) = Cardinality(At)
  BY DEF Refs, Occurs
<1> HIDE DEF At, f
<1> QED BY <1>3, <1>4, <1>5, FS_Bijection DEF ExistsBijection

\* Finitely many manifests have finitely many places.
LEMMA PlacesFinite ==
  ASSUME NEW ms, IsFiniteSet(ms), \A m \in ms : m.digest \in Digests, NEW b
  PROVE  IsFiniteSet(Places(ms, b)) /\ Cardinality(Places(ms, b)) \in Nat
<1> DEFINE P(m) == Places({m}, b)
           all == {P(m) : m \in ms}
<1>1. Places(ms, b) = UNION all
  BY DEF Places
<1>2. [m \in ms |-> P(m)] \in Surjection(ms, all)
  BY DEF Surjection
<1>3. \A T \in all : IsFiniteSet(T)
  <2>1. \A m \in ms : IsFiniteSet(P(m))
    BY PlacesOfOne
  <2> HIDE DEF P
  <2> QED BY <2>1
<1>4. IsFiniteSet(all)
  <2> HIDE DEF all
  <2> QED BY <1>2, FS_Surjection
<1> HIDE DEF all
<1> QED BY <1>1, <1>3, <1>4, FS_UNION, FS_CardinalityType

\* One manifest more makes at most its references more; fewer manifests have
\* no more; and without one of them there are less by its references.
LEMMA PlacesGrow ==
  ASSUME NEW ms, IsFiniteSet(ms), \A n \in ms : n.digest \in Digests,
         NEW m, m.digest \in Digests, NEW b, NEW more \in SUBSET (ms \cup {m})
  PROVE  /\ Cardinality(Places(more, b)) \in Nat
         /\ Cardinality(Places(more, b)) <= Cardinality(Places(ms, b)) + Refs(m.digest, b)
<1> DEFINE P == Places(ms, b)
           Q == Places({m}, b)
<1>1. IsFiniteSet(P) /\ Cardinality(P) \in Nat
  BY PlacesFinite
<1>2. IsFiniteSet(Q) /\ Cardinality(Q) = Refs(m.digest, b) /\ Refs(m.digest, b) \in Nat
  BY PlacesOfOne, RefsTyped
<1>3. Places(more, b) \in SUBSET (P \cup Q)
  BY DEF Places
<1> HIDE DEF P, Q
<1>4. IsFiniteSet(P \cup Q) /\ Cardinality(P \cup Q) = Cardinality(P) + Cardinality(Q) - Cardinality(P \cap Q)
  BY <1>1, <1>2, FS_Union
<1>5. IsFiniteSet(P \cap Q) /\ Cardinality(P \cap Q) \in Nat
  BY <1>1, FS_Intersection, FS_CardinalityType
<1>6. Cardinality(Places(more, b)) \in Nat /\ Cardinality(Places(more, b)) <= Cardinality(P \cup Q)
  BY <1>3, <1>4, FS_Subset, FS_CardinalityType
<1> QED BY <1>1, <1>2, <1>4, <1>5, <1>6 DEF P

\* Without one of its manifests, a set has fewer places by what that one lists.
LEMMA PlacesShrink ==
  ASSUME NEW ms, IsFiniteSet(ms), \A n \in ms : n.digest \in Digests,
         NEW m \in ms, NEW b, NEW left \in SUBSET (ms \ {m})
  PROVE  /\ Cardinality(Places(left, b)) \in Nat /\ Cardinality(Places(ms, b)) \in Nat
         /\ Cardinality(Places(left, b)) + Refs(m.digest, b) <= Cardinality(Places(ms, b))
<1> DEFINE P == Places(left, b)
           Q == Places({m}, b)
<1>1. IsFiniteSet(left)
  BY FS_Subset
<1>2. IsFiniteSet(P) /\ Cardinality(P) \in Nat
  BY <1>1, PlacesFinite
<1>3. IsFiniteSet(Q) /\ Cardinality(Q) = Refs(m.digest, b)  /\ Refs(m.digest, b) \in Nat
  BY PlacesOfOne, RefsTyped
<1>4. P \cap Q = {}
  <2>1. \A p \in P : p[1] \in left
    BY DEF Places
  <2>2. \A p \in Q : p[1] = m
    BY DEF Places
  <2> HIDE DEF P, Q
  <2> QED BY <2>1, <2>2
<1>5. (P \cup Q) \in SUBSET Places(ms, b)
  BY DEF Places
<1>6. IsFiniteSet(Places(ms, b)) /\ Cardinality(Places(ms, b)) \in Nat
  BY PlacesFinite
<1> HIDE DEF P, Q
<1>7. Cardinality(P \cup Q) = Cardinality(P) + Cardinality(Q)
  <2>1. Cardinality(P \cup Q) = Cardinality(P) + Cardinality(Q) - Cardinality(P \cap Q)
    BY <1>2, <1>3, FS_Union
  <2>2. Cardinality(P \cap Q) = 0
    BY <1>4, FS_EmptySet
  <2> QED BY <1>2, <1>3, <2>1, <2>2
<1>8. Cardinality(P \cup Q) <= Cardinality(Places(ms, b))
  BY <1>5, <1>6, FS_Subset
<1> QED BY <1>2, <1>3, <1>6, <1>7, <1>8 DEF P

-----------------------------------------------------------------------------
\* A loop over layers ends at one of them.
LEMMA LoopEndTyped ==
  ASSUME NEW n \in Nat, NEW stops \in SUBSET (1..n)
  PROVE  LoopEnd(n, stops) \in 0..n
<1>1. CASE stops = {}
  BY <1>1 DEF LoopEnd
<1>2. CASE stops # {}
  <2>1. stops \subseteq Nat
    OBVIOUS
  <2>2. PICK i \in stops : \A k \in stops : ~ (<<k, i>> \in OpToRel(<, Nat))
    BY <1>2, <2>1, NatLessThanWellFounded, WFMin
  <2>3. ASSUME NEW k \in stops PROVE i <= k
    <3>1. ~ (k < i)
      BY <2>1, <2>2 DEF OpToRel
    <3>2. k \in Nat /\ i \in Nat
      BY <2>1
    <3> QED BY <3>1, <3>2
  <2>4. Min(stops) \in stops
    BY <2>3 DEF Min
  <2>5. LoopEnd(n, stops) = Min(stops)
    BY <1>2 DEF LoopEnd
  <2>6. Min(stops) \in 1..n
    BY <2>4
  <2> QED BY <2>5, <2>6
<1> QED BY <1>1, <1>2

\* Adding and removing an image leave counts that are integers.
LEMMA CountsTyped ==
  ASSUME NEW cnt \in [Blobs -> Int], NEW files, NEW d \in Digests
  PROVE  /\ CountsAfterAdd(cnt, files, d) \in [Blobs -> Int]
         /\ RemovedLayers(cnt, d) \in 0..Len(Layers[d])
         /\ CountsAfterRm(cnt, d) \in [Blobs -> Int]
<1> DEFINE len == Len(Layers[d])
           absent == {i \in 1..len : Layers[d][i] \notin files}
           below == {i \in 1..len : CountAt(cnt, d, i) < 0}
           n == LoopEnd(len, absent)
<1>1. len \in Nat
  BY LayersTyped
<1>2. n \in 0..len /\ RemovedLayers(cnt, d) \in 0..len
  <2>1. absent \in SUBSET (1..len) /\ below \in SUBSET (1..len)
    OBVIOUS
  <2>2. RemovedLayers(cnt, d) = LoopEnd(len, below)
    BY DEF RemovedLayers
  <2> HIDE DEF len, absent, below
  <2> QED BY <1>1, <2>1, <2>2, LoopEndTyped
<1>3. \A k \in 0..len, b \in Blobs : Occurs(d, k, b) \in Nat
  BY <1>1, OccursTyped
<1>4. CountsAfterAdd(cnt, files, d) = [b \in Blobs |-> cnt[b] + Occurs(d, n, b)]
  BY DEF CountsAfterAdd
<1> HIDE DEF n
<1> QED BY <1>1, <1>2, <1>3, <1>4 DEF CountsAfterRm

\* When every blob has its file each reference is counted.
LEMMA AllCounted ==
  ASSUME NEW cnt \in [Blobs -> Int], NEW files, NEW d \in Digests, Complete(d, files), NEW b \in Blobs
  PROVE  CountsAfterAdd(cnt, files, d)[b] = cnt[b] + Refs(d, b)
<1> DEFINE len == Len(Layers[d])
           absent == {i \in 1..len : Layers[d][i] \notin files}
<1>1. absent = {}
  BY LayersTyped DEF Complete
<1>2. CountsAfterAdd(cnt, files, d)[b] = cnt[b] + Occurs(d, LoopEnd(len, absent), b)
  BY DEF CountsAfterAdd
<1> HIDE DEF absent
<1> QED BY <1>1, <1>2 DEF LoopEnd, Refs

\* No more than each reference is discounted, and a blob that is still counted
\* keeps its file.
LEMMA Discounted ==
  ASSUME NEW cnt \in [Blobs -> Int], NEW files, NEW d \in Digests, NEW b \in Blobs
  PROVE  /\ CountsAfterRm(cnt, d)[b] >= cnt[b] - Refs(d, b) /\ CountsAfterRm(cnt, d)[b] <= cnt[b]
         /\ CountsAfterRm(cnt, d)[b] > 0 /\ b \in files => b \in FilesAfterRm(cnt, files, d)
<1> DEFINE len == Len(Layers[d])
           n == RemovedLayers(cnt, d)
<1>1. len \in Nat /\ n \in 0..len /\ cnt[b] \in Int
  BY LayersTyped, CountsTyped
<1>2. CountsAfterRm(cnt, d)[b] = cnt[b] - Occurs(d, n, b)
  BY DEF CountsAfterRm
<1>3. Occurs(d, n, b) \in Nat /\ Occurs(d, n, b) <= Refs(d, b) /\ Refs(d, b) \in Nat
  <2>1. n \in Nat
    BY <1>1
  <2> HIDE DEF n
  <2> QED BY <1>1, <2>1, OccursTyped DEF Refs
<1>4. ASSUME CountsAfterRm(cnt, d)[b] > 0, b \in files
      PROVE  b \in FilesAfterRm(cnt, files, d)
  <2>1. SUFFICES ASSUME NEW i \in 1..n, CountAt(cnt, d, i) = 0, Layers[d][i] = b PROVE FALSE
    BY <1>4 DEF FilesAfterRm
  <2>2. cnt[b] - Occurs(d, i, b) = 0
    BY <2>1 DEF CountAt
  <2>3. Occurs(d, i, b) \in Nat /\ Occurs(d, i, b) <= Occurs(d, n, b)
    <3>1. n \in Nat /\ i \in Nat /\ i \in 0..n
      BY <1>1
    <3> HIDE DEF n
    <3> QED BY <3>1, OccursTyped
  <2> HIDE DEF n
  <2> QED BY <1>1, <1>2, <1>3, <1>4, <2>2, <2>3
<1> HIDE DEF n
<1> QED BY <1>1, <1>2, <1>3, <1>4

-----------------------------------------------------------------------------
\* Primary, of any two maps.
PrimaryOf(mans, lts) ==
  {m \in Manifests : \/ m.url \in DOMAIN mans /\ m = mans[m.url]
                     \/ m.url \in DOMAIN lts \ DOMAIN mans /\ m = lts[m.url]}

\* With honest maps, what GetManifestsCompare finds, in terms of the two maps.
LEMMA PrimaryIsOf ==
  ASSUME HonestStore
  PROVE  Primary = PrimaryOf(manifests, latest)
<1>1. ASSUME NEW k \in Cached PROVE FromCache(k) \in Manifests
  BY FoundIsHonest DEF Honest
<1> QED BY <1>1 DEF Primary, PrimaryOf, Cached, FromCache

\* And so it is in the next state.
LEMMA PrimaryIsOfNext ==
  ASSUME HonestMaps(manifests', latest')
  PROVE  Primary' = PrimaryOf(manifests', latest')
<1>1. ASSUME NEW k \in Cached' PROVE FromCache(k)' \in Manifests
  BY DEF HonestMaps, HonestMap, Honest, Cached, FromCache
<1> QED BY <1>1 DEF Primary, PrimaryOf, Cached, FromCache

\* There are finitely many primary manifests.
LEMMA PrimaryFinite ==
  ASSUME HonestStore
  PROVE  IsFiniteSet(Primary) /\ \A m \in Primary : Honest(m) /\ m.digest \in Digests
<1>1. IsFiniteSet(Cached)
  BY FS_Union DEF HonestStore, HonestMaps, HonestMap, Cached
<1> DEFINE found == {FromCache(k) : k \in Cached}
<1>2. [k \in Cached |-> FromCache(k)] \in Surjection(Cached, found)
  BY DEF Surjection
<1>3. IsFiniteSet(found)
  <2> HIDE DEF found
  <2> QED BY <1>1, <1>2, FS_Surjection
<1>4. Primary \in SUBSET found
  BY DEF Primary
<1>5. IsFiniteSet(Primary)
  <2> HIDE DEF found
  <2> QED BY <1>3, <1>4, FS_Subset
<1> QED BY <1>5, PrimaryIsHonest DEF Honest, Manifests

\* Adding a manifest makes no other one primary.
LEMMA PrimaryAdded ==
  ASSUME NEW mans, NEW lts, HonestMaps(mans, lts), NEW m, Honest(m), ManifestAdded(mans, lts, m)
  PROVE  PrimaryOf(manifests', latest') \in SUBSET (PrimaryOf(mans, lts) \cup {m})
BY DEF ManifestAdded, PrimaryOf, PutAll

\* Without m, m is not primary and nothing else becomes so.
LEMMA PrimaryRemoved ==
  ASSUME HonestStore, NEW m, Honest(m)
  PROVE  PrimaryOf(ManifestsWithout(m), LatestWithout(m)) \in SUBSET (Primary \ {m})
<1>1. PrimaryOf(ManifestsWithout(m), LatestWithout(m)) \in SUBSET (PrimaryOf(manifests, latest) \ {m})
  <2>1. m.url \in KeysOf(m.url, m.digest)
    BY DEF KeysOf
  <2>2. LatestApart(manifests, latest)
    BY DEF HonestStore, HonestMaps
  <2> QED BY <2>1, <2>2 DEF PrimaryOf, ManifestsWithout, LatestWithout, Without, LatestApart
<1> QED BY <1>1, PrimaryIsOf

\* A hit changes no primary manifest.
LEMMA PrimaryTouched ==
  ASSUME HonestStore, NEW u \in ImageUrls, NEW k \in KeyFor(u), TouchInMemory(u, k)
  PROVE  PrimaryOf(manifests', latest') = Primary
<1>1. k \in Cached /\ k.ref = u.ref
  BY KeyHasReference
<1>2. LatestApart(manifests, latest)
  BY DEF HonestStore, HonestMaps
<1>3. PrimaryOf(manifests', latest') = PrimaryOf(manifests, latest)
  <2>1. CASE IsLatest(u)
    <3>1. k \in DOMAIN latest /\ latest' = Put(latest, k, latest[k]) /\ manifests' = manifests
      BY <1>1, <1>2, <2>1 DEF TouchInMemory, LatestApart, IsLatest, Cached, FromCache
    <3>2. DOMAIN latest' = DOMAIN latest /\ \A x \in DOMAIN latest : latest'[x] = latest[x]
      BY <3>1 DEF Put
    <3> QED BY <3>1, <3>2 DEF PrimaryOf
  <2>2. CASE ~IsLatest(u)
    <3>1. manifests' = Put(manifests, k, FromCache(k)) /\ latest' = latest
      BY <2>2 DEF TouchInMemory
    <3>2. DOMAIN manifests' = DOMAIN manifests \cup {k}
          /\ \A x \in DOMAIN manifests' : manifests'[x] = IF x = k THEN FromCache(k) ELSE manifests[x]
      BY <3>1 DEF Put
    <3> QED BY <1>1, <3>1, <3>2 DEF PrimaryOf, Cached, FromCache
  <2> QED BY <2>1, <2>2
<1> QED BY <1>3, PrimaryIsOf

\* What latest is cached as is primary.
LEMMA LatestIsPrimary ==
  ASSUME HonestStore, NEW u \in Cached, IsLatest(u)
  PROVE  FromCache(u) \in Primary
<1>1. FromCache(u).url = u
  BY FoundIsHonest, KeysApart
<1> QED BY <1>1 DEF Primary

-----------------------------------------------------------------------------
TypedStore == refCnt \in [Blobs -> Int] /\ blobFiles \subseteq Blobs

\* No manifest of ms is undercounted in cnt, and what is counted has a file.
Covers(cnt, ms) == \A b \in Blobs : cnt[b] >= Cardinality(Places(ms, b))
Filed(cnt, files) == \A b \in Blobs : cnt[b] > 0 => b \in files
SafeStore == Covers(refCnt, Primary) /\ Filed(refCnt, blobFiles)

\* What the counts and files are safe for is listed and complete.
LEMMA SafetyMeans ==
  ASSUME HonestStore, TypedStore, SafeStore
  PROVE  NeverUndercounted /\ NoNegativeCount /\ CountedBlobsHaveFiles /\ PrimaryIsServable
<1>1. ASSUME NEW b \in Blobs
      PROVE  refCnt[b] \in Int /\ refCnt[b] >= References(b) /\ References(b) \in Nat
  BY PrimaryFinite, PlacesFinite DEF SafeStore, Covers, References, TypedStore
<1>2. NeverUndercounted /\ NoNegativeCount /\ CountedBlobsHaveFiles
  BY <1>1 DEF NeverUndercounted, NoNegativeCount, CountedBlobsHaveFiles, SafeStore, Filed
<1>3. ASSUME NEW m \in Primary, NEW b \in BlobsOf(m.digest)
      PROVE  refCnt[b] > 0 /\ b \in blobFiles
  <2>1. m.digest \in Digests /\ IsFiniteSet(Primary)
    BY PrimaryFinite
  <2>2. b \in Blobs
    BY <2>1, LayersTyped
  <2>3. Refs(m.digest, b) \in Nat /\ Refs(m.digest, b) > 0
    BY <2>1, RefsTyped
  <2>4. {} \in SUBSET (Primary \ {m})
    OBVIOUS
  <2>5. References(b) >= Refs(m.digest, b)
    <3>1. Cardinality(Places({}, b)) \in Nat /\ References(b) \in Nat
          /\ Cardinality(Places({}, b)) + Refs(m.digest, b) <= References(b)
      BY <2>1, <2>4, PrimaryFinite, PlacesShrink DEF References
    <3> QED BY <2>3, <3>1
  <2>6. refCnt[b] > 0
    BY <1>1, <2>2, <2>3, <2>5
  <2> QED BY <2>2, <2>6 DEF SafeStore, Filed
<1> QED BY <1>2, <1>3 DEF PrimaryIsServable

\* Counting what is added covers it, and what was covered stays so.
LEMMA CoversAdded ==
  ASSUME NEW cnt \in [Blobs -> Int], NEW ms, IsFiniteSet(ms), \A n \in ms : n.digest \in Digests,
         Covers(cnt, ms), NEW m, m.digest \in Digests, NEW files, Complete(m.digest, files),
         NEW more \in SUBSET (ms \cup {m})
  PROVE  Covers(CountsAfterAdd(cnt, files, m.digest), more)
<1> SUFFICES ASSUME NEW b \in Blobs
             PROVE  CountsAfterAdd(cnt, files, m.digest)[b] >= Cardinality(Places(more, b))
  BY DEF Covers
<1>1. cnt[b] \in Int /\ cnt[b] >= Cardinality(Places(ms, b))
  BY DEF Covers
<1>2. CountsAfterAdd(cnt, files, m.digest)[b] = cnt[b] + Refs(m.digest, b)
  BY AllCounted
<1>3. Cardinality(Places(ms, b)) \in Nat /\ Refs(m.digest, b) \in Nat
  BY PlacesFinite, RefsTyped
<1>4. /\ Cardinality(Places(more, b)) \in Nat
      /\ Cardinality(Places(more, b)) <= Cardinality(Places(ms, b)) + Refs(m.digest, b)
  BY PlacesGrow
<1> QED BY <1>1, <1>2, <1>3, <1>4

\* So does discounting what is removed, if it was there.
LEMMA CoversRemoved ==
  ASSUME NEW cnt \in [Blobs -> Int], NEW ms, IsFiniteSet(ms), \A n \in ms : n.digest \in Digests,
         Covers(cnt, ms), NEW m \in ms, NEW left \in SUBSET (ms \ {m})
  PROVE  Covers(CountsAfterRm(cnt, m.digest), left)
<1> SUFFICES ASSUME NEW b \in Blobs
             PROVE  CountsAfterRm(cnt, m.digest)[b] >= Cardinality(Places(left, b))
  BY DEF Covers
<1>1. cnt[b] \in Int /\ cnt[b] >= Cardinality(Places(ms, b)) /\ m.digest \in Digests
  BY DEF Covers
<1>2. CountsAfterRm(cnt, m.digest)[b] \in Int /\ CountsAfterRm(cnt, m.digest)[b] >= cnt[b] - Refs(m.digest, b)
  BY <1>1, Discounted, CountsTyped
<1>3. /\ Cardinality(Places(left, b)) \in Nat /\ Cardinality(Places(ms, b)) \in Nat
      /\ Cardinality(Places(left, b)) + Refs(m.digest, b) <= Cardinality(Places(ms, b))
  BY PlacesShrink
<1>4. Refs(m.digest, b) \in Nat
  BY <1>1, RefsTyped
<1> QED BY <1>1, <1>2, <1>3, <1>4

\* What the counts take in, and keep, has a file.
LEMMA FiledAdded ==
  ASSUME NEW cnt \in [Blobs -> Int], NEW d \in Digests, NEW files, Complete(d, files), Filed(cnt, files)
  PROVE  Filed(CountsAfterAdd(cnt, files, d), files)
<1> SUFFICES ASSUME NEW b \in Blobs, CountsAfterAdd(cnt, files, d)[b] > 0, b \notin BlobsOf(d)
             PROVE  cnt[b] > 0
  BY DEF Filed, Complete
<1>1. CountsAfterAdd(cnt, files, d)[b] = cnt[b] + Refs(d, b)
  BY AllCounted
<1>2. Refs(d, b) = 0 /\ cnt[b] \in Int
  BY RefsTyped
<1> QED BY <1>1, <1>2

\* A blob that is still counted after an image is removed has kept its file.
LEMMA FiledRemoved ==
  ASSUME NEW cnt \in [Blobs -> Int], NEW d \in Digests, NEW files, Filed(cnt, files)
  PROVE  Filed(CountsAfterRm(cnt, d), FilesAfterRm(cnt, files, d))
<1> SUFFICES ASSUME NEW b \in Blobs, CountsAfterRm(cnt, d)[b] > 0
             PROVE  b \in FilesAfterRm(cnt, files, d)
  BY DEF Filed
<1>1. CountsAfterRm(cnt, d)[b] <= cnt[b] /\ CountsAfterRm(cnt, d)[b] \in Int /\ cnt[b] \in Int
  BY Discounted, CountsTyped
<1>2. b \in files
  BY <1>1 DEF Filed
<1> QED BY <1>2, Discounted

-----------------------------------------------------------------------------
\* addToCache, over files that include all there were.
LEMMA AddIsSafe ==
  ASSUME HonestStore, TypedStore, NEW m, Honest(m), NEW files \in SUBSET Blobs,
         blobFiles \subseteq files, AddToCache(m, files), blobFiles' = files
  PROVE  TypedStore' /\ (SafeStore /\ Complete(m.digest, files) => SafeStore')
<1>1. m.digest \in Digests /\ refCnt \in [Blobs -> Int]
  BY DEF Honest, Manifests, TypedStore
<1>2. refCnt' = CountsAfterAdd(refCnt, files, m.digest)
  BY DEF AddToCache
<1>3. TypedStore'
  BY <1>1, <1>2, CountsTyped DEF TypedStore
<1>4. Primary' = PrimaryOf(manifests', latest')
  BY AddKeepsHonest, PrimaryIsOfNext
<1>5. Primary' \in SUBSET (Primary \cup {m})
  BY <1>4, PrimaryAdded, PrimaryIsOf DEF AddToCache, HonestStore
<1>6. ASSUME SafeStore, Complete(m.digest, files) PROVE SafeStore'
  <2>1. Covers(refCnt', Primary')
    BY <1>1, <1>2, <1>5, <1>6, PrimaryFinite, CoversAdded DEF SafeStore
  <2>2. Filed(refCnt', files)
    BY <1>1, <1>2, <1>6, FiledAdded DEF SafeStore, Filed
  <2> QED BY <2>1, <2>2 DEF SafeStore, Covers, Filed
<1> QED BY <1>3, <1>6

\* prune, of any manifest; it is safe for one that is primary.
LEMMA PruneIsSafe ==
  ASSUME HonestStore, TypedStore, NEW m, Honest(m), Prune(m)
  PROVE  TypedStore' /\ (SafeStore /\ m \in Primary => SafeStore')
<1>1. m.digest \in Digests /\ refCnt \in [Blobs -> Int]
  BY DEF Honest, Manifests, TypedStore
<1>2. /\ refCnt' = CountsAfterRm(refCnt, m.digest)
      /\ blobFiles' = FilesAfterRm(refCnt, blobFiles, m.digest)
      /\ manifests' = ManifestsWithout(m) /\ latest' = LatestWithout(m)
  BY DEF Prune
<1>3. TypedStore'
  BY <1>1, <1>2, CountsTyped DEF TypedStore, FilesAfterRm
<1>4. Primary' \in SUBSET (Primary \ {m})
  <2>1. HonestMaps(manifests', latest')
    BY <1>2, RemovedHonestly
  <2> QED BY <1>2, <2>1, PrimaryIsOfNext, PrimaryRemoved
<1>5. ASSUME SafeStore, m \in Primary PROVE SafeStore'
  <2>1. Covers(refCnt', Primary')
    BY <1>1, <1>2, <1>4, <1>5, PrimaryFinite, CoversRemoved DEF SafeStore
  <2>2. Filed(refCnt', blobFiles')
    BY <1>1, <1>2, <1>5, FiledRemoved DEF SafeStore
  <2> QED BY <2>1, <2>2 DEF SafeStore, Covers, Filed
<1> QED BY <1>3, <1>5

\* replaceInCache, over files that include all there were; the blobs of the old
\* manifest are let go after those of the new one are counted.
LEMMA ReplaceIsSafe ==
  ASSUME HonestStore, TypedStore, NEW m, Honest(m), IsLatest(m.url),
         NEW dirs, NEW files \in SUBSET Blobs, blobFiles \subseteq files,
         ReplaceInCache(m, dirs, files)
  PROVE  /\ TypedStore'
         /\ /\ SafeStore
            /\ \/ Complete(m.digest, files)
               \/ m.url \in Cached /\ FromCache(m.url).digest = m.digest
            => SafeStore'
<1> DEFINE old == FromCache(m.url)
           counts == CountsAfterAdd(refCnt, files, m.digest)
           mans == ManifestsWithout(old)
           lts == LatestWithout(old)
<1>0. m.digest \in Digests /\ refCnt \in [Blobs -> Int]
  BY DEF Honest, Manifests, TypedStore
<1>1. CASE m.url \notin Cached
  <2>1. AddToCache(m, files) /\ blobFiles' = files
    BY <1>1 DEF ReplaceInCache
  <2> QED BY <1>1, <2>1, AddIsSafe
<1>2. CASE m.url \in Cached /\ old.digest = m.digest
  <2>1. blobFiles' = files /\ UNCHANGED <<manifests, latest, refCnt>>
    BY <1>2 DEF ReplaceInCache
  <2>2. Primary' = Primary
    BY <2>1 DEF Primary, Cached, FromCache
  <2> QED BY <2>1, <2>2 DEF TypedStore, SafeStore, Covers, Filed
<1>3. CASE m.url \in Cached /\ old.digest # m.digest
  <2>1. /\ ManifestAdded(mans, lts, m)
        /\ refCnt' = CountsAfterRm(counts, old.digest)
        /\ blobFiles' = FilesAfterRm(counts, files, old.digest)
    BY <1>3 DEF ReplaceInCache
  <2>2. Honest(old) /\ old.digest \in Digests /\ old \in Primary /\ old # m
    BY <1>3, FoundIsHonest, LatestIsPrimary DEF Honest, Manifests
  <2>3. counts \in [Blobs -> Int]
    BY <1>0, CountsTyped
  <2>4. TypedStore'
    <3> HIDE DEF counts, old
    <3> QED BY <2>1, <2>2, <2>3, CountsTyped DEF TypedStore, FilesAfterRm
  <2>5. HonestMaps(mans, lts)
    <3> HIDE DEF old
    <3> QED BY <2>2, RemovedHonestly
  <2>6. PrimaryOf(mans, lts) \in SUBSET (Primary \ {old})
    <3> HIDE DEF old
    <3> QED BY <2>2, PrimaryRemoved
  <2>7. Primary' \in SUBSET ((Primary \cup {m}) \ {old})
    <3> HIDE DEF old, mans, lts
    <3>1. Primary' = PrimaryOf(manifests', latest')
      BY <2>1, <2>5, AddedHonestly, PrimaryIsOfNext
    <3>2. Primary' \in SUBSET (PrimaryOf(mans, lts) \cup {m})
      BY <2>1, <2>5, <3>1, PrimaryAdded
    <3> QED BY <2>2, <2>6, <3>2
  <2>8. ASSUME SafeStore, Complete(m.digest, files) PROVE SafeStore'
    <3> DEFINE both == Primary \cup {m}
    <3>1. IsFiniteSet(both) /\ \A n \in both : n.digest \in Digests
      BY <1>0, PrimaryFinite, FS_AddElement
    <3>2. Covers(counts, both)
      <4> HIDE DEF both
      <4>1. both \in SUBSET (Primary \cup {m})
        BY DEF both
      <4> QED BY <1>0, <2>8, <4>1, PrimaryFinite, CoversAdded DEF SafeStore
    <3>3. Covers(refCnt', Primary')
      <4>1. old \in both /\ Primary' \in SUBSET (both \ {old})
        BY <2>2, <2>7
      <4> HIDE DEF both, old, counts
      <4> QED BY <2>1, <2>3, <3>1, <3>2, <4>1, CoversRemoved
    <3>4. Filed(refCnt, files)
      BY <2>8 DEF SafeStore, Filed
    <3>5. Filed(counts, files)
      BY <1>0, <2>8, <3>4, FiledAdded
    <3>6. Filed(refCnt', blobFiles')
      <4> HIDE DEF old, counts
      <4> QED BY <2>1, <2>2, <2>3, <3>5, FiledRemoved
    <3> QED BY <3>3, <3>6 DEF SafeStore, Covers, Filed
  <2> QED BY <1>3, <2>4, <2>8
<1> QED BY <1>1, <1>2, <1>3

\* Steps that change no count and no primary manifest, and remove no blob.
LEMMA QuietIsSafe ==
  ASSUME TypedStore, PrimaryOf(manifests', latest') = Primary, HonestMaps(manifests', latest'),
         refCnt' = refCnt, blobFiles \subseteq blobFiles', blobFiles' \subseteq Blobs
  PROVE  TypedStore' /\ (SafeStore => SafeStore')
<1>1. Primary' = Primary
  BY PrimaryIsOfNext
<1> QED BY <1>1 DEF TypedStore, SafeStore, Covers, Filed

-----------------------------------------------------------------------------
\* The files that are loaded are finitely many manifests, with all their blobs.
LEMMA LoadedFilesTyped ==
  ASSUME HonestDirs(disk)
  PROVE  /\ IsFiniteSet(LoadedFiles)
         /\ \A m \in LoadedFiles : m.digest \in Digests /\ Complete(m.digest, blobFiles)
<1> DEFINE F(dir) == {[url |-> disk[dir][d], digest |-> d] : d \in FilesToLoad(dir)}
<1>1. ASSUME NEW dir \in Dirs
      PROVE  /\ IsFiniteSet(F(dir))
             /\ \A m \in F(dir) : m.digest \in Digests /\ Complete(m.digest, blobFiles)
  <2>1. FilesToLoad(dir) \in SUBSET Digests
    BY DEF FilesToLoad, Walked, Readable, HonestDirs, HonestFile
  <2>2. IsFiniteSet(FilesToLoad(dir))
    BY <2>1, FilesAssumption, FS_Subset
  <2>3. [d \in FilesToLoad(dir) |-> [url |-> disk[dir][d], digest |-> d]]
          \in Surjection(FilesToLoad(dir), F(dir))
    BY DEF Surjection
  <2>4. IsFiniteSet(F(dir))
    <3> HIDE DEF F
    <3> QED BY <2>2, <2>3, FS_Surjection
  <2>5. \A d \in FilesToLoad(dir) : Complete(d, blobFiles)
    BY DEF FilesToLoad
  <2> QED BY <2>1, <2>4, <2>5
<1>2. LoadedFiles = F("lts") \cup F("img") /\ "lts" \in Dirs /\ "img" \in Dirs
  BY DEF LoadedFiles, Dirs
<1> HIDE DEF F
<1> QED BY <1>1, <1>2, FS_Union

\* The counts that Load takes are those of the files, and cover what it lists.
LEMMA LoadedIsSafe ==
  ASSUME HonestDirs(disk)
  PROVE  /\ LoadedCounts \in [Blobs -> Int]
         /\ Covers(LoadedCounts, PrimaryOf(LoadedMap("img"), LoadedMap("lts")))
         /\ Filed(LoadedCounts, blobFiles)
<1> DEFINE listed == PrimaryOf(LoadedMap("img"), LoadedMap("lts"))
<1>1. ASSUME NEW b \in Blobs
      PROVE  IsFiniteSet(Places(LoadedFiles, b)) /\ LoadedCounts[b] = Cardinality(Places(LoadedFiles, b))
             /\ LoadedCounts[b] \in Nat
  BY LoadedFilesTyped, PlacesFinite DEF LoadedCounts
<1>2. LoadedCounts \in [Blobs -> Int]
  BY <1>1 DEF LoadedCounts
<1>3. listed \in SUBSET LoadedFiles
  <2>1. "img" \in Dirs /\ "lts" \in Dirs
    BY DEF Dirs
  <2>2. ASSUME NEW dir \in Dirs, NEW k \in DOMAIN LoadedMap(dir)
        PROVE  LoadedMap(dir)[k] \in LoadedFiles
    BY LoadedHonestly DEF LoadedFiles
  <2> QED BY <2>1, <2>2 DEF PrimaryOf
<1>4. ASSUME NEW b \in Blobs PROVE LoadedCounts[b] >= Cardinality(Places(listed, b))
  <2> HIDE DEF listed
  <2>1. Places(listed, b) \in SUBSET Places(LoadedFiles, b)
    BY <1>3 DEF Places
  <2> QED BY <1>1, <2>1, FS_Subset
<1>5. ASSUME NEW b \in Blobs, LoadedCounts[b] > 0 PROVE b \in blobFiles
  <2>1. Places(LoadedFiles, b) # {}
    BY <1>1, <1>5, FS_EmptySet
  <2>2. PICK m \in LoadedFiles : b \in BlobsOf(m.digest)
    BY <2>1 DEF Places, BlobsOf
  <2> QED BY <2>2, LoadedFilesTyped DEF Complete
<1> QED BY <1>2, <1>4, <1>5 DEF Covers, Filed

\* After Load the store is safe, whatever it was before.
LEMMA LoadIsSafe ==
  ASSUME HonestStore, TypedStore, LoadStore
  PROVE  TypedStore' /\ SafeStore'
<1>1. /\ manifests' = LoadedMap("img") /\ latest' = LoadedMap("lts")
      /\ refCnt' = LoadedCounts /\ UNCHANGED blobFiles
  BY DEF LoadStore
<1>2. Primary' = PrimaryOf(LoadedMap("img"), LoadedMap("lts"))
  BY <1>1, LoadedApart, PrimaryIsOfNext DEF HonestStore
<1> QED BY <1>1, <1>2, LoadedIsSafe DEF HonestStore, TypedStore, SafeStore, Covers, Filed

-----------------------------------------------------------------------------
\* The first start over the files of honest manifests.
LEMMA StartIsSafe ==
  ASSUME NEW ms, \A m \in ms : Honest(m), StoreInit(ms)
  PROVE  HonestStore /\ TypedStore /\ SafeStore
<1>1. HonestStore
  BY StartsHonest
<1>2. blobFiles \subseteq Blobs
  BY LayersTyped DEF StoreInit, Honest, Manifests
<1>3. manifests = LoadedMap("img") /\ latest = LoadedMap("lts") /\ refCnt = LoadedCounts
  BY DEF StoreInit
<1> QED BY <1>1, <1>2, <1>3, LoadedIsSafe, PrimaryIsOf DEF HonestStore, TypedStore, SafeStore

StoreInv == HonestStore /\ TypedStore /\ SafeStore /\ alwaysPullLatest \in BOOLEAN

\* Used by one caller at a time, every operation of the store keeps it so.
LEMMA StoreStep ==
  ASSUME StoreInv, [StoreNext]_<<storeVars, alwaysPullLatest>>
  PROVE  StoreInv'
<1> USE DEF StoreInv
<1>1. ASSUME NEW u \in ImageUrls, Hit(u), Configured PROVE StoreInv'
  <2>1. PICK k \in KeyFor(u) : Touch(u, k)
    BY <1>1 DEF Hit
  <2>2. HonestStore' /\ PrimaryOf(manifests', latest') = Primary
    BY <2>1, TouchKeepsHonest, PrimaryTouched DEF Touch
  <2>3. TypedStore' /\ SafeStore'
    BY <2>1, <2>2, QuietIsSafe DEF Touch, HonestStore, TypedStore
  <2> QED BY <1>1, <2>2, <2>3 DEF Configured
<1>2. ASSUME NEW u \in ImageUrls, NEW d \in Digests, Pull(u, d), Configured PROVE StoreInv'
  <2> DEFINE m == [url |-> u, digest |-> d]
             files == blobFiles \cup BlobsOf(d)
  <2>1. Honest(m) /\ m.digest = d /\ m.url = u
    BY <1>2, PulledIsHonest DEF Pull
  <2>2. HonestDirs(FileAdded(m))
    BY <2>1, FilesStayHonest DEF HonestStore
  <2>3. files \in SUBSET Blobs /\ blobFiles \subseteq files /\ Complete(d, files)
    BY LayersTyped DEF TypedStore, Complete
  <2>4. \/ disk' = FileAdded(m) /\ blobFiles' = files /\ AddToCache(m, files)
        \/ IsLatest(u) /\ ReplaceInCache(m, FileAdded(m), files)
    BY <1>2 DEF Pull, Forced
  <2> HIDE DEF m, files
  <2>5. HonestStore'
    BY <2>1, <2>2, <2>4, AddKeepsHonest, ReplaceKeepsHonest DEF HonestStore
  <2>6. TypedStore' /\ SafeStore'
    BY <2>1, <2>3, <2>4, AddIsSafe, ReplaceIsSafe
  <2> QED BY <1>2, <2>5, <2>6 DEF Configured
<1>3. ASSUME NEW u \in ImageUrls, NEW d \in Digests, PullInterrupted(u, d), Configured PROVE StoreInv'
  <2> DEFINE m == [url |-> u, digest |-> d]
  <2>1. Honest(m)
    BY <1>3, PulledIsHonest DEF PullInterrupted
  <2>2. disk' \in {FileAdded(m), FileTorn(m)} /\ UNCHANGED <<manifests, latest, refCnt>>
        /\ blobFiles \subseteq blobFiles' /\ blobFiles' \subseteq blobFiles \cup BlobsOf(d)
    BY <1>3 DEF PullInterrupted
  <2> HIDE DEF m
  <2>3. HonestStore'
    BY <2>1, <2>2, FilesStayHonest DEF HonestStore
  <2>4. blobFiles' \subseteq Blobs
    BY <2>2, LayersTyped DEF TypedStore
  <2>5. TypedStore' /\ SafeStore'
    BY <2>2, <2>4, QuietIsSafe, PrimaryIsOf DEF HonestStore
  <2> QED BY <1>3, <2>3, <2>5 DEF Configured
<1>4. ASSUME NEW m \in Primary, Prune(m), Configured PROVE StoreInv'
  BY <1>4, PrimaryIsHonest, PruneKeepsHonest, PruneIsSafe DEF Configured
<1>5. CASE LoadStore /\ Configured
  BY <1>5, LoadKeepsHonest, LoadIsSafe DEF Configured
<1>6. CASE UNCHANGED <<storeVars, alwaysPullLatest>>
  <2>1. Primary' = Primary
    BY <1>6 DEF storeVars, Primary, Cached, FromCache
  <2> QED BY <1>6, <2>1 DEF storeVars, HonestStore, TypedStore, SafeStore, Covers, Filed
<1> QED BY <1>1, <1>2, <1>3, <1>4, <1>5, <1>6 DEF StoreNext

\* StoreInv always holds.
LEMMA StoreAlwaysInv ==
  StoreSpec => []StoreInv
<1>1. StoreInit({}) /\ alwaysPullLatest \in PullLatestSettings => StoreInv
  BY StartIsSafe, StoreAssumption DEF StoreInv
<1> QED BY <1>1, StoreStep, PTL DEF StoreSpec

-----------------------------------------------------------------------------
\* Manifests of known digests, finitely many, so that their places can be counted:
\* in two parts, and as some come, some go and others are taken.
Countable(ms) == IsFiniteSet(ms) /\ \A n \in ms : n.digest \in Digests
Splits(ms, part, rest) ==
  ms = part \cup rest /\ part \cap rest = {} /\ Countable(part) /\ Countable(rest)
Moves(old, new, come, gone, taken) ==
  /\ Countable(old) /\ Countable(new)
  /\ come = new \ old /\ taken \in SUBSET (old \ new) /\ gone = (old \ new) \ taken
PlaceCount(ms, b) == Cardinality(Places(ms, b))

\* The places of some manifests are those of a part of them and those of the rest.
LEMMA PlacesSplit ==
  ASSUME NEW ms, NEW part, NEW rest, Splits(ms, part, rest), NEW b
  PROVE  /\ PlaceCount(part, b) \in Nat /\ PlaceCount(rest, b) \in Nat
         /\ PlaceCount(ms, b) = PlaceCount(part, b) + PlaceCount(rest, b)
<1> DEFINE P == Places(part, b)
           Q == Places(rest, b)
<1>1. IsFiniteSet(P) /\ Cardinality(P) \in Nat /\ IsFiniteSet(Q) /\ Cardinality(Q) \in Nat
  BY PlacesFinite DEF Splits, Countable
<1>2. P \cap Q = {}
  <2>1. (\A p \in P : p[1] \in part) /\ (\A p \in Q : p[1] \in rest)
    BY DEF Places
  <2> HIDE DEF P, Q
  <2> QED BY <2>1 DEF Splits
<1>3. Places(ms, b) = P \cup Q
  BY DEF Splits, Places
<1>4. PlaceCount(part, b) = Cardinality(P) /\ PlaceCount(rest, b) = Cardinality(Q)
      /\ PlaceCount(ms, b) = Cardinality(P \cup Q)
  BY <1>3 DEF PlaceCount
<1> HIDE DEF P, Q
<1>5. Cardinality(P \cup Q) = Cardinality(P) + Cardinality(Q) - Cardinality(P \cap Q)
  BY <1>1, FS_Union
<1>6. Cardinality(P \cap Q) = 0
  BY <1>2, FS_EmptySet
<1> QED BY <1>1, <1>4, <1>5, <1>6

\* Two parts of countable manifests that have nothing in common split what they make up.
LEMMA PartsSplit ==
  ASSUME NEW ms, Countable(ms), NEW part, NEW rest, part \cap rest = {}, ms = part \cup rest
  PROVE  Splits(ms, part, rest) /\ Countable(part) /\ Countable(rest)
BY FS_Subset DEF Countable, Splits

\* Counts that cover an image are discounted for each of its references.
LEMMA AllDiscounted ==
  ASSUME NEW cnt \in [Blobs -> Int], NEW d \in Digests,
         \A b \in Blobs : cnt[b] >= Refs(d, b), NEW b \in Blobs
  PROVE  CountsAfterRm(cnt, d)[b] = cnt[b] - Refs(d, b)
<1> DEFINE len == Len(Layers[d])
           below == {i \in 1..len : CountAt(cnt, d, i) < 0}
<1>1. len \in Nat /\ \A i \in 1..len : Layers[d][i] \in Blobs
  BY LayersTyped
<1>2. ASSUME NEW i \in 1..len PROVE ~(CountAt(cnt, d, i) < 0)
  <2> DEFINE c == Layers[d][i]
  <2>1. c \in Blobs /\ cnt[c] \in Int /\ cnt[c] >= Refs(d, c)
    BY <1>1
  <2>2. i \in 0..len
    BY <1>1
  <2>3. Occurs(d, i, c) \in Nat /\ Refs(d, c) \in Nat /\ Occurs(d, i, c) <= Refs(d, c)
    <3>1. i \in Nat
      BY <1>1
    <3> HIDE DEF len, c
    <3>2. Occurs(d, i, c) \in Nat /\ Occurs(d, len, c) \in Nat /\ Occurs(d, i, c) <= Occurs(d, len, c)
      BY <1>1, <2>2, <3>1, OccursTyped
    <3> QED BY <3>2 DEF Refs, len
  <2>4. CountAt(cnt, d, i) = cnt[c] - Occurs(d, i, c)
    BY DEF CountAt
  <2> HIDE DEF c
  <2> QED BY <2>1, <2>3, <2>4
<1>3. RemovedLayers(cnt, d) = LoopEnd(len, below) /\ below = {}
  BY <1>2 DEF RemovedLayers
<1>4. RemovedLayers(cnt, d) = len
  BY <1>3 DEF LoopEnd
<1> QED BY <1>4 DEF CountsAfterRm, Refs

\* What is listed makes no more references than are counted.
LEMMA ListedIsCounted ==
  ASSUME StoreInv, NEW m \in Primary, NEW b \in Blobs
  PROVE  refCnt[b] \in Int /\ refCnt[b] >= Refs(m.digest, b) /\ Refs(m.digest, b) \in Nat
<1>1. refCnt[b] \in Int /\ refCnt[b] >= Cardinality(Places(Primary, b))
  BY DEF StoreInv, TypedStore, SafeStore, Covers
<1>2. IsFiniteSet(Primary) /\ (\A n \in Primary : n.digest \in Digests) /\ Refs(m.digest, b) \in Nat
  BY PrimaryFinite, RefsTyped DEF StoreInv
<1>3. {} \in SUBSET (Primary \ {m})
  OBVIOUS
<1>4. Cardinality(Places({}, b)) \in Nat /\ Cardinality(Places(Primary, b)) \in Nat
      /\ Cardinality(Places({}, b)) + Refs(m.digest, b) <= Cardinality(Places(Primary, b))
  BY <1>2, <1>3, PlacesShrink
<1> QED BY <1>1, <1>2, <1>4

\* Finitely many images are listed in the next state too.
LEMMA PrimaryFiniteNext ==
  HonestStore' => (IsFiniteSet(Primary) /\ \A n \in Primary : n.digest \in Digests)'
<1>1. HonestStore => (IsFiniteSet(Primary) /\ \A n \in Primary : n.digest \in Digests)
  BY PrimaryFinite
<1> QED BY <1>1, PTL

\* How the places move when images come and go, some of those that go being taken.
LEMMA PlacesMove ==
  ASSUME NEW old, NEW new, NEW come, NEW gone, NEW taken, Moves(old, new, come, gone, taken), NEW b
  PROVE  /\ PlaceCount(old, b) \in Nat /\ PlaceCount(new, b) \in Nat
         /\ PlaceCount(come, b) \in Nat /\ PlaceCount(gone, b) \in Nat /\ PlaceCount(taken, b) \in Nat
         /\ PlaceCount(new, b) = PlaceCount(old, b)
              + PlaceCount(come, b) - PlaceCount(gone, b) - PlaceCount(taken, b)
<1>1. PICK lost, stay : lost = old \ new /\ stay = old \cap new
  OBVIOUS
<1>2. Splits(new, stay, come)
  BY <1>1, PartsSplit DEF Moves
<1>3. Splits(old, stay, lost) /\ Countable(lost)
  BY <1>1, PartsSplit DEF Moves
<1>4. Splits(lost, gone, taken)
  BY <1>1, <1>3, PartsSplit DEF Moves
<1>5. /\ PlaceCount(stay, b) \in Nat /\ PlaceCount(come, b) \in Nat
      /\ PlaceCount(new, b) = PlaceCount(stay, b) + PlaceCount(come, b)
  BY <1>2, PlacesSplit
<1>6. PlaceCount(old, b) = PlaceCount(stay, b) + PlaceCount(lost, b)
  BY <1>3, PlacesSplit
<1>7. /\ PlaceCount(gone, b) \in Nat /\ PlaceCount(taken, b) \in Nat
      /\ PlaceCount(lost, b) = PlaceCount(gone, b) + PlaceCount(taken, b)
  BY <1>4, PlacesSplit
<1> QED BY <1>5, <1>6, <1>7

\* The excess of a blob moves by what was abandoned, when the counts move with the
\* images that come to be listed and those that go in any other way.
LEMMA ExcessMoves ==
  ASSUME StoreInv, StoreInv', NEW b \in Blobs,
         refCnt'[b] = refCnt[b] + Cardinality(Places(Primary' \ Primary, b))
                        - Cardinality(Places((Primary \ Primary') \ Abandoned, b))
  PROVE  Excess(b)' = Excess(b) + Cardinality(Places(Abandoned, b))
<1>1. Countable(Primary)
  BY PrimaryFinite DEF StoreInv, Countable
<1>2. Countable(Primary')
  BY PrimaryFiniteNext DEF StoreInv, Countable
<1>3. PICK old, new, come, gone, taken :
        /\ old = Primary /\ new = Primary' /\ come = Primary' \ Primary
        /\ gone = (Primary \ Primary') \ Abandoned /\ taken = Abandoned
  OBVIOUS
<1>4. Moves(old, new, come, gone, taken)
  BY <1>1, <1>2, <1>3 DEF Abandoned, Moves
<1>5. /\ PlaceCount(old, b) \in Nat /\ PlaceCount(new, b) \in Nat
      /\ PlaceCount(come, b) \in Nat /\ PlaceCount(gone, b) \in Nat /\ PlaceCount(taken, b) \in Nat
      /\ PlaceCount(new, b) = PlaceCount(old, b)
           + PlaceCount(come, b) - PlaceCount(gone, b) - PlaceCount(taken, b)
  BY <1>4, PlacesMove
<1>6. References(b) = PlaceCount(old, b) /\ References(b)' = PlaceCount(new, b)
  BY <1>3 DEF References, PlaceCount
<1>7. refCnt[b] \in Int /\ refCnt'[b] = refCnt[b] + PlaceCount(come, b) - PlaceCount(gone, b)
  BY <1>3 DEF StoreInv, TypedStore, PlaceCount
<1>8. Excess(b) = refCnt[b] - References(b) /\ Excess(b)' = refCnt'[b] - References(b)'
  BY DEF Excess
<1>9. Excess(b)' = Excess(b) + PlaceCount(taken, b)
  BY <1>5, <1>6, <1>7, <1>8
<1> QED BY <1>3, <1>9 DEF PlaceCount

\* A step that leaves the lists and the counts alone makes no excess.
LEMMA QuietAddsNoExcess ==
  ASSUME Primary' = Primary, refCnt' = refCnt, StoreInv, NEW b \in Blobs
  PROVE  Excess(b)' = Excess(b) + Cardinality(Places(Abandoned, b))
<1>1. Abandoned = {}
  BY DEF Abandoned
<1>2. Places({}, b) = {}
  BY DEF Places
<1>3. Cardinality(Places(Abandoned, b)) = 0
  BY <1>1, <1>2, FS_EmptySet
<1>4. Excess(b) \in Int
  BY PrimaryFinite, PlacesFinite DEF StoreInv, TypedStore, Excess, References
<1>5. Excess(b)' = Excess(b)
  BY DEF Excess, References
<1> QED BY <1>3, <1>4, <1>5

\* A key with a digest is not a tag, and a tag is not latest unless it is that tag.
LEMMA DigestKeyIsNoTag ==
  ASSUME NEW m, Honest(m)
  PROVE  ~ByTag(WithDigest(m.url, m.digest))
<1>1. m.url \in ImageUrls /\ m.digest \in Digests
  BY DEF Honest, Manifests
<1>2. WithDigest(m.url, m.digest).ref = m.digest
  BY <1>1 DEF WithDigest, ImageUrls
<1> QED BY <1>1, <1>2, FilesAssumption DEF ByTag

\* An image that was not cached under its URL is added: what it takes the place of
\* is abandoned, and its own references are counted.
LEMMA AddIsAccounted ==
  ASSUME StoreInv, StoreInv', NEW m, Honest(m), m.url \notin Cached,
         NEW files, Complete(m.digest, files), AddToCache(m, files), NEW b \in Blobs
  PROVE  Excess(b)' = Excess(b) + Cardinality(Places(Abandoned, b))
<1> USE DEF StoreInv
<1>0. m \in Manifests /\ m.digest \in Digests /\ m.url \in KeysOf(m.url, m.digest)
  BY DEF Honest, Manifests, KeysOf
<1>1. Primary = PrimaryOf(manifests, latest) /\ Primary' = PrimaryOf(manifests', latest')
  BY PrimaryIsOf, PrimaryIsOfNext DEF HonestStore
<1>2. ManifestAdded(manifests, latest, m) /\ HonestMaps(manifests, latest) /\ HonestMaps(manifests', latest')
  BY DEF AddToCache, HonestStore
<1>3. m \notin Primary
  BY DEF Primary
<1>4. m \in Primary'
  <2>1. CASE IsLatest(m.url)
    <3>1. m.url \in DOMAIN latest' /\ latest'[m.url] = m
      BY <1>0, <1>2, <2>1 DEF ManifestAdded, PutAll
    <3>2. m.url \notin DOMAIN manifests'
      BY <1>2, <2>1 DEF HonestMaps, LatestApart
    <3> QED BY <1>0, <1>1, <3>1, <3>2 DEF PrimaryOf
  <2>2. CASE ~IsLatest(m.url)
    <3>1. m.url \in DOMAIN manifests' /\ manifests'[m.url] = m
      BY <1>0, <1>2, <2>2 DEF ManifestAdded, PutAll
    <3> QED BY <1>0, <1>1, <3>1 DEF PrimaryOf
  <2> QED BY <2>1, <2>2
<1>5. Primary' \ Primary = {m}
  BY <1>1, <1>2, <1>3, <1>4, PrimaryAdded
<1>6. ASSUME NEW n \in Primary, n \notin Primary' PROVE n \in Abandoned
  <2>1. n.url \in KeysOf(m.url, m.digest)
    BY <1>1, <1>2, <1>6 DEF ManifestAdded, PutAll, PrimaryOf
  <2>2. n.url # m.url
    BY <1>6 DEF Primary
  <2>3. ByTag(m.url) /\ n.url = WithDigest(m.url, m.digest)
    BY <2>1, <2>2 DEF KeysOf
  <2> QED BY <1>5, <1>6, <2>3 DEF Abandoned
<1>7. (Primary \ Primary') \ Abandoned = {}
  BY <1>6
<1>8. refCnt'[b] = refCnt[b] + Refs(m.digest, b)
  BY <1>0, AllCounted DEF AddToCache, TypedStore
<1>9. Cardinality(Places({m}, b)) = Refs(m.digest, b)
  BY <1>0, PlacesOfOne
<1>10. Cardinality(Places({}, b)) = 0
  BY FS_EmptySet DEF Places
<1>11. refCnt[b] \in Int /\ Refs(m.digest, b) \in Nat
  BY <1>0, RefsTyped DEF TypedStore
<1>12. refCnt'[b] = refCnt[b] + Cardinality(Places({m}, b)) - Cardinality(Places({}, b))
  BY <1>8, <1>9, <1>10, <1>11
<1> HIDE DEF StoreInv
<1> QED BY <1>5, <1>7, <1>12, ExcessMoves

\* An image is pruned: what is deleted with it is abandoned.
LEMMA PruneIsAccounted ==
  ASSUME StoreInv, StoreInv', NEW m \in Primary, Prune(m), NEW b \in Blobs
  PROVE  Excess(b)' = Excess(b) + Cardinality(Places(Abandoned, b))
<1>0. Honest(m) /\ m \in Manifests /\ m.digest \in Digests /\ HonestStore /\ TypedStore
  BY PrimaryFinite DEF Honest, StoreInv
<1>1. Primary = PrimaryOf(manifests, latest) /\ Primary' = PrimaryOf(manifests', latest')
  BY PrimaryIsOf, PrimaryIsOfNext DEF HonestStore, StoreInv
<1>2. manifests' = ManifestsWithout(m) /\ latest' = LatestWithout(m)
      /\ refCnt' = CountsAfterRm(refCnt, m.digest)
  BY DEF Prune
<1>3. Primary' \in SUBSET (Primary \ {m})
  BY <1>0, <1>1, <1>2, PrimaryRemoved
<1>4. ASSUME NEW n \in Primary, n \notin Primary', n # m
      PROVE  ByTag(m.url) /\ n.url = WithDigest(m.url, m.digest)
  <2>1. n.url \in KeysOf(m.url, m.digest)
    BY <1>1, <1>2, <1>4 DEF ManifestsWithout, LatestWithout, Without, PrimaryOf
  <2>2. n.url # m.url
    BY <1>4 DEF Primary
  <2> QED BY <2>1, <2>2 DEF KeysOf
<1>5. m \in Primary \ Primary'
  BY <1>3
<1>6. ASSUME NEW n \in Primary, n \notin Primary', n # m PROVE n \in Abandoned
  BY <1>4, <1>5, <1>6 DEF Abandoned
<1>7. m \notin Abandoned
  <2>1. SUFFICES ASSUME NEW t \in (Primary \ Primary') \cup (Primary' \ Primary),
                        ByTag(t.url), m.url = WithDigest(t.url, t.digest)
                 PROVE  FALSE
    BY DEF Abandoned
  <2>2. t \in Primary /\ t \notin Primary' /\ Honest(t)
    BY <1>0, <1>3, <2>1, PrimaryFinite
  <2>3. ~ByTag(m.url)
    BY <2>1, <2>2, DigestKeyIsNoTag
  <2> QED BY <1>4, <2>1, <2>2, <2>3
<1>8. (Primary \ Primary') \ Abandoned = {m} /\ Primary' \ Primary = {}
  BY <1>3, <1>5, <1>6, <1>7
<1>9. refCnt \in [Blobs -> Int] /\ \A c \in Blobs : refCnt[c] >= Refs(m.digest, c)
  BY <1>0, ListedIsCounted DEF TypedStore
<1>10. refCnt'[b] = refCnt[b] - Refs(m.digest, b)
  BY <1>0, <1>2, <1>9, AllDiscounted
<1>11. Cardinality(Places({m}, b)) = Refs(m.digest, b)
  BY <1>0, PlacesOfOne
<1>12. Cardinality(Places({}, b)) = 0
  BY FS_EmptySet DEF Places
<1>13. refCnt[b] \in Int /\ Refs(m.digest, b) \in Nat
  BY <1>0, <1>9, RefsTyped
<1>14. refCnt'[b] = refCnt[b] + Cardinality(Places({}, b)) - Cardinality(Places({m}, b))
  BY <1>10, <1>11, <1>12, <1>13
<1> QED BY <1>8, <1>14, ExcessMoves

\* Latest is replaced: the old image is discounted as the new one is counted, and
\* no entry by digest that has a file of its own is touched.
LEMMA ReplaceIsAccounted ==
  ASSUME StoreInv, StoreInv', NEW m, Honest(m), IsLatest(m.url),
         NEW dirs, NEW files, Complete(m.digest, files), ReplaceInCache(m, dirs, files), NEW b \in Blobs
  PROVE  Excess(b)' = Excess(b) + Cardinality(Places(Abandoned, b))
<1> DEFINE old == FromCache(m.url)
           counts == CountsAfterAdd(refCnt, files, m.digest)
<1>0. m \in Manifests /\ m.digest \in Digests /\ m.url \in KeysOf(m.url, m.digest)
      /\ HonestStore /\ TypedStore
  BY DEF Honest, Manifests, KeysOf, StoreInv
<1>1. CASE m.url \notin Cached
  <2>1. AddToCache(m, files)
    BY <1>1 DEF ReplaceInCache
  <2> QED BY <1>1, <2>1, AddIsAccounted
<1>2. CASE m.url \in Cached /\ old.digest = m.digest
  <2>1. UNCHANGED <<manifests, latest, refCnt>>
    BY <1>2 DEF ReplaceInCache
  <2>2. Primary' = Primary
    BY <2>1 DEF Primary, Cached, FromCache
  <2> QED BY <2>1, <2>2, QuietAddsNoExcess
<1>3. CASE m.url \in Cached /\ old.digest # m.digest
  <2>1. /\ ManifestAdded(ManifestsWithout(old), LatestWithout(old), m)
        /\ refCnt' = CountsAfterRm(counts, old.digest)
    BY <1>3 DEF ReplaceInCache
  <2>2. Honest(old) /\ old.digest \in Digests /\ old \in Primary /\ old # m /\ old.url = m.url
    BY <1>0, <1>3, FoundIsHonest, LatestIsPrimary, KeysApart DEF Honest, Manifests
  <2> HIDE DEF old
  <2>3. Primary = PrimaryOf(manifests, latest) /\ Primary' = PrimaryOf(manifests', latest')
    BY PrimaryIsOf, PrimaryIsOfNext DEF HonestStore, StoreInv
  <2>4. /\ manifests' = manifests
        /\ latest' = PutAll(Without(latest, KeysOf(old.url, old.digest)), KeysOf(m.url, m.digest), m)
    BY <2>1, <2>2 DEF ManifestAdded, ManifestsWithout, LatestWithout, IsLatest
  <2>5. LatestApart(manifests, latest) /\ HonestMap(latest)
    BY <1>0 DEF HonestStore, HonestMaps
  <2>6. m \in Primary'
    <3>1. m.url \in DOMAIN latest' /\ latest'[m.url] = m
      BY <1>0, <2>4 DEF PutAll, Without
    <3>2. m.url \notin DOMAIN manifests'
      BY <2>4, <2>5 DEF LatestApart
    <3> QED BY <1>0, <2>3, <3>1, <3>2 DEF PrimaryOf
  <2>7. ASSUME NEW n \in Primary' \ Primary PROVE n = m
    BY <2>3, <2>4, <2>7 DEF PrimaryOf, PutAll, Without
  <2>8. ASSUME NEW n \in Primary, n.url = m.url PROVE n = old
    BY <2>8 DEF Primary, old
  <2>9. ASSUME NEW n \in Primary, n \notin Primary' PROVE n.url = m.url
    <3>1. n \in Manifests /\ n.url \in DOMAIN latest \ DOMAIN manifests /\ n = latest[n.url]
      BY <2>3, <2>4, <2>9 DEF PrimaryOf
    <3>2. IsLatest(n.url)
      BY <2>5, <3>1 DEF LatestApart
    <3>3. n.url \in KeysOf(old.url, old.digest) \cup KeysOf(m.url, m.digest)
      BY <2>3, <2>4, <2>9, <3>1 DEF PrimaryOf, PutAll, Without
    <3> QED BY <2>2, <3>2, <3>3, KeysApart
  <2>10. old \notin Primary' /\ m \notin Primary
    <3>1. m \notin Primary
      BY <2>2, <2>8
    <3>2. ASSUME old \in Primary' PROVE FALSE
      BY <1>0, <2>2, <2>3, <2>4, <2>5, <3>2 DEF PrimaryOf, PutAll, Without, LatestApart
    <3> QED BY <3>1, <3>2
  <2>11. Primary' \ Primary = {m} /\ Primary \ Primary' = {old}
    BY <2>2, <2>6, <2>7, <2>8, <2>9, <2>10
  <2>12. Abandoned = {}
    <3>1. SUFFICES ASSUME NEW t \in {old, m}, old.url = WithDigest(t.url, t.digest) PROVE FALSE
      BY <2>11 DEF Abandoned
    <3>2. ~ByTag(old.url)
      BY <2>2, <3>1, DigestKeyIsNoTag
    <3> QED BY <2>2, <3>2, FilesAssumption DEF IsLatest, ByTag
  <2>13. (Primary \ Primary') \ Abandoned = {old}
    BY <2>11, <2>12
  <2>14. counts \in [Blobs -> Int] /\ \A c \in Blobs : counts[c] = refCnt[c] + Refs(m.digest, c)
    BY <1>0, CountsTyped, AllCounted DEF TypedStore
  <2>15. \A c \in Blobs : Refs(m.digest, c) \in Nat /\ Refs(old.digest, c) \in Nat
                         /\ refCnt[c] \in Int /\ refCnt[c] >= Refs(old.digest, c)
    BY <1>0, <2>2, RefsTyped, ListedIsCounted
  <2> HIDE DEF counts
  <2>16. \A c \in Blobs : counts[c] >= Refs(old.digest, c)
    BY <2>14, <2>15
  <2>17. refCnt'[b] = counts[b] - Refs(old.digest, b)
    BY <2>1, <2>2, <2>14, <2>16, AllDiscounted
  <2>18. Cardinality(Places({m}, b)) = Refs(m.digest, b) /\ Cardinality(Places({old}, b)) = Refs(old.digest, b)
    BY <1>0, <2>2, PlacesOfOne
  <2>19. refCnt'[b] = refCnt[b] + Cardinality(Places({m}, b)) - Cardinality(Places({old}, b))
    BY <2>14, <2>15, <2>17, <2>18
  <2> QED BY <2>11, <2>13, <2>19, ExcessMoves
<1> QED BY <1>1, <1>2, <1>3

-----------------------------------------------------------------------------
\* Load lists the files it reads, except those that are outdated.
LEMMA LoadedPrimary ==
  ASSUME HonestDirs(disk)
  PROVE  PrimaryOf(LoadedMap("img"), LoadedMap("lts")) = LoadedFiles \ Outdated
<1> DEFINE M(dir, d) == [url |-> disk[dir][d], digest |-> d]
<1>0. "img" \in Dirs /\ "lts" \in Dirs /\ Dirs = {"lts", "img"}
  BY DEF Dirs
<1>1. ASSUME NEW dir \in Dirs, NEW d \in FilesToLoad(dir)
      PROVE  Honest(M(dir, d)) /\ d \in Digests /\ DirOf(disk[dir][d]) = dir /\ M(dir, d) \in LoadedFiles
             /\ disk[dir][d] \in KeysOf(disk[dir][d], d)
  BY DEF FilesToLoad, Walked, Readable, HonestDirs, HonestFile, LoadedFiles, KeysOf
<1>2. \A n \in LoadedFiles : \E dir \in Dirs : \E d \in FilesToLoad(dir) : n = M(dir, d)
  BY DEF LoadedFiles
<1>3. ASSUME NEW dir \in Dirs, NEW d \in FilesToLoad(dir), NEW e \in FilesToLoad(dir),
             disk[dir][d] \in KeysOf(disk[dir][e], e)
      PROVE  disk[dir][e] = disk[dir][d]
  <2>1. SUFFICES ASSUME disk[dir][d] = WithDigest(disk[dir][e], e) PROVE d = e
    BY <1>3 DEF KeysOf
  <2>2. disk[dir][e] \in ImageUrls /\ e \in Digests
    BY <1>1 DEF Honest, Manifests
  <2>3. disk[dir][d].ref = e
    BY <2>1, <2>2 DEF WithDigest, ImageUrls
  <2> QED BY <1>1, <2>2, <2>3 DEF Honest
<1>4. \A d, e \in Digests : WalkOrder[d] \in Nat /\ (WalkOrder[d] = WalkOrder[e] => d = e)
  BY FilesAssumption
<1>5. HonestMaps(LoadedMap("img"), LoadedMap("lts"))
  BY LoadedApart
<1>6. ASSUME NEW dir \in Dirs
      PROVE  /\ \A d \in FilesToLoad(dir) : KeysOf(disk[dir][d], d) \subseteq DOMAIN LoadedMap(dir)
             /\ \A k \in DOMAIN LoadedMap(dir) : \E d \in FilesToLoad(dir) :
                  /\ LoadedMap(dir)[k] = M(dir, d)
                  /\ k \in KeysOf(disk[dir][d], d)
                  /\ \A e \in FilesToLoad(dir) :
                       k \in KeysOf(disk[dir][e], e) => WalkOrder[e] <= WalkOrder[d]
  BY LoadedLast
<1>7. \A dir, d : M(dir, d).url = disk[dir][d] /\ M(dir, d).digest = d
  OBVIOUS
<1> HIDE DEF M
<1>8. ASSUME NEW dir \in Dirs, NEW m, m.url \in DOMAIN LoadedMap(dir), m = LoadedMap(dir)[m.url]
      PROVE  m \in LoadedFiles /\ m \notin Outdated
  <2>1. PICK d \in FilesToLoad(dir) :
          /\ m = M(dir, d)
          /\ \A e \in FilesToLoad(dir) : m.url \in KeysOf(disk[dir][e], e) => WalkOrder[e] <= WalkOrder[d]
    BY <1>6, <1>8
  <2>2. ASSUME NEW n \in LoadedFiles, n.url = m.url PROVE ~(WalkOrder[m.digest] < WalkOrder[n.digest])
    <3>1. PICK other \in Dirs : \E e \in FilesToLoad(other) : n = M(other, e)
      BY <1>2
    <3>2. PICK e \in FilesToLoad(other) : n = M(other, e)
      BY <3>1
    <3>3. disk[other][e] = disk[dir][d]
      BY <1>7, <2>1, <2>2, <3>2
    <3>4. other = dir
      BY <1>1, <3>3
    <3>5. WalkOrder[e] <= WalkOrder[d]
      BY <1>1, <1>7, <2>1, <3>3, <3>4
    <3> QED BY <1>1, <1>4, <1>7, <2>1, <3>2, <3>5
  <2> QED BY <1>1, <2>1, <2>2 DEF Outdated
<1>9. ASSUME NEW m \in LoadedFiles \ Outdated
      PROVE  \E dir \in Dirs : m.url \in DOMAIN LoadedMap(dir) /\ m = LoadedMap(dir)[m.url] /\ DirOf(m.url) = dir
  <2>1. PICK dir \in Dirs : \E d \in FilesToLoad(dir) : m = M(dir, d)
    BY <1>2
  <2>2. PICK d \in FilesToLoad(dir) : m = M(dir, d)
    BY <2>1
  <2>3. m.url = disk[dir][d] /\ m.digest = d /\ m.url \in KeysOf(disk[dir][d], d) /\ DirOf(m.url) = dir
    BY <1>1, <1>7, <2>2
  <2>4. m.url \in DOMAIN LoadedMap(dir)
    BY <1>6, <2>3
  <2>5. PICK e \in FilesToLoad(dir) :
          /\ LoadedMap(dir)[m.url] = M(dir, e)
          /\ m.url \in KeysOf(disk[dir][e], e)
          /\ WalkOrder[d] <= WalkOrder[e]
    BY <1>6, <2>3, <2>4
  <2>6. disk[dir][e] = m.url
    BY <1>3, <2>3, <2>5
  <2>7. M(dir, e) \in LoadedFiles /\ M(dir, e).url = m.url /\ M(dir, e).digest = e
    BY <1>1, <1>7, <2>6
  <2>8. ~(WalkOrder[d] < WalkOrder[e])
    BY <2>3, <2>7 DEF Outdated
  <2>9. d = e
    BY <1>1, <1>4, <2>5, <2>8
  <2> QED BY <2>2, <2>3, <2>4, <2>5, <2>9
<1>10. ASSUME NEW m \in PrimaryOf(LoadedMap("img"), LoadedMap("lts")) PROVE m \in LoadedFiles \ Outdated
  BY <1>0, <1>8 DEF PrimaryOf
<1>11. ASSUME NEW m \in LoadedFiles \ Outdated PROVE m \in PrimaryOf(LoadedMap("img"), LoadedMap("lts"))
  <2>1. PICK dir \in Dirs : m.url \in DOMAIN LoadedMap(dir) /\ m = LoadedMap(dir)[m.url] /\ DirOf(m.url) = dir
    BY <1>9
  <2>2. m \in Manifests
    BY <1>1, <1>2 DEF Honest, M
  <2>3. CASE dir = "img"
    BY <2>1, <2>2, <2>3 DEF PrimaryOf
  <2>4. CASE dir = "lts"
    <3>1. IsLatest(m.url)
      BY <2>1, <2>4 DEF DirOf
    <3>2. m.url \notin DOMAIN LoadedMap("img")
      BY <1>5, <3>1 DEF HonestMaps, LatestApart
    <3> QED BY <2>1, <2>2, <2>4, <3>2 DEF PrimaryOf
  <2> QED BY <1>0, <2>1, <2>3, <2>4
<1>12. PrimaryOf(LoadedMap("img"), LoadedMap("lts")) = LoadedFiles \ Outdated
  BY <1>10, <1>11
<1> QED BY <1>12

\* A start counts what the outdated files list, and no more, beyond the images it lists.
LEMMA LoadIsAccounted ==
  ASSUME StoreInv, LoadStore, NEW b \in Blobs
  PROVE  Excess(b)' = Cardinality(Places(Outdated, b))
<1>1. HonestDirs(disk) /\ HonestMaps(LoadedMap("img"), LoadedMap("lts"))
  BY LoadedApart DEF StoreInv, HonestStore
<1>2. manifests' = LoadedMap("img") /\ latest' = LoadedMap("lts") /\ refCnt' = LoadedCounts
  BY DEF LoadStore
<1>3. Primary' = LoadedFiles \ Outdated
  BY <1>1, <1>2, PrimaryIsOfNext, LoadedPrimary
<1>4. IsFiniteSet(LoadedFiles) /\ \A n \in LoadedFiles : n.digest \in Digests
  BY <1>1, LoadedFilesTyped
<1>5. PICK listed : listed = LoadedFiles \ Outdated
  OBVIOUS
<1>6. Outdated \cap listed = {} /\ LoadedFiles = Outdated \cup listed /\ Countable(LoadedFiles)
  BY <1>4, <1>5 DEF Outdated, Countable
<1>10. Splits(LoadedFiles, Outdated, listed)
  BY <1>6, PartsSplit
<1>11. /\ PlaceCount(Outdated, b) \in Nat /\ PlaceCount(listed, b) \in Nat
       /\ PlaceCount(LoadedFiles, b) = PlaceCount(Outdated, b) + PlaceCount(listed, b)
  BY <1>10, PlacesSplit
<1>7. refCnt'[b] = PlaceCount(LoadedFiles, b)
  BY <1>2 DEF LoadedCounts, PlaceCount
<1>8. References(b)' = PlaceCount(listed, b)
  BY <1>3, <1>5 DEF References, PlaceCount
<1>9. Excess(b)' = refCnt'[b] - References(b)'
  BY DEF Excess
<1> QED BY <1>7, <1>8, <1>9, <1>11 DEF PlaceCount

-----------------------------------------------------------------------------
\* In an honest store every digest is answered with itself, and every file is
\* in the directory that Load looks for it in.
LEMMA HonestyMeans ==
  ASSUME HonestStore
  PROVE  DigestUrlsHonest /\ FilesInTheirDirectory
<1>1. DigestUrlsHonest
  BY FoundIsHonest DEF DigestUrlsHonest
<1>2. FilesInTheirDirectory
  BY DEF FilesInTheirDirectory, Readable, HonestStore, HonestDirs, HonestFile
<1> QED BY <1>1, <1>2

\* The variables of the store have their types.
LEMMA TypesOfStore ==
  ASSUME HonestStore, TypedStore, alwaysPullLatest \in BOOLEAN
  PROVE  StoreTypeOK
<1>1. ASSUME NEW f, HonestMap(f)
      PROVE  DOMAIN f \subseteq ImageUrls /\ \A u \in DOMAIN f : f[u] \in Manifests
  BY <1>1, KeysAreHonest DEF HonestMap, Honest
<1>2. ASSUME NEW dir \in Dirs, NEW d \in DOMAIN disk[dir]
      PROVE  d \in Digests /\ disk[dir][d] \in ImageUrls \cup {Torn}
  <2>1. d \in Digests /\ (disk[dir][d] = Torn \/ [url |-> disk[dir][d], digest |-> d] \in Manifests)
    BY DEF HonestStore, HonestDirs, HonestFile, Honest
  <2> QED BY <2>1 DEF Manifests
<1>3. DOMAIN disk = Dirs
  BY DEF HonestStore, HonestDirs
<1> QED BY <1>1, <1>2, <1>3 DEF StoreTypeOK, HonestStore, HonestMaps, TypedStore

\* The store stays within its types, whatever is done to it.
THEOREM StoreTyped ==
  StoreSpec => []StoreTypeOK
BY StoreAlwaysInv, TypesOfStore, PTL DEF StoreInv

\* Whatever sequence of pulls, hits, replacements, prunes, torn files and restarts
\* went before, a request by digest is answered with that digest (getManifestFromCache).
THEOREM StoreDigestsHonest ==
  StoreSpec => []DigestUrlsHonest
BY StoreAlwaysInv, HonestyMeans, PTL DEF StoreInv

\* And every manifest that can be read is in the directory its tag belongs to, so
\* that Load puts it in the map in which it is looked for (WalkTheCache).
THEOREM StoreFilesPlaced ==
  StoreSpec => []FilesInTheirDirectory
BY StoreAlwaysInv, HonestyMeans, PTL DEF StoreInv

\* No blob is counted for less than the listed images reference it, however often
\* images share blobs, list one twice, or are cached by tag and by digest (blobCache).
THEOREM StoreNeverUndercounted ==
  StoreSpec => []NeverUndercounted
BY StoreAlwaysInv, SafetyMeans, PTL DEF StoreInv

\* So rmBlob never comes upon the negative count that "should never happen".
THEOREM StoreCountsNotNegative ==
  StoreSpec => []NoNegativeCount
BY StoreAlwaysInv, SafetyMeans, PTL DEF StoreInv

\* A blob with a count has its file, which handleV2BlobsDigest opens.
THEOREM StoreCountedBlobsHaveFiles ==
  StoreSpec => []CountedBlobsHaveFiles
BY StoreAlwaysInv, SafetyMeans, PTL DEF StoreInv

\* And a listed image can be served with all its blobs, after whatever was pruned.
THEOREM StoreServesWhatItLists ==
  StoreSpec => []PrimaryIsServable
BY StoreAlwaysInv, SafetyMeans, PTL DEF StoreInv

\* In any sequence of pulls, replacements, hits, prunes, interrupted pulls and
\* restarts a blob is counted for its listed images, and beyond them for exactly
\* the entries by digest that a tag took over or deleted since the last start, and
\* for the outdated files of that start: nothing else keeps a blob on the disk.
THEOREM StoreExcessIsAccounted ==
  StoreSpec => ExcessIsAccountedFor
<1> DEFINE Accounted ==
      IF LoadStore
        THEN \A b \in Blobs : Excess(b)' = Cardinality(Places(Outdated, b))
        ELSE \A b \in Blobs : Excess(b)' = Excess(b) + Cardinality(Places(Abandoned, b))
<1>1. ASSUME StoreInv, StoreInv', [StoreNext]_<<storeVars, alwaysPullLatest>>
      PROVE  [Accounted]_storeVars
  <2>1. CASE LoadStore
    BY <1>1, <2>1, LoadIsAccounted
  <2>2. CASE UNCHANGED storeVars
    BY <2>2
  <2>3. ASSUME ~LoadStore, ~UNCHANGED storeVars, NEW b \in Blobs
        PROVE  Excess(b)' = Excess(b) + Cardinality(Places(Abandoned, b))
    <3>1. ASSUME NEW u \in ImageUrls, Hit(u) PROVE Excess(b)' = Excess(b) + Cardinality(Places(Abandoned, b))
      <4>1. PICK k \in KeyFor(u) : Touch(u, k)
        BY <3>1 DEF Hit
      <4>2. PrimaryOf(manifests', latest') = Primary /\ refCnt' = refCnt
        BY <1>1, <4>1, PrimaryTouched DEF Touch, StoreInv
      <4>3. Primary' = Primary
        BY <1>1, <4>2, PrimaryIsOfNext DEF StoreInv, HonestStore
      <4> QED BY <1>1, <4>2, <4>3, QuietAddsNoExcess
    <3>2. ASSUME NEW u \in ImageUrls, NEW d \in Digests, Pull(u, d)
          PROVE  Excess(b)' = Excess(b) + Cardinality(Places(Abandoned, b))
      <4> DEFINE m == [url |-> u, digest |-> d]
                 files == blobFiles \cup BlobsOf(d)
      <4>1. Honest(m) /\ m.digest = d /\ m.url = u
        BY <3>2, PulledIsHonest DEF Pull
      <4>2. Complete(d, files)
        BY DEF Complete
      <4>3. \/ KeyFor(u) = {} /\ AddToCache(m, files)
            \/ IsLatest(u) /\ ReplaceInCache(m, FileAdded(m), files)
        BY <3>2 DEF Pull, Forced
      <4> HIDE DEF m, files
      <4>4. KeyFor(u) = {} => u \notin Cached
        BY DEF KeyFor
      <4> QED BY <1>1, <4>1, <4>2, <4>3, <4>4, AddIsAccounted, ReplaceIsAccounted
    <3>3. ASSUME NEW u \in ImageUrls, NEW d \in Digests, PullInterrupted(u, d)
          PROVE  Excess(b)' = Excess(b) + Cardinality(Places(Abandoned, b))
      <4>1. UNCHANGED <<manifests, latest, refCnt>>
        BY <3>3 DEF PullInterrupted
      <4>2. Primary' = Primary
        BY <4>1 DEF Primary, Cached, FromCache
      <4> QED BY <1>1, <4>1, <4>2, QuietAddsNoExcess
    <3>4. ASSUME NEW m \in Primary, Prune(m)
          PROVE  Excess(b)' = Excess(b) + Cardinality(Places(Abandoned, b))
      BY <1>1, <3>4, PruneIsAccounted
    <3> QED BY <1>1, <2>3, <3>1, <3>2, <3>3, <3>4 DEF StoreNext, storeVars
  <2> QED BY <2>1, <2>2, <2>3
<1>2. StoreInv /\ StoreInv' /\ [StoreNext]_<<storeVars, alwaysPullLatest>> => [Accounted]_storeVars
  BY <1>1
<1> QED BY <1>2, StoreAlwaysInv, PTL DEF StoreSpec, ExcessIsAccountedFor
=============================================================================
