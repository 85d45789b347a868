--------------------------- MODULE Offline_proofs ---------------------------
(***************************************************************************)
(* Theorems about Offline for any repositories, tags, images and blobs.    *)
(***************************************************************************)
EXTENDS Offline, ImageFiles_proofs

\* The files are finitely many, and are manifests.
LEMMA FilesTyped ==
  ASSUME OfflineTypeOK
  PROVE  Files \subseteq Manifests /\ IsFiniteSet(Files)
<1> DEFINE F(dir) == {[url |-> disk[dir][d], digest |-> d] : d \in Readable(dir)}
<1>1. ASSUME NEW dir \in Dirs PROVE F(dir) \subseteq Manifests /\ IsFiniteSet(F(dir))
  <2>1. Readable(dir) \subseteq Digests
    BY DEF OfflineTypeOK, Readable
  <2>2. IsFiniteSet(Readable(dir))
    BY <2>1, FilesAssumption, FS_Subset
  <2>3. [d \in Readable(dir) |-> [url |-> disk[dir][d], digest |-> d]]
          \in Surjection(Readable(dir), F(dir))
    BY DEF Surjection
  <2>4. IsFiniteSet(F(dir))
    <3> HIDE DEF F
    <3> QED BY <2>2, <2>3, FS_Surjection
  <2>5. \A d \in Readable(dir) : disk[dir][d] \in ImageUrls
    BY DEF OfflineTypeOK
  <2> QED BY <2>1, <2>4, <2>5 DEF Manifests
<1>2. Files = F("lts") \cup F("img")
  BY DEF Files, Dirs
<1> HIDE DEF F
<1>3. IsFiniteSet(F("lts")) /\ IsFiniteSet(F("img"))
  BY <1>1 DEF Dirs
<1>4. IsFiniteSet(Files)
  BY <1>2, <1>3, FS_Union
<1> QED BY <1>1, <1>2, <1>4 DEF Dirs

\* So they are after a step.
LEMMA FilesTypedLater ==
  ASSUME OfflineTypeOK'
  PROVE  Files' \subseteq Manifests
<1> SUFFICES ASSUME NEW dir \in Dirs, NEW d \in Readable(dir)'
             PROVE  [url |-> disk'[dir][d], digest |-> d] \in Manifests
  BY DEF Files
<1>1. d \in Digests /\ disk'[dir][d] \in ImageUrls
  BY DEF OfflineTypeOK, Readable
<1> QED BY <1>1 DEF Manifests

\* A manifest is in Files exactly when its file holds its URL.
LEMMA InFiles ==
  ASSUME OfflineTypeOK, Placed, NEW m \in Manifests
  PROVE  m \in Files <=> /\ m.digest \in Readable(DirOf(m.url))
                         /\ disk[DirOf(m.url)][m.digest] = m.url
<1>1. DirOf(m.url) \in Dirs
  BY DEF DirOf, Dirs
<1>2. m = [url |-> m.url, digest |-> m.digest]
  BY DEF Manifests
<1>3. ASSUME m \in Files
      PROVE  m.digest \in Readable(DirOf(m.url)) /\ disk[DirOf(m.url)][m.digest] = m.url
  <2>0. PICK dir \in Dirs : \E d \in Readable(dir) : m = [url |-> disk[dir][d], digest |-> d]
    BY <1>3 DEF Files
  <2>1. PICK d \in Readable(dir) : m = [url |-> disk[dir][d], digest |-> d]
    BY <2>0
  <2>2. m.url = disk[dir][d] /\ m.digest = d
    BY <2>1
  <2>3. DirOf(m.url) = dir
    BY <2>1, <2>2 DEF Placed
  <2> QED BY <2>1, <2>2, <2>3
<1>4. ASSUME m.digest \in Readable(DirOf(m.url)), disk[DirOf(m.url)][m.digest] = m.url
      PROVE  m \in Files
  BY <1>1, <1>2, <1>4 DEF Files
<1> QED BY <1>3, <1>4

-----------------------------------------------------------------------------
\* Of selected files that hold one URL there is one that is walked last.
LEMMA DirectTyped ==
  ASSUME NEW selected \in SUBSET Manifests
  PROVE  /\ DOMAIN Direct(selected) = {m.url : m \in selected}
         /\ \A u \in DOMAIN Direct(selected) : Direct(selected)[u] \in selected
<1>1. DOMAIN Direct(selected) = {m.url : m \in selected}
  BY DEF Direct
<1>2. ASSUME NEW u \in {m.url : m \in selected}
      PROVE  Direct(selected)[u] \in selected
  <2> DEFINE S == {m.digest : m \in {n \in selected : n.url = u}}
  <2>1. S \in SUBSET Digests /\ S # {}
    BY DEF Manifests
  <2>2. \E g \in S : \A k \in S : WalkOrder[k] <= WalkOrder[g]
    <3> HIDE DEF S
    <3> QED BY <2>1, LastWalked
  <2>3. PICK last \in selected :
          last.url = u /\ \A n \in selected : n.url = u => WalkOrder[n.digest] <= WalkOrder[last.digest]
    BY <2>2
  <2>4. Direct(selected)[u] =
          CHOOSE m \in selected :
            m.url = u /\ \A n \in selected : n.url = u => WalkOrder[n.digest] <= WalkOrder[m.digest]
    BY DEF Direct
  <2> QED BY <2>3, <2>4
<1> QED BY <1>1, <1>2

\* addImageManifests adds files of directory lts.
LEMMA OfListsTyped ==
  ASSUME OfflineTypeOK, Placed, NEW ms, DOMAIN ms \subseteq ImageUrls,
         \A k \in DOMAIN ms : ms[k] \in Manifests, IsFiniteSet(DOMAIN ms)
  PROVE  /\ DOMAIN OfLists(ms) \subseteq ImageUrls /\ IsFiniteSet(DOMAIN OfLists(ms))
         /\ \A k \in DOMAIN OfLists(ms) : OfLists(ms)[k] \in Files
<1> DEFINE Here(u) == IF ms[u].digest \in Images THEN {} ELSE Members[ms[u].digest]
           Keys(u) == {WithDigest(u, i) : i \in Here(u) \cap Readable("lts")}
           keys == UNION {Keys(u) : u \in DOMAIN ms}
<1>1. DOMAIN OfLists(ms) = keys \ DOMAIN ms
      /\ \A k \in keys \ DOMAIN ms : OfLists(ms)[k] = [url |-> disk["lts"][k.ref], digest |-> k.ref]
  BY DEF OfLists
<1>2. Readable("lts") \subseteq Digests /\ IsFiniteSet(Readable("lts"))
  <2>1. Readable("lts") \subseteq Digests
    BY DEF OfflineTypeOK, Readable, Dirs
  <2> QED BY <2>1, FilesAssumption, FS_Subset
<1>3. ASSUME NEW u \in DOMAIN ms, NEW i \in Readable("lts")
      PROVE  WithDigest(u, i) \in ImageUrls /\ WithDigest(u, i).ref = i
  BY <1>2 DEF WithDigest, ImageUrls
<1>4. ASSUME NEW u \in DOMAIN ms PROVE IsFiniteSet(Keys(u))
  <2>1. [i \in Here(u) \cap Readable("lts") |-> WithDigest(u, i)]
          \in Surjection(Here(u) \cap Readable("lts"), Keys(u))
    BY DEF Surjection
  <2>2. IsFiniteSet(Here(u) \cap Readable("lts"))
    <3> HIDE DEF Here
    <3> QED BY <1>2, FS_Intersection
  <2> HIDE DEF Keys, Here
  <2> QED BY <2>1, <2>2, FS_Surjection
<1>5. IsFiniteSet(keys)
  <2> DEFINE all == {Keys(u) : u \in DOMAIN ms}
  <2>1. [u \in DOMAIN ms |-> Keys(u)] \in Surjection(DOMAIN ms, all)
    <3> HIDE DEF Keys
    <3> QED BY DEF Surjection
  <2>2. IsFiniteSet(all)
    <3> HIDE DEF all
    <3> QED BY <2>1, FS_Surjection
  <2>3. \A T \in all : IsFiniteSet(T)
    <3> HIDE DEF Keys
    <3> QED BY <1>4
  <2> HIDE DEF all
  <2> QED BY <2>2, <2>3, FS_UNION DEF all
<1>6. \A k \in keys : k \in ImageUrls /\ k.ref \in Readable("lts")
  BY <1>3
<1>7. IsFiniteSet(keys \ DOMAIN ms)
  <2> HIDE DEF keys
  <2> QED BY <1>5, FS_Difference
<1>8. ASSUME NEW d \in Readable("lts") PROVE [url |-> disk["lts"][d], digest |-> d] \in Files
  BY DEF Files, Dirs
<1> HIDE DEF keys
<1> QED BY <1>1, <1>6, <1>7, <1>8

\* What a prune is about to remove is files.
LEMMA MatchesTyped ==
  ASSUME OfflineTypeOK, Placed, NEW selected \in SUBSET Files
  PROVE  /\ DOMAIN Matches(selected) \subseteq ImageUrls
         /\ IsFiniteSet(DOMAIN Matches(selected))
         /\ \A k \in DOMAIN Matches(selected) : Matches(selected)[k] \in Files
<1> DEFINE ms == Direct(selected)
           more == OfLists(ms)
<1>1. selected \subseteq Manifests /\ IsFiniteSet(selected)
  BY FilesTyped, FS_Subset
<1>2. DOMAIN ms = {m.url : m \in selected} /\ \A u \in DOMAIN ms : ms[u] \in selected
  BY <1>1, DirectTyped
<1>3. IsFiniteSet(DOMAIN ms)
  <2>1. [m \in selected |-> m.url] \in Surjection(selected, {m.url : m \in selected})
    BY DEF Surjection
  <2> QED BY <1>1, <1>2, <2>1, FS_Surjection
<1>4. DOMAIN ms \subseteq ImageUrls
  BY <1>1, <1>2 DEF Manifests
<1>5. \A k \in DOMAIN ms : ms[k] \in Manifests /\ ms[k] \in Files
  BY <1>1, <1>2
<1>6. /\ DOMAIN more \subseteq ImageUrls /\ IsFiniteSet(DOMAIN more)
      /\ \A k \in DOMAIN more : more[k] \in Files
  <2> HIDE DEF ms
  <2> QED BY <1>3, <1>4, <1>5, OfListsTyped
<1>7. Matches(selected) =
        [k \in DOMAIN ms \cup DOMAIN more |-> IF k \in DOMAIN ms THEN ms[k] ELSE more[k]]
  BY DEF Matches
<1>8. IsFiniteSet(DOMAIN ms \cup DOMAIN more)
  <2> HIDE DEF ms, more
  <2> QED BY <1>3, <1>6, FS_Union
<1> HIDE DEF ms, more
<1> QED BY <1>4, <1>5, <1>6, <1>7, <1>8

-----------------------------------------------------------------------------
\* The places where the manifests of a map list a blob.
LEMMA InUses ==
  ASSUME NEW ms, NEW b, NEW p
  PROVE  p \in Uses(ms, b) <=>
           \E k \in DOMAIN ms : \E i \in DOMAIN Layers[ms[k].digest] :
             Layers[ms[k].digest][i] = b /\ p = <<k, i>>
BY DEF Uses

\* A finite map has finitely many.
LEMMA UsesFinite ==
  ASSUME NEW ms, IsFiniteSet(DOMAIN ms), \A k \in DOMAIN ms : ms[k] \in Manifests, NEW b
  PROVE  IsFiniteSet(Uses(ms, b))
<1> DEFINE L(k) == Layers[ms[k].digest]
           At(k) == {j \in DOMAIN L(k) : L(k)[j] = b}
           U(k) == {<<k, i>> : i \in At(k)}
           all == {U(k) : k \in DOMAIN ms}
<1>1. ASSUME NEW k \in DOMAIN ms PROVE IsFiniteSet(U(k))
  <2>1. L(k) \in Seq(Blobs)
    BY FilesAssumption DEF Manifests
  <2>2. IsFiniteSet(DOMAIN L(k))
    <3>1. DOMAIN L(k) = 1..Len(L(k)) /\ Len(L(k)) \in Nat
      BY <2>1
    <3> QED BY <3>1, FS_Interval
  <2>3. IsFiniteSet(At(k))
    <3> HIDE DEF L
    <3> QED BY <2>2, FS_Subset
  <2> HIDE DEF At
  <2>4. [i \in At(k) |-> <<k, i>>] \in Surjection(At(k), U(k))
    BY DEF Surjection
  <2> HIDE DEF U
  <2> QED BY <2>3, <2>4, FS_Surjection
<1> HIDE DEF U
<1>2. [k \in DOMAIN ms |-> U(k)] \in Surjection(DOMAIN ms, all)
  BY DEF Surjection
<1> HIDE DEF all
<1>3. IsFiniteSet(all)
  BY <1>2, FS_Surjection
<1>4. \A T \in all : IsFiniteSet(T)
  BY <1>1 DEF all
<1>5. Uses(ms, b) = UNION all
  BY DEF Uses, all, U
<1> QED BY <1>3, <1>4, <1>5, FS_UNION

\* A count is a number.
LEMMA TallyTyped ==
  ASSUME OfflineTypeOK, NEW b
  PROVE  Tally(b) \in Nat
<1> DEFINE id == [m \in Files |-> m]
<1>1. DOMAIN id = Files /\ \A m \in Files : id[m] = m /\ m \in Manifests
  BY FilesTyped
<1>2. Tally(b) = Cardinality(Uses(id, b))
  BY DEF Tally
<1> HIDE DEF id
<1> QED BY <1>1, <1>2, FilesTyped, UsesFinite, FS_CardinalityType

\* If no file is in the map twice, each place that is discounted was tallied.
LEMMA DiscountedIsTallied ==
  ASSUME OfflineTypeOK, NEW ms, \A k \in DOMAIN ms : ms[k] \in Files, ~MatchedTwice(ms), NEW b
  PROVE  LET id == [m \in Files |-> m]
             f == [p \in Uses(ms, b) |-> <<ms[p[1]], p[2]>>]
         IN  f \in Injection(Uses(ms, b), Uses(id, b)) /\ IsFiniteSet(Uses(id, b))
<1> DEFINE id == [m \in Files |-> m]
           f == [p \in Uses(ms, b) |-> <<ms[p[1]], p[2]>>]
<1>1. IsFiniteSet(Uses(id, b))
  <2>1. DOMAIN id = Files /\ \A m \in Files : id[m] = m /\ m \in Manifests
    BY FilesTyped
  <2> HIDE DEF id
  <2> QED BY <2>1, FilesTyped, UsesFinite
<1>2. ASSUME NEW p \in Uses(ms, b) PROVE f[p] \in Uses(id, b)
  <2>1. PICK k \in DOMAIN ms : \E i \in DOMAIN Layers[ms[k].digest] :
          Layers[ms[k].digest][i] = b /\ p = <<k, i>>
    BY InUses
  <2>2. PICK i \in DOMAIN Layers[ms[k].digest] : Layers[ms[k].digest][i] = b /\ p = <<k, i>>
    BY <2>1
  <2>3. f[p] = <<ms[k], i>> /\ ms[k] \in DOMAIN id /\ id[ms[k]] = ms[k]
    BY <2>2
  <2> HIDE DEF id, f
  <2> QED BY <2>2, <2>3, InUses
<1>3. ASSUME NEW p \in Uses(ms, b), NEW q \in Uses(ms, b), f[p] = f[q] PROVE p = q
  <2>1. PICK k \in DOMAIN ms : \E i \in DOMAIN Layers[ms[k].digest] : p = <<k, i>>
    BY InUses
  <2>2. PICK l \in DOMAIN ms : \E i \in DOMAIN Layers[ms[l].digest] : q = <<l, i>>
    BY InUses
  <2>3. ms[k] = ms[l] /\ p[2] = q[2]
    BY <1>3, <2>1, <2>2
  <2>4. k = l
    BY <2>3 DEF MatchedTwice
  <2> QED BY <2>1, <2>2, <2>3, <2>4
<1>4. f \in Injection(Uses(ms, b), Uses(id, b))
  BY <1>2, <1>3 DEF Injection, IsInjective
<1> QED BY <1>1, <1>4

\* Then no count becomes negative ...
LEMMA NotNegative ==
  ASSUME OfflineTypeOK, NEW ms, \A k \in DOMAIN ms : ms[k] \in Files, ~MatchedTwice(ms), NEW b
  PROVE  Discount(ms, b) <= Tally(b)
BY DiscountedIsTallied, FS_Injection DEF Discount, Tally

\* ... and the count of a blob that a manifest outside the map lists is not 0.
LEMMA UsedElsewhere ==
  ASSUME OfflineTypeOK, NEW ms, \A k \in DOMAIN ms : ms[k] \in Files, ~MatchedTwice(ms),
         NEW m \in Files, \A k \in DOMAIN ms : ms[k] # m, NEW b \in BlobsOf(m.digest)
  PROVE  Tally(b) # Discount(ms, b)
<1> DEFINE id == [n \in Files |-> n]
           f == [p \in Uses(ms, b) |-> <<ms[p[1]], p[2]>>]
<1>1. f \in Injection(Uses(ms, b), Uses(id, b)) /\ IsFiniteSet(Uses(id, b))
  BY DiscountedIsTallied
<1>2. PICK i \in DOMAIN Layers[m.digest] : Layers[m.digest][i] = b
  BY DEF BlobsOf
<1>3. <<m, i>> \in Uses(id, b)
  <2>1. m \in DOMAIN id /\ id[m] = m
    OBVIOUS
  <2> HIDE DEF id
  <2> QED BY <1>2, <2>1, InUses
<1>4. ASSUME NEW p \in Uses(ms, b) PROVE f[p] # <<m, i>>
  <2>1. PICK k \in DOMAIN ms : \E j \in DOMAIN Layers[ms[k].digest] : p = <<k, j>>
    BY InUses
  <2>2. f[p] = <<ms[k], p[2]>>
    BY <2>1
  <2> QED BY <2>1, <2>2
<1>5. f \notin Surjection(Uses(ms, b), Uses(id, b))
  <2> HIDE DEF f, id
  <2> QED BY <1>3, <1>4 DEF Surjection
<1>6. Cardinality(Uses(ms, b)) # Cardinality(Uses(id, b))
  <2> HIDE DEF f, id
  <2> QED BY <1>1, <1>5, FS_Injection
<1> QED BY <1>6 DEF Tally, Discount

\* If all manifests that list a blob are in the map, it is discounted to 0.
LEMMA UsedNowhereElse ==
  ASSUME OfflineTypeOK, NEW ms, IsFiniteSet(DOMAIN ms), \A k \in DOMAIN ms : ms[k] \in Files,
         NEW b, \A m \in Files : b \in BlobsOf(m.digest) => \E k \in DOMAIN ms : ms[k] = m
  PROVE  Tally(b) <= Discount(ms, b)
<1> DEFINE id == [m \in Files |-> m]
           key(m) == CHOOSE k \in DOMAIN ms : ms[k] = m
           f == [p \in Uses(id, b) |-> <<key(p[1]), p[2]>>]
<1>1. ASSUME NEW p \in Uses(id, b)
      PROVE  /\ p[1] \in Files /\ p = <<p[1], p[2]>> /\ key(p[1]) \in DOMAIN ms
             /\ ms[key(p[1])] = p[1] /\ f[p] \in Uses(ms, b)
  <2>1. PICK m \in Files : \E i \in DOMAIN Layers[m.digest] :
          Layers[m.digest][i] = b /\ p = <<m, i>>
    <3>1. DOMAIN id = Files /\ \A m \in Files : id[m] = m
      OBVIOUS
    <3> HIDE DEF id
    <3> QED BY <3>1, InUses
  <2>2. PICK i \in DOMAIN Layers[m.digest] : Layers[m.digest][i] = b /\ p = <<m, i>>
    BY <2>1
  <2>3. key(m) \in DOMAIN ms /\ ms[key(m)] = m
    BY <2>2 DEF BlobsOf
  <2>4. f[p] = <<key(m), i>>
    BY <2>2
  <2>5. f[p] \in Uses(ms, b)
    <3> HIDE DEF f, key
    <3> QED BY <2>2, <2>3, <2>4, InUses
  <2> HIDE DEF f, key
  <2> QED BY <2>2, <2>3, <2>5
<1>2. ASSUME NEW p \in Uses(id, b), NEW q \in Uses(id, b), f[p] = f[q] PROVE p = q
  <2>1. key(p[1]) = key(q[1]) /\ p[2] = q[2]
    <3> HIDE DEF key
    <3> QED BY <1>2
  <2> HIDE DEF key, f
  <2>2. p[1] = q[1]
    BY <1>1, <2>1
  <2> QED BY <1>1, <2>1, <2>2
<1>3. f \in Injection(Uses(id, b), Uses(ms, b))
  <2> HIDE DEF key, id
  <2> QED BY <1>1, <1>2 DEF Injection, IsInjective
<1>4. IsFiniteSet(Uses(ms, b))
  BY FilesTyped, UsesFinite
<1> HIDE DEF f, id
<1>5. Cardinality(Uses(id, b)) <= Cardinality(Uses(ms, b))
  BY <1>3, <1>4, FS_Injection
<1> QED BY <1>5 DEF Tally, Discount, id

-----------------------------------------------------------------------------
\* Nothing is on the disk at first.
LEMMA InitOffline ==
  ASSUME OfflineInit
  PROVE  OfflineInv
<1>1. DOMAIN matched = {} /\ unused = {} /\ loading = Nothing /\ todo = {} /\ next = NoDigest
  BY DEF OfflineInit, PruneInit, PreloadInit
<1>2. DOMAIN disk = Dirs /\ \A dir \in Dirs : DOMAIN disk[dir] = {} /\ Readable(dir) = {}
  BY DEF OfflineInit, Readable
<1>3. blobFiles = {}
  BY DEF OfflineInit
<1>4. OfflineTypeOK /\ Placed
  BY <1>1, <1>2, <1>3 DEF OfflineTypeOK, Placed
<1>5. MatchedAreFiles /\ PruneSparesOthers /\ LeftIsUsed
  BY <1>1, <1>3 DEF MatchedAreFiles, PruneSparesOthers, PruneSparesEveryOther, LeftIsUsed
<1>6. TodoHasFile
  BY <1>1 DEF TodoHasFile
<1> QED BY <1>4, <1>5, <1>6 DEF OfflineInv

\* A manifest file that is written, whole or in part, is in its directory, and
\* no file disappears.
LEMMA Written ==
  ASSUME OfflineTypeOK, Placed, NEW m \in Manifests,
         disk' = FileAdded(m) \/ disk' = FileTorn(m)
  PROVE  /\ DOMAIN disk' = Dirs
         /\ \A dir \in Dirs : /\ DOMAIN disk[dir] \subseteq DOMAIN disk'[dir]
                              /\ DOMAIN disk'[dir] \subseteq Digests
         /\ \A dir \in Dirs : \A d \in Readable(dir)' :
              disk'[dir][d] \in ImageUrls /\ DirOf(disk'[dir][d]) = dir
         /\ m.digest \in DOMAIN disk'[DirOf(m.url)]
<1>1. PICK v \in {m.url, Torn} : disk' = [disk EXCEPT ![DirOf(m.url)] = Put(@, m.digest, v)]
  BY DEF FileAdded, FileTorn
<1>2. DirOf(m.url) \in Dirs /\ DOMAIN disk = Dirs
  BY DEF DirOf, Dirs, OfflineTypeOK
<1>3. DOMAIN disk' = Dirs
  BY <1>1, <1>2
<1>4. /\ DOMAIN disk'[DirOf(m.url)] = DOMAIN disk[DirOf(m.url)] \cup {m.digest}
      /\ \A d \in DOMAIN disk'[DirOf(m.url)] :
           disk'[DirOf(m.url)][d] = IF d = m.digest THEN v ELSE disk[DirOf(m.url)][d]
  BY <1>1, <1>2 DEF Put
<1>5. \A dir \in Dirs \ {DirOf(m.url)} : disk'[dir] = disk[dir]
  BY <1>1, <1>2
<1>6. m.digest \in Digests /\ m.url \in ImageUrls
  BY DEF Manifests
<1>7. ASSUME NEW dir \in Dirs
      PROVE  DOMAIN disk[dir] \subseteq DOMAIN disk'[dir] /\ DOMAIN disk'[dir] \subseteq Digests
  BY <1>4, <1>5, <1>6 DEF OfflineTypeOK
<1>8. ASSUME NEW dir \in Dirs, NEW d \in Readable(dir)'
      PROVE  disk'[dir][d] \in ImageUrls /\ DirOf(disk'[dir][d]) = dir
  <2>1. d \in DOMAIN disk'[dir] /\ disk'[dir][d] # Torn
    BY DEF Readable
  <2>2. CASE dir = DirOf(m.url) /\ d = m.digest
    BY <1>1, <1>4, <1>6, <2>1, <2>2
  <2>3. CASE dir # DirOf(m.url) \/ d # m.digest
    <3>1. d \in DOMAIN disk[dir] /\ disk'[dir][d] = disk[dir][d]
      BY <1>4, <1>5, <2>1, <2>3
    <3>2. d \in Readable(dir)
      BY <2>1, <3>1 DEF Readable
    <3> QED BY <3>1, <3>2 DEF OfflineTypeOK, Placed
  <2> QED BY <2>2, <2>3
<1> QED BY <1>3, <1>4, <1>7, <1>8

\* While no prune runs, what it has to keep holds.
LEMMA NoPrune ==
  ASSUME Idle, UNCHANGED pruneVars
  PROVE  MatchedAreFiles' /\ PruneSparesOthers' /\ LeftIsUsed' /\ unused' = {} /\ DOMAIN matched' = {}
BY DEF Idle, pruneVars, MatchedAreFiles, PruneSparesOthers, PruneSparesEveryOther, LeftIsUsed

\* No blob becomes an orphan when files are only added, and blobs of a file.
LEMMA StillListed ==
  ASSUME NEW dir \in Dirs, NEW d \in DOMAIN disk'[dir],
         \A e \in Dirs : DOMAIN disk[e] \subseteq DOMAIN disk'[e],
         blobFiles' \subseteq blobFiles \cup BlobsOf(d)
  PROVE  Orphans' \subseteq Orphans
BY DEF Orphans

\* Nor when no manifest file changes and blobs are only removed.
LEMMA StillListedSame ==
  ASSUME UNCHANGED disk, blobFiles' \subseteq blobFiles
  PROVE  Orphans' \subseteq Orphans
BY DEF Orphans

-----------------------------------------------------------------------------
\* A prune begins: the counts decide which blobs have no other user.
LEMMA SelectMatchesKeeps ==
  ASSUME OfflineInv, NEW selected \in SUBSET Files, SelectMatches(selected),
         NotLoading, UNCHANGED preloadVars
  PROVE  OfflineInv' /\ Orphans' \subseteq Orphans
<1> DEFINE ms == Matches(selected)
<1>1. OfflineTypeOK /\ Placed
  BY DEF OfflineInv
<1>2. /\ DOMAIN ms \subseteq ImageUrls /\ IsFiniteSet(DOMAIN ms)
      /\ \A k \in DOMAIN ms : ms[k] \in Files /\ ms[k] \in Manifests
  BY <1>1, MatchesTyped, FilesTyped
<1>3. /\ matched' = ms /\ unused' = {b \in blobFiles : Tally(b) = Discount(ms, b)}
      /\ UNCHANGED <<disk, blobFiles, loading, todo, next>> /\ ~DecrementedNegative(ms)
  BY DEF SelectMatches, preloadVars
<1> HIDE DEF ms
<1>4. Files' = Files /\ MatchedFiles' = {ms[k] : k \in DOMAIN ms}
  BY <1>3 DEF Files, Readable, MatchedFiles
<1>5. OfflineTypeOK' /\ Placed'
  BY <1>1, <1>2, <1>3 DEF OfflineTypeOK, Placed, Readable
<1>6. MatchedAreFiles'
  BY <1>2, <1>3, <1>4 DEF MatchedAreFiles
<1>7. PruneSparesOthers'
  <2> SUFFICES ASSUME ~MatchedTwice(ms), NEW m \in Files \ MatchedFiles', NEW b \in BlobsOf(m.digest)
               PROVE  b \notin unused'
    BY <1>3, <1>4 DEF PruneSparesOthers, PruneSparesEveryOther, MatchedTwice
  <2>1. Tally(b) # Discount(ms, b)
    BY <1>1, <1>2, <1>4, UsedElsewhere
  <2> QED BY <1>3, <2>1
<1>8. LeftIsUsed'
  <2> SUFFICES ASSUME NEW b \in blobFiles \ unused',
                      \A m \in Files : b \in BlobsOf(m.digest) => \E k \in DOMAIN ms : ms[k] = m
               PROVE  FALSE
    BY <1>3, <1>4 DEF LeftIsUsed
  <2>1. Tally(b) # Discount(ms, b) /\ ~(Discount(ms, b) > Tally(b))
    BY <1>3 DEF DecrementedNegative
  <2>2. Tally(b) <= Discount(ms, b)
    BY <1>1, <1>2, UsedNowhereElse
  <2>3. Discount(ms, b) \in Nat
    BY <1>2, UsesFinite, FS_CardinalityType DEF Discount
  <2>4. Tally(b) \in Nat
    BY <1>1, TallyTyped
  <2> QED BY <2>1, <2>2, <2>3, <2>4
<1>9. TodoHasFile'
  BY <1>3 DEF OfflineInv, TodoHasFile, NotLoading
<1>10. Orphans' \subseteq Orphans
  BY <1>3, StillListedSame DEF OfflineInv
<1> QED BY <1>5, <1>6, <1>7, <1>8, <1>9, <1>10 DEF OfflineInv

\* A blob is removed.
LEMMA RemoveBlobKeeps ==
  ASSUME OfflineInv, NEW b \in unused, RemoveBlob(b), NotLoading, UNCHANGED preloadVars
  PROVE  OfflineInv' /\ Orphans' \subseteq Orphans
<1>1. /\ unused' = unused \ {b} /\ blobFiles' = blobFiles \ {b}
      /\ UNCHANGED <<matched, disk, loading, todo, next>>
  BY DEF RemoveBlob, preloadVars
<1>2. Files' = Files /\ MatchedFiles' = MatchedFiles
  BY <1>1 DEF Files, Readable, MatchedFiles
<1>3. OfflineTypeOK' /\ Placed'
  BY <1>1 DEF OfflineInv, OfflineTypeOK, Placed, Readable
<1>4. MatchedAreFiles'
  BY <1>1, <1>2 DEF OfflineInv, MatchedAreFiles
<1>5. PruneSparesOthers'
  BY <1>1, <1>2 DEF OfflineInv, PruneSparesOthers, PruneSparesEveryOther, MatchedTwice
<1>6. LeftIsUsed'
  BY <1>1, <1>2 DEF OfflineInv, LeftIsUsed
<1>7. TodoHasFile'
  BY <1>1 DEF OfflineInv, TodoHasFile, NotLoading
<1>8. Orphans' \subseteq Orphans
  BY <1>1, StillListedSame DEF OfflineInv
<1> QED BY <1>3, <1>4, <1>5, <1>6, <1>7, <1>8 DEF OfflineInv

\* A manifest is removed: the manifests that stay are the same, and by
\* LeftIsUsed they list each blob that is left.
LEMMA RemoveManifestKeeps ==
  ASSUME OfflineInv, NEW k \in DOMAIN matched, RemoveManifest(k), NotLoading, UNCHANGED preloadVars
  PROVE  OfflineInv' /\ Orphans' \subseteq Orphans
<1> DEFINE m == matched[k]
<1>1. /\ unused = {} /\ unused' = {} /\ matched' = Without(matched, {k})
      /\ disk' = FileRemoved(disk, m) /\ UNCHANGED <<blobFiles, loading, todo, next>>
  BY DEF RemoveManifest, preloadVars
<1>2. /\ DOMAIN matched' = DOMAIN matched \ {k}
      /\ \A l \in DOMAIN matched' : matched'[l] = matched[l]
  BY <1>1 DEF Without
<1>3. OfflineTypeOK /\ Placed
  BY DEF OfflineInv
<1>4. m \in Manifests /\ (m \in Files \/ m.digest \notin DOMAIN disk[DirOf(m.url)])
  BY DEF OfflineInv, OfflineTypeOK, MatchedAreFiles
<1> HIDE DEF m
<1>5. DirOf(m.url) \in Dirs /\ DOMAIN disk = Dirs
  BY <1>3 DEF DirOf, Dirs, OfflineTypeOK
<1>6. /\ DOMAIN disk' = Dirs
      /\ \A dir \in Dirs :
           /\ DOMAIN disk'[dir] = IF dir = DirOf(m.url) THEN DOMAIN disk[dir] \ {m.digest}
                                                         ELSE DOMAIN disk[dir]
           /\ \A d \in DOMAIN disk'[dir] : disk'[dir][d] = disk[dir][d]
  BY <1>1, <1>5 DEF FileRemoved, Without
<1>7. \A dir \in Dirs : \A d \in Readable(dir)' :
        d \in Readable(dir) /\ disk'[dir][d] = disk[dir][d]
  BY <1>6 DEF Readable
<1>8. OfflineTypeOK'
  <2>1. \A dir \in Dirs : /\ DOMAIN disk'[dir] \subseteq Digests
                          /\ \A d \in Readable(dir)' : disk'[dir][d] \in ImageUrls
    BY <1>3, <1>6, <1>7 DEF OfflineTypeOK
  <2> QED BY <1>1, <1>2, <1>3, <1>6, <2>1 DEF OfflineTypeOK
<1>9. Placed'
  BY <1>3, <1>7 DEF Placed
<1>10. ASSUME NEW n \in Manifests PROVE n \in Files' <=> n \in Files /\ n # m
  <2>1. n \in Files <=> /\ n.digest \in Readable(DirOf(n.url))
                        /\ disk[DirOf(n.url)][n.digest] = n.url
    BY <1>3, InFiles
  <2>2. n \in Files' <=> /\ n.digest \in Readable(DirOf(n.url))'
                         /\ disk'[DirOf(n.url)][n.digest] = n.url
    <3>1. n \in Files' <=> n \in UNION {{[url |-> disk'[dir][d], digest |-> d] : d \in Readable(dir)'} : dir \in Dirs}
      BY DEF Files
    <3>2. n = [url |-> n.url, digest |-> n.digest] /\ DirOf(n.url) \in Dirs
      BY DEF Manifests, DirOf, Dirs
    <3>3. ASSUME NEW dir \in Dirs, NEW d \in Readable(dir)', n = [url |-> disk'[dir][d], digest |-> d]
          PROVE  n.digest \in Readable(DirOf(n.url))' /\ disk'[DirOf(n.url)][n.digest] = n.url
      <4>1. n.url = disk'[dir][d] /\ n.digest = d
        BY <3>3
      <4>2. DirOf(n.url) = dir
        BY <1>9, <4>1 DEF Placed
      <4> QED BY <4>1, <4>2
    <3> QED BY <3>1, <3>2, <3>3
  <2>3. DirOf(n.url) \in Dirs
    BY DEF DirOf, Dirs
  <2>4. CASE DirOf(n.url) = DirOf(m.url) /\ n.digest = m.digest
    <3>1. n \notin Files'
      BY <1>6, <2>2, <2>3, <2>4 DEF Readable
    <3>2. n \in Files => n = m
      <4>1. ASSUME n \in Files PROVE n.url = m.url
        <5>1. m \in Files
          BY <1>4, <2>1, <2>4, <4>1 DEF Readable
        <5>2. disk[DirOf(m.url)][m.digest] = m.url
          BY <1>3, <1>4, <5>1, InFiles
        <5> QED BY <2>1, <2>4, <4>1, <5>2
      <4> QED BY <1>4, <2>4, <4>1 DEF Manifests
    <3> QED BY <3>1, <3>2
  <2>5. CASE ~(DirOf(n.url) = DirOf(m.url) /\ n.digest = m.digest)
    <3>1. n # m
      BY <2>5
    <3>2. n.digest \in Readable(DirOf(n.url))' <=> n.digest \in Readable(DirOf(n.url))
      BY <1>6, <2>3, <2>5 DEF Readable
    <3>3. n.digest \in Readable(DirOf(n.url))' =>
            disk'[DirOf(n.url)][n.digest] = disk[DirOf(n.url)][n.digest]
      BY <1>6, <2>3 DEF Readable
    <3> QED BY <2>1, <2>2, <3>1, <3>2, <3>3
  <2> QED BY <2>4, <2>5
<1>11. Files' \subseteq Manifests /\ Files \subseteq Manifests
  BY <1>3, <1>8, FilesTyped, FilesTypedLater
<1>12. Files' \ MatchedFiles' = Files \ MatchedFiles
  <2>1. MatchedFiles \ {m} \subseteq MatchedFiles' /\ MatchedFiles' \subseteq MatchedFiles
    BY <1>2 DEF MatchedFiles, m
  <2>2. m \in MatchedFiles
    BY DEF MatchedFiles, m
  <2> QED BY <1>10, <1>11, <2>1, <2>2
<1>13. MatchedAreFiles'
  <2> SUFFICES ASSUME NEW l \in DOMAIN matched'
               PROVE  matched[l] \in Files' \/ matched[l].digest \notin DOMAIN disk'[DirOf(matched[l].url)]
    BY <1>2 DEF MatchedAreFiles
  <2>1. matched[l] \in Manifests /\ DirOf(matched[l].url) \in Dirs
    BY <1>2, <1>3 DEF OfflineTypeOK, DirOf, Dirs
  <2>2. CASE matched[l] = m
    BY <1>5, <1>6, <2>2
  <2>3. CASE matched[l] # m
    BY <1>2, <1>6, <1>10, <2>1, <2>3 DEF OfflineInv, MatchedAreFiles
  <2> QED BY <2>2, <2>3
<1>14. PruneSparesOthers'
  BY <1>1 DEF PruneSparesOthers, PruneSparesEveryOther
<1>15. LeftIsUsed'
  BY <1>1, <1>2, <1>12 DEF OfflineInv, LeftIsUsed
<1>16. TodoHasFile'
  BY <1>1 DEF OfflineInv, TodoHasFile, NotLoading
<1>17. Orphans' \subseteq Orphans
  <2> SUFFICES ASSUME NEW b \in blobFiles
               PROVE  \E e \in Dirs : \E f \in DOMAIN disk'[e] : b \in BlobsOf(f)
    BY <1>1 DEF Orphans
  <2>1. PICK n \in Files' : b \in BlobsOf(n.digest)
    BY <1>1, <1>12 DEF OfflineInv, LeftIsUsed
  <2>2. PICK dir \in Dirs : \E d \in Readable(dir)' : n = [url |-> disk'[dir][d], digest |-> d]
    BY <2>1 DEF Files
  <2>3. n.digest \in DOMAIN disk'[dir]
    BY <2>2 DEF Readable
  <2> QED BY <2>1, <2>3
<1> QED BY <1>8, <1>9, <1>13, <1>14, <1>15, <1>16, <1>17 DEF OfflineInv

\* A prune ends early.
LEMMA PruneStopsKeeps ==
  ASSUME OfflineInv, PruneStops, NotLoading, UNCHANGED preloadVars
  PROVE  OfflineInv' /\ Orphans' \subseteq Orphans
<1>1. /\ DOMAIN matched' = {} /\ unused' = {}
      /\ UNCHANGED <<disk, blobFiles, loading, todo, next>>
  BY DEF PruneStops, preloadVars
<1>2. OfflineTypeOK' /\ Placed'
  BY <1>1 DEF OfflineInv, OfflineTypeOK, Placed, Readable
<1>3. MatchedAreFiles' /\ PruneSparesOthers' /\ LeftIsUsed'
  BY <1>1 DEF MatchedAreFiles, PruneSparesOthers, PruneSparesEveryOther, LeftIsUsed
<1>4. TodoHasFile' /\ Orphans' \subseteq Orphans
  BY <1>1, StillListedSame DEF OfflineInv, TodoHasFile, NotLoading
<1> QED BY <1>2, <1>3, <1>4 DEF OfflineInv

-----------------------------------------------------------------------------
\* A manifest is stored: unless it can be read already, its blobs are to be
\* downloaded, and it has a file.
LEMMA StoreKeeps ==
  ASSUME OfflineInv, NEW u \in ImageUrls, NEW asked, NEW d \in Digests, Store(u, asked, d),
         next' \in Images \cup {NoDigest}, Idle, UNCHANGED pruneVars
  PROVE  OfflineInv' /\ Orphans' \subseteq Orphans
<1> DEFINE m == [url |-> u, digest |-> d]
<1>1. m \in Manifests /\ m.url = u /\ m.digest = d
  BY DEF Manifests
<1>2. /\ loading' = [manifest |-> m, written |-> d \notin DOMAIN disk[DirOf(u)]]
      /\ todo' = IF asked \in Readable(DirOf(u)) THEN {} ELSE BlobsOf(d)
      /\ disk' = IF d \notin DOMAIN disk[DirOf(u)] THEN FileAdded(m) ELSE disk
      /\ blobFiles' = blobFiles
  BY DEF Store
<1> HIDE DEF m
<1>3. OfflineTypeOK /\ Placed
  BY DEF OfflineInv
<1>4. /\ DOMAIN disk' = Dirs
      /\ \A dir \in Dirs : /\ DOMAIN disk[dir] \subseteq DOMAIN disk'[dir]
                           /\ DOMAIN disk'[dir] \subseteq Digests
      /\ \A dir \in Dirs : \A e \in Readable(dir)' :
           disk'[dir][e] \in ImageUrls /\ DirOf(disk'[dir][e]) = dir
      /\ d \in DOMAIN disk'[DirOf(u)]
  <2>1. CASE d \notin DOMAIN disk[DirOf(u)]
    <3>1. disk' = FileAdded(m)
      BY <1>2, <2>1
    <3> QED BY <1>1, <1>3, <3>1, Written
  <2>2. CASE d \in DOMAIN disk[DirOf(u)]
    BY <1>2, <1>3, <2>2 DEF OfflineTypeOK, Placed, Readable
  <2> QED BY <2>1, <2>2
<1>5. DirOf(u) \in Dirs
  BY DEF DirOf, Dirs
<1>6. BlobsOf(d) \subseteq Blobs
  BY FilesAssumption DEF BlobsOf
<1>7. MatchedAreFiles' /\ PruneSparesOthers' /\ LeftIsUsed' /\ unused' = {} /\ DOMAIN matched' = {}
  BY NoPrune
<1>8. OfflineTypeOK'
  <2>1. loading' \in [manifest : Manifests, written : BOOLEAN]
    BY <1>1, <1>2
  <2> QED BY <1>2, <1>3, <1>4, <1>6, <1>7, <2>1 DEF OfflineTypeOK
<1>9. Placed'
  BY <1>4 DEF Placed
<1>10. loading'.manifest = m /\ ~NotLoading'
  <2>1. "manifest" \in DOMAIN loading' /\ "manifest" \notin DOMAIN Nothing
    BY <1>2 DEF Nothing
  <2> QED BY <1>2, <2>1 DEF NotLoading
<1>11. TodoHasFile'
  <2>1. todo' \subseteq BlobsOf(d)
    BY <1>2
  <2> QED BY <1>1, <1>4, <1>10, <2>1 DEF TodoHasFile
<1>12. Orphans' \subseteq Orphans
  BY <1>2, <1>3, <1>4, <1>5, StillListed
<1> QED BY <1>7, <1>8, <1>9, <1>11, <1>12 DEF OfflineInv

\* A manifest of an entry, of a list or of a tarball is stored.
LEMMA LoadKeeps ==
  ASSUME OfflineInv, Idle, UNCHANGED pruneVars,
         \/ \E u \in ImageUrls : LoadEntry(u)
         \/ LoadImageOfList
         \/ \E m \in Tarred : LoadFromTarball(m)
  PROVE  OfflineInv' /\ Orphans' \subseteq Orphans
<1>1. \A m \in Upstream \cup Tarred : m.url \in ImageUrls /\ m.digest \in Digests
  BY PreloadAssumption DEF Manifests
<1>2. \A d \in Digests \ Images : PlatformImage[d] \in Images
  BY PreloadAssumption
<1>3. ASSUME NEW u \in ImageUrls, LoadEntry(u) PROVE OfflineInv' /\ Orphans' \subseteq Orphans
  <2>1. PICK m \in Upstream, n \in Upstream :
          /\ Store(u, m.digest, n.digest)
          /\ next' = IF n.digest \in Images THEN NoDigest ELSE PlatformImage[n.digest]
    BY <1>3 DEF LoadEntry
  <2>2. next' \in Images \cup {NoDigest}
    BY <1>1, <1>2, <2>1
  <2> QED BY <1>1, <2>1, <2>2, StoreKeeps
<1>4. ASSUME LoadImageOfList PROVE OfflineInv' /\ Orphans' \subseteq Orphans
  <2>1. next \in Images /\ next \in Digests /\ next' = NoDigest /\ ~NotLoading
    BY <1>4, FilesAssumption DEF LoadImageOfList, OfflineInv, OfflineTypeOK, TodoHasFile
  <2>2. loading.manifest.url \in ImageUrls
    BY <2>1 DEF OfflineInv, OfflineTypeOK, NotLoading, Manifests
  <2>3. WithDigest(loading.manifest.url, next) \in ImageUrls
    BY <2>1, <2>2 DEF WithDigest, ImageUrls
  <2>4. PICK u \in ImageUrls : Store(u, next, next)
    BY <1>4, <2>2, <2>3 DEF LoadImageOfList
  <2> QED BY <2>1, <2>4, StoreKeeps
<1>5. ASSUME NEW m \in Tarred, LoadFromTarball(m) PROVE OfflineInv' /\ Orphans' \subseteq Orphans
  <2>1. Store(m.url, m.digest, m.digest) /\ next' = NoDigest
    BY <1>5 DEF LoadFromTarball
  <2> QED BY <1>1, <2>1, StoreKeeps
<1> QED BY <1>3, <1>4, <1>5

\* A blob is downloaded.
LEMMA DownloadKeeps ==
  ASSUME OfflineInv, NEW b \in todo, Download(b), Idle, UNCHANGED pruneVars
  PROVE  OfflineInv' /\ Orphans' \subseteq Orphans
<1>1. /\ todo' = todo \ {b} /\ blobFiles' = blobFiles \cup {b}
      /\ UNCHANGED <<disk, loading, next>>
  BY DEF Download
<1>2. MatchedAreFiles' /\ PruneSparesOthers' /\ LeftIsUsed' /\ unused' = {} /\ DOMAIN matched' = {}
  BY NoPrune
<1>3. OfflineTypeOK' /\ Placed'
  BY <1>1, <1>2 DEF OfflineInv, OfflineTypeOK, Placed, Readable
<1>4. TodoHasFile'
  BY <1>1 DEF OfflineInv, TodoHasFile, NotLoading
<1>5. Orphans' \subseteq Orphans
  <2> DEFINE m == loading.manifest
  <2>1. b \in BlobsOf(m.digest) /\ m.digest \in DOMAIN disk'[DirOf(m.url)]
    BY <1>1 DEF OfflineInv, TodoHasFile
  <2>2. DirOf(m.url) \in Dirs
    BY DEF DirOf, Dirs
  <2> QED BY <1>1, <2>1, <2>2, StillListed DEF OfflineInv
<1> QED BY <1>2, <1>3, <1>4, <1>5 DEF OfflineInv

\* An entry is loaded, or its load stops.
LEMMA EndOfLoadKeeps ==
  ASSUME OfflineInv, EndEntry \/ PreloadStops, Idle, UNCHANGED pruneVars
  PROVE  OfflineInv' /\ Orphans' \subseteq Orphans
<1>1. loading' = Nothing /\ todo' = {} /\ next' = NoDigest /\ blobFiles' = blobFiles
  BY DEF EndEntry, PreloadStops, Loaded
<1>2. \/ disk' = disk
      \/ ~NotLoading /\ disk' = FileTorn(loading.manifest)
  BY DEF EndEntry, PreloadStops
<1>3. MatchedAreFiles' /\ PruneSparesOthers' /\ LeftIsUsed' /\ unused' = {} /\ DOMAIN matched' = {}
  BY NoPrune
<1>4. OfflineTypeOK /\ Placed
  BY DEF OfflineInv
<1>5. TodoHasFile'
  BY <1>1 DEF TodoHasFile
<1>6. CASE disk' = disk
  <2>1. OfflineTypeOK' /\ Placed'
    BY <1>1, <1>3, <1>4, <1>6 DEF OfflineTypeOK, Placed, Readable
  <2>2. Orphans' \subseteq Orphans
    BY <1>1, <1>4, <1>6, StillListedSame
  <2> QED BY <1>3, <1>5, <2>1, <2>2 DEF OfflineInv
<1>7. CASE ~NotLoading /\ disk' = FileTorn(loading.manifest)
  <2> DEFINE m == loading.manifest
  <2>1. m \in Manifests
    BY <1>4, <1>7 DEF OfflineTypeOK, NotLoading
  <2>2. DirOf(m.url) \in Dirs
    BY DEF DirOf, Dirs
  <2> HIDE DEF m
  <2>3. /\ DOMAIN disk' = Dirs
        /\ \A dir \in Dirs : /\ DOMAIN disk[dir] \subseteq DOMAIN disk'[dir]
                             /\ DOMAIN disk'[dir] \subseteq Digests
        /\ \A dir \in Dirs : \A d \in Readable(dir)' :
             disk'[dir][d] \in ImageUrls /\ DirOf(disk'[dir][d]) = dir
        /\ m.digest \in DOMAIN disk'[DirOf(m.url)]
    BY <1>4, <1>7, <2>1, Written DEF m
  <2>4. OfflineTypeOK' /\ Placed'
    BY <1>1, <1>3, <1>4, <2>3 DEF OfflineTypeOK, Placed
  <2>5. Orphans' \subseteq Orphans
    BY <1>1, <1>4, <2>2, <2>3, StillListed
  <2> QED BY <1>3, <1>5, <2>4, <2>5 DEF OfflineInv
<1> QED BY <1>2, <1>6, <1>7

\* The server pulls an image.
LEMMA ServerPullsKeeps ==
  ASSUME OfflineInv, NEW m \in Upstream, ServerPulls(m)
  PROVE  OfflineInv' /\ Orphans' \subseteq Orphans
<1>1. /\ Idle /\ NotLoading /\ UNCHANGED <<pruneVars, loading, todo, next>>
      /\ disk' = FileAdded(m) \/ disk' = FileTorn(m)
      /\ blobFiles \subseteq blobFiles' /\ blobFiles' \subseteq blobFiles \cup BlobsOf(m.digest)
  BY DEF ServerPulls, preloadVars
<1>2. MatchedAreFiles' /\ PruneSparesOthers' /\ LeftIsUsed' /\ unused' = {} /\ DOMAIN matched' = {}
  BY <1>1, NoPrune
<1>3. OfflineTypeOK /\ Placed
  BY DEF OfflineInv
<1>4. m \in Manifests /\ DirOf(m.url) \in Dirs
  BY PreloadAssumption DEF DirOf, Dirs
<1>5. /\ DOMAIN disk' = Dirs
      /\ \A dir \in Dirs : /\ DOMAIN disk[dir] \subseteq DOMAIN disk'[dir]
                           /\ DOMAIN disk'[dir] \subseteq Digests
      /\ \A dir \in Dirs : \A d \in Readable(dir)' :
           disk'[dir][d] \in ImageUrls /\ DirOf(disk'[dir][d]) = dir
      /\ m.digest \in DOMAIN disk'[DirOf(m.url)]
  BY <1>1, <1>3, <1>4, Written
<1>6. BlobsOf(m.digest) \subseteq Blobs
  <2>1. m.digest \in Digests
    BY <1>4 DEF Manifests
  <2> QED BY <2>1, FilesAssumption DEF BlobsOf
<1>7. OfflineTypeOK' /\ Placed'
  BY <1>1, <1>2, <1>3, <1>5, <1>6 DEF OfflineTypeOK, Placed
<1>8. TodoHasFile'
  BY <1>1 DEF OfflineInv, TodoHasFile, NotLoading
<1>9. Orphans' \subseteq Orphans
  BY <1>1, <1>3, <1>4, <1>5, StillListed
<1> QED BY <1>2, <1>7, <1>8, <1>9 DEF OfflineInv

\* The server prunes or replaces a manifest.
LEMMA ServerPrunesKeeps ==
  ASSUME OfflineInv, NEW m \in Files, ServerPrunes(m)
  PROVE  OfflineInv'
<1>1. /\ Idle /\ NotLoading /\ UNCHANGED <<pruneVars, loading, todo, next>>
      /\ disk' = disk \/ disk' = FileRemoved(disk, m)
      /\ blobFiles' \subseteq blobFiles
  BY DEF ServerPrunes, preloadVars
<1>2. MatchedAreFiles' /\ PruneSparesOthers' /\ LeftIsUsed' /\ unused' = {} /\ DOMAIN matched' = {}
  BY <1>1, NoPrune
<1>3. OfflineTypeOK /\ Placed
  BY DEF OfflineInv
<1>4. DirOf(m.url) \in Dirs /\ DOMAIN disk = Dirs
  BY <1>3 DEF DirOf, Dirs, OfflineTypeOK
<1>5. /\ DOMAIN disk' = Dirs
      /\ \A dir \in Dirs : /\ DOMAIN disk'[dir] \subseteq DOMAIN disk[dir]
                           /\ \A d \in DOMAIN disk'[dir] : disk'[dir][d] = disk[dir][d]
  BY <1>1, <1>4 DEF FileRemoved, Without
<1>6. \A dir \in Dirs : \A d \in Readable(dir)' :
        d \in Readable(dir) /\ disk'[dir][d] = disk[dir][d]
  BY <1>5 DEF Readable
<1>7. \A dir \in Dirs : /\ DOMAIN disk'[dir] \subseteq Digests
                        /\ \A d \in Readable(dir)' : disk'[dir][d] \in ImageUrls
  BY <1>3, <1>5, <1>6 DEF OfflineTypeOK
<1>8. OfflineTypeOK'
  BY <1>1, <1>2, <1>3, <1>5, <1>7 DEF OfflineTypeOK
<1>9. Placed'
  BY <1>3, <1>6 DEF Placed
<1>10. TodoHasFile'
  BY <1>1 DEF OfflineInv, TodoHasFile, NotLoading
<1> QED BY <1>2, <1>8, <1>9, <1>10 DEF OfflineInv

\* A step of nothing.
LEMMA StutterKeeps ==
  ASSUME OfflineInv, UNCHANGED offlineVars
  PROVE  OfflineInv' /\ Orphans' \subseteq Orphans
<1>1. UNCHANGED <<disk, blobFiles, matched, unused, loading, todo, next>>
  BY DEF offlineVars, pruneVars, preloadVars
<1>2. Files' = Files
  BY <1>1 DEF Files, Readable
<1>3. OfflineTypeOK' /\ Placed'
  BY <1>1 DEF OfflineInv, OfflineTypeOK, Placed, Readable
<1>4. MatchedAreFiles' /\ PruneSparesOthers' /\ LeftIsUsed'
  BY <1>1, <1>2 DEF OfflineInv, MatchedAreFiles, PruneSparesOthers, PruneSparesEveryOther,
                    LeftIsUsed, MatchedFiles, MatchedTwice
<1>5. TodoHasFile' /\ Orphans' \subseteq Orphans
  BY <1>1, StillListedSame DEF OfflineInv, TodoHasFile, NotLoading
<1> QED BY <1>3, <1>4, <1>5 DEF OfflineInv

\* Every step keeps the invariant.
LEMMA OfflineStep ==
  ASSUME OfflineInv, [OfflineNext]_offlineVars
  PROVE  OfflineInv' /\ ((\E m \in Files : ServerPrunes(m)) \/ Orphans' \subseteq Orphans)
<1>1. CASE NotLoading /\ PruneNext /\ UNCHANGED preloadVars
  <2>1. \/ \E selected \in SUBSET Files : SelectMatches(selected)
        \/ \E b \in unused : RemoveBlob(b)
        \/ \E k \in DOMAIN matched : RemoveManifest(k)
        \/ PruneStops
    BY <1>1 DEF PruneNext
  <2> QED BY <1>1, <2>1, SelectMatchesKeeps, RemoveBlobKeeps, RemoveManifestKeeps, PruneStopsKeeps
<1>2. CASE Idle /\ PreloadNext /\ UNCHANGED pruneVars
  <2>1. \/ \E u \in ImageUrls : LoadEntry(u)
        \/ LoadImageOfList
        \/ \E m \in Tarred : LoadFromTarball(m)
        \/ \E b \in todo : Download(b)
        \/ EndEntry
        \/ PreloadStops
    BY <1>2 DEF PreloadNext
  <2> QED BY <1>2, <2>1, LoadKeeps, DownloadKeeps, EndOfLoadKeeps
<1>3. CASE \E m \in Upstream : ServerPulls(m)
  BY <1>3, ServerPullsKeeps
<1>4. CASE \E m \in Files : ServerPrunes(m)
  BY <1>4, ServerPrunesKeeps
<1>5. CASE UNCHANGED offlineVars
  BY <1>5, StutterKeeps
<1> QED BY <1>1, <1>2, <1>3, <1>4, <1>5 DEF OfflineNext

-----------------------------------------------------------------------------
\* The invariant of the tools: preloads, prunes and pulls that may stop half way
\* (cmd/subcmd/prune.go, impl/preload, doPull of the server) keep it.
THEOREM OfflineInvariant == OfflineSpec => []OfflineInv
<1>1. OfflineInit => OfflineInv
  BY InitOffline
<1>2. OfflineInv /\ [OfflineNext]_offlineVars => OfflineInv'
  BY OfflineStep
<1> QED BY <1>1, <1>2, PTL DEF OfflineSpec

\* The directories hold files of digests, and what can be read holds a URL; a
\* prune only removes files and blobs that exist.
THEOREM OfflineTyped == OfflineSpec => []OfflineTypeOK
<1>1. OfflineInv => OfflineTypeOK
  BY DEF OfflineInv
<1> QED BY <1>1, OfflineInvariant, PTL

\* doPrune takes no blob from a manifest that stays, unless a file is in the
\* map of addImageManifests twice.
THEOREM OfflineSparesOthers == OfflineSpec => []PruneSparesOthers
<1>1. OfflineInv => PruneSparesOthers
  BY DEF OfflineInv
<1> QED BY <1>1, OfflineInvariant, PTL

\* When doPrune has removed the blobs, a manifest that stays lists each blob
\* that is left: nothing is leaked.
THEOREM OfflineNoOrphan == OfflineSpec => []NoOrphanLeft
<1>1. OfflineInv => NoOrphanLeft
  <2> SUFFICES ASSUME OfflineInv, DOMAIN matched # {}, unused = {}, NEW b \in blobFiles
               PROVE  \E m \in Files \ MatchedFiles : b \in BlobsOf(m.digest)
    BY DEF NoOrphanLeft
  <2> QED BY DEF OfflineInv, LeftIsUsed
<1> QED BY <1>1, OfflineInvariant, PTL

\* Blobs are written after the manifest file and removed before it: a preload, a
\* prune of the command line or a pull makes no blob an orphan, wherever it stops.
THEOREM OfflineOrphans == OfflineSpec => ToolsMakeNoOrphan
<1>1. OfflineInv /\ [OfflineNext]_offlineVars =>
        [(\E m \in Files : ServerPrunes(m)) \/ Orphans' \subseteq Orphans]_offlineVars
  BY OfflineStep
<1> QED BY <1>1, OfflineInvariant, PTL DEF OfflineSpec, ToolsMakeNoOrphan

\* decBlobCounts: a count becomes negative only when a file is in the map twice,
\* whatever a pattern or a date selects.
THEOREM OfflineNegative == OfflineSpec => []NegativeOnlyIfTwice
<1>1. OfflineInv => NegativeOnlyIfTwice
  <2> SUFFICES ASSUME OfflineInv, NEW selected \in SUBSET Files, Idle, NotLoading,
                      ~MatchedTwice(Matches(selected)), NEW b \in blobFiles
               PROVE  ~(Discount(Matches(selected), b) > Tally(b))
    BY DEF NegativeOnlyIfTwice, DecrementedNegative
  <2> DEFINE ms == Matches(selected)
  <2>1. OfflineTypeOK /\ Placed
    BY DEF OfflineInv
  <2>2. IsFiniteSet(DOMAIN ms) /\ \A k \in DOMAIN ms : ms[k] \in Files /\ ms[k] \in Manifests
    BY <2>1, MatchesTyped, FilesTyped
  <2> HIDE DEF ms
  <2>3. Discount(ms, b) <= Tally(b) /\ Discount(ms, b) \in Nat /\ Tally(b) \in Nat
    <3>1. Discount(ms, b) <= Tally(b)
      BY <2>1, <2>2, NotNegative DEF ms
    <3>2. Discount(ms, b) \in Nat
      BY <2>2, UsesFinite, FS_CardinalityType DEF Discount
    <3> QED BY <2>1, <3>1, <3>2, TallyTyped
  <2> QED BY <2>3 DEF ms
<1> QED BY <1>1, OfflineInvariant, PTL
=============================================================================
