------------------------------ MODULE CliPrune ------------------------------
(***************************************************************************)
(* The prune of the command line (cmd/subcmd/prune.go), run on the image   *)
(* files while no server runs.  It walks the cache for the manifests that  *)
(* match, adds the images of the image lists among them, counts for each   *)
(* blob the manifests that use it, takes those that match off, and then    *)
(* removes first the blobs whose count is 0 and then the manifests.        *)
(*                                                                         *)
(* What it reads and computes is one step, the removals are one step each: *)
(* the process may die between them.                                       *)
(***************************************************************************)
EXTENDS ImageFiles

CONSTANT Members  \* mh.ImageManifestDigests(): the images of each image list

ASSUME MembersAssumption == Members \in [Digests \ Images -> SUBSET Images]

VARIABLES
  matched,  \* matches: URL -> manifest that is still to be removed
  unused    \* the blobs of count 0 that are still to be removed

pruneVars == <<matched, unused>>

Idle == DOMAIN matched = {} /\ unused = {}
PruneInit == matched = <<>> /\ unused = {}

\* The manifests on the file system.  The directory of a file follows from the
\* URL in it, so no two files hold the same manifest.
Files == UNION {{[url |-> disk[dir][d], digest |-> d] : d \in Readable(dir)} : dir \in Dirs}

-----------------------------------------------------------------------------
\* matches is keyed by URL: of the selected files that hold the same URL, only
\* the one that is walked last is in it.
Direct(selected) ==
  [u \in {m.url : m \in selected} |->
     CHOOSE m \in selected :
       m.url = u /\ \A n \in selected : n.url = u => WalkOrder[n.digest] <= WalkOrder[m.digest]]

\* addImageManifests: the images of each list, under the list's URL with their
\* digest, if directory lts has them.
OfLists(ms) ==
  LET Here(u) == IF ms[u].digest \in Images THEN {} ELSE Members[ms[u].digest]
      keys == UNION {{WithDigest(u, i) : i \in Here(u) \cap Readable("lts")} : u \in DOMAIN ms}
  IN  [k \in keys \ DOMAIN ms |-> [url |-> disk["lts"][k.ref], digest |-> k.ref]]

Matches(selected) ==
  LET ms == Direct(selected)
      more == OfLists(ms)
  IN  [k \in DOMAIN ms \cup DOMAIN more |-> IF k \in DOMAIN ms THEN ms[k] ELSE more[k]]

\* Each place where a manifest of the map ms lists blob b.
Uses(ms, b) ==
  UNION {{<<k, i>> : i \in {j \in DOMAIN Layers[ms[k].digest] : Layers[ms[k].digest][j] = b}} :
            k \in DOMAIN ms}

\* A slip: only the manifests of directory img are counted.
TallyOfImg(b) == Cardinality(Uses([m \in {f \in Files : ~IsLatest(f.url)} |-> m], b))

\* tallyBlobCount and decBlobCounts
Tally(b) == Cardinality(Uses([m \in Files |-> m], b))
Discount(ms, b) == Cardinality(Uses(ms, b))

\* The errors of decBlobCounts, in whatever order it takes the manifests.
BlobNotFound(ms) == \E k \in DOMAIN ms : ~Complete(ms[k].digest, blobFiles)
DecrementedNegative(ms) == \E b \in blobFiles : Discount(ms, b) > Tally(b)

\* A slip: the images of the lists are added after the counts are taken off.
SelectMatchesLate(selected) ==
  LET ms == Direct(selected) IN
  /\ Idle
  /\ ~WalkFails
  /\ ~BlobNotFound(ms) /\ ~DecrementedNegative(ms)
  /\ matched' = Matches(selected)
  /\ unused' = {b \in blobFiles : Tally(b) = Discount(ms, b)}
  /\ UNCHANGED <<disk, blobFiles>>

\* A pattern selects by URL and a date by the creation time: any selection.
\* An unreadable file, or an error above, ends the prune before it removes anything.
SelectMatches(selected) ==
  LET ms == Matches(selected) IN
  /\ Idle
  /\ ~WalkFails
  /\ ~BlobNotFound(ms) /\ ~DecrementedNegative(ms)
  /\ matched' = ms
  /\ unused' = {b \in blobFiles : Tally(b) = Discount(ms, b)}
  /\ UNCHANGED <<disk, blobFiles>>

\* RmBlob
RemoveBlob(b) ==
  /\ b \in unused
  /\ unused' = unused \ {b}
  /\ blobFiles' = blobFiles \ {b}
  /\ UNCHANGED <<matched, disk>>

\* A slip: manifests are removed while there still are blobs to remove.
RemoveManifestEarly(k) ==
  /\ k \in DOMAIN matched
  /\ matched' = Without(matched, {k})
  /\ disk' = FileRemoved(disk, matched[k])
  /\ UNCHANGED <<unused, blobFiles>>

\* RmManifest, when all blobs are gone.
RemoveManifest(k) ==
  /\ unused = {}
  /\ k \in DOMAIN matched
  /\ matched' = Without(matched, {k})
  /\ disk' = FileRemoved(disk, matched[k])
  /\ UNCHANGED <<unused, blobFiles>>

\* A removal fails, or the process dies.
PruneStops ==
  /\ ~Idle
  /\ matched' = <<>> /\ unused' = {}
  /\ UNCHANGED <<disk, blobFiles>>

PruneNext ==
  \/ \E selected \in SUBSET Files : SelectMatches(selected)
  \/ \E b \in unused : RemoveBlob(b)
  \/ \E k \in DOMAIN matched : RemoveManifest(k)
  \/ PruneStops
=============================================================================
