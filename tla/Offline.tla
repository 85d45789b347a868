------------------------------ MODULE Offline -------------------------------
(***************************************************************************)
(* The life of the image files across tools: preloads and prunes from the  *)
(* command line, any of which may die half way, and in between a server    *)
(* that pulls and prunes images, reduced to what it may do to the files    *)
(* (ImageStore has what it does in detail).  They run one at a time, as    *)
(* the comment of Prune demands.                                           *)
(***************************************************************************)
EXTENDS CliPrune, Preload

offlineVars == <<disk, blobFiles, pruneVars, preloadVars>>

OfflineInit ==
  /\ disk = [dir \in Dirs |-> <<>>]
  /\ blobFiles = {}
  /\ PruneInit
  /\ PreloadInit

\* doPull of the server: the manifest file is replaced, or torn, and some of the
\* blobs or all of them are downloaded.
ServerPulls(m) ==
  /\ Idle /\ NotLoading
  /\ \/ disk' = FileTorn(m) /\ UNCHANGED blobFiles
     \/ /\ disk' = FileAdded(m)
        /\ \E some \in SUBSET BlobsOf(m.digest) : blobFiles' = blobFiles \cup some
  /\ UNCHANGED <<pruneVars, preloadVars>>

\* The server prunes a manifest, or replaces it: its file is removed, unless that
\* fails, and then those of its blobs that the counts and a crash do not keep.
ServerPrunes(m) ==
  /\ Idle /\ NotLoading
  /\ \E some \in SUBSET BlobsOf(m.digest) : blobFiles' = blobFiles \ some
  /\ disk' \in {disk, FileRemoved(disk, m)}
  /\ UNCHANGED <<pruneVars, preloadVars>>

OfflineNext ==
  \/ NotLoading /\ PruneNext /\ UNCHANGED preloadVars
  \/ Idle /\ PreloadNext /\ UNCHANGED pruneVars
  \/ \E m \in Upstream : ServerPulls(m)
  \/ \E m \in Files : ServerPrunes(m)

OfflineSpec == OfflineInit /\ [][OfflineNext]_offlineVars
-----------------------------------------------------------------------------
\* Type invariant.
OfflineTypeOK ==
  /\ DOMAIN disk = Dirs
  /\ \A dir \in Dirs : /\ DOMAIN disk[dir] \subseteq Digests
                       /\ \A d \in Readable(dir) : disk[dir][d] \in ImageUrls
  /\ blobFiles \subseteq Blobs
  /\ DOMAIN matched \subseteq ImageUrls
  /\ \A k \in DOMAIN matched : matched[k] \in Manifests
  /\ unused \subseteq blobFiles
  /\ loading = Nothing \/ loading \in [manifest : Manifests, written : BOOLEAN]
  /\ todo \subseteq Blobs
  /\ next \in Images \cup {NoDigest}

\* One file is in the map twice, under its own URL or that of a list, and under
\* the URL of a list.
MatchedTwice(ms) == \E k, l \in DOMAIN ms : k # l /\ ms[k] = ms[l]

MatchedFiles == {matched[k] : k \in DOMAIN matched}

\* doPrune: "A blob can be safely removed if it is not referenced by any image
\* manifest after all the manifest(s) in the passed map are removed."
PruneSparesEveryOther ==
  \A m \in Files \ MatchedFiles : BlobsOf(m.digest) \cap unused = {}

\* A prune takes no blob from a manifest that stays, unless a file is in its map
\* twice and is discounted twice.
PruneSparesOthers == MatchedTwice(matched) \/ PruneSparesEveryOther

\* Once a prune has removed the blobs, each blob that is left is used by a
\* manifest that stays.
NoOrphanLeft ==
  DOMAIN matched # {} /\ unused = {} =>
    blobFiles \subseteq UNION {BlobsOf(m.digest) : m \in Files \ MatchedFiles}

\* "decremented negative (should never happen)": whatever a prune that starts
\* selects, it does not, unless a file is in the map twice.
NegativeOnlyIfTwice == Idle /\ NotLoading =>
  \A selected \in SUBSET Files :
    DecrementedNegative(Matches(selected)) => MatchedTwice(Matches(selected))

\* The blobs that no manifest file lists: the server does not know of them.
Orphans == {b \in blobFiles : \A dir \in Dirs : \A d \in DOMAIN disk[dir] : b \notin BlobsOf(d)}

\* The order of the writes and of the removals: a preload, a prune of the command
\* line or a pull makes no blob an orphan, wherever it stops.
ToolsMakeNoOrphan ==
  [][(\E m \in Files : ServerPrunes(m)) \/ Orphans' \subseteq Orphans]_offlineVars

\* The parts of the inductive invariant that are not properties of their own.
Placed ==
  \A dir \in Dirs : \A d \in Readable(dir) : DirOf(disk[dir][d]) = dir

MatchedAreFiles ==
  \A k \in DOMAIN matched :
    matched[k] \in Files \/ matched[k].digest \notin DOMAIN disk[DirOf(matched[k].url)]

LeftIsUsed ==
  DOMAIN matched # {} =>
    \A b \in blobFiles \ unused : \E m \in Files \ MatchedFiles : b \in BlobsOf(m.digest)

TodoHasFile ==
  /\ todo # {} => /\ ~NotLoading
                  /\ todo \subseteq BlobsOf(loading.manifest.digest)
                  /\ loading.manifest.digest \in DOMAIN disk[DirOf(loading.manifest.url)]
  /\ next # NoDigest => ~NotLoading

\* Inductive: what is in the map is still on the disk or already gone, what is
\* left after the blobs are removed has a user, what is downloaded has a file.
OfflineInv ==
  /\ OfflineTypeOK /\ Placed
  /\ MatchedAreFiles /\ PruneSparesOthers /\ LeftIsUsed
  /\ TodoHasFile

\* LoadFromListFile: "If an image is already present in cache, it is skipped.
\* Otherwise the image is pulled": an entry that is loaded can be served.
LoadedIsComplete ==
  Loaded => LET m == loading.manifest IN
    m.digest \in Readable(DirOf(m.url)) /\ Complete(m.digest, blobFiles)
=============================================================================
