------------------------------ MODULE Preload -------------------------------
(***************************************************************************)
(* The preload (impl/preload): before the server starts, it pulls the      *)
(* images of a list, or copies those of a tarball, to the image files.     *)
(* For an entry of a list that turns out to be an image list, the image of *)
(* the configured platform is loaded as well.                              *)
(*                                                                         *)
(* Each manifest file and each blob file that is written is one step: the  *)
(* process may die between them, or while it writes.                       *)
(***************************************************************************)
EXTENDS ImageFiles

CONSTANTS
  Upstream,       \* what the upstream may answer: URL and digest
  Tarred,         \* the manifests in tarballs
  PlatformImage,  \* mh.GetImageDigestFor(os, arch), for each image list
  NoDigest

ASSUME PreloadAssumption ==
  /\ Upstream \subseteq Manifests /\ Tarred \subseteq Manifests
  /\ \A m \in Upstream : m.url.ref \in Digests => m.url.ref = m.digest
  /\ PlatformImage \in [Digests \ Images -> Images]
  /\ NoDigest \notin Digests

VARIABLES
  loading,  \* the manifest being stored, and whether it was written anew, or Nothing
  todo,     \* its blobs that are still to be downloaded
  next      \* the image of the list just stored that is still to be loaded, or NoDigest

preloadVars == <<loading, todo, next>>

Nothing == [idle |-> TRUE]
NotLoading == loading = Nothing
PreloadInit == loading = Nothing /\ todo = {} /\ next = NoDigest

-----------------------------------------------------------------------------
\* getFromCacheOrRemote: unless MhFromFilesystem finds the digest that is asked
\* for, the upstream's answer d is stored, with its blobs.  MhToFilesystem with
\* replace = false leaves a file of that name as it is.
Store(u, asked, d) ==
  LET m == [url |-> u, digest |-> d]
      new == d \notin DOMAIN disk[DirOf(u)]
  IN
  /\ loading' = [manifest |-> m, written |-> new]
  /\ todo' = IF asked \in Readable(DirOf(u)) THEN {} ELSE BlobsOf(d)
  /\ disk' = IF new THEN FileAdded(m) ELSE disk
  /\ UNCHANGED blobFiles

\* doPull of an entry of the list.  HEAD answers m.  An image is then pulled by
\* that digest; for an image list that is not there yet GET may answer another n.
LoadEntry(u) ==
  /\ NotLoading
  /\ \E m, n \in {o \in Upstream : o.url = u} :
       /\ m.digest \in Images \cup Readable(DirOf(u)) => n = m
       /\ Store(u, m.digest, n.digest)
       /\ next' = IF n.digest \in Images THEN NoDigest ELSE PlatformImage[n.digest]

\* The image of the list, by the list's URL, or by its own digest if the list
\* was asked for by digest.
LoadImageOfList ==
  /\ next # NoDigest /\ todo = {}
  /\ LET u == loading.manifest.url IN Store(IF ByTag(u) THEN u ELSE WithDigest(u, next), next, next)
  /\ next' = NoDigest

\* LoadTarball: one manifest of it.
LoadFromTarball(m) ==
  /\ NotLoading
  /\ Store(m.url, m.digest, m.digest)
  /\ next' = NoDigest

\* PullBlobs, or SaveBlobs: one blob of it.
Download(b) ==
  /\ b \in todo
  /\ todo' = todo \ {b}
  /\ blobFiles' = blobFiles \cup {b}
  /\ UNCHANGED <<disk, loading, next>>

\* The entry is loaded.
Loaded == ~NotLoading /\ todo = {} /\ next = NoDigest
EndEntry ==
  /\ Loaded
  /\ loading' = Nothing
  /\ UNCHANGED <<disk, blobFiles, todo, next>>

\* The process dies, or the upstream or a write fails: between two files, or
\* with the manifest file only written in part.
PreloadStops ==
  /\ ~NotLoading
  /\ \/ UNCHANGED disk
     \/ /\ loading.written /\ todo = BlobsOf(loading.manifest.digest)
        /\ disk' = FileTorn(loading.manifest)
  /\ loading' = Nothing /\ todo' = {} /\ next' = NoDigest
  /\ UNCHANGED blobFiles

PreloadNext ==
  \/ \E u \in ImageUrls : LoadEntry(u)
  \/ LoadImageOfList
  \/ \E m \in Tarred : LoadFromTarball(m)
  \/ \E b \in todo : Download(b)
  \/ EndEntry
  \/ PreloadStops
=============================================================================
