----------------------------- MODULE ImageFiles -----------------------------
(***************************************************************************)
(* The images on the file system (impl/serialize) and the names they have  *)
(* (impl/pullrequest): what the server, the preload and the command line   *)
(* prune share.                                                            *)
(*                                                                         *)
(* A manifest is abstracted to its URL and digest, digests to model        *)
(* values, and what a manifest lists to the constant Layers.               *)
(* Every URL reads back as itself: its remote has a period and its         *)
(* repository is in lower case.  Of any other NewPullRequestFromUrl makes  *)
(* an error or another name, and then rmManifest (prune.go:264-268) and    *)
(* Load do less than here; module Front has the names of that kind.        *)
(***************************************************************************)
EXTENDS Integers, Sequences, FiniteSets, FiniteSetsExt

CONSTANTS
  Repos,      \* remote and repository, as in docker.io/library/alpine, that read back as themselves
  Tags,
  Latest,     \* the tag "latest"
  Digests,
  Images,     \* digests of image manifests; the others are image lists
  Blobs,
  Layers,     \* mh.Layers(): the blobs of an image, with repetitions
  WalkOrder   \* the position of each digest in the lexical order of file names

ASSUME FilesAssumption ==
  /\ IsFiniteSet(Digests)
  /\ Latest \in Tags
  /\ Tags \cap Digests = {}
  /\ Images \subseteq Digests
  /\ Layers \in [Digests -> Seq(Blobs)]
  /\ \A d \in Digests \ Images : Layers[d] = <<>>
  /\ WalkOrder \in [Digests -> 1..Cardinality(Digests)]
  /\ \A d, e \in Digests : WalkOrder[d] = WalkOrder[e] => d = e

VARIABLES
  disk,       \* directories lts and img: file name (digest) -> manifest URL in it
  blobFiles   \* directory blobs

ImageUrls == [repo : Repos, ref : Tags \cup Digests]
Manifests == [url : ImageUrls, digest : Digests]
Dirs == {"lts", "img"}

IsLatest(u) == u.ref = Latest
ByTag(u) == u.ref \in Tags
WithDigest(u, d) == [u EXCEPT !.ref = d]
DirOf(u) == IF IsLatest(u) THEN "lts" ELSE "img"

\* What a crash or a full disk leaves of a manifest file it cuts short: no JSON.
Torn == [cut |-> TRUE]

\* Functions as maps.
Put(f, k, v) == [x \in DOMAIN f \cup {k} |-> IF x = k THEN v ELSE f[x]]
Without(f, ks) == [x \in DOMAIN f \ ks |-> f[x]]

\* A slip: the directory lts is not used.
FileAddedToImg(m) == [disk EXCEPT !["img"] = Put(@, m.digest, m.url)]
\* MhToFilesystem with replace = true
FileAdded(m) == [disk EXCEPT ![DirOf(m.url)] = Put(@, m.digest, m.url)]
FileTorn(m) == [disk EXCEPT ![DirOf(m.url)] = Put(@, m.digest, Torn)]
\* RmManifest, from the files dirs
FileRemoved(dirs, m) == [dirs EXCEPT ![DirOf(m.url)] = Without(@, {m.digest})]

\* The files of dir that hold a manifest; MhFromFilesystem finds no other.
Readable(dir) == {d \in DOMAIN disk[dir] : disk[dir][d] # Torn}
\* WalkTheCache visits lts, then img, each in the order of the file names, and
\* ends with an error at the first file it cannot read.
WalkFails == \E dir \in Dirs : Readable(dir) # DOMAIN disk[dir]
Walked(dir) ==
  {d \in Readable(dir) :
     /\ \A e \in DOMAIN disk[dir] \ Readable(dir) : WalkOrder[d] < WalkOrder[e]
     /\ dir = "img" => Readable("lts") = DOMAIN disk["lts"]}

BlobsOf(d) == {Layers[d][i] : i \in DOMAIN Layers[d]}
\* How often blob b is among the first n layers of d.
Occurs(d, n, b) == Cardinality({i \in 1..n : Layers[d][i] = b})
\* Every blob that d lists has a file.
Complete(d, files) == BlobsOf(d) \subseteq files
=============================================================================
