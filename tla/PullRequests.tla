---------------------------- MODULE PullRequests ----------------------------
(***************************************************************************)
(* The names of images (impl/pullrequest) and the way from a request on    *)
(* /v2/ to them: the routes of api/ociregistry.gen.go and the methods of   *)
(* impl/ociregistry.go behind them.                                        *)
(*                                                                         *)
(* A word is one part of a name: a host, a segment of a path, a tag or a   *)
(* digest.  It is abstracted to what the parser tells apart: its text in   *)
(* lower case, whether that has a period, whether it begins with sha256:,  *)
(* and whether it was spelled with capitals (in a digest, in that prefix). *)
(* A URL is the words it is put together from, and a remote has no slash.  *)
(* What may be absent or may fail is a set with at most one element.       *)
(***************************************************************************)
EXTENDS Naturals, Sequences

CONSTANTS
  DockerIo, Library, LatestTag,  \* the words docker.io, library and latest
  DigestOf     \* the digest, as a word, of what a tag, by its text, stands for

WordType == [text : STRING, dotted : BOOLEAN, sha : BOOLEAN, capitals : BOOLEAN]

\* The references whose image there is a digest for, as clients may spell them.
Refs == {w \in WordType : w.sha \/ w.text \in DOMAIN DigestOf}
UrlType == [remote : WordType, repo : Seq(WordType), ref : Refs]

ASSUME WordsAssumption ==
  /\ {DockerIo, Library, LatestTag} \subseteq {w \in WordType : ~w.capitals}
  /\ DockerIo.dotted
  /\ \A t \in DOMAIN DigestOf :
       DigestOf[t] \in WordType /\ DigestOf[t].sha /\ ~DigestOf[t].capitals

\* strings.ToLower
Lower(w) == [w EXCEPT !.capitals = FALSE]
LowerAll(words) == [i \in DOMAIN words |-> Lower(words[i])]

\* typeFromRef: the prefix is looked for as it is spelled in lower case.
ByDigest(ref) == ref.sha /\ ~ref.capitals

\* A pull request, and the URL it is formatted to; the separator of the URL
\* follows from the reference.
Request(remote, repo, ref) ==
  [remote |-> remote, repo |-> repo, ref |-> Lower(ref), byDigest |-> ByDigest(ref)]
Named(remote, repo, ref) == [remote |-> remote, repo |-> repo, ref |-> ref]

\* NewPullRequestFromUrl: lower case throughout, and the remote has a period.
FromUrl(url) ==
  IF url.remote.dotted /\ url.repo # <<>>
  THEN {Request(Lower(url.remote), LowerAll(url.repo), url.ref)}
  ELSE {}

\* Where NewPullRequest takes the remote from, the first that there is: the
\* header X-Registry, the parameter ns, a first segment with a period, the
\* default namespace.  Only the third leaves a segment less for the repository.
Remotes(hdr, ns, defaultNs, segments) ==
  IF hdr # {} THEN hdr
  ELSE IF ns # {} THEN ns
  ELSE IF segments[1].dotted THEN {segments[1]}
  ELSE defaultNs
Repository(hdr, ns, segments) ==
  IF hdr = {} /\ ns = {} /\ segments[1].dotted THEN Tail(segments) ELSE segments
\* No remote, no repository, or a repository that begins with a namespace of its
\* own, is an error.  Only the reference is lowered.
NewPullRequest(hdr, ns, defaultNs, ref, segments) ==
  LET repo == Repository(hdr, ns, segments) IN
  {Request(r, repo, ref) :
     r \in {s \in Remotes(hdr, ns, defaultNs, segments) : repo # <<>> /\ ~repo[1].dotted}}

Url(pr) == Named(pr.remote, pr.repo, pr.ref)
UrlWithDigest(pr, digest) == Named(pr.remote, pr.repo, digest)
AltDockerUrl(pr) ==
  IF pr.remote # DockerIo THEN {}
  ELSE IF Len(pr.repo) > 1 /\ pr.repo[1] = Library
       THEN {Named(pr.remote, Tail(pr.repo), pr.ref)}
       ELSE {Named(pr.remote, <<Library>> \o pr.repo, pr.ref)}
IsLatest(pr) == Lower(pr.ref) = LatestTag

-----------------------------------------------------------------------------
\* The routes that RegisterHandlersWithBaseURL gives to manifests and blobs: 1 to
\* 4 segments each, any other number has none.  GET of both and HEAD of a manifest
\* have a method behind them; the other methods refuse.
Implemented == [manifests |-> {"GET", "HEAD"}, blobs |-> {"GET"}]
RouteOf(verb, kind, segments) ==
  IF Len(segments) \notin 1..4 THEN "notFound"
  ELSE IF verb \in Implemented[kind] THEN kind
  ELSE "notAllowed"
=============================================================================
