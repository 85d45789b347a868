----------------------------- MODULE MCRegistry -----------------------------
(* Small instances of Registry for TLC. *)
EXTENDS Registry, TLC

CONSTANTS hub, library, d1, d2, b1, b2, b3, v1, lts

\* Two images that share a blob.
SharedLayers == d1 :> <<b1, b2>> @@ d2 :> <<b2, b3>>

\* The lexical order of the two file names.
NameOrder == d1 :> 1 @@ d2 :> 2

\* docker.io/x and docker.io/library/x; any other repository has one spelling.
DockerAlt ==
  [r \in Repos |-> CASE r = hub /\ library \in Repos -> library
                    [] r = library -> hub
                    [] OTHER -> NoRepo]

Url(r, x) == [repo |-> r, ref |-> x]

\* A fixed tag, the tag latest, and one of their digests.
TagsAndDigest == {Url(hub, v1), Url(hub, lts), Url(hub, d1)}

\* One image there from the start.
V1Preloaded == {[url |-> Url(hub, v1), digest |-> d1]}
LatestPreloaded == {[url |-> Url(hub, lts), digest |-> d1]}

\* Requests and pruners are interchangeable: every call may ask for every URL.
Symmetry == Permutations(Calls) \cup Permutations(Pruners)
=============================================================================
