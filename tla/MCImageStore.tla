---------------------------- MODULE MCImageStore ----------------------------
(* Small instances of ImageStore for TLC. *)
EXTENDS ImageStore, TLC

CONSTANTS hub, library, d1, d2, b1, b2, v1, v2, lts

\* Two images that share a blob; the first lists one of its own twice.
SharedLayers == d1 :> <<b1, b2, b1>> @@ d2 :> <<b2>>

\* The lexical order of the two file names.
NameOrder == d1 :> 1 @@ d2 :> 2

\* docker.io/x and docker.io/library/x; any other repository has one spelling.
DockerAlt ==
  [r \in Repos |-> CASE r = hub /\ library \in Repos -> library
                    [] r = library -> hub
                    [] OTHER -> NoRepo]

\* Each of the two spellings is the other one's twin.
Spellings == Permutations(Repos)
=============================================================================
