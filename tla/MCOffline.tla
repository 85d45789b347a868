----------------------------- MODULE MCOffline ------------------------------
(* A small instance of Offline for TLC. *)
EXTENDS Offline, TLC

CONSTANTS x, y, v1, lts, l1, l2, i1, i2, c1, c2, base

Url(r, t) == [repo |-> r, ref |-> t]
M(r, t, d) == [url |-> Url(r, t), digest |-> d]

\* Two images, each with a configuration of its own over one base layer.
TwoImages == i1 :> <<c1, base>> @@ i2 :> <<c2, base>> @@ l1 :> <<>> @@ l2 :> <<>>
NameOrder == l1 :> 1 @@ i1 :> 2 @@ l2 :> 3 @@ i2 :> 4

\* Two lists, of two repositories, that have the image of the platform in common.
ListMembers == l1 :> {i1} @@ l2 :> {i1, i2}
ListPlatform == l1 :> i1 @@ l2 :> i1

\* The tag latest of x and y is a list; y's moves to an image; x's image also has a fixed tag.
Answered ==
  {M(x, lts, l1), M(y, lts, l2), M(y, lts, i2), M(x, v1, l1), M(x, i1, i1), M(y, v1, i2)}
Tarballs == {M(x, v1, i1), M(y, lts, i2)}
=============================================================================
