---------------------------- MODULE SingleFlight ----------------------------
(***************************************************************************)
(* What GetManifest of impl/cache/cache.go promises its callers about      *)
(* concurrent pulls, with no map, channel or mutex in sight: for each URL  *)
(* one call leads and the others follow, and the leader is not finished    *)
(* before it has released every follower.  PullQueue implements it.        *)
(***************************************************************************)
CONSTANTS Calls, Urls, MayTimeOut

VARIABLES
  role,   \* what each call is to its URL
  url     \* the URL each call asks for

flightVars == <<role, url>>

Roles == {"out", "asking", "leader", "announcing", "follower", "released"}

Leads(c) == role[c] \in {"leader", "announcing"}
Become(c, r) == role' = [role EXCEPT ![c] = r] /\ UNCHANGED url

FlightInit ==
  /\ role = [c \in Calls |-> "out"]
  /\ url \in [Calls -> Urls]

Ask(c, u) ==
  /\ role[c] = "out"
  /\ role' = [role EXCEPT ![c] = "asking"]
  /\ url' = [url EXCEPT ![c] = u]

Lead(c) ==
  /\ role[c] = "asking"
  /\ \A p \in Calls : Leads(p) => url[p] # url[c]
  /\ Become(c, "leader")

Follow(c) ==
  /\ role[c] = "asking"
  /\ \E p \in Calls : Leads(p) /\ url[p] = url[c]
  /\ Become(c, "follower")

Announce(p) == role[p] = "leader" /\ Become(p, "announcing")

Release(p, c) ==
  /\ role[p] = "announcing"
  /\ role[c] = "follower"
  /\ url[p] = url[c]
  /\ Become(c, "released")

\* The promise: nobody is left behind.
Finish(p) ==
  /\ role[p] = "announcing"
  /\ \A c \in Calls : role[c] = "follower" => url[c] # url[p]
  /\ Become(p, "out")

GiveUp(c) == c \in MayTimeOut /\ role[c] = "follower" /\ Become(c, "out")

Return(c) == role[c] = "released" /\ Become(c, "out")

Crash == role' = [c \in Calls |-> "out"] /\ UNCHANGED url

FlightNext ==
  \/ \E c \in Calls, u \in Urls : Ask(c, u)
  \/ \E c \in Calls : Lead(c) \/ Follow(c) \/ Announce(c) \/ Finish(c)
                      \/ GiveUp(c) \/ Return(c)
  \/ \E p, c \in Calls : Release(p, c)
  \/ Crash

FlightSpec == FlightInit /\ [][FlightNext]_flightVars

\* The progress a caller may count on while nobody gives up.
FlightFairness ==
  \A c \in Calls :
    /\ WF_flightVars(Lead(c) \/ Follow(c))
    /\ WF_flightVars(Announce(c))
    /\ WF_flightVars(\E p \in Calls : Release(p, c))
    /\ WF_flightVars(Finish(c))
    /\ WF_flightVars(Return(c))

FairFlightSpec == FlightSpec /\ FlightFairness
=============================================================================
