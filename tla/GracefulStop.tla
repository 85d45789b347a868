---------------------------- MODULE GracefulStop ----------------------------
(***************************************************************************)
(* What function Serve of cmd/subcmd/serve.go does about the end of the    *)
(* server, without its listener, channels and timers: nothing is taken     *)
(* before the cache is loaded; a server that serves ends by a stop only;   *)
(* a patient stop leaves nothing in hand; and no stop cuts off what the    *)
(* last look found to be due, or a pass of the pruner.  For pulls that is  *)
(* more than the comment of WaitPulls says, which has it return after a    *)
(* minute (cache.go:208); the code logs an error and goes on waiting.      *)
(* Lifecycle implements it.                                                *)
(***************************************************************************)
CONSTANT Work  \* requests and commands that the server may have in hand

VARIABLES
  phase,    \* starting, loaded, open, closing, leaving, stopped or failed
  inHand,   \* the work that was taken and is not finished
  due,      \* the part of it whose end the server still waits for
  pass,     \* the pruner is deleting files
  patient   \* all that is in hand is waited for

stopVars == <<phase, inHand, due, pass, patient>>

Running == phase \notin {"stopped", "failed"}

StopInit ==
  /\ phase = "starting"
  /\ inHand = {} /\ due = {}
  /\ pass = FALSE
  /\ patient \in BOOLEAN

PhaseGoes(from, to) == phase \in from /\ phase' = to

Loads == PhaseGoes({"starting"}, "loaded") /\ UNCHANGED <<inHand, due, pass, patient>>
Opens == PhaseGoes({"loaded"}, "open") /\ UNCHANGED <<inHand, due, pass, patient>>
Fails == PhaseGoes({"starting", "loaded"}, "failed") /\ UNCHANGED <<inHand, due, pass, patient>>
Closes == PhaseGoes({"open"}, "closing") /\ UNCHANGED <<inHand, due, pass, patient>>

\* Only an impatient stop lets work in while it closes.
Takes(w) ==
  /\ phase \in {"loaded", "open"} \/ (phase \in {"closing", "leaving"} /\ ~patient)
  /\ inHand' = inHand \cup {w}
  /\ UNCHANGED <<phase, due, pass, patient>>
Finishes(w) ==
  /\ Running /\ w \in inHand \ due
  /\ inHand' = inHand \ {w}
  /\ UNCHANGED <<phase, due, pass, patient>>
\* What was due of w has happened; it is still in hand.
Settles(w) ==
  /\ Running /\ w \in due
  /\ due' = due \ {w}
  /\ UNCHANGED <<phase, inHand, pass, patient>>

PassBegins ==
  /\ Running /\ phase # "leaving" /\ ~pass
  /\ pass' = TRUE /\ UNCHANGED <<phase, inHand, due, patient>>
PassEnds == Running /\ pass /\ pass' = FALSE /\ UNCHANGED <<phase, inHand, due, patient>>

LosesPatience ==
  /\ phase = "closing" /\ patient
  /\ patient' = FALSE /\ UNCHANGED <<phase, inHand, due, pass>>

\* The last look: from here on only what is due is waited for.
Leaves ==
  /\ PhaseGoes({"closing"}, "leaving")
  /\ patient => inHand = {}
  /\ ~pass
  /\ due' \in SUBSET inHand
  /\ UNCHANGED <<inHand, pass, patient>>
Stops ==
  /\ PhaseGoes({"leaving"}, "stopped")
  /\ due = {}
  /\ UNCHANGED <<inHand, due, pass, patient>>

StopNext ==
  \/ Loads \/ Opens \/ Fails \/ Closes \/ LosesPatience \/ Leaves \/ Stops
  \/ \E w \in Work : Takes(w) \/ Finishes(w) \/ Settles(w)
  \/ PassBegins \/ PassEnds

StopSpec == StopInit /\ [][StopNext]_stopVars
=============================================================================
