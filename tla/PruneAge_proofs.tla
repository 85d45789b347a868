--------------------------- MODULE PruneAge_proofs ---------------------------
(***************************************************************************)
(* The safety properties of module PruneAge, for any tags, any number of   *)
(* prune commands and any parameters.                                      *)
(***************************************************************************)
EXTENDS PruneAge, TLAPS

ManifestSet == [url : Keys, pulled : Nat]
Plain == Tags \ {Latest}

\* What the proofs need to know of the types.
Typed ==
  /\ now \in Nat
  /\ setting \in Settings
  /\ manifests \in [Keys -> ManifestSet \cup {NoEntry}]
  /\ latest \in [Keys -> ManifestSet \cup {NoEntry}]
  /\ img \in ManifestSet \cup {NoEntry}
  /\ lts \in ManifestSet \cup {NoEntry}
  /\ cutoff \in Int
  /\ state \in [Pruners -> {"idle", "called", "pruning"}]
  /\ ask \in [Callers -> Params \cup {NoParams}]
  /\ toPrune \in [Pruners -> SUBSET Keys]
  /\ lastUse \in [Tags -> Nat]
  /\ lost \subseteq Callers /\ alone \subseteq Callers
  /\ state[Background] # "called"

\* The entries of tags are in their map and hold manifests with that tag, the
\* files are in their directories, and copies are paired.
EntriesPlaced ==
  /\ manifests[Latest] = NoEntry
  /\ \A t \in Plain : latest[t] = NoEntry /\ (manifests[t] # NoEntry => manifests[t].url = t)
  /\ \A k \in {Latest, Dg} : latest[k] # NoEntry => latest[k].url = Latest
  /\ img # NoEntry => img.url # Latest
  /\ lts # NoEntry => lts.url = Latest
  /\ OrphanIsCopyOfLatest

\* A use is never later than what is kept of it, in the file and in the entry,
\* but for the entry of latest where latest is always pulled.
UseIsRecorded ==
  /\ \A t \in Tags : lastUse[t] <= now
  /\ \A t \in Plain : manifests[t] # NoEntry => lastUse[t] <= manifests[t].pulled
  /\ \A t \in Plain : img # NoEntry => lastUse[t] <= img.pulled
  /\ ~setting.alwaysPullLatest /\ latest[Latest] # NoEntry => lastUse[Latest] <= latest[Latest].pulled
  /\ lts # NoEntry => lastUse[Latest] <= lts.pulled

\* A call that no other has overlapped has the logger.
LoneHasLogger ==
  /\ \A c \in Callers : state[c] = "idle" => c \in alone
  /\ \A c \in alone : state[c] # "idle" =>
       logTo = c /\ \A d \in Callers \ {c} : state[d] = "idle"
  /\ LoneReplyIsComplete

\* The inductive invariant.
PruneAgeInv == Typed /\ EntriesPlaced /\ UseIsRecorded /\ LoneHasLogger
-----------------------------------------------------------------------------
\* The initial states satisfy the inductive invariant.
LEMMA PruneAgeInitInv == Init => PruneAgeInv
<1> SUFFICES ASSUME Init PROVE PruneAgeInv
  OBVIOUS
<1> USE PruneAgeAssumption
<1>1. Typed
  <2>1. /\ img \in ManifestSet \cup {NoEntry} /\ lts \in ManifestSet \cup {NoEntry}
        /\ \A t \in 0..StartTime : t \in Nat
    BY DEF Init, ManifestSet, Record, Keys
  <2>2. /\ manifests \in [Keys -> ManifestSet \cup {NoEntry}]
        /\ latest \in [Keys -> ManifestSet \cup {NoEntry}]
    BY <2>1 DEF Init, Loaded, Added, Nothing
  <2>3. lastUse \in [Tags -> Nat]
    BY <2>2 DEF Init, Primary, Cached, Entry, Keys, ManifestSet
  <2> QED
    BY <2>1, <2>2, <2>3 DEF Init, Typed, Cutoff, Keys, Pruners
<1>2. EntriesPlaced
  BY <1>1 DEF Typed, Init, EntriesPlaced, OrphanIsCopyOfLatest, Loaded, Added, Nothing, Record, Keys, Plain, ManifestSet
<1>3. UseIsRecorded
  BY <1>1, <1>2 DEF Typed, Init, EntriesPlaced, UseIsRecorded, Primary, Cached, Entry, Loaded, Added, Nothing, Record, Keys, ManifestSet, Plain
<1>4. LoneHasLogger
  BY DEF Init, LoneHasLogger, LoneReplyIsComplete, Pruners
<1> QED
  BY <1>1, <1>2, <1>3, <1>4 DEF PruneAgeInv

\* Every step keeps the inductive invariant.
LEMMA PruneAgeStepInv == PruneAgeInv /\ [Next]_vars => PruneAgeInv'
<1> SUFFICES ASSUME PruneAgeInv, [Next]_vars PROVE PruneAgeInv'
  OBVIOUS
<1>0. Typed /\ EntriesPlaced /\ UseIsRecorded /\ LoneHasLogger
  BY DEF PruneAgeInv
<1> USE PruneAgeAssumption DEF imageVars, prunerVars, logVars
<1>1. ASSUME Tick PROVE PruneAgeInv'
  <2>1. Typed'
    BY <1>0, <1>1 DEF Tick, Typed, ManifestSet, Keys, Pruners
  <2>2. EntriesPlaced'
    BY <1>0, <1>1 DEF Tick, Typed, EntriesPlaced, OrphanIsCopyOfLatest, ManifestSet, Keys, Plain
  <2>3. UseIsRecorded'
    BY <1>0, <1>1 DEF Tick, Typed, EntriesPlaced, UseIsRecorded, ManifestSet, Keys, Plain
  <2>4. LoneHasLogger'
    BY <1>0, <1>1 DEF Tick, Typed, LoneHasLogger, LoneReplyIsComplete, Pruners
  <2> QED
    BY <2>1, <2>2, <2>3, <2>4 DEF PruneAgeInv
<1>2. ASSUME Restart PROVE PruneAgeInv'
  <2>1. Typed'
    BY <1>0, <1>2 DEF Restart, Loaded, Added, Nothing, Cutoff, Typed, ManifestSet, Keys, Pruners
  <2>2. EntriesPlaced'
    BY <1>0, <1>2 DEF Restart, Loaded, Added, Nothing, Cutoff, Typed, EntriesPlaced, OrphanIsCopyOfLatest, ManifestSet, Keys, Plain
  <2>3. UseIsRecorded'
    BY <1>0, <1>2 DEF Restart, Loaded, Added, Nothing, Cutoff, Typed, EntriesPlaced, UseIsRecorded, ManifestSet, Keys, Plain
  <2>4. LoneHasLogger'
    BY <1>0, <1>2 DEF Restart, Loaded, Added, Nothing, Cutoff, Typed, LoneHasLogger, LoneReplyIsComplete, Pruners
  <2> QED
    BY <2>1, <2>2, <2>3, <2>4 DEF PruneAgeInv
<1>3. ASSUME PassBegins PROVE PruneAgeInv'
  <2>1. Typed'
    BY <1>0, <1>3 DEF PassBegins, Select, Primary, Typed, ManifestSet, Keys, Pruners
  <2>2. EntriesPlaced'
    BY <1>0, <1>3 DEF PassBegins, Typed, EntriesPlaced, OrphanIsCopyOfLatest, ManifestSet, Keys, Plain
  <2>3. UseIsRecorded'
    BY <1>0, <1>3 DEF PassBegins, Typed, EntriesPlaced, UseIsRecorded, ManifestSet, Keys, Plain
  <2>4. LoneHasLogger'
    BY <1>0, <1>3 DEF PassBegins, Select, Primary, Typed, LoneHasLogger, LoneReplyIsComplete, Pruners
  <2> QED
    BY <2>1, <2>2, <2>3, <2>4 DEF PruneAgeInv
<1>4. ASSUME PassEnds PROVE PruneAgeInv'
  <2>1. Typed'
    BY <1>0, <1>4 DEF PassEnds, Typed, ManifestSet, Keys, Pruners
  <2>2. EntriesPlaced'
    BY <1>0, <1>4 DEF PassEnds, Typed, EntriesPlaced, OrphanIsCopyOfLatest, ManifestSet, Keys, Plain
  <2>3. UseIsRecorded'
    BY <1>0, <1>4 DEF PassEnds, Typed, EntriesPlaced, UseIsRecorded, ManifestSet, Keys, Plain
  <2>4. LoneHasLogger'
    BY <1>0, <1>4 DEF PassEnds, Typed, LoneHasLogger, LoneReplyIsComplete, Pruners
  <2> QED
    BY <2>1, <2>2, <2>3, <2>4 DEF PruneAgeInv
<1>5. ASSUME NEW p \in Pruners, NEW u \in Keys, PruneOne(p, u) PROVE PruneAgeInv'
  <2>1. Typed'
    BY <1>0, <1>5 DEF PruneOne, Removes, Without, KeysGone, Typed, ManifestSet, Keys, Pruners
  <2>2. EntriesPlaced'
    BY <1>0, <1>5 DEF PruneOne, Removes, Without, KeysGone, Typed, EntriesPlaced, OrphanIsCopyOfLatest, ManifestSet, Keys, Plain
  <2>3. UseIsRecorded'
    BY <1>0, <1>5 DEF PruneOne, Removes, Without, KeysGone, Typed, EntriesPlaced, UseIsRecorded, ManifestSet, Keys, Plain
  <2>4. LoneHasLogger'
    BY <1>0, <1>5 DEF PruneOne, Removes, Without, KeysGone, Typed, LoneHasLogger, LoneReplyIsComplete, Pruners
  <2> QED
    BY <2>1, <2>2, <2>3, <2>4 DEF PruneAgeInv
<1>6. ASSUME NEW k \in Keys, Pull(k) PROVE PruneAgeInv'
  <2>1. Typed'
    BY <1>0, <1>6 DEF Pull, Answered, Record, Added, Cached, Entry, Typed, ManifestSet, Keys, Pruners
  <2>2. EntriesPlaced'
    BY <1>0, <1>6 DEF Pull, Answered, Record, Added, Cached, Entry, Typed, EntriesPlaced, OrphanIsCopyOfLatest, ManifestSet, Keys, Plain
  <2>3. UseIsRecorded'
    BY <1>0, <1>6 DEF Pull, Answered, Record, Added, Cached, Entry, Typed, EntriesPlaced, UseIsRecorded, ManifestSet, Keys, Plain
  <2>4. LoneHasLogger'
    BY <1>0, <1>6 DEF Pull, Answered, Record, Added, Cached, Entry, Typed, LoneHasLogger, LoneReplyIsComplete, Pruners
  <2> QED
    BY <2>1, <2>2, <2>3, <2>4 DEF PruneAgeInv
<1>7. ASSUME PullSame PROVE PruneAgeInv'
  <2>1. Typed'
    BY <1>0, <1>7 DEF PullSame, Answered, Record, Typed, ManifestSet, Keys, Pruners
  <2>2. EntriesPlaced'
    BY <1>0, <1>7 DEF PullSame, Answered, Record, Typed, EntriesPlaced, OrphanIsCopyOfLatest, ManifestSet, Keys, Plain
  <2>3. UseIsRecorded'
    BY <1>0, <1>7 DEF PullSame, Answered, Record, Typed, EntriesPlaced, UseIsRecorded, ManifestSet, Keys, Plain
  <2>4. LoneHasLogger'
    BY <1>0, <1>7 DEF PullSame, Answered, Record, Typed, LoneHasLogger, LoneReplyIsComplete, Pruners
  <2> QED
    BY <2>1, <2>2, <2>3, <2>4 DEF PruneAgeInv
<1>8. ASSUME PullOther PROVE PruneAgeInv'
  <2>1. Typed'
    BY <1>0, <1>8 DEF PullOther, Without, Typed, ManifestSet, Keys, Pruners
  <2>2. EntriesPlaced'
    BY <1>0, <1>8 DEF PullOther, Without, Typed, EntriesPlaced, OrphanIsCopyOfLatest, ManifestSet, Keys, Plain
  <2>3. UseIsRecorded'
    BY <1>0, <1>8 DEF PullOther, Without, Typed, EntriesPlaced, UseIsRecorded, ManifestSet, Keys, Plain
  <2>4. LoneHasLogger'
    BY <1>0, <1>8 DEF PullOther, Without, Typed, LoneHasLogger, LoneReplyIsComplete, Pruners
  <2> QED
    BY <2>1, <2>2, <2>3, <2>4 DEF PruneAgeInv
<1>9. ASSUME NEW k \in Keys, Hit(k) PROVE PruneAgeInv'
  <2> DEFINE m == [Entry(k) EXCEPT !.pulled = now]
  <2>1. /\ Entry(k) \in ManifestSet /\ m \in ManifestSet
        /\ m.url = Entry(k).url /\ m.pulled = now /\ m # NoEntry
    BY <1>0, <1>9 DEF Hit, Typed, Cached, Entry, ManifestSet, Keys
  <2>2. CASE k = Latest
    <3>1. /\ latest' = [latest EXCEPT ![k] = m] /\ lts' = m
          /\ UNCHANGED <<manifests, img>> /\ m.url = Latest
          /\ lastUse' = [t \in Tags |-> IF t = k THEN now ELSE lastUse[t]]
      BY <1>0, <1>9, <2>1, <2>2 DEF Hit, Answered, EntriesPlaced, Cached, Entry
    <3> HIDE DEF m
    <3> QED
      BY <1>0, <1>9, <2>1, <2>2, <3>1 DEF Hit, PruneAgeInv, EntriesPlaced, OrphanIsCopyOfLatest, UseIsRecorded, Typed, ManifestSet, Keys, Pruners, Plain, LoneHasLogger, LoneReplyIsComplete
  <2>3. CASE k \in Plain
    <3>1. /\ manifests' = [manifests EXCEPT ![k] = m] /\ img' = m
          /\ UNCHANGED <<latest, lts>> /\ m.url = k /\ k # Latest
          /\ lastUse' = [t \in Tags |-> IF t = k THEN now ELSE lastUse[t]]
      BY <1>0, <1>9, <2>1, <2>3 DEF Hit, Answered, EntriesPlaced, Cached, Entry, Plain
    <3> HIDE DEF m
    <3> QED
      BY <1>0, <1>9, <2>1, <2>3, <3>1 DEF Hit, PruneAgeInv, EntriesPlaced, OrphanIsCopyOfLatest, UseIsRecorded, Typed, ManifestSet, Keys, Pruners, Plain, LoneHasLogger, LoneReplyIsComplete
  <2>4. CASE k = Dg
    <3>1. /\ manifests' = [manifests EXCEPT ![k] = m] /\ UNCHANGED latest
          /\ m.url # Latest => img' = m /\ UNCHANGED lts
          /\ m.url = Latest => lts' = m /\ UNCHANGED img
          /\ m.url = Latest \/ (manifests[Dg] # NoEntry /\ m.url = manifests[Dg].url)
          /\ lastUse' = lastUse
      <4>1. lastUse' = lastUse
        BY <1>0, <1>9, <2>4 DEF Hit, Answered, Typed
      <4> QED
        BY <1>0, <1>9, <2>1, <2>4, <4>1 DEF Hit, EntriesPlaced, Cached, Entry
    <3> HIDE DEF m
    <3>2. EntriesPlaced'
      BY <1>0, <2>1, <2>4, <3>1 DEF Typed, EntriesPlaced, OrphanIsCopyOfLatest, ManifestSet, Keys, Plain
    <3> QED
      BY <1>0, <1>9, <2>1, <2>4, <3>1, <3>2 DEF Hit, PruneAgeInv, UseIsRecorded, Typed, ManifestSet, Keys, Pruners, Plain, LoneHasLogger, LoneReplyIsComplete
  <2> QED
    BY <2>2, <2>3, <2>4 DEF Keys, Plain
<1>10. ASSUME NEW c \in Callers, CallBegins(c) PROVE PruneAgeInv'
  <2>1. Typed'
    BY <1>0, <1>10 DEF CallBegins, Typed, ManifestSet, Keys, Pruners
  <2>2. EntriesPlaced'
    BY <1>0, <1>10 DEF CallBegins, Typed, EntriesPlaced, OrphanIsCopyOfLatest, ManifestSet, Keys, Plain
  <2>3. UseIsRecorded'
    BY <1>0, <1>10 DEF CallBegins, Typed, EntriesPlaced, UseIsRecorded, ManifestSet, Keys, Plain
  <2>4. LoneHasLogger'
    BY <1>0, <1>10 DEF CallBegins, Typed, LoneHasLogger, LoneReplyIsComplete, Pruners
  <2> QED
    BY <2>1, <2>2, <2>3, <2>4 DEF PruneAgeInv
<1>11. ASSUME NEW c \in Callers, CallSelects(c) PROVE PruneAgeInv'
  <2>1. Typed'
    BY <1>0, <1>11 DEF CallSelects, Select, Primary, Typed, ManifestSet, Keys, Pruners
  <2>2. EntriesPlaced'
    BY <1>0, <1>11 DEF CallSelects, Typed, EntriesPlaced, OrphanIsCopyOfLatest, ManifestSet, Keys, Plain
  <2>3. UseIsRecorded'
    BY <1>0, <1>11 DEF CallSelects, Typed, EntriesPlaced, UseIsRecorded, ManifestSet, Keys, Plain
  <2>4. LoneHasLogger'
    BY <1>0, <1>11 DEF CallSelects, Select, Primary, Typed, LoneHasLogger, LoneReplyIsComplete, Pruners
  <2> QED
    BY <2>1, <2>2, <2>3, <2>4 DEF PruneAgeInv
<1>12. ASSUME NEW c \in Callers, CallEnds(c) PROVE PruneAgeInv'
  <2>1. Typed'
    BY <1>0, <1>12 DEF CallEnds, Typed, ManifestSet, Keys, Pruners
  <2>2. EntriesPlaced'
    BY <1>0, <1>12 DEF CallEnds, Typed, EntriesPlaced, OrphanIsCopyOfLatest, ManifestSet, Keys, Plain
  <2>3. UseIsRecorded'
    BY <1>0, <1>12 DEF CallEnds, Typed, EntriesPlaced, UseIsRecorded, ManifestSet, Keys, Plain
  <2>4. LoneHasLogger'
    BY <1>0, <1>12 DEF CallEnds, Typed, LoneHasLogger, LoneReplyIsComplete, Pruners
  <2> QED
    BY <2>1, <2>2, <2>3, <2>4 DEF PruneAgeInv
<1>13. CASE UNCHANGED vars
  BY <1>0, <1>13 DEF PruneAgeInv, vars, Typed, EntriesPlaced, OrphanIsCopyOfLatest, UseIsRecorded,
    LoneHasLogger, LoneReplyIsComplete
<1>14. Background \in Pruners /\ Callers \subseteq Pruners
  BY DEF Pruners
<1> QED
  BY <1>1, <1>2, <1>3, <1>4, <1>5, <1>6, <1>7, <1>8, <1>9, <1>10, <1>11, <1>12, <1>13, <1>14 DEF Next, BackgroundStep

\* The inductive invariant holds in every reachable state.
THEOREM PruneAgeAlwaysInv == Spec => []PruneAgeInv
BY PruneAgeInitInv, PruneAgeStepInv, PTL DEF Spec

\* The second copy of a manifest, which no prune looks at, goes with the first,
\* but for the copy of latest among the others.
THEOREM OrphansAreCopiesOfLatest == Spec => []OrphanIsCopyOfLatest
<1>1. PruneAgeInv => OrphanIsCopyOfLatest
  BY DEF PruneAgeInv, EntriesPlaced
<1> QED
  BY <1>1, PruneAgeAlwaysInv, PTL

\* Where messages of level info are logged, the reply to a prune command that
\* ran alone lists all it pruned.
THEOREM LoneRepliesAreComplete == Spec => []LoneReplyIsComplete
<1>1. PruneAgeInv => LoneReplyIsComplete
  BY DEF PruneAgeInv, LoneHasLogger
<1> QED
  BY <1>1, PruneAgeAlwaysInv, PTL

\* A tag is selected only when it was not asked for since the cutoff, or is
\* latest where that is always pulled.
THEOREM OnlyIdleIsSelected == Spec => SelectedWasIdle
<1> DEFINE Limit(p) == IF p = Background THEN cutoff ELSE Cutoff(ask[p])
           Idle(p) ==
      state[p] # "pruning" /\ state'[p] = "pruning" /\ ConfigOf(p).type = "accessed" =>
        \A t \in toPrune'[p] \cap Tags :
          \/ lastUse[t] < Limit(p)
          \/ t = Latest /\ setting.alwaysPullLatest
<1>1. PruneAgeInv /\ [Next]_vars => [\A p \in Pruners : Idle(p)]_vars
  <2> SUFFICES ASSUME PruneAgeInv, Next, NEW p \in Pruners,
                      state[p] # "pruning", state'[p] = "pruning", ConfigOf(p).type = "accessed",
                      NEW t \in Tags, t \in toPrune'[p], ~(t = Latest /\ setting.alwaysPullLatest)
               PROVE  lastUse[t] < Limit(p)
    OBVIOUS
  <2> USE PruneAgeAssumption
  <2>0. Typed /\ EntriesPlaced /\ UseIsRecorded
    BY DEF PruneAgeInv
  <2>1. ASSUME NEW q \in Pruners, NEW lim \in Int, Select(q, lim)
        PROVE  q = p /\ lastUse[t] < lim
    <3>1. q = p
      BY <2>0, <2>1 DEF Select, Typed
    <3>2. t \in Primary /\ Entry(t).pulled < lim
      BY <2>0, <2>1, <3>1 DEF Select, Matching, Typed
    <3>3. Entry(t) = IF t = Latest THEN latest[t] ELSE manifests[t]
      BY <2>0, <3>2 DEF EntriesPlaced, Primary, Cached, Entry, Plain
    <3>4. lastUse[t] <= Entry(t).pulled /\ lastUse[t] \in Nat /\ Entry(t).pulled \in Nat
      BY <2>0, <3>2, <3>3 DEF UseIsRecorded, Typed, Primary, Cached, Plain, ManifestSet, Keys
    <3> QED
      BY <3>1, <3>2, <3>4
  <2>2. CASE PassBegins
    <3>1. Background \in Pruners /\ cutoff \in Int
      BY <2>0 DEF Typed, Pruners
    <3> QED
      BY <2>1, <2>2, <3>1 DEF PassBegins
  <2>3. ASSUME NEW c \in Callers, CallSelects(c) PROVE lastUse[t] < Limit(p)
    <3>1. ask[c].dur \in Nat
      BY <2>0 DEF Typed, NoParams
    <3>2. c \in Pruners /\ Cutoff(ask[c]) \in Int /\ c # Background
      BY <2>0, <3>1 DEF Cutoff, Typed, Pruners
    <3> QED
      BY <2>1, <2>3, <3>2 DEF CallSelects
  <2>4. CASE Tick \/ Restart \/ PassEnds \/ PullSame \/ PullOther
    BY <2>0, <2>4 DEF Tick, Restart, PassEnds, PullSame, PullOther, prunerVars, Typed
  <2>5. ASSUME NEW k \in Keys, Pull(k) \/ Hit(k) PROVE FALSE
    BY <2>5 DEF Pull, Hit, prunerVars
  <2>6. ASSUME NEW q \in Pruners, NEW u \in Keys, PruneOne(q, u) PROVE FALSE
    BY <2>6 DEF PruneOne
  <2>7. ASSUME NEW c \in Callers, CallBegins(c) \/ CallEnds(c) PROVE FALSE
    BY <2>0, <2>7 DEF CallBegins, CallEnds, Typed
  <2>8. Background \in Pruners /\ Callers \subseteq Pruners
    BY DEF Pruners
  <2> QED
    BY <2>2, <2>3, <2>4, <2>5, <2>6, <2>7, <2>8 DEF Next, BackgroundStep
<1> QED
  BY <1>1, PruneAgeAlwaysInv, PTL DEF Spec, SelectedWasIdle
=============================================================================
