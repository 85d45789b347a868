------------------------------ MODULE PruneAge ------------------------------
(***************************************************************************)
(* Pruning by age, by pattern and by count: ParseCriteria, RunPruner and   *)
(* Prune of impl/cache/prune.go, GetManifestsCompare of query.go and the   *)
(* handler CmdPrune, over the timestamps that module ImageStore leaves     *)
(* out.  It is about the manifests of ONE image: some tags, the tag latest *)
(* and the digest.  The image pulled as latest is in a map and a file of   *)
(* its own, all others share the other map and one file.  Other images     *)
(* matter only as what the limit of a pruner leaves no room for, and as    *)
(* what latest may come to mean at the upstream.  Calls that miss one URL  *)
(* come one after the other here; module Registry has them overlap.        *)
(*                                                                         *)
(* The logger of the process is here too, because the reply to a prune     *)
(* command is what was logged while Prune had redirected it.  What a prune *)
(* logs is of level info.                                                  *)
(***************************************************************************)
EXTENDS Integers, FiniteSets

CONSTANTS
  Tags, Latest, Dg,    \* the references of the image: its tags and its digest
  Background,          \* the pruner that RunPruner starts
  Callers,             \* executions of CmdPrune
  Settings,            \* the configurations of the server to consider
  Params,              \* the parameters of prune commands to consider
  StartTime, MaxTime,  \* the clock when the server starts, and its bound
  MaxRestarts,         \* bound
  NoEntry

Keys == Tags \cup {Dg}
Pruners == {Background} \cup Callers

ASSUME PruneAgeAssumption ==
  /\ Dg \notin Tags /\ Latest \in Tags
  /\ Background \notin Callers
  /\ StartTime \in Nat /\ MaxTime \in Nat /\ StartTime <= MaxTime
  /\ MaxRestarts \in Nat
  /\ \A p \in Settings \cup Params :
       /\ p.type \in {"accessed", "created", "pattern"} /\ p.dur \in Nat
       /\ p.count \in Nat \cup {-1}
  /\ \A s \in Settings :
       /\ s.dryRun \in BOOLEAN
       /\ s.alwaysPullLatest \in BOOLEAN /\ s.logLevel \in {"error", "info"}
  /\ \A p \in Params : p.dryRun \in {"absent", "true", "false", "junk"}
  /\ NoEntry \notin [url : Keys, pulled : Nat]

VARIABLES
  now,       \* the clock
  setting,   \* configuration: of the background pruner, alwaysPullLatest, logLevel
  manifests, latest,  \* mc: the manifest cached in each map under each key, or NoEntry
  img, lts,  \* the manifest in the file of the image in each directory, or NoEntry
  cutoff,    \* the time captured by the comparer of the background pruner
  state,     \* where each pruner is
  ask,       \* parameters of each execution of CmdPrune
  toPrune,   \* URLs of the manifests that doPrune has still to prune
  logTo,     \* where the logger writes: a caller's buffer, or "stderr"
  restarts,
  lastUse,   \* history: when a client was last answered with the image by each tag
  lost,      \* history: the callers whose buffer lacks something they have pruned
  alone      \* history: the calls that no other call has overlapped

imageVars == <<manifests, latest, img, lts, lastUse>>
prunerVars == <<cutoff, state, ask, toPrune>>
logVars == <<logTo, lost, alone>>
vars == <<now, setting, imageVars, prunerVars, logVars, restarts>>

Record(u, t) == [url |-> u, pulled |-> t]

\* fromCache
Entry(k) == IF manifests[k] # NoEntry THEN manifests[k] ELSE latest[k]
Cached(k) == Entry(k) # NoEntry

\* GetManifestsCompare skips the second copies: their key is not their own URL.
Primary == {k \in Keys : Cached(k) /\ Entry(k).url = k}

\* addManifestToCache, for a map and a manifest that belongs in it.
Added(map, m) == [k \in Keys |-> IF k \in {m.url, Dg} THEN m ELSE map[k]]
Without(map, gone) == [k \in Keys |-> IF k \in gone THEN NoEntry ELSE map[k]]

Nothing == [k \in Keys |-> NoEntry]
Loaded(f) == IF f = NoEntry THEN Nothing ELSE Added(Nothing, f)

NoParams == [type |-> "pattern", dur |-> 0, count |-> 0, dryRun |-> "absent"]

\* calcCutoff: the duration is subtracted from the present.
Cutoff(cfg) == now - cfg.dur

Init ==
  /\ now = StartTime
  /\ setting \in Settings
  /\ img \in {NoEntry} \cup {Record(u, t) : u \in Keys \ {Latest}, t \in 0..StartTime}
  /\ lts \in {NoEntry} \cup {Record(Latest, t) : t \in 0..StartTime}
  /\ manifests = Loaded(img) /\ latest = Loaded(lts)
  /\ cutoff = Cutoff(setting)
  /\ state = [p \in Pruners |-> "idle"]
  /\ ask = [c \in Callers |-> NoParams]
  /\ toPrune = [p \in Pruners |-> {}]
  /\ logTo = "stderr"
  /\ lost = {}
  /\ restarts = 0
  /\ lastUse = [t \in Tags |-> IF t \in Primary THEN Entry(t).pulled ELSE 0]
  /\ alone = Callers
-----------------------------------------------------------------------------
Tick ==
  /\ now < MaxTime
  /\ now' = now + 1
  /\ UNCHANGED <<setting, imageVars, prunerVars, logVars, restarts>>

\* The histories of what a client was answered: k is no tag for a digest.
Answered(k) == lastUse' = [t \in Tags |-> IF t = k THEN now ELSE lastUse[t]]

\* GetManifest misses k: the manifest is pulled, its file is written, and it is
\* added to its map under its own URL and, for a tag, under the digest.
Pull(k) ==
  LET m == Record(k, now) IN
  /\ ~Cached(k)
  /\ IF k = Latest
       THEN lts' = m /\ latest' = Added(latest, m) /\ UNCHANGED <<img, manifests>>
       ELSE img' = m /\ manifests' = Added(manifests, m) /\ UNCHANGED <<lts, latest>>
  /\ Answered(k)
  /\ UNCHANGED <<now, setting, prunerVars, logVars, restarts>>

\* A forced pull of latest, which is cached, gets the same image again: doPull
\* has written its file, but replaceInCache leaves the entries as they are.
PullSame ==
  /\ setting.alwaysPullLatest /\ Cached(Latest)
  /\ lts' = Record(Latest, now)
  /\ Answered(Latest)
  /\ UNCHANGED <<now, setting, manifests, latest, img, prunerVars, logVars, restarts>>

\* It gets another image: replaceInCache removes this one from the map and the
\* directory of latest.
PullOther ==
  /\ setting.alwaysPullLatest /\ Cached(Latest)
  /\ latest' = Without(latest, {Latest, Dg})
  /\ lts' = NoEntry
  /\ UNCHANGED <<now, setting, manifests, img, lastUse, prunerVars, logVars, restarts>>

\* A slip: the time of a hit is not written to the file.
HitInMemory(k) ==
  LET m == [Entry(k) EXCEPT !.pulled = now] IN
  /\ Cached(k) /\ ~(k = Latest /\ setting.alwaysPullLatest)
  /\ IF k = Latest
       THEN latest' = [latest EXCEPT ![k] = m] /\ UNCHANGED manifests
       ELSE manifests' = [manifests EXCEPT ![k] = m] /\ UNCHANGED latest
  /\ Answered(k)
  /\ UNCHANGED <<now, setting, img, lts, prunerVars, logVars, restarts>>

\* getManifestFromCache finds k.  Only one copy gets the time of the hit, and it
\* is stored in the map of the reference that was asked for: by digest, an image
\* tagged latest is copied to the map of the others.  The file that is written
\* is the one of the manifest's own URL.
Hit(k) ==
  LET m == [Entry(k) EXCEPT !.pulled = now] IN
  /\ Cached(k) /\ ~(k = Latest /\ setting.alwaysPullLatest)
  /\ IF k = Latest
       THEN latest' = [latest EXCEPT ![k] = m] /\ UNCHANGED manifests
       ELSE manifests' = [manifests EXCEPT ![k] = m] /\ UNCHANGED latest
  /\ IF m.url = Latest
       THEN lts' = m /\ UNCHANGED img
       ELSE img' = m /\ UNCHANGED lts
  /\ Answered(k)
  /\ UNCHANGED <<now, setting, prunerVars, logVars, restarts>>
-----------------------------------------------------------------------------
\* The configuration a pruner works with.  Prune starts from DryRun = TRUE.
ConfigOf(p) == IF p = Background THEN setting ELSE ask[p]
DryRun(p) ==
  IF p = Background THEN setting.dryRun ELSE ask[p].dryRun \in {"absent", "true"}

\* count of cmd_handlers.go makes -1 the largest integer; RunPruner makes 0 no limit.
Unlimited(p) == ConfigOf(p).count = -1 \/ (p = Background /\ setting.count = 0)

\* ParseCriteria: what the comparer for time limit t may match.  The time of
\* creation and the URL do not change with use; nothing here turns on what a
\* criterion on them matches, so it may be any manifests.
Matching(cfg, t) ==
  IF cfg.type = "accessed" THEN {{k \in Primary : Entry(k).pulled < t}}
                           ELSE SUBSET Primary

\* A slip: the count is compared before the manifest that reaches it is taken.
SelectOneShort(p, t) ==
  \E matching \in Matching(ConfigOf(p), t), urls \in SUBSET Primary :
    /\ urls \subseteq matching
    /\ IF Unlimited(p) \/ Cardinality(matching) < ConfigOf(p).count
         THEN urls = matching ELSE Cardinality(urls) = ConfigOf(p).count - 1
    /\ toPrune' = [toPrune EXCEPT ![p] = urls]
    /\ state' = [state EXCEPT ![p] = "pruning"]

\* GetManifestsCompare: any of the matching manifests, as many as the limit
\* allows, because a map is ranged over in no order.
Select(p, t) ==
  \E matching \in Matching(ConfigOf(p), t), urls \in SUBSET Primary :
    /\ urls \subseteq matching
    /\ IF Unlimited(p) \/ Cardinality(matching) <= ConfigOf(p).count
         THEN urls = matching ELSE Cardinality(urls) = ConfigOf(p).count
    /\ toPrune' = [toPrune EXCEPT ![p] = urls]
    /\ state' = [state EXCEPT ![p] = "pruning"]

\* The timer of the background pruner fires: RunPruner has parsed the criteria once.
PassBegins ==
  /\ state[Background] = "idle"
  /\ Select(Background, cutoff)
  /\ UNCHANGED <<now, setting, imageVars, cutoff, ask, logVars, restarts>>

\* CmdPrune: the logger is redirected before the parameters are looked at.
CallBegins(c) ==
  /\ state[c] = "idle"
  /\ ask' \in {[ask EXCEPT ![c] = p] : p \in Params}
  /\ state' = [state EXCEPT ![c] = "called"]
  /\ logTo' = c
  /\ LET others == {d \in Callers \ {c} : state[d] # "idle"} IN
     alone' = IF others = {} THEN alone ELSE alone \ (others \cup {c})
  /\ UNCHANGED <<now, setting, imageVars, cutoff, toPrune, lost, restarts>>

\* Prune parses the criteria of the command when it is called.
CallSelects(c) ==
  /\ state[c] = "called" /\ ask[c].dryRun # "junk"
  /\ Select(c, Cutoff(ask[c]))
  /\ UNCHANGED <<now, setting, imageVars, cutoff, ask, logVars, restarts>>

\* A slip: the entry by digest is left.
KeysGoneOwn(u) == {u}

\* The keys that manifestCache.delete takes out of the map of URL u.
KeysGone(u) == {u, Dg}

\* prune: rmManifest deletes from the map, and the file from the directory, of
\* the manifest's own URL.
Removes(u) ==
  IF u = Latest
    THEN /\ latest' = Without(latest, KeysGone(u)) /\ lts' = NoEntry
         /\ UNCHANGED <<manifests, img>>
    ELSE /\ manifests' = Without(manifests, KeysGone(u)) /\ img' = NoEntry
         /\ UNCHANGED <<latest, lts>>

\* One round of doPrune.  What it logs is dropped unless the level is info, and
\* goes where the logger writes by now.
PruneOne(p, u) ==
  /\ state[p] = "pruning" /\ u \in toPrune[p]
  /\ toPrune' = [toPrune EXCEPT ![p] = @ \ {u}]
  /\ IF DryRun(p) THEN UNCHANGED <<manifests, latest, img, lts>> ELSE Removes(u)
  /\ lost' = lost \cup {c \in {p} \cap Callers : logTo # c \/ setting.logLevel # "info"}
  /\ UNCHANGED <<now, setting, lastUse, cutoff, state, ask, logTo, alone, restarts>>

\* A slip: every prune gives the logger back when its pass is over.
PassEndsRestoring ==
  /\ state[Background] = "pruning" /\ toPrune[Background] = {}
  /\ state' = [state EXCEPT ![Background] = "idle"]
  /\ logTo' = "stderr"
  /\ UNCHANGED <<now, setting, imageVars, cutoff, ask, toPrune, lost, alone, restarts>>

\* doPrune of the background pruner returns.
PassEnds ==
  /\ state[Background] = "pruning" /\ toPrune[Background] = {}
  /\ state' = [state EXCEPT ![Background] = "idle"]
  /\ UNCHANGED <<now, setting, imageVars, cutoff, ask, toPrune, logVars, restarts>>

\* The deferred SetOutput: stderr again, whoever had redirected the logger since.
CallEnds(c) ==
  /\ \/ state[c] = "called" /\ ask[c].dryRun = "junk"
     \/ state[c] = "pruning" /\ toPrune[c] = {}
  /\ state' = [state EXCEPT ![c] = "idle"]
  /\ logTo' = "stderr"
  /\ ask' = [ask EXCEPT ![c] = NoParams]
  /\ lost' = lost \ {c}
  /\ alone' = alone \cup {c}
  /\ UNCHANGED <<now, setting, imageVars, cutoff, toPrune, restarts>>

\* The process ends and is started again: a new comparer in RunPruner, and Load,
\* unless the blobs of the image are not all there any more (canAdd).
Restart ==
  /\ restarts < MaxRestarts
  /\ restarts' = restarts + 1
  /\ \/ manifests' = Loaded(img) /\ latest' = Loaded(lts)
     \/ manifests' = Nothing /\ latest' = Nothing
  /\ cutoff' = Cutoff(setting)
  /\ state' = [p \in Pruners |-> "idle"]
  /\ toPrune' = [p \in Pruners |-> {}]
  /\ logTo' = "stderr" /\ alone' = Callers
  /\ lost' = {}
  /\ ask' = [c \in Callers |-> NoParams]
  /\ UNCHANGED <<now, setting, img, lts, lastUse>>

BackgroundStep ==
  PassBegins \/ PassEnds \/ \E u \in Keys : PruneOne(Background, u)

Next ==
  \/ Tick \/ Restart \/ BackgroundStep
  \/ \E k \in Keys : Pull(k) \/ Hit(k)
  \/ PullSame \/ PullOther
  \/ \E c \in Callers : CallBegins(c) \/ CallSelects(c) \/ CallEnds(c)
  \/ \E c \in Callers, u \in Keys : PruneOne(c, u)

\* The timer of the background pruner fires again and again, and its passes end.
Spec == Init /\ [][Next]_vars /\ WF_vars(BackgroundStep)
-----------------------------------------------------------------------------
\* Type invariant.
PruneAgeTypeOK ==
  LET Manifests == [url : Keys, pulled : 0..MaxTime] IN
  /\ now \in StartTime..MaxTime
  /\ setting \in Settings
  /\ manifests \in [Keys -> Manifests \cup {NoEntry}]
  /\ latest \in [Keys -> Manifests \cup {NoEntry}]
  /\ {img, lts} \subseteq Manifests \cup {NoEntry}
  /\ cutoff \in Int
  /\ state \in [Pruners -> {"idle", "called", "pruning"}]
  /\ ask \in [Callers -> Params \cup {NoParams}]
  /\ toPrune \in [Pruners -> SUBSET Keys]
  /\ logTo \in Callers \cup {"stderr"}
  /\ restarts \in 0..MaxRestarts
  /\ lastUse \in [Tags -> 0..MaxTime]
  /\ lost \subseteq Callers /\ alone \subseteq Callers

\* A prune by access time never selects a tag that was asked for since the
\* cutoff, however often the server was restarted: every hit is in the entry it
\* was answered from and, when that is lost, in the file.  The one exception is
\* latest where it is always pulled: a forced pull that gets the same image
\* leaves the old time in the entry, and latest is pruned while in use.
SelectedWasIdle ==
  [][\A p \in Pruners :
       state[p] # "pruning" /\ state'[p] = "pruning" /\ ConfigOf(p).type = "accessed" =>
         \A t \in toPrune'[p] \cap Tags :
           \/ lastUse[t] < IF p = Background THEN cutoff ELSE Cutoff(ask[p])
           \/ t = Latest /\ setting.alwaysPullLatest]_vars

\* An entry by digest is a copy that every prune skips ("only for lookup",
\* GetManifestsCompare), so one without its tag would stay, and be served,
\* until the server is restarted.  The one that does is the copy of latest that
\* a request by digest has put among the others: no pull or prune of any tag,
\* in whatever order, leaves another.
OrphanIsCopyOfLatest ==
  /\ latest[Dg] # NoEntry => latest[Latest] # NoEntry
  /\ manifests[Dg] # NoEntry =>
       manifests[Dg].url = Latest \/ manifests[manifests[Dg].url] # NoEntry

\* A pass of the background pruner that has no limit takes every manifest that
\* is out of age when it is made: "the pruner will remove images that have not
\* been accessed (pulled) within the last 15 days" (RunPruner).
BackgroundTakesAllIdle ==
  [][/\ state[Background] = "idle" /\ state'[Background] = "pruning"
     /\ Unlimited(Background) /\ setting.type = "accessed"
     => \A k \in Primary :
          Entry(k).pulled < Cutoff(setting) => k \in toPrune'[Background]]_vars

\* Where the level of the logger is info, the reply to a prune command that no
\* other command overlapped lists every manifest it pruned, and one to a dry run
\* every manifest it would prune, whatever the background pruner does
\* meanwhile.  At the default level, error, the reply is empty.
LoneReplyIsComplete ==
  setting.logLevel = "info" => alone \cap lost = {}

\* What is out of age when the server starts does not stay: the background
\* pruner gets to it however small its limit, unless it is asked for again.
IdleAtStartIsPruned ==
  \A t \in Tags :
    LET Idle == /\ t \in Primary /\ Entry(t).pulled < cutoff
                /\ setting.type = "accessed" /\ ~setting.dryRun
    IN  Idle ~> ~Idle
=============================================================================
