-------------------------- MODULE PullQueue_proofs --------------------------
(***************************************************************************)
(* Theorems about PullQueue for any set of calls, URLs and timeouts.       *)
(***************************************************************************)
EXTENDS PullQueue, TLAPS

\* What append and the range loop of signalWaiters do to a list of channels.
LEMMA AppendAdds ==
  ASSUME NEW S, NEW s \in Seq(S), NEW e \in S
  PROVE  ElementsOf(Append(s, e)) = ElementsOf(s) \cup {e}
<1>1. Append(s, e)[Len(s) + 1] = e /\ Len(s) + 1 \in DOMAIN Append(s, e)
  OBVIOUS
<1>2. \A i \in DOMAIN s : i \in DOMAIN Append(s, e) /\ Append(s, e)[i] = s[i]
  OBVIOUS
<1>3. \A i \in DOMAIN Append(s, e) : i \in DOMAIN s \/ i = Len(s) + 1
  OBVIOUS
<1> QED BY <1>1, <1>2, <1>3 DEF ElementsOf

\* Without its head, a sequence keeps every other element, ...
LEMMA TailKeeps ==
  ASSUME NEW S, NEW s \in Seq(S), s # <<>>, NEW e \in ElementsOf(s), e # Head(s)
  PROVE  e \in ElementsOf(Tail(s))
<1>1. PICK i \in 1..Len(s) : s[i] = e
  BY DEF ElementsOf
<1>2. i # 1
  BY <1>1
<1>3. i - 1 \in DOMAIN Tail(s) /\ Tail(s)[i - 1] = e
  BY <1>1, <1>2
<1> QED BY <1>3 DEF ElementsOf

\* ... and has no new one.
LEMMA TailAddsNothing ==
  ASSUME NEW S, NEW s \in Seq(S), s # <<>>
  PROVE  ElementsOf(Tail(s)) \subseteq ElementsOf(s) /\ Head(s) \in ElementsOf(s)
<1>1. \A i \in DOMAIN Tail(s) : i + 1 \in DOMAIN s /\ Tail(s)[i] = s[i + 1]
  OBVIOUS
<1>2. 1 \in DOMAIN s /\ Head(s) = s[1]
  OBVIOUS
<1> QED BY <1>1, <1>2 DEF ElementsOf

\* The initial states satisfy the inductive invariant.
LEMMA QueueInvInit ==
  QueueInit => QueueInv
<1> SUFFICES ASSUME QueueInit PROVE QueueInv
  OBVIOUS
<1>1. DOMAIN pulls = {} /\ pulls = [u \in DOMAIN pulls |-> pulls[u]]
  BY DEF QueueInit
<1>2. \A c \in Calls : pc[c] = "idle"
  BY DEF QueueInit
<1>3. QueueTypeOK
  BY <1>1 DEF QueueInit, QueueTypeOK, PcValues
<1>4. SinglePuller /\ PullsAreTracked
  BY <1>1, <1>2 DEF SinglePuller, PullsAreTracked, Active
<1> QED BY <1>2, <1>3, <1>4 DEF QueueInit, QueueInv, LockIsForSignaling, ParkedIsListed, ListedForUrl

\* Every step keeps the types.
LEMMA QueueTypeStep ==
  QueueInv /\ [QueueNext]_queueVars => QueueTypeOK'
<1> SUFFICES ASSUME QueueInv, [QueueNext]_queueVars PROVE QueueTypeOK'
  OBVIOUS
<1> USE DEF QueueInv, QueueTypeOK, PcValues, Goto
<1>1. ASSUME NEW c \in Calls, NEW u \in Urls, Miss(c, u) PROVE QueueTypeOK'
  BY <1>1 DEF Miss
<1>2. ASSUME NEW c \in Calls, EnqueueFirst(c) PROVE QueueTypeOK'
  <2>1. url[c] \in Urls /\ <<>> \in Seq(Calls)
    OBVIOUS
  <2> QED BY <1>2, <2>1 DEF EnqueueFirst
<1>3. ASSUME NEW c \in Calls, EnqueueWait(c) PROVE QueueTypeOK'
  <2>1. url[c] \in DOMAIN pulls /\ Append(pulls[url[c]], c) \in Seq(Calls)
    BY <1>3 DEF EnqueueWait
  <2>2. pulls' = [u \in DOMAIN pulls |->
                   IF u = url[c] THEN Append(pulls[url[c]], c) ELSE pulls[u]]
    BY <1>3, <2>1 DEF EnqueueWait
  <2> QED BY <1>3, <2>1, <2>2 DEF EnqueueWait
<1>4. ASSUME NEW c \in Calls, FinishPull(c) PROVE QueueTypeOK'
  BY <1>4 DEF FinishPull
<1>5. ASSUME NEW c \in Calls, SignalLock(c) PROVE QueueTypeOK'
  BY <1>5 DEF SignalLock
<1>6. ASSUME NEW c \in Calls, SignalSend(c) PROVE QueueTypeOK'
  BY <1>6 DEF SignalSend
<1>7. ASSUME NEW c \in Calls, SignalUnlock(c) PROVE QueueTypeOK'
  BY <1>7 DEF SignalUnlock
<1>8. ASSUME NEW c \in Calls, TimeOut(c) \/ ReadAfterWait(c) \/ Recycle(c)
      PROVE QueueTypeOK'
  BY <1>8 DEF TimeOut, ReadAfterWait, Recycle
<1>9. CASE QueueRestart
  BY <1>9 DEF QueueRestart
<1>10. CASE UNCHANGED queueVars
  BY <1>10 DEF queueVars
<1> QED BY <1>1, <1>2, <1>3, <1>4, <1>5, <1>6, <1>7, <1>8, <1>9, <1>10 DEF QueueNext, Step

\* What a step does to the two sets the safety properties speak of: the calls
\* that are active and the URLs that have a list.
LEMMA ActiveStep ==
  ASSUME QueueInv, [QueueNext]_queueVars
  PROVE  SinglePuller' /\ PullsAreTracked' /\ LockIsForSignaling'
<1> USE DEF QueueInv, QueueTypeOK, SinglePuller, PullsAreTracked,
            LockIsForSignaling, Active, Goto
<1> DEFINE Goal == SinglePuller' /\ PullsAreTracked' /\ LockIsForSignaling'
<1>1. ASSUME NEW c \in Calls, NEW u \in Urls, Miss(c, u) PROVE Goal
  <2>1. \A d \in Calls : Active(d)' <=> Active(d)
    BY <1>1 DEF Miss
  <2>2. \A d \in Calls : Active(d) => url'[d] = url[d]
    BY <1>1 DEF Miss
  <2> QED BY <1>1, <2>1, <2>2 DEF Miss
<1>2. ASSUME NEW c \in Calls, EnqueueFirst(c) PROVE Goal
  <2>1. \A d \in Calls : Active(d)' <=> Active(d) \/ d = c
    BY <1>2 DEF EnqueueFirst
  <2>2. \A d \in Calls : Active(d) => url[d] # url[c]
    BY <1>2 DEF EnqueueFirst
  <2>3. url' = url /\ DOMAIN pulls' = DOMAIN pulls \cup {url[c]}
    BY <1>2 DEF EnqueueFirst
  <2> QED BY <1>2, <2>1, <2>2, <2>3 DEF EnqueueFirst
<1>3. ASSUME NEW c \in Calls, EnqueueWait(c) PROVE Goal
  <2>1. \A d \in Calls : Active(d)' <=> Active(d)
    BY <1>3 DEF EnqueueWait
  <2>2. url' = url /\ DOMAIN pulls' = DOMAIN pulls
    BY <1>3 DEF EnqueueWait
  <2> QED BY <1>3, <2>1, <2>2 DEF EnqueueWait
<1>4. ASSUME NEW c \in Calls, FinishPull(c) PROVE Goal
  BY <1>4 DEF FinishPull
<1>5. ASSUME NEW c \in Calls, SignalLock(c) PROVE Goal
  BY <1>5 DEF SignalLock
<1>6. ASSUME NEW c \in Calls, SignalSend(c) PROVE Goal
  <2>1. \A d \in Calls : Active(d)' <=> Active(d)
    BY <1>6 DEF SignalSend
  <2>2. url' = url /\ pulls' = pulls /\ cpLock' = cpLock
    BY <1>6 DEF SignalSend
  <2>3. pc[cpLock] = "signaling" => pc'[cpLock] = "signaling"
    BY <1>6 DEF SignalSend
  <2> QED BY <2>1, <2>2, <2>3
<1>7. ASSUME NEW c \in Calls, SignalUnlock(c) PROVE Goal
  <2>1. pc[c] = "signaling"
    BY <1>7, QueueAssumption DEF SignalUnlock
  <2>2. \A d \in Calls : Active(d)' <=> Active(d) /\ d # c
    BY <1>7 DEF SignalUnlock
  <2>3. \A d \in Calls : Active(d) /\ d # c => url[d] # url[c]
    BY <2>1
  <2>4. url' = url /\ DOMAIN pulls' = DOMAIN pulls \ {url[c]} /\ cpLock' = Nobody
    BY <1>7 DEF SignalUnlock
  <2> QED BY <2>2, <2>3, <2>4
<1>8. ASSUME NEW c \in Calls, TimeOut(c) \/ ReadAfterWait(c) \/ Recycle(c) PROVE Goal
  <2>1. \A d \in Calls : Active(d)' <=> Active(d)
    BY <1>8 DEF TimeOut, ReadAfterWait, Recycle
  <2>2. url' = url /\ pulls' = pulls /\ cpLock' = cpLock
    BY <1>8 DEF TimeOut, ReadAfterWait, Recycle
  <2>3. \A d \in Calls : pc[d] = "signaling" => pc'[d] = "signaling"
    BY <1>8 DEF TimeOut, ReadAfterWait, Recycle
  <2> QED BY <2>1, <2>2, <2>3
<1>9. CASE QueueRestart
  <2>1. \A d \in Calls : ~Active(d)'
    BY <1>9 DEF QueueRestart
  <2>2. DOMAIN pulls' = {} /\ cpLock' = Nobody
    BY <1>9 DEF QueueRestart
  <2> QED BY <2>1, <2>2
<1>10. CASE UNCHANGED queueVars
  BY <1>10 DEF queueVars
<1> QED BY <1>1, <1>2, <1>3, <1>4, <1>5, <1>6, <1>7, <1>8, <1>9, <1>10 DEF QueueNext, Step

\* The list a parked call is in survives every step until the call leaves the
\* select: the mutex keeps new entries out while the list is sent to.
LEMMA ParkedStep ==
  ASSUME QueueInv, [QueueNext]_queueVars
  PROVE  ParkedIsListed'
<1> USE DEF QueueInv, QueueTypeOK, ParkedIsListed, Goto
<1>1. ASSUME NEW c \in Calls, NEW u \in Urls, Miss(c, u) PROVE ParkedIsListed'
  <2>1. \A d \in Calls : pc'[d] = "waiting" => pc[d] = "waiting" /\ url'[d] = url[d]
    BY <1>1 DEF Miss
  <2>2. cpLock # Nobody => url'[cpLock] = url[cpLock]
    BY <1>1 DEF Miss, LockIsForSignaling
  <2>3. UNCHANGED <<pulls, cpLock, toSignal>>
    BY <1>1 DEF Miss
  <2> QED BY <2>1, <2>2, <2>3
<1>2. ASSUME NEW c \in Calls, EnqueueFirst(c) PROVE ParkedIsListed'
  <2>1. \A d \in Calls : pc'[d] = "waiting" => pc[d] = "waiting"
    BY <1>2 DEF EnqueueFirst
  <2>2. \A u \in DOMAIN pulls : u \in DOMAIN pulls' /\ pulls'[u] = pulls[u]
    BY <1>2 DEF EnqueueFirst
  <2> QED BY <1>2, <2>1, <2>2 DEF EnqueueFirst
<1>3. ASSUME NEW c \in Calls, EnqueueWait(c) PROVE ParkedIsListed'
  <2>1. DOMAIN pulls' = DOMAIN pulls /\ url' = url /\ cpLock' = Nobody
    BY <1>3 DEF EnqueueWait
  <2>2. \A u \in DOMAIN pulls : ElementsOf(pulls[u]) \subseteq ElementsOf(pulls'[u])
    BY <1>3, AppendAdds DEF EnqueueWait
  <2>3. c \in ElementsOf(pulls'[url[c]]) /\ url[c] \in DOMAIN pulls
    BY <1>3, AppendAdds DEF EnqueueWait
  <2>4. \A d \in Calls : pc'[d] = "waiting" => pc[d] = "waiting" \/ d = c
    BY <1>3 DEF EnqueueWait
  <2> QED BY <2>1, <2>2, <2>3, <2>4
<1>4. ASSUME NEW c \in Calls, FinishPull(c) PROVE ParkedIsListed'
  BY <1>4 DEF FinishPull
<1>5. ASSUME NEW c \in Calls, SignalLock(c) PROVE ParkedIsListed'
  BY <1>5 DEF SignalLock
<1>6. ASSUME NEW c \in Calls, SignalSend(c) PROVE ParkedIsListed'
  <2>1. \A d \in Calls : pc'[d] = "waiting" => pc[d] = "waiting" /\ d # Head(toSignal)
    BY <1>6 DEF SignalSend
  <2>2. \A d \in ElementsOf(toSignal) : d # Head(toSignal) => d \in ElementsOf(toSignal')
    BY <1>6, TailKeeps DEF SignalSend
  <2>3. UNCHANGED <<pulls, cpLock, url>>
    BY <1>6 DEF SignalSend
  <2> QED BY <2>1, <2>2, <2>3
<1>7. ASSUME NEW c \in Calls, SignalUnlock(c) PROVE ParkedIsListed'
  <2>1. \A d \in Calls : pc'[d] = "waiting" => pc[d] = "waiting"
    BY <1>7 DEF SignalUnlock
  <2>2. ElementsOf(toSignal) = {}
    BY <1>7 DEF SignalUnlock, ElementsOf
  <2>3. \A d \in Calls : pc[d] = "waiting" => url[d] # url[c]
    BY <1>7, <2>2, QueueAssumption DEF SignalUnlock
  <2>4. /\ DOMAIN pulls' = DOMAIN pulls \ {url[c]}
        /\ \A u \in DOMAIN pulls' : pulls'[u] = pulls[u]
    BY <1>7 DEF SignalUnlock
  <2>5. url' = url /\ cpLock' = Nobody
    BY <1>7 DEF SignalUnlock
  <2> QED BY <2>1, <2>3, <2>4, <2>5
<1>8. ASSUME NEW c \in Calls, TimeOut(c) \/ ReadAfterWait(c) \/ Recycle(c)
      PROVE ParkedIsListed'
  <2>1. \A d \in Calls : pc'[d] = "waiting" => pc[d] = "waiting"
    BY <1>8 DEF TimeOut, ReadAfterWait, Recycle
  <2>2. UNCHANGED <<pulls, cpLock, toSignal, url>>
    BY <1>8 DEF TimeOut, ReadAfterWait, Recycle
  <2> QED BY <2>1, <2>2
<1>9. CASE QueueRestart
  BY <1>9 DEF QueueRestart
<1>10. CASE UNCHANGED queueVars
  BY <1>10 DEF queueVars
<1> QED BY <1>1, <1>2, <1>3, <1>4, <1>5, <1>6, <1>7, <1>8, <1>9, <1>10 DEF QueueNext, Step

\* A call enters a list only when it is parked for the URL of that list, and
\* its name is not used again before the list is gone.
LEMMA ListedStep ==
  ASSUME QueueInv, [QueueNext]_queueVars
  PROVE  ListedForUrl'
<1> USE DEF QueueInv, QueueTypeOK, ListedForUrl, LockIsForSignaling, Goto
<1>1. ASSUME NEW c \in Calls, NEW u \in Urls, Miss(c, u) PROVE ListedForUrl'
  <2>1. \A v \in DOMAIN pulls : c \notin ElementsOf(pulls[v])
    BY <1>1 DEF Miss
  <2>2. \A d \in Calls : d # c => pc'[d] = pc[d] /\ url'[d] = url[d]
    BY <1>1 DEF Miss
  <2>3. cpLock # Nobody => cpLock # c
    BY <1>1 DEF Miss
  <2>4. UNCHANGED <<pulls, cpLock, toSignal>>
    BY <1>1 DEF Miss
  <2>5. \A v \in DOMAIN pulls : ElementsOf(pulls[v]) \subseteq Calls
    BY DEF ElementsOf
  <2> QED BY <2>1, <2>2, <2>3, <2>4, <2>5
<1>2. ASSUME NEW c \in Calls, EnqueueFirst(c) PROVE ListedForUrl'
  <2>1. \A v \in DOMAIN pulls : c \notin ElementsOf(pulls[v])
    BY <1>2 DEF EnqueueFirst
  <2>2. \A d \in Calls : d # c => pc'[d] = pc[d]
    BY <1>2 DEF EnqueueFirst
  <2>3. \A v \in DOMAIN pulls : ElementsOf(pulls[v]) \subseteq Calls
    BY DEF ElementsOf
  <2>4. /\ DOMAIN pulls' = DOMAIN pulls \cup {url[c]}
        /\ \A v \in DOMAIN pulls : pulls'[v] = pulls[v]
        /\ ElementsOf(pulls'[url[c]]) = {}
    BY <1>2 DEF EnqueueFirst, ElementsOf
  <2> QED BY <1>2, <2>1, <2>2, <2>3, <2>4 DEF EnqueueFirst
<1>3. ASSUME NEW c \in Calls, EnqueueWait(c) PROVE ListedForUrl'
  <2>1. /\ DOMAIN pulls' = DOMAIN pulls
        /\ \A v \in DOMAIN pulls : v # url[c] => pulls'[v] = pulls[v]
        /\ ElementsOf(pulls'[url[c]]) = ElementsOf(pulls[url[c]]) \cup {c}
    BY <1>3, AppendAdds DEF EnqueueWait
  <2>2. \A d \in Calls : d # c => pc'[d] = pc[d]
    BY <1>3 DEF EnqueueWait
  <2>3. \A v \in DOMAIN pulls : ElementsOf(pulls[v]) \subseteq Calls
    BY DEF ElementsOf
  <2>4. pc'[c] = "waiting" /\ url' = url /\ cpLock' = Nobody
    BY <1>3 DEF EnqueueWait
  <2>5. ASSUME NEW v \in DOMAIN pulls', NEW d \in ElementsOf(pulls'[v])
        PROVE  url'[d] = v /\ pc'[d] \in {"waiting", "woken", "done"}
    <3>1. CASE d = c
      <4>1. v = url[c]
        BY <1>3, <2>1, <3>1 DEF EnqueueWait
      <4> QED BY <2>4, <3>1, <4>1
    <3>2. CASE d # c
      <4>1. v \in DOMAIN pulls /\ d \in ElementsOf(pulls[v])
        BY <2>1, <3>2
      <4> QED BY <2>2, <2>3, <2>4, <3>2, <4>1
    <3> QED BY <3>1, <3>2
  <2> QED BY <2>4, <2>5
<1>4. ASSUME NEW c \in Calls, FinishPull(c) PROVE ListedForUrl'
  <2>1. \A v \in DOMAIN pulls : c \notin ElementsOf(pulls[v])
    BY <1>4 DEF FinishPull
  <2>2. \A v \in DOMAIN pulls : ElementsOf(pulls[v]) \subseteq Calls
    BY DEF ElementsOf
  <2> QED BY <1>4, <2>1, <2>2 DEF FinishPull
<1>5. ASSUME NEW c \in Calls, SignalLock(c) PROVE ListedForUrl'
  <2>1. url[c] \in DOMAIN pulls
    BY <1>5 DEF SignalLock, PullsAreTracked, Active
  <2> QED BY <1>5, <2>1 DEF SignalLock
<1>6. ASSUME NEW c \in Calls, SignalSend(c) PROVE ListedForUrl'
  <2>1. ElementsOf(toSignal') \subseteq ElementsOf(toSignal)
    BY <1>6, TailAddsNothing DEF SignalSend
  <2>2. pc' = [pc EXCEPT ![Head(toSignal)] = "woken"]
    BY <1>6 DEF SignalSend
  <2>3. UNCHANGED <<pulls, cpLock, url>>
    BY <1>6 DEF SignalSend
  <2>4. \A v \in DOMAIN pulls : ElementsOf(pulls[v]) \subseteq Calls
    BY DEF ElementsOf
  <2> QED BY <2>1, <2>2, <2>3, <2>4
<1>7. ASSUME NEW c \in Calls, SignalUnlock(c) PROVE ListedForUrl'
  <2>1. /\ DOMAIN pulls' = DOMAIN pulls \ {url[c]}
        /\ \A v \in DOMAIN pulls' : pulls'[v] = pulls[v]
    BY <1>7 DEF SignalUnlock
  <2>2. \A v \in DOMAIN pulls : ElementsOf(pulls[v]) \subseteq Calls
    BY DEF ElementsOf
  <2>3. pc' = [pc EXCEPT ![c] = "done"] /\ url' = url /\ cpLock' = Nobody
    BY <1>7 DEF SignalUnlock
  <2> QED BY <2>1, <2>2, <2>3
<1>8. ASSUME NEW c \in Calls, TimeOut(c) \/ ReadAfterWait(c) PROVE ListedForUrl'
  <2>1. pc' = [pc EXCEPT ![c] = "done"] /\ UNCHANGED <<pulls, cpLock, toSignal, url>>
    BY <1>8 DEF TimeOut, ReadAfterWait
  <2>2. \A v \in DOMAIN pulls : ElementsOf(pulls[v]) \subseteq Calls
    BY DEF ElementsOf
  <2> QED BY <2>1, <2>2
<1>9. ASSUME NEW c \in Calls, Recycle(c) PROVE ListedForUrl'
  <2>1. pc' = [pc EXCEPT ![c] = "idle"] /\ UNCHANGED <<pulls, cpLock, toSignal, url>>
    BY <1>9 DEF Recycle
  <2>2. \A v \in DOMAIN pulls : c \notin ElementsOf(pulls[v])
    BY <1>9 DEF Recycle, Listed
  <2>3. \A v \in DOMAIN pulls : ElementsOf(pulls[v]) \subseteq Calls
    BY DEF ElementsOf
  <2> QED BY <2>1, <2>2, <2>3
<1>10. CASE QueueRestart
  BY <1>10 DEF QueueRestart
<1>11. CASE UNCHANGED queueVars
  BY <1>11 DEF queueVars
<1> QED BY <1>1, <1>2, <1>3, <1>4, <1>5, <1>6, <1>7, <1>8, <1>9, <1>10, <1>11 DEF QueueNext, Step

\* What the properties below rest on holds in every state (cp.pulls, its channels and
\* its mutex), for any number of calls and URLs.
THEOREM QueueAlwaysInv ==
  QueueSpec => []QueueInv
<1>1. QueueInv /\ [QueueNext]_queueVars => QueueInv'
  BY QueueTypeStep, ActiveStep, ParkedStep, ListedStep DEF QueueInv
<1> QED BY QueueInvInit, <1>1, PTL DEF QueueSpec

\* The variables of the coalescing of pulls have their types in every state.
THEOREM QueueTyped ==
  QueueSpec => []QueueTypeOK
<1>1. QueueInv => QueueTypeOK
  BY DEF QueueInv
<1> QED BY QueueAlwaysInv, <1>1, PTL

\* One URL is never pulled twice at a time, for any number of concurrent calls.
THEOREM OnePullerPerUrl ==
  QueueSpec => []SinglePuller
<1>1. QueueInv => SinglePuller
  BY DEF QueueInv
<1> QED BY QueueAlwaysInv, <1>1, PTL

\* cp.pulls has exactly the URLs being pulled, so WaitPulls counts them all.
THEOREM PullsTracked ==
  QueueSpec => []PullsAreTracked
<1>1. QueueInv => PullsAreTracked
  BY DEF QueueInv
<1> QED BY QueueAlwaysInv, <1>1, PTL

\* A parked call always has a puller that has still to send to it.
THEOREM NobodyForgotten ==
  QueueSpec => []NoWaiterForgotten
<1>1. QueueInv => NoWaiterForgotten
  <2> SUFFICES ASSUME QueueInv, NEW c \in Calls, pc[c] = "waiting"
               PROVE  \E p \in Calls :
                        /\ Active(p)
                        /\ url[p] = url[c]
                        /\ url[c] \in DOMAIN pulls
                        /\ c \in ElementsOf(IF cpLock = p THEN toSignal ELSE pulls[url[c]])
    BY DEF NoWaiterForgotten
  <2>1. url[c] \in DOMAIN pulls /\ c \in ElementsOf(pulls[url[c]])
    BY DEF QueueInv, ParkedIsListed
  <2>2. PICK p \in Calls : Active(p) /\ url[p] = url[c]
    BY <2>1 DEF QueueInv, PullsAreTracked
  <2>3. cpLock = p => c \in ElementsOf(toSignal)
    BY <2>2, QueueAssumption DEF QueueInv, ParkedIsListed
  <2> QED BY <2>1, <2>2, <2>3
<1> QED BY QueueAlwaysInv, <1>1, PTL

\* Whoever is woken was woken by a puller of its own URL, after its pull.
THEOREM WokenByOwnPuller ==
  QueueSpec => WokenByItsPuller
<1> DEFINE A == \A c \in Calls : pc[c] = "waiting" /\ pc'[c] = "woken" =>
                  \E p \in Calls : pc[p] = "signaling" /\ url[p] = url[c] /\ cpLock = p
<1>1. ASSUME QueueInv, [QueueNext]_queueVars, NEW c \in Calls,
             pc[c] = "waiting", pc'[c] = "woken"
      PROVE  \E p \in Calls : pc[p] = "signaling" /\ url[p] = url[c] /\ cpLock = p
  <2> USE DEF QueueInv, QueueTypeOK, Goto
  <2>1. PICK p \in Calls : SignalSend(p)
    BY <1>1 DEF QueueNext, Step, Miss, EnqueueFirst, EnqueueWait, FinishPull, SignalLock,
                SignalUnlock, TimeOut, ReadAfterWait, Recycle, QueueRestart, queueVars
  <2>2. toSignal \in Seq(Calls) /\ toSignal # <<>> /\ c = Head(toSignal)
    BY <1>1, <2>1 DEF SignalSend
  <2>3. cpLock = p /\ pc[p] = "signaling"
    BY <1>1, <2>1, QueueAssumption DEF SignalSend, LockIsForSignaling
  <2>4. url[p] \in DOMAIN pulls
    BY <1>1, <2>3 DEF PullsAreTracked, Active
  <2>5. url[c] = url[p]
    BY <1>1, <2>2, <2>3, <2>4, TailAddsNothing, QueueAssumption DEF ListedForUrl
  <2> QED BY <2>3, <2>5
<1>2. QueueInv /\ [QueueNext]_queueVars => [A]_queueVars
  BY <1>1
<1> QED BY <1>2, QueueAlwaysInv, PTL DEF QueueSpec, WokenByItsPuller

\* Appending a new element, or taking the head away, repeats nothing.
LEMMA AppendRepeatsNothing ==
  ASSUME NEW S, NEW s \in Seq(S), NEW e \in S, NoRepeats(s), e \notin ElementsOf(s)
  PROVE  NoRepeats(Append(s, e))
<1>1. \A i \in DOMAIN Append(s, e) :
        (i \in DOMAIN s /\ Append(s, e)[i] = s[i]) \/ (i = Len(s) + 1 /\ Append(s, e)[i] = e)
  OBVIOUS
<1>2. \A i \in DOMAIN s : s[i] # e
  BY DEF ElementsOf
<1> QED BY <1>1, <1>2 DEF NoRepeats

LEMMA TailRepeatsNothing ==
  ASSUME NEW S, NEW s \in Seq(S), s # <<>>, NoRepeats(s)
  PROVE  NoRepeats(Tail(s)) /\ Head(s) \notin ElementsOf(Tail(s))
<1>1. \A i \in DOMAIN Tail(s) : i \in Nat /\ i + 1 \in DOMAIN s /\ i + 1 # 1 /\ Tail(s)[i] = s[i + 1]
  OBVIOUS
<1>2. 1 \in DOMAIN s /\ Head(s) = s[1]
  OBVIOUS
<1>3. ASSUME NEW i \in DOMAIN Tail(s), NEW j \in DOMAIN Tail(s), Tail(s)[i] = Tail(s)[j]
      PROVE  i = j
  <2>1. i + 1 = j + 1
    BY <1>1, <1>3 DEF NoRepeats
  <2> QED BY <1>1, <2>1
<1>4. \A i \in DOMAIN Tail(s) : Tail(s)[i] # Head(s)
  BY <1>1, <1>2 DEF NoRepeats
<1> QED BY <1>3, <1>4 DEF NoRepeats, ElementsOf

\* No list and no channel still to be sent to is repeated by a step: a call
\* is in at most the list of its URL, and leaves no list before that is gone.
LEMMA RepeatsStep ==
  ASSUME QueueSendInv, [QueueNext]_queueVars
  PROVE  (\A u \in DOMAIN pulls' : NoRepeats(pulls'[u])) /\ NoRepeats(toSignal')
<1> DEFINE Goal == (\A u \in DOMAIN pulls' : NoRepeats(pulls'[u])) /\ NoRepeats(toSignal')
<1>0. NoRepeats(<<>>)
  BY DEF NoRepeats
<1> USE DEF QueueSendInv, QueueInv, QueueTypeOK
<1>1. ASSUME NEW c \in Calls, EnqueueFirst(c) PROVE Goal
  <2>1. \A u \in DOMAIN pulls' :
          (u = url[c] /\ pulls'[u] = <<>>) \/ (u \in DOMAIN pulls /\ pulls'[u] = pulls[u])
    BY <1>1 DEF EnqueueFirst
  <2> QED BY <1>0, <1>1, <2>1 DEF EnqueueFirst
<1>2. ASSUME NEW c \in Calls, EnqueueWait(c) PROVE Goal
  <2>1. url[c] \in DOMAIN pulls /\ pc[c] = "missed"
    BY <1>2 DEF EnqueueWait
  <2>2. c \notin ElementsOf(pulls[url[c]])
    BY <2>1 DEF ListedForUrl
  <2>3. NoRepeats(Append(pulls[url[c]], c))
    BY <2>1, <2>2, AppendRepeatsNothing
  <2>4. /\ DOMAIN pulls' = DOMAIN pulls
        /\ pulls'[url[c]] = Append(pulls[url[c]], c)
        /\ \A u \in DOMAIN pulls : u # url[c] => pulls'[u] = pulls[u]
    BY <1>2, <2>1 DEF EnqueueWait
  <2> QED BY <1>2, <2>3, <2>4 DEF EnqueueWait
<1>3. ASSUME NEW c \in Calls, SignalLock(c) PROVE Goal
  BY <1>0, <1>3 DEF SignalLock
<1>4. ASSUME NEW c \in Calls, SignalSend(c) PROVE Goal
  BY <1>4, TailRepeatsNothing DEF SignalSend
<1>5. ASSUME NEW c \in Calls, SignalUnlock(c) PROVE Goal
  BY <1>0, <1>5 DEF SignalUnlock
<1>6. CASE QueueRestart
  BY <1>0, <1>6 DEF QueueRestart
<1>7. CASE UNCHANGED <<pulls, toSignal>>
  BY <1>7
<1> QED BY <1>1, <1>2, <1>3, <1>4, <1>5, <1>6, <1>7
        DEF QueueNext, Step, Miss, FinishPull, TimeOut, ReadAfterWait, Recycle, queueVars

\* A step that moves call c only, and leaves the lists and the mutex alone,
\* keeps what is awaited as long as c is not among what is still to be sent to.
LEMMA AwaitedKept ==
  ASSUME QueueSendInv, NEW c, NEW s, pc' = [pc EXCEPT ![c] = s],
         UNCHANGED <<pulls, cpLock, toSignal>>,
         \A d \in Calls : d # c => url'[d] = url[d], cpLock # Nobody => cpLock # c,
         \A u \in DOMAIN pulls : c \in ElementsOf(pulls[u]) =>
            Awaited(c)' \/ (cpLock # Nobody /\ url[cpLock] = u),
         cpLock # Nobody /\ c \in ElementsOf(toSignal) => Awaited(c)'
  PROVE  /\ cpLock' # Nobody => \A d \in ElementsOf(toSignal') : Awaited(d)'
         /\ \A u \in DOMAIN pulls' : (cpLock' # Nobody => url'[cpLock'] # u) =>
              \A d \in ElementsOf(pulls'[u]) : Awaited(d)'
<1> USE DEF QueueSendInv, QueueInv, QueueTypeOK
<1>1. \A u \in DOMAIN pulls : ElementsOf(pulls[u]) \subseteq Calls
  BY DEF ElementsOf
<1>2. ElementsOf(toSignal) \subseteq Calls
  BY DEF ElementsOf
<1>3. \A d \in Calls : d # c => (Awaited(d)' <=> Awaited(d))
  BY DEF Awaited
<1>4. cpLock # Nobody => url'[cpLock] = url[cpLock]
  OBVIOUS
<1> QED BY <1>1, <1>2, <1>3, <1>4

\* Every channel that is still to be sent to stays one that is received from,
\* or was given up by its call.
LEMMA AwaitedStep ==
  ASSUME QueueSendInv, [QueueNext]_queueVars
  PROVE  /\ cpLock' # Nobody => \A d \in ElementsOf(toSignal') : Awaited(d)'
         /\ \A u \in DOMAIN pulls' : (cpLock' # Nobody => url'[cpLock'] # u) =>
              \A d \in ElementsOf(pulls'[u]) : Awaited(d)'
<1> DEFINE Goal == /\ cpLock' # Nobody => \A d \in ElementsOf(toSignal') : Awaited(d)'
                   /\ \A u \in DOMAIN pulls' : (cpLock' # Nobody => url'[cpLock'] # u) =>
                        \A d \in ElementsOf(pulls'[u]) : Awaited(d)'
<1> USE DEF QueueSendInv, QueueInv, QueueTypeOK
<1>1. \A u \in DOMAIN pulls : ElementsOf(pulls[u]) \subseteq Calls
  BY DEF ElementsOf
<1>2. ElementsOf(toSignal) \subseteq Calls
  BY DEF ElementsOf
<1>3. cpLock # Nobody => cpLock \in Calls /\ pc[cpLock] = "signaling" /\ url[cpLock] \in DOMAIN pulls
  BY DEF LockIsForSignaling, PullsAreTracked, Active
<1>4. cpLock # Nobody => ElementsOf(toSignal) \subseteq ElementsOf(pulls[url[cpLock]])
  BY DEF ListedForUrl
<1>5. \A u \in DOMAIN pulls : \A d \in ElementsOf(pulls[u]) :
        url[d] = u /\ pc[d] \in {"waiting", "woken", "done"}
  BY DEF ListedForUrl
<1>6. ASSUME NEW c \in Calls, NEW u \in Urls, Miss(c, u) PROVE Goal
  <2>1. pc' = [pc EXCEPT ![c] = "missed"] /\ UNCHANGED <<pulls, cpLock, toSignal>>
    BY <1>6 DEF Miss, Goto
  <2>2. \A v \in DOMAIN pulls : c \notin ElementsOf(pulls[v])
    BY <1>5, <1>6 DEF Miss
  <2>3. (cpLock # Nobody => cpLock # c) /\ (\A d \in Calls : d # c => url'[d] = url[d])
    BY <1>3, <1>6 DEF Miss
  <2> HIDE DEF QueueSendInv, QueueInv, QueueTypeOK
  <2> QED BY <1>3, <1>4, <2>1, <2>2, <2>3, AwaitedKept
<1>7. ASSUME NEW c \in Calls, EnqueueFirst(c) PROVE Goal
  <2>1. pc' = [pc EXCEPT ![c] = "pulling"] /\ cpLock' = Nobody
    BY <1>7 DEF EnqueueFirst, Goto
  <2>2. \A v \in DOMAIN pulls : c \notin ElementsOf(pulls[v])
    BY <1>5, <1>7 DEF EnqueueFirst
  <2>3. \A v \in DOMAIN pulls' :
          ElementsOf(pulls'[v]) = {} \/ (v \in DOMAIN pulls /\ pulls'[v] = pulls[v])
    <3>1. \A v \in DOMAIN pulls' :
            pulls'[v] = <<>> \/ (v \in DOMAIN pulls /\ pulls'[v] = pulls[v])
      BY <1>7 DEF EnqueueFirst
    <3>2. ElementsOf(<<>>) = {}
      BY DEF ElementsOf
    <3> QED BY <3>1, <3>2
  <2>4. \A v \in DOMAIN pulls : \A d \in ElementsOf(pulls[v]) : Awaited(d)'
    BY <1>1, <1>7, <2>1, <2>2 DEF EnqueueFirst, Awaited
  <2> QED BY <2>1, <2>3, <2>4
<1>8. ASSUME NEW c \in Calls, EnqueueWait(c) PROVE Goal
  <2>1. pc' = [pc EXCEPT ![c] = "waiting"] /\ cpLock' = Nobody /\ cpLock = Nobody
    BY <1>8 DEF EnqueueWait, Goto
  <2>2. /\ DOMAIN pulls' = DOMAIN pulls
        /\ \A v \in DOMAIN pulls : ElementsOf(pulls'[v]) \subseteq ElementsOf(pulls[v]) \cup {c}
    BY <1>8, AppendAdds DEF EnqueueWait
  <2>3. \A d \in Calls : Awaited(d) \/ d = c => Awaited(d)'
    BY <2>1 DEF Awaited
  <2> QED BY <1>1, <2>1, <2>2, <2>3
<1>9. ASSUME NEW c \in Calls, FinishPull(c) PROVE Goal
  <2>1. pc' = [pc EXCEPT ![c] = "signaling"] /\ UNCHANGED <<pulls, cpLock, toSignal, url>>
    BY <1>9 DEF FinishPull, Goto
  <2>2. \A v \in DOMAIN pulls : c \notin ElementsOf(pulls[v])
    BY <1>5, <1>9 DEF FinishPull
  <2>3. cpLock # Nobody => cpLock # c
    BY <1>3, <1>9 DEF FinishPull
  <2> HIDE DEF QueueSendInv, QueueInv, QueueTypeOK
  <2> QED BY <1>3, <1>4, <2>1, <2>2, <2>3, AwaitedKept
<1>10. ASSUME NEW c \in Calls, SignalLock(c) PROVE Goal
  <2>1. url[c] \in DOMAIN pulls
    BY <1>10 DEF SignalLock, PullsAreTracked, Active
  <2>2. cpLock = Nobody /\ toSignal' = pulls[url[c]] /\ cpLock' = c /\ UNCHANGED <<pulls, pc, url>>
    BY <1>10, <2>1 DEF SignalLock
  <2>3. \A v \in DOMAIN pulls : \A d \in ElementsOf(pulls[v]) : Awaited(d)
    BY <2>2
  <2> QED BY <2>1, <2>2, <2>3 DEF Awaited
<1>11. ASSUME NEW c \in Calls, SignalSend(c) PROVE Goal
  <2> DEFINE h == Head(toSignal)
  <2>1. cpLock = c /\ cpLock # Nobody /\ pc' = [pc EXCEPT ![h] = "woken"]
        /\ toSignal' = Tail(toSignal) /\ UNCHANGED <<pulls, cpLock, url>>
    BY <1>11, QueueAssumption DEF SignalSend, Goto
  <2>2. ElementsOf(Tail(toSignal)) \subseteq ElementsOf(toSignal) /\ h \in ElementsOf(toSignal)
    BY <1>11, TailAddsNothing DEF SignalSend
  <2>3. h \notin ElementsOf(Tail(toSignal))
    BY <1>11, TailRepeatsNothing DEF SignalSend
  <2>4. \A v \in DOMAIN pulls : v # url[c] => h \notin ElementsOf(pulls[v])
    BY <1>3, <1>4, <1>5, <2>1, <2>2
  <2>5. \A d \in Calls : d # h /\ Awaited(d) => Awaited(d)'
    BY <2>1 DEF Awaited
  <2> HIDE DEF h
  <2>6. \A d \in ElementsOf(toSignal') : Awaited(d)'
    BY <1>2, <2>1, <2>2, <2>3, <2>5
  <2>7. \A v \in DOMAIN pulls : v # url[c] => \A d \in ElementsOf(pulls[v]) : Awaited(d)'
    BY <1>1, <2>1, <2>4, <2>5
  <2> QED BY <2>1, <2>6, <2>7
<1>12. ASSUME NEW c \in Calls, SignalUnlock(c) PROVE Goal
  <2>1. cpLock = c /\ cpLock # Nobody /\ pc' = [pc EXCEPT ![c] = "done"] /\ cpLock' = Nobody
    BY <1>12, QueueAssumption DEF SignalUnlock, Goto
  <2>2. /\ DOMAIN pulls' = DOMAIN pulls \ {url[c]}
        /\ \A v \in DOMAIN pulls' : pulls'[v] = pulls[v]
    BY <1>12 DEF SignalUnlock
  <2>3. \A v \in DOMAIN pulls : c \notin ElementsOf(pulls[v])
    BY <1>3, <1>5, <2>1
  <2>4. \A d \in Calls : d # c /\ Awaited(d) => Awaited(d)'
    BY <2>1 DEF Awaited
  <2> QED BY <1>1, <2>1, <2>2, <2>3, <2>4
<1>13. ASSUME NEW c \in Calls, TimeOut(c) PROVE Goal
  <2>1. pc' = [pc EXCEPT ![c] = "done"] /\ UNCHANGED <<pulls, cpLock, toSignal, url>>
    BY <1>13 DEF TimeOut, Goto
  <2>2. Awaited(c)'
    BY <1>13, <2>1 DEF TimeOut, Awaited
  <2>3. cpLock # Nobody => cpLock # c
    BY <1>3, <1>13 DEF TimeOut
  <2> HIDE DEF QueueSendInv, QueueInv, QueueTypeOK
  <2> QED BY <2>1, <2>2, <2>3, AwaitedKept
<1>14. ASSUME NEW c \in Calls, ReadAfterWait(c) PROVE Goal
  <2>1. pc' = [pc EXCEPT ![c] = "done"] /\ UNCHANGED <<pulls, cpLock, toSignal, url>>
    BY <1>14 DEF ReadAfterWait, Goto
  <2>2. ~Awaited(c)
    BY <1>14 DEF ReadAfterWait, Awaited
  <2>3. \A v \in DOMAIN pulls : c \in ElementsOf(pulls[v]) => cpLock # Nobody /\ url[cpLock] = v
    BY <2>2
  <2>4. cpLock # Nobody => cpLock # c /\ c \notin ElementsOf(toSignal)
    BY <1>3, <1>14, <2>2 DEF ReadAfterWait
  <2> HIDE DEF QueueSendInv, QueueInv, QueueTypeOK
  <2> QED BY <2>1, <2>3, <2>4, AwaitedKept
<1>15. ASSUME NEW c \in Calls, Recycle(c) PROVE Goal
  <2>1. pc' = [pc EXCEPT ![c] = "idle"] /\ UNCHANGED <<pulls, cpLock, toSignal, url>>
    BY <1>15 DEF Recycle, Goto
  <2>2. \A v \in DOMAIN pulls : c \notin ElementsOf(pulls[v])
    BY <1>15 DEF Recycle, Listed
  <2>3. cpLock # Nobody => cpLock # c
    BY <1>3, <1>15 DEF Recycle
  <2> HIDE DEF QueueSendInv, QueueInv, QueueTypeOK
  <2> QED BY <1>3, <1>4, <2>1, <2>2, <2>3, AwaitedKept
<1>16. CASE QueueRestart
  BY <1>16 DEF QueueRestart
<1>17. CASE UNCHANGED queueVars
  BY <1>17 DEF queueVars, Awaited
<1> QED BY <1>6, <1>7, <1>8, <1>9, <1>10, <1>11, <1>12, <1>13, <1>14, <1>15, <1>16, <1>17
        DEF QueueNext, Step

\* Each channel is listed once, and what the holder of the mutex has still to
\* send to is received from, or was given up: in every state, for any number
\* of calls, URLs and timeouts.
THEOREM QueueAlwaysSendInv ==
  QueueSpec => []QueueSendInv
<1>1. QueueInit => QueueSendInv
  BY QueueInvInit DEF QueueInit, QueueSendInv, NoRepeats
<1>2. QueueSendInv /\ [QueueNext]_queueVars => QueueSendInv'
  <2> SUFFICES ASSUME QueueSendInv, [QueueNext]_queueVars PROVE QueueSendInv'
    OBVIOUS
  <2>1. QueueInv'
    BY QueueTypeStep, ActiveStep, ParkedStep, ListedStep DEF QueueSendInv, QueueInv
  <2> QED BY <2>1, RepeatsStep, AwaitedStep DEF QueueSendInv
<1> QED BY <1>1, <1>2, PTL DEF QueueSpec

\* The send signalWaiters holds the mutex for is received at once, unless the
\* call it is for has given up waiting.
THEOREM SendsBlockOnTimeoutsOnly ==
  QueueSpec => []OnlyTimeoutsBlockSends
<1>1. QueueSendInv => OnlyTimeoutsBlockSends
  BY TailAddsNothing DEF QueueSendInv, QueueInv, QueueTypeOK, OnlyTimeoutsBlockSends
<1> QED BY QueueAlwaysSendInv, <1>1, PTL

\* While no timer fires, the call that holds the mutex of the pulls can always
\* take its next step, so no URL is held up by the signaling for another.
THEOREM HolderIsNeverStuck ==
  ASSUME MayTimeOut = {}
  PROVE  QueueSpec => [](cpLock # Nobody => toSignal = <<>> \/ pc[Head(toSignal)] = "waiting")
<1>1. OnlyTimeoutsBlockSends => (cpLock # Nobody => toSignal = <<>> \/ pc[Head(toSignal)] = "waiting")
  BY DEF OnlyTimeoutsBlockSends, Awaited
<1> QED BY SendsBlockOnTimeoutsOnly, <1>1, PTL

-----------------------------------------------------------------------------
\* The roles the abstract specification sees, by the place in GetManifest.
LEMMA RoleValues ==
  ASSUME QueueTypeOK, NEW c \in Calls
  PROVE  /\ RoleOf(c) = "out"        <=> pc[c] \in {"idle", "done"}
         /\ RoleOf(c) = "asking"     <=> pc[c] = "missed"
         /\ RoleOf(c) = "leader"     <=> pc[c] = "pulling"
         /\ RoleOf(c) = "announcing" <=> pc[c] = "signaling"
         /\ RoleOf(c) = "follower"   <=> pc[c] = "waiting"
         /\ RoleOf(c) = "released"   <=> pc[c] = "woken"
BY DEF RoleOf, QueueTypeOK, PcValues

\* Every step of PullQueue is a step of SingleFlight, or changes no role.
LEMMA QueueStepSimulates ==
  ASSUME QueueInv, QueueInv', [QueueNext]_queueVars
  PROVE  [Flight!FlightNext]_(Flight!flightVars)
<1> DEFINE R == [c \in Calls |-> RoleOf(c)]
<1> DEFINE Moved(c, r) == R' = [R EXCEPT ![c] = r] /\ url' = url
<1>1. \A c \in Calls :
        (pc[c] \in PcValues /\ RoleOf(c) = R[c]) /\ (pc'[c] \in PcValues /\ RoleOf(c)' = R'[c])
  BY DEF QueueInv, QueueTypeOK
<1>2. ASSUME NEW c \in Calls, NEW s \in PcValues, pc' = [pc EXCEPT ![c] = s]
      PROVE  \A d \in Calls \ {c} : RoleOf(d)' = RoleOf(d)
  BY <1>2 DEF RoleOf
<1>3. ASSUME NEW c \in Calls, NEW u \in Urls, Miss(c, u)
      PROVE  Flight!Ask(c, u)
  <2>1. RoleOf(c) = "out" /\ RoleOf(c)' = "asking"
    BY <1>3 DEF Miss, Goto, RoleOf, QueueInv, QueueTypeOK
  <2>2. R' = [R EXCEPT ![c] = "asking"]
    BY <1>2, <1>3, <2>1 DEF Miss, Goto, PcValues
  <2> QED BY <1>3, <2>1, <2>2 DEF Miss, Flight!Ask
<1>4. ASSUME NEW c \in Calls, EnqueueFirst(c) PROVE Flight!Lead(c)
  <2>1. RoleOf(c) = "asking" /\ RoleOf(c)' = "leader"
    BY <1>4 DEF EnqueueFirst, Goto, RoleOf, QueueInv, QueueTypeOK
  <2>2. Moved(c, "leader")
    BY <1>2, <1>4, <2>1 DEF EnqueueFirst, Goto, PcValues
  <2>3. \A p \in Calls : Active(p) => url[p] # url[c]
    BY <1>4 DEF EnqueueFirst, QueueInv, PullsAreTracked
  <2>4. \A p \in Calls : Flight!Leads(p) => Active(p)
    BY RoleValues DEF Flight!Leads, Active, QueueInv
  <2> QED BY <2>1, <2>2, <2>3, <2>4 DEF Flight!Lead, Flight!Become
<1>5. ASSUME NEW c \in Calls, EnqueueWait(c) PROVE Flight!Follow(c)
  <2>1. RoleOf(c) = "asking" /\ RoleOf(c)' = "follower"
    BY <1>5 DEF EnqueueWait, Goto, RoleOf, QueueInv, QueueTypeOK
  <2>2. Moved(c, "follower")
    BY <1>2, <1>5, <2>1 DEF EnqueueWait, Goto, PcValues
  <2>3. PICK p \in Calls : Active(p) /\ url[p] = url[c]
    BY <1>5 DEF EnqueueWait, QueueInv, PullsAreTracked
  <2>4. Flight!Leads(p)
    BY <2>3, RoleValues DEF Flight!Leads, Active, QueueInv
  <2> QED BY <2>1, <2>2, <2>3, <2>4 DEF Flight!Follow, Flight!Become
<1>6. ASSUME NEW c \in Calls, FinishPull(c) PROVE Flight!Announce(c)
  <2>1. RoleOf(c) = "leader" /\ RoleOf(c)' = "announcing"
    BY <1>6 DEF FinishPull, Goto, RoleOf, QueueInv, QueueTypeOK
  <2>2. Moved(c, "announcing")
    BY <1>2, <1>6, <2>1 DEF FinishPull, Goto, PcValues
  <2> QED BY <2>1, <2>2 DEF Flight!Announce, Flight!Become
<1>7. ASSUME NEW c \in Calls, SignalLock(c) PROVE UNCHANGED Flight!flightVars
  BY <1>7 DEF SignalLock, Flight!flightVars, RoleOf
<1>8. ASSUME NEW c \in Calls, SignalSend(c)
      PROVE  \E p, d \in Calls : Flight!Release(p, d)
  <2>1. toSignal \in Seq(Calls) /\ toSignal # <<>>
    BY <1>8 DEF SignalSend, QueueInv, QueueTypeOK
  <2> PICK d \in Calls : d = Head(toSignal)
    BY <2>1
  <2>2. pc[d] = "waiting" /\ pc' = [pc EXCEPT ![d] = "woken"] /\ url' = url
    BY <1>8 DEF SignalSend, Goto
  <2>3. RoleOf(d) = "follower" /\ RoleOf(d)' = "released"
    BY <2>2 DEF RoleOf, QueueInv, QueueTypeOK
  <2>4. Moved(d, "released")
    BY <1>2, <2>2, <2>3 DEF PcValues
  <2>5. RoleOf(c) = "announcing"
    BY <1>8, QueueAssumption DEF SignalSend, QueueInv, LockIsForSignaling, RoleOf
  <2>6. url[c] = url[d]
    BY <1>8, <2>1, <2>2, TailAddsNothing, QueueAssumption
       DEF SignalSend, QueueInv, QueueTypeOK, ListedForUrl, LockIsForSignaling,
           PullsAreTracked, Active
  <2>7. Flight!Release(c, d)
    BY <2>2, <2>3, <2>4, <2>5, <2>6 DEF Flight!Release, Flight!Become
  <2> QED BY <2>2, <2>7
<1>9. ASSUME NEW c \in Calls, SignalUnlock(c) PROVE Flight!Finish(c)
  <2>1. pc[c] = "signaling"
    BY <1>9, QueueAssumption DEF SignalUnlock, QueueInv, LockIsForSignaling
  <2>2. RoleOf(c) = "announcing" /\ RoleOf(c)' = "out"
    BY <1>9, <2>1 DEF SignalUnlock, Goto, RoleOf, QueueInv, QueueTypeOK
  <2>3. Moved(c, "out")
    BY <1>2, <1>9, <2>2 DEF SignalUnlock, Goto, PcValues
  <2>4. \A d \in Calls : pc[d] = "waiting" => url[d] # url[c]
    BY <1>9, QueueAssumption DEF SignalUnlock, QueueInv, ParkedIsListed, ElementsOf
  <2> QED BY <2>2, <2>3, <2>4, RoleValues DEF Flight!Finish, Flight!Become, QueueInv
<1>10. ASSUME NEW c \in Calls, TimeOut(c) PROVE Flight!GiveUp(c)
  <2>1. RoleOf(c) = "follower" /\ RoleOf(c)' = "out"
    BY <1>10 DEF TimeOut, Goto, RoleOf, QueueInv, QueueTypeOK
  <2>2. Moved(c, "out")
    BY <1>2, <1>10, <2>1 DEF TimeOut, Goto, PcValues
  <2> QED BY <1>10, <2>1, <2>2 DEF TimeOut, Flight!GiveUp, Flight!Become
<1>11. ASSUME NEW c \in Calls, ReadAfterWait(c) PROVE Flight!Return(c)
  <2>1. RoleOf(c) = "released" /\ RoleOf(c)' = "out"
    BY <1>11 DEF ReadAfterWait, Goto, RoleOf, QueueInv, QueueTypeOK
  <2>2. Moved(c, "out")
    BY <1>2, <1>11, <2>1 DEF ReadAfterWait, Goto, PcValues
  <2> QED BY <2>1, <2>2 DEF Flight!Return, Flight!Become
<1>12. ASSUME NEW c \in Calls, Recycle(c) PROVE UNCHANGED Flight!flightVars
  <2>1. RoleOf(c) = "out" /\ RoleOf(c)' = "out"
    BY <1>12 DEF Recycle, Goto, RoleOf, QueueInv, QueueTypeOK
  <2>2. R' = R
    BY <1>2, <1>12, <2>1 DEF Recycle, Goto, PcValues
  <2> QED BY <1>12, <2>2 DEF Recycle, Flight!flightVars
<1>13. CASE QueueRestart
  <2>1. \A c \in Calls : RoleOf(c)' = "out"
    BY <1>13 DEF QueueRestart, RoleOf
  <2> QED BY <1>13, <2>1 DEF QueueRestart, Flight!FlightNext, Flight!Crash
<1>14. CASE UNCHANGED queueVars
  BY <1>14 DEF queueVars, Flight!flightVars, RoleOf
<1> QED BY <1>3, <1>4, <1>5, <1>6, <1>7, <1>8, <1>9, <1>10, <1>11, <1>12, <1>13, <1>14
        DEF QueueNext, Step, Flight!FlightNext

\* The map of channels under its mutex implements SingleFlight: in particular
\* a puller that is finished has released every call that waited for it.
THEOREM QueueImplementsFlight ==
  QueueSpec => ImplementsSingleFlight
<1>1. QueueInit => Flight!FlightInit
  BY DEF QueueInit, Flight!FlightInit, RoleOf
<1>2. QueueInv /\ QueueInv' /\ [QueueNext]_queueVars => [Flight!FlightNext]_(Flight!flightVars)
  BY QueueStepSimulates
<1> QED BY <1>1, <1>2, QueueAlwaysInv, PTL DEF QueueSpec, ImplementsSingleFlight, Flight!FlightSpec
=============================================================================
