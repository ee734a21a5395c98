------------------------- MODULE TokenRefreshProofs -------------------------
(***************************************************************************)
(* Proofs about TokenRefresh, for every set of processes and goroutines    *)
(* and every bound.  IInv is inductive: one lemma per conjunct says that   *)
(* every step preserves it, and the theorems at the end follow from it.    *)
(* Two facts carry the argument: a goroutine past the mutex is alone in    *)
(* its process (MutexInv), and with nothing slipped a goroutine between    *)
(* lock and release is alone on the machine (HolderInv), so the token it   *)
(* read from the store is still the one its grant honours when it asks.    *)
(***************************************************************************)
EXTENDS TokenRefresh, TLAPS

(* The fields of a token are in their bounds, and NoToken is no token.     *)
LEMMA TokenFacts ==
    /\ NoToken \notin Tokens
    /\ \A t \in Tokens : /\ t.grant \in 1..MaxGrants /\ t.seq \in 0..MaxSeq
                        /\ t # NoToken
    /\ NoToken.grant = 0 /\ NoToken.seq = 0
  BY DEF Tokens, NoToken

(* The token a rotation issues is the next one of the same grant.          *)
LEMMA SuccessorFacts ==
    ASSUME NEW t \in Tokens
    PROVE  /\ Successor(t).grant = t.grant
           /\ Successor(t).seq = t.seq + 1
           /\ t.seq < MaxSeq => Successor(t) \in Tokens
  BY ConstantsAssumption DEF Tokens, Successor

(* A request moves nothing but its own grant, and only forward.            *)
LEMMA ProviderFacts ==
    ASSUME TypeOK, NEW t \in Tokens, Rotates(t) \/ Replays(t) \/ Refuses(t)
    PROVE  /\ cur' \in [1..MaxGrants -> 0..MaxSeq]
           /\ revoked' \subseteq 1..MaxGrants /\ replayed' \in BOOLEAN
           /\ revoked \subseteq revoked'
           /\ \A g \in 1..MaxGrants : /\ cur'[g] >= cur[g]
                                      /\ g # t.grant => cur'[g] = cur[g]
<1>1. CASE Rotates(t)
  <2>1. t.grant \in 1..MaxGrants /\ cur[t.grant] + 1 \in 0..MaxSeq
    BY <1>1, TokenFacts, ConstantsAssumption DEF TypeOK, Rotates
  <2> QED BY <1>1, <2>1 DEF TypeOK, Rotates
<1>2. CASE Replays(t)
  <2>1. t.grant \in 1..MaxGrants BY TokenFacts
  <2>2. \A g \in 1..MaxGrants : cur[g] \in 0..MaxSeq BY DEF TypeOK
  <2>3. cur' = cur /\ replayed' = TRUE /\ revoked' = revoked \union {t.grant}
    BY <1>2 DEF Replays
  <2>4. revoked \subseteq revoked' /\ revoked' \subseteq 1..MaxGrants
    BY <2>1, <2>3 DEF TypeOK
  <2>5. \A g \in 1..MaxGrants : cur'[g] >= cur[g] /\ cur'[g] = cur[g]
    BY <2>2, <2>3, ConstantsAssumption
  <2> QED BY <2>3, <2>4, <2>5 DEF TypeOK
<1>3. CASE Refuses(t)
    BY <1>3, TokenFacts, ConstantsAssumption
    DEF TypeOK, Refuses
<1> QED BY <1>1, <1>2, <1>3

(* Every step keeps the types.                                             *)
LEMMA TypeStep == ASSUME IInv, [Next]_vars PROVE TypeOK'
<1> USE ConstantsAssumption
<1>0. TypeOK /\ SourceInv /\ MutexInv /\ RotatedInv BY DEF IInv
<1>1. ASSUME Approve PROVE TypeOK'
  BY <1>0, <1>1 DEF Approve, TypeOK, Tokens, procVars, callVars
<1>2. ASSUME LoginSave PROVE TypeOK'
  BY <1>0, <1>2 DEF LoginSave, TypeOK, Labels, procVars, callVars, idpVars
<1>3. ASSUME LoginFails PROVE TypeOK'
  BY <1>0, <1>3 DEF LoginFails, TypeOK, Labels, procVars, callVars, idpVars
<1>4. ASSUME Logout PROVE TypeOK'
  BY <1>0, <1>4 DEF Logout, TypeOK, Labels, procVars, callVars, idpVars
<1>5. ASSUME NEW p \in Procs, Start(p) PROVE TypeOK'
  BY <1>0, <1>5 DEF Start, TypeOK, Labels, callVars, storeVars, idpVars
<1>6. ASSUME NEW p \in Procs, Stop(p) PROVE TypeOK'
  <2>1. tok' \in [Procs -> Tokens \union {NoToken}]
    BY <1>0, <1>6 DEF Stop, TypeOK
  <2>2. orphans' \subseteq Tokens
    BY <1>0, TokenFacts, <1>6 DEF Stop, TypeOK, SourceInv, MutexInv
  <2>3. slipped' \in BOOLEAN /\ flock' \in Workers \union {NoOne}
    BY <1>0, <1>6 DEF Stop, TypeOK
  <2>4. /\ up' \subseteq Procs
        /\ discovered' \subseteq Procs
        /\ mu' \in [Procs -> Workers \union {NoOne}]
        /\ pc' \in [Workers -> Labels]
        /\ wire' \in [Workers -> Answers \union {"none", "asked"}]
    BY <1>0, <1>6 DEF Stop, TypeOK, Labels
  <2> QED BY <1>0, <2>1, <2>2, <2>3, <2>4, <1>6 DEF Stop, TypeOK, storeVars
<1>7. ASSUME NEW w \in Workers, Call(w) PROVE TypeOK'
  BY <1>0, <1>7 DEF Call, TypeOK, Labels, procVars, storeVars, idpVars
<1>8. ASSUME NEW w \in Workers, Reuse(w) PROVE TypeOK'
  BY <1>0, <1>8 DEF Reuse, TypeOK, Labels, Return, Release, storeVars, idpVars
<1>9. ASSUME NEW w \in Workers, Enter(w) PROVE TypeOK'
  BY <1>0, <1>9 DEF Enter, TypeOK, Labels, storeVars, idpVars
<1>10. ASSUME NEW w \in Workers, TakeLock(w) PROVE TypeOK'
  BY <1>0, <1>10 DEF TakeLock, TypeOK, Labels, procVars, storeVars, idpVars
<1>11. ASSUME NEW w \in Workers, SkipLock(w) PROVE TypeOK'
  BY <1>0, <1>11 DEF SkipLock, TypeOK, Labels, procVars, storeVars, idpVars
<1>12. ASSUME NEW w \in Workers, ReloadLive(w) PROVE TypeOK'
  <2>1. stored \in Tokens \union {NoToken} BY <1>0 DEF TypeOK
  <2> QED BY <1>0, <2>1, <1>12
      DEF ReloadLive, Return, Release, Reread, TypeOK, Labels, storeVars,
          idpVars
<1>13. ASSUME NEW w \in Workers, ReloadExpired(w) PROVE TypeOK'
  <2>1. pc' \in [Workers -> Labels]
        /\ wire' \in [Workers -> Answers \union {"none", "asked"}]
    BY <1>0, <1>13 DEF ReloadExpired, GoOn, TypeOK, Labels
  <2> QED BY <1>0, <2>1, <1>13
      DEF ReloadExpired, Reread, TypeOK, storeVars, idpVars
<1>14. ASSUME NEW w \in Workers, ReloadFails(w) PROVE TypeOK'
  BY <1>0, <1>14
  DEF ReloadFails, TypeOK, Labels, GoOn, procVars, storeVars, idpVars
<1>15. ASSUME NEW w \in Workers, Discover(w) PROVE TypeOK'
  BY <1>0, <1>15 DEF Discover, TypeOK, Labels, storeVars, idpVars
<1>16. ASSUME NEW w \in Workers, DiscoverFails(w) PROVE TypeOK'
  BY <1>0, <1>16
  DEF DiscoverFails, TypeOK, Labels, Return, Release, storeVars, idpVars
<1>17. ASSUME NEW w \in Workers, Answer(w) PROVE TypeOK'
  <2>1. wire' \in [Workers -> Answers \union {"none", "asked"}]
    BY <1>0, <1>17 DEF Answer, TypeOK, Answers
  <2>2. ProcOf[w] \in Procs /\ tok[ProcOf[w]] \in Tokens
    BY <1>0, <1>17 DEF Answer, TypeOK, SourceInv, MutexInv
  <2>3. Rotates(tok[ProcOf[w]]) \/ Replays(tok[ProcOf[w]]) \/ Refuses(tok[ProcOf[w]])
    BY <1>17 DEF Answer
  <2>4. UNCHANGED <<procVars, pc, flock, storeVars, grants, unknown, orphans, expired, slipped>>
    BY <1>17 DEF Answer
  <2> QED BY <1>0, <2>1, <2>2, <2>3, <2>4, ProviderFacts
      DEF TypeOK, procVars, storeVars
<1>18. ASSUME NEW w \in Workers, Shed(w) PROVE TypeOK'
  BY <1>0, <1>18 DEF Shed, TypeOK, Labels, Answers, procVars, storeVars, idpVars
<1>19. ASSUME NEW w \in Workers, AnswerLost(w) PROVE TypeOK'
  <2>1. wire' \in [Workers -> Answers \union {"none", "asked"}]
    BY <1>0, <1>19 DEF AnswerLost, TypeOK, Answers
  <2>2. slipped' \in BOOLEAN
    BY <1>0, <1>19 DEF AnswerLost, TypeOK
  <2> QED BY <1>0, <2>1, <2>2, <1>19
      DEF AnswerLost, TypeOK, procVars, storeVars, idpVars
<1>20. ASSUME NEW w \in Workers, Abandon(w) PROVE TypeOK'
  <2>1. tok[ProcOf[w]] \in Tokens
    BY <1>0, <1>20 DEF Abandon, TypeOK, SourceInv, MutexInv
  <2> QED BY <1>0, <2>1, <1>20
      DEF Abandon, Return, Release, TypeOK, Labels, storeVars
<1>21. ASSUME NEW w \in Workers, Receive(w) PROVE TypeOK'
  <2>1. tok[ProcOf[w]] \in Tokens /\ Consumed(tok[ProcOf[w]])
    BY <1>0, <1>21 DEF Receive, TypeOK, SourceInv, MutexInv, RotatedInv
  <2>2. Successor(tok[ProcOf[w]]) \in Tokens
    BY <1>0, <2>1, TokenFacts, SuccessorFacts DEF Consumed, TypeOK
  <2>3. tok' \in [Procs -> Tokens \union {NoToken}]
    BY <1>0, <2>2, <1>21 DEF Receive, TypeOK
  <2> QED BY <1>0, <2>3, <1>21 DEF Receive, TypeOK, Labels, storeVars, idpVars
<1>22. ASSUME NEW w \in Workers, ReceiveError(w) PROVE TypeOK'
  BY <1>0, <1>22
  DEF ReceiveError, TypeOK, Labels, Return, Release, storeVars, idpVars
<1>23. ASSUME NEW w \in Workers, Save(w) PROVE TypeOK'
  BY <1>0, <1>23 DEF Save, TypeOK, Labels, Return, Release, idpVars
<1>24. ASSUME NEW w \in Workers, SaveFails(w) PROVE TypeOK'
  BY <1>0, <1>24
  DEF SaveFails, TypeOK, Labels, Return, Release, storeVars, idpVars
<1>25. ASSUME NEW t \in Tokens, OrphanArrives(t) PROVE TypeOK'
  BY <1>0, ProviderFacts, <1>25
  DEF OrphanArrives, TypeOK, procVars, callVars, storeVars
<1>26. ASSUME NEW t \in Tokens, OrphanLost(t) PROVE TypeOK'
  BY <1>0, <1>26 DEF OrphanLost, TypeOK, Labels, procVars, callVars, storeVars
<1>27. ASSUME NEW t \in Tokens, Expire(t) PROVE TypeOK'
  BY <1>0, <1>27 DEF Expire, TypeOK, Labels, procVars, callVars, storeVars
<1>28. ASSUME NEW g \in 1..MaxGrants, ProviderDrops(g) PROVE TypeOK'
  BY <1>0, <1>28
  DEF ProviderDrops, TypeOK, Labels, procVars, callVars, storeVars
<1>29. ASSUME UNCHANGED vars PROVE TypeOK'
  BY <1>0, <1>29
  DEF vars, TypeOK, Labels, procVars, callVars, storeVars, idpVars
<1> QED BY <1>1, <1>2, <1>3, <1>4, <1>5, <1>6, <1>7, <1>8, <1>9, <1>10, <1>11,
       <1>12, <1>13, <1>14, <1>15, <1>16, <1>17, <1>18, <1>19, <1>20, <1>21,
       <1>22, <1>23, <1>24, <1>25, <1>26, <1>27, <1>28, <1>29
    DEF Next, Acquire, Advance, Network

(* A process holds a token exactly while it is up, after every step.       *)
LEMMA SourceStep == ASSUME IInv, [Next]_vars PROVE SourceInv'
<1> USE ConstantsAssumption
<1>0. TypeOK /\ SourceInv /\ MutexInv BY DEF IInv
<1>1. ASSUME Approve PROVE SourceInv'
  BY <1>0, TokenFacts, <1>1 DEF Approve, TypeOK, SourceInv, procVars, callVars
<1>2. ASSUME LoginSave PROVE SourceInv'
  BY <1>0, TokenFacts, <1>2
  DEF LoginSave, TypeOK, SourceInv, procVars, callVars, idpVars
<1>3. ASSUME LoginFails PROVE SourceInv'
  BY <1>0, TokenFacts, <1>3
  DEF LoginFails, TypeOK, SourceInv, procVars, callVars, idpVars
<1>4. ASSUME Logout PROVE SourceInv'
  BY <1>0, TokenFacts, <1>4
  DEF Logout, TypeOK, SourceInv, procVars, callVars, idpVars
<1>5. ASSUME NEW p \in Procs, Start(p) PROVE SourceInv'
  BY <1>0, TokenFacts, <1>5
  DEF Start, TypeOK, SourceInv, callVars, storeVars, idpVars
<1>6. ASSUME NEW p \in Procs, Stop(p) PROVE SourceInv'
  BY <1>0, TokenFacts, <1>6 DEF Stop, TypeOK, SourceInv, storeVars
<1>7. ASSUME NEW w \in Workers, Call(w) PROVE SourceInv'
  BY <1>0, TokenFacts, <1>7
  DEF Call, TypeOK, SourceInv, procVars, storeVars, idpVars
<1>8. ASSUME NEW w \in Workers, Reuse(w) PROVE SourceInv'
  BY <1>0, TokenFacts, <1>8 DEF Reuse, TypeOK, SourceInv, storeVars, idpVars
<1>9. ASSUME NEW w \in Workers, Enter(w) PROVE SourceInv'
  BY <1>0, TokenFacts, <1>9 DEF Enter, TypeOK, SourceInv, storeVars, idpVars
<1>10. ASSUME NEW w \in Workers, TakeLock(w) PROVE SourceInv'
  BY <1>0, TokenFacts, <1>10
  DEF TakeLock, TypeOK, SourceInv, procVars, storeVars, idpVars
<1>11. ASSUME NEW w \in Workers, SkipLock(w) PROVE SourceInv'
  BY <1>0, TokenFacts, <1>11
  DEF SkipLock, TypeOK, SourceInv, procVars, storeVars, idpVars
<1>12. ASSUME NEW w \in Workers, ReloadLive(w) PROVE SourceInv'
  <2>1. ProcOf[w] \in up BY <1>0, <1>12 DEF ReloadLive, MutexInv
  <2> QED BY <1>0, <2>1, <1>12 DEF ReloadLive, TypeOK, SourceInv, Reread
<1>13. ASSUME NEW w \in Workers, ReloadExpired(w) PROVE SourceInv'
  <2>1. ProcOf[w] \in up BY <1>0, <1>13 DEF ReloadExpired, MutexInv
  <2> QED BY <1>0, <2>1, <1>13 DEF ReloadExpired, TypeOK, SourceInv, Reread
<1>14. ASSUME NEW w \in Workers, ReloadFails(w) PROVE SourceInv'
  BY <1>0, TokenFacts, <1>14
  DEF ReloadFails, TypeOK, SourceInv, procVars, storeVars, idpVars
<1>15. ASSUME NEW w \in Workers, Discover(w) PROVE SourceInv'
  BY <1>0, TokenFacts, <1>15 DEF Discover, TypeOK, SourceInv, storeVars, idpVars
<1>16. ASSUME NEW w \in Workers, DiscoverFails(w) PROVE SourceInv'
  BY <1>0, TokenFacts, <1>16
  DEF DiscoverFails, TypeOK, SourceInv, storeVars, idpVars
<1>17. ASSUME NEW w \in Workers, Answer(w) PROVE SourceInv'
  BY <1>0, TokenFacts, <1>17 DEF Answer, TypeOK, SourceInv, procVars, storeVars
<1>18. ASSUME NEW w \in Workers, Shed(w) PROVE SourceInv'
  BY <1>0, TokenFacts, <1>18
  DEF Shed, TypeOK, SourceInv, procVars, storeVars, idpVars
<1>19. ASSUME NEW w \in Workers, AnswerLost(w) PROVE SourceInv'
  BY <1>0, TokenFacts, <1>19
  DEF AnswerLost, TypeOK, SourceInv, procVars, storeVars, idpVars
<1>20. ASSUME NEW w \in Workers, Abandon(w) PROVE SourceInv'
  BY <1>0, TokenFacts, <1>20 DEF Abandon, TypeOK, SourceInv, storeVars
<1>21. ASSUME NEW w \in Workers, Receive(w) PROVE SourceInv'
  <2>1. pc[w] = "wait" BY <1>0, <1>21 DEF Receive, MutexInv
  <2>2. tok[ProcOf[w]] \in Tokens /\ ProcOf[w] \in up
    BY <1>0, <2>1 DEF MutexInv, SourceInv, TypeOK
  <2>3. Successor(tok[ProcOf[w]]) # NoToken
    BY <2>2, TokenFacts, SuccessorFacts
  <2> QED BY <1>0, <2>2, <2>3, <1>21 DEF Receive, TypeOK, SourceInv, MutexInv
<1>22. ASSUME NEW w \in Workers, ReceiveError(w) PROVE SourceInv'
  BY <1>0, TokenFacts, <1>22
  DEF ReceiveError, TypeOK, SourceInv, storeVars, idpVars
<1>23. ASSUME NEW w \in Workers, Save(w) PROVE SourceInv'
  BY <1>0, TokenFacts, <1>23 DEF Save, TypeOK, SourceInv, idpVars
<1>24. ASSUME NEW w \in Workers, SaveFails(w) PROVE SourceInv'
  BY <1>0, TokenFacts, <1>24
  DEF SaveFails, TypeOK, SourceInv, storeVars, idpVars
<1>25. ASSUME NEW t \in Tokens, OrphanArrives(t) PROVE SourceInv'
  BY <1>0, TokenFacts, <1>25
  DEF OrphanArrives, TypeOK, SourceInv, procVars, callVars, storeVars
<1>26. ASSUME NEW t \in Tokens, OrphanLost(t) PROVE SourceInv'
  BY <1>0, TokenFacts, <1>26
  DEF OrphanLost, TypeOK, SourceInv, procVars, callVars, storeVars
<1>27. ASSUME NEW t \in Tokens, Expire(t) PROVE SourceInv'
  BY <1>0, TokenFacts, <1>27
  DEF Expire, TypeOK, SourceInv, procVars, callVars, storeVars
<1>28. ASSUME NEW g \in 1..MaxGrants, ProviderDrops(g) PROVE SourceInv'
  BY <1>0, TokenFacts, <1>28
  DEF ProviderDrops, TypeOK, SourceInv, procVars, callVars, storeVars
<1>29. ASSUME UNCHANGED vars PROVE SourceInv'
  BY <1>0, TokenFacts, <1>29
  DEF vars, TypeOK, SourceInv, procVars, callVars, storeVars, idpVars
<1> QED BY <1>1, <1>2, <1>3, <1>4, <1>5, <1>6, <1>7, <1>8, <1>9, <1>10, <1>11,
       <1>12, <1>13, <1>14, <1>15, <1>16, <1>17, <1>18, <1>19, <1>20, <1>21,
       <1>22, <1>23, <1>24, <1>25, <1>26, <1>27, <1>28, <1>29
    DEF Next, Acquire, Advance, Network

(* Returning from Token() leaves mutexes with their holders.               *)
LEMMA ReturnMutex ==
    ASSUME TypeOK, MutexInv, NEW w \in Workers, pc[w] # "idle", Return(w),
           pc[w] \in Locked \/ mu[ProcOf[w]] = NoOne, UNCHANGED up
    PROVE  MutexInv'
<1>1. ASSUME NEW v \in Workers, v # w, pc'[v] \in Locked
      PROVE  mu'[ProcOf[v]] = v
  BY <1>1, ConstantsAssumption DEF TypeOK, MutexInv, Return, Release
<1>2. pc'[w] = "idle" /\ wire'[w] = "none"
  BY DEF TypeOK, Return
<1>3. \A v \in Workers : v # w => pc'[v] = pc[v] /\ wire'[v] = wire[v]
  BY DEF TypeOK, Return
<1> QED BY <1>1, <1>2, <1>3 DEF MutexInv, Locked

(* Every step keeps a goroutine past the mutex its holder.                 *)
LEMMA MutexStep == ASSUME IInv, [Next]_vars PROVE MutexInv'
<1> USE ConstantsAssumption
<1>0. TypeOK /\ MutexInv BY DEF IInv
<1>1. ASSUME Approve PROVE MutexInv'
  BY <1>0, <1>1
  DEF Approve, TypeOK, MutexInv, Locked, Labels, procVars, callVars
<1>2. ASSUME LoginSave PROVE MutexInv'
  BY <1>0, <1>2
  DEF LoginSave, TypeOK, MutexInv, Locked, Labels, procVars, callVars, idpVars
<1>3. ASSUME LoginFails PROVE MutexInv'
  BY <1>0, <1>3
  DEF LoginFails, TypeOK, MutexInv, Locked, Labels, procVars, callVars, idpVars
<1>4. ASSUME Logout PROVE MutexInv'
  BY <1>0, <1>4
  DEF Logout, TypeOK, MutexInv, Locked, Labels, procVars, callVars, idpVars
<1>5. ASSUME NEW p \in Procs, Start(p) PROVE MutexInv'
  BY <1>0, <1>5
  DEF Start, TypeOK, MutexInv, Locked, Labels, callVars, storeVars, idpVars
<1>6. ASSUME NEW p \in Procs, Stop(p) PROVE MutexInv'
  BY <1>0, <1>6 DEF Stop, TypeOK, MutexInv, Locked, Labels, storeVars
<1>7. ASSUME NEW w \in Workers, Call(w) PROVE MutexInv'
  BY <1>0, <1>7
  DEF Call, TypeOK, MutexInv, Locked, Labels, procVars, storeVars, idpVars
<1>8. ASSUME NEW w \in Workers, Reuse(w) PROVE MutexInv'
  BY <1>0, ReturnMutex, <1>8 DEF Reuse, Locked, Labels
<1>9. ASSUME NEW w \in Workers, Enter(w) PROVE MutexInv'
  BY <1>0, <1>9 DEF Enter, TypeOK, MutexInv, Locked, Labels, storeVars, idpVars
<1>10. ASSUME NEW w \in Workers, TakeLock(w) PROVE MutexInv'
  BY <1>0, <1>10
  DEF TakeLock, TypeOK, MutexInv, Locked, Labels, procVars, storeVars, idpVars
<1>11. ASSUME NEW w \in Workers, SkipLock(w) PROVE MutexInv'
  BY <1>0, <1>11
  DEF SkipLock, TypeOK, MutexInv, Locked, Labels, procVars, storeVars, idpVars
<1>12. ASSUME NEW w \in Workers, ReloadLive(w) PROVE MutexInv'
  BY <1>0, ReturnMutex, <1>12 DEF ReloadLive, Locked, Labels
<1>13. ASSUME NEW w \in Workers, ReloadExpired(w) PROVE MutexInv'
  BY <1>0, <1>13
  DEF ReloadExpired, TypeOK, MutexInv, Locked, Labels, GoOn, storeVars, idpVars
<1>14. ASSUME NEW w \in Workers, ReloadFails(w) PROVE MutexInv'
  BY <1>0, <1>14
  DEF ReloadFails, TypeOK, MutexInv, Locked, Labels, GoOn, procVars, storeVars,
      idpVars
<1>15. ASSUME NEW w \in Workers, Discover(w) PROVE MutexInv'
  BY <1>0, <1>15
  DEF Discover, TypeOK, MutexInv, Locked, Labels, storeVars, idpVars
<1>16. ASSUME NEW w \in Workers, DiscoverFails(w) PROVE MutexInv'
  BY <1>0, ReturnMutex, <1>16 DEF DiscoverFails, Locked, Labels
<1>17. ASSUME NEW w \in Workers, Answer(w) PROVE MutexInv'
  BY <1>0, <1>17
  DEF Answer, TypeOK, MutexInv, Locked, Labels, procVars, storeVars
<1>18. ASSUME NEW w \in Workers, Shed(w) PROVE MutexInv'
  BY <1>0, <1>18
  DEF Shed, TypeOK, MutexInv, Locked, Labels, Answers, procVars, storeVars,
      idpVars
<1>19. ASSUME NEW w \in Workers, AnswerLost(w) PROVE MutexInv'
  BY <1>0, <1>19
  DEF AnswerLost, TypeOK, MutexInv, Locked, Labels, procVars, storeVars, idpVars
<1>20. ASSUME NEW w \in Workers, Abandon(w) PROVE MutexInv'
  BY <1>0, ReturnMutex, <1>20 DEF Abandon, Locked, Labels, MutexInv, Answers
<1>21. ASSUME NEW w \in Workers, Receive(w) PROVE MutexInv'
  BY <1>0, <1>21
  DEF Receive, TypeOK, MutexInv, Locked, Labels, storeVars, idpVars
<1>22. ASSUME NEW w \in Workers, ReceiveError(w) PROVE MutexInv'
  BY <1>0, ReturnMutex, <1>22
  DEF ReceiveError, Locked, Labels, MutexInv, Answers
<1>23. ASSUME NEW w \in Workers, Save(w) PROVE MutexInv'
  BY <1>0, ReturnMutex, <1>23 DEF Save, Locked, Labels
<1>24. ASSUME NEW w \in Workers, SaveFails(w) PROVE MutexInv'
  BY <1>0, ReturnMutex, <1>24 DEF SaveFails, Locked, Labels
<1>25. ASSUME NEW t \in Tokens, OrphanArrives(t) PROVE MutexInv'
  BY <1>0, <1>25
  DEF OrphanArrives, TypeOK, MutexInv, Locked, Labels, procVars, callVars,
      storeVars
<1>26. ASSUME NEW t \in Tokens, OrphanLost(t) PROVE MutexInv'
  BY <1>0, <1>26
  DEF OrphanLost, TypeOK, MutexInv, Locked, Labels, procVars, callVars,
      storeVars
<1>27. ASSUME NEW t \in Tokens, Expire(t) PROVE MutexInv'
  BY <1>0, <1>27
  DEF Expire, TypeOK, MutexInv, Locked, Labels, procVars, callVars, storeVars
<1>28. ASSUME NEW g \in 1..MaxGrants, ProviderDrops(g) PROVE MutexInv'
  BY <1>0, <1>28
  DEF ProviderDrops, TypeOK, MutexInv, Locked, Labels, procVars, callVars,
      storeVars
<1>29. ASSUME UNCHANGED vars PROVE MutexInv'
  BY <1>0, <1>29
  DEF vars, TypeOK, MutexInv, Locked, Labels, procVars, callVars, storeVars,
      idpVars
<1> QED BY <1>1, <1>2, <1>3, <1>4, <1>5, <1>6, <1>7, <1>8, <1>9, <1>10, <1>11,
       <1>12, <1>13, <1>14, <1>15, <1>16, <1>17, <1>18, <1>19, <1>20, <1>21,
       <1>22, <1>23, <1>24, <1>25, <1>26, <1>27, <1>28, <1>29
    DEF Next, Acquire, Advance, Network

(* Nothing the provider did is undone, and no expired token revives.       *)
Grows ==
    /\ grants <= grants'
    /\ \A g \in 1..MaxGrants : cur[g] <= cur'[g]
    /\ revoked \subseteq revoked'
    /\ unknown \subseteq unknown'
    /\ expired \subseteq expired'

(* Every step of the machine and the provider only adds to its record.     *)
LEMMA GrowsStep == ASSUME IInv, [Next]_vars PROVE Grows
<1> USE ConstantsAssumption
<1>0. TypeOK /\ SourceInv /\ MutexInv BY DEF IInv
<1>a. grants \in Nat /\ \A g \in 1..MaxGrants : cur[g] \in Nat
  BY <1>0 DEF TypeOK
<1>1. ASSUME Approve PROVE Grows
  BY <1>a, <1>1 DEF Approve, Grows, procVars, callVars
<1>2. ASSUME LoginSave PROVE Grows
  BY <1>a, <1>2 DEF LoginSave, Grows, procVars, callVars, idpVars
<1>3. ASSUME LoginFails PROVE Grows
  BY <1>a, <1>3 DEF LoginFails, Grows, procVars, callVars, idpVars
<1>4. ASSUME Logout PROVE Grows
  BY <1>a, <1>4 DEF Logout, Grows, procVars, callVars, idpVars
<1>5. ASSUME NEW p \in Procs, Start(p) PROVE Grows
  BY <1>a, <1>5 DEF Start, Grows, callVars, storeVars, idpVars
<1>6. ASSUME NEW p \in Procs, Stop(p) PROVE Grows
  BY <1>a, <1>6 DEF Stop, Grows, storeVars
<1>7. ASSUME NEW w \in Workers, Call(w) PROVE Grows
  BY <1>a, <1>7 DEF Call, Grows, procVars, storeVars, idpVars
<1>8. ASSUME NEW w \in Workers, Reuse(w) PROVE Grows
  BY <1>a, <1>8 DEF Reuse, Grows, storeVars, idpVars
<1>9. ASSUME NEW w \in Workers, Enter(w) PROVE Grows
  BY <1>a, <1>9 DEF Enter, Grows, storeVars, idpVars
<1>10. ASSUME NEW w \in Workers, TakeLock(w) PROVE Grows
  BY <1>a, <1>10 DEF TakeLock, Grows, procVars, storeVars, idpVars
<1>11. ASSUME NEW w \in Workers, SkipLock(w) PROVE Grows
  BY <1>a, <1>11 DEF SkipLock, Grows, procVars, storeVars, idpVars
<1>12. ASSUME NEW w \in Workers, ReloadLive(w) PROVE Grows
  BY <1>a, <1>12 DEF ReloadLive, Grows, storeVars, idpVars
<1>13. ASSUME NEW w \in Workers, ReloadExpired(w) PROVE Grows
  BY <1>a, <1>13 DEF ReloadExpired, Grows, storeVars, idpVars
<1>14. ASSUME NEW w \in Workers, ReloadFails(w) PROVE Grows
  BY <1>a, <1>14 DEF ReloadFails, Grows, procVars, storeVars, idpVars
<1>15. ASSUME NEW w \in Workers, Discover(w) PROVE Grows
  BY <1>a, <1>15 DEF Discover, Grows, storeVars, idpVars
<1>16. ASSUME NEW w \in Workers, DiscoverFails(w) PROVE Grows
  BY <1>a, <1>16 DEF DiscoverFails, Grows, storeVars, idpVars
<1>17. ASSUME NEW w \in Workers, Answer(w) PROVE Grows
  <2>1. tok[ProcOf[w]] \in Tokens
    BY <1>0, <1>17 DEF Answer, TypeOK, SourceInv, MutexInv
  <2> QED BY <1>0, <1>a, <2>1, ProviderFacts, <1>17 DEF Answer, Grows
<1>18. ASSUME NEW w \in Workers, Shed(w) PROVE Grows
  BY <1>a, <1>18 DEF Shed, Grows, procVars, storeVars, idpVars
<1>19. ASSUME NEW w \in Workers, AnswerLost(w) PROVE Grows
  BY <1>a, <1>19 DEF AnswerLost, Grows, procVars, storeVars, idpVars
<1>20. ASSUME NEW w \in Workers, Abandon(w) PROVE Grows
  BY <1>a, <1>20 DEF Abandon, Grows, storeVars
<1>21. ASSUME NEW w \in Workers, Receive(w) PROVE Grows
  BY <1>a, <1>21 DEF Receive, Grows, storeVars, idpVars
<1>22. ASSUME NEW w \in Workers, ReceiveError(w) PROVE Grows
  BY <1>a, <1>22 DEF ReceiveError, Grows, storeVars, idpVars
<1>23. ASSUME NEW w \in Workers, Save(w) PROVE Grows
  BY <1>a, <1>23 DEF Save, Grows, idpVars
<1>24. ASSUME NEW w \in Workers, SaveFails(w) PROVE Grows
  BY <1>a, <1>24 DEF SaveFails, Grows, storeVars, idpVars
<1>25. ASSUME NEW t \in Tokens, OrphanArrives(t) PROVE Grows
  BY <1>0, <1>a, ProviderFacts, <1>25 DEF OrphanArrives, Grows
<1>26. ASSUME NEW t \in Tokens, OrphanLost(t) PROVE Grows
  BY <1>a, <1>26 DEF OrphanLost, Grows, procVars, callVars, storeVars
<1>27. ASSUME NEW t \in Tokens, Expire(t) PROVE Grows
  BY <1>a, <1>27 DEF Expire, Grows, procVars, callVars, storeVars
<1>28. ASSUME NEW g \in 1..MaxGrants, ProviderDrops(g) PROVE Grows
  BY <1>a, <1>28 DEF ProviderDrops, Grows, procVars, callVars, storeVars
<1>29. ASSUME UNCHANGED vars PROVE Grows
  BY <1>a, <1>29 DEF vars, Grows, procVars, callVars, storeVars, idpVars
<1> QED BY <1>1, <1>2, <1>3, <1>4, <1>5, <1>6, <1>7, <1>8, <1>9, <1>10, <1>11,
       <1>12, <1>13, <1>14, <1>15, <1>16, <1>17, <1>18, <1>19, <1>20, <1>21,
       <1>22, <1>23, <1>24, <1>25, <1>26, <1>27, <1>28, <1>29
    DEF Next, Acquire, Advance, Network

(* An issued token stays issued.                                           *)
LEMMA IssuedMonotone ==
    ASSUME Grows, TypeOK, TypeOK', NEW t \in Tokens, Issued(t)
    PROVE  Issued(t)'
  BY TokenFacts, ConstantsAssumption DEF Grows, TypeOK, Issued

(* Every step keeps the tokens on the machine issued ones.                 *)
LEMMA IssuedStep == ASSUME IInv, [Next]_vars PROVE IssuedInv'
<1> USE ConstantsAssumption
<1>0. TypeOK /\ SourceInv /\ MutexInv /\ IssuedInv /\ RotatedInv BY DEF IInv
<1>a. TypeOK' /\ Grows BY TypeStep, GrowsStep
<1>b. KnownTokens \subseteq Tokens \union {NoToken}
      /\ KnownTokens' \subseteq Tokens \union {NoToken}
  BY <1>0, <1>a DEF KnownTokens, TypeOK
<1>c. ASSUME NEW t, KnownTokens' \subseteq KnownTokens \union {NoToken, t},
             t \in Tokens => t.grant <= grants' /\ t.seq <= cur'[t.grant]
      PROVE  IssuedInv'
  BY <1>0, <1>a, <1>b, <1>c, IssuedMonotone DEF IssuedInv, Issued
<1>1. ASSUME Approve PROVE IssuedInv'
  <2> DEFINE t == [grant |-> grants + 1, seq |-> 0]
  <2>1. KnownTokens' \subseteq KnownTokens \union {NoToken, t}
    BY <1>0, <1>1 DEF Approve, KnownTokens, procVars
  <2>2. grants + 1 \in 1..MaxGrants /\ cur' = cur /\ grants' = grants + 1
    BY <1>0, <1>1 DEF Approve, TypeOK
  <2>3. t.grant <= grants' /\ t.seq <= cur'[t.grant]
    BY <1>0, <2>2 DEF RotatedInv, TypeOK
  <2> QED BY <2>1, <2>3, <1>c
<1>2. ASSUME LoginSave PROVE IssuedInv'
  <2>1. KnownTokens' \subseteq KnownTokens \union {NoToken}
    BY <1>0, <1>2
    DEF LoginSave, TypeOK, KnownTokens, procVars, callVars, idpVars
  <2> QED BY <2>1, <1>c, TokenFacts
<1>3. ASSUME LoginFails PROVE IssuedInv'
  <2>1. KnownTokens' \subseteq KnownTokens \union {NoToken}
    BY <1>0, <1>3
    DEF LoginFails, TypeOK, KnownTokens, procVars, callVars, idpVars
  <2> QED BY <2>1, <1>c, TokenFacts
<1>4. ASSUME Logout PROVE IssuedInv'
  <2>1. KnownTokens' \subseteq KnownTokens \union {NoToken}
    BY <1>0, <1>4 DEF Logout, TypeOK, KnownTokens, procVars, callVars, idpVars
  <2> QED BY <2>1, <1>c, TokenFacts
<1>5. ASSUME NEW p \in Procs, Start(p) PROVE IssuedInv'
  <2>1. KnownTokens' \subseteq KnownTokens \union {NoToken}
    BY <1>0, <1>5 DEF Start, TypeOK, KnownTokens, callVars, storeVars, idpVars
  <2> QED BY <2>1, <1>c, TokenFacts
<1>6. ASSUME NEW p \in Procs, Stop(p) PROVE IssuedInv'
  <2>1. KnownTokens' \subseteq KnownTokens \union {NoToken}
    BY <1>0, <1>6 DEF Stop, TypeOK, KnownTokens, storeVars
  <2> QED BY <2>1, <1>c, TokenFacts
<1>7. ASSUME NEW w \in Workers, Call(w) PROVE IssuedInv'
  <2>1. KnownTokens' \subseteq KnownTokens \union {NoToken}
    BY <1>0, <1>7 DEF Call, TypeOK, KnownTokens, procVars, storeVars, idpVars
  <2> QED BY <2>1, <1>c, TokenFacts
<1>8. ASSUME NEW w \in Workers, Reuse(w) PROVE IssuedInv'
  <2>1. KnownTokens' \subseteq KnownTokens \union {NoToken}
    BY <1>0, <1>8 DEF Reuse, TypeOK, KnownTokens, storeVars, idpVars
  <2> QED BY <2>1, <1>c, TokenFacts
<1>9. ASSUME NEW w \in Workers, Enter(w) PROVE IssuedInv'
  <2>1. KnownTokens' \subseteq KnownTokens \union {NoToken}
    BY <1>0, <1>9 DEF Enter, TypeOK, KnownTokens, storeVars, idpVars
  <2> QED BY <2>1, <1>c, TokenFacts
<1>10. ASSUME NEW w \in Workers, TakeLock(w) PROVE IssuedInv'
  <2>1. KnownTokens' \subseteq KnownTokens \union {NoToken}
    BY <1>0, <1>10
    DEF TakeLock, TypeOK, KnownTokens, procVars, storeVars, idpVars
  <2> QED BY <2>1, <1>c, TokenFacts
<1>11. ASSUME NEW w \in Workers, SkipLock(w) PROVE IssuedInv'
  <2>1. KnownTokens' \subseteq KnownTokens \union {NoToken}
    BY <1>0, <1>11
    DEF SkipLock, TypeOK, KnownTokens, procVars, storeVars, idpVars
  <2> QED BY <2>1, <1>c, TokenFacts
<1>12. ASSUME NEW w \in Workers, ReloadLive(w) PROVE IssuedInv'
  <2>1. KnownTokens' \subseteq KnownTokens \union {NoToken}
    BY <1>0, <1>12
    DEF ReloadLive, TypeOK, KnownTokens, Reread, storeVars, idpVars
  <2> QED BY <2>1, <1>c, TokenFacts
<1>13. ASSUME NEW w \in Workers, ReloadExpired(w) PROVE IssuedInv'
  <2>1. KnownTokens' \subseteq KnownTokens \union {NoToken}
    BY <1>0, <1>13
    DEF ReloadExpired, TypeOK, KnownTokens, Reread, storeVars, idpVars
  <2> QED BY <2>1, <1>c, TokenFacts
<1>14. ASSUME NEW w \in Workers, ReloadFails(w) PROVE IssuedInv'
  <2>1. KnownTokens' \subseteq KnownTokens \union {NoToken}
    BY <1>0, <1>14
    DEF ReloadFails, TypeOK, KnownTokens, procVars, storeVars, idpVars
  <2> QED BY <2>1, <1>c, TokenFacts
<1>15. ASSUME NEW w \in Workers, Discover(w) PROVE IssuedInv'
  <2>1. KnownTokens' \subseteq KnownTokens \union {NoToken}
    BY <1>0, <1>15 DEF Discover, TypeOK, KnownTokens, storeVars, idpVars
  <2> QED BY <2>1, <1>c, TokenFacts
<1>16. ASSUME NEW w \in Workers, DiscoverFails(w) PROVE IssuedInv'
  <2>1. KnownTokens' \subseteq KnownTokens \union {NoToken}
    BY <1>0, <1>16 DEF DiscoverFails, TypeOK, KnownTokens, storeVars, idpVars
  <2> QED BY <2>1, <1>c, TokenFacts
<1>17. ASSUME NEW w \in Workers, Answer(w) PROVE IssuedInv'
  <2>1. KnownTokens' \subseteq KnownTokens \union {NoToken}
    BY <1>0, <1>17 DEF Answer, TypeOK, KnownTokens, procVars, storeVars
  <2> QED BY <2>1, <1>c, TokenFacts
<1>18. ASSUME NEW w \in Workers, Shed(w) PROVE IssuedInv'
  <2>1. KnownTokens' \subseteq KnownTokens \union {NoToken}
    BY <1>0, <1>18 DEF Shed, TypeOK, KnownTokens, procVars, storeVars, idpVars
  <2> QED BY <2>1, <1>c, TokenFacts
<1>19. ASSUME NEW w \in Workers, AnswerLost(w) PROVE IssuedInv'
  <2>1. KnownTokens' \subseteq KnownTokens \union {NoToken}
    BY <1>0, <1>19
    DEF AnswerLost, TypeOK, KnownTokens, procVars, storeVars, idpVars
  <2> QED BY <2>1, <1>c, TokenFacts
<1>20. ASSUME NEW w \in Workers, Abandon(w) PROVE IssuedInv'
  <2>1. KnownTokens' \subseteq KnownTokens \union {NoToken}
    BY <1>0, <1>20 DEF Abandon, TypeOK, KnownTokens, storeVars
  <2> QED BY <2>1, <1>c, TokenFacts
<1>21. ASSUME NEW w \in Workers, Receive(w) PROVE IssuedInv'
  <2> DEFINE t == Successor(tok[ProcOf[w]])
  <2>1. tok[ProcOf[w]] \in Tokens
    BY <1>0, <1>21 DEF Receive, TypeOK, SourceInv, MutexInv
  <2>2. Issued(tok[ProcOf[w]]) /\ Consumed(tok[ProcOf[w]])
    BY <1>0, <2>1, TokenFacts, <1>21
    DEF Receive, IssuedInv, RotatedInv, KnownTokens, TypeOK
  <2>3. t.grant <= grants' /\ t.seq <= cur'[t.grant]
    BY <1>0, <2>1, <2>2, TokenFacts, SuccessorFacts, <1>21
    DEF Receive, Issued, Consumed, TypeOK, idpVars
  <2>4. KnownTokens' \subseteq KnownTokens \union {NoToken, t}
    BY <1>0, <1>21 DEF Receive, TypeOK, KnownTokens, storeVars, idpVars
  <2> QED BY <2>3, <2>4, <1>c
<1>22. ASSUME NEW w \in Workers, ReceiveError(w) PROVE IssuedInv'
  <2>1. KnownTokens' \subseteq KnownTokens \union {NoToken}
    BY <1>0, <1>22 DEF ReceiveError, TypeOK, KnownTokens, storeVars, idpVars
  <2> QED BY <2>1, <1>c, TokenFacts
<1>23. ASSUME NEW w \in Workers, Save(w) PROVE IssuedInv'
  <2>1. KnownTokens' \subseteq KnownTokens \union {NoToken}
    BY <1>0, <1>23 DEF Save, TypeOK, KnownTokens, idpVars
  <2> QED BY <2>1, <1>c, TokenFacts
<1>24. ASSUME NEW w \in Workers, SaveFails(w) PROVE IssuedInv'
  <2>1. KnownTokens' \subseteq KnownTokens \union {NoToken}
    BY <1>0, <1>24 DEF SaveFails, TypeOK, KnownTokens, storeVars, idpVars
  <2> QED BY <2>1, <1>c, TokenFacts
<1>25. ASSUME NEW t \in Tokens, OrphanArrives(t) PROVE IssuedInv'
  <2>1. KnownTokens' \subseteq KnownTokens \union {NoToken}
    BY <1>0, <1>25
    DEF OrphanArrives, TypeOK, KnownTokens, procVars, callVars, storeVars
  <2> QED BY <2>1, <1>c, TokenFacts
<1>26. ASSUME NEW t \in Tokens, OrphanLost(t) PROVE IssuedInv'
  <2>1. KnownTokens' \subseteq KnownTokens \union {NoToken}
    BY <1>0, <1>26
    DEF OrphanLost, TypeOK, KnownTokens, procVars, callVars, storeVars
  <2> QED BY <2>1, <1>c, TokenFacts
<1>27. ASSUME NEW t \in Tokens, Expire(t) PROVE IssuedInv'
  <2>1. KnownTokens' \subseteq KnownTokens \union {NoToken}
    BY <1>0, <1>27
    DEF Expire, TypeOK, KnownTokens, procVars, callVars, storeVars
  <2> QED BY <2>1, <1>c, TokenFacts
<1>28. ASSUME NEW g \in 1..MaxGrants, ProviderDrops(g) PROVE IssuedInv'
  <2>1. KnownTokens' \subseteq KnownTokens \union {NoToken}
    BY <1>0, <1>28
    DEF ProviderDrops, TypeOK, KnownTokens, procVars, callVars, storeVars
  <2> QED BY <2>1, <1>c, TokenFacts
<1>29. ASSUME UNCHANGED vars PROVE IssuedInv'
  <2>1. KnownTokens' \subseteq KnownTokens \union {NoToken}
    BY <1>0, <1>29
    DEF vars, TypeOK, KnownTokens, procVars, callVars, storeVars, idpVars
  <2> QED BY <2>1, <1>c, TokenFacts
<1> QED BY <1>1, <1>2, <1>3, <1>4, <1>5, <1>6, <1>7, <1>8, <1>9, <1>10, <1>11,
       <1>12, <1>13, <1>14, <1>15, <1>16, <1>17, <1>18, <1>19, <1>20, <1>21,
       <1>22, <1>23, <1>24, <1>25, <1>26, <1>27, <1>28, <1>29
    DEF Next, Acquire, Advance, Network

(* Two workers past the mutex are of two processes.                        *)
LEMMA Exclusive ==
    ASSUME MutexInv, NEW v \in Workers, NEW w \in Workers, v # w,
           pc[v] \in Locked, pc[w] \in Locked
    PROVE  ProcOf[v] # ProcOf[w]
  BY DEF MutexInv

(* An answer under way that carries a new token has consumed the old.      *)
LEMMA RotatedStep == ASSUME IInv, [Next]_vars PROVE RotatedInv'
<1> USE ConstantsAssumption
<1>0. TypeOK /\ SourceInv /\ MutexInv /\ IssuedInv /\ RotatedInv /\ PresentedInv
      /\ NoEarlyRotation
  BY DEF IInv
<1>a. TypeOK' /\ Grows BY TypeStep, GrowsStep
<1>1. ASSUME Approve PROVE RotatedInv'
  BY <1>0, <1>a, TokenFacts, Exclusive, <1>1
  DEF Approve, TypeOK, MutexInv, RotatedInv, Consumed, Grows, Locked, Labels,
      procVars, callVars
<1>2. ASSUME LoginSave PROVE RotatedInv'
  BY <1>0, <1>a, TokenFacts, Exclusive, <1>2
  DEF LoginSave, TypeOK, MutexInv, RotatedInv, Consumed, Grows, Locked, Labels,
      procVars, callVars, idpVars
<1>3. ASSUME LoginFails PROVE RotatedInv'
  BY <1>0, <1>a, TokenFacts, Exclusive, <1>3
  DEF LoginFails, TypeOK, MutexInv, RotatedInv, Consumed, Grows, Locked, Labels,
      procVars, callVars, idpVars
<1>4. ASSUME Logout PROVE RotatedInv'
  BY <1>0, <1>a, TokenFacts, Exclusive, <1>4
  DEF Logout, TypeOK, MutexInv, RotatedInv, Consumed, Grows, Locked, Labels,
      procVars, callVars, idpVars
<1>5. ASSUME NEW p \in Procs, Start(p) PROVE RotatedInv'
  <2>1. ASSUME NEW v \in Workers, wire'[v] = "rotated"
        PROVE  tok'[ProcOf[v]] = tok[ProcOf[v]] /\ wire[v] = "rotated"
    BY <1>0, <2>1, <1>5 DEF Start, TypeOK, MutexInv, callVars
  <2> QED BY <1>0, <1>a, <2>1, <1>5 DEF Start, RotatedInv, Consumed, idpVars
<1>6. ASSUME NEW p \in Procs, Stop(p) PROVE RotatedInv'
  BY <1>0, <1>a, TokenFacts, Exclusive, <1>6
  DEF Stop, TypeOK, MutexInv, RotatedInv, Consumed, Grows, Locked, Labels,
      WorkersOf, storeVars
<1>7. ASSUME NEW w \in Workers, Call(w) PROVE RotatedInv'
  BY <1>0, <1>a, TokenFacts, Exclusive, <1>7
  DEF Call, TypeOK, MutexInv, RotatedInv, Consumed, Grows, Locked, Labels,
      procVars, storeVars, idpVars
<1>8. ASSUME NEW w \in Workers, Reuse(w) PROVE RotatedInv'
  BY <1>0, <1>a, TokenFacts, Exclusive, <1>8
  DEF Reuse, TypeOK, MutexInv, RotatedInv, Consumed, Grows, Locked, Labels,
      Return, Release, storeVars, idpVars
<1>9. ASSUME NEW w \in Workers, Enter(w) PROVE RotatedInv'
  BY <1>0, <1>a, TokenFacts, Exclusive, <1>9
  DEF Enter, TypeOK, MutexInv, RotatedInv, Consumed, Grows, Locked, Labels,
      storeVars, idpVars
<1>10. ASSUME NEW w \in Workers, TakeLock(w) PROVE RotatedInv'
  BY <1>0, <1>a, TokenFacts, Exclusive, <1>10
  DEF TakeLock, TypeOK, MutexInv, RotatedInv, Consumed, Grows, Locked, Labels,
      procVars, storeVars, idpVars
<1>11. ASSUME NEW w \in Workers, SkipLock(w) PROVE RotatedInv'
  BY <1>0, <1>a, TokenFacts, Exclusive, <1>11
  DEF SkipLock, TypeOK, MutexInv, RotatedInv, Consumed, Grows, Locked, Labels,
      procVars, storeVars, idpVars
<1>12. ASSUME NEW w \in Workers, ReloadLive(w) PROVE RotatedInv'
  <2>1. ASSUME NEW v \in Workers, wire'[v] = "rotated"
        PROVE  tok'[ProcOf[v]] = tok[ProcOf[v]] /\ wire[v] = "rotated"
    BY <1>0, Exclusive, <2>1, <1>12
    DEF ReloadLive, Return, Reread, TypeOK, MutexInv, Locked, Labels
  <2> QED BY <1>0, <1>a, <2>1, <1>12
      DEF ReloadLive, RotatedInv, Consumed, idpVars
<1>13. ASSUME NEW w \in Workers, ReloadExpired(w) PROVE RotatedInv'
  <2>1. ASSUME NEW v \in Workers, wire'[v] = "rotated"
        PROVE  tok'[ProcOf[v]] = tok[ProcOf[v]] /\ wire[v] = "rotated"
    BY <1>0, Exclusive, <2>1, <1>13
    DEF ReloadExpired, GoOn, Reread, TypeOK, MutexInv, Locked, Labels
  <2> QED BY <1>0, <1>a, <2>1, <1>13
      DEF ReloadExpired, RotatedInv, Consumed, idpVars
<1>14. ASSUME NEW w \in Workers, ReloadFails(w) PROVE RotatedInv'
  BY <1>0, <1>a, TokenFacts, Exclusive, <1>14
  DEF ReloadFails, TypeOK, MutexInv, RotatedInv, Consumed, Grows, Locked,
      Labels, GoOn, procVars, storeVars, idpVars
<1>15. ASSUME NEW w \in Workers, Discover(w) PROVE RotatedInv'
  BY <1>0, <1>a, TokenFacts, Exclusive, <1>15
  DEF Discover, TypeOK, MutexInv, RotatedInv, Consumed, Grows, Locked, Labels,
      storeVars, idpVars
<1>16. ASSUME NEW w \in Workers, DiscoverFails(w) PROVE RotatedInv'
  BY <1>0, <1>a, TokenFacts, Exclusive, <1>16
  DEF DiscoverFails, TypeOK, MutexInv, RotatedInv, Consumed, Grows, Locked,
      Labels, Return, Release, storeVars, idpVars
<1>17. ASSUME NEW w \in Workers, Answer(w) PROVE RotatedInv'
  <2> DEFINE t == tok[ProcOf[w]]
  <2>1. t \in Tokens /\ t.grant <= grants
    BY <1>0, TokenFacts, <1>17
    DEF Answer, TypeOK, SourceInv, MutexInv, IssuedInv, Issued, KnownTokens
  <2>a. (Rotates(t) \/ Replays(t) \/ Refuses(t)) /\ grants' = grants
    BY <1>17 DEF Answer
  <2>b. \A g \in 1..MaxGrants : g # t.grant => cur'[g] = cur[g]
    BY <1>0, <2>1, <2>a, ProviderFacts
  <2>c. grants \in Nat BY <1>0 DEF TypeOK
  <2>2. \A g \in 1..MaxGrants : g > grants' => cur'[g] = 0
    BY <1>0, <2>1, <2>a, <2>b, <2>c DEF RotatedInv
  <2>3. ASSUME NEW v \in Workers, v # w, wire'[v] = "rotated"
        PROVE  Consumed(tok[ProcOf[v]])'
    <3>1. wire[v] = "rotated" /\ tok'[ProcOf[v]] = tok[ProcOf[v]]
      BY <1>0, <2>3, <1>17 DEF Answer, TypeOK, procVars
    <3>2. ProcOf[v] \in Procs /\ tok[ProcOf[v]] \in Tokens
      BY <1>0, <3>1 DEF TypeOK, MutexInv, SourceInv
    <3> QED BY <1>0, <1>a, <3>1, <3>2, TokenFacts
        DEF RotatedInv, Consumed, Grows, TypeOK
  <2>4. wire'[w] = "rotated" => Consumed(tok[ProcOf[w]])'
    BY <1>0, <2>1, TokenFacts, <1>17
    DEF Answer, Rotates, Consumed, TypeOK, procVars
  <2> QED BY <2>2, <2>3, <2>4 DEF RotatedInv
<1>18. ASSUME NEW w \in Workers, Shed(w) PROVE RotatedInv'
  BY <1>0, <1>a, TokenFacts, Exclusive, <1>18
  DEF Shed, TypeOK, MutexInv, RotatedInv, Consumed, Grows, Locked, Labels,
      Answers, procVars, storeVars, idpVars
<1>19. ASSUME NEW w \in Workers, AnswerLost(w) PROVE RotatedInv'
  BY <1>0, <1>a, TokenFacts, Exclusive, <1>19
  DEF AnswerLost, TypeOK, MutexInv, RotatedInv, Consumed, Grows, Locked, Labels,
      procVars, storeVars, idpVars
<1>20. ASSUME NEW w \in Workers, Abandon(w) PROVE RotatedInv'
  BY <1>0, <1>a, TokenFacts, Exclusive, <1>20
  DEF Abandon, TypeOK, MutexInv, RotatedInv, Consumed, Grows, Locked, Labels,
      Return, Release, storeVars
<1>21. ASSUME NEW w \in Workers, Receive(w) PROVE RotatedInv'
  <2>1. ASSUME NEW v \in Workers, wire'[v] = "rotated"
        PROVE  wire[v] = "rotated" /\ tok'[ProcOf[v]] = tok[ProcOf[v]]
    <3>1. v # w /\ wire[v] = "rotated"
      BY <1>0, <2>1, <1>21 DEF Receive, TypeOK
    <3>2. ProcOf[v] # ProcOf[w]
      BY <1>0, Exclusive, <3>1, <1>21 DEF Receive, MutexInv, Locked, Labels
    <3> QED BY <1>0, <3>1, <3>2, <1>21 DEF Receive, TypeOK
  <2>2. UNCHANGED <<cur, grants>> BY <1>21 DEF Receive, idpVars
  <2> QED BY <1>0, <2>1, <2>2 DEF RotatedInv, Consumed
<1>22. ASSUME NEW w \in Workers, ReceiveError(w) PROVE RotatedInv'
  BY <1>0, <1>a, TokenFacts, Exclusive, <1>22
  DEF ReceiveError, TypeOK, MutexInv, RotatedInv, Consumed, Grows, Locked,
      Labels, Return, Release, storeVars, idpVars
<1>23. ASSUME NEW w \in Workers, Save(w) PROVE RotatedInv'
  BY <1>0, <1>a, TokenFacts, Exclusive, <1>23
  DEF Save, TypeOK, MutexInv, RotatedInv, Consumed, Grows, Locked, Labels,
      Return, Release, idpVars
<1>24. ASSUME NEW w \in Workers, SaveFails(w) PROVE RotatedInv'
  BY <1>0, <1>a, TokenFacts, Exclusive, <1>24
  DEF SaveFails, TypeOK, MutexInv, RotatedInv, Consumed, Grows, Locked, Labels,
      Return, Release, storeVars, idpVars
<1>25. ASSUME NEW t \in Tokens, OrphanArrives(t) PROVE RotatedInv'
  <2>1. t.grant <= grants
    BY <1>0, TokenFacts, <1>25 DEF OrphanArrives, IssuedInv, Issued, KnownTokens
  <2>2. \A g \in 1..MaxGrants : g > grants' => cur'[g] = 0
    BY <1>0, <2>1, TokenFacts, ProviderFacts, <1>25
    DEF OrphanArrives, RotatedInv, TypeOK
  <2>3. ASSUME NEW v \in Workers, wire'[v] = "rotated"
        PROVE  Consumed(tok[ProcOf[v]])'
    <3>1. wire[v] = "rotated" /\ tok'[ProcOf[v]] = tok[ProcOf[v]]
      BY <2>3, <1>25 DEF OrphanArrives, procVars, callVars
    <3>2. ProcOf[v] \in Procs /\ tok[ProcOf[v]] \in Tokens
      BY <1>0, <3>1 DEF TypeOK, MutexInv, SourceInv
    <3> QED BY <1>0, <1>a, <3>1, <3>2, TokenFacts
        DEF RotatedInv, Consumed, Grows, TypeOK
  <2> QED BY <2>2, <2>3 DEF RotatedInv
<1>26. ASSUME NEW t \in Tokens, OrphanLost(t) PROVE RotatedInv'
  BY <1>0, <1>a, TokenFacts, Exclusive, <1>26
  DEF OrphanLost, TypeOK, MutexInv, RotatedInv, Consumed, Grows, Locked, Labels,
      procVars, callVars, storeVars
<1>27. ASSUME NEW t \in Tokens, Expire(t) PROVE RotatedInv'
  BY <1>0, <1>a, TokenFacts, Exclusive, <1>27
  DEF Expire, TypeOK, MutexInv, RotatedInv, Consumed, Grows, Locked, Labels,
      procVars, callVars, storeVars
<1>28. ASSUME NEW g \in 1..MaxGrants, ProviderDrops(g) PROVE RotatedInv'
  BY <1>0, <1>a, TokenFacts, Exclusive, <1>28
  DEF ProviderDrops, TypeOK, MutexInv, RotatedInv, Consumed, Grows, Locked,
      Labels, procVars, callVars, storeVars
<1>29. ASSUME UNCHANGED vars PROVE RotatedInv'
  BY <1>0, <1>a, TokenFacts, Exclusive, <1>29
  DEF vars, TypeOK, MutexInv, RotatedInv, Consumed, Grows, Locked, Labels,
      procVars, callVars, storeVars, idpVars
<1> QED BY <1>1, <1>2, <1>3, <1>4, <1>5, <1>6, <1>7, <1>8, <1>9, <1>10, <1>11,
       <1>12, <1>13, <1>14, <1>15, <1>16, <1>17, <1>18, <1>19, <1>20, <1>21,
       <1>22, <1>23, <1>24, <1>25, <1>26, <1>27, <1>28, <1>29
    DEF Next, Acquire, Advance, Network



(* A token is its grant and its place in it.                               *)
LEMMA SameToken ==
    ASSUME NEW s \in Tokens, NEW t \in Tokens, s.grant = t.grant, s.seq = t.seq
    PROVE  s = t
  BY DEF Tokens

(* NoEarlyRotation survives any step that rotates nothing.                 *)
LEMMA EarlyMonotone ==
    ASSUME NoEarlyRotation, Grows, cur' = cur
    PROVE  NoEarlyRotation'
  BY DEF NoEarlyRotation, Grows, Consumed

(* NoEarlyRotation survives a request that presents an expired token.      *)
LEMMA EarlyRotates ==
    ASSUME TypeOK, NoEarlyRotation, Grows, NEW t \in Tokens, t \in expired,
           Rotates(t) \/ Replays(t) \/ Refuses(t)
    PROVE  NoEarlyRotation'
<1>1. CASE Rotates(t)
  <2>1. ASSUME NEW s \in Tokens, s.seq < cur'[s.grant] PROVE s \in expired
    <3>1. CASE s.seq < cur[s.grant] BY <3>1 DEF NoEarlyRotation, Consumed
    <3>2. CASE ~(s.seq < cur[s.grant])
      <4>1. /\ t.grant \in 1..MaxGrants /\ t.seq = cur[t.grant]
            /\ cur' = [cur EXCEPT ![t.grant] = @ + 1]
        BY <1>1, TokenFacts DEF Rotates
      <4>2. /\ s.grant \in 1..MaxGrants /\ s.seq \in Nat
            /\ \A g \in 1..MaxGrants : cur[g] \in Nat /\ cur \in [1..MaxGrants -> Nat]
        BY TokenFacts, ConstantsAssumption DEF TypeOK
      <4>3. s.grant = t.grant /\ s.seq = t.seq
        BY <2>1, <3>2, <4>1, <4>2
      <4> QED BY <4>3, SameToken
    <3> QED BY <3>1, <3>2
  <2> QED BY <2>1 DEF NoEarlyRotation, Consumed, Grows
<1>2. CASE Replays(t) \/ Refuses(t)
  BY <1>2, EarlyMonotone DEF Replays, Refuses
<1> QED BY <1>1, <1>2

(* Every step preserves NoEarlyRotation.                                   *)
LEMMA EarlyStep == ASSUME IInv, [Next]_vars PROVE NoEarlyRotation'
<1> USE ConstantsAssumption
<1>0. TypeOK /\ SourceInv /\ MutexInv /\ IssuedInv /\ RotatedInv /\ PresentedInv
      /\ NoEarlyRotation
  BY DEF IInv
<1>a. TypeOK' /\ Grows BY TypeStep, GrowsStep
<1>1. ASSUME Approve PROVE NoEarlyRotation'
  BY <1>0, <1>a, EarlyMonotone, <1>1 DEF Approve, procVars, callVars
<1>2. ASSUME LoginSave PROVE NoEarlyRotation'
  BY <1>0, <1>a, EarlyMonotone, <1>2 DEF LoginSave, procVars, callVars, idpVars
<1>3. ASSUME LoginFails PROVE NoEarlyRotation'
  BY <1>0, <1>a, EarlyMonotone, <1>3 DEF LoginFails, procVars, callVars, idpVars
<1>4. ASSUME Logout PROVE NoEarlyRotation'
  BY <1>0, <1>a, EarlyMonotone, <1>4 DEF Logout, procVars, callVars, idpVars
<1>5. ASSUME NEW p \in Procs, Start(p) PROVE NoEarlyRotation'
  BY <1>0, <1>a, EarlyMonotone, <1>5 DEF Start, callVars, storeVars, idpVars
<1>6. ASSUME NEW p \in Procs, Stop(p) PROVE NoEarlyRotation'
  BY <1>0, <1>a, EarlyMonotone, <1>6 DEF Stop, storeVars
<1>7. ASSUME NEW w \in Workers, Call(w) PROVE NoEarlyRotation'
  BY <1>0, <1>a, EarlyMonotone, <1>7 DEF Call, procVars, storeVars, idpVars
<1>8. ASSUME NEW w \in Workers, Reuse(w) PROVE NoEarlyRotation'
  BY <1>0, <1>a, EarlyMonotone, <1>8 DEF Reuse, storeVars, idpVars
<1>9. ASSUME NEW w \in Workers, Enter(w) PROVE NoEarlyRotation'
  BY <1>0, <1>a, EarlyMonotone, <1>9 DEF Enter, storeVars, idpVars
<1>10. ASSUME NEW w \in Workers, TakeLock(w) PROVE NoEarlyRotation'
  BY <1>0, <1>a, EarlyMonotone, <1>10 DEF TakeLock, procVars, storeVars, idpVars
<1>11. ASSUME NEW w \in Workers, SkipLock(w) PROVE NoEarlyRotation'
  BY <1>0, <1>a, EarlyMonotone, <1>11 DEF SkipLock, procVars, storeVars, idpVars
<1>12. ASSUME NEW w \in Workers, ReloadLive(w) PROVE NoEarlyRotation'
  BY <1>0, <1>a, EarlyMonotone, <1>12 DEF ReloadLive, storeVars, idpVars
<1>13. ASSUME NEW w \in Workers, ReloadExpired(w) PROVE NoEarlyRotation'
  BY <1>0, <1>a, EarlyMonotone, <1>13 DEF ReloadExpired, storeVars, idpVars
<1>14. ASSUME NEW w \in Workers, ReloadFails(w) PROVE NoEarlyRotation'
  BY <1>0, <1>a, EarlyMonotone, <1>14
  DEF ReloadFails, procVars, storeVars, idpVars
<1>15. ASSUME NEW w \in Workers, Discover(w) PROVE NoEarlyRotation'
  BY <1>0, <1>a, EarlyMonotone, <1>15 DEF Discover, storeVars, idpVars
<1>16. ASSUME NEW w \in Workers, DiscoverFails(w) PROVE NoEarlyRotation'
  BY <1>0, <1>a, EarlyMonotone, <1>16 DEF DiscoverFails, storeVars, idpVars
<1>17. ASSUME NEW w \in Workers, Answer(w) PROVE NoEarlyRotation'
  <2> DEFINE t == tok[ProcOf[w]]
  <2>1. t \in Tokens /\ t \in expired
    BY <1>0, <1>17
    DEF Answer, TypeOK, SourceInv, MutexInv, PresentedInv, Refreshing
  <2> QED BY <1>0, <1>a, <2>1, EarlyRotates, <1>17 DEF Answer
<1>18. ASSUME NEW w \in Workers, Shed(w) PROVE NoEarlyRotation'
  BY <1>0, <1>a, EarlyMonotone, <1>18 DEF Shed, procVars, storeVars, idpVars
<1>19. ASSUME NEW w \in Workers, AnswerLost(w) PROVE NoEarlyRotation'
  BY <1>0, <1>a, EarlyMonotone, <1>19
  DEF AnswerLost, procVars, storeVars, idpVars
<1>20. ASSUME NEW w \in Workers, Abandon(w) PROVE NoEarlyRotation'
  BY <1>0, <1>a, EarlyMonotone, <1>20 DEF Abandon, storeVars
<1>21. ASSUME NEW w \in Workers, Receive(w) PROVE NoEarlyRotation'
  BY <1>0, <1>a, EarlyMonotone, <1>21 DEF Receive, storeVars, idpVars
<1>22. ASSUME NEW w \in Workers, ReceiveError(w) PROVE NoEarlyRotation'
  BY <1>0, <1>a, EarlyMonotone, <1>22 DEF ReceiveError, storeVars, idpVars
<1>23. ASSUME NEW w \in Workers, Save(w) PROVE NoEarlyRotation'
  BY <1>0, <1>a, EarlyMonotone, <1>23 DEF Save, idpVars
<1>24. ASSUME NEW w \in Workers, SaveFails(w) PROVE NoEarlyRotation'
  BY <1>0, <1>a, EarlyMonotone, <1>24 DEF SaveFails, storeVars, idpVars
<1>25. ASSUME NEW t \in Tokens, OrphanArrives(t) PROVE NoEarlyRotation'
  BY <1>0, <1>a, EarlyRotates, <1>25 DEF OrphanArrives, PresentedInv
<1>26. ASSUME NEW t \in Tokens, OrphanLost(t) PROVE NoEarlyRotation'
  BY <1>0, <1>a, EarlyMonotone, <1>26
  DEF OrphanLost, procVars, callVars, storeVars
<1>27. ASSUME NEW t \in Tokens, Expire(t) PROVE NoEarlyRotation'
  BY <1>0, <1>a, EarlyMonotone, <1>27 DEF Expire, procVars, callVars, storeVars
<1>28. ASSUME NEW g \in 1..MaxGrants, ProviderDrops(g) PROVE NoEarlyRotation'
  BY <1>0, <1>a, EarlyMonotone, <1>28
  DEF ProviderDrops, procVars, callVars, storeVars
<1>29. ASSUME UNCHANGED vars PROVE NoEarlyRotation'
  BY <1>0, <1>a, EarlyMonotone, <1>29
  DEF vars, procVars, callVars, storeVars, idpVars
<1> QED BY <1>1, <1>2, <1>3, <1>4, <1>5, <1>6, <1>7, <1>8, <1>9, <1>10, <1>11,
       <1>12, <1>13, <1>14, <1>15, <1>16, <1>17, <1>18, <1>19, <1>20, <1>21,
       <1>22, <1>23, <1>24, <1>25, <1>26, <1>27, <1>28, <1>29
    DEF Next, Acquire, Advance, Network


(* Every step keeps the tokens being presented expired ones.               *)
LEMMA PresentedStep == ASSUME IInv, [Next]_vars PROVE PresentedInv'
<1> USE ConstantsAssumption
<1>0. TypeOK /\ SourceInv /\ MutexInv /\ IssuedInv /\ RotatedInv /\ PresentedInv
      /\ NoEarlyRotation
  BY DEF IInv
<1>a. TypeOK' /\ Grows BY TypeStep, GrowsStep
<1>1. ASSUME Approve PROVE PresentedInv'
  BY <1>0, <1>a, TokenFacts, Exclusive, <1>1
  DEF Approve, TypeOK, MutexInv, PresentedInv, Refreshing, Grows, Locked,
      Labels, Valid, procVars, callVars
<1>2. ASSUME LoginSave PROVE PresentedInv'
  BY <1>0, <1>a, TokenFacts, Exclusive, <1>2
  DEF LoginSave, TypeOK, MutexInv, PresentedInv, Refreshing, Grows, Locked,
      Labels, Valid, procVars, callVars, idpVars
<1>3. ASSUME LoginFails PROVE PresentedInv'
  BY <1>0, <1>a, TokenFacts, Exclusive, <1>3
  DEF LoginFails, TypeOK, MutexInv, PresentedInv, Refreshing, Grows, Locked,
      Labels, Valid, procVars, callVars, idpVars
<1>4. ASSUME Logout PROVE PresentedInv'
  BY <1>0, <1>a, TokenFacts, Exclusive, <1>4
  DEF Logout, TypeOK, MutexInv, PresentedInv, Refreshing, Grows, Locked, Labels,
      Valid, procVars, callVars, idpVars
<1>5. ASSUME NEW p \in Procs, Start(p) PROVE PresentedInv'
  BY <1>0, <1>a, TokenFacts, Exclusive, <1>5
  DEF Start, TypeOK, MutexInv, PresentedInv, Refreshing, Grows, Locked, Labels,
      Valid, callVars, storeVars, idpVars
<1>6. ASSUME NEW p \in Procs, Stop(p) PROVE PresentedInv'
  BY <1>0, <1>a, TokenFacts, Exclusive, <1>6
  DEF Stop, TypeOK, MutexInv, PresentedInv, Refreshing, Grows, Locked, Labels,
      Valid, WorkersOf, storeVars
<1>7. ASSUME NEW w \in Workers, Call(w) PROVE PresentedInv'
  BY <1>0, <1>a, TokenFacts, Exclusive, <1>7
  DEF Call, TypeOK, MutexInv, PresentedInv, Refreshing, Grows, Locked, Labels,
      Valid, procVars, storeVars, idpVars
<1>8. ASSUME NEW w \in Workers, Reuse(w) PROVE PresentedInv'
  BY <1>0, <1>a, TokenFacts, Exclusive, <1>8
  DEF Reuse, TypeOK, MutexInv, PresentedInv, Refreshing, Grows, Locked, Labels,
      Valid, Return, Release, storeVars, idpVars
<1>9. ASSUME NEW w \in Workers, Enter(w) PROVE PresentedInv'
  <2>1. tok[ProcOf[w]] \in expired
    BY <1>0, <1>9 DEF Enter, SourceInv, MutexInv, Valid
  <2>2. ASSUME NEW v \in Workers, v # w, Refreshing(v)' PROVE Refreshing(v)
    BY <1>0, <2>2, <1>9 DEF Enter, Refreshing, TypeOK
  <2> QED BY <1>0, <2>1, <2>2, <1>9 DEF Enter, PresentedInv, idpVars
<1>10. ASSUME NEW w \in Workers, TakeLock(w) PROVE PresentedInv'
  BY <1>0, <1>a, TokenFacts, Exclusive, <1>10
  DEF TakeLock, TypeOK, MutexInv, PresentedInv, Refreshing, Grows, Locked,
      Labels, Valid, procVars, storeVars, idpVars
<1>11. ASSUME NEW w \in Workers, SkipLock(w) PROVE PresentedInv'
  BY <1>0, <1>a, TokenFacts, Exclusive, <1>11
  DEF SkipLock, TypeOK, MutexInv, PresentedInv, Refreshing, Grows, Locked,
      Labels, Valid, procVars, storeVars, idpVars
<1>12. ASSUME NEW w \in Workers, ReloadLive(w) PROVE PresentedInv'
  <2>1. ASSUME NEW v \in Workers, Refreshing(v)'
        PROVE  Refreshing(v) /\ tok'[ProcOf[v]] = tok[ProcOf[v]]
    <3>1. v # w /\ pc[v] = pc'[v] /\ wire[v] = wire'[v]
      BY <1>0, <2>1, <1>12 DEF ReloadLive, Return, Refreshing, TypeOK
    <3> QED BY <1>0, <2>1, <3>1, Exclusive, <1>12
        DEF ReloadLive, Refreshing, TypeOK, MutexInv, Locked, Labels
  <2> QED BY <1>0, <2>1, <1>12 DEF ReloadLive, PresentedInv, idpVars
<1>13. ASSUME NEW w \in Workers, ReloadExpired(w) PROVE PresentedInv'
  BY <1>0, <1>a, TokenFacts, Exclusive, <1>13
  DEF ReloadExpired, TypeOK, MutexInv, PresentedInv, Refreshing, Grows, Locked,
      Labels, Valid, GoOn, Reread, storeVars, idpVars
<1>14. ASSUME NEW w \in Workers, ReloadFails(w) PROVE PresentedInv'
  BY <1>0, <1>a, TokenFacts, Exclusive, <1>14
  DEF ReloadFails, TypeOK, MutexInv, PresentedInv, Refreshing, Grows, Locked,
      Labels, Valid, GoOn, procVars, storeVars, idpVars
<1>15. ASSUME NEW w \in Workers, Discover(w) PROVE PresentedInv'
  BY <1>0, <1>a, TokenFacts, Exclusive, <1>15
  DEF Discover, TypeOK, MutexInv, PresentedInv, Refreshing, Grows, Locked,
      Labels, Valid, storeVars, idpVars
<1>16. ASSUME NEW w \in Workers, DiscoverFails(w) PROVE PresentedInv'
  BY <1>0, <1>a, TokenFacts, Exclusive, <1>16
  DEF DiscoverFails, TypeOK, MutexInv, PresentedInv, Refreshing, Grows, Locked,
      Labels, Valid, Return, Release, storeVars, idpVars
<1>17. ASSUME NEW w \in Workers, Answer(w) PROVE PresentedInv'
  BY <1>0, <1>a, TokenFacts, Exclusive, <1>17
  DEF Answer, TypeOK, MutexInv, PresentedInv, Refreshing, Grows, Locked, Labels,
      Valid, procVars, storeVars
<1>18. ASSUME NEW w \in Workers, Shed(w) PROVE PresentedInv'
  BY <1>0, <1>a, TokenFacts, Exclusive, <1>18
  DEF Shed, TypeOK, MutexInv, PresentedInv, Refreshing, Grows, Locked, Labels,
      Valid, Answers, procVars, storeVars, idpVars
<1>19. ASSUME NEW w \in Workers, AnswerLost(w) PROVE PresentedInv'
  BY <1>0, <1>a, TokenFacts, Exclusive, <1>19
  DEF AnswerLost, TypeOK, MutexInv, PresentedInv, Refreshing, Grows, Locked,
      Labels, Valid, procVars, storeVars, idpVars
<1>20. ASSUME NEW w \in Workers, Abandon(w) PROVE PresentedInv'
  BY <1>0, <1>a, TokenFacts, Exclusive, <1>20
  DEF Abandon, TypeOK, MutexInv, PresentedInv, Refreshing, Grows, Locked,
      Labels, Valid, Return, Release, storeVars
<1>21. ASSUME NEW w \in Workers, Receive(w) PROVE PresentedInv'
  <2>1. ASSUME NEW v \in Workers, Refreshing(v)'
        PROVE  Refreshing(v) /\ tok'[ProcOf[v]] = tok[ProcOf[v]]
    <3>1. v # w /\ pc[v] = pc'[v] /\ wire[v] = wire'[v]
      BY <1>0, <2>1, <1>21 DEF Receive, Refreshing, TypeOK
    <3> QED BY <1>0, <2>1, <3>1, Exclusive, <1>21
        DEF Receive, Refreshing, TypeOK, MutexInv, Locked, Labels
  <2> QED BY <1>0, <2>1, <1>21 DEF Receive, PresentedInv, idpVars
<1>22. ASSUME NEW w \in Workers, ReceiveError(w) PROVE PresentedInv'
  BY <1>0, <1>a, TokenFacts, Exclusive, <1>22
  DEF ReceiveError, TypeOK, MutexInv, PresentedInv, Refreshing, Grows, Locked,
      Labels, Valid, Return, Release, storeVars, idpVars
<1>23. ASSUME NEW w \in Workers, Save(w) PROVE PresentedInv'
  BY <1>0, <1>a, TokenFacts, Exclusive, <1>23
  DEF Save, TypeOK, MutexInv, PresentedInv, Refreshing, Grows, Locked, Labels,
      Valid, Return, Release, idpVars
<1>24. ASSUME NEW w \in Workers, SaveFails(w) PROVE PresentedInv'
  BY <1>0, <1>a, TokenFacts, Exclusive, <1>24
  DEF SaveFails, TypeOK, MutexInv, PresentedInv, Refreshing, Grows, Locked,
      Labels, Valid, Return, Release, storeVars, idpVars
<1>25. ASSUME NEW t \in Tokens, OrphanArrives(t) PROVE PresentedInv'
  BY <1>0, <1>a, TokenFacts, Exclusive, <1>25
  DEF OrphanArrives, TypeOK, MutexInv, PresentedInv, Refreshing, Grows, Locked,
      Labels, Valid, procVars, callVars, storeVars
<1>26. ASSUME NEW t \in Tokens, OrphanLost(t) PROVE PresentedInv'
  BY <1>0, <1>a, TokenFacts, Exclusive, <1>26
  DEF OrphanLost, TypeOK, MutexInv, PresentedInv, Refreshing, Grows, Locked,
      Labels, Valid, procVars, callVars, storeVars
<1>27. ASSUME NEW t \in Tokens, Expire(t) PROVE PresentedInv'
  BY <1>0, <1>a, TokenFacts, Exclusive, <1>27
  DEF Expire, TypeOK, MutexInv, PresentedInv, Refreshing, Grows, Locked, Labels,
      Valid, procVars, callVars, storeVars
<1>28. ASSUME NEW g \in 1..MaxGrants, ProviderDrops(g) PROVE PresentedInv'
  BY <1>0, <1>a, TokenFacts, Exclusive, <1>28
  DEF ProviderDrops, TypeOK, MutexInv, PresentedInv, Refreshing, Grows,
      Locked, Labels, Valid, procVars, callVars, storeVars
<1>29. ASSUME UNCHANGED vars PROVE PresentedInv'
  BY <1>0, <1>a, TokenFacts, Exclusive, <1>29
  DEF vars, TypeOK, MutexInv, PresentedInv, Refreshing, Grows, Locked, Labels,
      Valid, procVars, callVars, storeVars, idpVars
<1> QED BY <1>1, <1>2, <1>3, <1>4, <1>5, <1>6, <1>7, <1>8, <1>9, <1>10, <1>11,
       <1>12, <1>13, <1>14, <1>15, <1>16, <1>17, <1>18, <1>19, <1>20, <1>21,
       <1>22, <1>23, <1>24, <1>25, <1>26, <1>27, <1>28, <1>29
    DEF Next, Acquire, Advance, Network


(* Every step keeps refusals those of grants that are over.                *)
LEMMA RefusedStep == ASSUME IInv, [Next]_vars PROVE RefusedInv'
<1> USE ConstantsAssumption
<1>0. TypeOK /\ SourceInv /\ MutexInv /\ IssuedInv /\ RotatedInv /\ PresentedInv
      /\ RefusedInv
  BY DEF IInv
<1>a. TypeOK' /\ Grows BY TypeStep, GrowsStep
<1>1. ASSUME Approve PROVE RefusedInv'
  BY <1>0, <1>a, Exclusive, <1>1
  DEF Approve, TypeOK, MutexInv, RefusedInv, Over, Grows, Locked, Labels, Answers,
      procVars, callVars
<1>2. ASSUME LoginSave PROVE RefusedInv'
  BY <1>0, <1>a, Exclusive, <1>2
  DEF LoginSave, TypeOK, MutexInv, RefusedInv, Over, Grows, Locked, Labels, Answers,
      procVars, callVars, idpVars
<1>3. ASSUME LoginFails PROVE RefusedInv'
  BY <1>0, <1>a, Exclusive, <1>3
  DEF LoginFails, TypeOK, MutexInv, RefusedInv, Over, Grows, Locked, Labels, Answers,
      procVars, callVars, idpVars
<1>4. ASSUME Logout PROVE RefusedInv'
  BY <1>0, <1>a, Exclusive, <1>4
  DEF Logout, TypeOK, MutexInv, RefusedInv, Over, Grows, Locked, Labels, Answers,
      procVars, callVars, idpVars
<1>5. ASSUME NEW p \in Procs, Start(p) PROVE RefusedInv'
  BY <1>0, <1>a, Exclusive, <1>5
  DEF Start, TypeOK, MutexInv, RefusedInv, Over, Grows, Locked, Labels, Answers,
      callVars, storeVars, idpVars
<1>6. ASSUME NEW p \in Procs, Stop(p) PROVE RefusedInv'
  BY <1>0, <1>a, Exclusive, <1>6
  DEF Stop, TypeOK, MutexInv, RefusedInv, Over, Grows, Locked, Labels, Answers,
      WorkersOf, storeVars
<1>7. ASSUME NEW w \in Workers, Call(w) PROVE RefusedInv'
  BY <1>0, <1>a, Exclusive, <1>7
  DEF Call, TypeOK, MutexInv, RefusedInv, Over, Grows, Locked, Labels, Answers,
      procVars, storeVars, idpVars
<1>8. ASSUME NEW w \in Workers, Reuse(w) PROVE RefusedInv'
  BY <1>0, <1>a, Exclusive, <1>8
  DEF Reuse, TypeOK, MutexInv, RefusedInv, Over, Grows, Locked, Labels, Answers,
      Return, Release, storeVars, idpVars
<1>9. ASSUME NEW w \in Workers, Enter(w) PROVE RefusedInv'
  BY <1>0, <1>a, Exclusive, <1>9
  DEF Enter, TypeOK, MutexInv, RefusedInv, Over, Grows, Locked, Labels, Answers,
      storeVars, idpVars
<1>10. ASSUME NEW w \in Workers, TakeLock(w) PROVE RefusedInv'
  BY <1>0, <1>a, Exclusive, <1>10
  DEF TakeLock, TypeOK, MutexInv, RefusedInv, Over, Grows, Locked, Labels, Answers,
      procVars, storeVars, idpVars
<1>11. ASSUME NEW w \in Workers, SkipLock(w) PROVE RefusedInv'
  BY <1>0, <1>a, Exclusive, <1>11
  DEF SkipLock, TypeOK, MutexInv, RefusedInv, Over, Grows, Locked, Labels, Answers,
      procVars, storeVars, idpVars
<1>12. ASSUME NEW w \in Workers, ReloadLive(w) PROVE RefusedInv'
  <2>1. ASSUME NEW v \in Workers, wire'[v] = "refused"
        PROVE  wire[v] = "refused" /\ tok'[ProcOf[v]] = tok[ProcOf[v]]
    <3>1. v # w /\ wire[v] = "refused"
      BY <1>0, <2>1, <1>12 DEF ReloadLive, Return, Release, TypeOK, MutexInv
    <3>2. ProcOf[v] # ProcOf[w]
      BY <1>0, Exclusive, <3>1, <1>12 DEF ReloadLive, MutexInv, Locked, Labels
    <3> QED BY <1>0, <3>1, <3>2, <1>12 DEF ReloadLive, TypeOK
  <2>2. UNCHANGED <<revoked, unknown>> BY <1>12 DEF ReloadLive, idpVars
  <2> QED BY <1>0, <2>1, <2>2 DEF RefusedInv, Over
<1>13. ASSUME NEW w \in Workers, ReloadExpired(w) PROVE RefusedInv'
  <2>1. ASSUME NEW v \in Workers, wire'[v] = "refused"
        PROVE  wire[v] = "refused" /\ tok'[ProcOf[v]] = tok[ProcOf[v]]
    <3>1. v # w /\ wire[v] = "refused"
      BY <1>0, <2>1, <1>13 DEF ReloadExpired, GoOn, TypeOK, MutexInv
    <3>2. ProcOf[v] # ProcOf[w]
      BY <1>0, Exclusive, <3>1, <1>13 DEF ReloadExpired, MutexInv, Locked, Labels
    <3> QED BY <1>0, <3>1, <3>2, <1>13 DEF ReloadExpired, TypeOK
  <2>2. UNCHANGED <<revoked, unknown>> BY <1>13 DEF ReloadExpired, idpVars
  <2> QED BY <1>0, <2>1, <2>2 DEF RefusedInv, Over
<1>14. ASSUME NEW w \in Workers, ReloadFails(w) PROVE RefusedInv'
  BY <1>0, <1>a, Exclusive, <1>14
  DEF ReloadFails, TypeOK, MutexInv, RefusedInv, Over, Grows, Locked, Labels, Answers,
      GoOn, procVars, storeVars, idpVars
<1>15. ASSUME NEW w \in Workers, Discover(w) PROVE RefusedInv'
  BY <1>0, <1>a, Exclusive, <1>15
  DEF Discover, TypeOK, MutexInv, RefusedInv, Over, Grows, Locked, Labels, Answers,
      storeVars, idpVars
<1>16. ASSUME NEW w \in Workers, DiscoverFails(w) PROVE RefusedInv'
  BY <1>0, <1>a, Exclusive, <1>16
  DEF DiscoverFails, TypeOK, MutexInv, RefusedInv, Over, Grows, Locked, Labels,
      Answers, Return, Release, storeVars, idpVars
<1>17. ASSUME NEW w \in Workers, Answer(w) PROVE RefusedInv'
  <2> DEFINE t == tok[ProcOf[w]]
  <2>1. ASSUME NEW v \in Workers, v # w, wire'[v] = "refused"
        PROVE  wire[v] = "refused" /\ tok'[ProcOf[v]] = tok[ProcOf[v]]
    BY <1>0, <2>1, <1>17 DEF Answer, TypeOK, procVars
  <2>2. ASSUME wire'[w] = "refused" PROVE Over(t.grant)' /\ tok' = tok
    BY <1>0, <2>2, <1>17
    DEF Answer, TypeOK, Replays, Refuses, Over, Answers, procVars
  <2> QED BY <1>0, <1>a, <2>1, <2>2 DEF RefusedInv, Over, Grows
<1>18. ASSUME NEW w \in Workers, Shed(w) PROVE RefusedInv'
  BY <1>0, <1>a, Exclusive, <1>18
  DEF Shed, TypeOK, MutexInv, RefusedInv, Over, Grows, Locked, Labels, Answers,
      procVars, storeVars, idpVars
<1>19. ASSUME NEW w \in Workers, AnswerLost(w) PROVE RefusedInv'
  BY <1>0, <1>a, Exclusive, <1>19
  DEF AnswerLost, TypeOK, MutexInv, RefusedInv, Over, Grows, Locked, Labels, Answers,
      procVars, storeVars, idpVars
<1>20. ASSUME NEW w \in Workers, Abandon(w) PROVE RefusedInv'
  BY <1>0, <1>a, Exclusive, <1>20
  DEF Abandon, TypeOK, MutexInv, RefusedInv, Over, Grows, Locked, Labels, Answers,
      Return, Release, storeVars
<1>21. ASSUME NEW w \in Workers, Receive(w) PROVE RefusedInv'
  BY <1>0, <1>a, Exclusive, <1>21
  DEF Receive, TypeOK, MutexInv, RefusedInv, Over, Grows, Locked, Labels, Answers,
      storeVars, idpVars
<1>22. ASSUME NEW w \in Workers, ReceiveError(w) PROVE RefusedInv'
  BY <1>0, <1>a, Exclusive, <1>22
  DEF ReceiveError, TypeOK, MutexInv, RefusedInv, Over, Grows, Locked, Labels,
      Answers, Return, Release, storeVars, idpVars
<1>23. ASSUME NEW w \in Workers, Save(w) PROVE RefusedInv'
  BY <1>0, <1>a, Exclusive, <1>23
  DEF Save, TypeOK, MutexInv, RefusedInv, Over, Grows, Locked, Labels, Answers,
      Return, Release, idpVars
<1>24. ASSUME NEW w \in Workers, SaveFails(w) PROVE RefusedInv'
  BY <1>0, <1>a, Exclusive, <1>24
  DEF SaveFails, TypeOK, MutexInv, RefusedInv, Over, Grows, Locked, Labels, Answers,
      Return, Release, storeVars, idpVars
<1>25. ASSUME NEW t \in Tokens, OrphanArrives(t) PROVE RefusedInv'
  BY <1>0, <1>a, Exclusive, <1>25
  DEF OrphanArrives, TypeOK, MutexInv, RefusedInv, Over, Grows, Locked, Labels,
      Answers, procVars, callVars, storeVars
<1>26. ASSUME NEW t \in Tokens, OrphanLost(t) PROVE RefusedInv'
  BY <1>0, <1>a, Exclusive, <1>26
  DEF OrphanLost, TypeOK, MutexInv, RefusedInv, Over, Grows, Locked, Labels, Answers,
      procVars, callVars, storeVars
<1>27. ASSUME NEW t \in Tokens, Expire(t) PROVE RefusedInv'
  BY <1>0, <1>a, Exclusive, <1>27
  DEF Expire, TypeOK, MutexInv, RefusedInv, Over, Grows, Locked, Labels, Answers,
      procVars, callVars, storeVars
<1>28. ASSUME NEW g \in 1..MaxGrants, ProviderDrops(g) PROVE RefusedInv'
  BY <1>0, <1>a, Exclusive, <1>28
  DEF ProviderDrops, TypeOK, MutexInv, RefusedInv, Over, Grows, Locked, Labels,
      Answers, procVars, callVars, storeVars
<1>29. ASSUME UNCHANGED vars PROVE RefusedInv'
  BY <1>0, <1>a, Exclusive, <1>29
  DEF vars, TypeOK, MutexInv, RefusedInv, Over, Grows, Locked, Labels, Answers,
      procVars, callVars, storeVars, idpVars
<1> QED BY <1>1, <1>2, <1>3, <1>4, <1>5, <1>6, <1>7, <1>8, <1>9, <1>10, <1>11,
       <1>12, <1>13, <1>14, <1>15, <1>16, <1>17, <1>18, <1>19, <1>20, <1>21,
       <1>22, <1>23, <1>24, <1>25, <1>26, <1>27, <1>28, <1>29
    DEF Next, Acquire, Advance, Network


(* With nothing slipped, a refresh past the lock holds the lock.           *)
LEMMA HolderStep == ASSUME IInv, [Next]_vars, ~slipped' PROVE HolderInv'
<1> USE ConstantsAssumption
<1>0. TypeOK /\ SourceInv /\ MutexInv /\ IssuedInv /\ RotatedInv /\ StoreKeepsTheLiveToken
  BY DEF IInv
<1>a. TypeOK' /\ Grows BY TypeStep, GrowsStep
<1>b. ~slipped => CleanInv BY DEF IInv
<1>1. ASSUME Approve PROVE HolderInv'
  BY <1>0, <1>b, <1>1
  DEF Approve, TypeOK, MutexInv, HolderInv, CleanInv, Locked, Labels, procVars,
      callVars
<1>2. ASSUME LoginSave PROVE HolderInv'
  BY <1>0, <1>b, <1>2
  DEF LoginSave, TypeOK, MutexInv, HolderInv, CleanInv, Locked, Labels,
      procVars, callVars, idpVars
<1>3. ASSUME LoginFails PROVE HolderInv'
  BY <1>0, <1>b, <1>3
  DEF LoginFails, TypeOK, MutexInv, HolderInv, CleanInv, Locked, Labels,
      procVars, callVars, idpVars
<1>4. ASSUME Logout PROVE HolderInv'
  BY <1>0, <1>b, <1>4
  DEF Logout, TypeOK, MutexInv, HolderInv, CleanInv, Locked, Labels, procVars,
      callVars, idpVars
<1>5. ASSUME NEW p \in Procs, Start(p) PROVE HolderInv'
  BY <1>0, <1>b, <1>5
  DEF Start, TypeOK, MutexInv, HolderInv, CleanInv, Locked, Labels, callVars,
      storeVars, idpVars
<1>6. ASSUME NEW p \in Procs, Stop(p) PROVE HolderInv'
  BY <1>0, <1>b, <1>6
  DEF Stop, TypeOK, MutexInv, HolderInv, CleanInv, Locked, Labels, WorkersOf,
      storeVars
<1>7. ASSUME NEW w \in Workers, Call(w) PROVE HolderInv'
  BY <1>0, <1>b, <1>7
  DEF Call, TypeOK, MutexInv, HolderInv, CleanInv, Locked, Labels, procVars,
      storeVars, idpVars
<1>8. ASSUME NEW w \in Workers, Reuse(w) PROVE HolderInv'
  BY <1>0, <1>b, <1>8
  DEF Reuse, TypeOK, MutexInv, HolderInv, CleanInv, Locked, Labels, Return,
      Release, storeVars, idpVars
<1>9. ASSUME NEW w \in Workers, Enter(w) PROVE HolderInv'
  BY <1>0, <1>b, <1>9
  DEF Enter, TypeOK, MutexInv, HolderInv, CleanInv, Locked, Labels, storeVars,
      idpVars
<1>10. ASSUME NEW w \in Workers, TakeLock(w) PROVE HolderInv'
  BY <1>0, <1>b, <1>10
  DEF TakeLock, TypeOK, MutexInv, HolderInv, CleanInv, Locked, Labels, CanLock,
      procVars, storeVars, idpVars
<1>11. ASSUME NEW w \in Workers, SkipLock(w) PROVE HolderInv'
  BY <1>0, <1>b, <1>11
  DEF SkipLock, TypeOK, MutexInv, HolderInv, CleanInv, Locked, Labels, procVars,
      storeVars, idpVars
<1>12. ASSUME NEW w \in Workers, ReloadLive(w) PROVE HolderInv'
  BY <1>0, <1>b, <1>12
  DEF ReloadLive, TypeOK, MutexInv, HolderInv, CleanInv, Locked, Labels, Return,
      Release, Reread, storeVars, idpVars
<1>13. ASSUME NEW w \in Workers, ReloadExpired(w) PROVE HolderInv'
  <2>1. \A v \in Workers : v # w => pc'[v] = pc[v]
    BY <1>0, <1>13 DEF ReloadExpired, GoOn, TypeOK
  <2>2. pc[w] = "load" /\ flock' = flock /\ slipped' = slipped
    BY <1>13 DEF ReloadExpired
  <2> QED BY <1>b, <2>1, <2>2 DEF CleanInv, HolderInv, Locked, Labels
<1>14. ASSUME NEW w \in Workers, ReloadFails(w) PROVE HolderInv'
  BY <1>0, <1>b, <1>14
  DEF ReloadFails, TypeOK, MutexInv, HolderInv, CleanInv, Locked, Labels, GoOn,
      procVars, storeVars, idpVars
<1>15. ASSUME NEW w \in Workers, Discover(w) PROVE HolderInv'
  BY <1>0, <1>b, <1>15
  DEF Discover, TypeOK, MutexInv, HolderInv, CleanInv, Locked, Labels,
      storeVars, idpVars
<1>16. ASSUME NEW w \in Workers, DiscoverFails(w) PROVE HolderInv'
  BY <1>0, <1>b, <1>16
  DEF DiscoverFails, TypeOK, MutexInv, HolderInv, CleanInv, Locked, Labels,
      Return, Release, storeVars, idpVars
<1>17. ASSUME NEW w \in Workers, Answer(w) PROVE HolderInv'
  BY <1>0, <1>b, <1>17
  DEF Answer, TypeOK, MutexInv, HolderInv, CleanInv, Locked, Labels, procVars,
      storeVars
<1>18. ASSUME NEW w \in Workers, Shed(w) PROVE HolderInv'
  BY <1>0, <1>b, <1>18
  DEF Shed, TypeOK, MutexInv, HolderInv, CleanInv, Locked, Labels, Answers,
      procVars, storeVars, idpVars
<1>19. ASSUME NEW w \in Workers, AnswerLost(w) PROVE HolderInv'
  BY <1>0, <1>b, <1>19
  DEF AnswerLost, TypeOK, MutexInv, HolderInv, CleanInv, Locked, Labels,
      procVars, storeVars, idpVars
<1>20. ASSUME NEW w \in Workers, Abandon(w) PROVE HolderInv'
  BY <1>0, <1>b, <1>20
  DEF Abandon, TypeOK, MutexInv, HolderInv, CleanInv, Locked, Labels, Return,
      Release, storeVars
<1>21. ASSUME NEW w \in Workers, Receive(w) PROVE HolderInv'
  BY <1>0, <1>b, <1>21
  DEF Receive, TypeOK, MutexInv, HolderInv, CleanInv, Locked, Labels, storeVars,
      idpVars
<1>22. ASSUME NEW w \in Workers, ReceiveError(w) PROVE HolderInv'
  BY <1>0, <1>b, <1>22
  DEF ReceiveError, TypeOK, MutexInv, HolderInv, CleanInv, Locked, Labels,
      Return, Release, storeVars, idpVars
<1>23. ASSUME NEW w \in Workers, Save(w) PROVE HolderInv'
  BY <1>0, <1>b, <1>23
  DEF Save, TypeOK, MutexInv, HolderInv, CleanInv, Locked, Labels, Return,
      Release, idpVars
<1>24. ASSUME NEW w \in Workers, SaveFails(w) PROVE HolderInv'
  BY <1>0, <1>b, <1>24
  DEF SaveFails, TypeOK, MutexInv, HolderInv, CleanInv, Locked, Labels, Return,
      Release, storeVars, idpVars
<1>25. ASSUME NEW t \in Tokens, OrphanArrives(t) PROVE HolderInv'
  BY <1>0, <1>b, <1>25
  DEF OrphanArrives, TypeOK, MutexInv, HolderInv, CleanInv, Locked, Labels,
      procVars, callVars, storeVars
<1>26. ASSUME NEW t \in Tokens, OrphanLost(t) PROVE HolderInv'
  BY <1>0, <1>b, <1>26
  DEF OrphanLost, TypeOK, MutexInv, HolderInv, CleanInv, Locked, Labels,
      procVars, callVars, storeVars
<1>27. ASSUME NEW t \in Tokens, Expire(t) PROVE HolderInv'
  BY <1>0, <1>b, <1>27
  DEF Expire, TypeOK, MutexInv, HolderInv, CleanInv, Locked, Labels, procVars,
      callVars, storeVars
<1>28. ASSUME NEW g \in 1..MaxGrants, ProviderDrops(g) PROVE HolderInv'
  BY <1>0, <1>b, <1>28
  DEF ProviderDrops, TypeOK, MutexInv, HolderInv, CleanInv, Locked, Labels,
      procVars, callVars, storeVars
<1>29. ASSUME UNCHANGED vars PROVE HolderInv'
  BY <1>0, <1>b, <1>29
  DEF vars, TypeOK, MutexInv, HolderInv, CleanInv, Locked, Labels, procVars,
      callVars, storeVars, idpVars
<1> QED BY <1>1, <1>2, <1>3, <1>4, <1>5, <1>6, <1>7, <1>8, <1>9, <1>10, <1>11,
       <1>12, <1>13, <1>14, <1>15, <1>16, <1>17, <1>18, <1>19, <1>20, <1>21,
       <1>22, <1>23, <1>24, <1>25, <1>26, <1>27, <1>28, <1>29
    DEF Next, Acquire, Advance, Network


(* With nothing slipped, no request is left behind.                        *)
LEMMA OrphanStep == ASSUME IInv, [Next]_vars, ~slipped' PROVE orphans' = {}
<1> USE ConstantsAssumption
<1>0. TypeOK /\ SourceInv /\ MutexInv /\ IssuedInv /\ RotatedInv /\ StoreKeepsTheLiveToken
  BY DEF IInv
<1>a. TypeOK' /\ Grows BY TypeStep, GrowsStep
<1>b. ~slipped => CleanInv BY DEF IInv
<1>1. ASSUME Approve PROVE orphans' = {}
  BY <1>0, <1>b, <1>1 DEF Approve, CleanInv, procVars, callVars
<1>2. ASSUME LoginSave PROVE orphans' = {}
  BY <1>0, <1>b, <1>2 DEF LoginSave, CleanInv, procVars, callVars, idpVars
<1>3. ASSUME LoginFails PROVE orphans' = {}
  BY <1>0, <1>b, <1>3 DEF LoginFails, CleanInv, procVars, callVars, idpVars
<1>4. ASSUME Logout PROVE orphans' = {}
  BY <1>0, <1>b, <1>4 DEF Logout, CleanInv, procVars, callVars, idpVars
<1>5. ASSUME NEW p \in Procs, Start(p) PROVE orphans' = {}
  BY <1>0, <1>b, <1>5 DEF Start, CleanInv, callVars, storeVars, idpVars
<1>6. ASSUME NEW p \in Procs, Stop(p) PROVE orphans' = {}
  BY <1>0, <1>b, <1>6 DEF Stop, CleanInv, MidRefresh, storeVars
<1>7. ASSUME NEW w \in Workers, Call(w) PROVE orphans' = {}
  BY <1>0, <1>b, <1>7 DEF Call, CleanInv, procVars, storeVars, idpVars
<1>8. ASSUME NEW w \in Workers, Reuse(w) PROVE orphans' = {}
  BY <1>0, <1>b, <1>8 DEF Reuse, CleanInv, storeVars, idpVars
<1>9. ASSUME NEW w \in Workers, Enter(w) PROVE orphans' = {}
  BY <1>0, <1>b, <1>9 DEF Enter, CleanInv, storeVars, idpVars
<1>10. ASSUME NEW w \in Workers, TakeLock(w) PROVE orphans' = {}
  BY <1>0, <1>b, <1>10 DEF TakeLock, CleanInv, procVars, storeVars, idpVars
<1>11. ASSUME NEW w \in Workers, SkipLock(w) PROVE orphans' = {}
  BY <1>0, <1>b, <1>11 DEF SkipLock, CleanInv, procVars, storeVars, idpVars
<1>12. ASSUME NEW w \in Workers, ReloadLive(w) PROVE orphans' = {}
  BY <1>0, <1>b, <1>12 DEF ReloadLive, CleanInv, storeVars, idpVars
<1>13. ASSUME NEW w \in Workers, ReloadExpired(w) PROVE orphans' = {}
  BY <1>0, <1>b, <1>13 DEF ReloadExpired, CleanInv, storeVars, idpVars
<1>14. ASSUME NEW w \in Workers, ReloadFails(w) PROVE orphans' = {}
  BY <1>0, <1>b, <1>14 DEF ReloadFails, CleanInv, procVars, storeVars, idpVars
<1>15. ASSUME NEW w \in Workers, Discover(w) PROVE orphans' = {}
  BY <1>0, <1>b, <1>15 DEF Discover, CleanInv, storeVars, idpVars
<1>16. ASSUME NEW w \in Workers, DiscoverFails(w) PROVE orphans' = {}
  BY <1>0, <1>b, <1>16 DEF DiscoverFails, CleanInv, storeVars, idpVars
<1>17. ASSUME NEW w \in Workers, Answer(w) PROVE orphans' = {}
  BY <1>0, <1>b, <1>17 DEF Answer, CleanInv, procVars, storeVars
<1>18. ASSUME NEW w \in Workers, Shed(w) PROVE orphans' = {}
  BY <1>0, <1>b, <1>18 DEF Shed, CleanInv, procVars, storeVars, idpVars
<1>19. ASSUME NEW w \in Workers, AnswerLost(w) PROVE orphans' = {}
  BY <1>0, <1>b, <1>19 DEF AnswerLost, CleanInv, procVars, storeVars, idpVars
<1>20. ASSUME NEW w \in Workers, Abandon(w) PROVE orphans' = {}
  BY <1>0, <1>b, <1>20 DEF Abandon, CleanInv, storeVars
<1>21. ASSUME NEW w \in Workers, Receive(w) PROVE orphans' = {}
  BY <1>0, <1>b, <1>21 DEF Receive, CleanInv, storeVars, idpVars
<1>22. ASSUME NEW w \in Workers, ReceiveError(w) PROVE orphans' = {}
  BY <1>0, <1>b, <1>22 DEF ReceiveError, CleanInv, storeVars, idpVars
<1>23. ASSUME NEW w \in Workers, Save(w) PROVE orphans' = {}
  BY <1>0, <1>b, <1>23 DEF Save, CleanInv, idpVars
<1>24. ASSUME NEW w \in Workers, SaveFails(w) PROVE orphans' = {}
  BY <1>0, <1>b, <1>24 DEF SaveFails, CleanInv, storeVars, idpVars
<1>25. ASSUME NEW t \in Tokens, OrphanArrives(t) PROVE orphans' = {}
  BY <1>0, <1>b, <1>25
  DEF OrphanArrives, CleanInv, procVars, callVars, storeVars
<1>26. ASSUME NEW t \in Tokens, OrphanLost(t) PROVE orphans' = {}
  BY <1>0, <1>b, <1>26 DEF OrphanLost, CleanInv, procVars, callVars, storeVars
<1>27. ASSUME NEW t \in Tokens, Expire(t) PROVE orphans' = {}
  BY <1>0, <1>b, <1>27 DEF Expire, CleanInv, procVars, callVars, storeVars
<1>28. ASSUME NEW g \in 1..MaxGrants, ProviderDrops(g) PROVE orphans' = {}
  BY <1>0, <1>b, <1>28
  DEF ProviderDrops, CleanInv, procVars, callVars, storeVars
<1>29. ASSUME UNCHANGED vars PROVE orphans' = {}
  BY <1>0, <1>b, <1>29
  DEF vars, CleanInv, procVars, callVars, storeVars, idpVars
<1> QED BY <1>1, <1>2, <1>3, <1>4, <1>5, <1>6, <1>7, <1>8, <1>9, <1>10, <1>11,
       <1>12, <1>13, <1>14, <1>15, <1>16, <1>17, <1>18, <1>19, <1>20, <1>21,
       <1>22, <1>23, <1>24, <1>25, <1>26, <1>27, <1>28, <1>29
    DEF Next, Acquire, Advance, Network


(* With nothing slipped, a login under way is known to nobody else.        *)
LEMMA LoginStep == ASSUME IInv, [Next]_vars, ~slipped' PROVE FreshLoginInv'
<1> USE ConstantsAssumption
<1>0. TypeOK /\ SourceInv /\ MutexInv /\ IssuedInv /\ RotatedInv /\ StoreKeepsTheLiveToken
  BY DEF IInv
<1>a. TypeOK' /\ Grows BY TypeStep, GrowsStep
<1>b. ~slipped => CleanInv BY DEF IInv
<1>1. ASSUME Approve PROVE FreshLoginInv'
  <2>1. grants \in Nat /\ grants' = grants + 1 /\ cur' = cur /\ slipped' = slipped
        /\ login' = [grant |-> grants + 1, seq |-> 0] /\ stored' = stored /\ tok' = tok
    BY <1>0, <1>1 DEF Approve, TypeOK, procVars
  <2>2. cur'[grants + 1] = 0
    BY <1>0, <2>1, <1>1 DEF Approve, RotatedInv, TypeOK
  <2>3. ASSUME NEW t \in KnownTokens PROVE t.grant # grants + 1
    BY <1>0, <2>1, TokenFacts DEF IssuedInv, Issued, KnownTokens, TypeOK
  <2> QED BY <2>1, <2>2, <2>3 DEF FreshLoginInv, Consumed, KnownTokens
<1>2. ASSUME LoginSave PROVE FreshLoginInv'
  BY <1>0, <1>b, TokenFacts, SuccessorFacts, <1>2
  DEF LoginSave, CleanInv, TypeOK, SourceInv, MutexInv, FreshLoginInv, Consumed,
      procVars, callVars, idpVars
<1>3. ASSUME LoginFails PROVE FreshLoginInv'
  BY <1>0, <1>b, TokenFacts, SuccessorFacts, <1>3
  DEF LoginFails, CleanInv, TypeOK, SourceInv, MutexInv, FreshLoginInv,
      Consumed, procVars, callVars, idpVars
<1>4. ASSUME Logout PROVE FreshLoginInv'
  BY <1>0, <1>b, TokenFacts, SuccessorFacts, <1>4
  DEF Logout, CleanInv, TypeOK, SourceInv, MutexInv, FreshLoginInv, Consumed,
      procVars, callVars, idpVars
<1>5. ASSUME NEW p \in Procs, Start(p) PROVE FreshLoginInv'
  BY <1>0, <1>b, TokenFacts, SuccessorFacts, <1>5
  DEF Start, CleanInv, TypeOK, SourceInv, MutexInv, FreshLoginInv, Consumed,
      callVars, storeVars, idpVars
<1>6. ASSUME NEW p \in Procs, Stop(p) PROVE FreshLoginInv'
  BY <1>0, <1>b, TokenFacts, SuccessorFacts, <1>6
  DEF Stop, CleanInv, TypeOK, SourceInv, MutexInv, FreshLoginInv, Consumed,
      storeVars
<1>7. ASSUME NEW w \in Workers, Call(w) PROVE FreshLoginInv'
  BY <1>0, <1>b, TokenFacts, SuccessorFacts, <1>7
  DEF Call, CleanInv, TypeOK, SourceInv, MutexInv, FreshLoginInv, Consumed,
      procVars, storeVars, idpVars
<1>8. ASSUME NEW w \in Workers, Reuse(w) PROVE FreshLoginInv'
  BY <1>0, <1>b, TokenFacts, SuccessorFacts, <1>8
  DEF Reuse, CleanInv, TypeOK, SourceInv, MutexInv, FreshLoginInv, Consumed,
      storeVars, idpVars
<1>9. ASSUME NEW w \in Workers, Enter(w) PROVE FreshLoginInv'
  BY <1>0, <1>b, TokenFacts, SuccessorFacts, <1>9
  DEF Enter, CleanInv, TypeOK, SourceInv, MutexInv, FreshLoginInv, Consumed,
      storeVars, idpVars
<1>10. ASSUME NEW w \in Workers, TakeLock(w) PROVE FreshLoginInv'
  BY <1>0, <1>b, TokenFacts, SuccessorFacts, <1>10
  DEF TakeLock, CleanInv, TypeOK, SourceInv, MutexInv, FreshLoginInv, Consumed,
      procVars, storeVars, idpVars
<1>11. ASSUME NEW w \in Workers, SkipLock(w) PROVE FreshLoginInv'
  BY <1>0, <1>b, TokenFacts, SuccessorFacts, <1>11
  DEF SkipLock, CleanInv, TypeOK, SourceInv, MutexInv, FreshLoginInv, Consumed,
      procVars, storeVars, idpVars
<1>12. ASSUME NEW w \in Workers, ReloadLive(w) PROVE FreshLoginInv'
  BY <1>0, <1>b, TokenFacts, SuccessorFacts, <1>12
  DEF ReloadLive, CleanInv, TypeOK, SourceInv, MutexInv, FreshLoginInv,
      Consumed, Reread, storeVars, idpVars
<1>13. ASSUME NEW w \in Workers, ReloadExpired(w) PROVE FreshLoginInv'
  BY <1>0, <1>b, TokenFacts, SuccessorFacts, <1>13
  DEF ReloadExpired, CleanInv, TypeOK, SourceInv, MutexInv, FreshLoginInv,
      Consumed, Reread, storeVars, idpVars
<1>14. ASSUME NEW w \in Workers, ReloadFails(w) PROVE FreshLoginInv'
  BY <1>0, <1>b, TokenFacts, SuccessorFacts, <1>14
  DEF ReloadFails, CleanInv, TypeOK, SourceInv, MutexInv, FreshLoginInv,
      Consumed, procVars, storeVars, idpVars
<1>15. ASSUME NEW w \in Workers, Discover(w) PROVE FreshLoginInv'
  BY <1>0, <1>b, TokenFacts, SuccessorFacts, <1>15
  DEF Discover, CleanInv, TypeOK, SourceInv, MutexInv, FreshLoginInv, Consumed,
      storeVars, idpVars
<1>16. ASSUME NEW w \in Workers, DiscoverFails(w) PROVE FreshLoginInv'
  BY <1>0, <1>b, TokenFacts, SuccessorFacts, <1>16
  DEF DiscoverFails, CleanInv, TypeOK, SourceInv, MutexInv, FreshLoginInv,
      Consumed, storeVars, idpVars
<1>17. ASSUME NEW w \in Workers, Answer(w) PROVE FreshLoginInv'
  <2> DEFINE t == tok[ProcOf[w]]
  <2>1. t \in Tokens BY <1>0, <1>17 DEF Answer, TypeOK, SourceInv, MutexInv
  <2>2. (Rotates(t) \/ Replays(t) \/ Refuses(t))
        /\ UNCHANGED <<grants, login, stored, tok, slipped>>
    BY <1>17 DEF Answer, procVars, storeVars
  <2>a. \A g \in 1..MaxGrants : g # t.grant => cur'[g] = cur[g]
    BY <1>0, <2>1, <2>2, ProviderFacts
  <2>3. ASSUME login # NoToken PROVE cur'[login.grant] = cur[login.grant]
    <3>1. login.grant \in 1..MaxGrants
      BY <1>0, <2>3, TokenFacts DEF TypeOK
    <3>2. ProcOf[w] \in Procs BY <1>0, <1>17 DEF Answer
    <3>3. t.grant # login.grant
      BY <1>b, <2>2, <2>3, <3>2 DEF CleanInv, FreshLoginInv
    <3> QED BY <2>a, <3>1, <3>3
  <2> QED BY <1>b, <2>2, <2>3 DEF CleanInv, FreshLoginInv, Consumed
<1>18. ASSUME NEW w \in Workers, Shed(w) PROVE FreshLoginInv'
  BY <1>0, <1>b, TokenFacts, SuccessorFacts, <1>18
  DEF Shed, CleanInv, TypeOK, SourceInv, MutexInv, FreshLoginInv, Consumed,
      procVars, storeVars, idpVars
<1>19. ASSUME NEW w \in Workers, AnswerLost(w) PROVE FreshLoginInv'
  BY <1>0, <1>b, TokenFacts, SuccessorFacts, <1>19
  DEF AnswerLost, CleanInv, TypeOK, SourceInv, MutexInv, FreshLoginInv,
      Consumed, procVars, storeVars, idpVars
<1>20. ASSUME NEW w \in Workers, Abandon(w) PROVE FreshLoginInv'
  BY <1>0, <1>b, TokenFacts, SuccessorFacts, <1>20
  DEF Abandon, CleanInv, TypeOK, SourceInv, MutexInv, FreshLoginInv, Consumed,
      storeVars
<1>21. ASSUME NEW w \in Workers, Receive(w) PROVE FreshLoginInv'
  <2>1. ProcOf[w] \in Procs /\ tok[ProcOf[w]] \in Tokens
    BY <1>0, <1>21 DEF Receive, TypeOK, SourceInv, MutexInv
  <2>2. \A p \in Procs : tok'[p].grant = tok[p].grant
    BY <1>0, <2>1, SuccessorFacts, <1>21 DEF Receive, TypeOK
  <2>3. UNCHANGED <<login, stored, cur, grants, slipped>>
    BY <1>21 DEF Receive, storeVars, idpVars
  <2> QED BY <1>b, <2>2, <2>3 DEF CleanInv, FreshLoginInv, Consumed
<1>22. ASSUME NEW w \in Workers, ReceiveError(w) PROVE FreshLoginInv'
  BY <1>0, <1>b, TokenFacts, SuccessorFacts, <1>22
  DEF ReceiveError, CleanInv, TypeOK, SourceInv, MutexInv, FreshLoginInv,
      Consumed, storeVars, idpVars
<1>23. ASSUME NEW w \in Workers, Save(w) PROVE FreshLoginInv'
  BY <1>0, <1>b, TokenFacts, SuccessorFacts, <1>23
  DEF Save, CleanInv, TypeOK, SourceInv, MutexInv, FreshLoginInv, Consumed,
      idpVars
<1>24. ASSUME NEW w \in Workers, SaveFails(w) PROVE FreshLoginInv'
  BY <1>0, <1>b, TokenFacts, SuccessorFacts, <1>24
  DEF SaveFails, CleanInv, TypeOK, SourceInv, MutexInv, FreshLoginInv, Consumed,
      storeVars, idpVars
<1>25. ASSUME NEW t \in Tokens, OrphanArrives(t) PROVE FreshLoginInv'
  BY <1>0, <1>b, TokenFacts, SuccessorFacts, <1>25
  DEF OrphanArrives, CleanInv, TypeOK, SourceInv, MutexInv, FreshLoginInv,
      Consumed, procVars, callVars, storeVars
<1>26. ASSUME NEW t \in Tokens, OrphanLost(t) PROVE FreshLoginInv'
  BY <1>0, <1>b, TokenFacts, SuccessorFacts, <1>26
  DEF OrphanLost, CleanInv, TypeOK, SourceInv, MutexInv, FreshLoginInv,
      Consumed, procVars, callVars, storeVars
<1>27. ASSUME NEW t \in Tokens, Expire(t) PROVE FreshLoginInv'
  BY <1>0, <1>b, TokenFacts, SuccessorFacts, <1>27
  DEF Expire, CleanInv, TypeOK, SourceInv, MutexInv, FreshLoginInv, Consumed,
      procVars, callVars, storeVars
<1>28. ASSUME NEW g \in 1..MaxGrants, ProviderDrops(g) PROVE FreshLoginInv'
  BY <1>0, <1>b, TokenFacts, SuccessorFacts, <1>28
  DEF ProviderDrops, CleanInv, TypeOK, SourceInv, MutexInv, FreshLoginInv,
      Consumed, procVars, callVars, storeVars
<1>29. ASSUME UNCHANGED vars PROVE FreshLoginInv'
  BY <1>0, <1>b, TokenFacts, SuccessorFacts, <1>29
  DEF vars, CleanInv, TypeOK, SourceInv, MutexInv, FreshLoginInv, Consumed,
      procVars, callVars, storeVars, idpVars
<1> QED BY <1>1, <1>2, <1>3, <1>4, <1>5, <1>6, <1>7, <1>8, <1>9, <1>10, <1>11,
       <1>12, <1>13, <1>14, <1>15, <1>16, <1>17, <1>18, <1>19, <1>20, <1>21,
       <1>22, <1>23, <1>24, <1>25, <1>26, <1>27, <1>28, <1>29
    DEF Next, Acquire, Advance, Network


(* With nothing slipped, no consumed token is presented.                   *)
LEMMA ReplayStep == ASSUME IInv, [Next]_vars, ~slipped' PROVE ~replayed'
<1> USE ConstantsAssumption
<1>0. TypeOK /\ SourceInv /\ MutexInv /\ IssuedInv /\ RotatedInv /\ StoreKeepsTheLiveToken
  BY DEF IInv
<1>a. TypeOK' /\ Grows BY TypeStep, GrowsStep
<1>b. ~slipped => CleanInv BY DEF IInv
<1>1. ASSUME Approve PROVE ~replayed'
  BY <1>0, <1>b, <1>1 DEF Approve, CleanInv, procVars, callVars
<1>2. ASSUME LoginSave PROVE ~replayed'
  BY <1>0, <1>b, <1>2 DEF LoginSave, CleanInv, procVars, callVars, idpVars
<1>3. ASSUME LoginFails PROVE ~replayed'
  BY <1>0, <1>b, <1>3 DEF LoginFails, CleanInv, procVars, callVars, idpVars
<1>4. ASSUME Logout PROVE ~replayed'
  BY <1>0, <1>b, <1>4 DEF Logout, CleanInv, procVars, callVars, idpVars
<1>5. ASSUME NEW p \in Procs, Start(p) PROVE ~replayed'
  BY <1>0, <1>b, <1>5 DEF Start, CleanInv, callVars, storeVars, idpVars
<1>6. ASSUME NEW p \in Procs, Stop(p) PROVE ~replayed'
  BY <1>0, <1>b, <1>6 DEF Stop, CleanInv, storeVars
<1>7. ASSUME NEW w \in Workers, Call(w) PROVE ~replayed'
  BY <1>0, <1>b, <1>7 DEF Call, CleanInv, procVars, storeVars, idpVars
<1>8. ASSUME NEW w \in Workers, Reuse(w) PROVE ~replayed'
  BY <1>0, <1>b, <1>8 DEF Reuse, CleanInv, storeVars, idpVars
<1>9. ASSUME NEW w \in Workers, Enter(w) PROVE ~replayed'
  BY <1>0, <1>b, <1>9 DEF Enter, CleanInv, storeVars, idpVars
<1>10. ASSUME NEW w \in Workers, TakeLock(w) PROVE ~replayed'
  BY <1>0, <1>b, <1>10 DEF TakeLock, CleanInv, procVars, storeVars, idpVars
<1>11. ASSUME NEW w \in Workers, SkipLock(w) PROVE ~replayed'
  BY <1>0, <1>b, <1>11 DEF SkipLock, CleanInv, procVars, storeVars, idpVars
<1>12. ASSUME NEW w \in Workers, ReloadLive(w) PROVE ~replayed'
  BY <1>0, <1>b, <1>12 DEF ReloadLive, CleanInv, storeVars, idpVars
<1>13. ASSUME NEW w \in Workers, ReloadExpired(w) PROVE ~replayed'
  BY <1>0, <1>b, <1>13 DEF ReloadExpired, CleanInv, storeVars, idpVars
<1>14. ASSUME NEW w \in Workers, ReloadFails(w) PROVE ~replayed'
  BY <1>0, <1>b, <1>14 DEF ReloadFails, CleanInv, procVars, storeVars, idpVars
<1>15. ASSUME NEW w \in Workers, Discover(w) PROVE ~replayed'
  BY <1>0, <1>b, <1>15 DEF Discover, CleanInv, storeVars, idpVars
<1>16. ASSUME NEW w \in Workers, DiscoverFails(w) PROVE ~replayed'
  BY <1>0, <1>b, <1>16 DEF DiscoverFails, CleanInv, storeVars, idpVars
<1>17. ASSUME NEW w \in Workers, Answer(w) PROVE ~replayed'
  <2>1. ~Consumed(tok[ProcOf[w]])
    BY <1>b, <1>17 DEF Answer, CleanInv, UnspentInv, Unspent
  <2> QED BY <1>b, <2>1, <1>17
      DEF Answer, Rotates, Replays, Refuses, Consumed, CleanInv
<1>18. ASSUME NEW w \in Workers, Shed(w) PROVE ~replayed'
  BY <1>0, <1>b, <1>18 DEF Shed, CleanInv, procVars, storeVars, idpVars
<1>19. ASSUME NEW w \in Workers, AnswerLost(w) PROVE ~replayed'
  BY <1>0, <1>b, <1>19 DEF AnswerLost, CleanInv, procVars, storeVars, idpVars
<1>20. ASSUME NEW w \in Workers, Abandon(w) PROVE ~replayed'
  BY <1>0, <1>b, <1>20 DEF Abandon, CleanInv, storeVars
<1>21. ASSUME NEW w \in Workers, Receive(w) PROVE ~replayed'
  BY <1>0, <1>b, <1>21 DEF Receive, CleanInv, storeVars, idpVars
<1>22. ASSUME NEW w \in Workers, ReceiveError(w) PROVE ~replayed'
  BY <1>0, <1>b, <1>22 DEF ReceiveError, CleanInv, storeVars, idpVars
<1>23. ASSUME NEW w \in Workers, Save(w) PROVE ~replayed'
  BY <1>0, <1>b, <1>23 DEF Save, CleanInv, idpVars
<1>24. ASSUME NEW w \in Workers, SaveFails(w) PROVE ~replayed'
  BY <1>0, <1>b, <1>24 DEF SaveFails, CleanInv, storeVars, idpVars
<1>25. ASSUME NEW t \in Tokens, OrphanArrives(t) PROVE ~replayed'
  BY <1>b, <1>25 DEF OrphanArrives, CleanInv
<1>26. ASSUME NEW t \in Tokens, OrphanLost(t) PROVE ~replayed'
  BY <1>0, <1>b, <1>26 DEF OrphanLost, CleanInv, procVars, callVars, storeVars
<1>27. ASSUME NEW t \in Tokens, Expire(t) PROVE ~replayed'
  BY <1>0, <1>b, <1>27 DEF Expire, CleanInv, procVars, callVars, storeVars
<1>28. ASSUME NEW g \in 1..MaxGrants, ProviderDrops(g) PROVE ~replayed'
  BY <1>0, <1>b, <1>28
  DEF ProviderDrops, CleanInv, procVars, callVars, storeVars
<1>29. ASSUME UNCHANGED vars PROVE ~replayed'
  BY <1>0, <1>b, <1>29
  DEF vars, CleanInv, procVars, callVars, storeVars, idpVars
<1> QED BY <1>1, <1>2, <1>3, <1>4, <1>5, <1>6, <1>7, <1>8, <1>9, <1>10, <1>11,
       <1>12, <1>13, <1>14, <1>15, <1>16, <1>17, <1>18, <1>19, <1>20, <1>21,
       <1>22, <1>23, <1>24, <1>25, <1>26, <1>27, <1>28, <1>29
    DEF Next, Acquire, Advance, Network


(* With nothing slipped, what a refresh presents or saves is honoured.     *)
LEMMA UnspentStep == ASSUME IInv, [Next]_vars, ~slipped' PROVE UnspentInv'
<1> USE ConstantsAssumption
<1>0. TypeOK /\ SourceInv /\ MutexInv /\ IssuedInv /\ RotatedInv /\ StoreKeepsTheLiveToken
  BY DEF IInv
<1>a. TypeOK' /\ Grows BY TypeStep, GrowsStep
<1>b. ~slipped => CleanInv BY DEF IInv
<1>1. ASSUME Approve PROVE UnspentInv'
  BY <1>0, <1>b, Exclusive, <1>1
  DEF Approve, CleanInv, TypeOK, MutexInv, UnspentInv, Unspent, Consumed,
      HolderInv, Locked, Labels, procVars, callVars
<1>2. ASSUME LoginSave PROVE UnspentInv'
  BY <1>0, <1>b, Exclusive, <1>2
  DEF LoginSave, CleanInv, TypeOK, MutexInv, UnspentInv, Unspent, Consumed,
      HolderInv, Locked, Labels, procVars, callVars, idpVars
<1>3. ASSUME LoginFails PROVE UnspentInv'
  BY <1>0, <1>b, Exclusive, <1>3
  DEF LoginFails, CleanInv, TypeOK, MutexInv, UnspentInv, Unspent, Consumed,
      HolderInv, Locked, Labels, procVars, callVars, idpVars
<1>4. ASSUME Logout PROVE UnspentInv'
  BY <1>0, <1>b, Exclusive, <1>4
  DEF Logout, CleanInv, TypeOK, MutexInv, UnspentInv, Unspent, Consumed,
      HolderInv, Locked, Labels, procVars, callVars, idpVars
<1>5. ASSUME NEW p \in Procs, Start(p) PROVE UnspentInv'
  BY <1>0, <1>b, Exclusive, <1>5
  DEF Start, CleanInv, TypeOK, MutexInv, UnspentInv, Unspent, Consumed,
      HolderInv, Locked, Labels, callVars, storeVars, idpVars
<1>6. ASSUME NEW p \in Procs, Stop(p) PROVE UnspentInv'
  BY <1>0, <1>b, Exclusive, <1>6
  DEF Stop, CleanInv, TypeOK, MutexInv, UnspentInv, Unspent, Consumed,
      HolderInv, Locked, Labels, WorkersOf, storeVars
<1>7. ASSUME NEW w \in Workers, Call(w) PROVE UnspentInv'
  BY <1>0, <1>b, Exclusive, <1>7
  DEF Call, CleanInv, TypeOK, MutexInv, UnspentInv, Unspent, Consumed,
      HolderInv, Locked, Labels, procVars, storeVars, idpVars
<1>8. ASSUME NEW w \in Workers, Reuse(w) PROVE UnspentInv'
  BY <1>0, <1>b, Exclusive, <1>8
  DEF Reuse, CleanInv, TypeOK, MutexInv, UnspentInv, Unspent, Consumed,
      HolderInv, Locked, Labels, Return, Release, storeVars, idpVars
<1>9. ASSUME NEW w \in Workers, Enter(w) PROVE UnspentInv'
  BY <1>0, <1>b, Exclusive, <1>9
  DEF Enter, CleanInv, TypeOK, MutexInv, UnspentInv, Unspent, Consumed,
      HolderInv, Locked, Labels, storeVars, idpVars
<1>10. ASSUME NEW w \in Workers, TakeLock(w) PROVE UnspentInv'
  BY <1>0, <1>b, Exclusive, <1>10
  DEF TakeLock, CleanInv, TypeOK, MutexInv, UnspentInv, Unspent, Consumed,
      HolderInv, Locked, Labels, procVars, storeVars, idpVars
<1>11. ASSUME NEW w \in Workers, SkipLock(w) PROVE UnspentInv'
  BY <1>0, <1>b, Exclusive, <1>11
  DEF SkipLock, CleanInv, TypeOK, MutexInv, UnspentInv, Unspent, Consumed,
      HolderInv, Locked, Labels, procVars, storeVars, idpVars
<1>12. ASSUME NEW w \in Workers, ReloadLive(w) PROVE UnspentInv'
  BY <1>0, <1>b, Exclusive, <1>12
  DEF ReloadLive, CleanInv, TypeOK, MutexInv, UnspentInv, Unspent, Consumed,
      HolderInv, Locked, Labels, Return, Release, Reread, storeVars, idpVars
<1>13. ASSUME NEW w \in Workers, ReloadExpired(w) PROVE UnspentInv'
  <2>1. CleanInv /\ pc[w] = "load" /\ cur' = cur
    BY <1>b, <1>13 DEF ReloadExpired, idpVars
  <2>2. \A v \in Workers : v # w => ~Unspent(v) /\ wire[v] # "rotated" /\ ~Unsaved(v)
    BY <1>0, <2>1
    DEF CleanInv, HolderInv, MutexInv, Locked, Labels, Unspent, Unsaved
  <2>3. ~Unspent(w) /\ wire[w] # "rotated" /\ ~Unsaved(w)
    BY <1>0, <2>1 DEF MutexInv, Unspent, Unsaved
  <2>4. ~Consumed(stored)
    BY <1>0, <1>b, <2>2, <2>3, <1>13 DEF ReloadExpired, StoreKeepsTheLiveToken
  <2>5. tok'[ProcOf[w]] = stored /\ wire'[w] # "rotated"
    BY <1>0, <2>3, <1>13 DEF ReloadExpired, GoOn, Reread, TypeOK
  <2>6. \A v \in Workers : v # w => ~Unspent(v)' /\ wire'[v] # "rotated"
    BY <1>0, <2>2, <1>13 DEF ReloadExpired, GoOn, TypeOK, Unspent
  <2> QED BY <2>1, <2>4, <2>5, <2>6 DEF UnspentInv, Consumed
<1>14. ASSUME NEW w \in Workers, ReloadFails(w) PROVE UnspentInv'
  BY <1>0, <1>b, Exclusive, <1>14
  DEF ReloadFails, CleanInv, TypeOK, MutexInv, UnspentInv, Unspent, Consumed,
      HolderInv, Locked, Labels, GoOn, procVars, storeVars, idpVars
<1>15. ASSUME NEW w \in Workers, Discover(w) PROVE UnspentInv'
  BY <1>0, <1>b, Exclusive, <1>15
  DEF Discover, CleanInv, TypeOK, MutexInv, UnspentInv, Unspent, Consumed,
      HolderInv, Locked, Labels, storeVars, idpVars
<1>16. ASSUME NEW w \in Workers, DiscoverFails(w) PROVE UnspentInv'
  BY <1>0, <1>b, Exclusive, <1>16
  DEF DiscoverFails, CleanInv, TypeOK, MutexInv, UnspentInv, Unspent, Consumed,
      HolderInv, Locked, Labels, Return, Release, storeVars, idpVars
<1>17. ASSUME NEW w \in Workers, Answer(w) PROVE UnspentInv'
  <2> DEFINE t == tok[ProcOf[w]]
  <2>1. CleanInv /\ pc[w] = "wait" /\ pc' = pc /\ tok' = tok
    BY <1>0, <1>b, <1>17 DEF Answer, MutexInv, procVars
  <2>2. \A v \in Workers : v # w => ~Unspent(v) /\ wire[v] # "rotated"
    BY <1>0, <2>1 DEF CleanInv, HolderInv, MutexInv, Locked, Labels, Unspent
  <2>3. \A v \in Workers : v # w => ~Unspent(v)' /\ wire'[v] # "rotated"
    BY <1>0, <2>1, <2>2, <1>17 DEF Answer, TypeOK, Unspent
  <2>4. ASSUME wire'[w] # "rotated" PROVE cur' = cur /\ ~Consumed(t)
    BY <1>0, <2>1, <2>4, <1>17
    DEF Answer, TypeOK, Replays, Refuses, CleanInv, UnspentInv, Unspent
  <2>5. t \in Tokens BY <1>0, <2>1 DEF TypeOK, SourceInv, MutexInv
  <2>6. ASSUME wire'[w] = "rotated" PROVE ~(Successor(t).seq < cur'[Successor(t).grant])
    BY <1>0, <2>5, <2>6, TokenFacts, SuccessorFacts, <1>17
    DEF Answer, Rotates, TypeOK
  <2>7. wire'[w] = "rotated" => ~Unspent(w)'
    BY <2>1 DEF Unspent
  <2> QED BY <2>1, <2>3, <2>4, <2>6, <2>7 DEF UnspentInv, Consumed
<1>18. ASSUME NEW w \in Workers, Shed(w) PROVE UnspentInv'
  BY <1>0, <1>b, Exclusive, <1>18
  DEF Shed, CleanInv, TypeOK, MutexInv, UnspentInv, Unspent, Consumed,
      HolderInv, Locked, Labels, Answers, procVars, storeVars, idpVars
<1>19. ASSUME NEW w \in Workers, AnswerLost(w) PROVE UnspentInv'
  BY <1>0, <1>b, Exclusive, <1>19
  DEF AnswerLost, CleanInv, TypeOK, MutexInv, UnspentInv, Unspent, Consumed,
      HolderInv, Locked, Labels, procVars, storeVars, idpVars
<1>20. ASSUME NEW w \in Workers, Abandon(w) PROVE UnspentInv'
  BY <1>0, <1>b, Exclusive, <1>20
  DEF Abandon, CleanInv, TypeOK, MutexInv, UnspentInv, Unspent, Consumed,
      HolderInv, Locked, Labels, Return, Release, storeVars
<1>21. ASSUME NEW w \in Workers, Receive(w) PROVE UnspentInv'
  BY <1>0, <1>b, Exclusive, <1>21
  DEF Receive, CleanInv, TypeOK, MutexInv, UnspentInv, Unspent, Consumed,
      HolderInv, Locked, Labels, storeVars, idpVars
<1>22. ASSUME NEW w \in Workers, ReceiveError(w) PROVE UnspentInv'
  BY <1>0, <1>b, Exclusive, <1>22
  DEF ReceiveError, CleanInv, TypeOK, MutexInv, UnspentInv, Unspent, Consumed,
      HolderInv, Locked, Labels, Return, Release, storeVars, idpVars
<1>23. ASSUME NEW w \in Workers, Save(w) PROVE UnspentInv'
  BY <1>0, <1>b, Exclusive, <1>23
  DEF Save, CleanInv, TypeOK, MutexInv, UnspentInv, Unspent, Consumed,
      HolderInv, Locked, Labels, Return, Release, idpVars
<1>24. ASSUME NEW w \in Workers, SaveFails(w) PROVE UnspentInv'
  BY <1>0, <1>b, Exclusive, <1>24
  DEF SaveFails, CleanInv, TypeOK, MutexInv, UnspentInv, Unspent, Consumed,
      HolderInv, Locked, Labels, Return, Release, storeVars, idpVars
<1>25. ASSUME NEW t \in Tokens, OrphanArrives(t) PROVE UnspentInv'
  BY <1>0, <1>b, Exclusive, <1>25
  DEF OrphanArrives, CleanInv, TypeOK, MutexInv, UnspentInv, Unspent, Consumed,
      HolderInv, Locked, Labels, procVars, callVars, storeVars
<1>26. ASSUME NEW t \in Tokens, OrphanLost(t) PROVE UnspentInv'
  BY <1>0, <1>b, Exclusive, <1>26
  DEF OrphanLost, CleanInv, TypeOK, MutexInv, UnspentInv, Unspent, Consumed,
      HolderInv, Locked, Labels, procVars, callVars, storeVars
<1>27. ASSUME NEW t \in Tokens, Expire(t) PROVE UnspentInv'
  BY <1>0, <1>b, Exclusive, <1>27
  DEF Expire, CleanInv, TypeOK, MutexInv, UnspentInv, Unspent, Consumed,
      HolderInv, Locked, Labels, procVars, callVars, storeVars
<1>28. ASSUME NEW g \in 1..MaxGrants, ProviderDrops(g) PROVE UnspentInv'
  BY <1>0, <1>b, Exclusive, <1>28
  DEF ProviderDrops, CleanInv, TypeOK, MutexInv, UnspentInv, Unspent,
      Consumed, HolderInv, Locked, Labels, procVars, callVars, storeVars
<1>29. ASSUME UNCHANGED vars PROVE UnspentInv'
  BY <1>0, <1>b, Exclusive, <1>29
  DEF vars, CleanInv, TypeOK, MutexInv, UnspentInv, Unspent, Consumed,
      HolderInv, Locked, Labels, procVars, callVars, storeVars, idpVars
<1> QED BY <1>1, <1>2, <1>3, <1>4, <1>5, <1>6, <1>7, <1>8, <1>9, <1>10, <1>11,
       <1>12, <1>13, <1>14, <1>15, <1>16, <1>17, <1>18, <1>19, <1>20, <1>21,
       <1>22, <1>23, <1>24, <1>25, <1>26, <1>27, <1>28, <1>29
    DEF Next, Acquire, Advance, Network


(* With nothing slipped, the store keeps the live token.                   *)
LEMMA StoreStep == ASSUME IInv, [Next]_vars, ~slipped' PROVE StoreKeepsTheLiveToken'
<1> USE ConstantsAssumption
<1>0. TypeOK /\ SourceInv /\ MutexInv /\ IssuedInv /\ RotatedInv /\ StoreKeepsTheLiveToken
  BY DEF IInv
<1>a. TypeOK' /\ Grows BY TypeStep, GrowsStep
<1>b. ~slipped => CleanInv BY DEF IInv
<1>1. ASSUME Approve PROVE StoreKeepsTheLiveToken'
  BY <1>0, <1>b, Exclusive, <1>1
  DEF Approve, CleanInv, TypeOK, MutexInv, UnspentInv, Unspent, Unsaved,
      Consumed, HolderInv, Locked, Labels, StoreKeepsTheLiveToken, procVars,
      callVars
<1>2. ASSUME LoginSave PROVE StoreKeepsTheLiveToken'
  BY <1>b, <1>2
  DEF LoginSave, CleanInv, FreshLoginInv, StoreKeepsTheLiveToken, Consumed,
      idpVars
<1>3. ASSUME LoginFails PROVE StoreKeepsTheLiveToken'
  BY <1>0, <1>b, Exclusive, <1>3
  DEF LoginFails, CleanInv, TypeOK, MutexInv, UnspentInv, Unspent, Unsaved,
      Consumed, HolderInv, Locked, Labels, StoreKeepsTheLiveToken, procVars,
      callVars, idpVars
<1>4. ASSUME Logout PROVE StoreKeepsTheLiveToken'
  BY <1>0, <1>b, Exclusive, <1>4
  DEF Logout, CleanInv, TypeOK, MutexInv, UnspentInv, Unspent, Unsaved,
      Consumed, HolderInv, Locked, Labels, StoreKeepsTheLiveToken, procVars,
      callVars, idpVars
<1>5. ASSUME NEW p \in Procs, Start(p) PROVE StoreKeepsTheLiveToken'
  BY <1>0, <1>b, Exclusive, <1>5
  DEF Start, CleanInv, TypeOK, MutexInv, UnspentInv, Unspent, Unsaved, Consumed,
      HolderInv, Locked, Labels, StoreKeepsTheLiveToken, callVars, storeVars,
      idpVars
<1>6. ASSUME NEW p \in Procs, Stop(p) PROVE StoreKeepsTheLiveToken'
  BY <1>0, <1>b, Exclusive, <1>6
  DEF Stop, CleanInv, TypeOK, MutexInv, UnspentInv, Unspent, Unsaved, Consumed,
      HolderInv, Locked, Labels, StoreKeepsTheLiveToken, MidRefresh, WorkersOf,
      storeVars
<1>7. ASSUME NEW w \in Workers, Call(w) PROVE StoreKeepsTheLiveToken'
  BY <1>0, <1>b, Exclusive, <1>7
  DEF Call, CleanInv, TypeOK, MutexInv, UnspentInv, Unspent, Unsaved, Consumed,
      HolderInv, Locked, Labels, StoreKeepsTheLiveToken, procVars, storeVars,
      idpVars
<1>8. ASSUME NEW w \in Workers, Reuse(w) PROVE StoreKeepsTheLiveToken'
  BY <1>0, <1>b, Exclusive, <1>8
  DEF Reuse, CleanInv, TypeOK, MutexInv, UnspentInv, Unspent, Unsaved, Consumed,
      HolderInv, Locked, Labels, StoreKeepsTheLiveToken, Return, Release,
      storeVars, idpVars
<1>9. ASSUME NEW w \in Workers, Enter(w) PROVE StoreKeepsTheLiveToken'
  BY <1>0, <1>b, Exclusive, <1>9
  DEF Enter, CleanInv, TypeOK, MutexInv, UnspentInv, Unspent, Unsaved, Consumed,
      HolderInv, Locked, Labels, StoreKeepsTheLiveToken, storeVars, idpVars
<1>10. ASSUME NEW w \in Workers, TakeLock(w) PROVE StoreKeepsTheLiveToken'
  BY <1>0, <1>b, Exclusive, <1>10
  DEF TakeLock, CleanInv, TypeOK, MutexInv, UnspentInv, Unspent, Unsaved,
      Consumed, HolderInv, Locked, Labels, StoreKeepsTheLiveToken, procVars,
      storeVars, idpVars
<1>11. ASSUME NEW w \in Workers, SkipLock(w) PROVE StoreKeepsTheLiveToken'
  BY <1>0, <1>b, Exclusive, <1>11
  DEF SkipLock, CleanInv, TypeOK, MutexInv, UnspentInv, Unspent, Unsaved,
      Consumed, HolderInv, Locked, Labels, StoreKeepsTheLiveToken, procVars,
      storeVars, idpVars
<1>12. ASSUME NEW w \in Workers, ReloadLive(w) PROVE StoreKeepsTheLiveToken'
  BY <1>0, <1>b, Exclusive, <1>12
  DEF ReloadLive, CleanInv, TypeOK, MutexInv, UnspentInv, Unspent, Unsaved,
      Consumed, HolderInv, Locked, Labels, StoreKeepsTheLiveToken, Return,
      Release, Reread, storeVars, idpVars
<1>13. ASSUME NEW w \in Workers, ReloadExpired(w) PROVE StoreKeepsTheLiveToken'
  BY <1>0, <1>b, Exclusive, <1>13
  DEF ReloadExpired, CleanInv, TypeOK, MutexInv, UnspentInv, Unspent, Unsaved,
      Consumed, HolderInv, Locked, Labels, StoreKeepsTheLiveToken, GoOn, Reread,
      storeVars, idpVars
<1>14. ASSUME NEW w \in Workers, ReloadFails(w) PROVE StoreKeepsTheLiveToken'
  BY <1>0, <1>b, Exclusive, <1>14
  DEF ReloadFails, CleanInv, TypeOK, MutexInv, UnspentInv, Unspent, Unsaved,
      Consumed, HolderInv, Locked, Labels, StoreKeepsTheLiveToken, GoOn,
      procVars, storeVars, idpVars
<1>15. ASSUME NEW w \in Workers, Discover(w) PROVE StoreKeepsTheLiveToken'
  BY <1>0, <1>b, Exclusive, <1>15
  DEF Discover, CleanInv, TypeOK, MutexInv, UnspentInv, Unspent, Unsaved,
      Consumed, HolderInv, Locked, Labels, StoreKeepsTheLiveToken, storeVars,
      idpVars
<1>16. ASSUME NEW w \in Workers, DiscoverFails(w) PROVE StoreKeepsTheLiveToken'
  BY <1>0, <1>b, Exclusive, <1>16
  DEF DiscoverFails, CleanInv, TypeOK, MutexInv, UnspentInv, Unspent, Unsaved,
      Consumed, HolderInv, Locked, Labels, StoreKeepsTheLiveToken, Return,
      Release, storeVars, idpVars
<1>17. ASSUME NEW w \in Workers, Answer(w) PROVE StoreKeepsTheLiveToken'
  <2> DEFINE t == tok[ProcOf[w]]
  <2>1. CleanInv /\ UNCHANGED <<pc, tok, stored, slipped>> /\ pc[w] = "wait"
    BY <1>0, <1>b, <1>17 DEF Answer, MutexInv, procVars, storeVars
  <2>2. \A v \in Workers : ~Unsaved(v)
    BY <1>0, <2>1, <1>17
    DEF Answer, CleanInv, HolderInv, MutexInv, Locked, Labels, Unsaved
  <2>3. stored # NoToken => ~Consumed(stored)
    BY <1>0, <1>b, <2>1, <2>2 DEF StoreKeepsTheLiveToken
  <2>4. t \in Tokens BY <1>0, <2>1 DEF TypeOK, SourceInv, MutexInv
  <2>5. CASE Rotates(t) /\ wire' = [wire EXCEPT ![w] = "rotated"]
    <3>1. Unsaved(w)' BY <1>0, <2>5 DEF Unsaved, TypeOK
    <3>2. CASE stored.grant = t.grant
      BY <2>1, <3>1, <3>2 DEF StoreKeepsTheLiveToken
    <3>3. CASE stored # NoToken /\ stored.grant # t.grant
      BY <1>0, <2>1, <2>3, <2>4, <2>5, <3>3, TokenFacts
      DEF StoreKeepsTheLiveToken, Consumed, Rotates, TypeOK
    <3> QED BY <2>1, <3>2, <3>3 DEF StoreKeepsTheLiveToken
  <2>6. CASE Replays(t) \/ Refuses(t)
    BY <2>1, <2>3, <2>6 DEF StoreKeepsTheLiveToken, Consumed, Replays, Refuses
  <2> QED BY <2>5, <2>6, <1>17 DEF Answer
<1>18. ASSUME NEW w \in Workers, Shed(w) PROVE StoreKeepsTheLiveToken'
  BY <1>0, <1>b, Exclusive, <1>18
  DEF Shed, CleanInv, TypeOK, MutexInv, UnspentInv, Unspent, Unsaved, Consumed,
      HolderInv, Locked, Labels, StoreKeepsTheLiveToken, Answers, procVars,
      storeVars, idpVars
<1>19. ASSUME NEW w \in Workers, AnswerLost(w) PROVE StoreKeepsTheLiveToken'
  BY <1>0, <1>b, Exclusive, <1>19
  DEF AnswerLost, CleanInv, TypeOK, MutexInv, UnspentInv, Unspent, Unsaved,
      Consumed, HolderInv, Locked, Labels, StoreKeepsTheLiveToken, procVars,
      storeVars, idpVars
<1>20. ASSUME NEW w \in Workers, Abandon(w) PROVE StoreKeepsTheLiveToken'
  BY <1>0, <1>b, Exclusive, <1>20
  DEF Abandon, CleanInv, TypeOK, MutexInv, UnspentInv, Unspent, Unsaved,
      Consumed, HolderInv, Locked, Labels, StoreKeepsTheLiveToken, Return,
      Release, storeVars
<1>21. ASSUME NEW w \in Workers, Receive(w) PROVE StoreKeepsTheLiveToken'
  <2>1. tok[ProcOf[w]] \in Tokens
    BY <1>0, <1>21 DEF Receive, TypeOK, SourceInv, MutexInv
  <2>2. \A v \in Workers : Unsaved(v) => Unsaved(v)'
    BY <1>0, <1>21 DEF Receive, TypeOK, Unsaved
  <2>3. \A v \in Workers : tok'[ProcOf[v]].grant = tok[ProcOf[v]].grant
    BY <1>0, <2>1, SuccessorFacts, <1>21 DEF Receive, TypeOK
  <2> QED BY <1>0, <2>2, <2>3, <1>21
      DEF Receive, StoreKeepsTheLiveToken, Consumed, storeVars, idpVars
<1>22. ASSUME NEW w \in Workers, ReceiveError(w) PROVE StoreKeepsTheLiveToken'
  <2>1. \A v \in Workers : Unsaved(v) => Unsaved(v)'
    BY <1>0, <1>22 DEF ReceiveError, Return, Answers, TypeOK, MutexInv, Unsaved
  <2> QED BY <1>0, <2>1, <1>22
      DEF ReceiveError, StoreKeepsTheLiveToken, Consumed, storeVars, idpVars
<1>23. ASSUME NEW w \in Workers, Save(w) PROVE StoreKeepsTheLiveToken'
  BY <1>0, <1>b, Exclusive, <1>23
  DEF Save, CleanInv, TypeOK, MutexInv, UnspentInv, Unspent, Unsaved, Consumed,
      HolderInv, Locked, Labels, StoreKeepsTheLiveToken, Return, Release,
      idpVars
<1>24. ASSUME NEW w \in Workers, SaveFails(w) PROVE StoreKeepsTheLiveToken'
  BY <1>0, <1>b, Exclusive, <1>24
  DEF SaveFails, CleanInv, TypeOK, MutexInv, UnspentInv, Unspent, Unsaved,
      Consumed, HolderInv, Locked, Labels, StoreKeepsTheLiveToken, Return,
      Release, storeVars, idpVars
<1>25. ASSUME NEW t \in Tokens, OrphanArrives(t) PROVE StoreKeepsTheLiveToken'
  BY <1>0, <1>b, Exclusive, <1>25
  DEF OrphanArrives, CleanInv, TypeOK, MutexInv, UnspentInv, Unspent, Unsaved,
      Consumed, HolderInv, Locked, Labels, StoreKeepsTheLiveToken, procVars,
      callVars, storeVars
<1>26. ASSUME NEW t \in Tokens, OrphanLost(t) PROVE StoreKeepsTheLiveToken'
  BY <1>0, <1>b, Exclusive, <1>26
  DEF OrphanLost, CleanInv, TypeOK, MutexInv, UnspentInv, Unspent, Unsaved,
      Consumed, HolderInv, Locked, Labels, StoreKeepsTheLiveToken, procVars,
      callVars, storeVars
<1>27. ASSUME NEW t \in Tokens, Expire(t) PROVE StoreKeepsTheLiveToken'
  BY <1>0, <1>b, Exclusive, <1>27
  DEF Expire, CleanInv, TypeOK, MutexInv, UnspentInv, Unspent, Unsaved,
      Consumed, HolderInv, Locked, Labels, StoreKeepsTheLiveToken, procVars,
      callVars, storeVars
<1>28. ASSUME NEW g \in 1..MaxGrants, ProviderDrops(g) PROVE StoreKeepsTheLiveToken'
  BY <1>0, <1>b, Exclusive, <1>28
  DEF ProviderDrops, CleanInv, TypeOK, MutexInv, UnspentInv, Unspent, Unsaved,
      Consumed, HolderInv, Locked, Labels, StoreKeepsTheLiveToken, procVars,
      callVars, storeVars
<1>29. ASSUME UNCHANGED vars PROVE StoreKeepsTheLiveToken'
  BY <1>0, <1>b, Exclusive, <1>29
  DEF vars, CleanInv, TypeOK, MutexInv, UnspentInv, Unspent, Unsaved, Consumed,
      HolderInv, Locked, Labels, StoreKeepsTheLiveToken, procVars, callVars,
      storeVars, idpVars
<1> QED BY <1>1, <1>2, <1>3, <1>4, <1>5, <1>6, <1>7, <1>8, <1>9, <1>10, <1>11,
       <1>12, <1>13, <1>14, <1>15, <1>16, <1>17, <1>18, <1>19, <1>20, <1>21,
       <1>22, <1>23, <1>24, <1>25, <1>26, <1>27, <1>28, <1>29
    DEF Next, Acquire, Advance, Network


(* The invariant is preserved by every step.                               *)
LEMMA InvStep == ASSUME IInv, [Next]_vars PROVE IInv'
<1>1. ASSUME ~slipped' PROVE CleanInv'
  BY <1>1, ReplayStep, OrphanStep, HolderStep, UnspentStep, LoginStep
  DEF CleanInv
<1>2. StoreKeepsTheLiveToken'
  BY StoreStep DEF StoreKeepsTheLiveToken
<1> QED BY <1>1, <1>2, TypeStep, SourceStep, MutexStep, IssuedStep, RotatedStep,
       EarlyStep, PresentedStep, RefusedStep
    DEF IInv

(* The invariant holds initially.                                          *)
LEMMA InvInit == Init => IInv
<1> SUFFICES ASSUME Init PROVE IInv OBVIOUS
<1> USE ConstantsAssumption
<1>1. TypeOK
  <2>1. cur \in [1..MaxGrants -> 0..MaxSeq] /\ grants \in 0..MaxGrants
    BY DEF Init
  <2>2. pc \in [Workers -> Labels] /\ wire \in [Workers -> Answers \union {"none", "asked"}]
    BY DEF Init, Labels
  <2>3. /\ tok \in [Procs -> Tokens \union {NoToken}]
        /\ mu \in [Procs -> Workers \union {NoOne}]
    BY DEF Init
  <2> QED BY <2>1, <2>2, <2>3 DEF Init, TypeOK
<1>2. SourceInv /\ MutexInv /\ RotatedInv /\ RefusedInv
  BY DEF Init, SourceInv, MutexInv, RotatedInv, RefusedInv, Locked, Labels
<1>3. IssuedInv BY DEF Init, IssuedInv, KnownTokens
<1>4. NoEarlyRotation BY TokenFacts DEF Init, NoEarlyRotation, Consumed
<1>5. PresentedInv BY DEF Init, PresentedInv, Refreshing
<1>6. CleanInv
  BY DEF Init, CleanInv, HolderInv, UnspentInv, Unspent, FreshLoginInv, Locked,
      Labels
<1>7. StoreKeepsTheLiveToken BY DEF Init, StoreKeepsTheLiveToken
<1> QED BY <1>1, <1>2, <1>3, <1>4, <1>5, <1>6, <1>7 DEF IInv

(* The inductive invariant holds of every behaviour of the token source.   *)
THEOREM Inductive == Spec => []IInv
BY InvInit, InvStep, PTL DEF Spec

(* Every variable keeps its type.                                          *)
THEOREM TypeCorrect == Spec => []TypeOK
<1>1. IInv => TypeOK BY DEF IInv
<1> QED BY <1>1, Inductive, PTL

(* However processes, goroutines, logins, logouts and expiries interleave, *)
(* no consumed refresh token is ever presented unless the lock, the store  *)
(* or an answer failed a refresh: the promise of lockingTokenSource.       *)
THEOREM NoReplay == Spec => []NoReplayUnlessSlipped
<1>1. IInv => NoReplayUnlessSlipped BY DEF IInv, NoReplayUnlessSlipped, CleanInv
<1> QED BY <1>1, Inductive, PTL

(* Nor does the machine lose its session: the stored token is the one its  *)
(* grant honours, unless a refresh of that grant is about to be saved.     *)
THEOREM StoreKeeps == Spec => []StoreKeepsTheLiveToken
<1>1. IInv => StoreKeepsTheLiveToken BY DEF IInv
<1> QED BY <1>1, Inductive, PTL

(* Whatever fails, only the refresh token of an expired token is spent.    *)
THEOREM NoneEarly == Spec => []NoEarlyRotation
<1>1. IInv => NoEarlyRotation BY DEF IInv
<1> QED BY <1>1, Inductive, PTL

(* With nothing slipped, the token of a rejected session is the one the    *)
(* machine has stored, unless a login or a logout put another there: what  *)
(* is presented is honoured, and so is what is stored, and a grant honours *)
(* one token at a time.                                                    *)
THEOREM RejectedIsTheMachines == Spec => []RejectedTokenIsTheMachines
<1>1. IInv => RejectedTokenIsTheMachines
  <2> SUFFICES ASSUME IInv, ~slipped, NEW w \in Workers,
                      IsSessionRejected(wire[w]),
                      tok[ProcOf[w]].grant = stored.grant
               PROVE  tok[ProcOf[w]] = stored
    BY DEF RejectedTokenIsTheMachines
  <2> USE ConstantsAssumption
  <2> DEFINE t == tok[ProcOf[w]]
  <2>0. TypeOK /\ SourceInv /\ MutexInv /\ IssuedInv /\ CleanInv
        /\ StoreKeepsTheLiveToken
    BY DEF IInv
  <2>1. pc[w] = "wait" /\ wire[w] \notin {"none", "rotated"}
    BY <2>0 DEF IsSessionRejected, HasCode, MutexInv
  <2>2. t \in Tokens /\ t # NoToken
    BY <2>0, <2>1 DEF TypeOK, SourceInv, MutexInv
  <2>3. t.grant \in 1..MaxGrants BY <2>2, TokenFacts
  <2>4. stored # NoToken /\ stored \in Tokens
    BY <2>0, <2>3 DEF TypeOK, NoToken
  <2>5. ~Consumed(t) BY <2>0, <2>1 DEF CleanInv, UnspentInv, Unspent
  <2>6. ~\E v \in Workers : Unsaved(v)
    BY <2>0, <2>1 DEF CleanInv, HolderInv, MutexInv, Locked, Labels, Unsaved
  <2>7. ~Consumed(stored) BY <2>0, <2>4, <2>6 DEF StoreKeepsTheLiveToken
  <2>8. Issued(t) /\ Issued(stored)
    BY <2>0, <2>2, <2>4 DEF IssuedInv, KnownTokens
  <2>9. t.seq \in Nat /\ stored.seq \in Nat /\ cur[t.grant] \in Nat
    BY <2>0, <2>2, <2>3, <2>4 DEF TypeOK, Tokens
  <2>10. t.seq = stored.seq
    BY <2>5, <2>7, <2>8, <2>9 DEF Consumed, Issued
  <2> QED BY <2>2, <2>4, <2>10 DEF Tokens
<1> QED BY <1>1, Inductive, PTL

(* Whatever fails, no 429, no 5xx, no page and no silence reads as a       *)
(* rejection: the grant of a rejected session is over, or a code about the *)
(* moment came under a status that says nothing.                           *)
THEOREM NoOutageRejects == Spec => []OutageIsNoRejection
<1>1. IInv => OutageIsNoRejection
  BY DEF IInv, RefusedInv, OutageIsNoRejection, IsSessionRejected, HasCode,
      Statuses
<1> QED BY <1>1, Inductive, PTL

=============================================================================
