----------------------- MODULE RotatingSessionProofs -----------------------
(***************************************************************************)
(* TokenRefresh implements RotatingSession, for every set of processes and *)
(* goroutines: the proof that each of its steps is one of the session's or *)
(* a stutter.  It rests on the inductive invariant of TokenRefreshProofs:  *)
(* HolderInv makes the refresh under way the only one, UnspentInv makes    *)
(* its token the one that the provider honours.                            *)
(***************************************************************************)
EXTENDS TokenRefreshProofs

(* A token is what comes before its successor.                             *)
LEMMA BeforeFacts ==
    ASSUME NEW t \in Tokens
    PROVE  /\ Before(Successor(t)) = t
           /\ Before(t).grant = t.grant /\ Before(t).seq = t.seq - 1
           /\ Successor(Before(t)) = t
<1> DEFINE Pair(g, n) == [grant |-> g, seq |-> n]
<1>1. t = Pair(t.grant, t.seq) /\ t.grant \in Int /\ t.seq \in Int
  BY ConstantsAssumption DEF Tokens
<1>2. ASSUME NEW g \in Int, NEW n \in Int
      PROVE  Successor(Pair(g, n)) = Pair(g, n + 1) /\ Before(Pair(g, n)) = Pair(g, n - 1)
  BY DEF Successor, Before
<1>3. (t.seq + 1) - 1 = t.seq /\ (t.seq - 1) + 1 = t.seq
      /\ t.seq + 1 \in Int /\ t.seq - 1 \in Int
  BY <1>1
<1>4. Before(t).grant = t.grant /\ Before(t).seq = t.seq - 1 BY <1>1 DEF Before
<1> HIDE DEF Pair
<1>5. Successor(t) = Pair(t.grant, t.seq + 1) /\ Before(t) = Pair(t.grant, t.seq - 1)
  BY <1>1, <1>2
<1>6. Before(Successor(t)) = t BY <1>1, <1>2, <1>3, <1>5
<1>7. Successor(Before(t)) = t BY <1>1, <1>2, <1>3, <1>5
<1> QED BY <1>4, <1>6, <1>7

(* What has slipped stays so.                                              *)
LEMMA SlipsStay == ASSUME TypeOK, [Next]_vars, slipped PROVE slipped'
<1>1. CASE Approve \/ LoginSave \/ LoginFails \/ Logout
  BY <1>1 DEF Approve, LoginSave, LoginFails, Logout
<1>2. ASSUME NEW p \in Procs, Start(p) \/ Stop(p) PROVE slipped'
  BY <1>2 DEF Start, Stop
<1>3. ASSUME NEW w \in Workers, Call(w) \/ Acquire(w) \/ Network(w) PROVE slipped'
  BY <1>3 DEF Call, Acquire, Reuse, Enter, Network, Answer, Shed, AnswerLost
<1>4. ASSUME NEW w \in Workers, Advance(w) PROVE slipped'
  BY <1>4 DEF Advance, TakeLock, SkipLock, ReloadLive, ReloadExpired, ReloadFails,
      Discover, DiscoverFails, Abandon, Receive, ReceiveError, Save, SaveFails
<1>5. ASSUME NEW t \in Tokens, OrphanArrives(t) \/ OrphanLost(t) \/ Expire(t)
      PROVE  slipped'
  BY <1>5 DEF OrphanArrives, OrphanLost, Expire
<1>6. ASSUME NEW g \in 1..MaxGrants, ProviderDrops(g) PROVE slipped'
  BY <1>6 DEF ProviderDrops
<1>7. CASE UNCHANGED vars BY <1>7 DEF vars
<1> QED BY <1>1, <1>2, <1>3, <1>4, <1>5, <1>6, <1>7 DEF Next

(* The session sees of a goroutine whether it refreshes, whether it is at  *)
(* its save, and whether its rotation is unsaved.                          *)
LEMMA SameSession ==
    ASSUME UNCHANGED <<tok, cur>>,
           \A w \in Workers : /\ Refreshes(w) <=> Refreshes(w)'
                              /\ pc[w] = "save" <=> pc'[w] = "save"
                              /\ Unsaved(w) <=> Unsaved(w)'
    PROVE  UNCHANGED <<SessionHeld, SessionRefreshing, SessionLive>>
<1>1. UNCHANGED SessionHeld BY DEF SessionHeld, WorkersOf
<1>2. UNCHANGED SessionRefreshing
  <2>1. {v \in Workers : Refreshes(v)} = {v \in Workers : Refreshes(v)'} OBVIOUS
  <2> QED BY <2>1 DEF SessionRefreshing
<1>3. UNCHANGED SessionLive BY DEF SessionLive
<1> QED BY <1>1, <1>2, <1>3

(* While nothing has slipped, one refresh at a time is under way.          *)
LEMMA OnlyRefresh ==
    ASSUME TypeOK, MutexInv, HolderInv, NEW w \in Workers, flock = w
    PROVE  \A v \in Workers : v # w =>
               ~Refreshes(v) /\ pc[v] # "save" /\ ~Unsaved(v)
<1> SUFFICES ASSUME NEW v \in Workers, v # w, Refreshes(v) \/ Unsaved(v)
             PROVE  FALSE
  BY DEF Refreshes, Unsaved
<1>1. pc[v] \in Locked \ {"lock"} BY DEF Refreshes, Unsaved, MutexInv, Locked, Labels
<1> QED BY <1>1 DEF HolderInv

(* A refresh that sets out, from the token stored meanwhile or on it.      *)
LEMMA LooksStep ==
    ASSUME TypeOK, MutexInv, HolderInv, PresentedInv, ~slipped, ~slipped',
           NEW w \in Workers, ReloadLive(w) \/ ReloadExpired(w)
    PROVE  Session!Looks(ProcOf[w])
<1> DEFINE p == ProcOf[w]
<1>0. p \in Procs BY ConstantsAssumption
<1>1. pc[w] = "load" /\ flock = w
  BY DEF ReloadLive, ReloadExpired, HolderInv, Locked, Labels
<1>2. /\ ~Refreshes(w) /\ pc[w] # "save" /\ ~Unsaved(w) /\ wire[w] = "none"
  BY <1>1 DEF Refreshes, Unsaved, MutexInv, TypeOK
<1>3. \A v \in Workers : ~Refreshes(v) /\ pc[v] # "save" /\ ~Unsaved(v)
  BY <1>1, <1>2, OnlyRefresh
<1>4. \A v \in Workers : v # w => pc'[v] = pc[v] /\ wire'[v] = wire[v]
  BY DEF ReloadLive, ReloadExpired, Return, GoOn, TypeOK
<1>5. /\ stored # NoToken /\ tok' = [tok EXCEPT ![p] = stored]
      /\ UNCHANGED <<stored, login, grants, cur, expired>>
  BY DEF ReloadLive, ReloadExpired, Reread, storeVars, idpVars
<1>6. pc'[w] # "save" /\ wire'[w] # "rotated"
  BY <1>2 DEF ReloadLive, ReloadExpired, Return, GoOn, TypeOK
<1>7. \A v \in Workers : pc'[v] # "save" /\ ~Unsaved(v)'
  BY <1>3, <1>4, <1>6 DEF Unsaved
<1>8. SessionHeld = tok /\ SessionHeld' = tok'
  BY <1>3, <1>5, <1>7 DEF SessionHeld, TypeOK, WorkersOf
<1>9. SessionLive = cur /\ SessionLive' = cur
  BY <1>3, <1>5, <1>7 DEF SessionLive, TypeOK
<1>10. SessionRefreshing = {} BY <1>3 DEF SessionRefreshing
<1>11. SessionRefreshing' = IF stored \in expired THEN {p} ELSE {}
  <2>1. \A v \in Workers : v # w => ~Refreshes(v)' BY <1>3, <1>4 DEF Refreshes
  <2>2. CASE ReloadLive(w)
    <3>1. stored \notin expired /\ pc'[w] = "idle"
      BY <2>2 DEF ReloadLive, Reread, Valid, Return, TypeOK
    <3>2. \A v \in Workers : ~Refreshes(v)' BY <2>1, <3>1 DEF Refreshes
    <3> QED BY <3>1, <3>2 DEF SessionRefreshing
  <2>3. CASE ReloadExpired(w)
    <3>1. stored \in expired /\ pc'[w] \in {"discover", "wait"}
      BY <2>3 DEF ReloadExpired, Reread, Valid, GoOn, TypeOK
    <3>2. Refreshes(w)' BY <3>1 DEF Refreshes
    <3>3. {v \in Workers : Refreshes(v)'} = {w} BY <2>1, <3>2
    <3>4. SessionRefreshing' = {p} BY <3>3 DEF SessionRefreshing
    <3> QED BY <3>1, <3>4
  <2> QED BY <2>2, <2>3
<1>12. tok[p] \in expired BY <1>1 DEF PresentedInv, Refreshing
<1> QED BY <1>5, <1>8, <1>9, <1>10, <1>11, <1>12
        DEF Session!Looks, Session!NoToken, NoToken

(* One that ends without a rotation.                                       *)
LEMMA GivesUpStep ==
    ASSUME TypeOK, MutexInv, HolderInv, ~slipped, ~slipped',
           NEW w \in Workers, DiscoverFails(w) \/ ReceiveError(w)
    PROVE  Session!GivesUp(ProcOf[w])
<1> DEFINE p == ProcOf[w]
<1>1. pc[w] \in {"discover", "wait"} /\ wire[w] # "rotated" /\ flock = w
  BY DEF DiscoverFails, ReceiveError, HolderInv, MutexInv, Locked, Labels, Answers
<1>2. \A v \in Workers : v # w => ~Refreshes(v) /\ pc[v] # "save" /\ ~Unsaved(v)
  BY <1>1, OnlyRefresh
<1>3. /\ \A v \in Workers : v # w => pc'[v] = pc[v] /\ wire'[v] = wire[v]
      /\ pc'[w] = "idle" /\ wire'[w] = "none"
      /\ UNCHANGED <<tok, stored, login, grants, cur, expired>>
  BY DEF DiscoverFails, ReceiveError, Return, TypeOK, storeVars, idpVars
<1>4. /\ \A v \in Workers : pc[v] # "save" /\ ~Unsaved(v)
      /\ \A v \in Workers : pc'[v] # "save" /\ ~Unsaved(v)' /\ ~Refreshes(v)'
  BY <1>1, <1>2, <1>3 DEF Unsaved, Refreshes
<1>5. UNCHANGED SessionHeld BY <1>3, <1>4 DEF SessionHeld, WorkersOf
<1>6. UNCHANGED SessionLive BY <1>3, <1>4 DEF SessionLive
<1>7. SessionRefreshing' = {} BY <1>4 DEF SessionRefreshing
<1>8. p \in SessionRefreshing BY <1>1 DEF SessionRefreshing, Refreshes
<1> QED BY <1>3, <1>5, <1>6, <1>7, <1>8 DEF Session!GivesUp

(* The save, at which the rotation takes effect.                           *)
LEMMA RefreshesStep ==
    ASSUME TypeOK, SourceInv, MutexInv, IssuedInv, HolderInv, UnspentInv,
           ~slipped, ~slipped', NEW w \in Workers, Save(w)
    PROVE  Session!Refreshes(ProcOf[w])
<1> DEFINE p == ProcOf[w]
           t == tok[p]
<1>0. p \in Procs /\ WorkersOf(p) \subseteq Workers /\ w \in WorkersOf(p)
  BY ConstantsAssumption DEF WorkersOf
<1>1. pc[w] = "save" /\ flock = w
  BY DEF Save, HolderInv, Locked, Labels
<1>2. \A v \in Workers : v # w => ~Refreshes(v) /\ pc[v] # "save" /\ ~Unsaved(v)
  BY <1>1, OnlyRefresh
<1>3. /\ \A v \in Workers : v # w => pc'[v] = pc[v] /\ wire'[v] = wire[v]
      /\ pc'[w] = "idle" /\ wire'[w] = "none"
      /\ stored' = t /\ UNCHANGED <<tok, login, grants, cur, expired>>
  BY DEF Save, Return, TypeOK, idpVars
<1>4. \A v \in Workers : pc'[v] # "save" /\ ~Unsaved(v)' /\ ~Refreshes(v)'
  BY <1>2, <1>3 DEF Unsaved, Refreshes
<1>5. t \in Tokens /\ t.grant \in 1..MaxGrants /\ t.seq \in Nat /\ cur[t.grant] \in Nat
  <2>1. t # NoToken /\ t \in Tokens BY <1>0, <1>1 DEF MutexInv, SourceInv, TypeOK
  <2> QED BY <2>1, TokenFacts, ConstantsAssumption DEF TypeOK
<1>6. t.seq = cur[t.grant]
  <2>1. t.seq <= cur[t.grant]
    BY <1>0, <1>5, TokenFacts DEF IssuedInv, KnownTokens, Issued
  <2>2. ~(t.seq < cur[t.grant]) BY <1>1 DEF UnspentInv, Unspent, Consumed
  <2> QED BY <1>5, <2>1, <2>2
<1>7. /\ SessionHeld = [tok EXCEPT ![p] = Before(t)] /\ SessionHeld' = tok
      /\ SessionHeld[p] = Before(t)
  BY <1>0, <1>1, <1>2, <1>3, <1>4 DEF SessionHeld, TypeOK, WorkersOf
<1>8. /\ SessionLive = [cur EXCEPT ![t.grant] = @ - 1] /\ SessionLive' = cur
  BY <1>1, <1>2, <1>3, <1>4, <1>5 DEF SessionLive, Unsaved, TypeOK
<1>9. SessionRefreshing' = {} /\ p \in SessionRefreshing
  BY <1>1, <1>4 DEF SessionRefreshing, Refreshes
<1>10. /\ Before(t).grant = t.grant /\ Before(t).seq = t.seq - 1
       /\ Session!Successor(Before(t)) = t
  BY <1>5, BeforeFacts DEF Session!Successor, Successor
<1>11. SessionLive[t.grant] = t.seq - 1 BY <1>5, <1>6, <1>8 DEF TypeOK
<1>12. SessionLive' = [SessionLive EXCEPT ![t.grant] = @ + 1]
  <2>1. cur \in [1..MaxGrants -> Nat] BY ConstantsAssumption DEF TypeOK
  <2>2. (cur[t.grant] - 1) + 1 = cur[t.grant] BY <1>5
  <2> HIDE DEF t
  <2> QED BY <1>5, <1>8, <2>1, <2>2
<1>13. SessionHeld' = [SessionHeld EXCEPT ![p] = t]
  BY <1>0, <1>7 DEF TypeOK
<1> QED BY <1>3, <1>7, <1>9, <1>10, <1>11, <1>12, <1>13 DEF Session!Refreshes

(* The provider's answer is not yet seen; what comes of it is.             *)
LEMMA AnswerStep ==
    ASSUME TypeOK, SourceInv, MutexInv, HolderInv, UnspentInv, ~slipped, ~slipped',
           ~replayed', NEW w \in Workers, Answer(w)
    PROVE  UNCHANGED Session!vars
<1> DEFINE p == ProcOf[w]
           t == tok[p]
<1>0. p \in Procs BY ConstantsAssumption
<1>1. wire[w] = "asked" /\ pc[w] = "wait" /\ flock = w
  BY DEF Answer, MutexInv, HolderInv, Locked, Labels
<1>2. \A v \in Workers : v # w => ~Refreshes(v) /\ pc[v] # "save" /\ ~Unsaved(v)
  BY <1>1, OnlyRefresh
<1>3. /\ \A v \in Workers : v # w => wire'[v] = wire[v]
      /\ UNCHANGED <<pc, tok, slipped, stored, login, grants, expired>>
  BY DEF Answer, TypeOK, procVars, storeVars
<1>4. \A v \in Workers : v # w => ~Unsaved(v)' BY <1>2, <1>3 DEF Unsaved
<1>5. t \in Tokens /\ t.grant \in 1..MaxGrants
  <2>1. t # NoToken /\ t \in Tokens BY <1>0, <1>1 DEF MutexInv, SourceInv, TypeOK
  <2> QED BY <2>1, TokenFacts
<1>6. UNCHANGED SessionHeld BY <1>3 DEF SessionHeld, WorkersOf
<1>7. UNCHANGED SessionRefreshing BY <1>3 DEF SessionRefreshing, Refreshes
<1>8. UNCHANGED SessionLive
  <2>1. ~Unsaved(w) BY <1>1 DEF Unsaved
  <2>2. SessionLive = cur BY <1>2, <2>1 DEF SessionLive, TypeOK
  <2>3. CASE Rotates(t)
    <3>1. wire'[w] = "rotated" /\ cur' = [cur EXCEPT ![t.grant] = @ + 1]
      <4>1. t.seq = cur[t.grant] /\ t.seq < MaxSeq BY <2>3 DEF Rotates
      <4>2. ~Replays(t) /\ ~Refuses(t)
        BY <2>3, <1>5, TokenFacts, ConstantsAssumption
        DEF Rotates, Replays, Refuses, TypeOK
      <4> QED BY <2>3, <4>2, <1>1 DEF Answer, Rotates, TypeOK
    <3>2. Unsaved(w)' BY <3>1 DEF Unsaved
    <3>3. cur \in [1..MaxGrants -> Nat] /\ (cur[t.grant] + 1) - 1 = cur[t.grant]
      BY <1>5, ConstantsAssumption DEF TypeOK
    <3>4. SessionLive' = [g \in 1..MaxGrants |->
                            IF t.grant = g THEN cur'[g] - 1 ELSE cur'[g]]
      BY <1>3, <1>4, <3>2 DEF SessionLive
    <3> HIDE DEF t
    <3>5. SessionLive' = cur BY <1>5, <3>1, <3>3, <3>4
    <3> QED BY <2>2, <3>5
  <2>4. CASE ~Rotates(t)
    <3>1. wire'[w] = "refused" /\ cur' = cur
      BY <2>4, <1>1 DEF Answer, Replays, Refuses, TypeOK
    <3>2. ~Unsaved(w)' BY <1>1, <1>3, <3>1 DEF Unsaved
    <3> QED BY <1>4, <2>2, <3>1, <3>2 DEF SessionLive, TypeOK
  <2> QED BY <2>3, <2>4
<1> QED BY <1>3, <1>6, <1>7, <1>8 DEF Session!vars

(* Nor is the new token, before it is saved.                               *)
LEMMA ReceiveStep ==
    ASSUME TypeOK, SourceInv, MutexInv, HolderInv, ~slipped, ~slipped',
           NEW w \in Workers, Receive(w)
    PROVE  UNCHANGED Session!vars
<1> DEFINE p == ProcOf[w]
           t == tok[p]
<1>0. p \in Procs /\ WorkersOf(p) \subseteq Workers /\ w \in WorkersOf(p)
  BY ConstantsAssumption DEF WorkersOf
<1>1. wire[w] = "rotated" /\ pc[w] = "wait" /\ flock = w
  BY DEF Receive, MutexInv, HolderInv, Locked, Labels
<1>2. \A v \in Workers : v # w => ~Refreshes(v) /\ pc[v] # "save" /\ ~Unsaved(v)
  BY <1>1, OnlyRefresh
<1>3. /\ \A v \in Workers : v # w => wire'[v] = wire[v] /\ pc'[v] = pc[v]
      /\ pc'[w] = "save" /\ tok' = [tok EXCEPT ![p] = Successor(t)]
      /\ UNCHANGED <<slipped, stored, login, grants, cur, expired>>
  BY DEF Receive, TypeOK, storeVars, idpVars
<1>4. /\ \A v \in Workers : v # w => ~Unsaved(v)' /\ pc'[v] # "save"
      /\ \A v \in Workers : Refreshes(v) <=> Refreshes(v)'
      /\ Unsaved(w) /\ Unsaved(w)'
  BY <1>1, <1>2, <1>3 DEF Unsaved, Refreshes
<1>5. t \in Tokens
  BY <1>0, <1>1 DEF MutexInv, SourceInv, TypeOK
<1>6. UNCHANGED SessionHeld
  <2>1. Before(Successor(t)) = t BY <1>5, BeforeFacts
  <2>2. SessionHeld = tok BY <1>1, <1>2 DEF SessionHeld, WorkersOf, TypeOK
  <2>3. SessionHeld' = [q \in Procs |-> IF q = p THEN Before(tok'[q]) ELSE tok'[q]]
    BY <1>0, <1>3, <1>4 DEF SessionHeld, WorkersOf
  <2>4. tok'[p] = Successor(t) BY <1>0, <1>3 DEF TypeOK
  <2>5. \A q \in Procs : SessionHeld'[q] = tok[q]
    BY <1>0, <1>3, <2>1, <2>3, <2>4 DEF TypeOK
  <2> QED BY <2>2, <2>3, <2>5 DEF TypeOK
<1>7. UNCHANGED SessionRefreshing
  <2>1. {v \in Workers : Refreshes(v)} = {v \in Workers : Refreshes(v)'} BY <1>4
  <2> QED BY <2>1 DEF SessionRefreshing
<1>8. UNCHANGED SessionLive
  <2>1. tok'[p].grant = t.grant BY <1>0, <1>3, <1>5, SuccessorFacts DEF TypeOK
  <2>2. \A g \in 1..MaxGrants :
            (\E v \in Workers : Unsaved(v) /\ tok[ProcOf[v]].grant = g)
            <=> (\E v \in Workers : Unsaved(v)' /\ tok'[ProcOf[v]].grant = g)
    BY <1>2, <1>4, <2>1
  <2> QED BY <1>3, <2>2 DEF SessionLive
<1> QED BY <1>3, <1>6, <1>7, <1>8 DEF Session!vars

(* A process opens the session, or closes it.                              *)
LEMMA OpensStep ==
    ASSUME TypeOK, SourceInv, MutexInv, ~slipped, ~slipped',
           NEW p \in Procs, Start(p)
    PROVE  Session!Opens(p)
<1>1. /\ stored # NoToken /\ tok' = [tok EXCEPT ![p] = stored] /\ tok[p] = NoToken
      /\ UNCHANGED <<pc, wire, stored, login, grants, cur, expired>>
  BY DEF Start, SourceInv, callVars, storeVars, idpVars
<1>2. \A v \in Workers : ProcOf[v] = p =>
          ~Refreshes(v) /\ pc[v] # "save" /\ ~Unsaved(v)
  BY DEF Start, MutexInv, Refreshes, Unsaved
<1>3. SessionHeld[p] = NoToken /\ SessionHeld' = [SessionHeld EXCEPT ![p] = stored]
  BY <1>1, <1>2 DEF SessionHeld, WorkersOf, TypeOK
<1>4. UNCHANGED SessionRefreshing BY <1>1 DEF SessionRefreshing, Refreshes
<1>5. UNCHANGED SessionLive
  <2>1. \A v \in Workers : Unsaved(v) <=> Unsaved(v)' BY <1>1 DEF Unsaved
  <2>2. \A v \in Workers : Unsaved(v) => tok'[ProcOf[v]] = tok[ProcOf[v]]
    BY <1>1, <1>2, ConstantsAssumption DEF TypeOK
  <2> QED BY <1>1, <2>1, <2>2 DEF SessionLive
<1> QED BY <1>1, <1>3, <1>4, <1>5 DEF Session!Opens, Session!NoToken, NoToken

LEMMA ClosesStep ==
    ASSUME TypeOK, MutexInv, HolderInv, ~slipped, ~slipped',
           NEW p \in Procs, Stop(p)
    PROVE  Session!Closes(p)
<1>1. /\ tok' = [tok EXCEPT ![p] = NoToken]
      /\ pc' = [w \in Workers |-> IF ProcOf[w] = p THEN "idle" ELSE pc[w]]
      /\ wire' = [w \in Workers |-> IF ProcOf[w] = p THEN "none" ELSE wire[w]]
      /\ \A v \in Workers : ProcOf[v] = p => pc[v] # "save" /\ ~Unsaved(v)
      /\ UNCHANGED <<stored, login, grants, cur, expired>>
  BY DEF Stop, MidRefresh, WorkersOf, Unsaved, storeVars
<1>2. \A v \in Workers : /\ Unsaved(v)' <=> Unsaved(v)
                         /\ pc'[v] = "save" <=> pc[v] = "save"
                         /\ Refreshes(v)' <=> Refreshes(v) /\ ProcOf[v] # p
  BY <1>1 DEF Unsaved, Refreshes
<1>3. SessionHeld' = [SessionHeld EXCEPT ![p] = NoToken]
  BY <1>1, <1>2 DEF SessionHeld, WorkersOf, TypeOK
<1>4. SessionRefreshing' = SessionRefreshing \ {p}
  BY <1>2 DEF SessionRefreshing
<1>5. UNCHANGED SessionLive
  <2>1. \A v \in Workers : Unsaved(v) => tok'[ProcOf[v]] = tok[ProcOf[v]]
    BY <1>1, ConstantsAssumption DEF TypeOK
  <2> QED BY <1>1, <1>2, <2>1 DEF SessionLive
<1> QED BY <1>1, <1>3, <1>4, <1>5 DEF Session!Closes, Session!NoToken, NoToken

-----------------------------------------------------------------------------
LEMMA SessionInit == Init => Session!Init
<1> SUFFICES ASSUME Init PROVE Session!Init OBVIOUS
<1>1. \A w \in Workers : ~Refreshes(w) /\ pc[w] # "save" /\ ~Unsaved(w)
  BY DEF Init, Refreshes, Unsaved
<1>2. SessionHeld = [p \in Procs |-> NoToken]
  BY <1>1 DEF Init, SessionHeld, WorkersOf
<1>3. SessionRefreshing = {} BY <1>1 DEF SessionRefreshing
<1>4. SessionLive = [g \in 1..MaxGrants |-> 0] BY <1>1 DEF Init, SessionLive
<1> QED BY <1>2, <1>3, <1>4 DEF Init, Session!Init, Session!NoToken, NoToken

(* Every step is one of the session's, or hidden in it, unless it slips.   *)
LEMMA SessionStep ==
    ASSUME IInv, IInv', [Next]_vars
    PROVE  [Session!Next]_(Session!vars)
<1>0. TypeOK /\ SourceInv /\ MutexInv /\ IssuedInv /\ PresentedInv BY DEF IInv
<1>a. CASE slipped BY <1>0, <1>a, SlipsStay DEF Session!Next
<1>b. CASE ~slipped /\ slipped' BY <1>b DEF Session!Next
<1>c. CASE ~slipped /\ ~slipped'
  <2> SUFFICES Session!Step \/ UNCHANGED Session!vars BY <1>c DEF Session!Next
  <2> USE <1>0, <1>c
  <2>0. /\ HolderInv /\ UnspentInv /\ orphans = {} /\ ~replayed'
    BY DEF IInv, CleanInv
  <2>1. CASE Approve
    <3>1. Session!Approve
      BY <2>1, SameSession
      DEF Approve, Session!Approve, Session!NoToken, NoToken, Refreshes, Unsaved,
          procVars, callVars
    <3> QED BY <3>1 DEF Session!Step
  <2>2. CASE LoginSave \/ LoginFails
    <3>1. Session!LoginEnds
      BY <2>2, SameSession
      DEF LoginSave, LoginFails, Session!LoginEnds, Session!NoToken, NoToken,
          Refreshes, Unsaved, procVars, callVars, idpVars
    <3> QED BY <3>1 DEF Session!Step
  <2>3. CASE Logout
    <3>1. Session!Logout
      BY <2>3, SameSession
      DEF Logout, Session!Logout, Session!NoToken, NoToken, Refreshes, Unsaved,
          procVars, callVars, idpVars
    <3> QED BY <3>1 DEF Session!Step
  <2>4. ASSUME NEW p \in Procs, Start(p) PROVE Session!Step
    BY <2>4, OpensStep DEF Session!Step
  <2>5. ASSUME NEW p \in Procs, Stop(p) PROVE Session!Step
    BY <2>0, <2>5, ClosesStep DEF Session!Step
  <2>6. ASSUME NEW w \in Workers, Call(w) \/ Acquire(w) \/ TakeLock(w) \/ Discover(w)
        PROVE  UNCHANGED Session!vars
    <3>1. \A v \in Workers : /\ Refreshes(v) <=> Refreshes(v)'
                             /\ pc[v] = "save" <=> pc'[v] = "save"
                             /\ Unsaved(v) <=> Unsaved(v)'
      BY <2>6 DEF Call, Acquire, Reuse, Enter, TakeLock, Discover, Return, Refreshes,
          Unsaved, TypeOK, MutexInv
    <3>2. UNCHANGED <<tok, cur, slipped, stored, login, grants, expired>>
      BY <2>6 DEF Call, Acquire, Reuse, Enter, TakeLock, Discover, procVars,
          storeVars, idpVars
    <3> QED BY <3>1, <3>2, SameSession DEF Session!vars
  <2>7. ASSUME NEW w \in Workers,
               SkipLock(w) \/ ReloadFails(w) \/ Abandon(w) \/ SaveFails(w)
        PROVE  FALSE
    BY <2>7 DEF SkipLock, ReloadFails, Abandon, SaveFails
  <2>8. ASSUME NEW w \in Workers, ReloadLive(w) \/ ReloadExpired(w)
        PROVE  Session!Step
    <3>1. ProcOf[w] \in Procs BY ConstantsAssumption
    <3> QED BY <2>0, <2>8, <3>1, LooksStep DEF Session!Step
  <2>9. ASSUME NEW w \in Workers, DiscoverFails(w) \/ ReceiveError(w)
        PROVE  Session!Step
    <3>1. ProcOf[w] \in Procs BY ConstantsAssumption
    <3> QED BY <2>0, <2>9, <3>1, GivesUpStep DEF Session!Step
  <2>10. ASSUME NEW w \in Workers, Save(w) PROVE Session!Step
    <3>1. ProcOf[w] \in Procs BY ConstantsAssumption
    <3> QED BY <2>0, <2>10, <3>1, RefreshesStep DEF Session!Step
  <2>11. ASSUME NEW w \in Workers, Receive(w) PROVE UNCHANGED Session!vars
    BY <2>0, <2>11, ReceiveStep
  <2>12. ASSUME NEW w \in Workers, Answer(w) PROVE UNCHANGED Session!vars
    BY <2>0, <2>12, AnswerStep
  <2>13. ASSUME NEW w \in Workers, Shed(w) \/ AnswerLost(w)
         PROVE  UNCHANGED Session!vars
    <3>1. wire[w] # "rotated" /\ wire'[w] # "rotated"
          /\ \A v \in Workers : v # w => wire'[v] = wire[v]
      BY <2>13 DEF Shed, AnswerLost, Answers, TypeOK
    <3>2. UNCHANGED <<pc, tok, cur, slipped, stored, login, grants, expired>>
      BY <2>13 DEF Shed, AnswerLost, procVars, storeVars, idpVars, TypeOK
    <3>3. \A v \in Workers : /\ Refreshes(v) <=> Refreshes(v)'
                             /\ Unsaved(v) <=> Unsaved(v)'
      BY <3>1, <3>2 DEF Refreshes, Unsaved
    <3> QED BY <3>2, <3>3, SameSession DEF Session!vars
  <2>14. ASSUME NEW t \in Tokens, OrphanArrives(t) \/ OrphanLost(t) PROVE FALSE
    BY <2>0, <2>14 DEF OrphanArrives, OrphanLost
  <2>15. ASSUME NEW t \in Tokens, Expire(t) PROVE Session!Step
    <3>1. Session!Expires(t)
      BY <2>15, SameSession
      DEF Expire, Session!Expires, Refreshes, Unsaved, procVars, callVars, storeVars
    <3> QED BY <3>1 DEF Session!Step, Session!Tokens, Tokens
  <2>16. ASSUME NEW g \in 1..MaxGrants, ProviderDrops(g)
         PROVE  UNCHANGED Session!vars
    BY <2>16, SameSession
    DEF ProviderDrops, Session!vars, Refreshes, Unsaved, procVars, callVars,
        storeVars
  <2>17. CASE UNCHANGED vars
    BY <2>17, SameSession
    DEF vars, Session!vars, Refreshes, Unsaved, procVars, callVars, storeVars, idpVars
  <2> QED BY <2>1, <2>2, <2>3, <2>4, <2>5, <2>6, <2>7, <2>8, <2>9, <2>10, <2>11,
         <2>12, <2>13, <2>14, <2>15, <2>16, <2>17
      DEF Next, Advance, Network
<1> QED BY <1>a, <1>b, <1>c DEF IInv, TypeOK

(* Until something slips, all the processes and goroutines of the machine, *)
(* with logins, logouts, expiries and ends of processes between any two of *)
(* their steps, behave as one session refreshed in one step by one process *)
(* at a time: what lockingTokenSource and its lock are for.                *)
THEOREM ImplementsRotatingSession == Spec => ImplementsSession
<1>1. IInv /\ IInv' /\ [Next]_vars => [Session!Next]_(Session!vars)
  BY SessionStep
<1> QED BY <1>1, SessionInit, Inductive, PTL
    DEF Spec, ImplementsSession, Session!Spec
=============================================================================
