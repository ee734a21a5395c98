---------------------------- MODULE TokenRefresh ----------------------------
(***************************************************************************)
(* The token source of a logged-in CLI (src/tokensource.go) with the       *)
(* refresh lock under it (src/lock.go), as every process of one machine    *)
(* that shares one client id runs it, against a provider that rotates      *)
(* refresh tokens and revokes a grant when a consumed one is presented.    *)
(*                                                                         *)
(* A process holds one lockingTokenSource; its goroutines (workers) call   *)
(* Token() on it.  The token store is one cell here, whose reads and       *)
(* writes may fail; TokenStore says what is behind it.                     *)
(***************************************************************************)
EXTENDS Integers

CONSTANTS
    Procs,       \* processes that may run the CLI
    Workers,     \* goroutines that call Token()
    ProcOf,      \* the process of each worker
    Unlockable,  \* processes without a usable state directory
    Wedged,      \* processes that may stop taking steps while alive
    NoOne,       \* the holder of a free lock
    MaxGrants,   \* bound: interactive logins
    MaxSeq       \* bound: rotations of one grant

ASSUME ConstantsAssumption ==
    /\ ProcOf \in [Workers -> Procs]
    /\ Unlockable \subseteq Procs
    /\ Wedged \subseteq Procs
    /\ NoOne \notin Workers
    /\ MaxGrants \in Nat
    /\ MaxSeq \in Nat

(* A token is the seq-th the provider issued under a grant: an access token *)
(* with the refresh token that replaces both.                              *)
Tokens == [grant : 1..MaxGrants, seq : 0..MaxSeq]
NoToken == [grant |-> 0, seq |-> 0]
\* Faulty variant: a rotation is taken for a new grant.
Successor_NewGrant(t) == [grant |-> t.grant + 1, seq |-> 0]
Successor(t) == [t EXCEPT !.seq = @ + 1]

VARIABLES
    up,          \* processes holding a token source
    tok,         \* lockingTokenSource.tok
    discovered,  \* processes whose oauthCfg is built
    mu,          \* lockingTokenSource.mu: its holder, per process
    pc,          \* where each worker is in Token()
    wire,        \* the token request a worker waits on
    flock,       \* holder of <clientID>.refresh.lock
    stored,      \* the token the store answers with
    login,       \* a token just approved, not yet saved
    grants,      \* provider: grants issued so far
    cur,         \* provider: the refresh token each grant honours
    revoked,     \* provider: revoked grants
    unknown,     \* provider: grants whose token it does not hold any more
    orphans,     \* requests under way that nobody waits for
    expired,     \* tokens whose access token no longer is valid
    replayed,    \* a consumed refresh token was presented
    slipped      \* the lock, the store or an answer failed a refresh

procVars == <<up, tok, discovered, mu>>
callVars == <<pc, wire, flock>>
storeVars == <<stored, login>>
idpVars == <<grants, cur, revoked, unknown, orphans, expired, replayed>>
vars == <<procVars, callVars, storeVars, idpVars, slipped>>

Labels == {"idle", "mu", "lock", "load", "discover", "wait", "save"}
Locked == Labels \ {"idle", "mu"}

(* What comes of a request: a new token, a denial, another OAuth error code *)
(* under a 200 or a 4xx, one under a 429 or a 5xx, or no code at all.       *)
Answers == {"rotated", "refused", "limited", "busy", "lost"}

Init ==
    /\ up = {}
    /\ tok = [p \in Procs |-> NoToken]
    /\ discovered = {}
    /\ mu = [p \in Procs |-> NoOne]
    /\ pc = [w \in Workers |-> "idle"]
    /\ wire = [w \in Workers |-> "none"]
    /\ flock = NoOne
    /\ stored = NoToken
    /\ login = NoToken
    /\ grants = 0
    /\ cur = [g \in 1..MaxGrants |-> 0]
    /\ revoked = {}
    /\ unknown = {}
    /\ orphans = {}
    /\ expired = {}
    /\ replayed = FALSE
    /\ slipped = FALSE

-----------------------------------------------------------------------------
(* Interactive login and logout.  Neither takes the refresh lock.          *)

Approve ==
    /\ login = NoToken
    /\ grants < MaxGrants
    /\ grants' = grants + 1
    /\ login' = [grant |-> grants + 1, seq |-> 0]
    /\ UNCHANGED <<procVars, callVars, stored, cur, revoked, unknown, orphans,
                   expired, replayed, slipped>>

LoginSave ==
    /\ login # NoToken
    /\ stored' = login
    /\ login' = NoToken
    /\ UNCHANGED <<procVars, callVars, idpVars, slipped>>

LoginFails ==
    /\ login # NoToken
    /\ login' = NoToken
    /\ UNCHANGED <<procVars, callVars, stored, idpVars, slipped>>

Logout ==
    /\ stored # NoToken
    /\ stored' = NoToken
    /\ UNCHANGED <<procVars, callVars, login, idpVars, slipped>>

-----------------------------------------------------------------------------
(* A process starts by TokenSource, which fails unless a token is stored.  *)
(* It ends at any moment: the kernel drops its locks, its in-memory token  *)
(* is gone, and a request it sent is still under way.                      *)

Start(p) ==
    /\ p \notin up
    /\ stored # NoToken
    /\ up' = up \union {p}
    /\ tok' = [tok EXCEPT ![p] = stored]
    /\ UNCHANGED <<discovered, mu, callVars, storeVars, idpVars, slipped>>

WorkersOf(p) == {w \in Workers : ProcOf[w] = p}

(* A worker whose refresh would be cut in two by the end of its process.   *)
MidRefresh(w) == pc[w] = "save" \/ wire[w] \in {"asked", "rotated"}

Stop(p) ==
    /\ p \in up
    /\ up' = up \ {p}
    /\ tok' = [tok EXCEPT ![p] = NoToken]
    /\ discovered' = discovered \ {p}
    /\ mu' = [mu EXCEPT ![p] = NoOne]
    /\ flock' = IF flock \in WorkersOf(p) THEN NoOne ELSE flock
    /\ pc' = [w \in Workers |-> IF ProcOf[w] = p THEN "idle" ELSE pc[w]]
    /\ wire' = [w \in Workers |-> IF ProcOf[w] = p THEN "none" ELSE wire[w]]
    /\ orphans' = IF \E w \in WorkersOf(p) : wire[w] = "asked"
                  THEN orphans \union {tok[p]} ELSE orphans
    /\ slipped' = (slipped \/ \E w \in WorkersOf(p) : MidRefresh(w))
    /\ UNCHANGED <<storeVars, grants, cur, revoked, unknown, expired, replayed>>

-----------------------------------------------------------------------------
(* Token(), up to the answer of the provider.                              *)

(* oauth2.Token.Valid: the access token is there and has not expired.      *)
Valid(t) == t # NoToken /\ t \notin expired

(* The deferred release() and mu.Unlock().                                 *)
Release(w) ==
    /\ mu' = [mu EXCEPT ![ProcOf[w]] = NoOne]
    /\ flock' = IF flock = w THEN NoOne ELSE flock

Return(w) ==
    /\ pc' = [pc EXCEPT ![w] = "idle"]
    /\ wire' = [wire EXCEPT ![w] = "none"]
    /\ Release(w)

Call(w) ==
    /\ pc[w] = "idle"
    /\ ProcOf[w] \in up
    /\ pc' = [pc EXCEPT ![w] = "mu"]
    /\ UNCHANGED <<procVars, wire, flock, storeVars, idpVars, slipped>>

Reuse(w) ==
    /\ pc[w] = "mu"
    /\ mu[ProcOf[w]] = NoOne
    /\ Valid(tok[ProcOf[w]])
    /\ Return(w)
    /\ UNCHANGED <<up, tok, discovered, storeVars, idpVars, slipped>>

\* Faulty variant: Token() without mu.Lock.
Enter_WithoutMutex(w) ==
    /\ pc[w] = "mu"
    /\ ~Valid(tok[ProcOf[w]])
    /\ mu' = [mu EXCEPT ![ProcOf[w]] = w]
    /\ pc' = [pc EXCEPT ![w] = "lock"]
    /\ UNCHANGED <<up, tok, discovered, wire, flock, storeVars, idpVars, slipped>>

Enter(w) ==
    /\ pc[w] = "mu"
    /\ mu[ProcOf[w]] = NoOne
    /\ ~Valid(tok[ProcOf[w]])
    /\ mu' = [mu EXCEPT ![ProcOf[w]] = w]
    /\ pc' = [pc EXCEPT ![w] = "lock"]
    /\ UNCHANGED <<up, tok, discovered, wire, flock, storeVars,
                   idpVars, slipped>>

(* lockRefresh: the lock is the process's to take, or it goes on without.  *)
CanLock(w) == ProcOf[w] \notin Unlockable /\ flock = NoOne
\* Faulty variant: no lockWait.
GivesUpOnLock_WaitsForever(w) == ProcOf[w] \in Unlockable
GivesUpOnLock(w) == ProcOf[w] \in Unlockable \/ flock # NoOne

TakeLock(w) ==
    /\ pc[w] = "lock"
    /\ CanLock(w)
    /\ flock' = w
    /\ pc' = [pc EXCEPT ![w] = "load"]
    /\ UNCHANGED <<procVars, wire, storeVars, idpVars, slipped>>

SkipLock(w) ==
    /\ pc[w] = "lock"
    /\ GivesUpOnLock(w)
    /\ pc' = [pc EXCEPT ![w] = "load"]
    /\ slipped' = TRUE
    /\ UNCHANGED <<procVars, wire, flock, storeVars, idpVars>>

(* The refresh itself: discovery first, unless this process did it before. *)
GoOn(w) ==
    IF ProcOf[w] \in discovered
    THEN /\ pc' = [pc EXCEPT ![w] = "wait"]
         /\ wire' = [wire EXCEPT ![w] = "asked"]
    ELSE /\ pc' = [pc EXCEPT ![w] = "discover"]
         /\ UNCHANGED wire

(* What Token() adopts from the store before it refreshes.                 *)
\* Faulty variant: no re-read under the lock.
Reread_KeepsMemory(p) == tok[p]
Reread(p) == stored

ReloadLive(w) ==
    /\ pc[w] = "load"
    /\ stored # NoToken
    /\ Valid(Reread(ProcOf[w]))
    /\ tok' = [tok EXCEPT ![ProcOf[w]] = Reread(ProcOf[w])]
    /\ Return(w)
    /\ UNCHANGED <<up, discovered, storeVars, idpVars, slipped>>

\* Faulty variant: no Valid() check after the re-read.
ReloadExpired_Always(w) ==
    /\ pc[w] = "load"
    /\ stored # NoToken
    /\ tok' = [tok EXCEPT ![ProcOf[w]] = Reread(ProcOf[w])]
    /\ GoOn(w)
    /\ UNCHANGED <<up, discovered, mu, flock, storeVars, idpVars, slipped>>

ReloadExpired(w) ==
    /\ pc[w] = "load"
    /\ stored # NoToken
    /\ ~Valid(Reread(ProcOf[w]))
    /\ tok' = [tok EXCEPT ![ProcOf[w]] = Reread(ProcOf[w])]
    /\ GoOn(w)
    /\ UNCHANGED <<up, discovered, mu, flock, storeVars, idpVars,
                   slipped>>

(* Any error of Load, ErrNotLoggedIn included, keeps the in-memory token.  *)
ReloadFails(w) ==
    /\ pc[w] = "load"
    /\ GoOn(w)
    /\ slipped' = TRUE
    /\ UNCHANGED <<procVars, flock, storeVars, idpVars>>

Discover(w) ==
    /\ pc[w] = "discover"
    /\ discovered' = discovered \union {ProcOf[w]}
    /\ pc' = [pc EXCEPT ![w] = "wait"]
    /\ wire' = [wire EXCEPT ![w] = "asked"]
    /\ UNCHANGED <<up, tok, mu, flock, storeVars, idpVars, slipped>>

DiscoverFails(w) ==
    /\ pc[w] = "discover"
    /\ Return(w)
    /\ UNCHANGED <<up, tok, discovered, storeVars, idpVars, slipped>>

-----------------------------------------------------------------------------
(* The provider (the rotating provider of src/refresh_test.go).            *)

(* It honours no token of a grant it revoked, or does not hold any more.   *)
Over(g) == g \in revoked \union unknown

Rotates(t) ==
    /\ ~Over(t.grant)
    /\ t.seq = cur[t.grant]
    /\ t.seq < MaxSeq
    /\ cur' = [cur EXCEPT ![t.grant] = @ + 1]
    /\ UNCHANGED <<revoked, replayed>>

Replays(t) ==
    /\ ~Over(t.grant)
    /\ t.seq < cur[t.grant]
    /\ revoked' = revoked \union {t.grant}
    /\ replayed' = TRUE
    /\ UNCHANGED cur

Refuses(t) ==
    /\ Over(t.grant)
    /\ UNCHANGED <<cur, revoked, replayed>>

(* A request reaches the provider, and its answer is on its way back.      *)
Answer(w) ==
    LET t == tok[ProcOf[w]] IN
    /\ wire[w] = "asked"
    /\ \/ Rotates(t) /\ wire' = [wire EXCEPT ![w] = "rotated"]
       \/ (Replays(t) \/ Refuses(t)) /\ wire' = [wire EXCEPT ![w] = "refused"]
    /\ UNCHANGED <<procVars, pc, flock, storeVars, grants, unknown, orphans,
                   expired, slipped>>

(* It never gets that far: the server limits its clients, sheds load or    *)
(* fails, with a code (temporarily_unavailable, slow_down, server_error)   *)
(* under any status, or a proxy's page, or nothing, answers.               *)
Shed(w) ==
    /\ wire[w] = "asked"
    /\ \E a \in {"limited", "busy", "lost"} : wire' = [wire EXCEPT ![w] = a]
    /\ UNCHANGED <<procVars, pc, flock, storeVars, idpVars, slipped>>

(* The provider acted, but its answer does not reach the process.          *)
AnswerLost(w) ==
    /\ wire[w] \in {"rotated", "refused"}
    /\ wire' = [wire EXCEPT ![w] = "lost"]
    /\ slipped' = (slipped \/ wire[w] = "rotated")
    /\ UNCHANGED <<procVars, pc, flock, storeVars, idpVars>>

(* A request abandoned by its process reaches the provider after all.      *)
OrphanArrives(t) ==
    /\ t \in orphans
    /\ Rotates(t) \/ Replays(t) \/ Refuses(t)
    /\ orphans' = orphans \ {t}
    /\ UNCHANGED <<procVars, callVars, storeVars, grants, unknown, expired,
                   slipped>>

OrphanLost(t) ==
    /\ t \in orphans
    /\ orphans' = orphans \ {t}
    /\ UNCHANGED <<procVars, callVars, storeVars, grants, cur, revoked,
                   unknown, expired, replayed, slipped>>

Expire(t) ==
    /\ t.grant <= grants
    /\ t.seq <= cur[t.grant]
    /\ t \notin expired
    /\ expired' = expired \union {t}
    /\ UNCHANGED <<procVars, callVars, storeVars, grants, cur, revoked,
                   unknown, orphans, replayed, slipped>>

(* The provider ends a grant by its own policy, or its token lapses.       *)
ProviderDrops(g) ==
    /\ g <= grants
    /\ ~Over(g)
    /\ \/ revoked' = revoked \union {g} /\ UNCHANGED unknown
       \/ unknown' = unknown \union {g} /\ UNCHANGED revoked
    /\ UNCHANGED <<procVars, callVars, storeVars, grants, cur, orphans,
                   expired, replayed, slipped>>

-----------------------------------------------------------------------------
(* Token(), from the answer on, and how its error is read.                 *)

(* The statuses each answer may come under, and whether it carries an      *)
(* OAuth error code, which may be about the grant or about the moment.     *)
Statuses(a) ==
    CASE a \in {"refused", "limited"} -> {200, 400}
      [] a = "busy" -> {429, 500, 503}
      [] a = "lost" -> {200, 401, 429, 502}
      [] OTHER -> {}
HasCode(a) == a \in {"refused", "limited", "busy"}

\* Faulty variant: a 429 counts as a refusal too.
IsSessionRejected_Also429(a) == HasCode(a) /\ \E s \in Statuses(a) : s < 500
IsSessionRejected(a) ==
    HasCode(a) /\ \E s \in Statuses(a) : s < 500 /\ s # 429

(* requestTimeout: the process stops waiting for a request still under way. *)
Abandon(w) ==
    /\ wire[w] = "asked"
    /\ orphans' = orphans \union {tok[ProcOf[w]]}
    /\ slipped' = TRUE
    /\ Return(w)
    /\ UNCHANGED <<up, tok, discovered, storeVars, grants, cur, revoked,
                   unknown, expired, replayed>>

Receive(w) ==
    /\ wire[w] = "rotated"
    /\ tok' = [tok EXCEPT ![ProcOf[w]] = Successor(@)]
    /\ wire' = [wire EXCEPT ![w] = "none"]
    /\ pc' = [pc EXCEPT ![w] = "save"]
    /\ UNCHANGED <<up, discovered, mu, flock, storeVars, idpVars,
                   slipped>>

ReceiveError(w) ==
    /\ wire[w] \in Answers \ {"rotated"}
    /\ Return(w)
    /\ UNCHANGED <<up, tok, discovered, storeVars, idpVars, slipped>>

\* Faulty variant: the refreshed token stays in memory.
Save_ReturnsOnly(w) ==
    /\ pc[w] = "save"
    /\ Return(w)
    /\ UNCHANGED <<up, tok, discovered, storeVars, idpVars, slipped>>

Save(w) ==
    /\ pc[w] = "save"
    /\ stored' = tok[ProcOf[w]]
    /\ Return(w)
    /\ UNCHANGED <<up, tok, discovered, login, idpVars, slipped>>

SaveFails(w) ==
    /\ pc[w] = "save"
    /\ slipped' = TRUE
    /\ Return(w)
    /\ UNCHANGED <<up, tok, discovered, storeVars, idpVars>>

-----------------------------------------------------------------------------
(* Every step of Token() once the mutex is taken, but for a retried lock.  *)
Advance(w) ==
    \/ TakeLock(w) \/ SkipLock(w)
    \/ ReloadLive(w) \/ ReloadExpired(w) \/ ReloadFails(w)
    \/ Discover(w) \/ DiscoverFails(w)
    \/ Abandon(w) \/ Receive(w) \/ ReceiveError(w)
    \/ Save(w) \/ SaveFails(w)

Network(w) == Answer(w) \/ Shed(w) \/ AnswerLost(w)

Acquire(w) == Reuse(w) \/ Enter(w)

Next ==
    \/ Approve \/ LoginSave \/ LoginFails \/ Logout
    \/ \E p \in Procs : Start(p) \/ Stop(p)
    \/ \E w \in Workers : Call(w) \/ Acquire(w) \/ Advance(w) \/ Network(w)
    \/ \E t \in Tokens : OrphanArrives(t) \/ OrphanLost(t) \/ Expire(t)
    \/ \E g \in 1..MaxGrants : ProviderDrops(g)

Spec == Init /\ [][Next]_vars

(* A process that is not wedged keeps running, the poll of the lock and    *)
(* the request both end by their timeouts, and sync.Mutex starves no one.  *)
Fairness ==
    \A w \in Workers :
        ProcOf[w] \notin Wedged =>
            /\ WF_vars(Advance(w))
            /\ SF_vars(Acquire(w))

FairSpec == Spec /\ Fairness

-----------------------------------------------------------------------------
(* Every variable has its type.                                            *)
TypeOK ==
    /\ up \subseteq Procs
    /\ tok \in [Procs -> Tokens \union {NoToken}]
    /\ discovered \subseteq Procs
    /\ mu \in [Procs -> Workers \union {NoOne}]
    /\ pc \in [Workers -> Labels]
    /\ wire \in [Workers -> Answers \union {"none", "asked"}]
    /\ flock \in Workers \union {NoOne}
    /\ stored \in Tokens \union {NoToken}
    /\ login \in Tokens \union {NoToken}
    /\ grants \in 0..MaxGrants
    /\ cur \in [1..MaxGrants -> 0..MaxSeq]
    /\ revoked \subseteq 1..MaxGrants
    /\ unknown \subseteq 1..MaxGrants
    /\ orphans \subseteq Tokens
    /\ expired \subseteq Tokens
    /\ replayed \in BOOLEAN
    /\ slipped \in BOOLEAN

Consumed(t) == t.seq < cur[t.grant]

(* While the lock is always obtained, the store always read and written    *)
(* and every answer heard, no process ever presents a consumed refresh     *)
(* token, however processes, goroutines, logins and logouts interleave:    *)
(* the promise of tokensource.go's lockingTokenSource.                     *)
NoReplayUnlessSlipped == replayed => slipped

(* A refresh between the rotation and the save of what it returned.        *)
Unsaved(w) == wire[w] = "rotated" \/ pc[w] = "save"

(* With nothing slipped, the machine never loses its session: unless a     *)
(* refresh of that grant is about to be saved, the stored token is the one *)
(* its grant still honours.  (lockingTokenSource, Save before release.)    *)
StoreKeepsTheLiveToken ==
    (~slipped /\ stored # NoToken
        /\ ~\E w \in Workers : Unsaved(w) /\ tok[ProcOf[w]].grant = stored.grant)
    => ~Consumed(stored)

(* Whatever fails, a refresh token is spent only on an expired token: a    *)
(* waiter that finds the rotation of another process in the store returns  *)
(* it and does not rotate again.                                           *)
NoEarlyRotation ==
    \A t \in Tokens : Consumed(t) => t \in expired

(* With nothing slipped, no process calls the session rejected over a      *)
(* token that another has replaced: unless a login or a logout came in     *)
(* between, what the provider was asked with is what the machine has       *)
(* stored, however goroutines and processes took turns at it.              *)
(* (lockingTokenSource.Token, IsSessionRejected.)                          *)
RejectedTokenIsTheMachines ==
    ~slipped => \A w \in Workers :
        IsSessionRejected(wire[w]) /\ tok[ProcOf[w]].grant = stored.grant
        => tok[ProcOf[w]] = stored

(* Whatever fails, and at whatever moment, a 429, a 5xx, a page or silence *)
(* sends nobody to log in again: a rejected session is one that the        *)
(* provider denied, or answered with a code about the moment that neither  *)
(* status gives away.  (IsSessionRejected; README on outages.)             *)
OutageIsNoRejection ==
    \A w \in Workers :
        IsSessionRejected(wire[w]) =>
            Over(tok[ProcOf[w]].grant) \/ wire[w] = "limited"

(* A rejected session "is a refused refresh, which only an interactive     *)
(* login fixes" (tokensource.go), and a provider shedding load says        *)
(* nothing about the grant (README.md).  The code keeps this but for the   *)
(* answers OutageIsNoRejection sets apart.                                 *)
RejectedNeedsALogin ==
    \A w \in Workers :
        IsSessionRejected(wire[w]) => Over(tok[ProcOf[w]].grant)

(* The parts of the inductive invariant.  A process holds a token exactly   *)
(* while it is up, and a worker past the mutex holds it in a live process.  *)
SourceInv == \A p \in Procs : p \in up <=> tok[p] # NoToken
MutexInv ==
    \A w \in Workers :
        /\ pc[w] # "idle" => ProcOf[w] \in up
        /\ pc[w] \in Locked => mu[ProcOf[w]] = w
        /\ wire[w] # "none" <=> pc[w] = "wait"

(* Tokens anywhere on the machine are tokens the provider issued.           *)
Issued(t) == t.grant <= grants /\ t.seq <= cur[t.grant]
KnownTokens ==
    {stored, login} \union {tok[p] : p \in Procs} \union orphans
IssuedInv == \A t \in KnownTokens : t # NoToken => Issued(t)
RotatedInv ==
    /\ \A g \in 1..MaxGrants : g > grants => cur[g] = 0
    /\ \A w \in Workers : wire[w] = "rotated" => Consumed(tok[ProcOf[w]])

(* Every token that is, or may yet be, presented has expired.               *)
Refreshing(w) == pc[w] \in {"lock", "load", "discover"} \/ wire[w] = "asked"
PresentedInv ==
    /\ orphans \subseteq expired
    /\ \A w \in Workers : Refreshing(w) => tok[ProcOf[w]] \in expired

(* With nothing slipped, one refresh at a time is between lock and release, *)
(* it presents the token its grant honours, and a token being logged in is  *)
(* known to nobody else.                                                    *)
Unspent(w) == pc[w] \in {"discover", "save"} \/ wire[w] \notin {"none", "rotated"}
HolderInv == \A w \in Workers : pc[w] \in Locked \ {"lock"} => flock = w
UnspentInv ==
    \A w \in Workers :
        /\ Unspent(w) => ~Consumed(tok[ProcOf[w]])
        /\ wire[w] = "rotated" => ~Consumed(Successor(tok[ProcOf[w]]))
FreshLoginInv ==
    login # NoToken =>
        /\ ~Consumed(login)
        /\ login.grant = grants
        /\ stored.grant # grants
        /\ \A p \in Procs : tok[p].grant # grants
CleanInv ==
    ~replayed /\ orphans = {} /\ HolderInv /\ UnspentInv /\ FreshLoginInv

(* A denial comes of a grant that is over.                                 *)
RefusedInv ==
    \A w \in Workers : wire[w] = "refused" => Over(tok[ProcOf[w]].grant)

IInv ==
    /\ TypeOK
    /\ SourceInv
    /\ MutexInv
    /\ IssuedInv
    /\ RotatedInv
    /\ NoEarlyRotation
    /\ PresentedInv
    /\ RefusedInv
    /\ ~slipped => CleanInv
    /\ StoreKeepsTheLiveToken

(* The refinement: a rotation has not happened until it is saved.          *)
Refreshes(w) == pc[w] \in {"discover", "wait", "save"}
Before(t) == [t EXCEPT !.seq = @ - 1]
SessionHeld ==
    [p \in Procs |->
        IF \E w \in WorkersOf(p) : pc[w] = "save" THEN Before(tok[p]) ELSE tok[p]]
SessionRefreshing == {ProcOf[w] : w \in {v \in Workers : Refreshes(v)}}
SessionLive ==
    [g \in 1..MaxGrants |->
        IF \E w \in Workers : Unsaved(w) /\ tok[ProcOf[w]].grant = g
        THEN cur[g] - 1 ELSE cur[g]]

Session == INSTANCE RotatingSession WITH
               broken <- slipped, held <- SessionHeld,
               refreshing <- SessionRefreshing, live <- SessionLive

(* Until something slips, all the processes, goroutines, logins and        *)
(* logouts together behave as if one process at a time refreshed, in one   *)
(* step, the token that the machine has: though in between the provider    *)
(* rotates, others read the store, and processes end.  (lockingTokenSource *)
(* and its lock; the re-read and the save under it.)                       *)
ImplementsSession == Session!Spec

(* Every call of Token() in a process that keeps running returns, even     *)
(* while another process holds the lock and never releases it.  Assumed:   *)
(* the caller set no HTTP client of its own, since withClient bounds the   *)
(* requests of the one it chose only.                                      *)
(* (lockRefresh's fall back to an unlocked refresh; requestTimeout.)       *)
CallReturns ==
    \A w \in Workers :
        ProcOf[w] \notin Wedged => (pc[w] # "idle" ~> pc[w] = "idle")

(* A token the store no longer holds comes back only by a login: README    *)
(* and store.go say that Delete makes the machine forget it.               *)
LogoutSticks ==
    [][stored = NoToken /\ stored' # NoToken => stored' = login]_vars

(* A process never trades the token it holds for an earlier one of the     *)
(* same grant: what it adopts from the store "is then the live one"        *)
(* (the comment of Token() on its re-read).                                *)
TokenNeverGoesBack ==
    [][\A p \in up \intersect up' :
          tok'[p].grant = tok[p].grant => tok'[p].seq >= tok[p].seq]_vars
=============================================================================
