# A verification project for goclilogin

goclilogin gives a product CLI its login: where its API and login server are
(`deployment.go`), the device grant (`login.go`), a token store
(`store.go`, `filestore.go`, `keyringerr.go`) and a token source whose refresh
is serialized over the processes of the machine (`tokensource.go`, `lock.go`).
The modules here are translated from that code. TLC checks them on small
instances; TLAPS proves every safety property of those runs for all instances.

    tlc -config Refresh.cfg MCTokenRefresh.tla        # any run of the table below
    for m in *Proofs.tla; do tlapm $m; done           # all proofs

## The system

| part | state | operations | what makes it hard | what makes it correct |
|---|---|---|---|---|
| token source (`tokensource.go`) | token in memory, oauth config, mutex | `TokenSource`, `Token`, `IsSessionRejected`, `VerifySession` | goroutines and processes refresh at once, the provider revokes the grant of a replayed refresh token; crash, timeout or lost answer between rotation and save | no consumed token is presented; what is stored is what the provider honours; no 429, 5xx or silence is a refusal |
| refresh lock (`lock.go`) | a kernel lock per client id | `lockRefresh` and its release | a holder that dies or freezes, no state directory | callers are never blocked for good |
| token store (`store.go`) | keyring and file, an entry per client id | `Save`, `Load`, `Delete` | two stores, no common lock; the keyring differs between sessions | `Load` answers the last save; a logout forgets; no plaintext where there is a keyring |
| fallback file (`filestore.go`) | token.json: one map for all client ids | `Get`, `Set`, `Delete` | read, change, replace the whole file | an entry lost or brought back by nobody |
| keyring attribution (`keyringerr.go`) | none | `diagnoseKeyring`, `keyringPresent` | a locked and an absent keyring need opposite treatment | as the token store |
| config file (`deployment.go`) | config.toml | `DeploymentForLogin`, `Save`, `LoadDeployment` | edited while a login waits minutes for approval; linked by a config manager | nothing is rewritten, nothing defined twice; a token goes only where its issuer is trusted |
| device login (`login.go`) | the poll, its ticker and interval | `Login` | a rate limit that answers in several forms and makes the interval grow, expiry of the device code, a request nobody answers | only a verdict ends it; an approval is fetched |
| client credentials (`clientcredentials.go`), token command (`commandtoken.go`) | a token in memory under a mutex | `Token` | a slow command or answer, short or overlong lifetimes, a command that does not end | what is reused is live, what is live is reused, every call returns |
| in-memory keyring (`memorykeyring.go`) | a map under a mutex | `Set`, `Get`, `Delete` | goroutines | as a keyring that is always open |
| defaults (`config.go`), `doc.go`, build files | none | | | |

How they interact: `Token()` holds its process's mutex, then the machine's lock,
re-reads the store, talks to the provider and saves. A login and a logout write
the same store without taking that lock. A login reads the config file, waits
for the user, writes the token store and then the config file; every other
command reads the config file and then the token store. Nothing else is shared:
the lock, token.json, the keyring and config.toml are all the coupling between
processes; a device login, a token command and a client-credentials source are
coupled with nobody but the provider or the program they ask. The hazards that follow are listed, with their lines and the
properties aimed at them, in `PROJECT.json`.

## The modules

**TokenRefresh** is the core: every process of a machine with one client id,
against the provider. `Procs` are processes, `Workers` their goroutines.

- `up`, `tok`, `discovered`, `mu` are `lockingTokenSource` per process: there is
  one, its `tok`, whether `oauthCfg` is built, who holds `mu`. `flock` is the
  lock file. `pc` and `wire` are where a goroutine is in `Token()` and what it
  waits for.
- `Token()` is cut where another process or goroutine can see the difference:
  at the mutex (`Call`, `Reuse`, `Enter`), the lock (`TakeLock`, `SkipLock`),
  the re-read (`ReloadLive`, `ReloadExpired`, `ReloadFails`), discovery
  (`Discover`, `DiscoverFails`), the request (`Answer`, `Shed`, `AnswerLost`,
  `Abandon`), the answer (`Receive`, `ReceiveError`) and the save (`Save`,
  `SaveFails`). Every return runs the two deferred releases (`Return`).
- A token is (grant, seq): the seq-th rotation of a grant. `cur` is the one the
  provider honours, as in the rotating provider of `refresh_test.go`, which
  denies a grant that was revoked, or whose token it does not hold (any more):
  `revoked`, `unknown`. A request its process stopped waiting for is an orphan,
  and may still arrive.
- What a request comes to (`Answers`) is a token, a denial, an OAuth code about
  the moment under a 200 or a 4xx (`limited`: Authelia's
  `temporarily_unavailable`, `slow_down`) or under a 429 or a 5xx (`busy`), or
  no code at all (`lost`). `Statuses` and `HasCode` are what `IsSessionRejected`
  sees of it.
- `Start` is `TokenSource`; `Stop` ends a process at any moment, and the kernel
  drops its lock. `Approve`, `LoginSave`, `Logout` are the interactive commands.
- The token store is one cell here. Reads may fail (`ReloadFails` covers every
  error, `ErrNotLoggedIn` too, since the code treats them alike), writes may fail.
- The ghost `slipped` records that a refresh went wrong in a way the code
  accepts: it went on without the lock, its re-read failed, its rotation was not
  heard of or not saved, it gave up waiting. The conditional properties say what
  holds as long as nothing of that kind happened; each kind is an action of the
  model and fires in the run.

**RotatingSession** is what TokenRefresh promises: one session per machine, whose
token one process at a time replaces by its successor, provider, store and
memory in one step, while logins and logouts come and go. In the refinement
(`Session` in TokenRefresh) a rotation has not happened until it is saved; the
session is `broken` once something slipped, and promises nothing from then on.

**TokenStore** is what is behind that cell: the keyring's half and the file's
half of `Save`, `Load` and `Delete` as separate steps of several callers, on a
host that says which system it is, whether there is a state directory, what the
keyring can be (`open`, `locked`, `refusing`, `absent`) and which client ids are
in use. `KeyringSet`, `KeyringSetRefused` and `KeyringSetFallsBack` are the three
ways line 156 of `store.go` ends, `Has`, `Put` and `Drop` what a keyring does
(`memorykeyring.go` is one that is always open); `ReadsEntries` and `Renames` are
`fileStore.load` and `write`, between which other callers run. The n-th token
saved on the machine is n. `latest` and `seen` are ghosts: what the last write
left, and what that was at any moment while a `Load` ran, so that a `Load` may
answer anything current during it. `held` is what the stores held when a
`Delete` began.

**TokenCell** is what the store promises, and all that TokenRefresh and
Deployment use of it: a cell per client id, changed in one step by each save
and deletion, and read by a load at some moment while it runs. The refinement
(`Cell` in TokenStore) maps the cell to the keyring's entry, or else the file's;
`done` to the deletions that emptied the keyring and have not answered yet; and
the answers by `Told`. Its `Lost` is the removal of token.json by somebody.
A refusal that names the keyring ("blocked") counts as "not logged in" on a host
that has no keyring, and as an error elsewhere.

**DeviceLogin** is one `Login`, with a clock that counts steps of five seconds,
the unit in which a slow_down grows the interval. `interval`, `next` and `due`
are the ticker of x/oauth2's loop; `wire` is the request under way or its
answer, a status and an OAuth error. `backOffAsSlowDown` is what the code's
transport makes of an answer, `GoesOn`, `LogsIn` and `Fails` what the loop does
with the result. `AnswerOther` is everything that answers instead of the
provider, also after the provider issued the token. `Tick` does not pass a step
that is due, a request's timeout, or the end of the context.

**ReusedToken** is the source of a token command or of client credentials under
`oauth2.ReuseTokenSource`. A token carries what is left of it as the source
reckons (`left`, from `Expiry`) and as the issuer does (`real`), so that time
needs no clock: `Tick` takes one from both. `Duration` is the multiplication of
line 97 of `commandtoken.go` in the width of a `time.Duration`. `child` is a
process that the command started and that holds its stdout open, on which `Run`
waits even when the command itself was killed with its context.

**Deployment** is the config file: `file` maps each key to its sequence of
definitions (none, one, perhaps of an empty value, or two, which is not TOML).
`DeploymentForLogin`, `LooksUp`, `StoresToken`, `SaveReads`, `SaveRereads` and
`writeFileAtomically` are the login in the order of the repository's README;
`Fails` ends it at any step, which is what every error path does. A refusal
changes nothing and so is the absence of a step. `LoadDeployment` and
`Requests` are any other command; `Edit` and `Link` are the user or a config
manager. URLs are members of `Spellings`, and `Normal` says what checking one
and trimming its slashes gives. `tokens` is the token store, reduced to whose
token each client id has.

**MCTokenRefresh**, **MCTokenStore**, **MCDeployment** and **MCReusedToken** give the constants
their values. **TokenRefreshProofs**, **TokenStoreProofs**, **DeploymentProofs**,
**DeviceLoginProofs**, **ReusedTokenProofs** and **RotatingSessionProofs** hold the proofs. A definition marked
"Faulty variant" is a bug the code could have had (a dropped guard, a missing
step); no specification uses it.

## The runs

| run | what it asks | bounds |
|---|---|---|
| `Refresh.cfg` | `NoReplayUnlessSlipped`, `StoreKeepsTheLiveToken`, `NoEarlyRotation`, `RejectedTokenIsTheMachines`, `OutageIsNoRejection`, `TypeOK`, and `ImplementsSession` | two processes, one with two goroutines; one grant rotated twice; 1.5 million states |
| `Relogin.cfg` | the whole inductive invariant `IInv`, and `ImplementsSession`, with a second grant | two goroutines of one process, two grants, one rotation each |
| `Waiters.cfg` | `CallReturns`, under fairness | as Refresh, one rotation; one process may freeze anywhere |
| `Logout.cfg` | finds `LogoutSticks` violated | one goroutine |
| `Hosts.cfg` | `ImplementsTokenCell`, the inductive invariant `StoreInv`, `LoadReturnsLatest`, `DeleteForgets`, `NoPlaintextOnDarwin`, `TypeOK` | two callers; a Mac that locks with two client ids, one that refuses, a host without keyring, one without state directory; three saves |
| `TwoClients.cfg` | finds `LoadReturnsLatest` violated | two saves |
| `HalfLogout.cfg` | finds `DeleteForgets` violated | two saves, one caller |
| `Config.cfg` | `TokenOfTheFilesIssuer`, `ApprovedLoginCanBeSaved`, `KeepsWhatTheFileSays`, `NoDuplicateKeys`, `LinkedNeverWritten`, `TypeOK`, the inductive invariant `DeployInv` | logins in turn, any number, from all 672 initial files, linked or not; one command beside them; two edits until the login saves |
| `Device.cfg` | `EndsOnlyOnVerdict`, `ApprovalFetched`, `BacksOff`, `LoginReturns`, `TypeOK`, the inductive invariant `LoginInv` | a poll every 5 s at first, a code of 20 or 75 s, requests of 15 s |
| `Unanswered.cfg` | finds `WaitsAsLongAsItsContext` violated | a code of 60 s, requests of 30 s |
| `Reused.cfg` | `ReusedTokenIsLive`, `ReusedWhileItLasts`, `CallsReturn`, `TypeOK`, the inductive invariant `SourceInv` | two goroutines; steps of 10 s; lifetimes negative, absent, 10 s, 30 s and one that no `time.Duration` holds; requests of 30 s |
| `TwoSaves.cfg` | finds `NoDuplicateKeys` violated | two logins at once |

Why the bounds suffice. Two processes and two goroutines are what the mutex and
the lock tell apart; the proofs are there for more. A process without a state
directory (`Unlockable`) takes `SkipLock`, the step of a waiter that gives up, so
the runs leave that set empty and the proofs cover it. Two rotations let a token be
stale by one and by two. Three saves let an older copy be followed by a newer
one and by one that is lost. Two edits let a key be added, emptied or deleted
and another (or the link) change in the same wait. A code of 75 seconds lets the
interval grow four times before it is too long for what is left, and one of 20
lets it end in the first waits; timeouts are shortened with it, which keeps a
request, and a timeout, shorter or longer than an interval. Lifetimes in
ReusedToken fall on both sides of `expiryDelta`, of `RequestTimeout` and of
`MaxDuration`. The bounds are `MaxGrants`
and `MaxSeq` (in `Approve` and `Rotates`), `MaxSaves` (in `Begin`) and
`MaxEdits` (in `Edit` and `Link`); `Ends` bounds the clock of DeviceLogin as the
code's expiry does; `elapsed` in ReusedToken stops at `Late`, when every token that expires has. Deadlock is not checked where everything may
really be over: no login left within `MaxGrants`, a config file that cannot
be read and nobody left to edit it, or a device login that returned.

`Quiet` and `Overlap` keep edits out of a window in which the code promises
nothing, and logins from overlapping. `TokenOfTheFilesIssuer` and
`ApprovedLoginCanBeSaved` speak of files nobody edited, too: with edits during
the wait neither holds (the issuer that was written meanwhile stands and the
token of the other one is stored, which `deployment_test.go` expects), and an
edit between `Save`'s second reading and its rename is overwritten. Two logins
at once break `NoDuplicateKeys` (`TwoSaves.cfg`) and, without any edit,
`TokenOfTheFilesIssuer` (the known limits).

The properties of `Refresh.cfg` that begin with `~slipped`, and
`NoReplayUnlessSlipped`, say nothing of what follows a crash, a lost answer, a
failed save or a lock given up: those end, sooner or later, in a replay and a
new login, which two systems that record one rotation cannot rule out.
`NoEarlyRotation` and `OutageIsNoRejection` hold whatever slipped.

### Fairness

`Fairness` holds for processes outside `Wedged` only. Weak fairness of
`Advance(w)` is: a running goroutine goes on; the poll of the lock is given up
after `lockWait` (`SkipLock` is enabled as long as somebody holds the lock, and
`TakeLock` when nobody does); a request is abandoned after `requestTimeout`.
Strong fairness of `Acquire(w)` is `sync.Mutex`, whose starvation mode hands the
mutex to whoever waits for longer than a millisecond. Nothing is assumed of the
provider, of the holder of the lock, or of logins. Two things are assumed that
the code does not bound: that the keyring, which is asked under the mutex,
returns; and that the caller set no HTTP client of its own without a timeout,
since `withClient` (`login.go:36-38`) bounds the requests of the client it chose
and leaves the caller's alone. `LoginReturns` and `CallsReturn` assume the
second as well.

In DeviceLogin weak fairness of `Client` is that the program takes its steps and
its `show` returns, and of `Tick` that time passes; since no tick passes a due
step, neither the provider nor the user is assumed to do anything.

In ReusedToken time passes, `Finishes(g)` says that the goroutine takes what has
come (an answer, a timeout, the end of a killed command), and strong fairness of
`Acquire(g)` is `sync.Mutex` again. `CallsReturn` is conditional on what the code
leaves to others: that the context of a token command ends, which is all that
stops a command, and that no child of the command keeps its stdout open for good.

### What the violation runs say

- **Logout.** `Delete` takes no refresh lock. A refresh that re-read the store
  before a logout saves after it, and the machine is logged in again.
- **TwoClients.** The refresh lock is per client id, token.json is not: of two
  simultaneous saves the first is lost, and with it a rotation.
- **HalfLogout.** `Delete` answers success when one of its halves did; the
  keyring may have refused and still hold the token.
- **TwoSaves.** `Save` reads the file twice, for the missing keys and for its
  content; what another login adds in between is defined twice.
- **Unanswered.** The loop goes on after slow_down and authorization_pending
  only. A poll that times out is neither, and ends a login that its context and
  its code would still let wait.

### Known limits without a run of their own

TLC shows all but the fifth with an existing run changed as described.

- `Logout.cfg` with `MaxSeq = 2` and `TokenNeverGoesBack`: a rotation that was
  not saved leaves the live token in memory only; at the next expiry the re-read
  replaces it by the stored, consumed one, and the refresh that follows is a replay.
- `Logout.cfg` with `RejectedNeedsALogin` as its invariant: a refresh answered by
  a rate limit with an OAuth code on a 200, or on a 4xx other than 429, is a
  rejected session to `IsSessionRejected`, which tells the user to log in again
  while the stored token still is good. The login's own poll takes those
  not on a 200 for a reason to wait (`backOffAsSlowDown` knows
  `temporarily_unavailable` as Authelia's rate limit), and the repository's README
  says of shed load that it "sends nobody to log in again".
- `TwoSaves.cfg` with `TokenOfTheFilesIssuer`: a login stores its token and then
  saves its deployment, and `Save` leaves an issuer that another login wrote
  meanwhile. Of two logins at once, the file then names the issuer of one and the
  store has the token of the other, under one client id, and that is what is sent.
- `TwoClients.cfg` with one caller and `Hosts <- SomeSessions`: where the Secret
  Service is there on the desktop and not over SSH, each session saves to a store
  of its own and the other keeps an older token.
- On a Mac, a logout while the keychain is locked answers `ErrNotLoggedIn`
  (`store.go` says "when neither held one") and the keychain keeps the token:
  `KeyringMisses`, then `DeleteFileMisses`. `TokenCell` lets a deletion that did
  nothing say so, and `DeleteForgets` speaks of the answer "deleted" only.
- `Reused.cfg` without the conditions of its properties: a client-credentials
  token whose answer took longer than ten seconds may be reused after it expired;
  one of the token command that lasts more than some 292 years wraps to an expiry
  in the past, and the command is run again on every call;
  a child that holds the command's stdout blocks every caller for good.

## What is proved

`TokenRefreshProofs` proves, for all sets of processes and goroutines and all
bounds, from `ConstantsAssumption` alone (every goroutine has a process; the
symbol of a free lock is no goroutine):

| theorem | statement |
|---|---|
| `Inductive` | `Spec => []IInv` |
| `TypeCorrect` | `Spec => []TypeOK` |
| `NoReplay` | `Spec => []NoReplayUnlessSlipped` |
| `StoreKeeps` | `Spec => []StoreKeepsTheLiveToken` |
| `NoneEarly` | `Spec => []NoEarlyRotation` |
| `RejectedIsTheMachines` | `Spec => []RejectedTokenIsTheMachines` |
| `NoOutageRejects` | `Spec => []OutageIsNoRejection` |

None of the safety properties is inductive. That a replay needs a slip depends
on who can be about to present which token, so `IInv` says: a goroutine past the
mutex is alone in its process (`MutexInv`); with nothing slipped, a goroutine
past the lock is alone on the machine (`HolderInv`) and, from its re-read until
a rotation is answered, has the token its grant honours (`UnspentInv`, from which,
with `StoreKeepsTheLiveToken`, `RejectedIsTheMachines` follows: a grant honours
one token at a time); nobody but the login
knows a token not yet saved (`FreshLoginInv`, which is why a login may save
without the lock); every token that is or will be presented has expired
(`PresentedInv`, which gives `NoEarlyRotation` whatever slipped); everything on
the machine was issued by the provider (`IssuedInv`, `RotatedInv`). One lemma
per conjunct shows that every action preserves it. `Relogin.cfg` checks `IInv`
with TLC.

`RotatingSessionProofs` proves the theorem `ImplementsRotatingSession`, `Spec =>
ImplementsSession`, under the same assumption. Every step of TokenRefresh is one
of the session's or a stutter of it, until it slips: a re-read is `Looks`, a
save is `Refreshes`, every other end of a refresh is `GivesUp`; the lock, the
discovery, the request and its answer are hidden (`SameSession`, `AnswerStep`,
`ReceiveStep`). `HolderInv` is why the refresh under way is the only one, and
`UnspentInv` why the session's token is the one the provider honours when the
rotation takes effect, perhaps long after the provider answered.

`TokenStoreProofs` proves, for all sets of hosts, client ids and callers and
every number of saves:

| theorem | statement |
|---|---|
| `StoreInductive` | `Spec => []StoreInv` |
| `StoreTypeCorrect` | `Spec => []TypeOK` |
| `NoPlaintext` | `Spec => []NoPlaintextOnDarwin` |
| `LoadsReturnLatest` | if `OneStore(h)` for every host, `Spec => []LoadReturnsLatest` |
| `DeletesForget` | if `OneStore(h)` for every host, `Spec => DeleteForgets` |
| `ImplementsCell` | if `OneStore(h)` for every host, `Spec => ImplementsTokenCell` |

The first three assume nothing beyond `ConstantsAssumption`. `OneStore(h)` says
that h is a Mac, has no state directory, or has a keyring that never opens and
one client id; the violation runs and the known limits show what happens on any
other host, so it is the code's own condition. Why the invariant is needed: that
a load answers something current depends on where the token can be.
`OneStoreInv` says that the store that is not in use stays empty (on a Mac no
caller reaches the file's write, because `keyringPresent` sends every failed
save back), that the ghost `latest` is what the other one holds, and, of each
caller (`CallInv`), what it can have learnt by the step it is at: a load past a
keyring without the entry saw the store empty while it ran, a load under way
has what the store holds now among what it has seen. A caller at its `Renames` holds an old copy of
the file; with one client id in use that copy differs from the file in the entry
that is replaced and nowhere else. The refinement follows step by step: a write
is the cell's `Save` or `Delete` (`CellWrite`), any other step of a caller a
return or a stutter (`CellRead`). `DeletesForget` rests on `ForgetInv`: no token
is saved twice, so that what a pending `Save` carries differs from everything
the stores held when a `Delete` began; and once a `Delete` is past the keyring,
the keyring's entry is none of those.

`DeploymentProofs` proves, for all spellings, issuers, client ids, metadata and
numbers of edits:

| theorem | statement |
|---|---|
| `DeployInductive` | `Spec => []DeployInv` |
| `DeploymentTypeCorrect` | `Spec => []TypeOK` |
| `LinkedIsNotWritten` | if `Quiet \intersect {"reread", "rename"} = {}`, `Spec => LinkedNeverWritten` |
| `KeysAreUnique` | if also `~Overlap`, `Spec => []NoDuplicateKeys` |
| `FileIsKept` | if also `~Overlap`, `Spec => KeepsWhatTheFileSays` |
| `ApprovedIsSaved` | if `~Overlap`, `Spec => []ApprovedLoginCanBeSaved` |
| `RequestsAreTrusted` | if `~Overlap`, `Spec => []TokenOfTheFilesIssuer` |

`~Overlap` is that logins take turns, and the condition on `Quiet` that nobody
edits the file between the first reading of one `Save` and its rename: these are
what the code leaves to its users. `TwoSaves` shows the keys defined twice
without the first; the rename overwrites an edit of that window. Edits anywhere
else, failures at any step and any number of logins are covered. The invariant:
`SavesInv` says that a key that `Save` found missing is still missing until it
writes, and that what it read again is the file; with `NoDuplicateKeys` that
gives what `Save` adds. `LinkInv` says that a link was seen before the write.
`ResolvedInv` relates three things that are written at different times, the
file, the deployment a login resolved before the user approved, and the token
it stored: while logins alone write the file, a setting comes from the file
exactly when the file has it, and agrees with it. `IssuerInv` is why a login
that failed halfway does no harm: a token it left belongs to a client id that
the file may only select together with the issuer of that token.

`DeviceLoginProofs` proves, for every interval, every set of expiries and every
request timeout, from `ConstantsAssumption` (the polling interval is positive)
and `NoneAssumption` (no answer is the symbol for none):

| theorem | statement |
|---|---|
| `LoginInductive` | `Spec => []LoginInv` |
| `LoginTypeCorrect` | `Spec => []TypeOK` |
| `OnlyVerdictEnds` | `Spec => []EndsOnlyOnVerdict` |
| `ApprovalIsFetched` | `Spec => []ApprovalFetched` |
| `PollBacksOff` | `Spec => BacksOff` |

`TickerInv` ties the ticker's interval to the number of answers that asked to
wait and bounds the age of a request; `AnswerInv` says that what the login
server answers fits what became of the code, and that only a poll sent before
the approval can still hear "pending"; `ApprovalInv` carries the bound of
`ApprovalFetched` through the poll: since the approval, or the last wait asked
for, the poll at hand was sent, or will be, within an interval and a request.

`ReusedTokenProofs` proves, for any goroutines, lifetimes, timeout and width of a
duration:

| theorem | statement |
|---|---|
| `SourceInductive` | `Spec => []SourceInv` |
| `SourceTypeCorrect` | `Spec => []TypeOK` |
| `ReusedIsLive` | `Spec => ReusedTokenIsLive` |
| `ReusedWhileLive` | `Spec => ReusedWhileItLasts` |

`WireInv` bounds what is left of a token under way by its lifetime and the time
since the request; `TokenInv` compares the two reckonings of the token at hand:
the source's is never above the issuer's (for a grant, by more than its answer
took), nor below it by more than the fetch took, which is where the overflow of
`Duration` has to be set apart.

Only model-checked: `CallReturns`, `LoginReturns` and `CallsReturn`. They are
liveness, which is out of the prover's reach, as is `ENABLED`.

## Not modelled

- Time, in TokenRefresh. Expiry is an action that may happen whenever a token exists; `lockWait`
  and `requestTimeout` are the possibility to give up. That 10 seconds are fewer
  than the 60 that discovery and refresh may take together is therefore not seen.
- Two lock files over one store: processes with different `$XDG_STATE_HOME`
  share the keyring and not the lock, and their refreshes are not serialized.
- A crash between the two halves of `Delete` on a host with both stores, which
  leaves the file's copy.
- Two client ids of one keyring, and the keyring's own concurrency: each keyring
  call is atomic, as D-Bus and the keychain make it.
- Rendering, JSON, error wording, path resolution, file modes.
- That a written file survives a power failure: the code does not sync.

## Plan

1. *(done)* `TokenRefresh`, its runs and proofs; `TokenStore`; `Deployment`.
2. *(done)* `DeviceLogin`; `ReusedToken`; `TokenCell`, its refinement and its proof.
3. *(done)* The proofs of `TokenStore`'s `DeleteForgets`, of `Deployment`,
   `DeviceLogin` and `ReusedToken`.
4. *(done)* `RotatingSession`, and that `TokenRefresh` implements it.
5. *(left)* `LockTiming`: the refresh with its two timeouts counted, to ask whether a
   holder that is merely slow ("busy rather than wedged") is overtaken. Two
   refreshes with clocks in TokenRefresh itself are out of TLC's reach.
