------------------------------ MODULE ReusedToken ------------------------------
(***************************************************************************)
(* The two token sources that keep their token in memory only: the token   *)
(* command (src/commandtoken.go) and client credentials                    *)
(* (src/clientcredentials.go).  Each is asked by oauth2.ReuseTokenSource,  *)
(* under its mutex, when the token at hand is no longer valid.             *)
(*                                                                         *)
(* Time is relative: a token carries what is left of it by the source's    *)
(* reckoning and by the provider's.  A value below zero is kept as -1.     *)
(***************************************************************************)
EXTENDS Integers

CONSTANTS
    Goroutines,      \* callers of Token()
    NoOne,           \* the holder of a free mutex
    Lifetimes,       \* values of expires_in; 0 is none, Never the longest
    Never,
    expiryDelta,     \* how early oauth2 takes a token for expired
    RequestTimeout,  \* what the client bounds a request by
    MaxDuration      \* the longest time.Duration

ASSUME ConstantsAssumption ==
    /\ NoOne \notin Goroutines
    /\ expiryDelta \in Nat /\ RequestTimeout \in Nat /\ Never \in Nat
    /\ Lifetimes \subseteq -1..(Never - 1)
    /\ MaxDuration \in Nat

VARIABLES
    kind,     \* the source: none yet, "command" or "credentials"
    over,     \* its context has ended
    mu,       \* the mutex of ReuseTokenSource
    pc,       \* where each caller is
    tok,      \* the token at hand
    elapsed,  \* how long the command or request under way has taken
    wire,     \* what will come of it
    child     \* a process the command started holds its stdout open

vars == <<kind, over, mu, pc, tok, elapsed, wire, child>>

Floor(n) == IF n < 0 THEN -1 ELSE n
(* Bound on elapsed: by then every token that expires is expired.          *)
Late == Never

(* A token, with the time between the start of the fetch and its end.      *)
NoToken == [lasts |-> 0, left |-> -1, real |-> -1, took |-> 0]
(* What is under way: nothing came of it yet, a token did, or a refusal.   *)
Answer(what, n) == [what |-> what, lasts |-> n,
                    real |-> IF n = 0 THEN Never ELSE Floor(n)]
Asked == Answer("asked", 0)

Init ==
    /\ kind = "none" /\ over = FALSE
    /\ mu = NoOne /\ pc = [g \in Goroutines |-> "idle"]
    /\ tok = NoToken
    /\ elapsed = 0 /\ wire = Asked /\ child = FALSE

-----------------------------------------------------------------------------
(* The constructors, once discovery gave a token_endpoint; every argument  *)
(* they refuse leaves no source.                                           *)
Opens(k) ==
    /\ kind = "none" /\ kind' = k
    /\ UNCHANGED <<over, mu, pc, tok, elapsed, wire, child>>
CommandTokenSource == Opens("command")
ClientCredentialsTokenSource == Opens("credentials")

Call(g) ==
    /\ kind # "none" /\ pc[g] = "idle"
    /\ pc' = [pc EXCEPT ![g] = "mu"]
    /\ UNCHANGED <<kind, over, mu, tok, elapsed, wire, child>>

Valid(t) == t # NoToken /\ t.left >= expiryDelta

Returns(g) ==
    /\ pc' = [pc EXCEPT ![g] = "idle"]
    /\ mu' = NoOne /\ elapsed' = 0 /\ wire' = Asked
    /\ UNCHANGED <<kind, over>>

Reuse(g) ==
    /\ pc[g] = "mu" /\ mu = NoOne /\ Valid(tok)
    /\ Returns(g)
    /\ UNCHANGED <<tok, child>>

(* The command is started, or the request sent.                            *)
Fetch(g) ==
    /\ pc[g] = "mu" /\ mu = NoOne /\ ~Valid(tok)
    /\ mu' = g /\ pc' = [pc EXCEPT ![g] = "fetch"]
    /\ UNCHANGED <<kind, over, tok, elapsed, wire, child>>

-----------------------------------------------------------------------------
(* time.Duration(expires_in) * time.Second, in the width of a Duration.    *)
Duration(n) == ((n + MaxDuration + 1) % (2 * (MaxDuration + 1))) - MaxDuration - 1

\* Faulty variants: counted from the command's end; a token without expiry.
Expiry_FromTheEnd(n) == IF n = 0 THEN Never ELSE Floor(Duration(n))
Expiry_ZeroIsNow(n) ==
    Floor((IF kind = "command" THEN Duration(n) - elapsed ELSE n))
(* What the source reckons is left: the command's token is counted from    *)
(* the start of the command, that of the grant from the answer.            *)
Expiry(n) ==
    IF n = 0 THEN Never
    ELSE IF kind = "command" THEN Floor(Duration(n) - elapsed) ELSE n

\* Faulty variant: any expires_in will do.
Acceptable_Any(n) == TRUE
Acceptable(n) == n >= 0

Succeeds(g) ==
    /\ pc[g] = "fetch" /\ wire.what = "token" /\ Acceptable(wire.lasts)
    /\ ~child
    /\ tok' = [lasts |-> wire.lasts, left |-> Expiry(wire.lasts),
               real |-> wire.real, took |-> elapsed]
    /\ Returns(g)
    /\ UNCHANGED child

(* The command exits with an error, or prints no token response, no bearer *)
(* token, or a negative expires_in.                                        *)
CommandFails(g) ==
    /\ pc[g] = "fetch" /\ kind = "command" /\ ~child
    /\ Returns(g)
    /\ UNCHANGED <<tok, child>>

(* Run returns once the command is killed and its output ends.             *)
Killed(g) == over /\ CommandFails(g)

RequestFails(g) ==
    /\ pc[g] = "fetch" /\ kind = "credentials"
    /\ wire.what = "failed"
    /\ Returns(g)
    /\ UNCHANGED <<tok, child>>

\* Faulty variant: a client without a timeout.
RequestTimesOut_OnlyWithItsContext(g) ==
    /\ pc[g] = "fetch" /\ kind = "credentials" /\ over
    /\ Returns(g)
    /\ UNCHANGED <<tok, child>>
RequestTimesOut(g) ==
    /\ pc[g] = "fetch" /\ kind = "credentials"
    /\ elapsed = RequestTimeout \/ over
    /\ Returns(g)
    /\ UNCHANGED <<tok, child>>

-----------------------------------------------------------------------------
(* What issues the token, and what the command leaves running.             *)
Issues ==
    /\ mu # NoOne /\ wire = Asked
    /\ \E n \in Lifetimes :
          (kind = "command" \/ n >= 0) /\ wire' = Answer("token", n)
    /\ UNCHANGED <<kind, over, mu, pc, tok, elapsed, child>>

AnswersNoToken ==
    /\ mu # NoOne /\ wire = Asked /\ kind = "credentials"
    /\ wire' = Answer("failed", 0)
    /\ UNCHANGED <<kind, over, mu, pc, tok, elapsed, child>>

Spawns ==
    /\ mu # NoOne /\ kind = "command" /\ ~over
    /\ child' = TRUE
    /\ UNCHANGED <<kind, over, mu, pc, tok, elapsed, wire>>

ChildEnds ==
    /\ child /\ child' = FALSE
    /\ UNCHANGED <<kind, over, mu, pc, tok, elapsed, wire>>

ContextEnds ==
    /\ ~over /\ over' = TRUE
    /\ UNCHANGED <<kind, mu, pc, tok, elapsed, wire, child>>

Less(n) == IF n = Never THEN Never ELSE Floor(n - 1)

Tick ==
    /\ kind = "credentials" => elapsed < RequestTimeout
    /\ tok' = [tok EXCEPT !.left = Less(@), !.real = Less(@)]
    /\ elapsed' = IF mu = NoOne \/ elapsed = Late THEN elapsed ELSE elapsed + 1
    /\ wire' = [wire EXCEPT !.real = Less(@)]
    /\ UNCHANGED <<kind, over, mu, pc, child>>

-----------------------------------------------------------------------------
Acquire(g) == Reuse(g) \/ Fetch(g)
Finishes(g) == Succeeds(g) \/ Killed(g) \/ RequestFails(g) \/ RequestTimesOut(g)

Next ==
    \/ CommandTokenSource \/ ClientCredentialsTokenSource
    \/ \E g \in Goroutines :
          Call(g) \/ Acquire(g) \/ CommandFails(g) \/ Finishes(g)
    \/ Issues \/ AnswersNoToken \/ Spawns \/ ChildEnds \/ ContextEnds \/ Tick

(* The clock runs, what has come is taken, and sync.Mutex starves no one.  *)
Spec ==
    /\ Init /\ [][Next]_vars
    /\ WF_vars(Tick)
    /\ \A g \in Goroutines : WF_vars(Finishes(g)) /\ SF_vars(Acquire(g))

-----------------------------------------------------------------------------
(* Every variable has its type.                                            *)
TypeOK ==
    /\ kind \in {"none", "command", "credentials"}
    /\ over \in BOOLEAN /\ child \in BOOLEAN
    /\ mu \in Goroutines \union {NoOne}
    /\ pc \in [Goroutines -> {"idle", "mu", "fetch"}]
    /\ tok \in [lasts : {n \in Lifetimes \union {0} : n >= 0}, left : -1..Never,
               real : -1..Never, took : 0..Late]
    /\ elapsed \in 0..Late
    /\ wire \in [what : {"asked", "token", "failed"},
                 lasts : Lifetimes \union {0}, real : -1..Never]

(* Only the holder of the mutex has something under way, and a token that  *)
(* comes lost no more of its life than the fetch took.                     *)
Spent(t) == t.left = -1 /\ t.real = -1
WireInv ==
    /\ kind = "none" => Spent(tok) /\ \A g \in Goroutines : pc[g] = "idle"
    /\ \A g \in Goroutines : pc[g] = "fetch" <=> mu = g
    /\ mu = NoOne => elapsed = 0 /\ wire = Asked
    /\ wire.what = "asked" => wire = Asked
    /\ wire.what = "token" =>
          IF wire.lasts = 0 THEN wire.real = Never
          ELSE /\ Floor(wire.lasts - elapsed) <= wire.real
               /\ wire.real <= Floor(wire.lasts)

(* What the source reckons is left of a token is never more than there is  *)
(* (for a grant: and the time its answer took), nor less by more than the  *)
(* fetch took.                                                             *)
TokenInv ==
    \/ Spent(tok)
    \/ tok.lasts = 0 /\ tok.left = Never /\ tok.real = Never
    \/ /\ tok.lasts > 0 /\ tok.left # Never /\ tok.real # Never
       /\ Floor(tok.left - (IF kind = "command" THEN 0 ELSE tok.took)) <= tok.real
       /\ tok.lasts <= MaxDuration => tok.real <= tok.left + tok.took

(* The inductive invariant.                                                *)
SourceInv == TypeOK /\ WireInv /\ TokenInv

(* A token that is handed out again is one its provider still takes: the   *)
(* command's always, however long it ran; that of the grant unless its     *)
(* answer took longer than the ten seconds oauth2 allows for.              *)
(* (commandSource.Token, "counted from when the command started".)         *)
ReusedTokenIsLive ==
    [][\A g \in Goroutines :
          Reuse(g) /\ (kind = "command" \/ tok.took <= expiryDelta) => tok.real >= 0]_vars

(* "A token is reused until its expires_in runs out": no command is run    *)
(* and no request made while the token has more left than those ten        *)
(* seconds and what its own fetch took, or never expires; so long as its   *)
(* expires_in is one a time.Duration holds.  (commandSource.Token.)        *)
ReusedWhileItLasts ==
    [][\A g \in Goroutines :
          Fetch(g) /\ tok.lasts <= MaxDuration
          => tok.real < expiryDelta + tok.took]_vars

(* Every call of Token() returns: a request is bounded, a command ends     *)
(* with its context; unless something the command started, which is not    *)
(* killed with it, holds its stdout open for good.  It is assumed that the *)
(* context carries no HTTP client of the caller's without a timeout:       *)
(* withClient bounds the requests of the one it chose only.                *)
CallsReturn ==
    /\ []<>(~child)
    /\ [](kind # "command") \/ <>over
    => \A g \in Goroutines : pc[g] = "mu" ~> pc[g] = "idle"
=============================================================================
