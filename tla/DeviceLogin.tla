------------------------------ MODULE DeviceLogin ------------------------------
(***************************************************************************)
(* One device login (Login and pollForApproval of src/login.go): a device  *)
(* code is asked for, shown, and the token endpoint polled until somebody  *)
(* approved or refused it, through a client that turns answers asking to   *)
(* wait into slow_down (backOffAsSlowDown).  The poll itself is            *)
(* x/oauth2's, modelled from what login.go says of it.                     *)
(*                                                                         *)
(* Time is counted in steps of five seconds, what a slow_down adds.        *)
(***************************************************************************)
EXTENDS Integers

CONSTANTS
    Interval,        \* the interval the provider asks for
    Ends,            \* when the device code expires or the context ends
    RequestTimeout,  \* what the client bounds a request by
    None

ASSUME ConstantsAssumption ==
    Interval \in Nat \ {0} /\ Ends \subseteq Nat /\ RequestTimeout \in Nat \ {0}

(* An answer: its status, and the OAuth error it carries, if any.          *)
Says(status, code) == [status |-> status, code |-> code]
Asked == Says(0, "asked")

(* What a rate limit answers; and what no login server says of a code: a   *)
(* proxy's page, a failure, an error under a 200.                          *)
Limits == {Says(400, "slow_down"), Says(503, "temporarily_unavailable"),
           Says(429, "none"), Says(429, "temporarily_unavailable")}
Noise == {Says(502, "none"), Says(500, "server_error"),
          Says(200, "temporarily_unavailable"), Says(200, "none")}
Verdict == [pending |-> Says(400, "authorization_pending"),
            approved |-> Says(200, "token"), issued |-> Says(200, "token"),
            denied |-> Says(400, "access_denied"),
            expired |-> Says(400, "expired_token")]
Answers == Limits \union Noise \union {Verdict[g] : g \in DOMAIN Verdict}

ASSUME NoneAssumption == None \notin Answers \union {Asked}

VARIABLES
    now, end,
    pc,          \* where Login is
    interval, next, due,  \* the poll's ticker: its period, its next tick,
                          \* and whether one waits to be taken
    wire, sentAt,         \* the request under way, or its answer
    grant,       \* provider: what became of the device code
    outcome,
    approvedAt,  \* ghost: when the user approved
    asks, askedAt,  \* ghosts: answers that asked to wait, when the last came
    noisy        \* ghost: a request got no answer of the login server

ticker == <<interval, next, due>>
ghosts == <<approvedAt, asks, askedAt, noisy>>
vars == <<now, end, pc, ticker, wire, sentAt, grant, outcome, ghosts>>

Init ==
    /\ now = 0 /\ end \in Ends
    /\ pc = "start"
    /\ interval = Interval /\ next = 0 /\ due = FALSE
    /\ wire = None /\ sentAt = 0
    /\ grant = "pending" /\ outcome = "none"
    /\ approvedAt = 0 /\ asks = 0 /\ askedAt = 0 /\ noisy = FALSE

Returns(o) ==
    /\ pc' = "done" /\ outcome' = o /\ wire' = None
    /\ UNCHANGED <<now, end, ticker, sentAt, grant, approvedAt, asks, askedAt>>

-----------------------------------------------------------------------------
(* Discovery and the device code, then the prompt.                         *)
AsksForCode ==
    /\ pc = "start" /\ pc' = "show"
    /\ UNCHANGED <<now, end, ticker, wire, sentAt, grant, outcome, ghosts>>

StartFails == pc = "start" /\ noisy' = TRUE /\ Returns("error")

(* show returns, and DeviceAccessToken starts its ticker.                  *)
Shown ==
    /\ pc = "show" /\ pc' = "poll"
    /\ next' = now + interval
    /\ askedAt' = now
    /\ UNCHANGED <<now, end, interval, due, wire, sentAt, grant, outcome,
                   approvedAt, asks, noisy>>

Idle == pc = "poll" /\ wire = None

Poll ==
    /\ Idle /\ due /\ now < end
    /\ due' = FALSE
    /\ wire' = Asked /\ sentAt' = now
    /\ UNCHANGED <<now, end, pc, interval, next, grant, outcome, ghosts>>

-----------------------------------------------------------------------------
(* backOffAsSlowDown.RoundTrip: what the poll hears of an answer.          *)

\* Faulty variants: only a 429; not slow_down; whatever is no success.
backOffAsSlowDown_Only429(a) == IF a.status = 429 THEN Says(400, "slow_down") ELSE a
backOffAsSlowDown_AsPending(a) ==
    IF a.status = 429 THEN Verdict.pending ELSE a
backOffAsSlowDown_AnyFailure(a) ==
    IF a.status < 300 THEN a ELSE Says(400, "slow_down")
asksToWait(a) == a.status = 429 \/ a.code = "temporarily_unavailable"
backOffAsSlowDown(a) ==
    IF a.status >= 300 /\ asksToWait(a) THEN Says(400, "slow_down") ELSE a

Heard == backOffAsSlowDown(wire).code

(* x/oauth2 adds five seconds on a slow_down and starts its ticker anew,   *)
(* goes on as it was on authorization_pending, and returns on the rest.    *)
GoesOn ==
    /\ wire \in Answers
    /\ \/ Heard = "authorization_pending" /\ UNCHANGED ticker
       \/ /\ Heard = "slow_down"
          /\ interval' = interval + 1
          /\ next' = now + interval' /\ due' = FALSE
    /\ IF wire \in Limits THEN asks' = asks + 1 /\ askedAt' = now
                         ELSE UNCHANGED <<asks, askedAt>>
    /\ wire' = None
    /\ UNCHANGED <<now, end, pc, sentAt, grant, outcome, approvedAt, noisy>>

LogsIn == wire \in Answers /\ Heard = "token" /\ Returns("token") /\ UNCHANGED noisy

Fails ==
    /\ wire \in Answers
    /\ Heard \notin {"slow_down", "authorization_pending", "token"}
    /\ Returns("error") /\ UNCHANGED noisy

RequestTimesOut ==
    /\ wire # None /\ now = sentAt + RequestTimeout
    /\ noisy' = TRUE /\ Returns("unanswered")

\* Faulty variant: the poll has a context of its own.
ContextEnds_Never == FALSE
ContextEnds == pc = "poll" /\ now >= end /\ Returns("context") /\ UNCHANGED noisy

-----------------------------------------------------------------------------
(* The provider, the user and the clock.                                   *)

Answer ==
    /\ wire = Asked
    /\ wire' = Verdict[grant]
    /\ grant' = IF grant = "approved" THEN "issued" ELSE grant
    /\ UNCHANGED <<now, end, pc, ticker, sentAt, outcome, ghosts>>

(* A rate limit answers in the provider's place, or something between it   *)
(* and the client does, perhaps after the provider acted.                  *)
AnswerOther ==
    /\ \/ wire = Asked /\ wire' \in Limits
       \/ wire \in {Asked, Verdict[grant]} /\ wire' \in Noise
    /\ noisy' = (noisy \/ wire' \in Noise)
    /\ UNCHANGED <<now, end, pc, ticker, sentAt, grant, outcome, approvedAt,
                   asks, askedAt>>

Decides ==
    /\ pc \in {"show", "poll"} /\ grant = "pending"
    /\ grant' \in {"approved", "denied", "expired"}
    /\ approvedAt' = now
    /\ UNCHANGED <<now, end, pc, ticker, wire, sentAt, outcome, asks, askedAt, noisy>>

(* Nothing that can happen at once waits for the clock.                    *)
Tick ==
    /\ pc \in {"show", "poll"} /\ now < end
    /\ ~(Idle /\ due)
    /\ wire # None => now < sentAt + RequestTimeout
    /\ now' = now + 1
    /\ IF pc = "poll" /\ now' = next
       THEN due' = TRUE /\ next' = next + interval
       ELSE UNCHANGED <<due, next>>
    /\ UNCHANGED <<end, pc, interval, wire, sentAt, grant, outcome, ghosts>>

Client ==
    \/ AsksForCode \/ StartFails \/ Shown \/ Poll
    \/ GoesOn \/ LogsIn \/ Fails
    \/ RequestTimesOut \/ ContextEnds

Next == Client \/ Answer \/ AnswerOther \/ Decides \/ Tick

(* The client takes its steps, its timer fires, the caller's show returns. *)
Spec == Init /\ [][Next]_vars /\ WF_vars(Client) /\ WF_vars(Tick)

-----------------------------------------------------------------------------
(* Every variable has its type.                                            *)
TypeOK ==
    /\ {now, next, sentAt, approvedAt, asks, askedAt} \subseteq Nat
    /\ end \in Ends /\ interval \in Interval..(Interval + asks)
    /\ pc \in {"start", "show", "poll", "done"}
    /\ due \in BOOLEAN /\ noisy \in BOOLEAN
    /\ wire \in Answers \union {Asked, None}
    /\ grant \in DOMAIN Verdict
    /\ outcome \in {"none", "token", "error", "unanswered", "context"}

(* A login ends without a token, before its context does, only where the   *)
(* user refused or the code expired, or where something stood in for the   *)
(* login server: no rate limit, in any of its forms and between any two    *)
(* polls, costs an approval.  (backOffAsSlowDown.)                         *)
EndsOnlyOnVerdict ==
    outcome = "error" /\ ~noisy => grant \in {"denied", "expired"}

(* No poll is sent sooner than five seconds for every answer so far that   *)
(* asked to wait, and the provider's own interval, after the last such     *)
(* answer, though the ticker may have run on while that was under way.     *)
(* (backOffAsSlowDown; RFC 8628 section 3.5.)                              *)
BacksOff ==
    [][wire = None /\ wire' = Asked => now >= askedAt + Interval + asks]_vars

(* The interval that only grows still fetches an approval: the context     *)
(* ends over one only if less than an interval and two requests was left   *)
(* when the user approved, or when the last answer asked to wait.          *)
(* (pollForApproval.)                                                      *)
ApprovalFetched ==
    outcome = "context" /\ grant \in {"approved", "issued"} =>
        \E t \in {approvedAt, askedAt} :
            end - t <= Interval + asks + 2 * RequestTimeout

(* The ticker: as long as the provider asked for, and never early.         *)
TickerInv ==
    /\ interval = Interval + asks
    /\ pc \in {"start", "show"} => ~due /\ wire = None
    /\ pc = "done" => wire = None
    /\ pc # "done" => outcome = "none"
    /\ pc = "poll" =>
          /\ now < next /\ next <= now + interval
          /\ askedAt + interval <= next
          /\ due => askedAt + interval <= now
    /\ askedAt <= now
    /\ wire # None => sentAt <= now /\ now <= sentAt + RequestTimeout

(* An answer of the login server is what became of the code.               *)
AnswerInv ==
    /\ wire \in Answers /\ ~noisy =>
          \/ wire \in Limits \union {Verdict.pending, Verdict.approved}
          \/ wire = Verdict[grant]
    /\ wire = Verdict.pending /\ grant # "pending" => sentAt <= approvedAt

(* Of an approved code: since the approval, or the last answer that asked  *)
(* to wait, the poll at hand is over, or was sent, in time.                *)
Since(time, span) == \E t \in {approvedAt, askedAt} : time <= t + span
ApprovalInv ==
    pc = "poll" /\ grant \in {"approved", "issued"} =>
        IF wire # None THEN Since(sentAt, interval + RequestTimeout)
        ELSE Since(IF due THEN now ELSE next, interval + RequestTimeout)

(* The inductive invariant.                                                *)
LoginInv ==
    /\ TypeOK /\ now <= end
    /\ TickerInv /\ AnswerInv /\ ApprovalInv
    /\ EndsOnlyOnVerdict /\ ApprovalFetched

(* Login returns, whatever is answered, or never: every request is         *)
(* bounded, and the poll by the code's expiry or the context.  (Login.)    *)
LoginReturns == pc = "show" ~> pc = "done"

(* "A device login still waits for approval as long as its context allows, *)
(* because the bound is per request" (doc.go); "The poll stops only on the *)
(* provider's answer or the context ending" (README.md).                   *)
WaitsAsLongAsItsContext == outcome = "unanswered" => now >= end
=============================================================================
