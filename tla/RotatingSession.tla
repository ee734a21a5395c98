-------------------------- MODULE RotatingSession --------------------------
(***************************************************************************)
(* What the processes of one machine promise together: one session, whose  *)
(* token is replaced by its successor in one step, by one process at a     *)
(* time, as if nobody else ran.  TokenRefresh implements it for as long as *)
(* no refresh is cut short; after one, nothing is promised here.           *)
(***************************************************************************)
EXTENDS Integers

CONSTANTS Procs, MaxGrants, MaxSeq

Tokens == [grant : 1..MaxGrants, seq : 0..MaxSeq]
NoToken == [grant |-> 0, seq |-> 0]
Successor(t) == [t EXCEPT !.seq = @ + 1]

VARIABLES
    broken,      \* a refresh was cut short
    stored,      \* the machine's token
    held,        \* what each process has of it
    refreshing,  \* the process at a refresh, if any
    login,       \* a token just approved, not yet stored
    grants,      \* logins so far
    live,        \* the rotation of each grant that the provider honours
    expired      \* tokens that are no longer valid

vars == <<broken, stored, held, refreshing, login, grants, live, expired>>

Init ==
    /\ broken = FALSE
    /\ stored = NoToken /\ login = NoToken
    /\ held = [p \in Procs |-> NoToken]
    /\ refreshing = {}
    /\ grants = 0
    /\ live = [g \in 1..MaxGrants |-> 0]
    /\ expired = {}

(* Logins and logouts come and go beside everything else.                  *)
Approve ==
    /\ login = NoToken
    /\ grants' = grants + 1
    /\ login' = [grant |-> grants + 1, seq |-> 0]
    /\ UNCHANGED <<stored, held, refreshing, live, expired>>

LoginEnds ==
    /\ login # NoToken /\ login' = NoToken
    /\ stored' \in {stored, login}
    /\ UNCHANGED <<held, refreshing, grants, live, expired>>

Logout ==
    /\ stored' = NoToken
    /\ UNCHANGED <<held, refreshing, login, grants, live, expired>>

(* A process takes the stored token, or ends, at a refresh or not.         *)
Opens(p) ==
    /\ held[p] = NoToken /\ stored # NoToken
    /\ held' = [held EXCEPT ![p] = stored]
    /\ UNCHANGED <<stored, refreshing, login, grants, live, expired>>

Closes(p) ==
    /\ held' = [held EXCEPT ![p] = NoToken]
    /\ refreshing' = refreshing \ {p}
    /\ UNCHANGED <<stored, login, grants, live, expired>>

(* Holding an expired token, it takes the one that somebody else stored    *)
(* since, or, where that has expired too, sets out to refresh it.          *)
Looks(p) ==
    /\ refreshing = {} /\ held[p] \in expired /\ stored # NoToken
    /\ held' = [held EXCEPT ![p] = stored]
    /\ refreshing' = IF stored \in expired THEN {p} ELSE {}
    /\ UNCHANGED <<stored, login, grants, live, expired>>

(* The refresh: the provider honours the token, replaces it by its         *)
(* successor, and that is what the machine has from then on.               *)
Refreshes(p) ==
    LET t == held[p] IN
    /\ p \in refreshing /\ refreshing' = {}
    /\ t.seq = live[t.grant]
    /\ live' = [live EXCEPT ![t.grant] = @ + 1]
    /\ held' = [held EXCEPT ![p] = Successor(t)]
    /\ stored' = Successor(t)
    /\ UNCHANGED <<login, grants, expired>>

GivesUp(p) ==
    /\ p \in refreshing /\ refreshing' = {}
    /\ UNCHANGED <<stored, held, login, grants, live, expired>>

Expires(t) ==
    /\ expired' = expired \union {t}
    /\ UNCHANGED <<stored, held, refreshing, login, grants, live>>

Step ==
    \/ Approve \/ LoginEnds \/ Logout
    \/ \E p \in Procs :
          Opens(p) \/ Closes(p) \/ Looks(p) \/ Refreshes(p) \/ GivesUp(p)
    \/ \E t \in Tokens : Expires(t)

Next == IF broken THEN broken' ELSE broken' \/ Step

Spec == Init /\ [][Next]_vars
=============================================================================
