------------------------------- MODULE TokenCell -------------------------------
(***************************************************************************)
(* What a TokenStore promises where one store is in use: a cell per client *)
(* id.  A save and a deletion take effect in one step; a load answers what *)
(* the cell held at some moment while it ran.  TokenRefresh and Deployment *)
(* use the store as such a cell.                                           *)
(***************************************************************************)
EXTENDS Integers

CONSTANTS Clients, Callers, MaxSaves

VARIABLES
    cell,     \* each client's token, 0 for none
    running,  \* callers in an operation
    done,     \* of them, those whose deletion has taken effect
    call,     \* the operation of each: what, on which client, which token
    seen,     \* what the cell held while a load ran
    result    \* what the operation answered, with the token of a load

vars == <<cell, running, done, call, seen, result>>

Answer(a, t) == [answer |-> a, token |-> t]
Client(c) == call[c].client
Loads(c) == c \in running /\ call[c].op = "Load"

Init ==
    /\ cell = [k \in Clients |-> 0]
    /\ running = {} /\ done = {}
    /\ call = [c \in Callers |-> [op |-> "none", client |-> "none", token |-> 0]]
    /\ seen = [c \in Callers |-> {}]
    /\ result = [c \in Callers |-> Answer("none", 0)]

Begin(c) ==
    /\ c \notin running /\ running' = running \union {c}
    /\ \E op \in {"Save", "Load", "Delete"}, k \in Clients, t \in 0..MaxSaves :
          /\ (op = "Save") <=> (t # 0)
          /\ call' = [call EXCEPT ![c] = [op |-> op, client |-> k, token |-> t]]
          /\ seen' = [seen EXCEPT ![c] = IF op = "Load" THEN {cell[k]} ELSE {}]
    /\ result' = [result EXCEPT ![c] = Answer("none", 0)]
    /\ UNCHANGED <<cell, done>>

Returns(c, a, t) ==
    /\ c \in running /\ running' = running \ {c} /\ done' = done \ {c}
    /\ result' = [result EXCEPT ![c] = Answer(a, t)]
    /\ UNCHANGED call

(* The cells change, and the loads that run see it.                        *)
Holds(values) ==
    /\ cell' = values
    /\ seen' = [c \in Callers |->
                  IF Loads(c) THEN seen[c] \union {values[Client(c)]} ELSE seen[c]]

Effect(c) == Holds([cell EXCEPT ![Client(c)] = call[c].token])

Save(c) ==
    /\ call[c].op = "Save"
    /\ Effect(c) /\ Returns(c, "saved", 0)

(* A deletion may answer later than it takes effect.                       *)
Delete(c) ==
    /\ call[c].op = "Delete" /\ c \in running \ done
    /\ Effect(c)
    /\ \/ Returns(c, "deleted", 0)
       \/ done' = done \union {c} /\ UNCHANGED <<running, call, result>>

(* "deleted" is the answer of one that took effect, "not logged in" of one *)
(* that did nothing.                                                       *)
DeleteReturns(c) ==
    /\ call[c].op = "Delete"
    /\ Returns(c, IF c \in done THEN "deleted" ELSE "notLoggedIn", 0)
    /\ UNCHANGED <<cell, seen>>

Load(c) ==
    /\ call[c].op = "Load"
    /\ \E t \in seen[c] : Returns(c, IF t = 0 THEN "notLoggedIn" ELSE "token", t)
    /\ UNCHANGED <<cell, seen>>

(* An error, which a save that did not take effect ends in too; or the     *)
(* caller died.                                                            *)
Fails(c) ==
    /\ \E a \in {"failed", "none"} : Returns(c, a, 0)
    /\ UNCHANGED <<cell, seen>>

(* Somebody removes the store's entries.                                   *)
Lost ==
    /\ \E lost \in SUBSET Clients :
          Holds([k \in Clients |-> IF k \in lost THEN 0 ELSE cell[k]])
    /\ UNCHANGED <<running, done, call, result>>

Next ==
    \/ \E c \in Callers :
          Begin(c) \/ Save(c) \/ Delete(c) \/ DeleteReturns(c) \/ Load(c) \/ Fails(c)
    \/ Lost

Spec == Init /\ [][Next]_vars
=============================================================================
