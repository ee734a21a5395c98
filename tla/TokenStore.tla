------------------------------ MODULE TokenStore ------------------------------
(***************************************************************************)
(* TokenStore (src/store.go) with the two stores behind it: the OS keyring *)
(* and the fallback file token.json (src/filestore.go), and the attribution *)
(* of keyring failures (src/keyringerr.go) that decides between them.      *)
(*                                                                         *)
(* Callers are processes of one user on one machine.  Save, Load and       *)
(* Delete take no lock: each is a keyring operation, then a read of the    *)
(* whole file, then a replacement of the whole file.  What the keyring     *)
(* answers depends on the session of the caller (a desktop, an SSH login,  *)
(* a service without D-Bus) and on the moment.                             *)
(***************************************************************************)
EXTENDS Integers

CONSTANTS
    Clients,   \* client ids with an entry in both stores
    Callers,   \* processes that call Save, Load and Delete
    Hosts,     \* the hosts to consider
    MayBreak,  \* whether the file may be damaged, and callers die
    MaxSaves   \* bound: calls of Save

KeyringStates == {"open", "locked", "refusing", "absent"}

(* A host: runtime.GOOS, whether there is a state directory for the file,  *)
(* what the keyring may be for a caller, the client ids used on it.        *)
HostType == [goos : {"darwin", "linux"}, dir : BOOLEAN,
             reach : SUBSET KeyringStates, clients : SUBSET Clients]

ASSUME ConstantsAssumption ==
    /\ Hosts \subseteq HostType
    /\ \A h \in Hosts : h.reach # {}
    /\ MayBreak \in BOOLEAN
    /\ MaxSaves \in Nat

(* The n-th token saved on the machine is n; 0 is no token.                *)
Stored == 1..MaxSaves
Maybe == 0..MaxSaves
NoTokens == [k \in Clients |-> 0]

VARIABLES
    host,      \* the host, which stays the same
    keyring,   \* the keyring's entries
    file,      \* the entries of token.json
    damaged,   \* token.json does not parse
    reach,     \* what the keyring is for each caller
    pc,        \* where each caller is in its operation
    call,      \* the operation: what, on which client, with which token
    snap,      \* the entries a caller read from the file
    keyringErr,\* what the keyring answered
    answer,    \* the outcome of a caller's last operation
    value,     \* the token that outcome returned
    saves,     \* tokens saved or being saved so far
    latest,    \* ghost: what the last write left, per client
    seen,      \* ghost: what latest was while a caller's Load ran
    held       \* ghost: what the stores held when a Delete began

storeVars == <<keyring, file, damaged>>
hostVars == <<host, reach>>
callVars == <<pc, call, snap, keyringErr, answer, value>>
ghostVars == <<latest, seen, held>>
vars == <<storeVars, callVars, hostVars, saves, ghostVars>>

NoCall == [op |-> "none", client |-> "none", token |-> 0]

Init ==
    /\ keyring = NoTokens
    /\ file = NoTokens
    /\ damaged = FALSE
    /\ host \in Hosts
    /\ reach \in [Callers -> host.reach]
    /\ pc = [c \in Callers |-> "idle"]
    /\ call = [c \in Callers |-> NoCall]
    /\ snap = [c \in Callers |-> NoTokens]
    /\ keyringErr = [c \in Callers |-> "nil"]
    /\ answer = [c \in Callers |-> "none"]
    /\ value = [c \in Callers |-> 0]
    /\ saves = 0
    /\ latest = NoTokens
    /\ seen = [c \in Callers |-> {}]
    /\ held = [c \in Callers |-> {}]

Client(c) == call[c].client
Running(c, op) == pc[c] # "idle" /\ call[c].op = op

-----------------------------------------------------------------------------
(* Ghost: the effect of a write on client k is that its token is v now.    *)
Committed(k, v) ==
    /\ latest' = [latest EXCEPT ![k] = v]
    /\ seen' = [d \in Callers |->
                  IF Running(d, "Load") /\ Client(d) = k
                  THEN seen[d] \union {v} ELSE seen[d]]
    /\ UNCHANGED held

Goto(c, label) ==
    /\ pc' = [pc EXCEPT ![c] = label]
    /\ UNCHANGED <<call, answer, value>>

(* The operation returns: what it answers, and the token it found.         *)
Returns(c, a, v) ==
    /\ pc' = [pc EXCEPT ![c] = "idle"]
    /\ answer' = [answer EXCEPT ![c] = a]
    /\ value' = [value EXCEPT ![c] = v]
    /\ snap' = [snap EXCEPT ![c] = NoTokens]
    /\ keyringErr' = [keyringErr EXCEPT ![c] = "nil"]
    /\ UNCHANGED call

Begin(c, op, k) ==
    /\ pc[c] = "idle"
    /\ op = "Save" => saves < MaxSaves
    /\ saves' = IF op = "Save" THEN saves + 1 ELSE saves
    /\ pc' = [pc EXCEPT ![c] = "keyring"]
    /\ call' = [call EXCEPT ![c] = [op |-> op, client |-> k,
                    token |-> IF op = "Save" THEN saves + 1 ELSE 0]]
    /\ answer' = [answer EXCEPT ![c] = "none"]
    /\ value' = [value EXCEPT ![c] = 0]
    /\ seen' = [seen EXCEPT ![c] = IF op = "Load" THEN {latest[k]} ELSE {}]
    /\ held' = [held EXCEPT ![c] = IF op = "Delete"
                                   THEN {keyring[k], file[k]} \ {0} ELSE {}]
    /\ UNCHANGED <<storeVars, snap, keyringErr, hostVars, latest>>

-----------------------------------------------------------------------------
(* The keyring's half.  A macOS failure is one of a keyring that exists;   *)
(* anywhere else it is not attributed.                                     *)

Open(c) == reach[c] = "open"
Has(c) == Open(c) /\ keyring[Client(c)] # 0

(* The entry of the caller's client is v from now on, or gone.             *)
Put(c, v) ==
    /\ keyring' = [keyring EXCEPT ![Client(c)] = v]
    /\ Committed(Client(c), v)
Drop(c) == Has(c) /\ Put(c, 0)

\* Faulty variant: the cause stands where the error was.
Miss_Cause(c) == reach[c]
Miss(c) == IF Open(c) THEN "notFound" ELSE "failed"

diagnoseKeyring(r) ==
    IF host.goos # "darwin" THEN "unattributed"
    ELSE IF r = "locked" THEN "locked" ELSE "refused"
\* Faulty variant: a keychain that refuses is taken for an absent one.
keyringPresent_LockedOnly(cause) == cause = "locked"
keyringPresent(cause) == cause \in {"locked", "refused"}

KeyringSet(c) ==
    /\ Running(c, "Save") /\ pc[c] = "keyring"
    /\ Open(c) /\ Put(c, call[c].token)
    /\ Returns(c, "keyring", 0)
    /\ UNCHANGED <<file, damaged, hostVars, saves>>

KeyringSetRefused(c) ==
    /\ Running(c, "Save") /\ pc[c] = "keyring"
    /\ ~Open(c) /\ keyringPresent(diagnoseKeyring(reach[c]))
    /\ Returns(c, "refused", 0)
    /\ UNCHANGED <<storeVars, hostVars, saves, ghostVars>>

KeyringSetFallsBack(c) ==
    /\ Running(c, "Save") /\ pc[c] = "keyring"
    /\ ~Open(c) /\ ~keyringPresent(diagnoseKeyring(reach[c]))
    /\ Goto(c, "load")
    /\ UNCHANGED <<storeVars, snap, keyringErr, hostVars, saves, ghostVars>>

KeyringGet(c) ==
    /\ Running(c, "Load") /\ pc[c] = "keyring"
    /\ Has(c) /\ Returns(c, "token", keyring[Client(c)])
    /\ UNCHANGED <<storeVars, hostVars, saves, ghostVars>>

KeyringDelete(c) ==
    /\ Running(c, "Delete") /\ pc[c] = "keyring"
    /\ Drop(c)
    /\ Goto(c, "load")
    /\ UNCHANGED <<file, damaged, snap, keyringErr, hostVars, saves>>

(* Get and Delete go on to the file whether the entry is not there or the  *)
(* keyring fails.                                                          *)
KeyringMisses(c) ==
    /\ call[c].op \in {"Load", "Delete"} /\ pc[c] = "keyring"
    /\ ~Has(c)
    /\ keyringErr' = [keyringErr EXCEPT ![c] = Miss(c)]
    /\ Goto(c, "load")
    /\ UNCHANGED <<storeVars, snap, hostVars, saves, ghostVars>>

-----------------------------------------------------------------------------
(* The file's half: fileStore.load, then fileStore.write.                  *)

Readable == host.dir /\ ~damaged

(* What Load answers when neither store has the token; both answers are    *)
(* ErrNotLoggedIn, but "blocked" carries the keyring's reason.             *)
NothingFound(c) == IF keyringErr[c] = "failed" THEN "blocked" ELSE "notLoggedIn"

(* What Delete answers once the file's half ended with or without a token. *)
\* Faulty variant: success whatever the two stores said.
DeleteAnswer_Always(c, fileHeldIt) == "deleted"
DeleteAnswer(c, fileHeldIt) ==
    IF keyringErr[c] = "nil" \/ fileHeldIt THEN "deleted" ELSE "notLoggedIn"

\* Faulty variant: a file that does not parse is an empty one.
Entry_CorruptIsEmpty(c) == IF Readable THEN {file[Client(c)]} ELSE {0}
(* The entry, or none, that fileStore.Get finds; nothing if it fails.      *)
Entry(c) ==
    IF ~host.dir THEN {0} ELSE IF damaged THEN {} ELSE {file[Client(c)]}

LoadFile(c) ==
    /\ Running(c, "Load") /\ pc[c] = "load"
    /\ \E t \in Entry(c) : Returns(c, IF t # 0 THEN "token" ELSE NothingFound(c), t)
    /\ UNCHANGED <<storeVars, hostVars, saves, ghostVars>>

DeleteFileMisses(c) ==
    /\ Running(c, "Delete") /\ pc[c] = "load"
    /\ 0 \in Entry(c)
    /\ Returns(c, DeleteAnswer(c, FALSE), 0)
    /\ UNCHANGED <<storeVars, hostVars, saves, ghostVars>>

ReadsEntries(c) ==
    /\ pc[c] = "load" /\ call[c].op # "Load"
    /\ Readable
    /\ call[c].op = "Delete" => 0 \notin Entry(c)
    /\ snap' = [snap EXCEPT ![c] = file]
    /\ Goto(c, "write")
    /\ UNCHANGED <<storeVars, keyringErr, hostVars, saves, ghostVars>>

(* No state directory to save in, a file that does not parse, a read or    *)
(* write that fails: the file stays as it is.                              *)
FileFails(c) ==
    /\ pc[c] \in {"load", "write"}
    /\ ~host.dir => call[c].op = "Save"
    /\ Returns(c, "error", 0)
    /\ UNCHANGED <<storeVars, hostVars, saves, ghostVars>>

(* os.Rename: what was read, with one entry set or deleted, replaces all.  *)
Renames(c) ==
    LET k == Client(c) IN
    /\ pc[c] = "write"
    /\ file' = [snap[c] EXCEPT ![k] = call[c].token]
    /\ damaged' = FALSE
    /\ Committed(k, call[c].token)
    /\ Returns(c, IF call[c].op = "Save" THEN "file" ELSE DeleteAnswer(c, TRUE), 0)
    /\ UNCHANGED <<keyring, hostVars, saves>>

-----------------------------------------------------------------------------
(* The machine around it.                                                  *)

Dies(c) ==
    /\ MayBreak
    /\ pc[c] # "idle"
    /\ Returns(c, "none", 0)
    /\ UNCHANGED <<storeVars, hostVars, saves, ghostVars>>

ReachChanges(c) ==
    /\ \E r \in host.reach \ {reach[c]} : reach' = [reach EXCEPT ![c] = r]
    /\ UNCHANGED <<host, storeVars, callVars, saves, ghostVars>>

(* Somebody edits token.json into something else, then removes it.         *)
FileDamaged ==
    /\ MayBreak /\ host.dir
    /\ ~damaged /\ file # NoTokens
    /\ damaged' = TRUE
    /\ UNCHANGED <<keyring, file, callVars, hostVars, saves, ghostVars>>

FileRemoved ==
    /\ damaged
    /\ damaged' = FALSE
    /\ file' = NoTokens
    /\ latest' = keyring
    /\ seen' = [c \in Callers |->
                  IF Running(c, "Load") THEN seen[c] \union {keyring[Client(c)]}
                  ELSE seen[c]]
    /\ UNCHANGED <<keyring, callVars, hostVars, saves, held>>

KeyringStep(c) ==
    \/ KeyringSet(c) \/ KeyringSetRefused(c) \/ KeyringSetFallsBack(c)
    \/ KeyringGet(c) \/ KeyringDelete(c) \/ KeyringMisses(c)

FileStep(c) ==
    \/ LoadFile(c) \/ DeleteFileMisses(c)
    \/ ReadsEntries(c) \/ FileFails(c) \/ Renames(c)

Next ==
    \/ \E c \in Callers :
          \/ \E op \in {"Save", "Load", "Delete"}, k \in host.clients : Begin(c, op, k)
          \/ KeyringStep(c) \/ FileStep(c)
          \/ Dies(c) \/ ReachChanges(c)
    \/ FileDamaged \/ FileRemoved

Spec == Init /\ [][Next]_vars

-----------------------------------------------------------------------------
(* Every variable has its type.                                            *)
TypeOK ==
    /\ keyring \in [Clients -> Maybe] /\ file \in [Clients -> Maybe]
    /\ damaged \in BOOLEAN
    /\ host \in Hosts
    /\ reach \in [Callers -> host.reach]
    /\ pc \in [Callers -> {"idle", "keyring", "load", "write"}]
    /\ call \in [Callers ->
          [op : {"none", "Save", "Load", "Delete"},
           client : Clients \union {"none"}, token : Maybe]]
    /\ \A c \in Callers : pc[c] # "idle" => Client(c) \in Clients
    /\ snap \in [Callers -> [Clients -> Maybe]]
    /\ keyringErr \in [Callers -> {"nil", "notFound", "failed"}]
    /\ answer \in [Callers -> {"none", "keyring", "file", "refused", "error",
                               "token", "blocked", "deleted", "notLoggedIn"}]
    /\ value \in [Callers -> Maybe]
    /\ saves \in Maybe
    /\ latest \in [Clients -> Maybe]
    /\ seen \in [Callers -> SUBSET Maybe]
    /\ held \in [Callers -> SUBSET Maybe]

(* The refinement of TokenCell: what an answer is to a user of the cell.   *)
Told(a) ==
    CASE a \in {"keyring", "file"} -> "saved"
      [] a \in {"refused", "error"} -> "failed"
      [] a = "blocked" -> IF "open" \in host.reach THEN "failed" ELSE "notLoggedIn"
      [] OTHER -> a

Held == [k \in Clients |-> IF keyring[k] # 0 THEN keyring[k] ELSE file[k]]
Busy == {c \in Callers : pc[c] # "idle"}
Deleted == {c \in Busy : /\ call[c].op = "Delete" /\ pc[c] # "keyring"
                         /\ keyringErr[c] = "nil"}
Results == [c \in Callers |-> [answer |-> Told(answer[c]), token |-> value[c]]]

Cell == INSTANCE TokenCell WITH
            cell <- Held, running <- Busy, done <- Deleted, result <- Results

(* Where one store is in use the two are one cell: what the keyring holds, *)
(* or else the file, though a save or a deletion is several steps of it,   *)
(* others come between them, and callers die halfway.  (Save, Load,        *)
(* Delete; that the keyring wins.)                                         *)
ImplementsTokenCell == Cell!Spec

Answered(c, op, a) == pc[c] = "idle" /\ call[c].op = op /\ answer[c] = a

Current(c) ==
    /\ Answered(c, "Load", "token") => value[c] \in seen[c]
    /\ Answered(c, "Load", "notLoggedIn") => 0 \in seen[c]
    /\ Answered(c, "Load", "blocked") /\ "open" \notin host.reach => 0 \in seen[c]

(* Load answers what some write left while it ran: a token that a later    *)
(* Save replaced, or that a Delete removed, before Load began is never     *)
(* returned, and a stored token is never reported as not logged in, but    *)
(* for a reason the keyring gave; so the token one process saves is the    *)
(* one every other goes on to use.  (Save, Load.)                          *)
LoadReturnsLatest == \A c \in Callers : Current(c)

(* When Delete answers success, no token that a store held for the client  *)
(* when it began is in either store: logging out forgets the token, in     *)
(* both stores.  (Delete.)                                                 *)
DeleteForgets ==
    [][\A c \in Callers :
          ~Answered(c, "Delete", "deleted") /\ Answered(c, "Delete", "deleted")'
          => {keyring'[Client(c)], file'[Client(c)]} \intersect held[c] = {}]_vars

(* On macOS no token is ever written in plaintext, whatever the keychain   *)
(* answers and however often it is locked and unlocked between two steps.  *)
(* (Save, diagnoseKeyring.)                                                *)
NoPlaintextOnDarwin == host.goos = "darwin" => file = NoTokens

(* The hosts on which one store is in use: a Mac, one without a state      *)
(* directory, one whose keyring never opens and that has one client id.    *)
FileUnused(h) == h.goos = "darwin" \/ ~h.dir
OneStore(h) ==
    FileUnused(h) \/ ("open" \notin h.reach /\ \A j, k \in h.clients : j = k)

(* What a caller in an operation knows of it, by where it is.              *)
CallInv(c) ==
    pc[c] # "idle" =>
        /\ call[c].op # "none" /\ Client(c) \in host.clients
        /\ (call[c].op = "Save") <=> (call[c].token # 0)
        /\ pc[c] # "keyring" /\ call[c].op = "Save" => host.goos # "darwin"
        /\ pc[c] # "keyring" /\ call[c].op # "Save" /\ ~FileUnused(host)
             => keyringErr[c] = "failed"
        /\ Running(c, "Load") =>
              /\ pc[c] # "write" /\ Held[Client(c)] \in seen[c]
              /\ pc[c] = "load" =>
                    \/ keyringErr[c] = "failed"
                    \/ keyringErr[c] = "notFound" /\ 0 \in seen[c]

(* The inductive invariant: on a host with one store the ghost is what the *)
(* store holds, the other store stays empty, and so does every entry of a  *)
(* client id that is not in use.                                           *)
OneStoreInv ==
    /\ \A c \in Callers : CallInv(c)
    /\ "open" \notin host.reach => keyring = NoTokens
    /\ FileUnused(host) => file = NoTokens /\ \A c \in Callers : pc[c] # "write"
    /\ \A k \in Clients \ host.clients :
          file[k] = 0 /\ \A c \in Callers : snap[c][k] = 0
    /\ latest = Held
    /\ LoadReturnsLatest

(* What a logout on such a host rests on: a token is saved once, so where  *)
(* the keyring dropped an entry of the time a Delete began, whatever a     *)
(* Save has put there since is another.                                    *)
ForgetInv ==
    /\ \A c \in Callers : 0 \notin held[c]
    /\ FileUnused(host) =>
          /\ \A c \in Callers : held[c] \subseteq 1..saves
          /\ \A k \in Clients : keyring[k] \in 0..saves
          /\ \A c \in Callers : Running(c, "Save") =>
                /\ call[c].token \in 1..saves
                /\ \A k \in Clients : keyring[k] # call[c].token
                /\ \A d \in Callers :
                      /\ call[c].token \notin held[d]
                      /\ Running(d, "Save") /\ d # c => call[d].token # call[c].token
          /\ \A c \in Callers :
                Running(c, "Delete") /\ pc[c] = "load" /\ keyringErr[c] = "nil" =>
                    keyring[Client(c)] \notin held[c]
StoreInv == TypeOK /\ (OneStore(host) => OneStoreInv /\ ForgetInv)
=============================================================================
