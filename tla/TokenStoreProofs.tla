--------------------------- MODULE TokenStoreProofs ---------------------------
(***************************************************************************)
(* Proofs about TokenStore, for every set of hosts, clients and callers.   *)
(***************************************************************************)
EXTENDS TokenStore, TLAPS

Answers == {"none", "keyring", "file", "refused", "error",
            "token", "blocked", "deleted", "notLoggedIn"}

(* The types of a caller's variables.                                      *)
LEMMA CallerFacts ==
    ASSUME TypeOK, NEW c \in Callers
    PROVE  /\ call[c].op \in {"none", "Save", "Load", "Delete"}
           /\ call[c].client \in Clients \union {"none"}
           /\ call[c].token \in Maybe
           /\ pc[c] # "idle" => Client(c) \in Clients
  BY DEF TypeOK

(* What Returns and Committed do to the types.                             *)
LEMMA ReturnsType ==
    ASSUME TypeOK, NEW c \in Callers, NEW a \in Answers, NEW v \in Maybe,
           Returns(c, a, v)
    PROVE  /\ pc' \in [Callers -> {"idle", "keyring", "load", "write"}]
           /\ call' \in [Callers ->
                [op : {"none", "Save", "Load", "Delete"},
                 client : Clients \union {"none"}, token : Maybe]]
           /\ snap' \in [Callers -> [Clients -> Maybe]]
           /\ keyringErr' \in [Callers -> {"nil", "notFound", "failed"}]
           /\ answer' \in [Callers -> Answers]
           /\ value' \in [Callers -> Maybe]
           /\ \A d \in Callers : pc'[d] # "idle" => Client(d)' \in Clients
<1>1. NoTokens \in [Clients -> Maybe]
  BY ConstantsAssumption DEF NoTokens, Maybe
<1> QED BY <1>1 DEF TypeOK, Returns, Answers, Client

LEMMA CommittedType ==
    ASSUME TypeOK, NEW k, NEW v \in Maybe, Committed(k, v)
    PROVE  /\ latest' \in [Clients -> Maybe]
           /\ seen' \in [Callers -> SUBSET Maybe]
           /\ held' \in [Callers -> SUBSET Maybe]
  BY DEF TypeOK, Committed

(* Every step keeps the types.                                             *)
LEMMA TypeStep == ASSUME TypeOK, [Next]_vars PROVE TypeOK'
<1>0. 0 \in Maybe /\ NoTokens \in [Clients -> Maybe]
  BY ConstantsAssumption DEF Maybe, NoTokens
<1>1. ASSUME NEW c \in Callers, NEW op \in {"Save", "Load", "Delete"},
             NEW k \in host.clients, Begin(c, op, k)
      PROVE TypeOK'
  <2>1. k \in Clients BY ConstantsAssumption DEF HostType, TypeOK
  <2>2. saves' \in Maybe /\ (op = "Save" => saves + 1 \in Maybe)
    BY <1>1, ConstantsAssumption DEF Begin, TypeOK, Maybe
  <2>3. call' \in [Callers -> [op : {"none", "Save", "Load", "Delete"},
                               client : Clients \union {"none"}, token : Maybe]]
    <3> DEFINE new == [op |-> op, client |-> k,
                       token |-> IF op = "Save" THEN saves + 1 ELSE 0]
    <3>1. new \in [op : {"none", "Save", "Load", "Delete"},
                   client : Clients \union {"none"}, token : Maybe]
      BY <2>1, <2>2, <1>0
    <3>2. call' = [call EXCEPT ![c] = new] BY <1>1 DEF Begin
    <3> HIDE DEF new
    <3> QED BY <3>1, <3>2 DEF TypeOK
  <2>6. \A d \in Callers : pc'[d] # "idle" => Client(d)' \in Clients
    BY <2>1, <1>1 DEF Begin, TypeOK, Client
  <2>4. /\ pc' \in [Callers -> {"idle", "keyring", "load", "write"}]
        /\ answer' \in [Callers -> Answers]
        /\ value' \in [Callers -> Maybe]
    BY <1>0, <1>1 DEF Begin, TypeOK, Answers
  <2>5. seen' \in [Callers -> SUBSET Maybe] /\ held' \in [Callers -> SUBSET Maybe]
    <3>1. {latest[k]} \subseteq Maybe /\ {keyring[k], file[k]} \ {0} \subseteq Maybe
      BY <2>1 DEF TypeOK
    <3> QED BY <3>1, <1>1 DEF Begin, TypeOK
  <2> QED BY <1>1, <2>2, <2>3, <2>4, <2>5, <2>6
    DEF Begin, TypeOK, Answers, storeVars, hostVars
<1>2. ASSUME NEW c \in Callers, KeyringSet(c) PROVE TypeOK'
  <2>1. Returns(c, "keyring", 0) /\ Put(c, call[c].token) BY <1>2 DEF KeyringSet
  <2> QED
    BY <1>2, <2>1, <1>0, CallerFacts, ReturnsType, CommittedType
    DEF KeyringSet, Put, TypeOK, Answers, hostVars
<1>3. ASSUME NEW c \in Callers, KeyringSetRefused(c) \/ FileFails(c) \/ Dies(c)
      PROVE TypeOK'
  <2>1. \E a \in {"refused", "error", "none"} : Returns(c, a, 0)
    BY <1>3 DEF KeyringSetRefused, FileFails, Dies
  <2> QED
    BY <1>3, <2>1, <1>0, ReturnsType
    DEF KeyringSetRefused, FileFails, Dies, TypeOK, Answers, storeVars, hostVars,
        ghostVars
<1>4. ASSUME NEW c \in Callers, KeyringGet(c) PROVE TypeOK'
  <2>1. keyring[Client(c)] \in Maybe
    BY <1>4, CallerFacts DEF KeyringGet, Running, TypeOK
  <2> QED BY <1>4, <2>1, ReturnsType
    DEF KeyringGet, TypeOK, Answers, storeVars, hostVars, ghostVars
<1>5. ASSUME NEW c \in Callers,
             KeyringSetFallsBack(c) \/ KeyringMisses(c) \/ ReadsEntries(c)
      PROVE TypeOK'
  <2>1. PICK label \in {"load", "write"} : Goto(c, label)
    BY <1>5 DEF KeyringSetFallsBack, KeyringMisses, ReadsEntries
  <2>2. /\ pc' \in [Callers -> {"idle", "keyring", "load", "write"}]
        /\ \A d \in Callers : pc'[d] # "idle" => Client(d)' \in Clients
    BY <1>5, <2>1
    DEF KeyringSetFallsBack, KeyringMisses, ReadsEntries, Goto, TypeOK, Client
  <2>3. /\ snap' \in [Callers -> [Clients -> Maybe]]
        /\ keyringErr' \in [Callers -> {"nil", "notFound", "failed"}]
    BY <1>5 DEF KeyringSetFallsBack, KeyringMisses, ReadsEntries, Miss, TypeOK
  <2> QED BY <1>5, <2>1, <2>2, <2>3
    DEF KeyringSetFallsBack, KeyringMisses, ReadsEntries, Goto, TypeOK, storeVars,
        hostVars, ghostVars
<1>6. ASSUME NEW c \in Callers, KeyringDelete(c) PROVE TypeOK'
  <2>1. Put(c, 0) BY <1>6 DEF KeyringDelete, Drop
  <2>2. /\ latest' \in [Clients -> Maybe]
        /\ seen' \in [Callers -> SUBSET Maybe]
        /\ held' \in [Callers -> SUBSET Maybe]
    BY <2>1, <1>0, CommittedType DEF Put
  <2> QED BY <1>6, <2>1, <2>2, <1>0
    DEF KeyringDelete, Put, Goto, TypeOK, Client, hostVars
<1>7. ASSUME NEW c \in Callers, LoadFile(c) PROVE TypeOK'
  <2>1. PICK t \in Entry(c) :
          Returns(c, IF t # 0 THEN "token" ELSE NothingFound(c), t)
    BY <1>7 DEF LoadFile
  <2>2. t \in Maybe
    BY <1>7, <1>0, CallerFacts DEF LoadFile, Entry, Running, TypeOK
  <2>3. (IF t # 0 THEN "token" ELSE NothingFound(c)) \in Answers
    BY DEF NothingFound, Answers
  <2> QED BY <1>7, <2>1, <2>2, <2>3, ReturnsType
    DEF LoadFile, TypeOK, Answers, storeVars, hostVars, ghostVars
<1>8. ASSUME NEW c \in Callers, DeleteFileMisses(c) PROVE TypeOK'
  BY <1>8, <1>0, ReturnsType
  DEF DeleteFileMisses, DeleteAnswer, TypeOK, Answers, storeVars, hostVars, ghostVars
<1>9. ASSUME NEW c \in Callers, Renames(c) PROVE TypeOK'
  <2>1. PICK a \in {"file", "deleted", "notLoggedIn"} : Returns(c, a, 0)
    BY <1>9 DEF Renames, DeleteAnswer
  <2>2. file' \in [Clients -> Maybe]
    BY <1>9, CallerFacts DEF Renames, TypeOK
  <2>3. /\ latest' \in [Clients -> Maybe]
        /\ seen' \in [Callers -> SUBSET Maybe]
        /\ held' \in [Callers -> SUBSET Maybe]
    BY <1>9, CallerFacts, CommittedType DEF Renames
  <2>4. a \in Answers BY DEF Answers
  <2> QED BY <1>9, <2>1, <2>2, <2>3, <2>4, <1>0, ReturnsType
    DEF Renames, TypeOK, Answers, hostVars
<1>10. ASSUME NEW c \in Callers, ReachChanges(c) PROVE TypeOK'
  BY <1>10 DEF ReachChanges, TypeOK, Client, storeVars, callVars, ghostVars
<1>11. ASSUME FileDamaged PROVE TypeOK'
  BY <1>11 DEF FileDamaged, TypeOK, Client, callVars, hostVars, ghostVars
<1>12. ASSUME FileRemoved PROVE TypeOK'
  <2>1. \A c \in Callers : Running(c, "Load") => keyring[Client(c)] \in Maybe
    BY CallerFacts DEF Running, TypeOK
  <2>2. seen' \in [Callers -> SUBSET Maybe]
    BY <1>12, <2>1 DEF FileRemoved, TypeOK
  <2> QED BY <1>12, <1>0, <2>2 DEF FileRemoved, TypeOK, Client, callVars, hostVars
<1>13. CASE UNCHANGED vars
  BY <1>13 DEF vars, TypeOK, Client, storeVars, callVars, hostVars, ghostVars
<1> QED BY <1>1, <1>2, <1>3, <1>4, <1>5, <1>6, <1>7, <1>8, <1>9, <1>10, <1>11,
       <1>12, <1>13 DEF Next, KeyringStep, FileStep

-----------------------------------------------------------------------------
(* A host with one store.                                                  *)

(* What the store holds is the keyring's entries, or the file's.           *)
LEMMA HeldFacts ==
    ASSUME TypeOK, OneStore(host), OneStoreInv
    PROVE  /\ Held \in [Clients -> Maybe]
           /\ FileUnused(host) => Held = keyring
           /\ ~FileUnused(host) => /\ Held = file /\ keyring = NoTokens
                                  /\ "open" \notin host.reach
           /\ \A c \in Callers : Open(c) => FileUnused(host)
<1>1. Held \in [Clients -> Maybe] BY DEF Held, TypeOK
<1>2. ASSUME FileUnused(host) PROVE Held = keyring
  <2>1. \A k \in Clients : Held[k] = keyring[k]
    BY <1>2 DEF Held, OneStoreInv, NoTokens
  <2> QED BY <2>1, <1>1 DEF TypeOK
<1>3. ASSUME ~FileUnused(host)
      PROVE Held = file /\ keyring = NoTokens /\ "open" \notin host.reach
  <2>1. keyring = NoTokens /\ "open" \notin host.reach
    BY <1>3 DEF OneStoreInv, OneStore
  <2>2. \A k \in Clients : Held[k] = file[k] BY <2>1 DEF Held, NoTokens
  <2> QED BY <2>1, <2>2, <1>1 DEF TypeOK
<1>4. \A c \in Callers : Open(c) => "open" \in host.reach
  BY DEF Open, TypeOK
<1> QED BY <1>1, <1>2, <1>3, <1>4

Writes(c) == KeyringSet(c) \/ KeyringDelete(c) \/ Renames(c)

(* A write changes what the store holds for its client, and nothing else.  *)
LEMMA WriteFacts ==
    ASSUME TypeOK, OneStore(host), OneStoreInv, NEW c \in Callers, Writes(c)
    PROVE  /\ Held' = [Held EXCEPT ![Client(c)] = call[c].token]
           /\ Committed(Client(c), call[c].token)
<1>1. /\ CallInv(c) /\ pc[c] # "idle" /\ Client(c) \in host.clients
      /\ Client(c) \in Clients
  BY CallerFacts
  DEF OneStoreInv, CallInv, Writes, KeyringSet, KeyringDelete, Renames, Running
<1>2. ASSUME KeyringSet(c) \/ KeyringDelete(c)
      PROVE  /\ Held' = [Held EXCEPT ![Client(c)] = call[c].token]
             /\ Committed(Client(c), call[c].token)
  <2>1. Open(c) /\ Put(c, call[c].token) /\ file' = file
    BY <1>1, <1>2 DEF KeyringSet, KeyringDelete, Drop, Has, CallInv, Running
  <2>2. FileUnused(host) /\ Held = keyring BY <2>1, HeldFacts
  <2>3. \A k \in Clients : file'[k] = 0
    BY <2>1, <2>2 DEF OneStoreInv, NoTokens
  <2>4. /\ keyring' = [keyring EXCEPT ![Client(c)] = call[c].token]
        /\ keyring' \in [Clients -> Maybe]
    BY <2>1, CallerFacts DEF Put, TypeOK
  <2>5. \A k \in Clients : Held'[k] = keyring'[k] BY <2>3 DEF Held
  <2>6. Held' = keyring' BY <2>4, <2>5 DEF Held
  <2> QED BY <2>1, <2>2, <2>4, <2>6 DEF Put
<1>3. ASSUME Renames(c)
      PROVE  /\ Held' = [Held EXCEPT ![Client(c)] = call[c].token]
             /\ Committed(Client(c), call[c].token)
  <2>1. pc[c] = "write" BY <1>3 DEF Renames
  <2>2. ~FileUnused(host) BY <2>1 DEF OneStoreInv
  <2>3. Held = file /\ keyring = NoTokens BY <2>2, HeldFacts
  <2>4. \A j \in Clients : j # Client(c) => snap[c][j] = file[j]
    BY <1>1, <2>2 DEF OneStore, OneStoreInv
  <2>5. file' = [snap[c] EXCEPT ![Client(c)] = call[c].token] /\ keyring' = keyring
    BY <1>3 DEF Renames
  <2>6. file' = [file EXCEPT ![Client(c)] = call[c].token]
    BY <2>4, <2>5 DEF TypeOK
  <2>7. \A k \in Clients : Held'[k] = file'[k]
    BY <2>3, <2>5 DEF Held, NoTokens
  <2>8. Held' = file' BY <2>6, <2>7 DEF Held, TypeOK
  <2> QED BY <1>3, <2>3, <2>6, <2>8 DEF Renames
<1> QED BY <1>2, <1>3 DEF Writes

(* Every step keeps the host; one that does not write keeps what the store *)
(* holds, unless it is the file's removal.                                 *)
Reads(c) ==
    \/ KeyringSetRefused(c) \/ KeyringSetFallsBack(c)
    \/ KeyringGet(c) \/ KeyringMisses(c)
    \/ LoadFile(c) \/ DeleteFileMisses(c)
    \/ ReadsEntries(c) \/ FileFails(c) \/ Dies(c)

LEMMA ReadFacts ==
    ASSUME NEW c, Reads(c)
    PROVE  UNCHANGED <<host, reach, keyring, file, Held, saves, latest, seen>>
  BY DEF Reads, KeyringSetRefused, KeyringSetFallsBack, KeyringGet, KeyringMisses,
     LoadFile, DeleteFileMisses, ReadsEntries, FileFails, Dies, Held, storeVars,
     hostVars, ghostVars

(* A step of c, as the other callers see it.                               *)
LEMMA OthersKeep ==
    ASSUME TypeOK, TypeOK', OneStore(host), OneStoreInv, NEW c, host' = host,
           NEW d \in Callers, d # c,
           pc'[d] = pc[d], call'[d] = call[d], keyringErr'[d] = keyringErr[d],
           answer'[d] = answer[d], value'[d] = value[d],
           pc[d] = "idle" => seen'[d] = seen[d],
           Running(d, "Load") =>
                seen[d] \subseteq seen'[d] /\ Held'[Client(d)] \in seen'[d]
    PROVE  CallInv(d)' /\ Current(d)'
<1>1. CallInv(d) /\ Current(d) BY DEF OneStoreInv, LoadReturnsLatest
<1>2. CallInv(d)'
  <2>1. Client(d)' = Client(d) BY DEF Client
  <2> QED BY <1>1, <2>1 DEF CallInv, Running
<1>3. Current(d)' BY <1>1 DEF Current, Answered
<1> QED BY <1>2, <1>3

(* The caller that reads.                                                  *)
LEMMA ReadStep ==
    ASSUME TypeOK, TypeOK', OneStore(host), OneStoreInv, NEW c \in Callers, Reads(c)
    PROVE  CallInv(c)' /\ Current(c)'
<1>0. /\ CallInv(c) /\ Current(c) /\ pc[c] # "idle"
      /\ Client(c) \in Clients /\ Client(c) \in host.clients
      /\ UNCHANGED <<host, reach, keyring, file, Held, latest, seen>>
  <2>1. pc[c] # "idle"
    BY DEF Reads, KeyringSetRefused, KeyringSetFallsBack, KeyringGet, KeyringMisses,
       LoadFile, DeleteFileMisses, ReadsEntries, FileFails, Dies, Running
  <2> QED BY <2>1, ReadFacts, CallerFacts DEF OneStoreInv, LoadReturnsLatest, CallInv
<1>1. ASSUME KeyringSetFallsBack(c) PROVE CallInv(c)' /\ Current(c)'
  <2>1. pc'[c] = "load" /\ call' = call /\ call[c].op = "Save"
    BY <1>1 DEF KeyringSetFallsBack, Goto, TypeOK, Running
  <2>2. host.goos # "darwin"
    BY <1>1 DEF KeyringSetFallsBack, keyringPresent, diagnoseKeyring
  <2> QED BY <1>0, <2>1, <2>2 DEF CallInv, Current, Answered, Running, Client
<1>2. ASSUME KeyringMisses(c) PROVE CallInv(c)' /\ Current(c)'
  <2>1. /\ pc'[c] = "load" /\ call' = call /\ call[c].op \in {"Load", "Delete"}
        /\ keyringErr'[c] = Miss(c)
    BY <1>2 DEF KeyringMisses, Goto, TypeOK
  <2>2. ~FileUnused(host) => Miss(c) = "failed" BY HeldFacts DEF Miss
  <2>3. Open(c) => Held[Client(c)] = 0
    BY <1>0, <1>2, HeldFacts DEF KeyringMisses, Has
  <2>4. Miss(c) = "failed" \/ (Miss(c) = "notFound" /\ Held[Client(c)] = 0)
    BY <2>3 DEF Miss
  <2>5. Running(c, "Load") => Held[Client(c)] \in seen[c] BY <1>0 DEF CallInv
  <2> QED
    BY <1>0, <2>1, <2>2, <2>4, <2>5 DEF CallInv, Current, Answered, Running, Client
<1>3. ASSUME ReadsEntries(c) PROVE CallInv(c)' /\ Current(c)'
  <2>1. /\ pc[c] = "load" /\ pc'[c] = "write" /\ UNCHANGED <<call, keyringErr>>
        /\ call[c].op # "Load"
    BY <1>3 DEF ReadsEntries, Goto, TypeOK
  <2> QED BY <1>0, <2>1 DEF CallInv, Current, Answered, Running, Client
<1>4. ASSUME NEW a \in {"refused", "error", "none"}, Returns(c, a, 0)
      PROVE CallInv(c)' /\ Current(c)'
  BY <1>4 DEF Returns, CallInv, Current, Answered, TypeOK
<1>5. ASSUME DeleteFileMisses(c) PROVE CallInv(c)' /\ Current(c)'
  BY <1>5 DEF DeleteFileMisses, Returns, CallInv, Current, Answered, Running, TypeOK
<1>6. ASSUME KeyringGet(c) PROVE CallInv(c)' /\ Current(c)'
  <2>1. Held[Client(c)] = keyring[Client(c)] /\ Held[Client(c)] \in seen[c]
    BY <1>0, <1>6, HeldFacts DEF KeyringGet, Has, CallInv
  <2> QED BY <1>0, <1>6, <2>1
    DEF KeyringGet, Returns, CallInv, Current, Answered, TypeOK
<1>7. ASSUME LoadFile(c) PROVE CallInv(c)' /\ Current(c)'
  <2>1. PICK t \in Entry(c) :
          Returns(c, IF t # 0 THEN "token" ELSE NothingFound(c), t)
    BY <1>7 DEF LoadFile
  <2>2. /\ Held[Client(c)] \in seen[c]
        /\ keyringErr[c] = "failed" \/ (keyringErr[c] = "notFound" /\ 0 \in seen[c])
    BY <1>0, <1>7 DEF LoadFile, CallInv
  <2>3. t # 0 => t = Held[Client(c)]
    <3>1. CASE FileUnused(host)
      BY <3>1, <1>0 DEF Entry, OneStoreInv, NoTokens
    <3>2. CASE ~FileUnused(host) BY <3>2, HeldFacts DEF Entry, FileUnused
    <3> QED BY <3>1, <3>2
  <2>4. t = 0 /\ "open" \notin host.reach => Held[Client(c)] = 0
    <3>1. CASE FileUnused(host)
      BY <3>1, <1>0, HeldFacts DEF OneStoreInv, NoTokens
    <3>2. CASE ~FileUnused(host) BY <3>2, HeldFacts DEF Entry, FileUnused
    <3> QED BY <3>1, <3>2
  <2>5. /\ pc'[c] = "idle" /\ value'[c] = t
        /\ answer'[c] = IF t # 0 THEN "token" ELSE NothingFound(c)
    BY <2>1 DEF Returns, TypeOK
  <2> QED BY <1>0, <2>2, <2>3, <2>4, <2>5
    DEF CallInv, Current, Answered, NothingFound
<1>8. CASE KeyringSetRefused(c) \/ FileFails(c) \/ Dies(c)
  BY <1>4, <1>8 DEF KeyringSetRefused, FileFails, Dies
<1> QED BY <1>1, <1>2, <1>3, <1>5, <1>6, <1>7, <1>8 DEF Reads

(* The caller that writes, and the one that begins.                        *)
LEMMA WriteStep ==
    ASSUME TypeOK, TypeOK', OneStore(host), OneStoreInv, NEW c \in Callers, Writes(c)
    PROVE  CallInv(c)' /\ Current(c)'
<1>1. ASSUME NEW a \in {"keyring", "file", "deleted", "notLoggedIn"},
             Returns(c, a, 0), call[c].op # "Load"
      PROVE CallInv(c)' /\ Current(c)'
  BY <1>1 DEF Returns, CallInv, Current, Answered, TypeOK
<1>2. CASE KeyringSet(c) BY <1>1, <1>2 DEF KeyringSet, Running
<1>3. CASE Renames(c)
  <2>1. call[c].op # "Load"
    BY <1>3 DEF Renames, OneStoreInv, CallInv, Running
  <2> QED BY <1>1, <1>3, <2>1 DEF Renames, DeleteAnswer
<1>4. CASE KeyringDelete(c)
  <2>1. /\ pc'[c] = "load" /\ call' = call /\ call[c].op = "Delete"
        /\ host' = host /\ pc[c] # "idle"
    BY <1>4 DEF KeyringDelete, Goto, Running, TypeOK, hostVars
  <2>2. FileUnused(host)
    BY <1>4, HeldFacts DEF KeyringDelete, Drop, Has
  <2>3. CallInv(c) BY DEF OneStoreInv
  <2> QED BY <2>1, <2>2, <2>3 DEF CallInv, Current, Answered, Running, Client
<1> QED BY <1>2, <1>3, <1>4 DEF Writes

LEMMA BeginStep ==
    ASSUME TypeOK, TypeOK', OneStore(host), OneStoreInv, NEW c \in Callers,
           NEW op \in {"Save", "Load", "Delete"}, NEW k \in host.clients,
           Begin(c, op, k)
    PROVE  CallInv(c)' /\ Current(c)'
<1>1. /\ pc'[c] = "keyring" /\ host' = host /\ Held' = Held
      /\ call'[c] = [op |-> op, client |-> k,
                     token |-> IF op = "Save" THEN saves + 1 ELSE 0]
  BY DEF Begin, TypeOK, storeVars, hostVars, Held
<1>2. op = "Load" => seen'[c] = {Held[k]}
  BY DEF Begin, TypeOK, OneStoreInv
<1>3. saves + 1 # 0 BY ConstantsAssumption DEF TypeOK, Maybe
<1> QED BY <1>1, <1>2, <1>3 DEF CallInv, Current, Answered, Running, Client

(* What a write adds to what the loads under way have seen.                *)
LEMMA SeenFacts ==
    ASSUME TypeOK, OneStore(host), OneStoreInv, NEW c \in Callers, Writes(c),
           NEW d \in Callers
    PROVE  /\ pc[d] = "idle" => seen'[d] = seen[d]
           /\ Running(d, "Load") =>
                /\ seen'[d] = seen[d] \union {Held'[Client(d)]}
                /\ Held'[Client(d)] \in seen'[d]
<1>1. /\ Held' = [Held EXCEPT ![Client(c)] = call[c].token]
      /\ Committed(Client(c), call[c].token)
  BY WriteFacts
<1>2. /\ Running(d, "Load") => Held[Client(d)] \in seen[d]
      /\ pc[d] # "idle" => Client(d) \in Clients
  BY CallerFacts DEF OneStoreInv, CallInv, Running
<1>3. Held \in [Clients -> Maybe] BY HeldFacts
<1> QED BY <1>1, <1>2, <1>3 DEF Committed, Running

(* Every caller keeps its part of the invariant.                           *)
LEMMA CallersStep ==
    ASSUME TypeOK, TypeOK', OneStore(host), OneStoreInv, [Next]_vars,
           NEW d \in Callers
    PROVE  CallInv(d)' /\ Current(d)'
<1>0. CallInv(d) /\ Current(d) BY DEF OneStoreInv, LoadReturnsLatest
<1>1. ASSUME NEW c \in Callers, NEW op \in {"Save", "Load", "Delete"},
             NEW k \in host.clients, Begin(c, op, k)
      PROVE CallInv(d)' /\ Current(d)'
  <2>1. CASE d = c BY <1>1, <2>1, BeginStep
  <2>2. CASE d # c
    <3>1. /\ pc'[d] = pc[d] /\ call'[d] = call[d] /\ keyringErr'[d] = keyringErr[d]
          /\ answer'[d] = answer[d] /\ value'[d] = value[d] /\ seen'[d] = seen[d]
          /\ host' = host /\ Held' = Held
      BY <1>1, <2>2 DEF Begin, TypeOK, storeVars, hostVars, Held
    <3> QED BY <1>0, <2>2, <3>1, OthersKeep DEF CallInv, Running
  <2> QED BY <2>1, <2>2
<1>2. ASSUME NEW c \in Callers, Writes(c) PROVE CallInv(d)' /\ Current(d)'
  <2>1. CASE d = c BY <1>2, <2>1, WriteStep
  <2>2. CASE d # c
    <3>1. /\ pc'[d] = pc[d] /\ call'[d] = call[d] /\ keyringErr'[d] = keyringErr[d]
          /\ answer'[d] = answer[d] /\ value'[d] = value[d] /\ host' = host
      <4>1. CASE KeyringSet(c)
        BY <2>2, <4>1 DEF KeyringSet, Returns, TypeOK, hostVars
      <4>2. CASE KeyringDelete(c)
        BY <2>2, <4>2 DEF KeyringDelete, Goto, TypeOK, hostVars
      <4>3. CASE Renames(c)
        BY <2>2, <4>3 DEF Renames, Returns, TypeOK, hostVars
      <4> QED BY <1>2, <4>1, <4>2, <4>3 DEF Writes
    <3> QED BY <1>2, <2>2, <3>1, SeenFacts, OthersKeep
  <2> QED BY <2>1, <2>2
<1>3. ASSUME NEW c \in Callers, Reads(c) PROVE CallInv(d)' /\ Current(d)'
  <2>1. CASE d = c BY <1>3, <2>1, ReadStep
  <2>2. CASE d # c
    <3>1. /\ pc'[d] = pc[d] /\ call'[d] = call[d] /\ keyringErr'[d] = keyringErr[d]
          /\ answer'[d] = answer[d] /\ value'[d] = value[d]
      <4>1. CASE KeyringSetRefused(c) \/ KeyringGet(c)
        BY <2>2, <4>1 DEF KeyringSetRefused, KeyringGet, Returns, TypeOK
      <4>4. CASE FileFails(c) \/ Dies(c)
        BY <2>2, <4>4 DEF FileFails, Dies, Returns, TypeOK
      <4>2. CASE LoadFile(c)
        <5>1. PICK t \in Entry(c) :
                Returns(c, IF t # 0 THEN "token" ELSE NothingFound(c), t)
          BY <4>2 DEF LoadFile
        <5> QED BY <2>2, <5>1 DEF Returns, TypeOK
      <4>5. CASE DeleteFileMisses(c)
        BY <2>2, <4>5 DEF DeleteFileMisses, Returns, TypeOK
      <4>3. CASE KeyringSetFallsBack(c) \/ KeyringMisses(c) \/ ReadsEntries(c)
        BY <2>2, <4>3
        DEF KeyringSetFallsBack, KeyringMisses, ReadsEntries, Goto, TypeOK
      <4> QED BY <1>3, <4>1, <4>2, <4>3, <4>4, <4>5 DEF Reads
    <3>2. UNCHANGED <<host, Held, seen>> BY <1>3, ReadFacts
    <3> QED BY <1>0, <2>2, <3>1, <3>2, OthersKeep DEF CallInv, Running
  <2> QED BY <2>1, <2>2
<1>4. CASE FileRemoved
  <2>1. Running(d, "Load") => Client(d) \in Clients
    BY CallerFacts DEF Running
  <2>2. /\ UNCHANGED <<pc, call, keyringErr, answer, value, host>>
        /\ Held' = keyring
    BY <1>4 DEF FileRemoved, callVars, hostVars, Held, NoTokens, TypeOK
  <2>3. /\ Running(d, "Load") => seen'[d] = seen[d] \union {keyring[Client(d)]}
        /\ ~Running(d, "Load") => seen'[d] = seen[d]
    BY <1>4 DEF FileRemoved
  <2> QED BY <1>0, <2>1, <2>2, <2>3 DEF CallInv, Current, Answered, Running, Client
<1>5. CASE FileDamaged \/ UNCHANGED vars \/ \E c \in Callers : ReachChanges(c)
  <2>1. UNCHANGED <<keyring, file, pc, call, keyringErr, answer, value, host, seen>>
    BY <1>5 DEF FileDamaged, ReachChanges, vars, storeVars, callVars, hostVars,
       ghostVars
  <2>2. Held' = Held BY <2>1 DEF Held
  <2> QED BY <1>0, <2>1, <2>2 DEF CallInv, Current, Answered, Running, Client
<1> QED BY <1>1, <1>2, <1>3, <1>4, <1>5
    DEF Next, KeyringStep, FileStep, Reads, Writes

(* The stores keep theirs.                                                 *)
LEMMA StoresStep ==
    ASSUME TypeOK, TypeOK', OneStore(host), OneStoreInv, [Next]_vars
    PROVE  /\ host' = host
           /\ "open" \notin host.reach => keyring' = NoTokens
           /\ FileUnused(host) => file' = NoTokens /\ \A c \in Callers : pc'[c] # "write"
           /\ \A k \in Clients \ host.clients :
                 file'[k] = 0 /\ \A c \in Callers : snap'[c][k] = 0
           /\ latest' = Held'
<1> DEFINE Kept ==
           /\ host' = host
           /\ "open" \notin host.reach => keyring' = NoTokens
           /\ FileUnused(host) => file' = NoTokens /\ \A c \in Callers : pc'[c] # "write"
           /\ \A k \in Clients \ host.clients :
                 file'[k] = 0 /\ \A c \in Callers : snap'[c][k] = 0
           /\ latest' = Held'
<1>1. ASSUME UNCHANGED <<host, keyring, file, latest>>,
             FileUnused(host) => \A c \in Callers : pc'[c] # "write",
             \A c \in Callers : snap'[c] \in {snap[c], NoTokens, file}
      PROVE Kept
  <2>1. Held' = Held BY <1>1 DEF Held
  <2> QED BY <1>1, <2>1 DEF OneStoreInv, NoTokens
<1>2. ASSUME NEW c \in Callers, NEW op \in {"Save", "Load", "Delete"},
             NEW k \in host.clients, Begin(c, op, k)
      PROVE Kept
  <2>1. \A d \in Callers : pc'[d] \in {pc[d], "keyring"} BY <1>2 DEF Begin, TypeOK
  <2> HIDE DEF Kept
  <2> QED BY <1>1, <1>2, <2>1 DEF Begin, storeVars, hostVars, OneStoreInv
<1>3. ASSUME NEW c \in Callers, Reads(c) PROVE Kept
  <2>1. \A d \in Callers : snap'[d] \in {snap[d], NoTokens, file}
    <3>1. CASE ReadsEntries(c) BY <3>1 DEF ReadsEntries, TypeOK
    <3>2. CASE KeyringSetFallsBack(c) \/ KeyringMisses(c)
      BY <3>2 DEF KeyringSetFallsBack, KeyringMisses
    <3>4. ~ReadsEntries(c) /\ ~KeyringSetFallsBack(c) /\ ~KeyringMisses(c)
          => snap' = [snap EXCEPT ![c] = NoTokens]
      BY <1>3
      DEF Reads, KeyringSetRefused, KeyringGet, LoadFile, DeleteFileMisses, FileFails,
          Dies, Returns
    <3> QED BY <3>1, <3>2, <3>4 DEF TypeOK
  <2>2. FileUnused(host) => \A d \in Callers : pc'[d] # "write"
    <3>1. CASE ReadsEntries(c)
      <4>1. /\ pc[c] = "load" /\ host.dir
            /\ call[c].op = "Delete" => file[Client(c)] # 0
            /\ call[c].op # "Load"
        BY <3>1 DEF ReadsEntries, Entry, Readable
      <4>2. CallInv(c) /\ Client(c) \in Clients BY <4>1, CallerFacts DEF OneStoreInv
      <4>3. FileUnused(host) => host.goos = "darwin" /\ file[Client(c)] = 0
        BY <4>1, <4>2 DEF FileUnused, OneStoreInv, NoTokens
      <4>4. ~FileUnused(host)
        BY <4>1, <4>2, <4>3, CallerFacts DEF CallInv
      <4> QED BY <4>4
    <3>2. CASE KeyringSetFallsBack(c) \/ KeyringMisses(c)
      BY <3>2 DEF KeyringSetFallsBack, KeyringMisses, Goto, OneStoreInv, TypeOK
    <3>3. ~ReadsEntries(c) /\ ~KeyringSetFallsBack(c) /\ ~KeyringMisses(c)
          => pc' = [pc EXCEPT ![c] = "idle"]
      BY <1>3
      DEF Reads, KeyringSetRefused, KeyringGet, LoadFile, DeleteFileMisses, FileFails,
          Dies, Returns
    <3> QED BY <3>1, <3>2, <3>3 DEF OneStoreInv, TypeOK
  <2> HIDE DEF Kept
  <2> QED BY <1>1, <1>3, <2>1, <2>2, ReadFacts
<1>4. ASSUME NEW c \in Callers, Writes(c) PROVE Kept
  <2>1. latest' = Held' BY <1>4, WriteFacts DEF Committed, OneStoreInv
  <2>2. CASE KeyringSet(c) \/ KeyringDelete(c)
    <3>1. /\ Open(c) /\ UNCHANGED <<host, file>>
          /\ \A d \in Callers : /\ snap'[d] \in {snap[d], NoTokens}
                                /\ pc'[d] \in {pc[d], "idle", "load"}
      BY <2>2 DEF KeyringSet, KeyringDelete, Drop, Has, Returns, Goto, hostVars, TypeOK
    <3>2. "open" \in host.reach BY <3>1 DEF Open, TypeOK
    <3> QED BY <2>1, <3>1, <3>2 DEF OneStoreInv, NoTokens
  <2>3. CASE Renames(c)
    <3>1. /\ UNCHANGED <<host, keyring>> /\ pc[c] = "write"
          /\ file' = [snap[c] EXCEPT ![Client(c)] = call[c].token]
          /\ \A d \in Callers : snap'[d] \in {snap[d], NoTokens}
      BY <2>3 DEF Renames, Returns, hostVars, TypeOK
    <3>2. ~FileUnused(host) BY <3>1 DEF OneStoreInv
    <3>3. Client(c) \in host.clients BY <3>1 DEF OneStoreInv, CallInv
    <3>4. \A k \in Clients \ host.clients : file'[k] = 0
      BY <3>1, <3>3 DEF OneStoreInv, TypeOK
    <3> QED BY <2>1, <3>1, <3>2, <3>4 DEF OneStoreInv, NoTokens
  <2> QED BY <1>4, <2>2, <2>3 DEF Writes
<1>5. ASSUME FileRemoved PROVE Kept
  <2>1. /\ UNCHANGED <<host, keyring, pc, snap>> /\ file' = NoTokens /\ latest' = keyring
    BY <1>5 DEF FileRemoved, callVars, hostVars
  <2>2. Held' = keyring BY <2>1 DEF Held, NoTokens, TypeOK
  <2> QED BY <2>1, <2>2 DEF OneStoreInv, NoTokens
<1>6. ASSUME FileDamaged \/ UNCHANGED vars \/ \E c \in Callers : ReachChanges(c)
      PROVE Kept
  <2>1. UNCHANGED <<keyring, file, pc, snap, host, latest>>
    BY <1>6 DEF FileDamaged, ReachChanges, vars, storeVars, callVars, hostVars,
       ghostVars
  <2>2. /\ FileUnused(host) => \A c \in Callers : pc'[c] # "write"
        /\ \A c \in Callers : snap'[c] \in {snap[c], NoTokens, file}
    BY <2>1 DEF OneStoreInv
  <2> HIDE DEF Kept
  <2> QED BY <1>1, <2>1, <2>2
<1> HIDE DEF Kept
<1>7. Kept BY <1>2, <1>3, <1>4, <1>5, <1>6
    DEF Next, KeyringStep, FileStep, Reads, Writes
<1> QED BY <1>7 DEF Kept

-----------------------------------------------------------------------------
(* What a logout rests on.                                                 *)

(* A step of c that saves nothing new and begins nothing.                  *)
LEMMA ForgetKept ==
    ASSUME TypeOK, ForgetInv, UNCHANGED <<host, held, saves, call>>, NEW c \in Callers,
           \A d \in Callers : d # c => pc'[d] = pc[d] /\ keyringErr'[d] = keyringErr[d],
           pc[c] = "idle" => pc'[c] = "idle",
           FileUnused(host) =>
              \A k \in Clients :
                 \/ keyring'[k] \in {keyring[k], 0}
                 \/ /\ Running(c, "Save") /\ pc'[c] = "idle"
                    /\ keyring'[k] = call[c].token,
           FileUnused(host) /\ Running(c, "Delete")' /\ pc'[c] = "load"
              /\ keyringErr'[c] = "nil" => keyring'[Client(c)] \notin held[c]
    PROVE  ForgetInv'
<1>0. \A d \in Callers : 0 \notin held[d] BY DEF ForgetInv
<1>1. SUFFICES ASSUME FileUnused(host)
               PROVE  /\ \A d \in Callers : held[d] \subseteq 1..saves
                      /\ \A k \in Clients : keyring'[k] \in 0..saves
                      /\ \A d \in Callers : Running(d, "Save")' =>
                            /\ call[d].token \in 1..saves
                            /\ \A k \in Clients : keyring'[k] # call[d].token
                            /\ \A e \in Callers :
                                  /\ call[d].token \notin held[e]
                                  /\ Running(e, "Save")' /\ e # d =>
                                        call[e].token # call[d].token
                      /\ \A d \in Callers :
                            Running(d, "Delete")' /\ pc'[d] = "load"
                            /\ keyringErr'[d] = "nil" => keyring'[Client(d)] \notin held[d]
  BY <1>0 DEF ForgetInv, FileUnused, Client
<1>2. \A d \in Callers : \A op \in {"Save", "Load", "Delete"} :
         Running(d, op)' => Running(d, op)
  BY DEF Running
<1>3. saves \in Nat BY ConstantsAssumption DEF TypeOK, Maybe
<1>4. \A d \in Callers : held[d] \subseteq 1..saves BY <1>1 DEF ForgetInv
<1>5. \A d \in Callers : Running(d, "Save") =>
         /\ call[d].token \in 1..saves
         /\ \A k \in Clients : keyring[k] # call[d].token
         /\ \A e \in Callers :
               /\ call[d].token \notin held[e]
               /\ Running(e, "Save") /\ e # d => call[e].token # call[d].token
  BY <1>1 DEF ForgetInv
<1>6. \A k \in Clients : keyring'[k] \in 0..saves
  BY <1>1, <1>3, <1>5 DEF ForgetInv
<1>7. ASSUME NEW d \in Callers, Running(d, "Save")'
      PROVE  \A k \in Clients : keyring'[k] # call[d].token
  <2>1. Running(d, "Save") /\ pc'[d] # "idle" BY <1>2, <1>7 DEF Running
  <2>2. call[d].token # 0 BY <1>3, <1>5, <2>1
  <2> QED BY <1>1, <1>5, <2>1, <2>2
<1>8. ASSUME NEW d \in Callers, Running(d, "Delete")', pc'[d] = "load",
             keyringErr'[d] = "nil", d # c
      PROVE  keyring'[Client(d)] \notin held[d]
  <2>1. Running(d, "Delete") /\ pc[d] = "load" /\ keyringErr[d] = "nil"
    BY <1>2, <1>8
  <2>2. Client(d) \in Clients BY <2>1, CallerFacts DEF Running
  <2>3. keyring[Client(d)] \notin held[d] BY <1>1, <2>1 DEF ForgetInv
  <2> QED BY <1>0, <1>1, <1>5, <2>2, <2>3
<1> QED BY <1>1, <1>2, <1>4, <1>5, <1>6, <1>7, <1>8

(* A Delete that begins has seen no token that is still to be saved.       *)
LEMMA ForgetBegin ==
    ASSUME TypeOK, OneStore(host), OneStoreInv, ForgetInv, NEW c \in Callers,
           NEW op \in {"Save", "Load", "Delete"}, NEW k \in host.clients, Begin(c, op, k)
    PROVE  ForgetInv'
<1>0. /\ k \in Clients /\ saves \in Nat /\ saves' \in {saves, saves + 1}
      /\ call'[c].op = op /\ (op = "Save" => call'[c].token = saves + 1 /\ saves' = saves + 1)
      /\ pc'[c] = "keyring" /\ UNCHANGED <<host, keyring, file, keyringErr>>
      /\ \A d \in Callers : d # c =>
            pc'[d] = pc[d] /\ call'[d] = call[d] /\ held'[d] = held[d]
      /\ held'[c] \subseteq {keyring[k], file[k]} \ {0}
  BY ConstantsAssumption DEF Begin, TypeOK, HostType, Maybe, storeVars, hostVars
<1>1. \A d \in Callers : 0 \notin held'[d] BY <1>0 DEF ForgetInv
<1>2. ASSUME FileUnused(host)
      PROVE  /\ \A d \in Callers : held'[d] \subseteq 1..saves
             /\ \A j \in Clients : keyring[j] \in 0..saves
    BY <1>0, <1>2 DEF ForgetInv, OneStoreInv, NoTokens
<1>3. ASSUME FileUnused(host), NEW d \in Callers, Running(d, "Save")'
      PROVE  /\ call'[d].token \in 1..saves'
             /\ \A j \in Clients : keyring'[j] # call'[d].token
             /\ \A e \in Callers : call'[d].token \notin held'[e]
             /\ \A e \in Callers : Running(e, "Save")' /\ e # d =>
                   call'[e].token # call'[d].token
  <2>1. \A e \in Callers : e # c /\ Running(e, "Save")' => Running(e, "Save")
    BY <1>0 DEF Running
  <2>2. \A e \in Callers : Running(e, "Save") => call[e].token \in 1..saves
    BY <1>3 DEF ForgetInv
  <2>3. CASE d = c
    <3>1. call'[c].token = saves + 1 /\ saves' = saves + 1
      BY <1>0, <1>3, <2>3 DEF Running
    <3> QED BY <1>0, <1>2, <1>3, <2>1, <2>2, <2>3, <3>1
  <2>4. CASE d # c
    <3>1. Running(d, "Save") /\ call'[d] = call[d] BY <1>0, <1>3, <2>1, <2>4
    <3>2. /\ call[d].token \in 1..saves
          /\ \A j \in Clients : keyring[j] # call[d].token
          /\ \A e \in Callers :
                /\ call[d].token \notin held[e]
                /\ Running(e, "Save") /\ e # d => call[e].token # call[d].token
      BY <1>3, <3>1 DEF ForgetInv
    <3>3. call[d].token \notin held'[c]
      <4>1. file[k] = 0 /\ call[d].token # 0
        BY <1>0, <1>3, <3>2 DEF OneStoreInv, NoTokens
      <4> QED BY <1>0, <3>2, <4>1
    <3>4. Running(c, "Save")' => call'[c].token = saves + 1 BY <1>0 DEF Running
    <3> QED BY <1>0, <2>1, <2>4, <3>1, <3>2, <3>3, <3>4
  <2> QED BY <2>3, <2>4
<1>4. ASSUME FileUnused(host), NEW d \in Callers, Running(d, "Delete")',
             pc'[d] = "load", keyringErr'[d] = "nil"
      PROVE  keyring'[Client(d)'] \notin held'[d]
  BY <1>0, <1>4 DEF ForgetInv, Running, Client
<1>5. FileUnused(host)' = FileUnused(host) BY <1>0 DEF FileUnused
<1>6. 1..saves \subseteq 1..saves' /\ 0..saves \subseteq 0..saves' BY <1>0
<1> QED BY <1>0, <1>1, <1>2, <1>3, <1>4, <1>5, <1>6 DEF ForgetInv

LEMMA ForgetStep ==
    ASSUME TypeOK, OneStore(host), OneStoreInv, ForgetInv, [Next]_vars
    PROVE  ForgetInv'
<1>1. ASSUME NEW c \in Callers, NEW op \in {"Save", "Load", "Delete"},
             NEW k \in host.clients, Begin(c, op, k)
      PROVE  ForgetInv'
  BY <1>1, ForgetBegin
<1>2. ASSUME NEW c \in Callers, Reads(c) PROVE ForgetInv'
  <2>1. UNCHANGED <<host, keyring, saves>> BY <1>2, ReadFacts
  <2>2. UNCHANGED <<held, call>> /\ pc[c] # "idle"
    BY <1>2 DEF Reads, KeyringSetRefused, KeyringSetFallsBack, KeyringGet,
       KeyringMisses, LoadFile, DeleteFileMisses, ReadsEntries, FileFails, Dies,
       ghostVars, Returns, Goto, Running
  <2>3. \A d \in Callers : d # c => pc'[d] = pc[d] /\ keyringErr'[d] = keyringErr[d]
    BY <1>2 DEF Reads, KeyringSetRefused, KeyringSetFallsBack, KeyringGet,
       KeyringMisses, LoadFile, DeleteFileMisses, ReadsEntries, FileFails, Dies,
       Returns, Goto, TypeOK
  <2>4. Running(c, "Delete")' /\ pc'[c] = "load" => keyringErr'[c] # "nil"
    <3>1. CASE KeyringSetFallsBack(c)
      BY <3>1 DEF KeyringSetFallsBack, Goto, Running
    <3>2. CASE KeyringMisses(c)
      BY <3>2 DEF KeyringMisses, Miss, TypeOK
    <3>3. CASE ~KeyringSetFallsBack(c) /\ ~KeyringMisses(c)
      BY <1>2, <3>3 DEF Reads, KeyringSetRefused, KeyringGet, LoadFile,
         DeleteFileMisses, ReadsEntries, FileFails, Dies, Returns, Goto, TypeOK
    <3> QED BY <3>1, <3>2, <3>3
  <2> QED BY <2>1, <2>2, <2>3, <2>4, ForgetKept
<1>3. ASSUME NEW c \in Callers, KeyringSet(c) PROVE ForgetInv'
  <2>1. /\ Running(c, "Save") /\ UNCHANGED <<host, held, saves, call>> /\ pc'[c] = "idle"
        /\ \A d \in Callers : d # c => pc'[d] = pc[d] /\ keyringErr'[d] = keyringErr[d]
        /\ \A k \in Clients : keyring'[k] \in {keyring[k], call[c].token}
    BY <1>3 DEF KeyringSet, Put, Committed, Returns, hostVars, TypeOK
  <2> QED BY <2>1, ForgetKept
<1>4. ASSUME NEW c \in Callers, KeyringDelete(c) PROVE ForgetInv'
  <2>1. /\ Running(c, "Delete") /\ UNCHANGED <<host, held, saves, call, keyringErr>>
        /\ \A d \in Callers : d # c => pc'[d] = pc[d]
        /\ keyring' = [keyring EXCEPT ![Client(c)] = 0]
    BY <1>4 DEF KeyringDelete, Drop, Put, Committed, Goto, hostVars, TypeOK
  <2>2. Client(c) \in Clients /\ pc[c] # "idle" BY <2>1, CallerFacts DEF Running
  <2>3. keyring'[Client(c)] = 0 BY <2>1, <2>2 DEF TypeOK
  <2>4. \A k \in Clients : keyring'[k] \in {keyring[k], 0} BY <2>1 DEF TypeOK
  <2>5. keyring'[Client(c)] \notin held[c] BY <2>3 DEF ForgetInv
  <2> QED BY <2>1, <2>2, <2>4, <2>5, ForgetKept
<1>5. ASSUME NEW c \in Callers, Renames(c) PROVE ForgetInv'
  <2>1. ~FileUnused(host) /\ UNCHANGED <<host, held>>
    BY <1>5 DEF Renames, OneStoreInv, Committed, hostVars
  <2> QED BY <2>1 DEF ForgetInv, FileUnused
<1>6. CASE \/ FileDamaged \/ FileRemoved \/ UNCHANGED vars
           \/ \E c \in Callers : ReachChanges(c)
  <2>1. UNCHANGED <<host, keyring, pc, call, keyringErr, saves, held>>
    BY <1>6 DEF FileDamaged, FileRemoved, ReachChanges, vars, storeVars, callVars,
       hostVars, ghostVars
  <2> QED BY <2>1 DEF ForgetInv, FileUnused, Running, Client
<1> QED BY <1>1, <1>2, <1>3, <1>4, <1>5, <1>6 DEF Next, KeyringStep, FileStep, Reads

-----------------------------------------------------------------------------
LEMMA StoreInvInit == Init => StoreInv
<1> SUFFICES ASSUME Init PROVE StoreInv OBVIOUS
<1>1. TypeOK
  <2>1. 0 \in Maybe /\ NoTokens \in [Clients -> Maybe]
    BY ConstantsAssumption DEF Maybe, NoTokens
  <2>2. NoCall \in [op : {"none", "Save", "Load", "Delete"},
                    client : Clients \union {"none"}, token : Maybe]
    BY <2>1 DEF NoCall
  <2> QED BY <2>1, <2>2 DEF Init, TypeOK, Client
<1>2. latest = Held BY DEF Init, Held, NoTokens
<1>3. LoadReturnsLatest BY DEF Init, LoadReturnsLatest, Current, Answered, NoCall
<1>4. \A c \in Callers : CallInv(c) BY DEF Init, CallInv
<1>5. ForgetInv BY DEF Init, ForgetInv, NoTokens, Running
<1> QED BY <1>1, <1>2, <1>3, <1>4, <1>5 DEF Init, StoreInv, OneStoreInv, NoTokens

LEMMA StoreInvStep == StoreInv /\ [Next]_vars => StoreInv'
<1> SUFFICES ASSUME StoreInv, [Next]_vars PROVE StoreInv' OBVIOUS
<1>1. TypeOK /\ TypeOK' BY TypeStep DEF StoreInv
<1>2. host' = host
  BY DEF Next, KeyringStep, FileStep, Begin, KeyringSet, KeyringSetRefused,
     KeyringSetFallsBack, KeyringGet, KeyringDelete, KeyringMisses, LoadFile,
     DeleteFileMisses, ReadsEntries, FileFails, Renames, Dies, ReachChanges,
     FileDamaged, FileRemoved, vars, hostVars
<1>3. ASSUME OneStore(host) PROVE OneStoreInv' /\ ForgetInv'
  <2>1. OneStoreInv /\ ForgetInv BY <1>3 DEF StoreInv
  <2>2. \A c \in Callers : CallInv(c)' /\ Current(c)'
    BY <1>1, <1>3, <2>1, CallersStep
  <2>3. OneStoreInv'
    BY <1>1, <1>3, <2>1, <2>2, StoresStep DEF OneStoreInv, LoadReturnsLatest
  <2>4. ForgetInv' BY <1>1, <1>3, <2>1, ForgetStep
  <2> QED BY <2>3, <2>4
<1> QED BY <1>1, <1>2, <1>3 DEF StoreInv

(* Every reachable state satisfies the inductive invariant of the stores.  *)
THEOREM StoreInductive == Spec => []StoreInv
  BY StoreInvInit, StoreInvStep, PTL DEF Spec

(* Every variable has its type.                                            *)
THEOREM StoreTypeCorrect == Spec => []TypeOK
<1>1. StoreInv => TypeOK BY DEF StoreInv
<1> QED BY <1>1, StoreInductive, PTL

(* On a Mac no token is ever written in plaintext.  (Save.)                *)
THEOREM NoPlaintext == Spec => []NoPlaintextOnDarwin
<1>1. StoreInv => NoPlaintextOnDarwin
  BY DEF StoreInv, OneStore, FileUnused, OneStoreInv, NoPlaintextOnDarwin
<1> QED BY <1>1, StoreInductive, PTL

(* Where every host has one store, loads answer a token that was current   *)
(* while they ran.  (Save, Load, Delete.)                                  *)
THEOREM LoadsReturnLatest ==
    ASSUME \A h \in Hosts : OneStore(h)
    PROVE  Spec => []LoadReturnsLatest
<1>1. StoreInv => LoadReturnsLatest BY DEF StoreInv, TypeOK, OneStoreInv
<1> QED BY <1>1, StoreInductive, PTL

(* Where every host has one store, a Delete that answers success has       *)
(* removed every token that was there for its client when it began, though *)
(* others save and delete beside it.  (Delete.)                            *)
THEOREM DeletesForget ==
    ASSUME \A h \in Hosts : OneStore(h)
    PROVE  Spec => DeleteForgets
<1>1. ASSUME StoreInv, [Next]_vars, NEW c \in Callers,
             ~Answered(c, "Delete", "deleted"), Answered(c, "Delete", "deleted")'
      PROVE  {keyring'[Client(c)], file'[Client(c)]} \intersect held[c] = {}
  <2>0. TypeOK /\ OneStore(host) /\ OneStoreInv /\ ForgetInv /\ CallInv(c)
    BY <1>1 DEF StoreInv, TypeOK, OneStoreInv
  <2>1. DeleteFileMisses(c) \/ Renames(c)
    <3>1. ASSUME NEW d \in Callers, NEW op, NEW k, Begin(d, op, k) PROVE FALSE
      BY <1>1, <2>0, <3>1 DEF Begin, Answered, TypeOK
    <3>2. ASSUME NEW d \in Callers, d # c, KeyringStep(d) \/ FileStep(d) \/ Dies(d)
          PROVE  FALSE
      BY <1>1, <2>0, <3>2 DEF KeyringStep, FileStep, KeyringSet, KeyringSetRefused,
         KeyringSetFallsBack, KeyringGet, KeyringDelete, KeyringMisses, LoadFile,
         DeleteFileMisses, ReadsEntries, FileFails, Renames, Dies, Returns, Goto,
         Answered, TypeOK
    <3>3. CASE KeyringStep(c) \/ FileStep(c) \/ Dies(c)
      BY <1>1, <2>0, <3>3 DEF KeyringStep, FileStep, KeyringSet, KeyringSetRefused,
         KeyringSetFallsBack, KeyringGet, KeyringDelete, KeyringMisses, LoadFile,
         ReadsEntries, FileFails, Dies, Returns, Goto, NothingFound, Running,
         Answered, TypeOK
    <3>4. CASE \/ FileDamaged \/ FileRemoved \/ UNCHANGED vars
               \/ \E d \in Callers : ReachChanges(d)
      BY <1>1, <3>4 DEF FileDamaged, FileRemoved, ReachChanges, vars, callVars, Answered
    <3> QED BY <1>1, <3>1, <3>2, <3>3, <3>4 DEF Next
  <2>2. pc[c] \in {"load", "write"} /\ call[c].op = "Delete" /\ Client(c) \in Clients
    <3>1. pc[c] \in {"load", "write"}
      BY <2>1 DEF DeleteFileMisses, Renames
    <3>2. call'[c] = call[c] BY <2>1 DEF DeleteFileMisses, Renames, Returns
    <3> QED BY <1>1, <2>0, <3>1, <3>2, CallerFacts DEF Answered
  <2>3. CASE DeleteFileMisses(c)
    <3>1. /\ pc[c] = "load" /\ UNCHANGED <<keyring, file>>
          /\ answer'[c] = DeleteAnswer(c, FALSE) /\ answer'[c] = "deleted"
      BY <1>1, <2>0, <2>3 DEF DeleteFileMisses, Returns, Answered, storeVars, TypeOK
    <3>2. keyringErr[c] = "nil" BY <3>1 DEF DeleteAnswer
    <3>3. FileUnused(host) BY <2>0, <2>2, <3>1, <3>2 DEF CallInv
    <3>4. keyring[Client(c)] \notin held[c] /\ 0 \notin held[c]
      BY <2>0, <2>2, <3>1, <3>2, <3>3 DEF ForgetInv, Running
    <3>5. file[Client(c)] = 0 BY <2>0, <2>2, <3>3 DEF OneStoreInv, NoTokens
    <3> QED BY <3>1, <3>4, <3>5
  <2>4. CASE Renames(c)
    <3>1. ~FileUnused(host) BY <2>0, <2>4 DEF Renames, OneStoreInv
    <3>2. keyring = NoTokens BY <2>0, <3>1, HeldFacts
    <3>3. call[c].token = 0 BY <2>0, <2>2 DEF CallInv
    <3>4. file'[Client(c)] = 0 /\ keyring'[Client(c)] = 0
      BY <2>0, <2>2, <2>4, <3>2, <3>3 DEF Renames, TypeOK, NoTokens
    <3> QED BY <2>0, <3>4 DEF ForgetInv
  <2> QED BY <2>1, <2>3, <2>4
<1>2. StoreInv /\ [Next]_vars =>
         [\A c \in Callers :
            ~Answered(c, "Delete", "deleted") /\ Answered(c, "Delete", "deleted")'
            => {keyring'[Client(c)], file'[Client(c)]} \intersect held[c] = {}]_vars
  BY <1>1
<1> QED BY <1>2, StoreInductive, PTL DEF Spec, DeleteForgets

-----------------------------------------------------------------------------
(* The refinement of the cell.                                             *)

(* A return is one of the cell, with what the caller is told.              *)
LEMMA ReturnsMaps ==
    ASSUME TypeOK, NEW c \in Callers, pc[c] # "idle", host' = host,
           NEW a \in Answers, NEW v \in Maybe, Returns(c, a, v)
    PROVE  Cell!Returns(c, Told(a), v)
<1>1. c \in Busy /\ Busy' = Busy \ {c} BY DEF Returns, Busy, TypeOK
<1>2. Deleted' = Deleted \ {c} BY <1>1 DEF Returns, Deleted, TypeOK
<1>3. Results' = [Results EXCEPT ![c] = [answer |-> Told(a), token |-> v]]
  <2>1. \A x : Told(x)' = Told(x) BY DEF Told
  <2> QED BY <2>1 DEF Returns, Results, TypeOK
<1> QED BY <1>1, <1>2, <1>3 DEF Returns, Cell!Returns, Cell!Answer

(* The keyring's answer is none until it answered.                         *)
NoErrYet == \A c \in Callers : pc[c] \in {"idle", "keyring"} => keyringErr[c] = "nil"

LEMMA NoErrStep == ASSUME TypeOK, NoErrYet, [Next]_vars PROVE NoErrYet'
<1>1. ASSUME NEW c \in Callers, NEW op, NEW k, Begin(c, op, k) PROVE NoErrYet'
  BY <1>1 DEF Begin, NoErrYet, TypeOK
<1>2. ASSUME NEW c \in Callers, NEW a, NEW v, Returns(c, a, v) PROVE NoErrYet'
  BY <1>2 DEF Returns, NoErrYet, TypeOK
<1>3. ASSUME NEW c \in Callers,
             KeyringSetFallsBack(c) \/ KeyringMisses(c) \/ ReadsEntries(c)
      PROVE NoErrYet'
  BY <1>3 DEF KeyringSetFallsBack, KeyringMisses, ReadsEntries, Goto, NoErrYet, TypeOK
<1>4. ASSUME NEW c \in Callers, KeyringDelete(c) PROVE NoErrYet'
  BY <1>4 DEF KeyringDelete, Goto, NoErrYet, TypeOK
<1>5. CASE \/ FileDamaged \/ FileRemoved \/ UNCHANGED vars
           \/ \E c \in Callers : ReachChanges(c)
  <2>1. UNCHANGED <<pc, keyringErr>>
    BY <1>5 DEF FileDamaged, FileRemoved, ReachChanges, vars, callVars
  <2> QED BY <2>1 DEF NoErrYet
<1>6. ASSUME NEW c \in Callers,
             \/ KeyringSet(c) \/ KeyringSetRefused(c) \/ KeyringGet(c) \/ LoadFile(c)
             \/ DeleteFileMisses(c) \/ FileFails(c) \/ Renames(c) \/ Dies(c)
      PROVE \E a, v : Returns(c, a, v)
  BY <1>6 DEF KeyringSet, KeyringSetRefused, KeyringGet, LoadFile, DeleteFileMisses,
     FileFails, Renames, Dies
<1> QED BY <1>1, <1>2, <1>3, <1>4, <1>5, <1>6 DEF Next, KeyringStep, FileStep

(* A write is the save or the deletion of the cell.                        *)
LEMMA CellWrite ==
    ASSUME TypeOK, NoErrYet, OneStore(host), OneStoreInv, NEW c \in Callers, Writes(c)
    PROVE  Cell!Save(c) \/ Cell!Delete(c)
<1>1. /\ pc[c] # "idle" /\ CallInv(c) /\ host' = host /\ c \in Busy
      /\ 0 \in Maybe
  <2>1. 0 \in Maybe BY ConstantsAssumption DEF Maybe
  <2>2. pc[c] # "idle" /\ host' = host
    BY DEF Writes, KeyringSet, KeyringDelete, Renames, Running, hostVars
  <2> QED BY <2>1, <2>2 DEF OneStoreInv, Busy
<1>2. Cell!Effect(c)
  <2>1. Held' = [Held EXCEPT ![Client(c)] = call[c].token] BY WriteFacts
  <2>2. seen' = [d \in Callers |-> IF Cell!Loads(d)
                                   THEN seen[d] \union {Held'[Client(d)]} ELSE seen[d]]
    <3>1. \A d \in Callers : Cell!Loads(d) <=> Running(d, "Load")
      BY DEF Cell!Loads, Running, Busy
    <3>2. Committed(Client(c), call[c].token) BY WriteFacts
    <3>3. \A d \in Callers : Running(d, "Load") =>
             seen'[d] = seen[d] \union {Held'[Client(d)]}
      BY SeenFacts
    <3>4. \A d \in Callers : ~Running(d, "Load") => seen'[d] = seen[d]
      BY <3>2 DEF Committed
    <3> QED BY <3>1, <3>2, <3>3, <3>4 DEF Committed
  <2> QED BY <2>1, <2>2 DEF Cell!Effect, Cell!Holds, Cell!Client, Client
<1>3. CASE KeyringSet(c)
  <2>1. Cell!Returns(c, Told("keyring"), 0)
    BY <1>1, <1>3, ReturnsMaps DEF KeyringSet, Answers
  <2> QED BY <1>2, <1>3, <2>1 DEF Cell!Save, KeyringSet, Running, Told
<1>4. CASE KeyringDelete(c)
  <2>1. /\ pc[c] = "keyring" /\ call[c].op = "Delete" /\ keyringErr[c] = "nil"
        /\ pc' = [pc EXCEPT ![c] = "load"]
        /\ UNCHANGED <<call, answer, value, keyringErr>>
    BY <1>4 DEF KeyringDelete, Goto, Running, NoErrYet
  <2>2. c \notin Deleted BY <2>1 DEF Deleted
  <2>3. Busy' = Busy BY <2>1 DEF Busy, TypeOK
  <2>4. Deleted' = Deleted \union {c} BY <1>1, <2>1, <2>3 DEF Deleted, TypeOK
  <2>5. Results' = Results BY <1>1, <2>1 DEF Results, Told
  <2> QED BY <1>1, <1>2, <2>1, <2>2, <2>3, <2>4, <2>5 DEF Cell!Delete
<1>5. CASE Renames(c)
  <2>1. pc[c] = "write" BY <1>5 DEF Renames
  <2>2. ~FileUnused(host) BY <2>1 DEF OneStoreInv
  <2>3. call[c].op \in {"Save", "Delete"}
    BY <1>1, <2>1, CallerFacts DEF CallInv, Running
  <2>4. CASE call[c].op = "Save"
    <3>1. Cell!Returns(c, Told("file"), 0)
      BY <1>1, <1>5, <2>4, ReturnsMaps DEF Renames, Answers
    <3> QED BY <1>2, <2>4, <3>1 DEF Cell!Save, Told
  <2>5. CASE call[c].op = "Delete"
    <3>1. Cell!Returns(c, Told("deleted"), 0)
      BY <1>1, <1>5, <2>5, ReturnsMaps DEF Renames, DeleteAnswer, Answers
    <3>2. c \notin Deleted BY <1>1, <2>1, <2>2, <2>5 DEF CallInv, Deleted
    <3> QED BY <1>1, <1>2, <2>5, <3>1, <3>2 DEF Cell!Delete, Told
  <2> QED BY <2>3, <2>4, <2>5
<1> QED BY <1>3, <1>4, <1>5 DEF Writes

(* A step that does not write is a return of the cell, or none of its.     *)
LEMMA CellRead ==
    ASSUME TypeOK, NoErrYet, OneStore(host), OneStoreInv, NEW c \in Callers, Reads(c)
    PROVE  Cell!DeleteReturns(c) \/ Cell!Load(c) \/ Cell!Fails(c) \/ UNCHANGED Cell!vars
<1>1. /\ CallInv(c) /\ pc[c] # "idle" /\ Client(c) \in Clients /\ c \in Busy
      /\ UNCHANGED <<host, Held, seen>> /\ 0 \in Maybe
  <2>1. pc[c] # "idle"
    BY DEF Reads, KeyringSetRefused, KeyringSetFallsBack, KeyringGet, KeyringMisses,
       LoadFile, DeleteFileMisses, ReadsEntries, FileFails, Dies, Running
  <2> QED BY <2>1, ReadFacts, CallerFacts, ConstantsAssumption
      DEF OneStoreInv, Busy, Maybe
<1>2. ASSUME KeyringSetRefused(c) \/ FileFails(c) \/ Dies(c) PROVE Cell!Fails(c)
  <2>1. PICK a \in {"refused", "error", "none"} : Returns(c, a, 0)
    BY <1>2 DEF KeyringSetRefused, FileFails, Dies
  <2>2. Cell!Returns(c, Told(a), 0) BY <1>1, <2>1, ReturnsMaps DEF Answers
  <2>3. Told(a) \in {"failed", "none"} BY DEF Told
  <2> QED BY <1>1, <2>2, <2>3 DEF Cell!Fails
<1>3. ASSUME NEW a \in {"token", "notLoggedIn"}, NEW t \in seen[c], t \in Maybe,
             (a = "notLoggedIn") <=> (t = 0), call[c].op = "Load",
             Cell!Returns(c, a, t)
      PROVE Cell!Load(c)
  BY <1>1, <1>3 DEF Cell!Load
<1>4. ASSUME KeyringGet(c) PROVE Cell!Load(c)
  <2>1. /\ Open(c) /\ keyring[Client(c)] # 0 /\ Running(c, "Load")
        /\ Returns(c, "token", keyring[Client(c)])
    BY <1>4 DEF KeyringGet, Has
  <2>2. keyring[Client(c)] \in seen[c] /\ keyring[Client(c)] \in Maybe
    BY <1>1, <2>1, HeldFacts DEF CallInv, TypeOK
  <2>3. Cell!Returns(c, Told("token"), keyring[Client(c)])
    BY <1>1, <2>1, <2>2, ReturnsMaps DEF Answers
  <2>4. Told("token") = "token" BY DEF Told
  <2> QED BY <1>3, <2>1, <2>2, <2>3, <2>4 DEF Running
<1>5. ASSUME LoadFile(c) PROVE Cell!Load(c) \/ Cell!Fails(c)
  <2>1. Running(c, "Load") /\ pc[c] = "load" /\ call[c].op = "Load"
    BY <1>5 DEF LoadFile, Running
  <2>2. PICK t \in Entry(c) :
          Returns(c, IF t # 0 THEN "token" ELSE NothingFound(c), t)
    BY <1>5 DEF LoadFile
  <2>3. t \in Maybe BY <1>1 DEF Entry, TypeOK
  <2>4. t # 0 => t = Held[Client(c)]
    BY <1>1, <2>2, HeldFacts DEF Entry, OneStoreInv, NoTokens
  <2>5. t # 0 => t \in seen[c] BY <1>1, <2>1, <2>4 DEF CallInv
  <2>6. CASE t # 0
    <3>1. Cell!Returns(c, Told("token"), t)
      BY <1>1, <2>2, <2>3, <2>6, ReturnsMaps DEF Answers
    <3>2. Told("token") = "token" BY DEF Told
    <3> QED BY <1>3, <2>1, <2>3, <2>5, <2>6, <3>1, <3>2
  <2>7. CASE t = 0
    <3>1. Returns(c, NothingFound(c), 0) /\ NothingFound(c) \in Answers
      BY <2>2, <2>7 DEF NothingFound, Answers
    <3>2. Cell!Returns(c, Told(NothingFound(c)), 0)
      BY <1>1, <3>1, ReturnsMaps
    <3>3. CASE Told(NothingFound(c)) = "failed"
      BY <1>1, <3>2, <3>3 DEF Cell!Fails
    <3>4. CASE Told(NothingFound(c)) # "failed"
      <4>1. Told(NothingFound(c)) = "notLoggedIn"
        BY <3>4 DEF Told, NothingFound
      <4>2. 0 \in seen[c]
        <5>1. CASE keyringErr[c] # "failed" BY <1>1, <2>1, <5>1 DEF CallInv
        <5>2. CASE keyringErr[c] = "failed"
          <6>1. "open" \notin host.reach BY <3>4, <5>2 DEF Told, NothingFound
          <6>2. FileUnused(host) => Held[Client(c)] = 0
            BY <1>1, <6>1, HeldFacts DEF OneStoreInv, NoTokens
          <6>3. ~FileUnused(host) => Held[Client(c)] = 0
            BY <1>1, <2>2, <2>7, HeldFacts DEF Entry, FileUnused
          <6> QED BY <1>1, <2>1, <6>2, <6>3 DEF CallInv
        <5> QED BY <5>1, <5>2
      <4> QED BY <1>1, <1>3, <2>1, <3>2, <4>1, <4>2
    <3> QED BY <3>3, <3>4
  <2> QED BY <2>6, <2>7
<1>6. ASSUME DeleteFileMisses(c) PROVE Cell!DeleteReturns(c)
  <2>1. /\ call[c].op = "Delete" /\ pc[c] = "load"
        /\ Returns(c, DeleteAnswer(c, FALSE), 0)
    BY <1>6 DEF DeleteFileMisses, Running
  <2>2. DeleteAnswer(c, FALSE) = IF c \in Deleted THEN "deleted" ELSE "notLoggedIn"
    BY <1>1, <2>1 DEF DeleteAnswer, Deleted
  <2>3. Cell!Returns(c, Told(DeleteAnswer(c, FALSE)), 0)
    BY <1>1, <2>1, <2>2, ReturnsMaps DEF Answers
  <2>4. Told(DeleteAnswer(c, FALSE)) = DeleteAnswer(c, FALSE) BY <2>2 DEF Told
  <2> QED BY <1>1, <2>1, <2>2, <2>3, <2>4 DEF Cell!DeleteReturns
<1>7. ASSUME KeyringSetFallsBack(c) \/ KeyringMisses(c) \/ ReadsEntries(c)
      PROVE UNCHANGED Cell!vars
  <2>1. PICK label \in {"load", "write"} : Goto(c, label)
    BY <1>7 DEF KeyringSetFallsBack, KeyringMisses, ReadsEntries
  <2>2. Busy' = Busy BY <1>1, <2>1 DEF Goto, Busy, TypeOK
  <2>3. Results' = Results
    <3>1. UNCHANGED <<answer, value>> BY <2>1 DEF Goto
    <3> QED BY <1>1, <3>1 DEF Results, Told
  <2>4. \A d \in Callers : d # c => pc'[d] = pc[d] /\ keyringErr'[d] = keyringErr[d]
    BY <1>7, <2>1
    DEF KeyringSetFallsBack, KeyringMisses, ReadsEntries, Goto, TypeOK
  <2>5. (c \in Deleted)' <=> c \in Deleted
    <3>1. CASE KeyringSetFallsBack(c)
      BY <3>1 DEF KeyringSetFallsBack, Goto, Running, Deleted
    <3>2. CASE KeyringMisses(c)
      <4>1. keyringErr'[c] # "nil" BY <3>2 DEF KeyringMisses, Miss, TypeOK
      <4> QED BY <3>2, <4>1 DEF KeyringMisses, Deleted
    <3>3. CASE ReadsEntries(c)
      BY <1>1, <2>2, <3>3 DEF ReadsEntries, Goto, Deleted, TypeOK
    <3> QED BY <1>7, <3>1, <3>2, <3>3
  <2>6. call' = call BY <2>1 DEF Goto
  <2>7. Deleted' = Deleted BY <2>2, <2>4, <2>5, <2>6 DEF Deleted, Busy
  <2> QED BY <1>1, <2>2, <2>3, <2>6, <2>7 DEF Cell!vars
<1> QED BY <1>2, <1>4, <1>5, <1>6, <1>7 DEF Reads

(* Every step of the stores is one of the cell.                            *)
LEMMA CellStep ==
    ASSUME TypeOK, NoErrYet, OneStore(host), OneStoreInv, [Next]_vars
    PROVE  [Cell!Next]_(Cell!vars)
<1>1. ASSUME NEW c \in Callers, NEW op \in {"Save", "Load", "Delete"},
             NEW k \in host.clients, Begin(c, op, k)
      PROVE Cell!Begin(c)
  <2> DEFINE t == IF op = "Save" THEN saves + 1 ELSE 0
  <2>1. k \in Clients BY ConstantsAssumption DEF HostType, TypeOK
  <2>2. t \in 0..MaxSaves /\ ((op = "Save") <=> (t # 0))
    BY <1>1, ConstantsAssumption DEF Begin, TypeOK, Maybe
  <2>3. /\ call' = [call EXCEPT ![c] = [op |-> op, client |-> k, token |-> t]]
        /\ pc[c] = "idle" /\ pc' = [pc EXCEPT ![c] = "keyring"]
        /\ answer' = [answer EXCEPT ![c] = "none"]
        /\ value' = [value EXCEPT ![c] = 0]
        /\ UNCHANGED <<keyring, file, keyringErr, host>>
    BY <1>1 DEF Begin, storeVars, hostVars
  <2>4. seen' = [seen EXCEPT ![c] = IF op = "Load" THEN {Held[k]} ELSE {}]
    BY <1>1 DEF Begin, OneStoreInv
  <2> HIDE DEF t
  <2>5. c \notin Busy /\ Busy' = Busy \union {c} BY <2>3 DEF Busy, TypeOK
  <2>6. Deleted' = Deleted BY <2>3, <2>5 DEF Deleted, Busy, TypeOK
  <2>7. Results' = [Results EXCEPT ![c] = [answer |-> "none", token |-> 0]]
    BY <2>3 DEF Results, Told, TypeOK
  <2>8. Held' = Held BY <2>3 DEF Held
  <2>9. \E o \in {"Save", "Load", "Delete"}, j \in Clients, v \in 0..MaxSaves :
          /\ (o = "Save") <=> (v # 0)
          /\ call' = [call EXCEPT ![c] = [op |-> o, client |-> j, token |-> v]]
          /\ seen' = [seen EXCEPT ![c] = IF o = "Load" THEN {Held[j]} ELSE {}]
    BY <2>1, <2>2, <2>3, <2>4
  <2> QED BY <2>5, <2>6, <2>7, <2>8, <2>9 DEF Cell!Begin, Cell!Answer
<1>2. ASSUME NEW c \in Callers, Writes(c) PROVE Cell!Save(c) \/ Cell!Delete(c)
  BY <1>2, CellWrite
<1>3. ASSUME NEW c \in Callers, Reads(c)
      PROVE \/ Cell!DeleteReturns(c) \/ Cell!Load(c) \/ Cell!Fails(c)
            \/ UNCHANGED Cell!vars
  BY <1>3, CellRead
<1>4. ASSUME FileRemoved PROVE Cell!Lost
  <2> DEFINE lost == IF FileUnused(host) THEN {} ELSE Clients
  <2>1. /\ UNCHANGED <<keyring, pc, call, keyringErr, answer, value, host>>
        /\ file' = NoTokens
        /\ seen' = [c \in Callers |-> IF Running(c, "Load")
                      THEN seen[c] \union {keyring[Client(c)]} ELSE seen[c]]
    BY <1>4 DEF FileRemoved, callVars, hostVars
  <2>2. \A k \in Clients : keyring[k] = IF k \in lost THEN 0 ELSE Held[k]
    BY HeldFacts DEF NoTokens
  <2>3. Held' = keyring BY <2>1 DEF Held, NoTokens, TypeOK
  <2>4. keyring = [k \in Clients |-> IF k \in lost THEN 0 ELSE Held[k]]
    BY <2>2 DEF TypeOK
  <2>5. seen' = [c \in Callers |-> IF Cell!Loads(c)
                  THEN seen[c] \union {keyring[Client(c)]} ELSE seen[c]]
    <3>1. \A c \in Callers : Cell!Loads(c) <=> Running(c, "Load")
      BY DEF Cell!Loads, Running, Busy
    <3> QED BY <2>1, <3>1
  <2>6. Cell!Holds(keyring) BY <2>3, <2>5 DEF Cell!Holds, Cell!Client, Client
  <2>7. lost \in SUBSET Clients OBVIOUS
  <2> HIDE DEF lost
  <2>8. UNCHANGED <<Busy, Deleted, call, Results>>
    BY <2>1 DEF Busy, Deleted, Results, Told
  <2> QED BY <2>4, <2>6, <2>7, <2>8 DEF Cell!Lost
<1>5. ASSUME FileDamaged \/ UNCHANGED vars \/ \E c \in Callers : ReachChanges(c)
      PROVE UNCHANGED Cell!vars
  <2>1. UNCHANGED <<keyring, file, pc, call, keyringErr, answer, value, host, seen>>
    BY <1>5 DEF FileDamaged, ReachChanges, vars, storeVars, callVars, hostVars,
       ghostVars
  <2> QED BY <2>1 DEF Cell!vars, Held, Busy, Deleted, Results, Told
<1> QED BY <1>1, <1>2, <1>3, <1>4, <1>5
    DEF Next, KeyringStep, FileStep, Reads, Writes, Cell!Next

LEMMA CellInit == Init => Cell!Init
<1> SUFFICES ASSUME Init PROVE Cell!Init OBVIOUS
<1>1. Held = [k \in Clients |-> 0] BY DEF Init, Held, NoTokens
<1>2. Busy = {} /\ Deleted = {} BY DEF Init, Busy, Deleted
<1>3. Results = [c \in Callers |-> [answer |-> "none", token |-> 0]]
  BY DEF Init, Results, Told
<1> QED BY <1>1, <1>2, <1>3 DEF Init, Cell!Init, Cell!Answer, NoCall

(* Where every host has one store, the two stores together are one cell    *)
(* per client.  (Save, Load, Delete.)                                      *)
THEOREM ImplementsCell ==
    ASSUME \A h \in Hosts : OneStore(h)
    PROVE  Spec => ImplementsTokenCell
<1>1. Init => NoErrYet BY DEF Init, NoErrYet
<1>2. StoreInv => TypeOK /\ OneStore(host) /\ OneStoreInv
  BY DEF StoreInv, TypeOK
<1>3. StoreInv /\ NoErrYet /\ [Next]_vars => NoErrYet'
  BY <1>2, NoErrStep
<1>4. StoreInv /\ NoErrYet /\ [Next]_vars => [Cell!Next]_(Cell!vars)
  BY <1>2, CellStep
<1> QED BY <1>1, <1>3, <1>4, CellInit, StoreInductive, PTL
    DEF Spec, ImplementsTokenCell, Cell!Spec
=============================================================================
