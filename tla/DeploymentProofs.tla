--------------------------- MODULE DeploymentProofs ---------------------------
(***************************************************************************)
(* Proofs about Deployment, for every set of logins, spellings, issuers    *)
(* and client ids, every metadata and every number of edits.               *)
(***************************************************************************)
EXTENDS Deployment, TLAPS

Labels == {"idle", "lookup", "approval", "save", "reread", "rename"}
Sources == {"none", "file", "command-line", "discovered", "hostname"}

(* No value of a login key is empty.                                       *)
LEMMA ValueFacts ==
    /\ Unset \in Texts
    /\ \A k \in Keys : Values(k) \subseteq Texts /\ Unset \notin Values(k)
  BY ConstantsAssumption DEF Texts, Keys, loginKeys, Values, Unset

(* What an API's spelling comes to.                                        *)
LEMMA APIFacts ==
    /\ APIs \subseteq Spellings
    /\ \A s \in Spellings \union {Unset} :
          normalizeAPI(s) # Malformed =>
              normalizeAPI(s) \in APIs /\ normalizeAPI(s) # Unset
  BY ConstantsAssumption DEF APIs, normalizeAPI

(* Reading a file: a key it lacks is Unset, and no other where the file    *)
(* can be read.                                                            *)
LEMMA ReadFacts ==
    ASSUME NEW f \in FileType, NEW k \in Keys
    PROVE  /\ f[k] = <<>> => readConfigFile(f)[k] = Unset
           /\ f[k] # <<>> => readConfigFile(f)[k] = f[k][1]
           /\ readConfigFile(f)[k] \in Values(k) \union {Unset}
           /\ readable(f) => /\ readConfigFile(f)[k] = Unset => f[k] = <<>>
                             /\ Len(f[k]) <= 1
<1>1. f[k] \in Seq(Values(k) \union {Unset}) BY DEF FileType
<1>2. f[k] # <<>> => f[k][1] \in Values(k) \union {Unset} BY <1>1
<1>3. readConfigFile(f)[k] = IF f[k] = <<>> THEN Unset ELSE f[k][1]
  BY DEF readConfigFile
<1>4. readable(f) => (readConfigFile(f)[k] = Unset => f[k] = <<>>)
  BY <1>3 DEF readable
<1>5. ASSUME readable(f) PROVE Len(f[k]) <= 1
  <2>1. CASE f[k] = <<>>
    <3>1. Len(f[k]) = 0 BY <2>1
    <3> QED BY <3>1
  <2>2. CASE Len(f[k]) = 1 BY <2>2
  <2> QED BY <1>5, <2>1, <2>2 DEF readable
<1> QED BY <1>2, <1>3, <1>4, <1>5

(* What a save finds missing: a key that neither the file nor, when the    *)
(* deployment was resolved, the file then had.                             *)
LEMMA LackFacts ==
    ASSUME NEW d \in [loginKeys -> Setting], NEW current
    PROVE  /\ unsaved(d, current) \in [loginKeys -> Texts]
           /\ \A k \in loginKeys : unsaved(d, current)[k] # Unset =>
                 /\ current[k] = Unset /\ d[k].source # "file"
                 /\ unsaved(d, current)[k] = d[k].value
           /\ \A k \in loginKeys :
                 current[k] = Unset /\ d[k].source # "file" =>
                     unsaved(d, current)[k] = d[k].value
           /\ (\A k \in loginKeys : unsaved(d, current)[k] = Unset) =>
                 unsaved(d, current) = NothingMissing
<1>1. \A k \in loginKeys : d[k].value \in Texts BY DEF Setting
<1> QED BY <1>1, ValueFacts DEF unsaved, NothingMissing

(* A key added above the file's own definitions of it.                     *)
LEMMA AddFacts ==
    ASSUME NEW S, NEW s \in Seq(S), NEW v \in S
    PROVE  /\ <<v>> \o s \in Seq(S) /\ <<>> \o s = s
           /\ s = <<>> => Len(<<v>> \o s) = 1
           /\ <<v>> \o s # <<>> /\ (<<v>> \o s)[1] = v
<1>1. <<v>> \o s \in Seq(S) OBVIOUS
<1>2. <<>> \o s = s OBVIOUS
<1>3. s = <<>> => Len(<<v>> \o s) = 1 OBVIOUS
<1>4. (<<v>> \o s)[1] = v OBVIOUS
<1>5. <<v>> \o s # <<>>
  <2>1. Len(<<v>> \o s) = 1 + Len(s) /\ Len(s) \in Nat OBVIOUS
  <2> QED BY <2>1
<1> QED BY <1>1, <1>2, <1>3, <1>4, <1>5

(* The deployment a login resolves: typed, and of the file's own values    *)
(* where the file has them.                                                *)
LEMMA ResolvedFacts ==
    ASSUME TypeOK, NEW l \in Logins, NEW api \in Spellings \union {Unset},
           NEW c \in ClientIDs \union {Unset}, DeploymentForLogin(l, api, c),
           NEW current, current = readConfigFile(file)
    PROVE  /\ dep' = [dep EXCEPT ![l] = dep'[l]]
           /\ dep'[l] \in [loginKeys -> Setting]
           /\ \A k \in loginKeys :
                 /\ dep'[l][k].value \in Values(k) \union {Unset}
                 /\ current[k] # Unset <=> dep'[l][k].source = "file"
           /\ \A k \in {"issuer", "client_id"} :
                 current[k] # Unset => dep'[l][k].value = current[k]
           /\ Unset \notin {dep'[l].api.value, dep'[l].client_id.value}
           /\ dep'[l].issuer.value # Unset \/ dep'[l].issuer = NoSetting
<1> DEFINE url == IF current["api"] # Unset THEN current["api"] ELSE api
           typed(v) == [value |-> v, source |-> "command-line"]
           own == [value |-> Hostname, source |-> "hostname"]
           a == IF current["api"] # Unset THEN fromFile(normalizeAPI(url))
                ELSE typed(normalizeAPI(url))
           i == IF current["issuer"] # Unset THEN fromFile(current["issuer"])
                ELSE NoSetting
           n == IF current["client_id"] # Unset
                THEN fromFile(current["client_id"])
                ELSE IF c # Unset THEN typed(c) ELSE own
           d == [api |-> a, issuer |-> i, client_id |-> n]
<1>1. /\ current["api"] \in Spellings \union {Unset}
      /\ current["issuer"] \in Issuers \union {Unset}
      /\ current["client_id"] \in ClientIDs \union {Unset}
  BY ReadFacts DEF TypeOK, Keys, loginKeys, Values
<1>2. normalizeAPI(url) \in Spellings /\ normalizeAPI(url) # Unset
  BY <1>1, APIFacts DEF DeploymentForLogin
<1>3. /\ a \in Setting /\ a.value \in Spellings /\ a.value # Unset
      /\ current["api"] # Unset <=> a.source = "file"
  BY <1>2 DEF Setting, Texts, fromFile
<1>4. /\ i \in Setting /\ i.value \in Issuers \union {Unset}
      /\ current["issuer"] # Unset <=> i.source = "file"
      /\ current["issuer"] # Unset => i.value = current["issuer"]
      /\ i.value # Unset \/ i = NoSetting
  BY <1>1 DEF Setting, Texts, fromFile, NoSetting
<1>5. /\ n \in Setting /\ n.value \in ClientIDs /\ n.value # Unset
      /\ current["client_id"] # Unset <=> n.source = "file"
      /\ current["client_id"] # Unset => n.value = current["client_id"]
  BY <1>1, ConstantsAssumption DEF Setting, Texts, fromFile
<1>6. dep' = [dep EXCEPT ![l] = d] BY DEF DeploymentForLogin
<1>7. dep'[l] = d BY <1>6 DEF TypeOK
<1> HIDE DEF a, i, n
<1>8. d \in [loginKeys -> Setting] BY <1>3, <1>4, <1>5 DEF loginKeys
<1>9. /\ d["api"] = a /\ d["issuer"] = i /\ d["client_id"] = n
      /\ d.api = a /\ d.issuer = i /\ d.client_id = n
  OBVIOUS
<1> HIDE DEF d
<1>10. \A k \in loginKeys :
          /\ d[k].value \in Values(k) \union {Unset}
          /\ current[k] # Unset <=> d[k].source = "file"
  BY <1>3, <1>4, <1>5, <1>9 DEF loginKeys, Values
<1>11. \A k \in {"issuer", "client_id"} :
          current[k] # Unset => d[k].value = current[k]
  BY <1>4, <1>5, <1>9
<1> QED BY <1>3, <1>4, <1>5, <1>6, <1>7, <1>8, <1>9, <1>10, <1>11

(* The issuer it looks up, and nothing else, is filled in.                 *)
LEMMA LookedUpFacts ==
    ASSUME TypeOK, NEW l \in Logins, LooksUp(l)
    PROVE  /\ dep' = [dep EXCEPT ![l] = dep'[l]]
           /\ dep'[l] \in [loginKeys -> Setting]
           /\ dep'[l].issuer.value \in Issuers \union {Unset}
           /\ \A k \in {"api", "client_id"} : dep'[l][k] = dep[l][k]
           /\ \/ dep'[l].issuer = dep[l].issuer /\ dep[l].issuer # NoSetting
              \/ /\ dep[l].issuer = NoSetting
                 /\ dep'[l].issuer.source = "discovered"
                 /\ dep'[l].issuer.value # Unset
<1>1. dep[l] \in [loginKeys -> Setting] /\ dep[l].issuer.value \in Issuers \union {Unset}
  <2>1. dep[l] \in [loginKeys -> Setting] BY DEF TypeOK
  <2>2. dep[l]["issuer"].value \in Issuers \union {Unset}
    BY DEF TypeOK, loginKeys, Values
  <2> QED BY <2>1, <2>2
<1>2. CASE UNCHANGED dep /\ dep[l].issuer # NoSetting
  BY <1>1, <1>2 DEF TypeOK
<1>3. ASSUME NEW i \in discoverAuthorizationServer(dep[l].api.value),
             dep[l].issuer = NoSetting,
             dep' = [dep EXCEPT ![l].issuer = [value |-> i, source |-> "discovered"]]
      PROVE /\ dep' = [dep EXCEPT ![l] = dep'[l]]
            /\ dep'[l] \in [loginKeys -> Setting]
            /\ dep'[l].issuer.value \in Issuers
            /\ \A k \in {"api", "client_id"} : dep'[l][k] = dep[l][k]
            /\ dep'[l].issuer.source = "discovered"
  <2>1. dep[l].api.value \in Spellings \union {Unset}
    BY <1>1 DEF TypeOK, loginKeys, Values
  <2>2. dep[l].api.value \in Spellings
    BY <2>1 DEF LooksUp, TypeOK
  <2>3. i \in Issuers
    BY <2>2, <1>3, ConstantsAssumption DEF discoverAuthorizationServer
  <2>4. [value |-> i, source |-> "discovered"] \in Setting
    BY <2>3 DEF Setting, Texts
  <2> DEFINE r == [value |-> i, source |-> "discovered"]
             d == [dep[l] EXCEPT !.issuer = r]
  <2>5. dep' = [dep EXCEPT ![l] = d] BY <1>3
  <2>6. dep'[l] = d BY <2>5 DEF TypeOK
  <2>7. d.issuer = r /\ \A k \in {"api", "client_id"} : d[k] = dep[l][k]
    BY <1>1 DEF loginKeys
  <2>8. d \in [loginKeys -> Setting] BY <1>1, <2>4
  <2>9. r.value = i /\ r.source = "discovered" OBVIOUS
  <2> HIDE DEF r, d
  <2> QED BY <2>3, <2>5, <2>6, <2>7, <2>8, <2>9
<1>4. \A x \in Issuers : x # Unset BY ConstantsAssumption
<1> QED BY <1>1, <1>2, <1>3, <1>4 DEF LooksUp
(* The types of what the logins keep.                                      *)
LoginType ==
    /\ pc \in [Logins -> Labels]
    /\ dep \in [Logins -> [loginKeys -> Setting]]
    /\ missing \in [Logins -> [loginKeys -> Texts]]
    /\ snap \in [Logins -> FileType]
    /\ \A l \in Logins :
          /\ \A k \in loginKeys :
                {dep[l][k].value, missing[l][k]} \subseteq Values(k) \union {Unset}
          /\ pc[l] # "idle" => Unset \notin {dep[l].api.value, dep[l].client_id.value}

(* A file, a deployment and a list of missing keys with nothing in them.   *)
LEMMA EmptyFacts ==
    /\ EmptyFile \in FileType /\ \A k \in Keys : EmptyFile[k] = <<>>
    /\ NoDeployment \in [loginKeys -> Setting]
    /\ NothingMissing \in [loginKeys -> Texts]
    /\ \A k \in loginKeys :
          NoDeployment[k].value = Unset /\ NothingMissing[k] = Unset
<1>1. NoSetting \in Setting /\ NoSetting.value = Unset
  BY ValueFacts DEF NoSetting, Setting
<1>2. EmptyFile \in FileType
  <2>1. \A S : <<>> \in Seq(S) OBVIOUS
  <2> QED BY <2>1 DEF EmptyFile, FileType
<1> QED BY <1>1, <1>2, ValueFacts DEF EmptyFile, NoDeployment, NothingMissing

(* A login that ends forgets what it kept.                                 *)
LEMMA EndsType == ASSUME TypeOK, NEW l \in Logins, Ends(l) PROVE LoginType'
<1>1. LoginType BY DEF TypeOK, LoginType, Labels
<1>2. /\ pc' \in [Logins -> Labels]
      /\ dep' \in [Logins -> [loginKeys -> Setting]]
      /\ missing' \in [Logins -> [loginKeys -> Texts]]
      /\ snap' \in [Logins -> FileType]
  BY <1>1, EmptyFacts DEF Ends, Moves, LoginType, Labels
<1>3. ASSUME NEW m \in Logins
      PROVE /\ \A k \in loginKeys :
                 {dep[m][k].value, missing[m][k]}' \subseteq Values(k) \union {Unset}
            /\ pc'[m] # "idle" =>
                 Unset \notin {dep'[m].api.value, dep'[m].client_id.value}
  <2>1. CASE m = l
    <3>1. pc'[m] = "idle" /\ dep'[m] = NoDeployment /\ missing'[m] = NothingMissing
      BY <1>1, <2>1 DEF Ends, Moves, LoginType
    <3> QED BY <3>1, EmptyFacts
  <2>2. CASE m # l
    <3>1. pc'[m] = pc[m] /\ dep'[m] = dep[m] /\ missing'[m] = missing[m]
      BY <1>1, <2>2 DEF Ends, Moves, LoginType
    <3> QED BY <3>1, <1>1 DEF LoginType
  <2> QED BY <2>1, <2>2
<1> QED BY <1>2, <1>3 DEF LoginType

(* A move that changes one login's deployment, or what it found missing.   *)
LEMMA MoveType ==
    ASSUME TypeOK, NEW l \in Logins, NEW label \in Labels, Moves(l, label),
           dep' = [dep EXCEPT ![l] = dep'[l]], dep'[l] \in [loginKeys -> Setting],
           missing' = [missing EXCEPT ![l] = missing'[l]],
           missing'[l] \in [loginKeys -> Texts],
           snap' = [snap EXCEPT ![l] = snap'[l]], snap'[l] \in FileType,
           \A k \in loginKeys :
              dep'[l][k].value \in Values(k) \union {Unset}
              /\ missing'[l][k] \in Values(k) \union {Unset},
           Unset \notin {dep'[l].api.value, dep'[l].client_id.value}
    PROVE  LoginType'
<1>1. LoginType BY DEF TypeOK, LoginType, Labels
<1>2. /\ pc' \in [Logins -> Labels]
      /\ dep' \in [Logins -> [loginKeys -> Setting]]
      /\ missing' \in [Logins -> [loginKeys -> Texts]]
      /\ snap' \in [Logins -> FileType]
  BY <1>1 DEF Moves, LoginType
<1>3. ASSUME NEW m \in Logins
      PROVE /\ \A k \in loginKeys :
                 {dep[m][k].value, missing[m][k]}' \subseteq Values(k) \union {Unset}
            /\ pc'[m] # "idle" =>
                 Unset \notin {dep'[m].api.value, dep'[m].client_id.value}
  <2>1. CASE m = l BY <2>1
  <2>2. CASE m # l
    <3>1. pc'[m] = pc[m] /\ dep'[m] = dep[m] /\ missing'[m] = missing[m]
      BY <1>1, <2>2 DEF Moves, LoginType
    <3> QED BY <3>1, <1>1 DEF LoginType
  <2> QED BY <2>1, <2>2
<1> QED BY <1>2, <1>3 DEF LoginType
(* What a save writes: the keys it found missing above the file it read.   *)
LEMMA WriteFacts ==
    ASSUME TypeOK, NEW l \in Logins, writeFileAtomically(l)
    PROVE  /\ file' \in FileType
           /\ \A k \in Keys :
                 \/ k \notin loginKeys \/ missing[l][k] = Unset
                 \/ snap[l][k] # <<>>
                 \/ Len(file'[k]) = 1
           /\ \A k \in Keys :
                 IF k \in loginKeys /\ missing[l][k] # Unset
                 THEN file'[k] # <<>> /\ file'[k][1] = missing[l][k]
                 ELSE file'[k] = snap[l][k]
<1> DEFINE add(k) == IF k \in loginKeys /\ missing[l][k] # Unset
                     THEN <<missing[l][k]>> ELSE <<>>
           Kind(k) == Values(k) \union {Unset}
<1>1. file' = [k \in Keys |-> add(k) \o snap[l][k]] BY DEF writeFileAtomically
<1>2. \A k \in Keys : snap[l][k] \in Seq(Kind(k)) /\ snap[l][k] \in Seq(Texts)
  BY DEF TypeOK, FileType
<1>3. \A k \in loginKeys : missing[l][k] \in Kind(k) /\ missing[l][k] \in Texts
  BY DEF TypeOK
<1> HIDE DEF Kind
<1>4. ASSUME NEW k \in Keys, add(k) = <<>>
      PROVE file'[k] = snap[l][k]
  <2>1. file'[k] = <<>> \o snap[l][k] BY <1>1, <1>4
  <2>2. <<>> \o snap[l][k] = snap[l][k] BY <1>2
  <2> QED BY <2>1, <2>2
<1>5. ASSUME NEW k \in loginKeys, missing[l][k] # Unset
      PROVE /\ file'[k] \in Seq(Kind(k)) /\ file'[k] \in Seq(Texts)
            /\ file'[k] # <<>> /\ file'[k][1] = missing[l][k]
            /\ snap[l][k] = <<>> => Len(file'[k]) = 1
  <2> DEFINE s == snap[l][k]
             v == missing[l][k]
  <2>1. k \in Keys BY DEF Keys
  <2>2. file'[k] = <<v>> \o s BY <1>1, <1>5, <2>1
  <2>3. s \in Seq(Kind(k)) /\ v \in Kind(k) BY <1>2, <1>3, <2>1
  <2>4. s \in Seq(Texts) /\ v \in Texts BY <1>2, <1>3, <2>1
  <2> HIDE DEF s, v
  <2>5. file'[k] \in Seq(Texts) BY <2>2, <2>4, AddFacts
  <2>6. /\ file'[k] \in Seq(Kind(k))
        /\ file'[k] # <<>> /\ file'[k][1] = v
        /\ s = <<>> => Len(file'[k]) = 1
    BY <2>2, <2>3, AddFacts
  <2> QED BY <2>5, <2>6 DEF s, v
<1>6. \A k \in Keys : file'[k] \in Seq(Kind(k)) /\ file'[k] \in Seq(Texts)
  BY <1>2, <1>4, <1>5
<1>7. file' \in [Keys -> Seq(Texts)] BY <1>1, <1>6
<1> QED BY <1>4, <1>5, <1>6, <1>7 DEF FileType, Kind, Keys

(* A definition that somebody else gives a key.                            *)
LEMMA DefinitionFacts ==
    ASSUME NEW k \in Keys, NEW d \in Definitions(k)
    PROVE  /\ d \in Seq(Values(k) \union {Unset}) /\ d \in Seq(Texts)
           /\ Len(d) <= 1
<1>1. d \in Seq(Values(k) \union {Unset}) /\ Len(d) <= 1
  <2>1. CASE d = <<>> BY <2>1
  <2>2. ASSUME NEW v \in Values(k) \union {Unset}, d = <<v>>
        PROVE d \in Seq(Values(k) \union {Unset}) /\ Len(d) <= 1
    BY <2>2
  <2> QED BY <2>1, <2>2 DEF Definitions
<1> QED BY <1>1, ValueFacts

(* The types of what the commands, the token store and the others keep.    *)
CommandType ==
    /\ linked \in BOOLEAN
    /\ tokens \in [ClientIDs -> Issuers \union {Unset}]
    /\ cmd # Nothing => /\ cmd \in Loaded
                        /\ ~cmd.handed => Unset \notin {cmd.issuer, cmd.client}
    /\ sent # Nothing => sent \in Request
    /\ edits \in 0..MaxEdits

LEMMA TypeParts == TypeOK <=> file \in FileType /\ LoginType /\ CommandType
  BY DEF TypeOK, LoginType, CommandType, Labels

(* Every login step keeps the types.                                       *)
LEMMA LoginTypeStep ==
    ASSUME TypeOK, NEW l \in Logins, LoginStep(l)
    PROVE  file' \in FileType /\ LoginType' /\ CommandType'
<1>1. file \in FileType /\ LoginType /\ CommandType BY TypeParts
<1>2. /\ dep[l] \in [loginKeys -> Setting] /\ missing[l] \in [loginKeys -> Texts]
      /\ snap[l] \in FileType
      /\ \A k \in loginKeys : dep[l][k].value \in Values(k) \union {Unset}
                            /\ missing[l][k] \in Values(k) \union {Unset}
      /\ pc[l] # "idle" => Unset \notin {dep[l].api.value, dep[l].client_id.value}
  BY <1>1 DEF LoginType
<1>3. ASSUME UNCHANGED <<missing, snap>>
      PROVE  /\ missing' = [missing EXCEPT ![l] = missing'[l]]
             /\ missing'[l] = missing[l]
             /\ snap' = [snap EXCEPT ![l] = snap'[l]] /\ snap'[l] = snap[l]
  BY <1>1, <1>3 DEF LoginType
<1>4. UNCHANGED dep => dep' = [dep EXCEPT ![l] = dep'[l]] /\ dep'[l] = dep[l]
  BY <1>1 DEF LoginType
<1>5. ASSUME NEW api \in Spellings \union {Unset}, NEW c \in ClientIDs \union {Unset},
             DeploymentForLogin(l, api, c)
      PROVE  LoginType'
  <2>1. Moves(l, "lookup") /\ "lookup" \in Labels /\ UNCHANGED <<missing, snap>>
    BY <1>5 DEF DeploymentForLogin, Labels
  <2>2. /\ dep' = [dep EXCEPT ![l] = dep'[l]] /\ dep'[l] \in [loginKeys -> Setting]
        /\ \A k \in loginKeys : dep'[l][k].value \in Values(k) \union {Unset}
        /\ Unset \notin {dep'[l].api.value, dep'[l].client_id.value}
    BY <1>5, ResolvedFacts
  <2> QED BY <1>2, <1>3, <2>1, <2>2, MoveType
<1>6. ASSUME LooksUp(l) PROVE LoginType'
  <2>1. Moves(l, "approval") /\ "approval" \in Labels /\ UNCHANGED <<missing, snap>>
    BY <1>6 DEF LooksUp, Labels
  <2>2. /\ dep' = [dep EXCEPT ![l] = dep'[l]] /\ dep'[l] \in [loginKeys -> Setting]
        /\ dep'[l].issuer.value \in Issuers \union {Unset}
        /\ dep'[l]["api"] = dep[l]["api"] /\ dep'[l]["client_id"] = dep[l]["client_id"]
    BY <1>6, LookedUpFacts
  <2>3. dep'[l]["issuer"] = dep'[l].issuer /\ dep'[l].api = dep[l].api
        /\ dep'[l].client_id = dep[l].client_id
    BY <2>2
  <2>4. \A k \in loginKeys : dep'[l][k].value \in Values(k) \union {Unset}
    BY <1>2, <2>2, <2>3 DEF loginKeys, Values
  <2>5. pc[l] # "idle" BY <1>6 DEF LooksUp
  <2>6. Unset \notin {dep'[l].api.value, dep'[l].client_id.value}
    BY <1>2, <2>3, <2>5
  <2> QED BY <1>2, <1>3, <2>1, <2>2, <2>4, <2>6, MoveType
<1>7. ASSUME StoresToken(l) PROVE LoginType' /\ tokens' \in [ClientIDs -> Issuers \union {Unset}]
  <2>1. dep[l].issuer = dep[l]["issuer"] BY <1>2
  <2>2. dep[l].issuer.value \in Issuers \union {Unset}
    BY <1>2, <2>1 DEF loginKeys, Values
  <2>3. tokens' \in [ClientIDs -> Issuers \union {Unset}]
    BY <1>1, <1>7, <2>2 DEF StoresToken, CommandType
  <2>4. Moves(l, "save") /\ "save" \in Labels /\ UNCHANGED <<dep, missing, snap>>
        /\ pc[l] # "idle"
    BY <1>7 DEF StoresToken, Labels
  <2> QED BY <1>2, <1>3, <1>4, <2>3, <2>4, MoveType
<1>8. ASSUME SaveReads(l) PROVE LoginType'
  <2> DEFINE lacks == unsaved(dep[l], readConfigFile(file))
  <2>1. CASE Ends(l) BY <2>1, EndsType
  <2>2. ASSUME missing' = [missing EXCEPT ![l] = lacks], Moves(l, "reread"),
               UNCHANGED <<dep, snap>>
        PROVE  LoginType'
    <3>1. lacks \in [loginKeys -> Texts]
          /\ \A k \in loginKeys : lacks[k] \in {dep[l][k].value, Unset}
      BY <1>2, LackFacts
    <3>2. missing'[l] = lacks BY <1>1, <2>2 DEF LoginType
    <3>3. snap' = [snap EXCEPT ![l] = snap'[l]] /\ snap'[l] = snap[l]
      BY <1>1, <2>2 DEF LoginType
    <3>4. "reread" \in Labels /\ pc[l] # "idle" BY <1>8 DEF SaveReads, Labels
    <3> HIDE DEF lacks
    <3>5. dep' = [dep EXCEPT ![l] = dep'[l]] /\ dep'[l] = dep[l] BY <1>4, <2>2
    <3>6. missing' = [missing EXCEPT ![l] = missing'[l]] BY <2>2, <3>2
    <3>7. \A k \in loginKeys : missing'[l][k] \in Values(k) \union {Unset}
      BY <1>2, <3>1, <3>2
    <3>8. snap'[l] \in FileType /\ missing'[l] \in [loginKeys -> Texts]
      BY <1>2, <3>1, <3>2, <3>3
    <3>9. Moves(l, "reread") BY <2>2
    <3> QED BY <1>2, <3>3, <3>4, <3>5, <3>6, <3>7, <3>8, <3>9, MoveType
  <2> QED BY <1>8, <2>1, <2>2 DEF SaveReads
<1>9. ASSUME SaveRereads(l) PROVE LoginType'
  <2>1. missing' = [missing EXCEPT ![l] = missing'[l]] /\ missing'[l] = missing[l]
    BY <1>1, <1>9 DEF SaveRereads, LoginType
  <2>2. snap' = [snap EXCEPT ![l] = snap'[l]] /\ snap'[l] \in FileType
    BY <1>1, <1>9 DEF SaveRereads, LoginType
  <2>3. Moves(l, "rename") /\ "rename" \in Labels /\ UNCHANGED dep /\ pc[l] # "idle"
    BY <1>9 DEF SaveRereads, Labels
  <2> QED BY <1>2, <1>4, <2>1, <2>2, <2>3, MoveType
<1>10. ASSUME writeFileAtomically(l)
       PROVE  LoginType' /\ file' \in FileType /\ linked' \in BOOLEAN
  <2>1. LoginType' BY <1>10, EndsType DEF writeFileAtomically
  <2>2. file' \in FileType BY <1>10, WriteFacts
  <2>3. linked' \in BOOLEAN BY <1>1, <1>10 DEF writeFileAtomically, CommandType
  <2> QED BY <2>1, <2>2, <2>3
<1>11. ASSUME Fails(l) PROVE LoginType' BY <1>11, EndsType DEF Fails
<1>12. UNCHANGED file \/ writeFileAtomically(l)
  BY DEF DeploymentForLogin, LoginStep, LooksUp, StoresToken, SaveReads, SaveRereads, Fails
<1>13. UNCHANGED linked \/ writeFileAtomically(l)
  BY DEF DeploymentForLogin, LoginStep, LooksUp, StoresToken, SaveReads, SaveRereads, Fails
<1>14. UNCHANGED tokens \/ StoresToken(l)
  BY DEF DeploymentForLogin, LoginStep, LooksUp, SaveReads, SaveRereads,
         writeFileAtomically, Fails
<1>15. UNCHANGED <<cmdVars, edits>>
  BY DEF DeploymentForLogin, LoginStep, LooksUp, StoresToken, SaveReads, SaveRereads,
         writeFileAtomically, Fails
<1>16. LoginType' BY <1>5, <1>6, <1>7, <1>8, <1>9, <1>10, <1>11 DEF LoginStep
<1>17. CommandType' BY <1>1, <1>7, <1>10, <1>13, <1>14, <1>15 DEF CommandType, cmdVars
<1>18. file' \in FileType BY <1>1, <1>10, <1>12
<1> QED BY <1>16, <1>17, <1>18

(* What a command loads: an API, its own unless a flag names another whose *)
(* metadata names the file's issuer, and the file's issuer and client id.  *)
LEMMA LoadedFacts ==
    ASSUME TypeOK, NEW flag \in Spellings \union {Unset}, LoadDeployment(flag),
           NEW current, current = readConfigFile(file)
    PROVE  /\ cmd' \in Loaded
           /\ ~cmd'.handed => /\ Unset \notin {cmd'.issuer, cmd'.client}
                              /\ cmd'.issuer = current["issuer"]
                              /\ cmd'.client = current["client_id"]
           /\ cmd'.own \/ cmd'.issuer \in Names[cmd'.to]
<1> DEFINE url == IF flag # Unset THEN flag ELSE current["api"]
           own == flag = Unset \/ normalizeAPI(flag) = normalizeAPI(current["api"])
           handed == HandsTokens(current)
           to == normalizeAPI(url)
           r == [to |-> to, own |-> own, issuer |-> current["issuer"],
                 client |-> current["client_id"], handed |-> handed]
<1>1. /\ current["api"] \in Spellings \union {Unset}
      /\ current["issuer"] \in Issuers \union {Unset}
      /\ current["client_id"] \in ClientIDs \union {Unset}
  BY ReadFacts DEF TypeOK, Keys, loginKeys, Values
<1>2. to \in APIs BY <1>1, APIFacts DEF LoadDeployment
<1>3. own \in BOOLEAN OBVIOUS
<1>4. handed \in BOOLEAN BY DEF HandsTokens
<1>5. ~handed => Unset \notin {current["issuer"], current["client_id"]}
  BY DEF LoadDeployment
<1>6. own \/ current["issuer"] \in Names[to]
  BY <1>1, <1>2 DEF LoadDeployment, requireTrustedIssuer
<1>7. cmd' = r BY DEF LoadDeployment
<1> HIDE DEF to, own, handed
<1>8. r \in Loaded BY <1>1, <1>2, <1>3, <1>4 DEF Loaded
<1>9. /\ r.to = to /\ r.own = own /\ r.handed = handed
      /\ r.issuer = current["issuer"] /\ r.client = current["client_id"]
  OBVIOUS
<1> HIDE DEF r
<1> QED BY <1>5, <1>6, <1>7, <1>8, <1>9

(* What a command sends.                                                   *)
LEMMA RequestFacts ==
    ASSUME TypeOK, Requests
    PROVE  /\ sent' \in Request
           /\ sent'.own = cmd.own /\ sent'.to = cmd.to /\ sent'.issuer = cmd.issuer
           /\ cmd.handed => sent'.signed = cmd.issuer
           /\ ~cmd.handed => /\ sent'.signed = tokens[cmd.client]
                             /\ tokens[cmd.client] # Unset /\ cmd.client \in ClientIDs
<1>1. cmd # Nothing /\ (~cmd.handed => tokens[cmd.client] # Unset) BY DEF Requests
<1>2. /\ cmd.to \in APIs /\ cmd.own \in BOOLEAN
      /\ cmd.issuer \in Issuers \union {Unset} /\ cmd.handed \in BOOLEAN
      /\ ~cmd.handed => cmd.client \in ClientIDs
  BY <1>1 DEF TypeOK, Loaded
<1> DEFINE signed == IF cmd.handed THEN cmd.issuer ELSE tokens[cmd.client]
<1>3. signed \in Issuers \union {Unset} BY <1>2 DEF TypeOK
<1>4. sent' = [to |-> cmd.to, own |-> cmd.own, issuer |-> cmd.issuer, signed |-> signed]
  BY DEF Requests
<1>5. cmd.handed => signed = cmd.issuer OBVIOUS
<1>6. ~cmd.handed => signed = tokens[cmd.client] OBVIOUS
<1> HIDE DEF signed
<1>7. sent' \in Request BY <1>2, <1>3, <1>4 DEF Request
<1>8. /\ sent'.own = cmd.own /\ sent'.to = cmd.to /\ sent'.issuer = cmd.issuer
      /\ sent'.signed = signed
  BY <1>4
<1> QED BY <1>1, <1>2, <1>5, <1>6, <1>7, <1>8

LEMMA TypeInit == Init => TypeOK
<1> SUFFICES ASSUME Init PROVE TypeOK OBVIOUS
<1>1. file \in FileType
  <2>1. \A k \in Keys : file[k] \in Definitions(k) BY DEF Init
  <2>2. \A k \in Keys : file[k] \in Seq(Values(k) \union {Unset})
    BY <2>1, DefinitionFacts
  <2>3. \A k \in Keys : file[k] \in Seq(Texts) BY <2>1, DefinitionFacts
  <2>4. file \in [Keys -> UNION {Definitions(k) : k \in Keys}] BY DEF Init
  <2> QED BY <2>2, <2>3, <2>4 DEF FileType
<1>2. LoginType BY EmptyFacts DEF Init, LoginType, Labels
<1>3. CommandType BY ConstantsAssumption DEF Init, CommandType
<1> QED BY <1>1, <1>2, <1>3, TypeParts

(* Every step keeps the types.                                             *)
LEMMA TypeStep == ASSUME TypeOK, [Next]_vars PROVE TypeOK'
<1> DEFINE Same == UNCHANGED <<file, linked, loginVars, tokens, edits>>
<1>1. file \in FileType /\ LoginType /\ CommandType BY TypeParts
<1>2. UNCHANGED loginVars => LoginType' BY <1>1 DEF loginVars, LoginType
<1>3. (file' \in FileType /\ LoginType' /\ CommandType') => TypeOK'
  BY DEF TypeOK, LoginType, CommandType, Labels
<1>4. ASSUME NEW l \in Logins, LoginStep(l) PROVE TypeOK'
  BY <1>3, <1>4, LoginTypeStep
<1>5. ASSUME NEW flag \in Spellings \union {Unset}, LoadDeployment(flag)
      PROVE  TypeOK'
  <2>1. Same /\ UNCHANGED sent BY <1>5 DEF LoadDeployment
  <2>2. /\ cmd' \in Loaded
        /\ ~cmd'.handed => Unset \notin {cmd'.issuer, cmd'.client}
    BY <1>5, LoadedFacts
  <2>3. CommandType' BY <1>1, <2>1, <2>2 DEF CommandType
  <2> QED BY <1>1, <1>2, <1>3, <2>1, <2>3
<1>6. CASE Requests
  <2>1. Same /\ cmd' = Nothing BY <1>6 DEF Requests
  <2>2. sent' \in Request BY <1>6, RequestFacts
  <2>3. CommandType' BY <1>1, <2>1, <2>2 DEF CommandType
  <2> QED BY <1>1, <1>2, <1>3, <2>1, <2>3
<1>7. CASE CommandEnds
  <2>1. Same /\ cmd' = Nothing /\ UNCHANGED sent BY <1>7 DEF CommandEnds
  <2>2. CommandType' BY <1>1, <2>1 DEF CommandType
  <2> QED BY <1>1, <1>2, <1>3, <2>1, <2>2
<1>8. ASSUME NEW k \in Keys, NEW d \in Definitions(k), Edit(k, d) PROVE TypeOK'
  <2>1. file' \in FileType
    BY <1>1, <1>8, DefinitionFacts DEF Edit, FileType
  <2>2. /\ UNCHANGED <<linked, loginVars, tokens, cmdVars>>
        /\ edits < MaxEdits /\ edits' = edits + 1
    BY <1>8 DEF Edit
  <2>3. CommandType' BY <1>1, <2>2, ConstantsAssumption DEF CommandType, cmdVars
  <2> QED BY <1>2, <1>3, <2>1, <2>2, <2>3
<1>9. CASE Link
  <2>1. /\ UNCHANGED <<file, loginVars, tokens, cmdVars>>
        /\ edits < MaxEdits /\ edits' = edits + 1 /\ linked' = ~linked
    BY <1>9 DEF Link
  <2>2. linked' \in BOOLEAN BY <2>1
  <2>3. CommandType' BY <1>1, <2>1, <2>2, ConstantsAssumption DEF CommandType, cmdVars
  <2> QED BY <1>1, <1>2, <1>3, <2>1, <2>3
<1>10. CASE UNCHANGED vars
  BY <1>1, <1>2, <1>3, <1>10 DEF vars, loginVars, cmdVars, CommandType
<1> QED BY <1>4, <1>5, <1>6, <1>7, <1>8, <1>9, <1>10 DEF Next

-----------------------------------------------------------------------------
(* Where a login step leaves each login.                                   *)
LEMMA PcFacts ==
    ASSUME TypeOK, NEW l \in Logins, NEW m \in Logins,
           LoginStep(l)
    PROVE  /\ m # l => pc'[m] = pc[m]
           /\ pc'[l] \in {"idle", "lookup", "approval", "save"}
              \/ SaveReads(l) \/ SaveRereads(l)
           /\ pc[l] # "idle" \/ \E api \in Spellings \union {Unset},
                                    c \in ClientIDs \union {Unset} :
                                    DeploymentForLogin(l, api, c)
<1>1. pc \in [Logins -> Labels] BY DEF TypeOK, Labels
<1>2. ASSUME NEW api, NEW c, DeploymentForLogin(l, api, c)
      PROVE (m # l => pc'[m] = pc[m]) /\ pc'[l] = "lookup"
  BY <1>1, <1>2 DEF DeploymentForLogin, Moves
<1>3. CASE LooksUp(l) BY <1>1, <1>3 DEF LooksUp, Moves
<1>4. CASE StoresToken(l) BY <1>1, <1>4 DEF StoresToken, Moves
<1>5. CASE SaveReads(l) BY <1>1, <1>5 DEF SaveReads, Moves, Ends
<1>6. CASE SaveRereads(l) BY <1>1, <1>6 DEF SaveRereads, Moves
<1>7. CASE writeFileAtomically(l)
  BY <1>1, <1>7 DEF writeFileAtomically, Moves, Ends
<1>8. CASE Fails(l) BY <1>1, <1>8 DEF Fails, Moves, Ends
<1> QED BY <1>2, <1>3, <1>4, <1>5, <1>6, <1>7, <1>8 DEF LoginStep

(* Nothing else moves a login.                                             *)
LEMMA StepCases ==
    ASSUME [Next]_vars
    PROVE  \/ \E l \in Logins : LoginStep(l)
           \/ UNCHANGED <<file, linked, pc, dep, missing, snap, tokens, edits>>
           \/ /\ UNCHANGED <<pc, dep, missing, snap, tokens, cmd, sent>>
              /\ edits < MaxEdits /\ edits' = edits + 1
              /\ \A l \in Logins : pc[l] \in Quiet
              /\ \/ linked' = ~linked /\ UNCHANGED file
                 \/ /\ UNCHANGED linked
                    /\ \E k \in Keys : \E d \in Definitions(k) :
                          file' = [file EXCEPT ![k] = d]
<1>1. CASE \E flag \in Spellings \union {Unset} : LoadDeployment(flag)
  BY <1>1 DEF LoadDeployment, loginVars
<1>2. CASE Requests \/ CommandEnds BY <1>2 DEF Requests, CommandEnds, loginVars
<1>3. CASE \E k \in Keys : \E d \in Definitions(k) : Edit(k, d)
  BY <1>3 DEF Edit, loginVars, cmdVars
<1>4. CASE Link BY <1>4 DEF Link, loginVars, cmdVars
<1>5. CASE UNCHANGED vars BY <1>5 DEF vars, loginVars
<1> QED BY <1>1, <1>2, <1>3, <1>4, <1>5 DEF Next

(* What a login step leaves as it is.                                      *)
LEMMA LoginFrame ==
    ASSUME NEW l \in Logins, LoginStep(l)
    PROVE  /\ UNCHANGED <<cmd, sent, edits>>
           /\ UNCHANGED <<file, linked>> \/ writeFileAtomically(l)
           /\ UNCHANGED tokens \/ StoresToken(l)
  BY DEF DeploymentForLogin, LoginStep, LooksUp, StoresToken, SaveReads,
         SaveRereads, writeFileAtomically, Fails, cmdVars

(* A Save that goes on to write has seen that the file is not linked.      *)
LEMMA LinkStep == ASSUME TypeOK, LinkInv, [Next]_vars PROVE LinkInv'
<1> SUFFICES ASSUME Undisturbed', NEW m \in Logins, Saving(m)'
             PROVE  linked' = FALSE
  BY DEF LinkInv
<1>0. edits \in Nat /\ linked \in BOOLEAN /\ pc \in [Logins -> Labels]
  BY DEF TypeOK, Labels
<1>1. ASSUME NEW l \in Logins, LoginStep(l) PROVE linked' = FALSE
  <2>1. Undisturbed BY <1>1, LoginFrame DEF Undisturbed
  <2>2. CASE m = l
    <3>1. SaveReads(l) \/ SaveRereads(l) BY <1>1, <2>2, PcFacts DEF Saving
    <3>2. CASE SaveReads(l)
      <4>1. ~Ends(l) BY <1>0, <2>2 DEF Ends, Moves, Saving
      <4>2. ~refuseLink(unsaved(dep[l], readConfigFile(file)))
            /\ unsaved(dep[l], readConfigFile(file)) # NothingMissing
            /\ UNCHANGED linked
        BY <3>2, <4>1 DEF SaveReads
      <4> QED BY <1>0, <4>2 DEF refuseLink
    <3>3. CASE SaveRereads(l)
      BY <1>0, <2>1, <3>3 DEF SaveRereads, LinkInv, Saving
    <3> QED BY <3>1, <3>2, <3>3
  <2>3. CASE m # l
    <3>1. Saving(m) BY <1>1, <2>3, PcFacts DEF Saving
    <3>2. linked = FALSE BY <1>0, <2>1, <3>1 DEF LinkInv
    <3>3. linked' \in {linked, FALSE}
      BY <1>1, LoginFrame DEF writeFileAtomically
    <3> QED BY <3>2, <3>3
  <2> QED BY <2>2, <2>3
<1>2. CASE UNCHANGED <<linked, pc, edits>>
  BY <1>0, <1>2 DEF LinkInv, Undisturbed, Saving
<1>3. ASSUME UNCHANGED pc, edits' = edits + 1, \A l \in Logins : pc[l] \in Quiet
      PROVE  FALSE
  <2>1. edits' # 0 BY <1>0, <1>3
  <2>2. Quiet \intersect {"reread", "rename"} = {} BY <2>1 DEF Undisturbed
  <2> QED BY <1>3, <2>2 DEF Saving
<1> QED BY <1>1, <1>2, <1>3, StepCases

(* Logins that do not overlap run one at a time.                           *)
LEMMA AloneStep ==
    ASSUME TypeOK, ~Overlap, AloneInv, [Next]_vars PROVE AloneInv'
<1>1. CASE UNCHANGED pc BY <1>1 DEF AloneInv
<1>2. ASSUME NEW l \in Logins, LoginStep(l) PROVE AloneInv'
  <2>1. \A m \in Logins : m # l => pc'[m] = pc[m] BY <1>2, PcFacts
  <2>2. CASE pc[l] # "idle" BY <2>1, <2>2 DEF AloneInv
  <2>3. ASSUME NEW api, NEW c, DeploymentForLogin(l, api, c) PROVE AloneInv'
    BY <2>1, <2>3 DEF AloneInv, DeploymentForLogin
  <2> QED BY <1>2, <2>2, <2>3, PcFacts
<1> QED BY <1>1, <1>2, StepCases

(* A save that goes on to write, writes keys the file does not have.       *)
LEMMA SavesStep ==
    ASSUME TypeOK, ~Overlap, AloneInv, Undisturbed => SavesInv, [Next]_vars
    PROVE  (Undisturbed => SavesInv)'
<1> SUFFICES ASSUME Undisturbed' PROVE SavesInv'
  OBVIOUS
<1>0. /\ edits \in Nat /\ pc \in [Logins -> Labels] /\ file \in FileType
      /\ missing \in [Logins -> [loginKeys -> Texts]]
      /\ snap \in [Logins -> FileType] /\ dep \in [Logins -> [loginKeys -> Setting]]
  BY DEF TypeOK, Labels
<1>1. ASSUME NEW l \in Logins, LoginStep(l) PROVE SavesInv'
  <2>0. SavesInv BY <1>1, LoginFrame DEF Undisturbed
  <2>1. \A m \in Logins : m # l => pc'[m] = pc[m] BY <1>1, PcFacts
  <2>2. \A m \in Logins : m # l => ~Saving(m)'
    <3>1. CASE pc[l] # "idle" BY <2>1, <3>1 DEF AloneInv, Saving
    <3>2. ASSUME NEW api, NEW c, DeploymentForLogin(l, api, c)
          PROVE  \A m \in Logins : m # l => ~Saving(m)'
      BY <2>1, <3>2 DEF DeploymentForLogin, Saving
    <3> QED BY <1>1, <3>1, <3>2, PcFacts
  <2>3. CASE SaveReads(l) /\ ~Ends(l)
    <3> DEFINE current == readConfigFile(file)
               lacks == unsaved(dep[l], current)
    <3>1. /\ readable(file) /\ missing' = [missing EXCEPT ![l] = lacks]
          /\ pc' = [pc EXCEPT ![l] = "reread"] /\ UNCHANGED file
      BY <2>3 DEF SaveReads, Moves
    <3>2. \A k \in loginKeys : lacks[k] # Unset => current[k] = Unset
      BY <1>0, LackFacts
    <3>3. \A k \in loginKeys : current[k] = Unset => file[k] = <<>>
      BY <1>0, <3>1, ReadFacts DEF Keys
    <3>4. missing'[l] = lacks /\ pc'[l] = "reread" BY <1>0, <3>1
    <3> HIDE DEF lacks, current
    <3>5. ASSUME NEW m \in Logins
          PROVE /\ Saving(m)' => \A k \in loginKeys :
                                   missing'[m][k] # Unset => file'[k] = <<>>
                /\ pc'[m] = "rename" => snap'[m] = file'
      BY <2>2, <3>1, <3>2, <3>3, <3>4 DEF Saving
    <3>6. NoDuplicateKeys' BY <2>0, <3>1 DEF SavesInv, NoDuplicateKeys
    <3> QED BY <3>5, <3>6 DEF SavesInv
  <2>4. CASE SaveRereads(l)
    <3>1. /\ pc[l] = "reread" /\ UNCHANGED <<file, missing>>
          /\ snap'[l] = file /\ Saving(l)
      BY <1>0, <2>4 DEF SaveRereads, Saving
    <3>2. ASSUME NEW m \in Logins
          PROVE /\ Saving(m)' => \A k \in loginKeys :
                                   missing'[m][k] # Unset => file'[k] = <<>>
                /\ pc'[m] = "rename" => snap'[m] = file'
      BY <2>0, <2>2, <3>1 DEF SavesInv, Saving
    <3>3. NoDuplicateKeys' BY <2>0, <3>1 DEF SavesInv, NoDuplicateKeys
    <3> QED BY <3>2, <3>3 DEF SavesInv
  <2>5. CASE writeFileAtomically(l)
    <3>1. /\ Saving(l) /\ snap[l] = file
          /\ \A k \in loginKeys : missing[l][k] # Unset => file[k] = <<>>
      BY <2>0, <2>5 DEF writeFileAtomically, SavesInv, Saving
    <3>2. \A k \in Keys : file'[k] = file[k] \/ Len(file'[k]) = 1
      BY <2>5, <3>1, WriteFacts DEF Keys
    <3>3. NoDuplicateKeys'
      <4> SUFFICES ASSUME NEW k \in Keys PROVE Len(file'[k]) <= 1
        BY DEF NoDuplicateKeys
      <4>1. CASE file'[k] = file[k] BY <2>0, <4>1 DEF SavesInv, NoDuplicateKeys
      <4>2. CASE Len(file'[k]) = 1 BY <4>2
      <4> QED BY <3>2, <4>1, <4>2
    <3>4. ~Saving(l)' BY <1>0, <2>5 DEF writeFileAtomically, Ends, Moves, Saving
    <3> QED BY <2>2, <3>3, <3>4 DEF SavesInv, Saving
  <2>6. CASE ~(SaveReads(l) /\ ~Ends(l)) /\ ~SaveRereads(l) /\ ~writeFileAtomically(l)
    <3>1. UNCHANGED file BY <1>1, <2>6, LoginFrame
    <3>2. ~Saving(l)'
      <4>1. CASE Ends(l) BY <1>0, <4>1 DEF Ends, Moves, Saving
      <4> QED BY <1>1, <2>6, <4>1, PcFacts DEF Saving
    <3>3. NoDuplicateKeys' BY <2>0, <3>1 DEF SavesInv, NoDuplicateKeys
    <3> QED BY <2>2, <3>2, <3>3 DEF SavesInv, Saving
  <2> QED BY <2>3, <2>4, <2>5, <2>6
<1>2. CASE UNCHANGED <<file, linked, pc, dep, missing, snap, tokens, edits>>
  BY <1>2 DEF Undisturbed, SavesInv, NoDuplicateKeys, Saving
<1>3. ASSUME UNCHANGED <<pc, missing, snap>>, edits' = edits + 1,
             \A l \in Logins : pc[l] \in Quiet,
             \/ UNCHANGED file
             \/ \E k \in Keys : \E d \in Definitions(k) : file' = [file EXCEPT ![k] = d]
      PROVE  SavesInv'
  <2>1. edits' # 0 BY <1>0, <1>3
  <2>2. Quiet \intersect {"reread", "rename"} = {} BY <2>1 DEF Undisturbed
  <2>3. \A l \in Logins : ~Saving(l)' BY <1>3, <2>2 DEF Saving
  <2>4. NoDuplicateKeys BY <2>2 DEF Undisturbed, SavesInv
  <2>5. ASSUME NEW k \in Keys, NEW d \in Definitions(k), file' = [file EXCEPT ![k] = d]
        PROVE  NoDuplicateKeys'
    <3> SUFFICES ASSUME NEW j \in Keys PROVE Len(file'[j]) <= 1
      BY DEF NoDuplicateKeys
    <3>1. CASE j = k
      <4>1. file'[j] = d BY <1>0, <2>5, <3>1 DEF FileType
      <4> QED BY <4>1, DefinitionFacts
    <3>2. CASE j # k
      <4>1. file'[j] = file[j] BY <1>0, <2>5, <3>2 DEF FileType
      <4> QED BY <2>4, <4>1 DEF NoDuplicateKeys
    <3> QED BY <3>1, <3>2
  <2>6. NoDuplicateKeys' BY <1>3, <2>4, <2>5 DEF NoDuplicateKeys
  <2> QED BY <2>3, <2>6 DEF SavesInv, Saving
<1> QED BY <1>1, <1>2, <1>3, StepCases

-----------------------------------------------------------------------------
(* While logins alone write the file, what a login resolved agrees with    *)
(* it: step by step, for the one login that runs.                          *)
ResolvedAll == \A l \in Logins : pc[l] # "idle" => ResolvedInv(l)

LEMMA ResolvesStep ==
    ASSUME TypeOK, NEW l \in Logins, NEW api \in Spellings \union {Unset},
           NEW c \in ClientIDs \union {Unset}, DeploymentForLogin(l, api, c)
    PROVE  ResolvedInv(l)'
<1> DEFINE current == readConfigFile(file)
<1>1. /\ readable(file) /\ UNCHANGED file /\ pc' = [pc EXCEPT ![l] = "lookup"]
  BY DEF DeploymentForLogin, Moves
<1>2. pc'[l] = "lookup" BY <1>1 DEF TypeOK
<1>3. /\ \A k \in loginKeys : current[k] # Unset <=> dep'[l][k].source = "file"
      /\ \A k \in {"issuer", "client_id"} :
            current[k] # Unset => dep'[l][k].value = current[k]
      /\ dep'[l].issuer.value # Unset \/ dep'[l].issuer = NoSetting
  BY ResolvedFacts
<1>4. readConfigFile(file)' = current BY <1>1
<1>5. readable(file)' BY <1>1
<1> HIDE DEF current
<1> QED BY <1>2, <1>3, <1>4, <1>5 DEF ResolvedInv, Saving

LEMMA LooksUpStep ==
    ASSUME TypeOK, NEW l \in Logins, ResolvedInv(l), LooksUp(l)
    PROVE  ResolvedInv(l)'
<1> DEFINE current == readConfigFile(file)
           d == dep'[l]
           lacks == unsaved(d, NothingMissing)
<1>1. /\ UNCHANGED <<file, linked>> /\ pc' = [pc EXCEPT ![l] = "approval"]
      /\ ~refuseLink(lacks)
  BY DEF LooksUp, Moves
<1>2. pc'[l] = "approval" /\ dep[l] \in [loginKeys -> Setting] BY <1>1 DEF TypeOK
<1>3. /\ readable(file)
      /\ \A k \in loginKeys : current[k] # Unset <=> dep[l][k].source = "file"
      /\ \A k \in {"issuer", "client_id"} :
            current[k] # Unset => dep[l][k].value = current[k]
      /\ dep[l].issuer.value # Unset \/ dep[l].issuer = NoSetting
  BY DEF ResolvedInv
<1>4. /\ d \in [loginKeys -> Setting]
      /\ \A k \in {"api", "client_id"} : d[k] = dep[l][k]
      /\ \/ d.issuer = dep[l].issuer /\ dep[l].issuer # NoSetting
         \/ /\ dep[l].issuer = NoSetting
            /\ d.issuer.source = "discovered" /\ d.issuer.value # Unset
  BY LookedUpFacts
<1>5. d.issuer = d["issuer"] /\ dep[l].issuer = dep[l]["issuer"] BY <1>2, <1>4
<1>6. d.issuer.value # Unset BY <1>3, <1>4
<1>7. /\ \A k \in loginKeys : current[k] # Unset <=> d[k].source = "file"
      /\ \A k \in {"issuer", "client_id"} : current[k] # Unset => d[k].value = current[k]
  BY <1>3, <1>4, <1>5 DEF loginKeys, NoSetting
<1>8. linked => \A k \in loginKeys : d[k].source = "file" \/ d[k].value = Unset
  <2> SUFFICES ASSUME linked, NEW k \in loginKeys, d[k].source # "file"
               PROVE  d[k].value = Unset
    OBVIOUS
  <2>1. lacks = NothingMissing BY <1>1 DEF refuseLink
  <2>2. NothingMissing[k] = Unset BY EmptyFacts
  <2> QED BY <1>4, <2>1, <2>2, LackFacts
<1>9. readConfigFile(file)' = current BY <1>1
<1>10. readable(file)' BY <1>1, <1>3
<1> HIDE DEF current, d, lacks
<1> QED BY <1>1, <1>2, <1>6, <1>7, <1>8, <1>9, <1>10 DEF ResolvedInv, Saving, d

LEMMA ResolvedStep ==
    ASSUME TypeOK, ~Overlap, AloneInv, ResolvedAll, edits' = 0, [Next]_vars
    PROVE  ResolvedAll'
<1>0. edits \in Nat /\ pc \in [Logins -> Labels] BY DEF TypeOK, Labels
<1>1. ASSUME NEW l \in Logins, LoginStep(l) PROVE ResolvedAll'
  <2>1. \A m \in Logins : m # l => pc'[m] = "idle"
    <3>1. \A m \in Logins : m # l => pc'[m] = pc[m] BY <1>1, PcFacts
    <3>2. CASE pc[l] # "idle" BY <3>1, <3>2 DEF AloneInv
    <3>3. ASSUME NEW api, NEW c, DeploymentForLogin(l, api, c)
          PROVE  \A m \in Logins : m # l => pc'[m] = "idle"
      BY <3>1, <3>3 DEF DeploymentForLogin
    <3> QED BY <1>1, <3>2, <3>3, PcFacts
  <2>2. SUFFICES ASSUME pc'[l] # "idle" PROVE ResolvedInv(l)'
    BY <2>1 DEF ResolvedAll
  <2>3. ASSUME NEW api \in Spellings \union {Unset}, NEW c \in ClientIDs \union {Unset},
               DeploymentForLogin(l, api, c)
        PROVE  ResolvedInv(l)'
    BY <2>3, ResolvesStep
  <2>4. ASSUME pc[l] # "idle" PROVE ResolvedInv(l) BY <2>4 DEF ResolvedAll
  <2>5. CASE LooksUp(l)
    <3>1. pc[l] # "idle" BY <2>5 DEF LooksUp
    <3> QED BY <2>4, <2>5, <3>1, LooksUpStep
  <2>6. CASE StoresToken(l)
    <3>1. /\ UNCHANGED <<file, linked, dep>> /\ pc[l] = "approval" /\ pc'[l] = "save"
          /\ tokens' = [tokens EXCEPT ![dep[l].client_id.value] = dep[l].issuer.value]
      BY <1>0, <2>6 DEF StoresToken, Moves
    <3>2. dep[l].client_id.value \in ClientIDs
      <4>1. dep[l].client_id = dep[l]["client_id"] BY DEF TypeOK
      <4> QED BY <3>1, <4>1 DEF TypeOK, loginKeys, Values
    <3>3. tokens'[dep[l].client_id.value] = dep[l].issuer.value
      BY <3>1, <3>2 DEF TypeOK
    <3>4. ResolvedInv(l) BY <2>4, <3>1
    <3>5. readConfigFile(file)' = readConfigFile(file) /\ readable(file)' = readable(file)
      BY <3>1
    <3> QED BY <3>1, <3>3, <3>4, <3>5 DEF ResolvedInv, Saving
  <2>7. CASE SaveReads(l)
    <3> DEFINE lacks == unsaved(dep[l], readConfigFile(file))
    <3>1. ~Ends(l) BY <1>0, <2>2 DEF Ends, Moves
    <3>2. /\ UNCHANGED <<file, linked, dep, tokens>> /\ pc[l] = "save" /\ pc'[l] = "reread"
          /\ missing' = [missing EXCEPT ![l] = lacks]
      BY <1>0, <2>7, <3>1 DEF SaveReads, Moves
    <3>3. missing'[l] = lacks BY <3>2 DEF TypeOK
    <3>4. ResolvedInv(l) BY <2>4, <3>2
    <3>5. readConfigFile(file)' = readConfigFile(file) /\ readable(file)' = readable(file)
          /\ lacks' = lacks
      BY <3>2
    <3> QED BY <3>2, <3>3, <3>4, <3>5 DEF ResolvedInv, Saving
  <2>8. CASE SaveRereads(l)
    <3>1. /\ UNCHANGED <<file, linked, dep, tokens, missing>>
          /\ pc[l] = "reread" /\ pc'[l] = "rename"
      BY <1>0, <2>8 DEF SaveRereads, Moves
    <3>2. ResolvedInv(l) BY <2>4, <3>1
    <3>3. readConfigFile(file)' = readConfigFile(file) /\ readable(file)' = readable(file)
          /\ unsaved(dep[l], readConfigFile(file))' = unsaved(dep[l], readConfigFile(file))
      BY <3>1
    <3> QED BY <3>1, <3>2, <3>3 DEF ResolvedInv, Saving
  <2>9. CASE writeFileAtomically(l) \/ Fails(l)
    BY <1>0, <2>2, <2>9 DEF writeFileAtomically, Fails, Ends, Moves
  <2> QED BY <1>1, <2>3, <2>5, <2>6, <2>7, <2>8, <2>9 DEF LoginStep
<1>2. CASE UNCHANGED <<file, linked, pc, dep, missing, snap, tokens, edits>>
  BY <1>2 DEF ResolvedAll, ResolvedInv, Saving
<1>3. edits' # edits + 1 BY <1>0
<1> QED BY <1>1, <1>2, <1>3, StepCases

(* The token that a command of the file's client id sends is the issuer's  *)
(* of the file, while logins alone write it.                               *)
LEMMA IssuerStep ==
    ASSUME TypeOK, SavesInv, ResolvedAll, IssuerInv, edits' = 0, [Next]_vars
    PROVE  IssuerInv'
<1> DEFINE current == readConfigFile(file)
<1>0. edits \in Nat /\ pc \in [Logins -> Labels] /\ file \in FileType
      /\ dep \in [Logins -> [loginKeys -> Setting]]
  BY DEF TypeOK, Labels
<1>1. ASSUME UNCHANGED <<file, tokens>>, UNCHANGED cmd \/ cmd' = Nothing
      PROVE  IssuerInv'
  <2>1. current' = current BY <1>1
  <2> QED BY <1>1, <2>1 DEF IssuerInv
<1>2. ASSUME NEW flag \in Spellings \union {Unset}, LoadDeployment(flag)
      PROVE  IssuerInv'
  <2>1. UNCHANGED <<file, tokens>> BY <1>2 DEF LoadDeployment
  <2>2. /\ cmd'.own \/ cmd'.issuer \in Names[cmd'.to]
        /\ ~cmd'.handed => /\ cmd'.issuer = current["issuer"]
                           /\ cmd'.client = current["client_id"]
    BY <1>2, LoadedFacts
  <2>3. current' = current BY <2>1
  <2> HIDE DEF current
  <2> QED BY <2>1, <2>2, <2>3 DEF IssuerInv, current
<1>3. CASE Requests \/ CommandEnds
  BY <1>1, <1>3 DEF Requests, CommandEnds
<1>4. ASSUME NEW l \in Logins, StoresToken(l) PROVE IssuerInv'
  <2>1. /\ UNCHANGED <<file, cmd>> /\ pc[l] = "approval"
        /\ tokens' = [tokens EXCEPT ![dep[l].client_id.value] = dep[l].issuer.value]
    BY <1>4 DEF StoresToken, cmdVars
  <2>2. dep[l].issuer = dep[l]["issuer"] BY <1>0
  <2>3. current["issuer"] # Unset => dep[l].issuer.value = current["issuer"]
    BY <2>1, <2>2 DEF ResolvedAll, ResolvedInv
  <2>4. \A c \in ClientIDs : tokens'[c] \in {tokens[c], dep[l].issuer.value}
    BY <2>1 DEF TypeOK
  <2>5. current' = current BY <2>1
  <2> HIDE DEF current
  <2> QED BY <2>1, <2>3, <2>4, <2>5 DEF IssuerInv, current
<1>5. ASSUME NEW l \in Logins, writeFileAtomically(l) PROVE IssuerInv'
  <2> DEFINE d == dep[l]
             now == readConfigFile(file')
  <2>1. /\ UNCHANGED <<tokens, cmd>> /\ pc[l] = "rename" /\ Saving(l)
    BY <1>5 DEF writeFileAtomically, Saving, cmdVars
  <2>2. /\ \A k \in loginKeys : current[k] # Unset <=> d[k].source = "file"
        /\ \A k \in {"issuer", "client_id"} : current[k] # Unset => d[k].value = current[k]
        /\ tokens[d.client_id.value] = d.issuer.value
        /\ missing[l] = unsaved(d, current)
    BY <2>1 DEF ResolvedAll, ResolvedInv
  <2>3. snap[l] = file BY <2>1 DEF SavesInv
  <2>4. d \in [loginKeys -> Setting] /\ d.issuer = d["issuer"] /\ d.client_id = d["client_id"]
    BY <1>0
  <2>5. file' \in FileType BY <1>5, WriteFacts
  <2>6. ASSUME NEW k \in {"issuer", "client_id"}
        PROVE  now[k] = d[k].value /\ (current[k] # Unset => now[k] = current[k])
    <3>0. k \in loginKeys /\ k \in Keys BY DEF loginKeys, Keys
    <3>1. CASE missing[l][k] # Unset
      <4>1. file'[k] # <<>> /\ file'[k][1] = missing[l][k]
        BY <1>5, <3>0, <3>1, WriteFacts
      <4>2. now[k] = missing[l][k] BY <2>5, <3>0, <4>1, ReadFacts
      <4>3. current[k] = Unset /\ missing[l][k] = d[k].value
        BY <2>2, <2>4, <3>0, <3>1, LackFacts
      <4> QED BY <4>2, <4>3
    <3>2. CASE missing[l][k] = Unset
      <4>1. file'[k] = file[k] BY <1>5, <2>3, <3>0, <3>2, WriteFacts
      <4>2. now[k] = current[k] BY <3>0, <4>1 DEF readConfigFile
      <4>3. current[k] = Unset => d[k].value = Unset
        BY <2>2, <2>4, <3>0, <3>2, LackFacts
      <4> QED BY <2>2, <4>2, <4>3
    <3> QED BY <3>1, <3>2
  <2>7. d["client_id"].value \in ClientIDs /\ d["client_id"].value # Unset
    <3>1. Unset # d.client_id.value BY <2>1 DEF TypeOK
    <3>2. d["client_id"].value \in ClientIDs \union {Unset}
      BY DEF TypeOK, loginKeys, Values
    <3> QED BY <2>4, <3>1, <3>2
  <2>8. ASSUME NEW c \in ClientIDs, now["client_id"] \in {Unset, c}
        PROVE  tokens[c] = now["issuer"]
    <3>1. c = d["client_id"].value BY <2>6, <2>7, <2>8
    <3> QED BY <2>2, <2>4, <2>6, <3>1
  <2>9. ASSUME cmd # Nothing, ~cmd.handed
        PROVE  cmd.issuer = now["issuer"] /\ cmd.client = now["client_id"]
    <3>1. /\ cmd.issuer = current["issuer"] /\ cmd.client = current["client_id"]
          /\ Unset \notin {cmd.issuer, cmd.client}
      BY <2>9 DEF IssuerInv, TypeOK
    <3> QED BY <2>6, <3>1
  <2>10. cmd # Nothing => cmd.own \/ cmd.issuer \in Names[cmd.to] BY DEF IssuerInv
  <2>11. readConfigFile(file)' = now OBVIOUS
  <2> HIDE DEF now, d, current
  <2> QED BY <2>1, <2>8, <2>9, <2>10, <2>11 DEF IssuerInv
<1>6. ASSUME NEW l \in Logins, LoginStep(l) PROVE IssuerInv'
  BY <1>1, <1>4, <1>5, <1>6, LoginFrame
<1>7. CASE (\E k \in Keys : \E d \in Definitions(k) : Edit(k, d)) \/ Link
  BY <1>0, <1>7 DEF Edit, Link
<1>8. CASE UNCHANGED vars BY <1>1, <1>8 DEF vars, cmdVars
<1> QED BY <1>2, <1>3, <1>6, <1>7, <1>8 DEF Next

(* Every request is of the file's issuer, and to an API that accepts it.   *)
LEMMA SentStep ==
    ASSUME TypeOK, IssuerInv, TokenOfTheFilesIssuer, edits' = 0, [Next]_vars
    PROVE  TokenOfTheFilesIssuer'
<1>0. edits \in Nat BY DEF TypeOK
<1>1. ASSUME UNCHANGED <<sent, edits>> PROVE TokenOfTheFilesIssuer'
  BY <1>1 DEF TokenOfTheFilesIssuer
<1>2. CASE Requests
  <2>1. /\ sent'.own = cmd.own /\ sent'.to = cmd.to /\ sent'.issuer = cmd.issuer
        /\ cmd.handed => sent'.signed = cmd.issuer
        /\ ~cmd.handed => /\ sent'.signed = tokens[cmd.client]
                          /\ tokens[cmd.client] # Unset /\ cmd.client \in ClientIDs
    BY <1>2, RequestFacts
  <2>2. cmd # Nothing BY <1>2 DEF Requests
  <2>3. ASSUME ~cmd.handed PROVE tokens[cmd.client] = cmd.issuer
    <3>1. cmd.issuer = readConfigFile(file)["issuer"]
          /\ cmd.client = readConfigFile(file)["client_id"] /\ cmd.issuer # Unset
      BY <2>2, <2>3 DEF IssuerInv, TypeOK
    <3> QED BY <2>1, <2>3, <3>1 DEF IssuerInv
  <2> QED BY <2>1, <2>2, <2>3 DEF TokenOfTheFilesIssuer, IssuerInv
<1>3. ASSUME NEW l \in Logins, LoginStep(l)
      PROVE  TokenOfTheFilesIssuer'
  BY <1>1, <1>3, LoginFrame
<1>4. CASE (\E flag \in Spellings \union {Unset} : LoadDeployment(flag)) \/ CommandEnds
  BY <1>1, <1>4 DEF LoadDeployment, CommandEnds
<1>5. CASE (\E k \in Keys : \E d \in Definitions(k) : Edit(k, d)) \/ Link
  BY <1>0, <1>5 DEF Edit, Link
<1>6. CASE UNCHANGED vars BY <1>1, <1>6 DEF vars, cmdVars
<1> QED BY <1>2, <1>3, <1>4, <1>5, <1>6 DEF Next

-----------------------------------------------------------------------------
(* The inductive invariant.                                                *)
LEMMA DeployInvInit == Init => DeployInv
<1> SUFFICES ASSUME Init PROVE DeployInv OBVIOUS
<1>1. TypeOK BY TypeInit
<1>2. \A l \in Logins : pc[l] = "idle" BY DEF Init
<1>3. LinkInv /\ AloneInv BY <1>2 DEF LinkInv, AloneInv, Saving
<1>4. NoDuplicateKeys BY DefinitionFacts DEF Init, NoDuplicateKeys
<1>5. SavesInv BY <1>2, <1>4 DEF SavesInv, Saving
<1>6. IssuerInv BY DEF Init, IssuerInv
<1>7. TokenOfTheFilesIssuer BY DEF Init, TokenOfTheFilesIssuer
<1> QED BY <1>1, <1>2, <1>3, <1>5, <1>6, <1>7 DEF DeployInv

LEMMA DeployInvStep == DeployInv /\ [Next]_vars => DeployInv'
<1> SUFFICES ASSUME DeployInv, [Next]_vars PROVE DeployInv' OBVIOUS
<1>0. TypeOK /\ edits \in Nat BY DEF DeployInv, TypeOK
<1>1. TypeOK' /\ LinkInv' BY <1>0, TypeStep, LinkStep DEF DeployInv
<1>2. ASSUME ~Overlap PROVE AloneInv' /\ (Undisturbed => SavesInv)'
  BY <1>0, <1>2, AloneStep, SavesStep DEF DeployInv
<1>3. ASSUME ~Overlap, edits' = 0
      PROVE  ResolvedAll' /\ IssuerInv' /\ TokenOfTheFilesIssuer'
  <2>1. edits = 0
    <3>1. edits' = edits \/ edits' = edits + 1 BY StepCases, LoginFrame
    <3> QED BY <1>0, <1>3, <3>1
  <2>2. AloneInv /\ SavesInv /\ ResolvedAll /\ IssuerInv /\ TokenOfTheFilesIssuer
    BY <1>3, <2>1 DEF DeployInv, Undisturbed, ResolvedAll
  <2> QED BY <1>0, <1>3, <2>2, ResolvedStep, IssuerStep, SentStep
<1> QED BY <1>1, <1>2, <1>3 DEF DeployInv, ResolvedAll

THEOREM DeployInductive == Spec => []DeployInv
<1> QED BY DeployInvInit, DeployInvStep, PTL DEF Spec

(* Every variable has its type.  (TypeOK.)                                 *)
THEOREM DeploymentTypeCorrect == Spec => []TypeOK
<1>1. DeployInv => TypeOK BY DEF DeployInv
<1> QED BY <1>1, DeployInductive, PTL

(* A linked file is not written, even where the link was made while the    *)
(* login waited, so long as it was not made between the steps of the Save. *)
(* Logins may overlap.  (DeploymentForLogin, Save, symlinkOnPath.)         *)
THEOREM LinkedIsNotWritten ==
    ASSUME Quiet \intersect {"reread", "rename"} = {}
    PROVE  Spec => LinkedNeverWritten
<1>1. ASSUME DeployInv, [Next]_vars
      PROVE  linked /\ edits' = edits => UNCHANGED <<file, linked>>
  <2> SUFFICES ASSUME linked, edits' = edits PROVE UNCHANGED <<file, linked>> OBVIOUS
  <2>0. edits \in Nat BY <1>1 DEF DeployInv, TypeOK
  <2>1. edits' # edits + 1 BY <2>0
  <2>2. ASSUME NEW l \in Logins, writeFileAtomically(l) PROVE FALSE
    BY <1>1, <2>2 DEF DeployInv, LinkInv, Undisturbed, Saving, writeFileAtomically
  <2> QED BY <1>1, <2>1, <2>2, StepCases, LoginFrame
<1> QED BY <1>1, DeployInductive, PTL DEF Spec, LinkedNeverWritten

(* No key is defined twice, where logins run one at a time and nobody      *)
(* edits the file between the steps of a Save.  (Save, unsaved.)           *)
THEOREM KeysAreUnique ==
    ASSUME ~Overlap, Quiet \intersect {"reread", "rename"} = {}
    PROVE  Spec => []NoDuplicateKeys
<1>1. DeployInv => NoDuplicateKeys BY DEF DeployInv, Undisturbed, SavesInv
<1> QED BY <1>1, DeployInductive, PTL

(* Nothing the file says is rewritten, however it was edited while the     *)
(* login waited for approval, under the same two assumptions.  (Save.)     *)
THEOREM FileIsKept ==
    ASSUME ~Overlap, Quiet \intersect {"reread", "rename"} = {}
    PROVE  Spec => KeepsWhatTheFileSays
<1>1. ASSUME DeployInv, [Next]_vars
      PROVE  edits' = edits => \A k \in Keys : file[k] # <<>> => file'[k] = file[k]
  <2> SUFFICES ASSUME edits' = edits, NEW k \in Keys, file[k] # <<>>
               PROVE  file'[k] = file[k]
    OBVIOUS
  <2>0. edits \in Nat BY <1>1 DEF DeployInv, TypeOK
  <2>1. edits' # edits + 1 BY <2>0
  <2>2. ASSUME NEW l \in Logins, writeFileAtomically(l) PROVE file'[k] = file[k]
    <3>1. TypeOK /\ SavesInv /\ pc[l] = "rename" /\ Saving(l)
      BY <1>1, <2>2 DEF DeployInv, Undisturbed, writeFileAtomically, Saving
    <3>2. snap[l] = file /\ (k \in loginKeys => missing[l][k] = Unset)
      BY <3>1 DEF SavesInv
    <3> QED BY <2>2, <3>1, <3>2, WriteFacts
  <2> QED BY <1>1, <2>1, <2>2, StepCases, LoginFrame
<1> QED BY <1>1, DeployInductive, PTL DEF Spec, KeepsWhatTheFileSays

(* Once the user is asked to approve, Save will not refuse, where logins   *)
(* run one at a time and nobody edits the file.  (DeploymentForLogin.)     *)
THEOREM ApprovedIsSaved ==
    ASSUME ~Overlap
    PROVE  Spec => []ApprovedLoginCanBeSaved
<1>1. DeployInv => ApprovedLoginCanBeSaved
  <2> SUFFICES ASSUME DeployInv, edits = 0, NEW l \in Logins,
                      pc[l] \in {"approval", "save"}
               PROVE  /\ readable(file)
                      /\ linked => unsaved(dep[l], readConfigFile(file)) = NothingMissing
    BY DEF ApprovedLoginCanBeSaved
  <2> DEFINE current == readConfigFile(file)
  <2>1. dep[l] \in [loginKeys -> Setting] BY DEF DeployInv, TypeOK
  <2>2. /\ readable(file)
        /\ linked => \A k \in loginKeys : dep[l][k].source = "file" \/ dep[l][k].value = Unset
    BY DEF DeployInv, ResolvedInv
  <2> HIDE DEF current
  <2>3. ASSUME linked PROVE unsaved(dep[l], current) = NothingMissing
    BY <2>1, <2>2, <2>3, LackFacts
  <2> QED BY <2>2, <2>3 DEF current
<1> QED BY <1>1, DeployInductive, PTL

(* A request carries a token of the file's issuer, to an API that is the   *)
(* file's or names that issuer, whichever logins failed halfway, where     *)
(* they alone write the file, one at a time.  (LoadDeployment,             *)
(* requireTrustedIssuer, Save.)                                            *)
THEOREM RequestsAreTrusted ==
    ASSUME ~Overlap
    PROVE  Spec => []TokenOfTheFilesIssuer
<1>1. DeployInv => TokenOfTheFilesIssuer BY DEF DeployInv, TokenOfTheFilesIssuer
<1> QED BY <1>1, DeployInductive, PTL
=============================================================================
