------------------------------ MODULE Deployment ------------------------------
(***************************************************************************)
(* The product's config file (src/deployment.go) between a login, which    *)
(* resolves a deployment from it and fills in what it lacks, the commands  *)
(* that load their deployment from it, and the user or config manager who  *)
(* edits it.                                                               *)
(*                                                                         *)
(* A login follows the order of src/README.md: DeploymentForLogin, Login,  *)
(* TokenStore.Save, Deployment.Save.  The token store is the map from a    *)
(* client id to the issuer of its token; TokenStore is what is behind it.  *)
(***************************************************************************)
EXTENDS Integers, Sequences, FiniteSets

CONSTANTS
    Logins,     \* processes that may run `auth login`
    Spellings,  \* spellings of an API's URL, "here/" beside "here"
    Normal,     \* what each spelling is once checked and trimmed
    Malformed,  \* what a spelling that is no URL has instead
    Names,      \* the authorization servers in the metadata of each API,
                \* none where there is none or it describes another
    Issuers,
    ClientIDs,
    Hostname,   \* ClientID(product), the machine's own client id
    Overlap,    \* whether logins overlap
    Quiet,      \* where every login must be for the file to be edited
    MaxEdits    \* bound: edits of the file by somebody else

APIs == {Normal[s] : s \in Spellings} \ {Malformed}
Unset == ""

ASSUME ConstantsAssumption ==
    /\ Normal \in [Spellings -> Spellings \union {Malformed}]
    /\ \A a \in APIs : Normal[a] = a
    /\ Malformed \notin Spellings
    /\ Names \in [Spellings -> SUBSET Issuers]
    /\ Unset \notin Spellings \union Issuers \union ClientIDs \union {Malformed}
    /\ Hostname \in ClientIDs
    /\ Overlap \in BOOLEAN
    /\ MaxEdits \in Nat

loginKeys == {"api", "issuer", "client_id"}
Keys == loginKeys \union {"token_command"}

Values(k) == CASE k = "api" -> Spellings
               [] k = "issuer" -> Issuers
               [] k = "client_id" -> ClientIDs
               [] k = "token_command" -> {"program"}

(* A key's definitions in the file, from its top: none, one (perhaps of an *)
(* empty value), or the two that no TOML reader accepts.                   *)
Definitions(k) == {<<>>} \union {<<v>> : v \in Values(k) \union {Unset}}

VARIABLES
    file,     \* the definitions of each key
    linked,   \* the file, or the directory holding it, is a symlink
    pc,       \* where each login is
    dep,      \* the deployment a login resolved
    missing,  \* what its Save found missing
    snap,     \* the file as its Save read it again
    tokens,   \* token store: the issuer of each client id's token
    cmd,      \* the deployment a running command loaded
    sent,     \* the last request a command sent
    edits

loginVars == <<pc, dep, missing, snap>>
cmdVars == <<cmd, sent>>
vars == <<file, linked, loginVars, tokens, cmdVars, edits>>

Texts == Spellings \union Issuers \union ClientIDs \union {"program", Unset}
Setting == [value : Texts,
            source : {"none", "file", "command-line", "discovered", "hostname"}]
NoSetting == [value |-> Unset, source |-> "none"]
NoDeployment == [k \in loginKeys |-> NoSetting]
NothingMissing == [k \in loginKeys |-> Unset]
EmptyFile == [k \in Keys |-> <<>>]
Nothing == [to |-> Unset]

Init ==
    /\ file \in {f \in [Keys -> UNION {Definitions(k) : k \in Keys}] :
                    \A k \in Keys : f[k] \in Definitions(k)}
    /\ linked \in BOOLEAN
    /\ pc = [l \in Logins |-> "idle"]
    /\ dep = [l \in Logins |-> NoDeployment]
    /\ missing = [l \in Logins |-> NothingMissing]
    /\ snap = [l \in Logins |-> EmptyFile]
    /\ tokens = [c \in ClientIDs |-> Unset]
    /\ cmd = Nothing
    /\ sent = Nothing
    /\ edits = 0

-----------------------------------------------------------------------------
(* What the functions of deployment.go compute.                            *)

\* Faulty variant: an empty value reads as an absent key.
readable_EmptyIsAbsent(f) == \A k \in Keys : Len(f[k]) <= 1
readable(f) == \A k \in Keys : f[k] = <<>> \/ (Len(f[k]) = 1 /\ f[k][1] # Unset)

readConfigFile(f) == [k \in Keys |-> IF f[k] = <<>> THEN Unset ELSE f[k][1]]

HandsTokens(current) == current["token_command"] # Unset

\* Faulty variant: the trailing slash stays.
normalizeAPI_Untrimmed(s) ==
    IF s = Unset \/ Normal[s] = Malformed THEN Malformed ELSE s
normalizeAPI(s) == IF s = Unset THEN Malformed ELSE Normal[s]

fromFile(v) == [value |-> v, source |-> "file"]

\* Faulty variant: the file is not consulted again.
unsaved_OfTheDeployment(d, current) ==
    [k \in loginKeys |-> IF d[k].source # "file" THEN d[k].value ELSE Unset]
unsaved(d, current) ==
    [k \in loginKeys |-> IF current[k] = Unset /\ d[k].source # "file"
                         THEN d[k].value ELSE Unset]

\* Faulty variant: a link is written through.
refuseLink_Never(lacks) == FALSE
refuseLink(lacks) == linked /\ lacks # NothingMissing

\* Faulty variant: any API with metadata will do.
requireTrustedIssuer_Any(api, issuer) == Names[api] # {}
requireTrustedIssuer(api, issuer) == issuer \in Names[api]

(* The one server an API names; a login that finds none or two is refused. *)
discoverAuthorizationServer(api) ==
    IF Cardinality(Names[api]) = 1 THEN Names[api] ELSE {}

-----------------------------------------------------------------------------
(* auth login.  A refusal or a failure ends the login where it is.         *)

Moves(l, label) == pc' = [pc EXCEPT ![l] = label]

Ends(l) ==
    /\ Moves(l, "idle")
    /\ dep' = [dep EXCEPT ![l] = NoDeployment]
    /\ missing' = [missing EXCEPT ![l] = NothingMissing]
    /\ snap' = [snap EXCEPT ![l] = EmptyFile]

DeploymentForLogin(l, api, clientID) ==
    LET current == readConfigFile(file)
        url == IF current["api"] # Unset THEN current["api"] ELSE api
        own == [value |-> Hostname, source |-> "hostname"]
        typed(v) == [value |-> v, source |-> "command-line"]
    IN
    /\ pc[l] = "idle"
    /\ ~Overlap => \A m \in Logins : pc[m] = "idle"
    /\ readable(file)
    /\ ~HandsTokens(current)
    /\ normalizeAPI(url) # Malformed
    /\ api # Unset => normalizeAPI(api) = normalizeAPI(url)
    /\ current["client_id"] # Unset => clientID \in {Unset, current["client_id"]}
    /\ dep' = [dep EXCEPT ![l] =
          [api |-> IF current["api"] # Unset THEN fromFile(normalizeAPI(url))
                   ELSE typed(normalizeAPI(url)),
           issuer |-> IF current["issuer"] # Unset THEN fromFile(current["issuer"])
                      ELSE NoSetting,
           client_id |-> IF current["client_id"] # Unset
                         THEN fromFile(current["client_id"])
                         ELSE IF clientID # Unset THEN typed(clientID) ELSE own]]
    /\ Moves(l, "lookup")
    /\ UNCHANGED <<file, linked, missing, snap, tokens, cmdVars, edits>>

(* The issuer is looked up where the file has none.  Then a linked file    *)
(* that Save would write to is refused.                                    *)
LooksUp(l) ==
    /\ pc[l] = "lookup"
    /\ \/ dep[l].issuer # NoSetting /\ UNCHANGED dep
       \/ /\ dep[l].issuer = NoSetting
          /\ \E i \in discoverAuthorizationServer(dep[l].api.value) :
                dep' = [dep EXCEPT ![l].issuer =
                            [value |-> i, source |-> "discovered"]]
    /\ ~refuseLink(unsaved(dep'[l], NothingMissing))
    /\ Moves(l, "approval")
    /\ UNCHANGED <<file, linked, missing, snap, tokens, cmdVars, edits>>

(* The user approved, and the token of the login server is saved.          *)
StoresToken(l) ==
    /\ pc[l] = "approval"
    /\ tokens' = [tokens EXCEPT ![dep[l].client_id.value] = dep[l].issuer.value]
    /\ Moves(l, "save")
    /\ UNCHANGED <<file, linked, dep, missing, snap, cmdVars, edits>>

(* Deployment.Save, first half: what does the file lack now?               *)
SaveReads(l) ==
    LET lacks == unsaved(dep[l], readConfigFile(file)) IN
    /\ pc[l] = "save"
    /\ readable(file)
    /\ \/ lacks = NothingMissing /\ Ends(l)
       \/ /\ lacks # NothingMissing
          /\ ~refuseLink(lacks)
          /\ missing' = [missing EXCEPT ![l] = lacks]
          /\ Moves(l, "reread")
          /\ UNCHANGED <<dep, snap>>
    /\ UNCHANGED <<file, linked, tokens, cmdVars, edits>>

(* Second half: the file is read once more, for its content, and the       *)
(* missing keys go above it.  The rename replaces a link that was made     *)
(* since, and goes through the link of a directory.                        *)
SaveRereads(l) ==
    /\ pc[l] = "reread"
    /\ snap' = [snap EXCEPT ![l] = file]
    /\ Moves(l, "rename")
    /\ UNCHANGED <<file, linked, dep, missing, tokens, cmdVars, edits>>

writeFileAtomically(l) ==
    LET add(k) == IF k \in loginKeys /\ missing[l][k] # Unset
                  THEN <<missing[l][k]>> ELSE <<>>
    IN
    /\ pc[l] = "rename"
    /\ file' = [k \in Keys |-> add(k) \o snap[l][k]]
    /\ linked' \in {linked, FALSE}
    /\ Ends(l)
    /\ UNCHANGED <<tokens, cmdVars, edits>>

Fails(l) ==
    /\ pc[l] # "idle"
    /\ Ends(l)
    /\ UNCHANGED <<file, linked, tokens, cmdVars, edits>>

-----------------------------------------------------------------------------
(* Every other command: LoadDeployment, then a request with the token the  *)
(* store has.  The token that token_command hands over is taken to be one  *)
(* of the file's issuer.                                                   *)

LoadDeployment(flag) ==
    LET current == readConfigFile(file)
        url == IF flag # Unset THEN flag ELSE current["api"]
        own == flag = Unset \/ normalizeAPI(flag) = normalizeAPI(current["api"])
    IN
    /\ cmd = Nothing
    /\ readable(file)
    /\ HandsTokens(current) \/ Unset \notin {current["issuer"], current["client_id"]}
    /\ normalizeAPI(url) # Malformed
    /\ ~own => /\ current["issuer"] # Unset
               /\ requireTrustedIssuer(normalizeAPI(url), current["issuer"])
    /\ cmd' = [to |-> normalizeAPI(url), own |-> own,
               issuer |-> current["issuer"], client |-> current["client_id"],
               handed |-> HandsTokens(current)]
    /\ UNCHANGED <<file, linked, loginVars, tokens, sent, edits>>

Requests ==
    /\ cmd # Nothing
    /\ ~cmd.handed => tokens[cmd.client] # Unset
    /\ sent' = [to |-> cmd.to, own |-> cmd.own, issuer |-> cmd.issuer,
                signed |-> IF cmd.handed THEN cmd.issuer ELSE tokens[cmd.client]]
    /\ cmd' = Nothing
    /\ UNCHANGED <<file, linked, loginVars, tokens, edits>>

(* ErrNotLoggedIn where the store has no token, or the command is stopped. *)
CommandEnds ==
    /\ cmd # Nothing
    /\ cmd' = Nothing
    /\ UNCHANGED <<file, linked, loginVars, tokens, sent, edits>>

-----------------------------------------------------------------------------
(* The user or a config manager.                                           *)

Edit(k, definition) ==
    /\ edits < MaxEdits
    /\ \A l \in Logins : pc[l] \in Quiet
    /\ file[k] # definition
    /\ file' = [file EXCEPT ![k] = definition]
    /\ edits' = edits + 1
    /\ UNCHANGED <<linked, loginVars, tokens, cmdVars>>

Link ==
    /\ edits < MaxEdits
    /\ \A l \in Logins : pc[l] \in Quiet
    /\ linked' = ~linked
    /\ edits' = edits + 1
    /\ UNCHANGED <<file, loginVars, tokens, cmdVars>>

LoginStep(l) ==
    \/ \E api \in Spellings \union {Unset}, c \in ClientIDs \union {Unset} :
          DeploymentForLogin(l, api, c)
    \/ LooksUp(l) \/ StoresToken(l)
    \/ SaveReads(l) \/ SaveRereads(l) \/ writeFileAtomically(l)
    \/ Fails(l)

Next ==
    \/ \E l \in Logins : LoginStep(l)
    \/ \E flag \in Spellings \union {Unset} : LoadDeployment(flag)
    \/ Requests \/ CommandEnds
    \/ \E k \in Keys : \E d \in Definitions(k) : Edit(k, d)
    \/ Link

Spec == Init /\ [][Next]_vars

-----------------------------------------------------------------------------
FileType == {f \in [Keys -> Seq(Texts)] :
                \A k \in Keys : f[k] \in Seq(Values(k) \union {Unset})}
Request == [to : APIs, own : BOOLEAN, issuer : Issuers \union {Unset},
            signed : Issuers \union {Unset}]
Loaded == [to : APIs, own : BOOLEAN, issuer : Issuers \union {Unset},
           client : ClientIDs \union {Unset}, handed : BOOLEAN]

(* Every variable has its type.                                            *)
TypeOK ==
    /\ file \in FileType
    /\ linked \in BOOLEAN
    /\ pc \in [Logins -> {"idle", "lookup", "approval", "save", "reread", "rename"}]
    /\ dep \in [Logins -> [loginKeys -> Setting]]
    /\ missing \in [Logins -> [loginKeys -> Texts]]
    /\ snap \in [Logins -> FileType]
    /\ \A l \in Logins :
          /\ \A k \in loginKeys :
                {dep[l][k].value, missing[l][k]} \subseteq Values(k) \union {Unset}
          /\ pc[l] # "idle" => Unset \notin {dep[l].api.value, dep[l].client_id.value}
    /\ tokens \in [ClientIDs -> Issuers \union {Unset}]
    /\ cmd # Nothing => /\ cmd \in Loaded
                        /\ ~cmd.handed => Unset \notin {cmd.issuer, cmd.client}
    /\ sent # Nothing => sent \in Request
    /\ edits \in 0..MaxEdits

(* Nothing already in the file is rewritten: a key that was written while  *)
(* the login waited for approval is as it was after Save.  (Save.)         *)
KeepsWhatTheFileSays ==
    [][edits' = edits =>
          \A k \in Keys : file[k] # <<>> => file'[k] = file[k]]_vars

(* No key is defined twice, which no TOML reader accepts, though keys are  *)
(* added, deleted and emptied while the login waits.  (Save, unsaved,      *)
(* readConfigFile.)                                                        *)
NoDuplicateKeys == \A k \in Keys : Len(file[k]) <= 1

(* A file a config manager owns is not written by a login, even where the  *)
(* link was made while the login waited.  (DeploymentForLogin, Save.)      *)
LinkedNeverWritten ==
    [][linked /\ edits' = edits => UNCHANGED <<file, linked>>]_vars

(* Once the user is asked to approve, Save will not refuse, unless the     *)
(* file was edited: the refusal of a file it cannot write to comes before  *)
(* the grant.  (DeploymentForLogin.)                                       *)
ApprovedLoginCanBeSaved ==
    edits = 0 => \A l \in Logins : pc[l] \in {"approval", "save"} =>
        /\ readable(file)
        /\ linked => unsaved(dep[l], readConfigFile(file)) = NothingMissing

(* A request goes to the API of the file, or to one that names the file's  *)
(* issuer, and its token is one the file's issuer signed, whichever logins *)
(* failed halfway before: so long as nobody else writes the file, and no   *)
(* login starts while another is under way.                                *)
(* (LoadDeployment, requireTrustedIssuer, Save.)                           *)
TokenOfTheFilesIssuer ==
    edits = 0 /\ sent # Nothing =>
        /\ sent.signed = sent.issuer
        /\ sent.own \/ sent.issuer \in Names[sent.to]

-----------------------------------------------------------------------------
(* The inductive invariant.  No edit comes between the steps of a Save.    *)
Undisturbed == edits = 0 \/ Quiet \intersect {"reread", "rename"} = {}
Saving(l) == pc[l] \in {"reread", "rename"}

LinkInv == Undisturbed => \A l \in Logins : Saving(l) => ~linked

AloneInv == \A l, m \in Logins : pc[l] # "idle" /\ pc[m] # "idle" => l = m

(* What a Save found missing is missing until it writes it.                *)
SavesInv ==
    /\ NoDuplicateKeys
    /\ \A l \in Logins :
          /\ Saving(l) => \A k \in loginKeys : missing[l][k] # Unset => file[k] = <<>>
          /\ pc[l] = "rename" => snap[l] = file

(* As long as logins alone write the file: what a login resolved agrees    *)
(* with the file, and with the token it stored.                            *)
ResolvedInv(l) ==
    LET current == readConfigFile(file)
        d == dep[l]
    IN
    /\ readable(file)
    /\ \A k \in loginKeys : current[k] # Unset <=> d[k].source = "file"
    /\ \A k \in {"issuer", "client_id"} : current[k] # Unset => d[k].value = current[k]
    /\ d.issuer.value # Unset \/ (pc[l] = "lookup" /\ d.issuer = NoSetting)
    /\ pc[l] \in {"approval", "save"} /\ linked =>
          \A k \in loginKeys : d[k].source = "file" \/ d[k].value = Unset
    /\ pc[l] \in {"save", "reread", "rename"} =>
          tokens[d.client_id.value] = d.issuer.value
    /\ Saving(l) => missing[l] = unsaved(d, current)

(* Every token that the file's client id may select is one of its issuer.  *)
IssuerInv ==
    LET current == readConfigFile(file) IN
    /\ current["issuer"] # Unset =>
          \A c \in ClientIDs : current["client_id"] \in {Unset, c} =>
              tokens[c] \in {Unset, current["issuer"]}
    /\ cmd # Nothing =>
          /\ cmd.own \/ cmd.issuer \in Names[cmd.to]
          /\ ~cmd.handed => /\ cmd.issuer = current["issuer"]
                            /\ cmd.client = current["client_id"]

DeployInv ==
    /\ TypeOK /\ LinkInv
    /\ ~Overlap =>
          /\ AloneInv
          /\ Undisturbed => SavesInv
          /\ edits = 0 =>
                /\ \A l \in Logins : pc[l] # "idle" => ResolvedInv(l)
                /\ IssuerInv /\ TokenOfTheFilesIssuer
=============================================================================
