--------------------------- MODULE ReusedTokenProofs ---------------------------
(***************************************************************************)
(* Proofs about ReusedToken, for every width of a Duration, every set of   *)
(* lifetimes and every number of goroutines.                               *)
(***************************************************************************)
EXTENDS ReusedToken, TLAPS

(* A Duration is never longer than what was multiplied, and the same where *)
(* it fits.                                                                *)
LEMMA DurationFacts ==
    ASSUME NEW n \in Nat
    PROVE  /\ Duration(n) \in Int /\ Duration(n) <= n
           /\ n <= MaxDuration => Duration(n) = n
<1> DEFINE width == 2 * (MaxDuration + 1)
           sum == n + MaxDuration + 1
<1>1. MaxDuration \in Nat BY ConstantsAssumption
<1>2. width \in Nat /\ width > 0 /\ sum \in Nat BY <1>1
<1>3. Duration(n) = (sum % width) - MaxDuration - 1 BY DEF Duration
<1> HIDE DEF width, sum
<1>4. sum % width \in Int /\ sum % width <= sum BY <1>2
<1>5. sum < width => sum % width = sum BY <1>2
<1> QED BY <1>1, <1>3, <1>4, <1>5 DEF width, sum

(* What ReuseTokenSource gets of a token: its types, and what is left.     *)
LEMMA ExpiryFacts ==
    ASSUME TypeOK, NEW n \in Lifetimes \union {0}, n >= 0
    PROVE  /\ Expiry(n) \in -1..Never
           /\ n = 0 => Expiry(n) = Never
           /\ n # 0 => Expiry(n) # Never /\ Expiry(n) <= n
           /\ n # 0 /\ kind # "command" => Expiry(n) = n
           /\ n # 0 /\ kind = "command" => Expiry(n) <= Floor(n - elapsed)
           /\ n # 0 /\ n <= MaxDuration => n <= Expiry(n) + elapsed
<1>1. n \in Nat /\ Never \in Nat /\ elapsed \in Nat /\ (n = 0 \/ n <= Never - 1)
  BY ConstantsAssumption DEF TypeOK, Late
<1>2. /\ Duration(n) \in Int /\ Duration(n) <= n
      /\ n <= MaxDuration => Duration(n) = n
  BY <1>1, DurationFacts
<1> QED BY <1>1, <1>2 DEF Expiry, Floor

(* What a tick does to what is left.                                       *)
LEMMA LessFacts ==
    ASSUME NEW n \in -1..Never
    PROVE  /\ Less(n) \in -1..Never
           /\ n = Never => Less(n) = Never
           /\ n # Never => Less(n) # Never /\ Less(n) = Floor(n - 1)
<1>1. Never \in Nat BY ConstantsAssumption
<1> QED BY <1>1 DEF Less, Floor

(* A tick takes one from what is left of the token at hand and of the one  *)
(* under way, and adds one to what the fetch took.                         *)
LEMMA TickFacts ==
    ASSUME TypeOK, Tick
    PROVE  /\ tok' = [tok EXCEPT !.left = Less(tok.left), !.real = Less(tok.real)]
           /\ tok'.lasts = tok.lasts /\ tok'.took = tok.took
           /\ tok'.left = Less(tok.left) /\ tok'.real = Less(tok.real)
           /\ Spent(tok) => Spent(tok')
           /\ wire' = [wire EXCEPT !.real = Less(wire.real)]
           /\ wire'.what = wire.what /\ wire'.lasts = wire.lasts
           /\ wire'.real = Less(wire.real)
           /\ wire = Asked => wire' = Asked
           /\ elapsed' \in 0..Never
           /\ elapsed' = IF mu = NoOne \/ elapsed = Never THEN elapsed ELSE elapsed + 1
           /\ UNCHANGED <<kind, over, mu, pc, child>>
<1>1. Never \in Nat BY ConstantsAssumption
<1>2. /\ tok' = [tok EXCEPT !.left = Less(tok.left), !.real = Less(tok.real)]
      /\ wire' = [wire EXCEPT !.real = Less(wire.real)]
  BY DEF Tick
<1>3. Less(-1) = -1 /\ Less(Never) = Never BY <1>1 DEF Less, Floor
<1>4. Spent(tok) => Spent(tok') BY <1>2, <1>3 DEF Spent, TypeOK
<1>5. wire = Asked => wire' = Asked BY <1>2, <1>3 DEF Asked, Answer
<1>6. /\ tok'.lasts = tok.lasts /\ tok'.took = tok.took
      /\ tok'.left = Less(tok.left) /\ tok'.real = Less(tok.real)
      /\ wire'.what = wire.what /\ wire'.lasts = wire.lasts
      /\ wire'.real = Less(wire.real)
  BY <1>2 DEF TypeOK
<1>7. elapsed' \in 0..Never BY <1>1 DEF TypeOK, Tick, Late
<1> QED BY <1>2, <1>4, <1>5, <1>6, <1>7 DEF Tick, Late

(* Every step keeps the types.                                             *)
LEMMA TypeStep == ASSUME TypeOK, WireInv, [Next]_vars PROVE TypeOK'
<1>1. ASSUME NEW g \in Goroutines, Call(g) PROVE TypeOK'
  BY <1>1 DEF Call, TypeOK
<1>2. ASSUME NEW g \in Goroutines, Reuse(g) PROVE TypeOK'
  BY <1>2, ExpiryFacts DEF Reuse, TypeOK, Answer, Asked, Late, Returns
<1>3. ASSUME NEW g \in Goroutines, Fetch(g) PROVE TypeOK'
  BY <1>3 DEF Fetch, TypeOK
<1>4. ASSUME NEW g \in Goroutines, Succeeds(g) PROVE TypeOK'
  <2>1. Expiry(wire.lasts) \in -1..Never /\ wire.lasts >= 0
    BY <1>4, ExpiryFacts DEF Succeeds, Acceptable, TypeOK
  <2>2. tok' \in [lasts : {n \in Lifetimes \union {0} : n >= 0}, left : -1..Never,
                  real : -1..Never, took : 0..Late]
    BY <1>4, <2>1 DEF Succeeds, TypeOK
  <2> QED BY <1>4, <2>2, ConstantsAssumption
      DEF Succeeds, Returns, TypeOK, Answer, Asked, Late
<1>5. ASSUME NEW g \in Goroutines, CommandFails(g) PROVE TypeOK'
  BY <1>5, ExpiryFacts DEF CommandFails, TypeOK, Answer, Asked, Late, Returns
<1>6. ASSUME NEW g \in Goroutines, RequestFails(g) PROVE TypeOK'
  BY <1>6, ConstantsAssumption
  DEF RequestFails, TypeOK, Answer, Asked, Late, Returns
<1>7. ASSUME NEW g \in Goroutines, RequestTimesOut(g) PROVE TypeOK'
  BY <1>7, ExpiryFacts
  DEF RequestTimesOut, TypeOK, Answer, Asked, Late, Returns
<1>8. CASE CommandTokenSource
  BY <1>8 DEF CommandTokenSource, Opens, TypeOK
<1>9. CASE ClientCredentialsTokenSource
  BY <1>9 DEF ClientCredentialsTokenSource, Opens, TypeOK
<1>10. CASE Issues
  BY <1>10, ConstantsAssumption DEF Issues, TypeOK, Answer, Floor
<1>11. CASE AnswersNoToken
  BY <1>11 DEF AnswersNoToken, TypeOK, Answer, Asked
<1>12. CASE Spawns
  BY <1>12 DEF Spawns, TypeOK
<1>13. CASE ChildEnds
  BY <1>13 DEF ChildEnds, TypeOK
<1>14. CASE ContextEnds
  BY <1>14 DEF ContextEnds, TypeOK
<1>15. CASE Tick
  <2>1. /\ Less(tok.left) \in -1..Never /\ Less(tok.real) \in -1..Never
        /\ Less(wire.real) \in -1..Never
    BY LessFacts DEF TypeOK
  <2> QED BY <1>15, <2>1, TickFacts DEF TypeOK, Late
<1>16. CASE UNCHANGED vars
  BY <1>16 DEF vars, TypeOK
<1> QED
  BY <1>1, <1>2, <1>3, <1>4, <1>5, <1>6, <1>7, <1>8, <1>9, <1>10, <1>11, <1>12,
     <1>13, <1>14, <1>15, <1>16
  DEF Next, Acquire, Finishes, Killed

(* Every step keeps what is left of the token under way in its bounds.     *)
LEMMA WireStep == ASSUME TypeOK, WireInv, [Next]_vars PROVE WireInv'
<1>1. ASSUME NEW g \in Goroutines, Call(g) PROVE WireInv'
  BY <1>1 DEF Call, WireInv
<1>2. ASSUME NEW g \in Goroutines, Reuse(g) PROVE WireInv'
  BY <1>2 DEF Reuse, WireInv, Returns
<1>3. ASSUME NEW g \in Goroutines, Fetch(g) PROVE WireInv'
  BY <1>3, ConstantsAssumption DEF Fetch, TypeOK, WireInv
<1>4. ASSUME NEW g \in Goroutines, Succeeds(g) PROVE WireInv'
  BY <1>4, ConstantsAssumption
  DEF Succeeds, TypeOK, WireInv, Answer, Asked, Returns
<1>5. ASSUME NEW g \in Goroutines, CommandFails(g) PROVE WireInv'
  BY <1>5, ConstantsAssumption
  DEF CommandFails, TypeOK, WireInv, Answer, Asked, Returns
<1>6. ASSUME NEW g \in Goroutines, RequestFails(g) PROVE WireInv'
  BY <1>6, ConstantsAssumption
  DEF RequestFails, TypeOK, WireInv, Answer, Asked, Returns
<1>7. ASSUME NEW g \in Goroutines, RequestTimesOut(g) PROVE WireInv'
  BY <1>7, ConstantsAssumption
  DEF RequestTimesOut, TypeOK, WireInv, Answer, Asked, Returns
<1>8. CASE CommandTokenSource
  BY <1>8 DEF CommandTokenSource, Opens, WireInv
<1>9. CASE ClientCredentialsTokenSource
  BY <1>9 DEF ClientCredentialsTokenSource, Opens, WireInv
<1>10. CASE Issues
  BY <1>10, ConstantsAssumption DEF Issues, TypeOK, WireInv, Answer, Floor
<1>11. CASE AnswersNoToken
  BY <1>11 DEF AnswersNoToken, WireInv, Answer
<1>12. CASE Spawns
  BY <1>12 DEF Spawns, WireInv
<1>13. CASE ChildEnds
  BY <1>13 DEF ChildEnds, WireInv
<1>14. CASE ContextEnds
  BY <1>14 DEF ContextEnds, WireInv
<1>15. CASE Tick
  <2>1. ASSUME wire.what = "token", wire.lasts = 0 PROVE wire'.real = Never
    BY <1>15, <2>1, TickFacts DEF WireInv, Less
  <2>2. ASSUME wire.what = "token", wire.lasts # 0
        PROVE  /\ Floor(wire'.lasts - elapsed') <= wire'.real
               /\ wire'.real <= Floor(wire'.lasts)
    <3>1. /\ wire.lasts \in -1..(Never - 1) /\ wire.real \in -1..Never
          /\ Never \in Nat /\ elapsed \in 0..Never
      BY <2>2, ConstantsAssumption DEF TypeOK, Late
    <3>2. mu # NoOne BY <2>2 DEF WireInv, Asked, Answer
    <3>3. wire.real # Never BY <2>2, <3>1 DEF WireInv, Floor
    <3>4. wire'.real = Floor(wire.real - 1)
      BY <1>15, <3>1, <3>3, TickFacts, LessFacts
    <3>5. wire'.lasts = wire.lasts
          /\ elapsed' = IF elapsed = Never THEN elapsed ELSE elapsed + 1
      BY <1>15, <3>2, TickFacts
    <3>6. Floor(wire.lasts - elapsed) <= wire.real /\ wire.real <= Floor(wire.lasts)
      BY <2>2 DEF WireInv
    <3> QED BY <3>1, <3>4, <3>5, <3>6 DEF Floor
  <2>3. mu = NoOne => elapsed' = 0 /\ wire' = Asked
    BY <1>15, TickFacts DEF WireInv
  <2>4. wire'.what = "asked" => wire' = Asked BY <1>15, TickFacts DEF WireInv
  <2> QED BY <1>15, <2>1, <2>2, <2>3, <2>4, TickFacts DEF WireInv
<1>16. CASE UNCHANGED vars
  BY <1>16 DEF vars, WireInv
<1> QED
  BY <1>1, <1>2, <1>3, <1>4, <1>5, <1>6, <1>7, <1>8, <1>9, <1>10, <1>11, <1>12,
     <1>13, <1>14, <1>15, <1>16
  DEF Next, Acquire, Finishes, Killed

(* And the two reckonings of the token at hand as close as they must be.   *)
LEMMA TokenStep == ASSUME TypeOK, WireInv, TokenInv, [Next]_vars PROVE TokenInv'
<1>1. ASSUME NEW g \in Goroutines, Call(g) PROVE TokenInv'
  BY <1>1 DEF Call, TokenInv
<1>2. ASSUME NEW g \in Goroutines, Reuse(g) PROVE TokenInv'
  BY <1>2 DEF Reuse, TokenInv, Returns
<1>3. ASSUME NEW g \in Goroutines, Fetch(g) PROVE TokenInv'
  BY <1>3 DEF Fetch, TokenInv
<1>4. ASSUME NEW g \in Goroutines, Succeeds(g) PROVE TokenInv'
  <2> DEFINE n == wire.lasts
  <2>1. /\ tok'.lasts = n /\ tok'.left = Expiry(n) /\ tok'.real = wire.real
        /\ tok'.took = elapsed /\ kind' = kind
        /\ wire.what = "token" /\ n \in Lifetimes \union {0} /\ n >= 0
    BY <1>4 DEF Succeeds, Returns, Acceptable, TypeOK
  <2>2. /\ wire.real \in -1..Never /\ elapsed \in Nat /\ Never \in Nat
        /\ n \in Nat /\ (n = 0 \/ n <= Never - 1)
    <3>1. wire.real \in -1..Never /\ elapsed \in Nat /\ Never \in Nat
      BY ConstantsAssumption DEF TypeOK
    <3>2. n = 0 \/ n \in -1..(Never - 1) BY <2>1, ConstantsAssumption
    <3> QED BY <2>1, <3>1, <3>2
  <2>3. CASE n = 0
    <3>1. Expiry(n) = Never BY <2>3 DEF Expiry
    <3>2. wire.real = Never BY <2>1, <2>3 DEF WireInv
    <3> QED BY <2>1, <2>3, <3>1, <3>2 DEF TokenInv
  <2>4. CASE n # 0
    <3>1. Floor(n - elapsed) <= wire.real /\ wire.real <= n
      BY <2>1, <2>2, <2>4 DEF WireInv, Floor
    <3>2. /\ Expiry(n) \in -1..Never /\ Expiry(n) # Never /\ Expiry(n) <= n
          /\ kind # "command" => Expiry(n) = n
          /\ kind = "command" => Expiry(n) <= Floor(n - elapsed)
          /\ n <= MaxDuration => n <= Expiry(n) + elapsed
      BY <2>1, <2>4, ExpiryFacts
    <3>3. wire.real # Never /\ n > 0 BY <2>2, <2>4, <3>1
    <3>4. Floor(Expiry(n) - (IF kind = "command" THEN 0 ELSE elapsed)) <= wire.real
      BY <2>2, <3>1, <3>2 DEF Floor
    <3>5. n <= MaxDuration => wire.real <= Expiry(n) + elapsed
      BY <2>2, <3>1, <3>2
    <3> QED BY <2>1, <3>2, <3>3, <3>4, <3>5 DEF TokenInv
  <2> QED BY <2>3, <2>4
<1>5. ASSUME NEW g \in Goroutines, CommandFails(g) PROVE TokenInv'
  BY <1>5 DEF CommandFails, TokenInv, Returns
<1>6. ASSUME NEW g \in Goroutines, RequestFails(g) PROVE TokenInv'
  BY <1>6 DEF RequestFails, TokenInv, Returns
<1>7. ASSUME NEW g \in Goroutines, RequestTimesOut(g) PROVE TokenInv'
  BY <1>7 DEF RequestTimesOut, TokenInv, Returns
<1>8. CASE CommandTokenSource
  BY <1>8 DEF CommandTokenSource, Opens, WireInv, TokenInv
<1>9. CASE ClientCredentialsTokenSource
  BY <1>9 DEF ClientCredentialsTokenSource, Opens, TokenInv
<1>10. CASE Issues
  BY <1>10 DEF Issues, TokenInv
<1>11. CASE AnswersNoToken
  BY <1>11 DEF AnswersNoToken, TokenInv
<1>12. CASE Spawns
  BY <1>12 DEF Spawns, TokenInv
<1>13. CASE ChildEnds
  BY <1>13 DEF ChildEnds, TokenInv
<1>14. CASE ContextEnds
  BY <1>14 DEF ContextEnds, TokenInv
<1>15. CASE Tick
  <2>1. /\ tok.left \in -1..Never /\ tok.real \in -1..Never /\ tok.took \in Nat
        /\ Never \in Nat
    BY ConstantsAssumption DEF TypeOK
  <2>2. CASE Spent(tok) BY <1>15, <2>2, TickFacts DEF TokenInv
  <2>3. CASE tok.lasts = 0 /\ tok.left = Never /\ tok.real = Never
    BY <1>15, <2>3, TickFacts DEF TokenInv, Less
  <2>4. CASE ~Spent(tok) /\ tok.lasts # 0
    <3>1. /\ tok'.left = Floor(tok.left - 1) /\ tok'.real = Floor(tok.real - 1)
          /\ tok'.left # Never /\ tok'.real # Never
      BY <1>15, <2>1, <2>4, TickFacts, LessFacts DEF TokenInv
    <3>2. /\ tok'.lasts = tok.lasts /\ tok'.took = tok.took /\ kind' = kind
      BY <1>15, TickFacts
    <3> QED BY <2>1, <2>4, <3>1, <3>2 DEF TokenInv, Floor
  <2> QED BY <2>2, <2>3, <2>4 DEF TokenInv
<1>16. CASE UNCHANGED vars
  BY <1>16 DEF vars, TokenInv
<1> QED
  BY <1>1, <1>2, <1>3, <1>4, <1>5, <1>6, <1>7, <1>8, <1>9, <1>10, <1>11, <1>12,
     <1>13, <1>14, <1>15, <1>16
  DEF Next, Acquire, Finishes, Killed

-----------------------------------------------------------------------------
LEMMA SourceInvInit == Init => SourceInv
<1> SUFFICES ASSUME Init PROVE SourceInv OBVIOUS
<1>1. TypeOK
  <2>1. NoToken \in [lasts : {n \in Lifetimes \union {0} : n >= 0}, left : -1..Never,
                     real : -1..Never, took : 0..Late]
    BY ConstantsAssumption DEF NoToken, Late
  <2>2. Asked \in [what : {"asked", "token", "failed"},
                   lasts : Lifetimes \union {0}, real : -1..Never]
    BY ConstantsAssumption DEF Asked, Answer
  <2>3. over \in BOOLEAN /\ child \in BOOLEAN BY DEF Init
  <2> QED BY <2>1, <2>2, <2>3, ConstantsAssumption DEF Init, TypeOK, Late
<1> QED BY <1>1, ConstantsAssumption
    DEF Init, SourceInv, WireInv, TokenInv, Spent, NoToken, Asked, Answer

LEMMA SourceInvStep == SourceInv /\ [Next]_vars => SourceInv'
  BY TypeStep, WireStep, TokenStep DEF SourceInv

(* Every reachable state satisfies the inductive invariant of a source.    *)
THEOREM SourceInductive == Spec => []SourceInv
  BY SourceInvInit, SourceInvStep, PTL DEF Spec

(* Every variable has its type.                                            *)
THEOREM SourceTypeCorrect == Spec => []TypeOK
<1>1. SourceInv => TypeOK BY DEF SourceInv
<1> QED BY <1>1, SourceInductive, PTL

(* What is handed out again is live: a command's token always, a grant's   *)
(* if its answer took no longer than expiryDelta.  (commandSource.Token.)  *)
THEOREM ReusedIsLive == Spec => ReusedTokenIsLive
<1>1. SourceInv /\ [Next]_vars =>
        [\A g \in Goroutines :
            Reuse(g) /\ (kind = "command" \/ tok.took <= expiryDelta)
            => tok.real >= 0]_vars
  <2> SUFFICES ASSUME SourceInv, NEW g \in Goroutines, Reuse(g),
                      kind = "command" \/ tok.took <= expiryDelta
               PROVE  tok.real >= 0
    OBVIOUS
  <2>1. tok # NoToken /\ tok.left >= expiryDelta BY DEF Reuse, Valid
  <2>2. /\ tok.left \in -1..Never /\ tok.real \in -1..Never /\ tok.took \in Nat
        /\ expiryDelta \in Nat /\ Never \in Nat
    BY ConstantsAssumption DEF SourceInv, TypeOK, Late
  <2> QED BY <2>1, <2>2 DEF SourceInv, TokenInv, Spent, Floor
<1> QED BY <1>1, SourceInductive, PTL DEF Spec, ReusedTokenIsLive

(* Nothing is fetched while the token at hand has more left than           *)
(* expiryDelta and what its own fetch took.  (commandSource.Token.)        *)
THEOREM ReusedWhileLive == Spec => ReusedWhileItLasts
<1>1. SourceInv /\ [Next]_vars =>
        [\A g \in Goroutines :
            Fetch(g) /\ tok.lasts <= MaxDuration
            => tok.real < expiryDelta + tok.took]_vars
  <2> SUFFICES ASSUME SourceInv, NEW g \in Goroutines, Fetch(g),
                      tok.lasts <= MaxDuration
               PROVE  tok.real < expiryDelta + tok.took
    OBVIOUS
  <2>1. tok = NoToken \/ ~(tok.left >= expiryDelta) BY DEF Fetch, Valid
  <2>2. /\ tok.left \in -1..Never /\ tok.real \in -1..Never /\ tok.took \in Nat
        /\ expiryDelta \in Nat /\ Never \in Nat
    BY ConstantsAssumption DEF SourceInv, TypeOK, Late
  <2>3. CASE Spent(tok) BY <2>2, <2>3 DEF Spent
  <2>4. CASE ~Spent(tok)
    <3>1. tok.left < expiryDelta BY <2>1, <2>2, <2>4 DEF NoToken, Spent
    <3> QED BY <2>2, <2>4, <3>1 DEF SourceInv, TokenInv
  <2> QED BY <2>3, <2>4
<1> QED BY <1>1, SourceInductive, PTL DEF Spec, ReusedWhileItLasts
=============================================================================
