--------------------------- MODULE DeviceLoginProofs ---------------------------
(***************************************************************************)
(* Proofs about DeviceLogin, for every interval, timeout and expiry.       *)
(***************************************************************************)
EXTENDS DeviceLogin, TLAPS

(* What the poll hears of each answer: slow_down of every limit and of     *)
(* nothing else, the rest as it was sent.                                  *)
LEMMA HeardFacts ==
    ASSUME wire \in Answers
    PROVE  /\ Heard = "slow_down" <=> wire \in Limits
           /\ Heard = "authorization_pending" <=> wire = Verdict.pending
           /\ Heard = "token" <=> wire = Verdict.approved
           /\ wire \notin Limits => Heard = wire.code
<1>1. CASE wire \in Limits
  BY <1>1 DEF Limits, Heard, backOffAsSlowDown, asksToWait, Says, Verdict
<1>2. CASE wire \in Noise
  BY <1>2 DEF Limits, Noise, Heard, backOffAsSlowDown, asksToWait, Says, Verdict
<1>3. CASE \E g \in DOMAIN Verdict : wire = Verdict[g]
  BY <1>3 DEF Limits, Heard, backOffAsSlowDown, asksToWait, Says, Verdict
<1> QED BY <1>1, <1>2, <1>3 DEF Answers

(* The provider's answers are apart from one another, and from the limits. *)
LEMMA VerdictFacts ==
    /\ DOMAIN Verdict = {"pending", "approved", "issued", "denied", "expired"}
    /\ \A g \in DOMAIN Verdict : Verdict[g] \in Answers /\ Verdict[g] \notin Limits
    /\ Verdict.issued = Verdict.approved
    /\ \A g \in DOMAIN Verdict : Verdict[g] = Verdict.pending => g = "pending"
    /\ Limits \subseteq Answers /\ Noise \subseteq Answers
    /\ Limits \intersect Noise = {}
    /\ Asked \notin Answers
  BY DEF Verdict, Answers, Limits, Noise, Says, Asked

-----------------------------------------------------------------------------
(* Every step keeps the types.                                             *)
LEMMA TypeStep == ASSUME TypeOK, [Next]_vars PROVE TypeOK'
<1>1. CASE AsksForCode
  BY <1>1 DEF AsksForCode, TypeOK, ticker, ghosts
<1>2. CASE StartFails
  BY <1>2 DEF StartFails, Returns, TypeOK, ticker
<1>3. CASE Shown
  BY <1>3, ConstantsAssumption DEF Shown, TypeOK
<1>4. CASE Poll
  BY <1>4 DEF Poll, TypeOK, ghosts
<1>5. CASE GoesOn
  <2>1. interval \in Nat /\ now \in Nat /\ asks \in Nat
    BY ConstantsAssumption DEF TypeOK
  <2>2. /\ asks' \in {asks, asks + 1} /\ askedAt' \in {askedAt, now}
        /\ wire \in Limits => asks' = asks + 1
        /\ UNCHANGED <<now, end, pc, sentAt, grant, outcome, approvedAt, noisy>>
        /\ wire' = None
    BY <1>5 DEF GoesOn
  <2>3. \/ UNCHANGED ticker
        \/ /\ wire \in Limits /\ interval' = interval + 1
           /\ next' = now + interval' /\ due' = FALSE
    BY <1>5, HeardFacts DEF GoesOn
  <2>4. interval' \in Interval..(Interval + asks') /\ next' \in Nat
    BY <2>1, <2>2, <2>3, ConstantsAssumption DEF TypeOK, ticker
  <2>5. due' \in BOOLEAN BY <2>3 DEF TypeOK, ticker
  <2> QED BY <2>1, <2>2, <2>4, <2>5 DEF TypeOK
<1>6. CASE LogsIn
  BY <1>6 DEF LogsIn, Returns, TypeOK, ticker
<1>7. CASE Fails
  BY <1>7 DEF Fails, Returns, TypeOK, ticker
<1>8. CASE RequestTimesOut
  BY <1>8 DEF RequestTimesOut, Returns, TypeOK, ticker
<1>9. CASE ContextEnds
  BY <1>9 DEF ContextEnds, Returns, TypeOK, ticker
<1>10. CASE Answer
  BY <1>10, VerdictFacts DEF Answer, TypeOK, ticker, ghosts
<1>11. CASE AnswerOther
  BY <1>11, VerdictFacts DEF AnswerOther, TypeOK, ticker
<1>12. CASE Decides
  BY <1>12, VerdictFacts DEF Decides, TypeOK, ticker
<1>13. CASE Tick
  <2>1. interval \in Nat /\ now \in Nat /\ next \in Nat
    BY ConstantsAssumption DEF TypeOK
  <2>2. now' \in Nat /\ next' \in Nat BY <1>13, <2>1 DEF Tick
  <2>3. due' \in BOOLEAN BY <1>13 DEF Tick, TypeOK
  <2> QED BY <1>13, <2>2, <2>3 DEF Tick, TypeOK, ghosts
<1>14. CASE UNCHANGED vars
  BY <1>14 DEF vars, ticker, ghosts, TypeOK
<1> QED BY <1>1, <1>2, <1>3, <1>4, <1>5, <1>6, <1>7, <1>8, <1>9, <1>10, <1>11,
           <1>12, <1>13, <1>14
     DEF Next, Client

(* Every step keeps the ticker between its asks and its next tick.         *)
LEMMA TickerStep ==
    ASSUME TypeOK, TypeOK', TickerInv, [Next]_vars
    PROVE  TickerInv'
<1>1. CASE AsksForCode
  BY <1>1 DEF AsksForCode, TickerInv, ticker, ghosts
<1>2. CASE StartFails
  BY <1>2 DEF StartFails, Returns, TickerInv, ticker
<1>3. CASE Shown
  BY <1>3, ConstantsAssumption DEF Shown, TypeOK, TickerInv
<1>4. CASE Poll
  BY <1>4, ConstantsAssumption DEF Poll, TypeOK, TickerInv, ghosts, Idle
<1>5. CASE GoesOn
  BY <1>5, ConstantsAssumption, HeardFacts
  DEF GoesOn, TypeOK, TickerInv, ticker
<1>6. CASE LogsIn
  BY <1>6 DEF LogsIn, Returns, TickerInv, ticker
<1>7. CASE Fails
  BY <1>7 DEF Fails, Returns, TickerInv, ticker
<1>8. CASE RequestTimesOut
  BY <1>8 DEF RequestTimesOut, Returns, TickerInv, ticker
<1>9. CASE ContextEnds
  BY <1>9 DEF ContextEnds, Returns, TickerInv, ticker
<1>10. CASE Answer
  BY <1>10, NoneAssumption DEF Answer, TickerInv, ticker, ghosts
<1>11. CASE AnswerOther
  <2>1. wire \in Answers \union {Asked} /\ wire' \in Answers
    BY <1>11, VerdictFacts DEF AnswerOther, TypeOK
  <2>2. wire # None /\ wire' # None BY <2>1, NoneAssumption
  <2> QED BY <1>11, <2>2 DEF AnswerOther, TickerInv, ticker
<1>12. CASE Decides
  BY <1>12 DEF Decides, TickerInv, ticker
<1>13. CASE Tick
  BY <1>13, ConstantsAssumption DEF Tick, TypeOK, TickerInv, ghosts
<1>14. CASE UNCHANGED vars
  BY <1>14 DEF vars, ticker, ghosts, TickerInv
<1> QED BY <1>1, <1>2, <1>3, <1>4, <1>5, <1>6, <1>7, <1>8, <1>9, <1>10, <1>11,
           <1>12, <1>13, <1>14
     DEF Next, Client

(* Every answer of the login server stays one of what became of the code.  *)
LEMMA AnswerStep ==
    ASSUME TypeOK, TickerInv, AnswerInv, [Next]_vars
    PROVE  AnswerInv'
<1>1. CASE AsksForCode
  BY <1>1 DEF AsksForCode, AnswerInv, ghosts
<1>2. CASE StartFails
  BY <1>2 DEF StartFails, Returns, TickerInv, AnswerInv
<1>3. CASE Shown
  BY <1>3 DEF Shown, AnswerInv
<1>4. CASE Poll
  BY <1>4, VerdictFacts DEF Poll, AnswerInv
<1>5. CASE GoesOn
  BY <1>5, NoneAssumption, VerdictFacts DEF GoesOn, AnswerInv
<1>6. CASE LogsIn
  BY <1>6, NoneAssumption, VerdictFacts DEF LogsIn, Returns, AnswerInv
<1>7. CASE Fails
  BY <1>7, NoneAssumption, VerdictFacts DEF Fails, Returns, AnswerInv
<1>8. CASE RequestTimesOut
  BY <1>8, NoneAssumption, VerdictFacts DEF RequestTimesOut, Returns, AnswerInv
<1>9. CASE ContextEnds
  BY <1>9, NoneAssumption, VerdictFacts DEF ContextEnds, Returns, AnswerInv
<1>10. CASE Answer
  BY <1>10, VerdictFacts DEF Answer, TypeOK, AnswerInv
<1>11. CASE AnswerOther
  <2>1. wire' \in Limits \/ (wire' \in Noise /\ noisy')
    BY <1>11 DEF AnswerOther
  <2>2. wire' # Verdict.pending
    BY <2>1 DEF Limits, Noise, Says, Verdict
  <2> QED BY <2>1, <2>2 DEF AnswerInv
<1>12. CASE Decides
  BY <1>12, NoneAssumption, VerdictFacts DEF Decides, TickerInv, AnswerInv
<1>13. CASE Tick
  BY <1>13 DEF Tick, AnswerInv, ghosts
<1>14. CASE UNCHANGED vars
  BY <1>14 DEF vars, ghosts, AnswerInv
<1> QED BY <1>1, <1>2, <1>3, <1>4, <1>5, <1>6, <1>7, <1>8, <1>9, <1>10, <1>11,
           <1>12, <1>13, <1>14
     DEF Next, Client

(* An approval stays within reach of the poll.                             *)
LEMMA ApprovalStep ==
    ASSUME TypeOK, TypeOK', TickerInv, TickerInv', AnswerInv, ApprovalInv, [Next]_vars
    PROVE  ApprovalInv'
<1>1. CASE AsksForCode
  BY <1>1 DEF AsksForCode, ApprovalInv
<1>2. CASE StartFails
  BY <1>2 DEF StartFails, Returns, ApprovalInv
<1>3. CASE Shown
  BY <1>3, ConstantsAssumption DEF Shown, TypeOK, TickerInv, ApprovalInv, Since
<1>4. CASE Poll
  BY <1>4, NoneAssumption DEF Poll, ApprovalInv, Since, ghosts, Idle
<1>5. CASE GoesOn
  BY <1>5, ConstantsAssumption, HeardFacts
  DEF GoesOn, TypeOK, TickerInv, AnswerInv, ApprovalInv, Since, ticker
<1>6. CASE LogsIn
  BY <1>6 DEF LogsIn, Returns, ApprovalInv
<1>7. CASE Fails
  BY <1>7 DEF Fails, Returns, ApprovalInv
<1>8. CASE RequestTimesOut
  BY <1>8 DEF RequestTimesOut, Returns, ApprovalInv
<1>9. CASE ContextEnds
  BY <1>9 DEF ContextEnds, Returns, ApprovalInv
<1>10. CASE Answer
  BY <1>10, NoneAssumption, VerdictFacts
  DEF Answer, ApprovalInv, Since, ticker, ghosts
<1>11. CASE AnswerOther
  BY <1>11, NoneAssumption, VerdictFacts
  DEF AnswerOther, ApprovalInv, Since, ticker
<1>12. CASE Decides
  BY <1>12, ConstantsAssumption
  DEF Decides, TypeOK, TickerInv, ApprovalInv, Since
<1>13. CASE Tick
  BY <1>13 DEF Tick, ApprovalInv, Since, ghosts, Idle
<1>14. CASE UNCHANGED vars
  BY <1>14 DEF vars, ticker, ghosts, ApprovalInv, Since
<1> QED BY <1>1, <1>2, <1>3, <1>4, <1>5, <1>6, <1>7, <1>8, <1>9, <1>10, <1>11,
           <1>12, <1>13, <1>14
     DEF Next, Client

(* How a login ends.                                                       *)
LEMMA OutcomeStep ==
    ASSUME TypeOK, now <= end, TickerInv, AnswerInv, ApprovalInv,
           EndsOnlyOnVerdict, ApprovalFetched, [Next]_vars
    PROVE  /\ now' <= end'
           /\ EndsOnlyOnVerdict' /\ ApprovalFetched'
<1>1. CASE AsksForCode
  BY <1>1 DEF AsksForCode, EndsOnlyOnVerdict, ApprovalFetched, ghosts
<1>2. CASE StartFails
  BY <1>2 DEF StartFails, Returns, EndsOnlyOnVerdict, ApprovalFetched
<1>3. CASE Shown
  BY <1>3 DEF Shown, TickerInv, EndsOnlyOnVerdict, ApprovalFetched
<1>4. CASE Poll
  BY <1>4 DEF Poll, EndsOnlyOnVerdict, ApprovalFetched, ghosts
<1>5. CASE GoesOn
  BY <1>5, NoneAssumption
  DEF GoesOn, TickerInv, EndsOnlyOnVerdict, ApprovalFetched
<1>6. CASE LogsIn
  BY <1>6 DEF LogsIn, Returns, EndsOnlyOnVerdict, ApprovalFetched
<1>7. CASE Fails
  BY <1>7, VerdictFacts, HeardFacts
  DEF Fails, Returns, TypeOK, AnswerInv, EndsOnlyOnVerdict, ApprovalFetched
<1>8. CASE RequestTimesOut
  BY <1>8 DEF RequestTimesOut, Returns, EndsOnlyOnVerdict, ApprovalFetched
<1>9. CASE ContextEnds
  BY <1>9, ConstantsAssumption
  DEF ContextEnds, Returns, TypeOK, TickerInv, ApprovalInv, Since,
        EndsOnlyOnVerdict, ApprovalFetched
<1>10. CASE Answer
  BY <1>10 DEF Answer, EndsOnlyOnVerdict, ApprovalFetched, ghosts
<1>11. CASE AnswerOther
  BY <1>11 DEF AnswerOther, EndsOnlyOnVerdict, ApprovalFetched
<1>12. CASE Decides
  BY <1>12 DEF Decides, TickerInv, EndsOnlyOnVerdict, ApprovalFetched
<1>13. CASE Tick
  BY <1>13, ConstantsAssumption
  DEF Tick, TypeOK, EndsOnlyOnVerdict, ApprovalFetched, ghosts
<1>14. CASE UNCHANGED vars
  BY <1>14 DEF vars, ghosts, EndsOnlyOnVerdict, ApprovalFetched
<1> QED BY <1>1, <1>2, <1>3, <1>4, <1>5, <1>6, <1>7, <1>8, <1>9, <1>10, <1>11,
           <1>12, <1>13, <1>14
     DEF Next, Client

-----------------------------------------------------------------------------
LEMMA LoginInvInit == Init => LoginInv
<1> SUFFICES ASSUME Init PROVE LoginInv OBVIOUS
<1>1. TypeOK
  <2>1. due \in BOOLEAN /\ noisy \in BOOLEAN BY DEF Init
  <2> QED BY <2>1, ConstantsAssumption, VerdictFacts DEF Init, TypeOK
<1>2. TickerInv BY ConstantsAssumption DEF Init, TickerInv
<1>3. AnswerInv /\ ApprovalInv
  BY NoneAssumption, VerdictFacts DEF Init, AnswerInv, ApprovalInv
<1> QED BY <1>1, <1>2, <1>3, ConstantsAssumption
    DEF Init, LoginInv, EndsOnlyOnVerdict, ApprovalFetched

LEMMA LoginInvStep == LoginInv /\ [Next]_vars => LoginInv'
<1> SUFFICES ASSUME LoginInv, [Next]_vars PROVE LoginInv' OBVIOUS
<1>1. TypeOK' BY TypeStep DEF LoginInv
<1>2. TickerInv' BY <1>1, TickerStep DEF LoginInv
<1> QED BY <1>1, <1>2, AnswerStep, ApprovalStep, OutcomeStep DEF LoginInv

(* Every reachable state satisfies the inductive invariant of a login.     *)
THEOREM LoginInductive == Spec => []LoginInv
  BY LoginInvInit, LoginInvStep, PTL DEF Spec

(* Every variable has its type.                                            *)
THEOREM LoginTypeCorrect == Spec => []TypeOK
<1>1. LoginInv => TypeOK BY DEF LoginInv
<1> QED BY <1>1, LoginInductive, PTL

(* Only a verdict ends a login that hears the login server, whatever the   *)
(* rate limits answer between.  (backOffAsSlowDown.)                       *)
THEOREM OnlyVerdictEnds == Spec => []EndsOnlyOnVerdict
<1>1. LoginInv => EndsOnlyOnVerdict BY DEF LoginInv
<1> QED BY <1>1, LoginInductive, PTL

(* An approval is missed only in the last interval and two requests,       *)
(* however often the interval grew.  (pollForApproval.)                    *)
THEOREM ApprovalIsFetched == Spec => []ApprovalFetched
<1>1. LoginInv => ApprovalFetched BY DEF LoginInv
<1> QED BY <1>1, LoginInductive, PTL

(* Every poll keeps the distance asked for.  (backOffAsSlowDown.)          *)
THEOREM PollBacksOff == Spec => BacksOff
<1>1. LoginInv /\ [Next]_vars =>
        [wire = None /\ wire' = Asked => now >= askedAt + Interval + asks]_vars
  <2> SUFFICES ASSUME LoginInv, [Next]_vars, wire = None, wire' = Asked
               PROVE  now >= askedAt + Interval + asks
    OBVIOUS
  <2>1. Poll
    BY NoneAssumption, VerdictFacts
    DEF Next, Client, AsksForCode, StartFails, Shown, GoesOn, LogsIn, Fails, Returns,
        RequestTimesOut, ContextEnds, Answer, AnswerOther, Decides, Tick, vars, Idle
  <2>2. askedAt + interval <= now BY <2>1 DEF Poll, Idle, LoginInv, TickerInv
  <2> QED BY <2>2, ConstantsAssumption DEF LoginInv, TickerInv, TypeOK
<1> QED BY <1>1, LoginInductive, PTL DEF Spec, BacksOff
=============================================================================
