---------------------------- MODULE EngineProofs ----------------------------
(* Proofs about Engine for any set of endpoints and any number of faults.    *)
EXTENDS Engine, TLAPS

\* A step of the engine is one of its actions, or changes nothing.
LEMMA StepCases ==
  ASSUME [Next]_vars
  PROVE  \/ Terminate \/ BuildFails \/ Starts \/ MainStops \/ MainGivesUp
         \/ Waits \/ Returns \/ Timer \/ Announced \/ AnnouncerStops
         \/ \E e \in Eps : \/ BuildOpens(e)
                         \/ CloseEndpoint(e)
                         \/ Reads(e)
                         \/ ReadsOn(e)
                         \/ ReaderStops(e)
                         \/ ReaderFails(e)
                         \/ Announces(e)
                         \/ AnnounceFails(e)
                         \/ \E t \in Eps : Relays(e, t) \/ RelayFails(e, t)
         \/ UNCHANGED vars
BY DEF Next, MainStep, ReaderStep, AnnouncerStep

\* Every variable stays in its type.
LEMMA TypeCorrect == Spec => []TypeOK
<1> USE EngineConstants
<1>1. Init => TypeOK
  <2> SUFFICES ASSUME Init PROVE TypeOK
    OBVIOUS
  <2>1. asked \in BOOLEAN /\ cancelled \in BOOLEAN /\ failed \in BOOLEAN
    BY Zenon DEF Init
  <2>2. QED
    BY <2>1 DEF Init, TypeOK
<1>2. TypeOK /\ [Next]_vars => TypeOK'
  <2> SUFFICES ASSUME TypeOK, [Next]_vars PROVE TypeOK'
    OBVIOUS
  <2> USE DEF TypeOK, mainVars, readerVars, announceVars, Fault, Fail, SendFails
  <2>1. CASE Terminate
    BY <2>1 DEF Terminate
  <2>2. CASE BuildFails
    BY <2>2 DEF BuildFails
  <2>3. CASE Starts
    BY <2>3 DEF Starts
  <2>4. CASE MainStops
    BY <2>4 DEF MainStops
  <2>5. CASE MainGivesUp
    BY <2>5 DEF MainGivesUp
  <2>6. CASE Waits
    BY <2>6 DEF Waits, AllClosed
  <2>7. CASE Returns
    BY <2>7 DEF Returns, AllDone
  <2>8. CASE Timer
    BY <2>8 DEF Timer
  <2>9. CASE Announced
    BY <2>9 DEF Announced
  <2>10. CASE AnnouncerStops
    BY <2>10 DEF AnnouncerStops
  <2>11. ASSUME NEW e \in Eps, BuildOpens(e) PROVE TypeOK'
    BY <2>11 DEF BuildOpens
  <2>12. ASSUME NEW e \in Eps, CloseEndpoint(e) PROVE TypeOK'
    BY <2>12 DEF CloseEndpoint
  <2>13. ASSUME NEW e \in Eps, Reads(e) PROVE TypeOK'
    BY <2>13 DEF Reads, Opposite
  <2>14. ASSUME NEW e \in Eps, ReadsOn(e) PROVE TypeOK'
    BY <2>14 DEF ReadsOn
  <2>15. ASSUME NEW e \in Eps, ReaderStops(e) PROVE TypeOK'
    BY <2>15 DEF ReaderStops
  <2>16. ASSUME NEW e \in Eps, ReaderFails(e) PROVE TypeOK'
    BY <2>16 DEF ReaderFails
  <2>17. ASSUME NEW e \in Eps, Announces(e) PROVE TypeOK'
    BY <2>17 DEF Announces
  <2>18. ASSUME NEW e \in Eps, AnnounceFails(e) PROVE TypeOK'
    BY <2>18 DEF AnnounceFails
  <2>19. ASSUME NEW e \in Eps, NEW t \in Eps, Relays(e, t) PROVE TypeOK'
    BY <2>19 DEF Relays
  <2>20. ASSUME NEW e \in Eps, NEW t \in Eps, RelayFails(e, t) PROVE TypeOK'
    BY <2>20 DEF RelayFails
  <2>21. CASE UNCHANGED vars
    BY <2>21 DEF vars
  <2> QED
    BY <2>1, <2>2, <2>3, <2>4, <2>5, <2>6, <2>7, <2>8, <2>9, <2>10, <2>11, <2>12, <2>13, <2>14, <2>15, <2>16, <2>17, <2>18, <2>19, <2>20, <2>21, StepCases
<1>3. QED
  BY <1>1, <1>2, PTL DEF Spec

------------------------------------------------------------------------------
(* The way out: sockets are closed before the wait, and after the wait no    *)
(* goroutine has an action left.                                             *)

ExitInv ==
  /\ main \in {"wait", "returned"} => \A e \in Eps : conn[e] # "open"
  /\ main = "returned" => /\ \A e \in Eps : reader[e] \in {"none", "done"}
                          /\ announcer \in {"none", "done"}

\* Every step keeps the order of the way out.
LEMMA ExitInvStep == TypeOK /\ ExitInv /\ [Next]_vars => ExitInv'
<1> SUFFICES ASSUME TypeOK, ExitInv, [Next]_vars PROVE ExitInv'
  OBVIOUS
<1> USE EngineConstants DEF ExitInv, TypeOK, mainVars, readerVars, announceVars, Fault, Fail, SendFails
<1>1. CASE Terminate
  BY <1>1 DEF Terminate
<1>2. CASE BuildFails
  BY <1>2 DEF BuildFails
<1>3. CASE Starts
  BY <1>3 DEF Starts
<1>4. CASE MainStops
  BY <1>4 DEF MainStops
<1>5. CASE MainGivesUp
  BY <1>5 DEF MainGivesUp
<1>6. CASE Waits
  BY <1>6 DEF Waits, AllClosed
<1>7. CASE Returns
  BY <1>7 DEF Returns, AllDone
<1>8. CASE Timer
  BY <1>8 DEF Timer
<1>9. CASE Announced
  BY <1>9 DEF Announced
<1>10. CASE AnnouncerStops
  BY <1>10 DEF AnnouncerStops
<1>11. ASSUME NEW e \in Eps, BuildOpens(e) PROVE ExitInv'
  BY <1>11 DEF BuildOpens
<1>12. ASSUME NEW e \in Eps, CloseEndpoint(e) PROVE ExitInv'
  BY <1>12 DEF CloseEndpoint
<1>13. ASSUME NEW e \in Eps, Reads(e) PROVE ExitInv'
  BY <1>13 DEF Reads, Opposite
<1>14. ASSUME NEW e \in Eps, ReadsOn(e) PROVE ExitInv'
  BY <1>14 DEF ReadsOn
<1>15. ASSUME NEW e \in Eps, ReaderStops(e) PROVE ExitInv'
  BY <1>15 DEF ReaderStops
<1>16. ASSUME NEW e \in Eps, ReaderFails(e) PROVE ExitInv'
  BY <1>16 DEF ReaderFails
<1>17. ASSUME NEW e \in Eps, Announces(e) PROVE ExitInv'
  BY <1>17 DEF Announces
<1>18. ASSUME NEW e \in Eps, AnnounceFails(e) PROVE ExitInv'
  BY <1>18 DEF AnnounceFails
<1>19. ASSUME NEW e \in Eps, NEW t \in Eps, Relays(e, t) PROVE ExitInv'
  BY <1>19 DEF Relays
<1>20. ASSUME NEW e \in Eps, NEW t \in Eps, RelayFails(e, t) PROVE ExitInv'
  BY <1>20 DEF RelayFails
<1>21. CASE UNCHANGED vars
  BY <1>21 DEF vars
<1> QED
  BY <1>1, <1>2, <1>3, <1>4, <1>5, <1>6, <1>7, <1>8, <1>9, <1>10, <1>11, <1>12, <1>13, <1>14, <1>15, <1>16, <1>17, <1>18, <1>19, <1>20, <1>21, StepCases

\* No goroutine and no socket of the engine outlives the call of engine.close, so
\* none of them changes what the last flush of runtime.json says.
THEOREM NothingOutlives == Spec => []NothingOutlivesMain
<1>1. Init => ExitInv
  BY DEF Init, ExitInv
<1>2. ExitInv => NothingOutlivesMain
  BY DEF ExitInv, NothingOutlivesMain
<1>3. QED
  BY <1>1, <1>2, ExitInvStep, TypeCorrect, PTL DEF Spec

------------------------------------------------------------------------------
(* Failures: while the engine is in service its sockets are not closed, so   *)
(* every failure has a fault behind it, and so has every cancellation that   *)
(* nobody asked for.                                                         *)

InService == main \in {"build", "loop"}

AlarmInv ==
  /\ InService => \A e \in Eps : conn[e] # "closed"
  /\ InService /\ failed => faults > 0
  /\ InService /\ cancelled => asked \/ failed
  /\ result = "error" => faults > 0

\* Every step keeps every failure accounted for.
LEMMA AlarmInvStep == TypeOK /\ AlarmInv /\ [Next]_vars => AlarmInv'
<1> SUFFICES ASSUME TypeOK, AlarmInv, [Next]_vars PROVE AlarmInv'
  OBVIOUS
<1> USE EngineConstants
    DEF AlarmInv, InService, TypeOK, mainVars, readerVars, announceVars, Fault, Fail, SendFails
<1>1. CASE Terminate
  BY <1>1 DEF Terminate
<1>2. CASE BuildFails
  BY <1>2 DEF BuildFails
<1>3. CASE Starts
  BY <1>3 DEF Starts
<1>4. CASE MainStops
  BY <1>4 DEF MainStops
<1>5. CASE MainGivesUp
  BY <1>5 DEF MainGivesUp
<1>6. CASE Waits
  BY <1>6 DEF Waits, AllClosed
<1>7. CASE Returns
  BY <1>7 DEF Returns, AllDone
<1>8. CASE Timer
  BY <1>8 DEF Timer
<1>9. CASE Announced
  BY <1>9 DEF Announced
<1>10. CASE AnnouncerStops
  BY <1>10 DEF AnnouncerStops
<1>11. ASSUME NEW e \in Eps, BuildOpens(e) PROVE AlarmInv'
  BY <1>11 DEF BuildOpens
<1>12. ASSUME NEW e \in Eps, CloseEndpoint(e) PROVE AlarmInv'
  BY <1>12 DEF CloseEndpoint
<1>13. ASSUME NEW e \in Eps, Reads(e) PROVE AlarmInv'
  BY <1>13 DEF Reads, Opposite
<1>14. ASSUME NEW e \in Eps, ReadsOn(e) PROVE AlarmInv'
  BY <1>14 DEF ReadsOn
<1>15. ASSUME NEW e \in Eps, ReaderStops(e) PROVE AlarmInv'
  BY <1>15 DEF ReaderStops
<1>16. ASSUME NEW e \in Eps, ReaderFails(e) PROVE AlarmInv'
  BY <1>16 DEF ReaderFails
<1>17. ASSUME NEW e \in Eps, Announces(e) PROVE AlarmInv'
  BY <1>17 DEF Announces
<1>18. ASSUME NEW e \in Eps, AnnounceFails(e) PROVE AlarmInv'
  BY <1>18 DEF AnnounceFails
<1>19. ASSUME NEW e \in Eps, NEW t \in Eps, Relays(e, t) PROVE AlarmInv'
  BY <1>19 DEF Relays
<1>20. ASSUME NEW e \in Eps, NEW t \in Eps, RelayFails(e, t) PROVE AlarmInv'
  BY <1>20 DEF RelayFails
<1>21. CASE UNCHANGED vars
  BY <1>21 DEF vars
<1> QED
  BY <1>1, <1>2, <1>3, <1>4, <1>5, <1>6, <1>7, <1>8, <1>9, <1>10, <1>11, <1>12, <1>13, <1>14, <1>15, <1>16, <1>17, <1>18, <1>19, <1>20, <1>21, StepCases

\* A stop that was asked for is never reported as a failure.
THEOREM StopIsNoFailure == Spec => []NoFalseAlarm
<1>1. Init => AlarmInv
  BY DEF Init, AlarmInv
<1>2. AlarmInv => NoFalseAlarm
  BY DEF AlarmInv, InService, NoFalseAlarm
<1>3. QED
  BY <1>1, <1>2, AlarmInvStep, TypeCorrect, PTL DEF Spec
==============================================================================
