------------------------ MODULE OperationStatusProofs ------------------------
(* Proofs about OperationStatus for all durations that TimesAssumption allows.*)
EXTENDS OperationStatus, TLAPS

\* A step is one of the actions, or changes nothing.
LEMMA StepCases ==
  ASSUME [Next]_vars
  PROVE  \/ OperationBegins \/ OperationQueued \/ OperationConfirmed \/ RequestEnds
         \/ WorkerAdvances \/ WorkerEnds \/ RequestRefused \/ WorkerKilled
         \/ PagePosts \/ PageIsTold \/ PageIsNotTold
         \/ PollStarts \/ PollReads \/ PollAnswers \/ PollFails
         \/ Tick
         \/ UNCHANGED vars
BY DEF Next, Operation, Page

\* What the constants are, without the set notation of the assumption.
LEMMA Durations ==
  /\ StartTime \in Nat /\ ScriptTime \in Nat /\ StopTime \in Nat /\ ReadyTime \in Nat
  /\ PollTime \in Nat /\ PostTime \in Nat
  /\ StatusLimit \in Nat /\ PageLimit \in Nat /\ MaxOps \in Nat /\ MaxFaults \in Nat
BY TimesAssumption

\* The status report changes the state of a report at most.
LEMMA ReportedType ==
  ASSUME NEW r \in Reports, NEW a \in Nat
  PROVE  Reported(r, a) \in Reports /\ Reported(r, a).id = r.id
BY DEF Reported, Reports, Unfinished

\* A status request that has just begun or ended has no answer yet.
LEMMA PollType ==
  /\ NoPoll \in Polls /\ NoPoll.answer.id = 0 /\ NoPoll.pc = "idle"
  /\ NewPoll \in Polls /\ NewPoll.answer.id = 0 /\ NewPoll.pc = "sent"
<1>1. NoReport \in Reports /\ NoReport.id = 0
  BY Durations DEF NoReport, Reports
<1>2. NoPoll \in Polls /\ NoPoll.answer.id = 0 /\ NoPoll.pc = "idle"
  BY <1>1 DEF NoPoll, Polls
<1>3. NewPoll \in Polls /\ NewPoll.answer.id = 0 /\ NewPoll.pc = "sent"
  BY <1>1 DEF NewPoll, Polls
<1>4. QED
  BY <1>2, <1>3

\* A refresh starts a request without an answer or leaves the one under way.
LEMMA RefreshCases ==
  ASSUME Refresh
  PROVE  \/ poll' = NewPoll /\ pollLeft' = PollTime
         \/ UNCHANGED <<poll, pollLeft>>
BY DEF Refresh

\* Every variable stays in its type.
THEOREM TypeCorrect == Spec => []TypeOK
<1> USE Durations
<1>1. Init => TypeOK
  <2> SUFFICES ASSUME Init PROVE TypeOK
    OBVIOUS
  <2>1. NoReport \in Reports
    BY DEF NoReport, Reports
  <2>2. valid \in BOOLEAN
    BY Zenon DEF Init
  <2>3. QED
    BY <2>1, <2>2, PollType DEF Init, TypeOK
<1>2. TypeOK /\ [Next]_vars => TypeOK'
  <2> SUFFICES ASSUME TypeOK, [Next]_vars PROVE TypeOK'
    OBVIOUS
  <2> USE DEF TypeOK, opVars, netVars, pageVars, Fault, Store
  <2>1. CASE OperationBegins
    BY <2>1 DEF OperationBegins, Phases
  <2>2. CASE OperationQueued
    BY <2>2 DEF OperationQueued, Phases, Reports, Unfinished
  <2>3. CASE OperationConfirmed
    BY <2>3 DEF OperationConfirmed, Phases, WorkerAt
  <2>4. CASE RequestEnds
    BY <2>4 DEF RequestEnds
  <2>5. CASE WorkerAdvances
    BY <2>5 DEF WorkerAdvances, Enter, Phases, WorkerAt, Reports, Unfinished
  <2>6. CASE WorkerEnds
    BY <2>6 DEF WorkerEnds, Reports
  <2>7. CASE RequestRefused
    BY <2>7 DEF RequestRefused
  <2>8. CASE WorkerKilled
    BY <2>8 DEF WorkerKilled
  <2>9. CASE PagePosts
    BY <2>9 DEF PagePosts, Polls
  <2>10. CASE PageIsTold
    BY <2>10, PollType, RefreshCases DEF PageIsTold
  <2>11. CASE PageIsNotTold
    BY <2>11, PollType, RefreshCases DEF PageIsNotTold
  <2>12. CASE PollStarts
    BY <2>12, PollType, RefreshCases DEF PollStarts
  <2>13. CASE PollReads
    <3>1. Reported(rec, age) \in Reports
      BY ReportedType
    <3>2. QED
      BY <2>13, <3>1 DEF PollReads, Polls
  <2>14. CASE PollAnswers
    <3>1. CASE poll.current
      <4>1. valid' \in BOOLEAN /\ faults' \in 0..MaxFaults
        <5>1. \/ valid' = TRUE /\ faults' = faults
              \/ valid' = FALSE /\ Fault
          BY ONLY <2>14, <3>1, Zenon DEF PollAnswers
        <5>2. valid' \in BOOLEAN
          BY ONLY <5>1, Zenon
        <5>3. faults' = faults \/ Fault
          BY ONLY <5>1, Zenon
        <5>4. QED
          BY <5>2, <5>3
      <4>2. shown' \in Reports
        BY <2>14, <3>1 DEF PollAnswers, Polls
      <4>3. local' \in 0..MaxOps /\ localAge' \in 0..PageLimit
        <5>1. \/ local' = 0 /\ localAge' = 0
              \/ UNCHANGED <<local, localAge>>
          BY ONLY <2>14, <3>1 DEF PollAnswers
        <5>2. QED
          BY <5>1
      <4>4. QED
        BY <2>14, <4>1, <4>2, <4>3, PollType DEF PollAnswers
    <3>2. CASE ~ poll.current
      BY <2>14, <3>2, PollType DEF PollAnswers
    <3>3. QED
      BY <3>1, <3>2
  <2>15. CASE PollFails
    <3>1. valid' \in BOOLEAN
      BY <2>15, Zenon DEF PollFails
    <3>2. QED
      BY <2>15, <3>1, PollType DEF PollFails
  <2>16. CASE Tick
    BY <2>16 DEF Tick, AtMost, Countdown
  <2>17. CASE UNCHANGED vars
    BY <2>17 DEF vars
  <2> QED
    BY <2>1, <2>2, <2>3, <2>4, <2>5, <2>6, <2>7, <2>8, <2>9, <2>10, <2>11, <2>12,
       <2>13, <2>14, <2>15, <2>16, <2>17, StepCases
<1>3. QED
  BY <1>1, <1>2, PTL DEF Spec
------------------------------------------------------------------------------
(* What makes the two limits long enough.                                    *)

\* The processes that have stored the report of the operation under way.
Reporting == WorkerAt \cup {"queued"}

\* Ids grow: an operation is known to nobody before its first report, to the page
\* only once its worker has been started, and while it reports, the report is its.
IdInv ==
  /\ rec.id <= ops /\ shown.id <= ops /\ poll.answer.id <= ops
  /\ answerId <= ops /\ told <= ops /\ opId <= ops
  /\ pc \in Phases => opId > 0
  /\ pc = "asked" => /\ rec.id < opId /\ shown.id < opId /\ poll.answer.id < opId
                     /\ answerId < opId /\ told < opId
  /\ pc = "queued" => answerId < opId /\ told < opId
  /\ pc \in Reporting => rec.id = opId /\ rec.state \in Unfinished

\* The report is never older than the deadlines of the phases since it was stored.
GapInv ==
  /\ pc \in {"queued", "begin"} => age + left <= StartTime
  /\ pc \in {"stop", "enable", "start", "disable"} => age + left <= ScriptTime
  /\ pc = "wait" => left <= StopTime /\ age + left <= ScriptTime + StopTime
  /\ pc = "poll" => left <= ReadyTime /\ age + left <= ScriptTime + ReadyTime

\* Nobody has been shown an outcome of the operation under way.
ShownInv ==
  pc \in Phases => /\ poll.answer.id = opId => poll.answer.state \in Unfinished
                   /\ shown.id = opId => shown.state \in Unfinished

\* The time that the worker may still take.
Remaining ==
  CASE pc = "begin"  -> left + 3 * ScriptTime + StopTime + ReadyTime
    [] pc = "stop"   -> left + StopTime + 2 * ScriptTime + ReadyTime
    [] pc = "wait"   -> left + 2 * ScriptTime + ReadyTime
    [] pc = "enable" -> left + ScriptTime + ReadyTime
    [] pc = "start"  -> left + ReadyTime
    [] OTHER         -> left

\* The page waits for an operation it was told of, and its limit cannot pass first.
AwaitInv ==
  pc \in Phases /\ told = opId =>
    /\ pc \in WorkerAt
    /\ post = "none"
    /\ local = opId
    /\ localAge + Remaining <= WholeTime

StatusInv == IdInv /\ GapInv /\ ShownInv /\ AwaitInv

LEMMA IdInvStep == TypeOK /\ IdInv /\ [Next]_vars => IdInv'
<1> SUFFICES ASSUME TypeOK, IdInv, [Next]_vars PROVE IdInv'
  OBVIOUS
<1> USE Durations DEF TypeOK, IdInv, opVars, netVars, pageVars, Fault, Store
<1>1. CASE OperationBegins
  BY <1>1 DEF OperationBegins, Phases, WorkerAt, Reporting, Reports, Polls
<1>2. CASE OperationQueued
  BY <1>2 DEF OperationQueued, Phases, WorkerAt, Reporting, Unfinished, Reports, Polls
<1>3. CASE OperationConfirmed
  BY <1>3 DEF OperationConfirmed, Phases, WorkerAt, Reporting, Reports, Polls
<1>4. CASE RequestEnds
  BY <1>4 DEF RequestEnds, Phases, WorkerAt, Reporting
<1>5. CASE WorkerAdvances
  BY <1>5 DEF WorkerAdvances, Enter, Phases, WorkerAt, Reporting, Unfinished, Reports
<1>6. CASE WorkerEnds
  BY <1>6 DEF WorkerEnds, Phases, WorkerAt, Reporting, Reports
<1>7. CASE RequestRefused
  BY <1>7 DEF RequestRefused
<1>8. CASE WorkerKilled
  BY <1>8 DEF WorkerKilled, Phases, WorkerAt, Reporting
<1>9. CASE PagePosts
  <2>1. poll'.answer = poll.answer
    <3>1. poll' = [poll EXCEPT !.current = FALSE]
      BY <1>9 DEF PagePosts
    <3>2. poll \in Polls
      OBVIOUS
    <3>3. QED
      BY ONLY <3>1, <3>2, Zenon DEF Polls
  <2>2. QED
    BY <1>9, <2>1 DEF PagePosts
<1>10. CASE PageIsTold
  BY <1>10, PollType, RefreshCases DEF PageIsTold
<1>11. CASE PageIsNotTold
  BY <1>11, PollType, RefreshCases DEF PageIsNotTold
<1>12. CASE PollStarts
  BY <1>12, PollType, RefreshCases DEF PollStarts
<1>13. CASE PollReads
  <2>1. rec \in Reports /\ age \in Nat
    OBVIOUS
  <2>2. Reported(rec, age) \in Reports /\ Reported(rec, age).id = rec.id
    BY ONLY <2>1, ReportedType
  <2>3. poll'.answer.id = rec.id
    BY <1>13, <2>2 DEF PollReads, Polls
  <2>4. QED
    BY <1>13, <2>3 DEF PollReads
<1>14. CASE PollAnswers
  BY <1>14, PollType DEF PollAnswers, Polls, Reports
<1>15. CASE PollFails
  BY <1>15, PollType DEF PollFails
<1>16. CASE Tick
  BY <1>16 DEF Tick
<1>17. CASE UNCHANGED vars
  BY <1>17 DEF vars
<1> QED
  BY <1>1, <1>2, <1>3, <1>4, <1>5, <1>6, <1>7, <1>8, <1>9, <1>10, <1>11, <1>12,
     <1>13, <1>14, <1>15, <1>16, <1>17, StepCases

LEMMA GapInvStep == TypeOK /\ IdInv /\ GapInv /\ [Next]_vars => GapInv'
<1> SUFFICES ASSUME TypeOK, IdInv, GapInv, [Next]_vars PROVE GapInv'
  OBVIOUS
<1> USE Durations DEF TypeOK, GapInv, opVars, netVars, pageVars, Fault, Store
<1>1. CASE OperationBegins \/ RequestEnds \/ WorkerEnds \/ WorkerKilled
  BY <1>1 DEF OperationBegins, RequestEnds, WorkerEnds, WorkerKilled
<1>2. CASE OperationQueued
  BY <1>2 DEF OperationQueued
<1>3. CASE OperationConfirmed
  BY <1>3 DEF OperationConfirmed
<1>4. CASE WorkerAdvances
  BY <1>4 DEF WorkerAdvances, Enter
<1>5. CASE RequestRefused \/ PagePosts \/ PageIsTold \/ PageIsNotTold
           \/ PollStarts \/ PollReads \/ PollAnswers \/ PollFails
  BY <1>5 DEF RequestRefused, PagePosts, PageIsTold, PageIsNotTold,
              PollStarts, PollReads, PollAnswers, PollFails
<1>6. CASE Tick
  BY <1>6 DEF Tick, AtMost, Countdown, IdInv, Phases, Reporting, WorkerAt
<1>7. CASE UNCHANGED vars
  BY <1>7 DEF vars
<1> QED
  BY <1>1, <1>2, <1>3, <1>4, <1>5, <1>6, <1>7, StepCases

LEMMA ShownInvStep == TypeOK /\ IdInv /\ GapInv /\ ShownInv /\ [Next]_vars => ShownInv'
<1> SUFFICES ASSUME TypeOK, IdInv, GapInv, ShownInv, [Next]_vars PROVE ShownInv'
  OBVIOUS
<1> USE Durations DEF TypeOK, ShownInv, opVars, netVars, pageVars, Fault, Store
<1>1. CASE OperationBegins
  BY <1>1 DEF OperationBegins, IdInv, Reports, Polls
<1>2. CASE OperationQueued \/ OperationConfirmed
  BY <1>2 DEF OperationQueued, OperationConfirmed, Phases, WorkerAt
<1>3. CASE WorkerAdvances
  BY <1>3 DEF WorkerAdvances, Enter, Phases, WorkerAt
<1>4. CASE RequestEnds \/ WorkerEnds \/ WorkerKilled
  BY <1>4 DEF RequestEnds, WorkerEnds, WorkerKilled, Phases, WorkerAt
<1>5. CASE RequestRefused
  BY <1>5 DEF RequestRefused
<1>6. CASE PagePosts
  <2>1. poll'.answer = poll.answer
    <3>1. poll' = [poll EXCEPT !.current = FALSE]
      BY <1>6 DEF PagePosts
    <3>2. poll \in Polls
      OBVIOUS
    <3>3. QED
      BY ONLY <3>1, <3>2, Zenon DEF Polls
  <2>2. QED
    BY <1>6, <2>1 DEF PagePosts
<1>7. CASE PageIsTold \/ PageIsNotTold \/ PollStarts
  <2>1. UNCHANGED <<opVars, shown>> /\ Refresh
    BY <1>7 DEF PageIsTold, PageIsNotTold, PollStarts
  <2>2. QED
    BY <2>1, PollType, RefreshCases DEF IdInv
<1>8. CASE PollReads
  <2>1. poll'.answer = Reported(rec, age)
    BY <1>8 DEF PollReads, Polls
  <2>2. ASSUME pc \in Phases, Reported(rec, age).id = opId
        PROVE  Reported(rec, age) = rec /\ rec.state \in Unfinished
    <3>1. rec \in Reports /\ age \in Nat
      OBVIOUS
    <3>2. rec.id = opId
      BY ONLY <2>2, <3>1, ReportedType
    <3>3. pc \in Reporting
      BY <2>2, <3>2 DEF IdInv, Phases, Reporting, Reports
    <3>4. age <= StatusLimit
      BY <3>3, TimesAssumption DEF GapInv, Reporting, WorkerAt
    <3>5. QED
      BY <3>1, <3>3, <3>4 DEF Reported, IdInv
  <2>3. QED
    BY <1>8, <2>1, <2>2 DEF PollReads
<1>9. CASE PollAnswers
  <2>1. UNCHANGED opVars /\ poll' = NoPoll /\ shown' \in {shown, poll.answer}
    BY <1>9 DEF PollAnswers
  <2>2. QED
    BY <2>1, PollType DEF IdInv
<1>10. CASE PollFails
  BY <1>10, PollType DEF PollFails, IdInv
<1>11. CASE Tick
  BY <1>11 DEF Tick
<1>12. CASE UNCHANGED vars
  BY <1>12 DEF vars
<1> QED
  BY <1>1, <1>2, <1>3, <1>4, <1>5, <1>6, <1>7, <1>8, <1>9, <1>10, <1>11, <1>12, StepCases

\* While it waits for an operation that is under way, the page offers none.
LEMMA AwaitedNotOffered ==
  ASSUME TypeOK, IdInv, ShownInv, AwaitInv, pc \in Phases, told = opId
  PROVE  /\ ~ Offered
         /\ poll.answer.id = local => Pending(poll.answer, local, localAge)
<1> USE Durations
<1>1. local = opId /\ local # 0 /\ localAge < PageLimit
  <2>1. Remaining \in Nat
    BY DEF Remaining, TypeOK
  <2>2. QED
    BY <2>1, TimesAssumption DEF AwaitInv, IdInv, TypeOK, WholeTime
<1>2. \A r \in {shown, poll.answer} : r.id = opId => r.state \in Unfinished
  BY DEF ShownInv
<1>3. Pending(shown, local, localAge)
  BY <1>1, <1>2 DEF Pending
<1>4. QED
  BY <1>1, <1>2, <1>3 DEF Pending, Offered

LEMMA AwaitInvStep ==
  TypeOK /\ IdInv /\ GapInv /\ ShownInv /\ AwaitInv /\ [Next]_vars => AwaitInv'
<1> SUFFICES ASSUME TypeOK, IdInv, GapInv, ShownInv, AwaitInv, [Next]_vars,
                    pc' \in Phases, told' = opId'
             PROVE  /\ pc' \in WorkerAt
                    /\ post' = "none"
                    /\ local' = opId'
                    /\ localAge' + Remaining' <= WholeTime
  BY DEF AwaitInv
<1> USE Durations DEF opVars, netVars, pageVars, Fault, Store
<1>1. CASE OperationBegins
  BY <1>1 DEF OperationBegins, TypeOK, IdInv
<1>2. CASE OperationQueued \/ OperationConfirmed
  BY <1>2 DEF OperationQueued, OperationConfirmed, IdInv, TypeOK
<1>3. CASE WorkerAdvances
  <2>1. AwaitInv /\ pc \in WorkerAt /\ told = opId
    BY <1>3 DEF WorkerAdvances, Enter, WorkerAt
  <2>2. pc' \in WorkerAt
    BY <1>3 DEF WorkerAdvances, Enter, WorkerAt
  <2>3. UNCHANGED <<post, local, localAge, opId>>
    BY <1>3 DEF WorkerAdvances, Enter
  <2>4. Remaining' <= Remaining
    BY <1>3 DEF WorkerAdvances, Enter, Remaining, TypeOK
  <2>5. Remaining \in Nat /\ Remaining' \in Nat /\ localAge \in Nat /\ WholeTime \in Nat
    BY <1>3 DEF WorkerAdvances, Enter, Remaining, TypeOK, WholeTime
  <2>6. post = "none" /\ local = opId /\ localAge + Remaining <= WholeTime
    BY <2>1 DEF AwaitInv, Phases
  <2>7. post' = "none" /\ local' = opId' /\ localAge' = localAge
    BY <2>3, <2>6
  <2>8. localAge' + Remaining' <= WholeTime
    <3>1. \A a, b, r, w \in Nat : a + b <= w /\ r <= b => a + r <= w
      OBVIOUS
    <3>2. localAge + Remaining' <= WholeTime
      BY ONLY <3>1, <2>4, <2>5, <2>6, Zenon
    <3>3. QED
      BY ONLY <3>2, <2>7, Zenon
  <2>9. QED
    BY <2>2, <2>7, <2>8
<1>4. CASE RequestEnds \/ WorkerEnds \/ WorkerKilled
  BY <1>4 DEF RequestEnds, WorkerEnds, WorkerKilled, Phases, WorkerAt
<1>5. CASE RequestRefused
  BY <1>5 DEF RequestRefused, AwaitInv, Remaining
<1>6. CASE PagePosts
  BY <1>6, AwaitedNotOffered DEF PagePosts
<1>7. CASE PageIsTold
  <2>1. pc \in WorkerAt
    <3>1. pc \in Phases /\ answerId = opId
      BY <1>7 DEF PageIsTold
    <3>2. answerId \in Nat /\ opId \in Nat
      BY DEF TypeOK
    <3>3. pc \notin {"asked", "queued"}
      BY <3>1, <3>2 DEF IdInv
    <3>4. QED
      BY <3>1, <3>3 DEF Phases
  <2>2. Remaining <= WholeTime /\ Remaining' = Remaining
    BY <1>7, <2>1 DEF PageIsTold, GapInv, Remaining, WholeTime, WorkerAt, TypeOK
  <2>3. Remaining \in Nat /\ WholeTime \in Nat
    BY DEF Remaining, TypeOK, WholeTime
  <2>4. QED
    BY <1>7, <2>1, <2>2, <2>3 DEF PageIsTold
<1>8. CASE PageIsNotTold
  BY <1>8 DEF PageIsNotTold, AwaitInv, Remaining
<1>9. CASE PollStarts \/ PollReads \/ PollFails
  BY <1>9 DEF PollStarts, PollReads, PollFails, AwaitInv, Remaining
<1>10. CASE PollAnswers
  <2>1. pc \in Phases /\ told = opId
    BY <1>10 DEF PollAnswers
  <2>2. UNCHANGED <<local, localAge>>
    BY <1>10, <2>1, AwaitedNotOffered DEF PollAnswers
  <2>3. QED
    BY <1>10, <2>1, <2>2 DEF PollAnswers, AwaitInv, Remaining
<1>11. CASE Tick
  <2>1. AwaitInv /\ pc \in WorkerAt /\ told = opId /\ local = opId /\ post = "none"
    BY <1>11 DEF Tick, AwaitInv
  <2>2. left > 0 /\ left' = left - 1
    BY <1>11, <2>1 DEF Tick, Countdown, Phases, WorkerAt, TypeOK
  <2>3. localAge' <= localAge + 1 /\ localAge' \in Nat
    BY <1>11 DEF Tick, AtMost, TypeOK
  <2>4. Remaining' = Remaining - 1 /\ Remaining \in Nat
    BY <1>11, <2>2 DEF Tick, Remaining, TypeOK
  <2>5. QED
    BY <1>11, <2>1, <2>3, <2>4 DEF Tick, AwaitInv, TypeOK, WholeTime, Phases
<1>12. CASE UNCHANGED vars
  BY <1>12 DEF vars, AwaitInv, Remaining
<1> QED
  BY <1>1, <1>2, <1>3, <1>4, <1>5, <1>6, <1>7, <1>8, <1>9, <1>10, <1>11, <1>12, StepCases

\* The strengthened invariant holds in every reachable state.
THEOREM StatusInvariant == Spec => []StatusInv
<1>1. Init => StatusInv
  <2> SUFFICES ASSUME Init PROVE StatusInv
    OBVIOUS
  <2>1. pc = "none" /\ opId = 0 /\ ops = 0 /\ answerId = 0 /\ told = 0
    BY DEF Init
  <2>2. rec.id = 0 /\ shown.id = 0 /\ poll.answer.id = 0
    BY PollType DEF Init, NoReport
  <2>3. QED
    BY <2>1, <2>2
    DEF StatusInv, IdInv, GapInv, ShownInv, AwaitInv, Phases, WorkerAt, Reporting
<1>2. TypeOK /\ StatusInv /\ [Next]_vars => StatusInv'
  BY IdInvStep, GapInvStep, ShownInvStep, AwaitInvStep DEF StatusInv
<1>3. QED
  BY <1>1, <1>2, TypeCorrect, PTL DEF Spec

\* currentStatus, and what the page shows of it, never calls an operation failed
\* that is still under way, if no two reports are further apart than its limit.
THEOREM NoLivingOperationFailed == Spec => []NoFalseFailure
<1>1. TypeOK /\ StatusInv => NoFalseFailure
  <2> SUFFICES ASSUME TypeOK, StatusInv, pc \in Phases,
                      NEW r \in {Reported(rec, age), poll.answer, shown}, r.id = opId
               PROVE  r.state \in Unfinished
    BY DEF NoFalseFailure
  <2> USE Durations DEF StatusInv
  <2>1. CASE r = Reported(rec, age)
    <3>1. rec \in Reports /\ age \in Nat
      BY DEF TypeOK
    <3>2. rec.id = opId
      BY ONLY <2>1, <3>1, r.id = opId, ReportedType
    <3>3. pc \in Reporting
      BY <3>1, <3>2 DEF IdInv, Phases, Reporting, Reports, TypeOK
    <3>4. age <= StatusLimit
      BY <3>3, TimesAssumption DEF GapInv, Reporting, WorkerAt, TypeOK
    <3>5. QED
      BY <2>1, <3>1, <3>3, <3>4 DEF Reported, IdInv
  <2>2. CASE r \in {poll.answer, shown}
    BY <2>2 DEF ShownInv
  <2>3. QED
    BY <2>1, <2>2
<1>2. QED
  BY <1>1, TypeCorrect, StatusInvariant, PTL

\* The page never offers an operation while one that it was told of is under way,
\* if its limit is longer than all the worker's deadlines together.
THEOREM PageAwaitsItsOperation == Spec => []ConfirmedIsAwaited
<1>1. TypeOK /\ StatusInv => ConfirmedIsAwaited
  BY AwaitedNotOffered DEF StatusInv, ConfirmedIsAwaited
<1>2. QED
  BY <1>1, TypeCorrect, StatusInvariant, PTL
==============================================================================
