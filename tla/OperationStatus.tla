--------------------------- MODULE OperationStatus ---------------------------
(***************************************************************************)
(* Who believes for how long that an operation is under way.               *)
(*                                                                         *)
(* A worker reports its progress in action.json with the time of the       *)
(* report.  A worker that is killed leaves "queued" or "applying" behind,  *)
(* so the status report (currentStatus) calls an operation failed whose    *)
(* last report is older than 65 s, and the web page, which offers no new   *)
(* operation while its own one is pending, gives up waiting for a status   *)
(* of its operation 65 s after it was confirmed.  Both limits have to be   *)
(* longer than what the worker's own deadlines let it take.  Time is       *)
(* discrete; it does not pass a deadline that somebody has to meet.        *)
(*                                                                         *)
(* What the operations do is in ServiceControl; the form whose settings    *)
(* they save is in SettingsPage.                                           *)
(***************************************************************************)
EXTENDS Naturals

CONSTANTS
  StartTime,     \* from the "queued" report to the worker's first one
  ScriptTime,    \* an init script, with the grace of its kill (12 s + 1 s)
  StopTime,      \* the wait for the old daemon (7 s)
  ReadyTime,     \* the readiness loop (15 s and a last pause of 1 s)
  StatusLimit,   \* age of a report at which the status calls it failed (65 s)
  PageLimit,     \* how long the page waits for a status of its operation (65 s)
  PollTime,      \* time-out of a status request of the page (6.5 s)
  PostTime,      \* an operation request is answered or killed by then (8 s)
  MaxOps,        \* bound: operations that are asked for
  MaxFaults      \* bound: killed processes, failed and lost requests

\* How long an operation takes at most.
WholeTime  == StartTime + 3 * ScriptTime + StopTime + ReadyTime

ASSUME TimesAssumption ==
  /\ {StartTime, ScriptTime, StopTime, ReadyTime, PollTime, PostTime} \subseteq Nat
  /\ {StatusLimit, PageLimit, MaxOps, MaxFaults} \subseteq Nat
  /\ StartTime <= StatusLimit
  /\ ScriptTime + StopTime <= StatusLimit
  /\ ScriptTime + ReadyTime <= StatusLimit
  /\ WholeTime < PageLimit

VARIABLES
  rec,           \* action.json without its time: [id, state]
  age,           \* time since it was stored, while unfinished, up to StatusLimit + 1
  pc,            \* what the operation under way is at
  opId,          \* its id
  left,          \* time until the deadline of that phase
  ops,           \* operations so far, which number them
  post,          \* the page's operation request
  postLeft,      \* time until it has an answer or has timed out
  answerId,      \* the id in a confirming answer
  poll,          \* the page's status request: [pc, current, answer]
  pollLeft,      \* time until it times out
  shown,         \* the operation in the status the page shows (payload.action)
  valid,         \* statusValid: that status is current
  local,         \* id of the operation the page had confirmed (localAction), or 0
  localAge,      \* time since then, up to PageLimit
  told,          \* the last id that was ever confirmed to the page
  faults

opVars   == <<rec, age, pc, opId, left, ops>>
pageVars == <<shown, valid, local, localAge, told>>
netVars  == <<post, postLeft, answerId, poll, pollLeft>>
vars == <<opVars, netVars, pageVars, faults>>

Unfinished == {"queued", "applying"}
Reports == [id : 0..MaxOps, state : {"none", "done", "failed"} \cup Unfinished]
NoReport == [id |-> 0, state |-> "none"]

\* Phases of the worker, and those of the whole operation, which has the lock.
WorkerAt == {"begin", "stop", "wait", "enable", "start", "poll", "disable"}
Phases   == WorkerAt \cup {"asked", "queued"}

NoPoll  == [pc |-> "idle", current |-> FALSE, answer |-> NoReport]
NewPoll == [pc |-> "sent", current |-> TRUE, answer |-> NoReport]
Polls  == [pc : {"idle", "sent", "read"}, current : BOOLEAN, answer : Reports]

Store(i, s) == rec' = [id |-> i, state |-> s] /\ age' = 0

Fault == faults < MaxFaults /\ faults' = faults + 1

Init ==
  /\ rec = NoReport /\ age = 0
  /\ pc = "none" /\ opId = 0 /\ left = 0 /\ ops = 0
  /\ post = "none" /\ postLeft = 0 /\ answerId = 0
  /\ poll = NoPoll /\ pollLeft = 0
  /\ shown = NoReport /\ valid = FALSE
  /\ local = 0 /\ localAge = 0 /\ told = 0
  /\ faults = 0
------------------------------------------------------------------------------
(* The operation: requestAction and applyAction.                           *)

\* The lock is taken, for the page or for somebody else (the command line).
OperationBegins ==
  /\ pc = "none"
  /\ ops < MaxOps
  /\ ops' = ops + 1
  /\ opId' = ops + 1
  /\ pc' = "asked"
  /\ \/ post = "sent" /\ post' = "running"
     \/ (post = "sent" => ops + 1 < MaxOps) /\ UNCHANGED post
  /\ UNCHANGED <<rec, age, left, postLeft, answerId, poll, pollLeft, pageVars, faults>>

\* "another operation is still running"
RequestRefused ==
  /\ pc # "none"
  /\ post = "sent"
  /\ post' = "error"
  /\ UNCHANGED <<opVars, postLeft, answerId, poll, pollLeft, pageVars, faults>>

\* The settings are committed and the first report is stored.
OperationQueued ==
  /\ pc = "asked"
  /\ Store(opId, "queued")
  /\ pc' = "queued"
  /\ left' = StartTime
  /\ UNCHANGED <<opId, ops, netVars, pageVars, faults>>

\* The worker is started and the API process returns the id of the operation.
OperationConfirmed ==
  /\ pc = "queued"
  /\ pc' = "begin"
  /\ IF post = "running" THEN post' = "ok" /\ answerId' = opId
                         ELSE UNCHANGED <<post, answerId>>
  /\ UNCHANGED <<rec, age, opId, left, ops, postLeft, poll, pollLeft, pageVars, faults>>

\* An error return before anything is stored, or the kill of the API process
\* at any time before the worker is started: it leaves what it has stored.
RequestEnds ==
  /\ \/ pc = "asked" /\ UNCHANGED faults
     \/ pc \in {"asked", "queued"} /\ Fault
  /\ pc' = "none" /\ left' = 0
  /\ post' = IF post = "running" THEN "error" ELSE post
  /\ UNCHANGED <<rec, age, opId, ops, postLeft, answerId, poll, pollLeft, pageVars>>

\* The worker enters a phase with a deadline; step reports the scripts only.
Enter(phase, time, reports) ==
  /\ pc' = phase
  /\ left' = time
  /\ \/ reports /\ Store(opId, "applying")
     \/ ~ reports /\ UNCHANGED <<rec, age>>
  /\ UNCHANGED <<opId, ops, netVars, pageVars, faults>>

\* Mutant of WorkerAdvances: the wait for the old daemon has the time that the
\* status allows instead of its own.
WorkerWaitsLong ==
  \/ pc = "begin"  /\ \E s \in {"stop", "enable", "disable"} : Enter(s, ScriptTime, TRUE)
  \/ pc = "stop"   /\ Enter("wait", StatusLimit, FALSE)
  \/ pc = "wait"   /\ \E s \in {"enable", "disable"} : Enter(s, ScriptTime, TRUE)
  \/ pc = "enable" /\ Enter("start", ScriptTime, TRUE)
  \/ pc = "start"  /\ Enter("poll", ReadyTime, FALSE)

\* From one phase to the next: stop unless the operation is a start, wait for
\* the old daemon, then enable and start, or disable, as the settings say.
WorkerAdvances ==
  \/ pc = "begin"  /\ \E s \in {"stop", "enable", "disable"} : Enter(s, ScriptTime, TRUE)
  \/ pc = "stop"   /\ Enter("wait", StopTime, FALSE)
  \/ pc = "wait"   /\ \E s \in {"enable", "disable"} : Enter(s, ScriptTime, TRUE)
  \/ pc = "enable" /\ Enter("start", ScriptTime, TRUE)
  \/ pc = "start"  /\ Enter("poll", ReadyTime, FALSE)

\* The outcome: "done" after the readiness loop or the disable script, "failed"
\* whenever a phase fails or its deadline passes.
WorkerEnds ==
  /\ \/ pc \in {"poll", "disable"} /\ Store(opId, "done")
     \/ pc \in WorkerAt /\ Store(opId, "failed")
  /\ pc' = "none" /\ left' = 0
  /\ UNCHANGED <<opId, ops, netVars, pageVars, faults>>

WorkerKilled ==
  /\ pc \in WorkerAt
  /\ Fault
  /\ pc' = "none" /\ left' = 0
  /\ UNCHANGED <<rec, age, opId, ops, netVars, pageVars>>
------------------------------------------------------------------------------
(* The status report: the rule of currentStatus for what has no outcome.   *)

\* Mutant of Reported: an operation without an outcome stays that way.
ReportedAsStored(r, a) == r

Reported(r, a) ==
  IF r.state \in Unfinished /\ a > StatusLimit THEN [r EXCEPT !.state = "failed"] ELSE r
------------------------------------------------------------------------------
(* The web page.                                                           *)

\* Mutant of Pending: only the operation that the status shows counts.
PendingAsShown(s, l, a) == s.state \in Unfinished

\* pending(), with the shown operation s, the local one l and its age a.
Pending(s, l, a) ==
  \/ l # 0 /\ s.id # l /\ a < PageLimit
  \/ s.state \in Unfinished

\* The condition under which save and action go on (action wants a clean form
\* as well), and under which the buttons are enabled.
Offered == post = "none" /\ valid /\ ~ Pending(shown, local, localAge)

\* refresh: one request at a time, with the epoch of its start.
Refresh ==
  IF poll.pc = "idle"
  THEN poll' = NewPoll /\ pollLeft' = PollTime
  ELSE UNCHANGED <<poll, pollLeft>>

\* save or action: the epoch of a status request under way becomes an old one.
PagePosts ==
  /\ Offered
  /\ ops < MaxOps
  /\ post' = "sent"
  /\ postLeft' = PostTime
  /\ poll' = [poll EXCEPT !.current = FALSE]
  /\ UNCHANGED <<opVars, answerId, pollLeft, pageVars, faults>>

\* A confirmed answer; the handler ends with a refresh.
PageIsTold ==
  /\ post = "ok"
  /\ post' = "none" /\ postLeft' = 0 /\ answerId' = 0
  /\ local' = answerId /\ localAge' = 0 /\ told' = answerId
  /\ Refresh
  /\ UNCHANGED <<opVars, shown, valid, faults>>

\* An error answer, a lost answer or the time-out: the operation may be under way.
PageIsNotTold ==
  /\ \/ post = "error" /\ UNCHANGED faults
     \/ post # "none" /\ Fault
  /\ post' = "none" /\ postLeft' = 0 /\ answerId' = 0
  /\ Refresh
  /\ UNCHANGED <<opVars, pageVars>>

\* The timer of poll().
PollStarts ==
  /\ poll.pc = "idle"
  /\ Refresh
  /\ UNCHANGED <<opVars, post, postLeft, answerId, pageVars, faults>>

\* The status process reads action.json.
PollReads ==
  /\ poll.pc = "sent"
  /\ poll' = [poll EXCEPT !.pc = "read", !.answer = Reported(rec, age)]
  /\ UNCHANGED <<opVars, post, postLeft, answerId, pollLeft, pageVars, faults>>

\* The answer is used unless a write has begun since the request; an operation
\* that it shows as ended is not waited for any more.
PollAnswers ==
  /\ poll.pc = "read"
  /\ poll' = NoPoll /\ pollLeft' = 0
  /\ IF poll.current
     THEN /\ shown' = poll.answer
          /\ \/ valid' = TRUE /\ UNCHANGED faults
             \/ valid' = FALSE /\ Fault          \* snapshot_ok is false
          /\ IF poll.answer.id = local /\ ~ Pending(poll.answer, local, localAge)
             THEN local' = 0 /\ localAge' = 0
             ELSE UNCHANGED <<local, localAge>>
     ELSE UNCHANGED <<shown, valid, local, localAge, faults>>
  /\ UNCHANGED <<opVars, post, postLeft, answerId, told>>

\* The request fails, times out or brings a status without the settings: what is
\* shown is no longer taken as current.
PollFails ==
  /\ poll.pc # "idle"
  /\ Fault
  /\ poll' = NoPoll /\ pollLeft' = 0
  /\ valid' = (valid /\ ~ poll.current)
  /\ UNCHANGED <<opVars, post, postLeft, answerId, shown, local, localAge, told>>
------------------------------------------------------------------------------
AtMost(n, m) == IF n < m THEN n ELSE m
Countdown(n) == IF n = 0 THEN 0 ELSE n - 1

\* A unit of time; every phase ends, every request is answered or given up and
\* an answer that has arrived is handled before its deadline has passed.
Tick ==
  /\ pc \in Phases \ {"asked"} => left > 0
  /\ post # "none" => postLeft > 0
  /\ poll.pc # "idle" => pollLeft > 0
  /\ age' = IF rec.state \in Unfinished THEN AtMost(age + 1, StatusLimit + 1) ELSE 0
  /\ localAge' = IF local # 0 THEN AtMost(localAge + 1, PageLimit) ELSE 0
  /\ left' = Countdown(left)
  /\ postLeft' = Countdown(postLeft)
  /\ pollLeft' = Countdown(pollLeft)
  /\ UNCHANGED <<rec, pc, opId, ops, post, answerId, poll, shown, valid, local, told, faults>>

Operation == \/ OperationBegins \/ OperationQueued \/ OperationConfirmed
             \/ RequestEnds \/ WorkerAdvances \/ WorkerEnds
Page == \/ PageIsTold \/ PageIsNotTold \/ PollStarts \/ PollReads \/ PollAnswers

Next == \/ Operation \/ RequestRefused \/ WorkerKilled
        \/ PagePosts \/ Page \/ PollFails
        \/ Tick

Spec == Init /\ [][Next]_vars
------------------------------------------------------------------------------
(* Fairness.  The operation's phases have deadlines and its processes are      *)
(* scheduled; the page's timer fires and its requests are answered unless a    *)
(* fault loses them; time passes.                                              *)
Fairness ==
  /\ WF_vars(Operation /\ pc # "none")
  /\ WF_vars((OperationBegins \/ RequestRefused) /\ post = "sent")
  /\ WF_vars(PageIsTold \/ PageIsNotTold)
  /\ WF_vars(PollStarts) /\ WF_vars(PollReads) /\ WF_vars(PollAnswers)
  /\ WF_vars(Tick)

FairSpec == Spec /\ Fairness
------------------------------------------------------------------------------
(* Properties                                                              *)

\* Every variable has its type.
TypeOK ==
  /\ rec \in Reports
  /\ age \in 0..(StatusLimit + 1)
  /\ pc \in Phases \cup {"none"}
  /\ opId \in 0..MaxOps
  /\ left \in Nat
  /\ ops \in 0..MaxOps
  /\ post \in {"none", "sent", "running", "ok", "error"}
  /\ postLeft \in Nat
  /\ answerId \in 0..MaxOps
  /\ poll \in Polls
  /\ pollLeft \in Nat
  /\ shown \in Reports
  /\ valid \in BOOLEAN
  /\ local \in 0..MaxOps
  /\ localAge \in 0..PageLimit
  /\ told \in 0..MaxOps
  /\ faults \in 0..MaxFaults

\* "Operation did not finish within its time limit" is never said of an operation
\* whose worker still lives, neither by the status report, nor in an answer on its
\* way, nor on the page: no worker can be silent for longer than the 65 s.
NoFalseFailure ==
  pc \in Phases =>
    \A r \in {Reported(rec, age), poll.answer, shown} : r.id = opId => r.state \in Unfinished

\* The page offers no save, start, stop or restart while an operation that was
\* confirmed to it is under way, whichever status it has seen, or none: its 65 s
\* are longer than all the worker's deadlines together.
ConfirmedIsAwaited == pc \in Phases /\ told = opId => ~ Offered

\* The page does not wait for ever: whatever was killed or lost, and whoever else
\* has replaced the report it waits for, it offers its operations again.
PageBecomesUsable == []<>Offered
==============================================================================
