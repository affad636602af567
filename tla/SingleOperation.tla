--------------------------- MODULE SingleOperation ---------------------------
(***************************************************************************)
(* What the service control of the emulator promises to whoever changes    *)
(* its settings: operations run one at a time.  An operation takes the     *)
(* service for itself, may replace the settings once before it publishes   *)
(* its first report, reports its own progress and gives the service back.  *)
(* How the real program does it (an flock on an open file description that *)
(* two processes and their scripts share) is in ServiceControl.            *)
(***************************************************************************)
CONSTANTS
  Requests,      \* the operations that may be asked for
  NoRequest,     \* "nobody" as an owner and as the author of a report
  Settings       \* the settings that can be saved

VARIABLES
  owner,         \* the operation that has the service, or NoRequest
  config,        \* the saved settings
  report         \* the last report: [id, state]

vars == <<owner, config, report>>

Unfinished == {"queued", "applying"}
Finished   == {"done", "failed"}

NoReport == [id |-> NoRequest, state |-> "none"]

Init == /\ owner = NoRequest
        /\ config \in Settings
        /\ report = NoReport

\* An operation starts only when no other one is under way.
Acquire(r) == /\ owner = NoRequest
              /\ owner' = r
              /\ UNCHANGED <<config, report>>

\* The settings are replaced before the operation has reported anything.
Commit(r) == /\ owner = r
             /\ report.id # r
             /\ config' \in Settings
             /\ UNCHANGED <<owner, report>>

\* The owner, and nobody else, publishes a report, always under its own name;
\* once it has reported its outcome it reports nothing more.
Report(r) == /\ owner = r
             /\ ~ (report.id = r /\ report.state \in Finished)
             /\ \E s \in Unfinished \cup Finished : report' = [id |-> r, state |-> s]
             /\ UNCHANGED <<owner, config>>

Release(r) == /\ owner = r
              /\ owner' = NoRequest
              /\ UNCHANGED <<config, report>>

\* A reboot of the router ends whatever was under way and forgets the report.
Forget == /\ owner' = NoRequest
          /\ report' = NoReport
          /\ UNCHANGED config

Next == \/ \E r \in Requests : Acquire(r) \/ Commit(r) \/ Report(r) \/ Release(r)
        \/ Forget

Spec == Init /\ [][Next]_vars
==============================================================================
