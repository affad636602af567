---------------------------- MODULE SettingsPage ----------------------------
(***************************************************************************)
(* The settings form of the web page and the file it edits.                *)
(*                                                                         *)
(* The page keeps the form and the settings it last saw (saved).  A status *)
(* request brings the router's settings; they replace the form unless the  *)
(* user has changed it.  A save posts the whole form, also the fields that *)
(* the user has not touched and the on/off state; start, stop and restart  *)
(* post nothing, and the router changes only the on/off state.  A write    *)
(* makes the answers of the status requests begun before it void           *)
(* (writeEpoch), and an edit during a save keeps the save's confirmation   *)
(* from replacing the form (editRevision).  A post that the page has given *)
(* up may still reach the router, until the page posts again.              *)
(*                                                                         *)
(* The file is written as in SettingsStore.  How long the page waits for   *)
(* an operation, and why no longer, is in OperationStatus; here it simply  *)
(* may stop waiting.                                                       *)
(***************************************************************************)
EXTENDS SettingsStore, FiniteSets

CONSTANTS
  Fields,        \* the settings; "enabled" is one of them
  MaxPosts,      \* bound: saves, starts, stops and restarts
  MaxEdits       \* bound: edits and discards

ASSUME PageAssumption ==
  /\ "enabled" \in Fields
  /\ Settings = [Fields -> BOOLEAN]
  /\ MaxPosts \in Nat /\ MaxEdits \in Nat

VARIABLES
  form,          \* the form
  saved,         \* the settings the page holds to be the router's
  valid,         \* statusValid
  pend,          \* pending(): an operation is waited for
  req,           \* the write request: [pc, kind, data, sure]; "busy" unless its pc is
                 \* "none"; sure (history): what it answers to is on the flash
  poll,          \* the status request: [pc, current, cfg, after]
  late,          \* the form was edited since the write under way was posted
                 \* (editRevision is no longer the one that save has noted)
  stray,         \* the post that was given up and has not reached the router: at
                 \* most one [kind, data]
  posts, edits,  \* how many of each
  tried,         \* history: a status request begun after the last write has ended
  confirmed      \* history: confirmed[f]: what the user was told field f is, if anything

pageVars == <<form, saved, valid, pend, req, poll, late, stray>>
history  == <<posts, edits, tried, confirmed>>
pvars    == <<storeVars, faults, pageVars, history>>

Powers  == {"start", "stop", "restart"}
NoReq   == [pc |-> "none", kind |-> "save", data |-> NoFile, sure |-> TRUE]
Nothing == [f \in Fields |-> NoFile]

NoPoll  == [pc |-> "idle", current |-> FALSE, cfg |-> NoFile, after |-> FALSE]

Busy  == req.pc # "none"
Dirty == form # saved

\* No write request is under way, neither at the page nor, abandoned by it, at
\* the router.
WritesEnded == ~ Busy /\ wpc = "idle"

\* The form starts with the page's defaults and with no valid status.
PageInit ==
  /\ StoreInit
  /\ form = [f \in Fields |-> FALSE] /\ saved = form
  /\ valid = FALSE /\ pend = FALSE
  /\ req = NoReq /\ poll = NoPoll
  /\ late = FALSE /\ stray = {}
  /\ posts = 0 /\ edits = 0
  /\ tried = FALSE /\ confirmed = Nothing
------------------------------------------------------------------------------
(* The user.                                                               *)

\* A field of the form is changed; the on/off state is not one of its fields.
Edit ==
  /\ valid
  /\ edits < MaxEdits
  /\ edits' = edits + 1
  /\ \E f \in Fields \ {"enabled"} : form' = [form EXCEPT ![f] = ~ @]
  /\ late' = Busy
  /\ UNCHANGED <<storeVars, faults, saved, valid, pend, req, poll, stray, posts, tried, confirmed>>

Discard ==
  /\ Dirty /\ ~ Busy
  /\ edits < MaxEdits
  /\ edits' = edits + 1
  /\ form' = saved
  /\ UNCHANGED <<storeVars, faults, saved, valid, pend, req, poll, late, stray, posts, tried, confirmed>>

\* Mutant of Posts: pending() is not asked for.
PostsWhilePending(kind, data) ==
  /\ ~ Busy /\ valid
  /\ posts < MaxPosts
  /\ posts' = posts + 1
  /\ req' = [pc |-> "sent", kind |-> kind, data |-> data, sure |-> TRUE]
  /\ poll' = [poll EXCEPT !.current = FALSE]
  /\ late' = FALSE /\ stray' = {}
  /\ tried' = FALSE
  /\ UNCHANGED <<storeVars, faults, form, saved, valid, pend, edits>>

\* What save and action have in common; poll answers begun earlier become void.
\* Posts are taken to reach the router in the order they are sent: an earlier one
\* that was given up has done so by now, or never will.
Posts(kind, data) ==
  /\ ~ Busy /\ ~ pend /\ valid
  /\ posts < MaxPosts
  /\ posts' = posts + 1
  /\ req' = [pc |-> "sent", kind |-> kind, data |-> data, sure |-> TRUE]
  /\ poll' = [poll EXCEPT !.current = FALSE]
  /\ late' = FALSE /\ stray' = {}
  /\ tried' = FALSE
  /\ UNCHANGED <<storeVars, faults, form, saved, valid, pend, edits>>

\* The whole form is posted; what it asks for are the fields in which it differs
\* from what the page holds to be the router's, shown as unsaved changes.
Save ==
  /\ Dirty
  /\ Posts("save", form)
  /\ confirmed' = [f \in Fields |-> IF form[f] # saved[f] THEN NoFile ELSE confirmed[f]]

Action ==
  /\ ~ Dirty
  /\ \E k \in Powers :
       /\ Posts(k, NoFile)
       /\ confirmed' = IF k = "restart" THEN confirmed
                                        ELSE [confirmed EXCEPT !["enabled"] = NoFile]
------------------------------------------------------------------------------
(* The router: requestAction, up to what the page is told.                 *)

Wanted(kind, data) ==
  CASE kind = "save"  -> data
    [] kind = "start" -> [now["file"] EXCEPT !["enabled"] = TRUE]
    [] kind = "stop"  -> [now["file"] EXCEPT !["enabled"] = FALSE]
    [] OTHER          -> now["file"]

\* What a power failure now would leave is what the file holds.
OnFlash == maybe["file"] = {now["file"]}

\* The lock is free and the settings have passed the checks.  Nothing is written
\* if they are what the file holds, which need not be on the flash: a request
\* that was killed after its rename has not synced the directory.
Takes ==
  /\ req.pc = "sent"
  /\ LET c == Wanted(req.kind, req.data) IN
     \/ /\ c # now["file"]
        /\ StoreBegins(c)
        /\ req' = [req EXCEPT !.pc = "writing"]
     \/ /\ c = now["file"]
        /\ wpc = "idle"
        /\ req' = [req EXCEPT !.pc = "ok", !.sure = OnFlash]
        /\ UNCHANGED storeVars
  /\ UNCHANGED <<faults, form, saved, valid, pend, poll, late, stray, history>>

\* The same for a post that the page has given up; nobody waits for the answer.
TakesLate ==
  \E a \in stray : LET c == Wanted(a.kind, a.data) IN
    /\ \/ c # now["file"] /\ StoreBegins(c)
       \/ c = now["file"] /\ UNCHANGED storeVars
    /\ stray' = {}
    /\ UNCHANGED <<faults, form, saved, valid, pend, req, poll, late, history>>

\* The lock is held, or a check fails.
Refuses ==
  /\ req.pc = "sent"
  /\ req' = [req EXCEPT !.pc = "error"]
  /\ UNCHANGED <<storeVars, faults, form, saved, valid, pend, poll, late, stray, history>>

\* The answer to the page, if it has not given up waiting for it.
Answer(a) ==
  req' = IF req.pc = "writing" THEN [req EXCEPT !.pc = a, !.sure = a = "ok" => OnFlash] ELSE req

Writes ==
  /\ StoreWorks
  /\ UNCHANGED <<faults, pageVars, history>>

WritesUnsynced ==
  /\ StoreSettlesNothing
  /\ UNCHANGED <<pageVars, history>>

\* After the save the operation is queued and its worker started, or is not.
Written ==
  /\ StoreReturns
  /\ \E a \in {"ok", "error"} : Answer(a)
  /\ UNCHANGED <<faults, form, saved, valid, pend, poll, late, stray, history>>

WriteStops ==
  /\ StoreStops
  /\ Answer("error")
  /\ UNCHANGED <<form, saved, valid, pend, poll, late, stray, history>>

\* The connections of the page break.
RouterLosesPower ==
  /\ PowerLoss
  /\ req' = IF req.pc \in {"sent", "writing"} THEN [req EXCEPT !.pc = "error"] ELSE req
  /\ poll' = IF poll.pc = "sent" THEN NoPoll ELSE poll
  /\ valid' = (valid /\ ~ (poll.pc = "sent" /\ poll.current))
  /\ tried' = (tried \/ (poll.pc = "sent" /\ poll.current /\ poll.after))
  /\ stray' = {}
  /\ UNCHANGED <<form, saved, pend, late, posts, edits, confirmed>>
------------------------------------------------------------------------------
(* The page.                                                               *)

\* refresh: one request at a time.
Refreshed ==
  IF poll.pc = "idle"
  THEN [pc |-> "sent", current |-> TRUE, cfg |-> NoFile, after |-> wpc = "idle"]
  ELSE poll

\* Mutant of FormAfterSave: the revision is not compared.
FormReplaced == req.data

FormAfterSave == IF late THEN form ELSE req.data

Confirms ==
  /\ req.pc = "ok"
  /\ \/ /\ req.kind = "save"
        /\ saved' = req.data
        /\ form' = FormAfterSave
        /\ confirmed' = IF req.sure THEN req.data ELSE confirmed
     \/ /\ req.kind # "save"
        /\ confirmed' = IF req.kind # "restart" /\ req.sure
                        THEN [confirmed EXCEPT !["enabled"] = req.kind = "start"]
                        ELSE confirmed
        /\ UNCHANGED <<saved, form>>
  /\ late' = FALSE
  /\ pend' = TRUE
  /\ req' = NoReq
  /\ poll' = Refreshed
  /\ UNCHANGED <<storeVars, faults, valid, stray, posts, edits, tried>>

\* An error answer, a broken connection, or 10 s without an answer; a post that
\* the router has not taken by then may reach it later.
ConfirmsNothing ==
  /\ \/ req.pc = "error" /\ UNCHANGED <<faults, stray>>
     \/ Busy /\ Fault /\ UNCHANGED stray
     \/ req.pc = "sent" /\ Fault /\ stray' = {[kind |-> req.kind, data |-> req.data]}
  /\ late' = FALSE
  /\ req' = NoReq
  /\ poll' = Refreshed
  /\ UNCHANGED <<storeVars, form, saved, valid, pend, posts, edits, tried, confirmed>>

\* A later status has shown the operation to have ended, or 65 s have passed, in
\* which at least one status request was begun and has been answered or has failed.
StopsWaiting ==
  /\ pend
  /\ tried
  /\ pend' = FALSE
  /\ UNCHANGED <<storeVars, faults, form, saved, valid, req, poll, late, stray, history>>

PollStarts ==
  /\ poll.pc = "idle"
  /\ poll' = [Refreshed EXCEPT !.after = WritesEnded]
  /\ UNCHANGED <<storeVars, faults, form, saved, valid, pend, req, late, stray, history>>

\* currentStatus reads the settings first and the operation last.
PollReads ==
  /\ poll.pc = "sent"
  /\ poll' = [poll EXCEPT !.pc = "read", !.cfg = now["file"]]
  /\ UNCHANGED <<storeVars, faults, form, saved, valid, pend, req, late, stray, history>>

\* A status is used unless a write has begun since its request.
PollAnswers ==
  /\ poll.pc = "read"
  /\ poll' = NoPoll
  /\ tried' = (tried \/ (poll.current /\ poll.after))
  /\ IF poll.current
     THEN /\ IF ~ Dirty /\ ~ Busy
             THEN form' = poll.cfg
             ELSE UNCHANGED form
          /\ saved' = poll.cfg
          /\ \/ valid' = TRUE /\ UNCHANGED faults
             \/ valid' = FALSE /\ Fault          \* snapshot_ok is false
     ELSE UNCHANGED <<form, saved, valid, faults>>
  /\ UNCHANGED <<storeVars, pend, req, late, stray, posts, edits, confirmed>>

\* Mutant of PollFails: the request stays in flight for the page.
PollFailsForGood ==
  /\ poll.pc \in {"sent", "read"}
  /\ Fault
  /\ poll' = [poll EXCEPT !.pc = "lost"]
  /\ valid' = (valid /\ ~ poll.current)
  /\ tried' = (tried \/ (poll.current /\ poll.after))
  /\ UNCHANGED <<storeVars, form, saved, pend, req, late, stray, posts, edits, confirmed>>

\* The request fails, times out, or brings a status without settings.
PollFails ==
  /\ poll.pc \in {"sent", "read"}
  /\ Fault
  /\ poll' = NoPoll
  /\ valid' = (valid /\ ~ poll.current)
  /\ tried' = (tried \/ (poll.current /\ poll.after))
  /\ UNCHANGED <<storeVars, form, saved, pend, req, late, stray, posts, edits, confirmed>>
------------------------------------------------------------------------------
Kernel == Writeback /\ UNCHANGED <<faults, pageVars, history>>

User   == Edit \/ Discard \/ Save \/ Action
Router == Takes \/ Writes \/ Written \/ WriteStops
Page   == Confirms \/ ConfirmsNothing \/ PollStarts \/ PollReads \/ PollAnswers

Next == User \/ Router \/ Refuses \/ TakesLate \/ WritesUnsynced \/ Kernel \/ RouterLosesPower
        \/ Page \/ StopsWaiting \/ PollFails

Spec == PageInit /\ [][Next]_pvars

\* A request's process is scheduled and has deadlines, the page's timer fires,
\* and its requests are answered or given up; the user need not do anything.
FairSpec ==
  /\ Spec
  /\ WF_pvars(Router \/ Refuses)
  /\ WF_pvars(Confirms \/ ConfirmsNothing)
  /\ WF_pvars(PollStarts) /\ WF_pvars(PollReads) /\ WF_pvars(PollAnswers)
------------------------------------------------------------------------------
(* Properties                                                              *)

\* Every variable has its type.
PageTypeOK ==
  /\ StoreTypeOK
  /\ form \in Settings /\ saved \in Settings
  /\ valid \in BOOLEAN /\ pend \in BOOLEAN
  /\ req \in [pc : {"none", "sent", "writing", "ok", "error"},
              kind : Powers \cup {"save"}, data : Settings \cup {NoFile}, sure : BOOLEAN]
  /\ poll \in [pc : {"idle", "sent", "read"}, current : BOOLEAN,
               cfg : Settings \cup {NoFile}, after : BOOLEAN]
  /\ late \in BOOLEAN
  /\ stray \subseteq [kind : Powers \cup {"save"}, data : Settings \cup {NoFile}]
  /\ posts \in 0..MaxPosts /\ edits \in 0..MaxEdits
  /\ tried \in BOOLEAN
  /\ confirmed \in [Fields -> BOOLEAN \cup {NoFile}]

\* Settings c have what the user was told.
Agrees(c) == \A f \in Fields : confirmed[f] \in {NoFile, c[f]}

\* What the page has confirmed stays: a field keeps the value that a confirmed
\* save, start or stop gave it until the user asks for another one (by start or
\* stop, or by saving a form that shows another one as an unsaved change),
\* whatever is killed, lost or late in between, and although every save writes all
\* fields.  (What was confirmed without being certain to be on the flash is not
\* counted, see sure: a repeated request finds what a killed one has renamed, or
\* the directory's sync has failed.)
ConfirmedStays == Agrees(now["file"])

\* A form with unsaved changes is changed by the user alone: neither by a status
\* nor by the confirmation of a save that was posted before the last edit.
DraftIsTheUsers == [][Dirty /\ form' # form => edits' # edits]_pvars

\* The page ends up with the router's settings, whatever it was told or was not.
PageShowsTheRouter == <>[](saved = now["file"])

\* "status started before a write cannot roll it back" (tests/ui_test.mjs:18): what
\* the page shows of a setting that was confirmed is not undone by a status.  The
\* page compares the write's number, and a status that it begins while the write
\* is under way has that number; it may have read the settings before the write.
WriteNotRolledBack ==
  [][\A f \in Fields : saved[f] = confirmed[f] /\ confirmed'[f] = confirmed[f]
       => saved'[f] = saved[f]]_pvars

\* "Unsaved changes" (V1220.js:116, 151) are changes that the user has made.  A
\* status that is answered while a start or stop is under way, and was read after
\* its write, changes saved and not the form.
UnsavedIsEdited == Dirty => edits > 0
==============================================================================
