-------------------------- MODULE WorkflowDispatch --------------------------
(***************************************************************************)
(* One row of one workflow, the screens that show it, and the dispatcher   *)
(* between them.  A screen (apps/web/src/machines/headless-workflow.ts)    *)
(* loads a snapshot, offers its next events, and posts the chosen one with *)
(* the version it shows; the dispatcher (apps/api/src/workflow-dispatch.ts)*)
(* locks the row, compares versions, reduces, writes the row and appends   *)
(* to the event log in one transaction.  The worker and the endpoints kept *)
(* from before the workflows raise events on whatever row they find; of    *)
(* two workflows, other handlers overwrite the state itself.  Requests and *)
(* answers may be delayed, overtake each other or be lost.                 *)
(*                                                                         *)
(* A request carries, besides its version, the snapshot its user saw; the  *)
(* log keeps it: neither is in the code, both are for the properties.      *)
(***************************************************************************)
EXTENDS Naturals, Sequences, FiniteSets

CONSTANTS
  Tables,      \* the workflows: see WorkflowTables
  Screens,     \* the browser tabs followed step by step
  Nothing,     \* no snapshot
  MaxVersion,  \* bound on the row's version
  MaxAside,    \* bound: the state is overwritten up to this version
  MaxClicks    \* bound on the events a screen posts

ASSUME BoundsAssumption == MaxVersion \in Nat \ {0} /\ MaxAside \in Nat /\ MaxClicks \in Nat \ {0}

\* What is written past a reducer is one of its states; a chain has an event.
ASSUME TablesAssumption ==
  \A name \in DOMAIN Tables :
    LET t == Tables[name] IN
    /\ "aside" \in DOMAIN t => t.aside \subseteq {t.init} \cup {t.steps[e].to : e \in DOMAIN t.steps}
    /\ "drains" \in DOMAIN t =>
         \A state \in DOMAIN t.drains : t.drains[state] \subseteq Seq(DOMAIN t.steps) \ {<<>>}

VARIABLES
  workflow,  \* the name of the row's workflow
  row,       \* its state and state_version
  log,       \* workflow_event_log rows of the entity, in the order written
  screen,    \* each tab's machine
  requests,  \* posted events the server has not handled
  answers    \* responses no screen has read

vars == <<workflow, row, log, screen, requests, answers>>

table == Tables[workflow]

Steps == table.steps

NextEvents(state) == IF state \in DOMAIN table.offers THEN table.offers[state] ELSE {}

Legal(event, state) == state \in Steps[event].from

\* The states written past the reducer.
Aside == IF "aside" \in DOMAIN table THEN table.aside ELSE {}

\* The worker reduces from a snapshot of its own making.
Rebuilt == "drains" \in DOMAIN table

\* The chains of events one transaction of that worker may raise.
Drains(state) == IF Rebuilt /\ state \in DOMAIN table.drains THEN table.drains[state] ELSE {}

\* A reducer where it does not throw.
Reduce(snapshot, event) ==
  [state |-> Steps[event].to, version |-> snapshot.version + 1]

Click(s, n) == <<s, n>>

Initial(name) == [state |-> Tables[name].init, version |-> 1]

Fresh == [pc |-> "loading", snapshot |-> Nothing, error |-> FALSE, clicks |-> 0]

Init ==
  /\ workflow \in DOMAIN Tables
  /\ row = Initial(workflow)
  /\ log = <<>>
  /\ screen = [s \in Screens |-> Fresh]
  /\ requests = {}
  /\ answers = {}
-----------------------------------------------------------------------------
(* The server. *)

\* The unique key of workflow_event_log.
Recorded(version) == \E i \in DOMAIN log : log[i].version = version

\* The entry keyed by the version the event produced.
PersistLogsAfter(event, click, saw) ==
  /\ row' = Reduce(row, event)
  /\ log' = Append(log, [ version |-> row.version + 1,
                          event   |-> event,
                          after   |-> Reduce(row, event),
                          click   |-> click,
                          saw     |-> saw ])

\* The row and its log entry, keyed by the version before the event.
Persist(event, click, saw) ==
  /\ row' = Reduce(row, event)
  /\ log' = IF Recorded(row.version) THEN log
            ELSE Append(log, [ version |-> row.version,
                               event   |-> event,
                               after   |-> Reduce(row, event),
                               click   |-> click,
                               saw     |-> saw ])

StaleUnchecked(request) == FALSE

Stale(request) == request.version # row.version

\* dispatchWorkflowEvent's result, in the order of its checks.  A second log
\* entry for a version is a 409 too (recordWorkflowEvent), and rolls back.
Verdict(r) ==
  CASE Stale(r)                -> "version_conflict"
    [] ~Legal(r.event, row.state) -> "illegal_transition"
    [] Recorded(row.version)   -> "version_conflict"
    [] OTHER                   -> "ok"

\* The screen that posted a request still waits for its answer.
Awaited(r) ==
  \E s \in Screens : screen[s].pc = "submitting" /\ r.click = Click(s, screen[s].clicks)

Dispatch(r) ==
  /\ requests' = requests \ {r}
  /\ IF Verdict(r) = "ok" THEN Persist(r.event, r.click, r.saw) ELSE UNCHANGED <<row, log>>
  /\ answers' = IF Awaited(r)
                THEN answers \cup {[click |-> r.click, kind |-> Verdict(r), snapshot |-> row']}
                ELSE answers
  /\ UNCHANGED <<workflow, screen>>

\* An event raised without a client's version: by the worker, under the row's
\* lock, or by an endpoint that passes the locked row's own version.
Unasked(event) ==
  /\ event \in table.unasked
  /\ row.version < MaxVersion
  /\ Legal(event, row.state)
  /\ Persist(event, Nothing, Nothing)
  /\ UNCHANGED <<workflow, screen, requests, answers>>

\* The row after the first k events of a chain.
After(events, k) == [state |-> Steps[events[k]].to, version |-> row.version + k]

\* No event of the chain makes the reducer throw.
Chains(events) ==
  \A k \in DOMAIN events :
    Legal(events[k], IF k = 1 THEN table.init ELSE Steps[events[k - 1]].to)

\* One claimed row of a drain: the chain starts from the initial state with the
\* row's version, and row and log entries commit at once.
Drain(events) ==
  /\ events \in Drains(row.state)
  /\ row.version + Len(events) <= MaxVersion
  /\ Chains(events)
  /\ row' = After(events, Len(events))
  /\ log' = IF \E k \in DOMAIN events : Recorded(row.version + k - 1) THEN log
            ELSE log \o [k \in DOMAIN events |-> [ version |-> row.version + k - 1,
                                                  event   |-> events[k],
                                                  after   |-> After(events, k),
                                                  click   |-> Nothing,
                                                  saw     |-> Nothing ]]
  /\ UNCHANGED <<workflow, screen, requests, answers>>

\* A handler overwrites the state, and neither counts nor logs it.
WriteAside(state) ==
  /\ state \in Aside
  /\ row.version <= MaxAside
  /\ row' = [row EXCEPT !.state = state]
  /\ UNCHANGED <<workflow, log, screen, requests, answers>>

\* A user of some other screen, between whose load and whose post nothing comes.
Promptly(event) ==
  /\ event \in NextEvents(row.state)
  /\ row.version < MaxVersion
  /\ Legal(event, row.state)
  /\ Persist(event, Nothing, Nothing)
  /\ UNCHANGED <<workflow, screen, requests, answers>>

\* A request dies on its way to the server.
LoseRequest(r) ==
  /\ requests' = requests \ {r}
  /\ UNCHANGED <<workflow, row, log, screen, answers>>
-----------------------------------------------------------------------------
(* The screens. *)

ServerUnchanged == UNCHANGED <<workflow, row, log>>

Show(s, pc, snapshot, error) ==
  screen' = [screen EXCEPT ![s].pc = pc, ![s].snapshot = snapshot, ![s].error = error]

Refresh(s) ==
  /\ screen[s].pc = "idle"
  /\ Show(s, "loading", screen[s].snapshot, screen[s].error)
  /\ ServerUnchanged /\ UNCHANGED <<requests, answers>>

LoadReturns(s) ==
  /\ screen[s].pc = "loading"
  /\ Show(s, "idle", row, FALSE)
  /\ ServerUnchanged /\ UNCHANGED <<requests, answers>>

\* A failed load keeps the snapshot there was, if any.
LoadFails(s) ==
  /\ screen[s].pc = "loading"
  /\ Show(s, "idle", screen[s].snapshot, TRUE)
  /\ ServerUnchanged /\ UNCHANGED <<requests, answers>>

Dismiss(s) ==
  /\ screen[s].pc = "idle" /\ screen[s].error
  /\ Show(s, "idle", screen[s].snapshot, FALSE)
  /\ ServerUnchanged /\ UNCHANGED <<requests, answers>>

\* The user chooses one of the events offered for the state shown.
Choose(s, event) ==
  LET shown == screen[s].snapshot
      click == Click(s, screen[s].clicks + 1) IN
  /\ screen[s].pc = "idle" /\ shown # Nothing
  /\ screen[s].clicks < MaxClicks
  /\ shown.version < MaxVersion
  /\ event \in NextEvents(shown.state)
  /\ screen' = [screen EXCEPT ![s].pc = "submitting", ![s].clicks = @ + 1]
  /\ requests' = requests \cup
       {[click |-> click, event |-> event, version |-> shown.version, saw |-> shown.state]}
  /\ UNCHANGED <<workflow, row, log, answers>>

Mine(s) == {a \in answers : a.click = Click(s, screen[s].clicks)}

AnswerOk(s) ==
  /\ screen[s].pc = "submitting"
  /\ \E a \in Mine(s) :
       /\ a.kind = "ok"
       /\ Show(s, "idle", a.snapshot, FALSE)
       /\ answers' = answers \ {a}
  /\ ServerUnchanged /\ UNCHANGED requests

\* A 409 of either kind: the machine reads the row again, still submitting.
AnswerConflict(s) ==
  /\ screen[s].pc = "submitting"
  /\ \E a \in Mine(s) :
       /\ a.kind # "ok"
       /\ answers' = answers \ {a}
  /\ screen' = [screen EXCEPT ![s].pc = "reloading"]
  /\ ServerUnchanged /\ UNCHANGED requests

\* A conflict shown as a plain reload.
ReloadQuietly(s) ==
  /\ screen[s].pc = "reloading"
  /\ Show(s, "idle", row, FALSE)
  /\ ServerUnchanged /\ UNCHANGED <<requests, answers>>

\* ... and says that it was out of sync; when that read fails it shows nothing.
ReloadReturns(s) ==
  /\ screen[s].pc = "reloading"
  /\ Show(s, "idle", row, TRUE)
  /\ ServerUnchanged /\ UNCHANGED <<requests, answers>>

ReloadFails(s) ==
  /\ screen[s].pc = "reloading"
  /\ Show(s, "idle", Nothing, TRUE)
  /\ ServerUnchanged /\ UNCHANGED <<requests, answers>>

\* The post fails for the browser: the request or its answer is lost, or the
\* connection is.  The request may still be under way.
PostFails(s) ==
  /\ screen[s].pc = "submitting"
  /\ Show(s, "idle", screen[s].snapshot, TRUE)
  /\ answers' = answers \ Mine(s)
  /\ ServerUnchanged /\ UNCHANGED requests

ScreenStep(s) ==
  LoadReturns(s) \/ LoadFails(s) \/ AnswerOk(s) \/ AnswerConflict(s)
    \/ ReloadReturns(s) \/ ReloadFails(s) \/ PostFails(s)

UserStep(s) ==
  \/ Refresh(s)
  \/ Dismiss(s)
  \/ \E event \in DOMAIN Steps : Choose(s, event)

Next ==
  \/ \E r \in requests : Dispatch(r) \/ LoseRequest(r)
  \/ \E event \in DOMAIN Steps : Unasked(event) \/ Promptly(event)
  \/ \E events \in Drains(row.state) : Drain(events)
  \/ \E state \in Aside : WriteAside(state)
  \/ \E s \in Screens : ScreenStep(s) \/ UserStep(s)

Spec == Init /\ [][Next]_vars

\* The browser settles every fetch, one way or the other.
FairSpec == Spec /\ \A s \in Screens : WF_vars(ScreenStep(s))
-----------------------------------------------------------------------------
(* Properties. *)

Versions == 1..MaxVersion

Clicks == Screens \X (1..MaxClicks)

States == {table.init} \cup UNION {Steps[e].from \cup {Steps[e].to} : e \in DOMAIN Steps}

Snapshots == [state : States, version : Versions]

LogRows == [ version : Versions,
             event   : DOMAIN Steps,
             after   : Snapshots,
             click   : Clicks \cup {Nothing},
             saw     : States \cup {Nothing} ]

Machines == [ pc       : {"loading", "idle", "submitting", "reloading"},
              snapshot : Snapshots \cup {Nothing},
              error    : BOOLEAN,
              clicks   : 0..MaxClicks ]

Requests == [click : Clicks, event : DOMAIN Steps, version : Versions, saw : States]

Answers ==
  [click : Clicks, kind : {"ok", "version_conflict", "illegal_transition"}, snapshot : Snapshots]

\* Every variable has its type; no version is beyond the bound.
TypeOK ==
  /\ workflow \in DOMAIN Tables
  /\ row \in Snapshots
  /\ log \in Seq(LogRows)
  /\ screen \in [Screens -> Machines]
  /\ requests \subseteq Requests
  /\ answers \subseteq Answers

\* The row as it was at version n.
At(n) == IF n = 1 THEN Initial(workflow) ELSE log[n - 1].after

\* The row moves by its reducer only, and always from the state it is in.
Reduced == Aside = {} /\ ~Rebuilt

\* Every version of a row but the last has exactly one log entry, in order,
\* whatever screens, worker and old endpoints do to the row at once.  Where the
\* row moves by its reducer only, replaying the log from the initial state meets
\* no illegal event and no state or version that differs, and ends in the row
\* (applyEventLog of replay.ts).  That is not claimed of rental and
\* project_closeout, whose state others overwrite, nor of notification, whose
\* worker reduces from a snapshot it makes up: there a replay may fail.
LogReplays ==
  /\ row.version = Len(log) + 1
  /\ \A n \in DOMAIN log : log[n].version = n /\ log[n].after.version = n + 1
  /\ Reduced =>
       /\ \A n \in DOMAIN log :
            /\ Legal(log[n].event, At(n).state)
            /\ log[n].after = Reduce(At(n), log[n].event)
       /\ row = At(Len(log) + 1)

\* An event a user chose is only ever applied to the very state the user was
\* looking at when choosing it, however old the screen, however late or often
\* the request, and though others move the row without asking: unless, as with
\* a rental and a project's closeout, they overwrite the state at its version.
ActedOnWhatWasShown ==
  Aside = {} => \A n \in DOMAIN log : log[n].click # Nothing => log[n].saw = At(n).state

\* The tables fit the dispatcher.  What a screen offers is legal unless the row
\* has moved on, so that a posted event is refused for its version or not at
\* all (where nobody overwrites the state); a row that is in no declared
\* terminal state has somewhere to go, by a user's event or one the server
\* raises; and a terminal one has not.
OffersFit ==
  /\ Aside = {} => \A r \in requests : ~Stale(r) => Legal(r.event, row.state)
  /\ IF row.state \in table.terminal
     THEN \A e \in DOMAIN Steps : ~Legal(e, row.state)
     ELSE NextEvents(row.state) # {} \/ \E e \in table.unasked : Legal(e, row.state)

Told(s, n) ==
  /\ screen[s].pc = "idle"
  /\ screen[s].clicks = n
  /\ screen[s].error \/ \E i \in DOMAIN log : log[i].click = Click(s, n)

\* Every click comes to an end, and none is dropped in silence: either its event
\* is in the log, or the screen says that something went wrong.
ClicksAreAnswered ==
  \A s \in Screens : \A n \in 1..MaxClicks :
    screen[s].pc = "submitting" /\ screen[s].clicks = n ~> Told(s, n)
=============================================================================
