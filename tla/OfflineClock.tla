------------------------------ MODULE OfflineClock ------------------------------
(***************************************************************************)
(* A worker's device and the time clock's API.  The web app tries a tap    *)
(* live; when no response comes it queues the tap in IndexedDB             *)
(* (apps/web/src/lib/offline/queue.ts), and the replay engine (replay.ts)  *)
(* sends the queued taps again, oldest first, until each is answered.      *)
(* Tabs of one browser share the queue; the Web Lock lets one of them      *)
(* replay.  A replay works on the list it read when it began.              *)
(*                                                                         *)
(* The environment fails MaxFaults times in all: a request that does not   *)
(* arrive, an answer that is lost, a handler that throws, a tab that is    *)
(* reloaded, an expired session.  A row that has been tried BackoffFrom    *)
(* times rests before its next attempt.                                    *)
(***************************************************************************)
EXTENDS ClockServer

CONSTANTS
    Tabs,
    MaxTaps,      \* bound: clock-ins and clock-outs the worker taps
    MaxFaults,    \* bound: failures of the network, the API and the browser
    BackoffFrom,  \* attempts before a row's attempts are spaced out
    NoTab

ASSUME BoundsAreNaturals ==
    /\ MaxTaps \in Nat
    /\ MaxFaults \in Nat
    /\ BackoffFrom \in Nat \ {0}
    /\ NoTab \notin Tabs
    /\ \A d \in Tabs : Nobody \notin {<<d, "live">>, <<d, "replay">>}

VARIABLES
    taps,      \* what the worker tapped, in order
    queue,     \* IndexedDB rows by tap: place in the queue, attempts, resting
    enqueued,  \* rows ever added: the next row's enqueued_at
    live,      \* per tab, the live call: its tap and where it stands
    replay,    \* per tab, the replay: rows still to do and where it stands
    lock,      \* the tab that holds the Web Lock
    faults,    \* failures so far
    settled,   \* history: taps whose outcome reached the app
    forgotten, \* history: taps whose tab was reloaded before an outcome or a row
    unsure     \* history: per tap, calls that arrived and whose outcome is unknown

deviceVars == <<taps, queue, enqueued, live, replay, lock>>
history == <<settled, forgotten, unsure>>
clockVars == <<serverVars, deviceVars, faults, history>>

TapIds == 1..MaxTaps
NoCall == [tap |-> 0, step |-> "idle"]
NoReplay == [todo |-> {}, step |-> "idle"]

ClockInit ==
    /\ ServerInit
    /\ taps = <<>>
    /\ queue = [t \in {} |-> 0]
    /\ enqueued = 0
    /\ live = [d \in Tabs |-> NoCall]
    /\ replay = [d \in Tabs |-> NoReplay]
    /\ lock = NoTab
    /\ faults = 0
    /\ settled = {}
    /\ forgotten = {}
    /\ unsure = [t \in TapIds |-> 0]

Fault == faults < MaxFaults /\ faults' = faults + 1

Put(t, row) == [u \in DOMAIN queue \union {t} |-> IF u = t THEN row ELSE queue[u]]
Without(t) == Restrict(queue, DOMAIN queue \ {t})

\* listOfflineMutations: the rows as they are now.
Rows == {[tap |-> t, at |-> queue[t].at, attempts |-> queue[t].attempts] : t \in DOMAIN queue}

-----------------------------------------------------------------------------
(* Live calls: liveOrQueueClockIn and liveOrQueueClockOut. *)

NewTap(d, k) ==
    /\ live[d].step = "idle"
    /\ Len(taps) < MaxTaps
    /\ taps' = Append(taps, k)

Tap(d, k, s) ==
    /\ NewTap(d, k)
    /\ Arrive(s, Len(taps'), k, <<d, "live">>)
    /\ live' = [live EXCEPT ![d] = [tap |-> Len(taps'), step |-> "waiting"]]
    /\ UNCHANGED <<queue, enqueued, replay, lock, faults, history>>

TapOffline(d, k) ==
    /\ Fault
    /\ NewTap(d, k)
    /\ live' = [live EXCEPT ![d] = [tap |-> Len(taps'), step |-> "queueing"]]
    /\ UNCHANGED <<serverVars, queue, enqueued, replay, lock, history>>

\* A response of any status ends the call; the app shows it to the worker.
LiveAnswered(d, s) ==
    /\ thread[s].caller = <<d, "live">>
    /\ thread[s].step \in Outcomes
    /\ thread' = [thread EXCEPT ![s] = Free]
    /\ live' = [live EXCEPT ![d] = NoCall]
    /\ settled' = settled \union {live[d].tap}
    /\ UNCHANGED <<events, entries, taps, queue, enqueued, replay, lock, faults, forgotten, unsure>>

\* NetworkError for a request that did arrive.
LiveLost(d, s) ==
    /\ Fault
    /\ thread[s].caller = <<d, "live">>
    /\ thread' = [thread EXCEPT ![s] = HangUp(s)]
    /\ live' = [live EXCEPT ![d].step = "queueing"]
    /\ unsure' = [unsure EXCEPT ![live[d].tap] = @ + 1]
    /\ UNCHANGED <<events, entries, taps, queue, enqueued, replay, lock, settled, forgotten>>

Enqueue(d) ==
    /\ live[d].step = "queueing"
    /\ queue' = Put(live[d].tap, [at |-> enqueued + 1, attempts |-> 0, resting |-> FALSE])
    /\ enqueued' = enqueued + 1
    /\ live' = [live EXCEPT ![d] = NoCall]
    /\ UNCHANGED <<serverVars, taps, replay, lock, faults, history>>

-----------------------------------------------------------------------------
(* The replay: replayOfflineQueue and runReplay. *)

\* Mutant: only the flag of this tab guards a replay.
MayReplayInEachTab(d) == TRUE

MayReplay(d) == lock = NoTab

StartReplay(d) ==
    /\ MayReplay(d)
    /\ replay[d].step = "idle"
    /\ DOMAIN queue # {}
    /\ lock' = d
    /\ replay' = [replay EXCEPT ![d] = [todo |-> Rows, step |-> "next"]]
    /\ UNCHANGED <<serverVars, taps, queue, enqueued, live, faults, history>>

\* Mutant: the rows in the order of their keys.
RowByKey(d) == CHOOSE row \in replay[d].todo : \A other \in replay[d].todo : row.tap >= other.tap

\* The rows are taken in the order of their enqueued_at.
Row(d) == CHOOSE row \in replay[d].todo : \A other \in replay[d].todo : row.at <= other.at
NextRow(d) == [todo |-> replay[d].todo \ {Row(d)}, step |-> "next"]
AtRow(d) == replay[d].step = "next" /\ replay[d].todo # {}

Resting(row) == row.attempts >= BackoffFrom /\ row.tap \in DOMAIN queue /\ queue[row.tap].resting

SkipRow(d) ==
    /\ AtRow(d)
    /\ Resting(Row(d))
    /\ replay' = [replay EXCEPT ![d] = NextRow(d)]
    /\ UNCHANGED <<serverVars, taps, queue, enqueued, live, lock, faults, history>>

SendRow(d, s) ==
    /\ AtRow(d)
    /\ ~Resting(Row(d))
    /\ Arrive(s, Row(d).tap, taps[Row(d).tap], <<d, "replay">>)
    /\ replay' = [replay EXCEPT ![d].step = "waiting"]
    /\ UNCHANGED <<taps, queue, enqueued, live, lock, faults, history>>

\* 2xx and 4xx answers remove the row.
RowAnswered(d, s) ==
    /\ thread[s].caller = <<d, "replay">>
    /\ thread[s].step \in {"ok", "refused"}
    /\ thread' = [thread EXCEPT ![s] = Free]
    /\ queue' = Without(Row(d).tap)
    /\ replay' = [replay EXCEPT ![d] = NextRow(d)]
    /\ settled' = settled \union {Row(d).tap}
    /\ UNCHANGED <<events, entries, taps, enqueued, live, lock, faults, forgotten, unsure>>

\* Mutant: a row that failed too often is given up.
DeferredOrGivenUp(d) ==
    LET row == Row(d)
    IN  IF row.attempts >= BackoffFrom THEN Without(row.tap)
        ELSE Put(row.tap, [at |-> row.at, attempts |-> row.attempts + 1, resting |-> FALSE])

\* Anything else writes the row the replay read back with one attempt more,
\* and the replay goes on with the next row.
Deferred(d) ==
    LET row == Row(d)
    IN  Put(row.tap, [at |-> row.at, attempts |-> row.attempts + 1,
                      resting |-> row.attempts + 1 >= BackoffFrom])

RowFailed(d, s) ==
    /\ thread[s].caller = <<d, "replay">>
    /\ thread[s].step = "failed"
    /\ thread' = [thread EXCEPT ![s] = Free]
    /\ queue' = Deferred(d)
    /\ replay' = [replay EXCEPT ![d] = NextRow(d)]
    /\ UNCHANGED <<events, entries, taps, enqueued, live, lock, faults, history>>

RowLost(d, s) ==
    /\ Fault
    /\ thread[s].caller = <<d, "replay">>
    /\ thread' = [thread EXCEPT ![s] = HangUp(s)]
    /\ queue' = Deferred(d)
    /\ replay' = [replay EXCEPT ![d] = NextRow(d)]
    /\ unsure' = [unsure EXCEPT ![Row(d).tap] = @ + 1]
    /\ UNCHANGED <<events, entries, taps, enqueued, live, lock, settled, forgotten>>

RowOffline(d) ==
    /\ Fault
    /\ AtRow(d)
    /\ ~Resting(Row(d))
    /\ queue' = Deferred(d)
    /\ replay' = [replay EXCEPT ![d] = NextRow(d)]
    /\ UNCHANGED <<serverVars, taps, enqueued, live, lock, history>>

\* Mutant: the lock is kept.
EndReplayLocked(d) ==
    /\ replay[d].step = "next"
    /\ replay[d].todo = {}
    /\ replay' = [replay EXCEPT ![d] = NoReplay]
    /\ UNCHANGED <<serverVars, taps, queue, enqueued, live, lock, faults, history>>

EndReplay(d) ==
    /\ replay[d].step = "next"
    /\ replay[d].todo = {}
    /\ replay' = [replay EXCEPT ![d] = NoReplay]
    /\ lock' = NoTab
    /\ UNCHANGED <<serverVars, taps, queue, enqueued, live, faults, history>>

\* The backoff window of a row that failed often has passed.
BackoffEnds(t) ==
    /\ queue[t].resting
    /\ queue' = [queue EXCEPT ![t].resting = FALSE]
    /\ UNCHANGED <<serverVars, taps, enqueued, live, replay, lock, faults, history>>

-----------------------------------------------------------------------------
(* The environment. *)

\* The worker reloads or closes a tab: its calls and its replay are gone, its
\* lock is free, and a tap that is not in the queue yet is not written there.
Reload(d) ==
    /\ Fault
    /\ live[d].step # "idle" \/ replay[d].step # "idle"
    /\ LET mine   == {s \in Threads : thread[s].caller # Nobody /\ thread[s].caller[1] = d}
           called == {thread[s].tap : s \in mine}
       IN  /\ thread' = [s \in Threads |-> IF s \in mine THEN HangUp(s) ELSE thread[s]]
           /\ unsure' = [t \in TapIds |-> unsure[t] + IF t \in called THEN 1 ELSE 0]
    /\ forgotten' = IF live[d].step = "idle" THEN forgotten ELSE forgotten \union {live[d].tap}
    /\ live' = [live EXCEPT ![d] = NoCall]
    /\ replay' = [replay EXCEPT ![d] = NoReplay]
    /\ lock' = IF lock = d THEN NoTab ELSE lock
    /\ UNCHANGED <<events, entries, taps, queue, enqueued, settled>>

ServerFails(s) ==
    /\ Fault
    /\ Breaks(s)
    /\ unsure' = [unsure EXCEPT ![thread[s].tap] = @ + 1]
    /\ UNCHANGED <<deviceVars, settled, forgotten>>

SessionExpired(s) ==
    /\ Fault
    /\ TurnAway(s)
    /\ UNCHANGED <<deviceVars, history>>

Void(i) ==
    /\ VoidEvent(i)
    /\ UNCHANGED <<deviceVars, faults, history>>

Handle(s) ==
    /\ ClockIn(s) \/ FindOpenIn(s) \/ ClockOut(s) \/ DraftEntry(s)
    /\ UNCHANGED <<deviceVars, faults, history>>

\* What a tab does on its own once a call is answered or a heartbeat fires.
TabStep(d) ==
    \/ Enqueue(d)
    \/ SkipRow(d)
    \/ EndReplay(d)
    \/ \E s \in Threads : SendRow(d, s) \/ RowAnswered(d, s) \/ RowFailed(d, s) \/ LiveAnswered(d, s)

ClockNext ==
    \/ \E d \in Tabs : TabStep(d) \/ StartReplay(d) \/ RowOffline(d) \/ Reload(d)
    \/ \E d \in Tabs, k \in Kinds : TapOffline(d, k) \/ \E s \in Threads : Tap(d, k, s)
    \/ \E d \in Tabs, s \in Threads : LiveLost(d, s) \/ RowLost(d, s)
    \/ \E s \in Threads : Handle(s) \/ ServerFails(s) \/ SessionExpired(s)
    \/ \E i \in DOMAIN events : Void(i)
    \/ \E t \in DOMAIN queue : BackoffEnds(t)

ClockSpec == ClockInit /\ [][ClockNext]_clockVars

\* Handlers return, tabs go on with what they began, some open tab's heartbeat
\* starts a replay, and backoff windows pass.
Fairness ==
    /\ \A s \in Threads : WF_clockVars(Handle(s))
    /\ \A d \in Tabs : WF_clockVars(TabStep(d))
    /\ WF_clockVars(\E d \in Tabs : StartReplay(d))
    /\ \A t \in TapIds : WF_clockVars(t \in DOMAIN queue /\ BackoffEnds(t))

FairClockSpec == ClockSpec /\ Fairness

-----------------------------------------------------------------------------
(* Properties. *)

ClockTypeOK ==
    /\ ServerTypeOK
    /\ taps \in Seq(Kinds)
    /\ DOMAIN queue \subseteq 1..Len(taps)
    /\ \A t \in DOMAIN queue : queue[t] \in [at : 1..enqueued, attempts : 0..MaxFaults, resting : BOOLEAN]
    /\ lock \in Tabs \union {NoTab}
    /\ \A d \in Tabs : live[d].step \in {"idle", "waiting", "queueing"}
    /\ \A d \in Tabs : replay[d].step \in {"idle", "next", "waiting"}

\* No tap is dropped silently: it is being called, it is queued, its outcome
\* reached the app, or its tab was reloaded before the app could queue it.
TapsAreKept ==
    \A t \in 1..Len(taps) :
        \/ \E d \in Tabs : live[d].tap = t
        \/ t \in DOMAIN queue
        \/ t \in settled \union forgotten

\* A tap is recorded twice only for a call that arrived and whose outcome the
\* device did not learn: the Web Lock keeps two tabs from sending one row.
CopiesAreExplained ==
    \A t \in 1..Len(taps) :
        Cardinality({i \in DOMAIN events : events[i].tap = t}) <= 1 + unsure[t]

\* A labor entry pays a clock-in up to a later clock-out, each clock-out once;
\* and every clock-out is paid, but for one whose shift has no project, no
\* worker or no hours below 24 (clock.ts:578-583), one that its request is
\* still at work on, and one of a tap with a call whose outcome the device did
\* not learn: its request may have broken between the two transactions.
OutsArePaid ==
    /\ \A e \in entries :
          /\ e.in < e.out /\ events[e.in].kind = "in" /\ events[e.out].kind = "out"
          /\ events[e.out].drafts
          /\ \A f \in entries : f.out = e.out => f = e
    /\ \A i \in DOMAIN events : events[i].drafts =>
          \/ \E e \in entries : e.out = i
          \/ \E s \in Threads : thread[s].step = "closed" /\ thread[s].out = i
          \/ unsure[events[i].tap] > 0

\* Once the failures stop, every queued tap leaves the queue.
QueueDrains == \A t \in TapIds : t \in DOMAIN queue ~> t \notin DOMAIN queue

\* The replay applies the rows in order (queue.ts:6-8) except that it does not
\* wait for a row it had to defer: a row leaves before an older one only when
\* the older one has been tried in vain.
OvertakenWereDeferred ==
    [][\A t, u \in DOMAIN queue :
          queue[t].at < queue[u].at /\ u \notin DOMAIN queue' /\ t \in DOMAIN queue'
             => queue[t].attempts > 0]_clockVars
=============================================================================
