------------------------------ MODULE ClockServer ------------------------------
(***************************************************************************)
(* The time clock's API (apps/api/src/routes/clock.ts) as one worker of    *)
(* one company uses it: clock-ins, clock-outs and voids.  A request is     *)
(* handled by a thread.  A clock-in is one insert and asks nothing of the  *)
(* worker's earlier events.  A clock-out reads the worker's latest event   *)
(* without a lock, inserts its own event in one transaction and the draft  *)
(* labor entry in a second one.                                            *)
(*                                                                         *)
(* Abstractions: an event's place in "events" stands for its occurred_at,  *)
(* which the handler takes just before the insert.  A clock-out drafts an  *)
(* entry only of a shift at a project, by a known worker, longer than      *)
(* nothing and shorter than 24 hours; whether a shift is one is as the     *)
(* environment likes, as is whether the correction window of a void is     *)
(* open.  auto_out_geo and auto_out_idle are clock-outs.                   *)
(***************************************************************************)
EXTENDS Naturals, Sequences, FiniteSets, SequencesExt

CONSTANTS
    MaxThreads, \* bound: requests the API handles at once
    MaxVoids,   \* bound: voided events
    Nobody      \* the caller of a request whose client has gone

ASSUME ServerBounds == MaxThreads \in Nat /\ MaxVoids \in Nat

VARIABLES
    events,     \* clock_events of the worker, by occurred_at
    entries,    \* labor_entries drafted from them
    thread      \* the request each thread handles

serverVars == <<events, entries, thread>>

Threads == 1..MaxThreads
Kinds == {"in", "out"}
Running == {"got", "read", "closed"}
Outcomes == {"ok", "refused", "failed"}

Free == [step |-> "free", kind |-> "in", tap |-> 0, caller |-> Nobody, open |-> 0, out |-> 0]

ServerInit ==
    /\ events = <<>>
    /\ entries = {}
    /\ thread = [s \in Threads |-> Free]

\* Mutant: the latest event, whatever its type.
OpenInOfAnyType ==
    LET counted == {i \in DOMAIN events : ~events[i].voided}
    IN  IF counted # {} THEN Max(counted) ELSE 0

\* The worker's latest event that is not voided, if it is a clock-in; else 0.
OpenIn ==
    LET counted == {i \in DOMAIN events : ~events[i].voided}
        latest  == Max(counted)
    IN  IF counted # {} /\ events[latest].kind = "in" THEN latest ELSE 0

\* Mutant: a thread answers whether or not someone waits.
AnsweredAnyway(s, answer) == [thread[s] EXCEPT !.step = answer]

\* A thread answers its caller, or is free again when nobody waits.
Answered(s, answer) ==
    IF thread[s].caller = Nobody THEN Free ELSE [thread[s] EXCEPT !.step = answer]

\* A request arrives; threads are alike, so the first free one takes it.
Arrive(s, t, k, caller) ==
    /\ thread[s] = Free
    /\ \A r \in 1..(s - 1) : thread[r] # Free
    /\ thread' = [thread EXCEPT ![s] = [Free EXCEPT !.step = "got", !.kind = k, !.tap = t, !.caller = caller]]
    /\ UNCHANGED <<events, entries>>

\* drafts: the event is a clock-out whose shift is to be paid.
Insert(s, drafts) ==
    Append(events, [kind |-> thread[s].kind, tap |-> thread[s].tap, voided |-> FALSE, drafts |-> drafts])

\* POST /api/clock/in: a new event, whatever the worker's latest one is.
ClockIn(s) ==
    /\ thread[s].step = "got"
    /\ thread[s].kind = "in"
    /\ events' = Insert(s, FALSE)
    /\ thread' = [thread EXCEPT ![s] = Answered(s, "ok")]
    /\ UNCHANGED entries

\* POST /api/clock/out, the unlocked read: 409 unless a clock-in is open.
FindOpenIn(s) ==
    /\ thread[s].step = "got"
    /\ thread[s].kind = "out"
    /\ thread' = [thread EXCEPT ![s] =
                    IF OpenIn = 0 THEN Answered(s, "refused")
                    ELSE [thread[s] EXCEPT !.step = "read", !.open = OpenIn]]
    /\ UNCHANGED <<events, entries>>

\* The first transaction: the clock-out event.
ClockOut(s) ==
    /\ thread[s].step = "read"
    /\ \E drafts \in BOOLEAN : events' = Insert(s, drafts)
    /\ thread' = [thread EXCEPT ![s] = [thread[s] EXCEPT !.step = "closed", !.out = Len(events')]]
    /\ UNCHANGED entries

\* The second transaction, if the shift has a project, a worker and hours: the
\* draft labor entry of the shift that was read.
DraftEntry(s) ==
    /\ thread[s].step = "closed"
    /\ entries' = IF events[thread[s].out].drafts
                  THEN entries \union {[in |-> thread[s].open, out |-> thread[s].out]}
                  ELSE entries
    /\ thread' = [thread EXCEPT ![s] = Answered(s, "ok")]
    /\ UNCHANGED events

\* The handler throws, or the API restarts: the caller gets a 5xx answer.
Breaks(s) ==
    /\ thread[s].step \in Running
    /\ thread' = [thread EXCEPT ![s] = Answered(s, "failed")]
    /\ UNCHANGED <<events, entries>>

\* The call is turned away before it is handled: 401 or 403.
TurnAway(s) ==
    /\ thread[s].step = "got"
    /\ thread' = [thread EXCEPT ![s] = Answered(s, "refused")]
    /\ UNCHANGED <<events, entries>>

\* POST /api/clock/events/:id/void.  The drafted labor entry stays.
VoidEvent(i) ==
    /\ ~events[i].voided
    /\ Cardinality({j \in DOMAIN events : events[j].voided}) < MaxVoids
    /\ events' = [events EXCEPT ![i].voided = TRUE]
    /\ UNCHANGED <<entries, thread>>

\* The caller stops waiting; the request runs on, or its answer is lost.
HangUp(s) ==
    IF thread[s].step \in Running THEN [thread[s] EXCEPT !.caller = Nobody] ELSE Free

ServerTypeOK ==
    /\ events \in Seq([kind : Kinds, tap : Nat, voided : BOOLEAN, drafts : BOOLEAN])
    /\ entries \subseteq [in : DOMAIN events, out : DOMAIN events]
    /\ \A s \in Threads :
          /\ thread[s].step \in {"free"} \union Running \union Outcomes
          /\ thread[s].step \in Outcomes => thread[s].caller # Nobody
          /\ thread[s].step \in {"read", "closed"} => thread[s].open \in DOMAIN events
          /\ thread[s].step = "closed" => thread[s].out \in DOMAIN events
=============================================================================
