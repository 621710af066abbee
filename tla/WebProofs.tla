------------------------------ MODULE WebProofs ------------------------------
(***************************************************************************)
(* The two machines of the browser.                                        *)
(*                                                                         *)
(* A workflow's screen: whatever the workflows' tables, the number of      *)
(* screens and the bounds, the event log has one entry per version; where  *)
(* only the reducer moves the row it replays into the row, and where no    *)
(* handler overwrites the state an event a user chose is only applied to   *)
(* the state that user was shown.  The invariant that carries these says   *)
(* that every snapshot a screen, a request or an answer holds is a point   *)
(* of the log.  With the tables of the registered workflows, what a        *)
(* snapshot offers is what the reducer accepts in its state.               *)
(*                                                                         *)
(* The time clock: whatever the number of tabs, taps, failures and threads *)
(* of the API, no tap is dropped, copies of a tap are explained, every     *)
(* clock-out is paid or accounted for, and rows are overtaken only after   *)
(* they were tried.  The invariant that carries the second counts, for     *)
(* each tap, the events it has, the requests that may still insert one and *)
(* the chance that it is sent again: together they never exceed one more   *)
(* than the calls of it whose outcome is unknown.                          *)
(***************************************************************************)
EXTENDS WorkflowDispatch, WorkflowTables, OfflineClock, FiniteSetTheorems, SequenceTheorems, WellFoundedInduction, TLAPS

(* ----------------------- a workflow's screen --------------------------- *)

\* One entry per version; the last is what the row holds, unless overwritten.
History ==
  /\ LogReplays
  /\ Aside = {} => row = At(Len(log) + 1)

\* A snapshot is the row as it was at the snapshot's version.
Past(snapshot) ==
  /\ snapshot.version \in 1..row.version
  /\ Aside = {} => snapshot.state = At(snapshot.version).state

ScreensShowThePast ==
  \A s \in Screens : screen[s].snapshot # Nothing => Past(screen[s].snapshot)

AnswersHoldThePast == \A a \in answers : Past(a.snapshot)

RequestsSawThePast ==
  \A r \in requests :
    /\ r.version \in 1..row.version
    /\ r.version < MaxVersion
    /\ Aside = {} => r.saw = At(r.version).state

IInv ==
  /\ TypeOK
  /\ History
  /\ ActedOnWhatWasShown
  /\ ScreensShowThePast
  /\ AnswersHoldThePast
  /\ RequestsSawThePast

\* What a step that moves the row, or leaves it, leaves true of the past.
PastStays ==
  \A n \in 1..row.version : n \in 1..row'.version /\ At(n)' = At(n)

(***************************************************************************)
(* An event's target and the initial state are states.                     *)
(***************************************************************************)
LEMMA TargetsAreStates ==
  /\ \A e \in DOMAIN Steps : Steps[e].to \in States
  /\ table.init \in States
BY DEF States

(***************************************************************************)
(* While the workflow stays, so does everything read off its table.        *)
(***************************************************************************)
LEMMA TableStays ==
  ASSUME UNCHANGED workflow
  PROVE  /\ Steps' = Steps /\ States' = States
         /\ Snapshots' = Snapshots /\ LogRows' = LogRows
         /\ Machines' = Machines /\ Requests' = Requests /\ Answers' = Answers
         /\ Aside' = Aside /\ (Rebuilt' <=> Rebuilt) /\ (Reduced' <=> Reduced)
<1>1. table' = table
  BY DEF table
<1>2. Steps' = Steps
  BY <1>1 DEF Steps
<1>3. States' = States
  BY <1>1, <1>2 DEF States
<1>4. Snapshots' = Snapshots
  BY <1>3 DEF Snapshots
<1>5. Aside' = Aside /\ (Rebuilt' <=> Rebuilt)
  BY <1>1 DEF Aside, Rebuilt
<1> QED
  BY <1>2, <1>3, <1>4, <1>5 DEF LogRows, Machines, Requests, Answers, Reduced

(***************************************************************************)
(* Writing the row and the entries of its versions in one transaction      *)
(* extends the history, and changes nothing of what came before.           *)
(***************************************************************************)
LEMMA LogExtends ==
  ASSUME TypeOK, History, ActedOnWhatWasShown, UNCHANGED workflow,
         NEW added \in Seq(LogRows), added # <<>>,
         log' = log \o added,
         row' \in Snapshots, row' = added[Len(added)].after,
         \A k \in 1..Len(added) :
           /\ added[k].version = row.version + k - 1
           /\ added[k].after.version = row.version + k
           /\ added[k].click # Nothing => k = 1 /\ (Aside = {} => added[k].saw = row.state),
         Reduced => /\ Len(added) = 1
                    /\ Legal(added[1].event, row.state)
                    /\ added[1].after = Reduce(row, added[1].event)
  PROVE  /\ log' \in Seq(LogRows)
         /\ History' /\ ActedOnWhatWasShown' /\ PastStays
         /\ Past(row)'
<1> DEFINE old == Len(log)
           more == Len(added)
<1>1. /\ row.version \in Nat \ {0} /\ log \in Seq(LogRows) /\ DOMAIN log = 1..old
      /\ old \in Nat /\ row.version = old + 1
  BY BoundsAssumption DEF TypeOK, Snapshots, Versions, History, LogReplays
<1>2. more \in Nat \ {0} /\ DOMAIN added = 1..more
  BY EmptySeq
<1>3. /\ log' \in Seq(LogRows) /\ Len(log') = old + more /\ DOMAIN log' = 1..(old + more)
      /\ \A n \in 1..old : log'[n] = log[n]
      /\ \A n \in (old + 1)..(old + more) : log'[n] = added[n - old]
  BY <1>1, <1>2
<1> HIDE DEF old, more
<1>4. \A n \in 1..row.version : At(n)' = At(n)
  BY <1>1, <1>3 DEF At, Initial
<1>5. row'.version = old + more + 1
  <2>1. row'.version = row.version + more
    BY <1>2 DEF more
  <2> QED
    BY <2>1, <1>1, <1>2
<1>6. \A n : n = old + more + 1 => At(n)' = row'
  <2>1. log'[old + more].after = row'
    BY <1>1, <1>2, <1>3 DEF more
  <2> QED
    BY <2>1, <1>1, <1>2 DEF At
<1>7. /\ Aside' = Aside /\ (Reduced' <=> Reduced) /\ Steps' = Steps
  BY TableStays
<1>8. PastStays
  BY <1>1, <1>2, <1>4, <1>5 DEF PastStays
<1>9. \A n \in DOMAIN log' : log'[n].version = n /\ log'[n].after.version = n + 1
  <2>1. ASSUME NEW n \in 1..old
        PROVE  log'[n].version = n /\ log'[n].after.version = n + 1
    BY <1>1, <1>3 DEF History, LogReplays
  <2>2. ASSUME NEW n \in (old + 1)..(old + more)
        PROVE  log'[n].version = n /\ log'[n].after.version = n + 1
    <3>1. n - old \in 1..more /\ log'[n] = added[n - old]
      BY <1>1, <1>2, <1>3
    <3>2. row.version + (n - old) = n + 1
      BY <1>1
    <3> QED
      BY <3>1, <3>2, <1>1 DEF more
  <2>3. \A n \in 1..(old + more) : n \in 1..old \/ n \in (old + 1)..(old + more)
    BY <1>1, <1>2
  <2> QED
    BY <2>1, <2>2, <2>3, <1>3
<1>10. ASSUME Reduced
       PROVE  \A n \in DOMAIN log' : /\ Legal(log'[n].event, At(n)'.state)
                                     /\ log'[n].after = Reduce(At(n)', log'[n].event)
  <2>1. row = At(row.version) /\ more = 1
    BY <1>1, <1>10 DEF History, LogReplays, more, old
  <2>2. ASSUME NEW n \in 1..old
        PROVE  /\ Legal(log'[n].event, At(n)'.state)
               /\ log'[n].after = Reduce(At(n)', log'[n].event)
    <3>1. log'[n] = log[n] /\ At(n)' = At(n) /\ n \in DOMAIN log
      BY <1>1, <1>3, <1>4
    <3>2. Legal(log[n].event, At(n).state) /\ log[n].after = Reduce(At(n), log[n].event)
      BY <3>1, <1>10 DEF History, LogReplays
    <3> QED
      BY <3>1, <3>2
  <2>3. ASSUME NEW n, n = old + 1
        PROVE  /\ Legal(log'[n].event, At(n)'.state)
               /\ log'[n].after = Reduce(At(n)', log'[n].event)
    <3>1. log'[n] = added[1]
      BY <2>1, <2>3, <1>1, <1>3
    <3>2. At(n)' = row
      BY <2>1, <2>3, <1>1, <1>4
    <3> QED
      BY <3>1, <3>2, <1>10
  <2>4. \A n \in DOMAIN log' : n \in 1..old \/ n = old + 1
    BY <2>1, <1>1, <1>3
  <2>5. ASSUME NEW n \in DOMAIN log'
        PROVE  /\ Legal(log'[n].event, At(n)'.state)
               /\ log'[n].after = Reduce(At(n)', log'[n].event)
    <3>1. CASE n \in 1..old
      BY <3>1, <2>2
    <3>2. CASE n = old + 1
      BY <3>2, <2>3
    <3> QED
      BY <3>1, <3>2, <2>4
  <2> QED
    BY <2>5
<1>11. LogReplays'
  <2>1. row'.version = Len(log') + 1
    BY <1>3, <1>5
  <2>2. ASSUME Reduced'
        PROVE  /\ \A n \in DOMAIN log' : /\ Legal(log[n].event, At(n).state)'
                                         /\ (log[n].after = Reduce(At(n), log[n].event))'
               /\ (row = At(Len(log) + 1))'
    <3>1. \A n : n = Len(log') + 1 => row' = At(n)'
      BY <1>3, <1>6
    <3>2. (row = At(Len(log) + 1))'
      BY <3>1 DEF At
    <3> QED
      BY <2>2, <1>7, <1>10, <3>2 DEF Legal, Reduce
  <2> QED
    BY <2>1, <2>2, <1>9 DEF LogReplays
<1>12. History'
  <2>1. \A n : n = Len(log') + 1 => row' = At(n)'
    BY <1>3, <1>6
  <2>2. (row = At(Len(log) + 1))'
    BY <2>1 DEF At
  <2> QED
    BY <2>2, <1>11 DEF History
<1>13. ActedOnWhatWasShown'
  <2>1. ASSUME Aside = {}, NEW n \in 1..(old + more), log'[n].click # Nothing
        PROVE  log'[n].saw = At(n)'.state
    <3>1. CASE n \in 1..old
      <4>1. log'[n] = log[n] /\ At(n)' = At(n) /\ n \in DOMAIN log
        BY <3>1, <1>1, <1>3, <1>4
      <4> QED
        BY <2>1, <4>1 DEF ActedOnWhatWasShown
    <3>2. CASE n \in (old + 1)..(old + more)
      <4>1. log'[n] = added[n - old] /\ n - old \in 1..more
        BY <3>2, <1>1, <1>2, <1>3
      <4>2. n - old = 1 /\ log'[n].saw = row.state
        BY <2>1, <4>1 DEF more
      <4>3. row = At(row.version)
        BY <2>1, <1>1 DEF History, old
      <4> QED
        BY <4>2, <4>3, <1>1, <1>4
    <3> QED
      BY <3>1, <3>2, <1>1, <1>2
  <2> QED
    BY <2>1, <1>3, <1>7 DEF ActedOnWhatWasShown
<1>14. Past(row)'
  <2>1. \A n : n = row'.version => row' = At(n)'
    BY <1>5, <1>6
  <2>2. row'.version \in 1..row'.version
    BY <1>1, <1>2, <1>5
  <2> QED
    BY <2>1, <2>2 DEF Past, At
<1> QED
  BY <1>3, <1>8, <1>12, <1>13, <1>14

(***************************************************************************)
(* One event of the reducer, and its entry.                                *)
(***************************************************************************)
LEMMA PersistExtends ==
  ASSUME TypeOK, History, ActedOnWhatWasShown, UNCHANGED workflow,
         row.version < MaxVersion,
         NEW event \in DOMAIN Steps, Legal(event, row.state),
         NEW click \in Clicks \cup {Nothing},
         NEW saw \in States \cup {Nothing},
         click # Nothing /\ Aside = {} => saw = row.state,
         Persist(event, click, saw)
  PROVE  /\ row' \in Snapshots /\ log' \in Seq(LogRows)
         /\ History' /\ ActedOnWhatWasShown' /\ PastStays
         /\ Past(row)'
<1> DEFINE entry == [ version |-> row.version, event |-> event, after |-> Reduce(row, event),
                      click   |-> click,       saw   |-> saw ]
           added == <<entry>>
<1>1. MaxVersion \in Nat /\ row.version \in Nat \ {0}
  BY BoundsAssumption DEF TypeOK, Snapshots, Versions
<1>2. Reduce(row, event) \in Snapshots /\ Reduce(row, event).version = row.version + 1
  BY <1>1, TargetsAreStates DEF Reduce, Snapshots, Versions
<1>3. entry \in LogRows
  BY <1>2, <1>1 DEF LogRows, TypeOK, Snapshots
<1>4. log \in Seq(LogRows) /\ DOMAIN log = 1..Len(log) /\ Len(log) = row.version - 1
  BY <1>1 DEF TypeOK, History, LogReplays
<1>5. ~Recorded(row.version)
  BY <1>1, <1>4 DEF Recorded, History, LogReplays
<1>6. row' = Reduce(row, event) /\ log' = Append(log, entry)
  BY <1>5 DEF Persist
<1>7. /\ entry.version = row.version /\ entry.after = Reduce(row, event) /\ entry.event = event
      /\ entry.click = click /\ entry.saw = saw
  OBVIOUS
<1> HIDE DEF entry
<1>8. /\ added \in Seq(LogRows) /\ added # <<>> /\ Len(added) = 1 /\ added[1] = entry
      /\ log' = log \o added
  BY <1>3, <1>4, <1>6, AppendIsConcat
<1> HIDE DEF added
<1>9. /\ row' \in Snapshots /\ row' = added[Len(added)].after
  BY <1>2, <1>6, <1>7, <1>8
<1>10. \A k \in 1..Len(added) :
         /\ added[k].version = row.version + k - 1
         /\ added[k].after.version = row.version + k
         /\ added[k].click # Nothing => k = 1 /\ (Aside = {} => added[k].saw = row.state)
  BY <1>1, <1>2, <1>7, <1>8
<1>11. /\ Len(added) = 1 /\ Legal(added[1].event, row.state)
       /\ added[1].after = Reduce(row, added[1].event)
  BY <1>7, <1>8
<1> QED
  BY <1>8, <1>9, <1>10, <1>11, LogExtends

(***************************************************************************)
(* A step that leaves the row and its log alone leaves the past alone.     *)
(***************************************************************************)
LEMMA ServerUnchangedKeeps ==
  ASSUME TypeOK, History, ActedOnWhatWasShown, ServerUnchanged
  PROVE  /\ row' \in Snapshots' /\ log' \in Seq(LogRows')
         /\ workflow' \in DOMAIN Tables
         /\ History' /\ ActedOnWhatWasShown' /\ PastStays /\ Past(row)'
<1>1. UNCHANGED <<workflow, row, log>>
  BY DEF ServerUnchanged
<1>2. Steps' = Steps /\ Snapshots' = Snapshots /\ LogRows' = LogRows
  BY <1>1, TableStays
<1>3. \A n : At(n)' = At(n)
  BY <1>1 DEF At, Initial
<1>4. LogReplays' /\ History'
  <2>1. Aside' = Aside /\ (Reduced' <=> Reduced)
    BY <1>1, TableStays
  <2>2. LogReplays'
    BY <1>1, <1>2, <1>3, <2>1 DEF History, LogReplays, Legal, Reduce, At, Initial
  <2> QED
    BY <2>1, <2>2, <1>1 DEF History, At, Initial
<1>5. ActedOnWhatWasShown'
  BY <1>1, <1>3, TableStays DEF ActedOnWhatWasShown
<1>6. PastStays
  BY <1>1, <1>3 DEF PastStays
<1>7. Past(row)'
  <2>1. row.version \in Nat \ {0} /\ Len(log) + 1 = row.version
    BY BoundsAssumption DEF TypeOK, Snapshots, Versions, History, LogReplays
  <2>2. Aside = {} => row = At(row.version)
    BY <2>1 DEF History
  <2>3. Past(row)
    BY <2>1, <2>2 DEF Past
  <2> QED
    BY <2>3, <1>1, TableStays DEF Past, At, Initial
<1> QED
  BY <1>1, <1>2, <1>4, <1>5, <1>6, <1>7 DEF TypeOK

(***************************************************************************)
(* What was a point of the history still is one.                           *)
(***************************************************************************)
LEMMA PastRemains ==
  ASSUME PastStays, UNCHANGED workflow, NEW snapshot, Past(snapshot)
  PROVE  /\ snapshot.version \in 1..row'.version
         /\ Aside' = {} => \A n : n = snapshot.version => snapshot.state = At(n)'.state
BY TableStays DEF PastStays, Past

(***************************************************************************)
(* The screens' part of the invariant, when each tab's snapshot stays, is  *)
(* dropped, or is a point of the history.                                  *)
(***************************************************************************)
LEMMA ScreensKeep ==
  ASSUME ScreensShowThePast, PastStays, UNCHANGED workflow,
         \A s \in Screens :
           \/ screen'[s].snapshot = screen[s].snapshot
           \/ screen'[s].snapshot = Nothing
           \/ Past(screen[s].snapshot)'
  PROVE  ScreensShowThePast'
<1> SUFFICES ASSUME NEW s \in Screens, screen'[s].snapshot # Nothing
             PROVE  Past(screen[s].snapshot)'
  BY DEF ScreensShowThePast
<1>1. CASE screen'[s].snapshot = screen[s].snapshot
  <2>1. Past(screen[s].snapshot)
    BY <1>1 DEF ScreensShowThePast
  <2> QED
    BY <1>1, <2>1, PastRemains DEF Past, At
<1> QED
  BY <1>1

LEMMA AnswersKeep ==
  ASSUME AnswersHoldThePast, PastStays, UNCHANGED workflow,
         \A a \in answers' : a \in answers \/ (a.snapshot = row' /\ Past(row)')
  PROVE  AnswersHoldThePast'
<1> SUFFICES ASSUME NEW a \in answers'
             PROVE  /\ a.snapshot.version \in 1..row'.version
                    /\ Aside' = {} =>
                         \A n : n = a.snapshot.version => a.snapshot.state = At(n)'.state
  BY DEF AnswersHoldThePast, Past, At
<1>1. CASE a \in answers
  BY <1>1, PastRemains DEF AnswersHoldThePast
<1>2. CASE a.snapshot = row' /\ Past(row)'
  BY <1>2 DEF Past, At
<1> QED
  BY <1>1, <1>2

LEMMA RequestsKeep ==
  ASSUME RequestsSawThePast, PastStays, UNCHANGED workflow,
         \A r \in requests' :
           \/ r \in requests
           \/ /\ r.version \in 1..row.version /\ r.version < MaxVersion
              /\ Aside = {} => r.saw = At(r.version).state
  PROVE  RequestsSawThePast'
<1> SUFFICES ASSUME NEW r \in requests'
             PROVE  /\ r.version \in 1..row'.version /\ r.version < MaxVersion
                    /\ Aside' = {} => \A n : n = r.version => r.saw = At(n)'.state
  BY DEF RequestsSawThePast, At
<1>1. /\ r.version \in 1..row.version /\ r.version < MaxVersion
      /\ Aside = {} => r.saw = At(r.version).state
  BY DEF RequestsSawThePast
<1> QED
  BY <1>1, TableStays DEF PastStays

(***************************************************************************)
(* The tables are read off a workflow's name, which never changes.         *)
(***************************************************************************)
LEMMA InitIInv == Init => IInv
<1> SUFFICES ASSUME Init PROVE IInv
  OBVIOUS
<1> USE DEF Init
<1>1. 1 \in Versions /\ 0 \in 0..MaxClicks
  BY BoundsAssumption DEF Versions
<1>2. row \in Snapshots
  BY <1>1, TargetsAreStates DEF Initial, Snapshots, table
<1>3. TypeOK
  BY <1>1, <1>2 DEF TypeOK, Fresh, Machines
<1>4. row.version = 1 /\ row = At(1)
  BY DEF Initial, At
<1>5. History
  BY <1>4 DEF History, LogReplays
<1> QED
  BY <1>3, <1>5 DEF IInv, ActedOnWhatWasShown, ScreensShowThePast, AnswersHoldThePast,
                    RequestsSawThePast, Fresh

LEMMA DispatchKeeps ==
  ASSUME IInv, NEW r \in requests, Dispatch(r)
  PROVE  IInv'
<1>1. /\ r \in Requests /\ r.version \in 1..row.version /\ r.version < MaxVersion
      /\ Aside = {} => r.saw = At(r.version).state
  BY DEF IInv, TypeOK, RequestsSawThePast
<1>2. UNCHANGED <<workflow, screen>> /\ requests' \subseteq requests
  BY DEF Dispatch
<1>3. /\ Snapshots' = Snapshots /\ LogRows' = LogRows
      /\ Machines' = Machines /\ Requests' = Requests /\ Answers' = Answers
  BY <1>2, TableStays
<1>4. TypeOK /\ History /\ ActedOnWhatWasShown
  BY DEF IInv
<1>5. /\ row' \in Snapshots /\ log' \in Seq(LogRows)
      /\ History' /\ ActedOnWhatWasShown' /\ PastStays /\ Past(row)'
  <2>1. CASE Verdict(r) = "ok"
    <3>1. r.version = row.version /\ Legal(r.event, row.state)
      BY <2>1 DEF Verdict, Stale
    <3>2. Aside = {} => row = At(row.version)
      BY <1>4, BoundsAssumption DEF History, LogReplays, TypeOK, Snapshots, Versions
    <3>3. Aside = {} => r.saw = row.state
      BY <1>1, <3>1, <3>2
    <3>4. Persist(r.event, r.click, r.saw)
      BY <2>1 DEF Dispatch
    <3>5. r.event \in DOMAIN Steps /\ r.click \in Clicks /\ r.saw \in States
      BY <1>1 DEF Requests
    <3> QED
      BY <1>1, <1>2, <1>4, <3>1, <3>3, <3>4, <3>5, PersistExtends
  <2>2. CASE Verdict(r) # "ok"
    <3>1. ServerUnchanged
      BY <2>2, <1>2 DEF Dispatch, ServerUnchanged
    <3> QED
      BY <1>3, <1>4, <3>1, ServerUnchangedKeeps
  <2> QED
    BY <2>1, <2>2
<1>6. \A a \in answers' : a \in answers \/ (a.snapshot = row' /\ Past(row)')
  BY <1>5 DEF Dispatch
<1>7. answers' \subseteq Answers
  <2>1. Verdict(r) \in {"ok", "version_conflict", "illegal_transition"}
    BY DEF Verdict
  <2>2. r.click \in Clicks
    BY <1>1 DEF Requests
  <2>3. [click |-> r.click, kind |-> Verdict(r), snapshot |-> row'] \in Answers
    BY <1>5, <2>1, <2>2 DEF Answers
  <2> QED
    BY <1>4, <2>3 DEF Dispatch, TypeOK
<1>8. TypeOK'
  BY <1>2, <1>3, <1>4, <1>5, <1>7 DEF TypeOK
<1>9. ScreensShowThePast'
  BY <1>2, <1>5, ScreensKeep DEF IInv
<1>10. AnswersHoldThePast'
  BY <1>2, <1>5, <1>6, AnswersKeep DEF IInv
<1>11. RequestsSawThePast'
  BY <1>2, <1>5, RequestsKeep DEF IInv
<1> QED
  BY <1>5, <1>8, <1>9, <1>10, <1>11 DEF IInv

(***************************************************************************)
(* A step of the server alone, that extends the history or leaves it.      *)
(***************************************************************************)
LEMMA ServerStepKeeps ==
  ASSUME IInv, UNCHANGED <<workflow, screen, requests, answers>>,
         row' \in Snapshots, log' \in Seq(LogRows),
         History', ActedOnWhatWasShown', PastStays
  PROVE  IInv'
<1>1. UNCHANGED <<workflow, screen, requests, answers>>
  OBVIOUS
<1>2. TypeOK
  BY DEF IInv
<1>3. /\ row' \in Snapshots /\ log' \in Seq(LogRows)
      /\ History' /\ ActedOnWhatWasShown' /\ PastStays
  OBVIOUS
<1>4. /\ Snapshots' = Snapshots /\ LogRows' = LogRows
      /\ Machines' = Machines /\ Requests' = Requests /\ Answers' = Answers
  BY <1>1, TableStays
<1>5. TypeOK'
  BY <1>1, <1>2, <1>3, <1>4 DEF TypeOK
<1>6. ScreensShowThePast'
  BY <1>1, <1>3, ScreensKeep DEF IInv
<1>7. AnswersHoldThePast'
  BY <1>1, <1>3, AnswersKeep DEF IInv
<1>8. RequestsSawThePast'
  BY <1>1, <1>3, RequestsKeep DEF IInv
<1> QED
  BY <1>3, <1>5, <1>6, <1>7, <1>8 DEF IInv

\* What the worker, an old endpoint and a prompt user have in common.
LEMMA RaisedKeeps ==
  ASSUME IInv, NEW event \in DOMAIN Steps, Unasked(event) \/ Promptly(event)
  PROVE  IInv'
<1>1. /\ row.version < MaxVersion /\ Legal(event, row.state)
      /\ Persist(event, Nothing, Nothing)
      /\ UNCHANGED <<workflow, screen, requests, answers>>
  BY DEF Unasked, Promptly
<1>2. TypeOK /\ History /\ ActedOnWhatWasShown
  BY DEF IInv
<1>3. /\ row' \in Snapshots /\ log' \in Seq(LogRows)
      /\ History' /\ ActedOnWhatWasShown' /\ PastStays
  BY <1>1, <1>2, PersistExtends
<1> QED
  BY <1>1, <1>3, ServerStepKeeps

\* A chain of the notification worker: one entry per event, from row.version on.
LEMMA DrainKeeps ==
  ASSUME IInv, NEW chain \in Drains(row.state), Drain(chain)
  PROVE  IInv'
<1> DEFINE Entry(k) == [ version |-> row.version + k - 1, event |-> chain[k],
                         after   |-> After(chain, k),    click |-> Nothing,
                         saw     |-> Nothing ]
           added == [k \in DOMAIN chain |-> Entry(k)]
<1>1. TypeOK /\ History /\ ActedOnWhatWasShown
  BY DEF IInv
<1>2. /\ Rebuilt /\ chain \in Seq(DOMAIN Steps) /\ chain # <<>>
  BY TablesAssumption, <1>1 DEF Drains, Rebuilt, table, Steps, TypeOK
<1>3. /\ Len(chain) \in Nat \ {0} /\ DOMAIN chain = 1..Len(chain)
      /\ \A k \in 1..Len(chain) : chain[k] \in DOMAIN Steps
  BY <1>2, EmptySeq
<1>4. /\ row.version \in Nat \ {0} /\ MaxVersion \in Nat
      /\ row.version + Len(chain) <= MaxVersion
      /\ log \in Seq(LogRows) /\ DOMAIN log = 1..Len(log) /\ Len(log) = row.version - 1
  BY BoundsAssumption, <1>1 DEF Drain, TypeOK, Snapshots, Versions, History, LogReplays
<1>5. \A k \in 1..Len(chain) : ~Recorded(row.version + k - 1)
  BY <1>1, <1>3, <1>4 DEF Recorded, History, LogReplays
<1>6. \A k \in 1..Len(chain) :
        /\ row.version + k \in Versions /\ row.version + k - 1 \in Versions
  BY <1>3, <1>4 DEF Versions
<1>7. \A k \in 1..Len(chain) :
        After(chain, k) \in Snapshots /\ After(chain, k).version = row.version + k
  BY <1>3, <1>6, TargetsAreStates DEF After, Snapshots
<1>8. \A k \in 1..Len(chain) : Entry(k) \in LogRows
  BY <1>3, <1>6, <1>7 DEF LogRows
<1>9. row' = After(chain, Len(chain)) /\ log' = log \o added
  BY <1>3, <1>5 DEF Drain
<1>10. /\ added \in Seq(LogRows) /\ Len(added) = Len(chain) /\ added # <<>>
       /\ \A k \in 1..Len(chain) : added[k] = Entry(k)
  <2>1. added \in [1..Len(chain) -> LogRows]
    BY <1>3, <1>8
  <2>2. added \in Seq(LogRows) /\ Len(added) = Len(chain)
    BY <2>1, <1>3
  <2> QED
    BY <2>2, <1>3
<1>11. \A k \in 1..Len(chain) :
         /\ Entry(k).version = row.version + k - 1 /\ Entry(k).after = After(chain, k)
         /\ Entry(k).click = Nothing
  OBVIOUS
<1> HIDE DEF added, Entry
<1>12. row' \in Snapshots /\ row' = added[Len(added)].after
  BY <1>3, <1>7, <1>9, <1>10, <1>11
<1>13. \A k \in 1..Len(added) :
         /\ added[k].version = row.version + k - 1
         /\ added[k].after.version = row.version + k
         /\ added[k].click # Nothing => k = 1 /\ (Aside = {} => added[k].saw = row.state)
  BY <1>7, <1>10, <1>11
<1>14. ~Reduced
  BY <1>2 DEF Reduced
<1>15. UNCHANGED <<workflow, screen, requests, answers>>
  BY DEF Drain
<1>16. log' \in Seq(LogRows) /\ History' /\ ActedOnWhatWasShown' /\ PastStays
  BY <1>1, <1>9, <1>10, <1>12, <1>13, <1>14, <1>15, LogExtends
<1> QED
  BY <1>12, <1>15, <1>16, ServerStepKeeps

\* An overwritten state: its version and its log stay.
LEMMA WriteAsideKeeps ==
  ASSUME IInv, NEW state \in Aside, WriteAside(state)
  PROVE  IInv'
<1>1. TypeOK /\ History /\ ActedOnWhatWasShown
  BY DEF IInv
<1>2. state \in States
  BY TablesAssumption, <1>1 DEF Aside, States, Steps, table, TypeOK
<1>3. /\ row' = [row EXCEPT !.state = state]
      /\ UNCHANGED <<workflow, log, screen, requests, answers>>
  BY DEF WriteAside
<1>4. row' \in Snapshots /\ row'.version = row.version
  BY <1>1, <1>2, <1>3 DEF TypeOK, Snapshots
<1>5. Aside # {} /\ Aside' # {} /\ ~Reduced /\ ~Reduced'
  BY <1>3, TableStays DEF Reduced
<1>6. \A n : At(n)' = At(n)
  BY <1>3 DEF At, Initial
<1>7. LogReplays'
  BY <1>1, <1>3, <1>4, <1>5 DEF History, LogReplays
<1>8. History' /\ ActedOnWhatWasShown'
  BY <1>5, <1>7 DEF History, ActedOnWhatWasShown
<1>9. PastStays
  BY <1>4, <1>6 DEF PastStays
<1>10. log' \in Seq(LogRows)
  BY <1>1, <1>3 DEF TypeOK
<1> QED
  BY <1>3, <1>4, <1>8, <1>9, <1>10, ServerStepKeeps

(***************************************************************************)
(* A tab's step: the server's state stays, and what the tab and the        *)
(* network hold afterwards comes from the history.                         *)
(***************************************************************************)
LEMMA TabKeeps ==
  ASSUME IInv, ServerUnchanged,
         screen' \in [Screens -> Machines],
         answers' \subseteq answers,
         requests' \subseteq Requests,
         \A t \in Screens :
           \/ screen'[t].snapshot = screen[t].snapshot
           \/ screen'[t].snapshot = Nothing
           \/ Past(screen[t].snapshot)',
         \A r \in requests' :
           \/ r \in requests
           \/ /\ r.version \in 1..row.version /\ r.version < MaxVersion
              /\ Aside = {} => r.saw = At(r.version).state
  PROVE  IInv'
<1>1. TypeOK /\ History /\ ActedOnWhatWasShown
  BY DEF IInv
<1>2. /\ row' \in Snapshots' /\ log' \in Seq(LogRows') /\ workflow' \in DOMAIN Tables
      /\ History' /\ ActedOnWhatWasShown' /\ PastStays /\ Past(row)'
  BY <1>1, ServerUnchangedKeeps
<1>3. /\ Machines' = Machines /\ Requests' = Requests /\ Answers' = Answers
      /\ UNCHANGED workflow
  BY TableStays DEF ServerUnchanged
<1>4. TypeOK'
  BY <1>1, <1>2, <1>3 DEF TypeOK
<1>5. ScreensShowThePast'
  BY <1>2, <1>3, ScreensKeep DEF IInv
<1>6. AnswersHoldThePast'
  BY <1>2, <1>3, AnswersKeep DEF IInv
<1>7. RequestsSawThePast'
  BY <1>2, <1>3, RequestsKeep DEF IInv
<1> QED
  BY <1>2, <1>4, <1>5, <1>6, <1>7 DEF IInv

(***************************************************************************)
(* A tab that shows what it showed, nothing, the row or a dispatched       *)
(* snapshot.                                                               *)
(***************************************************************************)
LEMMA ShowKeeps ==
  ASSUME IInv, ServerUnchanged, NEW s \in Screens,
         NEW pc \in {"loading", "idle", "submitting", "reloading"}, NEW error \in BOOLEAN,
         NEW snapshot,
         \/ snapshot = screen[s].snapshot \/ snapshot = Nothing \/ snapshot = row
         \/ \E a \in answers : snapshot = a.snapshot,
         Show(s, pc, snapshot, error),
         answers' \subseteq answers, UNCHANGED requests
  PROVE  IInv'
<1>1. TypeOK
  BY DEF IInv
<1>2. snapshot \in Snapshots \cup {Nothing}
  BY <1>1 DEF TypeOK, Machines, Answers
<1>3. screen' \in [Screens -> Machines]
  <2> DEFINE y == [screen[s] EXCEPT !.pc = pc, !.snapshot = snapshot, !.error = error]
  <2>1. screen \in [Screens -> Machines] /\ screen[s] \in Machines
    BY <1>1 DEF TypeOK
  <2>2. screen' = [screen EXCEPT ![s] = y]
    BY <2>1 DEF Show, Machines
  <2>3. y \in Machines
    BY <1>2, <2>1 DEF Machines
  <2> HIDE DEF y
  <2> QED
    BY <2>1, <2>2, <2>3
<1>4. screen'[s].snapshot = snapshot /\ \A t \in Screens \ {s} : screen'[t] = screen[t]
  BY <1>1 DEF Show, TypeOK, Machines
<1>5. /\ UNCHANGED <<workflow, row, log>> /\ Past(row)'
  BY ServerUnchangedKeeps DEF IInv, ServerUnchanged
<1>6. \/ snapshot = screen[s].snapshot \/ snapshot = Nothing \/ Past(screen[s].snapshot)'
  <2>1. CASE snapshot = row
    BY <2>1, <1>4, <1>5 DEF Past, At
  <2>2. CASE \E a \in answers : snapshot = a.snapshot
    <3>1. Past(snapshot)
      BY <2>2 DEF IInv, AnswersHoldThePast
    <3> QED
      BY <3>1, <1>4, <1>5, TableStays DEF Past, At, Initial
  <2> QED
    BY <2>1, <2>2
<1>7. requests' \subseteq Requests
  BY <1>1 DEF TypeOK
<1> QED
  BY <1>3, <1>4, <1>6, <1>7, TabKeeps

LEMMA ScreenStepKeeps ==
  ASSUME IInv, NEW s \in Screens, ScreenStep(s)
  PROVE  IInv'
<1>1. CASE LoadReturns(s) \/ LoadFails(s)
  BY <1>1, ShowKeeps DEF LoadReturns, LoadFails
<1>2. CASE AnswerOk(s)
  BY <1>2, ShowKeeps DEF AnswerOk, Mine
<1>3. CASE AnswerConflict(s)
  <2>1. screen' \in [Screens -> Machines]
    BY <1>3 DEF AnswerConflict, IInv, TypeOK, Machines
  <2>2. \A t \in Screens : screen'[t].snapshot = screen[t].snapshot
    BY <1>3 DEF AnswerConflict, IInv, TypeOK, Machines
  <2>3. /\ answers' \subseteq answers /\ requests' = requests /\ requests' \subseteq Requests
        /\ ServerUnchanged
    BY <1>3 DEF AnswerConflict, IInv, TypeOK
  <2> QED
    BY <2>1, <2>2, <2>3, TabKeeps
<1>4. CASE ReloadReturns(s) \/ ReloadFails(s)
  BY <1>4, ShowKeeps DEF ReloadReturns, ReloadFails
<1>5. CASE PostFails(s)
  BY <1>5, ShowKeeps DEF PostFails
<1> QED
  BY <1>1, <1>2, <1>3, <1>4, <1>5 DEF ScreenStep

LEMMA ChooseKeeps ==
  ASSUME IInv, NEW s \in Screens, NEW event \in DOMAIN Steps, Choose(s, event)
  PROVE  IInv'
<1> DEFINE shown == screen[s].snapshot
           request == [ click |-> Click(s, screen[s].clicks + 1), event |-> event,
                        version |-> shown.version, saw |-> shown.state ]
<1>1. TypeOK /\ MaxClicks \in Nat
  BY BoundsAssumption DEF IInv
<1>2. /\ shown \in Snapshots /\ Past(shown)
      /\ screen[s].clicks \in Nat /\ screen[s].clicks < MaxClicks /\ shown.version < MaxVersion
      /\ requests' = requests \cup {request}
      /\ screen' = [screen EXCEPT ![s].pc = "submitting", ![s].clicks = screen[s].clicks + 1]
      /\ UNCHANGED <<workflow, row, log, answers>>
  BY <1>1 DEF Choose, IInv, TypeOK, Machines, ScreensShowThePast
<1>3. request \in Requests
  BY <1>1, <1>2 DEF Requests, Snapshots, Click, Clicks
<1>4. screen' \in [Screens -> Machines] /\ \A t \in Screens : screen'[t].snapshot = screen[t].snapshot
  BY <1>1, <1>2 DEF TypeOK, Machines
<1>5. \A r \in requests' :
        \/ r \in requests
        \/ /\ r.version \in 1..row.version /\ r.version < MaxVersion
           /\ Aside = {} => r.saw = At(r.version).state
  BY <1>2 DEF Past
<1>6. requests' \subseteq Requests
  BY <1>1, <1>2, <1>3 DEF TypeOK
<1>7. ServerUnchanged /\ answers' \subseteq answers
  BY <1>2 DEF ServerUnchanged
<1> QED
  BY <1>4, <1>5, <1>6, <1>7, TabKeeps

LEMMA UserStepKeeps ==
  ASSUME IInv, NEW s \in Screens, UserStep(s)
  PROVE  IInv'
<1>1. CASE Refresh(s)
  <2>1. screen[s].error \in BOOLEAN
    BY DEF IInv, TypeOK, Machines
  <2> QED
    BY <1>1, <2>1, ShowKeeps DEF Refresh
<1>2. CASE Dismiss(s)
  BY <1>2, ShowKeeps DEF Dismiss
<1>3. CASE \E event \in DOMAIN Steps : Choose(s, event)
  BY <1>3, ChooseKeeps
<1> QED
  BY <1>1, <1>2, <1>3 DEF UserStep

LEMMA LoseRequestKeeps ==
  ASSUME IInv, NEW r \in requests, LoseRequest(r)
  PROVE  IInv'
<1>1. /\ ServerUnchanged /\ UNCHANGED <<screen, answers>> /\ requests' \subseteq requests
  BY DEF LoseRequest, ServerUnchanged
<1>2. screen' \in [Screens -> Machines] /\ requests' \subseteq Requests
  BY <1>1 DEF IInv, TypeOK
<1> QED
  BY <1>1, <1>2, TabKeeps

LEMMA NextIInv == IInv /\ [Next]_vars => IInv'
<1> SUFFICES ASSUME IInv, [Next]_vars PROVE IInv'
  OBVIOUS
<1>1. CASE \E r \in requests : Dispatch(r) \/ LoseRequest(r)
  BY <1>1, DispatchKeeps, LoseRequestKeeps
<1>2. CASE \E event \in DOMAIN Steps : Unasked(event) \/ Promptly(event)
  BY <1>2, RaisedKeeps
<1>3. CASE \E chain \in Drains(row.state) : Drain(chain)
  BY <1>3, DrainKeeps
<1>4. CASE \E state \in Aside : WriteAside(state)
  BY <1>4, WriteAsideKeeps
<1>5. CASE \E s \in Screens : ScreenStep(s) \/ UserStep(s)
  BY <1>5, ScreenStepKeeps, UserStepKeeps
<1>6. CASE UNCHANGED vars
  <2>1. ServerUnchanged /\ UNCHANGED <<screen, requests, answers>>
    BY <1>6 DEF vars, ServerUnchanged
  <2>2. screen' \in [Screens -> Machines] /\ requests' \subseteq Requests
    BY <2>1 DEF IInv, TypeOK
  <2> QED
    BY <2>1, <2>2, TabKeeps
<1> QED
  BY <1>1, <1>2, <1>3, <1>4, <1>5, <1>6 DEF Next

(***************************************************************************)
(* Every variable keeps its type, whatever the workflows and the screens.  *)
(***************************************************************************)
THEOREM Typing == Spec => []TypeOK
<1>1. IInv => TypeOK
  BY DEF IInv
<1> QED
  BY <1>1, InitIInv, NextIInv, PTL DEF Spec

(***************************************************************************)
(* Screens, worker and old endpoints may race as they like: each version   *)
(* of a row but the last has one log entry, in order.  In a workflow that  *)
(* nobody moves past its reducer, replaying the log from the initial state *)
(* meets no illegal event and no snapshot that differs, and ends in the    *)
(* row; rental, project_closeout and notification are not such workflows.  *)
(***************************************************************************)
THEOREM TheLogReplays == Spec => []LogReplays
<1>1. IInv => LogReplays
  BY DEF IInv, History
<1> QED
  BY <1>1, InitIInv, NextIInv, PTL DEF Spec

(***************************************************************************)
(* However late, lost or overtaken its request: an event a user chose is   *)
(* applied to the state that user was shown, or not at all, in a workflow  *)
(* whose state no handler overwrites (all but rental, project_closeout).   *)
(***************************************************************************)
THEOREM ChoicesApplyToWhatWasShown == Spec => []ActedOnWhatWasShown
<1>1. IInv => ActedOnWhatWasShown
  BY DEF IInv
<1> QED
  BY <1>1, InitIInv, NextIInv, PTL DEF Spec
-----------------------------------------------------------------------------
(* What the screens offer, and where the workflows end.                      *)

\* The states in which a transaction may leave a row: the first, an event's
\* target, the last of a chain, and what is overwritten.
Rests(t, state) ==
  \/ state = t.init
  \/ "aside" \in DOMAIN t /\ state \in t.aside
  \/ \E e \in t.unasked : state = t.steps[e].to
  \/ \E from \in DOMAIN t.offers : \E e \in t.offers[from] : state = t.steps[e].to
  \/ "drains" \in DOMAIN t /\ \E from \in DOMAIN t.drains : \E chain \in t.drains[from] :
       state = t.steps[chain[Len(chain)]].to

\* What a table offers in a state is legal there.
OffersAreLegal(t) ==
  \A state \in DOMAIN t.offers : \A e \in t.offers[state] :
    e \in DOMAIN t.steps /\ state \in t.steps[e].from

\* Of the states a row rests in, a terminal one has no way on, any other has
\* one that is offered or that the server takes.
EndsAreDeclared(t) ==
  \A state :
    Rests(t, state) =>
    IF state \in t.terminal
    THEN \A e \in DOMAIN t.steps : state \notin t.steps[e].from
    ELSE \/ state \in DOMAIN t.offers /\ t.offers[state] # {}
         \/ \E e \in t.unasked : state \in t.steps[e].from

Fits(t) == OffersAreLegal(t) /\ EndsAreDeclared(t)

(***************************************************************************)
(* Each workflow of the registry fits.                                     *)
(***************************************************************************)
LEMMA DailyLogFits == Fits(DailyLog)
BY DEF Fits, OffersAreLegal, EndsAreDeclared, Rests, DailyLog, Step

LEMMA DamageChargeSettlementFits == Fits(DamageChargeSettlement)
BY DEF Fits, OffersAreLegal, EndsAreDeclared, Rests, DamageChargeSettlement, Step

LEMMA RentalRequestApprovalFits == Fits(RentalRequestApproval)
BY DEF Fits, OffersAreLegal, EndsAreDeclared, Rests, RentalRequestApproval, Step

LEMMA ChangeOrderFits == Fits(ChangeOrder)
BY DEF Fits, OffersAreLegal, EndsAreDeclared, Rests, ChangeOrder, Step

LEMMA ScaffoldOpsApprovalFits == Fits(ScaffoldOpsApproval)
BY DEF Fits, OffersAreLegal, EndsAreDeclared, Rests, ScaffoldOpsApproval, Step

LEMMA RentalFits == Fits(Rental)
BY DEF Fits, OffersAreLegal, EndsAreDeclared, Rests, Rental, BilledStatuses, Step

LEMMA ShipmentFits == Fits(Shipment)
BY DEF Fits, OffersAreLegal, EndsAreDeclared, Rests, Shipment, Step

LEMMA ProjectCloseoutFits == Fits(ProjectCloseout)
BY DEF Fits, OffersAreLegal, EndsAreDeclared, Rests, ProjectCloseout, PatchedStatuses, Step

LEMMA QboSyncRunFits == Fits(QboSyncRun)
BY DEF Fits, OffersAreLegal, EndsAreDeclared, Rests, QboSyncRun, Step

LEMMA CrewScheduleFits == Fits(CrewSchedule)
BY DEF Fits, OffersAreLegal, EndsAreDeclared, Rests, CrewSchedule, Step

LEMMA EstimatePushFits == Fits(EstimatePush)
BY DEF Fits, OffersAreLegal, EndsAreDeclared, Rests, EstimatePush, Step

LEMMA FieldEventFits == Fits(FieldEvent)
BY DEF Fits, OffersAreLegal, EndsAreDeclared, Rests, FieldEvent, Step

LEMMA ProjectLifecycleFits == Fits(ProjectLifecycle)
BY DEF Fits, OffersAreLegal, EndsAreDeclared, Rests, ProjectLifecycle, Step

LEMMA NotificationFits == Fits(Notification)
<1> DEFINE t == Notification
           rest == {"pending", "hydrating", "sent", "voided", "failed_provider",
                    "failed_clerk_unreachable", "failed_clerk_not_found"}
<1>1. /\ t.init = "pending" /\ t.unasked = {} /\ "aside" \notin DOMAIN t
      /\ t.terminal = {"sent", "failed_clerk_not_found", "voided"}
      /\ DOMAIN t.offers = {"pending", "hydrating", "failed_provider", "failed_clerk_unreachable"}
      /\ t.offers["pending"] = {"VOID"} /\ t.offers["hydrating"] = {"VOID"}
      /\ t.offers["failed_provider"] = {"RETRY", "VOID"}
      /\ t.offers["failed_clerk_unreachable"] = {"RETRY", "VOID"}
      /\ t.drains = Drained
  BY DEF Notification
<1>2. /\ DOMAIN t.steps = {"HYDRATE", "SEND_REQUESTED", "SEND_SUCCEEDED", "provider",
                           "clerk_unreachable", "clerk_not_found", "RETRY", "VOID"}
      /\ t.steps["HYDRATE"] = Step({"pending"}, "hydrating")
      /\ t.steps["SEND_REQUESTED"] = Step({"pending", "hydrating"} \cup Retryable, "sending")
      /\ t.steps["SEND_SUCCEEDED"] = Step({"sending"}, "sent")
      /\ t.steps["provider"] = Step({"pending", "sending", "hydrating"}, "failed_provider")
      /\ t.steps["clerk_unreachable"] = Step({"pending", "sending", "hydrating"}, "failed_clerk_unreachable")
      /\ t.steps["clerk_not_found"] = Step({"pending", "sending", "hydrating"}, "failed_clerk_not_found")
      /\ t.steps["RETRY"] = Step(Retryable, "pending")
      /\ t.steps["VOID"] = Step({"pending", "hydrating"} \cup Retryable, "voided")
  BY DEF Notification
<1> HIDE DEF t
<1>3. OffersAreLegal(t)
  BY <1>1, <1>2 DEF OffersAreLegal, Step, Retryable
<1>4. ASSUME NEW from \in DOMAIN t.drains, NEW chain \in t.drains[from]
      PROVE  t.steps[chain[Len(chain)]].to \in rest
  <2>1. chain \in {<<"SEND_REQUESTED", "SEND_SUCCEEDED">>, <<"provider">>,
                   <<"HYDRATE", "SEND_REQUESTED", "SEND_SUCCEEDED">>, <<"HYDRATE", "provider">>,
                   <<"HYDRATE">>, <<"clerk_unreachable">>, <<"clerk_not_found">>}
    BY <1>1, <1>4 DEF Drained, Sends
  <2>2. chain[Len(chain)] \in {"SEND_SUCCEEDED", "provider", "HYDRATE", "clerk_unreachable",
                               "clerk_not_found"}
    <3>1. CASE chain = <<"SEND_REQUESTED", "SEND_SUCCEEDED">>
      BY <3>1
    <3>2. CASE chain = <<"HYDRATE", "SEND_REQUESTED", "SEND_SUCCEEDED">>
      BY <3>2
    <3>3. CASE chain = <<"HYDRATE", "provider">>
      BY <3>3
    <3>4. CASE \E e \in {"provider", "HYDRATE", "clerk_unreachable", "clerk_not_found"} : chain = <<e>>
      BY <3>4
    <3> QED
      BY <2>1, <3>1, <3>2, <3>3, <3>4
  <2> QED
    BY <1>2, <2>2 DEF Step
<1>5. \A state : Rests(t, state) => state \in rest
  BY <1>1, <1>2, <1>4 DEF Rests, Step
<1>6. EndsAreDeclared(t)
  BY <1>1, <1>2, <1>5 DEF EndsAreDeclared, Step, Retryable
<1> QED
  BY <1>3, <1>6 DEF Fits, t

LEMMA TimeReviewRunFits == Fits(TimeReviewRun)
<1> DEFINE t == TimeReviewRun
           steps == StepsOf(TR!Sources, TR!Target)
<1>1. /\ t.steps = steps /\ t.init = "pending" /\ t.terminal = {} /\ t.unasked = {}
      /\ DOMAIN t.offers = {"pending", "approved", "rejected"}
      /\ t.offers["pending"] = {"APPROVE", "REJECT"}
      /\ t.offers["approved"] = {"REOPEN"} /\ t.offers["rejected"] = {"REOPEN"}
      /\ "aside" \notin DOMAIN t /\ "drains" \notin DOMAIN t
  BY DEF TimeReviewRun
<1>2. /\ DOMAIN steps = {"APPROVE", "REJECT", "REOPEN"}
      /\ steps["APPROVE"] = Step({"pending"}, "approved")
      /\ steps["REJECT"] = Step({"pending"}, "rejected")
      /\ steps["REOPEN"] = Step({"approved", "rejected"}, "pending")
  BY DEF StepsOf, TR!Sources, TR!Target
<1> HIDE DEF t, steps
<1>3. OffersAreLegal(t)
  BY <1>1, <1>2 DEF OffersAreLegal, Step
<1>4. \A state : Rests(t, state) => state \in {"pending", "approved", "rejected"}
  BY <1>1, <1>2 DEF Rests, Step
<1>5. EndsAreDeclared(t)
  BY <1>1, <1>2, <1>4 DEF EndsAreDeclared, Step
<1> QED
  BY <1>3, <1>5 DEF Fits, t

LEMMA RentalBillingRunFits == Fits(RentalBillingRun)
<1> DEFINE t == RentalBillingRun
           steps == StepsOf(RB!Sources, RB!Target)
<1>1. /\ t.steps = steps /\ t.init = "generated" /\ t.terminal = {"posted", "voided"}
      /\ DOMAIN t.offers = {"generated", "approved", "failed", "posting"}
      /\ t.offers["generated"] = {"APPROVE", "VOID"}
      /\ t.offers["approved"] = {"POST_REQUESTED", "VOID"}
      /\ t.offers["failed"] = {"RETRY_POST", "VOID"} /\ t.offers["posting"] = {"CANCEL_POST"}
      /\ "aside" \notin DOMAIN t /\ "drains" \notin DOMAIN t
      /\ t.unasked = {"POST_SUCCEEDED", "POST_FAILED"}
  BY DEF RentalBillingRun, RB!InitialSnapshot, RB!WorkerEvents
<1>2. /\ DOMAIN steps = {"APPROVE", "POST_REQUESTED", "POST_SUCCEEDED", "POST_FAILED",
                         "RETRY_POST", "CANCEL_POST", "VOID"}
      /\ steps["APPROVE"] = Step({"generated"}, "approved")
      /\ steps["POST_REQUESTED"] = Step({"approved", "failed"}, "posting")
      /\ steps["POST_SUCCEEDED"] = Step({"posting"}, "posted")
      /\ steps["POST_FAILED"] = Step({"posting"}, "failed")
      /\ steps["RETRY_POST"] = Step({"failed"}, "approved")
      /\ steps["CANCEL_POST"] = Step({"posting"}, "failed")
      /\ steps["VOID"] = Step({"generated", "approved", "failed"}, "voided")
  BY DEF StepsOf, RB!Sources, RB!Target
<1> HIDE DEF t, steps
<1>3. OffersAreLegal(t)
  BY <1>1, <1>2 DEF OffersAreLegal, Step
<1>4. \A state : Rests(t, state) =>
        state \in {"generated", "approved", "posting", "posted", "failed", "voided"}
  BY <1>1, <1>2 DEF Rests, Step
<1>5. EndsAreDeclared(t)
  BY <1>1, <1>2, <1>4 DEF EndsAreDeclared, Step
<1> QED
  BY <1>3, <1>5 DEF Fits, t

LEMMA LaborPayrollRunFits == Fits(LaborPayrollRun)
<1> DEFINE t == LaborPayrollRun
           steps == StepsOf(LP!Sources, LP!Target)
<1>1. /\ t.steps = steps /\ t.init = "generated" /\ t.terminal = {"posted", "voided"}
      /\ DOMAIN t.offers = {"generated", "approved", "failed"}
      /\ t.offers["generated"] = {"APPROVE", "VOID"}
      /\ t.offers["approved"] = {"POST_REQUESTED", "VOID"}
      /\ t.offers["failed"] = {"RETRY_POST", "VOID"}
      /\ "aside" \notin DOMAIN t /\ "drains" \notin DOMAIN t
      /\ t.unasked = DOMAIN LP!Sources \ LP!HumanEvents
  BY DEF LaborPayrollRun, LP!Initial
<1>2. /\ DOMAIN steps = {"APPROVE", "POST_REQUESTED", "POST_SUCCEEDED", "POST_FAILED",
                         "RETRY_POST", "VOID", "AUTO_APPROVE", "AUTO_POST_REQUESTED"}
      /\ steps["APPROVE"] = Step({"generated"}, "approved")
      /\ steps["POST_REQUESTED"] = Step({"approved", "failed"}, "posting")
      /\ steps["POST_SUCCEEDED"] = Step({"posting"}, "posted")
      /\ steps["POST_FAILED"] = Step({"posting"}, "failed")
      /\ steps["RETRY_POST"] = Step({"failed"}, "approved")
      /\ steps["VOID"] = Step({"generated", "approved", "failed"}, "voided")
      /\ steps["AUTO_APPROVE"] = Step({"generated"}, "approved")
      /\ steps["AUTO_POST_REQUESTED"] = Step({"approved"}, "posting")
  BY DEF StepsOf, LP!Sources, LP!Target
<1>3. "POST_SUCCEEDED" \in t.unasked /\ t.unasked \subseteq DOMAIN steps
  BY <1>1 DEF LP!Sources, LP!HumanEvents, StepsOf
<1> HIDE DEF t, steps
<1>4. OffersAreLegal(t)
  BY <1>1, <1>2 DEF OffersAreLegal, Step
<1>5. \A state : Rests(t, state) =>
        state \in {"generated", "approved", "posting", "posted", "failed", "voided"}
  BY <1>1, <1>2, <1>3 DEF Rests, Step
<1>6. EndsAreDeclared(t)
  BY <1>1, <1>2, <1>3, <1>5 DEF EndsAreDeclared, Step
<1> QED
  BY <1>4, <1>6 DEF Fits, t

LEMMA CatalogueFits == \A name \in DOMAIN Catalogue : Fits(Catalogue[name])
BY DailyLogFits, DamageChargeSettlementFits, RentalRequestApprovalFits, ChangeOrderFits,
   ScaffoldOpsApprovalFits, RentalFits, ShipmentFits, ProjectCloseoutFits, QboSyncRunFits,
   CrewScheduleFits, EstimatePushFits, FieldEventFits, ProjectLifecycleFits, NotificationFits,
   RentalBillingRunFits, LaborPayrollRunFits, TimeReviewRunFits DEF Catalogue

(***************************************************************************)
(* What a fitting table means for the dispatcher.                          *)
(***************************************************************************)

\* Every request under way was offered in the state its user saw.
RequestsWereOffered == \A r \in requests : r.event \in NextEvents(r.saw)

LEMMA RequestsStayOffered ==
  IInv /\ RequestsWereOffered /\ [Next]_vars => RequestsWereOffered'
<1> SUFFICES ASSUME IInv, RequestsWereOffered, [Next]_vars PROVE RequestsWereOffered'
  OBVIOUS
<1>1. workflow' = workflow
  BY DEF Next, vars, Dispatch, LoseRequest, Unasked, Promptly, Drain, WriteAside, ScreenStep, UserStep,
         LoadReturns, LoadFails, AnswerOk, AnswerConflict, ReloadReturns, ReloadFails, PostFails, Refresh,
         Dismiss, Choose, ServerUnchanged
<1>2. \A state : NextEvents(state)' = NextEvents(state)
  BY <1>1 DEF NextEvents, table
<1>3. CASE requests' \subseteq requests
  BY <1>2, <1>3 DEF RequestsWereOffered
<1>4. CASE \E s \in Screens : \E event \in DOMAIN Steps : Choose(s, event)
  <2>1. PICK s \in Screens, event \in DOMAIN Steps : Choose(s, event)
    BY <1>4
  <2> DEFINE shown == screen[s].snapshot
             request == [ click |-> Click(s, screen[s].clicks + 1), event |-> event,
                          version |-> shown.version, saw |-> shown.state ]
  <2>2. requests' = requests \cup {request} /\ event \in NextEvents(shown.state)
    BY <2>1 DEF Choose
  <2>3. request.event = event /\ request.saw = shown.state
    OBVIOUS
  <2> HIDE DEF request, shown
  <2> QED
    BY <1>2, <2>2, <2>3 DEF RequestsWereOffered
<1>5. requests' \subseteq requests \/ \E s \in Screens : \E event \in DOMAIN Steps : Choose(s, event)
  BY DEF Next, vars, Dispatch, LoseRequest, Unasked, Promptly, Drain, WriteAside, ScreenStep, UserStep,
         LoadReturns, LoadFails, AnswerOk, AnswerConflict, ReloadReturns, ReloadFails, PostFails, Refresh, Dismiss
<1> QED
  BY <1>3, <1>4, <1>5

\* The row rests where its table lets it.
LEMMA RowStaysAtRest ==
  IInv /\ RequestsWereOffered /\ Rests(table, row.state) /\ [Next]_vars
    => Rests(table, row.state)'
<1> SUFFICES ASSUME IInv, RequestsWereOffered, Rests(table, row.state), [Next]_vars
             PROVE  Rests(table, row.state)'
  OBVIOUS
<1>1. table' = table /\ row \in Snapshots
  BY DEF Next, vars, Dispatch, LoseRequest, Unasked, Promptly, Drain, WriteAside, ScreenStep, UserStep,
         LoadReturns, LoadFails, AnswerOk, AnswerConflict, ReloadReturns, ReloadFails, PostFails,
         Refresh, Dismiss, Choose, ServerUnchanged, table, IInv, TypeOK
<1> SUFFICES Rests(table, row'.state)
  BY <1>1 DEF Rests
<1>2. ASSUME NEW r \in requests, Dispatch(r)
      PROVE  Rests(table, row'.state)
  <2>1. CASE Verdict(r) = "ok"
    <3>1. row'.state = table.steps[r.event].to
      BY <1>2, <2>1 DEF Dispatch, Persist, Reduce, Steps
    <3>2. r.saw \in DOMAIN table.offers /\ r.event \in table.offers[r.saw]
      BY DEF RequestsWereOffered, NextEvents
    <3> QED
      BY <3>1, <3>2 DEF Rests
  <2>2. CASE Verdict(r) # "ok"
    BY <1>2, <2>2 DEF Dispatch
  <2> QED
    BY <2>1, <2>2
<1>3. ASSUME NEW event \in DOMAIN Steps, Unasked(event)
      PROVE  Rests(table, row'.state)
  BY <1>3 DEF Unasked, Persist, Reduce, Steps, Rests
<1>4. ASSUME NEW event \in DOMAIN Steps, Promptly(event)
      PROVE  Rests(table, row'.state)
  <2>1. row'.state = table.steps[event].to
    BY <1>4 DEF Promptly, Persist, Reduce, Steps
  <2>2. row.state \in DOMAIN table.offers /\ event \in table.offers[row.state]
    BY <1>4 DEF Promptly, NextEvents
  <2> QED
    BY <2>1, <2>2 DEF Rests
<1>5. ASSUME NEW chain \in Drains(row.state), Drain(chain)
      PROVE  Rests(table, row'.state)
  <2>1. row'.state = table.steps[chain[Len(chain)]].to
    BY <1>5 DEF Drain, After, Steps
  <2>2. /\ "drains" \in DOMAIN table /\ row.state \in DOMAIN table.drains
        /\ chain \in table.drains[row.state]
    BY DEF Drains, Rebuilt
  <2> QED
    BY <2>1, <2>2 DEF Rests
<1>6. ASSUME NEW state \in Aside, WriteAside(state)
      PROVE  Rests(table, row'.state)
  <2>1. row'.state = state
    BY <1>1, <1>6 DEF WriteAside, Snapshots
  <2>2. "aside" \in DOMAIN table /\ state \in table.aside
    BY DEF Aside
  <2> QED
    BY <2>1, <2>2 DEF Rests
<1>7. CASE row' = row
  BY <1>7
<1>8. \/ row' = row
      \/ \E r \in requests : Dispatch(r)
      \/ \E event \in DOMAIN Steps : Unasked(event) \/ Promptly(event)
      \/ \E chain \in Drains(row.state) : Drain(chain)
      \/ \E state \in Aside : WriteAside(state)
  BY DEF Next, vars, LoseRequest, ScreenStep, UserStep, LoadReturns, LoadFails, AnswerOk,
         AnswerConflict, ReloadReturns, ReloadFails, PostFails, Refresh, Dismiss, Choose,
         ServerUnchanged
<1> QED
  BY <1>2, <1>3, <1>4, <1>5, <1>6, <1>7, <1>8

LEMMA FittingTablesOffer ==
  ASSUME IInv, RequestsWereOffered, Rests(table, row.state), Fits(table)
  PROVE  OffersFit
<1>1. ASSUME Aside = {}, NEW r \in requests, ~Stale(r)
      PROVE  Legal(r.event, row.state)
  <2>1. r.version = row.version /\ r.saw = At(r.version).state
    BY <1>1 DEF Stale, IInv, RequestsSawThePast
  <2>2. row = At(row.version)
    <3>1. row.version = Len(log) + 1 /\ row = At(Len(log) + 1)
      BY <1>1 DEF IInv, History, LogReplays
    <3> QED
      BY <3>1
  <2>3. r.event \in NextEvents(row.state)
    BY <2>1, <2>2 DEF RequestsWereOffered
  <2> QED
    BY <2>3 DEF NextEvents, Legal, Fits, OffersAreLegal, Steps
<1>2. CASE row.state \in table.terminal
  BY <1>1, <1>2 DEF OffersFit, Fits, EndsAreDeclared, Legal, Steps
<1>3. CASE row.state \notin table.terminal
  BY <1>1, <1>3 DEF OffersFit, Fits, EndsAreDeclared, Legal, Steps, NextEvents
<1> QED
  BY <1>2, <1>3

(***************************************************************************)
(* With the registry's tables, for any number of screens, clicks and       *)
(* versions: a posted event is refused for its version or not at all,      *)
(* where no handler overwrites the state (all but rental and               *)
(* project_closeout); a row in no terminal state has somewhere to go, a    *)
(* terminal one has not.                                                   *)
(***************************************************************************)
THEOREM RegistryOffersFit == Tables = Catalogue => (Spec => []OffersFit)
<1> SUFFICES ASSUME Tables = Catalogue PROVE Spec => []OffersFit
  OBVIOUS
<1>1. Init => RequestsWereOffered /\ Rests(table, row.state)
  BY DEF Init, RequestsWereOffered, Initial, Rests, table
<1>2. IInv /\ RequestsWereOffered /\ Rests(table, row.state) => OffersFit
  <2> SUFFICES ASSUME IInv, RequestsWereOffered, Rests(table, row.state) PROVE OffersFit
    OBVIOUS
  <2>1. workflow \in DOMAIN Catalogue
    BY DEF IInv, TypeOK
  <2>2. Fits(table)
    BY <2>1, CatalogueFits DEF table
  <2> QED
    BY <2>2, FittingTablesOffer
<1> QED
  BY <1>1, <1>2, InitIInv, NextIInv, RequestsStayOffered, RowStaysAtRest, PTL DEF Spec

-----------------------------------------------------------------------------
(* --------------------------- the time clock ---------------------------- *)

\* The calls a device makes: live ones and those of a replay.
Tagged == Tabs \X {"live", "replay"}
\* What a thread may hold.
Calls == [step : {"free"} \union Running \union Outcomes, kind : Kinds, tap : Nat,
             caller : {Nobody} \union Tagged, open : Nat, out : Nat]
\* What a replay holds of a row.
Copies == [tap : Nat, at : Nat, attempts : Nat]

\* What the API records of a clock-in or clock-out.
Stamps == [kind : Kinds, tap : Nat, voided : BOOLEAN, drafts : BOOLEAN]

\* The types of the device's variables.
DeviceShapes ==
    /\ taps \in Seq(Kinds)
    /\ Len(taps) <= MaxTaps
    /\ enqueued \in Nat
    /\ queue \in [DOMAIN queue -> [at : 1..enqueued, attempts : Nat, resting : BOOLEAN]]
    /\ DOMAIN queue \subseteq 1..Len(taps)
    /\ live \in [Tabs -> [tap : Nat, step : {"idle", "waiting", "queueing"}]]
    /\ replay \in [Tabs -> [todo : SUBSET Copies, step : {"idle", "next", "waiting"}]]
    /\ lock \in Tabs \union {NoTab}
    /\ faults \in 0..MaxFaults
    /\ unsure \in [TapIds -> Nat]

\* The types of all variables that need one.
Shapes ==
    /\ events \in Seq(Stamps)
    /\ thread \in [Threads -> Calls]
    /\ DeviceShapes

Idle(d) == live[d].step = "idle"

\* A tab works on one tap, which is not in the queue yet and no other tab works on.
LiveTaps ==
    /\ \A d \in Tabs : Idle(d) => live[d].tap = 0
    /\ \A d \in Tabs : ~Idle(d) => live[d].tap \in (1..Len(taps)) \ DOMAIN queue
    /\ \A d, e \in Tabs : ~Idle(d) /\ live[d].tap = live[e].tap => d = e

\* The Web Lock is not left behind.
LockIsInUse == lock # NoTab => lock \in Tabs /\ replay[lock].step # "idle"

\* One tab replays, the one that holds the lock.
Replays ==
    /\ \A d \in Tabs : replay[d].step = "idle" => replay[d].todo = {}
    /\ \A d \in Tabs : replay[d].step # "idle" => lock = d
    /\ \A d \in Tabs : replay[d].step = "waiting" => replay[d].todo # {}
    /\ LockIsInUse

\* The rows a replay still has to do are as it read them.
TodoIsQueued == \A d \in Tabs : \A copy \in replay[d].todo :
    /\ copy.tap \in DOMAIN queue
    /\ copy.at = queue[copy.tap].at
    /\ copy.attempts = queue[copy.tap].attempts

\* Threads and events are of taps that were made, and a free thread holds nothing.
TapsCalled ==
    /\ \A s \in Threads : thread[s].step = "free" => thread[s] = Free
    /\ \A s \in Threads : thread[s].step # "free" => thread[s].tap \in 1..Len(taps)
    /\ \A i \in DOMAIN events : events[i].tap \in 1..Len(taps)

\* An answer waits for a caller.
AnswersAreAwaited == \A s \in Threads : thread[s].step \in Outcomes => thread[s].caller # Nobody

\* A call that waits is for the tap its tab works on or the row its replay is at,
\* and no two threads answer one caller.
Callers ==
    /\ \A s \in Threads, d \in Tabs : thread[s].caller = <<d, "live">> =>
          live[d].step = "waiting" /\ thread[s].tap = live[d].tap
    /\ \A s \in Threads, d \in Tabs : thread[s].caller = <<d, "replay">> =>
          replay[d].step = "waiting" /\ thread[s].tap = Row(d).tap
    /\ \A s, r \in Threads : thread[s].caller = thread[r].caller => s = r \/ thread[s].caller = Nobody

\* Whoever waits for a call has a thread that handles it or holds its answer.
WaitersAreServed ==
    /\ \A d \in Tabs : live[d].step = "waiting" => \E s \in Threads : thread[s].caller = <<d, "live">>
    /\ \A d \in Tabs : replay[d].step = "waiting" => \E s \in Threads : thread[s].caller = <<d, "replay">>

\* Every attempt of a row was a failure.
TriesAreFaults ==
    /\ \A t \in DOMAIN queue : queue[t].attempts <= faults
    /\ \A s \in Threads, d \in Tabs :
          thread[s].caller = <<d, "replay">> /\ thread[s].step = "failed" => Row(d).attempts < faults

\* A labor entry pays a clock-in up to a later clock-out that drafts one.
EntriesPay == \A e \in entries :
    /\ e \in [in : DOMAIN events, out : DOMAIN events]
    /\ e.in < e.out /\ events[e.in].kind = "in" /\ events[e.out].kind = "out"
    /\ events[e.out].drafts

\* No clock-out is paid twice.
OutsPaidOnce == \A e, f \in entries : f.out = e.out => f = e

\* A clock-out is being handled.
AtShift(s) == thread[s].step \in {"read", "closed"}

\* The shift a clock-out ends is a clock-in.
ShiftsWereOpen == \A s \in Threads : AtShift(s) =>
    /\ thread[s].kind = "out"
    /\ thread[s].open \in DOMAIN events
    /\ events[thread[s].open].kind = "in"

\* The clock-out whose entry is to be drafted is recorded and not paid yet.
OutsAreUnpaid == \A s \in Threads : thread[s].step = "closed" =>
    /\ thread[s].out \in DOMAIN events
    /\ thread[s].open < thread[s].out
    /\ events[thread[s].out].kind = "out"
    /\ events[thread[s].out].tap = thread[s].tap
    /\ \A e \in entries : e.out # thread[s].out

\* No two threads are to draft an entry of one clock-out.
OutsDiffer == \A s, r \in Threads :
    thread[s].step = "closed" /\ thread[r].step = "closed" /\ thread[s].out = thread[r].out => s = r

\* Every clock-out that drafts an entry is paid, being paid, or explained.
OutsEnd == \A i \in DOMAIN events : events[i].drafts =>
    \/ \E e \in entries : e.out = i
    \/ \E s \in Threads : thread[s].step = "closed" /\ thread[s].out = i
    \/ unsure[events[i].tap] > 0

\* Shifts, from the clock-out that reads them to the entry that pays them.
Shifts == EntriesPay /\ OutsPaidOnce /\ ShiftsWereOpen /\ OutsAreUnpaid /\ OutsDiffer

\* The events recorded of a tap, and the threads that may still insert one.
EventsOf(t) == {i \in DOMAIN events : events[i].tap = t}
Inserting(t) == {s \in Threads : thread[s].step \in {"got", "read"} /\ thread[s].tap = t}
\* A tap may be sent again: it waits for its row, or its row is not being sent.
Sendable(t) ==
    \/ \E d \in Tabs : live[d].step = "queueing" /\ live[d].tap = t
    \/ /\ t \in DOMAIN queue
       /\ \A s \in Threads, d \in Tabs : thread[s].caller = <<d, "replay">> /\ thread[s].tap = t
              => thread[s].step = "failed"
Chance(t) == IF Sendable(t) THEN 1 ELSE 0
\* A tap has paid for one event, and each unsure call for one more.
Counted(t) == Cardinality(EventsOf(t)) + Cardinality(Inserting(t)) + Chance(t) <= 1 + unsure[t]
CopiesCount == \A t \in 1..Len(taps) : Counted(t)

\* A queued tap that the replay has left behind was tried or came after the list.
Overtaken == \A d \in Tabs : replay[d].step # "idle" => \A t \in DOMAIN queue :
    \/ \E copy \in replay[d].todo : copy.tap = t
    \/ queue[t].attempts > 0
    \/ \A copy \in replay[d].todo : copy.at < queue[t].at

-----------------------------------------------------------------------------

\* A set of numbers has a least one, and a bounded one a greatest one.
LEMMA LeastNumber ==
  ASSUME NEW S, S \subseteq Nat, S # {}
  PROVE  \E x \in S : \A y \in S : x <= y
<1> DEFINE R == OpToRel(<, Nat)
<1>1. \E x \in S : \A y \in S : ~(<<y, x>> \in R)
  BY WFMin, NatLessThanWellFounded, Zenon
<1>2. \A x, y \in Nat : y < x => <<y, x>> \in R
  BY DEF OpToRel
<1> HIDE DEF R
<1>3. PICK x \in S : \A y \in S : ~(<<y, x>> \in R)
  BY <1>1
<1>4. \A y \in S : ~(y < x)
  BY <1>2, <1>3
<1> QED
  BY <1>4

LEMMA GreatestNumber ==
  ASSUME NEW n \in Nat, NEW S, S \subseteq 1..n, S # {}
  PROVE  Max(S) \in S /\ \A y \in S : Max(S) >= y
<1> DEFINE T == {n - x : x \in S}
<1>1. \A x \in S : n - x \in Nat
  OBVIOUS
<1>2. T \subseteq Nat /\ T # {}
  BY <1>1
<1>3. PICK z \in T : \A y \in T : z <= y
  BY <1>2, LeastNumber
<1>4. PICK x \in S : z = n - x
  BY <1>3
<1>5. \A y \in S : n - x <= n - y
  BY <1>3, <1>4
<1>6. x \in Nat /\ \A y \in S : y \in Nat
  <2>1. \A y \in 1..n : y \in Nat
    OBVIOUS
  <2> QED
    BY <2>1
<1>7. \A y \in S : x >= y
  BY <1>5, <1>6
<1> QED
  BY <1>7 DEF Max

\* The replay takes a row of its list, the oldest one.
LEMMA OldestRow ==
  ASSUME NEW d, replay[d].todo \subseteq Copies, replay[d].todo # {}
  PROVE  /\ Row(d) \in replay[d].todo
         /\ \A other \in replay[d].todo : Row(d).at <= other.at
<1> DEFINE T == {copy.at : copy \in replay[d].todo}
<1>1. T \subseteq Nat /\ T # {}
  BY DEF Copies
<1>2. PICK z \in T : \A y \in T : z <= y
  BY <1>1, LeastNumber
<1>3. PICK copy \in replay[d].todo : z = copy.at
  BY <1>2
<1>4. \A other \in replay[d].todo : copy.at <= other.at
  BY <1>2, <1>3
<1> QED
  BY <1>3, <1>4 DEF Row

\* What the unlocked read finds is a clock-in.
LEMMA OpenInIsOpen ==
  ASSUME Shapes
  PROVE  /\ OpenIn \in Nat
         /\ OpenIn # 0 => OpenIn \in DOMAIN events /\ events[OpenIn].kind = "in"
<1> DEFINE counted == {i \in DOMAIN events : ~events[i].voided}
<1>1. Len(events) \in Nat /\ DOMAIN events = 1..Len(events)
  BY DEF Shapes, DeviceShapes, Stamps
<1>2. counted # {} => Max(counted) \in counted
  BY <1>1, GreatestNumber, counted \subseteq 1..Len(events)
<1> QED
  BY <1>1, <1>2 DEF OpenIn

LEMMA FreeIsARequest == Free \in Calls
BY DEF Free, Calls, Kinds

\* An answer is the thread's, or nobody waits for it.
LEMMA AnswerOf ==
  ASSUME NEW s \in Threads, thread[s] \in Calls, NEW answer \in Outcomes
  PROVE  /\ Answered(s, answer) \in Calls
         /\ \/ thread[s].caller = Nobody /\ Answered(s, answer) = Free
            \/ /\ thread[s].caller # Nobody
               /\ Answered(s, answer) = [thread[s] EXCEPT !.step = answer]
BY FreeIsARequest DEF Answered, Calls

\* A caller that hangs up leaves a handler running or frees the thread.
LEMMA HangUpOf ==
  ASSUME NEW s \in Threads, thread[s] \in Calls
  PROVE  /\ HangUp(s) \in Calls
         /\ \/ thread[s].step \notin Running /\ HangUp(s) = Free
            \/ thread[s].step \in Running /\ HangUp(s) = [thread[s] EXCEPT !.caller = Nobody]
BY FreeIsARequest DEF HangUp, Calls

\* What a thread may do in a step: nothing, take a request, end, lose its
\* caller, or work on for the caller it has.
Serves(old, new) ==
    /\ old.step \in Running
    /\ new.step \in {"read", "closed"} \union Outcomes
    /\ new.kind = old.kind /\ new.tap = old.tap /\ new.caller = old.caller
    /\ new.step \in Outcomes => old.caller # Nobody

\* A step is one of these.
LEMMA StepCases ==
  ASSUME [ClockNext]_clockVars
  PROVE  \/ \E d \in Tabs : Enqueue(d) \/ SkipRow(d) \/ EndReplay(d)
         \/ \E d \in Tabs : StartReplay(d) \/ RowOffline(d) \/ Reload(d)
         \/ \E d \in Tabs, k \in Kinds : TapOffline(d, k) \/ \E s \in Threads : Tap(d, k, s)
         \/ \E d \in Tabs, s \in Threads : SendRow(d, s) \/ RowAnswered(d, s) \/ RowFailed(d, s)
         \/ \E d \in Tabs, s \in Threads : RowLost(d, s) \/ LiveAnswered(d, s) \/ LiveLost(d, s)
         \/ \E s \in Threads : Handle(s) \/ ServerFails(s) \/ SessionExpired(s)
         \/ \E i \in DOMAIN events : Void(i)
         \/ \E t \in DOMAIN queue : BackoffEnds(t)
         \/ UNCHANGED clockVars
BY DEF ClockNext, TabStep

\* What a step of the API does to its thread.
LEMMA ServerMoves ==
  ASSUME Shapes, NEW s \in Threads, Handle(s) \/ ServerFails(s) \/ SessionExpired(s)
  PROVE  /\ thread[s].step \in Running
         /\ UNCHANGED deviceVars
         /\ faults' \in {faults, faults + 1} /\ faults' \in 0..MaxFaults
         /\ \E new \in Calls :
               /\ thread' = [thread EXCEPT ![s] = new]
               /\ \/ Serves(thread[s], new)
                  \/ new = Free /\ thread[s].caller = Nobody
               /\ new.step = "failed" => ServerFails(s)
<1>1. thread[s] \in Calls /\ DOMAIN thread = Threads
  BY DEF Shapes, DeviceShapes, Stamps
<1>2. ASSUME NEW answer \in Outcomes, thread[s].step \in Running,
             thread' = [thread EXCEPT ![s] = Answered(s, answer)],
             answer = "failed" => ServerFails(s)
      PROVE  \E new \in Calls :
               /\ thread' = [thread EXCEPT ![s] = new]
               /\ \/ Serves(thread[s], new)
                  \/ new = Free /\ thread[s].caller = Nobody
               /\ new.step = "failed" => ServerFails(s)
  <2>1. thread[s].caller # Nobody => Serves(thread[s], [thread[s] EXCEPT !.step = answer])
    BY <1>1, <1>2 DEF Calls, Serves
  <2>2. Free.step = "free" /\ [thread[s] EXCEPT !.step = answer].step = answer
    BY <1>1 DEF Calls, Free
  <2> QED
    BY <1>1, <1>2, <2>1, <2>2, AnswerOf
<1>3. ASSUME NEW new, thread[s].step \in Running, thread' = [thread EXCEPT ![s] = new],
             new \in Calls, Serves(thread[s], new), new.step # "failed"
      PROVE  \E n \in Calls :
               /\ thread' = [thread EXCEPT ![s] = n]
               /\ \/ Serves(thread[s], n)
                  \/ n = Free /\ thread[s].caller = Nobody
               /\ n.step = "failed" => ServerFails(s)
  BY <1>3
<1>4. "ok" \in Outcomes /\ "refused" \in Outcomes /\ "failed" \in Outcomes
      /\ "got" \in Running /\ "read" \in Running /\ "closed" \in Running
  BY DEF Outcomes, Running
<1>5. faults \in 0..MaxFaults /\ MaxFaults \in Nat
  BY BoundsAreNaturals DEF Shapes, DeviceShapes, Stamps
<1>6. CASE Handle(s)
  <2>1. UNCHANGED <<deviceVars, faults>>
    BY <1>6 DEF Handle
  <2>2. CASE ClockIn(s)
    BY <1>2, <1>4, <1>5, <2>1, <2>2 DEF ClockIn
  <2>3. CASE FindOpenIn(s)
    <3>1. [thread[s] EXCEPT !.step = "read", !.open = OpenIn] \in Calls
      BY <1>1, <1>4, OpenInIsOpen DEF Calls
    <3>2. Serves(thread[s], [thread[s] EXCEPT !.step = "read", !.open = OpenIn])
          /\ [thread[s] EXCEPT !.step = "read", !.open = OpenIn].step # "failed"
      BY <1>1, <1>4, <2>3, OpenInIsOpen DEF Calls, Serves, FindOpenIn, Outcomes
    <3>3. CASE OpenIn = 0
      BY <1>2, <1>4, <1>5, <2>1, <2>3, <3>3 DEF FindOpenIn
    <3>4. CASE OpenIn # 0
      BY <1>3, <1>4, <1>5, <2>1, <2>3, <3>1, <3>2, <3>4 DEF FindOpenIn
    <3> QED
      BY <3>3, <3>4
  <2>4. CASE ClockOut(s)
    <3>1. Len(events') \in Nat
      BY <2>4 DEF ClockOut, Insert, Shapes
    <3>2. [thread[s] EXCEPT !.step = "closed", !.out = Len(events')] \in Calls
      BY <1>1, <1>4, <3>1 DEF Calls
    <3>3. Serves(thread[s], [thread[s] EXCEPT !.step = "closed", !.out = Len(events')])
          /\ [thread[s] EXCEPT !.step = "closed", !.out = Len(events')].step # "failed"
      BY <1>1, <1>4, <2>4, <3>1 DEF Calls, Serves, ClockOut, Outcomes
    <3> QED
      BY <1>3, <1>4, <1>5, <2>1, <2>4, <3>2, <3>3 DEF ClockOut
  <2>5. CASE DraftEntry(s)
    BY <1>2, <1>4, <1>5, <2>1, <2>5 DEF DraftEntry
  <2> QED
    BY <1>6, <2>2, <2>3, <2>4, <2>5 DEF Handle
<1>7. CASE ServerFails(s)
  <2>1. UNCHANGED deviceVars /\ faults' = faults + 1 /\ faults' \in 0..MaxFaults
    BY <1>5, <1>7 DEF ServerFails, Fault
  <2> QED
    BY <1>2, <1>4, <1>7, <2>1 DEF ServerFails, Breaks
<1>8. CASE SessionExpired(s)
  <2>1. UNCHANGED deviceVars /\ faults' \in {faults, faults + 1} /\ faults' \in 0..MaxFaults
    BY <1>5, <1>8 DEF SessionExpired, Fault
  <2> QED
    BY <1>2, <1>4, <1>8, <2>1 DEF SessionExpired, TurnAway
<1> QED
  BY <1>6, <1>7, <1>8

\* What the end of a device's call does to its thread.
LEMMA CallEnds ==
  ASSUME Shapes, NEW s \in Threads,
         \/ thread[s].step \notin Running /\ thread' = [thread EXCEPT ![s] = Free]
         \/ thread' = [thread EXCEPT ![s] = HangUp(s)]
  PROVE  \E new \in Calls :
            /\ thread' = [thread EXCEPT ![s] = new]
            /\ \/ thread[s].step \notin Running /\ new = Free
               \/ thread[s].step \in Running /\ new = [thread[s] EXCEPT !.caller = Nobody]
BY HangUpOf, FreeIsARequest DEF Shapes

LEMMA DeviceEndsCalls ==
  ASSUME NEW d \in Tabs, NEW s \in Threads,
         \/ RowAnswered(d, s) \/ RowFailed(d, s)
         \/ RowLost(d, s) \/ LiveAnswered(d, s) \/ LiveLost(d, s)
  PROVE  \/ thread[s].step \notin Running /\ thread' = [thread EXCEPT ![s] = Free]
         \/ thread' = [thread EXCEPT ![s] = HangUp(s)]
<1>1. Running \intersect Outcomes = {} /\ {"ok", "refused", "failed"} \subseteq Outcomes
  BY DEF Running, Outcomes
<1> QED
  BY <1>1 DEF RowAnswered, RowFailed, RowLost, LiveAnswered, LiveLost

\* What the thread that takes a step of the API holds afterwards.
LEMMA ServerResult ==
  ASSUME Shapes, NEW s \in Threads, Handle(s) \/ ServerFails(s) \/ SessionExpired(s)
  PROVE  /\ thread[s].step \in Running
         /\ \/ Serves(thread[s], thread'[s])
            \/ thread'[s] = Free /\ thread[s].caller = Nobody
         /\ thread'[s].step = "failed" => ServerFails(s)
         /\ \A r \in Threads : r # s => thread'[r] = thread[r]
BY ServerMoves DEF Shapes

\* The row a replay is at is queued as the replay read it.
LEMMA RowKnown ==
  ASSUME Shapes, TodoIsQueued, NEW d \in Tabs, replay[d].todo # {}
  PROVE  /\ Row(d) \in replay[d].todo
         /\ Row(d) \in Copies
         /\ Row(d).tap \in DOMAIN queue
         /\ Row(d).at = queue[Row(d).tap].at
         /\ Row(d).attempts = queue[Row(d).tap].attempts
         /\ \A other \in replay[d].todo : Row(d).at <= other.at
<1>1. replay[d].todo \subseteq Copies
  BY DEF Shapes, DeviceShapes
<1>2. Row(d) \in replay[d].todo /\ \A other \in replay[d].todo : Row(d).at <= other.at
  BY <1>1, OldestRow
<1> QED
  BY <1>1, <1>2 DEF TodoIsQueued

\* A replay that waits for a thread holds the lock and is at the row it sent.
LEMMA RowCalled ==
  ASSUME Replays, Callers, NEW d \in Tabs, NEW s \in Threads, thread[s].caller = <<d, "replay">>
  PROVE  /\ replay[d].todo # {}
         /\ replay[d].step = "waiting"
         /\ lock = d
         /\ thread[s].tap = Row(d).tap
BY DEF Replays, Callers

\* A deferred row keeps its place and has one attempt more.
LEMMA DeferredRow ==
  ASSUME Shapes, NEW d \in Tabs, Row(d) \in Copies, Row(d).tap \in DOMAIN queue,
         Row(d).at = queue[Row(d).tap].at, Row(d).attempts = queue[Row(d).tap].attempts,
         queue' = Deferred(d)
  PROVE  /\ DOMAIN queue' = DOMAIN queue
         /\ queue' \in [DOMAIN queue -> [at : 1..enqueued, attempts : Nat, resting : BOOLEAN]]
         /\ queue'[Row(d).tap].at = queue[Row(d).tap].at
         /\ queue'[Row(d).tap].attempts = queue[Row(d).tap].attempts + 1
         /\ \A t \in DOMAIN queue : t # Row(d).tap => queue'[t] = queue[t]
<1> DEFINE r == [at |-> Row(d).at, attempts |-> Row(d).attempts + 1,
                 resting |-> Row(d).attempts + 1 >= BackoffFrom]
<1>1. queue' = [u \in DOMAIN queue |-> IF u = Row(d).tap THEN r ELSE queue[u]]
  BY DEF Deferred, Put
<1>2. queue \in [DOMAIN queue -> [at : 1..enqueued, attempts : Nat, resting : BOOLEAN]]
  BY DEF Shapes, DeviceShapes
<1>3. r \in [at : 1..enqueued, attempts : Nat, resting : BOOLEAN]
  <2>1. Row(d).at \in 1..enqueued
    BY <1>2
  <2>2. Row(d).attempts + 1 \in Nat
    BY DEF Copies
  <2>3. (Row(d).attempts + 1 >= BackoffFrom) \in BOOLEAN
    OBVIOUS
  <2> QED
    BY <2>1, <2>2, <2>3, Zenon
<1> QED
  BY <1>1, <1>2, <1>3

\* The same of the row a replay is at.
LEMMA RowDeferred ==
  ASSUME Shapes, TodoIsQueued, NEW d \in Tabs, replay[d].todo # {}, queue' = Deferred(d)
  PROVE  /\ DOMAIN queue' = DOMAIN queue
         /\ queue' \in [DOMAIN queue -> [at : 1..enqueued, attempts : Nat, resting : BOOLEAN]]
         /\ queue'[Row(d).tap].at = queue[Row(d).tap].at
         /\ queue'[Row(d).tap].attempts = queue[Row(d).tap].attempts + 1
         /\ \A t \in DOMAIN queue : t # Row(d).tap => queue'[t] = queue[t]
BY RowKnown, DeferredRow

\* A row that leaves takes no other with it.
LEMMA RowRemoved ==
  ASSUME Shapes, NEW t, queue' = Without(t)
  PROVE  /\ DOMAIN queue' = DOMAIN queue \ {t}
         /\ \A u \in DOMAIN queue' : queue'[u] = queue[u]
         /\ queue' \in [DOMAIN queue' -> [at : 1..enqueued, attempts : Nat, resting : BOOLEAN]]
BY DEF Without, Restrict, Shapes, DeviceShapes

\* A thread adds its event.
Inserts(s) == \E drafts \in BOOLEAN : events' = Insert(s, drafts)

\* The steps that touch the events.
LEMMA EventCases ==
  ASSUME Shapes, [ClockNext]_clockVars
  PROVE  \/ events' = events
         \/ \E i \in DOMAIN events : Void(i)
         \/ \E s \in Threads :
               /\ Inserts(s)
               /\ ClockIn(s) \/ ClockOut(s)
<1>1. ASSUME NEW s \in Threads, Handle(s) \/ ServerFails(s) \/ SessionExpired(s)
      PROVE  events' = events \/ (Inserts(s) /\ (ClockIn(s) \/ ClockOut(s)))
  <2>1. CASE ClockIn(s) \/ ClockOut(s)
    BY <2>1 DEF ClockIn, ClockOut, Inserts
  <2>2. CASE FindOpenIn(s) \/ DraftEntry(s) \/ ServerFails(s) \/ SessionExpired(s)
    BY <2>2 DEF FindOpenIn, DraftEntry, ServerFails, SessionExpired, Breaks, TurnAway
  <2> QED
    BY <1>1, <2>1, <2>2 DEF Handle
<1>2. ASSUME NEW d \in Tabs, Enqueue(d) \/ SkipRow(d) \/ EndReplay(d) \/ StartReplay(d) \/ RowOffline(d) \/ Reload(d)
      PROVE  events' = events
  BY <1>2 DEF Enqueue, SkipRow, EndReplay, StartReplay, RowOffline, Reload, serverVars
<1>3. ASSUME NEW d \in Tabs, NEW k \in Kinds, TapOffline(d, k) \/ \E s \in Threads : Tap(d, k, s)
      PROVE  events' = events
  BY <1>3 DEF TapOffline, Tap, Arrive, serverVars
<1>4. ASSUME NEW d \in Tabs, NEW s \in Threads,
             \/ SendRow(d, s) \/ RowAnswered(d, s) \/ RowFailed(d, s)
             \/ RowLost(d, s) \/ LiveAnswered(d, s) \/ LiveLost(d, s)
      PROVE  events' = events
  BY <1>4 DEF SendRow, Arrive, RowAnswered, RowFailed, RowLost, LiveAnswered, LiveLost
<1>5. ASSUME NEW t \in DOMAIN queue, BackoffEnds(t) PROVE events' = events
  BY <1>5 DEF BackoffEnds, serverVars
<1>6. CASE UNCHANGED clockVars
  BY <1>6 DEF clockVars, serverVars
<1> QED
  BY <1>1, <1>2, <1>3, <1>4, <1>5, <1>6, StepCases

\* Events keep their kind and their tap.
LEMMA EventsGrow ==
  ASSUME Shapes, [ClockNext]_clockVars
  PROVE  /\ events' \in Seq(Stamps)
         /\ DOMAIN events \subseteq DOMAIN events'
         /\ \A i \in DOMAIN events : events'[i].kind = events[i].kind /\ events'[i].tap = events[i].tap
                                   /\ events'[i].drafts = events[i].drafts
<1>1. events \in Seq(Stamps) /\ thread \in [Threads -> Calls]
  BY DEF Shapes
<1>2. CASE events' = events
  BY <1>1, <1>2
<1>3. ASSUME NEW s \in Threads, Inserts(s)
      PROVE  /\ events' \in Seq(Stamps)
             /\ DOMAIN events \subseteq DOMAIN events'
             /\ \A i \in DOMAIN events : events'[i].kind = events[i].kind /\ events'[i].tap = events[i].tap
                                       /\ events'[i].drafts = events[i].drafts
  <2>0. PICK drafts \in BOOLEAN : events' = Insert(s, drafts)
    BY <1>3 DEF Inserts
  <2> DEFINE e == [kind |-> thread[s].kind, tap |-> thread[s].tap, voided |-> FALSE, drafts |-> drafts]
  <2>1. e \in Stamps
    BY <1>1 DEF Calls, Stamps
  <2>2. events' = Append(events, e)
    BY <2>0 DEF Insert
  <2> HIDE DEF e
  <2> QED
    BY <1>1, <2>1, <2>2
<1>4. ASSUME NEW i \in DOMAIN events, Void(i)
      PROVE  /\ events' \in Seq(Stamps)
             /\ DOMAIN events \subseteq DOMAIN events'
             /\ \A j \in DOMAIN events : events'[j].kind = events[j].kind /\ events'[j].tap = events[j].tap
                                       /\ events'[j].drafts = events[j].drafts
  <2>1. events' = [events EXCEPT ![i].voided = TRUE]
    BY <1>4 DEF Void, VoidEvent
  <2> DEFINE e == [events[i] EXCEPT !.voided = TRUE]
  <2>2. events[i] \in Stamps
    BY <1>1
  <2>3. e \in Stamps /\ e.kind = events[i].kind /\ e.tap = events[i].tap /\ e.drafts = events[i].drafts
    BY <2>2 DEF Stamps
  <2>4. events' = [events EXCEPT ![i] = e]
    BY <2>1
  <2> HIDE DEF e
  <2>5. events' \in Seq(Stamps) /\ DOMAIN events' = DOMAIN events
    BY <1>1, <2>3, <2>4
  <2> QED
    BY <1>1, <2>3, <2>4, <2>5
<1> QED
  BY <1>2, <1>3, <1>4, EventCases

\* The only way an event comes into being.
LEMMA NewEvents ==
  ASSUME Shapes, [ClockNext]_clockVars
  PROVE  \/ DOMAIN events' = DOMAIN events
         \/ \E s \in Threads : Inserts(s) /\ (ClockIn(s) \/ ClockOut(s))
<1>1. events \in Seq(Stamps)
  BY DEF Shapes
<1>2. ASSUME NEW i \in DOMAIN events, Void(i) PROVE DOMAIN events' = DOMAIN events
  BY <1>1, <1>2 DEF Void, VoidEvent
<1> QED
  BY <1>2, EventCases

\* What a request that arrives does to its thread.
LEMMA Arrival ==
  ASSUME Shapes, NEW s \in Threads, NEW t \in Nat, NEW k \in Kinds, NEW c \in Tagged, Arrive(s, t, k, c)
  PROVE  \E new \in Calls :
            /\ new.step = "got" /\ new.kind = k /\ new.tap = t /\ new.caller = c
            /\ thread[s] = Free
            /\ thread' = [thread EXCEPT ![s] = new]
<1> DEFINE new == [Free EXCEPT !.step = "got", !.kind = k, !.tap = t, !.caller = c]
<1>1. new \in Calls /\ new.step = "got" /\ new.kind = k /\ new.tap = t /\ new.caller = c
  BY DEF Free, Calls, Running
<1>2. thread[s] = Free /\ thread' = [thread EXCEPT ![s] = new]
  BY DEF Arrive
<1> QED
  BY <1>1, <1>2

\* A live call arrives.
LEMMA TapArrives ==
  ASSUME Shapes, NEW d \in Tabs, NEW k \in Kinds, NEW s \in Threads, Tap(d, k, s)
  PROVE  /\ Len(taps') = Len(taps) + 1 /\ taps' \in Seq(Kinds) /\ Len(taps) < MaxTaps
         /\ \E new \in Calls :
               /\ new.step = "got" /\ new.kind = k /\ new.tap = Len(taps) + 1 /\ new.caller = <<d, "live">>
               /\ thread[s] = Free
               /\ thread' = [thread EXCEPT ![s] = new]
<1>1. Len(taps') = Len(taps) + 1 /\ taps' \in Seq(Kinds) /\ Len(taps) < MaxTaps /\ Len(taps) \in Nat
  BY DEF Tap, NewTap, Shapes, DeviceShapes
<1>2. Arrive(s, Len(taps) + 1, k, <<d, "live">>)
  BY <1>1 DEF Tap
<1>3. <<d, "live">> \in Tagged
  BY DEF Tagged
<1> QED
  BY <1>1, <1>2, <1>3, Arrival

\* A row that is sent again arrives.
LEMMA RowArrives ==
  ASSUME Shapes, TodoIsQueued, NEW d \in Tabs, NEW s \in Threads, SendRow(d, s)
  PROVE  \E new \in Calls :
            /\ new.step = "got" /\ new.tap = Row(d).tap /\ new.caller = <<d, "replay">>
            /\ thread[s] = Free
            /\ thread' = [thread EXCEPT ![s] = new]
<1>1. replay[d].todo # {}
  BY DEF SendRow, AtRow
<1>2. Row(d).tap \in Nat /\ taps[Row(d).tap] \in Kinds
  BY <1>1, RowKnown DEF Shapes, DeviceShapes
<1>3. Arrive(s, Row(d).tap, taps[Row(d).tap], <<d, "replay">>) /\ <<d, "replay">> \in Tagged
  BY DEF SendRow, Tagged
<1> QED
  BY <1>2, <1>3, Arrival

\* A reload ends the calls of its tab and leaves the others.
LEMMA ReloadHangsUp ==
  ASSUME Shapes, NEW d \in Tabs, Reload(d)
  PROVE  /\ thread' \in [Threads -> Calls]
         /\ \A s \in Threads :
              \/ thread[s].caller \notin {<<d, "live">>, <<d, "replay">>} /\ thread'[s] = thread[s]
              \/ thread[s].caller \in {<<d, "live">>, <<d, "replay">>}
                 /\ thread[s].step \notin Running /\ thread'[s] = Free
              \/ /\ thread[s].caller \in {<<d, "live">>, <<d, "replay">>} /\ thread[s].step \in Running
                 /\ thread'[s] = [thread[s] EXCEPT !.caller = Nobody]
<1> DEFINE mine == {s \in Threads : thread[s].caller # Nobody /\ thread[s].caller[1] = d}
<1>1. thread' = [s \in Threads |-> IF s \in mine THEN HangUp(s) ELSE thread[s]]
  BY DEF Reload
<1>2. \A s \in Threads : thread[s] \in Calls
  BY DEF Shapes
<1>3. \A s \in Threads : s \in mine <=> thread[s].caller \in {<<d, "live">>, <<d, "replay">>}
  BY <1>2, BoundsAreNaturals DEF Calls, Tagged
<1> HIDE DEF mine
<1>4. thread' \in [Threads -> Calls]
  BY <1>1, <1>2, HangUpOf
<1> QED
  BY <1>1, <1>2, <1>3, <1>4, HangUpOf

LEMMA ThreadsStay ==
  ASSUME Shapes, TodoIsQueued, [ClockNext]_clockVars
  PROVE  thread' \in [Threads -> Calls]
<1>1. thread \in [Threads -> Calls]
  BY DEF Shapes
<1>2. ASSUME NEW s \in Threads, \E new \in Calls : thread' = [thread EXCEPT ![s] = new]
      PROVE  thread' \in [Threads -> Calls]
  BY <1>1, <1>2
<1>3. ASSUME NEW d \in Tabs, Enqueue(d) \/ SkipRow(d) \/ EndReplay(d) \/ StartReplay(d) \/ RowOffline(d)
      PROVE  thread' = thread
  BY <1>3 DEF Enqueue, SkipRow, EndReplay, StartReplay, RowOffline, serverVars
<1>4. ASSUME NEW d \in Tabs, Reload(d) PROVE thread' \in [Threads -> Calls]
  BY <1>4, ReloadHangsUp
<1>5. ASSUME NEW d \in Tabs, NEW k \in Kinds, TapOffline(d, k) PROVE thread' = thread
  BY <1>5 DEF TapOffline, serverVars
<1>6. ASSUME NEW d \in Tabs, NEW k \in Kinds, NEW s \in Threads, Tap(d, k, s)
      PROVE  thread' \in [Threads -> Calls]
  BY <1>2, <1>6, TapArrives
<1>7. ASSUME NEW d \in Tabs, NEW s \in Threads, SendRow(d, s) PROVE thread' \in [Threads -> Calls]
  BY <1>2, <1>7, RowArrives
<1>8. ASSUME NEW d \in Tabs, NEW s \in Threads,
             \/ RowAnswered(d, s) \/ RowFailed(d, s)
             \/ RowLost(d, s) \/ LiveAnswered(d, s) \/ LiveLost(d, s)
      PROVE  thread' \in [Threads -> Calls]
  <2>1. \/ thread[s].step \notin Running /\ thread' = [thread EXCEPT ![s] = Free]
        \/ thread' = [thread EXCEPT ![s] = HangUp(s)]
    BY <1>8, DeviceEndsCalls
  <2> QED
    BY <1>2, <2>1, CallEnds
<1>9. ASSUME NEW s \in Threads, Handle(s) \/ ServerFails(s) \/ SessionExpired(s)
      PROVE  thread' \in [Threads -> Calls]
  BY <1>2, <1>9, ServerMoves
<1>10. ASSUME NEW i \in DOMAIN events, Void(i) PROVE thread' = thread
  BY <1>10 DEF Void, VoidEvent
<1>11. ASSUME NEW t \in DOMAIN queue, BackoffEnds(t) PROVE thread' = thread
  BY <1>11 DEF BackoffEnds, serverVars
<1>12. CASE UNCHANGED clockVars
  BY <1>1, <1>12 DEF clockVars, serverVars
<1> QED
  BY <1>1, <1>3, <1>4, <1>5, <1>6, <1>7, <1>8, <1>9, <1>10, <1>11, <1>12, StepCases

LEMMA DeviceStays ==
  ASSUME Shapes, Replays, TodoIsQueued, Callers, LiveTaps, [ClockNext]_clockVars
  PROVE  DeviceShapes'
<1>1. DeviceShapes /\ MaxFaults \in Nat /\ MaxTaps \in Nat /\ Len(taps) \in Nat
  BY BoundsAreNaturals DEF Shapes, DeviceShapes
<1> DEFINE Rowed == [at : 1..enqueued, attempts : Nat, resting : BOOLEAN]
<1>2. ASSUME NEW d \in Tabs, replay[d].todo # {} PROVE NextRow(d) \in [todo : SUBSET Copies, step : {"idle", "next", "waiting"}]
  BY <1>1 DEF NextRow, DeviceShapes
<1>3. NoReplay \in [todo : SUBSET Copies, step : {"idle", "next", "waiting"}]
      /\ NoCall \in [tap : Nat, step : {"idle", "waiting", "queueing"}]
  BY DEF NoReplay, NoCall
<1>4. ASSUME Fault PROVE faults' \in 0..MaxFaults
  BY <1>1, <1>4 DEF Fault, DeviceShapes
<1>5. ASSUME NEW t \in TapIds, unsure' = [unsure EXCEPT ![t] = @ + 1] PROVE unsure' \in [TapIds -> Nat]
  BY <1>1, <1>5 DEF DeviceShapes
<1>6. 1..Len(taps) \subseteq TapIds
  BY <1>1 DEF TapIds, DeviceShapes
<1>7. ASSUME NEW d \in Tabs, Enqueue(d) PROVE DeviceShapes'
  <2>1. live[d].tap \in 1..Len(taps)
    BY <1>7 DEF Enqueue, LiveTaps, Idle
  <2> DEFINE r == [at |-> enqueued + 1, attempts |-> 0, resting |-> FALSE]
  <2>2. r \in [at : 1..(enqueued + 1), attempts : Nat, resting : BOOLEAN]
        /\ Rowed \subseteq [at : 1..(enqueued + 1), attempts : Nat, resting : BOOLEAN]
    BY <1>1 DEF DeviceShapes
  <2>3. queue' = [u \in DOMAIN queue \union {live[d].tap} |-> IF u = live[d].tap THEN r ELSE queue[u]]
    BY <1>7 DEF Enqueue, Put
  <2> HIDE DEF r
  <2>4. DOMAIN queue' = DOMAIN queue \union {live[d].tap}
        /\ \A u \in DOMAIN queue' : queue'[u] \in [at : 1..(enqueued + 1), attempts : Nat, resting : BOOLEAN]
    BY <1>1, <2>2, <2>3 DEF DeviceShapes
  <2>5. queue' \in [DOMAIN queue' -> [at : 1..(enqueued + 1), attempts : Nat, resting : BOOLEAN]]
    BY <2>3, <2>4
  <2>6. live' \in [Tabs -> [tap : Nat, step : {"idle", "waiting", "queueing"}]]
    BY <1>1, <1>3, <1>7 DEF Enqueue, DeviceShapes
  <2>7. enqueued' = enqueued + 1 /\ taps' = taps /\ replay' = replay
        /\ lock' = lock /\ faults' = faults /\ unsure' = unsure
    BY <1>7 DEF Enqueue, history
  <2> QED
    BY <1>1, <2>1, <2>4, <2>5, <2>6, <2>7 DEF DeviceShapes
<1>8. ASSUME NEW d \in Tabs, SkipRow(d) PROVE DeviceShapes'
  BY <1>1, <1>2, <1>8 DEF SkipRow, AtRow, DeviceShapes, history
<1>9. ASSUME NEW d \in Tabs, EndReplay(d) PROVE DeviceShapes'
  BY <1>1, <1>3, <1>9 DEF EndReplay, DeviceShapes, history
<1>10. ASSUME NEW d \in Tabs, StartReplay(d) PROVE DeviceShapes'
  <2>1. Rows \subseteq Copies
    BY <1>1 DEF Rows, Copies, DeviceShapes
  <2> QED
    BY <1>1, <1>10, <2>1 DEF StartReplay, DeviceShapes, history
<1>11. ASSUME NEW d \in Tabs, RowOffline(d) PROVE DeviceShapes'
  <2>1. replay[d].todo # {}
    BY <1>11 DEF RowOffline, AtRow
  <2>2. DOMAIN queue' = DOMAIN queue /\ queue' \in [DOMAIN queue -> Rowed]
    BY <1>11, <2>1, RowDeferred DEF RowOffline
  <2> QED
    BY <1>1, <1>2, <1>4, <1>11, <2>1, <2>2 DEF RowOffline, DeviceShapes, history
<1>12. ASSUME NEW d \in Tabs, Reload(d) PROVE DeviceShapes'
  <2>1. unsure' \in [TapIds -> Nat]
    <3> DEFINE mine == {s \in Threads : thread[s].caller # Nobody /\ thread[s].caller[1] = d}
               called == {thread[s].tap : s \in mine}
    <3>1. unsure' = [t \in TapIds |-> unsure[t] + IF t \in called THEN 1 ELSE 0]
      BY <1>12 DEF Reload
    <3> HIDE DEF called, mine
    <3> QED
      BY <1>1, <3>1 DEF DeviceShapes
  <2>2. lock' \in Tabs \union {NoTab}
    BY <1>1, <1>12 DEF Reload, DeviceShapes
  <2>3. /\ live' = [live EXCEPT ![d] = NoCall] /\ replay' = [replay EXCEPT ![d] = NoReplay]
        /\ taps' = taps /\ queue' = queue /\ enqueued' = enqueued
    BY <1>12 DEF Reload
  <2> QED
    BY <1>1, <1>3, <1>4, <1>12, <2>1, <2>2, <2>3 DEF Reload, DeviceShapes
<1>13. ASSUME NEW d \in Tabs, NEW k \in Kinds, TapOffline(d, k) PROVE DeviceShapes'
  <2>1. Len(taps') = Len(taps) + 1 /\ taps' \in Seq(Kinds) /\ Len(taps') <= MaxTaps
    BY <1>1, <1>13 DEF TapOffline, NewTap, DeviceShapes
  <2>2. live' \in [Tabs -> [tap : Nat, step : {"idle", "waiting", "queueing"}]]
    BY <1>1, <1>13, <2>1 DEF TapOffline, DeviceShapes
  <2> QED
    BY <1>1, <1>4, <1>13, <2>1, <2>2 DEF TapOffline, DeviceShapes, history
<1>14. ASSUME NEW d \in Tabs, NEW k \in Kinds, NEW s \in Threads, Tap(d, k, s) PROVE DeviceShapes'
  <2>1. Len(taps') = Len(taps) + 1 /\ taps' \in Seq(Kinds) /\ Len(taps') <= MaxTaps
    BY <1>1, <1>14, TapArrives
  <2>2. live' \in [Tabs -> [tap : Nat, step : {"idle", "waiting", "queueing"}]]
    BY <1>1, <1>14, <2>1 DEF Tap, DeviceShapes
  <2> QED
    BY <1>1, <1>14, <2>1, <2>2 DEF Tap, DeviceShapes, history
<1>15. ASSUME NEW d \in Tabs, NEW s \in Threads, SendRow(d, s) PROVE DeviceShapes'
  BY <1>1, <1>15 DEF SendRow, DeviceShapes, history
<1>16. ASSUME NEW d \in Tabs, NEW s \in Threads, RowAnswered(d, s) PROVE DeviceShapes'
  <2>1. replay[d].todo # {}
    BY <1>16, RowCalled DEF RowAnswered
  <2>2. DOMAIN queue' \subseteq DOMAIN queue /\ queue' \in [DOMAIN queue' -> Rowed]
    BY <1>16, RowRemoved DEF RowAnswered
  <2> QED
    BY <1>1, <1>2, <1>16, <2>1, <2>2 DEF RowAnswered, DeviceShapes
<1>17. ASSUME NEW d \in Tabs, NEW s \in Threads, RowFailed(d, s) PROVE DeviceShapes'
  <2>1. replay[d].todo # {}
    BY <1>17, RowCalled DEF RowFailed
  <2>2. DOMAIN queue' = DOMAIN queue /\ queue' \in [DOMAIN queue -> Rowed]
    BY <1>17, <2>1, RowDeferred DEF RowFailed
  <2> QED
    BY <1>1, <1>2, <1>17, <2>1, <2>2 DEF RowFailed, DeviceShapes, history
<1>18. ASSUME NEW d \in Tabs, NEW s \in Threads, RowLost(d, s) PROVE DeviceShapes'
  <2>1. replay[d].todo # {}
    BY <1>18, RowCalled DEF RowLost
  <2>2. DOMAIN queue' = DOMAIN queue /\ queue' \in [DOMAIN queue -> Rowed]
    BY <1>18, <2>1, RowDeferred DEF RowLost
  <2>3. Row(d).tap \in TapIds
    BY <1>1, <1>6, <2>1, RowKnown DEF DeviceShapes
  <2>4. unsure' \in [TapIds -> Nat]
    BY <1>5, <1>18, <2>3 DEF RowLost
  <2> QED
    BY <1>1, <1>2, <1>4, <1>18, <2>1, <2>2, <2>4 DEF RowLost, DeviceShapes
<1>19. ASSUME NEW d \in Tabs, NEW s \in Threads, LiveAnswered(d, s) PROVE DeviceShapes'
  BY <1>1, <1>3, <1>19 DEF LiveAnswered, DeviceShapes
<1>20. ASSUME NEW d \in Tabs, NEW s \in Threads, LiveLost(d, s) PROVE DeviceShapes'
  <2>1. live[d].tap \in TapIds
    BY <1>6, <1>20 DEF LiveLost, Callers, LiveTaps, Idle
  <2>2. unsure' \in [TapIds -> Nat]
    BY <1>5, <1>20, <2>1 DEF LiveLost
  <2>3. live' \in [Tabs -> [tap : Nat, step : {"idle", "waiting", "queueing"}]]
    BY <1>1, <1>20 DEF LiveLost, DeviceShapes
  <2> QED
    BY <1>1, <1>4, <1>20, <2>2, <2>3 DEF LiveLost, DeviceShapes
<1>21. ASSUME NEW s \in Threads, Handle(s) \/ ServerFails(s) \/ SessionExpired(s) PROVE DeviceShapes'
  <2>1. UNCHANGED deviceVars /\ faults' \in 0..MaxFaults
    BY <1>21, ServerMoves
  <2>2. unsure' \in [TapIds -> Nat]
    <3>1. CASE Handle(s) \/ SessionExpired(s)
      BY <1>1, <3>1 DEF Handle, SessionExpired, history, DeviceShapes
    <3>2. CASE ServerFails(s)
      <4>1. unsure' = [unsure EXCEPT ![thread[s].tap] = @ + 1]
        BY <3>2 DEF ServerFails
      <4> QED
        BY <1>1, <1>5, <4>1 DEF DeviceShapes
    <3> QED
      BY <1>21, <3>1, <3>2
  <2> QED
    BY <1>1, <2>1, <2>2 DEF deviceVars, DeviceShapes
<1>22. ASSUME NEW i \in DOMAIN events, Void(i) PROVE DeviceShapes'
  BY <1>1, <1>22 DEF Void, deviceVars, history, DeviceShapes
<1>23. ASSUME NEW t \in DOMAIN queue, BackoffEnds(t) PROVE DeviceShapes'
  <2>1. queue' \in [DOMAIN queue -> Rowed]
    BY <1>1, <1>23 DEF BackoffEnds, DeviceShapes
  <2>2. DOMAIN queue' = DOMAIN queue
    BY <2>1
  <2> QED
    BY <1>1, <1>23, <2>1, <2>2 DEF BackoffEnds, history, DeviceShapes
<1>24. CASE UNCHANGED clockVars
  BY <1>1, <1>24 DEF clockVars, deviceVars, history, DeviceShapes
<1> QED
  BY <1>7, <1>8, <1>9, <1>10, <1>11, <1>12, <1>13, <1>14, <1>15, <1>16, <1>17, <1>18, <1>19,
     <1>20, <1>21, <1>22, <1>23, <1>24, StepCases

\* The API's steps leave the device as it is.
LEMMA ServerLeavesDevice ==
  ASSUME Shapes,
         \/ \E s \in Threads : Handle(s) \/ ServerFails(s) \/ SessionExpired(s)
         \/ \E i \in DOMAIN events : Void(i)
         \/ UNCHANGED clockVars
  PROVE  UNCHANGED deviceVars
BY ServerMoves DEF Void, clockVars

\* What a step of a replay does to the queue: its domain stays or loses the
\* row's tap, and places stay.
LEMMA ReplayKeepsPlaces ==
  ASSUME Shapes, Replays, TodoIsQueued, Callers, NEW d \in Tabs,
         RowOffline(d) \/ \E s \in Threads : RowAnswered(d, s) \/ RowFailed(d, s) \/ RowLost(d, s)
  PROVE  /\ UNCHANGED <<taps, live, enqueued, lock>>
         /\ lock = d
         /\ replay[d].todo # {}
         /\ replay' = [replay EXCEPT ![d] = NextRow(d)]
         /\ DOMAIN queue' \subseteq DOMAIN queue
         /\ DOMAIN queue \ DOMAIN queue' \subseteq {Row(d).tap}
         /\ \A t \in DOMAIN queue' :
               /\ queue'[t].at = queue[t].at
               /\ t # Row(d).tap => queue'[t] = queue[t]
<1>1. replay[d].todo # {} /\ lock = d
  BY RowCalled DEF RowAnswered, RowFailed, RowLost, RowOffline, AtRow, Replays
<1>2. UNCHANGED <<taps, live, enqueued, lock>> /\ replay' = [replay EXCEPT ![d] = NextRow(d)]
  BY DEF RowAnswered, RowFailed, RowLost, RowOffline
<1>3. CASE \E s \in Threads : RowAnswered(d, s)
  <2>1. queue' = Without(Row(d).tap)
    BY <1>3 DEF RowAnswered
  <2> QED
    BY <1>1, <1>2, <2>1, RowRemoved
<1>4. CASE RowOffline(d) \/ \E s \in Threads : RowFailed(d, s) \/ RowLost(d, s)
  <2>1. queue' = Deferred(d)
    BY <1>4 DEF RowFailed, RowLost, RowOffline
  <2> QED
    BY <1>1, <1>2, <2>1, RowDeferred
<1> QED
  BY <1>3, <1>4

\* A tap joins the queue behind the others.
LEMMA EnqueueAdds ==
  ASSUME NEW d \in Tabs, Enqueue(d)
  PROVE  /\ DOMAIN queue' = DOMAIN queue \union {live[d].tap}
         /\ queue'[live[d].tap].at = enqueued + 1
         /\ queue'[live[d].tap].attempts = 0
         /\ \A t \in DOMAIN queue : t # live[d].tap => queue'[t] = queue[t]
<1> DEFINE r == [at |-> enqueued + 1, attempts |-> 0, resting |-> FALSE]
<1>1. r.at = enqueued + 1 /\ r.attempts = 0
  OBVIOUS
<1>2. queue' = [u \in DOMAIN queue \union {live[d].tap} |-> IF u = live[d].tap THEN r ELSE queue[u]]
  BY DEF Enqueue, Put
<1> HIDE DEF r
<1> QED
  BY <1>1, <1>2

LEMMA LiveTapsStay ==
  ASSUME Shapes, LiveTaps, Replays, TodoIsQueued, Callers, [ClockNext]_clockVars
  PROVE  LiveTaps'
<1>1. Len(taps) \in Nat /\ live \in [Tabs -> [tap : Nat, step : {"idle", "waiting", "queueing"}]]
      /\ DOMAIN queue \subseteq 1..Len(taps)
  BY DEF Shapes, DeviceShapes
<1>2. ASSUME UNCHANGED <<taps, live>>, DOMAIN queue' \subseteq DOMAIN queue
      PROVE  LiveTaps'
  BY <1>2 DEF LiveTaps, Idle
<1>3. ASSUME NEW d \in Tabs, SkipRow(d) \/ EndReplay(d) \/ StartReplay(d)
      PROVE  LiveTaps'
  BY <1>2, <1>3 DEF SkipRow, EndReplay, StartReplay
<1>4. ASSUME NEW d \in Tabs, NEW s \in Threads, SendRow(d, s) PROVE LiveTaps'
  BY <1>2, <1>4 DEF SendRow
<1>5. ASSUME NEW d \in Tabs, NEW s \in Threads,
             RowAnswered(d, s) \/ RowFailed(d, s) \/ RowLost(d, s)
      PROVE  LiveTaps'
  BY <1>2, <1>5, ReplayKeepsPlaces
<1>6. ASSUME NEW d \in Tabs, RowOffline(d) PROVE LiveTaps'
  BY <1>2, <1>6, ReplayKeepsPlaces
<1>7. ASSUME NEW t \in DOMAIN queue, BackoffEnds(t) PROVE LiveTaps'
  BY <1>2, <1>7 DEF BackoffEnds
<1>8. ASSUME NEW d \in Tabs, live' = [live EXCEPT ![d] = NoCall], taps' = taps, queue' = queue
      PROVE  LiveTaps'
  BY <1>1, <1>8 DEF LiveTaps, Idle, NoCall
<1>9. ASSUME NEW d \in Tabs, Enqueue(d) PROVE LiveTaps'
  <2>1. live' = [live EXCEPT ![d] = NoCall] /\ taps' = taps
    BY <1>9 DEF Enqueue
  <2>2. ~Idle(d)
    BY <1>9 DEF Enqueue, Idle
  <2>3. live'[d] = NoCall /\ \A e \in Tabs : e # d => live'[e] = live[e] /\ (Idle(e)' <=> Idle(e))
    BY <1>1, <2>1 DEF Idle
  <2>4. DOMAIN queue' = DOMAIN queue \union {live[d].tap}
    BY <1>9, EnqueueAdds
  <2>5. Idle(d)' /\ live'[d].tap = 0
    BY <2>3 DEF Idle, NoCall
  <2>6. ASSUME NEW e \in Tabs, ~Idle(e)' PROVE live'[e].tap \in (1..Len(taps)) \ DOMAIN queue'
    BY <2>2, <2>3, <2>4, <2>5, <2>6 DEF LiveTaps
  <2>7. ASSUME NEW e \in Tabs, NEW f \in Tabs, ~Idle(e)', live'[e].tap = live'[f].tap PROVE e = f
    BY <2>3, <2>5, <2>6, <2>7 DEF LiveTaps
  <2> QED
    BY <2>1, <2>3, <2>5, <2>6, <2>7 DEF LiveTaps
<1>10. ASSUME NEW d \in Tabs, Reload(d) PROVE LiveTaps'
  BY <1>8, <1>10 DEF Reload
<1>11. ASSUME NEW d \in Tabs, NEW s \in Threads, LiveAnswered(d, s) PROVE LiveTaps'
  BY <1>8, <1>11 DEF LiveAnswered
<1>12. ASSUME NEW d \in Tabs, NEW s \in Threads, LiveLost(d, s) PROVE LiveTaps'
  <2>1. live' = [live EXCEPT ![d].step = "queueing"] /\ taps' = taps /\ queue' = queue
    BY <1>12 DEF LiveLost
  <2>2. ~Idle(d)
    BY <1>12 DEF LiveLost, Callers, Idle
  <2> QED
    BY <1>1, <2>1, <2>2 DEF LiveTaps, Idle
<1>13. ASSUME NEW d \in Tabs, live[d].step = "idle", taps' \in Seq(Kinds), Len(taps') = Len(taps) + 1, queue' = queue,
              NEW step \in {"waiting", "queueing"}, live' = [live EXCEPT ![d] = [tap |-> Len(taps'), step |-> step]]
       PROVE  LiveTaps'
  BY <1>1, <1>13 DEF LiveTaps, Idle
<1>14. ASSUME NEW d \in Tabs, NEW k \in Kinds, TapOffline(d, k) PROVE LiveTaps'
  <2>1. Len(taps') = Len(taps) + 1 /\ taps' \in Seq(Kinds)
    BY <1>14 DEF TapOffline, NewTap, Shapes, DeviceShapes
  <2> QED
    BY <1>13, <1>14, <2>1 DEF TapOffline, NewTap
<1>15. ASSUME NEW d \in Tabs, NEW k \in Kinds, NEW s \in Threads, Tap(d, k, s) PROVE LiveTaps'
  BY <1>13, <1>15, TapArrives DEF Tap, NewTap
<1>16. CASE UNCHANGED deviceVars
  BY <1>2, <1>16 DEF deviceVars
<1> QED
  BY <1>3, <1>4, <1>5, <1>6, <1>7, <1>9, <1>10, <1>11, <1>12, <1>14, <1>15, <1>16,
     ServerLeavesDevice, StepCases

LEMMA ReplaysStay ==
  ASSUME Shapes, Replays, TodoIsQueued, Callers, [ClockNext]_clockVars
  PROVE  Replays'
<1>1. replay \in [Tabs -> [todo : SUBSET Copies, step : {"idle", "next", "waiting"}]] /\ NoTab \notin Tabs
  BY BoundsAreNaturals DEF Shapes, DeviceShapes
<1>2. ASSUME UNCHANGED <<replay, lock>> PROVE Replays'
  BY <1>2 DEF Replays, LockIsInUse
<1>3. ASSUME NEW d \in Tabs, replay' = [replay EXCEPT ![d] = NextRow(d)], lock' = lock, lock = d
      PROVE  Replays'
  BY <1>1, <1>3 DEF Replays, LockIsInUse, NextRow
<1>4. ASSUME NEW d \in Tabs, SkipRow(d) PROVE Replays'
  BY <1>3, <1>4 DEF SkipRow, AtRow, Replays, LockIsInUse
<1>5. ASSUME NEW d \in Tabs, EndReplay(d) PROVE Replays'
  BY <1>1, <1>5 DEF EndReplay, Replays, LockIsInUse, NoReplay
<1>6. ASSUME NEW d \in Tabs, StartReplay(d) PROVE Replays'
  BY <1>1, <1>6 DEF StartReplay, MayReplay, Replays, LockIsInUse
<1>7. ASSUME NEW d \in Tabs, RowOffline(d) PROVE Replays'
  BY <1>3, <1>7 DEF RowOffline, AtRow, Replays, LockIsInUse
<1>8. ASSUME NEW d \in Tabs, Reload(d) PROVE Replays'
  BY <1>1, <1>8 DEF Reload, Replays, LockIsInUse, NoReplay
<1>9. ASSUME NEW d \in Tabs, NEW s \in Threads, SendRow(d, s) PROVE Replays'
  BY <1>1, <1>9 DEF SendRow, AtRow, Replays, LockIsInUse
<1>10. ASSUME NEW d \in Tabs, NEW s \in Threads,
              RowAnswered(d, s) \/ RowFailed(d, s) \/ RowLost(d, s)
       PROVE  Replays'
  BY <1>3, <1>10, ReplayKeepsPlaces
<1>11. ASSUME NEW d \in Tabs, NEW s \in Threads, LiveAnswered(d, s) \/ LiveLost(d, s) PROVE Replays'
  BY <1>2, <1>11 DEF LiveAnswered, LiveLost
<1>12. ASSUME NEW d \in Tabs, Enqueue(d) PROVE Replays'
  BY <1>2, <1>12 DEF Enqueue
<1>13. ASSUME NEW d \in Tabs, NEW k \in Kinds, TapOffline(d, k) \/ \E s \in Threads : Tap(d, k, s) PROVE Replays'
  BY <1>2, <1>13 DEF TapOffline, Tap
<1>14. ASSUME NEW t \in DOMAIN queue, BackoffEnds(t) PROVE Replays'
  BY <1>2, <1>14 DEF BackoffEnds
<1>15. CASE UNCHANGED deviceVars
  BY <1>2, <1>15 DEF deviceVars
<1> QED
  BY <1>4, <1>5, <1>6, <1>7, <1>8, <1>9, <1>10, <1>11, <1>12, <1>13, <1>14, <1>15,
     ServerLeavesDevice, StepCases

ReplayStep(d) == RowOffline(d) \/ \E s \in Threads : RowAnswered(d, s) \/ RowFailed(d, s) \/ RowLost(d, s)

\* Every step of the device, by what it does to the queue and the replays.
LEMMA QueueCases ==
  ASSUME Shapes, [ClockNext]_clockVars
  PROVE  \/ UNCHANGED <<queue, enqueued, replay>>
         \/ \E d \in Tabs : Enqueue(d) \/ SkipRow(d) \/ EndReplay(d) \/ StartReplay(d) \/ Reload(d)
         \/ \E d \in Tabs, s \in Threads : SendRow(d, s)
         \/ \E d \in Tabs : ReplayStep(d)
         \/ \E t \in DOMAIN queue : BackoffEnds(t)
<1>1. ASSUME NEW d \in Tabs, NEW s \in Threads, LiveAnswered(d, s) \/ LiveLost(d, s)
      PROVE  UNCHANGED <<queue, enqueued, replay>>
  BY <1>1 DEF LiveAnswered, LiveLost
<1>2. ASSUME NEW d \in Tabs, NEW k \in Kinds, TapOffline(d, k) \/ \E s \in Threads : Tap(d, k, s)
      PROVE  UNCHANGED <<queue, enqueued, replay>>
  BY <1>2 DEF TapOffline, Tap
<1>3. CASE UNCHANGED deviceVars
  BY <1>3 DEF deviceVars
<1> QED
  BY <1>1, <1>2, <1>3, ServerLeavesDevice, StepCases DEF ReplayStep

\* Only Enqueue adds a row.
LEMMA QueueSteps ==
  ASSUME Shapes, Replays, TodoIsQueued, Callers, [ClockNext]_clockVars
  PROVE  DOMAIN queue' \subseteq DOMAIN queue \/ \E d \in Tabs : Enqueue(d)
<1>1. ASSUME NEW d \in Tabs, SkipRow(d) \/ EndReplay(d) \/ StartReplay(d) \/ Reload(d) \/ \E s \in Threads : SendRow(d, s)
      PROVE  queue' = queue
  BY <1>1 DEF SkipRow, EndReplay, StartReplay, Reload, SendRow
<1>2. ASSUME NEW d \in Tabs, ReplayStep(d) PROVE DOMAIN queue' \subseteq DOMAIN queue
  BY <1>2, ReplayKeepsPlaces DEF ReplayStep
<1>3. ASSUME NEW t \in DOMAIN queue, BackoffEnds(t) PROVE DOMAIN queue' = DOMAIN queue
  BY <1>3 DEF BackoffEnds, Shapes, DeviceShapes
<1> QED
  BY <1>1, <1>2, <1>3, QueueCases

\* A replay holds no row twice.
LEMMA OneCopyOfARow ==
  ASSUME Shapes, TodoIsQueued, NEW d \in Tabs, NEW a \in replay[d].todo, NEW b \in replay[d].todo, a.tap = b.tap
  PROVE  a = b
<1>1. a \in Copies /\ b \in Copies
  BY DEF Shapes, DeviceShapes
<1>2. a.at = b.at /\ a.attempts = b.attempts
  BY DEF TodoIsQueued
<1> QED
  BY <1>1, <1>2 DEF Copies

LEMMA TodoStays ==
  ASSUME Shapes, LiveTaps, Replays, TodoIsQueued, Callers, [ClockNext]_clockVars
  PROVE  TodoIsQueued'
<1>1. replay \in [Tabs -> [todo : SUBSET Copies, step : {"idle", "next", "waiting"}]]
      /\ queue \in [DOMAIN queue -> [at : 1..enqueued, attempts : Nat, resting : BOOLEAN]]
  BY DEF Shapes, DeviceShapes
<1>2. ASSUME DOMAIN queue \subseteq DOMAIN queue',
             \A t \in DOMAIN queue : queue'[t].at = queue[t].at /\ queue'[t].attempts = queue[t].attempts,
             \A d \in Tabs : replay'[d].todo \subseteq replay[d].todo
      PROVE  TodoIsQueued'
  BY <1>2 DEF TodoIsQueued
<1>3. ASSUME NEW d \in Tabs, queue' = queue, replay' = [replay EXCEPT ![d] = NextRow(d)]
      PROVE  TodoIsQueued'
  BY <1>1, <1>2, <1>3 DEF NextRow
<1>4. ASSUME NEW d \in Tabs, queue' = queue, replay' = [replay EXCEPT ![d] = NoReplay]
      PROVE  TodoIsQueued'
  BY <1>1, <1>2, <1>4 DEF NoReplay
<1>5. ASSUME NEW d \in Tabs, Enqueue(d) PROVE TodoIsQueued'
  <2>1. live[d].tap \notin DOMAIN queue
    BY <1>5 DEF Enqueue, LiveTaps, Idle
  <2>2. replay' = replay
    BY <1>5 DEF Enqueue
  <2> QED
    BY <1>2, <1>5, <2>1, <2>2, EnqueueAdds
<1>6. ASSUME NEW d \in Tabs, SkipRow(d) PROVE TodoIsQueued'
  BY <1>3, <1>6 DEF SkipRow
<1>7. ASSUME NEW d \in Tabs, EndReplay(d) \/ Reload(d) PROVE TodoIsQueued'
  BY <1>4, <1>7 DEF EndReplay, Reload
<1>8. ASSUME NEW d \in Tabs, StartReplay(d) PROVE TodoIsQueued'
  <2>1. queue' = queue /\ replay' = [replay EXCEPT ![d] = [todo |-> Rows, step |-> "next"]]
    BY <1>8 DEF StartReplay
  <2>2. \A copy \in Rows :
          copy.tap \in DOMAIN queue /\ copy.at = queue[copy.tap].at /\ copy.attempts = queue[copy.tap].attempts
    BY DEF Rows
  <2> QED
    BY <1>1, <2>1, <2>2 DEF TodoIsQueued
<1>9. ASSUME NEW d \in Tabs, NEW s \in Threads, SendRow(d, s) PROVE TodoIsQueued'
  <2>1. queue' = queue /\ replay' = [replay EXCEPT ![d].step = "waiting"]
    BY <1>9 DEF SendRow
  <2>2. \A e \in Tabs : replay'[e].todo = replay[e].todo
    BY <1>1, <2>1
  <2> QED
    BY <1>2, <2>1, <2>2
<1>10. ASSUME NEW d \in Tabs, ReplayStep(d) PROVE TodoIsQueued'
  <2>1. /\ lock = d /\ replay[d].todo # {}
        /\ replay' = [replay EXCEPT ![d] = NextRow(d)]
        /\ DOMAIN queue' \subseteq DOMAIN queue
        /\ DOMAIN queue \ DOMAIN queue' \subseteq {Row(d).tap}
        /\ \A t \in DOMAIN queue' : t # Row(d).tap => queue'[t] = queue[t]
    BY <1>10, ReplayKeepsPlaces DEF ReplayStep
  <2>2. \A e \in Tabs : e # d => replay'[e].todo = {}
    BY <1>1, <2>1 DEF Replays
  <2>3. Row(d) \in replay[d].todo
    BY <2>1, RowKnown
  <2>4. ASSUME NEW copy \in replay'[d].todo
        PROVE  copy.tap \in DOMAIN queue' /\ queue'[copy.tap] = queue[copy.tap] /\ copy \in replay[d].todo
    <3>1. copy \in replay[d].todo /\ copy # Row(d)
      BY <1>1, <2>1, <2>4 DEF NextRow
    <3>2. copy.tap # Row(d).tap
      BY <2>3, <3>1, OneCopyOfARow
    <3>3. copy.tap \in DOMAIN queue
      BY <3>1 DEF TodoIsQueued
    <3> QED
      BY <2>1, <3>1, <3>2, <3>3
  <2> QED
    BY <2>2, <2>4 DEF TodoIsQueued
<1>11. ASSUME NEW t \in DOMAIN queue, BackoffEnds(t) PROVE TodoIsQueued'
  BY <1>1, <1>2, <1>11 DEF BackoffEnds
<1>12. CASE UNCHANGED <<queue, replay>>
  BY <1>2, <1>12
<1> QED
  BY <1>5, <1>6, <1>7, <1>8, <1>9, <1>10, <1>11, <1>12, QueueCases

\* What a step does to a thread: nothing, or it frees it, takes its caller
\* away, serves its request, or gives it a new one.
ThreadMove(s) ==
    \/ thread'[s] = thread[s]
    \/ thread[s].step \notin Running /\ thread'[s] = Free
    \/ thread[s].step \in Running /\ thread'[s] = [thread[s] EXCEPT !.caller = Nobody]
    \/ Handle(s) \/ ServerFails(s) \/ SessionExpired(s)
    \/ thread[s] = Free /\ thread'[s].step = "got" /\ thread'[s].tap \in 1..Len(taps')

LEMMA ThreadsMove ==
  ASSUME Shapes, TodoIsQueued, [ClockNext]_clockVars
  PROVE  \A s \in Threads : ThreadMove(s)
<1>1. thread \in [Threads -> Calls]
  BY DEF Shapes
<1>2. CASE thread' = thread
  BY <1>2 DEF ThreadMove
<1>3. ASSUME NEW s \in Threads, NEW new \in Calls, thread' = [thread EXCEPT ![s] = new],
             \/ thread[s].step \notin Running /\ new = Free
             \/ thread[s].step \in Running /\ new = [thread[s] EXCEPT !.caller = Nobody]
             \/ thread[s] = Free /\ new.step = "got" /\ new.tap \in 1..Len(taps')
      PROVE  \A r \in Threads : ThreadMove(r)
  <2>1. thread'[s] = new /\ \A r \in Threads : r # s => thread'[r] = thread[r]
    BY <1>1, <1>3
  <2>2. ThreadMove(s)
    BY <1>3, <2>1 DEF ThreadMove
  <2> QED
    BY <2>1, <2>2 DEF ThreadMove
<1>4. ASSUME NEW d \in Tabs, Enqueue(d) \/ SkipRow(d) \/ EndReplay(d) \/ StartReplay(d) \/ RowOffline(d)
      PROVE  thread' = thread
  BY <1>4 DEF Enqueue, SkipRow, EndReplay, StartReplay, RowOffline, serverVars
<1>5. ASSUME NEW d \in Tabs, Reload(d) PROVE \A s \in Threads : ThreadMove(s)
  BY <1>5, ReloadHangsUp DEF ThreadMove
<1>6. ASSUME NEW d \in Tabs, NEW k \in Kinds, TapOffline(d, k) PROVE thread' = thread
  BY <1>6 DEF TapOffline, serverVars
<1>7. ASSUME NEW d \in Tabs, NEW k \in Kinds, NEW s \in Threads, Tap(d, k, s)
      PROVE  \A r \in Threads : ThreadMove(r)
  <2>1. Len(taps) \in Nat
    BY DEF Shapes, DeviceShapes
  <2> QED
    BY <1>3, <1>7, <2>1, TapArrives
<1>8. ASSUME NEW d \in Tabs, NEW s \in Threads, SendRow(d, s)
      PROVE  \A r \in Threads : ThreadMove(r)
  <2>1. Row(d).tap \in 1..Len(taps) /\ taps' = taps
    BY <1>8, RowKnown DEF SendRow, AtRow, Shapes, DeviceShapes
  <2> QED
    BY <1>3, <1>8, <2>1, RowArrives
<1>9. ASSUME NEW d \in Tabs, NEW s \in Threads,
             \/ RowAnswered(d, s) \/ RowFailed(d, s)
             \/ RowLost(d, s) \/ LiveAnswered(d, s) \/ LiveLost(d, s)
      PROVE  \A r \in Threads : ThreadMove(r)
  <2>1. \/ thread[s].step \notin Running /\ thread' = [thread EXCEPT ![s] = Free]
        \/ thread' = [thread EXCEPT ![s] = HangUp(s)]
    BY <1>9, DeviceEndsCalls
  <2> QED
    BY <1>3, <2>1, CallEnds
<1>10. ASSUME NEW s \in Threads, Handle(s) \/ ServerFails(s) \/ SessionExpired(s)
       PROVE  \A r \in Threads : ThreadMove(r)
  BY <1>10, ServerResult DEF ThreadMove
<1>11. ASSUME NEW i \in DOMAIN events, Void(i) PROVE thread' = thread
  BY <1>11 DEF Void, VoidEvent
<1>12. ASSUME NEW t \in DOMAIN queue, BackoffEnds(t) PROVE thread' = thread
  BY <1>12 DEF BackoffEnds, serverVars
<1>13. CASE UNCHANGED clockVars
  BY <1>2, <1>13 DEF clockVars, serverVars
<1> QED
  BY <1>2, <1>4, <1>5, <1>6, <1>7, <1>8, <1>9, <1>10, <1>11, <1>12, <1>13, StepCases

\* Only the worker taps.
LEMMA TapsCome ==
  ASSUME Shapes, [ClockNext]_clockVars
  PROVE  \/ taps' = taps
         \/ \E d \in Tabs, k \in Kinds : TapOffline(d, k) \/ \E s \in Threads : Tap(d, k, s)
<1>1. ASSUME NEW d \in Tabs,
             Enqueue(d) \/ SkipRow(d) \/ EndReplay(d) \/ StartReplay(d) \/ RowOffline(d) \/ Reload(d)
      PROVE  taps' = taps
  BY <1>1 DEF Enqueue, SkipRow, EndReplay, StartReplay, RowOffline, Reload
<1>2. ASSUME NEW d \in Tabs, NEW s \in Threads,
             \/ SendRow(d, s) \/ RowAnswered(d, s) \/ RowFailed(d, s)
             \/ RowLost(d, s) \/ LiveAnswered(d, s) \/ LiveLost(d, s)
      PROVE  taps' = taps
  BY <1>2 DEF SendRow, RowAnswered, RowFailed, RowLost, LiveAnswered, LiveLost
<1>3. ASSUME NEW t \in DOMAIN queue, BackoffEnds(t) PROVE taps' = taps
  BY <1>3 DEF BackoffEnds
<1>4. CASE UNCHANGED deviceVars
  BY <1>4 DEF deviceVars
<1> QED
  BY <1>1, <1>2, <1>3, <1>4, ServerLeavesDevice, StepCases

LEMMA TapsGrow ==
  ASSUME Shapes, [ClockNext]_clockVars
  PROVE  Len(taps) \in Nat /\ Len(taps') \in Nat /\ Len(taps) <= Len(taps')
<1>1. Len(taps) \in Nat
  BY DEF Shapes, DeviceShapes
<1>2. ASSUME NEW d \in Tabs, NEW k \in Kinds, TapOffline(d, k) PROVE Len(taps') = Len(taps) + 1
  BY <1>2 DEF TapOffline, NewTap, Shapes, DeviceShapes
<1>3. ASSUME NEW d \in Tabs, NEW k \in Kinds, NEW s \in Threads, Tap(d, k, s) PROVE Len(taps') = Len(taps) + 1
  BY <1>3, TapArrives
<1> QED
  BY <1>1, <1>2, <1>3, TapsCome

\* What an insert appends.
LEMMA Inserted ==
  ASSUME Shapes, NEW s \in Threads, Inserts(s)
  PROVE  /\ DOMAIN events' = DOMAIN events \union {Len(events) + 1}
         /\ Len(events) + 1 \notin DOMAIN events
         /\ Len(events') = Len(events) + 1
         /\ events'[Len(events) + 1].kind = thread[s].kind
         /\ events'[Len(events) + 1].tap = thread[s].tap
         /\ \A i \in DOMAIN events : events'[i] = events[i]
<1>0. PICK drafts \in BOOLEAN : events' = Insert(s, drafts)
  BY DEF Inserts
<1> DEFINE e == [kind |-> thread[s].kind, tap |-> thread[s].tap, voided |-> FALSE, drafts |-> drafts]
<1>1. e \in Stamps /\ e.kind = thread[s].kind /\ e.tap = thread[s].tap
  BY DEF Shapes, Calls, Stamps
<1>2. events' = Append(events, e)
  BY <1>0 DEF Insert
<1> HIDE DEF e
<1> QED
  BY <1>1, <1>2 DEF Shapes

LEMMA TapsCalledStays ==
  ASSUME Shapes, TodoIsQueued, TapsCalled, AnswersAreAwaited, [ClockNext]_clockVars
  PROVE  TapsCalled' /\ AnswersAreAwaited'
<1>1. Len(taps) \in Nat /\ Len(taps') \in Nat /\ Len(taps) <= Len(taps')
  BY TapsGrow
<1>2. "free" \notin Running \union Outcomes /\ Running \intersect Outcomes = {} /\ Free.step = "free" /\ "got" \in Running
  BY DEF Running, Outcomes, Free
<1>3. ASSUME NEW s \in Threads
      PROVE  /\ thread'[s].step = "free" => thread'[s] = Free
             /\ thread'[s].step # "free" => thread'[s].tap \in 1..Len(taps')
             /\ thread'[s].step \in Outcomes => thread'[s].caller # Nobody
  <2>1. thread[s] \in Calls
    BY DEF Shapes
  <2>2. CASE thread'[s] = thread[s]
    BY <1>1, <2>2 DEF TapsCalled, AnswersAreAwaited
  <2>3. CASE thread'[s] = Free
    BY <1>2, <2>3
  <2>4. CASE thread[s].step \in Running /\ thread'[s] = [thread[s] EXCEPT !.caller = Nobody]
    <3>1. thread'[s].step = thread[s].step /\ thread'[s].tap = thread[s].tap
      BY <2>1, <2>4 DEF Calls
    <3> QED
      BY <1>1, <1>2, <2>4, <3>1 DEF TapsCalled
  <2>5. CASE Handle(s) \/ ServerFails(s) \/ SessionExpired(s)
    BY <1>1, <1>2, <2>3, <2>5, ServerResult DEF TapsCalled, Serves
  <2>6. CASE thread[s] = Free /\ thread'[s].step = "got" /\ thread'[s].tap \in 1..Len(taps')
    BY <1>2, <2>6
  <2> QED
    BY <2>2, <2>3, <2>4, <2>5, <2>6, ThreadsMove DEF ThreadMove
<1>4. ASSUME NEW i \in DOMAIN events' PROVE events'[i].tap \in 1..Len(taps')
  <2>1. CASE i \in DOMAIN events
    BY <1>1, <2>1, EventsGrow DEF TapsCalled
  <2>2. CASE i \notin DOMAIN events
    <3>1. PICK s \in Threads : Inserts(s) /\ (ClockIn(s) \/ ClockOut(s))
      BY <2>2, NewEvents
    <3>2. thread[s].step # "free"
      BY <3>1 DEF ClockIn, ClockOut
    <3> QED
      BY <1>1, <2>2, <3>1, <3>2, Inserted DEF TapsCalled
  <2> QED
    BY <2>1, <2>2
<1> QED
  BY <1>3, <1>4 DEF TapsCalled, AnswersAreAwaited

\* A replay with the same list is at the same row.
LEMMA RowStays ==
  ASSUME NEW d, replay'[d].todo = replay[d].todo
  PROVE  Row(d)' = Row(d)
BY DEF Row

\* A step that ends the calls of "quiet" and leaves what the others hold.
LEMMA CallersHold ==
  ASSUME Shapes, Callers, NEW quiet,
         \A s \in Threads :
            \/ thread'[s].caller = Nobody
            \/ /\ thread'[s].caller = thread[s].caller /\ thread'[s].tap = thread[s].tap
               /\ thread[s].caller \notin quiet,
         \A d \in Tabs : <<d, "live">> \in quiet \/ live'[d] = live[d],
         \A d \in Tabs : <<d, "replay">> \in quiet \/ replay'[d] = replay[d]
  PROVE  Callers'
<1>1. \A d \in Tabs : Nobody # <<d, "live">> /\ Nobody # <<d, "replay">>
  BY BoundsAreNaturals
<1>2. ASSUME NEW s \in Threads, NEW d \in Tabs, thread'[s].caller = <<d, "live">>
      PROVE  live'[d].step = "waiting" /\ thread'[s].tap = live'[d].tap
  BY <1>1, <1>2 DEF Callers
<1>3. ASSUME NEW s \in Threads, NEW d \in Tabs, thread'[s].caller = <<d, "replay">>
      PROVE  replay'[d].step = "waiting" /\ thread'[s].tap = (Row(d).tap)'
  <2>1. /\ thread'[s].caller = thread[s].caller /\ thread'[s].tap = thread[s].tap
        /\ replay'[d] = replay[d]
    BY <1>1, <1>3
  <2>2. Row(d)' = Row(d)
    BY <2>1, RowStays
  <2> QED
    BY <1>3, <2>1, <2>2 DEF Callers
<1>4. ASSUME NEW s \in Threads, NEW r \in Threads, thread'[s].caller = thread'[r].caller
      PROVE  s = r \/ thread'[s].caller = Nobody
  BY <1>4 DEF Callers
<1> QED
  BY <1>2, <1>3, <1>4 DEF Callers

\* A step that gives a free thread a request of the caller c.
LEMMA CallersGain ==
  ASSUME Shapes, Callers, NEW d \in Tabs, NEW s \in Threads, NEW new \in Calls,
         thread[s] = Free, thread' = [thread EXCEPT ![s] = new],
         \/ /\ new.caller = <<d, "live">>
            /\ live[d].step # "waiting"
            /\ live' = [live EXCEPT ![d] = [tap |-> new.tap, step |-> "waiting"]]
            /\ replay' = replay
         \/ /\ new.caller = <<d, "replay">> /\ new.tap = Row(d).tap
            /\ replay[d].step # "waiting"
            /\ replay' = [replay EXCEPT ![d].step = "waiting"]
            /\ live' = live
  PROVE  Callers'
<1>1. /\ thread \in [Threads -> Calls]
      /\ live \in [Tabs -> [tap : Nat, step : {"idle", "waiting", "queueing"}]]
      /\ replay \in [Tabs -> [todo : SUBSET Copies, step : {"idle", "next", "waiting"}]]
  BY DEF Shapes, DeviceShapes
<1>2. Free.caller = Nobody /\ \A e \in Tabs : Nobody # <<e, "live">> /\ Nobody # <<e, "replay">>
  BY BoundsAreNaturals DEF Free
<1>3. thread'[s] = new /\ \A r \in Threads : r # s => thread'[r] = thread[r]
  BY <1>1
<1>4. \A r \in Threads : thread[r].caller # new.caller
  BY DEF Callers
<1>5. \A e \in Tabs : replay'[e].todo = replay[e].todo
  BY <1>1
<1>6. \A e \in Tabs : Row(e)' = Row(e)
  BY <1>5, RowStays
<1>7. ASSUME NEW r \in Threads, NEW e \in Tabs, thread'[r].caller = <<e, "live">>
      PROVE  live'[e].step = "waiting" /\ thread'[r].tap = live'[e].tap
  <2>1. CASE r = s
    <3>1. e = d /\ new.caller = <<d, "live">>
      BY <1>3, <1>7, <2>1
    <3> QED
      BY <1>1, <1>3, <2>1, <3>1
  <2>2. CASE r # s
    <3>1. thread[r].caller = <<e, "live">> /\ thread'[r] = thread[r]
      BY <1>3, <1>7, <2>2
    <3>2. live[e].step = "waiting" /\ thread[r].tap = live[e].tap
      BY <3>1 DEF Callers
    <3>3. live'[e] = live[e]
      BY <1>1, <3>2
    <3> QED
      BY <3>1, <3>2, <3>3
  <2> QED
    BY <2>1, <2>2
<1>8. ASSUME NEW r \in Threads, NEW e \in Tabs, thread'[r].caller = <<e, "replay">>
      PROVE  replay'[e].step = "waiting" /\ thread'[r].tap = (Row(e).tap)'
  <2>1. CASE r = s
    <3>1. e = d /\ new.caller = <<d, "replay">>
      BY <1>3, <1>8, <2>1
    <3> QED
      BY <1>1, <1>3, <1>6, <2>1, <3>1
  <2>2. CASE r # s
    <3>1. thread[r].caller = <<e, "replay">> /\ thread'[r] = thread[r]
      BY <1>3, <1>8, <2>2
    <3>2. replay[e].step = "waiting" /\ thread[r].tap = Row(e).tap
      BY <3>1 DEF Callers
    <3>3. replay'[e] = replay[e]
      BY <1>1, <3>2
    <3> QED
      BY <1>6, <3>1, <3>2, <3>3
  <2> QED
    BY <2>1, <2>2
<1>9. ASSUME NEW r \in Threads, NEW q \in Threads, thread'[r].caller = thread'[q].caller
      PROVE  r = q \/ thread'[r].caller = Nobody
  BY <1>3, <1>4, <1>9 DEF Callers
<1> QED
  BY <1>7, <1>8, <1>9 DEF Callers

LEMMA CallersStay ==
  ASSUME Shapes, TodoIsQueued, Callers, [ClockNext]_clockVars
  PROVE  Callers'
<1>1. /\ thread \in [Threads -> Calls]
      /\ live \in [Tabs -> [tap : Nat, step : {"idle", "waiting", "queueing"}]]
      /\ replay \in [Tabs -> [todo : SUBSET Copies, step : {"idle", "next", "waiting"}]]
  BY DEF Shapes, DeviceShapes
<1>2. Free.caller = Nobody /\ \A e \in Tabs : Nobody # <<e, "live">> /\ Nobody # <<e, "replay">>
  BY BoundsAreNaturals DEF Free
<1>3. CASE thread' = thread /\ live' = live /\ replay' = replay
  <2> DEFINE quiet == {}
  <2>1. \A s \in Threads : thread[s].caller \notin quiet
    OBVIOUS
  <2> HIDE DEF quiet
  <2> QED
    BY <1>3, <2>1, CallersHold
<1>4. ASSUME NEW d \in Tabs, thread' = thread, live[d].step # "waiting", replay' = replay,
             \A e \in Tabs : e # d => live'[e] = live[e]
      PROVE  Callers'
  <2>1. \A s \in Threads : thread[s].caller # <<d, "live">>
    BY <1>4 DEF Callers
  <2>2. \A e \in Tabs : <<e, "live">> \in {<<d, "live">>} \/ live'[e] = live[e]
    BY <1>4
  <2> DEFINE quiet == {<<d, "live">>}
  <2>3. \A s \in Threads : thread[s].caller \notin quiet
    BY <2>1
  <2>4. \A e \in Tabs : <<e, "live">> \in quiet \/ live'[e] = live[e]
    BY <2>2
  <2> HIDE DEF quiet
  <2> QED
    BY <1>4, <2>3, <2>4, CallersHold
<1>5. ASSUME NEW d \in Tabs, thread' = thread, replay[d].step # "waiting", live' = live,
             \A e \in Tabs : e # d => replay'[e] = replay[e]
      PROVE  Callers'
  <2> DEFINE quiet == {<<d, "replay">>}
  <2>1. \A s \in Threads : thread[s].caller \notin quiet
    BY <1>5 DEF Callers
  <2>2. \A e \in Tabs : <<e, "replay">> \in quiet \/ replay'[e] = replay[e]
    BY <1>5
  <2> HIDE DEF quiet
  <2> QED
    BY <1>5, <2>1, <2>2, CallersHold
<1>6. ASSUME NEW d \in Tabs, Enqueue(d) PROVE Callers'
  BY <1>1, <1>4, <1>6 DEF Enqueue, serverVars
<1>7. ASSUME NEW d \in Tabs, SkipRow(d) \/ EndReplay(d) \/ StartReplay(d) \/ RowOffline(d) PROVE Callers'
  BY <1>1, <1>5, <1>7 DEF SkipRow, EndReplay, StartReplay, RowOffline, AtRow, serverVars
<1>8. ASSUME NEW d \in Tabs, Reload(d) PROVE Callers'
  <2> DEFINE quiet == {<<d, "live">>, <<d, "replay">>}
  <2>1. \A e \in Tabs : <<e, "live">> \in quiet \/ live'[e] = live[e]
    BY <1>1, <1>8 DEF Reload
  <2>2. \A e \in Tabs : <<e, "replay">> \in quiet \/ replay'[e] = replay[e]
    BY <1>1, <1>8 DEF Reload
  <2>3. ASSUME NEW s \in Threads
        PROVE  \/ thread'[s].caller = Nobody
               \/ /\ thread'[s].caller = thread[s].caller /\ thread'[s].tap = thread[s].tap
                  /\ thread[s].caller \notin quiet
    <3>1. [thread[s] EXCEPT !.caller = Nobody].caller = Nobody
      BY <1>1 DEF Calls
    <3> QED
      BY <1>2, <1>8, <3>1, ReloadHangsUp
  <2> HIDE DEF quiet
  <2> QED
    BY <2>1, <2>2, <2>3, CallersHold
<1>9. ASSUME NEW d \in Tabs, NEW k \in Kinds, TapOffline(d, k) PROVE Callers'
  BY <1>1, <1>4, <1>9 DEF TapOffline, NewTap, serverVars
<1>10. ASSUME NEW d \in Tabs, NEW k \in Kinds, NEW s \in Threads, Tap(d, k, s) PROVE Callers'
  <2>1. live[d].step # "waiting" /\ replay' = replay
        /\ live' = [live EXCEPT ![d] = [tap |-> Len(taps'), step |-> "waiting"]]
    BY <1>10 DEF Tap, NewTap
  <2>2. Len(taps') = Len(taps) + 1 /\ \E new \in Calls :
            /\ new.step = "got" /\ new.kind = k /\ new.tap = Len(taps) + 1 /\ new.caller = <<d, "live">>
            /\ thread[s] = Free
            /\ thread' = [thread EXCEPT ![s] = new]
    BY <1>10, TapArrives
  <2>3. PICK new \in Calls :
            /\ new.tap = Len(taps') /\ new.caller = <<d, "live">>
            /\ thread[s] = Free
            /\ thread' = [thread EXCEPT ![s] = new]
    BY <2>2
  <2>4. live' = [live EXCEPT ![d] = [tap |-> new.tap, step |-> "waiting"]]
    BY <2>1, <2>3
  <2> QED
    BY <2>1, <2>3, <2>4, CallersGain
<1>11. ASSUME NEW d \in Tabs, NEW s \in Threads, SendRow(d, s) PROVE Callers'
  <2>1. replay[d].step # "waiting" /\ live' = live /\ replay' = [replay EXCEPT ![d].step = "waiting"]
    BY <1>11 DEF SendRow, AtRow
  <2> QED
    BY <1>11, <2>1, RowArrives, CallersGain
<1>12. ASSUME NEW d \in Tabs, NEW s \in Threads, NEW c, thread[s].caller = c, c # Nobody,
              \/ thread[s].step \notin Running /\ thread' = [thread EXCEPT ![s] = Free]
              \/ thread' = [thread EXCEPT ![s] = HangUp(s)]
       PROVE  \A r \in Threads :
                 \/ thread'[r].caller = Nobody
                 \/ /\ thread'[r].caller = thread[r].caller /\ thread'[r].tap = thread[r].tap
                    /\ thread[r].caller \notin {c}
  <2>1. PICK new \in Calls :
            /\ thread' = [thread EXCEPT ![s] = new]
            /\ \/ new = Free
               \/ thread[s].step \in Running /\ new = [thread[s] EXCEPT !.caller = Nobody]
    BY <1>12, CallEnds
  <2>2. new.caller = Nobody
    BY <1>1, <1>2, <2>1 DEF Calls
  <2>3. thread'[s] = new /\ \A r \in Threads : r # s => thread'[r] = thread[r]
    BY <1>1, <2>1
  <2> QED
    BY <1>12, <2>2, <2>3 DEF Callers
<1>13. ASSUME NEW d \in Tabs, NEW s \in Threads, RowAnswered(d, s) \/ RowFailed(d, s) \/ RowLost(d, s)
       PROVE  Callers'
  <2> DEFINE quiet == {<<d, "replay">>}
  <2>1. thread[s].caller = <<d, "replay">>
        /\ \/ thread[s].step \notin Running /\ thread' = [thread EXCEPT ![s] = Free]
           \/ thread' = [thread EXCEPT ![s] = HangUp(s)]
        /\ live' = live /\ replay' = [replay EXCEPT ![d] = NextRow(d)]
    BY <1>13, DeviceEndsCalls DEF RowAnswered, RowFailed, RowLost
  <2>2. \A e \in Tabs : <<e, "replay">> \in quiet \/ replay'[e] = replay[e]
    BY <1>1, <2>1
  <2>3. \A r \in Threads :
                 \/ thread'[r].caller = Nobody
                 \/ /\ thread'[r].caller = thread[r].caller /\ thread'[r].tap = thread[r].tap
                    /\ thread[r].caller \notin quiet
    BY <1>2, <1>12, <2>1
  <2> HIDE DEF quiet
  <2> QED
    BY <2>1, <2>2, <2>3, CallersHold
<1>14. ASSUME NEW d \in Tabs, NEW s \in Threads, LiveAnswered(d, s) \/ LiveLost(d, s)
       PROVE  Callers'
  <2> DEFINE quiet == {<<d, "live">>}
  <2>1. thread[s].caller = <<d, "live">>
        /\ \/ thread[s].step \notin Running /\ thread' = [thread EXCEPT ![s] = Free]
           \/ thread' = [thread EXCEPT ![s] = HangUp(s)]
        /\ replay' = replay
    BY <1>14, DeviceEndsCalls DEF LiveAnswered, LiveLost
  <2>2. \A e \in Tabs : <<e, "live">> \in quiet \/ live'[e] = live[e]
    BY <1>1, <1>14 DEF LiveAnswered, LiveLost
  <2>3. \A r \in Threads :
                 \/ thread'[r].caller = Nobody
                 \/ /\ thread'[r].caller = thread[r].caller /\ thread'[r].tap = thread[r].tap
                    /\ thread[r].caller \notin quiet
    BY <1>2, <1>12, <2>1
  <2> HIDE DEF quiet
  <2> QED
    BY <2>1, <2>2, <2>3, CallersHold
<1>15. ASSUME NEW s \in Threads, Handle(s) \/ ServerFails(s) \/ SessionExpired(s) PROVE Callers'
  <2>1. live' = live /\ replay' = replay
    BY <1>15, ServerMoves DEF deviceVars
  <2>2. PICK new \in Calls : /\ thread' = [thread EXCEPT ![s] = new]
                               /\ \/ Serves(thread[s], new)
                                  \/ new = Free /\ thread[s].caller = Nobody
    BY <1>15, ServerMoves
  <2>3. thread'[s] = new /\ \A r \in Threads : r # s => thread'[r] = thread[r]
    BY <1>1, <2>2
  <2> DEFINE quiet == {}
  <2>4. \A r \in Threads :
                 \/ thread'[r].caller = Nobody
                 \/ /\ thread'[r].caller = thread[r].caller /\ thread'[r].tap = thread[r].tap
                    /\ thread[r].caller \notin quiet
    BY <1>2, <2>2, <2>3 DEF Serves
  <2> HIDE DEF quiet
  <2> QED
    BY <2>1, <2>4, CallersHold
<1>16. ASSUME NEW i \in DOMAIN events, Void(i) PROVE Callers'
  BY <1>3, <1>16 DEF Void, VoidEvent, deviceVars
<1>17. ASSUME NEW t \in DOMAIN queue, BackoffEnds(t) PROVE Callers'
  BY <1>3, <1>17 DEF BackoffEnds, serverVars
<1>18. CASE UNCHANGED clockVars
  BY <1>3, <1>18 DEF clockVars, serverVars, deviceVars
<1> QED
  BY <1>6, <1>7, <1>8, <1>9, <1>10, <1>11, <1>13, <1>14, <1>15, <1>16, <1>17, <1>18, StepCases

\* A step that takes threads only from callers that do not wait any more.
LEMMA WaitersHold ==
  ASSUME WaitersAreServed, NEW quiet,
         \A s \in Threads : thread[s].caller \in quiet \/ thread'[s].caller = thread[s].caller,
         \A d \in Tabs : live'[d].step = "waiting" => live[d].step = "waiting" /\ <<d, "live">> \notin quiet,
         \A d \in Tabs : replay'[d].step = "waiting" => replay[d].step = "waiting" /\ <<d, "replay">> \notin quiet
  PROVE  WaitersAreServed'
BY DEF WaitersAreServed

\* A step in which a free thread takes the request of the one that begins to wait.
LEMMA WaitersGain ==
  ASSUME Shapes, WaitersAreServed, NEW s \in Threads, NEW new \in Calls,
         thread[s] = Free, thread' = [thread EXCEPT ![s] = new],
         \A d \in Tabs : live'[d].step = "waiting" => live[d].step = "waiting" \/ new.caller = <<d, "live">>,
         \A d \in Tabs : replay'[d].step = "waiting" => replay[d].step = "waiting" \/ new.caller = <<d, "replay">>
  PROVE  WaitersAreServed'
<1>1. thread[s].caller = Nobody /\ \A d \in Tabs : Nobody # <<d, "live">> /\ Nobody # <<d, "replay">>
  BY BoundsAreNaturals DEF Free
<1>2. thread'[s] = new /\ \A r \in Threads : r # s => thread'[r] = thread[r]
  BY DEF Shapes
<1>3. ASSUME NEW d \in Tabs, live'[d].step = "waiting" PROVE \E r \in Threads : thread'[r].caller = <<d, "live">>
  <2>1. CASE new.caller = <<d, "live">>
    BY <1>2, <2>1
  <2>2. CASE live[d].step = "waiting"
    BY <1>1, <1>2, <2>2 DEF WaitersAreServed
  <2> QED
    BY <1>3, <2>1, <2>2
<1>4. ASSUME NEW d \in Tabs, replay'[d].step = "waiting" PROVE \E r \in Threads : thread'[r].caller = <<d, "replay">>
  <2>1. CASE new.caller = <<d, "replay">>
    BY <1>2, <2>1
  <2>2. CASE replay[d].step = "waiting"
    BY <1>1, <1>2, <2>2 DEF WaitersAreServed
  <2> QED
    BY <1>4, <2>1, <2>2
<1> QED
  BY <1>3, <1>4 DEF WaitersAreServed

LEMMA WaitersStay ==
  ASSUME Shapes, TodoIsQueued, WaitersAreServed, [ClockNext]_clockVars
  PROVE  WaitersAreServed'
<1>1. /\ thread \in [Threads -> Calls]
      /\ live \in [Tabs -> [tap : Nat, step : {"idle", "waiting", "queueing"}]]
      /\ replay \in [Tabs -> [todo : SUBSET Copies, step : {"idle", "next", "waiting"}]]
  BY DEF Shapes, DeviceShapes
<1>2. NoCall.step = "idle" /\ NoReplay.step = "idle"
  BY DEF NoCall, NoReplay
<1>3. ASSUME \A s \in Threads : thread'[s].caller = thread[s].caller,
             \A d \in Tabs : live'[d].step = "waiting" => live[d].step = "waiting",
             \A d \in Tabs : replay'[d].step = "waiting" => replay[d].step = "waiting"
      PROVE  WaitersAreServed'
  BY <1>3 DEF WaitersAreServed
<1>4. ASSUME NEW d \in Tabs, Enqueue(d) PROVE WaitersAreServed'
  BY <1>1, <1>2, <1>3, <1>4 DEF Enqueue, serverVars
<1>5. ASSUME NEW d \in Tabs, SkipRow(d) \/ EndReplay(d) \/ StartReplay(d) \/ RowOffline(d) PROVE WaitersAreServed'
  <2>1. \A e \in Tabs : replay'[e].step = "waiting" => replay[e].step = "waiting"
    BY <1>1, <1>2, <1>5 DEF SkipRow, EndReplay, StartReplay, RowOffline, NextRow
  <2> QED
    BY <1>3, <1>5, <2>1 DEF SkipRow, EndReplay, StartReplay, RowOffline, serverVars
<1>6. ASSUME NEW d \in Tabs, Reload(d) PROVE WaitersAreServed'
  <2> DEFINE quiet == {<<d, "live">>, <<d, "replay">>}
  <2>1. \A e \in Tabs : live'[e].step = "waiting" => live[e].step = "waiting" /\ <<e, "live">> \notin quiet
    BY <1>1, <1>2, <1>6 DEF Reload
  <2>2. \A e \in Tabs : replay'[e].step = "waiting" => replay[e].step = "waiting" /\ <<e, "replay">> \notin quiet
    BY <1>1, <1>2, <1>6 DEF Reload
  <2>3. \A s \in Threads : thread[s].caller \in quiet \/ thread'[s].caller = thread[s].caller
    BY <1>6, ReloadHangsUp
  <2> HIDE DEF quiet
  <2> QED
    BY <2>1, <2>2, <2>3, WaitersHold
<1>7. ASSUME NEW d \in Tabs, NEW k \in Kinds, TapOffline(d, k) PROVE WaitersAreServed'
  BY <1>1, <1>3, <1>7 DEF TapOffline, serverVars
<1>8. ASSUME NEW d \in Tabs, NEW k \in Kinds, NEW s \in Threads, Tap(d, k, s) PROVE WaitersAreServed'
  <2>1. PICK new \in Calls :
           /\ new.step = "got" /\ new.kind = k /\ new.tap = Len(taps) + 1 /\ new.caller = <<d, "live">>
           /\ thread[s] = Free
           /\ thread' = [thread EXCEPT ![s] = new]
    BY <1>8, TapArrives
  <2>2. replay' = replay /\ \A e \in Tabs : e # d => live'[e] = live[e]
    BY <1>1, <1>8 DEF Tap
  <2> QED
    BY <2>1, <2>2, WaitersGain
<1>9. ASSUME NEW d \in Tabs, NEW s \in Threads, SendRow(d, s) PROVE WaitersAreServed'
  <2>1. PICK new \in Calls :
           /\ new.caller = <<d, "replay">> /\ thread[s] = Free /\ thread' = [thread EXCEPT ![s] = new]
    BY <1>9, RowArrives
  <2>2. live' = live /\ \A e \in Tabs : e # d => replay'[e] = replay[e]
    BY <1>1, <1>9 DEF SendRow
  <2> QED
    BY <2>1, <2>2, WaitersGain
<1>10. ASSUME NEW d \in Tabs, NEW s \in Threads,
              \/ RowAnswered(d, s) \/ RowFailed(d, s)
              \/ RowLost(d, s) \/ LiveAnswered(d, s) \/ LiveLost(d, s)
       PROVE  \A r \in Threads : r = s \/ thread'[r].caller = thread[r].caller
  BY <1>1, <1>10, DeviceEndsCalls
<1>11. ASSUME NEW d \in Tabs, NEW s \in Threads, RowAnswered(d, s) \/ RowFailed(d, s) \/ RowLost(d, s)
       PROVE  WaitersAreServed'
  <2> DEFINE quiet == {<<d, "replay">>}
  <2>1. thread[s].caller = <<d, "replay">> /\ live' = live /\ replay' = [replay EXCEPT ![d] = NextRow(d)]
    BY <1>11 DEF RowAnswered, RowFailed, RowLost
  <2>2. \A e \in Tabs : replay'[e].step = "waiting" => replay[e].step = "waiting" /\ <<e, "replay">> \notin quiet
    BY <1>1, <2>1 DEF NextRow
  <2>3. \A r \in Threads : thread[r].caller \in quiet \/ thread'[r].caller = thread[r].caller
    BY <1>10, <1>11, <2>1
  <2>4. \A e \in Tabs : <<e, "live">> \notin quiet
    OBVIOUS
  <2> HIDE DEF quiet
  <2> QED
    BY <2>1, <2>2, <2>3, <2>4, WaitersHold
<1>12. ASSUME NEW d \in Tabs, NEW s \in Threads, LiveAnswered(d, s) \/ LiveLost(d, s) PROVE WaitersAreServed'
  <2> DEFINE quiet == {<<d, "live">>}
  <2>1. thread[s].caller = <<d, "live">> /\ replay' = replay
    BY <1>12 DEF LiveAnswered, LiveLost
  <2>2. \A e \in Tabs : live'[e].step = "waiting" => live[e].step = "waiting" /\ <<e, "live">> \notin quiet
    BY <1>1, <1>2, <1>12 DEF LiveAnswered, LiveLost
  <2>3. \A r \in Threads : thread[r].caller \in quiet \/ thread'[r].caller = thread[r].caller
    BY <1>10, <1>12, <2>1
  <2>4. \A e \in Tabs : <<e, "replay">> \notin quiet
    OBVIOUS
  <2> HIDE DEF quiet
  <2> QED
    BY <2>1, <2>2, <2>3, <2>4, WaitersHold
<1>13. ASSUME NEW s \in Threads, Handle(s) \/ ServerFails(s) \/ SessionExpired(s) PROVE WaitersAreServed'
  <2>1. live' = live /\ replay' = replay
    BY <1>13, ServerMoves DEF deviceVars
  <2>2. \A r \in Threads : thread'[r].caller = thread[r].caller
    BY <1>13, ServerResult DEF Serves, Free
  <2> QED
    BY <1>3, <2>1, <2>2
<1>14. ASSUME NEW i \in DOMAIN events, Void(i) PROVE WaitersAreServed'
  BY <1>3, <1>14 DEF Void, VoidEvent, deviceVars
<1>15. ASSUME NEW t \in DOMAIN queue, BackoffEnds(t) PROVE WaitersAreServed'
  BY <1>3, <1>15 DEF BackoffEnds, serverVars
<1>16. CASE UNCHANGED clockVars
  BY <1>3, <1>16 DEF clockVars, serverVars, deviceVars
<1> QED
  BY <1>4, <1>5, <1>6, <1>7, <1>8, <1>9, <1>11, <1>12, <1>13, <1>14, <1>15, <1>16, StepCases

\* A step fails at most once.
LEMMA FaultsGrow ==
  ASSUME Shapes, [ClockNext]_clockVars
  PROVE  faults \in Nat /\ faults' \in {faults, faults + 1}
<1>1. faults \in Nat
  BY BoundsAreNaturals DEF Shapes, DeviceShapes
<1>2. ASSUME NEW d \in Tabs, Enqueue(d) \/ SkipRow(d) \/ EndReplay(d) \/ StartReplay(d) \/ RowOffline(d) \/ Reload(d)
      PROVE  faults' \in {faults, faults + 1}
  BY <1>2 DEF Enqueue, SkipRow, EndReplay, StartReplay, RowOffline, Reload, Fault
<1>3. ASSUME NEW d \in Tabs, NEW k \in Kinds, TapOffline(d, k) \/ \E s \in Threads : Tap(d, k, s)
      PROVE  faults' \in {faults, faults + 1}
  BY <1>3 DEF TapOffline, Tap, Fault
<1>4. ASSUME NEW d \in Tabs, NEW s \in Threads,
             \/ SendRow(d, s) \/ RowAnswered(d, s) \/ RowFailed(d, s)
             \/ RowLost(d, s) \/ LiveAnswered(d, s) \/ LiveLost(d, s)
      PROVE  faults' \in {faults, faults + 1}
  BY <1>4 DEF SendRow, RowAnswered, RowFailed, RowLost, LiveAnswered, LiveLost, Fault
<1>5. ASSUME NEW s \in Threads, Handle(s) \/ ServerFails(s) \/ SessionExpired(s)
      PROVE  faults' \in {faults, faults + 1}
  BY <1>5, ServerMoves
<1>6. ASSUME NEW i \in DOMAIN events, Void(i) PROVE faults' = faults
  BY <1>6 DEF Void
<1>7. ASSUME NEW t \in DOMAIN queue, BackoffEnds(t) PROVE faults' = faults
  BY <1>7 DEF BackoffEnds
<1>8. CASE UNCHANGED clockVars
  BY <1>1, <1>8 DEF clockVars
<1> QED
  BY <1>1, <1>2, <1>3, <1>4, <1>5, <1>6, <1>7, <1>8, StepCases

\* A replay that waits before and after a step has not moved.
LEMMA WaitingKeepsItsRows ==
  ASSUME Shapes, Replays, TodoIsQueued, Callers, [ClockNext]_clockVars,
         NEW d \in Tabs, replay[d].step = "waiting", replay'[d].step = "waiting"
  PROVE  replay'[d] = replay[d]
<1>1. replay \in [Tabs -> [todo : SUBSET Copies, step : {"idle", "next", "waiting"}]]
  BY DEF Shapes, DeviceShapes
<1>2. ASSUME NEW e \in Tabs, Enqueue(e) PROVE replay' = replay
  BY <1>2 DEF Enqueue
<1>3. ASSUME NEW e \in Tabs, NEW new, replay' = [replay EXCEPT ![e] = new], new.step # "waiting"
      PROVE  replay'[d] = replay[d]
  BY <1>1, <1>3
<1>4. ASSUME NEW e \in Tabs, SkipRow(e) PROVE replay'[d] = replay[d]
  <2>1. NextRow(e).step # "waiting"
    BY DEF NextRow
  <2> QED
    BY <1>3, <1>4, <2>1 DEF SkipRow
<1>5. ASSUME NEW e \in Tabs, EndReplay(e) \/ Reload(e) PROVE replay'[d] = replay[d]
  <2>1. NoReplay.step # "waiting"
    BY DEF NoReplay
  <2> QED
    BY <1>3, <1>5, <2>1 DEF EndReplay, Reload
<1>6. ASSUME NEW e \in Tabs, StartReplay(e) PROVE replay'[d] = replay[d]
  BY <1>3, <1>6 DEF StartReplay
<1>7. ASSUME NEW e \in Tabs, NEW s \in Threads, SendRow(e, s) PROVE replay'[d] = replay[d]
  BY <1>1, <1>7 DEF SendRow, AtRow
<1>8. ASSUME NEW e \in Tabs, ReplayStep(e) PROVE replay'[d] = replay[d]
  <2>1. NextRow(e).step # "waiting"
    BY DEF NextRow
  <2>2. replay' = [replay EXCEPT ![e] = NextRow(e)]
    BY <1>8 DEF ReplayStep, RowOffline, RowAnswered, RowFailed, RowLost
  <2> QED
    BY <1>3, <2>1, <2>2
<1>9. ASSUME NEW t \in DOMAIN queue, BackoffEnds(t) PROVE replay' = replay
  BY <1>9 DEF BackoffEnds
<1> QED
  BY <1>2, <1>4, <1>5, <1>6, <1>7, <1>8, <1>9, QueueCases

LEMMA TriesStay ==
  ASSUME Shapes, Shapes', Replays, TodoIsQueued, Callers, Callers', TriesAreFaults, [ClockNext]_clockVars
  PROVE  TriesAreFaults'
<1>1. /\ queue \in [DOMAIN queue -> [at : 1..enqueued, attempts : Nat, resting : BOOLEAN]]
      /\ faults \in Nat /\ faults' \in {faults, faults + 1}
      /\ thread \in [Threads -> Calls]
  BY FaultsGrow DEF Shapes, DeviceShapes
<1>2. ASSUME NEW t \in DOMAIN queue' PROVE queue'[t].attempts <= faults'
  <2>1. CASE queue' = queue
    BY <1>1, <2>1 DEF TriesAreFaults
  <2>2. ASSUME NEW d \in Tabs, Enqueue(d) PROVE queue'[t].attempts <= faults'
    <3>1. CASE t = live[d].tap
      <4>1. queue'[t].attempts = 0
        BY <2>2, <3>1, EnqueueAdds
      <4> QED
        BY <1>1, <4>1
    <3>2. CASE t # live[d].tap
      <4>1. t \in DOMAIN queue /\ queue'[t] = queue[t]
        BY <2>2, <3>2, EnqueueAdds
      <4> QED
        BY <1>1, <4>1 DEF TriesAreFaults
    <3> QED
      BY <3>1, <3>2
  <2>3. ASSUME NEW d \in Tabs, SkipRow(d) \/ EndReplay(d) \/ StartReplay(d) \/ Reload(d) \/ \E s \in Threads : SendRow(d, s)
        PROVE  queue' = queue
    BY <2>3 DEF SkipRow, EndReplay, StartReplay, Reload, SendRow
  <2>4. ASSUME NEW d \in Tabs, NEW s \in Threads, RowAnswered(d, s) PROVE queue'[t].attempts <= faults'
    <3>1. queue' = Without(Row(d).tap)
      BY <2>4 DEF RowAnswered
    <3>2. t \in DOMAIN queue /\ queue'[t] = queue[t]
      BY <3>1, RowRemoved
    <3> QED
      BY <1>1, <3>2 DEF TriesAreFaults
  <2>5. ASSUME NEW d \in Tabs, replay[d].todo # {}, queue' = Deferred(d), Row(d).attempts + 1 <= faults'
        PROVE  queue'[t].attempts <= faults'
    <3>1. /\ DOMAIN queue' = DOMAIN queue
          /\ queue'[Row(d).tap].attempts = queue[Row(d).tap].attempts + 1
          /\ \A u \in DOMAIN queue : u # Row(d).tap => queue'[u] = queue[u]
      BY <2>5, RowDeferred
    <3>2. Row(d).attempts = queue[Row(d).tap].attempts
      BY <2>5, RowKnown
    <3> QED
      BY <1>1, <2>5, <3>1, <3>2 DEF TriesAreFaults
  <2>6. ASSUME NEW d \in Tabs, replay[d].todo # {}, Fault PROVE Row(d).attempts + 1 <= faults'
    <3>1. Row(d).attempts \in Nat /\ Row(d).attempts <= faults
      BY <1>1, <2>6, RowKnown DEF TriesAreFaults
    <3> QED
      BY <1>1, <2>6, <3>1 DEF Fault
  <2>7. ASSUME NEW d \in Tabs, RowOffline(d) PROVE queue'[t].attempts <= faults'
    BY <2>5, <2>6, <2>7 DEF RowOffline, AtRow
  <2>8. ASSUME NEW d \in Tabs, NEW s \in Threads, RowLost(d, s) PROVE queue'[t].attempts <= faults'
    BY <2>5, <2>6, <2>8, RowCalled DEF RowLost
  <2>9. ASSUME NEW d \in Tabs, NEW s \in Threads, RowFailed(d, s) PROVE queue'[t].attempts <= faults'
    <3>1. replay[d].todo # {} /\ queue' = Deferred(d) /\ Row(d).attempts < faults
      BY <2>9, RowCalled DEF RowFailed, TriesAreFaults
    <3>2. Row(d).attempts \in Nat
      BY <1>1, <3>1, RowKnown
    <3> QED
      BY <1>1, <2>5, <3>1, <3>2
  <2>10. ASSUME NEW u \in DOMAIN queue, BackoffEnds(u) PROVE queue'[t].attempts <= faults'
    BY <1>1, <2>10 DEF BackoffEnds, TriesAreFaults
  <2> QED
    BY <2>1, <2>2, <2>3, <2>4, <2>7, <2>8, <2>9, <2>10, QueueCases DEF ReplayStep
<1>3. ASSUME NEW s \in Threads, NEW d \in Tabs, thread'[s].caller = <<d, "replay">>, thread'[s].step = "failed"
      PROVE  (Row(d).attempts)' < faults'
  <2>1. Free.caller = Nobody /\ Nobody # <<d, "replay">> /\ [thread[s] EXCEPT !.caller = Nobody].caller = Nobody
    BY <1>1, BoundsAreNaturals DEF Free, Calls
  <2>2. \/ thread'[s] = thread[s]
        \/ Serves(thread[s], thread'[s]) /\ faults' = faults + 1
    BY <1>3, <2>1, ThreadsMove, ServerResult DEF ThreadMove, ServerFails, Fault
  <2>3. thread[s].caller = <<d, "replay">>
    BY <1>3, <2>2 DEF Serves
  <2>4. replay[d].step = "waiting" /\ replay'[d].step = "waiting"
    BY <1>3, <2>3 DEF Callers
  <2>5. Row(d)' = Row(d)
    BY <2>4, WaitingKeepsItsRows, RowStays
  <2>6. replay[d].todo # {}
    BY <2>3, RowCalled
  <2>7. Row(d).attempts \in Nat /\ Row(d).attempts <= faults
    BY <1>1, <2>6, RowKnown DEF TriesAreFaults
  <2>8. CASE thread'[s] = thread[s]
    BY <1>1, <1>3, <2>3, <2>5, <2>7, <2>8 DEF TriesAreFaults
  <2>9. CASE faults' = faults + 1
    BY <1>1, <2>5, <2>7, <2>9
  <2> QED
    BY <2>2, <2>8, <2>9
<1> QED
  BY <1>2, <1>3 DEF TriesAreFaults

LEMMA OvertakenStays ==
  ASSUME Shapes, LiveTaps, Replays, TodoIsQueued, Callers, Overtaken, [ClockNext]_clockVars
  PROVE  Overtaken'
<1>1. /\ queue \in [DOMAIN queue -> [at : 1..enqueued, attempts : Nat, resting : BOOLEAN]]
      /\ enqueued \in Nat
      /\ replay \in [Tabs -> [todo : SUBSET Copies, step : {"idle", "next", "waiting"}]]
      /\ BackoffFrom \in Nat \ {0}
  BY BoundsAreNaturals DEF Shapes, DeviceShapes
<1> DEFINE Passed(d, t) == \/ \E copy \in replay[d].todo : copy.tap = t
                           \/ queue[t].attempts > 0
                           \/ \A copy \in replay[d].todo : copy.at < queue[t].at
<1>2. CASE queue' = queue /\ replay' = replay
  BY <1>2 DEF Overtaken
<1>3. ASSUME NEW d \in Tabs, Enqueue(d) PROVE Overtaken'
  <2>1. replay' = replay
    BY <1>3 DEF Enqueue
  <2>2. live[d].tap \notin DOMAIN queue
    BY <1>3 DEF Enqueue, LiveTaps, Idle
  <2>3. ASSUME NEW e \in Tabs, NEW copy \in replay[e].todo PROVE copy.at < enqueued + 1
    <3>1. copy.tap \in DOMAIN queue /\ copy.at = queue[copy.tap].at
      BY DEF TodoIsQueued
    <3>2. copy.at \in 1..enqueued
      BY <1>1, <3>1
    <3> QED
      BY <1>1, <3>2
  <2>4. queue'[live[d].tap].at = enqueued + 1
    BY <1>3, EnqueueAdds
  <2>5. ASSUME NEW e \in Tabs, replay[e].step # "idle", NEW t \in DOMAIN queue' PROVE Passed(e, t)'
    <3>1. CASE t = live[d].tap
      BY <2>1, <2>3, <2>4, <3>1
    <3>2. CASE t # live[d].tap
      <4>1. t \in DOMAIN queue /\ queue'[t] = queue[t]
        BY <1>3, <3>2, EnqueueAdds
      <4> QED
        BY <2>1, <2>5, <4>1 DEF Overtaken
    <3> QED
      BY <3>1, <3>2
  <2> QED
    BY <2>1, <2>5 DEF Overtaken
<1>4. ASSUME NEW d \in Tabs, SkipRow(d) PROVE Overtaken'
  <2>1. replay[d].todo # {} /\ queue' = queue /\ replay' = [replay EXCEPT ![d] = NextRow(d)]
    BY <1>4 DEF SkipRow, AtRow
  <2>2. Row(d).attempts >= BackoffFrom
    BY <1>4 DEF SkipRow, Resting
  <2>3. Row(d) \in Copies /\ Row(d).attempts = queue[Row(d).tap].attempts
    BY <2>1, RowKnown
  <2>4. queue[Row(d).tap].attempts > 0
    BY <1>1, <2>2, <2>3 DEF Copies
  <2>5. \A e \in Tabs : e # d => replay'[e] = replay[e]
    BY <1>1, <2>1
  <2>6. replay'[d].todo = replay[d].todo \ {Row(d)}
    BY <1>1, <2>1 DEF NextRow
  <2>7. ASSUME NEW t \in DOMAIN queue PROVE Passed(d, t)'
    <3>1. Passed(d, t)
      BY <1>4 DEF SkipRow, AtRow, Overtaken
    <3> QED
      BY <2>1, <2>4, <2>6, <3>1
  <2> HIDE DEF Passed
  <2>8. ASSUME NEW e \in Tabs, replay'[e].step # "idle", NEW t \in DOMAIN queue PROVE Passed(e, t)'
    BY <2>1, <2>5, <2>7, <2>8 DEF Overtaken, Passed
  <2> QED
    BY <2>1, <2>8 DEF Overtaken, Passed
<1>5. ASSUME NEW d \in Tabs, EndReplay(d) \/ Reload(d) PROVE Overtaken'
  <2>1. queue' = queue /\ replay' = [replay EXCEPT ![d] = NoReplay]
    BY <1>5 DEF EndReplay, Reload
  <2>2. \A e \in Tabs : replay'[e].step # "idle" => replay'[e] = replay[e]
    BY <1>1, <2>1 DEF NoReplay
  <2> QED
    BY <2>1, <2>2 DEF Overtaken
<1>6. ASSUME NEW d \in Tabs, StartReplay(d) PROVE Overtaken'
  <2>1. queue' = queue /\ replay' = [replay EXCEPT ![d] = [todo |-> Rows, step |-> "next"]]
    BY <1>6 DEF StartReplay
  <2>2. \A e \in Tabs : e # d => replay'[e] = replay[e]
    BY <1>1, <2>1
  <2>3. replay'[d].todo = Rows
    BY <1>1, <2>1
  <2>4. ASSUME NEW t \in DOMAIN queue PROVE \E copy \in Rows : copy.tap = t
    <3> DEFINE copy == [tap |-> t, at |-> queue[t].at, attempts |-> queue[t].attempts]
    <3>1. copy \in Rows /\ copy.tap = t
      BY DEF Rows
    <3> QED
      BY <3>1
  <2> QED
    BY <2>1, <2>2, <2>3, <2>4 DEF Overtaken
<1>7. ASSUME NEW d \in Tabs, NEW s \in Threads, SendRow(d, s) PROVE Overtaken'
  <2>1. queue' = queue /\ replay' = [replay EXCEPT ![d].step = "waiting"] /\ replay[d].step = "next"
    BY <1>7 DEF SendRow, AtRow
  <2>2. \A e \in Tabs : replay'[e].todo = replay[e].todo /\ (replay'[e].step # "idle" => replay[e].step # "idle")
    BY <1>1, <2>1
  <2> QED
    BY <2>1, <2>2 DEF Overtaken
<1>8. ASSUME NEW d \in Tabs, ReplayStep(d) PROVE Overtaken'
  <2>1. /\ replay[d].todo # {} /\ lock = d
        /\ replay' = [replay EXCEPT ![d] = NextRow(d)]
        /\ DOMAIN queue' \subseteq DOMAIN queue
        /\ \A t \in DOMAIN queue' : queue'[t].at = queue[t].at /\ (t # Row(d).tap => queue'[t] = queue[t])
    BY <1>8, ReplayKeepsPlaces DEF ReplayStep
  <2>2. replay[d].step # "idle"
    BY <2>1 DEF Replays
  <2>3. \A e \in Tabs : e # d => replay'[e].step = "idle"
    BY <1>1, <2>1 DEF Replays
  <2>4. replay'[d].todo = replay[d].todo \ {Row(d)}
    BY <1>1, <2>1 DEF NextRow
  <2>5. ASSUME Row(d).tap \in DOMAIN queue' PROVE queue'[Row(d).tap].attempts > 0
    <3>1. CASE \E s \in Threads : RowAnswered(d, s)
      <4>1. queue' = Without(Row(d).tap)
        BY <3>1 DEF RowAnswered
      <4> QED
        BY <2>5, <4>1, RowRemoved
    <3>2. CASE RowOffline(d) \/ \E s \in Threads : RowFailed(d, s) \/ RowLost(d, s)
      <4>1. queue' = Deferred(d)
        BY <3>2 DEF RowOffline, RowFailed, RowLost
      <4>2. queue'[Row(d).tap].attempts = queue[Row(d).tap].attempts + 1 /\ Row(d).tap \in DOMAIN queue
        BY <2>1, <4>1, RowDeferred, RowKnown
      <4> QED
        BY <1>1, <4>2
    <3> QED
      BY <1>8, <3>1, <3>2 DEF ReplayStep
  <2>6. ASSUME NEW t \in DOMAIN queue' PROVE Passed(d, t)'
    <3>1. Passed(d, t)
      BY <2>1, <2>2 DEF Overtaken
    <3>2. CASE t = Row(d).tap
      BY <2>5, <3>2
    <3>3. CASE t # Row(d).tap
      BY <2>1, <2>4, <3>1, <3>3
    <3> QED
      BY <3>2, <3>3
  <2> QED
    BY <2>3, <2>6 DEF Overtaken
<1>9. ASSUME NEW t \in DOMAIN queue, BackoffEnds(t) PROVE Overtaken'
  <2>1. replay' = replay /\ DOMAIN queue' = DOMAIN queue
    BY <1>1, <1>9 DEF BackoffEnds
  <2>2. \A u \in DOMAIN queue : queue'[u].at = queue[u].at /\ queue'[u].attempts = queue[u].attempts
    BY <1>1, <1>9 DEF BackoffEnds
  <2> QED
    BY <2>1, <2>2 DEF Overtaken
<1> QED
  BY <1>2, <1>3, <1>4, <1>5, <1>6, <1>7, <1>8, <1>9, QueueCases

\* A row that leaves before an older one leaves one behind that was tried.
LEMMA OnlyDeferredAreOvertaken ==
  ASSUME Shapes, Replays, TodoIsQueued, Callers, Overtaken, [ClockNext]_clockVars,
         NEW t \in DOMAIN queue, NEW u \in DOMAIN queue,
         queue[t].at < queue[u].at, u \notin DOMAIN queue', t \in DOMAIN queue'
  PROVE  queue[t].attempts > 0
<1>1. /\ queue \in [DOMAIN queue -> [at : 1..enqueued, attempts : Nat, resting : BOOLEAN]]
      /\ enqueued \in Nat
  BY DEF Shapes, DeviceShapes
<1>2. ASSUME NEW d \in Tabs, Enqueue(d) PROVE FALSE
  BY <1>2, EnqueueAdds
<1>3. ASSUME NEW d \in Tabs, SkipRow(d) \/ EndReplay(d) \/ StartReplay(d) \/ Reload(d) \/ \E s \in Threads : SendRow(d, s)
      PROVE  FALSE
  BY <1>3 DEF SkipRow, EndReplay, StartReplay, Reload, SendRow
<1>4. ASSUME NEW v \in DOMAIN queue, BackoffEnds(v) PROVE FALSE
  BY <1>1, <1>4 DEF BackoffEnds
<1>5. ASSUME NEW d \in Tabs, ReplayStep(d) PROVE queue[t].attempts > 0
  <2>1. replay[d].todo # {} /\ lock = d /\ u = Row(d).tap
    BY <1>5, ReplayKeepsPlaces DEF ReplayStep
  <2>2. replay[d].step # "idle"
    BY <2>1 DEF Replays
  <2>3. /\ Row(d) \in replay[d].todo /\ Row(d).at = queue[u].at
        /\ \A other \in replay[d].todo : Row(d).at <= other.at
    BY <2>1, RowKnown
  <2>4. queue[t].at \in Nat /\ queue[u].at \in Nat
    BY <1>1
  <2>5. ASSUME NEW copy \in replay[d].todo, copy.tap = t PROVE FALSE
    <3>1. copy.at = queue[t].at
      BY <2>5 DEF TodoIsQueued
    <3> QED
      BY <2>3, <2>4, <3>1
  <2>6. ~(\A copy \in replay[d].todo : copy.at < queue[t].at)
    BY <2>3, <2>4
  <2> QED
    BY <2>2, <2>5, <2>6 DEF Overtaken
<1> QED
  BY <1>2, <1>3, <1>4, <1>5, QueueCases

LEMMA KeptStays ==
  ASSUME Shapes, LiveTaps, TapsAreKept, [ClockNext]_clockVars
  PROVE  TapsAreKept'
<1>1. /\ live \in [Tabs -> [tap : Nat, step : {"idle", "waiting", "queueing"}]]
      /\ Len(taps) \in Nat
  BY DEF Shapes, DeviceShapes
<1>2. ASSUME taps' = taps, DOMAIN queue \subseteq DOMAIN queue' \union settled',
             settled \subseteq settled', forgotten \subseteq forgotten',
             \A d \in Tabs : \/ live'[d].tap = live[d].tap
                            \/ live[d].tap \in {0} \union DOMAIN queue' \union settled' \union forgotten'
      PROVE  TapsAreKept'
  BY <1>1, <1>2 DEF TapsAreKept
<1>3. ASSUME NEW d \in Tabs, SkipRow(d) \/ EndReplay(d) \/ StartReplay(d) PROVE TapsAreKept'
  BY <1>2, <1>3 DEF SkipRow, EndReplay, StartReplay, history
<1>4. ASSUME NEW d \in Tabs, Enqueue(d) PROVE TapsAreKept'
  <2>1. \A e \in Tabs : live'[e].tap = live[e].tap \/ live[e].tap \in DOMAIN queue'
    BY <1>1, <1>4, EnqueueAdds DEF Enqueue
  <2>2. DOMAIN queue \subseteq DOMAIN queue'
    BY <1>4, EnqueueAdds
  <2> QED
    BY <1>2, <1>4, <2>1, <2>2 DEF Enqueue, history
<1>5. ASSUME NEW d \in Tabs, Reload(d) PROVE TapsAreKept'
  <2>1. \A e \in Tabs : live'[e].tap = live[e].tap \/ live[e].tap \in {0} \union forgotten'
    BY <1>1, <1>5 DEF Reload, LiveTaps, Idle
  <2> QED
    BY <1>2, <1>5, <2>1 DEF Reload
<1>6. ASSUME NEW d \in Tabs, taps' \in Seq(Kinds), Len(taps') = Len(taps) + 1, live[d].step = "idle",
             queue' = queue, settled' = settled, forgotten' = forgotten,
             NEW step, live' = [live EXCEPT ![d] = [tap |-> Len(taps'), step |-> step]]
      PROVE  TapsAreKept'
  <2>1. live[d].tap = 0
    BY <1>6 DEF LiveTaps, Idle
  <2>2. live'[d].tap = Len(taps') /\ \A e \in Tabs : e # d => live'[e] = live[e]
    BY <1>1, <1>6
  <2>3. ASSUME NEW t \in 1..Len(taps')
        PROVE  \/ \E e \in Tabs : live'[e].tap = t
               \/ t \in DOMAIN queue'
               \/ t \in settled' \union forgotten'
    <3>1. CASE t = Len(taps')
      BY <2>2, <3>1
    <3>2. CASE t # Len(taps')
      <4>1. t \in 1..Len(taps) /\ t # 0
        BY <1>1, <1>6, <3>2
      <4> QED
        BY <1>6, <2>1, <2>2, <4>1 DEF TapsAreKept
    <3> QED
      BY <3>1, <3>2
  <2> QED
    BY <2>3 DEF TapsAreKept
<1>7. ASSUME NEW d \in Tabs, NEW k \in Kinds, TapOffline(d, k) PROVE TapsAreKept'
  <2>1. Len(taps') = Len(taps) + 1 /\ taps' \in Seq(Kinds)
    BY <1>7 DEF TapOffline, NewTap, Shapes, DeviceShapes
  <2> QED
    BY <1>6, <1>7, <2>1 DEF TapOffline, NewTap, history
<1>8. ASSUME NEW d \in Tabs, NEW k \in Kinds, NEW s \in Threads, Tap(d, k, s) PROVE TapsAreKept'
  BY <1>6, <1>8, TapArrives DEF Tap, NewTap, history
<1>9. ASSUME NEW d \in Tabs, NEW s \in Threads, SendRow(d, s) PROVE TapsAreKept'
  BY <1>2, <1>9 DEF SendRow, history
<1>10. ASSUME NEW d \in Tabs, NEW s \in Threads, RowAnswered(d, s) PROVE TapsAreKept'
  <2>1. queue' = Without(Row(d).tap) /\ settled' = settled \union {Row(d).tap}
    BY <1>10 DEF RowAnswered
  <2>2. DOMAIN queue \subseteq DOMAIN queue' \union settled'
    BY <2>1, RowRemoved
  <2> QED
    BY <1>2, <1>10, <2>1, <2>2 DEF RowAnswered
<1>11. ASSUME NEW d \in Tabs, RowOffline(d) \/ \E s \in Threads : RowFailed(d, s) \/ RowLost(d, s) PROVE TapsAreKept'
  <2>1. queue' = Deferred(d)
    BY <1>11 DEF RowOffline, RowFailed, RowLost
  <2>2. DOMAIN queue \subseteq DOMAIN queue'
    BY <2>1 DEF Deferred, Put
  <2> QED
    BY <1>2, <1>11, <2>2 DEF RowOffline, RowFailed, RowLost, history
<1>12. ASSUME NEW d \in Tabs, NEW s \in Threads, LiveAnswered(d, s) PROVE TapsAreKept'
  <2>1. \A e \in Tabs : live'[e].tap = live[e].tap \/ live[e].tap \in settled'
    BY <1>1, <1>12 DEF LiveAnswered
  <2> QED
    BY <1>2, <1>12, <2>1 DEF LiveAnswered
<1>13. ASSUME NEW d \in Tabs, NEW s \in Threads, LiveLost(d, s) PROVE TapsAreKept'
  <2>1. \A e \in Tabs : live'[e].tap = live[e].tap
    BY <1>1, <1>13 DEF LiveLost
  <2> QED
    BY <1>2, <1>13, <2>1 DEF LiveLost
<1>14. ASSUME NEW s \in Threads, Handle(s) \/ ServerFails(s) \/ SessionExpired(s) PROVE TapsAreKept'
  <2>1. settled' = settled /\ forgotten' = forgotten
    BY <1>14 DEF Handle, ServerFails, SessionExpired, history
  <2>2. UNCHANGED deviceVars
    BY <1>14, ServerMoves
  <2> QED
    BY <1>2, <2>1, <2>2 DEF deviceVars
<1>15. ASSUME NEW i \in DOMAIN events, Void(i) PROVE TapsAreKept'
  BY <1>2, <1>15 DEF Void, deviceVars, history
<1>16. ASSUME NEW t \in DOMAIN queue, BackoffEnds(t) PROVE TapsAreKept'
  <2>1. DOMAIN queue' = DOMAIN queue
    BY <1>16 DEF BackoffEnds, Shapes, DeviceShapes
  <2> QED
    BY <1>2, <1>16, <2>1 DEF BackoffEnds, history
<1>17. CASE UNCHANGED clockVars
  BY <1>2, <1>17 DEF clockVars, deviceVars, history
<1> QED
  BY <1>3, <1>4, <1>5, <1>7, <1>8, <1>9, <1>10, <1>11, <1>12, <1>13, <1>14, <1>15, <1>16, <1>17, StepCases

-----------------------------------------------------------------------------
(* The server's half: shifts and their labor entries. *)

\* The only way a labor entry comes into being.
LEMMA EntryCases ==
  ASSUME [ClockNext]_clockVars
  PROVE  entries' = entries \/ \E s \in Threads : DraftEntry(s)
<1>1. ASSUME NEW d \in Tabs, Enqueue(d) \/ SkipRow(d) \/ EndReplay(d) \/ StartReplay(d) \/ RowOffline(d) \/ Reload(d)
      PROVE  entries' = entries
  BY <1>1 DEF Enqueue, SkipRow, EndReplay, StartReplay, RowOffline, Reload, serverVars
<1>2. ASSUME NEW d \in Tabs, NEW k \in Kinds, TapOffline(d, k) \/ \E s \in Threads : Tap(d, k, s)
      PROVE  entries' = entries
  BY <1>2 DEF TapOffline, Tap, Arrive, serverVars
<1>3. ASSUME NEW d \in Tabs, NEW s \in Threads,
             \/ SendRow(d, s) \/ RowAnswered(d, s) \/ RowFailed(d, s)
             \/ RowLost(d, s) \/ LiveAnswered(d, s) \/ LiveLost(d, s)
      PROVE  entries' = entries
  BY <1>3 DEF SendRow, Arrive, RowAnswered, RowFailed, RowLost, LiveAnswered, LiveLost
<1>4. ASSUME NEW s \in Threads, Handle(s) \/ ServerFails(s) \/ SessionExpired(s)
      PROVE  entries' = entries \/ DraftEntry(s)
  BY <1>4 DEF Handle, ServerFails, SessionExpired, ClockIn, FindOpenIn, ClockOut, Breaks, TurnAway
<1>5. ASSUME NEW i \in DOMAIN events, Void(i) PROVE entries' = entries
  BY <1>5 DEF Void, VoidEvent
<1>6. ASSUME NEW t \in DOMAIN queue, BackoffEnds(t) PROVE entries' = entries
  BY <1>6 DEF BackoffEnds, serverVars
<1>7. CASE UNCHANGED clockVars
  BY <1>7 DEF clockVars, serverVars
<1> QED
  BY <1>1, <1>2, <1>3, <1>4, <1>5, <1>6, <1>7, StepCases

\* What is unsure stays unsure.
LEMMA UnsureGrows ==
  ASSUME Shapes, TodoIsQueued, Replays, Callers, LiveTaps, [ClockNext]_clockVars, NEW t \in TapIds
  PROVE  unsure[t] \in Nat /\ unsure'[t] \in Nat /\ unsure[t] <= unsure'[t]
<1>1. unsure \in [TapIds -> Nat]
  BY DEF Shapes, DeviceShapes
<1>2. CASE unsure' = unsure
  BY <1>1, <1>2
<1>3. ASSUME NEW u, unsure' = [unsure EXCEPT ![u] = @ + 1]
      PROVE  unsure[t] \in Nat /\ unsure'[t] \in Nat /\ unsure[t] <= unsure'[t]
  BY <1>1, <1>3
<1>4. ASSUME NEW called, unsure' = [u \in TapIds |-> unsure[u] + IF u \in called THEN 1 ELSE 0]
      PROVE  unsure[t] \in Nat /\ unsure'[t] \in Nat /\ unsure[t] <= unsure'[t]
  BY <1>1, <1>4
<1>5. ASSUME NEW d \in Tabs, Enqueue(d) \/ SkipRow(d) \/ EndReplay(d) \/ StartReplay(d) \/ RowOffline(d)
      PROVE  unsure' = unsure
  BY <1>5 DEF Enqueue, SkipRow, EndReplay, StartReplay, RowOffline, history
<1>6. ASSUME NEW d \in Tabs, Reload(d)
      PROVE  unsure[t] \in Nat /\ unsure'[t] \in Nat /\ unsure[t] <= unsure'[t]
  BY <1>4, <1>6 DEF Reload
<1>7. ASSUME NEW d \in Tabs, NEW k \in Kinds, TapOffline(d, k) \/ \E s \in Threads : Tap(d, k, s)
      PROVE  unsure' = unsure
  BY <1>7 DEF TapOffline, Tap, history
<1>8. ASSUME NEW d \in Tabs, NEW s \in Threads,
             SendRow(d, s) \/ RowAnswered(d, s) \/ RowFailed(d, s) \/ LiveAnswered(d, s)
      PROVE  unsure' = unsure
  BY <1>8 DEF SendRow, RowAnswered, RowFailed, LiveAnswered, history
<1>9. ASSUME NEW d \in Tabs, NEW s \in Threads, RowLost(d, s) \/ LiveLost(d, s)
      PROVE  unsure[t] \in Nat /\ unsure'[t] \in Nat /\ unsure[t] <= unsure'[t]
  BY <1>3, <1>9 DEF RowLost, LiveLost
<1>10. ASSUME NEW s \in Threads, Handle(s) \/ SessionExpired(s) PROVE unsure' = unsure
  BY <1>10 DEF Handle, SessionExpired, history
<1>11. ASSUME NEW s \in Threads, ServerFails(s)
       PROVE  unsure[t] \in Nat /\ unsure'[t] \in Nat /\ unsure[t] <= unsure'[t]
  BY <1>3, <1>11 DEF ServerFails
<1>12. ASSUME NEW i \in DOMAIN events, Void(i) PROVE unsure' = unsure
  BY <1>12 DEF Void, history
<1>13. ASSUME NEW u \in DOMAIN queue, BackoffEnds(u) PROVE unsure' = unsure
  BY <1>13 DEF BackoffEnds, history
<1>14. CASE UNCHANGED clockVars
  BY <1>2, <1>14 DEF clockVars, history
<1> QED
  BY <1>2, <1>5, <1>6, <1>7, <1>8, <1>9, <1>10, <1>11, <1>12, <1>13, <1>14, StepCases

SameShift(s) ==
    /\ thread'[s].step = thread[s].step /\ thread'[s].kind = thread[s].kind
    /\ thread'[s].tap = thread[s].tap
    /\ thread'[s].open = thread[s].open /\ thread'[s].out = thread[s].out

\* A thread that is at a shift after a step was at it before, or it has just
\* read the open clock-in or inserted the clock-out.
LEMMA ShiftMoves ==
  ASSUME Shapes, TodoIsQueued, [ClockNext]_clockVars,
         NEW s \in Threads, thread'[s].step \in {"read", "closed"}
  PROVE  \/ SameShift(s)
         \/ /\ FindOpenIn(s) /\ OpenIn # 0 /\ thread'[s].step = "read"
            /\ thread'[s].kind = "out" /\ thread'[s].open = OpenIn
            /\ events' = events
         \/ /\ ClockOut(s) /\ thread'[s].step = "closed" /\ thread[s].step = "read"
            /\ thread'[s].kind = thread[s].kind /\ thread'[s].tap = thread[s].tap
            /\ thread'[s].open = thread[s].open /\ thread'[s].out = Len(events')
            /\ Inserts(s)
            /\ \A r \in Threads : r # s => thread'[r] = thread[r]
<1>1. thread \in [Threads -> Calls] /\ thread[s] \in Calls
  BY DEF Shapes
<1>2. Free.step = "free" /\ {"read", "closed"} \intersect Outcomes = {}
  BY DEF Free, Outcomes
<1>3. CASE thread'[s] = thread[s]
  BY <1>3 DEF SameShift
<1>4. CASE thread[s].step \in Running /\ thread'[s] = [thread[s] EXCEPT !.caller = Nobody]
  BY <1>1, <1>4 DEF SameShift, Calls
<1>5. CASE Handle(s) \/ ServerFails(s) \/ SessionExpired(s)
  <2>1. ASSUME NEW answer \in Outcomes, thread' = [thread EXCEPT ![s] = Answered(s, answer)] PROVE FALSE
    <3>1. thread'[s] = Answered(s, answer)
      BY <1>1, <2>1
    <3>2. [thread[s] EXCEPT !.step = answer].step = answer
      BY <1>1 DEF Calls
    <3> QED
      BY <1>1, <1>2, <3>1, <3>2, AnswerOf
  <2>2. {"ok", "refused", "failed"} \subseteq Outcomes
    BY DEF Outcomes
  <2>3. ~(ClockIn(s) \/ DraftEntry(s) \/ ServerFails(s) \/ SessionExpired(s))
    BY <2>1, <2>2 DEF ClockIn, DraftEntry, ServerFails, Breaks, SessionExpired, TurnAway
  <2>4. CASE FindOpenIn(s)
    <3>1. OpenIn # 0
      BY <2>1, <2>2, <2>4 DEF FindOpenIn
    <3>2. thread'[s] = [thread[s] EXCEPT !.step = "read", !.open = OpenIn] /\ events' = events /\ thread[s].kind = "out"
      BY <1>1, <2>4, <3>1 DEF FindOpenIn
    <3> QED
      BY <1>1, <2>4, <3>1, <3>2 DEF Calls
  <2>5. CASE ClockOut(s)
    <3>1. thread' = [thread EXCEPT ![s] = [thread[s] EXCEPT !.step = "closed", !.out = Len(events')]]
          /\ Inserts(s) /\ thread[s].step = "read"
      BY <2>5 DEF ClockOut, Inserts
    <3>2. thread'[s] = [thread[s] EXCEPT !.step = "closed", !.out = Len(events')]
          /\ \A r \in Threads : r # s => thread'[r] = thread[r]
      BY <1>1, <3>1
    <3> QED
      BY <1>1, <2>5, <3>1, <3>2 DEF Calls
  <2> QED
    BY <1>5, <2>3, <2>4, <2>5 DEF Handle
<1> QED
  BY <1>2, <1>3, <1>4, <1>5, ThreadsMove DEF ThreadMove

LEMMA ShiftsStay ==
  ASSUME Shapes, TodoIsQueued, Shifts, [ClockNext]_clockVars
  PROVE  Shifts'
<1>1. events \in Seq(Stamps) /\ thread \in [Threads -> Calls] /\ Len(events) \in Nat /\ DOMAIN events = 1..Len(events)
  BY DEF Shapes
<1>2. DOMAIN events \subseteq DOMAIN events' /\ \A i \in DOMAIN events :
        /\ events'[i].kind = events[i].kind
        /\ events'[i].tap = events[i].tap
        /\ events'[i].drafts = events[i].drafts
  BY EventsGrow
<1>3. ASSUME NEW s \in Threads, DraftEntry(s)
      PROVE  /\ entries' = entries \union {e \in {[in |-> thread[s].open, out |-> thread[s].out]} :
                                            events[thread[s].out].drafts}
             /\ thread[s].step = "closed" /\ thread'[s].step # "closed"
  <2>1. /\ thread[s].step = "closed"
        /\ entries' = entries \union {e \in {[in |-> thread[s].open, out |-> thread[s].out]} :
                                         events[thread[s].out].drafts}
        /\ thread'[s] = Answered(s, "ok")
    BY <1>1, <1>3 DEF DraftEntry
  <2>2. Answered(s, "ok").step # "closed"
    <3>1. Free.step = "free" /\ [thread[s] EXCEPT !.step = "ok"].step = "ok" /\ "ok" \in Outcomes
      BY <1>1 DEF Free, Calls, Outcomes
    <3> QED
      BY <1>1, <3>1, AnswerOf
  <2> QED
    BY <2>1, <2>2
<1>4. EntriesPay'
  <2>1. ASSUME NEW e \in entries
        PROVE  /\ e \in [in : DOMAIN events', out : DOMAIN events']
               /\ e.in < e.out /\ events'[e.in].kind = "in" /\ events'[e.out].kind = "out"
               /\ events'[e.out].drafts
    <3>1. e \in [in : DOMAIN events, out : DOMAIN events]
      BY DEF Shifts, EntriesPay
    <3>2. e \in [in : DOMAIN events', out : DOMAIN events'] /\ e.in \in DOMAIN events /\ e.out \in DOMAIN events
      BY <1>2, <3>1
    <3> QED
      BY <1>2, <3>2 DEF Shifts, EntriesPay
  <2>2. ASSUME NEW s \in Threads, DraftEntry(s), NEW e, e = [in |-> thread[s].open, out |-> thread[s].out],
               events[thread[s].out].drafts
        PROVE  /\ e \in [in : DOMAIN events', out : DOMAIN events']
               /\ e.in < e.out /\ events'[e.in].kind = "in" /\ events'[e.out].kind = "out"
               /\ events'[e.out].drafts
    <3>1. /\ thread[s].open \in DOMAIN events /\ thread[s].out \in DOMAIN events /\ thread[s].open < thread[s].out
          /\ events[thread[s].open].kind = "in" /\ events[thread[s].out].kind = "out"
      BY <1>3, <2>2 DEF Shifts, ShiftsWereOpen, OutsAreUnpaid, AtShift
    <3>2. e.in = thread[s].open /\ e.out = thread[s].out
      BY <2>2
    <3>3. e \in [in : DOMAIN events', out : DOMAIN events']
      BY <1>2, <2>2, <3>1
    <3>4. e.in < e.out /\ events'[e.in].kind = "in" /\ events'[e.out].kind = "out"
      BY <1>2, <3>1, <3>2
    <3>5. events'[thread[s].out].drafts = TRUE
      <4>1. events[thread[s].out].drafts = TRUE
        BY <1>1, <2>2, <3>1 DEF Stamps
      <4> QED
        BY <1>2, <3>1, <4>1
    <3> QED
      BY <3>2, <3>3, <3>4, <3>5
  <2>3. CASE entries' = entries
    BY <2>1, <2>3 DEF EntriesPay
  <2>4. ASSUME NEW s \in Threads, DraftEntry(s) PROVE EntriesPay'
    <3>1. entries' = entries \union {e \in {[in |-> thread[s].open, out |-> thread[s].out]} :
                                       events[thread[s].out].drafts}
      BY <1>3, <2>4
    <3> QED
      BY <2>1, <2>2, <2>4, <3>1 DEF EntriesPay
  <2> QED
    BY <2>3, <2>4, EntryCases
<1>5. OutsPaidOnce'
  <2>1. CASE entries' = entries
    BY <2>1 DEF Shifts, OutsPaidOnce
  <2>2. ASSUME NEW s \in Threads, DraftEntry(s) PROVE OutsPaidOnce'
    <3> DEFINE new == [in |-> thread[s].open, out |-> thread[s].out]
    <3>1. entries' \subseteq entries \union {new} /\ new.out = thread[s].out
      BY <1>3, <2>2
    <3>2. \A e \in entries : e.out # new.out
      BY <1>3, <2>2, <3>1 DEF Shifts, OutsAreUnpaid
    <3> HIDE DEF new
    <3> QED
      BY <3>1, <3>2 DEF Shifts, OutsPaidOnce
  <2> QED
    BY <2>1, <2>2, EntryCases
<1>6. ASSUME NEW s \in Threads, AtShift(s)'
      PROVE  /\ thread'[s].kind = "out"
             /\ thread'[s].open \in DOMAIN events'
             /\ events'[thread'[s].open].kind = "in"
  <2>1. CASE SameShift(s)
    <3>1. AtShift(s) /\ thread'[s].kind = thread[s].kind /\ thread'[s].open = thread[s].open
      BY <1>6, <2>1 DEF SameShift, AtShift
    <3> QED
      BY <1>2, <3>1 DEF Shifts, ShiftsWereOpen
  <2>2. CASE OpenIn # 0 /\ thread'[s].kind = "out" /\ thread'[s].open = OpenIn
    BY <1>2, <2>2, OpenInIsOpen
  <2>3. CASE thread[s].step = "read" /\ thread'[s].kind = thread[s].kind /\ thread'[s].open = thread[s].open
    BY <1>2, <2>3 DEF Shifts, ShiftsWereOpen, AtShift
  <2> QED
    BY <1>6, <2>1, <2>2, <2>3, ShiftMoves DEF AtShift
<1>7. ASSUME NEW s \in Threads, thread'[s].step = "closed"
      PROVE  /\ thread'[s].out \in DOMAIN events'
             /\ thread'[s].open < thread'[s].out
             /\ events'[thread'[s].out].kind = "out"
             /\ events'[thread'[s].out].tap = thread'[s].tap
             /\ \A e \in entries' : e.out # thread'[s].out
  <2>1. CASE SameShift(s)
    <3>1. /\ thread[s].step = "closed" /\ thread'[s].out = thread[s].out
          /\ thread'[s].open = thread[s].open /\ thread'[s].tap = thread[s].tap
      BY <1>7, <2>1 DEF SameShift
    <3>2. /\ thread[s].out \in DOMAIN events /\ thread[s].open < thread[s].out
          /\ events[thread[s].out].kind = "out" /\ events[thread[s].out].tap = thread[s].tap
          /\ \A e \in entries : e.out # thread[s].out
      BY <3>1 DEF Shifts, OutsAreUnpaid
    <3>3. ASSUME NEW r \in Threads, DraftEntry(r) PROVE \A e \in entries' : e.out # thread[s].out
      <4> DEFINE new == [in |-> thread[r].open, out |-> thread[r].out]
      <4>1. r # s /\ thread[r].step = "closed" /\ entries' \subseteq entries \union {new} /\ new.out = thread[r].out
        BY <1>3, <1>7, <3>3
      <4>2. new.out # thread[s].out
        BY <3>1, <4>1 DEF Shifts, OutsDiffer
      <4> HIDE DEF new
      <4> QED
        BY <3>2, <4>1, <4>2
    <3>4. \A e \in entries' : e.out # thread[s].out
      BY <3>2, <3>3, EntryCases
    <3> QED
      BY <1>2, <3>1, <3>2, <3>4
  <2>2. CASE /\ ClockOut(s) /\ thread[s].step = "read"
             /\ thread'[s].kind = thread[s].kind /\ thread'[s].tap = thread[s].tap
             /\ thread'[s].open = thread[s].open /\ thread'[s].out = Len(events')
             /\ Inserts(s)
    <3>1. /\ Len(events') = Len(events) + 1 /\ DOMAIN events' = DOMAIN events \union {Len(events) + 1}
          /\ events'[Len(events) + 1].kind = thread[s].kind /\ events'[Len(events) + 1].tap = thread[s].tap
      BY <2>2, Inserted
    <3>2. thread[s].kind = "out" /\ thread[s].open \in DOMAIN events
      BY <2>2 DEF Shifts, ShiftsWereOpen, AtShift
    <3>3. entries' = entries
      BY <2>2 DEF ClockOut
    <3>4. \A e \in entries : e.out \in 1..Len(events)
      BY <1>1 DEF Shifts, EntriesPay
    <3> QED
      BY <1>1, <2>2, <3>1, <3>2, <3>3, <3>4
  <2> QED
    BY <1>7, <2>1, <2>2, ShiftMoves
<1>8. ASSUME NEW s \in Threads, thread'[s].step = "closed"
      PROVE  \/ SameShift(s) /\ thread[s].step = "closed"
                /\ thread[s].out \in 1..Len(events) /\ thread'[s].out = thread[s].out
             \/ /\ thread[s].step = "read" /\ thread'[s].out = Len(events) + 1
                /\ \A r \in Threads : r # s => thread'[r] = thread[r]
  <2>1. CASE SameShift(s)
    BY <1>1, <1>8, <2>1 DEF SameShift, Shifts, OutsAreUnpaid
  <2>2. CASE /\ thread[s].step = "read" /\ thread'[s].out = Len(events') /\ Inserts(s)
             /\ \A r \in Threads : r # s => thread'[r] = thread[r]
    BY <2>2, Inserted
  <2> QED
    BY <1>8, <2>1, <2>2, ShiftMoves
<1>9. ASSUME NEW s \in Threads, NEW r \in Threads, thread'[s].step = "closed", thread'[r].step = "closed",
             thread'[s].out = thread'[r].out
      PROVE  s = r
  <2>1. \A n \in 1..Len(events) : n # Len(events) + 1
    BY <1>1
  <2> QED
    BY <1>8, <1>9, <2>1 DEF Shifts, OutsDiffer
<1> QED
  BY <1>4, <1>5, <1>6, <1>7, <1>9 DEF Shifts, ShiftsWereOpen, OutsAreUnpaid, OutsDiffer, AtShift

LEMMA OutsEndStays ==
  ASSUME Shapes, LiveTaps, Replays, TodoIsQueued, Callers, TapsCalled, Shifts, OutsEnd, [ClockNext]_clockVars
  PROVE  OutsEnd'
<1>1. /\ events \in Seq(Stamps) /\ thread \in [Threads -> Calls]
      /\ unsure \in [TapIds -> Nat]
      /\ 1..Len(taps) \subseteq TapIds
  BY BoundsAreNaturals DEF Shapes, DeviceShapes, TapIds
<1>2. DOMAIN events \subseteq DOMAIN events' /\ \A i \in DOMAIN events :
        events'[i].tap = events[i].tap /\ events'[i].drafts = events[i].drafts
  BY EventsGrow
<1>3. \A i \in DOMAIN events : events[i].tap \in TapIds
  BY <1>1 DEF TapsCalled
<1>4. entries \subseteq entries'
  BY EntryCases DEF DraftEntry
<1>5. "closed" \in Running /\ Free.step = "free"
  BY DEF Running, Free
<1>6. ASSUME NEW s \in Threads, thread[s].step = "closed", events[thread[s].out].drafts
      PROVE  \/ thread'[s].step = "closed" /\ thread'[s].out = thread[s].out
             \/ \E e \in entries' : e.out = thread[s].out
             \/ unsure'[events[thread[s].out].tap] > 0
  <2>1. CASE thread'[s] = thread[s]
    BY <1>6, <2>1
  <2>2. CASE thread'[s] = [thread[s] EXCEPT !.caller = Nobody]
    BY <1>1, <1>6, <2>2 DEF Calls
  <2>3. CASE DraftEntry(s)
    <3> DEFINE new == [in |-> thread[s].open, out |-> thread[s].out]
    <3>1. new \in entries' /\ new.out = thread[s].out
      BY <1>6, <2>3 DEF DraftEntry
    <3> QED
      BY <3>1
  <2>4. CASE ServerFails(s)
    <3>1. thread[s].tap \in TapIds /\ unsure' = [unsure EXCEPT ![thread[s].tap] = @ + 1]
          /\ events[thread[s].out].tap = thread[s].tap
      BY <1>1, <1>6, <2>4 DEF ServerFails, TapsCalled, Shifts, OutsAreUnpaid
    <3> QED
      BY <1>1, <3>1
  <2>5. ~ClockIn(s) /\ ~FindOpenIn(s) /\ ~ClockOut(s) /\ ~SessionExpired(s)
    BY <1>6 DEF ClockIn, FindOpenIn, ClockOut, SessionExpired, TurnAway
  <2> QED
    BY <1>5, <1>6, <2>1, <2>2, <2>3, <2>4, <2>5, ThreadsMove DEF ThreadMove, Handle
<1>7. ASSUME NEW i \in DOMAIN events', events'[i].drafts
      PROVE  \/ \E e \in entries' : e.out = i
             \/ \E s \in Threads : thread'[s].step = "closed" /\ thread'[s].out = i
             \/ unsure'[events'[i].tap] > 0
  <2>1. CASE i \in DOMAIN events
    <3>1. events[i].drafts /\ events'[i].tap = events[i].tap
      BY <1>2, <1>7, <2>1
    <3>2. CASE \E e \in entries : e.out = i
      BY <1>4, <3>2
    <3>3. CASE \E s \in Threads : thread[s].step = "closed" /\ thread[s].out = i
      BY <1>6, <3>1, <3>3
    <3>4. CASE unsure[events[i].tap] > 0
      <4>1. events[i].tap \in TapIds
        BY <1>3, <2>1
      <4> DEFINE t == events[i].tap
      <4>2. unsure[t] \in Nat /\ unsure'[t] \in Nat /\ unsure[t] <= unsure'[t]
        BY <4>1, UnsureGrows
      <4> QED
        BY <3>1, <3>4, <4>2
    <3> QED
      BY <2>1, <3>1, <3>2, <3>3, <3>4 DEF OutsEnd
  <2>2. CASE i \notin DOMAIN events
    <3>1. PICK s \in Threads : Inserts(s) /\ (ClockIn(s) \/ ClockOut(s))
      BY <1>7, <2>2, NewEvents
    <3>2. i = Len(events) + 1 /\ i = Len(events')
      BY <1>7, <2>2, <3>1, Inserted
    <3>3. ClockOut(s)
      <4> DEFINE e == [kind |-> thread[s].kind, tap |-> thread[s].tap, voided |-> FALSE, drafts |-> FALSE]
      <4>1. SUFFICES ASSUME ClockIn(s) PROVE FALSE
        BY <3>1
      <4>2. events' = Append(events, e)
        BY <4>1 DEF ClockIn, Insert
      <4>3. events'[i] = e /\ ~e.drafts
        BY <1>1, <3>2, <4>2
      <4> QED
        BY <1>7, <4>3
    <3>4. thread'[s] = [thread[s] EXCEPT !.step = "closed", !.out = Len(events')]
      BY <1>1, <3>3 DEF ClockOut
    <3>5. thread'[s].step = "closed" /\ thread'[s].out = i
      BY <1>1, <3>2, <3>4 DEF Calls
    <3> QED
      BY <3>5
  <2> QED
    BY <2>1, <2>2
<1> QED
  BY <1>7 DEF OutsEnd

-----------------------------------------------------------------------------
(* Copies: every event, every request on its way to one and every chance of *)
(* another request is paid for by the tap or by a call it is unsure of.     *)

LEMMA CountsAreNumbers ==
  ASSUME events \in Seq(Stamps), NEW t
  PROVE  /\ IsFiniteSet(EventsOf(t)) /\ Cardinality(EventsOf(t)) \in Nat
         /\ IsFiniteSet(Inserting(t)) /\ Cardinality(Inserting(t)) \in Nat
         /\ Chance(t) \in {0, 1}
<1>1. IsFiniteSet(1..Len(events)) /\ EventsOf(t) \in SUBSET (1..Len(events))
  <2>1. Len(events) \in Int /\ 1 \in Int
    OBVIOUS
  <2>2. IsFiniteSet(1..Len(events))
    BY <2>1, FS_Interval
  <2> QED
    BY <2>2 DEF EventsOf
<1>2. IsFiniteSet(Threads) /\ Inserting(t) \in SUBSET Threads
  <2>1. MaxThreads \in Int /\ 1 \in Int
    BY ServerBounds
  <2>2. IsFiniteSet(Threads)
    BY <2>1, FS_Interval DEF Threads
  <2> QED
    BY <2>2 DEF Inserting
<1>3. IsFiniteSet(EventsOf(t)) /\ IsFiniteSet(Inserting(t))
  BY <1>1, <1>2, FS_Subset
<1>4. Cardinality(EventsOf(t)) \in Nat /\ Cardinality(Inserting(t)) \in Nat
  BY <1>3, FS_CardinalityType
<1> QED
  BY <1>3, <1>4 DEF Chance

\* A step that inserts nothing and sends nothing for the tap.
LEMMA QuietCount ==
  ASSUME Shapes, events' \in Seq(Stamps), NEW t, Counted(t),
         EventsOf(t)' = EventsOf(t), Inserting(t)' \subseteq Inserting(t),
         unsure[t] \in Nat, unsure'[t] \in Nat, unsure[t] <= unsure'[t],
         Sendable(t)' => Sendable(t) \/ unsure'[t] >= unsure[t] + 1
  PROVE  Counted(t)'
<1>1. /\ IsFiniteSet(EventsOf(t)) /\ Cardinality(EventsOf(t)) \in Nat
      /\ IsFiniteSet(Inserting(t)) /\ Cardinality(Inserting(t)) \in Nat
      /\ Chance(t) \in {0, 1}
  BY CountsAreNumbers DEF Shapes
<1>2. Cardinality(Inserting(t)') \in Nat /\ Cardinality(Inserting(t)') <= Cardinality(Inserting(t))
  <2>1. IsFiniteSet(Inserting(t)') /\ Cardinality(Inserting(t)') <= Cardinality(Inserting(t))
    BY <1>1, FS_Subset
  <2> QED
    BY <2>1, FS_CardinalityType
<1>3. Chance(t)' \in {0, 1} /\ (Chance(t)' <= Chance(t) \/ unsure'[t] >= unsure[t] + 1)
  BY DEF Chance
<1>4. Cardinality(EventsOf(t)') = Cardinality(EventsOf(t))
  OBVIOUS
<1> DEFINE a == Cardinality(Inserting(t))
           b == Cardinality(Inserting(t)')
           e == Cardinality(EventsOf(t))
           f == Cardinality(EventsOf(t)')
           c == Chance(t)
           g == Chance(t)'
           u == unsure[t]
           v == unsure'[t]
<1>5. e + a + c <= 1 + u
  BY DEF Counted
<1>6. /\ a \in Nat /\ b \in Nat /\ e \in Nat /\ c \in {0, 1} /\ g \in {0, 1} /\ u \in Nat /\ v \in Nat
      /\ b <= a /\ f = e /\ (g <= c \/ v >= u + 1) /\ u <= v
  BY <1>1, <1>2, <1>3, <1>4
<1>7. f + b + g <= 1 + v => Counted(t)'
  BY DEF Counted
<1> HIDE DEF a, b, c, e, f, g, u, v
<1>8. f + b + g <= 1 + v
  BY ONLY <1>5, <1>6
<1> QED
  BY <1>7, <1>8

\* An insert takes a request's place.
LEMMA InsertCount ==
  ASSUME Shapes, events' \in Seq(Stamps), NEW t, Counted(t),
         NEW i, i \notin EventsOf(t), EventsOf(t)' = EventsOf(t) \union {i},
         NEW s, s \in Inserting(t), Inserting(t)' = Inserting(t) \ {s},
         unsure[t] \in Nat, unsure'[t] \in Nat, unsure[t] <= unsure'[t],
         Sendable(t)' => Sendable(t) \/ unsure'[t] >= unsure[t] + 1
  PROVE  Counted(t)'
<1>1. /\ IsFiniteSet(EventsOf(t)) /\ Cardinality(EventsOf(t)) \in Nat
      /\ IsFiniteSet(Inserting(t)) /\ Cardinality(Inserting(t)) \in Nat
      /\ Chance(t) \in {0, 1}
  BY CountsAreNumbers DEF Shapes
<1>2. Cardinality(EventsOf(t)') = Cardinality(EventsOf(t)) + 1
  BY <1>1, FS_AddElement
<1>3. Cardinality(Inserting(t)') = Cardinality(Inserting(t)) - 1
  BY <1>1, FS_RemoveElement
<1>4. Chance(t)' \in {0, 1} /\ (Chance(t)' <= Chance(t) \/ unsure'[t] >= unsure[t] + 1)
  BY DEF Chance
<1> DEFINE a == Cardinality(Inserting(t))
           b == Cardinality(Inserting(t)')
           e == Cardinality(EventsOf(t))
           f == Cardinality(EventsOf(t)')
           c == Chance(t)
           g == Chance(t)'
           u == unsure[t]
           v == unsure'[t]
<1>5. e + a + c <= 1 + u
  BY DEF Counted
<1>6. /\ a \in Nat /\ e \in Nat /\ c \in {0, 1} /\ g \in {0, 1} /\ u \in Nat /\ v \in Nat
      /\ b = a - 1 /\ f = e + 1 /\ (g <= c \/ v >= u + 1) /\ u <= v
  BY <1>1, <1>2, <1>3, <1>4
<1>7. f + b + g <= 1 + v => Counted(t)'
  BY DEF Counted
<1> HIDE DEF a, b, c, e, f, g, u, v
<1>8. f + b + g <= 1 + v
  BY ONLY <1>5, <1>6
<1> QED
  BY <1>7, <1>8

\* A row that is sent gives up its chance for a request.
LEMMA SendCount ==
  ASSUME Shapes, events' \in Seq(Stamps), NEW t, Counted(t),
         EventsOf(t)' = EventsOf(t), NEW s, s \notin Inserting(t), Inserting(t)' = Inserting(t) \union {s},
         unsure[t] \in Nat, unsure'[t] = unsure[t],
         Sendable(t), ~Sendable(t)'
  PROVE  Counted(t)'
<1>1. /\ IsFiniteSet(EventsOf(t)) /\ Cardinality(EventsOf(t)) \in Nat
      /\ IsFiniteSet(Inserting(t)) /\ Cardinality(Inserting(t)) \in Nat
  BY CountsAreNumbers DEF Shapes
<1>2. Cardinality(EventsOf(t)') = Cardinality(EventsOf(t))
  OBVIOUS
<1>3. Cardinality(Inserting(t)') = Cardinality(Inserting(t)) + 1
  BY <1>1, FS_AddElement
<1>4. Chance(t) = 1 /\ Chance(t)' = 0
  BY DEF Chance
<1> DEFINE a == Cardinality(Inserting(t))
           b == Cardinality(Inserting(t)')
           e == Cardinality(EventsOf(t))
           f == Cardinality(EventsOf(t)')
           c == Chance(t)
           g == Chance(t)'
           u == unsure[t]
           v == unsure'[t]
<1>5. e + a + c <= 1 + u
  BY DEF Counted
<1>6. /\ a \in Nat /\ e \in Nat /\ c = 1 /\ g = 0 /\ u \in Nat
      /\ b = a + 1 /\ f = e /\ v = u
  BY <1>1, <1>2, <1>3, <1>4
<1>7. f + b + g <= 1 + v => Counted(t)'
  BY DEF Counted
<1> HIDE DEF a, b, c, e, f, g, u, v
<1>8. f + b + g <= 1 + v
  BY ONLY <1>5, <1>6
<1> QED
  BY <1>7, <1>8

\* A new tap has paid for its first call.
LEMMA FreshCount ==
  ASSUME NEW t, EventsOf(t)' = {}, NEW s, Inserting(t)' = {} \/ (Inserting(t)' = {s} /\ ~Sendable(t)'),
         unsure'[t] \in Nat
  PROVE  Counted(t)'
<1>1. Cardinality(EventsOf(t)') = 0 /\ Chance(t)' \in {0, 1}
  BY FS_EmptySet DEF Chance
<1>2. Cardinality(Inserting(t)') \in {0, 1} /\ (Cardinality(Inserting(t)') = 0 \/ Chance(t)' = 0)
  BY FS_EmptySet, FS_Singleton DEF Chance
<1> DEFINE b == Cardinality(Inserting(t)')
           f == Cardinality(EventsOf(t)')
           g == Chance(t)'
           v == unsure'[t]
<1>3. f + b + g <= 1 + v => Counted(t)'
  BY DEF Counted
<1>4. f = 0 /\ b \in {0, 1} /\ g \in {0, 1} /\ (b = 0 \/ g = 0) /\ v \in Nat
  BY <1>1, <1>2
<1> HIDE DEF b, f, g, v
<1>5. f + b + g <= 1 + v
  BY ONLY <1>4
<1> QED
  BY <1>3, <1>5

\* No thread comes to insert a tap's event but by taking a request for it.
LEMMA AtFrom ==
  ASSUME Shapes, TodoIsQueued, [ClockNext]_clockVars, NEW t, NEW s \in Threads,
         s \in Inserting(t)'
  PROVE  s \in Inserting(t) \/ (thread[s] = Free /\ thread'[s].step = "got")
<1>1. thread[s] \in Calls /\ thread'[s].step \in {"got", "read"} /\ thread'[s].tap = t
  BY DEF Shapes, Inserting
<1>2. CASE thread'[s] = thread[s]
  BY <1>1, <1>2 DEF Inserting
<1>3. CASE thread[s].step \notin Running /\ thread'[s] = Free
  BY <1>1, <1>3 DEF Free
<1>4. CASE thread[s].step \in Running /\ thread'[s] = [thread[s] EXCEPT !.caller = Nobody]
  <2>1. thread'[s].step = thread[s].step /\ thread'[s].tap = thread[s].tap
    BY <1>1, <1>4 DEF Calls
  <2> QED
    BY <1>1, <2>1 DEF Inserting
<1>5. CASE Handle(s) \/ ServerFails(s) \/ SessionExpired(s)
  <2>1. Serves(thread[s], thread'[s])
    BY <1>1, <1>5, ServerResult DEF Free
  <2>2. thread'[s].step = "read" /\ thread'[s].tap = thread[s].tap
    BY <1>1, <2>1 DEF Serves, Outcomes
  <2>3. thread[s].step \in {"got", "read"}
    BY <2>2, ShiftMoves DEF SameShift, FindOpenIn
  <2> QED
    BY <1>1, <2>2, <2>3 DEF Inserting
<1> QED
  BY <1>1, <1>2, <1>3, <1>4, <1>5, ThreadsMove DEF ThreadMove

\* How a request of a replay goes on, until its answer says it failed.
LEMMA ReplayCallMoves ==
  ASSUME Shapes, TodoIsQueued, [ClockNext]_clockVars, NEW d \in Tabs, NEW s \in Threads,
         thread[s].caller = <<d, "replay">>, thread[s].step # "failed"
  PROVE  \/ /\ thread'[s].caller = <<d, "replay">> /\ thread'[s].tap = thread[s].tap
            /\ thread'[s].step # "failed" \/ ServerFails(s)
         \/ RowAnswered(d, s) \/ RowLost(d, s) \/ Reload(d)
<1>1. thread \in [Threads -> Calls]
  BY DEF Shapes
<1>2. Nobody # <<d, "replay">> /\ Free.caller = Nobody
  BY BoundsAreNaturals DEF Free
<1>3. CASE thread'[s] = thread[s]
  BY <1>3
<1>4. ASSUME NEW e \in Tabs, Enqueue(e) \/ SkipRow(e) \/ EndReplay(e) \/ StartReplay(e) \/ RowOffline(e)
      PROVE  thread'[s] = thread[s]
  BY <1>4 DEF Enqueue, SkipRow, EndReplay, StartReplay, RowOffline, serverVars
<1>5. ASSUME NEW e \in Tabs, Reload(e) PROVE thread'[s] = thread[s] \/ Reload(d)
  <2>1. CASE e = d
    BY <1>5, <2>1
  <2>2. CASE e # d
    <3>1. thread[s].caller \notin {<<e, "live">>, <<e, "replay">>}
      BY <2>2
    <3> QED
      BY <1>5, <3>1, ReloadHangsUp
  <2> QED
    BY <2>1, <2>2
<1>6. ASSUME NEW e \in Tabs, NEW k \in Kinds, TapOffline(e, k) PROVE thread'[s] = thread[s]
  BY <1>6 DEF TapOffline, serverVars
<1>7. ASSUME NEW e \in Tabs, NEW k \in Kinds, NEW r \in Threads, Tap(e, k, r) PROVE thread'[s] = thread[s]
  BY <1>1, <1>2, <1>7, TapArrives
<1>8. ASSUME NEW e \in Tabs, NEW r \in Threads, SendRow(e, r) PROVE thread'[s] = thread[s]
  BY <1>1, <1>2, <1>8, RowArrives
<1>9. ASSUME NEW e \in Tabs, NEW r \in Threads,
             \/ RowAnswered(e, r) \/ RowFailed(e, r)
             \/ RowLost(e, r) \/ LiveAnswered(e, r) \/ LiveLost(e, r)
      PROVE  thread'[s] = thread[s] \/ RowAnswered(d, s) \/ RowLost(d, s)
  <2>1. \/ thread' = [thread EXCEPT ![r] = Free]
        \/ thread' = [thread EXCEPT ![r] = HangUp(r)]
    BY <1>9, DeviceEndsCalls
  <2>2. CASE r # s
    BY <1>1, <2>1, <2>2
  <2>3. CASE r = s
    <3>1. ~RowFailed(e, r) /\ ~LiveAnswered(e, r) /\ ~LiveLost(e, r)
      BY <2>3 DEF RowFailed, LiveAnswered, LiveLost
    <3>2. e = d
      BY <1>9, <2>3, <3>1 DEF RowAnswered, RowLost
    <3> QED
      BY <1>9, <2>3, <3>1, <3>2
  <2> QED
    BY <2>2, <2>3
<1>10. ASSUME NEW r \in Threads, Handle(r) \/ ServerFails(r) \/ SessionExpired(r)
       PROVE  /\ thread'[s].caller = <<d, "replay">> /\ thread'[s].tap = thread[s].tap
              /\ thread'[s].step # "failed" \/ ServerFails(s)
  <2>1. CASE r # s
    BY <1>10, <2>1, ServerResult
  <2>2. CASE r = s
    BY <1>2, <1>10, <2>2, ServerResult DEF Serves
  <2> QED
    BY <2>1, <2>2
<1>11. ASSUME NEW i \in DOMAIN events, Void(i) PROVE thread' = thread
  BY <1>11 DEF Void, VoidEvent
<1>12. ASSUME NEW t \in DOMAIN queue, BackoffEnds(t) PROVE thread' = thread
  BY <1>12 DEF BackoffEnds, serverVars
<1>13. CASE UNCHANGED clockVars
  BY <1>13 DEF clockVars, serverVars
<1> QED
  BY <1>3, <1>4, <1>5, <1>6, <1>7, <1>8, <1>9, <1>10, <1>11, <1>12, <1>13, StepCases

\* A tap comes to wait in its tab for its row only by a lost call or offline.
LEMMA QueueingFrom ==
  ASSUME Shapes, [ClockNext]_clockVars, NEW d \in Tabs, live'[d].step = "queueing"
  PROVE  \/ live'[d] = live[d]
         \/ live'[d].tap = Len(taps) + 1
         \/ \E s \in Threads : LiveLost(d, s) /\ live'[d].tap = live[d].tap
<1>1. live \in [Tabs -> [tap : Nat, step : {"idle", "waiting", "queueing"}]]
  BY DEF Shapes, DeviceShapes
<1>2. NoCall.step = "idle"
  BY DEF NoCall
<1>3. ASSUME NEW e \in Tabs, SkipRow(e) \/ EndReplay(e) \/ StartReplay(e) \/ RowOffline(e)
      PROVE  live' = live
  BY <1>3 DEF SkipRow, EndReplay, StartReplay, RowOffline
<1>4. ASSUME NEW e \in Tabs, Enqueue(e) \/ Reload(e) PROVE live'[d] = live[d]
  BY <1>1, <1>2, <1>4 DEF Enqueue, Reload
<1>5. ASSUME NEW e \in Tabs, NEW k \in Kinds, TapOffline(e, k) PROVE live'[d] = live[d] \/ live'[d].tap = Len(taps) + 1
  <2>1. Len(taps') = Len(taps) + 1
    BY <1>5 DEF TapOffline, NewTap, Shapes, DeviceShapes
  <2> QED
    BY <1>1, <1>5, <2>1 DEF TapOffline
<1>6. ASSUME NEW e \in Tabs, NEW k \in Kinds, NEW s \in Threads, Tap(e, k, s) PROVE live'[d] = live[d]
  BY <1>1, <1>6 DEF Tap
<1>7. ASSUME NEW e \in Tabs, NEW s \in Threads, SendRow(e, s) \/ RowAnswered(e, s) \/ RowFailed(e, s) \/ RowLost(e, s)
      PROVE  live' = live
  BY <1>7 DEF SendRow, RowAnswered, RowFailed, RowLost
<1>8. ASSUME NEW e \in Tabs, NEW s \in Threads, LiveAnswered(e, s) PROVE live'[d] = live[d]
  BY <1>1, <1>2, <1>8 DEF LiveAnswered
<1>9. ASSUME NEW e \in Tabs, NEW s \in Threads, LiveLost(e, s)
      PROVE  live'[d] = live[d] \/ (LiveLost(d, s) /\ live'[d].tap = live[d].tap)
  <2>1. live' = [live EXCEPT ![e].step = "queueing"]
    BY <1>9 DEF LiveLost
  <2> QED
    BY <1>1, <1>9, <2>1
<1>10. ASSUME NEW t \in DOMAIN queue, BackoffEnds(t) PROVE live' = live
  BY <1>10 DEF BackoffEnds
<1>11. CASE UNCHANGED deviceVars
  BY <1>11 DEF deviceVars
<1> QED
  BY <1>3, <1>4, <1>5, <1>6, <1>7, <1>8, <1>9, <1>10, <1>11, ServerLeavesDevice, StepCases

LEMMA SendableFrom ==
  ASSUME Shapes, LiveTaps, Replays, TodoIsQueued, Callers, [ClockNext]_clockVars,
         NEW t \in 1..Len(taps), Sendable(t)'
  PROVE  Sendable(t) \/ unsure'[t] >= unsure[t] + 1
<1>1. /\ unsure \in [TapIds -> Nat] /\ t \in TapIds /\ Len(taps) \in Nat
      /\ thread \in [Threads -> Calls]
  BY BoundsAreNaturals DEF Shapes, DeviceShapes, TapIds
<1>2. ASSUME NEW u, u = t, unsure' = [unsure EXCEPT ![u] = @ + 1] PROVE unsure'[t] >= unsure[t] + 1
  BY <1>1, <1>2
<1>3. CASE \E d \in Tabs : live'[d].step = "queueing" /\ live'[d].tap = t
  <2>1. PICK d \in Tabs : live'[d].step = "queueing" /\ live'[d].tap = t
    BY <1>3
  <2>2. CASE live'[d] = live[d]
    BY <2>1, <2>2 DEF Sendable
  <2>3. ASSUME NEW s \in Threads, LiveLost(d, s), live'[d].tap = live[d].tap PROVE unsure'[t] >= unsure[t] + 1
    BY <1>2, <2>1, <2>3 DEF LiveLost
  <2>4. t # Len(taps) + 1
    BY <1>1
  <2> QED
    BY <2>1, <2>2, <2>3, <2>4, QueueingFrom
<1>4. CASE /\ t \in DOMAIN queue'
           /\ \A s \in Threads, d \in Tabs :
                 thread'[s].caller = <<d, "replay">> /\ thread'[s].tap = t => thread'[s].step = "failed"
  <2>1. CASE t \notin DOMAIN queue
    <3>1. PICK d \in Tabs : Enqueue(d)
      BY <1>4, <2>1, QueueSteps
    <3>2. t = live[d].tap /\ live[d].step = "queueing"
      BY <1>4, <2>1, <3>1, EnqueueAdds DEF Enqueue
    <3> QED
      BY <3>2 DEF Sendable
  <2>2. CASE t \in DOMAIN queue /\ ~Sendable(t)
    <3>1. PICK s \in Threads, d \in Tabs :
            thread[s].caller = <<d, "replay">> /\ thread[s].tap = t /\ thread[s].step # "failed"
      BY <2>2 DEF Sendable
    <3>2. Row(d).tap = t
      BY <3>1, RowCalled
    <3>3. CASE ServerFails(s)
      BY <1>2, <3>1, <3>3 DEF ServerFails
    <3>4. CASE RowLost(d, s)
      BY <1>2, <3>2, <3>4 DEF RowLost
    <3>5. ~RowAnswered(d, s)
      <4>1. t \in DOMAIN queue'
        BY <1>4
      <4> QED
        BY <3>2, <4>1, RowRemoved DEF RowAnswered
    <3>6. CASE Reload(d)
      <4> DEFINE mine == {r \in Threads : thread[r].caller # Nobody /\ thread[r].caller[1] = d}
                 called == {thread[r].tap : r \in mine}
      <4>1. unsure' = [u \in TapIds |-> unsure[u] + IF u \in called THEN 1 ELSE 0]
        BY <3>6 DEF Reload
      <4>2. s \in mine
        <5>1. <<d, "replay">>[1] = d /\ <<d, "replay">> # Nobody
          BY BoundsAreNaturals
        <5> QED
          BY <3>1, <5>1
      <4>3. t \in called
        BY <3>1, <4>2
      <4> HIDE DEF mine, called
      <4> QED
        BY <1>1, <4>1, <4>3
    <3> QED
      BY <1>4, <3>1, <3>3, <3>4, <3>5, <3>6, ReplayCallMoves
  <2> QED
    BY <2>1, <2>2
<1> QED
  BY <1>3, <1>4 DEF Sendable

\* The only ways a request arrives.
LEMMA RequestsArrive ==
  ASSUME Shapes, TodoIsQueued, [ClockNext]_clockVars,
         NEW s \in Threads, thread[s] = Free, thread'[s].step = "got"
  PROVE  (\E d \in Tabs, k \in Kinds : Tap(d, k, s)) \/ \E d \in Tabs : SendRow(d, s)
<1>1. thread \in [Threads -> Calls] /\ thread[s].step = "free" /\ thread[s].caller = Nobody
  BY DEF Shapes, Free
<1>2. thread'[s] # thread[s] /\ "free" \notin Running
  BY <1>1 DEF Running
<1>3. ASSUME NEW d \in Tabs, Enqueue(d) \/ SkipRow(d) \/ EndReplay(d) \/ StartReplay(d) \/ RowOffline(d)
      PROVE  thread' = thread
  BY <1>3 DEF Enqueue, SkipRow, EndReplay, StartReplay, RowOffline, serverVars
<1>4. ASSUME NEW d \in Tabs, Reload(d) PROVE thread'[s] = thread[s]
  BY <1>1, <1>4, ReloadHangsUp, BoundsAreNaturals
<1>5. ASSUME NEW d \in Tabs, NEW k \in Kinds, TapOffline(d, k) PROVE thread' = thread
  BY <1>5 DEF TapOffline, serverVars
<1>6. ASSUME NEW d \in Tabs, NEW k \in Kinds, NEW r \in Threads, Tap(d, k, r) PROVE Tap(d, k, s)
  <2>1. r = s
    BY <1>1, <1>2, <1>6, TapArrives
  <2> QED
    BY <1>6, <2>1
<1>7. ASSUME NEW d \in Tabs, NEW r \in Threads, SendRow(d, r) PROVE SendRow(d, s)
  <2>1. r = s
    BY <1>1, <1>2, <1>7, RowArrives
  <2> QED
    BY <1>7, <2>1
<1>8. ASSUME NEW d \in Tabs, NEW r \in Threads,
             \/ RowAnswered(d, r) \/ RowFailed(d, r)
             \/ RowLost(d, r) \/ LiveAnswered(d, r) \/ LiveLost(d, r)
      PROVE  FALSE
  <2>1. r # s
    BY <1>1, <1>8, BoundsAreNaturals DEF RowAnswered, RowFailed, RowLost, LiveAnswered, LiveLost
  <2>2. thread' = [thread EXCEPT ![r] = Free] \/ thread' = [thread EXCEPT ![r] = HangUp(r)]
    BY <1>8, DeviceEndsCalls
  <2> QED
    BY <1>1, <1>2, <2>1, <2>2
<1>9. ASSUME NEW r \in Threads, Handle(r) \/ ServerFails(r) \/ SessionExpired(r) PROVE FALSE
  BY <1>1, <1>2, <1>9, ServerResult
<1>10. ASSUME NEW i \in DOMAIN events, Void(i) PROVE thread' = thread
  BY <1>10 DEF Void, VoidEvent
<1>11. ASSUME NEW t \in DOMAIN queue, BackoffEnds(t) PROVE thread' = thread
  BY <1>11 DEF BackoffEnds, serverVars
<1>12. ASSUME UNCHANGED clockVars PROVE thread' = thread
  BY <1>12 DEF clockVars, serverVars
<1>13. CASE \E d \in Tabs, k \in Kinds : TapOffline(d, k) \/ \E r \in Threads : Tap(d, k, r)
  BY <1>2, <1>5, <1>6, <1>13
<1>14. CASE \E d \in Tabs, r \in Threads :
             \/ SendRow(d, r) \/ RowAnswered(d, r) \/ RowFailed(d, r)
             \/ RowLost(d, r) \/ LiveAnswered(d, r) \/ LiveLost(d, r)
  BY <1>7, <1>8, <1>14
<1>15. ~(\E r \in Threads : Handle(r) \/ ServerFails(r) \/ SessionExpired(r))
  BY <1>9
<1>16. /\ ~(\E i \in DOMAIN events : Void(i)) /\ ~(\E t \in DOMAIN queue : BackoffEnds(t))
       /\ ~UNCHANGED clockVars
  BY <1>2, <1>10, <1>11, <1>12
<1>17. /\ ~(\E d \in Tabs : Enqueue(d) \/ SkipRow(d) \/ EndReplay(d))
       /\ ~(\E d \in Tabs : StartReplay(d) \/ RowOffline(d) \/ Reload(d))
  BY <1>2, <1>3, <1>4
<1> QED
  BY <1>13, <1>14, <1>15, <1>16, <1>17, StepCases

\* A row that is sent again had a chance and has none while the call lasts.
LEMMA SendTakesTheChance ==
  ASSUME Shapes, LiveTaps, Replays, TodoIsQueued, Callers, NEW d \in Tabs, NEW s \in Threads, SendRow(d, s),
         NEW t, t = Row(d).tap
  PROVE  /\ Sendable(t) /\ ~Sendable(t)'
         /\ s \notin Inserting(t) /\ Inserting(t)' = Inserting(t) \union {s}
<1>1. /\ replay[d].step = "next" /\ t \in DOMAIN queue
      /\ UNCHANGED <<queue, live, events, unsure>>
  BY RowKnown DEF SendRow, AtRow, Arrive, history
<1>2. \A e \in Tabs : replay[e].step # "waiting"
  <2>1. \A e \in Tabs : replay[e].step # "idle" => e = d
    BY <1>1 DEF Replays
  <2> QED
    BY <1>1, <2>1
<1>3. \A r \in Threads, e \in Tabs : thread[r].caller # <<e, "replay">>
  BY <1>2 DEF Callers
<1>4. PICK new \in Calls :
         /\ new.step = "got" /\ new.tap = t /\ new.caller = <<d, "replay">>
         /\ thread[s] = Free
         /\ thread' = [thread EXCEPT ![s] = new]
  BY RowArrives
<1>5. thread'[s] = new /\ \A r \in Threads : r # s => thread'[r] = thread[r]
  BY <1>4 DEF Shapes
<1>6. Sendable(t)
  BY <1>1, <1>3 DEF Sendable
<1>7. \A e \in Tabs : live[e].step = "queueing" => live[e].tap # t
  BY <1>1 DEF LiveTaps, Idle
<1>8. ~(\E e \in Tabs : live'[e].step = "queueing" /\ live'[e].tap = t)
  BY <1>1, <1>7
<1>9. ~(\A r \in Threads, e \in Tabs : thread'[r].caller = <<e, "replay">> /\ thread'[r].tap = t => thread'[r].step = "failed")
  BY <1>4, <1>5
<1>10. ~Sendable(t)'
  BY <1>8, <1>9 DEF Sendable
<1>11. s \notin Inserting(t) /\ Inserting(t)' = Inserting(t) \union {s}
  BY <1>4, <1>5 DEF Inserting, Free
<1> QED
  BY <1>6, <1>10, <1>11

LEMMA CopiesStay ==
  ASSUME Shapes, LiveTaps, Replays, TodoIsQueued, Callers, TapsCalled, CopiesCount, [ClockNext]_clockVars
  PROVE  CopiesCount'
<1>1. /\ events' \in Seq(Stamps) /\ events \in Seq(Stamps)
      /\ Len(taps) \in Nat /\ Len(taps) <= MaxTaps /\ MaxTaps \in Nat
      /\ thread \in [Threads -> Calls]
  BY EventsGrow, BoundsAreNaturals DEF Shapes, DeviceShapes
<1>2. ASSUME NEW t \in 1..Len(taps)
      PROVE  Counted(t)'
  <2>1. /\ unsure[t] \in Nat /\ unsure'[t] \in Nat /\ unsure[t] <= unsure'[t]
        /\ Counted(t)
        /\ Sendable(t)' => Sendable(t) \/ unsure'[t] >= unsure[t] + 1
    <3>1. t \in TapIds
      BY <1>1 DEF TapIds
    <3> QED
      BY <3>1, UnsureGrows, SendableFrom DEF CopiesCount
  <2>2. CASE \E d \in Tabs, s \in Threads : SendRow(d, s) /\ t = Row(d).tap
    <3>1. PICK d \in Tabs, s \in Threads : SendRow(d, s) /\ t = Row(d).tap
      BY <2>2
    <3>2. UNCHANGED <<events, unsure>>
      BY <3>1 DEF SendRow, Arrive, history
    <3>3. EventsOf(t)' = EventsOf(t)
      BY <3>2 DEF EventsOf
    <3>4. /\ Sendable(t) /\ ~Sendable(t)'
          /\ s \notin Inserting(t) /\ Inserting(t)' = Inserting(t) \union {s}
      BY <3>1, SendTakesTheChance
    <3> QED
      BY <1>1, <2>1, <3>2, <3>3, <3>4, SendCount
  <2>3. ASSUME ~(\E d \in Tabs, s \in Threads : SendRow(d, s) /\ t = Row(d).tap)
        PROVE  Inserting(t)' \subseteq Inserting(t)
    <3> SUFFICES ASSUME NEW s \in Threads, s \in Inserting(t)', s \notin Inserting(t)
                 PROVE  FALSE
      BY DEF Inserting
    <3>1. thread[s] = Free /\ thread'[s].step = "got" /\ thread'[s].tap = t
      BY AtFrom DEF Inserting
    <3>2. ASSUME NEW d \in Tabs, NEW k \in Kinds, Tap(d, k, s) PROVE FALSE
      <4>1. thread'[s].tap = Len(taps) + 1
        BY <1>1, <3>2, TapArrives
      <4> QED
        BY <1>1, <3>1, <4>1
    <3>3. ASSUME NEW d \in Tabs, SendRow(d, s) PROVE FALSE
      <4>1. thread'[s].tap = Row(d).tap
        BY <1>1, <3>3, RowArrives
      <4> QED
        BY <2>3, <3>1, <3>3, <4>1
    <3> QED
      BY <3>1, <3>2, <3>3, RequestsArrive
  <2>4. CASE \E s \in Threads : Inserts(s) /\ (ClockIn(s) \/ ClockOut(s)) /\ thread[s].tap = t
    <3>1. PICK s \in Threads : Inserts(s) /\ (ClockIn(s) \/ ClockOut(s)) /\ thread[s].tap = t
      BY <2>4
    <3> DEFINE i == Len(events) + 1
    <3>2. /\ DOMAIN events' = DOMAIN events \union {i} /\ i \notin DOMAIN events
          /\ events'[i].tap = t /\ \A j \in DOMAIN events : events'[j] = events[j]
      BY <3>1, Inserted
    <3>3. i \notin EventsOf(t) /\ EventsOf(t)' = EventsOf(t) \union {i}
      <4> HIDE DEF i
      <4> QED
        BY <3>2 DEF EventsOf
    <3>4. s \in Inserting(t)
      BY <3>1 DEF Inserting, ClockIn, ClockOut
    <3>5. /\ thread'[s].step \notin {"got", "read"}
          /\ \A r \in Threads : r # s => thread'[r] = thread[r]
      <4>1. CASE ClockIn(s)
        <5>1. thread' = [thread EXCEPT ![s] = Answered(s, "ok")]
          BY <4>1 DEF ClockIn
        <5>2. Answered(s, "ok").step \in {"ok", "free"}
          BY <1>1, AnswerOf DEF Free, Calls, Outcomes
        <5> QED
          BY <1>1, <5>1, <5>2
      <4>2. CASE ClockOut(s)
        <5>1. thread' = [thread EXCEPT ![s] = [thread[s] EXCEPT !.step = "closed", !.out = Len(events')]]
          BY <4>2 DEF ClockOut
        <5> QED
          BY <1>1, <5>1 DEF Calls
      <4> QED
        BY <3>1, <4>1, <4>2
    <3>6. Inserting(t)' = Inserting(t) \ {s}
      BY <3>5 DEF Inserting
    <3> HIDE DEF i
    <3> QED
      BY <1>1, <2>1, <3>3, <3>4, <3>6, InsertCount
  <2>5. CASE ~(\E s \in Threads : Inserts(s) /\ (ClockIn(s) \/ ClockOut(s)) /\ thread[s].tap = t)
             /\ ~(\E d \in Tabs, s \in Threads : SendRow(d, s) /\ t = Row(d).tap)
    <3>1. EventsOf(t)' = EventsOf(t)
      <4>1. \A i \in DOMAIN events : events'[i].tap = events[i].tap
        BY EventsGrow
      <4>2. CASE DOMAIN events' = DOMAIN events
        BY <4>1, <4>2 DEF EventsOf
      <4>3. CASE \E s \in Threads : Inserts(s) /\ (ClockIn(s) \/ ClockOut(s))
        <5>1. PICK s \in Threads : Inserts(s) /\ (ClockIn(s) \/ ClockOut(s))
          BY <4>3
        <5>2. thread[s].tap # t
          BY <2>5, <5>1
        <5>3. /\ DOMAIN events' = DOMAIN events \union {Len(events) + 1}
              /\ events'[Len(events) + 1].tap # t
          BY <5>1, <5>2, Inserted
        <5> QED
          BY <4>1, <5>3 DEF EventsOf
      <4> QED
        BY <4>2, <4>3, NewEvents
    <3> QED
      BY <1>1, <2>1, <2>3, <2>5, <3>1, QuietCount
  <2> QED
    BY <2>2, <2>4, <2>5
<1>3. ASSUME NEW d \in Tabs, NEW k \in Kinds, NEW t, t = Len(taps) + 1,
             TapOffline(d, k) \/ \E s \in Threads : Tap(d, k, s)
      PROVE  Len(taps') = t /\ Counted(t)'
  <2>1. t \in TapIds /\ unsure' = unsure /\ unsure'[t] \in Nat
    BY <1>1, <1>3 DEF TapIds, TapOffline, Tap, NewTap, history, Shapes, DeviceShapes
  <2>2. /\ events' = events /\ queue' = queue
        /\ t \notin DOMAIN queue /\ t \notin 1..Len(taps)
    BY <1>1, <1>3 DEF TapOffline, Tap, Arrive, serverVars, Shapes, DeviceShapes
  <2>3. EventsOf(t)' = {}
    BY <2>2 DEF EventsOf, TapsCalled
  <2>4. \A r \in Threads : thread[r].step \in {"got", "read"} => thread[r].tap # t
    BY <2>2 DEF TapsCalled
  <2>5. CASE TapOffline(d, k)
    <3>1. thread' = thread /\ Len(taps') = t
      BY <1>3, <2>5 DEF TapOffline, NewTap, serverVars, Shapes, DeviceShapes
    <3>2. Inserting(t)' = {}
      BY <2>4, <3>1 DEF Inserting
    <3> QED
      BY <2>1, <2>3, <3>1, <3>2, FreshCount
  <2>6. CASE \E s \in Threads : Tap(d, k, s)
    <3>1. PICK s \in Threads : Tap(d, k, s)
      BY <2>6
    <3>2. PICK new \in Calls :
             /\ new.step = "got" /\ new.tap = t
             /\ thread' = [thread EXCEPT ![s] = new]
      BY <1>3, <3>1, TapArrives
    <3>3. Len(taps') = t
      BY <1>3, <3>1, TapArrives
    <3>4. Inserting(t)' = {s}
      BY <1>1, <2>4, <3>2 DEF Inserting
    <3>5. \A e \in Tabs : live'[e].step = "queueing" => live'[e].tap # t
      <4>1. live' = [live EXCEPT ![d] = [tap |-> Len(taps'), step |-> "waiting"]]
        BY <3>1 DEF Tap
      <4>2. \A e \in Tabs : live[e].step = "queueing" => live[e].tap \in 1..Len(taps)
        BY DEF LiveTaps, Idle
      <4> QED
        BY <2>2, <4>1, <4>2 DEF Shapes, DeviceShapes
    <3>6. ~Sendable(t)'
      BY <2>2, <3>5 DEF Sendable
    <3> QED
      BY <2>1, <2>3, <3>3, <3>4, <3>6, FreshCount
  <2> QED
    BY <1>3, <2>5, <2>6
<1>4. CASE taps' = taps
  BY <1>2, <1>4 DEF CopiesCount
<1>5. CASE \E d \in Tabs, k \in Kinds : TapOffline(d, k) \/ \E s \in Threads : Tap(d, k, s)
  <2>1. ASSUME NEW t \in 1..Len(taps') PROVE Counted(t)'
    <3>1. CASE t = Len(taps) + 1
      BY <1>3, <1>5, <3>1
    <3>2. Len(taps') = Len(taps) + 1
      BY <1>3, <1>5
    <3>3. CASE t \in 1..Len(taps)
      BY <1>2, <3>3
    <3> QED
      BY <1>1, <3>1, <3>2, <3>3
  <2> QED
    BY <2>1 DEF CopiesCount
<1> QED
  BY <1>4, <1>5, TapsCome

-----------------------------------------------------------------------------
(* The invariant. *)

ClockIInv ==
    /\ Shapes /\ LiveTaps /\ Replays /\ TodoIsQueued
    /\ TapsCalled /\ AnswersAreAwaited /\ Callers /\ WaitersAreServed
    /\ TriesAreFaults /\ Overtaken /\ TapsAreKept
    /\ Shifts /\ OutsEnd /\ CopiesCount

LEMMA ClockInitHolds == ClockInit => ClockIInv
<1> SUFFICES ASSUME ClockInit PROVE ClockIInv
  OBVIOUS
<1> USE DEF ClockInit, ServerInit
<1>1. events = <<>> /\ DOMAIN events = {} /\ events \in Seq(Stamps)
  OBVIOUS
<1>2. taps = <<>> /\ Len(taps) = 0 /\ taps \in Seq(Kinds) /\ 1..Len(taps) = {}
  OBVIOUS
<1>3. Free.step = "free" /\ Free.caller = Nobody /\ thread \in [Threads -> Calls]
      /\ \A s \in Threads : thread[s] = Free
  BY FreeIsARequest DEF Free
<1>4. DOMAIN queue = {} /\ queue \in [DOMAIN queue -> [at : 1..enqueued, attempts : Nat, resting : BOOLEAN]]
  OBVIOUS
<1>5. Shapes
  BY <1>1, <1>2, <1>3, <1>4, BoundsAreNaturals DEF Shapes, DeviceShapes, NoCall, NoReplay
<1>6. LiveTaps /\ Replays /\ TodoIsQueued
  BY DEF LiveTaps, Replays, LockIsInUse, TodoIsQueued, Idle, NoCall, NoReplay
<1>7. \A s \in Threads : thread[s].step \notin Outcomes
  BY <1>3 DEF Outcomes
<1>8. TapsCalled /\ AnswersAreAwaited
  BY <1>1, <1>3, <1>7 DEF TapsCalled, AnswersAreAwaited
<1>9. Callers /\ WaitersAreServed /\ TriesAreFaults
  BY <1>3, <1>4, BoundsAreNaturals DEF Callers, WaitersAreServed, TriesAreFaults, NoCall, NoReplay
<1>10. Overtaken /\ TapsAreKept /\ CopiesCount
  BY <1>2, <1>4 DEF Overtaken, TapsAreKept, CopiesCount
<1>11. Shifts /\ OutsEnd
  BY <1>1, <1>3 DEF Shifts, EntriesPay, OutsPaidOnce, ShiftsWereOpen, OutsAreUnpaid, OutsDiffer, OutsEnd, AtShift
<1> QED
  BY <1>5, <1>6, <1>8, <1>9, <1>10, <1>11 DEF ClockIInv

LEMMA ClockIInvStays ==
  ASSUME ClockIInv, [ClockNext]_clockVars
  PROVE  ClockIInv'
<1> USE DEF ClockIInv
<1>1. Shapes'
  BY EventsGrow, ThreadsStay, DeviceStays DEF Shapes
<1>2. LiveTaps' /\ Replays' /\ TodoIsQueued'
  BY LiveTapsStay, ReplaysStay, TodoStays
<1>3. TapsCalled' /\ AnswersAreAwaited'
  BY TapsCalledStays
<1>4. Callers' /\ WaitersAreServed'
  BY CallersStay, WaitersStay
<1>5. TriesAreFaults'
  BY <1>1, <1>4, TriesStay
<1>6. Overtaken' /\ TapsAreKept'
  BY OvertakenStays, KeptStays
<1>7. Shifts' /\ OutsEnd'
  BY ShiftsStay, OutsEndStays
<1>8. CopiesCount'
  BY CopiesStay
<1> QED
  BY <1>1, <1>2, <1>3, <1>4, <1>5, <1>6, <1>7, <1>8

(***************************************************************************)
(* The inductive invariant holds, for any number of tabs, taps, faults and *)
(* threads.                                                                *)
(***************************************************************************)
THEOREM ClockInvariant == ClockSpec => []ClockIInv
<1>1. ClockIInv /\ [ClockNext]_clockVars => ClockIInv'
  BY ClockIInvStays
<1> QED
  BY <1>1, ClockInitHolds, PTL DEF ClockSpec

(***************************************************************************)
(* Whatever the clock's API and a device hold is of its type: a labor      *)
(* entry names two events that exist, a thread's shift is an event, an     *)
(* answer has someone who waits for it, and a row has no more attempts     *)
(* than there were failures.                                               *)
(***************************************************************************)
THEOREM ClockTypesHold == ClockSpec => []ClockTypeOK
<1>1. ASSUME ClockIInv PROVE ClockTypeOK
  <2> USE <1>1 DEF ClockIInv
  <2>1. ServerTypeOK
    <3>1. events \in Seq([kind : Kinds, tap : Nat, voided : BOOLEAN, drafts : BOOLEAN])
      BY DEF Shapes, Stamps
    <3>2. entries \subseteq [in : DOMAIN events, out : DOMAIN events]
      BY DEF Shifts, EntriesPay
    <3>3. \A s \in Threads : thread[s].step \in {"free"} \union Running \union Outcomes
      BY DEF Shapes, Calls
    <3>4. \A s \in Threads : thread[s].step \in Outcomes => thread[s].caller # Nobody
      BY DEF AnswersAreAwaited
    <3>5. \A s \in Threads : thread[s].step \in {"read", "closed"} => thread[s].open \in DOMAIN events
      BY DEF Shifts, ShiftsWereOpen, AtShift
    <3>6. \A s \in Threads : thread[s].step = "closed" => thread[s].out \in DOMAIN events
      BY DEF Shifts, OutsAreUnpaid
    <3> QED
      BY <3>1, <3>2, <3>3, <3>4, <3>5, <3>6 DEF ServerTypeOK
  <2>2. \A t \in DOMAIN queue : queue[t] \in [at : 1..enqueued, attempts : 0..MaxFaults, resting : BOOLEAN]
    <3> SUFFICES ASSUME NEW t \in DOMAIN queue
                 PROVE  queue[t] \in [at : 1..enqueued, attempts : 0..MaxFaults, resting : BOOLEAN]
      OBVIOUS
    <3>1. queue[t] \in [at : 1..enqueued, attempts : Nat, resting : BOOLEAN]
      BY DEF Shapes, DeviceShapes
    <3>2. queue[t].attempts \in 0..MaxFaults
      BY <3>1, BoundsAreNaturals DEF TriesAreFaults, Shapes, DeviceShapes
    <3> QED
      BY <3>1, <3>2
  <2>3. \A d \in Tabs : /\ live[d].step \in {"idle", "waiting", "queueing"}
                        /\ replay[d].step \in {"idle", "next", "waiting"}
    BY DEF Shapes, DeviceShapes
  <2> QED
    BY <2>1, <2>2, <2>3 DEF ClockTypeOK, Shapes, DeviceShapes
<1> QED
  BY <1>1, ClockInvariant, PTL

(***************************************************************************)
(* A tap is being called, is queued, its outcome reached the app, or its   *)
(* tab was reloaded before it could be queued: liveOrQueueClockIn and the  *)
(* replay drop none.                                                       *)
(***************************************************************************)
THEOREM NoTapIsDropped == ClockSpec => []TapsAreKept
<1>1. ClockIInv => TapsAreKept
  BY DEF ClockIInv
<1> QED
  BY <1>1, ClockInvariant, PTL

(***************************************************************************)
(* A tap has at most one event more than it has calls whose outcome the    *)
(* device never learnt: the Web Lock and the removal of answered rows keep *)
(* a tap from being sent again while a call of it may still insert.        *)
(***************************************************************************)
THEOREM CopiesAreUnsure == ClockSpec => []CopiesAreExplained
<1>1. ASSUME ClockIInv PROVE CopiesAreExplained
  <2> SUFFICES ASSUME NEW t \in 1..Len(taps)
               PROVE  Cardinality({i \in DOMAIN events : events[i].tap = t}) <= 1 + unsure[t]
    BY DEF CopiesAreExplained
  <2>1. events \in Seq(Stamps) /\ t \in TapIds /\ unsure[t] \in Nat /\ Counted(t)
    BY <1>1, BoundsAreNaturals DEF ClockIInv, Shapes, DeviceShapes, CopiesCount, TapIds
  <2>2. Cardinality(EventsOf(t)) \in Nat /\ Cardinality(Inserting(t)) \in Nat /\ Chance(t) \in {0, 1}
    BY <2>1, CountsAreNumbers
  <2> DEFINE e == Cardinality(EventsOf(t))
             a == Cardinality(Inserting(t))
             c == Chance(t)
             u == unsure[t]
  <2>3. e + a + c <= 1 + u /\ e \in Nat /\ a \in Nat /\ c \in {0, 1} /\ u \in Nat
    BY <2>1, <2>2 DEF Counted
  <2>4. e <= 1 + u => Cardinality({i \in DOMAIN events : events[i].tap = t}) <= 1 + unsure[t]
    BY DEF EventsOf
  <2> HIDE DEF e, a, c, u
  <2>5. e <= 1 + u
    BY ONLY <2>3
  <2> QED
    BY <2>4, <2>5
<1> QED
  BY <1>1, ClockInvariant, PTL

(***************************************************************************)
(* A labor entry pays a clock-in up to a later clock-out and no clock-out  *)
(* is paid twice; one whose shift is to be paid and that is not is being   *)
(* handled, or the device did not learn the outcome of a call of its tap,  *)
(* which may have broken between the two transactions of clock-out.        *)
(***************************************************************************)
THEOREM ClockOutsArePaid == ClockSpec => []OutsArePaid
<1>1. ASSUME ClockIInv PROVE OutsArePaid
  BY <1>1 DEF ClockIInv, Shifts, EntriesPay, OutsPaidOnce, OutsEnd, OutsArePaid
<1> QED
  BY <1>1, ClockInvariant, PTL

(***************************************************************************)
(* A row leaves the queue before an older one only if that one has been    *)
(* tried.                                                                  *)
(***************************************************************************)
THEOREM OnlyTriedRowsAreOvertaken == ClockSpec => OvertakenWereDeferred
<1> DEFINE Fair == \A t, u \in DOMAIN queue :
              queue[t].at < queue[u].at /\ u \notin DOMAIN queue' /\ t \in DOMAIN queue'
                 => queue[t].attempts > 0
<1>1. ClockIInv /\ [ClockNext]_clockVars => [Fair]_clockVars
  BY OnlyDeferredAreOvertaken DEF ClockIInv
<1>2. ClockSpec => [][Fair]_clockVars
  BY <1>1, ClockInvariant, PTL DEF ClockSpec
<1> QED
  BY <1>2 DEF OvertakenWereDeferred

(***************************************************************************)
(* A tab that waits for a live call or for a row it sent has a thread that *)
(* handles the call or holds its answer, and the Web Lock is held only by  *)
(* a tab that replays, whatever is lost, reloaded, refused or broken: no   *)
(* tab waits for a call that is gone or for a lock that was left behind.   *)
(***************************************************************************)
THEOREM NoTabWaitsInVain == ClockSpec => [](WaitersAreServed /\ LockIsInUse)
<1>1. ClockIInv => WaitersAreServed /\ LockIsInUse
  BY DEF ClockIInv, Replays
<1> QED
  BY <1>1, ClockInvariant, PTL

=============================================================================
