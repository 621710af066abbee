-------------------------- MODULE QboConnectionProofs --------------------------
(***************************************************************************)
(* Proofs about QboConnection, for any replicas, callbacks, syncs and      *)
(* grants.  The row's lock carries the argument: whoever refreshes, or has *)
(* written the row in an open transaction, holds it, and nobody else       *)
(* changes the row's tokens or asks Intuit for the grant's next one.       *)
(***************************************************************************)
EXTENDS QboConnection, TLAPS

\* w refreshes, has written the row, or repeats a refused call.
Holding(w) ==
  \/ worker[w].pc = "refreshing"
  \/ Wrote(w)
  \/ worker[w].retry

\* The lock's holder sees the grant of the row, and its tokens as long as it
\* has not replaced them; what it wrote is Intuit's latest unless it throws.
SeesTheRow(w) ==
  /\ lock = w
  /\ worker[w].pc # "idle"
  /\ worker[w].view.grant = conn.token.grant
  /\ ~Wrote(w) => /\ worker[w].view.serial = conn.token.serial
                  /\ worker[w].view.access = conn.token.access
  /\ Wrote(w) /\ worker[w].pc # "throwing" =>
       worker[w].view.serial = latest[conn.token.grant]

\* What RefreshesAreNeeded asks of one worker.
Needs(w) ==
  worker[w].pc = "refreshing" =>
    LET row == Locked(w)
        held == worker[w].view IN
    /\ held.grant = row.grant /\ held.serial = row.serial
    /\ row.fresh => worker[w].retry /\ worker[w].using = row.access

\* A worker that read the row read a grant, and the row never loses its grant.
ReadersSawAGrant(w) == worker[w].pc # "idle" => conn.token.grant \in Grants

WorkerOK(w) == (Holding(w) => SeesTheRow(w)) /\ Needs(w) /\ ReadersSawAGrant(w)

\* A grant on its way to the row is new: nobody has refreshed it.
CallbacksAreNew ==
  \A c \in Callbacks : callback[c] # NoToken =>
    /\ callback[c].grant \in Grants
    /\ callback[c].grant # conn.token.grant
    /\ callback[c].serial = 1
    /\ latest[callback[c].grant] = 1
    /\ \A d \in Callbacks \ {c} : callback[d].grant # callback[c].grant

StoredGrantIsOpen == conn.token.grant \in Grants => latest[conn.token.grant] > 0

WorkersOK == \A w \in Workers : WorkerOK(w)

IInv ==
  /\ TypeOK
  /\ WorkersOK
  /\ CallbacksAreNew
  /\ StoredGrantIsOpen
  /\ TokensAreCurrent
  /\ SyncingIsExplained

LEMMA InitIInv == Init => IInv
<1> SUFFICES ASSUME Init PROVE IInv
  OBVIOUS
<1> USE ConnectionAssumption
<1>1. NoToken \in Tokens /\ NoToken.grant = Nobody
  BY DEF NoToken, Tokens
<1>2. Idle \in Transactions /\ Idle.pc = "idle" /\ Idle.mark = "none" /\ ~Idle.retry
  BY <1>1 DEF Idle, Transactions
<1>3. TypeOK
  BY <1>1, <1>2 DEF Init, TypeOK, Rows, Statuses
<1>4. WorkersOK
  BY <1>2 DEF Init, WorkersOK, WorkerOK, Holding, Wrote, Needs, ReadersSawAGrant
<1>5. CallbacksAreNew /\ StoredGrantIsOpen /\ TokensAreCurrent /\ SyncingIsExplained
  BY <1>1 DEF Init, CallbacksAreNew, StoredGrantIsOpen, TokensAreCurrent, SyncingIsExplained
<1> QED
  BY <1>3, <1>4, <1>5 DEF IInv
-----------------------------------------------------------------------------
(* What a step leaves of the workers that do not take it. *)

LEMMA HoldersHaveTheLock ==
  ASSUME WorkersOK, NEW w \in Workers, Holding(w)
  PROVE  lock = w /\ lock # Nobody
BY ConnectionAssumption DEF WorkersOK, WorkerOK, SeesTheRow

LEMMA Undisturbed ==
  ASSUME NEW w \in Workers, WorkerOK(w), worker'[w] = worker[w],
         conn.token.grant \in Grants => conn'.token.grant \in Grants,
         Holding(w) => /\ lock' = lock
                       /\ conn'.token.grant = conn.token.grant
                       /\ conn'.token.serial = conn.token.serial
                       /\ conn'.token.access = conn.token.access
                       /\ (conn'.token.fresh => conn.token.fresh)
                       /\ latest'[conn.token.grant] = latest[conn.token.grant]
  PROVE  WorkerOK(w)'
<1>1. Holding(w)' <=> Holding(w)
  BY DEF Holding, Wrote
<1>2. (Holding(w) => SeesTheRow(w))'
  BY <1>1 DEF WorkerOK, SeesTheRow, Wrote
<1>3. Needs(w)'
  BY DEF WorkerOK, Needs, Locked, Wrote, Holding
<1>4. ReadersSawAGrant(w)'
  BY DEF WorkerOK, ReadersSawAGrant
<1> QED
  BY <1>2, <1>3, <1>4 DEF WorkerOK

\* A step of w disturbs nobody else: what it changes, it changes as the holder.
LEMMA OthersUndisturbed ==
  ASSUME WorkersOK, NEW w \in Workers, NEW v \in Workers, v # w, worker'[v] = worker[v],
         lock' = lock \/ lock \in {w, Nobody},
         conn'.token = conn.token \/ (Wrote(w) /\ conn'.token = worker[w].view),
         latest' = latest \/ Holding(w)
  PROVE  WorkerOK(v)'
<1>1. WorkerOK(v) /\ WorkerOK(w)
  BY DEF WorkersOK
<1>2. Wrote(w) => Holding(w) /\ worker[w].view.grant = conn.token.grant
  BY <1>1 DEF WorkerOK, SeesTheRow, Holding
<1>3. Holding(w) => lock = w
  BY HoldersHaveTheLock
<1>4. Holding(v) => lock = v /\ lock # Nobody
  BY HoldersHaveTheLock
<1>5. conn'.token.grant = conn.token.grant
  BY <1>2
<1> HIDE DEF Holding, Wrote
<1>6. Holding(v) => conn'.token = conn.token /\ latest' = latest /\ lock' = lock
  BY <1>2, <1>3, <1>4
<1> QED
  BY <1>1, <1>5, <1>6, Undisturbed

\* A writer of the row that waits for the lock disturbs nobody.
LEMMA UnlockedDisturbsNobody ==
  ASSUME WorkersOK, Unlocked, worker' = worker,
         conn.token.grant \in Grants => conn'.token.grant \in Grants
  PROVE  WorkersOK'
<1> SUFFICES ASSUME NEW w \in Workers PROVE WorkerOK(w)'
  BY DEF WorkersOK
<1>1. ~Holding(w)
  BY HoldersHaveTheLock DEF Unlocked
<1> QED
  BY <1>1, Undisturbed DEF WorkersOK
-----------------------------------------------------------------------------
(* What a worker's step leaves of the worker itself. *)

\* A step of w that moves nothing but w, within its transaction.
Inside(w) ==
  /\ worker' = [worker EXCEPT ![w] = worker'[w]]
  /\ worker'[w] \in Transactions
  /\ UNCHANGED <<conn, callback>>
  /\ UNCHANGED syncVars

LEMMA OthersStay ==
  ASSUME TypeOK, NEW w \in Workers, worker' = [worker EXCEPT ![w] = worker'[w]]
  PROVE  \A v \in Workers \ {w} : worker'[v] = worker[v]
BY DEF TypeOK

\* Nothing is lost, and w keeps what it wrote.
LEMMA CurrentKept ==
  ASSUME TokensAreCurrent, NEW w \in Workers,
         \A v \in Workers \ {w} : worker'[v] = worker[v],
         conn'.token = conn.token, latest' = latest, lost \subseteq lost',
         Wrote(w) => Wrote(w)' /\ worker'[w].view = worker[w].view
  PROVE  TokensAreCurrent'
<1> DEFINE t == conn.token
<1> SUFFICES ASSUME t.grant \in Grants \ lost, t.serial # latest[t.grant]
             PROVE  \E v \in Workers : /\ Wrote(v)'
                                       /\ worker'[v].view.grant = t.grant
                                       /\ worker'[v].view.serial = latest[t.grant]
  BY DEF TokensAreCurrent
<1>1. PICK v \in Workers : /\ Wrote(v)
                           /\ worker[v].view.grant = t.grant
                           /\ worker[v].view.serial = latest[t.grant]
  BY DEF TokensAreCurrent
<1>2. Wrote(v)' /\ worker'[v].view = worker[v].view
  BY <1>1 DEF Wrote
<1> QED
  BY <1>1, <1>2

\* What is left to show of a step within a transaction.
LEMMA InsideKeeps ==
  ASSUME IInv, NEW w \in Workers, Inside(w), WorkerOK(w)', TokensAreCurrent',
         lock' = lock \/ lock \in {w, Nobody}, lock' \in Workers \cup {Nobody},
         issued' \in Nat, lost' \in SUBSET Grants,
         \/ latest' = latest
         \/ Holding(w) /\ latest' = [latest EXCEPT ![conn.token.grant] = @ + 1]
  PROVE  IInv'
<1>1. \A v \in Workers \ {w} : worker'[v] = worker[v]
  BY OthersStay DEF IInv, Inside
<1>2. WorkersOK'
  <2> SUFFICES ASSUME NEW v \in Workers, v # w PROVE WorkerOK(v)'
    BY DEF WorkersOK
  <2> QED
    BY <1>1, OthersUndisturbed DEF IInv, Inside
<1>3. TypeOK'
  BY DEF IInv, TypeOK, Inside, syncVars
<1>4. \A g \in Grants : latest[g] \in Nat /\ latest'[g] >= latest[g]
  BY DEF IInv, TypeOK
<1>5. \A g \in Grants : g # conn.token.grant => latest'[g] = latest[g]
  BY DEF IInv, TypeOK
<1>6. CallbacksAreNew'
  BY <1>5 DEF IInv, Inside, CallbacksAreNew
<1>7. StoredGrantIsOpen'
  BY <1>3, <1>4 DEF IInv, TypeOK, Inside, StoredGrantIsOpen
<1>8. SyncingIsExplained'
  BY DEF IInv, Inside, syncVars, SyncingIsExplained
<1> QED
  BY <1>2, <1>3, <1>6, <1>7, <1>8 DEF IInv

LEMMA Kinds ==
  /\ NoToken \in Tokens /\ NoToken.grant = Nobody
  /\ Idle \in Transactions /\ Idle.pc = "idle" /\ Idle.mark = "none" /\ ~Idle.retry
BY DEF NoToken, Tokens, Idle, Transactions

LEMMA ReadKeeps ==
  ASSUME IInv, NEW w \in Workers, ReadConnection(w)
  PROVE  IInv'
<1>1. conn \in Rows /\ conn.token \in Tokens /\ worker[w] \in Transactions
  BY DEF IInv, TypeOK, Rows
<1>2. conn.token.access \in Nat /\ conn.token.fresh \in BOOLEAN /\ conn.token.grant \in Grants
  BY <1>1 DEF Tokens, ReadConnection
<1>3. ~Wrote(w)
  BY DEF IInv, WorkersOK, WorkerOK, Holding, SeesTheRow, ReadConnection
<1> DEFINE pc == IF conn.token.fresh THEN "calling" ELSE "expired"
           i == [Idle EXCEPT !.saw = conn.token]
           t == [i EXCEPT !.pc = pc, !.using = conn.token.access, !.retry = FALSE]
<1>4. worker' = [worker EXCEPT ![w] = t]
  BY DEF ReadConnection, Enter
<1>5. i \in Transactions /\ i.mark = "none"
  BY <1>1, Kinds DEF Transactions
<1>6. /\ t \in Transactions /\ t.pc = pc /\ t.mark = "none" /\ ~t.retry
      /\ worker'[w] = t
  <2> HIDE DEF i
  <2>1. t \in Transactions /\ t.pc = pc /\ t.mark = "none" /\ ~t.retry
    BY <1>2, <1>5 DEF Transactions
  <2> HIDE DEF t
  <2> QED
    BY <1>4, <2>1 DEF IInv, TypeOK
<1>7. Inside(w)
  BY <1>4, <1>6 DEF Inside, ReadConnection
<1>8. WorkerOK(w)'
  BY <1>2, <1>6 DEF WorkerOK, Holding, Wrote, Needs, ReadersSawAGrant, ReadConnection
<1>9. TokensAreCurrent'
  <2>1. \A v \in Workers \ {w} : worker'[v] = worker[v]
    BY <1>7, OthersStay DEF IInv, Inside
  <2> QED
    BY <1>3, <2>1, CurrentKept DEF IInv, ReadConnection
<1>10. UNCHANGED <<lock, issued, lost, latest>>
  BY DEF ReadConnection
<1>11. lock \in Workers \cup {Nobody} /\ issued \in Nat /\ lost \in SUBSET Grants
  BY DEF IInv, TypeOK
<1> QED
  BY <1>7, <1>8, <1>9, <1>10, <1>11, InsideKeeps

\* A step in which w writes nothing, reads nothing and does not begin to refresh.
LEMMA CallKeeps ==
  ASSUME IInv, NEW w \in Workers, worker[w].pc # "idle",
         NEW t \in Transactions, worker' = [worker EXCEPT ![w] = t],
         t.view = worker[w].view, t.mark = worker[w].mark,
         t.pc \in {"expired", "refused", "calling", "answered"},
         worker[w].pc # "throwing", t.retry => worker[w].retry,
         UNCHANGED <<conn, lock, issued, latest, lost, callback>>, UNCHANGED syncVars
  PROVE  IInv'
<1>1. worker'[w] = t
  BY DEF IInv, TypeOK
<1>2. Inside(w)
  BY <1>1 DEF Inside
<1>3. WorkerOK(w) /\ (Holding(w)' => Holding(w)) /\ (Wrote(w)' <=> Wrote(w))
  BY <1>1 DEF IInv, WorkersOK, Holding, Wrote
<1>4. WorkerOK(w)'
  BY <1>1, <1>3 DEF WorkerOK, SeesTheRow, Needs, ReadersSawAGrant
<1>5. TokensAreCurrent'
  <2>1. \A v \in Workers \ {w} : worker'[v] = worker[v]
    BY <1>2, OthersStay DEF IInv, Inside
  <2> QED
    BY <1>1, <1>3, <2>1, CurrentKept DEF IInv
<1>6. lock \in Workers \cup {Nobody} /\ issued \in Nat /\ lost \in SUBSET Grants
  BY DEF IInv, TypeOK
<1> QED
  BY <1>2, <1>4, <1>5, <1>6, InsideKeeps

LEMMA NextCallKeeps ==
  ASSUME IInv, NEW w \in Workers, NextCall(w)
  PROVE  IInv'
<1>1. worker[w] \in Transactions /\ worker[w].saw.access \in Nat
  BY DEF IInv, TypeOK, Transactions, Tokens
<1>2. PICK pc \in {"calling", "expired"} :
        worker' = [worker EXCEPT ![w] = [worker[w] EXCEPT !.pc = pc, !.using = worker[w].saw.access,
                                                          !.retry = FALSE]]
  BY DEF NextCall, Enter
<1> DEFINE t == [worker[w] EXCEPT !.pc = pc, !.using = worker[w].saw.access, !.retry = FALSE]
<1>3. /\ t \in Transactions /\ t.view = worker[w].view /\ t.mark = worker[w].mark
      /\ t.pc = pc /\ t.retry = FALSE
  BY <1>1 DEF Transactions
<1> QED
  BY <1>2, <1>3, CallKeeps DEF NextCall

LEMMA AnswerKeeps ==
  ASSUME IInv, NEW w \in Workers, CallAnswered(w)
  PROVE  IInv'
<1>1. worker[w] \in Transactions
  BY DEF IInv, TypeOK
<1> DEFINE t == [worker[w] EXCEPT !.pc = "answered", !.using = 0, !.retry = FALSE]
<1>2. /\ t \in Transactions /\ t.view = worker[w].view /\ t.mark = worker[w].mark
      /\ t.pc = "answered" /\ t.retry = FALSE
  BY <1>1 DEF Transactions
<1>3. worker' = [worker EXCEPT ![w] = t]
  BY DEF CallAnswered
<1> QED
  BY <1>2, <1>3, CallKeeps DEF CallAnswered

\* A step in which w throws, as the holder if it marks the connection.
LEMMA ThrowKeeps ==
  ASSUME IInv, NEW w \in Workers, worker[w].pc # "idle",
         NEW mark, mark = worker[w].mark \/ (mark = "auth_error" /\ Holding(w)), Throws(w, mark),
         UNCHANGED <<conn, lock, issued, latest, lost, callback>>, UNCHANGED syncVars
  PROVE  IInv'
<1>1. worker[w] \in Transactions
  BY DEF IInv, TypeOK
<1> DEFINE t == [worker[w] EXCEPT !.pc = "throwing", !.mark = mark]
<1>2. /\ t \in Transactions /\ t.view = worker[w].view /\ t.mark = mark
      /\ t.pc = "throwing" /\ t.retry = worker[w].retry
  BY <1>1 DEF Transactions
<1>3. worker' = [worker EXCEPT ![w] = t]
  BY DEF Throws
<1>4. worker'[w] = t
  BY <1>3 DEF IInv, TypeOK
<1>5. Inside(w)
  BY <1>2, <1>3, <1>4 DEF Inside
<1>6. WorkerOK(w) /\ (Holding(w)' => Holding(w)) /\ (Wrote(w) => Wrote(w)')
  BY <1>2, <1>4 DEF IInv, WorkersOK, Holding, Wrote
<1>7. WorkerOK(w)'
  BY <1>2, <1>4, <1>6 DEF WorkerOK, SeesTheRow, Needs, ReadersSawAGrant
<1>8. TokensAreCurrent'
  <2>1. \A v \in Workers \ {w} : worker'[v] = worker[v]
    BY <1>5, OthersStay DEF IInv, Inside
  <2> QED
    BY <1>2, <1>4, <1>6, <2>1, CurrentKept DEF IInv
<1>9. lock \in Workers \cup {Nobody} /\ issued \in Nat /\ lost \in SUBSET Grants
  BY DEF IInv, TypeOK
<1> QED
  BY <1>5, <1>7, <1>8, <1>9, InsideKeeps

LEMMA UnauthorizedKeeps ==
  ASSUME IInv, NEW w \in Workers, CallUnauthorized(w)
  PROVE  IInv'
<1>1. CASE worker[w].retry
  <2>1. Holding(w) /\ Throws(w, "auth_error") /\ worker[w].pc # "idle"
    BY <1>1 DEF CallUnauthorized, Refused, Holding
  <2> QED
    BY <2>1, ThrowKeeps DEF CallUnauthorized
<1>2. CASE ~worker[w].retry
  <2> DEFINE t == [worker[w] EXCEPT !.pc = "refused"]
  <2>1. worker[w] \in Transactions
    BY DEF IInv, TypeOK
  <2>2. /\ t \in Transactions /\ t.view = worker[w].view /\ t.mark = worker[w].mark
        /\ t.pc = "refused" /\ t.retry = worker[w].retry
    BY <2>1 DEF Transactions
  <2>3. worker' = [worker EXCEPT ![w] = t]
    BY <1>2 DEF CallUnauthorized
  <2> QED
    BY <2>2, <2>3, CallKeeps DEF CallUnauthorized
<1> QED
  BY <1>1, <1>2

LEMMA LockKeeps ==
  ASSUME IInv, NEW w \in Workers, LockConnection(w)
  PROVE  IInv'
<1> DEFINE pc == IF Replaced(w) THEN "calling" ELSE "refreshing"
           using == IF Replaced(w) THEN Locked(w).access ELSE worker[w].using
           retry == worker[w].pc = "refused"
           t == [ worker[w] EXCEPT !.pc = pc, !.view = Locked(w), !.using = using, !.retry = retry ]
<1>1. worker[w] \in Transactions /\ conn.token \in Tokens /\ worker \in [Workers -> Transactions]
  BY DEF IInv, TypeOK, Rows
<1>2. Locked(w) \in Tokens /\ using \in Nat /\ retry \in BOOLEAN /\ pc \in {"calling", "refreshing"}
  BY <1>1 DEF Locked, Transactions, Tokens
<1>3. worker' = [worker EXCEPT ![w] = t]
  BY <1>1 DEF LockConnection
<1>4. /\ t \in Transactions /\ t.pc = pc /\ t.view = Locked(w) /\ t.using = using
      /\ t.retry = retry /\ t.mark = worker[w].mark
  <2> HIDE DEF pc, using, retry
  <2> QED
    BY <1>1, <1>2 DEF Transactions
<1>5. worker'[w] = t
  BY <1>1, <1>3
<1> HIDE DEF t
<1>6. Inside(w)
  BY <1>3, <1>4, <1>5 DEF Inside, LockConnection
<1>7. WorkerOK(w) /\ (Wrote(w)' <=> Wrote(w)) /\ worker[w].pc \in {"expired", "refused"}
  BY <1>4, <1>5 DEF IInv, WorkersOK, Wrote, LockConnection
<1>8. Wrote(w) => /\ worker[w].view.grant = conn.token.grant
                  /\ worker[w].view.serial = latest[conn.token.grant]
  BY <1>7 DEF WorkerOK, Holding, SeesTheRow
<1>9. SeesTheRow(w)'
  BY <1>4, <1>5, <1>7, <1>8 DEF SeesTheRow, LockConnection, Locked
<1>10. Locked(w)' = Locked(w)
  BY <1>4, <1>5, <1>7 DEF Locked, LockConnection
<1>11. Needs(w)'
  BY <1>4, <1>5, <1>7, <1>10 DEF Needs, Replaced
<1>12. ReadersSawAGrant(w)'
  BY <1>7 DEF WorkerOK, ReadersSawAGrant, LockConnection
<1>13. WorkerOK(w)'
  BY <1>9, <1>11, <1>12 DEF WorkerOK
<1>14. TokensAreCurrent'
  <2>1. \A v \in Workers \ {w} : worker'[v] = worker[v]
    BY <1>6, OthersStay DEF IInv, Inside
  <2>2. Wrote(w) => Wrote(w)' /\ worker'[w].view = worker[w].view
    BY <1>4, <1>5, <1>7 DEF Locked
  <2> QED
    BY <2>1, <2>2, CurrentKept DEF IInv, LockConnection
<1>15. /\ lock \in {w, Nobody} /\ lock' \in Workers \cup {Nobody} /\ latest' = latest
       /\ issued' \in Nat /\ lost' \in SUBSET Grants
  BY DEF IInv, TypeOK, LockConnection
<1> QED
  BY <1>6, <1>13, <1>14, <1>15, InsideKeeps

LEMMA AnsweredKeeps ==
  ASSUME IInv, NEW w \in Workers, RefreshAnswered(w)
  PROVE  IInv'
<1> DEFINE g == worker[w].view.grant
           n == [ access |-> issued', grant |-> g, serial |-> latest'[g], fresh |-> TRUE ]
           t == [ worker[w] EXCEPT !.pc = "calling", !.using = issued', !.mark = "connected", !.view = n ]
<1>1. /\ worker[w] \in Transactions /\ worker \in [Workers -> Transactions]
      /\ latest \in [Grants -> Nat] /\ issued \in Nat
  BY DEF IInv, TypeOK
<1>2. Holding(w) /\ WorkerOK(w) /\ worker[w].pc = "refreshing"
  BY DEF IInv, WorkersOK, Holding, RefreshAnswered
<1>3. lock = w /\ g = conn.token.grant /\ g \in Grants
  BY <1>2 DEF WorkerOK, SeesTheRow, ReadersSawAGrant
<1>4. latest' = latest \/ latest' = [latest EXCEPT ![conn.token.grant] = @ + 1]
  BY <1>3 DEF RefreshAnswered
<1>5. n \in Tokens /\ issued' \in Nat
  <2>1. latest'[g] \in Nat
    BY <1>1, <1>3, <1>4
  <2>2. issued' \in Nat
    BY <1>1 DEF RefreshAnswered
  <2> QED
    BY <1>3, <2>1, <2>2 DEF Tokens
<1>6. worker' = [worker EXCEPT ![w] = t]
  BY <1>1 DEF RefreshAnswered
<1> HIDE DEF n
<1>7. /\ t \in Transactions /\ t.pc = "calling" /\ t.view = n /\ t.mark = "connected"
      /\ t.retry = worker[w].retry
  BY <1>1, <1>5 DEF Transactions
<1>8. worker'[w] = t
  BY <1>1, <1>6
<1> HIDE DEF t
<1>9. Inside(w)
  BY <1>6, <1>7, <1>8 DEF Inside, RefreshAnswered
<1>10. n.grant = conn.token.grant /\ n.serial = latest'[conn.token.grant] /\ Wrote(w)'
  BY <1>3, <1>7, <1>8 DEF n, Wrote
<1>11. WorkerOK(w)'
  BY <1>2, <1>3, <1>7, <1>8, <1>10
     DEF WorkerOK, SeesTheRow, Needs, ReadersSawAGrant, RefreshAnswered
<1>12. TokensAreCurrent'
  BY <1>7, <1>8, <1>10 DEF TokensAreCurrent, RefreshAnswered
<1>13. lock' = lock /\ lock \in Workers \cup {Nobody} /\ lost' \in SUBSET Grants
  BY DEF IInv, TypeOK, RefreshAnswered
<1> QED
  BY <1>2, <1>4, <1>5, <1>9, <1>11, <1>12, <1>13, InsideKeeps

LEMMA RefusedKeeps ==
  ASSUME IInv, NEW w \in Workers, RefreshRefused(w)
  PROVE  IInv'
<1>1. Holding(w) /\ Throws(w, "auth_error") /\ worker[w].pc # "idle"
  BY DEF RefreshRefused, Refused, Holding
<1> QED
  BY <1>1, ThrowKeeps DEF RefreshRefused

LEMMA LostKeeps ==
  ASSUME IInv, NEW w \in Workers, RefreshLost(w)
  PROVE  IInv'
<1>1. CASE UNCHANGED <<issued, latest, lost>>
  <2>1. Throws(w, worker[w].mark) /\ worker[w].pc # "idle"
    BY DEF RefreshLost
  <2> QED
    BY <1>1, <2>1, ThrowKeeps DEF RefreshLost
<1>2. CASE ~UNCHANGED <<issued, latest, lost>>
  <2> DEFINE t == [worker[w] EXCEPT !.pc = "throwing", !.mark = worker[w].mark]
  <2>1. /\ worker[w] \in Transactions /\ worker \in [Workers -> Transactions] /\ issued \in Nat
        /\ lost \in SUBSET Grants
    BY DEF IInv, TypeOK
  <2>2. /\ t \in Transactions /\ t.view = worker[w].view /\ t.mark = worker[w].mark
        /\ t.pc = "throwing" /\ t.retry = worker[w].retry
    BY <2>1 DEF Transactions
  <2>3. worker' = [worker EXCEPT ![w] = t]
    BY DEF RefreshLost, Throws
  <2>4. worker'[w] = t
    BY <2>1, <2>3
  <2>5. Inside(w)
    BY <2>2, <2>3, <2>4 DEF Inside, RefreshLost
  <2>6. Holding(w) /\ WorkerOK(w) /\ (Wrote(w)' <=> Wrote(w))
    BY <2>2, <2>4 DEF IInv, WorkersOK, Holding, Wrote, RefreshLost
  <2>7. worker[w].view.grant = conn.token.grant /\ conn.token.grant \in Grants
    BY <2>6 DEF WorkerOK, SeesTheRow, ReadersSawAGrant, RefreshLost
  <2>8. /\ latest' = [latest EXCEPT ![conn.token.grant] = @ + 1] /\ issued' = issued + 1
        /\ lost' = lost \cup {conn.token.grant}
    BY <1>2, <2>7 DEF RefreshLost
  <2>9. WorkerOK(w)'
    BY <2>2, <2>4, <2>6 DEF WorkerOK, SeesTheRow, Needs, ReadersSawAGrant, RefreshLost
  <2>10. TokensAreCurrent'
    BY <2>5, <2>8 DEF Inside, TokensAreCurrent
  <2>11. lock' = lock /\ lock \in Workers \cup {Nobody} /\ lost' \in SUBSET Grants /\ issued' \in Nat
    BY <2>1, <2>7, <2>8 DEF IInv, TypeOK, RefreshLost
  <2> QED
    BY <2>5, <2>6, <2>8, <2>9, <2>10, <2>11, InsideKeeps
<1> QED
  BY <1>1, <1>2

\* w's transaction ends, with or without what it wrote; the row keeps its grant.
LEMMA EndKeepsWorkers ==
  ASSUME IInv, NEW w \in Workers, worker' = [worker EXCEPT ![w] = Idle], Release(w),
         conn'.token = conn.token \/ (Wrote(w) /\ conn'.token = worker[w].view),
         UNCHANGED latest
  PROVE  WorkersOK'
<1>1. worker'[w] = Idle
  BY DEF IInv, TypeOK
<1>2. WorkerOK(w)'
  BY <1>1, Kinds DEF WorkerOK, Holding, Wrote, Needs, ReadersSawAGrant
<1>3. \A v \in Workers \ {w} : worker'[v] = worker[v]
  BY <1>1, OthersStay DEF IInv
<1>4. lock' = lock \/ lock \in {w, Nobody}
  BY DEF Release
<1> SUFFICES ASSUME NEW v \in Workers, v # w PROVE WorkerOK(v)'
  BY <1>2 DEF WorkersOK
<1> QED
  BY <1>3, <1>4, OthersUndisturbed DEF IInv

LEMMA CommitKeeps ==
  ASSUME IInv, NEW w \in Workers, Commit(w)
  PROVE  IInv'
<1>1. /\ worker[w] \in Transactions /\ conn \in Rows /\ lock \in Workers \cup {Nobody}
      /\ worker[w].pc = "answered" /\ WorkerOK(w)
  BY DEF IInv, TypeOK, WorkersOK, Commit
<1>2. conn' \in Rows /\ conn'.token = Written(w).token
      /\ (conn'.status = "syncing" => conn.status = "syncing")
  <2>1. Written(w) \in Rows
    BY <1>1 DEF Written, Rows, Statuses, Transactions, Wrote
  <2>2. Written(w).status = "syncing" => conn.status = "syncing"
    BY <1>1 DEF Written, Transactions
  <2> QED
    BY <2>1, <2>2 DEF Commit, Rows, Statuses
<1>3. Wrote(w) => /\ conn'.token = worker[w].view
                  /\ worker[w].view.grant = conn.token.grant
                  /\ worker[w].view.serial = latest[conn.token.grant]
  BY <1>1, <1>2 DEF Written, WorkerOK, Holding, SeesTheRow
<1>4. ~Wrote(w) => conn'.token = conn.token
  BY <1>2 DEF Written
<1>5. conn'.token.grant = conn.token.grant
  BY <1>3, <1>4
<1>6. WorkersOK'
  BY <1>3, <1>4, EndKeepsWorkers DEF Commit
<1>7. TypeOK'
  BY <1>2, Kinds DEF IInv, TypeOK, Commit, Release, syncVars
<1>8. CallbacksAreNew' /\ StoredGrantIsOpen' /\ SyncingIsExplained'
  BY <1>2, <1>5 DEF IInv, CallbacksAreNew, StoredGrantIsOpen, SyncingIsExplained, Commit, syncVars
<1>9. TokensAreCurrent'
  <2>1. CASE Wrote(w)
    BY <1>3, <2>1 DEF TokensAreCurrent, Commit
  <2>2. CASE ~Wrote(w)
    <3>1. \A v \in Workers \ {w} : worker'[v] = worker[v]
      BY DEF IInv, TypeOK, Commit
    <3> QED
      BY <1>4, <2>2, <3>1, CurrentKept DEF IInv, Commit
  <2> QED
    BY <2>1, <2>2
<1> QED
  BY <1>6, <1>7, <1>8, <1>9 DEF IInv

LEMMA RollbackKeeps ==
  ASSUME IInv, NEW w \in Workers, Rollback(w)
  PROVE  IInv'
<1>1. /\ worker[w] \in Transactions /\ lock \in Workers \cup {Nobody} /\ worker[w].pc # "idle"
      /\ WorkerOK(w)
  BY DEF IInv, TypeOK, WorkersOK, Rollback
<1>2. Wrote(w) => worker[w].view.grant = conn.token.grant /\ conn.token.grant \in Grants
  BY <1>1 DEF WorkerOK, Holding, SeesTheRow, ReadersSawAGrant
<1>3. WorkersOK'
  BY EndKeepsWorkers DEF Rollback
<1>4. TypeOK'
  BY <1>2, Kinds DEF IInv, TypeOK, Rollback, Release, syncVars
<1>5. CallbacksAreNew' /\ StoredGrantIsOpen' /\ SyncingIsExplained'
  BY DEF IInv, CallbacksAreNew, StoredGrantIsOpen, SyncingIsExplained, Rollback, syncVars
<1>6. TokensAreCurrent'
  <2>1. \A v \in Workers \ {w} : worker'[v] = worker[v]
    BY DEF IInv, TypeOK, Rollback
  <2>2. CASE ~Wrote(w)
    BY <2>1, <2>2, CurrentKept DEF IInv, Rollback
  <2>3. CASE Wrote(w) /\ worker[w].view.serial # conn.token.serial
    BY <1>2, <2>3 DEF TokensAreCurrent, Rollback
  <2>4. CASE Wrote(w) /\ worker[w].view.serial = conn.token.serial
    <3> SUFFICES ASSUME conn.token.grant \in Grants \ lost,
                        conn.token.serial # latest[conn.token.grant]
                 PROVE  FALSE
      BY <2>4 DEF TokensAreCurrent, Rollback
    <3>1. PICK v \in Workers : Wrote(v) /\ worker[v].view.serial = latest[conn.token.grant]
      BY DEF IInv, TokensAreCurrent
    <3>2. v # w
      BY <2>4, <3>1
    <3> QED
      BY <2>4, <3>1, <3>2, HoldersHaveTheLock DEF IInv, Holding
  <2> QED
    BY <2>2, <2>3, <2>4
<1> QED
  BY <1>3, <1>4, <1>5, <1>6 DEF IInv
-----------------------------------------------------------------------------
(* The other writers of the row. *)

LEMMA ExpireKeeps ==
  ASSUME IInv, Expire
  PROVE  IInv'
<1>1. conn \in Rows /\ conn.token \in Tokens
  BY DEF IInv, TypeOK, Rows
<1>2. conn' = [conn EXCEPT !.token = [conn.token EXCEPT !.fresh = FALSE]]
  BY <1>1 DEF Expire
<1>3. [conn.token EXCEPT !.fresh = FALSE] \in Tokens
  BY <1>1 DEF Tokens
<1>4. /\ conn' \in Rows /\ conn'.status = conn.status
      /\ conn'.token = [conn.token EXCEPT !.fresh = FALSE]
  BY <1>1, <1>2, <1>3 DEF Rows
<1>5. /\ conn'.token.grant = conn.token.grant /\ conn'.token.serial = conn.token.serial
      /\ conn'.token.access = conn.token.access /\ conn'.token.fresh = FALSE
  BY <1>1, <1>4 DEF Tokens
<1>6. WorkersOK'
  <2> SUFFICES ASSUME NEW w \in Workers PROVE WorkerOK(w)'
    BY DEF WorkersOK
  <2> QED
    BY <1>5, Undisturbed DEF IInv, WorkersOK, Expire
<1>7. TypeOK'
  BY <1>4 DEF IInv, TypeOK, Expire, syncVars
<1>8. CallbacksAreNew' /\ StoredGrantIsOpen' /\ SyncingIsExplained'
  BY <1>4, <1>5 DEF IInv, CallbacksAreNew, StoredGrantIsOpen, SyncingIsExplained, Expire, syncVars
<1>9. TokensAreCurrent'
  BY <1>5 DEF IInv, TokensAreCurrent, Wrote, Expire
<1> QED
  BY <1>6, <1>7, <1>8, <1>9 DEF IInv

\* A grant that Intuit opens is neither stored nor on its way.
LEMMA ConsentIsNew ==
  ASSUME IInv, NEW g \in Grants, Consent(g)
  PROVE  /\ issued' \in Nat /\ issued' = issued + 1
         /\ latest' \in [Grants -> Nat] /\ latest'[g] = 1
         /\ \A h \in Grants \ {g} : latest'[h] = latest[h]
         /\ conn.token.grant # g
         /\ \A c \in Callbacks : callback[c].grant # g
<1>1. issued \in Nat /\ latest \in [Grants -> Nat]
  BY DEF IInv, TypeOK
<1>2. conn.token.grant # g
  BY DEF IInv, StoredGrantIsOpen, Consent
<1>3. \A c \in Callbacks : callback[c].grant # g
  BY ConnectionAssumption, Kinds DEF IInv, CallbacksAreNew, Consent
<1> QED
  BY <1>1, <1>2, <1>3 DEF Consent

LEMMA ExchangeKeeps ==
  ASSUME IInv, NEW c \in Callbacks, NEW g \in Grants, Exchange(c, g)
  PROVE  IInv'
<1> DEFINE t == [access |-> issued', grant |-> g, serial |-> 1, fresh |-> TRUE]
<1>1. /\ Consent(g) /\ callback' = [callback EXCEPT ![c] = t]
      /\ UNCHANGED <<conn, lock, worker, lost>> /\ UNCHANGED syncVars
  BY DEF Exchange
<1>2. /\ issued' \in Nat /\ latest' \in [Grants -> Nat] /\ latest'[g] = 1
      /\ \A h \in Grants \ {g} : latest'[h] = latest[h]
      /\ conn.token.grant # g /\ \A d \in Callbacks : callback[d].grant # g
  BY <1>1, ConsentIsNew
<1>3. t \in Tokens
  BY <1>2 DEF Tokens
<1>4. callback'[c] = t /\ \A d \in Callbacks \ {c} : callback'[d] = callback[d]
  BY <1>1 DEF IInv, TypeOK
<1>5. TypeOK'
  BY <1>1, <1>2, <1>3 DEF IInv, TypeOK, syncVars
<1>6. \A w \in Workers : Holding(w) => conn.token.grant \in Grants
  BY DEF IInv, WorkersOK, WorkerOK, SeesTheRow, ReadersSawAGrant
<1>7. WorkersOK'
  <2> SUFFICES ASSUME NEW w \in Workers PROVE WorkerOK(w)'
    BY DEF WorkersOK
  <2>1. Holding(w) => latest'[conn.token.grant] = latest[conn.token.grant]
    BY <1>2, <1>6
  <2> QED
    BY <1>1, <2>1, Undisturbed DEF IInv, WorkersOK
<1>8. CallbacksAreNew'
  <2> SUFFICES ASSUME NEW d \in Callbacks, callback'[d] # NoToken
               PROVE  /\ callback'[d].grant \in Grants
                      /\ callback'[d].grant # conn'.token.grant
                      /\ callback'[d].serial = 1
                      /\ latest'[callback'[d].grant] = 1
                      /\ \A e \in Callbacks \ {d} : callback'[e].grant # callback'[d].grant
    BY DEF CallbacksAreNew
  <2>1. CASE d = c
    BY <1>1, <1>2, <1>4, <2>1
  <2>2. CASE d # c
    BY <1>1, <1>2, <1>4, <2>2 DEF IInv, CallbacksAreNew
  <2> QED
    BY <2>1, <2>2
<1>9. StoredGrantIsOpen' /\ TokensAreCurrent' /\ SyncingIsExplained'
  BY <1>1, <1>2
     DEF IInv, StoredGrantIsOpen, TokensAreCurrent, Wrote, SyncingIsExplained, syncVars
<1> QED
  BY <1>5, <1>7, <1>8, <1>9 DEF IInv

LEMMA ConnectKeeps ==
  ASSUME IInv, NEW c \in Callbacks, Connect(c)
  PROVE  IInv'
<1>1. /\ callback[c] \in Tokens /\ callback[c].grant \in Grants /\ callback[c].serial = 1
      /\ latest[callback[c].grant] = 1
      /\ \A d \in Callbacks \ {c} : callback[d].grant # callback[c].grant
  BY DEF IInv, TypeOK, CallbacksAreNew, Connect
<1>2. conn'.status = "connected" /\ conn'.token = callback[c] /\ conn' \in Rows
  BY <1>1 DEF Connect, Rows, Statuses
<1>3. callback'[c] = NoToken /\ \A d \in Callbacks \ {c} : callback'[d] = callback[d]
  BY DEF IInv, TypeOK, Connect
<1>4. TypeOK'
  BY <1>2, Kinds DEF IInv, TypeOK, Connect, syncVars
<1>5. WorkersOK'
  BY <1>1, <1>2, UnlockedDisturbsNobody DEF IInv, Connect
<1>6. CallbacksAreNew'
  BY <1>1, <1>2, <1>3, Kinds, ConnectionAssumption DEF IInv, CallbacksAreNew, Connect
<1>7. StoredGrantIsOpen' /\ TokensAreCurrent' /\ SyncingIsExplained'
  BY <1>1, <1>2 DEF StoredGrantIsOpen, TokensAreCurrent, SyncingIsExplained, Connect
<1> QED
  BY <1>4, <1>5, <1>6, <1>7 DEF IInv

LEMMA ConnectFailsKeeps ==
  ASSUME IInv, NEW c \in Callbacks, ConnectFails(c)
  PROVE  IInv'
<1>1. callback'[c] = NoToken /\ \A d \in Callbacks \ {c} : callback'[d] = callback[d]
  BY DEF IInv, TypeOK, ConnectFails
<1>2. TypeOK'
  BY Kinds DEF IInv, TypeOK, ConnectFails, syncVars
<1>3. WorkersOK'
  <2> SUFFICES ASSUME NEW w \in Workers PROVE WorkerOK(w)'
    BY DEF WorkersOK
  <2> QED
    BY Undisturbed DEF IInv, WorkersOK, ConnectFails
<1>4. CallbacksAreNew'
  BY <1>1, Kinds, ConnectionAssumption DEF IInv, CallbacksAreNew, ConnectFails
<1>5. StoredGrantIsOpen' /\ TokensAreCurrent' /\ SyncingIsExplained'
  BY DEF IInv, StoredGrantIsOpen, TokensAreCurrent, Wrote, SyncingIsExplained, ConnectFails, syncVars
<1> QED
  BY <1>2, <1>3, <1>4, <1>5 DEF IInv

\* A writer that changes the status alone.
LEMMA StatusKeeps ==
  ASSUME IInv, NEW status \in Statuses, SetStatus(status),
         UNCHANGED <<lock, worker, issued, latest, lost, callback>>,
         sync' \in [Syncs -> {"none", "marked", "running", "died", "ended"}],
         by' \in Syncs \cup {Nobody}, SyncingIsExplained'
  PROVE  IInv'
<1>1. conn' \in Rows /\ conn'.token = conn.token
  BY DEF IInv, TypeOK, Rows, SetStatus
<1>2. TypeOK'
  BY <1>1 DEF IInv, TypeOK
<1>3. WorkersOK'
  BY <1>1, UnlockedDisturbsNobody DEF IInv, SetStatus
<1>4. CallbacksAreNew' /\ StoredGrantIsOpen' /\ TokensAreCurrent'
  BY <1>1 DEF IInv, CallbacksAreNew, StoredGrantIsOpen, TokensAreCurrent, Wrote
<1> QED
  BY <1>2, <1>3, <1>4 DEF IInv

LEMMA SettingsKeep ==
  ASSUME IInv, SaveSettings
  PROVE  IInv'
<1>1. CASE conn' = [conn EXCEPT !.status = "connected"] /\ UNCHANGED <<issued, latest>>
  <2>1. "connected" \in Statuses /\ SetStatus("connected")
    BY <1>1 DEF SaveSettings, SetStatus, Statuses
  <2>2. SyncingIsExplained'
    BY <1>1 DEF IInv, TypeOK, Rows, SyncingIsExplained
  <2> QED
    BY <1>1, <2>1, <2>2, StatusKeeps DEF IInv, TypeOK, SaveSettings, syncVars
<1>2. ASSUME NEW g \in Grants, Consent(g),
             conn' = [ status |-> "connected",
                       token |-> [ access |-> issued', grant |-> g, serial |-> 1,
                                   fresh |-> conn.token.fresh ]]
      PROVE  IInv'
  <2>1. /\ issued' \in Nat /\ latest' \in [Grants -> Nat] /\ latest'[g] = 1
        /\ \A h \in Grants \ {g} : latest'[h] = latest[h]
        /\ \A c \in Callbacks : callback[c].grant # g
    BY <1>2, ConsentIsNew
  <2>2. conn.token \in Tokens
    BY DEF IInv, TypeOK, Rows
  <2>3. conn'.token \in Tokens
    BY <1>2, <2>1, <2>2 DEF Tokens
  <2>4. conn' \in Rows
    BY <1>2, <2>3 DEF Rows, Statuses
  <2>5. TypeOK'
    BY <2>1, <2>4 DEF IInv, TypeOK, SaveSettings, syncVars
  <2>6. WorkersOK'
    BY <1>2, UnlockedDisturbsNobody DEF IInv, SaveSettings
  <2>7. CallbacksAreNew'
    BY <1>2, <2>1 DEF IInv, CallbacksAreNew, SaveSettings
  <2>8. StoredGrantIsOpen' /\ TokensAreCurrent' /\ SyncingIsExplained'
    BY <1>2, <2>1 DEF StoredGrantIsOpen, TokensAreCurrent, SyncingIsExplained
  <2> QED
    BY <2>5, <2>6, <2>7, <2>8 DEF IInv
<1> QED
  BY <1>1, <1>2 DEF SaveSettings

LEMMA StampsKeep ==
  ASSUME IInv, DrainStamps
  PROVE  IInv'
<1>1. "connected" \in Statuses /\ SetStatus("connected")
  BY DEF DrainStamps, Statuses
<1>2. SyncingIsExplained'
  BY DEF IInv, TypeOK, Rows, SyncingIsExplained, DrainStamps, SetStatus
<1> QED
  BY <1>1, <1>2, StatusKeeps DEF IInv, TypeOK, DrainStamps, syncVars
-----------------------------------------------------------------------------
(* The inline sync. *)

LEMMA SyncKeeps ==
  ASSUME IInv, NEW s \in Syncs, SyncStep(s)
  PROVE  IInv'
<1>1. /\ conn \in Rows /\ sync \in [Syncs -> {"none", "marked", "running", "died", "ended"}]
      /\ by \in Syncs \cup {Nobody} /\ s # Nobody
  BY ConnectionAssumption DEF IInv, TypeOK
<1>2. CASE MarkSyncing(s)
  <2>1. SetStatus("syncing") /\ "syncing" \in Statuses
    BY <1>2 DEF MarkSyncing, Statuses
  <2>2. SyncingIsExplained'
    BY <1>1, <1>2 DEF MarkSyncing, SyncingIsExplained
  <2> QED
    BY <1>1, <1>2, <2>1, <2>2, StatusKeeps DEF MarkSyncing
<1>3. CASE SucceedSync(s)
  <2>1. SetStatus("connected") /\ "connected" \in Statuses
    BY <1>3 DEF SucceedSync, Statuses
  <2>2. SyncingIsExplained'
    BY <1>1, <2>1 DEF SetStatus, Rows, SyncingIsExplained
  <2> QED
    BY <1>1, <1>3, <2>1, <2>2, StatusKeeps DEF SucceedSync, End
<1>4. CASE FailSync(s)
  <2>1. SetStatus("error") /\ "error" \in Statuses
    BY <1>4 DEF FailSync, Statuses
  <2>2. SyncingIsExplained'
    BY <1>1, <2>1 DEF SetStatus, Rows, SyncingIsExplained
  <2> QED
    BY <1>1, <1>4, <2>1, <2>2, StatusKeeps DEF FailSync, End
<1>5. CASE StartRun(s) \/ DieSync(s)
  <2>1. UNCHANGED connVars /\ UNCHANGED by
    BY <1>5 DEF StartRun, DieSync
  <2>2. /\ sync' \in [Syncs -> {"none", "marked", "running", "died", "ended"}]
        /\ \A r \in Syncs : sync[r] \in {"marked", "running", "died"} =>
                             sync'[r] \in {"marked", "running", "died"}
    BY <1>1, <1>5 DEF StartRun, DieSync
  <2>3. TypeOK'
    BY <2>1, <2>2 DEF IInv, TypeOK, connVars
  <2>4. WorkersOK'
    <3> SUFFICES ASSUME NEW w \in Workers PROVE WorkerOK(w)'
      BY DEF WorkersOK
    <3> QED
      BY <2>1, Undisturbed DEF IInv, WorkersOK, connVars
  <2>5. CallbacksAreNew' /\ StoredGrantIsOpen' /\ TokensAreCurrent'
    BY <2>1 DEF IInv, CallbacksAreNew, StoredGrantIsOpen, TokensAreCurrent, Wrote, connVars
  <2>6. SyncingIsExplained'
    BY <1>1, <2>1, <2>2 DEF IInv, SyncingIsExplained, connVars
  <2> QED
    BY <2>3, <2>4, <2>5, <2>6 DEF IInv
<1> QED
  BY <1>2, <1>3, <1>4, <1>5 DEF SyncStep

LEMMA StutterKeeps ==
  ASSUME IInv, UNCHANGED vars
  PROVE  IInv'
<1>1. TypeOK' /\ CallbacksAreNew' /\ StoredGrantIsOpen' /\ TokensAreCurrent' /\ SyncingIsExplained'
  BY DEF IInv, TypeOK, CallbacksAreNew, StoredGrantIsOpen, TokensAreCurrent, Wrote,
         SyncingIsExplained, vars, connVars, syncVars
<1>2. WorkersOK'
  <2> SUFFICES ASSUME NEW w \in Workers PROVE WorkerOK(w)'
    BY DEF WorkersOK
  <2> QED
    BY Undisturbed DEF IInv, WorkersOK, vars, connVars
<1> QED
  BY <1>1, <1>2 DEF IInv

LEMMA WorkerKeeps ==
  ASSUME IInv, NEW w \in Workers, WorkerStep(w)
  PROVE  IInv'
BY ReadKeeps, NextCallKeeps, LockKeeps, AnsweredKeeps, RefusedKeeps, LostKeeps,
   AnswerKeeps, UnauthorizedKeeps, CommitKeeps, RollbackKeeps DEF WorkerStep

LEMMA NextIInv == IInv /\ [Next]_vars => IInv'
BY WorkerKeeps, ExchangeKeeps, ConnectKeeps, ConnectFailsKeeps, SyncKeeps, ExpireKeeps,
   SettingsKeep, StampsKeep, StutterKeeps DEF Next

LEMMA AlwaysIInv == Spec => []IInv
BY InitIInv, NextIInv, PTL DEF Spec
-----------------------------------------------------------------------------
\* The row, the workers' transactions, the callbacks and the syncs are what the
\* code can leave there.
THEOREM ConnectionTypeCorrect == Spec => []TypeOK
<1>1. IInv => TypeOK
  BY DEF IInv
<1> QED
  BY <1>1, AlwaysIInv, PTL

\* Whatever the replicas, reconnections and failed pushes, the stored refresh
\* token, or the one the lock's holder is about to store, is Intuit's latest
\* unless the latest was rolled back or never arrived (withFreshToken).
THEOREM TokensStayCurrent == Spec => []TokensAreCurrent
<1>1. IInv => TokensAreCurrent
  BY DEF IInv
<1> QED
  BY <1>1, AlwaysIInv, PTL

\* Nobody asks Intuit for a token while the row holds a better one: the check
\* made again under the lock of lockConnectionForRefresh is enough.
THEOREM RefreshesAreNecessary == Spec => []RefreshesAreNeeded
<1>1. IInv => RefreshesAreNeeded
  BY DEF IInv, WorkersOK, WorkerOK, Needs, RefreshesAreNeeded
<1> QED
  BY <1>1, AlwaysIInv, PTL

\* A connection says "syncing" only while the sync that marked it last is under
\* way or after that sync died (handleSyncPost).
THEOREM SyncingHasACause == Spec => []SyncingIsExplained
<1>1. IInv => SyncingIsExplained
  BY DEF IInv
<1> QED
  BY <1>1, AlwaysIInv, PTL
=============================================================================
