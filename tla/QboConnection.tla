----------------------------- MODULE QboConnection -----------------------------
(***************************************************************************)
(* A company's integration_connections row: its OAuth tokens and the       *)
(* status every push reads before it calls QuickBooks.                     *)
(*                                                                         *)
(* A worker reads the row in the transaction of its push or pull, and      *)
(* withFreshToken (qbo-token-refresh.ts) replaces an expired or refused    *)
(* access token in that same transaction under SELECT ... FOR UPDATE: what *)
(* it writes is seen by others only when the push commits, and is rolled   *)
(* back when the push throws.  The API's OAuth callback, its settings and  *)
(* its inline sync (routes/qbo.ts), and the heartbeat's generic drain      *)
(* write the same row.  What the sync's qbo_sync_runs row goes through is   *)
(* a table of WorkflowTables.                                              *)
(*                                                                         *)
(* Intuit is external: a consent opens a grant; a refresh issues an access *)
(* token and may replace the refresh token.  serial counts the refresh     *)
(* tokens of a grant; all but its latest are refused sooner or later.      *)
(***************************************************************************)
EXTENDS Naturals

CONSTANTS
  Workers,    \* worker replicas
  Callbacks,  \* OAuth callbacks
  Syncs,      \* POST /sync requests
  Grants,     \* consents an administrator may give
  MaxIssued,  \* bound: access tokens issued
  Nobody      \* no worker, no sync, no grant

ASSUME ConnectionAssumption ==
  /\ Nobody \notin Workers \cup Syncs \cup Grants
  /\ MaxIssued \in Nat

VARIABLES
  conn,      \* the committed row
  lock,      \* the worker whose transaction holds the row's lock
  worker,    \* where each worker is in its transaction
  issued,    \* access tokens Intuit has issued
  latest,    \* by grant, the serial of Intuit's latest refresh token
  lost,      \* history: grants whose latest refresh token was rolled back or never arrived
  callback,  \* what each callback has been given
  sync,      \* where each sync request is
  by         \* history: the sync that last marked the row

connVars == <<conn, lock, worker, issued, latest, lost, callback>>
syncVars == <<sync, by>>
vars == <<connVars, syncVars>>

NoToken == [access |-> 0, grant |-> Nobody, serial |-> 0, fresh |-> FALSE]

\* fresh: access_token_expires_at is past the safety margin.
Tokens == [access : Nat, grant : Grants \cup {Nobody}, serial : Nat, fresh : BOOLEAN]

Statuses == {"absent", "connected", "syncing", "error", "auth_error"}

Rows == [status : Statuses, token : Tokens]

\* saw: the tokens read first.  view: the tokens read under the lock, or written
\* since.  mark: the status written with them.  using: the access token of the
\* call.  retry: the call is the second one of a withFreshToken.
Transactions ==
  [ pc : {"idle", "expired", "refused", "refreshing", "calling", "answered", "throwing"},
    saw : Tokens, view : Tokens, mark : {"none", "connected", "auth_error"},
    using : Nat, retry : BOOLEAN ]

Idle ==
  [ pc |-> "idle", saw |-> NoToken, view |-> NoToken, mark |-> "none",
    using |-> 0, retry |-> FALSE ]

TypeOK ==
  /\ conn \in Rows
  /\ lock \in Workers \cup {Nobody}
  /\ worker \in [Workers -> Transactions]
  /\ issued \in Nat
  /\ latest \in [Grants -> Nat]
  /\ lost \in SUBSET Grants
  /\ callback \in [Callbacks -> Tokens]
  /\ sync \in [Syncs -> {"none", "marked", "running", "died", "ended"}]
  /\ by \in Syncs \cup {Nobody}

Init ==
  /\ conn = [status |-> "absent", token |-> NoToken]
  /\ lock = Nobody
  /\ worker = [w \in Workers |-> Idle]
  /\ issued = 0
  /\ latest = [g \in Grants |-> 0]
  /\ lost = {}
  /\ callback = [c \in Callbacks |-> NoToken]
  /\ sync = [s \in Syncs |-> "none"]
  /\ by = Nobody
-----------------------------------------------------------------------------
(* The token refresh. *)

Unlocked == lock = Nobody

\* withFreshToken begins with the tokens t, expired or not.
Enter(w, t, fresh, txn) ==
  worker' = [worker EXCEPT ![w] =
    [txn EXCEPT !.pc = IF fresh THEN "calling" ELSE "expired",
                !.using = t.access, !.retry = FALSE]]

\* A push or pull reads the row without a lock.  Any other status, or no
\* tokens, and it throws.
ReadConnection(w) ==
  /\ worker[w].pc = "idle"
  /\ conn.status = "connected"
  /\ conn.token.grant # Nobody
  /\ Enter(w, conn.token, conn.token.fresh, [Idle EXCEPT !.saw = conn.token])
  /\ UNCHANGED <<conn, lock, issued, latest, lost, callback>>
  /\ UNCHANGED syncVars

\* A batch makes its next call, with the tokens it read first, which may have
\* expired since.
NextCall(w) ==
  /\ worker[w].pc = "answered"
  /\ \E fresh \in {worker[w].saw.fresh, FALSE} : Enter(w, worker[w].saw, fresh, worker[w])
  /\ UNCHANGED <<conn, lock, issued, latest, lost, callback>>
  /\ UNCHANGED syncVars

Wrote(w) == worker[w].mark # "none"

\* The row's tokens under the lock: what w wrote, or what is committed by now.
Locked(w) == IF Wrote(w) THEN worker[w].view ELSE conn.token

\* Mutant of Replaced: the row is not checked again under the lock.
ReplacedUnchecked(w) == FALSE

\* Another transaction has replaced the token meanwhile.
Replaced(w) ==
  \/ worker[w].pc = "expired" /\ Locked(w).fresh
  \/ worker[w].pc = "refused" /\ Locked(w).access # worker[w].using

\* Mutant of LockConnection: SELECT without FOR UPDATE.
ReadAgain(w) ==
  /\ worker[w].pc \in {"expired", "refused"}
  /\ worker' = [worker EXCEPT
       ![w].pc = IF Replaced(w) THEN "calling" ELSE "refreshing",
       ![w].view = Locked(w),
       ![w].using = IF Replaced(w) THEN Locked(w).access ELSE worker[w].using,
       ![w].retry = worker[w].pc = "refused"]
  /\ UNCHANGED <<conn, lock, issued, latest, lost, callback>>
  /\ UNCHANGED syncVars

\* lockConnectionForRefresh, and the check made again under the lock.
LockConnection(w) ==
  /\ worker[w].pc \in {"expired", "refused"}
  /\ lock \in {w, Nobody}
  /\ lock' = w
  /\ worker' = [worker EXCEPT
       ![w].pc = IF Replaced(w) THEN "calling" ELSE "refreshing",
       ![w].view = Locked(w),
       ![w].using = IF Replaced(w) THEN Locked(w).access ELSE worker[w].using,
       ![w].retry = worker[w].pc = "refused"]
  /\ UNCHANGED <<conn, issued, latest, lost, callback>>
  /\ UNCHANGED syncVars

\* Intuit answers with an access token, and with a new refresh token or the
\* one it was sent; the one it was sent may be a replaced one it still takes.
RefreshAnswered(w) ==
  LET t == worker[w].view IN
  /\ worker[w].pc = "refreshing"
  /\ issued < MaxIssued
  /\ issued' = issued + 1
  /\ \E rotates \in BOOLEAN :
       /\ ~rotates => t.serial = latest[t.grant]
       /\ latest' = IF rotates THEN [latest EXCEPT ![t.grant] = @ + 1] ELSE latest
  /\ worker' = [worker EXCEPT
       ![w].pc = "calling", ![w].using = issued', ![w].mark = "connected",
       ![w].view = [ access |-> issued', grant |-> t.grant,
                     serial |-> latest'[t.grant], fresh |-> TRUE ]]
  /\ UNCHANGED <<conn, lock, lost, callback>>
  /\ UNCHANGED syncVars

Throws(w, mark) ==
  worker' = [worker EXCEPT ![w].pc = "throwing", ![w].mark = mark]

\* The connection is marked, in the transaction about to be rolled back.
Refused(w) == Throws(w, "auth_error")

\* A 4xx of the refresh endpoint.
RefreshRefused(w) ==
  /\ worker[w].pc = "refreshing"
  /\ Refused(w)
  /\ UNCHANGED <<conn, lock, issued, latest, lost, callback>>
  /\ UNCHANGED syncVars

\* No answer, before or after Intuit replaced the token.
RefreshLost(w) ==
  LET g == worker[w].view.grant IN
  /\ worker[w].pc = "refreshing"
  /\ Throws(w, worker[w].mark)
  /\ \/ /\ issued < MaxIssued
        /\ issued' = issued + 1
        /\ latest' = [latest EXCEPT ![g] = @ + 1]
        /\ lost' = lost \cup {g}
     \/ UNCHANGED <<issued, latest, lost>>
  /\ UNCHANGED <<conn, lock, callback>>
  /\ UNCHANGED syncVars

CallAnswered(w) ==
  /\ worker[w].pc = "calling"
  /\ worker' = [worker EXCEPT ![w].pc = "answered", ![w].using = 0, ![w].retry = FALSE]
  /\ UNCHANGED <<conn, lock, issued, latest, lost, callback>>
  /\ UNCHANGED syncVars

\* A 401, of the first call or of the second.
CallUnauthorized(w) ==
  /\ worker[w].pc = "calling"
  /\ IF worker[w].retry
     THEN Refused(w)
     ELSE worker' = [worker EXCEPT ![w].pc = "refused"]
  /\ UNCHANGED <<conn, lock, issued, latest, lost, callback>>
  /\ UNCHANGED syncVars

Release(w) == lock' = IF lock = w THEN Nobody ELSE lock

\* The row as w leaves it.
Written(w) == IF Wrote(w) THEN [status |-> worker[w].mark, token |-> worker[w].view] ELSE conn

\* The push commits.  A pull stamps the connection first.
Commit(w) ==
  /\ worker[w].pc = "answered"
  /\ \/ conn' = Written(w)
     \/ lock \in {w, Nobody} /\ conn' = [Written(w) EXCEPT !.status = "connected"]
  /\ lost' = IF Wrote(w) THEN lost \ {worker[w].view.grant} ELSE lost
  /\ worker' = [worker EXCEPT ![w] = Idle]
  /\ Release(w)
  /\ UNCHANGED <<issued, latest, callback>>
  /\ UNCHANGED syncVars

\* The push throws, its commit fails or the worker dies: all is rolled back.
Rollback(w) ==
  LET t == worker[w].view IN
  /\ worker[w].pc # "idle"
  /\ lost' = IF Wrote(w) /\ t.serial # conn.token.serial THEN lost \cup {t.grant} ELSE lost
  /\ worker' = [worker EXCEPT ![w] = Idle]
  /\ Release(w)
  /\ UNCHANGED <<conn, issued, latest, callback>>
  /\ UNCHANGED syncVars
-----------------------------------------------------------------------------
(* The other writers of the row.  Each is one statement or transaction that  *)
(* waits for the row's lock.                                                 *)

\* The safety margin before access_token_expires_at is reached.
Expire ==
  /\ conn.token.fresh
  /\ conn' = [conn EXCEPT !.token.fresh = FALSE]
  /\ UNCHANGED <<lock, worker, issued, latest, lost, callback>>
  /\ UNCHANGED syncVars

\* Intuit opens grant g.
Consent(g) ==
  /\ latest[g] = 0
  /\ issued < MaxIssued
  /\ issued' = issued + 1
  /\ latest' = [latest EXCEPT ![g] = 1]

\* GET /callback exchanges the code, and upserts the row in a transaction.
Exchange(c, g) ==
  /\ callback[c] = NoToken
  /\ Consent(g)
  /\ callback' = [callback EXCEPT ![c] =
       [access |-> issued', grant |-> g, serial |-> 1, fresh |-> TRUE]]
  /\ UNCHANGED <<conn, lock, worker, lost>>
  /\ UNCHANGED syncVars

Connect(c) ==
  /\ callback[c] # NoToken
  /\ Unlocked
  /\ conn' = [status |-> "connected", token |-> callback[c]]
  /\ callback' = [callback EXCEPT ![c] = NoToken]
  /\ UNCHANGED <<lock, worker, issued, latest, lost>>
  /\ UNCHANGED syncVars

ConnectFails(c) ==
  /\ callback[c] # NoToken
  /\ callback' = [callback EXCEPT ![c] = NoToken]
  /\ UNCHANGED <<conn, lock, worker, issued, latest, lost>>
  /\ UNCHANGED syncVars

\* POST /api/integrations/qbo with the default status: tokens the body does not
\* bring stay, and so does the expiry of those it replaces.
SaveSettings ==
  /\ Unlocked
  /\ \/ /\ conn' = [conn EXCEPT !.status = "connected"]
        /\ UNCHANGED <<issued, latest>>
     \/ \E g \in Grants :
          /\ Consent(g)
          /\ conn' = [ status |-> "connected",
                       token |-> [ access |-> issued', grant |-> g, serial |-> 1,
                                   fresh |-> conn.token.fresh ]]
  /\ UNCHANGED <<lock, worker, lost, callback>>
  /\ UNCHANGED syncVars

SetStatus(status) == Unlocked /\ conn' = [conn EXCEPT !.status = status]

\* A heartbeat that has applied any generic row or sync event.
DrainStamps ==
  /\ conn.status # "absent"
  /\ SetStatus("connected")
  /\ UNCHANGED <<lock, worker, issued, latest, lost, callback>>
  /\ UNCHANGED syncVars
-----------------------------------------------------------------------------
(* The inline sync. *)

\* The row is marked, or a placeholder is inserted, before there is a run.
MarkSyncing(s) ==
  /\ sync[s] = "none"
  /\ SetStatus("syncing")
  /\ sync' = [sync EXCEPT ![s] = "marked"]
  /\ by' = s
  /\ UNCHANGED <<lock, worker, issued, latest, lost, callback>>

\* startQboSyncRun inserts the run.
StartRun(s) ==
  /\ sync[s] = "marked"
  /\ sync' = [sync EXCEPT ![s] = "running"]
  /\ UNCHANGED connVars
  /\ UNCHANGED by

End(s) ==
  /\ sync[s] = "running"
  /\ sync' = [sync EXCEPT ![s] = "ended"]
  /\ UNCHANGED by

\* The run succeeds and the connection is stamped in one transaction.
SucceedSync(s) ==
  /\ End(s)
  /\ SetStatus("connected")
  /\ UNCHANGED <<lock, worker, issued, latest, lost, callback>>

\* Mutant of FailSync: the run fails and the connection keeps its status.
FailRunOnly(s) ==
  /\ End(s)
  /\ UNCHANGED connVars

FailSync(s) ==
  /\ End(s)
  /\ SetStatus("error")
  /\ UNCHANGED <<lock, worker, issued, latest, lost, callback>>

\* The run is not inserted, its failure not recorded, or the process dies.
DieSync(s) ==
  /\ sync[s] \in {"marked", "running"}
  /\ sync' = [sync EXCEPT ![s] = "died"]
  /\ UNCHANGED connVars
  /\ UNCHANGED by
-----------------------------------------------------------------------------
WorkerStep(w) ==
  \/ ReadConnection(w)
  \/ NextCall(w)
  \/ LockConnection(w)
  \/ RefreshAnswered(w)
  \/ RefreshRefused(w)
  \/ RefreshLost(w)
  \/ CallAnswered(w)
  \/ CallUnauthorized(w)
  \/ Commit(w)
  \/ Rollback(w)

SyncStep(s) ==
  \/ MarkSyncing(s)
  \/ StartRun(s)
  \/ SucceedSync(s)
  \/ FailSync(s)
  \/ DieSync(s)

Next ==
  \/ \E w \in Workers : WorkerStep(w)
  \/ \E c \in Callbacks, g \in Grants : Exchange(c, g)
  \/ \E c \in Callbacks : Connect(c) \/ ConnectFails(c)
  \/ \E s \in Syncs : SyncStep(s)
  \/ Expire
  \/ SaveSettings
  \/ DrainStamps

Spec == Init /\ [][Next]_vars
-----------------------------------------------------------------------------
(* Properties. *)

\* The refresh token that is stored, or that an open transaction is about to
\* store, is the latest of its grant, unless the latest was rolled back with a
\* push or never arrived: replicas that find the token expired or refused at
\* once, and a reconnection meanwhile, lose no other token.
TokensAreCurrent ==
  LET t == conn.token IN
  t.grant \in Grants \ lost =>
    \/ t.serial = latest[t.grant]
    \/ \E w \in Workers : /\ Wrote(w)
                          /\ worker[w].view.grant = t.grant
                          /\ worker[w].view.serial = latest[t.grant]

\* A worker that asks Intuit for a token sends the refresh token of the row,
\* and the access token of the row has expired or was refused to it: of the
\* replicas that find a token wanting, one replaces it and the others use what
\* it committed.
RefreshesAreNeeded ==
  \A w \in Workers : worker[w].pc = "refreshing" =>
    LET row == Locked(w)
        held == worker[w].view IN
    /\ held.grant = row.grant /\ held.serial = row.serial
    /\ row.fresh => worker[w].retry /\ worker[w].using = row.access

\* A connection that says "syncing" was marked by a sync that is under way or
\* that died without a word: whatever other syncs, refreshes and heartbeats
\* wrote meanwhile, the end of the sync that marked it last takes the mark back.
SyncingIsExplained ==
  conn.status = "syncing" => by # Nobody /\ sync[by] \in {"marked", "running", "died"}
=============================================================================
