-------------------------------- MODULE Pool --------------------------------
(***************************************************************************)
(* Sessions in a pool: what a connection remembers of its server session   *)
(* (inTx, sessionLocation, bad) against what the session is (open work,    *)
(* time zone), while database/sql hands connections from user to user,     *)
(* resets them and repeats calls that ended in driver.ErrBadConn.          *)
(* conn.go, tx.go, session_timezone.go, bulk.go.                           *)
(*                                                                         *)
(* A statement is one step: the mutex keeps others out, and module Conn    *)
(* says what happens inside.  Here it has four ends: done and acknowledged,*)
(* refused by the server, cut before or cut after the server did it.       *)
(***************************************************************************)
EXTENDS Naturals, FiniteSets

CONSTANTS
    Users,      \* goroutines, each with one job
    Conns,      \* slots for connections
    Jobs,       \* the jobs, a subset of AllJobs
    NRows,      \* rows of a BulkInsert, and of a transaction at most
    Chunk,      \* maxChunkSize
    NoConn,     \* a user has no connection
    AnyCommit   \* transactions also on sessions that commit by themselves

AllJobs == {"exec", "zone", "tx", "bulk"}

ASSUME PoolAssumption ==
    /\ NoConn \notin Conns
    /\ Jobs \subseteq AllJobs
    /\ NRows \in Nat \ {0} /\ Chunk \in Nat \ {0}
    /\ AnyCommit \in BOOLEAN

VARIABLES
    tenant,     \* [oracle, autocommit] of the server, fixed
    pool,       \* per slot: "none", "free" or "used"
    sess,       \* per slot: the connection's fields and its server session
    pc,         \* per user: "idle", "get", "stmt", "tx" or "done"
    job,        \* its job
    at,         \* the slot of its connection, or NoConn
    tries,      \* calls of this statement that ended in ErrBadConn
    path,       \* BulkInsert: "native" or "rewrite"
    row,        \* rows already handed over (loop variable i)
    ctxDone,    \* its context is done
    told,       \* what the user was told
    count,      \* per item: how often the database committed it
    lost,       \* ghost: statements of the user that were done and not acknowledged
    acked       \* ghost: the items whose INSERT was acknowledged

vars == <<tenant, pool, sess, pc, job, at, tries, path, row, ctxDone, told, count, lost, acked>>

Rows == 1..NRows
Items == Users \X Rows

(***************************************************************************)
(* A connection and its session.                                           *)
(***************************************************************************)
\* The configured zone, another fixed offset, and one the driver cannot decode.
Zones == {"home", "away", "region"}
Unknown == "unknown"        \* sessionLocation = nil

Session == [bad : BOOLEAN, inTx : BOOLEAN, loc : Zones \cup {Unknown},
            zone : Zones, work : SUBSET Items]

\* dialAndHandshake ends with the configured zone at both ends.
Fresh == [bad |-> FALSE, inTx |-> FALSE, loc |-> "home", zone |-> "home", work |-> {}]

\* How a statement may end: the session after it, the error, what it committed and
\* whether it was done without the user learning of it.
End(s, err, done, unsaid) == [s |-> s, err |-> err, done |-> done, unsaid |-> unsaid]

BrokenStaysUsable(s) == [s EXCEPT !.work = {}]
\* The connection breaks: bad is set, the server drops the session and its work.
\* The error is ErrBadConn, or the context's if that has ended.
Broken(s) == [s EXCEPT !.bad = TRUE, !.work = {}]
Cut(s, errs, done) == {End(Broken(s), e, {}, FALSE) : e \in errs}
                      \cup {End(Broken(s), e, done, TRUE) : e \in errs}

\* checkUsableLocked.
Unusable(s) == {End(s, "bad", {}, FALSE)}

\* An INSERT of the items: at once committed, or added to the open work.
Insert(s, items) ==
    IF s.bad THEN Unusable(s)
    ELSE {IF tenant.autocommit THEN End(s, "ok", items, FALSE)
                               ELSE End([s EXCEPT !.work = @ \cup items], "ok", {}, FALSE)}
         \cup {End(s, "srv", {}, FALSE)}
         \cup Cut(s, {"bad", "ctx"}, IF tenant.autocommit THEN items ELSE {})

FinishClearsAlways(s, commit) ==
    IF s.bad THEN Unusable(s)
    ELSE {End([s EXCEPT !.work = {}, !.inTx = FALSE], "ok", IF commit THEN s.work ELSE {}, FALSE)}
         \cup {End([s EXCEPT !.inTx = FALSE], "srv", {}, FALSE)}
         \cup Cut(s, {"bad"}, IF commit THEN s.work ELSE {})
\* Tx.finish: inTx is cleared when the server has confirmed, and only then.
Finish(s, commit) ==
    IF s.bad THEN Unusable(s)
    ELSE {End([s EXCEPT !.work = {}, !.inTx = FALSE], "ok", IF commit THEN s.work ELSE {}, FALSE)}
         \cup {End(s, "srv", {}, FALSE)}
         \cup Cut(s, {"bad"}, IF commit THEN s.work ELSE {})

FollowKnownOnly(s, z) == IF z = "away" THEN [s EXCEPT !.loc = z] ELSE s
\* updateSessionTimeZoneFromQuery after the server accepted zone z: the location
\* follows, or the connection is retired.  MySQL tenants are left alone.
Follow(s, z) ==
    IF ~tenant.oracle THEN s
    ELSE IF z = "region" THEN [s EXCEPT !.loc = Unknown, !.bad = TRUE]
    ELSE [s EXCEPT !.loc = z]

\* ALTER SESSION SET TIME_ZONE in a statement of the user.
SetZone(s, z) ==
    IF s.bad THEN Unusable(s)
    ELSE LET t == Follow([s EXCEPT !.zone = z], z) IN
         {End(t, IF t.bad THEN "bad" ELSE "ok", {}, FALSE), End(s, "srv", {}, FALSE)}
         \cup Cut(s, {"bad", "ctx"}, {})

\* markSessionResetError.
MarkSessionResetError(s) == [s EXCEPT !.bad = TRUE]

\* One statement of ResetSession; a failure retires, also one the server reports.
\* The error that comes back always wraps ErrBadConn.
ResetStep(s, after) == {End(after, "ok", {}, FALSE), End(MarkSessionResetError(s), "bad", {}, FALSE),
                        End(MarkSessionResetError(Broken(s)), "bad", {}, FALSE)}

\* configureSessionTimeZone.
Reconfigure(s) == IF tenant.oracle THEN ResetStep(s, [s EXCEPT !.zone = "home", !.loc = "home"])
                  ELSE {End([s EXCEPT !.loc = "home"], "ok", {}, FALSE)}

ResetSessionZoneOnly(s) == IF s.bad THEN Unusable(s) ELSE Reconfigure(s)
\* ResetSession: rollback if a transaction is open, then the time zone.
ResetSession(s) ==
    IF s.bad THEN Unusable(s)
    ELSE UNION {IF e.err = "ok" THEN Reconfigure(e.s) ELSE {e} :
                e \in IF s.inTx THEN ResetStep(s, [s EXCEPT !.work = {}, !.inTx = FALSE])
                                ELSE {End(s, "ok", {}, FALSE)}}

\* IsValid.
IsValid(s) == ~s.bad

(***************************************************************************)
(* database/sql (external): the pool and the retries.                      *)
(***************************************************************************)
MaxBadConnRetries == 2

Init ==
    /\ tenant \in [oracle : BOOLEAN, autocommit : BOOLEAN]
    /\ pool = [k \in Conns |-> "none"]
    /\ sess = [k \in Conns |-> Fresh]
    /\ pc = [u \in Users |-> "idle"]
    /\ job = [u \in Users |-> "none"]
    /\ at = [u \in Users |-> NoConn]
    /\ tries = [u \in Users |-> 0]
    /\ path = [u \in Users |-> "native"]
    /\ row = [u \in Users |-> 0]
    /\ ctxDone = [u \in Users |-> FALSE]
    /\ told = [u \in Users |-> "nothing"]
    /\ count = [i \in Items |-> 0]
    /\ lost = [u \in Users |-> 0]
    /\ acked = {}

\* putConn: an error that is ErrBadConn, or IsValid, closes the connection.
Put(k, s, err) ==
    IF err = "bad" \/ ~IsValid(s)
    THEN pool' = [pool EXCEPT ![k] = "none"] /\ sess' = [sess EXCEPT ![k] = Fresh]
    ELSE pool' = [pool EXCEPT ![k] = "free"] /\ sess' = [sess EXCEPT ![k] = s]

Tell(u, what) == /\ told' = [told EXCEPT ![u] = what]
                 /\ pc' = [pc EXCEPT ![u] = "done"]

\* A user starts a job.  Work outside a transaction may be left behind by a session
\* that does not commit by itself; a transaction needs such a session (AnyCommit).
Begin(u) ==
    /\ pc[u] = "idle"
    /\ \E j \in Jobs :
          /\ j = "tx" => AnyCommit \/ ~tenant.autocommit
          /\ job' = [job EXCEPT ![u] = j]
    /\ pc' = [pc EXCEPT ![u] = "get"]
    /\ UNCHANGED <<tenant, pool, sess, at, tries, path, row, ctxDone, told, count, lost, acked>>

\* DB.conn on a free connection: it is reset, and closed if that fails.
GetFree(u) ==
    /\ pc[u] = "get" /\ ~ctxDone[u] /\ tries[u] < MaxBadConnRetries
    /\ \E k \in Conns : pool[k] = "free" /\ \E e \in ResetSession(sess[k]) :
          IF e.err = "bad"
          THEN /\ Put(k, e.s, e.err)
               /\ tries' = [tries EXCEPT ![u] = @ + 1]
               /\ UNCHANGED <<pc, at>>
          ELSE /\ pool' = [pool EXCEPT ![k] = "used"]
               /\ sess' = [sess EXCEPT ![k] = e.s]
               /\ at' = [at EXCEPT ![u] = k]
               /\ pc' = [pc EXCEPT ![u] = "stmt"]
               /\ UNCHANGED tries
    /\ UNCHANGED <<tenant, job, path, row, ctxDone, told, count, lost, acked>>

\* DB.conn opens a connection: none is free, or ErrBadConn came too often.
GetNew(u) ==
    /\ pc[u] = "get" /\ ~ctxDone[u]
    /\ tries[u] < MaxBadConnRetries => \A k \in Conns : pool[k] # "free"
    /\ \E k \in Conns : /\ pool[k] = "none"
                        /\ pool' = [pool EXCEPT ![k] = "used"]
                        /\ sess' = [sess EXCEPT ![k] = Fresh]
                        /\ at' = [at EXCEPT ![u] = k]
    /\ pc' = [pc EXCEPT ![u] = "stmt"]
    /\ UNCHANGED <<tenant, job, tries, path, row, ctxDone, told, count, lost, acked>>

\* No connection: the context is done, or dialling fails.  BulkInsert goes on to
\* its fallback.
GetFails(u) ==
    /\ pc[u] = "get"
    /\ IF job[u] = "bulk" /\ path[u] = "native"
       THEN /\ path' = [path EXCEPT ![u] = "rewrite"]
            /\ tries' = [tries EXCEPT ![u] = 0]
            /\ UNCHANGED <<pc, told>>
       ELSE Tell(u, "error") /\ UNCHANGED <<path, tries>>
    /\ UNCHANGED <<tenant, pool, sess, job, at, row, ctxDone, count, lost, acked>>

\* The bookkeeping of the end of a statement with these items.
Account(u, e, items) ==
    /\ acked' = IF e.err = "ok" THEN acked \cup items ELSE acked
    /\ count' = [i \in Items |-> IF i \in e.done THEN count[i] + 1 ELSE count[i]]
    /\ lost' = IF e.unsaid THEN [lost EXCEPT ![u] = @ + 1] ELSE lost
    /\ ctxDone' = IF e.err = "ctx" THEN [ctxDone EXCEPT ![u] = TRUE] ELSE ctxDone

\* DB.exec: the statement, the connection back to the pool, and again on another
\* one if the error was ErrBadConn.
PlainStmt(u, items, ends, next) ==
    LET k == at[u] IN
    \E e \in ends :
        /\ Account(u, e, items)
        /\ Put(k, e.s, e.err)
        /\ at' = [at EXCEPT ![u] = NoConn]
        /\ \/ e.err = "ok" /\ next
           \/ /\ e.err = "bad" /\ tries[u] < MaxBadConnRetries
              /\ tries' = [tries EXCEPT ![u] = @ + 1]
              /\ pc' = [pc EXCEPT ![u] = "get"]
              /\ UNCHANGED <<told, row>>
           \/ /\ e.err \in {"srv", "ctx"} \/ (e.err = "bad" /\ tries[u] = MaxBadConnRetries)
              /\ Tell(u, "error")
              /\ UNCHANGED <<tries, row>>

Succeeds(u) == Tell(u, "ok") /\ UNCHANGED <<tries, row>>

Exec(u) ==
    /\ pc[u] = "stmt" /\ job[u] = "exec"
    /\ LET items == {<<u, 1>>} IN PlainStmt(u, items, Insert(sess[at[u]], items), Succeeds(u))
    /\ UNCHANGED <<tenant, job, path>>

ExecZone(u) ==
    /\ pc[u] = "stmt" /\ job[u] = "zone"
    /\ \E z \in Zones : PlainStmt(u, {}, SetZone(sess[at[u]], z), Succeeds(u))
    /\ UNCHANGED <<tenant, job, path>>

(***************************************************************************)
(* Transactions.  database/sql does not repeat a statement of a Tx.        *)
(***************************************************************************)
\* BeginTx reserves the connection; nothing is sent.
BeginTx(u) ==
    /\ pc[u] = "stmt" /\ job[u] = "tx"
    /\ LET k == at[u] IN
       IF sess[k].inTx
       THEN Put(k, sess[k], "err") /\ at' = [at EXCEPT ![u] = NoConn] /\ Tell(u, "error")
       ELSE /\ sess' = [sess EXCEPT ![k].inTx = TRUE]
            /\ pc' = [pc EXCEPT ![u] = "tx"]
            /\ UNCHANGED <<pool, at, told>>
    /\ UNCHANGED <<tenant, job, tries, path, row, ctxDone, count, lost, acked>>

TxExec(u) ==
    /\ pc[u] = "tx" /\ row[u] < NRows /\ ~ctxDone[u]
    /\ LET items == {<<u, row[u] + 1>>} IN
       \E e \in Insert(sess[at[u]], items) :
          /\ Account(u, e, items)
          /\ sess' = [sess EXCEPT ![at[u]] = e.s]
    /\ row' = [row EXCEPT ![u] = @ + 1]
    /\ UNCHANGED <<tenant, pool, pc, job, at, tries, path, told>>

\* Commit or Rollback by the user, or the rollback by which database/sql ends a
\* transaction whose context is done; the connection goes back to the pool.
TxFinish(u, commit) ==
    /\ pc[u] = "tx"
    /\ commit => ~ctxDone[u]
    /\ \E e \in Finish(sess[at[u]], commit) :
          /\ Account(u, e, {})
          /\ Put(at[u], e.s, e.err)
          /\ Tell(u, CASE e.err = "ok" -> (IF commit THEN "committed" ELSE "rolledback")
                       [] e.err = "srv" -> "refused"
                       [] OTHER -> IF commit THEN "unknown" ELSE "rolledback")
    /\ at' = [at EXCEPT ![u] = NoConn]
    /\ UNCHANGED <<tenant, job, tries, path, row>>

(***************************************************************************)
(* BulkInsert.                                                             *)
(***************************************************************************)
FallsBackAfterChunk(u) == row' = [row EXCEPT ![u] = Chunk]
\* bulkInsertRewrite starts with the first row.
FallsBack(u) == row' = [row EXCEPT ![u] = 0]

\* tryNativeBulkInsert: one connection, Raw, prepare and bulk execution, not repeated.
\* Any error leads to the rewritten INSERT.
NativeBulk(u) ==
    /\ pc[u] = "stmt" /\ job[u] = "bulk" /\ path[u] = "native"
    /\ LET items == {u} \X Rows IN
       \E e \in Insert(sess[at[u]], items) :
          /\ Account(u, e, items)
          /\ Put(at[u], e.s, e.err)
          /\ IF e.err = "ok"
             THEN Tell(u, "ok") /\ UNCHANGED <<path, row, tries>>
             ELSE /\ path' = [path EXCEPT ![u] = "rewrite"]
                  /\ FallsBack(u)
                  /\ tries' = [tries EXCEPT ![u] = 0]
                  /\ pc' = [pc EXCEPT ![u] = "get"]
                  /\ UNCHANGED told
    /\ at' = [at EXCEPT ![u] = NoConn]
    /\ UNCHANGED <<tenant, job>>

ChunkEndOffByOne(i) == IF i + Chunk >= NRows THEN NRows ELSE i + Chunk - 1
ChunkEndOverlaps(i) == IF i + Chunk + 1 > NRows THEN NRows ELSE i + Chunk + 1
ChunkEndUncapped(i) == i + Chunk
\* The end of the chunk that starts after row i.
ChunkEnd(i) == IF i + Chunk > NRows THEN NRows ELSE i + Chunk

\* for i := 0; i < len(values); i += maxChunkSize
NextChunk(u) ==
    IF row[u] + Chunk >= NRows
    THEN Tell(u, "ok") /\ UNCHANGED <<row, tries>>
    ELSE /\ row' = [row EXCEPT ![u] = @ + Chunk]
         /\ tries' = [tries EXCEPT ![u] = 0]
         /\ pc' = [pc EXCEPT ![u] = "get"]
         /\ UNCHANGED told

RewriteBulk(u) ==
    /\ pc[u] = "stmt" /\ job[u] = "bulk" /\ path[u] = "rewrite"
    /\ LET items == {u} \X (row[u] + 1 .. ChunkEnd(row[u]))
       IN PlainStmt(u, items, Insert(sess[at[u]], items), NextChunk(u))
    /\ UNCHANGED <<tenant, job, path>>

Next == \E u \in Users :
    \/ Begin(u) \/ GetFree(u) \/ GetNew(u) \/ GetFails(u)
    \/ Exec(u) \/ ExecZone(u)
    \/ BeginTx(u) \/ TxExec(u) \/ TxFinish(u, TRUE) \/ TxFinish(u, FALSE)
    \/ NativeBulk(u) \/ RewriteBulk(u)

Spec == Init /\ [][Next]_vars

(***************************************************************************)
(* Properties.                                                             *)
(***************************************************************************)
\* Types; items stay inside the rows that were given to BulkInsert (values[i:end]).
TypeOK ==
    /\ tenant \in [oracle : BOOLEAN, autocommit : BOOLEAN]
    /\ pool \in [Conns -> {"none", "free", "used"}]
    /\ sess \in [Conns -> Session]
    /\ pc \in [Users -> {"idle", "get", "stmt", "tx", "done"}]
    /\ job \in [Users -> Jobs \cup {"none"}]
    /\ at \in [Users -> Conns \cup {NoConn}]
    /\ tries \in [Users -> 0..MaxBadConnRetries]
    /\ path \in [Users -> {"native", "rewrite"}]
    /\ row \in [Users -> 0..NRows]
    /\ ctxDone \in [Users -> BOOLEAN]
    /\ told \in [Users -> {"nothing", "ok", "error", "committed", "rolledback", "refused", "unknown"}]
    /\ count \in [Items -> Nat]
    /\ lost \in [Users -> Nat]
    /\ acked \subseteq Items

\* What an earlier user left in the session does not reach the next one: whoever gets
\* a connection finds no transaction open, no row of somebody's transaction pending,
\* and the configured time zone at both ends (ResetSession, also after a commit that
\* the server refused and after ALTER SESSION).
HandedOutClean ==
    \A u \in Users : pc[u] = "stmt" =>
        LET s == sess[at[u]] IN
        /\ ~s.bad /\ ~s.inTx
        /\ \A i \in s.work : job[i[1]] # "tx"
        /\ tenant.oracle => s.zone = "home" /\ s.loc = "home"

\* A connection that stays in use decodes local time stamps with the zone of its
\* session, whatever statements and resets came before (sessionLocation).
ZoneInStep ==
    tenant.oracle => \A k \in Conns :
        pool[k] # "none" /\ ~sess[k].bad => sess[k].loc = sess[k].zone

\* A transaction whose Rollback succeeded, or whose end the server refused, leaves no
\* row behind: not now, and not through whoever uses the connection next.
RolledBackIsUndone ==
    \A i \in Items : job[i[1]] = "tx" /\ told[i[1]] \in {"rolledback", "refused"} => count[i] = 0

\* What a user expects of a transaction: after Rollback nothing has changed
\* (README.md, "Transaction UPDATE + ROLLBACK, verify no change").
RollbackLeavesNoChange ==
    \A i \in Items : job[i[1]] = "tx" /\ told[i[1]] = "rolledback" => count[i] = 0

\* A transaction whose Commit succeeded has inserted each acknowledged row once and
\* nothing of a statement that failed.
CommittedIsWhole ==
    \A i \in Items : job[i[1]] = "tx" /\ told[i[1]] = "committed" =>
        count[i] = IF i \in acked THEN 1 ELSE 0

\* A row is inserted again only for a statement that the server did and the driver
\* reported as failed: retries after ErrBadConn and the fallback of BulkInsert add at
\* most one copy for each such statement.
TwiceOnlyIfLost == \A i \in Items : count[i] <= 1 + lost[i[1]]

\* On a session that commits by itself, success means that every row is in the
\* database: no chunk of the fallback is skipped.
SuccessMeansAll ==
    \A u \in Users : tenant.autocommit /\ told[u] = "ok" =>
        \A r \in Rows : (job[u] = "bulk" \/ (job[u] = "exec" /\ r = 1)) => count[<<u, r>>] >= 1
=============================================================================
