----------------------------- MODULE PoolProof -----------------------------
(* Proofs about sessions in a pool (module Pool). *)
EXTENDS Pool, TLAPS

(***************************************************************************)
(* The inductive invariant, in parts.                                      *)
(***************************************************************************)

\* A user has a connection while it runs a statement or a transaction; the pool
\* knows it as used, and no one else has it.
Owned ==
    /\ \A u \in Users : pc[u] \in {"stmt", "tx"} <=> at[u] \in Conns
    /\ \A u \in Users : at[u] \in Conns => pool[at[u]] = "used"
    /\ \A u, v \in Users : at[u] \in Conns /\ at[u] = at[v] => u = v

\* How far a user is, by its job.
Phase == \A u \in Users :
    /\ pc[u] = "tx" => job[u] = "tx"
    /\ pc[u] = "idle" <=> job[u] = "none"
    /\ pc[u] = "done" <=> told[u] # "nothing"
    /\ path[u] = "rewrite" => job[u] = "bulk"
    /\ path[u] = "native" /\ (job[u] = "tx" => pc[u] \in {"get", "stmt"}) => row[u] = 0

\* A closed slot is fresh, a broken session has lost its work, a free one is not
\* broken, and a session that commits by itself has no open work.
Sound == \A k \in Conns :
    /\ pool[k] = "none" => sess[k] = Fresh
    /\ pool[k] = "free" => ~sess[k].bad
    /\ sess[k].bad => sess[k].work = {}
    /\ tenant.oracle /\ ~sess[k].bad => sess[k].loc = sess[k].zone
    /\ tenant.autocommit => sess[k].work = {}

\* The connection of a transaction says so; open rows of a transaction are in a
\* session that says so, and which either its user holds or waits in the pool after
\* the server refused the end.
TxWork ==
    /\ \A u \in Users : pc[u] = "tx" => sess[at[u]].inTx
    /\ \A k \in Conns : \A i \in sess[k].work : job[i[1]] = "tx" =>
          /\ sess[k].inTx
          /\ \/ pc[i[1]] = "tx" /\ at[i[1]] = k
             \/ pool[k] = "free" /\ told[i[1]] = "refused"

\* An open row was acknowledged, is not in the database and is open only once.
OpenOnce == \A k \in Conns : \A i \in sess[k].work :
    /\ i \in acked /\ count[i] = 0
    /\ \A l \in Conns : i \in sess[l].work => l = k

\* Rows after row[u] are not yet acknowledged, and those of the fallback before it
\* are; success means that all are.
Progress == \A u \in Users, r \in Rows :
    /\ pc[u] # "done" /\ r > row[u] => <<u, r>> \notin acked
    /\ pc[u] # "done" /\ path[u] = "rewrite" /\ r <= row[u] => <<u, r>> \in acked
    /\ told[u] = "ok" /\ (job[u] = "bulk" \/ (job[u] = "exec" /\ r = 1)) => <<u, r>> \in acked

\* A session that commits by itself adds one copy for the acknowledgement and one for
\* each loss; one that does not adds one at most.
Counted == \A u \in Users, r \in Rows : LET i == <<u, r>> IN
    IF tenant.autocommit
    THEN /\ i \in acked => count[i] >= 1 /\ count[i] <= 1 + lost[u]
         /\ i \notin acked => count[i] <= lost[u]
    ELSE /\ i \in acked => count[i] <= 1
         /\ i \notin acked => count[i] = 0

\* The rows of a transaction: none before it starts, and as long as its connection is
\* sound exactly the acknowledged ones, which are open unless the session commits by
\* itself; none if it did not commit.
TxRows == \A u \in Users, r \in Rows : LET i == <<u, r>> IN
    /\ pc[u] \in {"idle", "get", "stmt"} /\ job[u] \in {"none", "tx"} => count[i] = 0
    /\ pc[u] = "tx" /\ ~sess[at[u]].bad =>
          IF i \notin acked THEN count[i] = 0
          ELSE IF tenant.autocommit THEN count[i] = 1 ELSE i \in sess[at[u]].work
    /\ ~tenant.autocommit /\ job[u] = "tx" /\ told[u] \notin {"committed", "unknown"} => count[i] = 0
    /\ job[u] = "tx" /\ told[u] = "committed" => count[i] = IF i \in acked THEN 1 ELSE 0

\* Transactions run where AnyCommit lets them.
TxSessions == \A u \in Users : job[u] = "tx" => AnyCommit \/ ~tenant.autocommit

PoolInv == /\ TypeOK /\ Owned /\ Phase /\ Sound /\ HandedOutClean /\ TxWork
           /\ OpenOnce /\ Progress /\ Counted /\ TxRows /\ TxSessions

(***************************************************************************)
(* How statements end.                                                     *)
(***************************************************************************)

\* An INSERT leaves the zone and inTx alone; it is done when it is acknowledged, or
\* when the connection breaks unheard on a session that commits by itself.
InsertEnd(s, items, e) ==
    /\ e.s \in Session /\ e.err \in {"ok", "srv", "bad", "ctx"} /\ e.unsaid \in BOOLEAN
    /\ e.s.loc = s.loc /\ e.s.zone = s.zone /\ e.s.inTx = s.inTx
    /\ e.s.bad => e.s.work = {}
    /\ s.bad => e.s.bad
    /\ e.err = "ok" => /\ ~e.s.bad /\ ~e.unsaid
                       /\ tenant.autocommit => e.done = items /\ e.s.work = s.work
                       /\ ~tenant.autocommit => e.done = {} /\ e.s.work = s.work \cup items
    /\ e.err # "ok" => /\ e.done # {} => tenant.autocommit /\ e.unsaid /\ e.done = items /\ e.s.bad
                       /\ ~e.s.bad => e.s.work = s.work

\* A broken session.
LEMMA BrokenSession ==
    ASSUME NEW s \in Session
    PROVE  /\ Broken(s) \in Session /\ Broken(s).bad /\ Broken(s).work = {}
           /\ Broken(s).loc = s.loc /\ Broken(s).zone = s.zone /\ Broken(s).inTx = s.inTx
BY DEF Broken, Session

\* A cut statement breaks the session, and is done only unheard.
LEMMA CutEnd ==
    ASSUME NEW s \in Session, NEW errs, NEW done, NEW e \in Cut(s, errs, done)
    PROVE  /\ e.s = Broken(s) /\ e.err \in errs /\ e.unsaid \in BOOLEAN
           /\ e.done # {} => e.unsaid /\ e.done = done
<1>1. PICK x \in errs : e = End(Broken(s), x, {}, FALSE) \/ e = End(Broken(s), x, done, TRUE)
  BY DEF Cut
<1>2. CASE e = End(Broken(s), x, {}, FALSE)
  BY <1>1, <1>2 DEF End
<1>3. CASE e = End(Broken(s), x, done, TRUE)
  BY <1>1, <1>3 DEF End
<1>4. QED BY <1>1, <1>2, <1>3

\* Every end of an INSERT is one of those.
LEMMA InsertEnds ==
    ASSUME NEW s \in Session, NEW items \in SUBSET Items, s.bad => s.work = {},
           NEW e \in Insert(s, items)
    PROVE  InsertEnd(s, items, e)
<1>1. CASE s.bad
  <2>1. e = End(s, "bad", {}, FALSE)
    BY <1>1 DEF Insert, Unusable
  <2>2. QED BY <1>1, <2>1 DEF InsertEnd, End
<1>2. CASE ~s.bad
  <2>1. CASE tenant.autocommit /\ e = End(s, "ok", items, FALSE)
    BY <1>2, <2>1 DEF InsertEnd, End
  <2>2. CASE ~tenant.autocommit /\ e = End([s EXCEPT !.work = @ \cup items], "ok", {}, FALSE)
    <3>1. [s EXCEPT !.work = @ \cup items] \in Session
      BY DEF Session
    <3>2. QED BY <1>2, <2>2, <3>1 DEF InsertEnd, End, Session
  <2>3. CASE e = End(s, "srv", {}, FALSE)
    BY <1>2, <2>3 DEF InsertEnd, End
  <2>4. CASE e \in Cut(s, {"bad", "ctx"}, IF tenant.autocommit THEN items ELSE {})
    <3>1. e.s = Broken(s) /\ e.err \in {"bad", "ctx"} /\ e.unsaid \in BOOLEAN
      BY <2>4, CutEnd
    <3>2. e.done # {} => e.unsaid /\ e.done = IF tenant.autocommit THEN items ELSE {}
      BY <2>4, CutEnd
    <3>3. QED BY <3>1, <3>2, BrokenSession DEF InsertEnd
  <2>5. QED BY <1>2, <2>1, <2>2, <2>3, <2>4 DEF Insert
<1>3. QED BY <1>1, <1>2

\* A COMMIT or ROLLBACK: confirmed, refused with the session as it was, or cut.
FinishEnd(s, commit, e) ==
    /\ e.s \in Session /\ e.err \in {"ok", "srv", "bad"} /\ e.unsaid \in BOOLEAN
    /\ e.s.loc = s.loc /\ e.s.zone = s.zone
    /\ e.s.bad => e.s.work = {}
    /\ e.err = "ok" => ~s.bad /\ e.s.work = {} /\ e.done = IF commit THEN s.work ELSE {}
    /\ e.err = "srv" => e.s = s /\ ~s.bad /\ e.done = {}
    /\ e.err = "bad" => e.s.bad /\ (e.done # {} => commit /\ e.done = s.work)

LEMMA FinishEnds ==
    ASSUME NEW s \in Session, NEW commit \in BOOLEAN, s.bad => s.work = {},
           NEW e \in Finish(s, commit)
    PROVE  FinishEnd(s, commit, e)
<1>1. CASE s.bad
  <2>1. e = End(s, "bad", {}, FALSE)
    BY <1>1 DEF Finish, Unusable
  <2>2. QED BY <1>1, <2>1 DEF FinishEnd, End
<1>2. CASE ~s.bad
  <2>1. CASE e = End([s EXCEPT !.work = {}, !.inTx = FALSE], "ok", IF commit THEN s.work ELSE {}, FALSE)
    <3>1. [s EXCEPT !.work = {}, !.inTx = FALSE] \in Session
      BY DEF Session
    <3>2. QED BY <1>2, <2>1, <3>1 DEF FinishEnd, End, Session
  <2>2. CASE e = End(s, "srv", {}, FALSE)
    BY <1>2, <2>2 DEF FinishEnd, End
  <2>3. CASE e \in Cut(s, {"bad"}, IF commit THEN s.work ELSE {})
    <3>1. e.s = Broken(s) /\ e.err = "bad" /\ e.unsaid \in BOOLEAN
      BY <2>3, CutEnd
    <3>2. e.done # {} => e.unsaid /\ e.done = IF commit THEN s.work ELSE {}
      BY <2>3, CutEnd
    <3>3. QED BY <3>1, <3>2, BrokenSession DEF FinishEnd
  <2>4. QED BY <1>2, <2>1, <2>2, <2>3 DEF Finish
<1>3. QED BY <1>1, <1>2

\* A change of zone commits nothing; unless the connection is retired, both ends
\* have moved or neither.
ZoneEnd(s, e) ==
    /\ e.s \in Session /\ e.err \in {"ok", "srv", "bad", "ctx"} /\ e.unsaid \in BOOLEAN
    /\ e.done = {} /\ e.s.inTx = s.inTx /\ (e.err = "ok" => ~e.unsaid)
    /\ ~e.s.bad => e.s.work = s.work
    /\ tenant.oracle /\ ~e.s.bad /\ s.loc = s.zone => e.s.loc = e.s.zone

LEMMA ZoneEnds ==
    ASSUME NEW s \in Session, NEW z \in Zones, ~s.bad, NEW e \in SetZone(s, z)
    PROVE  ZoneEnd(s, e)
<1> DEFINE t == Follow([s EXCEPT !.zone = z], z)
<1>1. CASE e = End(t, IF t.bad THEN "bad" ELSE "ok", {}, FALSE)
  <2>1. /\ t \in Session /\ t.inTx = s.inTx /\ t.work = s.work /\ t.zone = z
        /\ tenant.oracle /\ ~t.bad => t.loc = z
    BY DEF Follow, Session, Zones, Unknown
  <2> HIDE DEF t
  <2>2. e.s = t /\ e.err \in {"bad", "ok"} /\ e.done = {} /\ e.unsaid = FALSE
    BY <1>1 DEF End
  <2>3. QED BY <2>1, <2>2 DEF ZoneEnd
<1>2. CASE e = End(s, "srv", {}, FALSE)
  BY <1>2 DEF ZoneEnd, End
<1>3. CASE e \in Cut(s, {"bad", "ctx"}, {})
  <2>1. e.s = Broken(s) /\ e.err \in {"bad", "ctx"} /\ e.unsaid \in BOOLEAN /\ e.done = {}
    BY <1>3, CutEnd
  <2>2. QED BY <2>1, BrokenSession DEF ZoneEnd
<1>4. QED BY <1>1, <1>2, <1>3 DEF SetZone

\* A reset that succeeds leaves no transaction open, its work rolled back, and the
\* configured zone at both ends of an Oracle session.
ResetEnd(s, e) ==
    /\ e.s \in Session /\ e.err \in {"ok", "bad"}
    /\ e.err = "ok" => /\ ~e.s.bad /\ ~e.s.inTx
                       /\ e.s.work = IF s.inTx THEN {} ELSE s.work
                       /\ tenant.oracle => e.s.zone = "home" /\ e.s.loc = "home"

LEMMA ResetStepEnds ==
    ASSUME NEW s \in Session, NEW after \in Session, NEW e \in ResetStep(s, after)
    PROVE  e.s \in Session /\ ((e.err = "ok" /\ e.s = after) \/ e.err = "bad")
<1> DEFINE b == Broken(s)
<1>1. b \in Session
  BY BrokenSession
<1> HIDE DEF b
<1>2. \A x \in Session : MarkSessionResetError(x) \in Session
  BY DEF MarkSessionResetError, Session
<1>3. QED BY <1>1, <1>2 DEF ResetStep, End, b

LEMMA ReconfigureEnds ==
    ASSUME NEW s \in Session, ~s.bad, ~s.inTx, NEW e \in Reconfigure(s)
    PROVE  ResetEnd(s, e)
<1>1. CASE tenant.oracle
  <2> DEFINE t == [s EXCEPT !.zone = "home", !.loc = "home"]
  <2>1. t \in Session /\ ~t.bad /\ ~t.inTx /\ t.work = s.work /\ t.zone = "home" /\ t.loc = "home"
    BY DEF Session, Zones
  <2>2. e \in ResetStep(s, t)
    BY <1>1 DEF Reconfigure
  <2> HIDE DEF t
  <2>3. e.s \in Session /\ ((e.err = "ok" /\ e.s = t) \/ e.err = "bad")
    BY <2>1, <2>2, ResetStepEnds
  <2>4. QED BY <2>1, <2>3 DEF ResetEnd
<1>2. CASE ~tenant.oracle
  <2> DEFINE t == [s EXCEPT !.loc = "home"]
  <2>1. t \in Session /\ ~t.bad /\ ~t.inTx /\ t.work = s.work
    BY DEF Session, Zones
  <2>2. e = End(t, "ok", {}, FALSE)
    BY <1>2 DEF Reconfigure
  <2> HIDE DEF t
  <2>3. QED BY <1>2, <2>1, <2>2 DEF ResetEnd, End
<1>3. QED BY <1>1, <1>2

LEMMA ResetSessionEnds ==
    ASSUME NEW s \in Session, NEW e \in ResetSession(s)
    PROVE  ResetEnd(s, e)
<1>1. CASE s.bad
  BY <1>1 DEF ResetSession, Unusable, End, ResetEnd
<1>2. CASE ~s.bad /\ s.inTx
  <2> DEFINE t == [s EXCEPT !.work = {}, !.inTx = FALSE]
  <2>1. t \in Session /\ ~t.bad /\ ~t.inTx /\ t.work = {}
    BY <1>2 DEF Session
  <2>2. PICK d \in ResetStep(s, t) : e \in IF d.err = "ok" THEN Reconfigure(d.s) ELSE {d}
    BY <1>2 DEF ResetSession
  <2> HIDE DEF t
  <2>3. d.s \in Session /\ ((d.err = "ok" /\ d.s = t) \/ d.err = "bad")
    BY <2>1, <2>2, ResetStepEnds
  <2>4. CASE d.err = "ok"
    <3>1. e \in Reconfigure(t)
      BY <2>2, <2>3, <2>4
    <3>2. ResetEnd(t, e)
      BY <2>1, <3>1, ReconfigureEnds
    <3>3. QED BY <1>2, <2>1, <3>2 DEF ResetEnd
  <2>5. CASE d.err = "bad"
    BY <2>2, <2>3, <2>5 DEF ResetEnd
  <2>6. QED BY <2>3, <2>4, <2>5
<1>3. CASE ~s.bad /\ ~s.inTx
  <2>1. e \in Reconfigure(s)
    BY <1>3 DEF ResetSession, End
  <2>2. QED BY <1>3, <2>1, ReconfigureEnds
<1>4. QED BY <1>1, <1>2, <1>3

(***************************************************************************)
(* Facts that the steps share.                                             *)
(***************************************************************************)

\* An item is a user and a row.
LEMMA ItemParts ==
    /\ \A i \in Items : i[1] \in Users /\ i[2] \in Rows /\ i = <<i[1], i[2]>>
    /\ \A u \in Users, r \in Rows : <<u, r>> \in Items /\ <<u, r>>[1] = u
BY DEF Items

\* A fresh session is one.
LEMMA FreshSession == Fresh \in Session /\ ~Fresh.bad /\ ~Fresh.inTx /\ Fresh.work = {}
                      /\ Fresh.zone = "home" /\ Fresh.loc = "home"
BY DEF Fresh, Session, Zones

\* A connection that is put back is closed or free.
LEMMA PutCases ==
    ASSUME TypeOK, NEW k \in Conns, NEW s \in Session, NEW err, Put(k, s, err)
    PROVE  /\ pool' \in [Conns -> {"none", "free", "used"}] /\ sess' \in [Conns -> Session]
           /\ \A l \in Conns : l # k => pool'[l] = pool[l] /\ sess'[l] = sess[l]
           /\ \/ pool'[k] = "none" /\ sess'[k] = Fresh
              \/ pool'[k] = "free" /\ sess'[k] = s /\ ~s.bad /\ err # "bad"
BY FreshSession DEF Put, IsValid, TypeOK

\* The bookkeeping, item by item.
LEMMA AccountCases ==
    ASSUME TypeOK, NEW u \in Users, NEW e, NEW items \in SUBSET Items, e.unsaid \in BOOLEAN,
           Account(u, e, items)
    PROVE  /\ count' \in [Items -> Nat] /\ lost' \in [Users -> Nat]
           /\ ctxDone' \in [Users -> BOOLEAN] /\ acked' \subseteq Items
           /\ e.err = "ok" => acked' = acked \cup items
           /\ e.err # "ok" => acked' = acked
           /\ \A i \in Items : /\ i \in e.done => count'[i] = count[i] + 1
                               /\ i \notin e.done => count'[i] = count[i]
           /\ \A v \in Users : v # u => lost'[v] = lost[v]
           /\ e.unsaid => lost'[u] = lost[u] + 1
           /\ ~e.unsaid => lost'[u] = lost[u]
<1>1. count' \in [Items -> Nat]
  BY DEF Account, TypeOK
<1>2. lost' \in [Users -> Nat]
  BY DEF Account, TypeOK
<1>3. ctxDone' \in [Users -> BOOLEAN] /\ acked' \subseteq Items
  BY DEF Account, TypeOK
<1>4. \A i \in Items : /\ i \in e.done => count'[i] = count[i] + 1
                       /\ i \notin e.done => count'[i] = count[i]
  BY DEF Account
<1>5. /\ \A v \in Users : v # u => lost'[v] = lost[v]
      /\ e.unsaid => lost'[u] = lost[u] + 1
      /\ ~e.unsaid => lost'[u] = lost[u]
  BY DEF Account, TypeOK
<1>6. (e.err = "ok" => acked' = acked \cup items) /\ (e.err # "ok" => acked' = acked)
  BY DEF Account
<1>7. QED BY <1>1, <1>2, <1>3, <1>4, <1>5, <1>6

(***************************************************************************)
(* A statement outside a transaction.                                      *)
(***************************************************************************)

\* An INSERT or a change of zone, as far as the pool is concerned.
StmtEnd(s, items, e) ==
    /\ e.s \in Session /\ e.err \in {"ok", "srv", "bad", "ctx"} /\ e.unsaid \in BOOLEAN
    /\ e.s.inTx = s.inTx
    /\ tenant.oracle /\ ~e.s.bad => e.s.loc = e.s.zone
    /\ e.err = "ok" => /\ ~e.unsaid
                       /\ tenant.autocommit => e.done = items
                       /\ ~tenant.autocommit => e.done = {}
    /\ e.err # "ok" /\ e.done # {} => tenant.autocommit /\ e.unsaid /\ e.done = items
    /\ ~e.s.bad => e.s.work = IF e.err = "ok" /\ ~tenant.autocommit
                              THEN s.work \cup items ELSE s.work

\* A user ran a statement with these items and gave its connection back.
Returned(u, e, items) ==
    /\ pc[u] = "stmt" /\ job[u] # "tx"
    /\ items \subseteq Items /\ \A i \in items : i[1] = u /\ i \notin acked
    /\ StmtEnd(sess[at[u]], items, e)
    /\ Account(u, e, items)
    /\ Put(at[u], e.s, e.err)
    /\ at' = [at EXCEPT ![u] = NoConn]
    /\ \E p \in {"get", "done"} : pc' = [pc EXCEPT ![u] = p]
    /\ \E t \in {"nothing", "ok", "error"} : told' = [told EXCEPT ![u] = t]
    /\ UNCHANGED <<tenant, job>>

\* What happens to the sessions then.
LEMMA ReturnedSessions ==
    ASSUME PoolInv, NEW u \in Users, NEW e, NEW items, Returned(u, e, items)
    PROVE  Owned' /\ Sound' /\ HandedOutClean' /\ TxWork' /\ TxSessions'
<1> DEFINE k == at[u]
<1> DEFINE s == sess[k]
<1> USE PoolAssumption
<1>1. /\ k \in Conns /\ pool[k] = "used" /\ s \in Session /\ ~s.bad /\ ~s.inTx
      /\ \A i \in s.work : job[i[1]] # "tx"
      /\ \A v \in Users : at[v] = k => v = u
  BY DEF PoolInv, TypeOK, Owned, Returned, HandedOutClean
<1>2. /\ pool' \in [Conns -> {"none", "free", "used"}] /\ sess' \in [Conns -> Session]
      /\ \A l \in Conns : l # k => pool'[l] = pool[l] /\ sess'[l] = sess[l]
      /\ \/ pool'[k] = "none" /\ sess'[k] = Fresh
         \/ pool'[k] = "free" /\ sess'[k] = e.s /\ ~e.s.bad
  BY <1>1, PutCases DEF Returned, StmtEnd, PoolInv
<1>3. PICK p \in {"get", "done"} : pc' = [pc EXCEPT ![u] = p]
  BY DEF Returned
<1>4. PICK t \in {"nothing", "ok", "error"} : told' = [told EXCEPT ![u] = t]
  BY DEF Returned
<1>5. /\ at' = [at EXCEPT ![u] = NoConn] /\ job' = job /\ tenant' = tenant
      /\ pc[u] = "stmt" /\ job[u] # "tx" /\ StmtEnd(s, items, e)
      /\ \A i \in items : i[1] = u
  BY DEF Returned
<1>6. /\ at'[u] = NoConn /\ pc'[u] = p
      /\ \A v \in Users : v # u => at'[v] = at[v] /\ pc'[v] = pc[v] /\ told'[v] = told[v]
  BY <1>3, <1>4, <1>5 DEF PoolInv, TypeOK
<1>7. ~e.s.bad => e.s.work \subseteq s.work \cup items /\ (tenant.autocommit => e.s.work = s.work)
  BY <1>5 DEF StmtEnd
<1> HIDE DEF k, s
<1>8. Owned'
  <2>1. \A v \in Users : pc'[v] \in {"stmt", "tx"} <=> at'[v] \in Conns
    BY <1>3, <1>6 DEF PoolInv, Owned
  <2>2. \A v \in Users : at'[v] \in Conns => pool'[at'[v]] = "used"
    BY <1>1, <1>2, <1>6 DEF PoolInv, Owned
  <2>3. \A v, w \in Users : at'[v] \in Conns /\ at'[v] = at'[w] => v = w
    BY <1>6 DEF PoolInv, Owned
  <2>4. QED BY <2>1, <2>2, <2>3 DEF Owned
<1>9. Sound'
  <2>1. ASSUME NEW l \in Conns, l # k PROVE sess'[l] = sess[l] /\ pool'[l] = pool[l]
    BY <1>2, <2>1
  <2>2. CASE pool'[k] = "none" /\ sess'[k] = Fresh
    BY <1>5, <2>1, <2>2, FreshSession DEF PoolInv, Sound
  <2>3. CASE pool'[k] = "free" /\ sess'[k] = e.s /\ ~e.s.bad
    BY <1>1, <1>5, <1>7, <2>1, <2>3 DEF PoolInv, Sound, StmtEnd, s
  <2>4. QED BY <1>2, <2>2, <2>3
<1>10. HandedOutClean'
  BY <1>1, <1>2, <1>3, <1>5, <1>6 DEF PoolInv, HandedOutClean, Owned
<1>11. TxWork'
  <2>1. \A v \in Users : pc'[v] = "tx" => sess'[at'[v]].inTx
    BY <1>1, <1>2, <1>3, <1>6 DEF PoolInv, TxWork, Owned
  <2>2. ASSUME NEW l \in Conns, NEW i \in sess'[l].work, job'[i[1]] = "tx"
        PROVE  /\ sess'[l].inTx
               /\ \/ pc'[i[1]] = "tx" /\ at'[i[1]] = l
                  \/ pool'[l] = "free" /\ told'[i[1]] = "refused"
    <3>1. CASE l # k
      <4>1. sess'[l] = sess[l] /\ pool'[l] = pool[l]
        BY <1>2, <3>1
      <4>2. i[1] # u /\ i[1] \in Users
        BY <1>2, <1>5, <2>2, ItemParts DEF Session
      <4>3. QED BY <1>5, <1>6, <2>2, <4>1, <4>2 DEF PoolInv, TxWork
    <3>2. CASE l = k
      <4>1. sess'[k] = e.s /\ ~e.s.bad
        BY <1>2, <2>2, <3>2, FreshSession
      <4>2. i \in s.work \cup items
        BY <1>7, <2>2, <3>2, <4>1
      <4>3. QED BY <1>1, <1>5, <2>2, <4>2
    <3>3. QED BY <3>1, <3>2
  <2>3. QED BY <2>1, <2>2 DEF TxWork
<1>12. TxSessions'
  BY <1>5 DEF PoolInv, TxSessions
<1>13. QED BY <1>8, <1>9, <1>10, <1>11, <1>12

\* What happens to the rows then.
LEMMA ReturnedRows ==
    ASSUME PoolInv, NEW u \in Users, NEW e, NEW items, Returned(u, e, items)
    PROVE  OpenOnce' /\ Counted' /\ TxRows'
<1> DEFINE k == at[u]
<1> DEFINE s == sess[k]
<1> USE PoolAssumption
<1>1. k \in Conns /\ s \in Session /\ \A v \in Users : at[v] = k => v = u
  BY DEF PoolInv, TypeOK, Owned, Returned
<1>2. /\ sess' \in [Conns -> Session]
      /\ \A l \in Conns : l # k => sess'[l] = sess[l]
      /\ sess'[k] = Fresh \/ (sess'[k] = e.s /\ ~e.s.bad)
  BY <1>1, PutCases DEF Returned, StmtEnd, PoolInv
<1>3. PICK p \in {"get", "done"} : pc' = [pc EXCEPT ![u] = p]
  BY DEF Returned
<1>4. PICK t \in {"nothing", "ok", "error"} : told' = [told EXCEPT ![u] = t]
  BY DEF Returned
<1>5. /\ at' = [at EXCEPT ![u] = NoConn] /\ job' = job /\ tenant' = tenant
      /\ pc[u] = "stmt" /\ job[u] \notin {"tx", "none"} /\ StmtEnd(s, items, e)
      /\ items \in SUBSET Items /\ \A i \in items : i[1] = u /\ i \notin acked
  BY DEF Returned, PoolInv, Phase
<1>6. \A v \in Users : v # u => at'[v] = at[v] /\ pc'[v] = pc[v] /\ told'[v] = told[v]
  BY <1>3, <1>4, <1>5 DEF PoolInv, TypeOK
<1>7. /\ count' \in [Items -> Nat] /\ lost' \in [Users -> Nat] /\ acked' \subseteq Items
      /\ e.err = "ok" => acked' = acked \cup items
      /\ e.err # "ok" => acked' = acked
      /\ \A i \in Items : /\ i \in e.done => count'[i] = count[i] + 1
                          /\ i \notin e.done => count'[i] = count[i]
      /\ \A v \in Users : v # u => lost'[v] = lost[v]
      /\ e.unsaid => lost'[u] = lost[u] + 1
      /\ ~e.unsaid => lost'[u] = lost[u]
  BY <1>5, AccountCases DEF Returned, StmtEnd, PoolInv
\* Only the statement's own items move.
<1>8. \A v \in Users, r \in Rows : v # u =>
         /\ count'[<<v, r>>] = count[<<v, r>>]
         /\ <<v, r>> \in acked' <=> <<v, r>> \in acked
  <2>1. e.done = {} \/ e.done = items
    BY <1>5 DEF StmtEnd
  <2>2. QED BY <1>5, <1>7, <2>1, ItemParts
<1>9. ~tenant.autocommit => e.done = {}
  BY <1>5 DEF StmtEnd
<1> HIDE DEF k, s
<1>10. OpenOnce'
  <2> SUFFICES ASSUME NEW l \in Conns, NEW i \in sess'[l].work
               PROVE  /\ i \in acked' /\ count'[i] = 0
                      /\ \A m \in Conns : i \in sess'[m].work => m = l
    BY DEF OpenOnce
  <2>1. \A m \in Conns : sess'[m].work # {} => ~tenant.autocommit
    <3>1. sess'[k].work \subseteq s.work \/ ~tenant.autocommit
      BY <1>2, <1>5, FreshSession DEF StmtEnd
    <3>2. QED BY <1>1, <1>2, <3>1 DEF PoolInv, Sound, s
  <2>2. ~tenant.autocommit /\ i \in Items
    BY <1>2, <2>1 DEF Session
  <2>3. \A m \in Conns : i \in sess'[m].work => i \in sess[m].work \/ (m = k /\ i \in items /\ e.err = "ok")
    BY <1>2, <1>5, FreshSession DEF StmtEnd, s
  <2>4. count'[i] = count[i]
    BY <1>7, <1>9, <2>2
  <2>5. CASE i \in items /\ e.err = "ok"
    <3>1. i \notin acked /\ i \in acked'
      BY <1>5, <1>7, <2>5
    <3>2. \A m \in Conns : i \notin sess[m].work
      BY <3>1 DEF PoolInv, OpenOnce
    <3>3. count[i] = 0
      BY <2>2, <3>1, ItemParts DEF PoolInv, Counted
    <3>4. QED BY <2>3, <2>4, <3>1, <3>2, <3>3
  <2>6. CASE ~(i \in items /\ e.err = "ok")
    <3>1. i \in sess[l].work
      BY <2>3, <2>6
    <3>2. QED BY <1>7, <2>3, <2>4, <2>6, <3>1 DEF PoolInv, OpenOnce
  <2>7. QED BY <2>5, <2>6
<1>11. Counted'
  <2> SUFFICES ASSUME NEW v \in Users, NEW r \in Rows
               PROVE  LET i == <<v, r>> IN
                      IF tenant.autocommit
                      THEN /\ i \in acked' => count'[i] >= 1 /\ count'[i] <= 1 + lost'[v]
                           /\ i \notin acked' => count'[i] <= lost'[v]
                      ELSE /\ i \in acked' => count'[i] <= 1
                           /\ i \notin acked' => count'[i] = 0
    BY <1>5 DEF Counted
  <2>0. <<v, r>> \in Items /\ count[<<v, r>>] \in Nat /\ lost[v] \in Nat
    BY ItemParts DEF PoolInv, TypeOK
  <2>1. CASE v # u
    BY <1>7, <1>8, <2>1 DEF PoolInv, Counted
  <2>2. CASE v = u /\ tenant.autocommit
    BY <1>5, <1>7, <2>0, <2>2 DEF PoolInv, Counted, StmtEnd
  <2>3. CASE v = u /\ ~tenant.autocommit
    BY <1>7, <1>9, <2>0, <2>3 DEF PoolInv, Counted
  <2>4. QED BY <2>1, <2>2, <2>3
<1>12. TxRows'
  <2> SUFFICES ASSUME NEW v \in Users, NEW r \in Rows, v # u
               PROVE  LET i == <<v, r>> IN
                      /\ pc'[v] \in {"idle", "get", "stmt"} /\ job[v] \in {"none", "tx"} => count'[i] = 0
                      /\ pc'[v] = "tx" /\ ~sess'[at'[v]].bad =>
                            IF i \notin acked' THEN count'[i] = 0
                            ELSE IF tenant.autocommit THEN count'[i] = 1 ELSE i \in sess'[at'[v]].work
                      /\ ~tenant.autocommit /\ job[v] = "tx" /\ told'[v] \notin {"committed", "unknown"}
                            => count'[i] = 0
                      /\ job[v] = "tx" /\ told'[v] = "committed" => count'[i] = IF i \in acked' THEN 1 ELSE 0
    <3>1. pc'[u] = p /\ job'[u] = job[u]
      BY <1>3, <1>5 DEF PoolInv, TypeOK
    <3>2. QED BY <1>3, <1>5, <3>1 DEF TxRows
  <2>1. pc[v] = "tx" => sess'[at[v]] = sess[at[v]]
    BY <1>1, <1>2 DEF PoolInv, Owned
  <2>2. QED BY <1>6, <1>8, <2>1 DEF PoolInv, TxRows
<1>13. QED BY <1>10, <1>11, <1>12

\* Types then, and the rows of other users.
LEMMA ReturnedTypes ==
    ASSUME PoolInv, NEW u \in Users, NEW e, NEW items, Returned(u, e, items)
    PROVE  /\ tenant' \in [oracle : BOOLEAN, autocommit : BOOLEAN]
           /\ pool' \in [Conns -> {"none", "free", "used"}] /\ sess' \in [Conns -> Session]
           /\ pc' \in [Users -> {"idle", "get", "stmt", "tx", "done"}]
           /\ job' \in [Users -> Jobs \cup {"none"}]
           /\ at' \in [Users -> Conns \cup {NoConn}]
           /\ ctxDone' \in [Users -> BOOLEAN]
           /\ told' \in [Users -> {"nothing", "ok", "error", "committed", "rolledback", "refused", "unknown"}]
           /\ count' \in [Items -> Nat] /\ lost' \in [Users -> Nat] /\ acked' \subseteq Items
           /\ e.err = "ok" => acked' = acked \cup items
           /\ e.err # "ok" => acked' = acked
           /\ \A v \in Users, r \in Rows : v # u => (<<v, r>> \in acked' <=> <<v, r>> \in acked)
<1>1. at[u] \in Conns /\ e.s \in Session /\ e.unsaid \in BOOLEAN /\ items \in SUBSET Items
  BY DEF PoolInv, Owned, Returned, StmtEnd
<1>2. pool' \in [Conns -> {"none", "free", "used"}] /\ sess' \in [Conns -> Session]
  BY <1>1, PutCases DEF PoolInv, Returned
<1>3. /\ ctxDone' \in [Users -> BOOLEAN]
      /\ count' \in [Items -> Nat] /\ lost' \in [Users -> Nat] /\ acked' \subseteq Items
      /\ e.err = "ok" => acked' = acked \cup items
      /\ e.err # "ok" => acked' = acked
  BY <1>1, AccountCases DEF PoolInv, Returned
<1>4. pc' \in [Users -> {"idle", "get", "stmt", "tx", "done"}]
  BY DEF PoolInv, Returned, TypeOK
<1>5. told' \in [Users -> {"nothing", "ok", "error", "committed", "rolledback", "refused", "unknown"}]
  BY DEF PoolInv, Returned, TypeOK
<1>6. /\ at' \in [Users -> Conns \cup {NoConn}] /\ job' \in [Users -> Jobs \cup {"none"}]
      /\ tenant' \in [oracle : BOOLEAN, autocommit : BOOLEAN]
  BY DEF PoolInv, Returned, TypeOK
<1>7. \A v \in Users, r \in Rows : v # u => (<<v, r>> \in acked' <=> <<v, r>> \in acked)
  BY <1>3, ItemParts DEF Returned
<1>8. QED BY <1>2, <1>3, <1>4, <1>5, <1>6, <1>7

\* An INSERT and a change of zone, on the connection of a user that runs a statement.
LEMMA StmtEnds ==
    ASSUME PoolInv, NEW u \in Users, pc[u] = "stmt"
    PROVE  /\ \A items \in SUBSET Items : \A e \in Insert(sess[at[u]], items) :
                 StmtEnd(sess[at[u]], items, e)
           /\ \A z \in Zones : \A e \in SetZone(sess[at[u]], z) : StmtEnd(sess[at[u]], {}, e)
<1> DEFINE s == sess[at[u]]
<1>1. s \in Session /\ ~s.bad /\ (tenant.oracle => s.loc = s.zone)
  BY DEF PoolInv, TypeOK, Owned, HandedOutClean
<1> HIDE DEF s
<1>2. ASSUME NEW items \in SUBSET Items, NEW e \in Insert(s, items)
      PROVE  StmtEnd(s, items, e)
  <2>1. InsertEnd(s, items, e)
    BY <1>1, InsertEnds
  <2>2. QED BY <1>1, <2>1 DEF InsertEnd, StmtEnd
<1>3. ASSUME NEW z \in Zones, NEW e \in SetZone(s, z) PROVE StmtEnd(s, {}, e)
  <2>1. ZoneEnd(s, e)
    BY <1>1, ZoneEnds
  <2>2. QED BY <1>1, <2>1 DEF ZoneEnd, StmtEnd
<1>4. QED BY <1>2, <1>3 DEF s

\* A statement outside a transaction that is not part of a BulkInsert.
LEMMA PlainKeeps ==
    ASSUME PoolInv, NEW u \in Users, pc[u] = "stmt", job[u] \in {"exec", "zone"},
           NEW items \in SUBSET Items, \A i \in items : i[1] = u,
           job[u] = "exec" => <<u, 1>> \in items,
           NEW ends, \A e \in ends : StmtEnd(sess[at[u]], items, e),
           PlainStmt(u, items, ends, Succeeds(u)), UNCHANGED <<tenant, job, path>>
    PROVE  PoolInv'
<1> USE PoolAssumption
<1>1. pc[u] = "stmt" /\ row[u] = 0 /\ path[u] = "native" /\ told[u] = "nothing"
  BY DEF PoolInv, Phase, TypeOK
<1>2. PICK e \in ends :
         /\ Account(u, e, items) /\ Put(at[u], e.s, e.err) /\ at' = [at EXCEPT ![u] = NoConn]
         /\ \/ e.err = "ok" /\ Tell(u, "ok") /\ UNCHANGED <<tries, row>>
            \/ /\ e.err = "bad" /\ tries[u] < MaxBadConnRetries
               /\ tries' = [tries EXCEPT ![u] = @ + 1]
               /\ pc' = [pc EXCEPT ![u] = "get"]
               /\ UNCHANGED <<told, row>>
            \/ /\ e.err # "ok" /\ Tell(u, "error") /\ UNCHANGED <<tries, row>>
  BY DEF PlainStmt, Succeeds
<1>3. tenant' = tenant /\ job' = job /\ path' = path /\ row' = row
  BY <1>2
<1>4. \A i \in items : i \notin acked
  <2> SUFFICES ASSUME NEW i \in items PROVE i \notin acked
    OBVIOUS
  <2>1. i = <<u, i[2]>> /\ i[2] \in Rows
    BY ItemParts
  <2>2. i[2] > row[u]
    BY <1>1, <2>1 DEF Rows
  <2>3. QED BY <1>1, <2>1, <2>2 DEF PoolInv, Progress
<1>5. StmtEnd(sess[at[u]], items, e)
  OBVIOUS
<1>6. \E t \in {"nothing", "ok", "error"} : told' = [told EXCEPT ![u] = t]
  <2>1. told = [told EXCEPT ![u] = "nothing"]
    BY <1>1 DEF PoolInv, TypeOK
  <2>2. QED BY <1>2, <2>1 DEF Tell
<1>7. Returned(u, e, items)
  <2>1. \E p \in {"get", "done"} : pc' = [pc EXCEPT ![u] = p]
    BY <1>2 DEF Tell
  <2>2. QED BY <1>1, <1>2, <1>3, <1>4, <1>5, <1>6, <2>1 DEF Returned
<1>8. tries' \in [Users -> 0..MaxBadConnRetries]
  BY <1>2 DEF PoolInv, TypeOK, MaxBadConnRetries
<1>9. TypeOK'
  <2>1. path' \in [Users -> {"native", "rewrite"}] /\ row' \in [Users -> 0..NRows]
    BY <1>3 DEF PoolInv, TypeOK
  <2>2. QED BY <1>7, <1>8, <2>1, ReturnedTypes DEF TypeOK
<1>10. Phase'
  BY <1>1, <1>2, <1>3 DEF PoolInv, Phase, TypeOK, Tell
<1>11. Progress'
  <2>1. /\ e.err = "ok" => acked' = acked \cup items
        /\ e.err # "ok" => acked' = acked
        /\ \A v \in Users, r \in Rows : v # u => (<<v, r>> \in acked' <=> <<v, r>> \in acked)
    BY <1>7, ReturnedTypes
  <2> SUFFICES ASSUME NEW v \in Users, NEW r \in Rows
               PROVE  /\ pc'[v] # "done" /\ r > row[v] => <<v, r>> \notin acked'
                      /\ pc'[v] # "done" /\ path[v] = "rewrite" /\ r <= row[v] => <<v, r>> \in acked'
                      /\ told'[v] = "ok" /\ (job[v] = "bulk" \/ (job[v] = "exec" /\ r = 1))
                            => <<v, r>> \in acked'
    BY <1>3 DEF Progress
  <2>2. CASE v # u
    <3>1. pc'[v] = pc[v] /\ told'[v] = told[v]
      BY <1>2, <2>2 DEF PoolInv, TypeOK, Tell
    <3>2. QED BY <2>1, <2>2, <3>1 DEF PoolInv, Progress
  <2>3. CASE v = u
    <3>1. CASE e.err = "ok"
      BY <1>1, <1>2, <2>1, <2>3, <3>1 DEF PoolInv, TypeOK, Tell
    <3>2. CASE e.err # "ok"
      <4>1. told'[u] # "ok"
        BY <1>1, <1>2, <3>2 DEF PoolInv, TypeOK, Tell
      <4>2. QED BY <1>1, <2>1, <2>3, <3>2, <4>1 DEF PoolInv, Progress
    <3>3. QED BY <3>1, <3>2
  <2>4. QED BY <2>2, <2>3
<1>12. QED BY <1>7, <1>9, <1>10, <1>11, ReturnedSessions, ReturnedRows DEF PoolInv

LEMMA ExecKeeps == ASSUME PoolInv, NEW u \in Users, Exec(u) PROVE PoolInv'
<1> DEFINE items == {<<u, 1>>}
<1>1. /\ pc[u] = "stmt" /\ job[u] = "exec" /\ UNCHANGED <<tenant, job, path>>
      /\ PlainStmt(u, items, Insert(sess[at[u]], items), Succeeds(u))
  BY DEF Exec
<1>2. items \in SUBSET Items /\ \A i \in items : i[1] = u
  BY PoolAssumption, ItemParts DEF Rows
<1> HIDE DEF items
<1>3. \A e \in Insert(sess[at[u]], items) : StmtEnd(sess[at[u]], items, e)
  BY <1>1, <1>2, StmtEnds
<1>4. <<u, 1>> \in items
  BY DEF items
<1>5. QED BY <1>1, <1>2, <1>3, <1>4, PlainKeeps

LEMMA ExecZoneKeeps == ASSUME PoolInv, NEW u \in Users, ExecZone(u) PROVE PoolInv'
<1>1. pc[u] = "stmt" /\ job[u] = "zone" /\ UNCHANGED <<tenant, job, path>>
  BY DEF ExecZone
<1>2. PICK z \in Zones : PlainStmt(u, {}, SetZone(sess[at[u]], z), Succeeds(u))
  BY DEF ExecZone
<1>3. \A e \in SetZone(sess[at[u]], z) : StmtEnd(sess[at[u]], {}, e)
  BY <1>1, StmtEnds
<1>4. {} \in SUBSET Items /\ \A i \in {} : i[1] = u
  OBVIOUS
<1>5. QED BY <1>1, <1>2, <1>3, <1>4, PlainKeeps

(***************************************************************************)
(* BulkInsert.                                                             *)
(***************************************************************************)

\* The native path: nothing of the job was acknowledged before it.
LEMMA NativeBulkKeeps == ASSUME PoolInv, NEW u \in Users, NativeBulk(u) PROVE PoolInv'
<1> DEFINE items == {u} \X Rows
<1> USE PoolAssumption
<1>1. pc[u] = "stmt" /\ job[u] = "bulk" /\ path[u] = "native" /\ row[u] = 0 /\ told[u] = "nothing"
  BY DEF NativeBulk, PoolInv, Phase, TypeOK
<1>2. PICK e \in Insert(sess[at[u]], items) :
         /\ Account(u, e, items) /\ Put(at[u], e.s, e.err)
         /\ \/ /\ e.err = "ok" /\ told' = [told EXCEPT ![u] = "ok"] /\ pc' = [pc EXCEPT ![u] = "done"]
               /\ UNCHANGED <<path, row, tries>>
            \/ /\ e.err # "ok" /\ path' = [path EXCEPT ![u] = "rewrite"]
               /\ row' = [row EXCEPT ![u] = 0] /\ tries' = [tries EXCEPT ![u] = 0]
               /\ pc' = [pc EXCEPT ![u] = "get"] /\ UNCHANGED told
  BY DEF NativeBulk, Tell, FallsBack
<1>3. tenant' = tenant /\ job' = job /\ at' = [at EXCEPT ![u] = NoConn]
  BY DEF NativeBulk
<1>4. items \in SUBSET Items /\ \A i \in items : i[1] = u /\ i \notin acked
  <2>1. items \in SUBSET Items /\ \A i \in items : i[1] = u /\ i = <<u, i[2]>> /\ i[2] \in Rows
    BY DEF Items
  <2>2. \A r \in Rows : <<u, r>> \notin acked
    BY <1>1 DEF PoolInv, Progress, Rows
  <2>3. QED BY <2>1, <2>2
<1>5. \A r \in Rows : <<u, r>> \in items
  OBVIOUS
<1> HIDE DEF items
<1>6. Returned(u, e, items)
  <2>1. StmtEnd(sess[at[u]], items, e)
    BY <1>1, <1>4, StmtEnds
  <2>2. told = [told EXCEPT ![u] = "nothing"]
    BY <1>1 DEF PoolInv, TypeOK
  <2>3. \E t \in {"nothing", "ok", "error"} : told' = [told EXCEPT ![u] = t]
    BY <1>2, <2>2
  <2>4. \E p \in {"get", "done"} : pc' = [pc EXCEPT ![u] = p]
    BY <1>2
  <2>5. QED BY <1>1, <1>2, <1>3, <1>4, <2>1, <2>3, <2>4 DEF Returned
<1>7. TypeOK'
  <2>1. path' \in [Users -> {"native", "rewrite"}] /\ row' \in [Users -> 0..NRows]
    BY <1>2 DEF PoolInv, TypeOK
  <2>2. tries' \in [Users -> 0..MaxBadConnRetries]
    BY <1>2 DEF PoolInv, TypeOK, MaxBadConnRetries
  <2>3. QED BY <1>6, <2>1, <2>2, ReturnedTypes DEF TypeOK
<1>8. Phase'
  BY <1>1, <1>2, <1>3 DEF PoolInv, Phase, TypeOK
<1>9. Progress'
  <2>1. /\ e.err = "ok" => acked' = acked \cup items
        /\ e.err # "ok" => acked' = acked
        /\ \A v \in Users, r \in Rows : v # u => (<<v, r>> \in acked' <=> <<v, r>> \in acked)
    BY <1>6, ReturnedTypes
  <2> SUFFICES ASSUME NEW v \in Users, NEW r \in Rows
               PROVE  /\ pc'[v] # "done" /\ r > row'[v] => <<v, r>> \notin acked'
                      /\ pc'[v] # "done" /\ path'[v] = "rewrite" /\ r <= row'[v] => <<v, r>> \in acked'
                      /\ told'[v] = "ok" /\ (job[v] = "bulk" \/ (job[v] = "exec" /\ r = 1))
                            => <<v, r>> \in acked'
    BY <1>3 DEF Progress
  <2>2. CASE v # u
    <3>1. pc'[v] = pc[v] /\ told'[v] = told[v] /\ row'[v] = row[v] /\ path'[v] = path[v]
      BY <1>2, <2>2 DEF PoolInv, TypeOK
    <3>2. QED BY <2>1, <2>2, <3>1 DEF PoolInv, Progress
  <2>3. CASE v = u
    <3>1. CASE e.err = "ok"
      BY <1>2, <1>5, <2>1, <2>3, <3>1 DEF PoolInv, TypeOK
    <3>2. CASE e.err # "ok"
      <4>1. told'[u] # "ok" /\ row'[u] = 0
        BY <1>1, <1>2, <3>2 DEF PoolInv, TypeOK
      <4>2. <<u, r>> \notin acked /\ ~(r <= 0)
        BY <1>4, <1>5 DEF Rows
      <4>3. QED BY <2>1, <2>3, <3>2, <4>1, <4>2
    <3>3. QED BY <3>1, <3>2
  <2>4. QED BY <2>2, <2>3
<1>10. QED BY <1>6, <1>7, <1>8, <1>9, ReturnedSessions, ReturnedRows DEF PoolInv

\* A chunk of the fallback: the rows after row[u], up to the next chunk or the end.
LEMMA RewriteBulkKeeps == ASSUME PoolInv, NEW u \in Users, RewriteBulk(u) PROVE PoolInv'
<1> DEFINE n == row[u]
<1> DEFINE items == {u} \X (n + 1 .. ChunkEnd(n))
<1> USE PoolAssumption
<1>1. pc[u] = "stmt" /\ job[u] = "bulk" /\ path[u] = "rewrite" /\ n \in 0..NRows /\ told[u] = "nothing"
  BY DEF RewriteBulk, PoolInv, Phase, TypeOK
<1>2. PICK e \in Insert(sess[at[u]], items) :
         /\ Account(u, e, items) /\ Put(at[u], e.s, e.err) /\ at' = [at EXCEPT ![u] = NoConn]
         /\ \/ e.err = "ok" /\ NextChunk(u)
            \/ /\ e.err = "bad" /\ tries[u] < MaxBadConnRetries
               /\ tries' = [tries EXCEPT ![u] = @ + 1]
               /\ pc' = [pc EXCEPT ![u] = "get"]
               /\ UNCHANGED <<told, row>>
            \/ /\ e.err # "ok" /\ Tell(u, "error") /\ UNCHANGED <<tries, row>>
  BY DEF RewriteBulk, PlainStmt
<1>3. tenant' = tenant /\ job' = job /\ path' = path
  BY DEF RewriteBulk
<1>4. ChunkEnd(n) \in Nat /\ ChunkEnd(n) <= NRows /\ (n + Chunk < NRows => ChunkEnd(n) = n + Chunk)
      /\ (n + Chunk >= NRows => ChunkEnd(n) = NRows)
  BY <1>1 DEF ChunkEnd
<1>5. \A r \in Rows : <<u, r>> \in items <=> r > n /\ r <= ChunkEnd(n)
  BY <1>1, <1>4 DEF Rows
<1>6. items \in SUBSET Items /\ \A i \in items : i[1] = u /\ i \notin acked
  <2>1. \A r \in n + 1 .. ChunkEnd(n) : r \in Rows /\ r > n
    BY <1>1, <1>4 DEF Rows
  <2>2. items \in SUBSET Items /\ \A i \in items : i[1] = u /\ i = <<u, i[2]>> /\ i[2] \in n + 1 .. ChunkEnd(n)
    BY <2>1 DEF Items
  <2>3. \A r \in Rows : r > n => <<u, r>> \notin acked
    BY <1>1 DEF PoolInv, Progress
  <2>4. QED BY <2>1, <2>2, <2>3
<1> HIDE DEF items
\* The end, the next chunk, or an error that leaves the chunk as it was.
<1>7. \/ /\ e.err = "ok" /\ n + Chunk >= NRows /\ UNCHANGED <<row, tries>>
         /\ told' = [told EXCEPT ![u] = "ok"] /\ pc' = [pc EXCEPT ![u] = "done"]
      \/ /\ e.err = "ok" /\ n + Chunk < NRows /\ row' = [row EXCEPT ![u] = n + Chunk]
         /\ tries' = [tries EXCEPT ![u] = 0] /\ pc' = [pc EXCEPT ![u] = "get"] /\ UNCHANGED told
      \/ /\ e.err # "ok" /\ tries[u] < MaxBadConnRetries /\ tries' = [tries EXCEPT ![u] = @ + 1]
         /\ pc' = [pc EXCEPT ![u] = "get"] /\ UNCHANGED <<told, row>>
      \/ /\ e.err # "ok" /\ told' = [told EXCEPT ![u] = "error"] /\ pc' = [pc EXCEPT ![u] = "done"]
         /\ UNCHANGED <<tries, row>>
  BY <1>1, <1>2 DEF NextChunk, Tell
<1>8. Returned(u, e, items)
  <2>1. StmtEnd(sess[at[u]], items, e)
    BY <1>1, <1>6, StmtEnds
  <2>2. told = [told EXCEPT ![u] = "nothing"]
    BY <1>1 DEF PoolInv, TypeOK
  <2>3. \E t \in {"nothing", "ok", "error"} : told' = [told EXCEPT ![u] = t]
    BY <1>7, <2>2
  <2>4. \E p \in {"get", "done"} : pc' = [pc EXCEPT ![u] = p]
    BY <1>7
  <2>5. QED BY <1>1, <1>2, <1>3, <1>6, <2>1, <2>3, <2>4 DEF Returned
<1>9. TypeOK'
  <2>1. row' \in [Users -> 0..NRows]
    BY <1>1, <1>7 DEF PoolInv, TypeOK
  <2>2. tries' \in [Users -> 0..MaxBadConnRetries]
    BY <1>7 DEF PoolInv, TypeOK, MaxBadConnRetries
  <2>3. path' \in [Users -> {"native", "rewrite"}]
    BY <1>3 DEF PoolInv, TypeOK
  <2>4. QED BY <1>8, <2>1, <2>2, <2>3, ReturnedTypes DEF TypeOK
<1>10. \A v \in Users : v # u => pc'[v] = pc[v] /\ told'[v] = told[v] /\ row'[v] = row[v]
  BY <1>7 DEF PoolInv, TypeOK
<1>11. Phase'
  <2>1. /\ pc'[u] = "done" <=> told'[u] # "nothing"
        /\ pc'[u] \notin {"tx", "idle"}
    BY <1>1, <1>7 DEF PoolInv, TypeOK
  <2>2. QED BY <1>1, <1>3, <1>10, <2>1 DEF PoolInv, Phase
<1>12. Progress'
  <2>1. /\ e.err = "ok" => acked' = acked \cup items
        /\ e.err # "ok" => acked' = acked
        /\ \A v \in Users, r \in Rows : v # u => (<<v, r>> \in acked' <=> <<v, r>> \in acked)
    BY <1>8, ReturnedTypes
  <2> SUFFICES ASSUME NEW v \in Users, NEW r \in Rows
               PROVE  /\ pc'[v] # "done" /\ r > row'[v] => <<v, r>> \notin acked'
                      /\ pc'[v] # "done" /\ path[v] = "rewrite" /\ r <= row'[v] => <<v, r>> \in acked'
                      /\ told'[v] = "ok" /\ (job[v] = "bulk" \/ (job[v] = "exec" /\ r = 1))
                            => <<v, r>> \in acked'
    BY <1>3 DEF Progress
  <2>2. CASE v # u
    BY <1>10, <2>1, <2>2 DEF PoolInv, Progress
  <2>3. CASE v = u
    <3>1. /\ r > n => <<u, r>> \notin acked
          /\ r <= n => <<u, r>> \in acked
          /\ r \in 1..NRows
      BY <1>1 DEF PoolInv, Progress, Rows
    <3>2. CASE e.err = "ok" /\ n + Chunk >= NRows
      <4>1. pc'[u] = "done" /\ <<u, r>> \in acked'
        BY <1>1, <1>4, <1>5, <1>7, <2>1, <3>1, <3>2 DEF PoolInv, TypeOK
      <4>2. QED BY <2>3, <4>1
    <3>3. CASE e.err = "ok" /\ n + Chunk < NRows
      <4>1. row'[u] = n + Chunk /\ told'[u] = "nothing"
        BY <1>1, <1>7, <3>3 DEF PoolInv, TypeOK
      <4>2. <<u, r>> \in acked' <=> r <= n + Chunk
        BY <1>1, <1>4, <1>5, <2>1, <3>1, <3>3
      <4>3. QED BY <1>1, <2>3, <3>1, <4>1, <4>2
    <3>4. CASE e.err # "ok"
      <4>1. told'[u] # "ok" /\ row'[u] = n
        BY <1>1, <1>7, <3>4 DEF PoolInv, TypeOK
      <4>2. QED BY <2>1, <2>3, <3>1, <3>4, <4>1
    <3>5. QED BY <1>1, <3>2, <3>3, <3>4
  <2>4. QED BY <2>2, <2>3
<1>13. QED BY <1>8, <1>9, <1>11, <1>12, ReturnedSessions, ReturnedRows DEF PoolInv

(***************************************************************************)
(* Transactions.                                                           *)
(***************************************************************************)

\* BeginTx sets inTx on a connection that came from the pool clean.
LEMMA BeginTxKeeps == ASSUME PoolInv, NEW u \in Users, BeginTx(u) PROVE PoolInv'
<1> DEFINE k == at[u]
<1> USE PoolAssumption
<1>1. /\ pc[u] = "stmt" /\ job[u] = "tx" /\ k \in Conns /\ pool[k] = "used" /\ told[u] = "nothing"
      /\ ~sess[k].bad /\ ~sess[k].inTx /\ \A i \in sess[k].work : job[i[1]] # "tx"
      /\ \A v \in Users : at[v] = k => v = u
  BY DEF BeginTx, PoolInv, Owned, HandedOutClean, Phase
<1>2. /\ sess' = [sess EXCEPT ![k].inTx = TRUE] /\ pc' = [pc EXCEPT ![u] = "tx"]
      /\ UNCHANGED <<pool, at, told, tenant, job, tries, path, row, ctxDone, count, lost, acked>>
  BY <1>1 DEF BeginTx
<1>3. /\ sess' \in [Conns -> Session] /\ pc'[u] = "tx"
      /\ \A v \in Users : v # u => pc'[v] = pc[v]
      /\ \A l \in Conns : l # k => sess'[l] = sess[l]
      /\ sess'[k].inTx
      /\ \A l \in Conns : /\ sess'[l].bad = sess[l].bad /\ sess'[l].work = sess[l].work
                          /\ sess'[l].loc = sess[l].loc /\ sess'[l].zone = sess[l].zone
  <2> DEFINE t == [sess[k] EXCEPT !.inTx = TRUE]
  <2>1. sess \in [Conns -> Session] /\ pc \in [Users -> {"idle", "get", "stmt", "tx", "done"}]
    BY DEF PoolInv, TypeOK
  <2>2. /\ t \in Session /\ t.inTx /\ t.bad = sess[k].bad /\ t.work = sess[k].work
        /\ t.loc = sess[k].loc /\ t.zone = sess[k].zone
    BY <1>1, <2>1 DEF Session
  <2>3. sess' = [sess EXCEPT ![k] = t]
    BY <1>1, <1>2, <2>1
  <2> HIDE DEF t
  <2>4. /\ sess' \in [Conns -> Session] /\ sess'[k] = t
        /\ \A l \in Conns : l # k => sess'[l] = sess[l]
    BY <1>1, <2>1, <2>2, <2>3
  <2>5. pc'[u] = "tx" /\ \A v \in Users : v # u => pc'[v] = pc[v]
    BY <1>2, <2>1
  <2>6. QED BY <2>2, <2>4, <2>5
<1> HIDE DEF k
<1>4. TypeOK'
  <2>1. pc' \in [Users -> {"idle", "get", "stmt", "tx", "done"}]
    BY <1>2 DEF PoolInv, TypeOK
  <2>2. QED BY <1>2, <1>3, <2>1 DEF PoolInv, TypeOK
<1>5. Owned'
  BY <1>1, <1>2, <1>3 DEF PoolInv, Owned
<1>6. Phase'
  <2>1. row[u] = 0 /\ path[u] = "native"
    BY <1>1 DEF PoolInv, Phase, TypeOK
  <2>2. QED BY <1>1, <1>2, <1>3, <2>1 DEF PoolInv, Phase
<1>7. Sound'
  BY <1>1, <1>2, <1>3 DEF PoolInv, Sound
<1>8. HandedOutClean'
  BY <1>1, <1>2, <1>3 DEF PoolInv, HandedOutClean, Owned
<1>9. TxWork'
  <2>1. \A v \in Users : pc'[v] = "tx" => sess'[at'[v]].inTx
    BY <1>1, <1>2, <1>3 DEF PoolInv, TxWork, Owned, k
  <2>2. ASSUME NEW l \in Conns, NEW i \in sess'[l].work, job'[i[1]] = "tx"
        PROVE  /\ sess'[l].inTx
               /\ \/ pc'[i[1]] = "tx" /\ at'[i[1]] = l
                  \/ pool'[l] = "free" /\ told'[i[1]] = "refused"
    <3>1. i \in sess[l].work /\ i[1] \in Users /\ job[i[1]] = "tx"
      BY <1>2, <1>3, <2>2, ItemParts DEF Session
    <3>2. l # k
      BY <1>1, <3>1
    <3>3. QED BY <1>1, <1>2, <1>3, <3>1, <3>2 DEF PoolInv, TxWork
  <2>3. QED BY <2>1, <2>2 DEF TxWork
<1>10. OpenOnce' /\ Counted'
  BY <1>2, <1>3 DEF PoolInv, OpenOnce, Counted
<1>11. Progress'
  BY <1>1, <1>2, <1>3 DEF PoolInv, Progress
<1>12. TxRows'
  <2>1. \A r \in Rows : <<u, r>> \notin acked /\ count[<<u, r>>] = 0
    <3>1. row[u] = 0
      BY <1>1 DEF PoolInv, Phase, TypeOK
    <3>2. QED BY <1>1, <3>1 DEF PoolInv, Progress, TxRows, Rows
  <2>2. \A v \in Users : v # u /\ pc[v] = "tx" => sess'[at[v]] = sess[at[v]]
    BY <1>1, <1>3 DEF PoolInv, Owned
  <2> SUFFICES ASSUME NEW v \in Users, NEW r \in Rows
               PROVE  LET i == <<v, r>> IN
                      /\ pc'[v] \in {"idle", "get", "stmt"} /\ job[v] \in {"none", "tx"} => count[i] = 0
                      /\ pc'[v] = "tx" /\ ~sess'[at[v]].bad =>
                            IF i \notin acked THEN count[i] = 0
                            ELSE IF tenant.autocommit THEN count[i] = 1 ELSE i \in sess'[at[v]].work
                      /\ ~tenant.autocommit /\ job[v] = "tx" /\ told[v] \notin {"committed", "unknown"}
                            => count[i] = 0
                      /\ job[v] = "tx" /\ told[v] = "committed" => count[i] = IF i \in acked THEN 1 ELSE 0
    BY <1>2 DEF TxRows
  <2>3. CASE v = u
    BY <2>1, <2>3
  <2>4. CASE v # u
    BY <1>3, <2>2, <2>4 DEF PoolInv, TxRows
  <2>5. QED BY <2>3, <2>4
<1>13. TxSessions'
  BY <1>2 DEF PoolInv, TxSessions
<1>14. QED BY <1>4, <1>5, <1>6, <1>7, <1>8, <1>9, <1>10, <1>11, <1>12, <1>13 DEF PoolInv

\* A statement of a transaction: the row is acknowledged and open (or committed), or
\* the statement failed and added nothing, or the connection is broken.
LEMMA TxExecKeeps == ASSUME PoolInv, NEW u \in Users, TxExec(u) PROVE PoolInv'
<1> DEFINE k == at[u]
<1> DEFINE s == sess[k]
<1> DEFINE n == row[u] + 1
<1> DEFINE items == {<<u, n>>}
<1> USE PoolAssumption
<1>1. /\ pc[u] = "tx" /\ job[u] = "tx" /\ k \in Conns /\ pool[k] = "used" /\ s \in Session
      /\ \A v \in Users : at[v] = k => v = u
      /\ path[u] = "native" /\ told[u] = "nothing" /\ s.inTx /\ (s.bad => s.work = {})
  BY DEF TxExec, PoolInv, TypeOK, Owned, Phase, Sound, TxWork
<1>2. n \in Rows /\ n > row[u] /\ row[u] \in Nat
  BY DEF TxExec, PoolInv, TypeOK, Rows
<1>3. items \in SUBSET Items /\ <<u, n>> \in Items /\ <<u, n>> \notin acked
  BY <1>1, <1>2, ItemParts DEF PoolInv, Progress
<1>4. PICK e \in Insert(s, items) : Account(u, e, items) /\ sess' = [sess EXCEPT ![k] = e.s]
  BY DEF TxExec
<1>5. /\ row' = [row EXCEPT ![u] = n]
      /\ UNCHANGED <<tenant, pool, pc, job, at, tries, path, told>>
  BY DEF TxExec
<1> HIDE DEF k, s, n
<1>6. InsertEnd(s, items, e)
  BY <1>1, <1>3, <1>4, InsertEnds
<1>7. /\ count' \in [Items -> Nat] /\ lost' \in [Users -> Nat] /\ ctxDone' \in [Users -> BOOLEAN]
      /\ acked' \subseteq Items
      /\ e.err = "ok" => acked' = acked \cup items
      /\ e.err # "ok" => acked' = acked
      /\ \A i \in Items : /\ i \in e.done => count'[i] = count[i] + 1
                          /\ i \notin e.done => count'[i] = count[i]
      /\ \A v \in Users : v # u => lost'[v] = lost[v]
      /\ e.unsaid => lost'[u] = lost[u] + 1
      /\ ~e.unsaid => lost'[u] = lost[u]
  BY <1>3, <1>4, <1>6, AccountCases DEF InsertEnd, PoolInv
<1>8. /\ sess' \in [Conns -> Session] /\ sess'[k] = e.s
      /\ \A l \in Conns : l # k => sess'[l] = sess[l]
      /\ row' \in [Users -> 0..NRows] /\ row'[u] = n
      /\ \A v \in Users : v # u => row'[v] = row[v]
  BY <1>1, <1>2, <1>4, <1>5, <1>6 DEF InsertEnd, PoolInv, TypeOK, Rows
<1>9. /\ e.done = {} \/ e.done = items
      /\ ~tenant.autocommit => e.done = {}
      /\ e.s.work \subseteq s.work \cup (IF e.err = "ok" /\ ~tenant.autocommit THEN items ELSE {})
  BY <1>6 DEF InsertEnd
<1>10. \A v \in Users, r \in Rows : v # u =>
         /\ count'[<<v, r>>] = count[<<v, r>>]
         /\ <<v, r>> \in acked' <=> <<v, r>> \in acked
  BY <1>7, <1>9, ItemParts
<1>11. TypeOK'
  BY <1>5, <1>7, <1>8 DEF PoolInv, TypeOK
<1>12. Owned' /\ TxSessions'
  BY <1>5 DEF PoolInv, Owned, TxSessions
<1>13. Phase'
  BY <1>1, <1>5, <1>8 DEF PoolInv, Phase
<1>14. Sound'
  BY <1>1, <1>5, <1>6, <1>8, <1>9 DEF PoolInv, Sound, InsertEnd, s
<1>15. HandedOutClean'
  BY <1>1, <1>5, <1>8 DEF PoolInv, HandedOutClean, Owned
<1>16. TxWork'
  <2>1. \A v \in Users : pc'[v] = "tx" => sess'[at'[v]].inTx
    <3>1. sess'[at[u]].inTx
      BY <1>1, <1>6, <1>8 DEF InsertEnd, k
    <3>2. \A v \in Users : v # u /\ pc[v] = "tx" => sess'[at[v]] = sess[at[v]]
      BY <1>1, <1>8 DEF PoolInv, Owned
    <3>3. QED BY <1>5, <3>1, <3>2 DEF PoolInv, TxWork
  <2>2. ASSUME NEW l \in Conns, NEW i \in sess'[l].work, job'[i[1]] = "tx"
        PROVE  /\ sess'[l].inTx
               /\ \/ pc'[i[1]] = "tx" /\ at'[i[1]] = l
                  \/ pool'[l] = "free" /\ told'[i[1]] = "refused"
    <3>1. CASE l # k
      BY <1>5, <1>8, <2>2, <3>1 DEF PoolInv, TxWork
    <3>2. CASE l = k
      <4>1. sess'[l].inTx
        BY <1>1, <1>6, <1>8, <3>2 DEF InsertEnd
      <4>2. CASE i \in items
        BY <1>1, <1>5, <3>2, <4>1, <4>2 DEF k
      <4>3. CASE i \in s.work
        BY <1>5, <2>2, <3>2, <4>1, <4>3 DEF PoolInv, TxWork, s
      <4>4. QED BY <1>8, <1>9, <2>2, <3>2, <4>2, <4>3
    <3>3. QED BY <3>1, <3>2
  <2>3. QED BY <2>1, <2>2 DEF TxWork
<1>17. OpenOnce'
  <2> SUFFICES ASSUME NEW l \in Conns, NEW i \in sess'[l].work
               PROVE  /\ i \in acked' /\ count'[i] = 0
                      /\ \A m \in Conns : i \in sess'[m].work => m = l
    BY DEF OpenOnce
  <2>1. ~tenant.autocommit /\ i \in Items
    BY <1>5, <1>8, <1>14 DEF Sound, Session
  <2>2. \A m \in Conns : i \in sess'[m].work => i \in sess[m].work \/ (m = k /\ i \in items /\ e.err = "ok")
    BY <1>8, <1>9 DEF s
  <2>3. count'[i] = count[i]
    BY <1>7, <1>9, <2>1
  <2>4. CASE i \in items /\ e.err = "ok"
    <3>1. i \notin acked /\ i \in acked'
      BY <1>3, <1>7, <2>4
    <3>2. \A m \in Conns : i \notin sess[m].work
      BY <3>1 DEF PoolInv, OpenOnce
    <3>3. count[i] = 0
      BY <2>1, <3>1, ItemParts DEF PoolInv, Counted
    <3>4. QED BY <2>2, <2>3, <3>1, <3>2, <3>3
  <2>5. CASE ~(i \in items /\ e.err = "ok")
    <3>1. i \in sess[l].work
      BY <2>2, <2>5
    <3>2. QED BY <1>7, <2>2, <2>3, <2>5, <3>1 DEF PoolInv, OpenOnce
  <2>6. QED BY <2>4, <2>5
<1>18. Progress'
  <2> SUFFICES ASSUME NEW v \in Users, NEW r \in Rows
               PROVE  /\ pc[v] # "done" /\ r > row'[v] => <<v, r>> \notin acked'
                      /\ pc[v] # "done" /\ path[v] = "rewrite" /\ r <= row'[v] => <<v, r>> \in acked'
                      /\ told[v] = "ok" /\ (job[v] = "bulk" \/ (job[v] = "exec" /\ r = 1))
                            => <<v, r>> \in acked'
    BY <1>5 DEF Progress
  <2>1. CASE v # u
    BY <1>8, <1>10, <2>1 DEF PoolInv, Progress
  <2>2. CASE v = u
    <3>1. ASSUME r > n PROVE <<u, r>> \notin acked'
      <4>1. r > row[u] /\ r # n
        BY <1>2, <3>1 DEF n, Rows
      <4>2. <<u, r>> \notin acked /\ <<u, r>> \notin items
        BY <1>1, <4>1 DEF PoolInv, Progress
      <4>3. QED BY <1>7, <4>2
    <3>2. QED BY <1>1, <1>8, <2>2, <3>1
  <2>3. QED BY <2>1, <2>2
<1>19. Counted'
  <2> SUFFICES ASSUME NEW v \in Users, NEW r \in Rows
               PROVE  LET i == <<v, r>> IN
                      IF tenant.autocommit
                      THEN /\ i \in acked' => count'[i] >= 1 /\ count'[i] <= 1 + lost'[v]
                           /\ i \notin acked' => count'[i] <= lost'[v]
                      ELSE /\ i \in acked' => count'[i] <= 1
                           /\ i \notin acked' => count'[i] = 0
    BY <1>5 DEF Counted
  <2>0. <<v, r>> \in Items /\ count[<<v, r>>] \in Nat /\ lost[v] \in Nat
    BY ItemParts DEF PoolInv, TypeOK
  <2>1. CASE v # u
    BY <1>7, <1>10, <2>1 DEF PoolInv, Counted
  <2>2. CASE v = u /\ tenant.autocommit
    BY <1>3, <1>6, <1>7, <2>0, <2>2 DEF PoolInv, Counted, InsertEnd
  <2>3. CASE v = u /\ ~tenant.autocommit
    BY <1>7, <1>9, <2>0, <2>3 DEF PoolInv, Counted
  <2>4. QED BY <2>1, <2>2, <2>3
<1>20. TxRows'
  <2>1. ASSUME NEW v \in Users, NEW r \in Rows, v # u
        PROVE  LET i == <<v, r>> IN
               /\ pc[v] \in {"idle", "get", "stmt"} /\ job[v] \in {"none", "tx"} => count'[i] = 0
               /\ pc[v] = "tx" /\ ~sess'[at[v]].bad =>
                     IF i \notin acked' THEN count'[i] = 0
                     ELSE IF tenant.autocommit THEN count'[i] = 1 ELSE i \in sess'[at[v]].work
               /\ ~tenant.autocommit /\ job[v] = "tx" /\ told[v] \notin {"committed", "unknown"}
                     => count'[i] = 0
               /\ job[v] = "tx" /\ told[v] = "committed" => count'[i] = IF i \in acked' THEN 1 ELSE 0
    <3>1. pc[v] = "tx" => sess'[at[v]] = sess[at[v]]
      BY <1>1, <1>8, <2>1 DEF PoolInv, Owned
    <3>2. QED BY <1>10, <2>1, <3>1 DEF PoolInv, TxRows
  <2>2. ASSUME NEW r \in Rows, ~e.s.bad
        PROVE  LET i == <<u, r>> IN
               IF i \notin acked' THEN count'[i] = 0
               ELSE IF tenant.autocommit THEN count'[i] = 1 ELSE i \in e.s.work
    <3>1. <<u, r>> \in Items /\ count[<<u, r>>] \in Nat
      BY ItemParts DEF PoolInv, TypeOK
    <3>2. /\ <<u, r>> \notin acked => count[<<u, r>>] = 0
          /\ <<u, r>> \in acked => IF tenant.autocommit THEN count[<<u, r>>] = 1 ELSE <<u, r>> \in s.work
      BY <1>1, <1>6, <2>2 DEF InsertEnd, PoolInv, TxRows, k, s
    <3>3. CASE e.err = "ok"
      BY <1>3, <1>6, <1>7, <3>1, <3>2, <3>3, <2>2 DEF InsertEnd
    <3>4. CASE e.err # "ok"
      BY <1>6, <1>7, <3>1, <3>2, <3>4, <2>2 DEF InsertEnd
    <3>5. QED BY <3>3, <3>4
  <2>3. \A r \in Rows : ~tenant.autocommit => count'[<<u, r>>] = 0
    BY <1>1, <1>7, <1>9, ItemParts DEF PoolInv, TxRows
  <2>4. sess'[at[u]] = e.s
    BY <1>8 DEF k
  <2>5. QED BY <1>1, <1>5, <2>1, <2>2, <2>3, <2>4 DEF TxRows
<1>21. QED BY <1>11, <1>12, <1>13, <1>14, <1>15, <1>16, <1>17, <1>18, <1>19, <1>20 DEF PoolInv

\* What the user of a transaction is told of its end.
ToldEnd(commit, e) == CASE e.err = "ok" -> (IF commit THEN "committed" ELSE "rolledback")
                        [] e.err = "srv" -> "refused"
                        [] OTHER -> IF commit THEN "unknown" ELSE "rolledback"

LEMMA ToldEnds ==
    ASSUME NEW commit \in BOOLEAN, NEW e
    PROVE  /\ e.err = "ok" => ToldEnd(commit, e) = IF commit THEN "committed" ELSE "rolledback"
           /\ e.err = "srv" => ToldEnd(commit, e) = "refused"
           /\ e.err = "bad" => ToldEnd(commit, e) = IF commit THEN "unknown" ELSE "rolledback"
<1>1. CASE e.err = "ok"
  BY <1>1 DEF ToldEnd
<1>2. CASE e.err = "srv"
  BY <1>2 DEF ToldEnd
<1>3. CASE e.err = "bad"
  BY <1>3 DEF ToldEnd
<1>4. QED BY <1>1, <1>2, <1>3

\* The end of a transaction.  Its open rows are committed, rolled back, lost with the
\* session, or left in a free session that says inTx.
LEMMA TxFinishKeeps ==
    ASSUME PoolInv, NEW u \in Users, NEW commit \in BOOLEAN, TxFinish(u, commit)
    PROVE  PoolInv'
<1> DEFINE k == at[u]
<1> DEFINE s == sess[k]
<1> USE PoolAssumption
<1>1. /\ pc[u] = "tx" /\ job[u] = "tx" /\ k \in Conns /\ pool[k] = "used" /\ s \in Session
      /\ \A v \in Users : at[v] = k => v = u
      /\ path[u] = "native" /\ told[u] = "nothing" /\ s.inTx /\ (s.bad => s.work = {})
      /\ tenant.autocommit => s.work = {}
      /\ tenant.oracle /\ ~s.bad => s.loc = s.zone
  BY DEF TxFinish, PoolInv, TypeOK, Owned, Phase, Sound, TxWork
<1>2. PICK e \in Finish(s, commit) :
         Account(u, e, {}) /\ Put(k, e.s, e.err) /\ Tell(u, ToldEnd(commit, e))
  BY DEF TxFinish, ToldEnd
<1>3. at' = [at EXCEPT ![u] = NoConn] /\ UNCHANGED <<tenant, job, tries, path, row>>
  BY DEF TxFinish
<1> DEFINE t == ToldEnd(commit, e)
<1>4. /\ e.err = "ok" => t = IF commit THEN "committed" ELSE "rolledback"
      /\ e.err = "srv" => t = "refused"
      /\ e.err = "bad" => t = IF commit THEN "unknown" ELSE "rolledback"
  BY ToldEnds
<1>5. told' = [told EXCEPT ![u] = t] /\ pc' = [pc EXCEPT ![u] = "done"]
  BY <1>2 DEF Tell
<1> HIDE DEF k, s, t
<1>6. FinishEnd(s, commit, e)
  BY <1>1, <1>2, FinishEnds
<1>7. t \in {"committed", "rolledback", "refused", "unknown"}
  BY <1>4, <1>6 DEF FinishEnd
<1>8. /\ count' \in [Items -> Nat] /\ lost' \in [Users -> Nat] /\ ctxDone' \in [Users -> BOOLEAN]
      /\ acked' = acked
      /\ \A i \in Items : /\ i \in e.done => count'[i] = count[i] + 1
                          /\ i \notin e.done => count'[i] = count[i]
      /\ \A v \in Users : v # u => lost'[v] = lost[v]
      /\ lost'[u] >= lost[u] /\ lost[u] \in Nat
  <2>1. {} \in SUBSET Items /\ e.unsaid \in BOOLEAN /\ lost[u] \in Nat
    BY <1>6 DEF FinishEnd, PoolInv, TypeOK
  <2>2. /\ count' \in [Items -> Nat] /\ lost' \in [Users -> Nat] /\ ctxDone' \in [Users -> BOOLEAN]
        /\ e.err = "ok" => acked' = acked \cup {}
        /\ e.err # "ok" => acked' = acked
        /\ \A i \in Items : /\ i \in e.done => count'[i] = count[i] + 1
                            /\ i \notin e.done => count'[i] = count[i]
        /\ \A v \in Users : v # u => lost'[v] = lost[v]
        /\ e.unsaid => lost'[u] = lost[u] + 1
        /\ ~e.unsaid => lost'[u] = lost[u]
    BY <1>2, <2>1, AccountCases DEF PoolInv
  <2>3. QED BY <2>1, <2>2
<1>9. /\ pool' \in [Conns -> {"none", "free", "used"}] /\ sess' \in [Conns -> Session]
      /\ \A l \in Conns : l # k => pool'[l] = pool[l] /\ sess'[l] = sess[l]
      /\ \/ pool'[k] = "none" /\ sess'[k] = Fresh
         \/ pool'[k] = "free" /\ sess'[k] = e.s /\ ~e.s.bad /\ e.err # "bad"
  BY <1>1, <1>2, <1>6, PutCases DEF FinishEnd, PoolInv
<1>10. /\ at'[u] = NoConn /\ pc'[u] = "done" /\ told'[u] = t
       /\ \A v \in Users : v # u => at'[v] = at[v] /\ pc'[v] = pc[v] /\ told'[v] = told[v]
  BY <1>3, <1>5 DEF PoolInv, TypeOK
\* What is left open is what a refused end left, and what was committed was open.
<1>11. /\ sess'[k].work \subseteq s.work
       /\ sess'[k].work # {} => e.err = "srv" /\ sess'[k] = s /\ pool'[k] = "free"
       /\ e.done \subseteq s.work
       /\ e.done # {} => sess'[k].work = {} /\ commit
  BY <1>6, <1>9, FreshSession DEF FinishEnd
<1>12. \A i \in s.work : job[i[1]] = "tx" => i[1] = u
  <2>1. \A i \in s.work : i[1] \in Users
    BY <1>1, ItemParts DEF Session
  <2>2. QED BY <1>1, <2>1 DEF PoolInv, TxWork, s
<1>13. TypeOK'
  <2>1. /\ pc' \in [Users -> {"idle", "get", "stmt", "tx", "done"}]
        /\ at' \in [Users -> Conns \cup {NoConn}]
    BY <1>3, <1>5 DEF PoolInv, TypeOK
  <2>2. told' \in [Users -> {"nothing", "ok", "error", "committed", "rolledback", "refused", "unknown"}]
    BY <1>5, <1>7 DEF PoolInv, TypeOK
  <2>3. QED BY <1>3, <1>8, <1>9, <2>1, <2>2 DEF PoolInv, TypeOK
<1>14. Owned'
  <2>1. \A v \in Users : pc'[v] \in {"stmt", "tx"} <=> at'[v] \in Conns
    BY <1>10 DEF PoolInv, Owned
  <2>2. \A v \in Users : at'[v] \in Conns => pool'[at'[v]] = "used"
    BY <1>1, <1>9, <1>10 DEF PoolInv, Owned
  <2>3. \A v, w \in Users : at'[v] \in Conns /\ at'[v] = at'[w] => v = w
    BY <1>10 DEF PoolInv, Owned
  <2>4. QED BY <2>1, <2>2, <2>3 DEF Owned
<1>15. Phase'
  BY <1>1, <1>3, <1>7, <1>10 DEF PoolInv, Phase
<1>16. Sound'
  <2>1. CASE pool'[k] = "none" /\ sess'[k] = Fresh
    BY <1>3, <1>9, <2>1, FreshSession DEF PoolInv, Sound
  <2>2. CASE pool'[k] = "free" /\ sess'[k] = e.s /\ ~e.s.bad
    <3>1. e.err # "bad" /\ ~s.bad /\ e.s.loc = s.loc /\ e.s.zone = s.zone
      BY <1>6, <2>2 DEF FinishEnd
    <3>2. QED BY <1>1, <1>3, <1>9, <1>11, <2>2, <3>1 DEF PoolInv, Sound
  <2>3. QED BY <1>9, <2>1, <2>2
<1>17. HandedOutClean'
  BY <1>1, <1>3, <1>9, <1>10 DEF PoolInv, HandedOutClean, Owned
<1>18. TxWork'
  <2>1. \A v \in Users : pc'[v] = "tx" => sess'[at'[v]].inTx
    BY <1>1, <1>9, <1>10 DEF PoolInv, TxWork, Owned
  <2>2. ASSUME NEW l \in Conns, NEW i \in sess'[l].work, job'[i[1]] = "tx"
        PROVE  /\ sess'[l].inTx
               /\ \/ pc'[i[1]] = "tx" /\ at'[i[1]] = l
                  \/ pool'[l] = "free" /\ told'[i[1]] = "refused"
    <3>1. CASE l # k
      <4>1. sess'[l] = sess[l] /\ pool'[l] = pool[l] /\ i[1] \in Users
        BY <1>9, <2>2, <3>1, ItemParts DEF Session
      <4>2. /\ sess[l].inTx
            /\ (pc[i[1]] = "tx" /\ at[i[1]] = l) \/ (pool[l] = "free" /\ told[i[1]] = "refused")
        BY <1>3, <2>2, <4>1 DEF PoolInv, TxWork
      <4>3. i[1] # u
        BY <1>1, <3>1, <4>2 DEF k
      <4>4. QED BY <1>10, <4>1, <4>2, <4>3
    <3>2. CASE l = k
      <4>1. e.err = "srv" /\ sess'[k] = s /\ pool'[k] = "free" /\ i \in s.work
        BY <1>11, <2>2, <3>2
      <4>2. i[1] = u
        BY <1>3, <1>12, <2>2, <4>1
      <4>3. QED BY <1>1, <1>4, <1>10, <3>2, <4>1, <4>2
    <3>3. QED BY <3>1, <3>2
  <2>3. QED BY <2>1, <2>2 DEF TxWork
<1>19. OpenOnce'
  <2> SUFFICES ASSUME NEW l \in Conns, NEW i \in sess'[l].work
               PROVE  /\ i \in acked' /\ count'[i] = 0
                      /\ \A m \in Conns : i \in sess'[m].work => m = l
    BY DEF OpenOnce
  <2>1. i \in Items /\ \A m \in Conns : i \in sess'[m].work => i \in sess[m].work
    BY <1>9, <1>11 DEF s, Session
  <2>2. i \notin e.done
    BY <1>1, <1>9, <1>11, <2>1 DEF PoolInv, OpenOnce, s
  <2>3. QED BY <1>8, <2>1, <2>2 DEF PoolInv, OpenOnce
<1>20. Progress'
  <2>1. t # "ok"
    BY <1>7
  <2>2. \A v \in Users : v # u => pc'[v] = pc[v] /\ told'[v] = told[v]
    BY <1>10
  <2>3. pc'[u] = "done" /\ told'[u] # "ok"
    BY <1>10, <2>1
  <2>4. acked' = acked /\ row' = row /\ path' = path /\ job' = job
    BY <1>3, <1>8
  <2>5. QED BY <2>2, <2>3, <2>4 DEF PoolInv, Progress
<1>21. Counted'
  <2> SUFFICES ASSUME NEW v \in Users, NEW r \in Rows
               PROVE  LET i == <<v, r>> IN
                      IF tenant.autocommit
                      THEN /\ i \in acked => count'[i] >= 1 /\ count'[i] <= 1 + lost'[v]
                           /\ i \notin acked => count'[i] <= lost'[v]
                      ELSE /\ i \in acked => count'[i] <= 1
                           /\ i \notin acked => count'[i] = 0
    BY <1>3, <1>8 DEF Counted
  <2>1. <<v, r>> \in Items /\ count[<<v, r>>] \in Nat /\ lost[v] \in Nat /\ lost'[v] \in Nat
    BY <1>8, ItemParts DEF PoolInv, TypeOK
  <2>2. lost'[v] >= lost[v]
    BY <1>8, <2>1
  <2>3. CASE <<v, r>> \notin e.done
    BY <1>8, <2>1, <2>2, <2>3 DEF PoolInv, Counted
  <2>4. CASE <<v, r>> \in e.done
    <3>1. <<v, r>> \in s.work /\ ~tenant.autocommit
      BY <1>1, <1>11, <2>4
    <3>2. <<v, r>> \in acked /\ count[<<v, r>>] = 0
      BY <1>1, <3>1 DEF PoolInv, OpenOnce, s
    <3>3. QED BY <1>8, <2>1, <2>4, <3>1, <3>2
  <2>5. QED BY <2>3, <2>4
<1>22. TxRows'
  <2>1. ASSUME NEW v \in Users, NEW r \in Rows, v # u, job[v] = "tx" \/ job[v] = "none"
        PROVE  count'[<<v, r>>] = count[<<v, r>>]
    <3>1. <<v, r>> \in Items /\ (<<v, r>> \in s.work => job[v] # "tx")
      BY <1>12, <2>1, ItemParts
    <3>2. <<v, r>> \in s.work => job[v] # "none"
      <4>1. SUFFICES ASSUME job[v] = "none" PROVE <<v, r>> \notin acked
        BY <1>1 DEF PoolInv, OpenOnce, s
      <4>2. pc[v] = "idle" /\ row[v] = 0
        BY <4>1 DEF PoolInv, Phase, TypeOK
      <4>3. QED BY <4>2 DEF PoolInv, Progress, Rows
    <3>3. QED BY <1>8, <1>11, <2>1, <3>1, <3>2
  <2>2. ASSUME NEW r \in Rows
        PROVE  LET i == <<u, r>> IN
               /\ ~tenant.autocommit /\ t \notin {"committed", "unknown"} => count'[i] = 0
               /\ t = "committed" => count'[i] = IF i \in acked THEN 1 ELSE 0
    <3> DEFINE i == <<u, r>>
    <3>1. i \in Items /\ count[i] \in Nat
      BY ItemParts DEF PoolInv, TypeOK
    <3>2. ~tenant.autocommit => count[i] = 0
      BY <1>1 DEF PoolInv, TxRows
    <3>3. ASSUME t \notin {"committed", "unknown"} PROVE e.done = {}
      BY <1>4, <1>6, <3>3 DEF FinishEnd
    <3>4. ASSUME t = "committed" PROVE count'[i] = IF i \in acked THEN 1 ELSE 0
      <4>1. e.err = "ok" /\ commit
        BY <1>4, <1>6, <3>4 DEF FinishEnd
      <4>2. ~s.bad /\ e.done = s.work
        BY <1>6, <4>1 DEF FinishEnd
      <4>3. /\ i \notin acked => count[i] = 0
            /\ i \in acked => IF tenant.autocommit THEN count[i] = 1 ELSE i \in s.work
        BY <1>1, <4>2 DEF PoolInv, TxRows, k, s
      <4>4. i \in s.work => i \in acked
        BY <1>1 DEF PoolInv, OpenOnce, s
      <4>5. QED BY <1>1, <1>8, <3>1, <3>2, <4>2, <4>3, <4>4
    <3>5. QED BY <1>8, <3>1, <3>2, <3>3, <3>4
  <2>3. \A v \in Users : v # u /\ pc[v] = "tx" => sess'[at[v]] = sess[at[v]]
    BY <1>1, <1>9 DEF PoolInv, Owned
  <2> SUFFICES ASSUME NEW v \in Users, NEW r \in Rows
               PROVE  LET i == <<v, r>> IN
                      /\ pc'[v] \in {"idle", "get", "stmt"} /\ job[v] \in {"none", "tx"} => count'[i] = 0
                      /\ pc'[v] = "tx" /\ ~sess'[at'[v]].bad =>
                            IF i \notin acked THEN count'[i] = 0
                            ELSE IF tenant.autocommit THEN count'[i] = 1 ELSE i \in sess'[at'[v]].work
                      /\ ~tenant.autocommit /\ job[v] = "tx" /\ told'[v] \notin {"committed", "unknown"}
                            => count'[i] = 0
                      /\ job[v] = "tx" /\ told'[v] = "committed" => count'[i] = IF i \in acked THEN 1 ELSE 0
    BY <1>3, <1>8 DEF TxRows
  <2>4. CASE v = u
    BY <1>10, <2>2, <2>4
  <2>5. CASE v # u
    <3>1. pc[v] = "tx" => job[v] = "tx"
      BY DEF PoolInv, Phase
    <3>2. QED BY <1>10, <2>1, <2>3, <2>5, <3>1 DEF PoolInv, TxRows
  <2>6. QED BY <2>4, <2>5
<1>23. TxSessions'
  BY <1>3 DEF PoolInv, TxSessions
<1>24. QED BY <1>13, <1>14, <1>15, <1>16, <1>17, <1>18, <1>19, <1>20, <1>21, <1>22, <1>23 DEF PoolInv

(***************************************************************************)
(* Getting a connection.                                                   *)
(***************************************************************************)

LEMMA BeginKeeps == ASSUME PoolInv, NEW u \in Users, Begin(u) PROVE PoolInv'
<1> USE PoolAssumption
<1>1. PICK j \in Jobs : (j = "tx" => AnyCommit \/ ~tenant.autocommit) /\ job' = [job EXCEPT ![u] = j]
  BY DEF Begin
<1>2. /\ pc[u] = "idle" /\ pc' = [pc EXCEPT ![u] = "get"] /\ j # "none"
      /\ UNCHANGED <<tenant, pool, sess, at, tries, path, row, ctxDone, told, count, lost, acked>>
  BY <1>1 DEF Begin, AllJobs
<1>3. job[u] = "none" /\ row[u] = 0 /\ path[u] = "native" /\ told[u] = "nothing"
  BY <1>2 DEF PoolInv, Phase, TypeOK
<1>4. /\ pc'[u] = "get" /\ job'[u] = j
      /\ \A v \in Users : v # u => pc'[v] = pc[v] /\ job'[v] = job[v]
  BY <1>1, <1>2 DEF PoolInv, TypeOK
\* Nobody has a row of this user yet.
<1>5. \A k \in Conns : \A i \in sess[k].work : i[1] \in Users /\ i[1] # u
  <2> SUFFICES ASSUME NEW k \in Conns, NEW i \in sess[k].work PROVE i[1] \in Users /\ i[1] # u
    OBVIOUS
  <2>1. i[1] \in Users /\ i[2] \in Rows /\ i = <<i[1], i[2]>>
    BY ItemParts DEF PoolInv, TypeOK, Session
  <2>2. i \in acked
    BY DEF PoolInv, OpenOnce
  <2>3. \A r \in Rows : <<u, r>> \notin acked
    BY <1>2, <1>3 DEF PoolInv, Progress, Rows
  <2>4. QED BY <2>1, <2>2, <2>3
<1>6. TypeOK'
  <2>1. /\ pc' \in [Users -> {"idle", "get", "stmt", "tx", "done"}]
        /\ job' \in [Users -> Jobs \cup {"none"}]
    BY <1>1, <1>2 DEF PoolInv, TypeOK
  <2>2. QED BY <1>2, <2>1 DEF PoolInv, TypeOK
<1>7. Owned'
  BY <1>2, <1>4 DEF PoolInv, Owned
<1>8. Phase'
  BY <1>2, <1>3, <1>4 DEF PoolInv, Phase
<1>9. Sound'
  BY <1>2 DEF PoolInv, Sound
<1>10. HandedOutClean'
  BY <1>2, <1>4, <1>5 DEF PoolInv, HandedOutClean, Owned
<1>11. TxWork'
  <2>1. \A v \in Users : pc'[v] = "tx" => sess'[at'[v]].inTx
    BY <1>2, <1>4 DEF PoolInv, TxWork
  <2>2. ASSUME NEW l \in Conns, NEW i \in sess'[l].work, job'[i[1]] = "tx"
        PROVE  /\ sess'[l].inTx
               /\ \/ pc'[i[1]] = "tx" /\ at'[i[1]] = l
                  \/ pool'[l] = "free" /\ told'[i[1]] = "refused"
    <3>1. i \in sess[l].work /\ pc'[i[1]] = pc[i[1]] /\ job[i[1]] = "tx"
      BY <1>2, <1>4, <1>5, <2>2
    <3>2. QED BY <1>2, <3>1 DEF PoolInv, TxWork
  <2>3. QED BY <2>1, <2>2 DEF TxWork
<1>12. OpenOnce' /\ Counted'
  BY <1>2 DEF PoolInv, OpenOnce, Counted
<1>13. Progress'
  BY <1>2, <1>3, <1>4 DEF PoolInv, Progress
<1>14. TxRows'
  <2>1. \A r \in Rows : count[<<u, r>>] = 0
    BY <1>2, <1>3 DEF PoolInv, TxRows
  <2> SUFFICES ASSUME NEW v \in Users, NEW r \in Rows
               PROVE  LET i == <<v, r>> IN
                      /\ pc'[v] \in {"idle", "get", "stmt"} /\ job'[v] \in {"none", "tx"} => count[i] = 0
                      /\ pc'[v] = "tx" /\ ~sess[at[v]].bad =>
                            IF i \notin acked THEN count[i] = 0
                            ELSE IF tenant.autocommit THEN count[i] = 1 ELSE i \in sess[at[v]].work
                      /\ ~tenant.autocommit /\ job'[v] = "tx" /\ told[v] \notin {"committed", "unknown"}
                            => count[i] = 0
                      /\ job'[v] = "tx" /\ told[v] = "committed" => count[i] = IF i \in acked THEN 1 ELSE 0
    BY <1>2 DEF TxRows
  <2>2. CASE v = u
    BY <1>3, <1>4, <2>1, <2>2
  <2>3. CASE v # u
    BY <1>4, <2>3 DEF PoolInv, TxRows
  <2>4. QED BY <2>2, <2>3
<1>15. TxSessions'
  BY <1>1, <1>2, <1>4 DEF PoolInv, TxSessions
<1>16. QED BY <1>6, <1>7, <1>8, <1>9, <1>10, <1>11, <1>12, <1>13, <1>14, <1>15 DEF PoolInv

\* A user that asked for a connection gets slot k with session s: clean, and with no
\* open row but the ones the slot had that are of no transaction.
Handed(u, k, s) ==
    /\ pc[u] = "get" /\ pool[k] # "used" /\ s \in Session
    /\ ~s.bad /\ ~s.inTx /\ s.work \subseteq sess[k].work
    /\ \A i \in s.work : job[i[1]] # "tx"
    /\ tenant.oracle => s.zone = "home" /\ s.loc = "home"
    /\ pool' = [pool EXCEPT ![k] = "used"]
    /\ sess' = [sess EXCEPT ![k] = s]
    /\ at' = [at EXCEPT ![u] = k]
    /\ pc' = [pc EXCEPT ![u] = "stmt"]
    /\ UNCHANGED <<tenant, job, tries, path, row, ctxDone, told, count, lost, acked>>

LEMMA HandedKeeps ==
    ASSUME PoolInv, NEW u \in Users, NEW k \in Conns, NEW s, Handed(u, k, s)
    PROVE  PoolInv'
<1> USE PoolAssumption
<1>1. /\ pc[u] = "get" /\ pool[k] # "used" /\ s \in Session
      /\ ~s.bad /\ ~s.inTx /\ s.work \subseteq sess[k].work
      /\ \A i \in s.work : job[i[1]] # "tx"
      /\ tenant.oracle => s.zone = "home" /\ s.loc = "home"
      /\ UNCHANGED <<tenant, job, tries, path, row, ctxDone, told, count, lost, acked>>
  BY DEF Handed
<1>2. /\ pool' \in [Conns -> {"none", "free", "used"}] /\ sess' \in [Conns -> Session]
      /\ pool'[k] = "used" /\ sess'[k] = s
      /\ \A l \in Conns : l # k => pool'[l] = pool[l] /\ sess'[l] = sess[l]
  BY DEF Handed, PoolInv, TypeOK
<1>3. /\ at' \in [Users -> Conns \cup {NoConn}]
      /\ pc' \in [Users -> {"idle", "get", "stmt", "tx", "done"}]
      /\ at'[u] = k /\ pc'[u] = "stmt"
      /\ \A v \in Users : v # u => at'[v] = at[v] /\ pc'[v] = pc[v]
  BY DEF Handed, PoolInv, TypeOK
<1>4. \A v \in Users : at[v] \in Conns => at[v] # k
  BY <1>1 DEF PoolInv, Owned
<1>5. TypeOK'
  BY <1>1, <1>2, <1>3 DEF PoolInv, TypeOK
<1>6. Owned'
  <2>1. \A v \in Users : pc'[v] \in {"stmt", "tx"} <=> at'[v] \in Conns
    BY <1>3 DEF PoolInv, Owned
  <2>2. \A v \in Users : at'[v] \in Conns => pool'[at'[v]] = "used"
    BY <1>2, <1>3, <1>4 DEF PoolInv, Owned
  <2>3. \A v, w \in Users : at'[v] \in Conns /\ at'[v] = at'[w] => v = w
    BY <1>3, <1>4 DEF PoolInv, Owned
  <2>4. QED BY <2>1, <2>2, <2>3 DEF Owned
<1>7. Phase'
  BY <1>1, <1>3 DEF PoolInv, Phase
<1>8. Sound'
  BY <1>1, <1>2 DEF PoolInv, Sound
<1>9. HandedOutClean'
  <2> SUFFICES ASSUME NEW v \in Users, pc'[v] = "stmt"
               PROVE  LET x == sess'[at'[v]] IN
                      /\ ~x.bad /\ ~x.inTx
                      /\ \A i \in x.work : job[i[1]] # "tx"
                      /\ tenant.oracle => x.zone = "home" /\ x.loc = "home"
    BY <1>1 DEF HandedOutClean
  <2>1. CASE v = u
    BY <1>1, <1>2, <1>3, <2>1
  <2>2. CASE v # u
    <3>1. pc[v] = "stmt" /\ at'[v] = at[v] /\ sess'[at[v]] = sess[at[v]]
      BY <1>2, <1>3, <1>4, <2>2 DEF PoolInv, Owned
    <3>2. QED BY <3>1 DEF PoolInv, HandedOutClean
  <2>3. QED BY <2>1, <2>2
<1>10. \A v \in Users : pc'[v] = "tx" =>
          v # u /\ pc[v] = "tx" /\ at'[v] = at[v] /\ sess'[at[v]] = sess[at[v]]
  BY <1>2, <1>3, <1>4 DEF PoolInv, Owned
<1>11. TxWork'
  <2>1. \A v \in Users : pc'[v] = "tx" => sess'[at'[v]].inTx
    BY <1>10 DEF PoolInv, TxWork
  <2>2. ASSUME NEW l \in Conns, NEW i \in sess'[l].work, job'[i[1]] = "tx"
        PROVE  /\ sess'[l].inTx
               /\ \/ pc'[i[1]] = "tx" /\ at'[i[1]] = l
                  \/ pool'[l] = "free" /\ told'[i[1]] = "refused"
    <3>1. l # k
      BY <1>1, <1>2, <2>2
    <3>2. sess'[l] = sess[l] /\ pool'[l] = pool[l] /\ i[1] \in Users
      BY <1>2, <2>2, <3>1, ItemParts DEF Session
    <3>3. QED BY <1>1, <1>3, <2>2, <3>1, <3>2 DEF PoolInv, TxWork
  <2>3. QED BY <2>1, <2>2 DEF TxWork
<1>12. OpenOnce'
  <2>1. \A l \in Conns : sess'[l].work \subseteq sess[l].work
    BY <1>1, <1>2
  <2>2. QED BY <1>1, <2>1 DEF PoolInv, OpenOnce
<1>13. Counted' /\ TxSessions'
  BY <1>1 DEF PoolInv, Counted, TxSessions
<1>14. Progress'
  BY <1>1, <1>3 DEF PoolInv, Progress
<1>15. TxRows'
  <2> SUFFICES ASSUME NEW v \in Users, NEW r \in Rows
               PROVE  LET i == <<v, r>> IN
                      /\ pc'[v] \in {"idle", "get", "stmt"} /\ job[v] \in {"none", "tx"} => count[i] = 0
                      /\ pc'[v] = "tx" /\ ~sess'[at'[v]].bad =>
                            IF i \notin acked THEN count[i] = 0
                            ELSE IF tenant.autocommit THEN count[i] = 1 ELSE i \in sess'[at'[v]].work
                      /\ ~tenant.autocommit /\ job[v] = "tx" /\ told[v] \notin {"committed", "unknown"}
                            => count[i] = 0
                      /\ job[v] = "tx" /\ told[v] = "committed" => count[i] = IF i \in acked THEN 1 ELSE 0
    BY <1>1 DEF TxRows
  <2>1. QED BY <1>1, <1>3, <1>10 DEF PoolInv, TxRows
<1>16. QED BY <1>5, <1>6, <1>7, <1>8, <1>9, <1>11, <1>12, <1>13, <1>14, <1>15 DEF PoolInv

\* A free connection whose reset fails is closed.
LEMMA DroppedKeeps ==
    ASSUME PoolInv, NEW u \in Users, NEW k \in Conns, pool[k] = "free",
           pc[u] = "get", tries[u] < MaxBadConnRetries,
           pool' = [pool EXCEPT ![k] = "none"], sess' = [sess EXCEPT ![k] = Fresh],
           tries' = [tries EXCEPT ![u] = @ + 1],
           UNCHANGED <<pc, at, tenant, job, path, row, ctxDone, told, count, lost, acked>>
    PROVE  PoolInv'
<1> USE PoolAssumption
<1>1. /\ pool' \in [Conns -> {"none", "free", "used"}] /\ sess' \in [Conns -> Session]
      /\ pool'[k] = "none" /\ sess'[k] = Fresh
      /\ \A l \in Conns : l # k => pool'[l] = pool[l] /\ sess'[l] = sess[l]
  BY FreshSession DEF PoolInv, TypeOK
<1>2. \A v \in Users : at[v] \in Conns => at[v] # k
  BY DEF PoolInv, Owned
<1>3. \A v \in Users : pc[v] \in {"stmt", "tx"} => sess'[at[v]] = sess[at[v]]
  BY <1>1, <1>2 DEF PoolInv, Owned
<1>4. TypeOK'
  <2>1. tries' \in [Users -> 0..MaxBadConnRetries]
    BY DEF PoolInv, TypeOK, MaxBadConnRetries
  <2>2. QED BY <1>1, <2>1 DEF PoolInv, TypeOK
<1>5. Owned'
  BY <1>1, <1>2 DEF PoolInv, Owned
<1>6. Phase' /\ Progress' /\ Counted' /\ TxSessions'
  BY DEF PoolInv, Phase, Progress, Counted, TxSessions
<1>7. Sound'
  BY <1>1, FreshSession DEF PoolInv, Sound
<1>8. HandedOutClean'
  BY <1>3 DEF PoolInv, HandedOutClean
<1>9. TxWork'
  BY <1>1, <1>3, FreshSession DEF PoolInv, TxWork
<1>10. OpenOnce'
  <2>1. \A l \in Conns : sess'[l].work \subseteq sess[l].work
    BY <1>1, FreshSession
  <2>2. QED BY <2>1 DEF PoolInv, OpenOnce
<1>11. TxRows'
  BY <1>3 DEF PoolInv, TxRows
<1>12. QED BY <1>4, <1>5, <1>6, <1>7, <1>8, <1>9, <1>10, <1>11 DEF PoolInv

LEMMA GetFreeKeeps == ASSUME PoolInv, NEW u \in Users, GetFree(u) PROVE PoolInv'
<1>1. /\ pc[u] = "get" /\ tries[u] < MaxBadConnRetries
      /\ UNCHANGED <<tenant, job, path, row, ctxDone, told, count, lost, acked>>
  BY DEF GetFree
<1>2. PICK k \in Conns : pool[k] = "free" /\ \E e \in ResetSession(sess[k]) :
          IF e.err = "bad"
          THEN /\ Put(k, e.s, e.err)
               /\ tries' = [tries EXCEPT ![u] = @ + 1]
               /\ UNCHANGED <<pc, at>>
          ELSE /\ pool' = [pool EXCEPT ![k] = "used"]
               /\ sess' = [sess EXCEPT ![k] = e.s]
               /\ at' = [at EXCEPT ![u] = k]
               /\ pc' = [pc EXCEPT ![u] = "stmt"]
               /\ UNCHANGED tries
  BY DEF GetFree
<1>3. PICK e \in ResetSession(sess[k]) :
          IF e.err = "bad"
          THEN /\ Put(k, e.s, e.err)
               /\ tries' = [tries EXCEPT ![u] = @ + 1]
               /\ UNCHANGED <<pc, at>>
          ELSE /\ pool' = [pool EXCEPT ![k] = "used"]
               /\ sess' = [sess EXCEPT ![k] = e.s]
               /\ at' = [at EXCEPT ![u] = k]
               /\ pc' = [pc EXCEPT ![u] = "stmt"]
               /\ UNCHANGED tries
  BY <1>2
<1>4. ResetEnd(sess[k], e)
  <2>1. sess[k] \in Session
    BY DEF PoolInv, TypeOK
  <2>2. QED BY <1>3, <2>1, ResetSessionEnds
<1>5. CASE e.err = "bad"
  <2>1. pool' = [pool EXCEPT ![k] = "none"] /\ sess' = [sess EXCEPT ![k] = Fresh]
    BY <1>3, <1>5 DEF Put
  <2>2. tries' = [tries EXCEPT ![u] = @ + 1] /\ UNCHANGED <<pc, at>>
    BY <1>3, <1>5
  <2>3. QED BY <1>1, <1>2, <2>1, <2>2, DroppedKeeps
<1>6. CASE e.err # "bad"
  \* Without inTx the slot has no open row of a transaction; with it the reset rolled back.
  <2>1. \A i \in e.s.work : job[i[1]] # "tx"
    BY <1>4, <1>6 DEF ResetEnd, PoolInv, TxWork
  <2>2. /\ e.s \in Session /\ ~e.s.bad /\ ~e.s.inTx /\ e.s.work \subseteq sess[k].work
        /\ tenant.oracle => e.s.zone = "home" /\ e.s.loc = "home"
    BY <1>4, <1>6 DEF ResetEnd
  <2>3. /\ pool' = [pool EXCEPT ![k] = "used"] /\ sess' = [sess EXCEPT ![k] = e.s]
        /\ at' = [at EXCEPT ![u] = k] /\ pc' = [pc EXCEPT ![u] = "stmt"] /\ UNCHANGED tries
    BY <1>3, <1>6
  <2>4. Handed(u, k, e.s)
    BY <1>1, <1>2, <2>1, <2>2, <2>3 DEF Handed
  <2>5. QED BY <2>4, HandedKeeps
<1>7. QED BY <1>5, <1>6

LEMMA GetNewKeeps == ASSUME PoolInv, NEW u \in Users, GetNew(u) PROVE PoolInv'
<1>1. PICK k \in Conns : /\ pool[k] = "none"
                         /\ pool' = [pool EXCEPT ![k] = "used"]
                         /\ sess' = [sess EXCEPT ![k] = Fresh]
                         /\ at' = [at EXCEPT ![u] = k]
  BY DEF GetNew
<1>2. Handed(u, k, Fresh)
  BY <1>1, FreshSession DEF Handed, GetNew
<1>3. QED BY <1>2, HandedKeeps

LEMMA GetFailsKeeps == ASSUME PoolInv, NEW u \in Users, GetFails(u) PROVE PoolInv'
<1> USE PoolAssumption
<1>1. pc[u] = "get" /\ UNCHANGED <<tenant, pool, sess, job, at, row, ctxDone, count, lost, acked>>
  BY DEF GetFails
<1>2. told[u] = "nothing" /\ job[u] # "none"
  BY <1>1 DEF PoolInv, Phase
<1>3. CASE job[u] = "bulk" /\ path[u] = "native"
  <2>1. /\ path' = [path EXCEPT ![u] = "rewrite"] /\ tries' = [tries EXCEPT ![u] = 0]
        /\ UNCHANGED <<pc, told>> /\ row[u] = 0
    BY <1>3 DEF GetFails, PoolInv, Phase
  <2>2. path'[u] = "rewrite" /\ \A v \in Users : v # u => path'[v] = path[v]
    BY <2>1 DEF PoolInv, TypeOK
  <2>3. TypeOK'
    <3>1. path' \in [Users -> {"native", "rewrite"}] /\ tries' \in [Users -> 0..MaxBadConnRetries]
      BY <2>1 DEF PoolInv, TypeOK, MaxBadConnRetries
    <3>2. QED BY <1>1, <2>1, <3>1 DEF PoolInv, TypeOK
  <2>4. Owned' /\ Sound' /\ HandedOutClean' /\ TxWork' /\ TxSessions'
    BY <1>1, <2>1 DEF PoolInv, Owned, Sound, HandedOutClean, TxWork, TxSessions
  <2>5. OpenOnce' /\ Counted' /\ TxRows'
    BY <1>1, <2>1 DEF PoolInv, OpenOnce, Counted, TxRows
  <2>6. Phase'
    BY <1>1, <1>3, <2>1, <2>2 DEF PoolInv, Phase
  <2>7. Progress'
    <3>1. \A r \in Rows : ~(r <= row[u])
      BY <2>1 DEF Rows
    <3>2. QED BY <1>1, <2>1, <2>2, <3>1 DEF PoolInv, Progress
  <2>8. QED BY <2>3, <2>4, <2>5, <2>6, <2>7 DEF PoolInv
<1>4. CASE ~(job[u] = "bulk" /\ path[u] = "native")
  <2>1. /\ told' = [told EXCEPT ![u] = "error"] /\ pc' = [pc EXCEPT ![u] = "done"]
        /\ UNCHANGED <<path, tries>>
    BY <1>4 DEF GetFails, Tell
  <2>2. /\ told'[u] = "error" /\ pc'[u] = "done"
        /\ \A v \in Users : v # u => told'[v] = told[v] /\ pc'[v] = pc[v]
    BY <2>1 DEF PoolInv, TypeOK
  <2>3. TypeOK'
    <3>1. /\ pc' \in [Users -> {"idle", "get", "stmt", "tx", "done"}]
          /\ told' \in [Users -> {"nothing", "ok", "error", "committed", "rolledback", "refused", "unknown"}]
      BY <2>1 DEF PoolInv, TypeOK
    <3>2. QED BY <1>1, <2>1, <3>1 DEF PoolInv, TypeOK
  <2>4. Owned' /\ Sound' /\ HandedOutClean'
    BY <1>1, <2>2 DEF PoolInv, Owned, Sound, HandedOutClean
  <2>5. TxWork'
    <3>1. \A v \in Users : pc'[v] = "tx" => sess'[at'[v]].inTx
      BY <1>1, <2>2 DEF PoolInv, TxWork
    <3>2. ASSUME NEW l \in Conns, NEW i \in sess'[l].work, job'[i[1]] = "tx"
          PROVE  /\ sess'[l].inTx
                 /\ \/ pc'[i[1]] = "tx" /\ at'[i[1]] = l
                    \/ pool'[l] = "free" /\ told'[i[1]] = "refused"
      <4>1. i \in sess[l].work /\ i[1] \in Users /\ job[i[1]] = "tx"
        BY <1>1, <3>2, ItemParts DEF PoolInv, TypeOK, Session
      <4>2. /\ sess[l].inTx
            /\ (pc[i[1]] = "tx" /\ at[i[1]] = l) \/ (pool[l] = "free" /\ told[i[1]] = "refused")
        BY <4>1 DEF PoolInv, TxWork
      <4>3. i[1] # u
        BY <1>1, <1>2, <4>2
      <4>4. QED BY <1>1, <2>2, <4>1, <4>2, <4>3
    <3>3. QED BY <3>1, <3>2 DEF TxWork
  <2>6. OpenOnce' /\ Counted' /\ TxSessions'
    BY <1>1 DEF PoolInv, OpenOnce, Counted, TxSessions
  <2>7. Phase'
    BY <1>1, <1>2, <1>4, <2>1, <2>2 DEF PoolInv, Phase
  <2>8. Progress'
    BY <1>1, <2>1, <2>2 DEF PoolInv, Progress
  <2>9. TxRows'
    BY <1>1, <1>2, <2>2 DEF PoolInv, TxRows
  <2>10. QED BY <2>3, <2>4, <2>5, <2>6, <2>7, <2>8, <2>9 DEF PoolInv
<1>5. QED BY <1>3, <1>4

(***************************************************************************)
(* The theorems.                                                           *)
(***************************************************************************)
LEMMA InitPool == Init => PoolInv
<1> SUFFICES ASSUME Init PROVE PoolInv
  OBVIOUS
<1> USE PoolAssumption
<1>1. /\ \A k \in Conns : pool[k] = "none" /\ sess[k] = Fresh
      /\ \A u \in Users : /\ pc[u] = "idle" /\ job[u] = "none" /\ at[u] = NoConn /\ row[u] = 0
                          /\ path[u] = "native" /\ told[u] = "nothing" /\ lost[u] = 0
      /\ \A i \in Items : count[i] = 0
      /\ acked = {}
  BY DEF Init
<1>2. TypeOK
  <2>1. sess \in [Conns -> Session]
    BY FreshSession DEF Init
  <2>2. /\ tries \in [Users -> 0..MaxBadConnRetries] /\ row \in [Users -> 0..NRows]
        /\ count \in [Items -> Nat] /\ lost \in [Users -> Nat]
    BY DEF Init, MaxBadConnRetries
  <2>3. /\ pool \in [Conns -> {"none", "free", "used"}]
        /\ pc \in [Users -> {"idle", "get", "stmt", "tx", "done"}]
        /\ job \in [Users -> Jobs \cup {"none"}]
        /\ at \in [Users -> Conns \cup {NoConn}]
        /\ path \in [Users -> {"native", "rewrite"}]
        /\ told \in [Users -> {"nothing", "ok", "error", "committed", "rolledback", "refused", "unknown"}]
    BY DEF Init
  <2>4. ctxDone \in [Users -> BOOLEAN] /\ acked \subseteq Items
        /\ tenant \in [oracle : BOOLEAN, autocommit : BOOLEAN]
    BY DEF Init
  <2>5. QED BY <2>1, <2>2, <2>3, <2>4 DEF TypeOK
<1>3. Owned /\ Phase /\ TxSessions /\ HandedOutClean
  BY <1>1 DEF Owned, Phase, TxSessions, HandedOutClean
<1>4. Sound /\ OpenOnce /\ TxWork
  BY <1>1, FreshSession DEF Sound, OpenOnce, TxWork
<1>5. Progress
  BY <1>1 DEF Progress, Rows
<1>6. Counted /\ TxRows
  BY <1>1, ItemParts DEF Counted, TxRows
<1>7. QED BY <1>2, <1>3, <1>4, <1>5, <1>6 DEF PoolInv

LEMMA NextPool == PoolInv /\ [Next]_vars => PoolInv'
<1> SUFFICES ASSUME PoolInv, [Next]_vars PROVE PoolInv'
  OBVIOUS
<1>1. CASE Next
  <2>1. PICK u \in Users :
           \/ Begin(u) \/ GetFree(u) \/ GetNew(u) \/ GetFails(u)
           \/ Exec(u) \/ ExecZone(u)
           \/ BeginTx(u) \/ TxExec(u) \/ TxFinish(u, TRUE) \/ TxFinish(u, FALSE)
           \/ NativeBulk(u) \/ RewriteBulk(u)
    BY <1>1 DEF Next
  <2>2. CASE Begin(u)       BY <2>2, BeginKeeps
  <2>3. CASE GetFree(u)     BY <2>3, GetFreeKeeps
  <2>4. CASE GetNew(u)      BY <2>4, GetNewKeeps
  <2>5. CASE GetFails(u)    BY <2>5, GetFailsKeeps
  <2>6. CASE Exec(u)        BY <2>6, ExecKeeps
  <2>7. CASE ExecZone(u)    BY <2>7, ExecZoneKeeps
  <2>8. CASE BeginTx(u)     BY <2>8, BeginTxKeeps
  <2>9. CASE TxExec(u)      BY <2>9, TxExecKeeps
  <2>10. CASE TxFinish(u, TRUE)  BY <2>10, TxFinishKeeps
  <2>11. CASE TxFinish(u, FALSE) BY <2>11, TxFinishKeeps
  <2>12. CASE NativeBulk(u)  BY <2>12, NativeBulkKeeps
  <2>13. CASE RewriteBulk(u) BY <2>13, RewriteBulkKeeps
  <2>14. QED BY <2>1, <2>2, <2>3, <2>4, <2>5, <2>6, <2>7, <2>8, <2>9, <2>10, <2>11, <2>12, <2>13
<1>2. CASE UNCHANGED vars
  <2> USE <1>2 DEF vars, PoolInv
  <2>1. TypeOK' /\ Owned' /\ Phase' /\ Sound'
    BY DEF TypeOK, Owned, Phase, Sound
  <2>2. HandedOutClean' /\ TxWork' /\ OpenOnce' /\ TxSessions'
    BY DEF HandedOutClean, TxWork, OpenOnce, TxSessions
  <2>3. Progress' /\ Counted' /\ TxRows'
    BY DEF Progress, Counted, TxRows
  <2>4. QED BY <2>1, <2>2, <2>3
<1>3. QED BY <1>1, <1>2

LEMMA PoolInvariant == Spec => []PoolInv
BY InitPool, NextPool, PTL DEF Spec

\* Every variable keeps its type; in particular no chunk of BulkInsert's fallback
\* reaches past the rows it was given.
THEOREM PoolTypes == Spec => []TypeOK
<1>1. PoolInv => TypeOK
  BY DEF PoolInv
<1>2. QED BY <1>1, PoolInvariant, PTL

\* However many users and connections there are, whoever gets a connection finds it
\* clean: ResetSession undoes what the user before left.
THEOREM PoolHandsOutClean == Spec => []HandedOutClean
<1>1. PoolInv => HandedOutClean
  BY DEF PoolInv
<1>2. QED BY <1>1, PoolInvariant, PTL

\* sessionLocation follows the session's time zone as long as the connection is used.
THEOREM ZoneFollows == Spec => []ZoneInStep
<1>1. PoolInv => ZoneInStep
  BY DEF PoolInv, Sound, ZoneInStep
<1>2. QED BY <1>1, PoolInvariant, PTL

\* On sessions that do not commit by themselves a transaction that was rolled back or
\* refused leaves nothing.  The assumption is needed: BeginTx sends nothing to the
\* server, so a session that commits by itself commits every statement.
THEOREM RollbackUndoes == ASSUME ~AnyCommit PROVE Spec => []RolledBackIsUndone
<1>1. PoolInv => RolledBackIsUndone
  <2> SUFFICES ASSUME PoolInv, NEW i \in Items, job[i[1]] = "tx", told[i[1]] \in {"rolledback", "refused"}
               PROVE  count[i] = 0
    BY DEF RolledBackIsUndone
  <2>1. i[1] \in Users /\ i[2] \in Rows /\ i = <<i[1], i[2]>>
    BY ItemParts
  <2>2. ~tenant.autocommit
    BY <2>1 DEF PoolInv, TxSessions
  <2>3. count[<<i[1], i[2]>>] = 0
    BY <2>1, <2>2 DEF PoolInv, TxRows
  <2>4. QED BY <2>1, <2>3
<1>2. QED BY <1>1, PoolInvariant, PTL

\* A transaction whose Commit succeeded is in the database, each acknowledged row once.
THEOREM CommitIsWhole == Spec => []CommittedIsWhole
<1>1. PoolInv => CommittedIsWhole
  <2> SUFFICES ASSUME PoolInv, NEW i \in Items, job[i[1]] = "tx", told[i[1]] = "committed"
               PROVE  count[i] = IF i \in acked THEN 1 ELSE 0
    BY DEF CommittedIsWhole
  <2>1. i[1] \in Users /\ i[2] \in Rows /\ i = <<i[1], i[2]>>
    BY ItemParts
  <2>2. count[<<i[1], i[2]>>] = IF <<i[1], i[2]>> \in acked THEN 1 ELSE 0
    BY <2>1 DEF PoolInv, TxRows
  <2>3. QED BY <2>1, <2>2
<1>2. QED BY <1>1, PoolInvariant, PTL

\* Retries and the fallback of BulkInsert add at most one copy of a row for each
\* statement that was done and not acknowledged.
THEOREM CopiesOnlyIfLost == Spec => []TwiceOnlyIfLost
<1>1. PoolInv => TwiceOnlyIfLost
  <2> SUFFICES ASSUME PoolInv, NEW i \in Items PROVE count[i] <= 1 + lost[i[1]]
    BY DEF TwiceOnlyIfLost
  <2>1. i[1] \in Users /\ i[2] \in Rows /\ i = <<i[1], i[2]>>
    BY ItemParts
  <2>2. count[<<i[1], i[2]>>] \in Nat /\ lost[i[1]] \in Nat
    BY <2>1 DEF PoolInv, TypeOK
  <2>3. count[<<i[1], i[2]>>] <= 1 + lost[i[1]]
    BY <2>1, <2>2 DEF PoolInv, Counted
  <2>4. QED BY <2>1, <2>3
<1>2. QED BY <1>1, PoolInvariant, PTL

\* Success on a session that commits by itself means that every row is in the database.
THEOREM SuccessIsComplete == Spec => []SuccessMeansAll
<1>1. PoolInv => SuccessMeansAll
  <2> SUFFICES ASSUME PoolInv, NEW u \in Users, tenant.autocommit, told[u] = "ok", NEW r \in Rows,
                      job[u] = "bulk" \/ (job[u] = "exec" /\ r = 1)
               PROVE  count[<<u, r>>] >= 1
    BY DEF SuccessMeansAll
  <2>1. <<u, r>> \in acked
    BY DEF PoolInv, Progress
  <2>2. QED BY <2>1 DEF PoolInv, Counted
<1>2. QED BY <1>1, PoolInvariant, PTL
=============================================================================
