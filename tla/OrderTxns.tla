------------------------------ MODULE OrderTxns -----------------------------
(***************************************************************************)
(* The order core under concurrency.  Every request runs in a transaction  *)
(* of its own (core/database.py: get_db) on PostgreSQL's default isolation *)
(* level, READ COMMITTED, and no query of the services locks what it       *)
(* reads.  A request reads its rows, decides on what it read, and then     *)
(* issues its writes one by one: each UPDATE waits for the row lock and    *)
(* overwrites the changed columns of whatever version it then finds, with  *)
(* values computed from the version read before.                           *)
(*                                                                         *)
(* The variables of Orders are the committed tables.  cur holds the newest *)
(* version of each row, the uncommitted ones of the lock holders included. *)
(* The separate SELECTs a handler starts with are one step here: order     *)
(* rows move only forward, so what passes the checks on rows read at       *)
(* several moments passes them on the rows of the first one.               *)
(***************************************************************************)
EXTENDS Orders, SequencesExt

CONSTANTS
    Txn,        \* database sessions that serve requests
    MaxActive,  \* how many of them are in a transaction at once
    Statements, \* bound: the kinds of statement the requests of a run issue
    DeadlinesPassMidRequest   \* may a deadline pass while a request runs?

ASSUME TxnAssumption ==
    /\ MaxActive \in Nat \ {0}
    /\ DeadlinesPassMidRequest \in BOOLEAN

VARIABLES
    cur,   \* [orders, skus, sessions, cart]: the newest row versions
    txns   \* txns[t]: the statements still to issue, the locks, the rows read

tvars == <<cart, skus, orders, sessions, overdue, autoDue, conflicts, cur, txns>>

-----------------------------------------------------------------------------
(* Transactions and their statements.                                      *)

Idle == [active |-> FALSE, todo |-> <<>>, locks |-> {}, seen |-> [s \in Sku |-> NewSku]]

\* INSERT and UPDATE statements on one row each, and a SELECT of one SKU.
InsertOrder(row)         == [op |-> "insert_order", row |-> row]
UpdateOrder(o, from, to, why) ==
    [op |-> "update_order", order |-> o, from |-> from, to |-> to, why |-> why]
CloseOrder(o)            == [op |-> "close_order", order |-> o]
FetchSku(s)              == [op |-> "fetch_sku", sku |-> s]
UpdateSku(s, how, q)     == [op |-> "update_sku", sku |-> s, how |-> how, qty |-> q]
InsertSession(o)         == [op |-> "insert_session", order |-> o]
UpdateSession(p, o, st)  ==
    [op |-> "update_session", session |-> p, order |-> o, status |-> st]
DeleteCart(u, V)         == [op |-> "delete_cart", user |-> u, items |-> V]

\* The rows and unique-index entries a statement must have locked: an INSERT
\* waits for the transaction that has just inserted, or is about to free, the
\* index entry it needs.
Needs(stmt) ==
    CASE stmt.op = "insert_order" -> {<<"key", stmt.row.user, stmt.row.key>>}
      [] stmt.op = "update_order" ->
           {<<"order", stmt.order>>}
           \cup {<<"key", orders[stmt.order].user, k>> :
                   k \in {orders[stmt.order].key : x \in {stmt.to} \cap {"cancelled"}} \ {NoKey}}
      [] stmt.op = "close_order" -> {<<"order", stmt.order>>}
      [] stmt.op = "fetch_sku" -> {}
      [] stmt.op = "update_sku" -> {<<"sku", stmt.sku>>}
      [] stmt.op = "insert_session" -> {<<"pending", stmt.order>>}
      [] stmt.op = "update_session" ->
           {<<"session", stmt.session>>, <<"pending", stmt.order>>}
      [] stmt.op = "delete_cart" -> {<<"cart", stmt.user, s>> : s \in stmt.items}

Holds(t, r) == r \in txns[t].locks

\* x must wait for y to end.
WaitsFor(x, y) ==
    /\ x # y
    /\ txns[x].todo # <<>>
    /\ Needs(Head(txns[x].todo)) \cap txns[y].locks # {}

\* The SKU row a SELECT of t returns: its own version, or the committed one.
Visible(t, s) == IF Holds(t, <<"sku", s>>) THEN cur.skus[s] ELSE skus[s]

Active == {t \in Txn : txns[t].active}

\* Bound: row ids are finite, so a request that inserts starts only while
\* there are ids left for it and for those under way.
Inserting(op) ==
    {t \in Txn : \E i \in DOMAIN txns[t].todo : txns[t].todo[i].op = op}

FreeOrders == {o \in Order : cur.orders[o].status = "none"}

FreeSessions == {p \in Session : cur.sessions[p].status = "none"}

BeginWith(t, todo, seen) ==
    /\ ~txns[t].active
    /\ Cardinality(Active) < MaxActive
    /\ \A i \in DOMAIN todo : todo[i].op \in Statements
    /\ txns' = [txns EXCEPT ![t] =
                  [active |-> TRUE, todo |-> todo, locks |-> {}, seen |-> seen]]
    /\ UNCHANGED <<vars, cur>>

\* Begin of a request that has read no SKU before its first write.
Begin(t, todo) == BeginWith(t, todo, Idle.seen)

\* The order in which a query without ORDER BY returns the rows of S.
RowOrders(S) ==
    {f \in [1..Cardinality(S) -> S] : \A i, j \in DOMAIN f : f[i] = f[j] => i = j}

\* Statements of _release_stock and of _finalize_sale for an order whose
\* items come back in the order f.  The latter flushes once, at its end, and
\* a flush updates the rows of a table in the order of their primary keys.
ReleaseStmts(o, f) ==
    FlattenSeq([i \in DOMAIN f |->
        <<FetchSku(f[i]), UpdateSku(f[i], "release", orders[o].items[f[i]])>>])

FinalizeStmts(o, f) ==
    LET byKey == SetToSeq(Sku)
    IN  [i \in DOMAIN f |-> FetchSku(f[i])]
        \o FlattenSeq([i \in DOMAIN byKey |->
               IF orders[o].items[byKey[i]] > 0
               THEN <<UpdateSku(byKey[i], "finalize", orders[o].items[byKey[i]])>>
               ELSE <<>>])

ItemOrders(o) == RowOrders({s \in Sku : orders[o].items[s] > 0})

CancelStmts(o, from, why, f) ==
    <<UpdateOrder(o, from, "cancelled", why)>> \o ReleaseStmts(o, f)

CompleteStmts(o, f) ==
    <<UpdateOrder(o, "shipped", "completed", "none")>> \o FinalizeStmts(o, f)

-----------------------------------------------------------------------------
(* Requests: what each reads and checks, and the statements it goes on to  *)
(* issue.  A request that fails its checks rolls back having done nothing. *)

\* create, for the cart items ids (all on sale), shop after shop.
BeginCreate(t, u, k, ids) ==
    LET V     == ValidItems(u, ids, Sku)
        shops == {ShopOf[s] : s \in V}
    IN
    /\ CheckoutReady(u, k, ids, Sku)
    /\ Cardinality(FreeOrders)
         >= Cardinality(shops) * (Cardinality(Inserting("insert_order")) + 1)
    /\ \E f \in RowOrders(V), g \in RowOrders(shops) :
         LET ShopStmts(h) ==
               <<InsertOrder(NewOrder(u, h, k, V))>>
               \o FlattenSeq([i \in DOMAIN f |->
                      IF ShopOf[f[i]] = h
                      THEN <<UpdateSku(f[i], "lock", cart[u][f[i]])>>
                      ELSE <<>>])
         IN  BeginWith(t, FlattenSeq([i \in DOMAIN g |-> ShopStmts(g[i])])
                            \o <<DeleteCart(u, V)>>, skus)

BeginCreateSession(t, o) ==
    /\ orders[o].status = "pending_payment"
    /\ o \notin overdue
    /\ PendingSessions(o) = {}
    /\ Cardinality(FreeSessions) > Cardinality(Inserting("insert_session"))
    /\ Begin(t, <<InsertSession(o)>>)

PayStmts(o, p) ==
    <<UpdateOrder(o, orders[o].status, "paid", "none"), UpdateSession(p, o, "succeeded")>>

\* Mutant: only the session's own status is looked at.
BeginMockSucceedAnyOrder(t, p) ==
    /\ sessions[p].status = "pending"
    /\ Begin(t, PayStmts(sessions[p].order, p))

BeginMockSucceed(t, p) ==
    LET o == sessions[p].order IN
    /\ sessions[p].status = "pending"
    /\ orders[o].status = "pending_payment"
    /\ o \notin overdue
    /\ Begin(t, PayStmts(o, p))

BeginMockFail(t, p) ==
    /\ sessions[p].status = "pending"
    /\ Begin(t, <<UpdateSession(p, sessions[p].order, "failed")>>)

BeginCancel(t, o, why, from) ==
    /\ orders[o].status \in from
    /\ \E f \in ItemOrders(o) : Begin(t, CancelStmts(o, orders[o].status, why, f))

BeginShip(t, o) ==
    /\ orders[o].status = "paid"
    /\ Begin(t, <<UpdateOrder(o, "paid", "shipped", "none")>>)

BeginConfirmReceipt(t, o) ==
    /\ orders[o].status = "shipped"
    /\ \E f \in ItemOrders(o) : Begin(t, CompleteStmts(o, f))

\* A refund that pays an order back (module Aftersales); its statements on the
\* case, which nothing here reads, are left out.
BeginCloseRefunded(t, o) ==
    /\ orders[o].status \in {"paid", "shipped", "completed", "cancelled"}
    /\ Paid(o)
    /\ Begin(t, <<CloseOrder(o)>>)

\* The scans select their batch once and work through the rows as read; the
\* lazy expiry of a detail or list request is the same with its own page.
BeginExpire(t, B) ==
    \E g \in RowOrders(B) :
        \E f \in [B -> UNION {ItemOrders(o) : o \in B}] :
            /\ \A o \in B : f[o] \in ItemOrders(o)
            /\ Begin(t, FlattenSeq([i \in DOMAIN g |->
                          CancelStmts(g[i], "pending_payment", "payment_timeout", f[g[i]])]))

BeginScanExpire(t) == \E B \in Batches(Pending \cap overdue) : BeginExpire(t, B)

BeginGetDetail(t, o) == o \in Pending \cap overdue /\ BeginExpire(t, {o})

BeginListByUser(t, u) ==
    \E page \in SUBSET {o \in Pending \cap overdue : orders[o].user = u} :
        page # {} /\ BeginExpire(t, page)

BeginScanComplete(t) ==
    \E B \in Batches({o \in autoDue : orders[o].status = "shipped"}) :
        \E g \in RowOrders(B) :
            \E f \in [B -> UNION {ItemOrders(o) : o \in B}] :
                /\ \A o \in B : f[o] \in ItemOrders(o)
                /\ Begin(t, FlattenSeq([i \in DOMAIN g |-> CompleteStmts(g[i], f[g[i]])]))

BeginAdjust(t, s, d) ==
    /\ d # 0
    /\ skus[s].stock + d >= 0
    /\ skus[s].stock + skus[s].locked + skus[s].sold + d <= MaxUnits
    /\ BeginWith(t, <<UpdateSku(s, "adjust", d)>>, skus)

-----------------------------------------------------------------------------
(* Statements.                                                             *)

\* The next statement of t may run: nobody else holds what it needs.
Ready(t, op) ==
    /\ txns[t].active
    /\ txns[t].todo # <<>>
    /\ Head(txns[t].todo).op = op
    /\ \A x \in Txn : ~WaitsFor(t, x)

\* t has issued it, and now holds what it needed and the rows it inserted.
Done(t, inserted, seen) ==
    txns' = [txns EXCEPT ![t].todo  = Tail(@),
                         ![t].locks = @ \cup Needs(Head(txns[t].todo)) \cup inserted,
                         ![t].seen  = seen]

\* The newest versions of the rows t has locked go back to the committed ones.
Undo(t) ==
    cur' = [orders   |-> [o \in Order |-> IF Holds(t, <<"order", o>>)
                                          THEN orders[o] ELSE cur.orders[o]],
            skus     |-> [s \in Sku |-> IF Holds(t, <<"sku", s>>)
                                        THEN skus[s] ELSE cur.skus[s]],
            sessions |-> [p \in Session |-> IF Holds(t, <<"session", p>>)
                                            THEN sessions[p] ELSE cur.sessions[p]],
            cart     |-> [u \in User |-> [s \in Sku |-> IF Holds(t, <<"cart", u, s>>)
                                            THEN cart[u][s] ELSE cur.cart[u][s]]]]

\* The versions t wrote become the committed ones.
Publish(t) ==
    /\ orders' = [o \in Order |-> IF Holds(t, <<"order", o>>)
                                  THEN cur.orders[o] ELSE orders[o]]
    /\ skus' = [s \in Sku |-> IF Holds(t, <<"sku", s>>) THEN cur.skus[s] ELSE skus[s]]
    /\ sessions' = [p \in Session |-> IF Holds(t, <<"session", p>>)
                                      THEN cur.sessions[p] ELSE sessions[p]]
    /\ cart' = [u \in User |-> [s \in Sku |-> IF Holds(t, <<"cart", u, s>>)
                                  THEN cur.cart[u][s] ELSE cart[u][s]]]
    /\ txns' = [txns EXCEPT ![t] = Idle]
    /\ UNCHANGED <<overdue, autoDue, conflicts, cur>>

\* Mutant: get_db commits on every exit.
RollbackCommits(t) == txns[t].active /\ Publish(t)

\* The request raises, its process dies or its connection is lost.
Rollback(t) ==
    /\ txns[t].active
    /\ Undo(t)
    /\ txns' = [txns EXCEPT ![t] = Idle]
    /\ UNCHANGED vars

\* Another row has the user and the key of the order stmt inserts.
KeyTaken(stmt) ==
    \E o \in Order : /\ cur.orders[o].user = stmt.row.user
                     /\ cur.orders[o].key = stmt.row.key

StoreOrder(t, stmt) ==
    \E o \in FreeOrders :
        /\ cur' = [cur EXCEPT !.orders[o] = stmt.row]
        /\ Done(t, {<<"order", o>>}, txns[t].seen)

\* Mutant: only the look-up of prior orders guards against a second order.
ExecInsertOrderNoUnique(t) ==
    /\ Ready(t, "insert_order")
    /\ StoreOrder(t, Head(txns[t].todo))
    /\ UNCHANGED vars

\* INSERT INTO orders.  When a row holds the key already, the request is
\* answered with ORDER_IDEMPOTENCY_CONFLICT and rolled back.
ExecInsertOrder(t) ==
    LET stmt == Head(txns[t].todo) IN
    /\ Ready(t, "insert_order")
    /\ \/ /\ ~KeyTaken(stmt)
          /\ StoreOrder(t, stmt)
          /\ UNCHANGED conflicts
       \/ /\ KeyTaken(stmt)
          /\ conflicts' = conflicts \cup {<<stmt.row.user, stmt.row.key>>}
          /\ Undo(t)
          /\ txns' = [txns EXCEPT ![t] = Idle]
    /\ UNCHANGED <<cart, skus, orders, sessions, overdue, autoDue>>

\* UPDATE orders by primary key, and INSERT of the history row: neither
\* looks at the status the row has by now.
ExecUpdateOrder(t) ==
    LET stmt == Head(txns[t].todo)
        row  == cur.orders[stmt.order]
        new  == [row EXCEPT !.status  = stmt.to,
                            !.history = Append(@, [from |-> stmt.from, to |-> stmt.to])]
    IN  /\ Ready(t, "update_order")
        /\ cur' = [cur EXCEPT !.orders[stmt.order] =
                     IF stmt.to = "cancelled"
                     THEN [new EXCEPT !.reason = stmt.why, !.key = NoKey]
                     ELSE new]
        /\ Done(t, {}, txns[t].seen)
        /\ UNCHANGED vars

\* UPDATE orders by primary key: the status alone.
ExecCloseOrder(t) ==
    /\ Ready(t, "close_order")
    /\ cur' = [cur EXCEPT !.orders[Head(txns[t].todo).order].status = "closed"]
    /\ Done(t, {}, txns[t].seen)
    /\ UNCHANGED vars

ExecFetchSku(t) ==
    LET s == Head(txns[t].todo).sku IN
    /\ Ready(t, "fetch_sku")
    /\ Done(t, {}, [txns[t].seen EXCEPT ![s] = Visible(t, s)])
    /\ UNCHANGED <<vars, cur>>

Change(how, row, q) ==
    CASE how = "lock" -> Locked(row, q)
      [] how = "release" -> Released(row, q)
      [] how = "finalize" -> Finalized(row, q)
      [] how = "adjust" -> Adjusted(row, q)

\* UPDATE skus: the columns that differ from the row read are overwritten
\* with the values computed from it; the inventory_logs row is one more row.
ExecUpdateSku(t) ==
    LET stmt == Head(txns[t].todo)
        s    == stmt.sku
        old  == txns[t].seen[s]
        new  == Change(stmt.how, old, stmt.qty)
        Column(c) == IF new[c] # old[c] THEN new[c] ELSE cur.skus[s][c]
    IN  /\ Ready(t, "update_sku")
        /\ cur' = [cur EXCEPT !.skus[s] =
                     [stock  |-> Column("stock"),
                      locked |-> Column("locked"),
                      sold   |-> Column("sold"),
                      logged |-> @.logged + (new.logged - old.logged)]]
        /\ Done(t, {}, [txns[t].seen EXCEPT ![s] = new])
        /\ UNCHANGED vars

StoreSession(t, o) ==
    \E p \in FreeSessions :
        /\ cur' = [cur EXCEPT !.sessions[p] = [order |-> o, status |-> "pending"]]
        /\ Done(t, {<<"session", p>>}, txns[t].seen)

\* Mutant: no partial unique index on the pending sessions.
ExecInsertSessionNoIndex(t) ==
    /\ Ready(t, "insert_session")
    /\ StoreSession(t, Head(txns[t].todo).order)
    /\ UNCHANGED vars

\* INSERT INTO payment_sessions, refused by the partial unique index.
ExecInsertSession(t) ==
    LET o == Head(txns[t].todo).order
        taken == \E p \in Session : cur.sessions[p] = [order |-> o, status |-> "pending"]
    IN  /\ Ready(t, "insert_session")
        /\ \/ ~taken /\ StoreSession(t, o)
           \/ taken /\ Undo(t) /\ txns' = [txns EXCEPT ![t] = Idle]
        /\ UNCHANGED vars

\* Mutant: the payment is committed on its own, as get_db's docstring advises.
ExecUpdateSessionCommits(t) ==
    LET stmt == Head(txns[t].todo) IN
    /\ Ready(t, "update_session")
    /\ cur' = [cur EXCEPT !.sessions[stmt.session].status = stmt.status]
    /\ sessions' = [sessions EXCEPT ![stmt.session].status = stmt.status]
    /\ Done(t, {}, txns[t].seen)
    /\ UNCHANGED <<cart, skus, orders, overdue, autoDue, conflicts>>

ExecUpdateSession(t) ==
    LET stmt == Head(txns[t].todo) IN
    /\ Ready(t, "update_session")
    /\ cur' = [cur EXCEPT !.sessions[stmt.session].status = stmt.status]
    /\ Done(t, {}, txns[t].seen)
    /\ UNCHANGED vars

ExecDeleteCart(t) ==
    LET stmt == Head(txns[t].todo) IN
    /\ Ready(t, "delete_cart")
    /\ cur' = [cur EXCEPT !.cart[stmt.user] =
                 [s \in Sku |-> IF s \in stmt.items THEN 0 ELSE @[s]]]
    /\ Done(t, {}, txns[t].seen)
    /\ UNCHANGED vars

\* COMMIT.
Commit(t) ==
    /\ txns[t].active
    /\ txns[t].todo = <<>>
    /\ Publish(t)

\* Mutant: the server is told to wait (deadlock_timeout) for ever.
DeadlockVictimNever(t) == FALSE /\ Rollback(t)

\* PostgreSQL breaks a cycle of waits by aborting one of the transactions.
DeadlockVictim(t) ==
    /\ \E D \in SUBSET Active :
         /\ t \in D
         /\ \A x \in D : \E y \in D : WaitsFor(x, y)
    /\ Rollback(t)

-----------------------------------------------------------------------------
(* Requests on the cart, each with a single write, and time.               *)

CartRequest(u) ==
    /\ Cardinality(Active) < MaxActive
    /\ \/ \E s \in Sku :
            \/ \E q \in 1..MaxCartItemQuantity : CartAdd(u, s, q) \/ CartUpdate(u, s, q)
            \/ CartDelete(u, s)
       \/ \E S \in SUBSET Sku : CartBatchDelete(u, S) \/ CartClearInvalid(u, S)
    /\ \A s \in Sku, t \in Txn : cart'[u][s] # cart[u][s] => ~Holds(t, <<"cart", u, s>>)
    /\ cur' = [cur EXCEPT !.cart[u] = [s \in Sku |->
                  IF cart'[u][s] # cart[u][s] THEN cart'[u][s] ELSE @[s]]]
    /\ UNCHANGED txns

Clock ==
    /\ DeadlinesPassMidRequest \/ Active = {}
    /\ TimeStep
    /\ UNCHANGED <<cur, txns>>

-----------------------------------------------------------------------------
TxnInit ==
    /\ Init
    /\ cur = [orders |-> orders, skus |-> skus, sessions |-> sessions, cart |-> cart]
    /\ txns = [t \in Txn |-> Idle]

BeginBuyer(t) ==
    \/ \E u \in User, k \in Key, ids \in SUBSET Sku : BeginCreate(t, u, k, ids)
    \/ \E o \in Order : BeginCreateSession(t, o)
    \/ \E p \in Session : BeginMockSucceed(t, p) \/ BeginMockFail(t, p)
    \/ \E o \in Order :
         \/ BeginCancel(t, o, "user_cancel", {"pending_payment"})
         \/ BeginConfirmReceipt(t, o)
         \/ BeginGetDetail(t, o)
    \/ \E u \in User : BeginListByUser(t, u)

BeginStaff(t) ==
    \/ \E o \in Order :
         \/ BeginCancel(t, o, "merchant_cancel", {"paid"})
         \/ BeginCancel(t, o, "admin_intervene", {"pending_payment", "paid"})
         \/ BeginShip(t, o)
         \/ BeginCloseRefunded(t, o)
    \/ \E s \in Sku, d \in -MaxUnits..MaxUnits : BeginAdjust(t, s, d)

BeginCron(t) == BeginScanExpire(t) \/ BeginScanComplete(t)

Exec(t) ==
    \/ ExecInsertOrder(t) \/ ExecUpdateOrder(t) \/ ExecCloseOrder(t)
    \/ ExecFetchSku(t) \/ ExecUpdateSku(t)
    \/ ExecInsertSession(t) \/ ExecUpdateSession(t)
    \/ ExecDeleteCart(t)

TxnNext ==
    \/ \E t \in Txn :
         \/ BeginBuyer(t) \/ BeginStaff(t) \/ BeginCron(t)
         \/ Exec(t) \/ Commit(t) \/ Rollback(t) \/ DeadlockVictim(t)
    \/ \E u \in User : CartRequest(u)
    \/ Clock

TxnSpec == TxnInit /\ [][TxnNext]_tvars

\* The event loop runs every request on; a row lock is granted to those that
\* wait for it in their order, so nobody is overtaken for ever; the deadlock
\* detector wakes up.
TxnFairness ==
    \A t \in Txn :
        /\ SF_tvars(Exec(t))
        /\ WF_tvars(Commit(t))
        /\ WF_tvars(DeadlockVictim(t))

FairTxnSpec == TxnSpec /\ TxnFairness

-----------------------------------------------------------------------------
(* What holds however transactions overlap.                                *)

\* One request at a time, statement by statement, is module Orders: the
\* statements of each handler and the rows it reads add up to its action.
RunsAsOrders == Spec

\* However often and however concurrently a checkout is submitted, its key
\* ends up on one order: the look-up of prior orders races, the unique
\* constraint behind it does not.
OneOrderPerKey == UniqueUserKey(orders)

\* create_session checks for a pending session before it inserts one; two
\* requests may both see none, and still only one becomes pending.
OnePendingSession == \A o \in Order : \A p, q \in PendingSessions(o) : p = q

\* A session that succeeded has left a "paid" row in its order's history,
\* whatever became of the order since: payment, order and history are one
\* transaction.
ChargeLeavesTrace ==
    \A p \in Session : sessions[p].status = "succeeded" => Paid(sessions[p].order)

\* What the history rows say became of an order's goods: taken by its
\* creation, given back by each cancellation.
Balance(table, o, s) ==
    LET given == {i \in DOMAIN table[o].history : table[o].history[i].to = "cancelled"}
    IN  IF table[o].history = <<>> THEN 0
        ELSE table[o].items[s] * (Cardinality(given) - 1)

\* The inventory log and the order history never disagree, not even where
\* lost updates have made the stock columns wrong: every commit that moves
\* orders logs exactly the goods its history rows took and gave back.
LogsFollowHistory ==
    [][orders' # orders =>
         \A s \in Sku :
            skus'[s].logged - skus[s].logged
              = SumFunctionOnSet(
                  [o \in Order |-> Balance(orders', o, s) - Balance(orders, o, s)],
                  Order)]_tvars

\* Every request comes to an end: checkouts whose carts list two SKUs in
\* opposite orders (get_user_cart_items has no ORDER BY, and lock_stock goes
\* item by item) wait for each other, and one of them is aborted.
RequestsEnd == \A t \in Txn : txns[t].active ~> ~txns[t].active

-----------------------------------------------------------------------------
(* What the documents promise and overlapping requests break.              *)

\* order_service.py: "All state transitions go through _transition so the
\* order_status_history row and status flip stay consistent".
HistoryConsistent == HistoryTellsStatus

\* phase-3-contracts.md promises that locking stock prevents overselling.  A
\* negative sum of the inventory log is goods promised that never existed.
NoOversell == \A s \in Sku : skus[s].logged >= 0
=============================================================================
