--------------------------- MODULE OrderTxnsProofs --------------------------
(***************************************************************************)
(* Theorems about OrderTxns, for every number of users, shops, SKUs, rows, *)
(* keys and overlapping transactions.                                      *)
(*                                                                         *)
(* The two unique indexes hold because a version of a row that differs     *)
(* from the committed one belongs to the transaction that holds the row's  *)
(* lock, and where the two differ in an indexed column that transaction    *)
(* holds the index entries of both.  A charge leaves its trace because the *)
(* transaction that writes the session's status holds the order's row too, *)
(* and has appended the "paid" history row before.  The inventory log      *)
(* follows the order histories because what a transaction has written to   *)
(* the one and the other differs by what the statements it has still to    *)
(* issue add to either, and a transaction commits when none is left.       *)
(***************************************************************************)
EXTENDS OrderTxns, DataProofs

-----------------------------------------------------------------------------
(* Types.                                                                  *)

AnySkuRow == [stock : Int, locked : Int, sold : Int, logged : Int]

PlacedRow ==
    {r \in OrderRow :
        /\ r.status = "pending_payment"
        /\ r.user \in User
        /\ r.key \in Key
        /\ r.history = <<[from |-> "none", to |-> "pending_payment"]>>}

\* The statements of every request but those that settle a payment session.
PlainStmt ==
    [op : {"insert_order"}, row : PlacedRow]
    \cup [op : {"update_order"}, order : Order, from : OrderStatus,
          to : {"shipped", "completed", "cancelled"}, why : CancelReason \cup {"none"}]
    \cup [op : {"close_order"}, order : Order]
    \cup [op : {"fetch_sku"}, sku : Sku]
    \cup [op : {"update_sku"}, sku : Sku,
          how : {"lock", "release", "finalize", "adjust"}, qty : Int]
    \cup [op : {"insert_session"}, order : Order]
    \cup [op : {"delete_cart"}, user : User, items : SUBSET Sku]

PaidStmt ==
    [op : {"update_order"}, order : Order, from : OrderStatus, to : {"paid"},
     why : {"none"}]

SettleStmt ==
    [op : {"update_session"}, session : Session, order : Order,
     status : {"succeeded", "failed"}]

Stmt == PlainStmt \cup PaidStmt \cup SettleStmt

Lock ==
    UNION {{<<"order", o>> : o \in Order},
           {<<"sku", s>> : s \in Sku},
           {<<"session", p>> : p \in Session},
           {<<"pending", o>> : o \in Order},
           {<<"key", u, k>> : u \in User \cup {NoUser}, k \in Key},
           {<<"cart", u, s>> : u \in User, s \in Sku}}

TxnRow ==
    [active : BOOLEAN, todo : Seq(Stmt), locks : SUBSET Lock, seen : [Sku -> AnySkuRow]]

CartTable == [User -> [Sku -> 0..MaxCartItemQuantity]]

CommittedOK ==
    /\ orders \in [Order -> OrderRow]
    /\ skus \in [Sku -> AnySkuRow]
    /\ sessions \in [Session -> SessionRow]
    /\ cart \in CartTable
    /\ overdue \subseteq Order /\ autoDue \subseteq Order

NewestOK ==
    cur \in [orders : [Order -> OrderRow], skus : [Sku -> AnySkuRow],
             sessions : [Session -> SessionRow], cart : CartTable]

TxnsOK == txns \in [Txn -> TxnRow]

-----------------------------------------------------------------------------
(* Locks.                                                                  *)

\* Only a transaction under way has statements left or holds a lock.
IdleIsIdle ==
    \A t \in Txn : ~txns[t].active => txns[t].todo = <<>> /\ txns[t].locks = {}

\* No lock has two holders.
LocksExclusive ==
    \A x, y \in Txn : x # y => txns[x].locks \cap txns[y].locks = {}

-----------------------------------------------------------------------------
(* Row versions.                                                           *)

Used(row) == row.status # "none"

\* The unused rows of a table of orders are blank.
OrdersBlank(table) ==
    \A o \in Order : ~Used(table[o]) => table[o].key = NoKey /\ table[o].history = <<>>

SessionsBlank(table) ==
    \A p \in Session : Used(table[p]) => table[p].order \in Order

\* A committed row is there in its newest version, too, its owner is the
\* same, and what it went through is not forgotten.
OrdersGrow ==
    \A o \in Order :
        Used(orders[o]) => /\ Used(cur.orders[o])
                           /\ cur.orders[o].user = orders[o].user
                           /\ WasPaid(orders[o]) => WasPaid(cur.orders[o])

SessionsGrow ==
    \A p \in Session :
        Used(sessions[p]) => /\ Used(cur.sessions[p])
                             /\ cur.sessions[p].order = sessions[p].order

\* A row somebody has locked is in use.
LockedIsUsed ==
    \A t \in Txn :
        /\ \A o \in Order : Holds(t, <<"order", o>>) => Used(cur.orders[o])
        /\ \A p \in Session : Holds(t, <<"session", p>>) => Used(cur.sessions[p])

\* t holds every entry the row has in the index of users and keys.
HoldsKey(t, row) == row.key # NoKey => Holds(t, <<"key", row.user, row.key>>)

\* An uncommitted version has an owner, who holds the index entries of the
\* columns it changes.
OrdersOwned ==
    \A o \in Order : cur.orders[o] # orders[o] =>
        \E t \in Txn :
            /\ Holds(t, <<"order", o>>)
            /\ cur.orders[o].key # orders[o].key =>
                 HoldsKey(t, cur.orders[o]) /\ HoldsKey(t, orders[o])

SessionsOwned ==
    \A p \in Session : cur.sessions[p] # sessions[p] =>
        \E t \in Txn :
            /\ Holds(t, <<"session", p>>)
            /\ Holds(t, <<"pending", cur.sessions[p].order>>)

\* The partial unique index on the pending sessions.
UniquePending(table) ==
    \A p, q \in Session :
        /\ table[p].status = "pending"
        /\ table[q].status = "pending"
        /\ table[p].order = table[q].order
        => p = q

-----------------------------------------------------------------------------
(* Statements to come.                                                     *)

\* A statement names rows that are there.
Grounded(stmt) ==
    /\ stmt.op \in {"update_order", "close_order"} => Used(orders[stmt.order])
    /\ stmt.op = "update_session" =>
         /\ Used(sessions[stmt.session])
         /\ stmt.order = sessions[stmt.session].order

StmtsGrounded ==
    \A t \in Txn : \A i \in DOMAIN txns[t].todo : Grounded(txns[t].todo[i])

\* t has the order's row, and its newest version has been paid.
HasPaid(t, o) == Holds(t, <<"order", o>>) /\ WasPaid(cur.orders[o])

Succeeds(stmt) == stmt.op = "update_session" /\ stmt.status = "succeeded"

\* A session is set to "succeeded" right after its order was set to "paid".
PaidFirst ==
    \A t \in Txn : \A i \in DOMAIN txns[t].todo : Succeeds(txns[t].todo[i]) =>
        \/ i = 1 /\ HasPaid(t, txns[t].todo[i].order)
        \/ /\ i = 2
           /\ txns[t].todo[1].op = "update_order"
           /\ txns[t].todo[1].order = txns[t].todo[2].order
           /\ txns[t].todo[1].to = "paid"

\* Who has set a session to "succeeded" has its paid order, too.
ChargeOwned ==
    \A t \in Txn, p \in Session :
        /\ Holds(t, <<"session", p>>)
        /\ cur.sessions[p].status = "succeeded"
        /\ sessions[p].status # "succeeded"
        => HasPaid(t, cur.sessions[p].order)

Types == CommittedOK /\ NewestOK /\ TxnsOK

Locking == IdleIsIdle /\ LocksExclusive /\ LockedIsUsed

OrderVersions ==
    /\ OrdersBlank(orders) /\ OrdersBlank(cur.orders)
    /\ OrdersGrow /\ OrdersOwned
    /\ UniqueUserKey(orders) /\ UniqueUserKey(cur.orders)

SessionVersions ==
    /\ SessionsBlank(sessions) /\ SessionsBlank(cur.sessions)
    /\ SessionsGrow /\ SessionsOwned
    /\ UniquePending(sessions) /\ UniquePending(cur.sessions)

Charges == StmtsGrounded /\ PaidFirst /\ ChargeOwned /\ ChargeLeavesTrace

IInv == Types /\ Locking /\ OrderVersions /\ SessionVersions /\ Charges

-----------------------------------------------------------------------------
(* The statements a request begins with.                                   *)

\* Statements that settle nothing and name rows that are there.
GroundedStmt == {stmt \in PlainStmt : Grounded(stmt)}

LEMMA RowOrdersType ==
  ASSUME NEW S, IsFiniteSet(S), NEW f \in RowOrders(S)
  PROVE  Cardinality(S) \in Nat /\ f \in [1..Cardinality(S) -> S]
BY FS_CardinalityType DEF RowOrders

LEMMA ItemOrdersType ==
  ASSUME NEW o \in Order, NEW f \in ItemOrders(o)
  PROVE  \E n \in Nat : f \in [1..n -> Sku]
<1> DEFINE S == {s \in Sku : orders[o].items[s] > 0}
<1>1. IsFiniteSet(S)
  BY ConstantsAssumption, FS_Subset
<1>2. f \in RowOrders(S)
  BY DEF ItemOrders
<1> HIDE DEF S
<1>3. Cardinality(S) \in Nat /\ f \in [1..Cardinality(S) -> S]
  BY <1>1, <1>2, RowOrdersType
<1> QED  BY <1>3 DEF S

LEMMA ItemsType ==
  ASSUME CommittedOK, NEW o \in Order, NEW s \in Sku
  PROVE  orders[o].items[s] \in Int
BY DEF CommittedOK, OrderRow

LEMMA ReleaseType ==
  ASSUME CommittedOK, NEW o \in Order, NEW f \in ItemOrders(o)
  PROVE  ReleaseStmts(o, f) \in Seq(GroundedStmt)
<1>1. PICK n \in Nat : f \in [1..n -> Sku]
  BY ItemOrdersType
<1> DEFINE g == [i \in DOMAIN f |->
                   <<FetchSku(f[i]), UpdateSku(f[i], "release", orders[o].items[f[i]])>>]
<1>2. ASSUME NEW i \in 1..n PROVE g[i] \in Seq(GroundedStmt)
  <2>1. f[i] \in Sku /\ orders[o].items[f[i]] \in Int
    BY <1>1, ItemsType
  <2>2. FetchSku(f[i]) \in GroundedStmt
    BY <2>1 DEF GroundedStmt, PlainStmt, FetchSku, Grounded
  <2>3. UpdateSku(f[i], "release", orders[o].items[f[i]]) \in GroundedStmt
    BY <2>1 DEF GroundedStmt, PlainStmt, UpdateSku, Grounded
  <2>4. g[i] = <<FetchSku(f[i]), UpdateSku(f[i], "release", orders[o].items[f[i]])>>
    BY <1>1
  <2> HIDE DEF g
  <2> QED  BY <2>2, <2>3, <2>4, SeqPair
<1>3. g \in [1..n -> Seq(GroundedStmt)]
  BY <1>1, <1>2
<1>4. ReleaseStmts(o, f) = FlattenSeq(g)
  BY DEF ReleaseStmts
<1> QED  BY <1>3, <1>4, FlattenType

LEMMA FinalizeType ==
  ASSUME CommittedOK, NEW o \in Order, NEW f \in ItemOrders(o)
  PROVE  FinalizeStmts(o, f) \in Seq(GroundedStmt)
<1>1. PICK n \in Nat : f \in [1..n -> Sku]
  BY ItemOrdersType
<1> DEFINE k == SetToSeq(Sku)
           m == Cardinality(Sku)
           a == [i \in DOMAIN f |-> FetchSku(f[i])]
           g == [i \in DOMAIN k |->
                   IF orders[o].items[k[i]] > 0
                   THEN <<UpdateSku(k[i], "finalize", orders[o].items[k[i]])>>
                   ELSE <<>>]
<1>2. k \in [1..m -> Sku] /\ m \in Nat
  BY ListedType, ConstantsAssumption
<1>3. FinalizeStmts(o, f) = a \o FlattenSeq(g)
  BY DEF FinalizeStmts
<1> HIDE DEF k, m
<1>4. ASSUME NEW i \in 1..m PROVE g[i] \in Seq(GroundedStmt)
  <2>1. k[i] \in Sku /\ orders[o].items[k[i]] \in Int
    BY <1>2, ItemsType
  <2>2. UpdateSku(k[i], "finalize", orders[o].items[k[i]]) \in GroundedStmt
    BY <2>1 DEF GroundedStmt, PlainStmt, UpdateSku, Grounded
  <2> QED  BY <1>2, <2>2
<1>5. g \in [1..m -> Seq(GroundedStmt)]
  BY <1>2, <1>4
<1>6. FlattenSeq(g) \in Seq(GroundedStmt)
  BY <1>2, <1>5, FlattenType
<1>7. ASSUME NEW i \in 1..n PROVE a[i] \in GroundedStmt
  BY <1>1 DEF GroundedStmt, PlainStmt, FetchSku, Grounded
<1>8. a \in Seq(GroundedStmt)
  BY <1>1, <1>7
<1> HIDE DEF a, g
<1> QED  BY <1>3, <1>6, <1>8

LEMMA CancelType ==
  ASSUME CommittedOK, NEW o \in Order, Used(orders[o]), NEW f \in ItemOrders(o),
         NEW from \in OrderStatus, NEW why \in CancelReason
  PROVE  CancelStmts(o, from, why, f) \in Seq(GroundedStmt)
<1>1. UpdateOrder(o, from, "cancelled", why) \in GroundedStmt
  BY DEF GroundedStmt, PlainStmt, UpdateOrder, Grounded
<1> QED  BY <1>1, ReleaseType DEF CancelStmts

LEMMA CompleteType ==
  ASSUME CommittedOK, NEW o \in Order, Used(orders[o]), NEW f \in ItemOrders(o)
  PROVE  CompleteStmts(o, f) \in Seq(GroundedStmt)
<1>1. UpdateOrder(o, "shipped", "completed", "none") \in GroundedStmt
  BY DEF GroundedStmt, PlainStmt, UpdateOrder, Grounded, OrderStatus
<1> QED  BY <1>1, FinalizeType DEF CompleteStmts

GoodTodo(todo) ==
    /\ todo \in Seq(Stmt)
    /\ \A i \in DOMAIN todo : Grounded(todo[i])
    /\ \A i \in DOMAIN todo : Succeeds(todo[i]) =>
         /\ i = 2
         /\ todo[1].op = "update_order"
         /\ todo[1].order = todo[2].order
         /\ todo[1].to = "paid"

LEMMA PlainGood ==
  ASSUME NEW todo \in Seq(GroundedStmt)
  PROVE  GoodTodo(todo)
<1>1. GroundedStmt \subseteq Stmt
  BY DEF GroundedStmt, Stmt
<1>2. todo \in Seq(Stmt) /\ \A i \in DOMAIN todo : todo[i] \in GroundedStmt
  BY <1>1, SeqWider
<1>3. \A stmt \in GroundedStmt : Grounded(stmt) /\ ~Succeeds(stmt)
  BY DEF GroundedStmt, PlainStmt, Succeeds
<1> QED  BY <1>2, <1>3 DEF GoodTodo

\* A pending session is one of an order.
LEMMA SettleGrounded ==
  ASSUME Types, SessionVersions, NEW p \in Session, sessions[p].status = "pending",
         NEW st \in {"succeeded", "failed"}
  PROVE  /\ sessions[p].order \in Order
         /\ UpdateSession(p, sessions[p].order, st) \in SettleStmt
         /\ Grounded(UpdateSession(p, sessions[p].order, st))
<1>1. sessions[p].order \in Order /\ Used(sessions[p])
  BY DEF SessionVersions, SessionsBlank, Used
<1> QED  BY <1>1 DEF UpdateSession, SettleStmt, Grounded

LEMMA FailGood ==
  ASSUME Types, SessionVersions, NEW p \in Session, sessions[p].status = "pending"
  PROVE  GoodTodo(<<UpdateSession(p, sessions[p].order, "failed")>>)
<1> DEFINE a == UpdateSession(p, sessions[p].order, "failed")
<1>1. a \in Stmt /\ Grounded(a)
  BY SettleGrounded DEF Stmt
<1>2. ~Succeeds(a)
  BY DEF Succeeds, UpdateSession
<1> HIDE DEF a
<1> DEFINE q == <<a>>
<1>3. q \in Seq(Stmt) /\ \A i \in DOMAIN q : q[i] = a
  BY <1>1
<1> HIDE DEF q
<1>4. GoodTodo(q)
  BY <1>1, <1>2, <1>3 DEF GoodTodo
<1> QED  BY <1>4 DEF q, a

LEMMA PayGood ==
  ASSUME Types, SessionVersions, NEW p \in Session, sessions[p].status = "pending",
         orders[sessions[p].order].status = "pending_payment"
  PROVE  GoodTodo(PayStmts(sessions[p].order, p))
<1> DEFINE o == sessions[p].order
           a == UpdateOrder(o, orders[o].status, "paid", "none")
           b == UpdateSession(p, o, "succeeded")
<1>1. b \in Stmt /\ Grounded(b) /\ o \in Order
  BY SettleGrounded DEF Stmt
<1>2. a \in PaidStmt
  BY <1>1 DEF PaidStmt, UpdateOrder, OrderStatus
<1>3. a \in Stmt /\ Grounded(a) /\ ~Succeeds(a)
  BY <1>2 DEF Stmt, Grounded, UpdateOrder, Succeeds, Used
<1>4. a.op = "update_order" /\ a.order = b.order /\ a.to = "paid"
  BY DEF UpdateOrder, UpdateSession
<1>5. PayStmts(sessions[p].order, p) = <<a, b>>
  BY DEF PayStmts
<1> HIDE DEF a, b
<1>6. GoodTodo(<<a, b>>)
  BY <1>1, <1>3, <1>4 DEF GoodTodo
<1> QED  BY <1>5, <1>6

\* A request that begins changes no row and takes no lock.
LEMMA BeginKeeps ==
  ASSUME IInv, NEW t \in Txn, NEW todo, GoodTodo(todo),
         NEW seen \in [Sku -> AnySkuRow], BeginWith(t, todo, seen)
  PROVE  IInv'
<1> DEFINE row == [active |-> TRUE, todo |-> todo, locks |-> {}, seen |-> seen]
<1>1. UNCHANGED <<vars, cur>> /\ txns' = [txns EXCEPT ![t] = row] /\ ~txns[t].active
  BY DEF BeginWith
<1>2. UNCHANGED <<orders, skus, sessions, cart, overdue, autoDue, cur>>
  BY <1>1 DEF vars
<1>3. row \in TxnRow
  BY DEF TxnRow, GoodTodo
<1>4. txns \in [Txn -> TxnRow]
  BY DEF IInv, Types, TxnsOK
<1>5. \A x \in Txn : x # t => txns'[x] = txns[x]
  BY <1>1, <1>4
<1>6. txns'[t].active /\ txns'[t].todo = todo /\ txns'[t].locks = {}
  BY <1>1, <1>4
<1>7. \A x \in Txn : txns'[x].locks = txns[x].locks
  BY <1>1, <1>5, <1>6 DEF IInv, Locking, IdleIsIdle
<1>8. Types'
  <2>1. txns' \in [Txn -> TxnRow]
    BY <1>1, <1>3, <1>4
  <2> QED  BY <1>2, <2>1 DEF IInv, Types, CommittedOK, NewestOK, TxnsOK
<1>9. Locking'
  <2>1. IdleIsIdle'
    BY <1>5, <1>6 DEF IInv, Locking, IdleIsIdle
  <2>2. LocksExclusive'
    BY <1>7 DEF IInv, Locking, LocksExclusive
  <2>3. LockedIsUsed'
    BY <1>2, <1>7 DEF IInv, Locking, LockedIsUsed, Holds, Used
  <2> QED  BY <2>1, <2>2, <2>3 DEF Locking
<1>10. OrderVersions'
  <2>1. OrdersOwned'
    BY <1>2, <1>7 DEF IInv, OrderVersions, OrdersOwned, Holds, HoldsKey
  <2> QED  BY <1>2, <2>1 DEF IInv, OrderVersions, OrdersBlank, OrdersGrow, UniqueUserKey,
                            Used, WasPaid
<1>11. SessionVersions'
  <2>1. SessionsOwned'
    BY <1>2, <1>7 DEF IInv, SessionVersions, SessionsOwned, Holds
  <2> QED  BY <1>2, <2>1 DEF IInv, SessionVersions, SessionsBlank, SessionsGrow,
                            UniquePending, Used
<1>12. Charges'
  <2>1. StmtsGrounded'
    BY <1>2, <1>5, <1>6 DEF IInv, Charges, StmtsGrounded, Grounded, GoodTodo, Used
  <2>2. PaidFirst'
    <3> SUFFICES ASSUME NEW x \in Txn, NEW i \in DOMAIN txns'[x].todo,
                        Succeeds(txns'[x].todo[i])
                 PROVE  \/ i = 1 /\ HasPaid(x, txns[x].todo[i].order)'
                        \/ /\ i = 2
                           /\ txns'[x].todo[1].op = "update_order"
                           /\ txns'[x].todo[1].order = txns'[x].todo[2].order
                           /\ txns'[x].todo[1].to = "paid"
      BY DEF PaidFirst, Succeeds
    <3>1. CASE x = t
      BY <1>6, <3>1 DEF GoodTodo
    <3>2. CASE x # t
      <4>1. \/ i = 1 /\ HasPaid(x, txns[x].todo[i].order)
            \/ /\ i = 2
               /\ txns[x].todo[1].op = "update_order"
               /\ txns[x].todo[1].order = txns[x].todo[2].order
               /\ txns[x].todo[1].to = "paid"
        BY <1>5, <3>2 DEF IInv, Charges, PaidFirst
      <4>2. HasPaid(x, txns[x].todo[i].order)' <=> HasPaid(x, txns[x].todo[i].order)
        BY <1>2, <1>5, <3>2 DEF HasPaid, Holds, WasPaid
      <4> QED  BY <1>5, <3>2, <4>1, <4>2
    <3> QED  BY <3>1, <3>2
  <2>3. ChargeOwned'
    BY <1>2, <1>7 DEF IInv, Charges, ChargeOwned, HasPaid, Holds, WasPaid
  <2>4. ChargeLeavesTrace'
    BY <1>2 DEF IInv, Charges, ChargeLeavesTrace, Paid, WasPaid
  <2> QED  BY <2>1, <2>2, <2>3, <2>4 DEF Charges
<1> QED  BY <1>8, <1>9, <1>10, <1>11, <1>12 DEF IInv

LEMMA BlankSeen == Idle.seen \in [Sku -> AnySkuRow]
BY ConstantsAssumption DEF Idle, NewSku, AnySkuRow

LEMMA BeginPlainKeeps ==
  ASSUME IInv, NEW t \in Txn, NEW todo \in Seq(GroundedStmt), Begin(t, todo)
  PROVE  IInv'
BY BeginKeeps, PlainGood, BlankSeen DEF Begin

LEMMA NewOrderPlaced ==
  ASSUME CommittedOK, NEW u \in User, NEW h \in Shop, NEW k \in Key, NEW V \in SUBSET Sku
  PROVE  NewOrder(u, h, k, V) \in PlacedRow
<1>1. ASSUME NEW s \in Sku PROVE cart[u][s] \in Nat
  BY ConstantsAssumption DEF CommittedOK, CartTable
<1>2. [s \in Sku |-> IF s \in V /\ ShopOf[s] = h THEN cart[u][s] ELSE 0] \in [Sku -> Nat]
  BY <1>1
<1>3. <<[from |-> "none", to |-> "pending_payment"]>>
         \in Seq([from : OrderStatus \cup {"none"}, to : OrderStatus])
  BY DEF OrderStatus
<1>4. NewOrder(u, h, k, V) \in OrderRow
  BY <1>2, <1>3 DEF NewOrder, OrderRow, OrderStatus
<1> QED  BY <1>4 DEF NewOrder, PlacedRow

LEMMA BeginCreateKeeps ==
  ASSUME IInv, NEW t \in Txn, NEW u \in User, NEW k \in Key, NEW ids \in SUBSET Sku,
         BeginCreate(t, u, k, ids)
  PROVE  IInv'
<1> DEFINE V == ValidItems(u, ids, Sku)
           shops == {ShopOf[s] : s \in V}
           Item(f, h, i) == IF ShopOf[f[i]] = h
                            THEN <<UpdateSku(f[i], "lock", cart[u][f[i]])>>
                            ELSE <<>>
           ShopStmts(f, h) == <<InsertOrder(NewOrder(u, h, k, V))>>
                                \o FlattenSeq([i \in DOMAIN f |-> Item(f, h, i)])
           Todo(f, g) == FlattenSeq([i \in DOMAIN g |-> ShopStmts(f, g[i])])
                           \o <<DeleteCart(u, V)>>
<1>1. PICK f \in RowOrders(V), g \in RowOrders(shops) : BeginWith(t, Todo(f, g), skus)
  BY DEF BeginCreate
<1>2. V \in SUBSET Sku /\ CommittedOK
  BY DEF ValidItems, IInv, Types
<1>3. IsFiniteSet(V)
  BY <1>2, ConstantsAssumption, FS_Subset
<1>4. IsFiniteSet(shops) /\ shops \in SUBSET Shop
  <2> DEFINE image == [s \in V |-> ShopOf[s]]
  <2>1. image \in Surjection(V, shops)
    BY DEF Surjection
  <2> HIDE DEF image
  <2>2. IsFiniteSet(shops)
    BY <1>3, <2>1, FS_Surjection DEF ExistsSurjection
  <2> QED  BY <1>2, <2>2, ConstantsAssumption
<1> HIDE DEF V, shops
<1>5. PICK n \in Nat : f \in [1..n -> V]
  BY <1>3, RowOrdersType
<1>6. PICK m \in Nat : g \in [1..m -> shops]
  BY <1>4, RowOrdersType
<1>7. ASSUME NEW h \in Shop PROVE ShopStmts(f, h) \in Seq(GroundedStmt)
  <2> DEFINE items == [i \in DOMAIN f |-> Item(f, h, i)]
  <2>1. ASSUME NEW i \in 1..n PROVE Item(f, h, i) \in Seq(GroundedStmt)
    <3>1. f[i] \in Sku /\ cart[u][f[i]] \in Int
      BY <1>2, <1>5, ConstantsAssumption DEF CommittedOK, CartTable
    <3>2. UpdateSku(f[i], "lock", cart[u][f[i]]) \in GroundedStmt
      BY <3>1 DEF GroundedStmt, PlainStmt, UpdateSku, Grounded
    <3> QED  BY <3>2
  <2>2. items \in [1..n -> Seq(GroundedStmt)]
    <3> HIDE DEF Item
    <3> QED  BY <1>5, <2>1
  <2> HIDE DEF items
  <2>3. FlattenSeq(items) \in Seq(GroundedStmt)
    BY <2>2, FlattenType
  <2>4. InsertOrder(NewOrder(u, h, k, V)) \in GroundedStmt
    BY <1>2, NewOrderPlaced DEF GroundedStmt, PlainStmt, InsertOrder, Grounded
  <2>5. ShopStmts(f, h) = <<InsertOrder(NewOrder(u, h, k, V))>> \o FlattenSeq(items)
    BY DEF items
  <2> DEFINE a == InsertOrder(NewOrder(u, h, k, V))
             b == FlattenSeq(items)
  <2> HIDE DEF a, b, ShopStmts
  <2>6. <<a>> \o b \in Seq(GroundedStmt)
    BY <2>3, <2>4 DEF a, b
  <2> QED  BY <2>5, <2>6 DEF a, b
<1> HIDE DEF ShopStmts
<1>8. Todo(f, g) \in Seq(GroundedStmt)
  <2> DEFINE all == [i \in DOMAIN g |-> ShopStmts(f, g[i])]
  <2>1. all \in [1..m -> Seq(GroundedStmt)]
    BY <1>4, <1>6, <1>7
  <2> HIDE DEF all
  <2>2. FlattenSeq(all) \in Seq(GroundedStmt)
    BY <2>1, FlattenType
  <2>3. DeleteCart(u, V) \in GroundedStmt
    BY <1>2 DEF GroundedStmt, PlainStmt, DeleteCart, Grounded
  <2>4. Todo(f, g) = FlattenSeq(all) \o <<DeleteCart(u, V)>>
    BY DEF all
  <2> DEFINE a == FlattenSeq(all)
             b == DeleteCart(u, V)
  <2> HIDE DEF a, b, Todo
  <2>5. a \o <<b>> \in Seq(GroundedStmt)
    BY <2>2, <2>3 DEF a, b
  <2> QED  BY <2>4, <2>5 DEF a, b
<1>9. skus \in [Sku -> AnySkuRow]
  BY <1>2 DEF CommittedOK
<1> QED  BY <1>1, <1>8, <1>9, PlainGood, BeginKeeps

\* The batch of a scan, order by order.
LEMMA BatchType ==
  ASSUME CommittedOK, NEW B \in SUBSET Order, NEW g \in RowOrders(B),
         NEW stmts, \A o \in B : stmts[o] \in Seq(GroundedStmt)
  PROVE  FlattenSeq([i \in DOMAIN g |-> stmts[g[i]]]) \in Seq(GroundedStmt)
<1>1. IsFiniteSet(B)
  BY ConstantsAssumption, FS_Subset
<1>2. PICK n \in Nat : g \in [1..n -> B]
  BY <1>1, RowOrdersType
<1> DEFINE all == [i \in DOMAIN g |-> stmts[g[i]]]
<1>3. all \in [1..n -> Seq(GroundedStmt)]
  BY <1>2
<1> HIDE DEF all
<1>4. FlattenSeq(all) \in Seq(GroundedStmt)
  BY <1>3, FlattenType
<1> QED  BY <1>4 DEF all

LEMMA BeginExpireKeeps ==
  ASSUME IInv, NEW t \in Txn, NEW B \in SUBSET Pending, BeginExpire(t, B)
  PROVE  IInv'
<1>1. PICK g \in RowOrders(B), f \in [B -> UNION {ItemOrders(o) : o \in B}] :
        /\ \A o \in B : f[o] \in ItemOrders(o)
        /\ Begin(t, FlattenSeq([i \in DOMAIN g |->
                      CancelStmts(g[i], "pending_payment", "payment_timeout", f[g[i]])]))
  BY DEF BeginExpire
<1> DEFINE stmts == [o \in B |-> CancelStmts(o, "pending_payment", "payment_timeout", f[o])]
<1>2. CommittedOK /\ B \in SUBSET Order
  BY DEF IInv, Types, Pending
<1>3. ASSUME NEW o \in B PROVE stmts[o] \in Seq(GroundedStmt)
  <2>1. o \in Order /\ Used(orders[o])
    BY DEF Pending, Used
  <2> QED  BY <1>1, <1>2, <2>1, CancelType DEF OrderStatus, CancelReason
<1>4. IsFiniteSet(B)
  BY <1>2, ConstantsAssumption, FS_Subset
<1>5. \A i \in DOMAIN g : g[i] \in B
  BY <1>4, RowOrdersType
<1>6. [i \in DOMAIN g |-> stmts[g[i]]]
        = [i \in DOMAIN g |->
             CancelStmts(g[i], "pending_payment", "payment_timeout", f[g[i]])]
  BY <1>5
<1> HIDE DEF stmts
<1>7. FlattenSeq([i \in DOMAIN g |-> stmts[g[i]]]) \in Seq(GroundedStmt)
  BY <1>2, <1>3, BatchType
<1> QED  BY <1>1, <1>6, <1>7, BeginPlainKeeps

LEMMA BeginScanCompleteKeeps ==
  ASSUME IInv, NEW t \in Txn, BeginScanComplete(t)
  PROVE  IInv'
<1>1. PICK B \in Batches({o \in autoDue : orders[o].status = "shipped"}) :
        \E g \in RowOrders(B), f \in [B -> UNION {ItemOrders(o) : o \in B}] :
            /\ \A o \in B : f[o] \in ItemOrders(o)
            /\ Begin(t, FlattenSeq([i \in DOMAIN g |-> CompleteStmts(g[i], f[g[i]])]))
  BY DEF BeginScanComplete
<1>2. PICK g \in RowOrders(B), f \in [B -> UNION {ItemOrders(o) : o \in B}] :
        /\ \A o \in B : f[o] \in ItemOrders(o)
        /\ Begin(t, FlattenSeq([i \in DOMAIN g |-> CompleteStmts(g[i], f[g[i]])]))
  BY <1>1
<1> DEFINE stmts == [o \in B |-> CompleteStmts(o, f[o])]
<1>3. CommittedOK /\ B \in SUBSET Order /\ \A o \in B : Used(orders[o])
  <2>1. B \in SUBSET {o \in autoDue : orders[o].status = "shipped"}
    BY DEF Batches
  <2>2. CommittedOK
    BY DEF IInv, Types
  <2> QED  BY <2>1, <2>2 DEF CommittedOK, Used
<1>4. ASSUME NEW o \in B PROVE stmts[o] \in Seq(GroundedStmt)
  BY <1>2, <1>3, CompleteType
<1>5. IsFiniteSet(B)
  BY <1>3, ConstantsAssumption, FS_Subset
<1>6. \A i \in DOMAIN g : g[i] \in B
  BY <1>5, RowOrdersType
<1>7. [i \in DOMAIN g |-> stmts[g[i]]] = [i \in DOMAIN g |-> CompleteStmts(g[i], f[g[i]])]
  BY <1>6
<1> HIDE DEF stmts
<1>8. FlattenSeq([i \in DOMAIN g |-> stmts[g[i]]]) \in Seq(GroundedStmt)
  BY <1>3, <1>4, BatchType
<1> QED  BY <1>2, <1>7, <1>8, BeginPlainKeeps

LEMMA BeginOneOrderKeeps ==
  ASSUME IInv, NEW t \in Txn, NEW o \in Order
  PROVE  /\ BeginCreateSession(t, o) => IInv'
         /\ \A why \in CancelReason, from \in SUBSET {"pending_payment", "paid"} :
              BeginCancel(t, o, why, from) => IInv'
         /\ BeginShip(t, o) => IInv'
         /\ BeginConfirmReceipt(t, o) => IInv'
         /\ BeginCloseRefunded(t, o) => IInv'
<1>1. CommittedOK
  BY DEF IInv, Types
<1>2. ASSUME BeginCreateSession(t, o) PROVE IInv'
  <2>1. InsertSession(o) \in GroundedStmt
    BY DEF GroundedStmt, PlainStmt, InsertSession, Grounded
  <2> QED  BY <1>2, <2>1, SeqOne, BeginPlainKeeps DEF BeginCreateSession
<1>3. ASSUME NEW why \in CancelReason, NEW from \in SUBSET {"pending_payment", "paid"},
             BeginCancel(t, o, why, from)
      PROVE  IInv'
  <2>1. orders[o].status \in OrderStatus /\ Used(orders[o])
    BY <1>3 DEF BeginCancel, OrderStatus, Used
  <2>2. PICK f \in ItemOrders(o) : Begin(t, CancelStmts(o, orders[o].status, why, f))
    BY <1>3 DEF BeginCancel
  <2> QED  BY <1>1, <2>1, <2>2, CancelType, BeginPlainKeeps
<1>4. ASSUME BeginShip(t, o) PROVE IInv'
  <2>1. UpdateOrder(o, "paid", "shipped", "none") \in GroundedStmt
    BY <1>4 DEF BeginShip, GroundedStmt, PlainStmt, UpdateOrder, Grounded, OrderStatus, Used
  <2> QED  BY <1>4, <2>1, SeqOne, BeginPlainKeeps DEF BeginShip
<1>5. ASSUME BeginConfirmReceipt(t, o) PROVE IInv'
  <2>1. Used(orders[o])
    BY <1>5 DEF BeginConfirmReceipt, Used
  <2>2. PICK f \in ItemOrders(o) : Begin(t, CompleteStmts(o, f))
    BY <1>5 DEF BeginConfirmReceipt
  <2> QED  BY <1>1, <2>1, <2>2, CompleteType, BeginPlainKeeps
<1>6. ASSUME BeginCloseRefunded(t, o) PROVE IInv'
  <2>1. CloseOrder(o) \in GroundedStmt
    BY <1>6 DEF BeginCloseRefunded, GroundedStmt, PlainStmt, CloseOrder, Grounded, Used
  <2> QED  BY <1>6, <2>1, SeqOne, BeginPlainKeeps DEF BeginCloseRefunded
<1> QED  BY <1>2, <1>3, <1>4, <1>5, <1>6

LEMMA BeginKeepsInv ==
  ASSUME IInv, NEW t \in Txn, BeginBuyer(t) \/ BeginStaff(t) \/ BeginCron(t)
  PROVE  IInv'
<1>1. ASSUME NEW p \in Session, BeginMockSucceed(t, p) \/ BeginMockFail(t, p) PROVE IInv'
  <2>1. CASE BeginMockSucceed(t, p)
    BY <2>1, PayGood, BeginKeeps, BlankSeen DEF BeginMockSucceed, Begin, IInv
  <2>2. CASE BeginMockFail(t, p)
    BY <2>2, FailGood, BeginKeeps, BlankSeen DEF BeginMockFail, Begin, IInv
  <2> QED  BY <1>1, <2>1, <2>2
<1>2. ASSUME NEW s \in Sku, NEW d \in -MaxUnits..MaxUnits, BeginAdjust(t, s, d) PROVE IInv'
  <2>1. UpdateSku(s, "adjust", d) \in GroundedStmt
    BY ConstantsAssumption DEF GroundedStmt, PlainStmt, UpdateSku, Grounded
  <2>2. GoodTodo(<<UpdateSku(s, "adjust", d)>>)
    BY <2>1, SeqOne, PlainGood
  <2>3. skus \in [Sku -> AnySkuRow]
    BY DEF IInv, Types, CommittedOK
  <2> QED  BY <1>2, <2>2, <2>3, BeginKeeps DEF BeginAdjust
<1>3. ASSUME NEW o \in Order, BeginGetDetail(t, o) PROVE IInv'
  BY <1>3, BeginExpireKeeps DEF BeginGetDetail
<1>4. ASSUME NEW u \in User, BeginListByUser(t, u) PROVE IInv'
  BY <1>4, BeginExpireKeeps DEF BeginListByUser
<1>5. ASSUME BeginScanExpire(t) PROVE IInv'
  <2>1. PICK B \in Batches(Pending \cap overdue) : BeginExpire(t, B)
    BY <1>5 DEF BeginScanExpire
  <2>2. B \in SUBSET Pending
    BY DEF Batches
  <2> QED  BY <2>1, <2>2, BeginExpireKeeps
<1>6. CASE BeginBuyer(t)
  BY <1>1, <1>3, <1>4, <1>6, BeginCreateKeeps, BeginOneOrderKeeps DEF BeginBuyer, CancelReason
<1>7. CASE BeginStaff(t)
  BY <1>2, <1>7, BeginOneOrderKeeps DEF BeginStaff, CancelReason
<1>8. CASE BeginCron(t)
  BY <1>5, <1>8, BeginScanCompleteKeeps DEF BeginCron
<1> QED  BY <1>6, <1>7, <1>8

-----------------------------------------------------------------------------
(* A statement that is executed.                                           *)

LocksGrow == \A x \in Txn : txns[x].locks \subseteq txns'[x].locks

\* What t has locked once its next statement ran.
LEMMA ReadyFacts ==
  ASSUME IInv, NEW t \in Txn, NEW op, Ready(t, op)
  PROVE  /\ Head(txns[t].todo) \in Stmt
         /\ Head(txns[t].todo) = txns[t].todo[1]
         /\ 1 \in DOMAIN txns[t].todo
         /\ Head(txns[t].todo).op = op
         /\ Grounded(Head(txns[t].todo))
         /\ Tail(txns[t].todo) \in Seq(Stmt)
         /\ \A i \in DOMAIN Tail(txns[t].todo) :
              /\ i \in Nat \ {0}
              /\ i + 1 \in DOMAIN txns[t].todo
              /\ Tail(txns[t].todo)[i] = txns[t].todo[i + 1]
         /\ \A x \in Txn : x # t => Needs(Head(txns[t].todo)) \cap txns[x].locks = {}
<1> DEFINE q == txns[t].todo
<1>1. q \in Seq(Stmt) /\ q # <<>>
  BY DEF IInv, Types, TxnsOK, TxnRow, Ready
<1>2. \A i \in DOMAIN q : Grounded(q[i])
  BY DEF IInv, Charges, StmtsGrounded
<1>3. \A x \in Txn : x # t => Needs(Head(q)) \cap txns[x].locks = {}
  BY DEF Ready, WaitsFor
<1>4. Head(q).op = op
  BY DEF Ready
<1> HIDE DEF q
<1>5. /\ Head(q) \in Stmt /\ Head(q) = q[1] /\ 1 \in DOMAIN q
      /\ Tail(q) \in Seq(Stmt)
      /\ \A i \in DOMAIN Tail(q) :
           i \in Nat \ {0} /\ i + 1 \in DOMAIN q /\ Tail(q)[i] = q[i + 1]
  BY <1>1
<1>6. Grounded(Head(q))
  BY <1>2, <1>5
<1> QED  BY <1>3, <1>4, <1>5, <1>6 DEF q

LEMMA NeedsType ==
  ASSUME CommittedOK, NEW stmt \in Stmt
  PROVE  Needs(stmt) \subseteq Lock
<1>1. CASE stmt \in [op : {"insert_order"}, row : PlacedRow]
  BY <1>1 DEF Needs, Lock, PlacedRow
<1>2. CASE stmt.op = "update_order" /\ stmt.order \in Order
  <2>1. orders[stmt.order].user \in User \cup {NoUser}
        /\ orders[stmt.order].key \in Key \cup {NoKey}
    BY <1>2 DEF CommittedOK, OrderRow
  <2> QED  BY <1>2, <2>1 DEF Needs, Lock
<1>3. CASE stmt.op = "close_order" /\ stmt.order \in Order
  BY <1>3 DEF Needs, Lock
<1>4. CASE stmt.op = "fetch_sku"
  BY <1>4 DEF Needs
<1>5. CASE stmt.op = "update_sku" /\ stmt.sku \in Sku
  BY <1>5 DEF Needs, Lock
<1>6. CASE stmt.op = "insert_session" /\ stmt.order \in Order
  BY <1>6 DEF Needs, Lock
<1>7. CASE stmt.op = "delete_cart" /\ stmt.user \in User /\ stmt.items \in SUBSET Sku
  BY <1>7 DEF Needs, Lock
<1>8. CASE stmt.op = "update_session" /\ stmt.session \in Session /\ stmt.order \in Order
  BY <1>8 DEF Needs, Lock
<1> QED
  BY <1>1, <1>2, <1>3, <1>4, <1>5, <1>6, <1>7, <1>8 DEF Stmt, PlainStmt, PaidStmt, SettleStmt

LEMMA DoneFacts ==
  ASSUME IInv, NEW t \in Txn, NEW op, Ready(t, op),
         NEW inserted \in SUBSET Lock, NEW seen \in [Sku -> AnySkuRow],
         Done(t, inserted, seen)
  PROVE  /\ TxnsOK'
         /\ \A x \in Txn : x # t => txns'[x] = txns[x]
         /\ txns'[t].active
         /\ txns'[t].todo = Tail(txns[t].todo)
         /\ txns'[t].locks = txns[t].locks \cup Needs(Head(txns[t].todo)) \cup inserted
         /\ LocksGrow
<1> DEFINE row == [txns[t] EXCEPT !.todo  = Tail(@),
                                  !.locks = @ \cup Needs(Head(txns[t].todo)) \cup inserted,
                                  !.seen  = seen]
<1>1. txns \in [Txn -> TxnRow] /\ CommittedOK
  BY DEF IInv, Types, TxnsOK
<1>2. txns' = [txns EXCEPT ![t] = row]
  BY <1>1 DEF Done
<1>3. Head(txns[t].todo) \in Stmt /\ Tail(txns[t].todo) \in Seq(Stmt)
  BY ReadyFacts
<1>4. Needs(Head(txns[t].todo)) \subseteq Lock
  BY <1>1, <1>3, NeedsType
<1>5. txns[t] \in TxnRow /\ txns[t].active
  BY <1>1 DEF Ready
<1> DEFINE a == Needs(Head(txns[t].todo))
           b == Tail(txns[t].todo)
<1>6. row = [txns[t] EXCEPT !.todo = b, !.locks = @ \cup a \cup inserted, !.seen = seen]
  OBVIOUS
<1>7. a \subseteq Lock /\ b \in Seq(Stmt)
  BY <1>3, <1>4
<1> HIDE DEF a, b
<1>8. /\ row \in TxnRow /\ row.active /\ row.todo = b
      /\ row.locks = txns[t].locks \cup a \cup inserted
  BY <1>5, <1>6, <1>7 DEF TxnRow
<1> HIDE DEF row
<1>9. txns' \in [Txn -> TxnRow] /\ txns'[t] = row /\ \A x \in Txn : x # t => txns'[x] = txns[x]
  BY <1>1, <1>2, <1>8
<1>10. LocksGrow
  BY <1>8, <1>9 DEF LocksGrow
<1> QED  BY <1>8, <1>9, <1>10 DEF TxnsOK, a, b

LEMMA OrdersStay ==
  ASSUME OrderVersions, LocksGrow, UNCHANGED orders, cur'.orders = cur.orders
  PROVE  OrderVersions'
<1>1. OrdersOwned'
  <2> SUFFICES ASSUME NEW o \in Order, cur.orders[o] # orders[o]
               PROVE  \E t \in Txn :
                        /\ Holds(t, <<"order", o>>)'
                        /\ cur.orders[o].key # orders[o].key =>
                             HoldsKey(t, cur.orders[o])' /\ HoldsKey(t, orders[o])'
    BY DEF OrdersOwned
  <2>1. PICK t \in Txn :
          /\ Holds(t, <<"order", o>>)
          /\ cur.orders[o].key # orders[o].key =>
               HoldsKey(t, cur.orders[o]) /\ HoldsKey(t, orders[o])
    BY DEF OrderVersions, OrdersOwned
  <2> QED  BY <2>1 DEF Holds, HoldsKey, LocksGrow
<1> QED
  BY <1>1 DEF OrderVersions, OrdersBlank, OrdersGrow, UniqueUserKey, Used, WasPaid

LEMMA SessionsStay ==
  ASSUME SessionVersions, LocksGrow, UNCHANGED sessions, cur'.sessions = cur.sessions
  PROVE  SessionVersions'
<1>1. SessionsOwned'
  <2> SUFFICES ASSUME NEW p \in Session, cur.sessions[p] # sessions[p]
               PROVE  \E t \in Txn :
                        /\ Holds(t, <<"session", p>>)'
                        /\ Holds(t, <<"pending", cur.sessions[p].order>>)'
    BY DEF SessionsOwned
  <2>1. PICK t \in Txn : /\ Holds(t, <<"session", p>>)
                         /\ Holds(t, <<"pending", cur.sessions[p].order>>)
    BY DEF SessionVersions, SessionsOwned
  <2> QED  BY <2>1 DEF Holds, LocksGrow
<1> QED
  BY <1>1 DEF SessionVersions, SessionsBlank, SessionsGrow, UniquePending, Used

\* The locks of t after its statement, and those of the others.
LEMMA LocksStayExclusive ==
  ASSUME IInv, NEW t \in Txn, NEW op, Ready(t, op),
         NEW inserted \in SUBSET Lock, NEW seen \in [Sku -> AnySkuRow],
         Done(t, inserted, seen),
         \A x \in Txn : x # t => inserted \cap txns[x].locks = {}
  PROVE  IdleIsIdle' /\ LocksExclusive'
<1>1. /\ \A x \in Txn : x # t => txns'[x] = txns[x]
      /\ txns'[t].active
      /\ txns'[t].locks = txns[t].locks \cup Needs(Head(txns[t].todo)) \cup inserted
  BY DoneFacts
<1>2. \A x \in Txn : x # t => Needs(Head(txns[t].todo)) \cap txns[x].locks = {}
  BY ReadyFacts
<1>3. IdleIsIdle'
  BY <1>1 DEF IInv, Locking, IdleIsIdle
<1>4. \A x \in Txn : x # t => txns'[t].locks \cap txns'[x].locks = {}
  BY <1>1, <1>2 DEF IInv, Locking, LocksExclusive
<1>5. LocksExclusive'
  BY <1>1, <1>4 DEF IInv, Locking, LocksExclusive
<1> QED  BY <1>3, <1>5

\* What a statement of t leaves true of the charges.
LEMMA ChargesStay ==
  ASSUME IInv, NEW t \in Txn, NEW op, Ready(t, op),
         NEW inserted \in SUBSET Lock, NEW seen \in [Sku -> AnySkuRow],
         Done(t, inserted, seen), UNCHANGED <<orders, sessions>>,
         \A o \in Order : WasPaid(cur.orders[o]) => WasPaid(cur'.orders[o]),
         op = "update_order" /\ Head(txns[t].todo).to = "paid"
           => \A o : o = Head(txns[t].todo).order => HasPaid(t, o)'
  PROVE  /\ StmtsGrounded' /\ PaidFirst' /\ ChargeLeavesTrace'
         /\ \A x \in Txn, o \in Order : HasPaid(x, o) => HasPaid(x, o)'
<1>1. /\ \A x \in Txn : x # t => txns'[x] = txns[x]
      /\ txns'[t].todo = Tail(txns[t].todo)
      /\ LocksGrow
  BY DoneFacts
<1>2. /\ Head(txns[t].todo) = txns[t].todo[1]
      /\ Head(txns[t].todo).op = op
      /\ \A i \in DOMAIN Tail(txns[t].todo) :
           /\ i \in Nat \ {0}
           /\ i + 1 \in DOMAIN txns[t].todo
           /\ Tail(txns[t].todo)[i] = txns[t].todo[i + 1]
  BY ReadyFacts
<1>3. \A x \in Txn, o \in Order : HasPaid(x, o) => HasPaid(x, o)'
  BY <1>1 DEF HasPaid, Holds, LocksGrow, WasPaid
<1>4. StmtsGrounded'
  <2> SUFFICES ASSUME NEW x \in Txn, NEW i \in DOMAIN txns'[x].todo
               PROVE  Grounded(txns[x].todo[i])'
    BY DEF StmtsGrounded
  <2>1. \E j \in DOMAIN txns[x].todo : txns'[x].todo[i] = txns[x].todo[j]
    <3>1. CASE x = t
      BY <1>1, <1>2, <3>1
    <3>2. CASE x # t
      BY <1>1, <3>2
    <3> QED  BY <3>1, <3>2
  <2>2. PICK j \in DOMAIN txns[x].todo : txns'[x].todo[i] = txns[x].todo[j]
    BY <2>1
  <2>3. Grounded(txns[x].todo[j])
    BY DEF IInv, Charges, StmtsGrounded
  <2> QED  BY <2>2, <2>3 DEF Grounded, Used
<1>5. PaidFirst'
  <2> SUFFICES ASSUME NEW x \in Txn, NEW i \in DOMAIN txns'[x].todo,
                      Succeeds(txns'[x].todo[i])
               PROVE  \/ i = 1 /\ HasPaid(x, txns[x].todo[i].order)'
                      \/ /\ i = 2
                         /\ txns'[x].todo[1].op = "update_order"
                         /\ txns'[x].todo[1].order = txns'[x].todo[2].order
                         /\ txns'[x].todo[1].to = "paid"
    BY DEF PaidFirst, Succeeds, HasPaid, Holds
  <2>1. CASE x # t
    <3>1. txns'[x] = txns[x]
      BY <1>1, <2>1
    <3>2. \/ i = 1 /\ HasPaid(x, txns[x].todo[i].order)
          \/ /\ i = 2
             /\ txns[x].todo[1].op = "update_order"
             /\ txns[x].todo[1].order = txns[x].todo[2].order
             /\ txns[x].todo[1].to = "paid"
      BY <3>1 DEF IInv, Charges, PaidFirst
    <3>3. txns[x].todo[i] \in Stmt /\ Succeeds(txns[x].todo[i])
      BY <3>1 DEF IInv, Types, TxnsOK, TxnRow
    <3>4. txns[x].todo[i].order \in Order
      BY <3>3 DEF Stmt, PlainStmt, PaidStmt, SettleStmt, Succeeds
    <3>5. HasPaid(x, txns[x].todo[i].order)
             => WasPaid(cur'.orders[txns[x].todo[i].order])
                /\ <<"order", txns[x].todo[i].order>> \in txns'[x].locks
      BY <1>3, <3>4 DEF HasPaid, Holds, WasPaid
    <3> QED  BY <3>1, <3>2, <3>5 DEF HasPaid, Holds, WasPaid
  <2>2. CASE x = t
    <3>1. /\ i \in Nat \ {0} /\ i + 1 \in DOMAIN txns[t].todo
          /\ txns'[t].todo[i] = txns[t].todo[i + 1]
      BY <1>1, <1>2, <2>2
    <3>2. /\ i + 1 = 2
          /\ txns[t].todo[1].op = "update_order"
          /\ txns[t].todo[1].order = txns[t].todo[2].order
          /\ txns[t].todo[1].to = "paid"
      BY <2>2, <3>1 DEF IInv, Charges, PaidFirst, Succeeds
    <3>3. i = 1 /\ txns'[t].todo[i].order = Head(txns[t].todo).order
      BY <1>2, <3>1, <3>2
    <3>4. PICK o : o = Head(txns[t].todo).order
      OBVIOUS
    <3>5. HasPaid(t, o)'
      BY <1>2, <3>2, <3>4
    <3>6. <<"order", txns'[t].todo[i].order>> \in txns'[t].locks
          /\ WasPaid(cur'.orders[txns'[t].todo[i].order])
      BY <3>3, <3>4, <3>5 DEF HasPaid, Holds, WasPaid
    <3> QED  BY <2>2, <3>3, <3>6 DEF HasPaid, Holds, WasPaid
  <2> QED  BY <2>1, <2>2
<1>6. ChargeLeavesTrace'
  BY DEF IInv, Charges, ChargeLeavesTrace, Paid, WasPaid
<1> QED  BY <1>3, <1>4, <1>5, <1>6

\* Statements on the stock and the cart: no order or session row changes.
LEMMA QuietKeeps ==
  ASSUME IInv, NEW t \in Txn, NEW op \in {"fetch_sku", "update_sku", "delete_cart"},
         Ready(t, op), NEW seen \in [Sku -> AnySkuRow], Done(t, {}, seen), UNCHANGED vars,
         NewestOK', cur'.orders = cur.orders, cur'.sessions = cur.sessions
  PROVE  IInv'
<1>1. UNCHANGED <<orders, skus, sessions, cart, overdue, autoDue>>
  BY DEF vars
<1>2. /\ TxnsOK'
      /\ \A x \in Txn : x # t => txns'[x] = txns[x]
      /\ txns'[t].locks = txns[t].locks \cup Needs(Head(txns[t].todo)) \cup {}
      /\ LocksGrow
  BY DoneFacts
<1>3. IdleIsIdle' /\ LocksExclusive'
  BY LocksStayExclusive
<1>4. /\ \A o \in Order : <<"order", o>> \notin Needs(Head(txns[t].todo))
      /\ \A p \in Session : <<"session", p>> \notin Needs(Head(txns[t].todo))
  <2>1. Head(txns[t].todo).op = op
    BY ReadyFacts
  <2> QED  BY <2>1 DEF Needs
<1>5. \A x \in Txn :
        /\ \A o \in Order : Holds(x, <<"order", o>>)' => Holds(x, <<"order", o>>)
        /\ \A p \in Session : Holds(x, <<"session", p>>)' => Holds(x, <<"session", p>>)
  <2>1. ASSUME NEW x \in Txn, NEW r, r \notin Needs(Head(txns[t].todo)), r \in txns'[x].locks
        PROVE  r \in txns[x].locks
    <3>1. CASE x = t
      BY <1>2, <2>1, <3>1
    <3>2. CASE x # t
      BY <1>2, <2>1, <3>2
    <3> QED  BY <3>1, <3>2
  <2>2. ASSUME NEW x \in Txn, NEW o \in Order, Holds(x, <<"order", o>>)'
        PROVE  Holds(x, <<"order", o>>)
    BY <1>4, <2>1, <2>2, Zenon DEF Holds
  <2>3. ASSUME NEW x \in Txn, NEW p \in Session, Holds(x, <<"session", p>>)'
        PROVE  Holds(x, <<"session", p>>)
    BY <1>4, <2>1, <2>3, Zenon DEF Holds
  <2> QED  BY <2>2, <2>3
<1>6. LockedIsUsed'
  BY <1>5 DEF IInv, Locking, LockedIsUsed, Used
<1>7. OrderVersions' /\ SessionVersions'
  BY <1>1, <1>2, OrdersStay, SessionsStay DEF IInv
<1>8. /\ StmtsGrounded' /\ PaidFirst' /\ ChargeLeavesTrace'
      /\ \A x \in Txn, o \in Order : HasPaid(x, o) => HasPaid(x, o)'
  BY <1>1, ChargesStay DEF WasPaid
<1>9. ChargeOwned'
  <2> SUFFICES ASSUME NEW x \in Txn, NEW p \in Session, Holds(x, <<"session", p>>)',
                      cur'.sessions[p].status = "succeeded",
                      sessions'[p].status # "succeeded"
               PROVE  HasPaid(x, cur.sessions[p].order)'
    BY DEF ChargeOwned
  <2>1. HasPaid(x, cur.sessions[p].order) /\ Used(cur.sessions[p])
    BY <1>1, <1>5 DEF IInv, Charges, ChargeOwned, Used
  <2>2. cur.sessions[p].order \in Order
    BY <2>1 DEF IInv, SessionVersions, SessionsBlank
  <2>3. PICK o \in Order : o = cur.sessions[p].order
    BY <2>2
  <2>4. HasPaid(x, o)'
    BY <1>8, <2>1, <2>3
  <2> QED  BY <2>3, <2>4 DEF HasPaid, Holds, WasPaid
<1>10. CommittedOK'
  BY <1>1 DEF IInv, Types, CommittedOK
<1> QED
  BY <1>2, <1>3, <1>6, <1>7, <1>8, <1>9, <1>10 DEF IInv, Types, Locking, Charges

\* Column by column, an SKU row stays one.
LEMMA ColumnsType ==
  ASSUME NEW row \in AnySkuRow, NEW a \in Int, NEW b \in Int, NEW c \in Int
  PROVE  /\ [row EXCEPT !.stock = a, !.locked = b, !.logged = c] \in AnySkuRow
         /\ [row EXCEPT !.locked = a, !.sold = b] \in AnySkuRow
         /\ [row EXCEPT !.stock = a, !.logged = b] \in AnySkuRow
<1> DEFINE m == [row EXCEPT !.stock = a]
           n == [m EXCEPT !.locked = b]
           k == [row EXCEPT !.locked = a]
<1>1. m \in AnySkuRow /\ k \in AnySkuRow
  BY DEF AnySkuRow
<1> HIDE DEF m, k
<1>2. n \in AnySkuRow
  BY <1>1 DEF AnySkuRow
<1> HIDE DEF n
<1>3. /\ [n EXCEPT !.logged = c] \in AnySkuRow
      /\ [k EXCEPT !.sold = b] \in AnySkuRow
      /\ [m EXCEPT !.logged = b] \in AnySkuRow
  BY <1>1, <1>2 DEF AnySkuRow
<1>4. /\ [n EXCEPT !.logged = c] = [row EXCEPT !.stock = a, !.locked = b, !.logged = c]
      /\ [k EXCEPT !.sold = b] = [row EXCEPT !.locked = a, !.sold = b]
      /\ [m EXCEPT !.logged = b] = [row EXCEPT !.stock = a, !.logged = b]
  BY DEF m, n, k
<1> QED  BY <1>3, <1>4

LEMMA ChangeType ==
  ASSUME NEW row \in AnySkuRow, NEW q \in Int,
         NEW how \in {"lock", "release", "finalize", "adjust"}
  PROVE  Change(how, row, q) \in AnySkuRow
<1>1. /\ row.stock + q \in Int /\ row.stock - q \in Int
      /\ row.locked + q \in Int /\ row.sold + q \in Int
      /\ row.logged + q \in Int /\ row.logged - q \in Int
      /\ Minus(row.locked, q) \in Int
  BY DEF AnySkuRow, Minus
<1>2. Locked(row, q) \in AnySkuRow
  BY <1>1, ColumnsType DEF Locked
<1>3. Released(row, q) \in AnySkuRow
  BY <1>1, ColumnsType DEF Released
<1>4. Finalized(row, q) \in AnySkuRow
  BY <1>1, ColumnsType DEF Finalized
<1>5. Adjusted(row, q) \in AnySkuRow
  BY <1>1, ColumnsType DEF Adjusted
<1> QED  BY <1>2, <1>3, <1>4, <1>5 DEF Change

LEMMA SeenType ==
  ASSUME IInv, NEW t \in Txn
  PROVE  txns[t].seen \in [Sku -> AnySkuRow]
BY DEF IInv, Types, TxnsOK, TxnRow

LEMMA ExecFetchSkuKeeps ==
  ASSUME IInv, NEW t \in Txn, ExecFetchSku(t)
  PROVE  IInv'
<1> DEFINE s == Head(txns[t].todo).sku
           seen == [txns[t].seen EXCEPT ![s] = Visible(t, s)]
<1>1. Ready(t, "fetch_sku") /\ Done(t, {}, seen) /\ UNCHANGED <<vars, cur>>
  BY DEF ExecFetchSku
<1>2. s \in Sku
  <2>1. Head(txns[t].todo) \in Stmt /\ Head(txns[t].todo).op = "fetch_sku"
    BY <1>1, ReadyFacts
  <2> QED  BY <2>1 DEF Stmt, PlainStmt, PaidStmt, SettleStmt
<1>3. Visible(t, s) \in AnySkuRow
  BY <1>2 DEF Visible, IInv, Types, CommittedOK, NewestOK
<1>4. seen \in [Sku -> AnySkuRow]
  BY <1>3, SeenType
<1>5. NewestOK' /\ cur'.orders = cur.orders /\ cur'.sessions = cur.sessions
  BY <1>1 DEF IInv, Types, NewestOK
<1> HIDE DEF seen
<1> QED  BY <1>1, <1>4, <1>5, QuietKeeps

LEMMA ExecUpdateSkuKeeps ==
  ASSUME IInv, NEW t \in Txn, ExecUpdateSku(t)
  PROVE  IInv'
<1> DEFINE stmt == Head(txns[t].todo)
           s    == stmt.sku
           old  == txns[t].seen[s]
           new  == Change(stmt.how, old, stmt.qty)
           Column(c) == IF new[c] # old[c] THEN new[c] ELSE cur.skus[s][c]
           row  == [stock  |-> Column("stock"),
                    locked |-> Column("locked"),
                    sold   |-> Column("sold"),
                    logged |-> cur.skus[s].logged + (new.logged - old.logged)]
           seen == [txns[t].seen EXCEPT ![s] = new]
<1>1. NewestOK /\ txns[t].seen \in [Sku -> AnySkuRow]
  BY SeenType DEF IInv, Types
<1>2. Ready(t, "update_sku") /\ UNCHANGED vars /\ Done(t, {}, seen)
  BY DEF ExecUpdateSku
<1>3. s \in Sku /\ stmt.how \in {"lock", "release", "finalize", "adjust"} /\ stmt.qty \in Int
  <2>1. stmt \in Stmt /\ stmt.op = "update_sku"
    BY <1>2, ReadyFacts
  <2> HIDE DEF stmt
  <2> QED  BY <2>1 DEF Stmt, PlainStmt, PaidStmt, SettleStmt
<1>4. cur' = [cur EXCEPT !.skus[s] = row]
  BY <1>1, <1>3 DEF ExecUpdateSku, NewestOK
<1>5. old \in AnySkuRow /\ cur.skus[s] \in AnySkuRow
  BY <1>1, <1>3 DEF NewestOK
<1>6. new \in AnySkuRow
  BY <1>3, <1>5, ChangeType
<1>7. row \in AnySkuRow
  <2> HIDE DEF new, old, s
  <2> QED  BY <1>5, <1>6 DEF AnySkuRow
<1>8. seen \in [Sku -> AnySkuRow]
  BY <1>1, <1>6
<1> HIDE DEF row, s, seen
<1>9. NewestOK' /\ cur'.orders = cur.orders /\ cur'.sessions = cur.sessions
  BY <1>1, <1>4, <1>7 DEF NewestOK
<1> QED  BY <1>2, <1>8, <1>9, QuietKeeps

LEMMA ExecDeleteCartKeeps ==
  ASSUME IInv, NEW t \in Txn, ExecDeleteCart(t)
  PROVE  IInv'
<1> DEFINE stmt == Head(txns[t].todo)
           row == [s \in Sku |-> IF s \in stmt.items THEN 0 ELSE cur.cart[stmt.user][s]]
<1>1. Ready(t, "delete_cart") /\ UNCHANGED vars /\ Done(t, {}, txns[t].seen)
  BY DEF ExecDeleteCart
<1>2. NewestOK /\ txns[t].seen \in [Sku -> AnySkuRow]
  BY SeenType DEF IInv, Types
<1>3. stmt.user \in User
  <2>1. stmt \in Stmt /\ stmt.op = "delete_cart"
    BY <1>1, ReadyFacts
  <2> HIDE DEF stmt
  <2> QED  BY <2>1 DEF Stmt, PlainStmt, PaidStmt, SettleStmt
<1>4. cur' = [cur EXCEPT !.cart[stmt.user] = row]
  BY <1>2, <1>3 DEF ExecDeleteCart, NewestOK, CartTable
<1>5. row \in [Sku -> 0..MaxCartItemQuantity]
  BY <1>2, <1>3, ConstantsAssumption DEF NewestOK, CartTable
<1> HIDE DEF row, stmt
<1>6. NewestOK' /\ cur'.orders = cur.orders /\ cur'.sessions = cur.sessions
  BY <1>2, <1>4, <1>5 DEF NewestOK, CartTable
<1> QED  BY <1>1, <1>2, <1>6, QuietKeeps

-----------------------------------------------------------------------------
(* Statements on the orders.                                               *)

\* t, who has the row's lock, writes a new version of it.
LEMMA OrderWritten ==
  ASSUME OrderVersions, NewestOK, NEW t \in Txn, NEW o \in Order, NEW new \in OrderRow,
         Used(new), cur' = [cur EXCEPT !.orders[o] = new], UNCHANGED orders, LocksGrow,
         Holds(t, <<"order", o>>)',
         new.key # orders[o].key => HoldsKey(t, new)' /\ HoldsKey(t, orders[o])',
         Used(orders[o]) => new.user = orders[o].user /\ (WasPaid(orders[o]) => WasPaid(new)),
         UniqueUserKey(cur'.orders)
  PROVE  /\ OrderVersions' /\ NewestOK'
         /\ cur'.orders = [cur.orders EXCEPT ![o] = new]
         /\ cur'.sessions = cur.sessions
<1>1. /\ cur'.orders = [cur.orders EXCEPT ![o] = new]
      /\ cur'.sessions = cur.sessions
      /\ NewestOK'
  BY DEF NewestOK
<1>2. /\ cur'.orders[o] = new
      /\ \A x \in Order : x # o => cur'.orders[x] = cur.orders[x]
  BY <1>1 DEF NewestOK
<1>3. OrdersOwned'
  <2> SUFFICES ASSUME NEW x \in Order, cur'.orders[x] # orders[x]
               PROVE  \E y \in Txn :
                        /\ Holds(y, <<"order", x>>)'
                        /\ cur'.orders[x].key # orders[x].key =>
                             HoldsKey(y, cur.orders[x])' /\ HoldsKey(y, orders[x])'
    BY DEF OrdersOwned
  <2>1. CASE x = o
    BY <1>2, <2>1 DEF HoldsKey, Holds
  <2>2. CASE x # o
    <3>1. PICK y \in Txn :
            /\ Holds(y, <<"order", x>>)
            /\ cur.orders[x].key # orders[x].key =>
                 HoldsKey(y, cur.orders[x]) /\ HoldsKey(y, orders[x])
      BY <1>2, <2>2 DEF OrderVersions, OrdersOwned
    <3> QED  BY <1>2, <2>2, <3>1 DEF Holds, HoldsKey, LocksGrow
  <2> QED  BY <2>1, <2>2
<1>4. OrdersGrow'
  <2> SUFFICES ASSUME NEW x \in Order, Used(orders[x])
               PROVE  /\ Used(cur'.orders[x])
                      /\ cur'.orders[x].user = orders[x].user
                      /\ WasPaid(orders[x]) => WasPaid(cur'.orders[x])
    BY DEF OrdersGrow, Used, WasPaid
  <2> QED  BY <1>2 DEF OrderVersions, OrdersGrow
<1>5. OrdersBlank(orders)' /\ OrdersBlank(cur.orders)'
  BY <1>2 DEF OrderVersions, OrdersBlank, Used
<1>6. UniqueUserKey(orders)' /\ UniqueUserKey(cur.orders)'
  BY DEF OrderVersions, UniqueUserKey
<1> QED  BY <1>1, <1>3, <1>4, <1>5, <1>6 DEF OrderVersions

\* What is left once the order rows are settled.
LEMMA OrderStmtKeeps ==
  ASSUME IInv, NEW t \in Txn, NEW op \in {"insert_order", "update_order", "close_order"},
         Ready(t, op), NEW inserted \in SUBSET Lock, NEW seen \in [Sku -> AnySkuRow],
         Done(t, inserted, seen),
         UNCHANGED <<orders, skus, sessions, cart, overdue, autoDue>>,
         \A p \in Session : <<"session", p>> \notin inserted,
         \A x \in Txn : x # t => inserted \cap txns[x].locks = {},
         NEW o \in Order, NEW new \in OrderRow, Used(new),
         cur'.orders = [cur.orders EXCEPT ![o] = new], cur'.sessions = cur.sessions,
         NewestOK', OrderVersions',
         \A x \in Order : Holds(t, <<"order", x>>)' => x = o \/ Holds(t, <<"order", x>>),
         WasPaid(cur.orders[o]) => WasPaid(new),
         op = "update_order" /\ Head(txns[t].todo).to = "paid"
           => \A x : x = Head(txns[t].todo).order => HasPaid(t, x)'
  PROVE  IInv'
<1>1. /\ TxnsOK'
      /\ \A x \in Txn : x # t => txns'[x] = txns[x]
      /\ txns'[t].locks = txns[t].locks \cup Needs(Head(txns[t].todo)) \cup inserted
      /\ LocksGrow
  BY DoneFacts
<1>2. IdleIsIdle' /\ LocksExclusive'
  BY LocksStayExclusive
<1>3. /\ cur'.orders[o] = new
      /\ \A x \in Order : x # o => cur'.orders[x] = cur.orders[x]
  BY DEF IInv, Types, NewestOK
<1>4. \A p \in Session : <<"session", p>> \notin Needs(Head(txns[t].todo))
  <2>1. Head(txns[t].todo).op = op
    BY ReadyFacts
  <2> QED  BY <2>1 DEF Needs
<1>5. ASSUME NEW x \in Txn, NEW p \in Session, Holds(x, <<"session", p>>)'
      PROVE  Holds(x, <<"session", p>>)
  BY <1>1, <1>4, <1>5 DEF Holds
<1>6. LockedIsUsed'
  <2>1. ASSUME NEW x \in Txn, NEW y \in Order, Holds(x, <<"order", y>>)'
        PROVE  Used(cur'.orders[y])
    <3>1. CASE y = o
      BY <1>3, <3>1
    <3>2. CASE y # o
      <4>1. Holds(x, <<"order", y>>)
        BY <1>1, <2>1, <3>2 DEF Holds
      <4> QED  BY <1>3, <3>2, <4>1 DEF IInv, Locking, LockedIsUsed
    <3> QED  BY <3>1, <3>2
  <2>2. ASSUME NEW x \in Txn, NEW p \in Session, Holds(x, <<"session", p>>)'
        PROVE  Used(cur'.sessions[p])
    BY <1>5, <2>2 DEF IInv, Locking, LockedIsUsed
  <2> QED  BY <2>1, <2>2 DEF LockedIsUsed, Used
<1>7. SessionVersions'
  BY <1>1, SessionsStay DEF IInv
<1>8. \A x \in Order : WasPaid(cur.orders[x]) => WasPaid(cur'.orders[x])
  BY <1>3
<1>9. /\ StmtsGrounded' /\ PaidFirst' /\ ChargeLeavesTrace'
      /\ \A x \in Txn, y \in Order : HasPaid(x, y) => HasPaid(x, y)'
  BY <1>8, ChargesStay
<1>10. ChargeOwned'
  <2> SUFFICES ASSUME NEW x \in Txn, NEW p \in Session, Holds(x, <<"session", p>>)',
                      cur'.sessions[p].status = "succeeded",
                      sessions'[p].status # "succeeded"
               PROVE  HasPaid(x, cur.sessions[p].order)'
    BY DEF ChargeOwned
  <2>1. HasPaid(x, cur.sessions[p].order) /\ Used(cur.sessions[p])
    BY <1>5 DEF IInv, Charges, ChargeOwned, Used
  <2>2. PICK y \in Order : y = cur.sessions[p].order
    BY <2>1 DEF IInv, SessionVersions, SessionsBlank
  <2>3. HasPaid(x, y)'
    BY <1>9, <2>1, <2>2
  <2> QED  BY <2>2, <2>3 DEF HasPaid, Holds, WasPaid
<1>11. CommittedOK'
  BY DEF IInv, Types, CommittedOK
<1> QED
  BY <1>1, <1>2, <1>6, <1>7, <1>9, <1>10, <1>11 DEF IInv, Types, Locking, Charges

LEMMA InsertStores ==
  ASSUME IInv, NEW t \in Txn, Ready(t, "insert_order"), ~KeyTaken(Head(txns[t].todo)),
         StoreOrder(t, Head(txns[t].todo)),
         UNCHANGED <<cart, skus, orders, sessions, overdue, autoDue>>
  PROVE  IInv'
<1>1. PICK stmt, seen : stmt = Head(txns[t].todo) /\ seen = txns[t].seen
  OBVIOUS
<1> DEFINE new == stmt.row
<1>2. PICK o \in FreeOrders : cur' = [cur EXCEPT !.orders[o] = new]
                               /\ Done(t, {<<"order", o>>}, seen)
  BY <1>1 DEF StoreOrder
<1>3. o \in Order /\ ~Used(cur.orders[o])
  BY DEF FreeOrders, Used
<1>4. stmt \in [op : {"insert_order"}, row : PlacedRow]
  <2>1. stmt \in Stmt /\ stmt.op = "insert_order"
    BY <1>1, ReadyFacts
  <2> QED  BY <2>1 DEF Stmt, PlainStmt, PaidStmt, SettleStmt
<1>5. new \in OrderRow /\ Used(new) /\ new.key # NoKey
  BY <1>4, ConstantsAssumption DEF PlacedRow, Used
<1>6. seen \in [Sku -> AnySkuRow] /\ {<<"order", o>>} \in SUBSET Lock
  BY <1>1, <1>3, SeenType DEF Lock
<1>7. /\ txns'[t].locks = txns[t].locks \cup Needs(stmt) \cup {<<"order", o>>}
      /\ \A x \in Txn : x # t => txns'[x] = txns[x]
      /\ LocksGrow
  BY <1>1, <1>2, <1>6, DoneFacts
<1>8. Needs(stmt) = {<<"key", new.user, new.key>>}
  BY <1>4 DEF Needs
<1>9. ~Used(orders[o]) /\ orders[o].key = NoKey /\ ~WasPaid(cur.orders[o])
  BY <1>3 DEF IInv, OrderVersions, OrdersGrow, OrdersBlank, WasPaid
<1>10. NewestOK /\ OrderVersions
  BY DEF IInv, Types
<1>11. UniqueUserKey(cur'.orders)
  <2>1. \A x \in Order : ~(cur.orders[x].user = new.user /\ cur.orders[x].key = new.key)
    BY <1>1 DEF KeyTaken
  <2>2. cur'.orders[o] = new /\ \A x \in Order : x # o => cur'.orders[x] = cur.orders[x]
    BY <1>2, <1>3, <1>10 DEF NewestOK
  <2>3. UniqueUserKey(cur.orders)
    BY <1>10 DEF OrderVersions
  <2> QED  BY <2>1, <2>2, <2>3 DEF UniqueUserKey
<1>12. Holds(t, <<"order", o>>)'
  BY <1>7 DEF Holds
<1>13. HoldsKey(t, new)' /\ HoldsKey(t, orders[o])'
  BY <1>7, <1>8, <1>9 DEF HoldsKey, Holds
<1> HIDE DEF new
<1>14. /\ OrderVersions' /\ NewestOK'
       /\ cur'.orders = [cur.orders EXCEPT ![o] = new] /\ cur'.sessions = cur.sessions
  BY <1>2, <1>3, <1>5, <1>7, <1>9, <1>10, <1>11, <1>12, <1>13, OrderWritten
<1>15. \A x \in Order : Holds(t, <<"order", x>>)' => x = o \/ Holds(t, <<"order", x>>)
  BY <1>7, <1>8 DEF Holds
<1>16. \A x \in Txn : x # t => {<<"order", o>>} \cap txns[x].locks = {}
  BY <1>3 DEF IInv, Locking, LockedIsUsed, Holds
<1>17. \A p \in Session : <<"session", p>> \notin {<<"order", o>>}
  OBVIOUS
<1> QED
  BY <1>2, <1>3, <1>5, <1>6, <1>9, <1>14, <1>15, <1>16, <1>17, OrderStmtKeeps

\* The next statement of t, of the kind op, writes a version of a used row that
\* keeps the row's owner, what it went through and its key, unless it gives the
\* key back.
RewritesOrder(t, op, o, new) ==
    LET stmt == Head(txns[t].todo) IN
    /\ Ready(t, op) /\ Done(t, {}, txns[t].seen) /\ UNCHANGED vars
    /\ o = stmt.order /\ new \in OrderRow /\ Used(new)
    /\ cur' = [cur EXCEPT !.orders[o] = new]
    /\ new.user = cur.orders[o].user /\ (WasPaid(cur.orders[o]) => WasPaid(new))
    /\ \/ new.key = cur.orders[o].key
       \/ new.key = NoKey /\ op = "update_order" /\ stmt.to = "cancelled"
    /\ op = "update_order" /\ stmt.to = "paid" => WasPaid(new)

\* Such a statement keeps the invariant.
LEMMA OrderRewritten ==
  ASSUME IInv, NEW t \in Txn, NEW op \in {"update_order", "close_order"},
         NEW o \in Order, NEW new, RewritesOrder(t, op, o, new)
  PROVE  IInv'
<1> SUFFICES ASSUME Ready(t, op), NEW stmt, stmt = Head(txns[t].todo),
                    Done(t, {}, txns[t].seen), UNCHANGED vars,
                    o = stmt.order, new \in OrderRow, Used(new),
                    cur' = [cur EXCEPT !.orders[o] = new],
                    new.user = cur.orders[o].user,
                    WasPaid(cur.orders[o]) => WasPaid(new),
                    \/ new.key = cur.orders[o].key
                    \/ new.key = NoKey /\ op = "update_order" /\ stmt.to = "cancelled",
                    op = "update_order" /\ stmt.to = "paid" => WasPaid(new)
             PROVE  IInv'
  BY DEF RewritesOrder
<1>1. PICK seen : seen = txns[t].seen
  OBVIOUS
<1>2. seen \in [Sku -> AnySkuRow] /\ {} \in SUBSET Lock
  BY <1>1, SeenType
<1>3. /\ txns'[t].locks = txns[t].locks \cup Needs(stmt) \cup {}
      /\ LocksGrow
  BY <1>1, <1>2, DoneFacts
<1>4. UNCHANGED <<orders, skus, sessions, cart, overdue, autoDue>>
  BY DEF vars
<1>5. NewestOK /\ OrderVersions
  BY DEF IInv, Types
<1>6. stmt.op = op /\ Grounded(stmt)
  BY ReadyFacts
<1>7. Used(orders[o]) /\ cur.orders[o].user = orders[o].user
  BY <1>5, <1>6 DEF Grounded, OrderVersions, OrdersGrow
<1>8. <<"order", o>> \in Needs(stmt)
      /\ (stmt.to = "cancelled" /\ op = "update_order" /\ orders[o].key # NoKey
            => <<"key", orders[o].user, orders[o].key>> \in Needs(stmt))
  BY <1>6 DEF Needs
<1>9. Holds(t, <<"order", o>>)'
  BY <1>3, <1>8 DEF Holds
<1>10. IdleIsIdle' /\ LocksExclusive'
  BY <1>1, <1>2, LocksStayExclusive
<1>11. cur.orders[o].key # orders[o].key
         => HoldsKey(t, cur.orders[o]) /\ HoldsKey(t, orders[o])
  <2> SUFFICES ASSUME cur.orders[o].key # orders[o].key
               PROVE  HoldsKey(t, cur.orders[o]) /\ HoldsKey(t, orders[o])
    OBVIOUS
  <2>1. PICK x \in Txn :
          /\ Holds(x, <<"order", o>>)
          /\ HoldsKey(x, cur.orders[o]) /\ HoldsKey(x, orders[o])
    BY <1>5 DEF OrderVersions, OrdersOwned
  <2>2. x = t
    BY <1>3, <1>9, <1>10, <2>1 DEF LocksExclusive, LocksGrow, Holds
  <2> QED  BY <2>1, <2>2
<1>12. new.key # orders[o].key => HoldsKey(t, new)' /\ HoldsKey(t, orders[o])'
  <2> SUFFICES ASSUME new.key # orders[o].key
               PROVE  HoldsKey(t, new)' /\ HoldsKey(t, orders[o])'
    OBVIOUS
  <2>1. CASE new.key = cur.orders[o].key
    BY <1>3, <1>4, <1>7, <1>11, <2>1 DEF HoldsKey, Holds, LocksGrow
  <2>2. CASE new.key = NoKey /\ op = "update_order" /\ stmt.to = "cancelled"
    BY <1>3, <1>4, <1>8, <2>2 DEF HoldsKey, Holds
  <2> QED  BY <2>1, <2>2
<1>13. UniqueUserKey(cur'.orders)
  <2>1. cur'.orders[o] = new /\ \A x \in Order : x # o => cur'.orders[x] = cur.orders[x]
    BY <1>5 DEF NewestOK
  <2>2. UniqueUserKey(cur.orders)
    BY <1>5 DEF OrderVersions
  <2> QED  BY <2>1, <2>2, SMTT(30) DEF UniqueUserKey
<1>14. Used(orders[o]) => new.user = orders[o].user /\ (WasPaid(orders[o]) => WasPaid(new))
  BY <1>5, <1>7 DEF OrderVersions, OrdersGrow
<1>15. /\ OrderVersions' /\ NewestOK'
       /\ cur'.orders = [cur.orders EXCEPT ![o] = new] /\ cur'.sessions = cur.sessions
  <2>1. UNCHANGED orders
    BY <1>4
  <2>2. LocksGrow
    BY <1>3
  <2> QED  BY <1>5, <1>9, <1>12, <1>13, <1>14, <2>1, <2>2, OrderWritten, ZenonT(60)
<1>16. \A x \in Order : Holds(t, <<"order", x>>)' => x = o \/ Holds(t, <<"order", x>>)
  <2>1. \A x \in Order : <<"order", x>> \in Needs(stmt) => x = o
    BY <1>6 DEF Needs
  <2> QED  BY <1>3, <2>1 DEF Holds
<1>17. op = "update_order" /\ stmt.to = "paid" => \A x : x = stmt.order => HasPaid(t, x)'
  BY <1>5, <1>9, <1>15 DEF HasPaid, NewestOK, WasPaid
<1> QED
  BY <1>1, <1>2, <1>4, <1>15, <1>16, <1>17, OrderStmtKeeps

LEMMA ExecUpdateOrderKeeps ==
  ASSUME IInv, NEW t \in Txn, ExecUpdateOrder(t)
  PROVE  IInv'
<1>1. PICK stmt, o : stmt = Head(txns[t].todo) /\ o = stmt.order
  OBVIOUS
<1>2. /\ o \in Order /\ stmt.from \in OrderStatus
      /\ stmt.to \in {"paid", "shipped", "completed", "cancelled"}
      /\ stmt.why \in CancelReason \cup {"none"}
  <2>1. stmt \in Stmt /\ stmt.op = "update_order"
    BY <1>1, ReadyFacts DEF ExecUpdateOrder
  <2> QED  BY <1>1, <2>1 DEF Stmt, PlainStmt, PaidStmt, SettleStmt
<1>3. PICK row : row = cur.orders[o]
  OBVIOUS
<1>4. row \in OrderRow
  BY <1>2, <1>3 DEF IInv, Types, NewestOK
<1> DEFINE entry == [from |-> stmt.from, to |-> stmt.to]
           moved == [row EXCEPT !.status = stmt.to, !.history = Append(@, entry)]
           freed == [moved EXCEPT !.reason = stmt.why, !.key = NoKey]
           new == IF stmt.to = "cancelled" THEN freed ELSE moved
<1>5. cur' = [cur EXCEPT !.orders[o] = new]
  BY <1>1, <1>3 DEF ExecUpdateOrder
<1>6. /\ Append(row.history, entry) \in Seq([from : OrderStatus \cup {"none"}, to : OrderStatus])
      /\ WasPaid(row) => \E i \in DOMAIN Append(row.history, entry) :
                            Append(row.history, entry)[i].to = "paid"
      /\ stmt.to = "paid" => \E i \in DOMAIN Append(row.history, entry) :
                                Append(row.history, entry)[i].to = "paid"
  <2> DEFINE H == [from : OrderStatus \cup {"none"}, to : OrderStatus]
             h == row.history
             k == Append(h, entry)
  <2>1. h \in Seq(H) /\ entry \in H
    BY <1>2, <1>4 DEF OrderRow, OrderStatus
  <2>2. entry.to = stmt.to
    OBVIOUS
  <2> HIDE DEF H, h, entry
  <2>3. /\ k \in Seq(H) /\ Len(h) + 1 \in DOMAIN k /\ k[Len(h) + 1] = entry
        /\ \A i \in DOMAIN h : i \in DOMAIN k /\ k[i] = h[i]
    BY <2>1
  <2>4. WasPaid(row) <=> \E i \in DOMAIN h : h[i].to = "paid"
    BY DEF WasPaid, h
  <2> HIDE DEF k
  <2>5. WasPaid(row) => \E i \in DOMAIN k : k[i].to = "paid"
    BY <2>3, <2>4
  <2>6. stmt.to = "paid" => \E i \in DOMAIN k : k[i].to = "paid"
    BY <2>2, <2>3
  <2> QED  BY <2>3, <2>5, <2>6 DEF k, h, H
<1> HIDE DEF entry
<1>7. /\ moved \in OrderRow /\ moved.status = stmt.to /\ moved.user = row.user
      /\ moved.key = row.key /\ moved.history = Append(row.history, entry)
  BY <1>2, <1>4, <1>6 DEF OrderRow, OrderStatus
<1> HIDE DEF moved
<1>8. /\ freed \in OrderRow /\ freed.status = stmt.to /\ freed.user = row.user
      /\ freed.key = NoKey /\ freed.history = Append(row.history, entry)
  BY <1>2, <1>7 DEF OrderRow
<1> HIDE DEF freed
<1>9. /\ new \in OrderRow /\ Used(new) /\ new.user = row.user
      /\ new.key = row.key \/ (new.key = NoKey /\ stmt.to = "cancelled")
      /\ new.history = Append(row.history, entry)
  BY <1>2, <1>7, <1>8 DEF Used
<1> HIDE DEF new
<1>10. WasPaid(row) \/ stmt.to = "paid" => WasPaid(new)
  BY <1>6, <1>9 DEF WasPaid
<1>11. Ready(t, "update_order") /\ Done(t, {}, txns[t].seen) /\ UNCHANGED vars
  BY DEF ExecUpdateOrder
<1> QED
  <2>1. RewritesOrder(t, "update_order", o, new)
    BY <1>1, <1>3, <1>5, <1>9, <1>10, <1>11 DEF RewritesOrder
  <2> QED  BY <1>2, <2>1, OrderRewritten

LEMMA ExecCloseOrderKeeps ==
  ASSUME IInv, NEW t \in Txn, ExecCloseOrder(t)
  PROVE  IInv'
<1>1. PICK stmt, o : stmt = Head(txns[t].todo) /\ o = stmt.order
  OBVIOUS
<1>2. o \in Order
  <2>1. stmt \in Stmt /\ stmt.op = "close_order"
    BY <1>1, ReadyFacts DEF ExecCloseOrder
  <2> QED  BY <1>1, <2>1 DEF Stmt, PlainStmt, PaidStmt, SettleStmt
<1>3. PICK row : row = cur.orders[o]
  OBVIOUS
<1>4. row \in OrderRow /\ NewestOK
  BY <1>2, <1>3 DEF IInv, Types, NewestOK
<1> DEFINE new == [row EXCEPT !.status = "closed"]
<1>5. cur' = [cur EXCEPT !.orders[o] = new]
  BY <1>1, <1>2, <1>3, <1>4 DEF ExecCloseOrder, NewestOK
<1>6. /\ new \in OrderRow /\ Used(new) /\ new.user = row.user /\ new.key = row.key
      /\ WasPaid(row) => WasPaid(new)
  BY <1>4 DEF OrderRow, OrderStatus, Used, WasPaid
<1> HIDE DEF new
<1>7. Ready(t, "close_order") /\ Done(t, {}, txns[t].seen) /\ UNCHANGED vars
  BY DEF ExecCloseOrder
<1>8. RewritesOrder(t, "close_order", o, new)
  BY <1>1, <1>3, <1>5, <1>6, <1>7 DEF RewritesOrder
<1> QED
  BY <1>2, <1>8, OrderRewritten

-----------------------------------------------------------------------------
(* Statements on the payment sessions.                                     *)

\* t, who has the row's lock and its order's entry in the index of pending
\* sessions, writes a new version of it.
LEMMA SessionStmtKeeps ==
  ASSUME IInv, NEW t \in Txn, NEW op \in {"insert_session", "update_session"},
         Ready(t, op), NEW inserted \in SUBSET Lock, NEW seen \in [Sku -> AnySkuRow],
         Done(t, inserted, seen), UNCHANGED vars,
         \A o \in Order : <<"order", o>> \notin inserted,
         \A x \in Txn : x # t => inserted \cap txns[x].locks = {},
         NEW p \in Session, NEW new \in SessionRow, Used(new), new.order \in Order,
         cur' = [cur EXCEPT !.sessions[p] = new],
         \A q \in Session : Holds(t, <<"session", q>>)' => q = p \/ Holds(t, <<"session", q>>),
         Holds(t, <<"session", p>>)', Holds(t, <<"pending", new.order>>)',
         Used(sessions[p]) => new.order = sessions[p].order,
         new.status = "pending" =>
           \A q \in Session : ~(cur.sessions[q].status = "pending"
                                /\ cur.sessions[q].order = new.order),
         new.status = "succeeded" => HasPaid(t, new.order)
  PROVE  IInv'
<1>1. UNCHANGED <<orders, skus, sessions, cart, overdue, autoDue>>
  BY DEF vars
<1>2. /\ TxnsOK'
      /\ \A x \in Txn : x # t => txns'[x] = txns[x]
      /\ txns'[t].locks = txns[t].locks \cup Needs(Head(txns[t].todo)) \cup inserted
      /\ LocksGrow
  BY DoneFacts
<1>3. IdleIsIdle' /\ LocksExclusive'
  BY LocksStayExclusive
<1>4. NewestOK' /\ cur'.orders = cur.orders /\ cur'.sessions = [cur.sessions EXCEPT ![p] = new]
  BY DEF IInv, Types, NewestOK
<1>5. cur'.sessions[p] = new /\ \A q \in Session : q # p => cur'.sessions[q] = cur.sessions[q]
  BY <1>4 DEF IInv, Types, NewestOK
<1>6. \A o \in Order : <<"order", o>> \notin Needs(Head(txns[t].todo))
  <2>1. Head(txns[t].todo).op = op
    BY ReadyFacts
  <2> QED  BY <2>1 DEF Needs
<1>7. ASSUME NEW x \in Txn, NEW o \in Order, Holds(x, <<"order", o>>)'
      PROVE  Holds(x, <<"order", o>>)
  BY <1>2, <1>6, <1>7 DEF Holds
<1>8. ASSUME NEW x \in Txn, NEW q \in Session, Holds(x, <<"session", q>>)', q # p \/ x # t
      PROVE  Holds(x, <<"session", q>>)
  BY <1>2, <1>8 DEF Holds
<1>9. ASSUME NEW x \in Txn, Holds(x, <<"session", p>>)' PROVE x = t
  BY <1>3, <1>9 DEF LocksExclusive, Holds
<1>10. LockedIsUsed'
  <2>1. ASSUME NEW x \in Txn, NEW o \in Order, Holds(x, <<"order", o>>)'
        PROVE  Used(cur'.orders[o])
    BY <1>4, <1>7, <2>1 DEF IInv, Locking, LockedIsUsed
  <2>2. ASSUME NEW x \in Txn, NEW q \in Session, Holds(x, <<"session", q>>)'
        PROVE  Used(cur'.sessions[q])
    <3>1. CASE q = p
      BY <1>5, <3>1
    <3>2. CASE q # p
      <4>1. Holds(x, <<"session", q>>)
        BY <1>8, <2>2, <3>2
      <4> QED  BY <1>5, <3>2, <4>1 DEF IInv, Locking, LockedIsUsed
    <3> QED  BY <3>1, <3>2
  <2> QED  BY <2>1, <2>2 DEF LockedIsUsed, Used
<1>11. OrderVersions'
  BY <1>1, <1>2, <1>4, OrdersStay DEF IInv
<1>12. SessionVersions'
  <2>1. SessionsOwned'
    <3> SUFFICES ASSUME NEW q \in Session, cur'.sessions[q] # sessions[q]
                 PROVE  \E x \in Txn : /\ Holds(x, <<"session", q>>)'
                                       /\ Holds(x, <<"pending", cur.sessions[q].order>>)'
      BY <1>1 DEF SessionsOwned
    <3>1. CASE q = p
      BY <1>5, <3>1 DEF Holds
    <3>2. CASE q # p
      <4>1. PICK x \in Txn : /\ Holds(x, <<"session", q>>)
                             /\ Holds(x, <<"pending", cur.sessions[q].order>>)
        BY <1>5, <3>2 DEF IInv, SessionVersions, SessionsOwned
      <4> QED  BY <1>2, <1>5, <3>2, <4>1 DEF Holds, LocksGrow
    <3> QED  BY <3>1, <3>2
  <2>2. SessionsGrow'
    <3> SUFFICES ASSUME NEW q \in Session, Used(sessions[q])
                 PROVE  Used(cur'.sessions[q]) /\ cur'.sessions[q].order = sessions[q].order
      BY <1>1 DEF SessionsGrow, Used
    <3> QED  BY <1>5 DEF IInv, SessionVersions, SessionsGrow
  <2>3. SessionsBlank(sessions)' /\ SessionsBlank(cur.sessions)'
    BY <1>1, <1>5 DEF IInv, SessionVersions, SessionsBlank, Used
  <2>4. UniquePending(sessions)' /\ UniquePending(cur.sessions)'
    BY <1>1, <1>5 DEF IInv, SessionVersions, UniquePending
  <2> QED  BY <2>1, <2>2, <2>3, <2>4 DEF SessionVersions
<1>13. /\ StmtsGrounded' /\ PaidFirst' /\ ChargeLeavesTrace'
       /\ \A x \in Txn, o \in Order : HasPaid(x, o) => HasPaid(x, o)'
  BY <1>1, <1>4, ChargesStay DEF WasPaid
<1>14. ChargeOwned'
  <2> SUFFICES ASSUME NEW x \in Txn, NEW q \in Session, Holds(x, <<"session", q>>)',
                      cur'.sessions[q].status = "succeeded",
                      sessions[q].status # "succeeded"
               PROVE  HasPaid(x, cur.sessions[q].order)'
    BY <1>1 DEF ChargeOwned
  <2>1. PICK o \in Order : o = cur'.sessions[q].order
    <3>1. Used(cur'.sessions[q])
      BY DEF Used
    <3> QED  BY <1>12, <3>1 DEF SessionVersions, SessionsBlank, Used
  <2>2. HasPaid(x, o)
    <3>1. CASE q = p
      BY <1>5, <1>9, <2>1, <3>1
    <3>2. CASE q # p
      <4>1. Holds(x, <<"session", q>>)
        BY <1>8, <3>2
      <4> QED  BY <1>5, <2>1, <3>2, <4>1 DEF IInv, Charges, ChargeOwned
    <3> QED  BY <3>1, <3>2
  <2>3. HasPaid(x, o)'
    BY <1>13, <2>2
  <2> QED  BY <2>1, <2>3 DEF HasPaid, Holds, WasPaid
<1>15. CommittedOK'
  BY <1>1 DEF IInv, Types, CommittedOK
<1> QED
  BY <1>2, <1>3, <1>4, <1>10, <1>11, <1>12, <1>13, <1>14, <1>15 DEF IInv, Types, Locking, Charges

LEMMA InsertSessionStores ==
  ASSUME IInv, NEW t \in Txn, Ready(t, "insert_session"),
         ~\E q \in Session : cur.sessions[q]
             = [order |-> Head(txns[t].todo).order, status |-> "pending"],
         StoreSession(t, Head(txns[t].todo).order), UNCHANGED vars
  PROVE  IInv'
<1>1. PICK stmt, o, seen :
        stmt = Head(txns[t].todo) /\ o = stmt.order /\ seen = txns[t].seen
  OBVIOUS
<1>2. PICK new : new = [order |-> o, status |-> "pending"]
  OBVIOUS
<1>3. PICK p \in FreeSessions : cur' = [cur EXCEPT !.sessions[p] = new]
                                 /\ Done(t, {<<"session", p>>}, seen)
  BY <1>1, <1>2 DEF StoreSession
<1>4. o \in Order /\ stmt.op = "insert_session"
  <2>1. stmt \in Stmt /\ stmt.op = "insert_session"
    BY <1>1, ReadyFacts
  <2> QED  BY <1>1, <2>1 DEF Stmt, PlainStmt, PaidStmt, SettleStmt
<1>5. new \in SessionRow /\ Used(new) /\ new.order = o /\ new.status = "pending"
  BY <1>2, <1>4 DEF SessionRow, PaymentStatus, Used
<1>6. p \in Session /\ ~Used(cur.sessions[p]) /\ ~Used(sessions[p])
  BY DEF FreeSessions, Used, IInv, SessionVersions, SessionsGrow
<1>7. seen \in [Sku -> AnySkuRow] /\ {<<"session", p>>} \in SUBSET Lock
  BY <1>1, <1>6, SeenType DEF Lock
<1>8. txns'[t].locks = txns[t].locks \cup Needs(stmt) \cup {<<"session", p>>}
  BY <1>1, <1>3, <1>7, DoneFacts
<1>9. Needs(stmt) = {<<"pending", o>>}
  BY <1>1, <1>4 DEF Needs
<1>10. /\ \A q \in Session : Holds(t, <<"session", q>>)' => q = p \/ Holds(t, <<"session", q>>)
       /\ Holds(t, <<"session", p>>)' /\ Holds(t, <<"pending", o>>)'
  BY <1>8, <1>9 DEF Holds
<1>11. ASSUME NEW q \in Session, cur.sessions[q].status = "pending", cur.sessions[q].order = o
       PROVE  FALSE
  <2>1. cur.sessions[q] \in SessionRow
    BY DEF IInv, Types, NewestOK
  <2>2. cur.sessions[q] = [order |-> o, status |-> "pending"]
    BY <1>11, <2>1 DEF SessionRow
  <2> QED  BY <1>1, <2>2
<1>12. \A x \in Txn : x # t => {<<"session", p>>} \cap txns[x].locks = {}
  BY <1>6 DEF IInv, Locking, LockedIsUsed, Holds
<1>13. \A x \in Order : <<"order", x>> \notin {<<"session", p>>}
  OBVIOUS
<1> QED
  BY <1>3, <1>4, <1>5, <1>6, <1>7, <1>10, <1>11, <1>12, <1>13, SessionStmtKeeps

LEMMA ExecUpdateSessionKeeps ==
  ASSUME IInv, NEW t \in Txn, ExecUpdateSession(t)
  PROVE  IInv'
<1>1. PICK stmt, p, seen :
        stmt = Head(txns[t].todo) /\ p = stmt.session /\ seen = txns[t].seen
  OBVIOUS
<1>2. Ready(t, "update_session") /\ Done(t, {}, seen) /\ UNCHANGED vars
  BY <1>1 DEF ExecUpdateSession
<1>3. stmt \in SettleStmt
  <2>1. stmt \in Stmt /\ stmt.op = "update_session"
    BY <1>1, <1>2, ReadyFacts
  <2> QED  BY <2>1 DEF Stmt, PlainStmt, PaidStmt
<1>4. stmt.op = "update_session" /\ p \in Session /\ stmt.order \in Order
      /\ stmt.status \in {"succeeded", "failed"}
  BY <1>1, <1>3 DEF SettleStmt
<1>5. PICK new : new = [cur.sessions[p] EXCEPT !.status = stmt.status]
  OBVIOUS
<1>6. cur' = [cur EXCEPT !.sessions[p] = new]
  BY <1>1, <1>4, <1>5 DEF ExecUpdateSession, IInv, Types, NewestOK
<1>7. Grounded(stmt) /\ stmt = txns[t].todo[1] /\ 1 \in DOMAIN txns[t].todo
  BY <1>1, <1>2, ReadyFacts
<1>8. Used(sessions[p]) /\ stmt.order = sessions[p].order
      /\ cur.sessions[p].order = stmt.order
  BY <1>1, <1>4, <1>7 DEF Grounded, IInv, SessionVersions, SessionsGrow
<1>9. /\ new \in SessionRow /\ Used(new) /\ new.order = stmt.order
      /\ new.status = stmt.status
  BY <1>4, <1>5, <1>8 DEF IInv, Types, NewestOK, SessionRow, PaymentStatus, Used
<1>10. new.status = "succeeded" => HasPaid(t, stmt.order)
  BY <1>4, <1>7, <1>9 DEF IInv, Charges, PaidFirst, Succeeds
<1>11. seen \in [Sku -> AnySkuRow] /\ {} \in SUBSET Lock
  BY <1>1, SeenType
<1>12. txns'[t].locks = txns[t].locks \cup Needs(stmt) \cup {}
  BY <1>1, <1>2, <1>11, DoneFacts
<1>13. Needs(stmt) = {<<"session", p>>, <<"pending", stmt.order>>}
  BY <1>1, <1>4 DEF Needs
<1>14. /\ \A q \in Session : Holds(t, <<"session", q>>)' => q = p \/ Holds(t, <<"session", q>>)
       /\ Holds(t, <<"session", p>>)' /\ Holds(t, <<"pending", new.order>>)'
  BY <1>9, <1>12, <1>13 DEF Holds
<1> QED
  BY <1>2, <1>4, <1>6, <1>8, <1>9, <1>10, <1>11, <1>14, SessionStmtKeeps

-----------------------------------------------------------------------------
(* COMMIT and ROLLBACK.                                                    *)

\* The version of a row that t holds, beside that of one it does not hold: the
\* index of users and keys never has both under one entry.
LEMMA KeysApart ==
  ASSUME IInv, NEW t \in Txn, NEW A, NEW B,
         (A = orders /\ B = cur.orders) \/ (A = cur.orders /\ B = orders),
         NEW o1 \in Order, NEW o2 \in Order, o1 # o2,
         Holds(t, <<"order", o1>>), ~Holds(t, <<"order", o2>>),
         A[o1].key # NoKey, A[o1].user = B[o2].user
  PROVE  A[o1].key # B[o2].key
<1> SUFFICES ASSUME A[o1].key = B[o2].key PROVE FALSE
  OBVIOUS
<1>1. OrderVersions /\ LocksExclusive
  BY DEF IInv, Locking
<1>2. UniqueUserKey(A) /\ UniqueUserKey(B)
  BY <1>1 DEF OrderVersions
<1>3. ASSUME NEW o \in Order, orders[o].key = cur.orders[o].key, orders[o].key # NoKey
      PROVE  orders[o].user = cur.orders[o].user
  BY <1>1, <1>3 DEF OrderVersions, OrdersGrow, OrdersBlank
<1>4. A[o1].key # B[o1].key
  BY <1>2, <1>3 DEF UniqueUserKey
<1>5. A[o2].key # B[o2].key
  BY <1>2, <1>3 DEF UniqueUserKey
<1>6. PICK x \in Txn : /\ Holds(x, <<"order", o1>>)
                       /\ HoldsKey(x, A[o1])
  BY <1>1, <1>4 DEF OrderVersions, OrdersOwned
<1>7. PICK y \in Txn : /\ Holds(y, <<"order", o2>>)
                       /\ HoldsKey(y, B[o2])
  BY <1>1, <1>5 DEF OrderVersions, OrdersOwned
<1>8. x # y
  BY <1>1, <1>6, <1>7 DEF LocksExclusive, Holds
<1>9. <<"key", A[o1].user, A[o1].key>> \in txns[x].locks \cap txns[y].locks
  BY <1>6, <1>7 DEF HoldsKey, Holds
<1> QED  BY <1>1, <1>8, <1>9 DEF LocksExclusive

LEMMA MixedKeysUnique ==
  ASSUME IInv, NEW t \in Txn, NEW A, NEW B, NEW table,
         (A = orders /\ B = cur.orders) \/ (A = cur.orders /\ B = orders),
         \A o \in Order : table[o] = IF Holds(t, <<"order", o>>) THEN A[o] ELSE B[o]
  PROVE  UniqueUserKey(table)
<1> SUFFICES ASSUME NEW o1 \in Order, NEW o2 \in Order, o1 # o2, table[o1].key # NoKey,
                    table[o1].user = table[o2].user, table[o1].key = table[o2].key
             PROVE  FALSE
  BY DEF UniqueUserKey
<1>1. UniqueUserKey(A) /\ UniqueUserKey(B)
  BY DEF IInv, OrderVersions
<1>2. CASE Holds(t, <<"order", o1>>) /\ Holds(t, <<"order", o2>>)
  BY <1>1, <1>2 DEF UniqueUserKey
<1>3. CASE ~Holds(t, <<"order", o1>>) /\ ~Holds(t, <<"order", o2>>)
  BY <1>1, <1>3 DEF UniqueUserKey
<1>4. CASE Holds(t, <<"order", o1>>) /\ ~Holds(t, <<"order", o2>>)
  BY <1>4, KeysApart
<1>5. CASE ~Holds(t, <<"order", o1>>) /\ Holds(t, <<"order", o2>>)
  BY <1>5, KeysApart
<1> QED  BY <1>2, <1>3, <1>4, <1>5

LEMMA PendingApart ==
  ASSUME IInv, NEW t \in Txn, NEW A, NEW B,
         (A = sessions /\ B = cur.sessions) \/ (A = cur.sessions /\ B = sessions),
         NEW p \in Session, NEW q \in Session,
         Holds(t, <<"session", p>>), ~Holds(t, <<"session", q>>),
         A[p].status = "pending", B[q].status = "pending", A[p].order = B[q].order
  PROVE  FALSE
<1>1. SessionVersions /\ LocksExclusive
  BY DEF IInv, Locking
<1>2. UniquePending(A) /\ UniquePending(B) /\ p # q
  BY <1>1 DEF SessionVersions
<1>3. A[p] # B[p] /\ A[q] # B[q]
  BY <1>2 DEF UniquePending
<1>4. A[p].order = cur.sessions[p].order /\ B[q].order = cur.sessions[q].order
  BY <1>1 DEF SessionVersions, SessionsGrow, Used
<1>5. PICK x \in Txn : /\ Holds(x, <<"session", p>>)
                       /\ Holds(x, <<"pending", cur.sessions[p].order>>)
  BY <1>1, <1>3 DEF SessionVersions, SessionsOwned
<1>6. PICK y \in Txn : /\ Holds(y, <<"session", q>>)
                       /\ Holds(y, <<"pending", cur.sessions[q].order>>)
  BY <1>1, <1>3 DEF SessionVersions, SessionsOwned
<1>7. x # y
  BY <1>1, <1>5, <1>6 DEF LocksExclusive, Holds
<1>8. <<"pending", A[p].order>> \in txns[x].locks \cap txns[y].locks
  BY <1>4, <1>5, <1>6 DEF Holds
<1> QED  BY <1>1, <1>7, <1>8 DEF LocksExclusive

LEMMA MixedPendingUnique ==
  ASSUME IInv, NEW t \in Txn, NEW A, NEW B, NEW table,
         (A = sessions /\ B = cur.sessions) \/ (A = cur.sessions /\ B = sessions),
         \A p \in Session : table[p] = IF Holds(t, <<"session", p>>) THEN A[p] ELSE B[p]
  PROVE  UniquePending(table)
<1> SUFFICES ASSUME NEW p \in Session, NEW q \in Session, p # q,
                    table[p].status = "pending", table[q].status = "pending",
                    table[p].order = table[q].order
             PROVE  FALSE
  BY DEF UniquePending
<1>1. UniquePending(A) /\ UniquePending(B)
  BY DEF IInv, SessionVersions
<1>2. CASE Holds(t, <<"session", p>>) /\ Holds(t, <<"session", q>>)
  BY <1>1, <1>2 DEF UniquePending
<1>3. CASE ~Holds(t, <<"session", p>>) /\ ~Holds(t, <<"session", q>>)
  BY <1>1, <1>3 DEF UniquePending
<1>4. CASE Holds(t, <<"session", p>>) /\ ~Holds(t, <<"session", q>>)
  BY <1>4, PendingApart
<1>5. CASE ~Holds(t, <<"session", p>>) /\ Holds(t, <<"session", q>>)
  BY <1>5, PendingApart
<1> QED  BY <1>2, <1>3, <1>4, <1>5

LEMMA IdleType == Idle \in TxnRow
<1>1. PICK seen \in [Sku -> AnySkuRow] : seen = Idle.seen
  BY BlankSeen
<1>2. Idle = [active |-> FALSE, todo |-> <<>>, locks |-> {}, seen |-> seen]
  BY <1>1 DEF Idle
<1> QED  BY <1>2 DEF TxnRow

\* A transaction that ended holds nothing and has nothing left to do.
LEMMA EndedFacts ==
  ASSUME IInv, NEW t \in Txn, txns' = [txns EXCEPT ![t] = Idle]
  PROVE  /\ TxnsOK' /\ IdleIsIdle' /\ LocksExclusive'
         /\ \A x \in Txn : x # t => txns'[x] = txns[x]
         /\ txns'[t].todo = <<>> /\ txns'[t].locks = {}
<1>1. txns \in [Txn -> TxnRow]
  BY DEF IInv, Types, TxnsOK
<1>2. Idle \in TxnRow
  BY IdleType
<1>3. ~Idle.active /\ Idle.todo = <<>> /\ Idle.locks = {}
  BY DEF Idle
<1>4. /\ \A x \in Txn : x # t => txns'[x] = txns[x]
      /\ txns'[t] = Idle /\ txns' \in [Txn -> TxnRow]
  BY <1>1, <1>2
<1>5. IdleIsIdle' /\ LocksExclusive'
  BY <1>3, <1>4 DEF IInv, Locking, IdleIsIdle, LocksExclusive
<1> QED  BY <1>3, <1>4, <1>5 DEF TxnsOK

\* The statements of the others wait as they did once t ended.
LEMMA OthersPaidFirst ==
  ASSUME IInv, NEW t \in Txn, txns'[t].todo = <<>>,
         \A x \in Txn : x # t => txns'[x] = txns[x],
         \A x \in Txn : x # t => \A o \in Order : HasPaid(x, o) => HasPaid(x, o)'
  PROVE  PaidFirst'
<1> SUFFICES ASSUME NEW x \in Txn, NEW i \in DOMAIN txns'[x].todo,
                    Succeeds(txns'[x].todo[i])
             PROVE  \/ i = 1 /\ HasPaid(x, txns[x].todo[i].order)'
                    \/ /\ i = 2
                       /\ txns'[x].todo[1].op = "update_order"
                       /\ txns'[x].todo[1].order = txns'[x].todo[2].order
                       /\ txns'[x].todo[1].to = "paid"
  BY DEF PaidFirst, Succeeds, HasPaid, Holds
<1>1. x # t /\ txns'[x] = txns[x]
  OBVIOUS
<1>2. \/ i = 1 /\ HasPaid(x, txns[x].todo[i].order)
      \/ /\ i = 2
         /\ txns[x].todo[1].op = "update_order"
         /\ txns[x].todo[1].order = txns[x].todo[2].order
         /\ txns[x].todo[1].to = "paid"
  BY <1>1 DEF IInv, Charges, PaidFirst
<1>3. txns[x].todo[i] \in Stmt /\ Succeeds(txns[x].todo[i])
  BY <1>1 DEF IInv, Types, TxnsOK, TxnRow
<1>4. PICK o \in Order : o = txns[x].todo[i].order
  BY <1>3 DEF Stmt, PlainStmt, PaidStmt, SettleStmt, Succeeds
<1>5. HasPaid(x, o) => HasPaid(x, o)'
  BY <1>1
<1>6. o = txns'[x].todo[i].order
  BY <1>1, <1>4
<1> QED  BY <1>1, <1>2, <1>4, <1>5, <1>6 DEF HasPaid, Holds, WasPaid

\* A transaction that rolls back leaves the newest versions of the rows it does
\* not hold, and the committed ones of those it holds.
LEMMA UndoFacts ==
  ASSUME IInv, NEW t \in Txn, Undo(t)
  PROVE  /\ NewestOK'
         /\ \A o \in Order :
              cur'.orders[o] = IF Holds(t, <<"order", o>>) THEN orders[o] ELSE cur.orders[o]
         /\ \A p \in Session :
              cur'.sessions[p] = IF Holds(t, <<"session", p>>) THEN sessions[p]
                                 ELSE cur.sessions[p]
<1>1. CommittedOK /\ NewestOK
  BY DEF IInv, Types
<1> DEFINE a == [o \in Order |-> IF Holds(t, <<"order", o>>) THEN orders[o] ELSE cur.orders[o]]
           b == [s \in Sku |-> IF Holds(t, <<"sku", s>>) THEN skus[s] ELSE cur.skus[s]]
           c == [p \in Session |-> IF Holds(t, <<"session", p>>) THEN sessions[p]
                                   ELSE cur.sessions[p]]
           d == [u \in User |-> [s \in Sku |-> IF Holds(t, <<"cart", u, s>>) THEN cart[u][s]
                                               ELSE cur.cart[u][s]]]
<1>2. a \in [Order -> OrderRow]
  BY <1>1 DEF CommittedOK, NewestOK
<1>3. b \in [Sku -> AnySkuRow]
  BY <1>1 DEF CommittedOK, NewestOK
<1>4. c \in [Session -> SessionRow]
  BY <1>1 DEF CommittedOK, NewestOK
<1>5. d \in CartTable
  BY <1>1 DEF CommittedOK, NewestOK, CartTable
<1>6. cur' = [orders |-> a, skus |-> b, sessions |-> c, cart |-> d]
  BY DEF Undo
<1>7. /\ \A o \in Order : a[o] = IF Holds(t, <<"order", o>>) THEN orders[o] ELSE cur.orders[o]
      /\ \A p \in Session : c[p] = IF Holds(t, <<"session", p>>) THEN sessions[p]
                                   ELSE cur.sessions[p]
  OBVIOUS
<1> HIDE DEF a, b, c, d
<1> QED  BY <1>2, <1>3, <1>4, <1>5, <1>6, <1>7 DEF NewestOK

\* ROLLBACK: whoever still holds a row finds it as it left it.
LEMMA AbortKeeps ==
  ASSUME IInv, NEW t \in Txn, Undo(t), txns' = [txns EXCEPT ![t] = Idle],
         UNCHANGED <<orders, skus, sessions, cart, overdue, autoDue>>
  PROVE  IInv'
<1>1. /\ TxnsOK' /\ IdleIsIdle' /\ LocksExclusive'
      /\ \A x \in Txn : x # t => txns'[x] = txns[x]
      /\ txns'[t].todo = <<>> /\ txns'[t].locks = {}
  BY EndedFacts
<1>2. /\ NewestOK'
      /\ \A o \in Order :
           cur'.orders[o] = IF Holds(t, <<"order", o>>) THEN orders[o] ELSE cur.orders[o]
      /\ \A p \in Session :
           cur'.sessions[p] = IF Holds(t, <<"session", p>>) THEN sessions[p]
                              ELSE cur.sessions[p]
  BY UndoFacts
<1>3. ASSUME NEW x \in Txn, NEW r, Holds(x, r)'
      PROVE  x # t /\ Holds(x, r) /\ ~Holds(t, r)
  BY <1>1, <1>3 DEF IInv, Locking, LocksExclusive, Holds
<1>4. ASSUME NEW x \in Txn, NEW r, Holds(x, r), x # t
      PROVE  Holds(x, r)' /\ ~Holds(t, r)
  BY <1>1, <1>4 DEF IInv, Locking, LocksExclusive, Holds
<1>5. OrderVersions /\ SessionVersions
  BY DEF IInv
<1>6. LockedIsUsed'
  <2>1. ASSUME NEW x \in Txn, NEW o \in Order, Holds(x, <<"order", o>>)'
        PROVE  Used(cur'.orders[o])
    BY <1>2, <1>3, <2>1 DEF IInv, Locking, LockedIsUsed
  <2>2. ASSUME NEW x \in Txn, NEW p \in Session, Holds(x, <<"session", p>>)'
        PROVE  Used(cur'.sessions[p])
    BY <1>2, <1>3, <2>2 DEF IInv, Locking, LockedIsUsed
  <2> QED  BY <2>1, <2>2 DEF LockedIsUsed, Used
<1>7. OrderVersions'
  <2>1. OrdersOwned'
    <3> SUFFICES ASSUME NEW o \in Order, cur'.orders[o] # orders[o]
                 PROVE  \E x \in Txn :
                          /\ Holds(x, <<"order", o>>)'
                          /\ cur'.orders[o].key # orders[o].key =>
                               HoldsKey(x, cur.orders[o])' /\ HoldsKey(x, orders[o])'
      BY DEF OrdersOwned
    <3>1. ~Holds(t, <<"order", o>>) /\ cur'.orders[o] = cur.orders[o]
      BY <1>2
    <3>2. PICK x \in Txn :
            /\ Holds(x, <<"order", o>>)
            /\ cur.orders[o].key # orders[o].key =>
                 HoldsKey(x, cur.orders[o]) /\ HoldsKey(x, orders[o])
      BY <1>5, <3>1 DEF OrderVersions, OrdersOwned
    <3>3. x # t
      BY <3>1, <3>2
    <3>4. \A r : Holds(x, r) => Holds(x, r)'
      BY <1>4, <3>3
    <3> QED  BY <3>1, <3>2, <3>4 DEF HoldsKey, Holds
  <2>2. OrdersGrow'
    <3> SUFFICES ASSUME NEW o \in Order, Used(orders[o])
                 PROVE  /\ Used(cur'.orders[o])
                        /\ cur'.orders[o].user = orders[o].user
                        /\ WasPaid(orders[o]) => WasPaid(cur'.orders[o])
      BY DEF OrdersGrow, Used, WasPaid
    <3> QED  BY <1>2, <1>5 DEF OrderVersions, OrdersGrow
  <2>3. OrdersBlank(orders)' /\ OrdersBlank(cur.orders)'
    BY <1>2, <1>5 DEF OrderVersions, OrdersBlank, Used
  <2>4. UniqueUserKey(orders)'
    BY <1>5 DEF OrderVersions, UniqueUserKey
  <2>5. UniqueUserKey(cur'.orders)
    <3>1. PICK A, B, table : A = orders /\ B = cur.orders /\ table = cur'.orders
      OBVIOUS
    <3>2. \A o \in Order : table[o] = IF Holds(t, <<"order", o>>) THEN A[o] ELSE B[o]
      BY <1>2, <3>1
    <3>3. UniqueUserKey(table)
      BY <3>1, <3>2, MixedKeysUnique, SMTT(30)
    <3> QED  BY <3>1, <3>3
  <2> QED  BY <2>1, <2>2, <2>3, <2>4, <2>5 DEF OrderVersions, UniqueUserKey
<1>8. SessionVersions'
  <2>1. SessionsOwned'
    <3> SUFFICES ASSUME NEW p \in Session, cur'.sessions[p] # sessions[p]
                 PROVE  \E x \in Txn :
                          /\ Holds(x, <<"session", p>>)'
                          /\ Holds(x, <<"pending", cur.sessions[p].order>>)'
      BY DEF SessionsOwned
    <3>1. ~Holds(t, <<"session", p>>) /\ cur'.sessions[p] = cur.sessions[p]
      BY <1>2
    <3>2. PICK x \in Txn : /\ Holds(x, <<"session", p>>)
                           /\ Holds(x, <<"pending", cur.sessions[p].order>>)
      BY <1>5, <3>1 DEF SessionVersions, SessionsOwned
    <3>3. x # t
      BY <3>1, <3>2
    <3>4. \A r : Holds(x, r) => Holds(x, r)'
      BY <1>4, <3>3
    <3> QED  BY <3>1, <3>2, <3>4 DEF Holds
  <2>2. SessionsGrow'
    BY <1>2, <1>5 DEF SessionVersions, SessionsGrow, Used
  <2>3. SessionsBlank(sessions)' /\ SessionsBlank(cur.sessions)'
    BY <1>2, <1>5 DEF SessionVersions, SessionsBlank, Used
  <2>4. UniquePending(sessions)'
    BY <1>5 DEF SessionVersions, UniquePending
  <2>5. UniquePending(cur'.sessions)
    <3>1. PICK A, B, table : A = sessions /\ B = cur.sessions /\ table = cur'.sessions
      OBVIOUS
    <3>2. \A p \in Session : table[p] = IF Holds(t, <<"session", p>>) THEN A[p] ELSE B[p]
      BY <1>2, <3>1
    <3>3. UniquePending(table)
      BY <3>1, <3>2, MixedPendingUnique
    <3> QED  BY <3>1, <3>3
  <2> QED  BY <2>1, <2>2, <2>3, <2>4, <2>5 DEF SessionVersions, UniquePending
<1>9. ASSUME NEW x \in Txn, x # t, NEW o \in Order, HasPaid(x, o)
      PROVE  HasPaid(x, o)'
  <2>1. Holds(x, <<"order", o>>)' /\ ~Holds(t, <<"order", o>>)
    BY <1>4, <1>9 DEF HasPaid
  <2> QED  BY <1>2, <1>9, <2>1 DEF HasPaid, WasPaid
<1>10. StmtsGrounded'
  BY <1>1 DEF IInv, Charges, StmtsGrounded, Grounded, Used
<1>11. PaidFirst'
  BY <1>1, <1>9, OthersPaidFirst
<1>12. ChargeOwned'
  <2> SUFFICES ASSUME NEW x \in Txn, NEW p \in Session, Holds(x, <<"session", p>>)',
                      cur'.sessions[p].status = "succeeded",
                      sessions'[p].status # "succeeded"
               PROVE  HasPaid(x, cur.sessions[p].order)'
    BY DEF ChargeOwned
  <2>1. x # t /\ Holds(x, <<"session", p>>) /\ cur'.sessions[p] = cur.sessions[p]
    BY <1>2, <1>3
  <2>2. HasPaid(x, cur.sessions[p].order) /\ Used(cur.sessions[p])
    BY <2>1 DEF IInv, Charges, ChargeOwned, Used
  <2>3. PICK o \in Order : o = cur.sessions[p].order
    BY <1>5, <2>2 DEF SessionVersions, SessionsBlank
  <2>4. HasPaid(x, o)'
    BY <1>9, <2>1, <2>2, <2>3
  <2> QED  BY <2>1, <2>3, <2>4 DEF HasPaid, Holds, WasPaid
<1>13. ChargeLeavesTrace'
  BY DEF IInv, Charges, ChargeLeavesTrace, Paid, WasPaid
<1>14. CommittedOK'
  BY DEF IInv, Types, CommittedOK
<1> QED
  BY <1>1, <1>2, <1>6, <1>7, <1>8, <1>10, <1>11, <1>12, <1>13, <1>14
     DEF IInv, Types, Locking, Charges

LEMMA PublishFacts ==
  ASSUME IInv, NEW t \in Txn, Publish(t)
  PROVE  /\ CommittedOK' /\ NewestOK' /\ cur' = cur
         /\ \A o \in Order :
              orders'[o] = IF Holds(t, <<"order", o>>) THEN cur.orders[o] ELSE orders[o]
         /\ \A p \in Session :
              sessions'[p] = IF Holds(t, <<"session", p>>) THEN cur.sessions[p]
                             ELSE sessions[p]
<1>1. CommittedOK /\ NewestOK
  BY DEF IInv, Types
<1>2. orders' \in [Order -> OrderRow]
  BY <1>1 DEF CommittedOK, NewestOK, Publish
<1>3. skus' \in [Sku -> AnySkuRow]
  BY <1>1 DEF CommittedOK, NewestOK, Publish
<1>4. sessions' \in [Session -> SessionRow]
  BY <1>1 DEF CommittedOK, NewestOK, Publish
<1>5. cart' \in CartTable
  BY <1>1 DEF CommittedOK, NewestOK, CartTable, Publish
<1>6. CommittedOK'
  BY <1>1, <1>2, <1>3, <1>4, <1>5 DEF CommittedOK, Publish, CartTable
<1>7. NewestOK' /\ cur' = cur
  BY <1>1 DEF NewestOK, Publish
<1> QED  BY <1>6, <1>7 DEF Publish

\* COMMIT: what one transaction makes visible fits what the others left hidden.
LEMMA PublishKeeps ==
  ASSUME IInv, NEW t \in Txn, Publish(t)
  PROVE  IInv'
<1>1. /\ TxnsOK' /\ IdleIsIdle' /\ LocksExclusive'
      /\ \A x \in Txn : x # t => txns'[x] = txns[x]
      /\ txns'[t].todo = <<>> /\ txns'[t].locks = {}
  BY EndedFacts DEF Publish
<1>2. /\ CommittedOK' /\ NewestOK' /\ cur' = cur
      /\ \A o \in Order :
           orders'[o] = IF Holds(t, <<"order", o>>) THEN cur.orders[o] ELSE orders[o]
      /\ \A p \in Session :
           sessions'[p] = IF Holds(t, <<"session", p>>) THEN cur.sessions[p]
                          ELSE sessions[p]
  BY PublishFacts
<1>3. ASSUME NEW x \in Txn, NEW r, Holds(x, r)'
      PROVE  x # t /\ Holds(x, r) /\ ~Holds(t, r)
  BY <1>1, <1>3 DEF IInv, Locking, LocksExclusive, Holds
<1>4. ASSUME NEW x \in Txn, NEW r, Holds(x, r), x # t
      PROVE  Holds(x, r)' /\ ~Holds(t, r)
  BY <1>1, <1>4 DEF IInv, Locking, LocksExclusive, Holds
<1>5. OrderVersions /\ SessionVersions
  BY DEF IInv
<1>6. LockedIsUsed'
  BY <1>2, <1>3 DEF IInv, Locking, LockedIsUsed, Used
<1>7. \A o \in Order :
        /\ Used(orders[o]) => Used(orders'[o])
        /\ Used(orders[o]) /\ WasPaid(orders[o]) => WasPaid(orders'[o])
  BY <1>2, <1>5 DEF OrderVersions, OrdersGrow
<1>8. \A p \in Session : Used(sessions[p]) =>
        Used(sessions'[p]) /\ sessions'[p].order = sessions[p].order
  BY <1>2, <1>5 DEF SessionVersions, SessionsGrow
<1>9. OrderVersions'
  <2>1. OrdersOwned'
    <3> SUFFICES ASSUME NEW o \in Order, cur.orders[o] # orders'[o]
                 PROVE  \E x \in Txn :
                          /\ Holds(x, <<"order", o>>)'
                          /\ cur.orders[o].key # orders'[o].key =>
                               HoldsKey(x, cur.orders[o])' /\ HoldsKey(x, orders[o])'
      BY <1>2 DEF OrdersOwned
    <3>1. ~Holds(t, <<"order", o>>) /\ orders'[o] = orders[o]
      BY <1>2
    <3>2. PICK x \in Txn :
            /\ Holds(x, <<"order", o>>)
            /\ cur.orders[o].key # orders[o].key =>
                 HoldsKey(x, cur.orders[o]) /\ HoldsKey(x, orders[o])
      BY <1>5, <3>1 DEF OrderVersions, OrdersOwned
    <3>3. x # t
      BY <3>1, <3>2
    <3>4. \A r : Holds(x, r) => Holds(x, r)'
      BY <1>4, <3>3
    <3> QED  BY <1>2, <3>1, <3>2, <3>4 DEF HoldsKey, Holds
  <2>2. OrdersGrow'
    <3> SUFFICES ASSUME NEW o \in Order, Used(orders'[o])
                 PROVE  /\ Used(cur.orders[o])
                        /\ cur.orders[o].user = orders'[o].user
                        /\ WasPaid(orders'[o]) => WasPaid(cur.orders[o])
      BY <1>2 DEF OrdersGrow, Used, WasPaid
    <3> QED  BY <1>2, <1>5 DEF OrderVersions, OrdersGrow
  <2>3. OrdersBlank(orders)' /\ OrdersBlank(cur.orders)'
    BY <1>2, <1>5 DEF OrderVersions, OrdersBlank, Used
  <2>4. UniqueUserKey(cur.orders)'
    BY <1>2, <1>5 DEF OrderVersions, UniqueUserKey
  <2>5. UniqueUserKey(orders')
    <3>1. PICK A, B, table : A = cur.orders /\ B = orders /\ table = orders'
      OBVIOUS
    <3>2. \A o \in Order : table[o] = IF Holds(t, <<"order", o>>) THEN A[o] ELSE B[o]
      BY <1>2, <3>1
    <3>3. UniqueUserKey(table)
      BY <3>1, <3>2, MixedKeysUnique
    <3> QED  BY <3>1, <3>3
  <2> QED  BY <2>1, <2>2, <2>3, <2>4, <2>5 DEF OrderVersions, UniqueUserKey
<1>10. SessionVersions'
  <2>1. SessionsOwned'
    <3> SUFFICES ASSUME NEW p \in Session, cur.sessions[p] # sessions'[p]
                 PROVE  \E x \in Txn :
                          /\ Holds(x, <<"session", p>>)'
                          /\ Holds(x, <<"pending", cur.sessions[p].order>>)'
      BY <1>2 DEF SessionsOwned
    <3>1. ~Holds(t, <<"session", p>>) /\ sessions'[p] = sessions[p]
      BY <1>2
    <3>2. PICK x \in Txn : /\ Holds(x, <<"session", p>>)
                           /\ Holds(x, <<"pending", cur.sessions[p].order>>)
      BY <1>5, <3>1 DEF SessionVersions, SessionsOwned
    <3>3. x # t
      BY <3>1, <3>2
    <3>4. \A r : Holds(x, r) => Holds(x, r)'
      BY <1>4, <3>3
    <3> QED  BY <1>2, <3>2, <3>4 DEF Holds
  <2>2. SessionsGrow'
    <3> SUFFICES ASSUME NEW p \in Session, Used(sessions'[p])
                 PROVE  Used(cur.sessions[p]) /\ cur.sessions[p].order = sessions'[p].order
      BY <1>2 DEF SessionsGrow, Used
    <3> QED  BY <1>2, <1>5 DEF SessionVersions, SessionsGrow
  <2>3. SessionsBlank(sessions)' /\ SessionsBlank(cur.sessions)'
    BY <1>2, <1>5 DEF SessionVersions, SessionsBlank, Used
  <2>4. UniquePending(cur.sessions)'
    BY <1>2, <1>5 DEF SessionVersions, UniquePending
  <2>5. UniquePending(sessions')
    <3>1. PICK A, B, table : A = cur.sessions /\ B = sessions /\ table = sessions'
      OBVIOUS
    <3>2. \A p \in Session : table[p] = IF Holds(t, <<"session", p>>) THEN A[p] ELSE B[p]
      BY <1>2, <3>1
    <3>3. UniquePending(table)
      BY <3>1, <3>2, MixedPendingUnique
    <3> QED  BY <3>1, <3>3
  <2> QED  BY <2>1, <2>2, <2>3, <2>4, <2>5 DEF SessionVersions, UniquePending
<1>11. \A x \in Txn : x # t => \A o \in Order : HasPaid(x, o) => HasPaid(x, o)'
  BY <1>2, <1>4 DEF HasPaid, WasPaid
<1>12. StmtsGrounded'
  <2> SUFFICES ASSUME NEW x \in Txn, NEW i \in DOMAIN txns'[x].todo
               PROVE  Grounded(txns[x].todo[i])'
    BY DEF StmtsGrounded
  <2>1. txns'[x] = txns[x]
    BY <1>1
  <2>2. PICK stmt : stmt = txns[x].todo[i]
    OBVIOUS
  <2>3. Grounded(stmt) /\ stmt \in Stmt
    BY <2>1, <2>2 DEF IInv, Types, TxnsOK, TxnRow, Charges, StmtsGrounded
  <2>4. stmt.op \in {"update_order", "close_order"} => stmt.order \in Order
    BY <2>3 DEF Stmt, PlainStmt, PaidStmt, SettleStmt
  <2>5. stmt.op = "update_session" => stmt.session \in Session
    BY <2>3 DEF Stmt, PlainStmt, PaidStmt, SettleStmt
  <2>6. Grounded(stmt)'
    BY <1>7, <1>8, <2>3, <2>4, <2>5 DEF Grounded, Used
  <2> QED  BY <2>1, <2>2, <2>6 DEF Grounded, Used
<1>13. PaidFirst'
  BY <1>1, <1>11, OthersPaidFirst
<1>14. ChargeOwned'
  <2> SUFFICES ASSUME NEW x \in Txn, NEW p \in Session, Holds(x, <<"session", p>>)',
                      cur.sessions[p].status = "succeeded",
                      sessions'[p].status # "succeeded"
               PROVE  HasPaid(x, cur.sessions[p].order)'
    BY <1>2 DEF ChargeOwned
  <2>1. x # t /\ Holds(x, <<"session", p>>) /\ sessions'[p] = sessions[p]
    BY <1>2, <1>3
  <2>2. HasPaid(x, cur.sessions[p].order) /\ Used(cur.sessions[p])
    BY <2>1 DEF IInv, Charges, ChargeOwned, Used
  <2>3. PICK o \in Order : o = cur.sessions[p].order
    BY <1>5, <2>2 DEF SessionVersions, SessionsBlank
  <2>4. HasPaid(x, o)'
    BY <1>11, <2>1, <2>2, <2>3
  <2> QED  BY <1>2, <2>3, <2>4 DEF HasPaid, Holds, WasPaid
<1>15. ChargeLeavesTrace'
  <2> SUFFICES ASSUME NEW p \in Session, sessions'[p].status = "succeeded"
               PROVE  WasPaid(orders'[sessions'[p].order])
    BY DEF ChargeLeavesTrace, Paid, WasPaid
  <2>1. Used(cur.sessions[p])
    BY <1>2, <1>5 DEF SessionVersions, SessionsGrow, Used
  <2>2. PICK o \in Order : o = cur.sessions[p].order
    BY <1>5, <2>1 DEF SessionVersions, SessionsBlank
  <2>3. sessions'[p].order = o
    BY <1>2, <1>5, <2>2 DEF SessionVersions, SessionsGrow, Used
  <2>4. CASE sessions[p].status = "succeeded"
    <3>1. sessions[p].order = o
      BY <1>5, <2>2, <2>4 DEF SessionVersions, SessionsGrow, Used
    <3>2. WasPaid(orders[o])
      BY <2>4, <3>1 DEF IInv, Charges, ChargeLeavesTrace, Paid
    <3>3. Used(orders[o])
      BY <1>5, <3>2 DEF OrderVersions, OrdersBlank, WasPaid
    <3> QED  BY <1>7, <2>3, <3>2, <3>3
  <2>5. CASE sessions[p].status # "succeeded"
    <3>1. Holds(t, <<"session", p>>) /\ cur.sessions[p].status = "succeeded"
      BY <1>2, <2>5
    <3>2. HasPaid(t, o)
      BY <2>2, <2>5, <3>1 DEF IInv, Charges, ChargeOwned
    <3> QED  BY <1>2, <2>3, <3>2 DEF HasPaid
  <2> QED  BY <2>4, <2>5
<1> QED
  BY <1>1, <1>2, <1>6, <1>9, <1>10, <1>12, <1>13, <1>14, <1>15
     DEF IInv, Types, Locking, Charges

LEMMA ExecInsertOrderKeeps ==
  ASSUME IInv, NEW t \in Txn, ExecInsertOrder(t)
  PROVE  IInv'
BY InsertStores, AbortKeeps DEF ExecInsertOrder

LEMMA ExecInsertSessionKeeps ==
  ASSUME IInv, NEW t \in Txn, ExecInsertSession(t)
  PROVE  IInv'
<1>1. CASE Undo(t) /\ txns' = [txns EXCEPT ![t] = Idle] /\ UNCHANGED vars
  BY <1>1, AbortKeeps DEF vars
<1>2. CASE ~(Undo(t) /\ txns' = [txns EXCEPT ![t] = Idle] /\ UNCHANGED vars)
  BY <1>2, InsertSessionStores DEF ExecInsertSession
<1> QED  BY <1>1, <1>2

LEMMA ExecKeepsInv ==
  ASSUME IInv, NEW t \in Txn, Exec(t)
  PROVE  IInv'
BY ExecInsertOrderKeeps, ExecUpdateOrderKeeps, ExecCloseOrderKeeps, ExecFetchSkuKeeps,
   ExecUpdateSkuKeeps, ExecInsertSessionKeeps, ExecUpdateSessionKeeps, ExecDeleteCartKeeps
   DEF Exec

-----------------------------------------------------------------------------
(* The other steps, and the theorems.                                      *)

\* A step that leaves orders, sessions and transactions alone.
LEMMA AsideKeeps ==
  ASSUME IInv, UNCHANGED <<orders, sessions, txns>>, CommittedOK', NewestOK',
         cur'.orders = cur.orders, cur'.sessions = cur.sessions
  PROVE  IInv'
<1>1. LocksGrow
  BY DEF LocksGrow
<1>2. OrderVersions' /\ SessionVersions'
  BY <1>1, OrdersStay, SessionsStay DEF IInv
<1>3. Locking'
  BY DEF IInv, Locking, IdleIsIdle, LocksExclusive, LockedIsUsed, Holds, Used
<1>4. TxnsOK'
  BY DEF IInv, Types, TxnsOK
<1>5. StmtsGrounded' /\ ChargeLeavesTrace'
  BY DEF IInv, Charges, StmtsGrounded, Grounded, Used, ChargeLeavesTrace, Paid, WasPaid
<1>6. ChargeOwned'
  BY DEF IInv, Charges, ChargeOwned, HasPaid, Holds, WasPaid
<1>7. PaidFirst'
  <2>1. ASSUME NEW t \in Txn, NEW o
        PROVE  HasPaid(t, o) <=> (<<"order", o>> \in txns'[t].locks /\ WasPaid(cur'.orders[o]))
    BY DEF HasPaid, Holds
  <2> SUFFICES ASSUME NEW t \in Txn, NEW i \in DOMAIN txns[t].todo, Succeeds(txns[t].todo[i])
               PROVE  \/ /\ i = 1 /\ <<"order", txns[t].todo[i].order>> \in txns'[t].locks
                         /\ WasPaid(cur'.orders[txns[t].todo[i].order])
                      \/ /\ i = 2
                         /\ txns[t].todo[1].op = "update_order"
                         /\ txns[t].todo[1].order = txns[t].todo[2].order
                         /\ txns[t].todo[1].to = "paid"
    BY ZenonT(60) DEF PaidFirst, Succeeds, HasPaid, Holds, WasPaid
  <2> QED  BY <2>1 DEF IInv, Charges, PaidFirst
<1> QED  BY <1>2, <1>3, <1>4, <1>5, <1>6, <1>7 DEF IInv, Types, Charges

LEMMA CartRequestKeeps ==
  ASSUME IInv, NEW u \in User, CartRequest(u)
  PROVE  IInv'
<1>1. CommittedOK /\ NewestOK
  BY DEF IInv, Types
<1>2. cart' \in CartTable /\ UNCHANGED <<skus, orders, sessions, overdue, autoDue>>
  <2>1. ASSUME NEW s \in Sku, NEW q \in 0..MaxCartItemQuantity
        PROVE  [cart EXCEPT ![u][s] = q] \in CartTable
    BY <1>1 DEF CommittedOK, CartTable
  <2>2. ASSUME NEW s \in Sku, NEW q \in 1..MaxCartItemQuantity, CartAdd(u, s, q)
        PROVE  cart[u][s] + q \in 0..MaxCartItemQuantity
    <3>1. cart[u][s] \in 0..MaxCartItemQuantity
      BY <1>1 DEF CommittedOK, CartTable
    <3>2. cart[u][s] + q <= MaxCartItemQuantity
      BY <2>2 DEF CartAdd
    <3> QED  BY <3>1, <3>2, ConstantsAssumption
  <2>3. ASSUME NEW S, Removed(u, S)
        PROVE  cart' \in CartTable /\ UNCHANGED <<skus, orders, sessions, overdue, autoDue>>
    <3>1. [s \in Sku |-> IF s \in S THEN 0 ELSE cart[u][s]] \in [Sku -> 0..MaxCartItemQuantity]
      BY <1>1, ConstantsAssumption DEF CommittedOK, CartTable
    <3> QED  BY <1>1, <2>3, <3>1 DEF CommittedOK, CartTable, Removed
  <2>4. ASSUME NEW s \in Sku, NEW q \in 1..MaxCartItemQuantity,
               CartAdd(u, s, q) \/ CartUpdate(u, s, q)
        PROVE  cart' \in CartTable /\ UNCHANGED <<skus, orders, sessions, overdue, autoDue>>
    <3>1. CASE CartAdd(u, s, q)
      <4>1. cart' = [cart EXCEPT ![u][s] = cart[u][s] + q]
        BY <1>1, <3>1 DEF CartAdd, CommittedOK, CartTable
      <4> QED  BY <2>1, <2>2, <3>1, <4>1 DEF CartAdd
    <3>2. CASE CartUpdate(u, s, q)
      <4>1. q \in 0..MaxCartItemQuantity
        BY ConstantsAssumption
      <4>2. [cart EXCEPT ![u][s] = q] \in CartTable
        BY <2>1, <4>1
      <4> QED  BY <3>2, <4>2 DEF CartUpdate
    <3> QED  BY <2>4, <3>1, <3>2
  <2>5. ASSUME NEW s \in Sku, CartDelete(u, s)
        PROVE  cart' \in CartTable /\ UNCHANGED <<skus, orders, sessions, overdue, autoDue>>
    <3>1. 0 \in 0..MaxCartItemQuantity
      BY ConstantsAssumption
    <3>2. [cart EXCEPT ![u][s] = 0] \in CartTable
      BY <2>1, <3>1
    <3> QED  BY <2>5, <3>2 DEF CartDelete
  <2> QED  BY <2>3, <2>4, <2>5 DEF CartRequest, CartBatchDelete, CartClearInvalid
<1>3. CommittedOK'
  BY <1>1, <1>2 DEF CommittedOK, CartTable
<1>4. NewestOK' /\ cur'.orders = cur.orders /\ cur'.sessions = cur.sessions
  <2> DEFINE row == [s \in Sku |-> IF cart'[u][s] # cart[u][s] THEN cart'[u][s]
                                   ELSE cur.cart[u][s]]
  <2>1. row \in [Sku -> 0..MaxCartItemQuantity]
    BY <1>1, <1>2 DEF NewestOK, CartTable
  <2>2. cur' = [cur EXCEPT !.cart[u] = row]
    BY <1>1 DEF CartRequest, NewestOK, CartTable
  <2> HIDE DEF row
  <2> QED  BY <1>1, <2>1, <2>2 DEF NewestOK, CartTable
<1>5. UNCHANGED txns
  BY DEF CartRequest
<1> QED  BY <1>2, <1>3, <1>4, <1>5, AsideKeeps

LEMMA ClockKeeps ==
  ASSUME IInv, Clock
  PROVE  IInv'
<1>1. CommittedOK /\ NewestOK
  BY DEF IInv, Types
<1>2. /\ UNCHANGED <<cart, skus, orders, sessions, cur, txns>>
      /\ overdue' \subseteq Order /\ autoDue' \subseteq Order
  BY <1>1 DEF Clock, TimeStep, PaymentDeadlinePasses, AutoCompletePasses, CommittedOK
<1>3. CommittedOK' /\ NewestOK'
  BY <1>1, <1>2 DEF CommittedOK, NewestOK
<1> QED  BY <1>2, <1>3, AsideKeeps

LEMMA StutterKeeps ==
  ASSUME IInv, UNCHANGED tvars
  PROVE  IInv'
<1>1. UNCHANGED <<cart, skus, orders, sessions, overdue, autoDue, cur, txns>>
  BY DEF tvars
<1>2. CommittedOK' /\ NewestOK'
  BY <1>1 DEF IInv, Types, CommittedOK, NewestOK
<1> QED  BY <1>1, <1>2, AsideKeeps

LEMMA TxnInitInv ==
  ASSUME TxnInit
  PROVE  IInv
<1>1. /\ cur = [orders |-> orders, skus |-> skus, sessions |-> sessions, cart |-> cart]
      /\ orders = [o \in Order |-> UnusedOrder]
      /\ sessions = [p \in Session |-> UnusedSession]
      /\ txns = [t \in Txn |-> Idle]
  BY DEF TxnInit, Init
<1>2. UnusedOrder \in OrderRow /\ UnusedSession \in SessionRow /\ NewSku \in AnySkuRow
  <2>1. UnusedOrder \in OrderRow
    <3>1. [s \in Sku |-> 0] \in [Sku -> Nat]
      OBVIOUS
    <3>2. <<>> \in Seq([from : OrderStatus \cup {"none"}, to : OrderStatus])
      OBVIOUS
    <3> QED  BY <3>1, <3>2 DEF UnusedOrder, OrderRow
  <2>2. UnusedSession \in SessionRow /\ NewSku \in AnySkuRow
    BY ConstantsAssumption DEF UnusedSession, SessionRow, NewSku, AnySkuRow
  <2> QED  BY <2>1, <2>2
<1>3. CommittedOK
  BY <1>2, ConstantsAssumption DEF CommittedOK, CartTable, TxnInit, Init
<1>4. NewestOK
  BY <1>1, <1>3 DEF NewestOK, CommittedOK
<1>5. Idle \in TxnRow /\ ~Idle.active /\ Idle.todo = <<>> /\ Idle.locks = {}
  BY IdleType DEF Idle
<1>6. TxnsOK
  BY <1>1, <1>5 DEF TxnsOK
<1>7. /\ \A t \in Txn : ~txns[t].active /\ txns[t].todo = <<>> /\ txns[t].locks = {}
      /\ cur.orders = orders /\ cur.sessions = sessions
  BY <1>1, <1>5
<1>8. Locking
  BY <1>7 DEF Locking, IdleIsIdle, LocksExclusive, LockedIsUsed, Holds
<1>9. /\ \A o \in Order : ~Used(orders[o]) /\ orders[o].key = NoKey /\ orders[o].history = <<>>
      /\ \A p \in Session : sessions[p].status = "none"
  BY <1>1 DEF UnusedOrder, UnusedSession, Used
<1>10. OrderVersions
  BY <1>7, <1>9 DEF OrderVersions, OrdersBlank, OrdersGrow, OrdersOwned, UniqueUserKey
<1>11. SessionVersions
  BY <1>7, <1>9 DEF SessionVersions, SessionsBlank, SessionsGrow, SessionsOwned,
                    UniquePending, Used
<1>12. Charges
  BY <1>7, <1>9 DEF Charges, StmtsGrounded, PaidFirst, ChargeOwned, ChargeLeavesTrace, Holds
<1> QED  BY <1>3, <1>4, <1>6, <1>8, <1>10, <1>11, <1>12 DEF IInv, Types

LEMMA TxnNextKeeps ==
  ASSUME IInv, [TxnNext]_tvars
  PROVE  IInv'
<1>1. ASSUME NEW t \in Txn, Rollback(t) PROVE IInv'
  BY <1>1, AbortKeeps DEF Rollback, vars
<1>2. ASSUME NEW t \in Txn, DeadlockVictim(t) PROVE IInv'
  BY <1>1, <1>2 DEF DeadlockVictim
<1>3. ASSUME NEW t \in Txn, Commit(t) PROVE IInv'
  BY <1>3, PublishKeeps DEF Commit
<1>4. ASSUME NEW t \in Txn, Exec(t) PROVE IInv'
  BY <1>4, ExecKeepsInv
<1>5. ASSUME NEW t \in Txn, BeginBuyer(t) \/ BeginStaff(t) \/ BeginCron(t) PROVE IInv'
  BY <1>5, BeginKeepsInv
<1>6. CASE TxnNext
  BY <1>1, <1>2, <1>3, <1>4, <1>5, <1>6, CartRequestKeeps, ClockKeeps DEF TxnNext
<1>7. CASE UNCHANGED tvars
  BY <1>7, StutterKeeps
<1> QED  BY <1>6, <1>7

\* The inductive invariant: whatever requests overlap, time out, roll back or
\* are chosen as deadlock victims, each uncommitted row version has one owner,
\* who holds the index entries it changes, and every settlement follows the
\* payment of its order (order_service.py, payment_service.py under READ
\* COMMITTED).
THEOREM TxnIInvCorrect == TxnSpec => []IInv
<1>1. TxnInit => IInv
  BY TxnInitInv
<1>2. IInv /\ [TxnNext]_tvars => IInv'
  BY TxnNextKeeps
<1> QED  BY <1>1, <1>2, PTL DEF TxnSpec

\* Overlapping checkouts with one Idempotency-Key leave at most one order that
\* carries it: the look-up of prior orders may miss the other's uncommitted
\* row, uq_orders_user_idempotency does not (order_service.py: create).
THEOREM OneOrderPerKeyCorrect == TxnSpec => []OneOrderPerKey
<1>1. IInv => OneOrderPerKey
  BY DEF IInv, OrderVersions, OneOrderPerKey
<1> QED  BY <1>1, TxnIInvCorrect, PTL

\* Two requests of create_session may both find no pending session; only one
\* session is pending afterwards (payment_service.py: create_session).
THEOREM OnePendingSessionCorrect == TxnSpec => []OnePendingSession
<1>1. IInv => OnePendingSession
  BY DEF IInv, SessionVersions, UniquePending, OnePendingSession, PendingSessions
<1> QED  BY <1>1, TxnIInvCorrect, PTL

\* A succeeded session never stands beside an order whose history does not
\* know of a payment, whichever request overwrote the order's status since
\* (payment_service.py: mock_succeed).
THEOREM ChargeLeavesTraceCorrect == TxnSpec => []ChargeLeavesTrace
<1>1. IInv => ChargeLeavesTrace
  BY DEF IInv, Charges
<1> QED  BY <1>1, TxnIInvCorrect, PTL

-----------------------------------------------------------------------------
(* What the history of an order says of its goods.                         *)

\* The history rows that give the goods of an order back.
Givers(history) == {i \in DOMAIN history : history[i].to = "cancelled"}

LEMMA GiversFinite ==
  ASSUME NEW S, NEW h \in Seq(S)
  PROVE  IsFiniteSet(Givers(h)) /\ Cardinality(Givers(h)) \in Nat
<1>1. Len(h) \in Nat /\ DOMAIN h = 1..Len(h)
  OBVIOUS
<1>2. IsFiniteSet(1..Len(h))
  BY <1>1, FS_Interval
<1>3. Givers(h) \subseteq 1..Len(h)
  BY <1>1 DEF Givers
<1>4. IsFiniteSet(Givers(h))
  BY <1>2, <1>3, FS_Subset
<1> QED  BY <1>4, FS_CardinalityType

LEMMA GiversAppend ==
  ASSUME NEW S, NEW h \in Seq(S), NEW e
  PROVE  Cardinality(Givers(Append(h, e)))
           = Cardinality(Givers(h)) + (IF e.to = "cancelled" THEN 1 ELSE 0)
<1> DEFINE k == Append(h, e)
<1>1. PICK n \in Nat : n = Len(h)
  OBVIOUS
<1>2. /\ DOMAIN h = 1..n /\ DOMAIN k = 1..(n+1)
      /\ k[n+1] = e /\ \A i \in 1..n : k[i] = h[i]
  BY <1>1
<1> HIDE DEF k
<1>3. IsFiniteSet(Givers(h)) /\ Cardinality(Givers(h)) \in Nat /\ n + 1 \notin Givers(h)
  <2>1. n + 1 \notin Givers(h)
    BY <1>2 DEF Givers
  <2> QED  BY <2>1, GiversFinite
<1>4. CASE e.to = "cancelled"
  <2>1. Givers(k) = Givers(h) \cup {n+1}
    BY <1>2, <1>4 DEF Givers
  <2>2. Cardinality(Givers(h) \cup {n+1}) = Cardinality(Givers(h)) + 1
    BY <1>3, FS_AddElement
  <2> QED  BY <1>4, <2>1, <2>2 DEF k
<1>5. CASE e.to # "cancelled"
  <2>1. Givers(k) = Givers(h)
    BY <1>2, <1>5 DEF Givers
  <2> QED  BY <1>3, <1>5, <2>1 DEF k
<1> QED  BY <1>4, <1>5

LEMMA BalanceInt ==
  ASSUME NEW table, NEW o, table[o] \in OrderRow, NEW s \in Sku
  PROVE  Balance(table, o, s) \in Int
<1>1. table[o].items[s] \in Int
  BY DEF OrderRow
<1>2. PICK S : table[o].history \in Seq(S)
  BY DEF OrderRow
<1>3. Cardinality(Givers(table[o].history)) \in Nat
  BY <1>2, GiversFinite
<1>4. Balance(table, o, s)
        = IF table[o].history = <<>> THEN 0
          ELSE table[o].items[s] * (Cardinality(Givers(table[o].history)) - 1)
  BY DEF Balance, Givers
<1> QED  BY <1>1, <1>3, <1>4

\* The order has gone through one transition more in b than in a.
Advanced(a, b, o, e) ==
    /\ a[o].history # <<>>
    /\ b[o].items = a[o].items
    /\ b[o].history = Append(a[o].history, e)

\* The history row of a transition gives the goods back or leaves them.
LEMMA BalanceMoves ==
  ASSUME NEW a, NEW b, NEW o, a[o] \in OrderRow, NEW s \in Sku, NEW e, Advanced(a, b, o, e)
  PROVE  Balance(b, o, s)
           = Balance(a, o, s) + (IF e.to = "cancelled" THEN a[o].items[s] ELSE 0)
<1>1. PICK n \in Int : n = a[o].items[s]
  BY DEF OrderRow
<1>2. PICK S : a[o].history \in Seq(S)
  BY DEF OrderRow
<1>3. PICK c \in Nat : c = Cardinality(Givers(a[o].history))
  BY <1>2, GiversFinite
<1>4. Cardinality(Givers(b[o].history)) = c + (IF e.to = "cancelled" THEN 1 ELSE 0)
  BY <1>2, <1>3, GiversAppend DEF Advanced
<1>5. b[o].history # <<>> /\ a[o].history # <<>> /\ b[o].items = a[o].items
  BY <1>2 DEF Advanced
<1>6. Balance(a, o, s) = n * (c - 1)
  BY <1>1, <1>3, <1>5 DEF Balance, Givers
<1>7. Balance(b, o, s) = n * (Cardinality(Givers(b[o].history)) - 1)
  BY <1>1, <1>5 DEF Balance, Givers
<1>8. CASE e.to = "cancelled"
  <2>1. Balance(b, o, s) = n * c
    BY <1>4, <1>7, <1>8
  <2>2. n * c = n * (c - 1) + n
    OBVIOUS
  <2> QED  BY <1>1, <1>6, <1>8, <2>1, <2>2
<1>9. CASE e.to # "cancelled"
  <2>1. Balance(b, o, s) = n * (c - 1)
    BY <1>4, <1>7, <1>9
  <2> QED  BY <1>6, <1>9, <2>1
<1> QED  BY <1>8, <1>9

\* A new order has taken its goods.
LEMMA BalanceNew ==
  ASSUME NEW b, NEW o, b[o] \in OrderRow, NEW s \in Sku, NEW e,
         b[o].history = <<e>>, e.to # "cancelled"
  PROVE  Balance(b, o, s) = -b[o].items[s]
<1>1. PICK n \in Int : n = b[o].items[s]
  BY DEF OrderRow
<1>2. PICK h : h = b[o].history
  OBVIOUS
<1>3. Givers(h) = {} /\ h # <<>>
  BY <1>2 DEF Givers
<1>4. Cardinality(Givers(h)) = 0
  BY <1>3, FS_EmptySet
<1>5. Balance(b, o, s) = n * (Cardinality(Givers(h)) - 1)
  BY <1>1, <1>2, <1>3 DEF Balance, Givers
<1> QED  BY <1>1, <1>4, <1>5

-----------------------------------------------------------------------------
(* The log and the history.                                                *)

\* What the statement adds to the balance of the history rows, or takes from
\* the inventory log, for SKU s; os are the committed orders.
Gain(stmt, os, s) ==
    CASE stmt.op = "insert_order" -> -stmt.row.items[s]
      [] stmt.op = "update_order" ->
           IF stmt.to = "cancelled" THEN os[stmt.order].items[s] ELSE 0
      [] stmt.op = "update_sku" ->
           IF stmt.sku # s \/ stmt.how = "finalize" THEN 0
           ELSE IF stmt.how = "lock" THEN stmt.qty ELSE -stmt.qty
      [] OTHER -> 0

Gains(os, s) == [stmt \in Stmt |-> Gain(stmt, os, s)]

\* By how much the newest versions b of the orders whose locks are in ls are
\* ahead of the committed ones a, and so for the log of the SKU.
Moves(ls, a, b, s) ==
    [o \in Order |-> IF <<"order", o>> \in ls THEN Balance(b, o, s) - Balance(a, o, s) ELSE 0]

Logs(ls, a, b, s) == IF <<"sku", s>> \in ls THEN b[s].logged - a[s].logged ELSE 0

Ahead(ls, os, ks, c, s) ==
    SumFunctionOnSet(Moves(ls, os, c.orders, s), Order) - Logs(ls, ks, c.skus, s)

\* A transaction that moves no order: admin_adjust_stock.
Adjusting(x) ==
    /\ \A o \in Order : <<"order", o>> \notin x.locks
    /\ \A i \in DOMAIN x.todo : x.todo[i].op = "update_sku"

\* What the statements to come still add makes up for what is ahead.
Balanced(x, os, ks, c) ==
    \/ Adjusting(x)
    \/ \A s \in Sku : Leads(Gains(os, s), x.todo, Ahead(x.locks, os, ks, c, s), 0)

LEMMA GainsInt ==
  ASSUME NEW os \in [Order -> OrderRow], NEW s \in Sku, NEW stmt \in Stmt
  PROVE  Gains(os, s)[stmt] = Gain(stmt, os, s) /\ Gain(stmt, os, s) \in Int
<1>1. CASE stmt.op = "insert_order" /\ stmt.row \in PlacedRow
  <2>1. stmt.row.items[s] \in Int
    BY <1>1 DEF PlacedRow, OrderRow
  <2> QED  BY <1>1, <2>1 DEF Gains, Gain
<1>2. CASE stmt.op = "update_order" /\ stmt.order \in Order
  <2>1. os[stmt.order].items[s] \in Int
    BY <1>2 DEF OrderRow
  <2> QED  BY <1>2, <2>1 DEF Gains, Gain
<1>3. CASE stmt.op = "update_sku" /\ stmt.qty \in Int
  BY <1>3 DEF Gains, Gain
<1>4. CASE stmt.op \in {"close_order", "fetch_sku", "insert_session", "update_session",
                        "delete_cart"}
  BY <1>4 DEF Gains, Gain
<1> QED  BY <1>1, <1>2, <1>3, <1>4 DEF Stmt, PlainStmt, PaidStmt, SettleStmt

LEMMA MovesSummable ==
  ASSUME NEW ls, NEW a \in [Order -> OrderRow], NEW b \in [Order -> OrderRow], NEW s \in Sku
  PROVE  Summable(Moves(ls, a, b, s), Order)
<1>1. ASSUME NEW o \in Order PROVE Moves(ls, a, b, s)[o] \in Int
  <2>1. Balance(a, o, s) \in Int /\ Balance(b, o, s) \in Int
    BY BalanceInt
  <2> QED  BY <2>1 DEF Moves
<1> QED  BY <1>1, ConstantsAssumption DEF Summable, Moves

LEMMA AheadInt ==
  ASSUME NEW ls, NEW os \in [Order -> OrderRow], NEW ks \in [Sku -> AnySkuRow],
         NEW c, c.orders \in [Order -> OrderRow], c.skus \in [Sku -> AnySkuRow],
         NEW s \in Sku
  PROVE  Ahead(ls, os, ks, c, s) \in Int
<1>1. PICK b \in [Order -> OrderRow] : b = c.orders
  OBVIOUS
<1>2. Summable(Moves(ls, os, b, s), Order)
  BY MovesSummable
<1>3. SumFunctionOnSet(Moves(ls, os, b, s), Order) \in Int
  BY <1>2, SumInt
<1>4. Logs(ls, ks, c.skus, s) \in Int
  BY DEF Logs, AnySkuRow
<1> QED  BY <1>1, <1>3, <1>4 DEF Ahead

\* Only the versions of the locked rows count.
LEMMA AheadSame ==
  ASSUME NEW ks, NEW ls, NEW ms, NEW os, NEW ps, NEW js, NEW c, NEW d, NEW s \in Sku,
         \A o \in Order : /\ <<"order", o>> \in ms <=> <<"order", o>> \in ls
                          /\ <<"order", o>> \in ls => d.orders[o] = c.orders[o] /\ ps[o] = os[o],
         <<"sku", s>> \in ms <=> <<"sku", s>> \in ls,
         <<"sku", s>> \in ls => d.skus[s] = c.skus[s] /\ js[s] = ks[s]
  PROVE  Ahead(ms, ps, js, d, s) = Ahead(ls, os, ks, c, s)
<1>1. ASSUME NEW o \in Order
      PROVE  Moves(ms, ps, d.orders, s)[o] = Moves(ls, os, c.orders, s)[o]
  <2>1. CASE <<"order", o>> \in ls
    BY <2>1 DEF Moves, Balance
  <2>2. CASE <<"order", o>> \notin ls
    BY <2>2 DEF Moves
  <2> QED  BY <2>1, <2>2
<1>2. Moves(ms, ps, d.orders, s) = Moves(ls, os, c.orders, s)
  BY <1>1 DEF Moves
<1>3. Logs(ms, js, d.skus, s) = Logs(ls, ks, c.skus, s)
  BY DEF Logs
<1> QED  BY <1>2, <1>3 DEF Ahead

TablesOK(os, ks, c) ==
    /\ os \in [Order -> OrderRow] /\ ks \in [Sku -> AnySkuRow]
    /\ c.orders \in [Order -> OrderRow] /\ c.skus \in [Sku -> AnySkuRow]

\* From the locks ls and the versions c to the locks ms and the versions d, o
\* alone is written, and locked first if it was not.
WritesOrder(ls, ms, os, c, d, o) ==
    /\ d.skus = c.skus
    /\ \A s \in Sku : <<"sku", s>> \in ms <=> <<"sku", s>> \in ls
    /\ <<"order", o>> \in ms
    /\ <<"order", o>> \notin ls => c.orders[o] = os[o]
    /\ \A x \in Order \ {o} : /\ <<"order", x>> \in ms <=> <<"order", x>> \in ls
                             /\ d.orders[x] = c.orders[x]

WritesSku(ls, ms, ks, c, d, z) ==
    /\ d.orders = c.orders
    /\ \A o \in Order : <<"order", o>> \in ms <=> <<"order", o>> \in ls
    /\ <<"sku", z>> \in ms
    /\ <<"sku", z>> \notin ls => c.skus[z] = ks[z]
    /\ \A x \in Sku \ {z} : /\ <<"sku", x>> \in ms <=> <<"sku", x>> \in ls
                           /\ d.skus[x] = c.skus[x]

\* A statement that writes a version of one order.
LEMMA AheadOrder ==
  ASSUME NEW ls, NEW ms, NEW os, NEW ks, NEW c, NEW d, TablesOK(os, ks, c),
         TablesOK(os, ks, d), NEW o \in Order, WritesOrder(ls, ms, os, c, d, o),
         NEW s \in Sku
  PROVE  Ahead(ms, os, ks, d, s)
           = Ahead(ls, os, ks, c, s) + (Balance(d.orders, o, s) - Balance(c.orders, o, s))
<1>0. /\ os \in [Order -> OrderRow] /\ ks \in [Sku -> AnySkuRow]
      /\ c.orders \in [Order -> OrderRow] /\ c.skus \in [Sku -> AnySkuRow]
      /\ d.orders \in [Order -> OrderRow]
  BY DEF TablesOK
<1>1. PICK a \in [Order -> OrderRow], b \in [Order -> OrderRow] : a = c.orders /\ b = d.orders
  BY <1>0
<1> DEFINE f == Moves(ls, os, a, s)
           g == Moves(ms, os, b, s)
<1>2. Summable(f, Order) /\ Summable(g, Order)
  BY <1>0, MovesSummable
<1>3. PICK m \in Int, n \in Int, k \in Int :
        m = Balance(a, o, s) /\ n = Balance(b, o, s) /\ k = Balance(os, o, s)
  BY <1>0, BalanceInt
<1>4. g[o] - f[o] = n - m
  <2>1. g[o] = n - k
    BY <1>1, <1>3 DEF Moves, WritesOrder
  <2>2. CASE <<"order", o>> \in ls
    <3>1. f[o] = m - k
      BY <1>1, <1>3, <2>2 DEF Moves
    <3> QED  BY <2>1, <3>1
  <2>3. CASE <<"order", o>> \notin ls
    <3>1. m = k
      BY <1>1, <1>3, <2>3 DEF Balance, WritesOrder
    <3>2. f[o] = 0
      BY <2>3 DEF Moves
    <3> QED  BY <2>1, <3>1, <3>2
  <2> QED  BY <2>2, <2>3
<1>5. ASSUME NEW x \in Order \ {o} PROVE g[x] = f[x]
  <2>1. Balance(b, x, s) = Balance(a, x, s)
    BY <1>1 DEF Balance, WritesOrder
  <2>2. <<"order", x>> \in ms <=> <<"order", x>> \in ls
    BY DEF WritesOrder
  <2> QED  BY <2>1, <2>2 DEF Moves
<1> HIDE DEF f, g
<1>6. SumFunctionOnSet(g, Order) = SumFunctionOnSet(f, Order) + (g[o] - f[o])
  BY <1>2, <1>5, SumDiffers
<1>7. SumFunctionOnSet(f, Order) \in Int /\ SumFunctionOnSet(g, Order) \in Int
  BY <1>2, SumInt
<1>8. Logs(ms, ks, d.skus, s) = Logs(ls, ks, c.skus, s) /\ Logs(ls, ks, c.skus, s) \in Int
  BY <1>0 DEF Logs, AnySkuRow, WritesOrder
<1>9. /\ Ahead(ms, os, ks, d, s) = SumFunctionOnSet(g, Order) - Logs(ls, ks, c.skus, s)
      /\ Ahead(ls, os, ks, c, s) = SumFunctionOnSet(f, Order) - Logs(ls, ks, c.skus, s)
  BY <1>1, <1>8 DEF Ahead, f, g
<1>10. PICK u \in Int, v \in Int, w \in Int :
         /\ u = SumFunctionOnSet(g, Order)
         /\ v = SumFunctionOnSet(f, Order)
         /\ w = Logs(ls, ks, c.skus, s)
  BY <1>7, <1>8
<1>11. u = v + (n - m)
  BY <1>4, <1>6, <1>10
<1> QED  BY <1>1, <1>3, <1>9, <1>10, <1>11

\* A statement that writes a version of one SKU.
LEMMA AheadSku ==
  ASSUME NEW ls, NEW ms, NEW os, NEW ks, NEW c, NEW d, TablesOK(os, ks, c),
         TablesOK(os, ks, d), NEW z \in Sku, WritesSku(ls, ms, ks, c, d, z),
         NEW s \in Sku
  PROVE  Ahead(ms, os, ks, d, s)
           = Ahead(ls, os, ks, c, s) - (d.skus[s].logged - c.skus[s].logged)
<1>0. /\ os \in [Order -> OrderRow] /\ ks \in [Sku -> AnySkuRow]
      /\ c.orders \in [Order -> OrderRow] /\ c.skus \in [Sku -> AnySkuRow]
      /\ d.skus \in [Sku -> AnySkuRow] /\ d.orders = c.orders
  BY DEF TablesOK, WritesSku
<1>1. PICK a \in [Order -> OrderRow] : a = c.orders
  BY <1>0
<1>2. Moves(ms, os, a, s) = Moves(ls, os, a, s)
  BY DEF Moves, WritesSku
<1>3. SumFunctionOnSet(Moves(ls, os, a, s), Order) \in Int
  BY <1>0, MovesSummable, SumInt
<1>4. c.skus[s].logged \in Int /\ d.skus[s].logged \in Int /\ ks[s].logged \in Int
  BY <1>0 DEF AnySkuRow
<1>5. Logs(ms, ks, d.skus, s) = Logs(ls, ks, c.skus, s) + (d.skus[s].logged - c.skus[s].logged)
  <2>1. CASE s = z
    <3>1. CASE <<"sku", z>> \in ls
      BY <1>4, <2>1, <3>1 DEF Logs, WritesSku
    <3>2. CASE <<"sku", z>> \notin ls
      BY <1>4, <2>1, <3>2 DEF Logs, WritesSku
    <3> QED  BY <3>1, <3>2
  <2>2. CASE s # z
    BY <1>4, <2>2 DEF Logs, WritesSku
  <2> QED  BY <2>1, <2>2
<1>6. Logs(ls, ks, c.skus, s) \in Int
  BY <1>4 DEF Logs
<1>7. PICK u \in Int, v \in Int, m \in Int, n \in Int :
        /\ u = SumFunctionOnSet(Moves(ls, os, a, s), Order)
        /\ v = Logs(ls, ks, c.skus, s)
        /\ m = d.skus[s].logged /\ n = c.skus[s].logged
  BY <1>3, <1>4, <1>6
<1>8. /\ Ahead(ms, os, ks, d, s) = u - (v + (m - n))
      /\ Ahead(ls, os, ks, c, s) = u - v
  BY <1>0, <1>1, <1>2, <1>5, <1>7 DEF Ahead
<1> QED  BY <1>7, <1>8

\* The transactions a step does not touch, and the rows they hold.
LEMMA BalancedSame ==
  ASSUME NEW x, x.todo \in Seq(Stmt), NEW os, NEW ks, NEW c, Balanced(x, os, ks, c),
         NEW ps, NEW js, NEW d,
         \A o \in Order : <<"order", o>> \in x.locks =>
            d.orders[o] = c.orders[o] /\ ps[o] = os[o],
         \A s \in Sku : <<"sku", s>> \in x.locks => d.skus[s] = c.skus[s] /\ js[s] = ks[s],
         \A i \in DOMAIN x.todo : x.todo[i].op = "update_order" =>
            ps[x.todo[i].order].items = os[x.todo[i].order].items
  PROVE  Balanced(x, ps, js, d)
<1> SUFFICES ASSUME NEW s \in Sku,
                    Leads(Gains(os, s), x.todo, Ahead(x.locks, os, ks, c, s), 0)
             PROVE  Leads(Gains(ps, s), x.todo, Ahead(x.locks, os, ks, c, s), 0)
  <2>1. ASSUME NEW s \in Sku
        PROVE  Ahead(x.locks, ps, js, d, s) = Ahead(x.locks, os, ks, c, s)
    <3>1. PICK l : l = x.locks
      OBVIOUS
    <3>2. \A o \in Order : /\ <<"order", o>> \in l <=> <<"order", o>> \in l
                           /\ <<"order", o>> \in l => d.orders[o] = c.orders[o] /\ ps[o] = os[o]
      BY <3>1
    <3>3. <<"sku", s>> \in l => d.skus[s] = c.skus[s] /\ js[s] = ks[s]
      BY <3>1
    <3>4. Ahead(l, ps, js, d, s) = Ahead(l, os, ks, c, s)
      BY <3>2, <3>3, AheadSame
    <3> QED  BY <3>1, <3>4
  <2> QED  BY <2>1 DEF Balanced
<1>1. PICK q \in Seq(Stmt) : q = x.todo
  OBVIOUS
<1>2. ASSUME NEW i \in DOMAIN q PROVE Gains(ps, s)[q[i]] = Gains(os, s)[q[i]]
  <2>1. q[i] \in Stmt
    OBVIOUS
  <2>2. PICK stmt \in Stmt : stmt = q[i]
    BY <2>1
  <2>3. stmt.op = "update_order" => ps[stmt.order].items = os[stmt.order].items
    BY <1>1, <2>2
  <2>4. Gain(stmt, ps, s) = Gain(stmt, os, s)
    BY <2>3 DEF Gain
  <2> QED  BY <2>2, <2>4 DEF Gains
<1>3. Leads(Gains(ps, s), q, Ahead(x.locks, os, ks, c, s), 0)
  <2>1. PICK v, w, a : v = Gains(ps, s) /\ w = Gains(os, s) /\ a = Ahead(x.locks, os, ks, c, s)
    OBVIOUS
  <2>2. Leads(w, q, a, 0)
    BY <1>1, <2>1
  <2>3. \A i \in 1..Len(q) : v[q[i]] = w[q[i]]
    BY <1>2, <2>1
  <2>4. Leads(v, q, a, 0)
    BY <2>2, <2>3, LeadsSame
  <2> QED  BY <2>1, <2>4
<1> QED  BY <1>1, <1>3

\* The transaction whose statement a step executes.
LEMMA BalancedStep ==
  ASSUME NEW x, x.todo \in Seq(Stmt), x.todo # <<>>, NEW os \in [Order -> OrderRow],
         NEW ks, NEW c, Balanced(x, os, ks, c), NEW y, y.todo = Tail(x.todo), NEW d,
         Head(x.todo).op = "update_sku" =>
            \A o \in Order : <<"order", o>> \in y.locks => <<"order", o>> \in x.locks,
         \A s \in Sku : Ahead(y.locks, os, ks, d, s)
                          = Ahead(x.locks, os, ks, c, s) + Gain(Head(x.todo), os, s)
  PROVE  Balanced(y, os, ks, d)
<1>1. PICK q \in Seq(Stmt) : q = x.todo
  OBVIOUS
<1>2. /\ q # <<>> /\ Head(q) = q[1] /\ 1 \in DOMAIN q /\ Head(q) \in Stmt
      /\ \A i \in DOMAIN Tail(q) : i + 1 \in DOMAIN q /\ Tail(q)[i] = q[i+1]
  BY <1>1
<1>3. CASE Adjusting(x)
  <2>1. \A i \in DOMAIN q : q[i].op = "update_sku"
    BY <1>1, <1>3 DEF Adjusting
  <2>2. \A o \in Order : <<"order", o>> \notin y.locks
    BY <1>1, <1>2, <1>3, <2>1 DEF Adjusting
  <2>3. \A i \in DOMAIN Tail(q) : Tail(q)[i].op = "update_sku"
    BY <1>2, <2>1
  <2> QED  BY <1>1, <2>2, <2>3 DEF Balanced, Adjusting
<1>4. CASE ~Adjusting(x)
  <2> SUFFICES ASSUME NEW s \in Sku
               PROVE  Leads(Gains(os, s), y.todo, Ahead(y.locks, os, ks, d, s), 0)
    BY DEF Balanced
  <2>1. Leads(Gains(os, s), q, Ahead(x.locks, os, ks, c, s), 0)
    BY <1>1, <1>4 DEF Balanced
  <2>2. Leads(Gains(os, s), Tail(q),
              Ahead(x.locks, os, ks, c, s) + Gains(os, s)[Head(q)], 0)
    BY <1>2, <2>1, LeadsTail
  <2>3. Gains(os, s)[Head(q)] = Gain(Head(q), os, s)
    BY <1>2, GainsInt
  <2> QED  BY <1>1, <2>2, <2>3
<1> QED  BY <1>3, <1>4

\* The lines of an order do not change, its history starts with it.
LinesKept ==
    \A o \in Order : Used(orders[o]) => /\ orders[o].history # <<>>
                                        /\ cur.orders[o].items = orders[o].items

HistoryBegun == \A o \in Order : Used(cur.orders[o]) => cur.orders[o].history # <<>>

\* An uncommitted version of an SKU has an owner.
SkusOwned ==
    \A s \in Sku : cur.skus[s] # skus[s] => \E t \in Txn : Holds(t, <<"sku", s>>)

TxnsBalanced == \A t \in Txn : Balanced(txns[t], orders, skus, cur)

LogInv == LinesKept /\ HistoryBegun /\ SkusOwned /\ TxnsBalanced

-----------------------------------------------------------------------------
(* Statements.                                                             *)

LEMMA TodoType ==
  ASSUME IInv, NEW t \in Txn
  PROVE  txns[t].todo \in Seq(Stmt)
BY DEF IInv, Types, TxnsOK, TxnRow

\* Each statement adds what is told of it.
LEMMA StmtBalanced ==
  ASSUME IInv, TxnsBalanced, NEW t \in Txn, NEW op, Ready(t, op),
         NEW inserted \in SUBSET Lock, op = "update_sku" => inserted = {},
         NEW seen \in [Sku -> AnySkuRow], Done(t, inserted, seen), UNCHANGED <<orders, skus>>,
         \A x \in Txn : x # t =>
            /\ \A o \in Order : Holds(x, <<"order", o>>) => cur'.orders[o] = cur.orders[o]
            /\ \A s \in Sku : Holds(x, <<"sku", s>>) => cur'.skus[s] = cur.skus[s],
         \A s \in Sku : Ahead(txns'[t].locks, orders, skus, cur', s)
                          = Ahead(txns[t].locks, orders, skus, cur, s)
                              + Gain(Head(txns[t].todo), orders, s)
  PROVE  TxnsBalanced'
<1>1. /\ \A x \in Txn : x # t => txns'[x] = txns[x]
      /\ txns'[t].todo = Tail(txns[t].todo)
      /\ txns'[t].locks = txns[t].locks \cup Needs(Head(txns[t].todo)) \cup inserted
  BY DoneFacts
<1>2. PICK os, ks, c, d : os = orders /\ ks = skus /\ c = cur /\ d = cur'
  OBVIOUS
<1>3. os \in [Order -> OrderRow]
  BY <1>2 DEF IInv, Types, CommittedOK
<1>4. ASSUME NEW x \in Txn PROVE Balanced(txns'[x], os, ks, d)
  <2>1. PICK y, z : y = txns[x] /\ z = txns'[x]
    OBVIOUS
  <2>2. y.todo \in Seq(Stmt) /\ Balanced(y, os, ks, c)
    BY <1>2, <2>1, TodoType DEF TxnsBalanced
  <2>3. CASE x # t
    <3>1. /\ \A o \in Order : <<"order", o>> \in y.locks =>
               d.orders[o] = c.orders[o] /\ os[o] = os[o]
          /\ \A s \in Sku : <<"sku", s>> \in y.locks => d.skus[s] = c.skus[s] /\ ks[s] = ks[s]
      BY <1>2, <2>1, <2>3 DEF Holds
    <3>2. \A i \in DOMAIN y.todo : y.todo[i].op = "update_order" =>
            os[y.todo[i].order].items = os[y.todo[i].order].items
      OBVIOUS
    <3>3. Balanced(y, os, ks, d)
      BY <2>2, <3>1, <3>2, BalancedSame
    <3> QED  BY <1>1, <2>1, <2>3, <3>3
  <2>4. CASE x = t
    <3>1. y.todo # <<>> /\ z.todo = Tail(y.todo) /\ Head(y.todo).op = op
      BY <1>1, <2>1, <2>4 DEF Ready
    <3>2. op = "update_sku" =>
            \A o \in Order : <<"order", o>> \in z.locks => <<"order", o>> \in y.locks
      <4> SUFFICES ASSUME op = "update_sku", NEW o \in Order, <<"order", o>> \in z.locks
                   PROVE  <<"order", o>> \in y.locks
        OBVIOUS
      <4>1. <<"order", o>> \notin Needs(Head(y.todo))
        BY <3>1 DEF Needs
      <4>2. <<"order", o>> \notin inserted
        OBVIOUS
      <4>3. z.locks = y.locks \cup Needs(Head(y.todo)) \cup inserted
        BY <1>1, <2>1, <2>4
      <4> QED  BY <4>1, <4>2, <4>3
    <3>3. \A s \in Sku : Ahead(z.locks, os, ks, d, s)
                           = Ahead(y.locks, os, ks, c, s) + Gain(Head(y.todo), os, s)
      BY <1>2, <2>1, <2>4
    <3>4. Balanced(z, os, ks, d)
      BY <1>3, <2>2, <3>1, <3>2, <3>3, BalancedStep
    <3> QED  BY <2>1, <3>4
  <2> QED  BY <2>3, <2>4
<1> QED  BY <1>2, <1>4 DEF TxnsBalanced

\* A step that takes locks leaves the owners of the SKUs it does not change.
LEMMA SkusStayOwned ==
  ASSUME SkusOwned, LocksGrow, UNCHANGED skus,
         NEW t \in Txn,
         \A s \in Sku : cur'.skus[s] = cur.skus[s] \/ Holds(t, <<"sku", s>>)'
  PROVE  SkusOwned'
<1> SUFFICES ASSUME NEW s \in Sku, cur'.skus[s] # skus[s]
             PROVE  \E x \in Txn : Holds(x, <<"sku", s>>)'
  BY DEF SkusOwned
<1>1. CASE Holds(t, <<"sku", s>>)'
  BY <1>1
<1>2. CASE cur'.skus[s] = cur.skus[s]
  <2>1. PICK x \in Txn : Holds(x, <<"sku", s>>)
    BY <1>2 DEF SkusOwned
  <2> QED  BY <2>1 DEF Holds, LocksGrow
<1> QED  BY <1>1, <1>2

\* Statements that change neither orders nor stock.
LEMMA QuietLog ==
  ASSUME IInv, LogInv, NEW t \in Txn,
         NEW op \in {"fetch_sku", "delete_cart", "insert_session", "update_session"},
         Ready(t, op), NEW inserted \in SUBSET Lock, NEW seen \in [Sku -> AnySkuRow],
         Done(t, inserted, seen),
         \A o \in Order : <<"order", o>> \notin inserted,
         \A s \in Sku : <<"sku", s>> \notin inserted,
         UNCHANGED <<orders, skus>>, cur'.orders = cur.orders, cur'.skus = cur.skus
  PROVE  LogInv'
<1>1. /\ txns'[t].locks = txns[t].locks \cup Needs(Head(txns[t].todo)) \cup inserted
      /\ LocksGrow
  BY DoneFacts
<1>2. PICK stmt \in Stmt : stmt = Head(txns[t].todo) /\ stmt.op = op
  BY ReadyFacts
<1>3. /\ \A o \in Order : <<"order", o>> \notin Needs(stmt)
      /\ \A s \in Sku : <<"sku", s>> \notin Needs(stmt)
  BY <1>2 DEF Needs
<1>4. PICK ls, ms, c, d, os, ks : /\ ls = txns[t].locks /\ ms = txns'[t].locks
                                  /\ c = cur /\ d = cur' /\ os = orders /\ ks = skus
  OBVIOUS
<1>5. ms = ls \cup Needs(stmt) \cup inserted
  BY <1>1, <1>2, <1>4
<1>6. os \in [Order -> OrderRow] /\ ks \in [Sku -> AnySkuRow]
      /\ c.orders \in [Order -> OrderRow] /\ c.skus \in [Sku -> AnySkuRow]
  BY <1>4 DEF IInv, Types, CommittedOK, NewestOK
<1>7. ASSUME NEW s \in Sku
      PROVE  Ahead(ms, os, ks, d, s) = Ahead(ls, os, ks, c, s) + Gain(stmt, os, s)
  <2>1. \A o \in Order : /\ <<"order", o>> \in ms <=> <<"order", o>> \in ls
                         /\ <<"order", o>> \in ls => d.orders[o] = c.orders[o] /\ os[o] = os[o]
    BY <1>3, <1>4, <1>5
  <2>2. /\ <<"sku", s>> \in ms <=> <<"sku", s>> \in ls
        /\ <<"sku", s>> \in ls => d.skus[s] = c.skus[s] /\ ks[s] = ks[s]
    BY <1>3, <1>4, <1>5
  <2>3. Ahead(ms, os, ks, d, s) = Ahead(ls, os, ks, c, s)
    BY <2>1, <2>2, AheadSame
  <2>4. Ahead(ls, os, ks, c, s) \in Int
    BY <1>6, AheadInt
  <2>5. Gain(stmt, os, s) = 0
    BY <1>2 DEF Gain
  <2> QED  BY <2>3, <2>4, <2>5
<1>8. \A s \in Sku : Ahead(txns'[t].locks, orders, skus, cur', s)
                       = Ahead(txns[t].locks, orders, skus, cur, s)
                           + Gain(Head(txns[t].todo), orders, s)
  BY <1>2, <1>4, <1>7
<1>9. TxnsBalanced'
  <2>1. TxnsBalanced
    BY DEF LogInv
  <2>2. op = "update_sku" => inserted = {}
    OBVIOUS
  <2>3. \A x \in Txn : x # t =>
          /\ \A o \in Order : Holds(x, <<"order", o>>) => cur'.orders[o] = cur.orders[o]
          /\ \A s \in Sku : Holds(x, <<"sku", s>>) => cur'.skus[s] = cur.skus[s]
    OBVIOUS
  <2> QED  BY <1>8, <2>1, <2>2, <2>3, StmtBalanced
<1>10. LinesKept' /\ HistoryBegun'
  BY DEF LogInv, LinesKept, HistoryBegun, Used
<1>11. SkusOwned'
  <2>1. \A s \in Sku : cur'.skus[s] = cur.skus[s] \/ Holds(t, <<"sku", s>>)'
    OBVIOUS
  <2> QED  BY <1>1, <2>1, SkusStayOwned DEF LogInv
<1> QED  BY <1>9, <1>10, <1>11 DEF LogInv

\* A statement writes o, and no other order or SKU; nobody else has its row.
Takes(t, stmt, inserted, o) ==
    /\ <<"order", o>> \in Needs(stmt) \cup inserted
    /\ \A x \in Order : <<"order", x>> \in Needs(stmt) \cup inserted => x = o
    /\ \A s \in Sku : <<"sku", s>> \notin Needs(stmt) \cup inserted
    /\ \A x \in Txn : x # t => ~Holds(x, <<"order", o>>)

\* The new version of o differs from the one before by what stmt adds.
Writes(stmt, o, new) ==
    /\ NewestOK'
    /\ cur'.orders = [cur.orders EXCEPT ![o] = new] /\ cur'.skus = cur.skus
    /\ new.history # <<>>
    /\ Used(orders[o]) => new.items = orders[o].items
    /\ \A s \in Sku : Balance(cur'.orders, o, s) - Balance(cur.orders, o, s)
                        = Gain(stmt, orders, s)

\* Statements that write a version of one order.
LEMMA OrderLog ==
  ASSUME IInv, LogInv, NEW t \in Txn,
         NEW op \in {"insert_order", "update_order", "close_order"}, Ready(t, op),
         NEW stmt \in Stmt, stmt = Head(txns[t].todo),
         NEW inserted \in SUBSET Lock, NEW seen \in [Sku -> AnySkuRow],
         Done(t, inserted, seen), UNCHANGED <<orders, skus>>,
         NEW o \in Order, Takes(t, stmt, inserted, o), NEW new, Writes(stmt, o, new)
  PROVE  LogInv'
<1>0. /\ cur'.orders = [cur.orders EXCEPT ![o] = new] /\ cur'.skus = cur.skus
      /\ NewestOK'
      /\ new.history # <<>> /\ (Used(orders[o]) => new.items = orders[o].items)
      /\ \A s \in Sku : Balance(cur'.orders, o, s) - Balance(cur.orders, o, s)
                          = Gain(stmt, orders, s)
  BY DEF Writes
<1>1. /\ txns'[t].locks = txns[t].locks \cup Needs(stmt) \cup inserted
      /\ LocksGrow
  BY DoneFacts
<1>2. PICK ls, ms, c, d, os, ks : /\ ls = txns[t].locks /\ ms = txns'[t].locks
                                  /\ c = cur /\ d = cur' /\ os = orders /\ ks = skus
  OBVIOUS
<1>3. /\ os \in [Order -> OrderRow] /\ ks \in [Sku -> AnySkuRow]
      /\ c.orders \in [Order -> OrderRow] /\ c.skus \in [Sku -> AnySkuRow]
      /\ d.orders \in [Order -> OrderRow]
  BY <1>0, <1>2 DEF IInv, Types, CommittedOK, NewestOK
<1>4. d.orders[o] = new /\ \A x \in Order \ {o} : d.orders[x] = c.orders[x]
  BY <1>0, <1>2, <1>3
<1>5. <<"order", o>> \notin ls => c.orders[o] = os[o]
  BY <1>2 DEF IInv, OrderVersions, OrdersOwned, Holds, Takes
<1>6. ASSUME NEW s \in Sku
      PROVE  Ahead(ms, os, ks, d, s) = Ahead(ls, os, ks, c, s) + Gain(stmt, os, s)
  <2>1. WritesOrder(ls, ms, os, c, d, o)
    BY <1>0, <1>1, <1>2, <1>4, <1>5 DEF WritesOrder, Takes
  <2>2. TablesOK(os, ks, c) /\ TablesOK(os, ks, d)
    BY <1>0, <1>2, <1>3 DEF TablesOK
  <2>3. Ahead(ms, os, ks, d, s)
          = Ahead(ls, os, ks, c, s) + (Balance(d.orders, o, s) - Balance(c.orders, o, s))
    BY <2>1, <2>2, AheadOrder
  <2> QED  BY <1>0, <1>2, <2>3
<1>7. \A s \in Sku : Ahead(txns'[t].locks, orders, skus, cur', s)
                       = Ahead(txns[t].locks, orders, skus, cur, s)
                           + Gain(Head(txns[t].todo), orders, s)
  BY <1>2, <1>6
<1>8. TxnsBalanced'
  <2>1. TxnsBalanced
    BY DEF LogInv
  <2>2. op = "update_sku" => inserted = {}
    OBVIOUS
  <2>3. \A x \in Txn : x # t =>
          /\ \A y \in Order : Holds(x, <<"order", y>>) => cur'.orders[y] = cur.orders[y]
          /\ \A s \in Sku : Holds(x, <<"sku", s>>) => cur'.skus[s] = cur.skus[s]
    BY <1>0, <1>2, <1>4 DEF Takes
  <2> QED  BY <1>7, <2>1, <2>2, <2>3, StmtBalanced
<1>9. LinesKept'
  BY <1>0, <1>2, <1>4 DEF LogInv, LinesKept, Used
<1>10. HistoryBegun'
  BY <1>0, <1>2, <1>4 DEF LogInv, HistoryBegun, Used
<1>11. SkusOwned'
  <2>1. \A s \in Sku : cur'.skus[s] = cur.skus[s] \/ Holds(t, <<"sku", s>>)'
    BY <1>0
  <2> QED  BY <1>1, <2>1, SkusStayOwned DEF LogInv
<1> QED  BY <1>8, <1>9, <1>10, <1>11 DEF LogInv

LEMMA ChangeLogged ==
  ASSUME NEW row \in AnySkuRow, NEW q \in Int,
         NEW how \in {"lock", "release", "finalize", "adjust"}
  PROVE  Change(how, row, q).logged
           = row.logged + (CASE how = "lock" -> -q [] how = "finalize" -> 0 [] OTHER -> q)
<1>1. Locked(row, q).logged = row.logged - q
  BY DEF Locked, AnySkuRow
<1>2. Released(row, q).logged = row.logged + q
  BY DEF Released, AnySkuRow
<1>3. Finalized(row, q).logged = row.logged
  BY DEF Finalized, AnySkuRow
<1>4. Adjusted(row, q).logged = row.logged + q
  BY DEF Adjusted, AnySkuRow
<1>5. row.logged \in Int
  BY DEF AnySkuRow
<1> QED  BY <1>1, <1>2, <1>3, <1>4, <1>5 DEF Change

LEMMA ExecUpdateSkuLog ==
  ASSUME IInv, LogInv, NEW t \in Txn, ExecUpdateSku(t)
  PROVE  LogInv'
<1>1. PICK stmt \in Stmt, seen \in [Sku -> AnySkuRow] :
        stmt = Head(txns[t].todo) /\ seen = txns[t].seen /\ stmt.op = "update_sku"
  BY ReadyFacts, SeenType DEF ExecUpdateSku
<1>2. stmt.sku \in Sku /\ stmt.how \in {"lock", "release", "finalize", "adjust"}
      /\ stmt.qty \in Int
  BY <1>1 DEF Stmt, PlainStmt, PaidStmt, SettleStmt
<1>3. PICK z \in Sku, q \in Int, how \in {"lock", "release", "finalize", "adjust"} :
        z = stmt.sku /\ q = stmt.qty /\ how = stmt.how
  BY <1>2
<1>4. PICK old \in AnySkuRow, new \in AnySkuRow :
        old = seen[z] /\ new = Change(how, old, q)
  BY ChangeType
<1>5. PICK ls, ms, c, d, os, ks : /\ ls = txns[t].locks /\ ms = txns'[t].locks
                                  /\ c = cur /\ d = cur' /\ os = orders /\ ks = skus
  OBVIOUS
<1>6. /\ os \in [Order -> OrderRow] /\ ks \in [Sku -> AnySkuRow]
      /\ c \in [orders : [Order -> OrderRow], skus : [Sku -> AnySkuRow],
                sessions : [Session -> SessionRow], cart : CartTable]
  BY <1>5 DEF IInv, Types, CommittedOK, NewestOK
<1> DEFINE Column(k) == IF new[k] # old[k] THEN new[k] ELSE c.skus[z][k]
           row == [stock |-> Column("stock"), locked |-> Column("locked"),
                   sold |-> Column("sold"),
                   logged |-> c.skus[z].logged + (new.logged - old.logged)]
<1>7. /\ Ready(t, "update_sku") /\ UNCHANGED vars
      /\ Done(t, {}, [seen EXCEPT ![z] = new])
  BY <1>1, <1>3, <1>4 DEF ExecUpdateSku
<1>8. d = [c EXCEPT !.skus[z] = row]
  BY <1>1, <1>3, <1>4, <1>5, <1>6 DEF ExecUpdateSku
<1>9. row \in AnySkuRow /\ row.logged = c.skus[z].logged + (new.logged - old.logged)
  BY <1>6 DEF AnySkuRow
<1> HIDE DEF row
<1>10. /\ d.orders = c.orders /\ d.skus \in [Sku -> AnySkuRow] /\ d.skus[z] = row
       /\ \A x \in Sku \ {z} : d.skus[x] = c.skus[x]
  BY <1>6, <1>8, <1>9
<1>11. PICK now \in [Sku -> AnySkuRow] : now = [seen EXCEPT ![z] = new]
  OBVIOUS
<1>12. txns'[t].locks = txns[t].locks \cup Needs(stmt) \cup {} /\ LocksGrow
  <2>1. {} \in SUBSET Lock /\ Done(t, {}, now)
    BY <1>7, <1>11
  <2> QED  BY <1>1, <1>7, <2>1, DoneFacts
<1>13. Needs(stmt) = {<<"sku", z>>}
  BY <1>1, <1>3 DEF Needs
<1>14. \A x \in Txn : x # t => ~Holds(x, <<"sku", z>>)
  BY <1>1, <1>7, <1>13, ReadyFacts DEF Holds
<1>15. <<"sku", z>> \notin ls => c.skus[z] = ks[z]
  BY <1>5, <1>14 DEF LogInv, SkusOwned, Holds
<1>16. ASSUME NEW s \in Sku
       PROVE  Ahead(ms, os, ks, d, s) = Ahead(ls, os, ks, c, s) + Gain(stmt, os, s)
  <2>1. WritesSku(ls, ms, ks, c, d, z)
    BY <1>5, <1>10, <1>12, <1>13, <1>15 DEF WritesSku
  <2>2. TablesOK(os, ks, c) /\ TablesOK(os, ks, d)
    BY <1>6, <1>10 DEF TablesOK
  <2>4. Ahead(ms, os, ks, d, s)
          = Ahead(ls, os, ks, c, s) - (d.skus[s].logged - c.skus[s].logged)
    BY <2>1, <2>2, AheadSku
  <2>5. PICK a \in Int : a = Ahead(ls, os, ks, c, s)
    BY <1>6, AheadInt
  <2>6. PICK m \in Int : m = c.skus[s].logged
    BY <1>6 DEF AnySkuRow
  <2>7. PICK g \in Int : g = Gain(stmt, os, s)
    BY <1>6, GainsInt
  <2>8. d.skus[s].logged = m - g
    <3>1. CASE s # z
      BY <1>1, <1>3, <1>10, <2>6, <2>7, <3>1 DEF Gain
    <3>2. CASE s = z
      <4>1. PICK k \in Int : k = old.logged
        BY DEF AnySkuRow
      <4>2. new.logged = k + (CASE how = "lock" -> -q [] how = "finalize" -> 0 [] OTHER -> q)
        BY <1>4, <4>1, ChangeLogged
      <4>3. g = IF how = "finalize" THEN 0 ELSE IF how = "lock" THEN q ELSE -q
        BY <1>1, <1>3, <2>7, <3>2 DEF Gain
      <4>4. new.logged = k - g
        BY <4>2, <4>3
      <4>5. d.skus[s].logged = m + (new.logged - k)
        BY <1>9, <1>10, <2>6, <3>2, <4>1
      <4> QED  BY <4>4, <4>5
    <3> QED  BY <3>1, <3>2
  <2> QED  BY <2>4, <2>5, <2>6, <2>7, <2>8
<1>17. TxnsBalanced'
  <2>1. TxnsBalanced
    BY DEF LogInv
  <2>2. {} \in SUBSET Lock /\ Done(t, {}, now) /\ UNCHANGED <<orders, skus>>
    BY <1>7, <1>11 DEF vars
  <2>3. \A x \in Txn : x # t =>
          /\ \A o \in Order : Holds(x, <<"order", o>>) => cur'.orders[o] = cur.orders[o]
          /\ \A s \in Sku : Holds(x, <<"sku", s>>) => cur'.skus[s] = cur.skus[s]
    BY <1>5, <1>10, <1>14
  <2>4. \A s \in Sku : Ahead(txns'[t].locks, orders, skus, cur', s)
                         = Ahead(txns[t].locks, orders, skus, cur, s)
                             + Gain(Head(txns[t].todo), orders, s)
    BY <1>1, <1>5, <1>16
  <2> QED  BY <1>7, <2>1, <2>2, <2>3, <2>4, StmtBalanced
<1>18. LinesKept' /\ HistoryBegun'
  BY <1>5, <1>7, <1>10 DEF LogInv, LinesKept, HistoryBegun, Used, vars
<1>19. SkusOwned'
  <2>1. \A s \in Sku : cur'.skus[s] = cur.skus[s] \/ Holds(t, <<"sku", s>>)'
    BY <1>5, <1>10, <1>12, <1>13 DEF Holds
  <2> QED  BY <1>7, <1>12, <2>1, SkusStayOwned DEF LogInv, vars
<1> QED  BY <1>17, <1>18, <1>19 DEF LogInv

\* An order that a statement names is in use.
LEMMA NamedOrder ==
  ASSUME IInv, LogInv, NEW t \in Txn, NEW op \in {"update_order", "close_order"}, Ready(t, op),
         NEW stmt, stmt = Head(txns[t].todo), NEW o \in Order, o = stmt.order
  PROVE  /\ cur.orders[o].history # <<>>
         /\ cur.orders[o].items = orders[o].items
         /\ Takes(t, stmt, {}, o)
<1>1. stmt.op = op /\ Grounded(stmt) /\ \A x \in Txn : x # t => Needs(stmt) \cap txns[x].locks = {}
  BY ReadyFacts
<1>2. Used(orders[o])
  BY <1>1 DEF Grounded
<1>3. Used(cur.orders[o])
  BY <1>2 DEF IInv, OrderVersions, OrdersGrow
<1>4. /\ <<"order", o>> \in Needs(stmt)
      /\ \A x \in Order : <<"order", x>> \in Needs(stmt) => x = o
      /\ \A s \in Sku : <<"sku", s>> \notin Needs(stmt)
  BY <1>1 DEF Needs
<1>5. \A x \in Txn : x # t => ~Holds(x, <<"order", o>>)
  BY <1>1, <1>4 DEF Holds
<1>6. Takes(t, stmt, {}, o)
  BY <1>4, <1>5 DEF Takes
<1> QED  BY <1>2, <1>3, <1>6 DEF LogInv, LinesKept, HistoryBegun

LEMMA ExecCloseOrderLog ==
  ASSUME IInv, LogInv, IInv', NEW t \in Txn, ExecCloseOrder(t)
  PROVE  LogInv'
<1>1. Ready(t, "close_order") /\ Done(t, {}, txns[t].seen) /\ UNCHANGED <<orders, skus>>
  BY DEF ExecCloseOrder, vars
<1>2. PICK stmt \in Stmt, seen \in [Sku -> AnySkuRow] :
        stmt = Head(txns[t].todo) /\ seen = txns[t].seen /\ stmt.op = "close_order"
  BY <1>1, ReadyFacts, SeenType
<1>3. PICK o \in Order : o = stmt.order
  BY <1>2 DEF Stmt, PlainStmt, PaidStmt, SettleStmt
<1>4. /\ cur.orders[o].history # <<>> /\ cur.orders[o].items = orders[o].items
      /\ Takes(t, stmt, {}, o)
  <2>1. PICK op \in {"update_order", "close_order"} : op = "close_order"
    OBVIOUS
  <2>2. Ready(t, op)
    BY <1>1, <2>1
  <2> QED  BY <1>2, <1>3, <2>2, NamedOrder
<1>5. PICK row \in OrderRow : row = cur.orders[o]
  BY DEF IInv, Types, NewestOK
<1> DEFINE new == [row EXCEPT !.status = "closed"]
<1>6. new.history = row.history /\ new.items = row.items
  BY DEF OrderRow
<1>7. NewestOK /\ NewestOK' /\ CommittedOK
  BY DEF IInv, Types
<1>8. cur'.orders = [cur.orders EXCEPT ![o] = new] /\ cur'.skus = cur.skus
  BY <1>2, <1>3, <1>5, <1>7 DEF ExecCloseOrder, NewestOK
<1> HIDE DEF new
<1>9. cur'.orders[o] = new
  BY <1>7, <1>8 DEF NewestOK
<1>10. ASSUME NEW s \in Sku
       PROVE  Balance(cur'.orders, o, s) - Balance(cur.orders, o, s) = Gain(stmt, orders, s)
  <2>1. PICK a, b : a = cur.orders /\ b = cur'.orders
    OBVIOUS
  <2>2. Balance(b, o, s) = Balance(a, o, s)
    BY <1>5, <1>6, <1>9, <2>1 DEF Balance
  <2>3. Balance(a, o, s) \in Int
    BY <1>5, <2>1, BalanceInt
  <2>4. Gain(stmt, orders, s) = 0
    BY <1>2 DEF Gain
  <2> QED  BY <2>1, <2>2, <2>3, <2>4
<1>11. {} \in SUBSET Lock /\ Done(t, {}, seen)
  BY <1>1, <1>2
<1>12. PICK none \in SUBSET Lock : none = {} /\ Done(t, none, seen)
  BY <1>11
<1>13. Takes(t, stmt, none, o)
  BY <1>4, <1>12
<1>14. Writes(stmt, o, new)
  BY <1>4, <1>5, <1>6, <1>7, <1>8, <1>10 DEF Writes
<1>15. PICK op \in {"insert_order", "update_order", "close_order"} : Ready(t, op)
  BY <1>1
<1> QED  BY <1>1, <1>2, <1>12, <1>13, <1>14, <1>15, OrderLog

LEMMA ExecUpdateOrderLog ==
  ASSUME IInv, LogInv, IInv', NEW t \in Txn, ExecUpdateOrder(t)
  PROVE  LogInv'
<1>1. Ready(t, "update_order") /\ Done(t, {}, txns[t].seen) /\ UNCHANGED <<orders, skus>>
  BY DEF ExecUpdateOrder, vars
<1>2. PICK stmt \in Stmt, seen \in [Sku -> AnySkuRow] :
        stmt = Head(txns[t].todo) /\ seen = txns[t].seen /\ stmt.op = "update_order"
  BY <1>1, ReadyFacts, SeenType
<1>3. PICK o \in Order : o = stmt.order
  BY <1>2 DEF Stmt, PlainStmt, PaidStmt, SettleStmt
<1>4. /\ cur.orders[o].history # <<>> /\ cur.orders[o].items = orders[o].items
      /\ Takes(t, stmt, {}, o)
  <2>1. PICK op \in {"update_order", "close_order"} : op = "update_order"
    OBVIOUS
  <2>2. Ready(t, op)
    BY <1>1, <2>1
  <2> QED  BY <1>2, <1>3, <2>2, NamedOrder
<1>5. PICK row \in OrderRow : row = cur.orders[o]
  BY DEF IInv, Types, NewestOK
<1> DEFINE entry == [from |-> stmt.from, to |-> stmt.to]
           moved == [row EXCEPT !.status = stmt.to, !.history = Append(@, entry)]
           freed == [moved EXCEPT !.reason = stmt.why, !.key = NoKey]
           new == IF stmt.to = "cancelled" THEN freed ELSE moved
<1>6. new.history = Append(row.history, entry) /\ new.items = row.items
  <2>1. moved.history = Append(row.history, entry) /\ moved.items = row.items
    <3> HIDE DEF entry
    <3> QED  BY DEF OrderRow
  <2>2. freed.history = moved.history /\ freed.items = moved.items
    <3> HIDE DEF entry
    <3> QED  BY DEF OrderRow
  <2> HIDE DEF moved, freed, entry
  <2> QED  BY <2>1, <2>2
<1>7. NewestOK /\ NewestOK' /\ CommittedOK
  BY DEF IInv, Types
<1>8. cur' = [cur EXCEPT !.orders[o] = new]
  BY <1>2, <1>3, <1>5 DEF ExecUpdateOrder
<1>9. entry.to = stmt.to
  OBVIOUS
<1> HIDE DEF new, entry
<1>10. cur'.orders = [cur.orders EXCEPT ![o] = new] /\ cur'.skus = cur.skus
  BY <1>7, <1>8 DEF NewestOK
<1>11. cur'.orders[o] = new
  BY <1>7, <1>10 DEF NewestOK
<1>12. ASSUME NEW s \in Sku
       PROVE  Balance(cur'.orders, o, s) - Balance(cur.orders, o, s) = Gain(stmt, orders, s)
  <2>1. PICK a, b : a = cur.orders /\ b = cur'.orders
    OBVIOUS
  <2>2. /\ a[o] \in OrderRow /\ a[o].history # <<>> /\ b[o].items = a[o].items
        /\ b[o].history = Append(a[o].history, entry)
    BY <1>4, <1>5, <1>6, <1>11, <2>1
  <2>3. Balance(b, o, s)
          = Balance(a, o, s) + (IF entry.to = "cancelled" THEN a[o].items[s] ELSE 0)
    <3>1. PICK e : e = entry
      OBVIOUS
    <3>2. Advanced(a, b, o, e)
      BY <2>2, <3>1 DEF Advanced
    <3>3. Balance(b, o, s)
            = Balance(a, o, s) + (IF e.to = "cancelled" THEN a[o].items[s] ELSE 0)
      BY <2>2, <3>2, BalanceMoves
    <3> QED  BY <3>1, <3>3
  <2>4. Balance(a, o, s) \in Int
    BY <2>2, BalanceInt
  <2>5. a[o].items[s] \in Int
    BY <2>2 DEF OrderRow
  <2>6. Gain(stmt, orders, s) = IF entry.to = "cancelled" THEN a[o].items[s] ELSE 0
    BY <1>2, <1>3, <1>4, <1>9, <2>1 DEF Gain
  <2> QED  BY <2>1, <2>3, <2>4, <2>5, <2>6
<1>13. PICK none \in SUBSET Lock : none = {} /\ Done(t, none, seen)
  BY <1>1, <1>2
<1>14. Takes(t, stmt, none, o)
  BY <1>4, <1>13
<1>15. new.history # <<>> /\ (Used(orders[o]) => new.items = orders[o].items)
  <2>1. PICK S : row.history \in Seq(S)
    BY DEF OrderRow
  <2>2. PICK h \in Seq(S) : h = row.history
    BY <2>1
  <2>3. Append(h, entry) # <<>>
    OBVIOUS
  <2> QED  BY <1>4, <1>5, <1>6, <2>2, <2>3
<1>16. Writes(stmt, o, new)
  BY <1>7, <1>10, <1>12, <1>15 DEF Writes
<1>17. PICK op \in {"insert_order", "update_order", "close_order"} : Ready(t, op)
  BY <1>1
<1> QED  BY <1>1, <1>2, <1>13, <1>14, <1>16, <1>17, OrderLog

LEMMA InsertLog ==
  ASSUME IInv, LogInv, IInv', NEW t \in Txn, Ready(t, "insert_order"),
         StoreOrder(t, Head(txns[t].todo)), UNCHANGED <<orders, skus>>
  PROVE  LogInv'
<1>1. PICK stmt \in Stmt, seen \in [Sku -> AnySkuRow] :
        stmt = Head(txns[t].todo) /\ seen = txns[t].seen /\ stmt.op = "insert_order"
  BY ReadyFacts, SeenType
<1>2. PICK o \in FreeOrders : cur' = [cur EXCEPT !.orders[o] = stmt.row]
                               /\ Done(t, {<<"order", o>>}, seen)
  BY <1>1 DEF StoreOrder
<1>3. o \in Order /\ ~Used(cur.orders[o])
  BY <1>2 DEF FreeOrders, Used
<1>4. stmt.row \in PlacedRow
  BY <1>1 DEF Stmt, PlainStmt, PaidStmt, SettleStmt
<1>5. PICK new \in PlacedRow : new = stmt.row
  BY <1>4
<1>6. NewestOK /\ NewestOK'
  BY DEF IInv, Types
<1>7. cur'.orders = [cur.orders EXCEPT ![o] = new] /\ cur'.skus = cur.skus
  BY <1>2, <1>3, <1>5, <1>6 DEF NewestOK
<1>8. cur'.orders[o] = new
  BY <1>3, <1>6, <1>7 DEF NewestOK
<1>9. Needs(stmt) = {<<"key", new.user, new.key>>}
  BY <1>1, <1>5 DEF Needs
<1>10. PICK inserted \in SUBSET Lock : inserted = {<<"order", o>>} /\ Done(t, inserted, seen)
  BY <1>2, <1>3 DEF Lock
<1>11. \A x \in Txn : x # t => ~Holds(x, <<"order", o>>)
  BY <1>3 DEF IInv, Locking, LockedIsUsed
<1>12. Takes(t, stmt, inserted, o)
  BY <1>9, <1>10, <1>11 DEF Takes
<1>13. /\ cur.orders[o].history = <<>>
       /\ ~Used(orders[o])
  BY <1>3 DEF IInv, OrderVersions, OrdersBlank, OrdersGrow
<1>14. PICK e : new.history = <<e>> /\ e.to # "cancelled" /\ new \in OrderRow
  BY DEF PlacedRow
<1>15. ASSUME NEW s \in Sku
       PROVE  Balance(cur'.orders, o, s) - Balance(cur.orders, o, s) = Gain(stmt, orders, s)
  <2>1. PICK a, b : a = cur.orders /\ b = cur'.orders
    OBVIOUS
  <2>2. b[o] \in OrderRow /\ b[o].history = <<e>>
    BY <1>8, <1>14, <2>1
  <2>3. Balance(b, o, s) = -b[o].items[s]
    BY <1>14, <2>2, BalanceNew
  <2>4. Balance(a, o, s) = 0
    BY <1>13, <2>1 DEF Balance
  <2>5. Gain(stmt, orders, s) = -new.items[s]
    BY <1>1, <1>5 DEF Gain
  <2>6. new.items[s] \in Int
    BY <1>14 DEF OrderRow
  <2> QED  BY <1>8, <2>1, <2>3, <2>4, <2>5, <2>6
<1>16. Writes(stmt, o, new)
  BY <1>6, <1>7, <1>13, <1>14, <1>15 DEF Writes
<1>17. PICK op \in {"insert_order", "update_order", "close_order"} : Ready(t, op)
  OBVIOUS
<1> QED  BY <1>1, <1>3, <1>10, <1>12, <1>16, <1>17, OrderLog

\* Statements that touch no order and no SKU.
LEMMA ExecQuietLog ==
  ASSUME IInv, LogInv, NEW t \in Txn,
         ExecFetchSku(t) \/ ExecDeleteCart(t) \/ ExecUpdateSession(t)
  PROVE  LogInv'
<1> DEFINE Quiet == {"fetch_sku", "delete_cart", "insert_session", "update_session"}
<1>1. NewestOK /\ txns[t].seen \in [Sku -> AnySkuRow]
  BY SeenType DEF IInv, Types
<1>2. cur'.orders = cur.orders /\ cur'.skus = cur.skus /\ UNCHANGED <<orders, skus>>
  BY <1>1 DEF ExecFetchSku, ExecDeleteCart, ExecUpdateSession, NewestOK, vars
<1>3. PICK op \in Quiet, seen \in [Sku -> AnySkuRow] : Ready(t, op) /\ Done(t, {}, seen)
  <2>1. CASE ExecFetchSku(t)
    <3> DEFINE s == Head(txns[t].todo).sku
               seen == [txns[t].seen EXCEPT ![s] = Visible(t, s)]
    <3>1. Ready(t, "fetch_sku") /\ Done(t, {}, seen)
      BY <2>1 DEF ExecFetchSku
    <3>2. s \in Sku
      <4>1. Head(txns[t].todo) \in Stmt /\ Head(txns[t].todo).op = "fetch_sku"
        BY <3>1, ReadyFacts
      <4> QED  BY <4>1 DEF Stmt, PlainStmt, PaidStmt, SettleStmt
    <3>3. Visible(t, s) \in AnySkuRow
      BY <3>2 DEF Visible, IInv, Types, CommittedOK, NewestOK
    <3>4. seen \in [Sku -> AnySkuRow]
      BY <1>1, <3>3
    <3> HIDE DEF seen
    <3> QED  BY <3>1, <3>4
  <2>2. CASE ExecDeleteCart(t)
    BY <1>1, <2>2 DEF ExecDeleteCart
  <2>3. CASE ExecUpdateSession(t)
    BY <1>1, <2>3 DEF ExecUpdateSession
  <2> QED  BY <2>1, <2>2, <2>3
<1>4. PICK none \in SUBSET Lock : none = {} /\ Done(t, none, seen)
  BY <1>3
<1>5. (\A o \in Order : <<"order", o>> \notin none) /\ (\A s \in Sku : <<"sku", s>> \notin none)
  BY <1>4
<1> QED  BY <1>2, <1>3, <1>4, <1>5, QuietLog

LEMMA InsertSessionLog ==
  ASSUME IInv, LogInv, NEW t \in Txn, Ready(t, "insert_session"),
         StoreSession(t, Head(txns[t].todo).order), UNCHANGED vars
  PROVE  LogInv'
<1> DEFINE Quiet == {"fetch_sku", "delete_cart", "insert_session", "update_session"}
<1>1. NewestOK
  BY DEF IInv, Types
<1>2. PICK p \in Session, seen \in [Sku -> AnySkuRow] :
        /\ cur' = [cur EXCEPT !.sessions[p] = [order |-> Head(txns[t].todo).order,
                                               status |-> "pending"]]
        /\ Done(t, {<<"session", p>>}, seen)
  BY SeenType DEF StoreSession, FreeSessions
<1>3. PICK inserted \in SUBSET Lock : inserted = {<<"session", p>>} /\ Done(t, inserted, seen)
  BY <1>2 DEF Lock
<1>4. (\A o \in Order : <<"order", o>> \notin inserted)
      /\ (\A s \in Sku : <<"sku", s>> \notin inserted)
  BY <1>3
<1>5. cur'.orders = cur.orders /\ cur'.skus = cur.skus /\ UNCHANGED <<orders, skus>>
  BY <1>1, <1>2 DEF NewestOK, vars
<1>6. PICK op \in Quiet : Ready(t, op)
  OBVIOUS
<1> QED  BY <1>3, <1>4, <1>5, <1>6, QuietLog

-----------------------------------------------------------------------------
(* The ends of a transaction, and steps aside.                             *)

\* An ended transaction owes nothing.
LEMMA EndedBalanced ==
  ASSUME NEW x, x.todo = <<>>, x.locks = {}, NEW os, NEW ks, NEW c
  PROVE  Balanced(x, os, ks, c)
BY DEF Balanced, Adjusting

LEMMA AbortLog ==
  ASSUME IInv, LogInv, NEW t \in Txn, Undo(t), txns' = [txns EXCEPT ![t] = Idle],
         UNCHANGED <<orders, skus>>
  PROVE  LogInv'
<1>1. /\ \A x \in Txn : x # t => txns'[x] = txns[x]
      /\ txns'[t].todo = <<>> /\ txns'[t].locks = {}
  BY EndedFacts
<1>2. \A o \in Order :
        cur'.orders[o] = IF Holds(t, <<"order", o>>) THEN orders[o] ELSE cur.orders[o]
  BY UndoFacts
<1>3. \A s \in Sku :
        cur'.skus[s] = IF Holds(t, <<"sku", s>>) THEN skus[s] ELSE cur.skus[s]
  BY DEF Undo
<1>4. \A x \in Txn : \A r : x # t /\ r \in txns[x].locks => ~Holds(t, r)
  BY DEF IInv, Locking, LocksExclusive, Holds
<1>5. PICK os, ks, c, d : os = orders /\ ks = skus /\ c = cur /\ d = cur'
  OBVIOUS
<1>6. ASSUME NEW x \in Txn PROVE Balanced(txns'[x], os, ks, d)
  <2>1. CASE x = t
    <3>1. PICK y : y = txns'[x]
      OBVIOUS
    <3>2. y.todo = <<>> /\ y.locks = {}
      BY <1>1, <2>1, <3>1
    <3>3. Balanced(y, os, ks, d)
      BY <3>2, EndedBalanced
    <3> QED  BY <3>1, <3>3
  <2>2. CASE x # t
    <3>1. PICK y : y = txns[x]
      OBVIOUS
    <3>2. y.todo \in Seq(Stmt) /\ Balanced(y, os, ks, c)
      BY <1>5, <3>1, TodoType DEF LogInv, TxnsBalanced
    <3>3. /\ \A o \in Order : <<"order", o>> \in y.locks =>
               d.orders[o] = c.orders[o] /\ os[o] = os[o]
          /\ \A s \in Sku : <<"sku", s>> \in y.locks => d.skus[s] = c.skus[s] /\ ks[s] = ks[s]
      BY <1>2, <1>3, <1>4, <1>5, <2>2, <3>1
    <3>4. \A i \in DOMAIN y.todo : y.todo[i].op = "update_order" =>
            os[y.todo[i].order].items = os[y.todo[i].order].items
      OBVIOUS
    <3>5. Balanced(y, os, ks, d)
      BY <3>2, <3>3, <3>4, BalancedSame
    <3> QED  BY <1>1, <2>2, <3>1, <3>5
  <2> QED  BY <2>1, <2>2
<1>7. TxnsBalanced'
  BY <1>5, <1>6 DEF TxnsBalanced
<1>8. LinesKept'
  BY <1>2 DEF LogInv, LinesKept, Used
<1>9. HistoryBegun'
  BY <1>2 DEF LogInv, LinesKept, HistoryBegun, Used
<1>10. SkusOwned'
  <2> SUFFICES ASSUME NEW s \in Sku, cur'.skus[s] # skus[s]
               PROVE  \E x \in Txn : Holds(x, <<"sku", s>>)'
    BY DEF SkusOwned
  <2>1. ~Holds(t, <<"sku", s>>) /\ cur.skus[s] # skus[s]
    BY <1>3
  <2>2. PICK x \in Txn : Holds(x, <<"sku", s>>)
    BY <2>1 DEF LogInv, SkusOwned
  <2> QED  BY <1>1, <2>1, <2>2 DEF Holds
<1> QED  BY <1>7, <1>8, <1>9, <1>10 DEF LogInv

LEMMA PublishLog ==
  ASSUME IInv, LogInv, NEW t \in Txn, Publish(t)
  PROVE  LogInv'
<1>1. /\ \A x \in Txn : x # t => txns'[x] = txns[x]
      /\ txns'[t].todo = <<>> /\ txns'[t].locks = {}
  BY EndedFacts DEF Publish
<1>2. /\ cur' = cur
      /\ \A o \in Order :
           orders'[o] = IF Holds(t, <<"order", o>>) THEN cur.orders[o] ELSE orders[o]
  BY PublishFacts
<1>3. \A s \in Sku : skus'[s] = IF Holds(t, <<"sku", s>>) THEN cur.skus[s] ELSE skus[s]
  BY DEF Publish
<1>4. \A x \in Txn : \A r : x # t /\ r \in txns[x].locks => ~Holds(t, r)
  BY DEF IInv, Locking, LocksExclusive, Holds
<1>5. PICK os, ps, ks, js, c : os = orders /\ ps = orders' /\ ks = skus /\ js = skus' /\ c = cur
  OBVIOUS
<1>6. ASSUME NEW o \in Order, Used(os[o]) PROVE ps[o].items = os[o].items
  BY <1>2, <1>5, <1>6 DEF LogInv, LinesKept
<1>7. ASSUME NEW x \in Txn PROVE Balanced(txns'[x], ps, js, c)
  <2>1. CASE x = t
    <3>1. PICK y : y = txns'[x]
      OBVIOUS
    <3>2. y.todo = <<>> /\ y.locks = {}
      BY <1>1, <2>1, <3>1
    <3>3. Balanced(y, ps, js, c)
      BY <3>2, EndedBalanced
    <3> QED  BY <3>1, <3>3
  <2>2. CASE x # t
    <3>1. PICK y : y = txns[x]
      OBVIOUS
    <3>2. y.todo \in Seq(Stmt) /\ Balanced(y, os, ks, c)
      BY <1>5, <3>1, TodoType DEF LogInv, TxnsBalanced
    <3>3. /\ \A o \in Order : <<"order", o>> \in y.locks =>
               c.orders[o] = c.orders[o] /\ ps[o] = os[o]
          /\ \A s \in Sku : <<"sku", s>> \in y.locks => c.skus[s] = c.skus[s] /\ js[s] = ks[s]
      BY <1>2, <1>3, <1>4, <1>5, <2>2, <3>1
    <3>4. \A i \in DOMAIN y.todo : y.todo[i].op = "update_order" =>
            ps[y.todo[i].order].items = os[y.todo[i].order].items
      <4> SUFFICES ASSUME NEW i \in DOMAIN y.todo, y.todo[i].op = "update_order"
                   PROVE  ps[y.todo[i].order].items = os[y.todo[i].order].items
        OBVIOUS
      <4>1. PICK stmt \in Stmt : stmt = y.todo[i]
        BY <3>2
      <4>2. PICK o \in Order : o = stmt.order
        BY <4>1 DEF Stmt, PlainStmt, PaidStmt, SettleStmt
      <4>3. Used(os[o])
        BY <1>5, <3>1, <4>1, <4>2 DEF IInv, Charges, StmtsGrounded, Grounded
      <4> QED  BY <1>6, <4>1, <4>2, <4>3
    <3>5. Balanced(y, ps, js, c)
      BY <3>2, <3>3, <3>4, BalancedSame
    <3> QED  BY <1>1, <2>2, <3>1, <3>5
  <2> QED  BY <2>1, <2>2
<1>8. TxnsBalanced'
  BY <1>2, <1>5, <1>7 DEF TxnsBalanced
<1>9. LinesKept'
  BY <1>2 DEF LogInv, LinesKept, HistoryBegun, Used
<1>10. HistoryBegun'
  BY <1>2 DEF LogInv, HistoryBegun, Used
<1>11. SkusOwned'
  <2> SUFFICES ASSUME NEW s \in Sku, cur.skus[s] # skus'[s]
               PROVE  \E x \in Txn : Holds(x, <<"sku", s>>)'
    BY <1>2 DEF SkusOwned
  <2>1. ~Holds(t, <<"sku", s>>) /\ cur.skus[s] # skus[s]
    BY <1>3
  <2>2. PICK x \in Txn : Holds(x, <<"sku", s>>)
    BY <2>1 DEF LogInv, SkusOwned
  <2> QED  BY <1>1, <2>1, <2>2 DEF Holds
<1> QED  BY <1>8, <1>9, <1>10, <1>11 DEF LogInv

LEMMA AsideLog ==
  ASSUME IInv, LogInv, UNCHANGED <<orders, skus, txns>>,
         cur'.orders = cur.orders, cur'.skus = cur.skus
  PROVE  LogInv'
<1>1. PICK os, ks, c, d : os = orders /\ ks = skus /\ c = cur /\ d = cur'
  OBVIOUS
<1>2. ASSUME NEW x \in Txn PROVE Balanced(txns'[x], os, ks, d)
  <2>1. PICK y : y = txns[x]
    OBVIOUS
  <2>2. y.todo \in Seq(Stmt) /\ Balanced(y, os, ks, c)
    BY <1>1, <2>1, TodoType DEF LogInv, TxnsBalanced
  <2>3. /\ \A o \in Order : <<"order", o>> \in y.locks =>
             d.orders[o] = c.orders[o] /\ os[o] = os[o]
        /\ \A s \in Sku : <<"sku", s>> \in y.locks => d.skus[s] = c.skus[s] /\ ks[s] = ks[s]
    BY <1>1
  <2>4. \A i \in DOMAIN y.todo : y.todo[i].op = "update_order" =>
          os[y.todo[i].order].items = os[y.todo[i].order].items
    OBVIOUS
  <2>5. Balanced(y, os, ks, d)
    BY <2>2, <2>3, <2>4, BalancedSame
  <2> QED  BY <2>1, <2>5
<1>3. TxnsBalanced'
  BY <1>1, <1>2 DEF TxnsBalanced
<1>4. LinesKept' /\ HistoryBegun'
  BY DEF LogInv, LinesKept, HistoryBegun, Used
<1>5. SkusOwned'
  BY DEF LogInv, SkusOwned, Holds
<1> QED  BY <1>3, <1>4, <1>5 DEF LogInv

-----------------------------------------------------------------------------
(* The statements a request begins with make up for each other.            *)

LEMMA GroundedGains ==
  ASSUME CommittedOK, NEW s \in Sku
  PROVE  \A stmt \in GroundedStmt : /\ Gains(orders, s)[stmt] = Gain(stmt, orders, s)
                                    /\ Gains(orders, s)[stmt] \in Int
<1>1. GroundedStmt \subseteq Stmt
  BY DEF GroundedStmt, Stmt
<1>2. PICK os \in [Order -> OrderRow] : os = orders
  BY DEF CommittedOK
<1> QED  BY <1>1, <1>2, GainsInt

\* Statements that neither move goods nor log any of SKU s.
Still(s) == {stmt \in GroundedStmt : Gain(stmt, orders, s) = 0}

LEMMA StillAdds ==
  ASSUME CommittedOK, NEW s \in Sku, NEW todo \in Seq(Still(s))
  PROVE  Adds(Gains(orders, s), todo, 0)
<1>1. \A stmt \in Still(s) : Gains(orders, s)[stmt] = 0
  BY GroundedGains DEF Still
<1> QED  BY <1>1, AddsStill

LEMMA ReleaseAdds ==
  ASSUME CommittedOK, NEW s \in Sku, NEW o \in Order, NEW f \in ItemOrders(o)
  PROVE  Adds(Gains(orders, s), ReleaseStmts(o, f), -orders[o].items[s])
<1> DEFINE E == {z \in Sku : orders[o].items[z] > 0}
           g == [i \in DOMAIN f |->
                   <<FetchSku(f[i]), UpdateSku(f[i], "release", orders[o].items[f[i]])>>]
<1>1. IsFiniteSet(E) /\ E \subseteq Sku
  BY ConstantsAssumption, FS_Subset
<1>2. f \in RowOrders(E)
  BY DEF ItemOrders
<1>3. orders[o].items \in [Sku -> Nat]
  BY DEF CommittedOK, OrderRow
<1>4. PICK k \in Int : k = -orders[o].items[s]
  BY <1>3
<1>5. s \notin E => k = 0
  BY <1>3, <1>4
<1> HIDE DEF E
<1>6. f \in [1..Cardinality(E) -> E] /\ \A i, j \in DOMAIN f : f[i] = f[j] => i = j
  BY <1>2 DEF RowOrders
<1>7. PICK w : w = Gains(orders, s)
  OBVIOUS
<1>8. \A stmt \in GroundedStmt : w[stmt] = Gain(stmt, orders, s) /\ w[stmt] \in Int
  BY <1>7, GroundedGains
<1>9. ASSUME NEW i \in DOMAIN f
      PROVE  g[i] \in Seq(GroundedStmt) /\ Adds(w, g[i], IF f[i] = s THEN k ELSE 0)
  <2>1. f[i] \in Sku /\ orders[o].items[f[i]] \in Int
    BY <1>1, <1>3, <1>6
  <2>2. PICK a \in GroundedStmt : a = FetchSku(f[i])
    BY <2>1 DEF GroundedStmt, PlainStmt, FetchSku, Grounded
  <2>3. PICK b \in GroundedStmt : b = UpdateSku(f[i], "release", orders[o].items[f[i]])
    BY <2>1 DEF GroundedStmt, PlainStmt, UpdateSku, Grounded
  <2>4. g[i] = <<a, b>>
    BY <2>2, <2>3
  <2> HIDE DEF g
  <2>5. w[a] = 0
    BY <1>8, <2>2 DEF Gain, FetchSku
  <2>6. PICK l \in Int : l = IF f[i] = s THEN k ELSE 0
    OBVIOUS
  <2>7. w[b] = l
    <3>1. w[b] = Gain(b, orders, s)
      BY <1>8
    <3>2. b.op = "update_sku" /\ b.sku = f[i] /\ b.how = "release"
          /\ b.qty = orders[o].items[f[i]]
      BY <2>3 DEF UpdateSku
    <3>3. Gain(b, orders, s) = IF f[i] # s THEN 0 ELSE -orders[o].items[f[i]]
      BY <3>2 DEF Gain
    <3> QED  BY <1>4, <2>6, <3>1, <3>3
  <2>8. Adds(w, <<a>>, 0) /\ Adds(w, <<b>>, l)
    BY <2>5, <2>7, AddsOne
  <2>9. Adds(w, <<a>> \o <<b>>, 0 + l)
    <3>1. PICK p \in Seq(GroundedStmt) : p = <<a>>
      BY SeqOne
    <3>2. PICK q \in Seq(GroundedStmt) : q = <<b>>
      BY SeqOne
    <3>3. Adds(w, p, 0) /\ Adds(w, q, l)
      BY <2>8, <3>1, <3>2
    <3>4. \A x \in GroundedStmt : w[x] \in Int
      BY <1>8
    <3>5. Adds(w, p \o q, 0 + l)
      BY <3>3, <3>4, AddsOn
    <3> QED  BY <3>1, <3>2, <3>5
  <2>10. <<a>> \o <<b>> = <<a, b>>
    BY SeqJoin
  <2>11. <<a, b>> \in Seq(GroundedStmt)
    BY SeqPair
  <2>12. 0 + l = l
    OBVIOUS
  <2> QED  BY <2>4, <2>6, <2>9, <2>10, <2>11, <2>12
<1>10. g \in [1..Cardinality(E) -> Seq(GroundedStmt)]
  <2>1. DOMAIN f = 1..Cardinality(E)
    BY <1>6
  <2> QED  BY <1>9, <2>1
<1>11. ReleaseStmts(o, f) = FlattenSeq(g)
  BY DEF ReleaseStmts
<1> HIDE DEF g
<1>12. \A i \in DOMAIN f : Adds(w, g[i], IF f[i] = s THEN k ELSE 0)
  BY <1>9
<1>13. \A x \in GroundedStmt : w[x] \in Int
  BY <1>8
<1>14. Adds(w, FlattenSeq(g), k)
  BY <1>1, <1>5, <1>6, <1>10, <1>12, <1>13, AddsOnce
<1> QED  BY <1>4, <1>7, <1>11, <1>14

LEMMA CancelAdds ==
  ASSUME CommittedOK, NEW s \in Sku, NEW o \in Order, Used(orders[o]),
         NEW f \in ItemOrders(o), NEW from \in OrderStatus, NEW why \in CancelReason
  PROVE  Adds(Gains(orders, s), CancelStmts(o, from, why, f), 0)
<1>1. PICK a \in GroundedStmt : a = UpdateOrder(o, from, "cancelled", why)
  BY DEF GroundedStmt, PlainStmt, UpdateOrder, Grounded
<1>2. PICK q \in Seq(GroundedStmt) : q = ReleaseStmts(o, f)
  BY ReleaseType
<1>3. PICK k \in Int : k = orders[o].items[s]
  BY DEF CommittedOK, OrderRow
<1>4. PICK l \in Int : l = -k
  OBVIOUS
<1>5. PICK w : w = Gains(orders, s)
  OBVIOUS
<1>6. \A stmt \in GroundedStmt : w[stmt] = Gain(stmt, orders, s) /\ w[stmt] \in Int
  BY <1>5, GroundedGains
<1>7. w[a] = k
  <2>1. a.op = "update_order" /\ a.to = "cancelled" /\ a.order = o
    BY <1>1 DEF UpdateOrder
  <2> QED  BY <1>3, <1>6, <2>1 DEF Gain
<1>8. Adds(w, <<a>>, k)
  BY <1>7, AddsOne
<1>9. Adds(w, q, l)
  BY <1>2, <1>3, <1>4, <1>5, ReleaseAdds
<1>10. PICK p \in Seq(GroundedStmt) : p = <<a>>
  BY SeqOne
<1>11. Adds(w, p \o q, k + l)
  <2>1. Adds(w, p, k)
    BY <1>8, <1>10
  <2>2. \A x \in GroundedStmt : w[x] \in Int
    BY <1>6
  <2> QED  BY <1>9, <2>1, <2>2, AddsOn
<1>12. CancelStmts(o, from, why, f) = p \o q /\ k + l = 0
  BY <1>1, <1>2, <1>4, <1>10 DEF CancelStmts
<1> QED  BY <1>5, <1>11, <1>12

\* Neither FetchSku nor the finalizing of an SKU is of any weight.
LEMMA FinalizeStill ==
  ASSUME CommittedOK, NEW s \in Sku, NEW o \in Order, NEW f \in ItemOrders(o)
  PROVE  FinalizeStmts(o, f) \in Seq(Still(s))
<1>1. PICK n \in Nat : f \in [1..n -> Sku]
  BY ItemOrdersType
<1> DEFINE k == SetToSeq(Sku)
           m == Cardinality(Sku)
           a == [i \in DOMAIN f |-> FetchSku(f[i])]
           g == [i \in DOMAIN k |->
                   IF orders[o].items[k[i]] > 0
                   THEN <<UpdateSku(k[i], "finalize", orders[o].items[k[i]])>>
                   ELSE <<>>]
<1>2. k \in [1..m -> Sku] /\ m \in Nat
  BY ListedType, ConstantsAssumption
<1>3. FinalizeStmts(o, f) = a \o FlattenSeq(g)
  BY DEF FinalizeStmts
<1> HIDE DEF k, m
<1>4. ASSUME NEW i \in 1..m PROVE g[i] \in Seq(Still(s))
  <2>1. k[i] \in Sku /\ orders[o].items[k[i]] \in Int
    BY <1>2, ItemsType
  <2>2. PICK b \in GroundedStmt : b = UpdateSku(k[i], "finalize", orders[o].items[k[i]])
    BY <2>1 DEF GroundedStmt, PlainStmt, UpdateSku, Grounded
  <2>3. b \in Still(s)
    BY <2>2 DEF Still, Gain, UpdateSku
  <2> QED  BY <1>2, <2>2, <2>3
<1>5. g \in [1..m -> Seq(Still(s))]
  BY <1>2, <1>4
<1>6. FlattenSeq(g) \in Seq(Still(s))
  BY <1>2, <1>5, FlattenType
<1>7. ASSUME NEW i \in 1..n PROVE a[i] \in Still(s)
  <2>1. PICK b \in GroundedStmt : b = FetchSku(f[i])
    BY <1>1 DEF GroundedStmt, PlainStmt, FetchSku, Grounded
  <2>2. b \in Still(s)
    BY <2>1 DEF Still, Gain, FetchSku
  <2> QED  BY <1>1, <2>1, <2>2
<1>8. a \in Seq(Still(s))
  BY <1>1, <1>7
<1> HIDE DEF a, g
<1> QED  BY <1>3, <1>6, <1>8

LEMMA CompleteAdds ==
  ASSUME CommittedOK, NEW s \in Sku, NEW o \in Order, Used(orders[o]),
         NEW f \in ItemOrders(o)
  PROVE  Adds(Gains(orders, s), CompleteStmts(o, f), 0)
<1>1. PICK a \in GroundedStmt : a = UpdateOrder(o, "shipped", "completed", "none")
  BY DEF GroundedStmt, PlainStmt, UpdateOrder, Grounded, OrderStatus
<1>2. a \in Still(s)
  BY <1>1 DEF Still, Gain, UpdateOrder
<1>3. CompleteStmts(o, f) \in Seq(Still(s))
  BY <1>1, <1>2, FinalizeStill DEF CompleteStmts
<1> QED  BY <1>3, StillAdds

\* The batch of a scan, order by order.
LEMMA BatchAdds ==
  ASSUME CommittedOK, NEW s \in Sku, NEW B \in SUBSET Order, NEW g \in RowOrders(B),
         NEW stmts, \A o \in B : stmts[o] \in Seq(GroundedStmt),
         \A o \in B : Adds(Gains(orders, s), stmts[o], 0)
  PROVE  Adds(Gains(orders, s), FlattenSeq([i \in DOMAIN g |-> stmts[g[i]]]), 0)
<1>1. IsFiniteSet(B)
  BY ConstantsAssumption, FS_Subset
<1>2. PICK n \in Nat : g \in [1..n -> B]
  BY <1>1, RowOrdersType
<1>3. PICK w : w = Gains(orders, s)
  OBVIOUS
<1>4. \A x \in GroundedStmt : w[x] \in Int
  BY <1>3, GroundedGains
<1> DEFINE all == [i \in DOMAIN g |-> stmts[g[i]]]
<1>5. all \in [1..n -> Seq(GroundedStmt)]
  BY <1>2
<1>6. \A i \in 1..n : Adds(w, all[i], 0)
  BY <1>2, <1>3
<1> HIDE DEF all
<1>7. Adds(w, FlattenSeq(all), 0)
  BY <1>4, <1>5, <1>6, AddsNothing
<1> QED  BY <1>3, <1>7 DEF all

\* What insert and locks of one shop's order add.
Share(u, V, h, s) == IF s \in V /\ ShopOf[s] = h THEN cart[u][s] ELSE 0

LEMMA LocksAdd ==
  ASSUME CommittedOK, NEW s \in Sku, NEW u \in User, NEW V \in SUBSET Sku,
         NEW f \in RowOrders(V), NEW h \in Shop, NEW stmts,
         stmts = [i \in DOMAIN f |-> IF ShopOf[f[i]] = h
                                     THEN <<UpdateSku(f[i], "lock", cart[u][f[i]])>>
                                     ELSE <<>>]
  PROVE  /\ FlattenSeq(stmts) \in Seq(GroundedStmt)
         /\ Adds(Gains(orders, s), FlattenSeq(stmts), Share(u, V, h, s))
<1>1. IsFiniteSet(V)
  BY ConstantsAssumption, FS_Subset
<1>2. f \in [1..Cardinality(V) -> V] /\ \A i, j \in DOMAIN f : f[i] = f[j] => i = j
  BY DEF RowOrders
<1>3. \A z \in Sku : cart[u][z] \in Int
  BY ConstantsAssumption DEF CommittedOK, CartTable
<1>4. PICK k \in Int : k = Share(u, V, h, s)
  BY <1>3 DEF Share
<1>5. s \notin V => k = 0
  BY <1>4 DEF Share
<1>6. PICK w : w = Gains(orders, s)
  OBVIOUS
<1>7. \A x \in GroundedStmt : w[x] = Gain(x, orders, s) /\ w[x] \in Int
  BY <1>6, GroundedGains
<1>8. ASSUME NEW i \in DOMAIN f
      PROVE  stmts[i] \in Seq(GroundedStmt) /\ Adds(w, stmts[i], IF f[i] = s THEN k ELSE 0)
  <2>1. f[i] \in Sku /\ f[i] \in V /\ cart[u][f[i]] \in Int
    BY <1>2, <1>3
  <2>2. CASE ShopOf[f[i]] = h
    <3>1. PICK b \in GroundedStmt : b = UpdateSku(f[i], "lock", cart[u][f[i]])
      BY <2>1 DEF GroundedStmt, PlainStmt, UpdateSku, Grounded
    <3>2. PICK l \in Int : l = IF f[i] = s THEN k ELSE 0
      OBVIOUS
    <3>3. b.op = "update_sku" /\ b.sku = f[i] /\ b.how = "lock" /\ b.qty = cart[u][f[i]]
      BY <3>1 DEF UpdateSku
    <3>4. Gain(b, orders, s) = IF f[i] # s THEN 0 ELSE cart[u][f[i]]
      BY <3>3 DEF Gain
    <3>5. w[b] = l
      BY <1>4, <1>7, <2>1, <2>2, <3>2, <3>4 DEF Share
    <3>6. Adds(w, <<b>>, l) /\ <<b>> \in Seq(GroundedStmt)
      BY <3>5, AddsOne, SeqOne
    <3>7. stmts[i] = <<b>>
      BY <2>2, <3>1
    <3> QED  BY <3>2, <3>6, <3>7
  <2>3. CASE ShopOf[f[i]] # h
    <3>1. stmts[i] = <<>>
      BY <2>3
    <3>2. Adds(w, <<>>, 0) /\ <<>> \in Seq(GroundedStmt)
      BY AddsNone
    <3>3. (IF f[i] = s THEN k ELSE 0) = 0
      BY <1>4, <2>3 DEF Share
    <3> QED  BY <3>1, <3>2, <3>3
  <2> QED  BY <2>2, <2>3
<1>9. stmts \in [1..Cardinality(V) -> Seq(GroundedStmt)]
  <2>1. DOMAIN f = 1..Cardinality(V)
    BY <1>2
  <2>2. PICK m : m = 1..Cardinality(V)
    OBVIOUS
  <2>3. stmts = [i \in m |-> stmts[i]]
    BY <2>1, <2>2
  <2> QED  BY <1>8, <2>1, <2>2, <2>3
<1>10. FlattenSeq(stmts) \in Seq(GroundedStmt)
  BY <1>1, <1>9, FS_CardinalityType, FlattenType
<1>11. Adds(w, FlattenSeq(stmts), k)
  <2>1. \A i \in DOMAIN f : Adds(w, stmts[i], IF f[i] = s THEN k ELSE 0)
    BY <1>8
  <2>2. \A x \in GroundedStmt : w[x] \in Int
    BY <1>7
  <2> QED  BY <1>1, <1>2, <1>5, <1>9, <2>1, <2>2, AddsOnce
<1> QED  BY <1>4, <1>6, <1>10, <1>11

LEMMA ShopAdds ==
  ASSUME CommittedOK, NEW s \in Sku, NEW u \in User, NEW k \in Key, NEW V \in SUBSET Sku,
         NEW h \in Shop, NEW q \in Seq(GroundedStmt),
         Adds(Gains(orders, s), q, Share(u, V, h, s))
  PROVE  /\ <<InsertOrder(NewOrder(u, h, k, V))>> \o q \in Seq(GroundedStmt)
         /\ Adds(Gains(orders, s), <<InsertOrder(NewOrder(u, h, k, V))>> \o q, 0)
<1>1. PICK row \in PlacedRow : row = NewOrder(u, h, k, V)
  BY NewOrderPlaced
<1>2. PICK a \in GroundedStmt : a = InsertOrder(row)
  BY DEF GroundedStmt, PlainStmt, InsertOrder, Grounded
<1>3. PICK w : w = Gains(orders, s)
  OBVIOUS
<1>4. \A x \in GroundedStmt : w[x] = Gain(x, orders, s) /\ w[x] \in Int
  BY <1>3, GroundedGains
<1>5. PICK l \in Int : l = Share(u, V, h, s)
  BY ConstantsAssumption DEF CommittedOK, CartTable, Share
<1>6. row.items[s] = l
  BY <1>1, <1>5 DEF NewOrder, Share
<1>7. PICK m \in Int : m = -l
  OBVIOUS
<1>8. w[a] = m
  <2>1. a.op = "insert_order" /\ a.row = row
    BY <1>2 DEF InsertOrder
  <2> QED  BY <1>4, <1>6, <1>7, <2>1 DEF Gain
<1>9. PICK p \in Seq(GroundedStmt) : p = <<a>>
  BY SeqOne
<1>10. Adds(w, p, m) /\ Adds(w, q, l)
  BY <1>3, <1>5, <1>8, <1>9, AddsOne
<1>11. Adds(w, p \o q, m + l)
  <2>1. \A x \in GroundedStmt : w[x] \in Int
    BY <1>4
  <2> QED  BY <1>10, <2>1, AddsOn
<1>12. m + l = 0 /\ p \o q \in Seq(GroundedStmt)
  BY <1>7
<1> QED  BY <1>1, <1>2, <1>3, <1>9, <1>11, <1>12

CreateSettles(u, k, V, f, g) ==
    LET ShopStmts(h) ==
          <<InsertOrder(NewOrder(u, h, k, V))>>
          \o FlattenSeq([i \in DOMAIN f |->
                 IF ShopOf[f[i]] = h
                 THEN <<UpdateSku(f[i], "lock", cart[u][f[i]])>>
                 ELSE <<>>])
    IN  FlattenSeq([i \in DOMAIN g |-> ShopStmts(g[i])]) \o <<DeleteCart(u, V)>>

LEMMA CreateAdds ==
  ASSUME CommittedOK, NEW s \in Sku, NEW u \in User, NEW k \in Key, NEW V \in SUBSET Sku,
         NEW f \in RowOrders(V), NEW H \in SUBSET Shop, IsFiniteSet(H), NEW g \in RowOrders(H)
  PROVE  Adds(Gains(orders, s), CreateSettles(u, k, V, f, g), 0)
<1> DEFINE Taking(h) == [i \in DOMAIN f |-> IF ShopOf[f[i]] = h
                                          THEN <<UpdateSku(f[i], "lock", cart[u][f[i]])>>
                                          ELSE <<>>]
           ShopStmts(h) == <<InsertOrder(NewOrder(u, h, k, V))>> \o FlattenSeq(Taking(h))
           all == [i \in DOMAIN g |-> ShopStmts(g[i])]
<1>1. ASSUME NEW h \in Shop
      PROVE  ShopStmts(h) \in Seq(GroundedStmt) /\ Adds(Gains(orders, s), ShopStmts(h), 0)
  <2>1. PICK q \in Seq(GroundedStmt) :
          q = FlattenSeq(Taking(h)) /\ Adds(Gains(orders, s), q, Share(u, V, h, s))
    BY LocksAdd
  <2> QED  BY <2>1, ShopAdds
<1>2. PICK n \in Nat : g \in [1..n -> H]
  BY RowOrdersType
<1>3. CreateSettles(u, k, V, f, g) = FlattenSeq(all) \o <<DeleteCart(u, V)>>
  BY DEF CreateSettles
<1> HIDE DEF ShopStmts
<1>4. all \in [1..n -> Seq(GroundedStmt)] /\ \A i \in 1..n : Adds(Gains(orders, s), all[i], 0)
  BY <1>1, <1>2
<1> HIDE DEF all
<1>5. PICK w : w = Gains(orders, s)
  OBVIOUS
<1>6. \A x \in GroundedStmt : w[x] = Gain(x, orders, s) /\ w[x] \in Int
  BY <1>5, GroundedGains
<1>7. PICK p \in Seq(GroundedStmt) : p = FlattenSeq(all)
  BY <1>4, FlattenType
<1>8. Adds(w, p, 0)
  <2>1. (\A x \in GroundedStmt : w[x] \in Int) /\ (\A i \in 1..n : Adds(w, all[i], 0))
    BY <1>4, <1>5, <1>6
  <2> QED  BY <1>4, <1>7, <2>1, AddsNothing
<1>9. PICK a \in GroundedStmt : a = DeleteCart(u, V)
  BY DEF GroundedStmt, PlainStmt, DeleteCart, Grounded
<1>10. PICK q \in Seq(GroundedStmt) : q = <<a>>
  BY SeqOne
<1>11. Adds(w, q, 0)
  <2>1. w[a] = 0
    BY <1>6, <1>9 DEF Gain, DeleteCart
  <2> QED  BY <1>10, <2>1, AddsOne
<1>12. Adds(w, p \o q, 0 + 0)
  <2>1. \A x \in GroundedStmt : w[x] \in Int
    BY <1>6
  <2> QED  BY <1>8, <1>11, <2>1, AddsOn
<1>13. 0 + 0 = 0
  OBVIOUS
<1> QED  BY <1>3, <1>5, <1>7, <1>9, <1>10, <1>12, <1>13

\* The statements of a request that moves goods and logs them in equal parts.
Settled(todo) == \A s \in Sku : Adds(Gains(orders, s), todo, 0)

LEMMA BeginLog ==
  ASSUME IInv, LogInv, NEW t \in Txn, NEW todo \in Seq(Stmt), NEW seen,
         BeginWith(t, todo, seen),
         Settled(todo) \/ \A i \in DOMAIN todo : todo[i].op = "update_sku"
  PROVE  LogInv'
<1>1. UNCHANGED <<orders, skus, cur>>
  BY DEF BeginWith, vars
<1>2. \A x \in Txn : x # t => txns'[x] = txns[x]
  BY DEF BeginWith, IInv, Types, TxnsOK
<1>3. txns'[t].todo = todo /\ txns'[t].locks = {}
  BY DEF BeginWith, IInv, Types, TxnsOK
<1>4. txns[t].locks = {}
  BY DEF BeginWith, IInv, Locking, IdleIsIdle
<1>5. PICK os, ks, c : os = orders /\ ks = skus /\ c = cur
  OBVIOUS
<1>6. Balanced(txns'[t], os, ks, c)
  <2>1. PICK y : y = txns'[t]
    OBVIOUS
  <2>2. y.todo = todo /\ y.locks = {}
    BY <1>3, <2>1
  <2>3. CASE \A i \in DOMAIN todo : todo[i].op = "update_sku"
    BY <2>1, <2>2, <2>3 DEF Balanced, Adjusting
  <2>4. CASE Settled(todo)
    <3>1. ASSUME NEW s \in Sku PROVE Ahead(y.locks, os, ks, c, s) = 0
      <4>1. \A o \in Order : Moves(y.locks, os, c.orders, s)[o] = 0
        BY <2>2 DEF Moves
      <4>2. SumFunctionOnSet(Moves(y.locks, os, c.orders, s), Order) = 0
        BY <4>1, SumZero, ConstantsAssumption DEF Summable, Moves
      <4>3. Logs(y.locks, ks, c.skus, s) = 0
        BY <2>2 DEF Logs
      <4> QED  BY <4>2, <4>3 DEF Ahead
    <3>2. ASSUME NEW s \in Sku PROVE Leads(Gains(os, s), y.todo, 0, 0)
      <4>1. PICK w : w = Gains(os, s)
        OBVIOUS
      <4>2. Adds(w, todo, 0)
        BY <1>5, <2>4, <4>1 DEF Settled
      <4>3. Leads(w, todo, 0, 0 + 0) /\ 0 + 0 = 0
        BY <4>2 DEF Adds
      <4> QED  BY <2>2, <4>1, <4>3
    <3> QED  BY <2>1, <3>1, <3>2 DEF Balanced
  <2> QED  BY <2>3, <2>4
<1>7. ASSUME NEW x \in Txn PROVE Balanced(txns'[x], os, ks, c)
  BY <1>2, <1>5, <1>6 DEF LogInv, TxnsBalanced
<1>8. TxnsBalanced'
  BY <1>1, <1>5, <1>7 DEF TxnsBalanced
<1>9. LinesKept' /\ HistoryBegun'
  BY <1>1 DEF LogInv, LinesKept, HistoryBegun, Used
<1>10. SkusOwned'
  BY <1>1, <1>2, <1>3, <1>4 DEF LogInv, SkusOwned, Holds
<1> QED  BY <1>8, <1>9, <1>10 DEF LogInv

\* A request whose statements concern no goods.
LEMMA BeginStillLog ==
  ASSUME IInv, LogInv, NEW t \in Txn, NEW todo \in Seq(Stmt), Begin(t, todo),
         \A i \in DOMAIN todo :
            \/ todo[i].op \in {"close_order", "insert_session", "update_session"}
            \/ todo[i].op = "update_order" /\ todo[i].to # "cancelled"
  PROVE  LogInv'
<1>1. ASSUME NEW s \in Sku PROVE Adds(Gains(orders, s), todo, 0)
  <2> DEFINE S == {stmt \in Stmt : Gain(stmt, orders, s) = 0}
  <2>1. \A i \in DOMAIN todo : Gain(todo[i], orders, s) = 0
    BY DEF Gain
  <2>2. todo \in Seq(S)
    BY <2>1
  <2>3. \A x \in S : Gains(orders, s)[x] = 0
    BY DEF Gains
  <2> HIDE DEF S
  <2> QED  BY <2>2, <2>3, AddsStill
<1> QED  BY <1>1, BeginLog DEF Begin, Settled

LEMMA BeginCreateLog ==
  ASSUME IInv, LogInv, NEW t \in Txn, NEW u \in User, NEW k \in Key, NEW ids \in SUBSET Sku,
         BeginCreate(t, u, k, ids)
  PROVE  LogInv'
<1> DEFINE V == ValidItems(u, ids, Sku)
           shops == {ShopOf[s] : s \in V}
<1>1. PICK f \in RowOrders(V), g \in RowOrders(shops) :
        BeginWith(t, CreateSettles(u, k, V, f, g), skus)
  BY DEF BeginCreate, CreateSettles
<1>2. V \in SUBSET Sku /\ CommittedOK
  BY DEF ValidItems, IInv, Types
<1>3. IsFiniteSet(V)
  BY <1>2, ConstantsAssumption, FS_Subset
<1>4. IsFiniteSet(shops) /\ shops \in SUBSET Shop
  <2> DEFINE image == [s \in V |-> ShopOf[s]]
  <2>1. image \in Surjection(V, shops)
    BY DEF Surjection
  <2> HIDE DEF image
  <2>2. IsFiniteSet(shops)
    BY <1>3, <2>1, FS_Surjection DEF ExistsSurjection
  <2> QED  BY <1>2, <2>2, ConstantsAssumption
<1> HIDE DEF V, shops
<1>5. PICK W \in SUBSET Sku, H \in SUBSET Shop : W = V /\ H = shops /\ IsFiniteSet(H)
  BY <1>2, <1>4
<1>6. f \in RowOrders(W) /\ g \in RowOrders(H)
  BY <1>1, <1>5
<1>7. PICK todo : todo = CreateSettles(u, k, W, f, g) /\ BeginWith(t, todo, skus)
  BY <1>1, <1>5
<1>8. Settled(todo)
  BY <1>2, <1>5, <1>6, <1>7, CreateAdds DEF Settled
<1>9. todo \in Seq(Stmt)
  <2>1. IInv'
    BY BeginCreateKeeps
  <2>2. txns'[t].todo = todo
    BY <1>7 DEF BeginWith, IInv, Types, TxnsOK
  <2> QED  BY <2>1, <2>2 DEF IInv, Types, TxnsOK, TxnRow
<1> QED  BY <1>7, <1>8, <1>9, BeginLog

\* What a request begins with is a list of statements.
LEMMA BegunType ==
  ASSUME IInv, IInv', NEW t \in Txn, NEW todo, NEW seen, BeginWith(t, todo, seen)
  PROVE  todo \in Seq(Stmt)
<1>1. txns'[t].todo = todo
  BY DEF BeginWith, IInv, Types, TxnsOK
<1> QED  BY <1>1 DEF IInv, Types, TxnsOK, TxnRow

LEMMA BeginExpireLog ==
  ASSUME IInv, LogInv, IInv', NEW t \in Txn, NEW B \in SUBSET Pending, BeginExpire(t, B)
  PROVE  LogInv'
<1>1. PICK g \in RowOrders(B), f \in [B -> UNION {ItemOrders(o) : o \in B}] :
        /\ \A o \in B : f[o] \in ItemOrders(o)
        /\ Begin(t, FlattenSeq([i \in DOMAIN g |->
                      CancelStmts(g[i], "pending_payment", "payment_timeout", f[g[i]])]))
  BY DEF BeginExpire
<1> DEFINE stmts == [o \in B |-> CancelStmts(o, "pending_payment", "payment_timeout", f[o])]
<1>2. CommittedOK /\ B \in SUBSET Order
  BY DEF IInv, Types, Pending
<1>3. ASSUME NEW o \in B
      PROVE  /\ stmts[o] \in Seq(GroundedStmt)
             /\ \A s \in Sku : Adds(Gains(orders, s), stmts[o], 0)
  <2>1. o \in Order /\ Used(orders[o]) /\ f[o] \in ItemOrders(o)
    BY <1>1 DEF Pending, Used
  <2>2. PICK from \in OrderStatus, why \in CancelReason :
          from = "pending_payment" /\ why = "payment_timeout"
    BY DEF OrderStatus, CancelReason
  <2>3. PICK q : q = f[o]
    OBVIOUS
  <2>4. q \in ItemOrders(o) /\ stmts[o] = CancelStmts(o, from, why, q)
    BY <2>1, <2>2, <2>3
  <2> HIDE DEF stmts
  <2>5. stmts[o] \in Seq(GroundedStmt)
    BY <1>2, <2>1, <2>4, CancelType
  <2>6. \A s \in Sku : Adds(Gains(orders, s), stmts[o], 0)
    BY <1>2, <2>1, <2>4, CancelAdds
  <2> QED  BY <2>5, <2>6
<1>4. IsFiniteSet(B)
  BY <1>2, ConstantsAssumption, FS_Subset
<1>5. \A i \in DOMAIN g : g[i] \in B
  BY <1>4, RowOrdersType
<1>6. [i \in DOMAIN g |-> stmts[g[i]]]
        = [i \in DOMAIN g |->
             CancelStmts(g[i], "pending_payment", "payment_timeout", f[g[i]])]
  BY <1>5
<1> HIDE DEF stmts
<1> DEFINE todo == FlattenSeq([i \in DOMAIN g |-> stmts[g[i]]])
<1>7. Settled(todo)
  BY <1>2, <1>3, BatchAdds DEF Settled
<1>8. Begin(t, todo)
  BY <1>1, <1>6
<1> HIDE DEF todo
<1>9. todo \in Seq(Stmt)
  BY <1>8, BegunType DEF Begin
<1> QED  BY <1>7, <1>8, <1>9, BeginLog DEF Begin

LEMMA BeginScanCompleteLog ==
  ASSUME IInv, LogInv, IInv', NEW t \in Txn, BeginScanComplete(t)
  PROVE  LogInv'
<1>1. PICK B \in Batches({o \in autoDue : orders[o].status = "shipped"}) :
        \E g \in RowOrders(B), f \in [B -> UNION {ItemOrders(o) : o \in B}] :
            /\ \A o \in B : f[o] \in ItemOrders(o)
            /\ Begin(t, FlattenSeq([i \in DOMAIN g |-> CompleteStmts(g[i], f[g[i]])]))
  BY DEF BeginScanComplete
<1>2. PICK g \in RowOrders(B), f \in [B -> UNION {ItemOrders(o) : o \in B}] :
        /\ \A o \in B : f[o] \in ItemOrders(o)
        /\ Begin(t, FlattenSeq([i \in DOMAIN g |-> CompleteStmts(g[i], f[g[i]])]))
  BY <1>1
<1> DEFINE stmts == [o \in B |-> CompleteStmts(o, f[o])]
<1>3. CommittedOK /\ B \in SUBSET Order /\ \A o \in B : Used(orders[o])
  <2>1. B \in SUBSET {o \in autoDue : orders[o].status = "shipped"}
    BY DEF Batches
  <2>2. CommittedOK
    BY DEF IInv, Types
  <2> QED  BY <2>1, <2>2 DEF CommittedOK, Used
<1>4. ASSUME NEW o \in B
      PROVE  /\ stmts[o] \in Seq(GroundedStmt)
             /\ \A s \in Sku : Adds(Gains(orders, s), stmts[o], 0)
  <2>1. PICK q : q = f[o]
    OBVIOUS
  <2>2. q \in ItemOrders(o) /\ stmts[o] = CompleteStmts(o, q) /\ o \in Order /\ Used(orders[o])
    BY <1>2, <1>3, <2>1
  <2> HIDE DEF stmts
  <2>3. stmts[o] \in Seq(GroundedStmt)
    BY <1>3, <2>2, CompleteType
  <2>4. \A s \in Sku : Adds(Gains(orders, s), stmts[o], 0)
    BY <1>3, <2>2, CompleteAdds
  <2> QED  BY <2>3, <2>4
<1>5. IsFiniteSet(B)
  BY <1>3, ConstantsAssumption, FS_Subset
<1>6. \A i \in DOMAIN g : g[i] \in B
  BY <1>5, RowOrdersType
<1>7. [i \in DOMAIN g |-> stmts[g[i]]] = [i \in DOMAIN g |-> CompleteStmts(g[i], f[g[i]])]
  BY <1>6
<1> HIDE DEF stmts
<1> DEFINE todo == FlattenSeq([i \in DOMAIN g |-> stmts[g[i]]])
<1>8. Settled(todo)
  BY <1>3, <1>4, BatchAdds DEF Settled
<1>9. Begin(t, todo)
  BY <1>2, <1>7
<1> HIDE DEF todo
<1>10. todo \in Seq(Stmt)
  BY <1>9, BegunType DEF Begin
<1> QED  BY <1>8, <1>9, <1>10, BeginLog DEF Begin

LEMMA BeginOneOrderLog ==
  ASSUME IInv, LogInv, IInv', NEW t \in Txn, NEW o \in Order
  PROVE  /\ BeginCreateSession(t, o) => LogInv'
         /\ \A why \in CancelReason, from \in SUBSET {"pending_payment", "paid"} :
              BeginCancel(t, o, why, from) => LogInv'
         /\ BeginShip(t, o) => LogInv'
         /\ BeginConfirmReceipt(t, o) => LogInv'
         /\ BeginCloseRefunded(t, o) => LogInv'
<1>1. CommittedOK
  BY DEF IInv, Types
<1>2. ASSUME BeginCreateSession(t, o) PROVE LogInv'
  <2>1. PICK todo : todo = <<InsertSession(o)>> /\ Begin(t, todo)
    BY <1>2 DEF BeginCreateSession
  <2>2. \A i \in DOMAIN todo : todo[i].op = "insert_session"
    BY <2>1 DEF InsertSession
  <2> QED  BY <2>1, <2>2, BegunType, BeginStillLog DEF Begin
<1>3. ASSUME NEW why \in CancelReason, NEW from \in SUBSET {"pending_payment", "paid"},
             BeginCancel(t, o, why, from)
      PROVE  LogInv'
  <2>1. PICK st \in OrderStatus : st = orders[o].status /\ Used(orders[o])
    BY <1>3 DEF BeginCancel, OrderStatus, Used
  <2>2. PICK f \in ItemOrders(o) : Begin(t, CancelStmts(o, st, why, f))
    BY <1>3, <2>1 DEF BeginCancel
  <2>3. PICK todo : todo = CancelStmts(o, st, why, f)
    OBVIOUS
  <2>4. Settled(todo)
    BY <1>1, <2>1, <2>3, CancelAdds DEF Settled
  <2> QED  BY <2>2, <2>3, <2>4, BegunType, BeginLog DEF Begin
<1>4. ASSUME BeginShip(t, o) PROVE LogInv'
  <2>1. PICK todo : todo = <<UpdateOrder(o, "paid", "shipped", "none")>> /\ Begin(t, todo)
    BY <1>4 DEF BeginShip
  <2>2. \A i \in DOMAIN todo : todo[i].op = "update_order" /\ todo[i].to # "cancelled"
    BY <2>1 DEF UpdateOrder
  <2> QED  BY <2>1, <2>2, BegunType, BeginStillLog DEF Begin
<1>5. ASSUME BeginConfirmReceipt(t, o) PROVE LogInv'
  <2>1. Used(orders[o])
    BY <1>5 DEF BeginConfirmReceipt, Used
  <2>2. PICK f \in ItemOrders(o) : Begin(t, CompleteStmts(o, f))
    BY <1>5 DEF BeginConfirmReceipt
  <2>3. PICK todo : todo = CompleteStmts(o, f)
    OBVIOUS
  <2>4. Settled(todo)
    BY <1>1, <2>1, <2>3, CompleteAdds DEF Settled
  <2> QED  BY <2>2, <2>3, <2>4, BegunType, BeginLog DEF Begin
<1>6. ASSUME BeginCloseRefunded(t, o) PROVE LogInv'
  <2>1. PICK todo : todo = <<CloseOrder(o)>> /\ Begin(t, todo)
    BY <1>6 DEF BeginCloseRefunded
  <2>2. \A i \in DOMAIN todo : todo[i].op = "close_order"
    BY <2>1 DEF CloseOrder
  <2> QED  BY <2>1, <2>2, BegunType, BeginStillLog DEF Begin
<1> QED  BY <1>2, <1>3, <1>4, <1>5, <1>6

LEMMA BeginKeepsLog ==
  ASSUME IInv, LogInv, IInv', NEW t \in Txn, BeginBuyer(t) \/ BeginStaff(t) \/ BeginCron(t)
  PROVE  LogInv'
<1>1. ASSUME NEW p \in Session, BeginMockSucceed(t, p) PROVE LogInv'
  <2>1. PICK o : o = sessions[p].order /\ orders[o].status = "pending_payment"
    BY <1>1 DEF BeginMockSucceed
  <2>2. PICK todo : todo = PayStmts(o, p) /\ Begin(t, todo)
    BY <1>1, <2>1 DEF BeginMockSucceed
  <2>3. \A i \in DOMAIN todo : \/ todo[i].op = "update_session"
                               \/ todo[i].op = "update_order" /\ todo[i].to # "cancelled"
    BY <2>2 DEF PayStmts, UpdateOrder, UpdateSession
  <2> QED  BY <2>2, <2>3, BegunType, BeginStillLog DEF Begin
<1>2. ASSUME NEW p \in Session, BeginMockFail(t, p) PROVE LogInv'
  <2>1. PICK todo : todo = <<UpdateSession(p, sessions[p].order, "failed")>> /\ Begin(t, todo)
    BY <1>2 DEF BeginMockFail
  <2>2. \A i \in DOMAIN todo : todo[i].op = "update_session"
    BY <2>1 DEF UpdateSession
  <2> QED  BY <2>1, <2>2, BegunType, BeginStillLog DEF Begin
<1>3. ASSUME NEW s \in Sku, NEW d \in -MaxUnits..MaxUnits, BeginAdjust(t, s, d) PROVE LogInv'
  <2>1. PICK todo : todo = <<UpdateSku(s, "adjust", d)>> /\ BeginWith(t, todo, skus)
    BY <1>3 DEF BeginAdjust
  <2>2. \A i \in DOMAIN todo : todo[i].op = "update_sku"
    BY <2>1 DEF UpdateSku
  <2> QED  BY <2>1, <2>2, BegunType, BeginLog
<1>4. ASSUME NEW o \in Order, BeginGetDetail(t, o) PROVE LogInv'
  BY <1>4, BeginExpireLog DEF BeginGetDetail
<1>5. ASSUME NEW u \in User, BeginListByUser(t, u) PROVE LogInv'
  BY <1>5, BeginExpireLog DEF BeginListByUser
<1>6. ASSUME BeginScanExpire(t) PROVE LogInv'
  <2>1. PICK B \in Batches(Pending \cap overdue) : BeginExpire(t, B)
    BY <1>6 DEF BeginScanExpire
  <2>2. B \in SUBSET Pending
    BY DEF Batches
  <2> QED  BY <2>1, <2>2, BeginExpireLog
<1>7. CASE BeginBuyer(t)
  BY <1>1, <1>2, <1>4, <1>5, <1>7, BeginCreateLog, BeginOneOrderLog DEF BeginBuyer, CancelReason
<1>8. CASE BeginStaff(t)
  BY <1>3, <1>8, BeginOneOrderLog DEF BeginStaff, CancelReason
<1>9. CASE BeginCron(t)
  BY <1>6, <1>9, BeginScanCompleteLog DEF BeginCron
<1> QED  BY <1>7, <1>8, <1>9

-----------------------------------------------------------------------------
(* The log follows the history.                                            *)

LEMMA ExecKeepsLog ==
  ASSUME IInv, LogInv, IInv', NEW t \in Txn, Exec(t)
  PROVE  LogInv'
<1>1. CASE ExecInsertOrder(t)
  <2>1. Ready(t, "insert_order") /\ UNCHANGED <<orders, skus>>
    BY <1>1 DEF ExecInsertOrder
  <2>2. \/ StoreOrder(t, Head(txns[t].todo))
        \/ Undo(t) /\ txns' = [txns EXCEPT ![t] = Idle]
    BY <1>1 DEF ExecInsertOrder
  <2> QED  BY <2>1, <2>2, InsertLog, AbortLog
<1>2. CASE ExecInsertSession(t)
  <2>1. Ready(t, "insert_session") /\ UNCHANGED vars
    BY <1>2 DEF ExecInsertSession
  <2>2. \/ StoreSession(t, Head(txns[t].todo).order)
        \/ Undo(t) /\ txns' = [txns EXCEPT ![t] = Idle]
    BY <1>2 DEF ExecInsertSession
  <2>3. UNCHANGED <<orders, skus>>
    BY <2>1 DEF vars
  <2> QED  BY <2>1, <2>2, <2>3, InsertSessionLog, AbortLog
<1>3. CASE ExecUpdateOrder(t)
  BY <1>3, ExecUpdateOrderLog
<1>4. CASE ExecCloseOrder(t)
  BY <1>4, ExecCloseOrderLog
<1>5. CASE ExecUpdateSku(t)
  BY <1>5, ExecUpdateSkuLog
<1>6. CASE ExecFetchSku(t) \/ ExecDeleteCart(t) \/ ExecUpdateSession(t)
  BY <1>6, ExecQuietLog
<1> QED  BY <1>1, <1>2, <1>3, <1>4, <1>5, <1>6 DEF Exec

LEMMA CartRequestLog ==
  ASSUME IInv, LogInv, NEW u \in User, CartRequest(u)
  PROVE  LogInv'
<1>1. UNCHANGED <<orders, skus, txns>>
  BY DEF CartRequest, CartAdd, CartUpdate, CartDelete, CartBatchDelete, CartClearInvalid, Removed
<1>2. cur'.orders = cur.orders /\ cur'.skus = cur.skus
  BY DEF CartRequest, IInv, Types, NewestOK
<1> QED  BY <1>1, <1>2, AsideLog

LEMMA TxnInitLog ==
  ASSUME TxnInit
  PROVE  LogInv
<1>1. /\ cur = [orders |-> orders, skus |-> skus, sessions |-> sessions, cart |-> cart]
      /\ orders = [o \in Order |-> UnusedOrder]
      /\ txns = [t \in Txn |-> Idle]
  BY DEF TxnInit, Init
<1>2. /\ \A o \in Order : ~Used(orders[o])
      /\ cur.orders = orders /\ cur.skus = skus
  BY <1>1 DEF UnusedOrder, Used
<1>3. ASSUME NEW t \in Txn PROVE Balanced(txns[t], orders, skus, cur)
  <2>1. txns[t].todo = <<>> /\ txns[t].locks = {}
    BY <1>1 DEF Idle
  <2>2. PICK x, os, ks, c : x = txns[t] /\ os = orders /\ ks = skus /\ c = cur
    OBVIOUS
  <2>3. Balanced(x, os, ks, c)
    BY <2>1, <2>2, EndedBalanced
  <2> QED  BY <2>2, <2>3
<1>4. TxnsBalanced
  BY <1>3 DEF TxnsBalanced
<1> QED  BY <1>2, <1>4 DEF LogInv, LinesKept, HistoryBegun, SkusOwned

LEMMA TxnNextLog ==
  ASSUME IInv, LogInv, [TxnNext]_tvars
  PROVE  LogInv'
<1>1. IInv'
  BY TxnNextKeeps
<1>2. ASSUME NEW t \in Txn, Rollback(t) PROVE LogInv'
  BY <1>2, AbortLog DEF Rollback, vars
<1>3. ASSUME NEW t \in Txn, DeadlockVictim(t) PROVE LogInv'
  BY <1>2, <1>3 DEF DeadlockVictim
<1>4. ASSUME NEW t \in Txn, Commit(t) PROVE LogInv'
  BY <1>4, PublishLog DEF Commit
<1>5. ASSUME NEW t \in Txn, Exec(t) PROVE LogInv'
  BY <1>1, <1>5, ExecKeepsLog
<1>6. ASSUME NEW t \in Txn, BeginBuyer(t) \/ BeginStaff(t) \/ BeginCron(t) PROVE LogInv'
  BY <1>1, <1>6, BeginKeepsLog
<1>7. ASSUME Clock PROVE LogInv'
  BY <1>7, AsideLog DEF Clock, TimeStep, PaymentDeadlinePasses, AutoCompletePasses
<1>8. CASE TxnNext
  BY <1>2, <1>3, <1>4, <1>5, <1>6, <1>7, <1>8, CartRequestLog DEF TxnNext
<1>9. CASE UNCHANGED tvars
  BY <1>9, AsideLog DEF tvars
<1> QED  BY <1>8, <1>9

\* Only a COMMIT changes the orders others see.
LEMMA OrdersChange ==
  ASSUME [TxnNext]_tvars, orders' # orders
  PROVE  \E t \in Txn : Commit(t)
<1>1. ASSUME NEW t \in Txn, BeginBuyer(t) \/ BeginStaff(t) \/ BeginCron(t)
      PROVE  \E todo, seen : BeginWith(t, todo, seen)
  BY <1>1 DEF BeginBuyer, BeginStaff, BeginCron, Begin, BeginCreate, BeginCreateSession,
     BeginMockSucceed, BeginMockFail, BeginCancel, BeginShip, BeginConfirmReceipt,
     BeginCloseRefunded, BeginScanExpire, BeginGetDetail, BeginListByUser, BeginExpire,
     BeginScanComplete, BeginAdjust
<1>2. ASSUME NEW t \in Txn, BeginBuyer(t) \/ BeginStaff(t) \/ BeginCron(t)
      PROVE  FALSE
  BY <1>1, <1>2 DEF BeginWith, vars
<1>3. ASSUME NEW t \in Txn, Exec(t) PROVE FALSE
  BY <1>3 DEF Exec, ExecInsertOrder, ExecUpdateOrder, ExecCloseOrder, ExecFetchSku,
     ExecUpdateSku, ExecInsertSession, ExecUpdateSession, ExecDeleteCart, vars
<1>4. ASSUME NEW t \in Txn, Rollback(t) \/ DeadlockVictim(t) PROVE FALSE
  BY <1>4 DEF Rollback, DeadlockVictim, vars
<1>5. ASSUME NEW u \in User, CartRequest(u) PROVE FALSE
  BY <1>5 DEF CartRequest, CartAdd, CartUpdate, CartDelete, CartBatchDelete,
     CartClearInvalid, Removed
<1>6. ASSUME Clock PROVE FALSE
  BY <1>6 DEF Clock, TimeStep, PaymentDeadlinePasses, AutoCompletePasses
<1> QED  BY <1>2, <1>3, <1>4, <1>5, <1>6 DEF TxnNext, tvars

\* By how much a commit moves the orders, and so the log.
LEMMA CommitLogs ==
  ASSUME IInv, LogInv, NEW t \in Txn, Commit(t), orders' # orders, NEW s \in Sku
  PROVE  skus'[s].logged - skus[s].logged
           = SumFunctionOnSet(
               [o \in Order |-> Balance(orders', o, s) - Balance(orders, o, s)], Order)
<1>1. PICK x, os, ps, ks, js, c :
        x = txns[t] /\ os = orders /\ ps = orders' /\ ks = skus /\ js = skus' /\ c = cur
  OBVIOUS
<1>2. /\ \A o \in Order : ps[o] = IF <<"order", o>> \in x.locks THEN c.orders[o] ELSE os[o]
      /\ \A z \in Sku : js[z] = IF <<"sku", z>> \in x.locks THEN c.skus[z] ELSE ks[z]
  BY <1>1 DEF Commit, Publish, Holds
<1>3. x.todo = <<>> /\ Balanced(x, os, ks, c)
  BY <1>1 DEF Commit, LogInv, TxnsBalanced
<1>4. /\ os \in [Order -> OrderRow] /\ ks \in [Sku -> AnySkuRow]
      /\ c.orders \in [Order -> OrderRow] /\ c.skus \in [Sku -> AnySkuRow]
  BY <1>1 DEF IInv, Types, CommittedOK, NewestOK
<1>5. ps \in [Order -> OrderRow] /\ js \in [Sku -> AnySkuRow]
  <2>1. IInv'
    BY PublishKeeps DEF Commit
  <2> QED  BY <1>1, <2>1 DEF IInv, Types, CommittedOK
<1>6. ~Adjusting(x)
  <2> SUFFICES ASSUME \A o \in Order : <<"order", o>> \notin x.locks PROVE FALSE
    BY DEF Adjusting
  <2>1. \A o \in Order : ps[o] = os[o]
    BY <1>2
  <2>2. ps = os
    BY <1>4, <1>5, <2>1
  <2> QED  BY <1>1, <2>2
<1>7. Ahead(x.locks, os, ks, c, s) = 0
  <2>1. PICK a \in Int : a = Ahead(x.locks, os, ks, c, s)
    BY <1>4, AheadInt
  <2>2. PICK w : w = Gains(os, s)
    OBVIOUS
  <2>3. Leads(w, <<>>, a, 0)
    BY <1>3, <1>6, <2>1, <2>2 DEF Balanced
  <2>4. a = 0
    BY <2>3, LeadsNowhere
  <2> QED  BY <2>1, <2>4
<1> DEFINE f == [o \in Order |-> Balance(ps, o, s) - Balance(os, o, s)]
<1>8. Moves(x.locks, os, c.orders, s) = f
  <2>1. ASSUME NEW o \in Order PROVE Moves(x.locks, os, c.orders, s)[o] = f[o]
    <3>1. CASE <<"order", o>> \in x.locks
      BY <1>2, <3>1 DEF Moves, Balance
    <3>2. CASE <<"order", o>> \notin x.locks
      <4>1. Balance(ps, o, s) = Balance(os, o, s)
        BY <1>2, <3>2 DEF Balance
      <4>2. Balance(os, o, s) \in Int
        BY <1>4, BalanceInt
      <4> QED  BY <3>2, <4>1, <4>2 DEF Moves
    <3> QED  BY <3>1, <3>2
  <2> QED  BY <2>1 DEF Moves
<1>9. Logs(x.locks, ks, c.skus, s) = js[s].logged - ks[s].logged
  <2>1. ks[s].logged \in Int
    BY <1>4 DEF AnySkuRow
  <2> QED  BY <1>2, <2>1 DEF Logs
<1>10. SumFunctionOnSet(f, Order) \in Int /\ js[s].logged \in Int /\ ks[s].logged \in Int
  <2>1. SumFunctionOnSet(Moves(x.locks, os, c.orders, s), Order) \in Int
    BY <1>4, MovesSummable, SumInt
  <2> QED  BY <1>4, <1>5, <1>8, <2>1 DEF AnySkuRow
<1>11. SumFunctionOnSet(f, Order) - (js[s].logged - ks[s].logged) = 0
  BY <1>7, <1>8, <1>9 DEF Ahead
<1> HIDE DEF f
<1>12. js[s].logged - ks[s].logged = SumFunctionOnSet(f, Order)
  BY <1>10, <1>11
<1> QED  BY <1>1, <1>12 DEF f

\* Every commit that moves orders puts into the inventory log exactly the goods
\* its history rows took and gave back, whatever lost updates have done to the
\* stock columns: each request inserts its log rows and its history rows in one
\* transaction, of the items of the same orders (order_service.py: create,
\* _release_stock; inventory_service.py).
THEOREM LogsFollowHistoryCorrect == TxnSpec => LogsFollowHistory
<1>1. TxnInit => LogInv
  BY TxnInitLog
<1>2. IInv /\ LogInv /\ [TxnNext]_tvars => LogInv'
  BY TxnNextLog
<1>3. IInv /\ LogInv /\ [TxnNext]_tvars
        => [orders' # orders =>
              \A s \in Sku :
                 skus'[s].logged - skus[s].logged
                   = SumFunctionOnSet(
                       [o \in Order |-> Balance(orders', o, s) - Balance(orders, o, s)],
                       Order)]_tvars
  BY OrdersChange, CommitLogs
<1> QED  BY <1>1, <1>2, <1>3, TxnIInvCorrect, PTL DEF TxnSpec, LogsFollowHistory
=============================================================================
