----------------------------- MODULE Storefront -----------------------------
(***************************************************************************)
(* Shopping in one tab of user-web: the product, cart and checkout pages    *)
(* (app/products/[id], app/cart, app/checkout), the cached cart they show   *)
(* (hooks/useCart.ts), the idempotency key of the tab (lib/idempotency.ts)  *)
(* and the cart and order endpoints they call.  An endpoint is one step     *)
(* here: Orders and OrderTxns model what happens inside it.                 *)
(*                                                                         *)
(* All items are sold by one shop, so a checkout makes one order: orders[r] *)
(* is the order that row r of the cart went into, the same for all rows     *)
(* that were submitted with one key.                                        *)
(***************************************************************************)
EXTENDS Naturals, FiniteSets

CONSTANTS
    Items,      \* SKUs the visitor looks at
    Slots,      \* bound: calls under way at one time
    Plans,      \* bound: which controls the visitor uses, on which items,
                \* with which slots and how many keys, and whether others
                \* change what can be bought and cancel orders
    MaxIds,     \* bound: cart rows ever made, the first ones in the cart already
    MaxKeys,    \* bound: idempotency keys ever made
    MaxQty      \* bound: units of an item in the cart

Controls == {"add", "buy", "quantity", "select", "group", "all", "drop", "dropSome",
             "clear", "create"}

ASSUME StorefrontAssumption ==
    /\ Plans \subseteq [use : SUBSET Controls, items : SUBSET Items,
                    slots : SUBSET Slots, keys : 0..MaxKeys, others : BOOLEAN]
    /\ MaxIds \in Nat /\ Cardinality(Items) <= MaxIds /\ MaxKeys \in Nat /\ MaxQty \in Nat \ {0}

VARIABLES
    plan,     \* the controls this visitor uses
    goods,    \* goods[i]: what the catalog says of item i
    cart,     \* cart[i]: the row of item i, id 0 when there is none
    rows,     \* how many rows were made
    orders,   \* orders[r]: the order made of row r
    loaded,   \* the cart has been read once
    view,     \* the cart as the tab has it cached
    fetch,    \* the read of the cart under way
    page,     \* the page shown
    ids,      \* the rows in the address of the last checkout page
    preview,  \* what the checkout page was told of them
    locked,   \* the controls the page has locked
    key,      \* the "checkout" key in sessionStorage, 0 when there is none
    keys,     \* how many keys were made
    calls,    \* calls[s]: a call under way
    told,     \* bookkeeping: the keys the visitor was shown orders of
    astray,   \* bookkeeping: keys given up at the end of another submission
    missed    \* bookkeeping: why the cart may differ from what was read of it: a call
              \* or a read was "lost", or a refetch "joined" a read already answered

server == <<goods, cart, rows, orders>>
cache == <<loaded, view, fetch, missed>>
screen == <<page, ids, preview, locked, key, keys>>
shown == <<told, astray>>
vars == <<plan, server, cache, screen, calls, shown>>

Ids == 1..MaxIds
\* "one": a single unit left; "off": taken off sale, or sold out.
Goods == {"many", "one", "off"}
Row == [id : 0..MaxIds, n : 0..MaxQty, sel : BOOLEAN]
NoRow == [id |-> 0, n |-> 0, sel |-> FALSE]
ViewRow == [id : 0..MaxIds, n : 0..MaxQty, sel : BOOLEAN, valid : BOOLEAN]
Order == [st : {"none", "open", "cancelled"}, key : 0..MaxKeys]
NoOrder == [st |-> "none", key |-> 0]

\* "here": the page that made the call is still shown; "waits": the tab has
\* not given up on it; "raced": a submission with the same key got its order
\* while this one was on its way.
Call == [st : {"none", "sent", "ok", "bad", "conflict"}, do : Controls,
         item : Items \cup {0}, on : SUBSET Ids, n : 0..MaxQty, sel : BOOLEAN,
         key : 0..MaxKeys, failed : BOOLEAN, here : BOOLEAN, waits : BOOLEAN, raced : BOOLEAN]
NoCall == [st |-> "none", do |-> "add", item |-> 0, on |-> {}, n |-> 0, sel |-> FALSE,
           key |-> 0, failed |-> FALSE, here |-> TRUE, waits |-> TRUE, raced |-> FALSE]
Asks(do, item, on, n, sel, k) ==
    [st |-> "sent", do |-> do, item |-> item, on |-> on, n |-> n, sel |-> sel,
     key |-> k, failed |-> FALSE, here |-> TRUE, waits |-> TRUE, raced |-> FALSE]

TypeOK ==
    /\ plan \in Plans
    /\ goods \in [Items -> Goods]
    /\ cart \in [Items -> Row]
    /\ rows \in 0..MaxIds
    /\ orders \in [Ids -> Order]
    /\ loaded \in BOOLEAN /\ missed \subseteq {"lost", "joined"}
    /\ view \in [Items -> ViewRow]
    /\ fetch.st \in {"idle", "asked", "read"} /\ fetch.data \in [Items -> ViewRow]
    /\ page \in {"product", "cart", "checkout", "orders"}
    /\ ids \subseteq Ids
    /\ preview \in [st : {"none", "shown"}, short : SUBSET Ids, off : SUBSET Ids]
    /\ locked \subseteq Items \cup Controls
    /\ key \in 0..MaxKeys /\ keys \in 0..MaxKeys
    /\ calls \in [Slots -> Call]
    /\ told \subseteq 1..MaxKeys /\ astray \subseteq 1..MaxKeys

-----------------------------------------------------------------------------
(* The endpoints of the backend. *)

\* _judge_status: is this SKU still sold?
Judged(i) == goods[i] # "off"
Stock(i) == IF goods[i] = "many" THEN MaxQty ELSE IF goods[i] = "one" THEN 1 ELSE 0

RowsIn(on) == {i \in Items : cart[i].id \in on \ {0}}
Missing(on) == on \ {cart[i].id : i \in Items}

\* get_cart_grouped.
CartRead == [i \in Items |-> [id |-> cart[i].id, n |-> cart[i].n, sel |-> cart[i].sel,
                              valid |-> Judged(i)]]
NoCart == [i \in Items |-> [id |-> 0, n |-> 0, sel |-> FALSE, valid |-> FALSE]]

\* add: a second unit goes to the row there is; the row is selected again.
AddRefused(i) == cart[i].n + 1 > Stock(i)
Added(i) ==
    /\ cart' = [cart EXCEPT ![i] = IF @.id = 0
                                   THEN [id |-> rows + 1, n |-> 1, sel |-> TRUE]
                                   ELSE [@ EXCEPT !.n = @ + 1, !.sel = TRUE]]
    /\ rows' = IF cart[i].id = 0 THEN rows + 1 ELSE rows

\* update_item with a quantity, or with "selected" alone.
QuantityRefused(c) == Missing(c.on) # {} \/ \E i \in RowsIn(c.on) : c.n > Stock(i)
Updated(c) ==
    cart' = [i \in Items |-> IF i \notin RowsIn(c.on) THEN cart[i]
                             ELSE IF c.do = "quantity" THEN [cart[i] EXCEPT !.n = c.n]
                             ELSE [cart[i] EXCEPT !.sel = c.sel]]

\* select_all, delete_, batch_delete, clear_invalid.
SelectedAll(sel) == cart' = [i \in Items |-> IF cart[i].id = 0 THEN NoRow
                                             ELSE [cart[i] EXCEPT !.sel = sel]]
Deleted(rs) == cart' = [i \in Items |-> IF i \in rs THEN NoRow ELSE cart[i]]

\* create: an order made with this key before is the answer; otherwise the
\* rows that can be ordered become an order and leave the cart.
Prior(k) == {r \in Ids : orders[r].st # "none" /\ orders[r].key = k}
Orderable(on) == {i \in RowsIn(on) : Judged(i) /\ cart[i].n <= Stock(i)}
CreateRefused(c) == Prior(c.key) = {} /\ (Missing(c.on) # {} \/ Orderable(c.on) = {})
Created(c) ==
    LET is == Orderable(c.on) IN
    IF Prior(c.key) # {} THEN UNCHANGED <<cart, orders>>
    ELSE /\ orders' = [r \in Ids |-> IF \E i \in is : cart[i].id = r
                                    THEN [st |-> "open", key |-> c.key]
                                    ELSE orders[r]]
         /\ Deleted(is)

\* An open order is cancelled or its payment time passes: _cancel_order gives
\* its key up.
Cancel(r) ==
    /\ plan.others
    /\ orders[r].st = "open"
    /\ orders' = [q \in Ids |-> IF q \in Prior(orders[r].key)
                                THEN [st |-> "cancelled", key |-> 0] ELSE orders[q]]
    /\ UNCHANGED <<plan, goods, cart, rows, cache, screen, calls, shown>>

\* The merchant, the platform or other buyers change what can be bought.
Market(i, g) ==
    /\ goods[i] # g
    /\ plan.others
    /\ \A j \in Items \ {i} : goods[j] = "many"   \* bound: one item at a time
    /\ goods' = [goods EXCEPT ![i] = g]
    /\ UNCHANGED <<plan, cart, rows, orders, cache, screen, calls, shown>>

-----------------------------------------------------------------------------
(* The cached cart. *)

\* Mutant: a read under way is joined, also by what it cannot have seen.
RefetchJoins ==
    /\ fetch' = IF fetch.st = "idle" THEN [st |-> "asked", data |-> NoCart] ELSE fetch
    /\ missed' = missed

\* invalidateQueries: a read under way is dropped and asked again, unless it
\* is the very first one, with no data cached before it: that one is joined, also
\* when the backend has answered it already, from the cart as it was before.
Refetch ==
    IF loaded \/ fetch.st = "idle"
    THEN fetch' = [st |-> "asked", data |-> NoCart] /\ missed' = missed
    ELSE /\ fetch' = fetch
         /\ missed' = missed \cup {j \in {"joined"} : fetch.st = "read"}

\* The cart is asked for when a page mounts and what is cached is stale.
Mounted == fetch' = fetch \/ (fetch.st = "idle" /\ fetch' = [st |-> "asked", data |-> NoCart])

FetchRead ==
    /\ fetch.st = "asked"
    /\ fetch' = [st |-> "read", data |-> CartRead]
    /\ missed' = {}
    /\ UNCHANGED <<plan, server, loaded, view, screen, calls, shown>>

FetchDone ==
    /\ fetch.st = "read"
    /\ view' = fetch.data /\ loaded' = TRUE
    /\ fetch' = [st |-> "idle", data |-> NoCart]
    /\ UNCHANGED <<plan, server, missed, screen, calls, shown>>

\* Both tries of a read failed: what was cached stays.
FetchFailed ==
    /\ fetch.st # "idle"
    /\ fetch' = [st |-> "idle", data |-> NoCart]
    /\ missed' = missed \cup {"lost"}
    /\ UNCHANGED <<plan, server, loaded, view, screen, calls, shown>>

-----------------------------------------------------------------------------
(* The pages. *)

\* Going to a page: nothing of the page that was left stays locked.
GoTo(p) ==
    /\ page' = p
    /\ locked' = {}
    /\ preview' = [st |-> "none", short |-> {}, off |-> {}]

Left(cs) == [s \in Slots |-> [cs[s] EXCEPT !.here = @ /\ cs[s].st = "none"]]

Open(p) ==
    /\ page # p
    /\ p = "checkout" => ids # {}
    /\ GoTo(p)
    /\ Mounted
    /\ calls' = Left(calls)
    /\ UNCHANGED <<plan, server, loaded, view, missed, ids, key, keys, shown>>

\* One free slot takes the call.
Starts(c) ==
    /\ c.do \in plan.use
    /\ \E s \in plan.slots : calls[s].st = "none" /\ calls' = [calls EXCEPT ![s] = c]

\* The product page: each button is locked by its own call.
PressAdd(i) ==
    /\ page = "product"
    /\ "add" \notin locked
    /\ Starts(Asks("add", i, {}, 0, FALSE, 0))
    /\ locked' = locked \cup {"add"}
    /\ UNCHANGED <<plan, server, cache, page, ids, preview, key, keys, shown>>

PressBuy(i) ==
    /\ page = "product"
    /\ "buy" \notin locked
    /\ Starts(Asks("buy", i, {}, 0, FALSE, 0))
    /\ locked' = locked \cup {"buy"}
    /\ UNCHANGED <<plan, server, cache, page, ids, preview, key, keys, shown>>

\* The cart page.
OnCart == page = "cart" /\ loaded
Valid == {i \in Items : view[i].id # 0 /\ view[i].valid}
Selected == {i \in Valid : view[i].sel}
IdsOf(is) == {view[i].id : i \in is}

\* busyItemId holds one item: a second one takes its place.
Busy(i) == locked' = (locked \ Items) \cup {i}

ToggleItem(i) ==
    /\ OnCart /\ i \in Valid /\ i \notin locked
    /\ Starts(Asks("select", i, {view[i].id}, 0, ~ view[i].sel, 0))
    /\ Busy(i)
    /\ UNCHANGED <<plan, server, cache, page, ids, preview, key, keys, shown>>

ChangeQty(i, n) ==
    /\ OnCart /\ i \in Valid /\ i \notin locked
    /\ n # view[i].n
    /\ Starts(Asks("quantity", i, {view[i].id}, n, FALSE, 0))
    /\ Busy(i)
    /\ UNCHANGED <<plan, server, cache, page, ids, preview, key, keys, shown>>

RemoveItem(i) ==
    /\ OnCart /\ view[i].id # 0 /\ i \notin locked
    /\ Starts(Asks("drop", i, {view[i].id}, 0, FALSE, 0))
    /\ Busy(i)
    /\ UNCHANGED <<plan, server, cache, page, ids, preview, key, keys, shown>>

\* The header of a group and the bar lock nothing.
ToggleGroup(sel) ==
    LET change == {i \in Valid : view[i].sel # sel} IN
    /\ OnCart /\ change # {}
    /\ Starts(Asks("group", 0, IdsOf(change), 0, sel, 0))
    /\ UNCHANGED <<plan, server, cache, screen, shown>>

ToggleAll(sel) ==
    /\ OnCart /\ \E i \in Items : view[i].id # 0
    /\ sel # (Valid # {} /\ Valid = Selected)
    /\ Starts(Asks("all", 0, {}, 0, sel, 0))
    /\ UNCHANGED <<plan, server, cache, screen, shown>>

RemoveSelected ==
    /\ OnCart /\ Selected # {}
    /\ Starts(Asks("dropSome", 0, IdsOf(Selected), 0, FALSE, 0))
    /\ UNCHANGED <<plan, server, cache, screen, shown>>

ClearInvalid ==
    /\ OnCart
    /\ \E i \in Items : view[i].id # 0 /\ ~ view[i].valid
    /\ "clear" \notin locked
    /\ Starts(Asks("clear", 0, {}, 0, FALSE, 0))
    /\ locked' = locked \cup {"clear"}
    /\ UNCHANGED <<plan, server, cache, page, ids, preview, key, keys, shown>>

GoCheckout ==
    /\ OnCart /\ Selected # {} /\ "create" \in plan.use
    /\ ids' = IdsOf(Selected)
    /\ GoTo("checkout")
    /\ calls' = Left(calls)
    /\ UNCHANGED <<plan, server, cache, key, keys, shown>>

\* The checkout page asks what its rows come to; rows that are gone are an error.
PreviewShown ==
    /\ page = "checkout"
    /\ Missing(ids) = {}
    /\ preview' = [st |-> "shown",
                   off |-> {cart[i].id : i \in {j \in RowsIn(ids) : ~ Judged(j)}},
                   short |-> {cart[i].id : i \in {j \in RowsIn(ids) :
                                                    Judged(j) /\ cart[j].n > Stock(j)}}]
    /\ preview' # preview
    /\ UNCHANGED <<plan, server, cache, page, ids, locked, key, keys, calls, shown>>

\* hasBlockingWarnings knows "stock_short" and "invalid_sku"; the backend names
\* the reason of an invalid row instead and never says "invalid_sku".
Blocked == preview.short # {}

\* Mutant: every submission has a key of its own.
KeyInUseFresh == keys + 1

\* getOrCreateIdempotencyKey.
KeyInUse == IF key # 0 THEN key ELSE keys + 1

SubmitOrder ==
    /\ page = "checkout"
    /\ preview.st = "shown" /\ ~ Blocked
    /\ "create" \notin locked
    /\ KeyInUse <= plan.keys
    /\ Starts(Asks("create", 0, ids, 0, FALSE, KeyInUse))
    /\ key' = KeyInUse
    /\ keys' = IF key # 0 THEN keys ELSE keys + 1
    /\ locked' = locked \cup {"create"}
    /\ UNCHANGED <<plan, server, cache, page, ids, preview, shown>>

-----------------------------------------------------------------------------
(* The end of a call. *)

RefusedBy(c) ==
    CASE c.do \in {"add", "buy"} -> AddRefused(c.item)
      [] c.do = "quantity" -> QuantityRefused(c)
      [] c.do \in {"select", "drop"} -> Missing(c.on) # {}
      [] c.do = "create" -> CreateRefused(c)
      [] OTHER -> FALSE

Done(c) ==
    \/ c.do \in {"add", "buy"} /\ rows < MaxIds /\ Added(c.item) /\ UNCHANGED orders
    \/ c.do \in {"quantity", "select"} /\ Updated(c) /\ UNCHANGED <<rows, orders>>
    \/ c.do \in {"drop", "dropSome"} /\ Deleted(RowsIn(c.on)) /\ UNCHANGED <<rows, orders>>
    \/ c.do = "all" /\ SelectedAll(c.sel) /\ UNCHANGED <<rows, orders>>
    \/ c.do = "clear" /\ Deleted({i \in Items : ~ Judged(i)}) /\ UNCHANGED <<rows, orders>>
    \/ c.do = "create" /\ Created(c) /\ UNCHANGED rows

\* What becomes of a call nobody waits for is not seen.
Unseen(c) == {l \in {"lost"} : ~ c.waits}

\* A call nobody waits for ends where it is served.
Ended(c) == IF c.waits THEN c ELSE NoCall
Answered(s, c) ==
    /\ calls' = [calls EXCEPT ![s] = Ended(c)]
    /\ missed' = missed \cup Unseen(c)

\* Those that may have looked for the order of their key too early.
Raced(c) == {s \in Slots : /\ c.do = "create" /\ Prior(c.key) = {}
                           /\ calls[s].st = "sent" /\ calls[s].do = "create"
                           /\ calls[s].key = c.key}

\* The row a successful add or buy is answered with.
RowOf(c) == IF c.do \in {"add", "buy"} THEN {cart'[c.item].id} ELSE c.on
Succeeding(c) == [[c EXCEPT !.st = "ok"] EXCEPT !.on = RowOf(c)]

Serve(s) ==
    LET c == calls[s] IN
    /\ c.st = "sent" /\ c.do # "group"
    /\ \/ /\ RefusedBy(c)
          /\ Answered(s, [c EXCEPT !.st = "bad"])
          /\ UNCHANGED <<cart, rows, orders>>
       \/ /\ ~ RefusedBy(c)
          /\ Done(c)
          /\ calls' = [t \in Slots |->
                         CASE t = s -> Ended(Succeeding(c))
                           [] t # s /\ t \in Raced(c) -> [calls[t] EXCEPT !.raced = TRUE]
                           [] OTHER -> calls[t]]
          /\ missed' = missed \cup Unseen(c)
    /\ UNCHANGED <<plan, goods, loaded, view, fetch, screen, shown>>

\* Two submissions with one key that overlap: the second finds no order of the
\* key yet, then its rows gone, or the key in use when it inserts its order.
ServeRaced(s) ==
    /\ calls[s].st = "sent" /\ calls[s].raced /\ Prior(calls[s].key) # {}
    /\ \E st \in {"bad", "conflict"} : Answered(s, [calls[s] EXCEPT !.st = st])
    /\ UNCHANGED <<plan, server, loaded, view, fetch, screen, shown>>

\* toggleGroup sends one call per row, in any order.
ServeOne(s) ==
    LET c == calls[s] IN
    /\ c.st = "sent" /\ c.do = "group"
    /\ \E r \in c.on :
        LET gone == Missing({r}) # {}
            rest == [[c EXCEPT !.on = @ \ {r}] EXCEPT !.failed = @ \/ gone] IN
        /\ Updated([c EXCEPT !.on = {r}])
        /\ IF rest.on # {}
           THEN calls' = [calls EXCEPT ![s] = rest] /\ missed' = missed \cup Unseen(c)
           ELSE Answered(s, [rest EXCEPT !.st = IF rest.failed THEN "bad" ELSE "ok"])
    /\ UNCHANGED <<plan, goods, rows, orders, loaded, view, fetch, screen, shown>>

\* The finally block: the page unlocks what the call had locked.
Unlock(c) == IF c.item \in Items /\ c.do \notin {"add", "buy"} THEN locked \ Items
             ELSE locked \ {c.do}

\* An error: a toast, nothing is asked again.
Failed(s) ==
    /\ calls[s].st = "bad"
    /\ missed' = missed \cup {l \in {"lost"} : calls[s].failed}
    /\ locked' = IF calls[s].here THEN Unlock(calls[s]) ELSE locked
    /\ calls' = [calls EXCEPT ![s] = NoCall]
    /\ UNCHANGED <<plan, server, loaded, view, fetch, page, ids, preview, key, keys, shown>>

\* The answer is lost or fifteen seconds pass; the server may still get to it.
GivenUp(s) ==
    /\ calls[s].st # "none" /\ calls[s].waits
    /\ missed' = missed \cup {"lost"}
    /\ locked' = IF calls[s].here THEN Unlock(calls[s]) ELSE locked
    /\ calls' = [calls EXCEPT ![s] = IF @.st = "sent" THEN [@ EXCEPT !.waits = FALSE]
                                     ELSE NoCall]
    /\ UNCHANGED <<plan, server, loaded, view, fetch, page, ids, preview, key, keys, shown>>

\* It never gets there.
NeverCame(s) ==
    /\ calls[s].st = "sent" /\ ~ calls[s].waits
    /\ calls' = [calls EXCEPT ![s] = NoCall]
    /\ UNCHANGED <<plan, server, cache, screen, shown>>

\* Success: the cart is asked again, whatever page is shown by then.
Succeeded(s) ==
    /\ calls[s].st = "ok" /\ calls[s].do \notin {"buy", "create"}
    /\ Refetch
    /\ locked' = IF calls[s].here THEN Unlock(calls[s]) ELSE locked
    /\ calls' = [calls EXCEPT ![s] = NoCall]
    /\ UNCHANGED <<plan, server, loaded, view, page, ids, preview, key, keys, shown>>

\* handleBuyNow goes to the checkout of the row it was given.
Bought(s) ==
    /\ calls[s].st = "ok" /\ calls[s].do = "buy"
    /\ Refetch
    /\ GoTo("checkout")
    /\ ids' = calls[s].on
    /\ calls' = Left([calls EXCEPT ![s] = NoCall])
    /\ UNCHANGED <<plan, server, loaded, view, key, keys, shown>>

\* Mutant: the key is kept after the answer.
ShownKeepsKey(k) ==
    /\ key' = key
    /\ told' = told \cup {k}
    /\ astray' = astray
    /\ GoTo("orders")

\* submitOrder clears the key in use, whichever it is by now, and goes to the
\* orders.
Shown(k) ==
    /\ key' = 0
    /\ told' = told \cup {k}
    /\ astray' = astray \cup ({key} \ {0, k})
    /\ GoTo("orders")

Ordered(s) ==
    /\ calls[s].st = "ok" /\ calls[s].do = "create"
    /\ Refetch
    /\ Shown(calls[s].key)
    /\ calls' = Left([calls EXCEPT ![s] = NoCall])
    /\ UNCHANGED <<plan, server, loaded, view, ids, keys>>

\* The conflict is taken for an order that was made; the cart is not asked again.
Conflicted(s) ==
    /\ calls[s].st = "conflict" /\ calls[s].do = "create"
    /\ Shown(calls[s].key)
    /\ calls' = Left([calls EXCEPT ![s] = NoCall])
    /\ UNCHANGED <<plan, server, cache, ids, keys>>

-----------------------------------------------------------------------------
Init ==
    /\ plan \in Plans
    /\ goods = [i \in Items |-> "many"]
    /\ \E id \in [plan.items -> 1..Cardinality(plan.items)] :
            /\ \A i, j \in plan.items : id[i] = id[j] => i = j
            /\ cart = [i \in Items |-> IF i \in plan.items
                                      THEN [id |-> id[i], n |-> 1, sel |-> TRUE]
                                      ELSE NoRow]
    /\ rows = Cardinality(plan.items) /\ orders = [r \in Ids |-> NoOrder]
    /\ loaded = FALSE /\ view = NoCart /\ missed = {}
    /\ fetch = [st |-> "asked", data |-> NoCart]
    /\ page = "cart" /\ ids = {} /\ locked = {}
    /\ preview = [st |-> "none", short |-> {}, off |-> {}]
    /\ key = 0 /\ keys = 0
    /\ calls = [s \in Slots |-> NoCall] /\ told = {} /\ astray = {}

Visitor ==
    \/ \E p \in {"product", "cart", "checkout"} : Open(p)
    \/ \E i \in plan.items : PressAdd(i) \/ PressBuy(i) \/ ToggleItem(i) \/ RemoveItem(i)
    \/ \E i \in Items, n \in 1..MaxQty : ChangeQty(i, n)
    \/ \E sel \in BOOLEAN : ToggleGroup(sel) \/ ToggleAll(sel)
    \/ RemoveSelected \/ ClearInvalid \/ GoCheckout \/ SubmitOrder

Tab ==
    \/ FetchRead \/ FetchDone \/ FetchFailed \/ PreviewShown
    \/ \E s \in Slots :
            \/ Serve(s) \/ ServeRaced(s) \/ ServeOne(s) \/ Failed(s) \/ GivenUp(s)
            \/ NeverCame(s) \/ Succeeded(s) \/ Bought(s) \/ Ordered(s) \/ Conflicted(s)

Others ==
    \/ \E r \in Ids : Cancel(r)
    \/ \E i \in plan.items, g \in Goods : Market(i, g)

Next == Visitor \/ Tab \/ Others

Spec == Init /\ [][Next]_vars

-----------------------------------------------------------------------------
(* Properties. *)

Quiet == fetch.st = "idle" /\ loaded /\ \A s \in Slots : calls[s].st = "none"

ShowsCart ==
    \A i \in Items : view[i].id = cart[i].id /\ view[i].n = cart[i].n /\ view[i].sel = cart[i].sel

\* When nothing is under way, the cart that is shown is the cart on the server:
\* a read that began before a change does not have the last word, with two
\* exceptions.  Since the last read of the cart a call was lost, answered late or
\* failed half-way; or a change ended while the very first read of the cart, answered
\* before the change, was on its way back (hooks/useCart.ts, invalidate after every
\* success).
CartShown == Quiet /\ missed = {} => ShowsCart

\* hooks/useCart.ts:49: after a change the cart is asked for again.  With no call
\* lost, then, it is shown as it is once nothing is under way: the code does not
\* keep this where a change ends during the first read of the cart.
CartAskedAgain == Quiet /\ "lost" \notin missed => ShowsCart

\* A key kept in sessionStorage stands for an answer the visitor has not seen:
\* a new checkout never meets an old one it was told of (lib/idempotency.ts).
KeyUnseen == key # 0 /\ Prior(key) # {} => key \notin told

\* A submission with the key of the tab, which no other overtook, is refused over
\* a row that an open order holds.
RefusedOver(s, r) ==
    /\ calls[s].st = "sent" /\ calls[s].do = "create" /\ calls[s].key = key
    /\ calls'[s].st = "bad" /\ ~ calls[s].raced
    /\ r \in calls[s].on /\ orders[r].st = "open"

\* Submitting again after lost answers finds the order of an earlier try: a
\* submission with the key of the tab is refused over a row that an open order
\* holds only if it overlapped with that try, or if that checkout had ended
\* before the visitor's eyes, or its key was given up when a still earlier
\* submission came to its end (checkout/page.tsx: the key is kept until an answer
\* was seen).
RetryFindsOrders ==
    [][\A s \in Slots, r \in Ids : RefusedOver(s, r) => orders[r].key \in told \cup astray]_vars

\* lib/idempotency.ts:9: one checkout, however often it is tried, goes under one
\* key, so that a retry is refused only over orders the visitor was shown.  The
\* code does not keep this when an earlier submission is answered late: it clears
\* the key of the checkout that is under way by then.
RetryKeepsKey ==
    [][\A s \in Slots, r \in Ids : RefusedOver(s, r) => orders[r].key \in told]_vars

\* The checkout page does not submit while a row it shows cannot be ordered
\* (docs/API/phase-3-contracts.md: a warning blocks the submission).
SubmitsOrderable ==
    \A s \in Slots :
        calls[s].st = "sent" /\ calls[s].do = "create" /\ calls[s].here => preview.off = {}

\* The orders a checkout goes on with are made of the rows it asked for
\* (lib/idempotency.ts: the key is given up when the visitor leaves).
OwnOrders ==
    \A s \in Slots :
        calls[s].st = "ok" /\ calls[s].do = "create" =>
            Prior(calls[s].key) \subseteq calls[s].on
=============================================================================
