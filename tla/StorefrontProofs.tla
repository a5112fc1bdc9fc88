-------------------------- MODULE StorefrontProofs --------------------------
(***************************************************************************)
(* Proofs about Storefront, for any items, slots, plans and bounds: the    *)
(* idempotency key of the checkout, and the cart that is shown.            *)
(***************************************************************************)
EXTENDS Storefront, TLAPS

-----------------------------------------------------------------------------
(* The inductive invariant. *)

\* The keys a submission or an open order may carry.
Given == (told \cup astray \cup {key}) \ {0}

Shape(c) ==
    /\ c = [st |-> c.st, do |-> c.do, item |-> c.item, on |-> c.on, n |-> c.n, sel |-> c.sel,
            key |-> c.key, failed |-> c.failed, here |-> c.here, waits |-> c.waits,
            raced |-> c.raced]

Submission(c) == c.st # "none" /\ c.do = "create"

Keys ==
    /\ plan \in Plans
    /\ keys \in Nat /\ key \in 0..keys
    /\ told \subseteq 1..keys /\ astray \subseteq 1..keys
    /\ key \notin told

Calls ==
    /\ calls = [s \in Slots |-> calls[s]]
    /\ \A s \in Slots : Shape(calls[s]) /\ (Submission(calls[s]) => calls[s].key \in Given)

OpenOrders == \A r \in Ids : orders[r].st = "open" => orders[r].key \in Given

KInv == Keys /\ Calls /\ OpenOrders

\* A submission is refused only when no order of its key is found, or it raced.
Refusals ==
    \A s \in Slots :
        calls[s].st = "sent" /\ calls[s].do = "create" /\ calls'[s].st = "bad" =>
            calls[s].raced \/ Prior(calls[s].key) = {}

-----------------------------------------------------------------------------
\* The calls under way go on: no new submission, no refusal.
GoesOn(c, d) ==
    /\ Shape(d)
    /\ Submission(d) => Submission(c) /\ d.key = c.key
    /\ c.st = "sent" /\ c.do = "create" /\ d.st = "bad" => c.raced \/ Prior(c.key) = {}

LEMMA CallsGoOn ==
  ASSUME KInv, UNCHANGED <<plan, key, keys, told, astray>>,
         \A r \in Ids : orders'[r].st = "open" => orders[r].st = "open" /\ orders'[r] = orders[r],
         calls' = [s \in Slots |-> calls'[s]],
         \A s \in Slots : GoesOn(calls[s], calls'[s])
  PROVE  KInv' /\ Refusals
<1>1. Keys' /\ Given' = Given
  BY DEF KInv, Keys, Given
<1>2. Calls'
  BY <1>1 DEF KInv, Calls, GoesOn
<1>3. OpenOrders' /\ Refusals
  BY <1>1 DEF KInv, OpenOrders, GoesOn, Refusals
<1> QED  BY <1>1, <1>2, <1>3 DEF KInv

LEMMA SameCall ==
  ASSUME NEW c, Shape(c)
  PROVE  GoesOn(c, c)
  BY DEF GoesOn

\* Steps that touch neither the calls nor the key.
LEMMA Elsewhere ==
  ASSUME KInv, UNCHANGED <<plan, key, keys, told, astray, calls, orders>>
  PROVE  KInv' /\ Refusals
<1>1. Keys' /\ Given' = Given
  BY DEF KInv, Keys, Given
<1> QED  BY <1>1 DEF KInv, Calls, OpenOrders, Refusals

LEMMA OneCall ==
  ASSUME KInv, UNCHANGED <<plan, key, keys, told, astray, orders>>,
         NEW s \in Slots, NEW d, GoesOn(calls[s], d),
         calls' = [calls EXCEPT ![s] = d]
  PROVE  KInv' /\ Refusals
<1>1. \A t \in Slots : calls'[t] = IF t = s THEN d ELSE calls[t]
  BY DEF KInv, Calls
<1>2. \A t \in Slots : GoesOn(calls[t], calls'[t])
  BY <1>1, SameCall DEF KInv, Calls
<1>3. calls' = [t \in Slots |-> calls'[t]]
  BY DEF KInv, Calls
<1> QED  BY <1>2, <1>3, CallsGoOn

LEMMA NoCallGoesOn ==
  ASSUME NEW c
  PROVE  GoesOn(c, NoCall)
  BY DEF GoesOn, Shape, Submission, NoCall

\* A call of another kind is sent.
LEMMA StartsInv ==
  ASSUME KInv, UNCHANGED <<plan, key, keys, told, astray, orders>>,
         NEW c, Shape(c), c.st = "sent", c.do # "create", Starts(c)
  PROVE  KInv' /\ Refusals
<1>1. plan.slots \subseteq Slots
  BY StorefrontAssumption DEF KInv, Keys
<1>2. PICK s \in plan.slots : calls[s].st = "none" /\ calls' = [calls EXCEPT ![s] = c]
  BY DEF Starts
<1>3. GoesOn(calls[s], c)
  BY <1>2 DEF GoesOn, Submission
<1> QED  BY <1>1, <1>2, <1>3, OneCall

\* The page is left.
LEMMA LeftInv ==
  ASSUME KInv, UNCHANGED <<plan, key, keys, told, astray, orders>>,
         NEW cs, cs = [s \in Slots |-> cs[s]], \A s \in Slots : GoesOn(calls[s], cs[s]),
         calls' = Left(cs)
  PROVE  KInv' /\ Refusals
<1>1. \A s \in Slots : GoesOn(calls[s], [cs[s] EXCEPT !.here = @ /\ cs[s].st = "none"])
  <2>1. SUFFICES ASSUME NEW s \in Slots
                 PROVE  GoesOn(calls[s], [cs[s] EXCEPT !.here = @ /\ cs[s].st = "none"])
    OBVIOUS
  <2>2. PICK here : here = (cs[s].here /\ cs[s].st = "none")
    OBVIOUS
  <2>3. PICK d : d = [cs[s] EXCEPT !.here = here]
    OBVIOUS
  <2>4. /\ Shape(d) /\ d.st = cs[s].st /\ d.do = cs[s].do /\ d.key = cs[s].key
    BY <2>3 DEF GoesOn, Shape
  <2>5. GoesOn(calls[s], d)
    BY <2>4 DEF GoesOn, Submission
  <2> QED  BY <2>2, <2>3, <2>5
<1>2. /\ calls' = [s \in Slots |-> calls'[s]]
      /\ \A s \in Slots : calls'[s] = [cs[s] EXCEPT !.here = @ /\ cs[s].st = "none"]
  BY DEF Left
<1> QED  BY <1>1, <1>2, CallsGoOn

LEMMA OpenInv ==
  ASSUME KInv, NEW p, Open(p) \/ GoCheckout
  PROVE  KInv' /\ Refusals
<1>1. UNCHANGED <<plan, key, keys, told, astray, orders>> /\ calls' = Left(calls)
  BY DEF Open, GoCheckout, server, shown
<1>2. calls = [s \in Slots |-> calls[s]] /\ \A s \in Slots : GoesOn(calls[s], calls[s])
  BY SameCall DEF KInv, Calls
<1> QED  BY <1>1, <1>2, LeftInv

-----------------------------------------------------------------------------
(* The visitor's commands. *)

LEMMA AsksShape ==
  ASSUME NEW do, NEW item, NEW on, NEW n, NEW sel, NEW k
  PROVE  /\ Shape(Asks(do, item, on, n, sel, k))
         /\ Asks(do, item, on, n, sel, k).st = "sent"
         /\ Asks(do, item, on, n, sel, k).do = do
         /\ Asks(do, item, on, n, sel, k).key = k
  BY DEF Asks, Shape

LEMMA CommandInv ==
  ASSUME KInv,
         \/ \E i \in plan.items : PressAdd(i) \/ PressBuy(i) \/ ToggleItem(i) \/ RemoveItem(i)
         \/ \E i \in Items, n \in 1..MaxQty : ChangeQty(i, n)
         \/ \E sel \in BOOLEAN : ToggleGroup(sel) \/ ToggleAll(sel)
         \/ RemoveSelected \/ ClearInvalid
  PROVE  KInv' /\ Refusals
<1>1. UNCHANGED <<plan, key, keys, told, astray, orders>>
  BY DEF PressAdd, PressBuy, ToggleItem, RemoveItem, ChangeQty, ToggleGroup, ToggleAll,
         RemoveSelected, ClearInvalid, server, screen, shown
<1>2. \E do, item, on, n, sel :
        do \in Controls \ {"create"} /\ Starts(Asks(do, item, on, n, sel, 0))
  <2>1. CASE \E i \in plan.items : PressAdd(i) \/ PressBuy(i) \/ ToggleItem(i) \/ RemoveItem(i)
    BY <2>1 DEF PressAdd, PressBuy, ToggleItem, RemoveItem, Controls
  <2>2. CASE \E i \in Items, n \in 1..MaxQty : ChangeQty(i, n)
    BY <2>2 DEF ChangeQty, Controls
  <2>3. CASE \E sel \in BOOLEAN : ToggleGroup(sel) \/ ToggleAll(sel)
    BY <2>3 DEF ToggleGroup, ToggleAll, Controls
  <2>4. CASE RemoveSelected \/ ClearInvalid
    BY <2>4 DEF RemoveSelected, ClearInvalid, Controls
  <2> QED  BY <2>1, <2>2, <2>3, <2>4
<1>3. PICK do, item, on, n, sel :
        do \in Controls \ {"create"} /\ Starts(Asks(do, item, on, n, sel, 0))
  BY <1>2
<1>4. PICK c : c = Asks(do, item, on, n, sel, 0)
  OBVIOUS
<1>5. Shape(c) /\ c.st = "sent" /\ c.do # "create"
  BY <1>3, <1>4, AsksShape
<1> QED  BY <1>1, <1>3, <1>4, <1>5, StartsInv

\* Only a new submission makes a new key, one that nobody was told of.
LEMMA SubmitOrderInv ==
  ASSUME KInv, SubmitOrder
  PROVE  KInv' /\ Refusals
<1>1. PICK k : k = KeyInUse
  OBVIOUS
<1>2. /\ key' = k /\ keys' = (IF key # 0 THEN keys ELSE keys + 1)
      /\ UNCHANGED <<plan, told, astray, orders>>
  BY <1>1 DEF SubmitOrder, server, shown
<1>3. Keys' /\ Given \subseteq Given' /\ k \in Given'
  BY <1>1, <1>2 DEF KeyInUse, KInv, Keys, Given
<1>4. PICK c : c = Asks("create", 0, ids, 0, FALSE, k)
  OBVIOUS
<1>5. Shape(c) /\ c.st = "sent" /\ c.do = "create" /\ c.key = k
  BY <1>4 DEF Asks, Shape
<1>6. PICK s \in Slots : calls[s].st = "none" /\ calls' = [calls EXCEPT ![s] = c]
  <2>1. plan.slots \subseteq Slots
    BY StorefrontAssumption DEF KInv, Keys
  <2>2. Starts(c)
    BY <1>1, <1>4 DEF SubmitOrder
  <2> QED  BY <2>1, <2>2 DEF Starts
<1>7. \A t \in Slots : calls'[t] = IF t = s THEN c ELSE calls[t]
  BY <1>6 DEF KInv, Calls
<1>8. Calls'
  <2>1. calls' = [t \in Slots |-> calls'[t]]
    BY <1>6 DEF KInv, Calls
  <2> QED  BY <1>3, <1>5, <1>7, <2>1 DEF KInv, Calls
<1>9. OpenOrders'
  BY <1>2, <1>3 DEF KInv, OpenOrders
<1>10. Refusals
  BY <1>6, <1>7 DEF Refusals
<1> QED  BY <1>3, <1>8, <1>9, <1>10 DEF KInv

-----------------------------------------------------------------------------
(* The end of a call. *)

\* A call ends without more ado.
LEMMA EndInv ==
  ASSUME KInv, NEW s \in Slots, Failed(s) \/ NeverCame(s) \/ Succeeded(s)
  PROVE  KInv' /\ Refusals
<1>1. /\ UNCHANGED <<plan, key, keys, told, astray, orders>>
      /\ calls' = [calls EXCEPT ![s] = NoCall]
  BY DEF Failed, NeverCame, Succeeded, server, screen, shown
<1> QED  BY <1>1, NoCallGoesOn, OneCall

LEMMA GivenUpInv ==
  ASSUME KInv, NEW s \in Slots, GivenUp(s)
  PROVE  KInv' /\ Refusals
<1>1. UNCHANGED <<plan, key, keys, told, astray, orders>>
  BY DEF GivenUp, server, shown
<1>2. PICK d : d = IF calls[s].st = "sent" THEN [calls[s] EXCEPT !.waits = FALSE] ELSE NoCall
  OBVIOUS
<1>3. calls' = [calls EXCEPT ![s] = d]
  BY <1>2 DEF GivenUp
<1>4. GoesOn(calls[s], d)
  <2>1. CASE calls[s].st = "sent"
    <3>1. d = [calls[s] EXCEPT !.waits = FALSE] /\ Shape(calls[s])
      BY <1>2, <2>1 DEF KInv, Calls
    <3>2. Shape(d) /\ d.st = calls[s].st /\ d.do = calls[s].do /\ d.key = calls[s].key
      BY <3>1 DEF Shape
    <3> QED  BY <2>1, <3>2 DEF GoesOn, Submission
  <2>2. CASE calls[s].st # "sent"
    BY <1>2, <2>2, NoCallGoesOn
  <2> QED  BY <2>1, <2>2
<1> QED  BY <1>1, <1>3, <1>4, OneCall

LEMMA BoughtInv ==
  ASSUME KInv, NEW s \in Slots, Bought(s)
  PROVE  KInv' /\ Refusals
<1>1. /\ UNCHANGED <<plan, key, keys, told, astray, orders>>
      /\ calls' = Left([calls EXCEPT ![s] = NoCall])
  BY DEF Bought, server, shown
<1>2. PICK cs : cs = [calls EXCEPT ![s] = NoCall]
  OBVIOUS
<1>3. cs = [t \in Slots |-> cs[t]] /\ \A t \in Slots : GoesOn(calls[t], cs[t])
  BY <1>2, NoCallGoesOn, SameCall DEF KInv, Calls
<1> QED  BY <1>1, <1>2, <1>3, LeftInv

\* What is left of a call that has been answered.
LEMMA EndedGoesOn ==
  ASSUME NEW c, NEW d, GoesOn(c, d)
  PROVE  GoesOn(c, Ended(d))
  BY NoCallGoesOn DEF Ended

LEMMA ServeRacedInv ==
  ASSUME KInv, NEW s \in Slots, ServeRaced(s)
  PROVE  KInv' /\ Refusals
<1>1. UNCHANGED <<plan, key, keys, told, astray, orders>>
  BY DEF ServeRaced, server, screen, shown
<1>2. PICK st \in {"bad", "conflict"} : Answered(s, [calls[s] EXCEPT !.st = st])
  BY DEF ServeRaced
<1>3. PICK d : d = [calls[s] EXCEPT !.st = st]
  OBVIOUS
<1>4. Shape(d) /\ d.st = st /\ d.do = calls[s].do /\ d.key = calls[s].key
  BY <1>3 DEF KInv, Calls, Shape
<1>5. GoesOn(calls[s], d)
  BY <1>4 DEF GoesOn, Submission, ServeRaced
<1>6. calls' = [calls EXCEPT ![s] = Ended(d)]
  BY <1>2, <1>3 DEF Answered
<1>7. GoesOn(calls[s], Ended(d))
  BY <1>5, EndedGoesOn
<1> QED  BY <1>1, <1>6, <1>7, OneCall

LEMMA ServeOneInv ==
  ASSUME KInv, NEW s \in Slots, ServeOne(s)
  PROVE  KInv' /\ Refusals
<1>1. UNCHANGED <<plan, key, keys, told, astray, orders>>
  BY DEF ServeOne, screen, shown
<1>2. calls[s].do = "group" /\ Shape(calls[s])
  BY DEF ServeOne, KInv, Calls
<1>3. PICK r : LET gone == Missing({r}) # {}
                   rest == [[calls[s] EXCEPT !.on = @ \ {r}] EXCEPT !.failed = @ \/ gone] IN
               \/ calls' = [calls EXCEPT ![s] = rest]
               \/ calls' = [calls EXCEPT ![s] =
                              Ended([rest EXCEPT !.st = IF rest.failed THEN "bad" ELSE "ok"])]
  BY DEF ServeOne, Answered
<1>4. PICK on, failed : on = calls[s].on \ {r} /\ failed = (calls[s].failed \/ Missing({r}) # {})
  OBVIOUS
<1>5. PICK mid : mid = [calls[s] EXCEPT !.on = on]
  OBVIOUS
<1>6. Shape(mid) /\ mid.do = "group" /\ mid.failed = calls[s].failed
  BY <1>2, <1>5 DEF Shape
<1>7. PICK rest : rest = [mid EXCEPT !.failed = failed]
  OBVIOUS
<1>8. Shape(rest) /\ rest.do = "group"
  BY <1>6, <1>7 DEF Shape
<1>9. PICK st : st = IF rest.failed THEN "bad" ELSE "ok"
  OBVIOUS
<1>10. PICK d : d = [rest EXCEPT !.st = st]
  OBVIOUS
<1>11. Shape(d) /\ d.do = "group"
  BY <1>8, <1>10 DEF Shape
<1>12. \/ calls' = [calls EXCEPT ![s] = rest]
       \/ calls' = [calls EXCEPT ![s] = Ended(d)]
  <2>1. rest = [[calls[s] EXCEPT !.on = @ \ {r}] EXCEPT !.failed = @ \/ Missing({r}) # {}]
    BY <1>4, <1>5, <1>6, <1>7
  <2> QED  BY <1>3, <1>9, <1>10, <2>1
<1>13. GoesOn(calls[s], rest) /\ GoesOn(calls[s], d)
  BY <1>2, <1>8, <1>11 DEF GoesOn, Submission
<1>14. GoesOn(calls[s], Ended(d))
  BY <1>13, EndedGoesOn
<1> QED  BY <1>1, <1>12, <1>13, <1>14, OneCall

\* The backend refuses a submission only when it has no order of its key, and
\* makes an order under the key of a submission.
LEMMA ServeInv ==
  ASSUME KInv, NEW s \in Slots, Serve(s)
  PROVE  KInv' /\ Refusals
<1>1. UNCHANGED <<plan, key, keys, told, astray>> /\ calls[s].st = "sent"
  BY DEF Serve, screen, shown
<1>2. Shape(calls[s])
  BY DEF KInv, Calls
<1>3. CASE /\ RefusedBy(calls[s])
           /\ Answered(s, [calls[s] EXCEPT !.st = "bad"])
           /\ UNCHANGED <<cart, rows, orders>>
  <2>1. PICK d : d = [calls[s] EXCEPT !.st = "bad"]
    OBVIOUS
  <2>2. Shape(d) /\ d.st = "bad" /\ d.do = calls[s].do /\ d.key = calls[s].key
    BY <1>2, <2>1 DEF Shape
  <2>3. calls[s].do = "create" => Prior(calls[s].key) = {}
    BY <1>3 DEF RefusedBy, CreateRefused
  <2>4. GoesOn(calls[s], d)
    BY <1>1, <2>2, <2>3 DEF GoesOn, Submission
  <2>5. GoesOn(calls[s], Ended(d))
    BY <2>4, EndedGoesOn
  <2>6. calls' = [calls EXCEPT ![s] = Ended(d)]
    BY <1>3, <2>1 DEF Answered
  <2> QED  BY <1>1, <1>3, <2>5, <2>6, OneCall
<1>4. CASE /\ Done(calls[s])
           /\ calls' = [t \in Slots |->
                          CASE t = s -> Ended(Succeeding(calls[s]))
                            [] t # s /\ t \in Raced(calls[s]) -> [calls[t] EXCEPT !.raced = TRUE]
                            [] OTHER -> calls[t]]
  <2>1. GoesOn(calls[s], Ended(Succeeding(calls[s])))
    <3>1. PICK mid : mid = [calls[s] EXCEPT !.st = "ok"]
      OBVIOUS
    <3>2. Shape(mid) /\ mid.st = "ok" /\ mid.do = calls[s].do /\ mid.key = calls[s].key
      BY <1>2, <3>1 DEF Shape
    <3>3. PICK on : on = RowOf(calls[s])
      OBVIOUS
    <3>4. PICK d : d = [mid EXCEPT !.on = on]
      OBVIOUS
    <3>5. Shape(d) /\ d.st = "ok" /\ d.do = calls[s].do /\ d.key = calls[s].key
      BY <3>2, <3>4 DEF Shape
    <3>6. GoesOn(calls[s], d)
      BY <1>1, <3>5 DEF GoesOn, Submission
    <3>7. d = Succeeding(calls[s])
      BY <3>1, <3>3, <3>4 DEF Succeeding
    <3> QED  BY <3>6, <3>7, EndedGoesOn
  <2>2. \A t \in Slots : GoesOn(calls[t], [calls[t] EXCEPT !.raced = TRUE])
    <3>1. SUFFICES ASSUME NEW t \in Slots  PROVE GoesOn(calls[t], [calls[t] EXCEPT !.raced = TRUE])
      OBVIOUS
    <3>2. PICK d : d = [calls[t] EXCEPT !.raced = TRUE]
      OBVIOUS
    <3>3. Shape(d) /\ d.st = calls[t].st /\ d.do = calls[t].do /\ d.key = calls[t].key
      <4>1. Shape(calls[t])
        BY DEF KInv, Calls
      <4> QED  BY <3>2, <4>1 DEF Shape
    <3>4. GoesOn(calls[t], d)
      BY <3>3 DEF GoesOn, Submission
    <3> QED  BY <3>2, <3>4
  <2>3. calls' = [t \in Slots |-> calls'[t]] /\ \A t \in Slots : GoesOn(calls[t], calls'[t])
    <3>1. \A t \in Slots : GoesOn(calls[t], calls[t])
      BY SameCall DEF KInv, Calls
    <3> QED  BY <1>4, <2>1, <2>2, <3>1
  <2>4. CASE UNCHANGED orders
    BY <1>1, <2>3, <2>4, CallsGoOn
  <2>5. CASE /\ calls[s].do = "create"
             /\ \A r \in Ids : orders'[r] = orders[r] \/ orders'[r].key = calls[s].key
    <3>1. Keys' /\ Given' = Given
      BY <1>1 DEF KInv, Keys, Given
    <3>2. Calls' /\ Refusals
      BY <2>3, <3>1 DEF KInv, Calls, GoesOn, Refusals
    <3>3. calls[s].key \in Given
      BY <1>1, <2>5 DEF KInv, Calls, Submission
    <3>4. OpenOrders'
      BY <2>5, <3>1, <3>3 DEF KInv, OpenOrders
    <3> QED  BY <3>1, <3>2, <3>4 DEF KInv
  <2>6. \/ UNCHANGED orders
        \/ /\ calls[s].do = "create"
           /\ \A r \in Ids : orders'[r] = orders[r] \/ orders'[r].key = calls[s].key
    <3>1. CASE calls[s].do = "create" /\ Created(calls[s])
      BY <3>1 DEF Created
    <3>2. CASE UNCHANGED orders
      BY <3>2
    <3> QED  BY <1>4, <3>1, <3>2 DEF Done
  <2> QED  BY <2>4, <2>5, <2>6
<1> QED  BY <1>3, <1>4 DEF Serve

\* The answer is shown: the key in use is given up, and what it stood for is
\* remembered.
LEMMA ShownInv ==
  ASSUME KInv, NEW s \in Slots, Ordered(s) \/ Conflicted(s)
  PROVE  KInv' /\ Refusals
<1>1. PICK k : k = calls[s].key
  OBVIOUS
<1>2. /\ key' = 0 /\ told' = told \cup {k} /\ astray' = astray \cup ({key} \ {0, k})
      /\ UNCHANGED <<plan, keys, orders>>
      /\ calls' = Left([calls EXCEPT ![s] = NoCall])
  BY <1>1 DEF Ordered, Conflicted, Shown, server
<1>3. k \in Given
  BY <1>1 DEF Ordered, Conflicted, KInv, Calls, Submission
<1>4. Keys' /\ Given \subseteq Given'
  BY <1>2, <1>3 DEF KInv, Keys, Given
<1>5. PICK cs : cs = [calls EXCEPT ![s] = NoCall]
  OBVIOUS
<1>6. \A t \in Slots : cs[t] = (IF t = s THEN NoCall ELSE calls[t])
  BY <1>5 DEF KInv, Calls
<1>7. \A t \in Slots : Shape(cs[t]) /\ (Submission(cs[t]) => cs[t].key \in Given)
  BY <1>6 DEF KInv, Calls, Shape, Submission, NoCall
<1>8. \A t \in Slots : /\ Shape(calls'[t]) /\ calls'[t].st = cs[t].st
                       /\ calls'[t].do = cs[t].do /\ calls'[t].key = cs[t].key
  <2>1. SUFFICES ASSUME NEW t \in Slots
                 PROVE  /\ Shape(calls'[t]) /\ calls'[t].st = cs[t].st
                        /\ calls'[t].do = cs[t].do /\ calls'[t].key = cs[t].key
    OBVIOUS
  <2>2. PICK here : here = (cs[t].here /\ cs[t].st = "none")
    OBVIOUS
  <2>3. calls'[t] = [cs[t] EXCEPT !.here = here]
    BY <1>2, <1>5, <2>2 DEF Left
  <2> QED  BY <1>7, <2>3 DEF Shape
<1>9. Calls' /\ Refusals
  <2>1. calls' = [t \in Slots |-> calls'[t]]
    BY <1>2 DEF Left
  <2>2. Calls'
    BY <1>4, <1>7, <1>8, <2>1 DEF Calls, Submission
  <2>3. Refusals
    BY <1>6, <1>8 DEF Refusals, NoCall
  <2> QED  BY <2>2, <2>3
<1>10. OpenOrders'
  BY <1>2, <1>4 DEF KInv, OpenOrders
<1> QED  BY <1>4, <1>9, <1>10 DEF KInv

-----------------------------------------------------------------------------
LEMMA KeyInit ==
  ASSUME Init
  PROVE  KInv
<1>1. Keys /\ told = {} /\ astray = {} /\ key = 0
  BY DEF Init, Keys
<1>2. calls = [s \in Slots |-> NoCall] /\ \A r \in Ids : orders[r] = NoOrder
  BY DEF Init
<1>3. Calls
  BY <1>2 DEF Calls, Shape, Submission, NoCall
<1>4. OpenOrders
  BY <1>2 DEF OpenOrders, NoOrder
<1> QED  BY <1>1, <1>3, <1>4 DEF KInv

LEMMA CancelInv ==
  ASSUME KInv, NEW r \in Ids, Cancel(r)
  PROVE  KInv' /\ Refusals
<1>1. UNCHANGED <<plan, key, keys, told, astray, calls>>
  BY DEF Cancel, screen, shown
<1>2. \A q \in Ids : orders'[q].st = "open" => orders'[q] = orders[q]
  BY DEF Cancel
<1>3. Keys' /\ Given' = Given
  BY <1>1 DEF KInv, Keys, Given
<1>4. OpenOrders'
  BY <1>2, <1>3 DEF KInv, OpenOrders
<1> QED  BY <1>1, <1>3, <1>4 DEF KInv, Calls, Refusals

LEMMA KeyStep ==
  ASSUME KInv, [Next]_vars
  PROVE  KInv' /\ Refusals
<1>1. CASE UNCHANGED vars
  BY <1>1, Elsewhere DEF vars, server, screen, shown
<1>2. CASE Visitor
  <2>1. CASE \E p \in {"product", "cart", "checkout"} : Open(p)
    BY <2>1, OpenInv
  <2>2. CASE GoCheckout
    BY <2>2, OpenInv
  <2>3. CASE SubmitOrder
    BY <2>3, SubmitOrderInv
  <2> QED  BY <1>2, <2>1, <2>2, <2>3, CommandInv DEF Visitor
<1>3. CASE Tab
  <2>1. CASE FetchRead \/ FetchDone \/ FetchFailed \/ PreviewShown
    BY <2>1, Elsewhere DEF FetchRead, FetchDone, FetchFailed, PreviewShown, server, cache,
       screen, shown
  <2>2. ASSUME NEW s \in Slots,
               \/ Serve(s) \/ ServeRaced(s) \/ ServeOne(s) \/ Failed(s) \/ GivenUp(s)
               \/ NeverCame(s) \/ Succeeded(s) \/ Bought(s) \/ Ordered(s) \/ Conflicted(s)
        PROVE  KInv' /\ Refusals
    <3>1. CASE Serve(s) \/ ServeRaced(s) \/ ServeOne(s)
      BY <3>1, ServeInv, ServeRacedInv, ServeOneInv
    <3>2. CASE Failed(s) \/ NeverCame(s) \/ Succeeded(s)
      BY <3>2, EndInv
    <3>3. CASE GivenUp(s) \/ Bought(s)
      BY <3>3, GivenUpInv, BoughtInv
    <3>4. CASE Ordered(s) \/ Conflicted(s)
      BY <3>4, ShownInv
    <3> QED  BY <2>2, <3>1, <3>2, <3>3, <3>4
  <2> QED  BY <1>3, <2>1, <2>2 DEF Tab
<1>4. CASE Others
  <2>1. CASE \E r \in Ids : Cancel(r)
    BY <2>1, CancelInv
  <2>2. CASE \E i \in plan.items, g \in Goods : Market(i, g)
    BY <2>2, Elsewhere DEF Market, cache, screen, shown
  <2> QED  BY <1>4, <2>1, <2>2 DEF Others
<1> QED  BY <1>1, <1>2, <1>3, <1>4 DEF Next

LEMMA KeyInvariant == Spec => []KInv
<1>1. KInv /\ [Next]_vars => KInv'
  BY KeyStep
<1> QED  BY <1>1, KeyInit, PTL DEF Spec

\* However many items, slots and keys there are: a new checkout never goes under
\* the key of an order the visitor was shown.
THEOREM KeysAreUnseen == Spec => []KeyUnseen
<1>1. KInv => KeyUnseen
  BY DEF KInv, Keys, KeyUnseen
<1> QED  BY <1>1, KeyInvariant, PTL

\* However calls overlap, are lost, come late or are given up: a submission under
\* the key of the tab is refused over a row of an open order only if the two
\* overlapped, or the visitor was shown that order (its key is told), or the late end
\* of a still earlier submission had given that order's key up (it went astray:
\* RetryKeepsKey, which the code does not keep, leaves this exception out).
THEOREM RetriesFindOrders == Spec => RetryFindsOrders
<1> DEFINE Step ==
       \A s \in Slots, r \in Ids : RefusedOver(s, r) => orders[r].key \in told \cup astray
<1>1. KInv /\ [Next]_vars => Step
  <2>1. SUFFICES ASSUME KInv, [Next]_vars,
                        NEW s \in Slots, NEW r \in Ids,
                        calls[s].st = "sent", calls[s].do = "create", calls[s].key = key,
                        calls'[s].st = "bad", ~ calls[s].raced, orders[r].st = "open"
                 PROVE  orders[r].key \in told \cup astray
    BY DEF RefusedOver
  <2>2. Prior(key) = {}
    BY <2>1, KeyStep DEF Refusals
  <2>3. orders[r].key # key
    BY <2>1, <2>2 DEF Prior
  <2> QED  BY <2>1, <2>3 DEF KInv, OpenOrders, Given
<1>2. KInv /\ [Next]_vars => [Step]_vars
  BY <1>1
<1> HIDE DEF Step
<1>3. Spec => [][Step]_vars
  BY <1>2, KeyInvariant, PTL DEF Spec
<1> QED  BY <1>3 DEF RetryFindsOrders, Step

-----------------------------------------------------------------------------
(* The cart that is shown.  Either a read is still to come, or an answer   *)
(* that will ask for one, or a loss is on record, or the copy is current.  *)

\* A call whose end asks for the cart again, or records that it may have changed.
Owes(c) ==
    \/ c.st = "ok"
    \/ c.do = "group" /\ ((c.st = "sent" /\ c.waits) \/ c.st = "bad")

Matches(v) ==
    \A i \in Items : v[i].id = cart[i].id /\ v[i].n = cart[i].n /\ v[i].sel = cart[i].sel

CartFollows ==
    \/ missed # {}
    \/ \E s \in Slots : Owes(calls[s])
    \/ fetch.st = "asked"
    \/ fetch.st = "read" /\ Matches(fetch.data)
    \/ fetch.st = "idle" /\ loaded /\ Matches(view)

\* Only submissions race, nobody waits in vain for a success, and the calls of a
\* group end badly only when one of its rows was gone.
Kind(c) ==
    /\ (c.raced \/ c.st = "conflict") => c.do = "create"
    /\ c.st = "ok" => c.waits
    /\ (c.st = "bad" /\ c.do = "group") => c.failed

FInv ==
    /\ fetch.st \in {"idle", "asked", "read"}
    /\ \A s \in Slots : Kind(calls[s])
    /\ CartFollows

\* What a call tells of the cart does not depend on the page that made it.
LEMMA LeftTells ==
  ASSUME NEW cs, \A s \in Slots : Shape(cs[s])
  PROVE  \A s \in Slots : /\ Kind(Left(cs)[s]) <=> Kind(cs[s])
                          /\ Owes(Left(cs)[s]) <=> Owes(cs[s])
<1> SUFFICES ASSUME NEW s \in Slots
             PROVE  (Kind(Left(cs)[s]) <=> Kind(cs[s])) /\ (Owes(Left(cs)[s]) <=> Owes(cs[s]))
  OBVIOUS
<1>1. PICK here : here = (cs[s].here /\ cs[s].st = "none")
  OBVIOUS
<1>2. PICK d : d = [cs[s] EXCEPT !.here = here]
  OBVIOUS
<1>3. /\ d.st = cs[s].st /\ d.do = cs[s].do /\ d.waits = cs[s].waits
      /\ d.failed = cs[s].failed /\ d.raced = cs[s].raced
  BY <1>2 DEF Shape
<1>4. Left(cs)[s] = d
  BY <1>1, <1>2 DEF Left
<1> QED  BY <1>3, <1>4 DEF Kind, Owes

\* The cart stays, and so does what is cached, unless it is asked for again.
LEMMA CartStays ==
  ASSUME FInv, UNCHANGED <<cart, loaded, view>>, missed \subseteq missed',
         fetch' = fetch \/ fetch'.st = "asked",
         \A s \in Slots : Kind(calls'[s]),
         \/ missed' # {} \/ fetch'.st = "asked"
         \/ \A s \in Slots : Owes(calls[s]) => Owes(calls'[s])
  PROVE  FInv'
<1>1. fetch'.st \in {"idle", "asked", "read"}
  BY DEF FInv
<1>2. CartFollows'
  BY DEF FInv, CartFollows, Matches
<1> QED  BY <1>1, <1>2 DEF FInv

\* One call changes.
LEMMA OneCallTells ==
  ASSUME KInv, FInv, NEW s \in Slots, NEW d, calls' = [calls EXCEPT ![s] = d], Kind(d)
  PROVE  /\ \A t \in Slots : Kind(calls'[t])
         /\ calls'[s] = d
         /\ \A t \in Slots \ {s} : calls'[t] = calls[t]
  BY DEF KInv, Calls, FInv

LEMMA NoCallTells == Kind(NoCall)
  BY DEF Kind, NoCall

\* Where nobody waits, a loss goes on record.
LEMMA UnseenTells == \A c : c.waits \/ Unseen(c) # {}
<1> SUFFICES ASSUME NEW c, ~ c.waits PROVE Unseen(c) # {}
  OBVIOUS
<1>1. "lost" \in Unseen(c)
  BY DEF Unseen
<1> QED  BY <1>1

\* Success asks for the cart, or joins the very first read of it.
LEMMA RefetchAsks ==
  ASSUME FInv, Refetch
  PROVE  /\ missed \subseteq missed'
         /\ fetch' = fetch \/ fetch'.st = "asked"
         /\ missed' # {} \/ fetch'.st = "asked"
<1>1. CASE loaded \/ fetch.st = "idle"
  <2>1. fetch' = [st |-> "asked", data |-> NoCart] /\ missed' = missed
    BY <1>1 DEF Refetch
  <2>2. fetch'.st = "asked"
    BY <2>1
  <2> QED  BY <2>1, <2>2
<1>2. CASE ~ (loaded \/ fetch.st = "idle")
  <2>1. fetch' = fetch /\ missed' = missed \cup {j \in {"joined"} : fetch.st = "read"}
    BY <1>2 DEF Refetch
  <2>2. fetch.st = "read" \/ fetch.st = "asked"
    BY <1>2 DEF FInv
  <2>3. missed \subseteq missed'
    BY <2>1, Zenon
  <2>4. missed' # {} \/ fetch'.st = "asked"
    BY <2>1, <2>2, Zenon
  <2> QED  BY <2>1, <2>3, <2>4
<1> QED  BY <1>1, <1>2

LEMMA FetchCart ==
  ASSUME KInv, FInv, FetchRead \/ FetchDone \/ FetchFailed
  PROVE  FInv'
<1>1. UNCHANGED <<calls, cart>>
  BY DEF FetchRead, FetchDone, FetchFailed, server
<1>2. CASE FetchRead
  <2>1. fetch'.st = "read" /\ fetch'.data = CartRead
    BY <1>2 DEF FetchRead
  <2> QED  BY <1>1, <2>1 DEF FInv, CartFollows, Matches, CartRead
<1>3. CASE FetchDone
  <2>1. /\ fetch.st = "read" /\ view' = fetch.data /\ loaded' = TRUE
        /\ fetch'.st = "idle" /\ missed' = missed
    BY <1>3 DEF FetchDone
  <2> QED  BY <1>1, <2>1 DEF FInv, CartFollows, Matches
<1>4. CASE FetchFailed
  <2>1. fetch'.st = "idle" /\ missed' # {}
    BY <1>4 DEF FetchFailed
  <2> QED  BY <1>1, <2>1 DEF FInv, CartFollows
<1> QED  BY <1>2, <1>3, <1>4

LEMMA CommandCart ==
  ASSUME KInv, FInv, Visitor
  PROVE  FInv'
<1>1. \A s \in Slots : Shape(calls[s])
  BY DEF KInv, Calls
<1>2. CASE \E p \in {"product", "cart", "checkout"} : Open(p)
  <2>1. /\ UNCHANGED <<cart, loaded, view, missed>> /\ calls' = Left(calls)
        /\ fetch' = fetch \/ fetch'.st = "asked"
    BY <1>2 DEF Open, Mounted, server
  <2> QED  BY <1>1, <2>1, LeftTells, CartStays DEF FInv
<1>3. CASE GoCheckout
  <2>1. UNCHANGED <<cart, loaded, view, missed, fetch>> /\ calls' = Left(calls)
    BY <1>3 DEF GoCheckout, server, cache
  <2> QED  BY <1>1, <2>1, LeftTells, CartStays DEF FInv
<1>4. ASSUME NEW do, NEW item, NEW on, NEW n, NEW sel, NEW k,
             Starts(Asks(do, item, on, n, sel, k)), UNCHANGED <<server, cache>>
      PROVE  FInv'
  <2>1. PICK d : d = Asks(do, item, on, n, sel, k)
    OBVIOUS
  <2>2. plan.slots \subseteq Slots
    BY StorefrontAssumption DEF KInv, Keys
  <2>3. PICK s \in Slots : calls[s].st = "none" /\ calls' = [calls EXCEPT ![s] = d]
    BY <1>4, <2>1, <2>2 DEF Starts
  <2>4. Kind(d)
    BY <2>1 DEF Kind, Asks
  <2>5. /\ \A t \in Slots : Kind(calls'[t])
        /\ \A t \in Slots \ {s} : calls'[t] = calls[t]
    BY <2>3, <2>4, OneCallTells
  <2>6. ~ Owes(calls[s])
    BY <2>3 DEF Owes
  <2>7. \A t \in Slots : Owes(calls[t]) => Owes(calls'[t])
    BY <2>5, <2>6
  <2>8. UNCHANGED <<cart, loaded, view, missed, fetch>>
    BY <1>4 DEF server, cache
  <2> QED  BY <2>5, <2>7, <2>8, CartStays
<1>5. ASSUME NEW i \in plan.items, PressAdd(i) \/ PressBuy(i) \/ ToggleItem(i) \/ RemoveItem(i)
      PROVE  FInv'
  BY <1>4, <1>5 DEF PressAdd, PressBuy, ToggleItem, RemoveItem
<1>6. ASSUME NEW i \in Items, NEW n \in 1..MaxQty, ChangeQty(i, n)
      PROVE  FInv'
  BY <1>4, <1>6 DEF ChangeQty
<1>7. ASSUME NEW sel \in BOOLEAN, ToggleGroup(sel) \/ ToggleAll(sel)
      PROVE  FInv'
  BY <1>4, <1>7 DEF ToggleGroup, ToggleAll
<1>8. CASE RemoveSelected \/ ClearInvalid
  BY <1>4, <1>8 DEF RemoveSelected, ClearInvalid
<1>9. CASE SubmitOrder
  BY <1>4, <1>9 DEF SubmitOrder
<1> QED  BY <1>2, <1>3, <1>5, <1>6, <1>7, <1>8, <1>9 DEF Visitor

\* An endpoint answers: a success owes a read, and one nobody waits for is on
\* record as missed.
LEMMA ServeCart ==
  ASSUME KInv, FInv, NEW s \in Slots, Serve(s)
  PROVE  FInv'
<1>1. /\ Shape(calls[s]) /\ Kind(calls[s]) /\ calls[s].st = "sent" /\ calls[s].do # "group"
      /\ UNCHANGED <<loaded, view, fetch>>
  BY DEF Serve, KInv, Calls, FInv
<1>2. CASE /\ Answered(s, [calls[s] EXCEPT !.st = "bad"])
           /\ UNCHANGED <<cart, rows, orders>>
  <2>1. PICK d : d = Ended([calls[s] EXCEPT !.st = "bad"])
    OBVIOUS
  <2>2. calls' = [calls EXCEPT ![s] = d] /\ missed \subseteq missed' /\ UNCHANGED cart
    BY <1>2, <2>1 DEF Answered
  <2>3. Kind(d)
    BY <1>1, <2>1, NoCallTells DEF Ended, Kind, Shape
  <2>4. ~ Owes(calls[s])
    BY <1>1 DEF Owes
  <2>5. /\ \A t \in Slots : Kind(calls'[t])
        /\ \A t \in Slots \ {s} : calls'[t] = calls[t]
    BY <2>2, <2>3, OneCallTells
  <2>6. \A t \in Slots : Owes(calls[t]) => Owes(calls'[t])
    BY <2>4, <2>5
  <2> QED  BY <1>1, <2>2, <2>5, <2>6, CartStays
<1>3. CASE /\ calls' = [t \in Slots |->
                         CASE t = s -> Ended(Succeeding(calls[s]))
                           [] t # s /\ t \in Raced(calls[s]) -> [calls[t] EXCEPT !.raced = TRUE]
                           [] OTHER -> calls[t]]
           /\ missed' = missed \cup Unseen(calls[s])
  <2>1. PICK on : on = RowOf(calls[s])
    OBVIOUS
  <2>2. PICK d : d = [[calls[s] EXCEPT !.st = "ok"] EXCEPT !.on = on]
    OBVIOUS
  <2>3. /\ d.st = "ok" /\ d.do = calls[s].do /\ d.waits = calls[s].waits
        /\ d.raced = calls[s].raced
    BY <1>1, <2>2 DEF Shape
  <2>4. calls'[s] = IF d.waits THEN d ELSE NoCall
    BY <1>3, <2>1, <2>2 DEF Succeeding, Ended
  <2>5. Kind(calls'[s])
    BY <1>1, <2>3, <2>4, NoCallTells DEF Kind
  <2>6. ASSUME NEW t \in Slots, t # s PROVE Kind(calls'[t])
    <3>1. Shape(calls[t]) /\ Kind(calls[t])
      BY DEF KInv, Calls, FInv
    <3>2. CASE t \in Raced(calls[s])
      <4>1. calls'[t] = [calls[t] EXCEPT !.raced = TRUE]
        BY <1>3, <2>6, <3>2
      <4>2. calls[t].do = "create"
        BY <3>2 DEF Raced
      <4> QED  BY <3>1, <4>1, <4>2 DEF Kind, Shape
    <3>3. CASE t \notin Raced(calls[s])
      BY <1>3, <2>6, <3>1, <3>3
    <3> QED  BY <3>2, <3>3
  <2>7. missed' # {} \/ Owes(calls'[s])
    BY <1>3, <2>3, <2>4, UnseenTells DEF Owes
  <2>8. CartFollows'
    BY <2>7 DEF CartFollows
  <2>9. fetch'.st \in {"idle", "asked", "read"}
    BY <1>1 DEF FInv
  <2> QED  BY <2>5, <2>6, <2>8, <2>9 DEF FInv
<1> QED  BY <1>2, <1>3 DEF Serve

LEMMA ServeRacedCart ==
  ASSUME KInv, FInv, NEW s \in Slots, ServeRaced(s)
  PROVE  FInv'
<1>1. /\ Shape(calls[s]) /\ Kind(calls[s]) /\ calls[s].st = "sent" /\ calls[s].raced
      /\ UNCHANGED <<cart, loaded, view, fetch>>
  BY DEF ServeRaced, KInv, Calls, FInv, server
<1>2. PICK st \in {"bad", "conflict"} : Answered(s, [calls[s] EXCEPT !.st = st])
  BY DEF ServeRaced
<1>3. PICK d : d = Ended([calls[s] EXCEPT !.st = st])
  OBVIOUS
<1>4. calls' = [calls EXCEPT ![s] = d] /\ missed \subseteq missed'
  BY <1>2, <1>3 DEF Answered
<1>5. Kind(d) /\ ~ Owes(calls[s])
  BY <1>1, <1>3, NoCallTells DEF Ended, Kind, Shape, Owes
<1>6. /\ \A t \in Slots : Kind(calls'[t])
      /\ \A t \in Slots \ {s} : calls'[t] = calls[t]
  BY <1>4, <1>5, OneCallTells
<1>7. \A t \in Slots : Owes(calls[t]) => Owes(calls'[t])
  BY <1>5, <1>6
<1> QED  BY <1>1, <1>4, <1>6, <1>7, CartStays

\* The calls of a group: until the last has ended the group owes a read.
LEMMA ServeOneCart ==
  ASSUME KInv, FInv, NEW s \in Slots, ServeOne(s)
  PROVE  FInv'
<1>1. /\ Shape(calls[s]) /\ Kind(calls[s]) /\ calls[s].st = "sent" /\ calls[s].do = "group"
      /\ UNCHANGED <<loaded, view, fetch>>
  BY DEF ServeOne, KInv, Calls, FInv
<1>2. PICK r \in calls[s].on, gone \in BOOLEAN :
        LET rest == [[calls[s] EXCEPT !.on = @ \ {r}] EXCEPT !.failed = @ \/ gone] IN
        IF rest.on # {}
        THEN calls' = [calls EXCEPT ![s] = rest] /\ missed' = missed \cup Unseen(calls[s])
        ELSE Answered(s, [rest EXCEPT !.st = IF rest.failed THEN "bad" ELSE "ok"])
  BY DEF ServeOne
<1>3. PICK left : left = calls[s].on \ {r}
  OBVIOUS
<1>4. PICK failed : failed = (calls[s].failed \/ gone)
  OBVIOUS
<1>5. PICK rest : rest = [[calls[s] EXCEPT !.on = left] EXCEPT !.failed = failed]
  OBVIOUS
<1>6. /\ rest.on = left /\ rest.failed = failed /\ rest.st = "sent" /\ rest.do = "group"
      /\ rest.waits = calls[s].waits /\ rest.raced = calls[s].raced /\ Shape(rest)
  BY <1>1, <1>5 DEF Shape
<1>7. IF left # {}
      THEN calls' = [calls EXCEPT ![s] = rest] /\ missed' = missed \cup Unseen(calls[s])
      ELSE Answered(s, [rest EXCEPT !.st = IF failed THEN "bad" ELSE "ok"])
  BY <1>2, <1>3, <1>4, <1>5, <1>6
<1>8. PICK d : /\ calls' = [calls EXCEPT ![s] = d] /\ missed' = missed \cup Unseen(calls[s])
               /\ Kind(d) /\ (calls[s].waits => Owes(d))
  <2>1. CASE left # {}
    <3>1. Kind(rest) /\ (calls[s].waits => Owes(rest))
      BY <1>1, <1>6 DEF Kind, Owes
    <3> QED  BY <1>7, <2>1, <3>1
  <2>2. CASE left = {}
    <3>1. PICK st : st = IF failed THEN "bad" ELSE "ok"
      OBVIOUS
    <3>2. PICK e : e = [rest EXCEPT !.st = st]
      OBVIOUS
    <3>3. /\ e.st = st /\ e.do = "group" /\ e.waits = calls[s].waits
          /\ e.failed = failed /\ e.raced = calls[s].raced
      BY <1>6, <3>2 DEF Shape
    <3>4. Answered(s, e)
      BY <1>7, <2>2, <3>1, <3>2
    <3>5. Kind(Ended(e)) /\ (calls[s].waits => Owes(Ended(e)))
      <4>1. CASE calls[s].waits
        BY <1>1, <3>1, <3>3, <4>1 DEF Kind, Owes, Ended
      <4>2. CASE ~ calls[s].waits
        BY <3>3, <4>2, NoCallTells DEF Ended
      <4> QED  BY <4>1, <4>2
    <3> QED  BY <1>1, <3>3, <3>4, <3>5 DEF Answered, Unseen
  <2> QED  BY <2>1, <2>2
<1>9. \A t \in Slots : Kind(calls'[t])
  BY <1>8, OneCallTells
<1>10. missed' # {} \/ Owes(calls'[s])
  BY <1>8, OneCallTells, UnseenTells
<1> QED  BY <1>1, <1>9, <1>10 DEF FInv, CartFollows

\* A call ends in the tab.
LEMMA EndCart ==
  ASSUME KInv, FInv, NEW s \in Slots,
         \/ Failed(s) \/ GivenUp(s) \/ NeverCame(s) \/ Succeeded(s)
         \/ Bought(s) \/ Ordered(s) \/ Conflicted(s)
  PROVE  FInv'
<1>1. Shape(calls[s]) /\ Kind(calls[s])
  BY DEF KInv, Calls, FInv
<1>2. ASSUME NEW d, calls' = [calls EXCEPT ![s] = d] \/ calls' = Left([calls EXCEPT ![s] = d]),
             Shape(d), Kind(d), UNCHANGED <<cart, loaded, view>>, missed \subseteq missed',
             fetch' = fetch \/ fetch'.st = "asked",
             missed' # {} \/ fetch'.st = "asked" \/ ~ Owes(calls[s])
      PROVE  FInv'
  <2>1. PICK cs : cs = [calls EXCEPT ![s] = d]
    OBVIOUS
  <2>2. /\ cs[s] = d /\ \A t \in Slots \ {s} : cs[t] = calls[t]
    BY <2>1 DEF KInv, Calls
  <2>3. \A t \in Slots : Shape(cs[t]) /\ Kind(cs[t])
    BY <1>2, <2>2 DEF KInv, Calls, FInv
  <2>4. \A t \in Slots : (Kind(calls'[t]) <=> Kind(cs[t])) /\ (Owes(calls'[t]) <=> Owes(cs[t]))
    BY <1>2, <2>1, <2>3, LeftTells
  <2>5. \A t \in Slots : Kind(calls'[t])
    BY <2>3, <2>4
  <2>6. ~ Owes(calls[s]) => \A t \in Slots : Owes(calls[t]) => Owes(calls'[t])
    BY <2>2, <2>4
  <2> QED  BY <1>2, <2>5, <2>6, CartStays
<1>3. Shape(NoCall) /\ Kind(NoCall)
  BY NoCallTells DEF Shape, NoCall
<1>4. CASE Failed(s) \/ NeverCame(s)
  <2>1. calls' = [calls EXCEPT ![s] = NoCall] /\ UNCHANGED <<cart, loaded, view, fetch>>
    BY <1>4 DEF Failed, NeverCame, server, cache
  <2>3. missed \subseteq missed'
    <3>1. CASE missed' = missed \cup {l \in {"lost"} : calls[s].failed}
      BY <3>1, Zenon
    <3>2. CASE missed' = missed
      BY <3>2
    <3> QED  BY <1>4, <3>1, <3>2 DEF Failed, NeverCame, cache
  <2>2. missed' # {} \/ ~ Owes(calls[s])
    BY <1>1, <1>4 DEF Failed, NeverCame, Kind, Owes
  <2> QED  BY <1>2, <1>3, <2>1, <2>2, <2>3
<1>5. CASE GivenUp(s)
  <2>1. PICK d : d = IF calls[s].st = "sent" THEN [calls[s] EXCEPT !.waits = FALSE] ELSE NoCall
    OBVIOUS
  <2>2. Shape(d) /\ Kind(d)
    BY <1>1, <1>3, <2>1 DEF Kind, Shape
  <2>3. /\ calls' = [calls EXCEPT ![s] = d] /\ UNCHANGED <<cart, loaded, view, fetch>>
        /\ missed' = missed \cup {"lost"}
    BY <1>5, <2>1 DEF GivenUp, server
  <2> QED  BY <1>2, <2>2, <2>3
<1>6. CASE Succeeded(s) \/ Bought(s) \/ Ordered(s)
  <2>1. /\ Refetch /\ UNCHANGED <<cart, loaded, view>>
        /\ \/ calls' = [calls EXCEPT ![s] = NoCall]
           \/ calls' = Left([calls EXCEPT ![s] = NoCall])
    BY <1>6 DEF Succeeded, Bought, Ordered, server
  <2> QED  BY <1>2, <1>3, <2>1, RefetchAsks
<1>7. CASE Conflicted(s)
  <2>1. /\ calls' = Left([calls EXCEPT ![s] = NoCall])
        /\ UNCHANGED <<cart, loaded, view, fetch, missed>>
        /\ ~ Owes(calls[s])
    BY <1>7 DEF Conflicted, server, cache, Owes
  <2> QED  BY <1>2, <1>3, <2>1
<1> QED  BY <1>4, <1>5, <1>6, <1>7

\* Whatever calls and reads overlap, in whatever order they are served and
\* answered: the cart that is shown when nothing is under way is the cart of the
\* backend, unless since its last read a call or a read was lost, or a change ended
\* while the very first read, already answered, was on its way (CartAskedAgain,
\* which the code does not keep, leaves the latter exception out).
THEOREM CartIsShown == Spec => []CartShown
<1>1. Init => KInv /\ FInv
  <2>1. Init => FInv
    BY NoCallTells DEF Init, FInv, CartFollows
  <2> QED  BY <2>1, KeyInit
<1>2. KInv /\ FInv /\ [Next]_vars => KInv' /\ FInv'
  <2> SUFFICES ASSUME KInv, FInv, [Next]_vars PROVE FInv'
    BY KeyStep
  <2>1. CASE UNCHANGED <<cart, cache, calls>>
    BY <2>1, CartStays DEF cache, FInv
  <2>2. CASE Visitor
    BY <2>2, CommandCart
  <2>3. CASE Tab
    <3>1. PreviewShown => UNCHANGED <<cart, cache, calls>>
      BY DEF PreviewShown, server
    <3> QED
      BY <2>1, <2>3, <3>1, FetchCart, ServeCart, ServeRacedCart, ServeOneCart, EndCart DEF Tab
  <2>4. CASE Others
    <3>1. UNCHANGED <<cart, cache, calls>>
      BY <2>4 DEF Others, Cancel, Market
    <3> QED  BY <2>1, <3>1
  <2>5. CASE UNCHANGED vars
    BY <2>1, <2>5 DEF vars, server
  <2> QED  BY <2>2, <2>3, <2>4, <2>5 DEF Next
<1>3. FInv => CartShown
  BY DEF FInv, CartFollows, CartShown, ShowsCart, Quiet, Owes, Matches
<1> QED  BY <1>1, <1>2, <1>3, PTL DEF Spec
=============================================================================
