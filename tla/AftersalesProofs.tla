-------------------------- MODULE AftersalesProofs --------------------------
(***************************************************************************)
(* Proofs about Aftersales, for any number of orders, cases and amounts.   *)
(*                                                                         *)
(* Every action on cases is a Refund of some of them (of none, for most)   *)
(* over a table with some rows changed.  The invariant has four parts      *)
(* that stand on each other: what holds of each row (RowOK), that no two   *)
(* active rows share an order, that what the orders say agrees with        *)
(* what was refunded (OrdersAgree), and the refund ledger itself.          *)
(***************************************************************************)
EXTENDS Aftersales, DataProofs

\* What every aftersales row satisfies on its own.
RowOK(row) ==
    /\ row \in CaseRow
    /\ row.status # "none" => row.order # NoOrder /\ row.type # "none"
    /\ row.status \in {"return_shipped_waiting_receive", "merchant_agreed_waiting_ship",
                       "exchange_shipped_waiting_receive"} => row.tracked
    /\ row.status = "admin_arbitrating" => row.escalation # "none"
    /\ row.status = "completed_refunded" =>
         \/ row.type = "refund_only"
         \/ row.type = "return_refund" /\ row.tracked
         \/ row.escalation # "none"

RowsOK(table) ==
    /\ table \in [Case -> CaseRow]
    /\ \A c \in Case : RowOK(table[c])

\* Cases are of orders that were paid.
CasesCharged(table) == \A c \in Case : table[c].order \in charged \cup {NoOrder}

OrderTypes ==
    /\ state \in [Order -> {"none", "pending_payment", "paid", "shipped",
                            "completed", "cancelled", "closed"}]
    /\ refunded \in [Order -> Nat]
    /\ charged \subseteq Order
    /\ partial \subseteq Order

OrdersAgree ==
    /\ RefundsMatchOrders
    /\ \A o \in Order : state[o] \in {"paid", "shipped", "completed"} => o \in charged
    /\ \A o \in charged : state[o] \notin {"none", "pending_payment"}

IInv ==
    /\ OrderTypes
    /\ RowsOK(cases)
    /\ CasesCharged(cases)
    /\ OneActiveCase
    /\ OrdersAgree
    /\ RefundLedger

-----------------------------------------------------------------------------
(* Rows.                                                                   *)

LEMMA PaidOutInNat ==
  ASSUME NEW row \in CaseRow
  PROVE  PaidOut(row) \in Nat
  BY DEF PaidOut, CaseRow

LEMMA MovedRow ==
  ASSUME NEW row \in CaseRow, NEW to \in FinalStatus \cup ActiveStatus
  PROVE  /\ Moved(row, to) \in CaseRow
         /\ Moved(row, to).status = to
         /\ Moved(row, to).order = row.order
         /\ Moved(row, to).type = row.type
         /\ Moved(row, to).tracked = row.tracked
         /\ Moved(row, to).escalation = row.escalation
  BY DEF Moved, CaseRow

LEMMA EscalatedRow ==
  ASSUME NEW row \in CaseRow, NEW why \in Escalation
  PROVE  /\ Escalated(row, why) \in CaseRow
         /\ Escalated(row, why).status = "admin_arbitrating"
         /\ Escalated(row, why).order = row.order
         /\ Escalated(row, why).type = row.type
         /\ Escalated(row, why).escalation = why
<1>1. Moved(row, "admin_arbitrating") \in CaseRow
  BY MovedRow DEF ActiveStatus
<1> QED
  BY <1>1, MovedRow DEF Escalated, CaseRow, ActiveStatus

-----------------------------------------------------------------------------
(* The refund ledger: what the refunded cases of an order paid out, by the *)
(* table of cases.                                                         *)

PaidOf(table) == [c \in Case |-> PaidOut(table[c])]

RefundedIn(table, o) ==
    {c \in Case : table[c].order = o /\ table[c].status = "completed_refunded"}

RefundSum(table, o) == SumFunctionOnSet(PaidOf(table), RefundedIn(table, o))

LEMMA LedgerBySum ==
  RefundLedger <=> \A o \in Order : refunded[o] = RefundSum(cases, o)
  BY DEF RefundLedger, RefundSum, RefundedIn, RefundedCases, PaidOf

LEMMA PaidSummable ==
  ASSUME NEW table \in [Case -> CaseRow], NEW o
  PROVE  Summable(PaidOf(table), RefundedIn(table, o))
<1>1. \A c \in Case : PaidOf(table)[c] \in Nat
  BY PaidOutInNat DEF PaidOf
<1>2. IsFiniteSet(RefundedIn(table, o))
  BY AftersalesAssumption, FS_Subset DEF RefundedIn
<1> QED
  BY <1>1, <1>2 DEF Summable, RefundedIn

\* Refunding at most one more case of an order adds what it paid out.
LEMMA RefundSumGrows ==
  ASSUME NEW A \in [Case -> CaseRow], NEW B \in [Case -> CaseRow], NEW o,
         NEW mine \in SUBSET Case,
         \A c, d \in mine : c = d,
         RefundedIn(B, o) = RefundedIn(A, o) \cup mine,
         \A c \in RefundedIn(A, o) : c \notin mine /\ PaidOut(B[c]) = PaidOut(A[c])
  PROVE  RefundSum(B, o) = RefundSum(A, o)
           + IF mine = {} THEN 0 ELSE PaidOut(B[CHOOSE c \in mine : TRUE])
<1> DEFINE S == RefundedIn(A, o)
<1>1. S \in SUBSET RefundedIn(B, o) /\ S \subseteq Case
  BY DEF RefundedIn
<1>2. Summable(PaidOf(B), RefundedIn(B, o)) /\ Summable(PaidOf(B), S) /\ Summable(PaidOf(A), S)
  BY <1>1, PaidSummable, SummableSubset
<1>3. \A c \in S : PaidOf(A)[c] = PaidOf(B)[c]
  BY <1>1 DEF PaidOf
<1>4. RefundSum(A, o) = SumFunctionOnSet(PaidOf(B), S)
  BY <1>2, <1>3, SumSame DEF RefundSum
<1>5. RefundSum(A, o) \in Int
  BY <1>2, SumInt DEF RefundSum
<1>6. CASE mine = {}
  BY <1>4, <1>5, <1>6 DEF RefundSum
<1>7. CASE mine # {}
  <2> DEFINE c == CHOOSE c \in mine : TRUE
  <2>1. c \in mine
    BY <1>7
  <2> HIDE DEF c
  <2>2. c \in RefundedIn(B, o) /\ S = RefundedIn(B, o) \ {c}
    BY <2>1
  <2>3. RefundSum(B, o) = PaidOf(B)[c] + SumFunctionOnSet(PaidOf(B), RefundedIn(B, o) \ {c})
    BY <1>2, <2>2, SumTakeOut DEF RefundSum
  <2>4. PaidOf(B)[c] = PaidOut(B[c]) /\ PaidOut(B[c]) \in Nat
    BY <2>1, PaidOutInNat DEF PaidOf
  <2>5. RefundSum(B, o) = RefundSum(A, o) + PaidOut(B[c])
    BY <1>4, <1>5, <2>2, <2>3, <2>4
  <2> QED
    BY <1>7, <2>5 DEF c
<1> QED
  BY <1>6, <1>7

\* What leaves the refunded cases alone leaves their sums alone.
LEMMA RefundSumSame ==
  ASSUME NEW A \in [Case -> CaseRow], NEW B \in [Case -> CaseRow], NEW o,
         \A c \in Case : "completed_refunded" \in {A[c].status, B[c].status} => B[c] = A[c]
  PROVE  RefundSum(B, o) = RefundSum(A, o)
<1>7. {} \in SUBSET Case
  OBVIOUS
<1> PICK none \in SUBSET Case : \A c \in Case : c \notin none
  BY <1>7
<1>1. RefundedIn(B, o) = RefundedIn(A, o) \cup none
  BY DEF RefundedIn
<1>2. \A c \in RefundedIn(A, o) : c \notin none /\ PaidOut(B[c]) = PaidOut(A[c])
  BY DEF RefundedIn
<1>3. RefundSum(A, o) \in Int
  BY PaidSummable, SumInt DEF RefundSum
<1>4. \A c, d \in none : c = d
  OBVIOUS
<1>5. RefundSum(B, o) = RefundSum(A, o)
           + IF none = {} THEN 0 ELSE PaidOut(B[CHOOSE c \in none : TRUE])
  BY <1>1, <1>2, <1>4, RefundSumGrows
<1>6. none = {}
  OBVIOUS
<1> QED
  BY <1>3, <1>5, <1>6

-----------------------------------------------------------------------------
(* A change of the table of cases that refunds the cases R: what it must   *)
(* satisfy, and that it then preserves the invariant.                      *)

\* No row is made active that was not, or only one, of an order that has none.
KeepsOneActive(new) ==
    \/ \A c \in Case : new[c].status \in ActiveStatus =>
         cases[c].status \in ActiveStatus /\ new[c].order = cases[c].order
    \/ \E c \in Case :
         /\ ActiveCases(new[c].order) = {}
         /\ \A d \in Case \ {c} : new[d] = cases[d]

\* A refunded case stays as it is, and only active cases are refunded.
KeepsRefunded(R, new) ==
    /\ \A c \in R : cases[c].status \in ActiveStatus /\ new[c].order = cases[c].order
    /\ \A c \in Case : "completed_refunded" \in {cases[c].status, new[c].status}
                         => new[c] = cases[c]

Sound(R, new) ==
    /\ R \subseteq Case
    /\ KeepsRefunded(R, new)
    /\ RowsOK([c \in Case |-> IF c \in R THEN Moved(new[c], "completed_refunded") ELSE new[c]])
    /\ new \in [Case -> CaseRow]
    /\ CasesCharged(new)
    /\ \A c \in R : new[c].order \in Order
    /\ KeepsOneActive(new)
    /\ Refund(R, new)

LEMMA RefundOrders ==
  ASSUME OrderTypes, OrdersAgree, NEW R, NEW new, Sound(R, new)
  PROVE  OrderTypes' /\ OrdersAgree'
<1> DEFINE mine(o) == {c \in R : new[c].order = o}
           g(o)    == Granted(R, new, o)
<1>1. \A o \in Order : g(o) \in Nat
  <2> TAKE o \in Order
  <2>1. CASE mine(o) = {}
    BY <2>1 DEF Granted
  <2>2. CASE mine(o) # {}
    <3>1. (CHOOSE c \in mine(o) : TRUE) \in mine(o)
      BY <2>2
    <3> QED
      BY <2>2, <3>1, PaidOutInNat DEF LinkAmount, Sound, Granted
  <2> QED
    BY <2>1, <2>2
<1>2. \A o \in Order : g(o) > 0 => o \in charged
  <2> SUFFICES ASSUME NEW o \in Order, g(o) > 0 PROVE o \in charged
    OBVIOUS
  <2>1. PICK c \in R : new[c].order = o
    <3>1. mine(o) # {}
      BY DEF Granted
    <3> QED
      BY <3>1
  <2> QED
    BY <2>1, AftersalesAssumption DEF Sound, CasesCharged
<1>3. /\ refunded' = [o \in Order |-> refunded[o] + g(o)]
      /\ state' = [o \in Order |-> IF g(o) > 0 /\ refunded[o] + g(o) >= Total[o]
                                   THEN "closed" ELSE state[o]]
      /\ partial' = partial \cup {o \in Order : g(o) > 0 /\ ~(refunded[o] + g(o) >= Total[o])}
      /\ charged' = charged
  BY DEF Sound, Refund, LinkOrders, FullyRefunded
<1> HIDE DEF g
<1>4. OrderTypes'
  BY <1>1, <1>3 DEF OrderTypes
<1>5. ASSUME NEW o \in Order
      PROVE  /\ refunded'[o] > 0 => o \in charged'
             /\ state'[o] = "closed" <=> refunded'[o] >= Total[o]
             /\ o \in partial' => refunded'[o] > 0
             /\ refunded'[o] > 0 => o \in partial' \/ state'[o] = "closed"
             /\ state'[o] \in {"paid", "shipped", "completed"} => o \in charged'
             /\ o \in charged' => state'[o] \notin {"none", "pending_payment"}
  <2>1. /\ refunded[o] > 0 => o \in charged
        /\ state[o] = "closed" <=> refunded[o] >= Total[o]
        /\ o \in partial => refunded[o] > 0
        /\ refunded[o] > 0 => o \in partial \/ state[o] = "closed"
        /\ state[o] \in {"paid", "shipped", "completed"} => o \in charged
        /\ o \in charged => state[o] \notin {"none", "pending_payment"}
    BY DEF OrdersAgree, RefundsMatchOrders
  <2>2. g(o) \in Nat /\ refunded[o] \in Nat /\ Total[o] \in Nat
    BY <1>1, AftersalesAssumption DEF OrderTypes
  <2>3. /\ refunded'[o] = refunded[o] + g(o)
        /\ charged' = charged
        /\ state'[o] = IF g(o) > 0 /\ refunded[o] + g(o) >= Total[o]
                       THEN "closed" ELSE state[o]
        /\ o \in partial' <=> o \in partial \/ (g(o) > 0 /\ ~(refunded[o] + g(o) >= Total[o]))
    BY <1>3
  <2>4. CASE g(o) = 0
    BY <2>1, <2>2, <2>3, <2>4
  <2>5. CASE g(o) > 0
    BY <2>1, <2>2, <2>3, <2>5, <1>2
  <2> QED
    BY <2>2, <2>4, <2>5
<1> QED
  BY <1>4, <1>5 DEF OrderTypes, OrdersAgree, RefundsMatchOrders

LEMMA RefundCases ==
  ASSUME IInv, NEW R, NEW new, Sound(R, new)
  PROVE  RowsOK(cases') /\ CasesCharged(cases)' /\ OneActiveCase'
<1>1. /\ cases' = [c \in Case |-> IF c \in R THEN Moved(new[c], "completed_refunded")
                                  ELSE new[c]]
      /\ charged' = charged
  BY DEF Sound, Refund, LinkOrders
<1>2. ASSUME NEW c \in Case
      PROVE  /\ cases'[c].order = new[c].order
             /\ cases'[c].status \in ActiveStatus => cases'[c] = new[c]
  BY <1>1, MovedRow DEF Sound, FinalStatus, ActiveStatus
<1>3. RowsOK(cases')
  BY <1>1 DEF Sound
<1>4. CasesCharged(cases)'
  BY <1>1, <1>2 DEF Sound, CasesCharged
<1>5. OneActiveCase'
  <2> SUFFICES ASSUME NEW o \in Order, NEW c \in Case, NEW d \in Case,
                      cases'[c].order = o, cases'[c].status \in ActiveStatus,
                      cases'[d].order = o, cases'[d].status \in ActiveStatus
               PROVE  c = d
    BY DEF OneActiveCase, ActiveCases
  <2>1. /\ new[c].order = o /\ new[c].status \in ActiveStatus
        /\ new[d].order = o /\ new[d].status \in ActiveStatus
    BY <1>2
  <2>2. CASE \A e \in Case : new[e].status \in ActiveStatus =>
               cases[e].status \in ActiveStatus /\ new[e].order = cases[e].order
    BY <2>1, <2>2 DEF IInv, OneActiveCase, ActiveCases
  <2>3. ASSUME NEW e \in Case, ActiveCases(new[e].order) = {},
               \A f \in Case \ {e} : new[f] = cases[f]
        PROVE  c = d
    <3>1. c # e /\ d # e => c = d
      BY <2>1, <2>3 DEF IInv, OneActiveCase, ActiveCases
    <3>2. \A x, y \in {c, d} : x = e => y = e
      BY <2>1, <2>3 DEF ActiveCases
    <3> QED
      BY <3>1, <3>2
  <2> QED
    BY <2>2, <2>3 DEF Sound, KeepsOneActive
<1> QED
  BY <1>3, <1>4, <1>5

\* total_refunded_cents grows by what the refunded cases pay out.
LEMMA RefundLedgerKept ==
  ASSUME IInv, NEW R, NEW new, Sound(R, new)
  PROVE  RefundLedger'
<1> PICK A, B : A = cases /\ B = cases'
  OBVIOUS
<1>1. /\ B = [c \in Case |-> IF c \in R THEN Moved(new[c], "completed_refunded") ELSE new[c]]
      /\ refunded' = [o \in Order |-> refunded[o] + Granted(R, new, o)]
      /\ R \subseteq Case
      /\ new \in [Case -> CaseRow]
  BY DEF Sound, Refund, LinkOrders
<1>2. A \in [Case -> CaseRow] /\ B \in [Case -> CaseRow]
  BY <1>1, MovedRow DEF IInv, RowsOK, FinalStatus
<1>3. ASSUME NEW c \in Case
      PROVE  /\ c \in R => /\ A[c].status \in ActiveStatus
                           /\ B[c].status = "completed_refunded"
                           /\ B[c].order = A[c].order
                           /\ new[c].order = A[c].order
                           /\ PaidOut(B[c]) = PaidOut(new[c])
             /\ c \notin R /\ "completed_refunded" \in {A[c].status, B[c].status}
                  => B[c] = A[c]
  <2>1. CASE c \in R
    <3>1. /\ A[c].status \in ActiveStatus
          /\ new[c].order = A[c].order
          /\ new[c] \in CaseRow
      BY <1>1, <2>1 DEF Sound, KeepsRefunded
    <3>2. B[c] = Moved(new[c], "completed_refunded")
      BY <1>1, <2>1
    <3>3. PaidOut(B[c]) = PaidOut(new[c])
      BY <3>1, <3>2 DEF PaidOut, Moved, CaseRow
    <3>4. B[c].status = "completed_refunded" /\ B[c].order = new[c].order
      BY <3>1, <3>2, MovedRow DEF FinalStatus
    <3> QED
      BY <2>1, <3>1, <3>3, <3>4
  <2>2. CASE c \notin R
    BY <1>1, <2>2 DEF Sound, KeepsRefunded
  <2> QED
    BY <2>1, <2>2
<1>4. ASSUME NEW o \in Order
      PROVE  RefundSum(B, o) = RefundSum(A, o) + Granted(R, new, o)
  <2> DEFINE mine == {c \in R : new[c].order = o}
  <2>1. mine \in SUBSET Case
    BY <1>1
  <2>2. \A c, d \in mine : c = d
    BY <1>1, <1>3 DEF IInv, OneActiveCase, ActiveCases
  <2>3. RefundedIn(B, o) = RefundedIn(A, o) \cup mine
    BY <1>1, <1>3 DEF RefundedIn, ActiveStatus
  <2>4. \A c \in RefundedIn(A, o) : c \notin mine /\ PaidOut(B[c]) = PaidOut(A[c])
    BY <1>3 DEF RefundedIn, ActiveStatus
  <2>5. RefundSum(B, o) = RefundSum(A, o)
           + IF mine = {} THEN 0 ELSE PaidOut(B[CHOOSE c \in mine : TRUE])
    <3> HIDE DEF mine
    <3> QED
      BY <1>2, <2>1, <2>2, <2>3, <2>4, RefundSumGrows
  <2>6. CASE mine = {}
    BY <2>5, <2>6 DEF Granted
  <2>7. CASE mine # {}
    <3>1. (CHOOSE c \in mine : TRUE) \in mine
      BY <2>7
    <3>2. PaidOut(B[CHOOSE c \in mine : TRUE]) = PaidOut(new[CHOOSE c \in mine : TRUE])
      BY <1>3, <2>1, <3>1
    <3>3. Granted(R, new, o) = PaidOut(new[CHOOSE c \in mine : TRUE])
      BY <2>7 DEF Granted, LinkAmount
    <3> QED
      BY <2>5, <2>7, <3>2, <3>3
  <2> QED
    BY <2>6, <2>7
<1>5. \A o \in Order : refunded[o] = RefundSum(A, o)
  BY LedgerBySum DEF IInv
<1>6. \A o \in Order : refunded'[o] = RefundSum(B, o)
  BY <1>1, <1>4, <1>5
<1> QED
  BY <1>6, LedgerBySum DEF RefundLedger, RefundSum, RefundedIn, RefundedCases, PaidOf

\* So does a step that refunds nothing.
LEMMA NoRefundKeepsLedger ==
  ASSUME IInv, NEW B \in [Case -> CaseRow], cases' = B, refunded' = refunded,
         \A c \in Case : "completed_refunded" \in {cases[c].status, B[c].status} => B[c] = cases[c]
  PROVE  RefundLedger'
<1> PICK A : A = cases
  OBVIOUS
<1>1. A \in [Case -> CaseRow]
  BY DEF IInv, RowsOK
<1>2. \A o \in Order : RefundSum(B, o) = RefundSum(A, o)
  BY <1>1, RefundSumSame
<1>3. \A o \in Order : refunded[o] = RefundSum(A, o)
  BY LedgerBySum DEF IInv
<1> QED
  BY <1>2, <1>3 DEF RefundLedger, RefundSum, RefundedIn, RefundedCases, PaidOf

LEMMA SoundKeepsIInv ==
  ASSUME IInv, NEW R, NEW new, Sound(R, new)
  PROVE  IInv'
  BY RefundOrders, RefundCases, RefundLedgerKept DEF IInv, RowsOK

\* A request that only changes the row of one case.
LEMMA UpdateKeepsIInv ==
  ASSUME IInv, NEW c \in Case, NEW row, Update(c, row), RowOK(row),
         row.order \in charged \cup {NoOrder},
         cases[c].status # "completed_refunded", row.status # "completed_refunded",
         \/ row.status \notin ActiveStatus
         \/ cases[c].status \in ActiveStatus /\ row.order = cases[c].order
         \/ ActiveCases(row.order) = {}
  PROVE  IInv'
<1> DEFINE new == [cases EXCEPT ![c] = row]
<1>1. /\ cases' = new
      /\ UNCHANGED <<state, charged, refunded, partial>>
  BY DEF Update
<1>2. new \in [Case -> CaseRow] /\ new[c] = row /\ \A d \in Case \ {c} : new[d] = cases[d]
  BY DEF IInv, RowsOK, RowOK
<1>3. RowsOK(new) /\ CasesCharged(new)
  BY <1>2 DEF IInv, RowsOK, CasesCharged
<1>4. KeepsOneActive(new)
  BY <1>2 DEF KeepsOneActive
<1> HIDE DEF new
<1>5. OneActiveCase'
  <2> SUFFICES ASSUME NEW o \in Order, NEW x \in Case, NEW y \in Case,
                      new[x].order = o, new[x].status \in ActiveStatus,
                      new[y].order = o, new[y].status \in ActiveStatus
               PROVE  x = y
    BY <1>1 DEF OneActiveCase, ActiveCases
  <2>1. CASE \A e \in Case : new[e].status \in ActiveStatus =>
               cases[e].status \in ActiveStatus /\ new[e].order = cases[e].order
    BY <2>1 DEF IInv, OneActiveCase, ActiveCases
  <2>2. ASSUME NEW e \in Case, ActiveCases(new[e].order) = {},
               \A f \in Case \ {e} : new[f] = cases[f]
        PROVE  x = y
    <3>1. x # e /\ y # e => x = y
      BY <2>2 DEF IInv, OneActiveCase, ActiveCases
    <3>2. \A v, w \in {x, y} : v = e => w = e
      BY <2>2 DEF ActiveCases
    <3> QED
      BY <3>1, <3>2
  <2> QED
    BY <1>4, <2>1, <2>2 DEF KeepsOneActive
<1>6. OrderTypes' /\ OrdersAgree'
  BY <1>1 DEF IInv, OrderTypes, OrdersAgree, RefundsMatchOrders
<1>7. RefundLedger'
  BY <1>1, <1>2, NoRefundKeepsLedger
<1> QED
  BY <1>1, <1>3, <1>5, <1>6, <1>7 DEF IInv, CasesCharged

\* A request that refunds one active case.
LEMMA RefundCaseKeepsIInv ==
  ASSUME IInv, NEW c \in Case, NEW row \in CaseRow, RefundCase(c, row),
         cases[c].status \in ActiveStatus, row.order = cases[c].order,
         row.status = cases[c].status,
         RowOK(Moved(row, "completed_refunded"))
  PROVE  IInv'
<1> DEFINE new == [cases EXCEPT ![c] = row]
<1>1. /\ new \in [Case -> CaseRow] /\ new[c] = row
      /\ \A d \in Case \ {c} : new[d] = cases[d]
      /\ Refund({c}, new)
  BY DEF IInv, RowsOK, RefundCase
<1> HIDE DEF new
<1>2. cases[c].order \in Order /\ cases[c].order \in charged
  BY DEF IInv, RowsOK, RowOK, CaseRow, CasesCharged, ActiveStatus
<1>3. RowsOK([d \in Case |-> IF d \in {c} THEN Moved(new[d], "completed_refunded") ELSE new[d]])
  BY <1>1 DEF IInv, RowsOK, RowOK
<1>4. CasesCharged(new)
  BY <1>1, <1>2 DEF IInv, CasesCharged
<1>5. KeepsOneActive(new)
  BY <1>1 DEF KeepsOneActive
<1>7. KeepsRefunded({c}, new)
  BY <1>1 DEF KeepsRefunded, ActiveStatus
<1>6. Sound({c}, new)
  BY <1>1, <1>2, <1>3, <1>4, <1>5, <1>7 DEF Sound
<1> QED
  BY <1>6, SoundKeepsIInv

\* The receipt of the goods of the cases B, by their merchant or by the scan.
LEMMA ReceivedKeepsIInv ==
  ASSUME IInv, NEW B \in SUBSET Case, Received(B),
         \A c \in B : cases[c].status = "return_shipped_waiting_receive"
  PROVE  IInv'
<1> DEFINE R   == {c \in B : cases[c].type = "return_refund"}
           new == [c \in Case |-> IF c \in B /\ cases[c].type # "return_refund"
                                  THEN Moved(cases[c], "merchant_agreed_waiting_ship")
                                  ELSE cases[c]]
<1>1. Refund(R, new) /\ R \subseteq Case
  BY DEF Received
<1>2. /\ \A c \in Case : RowOK(cases[c]) /\ cases[c] \in CaseRow
      /\ \A c \in B : /\ cases[c].order \in Order
                      /\ cases[c].tracked
                      /\ cases[c].status \in ActiveStatus
  BY DEF IInv, RowsOK, RowOK, CaseRow, ActiveStatus
<1>3. ASSUME NEW c \in Case
      PROVE  /\ RowOK(new[c])
             /\ new[c] \in CaseRow
             /\ new[c].order = cases[c].order
             /\ new[c].status \in ActiveStatus => cases[c].status \in ActiveStatus
             /\ c \in R => RowOK(Moved(new[c], "completed_refunded"))
  <2>1. CASE c \in B /\ cases[c].type # "return_refund"
    BY <1>2, <2>1, MovedRow DEF RowOK, ActiveStatus
  <2>2. CASE c \in R
    BY <1>2, <2>2, MovedRow DEF RowOK, FinalStatus
  <2>3. CASE c \notin B
    BY <1>2, <2>3
  <2> QED
    BY <2>1, <2>2, <2>3
<1>4. new \in [Case -> CaseRow]
  BY <1>3
<1>5. \A c \in R : c \in Case /\ cases[c].order \in Order
  BY <1>2
<1>9. /\ \A c \in R : c \in B
      /\ \A c \in Case : "completed_refunded" \in {cases[c].status, new[c].status}
                           => new[c] = cases[c]
  BY <1>2, MovedRow DEF ActiveStatus
<1> HIDE DEF new, R
<1>6. RowsOK([c \in Case |-> IF c \in R THEN Moved(new[c], "completed_refunded") ELSE new[c]])
  BY <1>3 DEF RowsOK, RowOK
<1>7. CasesCharged(new) /\ KeepsOneActive(new)
  BY <1>3 DEF IInv, CasesCharged, KeepsOneActive
<1>8. KeepsRefunded(R, new)
  BY <1>2, <1>3, <1>9 DEF KeepsRefunded
<1>10. Sound(R, new)
  BY <1>1, <1>3, <1>4, <1>5, <1>6, <1>7, <1>8 DEF Sound
<1> QED
  BY <1>10, SoundKeepsIInv

\* A batch of a scan, or the passing of a deadline.
LEMMA RowsKeepIInv ==
  ASSUME IInv, cases' \in [Case -> CaseRow],
         UNCHANGED <<state, charged, refunded, partial>>,
         \A c \in Case : /\ RowOK(cases'[c])
                         /\ cases'[c].order = cases[c].order
                         /\ cases'[c].status \in ActiveStatus => cases[c].status \in ActiveStatus
                         /\ "completed_refunded" \in {cases[c].status, cases'[c].status}
                              => cases'[c] = cases[c]
  PROVE  IInv'
<1>1. RowsOK(cases')
  BY DEF RowsOK, RowOK
<1>2. CasesCharged(cases)'
  BY DEF IInv, CasesCharged
<1>4. OneActiveCase'
  <2> SUFFICES ASSUME NEW o \in Order, NEW x \in Case, NEW y \in Case,
                      cases'[x].order = o, cases'[x].status \in ActiveStatus,
                      cases'[y].order = o, cases'[y].status \in ActiveStatus
               PROVE  x = y
    BY DEF OneActiveCase, ActiveCases
  <2>1. x \in ActiveCases(o) /\ y \in ActiveCases(o)
    BY DEF ActiveCases
  <2> QED
    BY <2>1 DEF IInv, OneActiveCase
<1>3. OrderTypes' /\ OrdersAgree'
  BY DEF IInv, OrderTypes, OrdersAgree, RefundsMatchOrders
<1>5. RefundLedger'
  <2> PICK B : B = cases'
    OBVIOUS
  <2>1. B \in [Case -> CaseRow]
    OBVIOUS
  <2>2. \A c \in Case : "completed_refunded" \in {cases[c].status, B[c].status} => B[c] = cases[c]
    OBVIOUS
  <2> QED
    BY <2>1, <2>2, NoRefundKeepsLedger
<1> QED
  BY <1>1, <1>2, <1>3, <1>4, <1>5 DEF IInv, RowsOK

-----------------------------------------------------------------------------
(* The steps.                                                              *)

LEMMA RowFacts ==
  ASSUME IInv, NEW c \in Case
  PROVE  /\ cases[c] \in CaseRow
         /\ RowOK(cases[c])
         /\ cases[c].order \in charged \cup {NoOrder}
BY DEF IInv, RowsOK, CasesCharged

LEMMA UserKeepsIInv == IInv /\ UserStep => IInv'
<1> SUFFICES ASSUME IInv, UserStep PROVE IInv'
  OBVIOUS
<1>1. ASSUME NEW c \in Case, NEW o \in Order, NEW ty \in CaseType,
             NEW flagged \in BOOLEAN, NEW q \in 0..Total[o],
             UserCreate(c, o, ty, q, flagged)
      PROVE  IInv'
  <2> DEFINE row == [UnusedCase EXCEPT !.status = "pending_merchant_review",
                                       !.order = o, !.type = ty, !.requested = q]
  <2>1. o \in charged /\ ActiveCases(o) = {}
    BY <1>1 DEF UserCreate, OrderStatusAllowed, IInv, OrdersAgree
  <2>2. q \in Nat
    BY AftersalesAssumption
  <2>3. /\ row \in CaseRow
        /\ row.status = "pending_merchant_review" /\ row.order = o /\ row.type = ty
    BY <2>2 DEF UnusedCase, CaseRow, ActiveStatus, CaseType
  <2>4. o # NoOrder /\ ty # "none"
    BY AftersalesAssumption DEF CaseType
  <2>5. /\ Update(c, IF flagged THEN Escalated(row, "risk_flagged") ELSE row)
        /\ cases[c].status # "completed_refunded"
    BY <1>1 DEF UserCreate
  <2> HIDE DEF row
  <2>6. CASE flagged
    <3>1. "risk_flagged" \in Escalation /\ "risk_flagged" # "none"
      BY DEF Escalation
    <3>2. /\ RowOK(Escalated(row, "risk_flagged"))
          /\ Escalated(row, "risk_flagged").order = o
          /\ Escalated(row, "risk_flagged").status # "completed_refunded"
      BY <2>3, <2>4, <3>1, EscalatedRow DEF RowOK
    <3> QED
      BY <2>1, <2>5, <2>6, <3>2, UpdateKeepsIInv
  <2>7. CASE ~flagged
    <3>1. RowOK(row)
      BY <2>3, <2>4 DEF RowOK
    <3> QED
      BY <2>1, <2>3, <2>5, <2>7, <3>1, UpdateKeepsIInv
  <2> QED
    BY <2>6, <2>7
<1>2. ASSUME NEW c \in Case, UserCancel(c) PROVE IInv'
  <2>1. RowOK(Moved(cases[c], "user_cancelled"))
    BY <1>2, RowFacts, MovedRow, SMTT(30) DEF UserCancel, RowOK, FinalStatus
  <2>2. /\ Moved(cases[c], "user_cancelled").status \notin ActiveStatus
        /\ Moved(cases[c], "user_cancelled").status # "completed_refunded"
        /\ Moved(cases[c], "user_cancelled").order = cases[c].order
    BY RowFacts, MovedRow DEF FinalStatus, ActiveStatus
  <2> QED
    BY <1>2, <2>1, <2>2, RowFacts, UpdateKeepsIInv DEF UserCancel
<1>3. ASSUME NEW c \in Case, UserSubmitTracking(c) PROVE IInv'
  <2> DEFINE row == [Moved(cases[c], "return_shipped_waiting_receive") EXCEPT !.tracked = TRUE]
  <2>1. /\ row \in CaseRow /\ row.tracked
        /\ row.status = "return_shipped_waiting_receive"
        /\ row.order = cases[c].order /\ row.type = cases[c].type
    BY RowFacts DEF CaseRow, Moved, ActiveStatus
  <2>2. RowOK(row)
    BY <1>3, <2>1, RowFacts DEF RowOK, UserSubmitTracking
  <2>3. /\ Update(c, row) /\ cases[c].status \in ActiveStatus
        /\ cases[c].status # "completed_refunded"
    BY <1>3 DEF UserSubmitTracking, ActiveStatus
  <2> HIDE DEF row
  <2> QED
    BY <2>1, <2>2, <2>3, RowFacts, UpdateKeepsIInv
<1>4. ASSUME NEW c \in Case, UserConfirmExchange(c) PROVE IInv'
  <2>1. RowOK(Moved(cases[c], "completed_exchanged"))
    BY <1>4, RowFacts, MovedRow DEF UserConfirmExchange, RowOK, FinalStatus
  <2>2. /\ Moved(cases[c], "completed_exchanged").status \notin ActiveStatus
        /\ Moved(cases[c], "completed_exchanged").status # "completed_refunded"
        /\ Moved(cases[c], "completed_exchanged").order = cases[c].order
    BY RowFacts, MovedRow DEF FinalStatus, ActiveStatus
  <2> QED
    BY <1>4, <2>1, <2>2, RowFacts, UpdateKeepsIInv DEF UserConfirmExchange
<1>5. ASSUME NEW c \in Case, UserAppeal(c) PROVE IInv'
  <2> DEFINE row == [Escalated(cases[c], "user_appeal") EXCEPT !.appeals = @ + 1]
  <2>1. /\ Escalated(cases[c], "user_appeal") \in CaseRow
        /\ Escalated(cases[c], "user_appeal").status = "admin_arbitrating"
        /\ Escalated(cases[c], "user_appeal").order = cases[c].order
        /\ Escalated(cases[c], "user_appeal").type = cases[c].type
        /\ Escalated(cases[c], "user_appeal").escalation = "user_appeal"
    BY RowFacts, EscalatedRow DEF Escalation
  <2>2. /\ row \in CaseRow
        /\ row.status = "admin_arbitrating" /\ row.escalation = "user_appeal"
        /\ row.order = cases[c].order /\ row.type = cases[c].type
    BY <2>1 DEF CaseRow
  <2>3. RowOK(row)
    BY <1>5, <2>2, RowFacts DEF RowOK, UserAppeal
  <2>4. /\ Update(c, row) /\ ActiveCases(cases[c].order) = {}
        /\ cases[c].status # "completed_refunded"
    BY <1>5 DEF UserAppeal
  <2> HIDE DEF row
  <2> QED
    BY <2>2, <2>3, <2>4, RowFacts, UpdateKeepsIInv
<1> QED
  BY <1>1, <1>2, <1>3, <1>4, <1>5 DEF UserStep

LEMMA MerchantKeepsIInv == IInv /\ MerchantStep => IInv'
<1> SUFFICES ASSUME IInv, MerchantStep PROVE IInv'
  OBVIOUS
<1>1. ASSUME NEW c \in Case, NEW a \in 0..cases[c].requested, MerchantApprove(c, a)
      PROVE  IInv'
  <2> DEFINE row == [cases[c] EXCEPT !.actual = a]
  <2>1. a \in Nat /\ cases[c].status = "pending_merchant_review"
    BY <1>1, RowFacts DEF CaseRow, MerchantApprove
  <2>2. /\ row \in CaseRow
        /\ row.status = "pending_merchant_review" /\ row.order = cases[c].order
        /\ row.type = cases[c].type
    BY <2>1, RowFacts DEF CaseRow
  <2>3. IF row.type = "refund_only"
        THEN RefundCase(c, row)
        ELSE Update(c, Moved(row, "merchant_agreed_waiting_return"))
    BY <1>1 DEF MerchantApprove
  <2>4. cases[c].status \in ActiveStatus
    BY <2>1 DEF ActiveStatus
  <2>5. row.order # NoOrder /\ row.type # "none"
    BY <2>1, <2>2, RowFacts DEF RowOK
  <2> HIDE DEF row
  <2>6. CASE row.type = "refund_only"
    <3>1. RowOK(Moved(row, "completed_refunded"))
      BY <2>2, <2>5, <2>6, MovedRow DEF RowOK, FinalStatus
    <3> QED
      BY <2>1, <2>2, <2>3, <2>4, <2>6, <3>1, RefundCaseKeepsIInv
  <2>7. CASE row.type # "refund_only"
    <3>1. RowOK(Moved(row, "merchant_agreed_waiting_return"))
      BY <2>2, <2>5, MovedRow DEF RowOK, ActiveStatus
    <3>2. /\ Moved(row, "merchant_agreed_waiting_return").order = cases[c].order
          /\ Moved(row, "merchant_agreed_waiting_return").status # "completed_refunded"
      BY <2>2, MovedRow DEF ActiveStatus
    <3> QED
      BY <2>1, <2>3, <2>4, <2>7, <3>1, <3>2, RowFacts, UpdateKeepsIInv
  <2> QED
    BY <2>6, <2>7
<1>2. ASSUME NEW c \in Case, MerchantReject(c) PROVE IInv'
  <2>1. RowOK(Moved(cases[c], "merchant_rejected"))
    BY <1>2, RowFacts, MovedRow DEF MerchantReject, RowOK, FinalStatus
  <2>2. /\ Moved(cases[c], "merchant_rejected").status \notin ActiveStatus
        /\ Moved(cases[c], "merchant_rejected").status # "completed_refunded"
        /\ Moved(cases[c], "merchant_rejected").order = cases[c].order
    BY RowFacts, MovedRow DEF FinalStatus, ActiveStatus
  <2> QED
    BY <1>2, <2>1, <2>2, RowFacts, UpdateKeepsIInv DEF MerchantReject
<1>3. ASSUME NEW c \in Case, MerchantConfirmReceived(c) PROVE IInv'
  BY <1>3, ReceivedKeepsIInv DEF MerchantConfirmReceived
<1>4. ASSUME NEW c \in Case, MerchantRefuseReceive(c) PROVE IInv'
  <2> DEFINE row == Escalated(cases[c], "merchant_refuse_receive")
  <2>1. "merchant_refuse_receive" \in Escalation /\ "merchant_refuse_receive" # "none"
    BY DEF Escalation
  <2>2. /\ RowOK(row) /\ row.order = cases[c].order
        /\ row.status # "completed_refunded"
    BY <1>4, <2>1, RowFacts, EscalatedRow DEF MerchantRefuseReceive, RowOK
  <2>3. /\ Update(c, row) /\ cases[c].status \in ActiveStatus
        /\ cases[c].status # "completed_refunded"
    BY <1>4 DEF MerchantRefuseReceive, ActiveStatus
  <2> HIDE DEF row
  <2> QED
    BY <2>2, <2>3, RowFacts, UpdateKeepsIInv
<1>5. ASSUME NEW c \in Case, MerchantShipExchange(c) PROVE IInv'
  <2> DEFINE row == Moved(cases[c], "exchange_shipped_waiting_receive")
  <2>1. /\ RowOK(row) /\ row.order = cases[c].order
        /\ row.status # "completed_refunded"
    BY <1>5, RowFacts, MovedRow DEF MerchantShipExchange, RowOK, ActiveStatus
  <2>2. /\ Update(c, row) /\ cases[c].status \in ActiveStatus
        /\ cases[c].status # "completed_refunded"
    BY <1>5 DEF MerchantShipExchange, ActiveStatus
  <2> HIDE DEF row
  <2> QED
    BY <2>1, <2>2, RowFacts, UpdateKeepsIInv
<1> QED
  BY <1>1, <1>2, <1>3, <1>4, <1>5 DEF MerchantStep

LEMMA AdminKeepsIInv == IInv /\ AdminStep => IInv'
<1> SUFFICES ASSUME IInv, AdminStep PROVE IInv'
  OBVIOUS
<1>1. ASSUME NEW c \in Case, NEW m \in Admin, AdminTakeOver(c, m) PROVE IInv'
  <2> DEFINE row == [cases[c] EXCEPT !.arbitrator = m]
  <2>1. /\ RowOK(row) /\ row.order = cases[c].order
        /\ row.status = cases[c].status
    BY RowFacts DEF RowOK, CaseRow
  <2>2. /\ Update(c, row) /\ cases[c].status \in ActiveStatus
        /\ cases[c].status # "completed_refunded"
    BY <1>1 DEF AdminTakeOver, ActiveStatus
  <2> HIDE DEF row
  <2> QED
    BY <2>1, <2>2, RowFacts, UpdateKeepsIInv
<1>2. ASSUME NEW c \in Case, NEW m \in Admin,
             NEW amount \in 1..MaxVerdict \cup {NoAmount}, AdminResolve(c, m, amount)
      PROVE  IInv'
  <2> DEFINE row == [cases[c] EXCEPT !.arbitrator = m]
  <2>1. /\ row \in CaseRow /\ row.status = "admin_arbitrating"
        /\ row.order = cases[c].order /\ row.type = cases[c].type
        /\ row.escalation # "none" /\ row.order # NoOrder /\ row.type # "none"
    BY <1>2, RowFacts DEF RowOK, CaseRow, AdminResolve
  <2>2. cases[c].status \in ActiveStatus /\ cases[c].status = "admin_arbitrating"
    BY <1>2 DEF AdminResolve, ActiveStatus
  <2>3. \/ Update(c, Moved(row, "system_closed"))
        \/ amount \in 1..MaxVerdict /\ RefundCase(c, [row EXCEPT !.actual = amount])
    BY <1>2 DEF AdminResolve
  <2> HIDE DEF row
  <2>4. CASE Update(c, Moved(row, "system_closed"))
    <3>1. RowOK(Moved(row, "system_closed"))
      BY <2>1, MovedRow DEF RowOK, FinalStatus
    <3>2. /\ Moved(row, "system_closed").order = cases[c].order
          /\ Moved(row, "system_closed").status # "completed_refunded"
      BY <2>1, MovedRow DEF FinalStatus
    <3> QED
      BY <2>2, <2>4, <3>1, <3>2, RowFacts, UpdateKeepsIInv
  <2>5. CASE amount \in 1..MaxVerdict /\ RefundCase(c, [row EXCEPT !.actual = amount])
    <3> DEFINE granted == [row EXCEPT !.actual = amount]
    <3>1. /\ granted \in CaseRow
          /\ granted.order = cases[c].order /\ granted.escalation # "none"
          /\ granted.status = "admin_arbitrating"
          /\ granted.order # NoOrder /\ granted.type # "none"
      BY <2>1, <2>5, AftersalesAssumption DEF CaseRow
    <3> HIDE DEF granted
    <3>2. RowOK(Moved(granted, "completed_refunded"))
      BY <3>1, MovedRow DEF RowOK, FinalStatus
    <3> QED
      BY <2>2, <2>5, <3>1, <3>2, RefundCaseKeepsIInv DEF granted
  <2> QED
    BY <2>3, <2>4, <2>5
<1>3. ASSUME NEW c \in Case, NEW m \in Admin,
             NEW amount \in 1..(2 * cases[c].requested), AdminForceRefund(c, m, amount)
      PROVE  IInv'
  <2> DEFINE row == [cases[c] EXCEPT
                       !.actual = amount,
                       !.arbitrator = m,
                       !.escalation = IF @ = "none" THEN "manual" ELSE @]
  <2>1. amount \in Nat
    BY <1>3, RowFacts DEF CaseRow
  <2>2. cases[c].status \in ActiveStatus /\ RefundCase(c, row)
    BY <1>3 DEF AdminForceRefund
  <2>3. /\ row \in CaseRow
        /\ row.order = cases[c].order /\ row.type = cases[c].type
        /\ row.escalation # "none" /\ row.status = cases[c].status
    BY <2>1, RowFacts DEF CaseRow, Escalation
  <2>4. row.order # NoOrder /\ row.type # "none"
    BY <2>2, <2>3, RowFacts DEF RowOK, ActiveStatus
  <2> HIDE DEF row
  <2>5. RowOK(Moved(row, "completed_refunded"))
    BY <2>3, <2>4, MovedRow DEF RowOK, FinalStatus
  <2> QED
    BY <2>2, <2>3, <2>5, RefundCaseKeepsIInv
<1> QED
  BY <1>1, <1>2, <1>3 DEF AdminStep

LEMMA ScanKeepsIInv == IInv /\ ScanStep => IInv'
<1> SUFFICES ASSUME IInv, ScanStep PROVE IInv'
  OBVIOUS
<1>1. CASE ScanMerchantReview
  <2>1. PICK B \in SUBSET Late("pending_merchant_review") :
          UpdateAll(B, LAMBDA row : Escalated(row, "merchant_timeout"))
    BY <1>1 DEF ScanMerchantReview, Batches
  <2>2. /\ cases' = [c \in Case |-> IF c \in B THEN Escalated(cases[c], "merchant_timeout")
                                    ELSE cases[c]]
        /\ UNCHANGED <<state, charged, refunded, partial>>
        /\ \A c \in B : cases[c].status = "pending_merchant_review"
    BY <2>1 DEF UpdateAll, Late
  <2>3. "merchant_timeout" \in Escalation /\ "merchant_timeout" # "none"
    BY DEF Escalation
  <2>4. ASSUME NEW c \in Case
        PROVE  /\ RowOK(cases'[c])
               /\ cases'[c].order = cases[c].order
               /\ cases'[c].status \in ActiveStatus => cases[c].status \in ActiveStatus
               /\ "completed_refunded" \in {cases[c].status, cases'[c].status}
                    => cases'[c] = cases[c]
    BY <2>2, <2>3, RowFacts, EscalatedRow DEF RowOK, ActiveStatus
  <2>5. cases' \in [Case -> CaseRow]
    BY <2>2, <2>4 DEF RowOK
  <2> QED
    BY <2>2, <2>4, <2>5, RowsKeepIInv
<1>2. CASE ScanUserReturn
  <2>1. PICK B \in SUBSET Late("merchant_agreed_waiting_return") :
          UpdateAll(B, LAMBDA row : Moved(row, "system_closed"))
    BY <1>2 DEF ScanUserReturn, Batches
  <2>2. /\ cases' = [c \in Case |-> IF c \in B THEN Moved(cases[c], "system_closed")
                                    ELSE cases[c]]
        /\ UNCHANGED <<state, charged, refunded, partial>>
        /\ \A c \in B : cases[c].status = "merchant_agreed_waiting_return"
    BY <2>1 DEF UpdateAll, Late
  <2>3. ASSUME NEW c \in Case
        PROVE  /\ RowOK(cases'[c])
               /\ cases'[c].order = cases[c].order
               /\ cases'[c].status \in ActiveStatus => cases[c].status \in ActiveStatus
               /\ "completed_refunded" \in {cases[c].status, cases'[c].status}
                    => cases'[c] = cases[c]
    BY <2>2, RowFacts, MovedRow DEF RowOK, ActiveStatus, FinalStatus
  <2>4. cases' \in [Case -> CaseRow]
    BY <2>2, <2>3 DEF RowOK
  <2> QED
    BY <2>2, <2>3, <2>4, RowsKeepIInv
<1>3. CASE ScanMerchantReceive
  <2>1. PICK B \in SUBSET Late("return_shipped_waiting_receive") : Received(B)
    BY <1>3 DEF ScanMerchantReceive, Batches
  <2>2. B \in SUBSET Case /\ \A c \in B : cases[c].status = "return_shipped_waiting_receive"
    BY <2>1 DEF Late
  <2> QED
    BY <2>1, <2>2, ReceivedKeepsIInv
<1>4. CASE ScanExchangeConfirm
  <2>1. PICK B \in SUBSET Late("exchange_shipped_waiting_receive") :
          UpdateAll(B, LAMBDA row : Moved(row, "completed_exchanged"))
    BY <1>4 DEF ScanExchangeConfirm, Batches
  <2>2. /\ cases' = [c \in Case |-> IF c \in B THEN Moved(cases[c], "completed_exchanged")
                                    ELSE cases[c]]
        /\ UNCHANGED <<state, charged, refunded, partial>>
        /\ \A c \in B : cases[c].status = "exchange_shipped_waiting_receive"
    BY <2>1 DEF UpdateAll, Late
  <2>3. ASSUME NEW c \in Case
        PROVE  /\ RowOK(cases'[c])
               /\ cases'[c].order = cases[c].order
               /\ cases'[c].status \in ActiveStatus => cases[c].status \in ActiveStatus
               /\ "completed_refunded" \in {cases[c].status, cases'[c].status}
                    => cases'[c] = cases[c]
    BY <2>2, RowFacts, MovedRow DEF RowOK, ActiveStatus, FinalStatus
  <2>4. cases' \in [Case -> CaseRow]
    BY <2>2, <2>3 DEF RowOK
  <2> QED
    BY <2>2, <2>3, <2>4, RowsKeepIInv
<1> QED
  BY <1>1, <1>2, <1>3, <1>4 DEF ScanStep

LEMMA DeadlineKeepsIInv ==
  ASSUME IInv, NEW c \in Case, DeadlinePasses(c)
  PROVE  IInv'
<1> DEFINE row == [cases[c] EXCEPT !.late = TRUE]
<1>1. /\ RowOK(row) /\ row.order = cases[c].order
      /\ row.status = cases[c].status
  BY RowFacts DEF RowOK, CaseRow
<1>2. Update(c, row) /\ cases[c].status # "completed_refunded"
  BY DEF DeadlinePasses, TimedStatus
<1> HIDE DEF row
<1> QED
  BY <1>1, <1>2, RowFacts, UpdateKeepsIInv

LEMMA OrderKeepsIInv == IInv /\ OrderStep => IInv'
<1> SUFFICES ASSUME IInv, OrderStep PROVE IInv'
  OBVIOUS
<1>1. UNCHANGED <<refunded, partial, cases>> /\ Lifecycle!Serve
  BY DEF OrderStep
<1> DEFINE moved(S, from, to) ==
      /\ \A o \in S : state[o] \in from
      /\ state' = [o \in Order |-> IF o \in S THEN to ELSE state[o]]
<1>2. PICK S \in SUBSET Order :
        \/ moved(S, {"none"}, "pending_payment") /\ charged' = charged
        \/ moved(S, {"pending_payment"}, "paid") /\ charged' = charged \cup S
        \/ moved(S, {"paid"}, "shipped") /\ charged' = charged
        \/ moved(S, {"shipped"}, "completed") /\ charged' = charged
        \/ moved(S, {"pending_payment", "paid"}, "cancelled") /\ charged' = charged
  <2>1. CASE \E S \in SUBSET Order : Lifecycle!Place(S) \/ Lifecycle!Complete(S) \/ Lifecycle!Cancel(S)
    BY <2>1 DEF Lifecycle!Place, Lifecycle!Complete, Lifecycle!Cancel, Lifecycle!Move
  <2>2. CASE \E o \in Order : Lifecycle!Pay(o) \/ Lifecycle!Ship(o)
    <3>1. PICK o \in Order : Lifecycle!Pay(o) \/ Lifecycle!Ship(o)
      BY <2>2
    <3>2. {o} \in SUBSET Order
      OBVIOUS
    <3> QED
      BY <3>1, <3>2 DEF Lifecycle!Pay, Lifecycle!Ship, Lifecycle!Move
  <2> QED
    BY <1>1, <2>1, <2>2 DEF Lifecycle!Serve
<1>3. OrderTypes'
  BY <1>1, <1>2 DEF IInv, OrderTypes
<1>4. OrdersAgree'
  BY <1>1, <1>2 DEF IInv, OrderTypes, OrdersAgree, RefundsMatchOrders
<1>5. OneActiveCase' /\ RowsOK(cases')
  BY <1>1 DEF IInv, OneActiveCase, ActiveCases
<1>6. CasesCharged(cases)'
  BY <1>1, <1>2 DEF IInv, CasesCharged
<1>7. RefundLedger'
  BY <1>1 DEF IInv, RefundLedger, RefundedCases
<1> QED
  BY <1>1, <1>3, <1>4, <1>5, <1>6, <1>7 DEF IInv, RowsOK

-----------------------------------------------------------------------------
(* The theorems.                                                           *)

LEMMA InitIInv == Init => IInv
<1> SUFFICES ASSUME Init PROVE IInv
  OBVIOUS
<1>1. UnusedCase \in CaseRow /\ RowOK(UnusedCase)
  BY DEF UnusedCase, CaseRow, RowOK
<1>2. RowsOK(cases) /\ CasesCharged(cases) /\ OneActiveCase
  BY <1>1 DEF Init, RowsOK, CasesCharged, OneActiveCase, ActiveCases, UnusedCase, ActiveStatus
<1>3. OrderTypes /\ OrdersAgree
  BY AftersalesAssumption DEF Init, Lifecycle!Init, OrderTypes, OrdersAgree, RefundsMatchOrders
<1>4. ASSUME NEW o \in Order PROVE refunded[o] = RefundSum(cases, o)
  <2>1. RefundedIn(cases, o) = {} /\ refunded[o] = 0
    BY DEF Init, UnusedCase, RefundedIn
  <2> QED
    BY <2>1, SumEmpty DEF RefundSum
<1> QED
  BY <1>2, <1>3, <1>4, LedgerBySum DEF IInv

\* The inductive invariant holds in every reachable state.
THEOREM Invariance == Spec => []IInv
<1>1. IInv /\ [Next]_vars => IInv'
  <2> SUFFICES ASSUME IInv, [Next]_vars PROVE IInv'
    OBVIOUS
  <2>1. CASE UNCHANGED vars
    BY <2>1 DEF vars, IInv, OrderTypes, OrdersAgree, RefundsMatchOrders, RowsOK,
                CasesCharged, OneActiveCase, ActiveCases, RefundLedger, RefundedCases
  <2> QED
    BY <2>1, OrderKeepsIInv, UserKeepsIInv, MerchantKeepsIInv, AdminKeepsIInv,
       ScanKeepsIInv, DeadlineKeepsIInv DEF Next
<1> QED
  BY <1>1, InitIInv, PTL DEF Spec

\* All a case can do to orders is to close some.
Closes ==
    /\ charged' = charged
    /\ \/ state' = state
       \/ \E S \in SUBSET Order :
            state' = [o \in Order |-> IF o \in S THEN "closed" ELSE state[o]]

LEMMA CasesCloseOrders ==
  ASSUME UserStep \/ MerchantStep \/ AdminStep \/ ScanStep
           \/ \E c \in Case : DeadlinePasses(c)
  PROVE  Closes
<1>1. ASSUME UNCHANGED <<state, charged>> PROVE Closes
  BY <1>1 DEF Closes
<1>2. ASSUME NEW R, NEW new, Refund(R, new) PROVE Closes
  <2> DEFINE full(o) == FullyRefunded(o, refunded[o] + Granted(R, new, o))
             S == {o \in Order : Granted(R, new, o) > 0 /\ full(o)}
  <2>1. state' = [o \in Order |-> IF o \in S THEN "closed" ELSE state[o]]
    BY <1>2 DEF Refund, LinkOrders
  <2>2. charged' = charged
    BY <1>2 DEF Refund, LinkOrders
  <2> HIDE DEF S
  <2>3. S \in SUBSET Order
    BY DEF S
  <2> QED
    BY <2>1, <2>2, <2>3 DEF Closes
<1>3. ASSUME NEW c, NEW row, Update(c, row) PROVE Closes
  BY <1>1, <1>3 DEF Update
<1>4. ASSUME NEW c, NEW row, RefundCase(c, row) PROVE Closes
  BY <1>2, <1>4 DEF RefundCase
<1>5. CASE UserStep
  <2>1. ASSUME NEW c \in Case, NEW o \in Order, NEW ty \in CaseType, NEW flagged \in BOOLEAN,
               NEW q \in 0..Total[o], UserCreate(c, o, ty, q, flagged)
        PROVE  Closes
    BY <1>3, <2>1 DEF UserCreate
  <2>2. ASSUME NEW c \in Case,
               \/ UserCancel(c) \/ UserSubmitTracking(c)
               \/ UserConfirmExchange(c) \/ UserAppeal(c)
        PROVE  Closes
    BY <1>3, <2>2 DEF UserCancel, UserSubmitTracking, UserConfirmExchange, UserAppeal
  <2>3. PICK c \in Case :
          \/ \E o \in Order, ty \in CaseType, flagged \in BOOLEAN :
               \E q \in 0..Total[o] : UserCreate(c, o, ty, q, flagged)
          \/ UserCancel(c) \/ UserSubmitTracking(c)
          \/ UserConfirmExchange(c) \/ UserAppeal(c)
    BY <1>5 DEF UserStep
  <2> QED
    BY <2>1, <2>2, <2>3
<1>6. CASE MerchantStep
  <2>1. ASSUME NEW c \in Case, NEW a, MerchantApprove(c, a) PROVE Closes
    BY <1>3, <1>4, <2>1 DEF MerchantApprove
  <2>2. ASSUME NEW c \in Case,
               MerchantReject(c) \/ MerchantRefuseReceive(c) \/ MerchantShipExchange(c)
        PROVE  Closes
    BY <1>3, <2>2 DEF MerchantReject, MerchantRefuseReceive, MerchantShipExchange
  <2>3. ASSUME NEW c \in Case, MerchantConfirmReceived(c) PROVE Closes
    BY <1>2, <2>3 DEF MerchantConfirmReceived, Received
  <2>4. PICK c \in Case :
          \/ \E a \in 0..cases[c].requested : MerchantApprove(c, a)
          \/ MerchantReject(c)
          \/ MerchantConfirmReceived(c) \/ MerchantRefuseReceive(c)
          \/ MerchantShipExchange(c)
    BY <1>6 DEF MerchantStep
  <2> QED
    BY <2>1, <2>2, <2>3, <2>4
<1>7. CASE AdminStep
  <2>1. ASSUME NEW c \in Case, NEW m \in Admin, AdminTakeOver(c, m) PROVE Closes
    BY <1>3, <2>1 DEF AdminTakeOver
  <2>2. ASSUME NEW c \in Case, NEW m \in Admin, NEW amount, AdminResolve(c, m, amount)
        PROVE  Closes
    BY <1>3, <1>4, <2>2 DEF AdminResolve
  <2>3. ASSUME NEW c \in Case, NEW m \in Admin, NEW amount, AdminForceRefund(c, m, amount)
        PROVE  Closes
    BY <1>4, <2>3 DEF AdminForceRefund
  <2>4. PICK c \in Case, m \in Admin :
          \/ AdminTakeOver(c, m)
          \/ \E amount \in 1..MaxVerdict \cup {NoAmount} : AdminResolve(c, m, amount)
          \/ \E amount \in 1..(2 * cases[c].requested) : AdminForceRefund(c, m, amount)
    BY <1>7 DEF AdminStep
  <2> QED
    BY <2>1, <2>2, <2>3, <2>4
<1>8. CASE ScanStep
  BY <1>1, <1>2, <1>8 DEF ScanStep, ScanMerchantReview, ScanUserReturn,
       ScanMerchantReceive, ScanExchangeConfirm, Received, UpdateAll
<1>9. CASE \E c \in Case : DeadlinePasses(c)
  BY <1>1, <1>9 DEF DeadlinePasses, Update
<1> QED
  BY <1>5, <1>6, <1>7, <1>8, <1>9

LEMMA StepImplements ==
  ASSUME IInv, IInv', [Next]_vars
  PROVE  [Lifecycle!Next]_(Lifecycle!lvars)
<1>1. CASE OrderStep
  BY <1>1 DEF OrderStep, Lifecycle!Next
<1>2. CASE UNCHANGED vars
  BY <1>2 DEF vars, Lifecycle!lvars
<1>3. CASE UserStep \/ MerchantStep \/ AdminStep \/ ScanStep
             \/ \E c \in Case : DeadlinePasses(c)
  <2>1. CASE state' = state
    BY <1>3, <2>1, CasesCloseOrders DEF Closes, Lifecycle!lvars
  <2>2. CASE state' # state
    <3>1. charged' = charged
      BY <1>3, CasesCloseOrders DEF Closes
    <3>2. PICK S \in SUBSET Order :
            state' = [o \in Order |-> IF o \in S THEN "closed" ELSE state[o]]
      BY <1>3, <2>2, CasesCloseOrders DEF Closes
    <3> DEFINE T == {o \in S : state[o] # "closed"}
    <3>3. state' = [o \in Order |-> IF o \in T THEN "closed" ELSE state[o]]
      BY <3>2
    <3>4. T # {}
      <4>1. state = [o \in Order |-> state[o]]
        BY DEF IInv, OrderTypes
      <4> QED
        BY <2>2, <3>3, <4>1
    <3>5. ASSUME NEW o \in T
          PROVE  o \in charged /\ state[o] \in {"paid", "shipped", "completed", "cancelled"}
      <4>1. o \in Order /\ state'[o] = "closed" /\ state[o] # "closed"
        BY <3>3
      <4>2. refunded'[o] >= Total[o] /\ (refunded'[o] > 0 => o \in charged')
        BY <4>1 DEF IInv, OrdersAgree, RefundsMatchOrders
      <4>3. refunded'[o] \in Nat /\ Total[o] \in Nat \ {0}
        BY <4>1, AftersalesAssumption DEF IInv, OrderTypes
      <4>4. o \in charged
        BY <3>1, <4>2, <4>3
      <4> QED
        BY <4>1, <4>4 DEF IInv, OrderTypes, OrdersAgree
    <3> HIDE DEF T
    <3>6. T \in SUBSET Order
      BY DEF T
    <3>7. Lifecycle!Close(T)
      BY <3>1, <3>3, <3>4, <3>5 DEF Lifecycle!Close, Lifecycle!Move
    <3> QED
      BY <3>6, <3>7 DEF Lifecycle!Next
  <2> QED
    BY <2>1, <2>2
<1> QED
  BY <1>1, <1>2, <1>3 DEF Next

\* Whatever cases, verdicts and scans do, orders walk the state machine of the
\* order contract: a refund closes only what was paid (_order_side_link).
THEOREM ContractKept == Spec => KeepsOrderContract
<1>1. Init => Lifecycle!Init
  BY DEF Init
<1>2. IInv /\ IInv' /\ [Next]_vars => [Lifecycle!Next]_(Lifecycle!lvars)
  BY StepImplements
<1> QED
  BY <1>1, <1>2, Invariance, PTL DEF Spec, KeepsOrderContract, Lifecycle!Spec

\* Every column keeps to its type, amounts never turn negative
\* (models/aftersales.py, models/order.py).
THEOREM TypeCorrect == Spec => []TypeOK
<1>1. IInv => TypeOK
  BY DEF IInv, TypeOK, CasesOK, OrderTypes, RowsOK
<1> QED
  BY <1>1, Invariance, PTL

\* An order never has two cases under way, whichever appeals, new requests and
\* escalations follow each other (_has_active_aftersales and the unique index).
THEOREM OneActiveCaseCorrect == Spec => []OneActiveCase
<1>1. IInv => OneActiveCase
  BY DEF IInv
<1> QED
  BY <1>1, Invariance, PTL

\* Only paid orders are refunded; an order is closed exactly when at least its
\* total went back, and has the partial mark when less did (_order_side_link).
THEOREM RefundsMatchOrdersCorrect == Spec => []RefundsMatchOrders
<1>1. IInv => RefundsMatchOrders
  BY DEF IInv, OrdersAgree
<1> QED
  BY <1>1, Invariance, PTL

\* Returned goods come before their refund, unless the platform decided
\* (merchant_approve, _merchant_received, admin_resolve, admin_force_refund).
THEOREM ReturnBeforeRefundCorrect == Spec => []ReturnBeforeRefund
<1>1. IInv => ReturnBeforeRefund
  BY DEF IInv, RowsOK, RowOK, ReturnBeforeRefund
<1> QED
  BY <1>1, Invariance, PTL

\* What an order says was refunded is the sum of what its refunded cases paid
\* out, over every approval, receipt, scan and verdict (_order_side_link).
THEOREM RefundLedgerCorrect == Spec => []RefundLedger
<1>1. IInv => RefundLedger
  BY DEF IInv
<1> QED
  BY <1>1, Invariance, PTL
=============================================================================
