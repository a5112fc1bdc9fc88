----------------------------- MODULE DeskProofs -----------------------------
(***************************************************************************)
(* Proofs about Desk, for any pages, any backend and any bounds, and then  *)
(* for the desks of the three apps.                                        *)
(*                                                                         *)
(* What a page offers is written twice: in the page and in the service.    *)
(* OffersHonoured says that the two texts agree on every row.  The theorem *)
(* says that the rest - reads that are cached, answers that arrive late,   *)
(* commands that are served later than they were sent - can then make the  *)
(* backend refuse only what somebody has changed in the meantime.  That    *)
(* the texts of the apps do agree is proved from the tables of Pages.      *)
(***************************************************************************)
EXTENDS AppDesks, TLAPS

\* Rows[d] holds every row that desk d can come to, and pages lead to pages.
RowsClosed(Rows) ==
    \A d \in Desks :
        /\ Starts(d) \subseteq Rows[d]
        /\ \A r \in Rows[d] :
              /\ Others(d, r) \subseteq Rows[d]
              /\ \A c \in ControlsOf(d) : Accepts(d, c, r) => Effect(d, c, r) \subseteq Rows[d]
        /\ \A p \in PagesOf(d), c \in ControlsOf(d) :
              NextPage(d, p, c) \in PagesOf(d) /\ Refreshes(d, p, c) \subseteq PagesOf(d)

\* What a page offers for the row as it is, the backend takes, but for the
\* conditions that the page leaves to the backend or is known to misjudge.
OffersHonoured(Rows) ==
    \A d \in Desks : \A p \in PagesOf(d), c \in ControlsOf(d), r \in Rows[d] :
        Offers(d, p, c, Sees(d, p, r)) =>
            Asks(d, c) \/ Misjudged(d, c, Sees(d, p, r)) \/ Accepts(d, c, r)

-----------------------------------------------------------------------------
(* The inductive invariant. *)

\* The variables have the shape that EXCEPT and field access suppose.
Shapes ==
    /\ view = [p \in PagesOf(desk) |-> view[p]]
    /\ fetch = [p \in PagesOf(desk) |->
                  [st |-> fetch[p].st, got |-> fetch[p].got, old |-> fetch[p].old]]
    /\ call = [st |-> call.st, cmd |-> call.cmd, from |-> call.from,
               saw |-> call.saw, old |-> call.old]

\* A copy of the row that nobody has made old is what a read would give now.
CopiesCurrent ==
    \A p \in PagesOf(desk) :
        /\ view[p] # NoView /\ old[p] = {} => view[p] = Sees(desk, p, row)
        /\ fetch[p].st = "answered" /\ fetch[p].old = {} =>
               fetch[p].got = Sees(desk, p, row)

\* Whatever its state, a command is one of this desk's.
CallOfDesk ==
    call.st # "none" => call.cmd \in ControlsOf(desk) /\ call.from \in PagesOf(desk)

\* A command on its way was offered for what its page saw, and that is the row
\* as it is unless others have changed it since.
CallGrounded ==
    call.st = "sent" /\ call.old = {} =>
        /\ Offers(desk, call.from, call.cmd, call.saw)
        /\ call.saw = Sees(desk, call.from, row)

DeskInv(Rows) ==
    /\ TypeOK
    /\ Shapes
    /\ row \in Rows[desk]
    /\ CopiesCurrent
    /\ CallOfDesk
    /\ CallGrounded

-----------------------------------------------------------------------------
(* It holds at first. *)

LEMMA InitInv ==
  ASSUME NEW Rows, RowsClosed(Rows), BudgetsAreNumbers,
         Init
  PROVE  DeskInv(Rows)
<1>1. left \in [calls : Nat, changes : Nat, faults : Nat]
  BY DEF Init, BudgetsAreNumbers
<1>2. /\ fetch = [p \in PagesOf(desk) |-> fetch[p]]
      /\ \A p \in PagesOf(desk) :
            fetch[p] \in {Quiet, [st |-> "asked", got |-> NoView, old |-> {}]}
  <2>1. [Quiet EXCEPT !.st = "asked"] = [st |-> "asked", got |-> NoView, old |-> {}]
    BY DEF Quiet
  <2> QED  BY <2>1 DEF Init
<1>5. TypeOK
  BY <1>1, <1>2 DEF Init, TypeOK, ReadOK, Quiet, NoCall, Whose
<1>6. Shapes
  <2>1. \A p \in PagesOf(desk) :
           fetch[p] = [st |-> fetch[p].st, got |-> fetch[p].got, old |-> fetch[p].old]
    BY <1>2 DEF Quiet
  <2> QED  BY <1>2, <2>1 DEF Init, Shapes, NoCall
<1>3. row \in Rows[desk]
  BY DEF Init, RowsClosed
<1>4. CopiesCurrent /\ CallGrounded /\ call.st = "none"
  BY DEF Init, CopiesCurrent, CallGrounded, Quiet, NoCall
<1> QED  BY <1>3, <1>4, <1>5, <1>6 DEF DeskInv, CallOfDesk

-----------------------------------------------------------------------------
(* Reads keep it. *)

\* Opening a page or asking again: only the state of a read changes.
LEMMA AskInv ==
  ASSUME NEW Rows, RowsClosed(Rows), DeskInv(Rows),
         NEW p \in PagesOf(desk), Open(p) \/ Retry
  PROVE  DeskInv(Rows)'
<1>1. /\ DOMAIN fetch' = PagesOf(desk)
      /\ fetch' = [q \in PagesOf(desk) |-> fetch'[q]]
      /\ \A q \in PagesOf(desk) :
            \/ fetch'[q] = fetch[q]
            \/ fetch'[q] = [st |-> "asked", got |-> NoView, old |-> {}]
  <2>1. [Quiet EXCEPT !.st = "asked"] = [st |-> "asked", got |-> NoView, old |-> {}]
    BY DEF Quiet
  <2>2. \/ fetch' = fetch
        \/ \E q \in PagesOf(desk) :
              fetch' = [fetch EXCEPT ![q] = [st |-> "asked", got |-> NoView, old |-> {}]]
    BY <2>1 DEF Open, Retry, Mounted, Asked, DeskInv, TypeOK
  <2>3. fetch = [q \in PagesOf(desk) |-> fetch[q]]
    BY DEF DeskInv, Shapes
  <2> QED  BY <2>2, <2>3
<1>2. /\ page' \in PagesOf(desk)
      /\ UNCHANGED <<desk, row, view, dirty, call, old, excused, left>>
  BY DEF Open, Retry, Mounted, DeskInv, TypeOK
<1>3. TypeOK' /\ Shapes'
  <2>1. \A q \in PagesOf(desk) :
           /\ ReadOK(fetch'[q])
           /\ fetch'[q] = [st |-> fetch'[q].st, got |-> fetch'[q].got, old |-> fetch'[q].old]
    BY <1>1 DEF DeskInv, TypeOK, ReadOK, Shapes
  <2> QED  BY <1>1, <1>2, <2>1 DEF DeskInv, TypeOK, Shapes
<1>4. CopiesCurrent'
  BY <1>1, <1>2 DEF DeskInv, CopiesCurrent
<1>5. CallOfDesk' /\ CallGrounded'
  BY <1>2 DEF DeskInv, CallOfDesk, CallGrounded
<1> QED  BY <1>2, <1>3, <1>4, <1>5 DEF DeskInv

LEMMA ReadInv ==
  ASSUME NEW Rows, RowsClosed(Rows), DeskInv(Rows),
         NEW p \in PagesOf(desk), Answer(p) \/ Arrive(p) \/ ReadFails(p)
  PROVE  DeskInv(Rows)'
<1>1. UNCHANGED <<desk, row, page, call>>
  BY DEF Answer, Arrive, ReadFails
<1>2. CallOfDesk' /\ CallGrounded'
  BY <1>1 DEF DeskInv, CallOfDesk, CallGrounded
<1>3. CASE Answer(p)
  <2>1. TypeOK' /\ Shapes'
    BY <1>3 DEF Answer, DeskInv, TypeOK, ReadOK, Shapes, Whose
  <2>2. CopiesCurrent'
    BY <1>3 DEF Answer, DeskInv, TypeOK, Shapes, CopiesCurrent
  <2> QED  BY <1>1, <1>2, <2>1, <2>2 DEF DeskInv
<1>4. CASE Arrive(p)
  <2>1. TypeOK' /\ Shapes'
    BY <1>4 DEF Arrive, DeskInv, TypeOK, ReadOK, Shapes, Quiet, Whose
  <2>2. CopiesCurrent'
    BY <1>4 DEF Arrive, DeskInv, TypeOK, Shapes, CopiesCurrent, Quiet
  <2> QED  BY <1>1, <1>2, <2>1, <2>2 DEF DeskInv
<1>5. CASE ReadFails(p)
  <2>1. left' \in [calls : Nat, changes : Nat, faults : Nat]
    BY <1>5 DEF ReadFails, DeskInv, TypeOK
  <2>2. Shapes'
    BY <1>5 DEF ReadFails, DeskInv, TypeOK, Shapes, Quiet
  <2>3. /\ DOMAIN view' = PagesOf(desk) /\ DOMAIN fetch' = PagesOf(desk)
        /\ \A q \in PagesOf(desk) : ReadOK(fetch'[q])
        /\ old' \in [PagesOf(desk) -> SUBSET Whose]
    BY <1>5 DEF ReadFails, DeskInv, TypeOK, ReadOK, Quiet
  <2>4. TypeOK'
    BY <1>1, <1>5, <2>1, <2>3 DEF ReadFails, DeskInv, TypeOK
  <2>5. CopiesCurrent'
    BY <1>5 DEF ReadFails, DeskInv, TypeOK, Shapes, CopiesCurrent, Quiet
  <2> QED  BY <1>1, <1>2, <2>2, <2>4, <2>5 DEF DeskInv
<1> QED  BY <1>3, <1>4, <1>5

-----------------------------------------------------------------------------
(* A change of the row makes old exactly the copies that it makes wrong. *)

LEMMA ChangedCopies ==
  ASSUME NEW new, NEW who \in Whose, TypeOK, Shapes, CopiesCurrent,
         Changed(new, who), UNCHANGED <<desk, view>>
  PROVE  /\ CopiesCurrent'
         /\ old' \in [PagesOf(desk) -> SUBSET Whose]
         /\ DOMAIN fetch' = PagesOf(desk)
         /\ \A p \in PagesOf(desk) : ReadOK(fetch'[p])
         /\ fetch' = [p \in PagesOf(desk) |->
                        [st |-> fetch'[p].st, got |-> fetch'[p].got, old |-> fetch'[p].old]]
<1>1. \A p \in PagesOf(desk), copy \in SUBSET Whose :
         /\ Aged(p, copy, new, who) \in SUBSET Whose
         /\ Aged(p, copy, new, who) = {} =>
               copy = {} /\ Sees(desk, p, new) = Sees(desk, p, row)
  BY DEF Aged
<1>2. \A p \in PagesOf(desk) : old[p] \in SUBSET Whose /\ fetch[p].old \in SUBSET Whose
  BY DEF TypeOK, ReadOK
<1>3. \A p \in PagesOf(desk) :
         old'[p] = IF view[p] = NoView THEN {} ELSE Aged(p, old[p], new, who)
  BY DEF Changed
<1>4. \A p \in PagesOf(desk) :
         /\ fetch'[p].st = fetch[p].st /\ fetch'[p].got = fetch[p].got
         /\ fetch'[p].old = IF fetch[p].st = "answered"
                            THEN Aged(p, fetch[p].old, new, who) ELSE fetch[p].old
  BY DEF Changed, Shapes
<1>5. CopiesCurrent'
  BY <1>1, <1>2, <1>3, <1>4 DEF CopiesCurrent, Changed
<1>6. old' \in [PagesOf(desk) -> SUBSET Whose]
  BY <1>1, <1>2 DEF Changed
<1>7. \A p \in PagesOf(desk) : ReadOK(fetch'[p])
  BY <1>1, <1>2, <1>4 DEF ReadOK, TypeOK
<1>8. \A p \in PagesOf(desk) :
         fetch'[p] = [st |-> fetch'[p].st, got |-> fetch'[p].got, old |-> fetch'[p].old]
  BY DEF Changed, Shapes
<1>9. /\ DOMAIN fetch' = PagesOf(desk)
      /\ fetch' = [p \in PagesOf(desk) |-> fetch'[p]]
  BY DEF Changed
<1> QED  BY <1>5, <1>6, <1>7, <1>8, <1>9

-----------------------------------------------------------------------------
(* Commands keep it. *)

LEMMA PressInv ==
  ASSUME NEW Rows, RowsClosed(Rows), DeskInv(Rows),
         NEW c \in ControlsOf(desk), Press(c)
  PROVE  DeskInv(Rows)'
<1>1. page \in PagesOf(desk) /\ UNCHANGED <<desk, row, view, old, fetch>>
  BY DEF Press, DeskInv, TypeOK
<1>2. TypeOK' /\ Shapes'
  BY DEF Press, DeskInv, TypeOK, Shapes
<1>3. CopiesCurrent'
  BY <1>1 DEF DeskInv, CopiesCurrent
<1>4. call.old' = {} => view[page] = Sees(desk, page, row)
  BY <1>1 DEF Press, DeskInv, CopiesCurrent
<1>5. CallGrounded'
  BY <1>1, <1>4 DEF Press, CallGrounded
<1>6. CallOfDesk'
  BY <1>1 DEF Press, CallOfDesk
<1> QED  BY <1>1, <1>2, <1>3, <1>5, <1>6 DEF DeskInv

LEMMA ServeInv ==
  ASSUME NEW Rows, RowsClosed(Rows), DeskInv(Rows),
         Serve
  PROVE  DeskInv(Rows)'
<1>1. /\ call.st = "sent" /\ call.cmd \in ControlsOf(desk) /\ call.from \in PagesOf(desk)
      /\ desk \in Desks /\ row \in Rows[desk]
      /\ UNCHANGED <<desk, page, view, dirty, excused, left>>
  BY DEF Serve, DeskInv, CallOfDesk, TypeOK
<1>2. CASE Accepts(desk, call.cmd, row)
  <2>1. PICK new \in Effect(desk, call.cmd, row) : Changed(new, "own")
    BY <1>2 DEF Serve
  <2>2. call' = [call EXCEPT !.st = "ok"]
    BY <1>2 DEF Serve
  <2>3. row' \in Rows[desk]
    BY <1>1, <1>2, <2>1 DEF Changed, RowsClosed
  <2>4. /\ CopiesCurrent'
        /\ old' \in [PagesOf(desk) -> SUBSET Whose]
        /\ DOMAIN fetch' = PagesOf(desk)
        /\ \A p \in PagesOf(desk) : ReadOK(fetch'[p])
        /\ fetch' = [p \in PagesOf(desk) |->
                       [st |-> fetch'[p].st, got |-> fetch'[p].got, old |-> fetch'[p].old]]
    BY <1>1, <2>1, ChangedCopies DEF DeskInv, Whose
  <2>5. TypeOK' /\ Shapes'
    BY <1>1, <2>2, <2>4 DEF DeskInv, TypeOK, Shapes
  <2>6. CallOfDesk' /\ CallGrounded'
    BY <1>1, <2>2 DEF DeskInv, Shapes, CallOfDesk, CallGrounded
  <2> QED  BY <1>1, <2>3, <2>4, <2>5, <2>6 DEF DeskInv
<1>3. CASE ~ Accepts(desk, call.cmd, row)
  <2>1. call' = [call EXCEPT !.st = "refused"] /\ UNCHANGED <<row, old, fetch>>
    BY <1>3 DEF Serve
  <2>2. TypeOK' /\ Shapes' /\ CopiesCurrent' /\ CallOfDesk' /\ CallGrounded'
    BY <1>1, <2>1 DEF DeskInv, TypeOK, Shapes, CopiesCurrent, CallOfDesk, CallGrounded
  <2> QED  BY <1>1, <2>1, <2>2 DEF DeskInv
<1> QED  BY <1>2, <1>3

\* After a success pages are asked for again and another page may open.
LEMMA DoneInv ==
  ASSUME NEW Rows, RowsClosed(Rows), DeskInv(Rows),
         Done
  PROVE  DeskInv(Rows)'
<1>1. /\ call.st = "ok" /\ call' = NoCall
      /\ UNCHANGED <<desk, row, view, old, left>>
  BY DEF Done
<1>2. /\ page' \in PagesOf(desk)
      /\ dirty' \subseteq PagesOf(desk)
      /\ excused' \subseteq PagesOf(desk)
  BY <1>1 DEF Done, DeskInv, CallOfDesk, TypeOK, RowsClosed
<1>3. /\ DOMAIN fetch' = PagesOf(desk)
      /\ fetch' = [p \in PagesOf(desk) |-> fetch'[p]]
      /\ \A p \in PagesOf(desk) :
            \/ fetch'[p] = fetch[p]
            \/ fetch'[p] = [st |-> "asked", got |-> NoView, old |-> {}]
  BY DEF Done, Quiet
<1>4. TypeOK' /\ Shapes'
  <2>1. \A p \in PagesOf(desk) :
           /\ ReadOK(fetch'[p])
           /\ fetch'[p] = [st |-> fetch'[p].st, got |-> fetch'[p].got, old |-> fetch'[p].old]
    BY <1>3 DEF DeskInv, TypeOK, ReadOK, Shapes
  <2> QED  BY <1>1, <1>2, <1>3, <2>1 DEF DeskInv, TypeOK, Shapes, NoCall
<1>5. CopiesCurrent'
  BY <1>1, <1>3 DEF DeskInv, CopiesCurrent
<1>6. CallOfDesk' /\ CallGrounded'
  BY <1>1 DEF CallOfDesk, CallGrounded, NoCall
<1> QED  BY <1>1, <1>2, <1>4, <1>5, <1>6 DEF DeskInv

\* A refusal that was told, and a command or its answer that is lost.
LEMMA EndInv ==
  ASSUME NEW Rows, RowsClosed(Rows), DeskInv(Rows),
         Refused \/ Lost
  PROVE  DeskInv(Rows)'
<1>1. /\ call' = NoCall
      /\ UNCHANGED <<desk, row, page, view, dirty, fetch, old>>
  BY DEF Refused, Lost
<1>2. TypeOK' /\ Shapes'
  BY <1>1 DEF Refused, Lost, DeskInv, TypeOK, Shapes, NoCall
<1>3. CopiesCurrent' /\ CallOfDesk' /\ CallGrounded'
  BY <1>1 DEF DeskInv, CopiesCurrent, CallOfDesk, CallGrounded, NoCall
<1> QED  BY <1>1, <1>2, <1>3 DEF DeskInv

\* Somebody else changes the row: a command on its way is marked.
LEMMA ElsewhereInv ==
  ASSUME NEW Rows, RowsClosed(Rows), DeskInv(Rows),
         Elsewhere
  PROVE  DeskInv(Rows)'
<1>1. UNCHANGED <<desk, page, view, dirty, excused>>
  BY DEF Elsewhere
<1>2. PICK new \in Others(desk, row) : Changed(new, "others")
  BY DEF Elsewhere
<1>3. row' \in Rows[desk]
  BY <1>1, <1>2 DEF Changed, RowsClosed, DeskInv, TypeOK
<1>4. /\ CopiesCurrent'
      /\ old' \in [PagesOf(desk) -> SUBSET Whose]
      /\ DOMAIN fetch' = PagesOf(desk)
      /\ \A p \in PagesOf(desk) : ReadOK(fetch'[p])
      /\ fetch' = [p \in PagesOf(desk) |->
                     [st |-> fetch'[p].st, got |-> fetch'[p].got, old |-> fetch'[p].old]]
  BY <1>1, <1>2, ChangedCopies DEF DeskInv, Whose
<1>5. \/ call.st = "sent" /\ call' = [call EXCEPT !.old = @ \cup {"others"}]
      \/ call.st # "sent" /\ call' = call
  BY DEF Elsewhere
<1>6. left' \in [calls : Nat, changes : Nat, faults : Nat]
  BY DEF Elsewhere, DeskInv, TypeOK
<1>7. TypeOK' /\ Shapes'
  BY <1>1, <1>4, <1>5, <1>6, SMTT(30) DEF DeskInv, TypeOK, Shapes, Whose
<1>8. CallOfDesk' /\ CallGrounded'
  BY <1>1, <1>5 DEF DeskInv, Shapes, CallOfDesk, CallGrounded
<1> QED  BY <1>1, <1>3, <1>4, <1>7, <1>8 DEF DeskInv

-----------------------------------------------------------------------------
(* The theorems. *)

LEMMA NextInv ==
  ASSUME NEW Rows, RowsClosed(Rows), DeskInv(Rows),
         [Next]_vars
  PROVE  DeskInv(Rows)'
<1>1. CASE UNCHANGED vars
  BY <1>1 DEF vars, DeskInv, TypeOK, ReadOK, Shapes, CopiesCurrent, CallOfDesk, CallGrounded
<1>2. CASE Retry
  <2>1. page \in PagesOf(desk)
    BY DEF DeskInv, TypeOK
  <2> QED  BY <1>2, <2>1, AskInv
<1>3. CASE Next /\ ~ Retry
  BY <1>3, AskInv, ReadInv, PressInv, ServeInv, DoneInv, EndInv, ElsewhereInv DEF Next
<1> QED  BY <1>1, <1>2, <1>3

\* A refusal is where the two texts meet: it is decided when the backend serves
\* the command, and nothing else touches it.
LEMMA RefusalStep ==
  ASSUME NEW Rows, OffersHonoured(Rows), DeskInv(Rows), RefusedOnlyByOthers, [Next]_vars
  PROVE  RefusedOnlyByOthers'
<1>1. CASE Serve
  <2>1. CASE Accepts(desk, call.cmd, row)
    <3>1. call' = [call EXCEPT !.st = "ok"]
      BY <1>1, <2>1 DEF Serve
    <3> QED  BY <3>1 DEF RefusedOnlyByOthers, DeskInv, Shapes
  <2>2. CASE ~ Accepts(desk, call.cmd, row)
    <3>1. call.st = "sent" /\ call' = [call EXCEPT !.st = "refused"] /\ desk' = desk
      BY <1>1, <2>2 DEF Serve
    <3>2. /\ desk \in Desks /\ row \in Rows[desk]
          /\ call.cmd \in ControlsOf(desk) /\ call.from \in PagesOf(desk)
      BY <3>1 DEF DeskInv, TypeOK, CallOfDesk
    <3>3. call.old = {} => Asks(desk, call.cmd) \/ Misjudged(desk, call.cmd, call.saw)
      BY <2>2, <3>1, <3>2 DEF DeskInv, CallGrounded, OffersHonoured
    <3> QED  BY <3>1, <3>3 DEF RefusedOnlyByOthers, DeskInv, Shapes
  <2> QED  BY <2>1, <2>2
<1>2. CASE ~ Serve
  <2>1. desk' = desk /\ (call' = call \/ call'.st # "refused")
    <3>1. CASE \/ UNCHANGED vars \/ Retry
               \/ \E p \in PagesOf(desk) : Open(p) \/ Answer(p) \/ Arrive(p) \/ ReadFails(p)
      BY <3>1 DEF vars, Open, Answer, Arrive, ReadFails, Retry
    <3>2. CASE Done \/ Refused \/ Lost \/ \E c \in ControlsOf(desk) : Press(c)
      BY <3>2 DEF NoCall, Press, Done, Refused, Lost
    <3>3. CASE Elsewhere
      <4>1. desk' = desk
        BY <3>3 DEF Elsewhere
      <4>2. call' = call \/ (call.st = "sent" /\ call' = [call EXCEPT !.old = @ \cup {"others"}])
        BY <3>3 DEF Elsewhere
      <4> QED  BY <4>1, <4>2 DEF DeskInv, Shapes
    <3> QED  BY <1>2, <3>1, <3>2, <3>3 DEF Next
  <2> QED  BY <2>1 DEF RefusedOnlyByOthers
<1> QED  BY <1>1, <1>2

\* The tab's bookkeeping stays well formed whatever the pages and the backend
\* do, and so do what it has cached and what it has under way.
THEOREM DeskTypes ==
  ASSUME NEW CONSTANT Rows, RowsClosed(Rows), BudgetsAreNumbers
  PROVE  Spec => []TypeOK
<1>1. Init => DeskInv(Rows)
  BY InitInv
<1>2. DeskInv(Rows) /\ [Next]_vars => DeskInv(Rows)'
  BY NextInv
<1>3. DeskInv(Rows) => TypeOK
  BY DEF DeskInv
<1> QED  BY <1>1, <1>2, <1>3, PTL DEF Spec

\* Where page and service agree on every row (OffersHonoured), the backend
\* refuses what a page offered only because somebody changed the row between
\* the read and the command: no cached read, late answer, lost command or
\* navigation of this tab can bring a refusal about by itself.
THEOREM RefusalsAreOthers ==
  ASSUME NEW CONSTANT Rows, RowsClosed(Rows), OffersHonoured(Rows), BudgetsAreNumbers
  PROVE  Spec => []RefusedOnlyByOthers
<1>1. Init => DeskInv(Rows) /\ RefusedOnlyByOthers
  BY InitInv DEF Init, RefusedOnlyByOthers, NoCall
<1>2. DeskInv(Rows) /\ RefusedOnlyByOthers /\ [Next]_vars
         => DeskInv(Rows)' /\ RefusedOnlyByOthers'
  BY NextInv, RefusalStep
<1> QED  BY <1>1, <1>2, PTL DEF Spec

-----------------------------------------------------------------------------
(* The user's own work is shown. *)

\* A row that is deleted for good stays so.
EndedForGood(Ended) ==
    \A d \in Desks : \A r \in Ended[d] :
        /\ Gone(d, r)
        /\ Others(d, r) \subseteq Ended[d]
        /\ \A c \in ControlsOf(d) : Accepts(d, c, r) => Effect(d, c, r) \subseteq Ended[d]

\* Page p can send c: it offers it for some row.
CanSend(Rows, d, p, c) == \E r \in Rows[d] : Offers(d, p, c, Sees(d, p, r))

\* A command invalidates every read that its work changes, but for the pages
\* that lag and for work that deletes the row.
WorkIsRefreshed(Rows, Ended) ==
    \A d \in Desks : \A p \in PagesOf(d), q \in PagesOf(d), c \in ControlsOf(d), r \in Rows[d] :
        CanSend(Rows, d, p, c) /\ Accepts(d, c, r) =>
            \A new \in Effect(d, c, r) :
                \/ Sees(d, q, new) = Sees(d, q, r)
                \/ q \in Refreshes(d, p, c)
                \/ Lags(d, q)
                \/ new \in Ended[d]

\* What the pages hold was read from some row, and what is sent was offered.
ReadFromRows(Rows) ==
    /\ \A p \in PagesOf(desk) :
          /\ view[p] # NoView => \E r \in Rows[desk] : view[p] = Sees(desk, p, r)
          /\ fetch[p].st = "answered" => \E r \in Rows[desk] : fetch[p].got = Sees(desk, p, r)
    /\ call.st # "none" => CanSend(Rows, desk, call.from, call.cmd)

\* A copy of page p may be older than the user's own work: for a reason that the
\* property names, or because the success handler has not run.
MayBeOld(Ended, p) ==
    \/ p \in excused
    \/ Lags(desk, p)
    \/ row \in Ended[desk]
    \/ call.st = "ok" /\ p \in Refreshes(desk, call.from, call.cmd)

\* Otherwise an old copy is marked, and the open page is reading.
OldIsMarked(Ended) ==
    /\ \A p \in PagesOf(desk) :
          /\ "own" \in old[p] => MayBeOld(Ended, p) \/ p \in dirty
          /\ fetch[p].st = "answered" /\ "own" \in fetch[p].old => MayBeOld(Ended, p)
    /\ page \in dirty => fetch[page].st # "none" \/ view[page] = NoView

OwnInv(Rows, Ended) ==
    /\ DeskInv(Rows)
    /\ ReadFromRows(Rows)
    /\ OldIsMarked(Ended)

LEMMA ReadFromRowsStep ==
  ASSUME NEW Rows, RowsClosed(Rows), DeskInv(Rows), ReadFromRows(Rows), Next
  PROVE  ReadFromRows(Rows)'
<1>1. row \in Rows[desk] /\ page \in PagesOf(desk) /\ desk' = desk
  BY DEF DeskInv, TypeOK, Next, Open, Answer, Arrive, ReadFails, Retry, Press, Serve, Done,
         Refused, Lost, Elsewhere
<1>2. CASE Retry \/ \E p \in PagesOf(desk) : Open(p)
  <2>1. /\ UNCHANGED <<view, call>>
        /\ \A q \in PagesOf(desk) : fetch'[q] = fetch[q] \/ fetch'[q].st = "asked"
    BY <1>1, <1>2 DEF Retry, Open, Mounted, Asked, Quiet, DeskInv, TypeOK
  <2> QED  BY <1>1, <2>1 DEF ReadFromRows
<1>3. CASE \E p \in PagesOf(desk) : Answer(p)
  <2>1. PICK p \in PagesOf(desk) : Answer(p)
    BY <1>3
  <2>2. /\ UNCHANGED <<view, call>> /\ fetch'[p].got = Sees(desk, p, row)
        /\ \A q \in PagesOf(desk) \ {p} : fetch'[q] = fetch[q]
    BY <2>1 DEF Answer, DeskInv, TypeOK
  <2> QED  BY <1>1, <2>2 DEF ReadFromRows
<1>4. CASE \E p \in PagesOf(desk) : Arrive(p)
  <2>1. PICK p \in PagesOf(desk) : Arrive(p)
    BY <1>4
  <2>2. /\ call' = call /\ fetch[p].st = "answered" /\ fetch'[p].st = "none"
        /\ view'[p] = fetch[p].got
        /\ \A q \in PagesOf(desk) \ {p} : fetch'[q] = fetch[q] /\ view'[q] = view[q]
    BY <2>1 DEF Arrive, DeskInv, TypeOK, Shapes, Quiet
  <2> QED  BY <1>1, <2>2 DEF ReadFromRows
<1>5. CASE \E p \in PagesOf(desk) : ReadFails(p)
  <2>1. PICK p \in PagesOf(desk) : ReadFails(p)
    BY <1>5
  <2>2. /\ call' = call /\ fetch'[p].st = "none" /\ view'[p] = NoView
        /\ \A q \in PagesOf(desk) \ {p} : fetch'[q] = fetch[q] /\ view'[q] = view[q]
    BY <2>1 DEF ReadFails, DeskInv, TypeOK, Shapes, Quiet
  <2> QED  BY <1>1, <2>2 DEF ReadFromRows
<1>6. CASE \E c \in ControlsOf(desk) : Press(c)
  <2>1. PICK c \in ControlsOf(desk) : Press(c)
    BY <1>6
  <2>2. /\ UNCHANGED <<view, fetch>> /\ call'.from = page /\ call'.cmd = c
        /\ view[page] # NoView /\ Offers(desk, page, c, view[page])
    BY <2>1 DEF Press
  <2>3. CanSend(Rows, desk, page, c)
    BY <1>1, <2>2 DEF ReadFromRows, CanSend
  <2> QED  BY <1>1, <2>2, <2>3 DEF ReadFromRows, CanSend
<1>7. CASE Serve \/ Elsewhere
  <2>1. /\ view' = view /\ (call'.st # "none" => call.st # "none")
        /\ call'.from = call.from /\ call'.cmd = call.cmd
        /\ \A q \in PagesOf(desk) : fetch'[q].st = fetch[q].st /\ fetch'[q].got = fetch[q].got
    BY <1>7 DEF Serve, Elsewhere, Changed, DeskInv, Shapes
  <2> QED  BY <1>1, <2>1 DEF ReadFromRows, CanSend
<1>8. CASE Done \/ Refused \/ Lost
  <2>1. /\ view' = view /\ call'.st = "none"
        /\ \A q \in PagesOf(desk) : fetch'[q] = fetch[q] \/ fetch'[q].st = "asked"
    BY <1>8 DEF Done, Refused, Lost, NoCall, Quiet
  <2> QED  BY <1>1, <2>1 DEF ReadFromRows
<1> QED  BY <1>2, <1>3, <1>4, <1>5, <1>6, <1>7, <1>8 DEF Next

\* The user's own command is the only thing that makes a copy older than it, and
\* then the handler will see to it.
LEMMA OldIsMarkedStep ==
  ASSUME NEW Rows, RowsClosed(Rows), NEW Ended, EndedForGood(Ended),
         WorkIsRefreshed(Rows, Ended), OwnInv(Rows, Ended), Next
  PROVE  OldIsMarked(Ended)'
<1>1. /\ row \in Rows[desk] /\ page \in PagesOf(desk) /\ desk' = desk /\ desk \in Desks
      /\ DOMAIN view = PagesOf(desk) /\ DOMAIN fetch = PagesOf(desk)
      /\ DOMAIN old = PagesOf(desk)
  BY DEF OwnInv, DeskInv, TypeOK, Next, Open, Answer, Arrive, ReadFails, Retry, Press, Serve,
         Done, Refused, Lost, Elsewhere
<1>2. CASE Retry \/ \E p \in PagesOf(desk) : Open(p)
  <2>1. /\ UNCHANGED <<row, view, call, dirty, old, excused>>
        /\ \A q \in PagesOf(desk) : fetch'[q] = fetch[q] \/ fetch'[q].st = "asked"
        /\ page' \in PagesOf(desk)
        /\ page' \in dirty /\ page' # page => fetch'[page'].st # "none" \/ view[page'] = NoView
        /\ \A q \in PagesOf(desk) : fetch[q].st # "none" => fetch'[q].st # "none"
    BY <1>1, <1>2 DEF Retry, Open, Mounted, Asked, Quiet
  <2> QED  BY <1>1, <2>1 DEF OwnInv, OldIsMarked, MayBeOld
<1>3. CASE \E p \in PagesOf(desk) : Answer(p)
  <2>1. PICK p \in PagesOf(desk) : Answer(p)
    BY <1>3
  <2>2. /\ UNCHANGED <<row, page, view, call, dirty, old, excused>>
        /\ fetch'[p].old = {} /\ fetch'[p].st = "answered"
        /\ \A q \in PagesOf(desk) \ {p} : fetch'[q] = fetch[q]
    BY <1>1, <2>1 DEF Answer
  <2> QED  BY <1>1, <2>2 DEF OwnInv, OldIsMarked, MayBeOld
<1>4. CASE \E p \in PagesOf(desk) : Arrive(p)
  <2>1. PICK p \in PagesOf(desk) : Arrive(p)
    BY <1>4
  <2>2. /\ UNCHANGED <<row, page, call>> /\ fetch[p].st = "answered" /\ fetch'[p].st = "none"
        /\ old'[p] = fetch[p].old /\ dirty' = dirty \ {p}
        /\ excused' = IF fetch[p].old = {} THEN excused \ {p} ELSE excused
        /\ \A q \in PagesOf(desk) \ {p} :
              fetch'[q] = fetch[q] /\ view'[q] = view[q] /\ old'[q] = old[q]
    BY <1>1, <2>1 DEF Arrive, Quiet
  <2>3. \A q \in PagesOf(desk) \ {p} : MayBeOld(Ended, q) => MayBeOld(Ended, q)'
    BY <1>1, <2>2 DEF MayBeOld
  <2>4. "own" \in fetch[p].old => MayBeOld(Ended, p)'
    BY <1>1, <2>2 DEF OwnInv, OldIsMarked, MayBeOld
  <2> QED  BY <1>1, <2>2, <2>3, <2>4 DEF OwnInv, OldIsMarked
<1>5. CASE \E p \in PagesOf(desk) : ReadFails(p)
  <2>1. PICK p \in PagesOf(desk) : ReadFails(p)
    BY <1>5
  <2>2. /\ UNCHANGED <<row, page, call, dirty, excused>>
        /\ fetch'[p].st = "none" /\ view'[p] = NoView /\ old'[p] = {}
        /\ \A q \in PagesOf(desk) \ {p} :
              fetch'[q] = fetch[q] /\ view'[q] = view[q] /\ old'[q] = old[q]
    BY <1>1, <2>1 DEF ReadFails, Quiet
  <2> QED  BY <1>1, <2>2 DEF OwnInv, OldIsMarked, MayBeOld
<1>6. CASE \E c \in ControlsOf(desk) : Press(c)
  <2>1. /\ UNCHANGED <<row, page, view, dirty, fetch, old, excused>> /\ call.st # "ok"
    BY <1>6 DEF Press, NoCall
  <2> QED  BY <1>1, <2>1 DEF OwnInv, OldIsMarked, MayBeOld
<1>7. CASE Serve /\ ~ Accepts(desk, call.cmd, row)
  <2>1. UNCHANGED <<row, page, view, dirty, fetch, old, excused>> /\ call.st = "sent"
    BY <1>7 DEF Serve
  <2> QED  BY <1>1, <2>1 DEF OwnInv, OldIsMarked, MayBeOld
<1>8. CASE Serve /\ Accepts(desk, call.cmd, row)
  <2>1. PICK new \in Effect(desk, call.cmd, row) : Changed(new, "own")
    BY <1>8 DEF Serve
  <2>2. /\ call.st = "sent" /\ call'.st = "ok" /\ call'.from = call.from /\ call'.cmd = call.cmd
        /\ UNCHANGED <<page, view, dirty, excused>>
    BY <1>8 DEF Serve, OwnInv, DeskInv, Shapes
  <2>3. call.cmd \in ControlsOf(desk) /\ call.from \in PagesOf(desk)
        /\ CanSend(Rows, desk, call.from, call.cmd)
    BY <2>2 DEF OwnInv, DeskInv, CallOfDesk, ReadFromRows
  <2>4. row' = new
    BY <2>1 DEF Changed
  <2>5. \A q \in PagesOf(desk) :
           Sees(desk, q, new) = Sees(desk, q, row) \/ MayBeOld(Ended, q)'
    BY <1>1, <1>8, <2>1, <2>2, <2>3, <2>4 DEF WorkIsRefreshed, MayBeOld
  <2>6. \A q \in PagesOf(desk) : MayBeOld(Ended, q) => MayBeOld(Ended, q)'
    BY <1>1, <1>8, <2>1, <2>2, <2>3, <2>4 DEF MayBeOld, EndedForGood
  <2>7. \A q \in PagesOf(desk) :
           /\ "own" \in old'[q] =>
                 "own" \in old[q] \/ Sees(desk, q, new) # Sees(desk, q, row)
           /\ fetch'[q].st = fetch[q].st
           /\ "own" \in fetch'[q].old =>
                 "own" \in fetch[q].old \/ Sees(desk, q, new) # Sees(desk, q, row)
    BY <2>1 DEF Changed, Aged, OwnInv, DeskInv, Shapes
  <2> QED  BY <1>1, <2>2, <2>5, <2>6, <2>7 DEF OwnInv, OldIsMarked
<1>9. CASE Done
  <2>1. PICK stale : stale = Refreshes(desk, call.from, call.cmd)
    OBVIOUS
  <2>2. PICK to : to = NextPage(desk, page, call.cmd)
    OBVIOUS
  <2>3. call.cmd \in ControlsOf(desk) /\ call.st = "ok" /\ call'.st = "none"
    BY <1>9 DEF OwnInv, DeskInv, CallOfDesk, Done, NoCall
  <2>4. to \in PagesOf(desk)
    BY <1>1, <2>2, <2>3 DEF RowsClosed
  <2>5. /\ UNCHANGED <<row, view, old>> /\ page' = to /\ dirty' = dirty \cup stale
        /\ excused' = excused \cup {p \in stale \ (IF page \in stale THEN {page} ELSE {}) :
                                       "own" \in fetch[p].old}
        /\ \A q \in PagesOf(desk) :
              \/ fetch'[q].st = "asked"
              \/ /\ fetch'[q] = fetch[q]
                 /\ ~ (q = page /\ page \in stale)
                 /\ ~ (/\ q = to /\ q # page /\ fetch[q].st = "none"
                       /\ q \in dirty \cup stale \/ view[q] = NoView)
    BY <1>9, <2>1, <2>2 DEF Done, Quiet
  <2>6. \A q \in PagesOf(desk) : MayBeOld(Ended, q) => MayBeOld(Ended, q)' \/ q \in stale
    BY <1>1, <2>1, <2>3, <2>5 DEF MayBeOld
  <2>7. \A q \in PagesOf(desk) :
           q \in stale /\ fetch'[q] = fetch[q] /\ "own" \in fetch[q].old =>
               fetch'[q].st = "asked" \/ MayBeOld(Ended, q)'
    BY <2>5 DEF MayBeOld
  <2>8. ASSUME NEW q \in PagesOf(desk) 
        PROVE  /\ "own" \in old'[q] => MayBeOld(Ended, q)' \/ q \in dirty'
               /\ fetch'[q].st = "answered" /\ "own" \in fetch'[q].old => MayBeOld(Ended, q)'
    BY <2>5, <2>6, <2>7 DEF OwnInv, OldIsMarked
  <2>9. page' \in dirty' => fetch'[page'].st # "none" \/ view'[page'] = NoView
    BY <2>4, <2>5 DEF OwnInv, OldIsMarked
  <2> QED  BY <1>1, <2>8, <2>9 DEF OldIsMarked
<1>10. CASE Refused
  <2>1. UNCHANGED <<row, page, view, dirty, fetch, old, excused>> /\ call.st # "ok"
    BY <1>10 DEF Refused
  <2> QED  BY <1>1, <2>1 DEF OwnInv, OldIsMarked, MayBeOld
<1>11. CASE Lost
  <2>1. /\ UNCHANGED <<row, page, view, dirty, fetch, old>>
        /\ \/ call.st # "ok" /\ excused' = excused
           \/ excused' = PagesOf(desk)
    BY <1>11 DEF Lost
  <2> QED  BY <1>1, <2>1 DEF OwnInv, OldIsMarked, MayBeOld
<1>12. CASE Elsewhere
  <2>1. PICK new \in Others(desk, row) : Changed(new, "others")
    BY <1>12 DEF Elsewhere
  <2>2. /\ call'.st = call.st /\ call'.from = call.from /\ call'.cmd = call.cmd
        /\ UNCHANGED <<page, view, dirty, excused>> /\ row' = new
    BY <1>12, <2>1 DEF Elsewhere, Changed, OwnInv, DeskInv, Shapes
  <2>3. \A q \in PagesOf(desk) : MayBeOld(Ended, q) => MayBeOld(Ended, q)'
    BY <1>1, <2>1, <2>2 DEF MayBeOld, EndedForGood
  <2>4. \A q \in PagesOf(desk) :
           /\ "own" \in old'[q] => "own" \in old[q]
           /\ fetch'[q].st = fetch[q].st
           /\ "own" \in fetch'[q].old => "own" \in fetch[q].old
    BY <2>1 DEF Changed, Aged, OwnInv, DeskInv, Shapes
  <2> QED  BY <1>1, <2>2, <2>3, <2>4 DEF OwnInv, OldIsMarked
<1> QED
  BY <1>2, <1>3, <1>4, <1>5, <1>6, <1>7, <1>8, <1>9, <1>10, <1>11, <1>12 DEF Next, Serve

\* Where every command invalidates the reads that its work changes
\* (WorkIsRefreshed), a page that is open and not being read shows what the
\* user's own commands have done: whatever reads were under way before, on
\* whichever page they were given, and wherever the user went meanwhile.
THEOREM OwnWorkIsSeen ==
  ASSUME NEW CONSTANT Rows, RowsClosed(Rows), BudgetsAreNumbers,
         NEW CONSTANT Ended, EndedForGood(Ended), WorkIsRefreshed(Rows, Ended)
  PROVE  Spec => []SeesOwnWork
<1>1. Init => OwnInv(Rows, Ended)
  <2>1. ASSUME Init PROVE ReadFromRows(Rows) /\ OldIsMarked(Ended)
    BY <2>1 DEF Init, ReadFromRows, OldIsMarked, Quiet, NoCall
  <2> QED  BY <2>1, InitInv DEF OwnInv
<1>2. OwnInv(Rows, Ended) /\ [Next]_vars => OwnInv(Rows, Ended)'
  <2>1. ASSUME OwnInv(Rows, Ended), UNCHANGED vars
        PROVE  ReadFromRows(Rows)' /\ OldIsMarked(Ended)'
    BY <2>1 DEF vars, OwnInv, ReadFromRows, CanSend, OldIsMarked, MayBeOld
  <2> QED  BY <2>1, NextInv, ReadFromRowsStep, OldIsMarkedStep DEF OwnInv
<1>3. OwnInv(Rows, Ended) => SeesOwnWork
  <2> SUFFICES ASSUME OwnInv(Rows, Ended), ~ Gone(desk, row), ~ Lags(desk, page),
                      call = NoCall, fetch[page].st = "none", view[page] # NoView,
                      "own" \in old[page]
               PROVE  page \in excused
    BY DEF SeesOwnWork
  <2>1. page \in PagesOf(desk) /\ desk \in Desks
    BY DEF OwnInv, DeskInv, TypeOK
  <2>2. page \notin dirty /\ call.st # "ok"
    BY DEF OwnInv, OldIsMarked, NoCall
  <2>3. row \notin Ended[desk]
    BY <2>1 DEF EndedForGood
  <2> QED  BY <2>1, <2>2, <2>3 DEF OwnInv, OldIsMarked, MayBeOld
<1> QED  BY <1>1, <1>2, <1>3, PTL DEF Spec

-----------------------------------------------------------------------------
(* The desks of the three apps.  Their tables, module Pages, meet the       *)
(* hypotheses above: what is proved of any desk is proved of these.        *)

LEMMA DeskKinds ==
  ASSUME NEW d \in AllDesks
  PROVE  \/ d.app = "user" /\ d.role = "any" /\ d.domain \in BuyerDomains
         \/ d.app = "cashier" /\ d.domain = "order" /\ d.role = "any"
         \/ d.app = "writer" /\ d.domain = "review" /\ d.role = "any"
         \/ d.app = "merchant" /\ d.role = "any" /\ d.domain \in ShopDomains
         \/ d.app = "admin" /\ d.role \in Roles /\ d.domain \in StaffDomains /\ Gated(d.role, d.domain)
         \/ d.app = "reports" /\ d.domain = "review" /\ d.role \in Roles /\ Gated(d.role, "report")
  BY DEF AllDesks, DeskOf

LEMMA ProductOffersTaken ==
  ASSUME NEW d \in AllDesks, d.domain = "product",
         NEW p \in PPagesOf(d), NEW c \in PControlsOf(d), NEW r \in ProductRows,
         POffers(d, p, c, PSees(d, p, r))
  PROVE  PAsks(d, c) \/ PAccepts(d, c, r)
<1>1. d.app \in {"merchant", "admin"}
  BY DeskKinds DEF BuyerDomains
<1>2. CASE d.app = "merchant"
  <2>1. ~ OfStaff(d) /\ c \in SellerProductControls
    BY <1>2 DEF OfStaff, PControlsOf, Is
  <2>2. SellerProductOffers(p, c, IF p = "list" THEN r.st ELSE r)
    BY <1>2 DEF POffers, Is, PSees, ProductListed
  <2>3. c # "submit_review" => ProductAccepts(c, r)
    BY <2>1, <2>2 DEF SellerProductOffers, SellerProductRow, EditHeader, BasicInfoTab, SKUManagementTab, ProductAccepts, SellerProductControls
  <2> QED  BY <1>2, <2>1, <2>3 DEF PAsks, PAccepts, Is
<1>3. CASE d.app = "admin"
  BY <1>3, DeskKinds DEF OfStaff, Is, PControlsOf, PSees, POffers, PAccepts, StaffProductOffers, ProductAccepts, StaffProductControls, ProductRows, PNeeds, Allowed, Can, StaffProductNeeds, ProductListed
<1> QED  BY <1>1, <1>2, <1>3
LEMMA OrderOffersTaken ==
  ASSUME NEW d \in AllDesks, d.domain = "order",
         NEW p \in PPagesOf(d), NEW c \in PControlsOf(d), NEW r \in OrderRows,
         POffers(d, p, c, PSees(d, p, r))
  PROVE  PAsks(d, c) \/ PMisjudged(d, c, PSees(d, p, r)) \/ PAccepts(d, c, r)
<1>1. CASE d.app = "user"
  <2>1. c \in BuyerOrderControls /\ BuyerOrderOffers(p, c, IF p = "list" THEN [st |-> r.st] ELSE r)
    BY <1>1 DEF Is, PControlsOf, POffers, PSees
  <2>2. OrderAccepts(c, r)
    BY <2>1 DEF BuyerOrderControls, BuyerOrderOffers, BuyerOrderDetail, OrderAccepts
  <2> QED  BY <1>1, <2>2 DEF PAccepts, OfStaff
<1>2. CASE d.app = "cashier"
  <2>0. PSees(d, p, r) = PayerSees(p, r) /\ c \in PayerControls
    BY <1>2 DEF PSees, PControlsOf, PPagesOf, PayerPages, Is
  <2>1. c \in PayerControls /\ PayerOffers(p, c, PayerSees(p, r))
    BY <1>2, <2>0 DEF POffers, Is
  <2>2. c # "pay_succeeds" => OrderAccepts(c, r)
    BY <2>1 DEF PayerControls, PayerOffers, PayerSees, PayPage, MockPayment, OrderAccepts
  <2> QED  BY <1>2, <2>2 DEF PAccepts, OfStaff, PAsks, Is
<1>3. CASE d.app = "merchant"
  <2>1. c \in SellerOrderControls /\ SellerOrderOffers(p, c, IF p = "list" THEN [st |-> r.st] ELSE r)
    BY <1>3 DEF Is, PControlsOf, POffers, PSees
  <2>2. OrderAccepts(c, r)
    BY <2>1 DEF SellerOrderControls, SellerOrderOffers, SellerOrderRow, SellerOrderDetail, OrderAccepts
  <2> QED  BY <1>3, <2>2 DEF PAccepts, OfStaff
<1>4. CASE d.app = "admin"
  <2>1. /\ c \in StaffOrderControls
        /\ StaffOrderOffers(d.role, p, c, IF p = "list" THEN [st |-> r.st] ELSE r)
    BY <1>4 DEF Is, PControlsOf, POffers, PSees
  <2>2. OrderAccepts(c, r)
    BY <2>1 DEF StaffOrderControls, StaffOrderOffers, StaffOrderList, StaffOrderDetail, OrderAccepts
  <2>3. c # "scan" => Allowed(d.role, StaffOrderNeeds(c))
    BY <2>1 DEF StaffOrderControls, StaffOrderOffers, StaffOrderList, StaffOrderDetail, StaffOrderNeeds, Allowed, Can
  <2>4. d.role \in {"super", "service"} \/ c # "scan"
    BY <1>4, <2>1, DeskKinds DEF Roles, StaffOrderOffers, StaffOrderList, StaffOrderDetail, Can, RolePermissions
  <2>5. d.role = "super" => Allowed(d.role, StaffOrderNeeds(c))
    BY <2>1 DEF StaffOrderControls, StaffOrderNeeds, Allowed, RolePermissions, AllPermissions
  <2> QED  BY <1>4, <2>2, <2>3, <2>4, <2>5 DEF PAccepts, PNeeds, PMisjudged, Is
<1> QED  BY <1>1, <1>2, <1>3, <1>4, DeskKinds

LEMMA CaseOffersTaken ==
  ASSUME NEW d \in AllDesks, d.domain = "case",
         NEW p \in PPagesOf(d), NEW c \in PControlsOf(d), NEW r \in CaseRows,
         POffers(d, p, c, PSees(d, p, r))
  PROVE  PAsks(d, c) \/ PMisjudged(d, c, PSees(d, p, r)) \/ PAccepts(d, c, r)
<1>1. PSees(d, p, r) = IF p = "list" THEN [st |-> r.st] ELSE r
  BY DeskKinds DEF PSees, Is
<1>2. CASE d.app = "user"
  <2>1. c \in BuyerCaseControls /\ BuyerCaseOffers(p, c, PSees(d, p, r))
    BY <1>2 DEF Is, PControlsOf, POffers
  <2>2. CaseAccepts(c, r)
    BY <1>1, <2>1 DEF BuyerCaseControls, BuyerCaseOffers, BuyerCaseActions, CanAddEvidence, CaseAccepts
  <2> QED  BY <1>2, <2>2 DEF PAccepts, OfStaff
<1>3. CASE d.app = "merchant"
  <2>1. c \in SellerCaseControls /\ SellerCaseOffers(p, c, PSees(d, p, r))
    BY <1>3 DEF Is, PControlsOf, POffers
  <2>2. CaseAccepts(c, r)
    BY <1>1, <2>1 DEF SellerCaseControls, SellerCaseOffers, SellerCaseActions, CaseAccepts
  <2> QED  BY <1>3, <2>2 DEF PAccepts, OfStaff
<1>4. CASE d.app = "admin"
  <2>1. c \in StaffCaseControls /\ StaffCaseOffers(d.role, p, c, PSees(d, p, r))
    BY <1>4 DEF Is, PControlsOf, POffers
  <2>2. Allowed(d.role, StaffCaseNeeds(c))
    BY <2>1 DEF StaffCaseControls, StaffCaseOffers, StaffCaseActions, StaffCaseNeeds, Allowed, Can
  <2>3. \/ CaseAccepts(c, r)
        \/ c = "force_refund" /\ PSees(d, p, r).st = "rejected"
    BY <1>1, <2>1 DEF StaffCaseControls, StaffCaseOffers, StaffCaseActions, CaseAccepts
  <2> QED  BY <1>4, <2>2, <2>3 DEF PAccepts, PNeeds, PMisjudged, Is
<1> QED  BY <1>2, <1>3, <1>4, DeskKinds

LEMMA ReviewOffersTaken ==
  ASSUME NEW d \in AllDesks, d.domain = "review",
         NEW p \in PPagesOf(d), NEW c \in PControlsOf(d), NEW r,
         POffers(d, p, c, PSees(d, p, r))
  PROVE  PAsks(d, c) \/ PAccepts(d, c, r)
<1>1. d.app # "writer" => PSees(d, p, r) = r
  BY DeskKinds DEF PSees, Is
<1>2. CASE d.app = "writer"
  BY <1>2 DEF PControlsOf, WriteReviewControls, PAsks, Is
<1>3. CASE d.app = "user"
  <2>1. c \in MyReviewControls /\ MyReviews(c, r)
    BY <1>1, <1>3 DEF Is, PControlsOf, POffers
  <2>2. ReviewAccepts(c, r)
    BY <2>1 DEF MyReviewControls, MyReviews, ReviewAccepts
  <2> QED  BY <1>3, <2>2 DEF PAccepts, OfStaff
<1>4. CASE d.app = "merchant"
  <2>1. c \in SellerReviewControls /\ ReplyEditor(c, r)
    BY <1>1, <1>4 DEF Is, PControlsOf, POffers
  <2>2. ReviewAccepts(c, r)
    BY <2>1 DEF SellerReviewControls, ReplyEditor, ReviewAccepts
  <2> QED  BY <1>4, <2>2 DEF PAccepts, OfStaff
<1>5. CASE d.app = "admin"
  <2>1. c \in StaffReviewControls /\ StaffReviewOffers(p, c, r)
    BY <1>1, <1>5 DEF Is, PControlsOf, POffers
  <2>2. ReviewAccepts(c, r) /\ StaffReviewNeeds(c) = "review:moderate"
    BY <2>1 DEF StaffReviewControls, StaffReviewOffers, StaffReviewRow, StaffReviewDetail,
                ReviewAccepts, ReviewWritten, StaffReviewNeeds, StaffReportControls
  <2>3. Can(d.role, "review:moderate")
    BY <1>5, DeskKinds DEF Gated, PageGate
  <2> QED  BY <1>5, <2>2, <2>3 DEF PAccepts, PNeeds, Allowed, Can
<1>6. CASE d.app = "reports"
  <2>1. c \in StaffReportControls /\ StaffReports(c, r)
    BY <1>1, <1>6 DEF Is, PControlsOf, POffers
  <2>2. ReviewAccepts(c, r) /\ StaffReviewNeeds(c) = "review_report:handle"
    BY <2>1 DEF StaffReportControls, StaffReports, ReviewAccepts, StaffReviewNeeds
  <2>3. Can(d.role, "review_report:handle")
    BY <1>6, DeskKinds DEF Gated, PageGate
  <2> QED  BY <1>6, <2>2, <2>3 DEF PAccepts, PNeeds, Allowed, Can
<1> QED  BY <1>2, <1>3, <1>4, <1>5, <1>6, DeskKinds

LEMMA ApplicationOffersTaken ==
  ASSUME NEW d \in AllDesks, d.domain = "application",
         NEW p \in PPagesOf(d), NEW c \in PControlsOf(d), NEW r,
         POffers(d, p, c, PSees(d, p, r))
  PROVE  PAccepts(d, c, r)
<1>1. d.app \in {"user", "admin"} /\ PSees(d, p, r) = r
  BY DeskKinds DEF PSees, Is, ShopDomains
<1>2. CASE d.app = "user"
  <2>1. c \in ApplicantControls /\ ApplyPage(c, r)
    BY <1>1, <1>2 DEF Is, PControlsOf, POffers
  <2>2. ApplicationAccepts(c, r)
    BY <2>1 DEF ApplicantControls, ApplyPage, ApplicationAccepts
  <2> QED  BY <1>2, <2>2 DEF PAccepts, OfStaff
<1>3. CASE d.app = "admin"
  <2>1. c \in StaffApplicationControls /\ StaffApplication(d.role, c, r)
    BY <1>1, <1>3 DEF Is, PControlsOf, POffers, StaffApplicationOffers
  <2>2. ApplicationAccepts(c, r) /\ Allowed(d.role, StaffApplicationNeeds(c))
    BY <2>1 DEF StaffApplicationControls, StaffApplication, ApplicationAccepts, StaffApplicationNeeds, Allowed, Can
  <2> QED  BY <1>3, <2>2 DEF PAccepts, PNeeds
<1> QED  BY <1>1, <1>2, <1>3

LEMMA NoticeOffersTaken ==
  ASSUME NEW d \in AllDesks, d.domain = "notice",
         NEW p \in PPagesOf(d), NEW c \in PControlsOf(d), NEW r \in NoticeRows,
         POffers(d, p, c, PSees(d, p, r))
  PROVE  PAccepts(d, c, r)
<1>1. d.app \in {"user", "merchant", "admin"} /\ PSees(d, p, r).st = r.st
  BY DeskKinds DEF PSees, Is, BuyerNoticeSees, SellerNoticeSees
<1>2. c \in {"read", "delete_notice"} => r.st # "deleted"
  BY <1>1 DEF POffers, Is, BuyerNotices, SellerNotices, StaffNotices
<1>3. OfStaff(d) => Allowed(d.role, "notification:read")
  BY DeskKinds DEF OfStaff, Gated, PageGate, Can, Allowed
<1> QED  BY <1>2, <1>3 DEF PAccepts, PNeeds, NoticeAccepts
\* A case that asks for some money.
Asking(r) == r.amount # "zero"

LEMMA ProductRowsClosed ==
  ASSUME NEW c, NEW r \in ProductRows
  PROVE  ProductEffect(c, r) \subseteq ProductRows
<1>1. r.st \in {"draft", "pending_review", "approved", "rejected", "off_shelf", "deleted"}
      /\ r.skus \in {"none", "inactive", "active"}
  BY DEF ProductRows
<1>2. ProductStatusAfter(c, r.st)
         \in {"draft", "pending_review", "approved", "rejected", "off_shelf", "deleted"}
  BY <1>1 DEF ProductStatusAfter
<1>3. SkusAfter(c, r.skus) \subseteq {"none", "inactive", "active"}
  BY <1>1 DEF SkusAfter
<1> QED  BY <1>2, <1>3 DEF ProductEffect, ProductRows

OrderRow(st, paying) == [st |-> st, paying |-> paying]

LEMMA OrderRowFields ==
  ASSUME NEW r \in OrderRows
  PROVE  /\ r = OrderRow(r.st, r.paying)
         /\ r.st \in OrderStatuses /\ r.paying \in BOOLEAN
         /\ r.paying => r.st \in {"pending_payment", "cancelled"}
<1>1. CASE \E s \in OrderStatuses : r = [st |-> s, paying |-> FALSE]
  BY <1>1 DEF OrderRow
<1>2. CASE \E s \in {"pending_payment", "cancelled"} : r = [st |-> s, paying |-> TRUE]
  BY <1>2 DEF OrderRow, OrderStatuses
<1> QED  BY <1>1, <1>2 DEF OrderRows

LEMMA OrderRowIs ==
  ASSUME NEW st \in OrderStatuses, NEW paying \in BOOLEAN,
         paying => st \in {"pending_payment", "cancelled"}
  PROVE  OrderRow(st, paying) \in OrderRows
<1>1. CASE paying
  <2>1. OrderRow(st, paying) = [st |-> st, paying |-> TRUE]
    BY <1>1 DEF OrderRow
  <2> QED  BY <1>1, <2>1 DEF OrderRows
<1>2. CASE ~ paying
  <2>1. OrderRow(st, paying) = [st |-> st, paying |-> FALSE]
    BY <1>2 DEF OrderRow
  <2> QED  BY <1>2, <2>1 DEF OrderRows
<1> QED  BY <1>1, <1>2

LEMMA OrderRowsClosed ==
  ASSUME NEW c, NEW r \in OrderRows, OrderAccepts(c, r)
  PROVE  OrderEffect(c, r) \subseteq OrderRows
<1>1. \A st : [r EXCEPT !.st = st] = OrderRow(st, r.paying)
  BY OrderRowFields DEF OrderRow
<1>2. \A b : [r EXCEPT !.paying = b] = OrderRow(r.st, b)
  BY OrderRowFields DEF OrderRow
<1>3. CASE c \in {"cancel", "seller_cancel", "staff_cancel"}
  BY <1>1, <1>3, OrderRowFields, OrderRowIs DEF OrderEffect, OrderStatuses
<1>4. CASE c = "start_pay"
  <2>1. r.st = "pending_payment"
    BY <1>4 DEF OrderAccepts
  <2>2. OrderEffect(c, r) = {OrderRow(r.st, TRUE)}
    BY <1>2, <1>4 DEF OrderEffect
  <2> QED  BY <2>1, <2>2, OrderRowFields, OrderRowIs
<1>5. CASE c = "pay_succeeds"
  <2>1. OrderEffect(c, r) = {OrderRow("paid", FALSE)}
    BY <1>5 DEF OrderEffect, OrderRow
  <2> QED  BY <2>1, OrderRowIs DEF OrderStatuses
<1>6. CASE c = "pay_fails"
  <2>1. OrderEffect(c, r) = {OrderRow(r.st, FALSE)}
    BY <1>2, <1>6 DEF OrderEffect
  <2> QED  BY <2>1, OrderRowFields, OrderRowIs
<1>7. CASE c \in {"confirm", "ship"}
  <2>1. r.st \in {"paid", "shipped"} /\ ~ r.paying
    BY <1>7, OrderRowFields DEF OrderAccepts
  <2>2. OrderEffect(c, r) \subseteq {OrderRow("completed", r.paying), OrderRow("shipped", r.paying)}
    BY <1>1, <1>7 DEF OrderEffect
  <2> QED  BY <2>1, <2>2, OrderRowFields, OrderRowIs DEF OrderStatuses
<1>8. CASE c \notin {"cancel", "seller_cancel", "staff_cancel", "start_pay", "pay_succeeds",
                    "pay_fails", "confirm", "ship"}
  BY <1>8 DEF OrderEffect
<1> QED  BY <1>3, <1>4, <1>5, <1>6, <1>7, <1>8

LEMMA OrderDriftsClosed ==
  ASSUME NEW r \in OrderRows
  PROVE  OrderDrifts(r) \subseteq OrderRows
<1>1. \A st : [r EXCEPT !.st = st] = OrderRow(st, r.paying)
  BY OrderRowFields DEF OrderRow
<1>2. ASSUME NEW new \in OrderDrifts(r)
      PROVE  \E st \in OrderStatuses :
                new = OrderRow(st, r.paying) /\ (r.paying => st \in {"pending_payment", "cancelled"})
  BY <1>1, <1>2, OrderRowFields DEF OrderDrifts, OrderStatuses
<1> QED  BY <1>2, OrderRowFields, OrderRowIs

CaseStatuses == UNION {CaseStatusesOf(ty) : ty \in CaseTypes}

LEMMA CaseStatusNames ==
  CaseStatuses = {"pending", "rejected", "arbitrating", "refunded", "cancelled", "closed",
                  "waiting_return", "return_shipped", "waiting_ship", "exchange_shipped",
                  "exchanged"}
<1>1. ASSUME NEW s \in CaseStatuses
      PROVE  s \in {"pending", "rejected", "arbitrating", "refunded", "cancelled", "closed",
                  "waiting_return", "return_shipped", "waiting_ship", "exchange_shipped",
                  "exchanged"}
  BY <1>1 DEF CaseStatuses, CaseStatusesOf, CaseTypes
<1>2. CaseStatusesOf("exchange") \subseteq CaseStatuses
  BY DEF CaseStatuses, CaseTypes
<1> QED  BY <1>1, <1>2 DEF CaseStatusesOf

LEMMA CaseRowsClosed ==
  ASSUME NEW c, NEW r \in CaseRows
  PROVE  \A new \in CaseEffect(c, r) \cup CaseDrifts(r) :
            new \in CaseRows /\ new.amount = r.amount
<1>1. CaseRows = [st : CaseStatuses, type : CaseTypes, amount : {"zero", "some"},
                  appealed : BOOLEAN, claimed : {"none", "me", "other"}]
  BY DEF CaseRows, CaseStatuses
<1>2. CaseStatusesAfter(c, r) \subseteq CaseStatuses
  BY <1>1, CaseStatusNames DEF CaseStatusesAfter, StatusReceived
<1>3. \A new \in CaseEffect(c, r) : new \in CaseRows /\ new.amount = r.amount
  BY <1>1, <1>2 DEF CaseEffect
<1>4. \A new \in CaseDrifts(r) : \E st \in CaseStatuses :
         new = [r EXCEPT !.st = st] \/ new = [r EXCEPT !.st = st, !.claimed = "other"]
  BY CaseStatusNames DEF CaseDrifts, StatusReceived
<1>5. \A new \in CaseDrifts(r) : new \in CaseRows /\ new.amount = r.amount
  BY <1>1, <1>4
<1> QED  BY <1>3, <1>5

AllReviewRows == ReviewRows \cup UnwrittenReviews

ReviewShapes(sts, reports) ==
    [st : sts, editable : BOOLEAN, replied : BOOLEAN, report : reports]

LEMMA ReviewRowFields ==
  ReviewRows = ReviewShapes({"shown", "hidden", "deleted"},
                            {"none", "pending", "upheld", "dismissed"})
<1>1. ReviewRows \subseteq ReviewShapes({"shown", "hidden", "deleted"},
                                        {"none", "pending", "upheld", "dismissed"})
  BY DEF ReviewRows, ReviewRow, ReviewShapes
<1>2. ASSUME NEW r \in ReviewShapes({"shown", "hidden", "deleted"},
                                    {"none", "pending", "upheld", "dismissed"})
      PROVE  r \in ReviewRows
  <2>1. r = ReviewRow(r.st, r.editable, r.replied, r.report)
    BY <1>2 DEF ReviewShapes, ReviewRow
  <2>2. /\ r.st \in {"shown", "hidden", "deleted"} /\ r.editable \in BOOLEAN
        /\ r.replied \in BOOLEAN /\ r.report \in {"none", "pending", "upheld", "dismissed"}
    BY <1>2 DEF ReviewShapes
  <2> QED  BY <2>1, <2>2 DEF ReviewRows
<1> QED  BY <1>1, <1>2

LEMMA UnwrittenFields ==
  ASSUME NEW r \in UnwrittenReviews
  PROVE  /\ r.st \in {"order_paid", "order_shipped", "order_completed"} /\ r.report = "none"
         /\ r = ReviewRow(r.st, TRUE, FALSE, "none")
  BY DEF UnwrittenReviews, ReviewRow

LEMMA ReviewRowParts ==
  ASSUME NEW st, NEW e \in BOOLEAN, NEW p \in BOOLEAN, NEW q
  PROVE  /\ ReviewRow(st, e, p, q) \in ReviewShapes({st}, {q})
         /\ ReviewRow(st, e, p, q).editable = e
         /\ ReviewRow(st, e, p, q).replied = p
  BY DEF ReviewRow, ReviewShapes

LEMMA UnwrittenIs ==
  ASSUME NEW r \in ReviewShapes({"order_paid", "order_shipped", "order_completed"}, {"none"}),
         r.editable, ~ r.replied
  PROVE  r \in UnwrittenReviews
<1>1. r = ReviewRow(r.st, r.editable, r.replied, r.report)
  BY DEF ReviewShapes, ReviewRow
<1>2. r.editable = TRUE /\ r.replied = FALSE /\ r.report = "none"
  BY DEF ReviewShapes
<1>3. r = ReviewRow(r.st, TRUE, FALSE, "none")
  BY <1>1, <1>2, Zenon
<1> QED  BY <1>3 DEF UnwrittenReviews, ReviewShapes

LEMMA ReviewRowsClosed ==
  ASSUME NEW c, NEW r \in AllReviewRows, ReviewAccepts(c, r)
  PROVE  ReviewAfter(c, r) \in AllReviewRows
<1>1. ReviewRow("shown", TRUE, FALSE, "none") \in ReviewRows
  BY ReviewRowFields DEF ReviewShapes, ReviewRow
<1>2. CASE r \in UnwrittenReviews
  <2>1. c = "write_review"
    BY <1>2, UnwrittenFields DEF ReviewAccepts, ReviewWritten
  <2> QED  BY <1>1, <2>1 DEF ReviewAfter, AllReviewRows
<1>3. CASE r \in ReviewRows
  <2>1. r \in ReviewShapes({"shown", "hidden", "deleted"}, {"none", "pending", "upheld", "dismissed"})
    BY <1>3, ReviewRowFields
  <2>2. ReviewAfter(c, r) = ReviewRow("shown", TRUE, FALSE, "none")
        \/ ReviewAfter(c, r) \in ReviewShapes({"shown", "hidden", "deleted"},
                                             {"none", "pending", "upheld", "dismissed"})
    BY <2>1 DEF ReviewAfter, ReviewShapes
  <2> QED  BY <1>1, <2>2, ReviewRowFields DEF AllReviewRows
<1> QED  BY <1>2, <1>3 DEF AllReviewRows

LEMMA ReviewDriftsClosed ==
  ASSUME NEW r \in AllReviewRows
  PROVE  ReviewDrifts(r) \subseteq AllReviewRows
<1>1. ReaderReview("report", r) => ReviewAfter("report", r) \in AllReviewRows
  BY ReviewRowsClosed DEF ReaderReview, ReviewAccepts, ReviewWritten
<1>2. r.st \in {"order_paid", "order_shipped"} =>
         [r EXCEPT !.st = IF @ = "order_paid" THEN "order_shipped" ELSE "order_completed"]
            \in AllReviewRows
  <2>1. SUFFICES ASSUME r.st \in {"order_paid", "order_shipped"}
                 PROVE  [r EXCEPT !.st = IF @ = "order_paid" THEN "order_shipped" ELSE "order_completed"]
            \in UnwrittenReviews
    BY DEF AllReviewRows
  <2>2. r \in UnwrittenReviews
    BY <2>1, ReviewRowFields DEF AllReviewRows, ReviewShapes
  <2>3. /\ r \in ReviewShapes({"order_paid", "order_shipped", "order_completed"}, {"none"})
        /\ r.editable /\ ~ r.replied
    <3>1. PICK s \in {"order_paid", "order_shipped", "order_completed"} :
             r = ReviewRow(s, TRUE, FALSE, "none")
      BY <2>2 DEF UnwrittenReviews
    <3>2. r \in ReviewShapes({s}, {"none"}) /\ r.editable = TRUE /\ r.replied = FALSE
      BY <3>1, ReviewRowParts, Zenon
    <3> QED  BY <3>2 DEF ReviewShapes
  <2>4. PICK new : new = [r EXCEPT !.st = IF @ = "order_paid" THEN "order_shipped"
                                          ELSE "order_completed"]
    OBVIOUS
  <2>5. /\ new \in ReviewShapes({"order_paid", "order_shipped", "order_completed"}, {"none"})
        /\ new.editable /\ ~ new.replied
    BY <2>3, <2>4 DEF ReviewShapes
  <2> QED  BY <2>4, <2>5, UnwrittenIs
<1>3. ReviewWritten(r) => [r EXCEPT !.editable = FALSE] \in AllReviewRows
  <2>1. ReviewWritten(r) => r \in ReviewRows
    BY UnwrittenFields DEF ReviewWritten, AllReviewRows
  <2> QED  BY <2>1, ReviewRowFields DEF ReviewShapes, AllReviewRows
<1> QED  BY <1>1, <1>2, <1>3 DEF ReviewDrifts

LEMMA ApplicationRowsClosed ==
  ASSUME NEW c, NEW r
  PROVE  ApplicationEffect(c, r) \subseteq ApplicationRows
  BY DEF ApplicationEffect, ApplicationRows

LEMMA NoticeRowsClosed ==
  ASSUME NEW c, NEW r \in NoticeRows
  PROVE  NoticeAfter(c, r) \in NoticeRows
  BY DEF NoticeAfter, NoticeRows

LEMMA EffectStays ==
  ASSUME NEW d \in AllDesks, NEW c, NEW r \in RowsOf(d.domain), PAccepts(d, c, r),
         NEW new \in PEffect(d, c, r)
  PROVE  new \in RowsOf(d.domain) /\ (d.domain = "case" => new.amount = r.amount)
<1>1. d.domain \in {"product", "order", "case", "review", "application", "notice"}
  BY DeskKinds DEF BuyerDomains, ShopDomains, StaffDomains
<1>2. CASE d.domain = "product"
  BY <1>2, ProductRowsClosed DEF RowsOf, PEffect
<1>3. CASE d.domain = "order"
  BY <1>3, OrderRowsClosed DEF RowsOf, PEffect, PAccepts
<1>4. CASE d.domain = "case"
  BY <1>4, CaseRowsClosed DEF RowsOf, PEffect
<1>5. CASE d.domain = "review"
  BY <1>5, ReviewRowsClosed DEF RowsOf, PEffect, PAccepts, AllReviewRows
<1>6. CASE d.domain = "application"
  BY <1>6, ApplicationRowsClosed DEF RowsOf, PEffect
<1>7. CASE d.domain = "notice"
  BY <1>7, NoticeRowsClosed DEF RowsOf, PEffect
<1> QED  BY <1>1, <1>2, <1>3, <1>4, <1>5, <1>6, <1>7

LEMMA DriftStays ==
  ASSUME NEW d \in AllDesks, NEW r \in RowsOf(d.domain), NEW new \in PDrifts(d, r)
  PROVE  new \in RowsOf(d.domain) /\ (d.domain = "case" => new.amount = r.amount)
<1>1. CASE d.domain = "order"
  BY <1>1, OrderDriftsClosed DEF RowsOf, PDrifts
<1>2. CASE d.domain = "case"
  BY <1>2, CaseRowsClosed DEF RowsOf, PDrifts
<1>3. CASE d.domain = "review"
  BY <1>3, ReviewDriftsClosed DEF RowsOf, PDrifts, AllReviewRows
<1>4. CASE d.domain \notin {"order", "case", "review"}
  BY <1>4 DEF PDrifts
<1> QED  BY <1>1, <1>2, <1>3, <1>4

LEMMA OthersStay ==
  ASSUME NEW d \in AllDesks, NEW r \in RowsOf(d.domain), NEW new \in POthers(d, r)
  PROVE  new \in RowsOf(d.domain) /\ (d.domain = "case" => new.amount = r.amount)
<1>1. new \in PDrifts(d, r) \cup Work(d, r)
  BY DEF POthers, AllWork
<1>2. CASE new \in Work(d, r)
  <2>1. PICK e \in Colleagues(d) : \E c \in PControlsOf(e) :
                                       PAccepts(e, c, r) /\ new \in PEffect(e, c, r)
    BY <1>2 DEF Work
  <2>2. e \in AllDesks /\ e.domain = d.domain
    BY DEF Colleagues
  <2> QED  BY <2>1, <2>2, EffectStays
<1> QED  BY <1>1, <1>2, DriftStays

LEMMA PagesLeadToPages ==
  ASSUME NEW d \in AllDesks, NEW p \in PPagesOf(d), NEW c \in PControlsOf(d)
  PROVE  PNextPage(d, p, c) \in PPagesOf(d) /\ PRefreshes(d, p, c) \subseteq PPagesOf(d)
<1>1. CASE d.app = "user"
  BY <1>1, DeskKinds DEF BuyerDomains, Is, PPagesOf, PControlsOf, PNextPage, PRefreshes,
     BuyerOrderRefreshes, BuyerCaseRefreshes, MyReviewRefreshes, ApplicantRefreshes, BuyerNoticeRefreshes
<1>2. CASE d.app = "cashier"
  BY <1>2, DeskKinds DEF Is, PPagesOf, PNextPage, PRefreshes, PayerNext, PayerRefreshes, PayerPages
<1>3. CASE d.app = "writer"
  BY <1>3, DeskKinds DEF Is, PPagesOf, PNextPage, PRefreshes, WriteReviewRefreshes
<1>4. CASE d.app = "merchant"
  BY <1>4, DeskKinds DEF ShopDomains, Is, PPagesOf, PNextPage, PRefreshes,
     SellerProductRefreshes, SellerOrderRefreshes, SellerCaseRefreshes, SellerReviewRefreshes, SellerNoticeRefreshes
<1>5. CASE d.app = "admin"
  BY <1>5, DeskKinds DEF StaffDomains, Is, PPagesOf, PNextPage, PRefreshes, StaffProductNext, StaffApplicationNext,
     StaffProductRefreshes, StaffOrderRefreshes, StaffCaseRefreshes, StaffReviewRefreshes, StaffApplicationRefreshes, StaffNoticeRefreshes
<1>6. CASE d.app = "reports"
  BY <1>6, DeskKinds DEF Is, PPagesOf, PNextPage, PRefreshes, StaffReportsRefreshes
<1> QED  BY <1>1, <1>2, <1>3, <1>4, <1>5, <1>6, DeskKinds
\* A form can be filled in wherever its button is shown, as long as the case
\* asks for money at all.
LEMMA FormsOpen ==
  ASSUME NEW d \in AllDesks, NEW p \in PPagesOf(d), NEW c, NEW r \in RowsOf(d.domain),
         d.domain = "case" => Asking(r),
         POffers(d, p, c, PSees(d, p, r))
  PROVE  PPasses(d, c, PSees(d, p, r))
<1>1. CASE d.domain = "case" /\ d.app \in {"merchant", "admin"}
  <2>1. p = "detail"
    BY <1>1 DEF POffers, Is, SellerCaseOffers, StaffCaseOffers
  <2>2. PSees(d, p, r) = r
    BY <1>1, <2>1 DEF PSees, Is
  <2> QED  BY <1>1, <2>2 DEF PPasses, ApproveFormPasses, ForceRefundFormPasses, Asking, Is
<1>2. CASE ~ (d.domain = "case" /\ d.app \in {"merchant", "admin"})
  BY <1>2 DEF PPasses, Is
<1> QED  BY <1>1, <1>2

-----------------------------------------------------------------------------
(* Every row that is not done with can be moved. *)

LEMMA MovesHas ==
  ASSUME NEW d \in AllDesks, NEW r \in RowsOf(d.domain), NEW new,
         \/ new \in PDrifts(d, r)
         \/ \E e \in Colleagues(d) : \E c \in PControlsOf(e), p \in PPagesOf(e) :
               /\ PAccepts(e, c, r) /\ new \in PEffect(e, c, r)
               /\ POffers(e, p, c, PSees(e, p, r)) /\ PPasses(e, c, PSees(e, p, r))
  PROVE  new \in PMoves(d, r)
<1>1. PMoves(d, r) = PDrifts(d, r) \cup WorkOffered(d, r)
  BY DEF PMoves, AllWorkOffered
<1>2. CASE \E e \in Colleagues(d) : \E c \in PControlsOf(e), p \in PPagesOf(e) :
               /\ PAccepts(e, c, r) /\ new \in PEffect(e, c, r)
               /\ POffers(e, p, c, PSees(e, p, r)) /\ PPasses(e, c, PSees(e, p, r))
  BY <1>1, <1>2 DEF WorkOffered
<1> QED  BY <1>1, <1>2

\* The desks of the buyer and of the merchant, colleagues of every desk of their
\* domain.
LEMMA WorkersAre ==
  ASSUME NEW d \in AllDesks
  PROVE  /\ d.domain \in BuyerDomains => DeskOf("user", d.domain, "any") \in Colleagues(d)
         /\ d.domain \in ShopDomains => DeskOf("merchant", d.domain, "any") \in Colleagues(d)
         /\ d.domain = "review" => DeskOf("writer", "review", "any") \in Colleagues(d)
<1>1. \A app, domain : /\ DeskOf(app, domain, "any").app = app
                       /\ DeskOf(app, domain, "any").domain = domain
                       /\ DeskOf(app, domain, "any").role = "any"
  BY DEF DeskOf
<1>2. /\ d.domain \in BuyerDomains => DeskOf("user", d.domain, "any") \in AllDesks
      /\ d.domain \in ShopDomains => DeskOf("merchant", d.domain, "any") \in AllDesks
      /\ DeskOf("writer", "review", "any") \in AllDesks
  BY DEF AllDesks
<1> QED  BY <1>1, <1>2 DEF Colleagues

LEMMA ProductsMove ==
  ASSUME NEW d \in AllDesks, d.domain = "product", NEW r \in ProductRows, r.st # "deleted"
  PROVE  \E new \in PMoves(d, r) : new # r
<1>1. PICK e : e = DeskOf("merchant", "product", "any")
  OBVIOUS
<1>2. e \in Colleagues(d) /\ e.app = "merchant" /\ e.domain = "product" /\ ~ OfStaff(e)
  BY <1>1, WorkersAre DEF ShopDomains, OfStaff, DeskOf
<1>3. /\ SellerProductControls = PControlsOf(e)
      /\ "detail" \in PPagesOf(e) /\ PSees(e, "detail", r) = r
      /\ \A c : PPasses(e, c, r)
  BY <1>2 DEF Is, PControlsOf, PPagesOf, PSees, PPasses
<1>4. r.st \in {"draft", "pending_review", "approved", "rejected", "off_shelf"}
      /\ r.skus \in {"none", "inactive", "active"}
  BY DEF ProductRows
<1>5. PICK c \in {"delete", "withdraw_review", "offshelf"} :
         EditHeader(c, r) /\ ProductAccepts(c, r) /\ ProductStatusAfter(c, r.st) # r.st
  BY <1>4 DEF EditHeader, ProductAccepts, ProductStatusAfter
<1>6. PAccepts(e, c, r) /\ POffers(e, "detail", c, r) /\ c \in PControlsOf(e)
  BY <1>2, <1>3, <1>5 DEF PAccepts, POffers, Is, SellerProductOffers, SellerProductControls
<1>7. PICK new : new = [st |-> ProductStatusAfter(c, r.st), skus |-> r.skus]
  OBVIOUS
<1>8. r.skus \in SkusAfter(c, r.skus)
  BY <1>5 DEF SkusAfter
<1>9. new \in PEffect(e, c, r) /\ new.st # r.st
  BY <1>2, <1>5, <1>7, <1>8 DEF PEffect, ProductEffect
<1>10. new \in PMoves(d, r)
  BY <1>2, <1>3, <1>6, <1>9, MovesHas DEF RowsOf
<1> QED  BY <1>9, <1>10

LEMMA OrdersMove ==
  ASSUME NEW d \in AllDesks, d.domain = "order", NEW r \in OrderRows, ~ OrderFinal(r)
  PROVE  \E new \in PMoves(d, r) : new # r
<1>1. r.st \in {"pending_payment", "paid", "shipped"}
  BY OrderRowFields DEF OrderFinal, OrderStatuses
<1>2. PICK st \in {"cancelled", "closed"} : [r EXCEPT !.st = st] \in OrderDrifts(r)
  BY <1>1 DEF OrderDrifts
<1>3. [r EXCEPT !.st = st].st = st
  BY OrderRowFields DEF OrderRow
<1>4. [r EXCEPT !.st = st] \in PMoves(d, r)
  BY <1>2, MovesHas DEF RowsOf, PDrifts
<1> QED  BY <1>1, <1>3, <1>4

LEMMA CasesMove ==
  ASSUME NEW d \in AllDesks, d.domain = "case", NEW r \in CaseRows, ~ CaseFinal(r)
  PROVE  \E new \in PMoves(d, r) : new # r
<1>1. CaseRows = [st : CaseStatuses, type : CaseTypes, amount : {"zero", "some"},
                  appealed : BOOLEAN, claimed : {"none", "me", "other"}]
  BY DEF CaseRows, CaseStatuses
<1>2. r.st \in {"pending", "arbitrating", "waiting_return", "return_shipped", "waiting_ship",
                "exchange_shipped"}
  BY <1>1, CaseStatusNames DEF CaseFinal
<1>3. CASE r.st \in {"pending", "waiting_return", "return_shipped", "exchange_shipped"}
  <2>1. PICK st : st # r.st /\ [r EXCEPT !.st = st] \in CaseDrifts(r)
    BY <1>3 DEF CaseDrifts, StatusReceived
  <2>2. [r EXCEPT !.st = st] \in PMoves(d, r)
    BY <2>1, MovesHas DEF RowsOf, PDrifts
  <2> QED  BY <1>1, <2>1, <2>2
<1>4. CASE r.st = "arbitrating"
  <2>1. PICK new : new = [r EXCEPT !.st = "closed", !.claimed = "other"]
    OBVIOUS
  <2>2. new \in CaseDrifts(r) /\ new.st = "closed"
    BY <1>1, <1>4, <2>1 DEF CaseDrifts
  <2>3. new \in PMoves(d, r)
    BY <2>2, MovesHas DEF RowsOf, PDrifts
  <2> QED  BY <1>4, <2>2, <2>3
<1>5. CASE r.st = "waiting_ship"
  <2>1. PICK e : e = DeskOf("merchant", "case", "any")
    OBVIOUS
  <2>2. e \in Colleagues(d) /\ e.app = "merchant" /\ e.domain = "case" /\ ~ OfStaff(e)
    BY <2>1, WorkersAre DEF ShopDomains, OfStaff, DeskOf
  <2>3. /\ "ship_exchange" \in PControlsOf(e) /\ "detail" \in PPagesOf(e)
        /\ PSees(e, "detail", r) = r /\ PPasses(e, "ship_exchange", r)
    BY <2>2 DEF Is, PControlsOf, SellerCaseControls, PPagesOf, PSees, PPasses
  <2>4. PAccepts(e, "ship_exchange", r) /\ POffers(e, "detail", "ship_exchange", r)
    BY <1>5, <2>2 DEF PAccepts, CaseAccepts, POffers, Is, SellerCaseOffers, SellerCaseActions
  <2>5. PICK new \in CaseEffect("ship_exchange", r) : new.st = "exchange_shipped"
    <3>1. CaseStatusesAfter("ship_exchange", r) = {"exchange_shipped"}
      BY DEF CaseStatusesAfter
    <3>2. PICK new : new = [r EXCEPT !.st = "exchange_shipped",
                                     !.appealed = @ \/ "ship_exchange" = "appeal",
                                     !.claimed = IF "ship_exchange" \in
                                                    {"take_over", "resolve", "force_refund"}
                                                 THEN "me" ELSE @]
      OBVIOUS
    <3>3. new.st = "exchange_shipped"
      BY <1>1, <3>2
    <3>4. new \in CaseEffect("ship_exchange", r)
      BY <3>1, <3>2 DEF CaseEffect
    <3> QED  BY <3>3, <3>4
  <2>6. new \in PMoves(d, r)
    BY <2>2, <2>3, <2>4, <2>5, MovesHas DEF RowsOf, PEffect
  <2> QED  BY <1>5, <2>5, <2>6
<1> QED  BY <1>2, <1>3, <1>4, <1>5

LEMMA ReviewsMove ==
  ASSUME NEW d \in AllDesks, d.domain = "review", NEW r \in AllReviewRows, r.st # "deleted"
  PROVE  \E new \in PMoves(d, r) : new # r
<1>1. r.st \in {"order_paid", "order_shipped", "order_completed", "shown", "hidden"}
  BY UnwrittenFields, ReviewRowFields DEF AllReviewRows, ReviewShapes
<1>2. \A st : [r EXCEPT !.st = st].st = st
  BY UnwrittenFields, ReviewRowFields, ReviewRowParts DEF AllReviewRows, ReviewShapes
<1>3. CASE r.st \in {"order_paid", "order_shipped"}
  <2>1. PICK new : new = [r EXCEPT !.st = IF @ = "order_paid" THEN "order_shipped"
                                          ELSE "order_completed"]
    OBVIOUS
  <2>2. new \in ReviewDrifts(r)
    BY <1>3, <2>1 DEF ReviewDrifts, ReviewWritten
  <2>3. new.st # r.st
    BY <1>2, <1>3, <2>1
  <2>4. new \in PMoves(d, r)
    BY <2>2, MovesHas DEF RowsOf, PDrifts, AllReviewRows
  <2> QED  BY <2>3, <2>4
<1>4. CASE r.st = "order_completed"
  <2>1. PICK e : e = DeskOf("writer", "review", "any")
    OBVIOUS
  <2>2. e \in Colleagues(d) /\ e.app = "writer" /\ e.domain = "review" /\ ~ OfStaff(e)
    BY <2>1, WorkersAre DEF OfStaff, DeskOf
  <2>3. /\ "write_review" \in PControlsOf(e) /\ "new" \in PPagesOf(e)
        /\ PSees(e, "new", r) = "order_completed" /\ PPasses(e, "write_review", "order_completed")
    BY <1>4, <2>2 DEF Is, PControlsOf, WriteReviewControls, PPagesOf, PSees, PPasses, OrderOfReview,
                      ReviewWritten
  <2>4. PAccepts(e, "write_review", r) /\ POffers(e, "new", "write_review", "order_completed")
    BY <1>4, <2>2 DEF PAccepts, ReviewAccepts, POffers, Is, WriteReviews
  <2>5. ReviewAfter("write_review", r) \in PEffect(e, "write_review", r)
        /\ ReviewAfter("write_review", r).st = "shown"
    BY <2>2 DEF PEffect, ReviewAfter, ReviewRow
  <2>6. ReviewAfter("write_review", r) \in PMoves(d, r)
    BY <2>2, <2>3, <2>4, <2>5, MovesHas DEF RowsOf, AllReviewRows
  <2> QED  BY <1>4, <2>5, <2>6
<1>5. CASE r.st \in {"shown", "hidden"}
  <2>1. PICK e : e = DeskOf("user", "review", "any")
    OBVIOUS
  <2>2. e \in Colleagues(d) /\ e.app = "user" /\ e.domain = "review" /\ ~ OfStaff(e)
    BY <2>1, WorkersAre DEF BuyerDomains, OfStaff, DeskOf
  <2>3. /\ "delete_review" \in PControlsOf(e) /\ "list" \in PPagesOf(e)
        /\ PSees(e, "list", r) = r /\ PPasses(e, "delete_review", r)
    BY <2>2 DEF Is, PControlsOf, MyReviewControls, PPagesOf, PSees, PPasses
  <2>4. PAccepts(e, "delete_review", r) /\ POffers(e, "list", "delete_review", r)
    BY <1>5, <2>2 DEF PAccepts, ReviewAccepts, ReviewWritten, POffers, Is, MyReviews
  <2>5. ReviewAfter("delete_review", r) \in PEffect(e, "delete_review", r)
        /\ ReviewAfter("delete_review", r).st = "deleted"
    BY <1>2, <2>2 DEF PEffect, ReviewAfter
  <2>6. ReviewAfter("delete_review", r) \in PMoves(d, r)
    BY <2>2, <2>3, <2>4, <2>5, MovesHas DEF RowsOf, AllReviewRows
  <2> QED  BY <1>5, <2>5, <2>6
<1> QED  BY <1>1, <1>3, <1>4, <1>5

LEMMA ApplicationsMove ==
  ASSUME NEW d \in AllDesks, d.domain = "application", NEW r \in ApplicationRows,
         r.st # "approved"
  PROVE  \E new \in PMoves(d, r) : new # r
<1>1. PICK e : e = DeskOf("user", "application", "any")
  OBVIOUS
<1>2. e \in Colleagues(d) /\ e.app = "user" /\ e.domain = "application" /\ ~ OfStaff(e)
  BY <1>1, WorkersAre DEF BuyerDomains, OfStaff, DeskOf
<1>3. /\ ApplicantControls = PControlsOf(e) /\ "apply" \in PPagesOf(e)
      /\ PSees(e, "apply", r) = r /\ \A c : PPasses(e, c, r)
  BY <1>2 DEF Is, PControlsOf, PPagesOf, PSees, PPasses
<1>4. r.st \in {"none", "pending", "rejected", "withdrawn"}
  BY DEF ApplicationRows
<1>5. PICK c \in {"apply", "withdraw"} :
         /\ ApplyPage(c, r) /\ ApplicationAccepts(c, r)
         /\ \E new \in ApplicationEffect(c, r) : new.st # r.st
  BY <1>4 DEF ApplyPage, ApplicationAccepts, ApplicationEffect
<1>6. PAccepts(e, c, r) /\ POffers(e, "apply", c, r) /\ c \in PControlsOf(e)
  BY <1>2, <1>3, <1>5 DEF PAccepts, POffers, Is, ApplicantControls
<1>7. PICK new \in ApplicationEffect(c, r) : new.st # r.st
  BY <1>5
<1>8. new \in PMoves(d, r)
  BY <1>2, <1>3, <1>6, <1>7, MovesHas DEF RowsOf, PEffect
<1> QED  BY <1>7, <1>8

LEMMA NoticesMove ==
  ASSUME NEW d \in AllDesks, d.domain = "notice", NEW r \in NoticeRows, r.st # "deleted"
  PROVE  \E new \in PMoves(d, r) : new # r
<1>1. PICK e : e = DeskOf("user", "notice", "any")
  OBVIOUS
<1>2. e \in Colleagues(d) /\ e.app = "user" /\ e.domain = "notice" /\ ~ OfStaff(e)
  BY <1>1, WorkersAre DEF BuyerDomains, OfStaff, DeskOf
<1>3. "delete_notice" \in PControlsOf(e) /\ "list" \in PPagesOf(e)
      /\ \A v : PPasses(e, "delete_notice", v)
  BY <1>2 DEF Is, PControlsOf, NoticeControls, PPagesOf, PPasses
<1>4. PICK v : v = PSees(e, "list", r)
  OBVIOUS
<1>5. v.st = r.st
  BY <1>2, <1>4 DEF PSees, Is, BuyerNoticeSees
<1>6. PAccepts(e, "delete_notice", r) /\ POffers(e, "list", "delete_notice", v)
  BY <1>2, <1>5 DEF PAccepts, NoticeAccepts, POffers, Is, BuyerNotices
<1>7. NoticeAfter("delete_notice", r) \in PEffect(e, "delete_notice", r)
      /\ NoticeAfter("delete_notice", r).st = "deleted"
  BY <1>2 DEF PEffect, NoticeAfter
<1>8. NoticeAfter("delete_notice", r) \in PMoves(d, r)
  BY <1>2, <1>3, <1>4, <1>6, <1>7, MovesHas DEF RowsOf
<1> QED  BY <1>7, <1>8

LEMMA RowsMove ==
  ASSUME NEW d \in AllDesks, NEW r \in RowsOf(d.domain)
  PROVE  PFinal(d, r) \/ PMoves(d, r) \ {r} # {}
<1>1. d.domain \in {"product", "order", "case", "review", "application", "notice"}
  BY DeskKinds DEF BuyerDomains, ShopDomains, StaffDomains
<1>2. PFinal(d, r) \/ \E new \in PMoves(d, r) : new # r
  BY <1>1, ProductsMove, OrdersMove, CasesMove, ReviewsMove, ApplicationsMove, NoticesMove
     DEF PFinal, RowsOf, AllReviewRows
<1> QED  BY <1>2

-----------------------------------------------------------------------------
(* Every command has the reads asked for again that its work changes.      *)

\* Commands that leave the row as it was, or change what no list shows.
LEMMA QuietWork ==
  ASSUME NEW c, NEW r
  PROVE  /\ c \in {"add_sku", "toggle_sku", "delete_sku"} =>
               \A new \in ProductEffect(c, r) : new.st = r.st
         /\ r \in CaseRows /\ c \in {"nudge", "add_evidence"} =>
               \A new \in CaseEffect(c, r) : new.st = r.st
         /\ c = "scan" => \A new \in OrderEffect(c, r) : new = r
         /\ r \in OrderRows /\ c = "start_pay" => \A new \in OrderEffect(c, r) : new.st = r.st
<1>1. c \in {"add_sku", "toggle_sku", "delete_sku"} => ProductStatusAfter(c, r.st) = r.st
  BY DEF ProductStatusAfter
<1>2. c \in {"add_sku", "toggle_sku", "delete_sku"} =>
         \A new \in ProductEffect(c, r) : new.st = r.st
  BY <1>1 DEF ProductEffect
<1>3. c \in {"nudge", "add_evidence"} => CaseStatusesAfter(c, r) = {r.st}
  BY DEF CaseStatusesAfter
<1>4. r \in CaseRows /\ c \in {"nudge", "add_evidence"} =>
         \A new \in CaseEffect(c, r) : new.st = r.st
  BY <1>3 DEF CaseEffect, CaseRows
<1>5. c = "scan" => \A new \in OrderEffect(c, r) : new = r
  BY DEF OrderEffect
<1>6. r \in OrderRows /\ c = "start_pay" => \A new \in OrderEffect(c, r) : new.st = r.st
  BY OrderRowFields DEF OrderEffect, OrderRow
<1> QED  BY <1>2, <1>4, <1>5, <1>6

LEMMA WorkShown ==
  ASSUME NEW d \in AllDesks, NEW p \in PPagesOf(d), NEW q \in PPagesOf(d),
         NEW c \in PControlsOf(d), NEW r \in RowsOf(d.domain), NEW v, POffers(d, p, c, v),
         PAccepts(d, c, r), NEW new \in PEffect(d, c, r)
  PROVE  \/ PSees(d, q, new) = PSees(d, q, r)
         \/ q \in PRefreshes(d, p, c)
         \/ PLags(d, q)
         \/ d.domain = "product" /\ new.st = "deleted"
<1>1. CASE d.domain = "product"
  <2>1. CASE d.app = "merchant"
    <3>1. CASE c = "delete"
      BY <1>1, <3>1 DEF PEffect, ProductEffect, ProductStatusAfter
    <3>2. CASE c \in {"add_sku", "toggle_sku", "delete_sku"}
      <4>1. new.st = r.st
        BY <1>1, <3>2, QuietWork DEF PEffect
      <4>2. CASE q = "list"
        BY <1>1, <2>1, <4>1, <4>2 DEF PSees, Is, ProductListed
      <4>3. CASE q # "list"
        BY <1>1, <2>1, <3>2, <4>3 DEF PPagesOf, PRefreshes, Is, SellerProductRefreshes
      <4> QED  BY <4>2, <4>3
    <3>3. CASE c \notin {"delete", "add_sku", "toggle_sku", "delete_sku"}
      BY <1>1, <2>1, <3>3 DEF PPagesOf, PRefreshes, Is, SellerProductRefreshes
    <3> QED  BY <3>1, <3>2, <3>3
  <2>2. CASE d.app = "admin"
    BY <1>1, <2>2 DEF PPagesOf, PRefreshes, Is, StaffProductRefreshes
  <2> QED  BY <1>1, <2>1, <2>2, DeskKinds DEF BuyerDomains
<1>2. CASE d.domain = "order"
  <2>1. CASE d.app \in {"user", "merchant"}
    BY <1>2, <2>1 DEF PPagesOf, PRefreshes, Is, BuyerOrderRefreshes, SellerOrderRefreshes
  <2>2. CASE d.app = "cashier"
    <3>1. \A x : PSees(d, q, x) = PayerSees(q, x)
      BY <2>2, DeskKinds DEF PSees, PPagesOf, PayerPages, Is
    <3>2. CASE c = "start_pay" /\ q = "pay"
      <4>1. new.st = r.st
        BY <1>2, <3>2, QuietWork DEF PEffect, RowsOf
      <4> QED  BY <3>1, <3>2, <4>1 DEF PayerSees
    <3>3. CASE q = "nowhere"
      BY <3>1, <3>3 DEF PayerSees
    <3>4. CASE ~ (c = "start_pay" /\ q = "pay") /\ q # "nowhere"
      BY <1>2, <2>2, <3>4 DEF PRefreshes, PayerRefreshes, PPagesOf, PayerPages, Is
    <3> QED  BY <3>2, <3>3, <3>4
  <2>3. CASE d.app = "admin"
    <3>1. CASE c = "scan"
      BY <1>2, <3>1, QuietWork DEF PEffect
    <3>2. CASE c # "scan"
      BY <1>2, <2>3, <3>2 DEF PPagesOf, PRefreshes, Is, StaffOrderRefreshes
    <3> QED  BY <3>1, <3>2
  <2> QED  BY <1>2, <2>1, <2>2, <2>3, DeskKinds
<1>3. CASE d.domain = "case"
  <2>1. CASE d.app = "user"
    <3>1. CASE q = "detail"
      BY <1>3, <2>1, <3>1 DEF PLags, Is
    <3>2. CASE q = "list" /\ c \in {"nudge", "add_evidence"}
      <4>1. new.st = r.st
        BY <1>3, <3>2, QuietWork DEF PEffect, RowsOf
      <4> QED  BY <1>3, <2>1, <3>2, <4>1 DEF PSees, Is
    <3>3. CASE q = "list" /\ c \notin {"nudge", "add_evidence"}
      BY <1>3, <2>1, <3>3 DEF PRefreshes, Is, BuyerCaseRefreshes
    <3> QED  BY <1>3, <2>1, <3>1, <3>2, <3>3 DEF PPagesOf, Is
  <2>2. CASE d.app \in {"merchant", "admin"}
    BY <1>3, <2>2 DEF PPagesOf, PRefreshes, Is, SellerCaseRefreshes, StaffCaseRefreshes
  <2> QED  BY <1>3, <2>1, <2>2, DeskKinds
<1>4. CASE d.domain = "review"
  <2>1. CASE d.app \in {"user", "merchant"}
    BY <1>4, <2>1 DEF PPagesOf, PRefreshes, Is, MyReviewRefreshes, SellerReviewRefreshes
  <2>2. CASE d.app = "writer"
    <3>1. CASE q = "list"
      BY <1>4, <2>2, <3>1 DEF PRefreshes, Is, WriteReviewRefreshes
    <3>2. CASE q = "new"
      <4>1. c = "write_review"
        BY <1>4, <2>2 DEF PControlsOf, WriteReviewControls, Is
      <4>2. r.st \in {"order_completed", "deleted"}
        BY <1>4, <2>2, <4>1 DEF PAccepts, ReviewAccepts
      <4>3. new.st = "shown"
        BY <1>4, <4>1 DEF PEffect, ReviewAfter, ReviewRow
      <4>4. OrderOfReview(new) = "order_completed" /\ OrderOfReview(r) = "order_completed"
        BY <4>2, <4>3 DEF OrderOfReview, ReviewWritten
      <4> QED  BY <1>4, <2>2, <3>2, <4>4 DEF PSees, Is
    <3> QED  BY <1>4, <2>2, <3>1, <3>2 DEF PPagesOf, Is
  <2>3. CASE d.app = "admin"
    BY <1>4, <2>3 DEF PPagesOf, PRefreshes, Is, StaffReviewRefreshes, PLags
  <2>4. CASE d.app = "reports"
    BY <1>4, <2>4 DEF PPagesOf, PRefreshes, Is, StaffReportsRefreshes, PLags
  <2> QED  BY <1>4, <2>1, <2>2, <2>3, <2>4, DeskKinds
<1>5. CASE d.domain = "application"
  BY <1>5, DeskKinds DEF ShopDomains, PPagesOf, PRefreshes, Is, ApplicantRefreshes,
                         StaffApplicationRefreshes
<1>6. CASE d.domain = "notice"
  BY <1>6, DeskKinds DEF PPagesOf, PRefreshes, Is, BuyerNoticeRefreshes, SellerNoticeRefreshes,
                         StaffNoticeRefreshes
<1> QED
  BY <1>1, <1>2, <1>3, <1>4, <1>5, <1>6, DeskKinds DEF BuyerDomains, ShopDomains, StaffDomains

-----------------------------------------------------------------------------
(* The theorems, for the desks of the apps. *)

AppRows == [d \in Desks |-> RowsOf(d.domain)]
AskingRows == [d \in Desks |-> {r \in RowsOf(d.domain) : d.domain = "case" => Asking(r)}]
DeletedProducts ==
    [d \in Desks |-> {r \in RowsOf(d.domain) : d.domain = "product" /\ r.st = "deleted"}]

LEMMA AppRowsClosed ==
  ASSUME DesksOfTheApps
  PROVE  RowsClosed(AppRows)
<1> SUFFICES ASSUME NEW d \in Desks
             PROVE  /\ Starts(d) \subseteq RowsOf(d.domain)
                    /\ \A r \in RowsOf(d.domain) :
                          /\ Others(d, r) \subseteq RowsOf(d.domain)
                          /\ \A c \in ControlsOf(d) : Accepts(d, c, r) =>
                                Effect(d, c, r) \subseteq RowsOf(d.domain)
                    /\ \A p \in PagesOf(d), c \in ControlsOf(d) :
                          NextPage(d, p, c) \in PagesOf(d) /\ Refreshes(d, p, c) \subseteq PagesOf(d)
  BY DEF RowsClosed, AppRows
<1>1. d \in AllDesks /\ PagesOf(d) = PPagesOf(d) /\ ControlsOf(d) = PControlsOf(d)
      /\ Starts(d) \subseteq RowsOf(d.domain)
  BY DEF DesksOfTheApps
<1>2. \A r \in RowsOf(d.domain) : Others(d, r) \subseteq RowsOf(d.domain)
  BY <1>1, OthersStay DEF DesksOfTheApps
<1>3. \A r \in RowsOf(d.domain), c \in ControlsOf(d) : Accepts(d, c, r) =>
         Effect(d, c, r) \subseteq RowsOf(d.domain)
  BY <1>1, EffectStays DEF DesksOfTheApps
<1>4. \A p \in PagesOf(d), c \in ControlsOf(d) :
         NextPage(d, p, c) \in PagesOf(d) /\ Refreshes(d, p, c) \subseteq PagesOf(d)
  BY <1>1, PagesLeadToPages DEF DesksOfTheApps
<1> QED  BY <1>1, <1>2, <1>3, <1>4

LEMMA AppOffersHonoured ==
  ASSUME DesksOfTheApps
  PROVE  OffersHonoured(AppRows)
<1> SUFFICES ASSUME NEW d \in Desks, NEW p \in PagesOf(d), NEW c \in ControlsOf(d),
                    NEW r \in RowsOf(d.domain), Offers(d, p, c, Sees(d, p, r))
             PROVE  Asks(d, c) \/ Misjudged(d, c, Sees(d, p, r)) \/ Accepts(d, c, r)
  BY DEF OffersHonoured, AppRows
<1>1. d \in AllDesks /\ p \in PPagesOf(d) /\ c \in PControlsOf(d)
  BY DEF DesksOfTheApps
<1>2. Sees(d, p, r) = PSees(d, p, r)
  BY <1>1 DEF DesksOfTheApps
<1>3. POffers(d, p, c, PSees(d, p, r))
  BY <1>1, <1>2 DEF DesksOfTheApps
<1>4. PAsks(d, c) \/ PMisjudged(d, c, PSees(d, p, r)) \/ PAccepts(d, c, r)
  <2>1. d.domain \in {"product", "order", "case", "review", "application", "notice"}
    BY <1>1, DeskKinds DEF BuyerDomains, ShopDomains, StaffDomains
  <2>2. RowsOf(d.domain) = CASE d.domain = "product" -> ProductRows
                             [] d.domain = "order" -> OrderRows
                             [] d.domain = "case" -> CaseRows
                             [] d.domain = "review" -> AllReviewRows
                             [] d.domain = "application" -> ApplicationRows
                             [] d.domain = "notice" -> NoticeRows
    BY <2>1 DEF RowsOf, AllReviewRows
  <2> QED
    BY <1>1, <1>3, <2>1, <2>2, ProductOffersTaken, OrderOffersTaken, CaseOffersTaken,
       ReviewOffersTaken, ApplicationOffersTaken, NoticeOffersTaken
<1> QED  BY <1>1, <1>2, <1>3, <1>4 DEF DesksOfTheApps

\* What the pages of the three apps offer, the services take: on every desk, for
\* every row, in every role, a refusal has a change by somebody else behind it, or
\* one of the questions that PAsks and PMisjudged name.
THEOREM AppsAreRefusedByOthers ==
  ASSUME DesksOfTheApps, BudgetsAreNumbers
  PROVE  Spec => []RefusedOnlyByOthers
  BY AppRowsClosed, AppOffersHonoured, RefusalsAreOthers

\* Every command of the three apps has the reads asked for again that its work
\* changes, but for the pages that PLags names: on every desk the user's own work
\* is seen.
THEOREM AppsShowOwnWork ==
  ASSUME DesksOfTheApps, BudgetsAreNumbers
  PROVE  Spec => []SeesOwnWork
<1>1. EndedForGood(DeletedProducts)
  <2> SUFFICES ASSUME NEW d \in Desks, NEW r \in RowsOf(d.domain),
                      d.domain = "product", r.st = "deleted"
               PROVE  /\ Gone(d, r)
                      /\ Others(d, r) \subseteq {}
                      /\ \A c \in ControlsOf(d) : ~ Accepts(d, c, r)
    BY DEF EndedForGood, DeletedProducts
  <2>1. d \in AllDesks /\ ControlsOf(d) = PControlsOf(d)
    BY DEF DesksOfTheApps
  <2>2. \A e, c : e.domain = "product" => ~ PAccepts(e, c, r)
    BY DEF PAccepts, ProductAccepts
  <2>3. Work(d, r) = {} /\ PDrifts(d, r) = {}
    BY <2>2 DEF Work, Colleagues, PDrifts
  <2>4. POthers(d, r) = {}
    BY <2>1, <2>3 DEF POthers, AllWork
  <2>5. Gone(d, r)
    BY DEF DesksOfTheApps, PGone
  <2>6. Others(d, r) = {}
    BY <2>4 DEF DesksOfTheApps
  <2>7. \A c \in ControlsOf(d) : ~ Accepts(d, c, r)
    BY <2>1, <2>2 DEF DesksOfTheApps
  <2> QED  BY <2>5, <2>6, <2>7
<1>2. WorkIsRefreshed(AppRows, DeletedProducts)
  <2> SUFFICES ASSUME NEW d \in Desks, NEW p \in PagesOf(d), NEW q \in PagesOf(d),
                      NEW c \in ControlsOf(d), NEW r \in RowsOf(d.domain),
                      NEW s \in RowsOf(d.domain), Offers(d, p, c, Sees(d, p, s)),
                      Accepts(d, c, r), NEW new \in Effect(d, c, r)
               PROVE  \/ Sees(d, q, new) = Sees(d, q, r)
                      \/ q \in Refreshes(d, p, c)
                      \/ Lags(d, q)
                      \/ new \in RowsOf(d.domain) /\ d.domain = "product" /\ new.st = "deleted"
    BY DEF WorkIsRefreshed, CanSend, AppRows, DeletedProducts
  <2>1. /\ d \in AllDesks /\ p \in PPagesOf(d) /\ q \in PPagesOf(d) /\ c \in PControlsOf(d)
    BY DEF DesksOfTheApps
  <2>2. POffers(d, p, c, PSees(d, p, s))
    BY <2>1 DEF DesksOfTheApps
  <2>3. PAccepts(d, c, r) /\ new \in PEffect(d, c, r)
    BY <2>1 DEF DesksOfTheApps
  <2>4. new \in RowsOf(d.domain)
    BY <2>1, <2>3, EffectStays
  <2>5. \/ PSees(d, q, new) = PSees(d, q, r)
        \/ q \in PRefreshes(d, p, c)
        \/ PLags(d, q)
        \/ d.domain = "product" /\ new.st = "deleted"
    BY <2>1, <2>2, <2>3, WorkShown
  <2> QED  BY <2>1, <2>4, <2>5 DEF DesksOfTheApps
<1> QED  BY <1>1, <1>2, AppRowsClosed, OwnWorkIsSeen

\* Every control that a page of the three apps shows can be used: its form can be
\* filled in, on every desk and for every row, as long as no case asks for nothing;
\* the exchange that the apply page opens with the amount zero is the exception.
THEOREM AppsOfferWhatPasses ==
  ASSUME DesksOfTheApps, BudgetsAreNumbers,
         \A d \in Desks : Starts(d) \subseteq AskingRows[d]
  PROVE  Spec => []OffersPassable
<1>1. RowsClosed(AskingRows)
  <2> SUFFICES ASSUME NEW d \in Desks, NEW r \in RowsOf(d.domain),
                      d.domain = "case" => Asking(r)
               PROVE  /\ \A new \in Others(d, r) :
                            new \in RowsOf(d.domain) /\ (d.domain = "case" => Asking(new))
                      /\ \A c \in ControlsOf(d) : Accepts(d, c, r) => \A new \in Effect(d, c, r) :
                            new \in RowsOf(d.domain) /\ (d.domain = "case" => Asking(new))
    BY AppRowsClosed DEF RowsClosed, AskingRows
  <2>1. d \in AllDesks /\ ControlsOf(d) = PControlsOf(d)
    BY DEF DesksOfTheApps
  <2>2. \A new \in Others(d, r) :
           new \in RowsOf(d.domain) /\ (d.domain = "case" => Asking(new))
    BY <2>1, OthersStay DEF DesksOfTheApps, Asking
  <2>3. \A c \in ControlsOf(d) : Accepts(d, c, r) => \A new \in Effect(d, c, r) :
           new \in RowsOf(d.domain) /\ (d.domain = "case" => Asking(new))
    BY <2>1, EffectStays DEF DesksOfTheApps, Asking
  <2> QED  BY <2>2, <2>3
<1> DEFINE Inv == DeskInv(AskingRows) /\ ReadFromRows(AskingRows)
<1>2. Init => Inv
  <2>1. Init => ReadFromRows(AskingRows)
    BY DEF Init, ReadFromRows, Quiet, NoCall
  <2> QED  BY <1>1, <2>1, InitInv
<1>3. Inv /\ [Next]_vars => Inv'
  <2>1. ASSUME Inv, UNCHANGED vars PROVE ReadFromRows(AskingRows)'
    BY <2>1 DEF vars, ReadFromRows, CanSend
  <2> QED  BY <1>1, <2>1, NextInv, ReadFromRowsStep
<1>4. Inv => OffersPassable
  <2> SUFFICES ASSUME Inv, view[page] # NoView, NEW c \in ControlsOf(desk),
                      Offers(desk, page, c, view[page])
               PROVE  Passes(desk, c, view[page])
    BY DEF OffersPassable
  <2>1. desk \in Desks /\ page \in PagesOf(desk)
    BY DEF DeskInv, TypeOK
  <2>2. PICK r \in AskingRows[desk] : view[page] = Sees(desk, page, r)
    BY <2>1 DEF ReadFromRows
  <2>3. r \in RowsOf(desk.domain) /\ (desk.domain = "case" => Asking(r))
    BY <2>1, <2>2 DEF AskingRows
  <2>4. desk \in AllDesks /\ page \in PPagesOf(desk) /\ c \in PControlsOf(desk)
    BY <2>1 DEF DesksOfTheApps
  <2>5. view[page] = PSees(desk, page, r)
    BY <2>1, <2>2, <2>3, <2>4 DEF DesksOfTheApps
  <2>6. POffers(desk, page, c, PSees(desk, page, r))
    BY <2>1, <2>3, <2>4, <2>5 DEF DesksOfTheApps
  <2>7. PPasses(desk, c, PSees(desk, page, r))
    BY <2>3, <2>4, <2>6, FormsOpen
  <2> QED  BY <2>1, <2>3, <2>4, <2>5, <2>6, <2>7 DEF DesksOfTheApps
<1> QED  BY <1>2, <1>3, <1>4, PTL DEF Spec

\* No row of the three apps gets stuck: whatever row a desk finds and whatever is
\* done to it, somebody's page offers a command that the service takes and that
\* changes the row, or time will change it, until it is done with.
THEOREM AppsNeverStuck ==
  ASSUME DesksOfTheApps, BudgetsAreNumbers
  PROVE  Spec => []NoDeadEnd
<1>1. Init => DeskInv(AppRows)
  BY AppRowsClosed, InitInv
<1>2. DeskInv(AppRows) /\ [Next]_vars => DeskInv(AppRows)'
  BY AppRowsClosed, NextInv
<1>3. DeskInv(AppRows) => NoDeadEnd
  <2> SUFFICES ASSUME DeskInv(AppRows)
               PROVE  NoDeadEnd
    OBVIOUS
  <2>1. desk \in Desks /\ row \in RowsOf(desk.domain)
    BY DEF DeskInv, TypeOK, AppRows
  <2>2. desk \in AllDesks
    BY <2>1 DEF DesksOfTheApps
  <2>3. PFinal(desk, row) \/ PMoves(desk, row) \ {row} # {}
    BY <2>1, <2>2, RowsMove
  <2> QED  BY <2>1, <2>3 DEF DesksOfTheApps, NoDeadEnd
<1> QED  BY <1>1, <1>2, <1>3, PTL DEF Spec
=============================================================================
