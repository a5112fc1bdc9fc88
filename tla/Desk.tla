-------------------------------- MODULE Desk --------------------------------
(***************************************************************************)
(* One browser tab that works on one row of the backend (an order, a case, *)
(* a product, a review ...) while everybody else does too.                 *)
(*                                                                         *)
(* A desk is a list page and a detail page of one of the web apps.  Each   *)
(* reads the row through the query cache (@tanstack/react-query), offers   *)
(* controls for what it has read, sends a command, and on success          *)
(* invalidates cached reads.  What the pages read, offer and invalidate    *)
(* and what the backend accepts are parameters: the Pages modules give     *)
(* them for the desks of the three apps.                                   *)
(***************************************************************************)
EXTENDS Naturals, FiniteSets

CONSTANTS
    Desks,            \* the desks of this instance
    NoView,           \* a read that has given nothing
    Starts(_),        \* Starts(d): rows the desk may find
    PagesOf(_),       \* PagesOf(d): its pages, each with one cached read
    ControlsOf(_),    \* ControlsOf(d): the commands its pages can send
    Sees(_, _, _),    \* Sees(d, p, row): what page p reads of the row
    Offers(_, _, _, _),  \* Offers(d, p, c, v): page p that has read v offers c
    Passes(_, _, _),  \* Passes(d, c, v): some input gets past the form of c
    Asks(_, _),       \* Asks(d, c): c leaves a condition to the backend
    Refreshes(_, _, _),  \* Refreshes(d, p, c): the reads that c, sent from p, invalidates
    NextPage(_, _, _),   \* NextPage(d, p, c): where page p goes after c
    Accepts(_, _, _), \* Accepts(d, c, row): the backend takes the command
    Effect(_, _, _),  \* Effect(d, c, row): the rows it may leave
    Others(_, _),     \* Others(d, row): the rows somebody else may make of it
    Moves(_, _),      \* Moves(d, row): the rows work or time can make of it
    Final(_, _),      \* Final(d, row): nothing is to be done about the row
    Gone(_, _),       \* Gone(d, row): the row is deleted
    Misjudged(_, _, _),  \* Misjudged(d, c, v): c is offered for v and refused
    Lags(_, _),       \* Lags(d, p): page p is not read again after commands
    Budgets(_, _)     \* bounds: commands this tab sends, changes by others,
                      \* reads and commands that fail

VARIABLES
    desk,     \* the desk of this tab
    row,      \* the row as the database has it
    page,     \* the page that is open
    view,     \* view[p]: what the cache holds for page p
    dirty,    \* reads that have been invalidated
    fetch,    \* fetch[p]: the read of page p under way
    call,     \* the command under way
    old,      \* old[p]: who has changed the row since view[p] was read
    excused,  \* pages that lag behind for a reason of the network
    left      \* what is left of the budget

vars == <<desk, row, page, view, dirty, fetch, call, old, excused, left>>

Whose == {"own", "others"}
Quiet == [st |-> "none", got |-> NoView, old |-> {}]
NoCall == [st |-> "none", cmd |-> "none", from |-> "none", saw |-> NoView, old |-> {}]

Init ==
    /\ desk \in Desks
    /\ row \in Starts(desk)
    /\ page \in PagesOf(desk)
    /\ view = [p \in PagesOf(desk) |-> NoView]
    /\ dirty = {}
    /\ fetch = [p \in PagesOf(desk) |-> IF p = page THEN [Quiet EXCEPT !.st = "asked"] ELSE Quiet]
    /\ call = NoCall
    /\ old = [p \in PagesOf(desk) |-> {}]
    /\ excused = {}
    /\ left \in Budgets(desk, row)

-----------------------------------------------------------------------------
(* Reads. *)

\* A read starts anew: one under way is cancelled.
Asked(p) == [fetch EXCEPT ![p] = [Quiet EXCEPT !.st = "asked"]]

\* Page p mounts its query: it reads when the cache holds nothing or was
\* invalidated or is older than staleTime; a read under way is joined.
Mounted(p) ==
    /\ page' = p
    /\ \/ fetch[p].st # "none" /\ UNCHANGED fetch
       \/ fetch[p].st = "none" /\ fetch' = Asked(p)
       \/ /\ fetch[p].st = "none"
          /\ view[p] # NoView
          /\ p \notin dirty
          /\ UNCHANGED fetch

Open(p) ==
    /\ page # p
    /\ Mounted(p)
    /\ UNCHANGED <<desk, row, view, dirty, call, old, excused, left>>

\* The backend answers a read; the answer is on its way.
Answer(p) ==
    /\ fetch[p].st = "asked"
    /\ fetch' = [fetch EXCEPT ![p] = [st |-> "answered", got |-> Sees(desk, p, row), old |-> {}]]
    /\ UNCHANGED <<desk, row, page, view, dirty, call, old, excused, left>>

Arrive(p) ==
    /\ fetch[p].st = "answered"
    /\ view' = [view EXCEPT ![p] = fetch[p].got]
    /\ old' = [old EXCEPT ![p] = fetch[p].old]
    /\ fetch' = [fetch EXCEPT ![p] = Quiet]
    /\ dirty' = dirty \ {p}
    /\ excused' = IF fetch[p].old = {} THEN excused \ {p} ELSE excused
    /\ UNCHANGED <<desk, row, page, call, left>>

\* A failed read shows an error with a button instead of the page.
ReadFails(p) ==
    /\ fetch[p].st # "none"
    /\ left.faults > 0
    /\ left' = [left EXCEPT !.faults = @ - 1]
    /\ view' = [view EXCEPT ![p] = NoView]
    /\ old' = [old EXCEPT ![p] = {}]
    /\ fetch' = [fetch EXCEPT ![p] = Quiet]
    /\ UNCHANGED <<desk, row, page, dirty, call, excused>>

Retry ==
    /\ view[page] = NoView
    /\ fetch[page].st = "none"
    /\ fetch' = Asked(page)
    /\ UNCHANGED <<desk, row, page, view, dirty, call, old, excused, left>>

-----------------------------------------------------------------------------
(* Commands. *)

\* Every copy of the row that "who" has made old by making it "new".
Aged(p, copy, new, who) ==
    IF Sees(desk, p, new) # Sees(desk, p, row) THEN copy \cup {who} ELSE copy

Changed(new, who) ==
    /\ row' = new
    /\ old' = [p \in PagesOf(desk) |->
                 IF view[p] = NoView THEN {} ELSE Aged(p, old[p], new, who)]
    /\ fetch' = [p \in PagesOf(desk) |->
                   IF fetch[p].st = "answered"
                   THEN [fetch[p] EXCEPT !.old = Aged(p, fetch[p].old, new, who)]
                   ELSE fetch[p]]

\* The user uses a control of the open page and fills in its form.
Press(c) ==
    /\ view[page] # NoView
    /\ Offers(desk, page, c, view[page])
    /\ Passes(desk, c, view[page])
    /\ call = NoCall
    /\ left.calls > 0
    /\ left' = [left EXCEPT !.calls = @ - 1]
    /\ call' = [st |-> "sent", cmd |-> c, from |-> page, saw |-> view[page],
                old |-> old[page]]
    /\ UNCHANGED <<desk, row, page, view, dirty, fetch, old, excused>>

\* The backend carries the command out, or refuses it for the row it finds.
Serve ==
    /\ call.st = "sent"
    /\ \/ /\ Accepts(desk, call.cmd, row)
          /\ \E new \in Effect(desk, call.cmd, row) : Changed(new, "own")
          /\ call' = [call EXCEPT !.st = "ok"]
       \/ /\ ~ Accepts(desk, call.cmd, row)
          /\ call' = [call EXCEPT !.st = "refused"]
          /\ UNCHANGED <<row, old, fetch>>
    /\ UNCHANGED <<desk, page, view, dirty, excused, left>>

\* The success handler: invalidate, refetch what is on the screen, go on.
Done ==
    LET stale == Refreshes(desk, call.from, call.cmd)
        to == NextPage(desk, page, call.cmd)
        again == IF page \in stale THEN {page} ELSE {}
    IN
    /\ call.st = "ok"
    /\ call' = NoCall
    /\ dirty' = dirty \cup stale
    /\ page' = to
    /\ fetch' = [p \in PagesOf(desk) |->
                   IF \/ p \in again
                      \/ /\ p = to /\ p # page /\ fetch[p].st = "none"
                         /\ p \in dirty \cup stale \/ view[p] = NoView
                   THEN [Quiet EXCEPT !.st = "asked"]
                   ELSE fetch[p]]
    \* an answer from before the command that comes in later clears the mark
    /\ excused' = excused \cup {p \in stale \ again : "own" \in fetch[p].old}
    /\ UNCHANGED <<desk, row, view, old, left>>

\* The user is told; nothing is read again.
Refused ==
    /\ call.st = "refused"
    /\ call' = NoCall
    /\ UNCHANGED <<desk, row, page, view, dirty, fetch, old, excused, left>>

\* The request or its answer is lost: the user is told that it failed.
Lost ==
    /\ call.st \in {"sent", "ok"}
    /\ left.faults > 0
    /\ left' = [left EXCEPT !.faults = @ - 1]
    /\ call' = NoCall
    /\ excused' = IF call.st = "ok" THEN PagesOf(desk) ELSE excused
    /\ UNCHANGED <<desk, row, page, view, dirty, fetch, old>>

\* Somebody else, another tab or a time-out changes the row.
Elsewhere ==
    /\ left.changes > 0
    /\ left' = [left EXCEPT !.changes = @ - 1]
    /\ \E new \in Others(desk, row) : Changed(new, "others")
    /\ call' = IF call.st = "sent" THEN [call EXCEPT !.old = @ \cup {"others"}] ELSE call
    /\ UNCHANGED <<desk, page, view, dirty, excused>>

Next ==
    \/ \E p \in PagesOf(desk) : Open(p) \/ Answer(p) \/ Arrive(p) \/ ReadFails(p)
    \/ Retry
    \/ \E c \in ControlsOf(desk) : Press(c)
    \/ Serve \/ Done \/ Refused \/ Lost
    \/ Elsewhere

Spec == Init /\ [][Next]_vars

-----------------------------------------------------------------------------
(* Properties. *)

ReadOK(f) ==
    /\ f.st \in {"none", "asked", "answered"}
    /\ f.old \subseteq Whose

TypeOK ==
    /\ desk \in Desks
    /\ page \in PagesOf(desk)
    /\ DOMAIN view = PagesOf(desk)
    /\ dirty \subseteq PagesOf(desk)
    /\ DOMAIN fetch = PagesOf(desk) /\ \A p \in PagesOf(desk) : ReadOK(fetch[p])
    /\ call.st \in {"none", "sent", "ok", "refused"}
    /\ call.cmd \in ControlsOf(desk) \cup {"none"}
    /\ call.from \in PagesOf(desk) \cup {"none"}
    /\ call.old \subseteq Whose
    /\ old \in [PagesOf(desk) -> SUBSET Whose]
    /\ excused \subseteq PagesOf(desk)
    /\ left \in [calls : Nat, changes : Nat, faults : Nat]

\* What a page offers, the backend takes: a command is refused only when the
\* row has changed since the page was read (by others, or by the user's own
\* last command while the page is being read again), or when the form leaves
\* the question to the backend.  The guards of the pages are written a second
\* time in the services; this is where they drift apart, and Misjudged names
\* where they have.
RefusedOnlyByOthers ==
    call.st = "refused" =>
        \/ call.old # {}
        \/ Asks(desk, call.cmd)
        \/ Misjudged(desk, call.cmd, call.saw)

\* After a command has succeeded the user sees its result: a page that is open
\* and not being read shows the row as the user's own work has left it, on
\* whichever page the command was given (onSuccess of every mutation), but for
\* the pages that Lags names.  A deletion leaves nothing to see.
SeesOwnWork ==
    ~ Gone(desk, row) /\ ~ Lags(desk, page)
    /\ call = NoCall /\ fetch[page].st = "none" /\ view[page] # NoView
        => "own" \notin old[page] \/ page \in excused

\* A control that is shown can be used: some input gets past its form.
OffersPassable ==
    view[page] # NoView =>
        \A c \in ControlsOf(desk) :
            Offers(desk, page, c, view[page]) => Passes(desk, c, view[page])

\* Nothing gets stuck: unless the row is done with, someone's pages offer a
\* command that the backend takes and that changes it, or time will.
NoDeadEnd == Final(desk, row) \/ Moves(desk, row) \ {row} # {}
=============================================================================
