------------------------------- MODULE Lists -------------------------------
(***************************************************************************)
(* A list page of one of the web apps: what the user filters, types and    *)
(* pages through, what the page asks the backend for, what it shows and    *)
(* what the address bar says.  The pages differ in where the query lives   *)
(* (ListPages has one record per page):                                    *)
(*   url    "source"   the query is read from the address                  *)
(*          "mirror"   the query is state, read from the address once and  *)
(*                     written back by an effect                           *)
(*          "keyword"  the words come from the address, the rest is state  *)
(*          "none"     the address knows nothing                           *)
(*   text   "submit", "debounce" or "none": when typed words are asked for *)
(*   pager  when the page buttons are there: "always", with a "total",     *)
(*          when there is more than one page ("many"), with "rows"         *)
(*   keeps  old rows stay while new ones are read (placeholderData)        *)
(*   clear  what the reset button clears: "all", the "text", no button     *)
(* A page of rows is one row here.                                         *)
(***************************************************************************)
EXTENDS Naturals

CONSTANTS
    PageShapes,   \* the list pages of this instance
    MaxTotal,     \* bound: rows the backend has; at first all of them or none
    MaxClicks,    \* bound: what the user does
    MaxChanges    \* bound: how often the rows change

Filters == {"first", "other"}
Words == {"", "word"}
Queries == [f : Filters, q : Words, p : 1..MaxTotal]
First == [f |-> "first", q |-> "", p |-> 1]
Nowhere == [f |-> "nowhere", q |-> "", p |-> 1]
NoRows == [of |-> Nowhere, total |-> 0]

VARIABLES
    list,      \* the list page
    link,      \* the address it was opened with
    url,       \* the address bar
    before,    \* the address one step back in the history, if it is this page's
    at,        \* what the page asks for
    words,     \* the words in the search box
    edited,    \* they were edited since the page asked for them
    timer,     \* the debounce timer runs
    due,       \* an effect that follows a change has not run
    detoured,  \* the user came here by another way than the controls of the page
    touched,   \* the user has done something
    chosen,    \* the query for which the user last chose a page
    reading,   \* a read is under way
    rows,      \* the rows on the screen: what they answer, and the total
    total,     \* the rows the backend has
    clicks, changes

vars == <<list, link, url, before, at, words, edited, timer, due, detoured, touched,
          chosen, reading, rows, total, clicks, changes>>

InAddress == list.url \in {"source", "mirror"}

\* What a page can be opened with; bound: its first or its last page.
Links(l) ==
    CASE l.url = "none" -> {First}
      [] l.url = "keyword" -> {[First EXCEPT !.q = w] : w \in Words}
      [] OTHER -> {k \in Queries : /\ k.p \in {1, MaxTotal}
                                   /\ l.filters \/ k.f = "first"
                                   /\ l.text # "none" \/ k.q = ""}

Init ==
    /\ list \in PageShapes
    /\ link \in Links(list)
    /\ url = link
    /\ before = Nowhere
    /\ at = link
    /\ words = link.q
    /\ edited = FALSE
    /\ timer = (list.text = "debounce")
    /\ due = (list.url \in {"mirror", "keyword"})
    /\ detoured = FALSE
    /\ touched = FALSE
    /\ chosen = Nowhere
    /\ reading = TRUE
    /\ rows = NoRows
    /\ total \in {0, MaxTotal}
    /\ clicks = 0
    /\ changes = 0

-----------------------------------------------------------------------------
\* The page asks for k: another key of the query cache is another read.
Asks(k) ==
    /\ at' = k
    /\ IF k = at THEN UNCHANGED <<reading, rows>>
       ELSE reading' = TRUE /\ rows' = IF list.keeps THEN rows ELSE NoRows

\* Mutant: the effect does not follow the query.
SetsSilently(k) ==
    /\ Asks(k)
    /\ IF list.url = "source" THEN url' = k /\ before' = url ELSE UNCHANGED <<url, before>>
    /\ due' = due

\* The user changes the query: push to the address, or set the state.
Sets(k) ==
    /\ Asks(k)
    /\ IF list.url = "source" THEN url' = k /\ before' = url ELSE UNCHANGED <<url, before>>
    /\ due' = (due \/ (list.url = "mirror" /\ k # at))

Click ==
    /\ clicks < MaxClicks
    /\ clicks' = clicks + 1
    /\ touched' = TRUE

\* A tab, a drop-down, a range of dates or prices: back to the first page.
Filter ==
    /\ Click
    /\ list.filters
    /\ \E f \in Filters \ {at.f} : Sets([at EXCEPT !.f = f, !.p = 1])
    /\ UNCHANGED <<list, link, words, edited, timer, detoured, chosen, total, changes>>

Type ==
    /\ Click
    /\ list.text # "none"
    /\ words' \in Words \ {words}
    /\ edited' = TRUE
    /\ timer' = (list.text = "debounce")
    /\ UNCHANGED <<list, link, url, before, at, due, detoured, chosen, reading, rows, total, changes>>

Submit ==
    /\ Click
    /\ list.text = "submit"
    /\ Sets([at EXCEPT !.q = words, !.p = 1])
    /\ edited' = FALSE
    /\ detoured' = FALSE
    /\ UNCHANGED <<list, link, words, timer, chosen, total, changes>>

\* 300 ms after the last change of the box, and after the page was mounted.
Timer ==
    /\ timer
    /\ timer' = FALSE
    /\ Sets([at EXCEPT !.q = words, !.p = 1])
    /\ edited' = FALSE
    /\ UNCHANGED <<list, link, words, detoured, touched, chosen, total, clicks, changes>>

\* The search box of the header, on the page of search results.
Search ==
    /\ Click
    /\ list.url = "keyword"
    /\ \E w \in Words \ {url.q} :
        /\ url' = [First EXCEPT !.q = w]
        /\ Asks([at EXCEPT !.q = w])
    /\ before' = url
    /\ due' = TRUE
    /\ UNCHANGED <<list, link, words, edited, timer, detoured, chosen, total, changes>>

\* The effect: write the address, or start again with the new words.
SyncUrl ==
    /\ due
    /\ due' = FALSE
    /\ detoured' = FALSE
    /\ IF list.url = "mirror" THEN url' = at /\ UNCHANGED <<at, reading, rows>>
       ELSE Asks([First EXCEPT !.q = url.q]) /\ UNCHANGED url
    /\ UNCHANGED <<list, link, before, words, edited, timer, touched, chosen, total,
                   clicks, changes>>

\* The page buttons, as they are rendered.
Pager ==
    /\ rows # NoRows
    /\ CASE list.pager = "always" -> TRUE
         [] list.pager = "total" -> rows.total > 0
         [] list.pager = "many" -> rows.total > 1
         [] OTHER -> rows.of.p <= rows.total
    /\ list.keeps \/ rows.of = at

ChoosePage ==
    /\ Click
    /\ Pager
    /\ \/ at.p > 1 /\ Sets([at EXCEPT !.p = @ - 1])
       \/ at.p < rows.total /\ Sets([at EXCEPT !.p = @ + 1])
    /\ chosen' = [at EXCEPT !.p = 1]
    /\ UNCHANGED <<list, link, words, edited, timer, detoured, total, changes>>

\* The reset button; a debounced box is asked for when its timer ends.
Clear ==
    /\ Click
    /\ list.clear # "none"
    /\ Sets([f |-> IF list.clear = "all" THEN "first" ELSE at.f,
             q |-> IF list.text = "debounce" THEN at.q ELSE "", p |-> 1])
    /\ words' = ""
    /\ edited' = (list.text = "debounce" /\ at.q # "")
    /\ timer' = (timer \/ (list.text = "debounce" /\ words # ""))
    /\ UNCHANGED <<list, link, detoured, chosen, total, changes>>

\* The browser's button: the page is rendered with the address before.
Back ==
    /\ Click
    /\ before # Nowhere
    /\ url' = before
    /\ before' = Nowhere
    /\ Asks(IF list.url = "source" THEN before ELSE [at EXCEPT !.q = before.q])
    /\ due' = (list.url = "keyword")
    /\ chosen' = IF list.url = "source" THEN [before EXCEPT !.p = 1] ELSE chosen
    /\ detoured' = TRUE
    /\ UNCHANGED <<list, link, words, edited, timer, total, changes>>

\* A link to the page itself (side bar, menu): the page is not mounted again,
\* and state that was read from the address stays.
SameLink ==
    /\ Click
    /\ InAddress
    /\ url # First
    /\ url' = First
    /\ detoured' = TRUE
    /\ IF list.url = "source" THEN Asks(First) /\ before' = url
       ELSE UNCHANGED <<at, reading, rows, before>>
    /\ UNCHANGED <<list, link, words, edited, timer, due, chosen, total, changes>>

Arrive ==
    /\ reading
    /\ reading' = FALSE
    /\ rows' = [of |-> at, total |-> total]
    /\ UNCHANGED <<list, link, url, before, at, words, edited, timer, due, detoured, touched,
                   chosen, total, clicks, changes>>

\* Rows come and go; a command of the page, or time, has them read again.
Elsewhere ==
    /\ changes < MaxChanges
    /\ changes' = changes + 1
    /\ total' \in (0..MaxTotal) \ {total}
    /\ reading' = TRUE
    /\ UNCHANGED <<list, link, url, before, at, words, edited, timer, due, detoured, touched,
                   chosen, rows, clicks>>

Next ==
    \/ Filter \/ Type \/ Submit \/ Search \/ ChoosePage \/ Clear \/ Back \/ SameLink
    \/ Timer \/ SyncUrl \/ Arrive \/ Elsewhere

Spec == Init /\ [][Next]_vars

-----------------------------------------------------------------------------
(* Properties. *)

TypeOK ==
    /\ list \in PageShapes
    /\ {link, url, at} \subseteq Queries
    /\ {before, chosen} \subseteq Queries \cup {Nowhere}
    /\ words \in Words
    /\ {edited, timer, due, detoured, touched, reading} \subseteq BOOLEAN
    /\ rows.of \in Queries \cup {Nowhere}
    /\ {rows.total, total} \subseteq 0..MaxTotal

\* Nothing is under way: the page is as the user left it.
Settled == ~ timer /\ ~ due /\ ~ reading

\* A page that has settled says what it shows: the rows are those it asked for,
\* the address bar (which can be copied) and the search box hold that query.
\* It is otherwise only after the history or a link to the page itself has
\* changed the address.
SaysWhatItShows ==
    Settled /\ ~ detoured =>
        /\ rows.of = at
        /\ InAddress => url = at
        /\ list.url = "keyword" => url.q = at.q
        /\ list.text # "none" /\ ~ edited => words = at.q

\* A page number belongs to the query it was chosen for: no filter, word, reset
\* or effect that comes late carries it over to another query.
PageBelongs ==
    Settled /\ at.p > 1 => chosen = [at EXCEPT !.p = 1] \/ at = link

\* A page past the end (its rows have gone) has buttons to come back, but for
\* pagers that go with the rows or with the second page.
NotStranded ==
    Settled /\ rows.total > 0 /\ at.p > rows.total =>
        \/ Pager
        \/ list.pager = "rows"
        \/ list.pager = "many" /\ rows.total = 1

\* A copied link opens the list it shows (applications/page.tsx: status, keyword
\* and page are in the address so that it can be copied and shared).
KeepsLink == Settled /\ ~ touched => at = link
=============================================================================
