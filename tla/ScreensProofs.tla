--------------------------- MODULE ScreensProofs ---------------------------
(***************************************************************************)
(* Proofs about Screens, for any list pages, forms, image lists, SKUs and  *)
(* bounds of the kinds its assumptions name.  The four screens rest while  *)
(* another is shown, so that each has an inductive invariant of its own.   *)
(***************************************************************************)
EXTENDS Screens, FormPages, DataProofs

-----------------------------------------------------------------------------
(* The tab shows one screen. *)

LEMMA ScreenStays ==
  ASSUME [Next]_vars
  PROVE  screen' = screen
  BY DEF Next, vars, ShowsLists, ShowsForms, ShowsUploads, ShowsWizard

LEMMA ListsStep ==
  ASSUME [Next]_vars, screen = "list"
  PROVE  [L!Next]_(L!vars)
  BY DEF Next, vars, listVars, L!vars, L!Next, ShowsLists, ShowsForms, ShowsUploads, ShowsWizard

LEMMA FormsStep ==
  ASSUME [Next]_vars, screen = "form"
  PROVE  [F!Next]_(F!vars)
  BY DEF Next, vars, formVars, F!vars, F!Next, ShowsLists, ShowsForms, ShowsUploads, ShowsWizard

LEMMA UploadsStep ==
  ASSUME [Next]_vars, screen = "images"
  PROVE  [U!Next]_(U!vars)
  BY DEF Next, vars, imageVars, U!vars, U!Next, ShowsLists, ShowsForms, ShowsUploads, ShowsWizard

LEMMA WizardStep ==
  ASSUME [Next]_vars, screen = "wizard"
  PROVE  [W!Next]_(W!vars)
  BY DEF Next, vars, wizardVars, W!vars, W!Next, ShowsLists, ShowsForms, ShowsUploads, ShowsWizard

-----------------------------------------------------------------------------
(* Lists.  The rows on the screen are those asked for unless a read is     *)
(* under way; the address and the box follow but for an effect, a timer or *)
(* words that are still due.                                               *)

Asked == [f : L!Filters, q : L!Words, p : Nat]

\* What the page asks for, once read, is what it shows.
RowsAnswer == ~ reading => rows.of = at

\* The address is behind only while the effect is due, or after a detour.
AddressFollows ==
    /\ due => list.url \in {"mirror", "keyword"}
    /\ before # L!Nowhere => list.url \in {"source", "keyword"}
    /\ list.url = "source" => url = at
    /\ list.url = "mirror" => url = at \/ due \/ detoured
    /\ list.url = "keyword" => url.q = at.q

\* The box is ahead only when it was edited, or behind after a detour.
BoxFollows ==
    list.text # "none" =>
        edited \/ words = at.q \/ (list.url = "source" /\ detoured)

\* A page but the first was chosen for this query, was opened, or is about to
\* be left by the effect of new words.
PageFollows ==
    at.p > 1 =>
        \/ chosen = [at EXCEPT !.p = 1]
        \/ at = link
        \/ list.url = "keyword" /\ due

ListTypes ==
    /\ list \in PageShapes
    /\ at \in Asked
    /\ url \in Asked
    /\ before \in Asked \cup {L!Nowhere}
    /\ words \in L!Words
    /\ total \in Nat /\ rows.total \in Nat
    /\ timer => list.text = "debounce"

ListInv ==
    /\ ListTypes
    /\ RowsAnswer
    /\ AddressFollows
    /\ BoxFollows
    /\ PageFollows

LEMMA QueryFiltered ==
  ASSUME NEW k \in Asked, NEW f \in L!Filters
  PROVE  /\ [k EXCEPT !.f = f, !.p = 1] \in Asked
         /\ [k EXCEPT !.f = f, !.p = 1].q = k.q
         /\ [k EXCEPT !.f = f, !.p = 1].p = 1
  BY DEF Asked

LEMMA QueryWorded ==
  ASSUME NEW k \in Asked, NEW w \in L!Words
  PROVE  /\ [k EXCEPT !.q = w, !.p = 1] \in Asked
         /\ [k EXCEPT !.q = w, !.p = 1].q = w
         /\ [k EXCEPT !.q = w, !.p = 1].p = 1
  BY DEF Asked

LEMMA QueryNamed ==
  ASSUME NEW k \in Asked, NEW w \in L!Words
  PROVE  /\ [k EXCEPT !.q = w] \in Asked
         /\ [k EXCEPT !.q = w].q = w
         /\ [k EXCEPT !.q = w].p = k.p
  BY DEF Asked

LEMMA QueryPaged ==
  ASSUME NEW k \in Asked, NEW n \in Nat
  PROVE  /\ [k EXCEPT !.p = n] \in Asked
         /\ [k EXCEPT !.p = n].q = k.q
         /\ [k EXCEPT !.p = n].p = n
         /\ [[k EXCEPT !.p = n] EXCEPT !.p = 1] = [k EXCEPT !.p = 1]
  BY DEF Asked

LEMMA QueryFirst == L!First \in Asked /\ L!First.q = "" /\ L!First.p = 1
  BY DEF Asked, L!First, L!Filters, L!Words

\* The first page needs no reason.
LEMMA StartsFirst ==
  ASSUME at'.p = 1
  PROVE  PageFollows'
<1>1. ~ (at'.p > 1)
  OBVIOUS
<1> QED  BY <1>1 DEF PageFollows

\* A query that is asked for waits for its rows.
LEMMA AsksRows ==
  ASSUME ListInv, NEW k, L!Asks(k)
  PROVE  /\ at' = k
         /\ RowsAnswer'
         /\ rows'.total \in Nat
<1>1. L!NoRows.total = 0
  BY DEF L!NoRows
<1> QED  BY <1>1 DEF L!Asks, ListInv, ListTypes, RowsAnswer

\* A query that the user sets: the address follows, now or by the effect.
LEMMA SetsFollow ==
  ASSUME ListInv, NEW k \in Asked, L!Sets(k), list' = list,
         list.url = "keyword" => k.q = at.q,
         list.url = "mirror" => detoured' = detoured
  PROVE  /\ at' = k
         /\ RowsAnswer' /\ AddressFollows'
         /\ rows'.total \in Nat
         /\ url' \in Asked /\ before' \in Asked \cup {L!Nowhere}
<1>1. at' = k /\ RowsAnswer' /\ rows'.total \in Nat
  BY AsksRows DEF L!Sets
<1>2. /\ \/ list.url = "source" /\ url' = k /\ before' = url
         \/ list.url # "source" /\ UNCHANGED <<url, before>>
      /\ due' = (due \/ (list.url = "mirror" /\ k # at))
  BY DEF L!Sets
<1>3. url' \in Asked /\ before' \in Asked \cup {L!Nowhere}
  BY <1>2 DEF ListInv, ListTypes
<1>4. /\ due' => due \/ list.url = "mirror"
      /\ due \/ (list.url = "mirror" /\ k # at) => due'
  BY <1>2
<1>5. due' => list'.url \in {"mirror", "keyword"}
  BY <1>4 DEF ListInv, AddressFollows
<1>6. before' # L!Nowhere => list'.url \in {"source", "keyword"}
  BY <1>2 DEF ListInv, AddressFollows
<1>7. list'.url = "source" => url' = at'
  BY <1>1, <1>2
<1>8. list'.url = "mirror" => url' = at' \/ due' \/ detoured'
  <2>1. CASE k = at
    BY <1>1, <1>2, <1>4, <2>1 DEF ListInv, AddressFollows
  <2>2. CASE k # at
    BY <1>4, <2>2
  <2> QED  BY <2>1, <2>2
<1>9. list'.url = "keyword" => url'.q = at'.q
  BY <1>1, <1>2 DEF ListInv, AddressFollows
<1>10. AddressFollows'
  BY <1>5, <1>6, <1>7, <1>8, <1>9 DEF AddressFollows
<1> QED  BY <1>1, <1>3, <1>10

LEMMA ListInit ==
  ASSUME L!Init
  PROVE  ListInv
<1>1. /\ list \in PageShapes /\ link \in L!Links(list)
      /\ url = link /\ before = L!Nowhere /\ at = link /\ words = link.q
      /\ timer = (list.text = "debounce")
      /\ edited = FALSE /\ due = (list.url \in {"mirror", "keyword"})
      /\ reading = TRUE /\ rows = L!NoRows /\ total \in {0, MaxTotal}
  BY DEF L!Init
<1>2. link \in Asked
  <2>1. CASE list.url = "none"
    BY <1>1, <2>1, QueryFirst DEF L!Links
  <2>2. CASE list.url = "keyword"
    <3>1. PICK w \in L!Words : link = [L!First EXCEPT !.q = w]
      BY <1>1, <2>2 DEF L!Links
    <3> QED  BY <3>1, QueryFirst, QueryNamed
  <2>3. CASE list.url \notin {"none", "keyword"}
    <3>1. link \in L!Queries
      BY <1>1, <2>3 DEF L!Links
    <3> QED  BY <3>1, ListsAssumption DEF L!Queries, Asked
  <2> QED  BY <2>1, <2>2, <2>3
<1>3. ListTypes
  <2>1. words \in L!Words
    BY <1>1, <1>2 DEF Asked
  <2>2. total \in Nat /\ rows.total \in Nat
    BY <1>1, ListsAssumption DEF L!NoRows
  <2>3. timer => list.text = "debounce"
    BY <1>1
  <2> QED  BY <1>1, <1>2, <2>1, <2>2, <2>3 DEF ListTypes
<1>4. RowsAnswer /\ AddressFollows /\ BoxFollows /\ PageFollows
  BY <1>1 DEF RowsAnswer, AddressFollows, BoxFollows, PageFollows
<1> QED  BY <1>3, <1>4 DEF ListInv

\* The filters, the words and the reset start at the first page.
LEMMA FilterInv ==
  ASSUME ListInv, L!Filter
  PROVE  ListInv'
<1>1. PICK f \in L!Filters : L!Sets([at EXCEPT !.f = f, !.p = 1])
  BY DEF L!Filter
<1>2. PICK k : k = [at EXCEPT !.f = f, !.p = 1]
  OBVIOUS
<1>3. k \in Asked /\ k.q = at.q /\ k.p = 1
  BY <1>2, QueryFiltered DEF ListInv, ListTypes
<1>4. L!Sets(k) /\ UNCHANGED <<list, link, words, edited, timer, detoured, chosen, total>>
  BY <1>1, <1>2 DEF L!Filter
<1>5. /\ at' = k /\ RowsAnswer' /\ AddressFollows' /\ rows'.total \in Nat
      /\ url' \in Asked /\ before' \in Asked \cup {L!Nowhere}
  BY <1>3, <1>4, SetsFollow
<1>6. BoxFollows' /\ PageFollows'
  BY <1>3, <1>4, <1>5 DEF ListInv, BoxFollows, PageFollows
<1> QED  BY <1>3, <1>4, <1>5, <1>6 DEF ListInv, ListTypes

\* Typed words are asked for by the button or when the timer ends.
LEMMA WordsInv ==
  ASSUME ListInv, L!Submit \/ L!Timer
  PROVE  ListInv'
<1>1. PICK k : k = [at EXCEPT !.q = words, !.p = 1]
  OBVIOUS
<1>2. k \in Asked /\ k.q = words /\ k.p = 1
  BY <1>1, QueryWorded DEF ListInv, ListTypes
<1>3. /\ L!Sets(k) /\ UNCHANGED <<list, link, words, chosen, total>>
      /\ \/ list.text = "submit" /\ timer' = timer
         \/ list.text = "debounce" /\ detoured' = detoured /\ timer' = FALSE
      /\ edited' = FALSE
  BY <1>1 DEF L!Submit, L!Timer, ListInv, ListTypes
<1>4. list.url # "keyword" /\ (list.url = "mirror" => detoured' = detoured)
  BY <1>3, ListsAssumption DEF ListInv, ListTypes
<1>5. /\ at' = k /\ RowsAnswer' /\ AddressFollows' /\ rows'.total \in Nat
      /\ url' \in Asked /\ before' \in Asked \cup {L!Nowhere}
  BY <1>2, <1>3, <1>4, SetsFollow
<1>6. BoxFollows' /\ PageFollows'
  BY <1>2, <1>3, <1>5 DEF BoxFollows, PageFollows
<1> QED  BY <1>2, <1>3, <1>5, <1>6 DEF ListInv, ListTypes

LEMMA ClearInv ==
  ASSUME ListInv, L!Clear
  PROVE  ListInv'
<1> DEFINE f == IF list.clear = "all" THEN "first" ELSE at.f
           q == IF list.text = "debounce" THEN at.q ELSE ""
<1>1. PICK k : k = [f |-> f, q |-> q, p |-> 1]
  OBVIOUS
<1>2. f \in L!Filters /\ q \in L!Words
  BY DEF ListInv, ListTypes, Asked, L!Filters, L!Words
<1>3. /\ k \in Asked /\ k.p = 1
      /\ k.q = IF list.text = "debounce" THEN at.q ELSE ""
  BY <1>1, <1>2 DEF Asked
<1>4. /\ L!Sets(k) /\ UNCHANGED <<list, link, detoured, chosen, total>>
      /\ words' = "" /\ edited' = (list.text = "debounce" /\ at.q # "")
      /\ timer' = (timer \/ (list.text = "debounce" /\ words # ""))
      /\ list.clear # "none"
  BY <1>1 DEF L!Clear
<1>5. list.url # "keyword"
  BY <1>4, ListsAssumption DEF ListInv, ListTypes
<1>6. /\ at' = k /\ RowsAnswer' /\ AddressFollows' /\ rows'.total \in Nat
      /\ url' \in Asked /\ before' \in Asked \cup {L!Nowhere}
  BY <1>3, <1>4, <1>5, SetsFollow
<1>7. BoxFollows' /\ PageFollows'
  <2>1. CASE list.text = "debounce" /\ at.q # ""
    <3>1. edited'
      BY <1>4, <2>1
    <3>2. BoxFollows'
      BY <3>1 DEF BoxFollows
    <3>3. PageFollows'
      BY <1>3, <1>6, StartsFirst
    <3> QED  BY <3>2, <3>3
  <2>2. CASE ~ (list.text = "debounce" /\ at.q # "")
    <3>1. words' = at'.q
      BY <1>3, <1>4, <1>6, <2>2
    <3>2. BoxFollows'
      BY <3>1 DEF BoxFollows
    <3>3. PageFollows'
      BY <1>3, <1>6, StartsFirst
    <3> QED  BY <3>2, <3>3
  <2> QED  BY <2>1, <2>2
<1>8. words' \in L!Words
  BY <1>4 DEF L!Words
<1>9. timer' => list.text = "debounce"
  BY <1>4 DEF ListInv, ListTypes
<1> QED  BY <1>3, <1>4, <1>6, <1>7, <1>8, <1>9 DEF ListInv, ListTypes

\* A page is chosen for the query that is asked for.
LEMMA ChooseInv ==
  ASSUME ListInv, L!ChoosePage
  PROVE  ListInv'
<1>1. PICK n \in Nat : L!Sets([at EXCEPT !.p = n])
  <2>1. at.p \in Nat
    BY DEF ListInv, ListTypes, Asked
  <2>2. \/ at.p > 1 /\ L!Sets([at EXCEPT !.p = at.p - 1])
        \/ L!Sets([at EXCEPT !.p = at.p + 1])
    BY DEF L!ChoosePage
  <2>3. CASE at.p > 1 /\ L!Sets([at EXCEPT !.p = at.p - 1])
    <3>1. at.p - 1 \in Nat
      BY <2>1, <2>3
    <3> QED  BY <2>3, <3>1
  <2>4. CASE L!Sets([at EXCEPT !.p = at.p + 1])
    <3>1. at.p + 1 \in Nat
      BY <2>1
    <3> QED  BY <2>4, <3>1
  <2> QED  BY <2>2, <2>3, <2>4
<1>2. PICK k : k = [at EXCEPT !.p = n]
  OBVIOUS
<1>3. k \in Asked /\ k.q = at.q /\ [k EXCEPT !.p = 1] = [at EXCEPT !.p = 1]
  BY <1>2, QueryPaged DEF ListInv, ListTypes
<1>4. /\ L!Sets(k) /\ UNCHANGED <<list, link, words, edited, timer, detoured, total>>
      /\ chosen' = [k EXCEPT !.p = 1]
  BY <1>1, <1>2, <1>3 DEF L!ChoosePage
<1>5. /\ at' = k /\ RowsAnswer' /\ AddressFollows' /\ rows'.total \in Nat
      /\ url' \in Asked /\ before' \in Asked \cup {L!Nowhere}
  BY <1>3, <1>4, SetsFollow
<1>6. BoxFollows' /\ PageFollows'
  BY <1>3, <1>4, <1>5 DEF ListInv, BoxFollows, PageFollows
<1> QED  BY <1>3, <1>4, <1>5, <1>6 DEF ListInv, ListTypes

\* New words in the header: the page goes on asking for its page of them until
\* the effect has run.
LEMMA SearchInv ==
  ASSUME ListInv, L!Search
  PROVE  ListInv'
<1>1. PICK w \in L!Words : url' = [L!First EXCEPT !.q = w] /\ L!Asks([at EXCEPT !.q = w])
  BY DEF L!Search
<1>2. PICK k : k = [at EXCEPT !.q = w]
  OBVIOUS
<1>3. k \in Asked /\ k.q = w /\ url' \in Asked /\ url'.q = w
  BY <1>1, <1>2, QueryNamed, QueryFirst DEF ListInv, ListTypes
<1>4. /\ list.url = "keyword" /\ before' = url /\ due' = TRUE
      /\ UNCHANGED <<list, link, words, edited, timer, detoured, chosen, total>>
  BY DEF L!Search
<1>5. at' = k /\ RowsAnswer' /\ rows'.total \in Nat
  BY <1>1, <1>2, AsksRows
<1>6. list.text = "none"
  BY <1>4, ListsAssumption DEF ListInv, ListTypes
<1>7. AddressFollows' /\ BoxFollows' /\ PageFollows'
  BY <1>3, <1>4, <1>5, <1>6 DEF AddressFollows, BoxFollows, PageFollows
<1> QED  BY <1>3, <1>4, <1>5, <1>7 DEF ListInv, ListTypes

\* The effect writes the address, or starts again with the words of the address.
LEMMA SyncInv ==
  ASSUME ListInv, L!SyncUrl
  PROVE  ListInv'
<1>1. /\ list.url \in {"mirror", "keyword"} /\ due' = FALSE /\ detoured' = FALSE
      /\ UNCHANGED <<list, link, before, words, edited, timer, chosen, total>>
  BY DEF L!SyncUrl, ListInv, AddressFollows
<1>2. CASE list.url = "mirror"
  <2>1. url' = at /\ UNCHANGED <<at, reading, rows>>
    BY <1>2 DEF L!SyncUrl
  <2> QED
    BY <1>1, <1>2, <2>1 DEF ListInv, ListTypes, RowsAnswer, AddressFollows, BoxFollows, PageFollows
<1>3. CASE list.url = "keyword"
  <2>1. PICK k : k = [L!First EXCEPT !.q = url.q]
    OBVIOUS
  <2>2. url.q \in L!Words
    BY DEF ListInv, ListTypes, Asked
  <2>3. k \in Asked /\ k.q = url.q /\ k.p = 1
    BY <2>1, <2>2, QueryNamed, QueryFirst
  <2>4. L!Asks(k) /\ url' = url
    BY <1>3, <2>1 DEF L!SyncUrl
  <2>5. at' = k /\ RowsAnswer' /\ rows'.total \in Nat
    BY <2>4, AsksRows
  <2>6. list.text = "none"
    BY <1>3, ListsAssumption DEF ListInv, ListTypes
  <2>7. AddressFollows' /\ BoxFollows' /\ PageFollows'
    BY <1>1, <1>3, <2>3, <2>4, <2>5, <2>6 DEF ListInv, AddressFollows, BoxFollows, PageFollows
  <2> QED  BY <1>1, <2>3, <2>4, <2>5, <2>7 DEF ListInv, ListTypes
<1> QED  BY <1>1, <1>2, <1>3

\* The page is rendered with the address before it.
LEMMA BackInv ==
  ASSUME ListInv, L!Back
  PROVE  ListInv'
<1>1. /\ before \in Asked /\ list.url \in {"source", "keyword"}
      /\ url' = before /\ before' = L!Nowhere /\ due' = (list.url = "keyword")
      /\ detoured' = TRUE
      /\ UNCHANGED <<list, link, words, edited, timer, total>>
  BY DEF L!Back, ListInv, ListTypes, AddressFollows
<1>2. CASE list.url = "source"
  <2>1. L!Asks(before) /\ chosen' = [before EXCEPT !.p = 1]
    BY <1>2 DEF L!Back
  <2>2. at' = before /\ RowsAnswer' /\ rows'.total \in Nat
    BY <2>1, AsksRows
  <2>3. AddressFollows' /\ BoxFollows' /\ PageFollows'
    BY <1>1, <1>2, <2>1, <2>2 DEF AddressFollows, BoxFollows, PageFollows
  <2> QED  BY <1>1, <2>2, <2>3 DEF ListInv, ListTypes
<1>3. CASE list.url = "keyword"
  <2>1. PICK k : k = [at EXCEPT !.q = before.q]
    OBVIOUS
  <2>2. before.q \in L!Words
    BY <1>1 DEF Asked
  <2>3. k \in Asked /\ k.q = before.q
    BY <2>1, <2>2, QueryNamed DEF ListInv, ListTypes
  <2>4. L!Asks(k)
    BY <1>3, <2>1 DEF L!Back
  <2>5. at' = k /\ RowsAnswer' /\ rows'.total \in Nat
    BY <2>4, AsksRows
  <2>6. list.text = "none"
    BY <1>3, ListsAssumption DEF ListInv, ListTypes
  <2>7. AddressFollows' /\ BoxFollows' /\ PageFollows'
    BY <1>1, <1>3, <2>3, <2>5, <2>6 DEF AddressFollows, BoxFollows, PageFollows
  <2> QED  BY <1>1, <2>3, <2>5, <2>7 DEF ListInv, ListTypes
<1> QED  BY <1>1, <1>2, <1>3

LEMMA SameLinkInv ==
  ASSUME ListInv, L!SameLink
  PROVE  ListInv'
<1>1. /\ list.url \in {"source", "mirror"} /\ url' = L!First /\ detoured' = TRUE
      /\ UNCHANGED <<list, link, words, edited, timer, due, chosen, total>>
  BY DEF L!SameLink, L!InAddress
<1>2. CASE list.url = "source"
  <2>1. L!Asks(L!First) /\ before' = url
    BY <1>2 DEF L!SameLink
  <2>2. at' = L!First /\ RowsAnswer' /\ rows'.total \in Nat
    BY <2>1, AsksRows
  <2>3. AddressFollows'
    BY <1>1, <1>2, <2>1, <2>2 DEF ListInv, AddressFollows
  <2>4. BoxFollows'
    BY <1>1, <1>2 DEF BoxFollows
  <2>5. PageFollows'
    BY <2>2, QueryFirst, StartsFirst
  <2> QED  BY <1>1, <2>1, <2>2, <2>3, <2>4, <2>5, QueryFirst DEF ListInv, ListTypes
<1>3. CASE list.url = "mirror"
  <2>1. UNCHANGED <<at, reading, rows, before>>
    BY <1>3 DEF L!SameLink
  <2> QED
    BY <1>1, <1>3, <2>1, QueryFirst
    DEF ListInv, ListTypes, RowsAnswer, AddressFollows, BoxFollows, PageFollows
<1> QED  BY <1>1, <1>2, <1>3

\* Typing, the answer of a read, and rows that come and go.
LEMMA RestInv ==
  ASSUME ListInv, L!Type \/ L!Arrive \/ L!Elsewhere
  PROVE  ListInv'
<1>1. CASE L!Type
  <2>1. /\ words' \in L!Words /\ edited' = TRUE /\ timer' = (list.text = "debounce")
        /\ UNCHANGED <<list, link, url, before, at, due, detoured, chosen, reading, rows, total>>
    BY <1>1 DEF L!Type
  <2> QED
    BY <2>1 DEF ListInv, ListTypes, RowsAnswer, AddressFollows, BoxFollows, PageFollows
<1>2. CASE L!Arrive
  <2>1. /\ rows'.of = at /\ rows'.total = total
        /\ UNCHANGED <<list, link, url, before, at, words, edited, timer, due, detoured,
                       chosen, total>>
    BY <1>2 DEF L!Arrive
  <2> QED
    BY <2>1 DEF ListInv, ListTypes, RowsAnswer, AddressFollows, BoxFollows, PageFollows
<1>3. CASE L!Elsewhere
  <2>1. /\ total' \in Nat /\ reading' = TRUE
        /\ UNCHANGED <<list, link, url, before, at, words, edited, timer, due, detoured,
                       chosen, rows>>
    BY <1>3, ListsAssumption DEF L!Elsewhere
  <2> QED
    BY <2>1 DEF ListInv, ListTypes, RowsAnswer, AddressFollows, BoxFollows, PageFollows
<1> QED  BY <1>1, <1>2, <1>3

LEMMA ListNext ==
  ASSUME ListInv, [L!Next]_(L!vars)
  PROVE  ListInv'
<1>1. CASE UNCHANGED L!vars
  BY <1>1 DEF L!vars, ListInv, ListTypes, RowsAnswer, AddressFollows, BoxFollows, PageFollows
<1>2. CASE L!Next
  BY <1>2, FilterInv, WordsInv, ClearInv, ChooseInv, SearchInv, SyncInv, BackInv, SameLinkInv,
     RestInv DEF L!Next
<1> QED  BY <1>1, <1>2

LEMMA ListSays ==
  ASSUME ListInv
  PROVE  L!SaysWhatItShows /\ L!PageBelongs /\ L!NotStranded
<1>1. L!SaysWhatItShows
  BY DEF L!SaysWhatItShows, L!Settled, L!InAddress, ListInv, RowsAnswer, AddressFollows, BoxFollows
<1>2. L!PageBelongs
  BY DEF L!PageBelongs, L!Settled, ListInv, PageFollows
<1>3. L!NotStranded
  <2> SUFFICES ASSUME ~ reading, rows.total > 0, at.p > rows.total
               PROVE  \/ L!Pager
                      \/ list.pager = "rows"
                      \/ list.pager = "many" /\ rows.total = 1
    BY DEF L!NotStranded, L!Settled
  <2>1. rows.of = at /\ rows.total \in Nat
    BY DEF ListInv, ListTypes, RowsAnswer
  <2>2. rows # L!NoRows
    BY <2>1 DEF L!NoRows
  <2>3. list.pager \in {"always", "total", "many", "rows"}
    BY ListsAssumption DEF ListInv, ListTypes
  <2> QED  BY <2>1, <2>2, <2>3 DEF L!Pager
<1> QED  BY <1>1, <1>2, <1>3

-----------------------------------------------------------------------------
(* Forms.  A request carries the text of its row because a form of a     *)
(* list is reset for the row it is opened for (BoxOfRow).                  *)

CallRecord(c) == c = [opening |-> c.opening, row |-> c.row, text |-> c.text,
                      origin |-> c.origin, putBack |-> c.putBack, typed |-> c.typed,
                      st |-> c.st]

FormTypes ==
    /\ form \in AllForms
    /\ about \in F!Rows(form) \cup {0}
    /\ origin \in F!Rows(form) \cup {0}
    /\ \A c \in calls : CallRecord(c)
    /\ putBack \in BOOLEAN /\ (putBack => form.reverts)
    /\ \A u \in uploads : form.reverts /\ u.origin \in F!Rows(form) \cup {0}

\* What is in the box belongs to the row of the last reset, unless an upload has
\* put it back, and a form that is reset is reset for the row it is open for.
BoxOfRow ==
    form.opens # "kept" => (origin = lastKey \/ putBack) /\ about \in {0, lastKey}

\* An opening has one request at most.
OnePerOpening ==
    \A c, d \in calls : c.opening = d.opening => c = d

\* A form that cannot be left while busy is open while its request is under way.
OpenWhileBusy ==
    ~ form.leaves => \A c \in calls : about # 0 /\ c.opening = opening

FormInv == FormTypes /\ BoxOfRow /\ F!OwnRow /\ OnePerOpening /\ OpenWhileBusy

-----------------------------------------------------------------------------
LEMMA FormInit ==
  ASSUME F!Init
  PROVE  FormInv
  BY DEF F!Init, FormInv, FormTypes, BoxOfRow, F!OwnRow, OnePerOpening, OpenWhileBusy

LEMMA FormOpenInv ==
  ASSUME FormInv, NEW r \in F!Rows(form), F!Open(r)
  PROVE  FormInv'
<1>1. about = 0 /\ about' = r /\ opening' = opening + 1 /\ UNCHANGED <<form, calls, uploads>>
  BY DEF F!Open
<1>2. \/ origin' = r /\ putBack' = FALSE /\ lastKey' = r
      \/ /\ form.opens = "kept" \/ (form.opens = "lastKey" /\ lastKey = r)
         /\ UNCHANGED <<origin, putBack, lastKey>>
  BY DEF F!Open
<1>3. FormTypes' /\ BoxOfRow'
  <2>1. CASE origin' = r /\ putBack' = FALSE /\ lastKey' = r
    BY <1>1, <2>1 DEF FormInv, FormTypes, BoxOfRow, F!Rows, CallRecord
  <2>2. CASE /\ form.opens = "kept" \/ (form.opens = "lastKey" /\ lastKey = r)
             /\ UNCHANGED <<origin, putBack, lastKey>>
    <3>1. FormTypes'
      BY <1>1, <2>2 DEF FormInv, FormTypes, F!Rows, CallRecord
    <3>2. BoxOfRow'
      BY <1>1, <2>2 DEF FormInv, BoxOfRow
    <3> QED  BY <3>1, <3>2
  <2> QED  BY <1>2, <2>1, <2>2
<1>4. F!OwnRow' /\ OnePerOpening' /\ OpenWhileBusy'
  BY <1>1 DEF FormInv, F!OwnRow, OnePerOpening, OpenWhileBusy
<1> QED  BY <1>3, <1>4 DEF FormInv

LEMMA FormTypeInv ==
  ASSUME FormInv, F!Type
  PROVE  FormInv'
<1>1. /\ about # 0 /\ origin' = about /\ putBack' = FALSE
      /\ UNCHANGED <<form, about, uploads, lastKey, opening, calls>>
  BY DEF F!Type
<1> QED
  BY <1>1 DEF FormInv, FormTypes, BoxOfRow, F!OwnRow, OnePerOpening, OpenWhileBusy, F!Rows,
     CallRecord

LEMMA FormChooseInv ==
  ASSUME FormInv, F!ChooseImage
  PROVE  FormInv'
<1>1. PICK u : u.origin = origin /\ uploads' = uploads \cup {u}
  <2>1. PICK u : u = [text |-> box, origin |-> origin]
    OBVIOUS
  <2> QED  BY <2>1 DEF F!ChooseImage
<1>2. form.reverts /\ UNCHANGED <<form, about, origin, putBack, lastKey, opening, calls>>
  BY DEF F!ChooseImage
<1>3. FormTypes' /\ BoxOfRow'
  BY <1>1, <1>2 DEF FormInv, FormTypes, BoxOfRow, F!Rows, CallRecord
<1>4. F!OwnRow' /\ OnePerOpening' /\ OpenWhileBusy'
  BY <1>2 DEF FormInv, F!OwnRow, OnePerOpening, OpenWhileBusy
<1> QED  BY <1>3, <1>4 DEF FormInv

\* The end of an upload marks the box as put back.
LEMMA FormUploadInv ==
  ASSUME FormInv, NEW u \in uploads, F!UploadEnds(u)
  PROVE  FormInv'
<1>1. /\ uploads' = uploads \ {u}
      /\ \/ origin' = u.origin /\ putBack' = TRUE
         \/ UNCHANGED <<origin, putBack>>
      /\ UNCHANGED <<form, about, lastKey, opening, calls>>
  BY DEF F!UploadEnds
<1>2. FormTypes' /\ BoxOfRow'
  BY <1>1 DEF FormInv, FormTypes, BoxOfRow, F!Rows, CallRecord
<1>3. F!OwnRow' /\ OnePerOpening' /\ OpenWhileBusy'
  BY <1>1 DEF FormInv, F!OwnRow, OnePerOpening, OpenWhileBusy
<1> QED  BY <1>2, <1>3 DEF FormInv

LEMMA FormCloseInv ==
  ASSUME FormInv, F!Close
  PROVE  FormInv'
<1>1. /\ about' = 0
      /\ form.leaves \/ ~ F!Busy
      /\ UNCHANGED <<form, origin, putBack, uploads, lastKey, opening, calls>>
  BY DEF F!Close
<1>2. form.leaves \/ calls = {}
  BY <1>1 DEF F!Busy, FormInv, OpenWhileBusy
<1>3. FormTypes' /\ BoxOfRow'
  BY <1>1 DEF FormInv, FormTypes, BoxOfRow, F!Rows, CallRecord
<1>4. F!OwnRow' /\ OnePerOpening' /\ OpenWhileBusy'
  BY <1>1, <1>2 DEF FormInv, F!OwnRow, OnePerOpening, OpenWhileBusy
<1> QED  BY <1>3, <1>4 DEF FormInv

LEMMA FormSubmitInv ==
  ASSUME FormInv, F!Submit
  PROVE  FormInv'
<1>1. PICK c : /\ c.opening = opening /\ c.row = about /\ c.origin = origin
               /\ c.putBack = putBack /\ CallRecord(c)
               /\ calls' = calls \cup {c}
  <2>1. PICK c : c = [opening |-> opening, row |-> about, text |-> F!Sent(box),
                      origin |-> origin, putBack |-> putBack, typed |-> box, st |-> "sent"]
    OBVIOUS
  <2> QED  BY <2>1 DEF F!Submit, CallRecord
<1>2. /\ about # 0 /\ ~ F!Busy
      /\ UNCHANGED <<form, about, origin, putBack, uploads, lastKey, opening>>
  BY DEF F!Submit
<1>3. origin \in {about, 0} \/ (form.reverts /\ putBack)
  <2>1. CASE form.opens = "kept"
    BY <1>2, <2>1, FormsAssumption DEF FormInv, FormTypes, F!Rows
  <2>2. CASE form.opens # "kept"
    BY <1>2, <2>2 DEF FormInv, FormTypes, BoxOfRow
  <2> QED  BY <2>1, <2>2
<1>4. FormTypes' /\ BoxOfRow' /\ F!OwnRow'
  BY <1>1, <1>2, <1>3 DEF FormInv, FormTypes, BoxOfRow, F!OwnRow, F!Rows, CallRecord
<1>5. OnePerOpening' /\ OpenWhileBusy'
  BY <1>1, <1>2 DEF FormInv, OnePerOpening, OpenWhileBusy, F!Busy
<1> QED  BY <1>4, <1>5 DEF FormInv

LEMMA FormServeInv ==
  ASSUME FormInv, NEW c \in calls, F!Serve(c)
  PROVE  FormInv'
<1>1. PICK d : /\ d.opening = c.opening /\ d.row = c.row /\ d.origin = c.origin
               /\ d.putBack = c.putBack /\ CallRecord(d)
               /\ calls' = (calls \ {c}) \cup {d}
  <2>1. PICK st : calls' = (calls \ {c}) \cup {[c EXCEPT !.st = st]}
    BY DEF F!Serve
  <2>2. CallRecord(c)
    BY DEF FormInv, FormTypes
  <2>3. PICK d : d = [c EXCEPT !.st = st]
    OBVIOUS
  <2>4. /\ d.opening = c.opening /\ d.row = c.row /\ d.origin = c.origin
        /\ d.putBack = c.putBack /\ CallRecord(d)
    BY <2>2, <2>3 DEF CallRecord
  <2> QED  BY <2>1, <2>3, <2>4
<1>2. UNCHANGED <<form, about, origin, putBack, uploads, lastKey, opening>>
  BY DEF F!Serve
<1>3. FormTypes' /\ BoxOfRow' /\ F!OwnRow'
  BY <1>1, <1>2 DEF FormInv, FormTypes, BoxOfRow, F!OwnRow, F!Rows, CallRecord
<1>4. OnePerOpening' /\ OpenWhileBusy'
  BY <1>1, <1>2 DEF FormInv, OnePerOpening, OpenWhileBusy
<1> QED  BY <1>3, <1>4 DEF FormInv

\* The end of a request; the answer closes the form.
LEMMA FormEndInv ==
  ASSUME FormInv, NEW c \in calls, F!Done(c) \/ F!Failed(c)
  PROVE  FormInv'
<1>1. /\ calls' = calls \ {c} /\ about' \in {0, about}
      /\ about' = about \/ F!Done(c)
      /\ UNCHANGED <<form, origin, putBack, uploads, lastKey, opening>>
  BY DEF F!Done, F!Failed
<1>2. ~ form.leaves => calls' = {}
  BY <1>1 DEF FormInv, OnePerOpening, OpenWhileBusy
<1>3. FormTypes' /\ BoxOfRow'
  BY <1>1 DEF FormInv, FormTypes, BoxOfRow, F!Rows, CallRecord
<1>4. F!OwnRow' /\ OnePerOpening' /\ OpenWhileBusy'
  BY <1>1, <1>2 DEF FormInv, F!OwnRow, OnePerOpening, OpenWhileBusy
<1> QED  BY <1>3, <1>4 DEF FormInv

LEMMA FormElsewhereInv ==
  ASSUME FormInv, NEW r \in F!Rows(form), F!Elsewhere(r)
  PROVE  FormInv'
<1>1. /\ UNCHANGED <<origin, putBack>> \/ (about = r /\ origin' = r /\ putBack' = FALSE)
      /\ UNCHANGED <<form, about, uploads, lastKey, opening, calls>>
  BY DEF F!Elsewhere, F!Follow
<1>2. 0 \notin F!Rows(form)
  BY DEF F!Rows
<1>3. FormTypes' /\ BoxOfRow'
  <2>1. CASE UNCHANGED <<origin, putBack>>
    <3>1. FormTypes'
      BY <1>1, <2>1 DEF FormInv, FormTypes, F!Rows, CallRecord
    <3>2. BoxOfRow'
      BY <1>1, <2>1 DEF FormInv, BoxOfRow
    <3> QED  BY <3>1, <3>2
  <2>2. CASE about = r /\ origin' = r /\ putBack' = FALSE
    BY <1>1, <1>2, <2>2 DEF FormInv, FormTypes, BoxOfRow, F!Rows, CallRecord
  <2> QED  BY <1>1, <2>1, <2>2
<1>4. F!OwnRow' /\ OnePerOpening' /\ OpenWhileBusy'
  BY <1>1 DEF FormInv, F!OwnRow, OnePerOpening, OpenWhileBusy
<1> QED  BY <1>3, <1>4 DEF FormInv

LEMMA FormNext ==
  ASSUME FormInv, [F!Next]_(F!vars)
  PROVE  FormInv'
<1>1. CASE UNCHANGED F!vars
  BY <1>1 DEF F!vars, FormInv, FormTypes, BoxOfRow, F!OwnRow, OnePerOpening, OpenWhileBusy,
     F!Rows, CallRecord
<1>2. CASE F!Next
  BY <1>2, FormOpenInv, FormTypeInv, FormChooseInv, FormUploadInv, FormCloseInv, FormSubmitInv, FormServeInv, FormEndInv,
     FormElsewhereInv DEF F!Next
<1> QED  BY <1>1, <1>2

LEMMA TypingStaysStep ==
  ASSUME FormInv, F!Next
  PROVE  F!TypingStays
<1> SUFFICES ASSUME ~ form.leaves, ~ form.follows, about # 0,
                    calls' # calls \/ stored' # stored \/ uploads' # uploads
             PROVE  \/ UNCHANGED <<about, box>>
                    \/ \E c \in calls \ calls' : c.opening = opening
                    \/ /\ form.reverts /\ about' = about
                       /\ \E u \in uploads \ uploads' : box' = u.text
  BY DEF F!TypingStays
<1>1. CASE \E r \in F!Rows(form) : F!Open(r)
  BY <1>1 DEF F!Open
<1>2. CASE \E r \in F!Rows(form) : F!Elsewhere(r)
  BY <1>2 DEF F!Elsewhere, F!Follow
<1>3. CASE F!Type \/ F!Close
  BY <1>3 DEF F!Type, F!Close
<1>4. CASE F!Submit
  BY <1>4 DEF F!Submit
<1>5. CASE \E c \in calls : F!Serve(c) \/ F!Failed(c)
  BY <1>5 DEF F!Serve, F!Failed
<1>6. CASE \E c \in calls : F!Done(c)
  BY <1>6 DEF F!Done, FormInv, OpenWhileBusy
<1>7. CASE F!ChooseImage
  BY <1>7 DEF F!ChooseImage
<1>8. CASE \E u \in uploads : F!UploadEnds(u)
  BY <1>8 DEF F!UploadEnds, FormInv, FormTypes
<1> QED  BY <1>1, <1>2, <1>3, <1>4, <1>5, <1>6, <1>7, <1>8 DEF F!Next

-----------------------------------------------------------------------------
(* What is stored is what was typed, blanks around it aside. *)

IsText(t) == t \in [len : Nat, pad : Nat, by : Nat]

TypedInv ==
    /\ field \in form.fields
    /\ shape.len \in Nat /\ shape.pad \in Nat
    /\ DOMAIN stored = F!Rows(form)
    /\ \A r \in F!Rows(form) : IsText(stored[r])
    /\ IsText(box)
    /\ typed \in Nat
    /\ \A u \in uploads : IsText(u.text)
    /\ \A c \in calls : /\ c.row \in F!Rows(form)
                        /\ IsText(c.text)
                        /\ c.text.len = c.typed.len /\ c.text.by = c.typed.by

LEMMA FieldLimits ==
  ASSUME form \in AllForms, field \in form.fields
  PROVE  field.min \in Nat /\ field.max \in Nat /\ field.smin \in Nat /\ field.smax \in Nat
  BY FormsAssumption

LEMMA TextOK ==
  ASSUME NEW len \in Nat, NEW pad \in Nat, NEW n \in Nat
  PROVE  /\ IsText(F!Text(len, pad, n))
         /\ F!Text(len, pad, n).len = len /\ F!Text(len, pad, n).by = n
  BY DEF IsText, F!Text

LEMMA SentOK ==
  ASSUME NEW t, IsText(t)
  PROVE  IsText(F!Sent(t)) /\ F!Sent(t).len = t.len /\ F!Sent(t).by = t.by
  BY DEF IsText, F!Sent

LEMMA StartOK ==
  ASSUME TypedInv, NEW r \in F!Rows(form)
  PROVE  IsText(F!Start(r))
<1>1. IsText(F!Blank)
  BY TextOK DEF F!Blank
<1> QED  BY <1>1 DEF TypedInv, F!Start

LEMMA TypedInit ==
  ASSUME F!Init
  PROVE  TypedInv
<1>1. form \in AllForms /\ field \in form.fields
  BY DEF F!Init
<1>2. IsText(F!Blank) /\ IsText(F!Old(field))
  BY <1>1, FieldLimits, TextOK DEF F!Blank, F!Old
<1>3. shape.len \in Nat /\ shape.pad \in Nat
  <2>1. shape.len \in F!Lengths(field) /\ shape.pad \in {0, 2, field.min}
    BY DEF F!Init, F!Shapes
  <2> QED  BY <1>1, <2>1, FieldLimits DEF F!Lengths
<1> QED  BY <1>1, <1>2, <1>3 DEF F!Init, TypedInv

LEMMA TypedNext ==
  ASSUME FormInv, TypedInv, [F!Next]_(F!vars)
  PROVE  TypedInv'
<1>1. form \in AllForms /\ field \in form.fields
  BY DEF FormInv, FormTypes, TypedInv
<1>2. CASE \E r \in F!Rows(form) : F!Open(r)
  <2>1. PICK r \in F!Rows(form) : F!Open(r)
    BY <1>2
  <2>2. /\ box' \in {box, F!Start(r)}
        /\ UNCHANGED <<form, field, shape, stored, uploads, calls, typed>>
    BY <2>1 DEF F!Open
  <2>3. IsText(box')
    BY <2>2, StartOK DEF TypedInv
  <2> QED  BY <2>2, <2>3 DEF TypedInv, F!Rows
<1>3. CASE \E r \in F!Rows(form) : F!Elsewhere(r)
  <2>1. PICK r \in F!Rows(form) : F!Elsewhere(r)
    BY <1>3
  <2>2. PICK t : t = F!Text(field.smax, 0, 0)
    OBVIOUS
  <2>3. IsText(t)
    BY <1>1, <2>2, FieldLimits, TextOK
  <2>4. /\ stored' = [stored EXCEPT ![r] = t]
        /\ UNCHANGED <<form, field, shape, uploads, calls, typed>>
        /\ box' = box \/ box' = stored'[r]
    BY <2>1, <2>2 DEF F!Elsewhere, F!Follow
  <2>5. /\ DOMAIN stored' = F!Rows(form)
        /\ \A q \in F!Rows(form) : IsText(stored'[q])
    BY <2>3, <2>4 DEF TypedInv
  <2> QED  BY <2>4, <2>5 DEF TypedInv, F!Rows
<1>4. CASE F!Type
  <2>1. IsText(F!Text(shape.len, shape.pad, typed + 1))
    BY TextOK DEF TypedInv
  <2> QED  BY <1>4, <2>1 DEF F!Type, TypedInv, F!Rows
<1>5. CASE F!Close
  BY <1>5 DEF F!Close, TypedInv, F!Rows
<1>6. CASE F!Submit
  <2>1. PICK c : /\ c.row = about /\ c.text = F!Sent(box) /\ c.typed = box
                 /\ calls' = calls \cup {c}
    <3>1. PICK c : c = [opening |-> opening, row |-> about, text |-> F!Sent(box),
                        origin |-> origin, putBack |-> putBack, typed |-> box, st |-> "sent"]
      OBVIOUS
    <3> QED  BY <1>6, <3>1 DEF F!Submit
  <2>2. about \in F!Rows(form) /\ UNCHANGED <<form, field, shape, stored, box, uploads, typed>>
    BY <1>6 DEF F!Submit, FormInv, FormTypes
  <2>3. IsText(c.text) /\ c.text.len = c.typed.len /\ c.text.by = c.typed.by
    BY <2>1, SentOK DEF TypedInv
  <2> QED  BY <2>1, <2>2, <2>3 DEF TypedInv, F!Rows
<1>7. CASE \E c \in calls : F!Serve(c)
  <2>1. PICK c \in calls : F!Serve(c)
    BY <1>7
  <2>2. PICK d : /\ d.row = c.row /\ d.text = c.text /\ d.typed = c.typed
                 /\ calls' = (calls \ {c}) \cup {d}
    <3>1. PICK st : calls' = (calls \ {c}) \cup {[c EXCEPT !.st = st]}
      BY <2>1 DEF F!Serve
    <3>2. CallRecord(c)
      BY DEF FormInv, FormTypes
    <3>3. PICK d : d = [c EXCEPT !.st = st]
      OBVIOUS
    <3>4. d.row = c.row /\ d.text = c.text /\ d.typed = c.typed
      BY <3>2, <3>3 DEF CallRecord
    <3> QED  BY <3>1, <3>3, <3>4
  <2>3. \/ stored' = stored
        \/ stored' = [stored EXCEPT ![c.row] = F!Stored(c)]
    BY <2>1 DEF F!Serve
  <2>4. IsText(F!Stored(c))
    <3>1. IsText(F!Blank)
      BY TextOK DEF F!Blank
    <3>2. IsText(c.text) /\ IsText(stored[c.row])
      BY DEF TypedInv
    <3> QED  BY <3>1, <3>2 DEF F!Stored
  <2>5. UNCHANGED <<form, field, shape, box, uploads, typed>>
    BY <2>1 DEF F!Serve
  <2>6. /\ DOMAIN stored' = F!Rows(form)
        /\ \A q \in F!Rows(form) : IsText(stored'[q])
    BY <2>3, <2>4 DEF TypedInv
  <2> QED  BY <2>2, <2>5, <2>6 DEF TypedInv, F!Rows
<1>8. CASE \E c \in calls : F!Done(c) \/ F!Failed(c)
  BY <1>8 DEF F!Done, F!Failed, TypedInv, F!Rows
<1>9. CASE UNCHANGED F!vars
  BY <1>9 DEF F!vars, TypedInv, F!Rows
<1>10. CASE F!ChooseImage
  <2>1. PICK u : u.text = box /\ uploads' = uploads \cup {u}
    <3>1. PICK u : u = [text |-> box, origin |-> origin]
      OBVIOUS
    <3> QED  BY <1>10, <3>1 DEF F!ChooseImage
  <2>2. UNCHANGED <<form, field, shape, stored, box, calls, typed>>
    BY <1>10 DEF F!ChooseImage
  <2> QED  BY <2>1, <2>2 DEF TypedInv, F!Rows
<1>11. CASE \E u \in uploads : F!UploadEnds(u)
  BY <1>11 DEF F!UploadEnds, TypedInv, F!Rows
<1> QED
  BY <1>2, <1>3, <1>4, <1>5, <1>6, <1>7, <1>8, <1>9, <1>10, <1>11 DEF F!Next

\* A request is answered with ok by Serve alone, which stores its text.
LEMMA SavesStep ==
  ASSUME FormInv, TypedInv, [F!Next]_(F!vars)
  PROVE  F!TypedIsSaved
<1> SUFFICES ASSUME NEW c \in calls, c.st = "sent", [c EXCEPT !.st = "ok"] \in calls'
             PROVE  \/ /\ stored'[c.row].len = c.typed.len
                       /\ stored'[c.row].len > 0 => stored'[c.row].by = c.typed.by
                    \/ /\ field.keeps = "blank" /\ form.edits
                       /\ c.text.len + c.text.pad = 0
  BY DEF F!TypedIsSaved, F!SavedNow
<1>1. PICK d : d = [c EXCEPT !.st = "ok"]
  OBVIOUS
<1>2. CallRecord(c)
  BY DEF FormInv, FormTypes
<1>3. d.st = "ok" /\ d.opening = c.opening /\ d # c
  BY <1>1, <1>2 DEF CallRecord
<1>4. d \notin calls
  BY <1>3 DEF FormInv, OnePerOpening
<1>5. d \in calls'
  BY <1>1
<1>6. PICK e \in calls : F!Serve(e)
  <2>1. CASE F!Submit
    <3>1. PICK n : n.st = "sent" /\ calls' = calls \cup {n}
      <4>1. PICK n : n = [opening |-> opening, row |-> about, text |-> F!Sent(box),
                          origin |-> origin, putBack |-> putBack, typed |-> box, st |-> "sent"]
        OBVIOUS
      <4> QED  BY <2>1, <4>1 DEF F!Submit
    <3> QED  BY <1>3, <1>4, <1>5, <3>1
  <2>2. CASE UNCHANGED calls
    BY <1>4, <1>5, <2>2
  <2>3. CASE \E n \in calls : F!Done(n) \/ F!Failed(n)
    BY <1>4, <1>5, <2>3 DEF F!Done, F!Failed
  <2>4. UNCHANGED calls \/ F!Submit \/ \E n \in calls : F!Serve(n) \/ F!Done(n) \/ F!Failed(n)
    BY DEF F!Next, F!vars, F!Open, F!Elsewhere, F!Type, F!Close, F!ChooseImage, F!UploadEnds
  <2> QED  BY <2>1, <2>2, <2>3, <2>4
<1>7. PICK st : /\ calls' = (calls \ {e}) \cup {[e EXCEPT !.st = st]}
                /\ st = "ok" => stored' = [stored EXCEPT ![e.row] = F!Stored(e)]
  <2>1. \/ /\ calls' = (calls \ {e}) \cup {[e EXCEPT !.st = "ok"]}
           /\ stored' = [stored EXCEPT ![e.row] = F!Stored(e)]
        \/ calls' = (calls \ {e}) \cup {[e EXCEPT !.st = "refused"]}
    BY <1>6 DEF F!Serve
  <2>2. "refused" # "ok"
    OBVIOUS
  <2> QED  BY <2>1, <2>2
<1>8. PICK n : n = [e EXCEPT !.st = st]
  OBVIOUS
<1>9. d = n
  BY <1>4, <1>5, <1>7, <1>8
<1>10. n.st = st /\ n.opening = e.opening
  <2>1. CallRecord(e)
    BY <1>6 DEF FormInv, FormTypes
  <2> QED  BY <1>8, <2>1 DEF CallRecord
<1>11. e = c
  BY <1>3, <1>6, <1>9, <1>10 DEF FormInv, OnePerOpening
<1>12. stored'[c.row] = F!Stored(c)
  BY <1>3, <1>7, <1>9, <1>10, <1>11 DEF TypedInv
<1>13. /\ IsText(c.text)
       /\ c.text.len = c.typed.len /\ c.text.by = c.typed.by
  BY DEF TypedInv
<1>14. CASE ~ F!LeavesRow(c.text)
  BY <1>12, <1>13, <1>14 DEF F!Stored
<1>15. CASE F!LeavesRow(c.text)
  <2>1. c.text.len = 0 /\ c.text.len + c.text.pad = 0 /\ field.keeps = "blank"
    BY <1>13, <1>15 DEF F!LeavesRow, IsText
  <2>2. F!Blank.len = 0
    BY DEF F!Blank, F!Text
  <2> QED  BY <1>12, <1>13, <1>15, <2>1, <2>2 DEF F!Stored
<1> QED  BY <1>14, <1>15

-----------------------------------------------------------------------------
(* What a form lets pass the schema takes.  The text that is checked and   *)
(* the text that is sent differ by the blanks around them, so that limits  *)
(* on the one side say nothing by themselves about the other.              *)

\* As long as the input lets it be typed, or as the backend lets it be stored.
Within(x, t) == t.len + t.pad <= x.cap \/ t.len + t.pad <= x.smax

\* A text of field x that the form lets pass, and what is sent of it.
Submits(x, t) == Within(x, t) /\ F!Size(t, x.of) \in x.min..x.max
Carries(x, t) == IF x.sends = "raw" THEN t.len + t.pad ELSE t.len
TakesSize(x, n) == (x.keeps = "blank" /\ n = 0) \/ n \in x.smin..x.smax

\* The limits of field x agree: no text comes between them.
Covered(x) == \A t : IsText(t) /\ Submits(x, t) => TakesSize(x, Carries(x, t))
LimitsAgree == \A f \in AllForms : \A x \in f.fields : x \in Lax \/ Covered(x)

FitInv ==
    /\ Within(field, shape)
    /\ Within(field, box)
    /\ \A u \in uploads : Within(field, u.text)
    /\ \A r \in F!Rows(form) : Within(field, stored[r])
    /\ \A c \in calls : /\ c.st = "sent" => field \in Lax \/ F!SchemaTakes(c.text)
                        /\ c.st = "refused" => field \in Lax

LEMMA BlankWithin ==
  ASSUME form \in AllForms, field \in form.fields
  PROVE  Within(field, F!Blank) /\ Within(field, F!Old(field)) /\ Within(field, F!Text(field.smax, 0, 0))
<1>1. /\ field.smin \in Nat /\ field.smax \in Nat /\ field.smin <= field.smax
  BY FormsAssumption
<1> QED  BY <1>1 DEF Within, F!Blank, F!Old, F!Text

LEMMA FitInit ==
  ASSUME F!Init
  PROVE  FitInv
<1>1. /\ form \in AllForms /\ field \in form.fields
      /\ calls = {} /\ uploads = {}
      /\ box = F!Blank
  BY DEF F!Init
<1>2. Within(field, shape)
  BY DEF F!Init, F!Shapes, Within
<1>3. \A r \in F!Rows(form) : stored[r] \in {F!Blank, F!Old(field)}
  BY DEF F!Init
<1> QED  BY <1>1, <1>2, <1>3, BlankWithin DEF FitInv

\* What is sent, the schema takes.
LEMMA SentFits ==
  ASSUME LimitsAgree, FormInv, TypedInv, FitInv, F!Submit, field \notin Lax
  PROVE  F!SchemaTakes(F!Sent(box))
<1>1. form \in AllForms /\ field \in form.fields /\ IsText(box)
  BY DEF FormInv, FormTypes, TypedInv
<1>2. Covered(field)
  BY <1>1 DEF LimitsAgree
<1>3. Submits(field, box)
  BY DEF F!Submit, F!Passes, Submits, FitInv
<1>4. TakesSize(field, Carries(field, box))
  BY <1>1, <1>2, <1>3 DEF Covered
<1>5. F!Sent(box).len + F!Sent(box).pad = Carries(field, box)
  BY <1>1 DEF IsText, F!Sent, Carries
<1> QED  BY <1>4, <1>5 DEF TakesSize, F!SchemaTakes, F!LeavesRow

LEMMA FitNext ==
  ASSUME LimitsAgree, FormInv, TypedInv, FitInv, [F!Next]_(F!vars)
  PROVE  FitInv'
<1>1. form \in AllForms /\ field \in form.fields /\ UNCHANGED <<form, field, shape>>
  BY DEF FormInv, FormTypes, TypedInv, F!Next, F!vars, F!Open, F!Elsewhere, F!Type, F!Close,
     F!ChooseImage, F!UploadEnds, F!Submit, F!Serve, F!Done, F!Failed
<1>2. CASE \E r \in F!Rows(form) : F!Open(r)
  <2>1. PICK r \in F!Rows(form) : F!Open(r)
    BY <1>2
  <2>2. box' \in {box, F!Start(r)} /\ UNCHANGED <<stored, uploads, calls>>
    BY <2>1 DEF F!Open
  <2>3. Within(field, F!Start(r))
    BY <1>1, BlankWithin DEF F!Start, FitInv
  <2> QED  BY <1>1, <2>2, <2>3 DEF FitInv, F!Rows, Within, F!SchemaTakes, F!LeavesRow
<1>3. CASE \E r \in F!Rows(form) : F!Elsewhere(r)
  <2>1. PICK r \in F!Rows(form) : F!Elsewhere(r)
    BY <1>3
  <2>2. PICK t : t = F!Text(field.smax, 0, 0)
    OBVIOUS
  <2>3. /\ stored' = [stored EXCEPT ![r] = t] /\ UNCHANGED <<uploads, calls>>
        /\ box' = box \/ box' = stored'[r]
    BY <2>1, <2>2 DEF F!Elsewhere, F!Follow
  <2>4. \A q \in F!Rows(form) : Within(field, stored'[q])
    BY <1>1, <2>2, <2>3, BlankWithin DEF FitInv, TypedInv
  <2> QED  BY <1>1, <2>1, <2>3, <2>4 DEF FitInv, F!Rows, Within, F!SchemaTakes, F!LeavesRow
<1>4. CASE F!Type
  <2>1. box' = F!Text(shape.len, shape.pad, typed + 1) /\ UNCHANGED <<stored, uploads, calls>>
    BY <1>4 DEF F!Type
  <2>2. Within(field, box')
    BY <2>1 DEF FitInv, Within, F!Text
  <2> QED  BY <1>1, <2>1, <2>2 DEF FitInv, F!Rows, Within, F!SchemaTakes, F!LeavesRow
<1>5. CASE F!Submit
  <2>1. PICK c : c.text = F!Sent(box) /\ c.st = "sent" /\ calls' = calls \cup {c}
    <3>1. PICK c : c = [opening |-> opening, row |-> about, text |-> F!Sent(box),
                        origin |-> origin, putBack |-> putBack, typed |-> box, st |-> "sent"]
      OBVIOUS
    <3> QED  BY <1>5, <3>1 DEF F!Submit
  <2>2. UNCHANGED <<stored, box, uploads>>
    BY <1>5 DEF F!Submit
  <2>3. field \in Lax \/ F!SchemaTakes(c.text)
    BY <1>5, <2>1, SentFits
  <2> QED  BY <1>1, <2>1, <2>2, <2>3 DEF FitInv, F!Rows, Within, F!SchemaTakes, F!LeavesRow
<1>6. CASE \E c \in calls : F!Serve(c)
  <2>1. PICK c \in calls : F!Serve(c)
    BY <1>6
  <2>2. c.st = "sent" /\ UNCHANGED <<box, uploads>> /\ CallRecord(c)
    BY <2>1 DEF F!Serve, FormInv, FormTypes
  <2>3. PICK st : /\ calls' = (calls \ {c}) \cup {[c EXCEPT !.st = st]}
                  /\ \/ /\ st = "ok" /\ F!SchemaTakes(c.text)
                        /\ stored' = [stored EXCEPT ![c.row] = F!Stored(c)]
                     \/ st = "refused" /\ ~ F!SchemaTakes(c.text) /\ stored' = stored
    <3>1. CASE F!SchemaTakes(c.text)
      BY <2>1, <3>1 DEF F!Serve
    <3>2. CASE ~ F!SchemaTakes(c.text)
      BY <2>1, <3>2 DEF F!Serve
    <3> QED  BY <3>1, <3>2
  <2>4. PICK d : d.st = st /\ d.text = c.text /\ calls' = (calls \ {c}) \cup {d}
    <3>1. PICK d : d = [c EXCEPT !.st = st]
      OBVIOUS
    <3>2. d.st = st /\ d.text = c.text
      BY <2>2, <3>1 DEF CallRecord
    <3> QED  BY <2>3, <3>1, <3>2
  <2>5. d.st # "sent" /\ (d.st = "refused" => field \in Lax)
    <3>1. CASE st = "ok"
      BY <2>4, <3>1
    <3>2. CASE st = "refused" /\ ~ F!SchemaTakes(c.text)
      BY <2>2, <2>4, <3>2 DEF FitInv
    <3> QED  BY <2>3, <3>1, <3>2
  <2>6. F!SchemaTakes(c.text) => Within(field, F!Stored(c))
    <3>1. c.row \in F!Rows(form) /\ IsText(c.text)
      BY DEF TypedInv
    <3>2. Within(field, stored[c.row])
      BY <3>1 DEF FitInv
    <3>3. field.smax \in Nat
      BY <1>1, FormsAssumption
    <3>4. F!SchemaTakes(c.text) /\ ~ F!LeavesRow(c.text) => Within(field, c.text)
      BY <3>1, <3>3 DEF F!SchemaTakes, Within, IsText
    <3> QED  BY <1>1, <3>2, <3>4, BlankWithin DEF F!Stored
  <2>7. \A q \in F!Rows(form) : Within(field, stored'[q])
    BY <2>3, <2>6 DEF FitInv, TypedInv
  <2> QED  BY <1>1, <2>2, <2>4, <2>5, <2>7 DEF FitInv, F!Rows, Within, F!SchemaTakes, F!LeavesRow
<1>7. CASE F!Close \/ \E c \in calls : F!Done(c) \/ F!Failed(c)
  <2>1. calls' \subseteq calls /\ UNCHANGED <<stored, box, uploads>>
    BY <1>7 DEF F!Close, F!Done, F!Failed
  <2> QED  BY <1>1, <2>1 DEF FitInv, F!Rows, Within, F!SchemaTakes, F!LeavesRow
<1>8. CASE UNCHANGED F!vars
  BY <1>8 DEF F!vars, FitInv, F!Rows, Within, F!SchemaTakes, F!LeavesRow
<1>9. CASE F!ChooseImage
  <2>1. PICK u : u.text = box /\ uploads' = uploads \cup {u}
    <3>1. PICK u : u = [text |-> box, origin |-> origin]
      OBVIOUS
    <3> QED  BY <1>9, <3>1 DEF F!ChooseImage
  <2>2. UNCHANGED <<stored, box, calls>>
    BY <1>9 DEF F!ChooseImage
  <2> QED  BY <1>1, <2>1, <2>2 DEF FitInv, F!Rows, Within, F!SchemaTakes, F!LeavesRow
<1>10. CASE \E u \in uploads : F!UploadEnds(u)
  <2>1. PICK u \in uploads : F!UploadEnds(u)
    BY <1>10
  <2>2. /\ uploads' = uploads \ {u} /\ box' \in {box, u.text}
        /\ UNCHANGED <<stored, calls>>
    BY <2>1 DEF F!UploadEnds
  <2>3. Within(field, u.text)
    BY DEF FitInv
  <2> QED  BY <1>1, <2>2, <2>3 DEF FitInv, F!Rows, Within, F!SchemaTakes, F!LeavesRow
<1> QED  BY <1>2, <1>3, <1>4, <1>5, <1>6, <1>7, <1>8, <1>9, <1>10 DEF F!Next

-----------------------------------------------------------------------------
(* The limits of the apps' fields agree.  A field whose checked and sent   *)
(* text are the same needs its limits inside those of the schema; one that *)
(* is sent trimmed needs a schema without a lower limit, whatever blanks   *)
(* were counted; one whose blanks are sent but not counted needs an input  *)
(* that stops in time.                                                     *)

Agrees(x) ==
    /\ {x.min, x.max, x.smin, x.smax, x.cap} \subseteq Nat
    /\ x.max <= x.smax
    /\ x.of \in {"trimmed", "raw"} /\ x.sends \in {"trimmed", "raw"}
    /\ \/ x.of = x.sends /\ x.smin <= x.min
       \/ x.sends = "trimmed" /\ x.smin = 0
       \/ x.sends = "raw" /\ x.smin <= x.min /\ x.cap <= x.smax

LEMMA AgreesCovers ==
  ASSUME NEW x, Agrees(x)
  PROVE  Covered(x)
<1> SUFFICES ASSUME NEW t, IsText(t), Submits(x, t)
             PROVE  Carries(x, t) \in x.smin..x.smax
  BY DEF Covered, TakesSize
<1>1. t.len \in Nat /\ t.pad \in Nat
  BY DEF IsText
<1>2. CASE x.of = "raw" /\ x.sends = "raw"
  BY <1>1, <1>2 DEF Submits, Carries, Agrees, F!Size
<1>3. CASE x.of = "trimmed" /\ x.sends = "raw"
  BY <1>1, <1>3 DEF Submits, Within, Carries, Agrees, F!Size
<1>4. CASE x.of = "raw" /\ x.sends = "trimmed"
  BY <1>1, <1>4 DEF Submits, Carries, Agrees, F!Size
<1>5. CASE x.of = "trimmed" /\ x.sends = "trimmed"
  BY <1>1, <1>5 DEF Submits, Carries, Agrees, F!Size
<1> QED  BY <1>2, <1>3, <1>4, <1>5 DEF Agrees

LEMMA FieldAgrees ==
  ASSUME NEW min \in Nat, NEW max \in Nat, NEW smin \in Nat, NEW smax \in Nat,
         smin <= min, max <= smax
  PROVE  /\ Agrees(Field(min, max, smin, smax))
         /\ Agrees(Capped(Field(min, max, smin, smax)))
  BY DEF Agrees, Field, Capped

LEMMA PlainAgrees ==
  ASSUME NEW min \in Nat, NEW max \in Nat, NEW smin \in Nat, NEW smax \in Nat,
         smin <= min, max <= smax
  PROVE  Agrees(Plain(min, max, smin, smax))
  BY DEF Agrees, Field, Untrimmed, Plain

\* The fields whose blank text leaves the row as it is.
LEMMA KeepingAgrees == Agrees(Subtitle) /\ Agrees(Description) /\ Agrees(BrandDescription)
<1>1. Agrees(Subtitle)
  BY DEF Agrees, Field, Untrimmed, Plain, Subtitle
<1>2. Agrees(Description)
  BY DEF Agrees, Field, Untrimmed, Plain, Description
<1>3. Agrees(BrandDescription)
  BY DEF Agrees, Field, Capped, BrandDescription
<1> QED  BY <1>1, <1>2, <1>3

LEMMA HomepageAgrees ==
  /\ Agrees([Plain(0, 500, 0, 2000) EXCEPT !.keeps = "blank"])
  /\ Agrees([Plain(0, 1000, 0, 2000) EXCEPT !.keeps = "blank"])
<1>1. Agrees([Plain(0, 500, 0, 2000) EXCEPT !.keeps = "blank"])
  BY DEF Agrees, Field, Untrimmed, Plain
<1>2. Agrees([Plain(0, 1000, 0, 2000) EXCEPT !.keeps = "blank"])
  BY DEF Agrees, Field, Untrimmed, Plain
<1> QED  BY <1>1, <1>2

LEMMA UntrimmedAgrees ==
  ASSUME NEW min \in Nat, NEW max \in Nat, NEW smax \in Nat, max <= smax
  PROVE  /\ Agrees(Untrimmed(min, max, 0, smax))
         /\ Agrees(Capped(Untrimmed(min, max, 0, smax)))
  BY DEF Agrees, Field, Untrimmed, Capped

LEMMA OptionalAgrees ==
  ASSUME NEW max \in Nat, NEW smax \in Nat, max <= smax
  PROVE  /\ Agrees(Optional(max, smax))
         /\ Agrees(Capped(Optional(max, smax)))
  BY DEF Agrees, Field, Untrimmed, Optional, Capped

\* The fields of the apps that are not lax, one kind after the other.
LEMMA FieldLimitsAgree ==
  /\ Agrees(Field(1, 60, 1, 60))
  /\ Agrees(Field(1, 120, 1, 120))
  /\ Agrees(Field(5, 500, 5, 500))
  /\ Agrees(Field(8, 40, 4, 60))
  BY FieldAgrees

LEMMA CappedLimitsAgree ==
  /\ Agrees(Capped(Field(0, 200, 0, 500)))
  /\ Agrees(Capped(Field(1, 60, 1, 60)))
  /\ Agrees(Capped(Field(1, 80, 1, 80)))
  /\ Agrees(Capped(Field(2, 60, 1, 60)))
  /\ Agrees(Capped(Field(2, 80, 1, 80)))
  /\ Agrees(Capped(Field(2, 200, 1, 200)))
  /\ Agrees(Capped(Field(5, 200, 0, 500)))
  /\ Agrees(Capped(Field(5, 500, 0, 500)))
  /\ Agrees(Capped(Field(5, 500, 0, 1000)))
  /\ Agrees(Capped(Field(5, 500, 5, 500)))
  /\ Agrees(Capped(Field(5, 2000, 5, 2000)))
  /\ Agrees(Capped(Field(10, 200, 0, 400)))
  /\ Agrees(Capped(Field(10, 500, 0, 500)))
  /\ Agrees(Capped(Field(10, 500, 1, 500)))
  /\ Agrees(Capped(Field(10, 500, 10, 500)))
  /\ Agrees(Capped(Field(20, 500, 20, 500)))
  /\ Agrees(Capped(Field(20, 1000, 20, 1000)))
  BY FieldAgrees

LEMMA PlainLimitsAgree ==
  /\ Agrees(Plain(1, 64, 1, 64))
  /\ Agrees(Plain(1, 200, 1, 200))
  /\ Agrees(Plain(2, 60, 1, 60))
  /\ Agrees(Plain(6, 6, 6, 6))
  /\ Agrees(Plain(8, 64, 1, 64))
  /\ Agrees(Plain(8, 64, 8, 64))
  BY PlainAgrees

LEMMA RawLimitsAgree ==
  /\ Agrees([Capped(Field(6, 30, 4, 60)) EXCEPT !.sends = "raw"])
  /\ Agrees([Capped(Field(6, 30, 6, 30)) EXCEPT !.sends = "raw"])
<1>1. Agrees([Capped(Field(6, 30, 4, 60)) EXCEPT !.sends = "raw"])
  BY DEF Agrees, Field, Capped
<1>2. Agrees([Capped(Field(6, 30, 6, 30)) EXCEPT !.sends = "raw"])
  BY DEF Agrees, Field, Capped
<1> QED  BY <1>1, <1>2

LEMMA TrimmedLimitsAgree ==
  /\ Agrees(Untrimmed(0, 200, 0, 1000))
  /\ Agrees(Capped(Untrimmed(0, 10, 0, 10)))
  /\ Agrees(Optional(60, 60))
  /\ Agrees(Optional(500, 2000))
  /\ Agrees(Capped(Optional(200, 200)))
  /\ Agrees(Capped(Optional(200, 500)))
  /\ Agrees(Capped(Optional(500, 500)))
  BY UntrimmedAgrees, OptionalAgrees

Agreeing(f) == \A x \in f.fields : x \in LaxFields \/ Agrees(x)

\* However a form opens and ends, its fields are those it was made of.
LEMMA FormFields ==
  ASSUME NEW fields
  PROVE  /\ Form(fields).fields = fields
         /\ Leavable(Form(fields)).fields = fields
         /\ OfList(Form(fields)).fields = fields
         /\ Editing(Form(fields)).fields = fields
         /\ Leavable(OfList(Form(fields))).fields = fields
         /\ Leavable(Editing(Form(fields))).fields = fields
         /\ OfList(Editing(Form(fields))).fields = fields
         /\ Following(Editing(Form(fields))).fields = fields
         /\ Leavable(OfList(Editing(Form(fields)))).fields = fields
         /\ Following(OfList(Editing(Form(fields)))).fields = fields
         /\ [Form(fields) EXCEPT !.opens = "kept"].fields = fields
         /\ [Reverting(OfList(Editing(Form(fields)))) EXCEPT !.opens = "lastKey"].fields
              = fields
  BY DEF Form, Leavable, OfList, Editing, Following, Reverting

LEMMA UserFormsAgree ==
  ASSUME NEW f \in UserForms
  PROVE  Agreeing(f)
<1>1. Agreeing(LoginPage)
  BY FormFields, FieldLimitsAgree, PlainLimitsAgree DEF Agreeing, LoginPage
<1>2. Agreeing(RegisterPage)
  BY FormFields, PlainLimitsAgree, TrimmedLimitsAgree DEF Agreeing, RegisterPage, Password
<1>3. Agreeing(ForgotPasswordPage)
  BY FormFields, FieldLimitsAgree DEF Agreeing, ForgotPasswordPage
<1>4. Agreeing(ResetPasswordPage)
  BY FormFields, PlainLimitsAgree DEF Agreeing, ResetPasswordPage, Password
<1>5. Agreeing(EditNicknameModal)
  BY FormFields DEF Agreeing, EditNicknameModal, LaxFields
<1>6. Agreeing(ChangePasswordModal)
  BY FormFields, PlainLimitsAgree DEF Agreeing, ChangePasswordModal, Password
<1>7. Agreeing(AddressFormModal)
  BY FormFields, TrimmedLimitsAgree DEF Agreeing, AddressFormModal, PostalCode, LaxFields
<1>8. Agreeing(SubmitApplication)
  BY FormFields, TrimmedLimitsAgree DEF Agreeing, SubmitApplication, LaxFields
<1>9. Agreeing(EditReviewModal)
  BY FormFields, CappedLimitsAgree DEF Agreeing, EditReviewModal, ReviewContent
<1>10. Agreeing(WriteReview)
  BY FormFields, CappedLimitsAgree DEF Agreeing, WriteReview, ReviewContent
<1>11. Agreeing(ReportReviewModal)
  BY FormFields, TrimmedLimitsAgree DEF Agreeing, ReportReviewModal
<1>12. Agreeing(ApplyForm)
  BY FormFields, CappedLimitsAgree DEF Agreeing, ApplyForm
<1>13. Agreeing(AppealModal)
  BY FormFields, CappedLimitsAgree DEF Agreeing, AppealModal
<1>14. Agreeing(AddEvidenceModal)
  BY FormFields, TrimmedLimitsAgree DEF Agreeing, AddEvidenceModal
<1>15. Agreeing(ReturnTrackingForm)
  BY FormFields, FieldLimitsAgree DEF Agreeing, ReturnTrackingForm
<1>16. Agreeing(CheckoutNote)
  BY FormFields, TrimmedLimitsAgree DEF Agreeing, CheckoutNote
<1> QED
  BY <1>1, <1>2, <1>3, <1>4, <1>5, <1>6, <1>7, <1>8, <1>9, <1>10, <1>11, <1>12, <1>13, <1>14,
     <1>15, <1>16 DEF UserForms

LEMMA MerchantFormsAgree ==
  ASSUME NEW f \in MerchantForms
  PROVE  Agreeing(f)
<1>1. Agreeing(MerchantLogin)
  BY FormFields, PlainLimitsAgree DEF Agreeing, MerchantLogin
<1>2. Agreeing(MerchantChangePassword)
  BY FormFields, PlainLimitsAgree DEF Agreeing, MerchantChangePassword, Password
<1>3. Agreeing(ShipOrderModal)
  BY FormFields, RawLimitsAgree DEF Agreeing, ShipOrderModal
<1>4. Agreeing(CancelOrderModal)
  BY FormFields, CappedLimitsAgree DEF Agreeing, CancelOrderModal
<1>5. Agreeing(MerchantNoteEditor)
  BY FormFields DEF Agreeing, MerchantNoteEditor, LaxFields
<1>6. Agreeing(AftersalesNoteEditor)
  BY FormFields DEF Agreeing, AftersalesNoteEditor, LaxFields
<1>7. Agreeing(ApproveModal)
  BY FormFields, CappedLimitsAgree, TrimmedLimitsAgree DEF Agreeing, ApproveModal
<1>8. Agreeing(RejectModal)
  BY FormFields, CappedLimitsAgree DEF Agreeing, RejectModal
<1>9. Agreeing(ConfirmReceivedModal)
  BY FormFields, TrimmedLimitsAgree DEF Agreeing, ConfirmReceivedModal
<1>10. Agreeing(RefuseReceiveModal)
  BY FormFields, CappedLimitsAgree DEF Agreeing, RefuseReceiveModal
<1>11. Agreeing(ShipExchangeModal)
  BY FormFields, RawLimitsAgree DEF Agreeing, ShipExchangeModal
<1>12. Agreeing(ReplyEditor)
  BY FormFields, FieldLimitsAgree DEF Agreeing, ReplyEditor
<1>13. Agreeing(BasicInfoTab)
  BY FormFields, KeepingAgrees, PlainLimitsAgree DEF Agreeing, BasicInfoTab, Title
<1>14. Agreeing(SKUFormModal)
  BY FormFields, FieldLimitsAgree DEF Agreeing, SKUFormModal, SkuCode
<1>15. Agreeing(AdjustInventoryModal)
  BY FormFields, TrimmedLimitsAgree DEF Agreeing, AdjustInventoryModal
<1>16. Agreeing(ShopHomepageEditor)
  BY FormFields, HomepageAgrees, PlainLimitsAgree DEF Agreeing, ShopHomepageEditor
<1> QED
  BY <1>1, <1>2, <1>3, <1>4, <1>5, <1>6, <1>7, <1>8, <1>9, <1>10, <1>11, <1>12, <1>13, <1>14,
     <1>15, <1>16 DEF MerchantForms

LEMMA AdminFormsAgree ==
  ASSUME NEW f \in AdminForms
  PROVE  Agreeing(f)
<1>1. Agreeing(AdminLogin)
  BY FormFields, FieldLimitsAgree, PlainLimitsAgree DEF Agreeing, AdminLogin
<1>2. Agreeing(AdminChangePassword)
  BY FormFields, PlainLimitsAgree DEF Agreeing, AdminChangePassword, Password
<1>3. Agreeing(BrandFormModal)
  BY FormFields, KeepingAgrees, CappedLimitsAgree DEF Agreeing, BrandFormModal
<1>4. Agreeing(CategoryFormModal)
  BY FormFields, CappedLimitsAgree DEF Agreeing, CategoryFormModal
<1>5. Agreeing(AdminCancelModal)
  BY FormFields, CappedLimitsAgree DEF Agreeing, AdminCancelModal
<1>6. Agreeing(AdminNoteModal)
  BY FormFields DEF Agreeing, AdminNoteModal, LaxFields
<1>7. Agreeing(SimulateLogisticsModal)
  BY FormFields, CappedLimitsAgree DEF Agreeing, SimulateLogisticsModal
<1>8. Agreeing(CaseNoteModal)
  BY FormFields DEF Agreeing, CaseNoteModal, LaxFields
<1>9. Agreeing(ResolveModal)
  BY FormFields, CappedLimitsAgree DEF Agreeing, ResolveModal
<1>10. Agreeing(ForceRefundModal)
  BY FormFields, CappedLimitsAgree DEF Agreeing, ForceRefundModal
<1>11. Agreeing(HideReviewModal)
  BY FormFields, CappedLimitsAgree DEF Agreeing, HideReviewModal
<1>12. Agreeing(HandleReportModal)
  BY FormFields, CappedLimitsAgree DEF Agreeing, HandleReportModal
<1>13. Agreeing(ProductNoteModal)
  BY FormFields, CappedLimitsAgree DEF Agreeing, ProductNoteModal
<1>14. Agreeing(ProductApproveModal)
  BY FormFields, CappedLimitsAgree DEF Agreeing, ProductApproveModal
<1>15. Agreeing(ApplicationApproveModal)
  BY FormFields, CappedLimitsAgree DEF Agreeing, ApplicationApproveModal
<1>16. Agreeing(ApplicationRejectModal)
  BY FormFields, CappedLimitsAgree DEF Agreeing, ApplicationRejectModal
<1> QED
  BY <1>1, <1>2, <1>3, <1>4, <1>5, <1>6, <1>7, <1>8, <1>9, <1>10, <1>11, <1>12, <1>13, <1>14,
     <1>15, <1>16 DEF AdminForms

-----------------------------------------------------------------------------
(* Uploads, as long as the list was not mounted again.  Every copy of the  *)
(* evidence list (the value of the form, the rendered one, the one of the  *)
(* ref) holds what was chosen and kept; the gallery keeps room for what    *)
(* was under way at its last render.                                       *)

Pictures(v) == {f \in Files : v[f] # "none"}
Going == {f \in Files : net[f] = "going"}

ImageTypes ==
    /\ case \in Cases
    /\ value \in U!Value
    /\ shown \in U!Value
    /\ ref \in [U!Mounts -> U!Value]
    /\ mount \in U!Mounts
    /\ ~ mounted => mount < case.mounts
    /\ net \in [Files -> {"new", "going", "done", "failed"}]
    /\ by \in [Files -> U!Mounts]
    /\ listed \subseteq Files
    /\ removed \subseteq Files

\* A copy v of the evidence list, when n is what has become of the uploads and r
\* the images taken out.
Copy(v, n, r) ==
    /\ v \in U!Value
    /\ \A f \in Files : f \in r \/ n[f] = "new" => v[f] = "none"
    /\ \A f \in Files : f \notin r /\ n[f] \in {"going", "done"} => v[f] # "none"
    /\ Cardinality(Pictures(v)) <= MaxImages

Evidence ==
    /\ mounted
    /\ mount = 1
    /\ \A f \in Files : by[f] = 1
    /\ \A f \in removed : net[f] # "new"
    /\ Copy(value, net, removed)
    /\ Copy(shown, net, removed)
    /\ Copy(ref[1], net, removed)

Gallery ==
    /\ \A f \in Files : by[f] = 1
    /\ \A f \in removed : net[f] = "done" /\ value[f] = "none" /\ shown[f] = "none"
    /\ \A f \in Pictures(value) : net[f] = "done"
    /\ \A f \in Pictures(shown) : net[f] = "done"
    /\ ref[1] = shown
    /\ Pictures(value) \cup Going \subseteq Pictures(shown) \cup listed
    /\ Cardinality(Pictures(shown) \cup listed) <= MaxImages

ImageInv ==
    /\ ImageTypes
    /\ case.kind = "evidence" => Evidence
    /\ case.kind = "gallery" /\ mount = 1 => Gallery

\* Mounts are numbered from 1, and sets of images can be counted.
LEMMA MountsCount ==
  ASSUME ImageTypes
  PROVE  /\ case.mounts \in Nat /\ 1 \in U!Mounts
         /\ \A i \in U!Mounts : i \in Nat /\ i >= 1
         /\ mount + 1 \in U!Mounts <=> mount < case.mounts
  BY ImagesAssumption DEF ImageTypes, U!Mounts

LEMMA SizeCounts ==
  ASSUME NEW v
  PROVE  U!Size(v) = Cardinality(Pictures(v))
  BY DEF U!Size, Pictures, U!Cardinality, Cardinality

LEMMA FewerImages ==
  ASSUME NEW B \in SUBSET Files, NEW A \in SUBSET B
  PROVE  Cardinality(A) \in Nat /\ Cardinality(B) \in Nat /\ Cardinality(A) <= Cardinality(B)
<1>1. IsFiniteSet(B)
  BY ImagesAssumption, FS_Subset
<1>2. IsFiniteSet(A) /\ Cardinality(A) <= Cardinality(B)
  BY <1>1, FS_Subset
<1> QED  BY <1>1, <1>2, FS_CardinalityType

LEMMA BothImages ==
  ASSUME NEW A \in SUBSET Files, NEW B \in SUBSET Files
  PROVE  /\ Cardinality(A) \in Nat /\ Cardinality(B) \in Nat
         /\ Cardinality(A \cup B) \in Nat
         /\ Cardinality(A \cup B) <= Cardinality(A) + Cardinality(B)
<1>1. IsFiniteSet(A) /\ IsFiniteSet(B) /\ IsFiniteSet(A \cup B) /\ IsFiniteSet(A \cap B)
  BY ImagesAssumption, FS_Subset
<1>2. Cardinality(A \cup B) = Cardinality(A) + Cardinality(B) - Cardinality(A \cap B)
  BY <1>1, FS_Union
<1>3. /\ Cardinality(A) \in Nat /\ Cardinality(B) \in Nat
      /\ Cardinality(A \cup B) \in Nat /\ Cardinality(A \cap B) \in Nat
  BY <1>1, FS_CardinalityType
<1> QED  BY <1>2, <1>3

\* Images that there is room for, and that are new, are added to a copy.
LEMMA CopyAdds ==
  ASSUME NEW v, NEW n, NEW r, Copy(v, n, r),
         NEW I \in SUBSET Files, Cardinality(I) <= MaxImages - U!Size(v),
         \A f \in I : f \notin r,
         NEW w \in U!Value, \A f \in Files : w[f] = IF f \in I THEN "going" ELSE v[f],
         NEW m, \A f \in Files : m[f] = IF f \in I THEN "going" ELSE n[f]
  PROVE  Copy(w, m, r)
<1>1. Pictures(w) = Pictures(v) \cup I
  BY DEF Pictures
<1>2. PICK A \in SUBSET Files : A = Pictures(v)
  BY DEF Pictures
<1>3. /\ Cardinality(A) \in Nat /\ Cardinality(I) \in Nat
      /\ Cardinality(A \cup I) \in Nat
      /\ Cardinality(A \cup I) <= Cardinality(A) + Cardinality(I)
  BY BothImages
<1>4. Cardinality(I) <= MaxImages - Cardinality(A)
  BY <1>2, SizeCounts
<1>5. Cardinality(Pictures(w)) <= MaxImages
  BY <1>1, <1>2, <1>3, <1>4, ImagesAssumption
<1>6. \A f \in Files : f \in r \/ m[f] = "new" => w[f] = "none"
  BY DEF Copy
<1>7. \A f \in Files : f \notin r /\ m[f] \in {"going", "done"} => w[f] # "none"
  BY DEF Copy
<1> QED  BY <1>5, <1>6, <1>7 DEF Copy

\* An upload ends: copies that show it still may, and one that is patched holds
\* the key or loses the item.
LEMMA CopyEnds ==
  ASSUME NEW v, NEW n, NEW r, Copy(v, n, r),
         NEW f \in Files, n[f] = "going", NEW end \in {"done", "failed"},
         NEW m, \A g \in Files : m[g] = IF g = f THEN end ELSE n[g]
  PROVE  Copy(v, m, r)
  BY DEF Copy

LEMMA CopyPatched ==
  ASSUME NEW v, NEW n, NEW r, Copy(v, n, r),
         NEW f \in Files, n[f] = "going", NEW end \in {"done", "failed"},
         NEW m, \A g \in Files : m[g] = IF g = f THEN end ELSE n[g],
         NEW w \in U!Value, \A g \in Files \ {f} : w[g] = v[g],
         w[f] = IF v[f] = "none" THEN "none" ELSE IF end = "done" THEN "key" ELSE "none"
  PROVE  Copy(w, m, r)
<1>1. Pictures(w) \in SUBSET Pictures(v) /\ Pictures(v) \in SUBSET Files
  BY DEF Pictures
<1>2. PICK A \in SUBSET Files : A = Pictures(v)
  BY <1>1
<1>3. PICK B \in SUBSET A : B = Pictures(w)
  BY <1>1, <1>2
<1>4. Cardinality(A) \in Nat /\ Cardinality(B) \in Nat /\ Cardinality(B) <= Cardinality(A)
  BY FewerImages
<1>5. Cardinality(Pictures(w)) <= MaxImages
  BY <1>2, <1>3, <1>4, ImagesAssumption DEF Copy
<1>6. \A g \in Files : g \in r \/ m[g] = "new" => w[g] = "none"
  BY DEF Copy
<1>7. \A g \in Files : g \notin r /\ m[g] \in {"going", "done"} => w[g] # "none"
  BY DEF Copy
<1> QED  BY <1>5, <1>6, <1>7 DEF Copy

\* The user takes an image out.
LEMMA CopyRemoved ==
  ASSUME NEW v, NEW n, NEW r, Copy(v, n, r), NEW f \in Files,
         NEW w \in U!Value, \A g \in Files : w[g] = IF g = f THEN "none" ELSE v[g]
  PROVE  Copy(w, n, r \cup {f})
<1>1. Pictures(w) \in SUBSET Pictures(v) /\ Pictures(v) \in SUBSET Files
  BY DEF Pictures
<1>2. PICK A \in SUBSET Files : A = Pictures(v)
  BY <1>1
<1>3. PICK B \in SUBSET A : B = Pictures(w)
  BY <1>1, <1>2
<1>4. Cardinality(A) \in Nat /\ Cardinality(B) \in Nat /\ Cardinality(B) <= Cardinality(A)
  BY FewerImages
<1>5. Cardinality(Pictures(w)) <= MaxImages
  BY <1>2, <1>3, <1>4, ImagesAssumption DEF Copy
<1>6. \A g \in Files : g \in r \cup {f} \/ n[g] = "new" => w[g] = "none"
  BY DEF Copy
<1>7. \A g \in Files : g \notin r \cup {f} /\ n[g] \in {"going", "done"} => w[g] # "none"
  BY DEF Copy
<1> QED  BY <1>5, <1>6, <1>7 DEF Copy

LEMMA ImagesInit ==
  ASSUME U!Init
  PROVE  ImageInv
<1>1. /\ case \in Cases /\ value = U!Empty /\ shown = U!Empty
      /\ ref = [i \in U!Mounts |-> U!Empty] /\ mount = 1 /\ mounted = TRUE
      /\ net = [f \in Files |-> "new"] /\ by = [f \in Files |-> 1]
      /\ listed = {} /\ removed = {}
  BY DEF U!Init
<1>2. case.mounts \in Nat \ {0}
  BY <1>1, ImagesAssumption
<1>3. 1 \in U!Mounts
  BY <1>2 DEF U!Mounts
<1>4. U!Empty \in U!Value
  BY DEF U!Empty, U!Value
<1>5. ImageTypes
  BY <1>1, <1>3, <1>4 DEF ImageTypes
<1>6. Pictures(U!Empty) = {}
  BY DEF Pictures, U!Empty
<1>7. Cardinality(Pictures(U!Empty)) <= MaxImages
  BY <1>6, FS_EmptySet, ImagesAssumption
<1>8. Copy(U!Empty, net, removed)
  <2>1. \A f \in Files : U!Empty[f] = "none" /\ net[f] = "new"
    BY <1>1 DEF U!Empty
  <2> QED  BY <1>4, <1>7, <2>1 DEF Copy
<1>9. ref[1] = U!Empty
  BY <1>1, <1>3
<1>10. Evidence
  BY <1>1, <1>8, <1>9 DEF Evidence
<1>11. Gallery
  <2>1. Going = {}
    BY <1>1 DEF Going
  <2>2. Pictures(value) = {} /\ Pictures(shown) \cup listed = {}
    BY <1>1, <1>6
  <2>3. Cardinality(Pictures(shown) \cup listed) <= MaxImages
    BY <2>2, FS_EmptySet, ImagesAssumption
  <2> QED  BY <1>1, <1>6, <1>9, <2>1, <2>2, <2>3 DEF Gallery
<1> QED  BY <1>5, <1>10, <1>11 DEF ImageInv

\* What the user does sets one copy of the value everywhere.
LEMMA Committed ==
  ASSUME ImageTypes, NEW v \in U!Value, U!Commit(v), case' = case
  PROVE  /\ value' = v /\ shown' = v /\ ref'[mount] = v
         /\ value' \in U!Value /\ shown' \in U!Value /\ ref' \in [U!Mounts -> U!Value]'
<1>1. U!Mounts' = U!Mounts
  BY DEF U!Mounts
<1>2. U!Value' = U!Value
  BY DEF U!Value
<1> QED  BY <1>1, <1>2 DEF U!Commit, ImageTypes

LEMMA ImageTypesNext ==
  ASSUME ImageTypes, U!Next
  PROVE  ImageTypes' /\ case' = case
<1>1. case' = case
  BY DEF U!Next, U!Render, U!Effect, U!EvidenceSubmit, U!Unmount, U!Mount, U!HandleFiles,
         U!OnFileChange, U!EvidenceProgress, U!EvidenceEnds, U!UploadEnds, U!RemoveAt
<1>2. U!Mounts' = U!Mounts
  BY <1>1 DEF U!Mounts
<1>3. CASE U!Render
  <2>1. /\ shown' = value /\ listed' \subseteq Files
        /\ UNCHANGED <<value, mount, mounted, net, by, removed>>
        /\ ref' = ref \/ \E v \in U!Value : ref' = [ref EXCEPT ![mount] = v]
    BY <1>3 DEF U!Render, U!Under, ImageTypes
  <2> QED  BY <1>1, <1>2, <2>1 DEF ImageTypes
<1>4. CASE U!Effect
  BY <1>1, <1>2, <1>4 DEF U!Effect, ImageTypes
<1>5. CASE U!EvidenceSubmit
  BY <1>1, <1>2, <1>5 DEF U!EvidenceSubmit, ImageTypes
<1>6. CASE U!Unmount
  BY <1>1, <1>2, <1>6 DEF U!Unmount, ImageTypes
<1>7. CASE U!Mount
  <2>1. mount + 1 \in U!Mounts
    BY <1>7, MountsCount DEF U!Mount, ImageTypes
  <2> QED  BY <1>1, <1>2, <1>7, <2>1 DEF U!Mount, ImageTypes
<1>8. ASSUME NEW I \in SUBSET Files, U!HandleFiles(I) PROVE ImageTypes'
  <2>1. PICK v : v = [f \in Files |-> IF f \in I THEN "going" ELSE ref[mount][f]]
    OBVIOUS
  <2>2. v \in U!Value
    BY <2>1 DEF ImageTypes, U!Value
  <2>3. U!Commit(v)
    BY <1>8, <2>1 DEF U!HandleFiles
  <2>4. /\ net' \in [Files -> {"new", "going", "done", "failed"}]
        /\ by' \in [Files -> U!Mounts] /\ listed' \subseteq Files
        /\ UNCHANGED <<mount, mounted, removed>>
    BY <1>8 DEF U!HandleFiles, ImageTypes, U!Under
  <2>5. value' \in U!Value /\ shown' \in U!Value /\ ref' \in [U!Mounts -> U!Value]'
    BY <1>1, <2>2, <2>3, Committed
  <2> QED  BY <1>1, <1>2, <2>4, <2>5 DEF ImageTypes, U!Value
<1>9. ASSUME NEW I \in SUBSET Files, U!OnFileChange(I) PROVE ImageTypes'
  <2>1. U!Commit(value) /\ value \in U!Value
    BY <1>9 DEF U!OnFileChange, ImageTypes
  <2>2. /\ net' \in [Files -> {"new", "going", "done", "failed"}]
        /\ by' \in [Files -> U!Mounts] /\ listed' \subseteq Files
        /\ UNCHANGED <<mount, mounted, removed>>
    BY <1>9 DEF U!OnFileChange, ImageTypes
  <2>3. value' \in U!Value /\ shown' \in U!Value /\ ref' \in [U!Mounts -> U!Value]'
    BY <1>1, <2>1, Committed
  <2> QED  BY <1>1, <1>2, <2>2, <2>3 DEF ImageTypes, U!Value
<1>10. ASSUME NEW f \in Files, U!EvidenceProgress(f) PROVE ImageTypes'
  BY <1>1, <1>2, <1>10 DEF U!EvidenceProgress, U!ApplyPatch, ImageTypes
<1>11. ASSUME NEW f \in Files, U!EvidenceEnds(f) PROVE ImageTypes'
  <2>1. PICK end \in {"done", "failed"} :
          /\ net' = [net EXCEPT ![f] = end]
          /\ U!ApplyPatch(by[f], IF ref[by[f]][f] = "none" THEN ref[by[f]]
                 ELSE [ref[by[f]] EXCEPT ![f] = IF end = "done" THEN "key" ELSE "none"])
    BY <1>11 DEF U!EvidenceEnds
  <2>2. PICK v : v = IF ref[by[f]][f] = "none" THEN ref[by[f]]
                 ELSE [ref[by[f]] EXCEPT ![f] = IF end = "done" THEN "key" ELSE "none"]
    OBVIOUS
  <2>3. v \in U!Value
    BY <2>2 DEF ImageTypes, U!Value
  <2>4. U!ApplyPatch(by[f], v) /\ UNCHANGED <<mount, mounted, by, listed, removed>>
    BY <1>11, <2>1, <2>2 DEF U!EvidenceEnds
  <2> QED  BY <1>1, <1>2, <2>1, <2>3, <2>4 DEF U!ApplyPatch, ImageTypes
<1>12. ASSUME NEW f \in Files, U!UploadEnds(f) PROVE ImageTypes'
  <2>1. PICK end \in {"done", "failed"} :
          /\ net' = [net EXCEPT ![f] = end]
          /\ value' = IF end = "done" THEN [ref[by[f]] EXCEPT ![f] = "key"] ELSE value
    BY <1>12 DEF U!UploadEnds
  <2>2. value' \in U!Value
    BY <2>1 DEF ImageTypes, U!Value
  <2>3. UNCHANGED <<shown, ref, mount, mounted, by, listed, removed>>
    BY <1>12 DEF U!UploadEnds
  <2> QED  BY <1>1, <1>2, <2>1, <2>2, <2>3 DEF ImageTypes
<1>13. ASSUME NEW f \in Files, U!RemoveAt(f) PROVE ImageTypes'
  <2>1. PICK v : v = [shown EXCEPT ![f] = "none"]
    OBVIOUS
  <2>2. v \in U!Value
    BY <2>1 DEF ImageTypes, U!Value
  <2>3. U!Commit(v) /\ UNCHANGED <<mount, mounted, net, by>>
    BY <1>13, <2>1 DEF U!RemoveAt
  <2>4. listed' \subseteq Files /\ removed' \subseteq Files
    BY <1>13 DEF U!RemoveAt, ImageTypes, U!Under
  <2>5. value' \in U!Value /\ shown' \in U!Value /\ ref' \in [U!Mounts -> U!Value]'
    BY <1>1, <2>2, <2>3, Committed
  <2> QED  BY <1>1, <1>2, <2>3, <2>4, <2>5 DEF ImageTypes, U!Value
<1> QED
  BY <1>1, <1>3, <1>4, <1>5, <1>6, <1>7, <1>8, <1>9, <1>10, <1>11, <1>12, <1>13 DEF U!Next

\* The evidence list: all its copies keep what was chosen and kept.
LEMMA EvidenceNext ==
  ASSUME ImageTypes, ImageTypes', Evidence, case.kind = "evidence", U!Next
  PROVE  Evidence'
<1>1. 1 \in U!Mounts /\ ref \in [U!Mounts -> U!Value]
  BY MountsCount DEF ImageTypes
<1>2. CASE U!Render
  <2>1. /\ shown' = value /\ UNCHANGED <<value, mount, mounted, net, by, removed>>
        /\ ref' = ref \/ ref' = [ref EXCEPT ![1] = shown]
    BY <1>2 DEF U!Render, Evidence
  <2>2. ref'[1] = ref[1] \/ ref'[1] = shown
    BY <1>1, <2>1
  <2> QED  BY <2>1, <2>2 DEF Evidence
<1>3. CASE U!Effect
  <2>1. /\ UNCHANGED <<value, shown, mount, mounted, net, by, removed>>
        /\ ref' = [ref EXCEPT ![1] = shown]
    BY <1>3 DEF U!Effect, Evidence
  <2>2. ref'[1] = shown
    BY <1>1, <2>1
  <2> QED  BY <2>1, <2>2 DEF Evidence
<1>4. CASE U!EvidenceSubmit
  BY <1>4 DEF U!EvidenceSubmit, Evidence
<1>5. ~ U!Unmount /\ ~ U!Mount
  BY DEF U!Unmount, U!Mount, Evidence
<1>6. ASSUME NEW I \in SUBSET Files, U!HandleFiles(I) PROVE Evidence'
  <2>1. PICK v : v = [f \in Files |-> IF f \in I THEN "going" ELSE ref[1][f]]
    OBVIOUS
  <2>2. v \in U!Value
    BY <1>1, <2>1 DEF U!Value
  <2>3. /\ U!Commit(v) /\ case' = case /\ mount = 1
        /\ Cardinality(I) <= MaxImages - U!Size(ref[1])
        /\ \A f \in I : net[f] = "new"
        /\ net' = [f \in Files |-> IF f \in I THEN "going" ELSE net[f]]
        /\ by' = [f \in Files |-> IF f \in I THEN mount ELSE by[f]]
        /\ UNCHANGED <<mount, mounted, removed>>
    BY <1>6, <2>1 DEF U!HandleFiles, Evidence, U!Cardinality, Cardinality
  <2>4. value' = v /\ shown' = v /\ ref'[1] = v
    BY <2>2, <2>3, Committed
  <2>5. PICK m : m = net'
    OBVIOUS
  <2>6. PICK u : u = ref[1]
    OBVIOUS
  <2>7. /\ Copy(u, net, removed) /\ Cardinality(I) <= MaxImages - U!Size(u)
        /\ \A f \in I : f \notin removed
        /\ \A f \in Files : v[f] = IF f \in I THEN "going" ELSE u[f]
        /\ \A f \in Files : m[f] = IF f \in I THEN "going" ELSE net[f]
    BY <2>1, <2>3, <2>5, <2>6 DEF Evidence
  <2>8. Copy(v, m, removed)
    BY <2>2, <2>7, CopyAdds
  <2>9. \A f \in Files : by'[f] = 1
    BY <2>3 DEF Evidence
  <2>10. \A f \in removed : net'[f] # "new"
    BY <2>3 DEF Evidence, ImageTypes
  <2> QED  BY <2>3, <2>4, <2>5, <2>8, <2>9, <2>10 DEF Evidence
<1>7. ASSUME NEW I \in SUBSET Files PROVE ~ U!OnFileChange(I)
  BY DEF U!OnFileChange
<1>8. ASSUME NEW f \in Files, U!EvidenceProgress(f) PROVE Evidence'
  <2>1. /\ by[f] = 1 /\ ref' = [ref EXCEPT ![1] = ref[1]] /\ value' = ref[1]
        /\ UNCHANGED <<shown, mount, mounted, net, by, removed>>
    BY <1>8 DEF U!EvidenceProgress, U!ApplyPatch, Evidence
  <2>2. ref'[1] = ref[1]
    BY <1>1, <2>1
  <2> QED  BY <2>1, <2>2 DEF Evidence
<1>9. ASSUME NEW f \in Files, U!EvidenceEnds(f) PROVE Evidence'
  <2>1. by[f] = 1 /\ net[f] = "going"
    BY <1>9 DEF Evidence, U!EvidenceEnds
  <2>2. PICK end \in {"done", "failed"} :
          /\ net' = [net EXCEPT ![f] = end]
          /\ U!ApplyPatch(1, IF ref[1][f] = "none" THEN ref[1]
                 ELSE [ref[1] EXCEPT ![f] = IF end = "done" THEN "key" ELSE "none"])
    BY <1>9, <2>1 DEF U!EvidenceEnds
  <2>3. PICK u : u = ref[1]
    OBVIOUS
  <2>4. PICK v : v = IF u[f] = "none" THEN u
                 ELSE [u EXCEPT ![f] = IF end = "done" THEN "key" ELSE "none"]
    OBVIOUS
  <2>5. U!ApplyPatch(1, v)
    BY <2>2, <2>3, <2>4
  <2>6. u \in U!Value
    BY <1>1, <2>3
  <2>7. /\ v \in U!Value /\ \A g \in Files \ {f} : v[g] = u[g]
        /\ v[f] = IF u[f] = "none" THEN "none" ELSE IF end = "done" THEN "key" ELSE "none"
    BY <2>4, <2>6 DEF U!Value
  <2>8. value' = v /\ ref'[1] = v /\ UNCHANGED <<shown, mount, mounted, by, removed>>
    BY <1>1, <1>9, <2>5 DEF U!ApplyPatch, U!EvidenceEnds
  <2>9. PICK m : m = net'
    OBVIOUS
  <2>10. \A g \in Files : m[g] = IF g = f THEN end ELSE net[g]
    BY <2>2, <2>9 DEF ImageTypes
  <2>11. Copy(u, net, removed) /\ Copy(shown, net, removed)
    BY <2>3 DEF Evidence
  <2>12. Copy(v, m, removed)
    BY <2>1, <2>7, <2>10, <2>11, CopyPatched
  <2>13. Copy(shown, m, removed)
    BY <2>1, <2>10, <2>11, CopyEnds
  <2>14. \A g \in removed : m[g] # "new"
    BY <2>10 DEF Evidence, ImageTypes
  <2> QED  BY <2>8, <2>9, <2>12, <2>13, <2>14 DEF Evidence
<1>10. ASSUME NEW f \in Files PROVE ~ U!UploadEnds(f)
  BY DEF U!UploadEnds
<1>11. ASSUME NEW f \in Files, U!RemoveAt(f) PROVE Evidence'
  <2>1. PICK v : v = [shown EXCEPT ![f] = "none"]
    OBVIOUS
  <2>2. v \in U!Value /\ \A g \in Files : v[g] = IF g = f THEN "none" ELSE shown[g]
    BY <2>1 DEF ImageTypes, U!Value
  <2>3. /\ U!Commit(v) /\ case' = case /\ mount = 1 /\ shown[f] # "none"
        /\ removed' = removed \cup {f} /\ UNCHANGED <<mount, mounted, net, by>>
    BY <1>11, <2>1 DEF U!RemoveAt, Evidence
  <2>4. value' = v /\ shown' = v /\ ref'[1] = v
    BY <2>2, <2>3, Committed
  <2>5. Copy(shown, net, removed)
    BY DEF Evidence
  <2>6. Copy(v, net, removed \cup {f})
    BY <2>2, <2>5, CopyRemoved
  <2>7. net[f] # "new"
    BY <2>3, <2>5 DEF Copy
  <2> QED  BY <2>3, <2>4, <2>6, <2>7 DEF Evidence
<1> QED
  BY <1>2, <1>3, <1>4, <1>5, <1>6, <1>7, <1>8, <1>9, <1>10, <1>11 DEF U!Next

\* A gallery that was not mounted again: what is under way has its place beside
\* the pictures of the last render, which is what an upload that ends adds to.
LEMMA GalleryNext ==
  ASSUME ImageTypes, Gallery, mount = 1, case.kind = "gallery", U!Next, mount' = 1
  PROVE  Gallery'
<1>1. 1 \in U!Mounts /\ ref \in [U!Mounts -> U!Value]
  BY MountsCount DEF ImageTypes
<1>2. U!Under(net) = Going
  BY DEF U!Under, Going, Gallery
<1>3. CASE U!Render
  <2>1. /\ shown' = value /\ listed' = Going
        /\ UNCHANGED <<value, mounted, net, by, removed>>
        /\ ref' = [ref EXCEPT ![1] = value]
    BY <1>2, <1>3 DEF U!Render
  <2>2. ref'[1] = value /\ Going' = Going
    BY <1>1, <2>1 DEF Going
  <2>3. PICK B \in SUBSET Files : B = Pictures(shown) \cup listed
    BY DEF Pictures, ImageTypes
  <2>4. PICK A \in SUBSET B : A = Pictures(value) \cup Going
    BY <2>3 DEF Gallery
  <2>5. Cardinality(A) \in Nat /\ Cardinality(B) \in Nat /\ Cardinality(A) <= Cardinality(B)
    BY FewerImages
  <2>6. Cardinality(Pictures(value) \cup Going) <= MaxImages
    BY <2>3, <2>4, <2>5, ImagesAssumption DEF Gallery
  <2> QED  BY <2>1, <2>2, <2>6 DEF Gallery
<1>4. CASE U!Effect
  <2>1. /\ UNCHANGED <<value, shown, mounted, net, by, listed, removed>>
        /\ ref' = [ref EXCEPT ![1] = shown]
    BY <1>4 DEF U!Effect
  <2>2. ref'[1] = shown /\ Going' = Going
    BY <1>1, <2>1 DEF Going
  <2> QED  BY <2>1, <2>2 DEF Gallery
<1>5. ~ U!EvidenceSubmit
  BY DEF U!EvidenceSubmit
<1>6. CASE U!Unmount
  <2>1. UNCHANGED <<value, shown, ref, net, by, listed, removed>>
    BY <1>6 DEF U!Unmount
  <2>2. Going' = Going
    BY <2>1 DEF Going
  <2> QED  BY <2>1, <2>2 DEF Gallery
<1>7. ~ U!Mount
  BY DEF U!Mount
<1>8. ASSUME NEW I \in SUBSET Files PROVE ~ U!HandleFiles(I)
  BY DEF U!HandleFiles
<1>9. ASSUME NEW I \in SUBSET Files, U!OnFileChange(I) PROVE Gallery'
  <2>1. /\ U!Commit(value) /\ value \in U!Value /\ case' = case
        /\ U!Cardinality(I) <= MaxImages - (U!Size(shown) + U!Cardinality(listed))
        /\ \A f \in I : net[f] = "new"
        /\ net' = [f \in Files |-> IF f \in I THEN "going" ELSE net[f]]
        /\ by' = [f \in Files |-> IF f \in I THEN mount ELSE by[f]]
        /\ listed' = {f \in Files : net'[f] = "going" /\ by'[f] = mount}
        /\ removed' = removed
    BY <1>9 DEF U!OnFileChange, ImageTypes
  <2>2. value' = value /\ shown' = value /\ ref'[1] = value
    BY <2>1, Committed
  <2>3. \A f \in Files : by'[f] = 1
    BY <2>1 DEF Gallery
  <2>4. Going' = Going \cup I /\ listed' = Going \cup I
    BY <2>1, <2>3 DEF Going
  <2>5. /\ \A f \in removed : net'[f] = "done"
        /\ \A f \in Pictures(value) : net'[f] = "done"
    <3>1. Pictures(value) \subseteq Files
      BY DEF Pictures
    <3> QED  BY <2>1, <3>1 DEF Gallery, ImageTypes
  <2>6. PICK P \in SUBSET Files : P = Pictures(shown)
    BY DEF Pictures
  <2>7. /\ Cardinality(P) \in Nat /\ Cardinality(listed) \in Nat
        /\ Cardinality(P \cup listed) \in Nat
        /\ Cardinality(P \cup listed) <= Cardinality(P) + Cardinality(listed)
    BY BothImages DEF ImageTypes
  <2>8. PICK B \in SUBSET Files : B = P \cup listed
    BY DEF ImageTypes
  <2>9. /\ Cardinality(B) \in Nat /\ Cardinality(I) \in Nat
        /\ Cardinality(B \cup I) \in Nat
        /\ Cardinality(B \cup I) <= Cardinality(B) + Cardinality(I)
    BY BothImages
  <2>10. Cardinality(I) <= MaxImages - (Cardinality(P) + Cardinality(listed))
    BY <2>1, <2>6, SizeCounts DEF U!Cardinality, Cardinality
  <2>11. PICK C \in SUBSET Files : C = B \cup I
    OBVIOUS
  <2>12. PICK A \in SUBSET C : A = Pictures(value) \cup (Going \cup I)
    BY <2>6, <2>8, <2>11 DEF Gallery
  <2>13. Cardinality(A) \in Nat /\ Cardinality(C) \in Nat /\ Cardinality(A) <= Cardinality(C)
    BY FewerImages
  <2>14. Cardinality(A) <= MaxImages
    BY <2>7, <2>8, <2>9, <2>10, <2>11, <2>13, ImagesAssumption
  <2>15. /\ \A f \in removed : value[f] = "none"
    BY DEF Gallery
  <2> QED  BY <2>1, <2>2, <2>3, <2>4, <2>5, <2>12, <2>14, <2>15 DEF Gallery
<1>10. ASSUME NEW f \in Files PROVE ~ U!EvidenceProgress(f) /\ ~ U!EvidenceEnds(f)
  BY DEF U!EvidenceProgress, U!EvidenceEnds
<1>11. ASSUME NEW f \in Files, U!UploadEnds(f) PROVE Gallery'
  <2>1. by[f] = 1 /\ net[f] = "going" /\ ref[1] = shown
    BY <1>11 DEF Gallery, U!UploadEnds
  <2>2. PICK end \in {"done", "failed"} :
          /\ net' = [net EXCEPT ![f] = end]
          /\ value' = IF end = "done" THEN [shown EXCEPT ![f] = "key"] ELSE value
    BY <1>11, <2>1 DEF U!UploadEnds
  <2>3. UNCHANGED <<shown, ref, by, listed, removed>>
    BY <1>11 DEF U!UploadEnds
  <2>4. /\ net'[f] = end /\ \A g \in Files \ {f} : net'[g] = net[g]
    BY <2>2 DEF ImageTypes
  <2>5. /\ f \notin removed /\ f \notin Pictures(value) /\ f \notin Pictures(shown)
        /\ f \in Going /\ Going' = Going \ {f}
    BY <2>1, <2>4 DEF Gallery, Going
  <2>6. CASE end = "done"
    <3>1. /\ value'[f] = "key" /\ \A g \in Files \ {f} : value'[g] = shown[g]
      BY <2>2, <2>6 DEF ImageTypes, U!Value
    <3>2. Pictures(value') = Pictures(shown) \cup {f}
      BY <3>1 DEF Pictures
    <3>3. /\ \A g \in removed : net'[g] = "done" /\ value'[g] = "none"
      BY <2>4, <2>5, <3>1 DEF Gallery, ImageTypes
    <3>4. /\ \A g \in Pictures(shown) : g \in Files
      BY DEF Pictures
    <3>5. /\ \A g \in Pictures(value') : net'[g] = "done"
          /\ \A g \in Pictures(shown) : net'[g] = "done"
      BY <2>4, <2>5, <2>6, <3>2, <3>4 DEF Gallery
    <3> QED  BY <2>3, <2>5, <3>2, <3>3, <3>5 DEF Gallery
  <2>7. CASE end = "failed"
    <3>1. value' = value
      BY <2>2, <2>7
    <3>2. /\ \A g \in removed : net'[g] = "done"
      BY <2>4, <2>5 DEF Gallery, ImageTypes
    <3>3. Pictures(value) \subseteq Files /\ Pictures(shown) \subseteq Files
      BY DEF Pictures
    <3>4. /\ \A g \in Pictures(value) : net'[g] = "done"
          /\ \A g \in Pictures(shown) : net'[g] = "done"
      BY <2>4, <2>5, <3>3 DEF Gallery
    <3> QED  BY <2>3, <2>5, <3>1, <3>2, <3>4 DEF Gallery
  <2> QED  BY <2>6, <2>7
<1>12. ASSUME NEW f \in Files, U!RemoveAt(f) PROVE Gallery'
  <2>1. PICK v : v = [shown EXCEPT ![f] = "none"]
    OBVIOUS
  <2>2. v \in U!Value /\ \A g \in Files : v[g] = IF g = f THEN "none" ELSE shown[g]
    BY <2>1 DEF ImageTypes, U!Value
  <2>3. /\ U!Commit(v) /\ case' = case /\ shown[f] # "none" /\ listed' = Going
        /\ removed' = removed \cup {f} /\ UNCHANGED <<mounted, net, by>>
    BY <1>2, <1>12, <2>1 DEF U!RemoveAt
  <2>4. value' = v /\ shown' = v /\ ref'[1] = v /\ Going' = Going
    BY <2>2, <2>3, Committed DEF Going
  <2>5. Pictures(v) = Pictures(shown) \ {f} /\ f \in Pictures(shown)
    BY <2>2, <2>3 DEF Pictures
  <2>6. PICK B \in SUBSET Files : B = Pictures(shown) \cup listed
    BY DEF Pictures, ImageTypes
  <2>7. PICK A \in SUBSET B : A = Pictures(v) \cup Going
    BY <2>5, <2>6 DEF Gallery
  <2>8. Cardinality(A) \in Nat /\ Cardinality(B) \in Nat /\ Cardinality(A) <= Cardinality(B)
    BY FewerImages
  <2>9. Cardinality(Pictures(v) \cup Going) <= MaxImages
    BY <2>6, <2>7, <2>8, ImagesAssumption DEF Gallery
  <2>10. /\ \A g \in removed \cup {f} : net[g] = "done" /\ v[g] = "none"
         /\ \A g \in Pictures(v) : net[g] = "done"
    BY <2>2, <2>5 DEF Gallery, ImageTypes
  <2> QED  BY <2>3, <2>4, <2>9, <2>10 DEF Gallery
<1> QED
  BY <1>3, <1>4, <1>5, <1>6, <1>7, <1>8, <1>9, <1>10, <1>11, <1>12 DEF U!Next

\* Mounts only grow.
LEMMA MountGrows ==
  ASSUME ImageTypes, U!Next
  PROVE  mount' = mount \/ mount' # 1
<1>1. mount \in Nat /\ mount >= 1
  BY MountsCount DEF ImageTypes
<1>2. mount' = mount \/ mount' = mount + 1
  BY DEF U!Next, U!Render, U!Effect, U!EvidenceSubmit, U!Unmount, U!Mount, U!HandleFiles,
         U!OnFileChange, U!EvidenceProgress, U!EvidenceEnds, U!UploadEnds, U!RemoveAt
<1> QED  BY <1>1, <1>2

LEMMA ImagesNext ==
  ASSUME ImageInv, [U!Next]_(U!vars)
  PROVE  ImageInv'
<1>1. CASE UNCHANGED U!vars
  <2>1. UNCHANGED <<case, value, shown, ref, mount, mounted, net, by, listed, removed>>
    BY <1>1 DEF U!vars
  <2>2. ImageTypes => ImageTypes'
    BY <2>1 DEF ImageTypes, U!Mounts, U!Value
  <2>3. Evidence => Evidence'
    BY <2>1 DEF Evidence
  <2>4. Gallery => Gallery'
    BY <2>1 DEF Gallery, Going
  <2> QED  BY <2>1, <2>2, <2>3, <2>4 DEF ImageInv
<1>2. CASE U!Next
  <2>1. ImageTypes /\ ImageTypes' /\ case' = case
    BY <1>2, ImageTypesNext DEF ImageInv
  <2>2. ASSUME case.kind = "evidence" PROVE Evidence'
    BY <1>2, <2>1, <2>2, EvidenceNext DEF ImageInv
  <2>3. ASSUME case.kind = "gallery", mount' = 1 PROVE Gallery'
    <3>1. mount = 1
      BY <1>2, <2>1, <2>3, MountGrows
    <3> QED  BY <1>2, <2>1, <2>3, <3>1, GalleryNext DEF ImageInv
  <2> QED  BY <2>1, <2>2, <2>3 DEF ImageInv
<1> QED  BY <1>1, <1>2

LEMMA ImagesKeptNow ==
  ASSUME ImageInv
  PROVE  U!StaysRemoved /\ U!AtMostMax
<1>1. mount \in Nat /\ mount >= 1 /\ removed \subseteq Files
  BY MountsCount DEF ImageInv, ImageTypes
<1>2. CASE mount # 1
  BY <1>1, <1>2 DEF U!StaysRemoved, U!AtMostMax, U!Remounted
<1>3. CASE mount = 1
  <2>1. case.kind \in {"evidence", "gallery"}
    BY ImagesAssumption DEF ImageInv, ImageTypes
  <2>2. CASE case.kind = "evidence"
    <3>1. Copy(value, net, removed)
      BY <2>2 DEF ImageInv, Evidence
    <3>2. U!Size(value) <= MaxImages
      BY <3>1, SizeCounts DEF Copy
    <3> QED  BY <1>1, <3>1, <3>2 DEF Copy, U!StaysRemoved, U!AtMostMax
  <2>3. CASE case.kind = "gallery"
    <3>1. Gallery
      BY <1>3, <2>3 DEF ImageInv
    <3>2. PICK B \in SUBSET Files : B = Pictures(shown) \cup listed
      BY DEF Pictures, ImageInv, ImageTypes
    <3>3. PICK A \in SUBSET B : A = Pictures(value)
      BY <3>1, <3>2 DEF Gallery
    <3>4. Cardinality(A) \in Nat /\ Cardinality(B) \in Nat /\ Cardinality(A) <= Cardinality(B)
      BY FewerImages
    <3>5. U!Size(value) <= MaxImages
      BY <3>1, <3>2, <3>3, <3>4, SizeCounts, ImagesAssumption DEF Gallery
    <3> QED  BY <3>1, <3>5 DEF Gallery, U!StaysRemoved, U!AtMostMax
  <2> QED  BY <2>1, <2>2, <2>3
<1> QED  BY <1>2, <1>3

\* The form is sent when nothing that it shows is under way: what was chosen and
\* kept and has not failed is shown as finished.
LEMMA SendsAllStep ==
  ASSUME ImageInv, [U!Next]_(U!vars)
  PROVE  U!AllAreSent
<1> SUFFICES ASSUME case.kind = "evidence", sent' # sent,
                    NEW f \in Files, net[f] \in {"going", "done"}, f \notin removed
             PROVE  sent'[f]
  BY DEF U!AllAreSent
<1>1. U!EvidenceSubmit
  BY DEF U!Next, U!vars, U!Render, U!Effect, U!Unmount, U!Mount, U!HandleFiles,
         U!OnFileChange, U!EvidenceProgress, U!EvidenceEnds, U!UploadEnds, U!RemoveAt
<1>2. Copy(shown, net, removed)
  BY DEF ImageInv, Evidence
<1>3. shown[f] # "none" /\ shown[f] \in {"none", "going", "key"}
  BY <1>2 DEF Copy, U!Value
<1>4. shown[f] = "key"
  BY <1>1, <1>3 DEF U!EvidenceSubmit
<1> QED  BY <1>1, <1>4 DEF U!EvidenceSubmit, U!Keys

-----------------------------------------------------------------------------
(* The wizard.  A save accounts for every SKU of its list.               *)

Product == [st : {"draft", "pending_review"}, skus : SUBSET Skus, wanted : SUBSET Skus]

\* From its second call on, a save is about a product of its own.
SaveOfProduct ==
    /\ saving.at \in {"skus", "review", "saved"} => saving.of \in DOMAIN products
    /\ saving.at = "idle" => saving = W!NoSave
    /\ page # 0 => saving = W!NoSave

\* What is not stored yet is still to do or has failed, and when the save has
\* come to the review nothing is missing.
SaveAccounts ==
    /\ saving.at = "skus" =>
          /\ products[saving.of].wanted
                \subseteq products[saving.of].skus \cup saving.todo \cup saving.failed
          /\ saving.todo \subseteq products[saving.of].wanted
    /\ saving.at = "review" =>
          products[saving.of].wanted \subseteq products[saving.of].skus

StoredWanted == \A p \in DOMAIN products : products[p].skus \subseteq products[p].wanted

WizardInv ==
    /\ W!TypeOK
    /\ SaveOfProduct
    /\ SaveAccounts
    /\ StoredWanted
    /\ W!ReviewedWhole

-----------------------------------------------------------------------------
(* Records of saves. *)

Stages == {"idle", "product", "skus", "review", "saved"}

LEMMA NoSaveOK ==
  W!NoSave \in W!Saves /\ W!NoSave.at = "idle" /\ W!NoSave.of = 0
  BY WizardAssumption DEF W!NoSave, W!Saves

LEMMA SaveAt ==
  ASSUME NEW save \in W!Saves, NEW stage \in Stages,
         NEW next, next = [save EXCEPT !.at = stage]
  PROVE  /\ next \in W!Saves /\ next.at = stage
         /\ next.of = save.of /\ next.todo = save.todo /\ next.failed = save.failed
  BY WizardAssumption DEF W!Saves, Stages

LEMMA SaveOf ==
  ASSUME NEW save \in W!Saves, NEW p \in 1..MaxProducts,
         NEW next, next = [save EXCEPT !.of = p]
  PROVE  /\ next \in W!Saves /\ next.at = save.at
         /\ next.of = p /\ next.todo = save.todo /\ next.failed = save.failed
  BY WizardAssumption DEF W!Saves

LEMMA SaveLess ==
  ASSUME NEW save \in W!Saves, NEW s \in Skus,
         NEW next, next = [save EXCEPT !.todo = @ \ {s}]
  PROVE  /\ next \in W!Saves /\ next.at = save.at /\ next.of = save.of
         /\ next.todo = save.todo \ {s} /\ next.failed = save.failed
  BY DEF W!Saves

LEMMA SaveLacks ==
  ASSUME NEW save \in W!Saves, NEW s \in Skus,
         NEW next, next = [save EXCEPT !.failed = @ \cup {s}]
  PROVE  /\ next \in W!Saves /\ next.at = save.at /\ next.of = save.of
         /\ next.todo = save.todo /\ next.failed = save.failed \cup {s}
  BY DEF W!Saves

LEMMA ReviewedRows ==
  W!ReviewedWhole <=> \A p \in DOMAIN products :
                       products[p].st = "pending_review" => products[p].skus = products[p].wanted
  BY DEF W!ReviewedWhole, W!InReview

-----------------------------------------------------------------------------
LEMMA WizardInit ==
  ASSUME W!Init
  PROVE  WizardInv
<1>1. page = 0 /\ step = 1 /\ filled = FALSE /\ local = {} /\ saving = W!NoSave /\ lost = 0
      /\ products = <<>> /\ DOMAIN products = {}
  BY DEF W!Init
<1>2. W!NoSave \in W!Saves
  BY WizardAssumption DEF W!NoSave, W!Saves
<1>3. products \in Seq(Product)
  BY <1>1
<1>6. filled \in BOOLEAN
  BY <1>1, Zenon
<1>4. W!TypeOK
  BY WizardAssumption, <1>1, <1>2, <1>3, <1>6 DEF W!TypeOK, Product
<1>5. SaveOfProduct /\ SaveAccounts /\ StoredWanted /\ W!ReviewedWhole
  BY <1>1 DEF W!NoSave, SaveOfProduct, SaveAccounts, StoredWanted, W!ReviewedWhole, W!InReview
<1> QED  BY <1>4, <1>5 DEF WizardInv

\* What the merchant does on the wizard's pages leaves products and saves alone.
LEMMA EditInv ==
  ASSUME WizardInv,
         \/ W!Fill \/ W!GoNext \/ W!GoPrev
         \/ \E s \in Skus : W!AddSku(s) \/ W!RemoveSku(s)
  PROVE  WizardInv'
<1>1. UNCHANGED <<page, saving, products, lost>>
  BY DEF W!Fill, W!GoNext, W!GoPrev, W!AddSku, W!RemoveSku
<1>2. step' \in 1..3 /\ local' \subseteq Skus
  BY DEF W!Fill, W!GoNext, W!GoPrev, W!AddSku, W!RemoveSku, WizardInv, W!TypeOK
<1>3. filled' \in BOOLEAN
  BY Zenon DEF W!Fill, W!GoNext, W!GoPrev, W!AddSku, W!RemoveSku, WizardInv, W!TypeOK
<1> QED
  BY <1>1, <1>2, <1>3 DEF WizardInv, W!TypeOK, SaveOfProduct, SaveAccounts, StoredWanted,
                          W!ReviewedWhole, W!InReview

LEMMA SubmitInv ==
  ASSUME WizardInv, NEW r \in BOOLEAN, W!Submit(r)
  PROVE  WizardInv'
<1>1. /\ UNCHANGED <<page, filled, local, products, lost>>
      /\ page = 0
      /\ \/ saving' = saving /\ step' = 1
         \/ /\ saving' = [at |-> "product", toReview |-> r, of |-> 0, todo |-> local, failed |-> {}]
            /\ step' = step
  BY DEF W!Submit, W!NoSave
<1>2. W!TypeOK'
  BY WizardAssumption, <1>1 DEF WizardInv, W!TypeOK, W!Saves
<1> QED
  BY <1>1, <1>2 DEF WizardInv, SaveOfProduct, SaveAccounts, StoredWanted, W!ReviewedWhole,
     W!InReview

LEMMA CreateSpuInv ==
  ASSUME WizardInv, W!CreateSpu
  PROVE  WizardInv'
<1> DEFINE new == [st |-> "draft", skus |-> {}, wanted |-> saving.todo]
<1>1. /\ saving.at = "product" /\ saving \in W!Saves /\ products \in Seq(Product)
      /\ Len(products) \in Nat /\ page = 0
      /\ UNCHANGED <<page, step, filled, local>>
  BY DEF W!CreateSpu, WizardInv, W!TypeOK, Product, SaveOfProduct, W!NoSave
<1>2. new \in Product
  BY <1>1 DEF Product, W!Saves
<1>3. CASE products' = products /\ saving' = W!NoSave /\ lost' = lost
  BY WizardAssumption, <1>1, <1>3 DEF WizardInv, W!TypeOK, W!Saves, W!NoSave, SaveOfProduct,
     SaveAccounts, StoredWanted,
                    W!ReviewedWhole, W!InReview
<1>4. CASE /\ products' = Append(products, new) /\ Len(products) < MaxProducts
           /\ \/ saving' = [saving EXCEPT !.at = "skus", !.of = Len(products) + 1] /\ lost' = lost
              \/ saving' = W!NoSave /\ W!Lose
  <2>1. /\ products' \in Seq(Product) /\ Len(products') = Len(products) + 1
        /\ DOMAIN products' = 1..(Len(products) + 1) /\ DOMAIN products = 1..Len(products)
        /\ products'[Len(products) + 1] = new
        /\ \A p \in 1..Len(products) : products'[p] = products[p]
    BY <1>1, <1>2, <1>4
  <2>0. PICK n : n = Len(products) + 1
    OBVIOUS
  <2>6. n \in 1..MaxProducts
    BY WizardAssumption, <1>1, <1>4, <2>0
  <2>7. /\ saving' \in W!Saves
        /\ \/ saving' = W!NoSave
           \/ saving'.at = "skus" /\ saving'.of = n /\ saving'.todo = saving.todo
    <3>1. CASE saving' = [saving EXCEPT !.at = "skus", !.of = n]
      <4>1. PICK mid : mid = [saving EXCEPT !.at = "skus"]
        OBVIOUS
      <4>2. mid \in W!Saves /\ mid.at = "skus" /\ mid.todo = saving.todo
        BY <1>1, <4>1, SaveAt DEF Stages
      <4>3. saving' = [mid EXCEPT !.of = n]
        BY <3>1, <4>1, Zenon
      <4>4. /\ saving' \in W!Saves /\ saving'.at = "skus" /\ saving'.of = n
            /\ saving'.todo = saving.todo
        BY <2>6, <4>2, <4>3, SaveOf
      <4> QED  BY <4>4
    <3>2. CASE saving' = W!NoSave
      BY <3>2, NoSaveOK
    <3> QED  BY <1>4, <2>0, <3>1, <3>2
  <2>2. lost' \in 0..MaxLost
    BY WizardAssumption, <1>4 DEF WizardInv, W!TypeOK, W!Lose
  <2>3. W!TypeOK'
    BY <1>1, <2>1, <2>2, <2>7 DEF WizardInv, W!TypeOK, Product
  <2>4. StoredWanted' /\ W!ReviewedWhole'
    BY <2>1 DEF WizardInv, StoredWanted, W!ReviewedWhole, W!InReview
  <2>5. SaveOfProduct' /\ SaveAccounts'
    BY <1>1, <2>0, <2>1, <2>7, NoSaveOK DEF SaveOfProduct, SaveAccounts
  <2> QED  BY <2>3, <2>4, <2>5 DEF WizardInv
<1> QED  BY <1>1, <1>3, <1>4 DEF W!CreateSpu

LEMMA CreateSkuInv ==
  ASSUME WizardInv, NEW s \in Skus, W!CreateSku(s)
  PROVE  WizardInv'
<1> DEFINE p == saving.of
           made == [products EXCEPT ![p].skus = @ \cup {s}]
<1>1. /\ saving.at = "skus" /\ s \in saving.todo /\ saving \in W!Saves
      /\ p \in DOMAIN products /\ products \in Seq(Product) /\ page = 0
      /\ UNCHANGED <<page, step, filled, local>>
  BY DEF W!CreateSku, WizardInv, W!TypeOK, Product, SaveOfProduct, W!NoSave
<1>2. /\ products[p] \in Product /\ s \in products[p].wanted
      /\ products[p].wanted \subseteq products[p].skus \cup saving.todo \cup saving.failed
      /\ saving.todo \subseteq products[p].wanted
  BY <1>1 DEF WizardInv, SaveAccounts
<1>3. /\ made \in Seq(Product) /\ DOMAIN made = DOMAIN products
      /\ made[p].skus = products[p].skus \cup {s} /\ made[p].wanted = products[p].wanted
      /\ \A q \in DOMAIN products : /\ q # p => made[q] = products[q]
                                    /\ made[q].st = products[q].st
                                    /\ made[q].wanted = products[q].wanted
  BY <1>1, <1>2 DEF Product
<1>4. /\ products' \in {products, made}
      /\ saving'.at = "skus" /\ saving'.of = p /\ saving' \in W!Saves
      /\ saving'.todo = saving.todo \ {s}
      /\ \/ products' = made /\ saving'.failed \in {saving.failed, saving.failed \cup {s}}
         \/ saving'.failed = saving.failed \cup {s}
      /\ lost' \in 0..MaxLost
  <2>1. lost \in 0..MaxLost /\ MaxLost \in Nat
    BY WizardAssumption DEF WizardInv, W!TypeOK
  <2>2. lost' \in 0..MaxLost /\ products' \in {products, made}
    BY <2>1 DEF W!CreateSku, W!Lose
  <2>3. PICK next : next = [saving EXCEPT !.todo = @ \ {s}]
    OBVIOUS
  <2>4. \/ products' = made /\ saving' = next
        \/ saving' = [next EXCEPT !.failed = @ \cup {s}]
    BY <2>3 DEF W!CreateSku
  <2>5. /\ next \in W!Saves /\ next.at = "skus" /\ next.of = p
        /\ next.todo = saving.todo \ {s} /\ next.failed = saving.failed
    BY <1>1, <2>3, SaveLess
  <2>6. CASE saving' = [next EXCEPT !.failed = @ \cup {s}]
    BY <2>2, <2>5, <2>6, SaveLacks
  <2> QED  BY <2>2, <2>4, <2>5, <2>6
<1>5. W!TypeOK'
  BY <1>1, <1>3, <1>4 DEF WizardInv, W!TypeOK, Product
<1>6. SaveOfProduct' /\ SaveAccounts'
  BY <1>1, <1>2, <1>3, <1>4 DEF SaveOfProduct, SaveAccounts
<1>7. StoredWanted' /\ W!ReviewedWhole'
  <2>1. StoredWanted'
    <3>1. \A q \in DOMAIN products : products[q].skus \subseteq products[q].wanted
      BY DEF WizardInv, StoredWanted
    <3>2. \A q \in DOMAIN made : made[q].skus \subseteq made[q].wanted
      <4> HIDE DEF made
      <4>1. products[p].skus \cup {s} \subseteq products[p].wanted
        BY <1>1, <1>2, <3>1
      <4> QED  BY <1>3, <3>1, <4>1
    <3> QED  BY <1>4, <3>1, <3>2 DEF StoredWanted
  <2>2. \A q \in DOMAIN products : products[q].st = "pending_review" =>
                                        products[q].skus = products[q].wanted
    BY ReviewedRows DEF WizardInv
  <2>3. \A q \in DOMAIN made : made[q].st = "pending_review" => made[q].skus = made[q].wanted
    <3> HIDE DEF made
    <3>1. CASE products[p].st = "pending_review"
      <4>1. products[p].skus \cup {s} = products[p].wanted
        BY <1>1, <1>2, <2>2, <3>1
      <4> QED  BY <1>3, <2>2, <4>1
    <3>2. CASE products[p].st # "pending_review"
      BY <1>1, <1>3, <2>2, <3>2
    <3> QED  BY <3>1, <3>2
  <2>4. \A q \in DOMAIN products' : products'[q].st = "pending_review" =>
                                         products'[q].skus = products'[q].wanted
    BY <1>4, <2>2, <2>3
  <2>5. W!ReviewedWhole'
    BY <2>4 DEF W!ReviewedWhole, W!InReview
  <2> QED  BY <2>1, <2>5
<1> QED  BY <1>5, <1>6, <1>7 DEF WizardInv

\* The list is through: the review is asked for only with nothing missing.
LEMMA AllCreatedInv ==
  ASSUME WizardInv, W!AllCreated
  PROVE  WizardInv'
<1>1. /\ saving.at = "skus" /\ saving.todo = {} /\ saving \in W!Saves /\ page = 0
      /\ UNCHANGED <<page, step, filled, local, products, lost>>
  BY DEF W!AllCreated, WizardInv, W!TypeOK, SaveOfProduct, W!NoSave
<1>2. \/ saving' = [saving EXCEPT !.at = "saved"]
      \/ saving' = [saving EXCEPT !.at = "review"] /\ saving.failed = {}
      \/ saving' = W!NoSave
  BY DEF W!AllCreated
<1>6. /\ saving' \in W!Saves
      /\ \/ saving'.at = "saved" /\ saving'.of = saving.of
         \/ saving'.at = "review" /\ saving'.of = saving.of /\ saving.failed = {}
         \/ saving' = W!NoSave /\ saving'.at = "idle"
  <2>1. CASE saving' = [saving EXCEPT !.at = "saved"]
    BY <1>1, <2>1, SaveAt DEF Stages
  <2>2. CASE saving' = [saving EXCEPT !.at = "review"] /\ saving.failed = {}
    BY <1>1, <2>2, SaveAt DEF Stages
  <2> QED  BY <1>2, <2>1, <2>2, NoSaveOK
<1>3. W!TypeOK'
  BY <1>1, <1>6 DEF WizardInv, W!TypeOK
<1>4. SaveOfProduct' /\ SaveAccounts'
  BY <1>1, <1>6 DEF WizardInv, SaveOfProduct, SaveAccounts
<1>5. StoredWanted' /\ W!ReviewedWhole'
  BY <1>1 DEF WizardInv, StoredWanted, W!ReviewedWhole, W!InReview
<1> QED  BY <1>3, <1>4, <1>5 DEF WizardInv

LEMMA SubmitReviewInv ==
  ASSUME WizardInv, W!SubmitReview
  PROVE  WizardInv'
<1> DEFINE p == saving.of
           reviewed == [products EXCEPT ![p].st = "pending_review"]
<1>1. /\ saving.at = "review" /\ saving \in W!Saves /\ page = 0
      /\ p \in DOMAIN products /\ products \in Seq(Product)
      /\ products[p].wanted \subseteq products[p].skus
      /\ UNCHANGED <<page, step, filled, local>>
  BY DEF W!SubmitReview, WizardInv, W!TypeOK, Product, SaveOfProduct, SaveAccounts, W!NoSave
<1>2. /\ products' \in {products, reviewed}
      /\ saving' \in {W!NoSave, [saving EXCEPT !.at = "saved"]}
      /\ lost' \in 0..MaxLost
  BY WizardAssumption DEF W!SubmitReview, W!Lose, WizardInv, W!TypeOK
<1>3. /\ reviewed \in Seq(Product) /\ DOMAIN reviewed = DOMAIN products
      /\ \A q \in DOMAIN products : /\ q # p => reviewed[q] = products[q]
                                    /\ reviewed[q].skus = products[q].skus
                                    /\ reviewed[q].wanted = products[q].wanted
  <2>1. products[p] \in Product
    BY <1>1
  <2> QED  BY <1>1, <2>1 DEF Product
<1>8. /\ saving' \in W!Saves
      /\ \/ saving'.at = "saved" /\ saving'.of = p
         \/ saving' = W!NoSave /\ saving'.at = "idle"
  <2>1. CASE saving' = [saving EXCEPT !.at = "saved"]
    BY <1>1, <2>1, SaveAt DEF Stages
  <2> QED  BY <1>2, <2>1, NoSaveOK
<1>4. W!TypeOK'
  BY <1>1, <1>2, <1>3, <1>8 DEF WizardInv, W!TypeOK, Product
<1>5. SaveOfProduct' /\ SaveAccounts'
  BY <1>1, <1>2, <1>3, <1>8 DEF SaveOfProduct, SaveAccounts
<1>6. StoredWanted'
  BY <1>2, <1>3 DEF WizardInv, StoredWanted
<1>7. W!ReviewedWhole'
  <2>1. \A q \in DOMAIN products : products[q].st = "pending_review" =>
                                        products[q].skus = products[q].wanted
    BY ReviewedRows DEF WizardInv
  <2>2. products[p].skus = products[p].wanted
    BY <1>1 DEF WizardInv, StoredWanted
  <2>3. \A q \in DOMAIN reviewed : reviewed[q].st = "pending_review" => reviewed[q].skus = reviewed[q].wanted
    BY <1>3, <2>1, <2>2
  <2>4. \A q \in DOMAIN products' : products'[q].st = "pending_review" =>
                                         products'[q].skus = products'[q].wanted
    BY <1>2, <2>1, <2>3
  <2> QED  BY <2>4 DEF W!ReviewedWhole, W!InReview
<1> QED  BY <1>4, <1>5, <1>6, <1>7 DEF WizardInv

LEMMA SavedInv ==
  ASSUME WizardInv, W!Saved
  PROVE  WizardInv'
<1>1. /\ saving' = W!NoSave /\ page' = saving.of /\ saving \in W!Saves
      /\ UNCHANGED <<step, filled, local, products, lost>>
  BY DEF W!Saved, WizardInv, W!TypeOK
<1> QED
  BY WizardAssumption, <1>1 DEF WizardInv, W!TypeOK, W!Saves, W!NoSave, SaveOfProduct,
     SaveAccounts, StoredWanted,
              W!ReviewedWhole, W!InReview

LEMMA WizardNext ==
  ASSUME WizardInv, [W!Next]_(W!vars)
  PROVE  WizardInv'
<1>1. CASE UNCHANGED W!vars
  BY <1>1 DEF W!vars, WizardInv, W!TypeOK, SaveOfProduct, SaveAccounts, StoredWanted,
     W!ReviewedWhole,
              W!InReview
<1>2. CASE W!Next
  BY <1>2, EditInv, SubmitInv, CreateSpuInv, CreateSkuInv, AllCreatedInv, SubmitReviewInv, SavedInv
  DEF W!Next
<1> QED  BY <1>1, <1>2

-----------------------------------------------------------------------------
(* One product goes to review.                                             *)

\* The wizard has done its work: its page is left, or about to be.
WizardDone == page # 0 \/ saving.at = "saved"

\* A product in review is paid for by a lost answer, or by the wizard's end.
ReviewPaid ==
    /\ IsFiniteSet(W!InReview)
    /\ Cardinality(W!InReview) <= lost + (IF WizardDone THEN 1 ELSE 0)

\* No product goes to review.
LEMMA PaidQuietly ==
  ASSUME WizardInv, ReviewPaid, W!InReview' = W!InReview,
         lost' \in Nat, lost' >= lost, WizardDone => WizardDone'
  PROVE  ReviewPaid'
<1>1. lost \in Nat /\ Cardinality(W!InReview) \in Nat
  BY WizardAssumption, FS_CardinalityType DEF WizardInv, W!TypeOK, ReviewPaid
<1> QED  BY <1>1 DEF ReviewPaid

LEMMA PaidStep ==
  ASSUME WizardInv, WizardInv', ReviewPaid, W!Next
  PROVE  ReviewPaid'
<1>1. lost \in Nat /\ lost' \in Nat
  BY WizardAssumption DEF WizardInv, W!TypeOK
<1>2. CASE \/ W!Fill \/ W!GoNext \/ W!GoPrev
           \/ \E s \in Skus : W!AddSku(s) \/ W!RemoveSku(s)
  <2>1. UNCHANGED <<page, saving, products, lost>>
    BY <1>2 DEF W!Fill, W!GoNext, W!GoPrev, W!AddSku, W!RemoveSku
  <2> QED  BY <1>1, <2>1, PaidQuietly DEF W!InReview, WizardDone
<1>3. CASE \E r \in BOOLEAN : W!Submit(r)
  <2>1. saving = W!NoSave /\ UNCHANGED <<page, products, lost>>
    BY <1>3 DEF W!Submit, W!Submitting
  <2> QED  BY <1>1, <2>1, PaidQuietly DEF W!InReview, WizardDone, W!NoSave
<1>4. CASE W!CreateSpu
  <2>1. saving.at = "product" /\ page = 0 /\ products \in Seq(Product)
    BY <1>4 DEF W!CreateSpu, WizardInv, W!TypeOK, SaveOfProduct, W!NoSave, Product
  <2>2. ~ WizardDone /\ lost' >= lost
    BY <1>1, <1>4, <2>1 DEF W!CreateSpu, W!Lose, WizardDone
  <2>3. \/ products' = products
        \/ products' = Append(products, [st |-> "draft", skus |-> {}, wanted |-> saving.todo])
    BY <1>4 DEF W!CreateSpu
  <2>4. W!InReview' = W!InReview
    BY <2>1, <2>3 DEF W!InReview
  <2> QED  BY <1>1, <2>2, <2>4, PaidQuietly
<1>5. CASE \E s \in Skus : W!CreateSku(s)
  <2>1. PICK s \in Skus : W!CreateSku(s)
    BY <1>5
  <2>2. saving.at = "skus" /\ page = 0 /\ products \in Seq(Product) /\ saving.of \in DOMAIN products
    BY <2>1 DEF W!CreateSku, WizardInv, W!TypeOK, SaveOfProduct, W!NoSave, Product
  <2>3. ~ WizardDone /\ lost' >= lost
    BY <1>1, <2>1, <2>2 DEF W!CreateSku, W!Lose, WizardDone
  <2>4. products' \in {products, [products EXCEPT ![saving.of].skus = @ \cup {s}]}
    BY <2>1 DEF W!CreateSku
  <2>5. /\ DOMAIN products' = DOMAIN products
        /\ \A q \in DOMAIN products : products'[q].st = products[q].st
    <3>1. products[saving.of] \in Product
      BY <2>2
    <3> QED  BY <2>2, <2>4, <3>1 DEF Product
  <2>6. W!InReview' = W!InReview
    BY <2>5 DEF W!InReview
  <2> QED  BY <1>1, <2>3, <2>6, PaidQuietly
<1>6. CASE W!AllCreated
  <2>1. saving.at = "skus" /\ page = 0 /\ UNCHANGED <<products, lost>>
    BY <1>6 DEF W!AllCreated, WizardInv, SaveOfProduct, W!NoSave
  <2> QED  BY <1>1, <2>1, PaidQuietly DEF W!InReview, WizardDone
<1>7. CASE W!SubmitReview
  <2>1. /\ saving.at = "review" /\ page = 0 /\ page' = page /\ saving \in W!Saves
        /\ saving.of \in DOMAIN products /\ products \in Seq(Product)
    BY <1>7 DEF W!SubmitReview, WizardInv, W!TypeOK, SaveOfProduct, W!NoSave, Product
  <2>2. ~ WizardDone
    BY <2>1 DEF WizardDone
  <2>3. CASE products' = products /\ lost' = lost
    BY <1>1, <2>2, <2>3, PaidQuietly DEF W!InReview
  <2>4. CASE /\ products' = [products EXCEPT ![saving.of].st = "pending_review"]
             /\ \/ saving' = [saving EXCEPT !.at = "saved"] /\ lost' = lost
                \/ W!Lose
    <3>1. W!InReview' = W!InReview \cup {saving.of}
      <4>1. /\ DOMAIN products' = DOMAIN products
            /\ products'[saving.of].st = "pending_review"
            /\ \A q \in DOMAIN products : q # saving.of => products'[q] = products[q]
        <5>1. products[saving.of] \in Product
          BY <2>1
        <5> QED  BY <2>1, <2>4, <5>1 DEF Product
      <4> QED  BY <2>1, <4>1 DEF W!InReview
    <3>2. /\ IsFiniteSet(W!InReview \cup {saving.of})
          /\ Cardinality(W!InReview \cup {saving.of}) <= Cardinality(W!InReview) + 1
      <4>1. IsFiniteSet(W!InReview) /\ Cardinality(W!InReview) \in Nat
        BY FS_CardinalityType DEF ReviewPaid
      <4>2. /\ IsFiniteSet(W!InReview \cup {saving.of})
            /\ Cardinality(W!InReview \cup {saving.of}) =
                  IF saving.of \in W!InReview THEN Cardinality(W!InReview) ELSE Cardinality(W!InReview) + 1
        <5>1. \A T, x : IsFiniteSet(T) =>
                 /\ IsFiniteSet(T \cup {x})
                 /\ Cardinality(T \cup {x}) = IF x \in T THEN Cardinality(T) ELSE Cardinality(T) + 1
          BY FS_AddElement
        <5> QED  BY <4>1, <5>1
      <4> QED  BY <4>1, <4>2
    <3>3. Cardinality(W!InReview) <= lost
      BY <1>1, <2>2 DEF ReviewPaid
    <3>4. /\ Cardinality(W!InReview) \in Nat /\ Cardinality(W!InReview \cup {saving.of}) \in Nat
      BY <3>2, FS_CardinalityType DEF ReviewPaid
    <3>5. CASE W!Lose
      BY <1>1, <3>1, <3>2, <3>3, <3>4, <3>5 DEF W!Lose, ReviewPaid
    <3>6. CASE saving' = [saving EXCEPT !.at = "saved"] /\ lost' = lost
      <4>1. WizardDone'
        BY <2>1, <3>6, SaveAt DEF WizardDone, Stages
      <4> QED  BY <1>1, <3>1, <3>2, <3>3, <3>4, <3>6, <4>1 DEF ReviewPaid
    <3> QED  BY <2>4, <3>5, <3>6
  <2> QED  BY <1>7, <2>3, <2>4 DEF W!SubmitReview
<1>8. CASE W!Saved
  <2>1. /\ saving.at = "saved" /\ page' = saving.of /\ UNCHANGED <<products, lost>>
        /\ saving.of \in DOMAIN products /\ products \in Seq(Product)
    BY <1>8 DEF W!Saved, WizardInv, W!TypeOK, SaveOfProduct, Product
  <2>2. page' # 0
    BY <2>1
  <2> QED  BY <1>1, <2>1, <2>2, PaidQuietly DEF W!InReview, WizardDone
<1> QED  BY <1>2, <1>3, <1>4, <1>5, <1>6, <1>7, <1>8 DEF W!Next

-----------------------------------------------------------------------------
(* The theorems.                                                           *)

ListShown == screen = "list" => ListInv
FormShown == screen = "form" => FormInv /\ TypedInv
ImageShown == screen = "images" => ImageInv
WizardShown == screen = "wizard" => WizardInv /\ ReviewPaid

\* Every list page, once settled, shows the rows it asked for, its address and
\* its search box say so, a page number stays with the query it was chosen for,
\* and a page past the end can be left, whatever filters, words, pages, links
\* and effects follow each other.
THEOREM ListsAgreeCorrect == Spec => []ListsAgree
<1>1. Init => ListShown
  BY ListInit DEF Init, ListShown
<1>2. ListShown /\ [Next]_vars => ListShown'
  BY ScreenStays, ListsStep, ListNext DEF ListShown
<1>3. ListShown => ListsAgree
  BY ListSays DEF ListShown, ListsAgree
<1> QED  BY <1>1, <1>2, <1>3, PTL DEF Spec

LEMMA ImagesAlways == Spec => []ImageShown
<1>1. Init => ImageShown
  BY ImagesInit DEF Init, ImageShown
<1>2. ImageShown /\ [Next]_vars => ImageShown'
  BY ScreenStays, UploadsStep, ImagesNext DEF ImageShown
<1> QED  BY <1>1, <1>2, PTL DEF Spec

\* Whatever ends, fails or is rendered late, an image that was taken out does not
\* come back and the list never holds more than it allows, for both lists, as
\* long as the gallery has not been mounted again.
THEOREM ImagesKeptCorrect == Spec => []ImagesKept
<1>1. ImageShown => ImagesKept
  BY ImagesKeptNow DEF ImageShown, ImagesKept
<1> QED  BY <1>1, ImagesAlways, PTL

\* The evidence form is sent with every image the buyer chose and kept, whether
\* its upload ended before or after the last render.
THEOREM SendsAllCorrect == Spec => SendsAll
<1>1. ImageShown /\ [Next]_vars => [screen = "images" => U!AllAreSent]_vars
  BY UploadsStep, SendsAllStep DEF ImageShown
<1> QED  BY <1>1, ImagesAlways, PTL DEF Spec, SendsAll

LEMMA FormAlways == Spec => []FormShown
<1>1. Init => FormShown
  BY FormInit, TypedInit DEF Init, FormShown
<1>2. FormShown /\ [Next]_vars => FormShown'
  BY ScreenStays, FormsStep, FormNext, TypedNext DEF FormShown
<1> QED  BY <1>1, <1>2, PTL DEF Spec

\* Whichever rows of a list a form was opened for, closed and opened again, no
\* request carries text that was typed for, or read from, another row: it is
\* enough that forms of lists are reset when their row changes.  The one exception
\* is a form that reverts (the brand and category dialogs of the console), whose
\* request may carry what the end of an image upload has put back since.
THEOREM OwnRowCorrect == Spec => []OwnRow
<1>1. FormShown => OwnRow
  BY DEF FormShown, FormInv, OwnRow
<1> QED  BY <1>1, FormAlways, PTL

\* An answer closes only the opening that sent it, and no reading of the row and
\* no start of an upload touches what is being typed, for the forms that cannot be
\* left while busy and do not follow their row.  The end of an upload does not
\* either, but in a form that reverts (the brand and category dialogs), whose texts
\* it may put back to those that it captured when its image was chosen.
THEOREM TypingKeptCorrect == Spec => TypingKept
<1>1. FormShown /\ [Next]_vars => [screen = "form" => F!TypingStays]_vars
  <2> SUFFICES ASSUME FormShown, [Next]_vars, screen = "form"
               PROVE  F!TypingStays
    OBVIOUS
  <2>1. FormInv /\ [F!Next]_(F!vars)
    BY FormsStep DEF FormShown
  <2>2. CASE UNCHANGED F!vars
    BY <2>2 DEF F!vars, F!TypingStays
  <2>3. CASE F!Next
    BY <2>1, <2>3, TypingStaysStep
  <2> QED  BY <2>1, <2>2, <2>3
<1> QED  BY <1>1, FormAlways, PTL DEF Spec, TypingKept

\* When a form says that it has saved, the row holds what was typed: no blank,
\* kept row or late answer comes between.  The one exception is an emptied field
\* of an edit that is sent as null or ignored when it is empty: it says that it
\* has saved, and leaves the row as it was.
THEOREM SavesTypedCorrect == Spec => SavesTyped
<1>1. FormShown /\ [Next]_vars => [screen = "form" => F!TypedIsSaved]_vars
  BY FormsStep, SavesStep DEF FormShown
<1> QED  BY <1>1, FormAlways, PTL DEF Spec, SavesTyped

\* Whatever is typed, blanks included, opened, edited elsewhere and read again, a
\* form never sends what the schema behind it refuses, but for the fields of Lax,
\* as long as the limits of the other fields agree.
THEOREM FormsAgreeCorrect ==
  ASSUME LimitsAgree
  PROVE  Spec => []FormsAgree
<1> DEFINE FormFits == screen = "form" => FormInv /\ TypedInv /\ FitInv
<1>1. Init => FormFits
  BY FormInit, TypedInit, FitInit DEF Init
<1>2. FormFits /\ [Next]_vars => FormFits'
  BY LimitsAgree, ScreenStays, FormsStep, FormNext, TypedNext, FitNext
<1>3. FormFits => FormsAgree
  BY DEF FitInv, FormsAgree, F!FormsAgree
<1> HIDE DEF FormFits
<1> QED  BY <1>1, <1>2, <1>3, PTL DEF Spec

\* The limits of the forms of the three apps agree with the schemas of the
\* backend in every field but those of LaxFields: for every text of any length
\* with any blanks, no form of the apps is refused in another field.
THEOREM AppFormsAgree ==
  ASSUME AllForms \subseteq UserForms \cup MerchantForms \cup AdminForms,
         LaxFields \subseteq Lax
  PROVE  Spec => []FormsAgree
<1>1. LimitsAgree
  BY UserFormsAgree, MerchantFormsAgree, AdminFormsAgree, AgreesCovers DEF LimitsAgree, Agreeing
<1> QED  BY <1>1, FormsAgreeCorrect

\* Whatever the backend refuses, whatever answer is lost and whatever is edited
\* during the save (submitMutation of the page), a product that goes to review
\* has every SKU that was in the list when the button was pressed, and no other;
\* and more than one product is in review only as far as answers were lost,
\* however often the buttons are pressed.
THEOREM ReviewsWholeCorrect == Spec => []ReviewsWhole
<1>1. Init => WizardShown
  <2>1. W!Init => W!InReview = {}
    BY DEF W!Init, W!InReview
  <2>2. W!Init => ReviewPaid
    BY <2>1, FS_EmptySet DEF W!Init, ReviewPaid, WizardDone, W!NoSave
  <2> QED  BY <2>2, WizardInit DEF Init, WizardShown
<1>2. WizardShown /\ [Next]_vars => WizardShown'
  <2>1. ASSUME WizardInv, ReviewPaid, UNCHANGED W!vars PROVE ReviewPaid'
    BY <2>1 DEF W!vars, ReviewPaid, W!InReview, WizardDone
  <2> QED  BY <2>1, ScreenStays, WizardStep, WizardNext, PaidStep DEF WizardShown
<1>3. WizardShown => ReviewsWhole
  <2> SUFFICES ASSUME WizardInv, ReviewPaid PROVE W!ReviewedOnce
    BY DEF WizardShown, ReviewsWhole, WizardInv
  <2>1. lost \in Nat /\ Cardinality(W!InReview) \in Nat
    BY WizardAssumption, FS_CardinalityType DEF WizardInv, W!TypeOK, ReviewPaid
  <2>2. W!Cardinality(W!InReview) = Cardinality(W!InReview)
    BY DEF W!Cardinality, Cardinality
  <2> QED  BY <2>1, <2>2 DEF ReviewPaid, W!ReviewedOnce
<1> QED  BY <1>1, <1>2, <1>3, PTL DEF Spec
=============================================================================
