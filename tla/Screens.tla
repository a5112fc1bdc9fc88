------------------------------ MODULE Screens ------------------------------
(***************************************************************************)
(* What a tab of one of the web apps can show beside the pages of a row:   *)
(* a list, a form, an image list, or the merchant's wizard.  One           *)
(* specification goes through all of them: the tab shows one screen, and   *)
(* the variables of the others rest.                                       *)
(***************************************************************************)
EXTENDS Naturals, FiniteSets

CONSTANTS
    PageShapes, MaxTotal, MaxClicks, MaxChanges,        \* of Lists
    AllForms, Lax, MaxOpenings, MaxTypings, MaxFaults, MaxUploads,  \* of Forms
    Files, Cases, MaxImages,                            \* of Uploads
    Skus, Enabled, MaxProducts, MaxLost                 \* of Wizard

\* The list pages are of the kinds the apps have: what mirrors its state to the
\* address asks for typed words late, and the page of search results has no box
\* of its own.
ASSUME ListsAssumption ==
    /\ MaxTotal \in Nat \ {0}
    /\ \A l \in PageShapes :
         /\ l.url = "mirror" => l.text # "submit"
         /\ l.url = "keyword" => l.text = "none" /\ l.clear = "none"
         /\ l.pager \in {"always", "total", "many", "rows"}

\* A form that is never reset belongs to one row, not to a list.
ASSUME FormsAssumption ==
    \A f \in AllForms :
        /\ f.opens = "kept" => ~ f.many
        /\ \A x \in f.fields : {x.min, x.max, x.smin, x.smax} \subseteq Nat /\ x.smin <= x.smax

ASSUME ImagesAssumption ==
    /\ IsFiniteSet(Files)
    /\ MaxImages \in Nat
    /\ \A k \in Cases : k.kind \in {"evidence", "gallery"} /\ k.mounts \in Nat \ {0}

ASSUME WizardAssumption == MaxProducts \in Nat /\ MaxLost \in Nat

VARIABLES
    screen,
    list, link, url, before, at, words, edited, timer, due, detoured, touched,
    chosen, reading, rows, total, clicks, changes,
    form, field, shape, stored, about, box, origin, putBack, uploads, lastKey,
    opening, calls, typed, faults,
    case, value, shown, ref, lags, mount, mounted, net, by, listed, removed, sent,
    page, step, filled, local, saving, products, lost

L == INSTANCE Lists
F == INSTANCE Forms
U == INSTANCE Uploads
W == INSTANCE Wizard

listVars ==
    <<list, link, url, before, at, words, edited, timer, due, detoured, touched, chosen,
      reading, rows, total, clicks, changes>>
formVars ==
    <<form, field, shape, stored, about, box, origin, putBack, uploads, lastKey, opening,
      calls, typed, faults>>
imageVars ==
    <<case, value, shown, ref, lags, mount, mounted, net, by, listed, removed, sent>>
wizardVars ==
    <<page, step, filled, local, saving, products, lost>>
vars == <<screen, listVars, formVars, imageVars, wizardVars>>

NoList ==
    /\ list = 0 /\ link = 0 /\ url = 0 /\ before = 0 /\ at = 0 /\ words = 0
    /\ edited = 0 /\ timer = 0 /\ due = 0 /\ detoured = 0 /\ touched = 0 /\ chosen = 0
    /\ reading = 0 /\ rows = 0 /\ total = 0 /\ clicks = 0 /\ changes = 0
NoForm ==
    /\ form = 0 /\ field = 0 /\ shape = 0 /\ stored = 0 /\ about = 0 /\ box = 0
    /\ origin = 0 /\ putBack = 0 /\ uploads = 0 /\ lastKey = 0 /\ opening = 0
    /\ calls = 0 /\ typed = 0 /\ faults = 0
NoImages ==
    /\ case = 0 /\ value = 0 /\ shown = 0 /\ ref = 0 /\ lags = 0 /\ mount = 0
    /\ mounted = 0 /\ net = 0 /\ by = 0 /\ listed = 0 /\ removed = 0 /\ sent = 0
NoWizard ==
    /\ page = 0 /\ step = 0 /\ filled = 0 /\ local = 0 /\ saving = 0 /\ products = 0
    /\ lost = 0

Init ==
    \/ screen = "list" /\ L!Init /\ NoForm /\ NoImages /\ NoWizard
    \/ screen = "form" /\ F!Init /\ NoList /\ NoImages /\ NoWizard
    \/ screen = "images" /\ U!Init /\ NoList /\ NoForm /\ NoWizard
    \/ screen = "wizard" /\ W!Init /\ NoList /\ NoForm /\ NoImages

\* The tab shows the screen, and the others rest.
ShowsLists == screen = "list" /\ UNCHANGED <<screen, formVars, imageVars, wizardVars>>
ShowsForms == screen = "form" /\ UNCHANGED <<screen, listVars, imageVars, wizardVars>>
ShowsUploads == screen = "images" /\ UNCHANGED <<screen, listVars, formVars, wizardVars>>
ShowsWizard == screen = "wizard" /\ UNCHANGED <<screen, listVars, formVars, imageVars>>

Next ==
    \/ ShowsLists /\ L!Filter
    \/ ShowsLists /\ L!Type
    \/ ShowsLists /\ L!Submit
    \/ ShowsLists /\ L!Search
    \/ ShowsLists /\ L!ChoosePage
    \/ ShowsLists /\ L!Clear
    \/ ShowsLists /\ L!Back
    \/ ShowsLists /\ L!SameLink
    \/ ShowsLists /\ L!Timer
    \/ ShowsLists /\ L!SyncUrl
    \/ ShowsLists /\ L!Arrive
    \/ ShowsLists /\ L!Elsewhere
    \/ ShowsForms /\ \E r \in F!Rows(form) : F!Open(r)
    \/ ShowsForms /\ \E r \in F!Rows(form) : F!Elsewhere(r)
    \/ ShowsForms /\ F!Type
    \/ ShowsForms /\ F!Close
    \/ ShowsForms /\ F!Submit
    \/ ShowsForms /\ F!ChooseImage
    \/ ShowsForms /\ \E u \in uploads : F!UploadEnds(u)
    \/ ShowsForms /\ \E c \in calls : F!Serve(c)
    \/ ShowsForms /\ \E c \in calls : F!Done(c)
    \/ ShowsForms /\ \E c \in calls : F!Failed(c)
    \/ ShowsUploads /\ U!Render
    \/ ShowsUploads /\ U!Effect
    \/ ShowsUploads /\ U!EvidenceSubmit
    \/ ShowsUploads /\ U!Unmount
    \/ ShowsUploads /\ U!Mount
    \/ ShowsUploads /\ \E I \in SUBSET Files \ {{}} : U!HandleFiles(I)
    \/ ShowsUploads /\ \E I \in SUBSET Files \ {{}} : U!OnFileChange(I)
    \/ ShowsUploads /\ \E f \in Files : U!EvidenceProgress(f)
    \/ ShowsUploads /\ \E f \in Files : U!EvidenceEnds(f)
    \/ ShowsUploads /\ \E f \in Files : U!UploadEnds(f)
    \/ ShowsUploads /\ \E f \in Files : U!RemoveAt(f)
    \/ ShowsWizard /\ W!Fill
    \/ ShowsWizard /\ W!GoNext
    \/ ShowsWizard /\ W!GoPrev
    \/ ShowsWizard /\ W!CreateSpu
    \/ ShowsWizard /\ W!AllCreated
    \/ ShowsWizard /\ W!SubmitReview
    \/ ShowsWizard /\ W!Saved
    \/ ShowsWizard /\ \E s \in Skus : W!AddSku(s)
    \/ ShowsWizard /\ \E s \in Skus : W!RemoveSku(s)
    \/ ShowsWizard /\ \E s \in Skus : W!CreateSku(s)
    \/ ShowsWizard /\ \E r \in BOOLEAN : W!Submit(r)

Spec == Init /\ [][Next]_vars

-----------------------------------------------------------------------------
(* The properties of each screen, where it is shown. *)

\* Every list page, once settled, shows the rows it asked for, its address and
\* search box hold that query, a page number stays with the query it was chosen
\* for, and a page past the end has buttons to come back (Lists).
ListsAgree == screen = "list" => L!SaysWhatItShows /\ L!PageBelongs /\ L!NotStranded

\* What was typed for one row is never sent for another, but for what the end of
\* an image upload has put back into a form that reverts (Forms).
OwnRow == screen = "form" => F!OwnRow

\* What a form lets pass the schema takes, the fields of Lax aside (Forms).
FormsAgree == screen = "form" => F!FormsAgree

\* Nothing but the user's own doing takes away what is being typed, in forms that
\* neither can be left while busy nor follow their row; in one that reverts, the
\* end of an image upload puts its texts back (Forms).
TypingKept == [][screen = "form" => F!TypingStays]_vars

\* A form that says it has saved has stored what was typed, but for an emptied
\* field that an edit sends as null or the backend ignores when it is empty
\* (Forms).
SavesTyped == [][screen = "form" => F!TypedIsSaved]_vars

\* A removed image does not come back with the next upload that ends, and the
\* list never holds more images than it allows (Uploads).
ImagesKept == screen = "images" => U!StaysRemoved /\ U!AtMostMax

\* The evidence form is sent with every image chosen and kept (Uploads).
SendsAll == [][screen = "images" => U!AllAreSent]_vars

\* A product that went to review has every SKU of its list, and goes twice only
\* when an answer was lost (Wizard).
ReviewsWhole == screen = "wizard" => W!ReviewedWhole /\ W!ReviewedOnce

-----------------------------------------------------------------------------
(* What the comments promise and two forms of the console and one of the   *)
(* merchant's app break.                                                   *)

\* categories/page.tsx: "mode 变化时重置表单" (the form is reset when it is opened
\* for another row), so that what it sends was typed for, or read from, that row.
ResetForItsRow == screen = "form" => F!ResetForItsRow

\* merchant_service.py: "Empty string is treated as "clear"": a text that was
\* emptied is empty once the form says that it has saved.
EmptiedIsEmpty == [][screen = "form" => F!EmptiedIsEmpty]_vars
=============================================================================
