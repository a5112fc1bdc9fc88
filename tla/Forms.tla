------------------------------- MODULE Forms -------------------------------
(***************************************************************************)
(* A form of one of the web apps, from the click that opens it to the row  *)
(* that its text is stored in.  FormPages describes every form of the      *)
(* three apps in these terms:                                              *)
(*   opens    "fresh"    mounted or reset whenever it is opened            *)
(*            "lastKey"  reset when it is opened for another row than the  *)
(*                       last time                                         *)
(*            "kept"     never reset                                       *)
(*   many     it belongs to a list: it can be opened for any of its rows   *)
(*   leaves   it can be left while its request is under way                *)
(*   edits    it starts from the text of the row                           *)
(*   follows  it starts again when the row it edits is read again          *)
(*   reverts  the end of an image upload puts all its texts back to what    *)
(*            they were when the image was chosen                          *)
(* and each of its text fields:                                            *)
(*   min, max   what the form lets pass, of the "trimmed" or "raw" text    *)
(*   cap        what the input lets be typed (maxLength)                   *)
(*   sends      the "trimmed" or the "raw" text                            *)
(*   keeps      what leaves the row as it is: "nothing", or a "blank" text *)
(*              (omitted, or null and ignored)                             *)
(*   smin, smax what the schema of the backend takes                       *)
(***************************************************************************)
EXTENDS Naturals, FiniteSets

CONSTANTS
    AllForms,    \* the forms of this instance
    Lax,         \* fields whose form passes what the schema refuses
    MaxOpenings, \* bound: how often the form is opened
    MaxTypings,  \* bound: texts typed
    MaxFaults,   \* bound: changes of the rows by others, and lost requests
    MaxUploads   \* bound: image uploads of the form under way

VARIABLES
    form,    \* the form
    field,   \* one of its fields
    shape,   \* the length of what is typed, and the blanks around it
    stored,  \* stored[r]: the text of row r
    about,   \* the row the form is open for, 0 if it is closed
    box,     \* the text in the field
    origin,  \* the row that text was typed for or read from
    putBack, \* it was put back by the end of an upload
    uploads, \* image uploads under way, with the text and origin they captured
    lastKey, \* the row of the last reset
    opening, \* how often the form was opened
    calls,   \* requests under way
    typed,   \* texts typed so far
    faults   \* changes by others and lost requests so far

vars ==
    <<form, field, shape, stored, about, box, origin, putBack, uploads, lastKey, opening,
      calls, typed, faults>>

\* Texts differ in their length, the blanks around them, and in who wrote them:
\* the n-th text typed, or somebody else (0).
Text(len, pad, by) == [len |-> len, pad |-> pad, by |-> by]
Blank == Text(0, 0, 0)
Old(f) == Text(f.smin, 0, 0)
Size(t, of) == IF of = "raw" THEN t.len + t.pad ELSE t.len
Lengths(f) ==
    {f.min, f.min + 1, f.max, f.max + 1, f.smin, f.smax, f.smax + 1, 0}
        \cup (IF f.min > 0 THEN {f.min - 1} ELSE {})
\* A text of nothing but blanks may be as long as the form wants.
Shapes(f) == {s \in [len : Lengths(f), pad : {0, 2, f.min}] : s.len + s.pad <= f.cap}

Rows(f) == IF f.many THEN {1, 2} ELSE {1}

Init ==
    /\ form \in AllForms
    /\ field \in form.fields
    /\ shape \in Shapes(field)
    /\ stored = [r \in Rows(form) |-> IF form.edits THEN Old(field) ELSE Blank]
    /\ about = 0
    /\ box = Blank
    /\ origin = 0
    /\ putBack = FALSE
    /\ uploads = {}
    /\ lastKey = 0
    /\ opening = 0
    /\ calls = {}
    /\ typed = 0
    /\ faults = 0

-----------------------------------------------------------------------------
\* What the form starts from for row r.
Start(r) == IF form.edits THEN stored[r] ELSE Blank

\* Mutant: a form for the rows of a list is reset the first time only.
OpenOnce(r) ==
    /\ about = 0
    /\ opening < MaxOpenings
    /\ opening' = opening + 1
    /\ about' = r
    /\ IF form.opens = "kept" \/ (form.opens = "lastKey" /\ lastKey # 0)
       THEN UNCHANGED <<box, origin, putBack, lastKey>>
       ELSE box' = Start(r) /\ origin' = r /\ putBack' = FALSE /\ lastKey' = r
    /\ UNCHANGED <<form, field, shape, stored, uploads, calls, typed, faults>>

Open(r) ==
    /\ about = 0
    /\ opening < MaxOpenings
    /\ opening' = opening + 1
    /\ about' = r
    /\ IF form.opens = "kept" \/ (form.opens = "lastKey" /\ lastKey = r)
       THEN UNCHANGED <<box, origin, putBack, lastKey>>
       ELSE box' = Start(r) /\ origin' = r /\ putBack' = FALSE /\ lastKey' = r
    /\ UNCHANGED <<form, field, shape, stored, uploads, calls, typed, faults>>

Type ==
    /\ about # 0
    /\ typed < MaxTypings
    /\ typed' = typed + 1
    /\ box' = Text(shape.len, shape.pad, typed + 1)
    /\ origin' = about
    /\ putBack' = FALSE
    /\ UNCHANGED <<form, field, shape, stored, about, uploads, lastKey, opening, calls, faults>>

\* handleFile starts an upload, and holds on to the onChange of the render it
\* was called in, which holds on to the values of that render.
ChooseImage ==
    /\ about # 0
    /\ form.reverts
    /\ Cardinality(uploads) < MaxUploads
    /\ uploads' = uploads \cup {[text |-> box, origin |-> origin]}
    /\ UNCHANGED <<form, field, shape, stored, about, box, origin, putBack, lastKey, opening,
                   calls, typed, faults>>

\* It fails, or sets all values of the form as it is by now, open or not, to
\* those it holds on to.
UploadEnds(u) ==
    /\ uploads' = uploads \ {u}
    /\ \/ box' = u.text /\ origin' = u.origin /\ putBack' = TRUE
       \/ UNCHANGED <<box, origin, putBack>>
    /\ UNCHANGED <<form, field, shape, stored, about, lastKey, opening, calls, typed, faults>>

\* The request of this opening is under way: its button shows that it is busy.
Busy == \E c \in calls : c.opening = opening

\* Mutant: every form can be left while its request is under way.
CloseBusy ==
    /\ about # 0
    /\ about' = 0
    /\ UNCHANGED <<form, field, shape, stored, box, origin, putBack, uploads, lastKey, opening,
                   calls, typed, faults>>

Close ==
    /\ about # 0
    /\ form.leaves \/ ~ Busy
    /\ about' = 0
    /\ UNCHANGED <<form, field, shape, stored, box, origin, putBack, uploads, lastKey, opening,
                   calls, typed, faults>>

Passes(t) == Size(t, field.of) \in field.min..field.max
Sent(t) == IF field.sends = "raw" THEN t ELSE [t EXCEPT !.pad = 0]

Submit ==
    /\ about # 0
    /\ ~ Busy
    /\ Passes(box)
    /\ calls' = calls \cup {[opening |-> opening, row |-> about, text |-> Sent(box),
                             origin |-> origin, putBack |-> putBack, typed |-> box,
                             st |-> "sent"]}
    /\ UNCHANGED <<form, field, shape, stored, about, box, origin, putBack, uploads, lastKey,
                   opening, typed, faults>>

-----------------------------------------------------------------------------
(* The backend. *)

\* Mutant: no field can be emptied.
LeavesRowBlank(t) == t.len + t.pad = 0

LeavesRow(t) == field.keeps = "blank" /\ t.len + t.pad = 0
\* A command makes a record of its own, an edit changes the row.
Stored(c) ==
    IF ~ LeavesRow(c.text) THEN c.text ELSE IF form.edits THEN stored[c.row] ELSE Blank
SchemaTakes(t) == LeavesRow(t) \/ t.len + t.pad \in field.smin..field.smax

\* The form follows a row it has read again.
Follow(r) ==
    IF form.follows /\ about = r THEN box' = stored'[r] /\ origin' = r /\ putBack' = FALSE
    ELSE UNCHANGED <<box, origin, putBack>>

Serve(c) ==
    /\ c.st = "sent"
    /\ IF SchemaTakes(c.text)
       THEN /\ calls' = (calls \ {c}) \cup {[c EXCEPT !.st = "ok"]}
            /\ stored' = [stored EXCEPT ![c.row] = Stored(c)]
       ELSE calls' = (calls \ {c}) \cup {[c EXCEPT !.st = "refused"]} /\ UNCHANGED stored
    /\ UNCHANGED <<form, field, shape, about, box, origin, putBack, uploads, lastKey, opening,
                   typed, faults>>

\* onSuccess closes the form and has the row read again.
Done(c) ==
    /\ c.st = "ok"
    /\ calls' = calls \ {c}
    /\ about' = 0
    /\ UNCHANGED <<form, field, shape, stored, box, origin, putBack, uploads, lastKey, opening,
                   typed, faults>>

\* onError only tells the user.
Failed(c) ==
    /\ \/ c.st = "refused" /\ UNCHANGED faults
       \/ faults < MaxFaults /\ faults' = faults + 1
    /\ calls' = calls \ {c}
    /\ UNCHANGED <<form, field, shape, stored, about, box, origin, putBack, uploads, lastKey,
                   opening, typed>>

\* Somebody else changes a row, and the page reads it again.
Elsewhere(r) ==
    /\ form.edits
    /\ faults < MaxFaults
    /\ faults' = faults + 1
    /\ stored' = [stored EXCEPT ![r] = Text(field.smax, 0, 0)]
    /\ stored' # stored
    /\ Follow(r)
    /\ UNCHANGED <<form, field, shape, about, uploads, lastKey, opening, calls, typed>>

Next ==
    \/ \E r \in Rows(form) : Open(r) \/ Elsewhere(r)
    \/ Type \/ Close \/ Submit \/ ChooseImage
    \/ \E u \in uploads : UploadEnds(u)
    \/ \E c \in calls : Serve(c) \/ Done(c) \/ Failed(c)

Spec == Init /\ [][Next]_vars

-----------------------------------------------------------------------------
(* Properties. *)

IsText(t) == t.len \in Nat /\ t.pad \in Nat /\ t.by \in 0..MaxTypings

\* With that, an opening has at most one request under way: a second click
\* sends nothing.
TypeOK ==
    /\ form \in AllForms
    /\ field \in form.fields
    /\ DOMAIN stored = Rows(form)
    /\ \A r \in Rows(form) : IsText(stored[r])
    /\ {about, origin, lastKey} \subseteq Rows(form) \cup {0}
    /\ IsText(box)
    /\ \A u \in uploads : IsText(u.text) /\ u.origin \in Rows(form)
    /\ putBack => form.reverts
    /\ opening \in 0..MaxOpenings
    /\ \A c \in calls : c.st \in {"sent", "ok", "refused"} /\ c.row \in Rows(form)
    /\ Cardinality({c.opening : c \in calls}) = Cardinality(calls)

\* What was typed for one row, or read from it, is never sent for another one,
\* whichever rows of the list the form was opened for before: but for what the
\* late end of an image upload has put back into a form that reverts.
OwnRow == \A c \in calls : c.origin \in {c.row, 0} \/ (form.reverts /\ c.putBack)

\* That exception left out.
ResetForItsRow == \A c \in calls : c.origin \in {c.row, 0}

\* What the form lets pass the schema takes: the limits are written twice, in
\* the form and in the backend.  Lax names the fields where they have come apart.
FormsAgree ==
    \A c \in calls : c.st = "refused" => field \in Lax

\* Nothing but the user's own doing takes away what is being typed: an answer
\* closes the form only for the opening that sent it, and neither a row that is
\* read again nor the start or end of an upload touches it; but for forms that
\* can be left while busy, for those that follow their row, and for those that
\* revert, whose texts the end of an upload puts back.
TypingStays ==
    /\ ~ form.leaves /\ ~ form.follows /\ about # 0
    /\ calls' # calls \/ stored' # stored \/ uploads' # uploads
    =>  \/ UNCHANGED <<about, box>>
        \/ \E c \in calls \ calls' : c.opening = opening
        \/ form.reverts /\ about' = about /\ \E u \in uploads \ uploads' : box' = u.text
TypingKept == [][TypingStays]_vars

SavedNow(c) == c \in calls /\ c.st = "sent" /\ [c EXCEPT !.st = "ok"] \in calls'

\* When the form says that it has saved, the row holds what was typed, blanks
\* around it aside, and a field that was emptied is empty: but for an emptied
\* field that the form sends as null or the backend takes for not given, which
\* an edit leaves as it was (Subtitle, Description, BrandDescription and the
\* description and announcement of the shop).
TypedIsSaved ==
    \A c \in calls :
        SavedNow(c) =>
            \/ /\ stored'[c.row].len = c.typed.len
               /\ stored'[c.row].len > 0 => stored'[c.row].by = c.typed.by
            \/ field.keeps = "blank" /\ form.edits /\ c.text.len + c.text.pad = 0
SavesTyped == [][TypedIsSaved]_vars

\* That exception left out: a field that was emptied is empty.
EmptiedIsEmpty ==
    \A c \in calls : SavedNow(c) /\ c.typed.len = 0 => stored'[c.row].len = 0
=============================================================================
