------------------------------ MODULE Uploads ------------------------------
(***************************************************************************)
(* The two image lists of the web forms: the buyer's evidence list         *)
(* (EvidenceUploader), which keeps images under way and finished ones in   *)
(* one value and patches the latest value through a ref, and the           *)
(* merchant's gallery (MultiImageUpload), which keeps the uploads under    *)
(* way to itself and appends each finished one to the value of its last    *)
(* render.                                                                 *)
(*                                                                         *)
(* React: what the user does is rendered, effects included, before the     *)
(* next event of the browser; what an upload sets is rendered later, and   *)
(* the effects of that render run later still.                             *)
(***************************************************************************)
EXTENDS Naturals, FiniteSets

CONSTANTS
    Files,       \* images the user may choose
    Cases,       \* bound: which list, mounted how often
    MaxImages    \* "max" of the list

Kinds == {"evidence", "gallery"}

VARIABLES
    case,      \* the list of this form
    value,     \* the value as it was set last
    shown,     \* the value as it was rendered last
    ref,       \* ref[i]: what the ref of the i-th mount of the list holds
    lags,      \* the effect of the last render has not run
    mount,     \* mounts so far
    mounted,   \* the list is on the screen
    net,       \* net[f]: what has become of the upload of f
    by,        \* by[f]: the mount that started it
    listed,    \* gallery: the uploads it showed at its last render
    removed,   \* images the user has taken out
    sent       \* what the form was submitted with

vars == <<case, value, shown, ref, lags, mount, mounted, net, by, listed, removed, sent>>

Value == [Files -> {"none", "going", "key"}]
Empty == [f \in Files |-> "none"]
Size(v) == Cardinality({f \in Files : v[f] # "none"})
NotSent == [f \in Files |-> FALSE]
Keys(v) == [f \in Files |-> v[f] = "key"]
Mounts == 1..case.mounts
Under(n) == {f \in Files : n[f] = "going" /\ by[f] = mount}

TypeOK ==
    /\ case \in Cases
    /\ value \in Value
    /\ shown \in Value
    /\ ref \in [Mounts -> Value]
    /\ lags \in BOOLEAN
    /\ mount \in Mounts
    /\ mounted \in BOOLEAN
    /\ net \in [Files -> {"new", "going", "done", "failed"}]
    /\ by \in [Files -> Mounts]
    /\ listed \subseteq Files
    /\ removed \subseteq Files
    /\ sent \in [Files -> BOOLEAN]

Init ==
    /\ case \in Cases
    /\ value = Empty
    /\ shown = Empty
    /\ ref = [i \in Mounts |-> Empty]
    /\ lags = FALSE
    /\ mount = 1
    /\ mounted = TRUE
    /\ net = [f \in Files |-> "new"]
    /\ by = [f \in Files |-> 1]
    /\ listed = {}
    /\ removed = {}
    /\ sent = NotSent

-----------------------------------------------------------------------------
(* Rendering. *)

\* What the user does sets v: it is rendered and its effects run at once.
Commit(v) ==
    /\ value' = v
    /\ shown' = v
    /\ ref' = [ref EXCEPT ![mount] = v]
    /\ lags' = FALSE

\* A later render shows what uploads have set.  The gallery sets its ref while
\* it renders; the evidence list in an effect, and one that still lags runs first.
Render ==
    /\ mounted
    /\ value # shown \/ listed # Under(net)
    /\ shown' = value
    /\ listed' = Under(net)
    /\ IF case.kind = "gallery"
       THEN ref' = [ref EXCEPT ![mount] = value] /\ UNCHANGED lags
       ELSE /\ ref' = IF lags THEN [ref EXCEPT ![mount] = shown] ELSE ref
            /\ lags' = TRUE
    /\ UNCHANGED <<case, value, mount, mounted, net, by, removed, sent>>

Effect ==
    /\ lags
    /\ lags' = FALSE
    /\ ref' = [ref EXCEPT ![mount] = shown]
    /\ UNCHANGED <<case, value, shown, mount, mounted, net, by, listed, removed, sent>>

-----------------------------------------------------------------------------
(* The buyer's evidence list. *)

\* applyPatch: the ref and the value of the form are set together.
ApplyPatch(i, v) ==
    /\ ref' = [ref EXCEPT ![i] = v]
    /\ value' = v
    /\ UNCHANGED <<shown, lags>>

\* handleFiles: a placeholder for every image there is room for.
HandleFiles(F) ==
    /\ case.kind = "evidence"
    /\ mounted
    /\ Size(shown) < MaxImages
    /\ Cardinality(F) <= MaxImages - Size(ref[mount])
    /\ \A f \in F : net[f] = "new"
    /\ Commit([f \in Files |-> IF f \in F THEN "going" ELSE ref[mount][f]])
    /\ net' = [f \in Files |-> IF f \in F THEN "going" ELSE net[f]]
    /\ by' = [f \in Files |-> IF f \in F THEN mount ELSE by[f]]
    /\ listed' = Under(net')
    /\ UNCHANGED <<case, mount, mounted, removed, sent>>

\* An upload makes progress, ends or fails: its item is looked up in the ref.
EvidenceProgress(f) ==
    /\ case.kind = "evidence"
    /\ net[f] = "going"
    /\ ApplyPatch(by[f], ref[by[f]])
    /\ UNCHANGED <<case, mount, mounted, net, by, listed, removed, sent>>

\* Mutant: a finished upload is put in without looking for its item.
EvidenceEndsAnyway(f) ==
    /\ case.kind = "evidence"
    /\ net[f] = "going"
    /\ \E end \in {"done", "failed"} :
        /\ net' = [net EXCEPT ![f] = end]
        /\ ApplyPatch(by[f], [ref[by[f]] EXCEPT ![f] = IF end = "done" THEN "key" ELSE "none"])
    /\ UNCHANGED <<case, mount, mounted, by, listed, removed, sent>>

EvidenceEnds(f) ==
    /\ case.kind = "evidence"
    /\ net[f] = "going"
    /\ \E end \in {"done", "failed"} :
        /\ net' = [net EXCEPT ![f] = end]
        /\ ApplyPatch(by[f], IF ref[by[f]][f] = "none" THEN ref[by[f]]
                             ELSE [ref[by[f]] EXCEPT ![f] = IF end = "done" THEN "key" ELSE "none"])
    /\ UNCHANGED <<case, mount, mounted, by, listed, removed, sent>>

\* Mutant: the form does not wait for its uploads.
EvidenceSubmitAtOnce ==
    /\ case.kind = "evidence"
    /\ mounted
    /\ sent = NotSent
    /\ sent' = Keys(shown)
    /\ UNCHANGED <<case, value, shown, ref, lags, mount, mounted, net, by, listed, removed>>

\* The form waits until nothing it shows is under way.
EvidenceSubmit ==
    /\ case.kind = "evidence"
    /\ mounted
    /\ sent = NotSent
    /\ \A f \in Files : shown[f] # "going"
    /\ sent' = Keys(shown)
    /\ UNCHANGED <<case, value, shown, ref, lags, mount, mounted, net, by, listed, removed>>

-----------------------------------------------------------------------------
(* The merchant's gallery. *)

\* onFileChange: as many uploads as fit beside what the last render showed.
OnFileChange(F) ==
    /\ case.kind = "gallery"
    /\ mounted
    /\ Cardinality(F) <= MaxImages - (Size(shown) + Cardinality(listed))
    /\ \A f \in F : net[f] = "new"
    /\ net' = [f \in Files |-> IF f \in F THEN "going" ELSE net[f]]
    /\ by' = [f \in Files |-> IF f \in F THEN mount ELSE by[f]]
    /\ listed' = {f \in Files : net'[f] = "going" /\ by'[f] = mount}
    /\ Commit(value)
    /\ UNCHANGED <<case, mount, mounted, removed, sent>>

\* uploadOne: the finished image is appended to the value of the last render
\* of the list that started it; a failed one leaves no trace.
UploadEnds(f) ==
    /\ case.kind = "gallery"
    /\ net[f] = "going"
    /\ \E end \in {"done", "failed"} :
        /\ net' = [net EXCEPT ![f] = end]
        /\ value' = IF end = "done" THEN [ref[by[f]] EXCEPT ![f] = "key"] ELSE value
    /\ UNCHANGED <<case, shown, ref, lags, mount, mounted, by, listed, removed, sent>>

\* The next step of the wizard, or the end of a dialog, takes the list off the
\* screen; its uploads go on.  Coming back mounts another one.
Unmount ==
    /\ case.kind = "gallery"
    /\ mounted
    /\ mount < case.mounts
    /\ mounted' = FALSE
    /\ UNCHANGED <<case, value, shown, ref, lags, mount, net, by, listed, removed, sent>>

Mount ==
    /\ ~ mounted
    /\ mounted' = TRUE
    /\ mount' = mount + 1
    /\ shown' = value
    /\ ref' = [ref EXCEPT ![mount + 1] = value]
    /\ listed' = {}
    /\ UNCHANGED <<case, value, lags, net, by, removed, sent>>

-----------------------------------------------------------------------------
\* Both lists take an image out of the value they were rendered with.
RemoveAt(f) ==
    /\ mounted
    /\ shown[f] # "none"
    /\ Commit([shown EXCEPT ![f] = "none"])
    /\ removed' = removed \cup {f}
    /\ listed' = Under(net)
    /\ UNCHANGED <<case, mount, mounted, net, by, sent>>

Next ==
    \/ Render \/ Effect \/ EvidenceSubmit \/ Unmount \/ Mount
    \/ \E F \in SUBSET Files \ {{}} : HandleFiles(F) \/ OnFileChange(F)
    \/ \E f \in Files :
            EvidenceProgress(f) \/ EvidenceEnds(f) \/ UploadEnds(f) \/ RemoveAt(f)

Spec == Init /\ [][Next]_vars

-----------------------------------------------------------------------------
(* Properties. *)

\* A gallery that was mounted again knows nothing of the uploads of the one
\* before, which go on setting the value.
Remounted == mount > 1

\* The form is never given more images than the list allows (the backend would
\* refuse it): placeholders count, and so do the uploads of the gallery.
AtMostMax == Size(value) <= MaxImages \/ Remounted

\* What the user has taken out does not come back with the next upload that ends.
StaysRemoved == (\A f \in removed : value[f] = "none") \/ Remounted

\* The evidence form is submitted with every image the user chose and kept,
\* unless its upload has failed.
AllAreSent ==
    case.kind = "evidence" /\ sent' # sent =>
        \A f \in Files : net[f] \in {"going", "done"} /\ f \notin removed => sent'[f]
SendsAll == [][AllAreSent]_vars

\* A finished upload is in the value, whatever else has finished meanwhile
\* (MultiImageUpload.tsx: the ref holds the latest value, so that one that comes
\* back does not overwrite another that was successful).
KeepsUploads ==
    \A f \in Files : net[f] = "done" => value[f] = "key" \/ f \in removed
=============================================================================
