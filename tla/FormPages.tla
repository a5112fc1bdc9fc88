----------------------------- MODULE FormPages -----------------------------
(***************************************************************************)
(* The forms of the three web apps, as Forms tells them apart: how each    *)
(* opens and ends, and the limits of its text fields on both sides.        *)
(***************************************************************************)
EXTENDS Naturals

\* A field: limits of the form, limits of the schema; checked and sent trimmed.
Field(min, max, smin, smax) ==
    [min |-> min, max |-> max, of |-> "trimmed", cap |-> max + 3, sends |-> "trimmed",
     keeps |-> "nothing", smin |-> smin, smax |-> smax]
\* checked as it was typed, sent trimmed
Untrimmed(min, max, smin, smax) == [Field(min, max, smin, smax) EXCEPT !.of = "raw"]
\* checked and sent as it was typed
Plain(min, max, smin, smax) ==
    [Untrimmed(min, max, smin, smax) EXCEPT !.sends = "raw"]
\* what is blank is not sent, or sent as null
Optional(max, smax) == [Untrimmed(0, max, 0, smax) EXCEPT !.keeps = "blank"]
\* the input takes no more characters
Capped(f) == [f EXCEPT !.cap = f.max]

Form(fields) ==
    [opens |-> "fresh", many |-> FALSE, leaves |-> FALSE, edits |-> FALSE, follows |-> FALSE,
     reverts |-> FALSE, fields |-> fields]
OfList(form) == [form EXCEPT !.many = TRUE]
Editing(form) == [form EXCEPT !.edits = TRUE]
Leavable(form) == [form EXCEPT !.leaves = TRUE]
Following(form) == [form EXCEPT !.follows = TRUE]
Reverting(form) == [form EXCEPT !.reverts = TRUE]

Password == Plain(8, 64, 8, 64)

-----------------------------------------------------------------------------
(* The buyer's app. *)

LoginPage == Leavable(Form({Field(1, 120, 1, 120), Plain(8, 64, 1, 64)}))
RegisterPage == Leavable(Form({Password, Optional(60, 60)}))
ForgotPasswordPage == Leavable(Form({Field(1, 120, 1, 120)}))
ResetPasswordPage == Leavable(Form({Plain(6, 6, 6, 6), Password}))
Nickname == Capped(Untrimmed(1, 60, 1, 60))
EditNicknameModal == Leavable(Editing(Form({Nickname})))
ChangePasswordModal == Leavable(Form({Plain(1, 64, 1, 64), Password}))

Receiver == Capped(Untrimmed(1, 60, 1, 60))
Detail == Capped(Untrimmed(1, 200, 1, 200))
PostalCode == Capped(Untrimmed(0, 10, 0, 10))
AddressFormModal == Leavable(OfList(Editing(Form({Receiver, Detail, PostalCode}))))

ShopName == Untrimmed(2, 120, 1, 120)
ContactName == Untrimmed(2, 60, 1, 60)
LicenseNo == Untrimmed(10, 50, 1, 50)
SubmitApplication == Leavable(Form({ShopName, ContactName, LicenseNo, Optional(500, 2000)}))

ReviewContent == Capped(Field(5, 2000, 5, 2000))
EditReviewModal == Leavable(OfList(Editing(Form({ReviewContent}))))
WriteReview == Leavable(OfList(Form({ReviewContent})))
ReportReviewModal == Leavable(OfList(Form({Capped(Optional(500, 500))})))

ApplyForm == Leavable(Form({Capped(Field(10, 500, 10, 500))}))
AppealModal == Form({Capped(Field(20, 500, 20, 500))})
AddEvidenceModal == Form({Capped(Optional(200, 200))})
ReturnTrackingForm == Form({Field(8, 40, 4, 60)})
CheckoutNote == Leavable(Form({Capped(Optional(200, 500))}))

UserForms ==
    {LoginPage, RegisterPage, ForgotPasswordPage, ResetPasswordPage, EditNicknameModal,
     ChangePasswordModal, AddressFormModal, SubmitApplication, EditReviewModal, WriteReview,
     ReportReviewModal, ApplyForm, AppealModal, AddEvidenceModal, ReturnTrackingForm,
     CheckoutNote}

-----------------------------------------------------------------------------
(* The merchant's app. *)

MerchantLogin == Leavable(Form({Plain(2, 60, 1, 60), Plain(8, 64, 1, 64)}))
MerchantChangePassword == Leavable(Form({Plain(8, 64, 1, 64), Password}))
ShipOrderModal == OfList(Form({[Capped(Field(6, 30, 6, 30)) EXCEPT !.sends = "raw"]}))
CancelOrderModal == OfList(Form({Capped(Field(5, 200, 0, 500))}))
MerchantNote == Capped(Untrimmed(0, 500, 1, 500))
MerchantNoteEditor == Editing(Form({MerchantNote}))
AftersalesNoteEditor == Editing(Form({MerchantNote}))
ApproveModal == Form({Capped(Field(10, 200, 0, 400)), Capped(Optional(500, 500))})
\* Mutant: one character less than the schema wants.
RejectModalShort == Form({Capped(Field(4, 500, 5, 500))})

RejectModal == Form({Capped(Field(5, 500, 5, 500))})
ConfirmReceivedModal == Form({Capped(Optional(200, 500))})
RefuseReceiveModal == Form({Capped(Field(10, 500, 10, 500))})
ShipExchangeModal == Form({[Capped(Field(6, 30, 4, 60)) EXCEPT !.sends = "raw"]})
ReplyEditor == Following(OfList(Editing(Form({Field(5, 500, 5, 500)}))))

Title == Plain(1, 200, 1, 200)
Subtitle == [Plain(0, 200, 0, 200) EXCEPT !.keeps = "blank"]
Description == [Plain(0, 5000, 0, 20000) EXCEPT !.keeps = "blank"]
BasicInfoTab == Following(Editing(Form({Title, Subtitle, Description})))
SkuCode == Field(1, 60, 1, 60)
SKUFormModal == OfList(Form({SkuCode}))
AdjustInventoryModal == OfList(Form({Untrimmed(0, 200, 0, 1000)}))
ShopHomepageEditor ==
    Leavable(Editing(Form({Plain(2, 60, 1, 60),
                           [Plain(0, 500, 0, 2000) EXCEPT !.keeps = "blank"],
                           [Plain(0, 1000, 0, 2000) EXCEPT !.keeps = "blank"]})))

MerchantForms ==
    {MerchantLogin, MerchantChangePassword, ShipOrderModal, CancelOrderModal,
     MerchantNoteEditor, AftersalesNoteEditor, ApproveModal, RejectModal,
     ConfirmReceivedModal, RefuseReceiveModal, ShipExchangeModal, ReplyEditor, BasicInfoTab,
     SKUFormModal, AdjustInventoryModal, ShopHomepageEditor}

-----------------------------------------------------------------------------
(* The console. *)

AdminLogin == Leavable(Form({Field(1, 60, 1, 60), Plain(1, 64, 1, 64)}))
AdminChangePassword == Leavable(Form({Plain(1, 64, 1, 64), Password}))
BrandDescription == [Capped(Field(0, 500, 0, 2000)) EXCEPT !.keeps = "blank"]
BrandFormModal ==
    [Reverting(OfList(Editing(Form({Capped(Field(1, 80, 1, 80)), Capped(Field(2, 80, 1, 80)),
                                    BrandDescription})))) EXCEPT !.opens = "lastKey"]
CategoryFormModal ==
    [Reverting(OfList(Editing(Form({Capped(Field(1, 60, 1, 60)),
                                    Capped(Field(2, 60, 1, 60))}))))
         EXCEPT !.opens = "lastKey"]
AdminCancelModal == Form({Capped(Field(10, 500, 0, 500))})
OrderNote == Capped(Field(1, 1000, 1, 500))
AdminNoteModal == Editing(Form({OrderNote}))
SimulateLogisticsModal == Form({Capped(Field(2, 200, 1, 200))})
CaseNote == Capped(Field(2, 1000, 1, 500))
CaseNoteModal == Form({CaseNote})
ResolveModal == Form({Capped(Field(20, 1000, 20, 1000))})
ForceRefundModal == Form({Capped(Field(10, 500, 1, 500))})
HideReviewModal == OfList(Form({Capped(Field(5, 500, 5, 500))}))
HandleReportModal == OfList(Form({Capped(Field(5, 500, 0, 1000))}))
ProductNoteModal == Form({Capped(Field(5, 500, 0, 500))})
ProductApproveModal == [Form({Capped(Field(0, 200, 0, 500))}) EXCEPT !.opens = "kept"]
ApplicationApproveModal == [Form({Capped(Field(0, 200, 0, 500))}) EXCEPT !.opens = "kept"]
ApplicationRejectModal == [Form({Capped(Field(5, 500, 0, 500))}) EXCEPT !.opens = "kept"]

AdminForms ==
    {AdminLogin, AdminChangePassword, BrandFormModal, CategoryFormModal, AdminCancelModal,
     AdminNoteModal, SimulateLogisticsModal, CaseNoteModal, ResolveModal, ForceRefundModal,
     HideReviewModal, HandleReportModal, ProductNoteModal, ProductApproveModal,
     ApplicationApproveModal, ApplicationRejectModal}

-----------------------------------------------------------------------------
\* The fields whose form passes what the schema refuses: nothing but blanks that
\* are sent trimmed, or more characters than the backend takes.
LaxFields ==
    {Nickname, Receiver, Detail, ShopName, ContactName, LicenseNo, MerchantNote, OrderNote,
     CaseNote}
=============================================================================
