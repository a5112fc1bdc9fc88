----------------------------- MODULE MCScreens -----------------------------
(* Screens with the list pages and the forms of the three apps.            *)
EXTENDS Screens, FormPages, ListPages

CONSTANTS f1, f2, f3, k1, k2

MCLists == UserLists \cup MerchantLists \cup AdminLists
MCForms == UserForms \cup MerchantForms \cup AdminForms
CategoryForms == {CategoryFormModal}
ShopForms == {ShopHomepageEditor}
MCFiles == {f1, f2, f3}
MCCases == {[kind |-> "evidence", mounts |-> 1], [kind |-> "gallery", mounts |-> 2]}
MCSkus == {k1, k2}
MCEnabled == {k1}
=============================================================================
