----------------------------- MODULE ListPages -----------------------------
(***************************************************************************)
(* The list pages of the three web apps, as Lists tells them apart.        *)
(***************************************************************************)

List(url, text, filters, pager, keeps, clear) ==
    [url |-> url, text |-> text, filters |-> filters, pager |-> pager, keeps |-> keeps,
     clear |-> clear]

\* The buyer's app: tabs and pages are pushed to the address.
OrdersContent == List("source", "submit", TRUE, "many", FALSE, "none")
AftersalesContent == List("source", "submit", TRUE, "many", FALSE, "none")
NotificationsContent == List("source", "none", TRUE, "many", FALSE, "none")
MyReviewsContent == List("source", "none", FALSE, "many", FALSE, "none")
SearchPageInner == List("keyword", "none", TRUE, "many", TRUE, "none")
CategoryPage == List("none", "none", TRUE, "many", TRUE, "all")
ShopPage == List("none", "none", FALSE, "many", FALSE, "none")
ProductReviewsSection == List("none", "none", TRUE, "many", FALSE, "none")

\* The merchant's app: state only, previous and next page.
MerchantOrders == List("none", "submit", TRUE, "total", FALSE, "text")
MerchantAftersales == List("none", "submit", TRUE, "total", FALSE, "text")
MerchantReviews == List("none", "submit", TRUE, "total", FALSE, "text")
MerchantNotifications == List("none", "none", TRUE, "total", FALSE, "none")
MerchantProducts == List("none", "submit", TRUE, "total", FALSE, "text")
InventoryLogs == List("none", "none", FALSE, "total", FALSE, "none")

\* The console: state mirrored to the address, words asked for after 300 ms,
\* the footer of its Table.
TableFooter == "always"
AdminOrders == List("mirror", "debounce", TRUE, TableFooter, TRUE, "all")
AdminAftersales == List("mirror", "debounce", TRUE, TableFooter, TRUE, "all")
AdminReviews == List("mirror", "debounce", TRUE, TableFooter, TRUE, "all")
AdminReports == List("mirror", "debounce", TRUE, TableFooter, TRUE, "none")
AdminProducts == List("mirror", "debounce", TRUE, TableFooter, TRUE, "text")
AdminApplications == List("mirror", "debounce", TRUE, TableFooter, TRUE, "text")
AdminBrands == List("mirror", "debounce", FALSE, TableFooter, TRUE, "text")
AdminNotifications == List("mirror", "none", TRUE, "rows", TRUE, "none")

UserLists == {OrdersContent, AftersalesContent, NotificationsContent, MyReviewsContent,
              SearchPageInner, CategoryPage, ShopPage, ProductReviewsSection}
MerchantLists == {MerchantOrders, MerchantAftersales, MerchantReviews,
                  MerchantNotifications, MerchantProducts, InventoryLogs}
AdminLists == {AdminOrders, AdminAftersales, AdminReviews, AdminReports, AdminProducts,
               AdminApplications, AdminBrands, AdminNotifications}
=============================================================================
