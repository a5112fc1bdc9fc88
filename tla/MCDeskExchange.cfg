\* ApproveModal.tsx:8: an approved exchange waits for the goods.
SPECIFICATION Spec
CONSTANTS
 NoView=NoView
 Desks <- MCSellerCase
 Starts <- MCApplied
 PagesOf <- PPagesOf
 ControlsOf <- PControlsOf
 Sees <- PSees
 Offers <- POffers
 Gone <- PGone
 Misjudged <- PMisjudged
 Lags <- PLags
 Passes <- PPasses
 Asks <- PAsks
 Refreshes <- PRefreshes
 NextPage <- PNextPage
 Accepts <- PAccepts
 Effect <- PEffect
 Others <- POthers
 Moves <- PMoves
 Final <- PFinal
 Budgets <- MCBudgets
INVARIANTS OffersPassable
CHECK_DEADLOCK FALSE
