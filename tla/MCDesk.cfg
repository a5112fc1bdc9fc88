\* The desks of the three apps, one command each, two or a change by others for one row.
SPECIFICATION Spec
CONSTANTS
 NoView=NoView
 Desks <- AllDesks
 Starts <- MCStarts
 PagesOf <- PPagesOf
 ControlsOf <- PControlsOf
 Sees <- PSees
 Offers <- POffers
 Gone <- PGone
 Misjudged <- PMisjudged
 Lags <- PLags
 Passes <- PPasses
 Asks <- PAsks
 Refreshes <- PRefreshes
 NextPage <- PNextPage
 Accepts <- PAccepts
 Effect <- PEffect
 Others <- POthers
 Moves <- PMoves
 Final <- PFinal
 Budgets <- MCBudgets
INVARIANTS RefusedOnlyByOthers SeesOwnWork OffersPassable NoDeadEnd
CHECK_DEADLOCK FALSE
