----------------------------- MODULE ReviewerTab -----------------------------
(***************************************************************************)
(* A reviewer's browser tab: on the repository picker, on the list of open *)
(* pull requests, or going back and forth between the dashboard and the    *)
(* deck of a pull request, while decks are translated for its renders.     *)
(* The pages share nothing but the router and the session, so that what a  *)
(* tab does on one of the lists is independent of what it does elsewhere;  *)
(* the dashboard and the deck share the decisions and the decks.           *)
(***************************************************************************)
EXTENDS ReviewsDashboard, CardLocalization, RepoPicker, PullsPage

VARIABLE at    \* the page in the tab

tabVars == <<at, dashboardVars, localizationVars, pickerVars, pullsVars>>

Pages == {"repos", "pulls", "reviews", "deck", "render"}

OnPicker == at = "repos" /\ PickerNext /\ UNCHANGED <<dashboardVars, localizationVars, pullsVars>>

OnPulls == at = "pulls" /\ PullsNext /\ UNCHANGED <<dashboardVars, localizationVars, pickerVars>>

OnRender ==
    at = "render" /\ LocalizationNext /\ UNCHANGED <<dashboardVars, pickerVars, pullsVars>>

\* Decks, pushes and comments under way go on whatever page the tab is on.
OnReviews ==
    /\ at = "reviews"
    /\ ListsReviews \/ ((Elsewhere \/ SignIn) /\ UNCHANGED listing)
    /\ UNCHANGED <<localizationVars, pickerVars, pullsVars>>

OnDeck ==
    /\ at = "deck"
    /\ DeckPageNext /\ UNCHANGED listing
    /\ UNCHANGED <<localizationVars, pickerVars, pullsVars>>

\* A row of the listing is a link to the deck, and the header one to the listing.
FollowLink ==
    /\ at = "reviews" /\ listing.todo = {} /\ OpenPage
    /\ at' = "deck"
    /\ listing' = NothingRead
    /\ UNCHANGED <<localizationVars, pickerVars, pullsVars>>

BackToReviews ==
    /\ at = "deck" /\ LeavePage
    /\ at' = "reviews"
    /\ UNCHANGED <<listing, localizationVars, pickerVars, pullsVars>>

-----------------------------------------------------------------------------
TabInit ==
    /\ DashboardInit /\ LocalizationInit /\ PickerInit /\ PullsInit
    /\ at \in Pages \ {"reviews"}
    /\ at # "render" => cache = [f \in Fingerprints |-> NoRow]

TabNext ==
    \/ (OnPicker \/ OnPulls \/ OnRender \/ OnReviews \/ OnDeck) /\ UNCHANGED at
    \/ FollowLink \/ BackToReviews

TabSpec == TabInit /\ [][TabNext]_tabVars
=============================================================================
