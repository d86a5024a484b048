----------------------------- MODULE MCScreens ------------------------------
(***************************************************************************)
(* The screens and what they are filled from, and the battery's readers,   *)
(* one at a time: a behaviour chooses a subject and moves only its         *)
(* variables (see MCServices).                                             *)
(***************************************************************************)
EXTENDS DevicesScreen, CommandButtons, VirtualList, KodiBrowse, QuickSettings,
        KodiListing, DashboardGrid, BatteryReader, KodiControls

CONSTANT Subjects     \* the components to look at

VARIABLE subject      \* the one this behaviour is about

AnyOf(set) == CHOOSE e \in set : TRUE

\* The components that are not the subject start, and stay, in one state.
ScreensInit ==
    /\ subject \in Subjects
    /\ ScreenInit /\ (subject # "devices" => hub_host = NoHost)
    /\ ButtonsInit /\ (subject # "buttons" => device[1] = AnyOf(Groups))
    /\ VListInit
    /\ BrowseInit /\ (subject # "browse" => screen = AnyOf(BrowseScreens))
    /\ QuickInit
    /\ ListingInit
    /\ GridInit
    /\ BatteryInit
    /\ ControlsInit
    /\ subject # "battery" => supply = "full" /\ DOMAIN call = AnyOf(CallerSets)
    /\ subject # "listing" => size = 0 /\ server = AnyOf(Servers) /\ ~reports_total

\* The subject is s, and nothing but s moves.
Only(s) ==
    /\ subject = s /\ UNCHANGED subject
    /\ s # "devices" => UNCHANGED <<vars, screenVars>>
    /\ s # "buttons" => UNCHANGED button_vars
    /\ s # "list" => UNCHANGED vlist_vars
    /\ s # "browse" => UNCHANGED browse_vars
    /\ s # "quick" => UNCHANGED quick_vars
    /\ s # "listing" => UNCHANGED listing_vars
    /\ s # "grid" => UNCHANGED grid_vars
    /\ s # "battery" => UNCHANGED battery_vars
    /\ s # "controls" => UNCHANGED controls_vars

ScreensNext ==
    \/ Only("devices") /\ ScreenNext
    \/ Only("buttons") /\ ButtonsNext
    \/ Only("list") /\ VListNext
    \/ Only("browse") /\ BrowseNext
    \/ Only("quick") /\ QuickNext
    \/ Only("listing") /\ ListingNext
    \/ Only("grid") /\ GridNext
    \/ Only("battery") /\ BatteryNext
    \/ Only("controls") /\ ControlsNext

ScreensSpec ==
    ScreensInit /\ [][ScreensNext]_<<subject, vars, screenVars, button_vars, vlist_vars,
                                     browse_vars, quick_vars, listing_vars, grid_vars,
                                     battery_vars, controls_vars>>
=============================================================================
