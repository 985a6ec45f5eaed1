----------------------------- MODULE LibraryPage -----------------------------
(***************************************************************************)
(* The library page in the browser.  Its filters live in the URL: every    *)
(* control navigates, navigation is asynchronous (the auth middleware asks *)
(* the API) and a later one cancels the one under way, the list shown is   *)
(* the one fetched for the URL, and the search text waits for the user to  *)
(* stop typing.  The error filter offers to reprocess what it lists.       *)
(***************************************************************************)
EXTENDS Naturals

CONSTANTS
    Texts,    \* what may be typed, with ""
    Types,    \* document types, with "" for all
    Statuses, \* status filters, with ""
    MaxPages, \* bound: pages of a listing
    Null

VARIABLES
    route,   \* the URL: tab, filters and page
    nav,     \* the navigation under way, or Null
    text,    \* the search input
    timer,   \* the debounce is running
    pages,   \* pages of the listing shown for the URL, Null while it loads
    armed,   \* bulkConfirm
    bulk     \* the bulk request is under way

vars == <<route, nav, text, timer, pages, armed, bulk>>

Filters == [text : Texts, type : Types, status : Statuses]
NoFilters == [text |-> "", type |-> "", status |-> ""]
Url(tab, filters, page) == [tab |-> tab, filters |-> filters, page |-> page]

Init ==
    /\ route \in {Url("archive", f, p) : f \in Filters, p \in 1..MaxPages}
    /\ nav = Null
    /\ text = route.filters.text
    /\ timer = FALSE
    /\ pages = Null
    /\ armed = FALSE
    /\ bulk = FALSE

\* The later navigation wins.
navigateTo(url) == nav' = url

\* The URL with some filters changed; the tab is not among them.
syncUrl(filters, page) == navigateTo(Url("archive", filters, page))

Archive == route.tab = "archive"

-----------------------------------------------------------------------------
(* Controls *)

onTextInput ==
    /\ Archive
    /\ text' \in Texts
    /\ timer' = TRUE
    /\ UNCHANGED <<route, nav, pages, armed, bulk>>

\* The debounce ends; the input and the filters are read now, not when the user typed.
DebounceEnds ==
    /\ timer
    /\ timer' = FALSE
    /\ syncUrl([route.filters EXCEPT !.text = text], 1)
    /\ UNCHANGED <<route, text, pages, armed, bulk>>

\* Mutant: the page stays when the type changes.
typeKeepsPage ==
    /\ Archive
    /\ \E type \in Types : syncUrl([route.filters EXCEPT !.type = type], route.page)
    /\ UNCHANGED <<route, text, timer, pages, armed, bulk>>

\* The type's menu, or its facet which toggles.
toggleType ==
    /\ Archive
    /\ \E type \in Types : syncUrl([route.filters EXCEPT !.type = type], 1)
    /\ UNCHANGED <<route, text, timer, pages, armed, bulk>>

onStatusChange ==
    /\ Archive
    /\ \E status \in Statuses : syncUrl([route.filters EXCEPT !.status = status], 1)
    /\ armed' = FALSE
    /\ UNCHANGED <<route, text, timer, pages, bulk>>

\* Also what the status "review" does.
switchTab ==
    /\ \E tab \in {"archive", "review"} : navigateTo(Url(tab, NoFilters, 1))
    /\ armed' \in {armed, FALSE}
    /\ UNCHANGED <<route, text, timer, pages, bulk>>

clearFilters ==
    /\ Archive /\ route.filters # NoFilters
    /\ navigateTo(Url("archive", NoFilters, 1))
    /\ UNCHANGED <<route, text, timer, pages, armed, bulk>>

goToPage ==
    /\ Archive /\ pages # Null /\ pages > 1
    /\ \E page \in {route.page - 1, route.page + 1} :
        page \in 1..pages /\ syncUrl(route.filters, page)
    /\ UNCHANGED <<route, text, timer, pages, armed, bulk>>

onBulkReprocess ==
    /\ Archive /\ route.filters.status = "error" /\ pages # Null /\ ~bulk
    /\ armed' = ~armed
    /\ bulk' = armed
    /\ UNCHANGED <<route, nav, text, timer, pages>>

-----------------------------------------------------------------------------
(* What the browser does *)

\* The page's watcher puts the URL's filters back into the inputs when they are recomputed.
Navigated ==
    /\ nav # Null
    /\ route' = nav /\ nav' = Null
    /\ IF nav = route THEN UNCHANGED <<text, pages>> ELSE text' = nav.filters.text /\ pages' = Null
    /\ UNCHANGED <<timer, armed, bulk>>

NavigationFails ==
    /\ nav # Null /\ nav' = Null
    /\ UNCHANGED <<route, text, timer, pages, armed, bulk>>

\* The list is fetched, or fetched again.
Fetched ==
    /\ Archive
    /\ pages' \in 1..MaxPages
    /\ UNCHANGED <<route, nav, text, timer, armed, bulk>>

BulkAnswered ==
    /\ bulk /\ bulk' = FALSE
    /\ UNCHANGED <<route, nav, text, timer, pages, armed>>

Next ==
    \/ onTextInput \/ DebounceEnds \/ toggleType \/ onStatusChange \/ switchTab \/ clearFilters
    \/ goToPage \/ onBulkReprocess
    \/ Navigated \/ NavigationFails \/ Fetched \/ BulkAnswered

Spec == Init /\ [][Next]_vars

-----------------------------------------------------------------------------
Urls == [tab : {"archive", "review"}, filters : Filters, page : 1..MaxPages]

TypeOK ==
    /\ route \in Urls /\ nav \in Urls \cup {Null}
    /\ text \in Texts
    /\ pages \in (1..MaxPages) \cup {Null}
    /\ {timer, armed, bulk} \subseteq BOOLEAN

\* However navigations, typing and the debounce interleave, the URL moves one thing at a
\* time: other filters start at page 1, a page is left for the first or one
\* beside it, and reloading the list never moves it (library/index.vue: syncUrl reads the filters of the
\* URL in force, which a cancelled navigation never changed).
OtherFiltersFirstPage ==
    [][IF route'.filters # route.filters THEN route'.page = 1
       ELSE route'.page \in {1, route.page - 1, route.page, route.page + 1}]_vars

=============================================================================
