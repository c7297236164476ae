-------------------------------- MODULE Menu --------------------------------
(***************************************************************************)
(* The menu screen (routes/MenuScreen.tsx): the catalogue is fetched when  *)
(* the screen mounts, filtered by the active category and shown page after *)
(* page as the customer scrolls.  A page is taken from the list and at the *)
(* page number of the moment its timer was set.                            *)
(*                                                                         *)
(* While isLoading is set the screen is a spinner that takes no taps.      *)
(* React renders a change before the next event.  The search field appears *)
(* only once it has the focus, so a search never begins and isSearching    *)
(* stays FALSE.                                                            *)
(***************************************************************************)
EXTENDS Naturals, Sequences

CONSTANTS
    MenuItems,       \* the catalogue the proxy answers with
    ITEMS_PER_PAGE,
    MaxMounts        \* bound on visits of the menu

MenuItem == [id : Nat, category : STRING]

ASSUME MenuConstants ==
    /\ MenuItems \in Seq(MenuItem)
    /\ ITEMS_PER_PAGE \in Nat \ {0} /\ MaxMounts \in Nat

VARIABLES
    allItems,        \* fetched catalogue
    displayedItems,
    page,            \* page loadMoreItems takes next
    isLoading,
    isApiError,
    fetching,        \* fetchMenu of the mounted screen has not answered
    timer,           \* loadMoreItems' timer: [page, items], or NoTimer
    activeCategory,
    mounts

menuVars == <<allItems, displayedItems, page, isLoading, isApiError, fetching,
              timer, activeCategory, mounts>>

NoTimer == [page |-> 0, items |-> <<>>]

Categories == {MenuItems[i].category : i \in DOMAIN MenuItems}

filteredMenuItems(all, category) ==
    LET InCategory(item) == category = "all" \/ item.category = category
    IN  SelectSeq(all, InCategory)

\* Selecting from the catalogue gives a sequence: the standard module says so
\* of every sequence, but the proof system knows nothing of SelectSeq.
ASSUME SelectionIsSequence ==
    \A all \in {<<>>, MenuItems}, category \in Categories \union {"all"} :
       filteredMenuItems(all, category) \in Seq(MenuItem)

\* The first n elements of s.
FirstOf(s, n) == SubSeq(s, 1, IF n < Len(s) THEN n ELSE Len(s))

Slice(p, items) ==
    SubSeq(FirstOf(items, p * ITEMS_PER_PAGE), (p - 1) * ITEMS_PER_PAGE + 1,
           Len(FirstOf(items, p * ITEMS_PER_PAGE)))

-----------------------------------------------------------------------------
\* Mounting: both effects call loadMoreItems, which finds isLoading set.
MenuInit ==
    /\ allItems = <<>> /\ displayedItems = <<>>
    /\ page = 1
    /\ isLoading = TRUE /\ isApiError = FALSE
    /\ fetching = TRUE
    /\ timer = NoTimer
    /\ activeCategory = "all"
    /\ mounts = 1

\* loadMoreItems of a render in which isLoading is not set.
loadMoreItems(p, items) ==
    /\ isLoading' = TRUE
    /\ timer' = [page |-> p, items |-> items]

\* The new list changes filteredMenuItems, whose effect loads the first page.
menuFetched ==
    /\ fetching /\ fetching' = FALSE
    /\ allItems' = MenuItems
    /\ loadMoreItems(page, filteredMenuItems(MenuItems, activeCategory))
    /\ UNCHANGED <<displayedItems, page, isApiError, activeCategory, mounts>>

menuFetchFails ==
    /\ fetching /\ fetching' = FALSE
    /\ isApiError' = TRUE
    /\ isLoading' = FALSE
    /\ UNCHANGED <<allItems, displayedItems, page, timer, activeCategory, mounts>>

\* The timer of loadMoreItems.
pageArrives ==
    /\ timer # NoTimer
    /\ LET newItems == Slice(timer.page, timer.items)
       IN  displayedItems' = IF timer.page = 1 THEN newItems
                             ELSE displayedItems \o newItems
    /\ page' = page + 1
    /\ isLoading' = FALSE
    /\ timer' = NoTimer
    /\ UNCHANGED <<allItems, isApiError, fetching, activeCategory, mounts>>

\* A page past the end of the list is loaded as well, and adds nothing.
handleScroll ==
    /\ ~isLoading
    /\ (page - 1) * ITEMS_PER_PAGE <= Len(MenuItems)
    /\ loadMoreItems(page, filteredMenuItems(allItems, activeCategory))
    /\ UNCHANGED <<allItems, displayedItems, page, isApiError, fetching,
                   activeCategory, mounts>>

\* Mutant: the page number of the old category is kept.
handleCategoryChangeKeepsPage(category) ==
    /\ ~isLoading /\ ~isApiError
    /\ activeCategory' = category
    /\ displayedItems' = <<>>
    /\ IF category # activeCategory
       THEN loadMoreItems(page, filteredMenuItems(allItems, category))
       ELSE UNCHANGED <<isLoading, timer>>
    /\ UNCHANGED <<allItems, page, isApiError, fetching, mounts>>

\* Another category gives another list, and its effect loads page 1.  The tab
\* that is active already empties the screen and loads nothing.
handleCategoryChange(category) ==
    /\ ~isLoading /\ ~isApiError
    /\ activeCategory' = category
    /\ displayedItems' = <<>>
    /\ page' = 1
    /\ IF category # activeCategory
       THEN loadMoreItems(1, filteredMenuItems(allItems, category))
       ELSE UNCHANGED <<isLoading, timer>>
    /\ UNCHANGED <<allItems, isApiError, fetching, mounts>>

\* The screen goes and comes back: a fetch under way is cancelled, a timer's
\* updates reach nobody.
remount ==
    /\ mounts < MaxMounts /\ mounts' = mounts + 1
    /\ allItems' = <<>> /\ displayedItems' = <<>>
    /\ page' = 1
    /\ isLoading' = TRUE /\ isApiError' = FALSE
    /\ fetching' = TRUE
    /\ timer' = NoTimer
    /\ activeCategory' = "all"

\* Any tab may be tapped, the active one too.
CategoryTabs == \E category \in Categories \union {"all"} : handleCategoryChange(category)

MenuNext ==
    \/ menuFetched \/ menuFetchFails
    \/ pageArrives
    \/ handleScroll
    \/ CategoryTabs
    \/ remount

MenuSpec == MenuInit /\ [][MenuNext]_menuVars

-----------------------------------------------------------------------------
(* What is on the screen is the beginning of the active category's list:   *)
(* no item is skipped, shown twice or left over from another category,     *)
(* whatever the order of page loads, category taps and visits.  The keys   *)
(* of the list and the page counter rest on it.                            *)
DisplayedIsPrefix ==
    displayedItems = FirstOf(filteredMenuItems(allItems, activeCategory),
                           (page - 1) * ITEMS_PER_PAGE)
=============================================================================
