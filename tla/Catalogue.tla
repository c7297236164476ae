----------------------------- MODULE Catalogue ------------------------------
(***************************************************************************)
(* The Andino proxy (packages/andino-kiosk/proxy/server.js): products come *)
(* from the Andino API page by page and stay in Redis for CACHE_TTL.       *)
(*                                                                         *)
(* A product is [id, category], id 0 standing for one without an id.       *)
(* One without a category is in "Uncategorized".  Andino and Redis are     *)
(* external: a page may fail, the catalogue may change between two pages,  *)
(* Redis may not answer.                                                   *)
(***************************************************************************)
EXTENDS Naturals, Sequences, FiniteSets, SequencesExt

CONSTANTS
    Catalogues,   \* what the catalogue may hold: sequences of products
    PageSize,     \* products in a page of the API
    Users,        \* users whose profile is asked for
    TokenUser,    \* the user ANDINO_ACCESS_TOKEN belongs to
    MaxRequests,  \* bound on requests for products or the menu
    MaxChanges    \* bound on changes of the catalogue

AndinoProduct == [id : Nat, category : STRING]

ASSUME CatalogueConstants ==
    /\ Catalogues # {} /\ \A c \in Catalogues : c \in Seq(AndinoProduct) /\ c # <<>>
    /\ PageSize \in Nat \ {0} /\ MaxRequests \in Nat /\ MaxChanges \in Nat

VARIABLES
    catalogue,  \* at Andino
    changes,    \* how often it changed
    cache,      \* of products: <<>> or <<list>>
    profiles,   \* cached profiles: user -> <<>> or <<user>>
    requests    \* [route, step, pages, whole, since, answer]: `whole` while no
                \*   page failed unseen, `since` the changes before the fetch

catalogueVars == <<catalogue, changes, cache, profiles, requests>>

Routes == {"/api/products", "/v1/menu"}

CatalogueInit ==
    /\ catalogue \in Catalogues
    /\ changes = 0
    /\ cache = <<>>
    /\ profiles = [u \in Users |-> <<>>]
    /\ requests = <<>>

-----------------------------------------------------------------------------
(* Andino *)

lastPage == (Len(catalogue) + PageSize - 1) \div PageSize

Page(p) == SubSeq(catalogue, (p - 1) * PageSize + 1,
                  IF p * PageSize < Len(catalogue) THEN p * PageSize ELSE Len(catalogue))

change ==
    /\ changes < MaxChanges
    /\ catalogue' \in Catalogues \ {catalogue}
    /\ changes' = changes + 1
    /\ UNCHANGED <<cache, profiles, requests>>

-----------------------------------------------------------------------------
(* The answer *)

\* Products without an id are left out; categories are told apart by name,
\* and listed in the order in which products first name them.
menu(products) ==
    LET kept == SelectSeq(products, LAMBDA p : p.id # 0) IN
    [items |-> kept,
     categories |-> { kept[i].category : i \in DOMAIN kept }]

Reply(r, products) ==
    IF requests[r].route = "/v1/menu" THEN menu(products)
    ELSE [items |-> products, categories |-> {}]

Failed == [items |-> <<>>, categories |-> {"502"}]

-----------------------------------------------------------------------------
(* Requests *)

\* Redis has the list, or does not, or does not answer.
cacheGet == {<<>>, cache}

request(route) ==
    /\ Len(requests) < MaxRequests
    /\ requests' = Append(requests, [route |-> route, step |-> "cache", pages |-> <<>>,
                                     whole |-> TRUE, since |-> changes, answer |-> <<>>])
    /\ UNCHANGED <<catalogue, changes, cache, profiles>>

Answer(r, reply) == requests' = [requests EXCEPT ![r].step = "done", ![r].answer = <<reply>>]

lookup(r) ==
    /\ requests[r].step = "cache"
    /\ \E cached \in cacheGet :
          IF cached # <<>> THEN Answer(r, Reply(r, cached[1]))
          ELSE requests' = [requests EXCEPT ![r].step = "first", ![r].since = changes]
    /\ UNCHANGED <<catalogue, changes, cache, profiles>>

Waiting == <<[id |-> 0, category |-> "waiting"]>>

\* Mutant: the last page is not asked for.
firstPageShort(r) ==
    /\ requests[r].step = "first"
    /\ requests' = [requests EXCEPT ![r].step = "pages",
          ![r].pages = [p \in 1..(IF lastPage > 1 THEN lastPage - 1 ELSE 1) |->
                          IF p = 1 THEN Page(1) ELSE Waiting]]
    /\ UNCHANGED <<catalogue, changes, cache, profiles>>

\* Page 1 says how many there are; without it the answer is a 502.  A 200
\* that holds neither pages nor data is an empty catalogue.
firstPage(r) ==
    /\ requests[r].step = "first"
    /\ \/ requests' = [requests EXCEPT ![r].step = "pages",
             ![r].pages = [p \in 1..lastPage |-> IF p = 1 THEN Page(1) ELSE Waiting]]
       \/ requests' = [requests EXCEPT ![r].step = "pages", ![r].pages = <<<<>>>>,
                                       ![r].whole = FALSE]
       \/ Answer(r, Failed)
    /\ UNCHANGED <<catalogue, changes, cache, profiles>>

\* The others arrive in any order, their status unseen: an error in JSON is
\* an empty page, any other failure rejects.
nextPage(r, p) ==
    /\ requests[r].step = "pages"
    /\ p \in DOMAIN requests[r].pages
    /\ requests[r].pages[p] = Waiting
    /\ \/ requests' = [requests EXCEPT ![r].pages[p] = Page(p)]
       \/ requests' = [requests EXCEPT ![r].pages[p] = <<>>, ![r].whole = FALSE]
       \/ Answer(r, Failed)
    /\ UNCHANGED <<catalogue, changes, cache, profiles>>

\* Promise.all: the list is cached, if Redis takes it, and answered.
doFetchAllProducts(r) ==
    LET all == FlattenSeq(requests[r].pages) IN
    /\ requests[r].step = "pages"
    /\ \A p \in DOMAIN requests[r].pages : requests[r].pages[p] # Waiting
    /\ cache' \in {cache, <<all>>}
    /\ Answer(r, Reply(r, all))
    /\ UNCHANGED <<catalogue, changes, profiles>>

\* setex: an entry ends after CACHE_TTL.
expire ==
    /\ \/ cache # <<>> /\ cache' = <<>> /\ UNCHANGED profiles
       \/ /\ UNCHANGED cache
          /\ \E u \in Users : profiles[u] # <<>> /\ profiles' = [profiles EXCEPT ![u] = <<>>]
    /\ UNCHANGED <<catalogue, changes, requests>>

\* GET /api/user/profile: cached under the user asked for, fetched for the
\* user of the token.
profile(u) ==
    /\ profiles[u] = <<>>
    /\ profiles' = [profiles EXCEPT ![u] = <<TokenUser>>]
    /\ UNCHANGED <<catalogue, changes, cache, requests>>

RequestStep ==
    \E r \in DOMAIN requests :
       \/ lookup(r)
       \/ firstPage(r)
       \/ \E p \in 2..Len(requests[r].pages) : nextPage(r, p)
       \/ doFetchAllProducts(r)

CatalogueNext ==
    \/ change \/ expire
    \/ \E route \in Routes : request(route)
    \/ RequestStep
    \/ \E u \in Users : profile(u)

CatalogueSpec == CatalogueInit /\ [][CatalogueNext]_catalogueVars

-----------------------------------------------------------------------------
(* Properties *)

\* A request whose pages were all read from one catalogue, none of them
\* failing, ends with all of it: no page is left out or read twice.
QuietReadIsComplete ==
    [][ \A r \in DOMAIN requests :
          /\ requests[r].step = "pages" /\ requests'[r].step = "done"
          /\ requests[r].whole /\ requests[r].since = changes
          /\ requests'[r].answer # <<Failed>>
          => requests'[r].answer[1] = Reply(r, catalogue) ]_catalogueVars
=============================================================================
