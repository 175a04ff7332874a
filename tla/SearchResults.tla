---------------------------- MODULE SearchResults ----------------------------
(***************************************************************************)
(* The results page: the text of the search box, which the address follows *)
(* after a pause, and the pages of results that are loaded while the       *)
(* reader scrolls.  Every page is asked for by its offset, and the server  *)
(* ranks from the start for each: it takes batches of candidates until     *)
(* enough of them have a row.  Between two pages the index may be replaced *)
(* and images may be removed.                                              *)
(***************************************************************************)
EXTENDS Integers, FiniteSets, Sequences

CONSTANTS
    Query,                \* what may be searched for
    Image,
    Ranking,              \* the candidates for each query, per index generation
    SEARCH_RESULT_LIMIT,  \* results per page
    MIN_BATCH, MAX_BATCH, \* candidates of a batch (at least: of any but the first)
    AUTO_LOAD_WINDOW,     \* results loaded without asking
    MAX_OFFSET,
    MaxTyped,             \* bound: changes of the text and visits
    MaxChanges,           \* bound: generations and removed images
    MaxFaults             \* bound: failed requests and refetches

Empty == "empty"

ASSUME SearchAssumption ==
    /\ Empty \notin Query
    /\ {SEARCH_RESULT_LIMIT, MIN_BATCH, MAX_BATCH, AUTO_LOAD_WINDOW} \subseteq Nat \ {0}
    /\ {MAX_OFFSET, MaxTyped, MaxChanges, MaxFaults} \subseteq Nat
    /\ Ranking \in Seq([Query -> Seq(Image)]) \ {<<>>}
    /\ \A g \in DOMAIN Ranking, q \in Query : \A m, n \in DOMAIN Ranking[g][q] :
          Ranking[g][q][m] = Ranking[g][q][n] => m = n

VARIABLES
    generation,  \* of the index that answers
    gone,        \* images without a row
    text,        \* in the search box
    url,         \* the query in the address: what the page is about
    pages,       \* per query: the pages loaded
    fetch,       \* per query: the request under way
    failed,      \* per query: the last page asked for could not be loaded
    window,      \* results after which the page asks before it loads more
    typed, changes, faults

server == <<generation, gone>>
results == <<pages, fetch, failed>>
vars == <<server, text, url, results, window, typed, changes, faults>>

----------------------------------------------------------------------------
Text == Query \cup {Empty}

Candidates(q) == Ranking[generation][q]

\* Which of the first p candidates have a row, and how many.
Kept(q, p) == {n \in 1..p : Candidates(q)[n] \notin gone}
Found(q, p) == Cardinality(Kept(q, p))

\* Those of the first p candidates that are the m-th to the n-th with a row.
Ranked(q, p, m, n) == {Candidates(q)[i] : i \in {j \in Kept(q, p) : Found(q, j) \in m..n}}

\* How many candidates are taken after p.
Batch(q, required, p) ==
    LET twice == 2 * (required - Found(q, p))
        size == IF p = 0 THEN required ELSE IF twice > MIN_BATCH THEN twice ELSE MIN_BATCH
    IN  IF size < MAX_BATCH THEN size ELSE MAX_BATCH

\* How many are taken, batch by batch, until enough of them have a row.
Taken(q, required) ==
    LET all == Len(Candidates(q))
        upTo[p \in 0..all] ==
            IF Found(q, p) >= required \/ p = all THEN p
            ELSE upTo[IF p + Batch(q, required, p) < all THEN p + Batch(q, required, p) ELSE all]
    IN  upTo[0]

\* (mutant) The offset counts candidates, not those with a row.
CutAtCandidate(q, offset) ==
    {Candidates(q)[i] : i \in {j \in Kept(q, Taken(q, offset + SEARCH_RESULT_LIMIT)) :
        j > offset /\ Found(q, j) - Found(q, offset) <= SEARCH_RESULT_LIMIT}}

\* (mutant) All that the batches brought is sent.
CutLong(q, offset) ==
    Ranked(q, Taken(q, offset + SEARCH_RESULT_LIMIT), offset + 1, Len(Candidates(q)))

\* The results from an offset on, which are sent in the order of the ranking.
Cut(q, offset) ==
    LET required == offset + SEARCH_RESULT_LIMIT
    IN  Ranked(q, Taken(q, required), offset + 1, required)

\* There is more unless the last batch ended the candidates.
Answer(q, offset) ==
    [index |-> server, offset |-> offset, results |-> Cut(q, offset),
     more |-> Taken(q, offset + SEARCH_RESULT_LIMIT) < Len(Candidates(q))]

End(ps) == ps[Len(ps)]
Following(page) == page.offset + Cardinality(page.results)
HasNextPage(q) == pages[q] # <<>> /\ End(pages[q]).more

NoFetch == [kind |-> "none"]
Fetch(kind, offset, got) == [kind |-> kind, offset |-> offset, got |-> got]

Init ==
    /\ generation = 1
    /\ gone = {}
    /\ text = Empty
    /\ url = Empty
    /\ pages = [q \in Query |-> <<>>]
    /\ fetch = [q \in Query |-> NoFetch]
    /\ failed = [q \in Query |-> FALSE]
    /\ window = AUTO_LOAD_WINDOW
    /\ typed = 0
    /\ changes = 0
    /\ faults = 0

\* The first page could not be loaded: the error page is shown, without a search box.  Its
\* button clears the error but does not run the loader again, which throws as before.
FirstFailed(q) == url = q /\ pages[q] = <<>> /\ failed[q]

----------------------------------------------------------------------------
\* The page turns to a query: its first page is loaded unless it is kept from before.
Show(x) ==
    /\ url' = x
    /\ window' = IF x = url THEN window ELSE AUTO_LOAD_WINDOW
    /\ IF x \in Query /\ pages[x] = <<>> /\ fetch[x] = NoFetch
       THEN /\ fetch' = [fetch EXCEPT ![x] = Fetch("first", 0, <<>>)]
            /\ failed' = [failed EXCEPT ![x] = FALSE]
       ELSE UNCHANGED <<fetch, failed>>

\* A text is typed, which waits for a pause, or the box is cleared, which does not.
Type ==
    /\ typed < MaxTyped
    /\ \A q \in Query : ~FirstFailed(q)
    /\ typed' = typed + 1
    /\ \E x \in Text \ {text} :
          /\ text' = x
          /\ IF x = Empty THEN Show(x) ELSE UNCHANGED <<url, window, fetch, failed>>
    /\ UNCHANGED <<server, pages, changes, faults>>

\* The pause is over, or the reader presses enter.
Follow ==
    /\ url # text
    /\ Show(text)
    /\ UNCHANGED <<server, text, pages, typed, changes, faults>>

\* The home page or the history of the browser leads to a query; the box shows it too.
Visit ==
    /\ typed < MaxTyped
    /\ typed' = typed + 1
    /\ \E q \in Query \ {url} : text' = q /\ Show(q)
    /\ UNCHANGED <<server, pages, changes, faults>>

----------------------------------------------------------------------------
\* Every page begins where the one before ends, so that the last tells how many results
\* are loaded.
Loaded(ps) == IF ps = <<>> THEN 0 ELSE Following(End(ps))
ReachedAutoLoadLimit(q) == Loaded(pages[q]) >= window

\* The end of what is loaded comes into view.
LoadMore(q) ==
    /\ url = q
    /\ HasNextPage(q)
    /\ fetch[q] = NoFetch
    /\ ~ReachedAutoLoadLimit(q)
    /\ ~failed[q]
    /\ fetch' = [fetch EXCEPT ![q] = Fetch("next", Following(End(pages[q])), <<>>)]
    /\ UNCHANGED <<server, text, url, pages, failed, window, typed, changes, faults>>

\* (mutant) The button is offered after a failure only.
AskAfterFailure(q) == failed[q] /\ ReachedAutoLoadLimit(q)

\* The button "load more results" is offered.
Asks(q) == ReachedAutoLoadLimit(q) /\ ~failed[q]

Extend(q) ==
    /\ url = q
    /\ HasNextPage(q)
    /\ Asks(q)
    /\ window' = window + AUTO_LOAD_WINDOW
    /\ UNCHANGED <<server, text, url, results, typed, changes, faults>>

\* "retry loading results", which is offered below those that are loaded.
Retry(q) ==
    /\ url = q
    /\ HasNextPage(q)
    /\ failed[q]
    /\ fetch[q] = NoFetch
    /\ fetch' = [fetch EXCEPT ![q] = Fetch("next", Following(End(pages[q])), <<>>)]
    /\ UNCHANGED <<server, text, url, pages, failed, window, typed, changes, faults>>

\* What is loaded is loaded again, page by page, when the window gets the focus or the
\* page is entered again.
Refetch(q) ==
    /\ url = q
    /\ pages[q] # <<>>
    /\ fetch[q] = NoFetch
    /\ faults < MaxFaults
    /\ faults' = faults + 1
    /\ fetch' = [fetch EXCEPT ![q] = Fetch("refetch", 0, <<>>)]
    /\ failed' = [failed EXCEPT ![q] = FALSE]
    /\ UNCHANGED <<server, text, url, pages, window, typed, changes>>

\* A refetch that has got these pages goes on.
GoesOn(q, got) == Len(got) < Len(pages[q]) /\ End(got).more

Arrive(q) ==
    /\ fetch[q] # NoFetch
    /\ fetch[q].offset <= MAX_OFFSET
    /\ LET f == fetch[q]
           got == Append(f.got, Answer(q, f.offset))
       IN  IF f.kind = "refetch" /\ GoesOn(q, got)
           THEN /\ fetch' = [fetch EXCEPT ![q] = Fetch("refetch", Following(End(got)), got)]
                /\ UNCHANGED <<pages, failed>>
           ELSE /\ pages' = [pages EXCEPT ![q] = IF f.kind = "next" THEN @ \o got ELSE got]
                /\ fetch' = [fetch EXCEPT ![q] = NoFetch]
                /\ failed' = [failed EXCEPT ![q] = FALSE]
    /\ UNCHANGED <<server, text, url, window, typed, changes, faults>>

\* The request fails.  A failed refetch leaves what is loaded as it was.
Fail(q) ==
    /\ fetch[q] # NoFetch
    /\ faults < MaxFaults \/ fetch[q].offset > MAX_OFFSET
    /\ faults' = IF faults < MaxFaults THEN faults + 1 ELSE faults
    /\ fetch' = [fetch EXCEPT ![q] = NoFetch]
    /\ failed' = [failed EXCEPT ![q] = fetch[q].kind # "refetch"]
    /\ UNCHANGED <<server, text, url, pages, window, typed, changes>>

----------------------------------------------------------------------------
\* Another index answers from now on.
Activate ==
    /\ changes < MaxChanges
    /\ changes' = changes + 1
    /\ generation < Len(Ranking)
    /\ generation' = generation + 1
    /\ UNCHANGED <<gone, text, url, results, window, typed, faults>>

\* An image loses its row, or is in the index before it has one.
DropRow(i) ==
    /\ i \notin gone
    /\ changes < MaxChanges
    /\ changes' = changes + 1
    /\ gone' = gone \cup {i}
    /\ UNCHANGED <<generation, text, url, results, window, typed, faults>>

Next ==
    \/ Type
    \/ Follow
    \/ Visit
    \/ \E q \in Query :
          \/ LoadMore(q)
          \/ Extend(q)
          \/ Retry(q)
          \/ Refetch(q)
          \/ Arrive(q)
          \/ Fail(q)
    \/ Activate
    \/ \E i \in Image : DropRow(i)

Spec == Init /\ [][Next]_vars

\* The pause ends and requests are answered; a reader who stays scrolls to the end and
\* presses the buttons found there.
Fairness ==
    /\ WF_vars(Follow)
    /\ \A q \in Query :
          /\ WF_vars(LoadMore(q))
          /\ WF_vars(Extend(q))
          /\ WF_vars(Retry(q))
          /\ WF_vars(Arrive(q))

FairSpec == Spec /\ Fairness

----------------------------------------------------------------------------
\* Every variable keeps its type.
TypeOK ==
    /\ generation \in DOMAIN Ranking /\ gone \subseteq Image
    /\ text \in Text /\ url \in Text
    /\ \A q \in Query : pages[q] = <<>> \/ pages[q][1].offset = 0
    /\ \A q \in Query : \A n \in DOMAIN pages[q] :
          Cardinality(pages[q][n].results) <= SEARCH_RESULT_LIMIT
    /\ \A q \in Query : fetch[q].kind \in {"none", "first", "next", "refetch"}
    /\ failed \in [Query -> BOOLEAN]
    /\ window \in Nat \ {0}
    /\ typed \in 0..MaxTyped /\ changes \in 0..MaxChanges /\ faults \in 0..MaxFaults

Shown(ps) == UNION {ps[n].results : n \in DOMAIN ps}

\* All pages of a query have been answered from the index and the rows as they are now.
OfOneIndex(ps) == \A n \in DOMAIN ps : ps[n].index = server

\* Scrolling through one index repeats nothing and skips nothing, however many
\* candidates without a row the server had to replace for each page (search/run.py,
\* getNextPageParam): no two pages share a result, and together they are the beginning of
\* the ranking.
NothingSkipped ==
    \A q \in Query : OfOneIndex(pages[q]) =>
        /\ \A m, n \in DOMAIN pages[q] :
              m # n => pages[q][m].results \cap pages[q][n].results = {}
        /\ Shown(pages[q]) =
              Ranked(q, Len(Candidates(q)), 1, Cardinality(Shown(pages[q])))

\* A reader who stays gets to the end of the results past failed requests and the limits of
\* automatic loading (routes/results.tsx), unless the first page failed: from the error page
\* only leaving it leads on.
EndIsReached ==
    \A q \in Query : <>[](url = q /\ text = q /\ ~FirstFailed(q))
                          => <>(pages[q] # <<>> /\ ~HasNextPage(q))

\* "You've reached the end." (routes/results.tsx): no result is left to show.
EndMeansAll ==
    \A q \in Query :
        pages[q] # <<>> /\ ~HasNextPage(q) /\ OfOneIndex(pages[q])
            => Shown(pages[q]) = Ranked(q, Len(Candidates(q)), 1, Len(Candidates(q)))
=============================================================================
