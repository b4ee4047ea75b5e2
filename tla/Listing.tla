------------------------------ MODULE Listing -------------------------------
(***************************************************************************)
(* How the adapters list a source (src/src/ingest/sources): hh searches      *)
(* publication windows and halves those with more results than hh serves,   *)
(* osonish and vacancy_gov walk pages, newest first, until they meet what    *)
(* is older than the cursor.  The runner stores every page and saves the     *)
(* cursor a page carries.                                                    *)
(*                                                                          *)
(* A behaviour follows one source.  It publishes vacancies, some later than  *)
(* they are dated, and removes some, also between two pages of one run.      *)
(***************************************************************************)
EXTENDS Integers, FiniteSets, Sequences

CONSTANTS
  Items,        \* vacancies of the source: numbers
  MaxTime,      \* bound: the clock
  MaxStops,     \* bound: runs that end early
  MaxDelay,     \* bound: how late a dated vacancy may appear
  Overlap,      \* OVERLAP_SECONDS
  Lookback,     \* FIRST_RUN_LOOKBACK
  PerPage,      \* PER_PAGE, per_page, PAGE_SIZE
  MaxPages,     \* MAX_RESULTS / PER_PAGE, max_pages
  MinWindow,    \* MIN_WINDOW_SECONDS
  FullSweep     \* FULL_SWEEP_SECONDS

ASSUME ListingAssumption ==
  /\ Items \subseteq Nat /\ IsFiniteSet(Items)
  /\ MaxDelay \in 0..Overlap /\ Overlap <= Lookback
  /\ {MaxTime, MaxStops, Overlap, Lookback, FullSweep} \subseteq Nat
  /\ {PerPage, MaxPages, MinWindow} \subseteq Nat \ {0}

VARIABLES
  adapter,      \* "hh", "osonish" or "vacancy_gov"
  now,
  date,         \* publication time of each vacancy, Never before it appears
  removed,      \* vacancies the source no longer lists
  stored,       \* listed vacancies that a page brought into the store
  cursor,       \* the saved cursor, Never before the first
  sweep,        \* vacancy_gov: the cursor's second half, the last full sweep
  listing,      \* the listing in progress
  stops,        \* runs that ended early
  missed        \* history: listed vacancies a run is known to have had to leave out

listingVars == <<adapter, now, date, removed, stored, cursor, sweep, listing, stops, missed>>

Never == -1
Times == 0..MaxTime

NoListing ==
  [at |-> "none", hi |-> 0, windows |-> <<>>, since |-> Never, full |-> FALSE,
   newest |-> 0, page |-> 0, pages |-> 0, seen |-> {}, moved |-> FALSE]

ListingTypeOK ==
  /\ adapter \in {"hh", "osonish", "vacancy_gov"}
  /\ now \in Times /\ date \in [Items -> Times \cup {Never}]
  /\ removed \subseteq Items /\ stored \subseteq Items /\ missed \subseteq Items
  /\ cursor \in Times \cup {Never} /\ sweep \in Times \cup {Never}
  /\ listing.at \in {"none", "window", "page"} /\ listing.hi \in Times
  /\ listing.page \in 0..MaxPages /\ listing.pages \in 0..MaxPages /\ listing.seen \subseteq Items
  /\ listing.windows \in Seq(Times \X Times)
  /\ stops \in 0..MaxStops

ListingInit ==
  /\ adapter \in {"hh", "osonish", "vacancy_gov"}
  /\ now = Lookback /\ date = [i \in Items |-> Never]
  /\ removed = {} /\ stored = {} /\ missed = {}
  /\ cursor = Never /\ sweep = Never
  /\ listing = NoListing /\ stops = 0

Least(S) == CHOOSE x \in S : \A y \in S : x <= y
Most(S) == CHOOSE x \in S : \A y \in S : x >= y

Published(i) == date[i] # Never
Listed == {i \in Items : Published(i) /\ i \notin removed}

\* The source's answer: newest first, in one page after the other.
Before(i, j) == date[i] > date[j] \/ (date[i] = date[j] /\ i > j)
Position(i, S) == Cardinality({j \in S : Before(j, i)})
PageOf(S, k) == {i \in S : Position(i, S) \div PerPage = k}
PagesOf(S) == Most({1, (Cardinality(S) + PerPage - 1) \div PerPage})
Reachable(S) == {i \in S : Position(i, S) < MaxPages * PerPage}

-----------------------------------------------------------------------------
\* The source.

\* Appearing in front of a page that is still to come pushes vacancies beyond
\* hh's last page; removing pulls them into a page that was read.
Moves(i) ==
  listing' = IF listing.at = "page" /\ (i \notin Listed => adapter = "hh")
             THEN [listing EXCEPT !.moved = TRUE] ELSE listing

Appear(i) ==
  /\ ~Published(i)
  /\ \E t \in Most({0, now - MaxDelay})..now : date' = [date EXCEPT ![i] = t]
  /\ Moves(i)
  /\ UNCHANGED <<adapter, now, removed, stored, cursor, sweep, stops, missed>>

Withdraw(i) ==
  /\ i \in Listed
  /\ removed' = removed \cup {i}
  /\ stored' = stored \ {i} /\ missed' = missed \ {i}
  /\ Moves(i)
  /\ UNCHANGED <<adapter, now, date, cursor, sweep, stops>>

ListingTick ==
  /\ now < MaxTime
  /\ now' = now + 1
  /\ UNCHANGED <<adapter, date, removed, stored, cursor, sweep, listing, stops, missed>>

-----------------------------------------------------------------------------
\* The start of iter_new.

\* What is older than the look-back is not searched for.
TooOld(start) == {i \in Listed : date[i] < start}

HHStart == Most({now - Lookback, IF cursor = Never THEN now - Lookback ELSE cursor - Overlap})

StartWindows ==
  /\ adapter = "hh" /\ listing.at = "none"
  /\ listing' = [NoListing EXCEPT !.at = "window", !.hi = now, !.windows = <<<<HHStart, now>>>>]
  /\ missed' = missed \cup TooOld(HHStart)
  /\ UNCHANGED <<adapter, now, date, removed, stored, cursor, sweep, stops>>

\* Mutant: the overlap is left out.
OsonishSinceCursor == IF cursor = Never THEN now - Lookback ELSE cursor

\* osonish: everything newer than the cursor less an overlap.
OsonishSince == IF cursor = Never THEN now - Lookback ELSE cursor - Overlap

\* vacancy_gov: the same, but once a day everything.
GovSince(full) == IF full THEN Never ELSE cursor - Overlap

SweepDue == cursor = Never \/ now - sweep >= FullSweep

StartPages ==
  /\ adapter # "hh" /\ listing.at = "none"
  /\ LET full == adapter = "vacancy_gov" /\ SweepDue
         since == IF adapter = "osonish" THEN OsonishSince ELSE GovSince(full)
     IN  /\ listing' = [NoListing EXCEPT !.at = "page", !.hi = now, !.since = since, !.full = full,
                                 !.newest = Most({0, cursor})]
         /\ missed' = IF cursor = Never THEN missed \cup TooOld(since) ELSE missed
  /\ UNCHANGED <<adapter, now, date, removed, stored, cursor, sweep, stops>>

-----------------------------------------------------------------------------
\* hh: _window, with the recursion as a stack of windows, oldest first.

Window == Head(listing.windows)
InWindow == {i \in Listed : date[i] >= Window[1] /\ date[i] <= Window[2]}

TooMany == Cardinality(InWindow) > MaxPages * PerPage /\ Window[2] - Window[1] > MinWindow

SplitWindow ==
  /\ listing.at = "window" /\ TooMany
  /\ LET mid == (Window[1] + Window[2]) \div 2
     IN  listing' = [listing EXCEPT !.windows = <<<<Window[1], mid>>, <<mid, Window[2]>>>> \o Tail(@)]
  /\ UNCHANGED <<adapter, now, date, removed, stored, cursor, sweep, stops, missed>>

\* The last page of a window carries its end as the cursor.
WindowDone ==
  /\ cursor' = Window[2]
  /\ listing' = IF Tail(listing.windows) = <<>> THEN NoListing
            ELSE [listing EXCEPT !.at = "window", !.windows = Tail(@), !.moved = FALSE]

FirstPage ==
  /\ listing.at = "window" /\ ~TooMany
  /\ LET pages == Least({PagesOf(InWindow), MaxPages})
     IN  IF pages = 1 THEN WindowDone
         ELSE /\ listing' = [listing EXCEPT !.at = "page", !.page = 1, !.pages = pages]
              /\ UNCHANGED cursor
  /\ stored' = stored \cup PageOf(InWindow, 0)
  /\ missed' = missed \cup (IF Window[2] - Window[1] <= MinWindow
                              THEN InWindow \ Reachable(InWindow) ELSE {})
  /\ UNCHANGED <<adapter, now, date, removed, sweep, stops>>

NextPage ==
  /\ adapter = "hh" /\ listing.at = "page"
  /\ LET page == PageOf(InWindow, listing.page)
     IN  /\ stored' = stored \cup page
         /\ IF listing.page + 1 >= listing.pages \/ page = {}
            THEN WindowDone /\ missed' = missed \cup (IF listing.moved THEN InWindow \ stored' ELSE {})
            ELSE /\ listing' = [listing EXCEPT !.page = @ + 1]
                 /\ UNCHANGED <<cursor, missed>>
  /\ UNCHANGED <<adapter, now, date, removed, sweep, stops>>

-----------------------------------------------------------------------------
\* osonish and vacancy_gov: iter_new.

Dates(S) == {date[i] : i \in S}
ReachedOld(page) == page # {} /\ Most(Dates(page)) < listing.since
LastPage == listing.page + 1 >= PagesOf(Listed)

RawPage == PageOf(Listed, listing.page)

\* vacancy_gov leaves out what an earlier page of the run had.
NewOnPage == RawPage \ listing.seen

\* Mutant: vacancy_gov takes its page cap for the end, as osonish does.
DoneAtCap == NewOnPage = {} \/ ReachedOld(NewOnPage) \/ LastPage \/ listing.page + 1 >= MaxPages

\* osonish is done at its page cap, vacancy_gov only at the end of the list.
Done ==
  \/ RawPage = {} \/ ReachedOld(NewOnPage) \/ LastPage
  \/ adapter = "osonish" /\ listing.page + 1 >= MaxPages

ReadPage ==
  /\ adapter # "hh" /\ listing.at = "page"
  /\ LET newest == Most({listing.newest} \cup Dates(NewOnPage))
         cut == listing.moved \/ (adapter = "osonish" /\ ~ReachedOld(NewOnPage) /\ ~LastPage)
     IN  /\ stored' = stored \cup NewOnPage
         /\ IF Done
            THEN /\ cursor' = IF newest = 0 THEN cursor ELSE newest
                 /\ sweep' = IF newest # 0 /\ listing.full THEN listing.hi ELSE sweep
                 /\ listing' = NoListing
                 /\ missed' = missed \cup (IF cut THEN Listed \ stored' ELSE {})
            ELSE /\ listing' = IF listing.page + 1 >= MaxPages THEN NoListing
                           ELSE [listing EXCEPT !.page = @ + 1, !.newest = newest,
                                            !.seen = IF adapter = "vacancy_gov" THEN @ \cup NewOnPage ELSE @]
                 /\ UNCHANGED <<cursor, sweep, missed>>
  /\ UNCHANGED <<adapter, now, date, removed, stops>>

\* The source fails, the request budget is spent or the bot stops: what was
\* stored and the last saved cursor stay.
Stop ==
  /\ listing.at # "none" /\ stops < MaxStops
  /\ stops' = stops + 1
  /\ listing' = NoListing
  /\ UNCHANGED <<adapter, now, date, removed, stored, cursor, sweep, missed>>

-----------------------------------------------------------------------------
RunStep == StartWindows \/ StartPages \/ SplitWindow \/ FirstPage \/ NextPage \/ ReadPage

ListingNext ==
  \/ RunStep \/ Stop \/ ListingTick
  \/ \E i \in Items : Appear(i) \/ Withdraw(i)

\* The loop runs a source again and again.
ListingFairness == WF_listingVars(RunStep)

ListingSpec == ListingInit /\ [][ListingNext]_listingVars /\ ListingFairness

-----------------------------------------------------------------------------
\* "the cursor that is safe to store once it is saved": a vacancy older than
\* the cursor less the overlap is in the store, whatever run failed or was cut
\* short where, unless it was out of reach: beyond the look-back, in a window
\* with more results than hh serves, beyond osonish's page cap, or moved across
\* a page boundary while the run was paging.
NothingIsLeftBehind ==
  \A i \in Listed :
    cursor # Never /\ date[i] < cursor - Overlap => i \in stored \cup missed

\* Once the source stands still, every vacancy it lists is stored, under the
\* same exceptions and the page cap of vacancy_gov.
EverythingIsStored == <>[](Reachable(Listed) \subseteq stored \cup missed)
=============================================================================
