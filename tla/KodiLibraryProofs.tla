------------------------- MODULE KodiLibraryProofs -------------------------
(***************************************************************************)
(* Proofs about Kodi's library on its way to the screens: one listing      *)
(* (KodiListing), and the browse screens over the client's queue           *)
(* (KodiBrowse).                                                           *)
(***************************************************************************)
EXTENDS KodiListing, KodiBrowse, TLAPS

-----------------------------------------------------------------------------
(***************************************************************************)
(* KodiListing, for every page size, cap and library size: a Kodi is       *)
(* listed whole, in order and without repetition, or the listing is        *)
(* marked, except in the two cases the properties name.                    *)
(*                                                                         *)
(* The argument: while the loop runs with a Kodi that honours limits,      *)
(* merged is the first start items of the library and start is a whole     *)
(* number of pages below the cap, so a page always fits under the cap.     *)
(* With one that ignores them the loop runs once, unless its only page is  *)
(* mistaken for a full one among several.                                  *)
(***************************************************************************)

\* The first n items of the library.
Prefix(n) == [i \in 1..n |-> i]

\* start is the end of a page below the cap.
PageBoundary(n) == \E k \in 0..(MaxPages - 1) : n = k * kLibraryPageSize

\* Between two pages: what was merged is where the next page continues.
AtPage ==
    /\ ~truncated
    /\ server # "ignores" => /\ merged = Prefix(start) /\ start <= size
                             /\ PageBoundary(start)
    /\ server = "ignores" /\ ~Repeats => start = 0 /\ merged = Prefix(0)

\* The inductive invariant.
Inv ==
    /\ size \in 0..MaxSize /\ server \in {"honours", "rejects", "ignores"}
    /\ reports_total \in BOOLEAN
    /\ listing_pc \in {"page", "unpaged", "done"}
    /\ start \in Nat /\ truncated \in BOOLEAN /\ refused \in BOOLEAN
    /\ ~Repeats => \E n \in 0..size : merged = Prefix(n)
    /\ listing_pc = "page" => AtPage
    /\ listing_pc = "unpaged" => ~truncated /\ server = "rejects"
    /\ WholeOrMarked

-----------------------------------------------------------------------------
\* A prefix is a sequence of its length.
LEMMA PrefixIsSeq ==
    ASSUME NEW n \in Nat, NEW m \in Nat, n <= m
    PROVE  Prefix(n) \in Seq(1..m) /\ Len(Prefix(n)) = n
BY DEF Prefix

\* One more page fits under the cap as long as the cap is not reached.
LEMMA PageFits ==
    ASSUME NEW k \in 0..(MaxPages - 1)
    PROVE  /\ k * kLibraryPageSize \in Nat
           /\ kMaxLibraryItems \in Nat
           /\ k * kLibraryPageSize + kLibraryPageSize <= kMaxLibraryItems
           /\ k * kLibraryPageSize + kLibraryPageSize
                = (k + 1) * kLibraryPageSize
           /\ (k + 1) * kLibraryPageSize < kMaxLibraryItems => k + 1 < MaxPages
<1> DEFINE P == kLibraryPageSize
           K == MaxPages
<1>1. P \in Nat /\ P > 0 /\ K \in Nat /\ k \in Nat /\ k + 1 <= K
  BY ListingAssumption
<1>2. k * P \in Nat /\ K * P \in Nat /\ k * P + P = (k + 1) * P
  BY <1>1
<1>3. (k + 1) * P <= K * P
  BY <1>1
<1>4. k + 1 = K \/ k + 1 < K
  BY <1>1
<1>5. k + 1 = K => (k + 1) * P = K * P
  OBVIOUS
<1> QED
  BY <1>1, <1>2, <1>3, <1>4, <1>5 DEF kMaxLibraryItems
-----------------------------------------------------------------------------
\* The loop starts with nothing merged, at the first page boundary.
LEMMA InitInv == ASSUME ListingInit PROVE Inv
<1>1. merged = Prefix(0) /\ Prefix(0) = Prefix(start)
  BY DEF ListingInit, Prefix
<1>2. PageBoundary(start)
  <2>1. 0 \in 0..(MaxPages - 1) /\ start = 0 * kLibraryPageSize
    BY ListingAssumption DEF ListingInit
  <2> QED  BY <2>1 DEF PageBoundary
<1>3. size \in 0..MaxSize /\ 0 \in 0..size /\ start = 0 /\ listing_pc = "page"
  BY ListingAssumption DEF ListingInit
<1>4. server \in {"honours", "rejects", "ignores"} /\ reports_total \in BOOLEAN
  BY ListingAssumption DEF ListingInit
<1>5. truncated \in BOOLEAN /\ refused \in BOOLEAN /\ ~truncated
  BY Zenon DEF ListingInit
<1> QED
  BY <1>1, <1>2, <1>3, <1>4, <1>5 DEF Inv, AtPage, WholeOrMarked

\* A page of a Kodi that honours limits extends the prefix by a whole page,
\* or ends it.
LEMMA HonouredPageInv ==
    ASSUME Inv, ReceivePage, server = "honours" PROVE Inv'
<1> USE ListingAssumption
<1> DEFINE P == kLibraryPageSize
           n == start + PageSize
<1>1. /\ listing_pc = "page" /\ server = "honours" /\ server' = server
      /\ size' = size /\ size \in Nat /\ start \in Nat /\ start <= size
      /\ merged = Prefix(start) /\ P \in Nat /\ P > 0
      /\ refused' = refused /\ reports_total' = reports_total
  BY DEF Inv, AtPage, ReceivePage
<1>2. PageSize = IF P < size - start THEN P ELSE size - start
  BY <1>1 DEF PageSize, Smaller
<1>3. PageSize \in Nat /\ PageSize <= P /\ n \in Nat /\ n <= size
  BY <1>1, <1>2
<1>4. PICK k \in 0..(MaxPages - 1) : start = k * P
  BY <1>1 DEF Inv, AtPage, PageBoundary
<1>5. Len(merged) = start
  BY <1>1, PrefixIsSeq
<1>6. Taken = PageSize
  <2>1. start + P <= kMaxLibraryItems /\ kMaxLibraryItems \in Nat
    BY <1>4, PageFits
  <2> QED  BY <2>1, <1>1, <1>3, <1>5 DEF Taken, Smaller
<1>7. merged' = Prefix(n)
  <2>1. merged' = [i \in 1..n |-> IF i <= start THEN merged[i]
                                               ELSE PageItem(i - start)]
    BY <1>5, <1>6 DEF ReceivePage, Merged
  <2>2. ASSUME NEW i \in 1..n
        PROVE  (IF i <= start THEN merged[i] ELSE PageItem(i - start)) = i
    BY <1>1, <1>3 DEF PageItem, Prefix
  <2> QED  BY <2>1, <2>2 DEF Prefix
<1>8. Len(merged') = n /\ start' = n
  BY <1>3, <1>7, PrefixIsSeq DEF ReceivePage, NextStart
<1>9. /\ size' \in 0..MaxSize /\ server' \in {"honours", "rejects", "ignores"}
      /\ reports_total' \in BOOLEAN /\ refused' \in BOOLEAN
      /\ start' \in Nat
      /\ \E m \in 0..size' : merged' = Prefix(m)
      /\ ~Repeats'
  BY <1>1, <1>3, <1>7, <1>8 DEF Inv, Repeats
<1>10. CASE LastPage
  <2>1. n = size
    BY <1>1, <1>2, <1>10 DEF LastPage
  <2>2. listing_pc' = "done" /\ truncated' = FALSE
    BY <1>10 DEF ReceivePage
  <2>3. truncated' \in BOOLEAN
    BY <2>2, Zenon
  <2>4. merged' = [i \in 1..size' |-> i]
    BY <1>1, <1>7, <2>1 DEF Prefix
  <2> QED
    BY <1>9, <2>2, <2>3, <2>4 DEF Inv, WholeOrMarked
<1>11. CASE ~LastPage
  <2>1. PageSize = P /\ n = (k + 1) * P
    BY <1>4, <1>11, PageFits DEF LastPage
  <2>2. CASE AtCap(Len(merged'))
    <3>1. listing_pc' = "done" /\ truncated' = TRUE
      BY <1>11, <2>2 DEF ReceivePage
    <3>2. truncated' \in BOOLEAN
      BY <3>1, Zenon
    <3> QED
      BY <1>9, <3>1, <3>2 DEF Inv, WholeOrMarked
  <2>3. CASE ~AtCap(Len(merged'))
    <3>1. listing_pc' = "page" /\ truncated' = FALSE
      BY <1>11, <2>3 DEF ReceivePage
    <3>2. PageBoundary(n)
      <4>1. n < kMaxLibraryItems
        BY <1>3, <1>8, <2>3, <1>4, PageFits DEF AtCap
      <4>2. k + 1 \in 0..(MaxPages - 1)
        BY <2>1, <4>1, PageFits
      <4> QED  BY <2>1, <4>2 DEF PageBoundary
    <3>3. truncated' \in BOOLEAN
      BY <3>1, Zenon
    <3>4. merged' = Prefix(start') /\ start' <= size'
      BY <1>1, <1>3, <1>7, <1>8
    <3>5. PageBoundary(start)'
      BY <1>8, <3>2 DEF PageBoundary
    <3>6. AtPage'
      BY <1>1, <3>1, <3>4, <3>5 DEF AtPage
    <3> QED
      BY <1>9, <3>1, <3>3, <3>6 DEF Inv, WholeOrMarked
  <2> QED  BY <2>2, <2>3
<1> QED  BY <1>10, <1>11

\* A page of a Kodi that ignores limits holds everything and is recognised
\* as the last one.
LEMMA WholePageInv ==
    ASSUME Inv, ReceivePage, server = "ignores", ~Repeats PROVE Inv'
<1> USE ListingAssumption
<1>1. /\ listing_pc = "page" /\ server' = server /\ size' = size /\ size \in Nat
      /\ start = 0 /\ merged = Prefix(0) /\ PageSize = size
      /\ refused' = refused /\ reports_total' = reports_total
      /\ reports_total \in BOOLEAN
  BY DEF Inv, AtPage, ReceivePage, PageSize
<1>2. kMaxLibraryItems \in Nat /\ Len(merged) = 0
  <2>1. 0 \in 0..(MaxPages - 1)
    OBVIOUS
  <2> QED  BY <1>1, <2>1, PageFits, PrefixIsSeq
<1>3. LastPage
  BY <1>1 DEF LastPage, Repeats
<1>4. listing_pc' = "done" /\ truncated' = FALSE
  BY <1>3 DEF ReceivePage
<1>5. truncated' \in BOOLEAN
  BY <1>4, Zenon
<1>6. Taken = IF size < kMaxLibraryItems THEN size ELSE kMaxLibraryItems
  BY <1>1, <1>2 DEF Taken, Smaller
<1>7. merged' = Prefix(Taken) /\ Taken \in 0..size
  <2>1. Taken \in 0..size
    BY <1>1, <1>2, <1>6
  <2>2. merged' = [i \in 1..Taken |-> IF i <= 0 THEN merged[i]
                                               ELSE PageItem(i - 0)]
    BY <1>2, <2>1 DEF ReceivePage, Merged
  <2>3. ASSUME NEW i \in 1..Taken
        PROVE  (IF i <= 0 THEN merged[i] ELSE PageItem(i - 0)) = i
    BY <2>1 DEF PageItem
  <2> QED  BY <2>1, <2>2, <2>3 DEF Prefix
<1>8. ~Oversized' => merged' = [i \in 1..size' |-> i]
  BY <1>1, <1>2, <1>6, <1>7 DEF Oversized, Prefix, kMaxLibraryItems
<1>9. start' \in Nat
  BY <1>1 DEF ReceivePage, NextStart
<1>10. size' \in 0..MaxSize /\ refused' \in BOOLEAN
  BY <1>1 DEF Inv
<1>11. \E m \in 0..size' : merged' = Prefix(m)
  BY <1>1, <1>7
<1> QED
  BY <1>1, <1>4, <1>5, <1>8, <1>9, <1>10, <1>11 DEF Inv, WholeOrMarked

\* A page mistaken for one of several never ends the loop unmarked.
LEMMA RepeatedPageInv == ASSUME Inv, ReceivePage, Repeats PROVE Inv'
<1> USE ListingAssumption
<1>1. /\ listing_pc = "page" /\ server' = server /\ size' = size /\ size \in Nat
      /\ server = "ignores" /\ PageSize = size /\ size > 0 /\ start \in Nat
      /\ refused' = refused /\ reports_total' = reports_total
      /\ reports_total \in BOOLEAN
  BY DEF Inv, ReceivePage, PageSize, Repeats
<1>2. Repeats' /\ ~LastPage
  BY <1>1 DEF LastPage, Repeats
<1>3. start' \in Nat /\ start' # 0
  BY <1>1 DEF ReceivePage, NextStart
<1>4. size' \in 0..MaxSize /\ refused' \in BOOLEAN
  BY <1>1 DEF Inv
<1>5. CASE AtCap(Len(merged'))
  <2>1. listing_pc' = "done" /\ truncated' = TRUE
    BY <1>2, <1>5 DEF ReceivePage
  <2>2. truncated' \in BOOLEAN
    BY <2>1, Zenon
  <2> QED
    BY <1>1, <1>2, <1>3, <1>4, <2>1, <2>2 DEF Inv, WholeOrMarked
<1>6. CASE ~AtCap(Len(merged'))
  <2>1. listing_pc' = "page" /\ truncated' = FALSE
    BY <1>2, <1>6 DEF ReceivePage
  <2>2. truncated' \in BOOLEAN
    BY <2>1, Zenon
  <2>3. AtPage'
    BY <1>1, <1>2, <2>1 DEF AtPage
  <2> QED
    BY <1>1, <1>2, <1>3, <1>4, <2>1, <2>2, <2>3 DEF Inv, WholeOrMarked
<1> QED  BY <1>5, <1>6

\* Every step keeps the invariant.
LEMMA NextInv == ASSUME Inv, [ListingNext]_listing_vars PROVE Inv'
<1> USE DEF Inv, AtPage, WholeOrMarked, PageBoundary, Prefix, Oversized, Repeats
<1>1. CASE ReceivePage
  <2>1. server \in {"honours", "ignores"}
    BY <1>1 DEF ReceivePage
  <2> QED  BY <1>1, <2>1, HonouredPageInv, WholePageInv, RepeatedPageInv
<1>2. CASE ReceiveError
  BY <1>2 DEF ReceiveError
<1>3. CASE ReceiveNoList
  BY <1>3 DEF ReceiveNoList
<1>4. CASE ReceiveUnpaged
  <2>1. size \in Nat /\ size' = size /\ size \in 0..size
    BY <1>4, ListingAssumption DEF ReceiveUnpaged
  <2>2. merged' = Prefix(size) /\ listing_pc' = "done"
    BY <1>4 DEF ReceiveUnpaged
  <2> QED
    BY <1>4, <2>1, <2>2 DEF ReceiveUnpaged
<1>5. CASE CallTimesOut
  BY <1>5 DEF CallTimesOut, MarkTimeout
<1>6. CASE UNCHANGED listing_vars
  BY <1>6 DEF listing_vars
<1> QED
  BY <1>1, <1>2, <1>3, <1>4, <1>5, <1>6 DEF ListingNext

\* The invariant holds of every behaviour.
LEMMA AlwaysInv == ListingSpec => []Inv
<1>1. ListingInit => Inv
  BY InitInv
<1>2. Inv /\ [ListingNext]_listing_vars => Inv'
  BY NextInv
<1> QED  BY <1>1, <1>2, PTL DEF ListingSpec

\* A listing that CallLibrary() does not mark is the whole library in order,
\* for every page size, cap and library size.
THEOREM ListingWholeOrMarked == ListingSpec => []WholeOrMarked
<1>1. Inv => WholeOrMarked
  BY DEF Inv
<1> QED  BY <1>1, AlwaysInv, PTL

\* CallLibrary() lists no item twice, wherever the loop is cut short.
THEOREM ListingNoItemTwice == ListingSpec => []NoItemTwice
<1>1. Inv => NoItemTwice
  BY DEF Inv, NoItemTwice, Prefix
<1> QED  BY <1>1, AlwaysInv, PTL

\* Both: a listing that CallLibrary() delivers is whole or marked as cut, and
\* holds no item twice.
THEOREM ListingSafeHolds == ListingSpec => []ListingSafe
<1>1. WholeOrMarked /\ NoItemTwice => ListingSafe
  BY DEF ListingSafe
<1> QED
  BY <1>1, ListingWholeOrMarked, ListingNoItemTwice, PTL

-----------------------------------------------------------------------------
(***************************************************************************)
(* KodiBrowse, for every set of items, cap of the queue and number of      *)
(* taps, drops and answers: the list on a Kodi screen answers what was     *)
(* opened on this connection, or an answer is on its way.                  *)
(*                                                                         *)
(* The argument: the view shows a list only after a choice in every list   *)
(* above it, so going back never meets a list that is still loading, and   *)
(* a reconnect goes back to the top.  The queue of events is what orders   *)
(* answers and reconnects: an answer of an earlier connection is ahead of  *)
(* the reconnect, and a disconnect that was overtaken is ahead of the next *)
(* connect.  Once all of them are handled, every list down to the one      *)
(* shown is filled from this connection or has an answer coming; the top   *)
(* list of a screen that is not shown may be stale instead.                *)
(***************************************************************************)
(* The inductive invariant *)

Names == {"movies", "shows", "artists", "groups", "sources", "other"} \cup Items

\* What the screen asks for: a list below its top, after as many choices as
\* the list is deep; the files screen's one list after any number of them.
AsksFor(level, of) ==
    \E p \in Seq(Items) :
        /\ of = <<Top>> \o p
        /\ IF screen = "files" THEN level = 1 ELSE level \in 1..Lists /\ Len(p) = level - 1

Requests == {r \in [level : Nat, of : Seq(Names)] : r.of = Other \/ AsksFor(r.level, r.of)}
Answers == {e \in [kind : Results, level : 1..3, of : Seq(Names), session : Nat] :
                AsksFor(e.level, e.of)}
UiEvents == [kind : {"up", "down"}] \cup Answers

BrowseTypes ==
    /\ screen \in BrowseScreens /\ shown \in BOOLEAN /\ browse_stale \in BOOLEAN
    /\ view \in {Hint, Detail, AllHidden} \cup 1..Lists
    /\ rows \in [1..3 -> {Loading} \cup Answers] /\ path \in Seq(Items)
    /\ link \in {"up", "down"} /\ session \in Nat /\ evicted \in BOOLEAN /\ others_left \in Nat
    /\ pending \in Seq(Requests) /\ Len(pending) <= kMaxPendingLibrary
    /\ browse_batch \in Seq(Requests) /\ ui_events \in Seq(UiEvents)

\* An event of the queue has a reconnect queued behind it.
UpAfter(q, i) == \E j \in 1..Len(q) : j > i /\ q[j].kind = "up"

\* While connected, a disconnect still queued is followed by the reconnect.
LinkTold(q) == \A i \in 1..Len(q) : q[i].kind = "down" => UpAfter(q, i)

\* An answer of an earlier connection is handled before the reconnect is.
AnswersFresh(q, s) ==
    \A i \in 1..Len(q) : q[i].kind \in Results => q[i].session = s \/ UpAfter(q, i)

EventsInv == (link = "up" => LinkTold(ui_events)) /\ AnswersFresh(ui_events, session)

\* The lists from the top down to the one shown, or the one a detail is of.
Depth == IF view \in 1..3 THEN view ELSE IF view = Detail THEN Lists ELSE 1

\* Something was chosen in every list above, so none of them is loading.
PathInv ==
    /\ screen = "files" => view \in {Hint, 1}
    /\ Len(path) >= Depth - 1
    /\ \A l \in 1..Depth : l < Depth \/ view = Detail => rows[l] # Loading

OpenedInv ==
    \A l \in 1..Depth : rows[l] # Loading /\ <<screen, l>> # <<"music", 3>>
                        => rows[l].of = Opened(l)

\* The rows are of this connection, or are about to be replaced.
Filled(l) == rows[l] # Loading /\ rows[l].session = session

\* The top list may also wait for the screen to be shown.
CurrentInv ==
    Settled /\ ~evicted =>
        /\ Filled(1) \/ Coming(1) \/ (browse_stale /\ ~shown)
        /\ \A l \in 2..Depth : Filled(l) \/ Coming(l)

ScreenInv == PathInv /\ OpenedInv /\ CurrentInv /\ TimeoutRetried

BrowseInv == BrowseTypes /\ EventsInv /\ ScreenInv

-----------------------------------------------------------------------------
(* The screens and what they ask for *)

\* What the table of screens says.
LEMMA ScreenFacts ==
    ASSUME screen \in BrowseScreens
    PROVE  /\ screen \in {"movies", "tvshows", "music", "livetv", "files"}
           /\ Lists \in 1..3 /\ Top \in {"movies", "shows", "artists", "groups", "sources"}
           /\ Screens[screen].filtered \subseteq 1..3
           /\ screen = "files" => Lists = 1 /\ Screens[screen].filtered = {1}
           /\ screen # "files" => Screens[screen].filtered \subseteq 2..3
           /\ screen \in {"tvshows", "music"} => Lists = 3 /\ 2 \in Screens[screen].filtered
           /\ screen = "tvshows" => 3 \in Screens[screen].filtered
           /\ screen = "livetv" => Lists = 2 /\ 2 \in Screens[screen].filtered
           /\ screen = "movies" => Lists = 1
  BY BrowseAssumption DEF Screens, Lists, Top, MoviesScreen, TvShowsScreen, MusicScreen,
     LiveTvScreen, FilesScreen

\* A sequence put behind one element is its tail.
LEMMA ConsFacts ==
    ASSUME NEW t \in Names, NEW p \in Seq(Items)
    PROVE  /\ <<t>> \o p \in Seq(Names) /\ Tail(<<t>> \o p) = p
           /\ (<<t>> \o p)[1] = t /\ Len(<<t>> \o p) = Len(p) + 1
           /\ Len(p) = 0 => <<t>> \o p = <<t>>
  <1>1. <<t>> \o p \in Seq(Names) /\ (<<t>> \o p)[1] = t /\ Len(<<t>> \o p) = Len(p) + 1
    BY DEF Names
  <1>2. Tail(<<t>> \o p) = p
    BY DEF Names
  <1>3. ASSUME Len(p) = 0 PROVE <<t>> \o p = <<t>>
    BY <1>3 DEF Names
  <1>. QED  BY <1>1, <1>2, <1>3

\* What the screen asks for is no other screen's request.
LEMMA AsksForFacts ==
    ASSUME screen \in BrowseScreens, NEW level, NEW of, AsksFor(level, of)
    PROVE  /\ level \in 1..3 /\ level \in 1..Lists /\ of \in Seq(Names) /\ of # Other
           /\ Request(level, of) \in Requests /\ of = <<Top>> \o Tail(of)
           /\ Tail(of) \in Seq(Items)
           /\ screen # "files" => Len(Tail(of)) = level - 1
           /\ screen = "files" => level = 1
  <1>1. PICK p \in Seq(Items) :
            /\ of = <<Top>> \o p
            /\ IF screen = "files" THEN level = 1 ELSE level \in 1..Lists /\ Len(p) = level - 1
    BY DEF AsksFor
  <1>2. Top \in Names /\ Top # "other" /\ Lists \in 1..3
    BY ScreenFacts DEF Names
  <1>3. of \in Seq(Names) /\ of[1] = Top /\ Tail(of) = p
    BY <1>1, <1>2, ConsFacts
  <1>4. of # Other
    BY <1>2, <1>3 DEF Other
  <1>5. level \in 1..3 /\ level \in 1..Lists
    BY <1>1, <1>2, ScreenFacts
  <1>6. Request(level, of) \in Requests
    BY <1>3, <1>5 DEF Request, Requests
  <1>. QED  BY <1>1, <1>3, <1>4, <1>5, <1>6

\* What is opened after the choices p.
OpenedOf(p, l) == <<Top>> \o (IF screen = "files" THEN p ELSE SubSeq(p, 1, l - 1))

\* A list that was opened is asked for as such.
LEMMA OpenedAsked ==
    ASSUME screen \in BrowseScreens, NEW p \in Seq(Items), NEW l \in 1..Lists,
           screen # "files" => Len(p) >= l - 1
    PROVE  AsksFor(l, OpenedOf(p, l))
  <1>1. Lists \in 1..3 /\ (screen = "files" => l = 1)
    BY ScreenFacts
  <1>2. CASE screen = "files"
    BY <1>1, <1>2 DEF AsksFor, OpenedOf
  <1>3. CASE screen # "files"
    <2>1. SubSeq(p, 1, l - 1) \in Seq(Items) /\ Len(SubSeq(p, 1, l - 1)) = l - 1
      BY <1>1, <1>3
    <2>. QED  BY <1>3, <2>1 DEF AsksFor, OpenedOf
  <1>. QED  BY <1>2, <1>3

\* The top list of a screen is the one its loader requests.
LEMMA OpenedTop ==
    ASSUME screen \in BrowseScreens, NEW p \in Seq(Items)
    PROVE  OpenedOf(p, 1) = IF screen = "files" THEN <<Top>> \o p ELSE <<Top>>
  <1>1. CASE screen = "files"
    BY <1>1 DEF OpenedOf
  <1>2. CASE screen # "files"
    <2>1. SubSeq(p, 1, 0) \in Seq(Items) /\ Len(SubSeq(p, 1, 0)) = 0
      OBVIOUS
    <2>2. Top \in Names
      BY ScreenFacts DEF Names
    <2>3. <<Top>> \o SubSeq(p, 1, 0) = <<Top>>
      BY <2>1, <2>2, ConsFacts
    <2>4. OpenedOf(p, 1) = <<Top>> \o SubSeq(p, 1, 0)
      BY <1>2 DEF OpenedOf
    <2>. QED  BY <1>2, <2>3, <2>4
  <1>. QED  BY <1>1, <1>2

-----------------------------------------------------------------------------
(* The client's queue *)

\* A request is queued, or taken by the client.
Queued(r) == Contains(pending, r) \/ Contains(browse_batch, r)
Answered(l, of) ==
    \E i \in 1..Len(ui_events) : ui_events[i].kind \in Results /\ ui_events[i].level = l
                                 /\ ui_events[i].of = of
Awaited(l, of) == Queued(Request(l, of)) \/ Answered(l, of)

\* Membership in two queues put together.
LEMMA ContainsConcat ==
    ASSUME NEW S, NEW p \in Seq(S), NEW b \in Seq(S), NEW r
    PROVE  Contains(p \o b, r) <=> Contains(p, r) \/ Contains(b, r)
  <1>1. /\ Len(p \o b) = Len(p) + Len(b) /\ Len(p) \in Nat /\ Len(b) \in Nat
        /\ \A i \in 1..Len(p) : (p \o b)[i] = p[i]
        /\ \A i \in 1..Len(b) : (p \o b)[Len(p) + i] = b[i]
    OBVIOUS
  <1>2. ASSUME Contains(p \o b, r) PROVE Contains(p, r) \/ Contains(b, r)
    <2>1. PICK i \in 1..(Len(p) + Len(b)) : (p \o b)[i] = r
      BY <1>1, <1>2 DEF Contains
    <2>2. CASE i <= Len(p)
      BY <1>1, <2>1, <2>2 DEF Contains
    <2>3. CASE i > Len(p)
      <3>1. i - Len(p) \in 1..Len(b) /\ Len(p) + (i - Len(p)) = i
        BY <1>1, <2>3
      <3>2. b[i - Len(p)] = r
        BY <1>1, <2>1, <3>1
      <3>. QED  BY <3>1, <3>2 DEF Contains
    <2>. QED  BY <1>1, <2>2, <2>3
  <1>3. ASSUME Contains(p, r) PROVE Contains(p \o b, r)
    BY <1>1, <1>3 DEF Contains
  <1>4. ASSUME Contains(b, r) PROVE Contains(p \o b, r)
    <2>1. PICK i \in 1..Len(b) : b[i] = r
      BY <1>4 DEF Contains
    <2>2. Len(p) + i \in 1..Len(p \o b)
      BY <1>1
    <2>. QED  BY <1>1, <2>1, <2>2 DEF Contains
  <1>. QED  BY <1>2, <1>3, <1>4

\* What is coming, in terms of the two queues.
LEMMA ComingIsAwaited ==
    ASSUME BrowseTypes, NEW l
    PROVE  Coming(l) <=> Awaited(l, OpenedOf(path, l))
  <1>1. Contains(pending \o browse_batch, Request(l, Opened(l))) <=> Queued(Request(l, Opened(l)))
    BY ContainsConcat DEF BrowseTypes, Queued
  <1>2. Opened(l) = OpenedOf(path, l)
    BY DEF Opened, OpenedOf
  <1>. QED  BY <1>1, <1>2 DEF Coming, Awaited, Answered

\* The same of the next state.
LEMMA ComingIsAwaitedNext ==
    ASSUME BrowseTypes', screen' = screen, NEW l, NEW of, of = OpenedOf(path', l)
    PROVE  Coming(l)' <=> Awaited(l, of)'
  <1>1. Contains(pending' \o browse_batch', Request(l, of))
        <=> Contains(pending', Request(l, of)) \/ Contains(browse_batch', Request(l, of))
    BY ContainsConcat DEF BrowseTypes
  <1>2. Opened(l)' = of
    BY DEF Opened, OpenedOf, Top
  <1>. QED  BY <1>1, <1>2 DEF Coming, Awaited, Answered, Queued, Request

\* EnqueueLibraryRequest() queues its request and, unless it evicts one,
\* keeps the others.
LEMMA EnqueuedFacts ==
    ASSUME NEW S, NEW q \in Seq(S), NEW r \in S, Len(q) <= kMaxPendingLibrary
    PROVE  /\ Enqueued(q, r) \in Seq(S) /\ Len(Enqueued(q, r)) <= kMaxPendingLibrary
           /\ Contains(Enqueued(q, r), r)
           /\ ~(Len(q) = kMaxPendingLibrary /\ ~Contains(q, r))
              => \A x : Contains(q, x) => Contains(Enqueued(q, r), x)
  <1>1. kMaxPendingLibrary \in Nat \ {0} /\ Len(q) \in Nat
    BY BrowseAssumption
  <1>2. CASE Contains(q, r)
    BY <1>2 DEF Enqueued
  <1>3. CASE ~Contains(q, r) /\ Len(q) < kMaxPendingLibrary
    <2>1. Enqueued(q, r) = Append(q, r)
      BY <1>3 DEF Enqueued
    <2>2. /\ Append(q, r) \in Seq(S) /\ Len(Append(q, r)) = Len(q) + 1
          /\ Append(q, r)[Len(q) + 1] = r
          /\ \A i \in 1..Len(q) : i \in 1..Len(Append(q, r)) /\ Append(q, r)[i] = q[i]
          /\ Len(q) + 1 \in 1..Len(Append(q, r))
      OBVIOUS
    <2>3. Contains(Append(q, r), r) /\ \A x : Contains(q, x) => Contains(Append(q, r), x)
      BY <2>2 DEF Contains
    <2>. QED  BY <1>1, <1>3, <2>1, <2>2, <2>3
  <1>4. CASE ~Contains(q, r) /\ Len(q) = kMaxPendingLibrary
    <2>1. Enqueued(q, r) = Append(Tail(q), r)
      BY <1>1, <1>4 DEF Enqueued
    <2>2. Tail(q) \in Seq(S) /\ Len(Tail(q)) = Len(q) - 1
      BY <1>1, <1>4
    <2>3. /\ Append(Tail(q), r) \in Seq(S) /\ Len(Append(Tail(q), r)) = Len(q)
          /\ Append(Tail(q), r)[Len(q)] = r
      BY <1>1, <2>2
    <2>4. Contains(Append(Tail(q), r), r)
      BY <1>1, <1>4, <2>3 DEF Contains
    <2>. QED  BY <1>4, <2>1, <2>3, <2>4
  <1>. QED  BY <1>1, <1>2, <1>3, <1>4

\* A request made is queued, and what was queued stays unless it evicts.
LEMMA RequestKeeps ==
    ASSUME BrowseTypes, NEW level, NEW of, AsksFor(level, of), RequestListing(level, of)
    PROVE  /\ pending' \in Seq(Requests) /\ Len(pending') <= kMaxPendingLibrary
           /\ evicted' \in BOOLEAN /\ Contains(pending', Request(level, of))
           /\ ~evicted' => ~evicted /\ \A x : Contains(pending, x) => Contains(pending', x)
  <1>1. Request(level, of) \in Requests
    BY AsksForFacts DEF BrowseTypes
  <1>2. pending' = Enqueued(pending, Request(level, of))
    BY DEF RequestListing
  <1>3. evicted' = (evicted \/ (Len(pending) = kMaxPendingLibrary
                               /\ ~Contains(pending, Request(level, of))))
    BY DEF RequestListing
  <1>4. pending \in Seq(Requests) /\ Len(pending) <= kMaxPendingLibrary /\ evicted \in BOOLEAN
    BY DEF BrowseTypes
  <1>5. /\ pending' \in Seq(Requests) /\ Len(pending') <= kMaxPendingLibrary
        /\ Contains(pending', Request(level, of))
    BY <1>1, <1>2, <1>4, EnqueuedFacts
  <1>6. ~(Len(pending) = kMaxPendingLibrary /\ ~Contains(pending, Request(level, of)))
        => \A x : Contains(pending, x) => Contains(pending', x)
    BY <1>1, <1>2, <1>4, EnqueuedFacts
  <1>7. evicted' \in BOOLEAN /\ (~evicted' => ~evicted)
    BY <1>3, <1>4, Zenon
  <1>8. ~evicted' => \A x : Contains(pending, x) => Contains(pending', x)
    BY <1>3, <1>6, Zenon
  <1>. QED  BY <1>5, <1>7, <1>8, Zenon

-----------------------------------------------------------------------------
(* The queue of events *)

\* What an event added does to the order of answers and reconnects.
LEMMA EventsAppend ==
    ASSUME NEW S, NEW q \in Seq(S), NEW e \in S
    PROVE  /\ e.kind # "down" /\ LinkTold(q) => LinkTold(Append(q, e))
           /\ \A s : AnswersFresh(q, s) /\ (e.kind \in Results => e.session = s)
                     => AnswersFresh(Append(q, e), s)
           /\ e.kind = "up" => LinkTold(Append(q, e)) /\ \A s : AnswersFresh(Append(q, e), s)
  <1>1. /\ Len(Append(q, e)) = Len(q) + 1 /\ Len(q) \in Nat /\ Append(q, e)[Len(q) + 1] = e
        /\ \A i \in 1..Len(q) : Append(q, e)[i] = q[i]
    OBVIOUS
  <1>2. \A i \in 1..Len(q) : UpAfter(q, i) => UpAfter(Append(q, e), i)
    BY <1>1 DEF UpAfter
  <1>3. e.kind = "up" => \A i \in 1..Len(q) : UpAfter(Append(q, e), i)
    BY <1>1 DEF UpAfter
  <1>4. \A i \in 1..Len(Append(q, e)) : \/ i \in 1..Len(q) /\ Append(q, e)[i] = q[i]
                                        \/ i = Len(q) + 1 /\ Append(q, e)[i] = e
    BY <1>1
  <1>5. e.kind # "down" /\ LinkTold(q) => LinkTold(Append(q, e))
    BY <1>2, <1>4 DEF LinkTold
  <1>6. ASSUME NEW s, AnswersFresh(q, s), e.kind \in Results => e.session = s
        PROVE  AnswersFresh(Append(q, e), s)
    BY <1>2, <1>4, <1>6 DEF AnswersFresh
  <1>7. ASSUME e.kind = "up"
        PROVE  LinkTold(Append(q, e)) /\ \A s : AnswersFresh(Append(q, e), s)
    <2>1. e.kind # "down" /\ e.kind \notin Results
      BY <1>7 DEF Results
    <2>2. \A i \in 1..Len(q) : UpAfter(Append(q, e), i)
      BY <1>3, <1>7
    <2>3. LinkTold(Append(q, e))
      BY <1>4, <2>1, <2>2 DEF LinkTold
    <2>4. ASSUME NEW s PROVE AnswersFresh(Append(q, e), s)
      BY <1>4, <2>1, <2>2 DEF AnswersFresh
    <2>. QED  BY <2>3, <2>4
  <1>. QED  BY <1>5, <1>6, <1>7

\* Handling an event keeps that order.
LEMMA EventsTail ==
    ASSUME NEW S, NEW q \in Seq(S), q # <<>>
    PROVE  /\ LinkTold(q) => LinkTold(Tail(q))
           /\ \A s : AnswersFresh(q, s) => AnswersFresh(Tail(q), s)
  <1>1. /\ Len(Tail(q)) = Len(q) - 1 /\ Len(q) \in Nat \ {0}
        /\ \A i \in 1..Len(Tail(q)) : i + 1 \in 1..Len(q) /\ Tail(q)[i] = q[i + 1]
    OBVIOUS
  <1>2. ASSUME NEW i \in 1..Len(Tail(q)), UpAfter(q, i + 1) PROVE UpAfter(Tail(q), i)
    <2>1. PICK j \in 1..Len(q) : j > i + 1 /\ q[j].kind = "up"
      BY <1>2 DEF UpAfter
    <2>2. j - 1 \in 1..Len(Tail(q)) /\ (j - 1) + 1 = j /\ j - 1 > i
      BY <1>1, <2>1
    <2>. QED  BY <1>1, <2>1, <2>2 DEF UpAfter
  <1>. QED  BY <1>1, <1>2 DEF LinkTold, AnswersFresh

\* An answer queued is still there after another event was, or one was taken.
LEMMA AnswerStays ==
    ASSUME NEW S, NEW q \in Seq(S), NEW e, NEW i \in 1..Len(q)
    PROVE  /\ i \in 1..Len(Append(q, e)) /\ Append(q, e)[i] = q[i]
           /\ i = 1 \/ (i - 1 \in 1..Len(Tail(q)) /\ Tail(q)[i - 1] = q[i])
           /\ q # <<>> /\ Head(q) = q[1]
  OBVIOUS

\* A request taken from the queue was its first.
LEMMA ContainsTail ==
    ASSUME NEW S, NEW q \in Seq(S), NEW r, Contains(q, r)
    PROVE  r = Head(q) \/ Contains(Tail(q), r)
  <1>1. PICK i \in 1..Len(q) : q[i] = r
    BY DEF Contains
  <1>. QED  BY <1>1, AnswerStays DEF Contains

-----------------------------------------------------------------------------
(* Types, and the queue of events, in every step *)

\* A behaviour follows one screen.
LEMMA SameScreen ==
    ASSUME screen' = screen
    PROVE  /\ Top' = Top /\ Lists' = Lists /\ Requests' = Requests /\ Answers' = Answers
           /\ UiEvents' = UiEvents
           /\ \A l, of : AsksFor(l, of)' <=> AsksFor(l, of)
  <1>1. Top' = Top /\ Lists' = Lists
    BY DEF Top, Lists
  <1>2. \A l, of : AsksFor(l, of)' <=> AsksFor(l, of)
    BY <1>1 DEF AsksFor
  <1>3. Requests' = Requests /\ Answers' = Answers
    BY <1>1, <1>2, Zenon DEF Requests, Answers
  <1>. QED  BY <1>1, <1>2, <1>3 DEF UiEvents

\* The steps of the screens, by what they do.
TapStep ==
    \/ \E level \in 2..3, item \in Items :
          screen # "files" /\ level <= Lists /\ ShowList(level, item)
    \/ \E level \in 1..3 : screen # "files" /\ level <= Lists /\ BackTo(level)
    \/ screen # "files" /\ ShowDetail(Lists)
    \/ PlayDetail \/ \E level \in 1..3 : PlayRow(level)
    \/ \E item \in Items : EnterFolder(item)
    \/ GoBack

\* The screens' taps, by what they do.
LEMMA TapSteps ==
    ASSUME BrowseTypes, KodiMoviesScreen \/ KodiTvShowsScreen \/ KodiMusicScreen
                        \/ KodiLiveTvScreen \/ KodiFilesScreen
    PROVE  TapStep
  <1>1. screen \in BrowseScreens
    BY DEF BrowseTypes
  <1>2. CASE KodiMoviesScreen
    BY <1>1, <1>2, ScreenFacts DEF KodiMoviesScreen, TapStep
  <1>3. CASE KodiTvShowsScreen
    BY <1>1, <1>3, ScreenFacts DEF KodiTvShowsScreen, TapStep
  <1>4. CASE KodiMusicScreen
    BY <1>1, <1>4, ScreenFacts DEF KodiMusicScreen, TapStep
  <1>5. CASE KodiLiveTvScreen
    BY <1>1, <1>5, ScreenFacts DEF KodiLiveTvScreen, TapStep
  <1>6. CASE KodiFilesScreen
    BY <1>6 DEF KodiFilesScreen, TapStep
  <1>. QED  BY <1>2, <1>3, <1>4, <1>5, <1>6

\* The load callback asks for the top list; the files screen clears it too.
LEMMA LoadFacts ==
    ASSUME BrowseTypes, Load
    PROVE  /\ RequestListing(1, OpenedOf(path, 1)) /\ AsksFor(1, OpenedOf(path, 1))
           /\ rows' = IF screen = "files" THEN [rows EXCEPT ![1] = Loading] ELSE rows
  <1>1. OpenedOf(path, 1) = IF screen = "files" THEN <<Top>> \o path ELSE <<Top>>
    BY OpenedTop DEF BrowseTypes
  <1>2. AsksFor(1, OpenedOf(path, 1))
    <2>1. 1 \in 1..Lists /\ Len(path) >= 1 - 1
      BY ScreenFacts DEF BrowseTypes
    <2>. QED  BY <2>1, OpenedAsked DEF BrowseTypes
  <1>3. CASE screen = "files"
    BY <1>1, <1>2, <1>3 DEF Load
  <1>4. CASE screen # "files"
    BY <1>1, <1>2, <1>4 DEF Load
  <1>. QED  BY <1>3, <1>4

\* ShowSeasonList() and its like choose in the list above; what was chosen
\* further up stays.
LEMMA ShowListFacts ==
    ASSUME BrowseTypes, PathInv, NEW level \in 2..3, level <= Lists, NEW item \in Items,
           screen # "files", ShowList(level, item)
    PROVE  /\ view = level - 1 /\ view' = level /\ rows' = [rows EXCEPT ![level] = Loading]
           /\ rows[level - 1].kind = "rows"
           /\ path' \in Seq(Items) /\ Len(path') >= level - 1
           /\ \A l \in 1..(level - 1) : OpenedOf(path', l) = OpenedOf(path, l)
           /\ RequestListing(level, OpenedOf(path', level)) /\ AsksFor(level, OpenedOf(path', level))
  <1>1. /\ view = level - 1 /\ view' = level /\ rows' = [rows EXCEPT ![level] = Loading]
        /\ rows[level - 1].kind = "rows" /\ path' = Chosen(level, item)
        /\ RequestListing(level, <<Top>> \o SubSeq(path', 1, level - 1))
    BY DEF ShowList, Tappable
  <1>2. path \in Seq(Items) /\ Len(path) >= level - 2 /\ Len(path) \in Nat
    <2>1. view \in 1..3
      BY <1>1
    <2>. QED  BY <1>1, <2>1 DEF BrowseTypes, PathInv, Depth
  <1>3. /\ path' \in Seq(Items) /\ Len(path') >= level - 1
        /\ \A i \in 1..(level - 2) : path'[i] = path[i]
    <2>1. CASE Len(path) >= level - 1
      <3>1. path' = [path EXCEPT ![level - 1] = item] /\ level - 1 \in 1..Len(path)
        BY <1>1, <1>2, <2>1 DEF Chosen
      <3>. QED  BY <1>2, <2>1, <3>1
    <2>2. CASE ~(Len(path) >= level - 1)
      <3>1. path' = Append(path, item)
        BY <1>1, <2>2 DEF Chosen
      <3>. QED  BY <1>2, <2>2, <3>1
    <2>. QED  BY <2>1, <2>2
  <1>4. ASSUME NEW l \in 1..(level - 1) PROVE OpenedOf(path', l) = OpenedOf(path, l)
    <2>1. SubSeq(path', 1, l - 1) = SubSeq(path, 1, l - 1)
      BY <1>2, <1>3
    <2>. QED  BY <2>1 DEF OpenedOf
  <1>5. OpenedOf(path', level) = <<Top>> \o SubSeq(path', 1, level - 1)
    BY DEF OpenedOf
  <1>6. AsksFor(level, OpenedOf(path', level))
    BY <1>3, OpenedAsked DEF BrowseTypes
  <1>. QED  BY <1>1, <1>3, <1>4, <1>5, <1>6

\* Enter() and GoBack() ask for the folder they move to.
LEMMA FolderFacts ==
    ASSUME BrowseTypes, (\E item \in Items : EnterFolder(item)) \/ GoBack
    PROVE  /\ screen = "files" /\ view = 1 /\ rows' = [rows EXCEPT ![1] = Loading]
           /\ path' \in Seq(Items)
           /\ RequestListing(1, OpenedOf(path', 1)) /\ AsksFor(1, OpenedOf(path', 1))
  <1>1. /\ screen = "files" /\ view = 1 /\ rows' = [rows EXCEPT ![1] = Loading]
        /\ RequestListing(1, <<Top>> \o path')
    BY DEF EnterFolder, GoBack, Tappable
  <1>2. path' \in Seq(Items)
    <2>1. CASE GoBack
      <3>1. path \in Seq(Items) /\ path # <<>> /\ path' = SubSeq(path, 1, Len(path) - 1)
        BY <2>1 DEF GoBack, BrowseTypes, Front
      <3>. QED  BY <3>1
    <2>2. CASE \E item \in Items : EnterFolder(item)
      BY <2>2 DEF EnterFolder, BrowseTypes
    <2>. QED  BY <2>1, <2>2
  <1>3. OpenedOf(path', 1) = <<Top>> \o path'
    BY <1>1 DEF OpenedOf
  <1>4. AsksFor(1, OpenedOf(path', 1))
    <2>1. 1 \in 1..Lists
      BY ScreenFacts DEF BrowseTypes
    <2>. QED  BY <1>1, <1>2, <2>1, OpenedAsked DEF BrowseTypes
  <1>. QED  BY <1>1, <1>2, <1>3, <1>4

\* The steps of the client and of other screens.
ClientStep == OtherScreen \/ TakeBatch \/ Answer \/ LinkDown \/ LinkUp

\* The steps of all, by who takes them.
LEMMA StepForms ==
    ASSUME BrowseTypes, BrowseNext
    PROVE  ClientStep \/ Open \/ Leave \/ StateChanged \/ Rebuild \/ TapStep
  BY TapSteps DEF BrowseNext, ClientStep

\* What answering appends to the queue of events.
LEMMA AnswerFacts ==
    ASSUME BrowseTypes, Answer
    PROVE  /\ Head(browse_batch) \in Requests /\ browse_batch' = Tail(browse_batch)
           /\ browse_batch # <<>>
           /\ \/ Head(browse_batch).of = Other /\ ui_events' = ui_events
              \/ \E e \in Answers : /\ e.level = Head(browse_batch).level
                                    /\ e.of = Head(browse_batch).of /\ e.session = session
                                    /\ ui_events' = Append(ui_events, e)
  <1>1. Head(browse_batch) \in Requests /\ browse_batch # <<>> /\ browse_batch' = Tail(browse_batch)
    BY DEF BrowseTypes, Answer
  <1>2. CASE Head(browse_batch).of = Other
    BY <1>1, <1>2 DEF Answer
  <1>3. CASE Head(browse_batch).of # Other
    <2>1. PICK result \in Results :
             ui_events' = Append(ui_events, [kind |-> result, level |-> Head(browse_batch).level,
                                             of |-> Head(browse_batch).of, session |-> session])
      BY <1>3 DEF Answer
    <2>2. AsksFor(Head(browse_batch).level, Head(browse_batch).of)
      BY <1>1, <1>3 DEF Requests
    <2>3. Head(browse_batch).level \in 1..3 /\ Head(browse_batch).of \in Seq(Names)
      BY <2>2, AsksForFacts DEF BrowseTypes
    <2>4. [kind |-> result, level |-> Head(browse_batch).level,
           of |-> Head(browse_batch).of, session |-> session] \in Answers
      BY <2>2, <2>3 DEF Answers, BrowseTypes
    <2>. QED  BY <1>1, <2>1, <2>4
  <1>. QED  BY <1>2, <1>3

\* Types in the client's steps.
LEMMA ClientStepTypes ==
    ASSUME BrowseTypes, ClientStep
    PROVE  BrowseTypes' /\ screen' = screen
  <1>1. screen' = screen
    BY DEF ClientStep, OtherScreen, TakeBatch, Answer, LinkDown, LinkUp
  <1>2. /\ Lists' = Lists /\ Requests' = Requests /\ Answers' = Answers /\ UiEvents' = UiEvents
    BY <1>1, SameScreen
  <1>3. CASE OtherScreen
    <2>1. OtherRequest(others_left) \in Requests
      <3>1. others_left \in Nat /\ Other \in Seq(Names)
        BY DEF BrowseTypes, Other, Names
      <3>. QED  BY <3>1 DEF OtherRequest, Request, Requests
    <2>2. pending' \in Seq(Requests) /\ Len(pending') <= kMaxPendingLibrary
      <3>1. pending \in Seq(Requests) /\ Len(pending) <= kMaxPendingLibrary
        BY DEF BrowseTypes
      <3>2. pending' = Enqueued(pending, OtherRequest(others_left))
        BY <1>3 DEF OtherScreen
      <3>. QED  BY <2>1, <3>1, <3>2, EnqueuedFacts
    <2>3. others_left' \in Nat /\ evicted' \in BOOLEAN
      BY <1>3 DEF OtherScreen, BrowseTypes
    <2>. QED  BY <1>1, <1>2, <1>3, <2>2, <2>3 DEF OtherScreen, BrowseTypes
  <1>4. CASE TakeBatch
    <2>1. pending' \in Seq(Requests) /\ Len(pending') <= kMaxPendingLibrary
          /\ browse_batch' \in Seq(Requests)
      BY <1>4, BrowseAssumption DEF TakeBatch, BrowseTypes
    <2>. QED  BY <1>1, <1>2, <1>4, <2>1 DEF TakeBatch, BrowseTypes
  <1>5. CASE Answer
    <2>1. browse_batch' \in Seq(Requests)
      <3>1. browse_batch \in Seq(Requests) /\ browse_batch # <<>>
            /\ browse_batch' = Tail(browse_batch)
        BY <1>5 DEF BrowseTypes, Answer
      <3>. QED  BY <3>1
    <2>2. ui_events' \in Seq(UiEvents)
      <3>1. ui_events \in Seq(UiEvents) /\ \A e \in Answers : e \in UiEvents
        BY DEF BrowseTypes, UiEvents
      <3>2. \A e \in UiEvents : Append(ui_events, e) \in Seq(UiEvents)
        BY <3>1
      <3>. QED  BY <1>5, <3>1, <3>2, AnswerFacts
    <2>. QED  BY <1>1, <1>2, <1>5, <2>1, <2>2 DEF Answer, BrowseTypes
  <1>6. CASE LinkDown
    <2>1. [kind |-> "down"] \in UiEvents
      BY DEF UiEvents
    <2>2. ui_events' \in Seq(UiEvents) /\ browse_batch' \in Seq(Requests)
      BY <1>6, <2>1 DEF LinkDown, BrowseTypes
    <2>. QED  BY <1>1, <1>2, <1>6, <2>2 DEF LinkDown, BrowseTypes
  <1>7. CASE LinkUp
    <2>1. [kind |-> "up"] \in UiEvents
      BY DEF UiEvents
    <2>2. ui_events' \in Seq(UiEvents)
      BY <1>7, <2>1 DEF LinkUp, BrowseTypes
    <2>. QED  BY <1>1, <1>2, <1>7, <2>2 DEF LinkUp, BrowseTypes
  <1>. QED  BY <1>1, <1>3, <1>4, <1>5, <1>6, <1>7 DEF ClientStep

\* The order of events in the client's steps.
LEMMA ClientStepEvents ==
    ASSUME BrowseTypes, EventsInv, ClientStep
    PROVE  EventsInv'
  <1>1. ui_events \in Seq(UiEvents) /\ link \in {"up", "down"}
    BY DEF BrowseTypes
  <1>2. CASE OtherScreen \/ TakeBatch
    BY <1>2 DEF OtherScreen, TakeBatch, EventsInv
  <1>3. CASE Answer
    <2>1. link' = link /\ session' = session
      BY <1>3 DEF Answer
    <2>2. CASE ui_events' = ui_events
      BY <2>1, <2>2 DEF EventsInv
    <2>3. ASSUME NEW e \in Answers, e.session = session, ui_events' = Append(ui_events, e)
          PROVE  EventsInv'
      <3>1. e \in UiEvents /\ e.kind # "down"
        BY <2>3 DEF UiEvents, Answers, Results
      <3>2. AnswersFresh(ui_events', session)
        BY <1>1, <2>3, <3>1, EventsAppend DEF EventsInv
      <3>3. LinkTold(ui_events) => LinkTold(ui_events')
        BY <1>1, <2>3, <3>1, EventsAppend
      <3>. QED  BY <2>1, <3>2, <3>3 DEF EventsInv
    <2>. QED  BY <1>3, <2>2, <2>3, AnswerFacts
  <1>4. CASE LinkDown
    <2>1. /\ link' = "down" /\ session' = session
          /\ ui_events' = Append(ui_events, [kind |-> "down"])
      BY <1>4 DEF LinkDown
    <2>2. [kind |-> "down"] \in UiEvents /\ [kind |-> "down"].kind \notin Results
      BY DEF UiEvents, Results
    <2>3. AnswersFresh(ui_events', session)
      BY <1>1, <2>1, <2>2, EventsAppend DEF EventsInv
    <2>. QED  BY <2>1, <2>3 DEF EventsInv
  <1>5. CASE LinkUp
    <2>1. ui_events' = Append(ui_events, [kind |-> "up"])
      BY <1>5 DEF LinkUp
    <2>2. [kind |-> "up"] \in UiEvents
      BY DEF UiEvents
    <2>3. LinkTold(ui_events') /\ AnswersFresh(ui_events', session')
      BY <1>1, <2>1, <2>2, EventsAppend
    <2>. QED  BY <2>3 DEF EventsInv
  <1>. QED  BY <1>2, <1>3, <1>4, <1>5 DEF ClientStep

\* LazyLoad::TakeIf() loads, or remembers whether it still has to.
LEMMA TakeIfFacts ==
    ASSUME BrowseTypes, NEW wanted \in BOOLEAN, NEW ready \in BOOLEAN, TakeIf(wanted, ready)
    PROVE  /\ browse_stale' = (wanted /\ ~ready)
           /\ wanted /\ ready =>
                 /\ RequestListing(1, OpenedOf(path, 1)) /\ AsksFor(1, OpenedOf(path, 1))
                 /\ rows' = IF screen = "files" THEN [rows EXCEPT ![1] = Loading] ELSE rows
           /\ ~(wanted /\ ready) => UNCHANGED <<rows, pending, evicted>>
           /\ rows' \in [1..3 -> {Loading} \cup Answers] /\ evicted' \in BOOLEAN
           /\ pending' \in Seq(Requests) /\ Len(pending') <= kMaxPendingLibrary
  <1>1. browse_stale' = (wanted /\ ~ready)
    BY DEF TakeIf
  <1>2. CASE wanted /\ ready
    <2>1. /\ RequestListing(1, OpenedOf(path, 1)) /\ AsksFor(1, OpenedOf(path, 1))
          /\ rows' = IF screen = "files" THEN [rows EXCEPT ![1] = Loading] ELSE rows
      BY <1>2, LoadFacts DEF TakeIf
    <2>2. /\ evicted' \in BOOLEAN /\ pending' \in Seq(Requests)
          /\ Len(pending') <= kMaxPendingLibrary
      BY <2>1, RequestKeeps
    <2>3. rows' \in [1..3 -> {Loading} \cup Answers]
      BY <2>1 DEF BrowseTypes
    <2>. QED  BY <1>1, <1>2, <2>1, <2>2, <2>3
  <1>3. CASE ~(wanted /\ ready)
    <2>1. UNCHANGED <<rows, pending, evicted>>
      BY <1>3 DEF TakeIf, NoLoad
    <2>. QED  BY <1>1, <1>3, <2>1 DEF BrowseTypes
  <1>. QED  BY <1>2, <1>3

\* The first event of the queue, if it is an answer.
LEMMA HeadAnswer ==
    ASSUME BrowseTypes, ui_events # <<>>
    PROVE  /\ Head(ui_events) = ui_events[1] /\ 1 \in 1..Len(ui_events)
           /\ Tail(ui_events) \in Seq(UiEvents)
           /\ Head(ui_events).kind \in Results => Head(ui_events) \in Answers
  <1>1. ui_events \in Seq(UiEvents)
    BY DEF BrowseTypes
  <1>2. Head(ui_events) \in UiEvents
    BY <1>1
  <1>3. Head(ui_events).kind \in Results => Head(ui_events) \in Answers
    BY <1>2 DEF UiEvents, Results
  <1>. QED  BY <1>1, <1>3

ScreenStep == Open \/ Leave \/ StateChanged \/ Rebuild \/ TapStep

\* What no step of the screens touches.
LEMMA ScreenStepFrame ==
    ASSUME ScreenStep
    PROVE  /\ UNCHANGED <<screen, link, session, others_left, browse_batch>>
           /\ ui_events' = ui_events \/ (ui_events # <<>> /\ ui_events' = Tail(ui_events))
  BY DEF ScreenStep, Open, Leave, StateChanged, Rebuild, TapStep, ShowList, BackTo, ShowDetail,
     PlayDetail, PlayRow, Play, EnterFolder, GoBack, env

\* Types in the steps of the screens.
LEMMA ScreenStepTypes ==
    ASSUME BrowseTypes, PathInv, ScreenStep
    PROVE  BrowseTypes'
  <1>1. /\ UNCHANGED <<screen, link, session, others_left, browse_batch>>
        /\ Lists' = Lists /\ Requests' = Requests /\ Answers' = Answers /\ UiEvents' = UiEvents
    BY ScreenStepFrame, SameScreen
  <1>2. ui_events' \in Seq(UiEvents)
    BY ScreenStepFrame, HeadAnswer DEF BrowseTypes
  <1>3. ASSUME shown' \in BOOLEAN, browse_stale' \in BOOLEAN,
               view' \in {Hint, Detail, AllHidden} \cup 1..Lists, path' \in Seq(Items),
               rows' \in [1..3 -> {Loading} \cup Answers], evicted' \in BOOLEAN,
               pending' \in Seq(Requests), Len(pending') <= kMaxPendingLibrary
        PROVE  BrowseTypes'
    BY <1>1, <1>2, <1>3 DEF BrowseTypes
  <1>4. CASE Open
    <2>1. /\ shown' \in BOOLEAN /\ view' \in {Hint, Detail, AllHidden} \cup 1..Lists
          /\ path' \in Seq(Items) /\ TakeIf(browse_stale, link = "up")
          /\ browse_stale \in BOOLEAN /\ (link = "up") \in BOOLEAN
      BY <1>4 DEF Open, BrowseTypes
    <2>. QED  BY <1>3, <2>1, TakeIfFacts
  <1>5. CASE Leave
    BY <1>3, <1>5 DEF Leave, BrowseTypes
  <1>6. CASE StateChanged
    <2>1. /\ shown' \in BOOLEAN /\ path' \in Seq(Items)
      BY <1>6 DEF StateChanged, BrowseTypes
    <2>2. view' \in {Hint, Detail, AllHidden} \cup 1..Lists
      BY <1>6, ScreenFacts DEF StateChanged, Refresh, BrowseTypes
    <2>3. CASE Head(ui_events).kind = "up"
      <3>1. TakeIf(TRUE, shown) /\ shown \in BOOLEAN
        BY <1>6, <2>3 DEF StateChanged, BrowseTypes
      <3>. QED  BY <1>3, <2>1, <2>2, <3>1, TakeIfFacts
    <2>4. CASE Head(ui_events).kind # "up"
      BY <1>3, <1>6, <2>1, <2>2, <2>4 DEF StateChanged, NoLoad, BrowseTypes
    <2>. QED  BY <2>3, <2>4
  <1>7. CASE Rebuild
    <2>1. Head(ui_events) \in Answers
      BY <1>7, HeadAnswer DEF Rebuild
    <2>2. rows' \in [1..3 -> {Loading} \cup Answers]
      BY <1>7, <2>1 DEF Rebuild, BrowseTypes
    <2>3. browse_stale' \in BOOLEAN
      BY <1>7 DEF Rebuild, OnLoaded, BrowseTypes
    <2>. QED  BY <1>3, <1>7, <2>2, <2>3 DEF Rebuild, BrowseTypes
  <1>8. ASSUME NEW level \in 2..3, NEW item \in Items, screen # "files", level <= Lists,
               ShowList(level, item)
        PROVE  BrowseTypes'
    <2>1. /\ view' = level /\ rows' = [rows EXCEPT ![level] = Loading] /\ path' \in Seq(Items)
          /\ RequestListing(level, OpenedOf(path', level))
          /\ AsksFor(level, OpenedOf(path', level))
      BY <1>8, ShowListFacts
    <2>2. /\ evicted' \in BOOLEAN /\ pending' \in Seq(Requests)
          /\ Len(pending') <= kMaxPendingLibrary
      BY <2>1, RequestKeeps
    <2>3. rows' \in [1..3 -> {Loading} \cup Answers] /\ view' \in 1..Lists
      BY <1>8, <2>1 DEF BrowseTypes
    <2>. QED  BY <1>3, <1>8, <2>1, <2>2, <2>3 DEF ShowList, BrowseTypes
  <1>9. ASSUME NEW level \in 1..3, level <= Lists, BackTo(level)
        PROVE  BrowseTypes'
    BY <1>3, <1>9 DEF BackTo, BrowseTypes
  <1>10. CASE ShowDetail(Lists) \/ PlayDetail \/ \E level \in 1..3 : PlayRow(level)
    BY <1>3, <1>10 DEF ShowDetail, PlayDetail, PlayRow, Play, BrowseTypes
  <1>11. CASE (\E item \in Items : EnterFolder(item)) \/ GoBack
    <2>1. /\ rows' = [rows EXCEPT ![1] = Loading] /\ path' \in Seq(Items)
          /\ RequestListing(1, OpenedOf(path', 1)) /\ AsksFor(1, OpenedOf(path', 1))
      BY <1>11, FolderFacts
    <2>2. /\ evicted' \in BOOLEAN /\ pending' \in Seq(Requests)
          /\ Len(pending') <= kMaxPendingLibrary
      BY <2>1, RequestKeeps
    <2>3. rows' \in [1..3 -> {Loading} \cup Answers]
      BY <2>1 DEF BrowseTypes
    <2>4. UNCHANGED <<shown, view, browse_stale>>
      BY <1>11 DEF EnterFolder, GoBack
    <2>. QED  BY <1>3, <2>1, <2>2, <2>3, <2>4 DEF BrowseTypes
  <1>. QED  BY <1>4, <1>5, <1>6, <1>7, <1>8, <1>9, <1>10, <1>11 DEF ScreenStep, TapStep

\* The order of events in the steps of the screens.
LEMMA ScreenStepEvents ==
    ASSUME BrowseTypes, EventsInv, ScreenStep
    PROVE  EventsInv'
  <1>1. link' = link /\ session' = session /\ ui_events \in Seq(UiEvents)
    BY ScreenStepFrame DEF BrowseTypes
  <1>2. CASE ui_events' = ui_events
    BY <1>1, <1>2 DEF EventsInv
  <1>3. CASE ui_events # <<>> /\ ui_events' = Tail(ui_events)
    BY <1>1, <1>3, EventsTail DEF EventsInv
  <1>. QED  BY <1>2, <1>3, ScreenStepFrame

-----------------------------------------------------------------------------
(* What is awaited stays so *)

\* The list shown is one of the screen's.
LEMMA DepthFacts ==
    ASSUME BrowseTypes
    PROVE  Depth \in 1..Lists /\ Depth \in 1..3 /\ Lists \in 1..3 /\ (view \in 1..3 => Depth = view)
  <1>1. view \in {Hint, Detail, AllHidden} \cup 1..Lists /\ Lists \in 1..3
    BY ScreenFacts DEF BrowseTypes
  <1>. QED  BY <1>1 DEF Depth, Hint, Detail, AllHidden

\* Every list down to the one shown is asked for as opened.
LEMMA OpenedAwaits ==
    ASSUME BrowseTypes, PathInv, NEW l \in 1..Depth
    PROVE  AsksFor(l, OpenedOf(path, l))
  BY DepthFacts, OpenedAsked DEF BrowseTypes, PathInv

\* An answer coming keeps coming if it is still asked for.
LEMMA ComingKept ==
    ASSUME BrowseTypes, BrowseTypes', screen' = screen, NEW l, NEW of,
           of = OpenedOf(path, l), of = OpenedOf(path', l),
           Coming(l), Awaited(l, of) => Awaited(l, of)'
    PROVE  Coming(l)'
  BY ComingIsAwaited, ComingIsAwaitedNext

\* Requests only added to the queue: what was awaited is.
LEMMA GrowingAwaits ==
    ASSUME browse_batch' = browse_batch, ui_events' = ui_events,
           \A x : Contains(pending, x) => Contains(pending', x), NEW l, NEW of, Awaited(l, of)
    PROVE  Awaited(l, of)'
  BY DEF Awaited, Queued, Answered, Request

\* A list asked for is coming.
LEMMA RequestedComes ==
    ASSUME BrowseTypes', screen' = screen, NEW l, NEW of, of = OpenedOf(path', l),
           Contains(pending', Request(l, of))
    PROVE  Coming(l)'
  <1>1. Awaited(l, of)'
    BY DEF Awaited, Queued, Request
  <1>. QED  BY <1>1, ComingIsAwaitedNext

\* The client's steps neither settle the link nor lose what is awaited.
LEMMA ClientAwaits ==
    ASSUME BrowseTypes, ClientStep, Settled', ~evicted', NEW l, NEW of, AsksFor(l, of)
    PROVE  /\ Settled /\ ~evicted /\ session' = session
           /\ Awaited(l, of) => Awaited(l, of)'
  <1>1. /\ pending \in Seq(Requests) /\ browse_batch \in Seq(Requests)
        /\ ui_events \in Seq(UiEvents) /\ Len(pending) <= kMaxPendingLibrary
        /\ evicted \in BOOLEAN
    BY DEF BrowseTypes
  <1>2. of # Other /\ Request(l, of).of = of /\ Request(l, of).level = l
    BY AsksForFacts DEF BrowseTypes, Request
  <1>3. CASE OtherScreen
    <2>1. pending' = Enqueued(pending, OtherRequest(others_left))
          /\ evicted' = (evicted \/ Len(pending) = kMaxPendingLibrary)
      BY <1>3 DEF OtherScreen
    <2>2. ~evicted /\ Len(pending) # kMaxPendingLibrary
      BY <2>1
    <2>3. OtherRequest(others_left) \in Requests
      <3>1. others_left \in Nat /\ Other \in Seq(Names)
        BY DEF BrowseTypes, Other, Names
      <3>. QED  BY <3>1 DEF OtherRequest, Request, Requests
    <2>4. \A x : Contains(pending, x) => Contains(pending', x)
      BY <1>1, <2>1, <2>2, <2>3, EnqueuedFacts
    <2>5. UNCHANGED <<browse_batch, ui_events, link, session>>
      BY <1>3 DEF OtherScreen
    <2>. QED  BY <2>2, <2>4, <2>5, GrowingAwaits DEF Settled
  <1>4. CASE TakeBatch
    <2>1. /\ browse_batch = <<>> /\ browse_batch' = pending
          /\ UNCHANGED <<ui_events, link, session, evicted>>
      BY <1>4 DEF TakeBatch
    <2>2. ~Contains(browse_batch, Request(l, of))
      BY <2>1 DEF Contains
    <2>3. Awaited(l, of) => Awaited(l, of)'
      BY <2>1, <2>2 DEF Awaited, Queued, Answered, Request
    <2>. QED  BY <2>1, <2>3 DEF Settled
  <1>5. CASE Answer
    <2>1. UNCHANGED <<pending, link, session, evicted>> /\ browse_batch' = Tail(browse_batch)
      BY <1>5 DEF Answer
    <2>2. CASE Head(browse_batch).of = Other /\ ui_events' = ui_events
      <3>1. Contains(browse_batch, Request(l, of)) => Contains(browse_batch', Request(l, of))
        BY <1>1, <1>2, <2>1, <2>2, ContainsTail
      <3>. QED  BY <2>1, <2>2, <3>1 DEF Awaited, Queued, Answered, Settled, Request
    <2>3. ASSUME NEW e \in Answers, e.level = Head(browse_batch).level,
                 e.of = Head(browse_batch).of, ui_events' = Append(ui_events, e)
          PROVE  Settled /\ ~evicted /\ session' = session /\ (Awaited(l, of) => Awaited(l, of)')
      <3>1. /\ Len(ui_events') = Len(ui_events) + 1 /\ ui_events'[Len(ui_events) + 1] = e
            /\ Len(ui_events) \in Nat
            /\ \A i \in 1..Len(ui_events) : i \in 1..Len(ui_events') /\ ui_events'[i] = ui_events[i]
        BY <1>1, <2>3
      <3>2. Settled
        BY <2>1, <3>1 DEF Settled
      <3>3. Answered(l, of) => Answered(l, of)'
        BY <3>1 DEF Answered
      <3>4. Request(l, of) = Head(browse_batch) => Answered(l, of)'
        <4>1. ASSUME Request(l, of) = Head(browse_batch)
              PROVE  e.level = l /\ e.of = of /\ e.kind \in Results
          BY <1>2, <2>3, <4>1 DEF Answers
        <4>. QED  BY <3>1, <4>1 DEF Answered
      <3>5. Contains(browse_batch, Request(l, of))
            => Contains(browse_batch', Request(l, of)) \/ Answered(l, of)'
        BY <1>1, <2>1, <3>4, ContainsTail
      <3>6. Awaited(l, of) => Awaited(l, of)'
        BY <2>1, <3>3, <3>5 DEF Awaited, Queued, Request
      <3>. QED  BY <2>1, <3>2, <3>6
    <2>. QED  BY <1>5, <2>2, <2>3, AnswerFacts
  <1>6. CASE LinkDown
    BY <1>6 DEF LinkDown, Settled
  <1>7. CASE LinkUp
    <2>1. ui_events' = Append(ui_events, [kind |-> "up"])
      BY <1>7 DEF LinkUp
    <2>2. Len(ui_events) + 1 \in 1..Len(ui_events') /\ ui_events'[Len(ui_events) + 1].kind = "up"
      BY <1>1, <2>1
    <2>. QED  BY <2>2 DEF Settled
  <1>. QED  BY <1>3, <1>4, <1>5, <1>6, <1>7 DEF ClientStep

-----------------------------------------------------------------------------
(* Steps that leave the screen as it is *)

\* A step that leaves the lists alone, and loses nothing awaited.
LEMMA QuietKeeps ==
    ASSUME BrowseInv, BrowseTypes', UNCHANGED <<screen, view, rows, path, browse_stale>>,
           shown' => shown,
           Settled' /\ ~evicted' => Settled /\ ~evicted /\ session' = session,
           \A l, of : Settled' /\ ~evicted' /\ AsksFor(l, of) /\ Awaited(l, of) => Awaited(l, of)'
    PROVE  ScreenInv'
  <1>1. BrowseTypes /\ PathInv /\ OpenedInv /\ CurrentInv /\ TimeoutRetried
    BY DEF BrowseInv, ScreenInv
  <1>2. Depth' = Depth /\ Lists' = Lists /\ \A l : Opened(l)' = Opened(l)
    BY SameScreen DEF Depth, Opened
  <1>3. PathInv'
    BY <1>1, <1>2 DEF PathInv
  <1>4. OpenedInv'
    BY <1>1, <1>2 DEF OpenedInv
  <1>5. ASSUME Settled', ~evicted', NEW l \in 1..Depth, Coming(l) PROVE Coming(l)'
    <2>1. AsksFor(l, OpenedOf(path, l))
      BY <1>1, OpenedAwaits
    <2>2. Awaited(l, OpenedOf(path, l))
      BY <1>1, <1>5, ComingIsAwaited
    <2>3. PICK of : /\ of = OpenedOf(path, l) /\ of = OpenedOf(path', l)
                    /\ AsksFor(l, of) /\ Awaited(l, of)
      BY <2>1, <2>2
    <2>. QED  BY <1>1, <1>5, <2>3, ComingKept
  <1>6. 1 \in 1..Depth /\ Depth \in 1..3
    BY <1>1, DepthFacts
  <1>7. CurrentInv'
    <2>1. SUFFICES ASSUME Settled', ~evicted'
          PROVE  /\ Filled(1)' \/ Coming(1)' \/ (browse_stale' /\ ~shown')
                 /\ \A l \in 2..Depth : Filled(l)' \/ Coming(l)'
      BY <1>2 DEF CurrentInv
    <2>2. \A l : Filled(l)' <=> Filled(l)
      BY <2>1 DEF Filled
    <2>3. \A l \in 2..Depth : l \in 1..Depth
      BY <1>6
    <2>4. /\ Filled(1) \/ Coming(1) \/ (browse_stale /\ ~shown)
          /\ \A l \in 2..Depth : Filled(l) \/ Coming(l)
      BY <1>1, <2>1 DEF CurrentInv
    <2>. QED  BY <1>5, <1>6, <2>1, <2>2, <2>3, <2>4
  <1>8. TimeoutRetried'
    BY <1>1, <1>5, <1>6 DEF TimeoutRetried
  <1>. QED  BY <1>3, <1>4, <1>7, <1>8 DEF ScreenInv

\* Steps of the client and of other screens.
LEMMA ClientStepScreen ==
    ASSUME BrowseInv, BrowseTypes', ClientStep
    PROVE  ScreenInv'
  <1>1. BrowseTypes /\ PathInv
    BY DEF BrowseInv, ScreenInv
  <1>2. UNCHANGED <<screen, view, rows, path, browse_stale>> /\ shown' = shown
    BY DEF ClientStep, OtherScreen, TakeBatch, Answer, LinkDown, LinkUp
  <1>3. AsksFor(1, OpenedOf(path, 1))
    BY <1>1, DepthFacts, OpenedAwaits
  <1>4. Settled' /\ ~evicted' => Settled /\ ~evicted /\ session' = session
    BY <1>1, <1>3, ClientAwaits
  <1>5. \A l, of : Settled' /\ ~evicted' /\ AsksFor(l, of) /\ Awaited(l, of) => Awaited(l, of)'
    BY <1>1, ClientAwaits
  <1>. QED  BY <1>2, <1>4, <1>5, QuietKeeps

\* Leaving the screen, by back or by play.
LEMMA LeaveScreen ==
    ASSUME BrowseInv, BrowseTypes', Leave \/ PlayDetail \/ \E level \in 1..3 : PlayRow(level)
    PROVE  ScreenInv'
  <1>1. /\ UNCHANGED <<screen, view, rows, path, browse_stale, pending, browse_batch, ui_events,
                       evicted, link, session>>
        /\ shown' = FALSE
    BY DEF Leave, PlayDetail, PlayRow, Play, env
  <1>2. Settled' => Settled
    BY <1>1 DEF Settled
  <1>3. \A l, of : Awaited(l, of) => Awaited(l, of)'
    BY <1>1 DEF Awaited, Queued, Answered, Request
  <1>. QED  BY <1>1, <1>2, <1>3, QuietKeeps

-----------------------------------------------------------------------------
(* Loading *)

\* The top list was asked for; the lists below are as before.
LEMMA LoadKeeps ==
    ASSUME BrowseTypes, PathInv, BrowseTypes', UNCHANGED <<screen, path, browse_batch>>, ~evicted',
           RequestListing(1, OpenedOf(path, 1)), AsksFor(1, OpenedOf(path, 1))
    PROVE  Coming(1)' /\ ~evicted /\ \A x : Contains(pending, x) => Contains(pending', x)
  <1>1. /\ Contains(pending', Request(1, OpenedOf(path, 1)))
        /\ ~evicted /\ \A x : Contains(pending, x) => Contains(pending', x)
    BY RequestKeeps
  <1>2. PICK of : of = OpenedOf(path', 1) /\ Contains(pending', Request(1, of))
    BY <1>1
  <1>3. Coming(1)'
    BY <1>2, RequestedComes
  <1>. QED  BY <1>1, <1>3

\* What stays the same when the queue of requests only grows.
LEMMA GrowingComes ==
    ASSUME BrowseTypes, BrowseTypes', screen' = screen, NEW l, OpenedOf(path', l) = OpenedOf(path, l),
           browse_batch' = browse_batch, ui_events' = ui_events,
           \A x : Contains(pending, x) => Contains(pending', x), Coming(l)
    PROVE  Coming(l)'
  <1>1. PICK of : of = OpenedOf(path, l) /\ of = OpenedOf(path', l)
    OBVIOUS
  <1>2. Awaited(l, of) => Awaited(l, of)'
    BY GrowingAwaits
  <1>. QED  BY <1>1, <1>2, ComingKept

\* OnScreenLoadStart() loads what is stale, if connected.
LEMMA OpenScreen ==
    ASSUME BrowseInv, BrowseTypes', Open
    PROVE  ScreenInv'
  <1>1. BrowseTypes /\ PathInv /\ OpenedInv /\ CurrentInv /\ TimeoutRetried
    BY DEF BrowseInv, ScreenInv
  <1>2. /\ UNCHANGED <<screen, view, path, browse_batch, ui_events, link, session>>
        /\ shown' = TRUE /\ TakeIf(browse_stale, link = "up")
    BY DEF Open, env
  <1>3. Depth' = Depth /\ Lists' = Lists /\ Depth \in 1..3 /\ \A l : Opened(l)' = Opened(l)
    BY <1>1, <1>2, SameScreen, DepthFacts DEF Depth, Opened
  <1>4. browse_stale \in BOOLEAN /\ (link = "up") \in BOOLEAN /\ Settled' = Settled
    BY <1>1, <1>2 DEF BrowseTypes, Settled
  <1>5. CASE browse_stale /\ link = "up"
    <2>1. /\ RequestListing(1, OpenedOf(path, 1)) /\ AsksFor(1, OpenedOf(path, 1))
          /\ rows' = IF screen = "files" THEN [rows EXCEPT ![1] = Loading] ELSE rows
      BY <1>1, <1>2, <1>4, <1>5, TakeIfFacts
    <2>2. rows \in [1..3 -> {Loading} \cup Answers]
      BY <1>1 DEF BrowseTypes
    <2>3. /\ rows'[1] = Loading \/ rows'[1] = rows[1]
          /\ \A l \in 2..3 : rows'[l] = rows[l]
      BY <2>1, <2>2
    <2>4. screen # "files" => rows' = rows
      BY <2>1
    <2>5. screen = "files" => Depth = 1 /\ view # Detail
      BY <1>1 DEF PathInv, Depth, Hint, Detail
    <2>6. PathInv'
      BY <1>1, <1>2, <1>3, <2>4, <2>5 DEF PathInv
    <2>7. OpenedInv'
      BY <1>1, <1>2, <1>3, <2>3 DEF OpenedInv
    <2>8. ~evicted' => Coming(1)'
      BY <1>1, <1>2, <2>1, LoadKeeps
    <2>9. ASSUME Settled', ~evicted', NEW l \in 2..Depth PROVE Filled(l)' \/ Coming(l)'
      <3>1. ~evicted /\ \A x : Contains(pending, x) => Contains(pending', x)
        BY <1>1, <1>2, <2>1, <2>9, LoadKeeps
      <3>2. Filled(l) \/ Coming(l)
        BY <1>1, <1>4, <2>9, <3>1 DEF CurrentInv
      <3>3. Filled(l) => Filled(l)'
        BY <1>2, <1>3, <2>3 DEF Filled
      <3>4. Coming(l) => Coming(l)'
        BY <1>1, <1>2, <3>1, GrowingComes
      <3>. QED  BY <3>2, <3>3, <3>4
    <2>10. CurrentInv' /\ TimeoutRetried'
      BY <1>3, <2>8, <2>9 DEF CurrentInv, TimeoutRetried
    <2>. QED  BY <2>6, <2>7, <2>10 DEF ScreenInv
  <1>6. CASE ~(browse_stale /\ link = "up")
    <2>1. UNCHANGED <<rows, pending, evicted>> /\ (link = "up" => ~browse_stale)
          /\ browse_stale' = (browse_stale /\ ~(link = "up"))
      BY <1>1, <1>2, <1>4, <1>6, TakeIfFacts
    <2>2. PathInv' /\ OpenedInv'
      BY <1>1, <1>2, <1>3, <2>1 DEF PathInv, OpenedInv
    <2>3. ASSUME NEW l, Coming(l) PROVE Coming(l)'
      BY <1>1, <1>2, <2>1, <2>3, GrowingComes
    <2>4. \A l : Filled(l)' <=> Filled(l)
      BY <1>2, <2>1 DEF Filled
    <2>5. Settled => link = "up" /\ ~browse_stale
      BY <2>1 DEF Settled
    <2>6. CurrentInv'
      BY <1>1, <1>3, <1>4, <2>1, <2>3, <2>4, <2>5 DEF CurrentInv
    <2>7. TimeoutRetried'
      BY <1>1, <1>4, <2>1, <2>3, <2>5 DEF TimeoutRetried
    <2>. QED  BY <2>2, <2>6, <2>7 DEF ScreenInv
  <1>. QED  BY <1>5, <1>6

\* Once the last event about the link is handled, it was that it is up.
LEMMA SettledByUp ==
    ASSUME BrowseTypes, EventsInv, StateChanged, Settled'
    PROVE  Head(ui_events).kind = "up"
  <1>1. /\ ui_events \in Seq(UiEvents) /\ ui_events # <<>> /\ ui_events' = Tail(ui_events)
        /\ Head(ui_events) = ui_events[1] /\ 1 \in 1..Len(ui_events)
    BY HeadAnswer DEF StateChanged, BrowseTypes
  <1>2. link = "up" /\ LinkTold(ui_events) /\ Head(ui_events).kind \in {"up", "down"}
    BY DEF StateChanged, env, Settled, EventsInv
  <1>3. SUFFICES ASSUME Head(ui_events).kind = "down" PROVE FALSE
    BY <1>2
  <1>4. PICK j \in 1..Len(ui_events) : j > 1 /\ ui_events[j].kind = "up"
    BY <1>1, <1>2, <1>3 DEF LinkTold, UpAfter
  <1>5. j - 1 \in 1..Len(ui_events') /\ ui_events'[j - 1] = ui_events[j]
    BY <1>1, <1>4
  <1>. QED  BY <1>4, <1>5 DEF Settled

\* A change of the link's state goes back to the top list and reloads it.
LEMMA StateChangedScreen ==
    ASSUME BrowseInv, BrowseTypes', StateChanged
    PROVE  ScreenInv'
  <1>1. BrowseTypes /\ PathInv /\ OpenedInv /\ EventsInv
    BY DEF BrowseInv, ScreenInv
  <1>2. /\ UNCHANGED <<screen, path, browse_batch, link, session, shown>>
        /\ view' \in {Hint, 1} /\ shown \in BOOLEAN
        /\ IF Head(ui_events).kind = "up" THEN TakeIf(TRUE, shown)
           ELSE UNCHANGED <<rows, pending, evicted, browse_stale>>
    BY <1>1 DEF StateChanged, env, Refresh, NoLoad, BrowseTypes
  <1>3. Depth' = 1 /\ view' # Detail /\ Opened(1)' = Opened(1) /\ Depth \in 1..3
    BY <1>1, <1>2, SameScreen, DepthFacts DEF Depth, Hint, Detail, Opened
  <1>4. rows'[1] = Loading \/ rows'[1] = rows[1]
    <2>1. rows \in [1..3 -> {Loading} \cup Answers]
      BY <1>1 DEF BrowseTypes
    <2>2. rows' = rows \/ rows' = [rows EXCEPT ![1] = Loading]
      BY <1>1, <1>2, TakeIfFacts
    <2>. QED  BY <2>1, <2>2
  <1>5. PathInv'
    BY <1>1, <1>2, <1>3 DEF PathInv, BrowseTypes
  <1>6. OpenedInv'
    BY <1>1, <1>2, <1>3, <1>4 DEF OpenedInv
  <1>7. ASSUME Settled', ~evicted' PROVE Coming(1)' \/ (browse_stale' /\ ~shown')
    <2>1. TakeIf(TRUE, shown)
      BY <1>1, <1>2, <1>7, SettledByUp
    <2>2. CASE shown
      <3>1. RequestListing(1, OpenedOf(path, 1)) /\ AsksFor(1, OpenedOf(path, 1))
        BY <1>1, <1>2, <2>1, <2>2, TakeIfFacts
      <3>. QED  BY <1>1, <1>2, <1>7, <3>1, LoadKeeps
    <2>3. CASE ~shown
      BY <1>1, <1>2, <2>1, <2>3, TakeIfFacts
    <2>. QED  BY <2>2, <2>3
  <1>8. CurrentInv' /\ TimeoutRetried'
    BY <1>3, <1>7 DEF CurrentInv, TimeoutRetried
  <1>. QED  BY <1>5, <1>6, <1>8 DEF ScreenInv

-----------------------------------------------------------------------------
(* Filling a list *)

\* A reply the screen takes answers what is open, except the music screen's
\* songs.
LEMMA FilterOpened ==
    ASSUME BrowseTypes, NEW e \in Answers, Filter(e), <<screen, e.level>> # <<"music", 3>>
    PROVE  e.of = OpenedOf(path, e.level)
  <1>1. AsksFor(e.level, e.of) /\ screen \in BrowseScreens /\ path \in Seq(Items)
    BY DEF Answers, BrowseTypes
  <1>2. /\ e.level \in 1..3 /\ e.level \in 1..Lists /\ e.of = <<Top>> \o Tail(e.of)
        /\ Tail(e.of) \in Seq(Items) /\ (screen # "files" => Len(Tail(e.of)) = e.level - 1)
        /\ (screen = "files" => e.level = 1)
    BY <1>1, AsksForFacts
  <1>3. CASE screen = "files"
    <2>1. e.level = 1 /\ 1 \in Screens[screen].filtered
      BY <1>1, <1>2, <1>3, ScreenFacts
    <2>2. e.of = <<Top>> \o path
      BY <1>3, <2>1 DEF Filter
    <2>. QED  BY <1>3, <2>2 DEF OpenedOf
  <1>4. CASE screen # "files" /\ e.level = 1
    <2>1. Top \in Names
      BY <1>1, ScreenFacts DEF Names
    <2>2. <<Top>> \o Tail(e.of) = <<Top>>
      <3>1. Tail(e.of) \in Seq(Items) /\ Len(Tail(e.of)) = 0
        BY <1>2, <1>4
      <3>. QED  BY <2>1, <3>1, ConsFacts
    <2>3. OpenedOf(path, 1) = <<Top>>
      BY <1>1, <1>4, OpenedTop
    <2>. QED  BY <1>2, <1>4, <2>2, <2>3
  <1>5. CASE screen # "files" /\ e.level # 1
    <2>1. e.level \in Screens[screen].filtered
      <3>1. screen \in {"tvshows", "music", "livetv"}
        BY <1>1, <1>2, <1>5, ScreenFacts
      <3>2. CASE screen = "music"
        BY <1>1, <1>2, <1>5, <3>2, ScreenFacts
      <3>3. CASE screen = "tvshows"
        BY <1>1, <1>2, <1>5, <3>3, ScreenFacts
      <3>4. CASE screen = "livetv"
        BY <1>1, <1>2, <1>5, <3>4, ScreenFacts
      <3>. QED  BY <3>1, <3>2, <3>3, <3>4
    <2>2. Tail(e.of) = SubSeq(path, 1, e.level - 1)
      BY <1>5, <2>1 DEF Filter
    <2>. QED  BY <1>2, <1>5, <2>2 DEF OpenedOf
  <1>. QED  BY <1>3, <1>4, <1>5

\* The answer to what is open is taken.
LEMMA OpenedPasses ==
    ASSUME BrowseTypes, NEW e \in Answers, e.of = OpenedOf(path, e.level),
           screen # "files" => Len(path) >= e.level - 1
    PROVE  Filter(e)
  <1>1. AsksFor(e.level, e.of) /\ screen \in BrowseScreens /\ path \in Seq(Items)
        /\ e.level \in 1..3
    BY DEF Answers, BrowseTypes
  <1>2. CASE screen = "files"
    BY <1>2 DEF Filter, OpenedOf
  <1>3. CASE screen # "files"
    <2>1. SubSeq(path, 1, e.level - 1) \in Seq(Items) /\ Len(path) >= e.level - 1
      BY <1>1, <1>3
    <2>2. Top \in Names
      BY <1>1, ScreenFacts DEF Names
    <2>3. e.of = <<Top>> \o SubSeq(path, 1, e.level - 1)
      BY <1>3 DEF OpenedOf
    <2>4. Tail(<<Top>> \o SubSeq(path, 1, e.level - 1)) = SubSeq(path, 1, e.level - 1)
      BY <2>1, <2>2, ConsFacts
    <2>. QED  BY <1>3, <2>1, <2>3, <2>4 DEF Filter
  <1>. QED  BY <1>2, <1>3

\* An answer handled fills its list, or answers nothing that is open.
LEMMA RebuildScreen ==
    ASSUME BrowseInv, BrowseTypes', Rebuild
    PROVE  ScreenInv'
  <1>1. BrowseTypes /\ PathInv /\ OpenedInv /\ CurrentInv /\ TimeoutRetried /\ EventsInv
    BY DEF BrowseInv, ScreenInv
  <1>2. PICK e : e = Head(ui_events)
    OBVIOUS
  <1>3. /\ UNCHANGED <<screen, link, session, shown, view, path, pending, browse_batch, evicted>>
        /\ ui_events # <<>> /\ ui_events' = Tail(ui_events) /\ e.kind \in Results
        /\ IF Filter(e) THEN rows' = [rows EXCEPT ![e.level] = e] /\ OnLoaded(e)
           ELSE UNCHANGED <<rows, browse_stale>>
    BY <1>2 DEF Rebuild, env
  <1>4. e \in Answers /\ e = ui_events[1] /\ 1 \in 1..Len(ui_events) /\ ui_events \in Seq(UiEvents)
    BY <1>1, <1>2, <1>3, HeadAnswer DEF BrowseTypes
  <1>5. e.level \in 1..3 /\ e.level \in 1..Lists /\ AsksFor(e.level, e.of) /\ e # Loading
        /\ rows \in [1..3 -> {Loading} \cup Answers]
    <2>1. e.level \in 1..3 /\ AsksFor(e.level, e.of)
      BY <1>4 DEF Answers
    <2>2. e.level \in 1..Lists
      BY <1>1, <2>1, AsksForFacts DEF BrowseTypes
    <2>3. e # Loading
      BY <1>3 DEF Results, Loading
    <2>. QED  BY <1>1, <2>1, <2>2, <2>3 DEF BrowseTypes
  <1>6. \A l \in 1..3 : rows'[l] = IF Filter(e) /\ l = e.level THEN e ELSE rows[l]
    BY <1>3, <1>5
  <1>7. Depth' = Depth /\ Lists' = Lists /\ Depth \in 1..3 /\ \A l : Opened(l)' = Opened(l)
    BY <1>1, <1>3, SameScreen, DepthFacts DEF Depth, Opened
  <1>8. PathInv'
    BY <1>1, <1>3, <1>5, <1>6, <1>7 DEF PathInv
  <1>9. OpenedInv'
    <2>1. ASSUME NEW l \in 1..Depth, rows'[l] # Loading, <<screen, l>> # <<"music", 3>>
          PROVE  rows'[l].of = Opened(l)
      <3>1. l \in 1..3
        BY <1>7
      <3>2. CASE Filter(e) /\ l = e.level
        <4>1. e.of = OpenedOf(path, e.level)
          BY <1>1, <1>4, <2>1, <3>2, FilterOpened
        <4>. QED  BY <1>6, <3>1, <3>2, <4>1 DEF Opened, OpenedOf
      <3>3. CASE ~(Filter(e) /\ l = e.level)
        BY <1>1, <1>6, <2>1, <3>1, <3>3 DEF OpenedInv
      <3>. QED  BY <3>2, <3>3
    <2>. QED  BY <1>3, <1>7, <2>1 DEF OpenedInv
  <1>10. ASSUME NEW l \in 1..Depth, Coming(l), ~(Filter(e) /\ l = e.level)
         PROVE  Coming(l)'
    <2>1. PICK of : of = OpenedOf(path, l) /\ of = OpenedOf(path', l)
      BY <1>3
    <2>2. ASSUME Answered(l, of) PROVE Answered(l, of)'
      <3>1. PICK i \in 1..Len(ui_events) : ui_events[i].kind \in Results /\ ui_events[i].level = l
                                           /\ ui_events[i].of = of
        BY <2>2 DEF Answered
      <3>2. i # 1
        <4>1. SUFFICES ASSUME i = 1 PROVE FALSE
          OBVIOUS
        <4>2. e.level = l /\ e.of = OpenedOf(path, e.level)
          BY <1>4, <2>1, <3>1, <4>1
        <4>3. screen # "files" => Len(path) >= e.level - 1
          BY <1>1, <1>7, <4>2 DEF PathInv, BrowseTypes
        <4>. QED  BY <1>1, <1>4, <1>10, <4>2, <4>3, OpenedPasses
      <3>3. i - 1 \in 1..Len(ui_events') /\ ui_events'[i - 1] = ui_events[i]
        BY <1>3, <1>4, <3>2
      <3>. QED  BY <3>1, <3>3 DEF Answered
    <2>3. Awaited(l, of) => Awaited(l, of)'
      BY <1>3, <2>2 DEF Awaited, Queued, Request
    <2>. QED  BY <1>1, <1>3, <1>10, <2>1, <2>3, ComingKept
  <1>11. ASSUME Settled' PROVE Settled /\ e.session = session
    <2>1. ASSUME NEW i \in 1..Len(ui_events) PROVE ui_events[i].kind \notin {"up", "down"}
      <3>1. CASE i = 1
        BY <1>3, <1>4, <3>1 DEF Results
      <3>2. CASE i # 1
        <4>1. i - 1 \in 1..Len(ui_events') /\ ui_events'[i - 1] = ui_events[i]
          BY <1>3, <1>4, <3>2
        <4>. QED  BY <1>11, <4>1 DEF Settled
      <3>. QED  BY <3>1, <3>2
    <2>2. Settled
      BY <1>3, <1>11, <2>1 DEF Settled
    <2>3. e.session = session
      BY <1>1, <1>3, <1>4, <2>1 DEF EventsInv, AnswersFresh, UpAfter
    <2>. QED  BY <2>2, <2>3
  <1>12. ASSUME Settled', NEW l \in 1..Depth, Filled(l) \/ Coming(l) PROVE Filled(l)' \/ Coming(l)'
    <2>1. l \in 1..3
      BY <1>7
    <2>2. CASE Filter(e) /\ l = e.level
      BY <1>3, <1>5, <1>6, <1>11, <1>12, <2>1, <2>2 DEF Filled
    <2>3. CASE ~(Filter(e) /\ l = e.level)
      BY <1>3, <1>6, <1>10, <1>12, <2>1, <2>3 DEF Filled
    <2>. QED  BY <2>2, <2>3
  <1>13. 1 \in 1..Depth /\ 1 \in 1..3 /\ \A l \in 2..Depth : l \in 1..Depth
    BY <1>7
  <1>14. browse_stale => browse_stale'
    BY <1>3 DEF OnLoaded
  <1>15. CurrentInv'
    BY <1>1, <1>3, <1>7, <1>11, <1>12, <1>13, <1>14 DEF CurrentInv
  <1>16. TimeoutRetried'
    <2>1. CASE Filter(e) /\ 1 = e.level
      BY <1>3, <1>6, <1>13, <2>1 DEF TimeoutRetried, OnLoaded
    <2>2. CASE ~(Filter(e) /\ 1 = e.level)
      BY <1>1, <1>3, <1>6, <1>10, <1>11, <1>13, <1>14, <2>2 DEF TimeoutRetried
    <2>. QED  BY <2>1, <2>2
  <1>. QED  BY <1>8, <1>9, <1>15, <1>16 DEF ScreenInv

-----------------------------------------------------------------------------
(* Taps *)

\* Opening a list below clears and requests it.
LEMMA ShowListScreen ==
    ASSUME BrowseInv, BrowseTypes', NEW level \in 2..3, NEW item \in Items, screen # "files",
           level <= Lists, ShowList(level, item)
    PROVE  ScreenInv'
  <1>1. BrowseTypes /\ PathInv /\ OpenedInv /\ CurrentInv /\ TimeoutRetried
    BY DEF BrowseInv, ScreenInv
  <1>2. /\ view = level - 1 /\ view' = level /\ rows' = [rows EXCEPT ![level] = Loading]
        /\ rows[level - 1].kind = "rows"
        /\ path' \in Seq(Items) /\ Len(path') >= level - 1
        /\ RequestListing(level, OpenedOf(path', level)) /\ AsksFor(level, OpenedOf(path', level))
    BY <1>1, ShowListFacts
  <1>3. \A l \in 1..(level - 1) : OpenedOf(path', l) = OpenedOf(path, l)
    BY <1>1, ShowListFacts
  <1>4. UNCHANGED <<screen, link, session, shown, browse_stale, browse_batch, ui_events>>
    BY DEF ShowList, env
  <1>5. Settled' = Settled /\ Depth' = level /\ Depth = level - 1
    <2>1. Settled' = Settled
      BY <1>4 DEF Settled
    <2>2. view \in 1..3 /\ view' \in 1..3
      BY <1>2
    <2>. QED  BY <1>2, <2>1, <2>2 DEF Depth
  <1>6. rows'[level] = Loading /\ \A l \in 1..(level - 1) : rows'[l] = rows[l]
    BY <1>1, <1>2 DEF BrowseTypes
  <1>7. \A l \in 1..(level - 1) : Opened(l)' = Opened(l)
    BY <1>3, <1>4 DEF Opened, OpenedOf, Top
  <1>8. rows[level - 1] # Loading
    BY <1>2 DEF Loading
  <1>9. PathInv'
    <2>1. \A l \in 1..level : l < level => rows'[l] # Loading
      <3>1. \A l \in 1..(level - 1) : l < level - 1 => rows[l] # Loading
        BY <1>1, <1>5 DEF PathInv
      <3>2. \A l \in 1..(level - 1) : rows[l] # Loading
        BY <1>8, <3>1
      <3>3. \A l \in 1..level : l < level => l \in 1..(level - 1)
        OBVIOUS
      <3>. QED  BY <1>6, <3>2, <3>3
    <2>2. view' # Detail
      BY <1>2 DEF Detail
    <2>. QED  BY <1>2, <1>4, <1>5, <2>1, <2>2 DEF PathInv
  <1>10. OpenedInv'
    <2>1. \A l \in 1..level : l = level \/ l \in 1..(level - 1)
      OBVIOUS
    <2>. QED  BY <1>1, <1>4, <1>5, <1>6, <1>7, <2>1 DEF OpenedInv
  <1>11. ASSUME ~evicted'
         PROVE  /\ ~evicted /\ Coming(level)'
                /\ \A l \in 1..(level - 1) : Coming(l) => Coming(l)'
    <2>1. /\ ~evicted /\ Contains(pending', Request(level, OpenedOf(path', level)))
          /\ \A x : Contains(pending, x) => Contains(pending', x)
      BY <1>1, <1>2, <1>11, RequestKeeps
    <2>2. PICK of : of = OpenedOf(path', level) /\ Contains(pending', Request(level, of))
      BY <2>1
    <2>3. Coming(level)'
      BY <1>4, <2>2, RequestedComes
    <2>4. ASSUME NEW l \in 1..(level - 1), Coming(l) PROVE Coming(l)'
      BY <1>1, <1>3, <1>4, <2>1, <2>4, GrowingComes
    <2>. QED  BY <2>1, <2>3, <2>4
  <1>12. \A l \in 1..(level - 1) : Filled(l) => Filled(l)'
    BY <1>4, <1>6 DEF Filled
  <1>13. /\ 1 \in 1..(level - 1) /\ 2..(level - 1) \subseteq 1..(level - 1)
         /\ \A l \in 2..level : l = level \/ l \in 2..(level - 1)
    OBVIOUS
  <1>14. CurrentInv'
    <2>1. SUFFICES ASSUME Settled', ~evicted'
          PROVE  /\ Filled(1)' \/ Coming(1)' \/ (browse_stale' /\ ~shown')
                 /\ \A l \in 2..level : Filled(l)' \/ Coming(l)'
      BY <1>5 DEF CurrentInv
    <2>2. /\ Filled(1) \/ Coming(1) \/ (browse_stale /\ ~shown)
          /\ \A l \in 2..(level - 1) : Filled(l) \/ Coming(l)
      BY <1>1, <1>5, <1>11, <2>1 DEF CurrentInv
    <2>. QED  BY <1>4, <1>11, <1>12, <1>13, <2>1, <2>2
  <1>15. TimeoutRetried'
    BY <1>1, <1>4, <1>5, <1>6, <1>11, <1>13 DEF TimeoutRetried
  <1>. QED  BY <1>9, <1>10, <1>14, <1>15 DEF ScreenInv

\* Nothing but the view changes, and not to a deeper list.
LEMMA ViewKeeps ==
    ASSUME BrowseInv, BrowseTypes', screen # "files", Depth' <= Depth,
           view' = Detail => Depth' = Depth /\ rows[Depth] # Loading,
           UNCHANGED <<screen, link, session, shown, rows, path, browse_stale, pending,
                       browse_batch, ui_events, evicted>>
    PROVE  ScreenInv'
  <1>1. BrowseTypes /\ PathInv /\ OpenedInv /\ CurrentInv /\ TimeoutRetried
    BY DEF BrowseInv, ScreenInv
  <1>2. Depth \in 1..3 /\ Depth' \in {1, 2, 3}
    <2>1. Depth' \in {view', Lists', 1}
      BY DEF Depth
    <2>2. Lists' = Lists /\ Lists \in 1..3 /\ (view' \in 1..3 \/ Depth' # view' \/ Depth' = 1)
      BY <1>1, SameScreen, DepthFacts DEF Depth
    <2>. QED  BY <1>1, <2>1, <2>2, DepthFacts DEF Depth
  <1>3. \A l : Opened(l)' = Opened(l) /\ (Filled(l)' <=> Filled(l))
    BY DEF Opened, Top, Filled
  <1>4. \A l : Coming(l) => Coming(l)'
    BY <1>1, GrowingComes
  <1>5. Settled' = Settled
    BY DEF Settled
  <1>6. PathInv'
    BY <1>1, <1>2 DEF PathInv, BrowseTypes
  <1>7. OpenedInv'
    BY <1>1, <1>2, <1>3 DEF OpenedInv
  <1>8. CurrentInv'
    BY <1>1, <1>2, <1>3, <1>4, <1>5 DEF CurrentInv
  <1>9. TimeoutRetried'
    BY <1>1, <1>4, <1>5 DEF TimeoutRetried
  <1>. QED  BY <1>6, <1>7, <1>8, <1>9 DEF ScreenInv

\* A back button.
LEMMA BackToScreen ==
    ASSUME BrowseInv, BrowseTypes', NEW level \in 1..3, screen # "files", level <= Lists,
           BackTo(level)
    PROVE  ScreenInv'
  <1>1. BrowseTypes
    BY DEF BrowseInv
  <1>2. /\ view \in {level + 1, Detail} /\ (view = Detail => level = Lists)
        /\ view' \in {level, AllHidden}
        /\ UNCHANGED <<screen, link, session, shown, rows, path, browse_stale, pending,
                       browse_batch, ui_events, evicted>>
    BY DEF BackTo, env
  <1>3. Depth' \in {level, 1} /\ view' # Detail
    BY <1>2 DEF Depth, AllHidden, Detail
  <1>4. Depth >= level
    BY <1>1, <1>2, DepthFacts DEF Depth, Detail
  <1>5. Depth' <= Depth
    BY <1>1, <1>3, <1>4, DepthFacts
  <1>. QED  BY <1>2, <1>3, <1>5, ViewKeeps

\* A tap on an item of the lowest list.
LEMMA ShowDetailScreen ==
    ASSUME BrowseInv, BrowseTypes', screen # "files", ShowDetail(Lists)
    PROVE  ScreenInv'
  <1>1. BrowseTypes
    BY DEF BrowseInv
  <1>2. /\ view = Lists /\ view' = Detail /\ rows[Lists].kind = "rows"
        /\ UNCHANGED <<screen, link, session, shown, rows, path, browse_stale, pending,
                       browse_batch, ui_events, evicted>>
    BY DEF ShowDetail, Tappable, env
  <1>3. Depth = Lists /\ Depth' = Lists /\ Lists \in 1..3
    BY <1>1, <1>2, DepthFacts, SameScreen DEF Depth, Detail
  <1>4. rows[Lists] # Loading
    BY <1>2 DEF Loading
  <1>. QED  BY <1>2, <1>3, <1>4, ViewKeeps

\* Enter() and GoBack() of the files screen.
LEMMA FolderScreen ==
    ASSUME BrowseInv, BrowseTypes', (\E item \in Items : EnterFolder(item)) \/ GoBack
    PROVE  ScreenInv'
  <1>1. BrowseTypes
    BY DEF BrowseInv
  <1>2. /\ screen = "files" /\ view = 1 /\ rows' = [rows EXCEPT ![1] = Loading]
        /\ path' \in Seq(Items)
        /\ RequestListing(1, OpenedOf(path', 1)) /\ AsksFor(1, OpenedOf(path', 1))
    BY <1>1, FolderFacts
  <1>3. screen' = screen /\ view' = 1
    BY <1>2 DEF EnterFolder, GoBack, env
  <1>4. Depth' = 1 /\ rows'[1] = Loading /\ view' # Detail
    BY <1>1, <1>2, <1>3 DEF Depth, BrowseTypes, Detail
  <1>5. PathInv' /\ OpenedInv'
    BY <1>2, <1>3, <1>4 DEF PathInv, OpenedInv
  <1>6. ASSUME ~evicted' PROVE Coming(1)'
    <2>1. Contains(pending', Request(1, OpenedOf(path', 1)))
      BY <1>1, <1>2, RequestKeeps
    <2>2. PICK of : of = OpenedOf(path', 1) /\ Contains(pending', Request(1, of))
      BY <2>1
    <2>. QED  BY <1>3, <2>2, RequestedComes
  <1>7. CurrentInv' /\ TimeoutRetried'
    BY <1>4, <1>6 DEF CurrentInv, TimeoutRetried
  <1>. QED  BY <1>5, <1>7 DEF ScreenInv

-----------------------------------------------------------------------------
(* The theorem *)

\* Initially nothing is connected and nothing is shown.
LEMMA BrowseInvInit == BrowseInit => BrowseInv
  <1>1. SUFFICES ASSUME BrowseInit PROVE BrowseInv
    OBVIOUS
  <1>2. BrowseTypes
    <2>1. /\ pending \in Seq(Requests) /\ browse_batch \in Seq(Requests)
          /\ ui_events \in Seq(UiEvents) /\ path \in Seq(Items) /\ Len(pending) = 0
      BY <1>1 DEF BrowseInit
    <2>2. rows \in [1..3 -> {Loading} \cup Answers]
      BY <1>1 DEF BrowseInit
    <2>3. kMaxPendingLibrary \in Nat /\ others_left \in Nat
      BY <1>1, BrowseAssumption DEF BrowseInit
    <2>4. /\ screen \in BrowseScreens /\ shown \in BOOLEAN /\ browse_stale \in BOOLEAN
          /\ view = Hint /\ link \in {"up", "down"} /\ session \in Nat /\ evicted \in BOOLEAN
      BY <1>1 DEF BrowseInit
    <2>. QED  BY <2>1, <2>2, <2>3, <2>4 DEF BrowseTypes
  <1>3. EventsInv
    BY <1>1 DEF BrowseInit, EventsInv, AnswersFresh
  <1>4. ~Settled /\ Depth = 1 /\ rows[1] = Loading /\ view = Hint /\ path = <<>>
    BY <1>1 DEF BrowseInit, Settled, Depth, Hint, Detail
  <1>5. ScreenInv
    BY <1>4 DEF ScreenInv, PathInv, OpenedInv, CurrentInv, TimeoutRetried, Hint, Detail
  <1>. QED  BY <1>2, <1>3, <1>5 DEF BrowseInv

\* Every step keeps the invariant.
LEMMA BrowseStepKeeps == BrowseInv /\ BrowseNext => BrowseInv'
  <1>1. SUFFICES ASSUME BrowseInv, BrowseNext PROVE BrowseInv'
    OBVIOUS
  <1>2. BrowseTypes /\ EventsInv /\ PathInv
    BY <1>1 DEF BrowseInv, ScreenInv
  <1>3. ClientStep \/ ScreenStep
    BY <1>1, <1>2, StepForms DEF ScreenStep
  <1>4. BrowseTypes'
    BY <1>2, <1>3, ClientStepTypes, ScreenStepTypes
  <1>5. EventsInv'
    BY <1>2, <1>3, ClientStepEvents, ScreenStepEvents
  <1>6. ScreenInv'
    <2>1. CASE ClientStep
      BY <1>1, <1>4, <2>1, ClientStepScreen
    <2>2. CASE Open
      BY <1>1, <1>4, <2>2, OpenScreen
    <2>3. CASE StateChanged
      BY <1>1, <1>4, <2>3, StateChangedScreen
    <2>4. CASE Rebuild
      BY <1>1, <1>4, <2>4, RebuildScreen
    <2>5. CASE Leave \/ PlayDetail \/ \E level \in 1..3 : PlayRow(level)
      BY <1>1, <1>4, <2>5, LeaveScreen
    <2>6. CASE \E level \in 2..3, item \in Items :
                  screen # "files" /\ level <= Lists /\ ShowList(level, item)
      BY <1>1, <1>4, <2>6, ShowListScreen
    <2>7. CASE \E level \in 1..3 : screen # "files" /\ level <= Lists /\ BackTo(level)
      BY <1>1, <1>4, <2>7, BackToScreen
    <2>8. CASE screen # "files" /\ ShowDetail(Lists)
      BY <1>1, <1>4, <2>8, ShowDetailScreen
    <2>9. CASE (\E item \in Items : EnterFolder(item)) \/ GoBack
      BY <1>1, <1>4, <2>9, FolderScreen
    <2>. QED  BY <1>3, <2>1, <2>2, <2>3, <2>4, <2>5, <2>6, <2>7, <2>8, <2>9 DEF ScreenStep, TapStep
  <1>. QED  BY <1>4, <1>5, <1>6 DEF BrowseInv

\* The invariant says what the property does.
LEMMA BrowseInvSafe == BrowseInv => BrowseSafe
  <1>1. SUFFICES ASSUME BrowseInv PROVE BrowseSafe
    OBVIOUS
  <1>2. BrowseTypes /\ PathInv /\ OpenedInv /\ CurrentInv /\ TimeoutRetried
    BY <1>1 DEF BrowseInv, ScreenInv
  <1>3. view \in 1..3 => Depth = view /\ view \in 1..Depth
    BY <1>2, DepthFacts
  <1>4. BrowseTypeOK
    <2>1. view \in 2..3 => Len(path) >= view - 1
      BY <1>2, <1>3 DEF PathInv
    <2>. QED  BY <1>2, <2>1 DEF BrowseTypeOK, BrowseTypes
  <1>5. RowsOfOpened
    BY <1>2, <1>3 DEF RowsOfOpened, OpenedInv
  <1>6. ASSUME Settled, shown, ~evicted, view \in 1..3 PROVE Filled(view) \/ Coming(view)
    <2>1. view = 1 \/ view \in 2..Depth
      BY <1>3, <1>6
    <2>. QED  BY <1>2, <1>6, <2>1 DEF CurrentInv
  <1>7. LoadingIsComing /\ RowsOfSession
    BY <1>6 DEF LoadingIsComing, RowsOfSession, Filled
  <1>. QED  BY <1>2, <1>4, <1>5, <1>7 DEF BrowseSafe

\* Taps, answers, link changes and other screens' requests in any order: the
\* list on a Kodi screen answers what was opened, on this connection, or an
\* answer is on its way; a top list that timed out is asked for again
\* (BrowseSafe).
THEOREM BrowseSafeHolds == BrowseSpec => []BrowseSafe
  <1>1. BrowseInv /\ [BrowseNext]_browse_vars => BrowseInv'
    <2>1. SUFFICES ASSUME BrowseInv, UNCHANGED browse_vars PROVE BrowseInv'
      BY BrowseStepKeeps
    <2>2. UNCHANGED <<screen, shown, view, rows, path, browse_stale, link, session, pending,
                      browse_batch, ui_events, evicted, others_left>>
      BY <2>1 DEF browse_vars
    <2>3. /\ Lists' = Lists /\ Requests' = Requests /\ Answers' = Answers /\ UiEvents' = UiEvents
      BY <2>2, SameScreen
    <2>4. BrowseTypes' /\ EventsInv'
      BY <2>1, <2>2, <2>3 DEF BrowseInv, BrowseTypes, EventsInv
    <2>5. Settled' = Settled /\ \A l, of : Awaited(l, of) => Awaited(l, of)'
      BY <2>2 DEF Settled, Awaited, Queued, Answered, Request
    <2>6. ScreenInv'
      BY <2>1, <2>2, <2>4, <2>5, QuietKeeps
    <2>. QED  BY <2>4, <2>6 DEF BrowseInv
  <1>. QED  BY <1>1, BrowseInvInit, BrowseInvSafe, PTL DEF BrowseSpec
=============================================================================
