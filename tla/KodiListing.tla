---------------------------- MODULE KodiListing ----------------------------
(***************************************************************************)
(* One library listing: the page loop of KodiClient::CallLibrary().  Kodi  *)
(* holds size items, numbered in its own order; the loop asks for them     *)
(* kLibraryPageSize at a time and merges the replies until a short page,   *)
(* the reported total or the cap ends it.  A call may time out and a later *)
(* page may be an error; a dead transport abandons the listing and is a    *)
(* step of KodiClient.                                                     *)
(***************************************************************************)
EXTENDS Naturals, Sequences

CONSTANTS MaxSize,           \* bound: how many items Kodi may hold
          kLibraryPageSize,
          MaxPages,          \* kMaxLibraryItems is this many pages
          Servers            \* how Kodi may treat the limits parameter

kMaxLibraryItems == MaxPages * kLibraryPageSize

ASSUME ListingAssumption ==
    /\ MaxSize \in Nat
    /\ kLibraryPageSize \in Nat \ {0}
    /\ MaxPages \in Nat \ {0}
    /\ Servers \subseteq {"honours", "rejects", "ignores"}

VARIABLES
    size,           \* Kodi: the number of items
    server,         \* Kodi: whether it honours, rejects or ignores limits
    reports_total,  \* Kodi: whether replies carry limits.total
    listing_pc,     \* "page", "unpaged" or "done"
    start,          \* the next page's first item
    merged,         \* the items merged so far
    truncated,      \* the listing is reported as incomplete
    refused         \* history: the reply held no list at all

listing_vars == <<size, server, reports_total, listing_pc, start, merged, truncated, refused>>

Smaller(m, n) == IF m < n THEN m ELSE n

\* The items Kodi answers with: the page asked for, or everything.
PageSize ==
    IF server = "honours"
    THEN Smaller(kLibraryPageSize, size - Smaller(start, size))
    ELSE size
PageItem(i) == IF server = "honours" THEN start + i ELSE i

\* How much of a page fits under the cap.
Taken == Smaller(PageSize, kMaxLibraryItems - Len(merged))

\* merged with the page's items appended.
Merged == [i \in 1..(Len(merged) + Taken) |->
              IF i <= Len(merged) THEN merged[i] ELSE PageItem(i - Len(merged))]

\* A page that is not exactly full is the last one, and so is the one that
\* reaches the reported total.
LastPage == \/ PageSize # kLibraryPageSize
            \/ reports_total /\ start + PageSize >= size

\* Mutant of NextStart: the next request asks for the same page.
NextStartSame == start

NextStart == start + PageSize

AtCap(items) == items >= kMaxLibraryItems

\* A page is received and merged.  If another one exists, either it is asked
\* for or the cap stops the loop, which marks the listing.
ReceivePage ==
    /\ listing_pc = "page" /\ server # "rejects"
    /\ merged' = Merged
    /\ start' = NextStart
    /\ truncated' = (~LastPage /\ AtCap(Len(merged')))
    /\ listing_pc' = IF LastPage \/ AtCap(Len(merged')) THEN "done" ELSE "page"
    /\ UNCHANGED <<size, server, reports_total, refused>>

\* An error reply to the first page is retried once without limits; one to
\* a later page cuts the listing short.
ReceiveError ==
    /\ listing_pc = "page"
    /\ IF start = 0
       THEN server = "rejects" /\ listing_pc' = "unpaged" /\ UNCHANGED truncated
       ELSE listing_pc' = "done" /\ truncated' = TRUE
    /\ UNCHANGED <<size, server, reports_total, start, merged, refused>>

\* A first reply, or one to the request without limits, that holds no list
\* is passed on as it is; the parser makes an empty listing of it.
ReceiveNoList ==
    /\ listing_pc = "unpaged" \/ (listing_pc = "page" /\ start = 0)
    /\ refused' = TRUE
    /\ listing_pc' = "done"
    /\ UNCHANGED <<size, server, reports_total, start, merged, truncated>>

ReceiveUnpaged ==
    /\ listing_pc = "unpaged"
    /\ merged' = [i \in 1..size |-> i]
    /\ listing_pc' = "done"
    /\ UNCHANGED <<size, server, reports_total, start, truncated, refused>>

MarkTimeout == truncated' = TRUE

\* A timeout on an open link: what arrived is kept.
CallTimesOut ==
    /\ listing_pc \in {"page", "unpaged"}
    /\ MarkTimeout
    /\ listing_pc' = "done"
    /\ UNCHANGED <<size, server, reports_total, start, merged, refused>>

ListingInit ==
    /\ size \in 0..MaxSize
    /\ server \in Servers
    /\ reports_total \in BOOLEAN
    /\ listing_pc = "page" /\ start = 0 /\ merged = <<>> /\ truncated = FALSE
    /\ refused = FALSE

ListingNext == \/ ReceivePage \/ ReceiveError \/ ReceiveNoList \/ ReceiveUnpaged
        \/ CallTimesOut

ListingSpec == ListingInit /\ [][ListingNext]_listing_vars

-----------------------------------------------------------------------------
\* A Kodi that ignores limits answers with more than the cap in one reply.
\* The merge loop stops at the cap, but a page that is not exactly full
\* counts as the last one, so the cut is not marked.
Oversized == server = "ignores" /\ size > kMaxLibraryItems

\* A Kodi that ignores limits, reports no total and has exactly one page of
\* items looks as if it had another page, and answers with the same again.
Repeats ==
    server = "ignores" /\ ~reports_total /\ size = kLibraryPageSize

\* What a screen is given is the whole library in Kodi's order, or it is
\* marked as incomplete: no boundary of the page size, the reported total or
\* the cap drops items silently (CallLibrary()'s truncated), except in the
\* Oversized case.  Only a Kodi that answers without any list is shown as an
\* empty library.
WholeOrMarked ==
    listing_pc = "done" /\ ~truncated /\ ~refused /\ ~Oversized =>
        merged = [i \in 1..size |-> i]

\* No item is listed twice, even when the loop is cut short: except in the
\* Repeats case, the comparison of the page's size with kLibraryPageSize and
\* of its end with the total keeps a page from being merged again.
NoItemTwice ==
    ~Repeats => \A i, j \in DOMAIN merged : merged[i] = merged[j] => i = j

\* A listing that CallLibrary() pages together is never silently incomplete
\* and never repeats an item, outside the two cases above.
ListingSafe == WholeOrMarked /\ NoItemTwice
=============================================================================
