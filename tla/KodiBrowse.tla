----------------------------- MODULE KodiBrowse -----------------------------
(***************************************************************************)
(* The five Kodi browse screens (movies, TV shows, music, live TV, files)  *)
(* with the lazy loading of ui/lazy_load and ui/screen_loader, against the *)
(* client's queue of library requests.                                     *)
(*                                                                         *)
(* A behaviour follows one screen; the requests of all others are          *)
(* OtherRequest(n).                                                        *)
(* Level n is the screen's n-th list, reached by choosing an item in each  *)
(* list above it; `path` is what was chosen.  The client serves its queue  *)
(* in batches and publishes answers to the UI thread's queue, where they   *)
(* mix with changes of the connection's state.                             *)
(***************************************************************************)
EXTENDS Naturals, Sequences, SequencesExt

CONSTANTS BrowseScreens,               \* the screens to follow
          Items,                       \* ids of rows
          kMaxPendingLibrary,          \* kMaxPendingLibraryRequests
          MaxTaps, MaxDrops, MaxOthers, MaxAnswers  \* bounds

\* The screens: how many lists each has, what its loader requests, and which
\* lists take only the reply to what is selected.
MoviesScreen == [lists |-> 1, top |-> "movies", filtered |-> {}]
TvShowsScreen == [lists |-> 3, top |-> "shows", filtered |-> {2, 3}]
MusicScreen == [lists |-> 3, top |-> "artists", filtered |-> {2}]
LiveTvScreen == [lists |-> 2, top |-> "groups", filtered |-> {2}]
FilesScreen == [lists |-> 1, top |-> "sources", filtered |-> {1}]
Screens == [movies |-> MoviesScreen, tvshows |-> TvShowsScreen, music |-> MusicScreen,
            livetv |-> LiveTvScreen, files |-> FilesScreen]
Hint == 0
Detail == 4
AllHidden == 5
Loading == [kind |-> "loading"]
Results == {"rows", "empty", "timeout"}

ASSUME BrowseAssumption ==
    /\ BrowseScreens \subseteq DOMAIN Screens /\ kMaxPendingLibrary \in Nat \ {0}
    /\ {MaxTaps, MaxDrops, MaxOthers, MaxAnswers} \subseteq Nat

VARIABLES screen,          \* the screen followed
          shown,           \* lv_screen_active() is its root
          view,            \* Hint, a level, Detail or AllHidden
          rows,            \* per level: Loading, or what it was filled from
          path,            \* selected_..._ ids, path_stack_ for files
          browse_stale,           \* LazyLoad::stale_
          link, session,   \* the client's state and how often it connected
          pending, browse_batch,  \* requests queued, and taken by the client
          ui_events,
          evicted,         \* a request was dropped at the cap
          taps_left, drops_left, others_left, answers_left

browse_vars == <<screen, shown, view, rows, path, browse_stale, link, session, pending,
                 browse_batch, ui_events, evicted, taps_left, drops_left, others_left,
                 answers_left>>
env == <<screen, link, session, drops_left, others_left, answers_left>>

Top == Screens[screen].top
Lists == Screens[screen].lists
Request(level, of) == [level |-> level, of |-> of]
\* The n-th request that another screen's LazyLoad queues.
Other == <<"other">>
OtherRequest(n) == Request(n, Other)
\* The choice of an item for a level; deeper choices stay as they were.
Chosen(level, item) == IF Len(path) >= level - 1 THEN [path EXCEPT ![level - 1] = item]
                       ELSE Append(path, item)
Tap == taps_left > 0 /\ taps_left' = taps_left - 1

-----------------------------------------------------------------------------
(***************************************************************************)
(* The client.                                                             *)
(***************************************************************************)
\* EnqueueLibraryRequest(): not twice, and the oldest is dropped at the cap.
Enqueued(queue, request) ==
    IF Contains(queue, request) THEN queue
    ELSE IF Len(queue) < kMaxPendingLibrary THEN Append(queue, request)
    ELSE Append(Tail(queue), request)

RequestListing(level, of) ==
    /\ pending' = Enqueued(pending, Request(level, of))
    /\ evicted' = (evicted \/ (Len(pending) = kMaxPendingLibrary
                               /\ ~Contains(pending, Request(level, of))))

OtherScreen ==
    /\ others_left > 0 /\ others_left' = others_left - 1
    /\ pending' = Enqueued(pending, OtherRequest(others_left))
    /\ evicted' = (evicted \/ Len(pending) = kMaxPendingLibrary)
    /\ UNCHANGED <<screen, shown, view, rows, path, browse_stale, link, session, browse_batch,
                   ui_events, taps_left, drops_left, answers_left>>

TakeBatch ==
    /\ link = "up" /\ browse_batch = <<>> /\ pending # <<>>
    /\ browse_batch' = pending /\ pending' = <<>>
    /\ UNCHANGED <<screen, shown, view, rows, path, browse_stale, link, session, ui_events,
                   evicted, taps_left, drops_left, others_left, answers_left>>

\* CallLibrary() and the publication of its event.  A listing that timed
\* out is published as truncated, with no rows.
Answer ==
    /\ browse_batch # <<>> /\ answers_left > 0 /\ answers_left' = answers_left - 1
    /\ browse_batch' = Tail(browse_batch)
    /\ \E result \in Results :
          ui_events' = IF Head(browse_batch).of = Other THEN ui_events
                       ELSE Append(ui_events, [kind |-> result, level |-> Head(browse_batch).level,
                                               of |-> Head(browse_batch).of, session |-> session])
    /\ UNCHANGED <<screen, shown, view, rows, path, browse_stale, link, session, pending,
                   evicted, taps_left, drops_left, others_left>>

\* The connection drops, with the batch, and comes back, perhaps to another
\* library.
LinkDown ==
    /\ link = "up" /\ drops_left > 0 /\ drops_left' = drops_left - 1
    /\ link' = "down" /\ browse_batch' = <<>>
    /\ ui_events' = Append(ui_events, [kind |-> "down"])
    /\ UNCHANGED <<screen, shown, view, rows, path, browse_stale, session, pending,
                   evicted, taps_left, others_left, answers_left>>

LinkUp ==
    /\ link = "down" /\ link' = "up" /\ session' = session + 1
    /\ ui_events' = Append(ui_events, [kind |-> "up"])
    /\ UNCHANGED <<screen, shown, view, rows, path, browse_stale, pending, browse_batch, evicted,
                   taps_left, drops_left, others_left, answers_left>>

-----------------------------------------------------------------------------
(***************************************************************************)
(* Loading.                                                                *)
(***************************************************************************)
\* The screen's load callback: the top list, or the files screen's current
\* folder (RequestCurrentLevel(), which clears the list).
Load ==
    IF screen = "files"
    THEN rows' = [rows EXCEPT ![1] = Loading] /\ RequestListing(1, <<Top>> \o path)
    ELSE RequestListing(1, <<Top>>) /\ UNCHANGED rows

NoLoad == UNCHANGED <<rows, pending, evicted>>

\* LazyLoad::TakeIf().
TakeIf(wanted, ready) ==
    /\ browse_stale' = (wanted /\ ~ready)
    /\ IF wanted /\ ready THEN Load ELSE NoLoad

\* The screen is opened: OnScreenLoadStart().
Open ==
    /\ ~shown /\ Tap /\ shown' = TRUE
    /\ TakeIf(browse_stale, link = "up")
    /\ UNCHANGED <<env, view, path, browse_batch, ui_events>>

Leave ==
    /\ shown /\ Tap /\ shown' = FALSE
    /\ UNCHANGED <<env, view, rows, path, browse_stale, pending, browse_batch, ui_events, evicted>>

\* Refresh(): the top list, or the hint, from the client's state now.
Refresh == view' = IF link = "up" THEN 1 ELSE Hint

\* The handler of KodiConnectionStateChangedEvent.  Files keeps its folder.
StateChanged ==
    /\ ui_events # <<>> /\ Head(ui_events).kind \in {"up", "down"}
    /\ ui_events' = Tail(ui_events) /\ Refresh
    /\ IF Head(ui_events).kind = "up" THEN TakeIf(TRUE, shown) ELSE NoLoad /\ UNCHANGED browse_stale
    /\ UNCHANGED <<env, shown, path, browse_batch, taps_left>>

\* Mutant of Filter: a reply is taken whatever it is a reply to.
FilterNothing(e) == TRUE

\* Which replies a screen takes: a filtered list's, for what is selected.
Filter(e) ==
    e.level \in Screens[screen].filtered =>
        IF screen = "files" THEN e.of = <<Top>> \o path
        ELSE Len(path) >= e.level - 1 /\ Tail(e.of) = SubSeq(path, 1, e.level - 1)

\* ScreenLoader::OnLoaded(), for the lists the loader loads.
OnLoaded(e) == browse_stale' = (browse_stale \/ (e.level = 1 /\ e.kind = "timeout"))

\* The handler of a Fetched event: Rebuild...List() refills the list.
Rebuild ==
    /\ ui_events # <<>> /\ Head(ui_events).kind \in Results
    /\ ui_events' = Tail(ui_events)
    /\ LET e == Head(ui_events)
       IN  IF Filter(e) THEN rows' = [rows EXCEPT ![e.level] = e] /\ OnLoaded(e)
           ELSE UNCHANGED <<rows, browse_stale>>
    /\ UNCHANGED <<env, shown, view, path, pending, browse_batch, evicted, taps_left>>

-----------------------------------------------------------------------------
(***************************************************************************)
(* Taps.                                                                   *)
(***************************************************************************)
Tappable(level) == shown /\ view = level /\ rows[level].kind = "rows" /\ Tap

\* ShowSeasonList(), ShowEpisodeList() and their like: the list below is
\* cleared, shown and requested.
ShowList(level, item) ==
    /\ Tappable(level - 1)
    /\ path' = Chosen(level, item)
    /\ rows' = [rows EXCEPT ![level] = Loading] /\ view' = level
    /\ RequestListing(level, <<Top>> \o SubSeq(path', 1, level - 1))
    /\ UNCHANGED <<env, shown, browse_stale, browse_batch, ui_events>>

\* A back button: one level up, if connected; otherwise nothing is shown.
BackTo(level) ==
    /\ shown /\ view \in {level + 1, Detail} /\ Tap
    /\ view = Detail => level = Lists
    /\ view' = IF link = "up" THEN level ELSE AllHidden
    /\ UNCHANGED <<env, shown, rows, path, browse_stale, pending, browse_batch, ui_events, evicted>>

ShowDetail(level) ==
    /\ Tappable(level) /\ view' = Detail
    /\ UNCHANGED <<env, shown, rows, path, browse_stale, pending, browse_batch, ui_events, evicted>>

\* Play, Resume, or a tap on a song, channel or file: on to Now Playing.
Play ==
    /\ shown' = FALSE
    /\ UNCHANGED <<env, view, rows, path, browse_stale, pending, browse_batch, ui_events, evicted>>

PlayDetail == shown /\ view = Detail /\ Tap /\ Play
PlayRow(level) == Tappable(level) /\ Play

KodiMoviesScreen ==
    screen = "movies" /\ (ShowDetail(1) \/ BackTo(1) \/ PlayDetail)

KodiTvShowsScreen ==
    /\ screen = "tvshows"
    /\ \/ \E item \in Items : ShowList(2, item) \/ ShowList(3, item)
       \/ ShowDetail(3) \/ BackTo(1) \/ BackTo(2) \/ BackTo(3) \/ PlayDetail

KodiMusicScreen ==
    /\ screen = "music"
    /\ \/ \E item \in Items : ShowList(2, item) \/ ShowList(3, item)
       \/ BackTo(1) \/ BackTo(2) \/ PlayRow(3)

KodiLiveTvScreen ==
    /\ screen = "livetv"
    /\ (\E item \in Items : ShowList(2, item)) \/ BackTo(1) \/ PlayRow(2)

\* Enter() and GoBack(): the one list is cleared and requested anew.
EnterFolder(item) ==
    /\ screen = "files" /\ Len(path) < 2 /\ Tappable(1)
    /\ path' = Append(path, item) /\ rows' = [rows EXCEPT ![1] = Loading]
    /\ RequestListing(1, <<Top>> \o path')
    /\ UNCHANGED <<env, shown, view, browse_stale, browse_batch, ui_events>>

GoBack ==
    /\ screen = "files" /\ shown /\ view = 1 /\ path # <<>> /\ Tap
    /\ path' = Front(path) /\ rows' = [rows EXCEPT ![1] = Loading]
    /\ RequestListing(1, <<Top>> \o path')
    /\ UNCHANGED <<env, shown, view, browse_stale, browse_batch, ui_events>>

KodiFilesScreen == (\E item \in Items : EnterFolder(item)) \/ GoBack
                   \/ (screen = "files" /\ PlayRow(1))

BrowseInit ==
    /\ screen \in BrowseScreens /\ shown = FALSE /\ view = Hint
    /\ rows = [l \in 1..3 |-> Loading] /\ path = <<>> /\ browse_stale = TRUE
    /\ link = "down" /\ session = 0 /\ pending = <<>> /\ browse_batch = <<>>
    /\ ui_events = <<>> /\ evicted = FALSE
    /\ taps_left = MaxTaps /\ drops_left = MaxDrops /\ others_left = MaxOthers
    /\ answers_left = MaxAnswers

BrowseNext ==
    \/ OtherScreen \/ TakeBatch \/ Answer \/ LinkDown \/ LinkUp
    \/ Open \/ Leave \/ StateChanged \/ Rebuild
    \/ KodiMoviesScreen \/ KodiTvShowsScreen \/ KodiMusicScreen
    \/ KodiLiveTvScreen \/ KodiFilesScreen

BrowseSpec == BrowseInit /\ [][BrowseNext]_browse_vars

-----------------------------------------------------------------------------
(***************************************************************************)
(* Properties.                                                             *)
(***************************************************************************)
Opened(level) == <<Top>> \o (IF screen = "files" THEN path ELSE SubSeq(path, 1, level - 1))
Settled == link = "up" /\ ~\E i \in 1..Len(ui_events) : ui_events[i].kind \in {"up", "down"}
Coming(level) ==    \* asked for, or answered but not yet handled
    \/ Contains(pending \o browse_batch, Request(level, Opened(level)))
    \/ \E i \in 1..Len(ui_events) :
          ui_events[i].kind \in Results /\ ui_events[i].level = level
          /\ ui_events[i].of = Opened(level)

\* Types; a level is shown only when something was chosen above it.
BrowseTypeOK ==
    /\ view \in {Hint, Detail, AllHidden} \cup 1..Lists
    /\ view \in 2..3 => Len(path) >= view - 1
    /\ Len(pending) <= kMaxPendingLibrary

\* A list on screen that is still loading has a request under way, an answer
\* queued, or is loaded again when next shown: the user never waits for
\* nothing.  A request dropped at the queue's cap is the exception.
LoadingIsComing ==
    Settled /\ shown /\ ~evicted /\ view \in 1..3 /\ rows[view] = Loading
    => Coming(view)

\* The rows on screen answer what was opened, not an earlier choice.  (The
\* music screen's songs are SongsOfOpenAlbum's subject.)
RowsOfOpened ==
    view \in 1..3 /\ rows[view] # Loading /\ <<screen, view>> # <<"music", 3>>
    => rows[view].of = Opened(view)

\* Once a reconnect has been handled, the rows on screen are of the current
\* connection, whose library may be another one, or are about to be.
RowsOfSession ==
    Settled /\ shown /\ ~evicted /\ view \in 1..3 /\ rows[view] # Loading
    => rows[view].session = session \/ Coming(view)

\* A top list that timed out is asked for again when the screen is next shown.
TimeoutRetried ==
    Settled /\ ~evicted /\ rows[1].kind = "timeout" => browse_stale \/ Coming(1)

\* Taps, answers, link changes and other screens' requests in any order: the
\* list on a Kodi screen answers what was opened on this connection, or an
\* answer is on its way.
BrowseSafe ==
    /\ BrowseTypeOK /\ LoadingIsComing /\ RowsOfOpened /\ RowsOfSession
    /\ TimeoutRetried

\* kodi_music_screen.cpp: "Filtered by the currently-open artist/album - a
\* reply for an artist the user has since backed out of (a slow query racing
\* a fast back tap) must not repopulate a list that's no longer showing."
SongsOfOpenAlbum ==
    screen = "music" /\ view = 3 /\ rows[3] # Loading => rows[3].of = Opened(3)
=============================================================================
