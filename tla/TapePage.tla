------------------------------ MODULE TapePage ------------------------------
(***************************************************************************)
(* The tape page of the web client (taps-page.svelte) with its IndexedDB   *)
(* cache (tape-cache.ts), reading tapes that are being written.            *)
(*                                                                         *)
(* The page shows a window of a tape: it loads the latest entries from the *)
(* cache and then from the server, fetches older pages on scrolling, and   *)
(* syncs the latest page on a timer.  Every await is a place where the     *)
(* user may have navigated to another tape: loadTape() drops an answer of  *)
(* an older generation, the other calls read `tapeId' anew.  Answers are   *)
(* matched to calls by the name of the command only (runCommandAwait), so  *)
(* one answer goes to every call that waits for that command.              *)
(***************************************************************************)
EXTENDS TapeStore

CONSTANTS PageSize, MaxTasks

ASSUME PageConstants == PageSize \in Nat \ {0} /\ MaxTasks \in Nat

VARIABLES
    page,     \* [route, gen, loading, loadingMore, syncing, shown, next, has]
    tasks,    \* calls in flight: [k, pc, t, off, lim, gen, got, ok]; `ok' is history:
              \* every answer it took was to its own question
    reqs,     \* commands the server has not answered: [name, t, off, lim]
    cache,    \* cached entries
    left,     \* [nav, sync]: navigations and syncs left
    mishaps   \* history: "page" while the window may hold what an answer to another
              \* question, a call overtaken by a navigation, a window moved away from
              \* under a call or a spoilt cache put there; "cache" once the cache may
              \* hold entries of another tape

pageVars == <<page, tasks, reqs, cache, left, mishaps>>
allVars == <<vars, pageVars>>

PageInit ==
    /\ page = [route |-> None, gen |-> 0, loading |-> FALSE, loadingMore |-> FALSE, syncing |-> FALSE,
               shown |-> {}, next |-> 0, has |-> FALSE]
    /\ tasks = {} /\ reqs = {} /\ cache = {} /\ mishaps = {}
    /\ left = [nav |-> plan.navs, sync |-> plan.syncs]

\* An entry as the page and the cache know it; `t' is where it is stored, for
\* the page only a ghost.
Item(t, e) == [t |-> t, id |-> e.id, val |-> e.val]

\* readPage: rows by position, not by id.
ServerPage(t, off, lim) ==
    {Item(t, Read(t)[i]) : i \in {j \in DOMAIN Read(t) : off < j /\ j <= off + lim}}

Merge(a, b) == {x \in a : \A y \in b : y.id # x.id} \cup b

\* put() replaces what is stored under (tape, entry id).
Put(t, items) ==
    {x \in cache : \A y \in items : ~(x.t = t /\ x.id = y.id)} \cup {[x EXCEPT !.t = t] : x \in items}

CachedLatest(t) == {x \in cache : x.t = t /\ Cardinality({y \in cache : y.t = t /\ y.id > x.id}) < PageSize}

CachedPage(t, off, lim) == {x \in cache : x.t = t /\ off < x.id /\ x.id <= off + lim}

Ends(items) == {x.id : x \in items}

FirstOffset(items) == IF items = {} THEN 0 ELSE Min(Ends(items)) - 1

LatestOffset(t) == IF Len(Read(t)) > PageSize THEN Len(Read(t)) - PageSize ELSE 0

Apart(a, b) == a # {} /\ b # {} /\ (Min(Ends(a)) > Max(Ends(b)) + 1 \/ Min(Ends(b)) > Max(Ends(a)) + 1)

\* The user has navigated since the call started.
Late(k) == k.gen # page.gen \/ page.route = None

Marks(window, stored) == (IF window THEN {"page"} ELSE {}) \cup (IF stored THEN {"cache"} ELSE {})

----------------------------------------------------------------------------
(* Calls and answers. *)

Task(k, pc, t, off, lim) ==
    [k |-> k, pc |-> pc, t |-> t, off |-> off, lim |-> lim, gen |-> page.gen, got |-> {}, ok |-> TRUE]

Req(k) == [name |-> k.pc, t |-> k.t, off |-> k.off, lim |-> k.lim]

Asks(k) == reqs' = reqs \cup {Req(k)}

\* The server answers in any order; every waiting call of that name resumes.
\* After its "info" a call goes on to ask for the page.
Answer(r) ==
    LET own(k) == k.ok /\ Req(k) = r
        Resumed(k) == IF r.name = "info" THEN [k EXCEPT !.pc = "page", !.off = LatestOffset(r.t), !.ok = own(k)]
                      ELSE [k EXCEPT !.pc = "got", !.got = ServerPage(r.t, r.off, r.lim), !.ok = own(k)]
        waiting == {k \in tasks : k.pc = r.name}
        resumed == {Resumed(k) : k \in waiting}
    IN  /\ tasks' = (tasks \ waiting) \cup resumed
        /\ reqs' = (reqs \ {r}) \cup {Req(k) : k \in {x \in resumed : x.pc = "page"}}
        /\ UNCHANGED <<vars, page, cache, left, mishaps>>

\* A timeout, a closed socket, or no connection at all.  The command may still
\* be answered.  A failed call changes nothing but its flag, except that a load
\* with nothing to show forgets the offsets.
TaskFails(k) ==
    LET off == CASE k.k = "more" -> [page EXCEPT !.loadingMore = FALSE]
                 [] k.k = "load" /\ k.gen = page.gen -> [page EXCEPT !.loading = FALSE, !.syncing = FALSE]
                 [] k.k = "sync" -> [page EXCEPT !.syncing = FALSE]
                 [] OTHER -> page
    IN  /\ k.pc \in {"info", "page"}
        /\ tasks' = tasks \ {k}
        /\ page' = IF k.k = "load" /\ page.shown = {} THEN [off EXCEPT !.next = 0, !.has = FALSE] ELSE off
        /\ reqs' \in {reqs, reqs \ {Req(k)}}
        /\ UNCHANGED <<vars, cache, left, mishaps>>

----------------------------------------------------------------------------
(* loadTape(). *)

\* Another route, or the same one after a reconnect.
Navigate(t) ==
    /\ left.nav > 0 /\ Cardinality(tasks) < MaxTasks
    /\ left' = [left EXCEPT !.nav = @ - 1]
    /\ page' = IF t = None
               THEN [page EXCEPT !.route = t, !.shown = {}, !.next = 0, !.has = FALSE]
               ELSE [route |-> t, gen |-> page.gen + 1, loading |-> TRUE, loadingMore |-> FALSE, syncing |-> FALSE,
                     shown |-> {}, next |-> 0, has |-> FALSE]
    /\ tasks' = IF t = None THEN tasks ELSE tasks \cup {[Task("load", "cache", t, 0, PageSize) EXCEPT !.gen = @ + 1]}
    /\ mishaps' = mishaps \ {"page"}
    /\ UNCHANGED <<vars, reqs, cache>>

LoadCached(k) ==
    LET items == CachedLatest(k.t)
        asking == [k EXCEPT !.pc = "info"]
    IN  /\ k.k = "load" /\ k.pc = "cache"
        /\ IF k.gen # page.gen
           THEN tasks' = tasks \ {k} /\ UNCHANGED <<page, reqs, mishaps>>
           ELSE /\ tasks' = (tasks \ {k}) \cup {asking} /\ Asks(asking)
                /\ page' = IF items = {} THEN page
                           ELSE [page EXCEPT !.shown = items, !.next = FirstOffset(items),
                                             !.has = FirstOffset(items) > 0, !.loading = FALSE, !.syncing = TRUE]
                /\ mishaps' = mishaps \cup Marks("cache" \in mishaps, FALSE)
        /\ UNCHANGED <<vars, cache, left>>

\* Mutant of LoadPage: the page is cached under the tape that is open by now.
LoadPageOpenTape(k) ==
    /\ k.k = "load" /\ k.pc = "got" /\ k.gen = page.gen
    /\ page' = [page EXCEPT !.shown = k.got, !.next = k.off, !.has = k.off > 0, !.loading = FALSE, !.syncing = FALSE]
    /\ cache' = Put(page.route, k.got)
    /\ tasks' = tasks \ {k}
    /\ mishaps' = (mishaps \ {"page"}) \cup Marks(~k.ok, ~k.ok)
    /\ UNCHANGED <<vars, reqs, left>>

LoadPage(k) ==
    /\ k.k = "load" /\ k.pc = "got"
    /\ tasks' = tasks \ {k}
    /\ IF k.gen # page.gen THEN UNCHANGED <<page, cache, mishaps>>
       ELSE /\ page' = [page EXCEPT !.shown = k.got, !.next = k.off, !.has = k.off > 0,
                                    !.loading = FALSE, !.syncing = FALSE]
            /\ cache' = Put(k.t, k.got)
            /\ mishaps' = (mishaps \ {"page"}) \cup Marks(~k.ok \/ \E x \in tasks : x.k \in {"more", "refresh"}, ~k.ok)
    /\ UNCHANGED <<vars, reqs, left>>

----------------------------------------------------------------------------
(* loadMoreEntries(), and the refresh it starts after a cache hit. *)

MoreStart ==
    LET off == IF page.next > PageSize THEN page.next - PageSize ELSE 0
    IN  /\ Cardinality(tasks) < MaxTasks
        /\ page.route # None /\ ~page.loading /\ ~page.loadingMore /\ page.has
        /\ page' = [page EXCEPT !.loadingMore = TRUE]
        /\ tasks' = tasks \cup {Task("more", "cache", page.route, off, page.next - off)}
        /\ UNCHANGED <<vars, reqs, cache, left, mishaps>>

\* isCompletePage.
Complete(items, lim) == Cardinality(items) = lim

\* The cache answers; `tapeId' is read again for what follows.
MoreCached(k) ==
    LET items == CachedPage(k.t, k.off, k.lim)
        hit == Complete(items, k.lim)
        asking == [k EXCEPT !.k = IF hit THEN "refresh" ELSE @, !.pc = "page", !.t = page.route]
    IN  /\ k.k = "more" /\ k.pc = "cache"
        /\ tasks' = (tasks \ {k}) \cup {asking} /\ Asks(asking)
        /\ IF hit
           THEN /\ page' = [page EXCEPT !.shown = Merge(items, @), !.next = k.off, !.has = k.off > 0,
                                        !.loadingMore = FALSE]
                /\ mishaps' = mishaps \cup Marks(Late(k) \/ "cache" \in mishaps, FALSE)
           ELSE UNCHANGED <<page, mishaps>>
        /\ UNCHANGED <<vars, cache, left>>

\* The older entries are shown and put; the offset moves once the put is done.
MorePage(k) ==
    /\ k.k = "more" /\ k.pc = "got"
    /\ page' = [page EXCEPT !.shown = Merge(k.got, @)]
    /\ cache' = IF k.got = {} THEN cache ELSE Put(page.route, k.got)
    /\ tasks' = (tasks \ {k}) \cup {[k EXCEPT !.pc = "put", !.got = {}]}
    /\ mishaps' = mishaps \cup Marks(Late(k) \/ ~k.ok, page.route # k.t \/ ~k.ok)
    /\ UNCHANGED <<vars, reqs, left>>

MoreDone(k) ==
    /\ k.k = "more" /\ k.pc = "put"
    /\ page' = [page EXCEPT !.next = k.off, !.has = k.off > 0, !.loadingMore = FALSE]
    /\ tasks' = tasks \ {k}
    /\ mishaps' = mishaps \cup Marks(Late(k), FALSE)
    /\ UNCHANGED <<vars, reqs, cache, left>>

RefreshPage(k) ==
    /\ k.k = "refresh" /\ k.pc = "got"
    /\ page' = [page EXCEPT !.shown = Merge(@, k.got)]
    /\ cache' = Put(k.t, k.got)
    /\ tasks' = tasks \ {k}
    /\ mishaps' = mishaps \cup Marks(Late(k) \/ ~k.ok, ~k.ok)
    /\ UNCHANGED <<vars, reqs, left>>

----------------------------------------------------------------------------
(* syncLatestTape(), on a timer. *)

SyncStart ==
    LET k == Task("sync", "info", page.route, 0, PageSize)
    IN  /\ Cardinality(tasks) < MaxTasks /\ left.sync > 0
        /\ page.route # None /\ ~page.syncing /\ ~page.loading
        /\ left' = [left EXCEPT !.sync = @ - 1]
        /\ page' = [page EXCEPT !.syncing = TRUE]
        /\ tasks' = tasks \cup {k} /\ Asks(k)
        /\ UNCHANGED <<vars, cache, mishaps>>

\* Shown only if the page is still (or again) at this tape, cached in any case.
SyncPage(k) ==
    LET merged == Merge(page.shown, k.got)
        next == IF k.got = {} THEN page.next ELSE FirstOffset(merged)
    IN  /\ k.k = "sync" /\ k.pc = "got"
        /\ page' = IF page.route = k.t
                   THEN [page EXCEPT !.shown = merged, !.next = next, !.has = next > 0, !.syncing = FALSE]
                   ELSE [page EXCEPT !.syncing = FALSE]
        /\ cache' = Put(k.t, k.got)
        /\ tasks' = tasks \ {k}
        /\ mishaps' = mishaps \cup Marks(page.route = k.t /\ (~k.ok \/ Apart(page.shown, k.got)), ~k.ok)
        /\ UNCHANGED <<vars, reqs, left>>

----------------------------------------------------------------------------
PageNext ==
    \/ \E t \in (Tapes \ Unused) \cup {None} : Navigate(t)
    \/ MoreStart \/ SyncStart
    \/ \E r \in reqs : r.t # None /\ Answer(r)
    \/ \E k \in tasks : \/ LoadCached(k) \/ LoadPage(k) \/ MoreCached(k) \/ MorePage(k) \/ MoreDone(k)
                        \/ RefreshPage(k) \/ SyncPage(k) \/ TaskFails(k)

AllInit == Init /\ PageInit

AllNext == (Next /\ UNCHANGED pageVars) \/ PageNext

AllSpec == AllInit /\ [][AllNext]_allVars

----------------------------------------------------------------------------
(* Properties. *)

IsRow(t, x) == \E i \in DOMAIN Read(t) : Read(t)[i].id = x.id /\ Read(t)[i].val = x.val

\* What the cache holds for a tape are entries of that tape, under their own
\* ids, whatever loads, scrolls, syncs, failures and navigations interleave.  The
\* exceptions are a page of older entries that arrives after the user has moved
\* on (stored under the tape that is open by then), and an answer that was taken
\* by a call of the same name that asked for something else.
\*
\* The entries on the page are a gapless run of entries of the tape that is open,
\* and the next older page ends right before the first of them or overlaps them, so
\* that scrolling up skips nothing.  The exceptions are those of the cache, a window
\* that moved by more than a page between two syncs, and a loadTape() that replaced
\* the cached entries while older ones were fetched.  What they do to the page ends
\* with the next navigation or loadTape(), unless it comes back out of the cache.
PageSound ==
    /\ "cache" \notin mishaps => \A x \in cache : x.t # None /\ IsRow(x.t, x)
    /\ ("page" \notin mishaps /\ page.route # None /\ page.shown # {}) =>
        /\ \A x \in page.shown : IsRow(page.route, x)
        /\ Ends(page.shown) = Min(Ends(page.shown))..Max(Ends(page.shown))
        /\ page.has = (page.next > 0)
        /\ FirstOffset(page.shown) <= page.next /\ page.next < Max(Ends(page.shown))
=============================================================================
