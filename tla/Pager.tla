-------------------------------- MODULE Pager --------------------------------
(***************************************************************************)
(* The page cache of sgl (src/pager.c, src/pager.h): a fixed array of      *)
(* slots, each with a buffer for one page of the database file, a pin      *)
(* count and the time of its last use.  get_page returns the slot a page   *)
(* is in, loading it first when no slot holds it, and pager_release_page   *)
(* takes back what get_page handed out.                                    *)
(*                                                                         *)
(* The bytes of a page are abstracted to the number of the page they were  *)
(* read from.  The callers are abstracted to what every one of them does:  *)
(* get a page, look at it, release it; and, while holding a cell's page,   *)
(* get and release pages of its overflow chain, which are other pages.     *)
(* PayloadReader is the detailed caller and is shown to be such a caller.  *)
(***************************************************************************)
EXTENDS Integers, Sequences, FiniteSets

CONSTANTS
  Pages,               \* the page numbers callers ask for
  Readable,            \* those of them the file really holds in full
  MinCacheCapacity,    \* MIN_CACHE_CAPACITY
  DefaultCacheSize     \* the page cache size the database header suggests

ASSUME PagesAssumption    == Pages \subseteq Nat \ {0} /\ Readable \subseteq Pages
ASSUME CapacityAssumption == MinCacheCapacity \in Nat /\ MinCacheCapacity >= 2
                             /\ DefaultCacheSize \in Nat

VARIABLES
  pages,    \* the slots
  clock,    \* the use counter that time-stamps slots
  held,     \* the pages handed out and not yet released, outermost first
  exit,     \* "no", or the error path that ended the process
  asked     \* history: one more than the time each page was last asked for

vars == <<pages, clock, held, exit, asked>>

cache_capacity ==
  IF DefaultCacheSize < MinCacheCapacity THEN MinCacheCapacity ELSE DefaultCacheSize

Slots == 0 .. cache_capacity - 1

\* A slot; page_no and data are 0 while nothing was ever loaded into it.
Page == [page_no : Pages \cup {0}, data : Pages \cup {0}, valid : BOOLEAN,
         last_used : Nat, pin_count : Nat]

\* What a caller keeps of a get_page: the slot, the page it asked for, and
\* (for the properties only) whether the page had to be loaded.
Handle == [slot : Slots, page : Pages, loaded : BOOLEAN]

(***************************************************************************)
(* pager_open: every slot is empty.                                        *)
(***************************************************************************)
Init ==
  /\ pages = [i \in Slots |-> [page_no |-> 0, data |-> 0, valid |-> FALSE,
                               last_used |-> 0, pin_count |-> 0]]
  /\ clock = 0
  /\ held = <<>>
  /\ exit = "no"
  /\ asked = [p \in Pages |-> 0]

-----------------------------------------------------------------------------
(***************************************************************************)
(* get_page and pager_release_page.  A definition whose comment begins     *)
(* "Wrong:" is a deliberately faulty variant of the definition that        *)
(* follows it; the properties are checked to fail when it takes its place. *)
(***************************************************************************)

\* Wrong: the scan stops one slot early.
CachingButLast(p) ==
  {i \in Slots : i < cache_capacity - 1 /\ pages[i].page_no = p /\ pages[i].valid}

\* The slots get_page's first loop would stop at.
Caching(p) == {i \in Slots : pages[i].page_no = p /\ pages[i].valid}

Free == {i \in Slots : ~pages[i].valid}

\* Wrong: pins are ignored.
EvictableIfPinned == {i \in Slots : pages[i].valid}

Evictable == {i \in Slots : pages[i].valid /\ ~(pages[i].pin_count > 0)}

\* The slots find_suitable_cache_index may return: the first free one, or the
\* evictable one used longest ago (the last of these, as the test is <=).
Suitable ==
  IF Free # {}
    THEN {i \in Free : \A j \in Free : i <= j}
    ELSE {i \in Evictable : \A j \in Evictable :
             \/ pages[i].last_used < pages[j].last_used
             \/ pages[i].last_used = pages[j].last_used /\ j <= i}

HandOut(i, p, loaded) ==
  /\ held' = Append(held, [slot |-> i, page |-> p, loaded |-> loaded])
  /\ asked' = [asked EXCEPT ![p] = clock + 1]

\* Wrong: a hit leaves the slot's time as it was.
Unstamped(i) == pages

Stamped(i) == [pages EXCEPT ![i].last_used = clock]

\* get_page of a cached page: the slot is stamped, its pin count is not touched.
Hit(p) ==
  \E i \in Caching(p) :
    /\ \A j \in Caching(p) : i <= j
    /\ pages' = Stamped(i)
    /\ clock' = clock + 1
    /\ HandOut(i, p, FALSE)
    /\ exit' = exit

\* Wrong: the slot keeps the FALSE that the eviction left in valid.
LoadedInvalid(i, p) ==
  [page_no |-> p, data |-> p, valid |-> FALSE, last_used |-> clock,
   pin_count |-> pages[i].pin_count + 1]

\* Wrong: the load does not pin.
LoadedUnpinned(i, p) ==
  [page_no |-> p, data |-> p, valid |-> TRUE, last_used |-> clock,
   pin_count |-> pages[i].pin_count]

\* read_new_page into slot i: the load pins the slot.
Loaded(i, p) ==
  [page_no |-> p, data |-> p, valid |-> TRUE, last_used |-> clock,
   pin_count |-> pages[i].pin_count + 1]

\* get_page of a page no slot holds.  The victim is evicted before the file is
\* read, and the process exits when there is no victim or the read is short.
Miss(p) ==
  /\ Caching(p) = {}
  /\ IF Free \cup Evictable = {}
       THEN exit' = "exhausted" /\ UNCHANGED <<pages, clock, held, asked>>
       ELSE \E i \in Suitable :
              IF p \in Readable
                THEN /\ pages' = [pages EXCEPT ![i] = Loaded(i, p)]
                     /\ clock' = clock + 1
                     /\ HandOut(i, p, TRUE)
                     /\ exit' = exit
                ELSE /\ pages' = [pages EXCEPT ![i].valid = FALSE]
                     /\ exit' = "unreadable"
                     /\ UNCHANGED <<clock, held, asked>>

GetPage(p) ==
  /\ exit = "no"
  /\ Hit(p) \/ Miss(p)

LastHeld == held[Len(held)]

\* Wrong: the count goes down although it is 0 already.
UnpinnedBelowZero(n) == n - 1

\* Wrong: nothing is given back.
NeverUnpinned(n) == n

Unpinned(n) == IF n > 0 THEN n - 1 ELSE n

\* pager_release_page of the page got last: calls nest in every caller.
Release ==
  /\ exit = "no"
  /\ held # <<>>
  /\ pages' = [pages EXCEPT ![LastHeld.slot].pin_count = Unpinned(@)]
  /\ held' = SubSeq(held, 1, Len(held) - 1)
  /\ UNCHANGED <<clock, exit, asked>>

\* A caller holds at most a cell's page and one other page, an overflow page.
MaxHeld == 2

CallerGets(p) ==
  /\ Len(held) < MaxHeld
  /\ \A k \in DOMAIN held : held[k].page # p
  /\ GetPage(p)

Next == Release \/ \E p \in Pages : CallerGets(p)

Spec == Init /\ [][Next]_vars
-----------------------------------------------------------------------------
TypeOK ==
  /\ pages \in [Slots -> Page]
  /\ clock \in Nat
  /\ held \in Seq(Handle) /\ Len(held) <= MaxHeld
  /\ exit \in {"no", "exhausted", "unreadable"}
  /\ asked \in [Pages -> Nat]

\* No page is ever in two slots, and a slot that says it holds a page has that
\* page's bytes: get_page may stop at the first slot that matches.
OneSlotPerPage ==
  \A i, j \in Slots :
    /\ pages[i].valid => pages[i].data = pages[i].page_no
    /\ pages[i].valid /\ pages[j].valid /\ pages[i].page_no = pages[j].page_no => i = j

\* Whoever called get_page last can read the page it asked for until it
\* releases it or anything else calls get_page, whether the page was found or
\* loaded.  (asked[p] = clock says that the latest call was for p.)
LatestGetCurrent ==
  exit = "no" /\ held # <<>> /\ asked[LastHeld.page] = clock =>
    pages[LastHeld.slot].valid /\ pages[LastHeld.slot].data = LastHeld.page

\* A page that get_page had to load stays in its slot until it is released,
\* whatever is loaded in the meantime.  (One that was found in the cache is not
\* pinned: the property is false of it.)
LoadedStays ==
  \A k \in DOMAIN held :
    held[k].loaded => pages[held[k].slot].valid /\ pages[held[k].slot].data = held[k].page

\* Pins neither leak nor get lost: a slot's pin count is 1 while the call that
\* loaded it is outstanding and 0 otherwise, although a page found in the cache
\* is released without having been pinned.
PinsExact ==
  \A i \in Slots :
    pages[i].pin_count =
      IF \E k \in DOMAIN held : held[k].loaded /\ held[k].slot = i THEN 1 ELSE 0

\* find_suitable_cache_index never fails: the pages callers hold at a time
\* cannot pin the whole cache.
NeverExhausted == exit # "exhausted"

\* The cache keeps the pages used last: all of the cache_capacity - 1 pages
\* asked for most recently are in it (one slot may be taken by an older page
\* that is pinned).
RecentPagesCached ==
  exit = "no" =>
    \A p \in Pages :
      asked[p] > 0 /\ Caching(p) = {} =>
        Cardinality({q \in Pages : asked[q] > asked[p]}) >= cache_capacity - 1
=============================================================================
