----------------------------- MODULE PagerProofs -----------------------------
(***************************************************************************)
(* Theorems about Pager, for every set of pages, every cache size that     *)
(* pager_open can choose and any number of calls.                          *)
(*                                                                         *)
(* The invariants of Pager are not inductive one by one: a load keeps the  *)
(* pages of other handles in place because those are pinned, they are      *)
(* pinned because their slots still hold them, and a release undoes its    *)
(* own pin because two handles never share a slot while one of them is     *)
(* pinned there.  IInv is their conjunction with the facts on the order of *)
(* calls that this argument rests on.                                      *)
(***************************************************************************)
EXTENDS Pager, SequenceTheorems, FiniteSetTheorems, TLAPS

\* Callers never hold a page twice.
HandlesDistinct ==
  \A k, l \in DOMAIN held : held[k].page = held[l].page => k = l

\* No two pages were asked for at the same time, none in the future.
AskedInOrder ==
  /\ \A p \in Pages : asked[p] <= clock
  /\ \A p, q \in Pages : asked[p] = asked[q] /\ asked[p] > 0 => p = q

\* While two pages are held the inner one is the page got last, and it is where
\* its handle says.
InnerIsLatest ==
  exit = "no" /\ Len(held) = 2 =>
    /\ asked[held[2].page] = clock /\ clock > 0
    /\ pages[held[2].slot].valid /\ pages[held[2].slot].data = held[2].page

IInv ==
  /\ TypeOK
  /\ OneSlotPerPage
  /\ LatestGetCurrent
  /\ LoadedStays
  /\ PinsExact
  /\ NeverExhausted
  /\ HandlesDistinct
  /\ AskedInOrder
  /\ InnerIsLatest
-----------------------------------------------------------------------------
\* The cache has at least two slots, whatever the database header says.
LEMMA TwoSlots == cache_capacity \in Nat /\ cache_capacity >= 2 /\ 0 \in Slots /\ 1 \in Slots
  BY CapacityAssumption DEF cache_capacity, Slots

LEMMA InitIInv == Init => IInv
<1> SUFFICES ASSUME Init PROVE IInv
  OBVIOUS
<1> USE PagesAssumption, TwoSlots DEF Init
<1>1. TypeOK
  BY DEF TypeOK, Page, Handle, MaxHeld
<1>2. OneSlotPerPage /\ LatestGetCurrent /\ LoadedStays /\ PinsExact
  BY DEF OneSlotPerPage, LatestGetCurrent, LoadedStays, PinsExact
<1>3. NeverExhausted /\ HandlesDistinct /\ AskedInOrder /\ InnerIsLatest
  BY DEF NeverExhausted, HandlesDistinct, AskedInOrder, InnerIsLatest
<1> QED
  BY <1>1, <1>2, <1>3 DEF IInv

\* The handles are well formed.
LEMMA HeldTypes ==
  ASSUME TypeOK, NEW k \in DOMAIN held
  PROVE  held[k].slot \in Slots /\ held[k].page \in Pages /\ held[k].loaded \in BOOLEAN
<1>1. held[k] \in Handle
  BY DEF TypeOK
<1> QED
  BY <1>1 DEF Handle

\* Handing out a page appends one handle.
LEMMA HandOutHeld ==
  ASSUME TypeOK, NEW p \in Pages, NEW i \in Slots, NEW b \in BOOLEAN,
         Len(held) < MaxHeld, HandOut(i, p, b)
  PROVE  /\ held' \in Seq(Handle)
         /\ Len(held') = Len(held) + 1
         /\ held'[Len(held')] = [slot |-> i, page |-> p, loaded |-> b]
         /\ \A k \in DOMAIN held : k \in DOMAIN held' /\ held'[k] = held[k]
         /\ DOMAIN held' = DOMAIN held \cup {Len(held')}
         /\ asked' \in [Pages -> Nat]
         /\ asked'[p] = clock + 1
         /\ \A q \in Pages : q # p => asked'[q] = asked[q]
<1>1. [slot |-> i, page |-> p, loaded |-> b] \in Handle
  BY DEF Handle
<1> QED
  BY <1>1 DEF HandOut, TypeOK, MaxHeld

\* A slot find_suitable_cache_index returns was loaded by no outstanding handle,
\* and its pin count is 0.
LEMMA SuitableUnheld ==
  ASSUME IInv, NEW i \in Suitable
  PROVE  /\ i \in Slots
         /\ pages[i].pin_count = 0
         /\ \A k \in DOMAIN held : held[k].loaded => held[k].slot # i
<1>1. i \in Free \/ i \in Evictable
  BY DEF Suitable
<1>2. i \in Slots
  BY <1>1 DEF Free, Evictable
<1>3. CASE i \in Free
  BY <1>2, <1>3 DEF Free, IInv, LoadedStays, PinsExact
<1>4. CASE i \in Evictable
  <2>1. pages[i].pin_count = 0
    BY <1>2, <1>4 DEF Evictable, IInv, TypeOK, Page
  <2> QED
    BY <1>2, <2>1 DEF IInv, PinsExact
<1> QED
  BY <1>1, <1>3, <1>4

\* What get_page of p adds to the order of calls, found or loaded.
LEMMA HandOutOrder ==
  ASSUME IInv, NEW p \in Pages, NEW i \in Slots, NEW b \in BOOLEAN,
         Len(held) < MaxHeld, \A k \in DOMAIN held : held[k].page # p,
         HandOut(i, p, b), clock' = clock + 1
  PROVE  HandlesDistinct' /\ AskedInOrder'
<1> DEFINE n == Len(held')
<1>1. TypeOK /\ HandlesDistinct /\ AskedInOrder /\ clock \in Nat
  BY DEF IInv, TypeOK
<1>2. /\ DOMAIN held' = DOMAIN held \cup {n}
      /\ held'[n] = [slot |-> i, page |-> p, loaded |-> b]
      /\ \A k \in DOMAIN held : held'[k] = held[k]
  BY <1>1, HandOutHeld
<1>3. HandlesDistinct'
  <2>1. held'[n].page = p
    BY <1>2
  <2> QED
    BY <1>1, <1>2, <2>1 DEF HandlesDistinct
<1>4. /\ asked' \in [Pages -> Nat]
      /\ asked'[p] = clock + 1
      /\ \A q \in Pages : q # p => asked'[q] = asked[q]
  BY <1>1, HandOutHeld
<1>5. AskedInOrder'
  <2>1. \A q \in Pages : asked[q] \in Nat /\ asked[q] <= clock
    BY <1>1 DEF AskedInOrder, TypeOK
  <2>2. \A q \in Pages : asked'[q] <= clock'
    BY <1>1, <1>4, <2>1
  <2>3. \A q, r \in Pages : asked'[q] = asked'[r] /\ asked'[q] > 0 => q = r
    BY <1>1, <1>4, <2>1 DEF AskedInOrder
  <2> QED
    BY <2>2, <2>3 DEF AskedInOrder
<1> QED
  BY <1>3, <1>5

LEMMA HitKeepsIInv ==
  ASSUME IInv, NEW p \in Pages, CallerGets(p), Hit(p)
  PROVE  IInv'
<1>1. PICK i \in Caching(p) :
        /\ pages' = [pages EXCEPT ![i].last_used = clock]
        /\ clock' = clock + 1
        /\ HandOut(i, p, FALSE)
        /\ exit' = exit
  BY DEF Hit, Stamped
<1>2. /\ i \in Slots /\ pages[i].valid /\ pages[i].page_no = p
      /\ Len(held) < MaxHeld /\ \A k \in DOMAIN held : held[k].page # p
  BY DEF Caching, CallerGets
<1> DEFINE n == Len(held')
<1>3. /\ held' \in Seq(Handle) /\ n = Len(held) + 1
      /\ held'[n] = [slot |-> i, page |-> p, loaded |-> FALSE]
      /\ \A k \in DOMAIN held : k \in DOMAIN held' /\ held'[k] = held[k]
      /\ DOMAIN held' = DOMAIN held \cup {n}
      /\ asked' \in [Pages -> Nat] /\ asked'[p] = clock + 1
      /\ \A q \in Pages : q # p => asked'[q] = asked[q]
  BY <1>1, <1>2, HandOutHeld DEF IInv
<1>4. /\ pages \in [Slots -> Page] /\ clock \in Nat
      /\ held \in Seq(Handle) /\ Len(held) \in Nat /\ Len(held) <= 1
  BY <1>2 DEF IInv, TypeOK, MaxHeld
<1>5. /\ pages' \in [Slots -> Page]
      /\ \A j \in Slots :
           /\ pages'[j].valid = pages[j].valid
           /\ pages'[j].data = pages[j].data
           /\ pages'[j].page_no = pages[j].page_no
           /\ pages'[j].pin_count = pages[j].pin_count
  BY <1>1, <1>2, <1>4 DEF Page
<1>6. \A k \in DOMAIN held : held[k].slot \in Slots
  BY HeldTypes DEF IInv
<1>7. TypeOK'
  BY <1>1, <1>3, <1>4, <1>5 DEF TypeOK, MaxHeld, IInv
<1>8. OneSlotPerPage'
  BY <1>5 DEF OneSlotPerPage, IInv
<1>9. pages'[i].valid /\ pages'[i].data = p
  BY <1>2, <1>5 DEF OneSlotPerPage, IInv
<1>10. LatestGetCurrent'
  BY <1>3, <1>9 DEF LatestGetCurrent, LastHeld
<1>11. LoadedStays'
  BY <1>3, <1>5, <1>6 DEF LoadedStays, IInv
<1>12. PinsExact'
  BY <1>3, <1>5 DEF PinsExact, IInv
<1>13. NeverExhausted'
  BY <1>1 DEF NeverExhausted, IInv
<1>14. HandlesDistinct' /\ AskedInOrder'
  BY <1>1, <1>2, HandOutOrder
<1>15. InnerIsLatest'
  <2>1. n = 2 => held'[2].slot = i /\ held'[2].page = p
    <3>1. held'[n].slot = i /\ held'[n].page = p
      BY <1>3
    <3> QED
      BY <3>1
  <2>2. asked'[p] = clock' /\ clock' > 0
    BY <1>1, <1>3, <1>4
  <2> QED
    BY <1>9, <2>1, <2>2 DEF InnerIsLatest
<1> QED
  BY <1>7, <1>8, <1>10, <1>11, <1>12, <1>13, <1>14, <1>15 DEF IInv

\* find_suitable_cache_index always has a slot to return: a caller that may still
\* get a page holds at most one, so one of the first two slots is not pinned.
LEMMA SomeSlotSuitable ==
  ASSUME IInv, Len(held) < MaxHeld
  PROVE  Free \cup Evictable # {}
<1>1. \A j \in Slots : j \in Free \/ j \in Evictable \/ pages[j].pin_count = 1
  BY DEF IInv, PinsExact, Free, Evictable
<1>2. \A j \in Slots : pages[j].pin_count = 1 => \E k \in DOMAIN held : held[k].slot = j
  BY DEF IInv, PinsExact
<1>3. \A k, l \in DOMAIN held : k = l
  BY DEF IInv, TypeOK, MaxHeld
<1>4. 0 \in Slots /\ 1 \in Slots
  BY TwoSlots
<1> QED
  BY <1>1, <1>2, <1>3, <1>4

LEMMA MissKeepsIInv ==
  ASSUME IInv, NEW p \in Pages, CallerGets(p), Miss(p)
  PROVE  IInv'
<1>1. /\ Caching(p) = {} /\ exit = "no"
      /\ Len(held) < MaxHeld /\ \A k \in DOMAIN held : held[k].page # p
  BY DEF Miss, CallerGets, GetPage
<1>2. PICK i \in Suitable :
        IF p \in Readable
          THEN /\ pages' = [pages EXCEPT ![i] = Loaded(i, p)]
               /\ clock' = clock + 1
               /\ HandOut(i, p, TRUE)
               /\ exit' = exit
          ELSE /\ pages' = [pages EXCEPT ![i].valid = FALSE]
               /\ exit' = "unreadable"
               /\ UNCHANGED <<clock, held, asked>>
  BY <1>1, SomeSlotSuitable DEF Miss
<1>3. /\ i \in Slots /\ pages[i].pin_count = 0
      /\ \A k \in DOMAIN held : held[k].loaded => held[k].slot # i
  BY SuitableUnheld
<1>4. /\ pages \in [Slots -> Page] /\ clock \in Nat
      /\ held \in Seq(Handle) /\ Len(held) \in Nat /\ Len(held) <= 1
      /\ asked \in [Pages -> Nat]
  BY <1>1 DEF IInv, TypeOK, MaxHeld
<1>5. \A k \in DOMAIN held : held[k].slot \in Slots
  BY HeldTypes DEF IInv
<1>6. CASE p \notin Readable
  <2>1. /\ pages' = [pages EXCEPT ![i].valid = FALSE]
        /\ exit' = "unreadable" /\ clock' = clock /\ held' = held /\ asked' = asked
    BY <1>2, <1>6
  <2>2. /\ pages' \in [Slots -> Page]
        /\ \A j \in Slots :
             /\ pages'[j].valid => pages[j].valid
             /\ j # i => pages'[j].valid = pages[j].valid
             /\ pages'[j].data = pages[j].data
             /\ pages'[j].page_no = pages[j].page_no
             /\ pages'[j].pin_count = pages[j].pin_count
    BY <1>3, <1>4, <2>1 DEF Page
  <2>3. TypeOK'
    BY <2>1, <2>2 DEF TypeOK, IInv
  <2>4. OneSlotPerPage'
    <3> SUFFICES ASSUME NEW a \in Slots, NEW b \in Slots
                 PROVE  /\ pages'[a].valid => pages'[a].data = pages'[a].page_no
                        /\ pages'[a].valid /\ pages'[b].valid
                           /\ pages'[a].page_no = pages'[b].page_no => a = b
      BY DEF OneSlotPerPage
    <3>1. /\ pages[a].valid => pages[a].data = pages[a].page_no
          /\ pages[a].valid /\ pages[b].valid
             /\ pages[a].page_no = pages[b].page_no => a = b
      BY DEF IInv, OneSlotPerPage
    <3>2. /\ pages'[a].valid => pages[a].valid
          /\ pages'[b].valid => pages[b].valid
          /\ pages'[a].data = pages[a].data /\ pages'[a].page_no = pages[a].page_no
          /\ pages'[b].page_no = pages[b].page_no
      BY <2>2
    <3> QED
      BY <3>1, <3>2
  <2>5. LatestGetCurrent' /\ NeverExhausted' /\ InnerIsLatest'
    BY <2>1 DEF LatestGetCurrent, NeverExhausted, InnerIsLatest
  <2>6. LoadedStays'
    BY <1>3, <1>5, <2>1, <2>2 DEF LoadedStays, IInv
  <2>7. PinsExact'
    BY <2>1, <2>2 DEF PinsExact, IInv
  <2>8. HandlesDistinct' /\ AskedInOrder'
    BY <2>1 DEF HandlesDistinct, AskedInOrder, IInv
  <2> QED
    BY <2>3, <2>4, <2>5, <2>6, <2>7, <2>8 DEF IInv
<1>7. CASE p \in Readable
  <2> DEFINE n == Len(held')
  <2>1. /\ pages' = [pages EXCEPT ![i] = Loaded(i, p)]
        /\ clock' = clock + 1 /\ HandOut(i, p, TRUE) /\ exit' = "no"
    BY <1>1, <1>2, <1>7
  <2>2. /\ held' \in Seq(Handle) /\ n = Len(held) + 1
        /\ held'[n] = [slot |-> i, page |-> p, loaded |-> TRUE]
        /\ \A k \in DOMAIN held : k \in DOMAIN held' /\ held'[k] = held[k]
        /\ DOMAIN held' = DOMAIN held \cup {n}
        /\ asked' \in [Pages -> Nat] /\ asked'[p] = clock + 1
    BY <1>1, <1>3, <2>1, HandOutHeld DEF IInv
  <2>3. /\ pages' \in [Slots -> Page]
        /\ pages'[i].valid /\ pages'[i].data = p /\ pages'[i].page_no = p
        /\ pages'[i].pin_count = 1
        /\ \A j \in Slots : j # i => pages'[j] = pages[j]
    BY <1>3, <1>4, <2>1 DEF Page, Loaded
  <2>4. TypeOK'
    BY <1>4, <2>1, <2>2, <2>3 DEF TypeOK, MaxHeld
  <2>5. OneSlotPerPage'
    BY <1>1, <2>3 DEF OneSlotPerPage, IInv, Caching
  <2>6. LatestGetCurrent'
    BY <2>2, <2>3 DEF LatestGetCurrent, LastHeld
  <2>7. LoadedStays'
    BY <1>3, <1>5, <2>2, <2>3 DEF LoadedStays, IInv
  <2>8. PinsExact'
    <3>1. pages'[i].pin_count =
            IF \E k \in DOMAIN held' : held'[k].loaded /\ held'[k].slot = i THEN 1 ELSE 0
      BY <2>2, <2>3
    <3>2. ASSUME NEW j \in Slots, j # i
          PROVE  pages'[j].pin_count =
                   IF \E k \in DOMAIN held' : held'[k].loaded /\ held'[k].slot = j
                     THEN 1 ELSE 0
      BY <2>2, <2>3, <3>2 DEF PinsExact, IInv
    <3> QED
      BY <3>1, <3>2 DEF PinsExact
  <2>9. NeverExhausted'
    BY <2>1 DEF NeverExhausted
  <2>10. HandlesDistinct' /\ AskedInOrder'
    BY <1>1, <1>3, <2>1, HandOutOrder
  <2>11. InnerIsLatest'
    <3>1. ASSUME n = 2 PROVE held'[2].slot = i /\ held'[2].page = p
      BY <2>2, <3>1
    <3>2. asked'[p] = clock' /\ clock' > 0
      BY <1>4, <2>1, <2>2
    <3> QED
      BY <2>3, <3>1, <3>2 DEF InnerIsLatest
  <2> QED
    BY <2>4, <2>5, <2>6, <2>7, <2>8, <2>9, <2>10, <2>11 DEF IInv
<1> QED
  BY <1>6, <1>7

LEMMA ReleaseKeepsIInv ==
  ASSUME IInv, Release
  PROVE  IInv'
<1> DEFINE n == Len(held)
           s == LastHeld.slot
<1>1. /\ pages \in [Slots -> Page] /\ clock \in Nat /\ exit = "no" /\ exit' = exit
      /\ held \in Seq(Handle) /\ held # <<>> /\ n \in 1 .. 2 /\ n \in DOMAIN held
      /\ LastHeld = held[n]
  <2>1. held # <<>>
    BY DEF Release
  <2>2. held \in Seq(Handle) /\ Len(held) <= 2
    BY DEF IInv, TypeOK, MaxHeld
  <2>3. Len(held) \in Nat \ {0}
    BY <2>1, <2>2, EmptySeq, Zenon
  <2>4. Len(held) \in 1 .. 2
    <3> DEFINE m == Len(held)
    <3>1. m \in Nat \ {0} /\ m <= 2
      BY <2>2, <2>3
    <3> HIDE DEF m
    <3>2. m \in 1 .. 2
      BY <3>1
    <3> QED
      BY <3>2 DEF m
  <2>5. DOMAIN held = 1 .. Len(held)
    BY <2>2
  <2> QED
    BY <2>1, <2>2, <2>4, <2>5 DEF IInv, TypeOK, Release, LastHeld
<1>2. /\ s \in Slots /\ LastHeld.page \in Pages
      /\ \A k \in DOMAIN held : held[k].slot \in Slots
  BY <1>1, HeldTypes DEF IInv
<1>3. /\ held' \in Seq(Handle) /\ Len(held') = n - 1
      /\ DOMAIN held' = DOMAIN held \ {n}
      /\ \A k \in DOMAIN held' : held'[k] = held[k]
      /\ clock' = clock /\ asked' = asked
  <2>1. held' = SubSeq(held, 1, n - 1) /\ clock' = clock /\ asked' = asked
    BY DEF Release
  <2>2. DOMAIN held = 1 .. n /\ n - 1 \in 0 .. 1
    BY <1>1
  <2>3. held' \in Seq(Handle) /\ Len(held') = n - 1 /\ DOMAIN held' = 1 .. n - 1
    BY <1>1, <2>1, <2>2
  <2>4. \A k \in 1 .. n - 1 : held'[k] = held[k]
    BY <1>1, <2>1, <2>2
  <2> QED
    BY <1>1, <2>1, <2>2, <2>3, <2>4
<1>4. pages' = [pages EXCEPT ![s].pin_count = Unpinned(@)]
  BY DEF Release
<1>5. /\ pages' \in [Slots -> Page]
      /\ \A j \in Slots :
           /\ pages'[j].valid = pages[j].valid
           /\ pages'[j].data = pages[j].data
           /\ pages'[j].page_no = pages[j].page_no
           /\ j # s => pages'[j].pin_count = pages[j].pin_count
      /\ pages'[s].pin_count = Unpinned(pages[s].pin_count)
  <2>1. pages[s] \in Page
    BY <1>1, <1>2
  <2>2. Unpinned(pages[s].pin_count) \in Nat
    BY <2>1 DEF Page, Unpinned
  <2> QED
    BY <1>1, <1>2, <1>4, <2>1, <2>2 DEF Page
<1>6. TypeOK'
  BY <1>1, <1>3, <1>5 DEF TypeOK, MaxHeld, IInv
<1>7. OneSlotPerPage'
  BY <1>5 DEF OneSlotPerPage, IInv
<1>8. LoadedStays'
  BY <1>2, <1>3, <1>5 DEF LoadedStays, IInv
\* The handle that is left, if any, is not the one got last.
<1>9. LatestGetCurrent'
  <2> SUFFICES ASSUME held' # <<>>, asked'[LastHeld'.page] = clock'
               PROVE  FALSE
    BY DEF LatestGetCurrent
  <2>1. n = 2 /\ LastHeld' = held[1] /\ 1 \in DOMAIN held
    BY <1>1, <1>3 DEF LastHeld
  <2>2. asked[held[1].page] = clock /\ asked[held[2].page] = clock /\ clock > 0
    BY <1>1, <1>3, <2>1 DEF IInv, InnerIsLatest
  <2>3. held[1].page \in Pages /\ held[2].page \in Pages
    BY <1>1, <2>1, HeldTypes DEF IInv
  <2>4. held[1].page = held[2].page
    BY <2>2, <2>3 DEF IInv, AskedInOrder
  <2> QED
    BY <1>1, <2>1, <2>4 DEF IInv, HandlesDistinct
\* No other handle is pinned in the slot given back.
<1>10. ASSUME NEW k \in DOMAIN held, k # n, held[k].loaded
       PROVE  held[k].slot # s
  <2>1. n = 2 /\ k = 1
    BY <1>1, <1>10
  <2>2. pages[s].valid /\ pages[s].data = held[n].page
    BY <1>1, <2>1 DEF IInv, InnerIsLatest
  <2>3. pages[held[k].slot].data = held[k].page
    BY <1>10 DEF IInv, LoadedStays
  <2>4. held[k].page # held[n].page
    BY <1>1, <1>10 DEF IInv, HandlesDistinct
  <2> QED
    BY <2>2, <2>3, <2>4
<1>11. PinsExact'
  <2>1. PinsExact
    BY DEF IInv
  <2>2. pages'[s].pin_count = 0
    BY <1>2, <1>5, <2>1 DEF PinsExact, Unpinned
  <2>3. \A k \in DOMAIN held' : held'[k].loaded => held'[k].slot # s
    BY <1>3, <1>10
  <2>4. ASSUME NEW j \in Slots, j # s
        PROVE  pages'[j].pin_count =
                 IF \E k \in DOMAIN held' : held'[k].loaded /\ held'[k].slot = j
                   THEN 1 ELSE 0
    <3>1. pages'[j].pin_count = pages[j].pin_count
      BY <1>5, <2>4
    <3>2. (\E k \in DOMAIN held' : held'[k].loaded /\ held'[k].slot = j)
            <=> (\E k \in DOMAIN held : held[k].loaded /\ held[k].slot = j)
      BY <1>1, <1>3, <2>4
    <3> QED
      BY <2>1, <3>1, <3>2 DEF PinsExact
  <2> QED
    BY <1>2, <2>2, <2>3, <2>4 DEF PinsExact
<1>12. NeverExhausted'
  BY <1>1 DEF NeverExhausted
<1>13. HandlesDistinct' /\ AskedInOrder'
  BY <1>3 DEF HandlesDistinct, AskedInOrder, IInv
<1>14. InnerIsLatest'
  BY <1>1, <1>3 DEF InnerIsLatest
<1> QED
  BY <1>6, <1>7, <1>8, <1>9, <1>11, <1>12, <1>13, <1>14 DEF IInv

LEMMA StepKeepsIInv == IInv /\ [Next]_vars => IInv'
<1> SUFFICES ASSUME IInv, [Next]_vars PROVE IInv'
  OBVIOUS
<1>1. CASE Release
  BY <1>1, ReleaseKeepsIInv
<1>2. ASSUME NEW p \in Pages, CallerGets(p) PROVE IInv'
  <2>1. Hit(p) \/ Miss(p)
    BY <1>2 DEF CallerGets, GetPage
  <2> QED
    BY <1>2, <2>1, HitKeepsIInv, MissKeepsIInv
<1>3. CASE UNCHANGED vars
  BY <1>3 DEF vars, IInv, TypeOK, OneSlotPerPage, LatestGetCurrent, LoadedStays, PinsExact,
              NeverExhausted, HandlesDistinct, AskedInOrder, InnerIsLatest, LastHeld
<1> QED
  BY <1>1, <1>2, <1>3 DEF Next

\* The whole invariant holds in every reachable state.
THEOREM PagerInvariant == Spec => []IInv
<1>1. Init => IInv
  BY InitIInv
<1>2. IInv /\ [Next]_vars => IInv'
  BY StepKeepsIInv
<1> QED
  BY <1>1, <1>2, PTL DEF Spec
-----------------------------------------------------------------------------
\* Every variable of the cache keeps its type; at most two pages are held.
THEOREM TypeCorrect == Spec => []TypeOK
<1>1. IInv => TypeOK
  BY DEF IInv
<1> QED
  BY <1>1, PagerInvariant, PTL

\* get_page may stop at the first slot that matches: no page has two slots, and a
\* slot's page number tells what its buffer holds.
THEOREM UniqueResidence == Spec => []OneSlotPerPage
<1>1. IInv => OneSlotPerPage
  BY DEF IInv
<1> QED
  BY <1>1, PagerInvariant, PTL

\* What get_page returned can be read until get_page is called again.
THEOREM LatestGetIsCurrent == Spec => []LatestGetCurrent
<1>1. IInv => LatestGetCurrent
  BY DEF IInv
<1> QED
  BY <1>1, PagerInvariant, PTL

\* The pin of a load keeps its page in the cache until it is released.
THEOREM LoadedPagesStay == Spec => []LoadedStays
<1>1. IInv => LoadedStays
  BY DEF IInv
<1> QED
  BY <1>1, PagerInvariant, PTL

\* Pins and outstanding loads correspond: none leaks, none is dropped early.
THEOREM PinsAreExact == Spec => []PinsExact
<1>1. IInv => PinsExact
  BY DEF IInv
<1> QED
  BY <1>1, PagerInvariant, PTL

\* The exit of find_suitable_cache_index is unreachable.
THEOREM CacheNeverExhausted == Spec => []NeverExhausted
<1>1. IInv => NeverExhausted
  BY DEF IInv
<1> QED
  BY <1>1, PagerInvariant, PTL
-----------------------------------------------------------------------------
(***************************************************************************)
(* Which pages are cached.  The count in RecentPagesCached is not a step's *)
(* own business: what every step keeps is that, of a page that was asked   *)
(* for and is in no slot any more, all slots but one hold pages asked for  *)
(* after it.  The one slot is that of a page which was pinned when the     *)
(* page was evicted.                                                       *)
(***************************************************************************)

\* A slot's time stamp is the time its page was last asked for.
StampsExact ==
  \A i \in Slots :
    pages[i].valid => /\ pages[i].page_no \in Pages
                      /\ asked[pages[i].page_no] = pages[i].last_used + 1

\* Slot j holds a page asked for after p.
Later(j, p) == pages[j].valid /\ asked[pages[j].page_no] > asked[p]

LaterButFor(s, p) == \A j \in Slots : j # s => Later(j, p)

LeastRecentlyUsed ==
  exit = "no" =>
    \A p \in Pages : asked[p] > 0 /\ Caching(p) = {} => \E s \in Slots : LaterButFor(s, p)

CacheInv == IInv /\ StampsExact /\ LeastRecentlyUsed

\* What the step is given of an outstanding call, and of the page asked for now.
LEMMA AskedTypes ==
  ASSUME TypeOK, AskedInOrder, NEW p \in Pages
  PROVE  asked[p] \in Nat /\ clock \in Nat /\ asked[p] <= clock
BY DEF TypeOK, AskedInOrder

\* A get_page that loads or finds p in slot i keeps the other slots' pages and
\* makes p the page asked for last.
LEMMA LaterKept ==
  ASSUME IInv, StampsExact, NEW p \in Pages, NEW i \in Slots,
         clock' = clock + 1, asked' = [asked EXCEPT ![p] = clock + 1],
         pages'[i].valid, pages'[i].page_no = p,
         \A j \in Slots : j # i => /\ pages'[j].valid = pages[j].valid
                                  /\ pages'[j].page_no = pages[j].page_no,
         NEW q \in Pages, q # p, NEW s \in Slots, LaterButFor(s, q)
  PROVE  LaterButFor(s, q)'
<1> SUFFICES ASSUME NEW j \in Slots, j # s
             PROVE  pages'[j].valid /\ asked'[pages'[j].page_no] > asked'[q]
  BY DEF LaterButFor, Later
<1>1. TypeOK /\ AskedInOrder /\ asked \in [Pages -> Nat] /\ clock \in Nat
  BY DEF IInv, TypeOK
<1>2. /\ asked'[p] = clock + 1 /\ \A r \in Pages : r # p => asked'[r] = asked[r]
      /\ asked[q] \in Nat /\ asked[q] <= clock
  BY <1>1, AskedTypes
<1>3. CASE j = i
  BY <1>1, <1>2, <1>3
<1>4. CASE j # i
  <2>1. pages[j].valid /\ asked[pages[j].page_no] > asked[q] /\ pages[j].page_no \in Pages
    BY DEF LaterButFor, Later, StampsExact
  <2>2. pages'[j].valid /\ pages'[j].page_no = pages[j].page_no
    BY <1>4, <2>1
  <2>3. CASE pages[j].page_no = p
    BY <1>1, <1>2, <2>2, <2>3
  <2>4. CASE pages[j].page_no # p
    BY <1>2, <2>1, <2>2, <2>4
  <2> QED
    BY <2>3, <2>4
<1> QED
  BY <1>3, <1>4

\* The victim of an eviction was used longest ago of the slots not pinned, and at
\* most one is: every other slot holds a page asked for after the victim's.
LEMMA VictimIsOldest ==
  ASSUME IInv, StampsExact, Len(held) < MaxHeld, NEW i \in Suitable, pages[i].valid
  PROVE  \E s \in Slots : \A j \in Slots : j # s /\ j # i => Later(j, pages[i].page_no)
<1>1. Free = {} /\ i \in Evictable /\ \A j \in Evictable : pages[i].last_used <= pages[j].last_used
  <2>1. i \notin Free
    BY DEF Free
  <2>2. Free = {} /\ i \in Evictable
        /\ \A j \in Evictable : pages[i].last_used < pages[j].last_used
                               \/ pages[i].last_used = pages[j].last_used
    BY <2>1 DEF Suitable
  <2>3. \A j \in Slots : pages[j].last_used \in Nat
    BY DEF IInv, TypeOK, Page
  <2> QED
    BY <2>2, <2>3 DEF Evictable
<1>2. \A j \in Slots : pages[j].valid
  BY <1>1 DEF Free
<1>3. i \in Slots
  BY <1>1 DEF Evictable
<1>4. ASSUME NEW j \in Evictable, j # i
      PROVE  Later(j, pages[i].page_no)
  <2>1. j \in Slots /\ pages[i].last_used <= pages[j].last_used
    BY <1>1 DEF Evictable
  <2>2. /\ pages[i].last_used \in Nat /\ pages[j].last_used \in Nat
        /\ pages[i].page_no \in Pages /\ pages[j].page_no \in Pages
        /\ asked[pages[i].page_no] = pages[i].last_used + 1
        /\ asked[pages[j].page_no] = pages[j].last_used + 1
    BY <1>2, <1>3, <2>1 DEF StampsExact, IInv, TypeOK, Page
  <2>3. pages[i].page_no # pages[j].page_no
    BY <1>2, <1>3, <1>4, <2>1 DEF IInv, OneSlotPerPage
  <2>4. asked[pages[i].page_no] # asked[pages[j].page_no]
    BY <2>2, <2>3 DEF IInv, AskedInOrder
  <2> QED
    BY <1>2, <2>1, <2>2, <2>4 DEF Later
<1>5. \A j, k \in Slots : j \notin Evictable /\ k \notin Evictable => j = k
  <2>1. \A j \in Slots : j \notin Evictable => \E k \in DOMAIN held : held[k].slot = j
    BY <1>2 DEF Evictable, IInv, PinsExact
  <2>2. \A k, l \in DOMAIN held : k = l
    BY DEF IInv, TypeOK, MaxHeld
  <2> QED
    BY <2>1, <2>2
<1>6. CASE \E s \in Slots : s \notin Evictable
  BY <1>4, <1>5, <1>6
<1>7. CASE \A s \in Slots : s \in Evictable
  BY <1>3, <1>4, <1>7
<1> QED
  BY <1>6, <1>7

LEMMA HitKeepsRecent ==
  ASSUME CacheInv, NEW p \in Pages, CallerGets(p), Hit(p)
  PROVE  StampsExact' /\ LeastRecentlyUsed'
<1>1. PICK i \in Caching(p) :
        /\ pages' = [pages EXCEPT ![i].last_used = clock]
        /\ clock' = clock + 1
        /\ asked' = [asked EXCEPT ![p] = clock + 1]
        /\ exit' = exit
  BY DEF Hit, Stamped, HandOut
<1>2. /\ i \in Slots /\ pages[i].valid /\ pages[i].page_no = p /\ exit = "no"
      /\ IInv /\ pages \in [Slots -> Page] /\ asked \in [Pages -> Nat] /\ clock \in Nat
  BY DEF Caching, CallerGets, GetPage, CacheInv, IInv, TypeOK
<1>3. /\ pages'[i].valid /\ pages'[i].page_no = p /\ pages'[i].last_used = clock
      /\ \A j \in Slots : j # i => pages'[j] = pages[j]
      /\ asked'[p] = clock + 1 /\ \A q \in Pages : q # p => asked'[q] = asked[q]
  BY <1>1, <1>2 DEF Page
<1>4. StampsExact'
  <2> SUFFICES ASSUME NEW j \in Slots, pages'[j].valid
               PROVE  /\ pages'[j].page_no \in Pages
                      /\ asked'[pages'[j].page_no] = pages'[j].last_used + 1
    BY DEF StampsExact
  <2>1. CASE j = i
    BY <1>3, <2>1
  <2>2. CASE j # i
    <3>1. pages'[j] = pages[j] /\ pages[j].page_no # p
      BY <1>2, <1>3, <2>2 DEF IInv, OneSlotPerPage
    <3> QED
      BY <1>3, <3>1 DEF CacheInv, StampsExact
  <2> QED
    BY <2>1, <2>2
<1>5. LeastRecentlyUsed'
  <2> SUFFICES ASSUME NEW q \in Pages, asked'[q] > 0, Caching(q)' = {}
               PROVE  \E s \in Slots : LaterButFor(s, q)'
    BY DEF LeastRecentlyUsed
  <2>1. q # p
    BY <1>2, <1>3 DEF Caching
  <2>2. Caching(q) = {} /\ asked[q] > 0
    <3>1. \A j \in Slots : pages'[j].valid = pages[j].valid /\ pages'[j].page_no = pages[j].page_no
      BY <1>1, <1>2 DEF Page
    <3> QED
      BY <1>3, <2>1, <3>1 DEF Caching
  <2>3. PICK s \in Slots : LaterButFor(s, q)
    BY <1>2, <2>2 DEF CacheInv, LeastRecentlyUsed
  <2>4. LaterButFor(s, q)'
    BY <1>1, <1>2, <1>3, <2>1, <2>3, LaterKept DEF CacheInv
  <2> QED
    BY <2>4
<1> QED
  BY <1>4, <1>5

LEMMA MissKeepsRecent ==
  ASSUME CacheInv, NEW p \in Pages, CallerGets(p), Miss(p)
  PROVE  StampsExact' /\ LeastRecentlyUsed'
<1>1. Caching(p) = {} /\ exit = "no" /\ Len(held) < MaxHeld /\ IInv
  BY DEF Miss, CallerGets, GetPage, CacheInv
<1>2. PICK i \in Suitable :
        IF p \in Readable
          THEN /\ pages' = [pages EXCEPT ![i] = Loaded(i, p)]
               /\ clock' = clock + 1
               /\ HandOut(i, p, TRUE)
               /\ exit' = exit
          ELSE /\ pages' = [pages EXCEPT ![i].valid = FALSE]
               /\ exit' = "unreadable"
               /\ UNCHANGED <<clock, held, asked>>
  BY <1>1, SomeSlotSuitable DEF Miss
<1>3. /\ i \in Slots /\ pages \in [Slots -> Page] /\ asked \in [Pages -> Nat] /\ clock \in Nat
  BY <1>1, SuitableUnheld DEF IInv, TypeOK
<1>4. CASE p \notin Readable
  <2>1. /\ pages' = [pages EXCEPT ![i].valid = FALSE] /\ exit' = "unreadable"
        /\ asked' = asked
    BY <1>2, <1>4
  <2>2. \A j \in Slots : /\ pages'[j].valid => pages[j].valid
                         /\ pages'[j].page_no = pages[j].page_no
                         /\ pages'[j].last_used = pages[j].last_used
    BY <1>3, <2>1 DEF Page
  <2> QED
    BY <2>1, <2>2 DEF CacheInv, StampsExact, LeastRecentlyUsed
<1>5. CASE p \in Readable
  <2>1. /\ pages' = [pages EXCEPT ![i] = Loaded(i, p)] /\ clock' = clock + 1
        /\ asked' = [asked EXCEPT ![p] = clock + 1]
    BY <1>2, <1>5 DEF HandOut
  <2>2. /\ pages'[i].valid /\ pages'[i].page_no = p /\ pages'[i].last_used = clock
        /\ \A j \in Slots : j # i => pages'[j] = pages[j]
        /\ asked'[p] = clock + 1 /\ \A q \in Pages : q # p => asked'[q] = asked[q]
    BY <1>3, <2>1 DEF Loaded
  <2>3. StampsExact'
    <3> SUFFICES ASSUME NEW j \in Slots, pages'[j].valid
                 PROVE  /\ pages'[j].page_no \in Pages
                        /\ asked'[pages'[j].page_no] = pages'[j].last_used + 1
      BY DEF StampsExact
    <3>1. CASE j = i
      BY <2>2, <3>1
    <3>2. CASE j # i
      <4>1. pages'[j] = pages[j] /\ pages[j].page_no # p
        BY <1>1, <2>2, <3>2 DEF Caching
      <4> QED
        BY <2>2, <4>1 DEF CacheInv, StampsExact
    <3> QED
      BY <3>1, <3>2
  <2>4. ASSUME NEW q \in Pages, asked'[q] > 0, Caching(q)' = {}
        PROVE  \E s \in Slots : LaterButFor(s, q)'
    <3>1. q # p
      BY <1>3, <2>2, <2>4 DEF Caching
    <3>2. asked[q] > 0
      BY <2>2, <2>4, <3>1
    <3>3. CASE Caching(q) = {}
      <4>1. PICK s \in Slots : LaterButFor(s, q)
        BY <1>1, <3>2, <3>3 DEF CacheInv, LeastRecentlyUsed
      <4>2. LaterButFor(s, q)'
        BY <1>1, <1>3, <2>1, <2>2, <3>1, <4>1, LaterKept DEF CacheInv
      <4> QED
        BY <4>2
    <3>4. CASE Caching(q) # {}
      <4>1. pages[i].valid /\ pages[i].page_no = q
        BY <2>2, <2>4, <3>4 DEF Caching
      <4>2. PICK s \in Slots : \A j \in Slots : j # s /\ j # i => Later(j, q)
        BY <1>1, <4>1, VictimIsOldest DEF CacheInv
      <4>3. ASSUME NEW j \in Slots, j # s PROVE Later(j, q)'
        <5>1. asked[q] \in Nat /\ asked[q] <= clock /\ asked'[q] = asked[q]
          BY <1>1, <2>2, <3>1, AskedTypes DEF IInv
        <5>2. CASE j = i
          BY <1>3, <2>2, <5>1, <5>2 DEF Later
        <5>3. CASE j # i
          <6>1. pages[j].valid /\ asked[pages[j].page_no] > asked[q]
                /\ pages[j].page_no \in Pages /\ pages[j].page_no # p
            BY <1>1, <4>2, <4>3, <5>3 DEF Later, CacheInv, StampsExact, Caching
          <6> QED
            BY <2>2, <5>1, <5>3, <6>1 DEF Later
        <5> QED
          BY <5>2, <5>3
      <4> QED
        BY <4>3 DEF LaterButFor
    <3> QED
      BY <3>3, <3>4
  <2> QED
    BY <2>3, <2>4 DEF LeastRecentlyUsed
<1> QED
  BY <1>4, <1>5

LEMMA ReleaseKeepsRecent ==
  ASSUME CacheInv, Release
  PROVE  StampsExact' /\ LeastRecentlyUsed'
<1>1. /\ pages' = [pages EXCEPT ![LastHeld.slot].pin_count = Unpinned(@)]
      /\ asked' = asked /\ exit' = exit /\ pages \in [Slots -> Page]
  BY DEF Release, CacheInv, IInv, TypeOK
<1>2. \A j \in Slots : /\ pages'[j].valid = pages[j].valid
                       /\ pages'[j].page_no = pages[j].page_no
                       /\ pages'[j].last_used = pages[j].last_used
  BY <1>1 DEF Page
<1>3. StampsExact'
  BY <1>1, <1>2 DEF CacheInv, StampsExact
<1>4. \A p \in Pages : Caching(p)' = Caching(p)
  BY <1>2 DEF Caching
<1>5. \A p \in Pages, s \in Slots : LaterButFor(s, p) => LaterButFor(s, p)'
  BY <1>1, <1>2 DEF LaterButFor, Later
<1>6. LeastRecentlyUsed'
  BY <1>1, <1>4, <1>5 DEF CacheInv, LeastRecentlyUsed
<1> QED
  BY <1>3, <1>6

LEMMA InitCacheInv == Init => CacheInv
<1> SUFFICES ASSUME Init PROVE CacheInv
  OBVIOUS
<1>1. StampsExact /\ LeastRecentlyUsed
  BY DEF Init, StampsExact, LeastRecentlyUsed
<1> QED
  BY <1>1, InitIInv DEF CacheInv

LEMMA StepKeepsCacheInv == CacheInv /\ [Next]_vars => CacheInv'
<1> SUFFICES ASSUME CacheInv, [Next]_vars PROVE CacheInv'
  OBVIOUS
<1>1. IInv'
  BY StepKeepsIInv DEF CacheInv
<1>2. CASE Release
  BY <1>1, <1>2, ReleaseKeepsRecent DEF CacheInv
<1>3. ASSUME NEW p \in Pages, CallerGets(p) PROVE CacheInv'
  <2>1. Hit(p) \/ Miss(p)
    BY <1>3 DEF CallerGets, GetPage
  <2> QED
    BY <1>1, <1>3, <2>1, HitKeepsRecent, MissKeepsRecent DEF CacheInv
<1>4. CASE UNCHANGED vars
  BY <1>1, <1>4 DEF CacheInv, vars, StampsExact, LeastRecentlyUsed, Caching, LaterButFor, Later
<1> QED
  BY <1>2, <1>3, <1>4 DEF Next

\* Finitely many pages were ever asked for: no two at the same time.
LEMMA LaterPagesFinite ==
  ASSUME IInv, NEW p \in Pages
  PROVE  IsFiniteSet({q \in Pages : asked[q] > asked[p]})
<1> DEFINE Q == {q \in Pages : asked[q] > asked[p]}
           f == [q \in Q |-> asked[q]]
<1>1. \A q \in Pages : asked[q] \in Nat /\ clock \in Nat /\ asked[q] <= clock
  BY AskedTypes DEF IInv
<1>2. f \in [Q -> 0 .. clock]
  BY <1>1
<1>3. \A q, r \in Q : f[q] = f[r] => q = r
  BY <1>1 DEF IInv, AskedInOrder
<1>4. f \in Injection(Q, 0 .. clock)
  BY <1>2, <1>3 DEF Injection, IsInjective
<1>5. IsFiniteSet(0 .. clock)
  BY <1>1, FS_Interval
<1> QED
  BY <1>4, <1>5, FS_Injection

LEMMA CountOfSlots ==
  ASSUME NEW s \in Slots
  PROVE  IsFiniteSet(Slots \ {s}) /\ Cardinality(Slots \ {s}) = cache_capacity - 1
<1>1. IsFiniteSet(Slots) /\ Cardinality(Slots) = cache_capacity
  <2>1. 0 \in Int /\ cache_capacity - 1 \in Int /\ ~(0 > cache_capacity - 1)
        /\ cache_capacity - 1 - 0 + 1 = cache_capacity
    BY TwoSlots
  <2>2. /\ IsFiniteSet(0 .. cache_capacity - 1)
        /\ Cardinality(0 .. cache_capacity - 1) =
             IF 0 > cache_capacity - 1 THEN 0 ELSE cache_capacity - 1 - 0 + 1
    BY <2>1, FS_Interval
  <2> QED
    BY <2>1, <2>2 DEF Slots
<1> QED
  BY <1>1, FS_RemoveElement

\* The slots but one hold as many pages, all asked for later.
LEMMA RecentFromCacheInv == CacheInv => RecentPagesCached
<1> SUFFICES ASSUME CacheInv, exit = "no", NEW p \in Pages, asked[p] > 0, Caching(p) = {}
             PROVE  Cardinality({q \in Pages : asked[q] > asked[p]}) >= cache_capacity - 1
  BY DEF RecentPagesCached
<1>1. PICK s \in Slots : LaterButFor(s, p)
  BY DEF CacheInv, LeastRecentlyUsed
<1> DEFINE Q == {q \in Pages : asked[q] > asked[p]}
           S == Slots \ {s}
           f == [j \in S |-> pages[j].page_no]
<1>2. \A j \in S : pages[j].valid /\ pages[j].page_no \in Q
  BY <1>1 DEF LaterButFor, Later, CacheInv, StampsExact
<1>3. f \in [S -> Q]
  BY <1>2
<1>4. \A i, j \in S : f[i] = f[j] => i = j
  BY <1>2 DEF CacheInv, IInv, OneSlotPerPage
<1>5. f \in Injection(S, Q)
  BY <1>3, <1>4 DEF Injection, IsInjective
<1>6. IsFiniteSet(Q)
  BY LaterPagesFinite DEF CacheInv
<1> HIDE DEF Q, f
<1>7. Cardinality(S) <= Cardinality(Q)
  BY <1>5, <1>6, FS_Injection
<1>8. Cardinality(Q) \in Nat
  BY <1>6, FS_CardinalityType
<1> QED
  BY <1>7, <1>8, CountOfSlots, TwoSlots DEF Q

\* The cache keeps the pages used last: a page is missing from it only when at
\* least cache_capacity - 1 other pages were asked for since.
THEOREM RecentPagesStay == Spec => []RecentPagesCached
<1>1. Spec => []CacheInv
  BY InitCacheInv, StepKeepsCacheInv, PTL DEF Spec
<1> QED
  BY <1>1, RecentFromCacheInv, PTL
=============================================================================
