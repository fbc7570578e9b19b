----------------------------- MODULE PageProofs ------------------------------
(***************************************************************************)
(* Proofs about what a page is given, for every value of the constants:    *)
(* WindowIsCurrent of the window's location, history and media queries,    *)
(* HandlesAreStable of the handles its scripts name nodes by,              *)
(* ScriptsAreAccountedFor of the engine that runs them, and PageIsAnswered *)
(* of the requests, promises, images and messages of its scripts.          *)
(*                                                                         *)
(* The window.  The invariant says in addition that every list the page    *)
(* holds is one matchMedia still refers to, so that the snapshot of a      *)
(* notification misses none; and that while a notification runs each of    *)
(* them is either current or still to come, whatever an earlier            *)
(* notification left undone.                                               *)
(***************************************************************************)
EXTENDS WindowState, ScriptHost, ScriptEngine, PageRequests, Positions, FiniteSetTheorems, SequenceTheorems, TLAPS

MediaList(l) == lists[l].matched = MediaMatches(lists[l].query, viewport)
HistoryInv ==
  /\ loadedUrl \in HistoryUrls
  /\ historyEntries \in Seq(HistoryUrls \cup {NoHref}) /\ historyIndex \in 1..Len(historyEntries)
  /\ override \in HistoryUrls \cup {NoHref} /\ byHistory \in BOOLEAN
  /\ LocationIsTheEntrys
ListsType ==
  /\ lists \in Seq([query : MediaTexts, matched : BOOLEAN, held : BOOLEAN])
  /\ mediaLists \subseteq DOMAIN lists /\ toNotify \subseteq DOMAIN lists
  /\ notifying \in BOOLEAN /\ incomplete \in BOOLEAN
ListsAreKept == \A l \in DOMAIN lists : Alive(l) => l \in mediaLists
ListsAreTold ==
  \A l \in DOMAIN lists :
    Alive(l) => MediaList(l) \/ (notifying /\ l \in toNotify) \/ (~notifying /\ incomplete)
ListsInv == ListsType /\ ListsAreKept /\ ListsAreTold
WindowInv == HistoryInv /\ ListsInv

-----------------------------------------------------------------------------
(* The page's first state satisfies the invariant.                         *)
LEMMA WindowStarts == WindowInit => WindowInv
<1> SUFFICES ASSUME WindowInit PROVE WindowInv
  OBVIOUS
<1> USE DEF WindowInit
<1>1. HistoryInv
  <2>1. historyEntries \in Seq(HistoryUrls \cup {NoHref}) /\ historyIndex \in 1..Len(historyEntries)
    OBVIOUS
  <2>2. LocationIsTheEntrys
    BY DEF LocationIsTheEntrys
  <2> QED BY <2>1, <2>2 DEF HistoryInv
<1>2. lists = <<>> /\ DOMAIN lists = {}
  OBVIOUS
<1>3. ListsInv
  <2>1. ListsType
    <3> DEFINE Rec == [query : MediaTexts, matched : BOOLEAN, held : BOOLEAN]
    <3> HIDE DEF Rec
    <3>1. lists \in Seq(Rec)
      BY <1>2
    <3> QED BY <1>2, <3>1 DEF ListsType, Rec
  <2> QED BY <1>2, <2>1 DEF ListsInv, ListsAreKept, ListsAreTold
<1> QED BY <1>1, <1>3 DEF WindowInv

(* Location and history: one step per operation.                           *)
LEMMA HrefIsAUrl == HistoryInv => CurrentHref \in HistoryUrls
BY WindowStateConstants DEF HistoryInv, CurrentHref

LEMMA NavigationKeeps ==
  ASSUME NEW url, HistoryInv, url \in HistoryUrls, NavigateTo(url) PROVE HistoryInv'
BY DEF HistoryInv, NavigateTo, LocationIsTheEntrys

LEMMA PushKeeps ==
  ASSUME NEW url \in HistoryUrls \cup {NoHref, ScriptUrl}, NEW given \in BOOLEAN, HistoryInv, PushState(url, given)
  PROVE  HistoryInv'
<1> DEFINE kept == SubSeq(historyEntries, 1, historyIndex)
           next == NextUrl(url, given)
<1>1. CurrentHref \in HistoryUrls
  BY HrefIsAUrl
<1>2. historyIndex \in Nat /\ historyIndex >= 1 /\ historyIndex <= Len(historyEntries) /\ historyEntries \in Seq(HistoryUrls \cup {NoHref})
  BY DEF HistoryInv
<1>3. kept \in Seq(HistoryUrls \cup {NoHref}) /\ Len(kept) = historyIndex /\ kept[historyIndex] = historyEntries[historyIndex]
  BY <1>2
<1>4. CASE next = ScriptUrl
  <2>1. loadedUrl' = loadedUrl /\ historyEntries' = kept /\ historyIndex' = historyIndex /\ override' = override /\ byHistory' = byHistory
    <3>1. ~(next # ScriptUrl)
      BY <1>4
    <3> QED BY <3>1 DEF PushState
  <2> HIDE DEF kept, next
  <2>2. CurrentHref' = CurrentHref
    BY <2>1 DEF CurrentHref
  <2>3. LocationIsTheEntrys'
    BY <2>1, <2>2, <1>2, <1>3 DEF LocationIsTheEntrys, HistoryInv
  <2> QED BY <2>1, <2>3, <1>2, <1>3 DEF HistoryInv
<1>5. CASE next # ScriptUrl
  <2>1. loadedUrl' = loadedUrl /\ historyEntries' = Append(kept, next) /\ historyIndex' = historyIndex + 1
        /\ override' = (IF given THEN url ELSE override) /\ byHistory' = TRUE
    BY <1>5 DEF PushState, Overrides
  <2>2. next \in HistoryUrls \cup {NoHref} /\ override' \in HistoryUrls \cup {NoHref}
    BY <1>1, <1>5, <2>1 DEF NextUrl, HistoryInv
  <2>3. next # NoHref => CurrentHref' = next
    BY <2>1 DEF NextUrl, CurrentHref
  <2> HIDE DEF kept, next
  <2>4. Len(historyEntries') = historyIndex + 1 /\ historyEntries'[historyIndex'] = next
        /\ historyEntries' \in Seq(HistoryUrls \cup {NoHref})
    BY <2>1, <2>2, <1>2, <1>3
  <2>5. historyIndex' \in 1..Len(historyEntries')
    BY <2>1, <2>4, <1>2
  <2>6. LocationIsTheEntrys'
    BY <2>3, <2>4, <2>5 DEF LocationIsTheEntrys
  <2> QED BY <2>1, <2>2, <2>4, <2>5, <2>6 DEF HistoryInv
<1> QED BY <1>4, <1>5

LEMMA ReplaceKeeps ==
  ASSUME NEW url \in HistoryUrls \cup {NoHref, ScriptUrl}, NEW given \in BOOLEAN, HistoryInv, ReplaceState(url, given)
  PROVE  HistoryInv'
<1> DEFINE next == NextUrl(url, given)
<1>1. CurrentHref \in HistoryUrls
  BY HrefIsAUrl
<1>2. loadedUrl' = loadedUrl /\ historyEntries' = [historyEntries EXCEPT ![historyIndex] = next] /\ historyIndex' = historyIndex
      /\ next # ScriptUrl /\ override' = (IF given THEN url ELSE override) /\ byHistory' = TRUE
  BY DEF ReplaceState, Overrides
<1>3. next \in HistoryUrls \cup {NoHref} /\ override' \in HistoryUrls \cup {NoHref}
  BY <1>1, <1>2 DEF NextUrl, HistoryInv
<1>4. next # NoHref => CurrentHref' = next
  BY <1>2 DEF NextUrl, CurrentHref
<1> HIDE DEF next
<1>5. historyEntries' \in Seq(HistoryUrls \cup {NoHref}) /\ historyIndex' \in 1..Len(historyEntries')
      /\ historyEntries'[historyIndex'] = next
  BY <1>2, <1>3 DEF HistoryInv
<1>6. LocationIsTheEntrys'
  BY <1>4, <1>5 DEF LocationIsTheEntrys
<1> QED BY <1>2, <1>3, <1>5, <1>6 DEF HistoryInv

(* A new document leaves the location where it was given one.              *)
LEMMA NewDocumentKeeps ==
  ASSUME NEW url \in HistoryUrls, HistoryInv, InstallDocument(url) PROVE HistoryInv'
<1>1. /\ loadedUrl' = url /\ byHistory' = (byHistory /\ override # NoHref)
      /\ historyEntries' = historyEntries /\ historyIndex' = historyIndex /\ override' = override
  BY DEF InstallDocument
<1>2. byHistory' \in BOOLEAN /\ (byHistory' => byHistory /\ override # NoHref)
  BY <1>1
<1>3. override # NoHref => CurrentHref' = CurrentHref
  BY <1>1 DEF CurrentHref
<1> QED BY <1>1, <1>2, <1>3 DEF HistoryInv, LocationIsTheEntrys

LEMMA GoKeeps == ASSUME NEW i, HistoryInv, GoTo(i) PROVE HistoryInv'
<1>1. loadedUrl' = loadedUrl /\ historyEntries' = historyEntries /\ historyIndex' = i /\ i \in 1..Len(historyEntries)
      /\ override' = LocationAt(historyEntries[i]) /\ byHistory' = TRUE
  BY DEF GoTo, HistoryInv
<1>2. historyEntries[i] \in HistoryUrls \cup {NoHref}
  BY <1>1 DEF HistoryInv
<1>3. override' \in HistoryUrls \cup {NoHref}
  BY <1>1, <1>2 DEF LocationAt, HistoryInv
<1>4. historyEntries[i] # NoHref => CurrentHref' = historyEntries[i]
  BY <1>1 DEF LocationAt, CurrentHref
<1> QED BY <1>1, <1>2, <1>3, <1>4 DEF HistoryInv, LocationIsTheEntrys

-----------------------------------------------------------------------------
(* The media query lists.  What a query matches is a truth value, and a    *)
(* list with a number past the last one is new.                            *)
LEMMA MatchesIsBoolean == \A query, v : MediaMatches(query, v) \in BOOLEAN
BY DEF MediaMatches

LEMMA MatchMediaKeeps ==
  ASSUME NEW query \in MediaTexts, ListsInv, MatchMedia(query) PROVE ListsInv'
<1> DEFINE left == {l \in mediaLists : Alive(l)}
           new == [query |-> query, matched |-> MediaMatches(query, viewport), held |-> TRUE]
           Rec == [query : MediaTexts, matched : BOOLEAN, held : BOOLEAN]
<1>1. viewport' = viewport /\ toNotify' = toNotify /\ notifying' = notifying /\ incomplete' = incomplete
  BY DEF MatchMedia
<1>2. \A l \in DOMAIN lists : Alive(l) => l \in left
  BY DEF ListsInv, ListsAreKept
<1>3. left \subseteq DOMAIN lists
  BY DEF ListsInv, ListsType
<1>4. CASE mediaLists' = left /\ lists' = lists
  <2>1. ListsType'
    BY <1>1, <1>3, <1>4 DEF ListsInv, ListsType
  <2>2. ListsAreKept'
    BY <1>2, <1>4 DEF ListsAreKept, Alive
  <2>3. ListsAreTold'
    BY <1>1, <1>4 DEF ListsInv, ListsAreTold, Alive, MediaList
  <2> QED BY <2>1, <2>2, <2>3 DEF ListsInv
<1>5. CASE lists' = Append(lists, new) /\ mediaLists' = left \cup {Len(lists) + 1}
  <2>1. new \in Rec /\ new.held = TRUE /\ new.query = query /\ new.matched = MediaMatches(query, viewport)
    BY MatchesIsBoolean
  <2>2. lists \in Seq(Rec)
    BY DEF ListsInv, ListsType
  <2> HIDE DEF new, Rec, left
  <2>3. /\ lists' \in Seq(Rec) /\ DOMAIN lists' = DOMAIN lists \cup {Len(lists) + 1}
        /\ \A l \in DOMAIN lists : lists'[l] = lists[l]
        /\ lists'[Len(lists) + 1] = new
    BY <1>5, <2>1, <2>2
  <2>4. ListsType'
    BY <1>1, <1>3, <1>5, <2>3 DEF ListsInv, ListsType, Rec
  <2>5. ListsAreKept'
    BY <1>2, <1>5, <2>3 DEF ListsAreKept, Alive
  <2>6. ASSUME NEW l \in DOMAIN lists', Alive(l)'
        PROVE  MediaList(l)' \/ (notifying' /\ l \in toNotify') \/ (~notifying' /\ incomplete')
    <3>1. CASE l \in DOMAIN lists
      BY <1>1, <2>3, <2>6, <3>1 DEF ListsInv, ListsAreTold, Alive, MediaList
    <3>2. CASE l = Len(lists) + 1
      BY <1>1, <2>1, <2>3, <3>2 DEF MediaList
    <3> QED BY <2>3, <3>1, <3>2
  <2>7. ListsAreTold'
    BY <2>6 DEF ListsAreTold
  <2> QED BY <2>4, <2>5, <2>7 DEF ListsInv
<1> QED BY <1>4, <1>5 DEF MatchMedia

LEMMA DropKeeps ==
  ASSUME NEW l \in DOMAIN lists, ListsInv, DropList(l) PROVE ListsInv'
<1> DEFINE Rec == [query : MediaTexts, matched : BOOLEAN, held : BOOLEAN]
           gone == [lists[l] EXCEPT !.held = FALSE]
<1>1. /\ viewport' = viewport /\ mediaLists' = mediaLists /\ toNotify' = toNotify
      /\ notifying' = notifying /\ incomplete' = incomplete /\ lists' = [lists EXCEPT ![l] = gone]
  BY DEF DropList
<1>2. lists \in Seq(Rec) /\ lists[l] \in Rec
  <2>1. lists \in Seq(Rec)
    BY DEF ListsInv, ListsType
  <2> HIDE DEF Rec
  <2> QED BY <2>1
<1>3. gone \in Rec /\ gone.held = FALSE
  BY <1>2
<1> HIDE DEF gone, Rec
<1>4. /\ lists' \in Seq(Rec) /\ DOMAIN lists' = DOMAIN lists /\ lists'[l].held = FALSE
      /\ \A k \in DOMAIN lists : k # l => lists'[k] = lists[k]
  BY <1>1, <1>2, <1>3
<1>5. ListsType'
  BY <1>1, <1>4 DEF ListsInv, ListsType, Rec
<1>6. ListsAreKept'
  BY <1>1, <1>4 DEF ListsInv, ListsAreKept, Alive
<1>7. ListsAreTold'
  BY <1>1, <1>4 DEF ListsInv, ListsAreTold, Alive, MediaList
<1> QED BY <1>5, <1>6, <1>7 DEF ListsInv

(* A viewport that changes makes every list it is known by one to come to. *)
LEMMA SetViewportKeeps ==
  ASSUME NEW v, ListsInv, SetViewport(v) PROVE ListsInv'
<1>1. ~notifying /\ viewport' = v /\ lists' = lists /\ mediaLists' = mediaLists /\ incomplete' = incomplete
  BY DEF SetViewport
<1>2. ListsAreKept'
  BY <1>1 DEF ListsInv, ListsAreKept, Alive
<1>3. CASE v = viewport
  <2>1. viewport' = viewport /\ toNotify' = toNotify /\ notifying' = notifying
    BY <1>1, <1>3 DEF SetViewport, SameSize
  <2>2. ListsType'
    BY <1>1, <2>1 DEF ListsInv, ListsType
  <2>3. ListsAreTold'
    BY <1>1, <2>1 DEF ListsInv, ListsAreTold, Alive, MediaList
  <2> QED BY <1>2, <2>2, <2>3 DEF ListsInv
<1>4. CASE v # viewport
  <2>1. toNotify' = mediaLists /\ notifying' = TRUE
    BY <1>4 DEF SetViewport, SameSize
  <2>2. ListsType'
    BY <1>1, <2>1 DEF ListsInv, ListsType
  <2>3. ListsAreTold'
    BY <1>1, <2>1 DEF ListsInv, ListsAreKept, ListsAreTold, Alive
  <2> QED BY <1>2, <2>2, <2>3 DEF ListsInv
<1> QED BY <1>3, <1>4

LEMMA NotifyKeeps ==
  ASSUME NEW l \in DOMAIN lists, ListsInv, NotifyList(l) PROVE ListsInv'
<1> DEFINE Rec == [query : MediaTexts, matched : BOOLEAN, held : BOOLEAN]
           told == [lists[l] EXCEPT !.matched = MediaMatches(lists[l].query, viewport)]
<1>1. /\ viewport' = viewport /\ mediaLists' = mediaLists /\ toNotify' = toNotify \ {l} /\ notifying
      /\ notifying' = notifying /\ incomplete' = incomplete
      /\ lists' = IF Alive(l) THEN [lists EXCEPT ![l] = told] ELSE lists
  BY DEF NotifyList
<1>2. lists \in Seq(Rec) /\ lists[l] \in Rec
  <2>1. lists \in Seq(Rec)
    BY DEF ListsInv, ListsType
  <2> HIDE DEF Rec
  <2> QED BY <2>1
<1>3. /\ told \in Rec /\ told.held = lists[l].held /\ told.query = lists[l].query
      /\ told.matched = MediaMatches(lists[l].query, viewport)
  BY <1>2, MatchesIsBoolean
<1> HIDE DEF told, Rec
<1>4. /\ lists' \in Seq(Rec) /\ DOMAIN lists' = DOMAIN lists
      /\ Alive(l) => lists'[l] = told
      /\ ~Alive(l) => lists'[l] = lists[l]
      /\ \A k \in DOMAIN lists : k # l => lists'[k] = lists[k]
  BY <1>1, <1>2, <1>3
<1>5. \A k \in DOMAIN lists : lists'[k].held = lists[k].held
  BY <1>3, <1>4
<1>6. ListsType'
  BY <1>1, <1>4 DEF ListsInv, ListsType, Rec
<1>7. ListsAreKept'
  BY <1>1, <1>4, <1>5 DEF ListsInv, ListsAreKept, Alive
<1>8. ASSUME NEW k \in DOMAIN lists', Alive(k)'
      PROVE  MediaList(k)' \/ (notifying' /\ k \in toNotify') \/ (~notifying' /\ incomplete')
  <2>1. Alive(k)
    BY <1>4, <1>5, <1>8 DEF Alive
  <2>2. CASE k = l
    BY <1>1, <1>3, <1>4, <2>1, <2>2 DEF MediaList
  <2>3. CASE k # l
    BY <1>1, <1>4, <2>1, <2>3 DEF ListsInv, ListsAreTold, MediaList
  <2> QED BY <2>2, <2>3
<1>9. ListsAreTold'
  BY <1>8 DEF ListsAreTold
<1> QED BY <1>6, <1>7, <1>9 DEF ListsInv

(* A notification that came to every list leaves all of them current.      *)
LEMMA EndKeeps == ASSUME ListsInv, NotificationEnds PROVE ListsInv'
<1>1. /\ notifying /\ viewport' = viewport /\ lists' = lists /\ mediaLists' = mediaLists
      /\ toNotify' = {} /\ notifying' = FALSE
      /\ (toNotify = {} /\ incomplete' = FALSE) \/ incomplete' = TRUE
  BY DEF NotificationEnds
<1>2. ListsType'
  BY <1>1 DEF ListsInv, ListsType
<1>3. ListsAreKept'
  BY <1>1 DEF ListsInv, ListsAreKept, Alive
<1>4. ListsAreTold'
  BY <1>1 DEF ListsInv, ListsAreTold, Alive, MediaList
<1> QED BY <1>2, <1>3, <1>4 DEF ListsInv

-----------------------------------------------------------------------------
(* Operations on the location leave the lists alone, and the other way     *)
(* round.                                                                  *)
LEMMA NavigationLeavesMedia == ListsInv /\ UNCHANGED Media => ListsInv'
BY DEF Media, ListsInv, ListsType, ListsAreKept, ListsAreTold, Alive, MediaList

LEMMA MediaLeavesNavigation == HistoryInv /\ UNCHANGED Navigation => HistoryInv'
BY DEF Navigation, HistoryInv, LocationIsTheEntrys, CurrentHref

LEMMA WindowStep == WindowInv /\ [WindowNext]_WindowVars => WindowInv'
<1> SUFFICES ASSUME WindowInv, [WindowNext]_WindowVars PROVE WindowInv'
  OBVIOUS
<1>0. HistoryInv /\ ListsInv
  BY DEF WindowInv
<1>1. ASSUME NEW url \in HistoryUrls \cup {NoHref, ScriptUrl}, NavigateTo(url) PROVE WindowInv'
  <2>1. url \in HistoryUrls /\ UNCHANGED Media
    BY <1>1 DEF NavigateTo
  <2> QED BY <1>0, <1>1, <2>1, NavigationKeeps, NavigationLeavesMedia DEF WindowInv
<1>2. ASSUME NEW url \in HistoryUrls \cup {NoHref, ScriptUrl}, NEW given \in BOOLEAN, PushState(url, given) PROVE WindowInv'
  <2>1. UNCHANGED Media
    BY <1>2 DEF PushState
  <2> QED BY <1>0, <1>2, <2>1, PushKeeps, NavigationLeavesMedia DEF WindowInv
<1>3. ASSUME NEW url \in HistoryUrls \cup {NoHref, ScriptUrl}, NEW given \in BOOLEAN, ReplaceState(url, given) PROVE WindowInv'
  <2>1. UNCHANGED Media
    BY <1>3 DEF ReplaceState
  <2> QED BY <1>0, <1>3, <2>1, ReplaceKeeps, NavigationLeavesMedia DEF WindowInv
<1>4. ASSUME NEW i, GoTo(i) PROVE WindowInv'
  <2>1. UNCHANGED Media
    BY <1>4 DEF GoTo
  <2> QED BY <1>0, <1>4, <2>1, GoKeeps, NavigationLeavesMedia DEF WindowInv
<1>5. ASSUME NEW query \in MediaTexts, MatchMedia(query) PROVE WindowInv'
  <2>1. UNCHANGED Navigation
    BY <1>5 DEF MatchMedia
  <2> QED BY <1>0, <1>5, <2>1, MatchMediaKeeps, MediaLeavesNavigation DEF WindowInv
<1>6. ASSUME NEW l \in DOMAIN lists, DropList(l) \/ NotifyList(l) PROVE WindowInv'
  <2>1. UNCHANGED Navigation
    BY <1>6 DEF DropList, NotifyList
  <2> QED BY <1>0, <1>6, <2>1, DropKeeps, NotifyKeeps, MediaLeavesNavigation DEF WindowInv
<1>7. ASSUME NEW v \in Sizes, SetViewport(v) PROVE WindowInv'
  <2>1. UNCHANGED Navigation
    BY <1>7 DEF SetViewport
  <2> QED BY <1>0, <1>7, <2>1, SetViewportKeeps, MediaLeavesNavigation DEF WindowInv
<1>8. CASE NotificationEnds
  <2>1. UNCHANGED Navigation
    BY <1>8 DEF NotificationEnds
  <2> QED BY <1>0, <1>8, <2>1, EndKeeps, MediaLeavesNavigation DEF WindowInv
<1>9. CASE UNCHANGED WindowVars
  <2>1. UNCHANGED Navigation /\ UNCHANGED Media
    BY <1>9 DEF WindowVars, Navigation, Media
  <2> QED BY <1>0, <2>1, NavigationLeavesMedia, MediaLeavesNavigation DEF WindowInv
<1>10. ASSUME NEW url \in HistoryUrls, InstallDocument(url) PROVE WindowInv'
  <2>1. UNCHANGED Media
    BY <1>10 DEF InstallDocument
  <2> QED BY <1>0, <1>10, <2>1, NewDocumentKeeps, NavigationLeavesMedia DEF WindowInv
<1> QED BY <1>1, <1>2, <1>3, <1>4, <1>5, <1>6, <1>7, <1>8, <1>9, <1>10 DEF WindowNext

(* The page finds itself at the URL given to the entry it went to, also by *)
(* a page before it, and every list it holds has told what it matches once *)
(* a notification of the viewport was completed, whatever is made, dropped *)
(* or cut short between.                                                   *)
THEOREM WindowHolds == WindowSpec => []WindowIsCurrent
<1>1. WindowInv => WindowIsCurrent
  BY DEF WindowInv, HistoryInv, ListsInv, ListsAreTold, MediaList, WindowIsCurrent, ListsAreCurrent
<1> QED BY <1>1, WindowStarts, WindowStep, PTL DEF WindowSpec

-----------------------------------------------------------------------------
(* The handles.  A node is at one address, has a parent only as long as    *)
(* both live, and what the document, a driver or the registry refers to    *)
(* lives; each handle of the page is that of the node at some address      *)
(* whose entry it is, and an address with an entry holds the node of it:   *)
(* so that an address that is used again has no entry left.                *)
LivingAt(where) == {where[a] : a \in Addresses} \ {NullNode}
Places(where, up, count) ==
  /\ where \in [Addresses -> 0..count]
  /\ \A a, b \in Addresses : where[a] = where[b] /\ where[a] # NullNode => a = b
  /\ up \in [TreeNodes -> 0..MaxNodes]
  /\ \A n \in TreeNodes : up[n] # NullNode => n \in LivingAt(where) /\ up[n] \in LivingAt(where)
Refers(where, doc, refs, reg) ==
  /\ doc = NullNode \/ doc \in LivingAt(where)
  /\ refs \subseteq LivingAt(where) /\ \A h \in DOMAIN reg : reg[h] \in LivingAt(where)
Entries(where, reg, map) ==
  /\ map \in [Addresses -> Nat] /\ DOMAIN reg \subseteq Nat \ {0}
  /\ \A a \in Addresses : map[a] # kNoElement => map[a] \in DOMAIN reg /\ reg[map[a]] = where[a]
  /\ \A h \in DOMAIN reg : \E a \in Addresses : where[a] = reg[h] /\ map[a] = h
BirthsOf(reg, all, next, page) ==
  /\ next \in Nat \ {0} /\ DOMAIN all \subseteq 1..(next - 1) /\ page \in Nat
  /\ \A h \in DOMAIN all : all[h] \in [node : TreeNodes, page : 0..page]
  /\ DOMAIN reg = {h \in DOMAIN all : all[h].page = page} /\ \A h \in DOMAIN reg : reg[h] = all[h].node
HostInv ==
  /\ born \in 0..MaxNodes /\ Places(nodeAt, parentOf, born) /\ Refers(nodeAt, installed, driverHeld, registry)
  /\ Entries(nodeAt, registry, nodeToHandle) /\ BirthsOf(registry, births, nextHandle, installs)

-----------------------------------------------------------------------------
(* Lifetimes.                                                              *)
LEMMA NodesAreNatural == MaxNodes \in Nat /\ TreeNodes \subseteq Nat \ {0} /\ NullNode \notin TreeNodes
BY ScriptHostConstants DEF TreeNodes, NullNode

LEMMA RootsAreKept == ASSUME NEW up, NEW roots, roots \subseteq TreeNodes PROVE roots \subseteq Kept(up, roots)
BY DEF Kept

LEMMA KeptIsLeast ==
  ASSUME NEW up, NEW roots, NEW S, S \subseteq TreeNodes, roots \subseteq S, UpClosed(up, S)
  PROVE  Kept(up, roots) \subseteq S
BY DEF Kept

(* Only what lives is kept, whatever refers to it.                         *)
LEMMA OnlyLivingAreKept ==
  ASSUME NEW where, NEW up, NEW count \in 0..MaxNodes, Places(where, up, count), NEW roots, roots \subseteq LivingAt(where)
  PROVE  Kept(up, roots) \subseteq LivingAt(where) /\ LivingAt(where) \subseteq TreeNodes /\ roots \subseteq Kept(up, roots)
<1>1. LivingAt(where) \subseteq TreeNodes
  BY ScriptHostConstants DEF LivingAt, Places, TreeNodes, NullNode
<1>2. UpClosed(up, LivingAt(where))
  BY DEF UpClosed, Places, LivingAt
<1>3. Kept(up, roots) \subseteq LivingAt(where)
  BY <1>1, <1>2, KeptIsLeast
<1>4. roots \subseteq Kept(up, roots)
  BY <1>1, RootsAreKept
<1> QED BY <1>1, <1>3, <1>4

LEMMA RootsLive ==
  ASSUME NEW where, NEW doc, NEW refs, NEW reg, Refers(where, doc, refs, reg)
  PROVE  Roots(doc, refs, reg) \subseteq LivingAt(where)
BY DEF Refers, Roots

(* A step of the memory: what is referred to stays where it is, and the    *)
(* tree stays one of living nodes.                                         *)
LEMMA MemoryKeeps ==
  ASSUME NEW where, NEW up, NEW doc, NEW refs, NEW reg, NEW count \in 0..MaxNodes,
         Places(where, up, count), Refers(where, doc, refs, reg), Memory(where, up, doc, refs, reg)
  PROVE  /\ Places(nodeAt', parentOf', count) /\ Refers(nodeAt', installed', driverHeld', reg)
         /\ \A a \in Addresses, h \in DOMAIN reg : where[a] = reg[h] => nodeAt'[a] = reg[h]
<1> DEFINE roots == Roots(doc, refs, reg)
           stay == Kept(up, roots)
<1>1. stay \subseteq LivingAt(where) /\ LivingAt(where) \subseteq TreeNodes /\ roots \subseteq stay
  BY RootsLive, OnlyLivingAreKept
<1>2. /\ nodeAt' = [a \in Addresses |-> IF where[a] \in stay THEN where[a] ELSE NullNode]
      /\ parentOf' = [n \in TreeNodes |-> IF n \in stay /\ up[n] \in stay THEN up[n] ELSE NullNode]
      /\ installed' = doc /\ driverHeld' = refs
  BY DEF Memory
<1>3. NullNode \notin stay
  BY <1>1 DEF LivingAt
<1>4. roots = ({doc} \cup refs \cup {reg[h] : h \in DOMAIN reg}) \ {NullNode}
  BY DEF Roots
<1> HIDE DEF roots, stay
<1>5. LivingAt(nodeAt') = stay
  BY <1>1, <1>2, <1>3 DEF LivingAt
<1>6. Places(nodeAt', parentOf', count)
  <2>1. nodeAt' \in [Addresses -> 0..count]
    BY <1>2 DEF Places, NullNode
  <2>2. \A a, b \in Addresses : nodeAt'[a] = nodeAt'[b] /\ nodeAt'[a] # NullNode => a = b
    BY <1>2 DEF Places
  <2>3. parentOf' \in [TreeNodes -> 0..MaxNodes]
    BY <1>2, ScriptHostConstants DEF Places, NullNode
  <2>4. \A n \in TreeNodes : parentOf'[n] # NullNode => n \in stay /\ parentOf'[n] \in stay
    BY <1>2
  <2> QED BY <1>5, <2>1, <2>2, <2>3, <2>4 DEF Places
<1>7. Refers(nodeAt', installed', driverHeld', reg)
  <2>1. \A h \in DOMAIN reg : reg[h] # NullNode
    BY DEF Refers, LivingAt
  <2>2. NullNode \notin refs
    BY DEF Refers, LivingAt
  <2> QED BY <1>1, <1>2, <1>4, <1>5, <2>1, <2>2 DEF Refers
<1>8. \A a \in Addresses, h \in DOMAIN reg : where[a] = reg[h] => nodeAt'[a] = reg[h]
  <2>1. \A h \in DOMAIN reg : reg[h] \in stay
    BY <1>5, <1>7 DEF Refers
  <2> QED BY <1>2, <2>1
<1> QED BY <1>6, <1>7, <1>8

(* The entries survive a step of the memory.                               *)
LEMMA EntriesSurvive ==
  ASSUME NEW where, NEW later, NEW reg, NEW map, Entries(where, reg, map),
         \A a \in Addresses, h \in DOMAIN reg : where[a] = reg[h] => later[a] = reg[h]
  PROVE  Entries(later, reg, map)
BY DEF Entries

(* A new node, at an address that is free: it has no entry.                *)
LEMMA NodeIsPlaced ==
  ASSUME HostInv, NEW a \in Addresses, Placed(a, born + 1)
  PROVE  LET where == [nodeAt EXCEPT ![a] = born + 1]
         IN  /\ born + 1 \in TreeNodes /\ Places(where, parentOf, born + 1) /\ LivingAt(where) = Living \cup {born + 1}
             /\ Refers(where, installed, driverHeld, registry) /\ Entries(where, registry, nodeToHandle)
             /\ born + 1 \notin Living /\ where[a] = born + 1 /\ nodeToHandle[a] = kNoElement /\ born + 1 \in 0..MaxNodes
<1> DEFINE n == born + 1
           where == [nodeAt EXCEPT ![a] = n]
<1>1. nodeAt \in [Addresses -> 0..born] /\ born \in Nat /\ nodeAt[a] = NullNode /\ n <= MaxNodes
  BY ScriptHostConstants DEF HostInv, Places, Placed
<1>2. n \in TreeNodes /\ n # NullNode /\ n \in Nat /\ n \in 0..MaxNodes
  BY <1>1, ScriptHostConstants DEF TreeNodes, NullNode
<1>3. n \notin Living
  BY <1>1 DEF Living
<1> HIDE DEF n
<1>4. where[a] = n /\ \A b \in Addresses : b # a => where[b] = nodeAt[b]
  BY <1>1
<1>5. LivingAt(where) = Living \cup {n}
  <2>1. LivingAt(where) \subseteq Living \cup {n}
    BY <1>4 DEF LivingAt, Living
  <2>2. Living \subseteq LivingAt(where)
    BY <1>1, <1>4 DEF LivingAt, Living
  <2>3. n \in LivingAt(where)
    BY <1>2, <1>4 DEF LivingAt
  <2> QED BY <2>1, <2>2, <2>3
<1>6. where \in [Addresses -> 0..n]
  BY <1>1, <1>2 DEF n
<1> HIDE DEF where
<1>7. Living = LivingAt(nodeAt)
  BY DEF Living, LivingAt
<1>8. \A b, c \in Addresses : where[b] = where[c] /\ where[b] # NullNode => b = c
  <2>1. \A b \in Addresses : b # a => where[b] # n
    BY <1>2, <1>3, <1>4 DEF Living
  <2> QED BY <1>4, <2>1 DEF HostInv, Places
<1>9. Places(where, parentOf, n)
  BY <1>5, <1>6, <1>7, <1>8 DEF HostInv, Places
<1>10. Refers(where, installed, driverHeld, registry)
  BY <1>5, <1>7 DEF HostInv, Refers
<1>11. nodeToHandle[a] = kNoElement
  <2> SUFFICES ASSUME nodeToHandle[a] # kNoElement PROVE FALSE
    OBVIOUS
  <2>1. nodeToHandle[a] \in DOMAIN registry /\ registry[nodeToHandle[a]] = NullNode
    BY <1>1 DEF HostInv, Entries
  <2> QED BY <2>1 DEF HostInv, Refers, LivingAt
<1>12. Entries(where, registry, nodeToHandle)
  <2>1. \A b \in Addresses, h \in DOMAIN registry : nodeAt[b] = registry[h] => where[b] = registry[h]
    BY <1>1, <1>4 DEF HostInv, Refers, LivingAt
  <2> QED BY <2>1, EntriesSurvive DEF HostInv
<1> QED BY <1>2, <1>3, <1>4, <1>5, <1>9, <1>10, <1>11, <1>12 DEF n, where


-----------------------------------------------------------------------------
(* Interning.  New handles count on from the last, in the order of the     *)
(* nodes, and so are new and different.                                    *)
LEMMA MintedAreNew ==
  ASSUME NEW fresh, fresh \subseteq TreeNodes, nextHandle \in Nat
  PROVE  /\ IsFiniteSet(fresh) /\ Cardinality(fresh) \in Nat
         /\ \A n \in fresh : MintedFor(fresh, n) \in nextHandle..(nextHandle + Cardinality(fresh) - 1)
         /\ \A m, n \in fresh : MintedFor(fresh, m) = MintedFor(fresh, n) => m = n
<1> DEFINE Before(n) == {m \in fresh : m < n}
<1>1. IsFiniteSet(TreeNodes) /\ TreeNodes \subseteq Nat
  BY ScriptHostConstants, FS_Interval DEF TreeNodes
<1>2. IsFiniteSet(fresh) /\ Cardinality(fresh) \in Nat
  BY <1>1, FS_Subset, FS_CardinalityType
<1>3. ASSUME NEW n \in fresh, NEW T, T \subseteq fresh, Before(n) \subseteq T, n \in T
      PROVE  Cardinality(Before(n)) \in Nat /\ Cardinality(Before(n)) + 1 <= Cardinality(T) /\ Cardinality(T) \in Nat
  <2>1. IsFiniteSet(Before(n)) /\ IsFiniteSet(T) /\ Cardinality(Before(n)) \in Nat /\ Cardinality(T) \in Nat
    <3>1. Before(n) \subseteq fresh
      OBVIOUS
    <3> HIDE DEF Before
    <3> QED BY <1>2, <1>3, <3>1, FS_Subset, FS_CardinalityType
  <2>2. n \notin Before(n)
    BY <1>1
  <2> HIDE DEF Before
  <2>3. Cardinality(Before(n) \cup {n}) = Cardinality(Before(n)) + 1
    BY <2>1, <2>2, FS_AddElement
  <2>4. Before(n) \cup {n} \subseteq T
    BY <1>3
  <2>5. Cardinality(Before(n) \cup {n}) <= Cardinality(T)
    BY <2>1, <2>4, FS_Subset
  <2> QED BY <2>1, <2>3, <2>5
<1>4. \A n \in fresh : MintedFor(fresh, n) = nextHandle + Cardinality(Before(n))
  BY DEF MintedFor
<1>5. \A n \in fresh : MintedFor(fresh, n) \in nextHandle..(nextHandle + Cardinality(fresh) - 1)
  <2> SUFFICES ASSUME NEW n \in fresh PROVE MintedFor(fresh, n) \in nextHandle..(nextHandle + Cardinality(fresh) - 1)
    OBVIOUS
  <2>1. Before(n) \subseteq fresh
    OBVIOUS
  <2> HIDE DEF Before
  <2>2. Cardinality(Before(n)) \in Nat /\ Cardinality(Before(n)) + 1 <= Cardinality(fresh)
    BY <1>3, <2>1
  <2> QED BY <1>2, <1>4, <2>2
<1>6. ASSUME NEW m \in fresh, NEW n \in fresh, m < n PROVE MintedFor(fresh, m) # MintedFor(fresh, n)
  <2>0. \A x \in fresh : x \in Nat
    BY <1>1
  <2>1. Before(m) \subseteq Before(n) /\ m \in Before(n) /\ Before(n) \subseteq fresh
    BY <1>6, <2>0
  <2> HIDE DEF Before
  <2>2. Cardinality(Before(m)) \in Nat /\ Cardinality(Before(m)) + 1 <= Cardinality(Before(n)) /\ Cardinality(Before(n)) \in Nat
    BY <1>3, <2>1
  <2> QED BY <1>4, <2>2
<1>7. \A m, n \in fresh : m < n \/ n < m \/ m = n
  BY <1>1
<1> QED BY <1>2, <1>5, <1>6, <1>7

LEMMA InternKeeps ==
  ASSUME NEW where, NEW up, NEW count \in 0..MaxNodes, NEW nodes,
         Places(where, up, count), nodes \subseteq LivingAt(where),
         \A h \in DOMAIN registry : registry[h] \in LivingAt(where),
         Entries(where, registry, nodeToHandle), BirthsOf(registry, births, nextHandle, installs),
         installs' = installs, Interned(registry, nodeToHandle, where, nodes)
  PROVE  /\ Entries(where, registry', nodeToHandle') /\ BirthsOf(registry', births', nextHandle', installs')
         /\ \A h \in DOMAIN registry' : registry'[h] \in LivingAt(where)
<1> DEFINE fresh == Unknown(nodeToHandle, where, nodes)
           num(n) == MintedFor(fresh, n)
           birth == [n \in fresh |-> [node |-> n, page |-> installs']]
<1>1. fresh \subseteq nodes /\ LivingAt(where) \subseteq TreeNodes
  <2>1. LivingAt(where) \subseteq TreeNodes
    BY ScriptHostConstants DEF LivingAt, Places, TreeNodes, NullNode
  <2> QED BY <2>1 DEF Unknown
<1>2. /\ registry' = With(registry, fresh, [n \in fresh |-> n])
      /\ nodeToHandle' = [a \in Addresses |-> IF where[a] \in fresh THEN num(where[a]) ELSE nodeToHandle[a]]
      /\ nextHandle' = nextHandle + Cardinality(fresh) /\ births' = With(births, fresh, birth)
  BY DEF Interned
<1>3. \A n \in fresh : HandleIn(nodeToHandle, where, n) = kNoElement
  BY DEF Unknown
<1>4. \A a \in Addresses : where[a] \in fresh => nodeToHandle[a] = kNoElement
  <2> SUFFICES ASSUME NEW a \in Addresses, where[a] \in fresh PROVE nodeToHandle[a] = kNoElement
    OBVIOUS
  <2>1. where[a] # NullNode
    BY <1>1 DEF LivingAt
  <2> DEFINE b == CHOOSE b \in Addresses : where[b] = where[a]
  <2>2. b \in Addresses /\ where[b] = where[a]
    OBVIOUS
  <2>3. b = a
    <3> HIDE DEF b
    <3> QED BY <2>1, <2>2 DEF Places
  <2>4. HandleIn(nodeToHandle, where, where[a]) = nodeToHandle[b]
    BY DEF HandleIn
  <2> QED BY <1>3, <2>3, <2>4
<1> HIDE DEF fresh
<1>5. nextHandle \in Nat \ {0} /\ DOMAIN births \subseteq 1..(nextHandle - 1) /\ DOMAIN registry \subseteq DOMAIN births /\ installs \in Nat
  BY DEF BirthsOf
<1>6. /\ Cardinality(fresh) \in Nat /\ \A n \in fresh : num(n) \in nextHandle..(nextHandle + Cardinality(fresh) - 1)
      /\ \A m, n \in fresh : num(m) = num(n) => m = n
  BY <1>1, <1>5, MintedAreNew
<1>7. \A n \in fresh : num(n) \notin DOMAIN births /\ num(n) \in Nat \ {0}
  <2>1. \A h \in DOMAIN births : h < nextHandle /\ h > 0 /\ h \in Nat
    BY <1>5
  <2> HIDE DEF num
  <2>2. \A n \in fresh : num(n) \in Nat /\ num(n) >= nextHandle
    BY <1>5, <1>6
  <2>3. \A n \in fresh : num(n) \notin DOMAIN births
    BY <1>5, <2>1, <2>2
  <2>4. \A n \in fresh : num(n) \in Nat \ {0}
    BY <1>5, <2>2
  <2> QED BY <2>3, <2>4
<1>8. /\ DOMAIN registry' = DOMAIN registry \cup {num(n) : n \in fresh} /\ DOMAIN births' = DOMAIN births \cup {num(n) : n \in fresh}
      /\ \A h \in DOMAIN registry : registry'[h] = registry[h]
      /\ \A h \in DOMAIN births : births'[h] = births[h]
  BY <1>2, <1>5 DEF With
<1>9. \A n \in fresh : registry'[num(n)] = n /\ births'[num(n)] = [node |-> n, page |-> installs]
  <2> SUFFICES ASSUME NEW n \in fresh PROVE registry'[num(n)] = n /\ births'[num(n)] = [node |-> n, page |-> installs]
    OBVIOUS
  <2> DEFINE c == CHOOSE m \in fresh : MintedFor(fresh, m) = num(n)
  <2>1. c \in fresh /\ num(c) = num(n)
    OBVIOUS
  <2>2. c = n
    <3> HIDE DEF c
    <3> QED BY <1>6, <2>1
  <2>3. num(n) \notin DOMAIN registry /\ num(n) \notin DOMAIN births
    BY <1>5, <1>7
  <2>4. registry'[num(n)] = c /\ births'[num(n)] = birth[c]
    <3>1. registry'[num(n)] = [m \in fresh |-> m][c]
      BY <1>2, <2>3 DEF With
    <3>2. births'[num(n)] = birth[c]
      <4> HIDE DEF birth
      <4> QED BY <1>2, <2>3 DEF With
    <3> QED BY <2>1, <3>1, <3>2
  <2> HIDE DEF c
  <2>5. birth[n] = [node |-> n, page |-> installs]
    OBVIOUS
  <2> QED BY <2>2, <2>4, <2>5
<1> HIDE DEF num, birth
<1>10. ASSUME NEW h \in DOMAIN registry' PROVE registry'[h] \in LivingAt(where)
  <2>1. CASE h \in DOMAIN registry
    BY <1>8, <2>1
  <2>2. CASE h \notin DOMAIN registry
    <3>1. PICK n \in fresh : h = num(n)
      BY <1>8, <2>2
    <3> QED BY <1>1, <1>9, <3>1
  <2> QED BY <2>1, <2>2
<1>11. Entries(where, registry', nodeToHandle')
  <2>1. nodeToHandle' \in [Addresses -> Nat] /\ DOMAIN registry' \subseteq Nat \ {0}
    BY <1>2, <1>7, <1>8 DEF Entries
  <2>2. ASSUME NEW a \in Addresses, nodeToHandle'[a] # kNoElement
        PROVE  nodeToHandle'[a] \in DOMAIN registry' /\ registry'[nodeToHandle'[a]] = where[a]
    <3>1. CASE where[a] \in fresh
      BY <1>2, <1>8, <1>9, <3>1
    <3>2. CASE where[a] \notin fresh
      BY <1>2, <1>8, <2>2, <3>2 DEF Entries
    <3> QED BY <3>1, <3>2
  <2>3. ASSUME NEW h \in DOMAIN registry' PROVE \E a \in Addresses : where[a] = registry'[h] /\ nodeToHandle'[a] = h
    <3>1. CASE h \in DOMAIN registry
      <4>1. PICK a \in Addresses : where[a] = registry[h] /\ nodeToHandle[a] = h
        BY <3>1 DEF Entries
      <4>2. h # kNoElement
        BY <3>1 DEF Entries, kNoElement
      <4>3. where[a] \notin fresh
        BY <1>4, <4>1, <4>2
      <4> QED BY <1>2, <1>8, <3>1, <4>1, <4>3
    <3>2. CASE h \notin DOMAIN registry
      <4>1. PICK n \in fresh : h = num(n)
        BY <1>8, <3>2
      <4>2. PICK a \in Addresses : where[a] = n
        BY <1>1 DEF LivingAt
      <4> QED BY <1>2, <1>9, <4>1, <4>2
    <3> QED BY <3>1, <3>2
  <2> QED BY <2>1, <2>2, <2>3 DEF Entries
<1>12. BirthsOf(registry', births', nextHandle', installs')
  <2>1. nextHandle' \in Nat \ {0} /\ installs' \in Nat /\ DOMAIN births' \subseteq 1..(nextHandle' - 1)
    <3>1. nextHandle' \in Nat \ {0} /\ installs' \in Nat
      BY <1>2, <1>5, <1>6 DEF BirthsOf
    <3>2. DOMAIN births \subseteq 1..(nextHandle' - 1)
      BY <1>2, <1>5, <1>6
    <3>3. \A n \in fresh : num(n) \in 1..(nextHandle' - 1)
      BY <1>2, <1>5, <1>6, <1>7
    <3> QED BY <1>8, <3>1, <3>2, <3>3
  <2>2. ASSUME NEW h \in DOMAIN births'
        PROVE  /\ births'[h] \in [node : TreeNodes, page : 0..installs'] /\ (h \in DOMAIN registry' <=> births'[h].page = installs')
               /\ (h \in DOMAIN registry' => registry'[h] = births'[h].node)
    <3>1. CASE h \in DOMAIN births
      <4>1. \A n \in fresh : h # num(n)
        BY <1>7, <3>1
      <4>2. h \in DOMAIN registry' <=> h \in DOMAIN registry
        BY <1>8, <4>1
      <4> QED BY <1>8, <3>1, <4>2 DEF BirthsOf
    <3>2. CASE h \notin DOMAIN births
      <4>1. PICK n \in fresh : h = num(n)
        BY <1>8, <3>2
      <4>2. births'[h] = [node |-> n, page |-> installs] /\ registry'[h] = n /\ h \in DOMAIN registry'
        BY <1>8, <1>9, <4>1
      <4>3. n \in TreeNodes
        BY <1>1
      <4> QED BY <1>5, <4>2, <4>3
    <3> QED BY <3>1, <3>2
  <2>3. DOMAIN registry' \subseteq DOMAIN births'
    BY <1>5, <1>8
  <2> QED BY <2>1, <2>2, <2>3 DEF BirthsOf
<1> QED BY <1>10, <1>11, <1>12


-----------------------------------------------------------------------------
(* One step per operation, or per kind of operation.                       *)
LEMMA LivingIsLivingAt == Living = LivingAt(nodeAt)
BY DEF Living, LivingAt

(* What is handed out lives.                                               *)
LEMMA WhatIsReachedLives ==
  ASSUME HostInv
  PROVE  /\ Living \subseteq TreeNodes /\ driverHeld \subseteq Living /\ InDocument \subseteq Living
         /\ \A h : Resolve(h) # NullNode => Resolve(h) \in Living
         /\ \A n \in Living : Kept(parentOf, {n}) \subseteq Living /\ Children(n) \subseteq Living /\ Siblings(n) \subseteq Living
                              /\ {parentOf[n]} \ {NullNode} \subseteq Living
<1>1. born \in 0..MaxNodes /\ Places(nodeAt, parentOf, born) /\ Refers(nodeAt, installed, driverHeld, registry)
  BY DEF HostInv
<1>2. \A roots : roots \subseteq Living => Kept(parentOf, roots) \subseteq Living
  BY <1>1, LivingIsLivingAt, OnlyLivingAreKept
<1>3. Living \subseteq TreeNodes
  BY <1>1, LivingIsLivingAt, OnlyLivingAreKept
<1>4. driverHeld \subseteq Living /\ \A h : Resolve(h) # NullNode => Resolve(h) \in Living
  BY <1>1, LivingIsLivingAt DEF Refers, Resolve
<1>5. InDocument \subseteq Living
  <2>1. CASE installed = NullNode
    BY <2>1 DEF InDocument
  <2>2. CASE installed # NullNode
    <3>1. {installed} \subseteq Living
      BY <1>1, <2>2, LivingIsLivingAt DEF Refers
    <3> QED BY <1>2, <2>2, <3>1 DEF InDocument
  <2> QED BY <2>1, <2>2
<1>6. ASSUME NEW n \in Living
      PROVE  Kept(parentOf, {n}) \subseteq Living /\ Children(n) \subseteq Living /\ Siblings(n) \subseteq Living
             /\ {parentOf[n]} \ {NullNode} \subseteq Living
  <2>1. \A m \in TreeNodes : parentOf[m] # NullNode => m \in Living /\ parentOf[m] \in Living
    BY <1>1, LivingIsLivingAt DEF Places
  <2>2. n # NullNode /\ n \in TreeNodes
    BY <1>3 DEF Living
  <2>3. Children(n) \subseteq Living
    BY <2>1, <2>2 DEF Children
  <2>4. Siblings(n) \subseteq Living
    BY <2>1 DEF Siblings, Children
  <2>5. {n} \subseteq Living
    OBVIOUS
  <2> QED BY <1>2, <2>1, <2>2, <2>3, <2>4, <2>5
<1> QED BY <1>3, <1>4, <1>5, <1>6

LEMMA HandingOutKeeps == ASSUME HostInv, NEW nodes, nodes \subseteq Living, HandsOut(nodes) PROVE HostInv'
<1>1. /\ born \in 0..MaxNodes /\ Places(nodeAt, parentOf, born) /\ Refers(nodeAt, installed, driverHeld, registry)
      /\ Entries(nodeAt, registry, nodeToHandle) /\ BirthsOf(registry, births, nextHandle, installs)
  BY DEF HostInv
<1>2. installs' = installs /\ Interned(registry, nodeToHandle, nodeAt, nodes) /\ UNCHANGED <<nodeAt, parentOf, born, installed, driverHeld>>
  BY DEF HandsOut
<1>3. nodes \subseteq LivingAt(nodeAt) /\ \A h \in DOMAIN registry : registry[h] \in LivingAt(nodeAt)
  BY <1>1, LivingIsLivingAt DEF Refers
<1>4. /\ Entries(nodeAt, registry', nodeToHandle') /\ BirthsOf(registry', births', nextHandle', installs')
      /\ \A h \in DOMAIN registry' : registry'[h] \in LivingAt(nodeAt)
  BY <1>1, <1>2, <1>3, InternKeeps
<1>5. Refers(nodeAt, installed, driverHeld, registry')
  BY <1>1, <1>4 DEF Refers
<1>6. nodeAt' = nodeAt /\ parentOf' = parentOf /\ born' = born /\ installed' = installed /\ driverHeld' = driverHeld
  BY <1>2
<1> QED BY <1>1, <1>4, <1>5, <1>6 DEF HostInv

(* A step of the memory that leaves the registry alone.                    *)
LEMMA MemoryStepKeeps ==
  ASSUME HostInv, NEW where, NEW up, NEW doc, NEW refs, NEW count \in 0..MaxNodes,
         Places(where, up, count), Refers(where, doc, refs, registry), Entries(where, registry, nodeToHandle),
         Memory(where, up, doc, refs, registry), born' = count, Unregistered
  PROVE  HostInv'
<1>1. /\ Places(nodeAt', parentOf', count) /\ Refers(nodeAt', installed', driverHeld', registry)
      /\ \A a \in Addresses, h \in DOMAIN registry : where[a] = registry[h] => nodeAt'[a] = registry[h]
  BY MemoryKeeps
<1>2. Entries(nodeAt', registry, nodeToHandle)
  BY <1>1, EntriesSurvive
<1>3. registry' = registry /\ nodeToHandle' = nodeToHandle /\ nextHandle' = nextHandle /\ installs' = installs /\ births' = births
  BY DEF Unregistered
<1>4. BirthsOf(registry, births, nextHandle, installs)
  BY DEF HostInv
<1> QED BY <1>1, <1>2, <1>3, <1>4 DEF HostInv

LEMMA InstallingKeeps == HostInv /\ Install => HostInv'
<1> SUFFICES ASSUME HostInv, NEW a \in Addresses, Installs(a) PROVE HostInv'
  BY DEF Install
<1> DEFINE n == born + 1
           where == [nodeAt EXCEPT ![a] = n]
           map == [x \in Addresses |-> kNoElement]
<1>1. Placed(a, n) /\ born' = n /\ Memory(where, parentOf, n, driverHeld, EmptyRegistry) /\ registry' = EmptyRegistry
      /\ nodeToHandle' = map /\ installs' = installs + 1 /\ UNCHANGED <<nextHandle, births>>
  BY DEF Installs, NewRoot
<1>2. n \in TreeNodes /\ n \in 0..MaxNodes /\ Places(where, parentOf, n) /\ LivingAt(where) = Living \cup {n}
      /\ Refers(where, installed, driverHeld, registry)
  BY <1>1, NodeIsPlaced
<1> HIDE DEF n, where
<1>3. DOMAIN EmptyRegistry = {}
  BY DEF EmptyRegistry
<1>4. Refers(where, n, driverHeld, EmptyRegistry)
  BY <1>2, <1>3 DEF Refers
<1>5. Places(nodeAt', parentOf', n) /\ Refers(nodeAt', installed', driverHeld', EmptyRegistry)
  BY <1>1, <1>2, <1>4, MemoryKeeps
<1>6. Entries(nodeAt', EmptyRegistry, map)
  BY <1>3 DEF Entries, kNoElement
<1> HIDE DEF map
<1>7. BirthsOf(registry, births, nextHandle, installs)
  BY DEF HostInv
<1>8. BirthsOf(EmptyRegistry, births, nextHandle, installs + 1)
  <2>1. installs \in Nat /\ \A h \in DOMAIN births : births[h] \in [node : TreeNodes, page : 0..installs]
    BY <1>7 DEF BirthsOf
  <2>2. \A h \in DOMAIN births : births[h] \in [node : TreeNodes, page : 0..(installs + 1)] /\ births[h].page # installs + 1
    BY <2>1
  <2> QED BY <1>3, <1>7, <2>1, <2>2 DEF BirthsOf
<1> QED BY <1>1, <1>2, <1>5, <1>6, <1>8 DEF HostInv

LEMMA CreatingKeeps == HostInv /\ CreateNode => HostInv'
<1> SUFFICES ASSUME HostInv, CreateNode PROVE HostInv'
  OBVIOUS
<1> DEFINE n == born + 1
<1>0. PICK a \in Addresses :
        LET where == [nodeAt EXCEPT ![a] = n]
        IN  /\ Placed(a, n) /\ born' = n /\ installs' = installs /\ nodeAt' = where
            /\ Interned(registry, nodeToHandle, where, {n}) /\ UNCHANGED <<parentOf, installed, driverHeld>>
  BY DEF CreateNode
<1> DEFINE where == [nodeAt EXCEPT ![a] = n]
<1>1. /\ Placed(a, n) /\ born' = n /\ installs' = installs /\ nodeAt' = where
      /\ Interned(registry, nodeToHandle, where, {n}) /\ UNCHANGED <<parentOf, installed, driverHeld>>
  BY <1>0
<1>2. n \in TreeNodes /\ n \in 0..MaxNodes /\ Places(where, parentOf, n) /\ LivingAt(where) = Living \cup {n}
      /\ Refers(where, installed, driverHeld, registry) /\ Entries(where, registry, nodeToHandle)
  BY <1>1, NodeIsPlaced
<1> HIDE DEF n, where
<1>3. {n} \subseteq LivingAt(where) /\ \A h \in DOMAIN registry : registry[h] \in LivingAt(where)
  BY <1>2 DEF Refers
<1>4. BirthsOf(registry, births, nextHandle, installs)
  BY DEF HostInv
<1>5. /\ Entries(where, registry', nodeToHandle') /\ BirthsOf(registry', births', nextHandle', installs')
      /\ \A h \in DOMAIN registry' : registry'[h] \in LivingAt(where)
  BY <1>1, <1>2, <1>3, <1>4, InternKeeps
<1>6. Refers(where, installed, driverHeld, registry')
  BY <1>2, <1>5 DEF Refers
<1>7. parentOf' = parentOf /\ installed' = installed /\ driverHeld' = driverHeld
  BY <1>1
<1> QED BY <1>1, <1>2, <1>5, <1>6, <1>7 DEF HostInv

(* Nodes that are moved, let go of or emptied.                             *)
LEMMA AdoptingKeeps == ASSUME HostInv, NEW p \in Living, NEW c \in Living, Adopts(p, c) PROVE HostInv'
<1> DEFINE up == [parentOf EXCEPT ![c] = p]
<1>1. Places(nodeAt, up, born)
  BY WhatIsReachedLives, LivingIsLivingAt DEF HostInv, Places, TreeNodes
<1> HIDE DEF up
<1> QED BY <1>1, MemoryStepKeeps DEF HostInv, Adopts, up

LEMMA OrphaningKeeps == ASSUME HostInv, NEW c \in Living, Orphans(c) PROVE HostInv'
<1> DEFINE up == [parentOf EXCEPT ![c] = NullNode]
<1>1. Places(nodeAt, up, born)
  BY WhatIsReachedLives, ScriptHostConstants DEF HostInv, Places, NullNode
<1> HIDE DEF up
<1> QED BY <1>1, MemoryStepKeeps DEF HostInv, Orphans, up

LEMMA EmptyingKeeps == ASSUME HostInv, NEW p, Empties(p) PROVE HostInv'
<1> DEFINE up == [m \in TreeNodes |-> IF parentOf[m] = p THEN NullNode ELSE parentOf[m]]
<1>1. Places(nodeAt, up, born)
  BY ScriptHostConstants DEF HostInv, Places, NullNode
<1> HIDE DEF up
<1> QED BY <1>1, MemoryStepKeeps DEF HostInv, Empties, up

LEMMA RefillingKeeps == ASSUME HostInv, NEW p \in Living, Refills(p) PROVE HostInv'
<1> DEFINE n == born + 1
           up == [m \in TreeNodes |-> IF m = n THEN p ELSE IF parentOf[m] = p THEN NullNode ELSE parentOf[m]]
<1>0. PICK a \in Addresses :
        /\ Placed(a, n) /\ born' = n
        /\ Memory([nodeAt EXCEPT ![a] = n], up, installed, driverHeld, registry) /\ Unregistered
  BY DEF Refills
<1> DEFINE where == [nodeAt EXCEPT ![a] = n]
<1>1. Placed(a, n) /\ born' = n /\ Memory(where, up, installed, driverHeld, registry) /\ Unregistered
  BY <1>0
<1>2. n \in TreeNodes /\ n \in 0..MaxNodes /\ Places(where, parentOf, n) /\ LivingAt(where) = Living \cup {n}
      /\ Refers(where, installed, driverHeld, registry) /\ Entries(where, registry, nodeToHandle)
  BY <1>1, NodeIsPlaced
<1> HIDE DEF n, where
<1>3. p \in 0..MaxNodes /\ NullNode \in 0..MaxNodes
  BY WhatIsReachedLives, ScriptHostConstants DEF TreeNodes, NullNode
<1>4. Places(where, up, n)
  BY <1>2, <1>3 DEF Places
<1> HIDE DEF up
<1> QED BY <1>1, <1>2, <1>4, MemoryStepKeeps

LEMMA TitleKeeps == HostInv /\ SetDocumentTitle => HostInv'
<1> SUFFICES ASSUME HostInv, SetDocumentTitle PROVE HostInv'
  OBVIOUS
<1>1. ASSUME NEW n \in InDocument, Refills(n) PROVE HostInv'
  BY <1>1, WhatIsReachedLives, RefillingKeeps
<1>2. ASSUME NEW a \in Addresses, NEW p \in InDocument, Placed(a, born + 1), born' = born + 1,
             Memory([nodeAt EXCEPT ![a] = born + 1], [parentOf EXCEPT ![born + 1] = p], installed, driverHeld, registry), Unregistered
      PROVE  HostInv'
  <2> DEFINE n == born + 1
             where == [nodeAt EXCEPT ![a] = n]
             up == [parentOf EXCEPT ![n] = p]
  <2>1. n \in TreeNodes /\ n \in 0..MaxNodes /\ Places(where, parentOf, n) /\ LivingAt(where) = Living \cup {n}
        /\ Refers(where, installed, driverHeld, registry) /\ Entries(where, registry, nodeToHandle)
    BY <1>2, NodeIsPlaced
  <2>2. born' = n /\ Memory(where, up, installed, driverHeld, registry)
    BY <1>2
  <2> HIDE DEF n, where
  <2>3. p \in 0..MaxNodes /\ p \in Living
    BY WhatIsReachedLives, ScriptHostConstants DEF TreeNodes
  <2>4. Places(where, up, n)
    BY <2>1, <2>3 DEF Places
  <2> HIDE DEF up
  <2> QED BY <1>2, <2>1, <2>2, <2>4, MemoryStepKeeps
<1> QED BY <1>1, <1>2 DEF SetDocumentTitle

(* What a driver takes hold of, makes and drops.                           *)
LEMMA HoldingKeeps ==
  ASSUME HostInv, NEW refs, refs \subseteq Living, Memory(nodeAt, parentOf, installed, refs, registry), born' = born, Unregistered
  PROVE  HostInv'
<1>1. Refers(nodeAt, installed, refs, registry)
  BY LivingIsLivingAt DEF HostInv, Refers
<1> QED BY <1>1, MemoryStepKeeps DEF HostInv

LEMMA MakingKeeps == HostInv /\ DriverMakes => HostInv'
<1> SUFFICES ASSUME HostInv, NEW a \in Addresses, Placed(a, born + 1), born' = born + 1, Unregistered,
                    Memory([nodeAt EXCEPT ![a] = born + 1], parentOf, installed, driverHeld \cup {born + 1}, registry)
             PROVE  HostInv'
  BY DEF DriverMakes
<1> DEFINE n == born + 1
           where == [nodeAt EXCEPT ![a] = n]
<1>1. n \in 0..MaxNodes /\ Places(where, parentOf, n) /\ LivingAt(where) = Living \cup {n}
      /\ Refers(where, installed, driverHeld, registry) /\ Entries(where, registry, nodeToHandle)
  BY NodeIsPlaced
<1>2. born' = n /\ Memory(where, parentOf, installed, driverHeld \cup {n}, registry)
  OBVIOUS
<1> HIDE DEF n, where
<1>3. Refers(where, installed, driverHeld \cup {n}, registry)
  BY <1>1 DEF Refers
<1> QED BY <1>1, <1>2, <1>3, MemoryStepKeeps

LEMMA HostStarts == ScriptHostInit => HostInv
<1> SUFFICES ASSUME ScriptHostInit PROVE HostInv
  OBVIOUS
<1> USE DEF ScriptHostInit
<1>1. DOMAIN registry = {} /\ DOMAIN births = {}
  OBVIOUS
<1>2. Places(nodeAt, parentOf, born) /\ born \in 0..MaxNodes
  BY ScriptHostConstants DEF Places, NullNode
<1>3. Refers(nodeAt, installed, driverHeld, registry)
  BY <1>1 DEF Refers
<1>4. Entries(nodeAt, registry, nodeToHandle)
  BY <1>1 DEF Entries, kNoElement
<1>5. BirthsOf(registry, births, nextHandle, installs)
  BY <1>1 DEF BirthsOf
<1> QED BY <1>2, <1>3, <1>4, <1>5 DEF HostInv

LEMMA HostSteps == HostInv /\ [ScriptHostNext]_ScriptHostVars => HostInv'
<1> SUFFICES ASSUME HostInv, [ScriptHostNext]_ScriptHostVars PROVE HostInv'
  OBVIOUS
<1>1. CASE Install \/ CreateNode \/ SetDocumentTitle \/ DriverMakes
  BY <1>1, InstallingKeeps, CreatingKeeps, TitleKeeps, MakingKeeps
<1>2. CASE DocumentElement \/ QuerySelectorAll \/ QueryScope \/ ChildNodes \/ ParentNode \/ NextSibling \/ HandleForNode
  <2>1. \E nodes : nodes \subseteq Living /\ HandsOut(nodes)
    <3>1. CASE DocumentElement
      BY <3>1, WhatIsReachedLives DEF DocumentElement
    <3>2. CASE QuerySelectorAll
      BY <3>2, WhatIsReachedLives DEF QuerySelectorAll
    <3>3. CASE QueryScope
      <4>1. PICK h \in DOMAIN births :
              Resolve(h) # NullNode /\ \E found \in SUBSET (Kept(parentOf, {Resolve(h)}) \ {Resolve(h)}) : HandsOut(found)
        BY <3>3 DEF QueryScope
      <4>2. Kept(parentOf, {Resolve(h)}) \subseteq Living
        BY <4>1, WhatIsReachedLives
      <4> QED BY <4>1, <4>2
    <3>4. CASE ChildNodes
      BY <3>4, WhatIsReachedLives DEF ChildNodes
    <3>5. CASE ParentNode
      BY <3>5, WhatIsReachedLives DEF ParentNode
    <3>6. CASE NextSibling
      <4>1. PICK h \in DOMAIN births : Resolve(h) # NullNode /\ \E n \in Siblings(Resolve(h)) : HandsOut({n})
        BY <3>6 DEF NextSibling
      <4>2. Siblings(Resolve(h)) \subseteq Living
        BY <4>1, WhatIsReachedLives
      <4> QED BY <4>1, <4>2
    <3>7. CASE HandleForNode
      BY <3>7, WhatIsReachedLives DEF HandleForNode
    <3> QED BY <1>2, <3>1, <3>2, <3>3, <3>4, <3>5, <3>6, <3>7
  <2> QED BY <2>1, HandingOutKeeps
<1>3. CASE ScriptAppends \/ DriverAppends
  BY <1>3, WhatIsReachedLives, AdoptingKeeps DEF ScriptAppends, DriverAppends
<1>4. CASE DetachElement \/ DriverRemoves
  BY <1>4, WhatIsReachedLives, OrphaningKeeps DEF DetachElement, DriverRemoves
<1>5. CASE SetText \/ SetInner \/ DriverSetsText
  BY <1>5, WhatIsReachedLives, RefillingKeeps, EmptyingKeeps DEF SetText, SetInner, DriverSetsText
<1>6. CASE DriverQueries \/ DriverWalks
  <2>1. PICK n \in Living : Takes(n)
    <3>1. CASE DriverQueries
      BY <3>1, WhatIsReachedLives DEF DriverQueries
    <3>2. CASE DriverWalks
      <4>1. PICK e \in driverHeld : \E n \in Children(e) \cup Siblings(e) \cup ({parentOf[e]} \ {NullNode}) : Takes(n)
        BY <3>2 DEF DriverWalks
      <4>2. Children(e) \cup Siblings(e) \cup ({parentOf[e]} \ {NullNode}) \subseteq Living
        BY <4>1, WhatIsReachedLives
      <4> QED BY <4>1, <4>2
    <3> QED BY <1>6, <3>1, <3>2
  <2>2. driverHeld \cup {n} \subseteq Living
    BY <2>1, WhatIsReachedLives
  <2> QED BY <2>1, <2>2, HoldingKeeps DEF Takes
<1>7. CASE DriverDrops
  <2>1. PICK n \in driverHeld : Memory(nodeAt, parentOf, installed, driverHeld \ {n}, registry) /\ born' = born /\ Unregistered
    BY <1>7 DEF DriverDrops
  <2>2. driverHeld \ {n} \subseteq Living
    BY WhatIsReachedLives
  <2> QED BY <2>1, <2>2, HoldingKeeps
<1>8. CASE UNCHANGED ScriptHostVars
  BY <1>8 DEF ScriptHostVars, HostInv
<1> QED BY <1>1, <1>2, <1>3, <1>4, <1>5, <1>6, <1>7, <1>8 DEF ScriptHostNext

LEMMA HostInvSuffices == HostInv => HandlesAreStable
<1> SUFFICES ASSUME HostInv PROVE HandlesAreStable
  OBVIOUS
<1>1. \A h \in DOMAIN births : AnswersFor(h) = IF births[h].page = installs THEN births[h].node ELSE NullNode
  BY DEF HostInv, BirthsOf, AnswersFor, Resolve
<1>2. \A h, k \in DOMAIN registry : registry[h] = registry[k] => h = k
  <2> SUFFICES ASSUME NEW h \in DOMAIN registry, NEW k \in DOMAIN registry, registry[h] = registry[k] PROVE h = k
    OBVIOUS
  <2>1. PICK a \in Addresses : nodeAt[a] = registry[h] /\ nodeToHandle[a] = h
    BY DEF HostInv, Entries
  <2>2. PICK b \in Addresses : nodeAt[b] = registry[k] /\ nodeToHandle[b] = k
    BY DEF HostInv, Entries
  <2>3. registry[h] # NullNode
    BY DEF HostInv, Refers, LivingAt
  <2>4. a = b
    BY <2>1, <2>2, <2>3 DEF HostInv, Places
  <2> QED BY <2>1, <2>2, <2>4
<1>3. \A n \in driverHeld \cup {registry[h] : h \in DOMAIN registry} : Readable(n)
  BY LivingIsLivingAt DEF HostInv, Refers, Readable
<1>4. \A a \in Addresses : nodeAt[a] # NullNode /\ nodeToHandle[a] # kNoElement => Resolve(nodeToHandle[a]) = nodeAt[a]
  BY DEF HostInv, Entries, Resolve
<1> QED BY <1>1, <1>2, <1>3, <1>4 DEF HandlesAreStable

(* A handle names its node while its document is installed and nothing     *)
(* after, no node has two, and no entry outlives its node although         *)
(* addresses are used again: for every number of nodes, addresses,         *)
(* documents and handles.                                                  *)
THEOREM HandlesStayStable == ScriptHostSpec => []HandlesAreStable
<1>1. HostInv /\ [ScriptHostNext]_ScriptHostVars => HostInv'
  BY HostSteps
<1> QED BY <1>1, HostStarts, HostInvSuffices, PTL DEF ScriptHostSpec

-----------------------------------------------------------------------------
(* The script engine.  Its clock, the deadline and the script's own time   *)
(* are tied to each other: what was added to the deadline is what host     *)
(* requests took, but for less than a millisecond of each of them, and a   *)
(* request that is under way has added nothing yet.  Only the innermost    *)
(* call can be a request, since nothing is called from one.                *)
FrameKinds == {"script", "setter", "job", "convert", "checkpoint", "request", "console", "binding", "drain", "initialize", "native"}
Frames == [at : FrameKinds, n : Nat, module : NativeModules \cup {"none"}]
Values == {"none", "ok", "promise", "error", "drain"}
ResultKinds == {"none", "ok", "deadline", "error", "limit", "installed", "refused"}
Executions == [clock : Nat, expires : Nat, expired : BOOLEAN, executed : Nat, spent : Nat, hosts : Nat, value : Values]
UnderWay == IF Doing = "request" THEN Head(running).n ELSE 0
RequestsAreInnermost == \A i \in DOMAIN running : i > 1 => running[i].at # "request"
GivenBack(s, pending) ==
  /\ s.spent + s.expires + pending <= s.clock + OwnTime
  /\ s.clock + OwnTime <= s.spent + s.expires + pending + s.hosts * (TicksPerMs - 1)
UsedUp(s) == s.expired => s.spent + s.hosts * (TicksPerMs - 1) >= OwnTime
Budget == running # <<>> => GivenBack(execution, UnderWay) /\ UsedUp(execution)
ResultsInv ==
  /\ scriptResult \in [is : ResultKinds, spent : Nat, hosts : Nat]
  /\ scriptResult.is = "ok" => scriptResult.spent < OwnTime
  /\ scriptResult.is = "deadline" => scriptResult.spent + scriptResult.hosts * (TicksPerMs - 1) >= OwnTime
JobsInv ==
  /\ queued \in Nat /\ pendingJobs \in Seq(Nat) /\ Len(pendingJobs) <= queued
  /\ \A i \in DOMAIN pendingJobs : pendingJobs[i] = queued - Len(pendingJobs) + i
Among(m, list) == \E i \in DOMAIN list : list[i] = m
FrameIsSound(f, list) ==
  /\ f.at \in {"convert", "native", "initialize"} => f.module \in NativeModules
  /\ f.at \in {"convert", "native"} => Among(f.module, list)
  /\ f.at = "initialize" => ~Among(f.module, list)
FramesModules == \A i \in DOMAIN running : FrameIsSound(running[i], instances)
ModulesInv ==
  /\ instances \in Seq(NativeModules) /\ lived \in [NativeModules -> {"none", "attempted", "ready"}]
  /\ (\A m \in NativeModules : lived[m] = "ready" <=> Among(m, instances)) /\ ~misused
StackInv == running \in Seq(Frames) /\ RequestsAreInnermost /\ Budget /\ FramesModules
EngineInv == StackInv /\ execution \in Executions /\ ResultsInv /\ JobsInv /\ ModulesInv

LEMMA TimesAreNatural == TicksPerMs \in Nat /\ TicksPerMs - 1 \in Nat /\ OwnTime \in Nat /\ TicksPerMs > 0
BY ScriptEngineConstants DEF OwnTime

(* What extend_deadline gives back of a request's time.                    *)
LEMMA WholeMilliseconds ==
  ASSUME NEW e \in Nat
  PROVE  /\ (e \div TicksPerMs) * TicksPerMs \in Nat /\ (e \div TicksPerMs) * TicksPerMs <= e
         /\ e <= (e \div TicksPerMs) * TicksPerMs + (TicksPerMs - 1)
         /\ e = 0 => (e \div TicksPerMs) * TicksPerMs = 0
<1>1. e \div TicksPerMs \in Nat /\ TicksPerMs \in Nat /\ TicksPerMs > 0
  BY TimesAreNatural
<1>2. e = TicksPerMs * (e \div TicksPerMs) + (e % TicksPerMs) /\ (e % TicksPerMs) \in 0..(TicksPerMs - 1)
  BY <1>1
<1>3. TicksPerMs * (e \div TicksPerMs) = (e \div TicksPerMs) * TicksPerMs /\ TicksPerMs * (e \div TicksPerMs) \in Nat
  BY <1>1
<1> QED BY <1>1, <1>2, <1>3

(* Once the deadline has passed and no request is under way the script     *)
(* has used up its own time; before that it has not.                       *)
LEMMA DeadlineIsHonest ==
  ASSUME execution \in Executions, Active, Budget, Doing # "request"
  PROVE  /\ PastDeadline(execution) => execution.spent + execution.hosts * (TicksPerMs - 1) >= OwnTime
         /\ ~PastDeadline(execution) => execution.spent < OwnTime
<1>1. GivenBack(execution, 0) /\ UsedUp(execution)
  BY DEF Budget, UnderWay, Active
<1>2. execution \in Executions
  OBVIOUS
<1> DEFINE slack == execution.hosts * (TicksPerMs - 1)
<1>3. slack \in Nat /\ OwnTime \in Nat
  BY <1>2, TimesAreNatural DEF Executions
<1>4. /\ execution.spent + execution.expires <= execution.clock + OwnTime
      /\ execution.clock + OwnTime <= execution.spent + execution.expires + slack
      /\ execution.expired => execution.spent + slack >= OwnTime
  BY <1>1, <1>2, <1>3 DEF GivenBack, UsedUp, Executions
<1> HIDE DEF slack
<1>5. /\ execution.expired \/ execution.clock >= execution.expires => execution.spent + slack >= OwnTime
      /\ ~(execution.expired \/ execution.clock >= execution.expires) => execution.spent < OwnTime
  BY <1>2, <1>3, <1>4 DEF Executions
<1> QED BY <1>5 DEF PastDeadline, slack

-----------------------------------------------------------------------------
(* The stack of calls.                                                     *)
LEMMA FramesAreFrames ==
  /\ \A at \in FrameKinds : Frame(at) \in Frames /\ Frame(at).at = at /\ Frame(at).n = 0
  /\ \A at \in FrameKinds, m \in NativeModules :
       LET f == [Frame(at) EXCEPT !.module = m] IN f \in Frames /\ f.at = at /\ f.module = m
BY DEF Frame, Frames

LEMMA PushedFrames ==
  ASSUME NEW f \in Frames, NEW s \in Seq(Frames)
  PROVE  LET t == <<f>> \o s
         IN  /\ t \in Seq(Frames) /\ t # <<>> /\ Head(t) = f /\ DOMAIN t = 1..(Len(s) + 1) /\ t[1] = f
             /\ \A i \in DOMAIN t : i > 1 => i - 1 \in DOMAIN s /\ t[i] = s[i - 1]
<1> HIDE DEF Frames
<1> QED BY ConcatProperties, Z3

LEMMA PoppedFrames ==
  ASSUME NEW s \in Seq(Frames), s # <<>>
  PROVE  /\ Tail(s) \in Seq(Frames) /\ Head(s) = s[1] /\ 1 \in DOMAIN s
         /\ \A i \in DOMAIN Tail(s) : i + 1 \in DOMAIN s /\ i + 1 > 1 /\ Tail(s)[i] = s[i + 1]
         /\ Tail(s) # <<>> => Head(Tail(s)) = s[2] /\ 2 \in DOMAIN s
<1> HIDE DEF Frames
<1> QED BY HeadTailProperties

LEMMA CallIsPushed ==
  ASSUME NEW f \in Frames, NEW s \in Seq(Frames), f.n = 0, FrameIsSound(f, instances'),
         \A i \in DOMAIN s : s[i].at # "request" /\ FrameIsSound(s[i], instances'),
         running' = <<f>> \o s, GivenBack(execution', 0), UsedUp(execution')
  PROVE  StackInv'
<1> DEFINE t == <<f>> \o s
<1>1. /\ t \in Seq(Frames) /\ t # <<>> /\ Head(t) = f /\ DOMAIN t = 1..(Len(s) + 1) /\ t[1] = f
      /\ \A i \in DOMAIN t : i > 1 => i - 1 \in DOMAIN s /\ t[i] = s[i - 1]
  BY PushedFrames
<1> HIDE DEF t
<1>2. running' = t
  BY DEF t
<1>3. RequestsAreInnermost'
  BY <1>1, <1>2 DEF RequestsAreInnermost
<1>4. FramesModules'
  <2> SUFFICES ASSUME NEW i \in DOMAIN t PROVE FrameIsSound(t[i], instances')
    BY <1>2 DEF FramesModules
  <2>1. i = 1 \/ i > 1
    BY <1>1
  <2> QED BY <1>1, <2>1
<1>5. Budget'
  <2>1. UnderWay' = 0
    BY <1>1, <1>2 DEF UnderWay, Doing
  <2> QED BY <2>1 DEF Budget
<1> QED BY <1>1, <1>2, <1>3, <1>4, <1>5 DEF StackInv

LEMMA CallReturns ==
  ASSUME StackInv, running # <<>>, running' = Tail(running), UNCHANGED instances,
         GivenBack(execution', 0), UsedUp(execution')
  PROVE  StackInv'
<1>1. running \in Seq(Frames)
  BY DEF StackInv
<1>2. /\ Tail(running) \in Seq(Frames)
      /\ \A i \in DOMAIN Tail(running) : i + 1 \in DOMAIN running /\ i + 1 > 1 /\ Tail(running)[i] = running[i + 1]
      /\ Tail(running) # <<>> => Head(Tail(running)) = running[2] /\ 2 \in DOMAIN running
  BY <1>1, PoppedFrames
<1>3. \A i \in DOMAIN running : i > 1 => running[i].at # "request"
  BY DEF StackInv, RequestsAreInnermost
<1>4. RequestsAreInnermost'
  BY <1>2, <1>3 DEF RequestsAreInnermost
<1>5. FramesModules'
  <2> SUFFICES ASSUME NEW i \in DOMAIN Tail(running) PROVE FrameIsSound(Tail(running)[i], instances')
    BY DEF FramesModules
  <2>1. FrameIsSound(running[i + 1], instances)
    BY <1>2 DEF StackInv, FramesModules
  <2> QED BY <1>2, <2>1
<1>6. Budget'
  <2>1. Tail(running) # <<>> => Head(Tail(running)).at # "request"
    BY <1>2, <1>3
  <2>2. UnderWay' = 0
    BY <2>1 DEF UnderWay, Doing
  <2> QED BY <2>2 DEF Budget
<1> QED BY <1>2, <1>4, <1>5, <1>6 DEF StackInv

LEMMA NoCalls == running' = <<>> => StackInv'
BY DEF StackInv, RequestsAreInnermost, Budget, FramesModules

LEMMA OneCall ==
  ASSUME NEW f \in Frames, f.n = 0, FrameIsSound(f, instances'), running' = <<f>>, GivenBack(execution', 0), UsedUp(execution')
  PROVE  StackInv'
<1>1. running' \in Seq(Frames) /\ DOMAIN running' = {1} /\ running'[1] = f /\ Head(running') = f
  <2> HIDE DEF Frames
  <2> QED OBVIOUS
<1>2. UnderWay' = 0
  BY <1>1 DEF UnderWay, Doing
<1> QED BY <1>1, <1>2 DEF StackInv, RequestsAreInnermost, Budget, FramesModules


(* While no request is under way.                                          *)
LEMMA NotInARequest ==
  ASSUME StackInv, Active, Doing # "request"
  PROVE  /\ GivenBack(execution, 0) /\ UsedUp(execution) /\ running # <<>> /\ running \in Seq(Frames) /\ Head(running) = running[1]
         /\ 1 \in DOMAIN running /\ \A i \in DOMAIN running : running[i].at # "request" /\ FrameIsSound(running[i], instances)
<1>1. running # <<>> /\ running \in Seq(Frames)
  BY DEF StackInv, Active
<1>2. Head(running) = running[1] /\ 1 \in DOMAIN running
  BY <1>1, PoppedFrames
<1>3. running[1].at # "request"
  BY <1>1, <1>2 DEF Doing
<1>4. \A i \in DOMAIN running : i > 1 => running[i].at # "request"
  BY DEF StackInv, RequestsAreInnermost
<1>5. \A i \in DOMAIN running : i = 1 \/ i > 1
  <2> HIDE DEF Frames
  <2> QED BY <1>1
<1>6. GivenBack(execution, 0) /\ UsedUp(execution)
  BY <1>1 DEF StackInv, Budget, UnderWay
<1> QED BY <1>1, <1>2, <1>3, <1>4, <1>5, <1>6 DEF StackInv, FramesModules

(* The time of an execution does not depend on what its value is or how    *)
(* many jobs it executed.                                                  *)
LEMMA SameTimes ==
  ASSUME NEW s \in Executions, NEW t \in Executions, NEW p \in Nat, GivenBack(s, p),
         t.clock = s.clock, t.expires = s.expires, t.spent = s.spent, t.hosts = s.hosts
  PROVE  GivenBack(t, p) /\ ((t.expired = s.expired /\ UsedUp(s)) => UsedUp(t))
BY DEF GivenBack, UsedUp

LEMMA NewExecutionIsFresh ==
  ASSUME NEW value \in Values
  PROVE  NewExecution(value) \in Executions /\ GivenBack(NewExecution(value), 0) /\ UsedUp(NewExecution(value))
<1> DEFINE e == NewExecution(value)
<1>1. /\ NoExecution \in Executions /\ NoExecution.clock = 0 /\ NoExecution.spent = 0 /\ NoExecution.hosts = 0
      /\ NoExecution.expired = FALSE
  BY DEF NoExecution, Executions, Values
<1>0. e = [NoExecution EXCEPT !.expires = OwnTime, !.value = value]
  BY DEF NewExecution, OwnTime
<1>2. e \in Executions /\ e.clock = 0 /\ e.expires = OwnTime /\ e.spent = 0 /\ e.hosts = 0 /\ e.expired = FALSE
  <2> HIDE DEF e
  <2> QED BY <1>0, <1>1, TimesAreNatural DEF Executions
<1> HIDE DEF e
<1>3. e.hosts * (TicksPerMs - 1) = 0
  BY <1>2, TimesAreNatural
<1>4. GivenBack(e, 0) /\ UsedUp(e)
  BY <1>2, <1>3, TimesAreNatural DEF GivenBack, UsedUp
<1> QED BY <1>2, <1>4 DEF e

-----------------------------------------------------------------------------
(* One step per operation.                                                 *)
LEMMA SameModules == ModulesInv /\ UNCHANGED Modules => ModulesInv'
BY DEF ModulesInv, Modules, Among
LEMMA SameJobs == JobsInv /\ UNCHANGED <<pendingJobs, queued>> => JobsInv'
BY DEF JobsInv
LEMMA SameResults == ResultsInv /\ UNCHANGED scriptResult => ResultsInv'
BY DEF ResultsInv
LEMMA NoResult == scriptResult' = NoScriptResult => ResultsInv'
<1>1. NoScriptResult \in [is : ResultKinds, spent : Nat, hosts : Nat] /\ NoScriptResult.is = "none"
  BY DEF NoScriptResult, ResultKinds
<1> QED BY <1>1 DEF ResultsInv

LEMMA ScopeIsEntered ==
  ASSUME NEW f \in Frames, NEW value \in Values, f.n = 0, FrameIsSound(f, instances'), EnterScope(f, value)
  PROVE  StackInv' /\ execution' \in Executions /\ ResultsInv'
<1>1. execution' \in Executions /\ GivenBack(execution', 0) /\ UsedUp(execution')
  BY NewExecutionIsFresh DEF EnterScope
<1>2. StackInv'
  BY <1>1, OneCall DEF EnterScope
<1> QED BY <1>1, <1>2, NoResult DEF EnterScope

LEMMA PlainFrames ==
  ASSUME NEW at \in FrameKinds \ {"convert", "native", "initialize"}, NEW list
  PROVE  Frame(at) \in Frames /\ Frame(at).n = 0 /\ Frame(at).at = at /\ FrameIsSound(Frame(at), list)
BY FramesAreFrames DEF FrameIsSound, FrameKinds

LEMMA EntersPlainly ==
  ASSUME EngineInv, NEW at \in FrameKinds \ {"convert", "native", "initialize"}, NEW value \in Values,
         EnterScope(Frame(at), value), UNCHANGED <<pendingJobs, queued, Modules>>
  PROVE  EngineInv'
<1>1. Frame(at) \in Frames /\ Frame(at).n = 0 /\ FrameIsSound(Frame(at), instances')
  BY PlainFrames
<1>2. StackInv' /\ execution' \in Executions /\ ResultsInv'
  BY <1>1, ScopeIsEntered
<1> QED BY <1>2, SameModules, SameJobs DEF EngineInv


(* A tick of a request is one more under way, any other is spent.          *)
LEMMA TicksAreCounted ==
  ASSUME NEW s \in Executions, NEW e \in Executions, NEW p \in Nat, NEW q \in Nat, GivenBack(s, p), UsedUp(s),
         e.clock = s.clock + 1, e.expires = s.expires, e.hosts = s.hosts, e.expired = s.expired,
         (e.spent = s.spent /\ q = p + 1) \/ (e.spent = s.spent + 1 /\ q = p)
  PROVE  GivenBack(e, q) /\ UsedUp(e)
<1> DEFINE slack == s.hosts * (TicksPerMs - 1)
<1>1. slack \in Nat /\ OwnTime \in Nat /\ e.hosts * (TicksPerMs - 1) = slack
  BY TimesAreNatural DEF Executions
<1>2. /\ s.spent + s.expires + p <= s.clock + OwnTime /\ s.clock + OwnTime <= s.spent + s.expires + p + slack
      /\ s.expired => s.spent + slack >= OwnTime
  BY DEF GivenBack, UsedUp
<1> HIDE DEF slack
<1>3. {s.clock, s.spent, s.expires, s.hosts, e.spent} \subseteq Nat
  BY DEF Executions
<1>4. e.spent + e.expires + q <= e.clock + OwnTime /\ e.clock + OwnTime <= e.spent + e.expires + q + slack
  BY <1>1, <1>2, <1>3
<1>5. e.expired => e.spent + slack >= OwnTime
  BY <1>1, <1>2, <1>3
<1> QED BY <1>1, <1>4, <1>5 DEF GivenBack, UsedUp

LEMMA TimeKeeps == EngineInv /\ TimeGoesBy => EngineInv'
<1> SUFFICES ASSUME EngineInv, TimeGoesBy PROVE EngineInv'
  OBVIOUS
<1>1. execution \in Executions /\ running \in Seq(Frames) /\ running # <<>> /\ GivenBack(execution, UnderWay) /\ UsedUp(execution)
  BY DEF EngineInv, StackInv, Budget, TimeGoesBy, Active
<1>2. Head(running) = running[1] /\ 1 \in DOMAIN running /\ running[1] \in Frames /\ running[1].n \in Nat
  <2>1. running[1] \in Frames /\ Head(running) = running[1] /\ 1 \in DOMAIN running
    <3> HIDE DEF Frames
    <3> QED BY <1>1, PoppedFrames
  <2> QED BY <2>1 DEF Frames
<1> DEFINE e == execution'
<1>3. /\ e \in Executions /\ e.clock = execution.clock + 1 /\ e.expires = execution.expires /\ e.hosts = execution.hosts
      /\ e.expired = execution.expired /\ e.spent = IF Doing = "request" THEN execution.spent ELSE execution.spent + 1
  <2> DEFINE v == IF Doing = "request" THEN execution.spent ELSE execution.spent + 1
  <2>1. v \in Nat
    BY <1>1 DEF Executions
  <2>2. e = [execution EXCEPT !.clock = @ + 1, !.spent = v]
    BY DEF TimeGoesBy
  <2> HIDE DEF v, e
  <2>3. e \in Executions /\ e.clock = execution.clock + 1 /\ e.spent = v /\ e.expires = execution.expires
        /\ e.hosts = execution.hosts /\ e.expired = execution.expired
    <3> DEFINE x == [execution EXCEPT !.clock = @ + 1]
    <3>1. /\ x \in Executions /\ x.clock = execution.clock + 1 /\ x.expires = execution.expires
          /\ x.hosts = execution.hosts /\ x.expired = execution.expired
      BY <1>1 DEF Executions
    <3>2. e = [x EXCEPT !.spent = v]
      BY <2>2
    <3> HIDE DEF x
    <3> QED BY <2>1, <3>1, <3>2 DEF Executions
  <2> QED BY <2>3 DEF v
<1> HIDE DEF e
<1>6. instances' = instances
  BY DEF TimeGoesBy, Modules
<1>7. CASE Doing = "request"
  <2> DEFINE t == [running EXCEPT ![1].n = @ + 1]
  <2>1. running' = t
    BY <1>7 DEF TimeGoesBy
  <2>2. [running[1] EXCEPT !.n = @ + 1] \in Frames /\ [running[1] EXCEPT !.n = @ + 1].at = running[1].at
        /\ [running[1] EXCEPT !.n = @ + 1].module = running[1].module /\ [running[1] EXCEPT !.n = @ + 1].n = running[1].n + 1
    BY <1>2 DEF Frames
  <2>3. t \in Seq(Frames) /\ t # <<>> /\ DOMAIN t = DOMAIN running /\ Head(t) = t[1] /\ t[1] = [running[1] EXCEPT !.n = @ + 1]
        /\ \A i \in DOMAIN t : i # 1 => t[i] = running[i]
    <3> HIDE DEF Frames
    <3>1. t = [running EXCEPT ![1] = [running[1] EXCEPT !.n = @ + 1]]
      OBVIOUS
    <3> HIDE DEF t
    <3>2. t \in Seq(Frames) /\ DOMAIN t = DOMAIN running /\ Len(t) = Len(running) /\ t[1] = [running[1] EXCEPT !.n = @ + 1]
      BY <1>1, <1>2, <2>2, <3>1
    <3> QED BY <1>1, <1>2, <3>1, <3>2
  <2> HIDE DEF t
  <2>4. \A i \in DOMAIN t : t[i].at = running[i].at /\ t[i].module = running[i].module
    BY <2>2, <2>3
  <2>5. UnderWay = running[1].n /\ UnderWay' = running[1].n + 1
    <3>1. Doing' = "request" /\ Head(running') = t[1]
      BY <1>1, <1>2, <1>7, <2>1, <2>2, <2>3 DEF Doing
    <3> QED BY <1>2, <1>7, <2>2, <2>3, <3>1 DEF UnderWay
  <2>6. GivenBack(e, running[1].n + 1) /\ UsedUp(e)
    BY <1>1, <1>2, <1>3, <1>7, <2>5, TicksAreCounted
  <2>7. RequestsAreInnermost'
    BY <2>1, <2>3, <2>4 DEF EngineInv, StackInv, RequestsAreInnermost
  <2>8. FramesModules'
    BY <1>6, <2>1, <2>3, <2>4 DEF EngineInv, StackInv, FramesModules, FrameIsSound
  <2>9. StackInv'
    BY <2>1, <2>3, <2>5, <2>6, <2>7, <2>8 DEF StackInv, Budget, e
  <2> QED BY <1>3, <2>9, SameModules, SameJobs, SameResults DEF EngineInv, TimeGoesBy, e
<1>8. CASE Doing # "request"
  <2>1. running' = running /\ UnderWay = 0 /\ UnderWay' = 0
    BY <1>8 DEF TimeGoesBy, UnderWay, Doing
  <2>2. GivenBack(e, 0) /\ UsedUp(e)
    BY <1>1, <1>3, <1>8, <2>1, TicksAreCounted
  <2>3. StackInv'
    BY <1>6, <2>1, <2>2 DEF EngineInv, StackInv, Budget, RequestsAreInnermost, FramesModules, e
  <2> QED BY <1>3, <2>3, SameModules, SameJobs, SameResults DEF EngineInv, TimeGoesBy, e
<1> QED BY <1>7, <1>8

LEMMA QueueKeeps == EngineInv /\ QueueMicrotask => EngineInv'
<1> SUFFICES ASSUME EngineInv, QueueMicrotask PROVE EngineInv'
  OBVIOUS
<1>1. JobsInv'
  BY AppendProperties DEF EngineInv, JobsInv, QueueMicrotask
<1>2. StackInv'
  BY DEF EngineInv, StackInv, RequestsAreInnermost, Budget, UnderWay, Doing, FramesModules, QueueMicrotask, Modules
<1> QED BY <1>1, <1>2, SameModules, SameResults DEF EngineInv, QueueMicrotask

(* Whatever is called from page code or from a loop over the jobs, with    *)
(* the time it has unchanged.                                              *)
LEMMA CallKeeps ==
  ASSUME EngineInv, Active, Doing # "request", NEW f \in Frames, f.n = 0, FrameIsSound(f, instances),
         Push(f), execution' \in Executions, UNCHANGED <<scriptResult, Modules>>, JobsInv',
         execution'.clock = execution.clock, execution'.expires = execution.expires, execution'.spent = execution.spent,
         execution'.hosts = execution.hosts, execution'.expired = execution.expired
  PROVE  EngineInv'
<1>1. GivenBack(execution, 0) /\ UsedUp(execution) /\ running \in Seq(Frames)
      /\ \A i \in DOMAIN running : running[i].at # "request" /\ FrameIsSound(running[i], instances)
  BY NotInARequest DEF EngineInv
<1>2. instances' = instances
  BY DEF Modules
<1>3. GivenBack(execution', 0) /\ UsedUp(execution')
  BY <1>1, SameTimes DEF EngineInv
<1>4. StackInv'
  <2> DEFINE s == running
  <2>1. \A i \in DOMAIN s : s[i].at # "request" /\ FrameIsSound(s[i], instances')
    BY <1>1, <1>2
  <2>2. running' = <<f>> \o s /\ FrameIsSound(f, instances')
    BY <1>2 DEF Push
  <2> QED BY <1>1, <1>3, <2>1, <2>2, CallIsPushed
<1> QED BY <1>4, SameModules, SameResults DEF EngineInv

LEMMA PageCodeIsNoRequest == InPageCode => Active /\ Doing # "request"
BY DEF InPageCode, Doing, Active

LEMMA CallOutKeeps ==
  ASSUME EngineInv, InPageCode, NEW at \in {"request", "console", "binding", "drain"}, Push(Frame(at)),
         UNCHANGED <<execution, pendingJobs, queued, scriptResult, Modules>>
  PROVE  EngineInv'
<1>1. Frame(at) \in Frames /\ Frame(at).n = 0 /\ FrameIsSound(Frame(at), instances)
  BY PlainFrames DEF FrameKinds
<1> QED BY <1>1, CallKeeps, PageCodeIsNoRequest, SameJobs DEF EngineInv

LEMMA InvokeKeeps == ASSUME EngineInv, NEW m \in NativeModules, Invoke(m) PROVE EngineInv'
<1> DEFINE f == [Frame("convert") EXCEPT !.module = m]
<1>1. f \in Frames /\ f.n = 0 /\ f.at = "convert" /\ f.module = m
  BY DEF Frame, Frames, FrameKinds
<1> HIDE DEF f
<1>2. FrameIsSound(f, instances)
  BY <1>1 DEF FrameIsSound, Invoke, IsInstalled, Among
<1> QED BY <1>1, <1>2, CallKeeps, PageCodeIsNoRequest, SameJobs DEF EngineInv, Invoke, f

LEMMA TakenJob == JobsInv /\ pendingJobs # <<>> /\ pendingJobs' = Tail(pendingJobs) /\ UNCHANGED queued => JobsInv'
<1> SUFFICES ASSUME JobsInv, pendingJobs # <<>>, pendingJobs' = Tail(pendingJobs), UNCHANGED queued PROVE JobsInv'
  OBVIOUS
<1> QED BY HeadTailProperties DEF JobsInv

LEMMA DrainKeeps == EngineInv /\ DrainMicrotask => EngineInv'
<1> SUFFICES ASSUME EngineInv, DrainMicrotask PROVE EngineInv'
  OBVIOUS
<1>1. Frame("job") \in Frames /\ Frame("job").n = 0 /\ FrameIsSound(Frame("job"), instances)
  BY PlainFrames DEF FrameKinds
<1>2. execution \in Executions
  BY DEF EngineInv
<1>3. /\ execution' \in Executions /\ execution'.clock = execution.clock /\ execution'.expires = execution.expires
      /\ execution'.spent = execution.spent /\ execution'.hosts = execution.hosts /\ execution'.expired = execution.expired
  BY <1>2 DEF DrainMicrotask, Executions
<1>4. Active /\ Doing # "request"
  BY DEF DrainMicrotask, Doing, Active
<1>5. JobsInv'
  BY TakenJob DEF EngineInv, DrainMicrotask, StartJob
<1> QED BY <1>1, <1>3, <1>4, <1>5, CallKeeps DEF DrainMicrotask, StartJob

(* Whatever returns to the call it was made from.                          *)
LEMMA ReturnKeeps ==
  ASSUME EngineInv, Active, Doing # "request", Pop, UNCHANGED <<execution, pendingJobs, queued, scriptResult, Modules>>
  PROVE  EngineInv'
<1>1. GivenBack(execution, 0) /\ UsedUp(execution) /\ running # <<>>
  BY NotInARequest DEF EngineInv
<1>2. StackInv'
  BY <1>1, CallReturns DEF EngineInv, Pop, Modules
<1> QED BY <1>2, SameModules, SameJobs, SameResults DEF EngineInv


LEMMA ResponseKeeps == EngineInv /\ HostResponse => EngineInv'
<1> SUFFICES ASSUME EngineInv, HostResponse PROVE EngineInv'
  OBVIOUS
<1> DEFINE n == Head(running).n
           back == (n \div TicksPerMs) * TicksPerMs
           s == execution
           e == execution'
<1>1. s \in Executions /\ running \in Seq(Frames) /\ running # <<>> /\ GivenBack(s, n) /\ UsedUp(s)
  BY DEF EngineInv, StackInv, Budget, HostResponse, UnderWay, Doing
<1>2. n \in Nat
  <2>1. Head(running) \in Frames
    <3> HIDE DEF Frames
    <3> QED BY <1>1
  <2> QED BY <2>1 DEF Frames
<1>3. back \in Nat /\ back <= n /\ n <= back + (TicksPerMs - 1) /\ (n = 0 => back = 0)
  BY <1>2, WholeMilliseconds
<1>4. e = [ExtendDeadline(s, n) EXCEPT !.hosts = IF n > 0 THEN @ + 1 ELSE @]
  BY DEF HostResponse
<1> DEFINE x == ExtendDeadline(s, n)
<1>5. x = [s EXCEPT !.expires = @ + back]
  BY DEF ExtendDeadline
<1> HIDE DEF n, back, x
<1>6. /\ x \in Executions /\ x.clock = s.clock /\ x.spent = s.spent /\ x.expires = s.expires + back /\ x.hosts = s.hosts
      /\ x.expired = s.expired
  BY <1>1, <1>3, <1>5 DEF Executions
<1>7. e = [x EXCEPT !.hosts = IF n > 0 THEN x.hosts + 1 ELSE x.hosts]
  BY <1>4 DEF x
<1> HIDE DEF e
<1>8. /\ e \in Executions /\ e.clock = s.clock /\ e.spent = s.spent /\ e.expires = s.expires + back
      /\ e.hosts = (IF n > 0 THEN s.hosts + 1 ELSE s.hosts) /\ e.expired = s.expired
  BY <1>2, <1>6, <1>7 DEF Executions
<1> DEFINE slack == s.hosts * (TicksPerMs - 1)
           more == e.hosts * (TicksPerMs - 1)
<1>9. slack \in Nat /\ more \in Nat /\ OwnTime \in Nat /\ TicksPerMs - 1 \in Nat
  BY <1>1, <1>8, TimesAreNatural DEF Executions
<1>10. more = IF n > 0 THEN slack + (TicksPerMs - 1) ELSE slack
  <2>1. s.hosts \in Nat
    BY <1>1 DEF Executions
  <2>2. (s.hosts + 1) * (TicksPerMs - 1) = slack + (TicksPerMs - 1)
    BY <2>1, <1>9
  <2> QED BY <1>8, <2>2
<1>11. /\ s.spent + s.expires + n <= s.clock + OwnTime /\ s.clock + OwnTime <= s.spent + s.expires + n + slack
       /\ s.expired => s.spent + slack >= OwnTime
  BY <1>1 DEF GivenBack, UsedUp
<1>12. {s.clock, s.spent, s.expires, s.hosts} \subseteq Nat
  BY <1>1 DEF Executions
<1> HIDE DEF slack, more
<1>13. /\ e.spent + e.expires <= e.clock + OwnTime /\ e.clock + OwnTime <= e.spent + e.expires + more
       /\ e.expired => e.spent + more >= OwnTime
  BY <1>2, <1>3, <1>8, <1>9, <1>10, <1>11, <1>12
<1>14. GivenBack(e, 0) /\ UsedUp(e)
  BY <1>8, <1>9, <1>13 DEF GivenBack, UsedUp, Executions, more
<1>15. StackInv'
  BY <1>1, <1>14, CallReturns DEF EngineInv, HostResponse, Pop, Modules, e
<1> QED BY <1>8, <1>15, SameModules, SameJobs, SameResults DEF EngineInv, HostResponse, e

(* How an evaluation ends.                                                 *)
LEMMA LeaveKeeps ==
  ASSUME EngineInv, NEW is \in ResultKinds, Leave(is),
         is = "ok" => execution.spent < OwnTime,
         is = "deadline" => execution.spent + execution.hosts * (TicksPerMs - 1) >= OwnTime
  PROVE  StackInv' /\ execution' \in Executions /\ ResultsInv'
<1>1. execution \in Executions /\ execution.spent \in Nat /\ execution.hosts \in Nat
  BY DEF EngineInv, Executions
<1> DEFINE r == [is |-> is, spent |-> execution.spent, hosts |-> execution.hosts]
<1>2. r \in [is : ResultKinds, spent : Nat, hosts : Nat] /\ r.is = is /\ r.spent = execution.spent /\ r.hosts = execution.hosts
  BY <1>1
<1>3. scriptResult' = r
  BY DEF Leave
<1> HIDE DEF r
<1>4. ResultsInv'
  BY <1>2, <1>3 DEF ResultsInv
<1>5. NoExecution \in Executions
  BY DEF NoExecution, Executions, Values
<1> QED BY <1>4, <1>5, NoCalls DEF Leave

LEMMA EvaluationEnds ==
  ASSUME EngineInv, Active, Doing # "request", NEW checkpoint \in {"ok", "limit", "error", "deadline"}, EndsWith(checkpoint),
         (checkpoint = "ok" => ~PastDeadline(execution)) /\ (checkpoint = "deadline" => PastDeadline(execution)),
         UNCHANGED <<pendingJobs, queued, Modules>>
  PROVE  EngineInv'
<1>1. PICK is \in Outcomes(checkpoint) : Leave(is)
  BY DEF EndsWith
<1>2. /\ PastDeadline(execution) => execution.spent + execution.hosts * (TicksPerMs - 1) >= OwnTime
      /\ ~PastDeadline(execution) => execution.spent < OwnTime
  BY DeadlineIsHonest DEF EngineInv, StackInv
<1>3. /\ is \in ResultKinds /\ (is = "deadline" => PastDeadline(execution)) /\ (is = "ok" => ~PastDeadline(execution))
  BY DEF Outcomes, ResultKinds
<1>4. StackInv' /\ execution' \in Executions /\ ResultsInv'
  BY <1>1, <1>2, <1>3, LeaveKeeps
<1> QED BY <1>4, SameModules, SameJobs DEF EngineInv

LEMMA CheckpointKeeps == EngineInv /\ CheckpointEnds => EngineInv'
<1> SUFFICES ASSUME EngineInv, CheckpointEnds PROVE EngineInv'
  OBVIOUS
<1>1. Active /\ Doing # "request"
  BY DEF CheckpointEnds, Doing, Active
<1>2. UNCHANGED <<pendingJobs, queued, Modules>>
  BY DEF CheckpointEnds
<1>3. \/ (~PastDeadline(execution) /\ EndsWith("ok")) \/ (PastDeadline(execution) /\ EndsWith("deadline"))
      \/ EndsWith("limit") \/ (PastDeadline(execution) /\ Leave("deadline"))
  BY DEF CheckpointEnds
<1>4. ASSUME PastDeadline(execution), Leave("deadline") PROVE EngineInv'
  <2>1. StackInv' /\ execution' \in Executions /\ ResultsInv'
    BY <1>1, <1>4, DeadlineIsHonest, LeaveKeeps DEF EngineInv, StackInv, ResultKinds
  <2> QED BY <1>2, <2>1, SameModules, SameJobs DEF EngineInv
<1> QED BY <1>1, <1>2, <1>3, <1>4, EvaluationEnds


(* A script that has run, with or without an exception, is followed by its *)
(* checkpoint.                                                             *)
LEMMA ToCheckpoint ==
  ASSUME EngineInv, NEW s \in Executions, GivenBack(s, 0), UsedUp(s), Checkpoint(s), UNCHANGED <<pendingJobs, queued, Modules>>
  PROVE  EngineInv'
<1>1. Frame("checkpoint") \in Frames /\ Frame("checkpoint").n = 0 /\ FrameIsSound(Frame("checkpoint"), instances')
  BY PlainFrames DEF FrameKinds
<1>2. StackInv'
  BY <1>1, OneCall DEF Checkpoint
<1> QED BY <1>2, SameModules, SameJobs, SameResults DEF EngineInv, Checkpoint

LEMMA ValueIsNoTime ==
  ASSUME NEW s \in Executions, GivenBack(s, 0), UsedUp(s), NEW value \in Values
  PROVE  LET e == [s EXCEPT !.value = value] IN e \in Executions /\ GivenBack(e, 0) /\ UsedUp(e)
<1> DEFINE e == [s EXCEPT !.value = value]
<1>1. /\ e \in Executions /\ e.clock = s.clock /\ e.expires = s.expires /\ e.spent = s.spent /\ e.hosts = s.hosts
      /\ e.expired = s.expired
  BY DEF Executions
<1> HIDE DEF e
<1>2. GivenBack(e, 0) /\ UsedUp(e)
  BY <1>1, SameTimes
<1> QED BY <1>1, <1>2 DEF e

LEMMA ScriptEndKeeps == EngineInv /\ ScriptEnds => EngineInv'
<1> SUFFICES ASSUME EngineInv, Doing \in {"script", "setter", "job"}, NEW value \in {"ok", "promise", "error"}, ScriptReturns(value)
             PROVE  EngineInv'
  BY DEF ScriptEnds
<1>1. Active /\ Doing # "request"
  BY DEF Doing, Active
<1>2. UNCHANGED <<pendingJobs, queued, Modules>>
  BY DEF ScriptReturns
<1>3. GivenBack(execution, 0) /\ UsedUp(execution) /\ execution \in Executions /\ value \in Values
  BY <1>1, NotInARequest DEF EngineInv, Values
<1>4. CASE Doing = "script"
  <2> DEFINE e == [execution EXCEPT !.value = value]
  <2>1. e \in Executions /\ GivenBack(e, 0) /\ UsedUp(e)
    BY <1>3, ValueIsNoTime
  <2>2. Checkpoint(e)
    BY <1>4 DEF ScriptReturns
  <2> HIDE DEF e
  <2> QED BY <1>2, <2>1, <2>2, ToCheckpoint
<1>5. CASE Doing = "setter"
  <2>1. Leave("none")
    BY <1>5 DEF ScriptReturns
  <2> QED BY <1>2, <2>1, LeaveKeeps, SameModules, SameJobs DEF EngineInv, ResultKinds
<1>6. CASE Doing = "job"
  <2>1. JobEnds(value # "error")
    BY <1>6 DEF ScriptReturns
  <2>2. (Pop /\ UNCHANGED <<execution, scriptResult>>) \/ EndsWith("error")
    BY <2>1 DEF JobEnds
  <2> QED BY <1>1, <1>2, <2>2, ReturnKeeps, EvaluationEnds
<1> QED BY <1>4, <1>5, <1>6

LEMMA InterruptKeeps == EngineInv /\ InterruptAtDeadline => EngineInv'
<1> SUFFICES ASSUME EngineInv, InterruptAtDeadline PROVE EngineInv'
  OBVIOUS
<1>1. Active /\ Doing # "request" /\ PastDeadline(execution) /\ UNCHANGED <<pendingJobs, queued, Modules>>
  BY PageCodeIsNoRequest DEF InterruptAtDeadline
<1>2. GivenBack(execution, 0) /\ UsedUp(execution) /\ running # <<>> /\ execution \in Executions
  BY <1>1, NotInARequest DEF EngineInv
<1>3. execution.spent + execution.hosts * (TicksPerMs - 1) >= OwnTime
  BY <1>1, DeadlineIsHonest DEF EngineInv, StackInv
<1> DEFINE late == [execution EXCEPT !.expired = TRUE]
<1>4. late \in Executions /\ GivenBack(late, 0) /\ UsedUp(late)
  <2>1. /\ late \in Executions /\ late.clock = execution.clock /\ late.expires = execution.expires
        /\ late.spent = execution.spent /\ late.hosts = execution.hosts
    BY <1>2 DEF Executions
  <2> HIDE DEF late
  <2> QED BY <1>2, <1>3, <2>1, SameTimes DEF UsedUp
<1>5. \/ Checkpoint([late EXCEPT !.value = "error"]) \/ Leave("none") \/ Leave("deadline") \/ Leave("error")
      \/ (Pop /\ execution' = late /\ UNCHANGED scriptResult)
  BY DEF InterruptAtDeadline, InPageCode
<1> HIDE DEF late
<1>6. CASE Checkpoint([late EXCEPT !.value = "error"])
  <2> DEFINE e == [late EXCEPT !.value = "error"]
  <2>1. e \in Executions /\ GivenBack(e, 0) /\ UsedUp(e)
    BY <1>4, ValueIsNoTime DEF Values
  <2> HIDE DEF e
  <2>2. Checkpoint(e)
    BY <1>6 DEF e
  <2> QED BY <1>1, <2>1, <2>2, ToCheckpoint
<1>7. CASE Leave("none")
  BY <1>1, <1>7, LeaveKeeps, SameModules, SameJobs DEF EngineInv, ResultKinds
<1>8. CASE Leave("deadline")
  BY <1>1, <1>3, <1>8, LeaveKeeps, SameModules, SameJobs DEF EngineInv, ResultKinds
<1>9. CASE Pop /\ execution' = late /\ UNCHANGED scriptResult
  <2>1. StackInv'
    BY <1>1, <1>2, <1>4, <1>9, CallReturns DEF EngineInv, Pop, Modules
  <2> QED BY <1>1, <1>4, <1>9, <2>1, SameModules, SameJobs, SameResults DEF EngineInv
<1>10. CASE Leave("error")
  BY <1>1, <1>10, LeaveKeeps, SameModules, SameJobs DEF EngineInv, ResultKinds
<1> QED BY <1>5, <1>6, <1>7, <1>8, <1>9, <1>10

(* The innermost call goes on as another, and may call.                    *)
LEMMA ChangedInnermost ==
  ASSUME NEW s \in Seq(Frames), s # <<>>, NEW g \in Frames
  PROVE  LET t == [s EXCEPT ![1] = g]
         IN  t \in Seq(Frames) /\ t # <<>> /\ DOMAIN t = DOMAIN s /\ Head(t) = g /\ \A i \in DOMAIN t : t[i] = IF i = 1 THEN g ELSE s[i]
<1> HIDE DEF Frames
<1> DEFINE t == [s EXCEPT ![1] = g]
<1>1. 1 \in DOMAIN s
  OBVIOUS
<1>2. t \in Seq(Frames) /\ DOMAIN t = DOMAIN s /\ Len(t) = Len(s) /\ \A i \in DOMAIN t : t[i] = IF i = 1 THEN g ELSE s[i]
  BY <1>1
<1> HIDE DEF t
<1>3. t # <<>> /\ Head(t) = g
  BY <1>1, <1>2
<1> QED BY <1>2, <1>3 DEF t

LEMMA PendingJobKeeps == EngineInv /\ RunPendingJob => EngineInv'
<1> SUFFICES ASSUME EngineInv, RunPendingJob PROVE EngineInv'
  OBVIOUS
<1>1. Active /\ Doing = "drain" /\ UNCHANGED <<execution, scriptResult, Modules>> /\ instances' = instances
  BY DEF RunPendingJob, Doing, Active, StartJob, Modules
<1>2. /\ GivenBack(execution, 0) /\ UsedUp(execution) /\ running # <<>> /\ running \in Seq(Frames)
      /\ 1 \in DOMAIN running /\ running[1].at = "drain"
      /\ \A i \in DOMAIN running : running[i].at # "request" /\ FrameIsSound(running[i], instances)
  <2>1. running # <<>>
    BY <1>1 DEF Active
  <2> QED BY <1>1, <2>1, NotInARequest DEF EngineInv, Doing
<1> DEFINE g == [running[1] EXCEPT !.n = @ + 1]
           s == [running EXCEPT ![1] = g]
<1>3. g \in Frames /\ g.at = "drain"
  <2>1. running[1] \in Frames
    <3> HIDE DEF Frames
    <3> QED BY <1>2
  <2> QED BY <1>2, <2>1 DEF Frames
<1>4. running' = <<Frame("job")>> \o s
  BY DEF RunPendingJob
<1> HIDE DEF g
<1>5. s \in Seq(Frames) /\ DOMAIN s = DOMAIN running /\ \A i \in DOMAIN s : s[i] = IF i = 1 THEN g ELSE running[i]
  BY <1>2, <1>3, ChangedInnermost
<1> HIDE DEF s
<1>6. FrameIsSound(g, instances)
  BY <1>3 DEF FrameIsSound
<1>7. \A i \in DOMAIN s : s[i].at # "request" /\ FrameIsSound(s[i], instances')
  BY <1>1, <1>2, <1>3, <1>5, <1>6
<1>8. Frame("job") \in Frames /\ Frame("job").n = 0 /\ FrameIsSound(Frame("job"), instances')
  BY PlainFrames DEF FrameKinds
<1>9. StackInv'
  BY <1>1, <1>2, <1>4, <1>5, <1>7, <1>8, CallIsPushed
<1>10. JobsInv'
  BY TakenJob DEF EngineInv, RunPendingJob, StartJob
<1> QED BY <1>1, <1>9, <1>10, SameModules, SameResults DEF EngineInv

LEMMA ArgumentsKeep == EngineInv /\ ArgumentsConverted => EngineInv'
<1> SUFFICES ASSUME EngineInv, ArgumentsConverted PROVE EngineInv'
  OBVIOUS
<1>1. Active /\ Doing = "convert" /\ UNCHANGED <<execution, pendingJobs, queued, scriptResult, known, instances, lived>>
  BY DEF ArgumentsConverted, Doing, Active
<1>2. /\ GivenBack(execution, 0) /\ UsedUp(execution) /\ running # <<>> /\ running \in Seq(Frames)
      /\ 1 \in DOMAIN running /\ running[1].at = "convert" /\ Head(running) = running[1]
      /\ \A i \in DOMAIN running : running[i].at # "request" /\ FrameIsSound(running[i], instances)
  <2>1. running # <<>>
    BY <1>1 DEF Active
  <2> QED BY <1>1, <2>1, NotInARequest DEF EngineInv, Doing
<1>3. CASE Pop /\ UNCHANGED misused
  BY <1>1, <1>3, ReturnKeeps DEF Modules
<1>4. CASE running' = [running EXCEPT ![1].at = "native"] /\ misused' = (misused \/ lived[Head(running).module] # "ready")
  <2> DEFINE g == [running[1] EXCEPT !.at = "native"]
             t == [running EXCEPT ![1] = g]
  <2>1. g \in Frames /\ g.at = "native" /\ g.module = running[1].module
    <3>1. running[1] \in Frames
      <4> HIDE DEF Frames
      <4> QED BY <1>2
    <3> QED BY <3>1 DEF Frames, FrameKinds
  <2>2. running' = t
    BY <1>4
  <2> HIDE DEF g
  <2>3. t \in Seq(Frames) /\ t # <<>> /\ DOMAIN t = DOMAIN running /\ Head(t) = g
        /\ \A i \in DOMAIN t : t[i] = IF i = 1 THEN g ELSE running[i]
    BY <1>2, <2>1, ChangedInnermost
  <2> HIDE DEF t
  <2>4. FrameIsSound(running[1], instances)
    BY <1>2
  <2>5. running[1].module \in NativeModules /\ Among(running[1].module, instances)
    BY <1>2, <2>4 DEF FrameIsSound
  <2>6. FrameIsSound(g, instances)
    BY <2>1, <2>5 DEF FrameIsSound
  <2>7. lived[running[1].module] = "ready" /\ ~misused
    BY <2>5 DEF EngineInv, ModulesInv
  <2>8. ModulesInv'
    BY <1>1, <1>2, <1>4, <2>7 DEF EngineInv, ModulesInv, Among
  <2>9. FramesModules'
    BY <1>1, <1>2, <2>2, <2>3, <2>6 DEF FramesModules
  <2>10. RequestsAreInnermost'
    BY <1>2, <2>2, <2>3 DEF RequestsAreInnermost
  <2>11. UnderWay' = 0
    BY <2>1, <2>2, <2>3 DEF UnderWay, Doing
  <2>12. StackInv'
    BY <1>1, <1>2, <2>2, <2>3, <2>9, <2>10, <2>11 DEF StackInv, Budget
  <2> QED BY <1>1, <2>8, <2>12, SameJobs, SameResults DEF EngineInv
<1> QED BY <1>3, <1>4 DEF ArgumentsConverted


LEMMA InstallKeeps == ASSUME EngineInv, NEW m \in NativeModules, InstallModule(m) PROVE EngineInv'
<1> DEFINE f == [Frame("initialize") EXCEPT !.module = m]
<1>1. f \in Frames /\ f.n = 0 /\ f.at = "initialize" /\ f.module = m
  BY DEF Frame, Frames, FrameKinds
<1>2. EnterScope(f, "ok") /\ instances' = instances /\ misused' = misused
  BY DEF InstallModule
<1> HIDE DEF f
<1>3. ~Among(m, instances)
  BY DEF InstallModule, IsInstalled, Among
<1>4. FrameIsSound(f, instances')
  BY <1>1, <1>2, <1>3 DEF FrameIsSound
<1>5. StackInv' /\ execution' \in Executions /\ ResultsInv'
  BY <1>1, <1>2, <1>4, ScopeIsEntered DEF Values
<1>6. ModulesInv'
  <2>1. lived' \in [NativeModules -> {"none", "attempted", "ready"}] /\ lived'[m] # "ready" /\ \A k \in NativeModules : k # m => lived'[k] = lived[k]
    BY <1>3 DEF InstallModule, EngineInv, ModulesInv
  <2> QED BY <1>2, <1>3, <2>1 DEF EngineInv, ModulesInv
<1> QED BY <1>5, <1>6, SameJobs DEF EngineInv, InstallModule

LEMMA InitializedKeeps == ASSUME EngineInv, NEW ok \in BOOLEAN, Initialized(ok) PROVE EngineInv'
<1> DEFINE m == Head(running).module
<1>1. running # <<>> /\ running \in Seq(Frames) /\ Head(running).at = "initialize"
  BY DEF EngineInv, StackInv, Initialized, Doing
<1>2. FrameIsSound(Head(running), instances)
  BY <1>1, PoppedFrames DEF EngineInv, StackInv, FramesModules
<1>3. m \in NativeModules /\ ~Among(m, instances)
  BY <1>1, <1>2 DEF FrameIsSound
<1>4. /\ Leave(IF ok THEN "installed" ELSE "refused") /\ instances' = (IF ok THEN Append(instances, m) ELSE instances)
      /\ lived' = [lived EXCEPT ![m] = IF ~ok THEN "none" ELSE "ready"] /\ UNCHANGED <<pendingJobs, queued, misused>>
  BY DEF Initialized
<1> HIDE DEF m
<1>5. StackInv' /\ execution' \in Executions /\ ResultsInv'
  <2>1. \E is \in {"installed", "refused"} : Leave(is)
    BY <1>4
  <2> QED BY <2>1, LeaveKeeps DEF ResultKinds
<1>6. ModulesInv'
  <2>1. instances \in Seq(NativeModules) /\ lived \in [NativeModules -> {"none", "attempted", "ready"}] /\ ~misused
        /\ \A k \in NativeModules : lived[k] = "ready" <=> Among(k, instances)
    BY DEF EngineInv, ModulesInv
  <2>2. lived' \in [NativeModules -> {"none", "attempted", "ready"}] /\ \A k \in NativeModules : k # m => lived'[k] = lived[k]
    BY <1>3, <1>4, <2>1
  <2>3. CASE ok
    <3>1. instances' = Append(instances, m) /\ lived'[m] = "ready"
      BY <1>3, <1>4, <2>1, <2>3
    <3>2. instances' \in Seq(NativeModules) /\ \A k \in NativeModules : Among(k, instances') <=> (k = m \/ Among(k, instances))
      BY <1>3, <2>1, <3>1, AppendProperties DEF Among
    <3> QED BY <1>3, <1>4, <2>1, <2>2, <3>1, <3>2 DEF ModulesInv
  <2>4. CASE ~ok
    <3>1. instances' = instances /\ lived'[m] = "none"
      BY <1>3, <1>4, <2>1, <2>4
    <3> QED BY <1>3, <1>4, <2>1, <2>2, <3>1 DEF ModulesInv
  <2> QED BY <2>3, <2>4
<1> QED BY <1>4, <1>5, <1>6, SameJobs DEF EngineInv

LEMMA DestroyKeeps == EngineInv /\ DestroyEngine => EngineInv'
<1> SUFFICES ASSUME EngineInv, DestroyEngine PROVE EngineInv'
  OBVIOUS
<1>1. running' = <<>> /\ execution' \in Executions /\ scriptResult' = NoScriptResult
  BY DEF DestroyEngine, Active, EngineInv
<1>2. JobsInv'
  BY DEF DestroyEngine, JobsInv
<1>3. ModulesInv'
  <2>1. instances \in Seq(NativeModules) /\ lived \in [NativeModules -> {"none", "attempted", "ready"}] /\ ~misused
        /\ \A k \in NativeModules : lived[k] = "ready" <=> Among(k, instances)
    BY DEF EngineInv, ModulesInv
  <2>2. \A i \in DOMAIN instances : lived[instances[i]] = "ready"
    BY <2>1 DEF Among
  <2>3. ~misused' /\ instances' = <<>>
    BY <2>1, <2>2 DEF DestroyEngine
  <2>4. \A k \in NativeModules : ~Among(k, instances')
    BY <2>3 DEF Among
  <2>5. lived' \in [NativeModules -> {"none", "attempted", "ready"}] /\ \A k \in NativeModules : lived'[k] # "ready"
    BY <2>1 DEF DestroyEngine, IsInstalled, Among
  <2> QED BY <2>3, <2>4, <2>5 DEF ModulesInv
<1> QED BY <1>1, <1>2, <1>3, NoCalls, NoResult DEF EngineInv

LEMMA EngineStarts == EngineInit => EngineInv
<1> SUFFICES ASSUME EngineInit PROVE EngineInv
  OBVIOUS
<1>1. StackInv
  BY DEF EngineInit, StackInv, RequestsAreInnermost, Budget, FramesModules
<1>2. execution \in Executions
  BY DEF EngineInit, NoExecution, Executions, Values
<1>3. ResultsInv
  <2>1. NoScriptResult \in [is : ResultKinds, spent : Nat, hosts : Nat] /\ NoScriptResult.is = "none"
    BY DEF NoScriptResult, ResultKinds
  <2> QED BY <2>1 DEF EngineInit, ResultsInv
<1>4. JobsInv
  BY DEF EngineInit, JobsInv
<1>5. ModulesInv
  BY DEF EngineInit, ModulesInv, Among
<1> QED BY <1>1, <1>2, <1>3, <1>4, <1>5 DEF EngineInv

LEMMA EngineSteps == EngineInv /\ [EngineNext]_EngineVars => EngineInv'
<1> SUFFICES ASSUME EngineInv, [EngineNext]_EngineVars PROVE EngineInv'
  OBVIOUS
<1>1. CASE EvaluateSource \/ RunMicrotasks \/ SetGlobal
  BY <1>1, EntersPlainly DEF EvaluateSource, RunMicrotasks, SetGlobal, FrameKinds, Values
<1>2. CASE HostRequest \/ ForwardConsole \/ CallBinding \/ BpDrainJobs
  BY <1>2, CallOutKeeps DEF HostRequest, ForwardConsole, CallBinding, BpDrainJobs
<1>3. CASE HandlerReturns \/ RunPendingJobsEnd \/ NativeReturns
  <2>1. Active /\ Doing # "request" /\ Pop /\ UNCHANGED <<execution, pendingJobs, queued, scriptResult, Modules>>
    BY <1>3 DEF HandlerReturns, RunPendingJobsEnd, NativeReturns, Active, Doing
  <2> QED BY <2>1, ReturnKeeps
<1>4. CASE TimeGoesBy \/ QueueMicrotask \/ HostResponse \/ RunPendingJob \/ DrainMicrotask
  BY <1>4, TimeKeeps, QueueKeeps, ResponseKeeps, PendingJobKeeps, DrainKeeps
<1>5. CASE CheckpointEnds \/ ScriptEnds \/ ArgumentsConverted \/ InterruptAtDeadline \/ DestroyEngine
  BY <1>5, CheckpointKeeps, ScriptEndKeeps, ArgumentsKeep, InterruptKeeps, DestroyKeeps
<1>0. ASSUME UNCHANGED <<running, execution, pendingJobs, queued, scriptResult, instances, lived, misused>> PROVE EngineInv'
  <2>1. StackInv'
    BY <1>0 DEF EngineInv, StackInv, RequestsAreInnermost, Budget, UnderWay, Doing, FramesModules
  <2>2. ModulesInv'
    BY <1>0 DEF EngineInv, ModulesInv
  <2> QED BY <1>0, <2>1, <2>2, SameJobs, SameResults DEF EngineInv
<1>6. ASSUME NEW m \in NativeModules, AddModule(m) \/ RemoveModule(m) PROVE EngineInv'
  BY <1>0, <1>6 DEF AddModule, RemoveModule
<1>7. ASSUME NEW m \in NativeModules, InstallModule(m) \/ Invoke(m) PROVE EngineInv'
  BY <1>7, InstallKeeps, InvokeKeeps
<1>8. ASSUME NEW ok \in BOOLEAN, Initialized(ok) PROVE EngineInv'
  BY <1>8, InitializedKeeps
<1>9. CASE UNCHANGED EngineVars
  BY <1>0, <1>9 DEF EngineVars
<1> QED BY <1>1, <1>2, <1>3, <1>4, <1>5, <1>6, <1>7, <1>8, <1>9 DEF EngineNext

LEMMA EngineInvSuffices == EngineInv => ScriptsAreAccountedFor
BY DEF EngineInv, ResultsInv, JobsInv, ModulesInv, ScriptsAreAccountedFor, IsInstalled, Among

(* An evaluation that reports success kept to its own time and one that    *)
(* reports the deadline used it up, jobs stay in order and none is lost,   *)
(* and native modules are called within their lifetime: for every set of   *)
(* modules, every timeout, every clock and every limit.                    *)
THEOREM ScriptsStayAccountedFor == EngineSpec => []ScriptsAreAccountedFor
<1>1. EngineInv /\ [EngineNext]_EngineVars => EngineInv'
  BY EngineSteps
<1> QED BY <1>1, EngineStarts, EngineInvSuffices, PTL DEF EngineSpec

-----------------------------------------------------------------------------
(* The requests of the page.  Its property speaks of objects at rest, so   *)
(* the invariant counts what is not: of each XMLHttpRequest, the jobs that *)
(* wait with the requests made, the calls that have still to answer with   *)
(* the answers, and all its calls with the ends.  The fetches are queued   *)
(* in the order of their numbers, behind every fetch that was settled; the *)
(* messages on the way to a port come after those it received, the oldest  *)
(* first; and a message in hand, of which only the listeners are left, was *)
(* received, is in hand once and has not been listened to.                 *)
(* What is left of a call that was answered, that failed, or that ends.     *)
Replying == <<Step(3, "readystatechange"), Step(4, "readystatechange"), Step(Unchanged, "load"), Step(Unchanged, "loadend")>>
Replied == <<Step(4, "readystatechange"), Step(Unchanged, "load"), Step(Unchanged, "loadend")>>
Loading == <<Step(Unchanged, "load"), Step(Unchanged, "loadend")>>
Failing == <<Step(Unchanged, "error"), Step(Unchanged, "loadend")>>
Closing == <<Step(Unchanged, "loadend")>>
Answering == [of : Xhrs, left : {Replying, Replied, Loading, Failing}]
Ending == [of : Xhrs, left : {Closing}]
XhrCalls == Answering \cup Ending
Envelopes == [to : Ports, message : Nat]
Hands == [of : Envelopes, left : {<<>>}]
Calls == XhrCalls \cup Hands
CallsOf(x) == {c \in XhrCalls : c.of = x}
AnswersOf(x) == {c \in Answering : c.of = x}
XhrJob(x) == [of |-> "xhr", id |-> x]
FetchJob(f) == [of |-> "fetch", id |-> f]
Jobs == [of : {"xhr"}, id : Xhrs] \cup [of : {"fetch", Image}, id : Nat]
XhrStates == [readyState : Nat, open : BOOLEAN, sent : BOOLEAN, async : BOOLEAN]
Heard == [answer : Nat, abort : Nat, loadend : Nat]

(* The requests of an XMLHttpRequest are its calls of send, its answers     *)
(* those of its requests, and its ends one for each request and each abort, *)
(* counting what is still queued or under way.                              *)
XhrHolds(x, state, events, made, calls, queue, ended) ==
  /\ made + CountIn(queue, {XhrJob(x)}) <= OneIf(state.sent)
  /\ events.answer + CountIn(calls, AnswersOf(x)) <= made
  /\ x \notin ended =>
       /\ made + CountIn(queue, {XhrJob(x)}) = OneIf(state.sent)
       /\ events.answer + CountIn(calls, AnswersOf(x)) = made
       /\ events.loadend + CountIn(calls, CallsOf(x)) = made + events.abort
FetchHolds(queue, promises, done) ==
  /\ promises \in Seq({"pending", "settled", "cut"}) /\ done \in Seq(Nat)
  /\ \A f \in DOMAIN promises : promises[f] = "pending" <=> \E i \in DOMAIN queue : queue[i] = FetchJob(f)
  /\ \A i \in DOMAIN queue : queue[i].of = "fetch" =>
       /\ queue[i].id \in DOMAIN promises
       /\ \A k \in DOMAIN done : done[k] < queue[i].id
       /\ \A j \in DOMAIN queue : i < j /\ queue[j].of = "fetch" => queue[i].id < queue[j].id
  /\ \A k \in DOMAIN done : done[k] <= Len(promises)
  /\ \A k \in 2..Len(done) : done[k - 1] < done[k]
PortStates == [closed : BOOLEAN, posted : Nat]
(* Of the messages to the ports: timers, those on the way, and got, those    *)
(* received.                                                                *)
Rising(s) == \A i, j \in DOMAIN s : i < j /\ s[i].to = s[j].to => s[i].message < s[j].message
Posted(s, ports) == \A i \in DOMAIN s : s[i].message <= ports[s[i].to].posted
Behind(got, timers) == \A i \in DOMAIN got, j \in DOMAIN timers : got[i].to = timers[j].to => got[i].message < timers[j].message
Covered(ports, timers, got, ended) ==
  \A p \in Ports : ~ports[p].closed =>
    \A k \in 1..ports[p].posted : IsIn(Message(p, k), timers) \/ IsIn(Message(p, k), got) \/ Message(p, k) \in ended
PortsHold(ports, timers, got, ended) ==
  /\ ports \in [Ports -> PortStates] /\ timers \in Seq(Envelopes) /\ got \in Seq(Envelopes)
  /\ Rising(timers) /\ Rising(got) /\ Posted(timers, ports) /\ Posted(got, ports)
  /\ Behind(got, timers) /\ Covered(ports, timers, got, ended)
HandHolds(m, hands, got, told, ended) ==
  /\ hands <= 1
  /\ hands = 1 => IsIn(m, got) /\ ~IsIn(m, told)
  /\ IsIn(m, told) => IsIn(m, got)
  /\ IsIn(m, got) /\ m \notin ended => IsIn(m, told) \/ hands = 1
HandsHold(calls, got, told, ended) ==
  /\ got \in Seq(Envelopes) /\ told \in Seq(Envelopes)
  /\ \A i, j \in DOMAIN told : i # j => told[i] # told[j]
  /\ \A m \in Envelopes : HandHolds(m, CountIn(calls, {Handed(m)}), got, told, ended)
AllHold(states, events, made, calls, queue, ended) ==
  /\ states \in [Xhrs -> XhrStates] /\ events \in [Xhrs -> Heard] /\ made \in [Xhrs -> Nat]
  /\ calls \in Seq(Calls) /\ queue \in Seq(Jobs)
  /\ \A x \in Xhrs : XhrHolds(x, states[x], events[x], made[x], calls, queue, ended)
XhrsNow == AllHold(xhr, heard, requestsMade, unfinished, microtasks, cut)
FetchesNow == FetchHolds(microtasks, fetchPromises, order)
ImageJob(k) == [of |-> Image, id |-> k]
ImageNow == source \in Nat /\ (shown = source \/ ImageJob(source) \in cut \/ IsIn(ImageJob(source), microtasks))
Crossing == PortsHold(channel, inTimers, received, cut)
InHand == HandsHold(unfinished, received, listened, cut)
ReqInv == XhrsNow /\ FetchesNow /\ ImageNow /\ Crossing /\ InHand

-----------------------------------------------------------------------------
(* The steps of a call.                                                     *)
LEMMA WhatIsLeft ==
  /\ Tail(AnsweredSteps) = Replying /\ Head(AnsweredSteps) = Step(2, "readystatechange")
  /\ Tail(FailedSteps) = Failing /\ Head(FailedSteps) = Step(4, "readystatechange")
  /\ Tail(AbortedSteps) = Closing /\ Head(AbortedSteps) = Step(0, "abort")
  /\ Tail(Replying) = Replied /\ Head(Replying) = Step(3, "readystatechange") /\ Len(Replying) = 4
  /\ Tail(Replied) = Loading /\ Head(Replied) = Step(4, "readystatechange") /\ Len(Replied) = 3
  /\ Tail(Loading) = Closing /\ Head(Loading) = Step(Unchanged, "load") /\ Len(Loading) = 2
  /\ Tail(Failing) = Closing /\ Head(Failing) = Step(Unchanged, "error") /\ Len(Failing) = 2
  /\ Head(Closing) = Step(Unchanged, "loadend") /\ Len(Closing) = 1
<1>1. \A a, b, c, d, e : /\ Tail(<<a, b, c, d, e>>) = <<b, c, d, e>> /\ Head(<<a, b, c, d, e>>) = a
                         /\ Tail(<<a, b, c, d>>) = <<b, c, d>> /\ Head(<<a, b, c, d>>) = a /\ Len(<<a, b, c, d>>) = 4
                         /\ Tail(<<a, b, c>>) = <<b, c>> /\ Head(<<a, b, c>>) = a /\ Len(<<a, b, c>>) = 3
                         /\ Tail(<<a, b>>) = <<b>> /\ Head(<<a, b>>) = a /\ Len(<<a, b>>) = 2
                         /\ Head(<<a>>) = a /\ Len(<<a>>) = 1
  OBVIOUS
<1> HIDE DEF Step
<1> QED BY <1>1 DEF AnsweredSteps, FailedSteps, AbortedSteps, Replying, Replied, Loading, Failing, Closing

LEMMA StepsHeard ==
  ASSUME NEW h \in Heard, NEW st \in XhrStates
  PROVE  /\ \A n \in Nat : HearsEvent(h, Step(n, "readystatechange")) = h
         /\ \A n \in Nat : LET r == HearsEvent(h, Step(n, "abort"))
                           IN  r \in Heard /\ r.answer = h.answer /\ r.abort = h.abort + 1 /\ r.loadend = h.loadend
         /\ \A n \in Nat : LET r == HearsEvent(h, Step(n, "loadend"))
                           IN  r \in Heard /\ r.answer = h.answer /\ r.abort = h.abort /\ r.loadend = h.loadend + 1
         /\ \A n \in Nat : \A e \in {"load", "error"} :
              LET r == HearsEvent(h, Step(n, e))
              IN  r \in Heard /\ r.answer = h.answer + 1 /\ r.abort = h.abort /\ r.loadend = h.loadend
         /\ \A n \in Nat : \A e : LET r == Enters(st, Step(n, e)) IN r \in XhrStates /\ r.sent = st.sent
<1>1. ASSUME NEW n \in Nat, NEW e PROVE Step(n, e).event = e /\ Step(n, e).readyState = n
  BY DEF Step
<1>2. ASSUME NEW n \in Nat PROVE HearsEvent(h, Step(n, "readystatechange")) = h
  BY <1>1 DEF HearsEvent
<1>3. ASSUME NEW n \in Nat PROVE HearsEvent(h, Step(n, "abort")) = [h EXCEPT !.abort = h.abort + 1]
  BY <1>1 DEF HearsEvent
<1>4. ASSUME NEW n \in Nat PROVE HearsEvent(h, Step(n, "loadend")) = [h EXCEPT !.loadend = h.loadend + 1]
  BY <1>1 DEF HearsEvent
<1>5. ASSUME NEW n \in Nat, NEW e \in {"load", "error"} PROVE HearsEvent(h, Step(n, e)) = [h EXCEPT !.answer = h.answer + 1]
  BY <1>1 DEF HearsEvent
<1>6. ASSUME NEW n \in Nat, NEW e PROVE LET r == Enters(st, Step(n, e)) IN r \in XhrStates /\ r.sent = st.sent
  <2>1. Enters(st, Step(n, e)) = IF n = Unchanged THEN st ELSE [st EXCEPT !.readyState = n]
    BY <1>1 DEF Enters
  <2>2. [st EXCEPT !.readyState = n] \in XhrStates /\ [st EXCEPT !.readyState = n].sent = st.sent
    BY DEF XhrStates
  <2> QED BY <2>1, <2>2
<1> QED BY <1>2, <1>3, <1>4, <1>5, <1>6 DEF Heard

(* One step of a call that runs.                                            *)
Fired(c, h) ==
  LET g == [c EXCEPT !.left = Tail(c.left)]
      r == HearsEvent(h, Head(c.left))
  IN  /\ r \in Heard /\ r.abort = h.abort
      /\ \/ /\ Len(c.left) = 1 /\ c \in Ending /\ r.answer = h.answer /\ r.loadend = h.loadend + 1
         \/ /\ Len(c.left) # 1 /\ c \in Answering /\ g \in Answering /\ r = h
         \/ /\ Len(c.left) # 1 /\ c \in Answering /\ g \in Ending /\ r.answer = h.answer + 1 /\ r.loadend = h.loadend

LEMMA CallFires ==
  ASSUME NEW c \in XhrCalls, NEW h \in Heard, NEW st \in XhrStates
  PROVE  /\ c.of \in Xhrs /\ [c EXCEPT !.left = Tail(c.left)].of = c.of /\ Fired(c, h)
         /\ LET r == Enters(st, Head(c.left)) IN r \in XhrStates /\ r.sent = st.sent
<1> DEFINE g == [c EXCEPT !.left = Tail(c.left)]
<1> USE DEF Unchanged
<1>0. \A l : [c EXCEPT !.left = l] = [of |-> c.of, left |-> l] /\ c.of \in Xhrs
  BY DEF XhrCalls, Answering, Ending
<1>a. g = [of |-> c.of, left |-> Tail(c.left)]
  BY <1>0
<1> HIDE DEF g
<1>1. CASE c \in Ending
  <2>1. c.left = Closing
    BY <1>1 DEF Ending
  <2>2. Head(c.left) = Step(9, "loadend") /\ Len(c.left) = 1
    BY <2>1, WhatIsLeft
  <2> QED BY <1>0, <1>1, <2>2, StepsHeard DEF Fired
<1>2. CASE c \in Answering
  <2>0. c.left \in {Replying, Replied, Loading, Failing}
    BY <1>2 DEF Answering
  <2>1. CASE c.left = Replying
    <3>1. Head(c.left) = Step(3, "readystatechange") /\ Len(c.left) # 1 /\ g \in Answering
      BY <1>0, <1>a, <2>1, WhatIsLeft DEF Answering
    <3> QED BY <1>0, <1>a, <1>2, <3>1, StepsHeard DEF Fired, g
  <2>2. CASE c.left = Replied
    <3>1. Head(c.left) = Step(4, "readystatechange") /\ Len(c.left) # 1 /\ g \in Answering
      BY <1>0, <1>a, <2>2, WhatIsLeft DEF Answering
    <3> QED BY <1>0, <1>a, <1>2, <3>1, StepsHeard DEF Fired, g
  <2>3. CASE c.left \in {Loading, Failing}
    <3>1. PICK e \in {"load", "error"} : Head(c.left) = Step(9, e)
      BY <2>3, WhatIsLeft
    <3>a. Len(c.left) = 2 /\ Tail(c.left) = Closing
      BY <2>3, WhatIsLeft
    <3>2. Len(c.left) # 1 /\ g \in Ending
      BY <1>0, <1>a, <3>a DEF Ending
    <3> QED BY <1>0, <1>a, <1>2, <3>1, <3>2, StepsHeard DEF Fired, g
  <2> QED BY <2>0, <2>1, <2>2, <2>3
<1> QED BY <1>1, <1>2 DEF XhrCalls

-----------------------------------------------------------------------------
(* What the calls and the queue count.                                      *)
LEMMA HandIsNoCall == \A c \in XhrCalls : c.left # <<>> /\ c \notin Hands /\ \A m : c # Handed(m)
<1>1. Len(Closing) = 1 /\ Len(Replying) = 4 /\ Len(Replied) = 3 /\ Len(Loading) = 2 /\ Len(Failing) = 2
  BY WhatIsLeft
<1>2. \A c \in XhrCalls : c.left \in {Replying, Replied, Loading, Failing, Closing}
  BY DEF XhrCalls, Answering, Ending
<1>3. \A c \in XhrCalls : c.left # <<>>
  <2>1. Len(<<>>) = 0
    BY EmptySeq
  <2> DEFINE e == <<>>
  <2>2. Len(e) = 0
    BY <2>1
  <2> HIDE DEF e
  <2>3. e \notin {Replying, Replied, Loading, Failing, Closing}
    BY <1>1, <2>2
  <2>4. \A c \in XhrCalls : c.left # e
    BY <1>2, <2>3
  <2> QED BY <2>4 DEF e
<1>4. \A c \in Hands : c.left = <<>>
  BY DEF Hands
<1>5. \A m : Handed(m).left = <<>>
  BY DEF Handed
<1> QED BY <1>3, <1>4, <1>5

LEMMA CallCounts ==
  ASSUME NEW calls \in Seq(Calls), NEW x
  PROVE  /\ CountIn(calls, AnswersOf(x)) \in Nat /\ CountIn(calls, CallsOf(x)) \in Nat
         /\ (\A i \in DOMAIN calls : calls[i].of # x) => CountIn(calls, AnswersOf(x)) = 0 /\ CountIn(calls, CallsOf(x)) = 0
<1> DEFINE C == Calls
<1>0. calls \in Seq(C)
  OBVIOUS
<1> HIDE DEF C
<1>1. /\ CountIn(calls, AnswersOf(x)) \in Nat /\ CountIn(calls, CallsOf(x)) \in Nat
      /\ (\A i \in DOMAIN calls : calls[i] \notin AnswersOf(x)) => CountIn(calls, AnswersOf(x)) = 0
      /\ (\A i \in DOMAIN calls : calls[i] \notin CallsOf(x)) => CountIn(calls, CallsOf(x)) = 0
  BY <1>0, CountType
<1> QED BY <1>1 DEF AnswersOf, CallsOf

LEMMA CallPushed ==
  ASSUME NEW calls \in Seq(Calls), NEW g \in XhrCalls, NEW x
  PROVE  LET r == <<g>> \o calls
         IN  /\ r \in Seq(Calls)
             /\ CountIn(r, AnswersOf(x)) = CountIn(calls, AnswersOf(x)) + OneIf(g \in Answering /\ g.of = x)
             /\ CountIn(r, CallsOf(x)) = CountIn(calls, CallsOf(x)) + OneIf(g.of = x)
<1> DEFINE C == Calls
           r == <<g>> \o calls
<1>0. calls \in Seq(C) /\ g \in C
  BY DEF Calls
<1>a. (g \in AnswersOf(x)) = (g \in Answering /\ g.of = x) /\ (g \in CallsOf(x)) = (g.of = x)
  BY DEF AnswersOf, CallsOf
<1> HIDE DEF C
<1>1. /\ r \in Seq(C) /\ CountIn(r, AnswersOf(x)) = CountIn(calls, AnswersOf(x)) + OneIf(g \in AnswersOf(x))
      /\ CountIn(r, CallsOf(x)) = CountIn(calls, CallsOf(x)) + OneIf(g \in CallsOf(x))
  BY <1>0, CountFirst
<1> QED BY <1>1, <1>a DEF C

LEMMA CallMoved ==
  ASSUME NEW calls \in Seq(Calls), calls # <<>>, calls[1] \in XhrCalls, NEW g \in XhrCalls, NEW x
  PROVE  LET r == [calls EXCEPT ![1] = g]
             t == Tail(calls)
             c == calls[1]
         IN  /\ c \in Calls /\ c = Head(calls) /\ r \in Seq(Calls) /\ t \in Seq(Calls)
             /\ CountIn(calls, AnswersOf(x)) = CountIn(t, AnswersOf(x)) + OneIf(c \in Answering /\ c.of = x)
             /\ CountIn(calls, CallsOf(x)) = CountIn(t, CallsOf(x)) + OneIf(c.of = x)
             /\ CountIn(r, AnswersOf(x)) = CountIn(t, AnswersOf(x)) + OneIf(g \in Answering /\ g.of = x)
             /\ CountIn(r, CallsOf(x)) = CountIn(t, CallsOf(x)) + OneIf(g.of = x)
<1> DEFINE C == Calls
           c == calls[1]
           r == [calls EXCEPT ![1] = g]
           t == Tail(calls)
<1>0. calls \in Seq(C) /\ g \in C
  BY DEF Calls
<1>a. ASSUME NEW h \in XhrCalls PROVE (h \in AnswersOf(x)) = (h \in Answering /\ h.of = x) /\ (h \in CallsOf(x)) = (h.of = x)
  BY DEF AnswersOf, CallsOf
<1> HIDE DEF C
<1>1. c \in C /\ c = Head(calls)
  BY <1>0, EmptySeq, LenProperties, ElementOfSeq, HeadTailProperties
<1>2. /\ r \in Seq(C) /\ t \in Seq(C)
      /\ CountIn(calls, AnswersOf(x)) = CountIn(t, AnswersOf(x)) + OneIf(c \in AnswersOf(x))
      /\ CountIn(calls, CallsOf(x)) = CountIn(t, CallsOf(x)) + OneIf(c \in CallsOf(x))
      /\ CountIn(r, AnswersOf(x)) = CountIn(t, AnswersOf(x)) + OneIf(g \in AnswersOf(x))
      /\ CountIn(r, CallsOf(x)) = CountIn(t, CallsOf(x)) + OneIf(g \in CallsOf(x))
  BY <1>0, CountTail, CountChanged
<1> HIDE DEF r, t
<1> QED BY <1>0, <1>1, <1>2, <1>a DEF C, r, t

LEMMA QueueCounts ==
  ASSUME NEW q \in Seq(Jobs), NEW x, NEW job \in Jobs
  PROVE  /\ CountIn(q, {XhrJob(x)}) \in Nat
         /\ Append(q, job) \in Seq(Jobs) /\ CountIn(Append(q, job), {XhrJob(x)}) = CountIn(q, {XhrJob(x)}) + OneIf(job = XhrJob(x))
         /\ (\A i \in DOMAIN q : q[i].id # x) => CountIn(q, {XhrJob(x)}) = 0
         /\ q # <<>> => /\ Tail(q) \in Seq(Jobs) /\ q[1] \in Jobs /\ Head(q) = q[1]
                        /\ CountIn(q, {XhrJob(x)}) = CountIn(Tail(q), {XhrJob(x)}) + OneIf(q[1] = XhrJob(x))
<1> DEFINE J == Jobs
           S == {XhrJob(x)}
<1>0. q \in Seq(J) /\ job \in J
  OBVIOUS
<1>a. (\A i \in DOMAIN q : q[i].id # x) => \A i \in DOMAIN q : q[i] \notin S
  BY DEF XhrJob
<1>b. \A j : (j \in S) = (j = XhrJob(x))
  OBVIOUS
<1> HIDE DEF J, S
<1>1. /\ CountIn(q, S) \in Nat /\ ((\A i \in DOMAIN q : q[i] \notin S) => CountIn(q, S) = 0)
      /\ Append(q, job) \in Seq(J) /\ CountIn(Append(q, job), S) = CountIn(q, S) + OneIf(job \in S)
  BY <1>0, CountType, CountLast
<1>2. ASSUME q # <<>> PROVE /\ Tail(q) \in Seq(J) /\ q[1] \in J /\ Head(q) = q[1]
                            /\ CountIn(q, S) = CountIn(Tail(q), S) + OneIf(q[1] \in S)
  BY <1>0, <1>2, CountTail, EmptySeq, LenProperties, ElementOfSeq, HeadTailProperties
<1>3. OneIf(job \in S) = OneIf(job = XhrJob(x)) /\ OneIf(q[1] \in S) = OneIf(q[1] = XhrJob(x))
  BY <1>b
<1> QED BY <1>1, <1>2, <1>3, <1>a DEF J, S

-----------------------------------------------------------------------------
(* The XMLHttpRequests.                                                     *)
LEMMA Amounts ==
  ASSUME NEW x \in Xhrs, NEW states, NEW events, NEW made, NEW calls, NEW queue, NEW ended, AllHold(states, events, made, calls, queue, ended)
  PROVE  /\ states[x] \in XhrStates /\ states[x].sent \in BOOLEAN /\ events[x] \in Heard /\ made[x] \in Nat
         /\ events[x].answer \in Nat /\ events[x].abort \in Nat /\ events[x].loadend \in Nat
         /\ CountIn(calls, AnswersOf(x)) \in Nat /\ CountIn(calls, CallsOf(x)) \in Nat /\ CountIn(queue, {XhrJob(x)}) \in Nat
<1>1. states[x] \in XhrStates /\ events[x] \in Heard /\ made[x] \in Nat /\ XhrJob(x) \in Jobs
  BY DEF AllHold, XhrJob, Jobs
<1>2. CountIn(calls, AnswersOf(x)) \in Nat /\ CountIn(calls, CallsOf(x)) \in Nat
  BY CallCounts DEF AllHold
<1>3. CountIn(queue, {XhrJob(x)}) \in Nat
  BY <1>1, QueueCounts DEF AllHold
<1> QED BY <1>1, <1>2, <1>3 DEF XhrStates, Heard

LEMMA OneIfIs == OneIf(TRUE) = 1 /\ OneIf(FALSE) = 0
BY DEF OneIf

(* Another object opens, is queued, or changes nothing that counts.         *)
LEMMA SameAmounts ==
  ASSUME AllHold(xhr, heard, requestsMade, unfinished, microtasks, cut), NEW x \in Xhrs, NEW state, NEW queue,
         state.sent = xhr[x].sent, CountIn(queue, {XhrJob(x)}) = CountIn(microtasks, {XhrJob(x)})
  PROVE  XhrHolds(x, state, heard[x], requestsMade[x], unfinished, queue, cut)
  BY DEF AllHold, XhrHolds

LEMMA OpenKeeps ==
  ASSUME XhrsNow, NEW y \in Xhrs, NEW async \in BOOLEAN, OpenXhr(y, async)
  PROVE  XhrsNow'
<1> DEFINE s == [xhr[y] EXCEPT !.readyState = 1, !.open = TRUE, !.async = async]
<1>1. xhr' = [xhr EXCEPT ![y] = s] /\ UNCHANGED <<heard, requestsMade, unfinished, microtasks, cut>>
  BY DEF OpenXhr, Histories
<1>2. xhr \in [Xhrs -> XhrStates] /\ xhr[y] \in XhrStates
  BY DEF XhrsNow, AllHold
<1>3. s \in XhrStates /\ s.sent = xhr[y].sent
  BY <1>2 DEF XhrStates
<1> HIDE DEF s
<1>4. xhr' \in [Xhrs -> XhrStates] /\ \A x \in Xhrs : xhr'[x].sent = xhr[x].sent
  BY <1>1, <1>2, <1>3
<1>5. \A x \in Xhrs : XhrHolds(x, xhr'[x], heard[x], requestsMade[x], unfinished, microtasks, cut)
  BY <1>4, SameAmounts DEF XhrsNow
<1> QED BY <1>1, <1>4, <1>5 DEF XhrsNow, AllHold

LEMMA OthersQueue ==
  ASSUME XhrsNow, NEW job \in Jobs, job.of # "xhr", microtasks' = Append(microtasks, job),
         UNCHANGED <<xhr, heard, requestsMade, unfinished, cut>>
  PROVE  XhrsNow'
<1>1. microtasks \in Seq(Jobs)
  BY DEF XhrsNow, AllHold
<1>2. ASSUME NEW x \in Xhrs PROVE CountIn(microtasks', {XhrJob(x)}) = CountIn(microtasks, {XhrJob(x)})
  <2>1. ~(job = XhrJob(x))
    BY DEF XhrJob
  <2>2. CountIn(Append(microtasks, job), {XhrJob(x)}) = CountIn(microtasks, {XhrJob(x)}) + OneIf(job = XhrJob(x)) /\ CountIn(microtasks, {XhrJob(x)}) \in Nat
    BY <1>1, QueueCounts
  <2>3. OneIf(job = XhrJob(x)) = 0
    BY <2>1 DEF OneIf
  <2> QED BY <2>2, <2>3
<1>3. microtasks' \in Seq(Jobs)
  BY <1>1, QueueCounts
<1>4. \A x \in Xhrs : XhrHolds(x, xhr[x], heard[x], requestsMade[x], unfinished, microtasks', cut)
  BY <1>2, SameAmounts DEF XhrsNow
<1> QED BY <1>3, <1>4 DEF XhrsNow, AllHold

LEMMA OthersRun ==
  ASSUME XhrsNow, microtasks # <<>>, Head(microtasks).of # "xhr", microtasks' = Tail(microtasks),
         UNCHANGED <<xhr, heard, requestsMade, unfinished>>, cut \subseteq cut'
  PROVE  XhrsNow'
<1>1. microtasks \in Seq(Jobs)
  BY DEF XhrsNow, AllHold
<1>2. ASSUME NEW x \in Xhrs PROVE CountIn(microtasks', {XhrJob(x)}) = CountIn(microtasks, {XhrJob(x)}) /\ microtasks' \in Seq(Jobs)
  <2>0. XhrJob(x) \in Jobs
    BY DEF XhrJob, Jobs
  <2>1. /\ Tail(microtasks) \in Seq(Jobs) /\ Head(microtasks) = microtasks[1]
        /\ CountIn(microtasks, {XhrJob(x)}) = CountIn(Tail(microtasks), {XhrJob(x)}) + OneIf(microtasks[1] = XhrJob(x))
    BY <1>1, <2>0, QueueCounts
  <2>2. ~(microtasks[1] = XhrJob(x))
    BY <2>1 DEF XhrJob
  <2>3. OneIf(microtasks[1] = XhrJob(x)) = 0
    BY <2>2 DEF OneIf
  <2>4. CountIn(Tail(microtasks), {XhrJob(x)}) \in Nat
    BY <2>0, <2>1, QueueCounts
  <2> QED BY <2>1, <2>3, <2>4
<1>3. microtasks' \in Seq(Jobs)
  <2> DEFINE J == Jobs
  <2> HIDE DEF J
  <2>1. microtasks' \in Seq(J)
    BY <1>1, HeadTailProperties DEF J
  <2> QED BY <2>1 DEF J
<1>4. \A x \in Xhrs : XhrHolds(x, xhr[x], heard[x], requestsMade[x], unfinished, microtasks', cut)
  BY <1>2, SameAmounts DEF XhrsNow
<1>5. \A x \in Xhrs : XhrHolds(x, xhr[x], heard[x], requestsMade[x], unfinished, microtasks', cut')
  BY <1>4 DEF XhrHolds
<1> QED BY <1>3, <1>5 DEF XhrsNow, AllHold

(* Calls whose end no counted call of x knows of.                            *)
LEMMA CallDropped ==
  ASSUME NEW calls \in Seq(Calls), calls # <<>>, NEW x
  PROVE  LET t == Tail(calls)
             c == calls[1]
         IN  /\ t \in Seq(Calls) /\ c \in Calls /\ c = Head(calls)
             /\ CountIn(t, AnswersOf(x)) \in Nat /\ CountIn(t, CallsOf(x)) \in Nat
             /\ CountIn(calls, AnswersOf(x)) = CountIn(t, AnswersOf(x)) + OneIf(c \in AnswersOf(x))
             /\ CountIn(calls, CallsOf(x)) = CountIn(t, CallsOf(x)) + OneIf(c \in CallsOf(x))
<1> DEFINE C == Calls
           c == calls[1]
           t == Tail(calls)
<1>0. calls \in Seq(C)
  OBVIOUS
<1> HIDE DEF C
<1>1. c \in C /\ c = Head(calls)
  BY <1>0, EmptySeq, LenProperties, ElementOfSeq, HeadTailProperties
<1>2. /\ t \in Seq(C)
      /\ CountIn(calls, AnswersOf(x)) = CountIn(t, AnswersOf(x)) + OneIf(c \in AnswersOf(x))
      /\ CountIn(calls, CallsOf(x)) = CountIn(t, CallsOf(x)) + OneIf(c \in CallsOf(x))
  BY <1>0, CountTail
<1>3. CountIn(t, AnswersOf(x)) \in Nat /\ CountIn(t, CallsOf(x)) \in Nat
  BY <1>2, CountType
<1> QED BY <1>1, <1>2, <1>3 DEF C

LEMMA CutOffKeeps ==
  ASSUME XhrsNow, unfinished # <<>>, unfinished' = Tail(unfinished), Head(unfinished) \in Hands \/ Head(unfinished).of \in cut',
         cut \subseteq cut', UNCHANGED <<xhr, heard, requestsMade, microtasks>>
  PROVE  XhrsNow'
<1> DEFINE c == unfinished[1]
           t == Tail(unfinished)
<1>0. unfinished \in Seq(Calls)
  BY DEF XhrsNow, AllHold
<1>1. t \in Seq(Calls) /\ c = Head(unfinished)
  BY <1>0, CallDropped
<1> HIDE DEF c, t
<1>3. ASSUME NEW x \in Xhrs PROVE XhrHolds(x, xhr[x], heard[x], requestsMade[x], t, microtasks, cut')
  <2>1. XhrHolds(x, xhr[x], heard[x], requestsMade[x], unfinished, microtasks, cut)
    BY DEF XhrsNow, AllHold
  <2>2. /\ heard[x].answer \in Nat /\ requestsMade[x] \in Nat /\ CountIn(unfinished, AnswersOf(x)) \in Nat
        /\ heard[x].loadend \in Nat /\ CountIn(unfinished, CallsOf(x)) \in Nat
    BY Amounts DEF XhrsNow
  <2>3. /\ CountIn(t, AnswersOf(x)) \in Nat /\ CountIn(t, CallsOf(x)) \in Nat
        /\ CountIn(unfinished, AnswersOf(x)) = CountIn(t, AnswersOf(x)) + OneIf(c \in AnswersOf(x))
        /\ CountIn(unfinished, CallsOf(x)) = CountIn(t, CallsOf(x)) + OneIf(c \in CallsOf(x))
    BY <1>0, CallDropped DEF c, t
  <2>4. x \notin cut' => c \notin AnswersOf(x) /\ c \notin CallsOf(x) /\ x \notin cut
    <3>1. c \in Hands => c \notin AnswersOf(x) /\ c \notin CallsOf(x)
      BY HandIsNoCall DEF AnswersOf, CallsOf, XhrCalls
    <3>2. c.of \in cut' /\ x \notin cut' => c \notin AnswersOf(x) /\ c \notin CallsOf(x)
      BY DEF AnswersOf, CallsOf
    <3> QED BY <1>1, <3>1, <3>2
  <2>5. /\ OneIf(c \in AnswersOf(x)) \in {0, 1} /\ (c \notin AnswersOf(x) => OneIf(c \in AnswersOf(x)) = 0)
        /\ (c \notin CallsOf(x) => OneIf(c \in CallsOf(x)) = 0)
    BY DEF OneIf
  <2> DEFINE u == CountIn(unfinished, AnswersOf(x))
             v == CountIn(unfinished, CallsOf(x))
             d == CountIn(t, AnswersOf(x))
             e == CountIn(t, CallsOf(x))
  <2>6. d \in Nat /\ e \in Nat /\ u \in Nat /\ v \in Nat /\ d <= u /\ (x \notin cut' => d = u /\ e = v)
    BY <2>2, <2>3, <2>4, <2>5
  <2>7. heard[x].answer + u <= requestsMade[x]
    BY <2>1 DEF XhrHolds
  <2>8. heard[x].answer + d <= requestsMade[x]
    <3> HIDE DEF u, d
    <3> QED BY <2>2, <2>6, <2>7
  <2> QED BY <2>1, <2>4, <2>6, <2>8 DEF XhrHolds
<1> QED BY <1>1, <1>3 DEF XhrsNow, AllHold, t

(* A message in hand counts for no XMLHttpRequest, and what is cut off is    *)
(* only forgiven.                                                           *)
LEMMA HandsDoNotCount ==
  ASSUME XhrsNow, unfinished' = unfinished \/ \E m \in Envelopes : unfinished' = <<Handed(m)>> \o unfinished,
         cut \subseteq cut', UNCHANGED <<xhr, heard, requestsMade, microtasks>>
  PROVE  XhrsNow'
<1>0. unfinished \in Seq(Calls)
  BY DEF XhrsNow, AllHold
<1>1. ASSUME NEW x PROVE /\ unfinished' \in Seq(Calls) /\ CountIn(unfinished', AnswersOf(x)) = CountIn(unfinished, AnswersOf(x))
                         /\ CountIn(unfinished', CallsOf(x)) = CountIn(unfinished, CallsOf(x))
  <2>1. CASE unfinished' = unfinished
    BY <1>0, <2>1
  <2>2. CASE \E m \in Envelopes : unfinished' = <<Handed(m)>> \o unfinished
    <3>1. PICK m \in Envelopes : unfinished' = <<Handed(m)>> \o unfinished
      BY <2>2
    <3> DEFINE C == Calls
               g == Handed(m)
    <3>2. g \in C /\ g \notin AnswersOf(x) /\ g \notin CallsOf(x)
      BY HandIsNoCall DEF Calls, Hands, Handed, AnswersOf, CallsOf, XhrCalls
    <3>3. unfinished \in Seq(C) /\ unfinished' = <<g>> \o unfinished
      BY <1>0, <3>1
    <3>4. OneIf(g \in AnswersOf(x)) = 0 /\ OneIf(g \in CallsOf(x)) = 0
      BY <3>2 DEF OneIf
    <3>5. CountIn(unfinished, AnswersOf(x)) \in Nat /\ CountIn(unfinished, CallsOf(x)) \in Nat
      BY <1>0, CallCounts
    <3> HIDE DEF C, g
    <3>6. /\ unfinished' \in Seq(C) /\ CountIn(unfinished', AnswersOf(x)) = CountIn(unfinished, AnswersOf(x)) + OneIf(g \in AnswersOf(x))
          /\ CountIn(unfinished', CallsOf(x)) = CountIn(unfinished, CallsOf(x)) + OneIf(g \in CallsOf(x))
      BY <3>2, <3>3, CountFirst
    <3> QED BY <3>4, <3>5, <3>6 DEF C
  <2> QED BY <2>1, <2>2
<1>2. ASSUME NEW x \in Xhrs PROVE XhrHolds(x, xhr[x], heard[x], requestsMade[x], unfinished', microtasks, cut')
  <2>1. XhrHolds(x, xhr[x], heard[x], requestsMade[x], unfinished, microtasks, cut)
    BY DEF XhrsNow, AllHold
  <2>2. CountIn(unfinished', AnswersOf(x)) = CountIn(unfinished, AnswersOf(x)) /\ CountIn(unfinished', CallsOf(x)) = CountIn(unfinished, CallsOf(x))
    BY <1>1
  <2> QED BY <2>1, <2>2 DEF XhrHolds
<1>3. unfinished' \in Seq(Calls)
  BY <1>1
<1> QED BY <1>2, <1>3 DEF XhrsNow, AllHold

LEMMA EndIsNoAnswer == \A k : k \in Ending => k \notin Answering
<1>1. Len(Closing) = 1 /\ Len(Replying) = 4 /\ Len(Replied) = 3 /\ Len(Loading) = 2 /\ Len(Failing) = 2
  BY WhatIsLeft
<1>2. Closing \notin {Replying, Replied, Loading, Failing}
  BY <1>1
<1> QED BY <1>2 DEF Ending, Answering

LEMMA RequestBegins ==
  ASSUME XhrsNow, NEW y \in Xhrs, NEW state \in XhrStates, NEW steps \in {AnsweredSteps, FailedSteps}, Begin(y, state, steps)
  PROVE  /\ xhr' \in [Xhrs -> XhrStates] /\ heard' = heard /\ unfinished' \in Seq(Calls)
         /\ \A x \in Xhrs : /\ xhr'[x].sent = IF x = y THEN state.sent ELSE xhr[x].sent
                            /\ CountIn(unfinished', AnswersOf(x)) = CountIn(unfinished, AnswersOf(x)) + OneIf(x = y)
                            /\ CountIn(unfinished', CallsOf(x)) = CountIn(unfinished, CallsOf(x)) + OneIf(x = y)
<1> DEFINE g == [of |-> y, left |-> Tail(steps)]
           e == Enters(state, Head(steps))
<1>0. xhr \in [Xhrs -> XhrStates] /\ heard \in [Xhrs -> Heard] /\ unfinished \in Seq(Calls)
  BY DEF XhrsNow, AllHold
<1>1. PICK n \in Nat : Head(steps) = Step(n, "readystatechange")
  BY WhatIsLeft
<1>2. Tail(steps) \in {Replying, Failing}
  BY WhatIsLeft
<1>3. g \in Answering /\ g \in XhrCalls /\ g.of = y
  BY <1>2 DEF Answering, XhrCalls
<1>4. e \in XhrStates /\ e.sent = state.sent /\ HearsEvent(heard[y], Head(steps)) = heard[y]
  <2> DEFINE h == heard[y]
             p == Step(n, "readystatechange")
  <2>1. h \in Heard /\ Head(steps) = p
    BY <1>0, <1>1
  <2> HIDE DEF h
  <2>2. HearsEvent(h, p) = h /\ Enters(state, p) \in XhrStates /\ Enters(state, p).sent = state.sent
    BY <2>1, StepsHeard
  <2> HIDE DEF p
  <2> QED BY <2>1, <2>2 DEF h
<1>5. unfinished' = <<g>> \o unfinished /\ xhr' = [xhr EXCEPT ![y] = e] /\ heard' = [heard EXCEPT ![y] = HearsEvent(heard[y], Head(steps))]
  BY DEF Begin
<1> HIDE DEF g, e
<1>6. heard' = heard
  BY <1>0, <1>4, <1>5
<1>7. ASSUME NEW x \in Xhrs
      PROVE  /\ unfinished' \in Seq(Calls)
             /\ CountIn(unfinished', AnswersOf(x)) = CountIn(unfinished, AnswersOf(x)) + OneIf(g \in Answering /\ g.of = x)
             /\ CountIn(unfinished', CallsOf(x)) = CountIn(unfinished, CallsOf(x)) + OneIf(g.of = x)
  BY <1>0, <1>3, <1>5, CallPushed
<1>8. ASSUME NEW x \in Xhrs PROVE OneIf(g \in Answering /\ g.of = x) = OneIf(x = y) /\ OneIf(g.of = x) = OneIf(x = y)
  BY <1>3 DEF OneIf
<1> QED BY <1>0, <1>4, <1>5, <1>6, <1>7, <1>8

LEMMA AbortKeeps ==
  ASSUME XhrsNow, NEW y \in Xhrs, AbortXhr(y)
  PROVE  XhrsNow'
<1> DEFINE g == [of |-> y, left |-> Tail(AbortedSteps)]
           e == Enters(xhr[y], Head(AbortedSteps))
           h == HearsEvent(heard[y], Head(AbortedSteps))
<1>0. xhr \in [Xhrs -> XhrStates] /\ heard \in [Xhrs -> Heard] /\ unfinished \in Seq(Calls) /\ microtasks \in Seq(Jobs) /\ requestsMade \in [Xhrs -> Nat]
  BY DEF XhrsNow, AllHold
<1>1. g \in Ending /\ g \in XhrCalls /\ g.of = y /\ g \notin Answering
  <2>1. g = [of |-> y, left |-> Closing]
    BY WhatIsLeft
  <2>2. g \in Ending /\ g.of = y
    BY <2>1 DEF Ending
  <2> QED BY <2>2, EndIsNoAnswer DEF XhrCalls
<1>2. e \in XhrStates /\ e.sent = xhr[y].sent /\ h \in Heard /\ h.answer = heard[y].answer /\ h.abort = heard[y].abort + 1 /\ h.loadend = heard[y].loadend
  <2> DEFINE w == heard[y]
             v == xhr[y]
             p == Step(0, "abort")
  <2>1. w \in Heard /\ v \in XhrStates /\ Head(AbortedSteps) = p
    BY <1>0, WhatIsLeft
  <2> HIDE DEF w, v
  <2>2. /\ HearsEvent(w, p) \in Heard /\ HearsEvent(w, p).answer = w.answer /\ HearsEvent(w, p).abort = w.abort + 1 /\ HearsEvent(w, p).loadend = w.loadend
        /\ Enters(v, p) \in XhrStates /\ Enters(v, p).sent = v.sent
    BY <2>1, StepsHeard
  <2> HIDE DEF p
  <2> QED BY <2>1, <2>2 DEF w, v
<1>3. /\ unfinished' = <<g>> \o unfinished /\ xhr' = [xhr EXCEPT ![y] = e] /\ heard' = [heard EXCEPT ![y] = h]
      /\ UNCHANGED <<microtasks, requestsMade, cut>>
  BY DEF AbortXhr, Begin
<1> HIDE DEF g, e, h
<1>4. unfinished' \in Seq(Calls) /\ xhr' \in [Xhrs -> XhrStates] /\ heard' \in [Xhrs -> Heard]
  BY <1>0, <1>1, <1>2, <1>3, CallPushed
<1>5. ASSUME NEW x \in Xhrs PROVE XhrHolds(x, xhr'[x], heard'[x], requestsMade'[x], unfinished', microtasks', cut')
  <2>1. XhrHolds(x, xhr[x], heard[x], requestsMade[x], unfinished, microtasks, cut)
    BY DEF XhrsNow, AllHold
  <2>2. /\ CountIn(unfinished', AnswersOf(x)) = CountIn(unfinished, AnswersOf(x)) + OneIf(g \in Answering /\ g.of = x)
        /\ CountIn(unfinished', CallsOf(x)) = CountIn(unfinished, CallsOf(x)) + OneIf(g.of = x)
    BY <1>0, <1>1, <1>3, CallPushed
  <2>3. OneIf(g \in Answering /\ g.of = x) = 0 /\ OneIf(g.of = x) = IF x = y THEN 1 ELSE 0
    BY <1>1 DEF OneIf
  <2>4. /\ heard[x].answer \in Nat /\ heard[x].abort \in Nat /\ heard[x].loadend \in Nat /\ requestsMade[x] \in Nat
        /\ CountIn(unfinished, AnswersOf(x)) \in Nat /\ CountIn(unfinished, CallsOf(x)) \in Nat
    BY Amounts DEF XhrsNow
  <2>5. xhr'[x].sent = xhr[x].sent /\ heard'[x].answer = heard[x].answer /\ heard'[x].loadend = heard[x].loadend
        /\ heard'[x].abort = heard[x].abort + IF x = y THEN 1 ELSE 0
    <3>1. CASE x = y
      BY <1>0, <1>2, <1>3, <3>1
    <3>2. CASE x # y
      BY <1>0, <1>3, <2>4, <3>2
    <3> QED BY <3>1, <3>2
  <2>a. microtasks' = microtasks /\ requestsMade' = requestsMade /\ cut' = cut
    BY <1>3
  <2>b. CountIn(unfinished', AnswersOf(x)) = CountIn(unfinished, AnswersOf(x))
    BY <2>2, <2>3, <2>4
  <2>6. CASE x = y
    <3>1. CountIn(unfinished', CallsOf(x)) = CountIn(unfinished, CallsOf(x)) + 1 /\ heard'[x].abort = heard[x].abort + 1
      BY <2>2, <2>3, <2>5, <2>6
    <3>2. heard[x].loadend + CountIn(unfinished, CallsOf(x)) = requestsMade[x] + heard[x].abort
          => heard'[x].loadend + CountIn(unfinished', CallsOf(x)) = requestsMade[x] + heard'[x].abort
      BY <2>4, <2>5, <3>1
    <3> QED BY <2>a, <2>b, <2>1, <2>5, <3>2 DEF XhrHolds
  <2>7. CASE x # y
    <3>1. CountIn(unfinished', CallsOf(x)) = CountIn(unfinished, CallsOf(x)) /\ heard'[x].abort = heard[x].abort
      BY <2>2, <2>3, <2>4, <2>5, <2>7
    <3> QED BY <2>a, <2>b, <2>1, <2>5, <3>1 DEF XhrHolds
  <2> QED BY <2>6, <2>7
<1> QED BY <1>0, <1>3, <1>4, <1>5 DEF XhrsNow, AllHold

LEMMA FireKeeps ==
  ASSUME XhrsNow, FireNext
  PROVE  XhrsNow'
<1> DEFINE c == Head(unfinished)
           y == c.of
           g == [c EXCEPT !.left = Tail(c.left)]
           h == HearsEvent(heard[y], Head(c.left))
           e == Enters(xhr[y], Head(c.left))
<1>0. xhr \in [Xhrs -> XhrStates] /\ heard \in [Xhrs -> Heard] /\ unfinished \in Seq(Calls) /\ microtasks \in Seq(Jobs) /\ requestsMade \in [Xhrs -> Nat]
      /\ unfinished # <<>>
  BY DEF XhrsNow, AllHold, FireNext
<1>1. c \in XhrCalls /\ c = unfinished[1] /\ 1 \in DOMAIN unfinished
  <2> DEFINE C == Calls
  <2> HIDE DEF C
  <2>1. c \in C /\ c = unfinished[1] /\ 1 \in DOMAIN unfinished
    BY <1>0, EmptySeq, LenProperties, ElementOfSeq, HeadTailProperties DEF C
  <2>2. c.left # <<>>
    BY DEF FireNext
  <2> QED BY <2>1, <2>2 DEF C, Calls, Hands
<1>2. y \in Xhrs
  BY <1>1 DEF XhrCalls, Answering, Ending
<1>3. /\ g.of = y /\ Fired(c, heard[y]) /\ e \in XhrStates /\ e.sent = xhr[y].sent
  BY <1>0, <1>1, <1>2, CallFires
<1>4. /\ xhr' = [xhr EXCEPT ![y] = e] /\ heard' = [heard EXCEPT ![y] = h] /\ UNCHANGED <<microtasks, requestsMade, cut>>
      /\ unfinished' = IF Len(c.left) = 1 THEN Tail(unfinished) ELSE [unfinished EXCEPT ![1] = g]
  <2>1. [unfinished EXCEPT ![1].left = Tail(c.left)] = [unfinished EXCEPT ![1] = g]
    BY <1>0, <1>1
  <2> QED BY <2>1 DEF FireNext
<1>5. /\ h \in Heard /\ h.abort = heard[y].abort
      /\ \/ /\ Len(c.left) = 1 /\ c \in Ending /\ h.answer = heard[y].answer /\ h.loadend = heard[y].loadend + 1
         \/ /\ Len(c.left) # 1 /\ c \in Answering /\ g \in Answering /\ h = heard[y]
         \/ /\ Len(c.left) # 1 /\ c \in Answering /\ g \in Ending /\ h.answer = heard[y].answer + 1 /\ h.loadend = heard[y].loadend
  BY <1>3 DEF Fired
<1>6. \A k : k \in Ending => k \notin Answering
  BY EndIsNoAnswer
<1> HIDE DEF c, y, g, h, e
<1>7. g \in XhrCalls \/ Len(c.left) = 1
  BY <1>5 DEF XhrCalls
<1> DEFINE t == Tail(unfinished)
           R(k) == [unfinished EXCEPT ![1] = k]
<1>8. ASSUME NEW x, NEW k \in XhrCalls
      PROVE  /\ R(k) \in Seq(Calls) /\ t \in Seq(Calls)
             /\ CountIn(unfinished, AnswersOf(x)) = CountIn(t, AnswersOf(x)) + OneIf(c \in Answering /\ c.of = x)
             /\ CountIn(unfinished, CallsOf(x)) = CountIn(t, CallsOf(x)) + OneIf(c.of = x)
             /\ CountIn(R(k), AnswersOf(x)) = CountIn(t, AnswersOf(x)) + OneIf(k \in Answering /\ k.of = x)
             /\ CountIn(R(k), CallsOf(x)) = CountIn(t, CallsOf(x)) + OneIf(k.of = x)
  <2>1. unfinished \in Seq(Calls) /\ unfinished # <<>> /\ c = unfinished[1] /\ unfinished[1] \in XhrCalls
    BY <1>0, <1>1
  <2> QED BY <2>1, CallMoved
<1>a. unfinished' = IF Len(c.left) = 1 THEN t ELSE R(g)
  BY <1>4
<1> HIDE DEF t, R
<1>b. UNCHANGED <<microtasks, requestsMade, cut>>
  BY <1>4
<1>9. unfinished' \in Seq(Calls) /\ xhr' \in [Xhrs -> XhrStates] /\ heard' \in [Xhrs -> Heard]
  <2>1. xhr' \in [Xhrs -> XhrStates] /\ heard' \in [Xhrs -> Heard]
    BY <1>0, <1>3, <1>4, <1>5
  <2>2. unfinished' \in Seq(Calls)
    BY <1>1, <1>7, <1>8, <1>a
  <2> QED BY <2>1, <2>2
<1>10. ASSUME NEW x \in Xhrs PROVE XhrHolds(x, xhr'[x], heard'[x], requestsMade'[x], unfinished', microtasks', cut')
  <2>1. XhrHolds(x, xhr[x], heard[x], requestsMade[x], unfinished, microtasks, cut)
    BY DEF XhrsNow, AllHold
  <2>2. /\ heard[x].answer \in Nat /\ heard[x].abort \in Nat /\ heard[x].loadend \in Nat /\ requestsMade[x] \in Nat
        /\ CountIn(unfinished, AnswersOf(x)) \in Nat /\ CountIn(unfinished, CallsOf(x)) \in Nat
    BY Amounts DEF XhrsNow
  <2>t. CountIn(t, AnswersOf(x)) \in Nat /\ CountIn(t, CallsOf(x)) \in Nat
    BY <1>1, <1>8, CallCounts
  <2>3. CASE x # y
    <3>1. xhr'[x] = xhr[x] /\ heard'[x] = heard[x]
      BY <1>0, <1>4, <2>3
    <3>2. OneIf(c \in Answering /\ c.of = x) = 0 /\ OneIf(c.of = x) = 0 /\ OneIf(g \in Answering /\ g.of = x) = 0 /\ OneIf(g.of = x) = 0
      BY <1>3, <2>3 DEF OneIf, y
    <3>3. CountIn(unfinished', AnswersOf(x)) = CountIn(unfinished, AnswersOf(x)) /\ CountIn(unfinished', CallsOf(x)) = CountIn(unfinished, CallsOf(x))
      BY <1>1, <1>a, <1>7, <1>8, <2>t, <3>2
    <3> QED BY <1>b, <2>1, <3>1, <3>3 DEF XhrHolds
  <2>4. CASE x = y
    <3>1. xhr'[x].sent = xhr[x].sent /\ heard'[x] = h /\ c.of = x /\ g.of = x
      BY <1>0, <1>2, <1>3, <1>4, <2>4 DEF y
    <3>2. CASE /\ Len(c.left) = 1 /\ c \in Ending /\ h.answer = heard[y].answer /\ h.loadend = heard[y].loadend + 1
      <4>1. OneIf(c \in Answering /\ c.of = x) = 0 /\ OneIf(c.of = x) = 1
        BY <1>6, <3>1, <3>2 DEF OneIf
      <4>2. CountIn(unfinished', AnswersOf(x)) = CountIn(unfinished, AnswersOf(x)) /\ CountIn(unfinished', CallsOf(x)) + 1 = CountIn(unfinished, CallsOf(x))
        <5>1. unfinished' = t
          BY <1>a, <3>2
        <5>2. CountIn(unfinished, AnswersOf(x)) = CountIn(t, AnswersOf(x)) + OneIf(c \in Answering /\ c.of = x)
              /\ CountIn(unfinished, CallsOf(x)) = CountIn(t, CallsOf(x)) + OneIf(c.of = x)
          BY <1>1, <1>8
        <5> QED BY <2>t, <4>1, <5>1, <5>2
      <4>3. CountIn(unfinished', CallsOf(x)) \in Nat
        BY <1>a, <2>t, <3>2
      <4>4. /\ heard'[x].answer = heard[x].answer /\ heard'[x].abort = heard[x].abort
            /\ heard'[x].loadend + CountIn(unfinished', CallsOf(x)) = heard[x].loadend + CountIn(unfinished, CallsOf(x))
        BY <1>5, <2>2, <2>4, <3>1, <3>2, <4>2, <4>3
      <4> QED BY <1>b, <2>1, <3>1, <4>2, <4>4 DEF XhrHolds
    <3>3. CASE Len(c.left) # 1 /\ c \in Answering /\ g \in Answering /\ h = heard[y]
      <4>1. OneIf(c \in Answering /\ c.of = x) = 1 /\ OneIf(c.of = x) = 1 /\ OneIf(g \in Answering /\ g.of = x) = 1 /\ OneIf(g.of = x) = 1
        BY <3>1, <3>3 DEF OneIf
      <4>2. CountIn(unfinished', AnswersOf(x)) = CountIn(unfinished, AnswersOf(x)) /\ CountIn(unfinished', CallsOf(x)) = CountIn(unfinished, CallsOf(x))
        BY <1>a, <1>7, <1>8, <2>t, <3>3, <4>1
      <4> QED BY <1>b, <2>1, <2>4, <3>1, <3>3, <4>2 DEF XhrHolds
    <3>4. CASE Len(c.left) # 1 /\ c \in Answering /\ g \in Ending /\ h.answer = heard[y].answer + 1 /\ h.loadend = heard[y].loadend
      <4>1. OneIf(c \in Answering /\ c.of = x) = 1 /\ OneIf(c.of = x) = 1 /\ OneIf(g \in Answering /\ g.of = x) = 0 /\ OneIf(g.of = x) = 1
        BY <1>6, <3>1, <3>4 DEF OneIf
      <4>2. CountIn(unfinished', AnswersOf(x)) + 1 = CountIn(unfinished, AnswersOf(x)) /\ CountIn(unfinished', CallsOf(x)) = CountIn(unfinished, CallsOf(x))
        BY <1>a, <1>7, <1>8, <2>t, <3>4, <4>1
      <4>3. CountIn(unfinished', AnswersOf(x)) \in Nat
        BY <1>9, CallCounts
      <4>4. /\ heard'[x].answer + CountIn(unfinished', AnswersOf(x)) = heard[x].answer + CountIn(unfinished, AnswersOf(x))
            /\ heard'[x].abort = heard[x].abort /\ heard'[x].loadend = heard[x].loadend
        BY <1>5, <2>2, <2>4, <3>1, <3>4, <4>2, <4>3
      <4> QED BY <1>b, <2>1, <3>1, <4>2, <4>4 DEF XhrHolds
    <3> QED BY <1>5, <3>2, <3>3, <3>4
  <2> QED BY <2>3, <2>4
<1> QED BY <1>0, <1>4, <1>9, <1>10 DEF XhrsNow, AllHold


(* A request is made, or ends before it is made: of a job, or at once.      *)
LEMMA RunKeeps ==
  ASSUME XhrsNow, NEW y \in Xhrs, NEW state \in XhrStates, RunXhr(y, state), microtasks' \in Seq(Jobs),
         \A x \in Xhrs : x # y => CountIn(microtasks', {XhrJob(x)}) = CountIn(microtasks, {XhrJob(x)}),
         requestsMade[y] + CountIn(microtasks', {XhrJob(y)}) + 1 <= OneIf(state.sent),
         y \notin cut => requestsMade[y] + CountIn(microtasks', {XhrJob(y)}) + 1 = OneIf(state.sent)
  PROVE  XhrsNow'
<1>0. xhr \in [Xhrs -> XhrStates] /\ heard \in [Xhrs -> Heard] /\ unfinished \in Seq(Calls) /\ microtasks \in Seq(Jobs) /\ requestsMade \in [Xhrs -> Nat]
  BY DEF XhrsNow, AllHold
<1>a. state.sent \in BOOLEAN /\ OneIf(state.sent) \in Nat
  BY DEF XhrStates, OneIf
<1>b. ASSUME NEW x \in Xhrs PROVE CountIn(microtasks', {XhrJob(x)}) \in Nat
  <2>1. XhrJob(x) \in Jobs
    BY DEF XhrJob, Jobs
  <2> QED BY <2>1, QueueCounts
<1>1. CASE /\ \E steps \in {AnsweredSteps, FailedSteps} : Begin(y, state, steps)
           /\ requestsMade' = [requestsMade EXCEPT ![y] = requestsMade[y] + 1] /\ cut' = cut
  <2>1. PICK steps \in {AnsweredSteps, FailedSteps} : Begin(y, state, steps)
    BY <1>1
  <2>2. /\ xhr' \in [Xhrs -> XhrStates] /\ heard' = heard /\ unfinished' \in Seq(Calls)
        /\ \A x \in Xhrs : /\ xhr'[x].sent = IF x = y THEN state.sent ELSE xhr[x].sent
                           /\ CountIn(unfinished', AnswersOf(x)) = CountIn(unfinished, AnswersOf(x)) + OneIf(x = y)
                           /\ CountIn(unfinished', CallsOf(x)) = CountIn(unfinished, CallsOf(x)) + OneIf(x = y)
    BY <2>1, RequestBegins
  <2>3. requestsMade' \in [Xhrs -> Nat]
    BY <1>0, <1>1
  <2>4. ASSUME NEW x \in Xhrs PROVE XhrHolds(x, xhr'[x], heard'[x], requestsMade'[x], unfinished', microtasks', cut')
    <3>1. XhrHolds(x, xhr[x], heard[x], requestsMade[x], unfinished, microtasks, cut)
      BY DEF XhrsNow, AllHold
    <3>2. /\ heard[x].answer \in Nat /\ heard[x].abort \in Nat /\ heard[x].loadend \in Nat /\ requestsMade[x] \in Nat
          /\ CountIn(unfinished, AnswersOf(x)) \in Nat /\ CountIn(unfinished, CallsOf(x)) \in Nat
      BY Amounts DEF XhrsNow
    <3>3. CASE x # y
      <4>1. requestsMade'[x] = requestsMade[x] /\ OneIf(x = y) = 0
        BY <1>0, <1>1, <3>3 DEF OneIf
      <4>2. CountIn(unfinished', AnswersOf(x)) = CountIn(unfinished, AnswersOf(x)) /\ CountIn(unfinished', CallsOf(x)) = CountIn(unfinished, CallsOf(x))
        BY <2>2, <3>2, <4>1
      <4>3. xhr'[x].sent = xhr[x].sent /\ heard'[x] = heard[x] /\ cut' = cut /\ CountIn(microtasks', {XhrJob(x)}) = CountIn(microtasks, {XhrJob(x)})
        BY <1>1, <2>2, <3>3
      <4> QED BY <3>1, <4>1, <4>2, <4>3 DEF XhrHolds
    <3>4. CASE x = y
      <4>1. requestsMade'[x] = requestsMade[x] + 1 /\ OneIf(x = y) = 1
        BY <1>0, <1>1, <3>4 DEF OneIf
      <4>2. CountIn(unfinished', AnswersOf(x)) = CountIn(unfinished, AnswersOf(x)) + 1 /\ CountIn(unfinished', CallsOf(x)) = CountIn(unfinished, CallsOf(x)) + 1
        BY <2>2, <4>1
      <4>3. xhr'[x].sent = state.sent /\ heard'[x] = heard[x] /\ cut' = cut
        BY <1>1, <2>2, <3>4
      <4>4. /\ requestsMade'[x] + CountIn(microtasks', {XhrJob(x)}) <= OneIf(state.sent)
            /\ x \notin cut => requestsMade'[x] + CountIn(microtasks', {XhrJob(x)}) = OneIf(state.sent)
        <5> DEFINE m == requestsMade[x]
                   w == CountIn(microtasks', {XhrJob(x)})
                   o == OneIf(state.sent)
        <5>1. m \in Nat /\ w \in Nat /\ o \in Nat /\ m + w + 1 <= o /\ (x \notin cut => m + w + 1 = o)
          BY <1>a, <1>b, <3>2, <3>4
        <5> HIDE DEF m, w, o
        <5>2. (m + 1) + w <= o /\ (x \notin cut => (m + 1) + w = o)
          BY <5>1
        <5> QED BY <4>1, <5>2 DEF m, w, o
      <4>5. /\ heard[x].answer + CountIn(unfinished, AnswersOf(x)) <= requestsMade[x]
            /\ x \notin cut => heard[x].answer + CountIn(unfinished, AnswersOf(x)) = requestsMade[x]
            /\ x \notin cut => heard[x].loadend + CountIn(unfinished, CallsOf(x)) = requestsMade[x] + heard[x].abort
        BY <3>1 DEF XhrHolds
      <4>6. /\ heard[x].answer + CountIn(unfinished', AnswersOf(x)) <= requestsMade'[x]
            /\ x \notin cut => heard[x].answer + CountIn(unfinished', AnswersOf(x)) = requestsMade'[x]
            /\ x \notin cut => heard[x].loadend + CountIn(unfinished', CallsOf(x)) = requestsMade'[x] + heard[x].abort
        <5> DEFINE a == heard[x].answer
                   l == heard[x].loadend
                   b == heard[x].abort
                   m == requestsMade[x]
                   u == CountIn(unfinished, AnswersOf(x))
                   v == CountIn(unfinished, CallsOf(x))
        <5>1. a \in Nat /\ l \in Nat /\ b \in Nat /\ m \in Nat /\ u \in Nat /\ v \in Nat
          BY <3>2
        <5>2. a + u <= m /\ (x \notin cut => a + u = m) /\ (x \notin cut => l + v = m + b)
          BY <4>5
        <5>3. CountIn(unfinished', AnswersOf(x)) = u + 1 /\ CountIn(unfinished', CallsOf(x)) = v + 1 /\ requestsMade'[x] = m + 1
          BY <4>1, <4>2
        <5> HIDE DEF a, l, b, m, u, v
        <5>4. a + (u + 1) <= m + 1 /\ (x \notin cut => a + (u + 1) = m + 1) /\ (x \notin cut => l + (v + 1) = (m + 1) + b)
          BY <5>1, <5>2
        <5> QED BY <5>3, <5>4 DEF a, l, b
      <4> QED BY <4>3, <4>4, <4>6 DEF XhrHolds
    <3> QED BY <3>3, <3>4
  <2> QED BY <2>2, <2>3, <2>4, <1>0 DEF XhrsNow, AllHold
<1>2. CASE cut' = cut \cup {y} /\ xhr' = [xhr EXCEPT ![y] = state] /\ UNCHANGED <<unfinished, heard, requestsMade>>
  <2>1. xhr' \in [Xhrs -> XhrStates]
    BY <1>0, <1>2
  <2>2. ASSUME NEW x \in Xhrs PROVE XhrHolds(x, xhr'[x], heard'[x], requestsMade'[x], unfinished', microtasks', cut')
    <3>1. XhrHolds(x, xhr[x], heard[x], requestsMade[x], unfinished, microtasks, cut)
      BY DEF XhrsNow, AllHold
    <3>2. requestsMade[x] \in Nat
      BY <1>0
    <3>3. CASE x # y
      <4>1. xhr'[x] = xhr[x] /\ (x \notin cut' => x \notin cut) /\ CountIn(microtasks', {XhrJob(x)}) = CountIn(microtasks, {XhrJob(x)})
        BY <1>0, <1>2, <3>3
      <4> QED BY <1>2, <3>1, <4>1 DEF XhrHolds
    <3>4. CASE x = y
      <4>1. xhr'[x] = state /\ x \in cut'
        BY <1>0, <1>2, <3>4
      <4>2. requestsMade[x] + CountIn(microtasks', {XhrJob(x)}) <= OneIf(state.sent)
        <5> DEFINE m == requestsMade[x]
                   w == CountIn(microtasks', {XhrJob(x)})
                   o == OneIf(state.sent)
        <5>1. m \in Nat /\ w \in Nat /\ o \in Nat /\ m + w + 1 <= o
          BY <1>a, <1>b, <3>2, <3>4
        <5> HIDE DEF m, w, o
        <5>2. m + w <= o
          BY <5>1
        <5> QED BY <5>2 DEF m, w, o
      <4> QED BY <1>2, <3>1, <4>1, <4>2 DEF XhrHolds
    <3> QED BY <3>3, <3>4
  <2> QED BY <1>0, <1>2, <2>1, <2>2 DEF XhrsNow, AllHold
<1> QED BY <1>1, <1>2 DEF RunXhr

LEMMA SendKeeps ==
  ASSUME XhrsNow, NEW y \in Xhrs, SendXhr(y)
  PROVE  XhrsNow'
<1> DEFINE state == [xhr[y] EXCEPT !.sent = TRUE]
<1>0. xhr \in [Xhrs -> XhrStates] /\ heard \in [Xhrs -> Heard] /\ unfinished \in Seq(Calls) /\ microtasks \in Seq(Jobs) /\ requestsMade \in [Xhrs -> Nat]
  BY DEF XhrsNow, AllHold
<1>1. xhr[y] \in XhrStates /\ ~xhr[y].sent
  BY <1>0 DEF SendXhr, Sendable
<1>2. state \in XhrStates /\ state.sent = TRUE
  BY <1>1 DEF XhrStates
<1>3. \/ /\ microtasks' = Append(microtasks, XhrJob(y)) /\ xhr' = [xhr EXCEPT ![y] = state]
         /\ UNCHANGED <<unfinished, heard, requestsMade, cut>>
      \/ RunXhr(y, state) /\ microtasks' = microtasks
  BY DEF SendXhr, XhrJob
<1>4. requestsMade[y] = 0 /\ CountIn(microtasks, {XhrJob(y)}) = 0
  <2>1. requestsMade[y] \in Nat /\ CountIn(microtasks, {XhrJob(y)}) \in Nat
    BY Amounts DEF XhrsNow
  <2>2. requestsMade[y] + CountIn(microtasks, {XhrJob(y)}) <= OneIf(xhr[y].sent)
    BY DEF XhrsNow, AllHold, XhrHolds
  <2>3. OneIf(xhr[y].sent) = 0
    BY <1>1 DEF OneIf
  <2> QED BY <2>1, <2>2, <2>3
<1>5. OneIf(state.sent) = 1
  BY <1>2 DEF OneIf
<1>j. \A x \in Xhrs : XhrJob(x) \in Jobs
  BY DEF XhrJob, Jobs
<1> HIDE DEF state
<1>6. CASE RunXhr(y, state) /\ microtasks' = microtasks
  <2>1. requestsMade[y] + CountIn(microtasks', {XhrJob(y)}) + 1 = 1
    BY <1>4, <1>6
  <2> QED BY <1>0, <1>2, <1>5, <1>6, <2>1, RunKeeps
<1>7. CASE /\ microtasks' = Append(microtasks, XhrJob(y)) /\ xhr' = [xhr EXCEPT ![y] = state]
           /\ UNCHANGED <<unfinished, heard, requestsMade, cut>>
  <2>1. xhr' \in [Xhrs -> XhrStates]
    BY <1>0, <1>2, <1>7
  <2>2. \A x \in Xhrs : microtasks' \in Seq(Jobs) /\ CountIn(microtasks', {XhrJob(x)}) = CountIn(microtasks, {XhrJob(x)}) + OneIf(XhrJob(y) = XhrJob(x))
    BY <1>0, <1>7, <1>j, QueueCounts
  <2>3. ASSUME NEW x \in Xhrs PROVE XhrHolds(x, xhr'[x], heard'[x], requestsMade'[x], unfinished', microtasks', cut')
    <3>1. XhrHolds(x, xhr[x], heard[x], requestsMade[x], unfinished, microtasks, cut)
      BY DEF XhrsNow, AllHold
    <3>2. CountIn(microtasks, {XhrJob(x)}) \in Nat
      BY Amounts DEF XhrsNow
    <3>3. CASE x # y
      <4>1. OneIf(XhrJob(y) = XhrJob(x)) = 0
        BY <3>3 DEF OneIf, XhrJob
      <4>2. CountIn(microtasks', {XhrJob(x)}) = CountIn(microtasks, {XhrJob(x)})
        BY <2>2, <3>2, <4>1
      <4>3. xhr'[x] = xhr[x]
        BY <1>0, <1>7, <3>3
      <4> QED BY <1>7, <3>1, <4>2, <4>3 DEF XhrHolds
    <3>4. CASE x = y
      <4>1. OneIf(XhrJob(y) = XhrJob(x)) = 1
        BY <3>4 DEF OneIf
      <4>2. CountIn(microtasks', {XhrJob(x)}) = 1
        BY <1>4, <2>2, <3>4, <4>1
      <4>3. requestsMade'[x] + CountIn(microtasks', {XhrJob(x)}) = 1
        BY <1>4, <1>7, <3>4, <4>2
      <4>4. xhr'[x] = state
        BY <1>0, <1>7, <3>4
      <4>5. requestsMade'[x] + CountIn(microtasks', {XhrJob(x)}) = OneIf(xhr'[x].sent) /\ OneIf(xhr'[x].sent) \in Nat
        BY <1>5, <4>3, <4>4
      <4> QED BY <1>7, <3>1, <4>5 DEF XhrHolds
    <3> QED BY <3>3, <3>4
  <2> QED BY <1>0, <1>7, <1>j, <2>1, <2>2, <2>3 DEF XhrsNow, AllHold
<1> QED BY <1>3, <1>6, <1>7

LEMMA XhrJobKeeps ==
  ASSUME XhrsNow, RunMicrotask, Head(microtasks).of = "xhr"
  PROVE  XhrsNow'
<1> DEFINE y == Head(microtasks).id
<1>0. microtasks \in Seq(Jobs) /\ microtasks # <<>> /\ microtasks' = Tail(microtasks) /\ xhr \in [Xhrs -> XhrStates]
  BY DEF XhrsNow, AllHold, RunMicrotask
<1>j. \A x \in Xhrs : XhrJob(x) \in Jobs
  BY DEF XhrJob, Jobs
<1>1. microtasks' \in Seq(Jobs) /\ Head(microtasks) = microtasks[1] /\ microtasks[1] \in Jobs
  <2> DEFINE J == Jobs
  <2> HIDE DEF J
  <2>1. microtasks' \in Seq(J) /\ Head(microtasks) = microtasks[1] /\ microtasks[1] \in J
    BY <1>0, EmptySeq, LenProperties, ElementOfSeq, HeadTailProperties DEF J
  <2> QED BY <2>1 DEF J
<1>2. y \in Xhrs /\ microtasks[1] = XhrJob(y)
  BY <1>1 DEF Jobs, XhrJob, Image
<1>3. RunXhr(y, xhr[y])
  BY DEF RunMicrotask, Image
<1> HIDE DEF y
<1>4. xhr[y] \in XhrStates
  BY <1>0, <1>2
<1>5. ASSUME NEW x \in Xhrs PROVE CountIn(microtasks, {XhrJob(x)}) = CountIn(microtasks', {XhrJob(x)}) + OneIf(x = y) /\ CountIn(microtasks', {XhrJob(x)}) \in Nat
  <2>1. CountIn(microtasks, {XhrJob(x)}) = CountIn(Tail(microtasks), {XhrJob(x)}) + OneIf(microtasks[1] = XhrJob(x))
    BY <1>0, <1>j, QueueCounts
  <2>2. (microtasks[1] = XhrJob(x)) = (x = y)
    BY <1>2 DEF XhrJob
  <2>3. CountIn(microtasks', {XhrJob(x)}) \in Nat
    BY <1>1, <1>j, QueueCounts
  <2> QED BY <1>0, <2>1, <2>2, <2>3
<1>6. \A x \in Xhrs : x # y => CountIn(microtasks', {XhrJob(x)}) = CountIn(microtasks, {XhrJob(x)})
  <2>1. \A x : x # y => OneIf(x = y) = 0
    BY DEF OneIf
  <2> QED BY <1>5, <2>1
<1>7. requestsMade[y] + CountIn(microtasks', {XhrJob(y)}) + 1 = requestsMade[y] + CountIn(microtasks, {XhrJob(y)})
  <2>1. OneIf(y = y) = 1
    BY DEF OneIf
  <2>2. requestsMade[y] \in Nat
    BY <1>2, Amounts DEF XhrsNow
  <2> QED BY <1>2, <1>5, <2>1, <2>2
<1>8. /\ requestsMade[y] + CountIn(microtasks, {XhrJob(y)}) <= OneIf(xhr[y].sent)
      /\ y \notin cut => requestsMade[y] + CountIn(microtasks, {XhrJob(y)}) = OneIf(xhr[y].sent)
  BY <1>2 DEF XhrsNow, AllHold, XhrHolds
<1>9. /\ requestsMade[y] + CountIn(microtasks', {XhrJob(y)}) + 1 <= OneIf(xhr[y].sent)
      /\ y \notin cut => requestsMade[y] + CountIn(microtasks', {XhrJob(y)}) + 1 = OneIf(xhr[y].sent)
  BY <1>7, <1>8
<1> QED BY <1>1, <1>2, <1>3, <1>4, <1>6, <1>9, RunKeeps


-----------------------------------------------------------------------------
(* The promises and the image.                                              *)
LEMMA JobsQueued ==
  ASSUME NEW q \in Seq(Jobs), NEW job \in Jobs
  PROVE  LET r == Append(q, job)
         IN  /\ r \in Seq(Jobs) /\ Len(q) \in Nat /\ DOMAIN q = 1..Len(q) /\ DOMAIN r = 1..(Len(q) + 1) /\ r[Len(q) + 1] = job
             /\ \A i \in DOMAIN q : r[i] = q[i] /\ i \in DOMAIN r /\ i \in Nat
             /\ \A i \in DOMAIN r : i \in DOMAIN q \/ i = Len(q) + 1
<1> DEFINE J == Jobs
           r == Append(q, job)
<1>0. q \in Seq(J) /\ job \in J
  OBVIOUS
<1> HIDE DEF J
<1>1. /\ r \in Seq(J) /\ Len(q) \in Nat /\ DOMAIN q = 1..Len(q) /\ Len(r) = Len(q) + 1 /\ r[Len(q) + 1] = job
      /\ \A i \in 1..Len(q) : r[i] = q[i]
  BY <1>0, AppendProperties, LenProperties
<1>2. DOMAIN r = 1..(Len(q) + 1)
  BY <1>1, LenProperties
<1> HIDE DEF r
<1>3. /\ \A i \in DOMAIN q : r[i] = q[i] /\ i \in DOMAIN r /\ i \in Nat
      /\ \A i \in DOMAIN r : i \in DOMAIN q \/ i = Len(q) + 1
  BY <1>1, <1>2
<1> QED BY <1>1, <1>2, <1>3 DEF J, r

LEMMA JobsRun ==
  ASSUME NEW q \in Seq(Jobs), q # <<>>
  PROVE  LET r == Tail(q)
         IN  /\ r \in Seq(Jobs) /\ Head(q) = q[1] /\ q[1] \in Jobs /\ 1 \in DOMAIN q
             /\ \A i \in DOMAIN r : r[i] = q[i + 1] /\ i + 1 \in DOMAIN q /\ i \in Nat \ {0}
             /\ \A i \in DOMAIN q : i # 1 => i - 1 \in DOMAIN r /\ r[i - 1] = q[i] /\ i \in Nat
<1> DEFINE J == Jobs
           r == Tail(q)
<1>0. q \in Seq(J)
  OBVIOUS
<1> HIDE DEF J
<1>1. /\ r \in Seq(J) /\ Len(q) \in Nat \ {0} /\ DOMAIN q = 1..Len(q) /\ Len(r) = Len(q) - 1
      /\ \A i \in 1..Len(r) : r[i] = q[i + 1]
  BY <1>0, EmptySeq, HeadTailProperties, LenProperties
<1>a. Head(q) = q[1] /\ q[1] \in J
  BY <1>0, <1>1, HeadTailProperties, ElementOfSeq
<1>2. DOMAIN r = 1..(Len(q) - 1)
  BY <1>1, LenProperties
<1> HIDE DEF r
<1>3. /\ \A i \in DOMAIN r : r[i] = q[i + 1] /\ i + 1 \in DOMAIN q /\ i \in Nat \ {0}
      /\ \A i \in DOMAIN q : i # 1 => i - 1 \in DOMAIN r /\ r[i - 1] = q[i] /\ i \in Nat
      /\ 1 \in DOMAIN q
  <2>1. \A i \in DOMAIN q : i # 1 => i - 1 \in 1..(Len(q) - 1) /\ (i - 1) + 1 = i /\ i \in Nat
    BY <1>1
  <2>2. \A i \in DOMAIN r : i \in 1..Len(r) /\ i + 1 \in DOMAIN q /\ i \in Nat \ {0}
    BY <1>1, <1>2
  <2> QED BY <1>1, <1>2, <2>1, <2>2
<1> QED BY <1>1, <1>a, <1>3 DEF J, r

LEMMA OtherJobQueued ==
  ASSUME NEW q \in Seq(Jobs), NEW job \in Jobs, job.of # "fetch", NEW p, NEW d, FetchHolds(q, p, d)
  PROVE  FetchHolds(Append(q, job), p, d)
<1> DEFINE r == Append(q, job)
           n == Len(q) + 1
<1>1. /\ r[n] = job /\ \A i \in DOMAIN q : r[i] = q[i] /\ i \in DOMAIN r
      /\ \A i \in DOMAIN r : i \in DOMAIN q \/ i = n
  BY JobsQueued
<1> HIDE DEF r, n
<1>2. \A f : (\E i \in DOMAIN r : r[i] = FetchJob(f)) <=> \E i \in DOMAIN q : q[i] = FetchJob(f)
  <2>1. \A f : job # FetchJob(f)
    BY DEF FetchJob
  <2> QED BY <1>1, <2>1
<1>3. \A i \in DOMAIN r : r[i].of = "fetch" => i \in DOMAIN q /\ r[i] = q[i]
  BY <1>1
<1>4. FetchHolds(r, p, d)
  BY <1>2, <1>3 DEF FetchHolds
<1> QED BY <1>4 DEF r

LEMMA FetchQueued ==
  ASSUME NEW q \in Seq(Jobs), NEW p, NEW d, FetchHolds(q, p, d)
  PROVE  FetchHolds(Append(q, FetchJob(Len(p) + 1)), Append(p, "pending"), d) /\ FetchJob(Len(p) + 1) \in Jobs
<1> DEFINE f == Len(p) + 1
           job == FetchJob(f)
           r == Append(q, job)
           n == Len(q) + 1
           w == Append(p, "pending")
<1>0. p \in Seq({"pending", "settled", "cut"}) /\ d \in Seq(Nat)
  BY DEF FetchHolds
<1>1. /\ w \in Seq({"pending", "settled", "cut"}) /\ Len(p) \in Nat /\ DOMAIN p = 1..Len(p) /\ DOMAIN w = 1..f /\ Len(w) = f /\ w[f] = "pending"
      /\ \A g \in DOMAIN p : w[g] = p[g]
  BY <1>0
<1>2. f \in Nat /\ job \in Jobs /\ job.of = "fetch" /\ job.id = f
  BY <1>1 DEF FetchJob, Jobs
<1>3. /\ r[n] = job /\ \A i \in DOMAIN q : r[i] = q[i] /\ i \in DOMAIN r /\ i < n /\ i \in Nat
      /\ \A i \in DOMAIN r : i \in DOMAIN q \/ i = n
      /\ n \in DOMAIN r /\ n \in Nat
  <2> HIDE DEF job
  <2> QED BY <1>2, JobsQueued
<1>a. \A g : job = FetchJob(g) <=> g = f
  BY DEF FetchJob
<1>b. \A i \in DOMAIN q : q[i].of = "fetch" => q[i].id \in 1..Len(p)
  BY <1>1 DEF FetchHolds
<1>c. \A k \in DOMAIN d : d[k] \in Nat /\ d[k] <= Len(p)
  BY <1>0 DEF FetchHolds
<1> HIDE DEF f, job, r, n, w
<1>d. \A g \in 1..Len(p) : g < f /\ g # f
  BY <1>1 DEF f
<1>e. \A k \in DOMAIN d : d[k] < f /\ d[k] <= f
  BY <1>1, <1>c DEF f
<1>4. \A g \in DOMAIN w : w[g] = "pending" <=> \E i \in DOMAIN r : r[i] = FetchJob(g)
  <2>1. \E i \in DOMAIN r : r[i] = FetchJob(f)
    BY <1>3, <1>a
  <2>2. \A g \in DOMAIN p : (\E i \in DOMAIN r : r[i] = FetchJob(g)) <=> \E i \in DOMAIN q : q[i] = FetchJob(g)
    BY <1>1, <1>3, <1>a, <1>d
  <2>3. \A g \in DOMAIN w : g = f \/ g \in DOMAIN p
    BY <1>1 DEF f
  <2> QED BY <1>1, <2>1, <2>2, <2>3 DEF FetchHolds
<1>5. ASSUME NEW i \in DOMAIN r, r[i].of = "fetch"
      PROVE  /\ r[i].id \in DOMAIN w /\ \A k \in DOMAIN d : d[k] < r[i].id
             /\ \A j \in DOMAIN r : i < j /\ r[j].of = "fetch" => r[i].id < r[j].id
  <2>1. CASE i \in DOMAIN q
    <3>1. r[i] = q[i] /\ q[i].id \in 1..Len(p) /\ \A k \in DOMAIN d : d[k] < q[i].id
      BY <1>3, <1>5, <1>b, <2>1 DEF FetchHolds
    <3>2. ASSUME NEW j \in DOMAIN r, i < j, r[j].of = "fetch" PROVE q[i].id < r[j].id
      <4>1. CASE j \in DOMAIN q
        BY <1>3, <1>5, <2>1, <3>1, <3>2, <4>1 DEF FetchHolds
      <4>2. CASE j = n
        BY <1>2, <1>3, <1>d, <3>1, <4>2
      <4> QED BY <1>3, <4>1, <4>2
    <3>3. q[i].id \in DOMAIN w
      BY <1>1, <3>1 DEF f
    <3> QED BY <3>1, <3>2, <3>3
  <2>2. CASE i = n
    <3>a. r[i].id = f
      BY <1>2, <1>3, <2>2
    <3>b. f \in 1..f
      BY <1>1 DEF f
    <3>1. r[i].id = f /\ f \in DOMAIN w
      BY <1>1, <3>a, <3>b
    <3>2. \A j \in DOMAIN r : ~(i < j)
      BY <1>3, <2>2
    <3> QED BY <1>e, <3>1, <3>2
  <2> QED BY <1>3, <2>1, <2>2
<1>6. FetchHolds(r, w, d)
  <2>1. \A k \in DOMAIN d : d[k] <= Len(w)
    BY <1>1, <1>e
  <2>2. \A k \in 2..Len(d) : d[k - 1] < d[k]
    BY DEF FetchHolds
  <2> QED BY <1>0, <1>1, <1>4, <1>5, <2>1, <2>2 DEF FetchHolds
<1> QED BY <1>2, <1>6 DEF f, job, r, w

LEMMA OtherJobRun ==
  ASSUME NEW q \in Seq(Jobs), q # <<>>, Head(q).of # "fetch", NEW p, NEW d, FetchHolds(q, p, d)
  PROVE  FetchHolds(Tail(q), p, d)
<1> DEFINE r == Tail(q)
<1>1. /\ q[1].of # "fetch"
      /\ \A i \in DOMAIN r : r[i] = q[i + 1] /\ i + 1 \in DOMAIN q /\ i \in Nat
      /\ \A i \in DOMAIN q : i # 1 => i - 1 \in DOMAIN r /\ r[i - 1] = q[i]
  BY JobsRun
<1> HIDE DEF r
<1>2. \A f : (\E i \in DOMAIN r : r[i] = FetchJob(f)) <=> \E i \in DOMAIN q : q[i] = FetchJob(f)
  <2>1. \A f : q[1] # FetchJob(f)
    BY <1>1 DEF FetchJob
  <2> QED BY <1>1, <2>1
<1>3. \A i \in DOMAIN r : \A j \in DOMAIN r : i < j => i + 1 < j + 1
  BY <1>1
<1>4. FetchHolds(r, p, d)
  BY <1>1, <1>2, <1>3 DEF FetchHolds
<1> QED BY <1>4 DEF r

LEMMA FetchRun ==
  ASSUME NEW q \in Seq(Jobs), q # <<>>, NEW f, f = Head(q).id, Head(q).of = "fetch", NEW p, NEW d, FetchHolds(q, p, d)
  PROVE  /\ FetchHolds(Tail(q), [p EXCEPT ![f] = "settled"], Append(d, f))
         /\ FetchHolds(Tail(q), [p EXCEPT ![f] = "cut"], d)
<1> DEFINE r == Tail(q)
           P == {"pending", "settled", "cut"}
           W(o) == [p EXCEPT ![f] = o]
           e == Append(d, f)
<1>0. p \in Seq(P) /\ d \in Seq(Nat)
  BY DEF FetchHolds
<1>1. /\ q[1].of = "fetch" /\ q[1].id = f /\ q[1] \in Jobs /\ 1 \in DOMAIN q
      /\ \A i \in DOMAIN r : r[i] = q[i + 1] /\ i + 1 \in DOMAIN q /\ i \in Nat \ {0}
      /\ \A i \in DOMAIN q : i # 1 => i - 1 \in DOMAIN r /\ r[i - 1] = q[i]
  BY JobsRun
<1>2. q[1] = FetchJob(f) /\ f \in Nat
  BY <1>1 DEF FetchJob, Jobs
<1>3. f \in DOMAIN p /\ (\A k \in DOMAIN d : d[k] < f) /\ \A j \in DOMAIN q : 1 < j /\ q[j].of = "fetch" => f < q[j].id
  BY <1>1 DEF FetchHolds
<1>4. ASSUME NEW o \in P PROVE W(o) \in Seq(P) /\ DOMAIN W(o) = DOMAIN p /\ Len(W(o)) = Len(p) /\ W(o)[f] = o /\ \A g \in DOMAIN p : g # f => W(o)[g] = p[g]
  BY <1>0, <1>3, ExceptSeq
<1>5. /\ e \in Seq(Nat) /\ Len(d) \in Nat /\ DOMAIN d = 1..Len(d) /\ Len(e) = Len(d) + 1 /\ DOMAIN e = 1..(Len(d) + 1) /\ e[Len(d) + 1] = f
      /\ \A k \in DOMAIN d : e[k] = d[k]
  BY <1>0, <1>2
<1>6. DOMAIN p = 1..Len(p) /\ Len(p) \in Nat
  BY <1>0
<1> HIDE DEF r, P, W, e
<1>7. \A i \in DOMAIN r : r[i].of = "fetch" => f < r[i].id /\ r[i].id # f
  <2>1. \A i \in DOMAIN r : 1 < i + 1
    BY <1>1
  <2>2. \A i \in DOMAIN r : r[i].of = "fetch" => f < r[i].id
    BY <1>1, <1>3, <2>1
  <2> QED BY <1>2, <2>2
<1>8. ASSUME NEW o \in P, o # "pending" PROVE \A g \in DOMAIN W(o) : W(o)[g] = "pending" <=> \E i \in DOMAIN r : r[i] = FetchJob(g)
  <2>1. \A i \in DOMAIN r : r[i] # FetchJob(f)
    BY <1>7 DEF FetchJob
  <2>2. \A g : g # f => q[1] # FetchJob(g)
    BY <1>1 DEF FetchJob
  <2>3. \A g : g # f => ((\E i \in DOMAIN r : r[i] = FetchJob(g)) <=> \E i \in DOMAIN q : q[i] = FetchJob(g))
    BY <1>1, <2>2
  <2>4. \A g \in DOMAIN p : p[g] = "pending" <=> \E i \in DOMAIN q : q[i] = FetchJob(g)
    BY DEF FetchHolds
  <2> QED BY <1>4, <1>8, <2>1, <2>3, <2>4
<1>9. ASSUME NEW i \in DOMAIN r, r[i].of = "fetch"
      PROVE  /\ r[i].id \in DOMAIN p
             /\ \A k \in DOMAIN d : d[k] < r[i].id
             /\ \A j \in DOMAIN r : i < j /\ r[j].of = "fetch" => r[i].id < r[j].id
  <2>1. \A j \in DOMAIN r : i < j => i + 1 < j + 1
    BY <1>1
  <2> QED BY <1>1, <1>9, <2>1 DEF FetchHolds
<1>10. /\ \A k \in DOMAIN d : d[k] <= Len(p)
       /\ \A k \in 2..Len(d) : d[k - 1] < d[k]
  BY DEF FetchHolds
<1>11. FetchHolds(r, W("cut"), d)
  <2>1. "cut" \in P
    BY DEF P
  <2>2. W("cut") \in Seq({"pending", "settled", "cut"}) /\ DOMAIN W("cut") = DOMAIN p /\ Len(W("cut")) = Len(p)
    BY <1>4, <2>1 DEF P
  <2> QED BY <1>0, <1>8, <1>9, <1>10, <2>1, <2>2 DEF FetchHolds
<1>12. FetchHolds(r, W("settled"), e)
  <2>1. "settled" \in P
    BY DEF P
  <2>2. W("settled") \in Seq({"pending", "settled", "cut"}) /\ DOMAIN W("settled") = DOMAIN p /\ Len(W("settled")) = Len(p)
    BY <1>4, <2>1 DEF P
  <2>3. \A k \in DOMAIN e : (k \in DOMAIN d /\ e[k] = d[k]) \/ (k = Len(d) + 1 /\ e[k] = f)
    BY <1>5
  <2>4. \A k \in DOMAIN e : e[k] <= Len(p) /\ \A i \in DOMAIN r : r[i].of = "fetch" => e[k] < r[i].id
    BY <1>3, <1>6, <1>7, <1>9, <1>10, <2>3
  <2>5. ASSUME NEW k \in 2..Len(e) PROVE e[k - 1] < e[k]
    <3>a. Len(d) \in Nat /\ k \in 2..(Len(d) + 1)
      BY <1>5
    <3>b. k - 1 \in 1..Len(d)
      BY <3>a
    <3>1. k - 1 \in DOMAIN d /\ e[k - 1] = d[k - 1]
      BY <1>5, <3>b
    <3>2. CASE k \in 2..Len(d)
      <4>1. k \in DOMAIN d
        BY <1>5, <3>2
      <4>2. e[k] = d[k] /\ d[k - 1] < d[k]
        BY <1>5, <1>10, <3>2, <4>1
      <4> QED BY <3>1, <4>2
    <3>3. CASE k = Len(d) + 1
      <4>1. e[k] = f
        BY <1>5, <3>3
      <4>2. d[k - 1] < f
        BY <1>3, <3>1
      <4> QED BY <3>1, <4>1, <4>2
    <3> QED BY <1>5, <3>2, <3>3
  <2> QED BY <1>5, <1>8, <1>9, <2>1, <2>2, <2>4, <2>5 DEF FetchHolds
<1> QED BY <1>11, <1>12 DEF r, W, e


(* The job that is to request the image's src stays queued until it runs.   *)
LEMMA ImageKeeps ==
  ASSUME NEW q \in Seq(Jobs), NEW r, NEW g, IsIn(g, q),
         \/ \E job \in Jobs : r = Append(q, job)
         \/ q # <<>> /\ r = Tail(q) /\ Head(q) # g
  PROVE  IsIn(g, r)
<1>1. CASE \E job \in Jobs : r = Append(q, job)
  <2>1. PICK job \in Jobs : r = Append(q, job)
    BY <1>1
  <2>2. \A i \in DOMAIN q : r[i] = q[i] /\ i \in DOMAIN r
    BY <2>1, JobsQueued
  <2> QED BY <2>2 DEF IsIn
<1>2. CASE q # <<>> /\ r = Tail(q) /\ Head(q) # g
  <2>1. q[1] # g /\ \A i \in DOMAIN q : i # 1 => i - 1 \in DOMAIN r /\ r[i - 1] = q[i]
    BY <1>2, JobsRun
  <2> QED BY <2>1 DEF IsIn
<1> QED BY <1>1, <1>2

LEMMA ImageQueued ==
  ASSUME NEW q \in Seq(Jobs), NEW job \in Jobs
  PROVE  IsIn(job, Append(q, job))
<1> DEFINE r == Append(q, job)
<1>1. DOMAIN r = 1..(Len(q) + 1) /\ Len(q) \in Nat /\ r[Len(q) + 1] = job
  BY JobsQueued
<1> HIDE DEF r
<1>2. Len(q) + 1 \in DOMAIN r
  BY <1>1
<1>4. IsIn(job, r)
  BY <1>1, <1>2 DEF IsIn
<1> QED BY <1>4 DEF r

-----------------------------------------------------------------------------
(* The messages.                                                            *)
LEMMA MailAppended ==
  ASSUME NEW s \in Seq(Envelopes), NEW m \in Envelopes
  PROVE  LET r == Append(s, m)
             n == Len(s) + 1
         IN  /\ r \in Seq(Envelopes) /\ n \in Nat /\ n \in DOMAIN r /\ r[n] = m
             /\ \A i \in DOMAIN r : (i \in DOMAIN s /\ r[i] = s[i]) \/ i = n
             /\ \A i \in DOMAIN s : i \in DOMAIN r /\ r[i] = s[i] /\ i \in Nat /\ i < n /\ s[i] \in Envelopes
             /\ \A g : IsIn(g, r) <=> IsIn(g, s) \/ g = m
<1> DEFINE E == Envelopes
           r == Append(s, m)
           n == Len(s) + 1
<1>0. s \in Seq(E) /\ m \in E
  OBVIOUS
<1> HIDE DEF E
<1>1. /\ r \in Seq(E) /\ Len(s) \in Nat /\ DOMAIN s = 1..Len(s) /\ Len(r) = Len(s) + 1 /\ r[Len(s) + 1] = m
      /\ \A i \in 1..Len(s) : r[i] = s[i]
  BY <1>0, AppendProperties, LenProperties
<1>2. DOMAIN r = 1..(Len(s) + 1)
  BY <1>1, LenProperties
<1>3. \A i \in DOMAIN s : s[i] \in E
  BY <1>0, <1>1, ElementOfSeq
<1> HIDE DEF r
<1>4. /\ n \in Nat /\ n \in DOMAIN r /\ r[n] = m
      /\ \A i \in DOMAIN r : (i \in DOMAIN s /\ r[i] = s[i]) \/ i = n
      /\ \A i \in DOMAIN s : i \in DOMAIN r /\ r[i] = s[i] /\ i \in Nat /\ i < n
  BY <1>1, <1>2
<1> HIDE DEF n
<1>5. \A g : IsIn(g, r) <=> IsIn(g, s) \/ g = m
  BY <1>4 DEF IsIn
<1> QED BY <1>1, <1>3, <1>4, <1>5 DEF E, r, n

LEMMA MailTaken ==
  ASSUME NEW s \in Seq(Envelopes), s # <<>>
  PROVE  LET t == Tail(s)
         IN  /\ t \in Seq(Envelopes) /\ 1 \in DOMAIN s /\ s[1] = Head(s) /\ s[1] \in Envelopes
             /\ \A i \in DOMAIN t : i + 1 \in DOMAIN s /\ t[i] = s[i + 1] /\ 1 < i + 1
             /\ \A i, j \in DOMAIN t : i < j => i + 1 < j + 1
             /\ \A g : IsIn(g, t) => IsIn(g, s)
             /\ \A g : IsIn(g, s) => IsIn(g, t) \/ g = s[1]
<1> DEFINE E == Envelopes
           t == Tail(s)
<1>0. s \in Seq(E)
  OBVIOUS
<1> HIDE DEF E
<1>1. /\ t \in Seq(E) /\ Len(s) \in Nat \ {0} /\ DOMAIN s = 1..Len(s) /\ Len(t) = Len(s) - 1
      /\ \A i \in 1..Len(t) : t[i] = s[i + 1]
  BY <1>0, EmptySeq, HeadTailProperties, LenProperties
<1>2. s[1] = Head(s) /\ s[1] \in E
  BY <1>0, <1>1, HeadTailProperties, ElementOfSeq
<1>3. DOMAIN t = 1..(Len(s) - 1)
  BY <1>1, LenProperties
<1> HIDE DEF t
<1>4. /\ 1 \in DOMAIN s
      /\ \A i \in DOMAIN t : i + 1 \in DOMAIN s /\ t[i] = s[i + 1] /\ 1 < i + 1
      /\ \A i, j \in DOMAIN t : i < j => i + 1 < j + 1
  BY <1>1, <1>3
<1>5. \A i \in DOMAIN s : i # 1 => i - 1 \in DOMAIN t /\ t[i - 1] = s[i]
  <2>1. \A i \in DOMAIN s : i # 1 => i - 1 \in 1..(Len(s) - 1) /\ (i - 1) + 1 = i
    BY <1>1
  <2> QED BY <1>1, <1>3, <2>1
<1>6. \A g : IsIn(g, t) => IsIn(g, s)
  BY <1>4 DEF IsIn
<1>7. \A g : IsIn(g, s) => IsIn(g, t) \/ g = s[1]
  BY <1>5 DEF IsIn
<1> QED BY <1>1, <1>2, <1>4, <1>6, <1>7 DEF E, t

LEMMA PostKeeps ==
  ASSUME Crossing, NEW p \in Ports, PostMessage(p)
  PROVE  Crossing'
<1> DEFINE o == Other(p)
           c == channel[o]
           b == [c EXCEPT !.posted = c.posted + 1]
           m == Message(o, c.posted + 1)
           r == Append(inTimers, m)
           n == Len(inTimers) + 1
<1>0. /\ inTimers \in Seq(Envelopes) /\ received \in Seq(Envelopes) /\ channel \in [Ports -> PortStates] /\ o \in Ports
      /\ Rising(inTimers) /\ Rising(received) /\ Posted(inTimers, channel) /\ Posted(received, channel) /\ Behind(received, inTimers)
      /\ Covered(channel, inTimers, received, cut)
  BY DEF Crossing, PortsHold, Other, Ports
<1>1. channel' = [channel EXCEPT ![o] = b] /\ inTimers' = r /\ received' = received /\ cut' = cut
  BY DEF PostMessage, Histories
<1>2. c \in PortStates /\ c.posted \in Nat
  BY <1>0 DEF PortStates
<1>3. b \in PortStates /\ b.posted = c.posted + 1 /\ b.closed = c.closed
  BY <1>2 DEF PortStates
<1>4. m \in Envelopes /\ m.to = o /\ m.message = c.posted + 1
  BY <1>0, <1>2 DEF Envelopes, Message
<1> HIDE DEF o, b, m
<1>5. /\ r \in Seq(Envelopes) /\ n \in Nat /\ n \in DOMAIN r /\ r[n] = m
      /\ \A i \in DOMAIN r : (i \in DOMAIN inTimers /\ r[i] = inTimers[i]) \/ i = n
      /\ \A i \in DOMAIN inTimers : i \in DOMAIN r /\ r[i] = inTimers[i] /\ i \in Nat /\ i < n /\ inTimers[i] \in Envelopes
      /\ \A g : IsIn(g, r) <=> IsIn(g, inTimers) \/ g = m
  BY <1>0, <1>4, MailAppended
<1>a. \A i \in DOMAIN received : received[i] \in Envelopes
  <2> DEFINE E == Envelopes
  <2>1. received \in Seq(E)
    BY <1>0
  <2> HIDE DEF E
  <2>2. \A i \in DOMAIN received : received[i] \in E
    BY <2>1, LenProperties, ElementOfSeq
  <2> QED BY <2>2 DEF E
<1> HIDE DEF r, n, c
<1>6. channel' \in [Ports -> PortStates] /\ channel'[o] = b /\ \A q \in Ports : q # o => channel'[q] = channel[q]
  BY <1>0, <1>1, <1>3
<1>b. c.posted <= b.posted /\ \A q \in Ports : channel[q].posted \in Nat
  BY <1>0, <1>2, <1>3 DEF PortStates
<1>c. ASSUME NEW g \in Envelopes, g.message <= channel[g.to].posted
      PROVE  g.message <= channel'[g.to].posted /\ (g.to = o => g.message < m.message)
  <2>1. g.to \in Ports /\ g.message \in Nat
    BY DEF Envelopes
  <2>2. CASE g.to = o
    <3>1. g.message <= c.posted
      BY <1>c, <2>2 DEF c
    <3> QED BY <1>2, <1>3, <1>4, <1>6, <2>1, <2>2, <3>1
  <2>3. CASE g.to # o
    BY <1>6, <1>c, <2>1, <2>3
  <2> QED BY <2>2, <2>3
<1>7. Posted(received, channel') /\ \A i \in DOMAIN received : received[i].to = o => received[i].message < m.message
  BY <1>0, <1>a, <1>c DEF Posted
<1>8. \A i \in DOMAIN inTimers : inTimers[i].message <= channel'[inTimers[i].to].posted /\ (inTimers[i].to = o => inTimers[i].message < m.message)
  BY <1>0, <1>5, <1>c DEF Posted
<1>9. Posted(r, channel')
  <2>1. m.message <= channel'[m.to].posted
    BY <1>2, <1>3, <1>4, <1>6
  <2> QED BY <1>5, <1>8, <2>1 DEF Posted
<1>10. Rising(r)
  <2> SUFFICES ASSUME NEW i \in DOMAIN r, NEW j \in DOMAIN r, i < j, r[i].to = r[j].to PROVE r[i].message < r[j].message
    BY DEF Rising
  <2>1. CASE j = n
    <3>1. i \in DOMAIN inTimers /\ r[i] = inTimers[i]
      BY <1>5, <2>1
    <3> QED BY <1>4, <1>5, <1>8, <2>1, <3>1
  <2>2. CASE j \in DOMAIN inTimers /\ r[j] = inTimers[j]
    <3>1. i \in DOMAIN inTimers /\ r[i] = inTimers[i]
      BY <1>5, <2>2
    <3> QED BY <1>0, <2>2, <3>1 DEF Rising
  <2> QED BY <1>5, <2>1, <2>2
<1>11. Behind(received, r)
  BY <1>0, <1>4, <1>5, <1>7 DEF Behind
<1>12. Covered(channel', r, received, cut)
  <2> SUFFICES ASSUME NEW q \in Ports, ~channel'[q].closed, NEW k \in 1..channel'[q].posted
               PROVE  IsIn(Message(q, k), r) \/ IsIn(Message(q, k), received) \/ Message(q, k) \in cut
    BY DEF Covered
  <2>1. CASE q = o
    <3>1. k \in 1..c.posted \/ k = c.posted + 1
      BY <1>2, <1>3, <1>6, <2>1
    <3>2. k = c.posted + 1 => Message(q, k) = m
      BY <2>1 DEF m, c
    <3>3. ~channel[q].closed /\ channel[q].posted = c.posted
      BY <1>3, <1>6, <2>1 DEF c
    <3> QED BY <1>0, <1>5, <3>1, <3>2, <3>3 DEF Covered
  <2>2. CASE q # o
    <3>1. channel'[q] = channel[q]
      BY <1>6, <2>2
    <3> QED BY <1>0, <1>5, <3>1 DEF Covered
  <2> QED BY <2>1, <2>2
<1>13. PortsHold(channel', inTimers', received, cut)
  BY <1>0, <1>1, <1>5, <1>6, <1>7, <1>9, <1>10, <1>11, <1>12 DEF PortsHold
<1> QED BY <1>1, <1>13 DEF Crossing

LEMMA CloseKeeps ==
  ASSUME Crossing, NEW p \in Ports, ClosePort(p)
  PROVE  Crossing'
<1> DEFINE c == channel[p]
           b == [c EXCEPT !.closed = TRUE]
<1>0. channel \in [Ports -> PortStates] /\ c \in PortStates /\ channel' = [channel EXCEPT ![p] = b] /\ UNCHANGED <<inTimers, received, cut>>
  BY DEF Crossing, PortsHold, ClosePort, Histories
<1>1. b \in PortStates /\ b.posted = c.posted /\ b.closed
  BY <1>0 DEF PortStates
<1> HIDE DEF b
<1>2. channel' \in [Ports -> PortStates] /\ \A q \in Ports : channel'[q].posted = channel[q].posted /\ (~channel'[q].closed => ~channel[q].closed)
  BY <1>0, <1>1
<1>3. ASSUME NEW s \in Seq(Envelopes), Posted(s, channel) PROVE Posted(s, channel')
  <2> DEFINE E == Envelopes
  <2>1. s \in Seq(E)
    OBVIOUS
  <2> HIDE DEF E
  <2>2. \A i \in DOMAIN s : s[i] \in E
    BY <2>1, LenProperties, ElementOfSeq
  <2>3. \A i \in DOMAIN s : s[i].to \in Ports
    BY <2>2 DEF E, Envelopes
  <2> QED BY <1>2, <1>3, <2>3 DEF Posted
<1>4. Covered(channel', inTimers, received, cut)
  BY <1>2 DEF Covered, Crossing, PortsHold
<1>5. PortsHold(channel', inTimers, received, cut)
  BY <1>2, <1>3, <1>4 DEF Crossing, PortsHold
<1> QED BY <1>0, <1>5 DEF Crossing

(* The message due first is received, or is lost or dropped on its way.      *)
LEMMA DeliverKeeps ==
  ASSUME Crossing, DeliverMessage
  PROVE  Crossing' /\ Head(inTimers) \in Envelopes /\ ~IsIn(Head(inTimers), received)
<1> DEFINE t == Tail(inTimers)
           a == Append(received, inTimers[1])
           n == Len(received) + 1
<1>0. /\ inTimers \in Seq(Envelopes) /\ received \in Seq(Envelopes) /\ channel \in [Ports -> PortStates] /\ inTimers # <<>>
      /\ Rising(inTimers) /\ Rising(received) /\ Posted(inTimers, channel) /\ Posted(received, channel) /\ Behind(received, inTimers)
      /\ Covered(channel, inTimers, received, cut) /\ channel' = channel /\ inTimers' = t
  BY DEF Crossing, PortsHold, DeliverMessage
<1>1. /\ t \in Seq(Envelopes) /\ 1 \in DOMAIN inTimers /\ inTimers[1] = Head(inTimers) /\ inTimers[1] \in Envelopes
      /\ \A i \in DOMAIN t : i + 1 \in DOMAIN inTimers /\ t[i] = inTimers[i + 1] /\ 1 < i + 1
      /\ \A i, j \in DOMAIN t : i < j => i + 1 < j + 1
      /\ \A g : IsIn(g, t) => IsIn(g, inTimers)
      /\ \A g : IsIn(g, inTimers) => IsIn(g, t) \/ g = inTimers[1]
  BY <1>0, MailTaken
<1> DEFINE m == inTimers[1]
<1>2. /\ a \in Seq(Envelopes) /\ n \in DOMAIN a /\ a[n] = m /\ n \in Nat
      /\ \A i \in DOMAIN a : (i \in DOMAIN received /\ a[i] = received[i]) \/ i = n
      /\ \A i \in DOMAIN received : i \in DOMAIN a /\ a[i] = received[i] /\ i \in Nat /\ i < n /\ received[i] \in Envelopes
      /\ \A g : IsIn(g, a) <=> IsIn(g, received) \/ g = m
  BY <1>0, <1>1, MailAppended
<1>3. \/ channel[m.to].closed /\ UNCHANGED <<received, cut>>
      \/ received' = a /\ cut' = cut
      \/ cut' = cut \cup {m} /\ received' = received
  BY <1>1 DEF DeliverMessage
<1>m. m.to \in Ports /\ m.message \in Nat
  BY <1>1 DEF Envelopes
<1> HIDE DEF t, a, n, m
<1>4. \A i \in DOMAIN received : received[i].to = m.to => received[i].message < m.message
  BY <1>0, <1>1 DEF Behind, m
<1>5. ~IsIn(m, received)
  BY <1>4, <1>m DEF IsIn
<1>6. Rising(t) /\ Posted(t, channel) /\ Behind(received, t) /\ \A j \in DOMAIN t : m.to = t[j].to => m.message < t[j].message
  <2>1. Rising(t)
    BY <1>0, <1>1 DEF Rising
  <2>2. Posted(t, channel)
    BY <1>0, <1>1 DEF Posted
  <2>3. Behind(received, t)
    BY <1>0, <1>1 DEF Behind
  <2>4. \A j \in DOMAIN t : m.to = t[j].to => m.message < t[j].message
    BY <1>0, <1>1 DEF Rising, m
  <2> QED BY <2>1, <2>2, <2>3, <2>4
<1>7. Rising(a) /\ Posted(a, channel) /\ Behind(a, t)
  <2>1. Rising(a)
    <3> SUFFICES ASSUME NEW i \in DOMAIN a, NEW j \in DOMAIN a, i < j, a[i].to = a[j].to PROVE a[i].message < a[j].message
      BY DEF Rising
    <3>1. CASE j = n
      <4>1. i \in DOMAIN received /\ a[i] = received[i]
        BY <1>2, <3>1
      <4> QED BY <1>2, <1>4, <3>1, <4>1
    <3>2. CASE j \in DOMAIN received /\ a[j] = received[j]
      <4>1. i \in DOMAIN received /\ a[i] = received[i]
        BY <1>2, <3>2
      <4> QED BY <1>0, <3>2, <4>1 DEF Rising
    <3> QED BY <1>2, <3>1, <3>2
  <2>2. Posted(a, channel)
    BY <1>0, <1>1, <1>2 DEF Posted, m
  <2>3. Behind(a, t)
    BY <1>2, <1>6 DEF Behind
  <2> QED BY <2>1, <2>2, <2>3
<1>8. CASE channel[m.to].closed /\ UNCHANGED <<received, cut>>
  <2>1. \A q \in Ports : \A k : ~channel[q].closed => Message(q, k) # m
    BY <1>8 DEF Message
  <2>2. Covered(channel, t, received, cut)
    BY <1>0, <1>1, <2>1 DEF Covered, m
  <2>3. PortsHold(channel, t, received, cut)
    BY <1>0, <1>1, <1>6, <2>2 DEF PortsHold
  <2> QED BY <1>0, <1>1, <1>5, <1>8, <2>3 DEF Crossing, m
<1>9. CASE received' = a /\ cut' = cut
  <2>1. Covered(channel, t, a, cut)
    BY <1>0, <1>1, <1>2 DEF Covered, m
  <2>2. PortsHold(channel, t, a, cut)
    BY <1>0, <1>1, <1>2, <1>6, <1>7, <2>1 DEF PortsHold
  <2> QED BY <1>0, <1>1, <1>5, <1>9, <2>2 DEF Crossing, m
<1>10. CASE cut' = cut \cup {m} /\ received' = received
  <2>1. Covered(channel, t, received, cut')
    BY <1>0, <1>1, <1>10 DEF Covered, m
  <2>2. PortsHold(channel, t, received, cut')
    BY <1>0, <1>1, <1>6, <2>1 DEF PortsHold
  <2> QED BY <1>0, <1>1, <1>5, <1>10, <2>2 DEF Crossing, m
<1> QED BY <1>3, <1>8, <1>9, <1>10

(* What is in hand.  The calls of an XMLHttpRequest do not touch it.         *)
LEMMA HandCounts ==
  ASSUME NEW calls \in Seq(Calls), NEW m
  PROVE  /\ CountIn(calls, {Handed(m)}) \in Nat
         /\ (\A i \in DOMAIN calls : calls[i] # Handed(m)) => CountIn(calls, {Handed(m)}) = 0
         /\ \A g \in Calls : /\ <<g>> \o calls \in Seq(Calls)
                              /\ CountIn(<<g>> \o calls, {Handed(m)}) = CountIn(calls, {Handed(m)}) + OneIf(g = Handed(m))
         /\ calls # <<>> => /\ CountIn(Tail(calls), {Handed(m)}) \in Nat
                            /\ CountIn(calls, {Handed(m)}) = CountIn(Tail(calls), {Handed(m)}) + OneIf(calls[1] = Handed(m))
                            /\ \A g \in Calls : CountIn([calls EXCEPT ![1] = g], {Handed(m)}) = CountIn(Tail(calls), {Handed(m)}) + OneIf(g = Handed(m))
<1> DEFINE C == Calls
           S == {Handed(m)}
<1>0. calls \in Seq(C)
  OBVIOUS
<1>a. \A g : (g \in S) = (g = Handed(m))
  OBVIOUS
<1> HIDE DEF C, S
<1>1. CountIn(calls, S) \in Nat /\ ((\A i \in DOMAIN calls : calls[i] \notin S) => CountIn(calls, S) = 0)
  BY <1>0, CountType
<1>2. \A g \in C : <<g>> \o calls \in Seq(C) /\ CountIn(<<g>> \o calls, S) = CountIn(calls, S) + OneIf(g \in S)
  BY <1>0, CountFirst
<1>3. ASSUME calls # <<>> PROVE Tail(calls) \in Seq(C) /\ CountIn(calls, S) = CountIn(Tail(calls), S) + OneIf(calls[1] \in S)
  BY <1>0, <1>3, CountTail
<1>4. ASSUME calls # <<>> PROVE CountIn(Tail(calls), S) \in Nat /\ \A g \in C : CountIn([calls EXCEPT ![1] = g], S) = CountIn(Tail(calls), S) + OneIf(g \in S)
  <2>1. Tail(calls) \in Seq(C)
    BY <1>3, <1>4
  <2>2. CountIn(Tail(calls), S) \in Nat
    BY <2>1, CountType
  <2>3. \A g \in C : CountIn([calls EXCEPT ![1] = g], S) = CountIn(Tail(calls), S) + OneIf(g \in S)
    BY <1>0, <1>4, CountChanged
  <2> QED BY <2>2, <2>3
<1>5. \A g : OneIf(g \in S) = OneIf(g = Handed(m))
  BY <1>a
<1> QED BY <1>1, <1>2, <1>3, <1>4, <1>5, <1>a DEF C, S

SameHands == \A m : CountIn(unfinished', {Handed(m)}) = CountIn(unfinished, {Handed(m)})

LEMMA CallBeginsHands ==
  ASSUME XhrsNow, NEW x \in Xhrs, NEW state, NEW steps \in {AnsweredSteps, FailedSteps, AbortedSteps}, Begin(x, state, steps)
  PROVE  SameHands
<1> DEFINE g == [of |-> x, left |-> Tail(steps)]
<1>0. unfinished \in Seq(Calls) /\ unfinished' = <<g>> \o unfinished
  BY DEF XhrsNow, AllHold, Begin
<1>1. Tail(steps) \in {Replying, Failing, Closing}
  BY WhatIsLeft
<1>2. g \in XhrCalls
  BY <1>1 DEF XhrCalls, Answering, Ending
<1> HIDE DEF g
<1>3. \A m : OneIf(g = Handed(m)) = 0
  BY <1>2, HandIsNoCall DEF OneIf
<1>4. ASSUME NEW m PROVE CountIn(unfinished', {Handed(m)}) = CountIn(unfinished, {Handed(m)})
  <2>1. /\ CountIn(unfinished, {Handed(m)}) \in Nat
        /\ CountIn(unfinished', {Handed(m)}) = CountIn(unfinished, {Handed(m)}) + OneIf(g = Handed(m))
    <3>1. g \in Calls
      BY <1>2 DEF Calls
    <3> QED BY <1>0, <3>1, HandCounts
  <2> QED BY <1>3, <2>1
<1> QED BY <1>4 DEF SameHands

LEMMA CallFiresHands ==
  ASSUME XhrsNow, FireNext
  PROVE  SameHands
<1> DEFINE c == Head(unfinished)
           g == [c EXCEPT !.left = Tail(c.left)]
<1>0. unfinished \in Seq(Calls) /\ unfinished # <<>> /\ c.left # <<>>
  BY DEF XhrsNow, AllHold, FireNext
<1>1. c \in Calls /\ c = unfinished[1] /\ 1 \in DOMAIN unfinished
  <2> DEFINE C == Calls
  <2> HIDE DEF C
  <2>1. c \in C /\ c = unfinished[1] /\ 1 \in DOMAIN unfinished
    BY <1>0, EmptySeq, LenProperties, ElementOfSeq, HeadTailProperties DEF C
  <2> QED BY <2>1 DEF C
<1>2. c \in XhrCalls
  BY <1>0, <1>1 DEF Calls, Hands
<1>3. c.of \in Xhrs
  BY <1>2 DEF XhrCalls, Answering, Ending
<1>4. heard[c.of] \in Heard /\ xhr[c.of] \in XhrStates
  BY <1>3 DEF XhrsNow, AllHold
<1>5. Len(c.left) = 1 \/ g \in XhrCalls
  <2>1. Fired(c, heard[c.of])
    BY <1>2, <1>4, CallFires
  <2> QED BY <2>1 DEF Fired, XhrCalls
<1>6. unfinished' = IF Len(c.left) = 1 THEN Tail(unfinished) ELSE [unfinished EXCEPT ![1] = g]
  <2>1. [unfinished EXCEPT ![1].left = Tail(c.left)] = [unfinished EXCEPT ![1] = g]
    BY <1>0, <1>1
  <2> QED BY <2>1 DEF FireNext
<1> HIDE DEF c, g
<1>7. ASSUME NEW k \in XhrCalls, NEW m PROVE OneIf(k = Handed(m)) = 0 /\ k \in Calls
  BY HandIsNoCall DEF OneIf, Calls
<1>8. ASSUME NEW m PROVE CountIn(unfinished', {Handed(m)}) = CountIn(unfinished, {Handed(m)})
  <2>1. /\ CountIn(Tail(unfinished), {Handed(m)}) \in Nat
        /\ CountIn(unfinished, {Handed(m)}) = CountIn(Tail(unfinished), {Handed(m)}) + OneIf(c = Handed(m))
        /\ \A k \in Calls : CountIn([unfinished EXCEPT ![1] = k], {Handed(m)}) = CountIn(Tail(unfinished), {Handed(m)}) + OneIf(k = Handed(m))
    BY <1>0, <1>1, HandCounts
  <2>2. OneIf(c = Handed(m)) = 0
    BY <1>2, <1>7
  <2>3. CASE Len(c.left) = 1
    BY <1>6, <2>1, <2>2, <2>3
  <2>4. CASE Len(c.left) # 1
    <3>1. g \in Calls /\ OneIf(g = Handed(m)) = 0
      BY <1>5, <1>7, <2>4
    <3>2. CountIn(unfinished', {Handed(m)}) = CountIn(Tail(unfinished), {Handed(m)}) + OneIf(g = Handed(m))
      BY <1>6, <2>1, <2>4, <3>1
    <3> QED BY <2>1, <2>2, <3>1, <3>2
  <2> QED BY <2>3, <2>4
<1> QED BY <1>8 DEF SameHands

(* Only what the deadline ends is forgiven, and it stays so.                 *)
LEMMA HandsKeep ==
  ASSUME InHand, SameHands, UNCHANGED <<received, listened>>, cut \subseteq cut'
  PROVE  InHand'
<1>1. ASSUME NEW m \in Envelopes PROVE HandHolds(m, CountIn(unfinished', {Handed(m)}), received, listened, cut')
  <2>1. HandHolds(m, CountIn(unfinished, {Handed(m)}), received, listened, cut)
    BY DEF InHand, HandsHold
  <2>2. CountIn(unfinished', {Handed(m)}) = CountIn(unfinished, {Handed(m)})
    BY DEF SameHands
  <2> QED BY <2>1, <2>2 DEF HandHolds
<1>2. HandsHold(unfinished', received, listened, cut')
  BY <1>1 DEF InHand, HandsHold
<1> QED BY <1>2 DEF InHand

LEMMA HandedOver ==
  ASSUME InHand, NEW d \in Envelopes, ~IsIn(d, received), unfinished \in Seq(Calls),
         unfinished' = <<Handed(d)>> \o unfinished, received' = Append(received, d), UNCHANGED <<listened, cut>>
  PROVE  InHand'
<1>0. received \in Seq(Envelopes) /\ listened \in Seq(Envelopes) /\ \A i, j \in DOMAIN listened : i # j => listened[i] # listened[j]
  BY DEF InHand, HandsHold
<1>1. received' \in Seq(Envelopes) /\ \A g : IsIn(g, received') <=> IsIn(g, received) \/ g = d
  BY <1>0, MailAppended
<1>2. Handed(d) \in Calls /\ \A m : (Handed(d) = Handed(m)) = (m = d)
  BY DEF Handed, Calls, Hands
<1> DEFINE h == Handed(d)
<1>h. h \in Calls /\ unfinished' = <<h>> \o unfinished /\ \A m : (h = Handed(m)) = (m = d)
  BY <1>2
<1> HIDE DEF h
<1>3. ASSUME NEW m \in Envelopes PROVE HandHolds(m, CountIn(unfinished', {Handed(m)}), received', listened, cut)
  <2> DEFINE u == CountIn(unfinished, {Handed(m)})
             v == CountIn(unfinished', {Handed(m)})
  <2>1. u \in Nat /\ v = u + OneIf(h = Handed(m))
    <3> DEFINE k == Handed(m)
    <3>1. u \in Nat /\ \A g \in Calls : CountIn(<<g>> \o unfinished, {k}) = u + OneIf(g = k)
      BY HandCounts
    <3>2. CountIn(<<h>> \o unfinished, {k}) = u + OneIf(h = k)
      BY <1>h, <3>1
    <3> HIDE DEF k
    <3>3. CountIn(unfinished', {k}) = u + OneIf(h = k)
      BY <1>h, <3>2
    <3> QED BY <3>1, <3>3 DEF k
  <2>2. HandHolds(m, u, received, listened, cut)
    BY DEF InHand, HandsHold
  <2>3. OneIf(h = Handed(m)) = IF m = d THEN 1 ELSE 0
    BY <1>h DEF OneIf
  <2> HIDE DEF u, v
  <2>4. CASE m = d
    <3>1. u = 0 /\ ~IsIn(m, listened)
      <4>1. u # 1 /\ u <= 1
        BY <2>2, <2>4 DEF HandHolds
      <4> QED BY <2>1, <2>2, <2>4, <4>1 DEF HandHolds
    <3>2. v = 1
      BY <2>1, <2>3, <2>4, <3>1
    <3> QED BY <1>1, <2>4, <3>1, <3>2 DEF HandHolds, v
  <2>5. CASE m # d
    <3>1. v = u
      BY <2>1, <2>3, <2>5
    <3> QED BY <1>1, <2>2, <2>5, <3>1 DEF HandHolds, v
  <2> QED BY <2>4, <2>5
<1>4. HandsHold(unfinished', received', listened, cut)
  BY <1>0, <1>1, <1>3 DEF HandsHold
<1> QED BY <1>4 DEF InHand

LEMMA ListenersKeep ==
  ASSUME InHand, XhrsNow, CallListeners
  PROVE  InHand' /\ Head(unfinished) \in Hands
<1> DEFINE c == Head(unfinished)
           d == c.of
           n == Len(listened) + 1
<1>0. /\ unfinished \in Seq(Calls) /\ unfinished # <<>> /\ c.left = <<>> /\ unfinished' = Tail(unfinished)
      /\ listened' = Append(listened, d) /\ UNCHANGED <<received, cut>>
  BY DEF XhrsNow, AllHold, CallListeners
<1>1. c \in Calls /\ c = unfinished[1]
  <2> DEFINE C == Calls
  <2> HIDE DEF C
  <2>1. c \in C /\ c = unfinished[1]
    BY <1>0, EmptySeq, LenProperties, ElementOfSeq, HeadTailProperties DEF C
  <2> QED BY <2>1 DEF C
<1>2. c \in Hands
  BY <1>0, <1>1, HandIsNoCall DEF Calls
<1>3. d \in Envelopes /\ c = Handed(d)
  BY <1>2 DEF Hands, Handed
<1>4. \A m : (c = Handed(m)) = (m = d)
  BY <1>3 DEF Handed
<1> HIDE DEF c, d
<1>5. received \in Seq(Envelopes) /\ listened \in Seq(Envelopes) /\ \A i, j \in DOMAIN listened : i # j => listened[i] # listened[j]
  BY DEF InHand, HandsHold
<1>6. /\ listened' \in Seq(Envelopes) /\ n \in DOMAIN listened' /\ listened'[n] = d
      /\ \A i \in DOMAIN listened' : (i \in DOMAIN listened /\ listened'[i] = listened[i]) \/ i = n
      /\ \A g : IsIn(g, listened') <=> IsIn(g, listened) \/ g = d
  BY <1>0, <1>3, <1>5, MailAppended
<1> HIDE DEF n
<1>7. ASSUME NEW m \in Envelopes
      PROVE  /\ HandHolds(m, CountIn(unfinished', {Handed(m)}), received, listened', cut)
             /\ m = d => ~IsIn(m, listened)
  <2> DEFINE u == CountIn(unfinished, {Handed(m)})
             v == CountIn(unfinished', {Handed(m)})
  <2>1. v \in Nat /\ u = v + OneIf(c = Handed(m))
    BY <1>0, <1>1, HandCounts
  <2>2. HandHolds(m, u, received, listened, cut)
    BY DEF InHand, HandsHold
  <2>3. OneIf(c = Handed(m)) = IF m = d THEN 1 ELSE 0
    BY <1>4 DEF OneIf
  <2> HIDE DEF u, v
  <2>4. CASE m = d
    <3>1. u = v + 1 /\ u <= 1
      BY <2>1, <2>2, <2>3, <2>4 DEF HandHolds
    <3>2. u = 1 /\ v = 0
      BY <2>1, <3>1
    <3> QED BY <1>6, <2>2, <2>4, <3>2 DEF HandHolds, v
  <2>5. CASE m # d
    <3>1. u = v
      BY <2>1, <2>3, <2>5
    <3> QED BY <1>6, <2>2, <2>5, <3>1 DEF HandHolds, v
  <2> QED BY <2>4, <2>5
<1>8. \A i, j \in DOMAIN listened' : i # j => listened'[i] # listened'[j]
  <2>1. \A i \in DOMAIN listened : listened[i] # d
    BY <1>3, <1>7 DEF IsIn
  <2> QED BY <1>5, <1>6, <2>1
<1>9. HandsHold(unfinished', received, listened', cut)
  BY <1>5, <1>6, <1>7, <1>8 DEF HandsHold
<1> QED BY <1>0, <1>2, <1>9 DEF InHand, c

LEMMA CutOffHands ==
  ASSUME InHand, XhrsNow, InterruptCall
  PROVE  InHand'
<1> DEFINE c == Head(unfinished)
<1>0. /\ unfinished \in Seq(Calls) /\ unfinished # <<>> /\ unfinished' = Tail(unfinished) /\ cut' = cut \cup {c.of}
      /\ UNCHANGED <<received, listened>>
  BY DEF XhrsNow, AllHold, InterruptCall
<1>1. c = unfinished[1]
  <2> DEFINE C == Calls
  <2> HIDE DEF C
  <2> QED BY <1>0, HeadTailProperties DEF C
<1> HIDE DEF c
<1>2. ASSUME NEW m \in Envelopes PROVE HandHolds(m, CountIn(unfinished', {Handed(m)}), received, listened, cut')
  <2> DEFINE u == CountIn(unfinished, {Handed(m)})
             v == CountIn(unfinished', {Handed(m)})
  <2>1. v \in Nat /\ u = v + OneIf(c = Handed(m))
    BY <1>0, <1>1, HandCounts
  <2>2. HandHolds(m, u, received, listened, cut)
    BY DEF InHand, HandsHold
  <2> HIDE DEF u, v
  <2>3. CASE c = Handed(m)
    <3>1. OneIf(c = Handed(m)) = 1 /\ m \in cut'
      BY <1>0, <2>3 DEF OneIf, Handed
    <3>2. u = v + 1 /\ u <= 1
      BY <2>1, <2>2, <3>1 DEF HandHolds
    <3>3. v = 0
      BY <2>1, <3>2
    <3> QED BY <2>2, <3>1, <3>3 DEF HandHolds, v
  <2>4. CASE c # Handed(m)
    <3>1. OneIf(c = Handed(m)) = 0
      BY <2>4 DEF OneIf
    <3>2. u = v
      BY <2>1, <3>1
    <3> QED BY <1>0, <2>2, <3>2 DEF HandHolds, v
  <2> QED BY <2>3, <2>4
<1>3. HandsHold(unfinished', received, listened, cut')
  BY <1>2 DEF InHand, HandsHold
<1> QED BY <1>0, <1>3 DEF InHand

-----------------------------------------------------------------------------
LEMMA RequestsStart == RequestInit => ReqInv
<1> SUFFICES ASSUME RequestInit PROVE ReqInv
  OBVIOUS
<1> USE DEF RequestInit
<1>0. \A S : <<>> \in Seq(S) /\ Len(<<>>) = 0 /\ DOMAIN <<>> = {}
  BY EmptySeq
<1>1. XhrsNow
  <2>1. NewXhr \in XhrStates /\ NewXhr.sent = FALSE /\ NoEvents \in Heard /\ NoEvents.answer = 0 /\ NoEvents.abort = 0 /\ NoEvents.loadend = 0
    BY DEF NewXhr, XhrStates, NoEvents, Heard
  <2>2. xhr \in [Xhrs -> XhrStates] /\ heard \in [Xhrs -> Heard] /\ requestsMade \in [Xhrs -> Nat]
    BY <2>1
  <2>a. unfinished = <<>> /\ microtasks = <<>>
    OBVIOUS
  <2>3. unfinished \in Seq(Calls) /\ microtasks \in Seq(Jobs) /\ DOMAIN unfinished = {} /\ DOMAIN microtasks = {}
    <3> DEFINE C == Calls
               J == Jobs
    <3> HIDE DEF C, J, RequestInit
    <3>1. unfinished \in Seq(C) /\ microtasks \in Seq(J) /\ DOMAIN unfinished = {} /\ DOMAIN microtasks = {}
      BY <1>0, <2>a
    <3> QED BY <3>1 DEF C, J
  <2>4. ASSUME NEW x \in Xhrs PROVE XhrHolds(x, xhr[x], heard[x], requestsMade[x], unfinished, microtasks, cut)
    <3>1. CountIn(unfinished, AnswersOf(x)) = 0 /\ CountIn(unfinished, CallsOf(x)) = 0
      BY <2>3, CallCounts
    <3>2. CountIn(microtasks, {XhrJob(x)}) = 0
      <4>1. XhrJob(x) \in Jobs
        BY DEF XhrJob, Jobs
      <4> QED BY <2>3, <4>1, QueueCounts
    <3>3. xhr[x].sent = FALSE /\ heard[x].answer = 0 /\ heard[x].abort = 0 /\ heard[x].loadend = 0 /\ requestsMade[x] = 0
      BY <2>1
    <3>4. OneIf(xhr[x].sent) = 0
      BY <3>3 DEF OneIf
    <3> HIDE DEF RequestInit
    <3> QED BY <3>1, <3>2, <3>3, <3>4 DEF XhrHolds
  <2> QED BY <2>2, <2>3, <2>4 DEF XhrsNow, AllHold
<1>2. FetchesNow
  <2>1. microtasks = <<>> /\ fetchPromises = <<>> /\ order = <<>>
    OBVIOUS
  <2> HIDE DEF RequestInit
  <2>2. /\ fetchPromises \in Seq({"pending", "settled", "cut"}) /\ order \in Seq(Nat)
        /\ DOMAIN microtasks = {} /\ DOMAIN fetchPromises = {} /\ DOMAIN order = {} /\ 2..Len(order) = {}
    BY <1>0, <2>1
  <2> QED BY <2>2 DEF FetchesNow, FetchHolds
<1>3. ImageNow
  BY DEF ImageNow
<1>e. inTimers = <<>> /\ received = <<>> /\ listened = <<>> /\ unfinished = <<>>
  OBVIOUS
<1>m. inTimers \in Seq(Envelopes) /\ received \in Seq(Envelopes) /\ listened \in Seq(Envelopes)
      /\ DOMAIN inTimers = {} /\ DOMAIN received = {} /\ DOMAIN listened = {}
  <2> HIDE DEF RequestInit
  <2> QED BY <1>0, <1>e
<1>4. Crossing
  <2>1. NewPort \in PortStates /\ NewPort.posted = 0
    BY DEF NewPort, PortStates
  <2>3. channel \in [Ports -> PortStates] /\ \A p \in Ports : channel[p].posted = 0
    BY <2>1
  <2> HIDE DEF RequestInit
  <2>4. Covered(channel, inTimers, received, cut)
    BY <2>3 DEF Covered
  <2> QED BY <1>m, <2>3, <2>4 DEF Crossing, PortsHold, Rising, Posted, Behind
<1>5. InHand
  <2>1. unfinished \in Seq(Calls) /\ DOMAIN unfinished = {}
    <3> DEFINE C == Calls
    <3> HIDE DEF C, RequestInit
    <3>1. unfinished \in Seq(C) /\ DOMAIN unfinished = {}
      BY <1>0, <1>e
    <3> QED BY <3>1 DEF C
  <2> HIDE DEF RequestInit
  <2>2. \A m : CountIn(unfinished, {Handed(m)}) = 0
    BY <2>1, HandCounts
  <2>3. \A m : HandHolds(m, 0, received, listened, cut)
    BY <1>m DEF HandHolds, IsIn
  <2> QED BY <1>m, <2>2, <2>3 DEF InHand, HandsHold
<1> QED BY <1>1, <1>2, <1>3, <1>4, <1>5 DEF ReqInv

LEMMA RunMicrotaskKeeps ==
  ASSUME ReqInv, RunMicrotask
  PROVE  XhrsNow' /\ FetchesNow' /\ ImageNow' /\ SameHands /\ cut \subseteq cut'
<1> DEFINE job == Head(microtasks)
<1>0. XhrsNow /\ FetchesNow /\ ImageNow /\ microtasks \in Seq(Jobs) /\ microtasks # <<>> /\ microtasks' = Tail(microtasks) /\ source' = source
  BY DEF ReqInv, XhrsNow, AllHold, RunMicrotask
<1>i. ASSUME job.of # Image, UNCHANGED shown, cut \subseteq cut' PROVE ImageNow'
  <2>1. Head(microtasks) # ImageJob(source)
    BY <1>i DEF ImageJob
  <2>2. IsIn(ImageJob(source), microtasks) => IsIn(ImageJob(source), microtasks')
    BY <1>0, <2>1, ImageKeeps
  <2> QED BY <1>0, <1>i, <2>2 DEF ImageNow
<1>h. unfinished' = unfinished => SameHands
  BY DEF SameHands
<1>1. CASE job.of = "xhr"
  <2>1. XhrsNow'
    BY <1>0, <1>1, XhrJobKeeps
  <2>2. UNCHANGED <<fetchPromises, shown, order>>
    BY <1>1 DEF RunMicrotask, Image
  <2>3. FetchesNow'
    BY <1>0, <1>1, <2>2, OtherJobRun DEF FetchesNow
  <2>x. job.id \in Xhrs /\ RunXhr(job.id, xhr[job.id])
    <3>1. job \in Jobs
      BY <1>0, JobsRun
    <3> QED BY <1>1, <3>1 DEF RunMicrotask, Image, Jobs
  <2>5. SameHands /\ cut \subseteq cut'
    <3>1. CASE unfinished' = unfinished /\ cut' = cut \cup {job.id}
      BY <1>h, <3>1
    <3>2. CASE (\E steps \in {AnsweredSteps, FailedSteps} : Begin(job.id, xhr[job.id], steps)) /\ cut' = cut
      BY <1>0, <2>x, <3>2, CallBeginsHands
    <3> QED BY <2>x, <3>1, <3>2 DEF RunXhr
  <2>4. ImageNow'
    BY <1>1, <1>i, <2>2, <2>5 DEF Image
  <2> QED BY <2>1, <2>3, <2>4, <2>5
<1>2. CASE job.of = "fetch"
  <2>1. Settle(job.id) /\ UNCHANGED <<xhr, heard, unfinished, requestsMade, shown, cut>>
    BY <1>2 DEF RunMicrotask, Image
  <2>2. XhrsNow'
    BY <1>0, <1>2, <2>1, OthersRun
  <2>3. FetchesNow'
    <3>1. FetchHolds(microtasks, fetchPromises, order)
      BY <1>0 DEF FetchesNow
    <3>2. /\ FetchHolds(Tail(microtasks), [fetchPromises EXCEPT ![job.id] = "settled"], Append(order, job.id))
          /\ FetchHolds(Tail(microtasks), [fetchPromises EXCEPT ![job.id] = "cut"], order)
      BY <1>0, <1>2, <3>1, FetchRun
    <3> QED BY <1>0, <2>1, <3>2 DEF FetchesNow, Settle
  <2>4. ImageNow'
    BY <1>2, <1>i, <2>1 DEF Image
  <2> QED BY <1>h, <2>1, <2>2, <2>3, <2>4
<1>3. CASE job.of = Image
  <2>1. UNCHANGED <<xhr, heard, unfinished, fetchPromises, requestsMade, order>>
    BY <1>3 DEF RunMicrotask, Image
  <2>c. (shown' = source /\ cut' = cut) \/ (shown' = shown /\ cut' = cut \cup {job})
    BY <1>3 DEF RunMicrotask, Image
  <2>2. XhrsNow'
    BY <1>0, <1>3, <2>1, <2>c, OthersRun DEF Image
  <2>3. FetchesNow'
    BY <1>0, <1>3, <2>1, OtherJobRun DEF FetchesNow, Image
  <2>4. ImageNow'
    <3>1. CASE shown' = source
      BY <1>0, <3>1 DEF ImageNow
    <3>2. CASE shown' = shown /\ cut' = cut \cup {job}
      <4>1. job # ImageJob(source) /\ IsIn(ImageJob(source), microtasks) => IsIn(ImageJob(source), microtasks')
        BY <1>0, ImageKeeps
      <4> QED BY <1>0, <3>2, <4>1 DEF ImageNow
    <3> QED BY <2>c, <3>1, <3>2
  <2> QED BY <1>h, <2>1, <2>2, <2>3, <2>4, <2>c
<1> QED BY <1>1, <1>2, <1>3 DEF RunMicrotask

LEMMA RequestsStep == ReqInv /\ [RequestNext]_RequestVars => ReqInv'
<1> SUFFICES ASSUME ReqInv, [RequestNext]_RequestVars PROVE ReqInv'
  OBVIOUS
<1>0. XhrsNow /\ FetchesNow /\ ImageNow /\ Crossing /\ InHand /\ microtasks \in Seq(Jobs) /\ unfinished \in Seq(Calls)
  BY DEF ReqInv, XhrsNow, AllHold
<1>x. UNCHANGED <<xhr, heard, requestsMade, unfinished, microtasks, cut>> => XhrsNow'
  BY <1>0 DEF XhrsNow
<1>f. UNCHANGED <<microtasks, fetchPromises, order>> => FetchesNow'
  BY <1>0 DEF FetchesNow
<1>i. UNCHANGED <<microtasks, source, shown>> /\ cut \subseteq cut' => ImageNow'
  BY <1>0 DEF ImageNow
<1>q. ASSUME NEW job \in Jobs, microtasks' = Append(microtasks, job), UNCHANGED <<source, shown>>, cut \subseteq cut' PROVE ImageNow'
  <2>1. IsIn(ImageJob(source), microtasks) => IsIn(ImageJob(source), microtasks')
    BY <1>0, <1>q, ImageKeeps
  <2> QED BY <1>0, <1>q, <2>1 DEF ImageNow
<1>c. ASSUME UNCHANGED <<channel, inTimers, received>>, cut \subseteq cut' PROVE Crossing'
  <2>1. Covered(channel, inTimers, received, cut')
    BY <1>0, <1>c DEF Crossing, PortsHold, Covered
  <2>2. PortsHold(channel, inTimers, received, cut')
    BY <1>0, <2>1 DEF Crossing, PortsHold
  <2> QED BY <1>c, <2>2 DEF Crossing
<1>s. unfinished' = unfinished => SameHands
  BY DEF SameHands
<1>h. SameHands /\ UNCHANGED <<received, listened>> /\ cut \subseteq cut' => InHand'
  BY <1>0, HandsKeep
<1>1. ASSUME NEW x \in Xhrs, SendXhr(x) PROVE ReqInv'
  <2>1. XhrsNow'
    BY <1>0, <1>1, SendKeeps
  <2>2. /\ UNCHANGED <<fetchPromises, source, channel, inTimers, shown, order, received, listened>>
        /\ (microtasks' = microtasks \/ microtasks' = Append(microtasks, XhrJob(x)))
        /\ \/ RunXhr(x, [xhr[x] EXCEPT !.sent = TRUE])
           \/ UNCHANGED <<unfinished, cut>>
    BY <1>1 DEF SendXhr, XhrJob
  <2>h. SameHands /\ cut \subseteq cut'
    <3> DEFINE state == [xhr[x] EXCEPT !.sent = TRUE]
    <3> HIDE DEF state
    <3>1. CASE UNCHANGED <<unfinished, cut>>
      BY <1>s, <3>1
    <3>2. CASE unfinished' = unfinished /\ cut' = cut \cup {x}
      BY <1>s, <3>2
    <3>3. CASE (\E steps \in {AnsweredSteps, FailedSteps} : Begin(x, state, steps)) /\ cut' = cut
      BY <1>0, <3>3, CallBeginsHands
    <3>4. RunXhr(x, state) \/ UNCHANGED <<unfinished, cut>>
      BY <2>2 DEF state
    <3> QED BY <3>1, <3>2, <3>3, <3>4 DEF RunXhr
  <2>3. XhrJob(x) \in Jobs /\ XhrJob(x).of # "fetch"
    BY DEF XhrJob, Jobs
  <2>4. FetchesNow'
    BY <1>0, <1>f, <2>2, <2>3, OtherJobQueued DEF FetchesNow
  <2>5. ImageNow'
    <3>1. CASE microtasks' = microtasks
      BY <1>i, <2>2, <2>h, <3>1
    <3>2. CASE microtasks' = Append(microtasks, XhrJob(x))
      BY <1>q, <2>2, <2>3, <2>h, <3>2
    <3> QED BY <2>2, <3>1, <3>2
  <2> QED BY <1>c, <1>h, <2>1, <2>2, <2>4, <2>5, <2>h DEF ReqInv
<1>2. ASSUME NEW x \in Xhrs, AbortXhr(x) PROVE ReqInv'
  <2>1. XhrsNow'
    BY <1>0, <1>2, AbortKeeps
  <2>2. UNCHANGED <<microtasks, fetchPromises, source, channel, inTimers, shown, order, received, listened, cut>>
    BY <1>2 DEF AbortXhr
  <2>3. SameHands
    BY <1>0, <1>2, CallBeginsHands DEF AbortXhr
  <2> QED BY <1>f, <1>i, <1>c, <1>h, <2>1, <2>2, <2>3 DEF ReqInv
<1>3. ASSUME NEW x \in Xhrs, NEW async \in BOOLEAN, OpenXhr(x, async) PROVE ReqInv'
  <2>1. XhrsNow'
    BY <1>0, <1>3, OpenKeeps
  <2>2. UNCHANGED <<unfinished, microtasks, fetchPromises, source, channel, inTimers, shown, order, received, listened, cut>>
    BY <1>3 DEF OpenXhr, Histories
  <2> QED BY <1>f, <1>i, <1>c, <1>s, <1>h, <2>1, <2>2 DEF ReqInv
<1>4. ASSUME FireNext PROVE ReqInv'
  <2>1. XhrsNow'
    BY <1>0, <1>4, FireKeeps
  <2>2. UNCHANGED <<microtasks, fetchPromises, source, channel, inTimers, shown, order, received, listened, cut>>
    BY <1>4 DEF FireNext
  <2>3. SameHands
    BY <1>0, <1>4, CallFiresHands
  <2> QED BY <1>f, <1>i, <1>c, <1>h, <2>1, <2>2, <2>3 DEF ReqInv
<1>5. ASSUME InterruptCall PROVE ReqInv'
  <2>2. /\ UNCHANGED <<xhr, heard, requestsMade, microtasks, fetchPromises, source, channel, inTimers, shown, order, received, listened>>
        /\ unfinished # <<>> /\ unfinished' = Tail(unfinished) /\ cut \subseteq cut' /\ Head(unfinished).of \in cut'
    BY <1>5 DEF InterruptCall
  <2>1. XhrsNow'
    BY <1>0, <2>2, CutOffKeeps
  <2>3. InHand'
    BY <1>0, <1>5, CutOffHands
  <2> QED BY <1>f, <1>i, <1>c, <2>1, <2>2, <2>3 DEF ReqInv
<1>6. ASSUME Fetch PROVE ReqInv'
  <2> DEFINE job == FetchJob(Len(fetchPromises) + 1)
  <2>1. /\ microtasks' = Append(microtasks, job) /\ fetchPromises' = Append(fetchPromises, "pending")
        /\ UNCHANGED <<xhr, heard, requestsMade, unfinished, cut, source, channel, inTimers, shown, order, received, listened>>
    BY <1>6 DEF Fetch, Histories, FetchJob
  <2>2. FetchesNow' /\ job \in Jobs
    BY <1>0, <2>1, FetchQueued DEF FetchesNow
  <2>3. job.of # "xhr"
    BY DEF FetchJob
  <2> HIDE DEF job
  <2>4. XhrsNow'
    BY <1>0, <2>1, <2>2, <2>3, OthersQueue
  <2>5. ImageNow'
    BY <1>q, <2>1, <2>2
  <2> QED BY <1>c, <1>s, <1>h, <2>1, <2>2, <2>4, <2>5 DEF ReqInv
<1>7. ASSUME SetSource PROVE ReqInv'
  <2> DEFINE job == ImageJob(source + 1)
  <2>1. /\ microtasks' = Append(microtasks, job) /\ source' = source + 1
        /\ UNCHANGED <<xhr, heard, requestsMade, unfinished, cut, fetchPromises, channel, inTimers, shown, order, received, listened>>
    BY <1>7 DEF SetSource, Histories, ImageJob
  <2>2. job \in Jobs /\ job.of # "xhr" /\ job.of # "fetch"
    BY <1>0 DEF ImageNow, ImageJob, Jobs, Image
  <2>a. job = ImageJob(source')
    BY <2>1
  <2> HIDE DEF job
  <2>3. FetchesNow'
    BY <1>0, <2>1, <2>2, OtherJobQueued DEF FetchesNow
  <2>4. XhrsNow'
    BY <1>0, <2>1, <2>2, OthersQueue
  <2>5. ImageNow'
    <3>1. source' \in Nat
      BY <1>0, <2>1 DEF ImageNow
    <3>2. IsIn(job, microtasks')
      BY <1>0, <2>1, <2>2, ImageQueued
    <3> QED BY <2>a, <3>1, <3>2 DEF ImageNow
  <2> QED BY <1>c, <1>s, <1>h, <2>1, <2>3, <2>4, <2>5 DEF ReqInv
<1>8. ASSUME RunMicrotask PROVE ReqInv'
  <2>1. UNCHANGED <<channel, inTimers, received, listened>>
    BY <1>8 DEF RunMicrotask
  <2>2. XhrsNow' /\ FetchesNow' /\ ImageNow' /\ SameHands /\ cut \subseteq cut'
    BY <1>8, RunMicrotaskKeeps
  <2> QED BY <1>c, <1>h, <2>1, <2>2 DEF ReqInv
<1>9. ASSUME NEW p \in Ports, PostMessage(p) \/ ClosePort(p) PROVE ReqInv'
  <2>1. Crossing'
    BY <1>0, <1>9, PostKeeps, CloseKeeps
  <2>2. UNCHANGED <<xhr, heard, requestsMade, unfinished, microtasks, cut, fetchPromises, source, shown, order, received, listened>>
    BY <1>9 DEF PostMessage, ClosePort, Histories
  <2> QED BY <1>x, <1>f, <1>i, <1>s, <1>h, <2>1, <2>2 DEF ReqInv
<1>10. ASSUME DeliverMessage PROVE ReqInv'
  <2> DEFINE m == Head(inTimers)
  <2>1. Crossing' /\ m \in Envelopes /\ ~IsIn(m, received)
    BY <1>0, <1>10, DeliverKeeps
  <2>2. UNCHANGED <<xhr, heard, requestsMade, microtasks, fetchPromises, source, shown, order, listened>>
    BY <1>10 DEF DeliverMessage
  <2>3. \/ UNCHANGED <<unfinished, received, cut>>
        \/ unfinished' = <<Handed(m)>> \o unfinished /\ received' = Append(received, m) /\ cut' = cut
        \/ cut' = cut \cup {m} /\ UNCHANGED <<unfinished, received>>
    BY <1>10 DEF DeliverMessage
  <2> HIDE DEF m
  <2>4. CASE cut \subseteq cut' /\ UNCHANGED <<unfinished, received>>
    <3>1. XhrsNow'
      BY <1>0, <2>2, <2>4, HandsDoNotCount
    <3> QED BY <1>f, <1>i, <1>s, <1>h, <2>1, <2>2, <2>4, <3>1 DEF ReqInv
  <2>5. CASE unfinished' = <<Handed(m)>> \o unfinished /\ received' = Append(received, m) /\ cut' = cut
    <3>1. XhrsNow'
      BY <1>0, <2>1, <2>2, <2>5, HandsDoNotCount
    <3>2. InHand'
      BY <1>0, <2>1, <2>2, <2>5, HandedOver
    <3> QED BY <1>f, <1>i, <2>1, <2>2, <2>5, <3>1, <3>2 DEF ReqInv
  <2> QED BY <2>3, <2>4, <2>5
<1>l. ASSUME CallListeners PROVE ReqInv'
  <2>1. /\ UNCHANGED <<xhr, microtasks, fetchPromises, source, channel, inTimers, heard, requestsMade, shown, order, received, cut>>
        /\ unfinished # <<>> /\ unfinished' = Tail(unfinished)
    BY <1>l DEF CallListeners
  <2>2. InHand' /\ Head(unfinished) \in Hands
    BY <1>0, <1>l, ListenersKeep
  <2>3. XhrsNow'
    BY <1>0, <2>1, <2>2, CutOffKeeps
  <2> QED BY <1>f, <1>i, <1>c, <2>1, <2>2, <2>3 DEF ReqInv
<1>11. ASSUME UNCHANGED RequestVars PROVE ReqInv'
  <2>1. UNCHANGED <<xhr, heard, requestsMade, unfinished, microtasks, cut, fetchPromises, source, shown, order, channel, inTimers, received, listened>>
    BY <1>11 DEF RequestVars
  <2> QED BY <1>x, <1>f, <1>i, <1>c, <1>s, <1>h, <2>1 DEF ReqInv
<1> QED BY <1>1, <1>2, <1>3, <1>4, <1>5, <1>6, <1>7, <1>8, <1>9, <1>10, <1>l, <1>11 DEF RequestNext

LEMMA RequestsMean == ReqInv => PageIsAnswered
<1> SUFFICES ASSUME ReqInv PROVE PageIsAnswered
  OBVIOUS
<1>1. XhrsAreAnswered
  <2> SUFFICES ASSUME NEW x \in Xhrs
               PROVE  /\ requestsMade[x] <= 1 /\ heard[x].answer <= requestsMade[x]
                      /\ AtRest(x) /\ x \notin cut =>
                           /\ heard[x].answer = IF xhr[x].sent THEN 1 ELSE 0
                           /\ heard[x].loadend = heard[x].answer + heard[x].abort
    BY DEF XhrsAreAnswered
  <2>0. XhrsNow /\ XhrHolds(x, xhr[x], heard[x], requestsMade[x], unfinished, microtasks, cut)
    BY DEF ReqInv, XhrsNow, AllHold
  <2> DEFINE a == heard[x].answer
             l == heard[x].loadend
             b == heard[x].abort
             m == requestsMade[x]
             u == CountIn(unfinished, AnswersOf(x))
             v == CountIn(unfinished, CallsOf(x))
             w == CountIn(microtasks, {XhrJob(x)})
             o == OneIf(xhr[x].sent)
  <2>1. a \in Nat /\ l \in Nat /\ b \in Nat /\ m \in Nat /\ u \in Nat /\ v \in Nat /\ w \in Nat
    BY <2>0, Amounts DEF XhrsNow
  <2>2. o = (IF xhr[x].sent THEN 1 ELSE 0)
    BY DEF OneIf
  <2>3. m + w <= o /\ a + u <= m /\ (x \notin cut => m + w = o /\ a + u = m /\ l + v = m + b)
    BY <2>0 DEF XhrHolds
  <2>4. ASSUME AtRest(x) PROVE u = 0 /\ v = 0 /\ w = 0
    <3>1. unfinished \in Seq(Calls) /\ microtasks \in Seq(Jobs) /\ XhrJob(x) \in Jobs
      BY <2>0 DEF XhrsNow, AllHold, XhrJob, Jobs
    <3>2. u = 0 /\ v = 0
      BY <2>4, <3>1, CallCounts DEF AtRest
    <3>3. w = 0
      BY <2>4, <3>1, QueueCounts DEF AtRest
    <3> QED BY <3>2, <3>3
  <2> HIDE DEF a, l, b, m, u, v, w, o
  <2>5. m <= 1 /\ a <= m
    BY <2>1, <2>2, <2>3
  <2>6. ASSUME AtRest(x), x \notin cut PROVE a = o /\ l = a + b
    BY <2>1, <2>3, <2>4, <2>6
  <2> QED BY <2>2, <2>5, <2>6 DEF a, l, b, m
<1>2. FetchesAreSettled
  <2>1. (\A i \in DOMAIN microtasks : microtasks[i].of # Image) => ~IsIn(ImageJob(source), microtasks)
    BY DEF IsIn, ImageJob
  <2>2. (\A i \in DOMAIN microtasks : microtasks[i].of # Image) => shown = source \/ [of |-> Image, id |-> source] \in cut
    BY <2>1 DEF ReqInv, ImageNow, ImageJob
  <2> QED BY <2>2 DEF ReqInv, FetchesNow, FetchHolds, FetchesAreSettled, FetchJob
<1>3. MessagesArrive
  <2>0. Crossing /\ InHand /\ XhrsNow
    BY DEF ReqInv
  <2>1. /\ \A i, j \in DOMAIN received : i < j /\ received[i].to = received[j].to => received[i].message < received[j].message
        /\ \A p \in Ports : ~channel[p].closed =>
             \A k \in 1..channel[p].posted : IsIn(Message(p, k), inTimers) \/ IsIn(Message(p, k), received) \/ Message(p, k) \in cut
    BY <2>0 DEF Crossing, PortsHold, Rising, Covered
  <2>2. /\ received \in Seq(Envelopes) /\ listened \in Seq(Envelopes) /\ unfinished \in Seq(Calls)
        /\ \A i, j \in DOMAIN listened : i # j => listened[i] # listened[j]
    BY <2>0 DEF InHand, HandsHold, XhrsNow, AllHold
  <2>3. (\A i \in DOMAIN received : received[i] \in Envelopes) /\ \A i \in DOMAIN listened : listened[i] \in Envelopes
    <3> DEFINE E == Envelopes
    <3> HIDE DEF E
    <3>1. (\A i \in DOMAIN received : received[i] \in E) /\ \A i \in DOMAIN listened : listened[i] \in E
      BY <2>2, LenProperties, ElementOfSeq DEF E
    <3> QED BY <3>1 DEF E
  <2>4. ASSUME NEW m \in Envelopes
        PROVE  /\ IsIn(m, listened) => IsIn(m, received)
               /\ IsIn(m, received) => IsIn(m, listened) \/ IsIn(Handed(m), unfinished) \/ m \in cut
    <3>1. HandHolds(m, CountIn(unfinished, {Handed(m)}), received, listened, cut)
      BY <2>0 DEF InHand, HandsHold
    <3>2. ~IsIn(Handed(m), unfinished) => CountIn(unfinished, {Handed(m)}) = 0
      BY <2>2, HandCounts DEF IsIn
    <3> QED BY <3>1, <3>2 DEF HandHolds
  <2>5. \A i \in DOMAIN listened : IsIn(listened[i], listened)
    BY DEF IsIn
  <2>6. \A i \in DOMAIN received : IsIn(received[i], received)
    BY DEF IsIn
  <2>7. /\ \A i \in DOMAIN listened : IsIn(listened[i], received)
        /\ \A i \in DOMAIN received : IsIn(received[i], listened) \/ IsIn(Handed(received[i]), unfinished) \/ received[i] \in cut
    BY <2>3, <2>4, <2>5, <2>6
  <2> QED BY <2>1, <2>2, <2>7 DEF MessagesArrive
<1> QED BY <1>1, <1>2, <1>3 DEF PageIsAnswered

(* What the page asks for it gets once, whatever its handlers open, send,  *)
(* abort, fetch or post while it gets it and wherever the deadline cuts it *)
(* off: for any number of XMLHttpRequests, promises, images and messages   *)
(* and calls nested to any depth.                                          *)
THEOREM PageStaysAnswered == RequestSpec => []PageIsAnswered
<1>1. RequestSpec => []ReqInv
  BY RequestsStart, RequestsStep, PTL DEF RequestSpec
<1> QED BY <1>1, RequestsMean, PTL
=============================================================================
