----------------------------- MODULE WindowState -----------------------------
(***************************************************************************)
(* What the shim's window keeps (web_platform_shim.hpp): its location and  *)
(* history, which change without a navigation and, as one engine serves    *)
(* every document of a session, outlive the document, and its media        *)
(* query lists, which Session::set_viewport notifies.  Handlers of         *)
(* hashchange and popstate are called when all is done; those of a list    *)
(* run between two lists and may make other ones.  How a relative URL is   *)
(* resolved is left out: a URL is a document and a fragment.               *)
(***************************************************************************)
EXTENDS Naturals, Sequences, FiniteSets

CONSTANTS
  HistoryUrls,      \* URLs a page may name: [doc, hash]
  NoHref,           \* null, and the href of what cannot be resolved
  ScriptUrl,        \* a javascript: URL
  MaxHistory,       \* bound on the entries of the history
  Sizes,            \* viewports: [width, height, ratio]
  MediaTexts,       \* media queries, as sequences of alternatives
  MaxLists,         \* 256 in matchMedia
  MaxListsMade,     \* bound on the lists made
  MaxWindowOps      \* bound on the calls of the page and of the driver

ASSUME WindowStateConstants ==
  /\ {NoHref, ScriptUrl} \cap HistoryUrls = {}
  /\ {MaxHistory, MaxLists, MaxListsMade, MaxWindowOps} \subseteq Nat

VARIABLES
  loadedUrl,      \* the URL of the document, H.pageInfo().url
  historyEntries, historyIndex,  \* entries are the URLs they were made with
  override,       \* locationState.override
  requested,      \* the navigation asked of the host, or NoHref
  byHistory,      \* history: the URL was last changed by the history, not by location or a new document
  viewport,       \* FlatwormScriptHost::viewport_
  lists,          \* the media query lists made: query, __matched, and whether the page still has it
  mediaLists,     \* the lists matchMedia keeps weak references to, in the order they were made
  toNotify,       \* the lists __prowsetkViewportChanged has still to come to
  notifying,      \* it runs
  incomplete,     \* history: the last notification failed
  windowOps
WindowVars == <<loadedUrl, historyEntries, historyIndex, override, requested, byHistory,
                viewport, lists, mediaLists, toNotify, notifying, incomplete, windowOps>>
Navigation == <<loadedUrl, historyEntries, historyIndex, override, requested, byHistory>>
Media == <<viewport, lists, mediaLists, toNotify, notifying, incomplete>>

WindowInit ==
  /\ loadedUrl \in HistoryUrls /\ historyEntries = <<NoHref>> /\ historyIndex = 1 /\ override = NoHref /\ requested = NoHref /\ byHistory = TRUE
  /\ viewport \in Sizes /\ lists = <<>> /\ mediaLists = {} /\ toNotify = {} /\ notifying = FALSE
  /\ incomplete = FALSE /\ windowOps = 0
WindowCall == windowOps < MaxWindowOps /\ windowOps' = windowOps + 1

-----------------------------------------------------------------------------
CurrentHref == IF override = NoHref THEN loadedUrl ELSE override

(* navigateTo: within the document only the fragment changes; out of it    *)
(* the host is asked, and location shows at once where the page will go.   *)
NavigateTo(url) ==
  /\ WindowCall /\ url \notin {NoHref, ScriptUrl}
  /\ override' = url /\ byHistory' = FALSE
  /\ requested' = IF url.doc = CurrentHref.doc THEN requested ELSE url
  /\ UNCHANGED <<loadedUrl, historyEntries, historyIndex, Media>>

(* What pushState and replaceState store: the location when no URL is      *)
(* given.                                                                  *)
NextUrl(url, given) == IF given THEN url ELSE CurrentHref
Overrides(url, given) == override' = (IF given THEN url ELSE override) /\ byHistory' = TRUE
(* The entries ahead are gone even if the URL is then refused.             *)
PushState(url, given) ==
  LET kept == SubSeq(historyEntries, 1, historyIndex)
      next == NextUrl(url, given)
  IN  /\ WindowCall /\ Len(kept) < MaxHistory /\ UNCHANGED <<loadedUrl, requested, Media>>
      /\ \/ next = ScriptUrl /\ historyEntries' = kept /\ UNCHANGED <<historyIndex, override, byHistory>>
         \/ /\ next # ScriptUrl /\ historyEntries' = Append(kept, next) /\ historyIndex' = historyIndex + 1
            /\ Overrides(url, given)
ReplaceState(url, given) ==
  LET next == NextUrl(url, given)
  IN  /\ WindowCall /\ next # ScriptUrl /\ historyEntries' = [historyEntries EXCEPT ![historyIndex] = next]
      /\ Overrides(url, given) /\ UNCHANGED <<loadedUrl, historyIndex, requested, Media>>
(* go, back and forward: an entry without a URL leaves the location.       *)
KeepsLocation(entry) == override
LocationAt(entry) == IF entry = NoHref THEN override ELSE entry
GoTo(i) ==
  /\ WindowCall /\ i \in DOMAIN historyEntries \ {historyIndex} /\ historyIndex' = i
  /\ override' = LocationAt(historyEntries[i]) /\ byHistory' = TRUE
  /\ UNCHANGED <<loadedUrl, historyEntries, requested, Media>>

(* Session::install_document: the window keeps its entries, and also the   *)
(* location it was given, whatever document that was in.                   *)
InstallDocument(url) ==
  /\ WindowCall /\ loadedUrl' = url /\ requested' = NoHref
  /\ byHistory' = (byHistory /\ override # NoHref)
  /\ UNCHANGED <<historyEntries, historyIndex, override, Media>>

-----------------------------------------------------------------------------
(* mediaMatches: an alternative with a part that is not understood never   *)
(* matches, not even negated.                                              *)
PartHolds(part, v) ==
  CASE part.is = "type" -> part.of # "print"
    [] part.is = "min" -> v[part.of] >= part.wanted
    [] part.is = "max" -> v[part.of] <= part.wanted
    [] part.is = "exactly" -> v[part.of] = part.wanted
    [] part.is = "orientation" -> part.of = (IF v.width > v.height THEN "landscape" ELSE "portrait")
    [] part.is = "preference" -> part.of \in {"light", "no-preference"}
    [] OTHER -> FALSE
Understood(part) == part.is # "unknown"
MediaMatches(query, v) ==
  \E i \in DOMAIN query :
    LET parts == query[i].parts
    IN  /\ \A p \in parts : Understood(p)
        /\ query[i].negate # \A p \in parts : PartHolds(p, v)

(* matchMedia: page code makes a list, in a script or in a handler.        *)
Alive(l) == lists[l].held
MatchMedia(query) ==
  LET left == {l \in mediaLists : Alive(l)}
      new == [query |-> query, matched |-> MediaMatches(query, viewport), held |-> TRUE]
  IN  /\ WindowCall /\ Len(lists) < MaxListsMade /\ UNCHANGED <<Navigation, viewport, toNotify, notifying, incomplete>>
      /\ \/ Cardinality(left) >= MaxLists /\ mediaLists' = left /\ UNCHANGED lists
         \/ Cardinality(left) < MaxLists /\ lists' = Append(lists, new) /\ mediaLists' = left \cup {Len(lists) + 1}
(* The page lets go of a list and the collector takes it.                  *)
DropList(l) ==
  /\ Alive(l) /\ lists' = [lists EXCEPT ![l].held = FALSE]
  /\ UNCHANGED <<Navigation, viewport, mediaLists, toNotify, notifying, incomplete, windowOps>>

(* Session::set_viewport, refused while a script runs; the lists are       *)
(* notified in a script of their own.                                      *)
SameSize(v, w) == v = w
SetViewport(v) ==
  /\ WindowCall /\ ~notifying /\ viewport' = v
  /\ IF SameSize(v, viewport) THEN UNCHANGED <<toNotify, notifying>> ELSE notifying' = TRUE /\ toNotify' = mediaLists
  /\ UNCHANGED <<Navigation, lists, mediaLists, incomplete>>
(* One list: its handlers run before the next one is looked at.            *)
NotifyList(l) ==
  /\ notifying /\ l \in toNotify /\ (\A k \in toNotify : l <= k) /\ toNotify' = toNotify \ {l}
  /\ lists' = IF Alive(l) THEN [lists EXCEPT ![l].matched = MediaMatches(lists[l].query, viewport)] ELSE lists
  /\ UNCHANGED <<Navigation, viewport, mediaLists, notifying, incomplete, windowOps>>
(* The resize events end the notification; the deadline or an exception    *)
(* may end it before, and set_viewport throws.                             *)
NotificationEnds ==
  /\ notifying /\ notifying' = FALSE /\ toNotify' = {}
  /\ \/ toNotify = {} /\ incomplete' = FALSE
     \/ incomplete' = TRUE
  /\ UNCHANGED <<Navigation, viewport, lists, mediaLists, windowOps>>

WindowNext ==
  \/ \E url \in HistoryUrls \cup {NoHref, ScriptUrl} :
       NavigateTo(url) \/ PushState(url, TRUE) \/ ReplaceState(url, TRUE)
  \/ PushState(NoHref, FALSE) \/ ReplaceState(NoHref, FALSE)
  \/ \E i \in 1..MaxHistory : GoTo(i)
  \/ \E url \in HistoryUrls : InstallDocument(url)
  \/ \E query \in MediaTexts : MatchMedia(query)
  \/ \E l \in DOMAIN lists : DropList(l) \/ NotifyList(l)
  \/ \E v \in Sizes : SetViewport(v)
  \/ NotificationEnds
WindowSpec == WindowInit /\ [][WindowNext]_WindowVars

-----------------------------------------------------------------------------
(* Pages that use only the history find themselves, wherever they go in    *)
(* it, at the URL given to the entry, also after entries were cut off or   *)
(* replaced and in a later document, except at an entry that never had one *)
(* and where a document is loaded while the location is still that of the  *)
(* document before (replaceState without a URL).                           *)
LocationIsTheEntrys ==
  /\ historyIndex \in DOMAIN historyEntries
  /\ byHistory /\ historyEntries[historyIndex] # NoHref => CurrentHref = historyEntries[historyIndex]
(* Whenever no notification runs and the last one was completed, every     *)
(* list the page holds has told its listeners what it now matches, those   *)
(* made by a listener of another one and those made since included.        *)
ListsAreCurrent ==
  ~notifying /\ ~incomplete =>
    \A l \in DOMAIN lists : Alive(l) => lists[l].matched = MediaMatches(lists[l].query, viewport)
(* What the page reads from its window is what happened to it.             *)
WindowIsCurrent == LocationIsTheEntrys /\ ListsAreCurrent
=============================================================================
