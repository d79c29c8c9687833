---------------------------- MODULE SearchPanel ----------------------------
(***************************************************************************)
(* The search panel of the generated documentation                         *)
(* (SearchBox, docs/html/search/search.js): a text field that searches     *)
(* half a second after a key was released in it, a popup frame with the    *)
(* results, and a window in which the section to search is selected.       *)
(*                                                                         *)
(* JavaScript runs one handler at a time; what interleaves are the user's  *)
(* events, the two timeouts, and the message by which the frame is asked   *)
(* to take the focus.  A key goes down in one element and, when a handler  *)
(* has moved the focus meanwhile, comes up in another.                     *)
(***************************************************************************)
EXTENDS Naturals, FiniteSets

CONSTANTS
  Texts,      \* texts the search field may hold
  Empty,      \* the empty one
  Label,      \* the one that stands for "nothing typed" (searchLabel)
  Squeezed,   \* Squeezed[t]: t without its spaces
  Stripped,   \* Stripped[t]: t without its leading spaces
  Tables,     \* possible search indices: the texts each section has a page for
  SectionCount, \* bound: sections of the largest table
  MaxTimers   \* bound: pending timeouts of Search

ASSUME TextAssumption ==
  /\ {Empty, Label} \subseteq Texts /\ Empty # Label
  /\ Squeezed \in [Texts -> Texts] /\ Stripped \in [Texts -> Texts]
  /\ Squeezed[Empty] = Empty /\ Squeezed[Label] = Label
  /\ \A t \in Texts :
       /\ Squeezed[Stripped[t]] = Squeezed[t] /\ Squeezed[Squeezed[t]] = Squeezed[t]
       /\ Stripped[t] = Empty <=> Squeezed[t] = Empty

ASSUME PanelAssumption ==
  /\ SectionCount \in Nat /\ MaxTimers \in Nat \ {0}
  /\ \A t \in Tables : \E n \in 0 .. SectionCount : t \in [0 .. n - 1 -> SUBSET Texts]

VARIABLES
  table,      \* table[i]: texts that section i has a results page for
  box,        \* the SearchBox and the elements it controls (see BoxType)
  pending,    \* number of timeouts that will call Search
  hide,       \* a timeout will call CloseSelectionWindow
  focus,      \* element with the focus: "page", "field", "item" or "results"
  held,       \* key that is down
  mouse,      \* the mouse is over the selection window or its icon
  posted,     \* "take_focus" is on its way to the frame
  untracked,  \* history: a selection searched while a timeout was pending, and
              \* not all timeouts have run out since
  skipped,    \* history: the text lost its timeout, or Search threw, and since
              \* then no key came up in the field and no text was searched
  blanked,    \* history: results are displayed although a timeout searched a
              \* blank field, or the label was taken out of it
  escaped     \* history: Escape has come up while no timeout was untracked, and
              \* the user did nothing since

browser == <<focus, held, mouse, posted>>
history == <<untracked, skipped, blanked, escaped>>
vars == <<table, box, pending, hide, browser, history>>

NoKey == "none"
Keys == {"char", "down", "up", "enter", "esc", "shift-down"}
NoResults == [section |-> 0, term |-> Empty, found |-> FALSE]

Sections == DOMAIN table

BoxType ==
  [field : Texts,           \* DOMSearchField().value
   last : Texts,            \* lastSearchValue
   index : 0 .. SectionCount, \* searchIndex, the item SelectItemSet marks
   active : BOOLEAN,        \* searchActive
   popup : BOOLEAN,         \* the results window is displayed
   selecting : BOOLEAN,     \* the selection window is displayed
   keyTimeout : BOOLEAN,    \* keyTimeout # 0
   location : [section : 0 .. SectionCount, term : Texts, found : BOOLEAN]]

(* The page is loaded and init_search has selected the first section. *)
Init ==
  /\ table \in Tables
  /\ box = [field |-> Label, last |-> Empty, index |-> 0, active |-> FALSE,
            popup |-> FALSE, selecting |-> FALSE, keyTimeout |-> FALSE,
            location |-> NoResults]
  /\ pending = 0 /\ hide = FALSE
  /\ focus = "page" /\ held = NoKey /\ mouse = FALSE /\ posted = FALSE
  /\ untracked = FALSE /\ skipped = FALSE /\ blanked = FALSE /\ escaped = FALSE

-----------------------------------------------------------------------------
(* The methods of SearchBox, as functions of the box. *)

(* Leaving the panel keeps it while results are displayed, and otherwise    *)
(* puts the label back into the field.                                      *)
Activate(b, isActive) ==
  IF isActive \/ b.popup
  THEN IF b.field = Label THEN [b EXCEPT !.field = Empty, !.active = TRUE] ELSE b
  ELSE [b EXCEPT !.field = Label, !.active = FALSE, !.last = Empty]

HideResults(b) == [b EXCEPT !.popup = FALSE]

CloseResultsWindow(b) == Activate(HideResults(b), FALSE)

(* The page of a text: that of its first letter, and of the first letter    *)
(* there is for the empty text.                                             *)
ResultsPage(b) ==
  [section |-> b.index, term |-> Stripped[b.field],
   found |-> Stripped[b.field] = Empty \/ Stripped[b.field] \in table[b.index]]

(* Reading the entry of a section that is not in the table throws, after    *)
(* keyTimeout has been reset.                                               *)
Search(b) ==
  LET c == [b EXCEPT !.keyTimeout = FALSE]
  IN IF b.index \notin Sections THEN c
     ELSE [c EXCEPT !.popup = TRUE, !.last = Stripped[b.field], !.location = ResultsPage(b)]

(* A selection searches at once when there is something to search for. *)
Searches(b) == Squeezed[b.field] # Empty /\ b.active

OnSelectItem(b, id) ==
  LET c == [b EXCEPT !.index = id]
  IN IF Searches(c) THEN Search(c) ELSE c

(* clearTimeout(keyTimeout): one pending timeout less, if it was running. *)
KillTimerMutant(b, k) == k
KillTimer(b, k) == IF b.keyTimeout THEN k - 1 ELSE k

(* The text is another than the one searched for last, which was stored     *)
(* with its inner spaces.                                                   *)
FieldChangedMutant(b) == held \notin {"down", "enter"} /\ Squeezed[b.field] # b.last
FieldChanged(b) == Squeezed[b.field] # b.last

(* onblur of the field, when the focus is to go elsewhere. *)
Blur(b) == IF focus = "field" THEN Activate(b, FALSE) ELSE b

-----------------------------------------------------------------------------
(* What the history variables take note of. *)

(* There is nothing to search for: the field says nothing, or the label     *)
(* that was put there and not typed.                                        *)
Blank(b) == Squeezed[b.field] = Empty \/ (b.field = Label /\ ~b.active)

KeyLost(to) == focus = "field" /\ to # "field" /\ held = "char"
LeavesTracked(b) == Searches(b) /\ pending > 0
Throws(b, id) == Searches(b) /\ id \notin Sections
SkippedBySelection(id) == IF Searches(box) THEN Throws(box, id) ELSE skipped
BlankedAfterSelection(id) == blanked /\ (Searches(box) => Throws(box, id))

(* The results stay as they are when the label is taken out of the field.   *)
BlankedBy(was, b) == b.popup /\ (was \/ (box.field = Label /\ b.field = Empty))

-----------------------------------------------------------------------------
(* Timeouts. *)

SearchTimeout ==
  /\ pending > 0
  /\ pending' = pending - 1
  /\ box' = Search(box)
  /\ untracked' = (untracked /\ pending' > 0)
  /\ skipped' = (box.index \notin Sections)
  /\ blanked' = IF box.index \in Sections THEN Blank(box) ELSE blanked
  /\ UNCHANGED <<table, hide, browser, escaped>>

(* CloseSelectionWindow; an element that is no longer displayed loses the   *)
(* focus.                                                                   *)
HideTimeout ==
  /\ hide
  /\ hide' = FALSE
  /\ box' = [box EXCEPT !.selecting = FALSE]
  /\ focus' = IF focus = "item" THEN "page" ELSE focus
  /\ UNCHANGED <<table, pending, held, mouse, posted, history>>

-----------------------------------------------------------------------------
(* The mouse. *)

(* clearTimeout(hideTimeout) *)
StopHideMutant == hide
StopHide == FALSE

OnSearchSelectShow ==
  /\ ~mouse
  /\ mouse' = TRUE
  /\ box' = [box EXCEPT !.selecting = TRUE]
  /\ hide' = StopHide
  /\ UNCHANGED <<table, pending, focus, held, posted, history>>

OnSearchSelectHide ==
  /\ mouse
  /\ mouse' = FALSE
  /\ hide' = TRUE
  /\ UNCHANGED <<table, box, pending, focus, held, posted, history>>

(* A click moves the focus, and the field's handlers run. *)
OnSearchFieldFocus(to) ==
  /\ to # focus
  /\ to = "item" => box.selecting /\ mouse /\ Sections # {}
  /\ to = "results" => box.popup
  /\ focus' = to
  /\ box' = IF to = "field" THEN Activate(box, TRUE) ELSE Blur(box)
  /\ skipped' = (skipped \/ KeyLost(to))
  /\ blanked' = BlankedBy(blanked, box')
  /\ escaped' = FALSE
  /\ UNCHANGED <<table, pending, hide, held, mouse, posted, untracked>>

ClickItem(id) ==
  /\ focus = "item" /\ mouse
  /\ box' = OnSelectItem(box, id)
  /\ untracked' = (untracked \/ LeavesTracked(box))
  /\ skipped' = SkippedBySelection(id)
  /\ blanked' = BlankedAfterSelection(id)
  /\ escaped' = FALSE
  /\ UNCHANGED <<table, pending, hide, browser>>

(* The cross beside the field. *)
ClickClose ==
  /\ box.popup
  /\ box' = CloseResultsWindow(Blur(box))
  /\ focus' = "page"
  /\ skipped' = FALSE /\ blanked' = FALSE
  /\ escaped' = FALSE
  /\ UNCHANGED <<table, pending, hide, held, mouse, posted, untracked>>

-----------------------------------------------------------------------------
(* Keys that go down. *)

Press(k) ==
  /\ held \in {NoKey, k}
  /\ held' = k
  /\ escaped' = FALSE
  /\ UNCHANGED <<table, pending, mouse, posted>>

(* A character changes the text before any handler of the panel runs.  The  *)
(* user may type what the label says.                                       *)
Type(t) ==
  /\ focus = "field"
  /\ t # box.field
  /\ Press("char")
  /\ box' = [box EXCEPT !.field = t]
  /\ UNCHANGED <<hide, focus, untracked, skipped, blanked>>

(* No handler of the panel listens, or it ignores the key. *)
PressIgnored(k) ==
  /\ IF focus = "field" THEN k # "char" ELSE focus # "item" \/ k = "char"
  /\ Press(k)
  /\ UNCHANGED <<box, hide, focus, untracked, skipped, blanked>>

(* The item the selection moves to; Down goes one beyond the last. *)
MovedMutant(k) ==
  CASE k \in {"down", "shift-down"} -> (box.index + 1) % (SectionCount + 2)
    [] k = "up" /\ box.index > 0 -> box.index - 1
    [] OTHER -> box.index
Moved(k) ==
  CASE k \in {"down", "shift-down"} /\ box.index < Cardinality(Sections) -> box.index + 1
    [] k = "up" /\ box.index > 0 -> box.index - 1
    [] OTHER -> box.index

SelectionMoves(k) ==
  /\ focus = "item"
  /\ k \in {"down", "shift-down", "up"}
  /\ Press(k)
  /\ IF Moved(k) # box.index
     THEN /\ box' = OnSelectItem(box, Moved(k))
          /\ untracked' = (untracked \/ LeavesTracked(box))
          /\ skipped' = SkippedBySelection(Moved(k))
          /\ blanked' = BlankedAfterSelection(Moved(k))
     ELSE UNCHANGED <<box, untracked, skipped, blanked>>
  /\ UNCHANGED <<hide, focus>>

(* OnSelectItem, CloseSelectionWindow, and the focus goes to the field. *)
SelectionEnds(k) ==
  /\ focus = "item"
  /\ k \in {"enter", "esc"}
  /\ ~Throws(box, box.index)
  /\ Press(k)
  /\ box' = Activate([OnSelectItem(box, box.index) EXCEPT !.selecting = FALSE], TRUE)
  /\ focus' = "field"
  /\ untracked' = (untracked \/ LeavesTracked(box))
  /\ skipped' = SkippedBySelection(box.index)
  /\ blanked' = BlankedBy(BlankedAfterSelection(box.index), box')
  /\ UNCHANGED hide

(* OnSelectItem throws beyond the last item: the window stays, and so does  *)
(* the focus.  The handler has not returned false, and the browser lets     *)
(* Enter click on the item that has the focus.                              *)
SelectionThrows(k) ==
  /\ focus = "item"
  /\ k \in {"enter", "esc"}
  /\ Throws(box, box.index)
  /\ Press(k)
  /\ LET thrown == OnSelectItem(box, box.index)
     IN IF k = "enter"
        THEN /\ \E id \in Sections : box' = OnSelectItem(thrown, id)
             /\ skipped' = FALSE /\ blanked' = FALSE
        ELSE /\ box' = thrown
             /\ skipped' = TRUE /\ UNCHANGED blanked
  /\ untracked' = (untracked \/ LeavesTracked(box))
  /\ UNCHANGED <<hide, focus>>

OnSearchSelectKey(k) == SelectionMoves(k) \/ SelectionEnds(k) \/ SelectionThrows(k)

(* Escape in an item of the results: the window is closed and the focus     *)
(* goes to the field.                                                       *)
EscapeResults ==
  /\ focus = "results"
  /\ Press("esc")
  /\ box' = Activate(CloseResultsWindow(box), TRUE)
  /\ focus' = "field"
  /\ skipped' = FALSE /\ blanked' = FALSE
  /\ UNCHANGED <<hide, untracked>>

(* Up in the first of them. *)
UpToField ==
  /\ focus = "results"
  /\ Press("up")
  /\ box' = Activate(box, TRUE)
  /\ focus' = "field"
  /\ blanked' = BlankedBy(blanked, box')
  /\ UNCHANGED <<hide, untracked, skipped>>

KeyDown ==
  \/ \E t \in Texts : Type(t)
  \/ \E k \in Keys : PressIgnored(k) \/ OnSearchSelectKey(k)
  \/ EscapeResults
  \/ UpToField

-----------------------------------------------------------------------------
(* Keys that come up: OnSearchFieldChange, with the timeout stopped first.  *)

Release == held # NoKey /\ held' = NoKey

(* Elsewhere nothing listens. *)
ReleaseElsewhere ==
  /\ focus # "field"
  /\ Release
  /\ UNCHANGED <<table, box, pending, hide, focus, mouse, posted, history>>

(* Shift and Down, or Enter, opens the selection and returns: nothing is    *)
(* searched for any more.                                                   *)
ReleaseShift ==
  /\ focus = "field" /\ held = "shift-down"
  /\ Release
  /\ LET b == [box EXCEPT !.keyTimeout = FALSE, !.selecting = TRUE]
         hasItem == Sections # {}
     IN /\ box' = IF hasItem THEN Blur(b) ELSE b
        /\ focus' = IF hasItem THEN "item" ELSE focus
        /\ pending' = KillTimer(box, pending)
        /\ blanked' = BlankedBy(blanked, box')
  /\ hide' = StopHide
  /\ skipped' = FieldChanged(box)
  /\ UNCHANGED <<table, mouse, posted, untracked, escaped>>

ReleaseEscape ==
  /\ focus = "field" /\ held = "esc"
  /\ Release
  /\ box' = [CloseResultsWindow(Blur(box)) EXCEPT !.keyTimeout = FALSE]
  /\ pending' = KillTimer(box, pending)
  /\ focus' = "page"
  /\ skipped' = FALSE /\ blanked' = FALSE
  /\ escaped' = ~untracked
  /\ UNCHANGED <<table, hide, mouse, posted, untracked>>

(* Any other key: a text that has changed gets a timeout, an empty one      *)
(* closes the results.                                                      *)
ReleaseOther ==
  /\ focus = "field" /\ held \notin {"shift-down", "esc"}
  /\ Release
  /\ posted' = (posted \/ held \in {"down", "enter"})
  /\ LET starts == FieldChanged(box) /\ Squeezed[box.field] # Empty
         empties == FieldChanged(box) /\ Squeezed[box.field] = Empty
         b == [box EXCEPT !.keyTimeout = starts]
     IN /\ pending' = KillTimer(box, pending) + (IF starts THEN 1 ELSE 0)
        /\ pending' <= MaxTimers
        /\ box' = IF empties THEN [HideResults(b) EXCEPT !.last = Empty] ELSE b
        /\ blanked' = (blanked /\ ~empties)
  /\ skipped' = FALSE
  /\ UNCHANGED <<table, hide, focus, mouse, untracked, escaped>>

OnSearchFieldChange == ReleaseShift \/ ReleaseEscape \/ ReleaseOther

(* The results page puts the focus on its first item, if it can have it. *)
TakeFocus ==
  /\ posted
  /\ posted' = FALSE
  /\ \/ UNCHANGED <<box, focus, skipped, blanked>>
     \/ /\ box.popup /\ box.location.found
        /\ focus' = "results"
        /\ box' = Blur(box)
        /\ skipped' = (skipped \/ KeyLost("results"))
        /\ blanked' = BlankedBy(blanked, box')
  /\ UNCHANGED <<table, pending, hide, held, mouse, untracked, escaped>>

-----------------------------------------------------------------------------
Mouse ==
  \/ OnSearchSelectShow \/ OnSearchSelectHide
  \/ \E to \in {"page", "field", "item", "results"} : OnSearchFieldFocus(to)
  \/ \E id \in Sections : ClickItem(id)
  \/ ClickClose

KeyUp == ReleaseElsewhere \/ OnSearchFieldChange

Next == SearchTimeout \/ HideTimeout \/ Mouse \/ KeyDown \/ KeyUp \/ TakeFocus

Spec == Init /\ [][Next]_vars

(* Timeouts run out and keys come up. *)
FairSpec == Spec /\ WF_vars(SearchTimeout) /\ WF_vars(KeyUp)

-----------------------------------------------------------------------------
(* Every variable has its type. *)
TypeOK ==
  /\ table \in Tables
  /\ box \in BoxType
  /\ pending \in 0 .. MaxTimers
  /\ focus \in {"page", "field", "item", "results"}
  /\ held \in Keys \union {NoKey}
  /\ {hide, mouse, posted, untracked, skipped, blanked, escaped} \subseteq BOOLEAN

(* keyTimeout stands for the one timeout there is: none is left behind that *)
(* clearTimeout can no longer reach.  The exception is a selection that     *)
(* searched while one was running (Search forgets it without clearing it),  *)
(* until all timeouts have run out.                                         *)
OneTimer == ~untracked => pending = (IF box.keyTimeout THEN 1 ELSE 0)

(* When the user has paused, the popup shows the results of what is in the  *)
(* field, spaces aside, and is closed when nothing is in it.  Two cases are *)
(* left out, each for as long as it lasts: a text that lost its timeout or  *)
(* whose search threw, until a key comes up in the field or a search is     *)
(* made (skipped); and results that were opened over a blank field by a     *)
(* timeout that came late, or from under which the label was taken, until   *)
(* they are closed or a text is searched for (blanked).                     *)
PausedShowsField ==
  held = NoKey /\ pending = 0 /\ ~skipped /\ ~blanked =>
    IF Blank(box) THEN ~box.popup
    ELSE box.popup /\ Squeezed[box.last] = Squeezed[box.field]

(* After an Escape in the field nothing is searched and nothing opens by    *)
(* itself, provided that no timeout was untracked when it came up: such a   *)
(* timeout is not stopped, and opens the results again.                     *)
EscapeIsFinal == escaped => pending = 0 /\ ~box.popup

(* The selection window is not closed under the mouse, and what has the     *)
(* focus is displayed, also when a selection throws.                        *)
NothingVanishes ==
  /\ hide => ~mouse
  /\ focus = "item" => box.selecting
  /\ focus = "results" => box.popup

(* A text left in the field is searched for once the user stops pressing    *)
(* keys, unless it loses its timeout or its search throws; the text of the  *)
(* label too, unless the panel is left and the label is put back.           *)
TypedIsSearched ==
  <>[](held = NoKey) =>
    \A t \in {s \in Texts : Squeezed[s] # Empty} :
      (focus = "field" /\ box.field = t)
        ~> \/ box.popup /\ Squeezed[box.location.term] = Squeezed[t]
           \/ box.field # t \/ ~box.active \/ skipped
=============================================================================
