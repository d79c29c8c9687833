--------------------------- MODULE SearchResults ---------------------------
(***************************************************************************)
(* The frame with the results of a search (SearchResults and               *)
(* createResults, docs/html/search/search.js): a page with one row per     *)
(* name that begins with some letter, of which those are displayed that    *)
(* match the term; a name found in several places has children that can be *)
(* folded.  Arrow keys move the focus from item to item, and back to the   *)
(* search field of the page around the frame.                              *)
(*                                                                         *)
(* Item <<i, 0>> is row i (Item<i> in the document) and <<i, c + 1>> its   *)
(* child c (Item<i>_c<c>).                                                 *)
(***************************************************************************)
EXTENDS Integers, FiniteSets, SequencesExt

CONSTANTS
  Pages,   \* result pages: functions from 0 .. n-1 to [name, places]
  Terms    \* search terms, as sequences of letters

(* A page has its names under the numbers from 0, each found at least once. *)
ASSUME PageAssumption ==
  \A p \in Pages :
    /\ IsFiniteSet(DOMAIN p) /\ DOMAIN p = 0 .. Cardinality(DOMAIN p) - 1
    /\ \A i \in DOMAIN p : p[i].places \in Nat \ {0}

(* The names on a page that match a term stand together, as they do in the  *)
(* sorted tables the documentation generator writes.                        *)
ASSUME SortedAssumption ==
  \A p \in Pages, t \in Terms : \A i, j \in DOMAIN p : \A k \in i .. j :
    IsPrefix(t, p[i].name) /\ IsPrefix(t, p[j].name) => IsPrefix(t, p[k].name)

VARIABLES
  page,      \* searchData of the page that is loaded
  term,      \* the term it was loaded with
  unfolded,  \* rows whose children are displayed
  cur,       \* item of the frame that has the focus
  lastKey,   \* lastKey of the SearchResults object
  repeatOn,  \* its repeatOn
  focus,     \* "results", or "parent" for the page around the frame
  displayed, \* the results window is displayed
  held,      \* key that is down
  presses,   \* history: keypress events since it went down, at most two
  strayed    \* history: a key went down here and came up elsewhere

keyState == <<lastKey, repeatOn, held, presses, strayed>>
vars == <<page, term, unfolded, cur, focus, displayed, keyState>>

NoKey == "none"
NoItem == <<>>
Keys == {"up", "down", "left", "right", "esc", "char"}

-----------------------------------------------------------------------------
(* createResults: a name found once has a link, another one has children.   *)
Children(i) == IF page[i].places = 1 THEN 0 ELSE page[i].places

(* Search leaves the rows visible whose name begins with the term. *)
Visible(i) == i \in DOMAIN page /\ IsPrefix(term, page[i].name)

Rows == {<<i, 0>> : i \in {j \in DOMAIN page : Visible(j)}}
ChildItems(i) == {<<i, c>> : c \in 1 .. Children(i)}
DisplayedItems == Rows \union UNION {ChildItems(r[1]) : r \in {s \in Rows : s[1] \in unfolded}}

(* The first visible row from i on, or from i back. *)
NavNext(i) ==
  IF \E j \in DOMAIN page : j >= i /\ Visible(j)
  THEN <<CHOOSE j \in DOMAIN page : j >= i /\ Visible(j) /\ \A k \in i .. j - 1 : ~Visible(k), 0>>
  ELSE NoItem

NavPrev(i) ==
  IF \E j \in DOMAIN page : j <= i /\ Visible(j)
  THEN <<CHOOSE j \in DOMAIN page : j <= i /\ Visible(j) /\ \A k \in j + 1 .. i : ~Visible(k), 0>>
  ELSE NoItem

Unfolds(i) == i \in unfolded /\ Children(i) > 0

(* Nav and NavChild, Down: the first child, the next one, or the next row. *)
DownFrom(x) ==
  LET i == x[1] IN
    IF x[2] = 0 /\ Unfolds(i) THEN <<i, 1>>
    ELSE IF x[2] > 0 /\ x[2] < Children(i) THEN <<i, x[2] + 1>>
    ELSE NavNext(i + 1)

(* Up: the item above in the same row, or the row above or the last of its  *)
(* children, which the code looks for under the number of the row before    *)
(* this one whether that is the row it has found or not.                    *)
LastChildMutant(i) == Children(i) - 1
LastChild(i) == Children(i)
UpFrom(x) ==
  LET above == x[1] - 1
      row == NavPrev(above)
  IN IF x[2] > 0 THEN <<x[1], x[2] - 1>>
     ELSE IF row # NoItem /\ Unfolds(row[1]) /\ Children(above) > 0
     THEN <<above, LastChild(above)>>
     ELSE row

-----------------------------------------------------------------------------
(* No page has been loaded yet. *)
Init ==
  /\ page = [i \in {} |-> 0] /\ term = <<>> /\ unfolded = {}
  /\ cur = NoItem /\ focus = "parent" /\ displayed = FALSE
  /\ lastKey = NoKey /\ repeatOn = FALSE
  /\ held = NoKey /\ presses = 0 /\ strayed = FALSE

(* The search panel gives the frame a new location: a new document with its *)
(* own SearchResults.                                                       *)
Load(p, t) ==
  /\ page' = p /\ term' = t
  /\ unfolded' = {} /\ cur' = NoItem
  /\ lastKey' = NoKey /\ repeatOn' = FALSE
  /\ displayed' = TRUE
  /\ UNCHANGED <<focus, held, presses, strayed>>

(* The message by which the search field hands over the focus. *)
TakeFocus ==
  /\ displayed /\ NavNext(0) # NoItem
  /\ cur' = NavNext(0) /\ focus' = "results"
  /\ UNCHANGED <<page, term, unfolded, displayed, keyState>>

(* The user goes back to the page around the frame, or closes the results. *)
Leave(closes) ==
  /\ displayed
  /\ cur' = NoItem /\ focus' = "parent"
  /\ displayed' = ~closes
  /\ UNCHANGED <<page, term, unfolded, keyState>>

Toggled(i) == IF i \in unfolded THEN unfolded \ {i} ELSE unfolded \union {i}

(* The link of a row with children toggles them; other links lead away. *)
ToggleRow(i) ==
  /\ displayed /\ Visible(i) /\ Children(i) > 0
  /\ cur' = <<i, 0>> /\ focus' = "results"
  /\ unfolded' = Toggled(i)
  /\ UNCHANGED <<page, term, displayed, keyState>>

-----------------------------------------------------------------------------
(* What a key does to the item with the focus. *)

(* focus() has no effect on what is not displayed. *)
MoveTo(x) ==
  /\ cur' = IF x \in DisplayedItems THEN x ELSE cur
  /\ UNCHANGED <<unfolded, focus, displayed>>

ToField(stays) ==
  /\ cur' = NoItem /\ focus' = "parent"
  /\ displayed' = stays
  /\ UNCHANGED unfolded

FoldedMutant(x) == unfolded \ {x[1]}
Folded(x) == IF x[2] = 0 THEN unfolded \ {x[1]} ELSE unfolded

Fold(rows) == unfolded' = rows /\ UNCHANGED <<cur, focus, displayed>>

Nav(k) ==
  \/ k = "up" /\ UpFrom(cur) # NoItem /\ MoveTo(UpFrom(cur))
  \/ k = "up" /\ UpFrom(cur) = NoItem /\ ToField(TRUE)
  \/ k = "down" /\ MoveTo(IF DownFrom(cur) = NoItem THEN cur ELSE DownFrom(cur))
  \/ k = "right" /\ Fold(IF cur[2] = 0 /\ Children(cur[1]) > 0 THEN unfolded \union {cur[1]} ELSE unfolded)
  \/ k = "left" /\ Fold(Folded(cur))
  \/ k = "esc" /\ ToField(FALSE)
  \/ k \in {"char", NoKey} /\ Fold(unfolded)

Here == focus = "results" /\ cur # NoItem

-----------------------------------------------------------------------------
(* ProcessKeys and what follows it, for the three events of a key.  Enter   *)
(* is left to the browser before it: it is the click of ToggleRow.          *)

RepeatAtKeyDownMutant == repeatOn
RepeatAtKeyDown == FALSE

KeyDown(k) ==
  /\ Here /\ held \in {NoKey, k}
  /\ held' = k /\ presses' = 0
  /\ lastKey' = k /\ repeatOn' = RepeatAtKeyDown
  /\ Nav(k)
  /\ UNCHANGED <<page, term, strayed>>

(* Some browsers send keypress for arrow keys too, once and then for each   *)
(* repetition.  The first one is ignored.                                   *)
KeyPress ==
  /\ Here /\ held # NoKey
  /\ presses' = IF presses = 2 THEN 2 ELSE presses + 1
  /\ repeatOn' = (repeatOn \/ lastKey # NoKey)
  /\ IF repeatOn THEN Nav(lastKey) ELSE Fold(unfolded)
  /\ UNCHANGED <<page, term, lastKey, held, strayed>>

KeyUp ==
  /\ Here /\ held # NoKey
  /\ held' = NoKey
  /\ lastKey' = NoKey /\ repeatOn' = FALSE
  /\ UNCHANGED <<page, term, unfolded, cur, focus, displayed, presses, strayed>>

(* Keys go to the page around the frame, or to nothing in it. *)
KeyElsewhere(k) ==
  /\ ~Here
  /\ IF held = NoKey THEN held' = k ELSE held' = NoKey
  /\ presses' = 0
  /\ strayed' = (strayed \/ (held # NoKey /\ lastKey # NoKey))
  /\ UNCHANGED <<page, term, unfolded, cur, focus, displayed, lastKey, repeatOn>>

Next ==
  \/ \E p \in Pages, t \in Terms : Load(p, t)
  \/ TakeFocus
  \/ \E closes \in BOOLEAN : Leave(closes)
  \/ \E i \in DOMAIN page : ToggleRow(i)
  \/ \E k \in Keys : KeyDown(k) \/ KeyElsewhere(k)
  \/ KeyPress \/ KeyUp

Spec == Init /\ [][Next]_vars

-----------------------------------------------------------------------------
(* Whatever is folded, searched or closed, the item that listens to the     *)
(* keys is one the user sees.                                               *)
FocusIsSeen == Here => displayed /\ cur \in DisplayedItems

(* Up takes back what Down did, over folded and unfolded rows and over rows *)
(* that do not match, and leads out of the list at its first item only;     *)
(* each item but that one is the one below another, so Down reaches all.    *)
UpUndoesDown ==
  \A x \in DisplayedItems :
    /\ DownFrom(x) # NoItem => DownFrom(x) \in DisplayedItems /\ UpFrom(DownFrom(x)) = x
    /\ UpFrom(x) = NoItem <=> x = NavNext(0)
    /\ x # NavNext(0) => \E y \in DisplayedItems : DownFrom(y) = x

(* A key that is pressed once moves once: of the keypress events that       *)
(* follow a keydown the first one does nothing.                             *)
FirstPressIgnored ==
  [][presses = 0 /\ presses' = 1 /\ ~strayed
       => UNCHANGED <<cur, unfolded, focus, displayed>>]_vars
=============================================================================
