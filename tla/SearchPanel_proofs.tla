------------------------- MODULE SearchPanel_proofs -------------------------
(***************************************************************************)
(* Proofs about SearchPanel, for every set of texts, every search index    *)
(* and every number of timeouts.                                           *)
(***************************************************************************)
EXTENDS SearchPanel, FiniteSetTheorems, TLAPS

-----------------------------------------------------------------------------
(* What the methods of SearchBox do to the box. *)

LEMMA SectionsBounded ==
  ASSUME table \in Tables
  PROVE  /\ Sections \subseteq 0 .. SectionCount
         /\ Cardinality(Sections) \in 0 .. SectionCount
<1>1. PICK n \in 0 .. SectionCount : table \in [0 .. n - 1 -> SUBSET Texts]
  BY PanelAssumption
<1>2. Sections = 0 .. n - 1
  BY <1>1 DEF Sections
<1>3. Cardinality(0 .. n - 1) = n
  BY <1>1, PanelAssumption, FS_Interval
<1> QED
  BY <1>1, <1>2, <1>3, PanelAssumption

LEMMA ActivateBox ==
  ASSUME NEW b \in BoxType, NEW isActive \in BOOLEAN
  PROVE  /\ Activate(b, isActive) \in BoxType
         /\ \A f \in {"index", "popup", "selecting", "keyTimeout", "location"} :
              Activate(b, isActive)[f] = b[f]
  BY TextAssumption DEF Activate, BoxType

LEMMA CloseResultsWindowBox ==
  ASSUME NEW b \in BoxType
  PROVE  /\ CloseResultsWindow(b) \in BoxType
         /\ ~CloseResultsWindow(b).popup
         /\ CloseResultsWindow(b).keyTimeout = b.keyTimeout
         /\ CloseResultsWindow(b).selecting = b.selecting
  BY TextAssumption DEF CloseResultsWindow, HideResults, Activate, BoxType

LEMMA SearchBox ==
  ASSUME NEW b \in BoxType
  PROVE  /\ Search(b) \in BoxType
         /\ ~Search(b).keyTimeout
         /\ Search(b).selecting = b.selecting
         /\ Search(b).field = b.field /\ Search(b).active = b.active
         /\ b.popup => Search(b).popup
  BY TextAssumption DEF Search, ResultsPage, BoxType

LEMMA OnSelectItemBox ==
  ASSUME NEW b \in BoxType, NEW id \in 0 .. SectionCount
  PROVE  /\ OnSelectItem(b, id) \in BoxType
         /\ OnSelectItem(b, id).selecting = b.selecting
         /\ OnSelectItem(b, id).field = b.field /\ OnSelectItem(b, id).active = b.active
         /\ b.popup => OnSelectItem(b, id).popup
         /\ OnSelectItem(b, id).keyTimeout = IF Searches(b) THEN FALSE ELSE b.keyTimeout
<1> DEFINE c == [b EXCEPT !.index = id]
<1>1. c \in BoxType
  BY DEF BoxType
<1>2. Searches(c) = Searches(b)
  BY DEF BoxType, Searches
<1>3. OnSelectItem(b, id) = IF Searches(b) THEN Search(c) ELSE c
  BY <1>2 DEF OnSelectItem
<1>4. CASE Searches(b)
  <2>1. /\ c.selecting = b.selecting /\ c.field = b.field /\ c.active = b.active
        /\ c.popup = b.popup
    BY DEF BoxType
  <2>2. /\ Search(c) \in BoxType /\ ~Search(c).keyTimeout
        /\ Search(c).selecting = c.selecting
        /\ Search(c).field = c.field /\ Search(c).active = c.active
        /\ c.popup => Search(c).popup
    BY <1>1, SearchBox
  <2>3. Search(c).keyTimeout = FALSE
    BY <2>2 DEF BoxType
  <2> HIDE DEF c
  <2> QED
    BY <1>3, <1>4, <2>1, <2>2, <2>3
<1>5. CASE ~Searches(b)
  BY <1>1, <1>3, <1>5 DEF BoxType
<1> QED
  BY <1>4, <1>5

LEMMA MovedType ==
  ASSUME table \in Tables, box \in BoxType, NEW k
  PROVE  Moved(k) \in 0 .. SectionCount
  BY SectionsBounded, PanelAssumption DEF Moved, BoxType

(* After an exception the box is as the selection left it. *)
LEMMA ThrownBox ==
  ASSUME box \in BoxType, table \in Tables, NEW k, SelectionThrows(k)
  PROVE  /\ box' \in BoxType /\ box'.keyTimeout = FALSE
         /\ box'.selecting = box.selecting
<1> DEFINE thrown == OnSelectItem(box, box.index)
<1>1. Searches(box) /\ box.index \in 0 .. SectionCount
  BY DEF SelectionThrows, Throws, BoxType
<1>2. thrown \in BoxType /\ thrown.keyTimeout = FALSE /\ thrown.selecting = box.selecting
  BY <1>1, OnSelectItemBox
<1> HIDE DEF thrown
<1>3. \A id \in Sections : /\ OnSelectItem(thrown, id) \in BoxType
                          /\ OnSelectItem(thrown, id).keyTimeout = FALSE
                          /\ OnSelectItem(thrown, id).selecting = box.selecting
  BY <1>2, SectionsBounded, OnSelectItemBox
<1>4. box' = thrown \/ \E id \in Sections : box' = OnSelectItem(thrown, id)
  BY DEF SelectionThrows, thrown
<1> QED
  BY <1>2, <1>3, <1>4

LEMMA BlurBox ==
  ASSUME NEW b \in BoxType
  PROVE  /\ Blur(b) \in BoxType
         /\ \A f \in {"index", "popup", "selecting", "keyTimeout", "location"} : Blur(b)[f] = b[f]
  BY ActivateBox DEF Blur

-----------------------------------------------------------------------------
(* A timeout that clearTimeout can reach is pending; without this a killed  *)
(* timer could take the count below zero.                                   *)
TimerTracked == box.keyTimeout => pending >= 1

TypeInv == TypeOK /\ TimerTracked

LEMMA TypeInit == Init => TypeInv
<1> SUFFICES ASSUME Init PROVE TypeInv
  OBVIOUS
<1>1. box \in BoxType /\ ~box.keyTimeout
  BY TextAssumption, PanelAssumption DEF Init, BoxType, NoResults
<1>2. 0 \in 0 .. MaxTimers
  BY PanelAssumption
<1> QED
  BY <1>1, <1>2 DEF Init, TypeInv, TypeOK, TimerTracked, Keys, NoKey

LEMMA KillTimerType ==
  ASSUME TypeInv
  PROVE  KillTimer(box, pending) \in 0 .. pending
  BY DEF TypeInv, TypeOK, TimerTracked, KillTimer, BoxType

LEMMA TimeoutType == TypeInv /\ (SearchTimeout \/ HideTimeout) => TypeInv'
<1> SUFFICES ASSUME TypeInv PROVE SearchTimeout \/ HideTimeout => TypeInv'
  OBVIOUS
<1> USE DEF TypeInv, TypeOK, TimerTracked
<1>1. CASE SearchTimeout
  <2>1. box' \in BoxType /\ ~box'.keyTimeout
    BY <1>1, SearchBox DEF SearchTimeout
  <2>2. pending' \in 0 .. MaxTimers
    BY <1>1, PanelAssumption DEF SearchTimeout
  <2>3. {untracked', skipped', blanked'} \subseteq BOOLEAN
    BY <1>1 DEF SearchTimeout, Blank
  <2> QED
    BY <1>1, <2>1, <2>2, <2>3 DEF SearchTimeout, browser
<1>2. CASE HideTimeout
  BY <1>2 DEF HideTimeout, history, BoxType
<1> QED
  BY <1>1, <1>2

LEMMA MouseType == TypeInv /\ Mouse => TypeInv'
<1> SUFFICES ASSUME TypeInv, Mouse PROVE TypeInv'
  OBVIOUS
<1> USE DEF TypeInv, TypeOK, TimerTracked
<1>1. CASE OnSearchSelectShow
  BY <1>1 DEF OnSearchSelectShow, StopHide, history, BoxType
<1>2. CASE OnSearchSelectHide
  BY <1>2 DEF OnSearchSelectHide, history
<1>3. ASSUME NEW to \in {"page", "field", "item", "results"}, OnSearchFieldFocus(to) PROVE TypeInv'
  <2>1. box' \in BoxType /\ box'.keyTimeout = box.keyTimeout
    BY <1>3, ActivateBox, BlurBox DEF OnSearchFieldFocus
  <2> QED
    BY <1>3, <2>1 DEF OnSearchFieldFocus, KeyLost, BlankedBy
<1>4. ASSUME NEW id \in Sections, ClickItem(id) PROVE TypeInv'
  <2>1. id \in 0 .. SectionCount
    BY <1>4, SectionsBounded
  <2>2. box' \in BoxType /\ (box'.keyTimeout => box.keyTimeout)
    BY <1>4, <2>1, OnSelectItemBox DEF ClickItem
  <2> QED
    BY <1>4, <2>2
      DEF ClickItem, browser, LeavesTracked, Searches, SkippedBySelection, BlankedAfterSelection, Throws
<1>5. CASE ClickClose
  <2>1. box' \in BoxType /\ box'.keyTimeout = box.keyTimeout
    BY <1>5, BlurBox, CloseResultsWindowBox DEF ClickClose
  <2> QED
    BY <1>5, <2>1 DEF ClickClose
<1> QED
  BY <1>1, <1>2, <1>3, <1>4, <1>5 DEF Mouse

LEMMA KeyDownType == TypeInv /\ KeyDown => TypeInv'
<1> SUFFICES ASSUME TypeInv, KeyDown PROVE TypeInv'
  OBVIOUS
<1> USE DEF TypeInv, TypeOK, TimerTracked, Press, Keys
<1>1. ASSUME NEW t \in Texts, Type(t) PROVE TypeInv'
  BY <1>1 DEF Type, BoxType
<1>2. ASSUME NEW k \in Keys, PressIgnored(k) PROVE TypeInv'
  BY <1>2 DEF PressIgnored
<1>3. ASSUME NEW k \in Keys, SelectionMoves(k) PROVE TypeInv'
  <2>1. box' \in BoxType /\ (box'.keyTimeout => box.keyTimeout)
    BY <1>3, MovedType, OnSelectItemBox DEF SelectionMoves
  <2>2. {untracked', skipped', blanked'} \subseteq BOOLEAN
    BY <1>3 DEF SelectionMoves, LeavesTracked, Searches, SkippedBySelection, BlankedAfterSelection, Throws
  <2> QED
    BY <1>3, <2>1, <2>2 DEF SelectionMoves
<1>4. ASSUME NEW k \in Keys, SelectionEnds(k) PROVE TypeInv'
  <2> DEFINE c == [OnSelectItem(box, box.index) EXCEPT !.selecting = FALSE]
  <2>1. /\ OnSelectItem(box, box.index) \in BoxType
        /\ OnSelectItem(box, box.index).keyTimeout => box.keyTimeout
    BY OnSelectItemBox DEF BoxType
  <2>2. c \in BoxType /\ (c.keyTimeout => box.keyTimeout)
    BY <2>1 DEF BoxType
  <2>3. box' \in BoxType /\ box'.keyTimeout = c.keyTimeout
    BY <1>4, <2>2, ActivateBox DEF SelectionEnds
  <2>4. {untracked', skipped', blanked'} \subseteq BOOLEAN
    BY <1>4 DEF SelectionEnds, LeavesTracked, Searches, SkippedBySelection, BlankedBy, Throws
  <2> QED
    BY <1>4, <2>2, <2>3, <2>4 DEF SelectionEnds
<1>5. ASSUME NEW k \in Keys, SelectionThrows(k) PROVE TypeInv'
  BY <1>5, ThrownBox DEF SelectionThrows, LeavesTracked, Searches
<1>6. CASE EscapeResults
  <2>1. box' \in BoxType /\ box'.keyTimeout = box.keyTimeout
    BY <1>6, CloseResultsWindowBox, ActivateBox DEF EscapeResults
  <2> QED
    BY <1>6, <2>1 DEF EscapeResults
<1>7. CASE UpToField
  <2>1. box' \in BoxType /\ box'.keyTimeout = box.keyTimeout
    BY <1>7, ActivateBox DEF UpToField
  <2> QED
    BY <1>7, <2>1 DEF UpToField, BlankedBy
<1> QED
  BY <1>1, <1>2, <1>3, <1>4, <1>5, <1>6, <1>7 DEF KeyDown, OnSearchSelectKey

LEMMA KeyUpType == TypeInv /\ KeyUp => TypeInv'
<1> SUFFICES ASSUME TypeInv, KeyUp PROVE TypeInv'
  OBVIOUS
<1> USE DEF TypeInv, TypeOK, TimerTracked, Release, NoKey
<1>1. CASE ReleaseElsewhere
  BY <1>1 DEF ReleaseElsewhere, history
<1>2. CASE ReleaseShift
  <2> DEFINE b == [box EXCEPT !.keyTimeout = FALSE, !.selecting = TRUE]
  <2>1. b \in BoxType /\ ~b.keyTimeout
    BY DEF BoxType
  <2>2. box' \in BoxType /\ ~box'.keyTimeout
    BY <1>2, <2>1, BlurBox DEF ReleaseShift
  <2>3. pending' \in 0 .. MaxTimers
    BY <1>2, KillTimerType, PanelAssumption DEF ReleaseShift
  <2>4. /\ table' = table /\ held' = NoKey /\ hide' = FALSE
        /\ focus' \in {"page", "field", "item", "results"}
        /\ UNCHANGED <<mouse, posted, untracked, escaped>>
        /\ blanked' \in BOOLEAN /\ skipped' \in BOOLEAN
    BY <1>2 DEF ReleaseShift, StopHide, BlankedBy, FieldChanged
  <2> QED
    BY <2>2, <2>3, <2>4
<1>3. CASE ReleaseEscape
  <2>1. CloseResultsWindow(Blur(box)) \in BoxType
    BY BlurBox, CloseResultsWindowBox
  <2>2. box' \in BoxType /\ ~box'.keyTimeout
    BY <1>3, <2>1 DEF ReleaseEscape, BoxType
  <2>3. pending' \in 0 .. MaxTimers
    BY <1>3, KillTimerType, PanelAssumption DEF ReleaseEscape
  <2>4. /\ table' = table /\ held' = NoKey /\ focus' = "page"
        /\ skipped' = FALSE /\ blanked' = FALSE /\ escaped' = ~untracked
        /\ UNCHANGED <<hide, mouse, posted, untracked>>
    BY <1>3 DEF ReleaseEscape
  <2> QED
    BY <2>2, <2>3, <2>4
<1>4. CASE ReleaseOther
  <2> DEFINE starts == FieldChanged(box) /\ Squeezed[box.field] # Empty
  <2>1. box' \in BoxType /\ box'.keyTimeout = starts
    BY <1>4, TextAssumption DEF ReleaseOther, HideResults, BoxType, FieldChanged
  <2>2. pending' = KillTimer(box, pending) + (IF starts THEN 1 ELSE 0) /\ pending' <= MaxTimers
    BY <1>4 DEF ReleaseOther
  <2>3. pending' \in 0 .. MaxTimers /\ (starts => pending' >= 1)
    BY <2>2, KillTimerType, PanelAssumption
  <2> QED
    BY <1>4, <2>1, <2>3 DEF ReleaseOther
<1> QED
  BY <1>1, <1>2, <1>3, <1>4 DEF KeyUp, OnSearchFieldChange

LEMMA TakeFocusType == TypeInv /\ TakeFocus => TypeInv'
<1> SUFFICES ASSUME TypeInv, TakeFocus PROVE TypeInv'
  OBVIOUS
<1>1. box' \in BoxType /\ box'.keyTimeout = box.keyTimeout
  BY BlurBox DEF TypeInv, TypeOK, TakeFocus
<1> QED
  BY <1>1 DEF TypeInv, TypeOK, TimerTracked, TakeFocus, KeyLost, BlankedBy

LEMMA TypeNext == TypeInv /\ [Next]_vars => TypeInv'
<1>1. TypeInv /\ UNCHANGED vars => TypeInv'
  BY DEF TypeInv, TypeOK, TimerTracked, vars, browser, history
<1> QED
  BY <1>1, TimeoutType, MouseType, KeyDownType, KeyUpType, TakeFocusType DEF Next

(* Every variable has its type: the selection never leaves the numbers of   *)
(* the sections by more than one, and no timer is stopped twice.            *)
THEOREM TypeCorrect == Spec => []TypeOK
<1>1. TypeInv => TypeOK
  BY DEF TypeInv
<1> QED
  BY <1>1, TypeInit, TypeNext, PTL DEF Spec

-----------------------------------------------------------------------------
(* What each action does to the timers. *)

LEMMA OneTimerSelects ==
  ASSUME TypeInv, OneTimer, pending' = pending,
         untracked' = (untracked \/ LeavesTracked(box)),
         box'.keyTimeout = IF Searches(box) THEN FALSE ELSE box.keyTimeout
  PROVE  OneTimer'
<1> SUFFICES ASSUME ~untracked' PROVE pending' = IF box'.keyTimeout THEN 1 ELSE 0
  BY DEF OneTimer
<1>1. ~untracked /\ ~LeavesTracked(box)
  OBVIOUS
<1>2. CASE Searches(box)
  BY <1>1, <1>2, PanelAssumption DEF LeavesTracked, TypeInv, TypeOK
<1>3. CASE ~Searches(box)
  BY <1>1, <1>3 DEF OneTimer
<1> QED
  BY <1>2, <1>3

LEMMA OneTimerNext == TypeInv /\ OneTimer /\ [Next]_vars => OneTimer'
<1> SUFFICES ASSUME TypeInv, OneTimer, [Next]_vars PROVE OneTimer'
  OBVIOUS
<1> box \in BoxType /\ pending \in 0 .. MaxTimers /\ table \in Tables
  BY DEF TypeInv, TypeOK
<1> USE PanelAssumption DEF OneTimer
<1>1. CASE SearchTimeout
  <2>1. /\ ~box'.keyTimeout /\ pending > 0 /\ pending' = pending - 1
        /\ untracked' = (untracked /\ pending' > 0)
    BY <1>1, SearchBox DEF SearchTimeout
  <2>2. CASE ~untracked
    <3>1. pending' = 0
      BY <2>1, <2>2
    <3> QED
      BY <2>1, <3>1
  <2>3. CASE untracked /\ ~(pending' > 0)
    BY <2>1, <2>3
  <2> QED
    BY <2>1, <2>2, <2>3
<1>2. CASE HideTimeout
  BY <1>2 DEF HideTimeout, history, BoxType
<1>3. CASE OnSearchSelectShow \/ OnSearchSelectHide
  BY <1>3 DEF OnSearchSelectShow, OnSearchSelectHide, history, BoxType
<1>4. ASSUME NEW to \in {"page", "field", "item", "results"}, OnSearchFieldFocus(to) PROVE OneTimer'
  <2>1. box'.keyTimeout = box.keyTimeout
    BY <1>4, ActivateBox, BlurBox DEF OnSearchFieldFocus
  <2> QED
    BY <1>4, <2>1 DEF OnSearchFieldFocus
<1>5. ASSUME NEW id \in Sections, ClickItem(id) PROVE OneTimer'
  <2>1. box'.keyTimeout = IF Searches(box) THEN FALSE ELSE box.keyTimeout
    BY <1>5, SectionsBounded, OnSelectItemBox DEF ClickItem
  <2> QED
    BY <1>5, <2>1, OneTimerSelects DEF ClickItem
<1>6. CASE ClickClose
  <2>1. box'.keyTimeout = box.keyTimeout
    BY <1>6, BlurBox, CloseResultsWindowBox DEF ClickClose
  <2> QED
    BY <1>6, <2>1 DEF ClickClose
<1>7. ASSUME NEW t \in Texts, Type(t) PROVE OneTimer'
  BY <1>7 DEF Type, Press, BoxType
<1>8. ASSUME NEW k \in Keys, PressIgnored(k) PROVE OneTimer'
  BY <1>8 DEF PressIgnored, Press
<1>9. ASSUME NEW k \in Keys, SelectionMoves(k) PROVE OneTimer'
  <2>1. CASE Moved(k) = box.index
    BY <1>9, <2>1 DEF SelectionMoves, Press
  <2>2. CASE Moved(k) # box.index
    <3>1. box' = OnSelectItem(box, Moved(k)) /\ Moved(k) \in 0 .. SectionCount
      BY <1>9, <2>2, MovedType DEF SelectionMoves
    <3>2. box'.keyTimeout = IF Searches(box) THEN FALSE ELSE box.keyTimeout
      BY <3>1, OnSelectItemBox
    <3> QED
      BY <1>9, <2>2, <3>2, OneTimerSelects DEF SelectionMoves, Press
  <2> QED
    BY <2>1, <2>2
<1>10. ASSUME NEW k \in Keys, SelectionEnds(k) PROVE OneTimer'
  <2> DEFINE c == [OnSelectItem(box, box.index) EXCEPT !.selecting = FALSE]
  <2>1. /\ OnSelectItem(box, box.index) \in BoxType
        /\ OnSelectItem(box, box.index).keyTimeout = IF Searches(box) THEN FALSE ELSE box.keyTimeout
    BY OnSelectItemBox DEF BoxType
  <2>2. c \in BoxType /\ c.keyTimeout = IF Searches(box) THEN FALSE ELSE box.keyTimeout
    BY <2>1 DEF BoxType
  <2>3. box'.keyTimeout = IF Searches(box) THEN FALSE ELSE box.keyTimeout
    BY <1>10, <2>2, ActivateBox DEF SelectionEnds
  <2> QED
    BY <1>10, <2>3, OneTimerSelects DEF SelectionEnds, Press
<1>11. CASE EscapeResults
  <2>1. box'.keyTimeout = box.keyTimeout
    BY <1>11, CloseResultsWindowBox, ActivateBox DEF EscapeResults
  <2> QED
    BY <1>11, <2>1 DEF EscapeResults, Press
<1>12. CASE UpToField
  <2>1. box'.keyTimeout = box.keyTimeout
    BY <1>12, ActivateBox DEF UpToField
  <2> QED
    BY <1>12, <2>1 DEF UpToField, Press
<1>13. CASE ReleaseElsewhere
  BY <1>13 DEF ReleaseElsewhere, history
<1>14. CASE ReleaseShift
  <2> DEFINE b == [box EXCEPT !.keyTimeout = FALSE, !.selecting = TRUE]
  <2>1. b \in BoxType /\ ~b.keyTimeout
    BY DEF BoxType
  <2>2. ~box'.keyTimeout
    BY <1>14, <2>1, BlurBox DEF ReleaseShift
  <2>3. untracked' = untracked /\ pending' = KillTimer(box, pending)
    BY <1>14 DEF ReleaseShift
  <2> QED
    BY <2>2, <2>3 DEF KillTimer, BoxType
<1>15. CASE ReleaseEscape
  <2>1. CloseResultsWindow(Blur(box)) \in BoxType
    BY BlurBox, CloseResultsWindowBox
  <2>2. ~box'.keyTimeout /\ untracked' = untracked /\ pending' = KillTimer(box, pending)
    BY <1>15, <2>1 DEF ReleaseEscape, BoxType
  <2> QED
    BY <2>2 DEF KillTimer, BoxType
<1>16. CASE ReleaseOther
  <2> DEFINE starts == FieldChanged(box) /\ Squeezed[box.field] # Empty
  <2>1. untracked' = untracked
    BY <1>16 DEF ReleaseOther
  <2>2. CASE starts
    <3>1. box'.keyTimeout /\ pending' = KillTimer(box, pending) + 1
      BY <1>16, <2>2 DEF ReleaseOther, HideResults, BoxType, FieldChanged
    <3> QED
      BY <2>1, <3>1 DEF KillTimer, BoxType
  <2>3. CASE ~starts
    <3>1. ~box'.keyTimeout
      BY <1>16, <2>3 DEF ReleaseOther, HideResults, BoxType, FieldChanged
    <3>2. pending' = KillTimer(box, pending)
      BY <1>16, <2>3, KillTimerType DEF ReleaseOther
    <3> QED
      BY <2>1, <3>1, <3>2 DEF KillTimer, BoxType
  <2> QED
    BY <2>2, <2>3
<1>17. CASE TakeFocus
  <2>1. box'.keyTimeout = box.keyTimeout
    BY <1>17, BlurBox DEF TakeFocus
  <2> QED
    BY <1>17, <2>1 DEF TakeFocus
<1>18. ASSUME NEW k \in Keys, SelectionThrows(k) PROVE OneTimer'
  <2>1. box'.keyTimeout = FALSE /\ Searches(box)
    BY <1>18, ThrownBox DEF SelectionThrows, Throws
  <2> QED
    BY <1>18, <2>1, OneTimerSelects DEF SelectionThrows, Press
<1>19. CASE UNCHANGED vars
  BY <1>19 DEF vars, history
<1> QED
  BY <1>1, <1>2, <1>3, <1>4, <1>5, <1>6, <1>7, <1>8, <1>9, <1>10, <1>11, <1>12, <1>13, <1>14,
     <1>15, <1>16, <1>17, <1>18, <1>19
  DEF Next, Mouse, KeyDown, KeyUp, OnSearchSelectKey, OnSearchFieldChange

(* keyTimeout stands for the one pending timeout: in no order of keys,      *)
(* clicks and timeouts does a key that stops the timer leave another one    *)
(* behind; except after a selection that searched while it was running,     *)
(* until all timeouts have run out.                                         *)
THEOREM TimerIsUnique == Spec => []OneTimer
<1>1. Init => OneTimer
  BY DEF Init, OneTimer
<1> QED
  BY <1>1, TypeInit, TypeNext, OneTimerNext, PTL DEF Spec

-----------------------------------------------------------------------------
LEMMA VanishesNext == TypeInv /\ NothingVanishes /\ [Next]_vars => NothingVanishes'
<1> SUFFICES ASSUME TypeInv, NothingVanishes, [Next]_vars PROVE NothingVanishes'
  OBVIOUS
<1> box \in BoxType /\ table \in Tables
  BY DEF TypeInv, TypeOK
<1> USE DEF NothingVanishes
<1>1. CASE SearchTimeout
  BY <1>1, SearchBox DEF SearchTimeout, browser
<1>2. CASE HideTimeout
  BY <1>2 DEF HideTimeout, BoxType
<1>3. CASE OnSearchSelectShow \/ OnSearchSelectHide
  BY <1>3 DEF OnSearchSelectShow, OnSearchSelectHide, StopHide, BoxType
<1>4. ASSUME NEW to \in {"page", "field", "item", "results"}, OnSearchFieldFocus(to)
      PROVE  NothingVanishes'
  <2>1. box'.popup = box.popup /\ box'.selecting = box.selecting
    BY <1>4, ActivateBox, BlurBox DEF OnSearchFieldFocus
  <2> QED
    BY <1>4, <2>1 DEF OnSearchFieldFocus
<1>5. ASSUME NEW id \in Sections, ClickItem(id) PROVE NothingVanishes'
  BY <1>5, SectionsBounded, OnSelectItemBox DEF ClickItem, browser
<1>6. CASE ClickClose
  BY <1>6 DEF ClickClose
<1>7. ASSUME NEW t \in Texts, Type(t) PROVE NothingVanishes'
  BY <1>7 DEF Type, Press
<1>8. ASSUME NEW k \in Keys, PressIgnored(k) PROVE NothingVanishes'
  BY <1>8 DEF PressIgnored, Press
<1>9. ASSUME NEW k \in Keys, SelectionMoves(k) PROVE NothingVanishes'
  <2>1. box'.selecting = box.selecting
    <3>1. Moved(k) \in 0 .. SectionCount
      BY MovedType
    <3>2. OnSelectItem(box, Moved(k)).selecting = box.selecting
      BY <3>1, OnSelectItemBox
    <3>3. box' = box \/ box' = OnSelectItem(box, Moved(k))
      BY <1>9 DEF SelectionMoves
    <3> QED
      BY <3>2, <3>3
  <2> QED
    BY <1>9, <2>1 DEF SelectionMoves, Press
<1>10. ASSUME NEW k \in Keys, SelectionEnds(k) PROVE NothingVanishes'
  BY <1>10 DEF SelectionEnds, Press
<1>11. CASE EscapeResults \/ UpToField
  <2>1. focus' = "field" /\ hide' = hide /\ mouse' = mouse
    BY <1>11 DEF EscapeResults, UpToField, Press
  <2> QED
    BY <2>1
<1>12. CASE ReleaseElsewhere
  BY <1>12 DEF ReleaseElsewhere
<1>13. CASE ReleaseShift
  <2> DEFINE b == [box EXCEPT !.keyTimeout = FALSE, !.selecting = TRUE]
  <2>1. b \in BoxType /\ b.selecting
    BY DEF BoxType
  <2>2. Blur(b).selecting
    BY <2>1, BlurBox
  <2>3. box' \in {b, Blur(b)} /\ focus' \in {"item", "field"} /\ hide' = FALSE
    BY <1>13 DEF ReleaseShift, StopHide
  <2> HIDE DEF b
  <2> QED
    BY <2>1, <2>2, <2>3
<1>14. CASE ReleaseEscape
  BY <1>14 DEF ReleaseEscape
<1>15. CASE ReleaseOther
  BY <1>15 DEF ReleaseOther
<1>16. CASE TakeFocus
  BY <1>16, BlurBox DEF TakeFocus
<1>17. ASSUME NEW k \in Keys, SelectionThrows(k) PROVE NothingVanishes'
  <2>1. box'.selecting = box.selecting
    BY <1>17, ThrownBox
  <2> QED
    BY <1>17, <2>1 DEF SelectionThrows, Press
<1>18. CASE UNCHANGED vars
  BY <1>18 DEF vars, browser
<1> QED
  BY <1>1, <1>2, <1>3, <1>4, <1>5, <1>6, <1>7, <1>8, <1>9, <1>10, <1>11, <1>12, <1>13, <1>14,
     <1>15, <1>16, <1>17, <1>18
  DEF Next, Mouse, KeyDown, KeyUp, OnSearchSelectKey, OnSearchFieldChange

(* The selection window is never closed under the mouse, and what has the   *)
(* focus is displayed, whichever timeout or key comes between, and also     *)
(* when the search of a selection throws.                                   *)
THEOREM FocusStaysVisible == Spec => []NothingVanishes
<1>1. Init => NothingVanishes
  BY DEF Init, NothingVanishes
<1> QED
  BY <1>1, TypeInit, TypeNext, VanishesNext, PTL DEF Spec

-----------------------------------------------------------------------------
(* Escape has come up and no key has gone down since. *)
EscapeInv == EscapeIsFinal /\ (escaped => held = NoKey)

LEMMA EscapeNext == TypeInv /\ OneTimer /\ EscapeInv /\ [Next]_vars => EscapeInv'
<1> SUFFICES ASSUME TypeInv, OneTimer, EscapeInv, [Next]_vars PROVE EscapeInv'
  OBVIOUS
<1> box \in BoxType /\ table \in Tables /\ pending \in 0 .. MaxTimers
  BY DEF TypeInv, TypeOK
<1> USE DEF EscapeInv, EscapeIsFinal
<1>1. CASE SearchTimeout
  BY <1>1 DEF SearchTimeout, browser
<1>2. CASE HideTimeout
  BY <1>2 DEF HideTimeout, history, BoxType
<1>3. CASE OnSearchSelectShow \/ OnSearchSelectHide
  BY <1>3 DEF OnSearchSelectShow, OnSearchSelectHide, history, BoxType
<1>4. ASSUME NEW to \in {"page", "field", "item", "results"}, OnSearchFieldFocus(to)
      PROVE  EscapeInv'
  BY <1>4 DEF OnSearchFieldFocus
<1>5. ASSUME NEW id \in Sections, ClickItem(id) PROVE EscapeInv'
  BY <1>5 DEF ClickItem
<1>6. CASE ClickClose
  BY <1>6 DEF ClickClose
<1>7. ASSUME NEW k \in Keys, Press(k) PROVE EscapeInv'
  BY <1>7 DEF Press
<1>8. CASE KeyDown
  BY <1>7, <1>8 DEF KeyDown, Type, PressIgnored, OnSearchSelectKey, SelectionMoves, SelectionEnds,
                    SelectionThrows, EscapeResults, UpToField, Keys
<1>9. CASE ReleaseElsewhere
  BY <1>9 DEF ReleaseElsewhere, Release, history
<1>10. CASE ReleaseShift
  BY <1>10 DEF ReleaseShift, Release
<1>11. CASE ReleaseEscape
  <2>1. CloseResultsWindow(Blur(box)) \in BoxType /\ ~CloseResultsWindow(Blur(box)).popup
    BY BlurBox, CloseResultsWindowBox
  <2>2. ~box'.popup /\ held' = NoKey /\ escaped' = ~untracked
    BY <1>11, <2>1 DEF ReleaseEscape, Release, BoxType
  <2>3. ~untracked => pending' = 0
    BY <1>11, PanelAssumption DEF ReleaseEscape, KillTimer, OneTimer
  <2> QED
    BY <2>2, <2>3
<1>12. CASE ReleaseOther
  BY <1>12 DEF ReleaseOther, Release
<1>13. CASE TakeFocus
  BY <1>13 DEF TakeFocus
<1>14. CASE UNCHANGED vars
  BY <1>14 DEF vars, browser, history
<1> QED
  BY <1>1, <1>2, <1>3, <1>4, <1>5, <1>6, <1>8, <1>9, <1>10, <1>11, <1>12, <1>13, <1>14
  DEF Next, Mouse, KeyUp, OnSearchFieldChange

(* After an Escape in the field no timeout is left that would open the      *)
(* results again, provided that none was untracked when it came up.         *)
THEOREM EscapeStaysFinal == Spec => []EscapeIsFinal
<1>1. Init => EscapeInv /\ OneTimer
  BY DEF Init, EscapeInv, EscapeIsFinal, OneTimer
<1>2. EscapeInv => EscapeIsFinal
  BY DEF EscapeInv
<1> QED
  BY <1>1, <1>2, TypeInit, TypeNext, OneTimerNext, EscapeNext, PTL DEF Spec

-----------------------------------------------------------------------------
(* What the popup shows.                                                    *)

(* A field that is not active holds the label, and results that are hidden  *)
(* are forgotten.                                                           *)
Labelled(b) == (~b.active => b.field = Label) /\ (b.last # Empty => b.popup)

(* Results are of a text that was not empty. *)
Shown(b) == b.popup => b.last # Empty

(* The popup shows what the field says. *)
Settled(b) ==
  IF Blank(b) THEN ~b.popup ELSE b.popup /\ Squeezed[b.last] = Squeezed[b.field]

(* The user has paused, or presses keys elsewhere. *)
Paused == pending = 0 /\ ~blanked /\ ~skipped /\ ~(held = "char" /\ focus = "field")

PausedInv ==
  /\ Labelled(box)
  /\ focus = "field" => box.active
  /\ blanked => box.popup
  /\ ~blanked => Shown(box)
  /\ Paused => Settled(box)

LEMMA ActivateShows ==
  ASSUME NEW b \in BoxType, NEW isActive \in BOOLEAN, Labelled(b)
  PROVE  /\ Labelled(Activate(b, isActive))
         /\ Shown(b) => Shown(Activate(b, isActive))
         /\ isActive => Activate(b, isActive).active
         /\ Settled(b) => \/ Settled(Activate(b, isActive))
                          \/ b.popup /\ b.field = Label /\ Activate(b, isActive).field = Empty
  BY TextAssumption DEF Activate, BoxType, Labelled, Shown, Settled, Blank

LEMMA CloseShows ==
  ASSUME NEW b \in BoxType
  PROVE  /\ Labelled(CloseResultsWindow(b))
         /\ Shown(CloseResultsWindow(b))
         /\ Settled(CloseResultsWindow(b))
  BY TextAssumption DEF CloseResultsWindow, HideResults, Activate, BoxType, Labelled, Shown, Settled, Blank

LEMMA SearchShows ==
  ASSUME NEW b \in BoxType, Labelled(b)
  PROVE  /\ Labelled(Search(b))
         /\ b.index \in Sections /\ Squeezed[b.field] # Empty => Shown(Search(b))
         /\ b.index \in Sections /\ ~Blank(b) => Settled(Search(b))
         /\ b.index \in Sections => Search(b).popup
         /\ b.index \notin Sections => /\ Search(b).popup = b.popup
                                       /\ Shown(b) => Shown(Search(b))
  BY TextAssumption DEF Search, BoxType, Labelled, Shown, Settled, Blank

LEMMA OnSelectItemShows ==
  ASSUME NEW b \in BoxType, NEW id \in 0 .. SectionCount, Labelled(b)
  PROVE  /\ Labelled(OnSelectItem(b, id))
         /\ Searches(b) /\ id \in Sections =>
              Shown(OnSelectItem(b, id)) /\ Settled(OnSelectItem(b, id))
         /\ ~Searches(b) \/ id \notin Sections =>
              /\ OnSelectItem(b, id).popup = b.popup
              /\ Shown(b) => Shown(OnSelectItem(b, id))
         /\ ~Searches(b) /\ Settled(b) => Settled(OnSelectItem(b, id))
<1> DEFINE c == [b EXCEPT !.index = id]
<1>1. /\ c \in BoxType /\ c.index = id
      /\ c.field = b.field /\ c.active = b.active /\ c.popup = b.popup /\ c.last = b.last
  BY DEF BoxType
<1>2. OnSelectItem(b, id) = IF Searches(b) THEN Search(c) ELSE c
  BY <1>1 DEF OnSelectItem, Searches
<1>3. /\ Labelled(c)
      /\ Shown(b) => Shown(c)
      /\ Settled(b) => Settled(c)
  BY <1>1 DEF Labelled, Shown, Settled, Blank
<1>4. Searches(b) => ~Blank(c) /\ Squeezed[c.field] # Empty
  BY <1>1 DEF Searches, Blank
<1> HIDE DEF c
<1>5. CASE Searches(b)
  BY <1>1, <1>2, <1>3, <1>4, <1>5, SearchShows
<1>6. CASE ~Searches(b)
  BY <1>1, <1>2, <1>3, <1>6
<1> QED
  BY <1>5, <1>6

(* The comparison with the text searched for last decides rightly. *)
LEMMA UnchangedIsSettled ==
  ASSUME NEW b \in BoxType, Labelled(b), Shown(b), b.active, ~FieldChanged(b)
  PROVE  Settled(b)
  BY TextAssumption DEF BoxType, Labelled, Shown, Settled, Blank, FieldChanged

(* When the focus moves, results that are not noted as blanked are those of *)
(* the field as before.                                                     *)
LEMMA MovedFocus ==
  ASSUME TypeInv, PausedInv,
         NEW b \in BoxType, b.field = box.field, b.last = box.last,
         b.active = box.active, b.popup = box.popup,
         box' = b \/ box' = Activate(b, TRUE) \/ box' = Activate(b, FALSE),
         blanked' = BlankedBy(blanked, box')
  PROVE  /\ Labelled(box')
         /\ blanked' => box'.popup
         /\ ~blanked' => ~blanked /\ Shown(box')
         /\ ~blanked' /\ Settled(box) => Settled(box')
         /\ box' = Activate(b, TRUE) => box'.active
<1>1. Labelled(b) /\ (Shown(box) => Shown(b)) /\ (Settled(box) => Settled(b))
  BY DEF PausedInv, Labelled, Shown, Settled, Blank
<1>2. box'.popup = box.popup
  BY ActivateBox
<1>3. /\ Labelled(box') /\ (Shown(b) => Shown(box'))
      /\ Settled(b) => \/ Settled(box')
                       \/ box.popup /\ box.field = Label /\ box'.field = Empty
      /\ box' = Activate(b, TRUE) => box'.active
  BY <1>1, ActivateShows
<1>4. ~blanked' => ~blanked /\ ~(box.popup /\ box.field = Label /\ box'.field = Empty)
  BY <1>2 DEF BlankedBy, PausedInv
<1> QED
  BY <1>1, <1>2, <1>3, <1>4 DEF BlankedBy, PausedInv

LEMMA SearchTimeoutPaused ==
  ASSUME TypeInv, PausedInv, SearchTimeout PROVE PausedInv'
<1>1. box \in BoxType
  BY DEF TypeInv, TypeOK
<1>2. /\ box' = Search(box) /\ focus' = focus
      /\ skipped' <=> box.index \notin Sections
      /\ blanked' <=> IF box.index \in Sections THEN Blank(box) ELSE blanked
  BY DEF SearchTimeout, browser
<1>3. box'.active = box.active
  BY <1>1, <1>2, SearchBox
<1>4. /\ Labelled(box')
      /\ blanked' => box'.popup
      /\ ~blanked' => Shown(box')
      /\ ~skipped' /\ ~blanked' => Settled(box')
  BY <1>1, <1>2, SearchShows DEF PausedInv, Blank
<1> QED
  BY <1>2, <1>3, <1>4 DEF PausedInv, Paused, Labelled, Shown, Settled, Blank

(* A selection, whichever way it comes about and with the focus elsewhere. *)
LEMMA SelectPaused ==
  ASSUME TypeInv, PausedInv, focus # "field", NEW id \in 0 .. SectionCount
  PROVE  LET b == OnSelectItem(box, id)
         IN /\ Labelled(b)
            /\ BlankedAfterSelection(id) => b.popup
            /\ ~BlankedAfterSelection(id) => Shown(b)
            /\ pending = 0 /\ ~SkippedBySelection(id) /\ ~BlankedAfterSelection(id) => Settled(b)
<1> box \in BoxType
  BY DEF TypeInv, TypeOK
<1> DEFINE b == OnSelectItem(box, id)
<1>1. /\ Labelled(b)
      /\ Searches(box) /\ id \in Sections => Shown(b) /\ Settled(b)
      /\ ~Searches(box) \/ id \notin Sections =>
           b.popup = box.popup /\ (Shown(box) => Shown(b))
      /\ ~Searches(box) /\ Settled(box) => Settled(b)
  BY OnSelectItemShows DEF PausedInv
<1> HIDE DEF b
<1>2. BlankedAfterSelection(id) => blanked /\ (~Searches(box) \/ id \notin Sections)
  BY DEF BlankedAfterSelection, Throws
<1>3. ~BlankedAfterSelection(id) => ~blanked \/ (Searches(box) /\ id \in Sections)
  BY DEF BlankedAfterSelection, Throws
<1>4. ~SkippedBySelection(id) => IF Searches(box) THEN id \in Sections ELSE ~skipped
  BY DEF SkippedBySelection, Throws
<1>5. BlankedAfterSelection(id) => b.popup
  BY <1>1, <1>2 DEF PausedInv
<1>6. ~BlankedAfterSelection(id) => Shown(b)
  BY <1>1, <1>3 DEF PausedInv
<1>7. pending = 0 /\ ~SkippedBySelection(id) /\ ~BlankedAfterSelection(id) => Settled(b)
  BY <1>1, <1>3, <1>4 DEF PausedInv, Paused
<1> QED
  BY <1>1, <1>5, <1>6, <1>7 DEF b

LEMMA MousePaused ==
  ASSUME TypeInv, PausedInv, Mouse PROVE PausedInv'
<1> box \in BoxType /\ table \in Tables
  BY DEF TypeInv, TypeOK
<1>1. CASE OnSearchSelectShow \/ OnSearchSelectHide
  <2>1. /\ UNCHANGED <<pending, focus, held, history>>
        /\ \A f \in {"field", "last", "active", "popup"} : box'[f] = box[f]
    BY <1>1 DEF OnSearchSelectShow, OnSearchSelectHide, BoxType
  <2> QED
    BY <2>1 DEF PausedInv, Paused, Labelled, Shown, Settled, Blank, history
<1>2. ASSUME NEW to \in {"page", "field", "item", "results"}, OnSearchFieldFocus(to)
      PROVE  PausedInv'
  <2>1. /\ focus' = to /\ to # focus /\ UNCHANGED <<pending, held>>
        /\ box' = box \/ box' = Activate(box, TRUE) \/ box' = Activate(box, FALSE)
        /\ to = "field" => box' = Activate(box, TRUE)
        /\ blanked' = BlankedBy(blanked, box')
        /\ ~skipped' => ~skipped /\ ~KeyLost(to)
    BY <1>2 DEF OnSearchFieldFocus, Blur
  <2>2. /\ Labelled(box')
        /\ blanked' => box'.popup
        /\ ~blanked' => ~blanked /\ Shown(box')
        /\ ~blanked' /\ Settled(box) => Settled(box')
        /\ to = "field" => box'.active
    BY <2>1, MovedFocus
  <2>3. Paused' => Paused
    BY <2>1, <2>2 DEF Paused, KeyLost
  <2>4. Paused' => Settled(box')
    BY <2>2, <2>3 DEF PausedInv, Paused
  <2> QED
    BY <2>1, <2>2, <2>4 DEF PausedInv, Labelled, Shown, Settled, Blank
<1>3. ASSUME NEW id \in Sections, ClickItem(id) PROVE PausedInv'
  <2>1. /\ focus = "item" /\ id \in 0 .. SectionCount /\ box' = OnSelectItem(box, id)
        /\ UNCHANGED <<pending, focus>>
        /\ skipped' = SkippedBySelection(id) /\ blanked' = BlankedAfterSelection(id)
    BY <1>3, SectionsBounded DEF ClickItem, browser
  <2>2. /\ Labelled(box') /\ (blanked' => box'.popup) /\ (~blanked' => Shown(box'))
        /\ Paused' => Settled(box')
    BY <2>1, SelectPaused DEF Paused
  <2> QED
    BY <2>1, <2>2 DEF PausedInv, Labelled, Shown, Settled, Blank
<1>4. CASE ClickClose
  <2>1. focus' = "page" /\ box' = CloseResultsWindow(Blur(box)) /\ blanked' = FALSE
    BY <1>4 DEF ClickClose
  <2>2. Labelled(box') /\ Shown(box') /\ Settled(box')
    BY <2>1, BlurBox, CloseShows
  <2> QED
    BY <2>1, <2>2 DEF PausedInv, Labelled, Shown, Settled, Blank
<1> QED
  BY <1>1, <1>2, <1>3, <1>4 DEF Mouse

LEMMA KeyDownPaused ==
  ASSUME TypeInv, PausedInv, KeyDown PROVE PausedInv'
<1> box \in BoxType /\ table \in Tables
  BY DEF TypeInv, TypeOK
<1>1. ASSUME NEW t \in Texts, Type(t) PROVE PausedInv'
  <2>1. /\ focus = "field" /\ focus' = "field" /\ held' = "char"
        /\ UNCHANGED <<skipped, blanked>>
    BY <1>1 DEF Type, Press
  <2>2. \A f \in {"last", "active", "popup"} : box'[f] = box[f]
    BY <1>1 DEF Type, BoxType
  <2> QED
    BY <2>1, <2>2 DEF PausedInv, Paused, Labelled, Shown
<1>2. ASSUME NEW k \in Keys, PressIgnored(k) PROVE PausedInv'
  <2>1. /\ held \in {NoKey, k} /\ held' = k
        /\ UNCHANGED <<box, pending, focus, skipped, blanked>>
        /\ focus = "field" => k # "char"
    BY <1>2 DEF PressIgnored, Press
  <2>2. Paused' => Paused
    BY <2>1 DEF Paused, NoKey
  <2> QED
    BY <2>1, <2>2 DEF PausedInv, Labelled, Shown, Settled, Blank
<1>3. ASSUME NEW k \in Keys, SelectionMoves(k) PROVE PausedInv'
  <2>1. focus = "item" /\ UNCHANGED <<pending, focus>>
    BY <1>3 DEF SelectionMoves, Press
  <2>2. CASE Moved(k) = box.index
    <3>1. UNCHANGED <<box, skipped, blanked>>
      BY <1>3, <2>2 DEF SelectionMoves
    <3> QED
      BY <2>1, <3>1 DEF PausedInv, Paused, Labelled, Shown, Settled, Blank
  <2>3. CASE Moved(k) # box.index
    <3>1. /\ box' = OnSelectItem(box, Moved(k)) /\ Moved(k) \in 0 .. SectionCount
          /\ skipped' = SkippedBySelection(Moved(k))
          /\ blanked' = BlankedAfterSelection(Moved(k))
      BY <1>3, <2>3, MovedType DEF SelectionMoves
    <3>2. /\ Labelled(box') /\ (blanked' => box'.popup) /\ (~blanked' => Shown(box'))
          /\ Paused' => Settled(box')
      BY <2>1, <3>1, SelectPaused DEF Paused
    <3> QED
      BY <2>1, <3>2 DEF PausedInv, Labelled, Shown, Settled, Blank
  <2> QED
    BY <2>2, <2>3
<1>4. ASSUME NEW k \in Keys, SelectionEnds(k) PROVE PausedInv'
  <2> DEFINE a == OnSelectItem(box, box.index)
             c == [a EXCEPT !.selecting = FALSE]
  <2>1. /\ focus = "item" /\ focus' = "field" /\ pending' = pending
        /\ box' = Activate(c, TRUE)
        /\ skipped' = SkippedBySelection(box.index)
        /\ blanked' = BlankedBy(BlankedAfterSelection(box.index), box')
    BY <1>4 DEF SelectionEnds, Press
  <2>2. box.index \in 0 .. SectionCount
    BY DEF BoxType
  <2>3. a \in BoxType /\ a.field = box.field
    BY <2>2, OnSelectItemBox
  <2>4. /\ Labelled(a)
        /\ BlankedAfterSelection(box.index) => a.popup
        /\ ~BlankedAfterSelection(box.index) => Shown(a)
        /\ pending = 0 /\ ~SkippedBySelection(box.index) /\ ~BlankedAfterSelection(box.index)
             => Settled(a)
    BY <2>1, <2>2, SelectPaused
  <2>5. /\ c \in BoxType
        /\ c.field = a.field /\ c.last = a.last /\ c.active = a.active /\ c.popup = a.popup
    BY <2>3 DEF BoxType
  <2> HIDE DEF a, c
  <2>6. /\ Labelled(c) /\ (Shown(a) => Shown(c)) /\ (Settled(a) => Settled(c))
    BY <2>4, <2>5 DEF Labelled, Shown, Settled, Blank
  <2>7. /\ Labelled(box') /\ box'.active /\ box'.popup = c.popup
        /\ Shown(c) => Shown(box')
        /\ Settled(c) => \/ Settled(box')
                         \/ c.popup /\ c.field = Label /\ box'.field = Empty
    BY <2>1, <2>5, <2>6, ActivateShows, ActivateBox
  <2>8. ~blanked' => /\ ~BlankedAfterSelection(box.index)
                     /\ ~(c.popup /\ c.field = Label /\ box'.field = Empty)
    BY <2>1, <2>3, <2>4, <2>5, <2>7 DEF BlankedBy
  <2>9. (blanked' => box'.popup) /\ (~blanked' => Shown(box'))
    BY <2>1, <2>4, <2>6, <2>7, <2>8 DEF BlankedBy
  <2>10. Paused' => Settled(box')
    BY <2>1, <2>4, <2>6, <2>7, <2>8 DEF Paused
  <2> QED
    BY <2>7, <2>9, <2>10 DEF PausedInv, Labelled, Shown, Settled, Blank
<1>5. ASSUME NEW k \in Keys, SelectionThrows(k) PROVE PausedInv'
  <2> DEFINE thrown == OnSelectItem(box, box.index)
  <2>1. /\ focus = "item" /\ focus' = "item"
        /\ Searches(box) /\ box.index \notin Sections /\ box.index \in 0 .. SectionCount
    BY <1>5 DEF SelectionThrows, Press, Throws, BoxType
  <2>2. /\ thrown \in BoxType /\ thrown.field = box.field /\ thrown.active = box.active
        /\ Labelled(thrown) /\ thrown.popup = box.popup /\ (Shown(box) => Shown(thrown))
    BY <2>1, OnSelectItemBox, OnSelectItemShows DEF PausedInv
  <2> HIDE DEF thrown
  <2>3. Searches(thrown)
    BY <2>1, <2>2 DEF Searches
  <2>4. CASE k = "enter"
    <3>1. PICK id \in Sections : box' = OnSelectItem(thrown, id)
      BY <1>5, <2>4 DEF SelectionThrows, thrown
    <3>2. blanked' = FALSE
      BY <1>5, <2>4 DEF SelectionThrows
    <3>3. Labelled(box') /\ Shown(box') /\ Settled(box')
      BY <2>2, <2>3, <3>1, SectionsBounded, OnSelectItemShows
    <3> QED
      BY <2>1, <3>2, <3>3 DEF PausedInv, Labelled, Shown, Settled, Blank
  <2>5. CASE k # "enter"
    <3>1. box' = thrown /\ skipped' = TRUE /\ blanked' = blanked
      BY <1>5, <2>5 DEF SelectionThrows, thrown
    <3> QED
      BY <2>1, <2>2, <3>1 DEF PausedInv, Paused, Labelled, Shown
  <2> QED
    BY <2>4, <2>5
<1>6. CASE EscapeResults
  <2>1. /\ box' = Activate(CloseResultsWindow(box), TRUE) /\ blanked' = FALSE
        /\ CloseResultsWindow(box) \in BoxType /\ ~CloseResultsWindow(box).popup
    BY <1>6, CloseResultsWindowBox DEF EscapeResults
  <2>2. Labelled(box') /\ Shown(box') /\ Settled(box') /\ box'.active
    BY <2>1, CloseShows, ActivateShows
  <2> QED
    BY <2>1, <2>2 DEF PausedInv, Labelled, Shown, Settled, Blank
<1>7. CASE UpToField
  <2>1. /\ focus = "results" /\ focus' = "field" /\ UNCHANGED <<pending, skipped>>
        /\ box' = Activate(box, TRUE) /\ blanked' = BlankedBy(blanked, box')
    BY <1>7 DEF UpToField, Press
  <2>2. /\ Labelled(box') /\ box'.active
        /\ blanked' => box'.popup
        /\ ~blanked' => ~blanked /\ Shown(box')
        /\ ~blanked' /\ Settled(box) => Settled(box')
    BY <2>1, MovedFocus
  <2>3. Paused' => Settled(box')
    BY <2>1, <2>2 DEF PausedInv, Paused
  <2> QED
    BY <2>2, <2>3 DEF PausedInv, Labelled, Shown, Settled, Blank
<1> QED
  BY <1>1, <1>2, <1>3, <1>4, <1>5, <1>6, <1>7 DEF KeyDown, OnSearchSelectKey

LEMMA KeyUpPaused ==
  ASSUME TypeInv, PausedInv, KeyUp PROVE PausedInv'
<1> box \in BoxType /\ pending \in Nat
  BY PanelAssumption DEF TypeInv, TypeOK
<1>1. KillTimer(box, pending) \in 0 .. pending
  BY KillTimerType
<1>2. CASE ReleaseElsewhere
  <2>1. focus # "field" /\ UNCHANGED <<box, pending, focus, skipped, blanked>>
    BY <1>2 DEF ReleaseElsewhere, Release, history
  <2> QED
    BY <2>1 DEF PausedInv, Paused, Labelled, Shown, Settled, Blank
<1>3. CASE ReleaseShift
  <2> DEFINE b == [box EXCEPT !.keyTimeout = FALSE, !.selecting = TRUE]
  <2>1. /\ b \in BoxType
        /\ b.field = box.field /\ b.last = box.last /\ b.active = box.active /\ b.popup = box.popup
    BY DEF BoxType
  <2>2. /\ focus = "field"
        /\ box' = b \/ box' = Activate(b, FALSE)
        /\ focus' = "field" => box' = b
        /\ blanked' = BlankedBy(blanked, box')
        /\ skipped' = FieldChanged(box)
    BY <1>3 DEF ReleaseShift, Blur
  <2> HIDE DEF b
  <2>3. /\ Labelled(box') /\ (blanked' => box'.popup)
        /\ ~blanked' => ~blanked /\ Shown(box')
        /\ ~blanked' /\ Settled(box) => Settled(box')
    BY <2>1, <2>2, MovedFocus
  <2>4. ~skipped' /\ ~blanked => Settled(box)
    BY <2>2, UnchangedIsSettled DEF PausedInv
  <2>5. focus' = "field" => box'.active
    BY <2>1, <2>2 DEF PausedInv
  <2>6. Paused' => Settled(box')
    BY <2>3, <2>4 DEF Paused
  <2> QED
    BY <2>3, <2>5, <2>6 DEF PausedInv, Labelled, Shown, Settled, Blank
<1>4. CASE ReleaseEscape
  <2> DEFINE c == CloseResultsWindow(Blur(box))
  <2>1. c \in BoxType /\ Labelled(c) /\ Shown(c) /\ Settled(c)
    BY BlurBox, CloseResultsWindowBox, CloseShows
  <2> HIDE DEF c
  <2>2. focus' = "page" /\ box' = [c EXCEPT !.keyTimeout = FALSE] /\ blanked' = FALSE
    BY <1>4 DEF ReleaseEscape, c
  <2>3. box'.field = c.field /\ box'.last = c.last /\ box'.active = c.active /\ box'.popup = c.popup
    BY <2>1, <2>2 DEF BoxType
  <2>4. Labelled(box') /\ Shown(box') /\ Settled(box')
    BY <2>1, <2>3 DEF Labelled, Shown, Settled, Blank
  <2> QED
    BY <2>2, <2>4 DEF PausedInv, Labelled, Shown, Settled, Blank
<1>5. CASE ReleaseOther
  <2> DEFINE starts == FieldChanged(box) /\ Squeezed[box.field] # Empty
             empties == FieldChanged(box) /\ Squeezed[box.field] = Empty
  <2>1. /\ focus = "field" /\ focus' = "field" /\ box.active
        /\ blanked' <=> blanked /\ ~empties
    BY <1>5 DEF ReleaseOther, PausedInv
  <2>2. box'.field = box.field /\ box'.active = box.active
    BY <1>5 DEF ReleaseOther, HideResults, BoxType
  <2>3. CASE starts
    <3>1. pending' = KillTimer(box, pending) + 1
      BY <1>5, <2>3 DEF ReleaseOther
    <3>2. box'.last = box.last /\ box'.popup = box.popup
      BY <1>5, <2>3 DEF ReleaseOther, BoxType
    <3>3. pending' # 0
      BY <1>1, <3>1
    <3> QED
      BY <2>1, <2>2, <2>3, <3>2, <3>3 DEF PausedInv, Paused, Labelled, Shown
  <2>4. CASE empties
    <3>1. box'.last = Empty /\ ~box'.popup
      BY <1>5, <2>4 DEF ReleaseOther, HideResults, BoxType
    <3> QED
      BY <2>1, <2>2, <2>4, <3>1 DEF PausedInv, Labelled, Shown, Settled, Blank
  <2>5. CASE ~FieldChanged(box)
    <3>1. box'.last = box.last /\ box'.popup = box.popup
      BY <1>5, <2>5 DEF ReleaseOther, BoxType
    <3>2. ~blanked => Settled(box)
      BY <2>1, <2>5, UnchangedIsSettled DEF PausedInv
    <3> QED
      BY <2>1, <2>2, <2>5, <3>1, <3>2 DEF PausedInv, Paused, Labelled, Shown, Settled, Blank
  <2> QED
    BY <2>3, <2>4, <2>5
<1> QED
  BY <1>2, <1>3, <1>4, <1>5 DEF KeyUp, OnSearchFieldChange

LEMMA PausedNext == TypeInv /\ PausedInv /\ [Next]_vars => PausedInv'
<1> SUFFICES ASSUME TypeInv, PausedInv, [Next]_vars PROVE PausedInv'
  OBVIOUS
<1> box \in BoxType
  BY DEF TypeInv, TypeOK
<1>1. CASE HideTimeout
  <2>1. /\ UNCHANGED <<pending, held, skipped, blanked>>
        /\ focus' = "field" <=> focus = "field"
        /\ \A f \in {"field", "last", "active", "popup"} : box'[f] = box[f]
    BY <1>1 DEF HideTimeout, history, BoxType
  <2> QED
    BY <2>1 DEF PausedInv, Paused, Labelled, Shown, Settled, Blank
<1>2. CASE TakeFocus
  <2>1. UNCHANGED <<pending, held>>
    BY <1>2 DEF TakeFocus
  <2>2. CASE UNCHANGED <<box, focus, skipped, blanked>>
    BY <2>1, <2>2 DEF PausedInv, Paused, Labelled, Shown, Settled, Blank
  <2>3. CASE focus' = "results" /\ box' = Blur(box) /\ blanked' = BlankedBy(blanked, box')
            /\ skipped' = (skipped \/ KeyLost("results"))
    <3>1. /\ Labelled(box') /\ (blanked' => box'.popup)
          /\ ~blanked' => ~blanked /\ Shown(box')
          /\ ~blanked' /\ Settled(box) => Settled(box')
      BY <2>3, MovedFocus DEF Blur
    <3>2. Paused' => Paused
      BY <2>1, <2>3, <3>1 DEF Paused, KeyLost
    <3>3. Paused' => Settled(box')
      BY <3>1, <3>2 DEF PausedInv, Paused
    <3> QED
      BY <2>3, <3>1, <3>3 DEF PausedInv, Labelled, Shown, Settled, Blank
  <2> QED
    BY <1>2, <2>2, <2>3 DEF TakeFocus
<1>3. CASE UNCHANGED vars
  BY <1>3 DEF vars, browser, history, PausedInv, Paused, Labelled, Shown, Settled, Blank
<1> QED
  BY <1>1, <1>2, <1>3, SearchTimeoutPaused, MousePaused, KeyDownPaused, KeyUpPaused DEF Next

(* A user who pauses sees what the field says: the results of its text, or  *)
(* none; whatever keys, clicks and timeouts came before, except while a     *)
(* text that lost its timeout or whose search threw is waiting for another  *)
(* key or search (skipped), and while results opened by a timeout over a    *)
(* blank field, or from under which the label was taken, are displayed      *)
(* (blanked).                                                               *)
THEOREM PopupFollowsField == Spec => []PausedShowsField
<1>1. Init => PausedInv
  BY TextAssumption DEF Init, PausedInv, Paused, Labelled, Shown, Settled, Blank
<1>2. PausedInv => PausedShowsField
  BY DEF PausedInv, Paused, Settled, PausedShowsField, NoKey
<1> QED
  BY <1>1, <1>2, TypeInit, TypeNext, PausedNext, PTL DEF Spec
=============================================================================
