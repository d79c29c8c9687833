----------------------- MODULE SearchResults_proofs -----------------------
(***************************************************************************)
(* Proofs about SearchResults, for all pages and terms.                    *)
(***************************************************************************)
EXTENDS SearchResults, FiniteSetTheorems, WellFoundedInduction, TLAPS

LEMMA LeastElement ==
  ASSUME NEW S, S \subseteq Nat, S # {}
  PROVE  \E x \in S : \A y \in S : x <= y
<1> DEFINE R == OpToRel(<, Nat)
<1>1. IsWellFoundedOn(R, Nat)
  BY NatLessThanWellFounded
<1>2. \A x \in S, y \in S : y < x => <<y, x>> \in R
  BY DEF OpToRel
<1> HIDE DEF R
<1>3. PICK x \in S : \A y \in S : ~ (<<y, x>> \in R)
  BY <1>1, WFMin
<1>4. ASSUME NEW y \in S PROVE x <= y
  <2>1. ~(y < x)
    BY <1>2, <1>3
  <2> QED
    BY <2>1
<1> QED
  BY <1>4

-----------------------------------------------------------------------------
(* The page is one of the pages, searched for one of the terms, or there is *)
(* none yet.                                                               *)
PageInv == (page \in Pages /\ term \in Terms) \/ DOMAIN page = {}

(* The rows of a page, and how the visible ones lie. *)
LEMMA RowsLie ==
  ASSUME PageInv
  PROVE  /\ DOMAIN page \subseteq Nat
         /\ \A j \in DOMAIN page : 0 .. j \subseteq DOMAIN page
         /\ \A i \in DOMAIN page : Children(i) \in Nat
         /\ \A i, j \in DOMAIN page : \A k \in i .. j :
              Visible(i) /\ Visible(j) => Visible(k)
<1>1. CASE DOMAIN page = {}
  BY <1>1
<1>2. CASE page \in Pages /\ term \in Terms
  <2> DEFINE size == Cardinality(DOMAIN page)
  <2>1. /\ size \in Nat /\ DOMAIN page = 0 .. size - 1
        /\ \A i \in DOMAIN page : page[i].places \in Nat \ {0}
    BY <1>2, PageAssumption, FS_CardinalityType
  <2> HIDE DEF size
  <2>2. \A i \in DOMAIN page : Children(i) \in Nat
    BY <2>1 DEF Children
  <2>3. DOMAIN page \subseteq Nat /\ \A j \in DOMAIN page : 0 .. j \subseteq DOMAIN page
    BY <2>1
  <2>4. ASSUME NEW i \in DOMAIN page, NEW j \in DOMAIN page, NEW k \in i .. j,
               Visible(i), Visible(j)
        PROVE  Visible(k)
    <3>1. k \in DOMAIN page
      BY <2>1
    <3>2. IsPrefix(term, page[k].name)
      BY <1>2, <2>4, SortedAssumption DEF Visible
    <3> QED
      BY <3>1, <3>2 DEF Visible
  <2> QED
    BY <2>2, <2>3, <2>4
<1> QED
  BY <1>1, <1>2 DEF PageInv

(* What NavNext finds. *)
LEMMA NextFinds ==
  ASSUME PageInv, NEW i \in Int
  PROVE  /\ NavNext(i) = NoItem => \A j \in DOMAIN page : j >= i => ~Visible(j)
         /\ NavNext(i) # NoItem =>
              \E j \in DOMAIN page :
                /\ j >= i /\ Visible(j) /\ (\A k \in i .. j - 1 : ~Visible(k))
                /\ NavNext(i) = <<j, 0>>
         /\ \A j \in DOMAIN page :
              j >= i /\ Visible(j) /\ (\A k \in i .. j - 1 : ~Visible(k)) => NavNext(i) = <<j, 0>>
<1> DEFINE First(j) == j >= i /\ Visible(j) /\ \A k \in i .. j - 1 : ~Visible(k)
           S == {j \in DOMAIN page : j >= i /\ Visible(j)}
<1>a. DOMAIN page \subseteq Nat
  BY RowsLie
<1>1. CASE S = {}
  <2>1. ~ \E j \in DOMAIN page : j >= i /\ Visible(j)
    BY <1>1
  <2>2. NavNext(i) = NoItem
    BY <2>1 DEF NavNext
  <2> QED
    BY <2>1, <2>2
<1>2. CASE S # {}
  <2>1. \E x \in S : \A y \in S : x <= y
    <3>1. S \subseteq Nat
      BY <1>a
    <3> HIDE DEF S
    <3> QED
      BY <1>2, <3>1, LeastElement
  <2>2. PICK x \in DOMAIN page : x \in S /\ \A y \in S : x <= y
    BY <2>1
  <2>3. First(x)
    <3>1. ASSUME NEW k \in i .. x - 1, Visible(k) PROVE FALSE
      <4>1. k \in S
        BY <1>a, <3>1 DEF Visible
      <4> QED
        BY <1>a, <2>2, <4>1
    <3> QED
      BY <2>2, <3>1
  <2>4. \A j \in DOMAIN page : First(j) => j = x
    <3> SUFFICES ASSUME NEW j \in DOMAIN page, First(j) PROVE j = x
      OBVIOUS
    <3>1. j \in Nat /\ x \in Nat
      BY <1>a
    <3>2. ~(j < x) /\ ~(x < j)
      BY <2>3, <3>1
    <3> QED
      BY <3>1, <3>2
  <2>5. NavNext(i) = <<CHOOSE j \in DOMAIN page : First(j), 0>>
    BY <1>2 DEF NavNext
  <2> HIDE DEF First
  <2>6. (CHOOSE j \in DOMAIN page : First(j)) = x
    BY <2>3, <2>4
  <2>7. NavNext(i) = <<x, 0>> /\ NavNext(i) # NoItem
    BY <2>5, <2>6 DEF NoItem
  <2> QED
    BY <2>3, <2>4, <2>7 DEF First
<1> QED
  BY <1>1, <1>2

(* What is displayed: visible rows, and the children of the unfolded ones.  *)
ExactlyDisplayed ==
  \A i, c :
    <<i, c>> \in DisplayedItems <=>
      Visible(i) /\ (c = 0 \/ (i \in unfolded /\ c \in 1 .. Children(i)))

LEMMA AreDisplayed == ExactlyDisplayed
<1> SUFFICES ASSUME NEW i, NEW c
             PROVE  <<i, c>> \in DisplayedItems <=>
                      Visible(i) /\ (c = 0 \/ (i \in unfolded /\ c \in 1 .. Children(i)))
  BY DEF ExactlyDisplayed
<1>1. <<i, c>> \in Rows <=> Visible(i) /\ c = 0
  BY DEF Rows, Visible
<1>2. <<i, c>> \in UNION {ChildItems(r[1]) : r \in {s \in Rows : s[1] \in unfolded}}
        <=> Visible(i) /\ i \in unfolded /\ c \in 1 .. Children(i)
  <2>1. ASSUME NEW r \in Rows, r[1] \in unfolded, <<i, c>> \in ChildItems(r[1])
        PROVE  Visible(i) /\ i \in unfolded /\ c \in 1 .. Children(i)
    <3>1. PICK j \in DOMAIN page : r = <<j, 0>> /\ Visible(j)
      BY <2>1 DEF Rows
    <3>2. i = j /\ c \in 1 .. Children(j)
      BY <2>1, <3>1 DEF ChildItems
    <3> QED
      BY <2>1, <3>1, <3>2
  <2>2. ASSUME Visible(i), i \in unfolded, c \in 1 .. Children(i)
        PROVE  \E r \in Rows : r[1] \in unfolded /\ <<i, c>> \in ChildItems(r[1])
    <3>1. <<i, 0>> \in Rows /\ <<i, 0>>[1] = i
      BY <2>2 DEF Rows, Visible
    <3>2. <<i, c>> \in ChildItems(i)
      BY <2>2 DEF ChildItems
    <3> QED
      BY <2>2, <3>1, <3>2
  <2> QED
    BY <2>1, <2>2
<1> QED
  BY <1>1, <1>2 DEF DisplayedItems

LEMMA ItemsDisplayed ==
  ASSUME NEW i, NEW c
  PROVE  <<i, c>> \in DisplayedItems <=>
           Visible(i) /\ (c = 0 \/ (i \in unfolded /\ c \in 1 .. Children(i)))
  BY AreDisplayed DEF ExactlyDisplayed

LEMMA ItemsArePairs ==
  ASSUME NEW x \in DisplayedItems
  PROVE  x = <<x[1], x[2]>>
<1>1. CASE x \in Rows
  BY <1>1 DEF Rows
<1>2. CASE x \notin Rows
  BY <1>2 DEF DisplayedItems, ChildItems
<1> QED
  BY <1>1, <1>2

-----------------------------------------------------------------------------
(* The focus. *)
LEMMA PageInit == Init => PageInv
  BY DEF Init, PageInv

LEMMA PageNext == PageInv /\ [Next]_vars => PageInv'
<1> SUFFICES ASSUME PageInv, [Next]_vars PROVE PageInv'
  OBVIOUS
<1>1. ASSUME NEW p \in Pages, NEW t \in Terms, Load(p, t) PROVE PageInv'
  BY <1>1 DEF Load, PageInv
<1>2. CASE UNCHANGED <<page, term>>
  BY <1>2 DEF PageInv
<1> QED
  BY <1>1, <1>2 DEF Next, TakeFocus, Leave, ToggleRow, KeyDown, KeyElsewhere, KeyPress, KeyUp, vars

LEMMA PageAlways == Spec => []PageInv
  BY PageInit, PageNext, PTL DEF Spec

(* A step that keeps the page and the term, and unfolds rows at most. *)
LEMMA StillDisplayed ==
  ASSUME UNCHANGED <<page, term>>, NEW i, NEW c, <<i, c>> \in DisplayedItems,
         c = 0 \/ unfolded \subseteq unfolded'
  PROVE  <<i, c>> \in DisplayedItems'
<1>1. Visible(i)' <=> Visible(i)
  BY DEF Visible
<1>2. Children(i)' = Children(i)
  BY DEF Children
<1>3. Visible(i) /\ (c = 0 \/ (i \in unfolded' /\ c \in 1 .. Children(i)))
  BY ItemsDisplayed
<1>a. ExactlyDisplayed'
  BY AreDisplayed, PTL
<1>4. <<i, c>> \in DisplayedItems' <=>
        Visible(i)' /\ (c = 0 \/ (i \in unfolded' /\ c \in 1 .. Children(i)'))
  BY <1>a DEF ExactlyDisplayed
<1> QED
  BY <1>1, <1>2, <1>3, <1>4

LEMMA NavSeen ==
  ASSUME PageInv, FocusIsSeen, Here, UNCHANGED <<page, term>>, NEW k, Nav(k)
  PROVE  FocusIsSeen'
<1>1. cur \in DisplayedItems /\ displayed /\ cur = <<cur[1], cur[2]>>
  BY ItemsArePairs DEF FocusIsSeen
<1>2. ASSUME NEW x, MoveTo(x) PROVE FocusIsSeen'
  <2>1. DisplayedItems' = DisplayedItems
    BY <1>2 DEF MoveTo, DisplayedItems, Rows, ChildItems, Children, Visible
  <2> QED
    BY <1>1, <1>2, <2>1 DEF MoveTo, FocusIsSeen, Here
<1>3. ASSUME NEW s, ToField(s) PROVE FocusIsSeen'
  BY <1>3 DEF ToField, FocusIsSeen, Here
<1>4. ASSUME NEW r, Fold(r), cur[2] = 0 \/ unfolded \subseteq r PROVE FocusIsSeen'
  <2>1. cur' = cur /\ displayed' = displayed /\ unfolded' = r
    BY <1>4 DEF Fold
  <2>2. cur \in DisplayedItems'
    BY <1>1, <1>4, <2>1, StillDisplayed
  <2> QED
    BY <1>1, <2>1, <2>2 DEF FocusIsSeen
<1>5. cur[2] = 0 \/ unfolded \subseteq Folded(cur)
  BY DEF Folded
<1> QED
  BY <1>2, <1>3, <1>4, <1>5 DEF Nav

LEMMA SeenNext == PageInv /\ FocusIsSeen /\ [Next]_vars => FocusIsSeen'
<1> SUFFICES ASSUME PageInv, FocusIsSeen, [Next]_vars PROVE FocusIsSeen'
  OBVIOUS
<1>1. ASSUME NEW p, NEW t, Load(p, t) PROVE FocusIsSeen'
  BY <1>1 DEF Load, FocusIsSeen, Here
<1>2. CASE TakeFocus
  <2>1. PICK j \in DOMAIN page : Visible(j) /\ NavNext(0) = <<j, 0>>
    BY <1>2, NextFinds DEF TakeFocus
  <2>2. <<j, 0>> \in DisplayedItems
    BY <2>1, ItemsDisplayed
  <2>3. UNCHANGED <<page, term, unfolded, displayed>> /\ displayed /\ cur' = <<j, 0>>
    BY <1>2, <2>1 DEF TakeFocus
  <2>4. <<j, 0>> \in DisplayedItems'
    BY <2>2, <2>3, StillDisplayed
  <2> QED
    BY <2>3, <2>4 DEF FocusIsSeen
<1>3. ASSUME NEW closes, Leave(closes) PROVE FocusIsSeen'
  BY <1>3 DEF Leave, FocusIsSeen, Here
<1>4. ASSUME NEW i, ToggleRow(i) PROVE FocusIsSeen'
  <2>1. UNCHANGED <<page, term, displayed>> /\ displayed /\ cur' = <<i, 0>>
    BY <1>4 DEF ToggleRow
  <2>2. <<i, 0>> \in DisplayedItems
    BY <1>4, ItemsDisplayed DEF ToggleRow
  <2>3. <<i, 0>> \in DisplayedItems'
    BY <2>1, <2>2, StillDisplayed
  <2> QED
    BY <2>1, <2>3 DEF FocusIsSeen
<1>5. ASSUME NEW k, KeyDown(k) PROVE FocusIsSeen'
  BY <1>5, NavSeen DEF KeyDown
<1>6. CASE KeyPress
  <2>1. Here /\ UNCHANGED <<page, term>> /\ \E k : Nav(k)
    <3>1. Fold(unfolded) => Nav("char")
      BY DEF Nav
    <3> QED
      BY <1>6, <3>1 DEF KeyPress
  <2> QED
    BY <2>1, NavSeen
<1>7. CASE UNCHANGED <<page, term, unfolded, cur, focus, displayed>>
  <2>1. DisplayedItems' = DisplayedItems
    BY <1>7 DEF DisplayedItems, Rows, ChildItems, Children, Visible
  <2> QED
    BY <1>7, <2>1 DEF FocusIsSeen, Here
<1> QED
  BY <1>1, <1>2, <1>3, <1>4, <1>5, <1>6, <1>7 DEF Next, KeyUp, KeyElsewhere, vars

(* The item that listens to the keys is displayed, in results that are      *)
(* displayed.                                                              *)
THEOREM FocusStaysSeen == Spec => []FocusIsSeen
<1>1. Init => FocusIsSeen
  BY DEF Init, FocusIsSeen, Here
<1> QED
  BY <1>1, SeenNext, PageAlways, PTL DEF Spec

-----------------------------------------------------------------------------
(* Repetition is on only while the key it repeats is down: as long as no    *)
(* key that went down here came up elsewhere, it is off when a key goes     *)
(* down.                                                                   *)
KeyInv ==
  /\ repeatOn \in BOOLEAN /\ presses \in 0 .. 2
  /\ repeatOn => lastKey # NoKey
  /\ ~strayed => /\ held = NoKey => lastKey = NoKey
                 /\ presses = 0 => ~repeatOn

LEMMA KeyNext == KeyInv /\ [Next]_vars => KeyInv'
<1> SUFFICES ASSUME KeyInv, [Next]_vars PROVE KeyInv'
  OBVIOUS
<1>1. ASSUME NEW p, NEW t, Load(p, t) PROVE KeyInv'
  BY <1>1 DEF Load, KeyInv
<1>2. ASSUME NEW k \in Keys, KeyDown(k) PROVE KeyInv'
  <2>1. presses' = 0 /\ lastKey' = k /\ held' = k /\ repeatOn' = FALSE /\ k # NoKey
    BY <1>2 DEF KeyDown, RepeatAtKeyDown, Keys, NoKey
  <2>2. 0 \in 0 .. 2
    OBVIOUS
  <2> QED
    BY <2>1, <2>2, Zenon DEF KeyInv
<1>3. CASE KeyPress
  <2>1. presses' \in 0 .. 2 /\ presses' # 0
    BY <1>3 DEF KeyPress, KeyInv
  <2>2. /\ repeatOn' \in BOOLEAN /\ (repeatOn' <=> repeatOn \/ lastKey # NoKey)
        /\ UNCHANGED <<lastKey, held, strayed>> /\ held # NoKey
    BY <1>3 DEF KeyPress
  <2> QED
    BY <2>1, <2>2 DEF KeyInv
<1>4. CASE KeyUp
  BY <1>4 DEF KeyUp, KeyInv
<1>5. ASSUME NEW k, KeyElsewhere(k) PROVE KeyInv'
  <2>1. strayed' <=> strayed \/ (held # NoKey /\ lastKey # NoKey)
    BY <1>5 DEF KeyElsewhere
  <2>2. ~strayed' => lastKey = NoKey
    BY <2>1 DEF KeyInv
  <2> QED
    BY <1>5, <2>2 DEF KeyElsewhere, KeyInv
<1>6. CASE UNCHANGED keyState
  BY <1>6 DEF keyState, KeyInv
<1> QED
  BY <1>1, <1>2, <1>3, <1>4, <1>5, <1>6 DEF Next, TakeFocus, Leave, ToggleRow, vars

(* A key that is pressed once moves once: the first keypress after its      *)
(* keydown does nothing, in browsers that send one.                         *)
THEOREM FirstKeypressDoesNothing == Spec => FirstPressIgnored
<1>a. 0 \in 0 .. 2
  OBVIOUS
<1>1. Init => KeyInv
  BY <1>a, Zenon DEF Init, KeyInv
<1>2. ASSUME KeyInv, [Next]_vars, presses = 0, presses' = 1, ~strayed
      PROVE  UNCHANGED <<cur, unfolded, focus, displayed>>
  <2>1. CASE KeyPress
    BY <1>2, <2>1 DEF KeyPress, KeyInv, Fold
  <2>2. ASSUME ~KeyPress PROVE presses' # 1
    BY <1>2, <2>2 DEF Next, Load, TakeFocus, Leave, ToggleRow, KeyDown, KeyElsewhere, KeyUp,
                      keyState, vars
  <2> QED
    BY <1>2, <2>1, <2>2
<1>3. KeyInv /\ [Next]_vars
        => [presses = 0 /\ presses' = 1 /\ ~strayed
              => UNCHANGED <<cur, unfolded, focus, displayed>>]_vars
  BY <1>2
<1> QED
  BY <1>1, <1>3, KeyNext, PTL DEF Spec, FirstPressIgnored

-----------------------------------------------------------------------------
(* The order of the items: what DownFrom and UpFrom return for a displayed  *)
(* row or child.                                                           *)
LEMMA RowBelow ==
  ASSUME PageInv, NEW i \in DOMAIN page, Visible(i), NavNext(i + 1) # NoItem
  PROVE  NavNext(i + 1) = <<i + 1, 0>> /\ i + 1 \in DOMAIN page /\ Visible(i + 1)
<1>1. i \in Nat
  BY RowsLie
<1>2. PICK j \in DOMAIN page : /\ j >= i + 1 /\ Visible(j) /\ (\A k \in i + 1 .. j - 1 : ~Visible(k))
                               /\ NavNext(i + 1) = <<j, 0>>
  BY <1>1, NextFinds
<1>3. j \in Nat
  BY RowsLie
<1>4. Visible(i + 1)
  <2>1. i + 1 \in i .. j
    BY <1>1, <1>2, <1>3
  <2> QED
    BY <1>2, <2>1, RowsLie
<1>5. j = i + 1
  <2>1. ~(i + 1 \in i + 1 .. j - 1)
    BY <1>2, <1>4
  <2> QED
    BY <1>1, <1>2, <1>3, <2>1
<1> QED
  BY <1>2, <1>4, <1>5

LEMMA RowAbove ==
  ASSUME PageInv, NEW i \in DOMAIN page, Visible(i)
  PROVE  NavPrev(i) = <<i, 0>>
<1>1. i \in Nat /\ DOMAIN page \subseteq Nat
  BY RowsLie
<1> DEFINE Nearest(j) == j <= i /\ Visible(j) /\ \A k \in j + 1 .. i : ~Visible(k)
<1>2. NavPrev(i) = <<CHOOSE j \in DOMAIN page : Nearest(j), 0>>
  <2>1. \E j \in DOMAIN page : j <= i /\ Visible(j)
    BY <1>1
  <2> QED
    BY <2>1 DEF NavPrev
<1>3. Nearest(i)
  BY <1>1
<1>4. ASSUME NEW j \in DOMAIN page, Nearest(j) PROVE j = i
  <2>1. j \in Nat /\ ~(i \in j + 1 .. i)
    BY <1>1, <1>4
  <2> QED
    BY <1>1, <1>4, <2>1
<1> HIDE DEF Nearest
<1>5. (CHOOSE j \in DOMAIN page : Nearest(j)) = i
  BY <1>3, <1>4
<1> QED
  BY <1>2, <1>5

LEMMA DownValue ==
  ASSUME NEW i \in Nat, NEW c \in Nat, Children(i) \in Nat
  PROVE  /\ c = 0 /\ Unfolds(i) => DownFrom(<<i, c>>) = <<i, 1>>
         /\ c = 0 /\ ~Unfolds(i) => DownFrom(<<i, c>>) = NavNext(i + 1)
         /\ c > 0 /\ c < Children(i) => DownFrom(<<i, c>>) = <<i, c + 1>>
         /\ c > 0 /\ c >= Children(i) => DownFrom(<<i, c>>) = NavNext(i + 1)
  BY DEF DownFrom

LEMMA UpValue ==
  ASSUME NEW i \in Nat, NEW c \in Nat
  PROVE  /\ c > 0 => UpFrom(<<i, c>>) = <<i, c - 1>>
         /\ c = 0 /\ NavPrev(i - 1) = NoItem => UpFrom(<<i, c>>) = NoItem
         /\ c = 0 /\ NavPrev(i - 1) # NoItem /\ Unfolds(NavPrev(i - 1)[1]) /\ Children(i - 1) > 0
              => UpFrom(<<i, c>>) = <<i - 1, Children(i - 1)>>
         /\ c = 0 /\ NavPrev(i - 1) # NoItem
              /\ ~(Unfolds(NavPrev(i - 1)[1]) /\ Children(i - 1) > 0)
              => UpFrom(<<i, c>>) = NavPrev(i - 1)
  BY DEF UpFrom, LastChild

(* A pair is no empty sequence. *)
LEMMA PairIsItem == \A a, b : <<a, b>> # NoItem
  BY DEF NoItem

(* What the coordinates of a displayed item are. *)
LEMMA ItemShape ==
  ASSUME PageInv, NEW x \in DisplayedItems
  PROVE  \E i \in DOMAIN page, c \in Nat :
           /\ x = <<i, c>> /\ Visible(i) /\ i \in Nat /\ Children(i) \in Nat
           /\ c = 0 \/ (i \in unfolded /\ c \in 1 .. Children(i))
<1> DEFINE i == x[1]
           c == x[2]
<1>1. x = <<i, c>>
  BY ItemsArePairs
<1>2. Visible(i) /\ (c = 0 \/ (i \in unfolded /\ c \in 1 .. Children(i)))
  BY <1>1, ItemsDisplayed
<1>3. i \in DOMAIN page
  BY <1>2 DEF Visible
<1>4. i \in Nat /\ Children(i) \in Nat
  BY <1>3, RowsLie
<1> QED
  BY <1>1, <1>2, <1>3, <1>4

LEMMA DownThenUp ==
  ASSUME PageInv, NEW x \in DisplayedItems, DownFrom(x) # NoItem
  PROVE  DownFrom(x) \in DisplayedItems /\ UpFrom(DownFrom(x)) = x
<1>1. PICK i \in DOMAIN page, c \in Nat :
        /\ x = <<i, c>> /\ Visible(i) /\ i \in Nat /\ Children(i) \in Nat
        /\ c = 0 \/ (i \in unfolded /\ c \in 1 .. Children(i))
  BY ItemShape
<1>2. CASE c = 0 /\ Unfolds(i)
  <2>1. DownFrom(x) = <<i, 1>>
    BY <1>1, <1>2, DownValue
  <2>2. <<i, 1>> \in DisplayedItems
    BY <1>1, <1>2, ItemsDisplayed DEF Unfolds
  <2>3. UpFrom(<<i, 1>>) = <<i, 1 - 1>>
    BY <1>1, UpValue
  <2> QED
    BY <1>1, <1>2, <2>1, <2>2, <2>3
<1>3. CASE c > 0 /\ c < Children(i)
  <2>1. DownFrom(<<i, c>>) = <<i, c + 1>>
    BY ONLY <1>1, <1>3, DownValue
  <2>2. <<i, c + 1>> \in DisplayedItems
    BY <1>1, <1>3, ItemsDisplayed
  <2>3. UpFrom(<<i, c + 1>>) = <<i, (c + 1) - 1>>
    <3>1. c + 1 \in Nat /\ c + 1 > 0
      BY <1>1
    <3> QED
      BY ONLY <1>1, <3>1, UpValue
  <2> QED
    BY <1>1, <2>1, <2>2, <2>3
<1>4. CASE ~(c = 0 /\ Unfolds(i)) /\ ~(c > 0 /\ c < Children(i))
  <2>1. DownFrom(x) = NavNext(i + 1)
    BY <1>1, <1>4, DownValue
  <2>2. DownFrom(x) = <<i + 1, 0>> /\ i + 1 \in DOMAIN page /\ Visible(i + 1)
    BY <1>1, <2>1, RowBelow
  <2>3. <<i + 1, 0>> \in DisplayedItems
    BY <2>2, ItemsDisplayed
  <2>4. NavPrev((i + 1) - 1) = <<i, 0>> /\ (i + 1) - 1 = i
    BY <1>1, RowAbove
  <2>5. NavPrev((i + 1) - 1) # NoItem /\ NavPrev((i + 1) - 1)[1] = i
    BY <2>4, PairIsItem
  <2>6. /\ Unfolds(i) /\ Children(i) > 0 => UpFrom(<<i + 1, 0>>) = <<i, Children(i)>>
        /\ ~(Unfolds(i) /\ Children(i) > 0) => UpFrom(<<i + 1, 0>>) = <<i, 0>>
    <3>1. i + 1 \in Nat /\ 0 \in Nat
      BY <1>1
    <3> QED
      BY ONLY <2>4, <2>5, <3>1, UpValue
  <2>7. CASE Unfolds(i) /\ Children(i) > 0
    <3>1. c = Children(i)
      BY <1>1, <1>4, <2>7
    <3> QED
      BY <1>1, <2>2, <2>3, <2>6, <2>7, <3>1
  <2>8. CASE ~(Unfolds(i) /\ Children(i) > 0)
    <3>1. c = 0
      BY <1>1, <2>8 DEF Unfolds
    <3> QED
      BY <1>1, <2>2, <2>3, <2>6, <2>8, <3>1
  <2> QED
    BY <2>7, <2>8
<1> QED
  BY <1>1, <1>2, <1>3, <1>4

LEMMA UpEndsAtFirst ==
  ASSUME PageInv, NEW x \in DisplayedItems
  PROVE  UpFrom(x) = NoItem <=> x = NavNext(0)
<1>1. PICK i \in DOMAIN page, c \in Nat :
        /\ x = <<i, c>> /\ Visible(i) /\ i \in Nat /\ Children(i) \in Nat
        /\ c = 0 \/ (i \in unfolded /\ c \in 1 .. Children(i))
  BY ItemShape
<1>2. DOMAIN page \subseteq Nat
  BY RowsLie
<1>3. PICK f \in DOMAIN page : /\ f >= 0 /\ Visible(f) /\ (\A k \in 0 .. f - 1 : ~Visible(k))
                               /\ NavNext(0) = <<f, 0>>
  <2>1. NavNext(0) # NoItem
    BY <1>1, <1>2, NextFinds
  <2> QED
    BY <2>1, NextFinds
<1>4. f \in Nat /\ f <= i
  BY <1>1, <1>2, <1>3
<1>5. CASE c > 0
  <2>1. UpFrom(x) = <<i, c - 1>>
    BY <1>1, <1>5, UpValue
  <2> QED
    BY <1>1, <1>3, <1>5, <2>1, PairIsItem
<1>6. CASE c = 0
  <2>1. NavPrev(i - 1) = NoItem <=> ~ \E j \in DOMAIN page : j <= i - 1 /\ Visible(j)
    BY PairIsItem DEF NavPrev
  <2>2. (\E j \in DOMAIN page : j <= i - 1 /\ Visible(j)) <=> f # i
    <3>1. f # i => f <= i - 1
      BY <1>1, <1>4
    <3>2. ASSUME NEW j \in DOMAIN page, j <= i - 1, Visible(j), f = i PROVE FALSE
      <4>1. j \in 0 .. f - 1
        BY <1>2, <1>4, <3>2
      <4> QED
        BY <1>3, <3>2, <4>1
    <3> QED
      BY <1>3, <3>1, <3>2
  <2>3. UpFrom(<<i, 0>>) = NoItem <=> NavPrev(i - 1) = NoItem
    BY ONLY <1>1, UpValue, PairIsItem
  <2> QED
    BY <1>1, <1>3, <1>6, <2>1, <2>2, <2>3
<1> QED
  BY <1>1, <1>5, <1>6

LEMMA DownReaches ==
  ASSUME PageInv, NEW x \in DisplayedItems, x # NavNext(0)
  PROVE  \E y \in DisplayedItems : DownFrom(y) = x
<1>1. PICK i \in DOMAIN page, c \in Nat :
        /\ x = <<i, c>> /\ Visible(i) /\ i \in Nat /\ Children(i) \in Nat
        /\ c = 0 \/ (i \in unfolded /\ c \in 1 .. Children(i))
  BY ItemShape
<1>2. CASE c = 1
  <2>1. <<i, 0>> \in DisplayedItems
    BY <1>1, ItemsDisplayed
  <2>2. DownFrom(<<i, 0>>) = <<i, 1>>
    BY <1>1, <1>2, DownValue DEF Unfolds
  <2> QED
    BY <1>1, <1>2, <2>1, <2>2
<1>3. CASE c > 1
  <2>1. <<i, c - 1>> \in DisplayedItems
    BY <1>1, <1>3, ItemsDisplayed
  <2>2. DownFrom(<<i, c - 1>>) = <<i, (c - 1) + 1>>
    <3>1. c - 1 \in Nat /\ c - 1 > 0 /\ c - 1 < Children(i)
      BY <1>1, <1>3
    <3> QED
      BY ONLY <1>1, <3>1, DownValue
  <2> QED
    BY <1>1, <2>1, <2>2
<1>4. CASE c = 0
  <2> DEFINE p == i - 1
  <2>1. PICK f \in DOMAIN page : f \in Nat /\ Visible(f) /\ f < i
    <3>1. ~ \A k \in 0 .. i - 1 : ~Visible(k)
      BY <1>1, <1>4, NextFinds
    <3>2. PICK f \in 0 .. i - 1 : Visible(f)
      BY <3>1
    <3> QED
      BY <1>1, <3>2 DEF Visible
  <2>2. p \in DOMAIN page /\ Visible(p) /\ p \in Nat /\ p + 1 = i
    <3>1. p \in f .. i /\ p \in 0 .. i
      BY <1>1, <2>1
    <3> QED
      BY <1>1, <2>1, <3>1, RowsLie
  <2>3. Children(p) \in Nat
    BY <2>2, RowsLie
  <2>4. NavNext(p + 1) = <<i, 0>>
    <3>1. \A k \in i .. i - 1 : ~Visible(k)
      BY <1>1
    <3> QED
      BY <1>1, <2>2, <3>1, NextFinds
  <2> HIDE DEF p
  <2>5. CASE Unfolds(p)
    <3>1. <<p, Children(p)>> \in DisplayedItems
      BY <2>2, <2>3, <2>5, ItemsDisplayed DEF Unfolds
    <3>2. Children(p) > 0
      BY <2>5 DEF Unfolds
    <3>3. DownFrom(<<p, Children(p)>>) = <<i, 0>>
      BY ONLY <2>2, <2>3, <2>4, <3>2, DownValue
    <3> QED
      BY <1>1, <1>4, <3>1, <3>3
  <2>6. CASE ~Unfolds(p)
    <3>1. <<p, 0>> \in DisplayedItems
      BY <2>2, ItemsDisplayed
    <3>2. DownFrom(<<p, 0>>) = <<i, 0>>
      BY ONLY <2>2, <2>3, <2>4, <2>6, DownValue
    <3> QED
      BY <1>1, <1>4, <3>1, <3>2
  <2> QED
    BY <2>5, <2>6
<1> QED
  BY <1>1, <1>2, <1>3, <1>4

(* Up and Down are each other's inverse on the displayed items of every     *)
(* page, the first of which is the only way out of the list; and Down gets  *)
(* to all of them.                                                         *)
THEOREM UpInvertsDown == Spec => []UpUndoesDown
<1>1. PageInv => UpUndoesDown
  BY DownThenUp, UpEndsAtFirst, DownReaches DEF UpUndoesDown
<1> QED
  BY <1>1, PageAlways, PTL
=============================================================================
