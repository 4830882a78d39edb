-------------------------- MODULE SearchPanelProofs --------------------------
(***************************************************************************)
(* A theorem about SearchPanel, for every set of texts, every section and  *)
(* any number of scripts and timers under way.                             *)
(***************************************************************************)
EXTENDS SearchPanel, DataLemmas, FiniteSetTheorems

-----------------------------------------------------------------------------
(* The box as its handlers pass it on.                                      *)

Boxes == [text : Texts, last : Values, active : BOOLEAN, shown : BOOLEAN]

\* What is empty where it looks inactive.
Empty(b) == ~b.active => b.text = <<>> /\ b.last = <<>>

(***************************************************************************)
(* The field has the keyboard only while the box is active: what a reader  *)
(* types goes into an active box.                                          *)
(***************************************************************************)
FieldIsActive == focus = Field => box.active

Inv == box \in Boxes /\ Empty(box) /\ FieldIsActive

\* Nothing is left of nothing.
LEMMA LStripEmpty == LStrip(<<>>) = <<>>
  <1> DEFINE blank == {n \in 0 .. Len(<<>>) : \A i \in 1 .. n : <<>>[i] = Space}
  <1>1. blank = {0}
    OBVIOUS
  <1>2. Cardinality(blank) = 1
    BY <1>1, FS_Singleton
  <1>3. LStrip(<<>>) = SubSeq(<<>>, Cardinality(blank), Len(<<>>))
    BY DEF LStrip
  <1>4. QED
    BY <1>2, <1>3

\* What is searched for a text of the field.
LEMMA ValueIs ==
    ASSUME NEW text \in Texts
    PROVE  Value[text] = LStrip(text) /\ Value[text] \in Values
  BY DEF Value, Values

\* The empty text can be in the field, and can be what was searched for.
LEMMA EmptyTexts == <<>> \in Texts /\ <<>> \in Values
  <1>1. <<>> \in Texts
    BY SearchAssumption DEF SearchAssumption
  <1>2. QED
    BY <1>1, LStripEmpty, ValueIs

\* Activating or deactivating a box keeps it well formed, empty if inactive.
LEMMA ActivateFacts ==
    ASSUME NEW b \in Boxes, NEW isActive \in BOOLEAN
    PROVE  /\ Activate(b, isActive) \in Boxes
           /\ Empty(Activate(b, isActive))
           /\ isActive => Activate(b, isActive).active
  <1>1. CASE isActive \/ b.shown
    BY <1>1 DEF Activate, Boxes, Empty
  <1>2. CASE ~(isActive \/ b.shown)
    BY <1>2, EmptyTexts DEF Activate, Boxes, Empty
  <1>3. QED
    BY <1>1, <1>2

\* Hiding the results window keeps a box well formed and as active as it was.
LEMMA HideFacts ==
    ASSUME NEW b \in Boxes
    PROVE  /\ Hide(b) \in Boxes
           /\ Hide(b).active = b.active
           /\ Empty(b) => Empty(Hide(b))
  BY DEF Hide, Boxes, Empty

\* Hiding the results and forgetting the text searched for does so too.
LEMMA ForgetFacts ==
    ASSUME NEW b \in Boxes
    PROVE  /\ Forget(b) \in Boxes
           /\ Forget(b).active = b.active
           /\ Empty(b) => Empty(Forget(b))
  BY EmptyTexts DEF Forget, Hide, Boxes, Empty

\* Closing the results window leaves a well-formed box, empty if inactive.
LEMMA CloseFacts ==
    ASSUME NEW b \in Boxes
    PROVE  CloseResultsWindow(b) \in Boxes /\ Empty(CloseResultsWindow(b))
  <1>1. Hide(b) \in Boxes
    BY HideFacts
  <1>2. QED
    BY <1>1, ActivateFacts DEF CloseResultsWindow

\* What the blur event leaves: the box of a field that lost the keyboard may
\* be inactive, any other is as it was.
LEMMA BlurredFacts ==
    ASSUME box \in Boxes, Empty(box)
    PROVE  Blurred \in Boxes /\ Empty(Blurred)
  <1>1. Activate(box, FALSE) \in Boxes /\ Empty(Activate(box, FALSE))
    BY ActivateFacts
  <1>2. QED
    BY <1>1 DEF Blurred

\* When a hidden result loses the keyboard, the field does not get it.
LEMMA ItemGoneFacts == \A f : ItemGone(f) = Field => f = Field
  BY DEF ItemGone, Page, Field

\* The page, the section menu and the results are not the search field.
LEMMA Places ==
    /\ Page # Field /\ Menu # Field
    /\ \A r, c : Item(r, c) # Field
  BY DEF Page, Menu, Field, Item

-----------------------------------------------------------------------------
(* Each handler keeps the invariant.                                        *)

\* A box that is passed on with the place the keyboard goes to.
Passed(b, f) == b \in Boxes /\ Empty(b) /\ (f = Field => b.active)

\* The invariant says that the present box may be passed on where it is.
LEMMA InvIsPassed == Inv <=> Passed(box, focus)
  BY DEF Inv, Passed, FieldIsActive

\* Showing the results of a search keeps the invariant.
LEMMA HandleResultsStep ==
    ASSUME NEW b, NEW f, NEW file, NEW section, NEW value, Passed(b, f),
           HandleResults(b, f, section, file, value)
    PROVE  Inv'
  <1>1. box' = [b EXCEPT !.shown = TRUE] /\ focus' = ItemGone(f)
    BY DEF HandleResults
  <1>2. box' \in Boxes /\ Empty(box') /\ box'.active = b.active
    BY <1>1 DEF Passed, Boxes, Empty
  <1>3. focus' = Field => box'.active
    BY <1>1, <1>2, ItemGoneFacts DEF Passed
  <1>4. QED
    BY <1>2, <1>3 DEF Inv, FieldIsActive

\* A search remembers its text; that of an inactive box is empty.
LEMMA SearchStep ==
    ASSUME NEW b, NEW f, NEW section, NEW fired, Passed(b, f),
           Search(b, f, section, fired)
    PROVE  Inv'
  <1> DEFINE value == Value[b.text]
             searched == [b EXCEPT !.last = value]
  <1>1. value \in Values
    BY ValueIs DEF Passed, Boxes
  <1>2. ~b.active => value = <<>>
    BY LStripEmpty, EmptyTexts, ValueIs DEF Passed, Empty
  <1>3. Passed(searched, f)
    <2> HIDE DEF value
    <2>1. QED
      BY <1>1, <1>2 DEF Passed, Boxes, Empty
  <1>4. CASE box' = b /\ focus' = f
    BY <1>4 DEF Inv, Passed, FieldIsActive
  <1>5. CASE box' = searched /\ focus' = f
    <2> HIDE DEF searched
    <2>1. QED
      BY <1>3, <1>5 DEF Inv, Passed, FieldIsActive
  <1>6. CASE \E file : HandleResults(searched, f, section, file, value)
    BY <1>3, <1>6, HandleResultsStep
  <1>7. QED
    BY <1>4, <1>5, <1>6 DEF Search

\* Choosing a section, by key or by mouse, keeps the invariant.
LEMMA OnSelectItemStep ==
    ASSUME NEW id, NEW b, NEW f, b \in Boxes, Empty(b),
           f = Field \/ Passed(b, f), OnSelectItem(id, b, f)
    PROVE  Inv'
  <1>1. CASE StripAll(b.text) # <<>> /\ b.active
    <2>1. Search(b, f, id, FALSE) /\ Passed(b, f)
      BY <1>1 DEF OnSelectItem, Passed
    <2>2. QED
      BY <2>1, SearchStep
  <1>2. CASE ~(StripAll(b.text) # <<>> /\ b.active)
    <2>1. /\ box' = IF f = Field THEN Activate(b, TRUE) ELSE b
          /\ focus' = f
      BY <1>2 DEF OnSelectItem
    <2>2. /\ Activate(b, TRUE) \in Boxes
          /\ Empty(Activate(b, TRUE))
          /\ Activate(b, TRUE).active
      BY ActivateFacts
    <2>3. QED
      BY <2>1, <2>2 DEF Inv, Passed, FieldIsActive
  <1>3. QED
    BY <1>1, <1>2

\* Comparing the field's text on a key stroke keeps the invariant.
LEMMA CompareTextStep ==
    ASSUME NEW b, NEW f, Passed(b, f), CompareText(b, f)
    PROVE  Inv'
  <1>1. \/ box' = Forget(b) /\ focus' = ItemGone(f)
        \/ box' = b /\ focus' = f
    BY DEF CompareText
  <1>2. /\ Forget(b) \in Boxes
        /\ Forget(b).active = b.active
        /\ Empty(Forget(b))
    BY ForgetFacts DEF Passed
  <1>3. QED
    BY <1>1, <1>2, ItemGoneFacts DEF Passed, Inv, FieldIsActive

\* A key typed in the search field keeps the invariant.
LEMMA FieldStep ==
    ASSUME Inv, NEW key, OnSearchFieldChange(key)
    PROVE  Inv'
  <1>1. Passed(box, focus) /\ box \in Boxes /\ Empty(box)
    BY DEF Inv, Passed, FieldIsActive
  <1>2. Blurred \in Boxes /\ Empty(Blurred)
    BY <1>1, BlurredFacts
  <1>3. CASE CompareText(box, focus)
    BY <1>1, <1>3, CompareTextStep
  <1>4. ASSUME NEW r, CompareText(Blurred, Item(r, 0)) PROVE Inv'
    <2>1. Passed(Blurred, Item(r, 0))
      BY <1>2, Places DEF Passed
    <2>2. QED
      BY <1>4, <2>1, CompareTextStep
  <1>5. CASE focus' = Menu /\ box' = Blurred
    BY <1>2, <1>5, Places DEF Inv, FieldIsActive
  <1>6. CASE focus' = Page /\ box' = Activate(Forget(Blurred), FALSE)
    <2>1. Forget(Blurred) \in Boxes
      BY <1>2, ForgetFacts
    <2>2. box' \in Boxes /\ Empty(box')
      BY <1>6, <2>1, ActivateFacts
    <2>3. QED
      BY <1>6, <2>2, Places DEF Inv, FieldIsActive
  <1>7. QED
    BY <1>3, <1>4, <1>5, <1>6 DEF OnSearchFieldChange

\* The handlers of the section menu and of the icon keep the invariant.
LEMMA MenuStep ==
    ASSUME Inv
    PROVE  /\ \A key : OnSearchSelectKey(key) => Inv'
           /\ \A id : ClickSection(id) => Inv'
           /\ IconKey => Inv'
           /\ CloseSelectionWindow => Inv'
  <1>1. Passed(box, focus) /\ box \in Boxes /\ Empty(box)
    BY DEF Inv, Passed, FieldIsActive
  <1>2. ASSUME NEW key, OnSearchSelectKey(key) PROVE Inv'
    <2>1. focus = Menu
      BY <1>2 DEF OnSearchSelectKey
    <2>2. \E id : \/ OnSelectItem(id, box, Menu)
                 \/ OnSelectItem(id, box, Field)
      <3>1. CASE OnSelectItem(searchIndex + 1, box, focus)
        BY <2>1, <3>1
      <3>2. CASE OnSelectItem(searchIndex - 1, box, focus)
        BY <2>1, <3>2
      <3>3. CASE \E throws : OnSelectItem(searchIndex, box, IF throws THEN Menu ELSE Field)
        BY <3>3
      <3>4. QED
        BY <1>2, <3>1, <3>2, <3>3 DEF OnSearchSelectKey
    <2>3. Passed(box, Menu)
      BY <1>1, Places DEF Passed
    <2>4. QED
      BY <1>1, <2>2, <2>3, OnSelectItemStep
  <1>3. ASSUME NEW id, ClickSection(id) PROVE Inv'
    <2>1. OnSelectItem(id, Blurred, Menu)
      BY <1>3 DEF ClickSection
    <2>2. Blurred \in Boxes /\ Empty(Blurred)
      BY <1>1, BlurredFacts
    <2>3. Passed(Blurred, Menu)
      BY <2>2, Places DEF Passed
    <2>4. QED
      BY <2>1, <2>2, <2>3, OnSelectItemStep
  <1>4. ASSUME IconKey PROVE Inv'
    BY <1>1, <1>4, Places DEF IconKey, Inv, FieldIsActive
  <1>5. ASSUME CloseSelectionWindow PROVE Inv'
    BY <1>1, <1>5, Places DEF CloseSelectionWindow, MenuGone, Inv, FieldIsActive
  <1>6. QED
    BY <1>2, <1>3, <1>4, <1>5

\* The handlers of the results and of their close button keep the invariant.
LEMMA ResultStep ==
    ASSUME Inv
    PROVE  /\ ItemKey => Inv'
           /\ \A r : Toggle(r) => Inv'
           /\ CloseClicked => Inv'
  <1>1. Passed(box, focus) /\ box \in Boxes /\ Empty(box)
    BY DEF Inv, Passed, FieldIsActive
  <1>2. Blurred \in Boxes /\ Empty(Blurred)
    BY <1>1, BlurredFacts
  <1>3. /\ Activate(box, TRUE) \in Boxes
        /\ Empty(Activate(box, TRUE))
        /\ Activate(box, TRUE).active
    BY <1>1, ActivateFacts
  <1>4. ASSUME NEW r \in DOMAIN Rows, NEW key, RowKey(key, r) PROVE Inv'
    <2>1. focus = Item(r, 0)
      BY <1>4 DEF RowKey
    <2>2. \A k : RowAfter(k) # Field
      BY <2>1, Places DEF RowAfter
    <2>3. \A i, k : LastIn(i, k) # Field
      BY <2>1, Places DEF LastIn
    <2>4. \/ focus' = Field /\ box' = Activate(box, TRUE)
          \/ box' = box /\ focus' # Field
      BY <1>4, <2>1, <2>2, <2>3, Places DEF RowKey
    <2>5. QED
      BY <1>1, <1>3, <2>4 DEF Inv, FieldIsActive
  <1>5. ASSUME NEW r \in DOMAIN Rows, NEW c, NEW key, ChildKey(key, r, c) PROVE Inv'
    <2>1. focus = Item(r, c)
      BY <1>5 DEF ChildKey
    <2>2. \A k : RowAfter(k) # Field
      BY <2>1, Places DEF RowAfter
    <2>3. box' = box /\ focus' # Field
      BY <1>5, <2>2, Places DEF ChildKey
    <2>4. QED
      BY <1>1, <2>3 DEF Inv, FieldIsActive
  <1>6. ASSUME ItemEscape PROVE Inv'
    <2>1. focus' = Field /\ box' = Activate(CloseResultsWindow(box), TRUE)
      BY <1>6 DEF ItemEscape
    <2>2. CloseResultsWindow(box) \in Boxes
      BY <1>1, CloseFacts
    <2>3. box' \in Boxes /\ Empty(box') /\ box'.active
      BY <2>1, <2>2, ActivateFacts
    <2>4. QED
      BY <2>3 DEF Inv, FieldIsActive
  <1>7. ASSUME NEW r, Toggle(r) PROVE Inv'
    BY <1>2, <1>7, Places DEF Toggle, Inv, FieldIsActive
  <1>8. ASSUME CloseClicked PROVE Inv'
    <2>1. box' = CloseResultsWindow(Blurred) /\ focus' = Page
      BY <1>8 DEF CloseClicked
    <2>2. box' \in Boxes /\ Empty(box')
      BY <1>2, <2>1, CloseFacts
    <2>3. QED
      BY <2>1, <2>2, Places DEF Inv, FieldIsActive
  <1>9. QED
    BY <1>4, <1>5, <1>6, <1>7, <1>8 DEF ItemKey

\* Focus, typing, a restored state and a page load keep the invariant.
LEMMA PageStep ==
    ASSUME Inv
    PROVE  /\ OnSearchFieldFocus => Inv'
           /\ \A text \in Texts : Type(text) => Inv'
           /\ ResetState => Inv'
           /\ init_search => Inv'
  <1>1. box \in Boxes /\ Empty(box)
    BY DEF Inv
  <1>2. ASSUME OnSearchFieldFocus PROVE Inv'
    <2>1. CASE focus' = Field /\ box' = Activate(box, TRUE)
      <3>1. box' \in Boxes /\ Empty(box') /\ box'.active
        BY <1>1, <2>1, ActivateFacts
      <3>2. QED
        BY <3>1 DEF Inv, FieldIsActive
    <2>2. CASE focus' = Page /\ box' = Blurred
      BY <1>1, <2>2, BlurredFacts, Places DEF Inv, FieldIsActive
    <2>3. QED
      BY <1>2, <2>1, <2>2 DEF OnSearchFieldFocus
  <1>3. ASSUME NEW text \in Texts, Type(text) PROVE Inv'
    <2>1. focus = Field /\ box' = [box EXCEPT !.text = text]
      BY <1>3 DEF Type
    <2>2. box.active
      BY <2>1 DEF Inv, FieldIsActive
    <2>3. box' \in Boxes /\ box'.active
      BY <1>1, <2>1, <2>2 DEF Boxes
    <2>4. QED
      BY <2>3 DEF Inv, FieldIsActive, Empty
  <1>4. ASSUME ResetState PROVE Inv'
    <2>1. /\ box' = CloseResultsWindow([box EXCEPT !.text = <<>>])
          /\ focus' # Field
      BY <1>4, Places DEF ResetState, Field, Page
    <2>2. [box EXCEPT !.text = <<>>] \in Boxes
      BY <1>1, EmptyTexts DEF Boxes
    <2>3. box' \in Boxes /\ Empty(box')
      BY <2>1, <2>2, CloseFacts
    <2>4. QED
      BY <2>1, <2>3 DEF Inv, FieldIsActive
  <1>5. ASSUME init_search PROVE Inv'
    <2>1. box' = Fresh.box /\ focus' = Page
      BY <1>5 DEF init_search
    <2>2. box' \in Boxes /\ Empty(box')
      BY <2>1, EmptyTexts DEF Fresh, Boxes, Empty
    <2>3. QED
      BY <2>1, <2>2, Places DEF Inv, FieldIsActive
  <1>6. QED
    BY <1>2, <1>3, <1>4, <1>5

\* A page is loaded with an empty, inactive box.
LEMMA InvInit == Init => Inv
  BY EmptyTexts, Places DEF Init, Inv, Fresh, Boxes, Empty, FieldIsActive

\* The invariant is inductive.
LEMMA InvStep == Inv /\ [Next]_vars => Inv'
  <1> SUFFICES ASSUME Inv, [Next]_vars PROVE Inv'
    OBVIOUS
  <1>1. Passed(box, focus)
    BY InvIsPassed
  <1>2. CASE UNCHANGED <<box, focus>>
    BY <1>2 DEF Inv, FieldIsActive
  <1>3. CASE SearchTimer \/ StrayTimer
    BY <1>1, <1>3, SearchStep DEF SearchTimer, StrayTimer
  <1>4. CASE \E n \in DOMAIN loading : ScriptLoads(n)
    BY <1>1, <1>4, HandleResultsStep DEF ScriptLoads
  <1>5. CASE Browser
    <2>1. CASE \E n \in DOMAIN loading : ScriptFails(n)
      BY <1>2, <2>1 DEF ScriptFails
    <2>2. QED
      BY <1>3, <1>4, <1>5, <2>1, MenuStep DEF Browser
  <1>6. CASE Reader
    <2>1. CASE OnSearchSelectShow \/ OnSearchSelectHide
      BY <1>2, <2>1 DEF OnSearchSelectShow, OnSearchSelectHide
    <2>2. QED
      BY <1>6, <2>1, FieldStep, MenuStep, ResultStep, PageStep DEF Reader
  <1>7. QED
    BY <1>2, <1>5, <1>6 DEF Next, vars

(***************************************************************************)
(* A panel that looks inactive holds no text and remembers no search,      *)
(* whatever timers, scripts, keys and clicks came in which order.          *)
(***************************************************************************)
THEOREM InactiveBoxIsEmptyCorrect == Spec => []InactiveBoxIsEmpty
  <1>1. Inv => InactiveBoxIsEmpty
    BY DEF Inv, Empty, InactiveBoxIsEmpty
  <1>2. QED
    BY InvInit, InvStep, <1>1, PTL DEF Spec

-----------------------------------------------------------------------------
(* The types, and the place of the focus                                    *)

TimersOK ==
    /\ typed \in BOOLEAN /\ keyTimer \in BOOLEAN
    /\ answer \in {"sound", "overtaken", "missed"}
    /\ stray \in 0 .. MaxStray

SectionsOK ==
    /\ searchIndex \in 0 .. SelectItemCount
    /\ setting \in SectionIds
    /\ menu \in [shown : BOOLEAN, hiding : BOOLEAN]

Searches == [section : SectionIds, file : Nat, value : Values]

LoadsOK ==
    /\ loading \in Seq(Searches)
    /\ Len(loading) <= MaxLoads
    /\ \A n \in DOMAIN loading :
            loading[n].file \in DOMAIN Sections[loading[n].section + 1]

(* The rows that show follow one another, and a row that is open has children. *)
ResultsOK ==
    /\ \A first, last \in results.shown : first .. last \subseteq results.shown
    /\ results \in [section : SectionIds, file : Nat,
                    shown : SUBSET DOMAIN Rows, open : SUBSET DOMAIN Rows]
    /\ results.file \in {None} \cup DOMAIN Sections[results.section + 1]
    /\ \A r \in results.open : Children(r) # {}

\* Place f can have the focus beside box b.
Placed(b, f) == f \in {Page, Field, Menu} \cup (IF b.shown THEN Displayed ELSE {})

TypeInv ==
    /\ box \in Boxes /\ Placed(box, focus)
    /\ TimersOK /\ SectionsOK /\ LoadsOK /\ ResultsOK

\* The invariant strengthens the types by the children of open rows.
LEMMA TypeInvTypes == TypeInv => TypeOK
  BY DEF TypeInv, TypeOK, Boxes, Placed, TimersOK, SectionsOK, LoadsOK, ResultsOK, Searches

\* A section has files, the first of them among them, and a file has rows.
LEMMA FilesOf ==
    ASSUME NEW section \in SectionIds
    PROVE  /\ section + 1 \in DOMAIN Sections
           /\ 1 \in DOMAIN Sections[section + 1]
           /\ DOMAIN Sections[section + 1] \subseteq Nat \ {0}
           /\ \A f \in DOMAIN Sections[section + 1] :
                File(section, f).rows \in Seq([name : Seq(Chars), children : Nat])
  <1> DEFINE RowSet == [name : Seq(Chars), children : Nat]
             FileSet == [initial : Chars, rows : Seq(RowSet)]
  <1>1. Sections \in Seq(Seq(FileSet)) /\ <<>> \notin Range(Sections)
    BY SearchAssumption DEF SearchAssumption
  <1> HIDE DEF RowSet
  <1>2. section + 1 \in DOMAIN Sections
    BY <1>1 DEF SectionIds, SelectItemCount
  <1>3. Sections[section + 1] \in Seq(FileSet)
    BY <1>1, <1>2
  <1>4. Sections[section + 1] # <<>>
    BY <1>1, <1>2 DEF Range
  <1>5. \A f \in DOMAIN Sections[section + 1] : Sections[section + 1][f] \in FileSet
    <2> HIDE DEF FileSet
    <2>1. QED
      BY <1>3, Elements
  <1>6. /\ 1 \in DOMAIN Sections[section + 1]
        /\ DOMAIN Sections[section + 1] \subseteq Nat \ {0}
    BY <1>3, <1>4
  <1>7. \A f \in DOMAIN Sections[section + 1] : File(section, f).rows \in Seq(RowSet)
    BY <1>5 DEF File
  <1>8. QED
    BY <1>2, <1>6, <1>7 DEF RowSet

\* The rows on the page are numbered from 1 and have numbers of children.
LEMMA RowsAre ==
    ASSUME ResultsOK
    PROVE  /\ Rows \in Seq([name : Seq(Chars), children : Nat])
           /\ DOMAIN Rows \subseteq Nat \ {0}
           /\ \A r \in DOMAIN Rows : Rows[r].children \in Nat
  <1> DEFINE RowSet == [name : Seq(Chars), children : Nat]
  <1>1. Rows \in Seq(RowSet)
    <2>1. CASE results.file = None
      BY <2>1 DEF Rows
    <2>2. CASE results.file # None
      <3>1. /\ results.section \in SectionIds
            /\ results.file \in DOMAIN Sections[results.section + 1]
        BY <2>2 DEF ResultsOK
      <3>2. QED
        BY <2>2, <3>1, FilesOf DEF Rows
    <2>3. QED
      BY <2>1, <2>2
  <1>2. \A r \in DOMAIN Rows : Rows[r] \in RowSet
    <2> HIDE DEF RowSet
    <2>1. QED
      BY <1>1, Elements
  <1>3. QED
    BY <1>1, <1>2

\* What is displayed are rows that show and children of open ones.
LEMMA DisplayedAre ==
    /\ \A r : Item(r, 0) \in Displayed <=> r \in results.shown
    /\ \A r, c : c # 0 =>
        (Item(r, c) \in Displayed <=>
            r \in results.shown /\ r \in results.open /\ c \in Children(r))
    /\ \A e \in Displayed : e.at = "item" /\ e = Item(e.row, e.child)
  <1>1. \A r, c, q, d : Item(r, c) = Item(q, d) <=> r = q /\ c = d
    BY DEF Item
  <1>2. \A r, c : /\ Item(r, c).at = "item"
                 /\ Item(r, c) = Item(Item(r, c).row, Item(r, c).child)
    BY DEF Item
  <1>3. \A e \in Displayed : \E r, c : e = Item(r, c)
    BY DEF Displayed
  <1>4. \A r : Item(r, 0) \in Displayed <=> r \in results.shown
    BY <1>1 DEF Displayed
  <1>5. ASSUME NEW r, NEW c, c # 0
        PROVE  Item(r, c) \in Displayed <=>
                    r \in results.shown /\ r \in results.open /\ c \in Children(r)
    BY <1>1, <1>5 DEF Displayed
  <1>6. QED
    BY <1>2, <1>3, <1>4, <1>5

\* NavNext finds the first row shown at or past a place, if there is one.
LEMMA NavNextIs ==
    ASSUME ResultsOK, NEW r \in Int
    PROVE  \/ NavNext(r) = None /\ \A k \in results.shown : k < r
           \/ /\ NavNext(r) \in results.shown /\ NavNext(r) >= r
              /\ \A k \in results.shown : k >= r => NavNext(r) <= k
  <1> DEFINE ahead == {k \in results.shown : k >= r}
  <1>1. results.shown \in SUBSET Nat
    BY RowsAre DEF ResultsOK
  <1>2. CASE ahead = {}
    BY <1>1, <1>2 DEF NavNext
  <1>3. CASE ahead # {}
    <2>1. ahead \in SUBSET Nat
      BY <1>1
    <2> HIDE DEF ahead
    <2>2. \E k \in ahead : \A j \in ahead : k <= j
      BY <1>3, <2>1, LeastNumber
    <2>3. NavNext(r) = CHOOSE k \in ahead : \A j \in ahead : k <= j
      BY <1>3 DEF NavNext, ahead
    <2>4. NavNext(r) \in ahead /\ \A j \in ahead : NavNext(r) <= j
      BY <2>2, <2>3
    <2>5. QED
      BY <2>4 DEF ahead
  <1>4. QED
    BY <1>2, <1>3

\* NavPrev finds the last row shown at or before a place, if there is one.
LEMMA NavPrevIs ==
    ASSUME ResultsOK, NEW r \in Nat
    PROVE  \/ NavPrev(r) = None /\ \A k \in results.shown : k > r
           \/ /\ NavPrev(r) # None
              /\ NavPrev(r) \in results.shown /\ NavPrev(r) <= r
              /\ \A k \in results.shown : k <= r => k <= NavPrev(r)
  <1> DEFINE behind == {k \in results.shown : k <= r}
  <1>1. results.shown \in SUBSET Nat /\ None \notin results.shown
    BY RowsAre DEF ResultsOK, None
  <1>2. CASE behind = {}
    BY <1>1, <1>2 DEF NavPrev
  <1>3. CASE behind # {}
    <2>1. behind \in SUBSET Nat /\ \A k \in behind : k <= r
      BY <1>1
    <2> HIDE DEF behind
    <2>2. \E k \in behind : \A j \in behind : k >= j
      <3>1. \E k \in behind : \A j \in behind : j <= k
        BY <1>3, <2>1, GreatestNumber
      <3>2. \A j, k \in behind : j <= k <=> k >= j
        BY <2>1
      <3>3. QED
        BY <3>1, <3>2
    <2>3. NavPrev(r) = CHOOSE k \in behind : \A j \in behind : k >= j
      BY <1>3 DEF NavPrev, behind
    <2>4. NavPrev(r) \in behind /\ \A j \in behind : NavPrev(r) >= j
      BY <2>2, <2>3
    <2>5. QED
      BY <1>1, <2>1, <2>4 DEF behind
  <1>4. QED
    BY <1>2, <1>3

\* A result that is gone leaves the focus elsewhere than in the results.
LEMMA GoneIsPlaced ==
    ASSUME NEW b, NEW f, Placed(b, f)
    PROVE  ItemGone(f) \in {Page, Field, Menu}
  BY DisplayedAre DEF ItemGone, Placed

\* With the same results the same is displayed.
LEMMA SameResults ==
    ASSUME results' = results
    PROVE  /\ Rows' = Rows /\ Displayed' = Displayed
           /\ \A r : Children(r)' = Children(r)
  BY DEF Rows, Displayed, Children

\* Beside a box whose window is as it was, a place of the focus remains one.
LEMMA StaysPlaced ==
    ASSUME results' = results, Placed(box', focus')
    PROVE  Placed(box, focus)'
  BY SameResults DEF Placed

\* Results that stay as they are remain well formed.
LEMMA SameResultsOK ==
    ASSUME results' = results, ResultsOK
    PROVE  ResultsOK'
  BY SameResults DEF ResultsOK

\* What a search finds are rows of its file, one after another.
LEMMA FoundRows ==
    ASSUME NEW section \in SectionIds, NEW f \in DOMAIN Sections[section + 1],
           NEW value \in Values
    PROVE  /\ Found[section + 1][f][value] =
                {r \in DOMAIN File(section, f).rows :
                    Matches(File(section, f).rows[r].name, value)}
           /\ \A first, last \in Found[section + 1][f][value] :
                first .. last \subseteq Found[section + 1][f][value]
  <1>1. section + 1 \in DOMAIN Sections
    BY FilesOf
  <1>2. Found[section + 1][f][value] =
            {r \in DOMAIN Sections[section + 1][f].rows :
                Matches(Sections[section + 1][f].rows[r].name, value)}
    BY <1>1 DEF Found
  <1>3. \A first, last \in Found[section + 1][f][value] :
                first .. last \subseteq Found[section + 1][f][value]
    BY <1>1, OrderAssumption DEF OrderAssumption
  <1>4. QED
    BY <1>2, <1>3 DEF File

\* A search's rows are well formed, and its results leave the focus elsewhere.
LEMMA HandleResultsTypes ==
    ASSUME ResultsOK, NEW b \in Boxes, NEW f, Placed(b, f),
           NEW section \in SectionIds,
           NEW file \in {None} \cup DOMAIN Sections[section + 1],
           NEW value \in Values, HandleResults(b, f, section, file, value)
    PROVE  ResultsOK' /\ box' \in Boxes /\ Placed(box, focus)'
  <1>1. box' \in Boxes
    BY DEF HandleResults, Boxes
  <1>2. Placed(box, focus)'
    BY GoneIsPlaced DEF HandleResults, Placed
  <1>3. CASE file = None
    <2>1. results' = [section |-> results.section, file |-> results.file,
                      shown |-> {}, open |-> {}]
      BY <1>3 DEF HandleResults
    <2>2. Rows' = Rows
      BY <2>1 DEF Rows
    <2>3. QED
      BY <1>1, <1>2, <2>1, <2>2 DEF ResultsOK
  <1>4. CASE file # None
    <2>1. results' = [section |-> section, file |-> file,
                      shown |-> Found[section + 1][file][value], open |-> {}]
      BY <1>4 DEF HandleResults
    <2>2. file \in DOMAIN Sections[section + 1] /\ file \in Nat
      BY <1>4, FilesOf
    <2>3. Rows' = File(section, file).rows
      BY <1>4, <2>1 DEF Rows
    <2>4. /\ results'.shown \subseteq DOMAIN Rows'
          /\ \A first, last \in results'.shown : first .. last \subseteq results'.shown
      BY <2>1, <2>2, <2>3, FoundRows
    <2>5. QED
      BY <1>1, <1>2, <2>1, <2>2, <2>4 DEF ResultsOK
  <1>5. QED
    BY <1>3, <1>4

\* The script of a text is a file of the section, or there is none.
LEMMA ScriptIs ==
    ASSUME NEW section \in SectionIds, NEW value \in Values
    PROVE  /\ Script[section][value] = ScriptOf(section, value)
           /\ Script[section][value] \in {None} \cup DOMAIN Sections[section + 1]
  <1>1. ScriptOf(section, value) \in {None} \cup DOMAIN Sections[section + 1]
    BY FilesOf DEF ScriptOf
  <1>2. QED
    BY <1>1 DEF Script

\* A script requested is one that there is.
LEMMA RequestTypes ==
    ASSUME LoadsOK, Len(loading) < MaxLoads, NEW section \in SectionIds,
           NEW file \in DOMAIN Sections[section + 1], NEW value \in Values,
           loading' = Append(loading, [section |-> section, file |-> file, value |-> value])
    PROVE  LoadsOK'
  <1> DEFINE e == [section |-> section, file |-> file, value |-> value]
  <1>1. e \in Searches /\ e.file \in DOMAIN Sections[e.section + 1]
    BY FilesOf DEF Searches
  <1>2. loading' = Append(loading, e) /\ loading \in Seq(Searches)
    BY DEF LoadsOK
  <1> HIDE DEF e
  <1>3. /\ loading' \in Seq(Searches) /\ Len(loading') = Len(loading) + 1
        /\ DOMAIN loading' = 1 .. Len(loading) + 1 /\ DOMAIN loading = 1 .. Len(loading)
        /\ \A k \in 1 .. Len(loading) : loading'[k] = loading[k]
        /\ loading'[Len(loading) + 1] = e
    BY <1>1, <1>2, Appended
  <1>4. Len(loading) \in Nat /\ MaxLoads \in Nat
    BY <1>2, SearchAssumption DEF SearchAssumption
  <1>5. Len(loading') <= MaxLoads
    BY <1>3, <1>4
  <1>6. ASSUME NEW n \in DOMAIN loading'
        PROVE  loading'[n].file \in DOMAIN Sections[loading'[n].section + 1]
    <2>1. n \in 1 .. Len(loading) \/ n = Len(loading) + 1
      BY <1>3, <1>4
    <2>2. QED
      BY <1>1, <1>3, <2>1 DEF LoadsOK
  <1>7. QED
    BY <1>3, <1>5, <1>6 DEF LoadsOK

\* A script that has run is off the list.
LEMMA LoadedTypes ==
    ASSUME LoadsOK, NEW n \in DOMAIN loading, loading' = RemoveAt(loading, n)
    PROVE  /\ LoadsOK'
           /\ loading[n].section \in SectionIds /\ loading[n].value \in Values
           /\ loading[n].file \in DOMAIN Sections[loading[n].section + 1]
  <1>1. loading \in Seq(Searches)
    BY DEF LoadsOK
  <1>2. /\ loading' \in Seq(Searches) /\ Len(loading') = Len(loading) - 1
        /\ DOMAIN loading' = 1 .. Len(loading) - 1
        /\ \A j \in 1 .. Len(loading) - 1 :
                loading'[j] = loading[IF j < n THEN j ELSE j + 1]
    BY <1>1, Removed
  <1>3. DOMAIN loading = 1 .. Len(loading) /\ Len(loading) \in Nat /\ MaxLoads \in Nat
    BY <1>1, SearchAssumption DEF SearchAssumption
  <1>4. \A j \in DOMAIN loading' : (IF j < n THEN j ELSE j + 1) \in DOMAIN loading
    BY <1>2, <1>3
  <1>5. ASSUME NEW j \in DOMAIN loading'
        PROVE  loading'[j].file \in DOMAIN Sections[loading'[j].section + 1]
    <2> DEFINE i == IF j < n THEN j ELSE j + 1
    <2>1. i \in DOMAIN loading /\ loading'[j] = loading[i]
      BY <1>2, <1>4
    <2> HIDE DEF i
    <2>2. QED
      BY <2>1 DEF LoadsOK
  <1>6. Len(loading') <= MaxLoads
    BY <1>2, <1>3 DEF LoadsOK
  <1>7. loading[n] \in Searches
    BY <1>1, Elements
  <1>8. QED
    BY <1>2, <1>5, <1>6, <1>7 DEF LoadsOK, Searches

-----------------------------------------------------------------------------
(* Each handler keeps the types.                                            *)

\* The window shows after a part of a handler if it did before it.
LEMMA WindowFacts ==
    ASSUME NEW b, b \in Boxes
    PROVE  /\ \A isActive \in BOOLEAN : Activate(b, isActive).shown = b.shown
           /\ ~Hide(b).shown /\ ~Forget(b).shown
  BY DEF Activate, Hide, Forget, Boxes

\* The box after the blur event is well formed and its window is as it was.
LEMMA BlurredTypes ==
    ASSUME box \in Boxes
    PROVE  Blurred \in Boxes /\ Blurred.shown = box.shown
  BY ActivateFacts, WindowFacts DEF Blurred

\* What a search leaves of timers, scripts, results, box and focus.
LEMMA SearchTypes ==
    ASSUME TypeInv, NEW b \in Boxes, NEW f, Placed(b, f),
           NEW section \in 0 .. SelectItemCount, NEW fired \in BOOLEAN,
           fired => keyTimer \/ stray > 0, Search(b, f, section, fired)
    PROVE  /\ box' \in Boxes /\ Placed(box, focus)'
           /\ TimersOK' /\ LoadsOK' /\ ResultsOK'
  <1> DEFINE value == Value[b.text]
             searched == [b EXCEPT !.last = value]
             file == Script[section][value]
  <1>1. TimersOK /\ LoadsOK /\ ResultsOK
    BY DEF TypeInv
  <1>2. value \in Values
    BY ValueIs DEF Boxes
  <1>3. searched \in Boxes /\ searched.shown = b.shown
    <2> HIDE DEF value
    <2>1. QED
      BY <1>2 DEF Boxes
  <1>4. Placed(searched, f)
    BY <1>3 DEF Placed
  <1>5. /\ keyTimer' = FALSE
        /\ stray' = (stray + IF keyTimer THEN 1 ELSE 0) - IF fired THEN 1 ELSE 0
        /\ stray' <= MaxStray
        /\ typed' = (typed /\ section = SelectItemCount)
    BY DEF Search
  <1>6. typed' \in BOOLEAN /\ keyTimer' \in BOOLEAN /\ stray' \in 0 .. MaxStray
    <2>1. stray \in Nat /\ MaxStray \in Nat /\ keyTimer \in BOOLEAN
      BY <1>1, SearchAssumption DEF TimersOK, SearchAssumption
    <2>2. stray' \in 0 .. MaxStray
      BY <1>5, <2>1
    <2>3. QED
      BY <1>5, <2>2
  <1>7. CASE section = SelectItemCount
    <2>1. box' = b /\ focus' = f /\ UNCHANGED resultVars
      BY <1>7 DEF Search
    <2>2. Placed(box, focus)' /\ ResultsOK'
      BY <1>1, <2>1, StaysPlaced, SameResultsOK DEF resultVars
    <2>3. QED
      BY <1>1, <1>6, <2>1, <2>2 DEF resultVars, TimersOK, LoadsOK
  <1>8. CASE section # SelectItemCount
    <2>1. section \in SectionIds
      BY <1>8 DEF SectionIds, SelectItemCount
    <2>2. file \in {None} \cup DOMAIN Sections[section + 1]
      BY <1>2, <2>1, ScriptIs
    <2>3. /\ answer' = IF loading = <<>> THEN "sound" ELSE "overtaken"
          /\ \/ /\ file # None
                /\ Len(loading) < MaxLoads
                /\ loading' = Append(loading, [section |-> section, file |-> file,
                                               value |-> value])
                /\ box' = searched /\ focus' = f
                /\ UNCHANGED results
             \/ /\ file = None
                /\ HandleResults(searched, f, section, file, value)
                /\ UNCHANGED loading
      BY <1>8 DEF Search
    <2>4. TimersOK'
      BY <1>6, <2>3 DEF TimersOK
    <2> HIDE DEF value, searched, file
    <2>5. CASE HandleResults(searched, f, section, file, value) /\ UNCHANGED loading
      <3>1. ResultsOK' /\ box' \in Boxes /\ Placed(box, focus)'
        BY <1>1, <1>2, <1>3, <1>4, <2>1, <2>2, <2>5, HandleResultsTypes
      <3>2. QED
        BY <1>1, <2>4, <2>5, <3>1 DEF LoadsOK
    <2>6. CASE /\ file # None /\ Len(loading) < MaxLoads
               /\ loading' = Append(loading, [section |-> section, file |-> file,
                                              value |-> value])
               /\ box' = searched /\ focus' = f
               /\ UNCHANGED results
      <3>1. LoadsOK'
        BY <1>1, <1>2, <2>1, <2>2, <2>6, RequestTypes
      <3>2. Placed(box, focus)' /\ ResultsOK'
        BY <1>1, <1>4, <2>6, StaysPlaced, SameResultsOK
      <3>3. QED
        BY <1>3, <2>4, <2>6, <3>1, <3>2
    <2>7. QED
      BY <2>3, <2>5, <2>6
  <1>9. QED
    BY <1>7, <1>8

\* Choosing a section, by key or by mouse, keeps the types.
LEMMA OnSelectItemTypes ==
    ASSUME TypeInv, NEW id \in 0 .. SelectItemCount, NEW b \in Boxes,
           NEW f \in {Field, Menu}, OnSelectItem(id, b, f)
    PROVE  /\ box' \in Boxes /\ Placed(box, focus)'
           /\ TimersOK' /\ LoadsOK' /\ ResultsOK'
           /\ searchIndex' \in 0 .. SelectItemCount /\ setting' \in SectionIds
  <1>1. TimersOK /\ LoadsOK /\ ResultsOK /\ setting \in SectionIds
    BY DEF TypeInv, SectionsOK
  <1>2. searchIndex' = id /\ setting' = IF id < SelectItemCount THEN id ELSE setting
    BY DEF OnSelectItem, SelectItemSet
  <1>3. searchIndex' \in 0 .. SelectItemCount /\ setting' \in SectionIds
    BY <1>1, <1>2 DEF SectionIds, SelectItemCount
  <1>4. \A c : Placed(c, f)
    BY DEF Placed
  <1>5. CASE StripAll(b.text) # <<>> /\ b.active
    <2>1. Search(b, f, id, FALSE)
      BY <1>5 DEF OnSelectItem
    <2>2. QED
      BY <1>3, <1>4, <2>1, SearchTypes
  <1>6. CASE ~(StripAll(b.text) # <<>> /\ b.active)
    <2>1. /\ box' = (IF f = Field THEN Activate(b, TRUE) ELSE b)
          /\ focus' = f
          /\ answer' = IF answer = "sound" /\ id # searchIndex /\ b.last # <<>>
                       THEN "overtaken" ELSE answer
          /\ UNCHANGED <<typed, timerVars, loading, results>>
      BY <1>6 DEF OnSelectItem
    <2>2. box' \in Boxes
      BY <2>1, ActivateFacts
    <2>3. Placed(box, focus)' /\ ResultsOK'
      BY <1>1, <1>4, <2>1, StaysPlaced, SameResultsOK
    <2>4. TimersOK' /\ LoadsOK'
      BY <1>1, <2>1 DEF TimersOK, LoadsOK, timerVars
    <2>5. QED
      BY <1>3, <2>2, <2>3, <2>4
  <1>7. QED
    BY <1>5, <1>6

\* With the same results the parts of the invariant other than the box's hold.
Others == TimersOK /\ SectionsOK /\ LoadsOK /\ ResultsOK

\* The keys of the field keep the types.
LEMMA FieldTypes ==
    ASSUME TypeInv, NEW key, OnSearchFieldChange(key)
    PROVE  TypeInv'
  <1>1. box \in Boxes /\ Others /\ Blurred \in Boxes /\ Blurred.shown = box.shown
    BY BlurredTypes DEF TypeInv, Others
  <1>2. UNCHANGED <<stray, sectionVars, resultVars>> /\ results' = results
    BY DEF OnSearchFieldChange, resultVars
  <1>3. typed' \in BOOLEAN
    BY DEF OnSearchFieldChange
  <1>4. menu' = menu \/ menu' = ShowMenu
    BY DEF OnSearchFieldChange
  <1>5. LoadsOK' /\ ResultsOK' /\ SectionsOK'
    <2>1. ResultsOK'
      BY <1>1, <1>2, SameResultsOK DEF Others
    <2>2. LoadsOK'
      BY <1>1, <1>2 DEF LoadsOK, Others, resultVars
    <2>3. SectionsOK'
      BY <1>1, <1>2, <1>4 DEF SectionsOK, Others, sectionVars, ShowMenu
    <2>4. QED
      BY <2>1, <2>2, <2>3
  <1>6. ASSUME NEW b \in Boxes, NEW f, Placed(b, f), CompareText(b, f) PROVE TypeInv'
    <2>1. keyTimer' \in BOOLEAN
      BY <1>6 DEF CompareText
    <2>2. TimersOK'
      BY <1>1, <1>2, <1>3, <2>1 DEF TimersOK, Others, resultVars
    <2>3. \/ box' = Forget(b) /\ focus' = ItemGone(f)
          \/ box' = b /\ focus' = f
      BY <1>6 DEF CompareText
    <2>4. ItemGone(f) \in {Page, Field, Menu} /\ Forget(b) \in Boxes
      BY <1>6, GoneIsPlaced, ForgetFacts
    <2>5. box' \in Boxes /\ Placed(box', focus')
      BY <1>6, <2>3, <2>4 DEF Placed
    <2>6. QED
      BY <1>2, <1>5, <2>2, <2>5, StaysPlaced DEF TypeInv
  <1>7. CASE CompareText(box, focus)
    BY <1>6, <1>7 DEF TypeInv
  <1>8. CASE NavNext(1) # None /\ box.shown /\ CompareText(Blurred, Item(NavNext(1), 0))
    <2>1. NavNext(1) \in results.shown
      BY <1>1, <1>8, NavNextIs DEF Others
    <2>2. Placed(Blurred, Item(NavNext(1), 0))
      BY <1>1, <1>8, <2>1, DisplayedAre DEF Placed
    <2>3. QED
      BY <1>1, <1>6, <1>8, <2>2
  <1>9. CASE /\ focus' \in {Page, Menu} /\ keyTimer' = FALSE
             /\ box' = Blurred \/ box' = Activate(Forget(Blurred), FALSE)
    <2>1. box' \in Boxes
      BY <1>1, <1>9, ForgetFacts, ActivateFacts
    <2>2. TimersOK'
      BY <1>1, <1>2, <1>3, <1>9 DEF TimersOK, Others, resultVars
    <2>3. Placed(box', focus')
      BY <1>9 DEF Placed
    <2>4. QED
      BY <1>2, <1>5, <2>1, <2>2, <2>3, StaysPlaced DEF TypeInv
  <1>10. QED
    BY <1>7, <1>8, <1>9 DEF OnSearchFieldChange

\* The handlers of the section menu and of the icon keep the types.
LEMMA MenuTypes ==
    ASSUME TypeInv
    PROVE  /\ \A key : OnSearchSelectKey(key) => TypeInv'
           /\ \A id \in 0 .. SelectItemCount - 1 : ClickSection(id) => TypeInv'
           /\ IconKey \/ CloseSelectionWindow => TypeInv'
           /\ OnSearchSelectShow \/ OnSearchSelectHide => TypeInv'
  <1>1. box \in Boxes /\ Placed(box, focus) /\ Others /\ Blurred \in Boxes
    BY BlurredTypes DEF TypeInv, Others
  <1>2. /\ searchIndex \in 0 .. SelectItemCount /\ SelectItemCount \in Nat
        /\ menu \in [shown : BOOLEAN, hiding : BOOLEAN]
    <2>1. SelectItemCount \in Nat
      BY SearchAssumption DEF SearchAssumption, SelectItemCount
    <2>2. QED
      BY <1>1, <2>1 DEF Others, SectionsOK
  <1>3. ASSUME NEW id \in 0 .. SelectItemCount, NEW b \in Boxes, NEW f \in {Field, Menu},
               OnSelectItem(id, b, f), menu' \in [shown : BOOLEAN, hiding : BOOLEAN]
        PROVE  TypeInv'
    <2>1. /\ box' \in Boxes /\ Placed(box, focus)'
          /\ TimersOK' /\ LoadsOK' /\ ResultsOK'
          /\ searchIndex' \in 0 .. SelectItemCount /\ setting' \in SectionIds
      BY <1>3, OnSelectItemTypes
    <2>2. SectionsOK'
      BY <1>3, <2>1 DEF SectionsOK, SelectItemCount, SectionIds
    <2>3. QED
      BY <2>1, <2>2 DEF TypeInv
  <1>4. ASSUME NEW key, OnSearchSelectKey(key) PROVE TypeInv'
    <2>1. focus = Menu
      BY <1>4 DEF OnSearchSelectKey
    <2>2. CASE searchIndex < SelectItemCount /\ OnSelectItem(searchIndex + 1, box, focus)
               /\ UNCHANGED menu
      <3>1. searchIndex + 1 \in 0 .. SelectItemCount
        BY <1>2, <2>2
      <3>2. QED
        BY <1>1, <1>2, <1>3, <2>1, <2>2, <3>1
    <2>3. CASE searchIndex > 0 /\ OnSelectItem(searchIndex - 1, box, focus)
               /\ UNCHANGED menu
      <3>1. searchIndex - 1 \in 0 .. SelectItemCount
        BY <1>2, <2>3
      <3>2. QED
        BY <1>1, <1>2, <1>3, <2>1, <2>3, <3>1
    <2>4. CASE \E throws \in BOOLEAN :
                /\ OnSelectItem(searchIndex, box, IF throws THEN Menu ELSE Field)
                /\ menu' = [menu EXCEPT !.shown = throws]
      <3>1. PICK throws \in BOOLEAN :
                /\ OnSelectItem(searchIndex, box, IF throws THEN Menu ELSE Field)
                /\ menu' = [menu EXCEPT !.shown = throws]
        BY <2>4
      <3>2. menu' \in [shown : BOOLEAN, hiding : BOOLEAN]
        BY <1>2, <3>1
      <3>3. QED
        BY <1>1, <1>2, <1>3, <3>1, <3>2
    <2>5. QED
      BY <1>4, <2>2, <2>3, <2>4 DEF OnSearchSelectKey
  <1>5. ASSUME NEW id \in 0 .. SelectItemCount - 1, ClickSection(id) PROVE TypeInv'
    <2>1. OnSelectItem(id, Blurred, Menu) /\ UNCHANGED menu
      BY <1>5 DEF ClickSection
    <2>2. id \in 0 .. SelectItemCount
      BY <1>2
    <2>3. QED
      BY <1>1, <1>2, <1>3, <2>1, <2>2
  <1>6. ASSUME UNCHANGED <<box, typed, timerVars, sectionVars, resultVars>>,
               menu' \in [shown : BOOLEAN, hiding : BOOLEAN],
               focus' = focus \/ focus' \in {Page, Menu}
        PROVE  TypeInv'
    <2>1. results' = results /\ box' = box
      BY <1>6 DEF resultVars
    <2>2. Placed(box', focus')
      BY <1>1, <1>6 DEF Placed
    <2>3. Placed(box, focus)' /\ ResultsOK'
      BY <1>1, <2>1, <2>2, StaysPlaced, SameResultsOK DEF Others
    <2>4. TimersOK' /\ SectionsOK' /\ LoadsOK'
      BY <1>1, <1>6 DEF Others, TimersOK, SectionsOK, LoadsOK, timerVars, sectionVars, resultVars
    <2>5. QED
      BY <1>1, <2>1, <2>3, <2>4 DEF TypeInv
  <1>7. ASSUME IconKey \/ CloseSelectionWindow PROVE TypeInv'
    BY <1>2, <1>6, <1>7 DEF IconKey, CloseSelectionWindow, MenuGone, ShowMenu
  <1>8. ASSUME OnSearchSelectShow \/ OnSearchSelectHide PROVE TypeInv'
    BY <1>2, <1>6, <1>8 DEF OnSearchSelectShow, OnSearchSelectHide, ShowMenu
  <1>9. QED
    BY <1>4, <1>5, <1>7, <1>8

\* Timers that run out and scripts that have run keep the types.
LEMMA BrowserTypes ==
    ASSUME TypeInv, Browser
    PROVE  TypeInv'
  <1>1. /\ box \in Boxes /\ Placed(box, focus) /\ TimersOK /\ SectionsOK
        /\ LoadsOK /\ ResultsOK
    BY DEF TypeInv
  <1>2. CASE SearchTimer \/ StrayTimer
    <2>1. /\ Search(box, focus, searchIndex, TRUE) /\ UNCHANGED <<sectionVars, menu>>
          /\ keyTimer \/ stray > 0
      BY <1>2 DEF SearchTimer, StrayTimer
    <2>2. searchIndex \in 0 .. SelectItemCount
      BY <1>1 DEF SectionsOK
    <2>3. /\ box' \in Boxes /\ Placed(box, focus)'
          /\ TimersOK' /\ LoadsOK' /\ ResultsOK'
      BY <1>1, <2>1, <2>2, SearchTypes
    <2>4. SectionsOK'
      BY <1>1, <2>1 DEF SectionsOK, sectionVars
    <2>5. QED
      BY <2>3, <2>4 DEF TypeInv
  <1>3. CASE \E n \in DOMAIN loading : ScriptLoads(n)
    <2>1. PICK n \in DOMAIN loading : ScriptLoads(n)
      BY <1>3
    <2>2. /\ loading' = RemoveAt(loading, n)
          /\ HandleResults(box, focus, loading[n].section, loading[n].file, loading[n].value)
          /\ UNCHANGED <<typed, timerVars, sectionVars, menu, answer>>
      BY <2>1 DEF ScriptLoads
    <2>3. /\ LoadsOK'
          /\ loading[n].section \in SectionIds /\ loading[n].value \in Values
          /\ loading[n].file \in DOMAIN Sections[loading[n].section + 1]
      BY <1>1, <2>2, LoadedTypes
    <2>4. ResultsOK' /\ box' \in Boxes /\ Placed(box, focus)'
      BY <1>1, <2>2, <2>3, HandleResultsTypes
    <2>5. TimersOK' /\ SectionsOK'
      BY <1>1, <2>2 DEF TimersOK, SectionsOK, timerVars, sectionVars
    <2>6. QED
      BY <2>3, <2>4, <2>5 DEF TypeInv
  <1>4. CASE \E n \in DOMAIN loading : ScriptFails(n)
    <2>1. PICK n \in DOMAIN loading : ScriptFails(n)
      BY <1>4
    <2>2. /\ loading' = RemoveAt(loading, n)
          /\ answer' = IF n = Len(loading) THEN "missed" ELSE answer
          /\ UNCHANGED <<box, focus, typed, timerVars, sectionVars, results, menu>>
      BY <2>1 DEF ScriptFails
    <2>3. LoadsOK'
      BY <1>1, <2>2, LoadedTypes
    <2>4. ResultsOK' /\ Placed(box, focus)'
      BY <1>1, <2>2, StaysPlaced, SameResultsOK
    <2>5. TimersOK' /\ SectionsOK'
      BY <1>1, <2>2 DEF TimersOK, SectionsOK, timerVars, sectionVars
    <2>6. QED
      BY <1>1, <2>2, <2>3, <2>4, <2>5 DEF TypeInv
  <1>5. QED
    BY <1>2, <1>3, <1>4, MenuTypes DEF Browser

-----------------------------------------------------------------------------
(* The arrow keys                                                           *)

\* What is known of an entry that is displayed.
LEMMA EntryFacts ==
    ASSUME ResultsOK, NEW r, NEW c, Item(r, c) \in Displayed
    PROVE  /\ r \in results.shown /\ r \in Nat \ {0} /\ c \in Nat
           /\ Rows[r].children \in Nat
           /\ c # 0 => r \in results.open /\ c <= Rows[r].children
  <1>1. r \in results.shown
    BY DisplayedAre
  <1>2. r \in Nat \ {0} /\ Rows[r].children \in Nat
    BY <1>1, RowsAre DEF ResultsOK
  <1>3. c # 0 => r \in results.open /\ c \in Children(r)
    BY DisplayedAre
  <1>4. QED
    BY <1>1, <1>2, <1>3 DEF Children

\* Two entries are adjacent if no third one is between their numbers.
LEMMA AdjacentItems ==
    ASSUME NEW r, NEW c, NEW k, NEW d,
           Item(r, c) \in Displayed, Item(k, d) \in Displayed,
           r < k \/ (r = k /\ c < d),
           \A j, i : Item(j, i) \in Displayed =>
                ~((r < j \/ (r = j /\ c < i)) /\ (j < k \/ (j = k /\ i < d)))
    PROVE  Adjacent(Item(r, c), Item(k, d))
  <1>1. \A j, i, l, m : Above(Item(j, i), Item(l, m)) <=> j < l \/ (j = l /\ i < m)
    BY DEF Above, Item
  <1>2. ASSUME NEW e \in Displayed
        PROVE  ~(Above(Item(r, c), e) /\ Above(e, Item(k, d)))
    <2>1. PICK j, i : e = Item(j, i)
      BY DisplayedAre
    <2>2. QED
      BY <1>1, <2>1
  <1>3. QED
    BY <1>1, <1>2 DEF Adjacent

\* From an entry with none below it in its row, Down leads to the next row.
LEMMA RowAfterIsAdjacent ==
    ASSUME ResultsOK, NEW r, NEW c, focus = Item(r, c), Item(r, c) \in Displayed,
           \A i : Item(r, i) \in Displayed => ~(c < i)
    PROVE  RowAfter(r) = focus \/ Adjacent(focus, RowAfter(r))
  <1>1. r \in Nat \ {0} /\ r + 1 \in Int /\ c \in Nat
    BY EntryFacts
  <1>2. CASE NavNext(r + 1) = None
    BY <1>2 DEF RowAfter
  <1>3. CASE NavNext(r + 1) # None
    <2> DEFINE k == NavNext(r + 1)
    <2>1. /\ k \in results.shown /\ k >= r + 1
          /\ \A j \in results.shown : j >= r + 1 => k <= j
      BY <1>1, <1>3, NavNextIs
    <2>2. RowAfter(r) = Item(k, 0)
      BY <1>3 DEF RowAfter
    <2> HIDE DEF k
    <2>3. Item(k, 0) \in Displayed
      BY <2>1, DisplayedAre
    <2>4. k \in Nat
      BY <2>3, EntryFacts
    <2>5. r < k
      BY <1>1, <2>1, <2>4
    <2>6. ASSUME NEW j, NEW i, Item(j, i) \in Displayed
          PROVE  ~((r < j \/ (r = j /\ c < i)) /\ (j < k \/ (j = k /\ i < 0)))
      <3>1. j \in results.shown /\ j \in Nat /\ i \in Nat
        BY <2>6, EntryFacts
      <3>2. r = j => ~(c < i)
        BY <2>6
      <3>3. r < j => k <= j
        BY <1>1, <2>1, <3>1
      <3>4. QED
        BY <1>1, <2>4, <3>1, <3>2, <3>3
    <2>7. QED
      BY <2>2, <2>3, <2>5, <2>6, AdjacentItems
  <1>4. QED
    BY <1>2, <1>3

\* Up leads from a row to the entry above it.
LEMMA LastInIsAdjacent ==
    ASSUME ResultsOK, NEW r, focus = Item(r, 0), Item(r, 0) \in Displayed,
           NavPrev(r - 1) # None
    PROVE  Adjacent(LastIn(NavPrev(r - 1), r - 1), focus)
  <1> DEFINE k == NavPrev(r - 1)
  <1>1. r \in results.shown /\ r \in Nat \ {0} /\ r - 1 \in Nat
    BY EntryFacts
  <1>2. /\ k \in results.shown /\ k <= r - 1
        /\ \A j \in results.shown : j <= r - 1 => j <= k
    BY <1>1, NavPrevIs
  <1> HIDE DEF k
  <1>3. Item(k, 0) \in Displayed
    BY <1>2, DisplayedAre
  <1>4. k \in Nat \ {0} /\ Rows[k].children \in Nat
    BY <1>3, EntryFacts
  <1>5. r - 1 \in results.shown
    <2>1. r - 1 \in k .. r
      BY <1>1, <1>2, <1>4
    <2>2. k .. r \subseteq results.shown
      BY <1>1, <1>2 DEF ResultsOK
    <2>3. QED
      BY <2>1, <2>2
  <1>6. k = r - 1
    BY <1>1, <1>2, <1>4, <1>5
  <1>7. \E d \in Nat : /\ LastIn(k, r - 1) = Item(k, d) /\ Item(k, d) \in Displayed
                      /\ \A i : Item(k, i) \in Displayed => ~(d < i)
    <2>1. CASE k \notin results.open \/ Children(k) = {}
      <3>1. LastIn(k, r - 1) = Item(k, 0)
        BY <1>6, <2>1 DEF LastIn
      <3>2. ASSUME NEW i, Item(k, i) \in Displayed PROVE ~(0 < i)
        <4>1. i # 0 => k \in results.open /\ i \in Children(k)
          BY <3>2, DisplayedAre
        <4>2. QED
          BY <2>1, <4>1
      <3>3. QED
        BY <1>3, <3>1, <3>2
    <2>2. CASE k \in results.open /\ Children(k) # {}
      <3>1. LastIn(k, r - 1) = Item(k, Rows[k].children)
        BY <1>5, <1>6, <2>2 DEF LastIn
      <3>2. Rows[k].children # 0 /\ Rows[k].children \in Children(k)
        BY <1>4, <2>2 DEF Children
      <3>3. Item(k, Rows[k].children) \in Displayed
        BY <1>2, <2>2, <3>2, DisplayedAre
      <3>4. ASSUME NEW i, Item(k, i) \in Displayed PROVE ~(Rows[k].children < i)
        BY <1>4, <3>4, EntryFacts
      <3>5. QED
        BY <1>4, <3>1, <3>3, <3>4
    <2>3. QED
      BY <2>1, <2>2
  <1>8. PICK d \in Nat : /\ LastIn(k, r - 1) = Item(k, d) /\ Item(k, d) \in Displayed
                        /\ \A i : Item(k, i) \in Displayed => ~(d < i)
    BY <1>7
  <1>9. ASSUME NEW j, NEW i, Item(j, i) \in Displayed
        PROVE  ~((k < j \/ (k = j /\ d < i)) /\ (j < r \/ (j = r /\ i < 0)))
    <2>1. j \in Nat /\ i \in Nat
      BY <1>9, EntryFacts
    <2>2. k = j => ~(d < i)
      BY <1>8, <1>9
    <2>3. QED
      BY <1>1, <1>4, <1>6, <2>1, <2>2
  <1>10. Adjacent(Item(k, d), Item(r, 0))
    <2>1. k < r
      BY <1>1, <1>6
    <2>2. QED
      BY <1>8, <1>9, <2>1, AdjacentItems
  <1>11. QED
    BY <1>8, <1>10 DEF k

\* What a property says an arrow key may do with the focus, once it moves it.
MovesAlong ==
    \/ Adjacent(focus, focus') \/ Adjacent(focus', focus)
    \/ /\ focus \in Displayed /\ focus' = Field
       /\ \A e \in Displayed : ~Above(e, focus)

\* The keys of a row lead to a neighbour, or from the first row to the field.
LEMMA RowKeyFollows ==
    ASSUME ResultsOK, NEW key, NEW r, Item(r, 0) \in Displayed, RowKey(key, r)
    PROVE  /\ focus' = focus \/ MovesAlong
           /\ focus' # Field => UNCHANGED box
           /\ focus' = Field => box' = Activate(box, TRUE)
  <1>1. focus = Item(r, 0)
    BY DEF RowKey
  <1>2. focus # Field /\ r \in Nat \ {0} /\ r \in results.shown
    BY <1>1, Places, EntryFacts
  <1>3. CASE NavPrev(r - 1) = None /\ focus' = Field /\ box' = Activate(box, TRUE)
    <2>1. r - 1 \in Nat
      BY <1>2
    <2>2. \A k \in results.shown : k > r - 1
      BY <1>3, <2>1, NavPrevIs
    <2>3. ASSUME NEW e \in Displayed PROVE ~Above(e, focus)
      <3>1. PICK j, i : e = Item(j, i)
        BY DisplayedAre
      <3>2. j \in results.shown /\ j \in Nat /\ i \in Nat
        BY <3>1, EntryFacts
      <3>3. ~(j < r) /\ ~(i < 0)
        BY <1>2, <2>2, <3>2
      <3>4. QED
        BY <1>1, <3>1, <3>3 DEF Above, Item
    <2>4. QED
      BY <1>1, <1>3, <2>3 DEF MovesAlong
  <1>4. CASE /\ NavPrev(r - 1) # None /\ focus' = LastIn(NavPrev(r - 1), r - 1)
             /\ UNCHANGED box
    <2>1. Adjacent(focus', focus)
      BY <1>1, <1>4, LastInIsAdjacent
    <2>2. focus' \in Displayed /\ focus' # Field
      BY <2>1, DisplayedAre, Places DEF Adjacent
    <2>3. QED
      BY <1>4, <2>1, <2>2 DEF MovesAlong
  <1>5. CASE /\ focus' = IF r \in results.open THEN Item(r, 1) ELSE RowAfter(r)
             /\ UNCHANGED box
    <2>1. CASE r \in results.open
      <3>1. 1 \in Children(r)
        BY <1>2, <2>1, EntryFacts DEF ResultsOK, Children
      <3>2. Item(r, 1) \in Displayed
        BY <1>2, <2>1, <3>1, DisplayedAre
      <3>3. ASSUME NEW j, NEW i, Item(j, i) \in Displayed
            PROVE  ~((r < j \/ (r = j /\ 0 < i)) /\ (j < r \/ (j = r /\ i < 1)))
        <4>1. j \in Nat /\ i \in Nat
          BY <3>3, EntryFacts
        <4>2. QED
          BY <1>2, <4>1
      <3>4. Adjacent(Item(r, 0), Item(r, 1))
        BY <3>2, <3>3, AdjacentItems
      <3>5. QED
        BY <1>1, <1>5, <2>1, <3>4, Places DEF MovesAlong
    <2>2. CASE r \notin results.open
      <3>1. \A i : Item(r, i) \in Displayed => ~(0 < i)
        <4>1. ASSUME NEW i, Item(r, i) \in Displayed PROVE i = 0
          BY <2>2, <4>1, DisplayedAre
        <4>2. QED
          BY <4>1
      <3>2. RowAfter(r) = focus \/ Adjacent(focus, RowAfter(r))
        BY <1>1, <3>1, RowAfterIsAdjacent
      <3>3. RowAfter(r) # Field
        BY <1>2, Places DEF RowAfter
      <3>4. QED
        BY <1>5, <2>2, <3>2, <3>3 DEF MovesAlong
    <2>3. QED
      BY <2>1, <2>2
  <1>6. CASE UNCHANGED <<box, focus>>
    BY <1>2, <1>6
  <1>7. QED
    BY <1>3, <1>4, <1>5, <1>6 DEF RowKey

\* The keys of a child lead to a neighbour.
LEMMA ChildKeyFollows ==
    ASSUME ResultsOK, NEW key, NEW r, NEW c \in Children(r), Item(r, c) \in Displayed,
           ChildKey(key, r, c)
    PROVE  /\ focus' = focus \/ MovesAlong
           /\ UNCHANGED <<box, results>>
  <1>1. focus = Item(r, c) /\ UNCHANGED <<box, results>>
    BY DEF ChildKey
  <1>2. /\ r \in Nat \ {0} /\ r \in results.shown /\ c \in Nat
        /\ Rows[r].children \in Nat /\ c >= 1 /\ c <= Rows[r].children
        /\ r \in results.open
    BY <1>1, EntryFacts DEF Children
  <1>3. \A d : d = 0 \/ d \in Children(r) => Item(r, d) \in Displayed
    BY <1>2, DisplayedAre
  <1>4. ASSUME NEW a \in Nat, NEW b \in Nat, b = a + 1,
               Item(r, a) \in Displayed, Item(r, b) \in Displayed
        PROVE  Adjacent(Item(r, a), Item(r, b))
    <2>1. ASSUME NEW j, NEW i, Item(j, i) \in Displayed
          PROVE  ~((r < j \/ (r = j /\ a < i)) /\ (j < r \/ (j = r /\ i < b)))
      <3>1. j \in Nat /\ i \in Nat
        BY <2>1, EntryFacts
      <3>2. QED
        BY <1>2, <1>4, <3>1
    <2>2. a < b
      BY <1>4
    <2>3. QED
      BY <1>4, <2>1, <2>2, AdjacentItems
  <1>5. CASE focus' = Item(r, c - 1)
    <2>1. c - 1 \in Nat /\ c = (c - 1) + 1
      BY <1>2
    <2>2. c - 1 = 0 \/ c - 1 \in Children(r)
      BY <1>2 DEF Children
    <2>3. Adjacent(Item(r, c - 1), Item(r, c))
      BY <1>2, <1>3, <1>4, <2>1, <2>2
    <2>4. QED
      BY <1>1, <1>5, <2>3 DEF MovesAlong
  <1>6. CASE focus' = Item(r, c + 1) /\ c + 1 \in Children(r)
    <2>1. Adjacent(Item(r, c), Item(r, c + 1))
      BY <1>2, <1>3, <1>4, <1>6
    <2>2. QED
      BY <1>1, <1>6, <2>1 DEF MovesAlong
  <1>7. CASE focus' = RowAfter(r) /\ c + 1 \notin Children(r)
    <2>1. ASSUME NEW i, Item(r, i) \in Displayed PROVE ~(c < i)
      <3>1. i \in Nat /\ (i # 0 => i <= Rows[r].children)
        BY <2>1, EntryFacts
      <3>2. c + 1 > Rows[r].children
        BY <1>2, <1>7 DEF Children
      <3>3. QED
        BY <1>2, <3>1, <3>2
    <2>2. RowAfter(r) = focus \/ Adjacent(focus, RowAfter(r))
      BY <1>1, <2>1, RowAfterIsAdjacent
    <2>3. QED
      BY <1>1, <1>7, <2>2 DEF MovesAlong
  <1>8. QED
    BY <1>1, <1>5, <1>6, <1>7 DEF ChildKey

\* The focus is in the results only where the window shows and displays it.
LEMMA FocusIsDisplayed ==
    ASSUME TypeInv, focus.at = "item"
    PROVE  focus \in Displayed /\ box.shown /\ ResultsOK
  BY DEF TypeInv, Placed, Page, Field, Menu

-----------------------------------------------------------------------------
(* The handlers of the results and of the page keep the types.              *)

\* Opening a row with children, or closing one, displays the rows it did.
LEMMA OpenedTypes ==
    ASSUME ResultsOK, NEW r \in DOMAIN Rows, Children(r) # {}, NEW open,
           open = results.open \cup {r} \/ open = results.open \ {r},
           results' = [results EXCEPT !.open = open]
    PROVE  ResultsOK' /\ (Item(r, 0) \in Displayed => (Item(r, 0) \in Displayed)')
  <1>1. Rows' = Rows /\ results'.shown = results.shown /\ \A k : Children(k)' = Children(k)
    BY DEF Rows, Children, ResultsOK
  <1>2. results' \in [section : SectionIds, file : Nat,
                      shown : SUBSET DOMAIN Rows', open : SUBSET DOMAIN Rows']
    BY <1>1 DEF ResultsOK
  <1>3. \A k \in results'.open : Children(k)' # {}
    BY <1>1 DEF ResultsOK
  <1>4. results'.file = results.file /\ results'.section = results.section
    BY DEF ResultsOK
  <1>5. ResultsOK'
    BY <1>1, <1>2, <1>3, <1>4 DEF ResultsOK
  <1>6. Item(r, 0) \in Displayed => (Item(r, 0) \in Displayed)'
    BY <1>1 DEF Displayed
  <1>7. QED
    BY <1>5, <1>6

\* The results, and the keys and clicks on them, keep the types.
LEMMA ResultTypes ==
    ASSUME TypeInv
    PROVE  /\ ItemKey => TypeInv'
           /\ \A r \in DOMAIN Rows : Toggle(r) => TypeInv'
           /\ CloseClicked => TypeInv'
  <1>1. /\ box \in Boxes /\ Placed(box, focus) /\ TimersOK /\ SectionsOK
        /\ LoadsOK /\ ResultsOK /\ Blurred \in Boxes /\ Blurred.shown = box.shown
    BY BlurredTypes DEF TypeInv
  <1>2. ASSUME UNCHANGED <<typed, timerVars, sectionVars, loading, answer, menu>>,
               box' \in Boxes, ResultsOK', Placed(box, focus)'
        PROVE  TypeInv'
    <2>1. TimersOK' /\ SectionsOK' /\ LoadsOK'
      BY <1>1, <1>2 DEF TimersOK, SectionsOK, LoadsOK, timerVars, sectionVars
    <2>2. QED
      BY <1>2, <2>1 DEF TypeInv
  <1>3. ASSUME box' \in Boxes, box'.shown = box.shown \/ focus' \in {Page, Field, Menu},
               UNCHANGED results, focus' \in {Page, Field, Menu} \/ focus' = focus
                                    \/ (box.shown /\ focus' \in Displayed)
        PROVE  ResultsOK' /\ Placed(box, focus)'
    <2>1. Placed(box', focus')
      BY <1>1, <1>3 DEF Placed
    <2>2. QED
      BY <1>1, <1>3, <2>1, StaysPlaced, SameResultsOK
  <1>4. ASSUME NEW r \in DOMAIN Rows, NEW open, Children(r) # {},
               open = results.open \cup {r} \/ open = results.open \ {r},
               results' = [results EXCEPT !.open = open],
               Item(r, 0) \in Displayed, box' \in Boxes, box'.shown, focus' = Item(r, 0)
        PROVE  ResultsOK' /\ Placed(box, focus)'
    <2>1. ResultsOK' /\ (Item(r, 0) \in Displayed)'
      BY <1>1, <1>4, OpenedTypes
    <2>2. QED
      BY <1>4, <2>1 DEF Placed
  <1>5. Activate(box, TRUE) \in Boxes /\ Activate(box, TRUE).shown = box.shown
    BY <1>1, ActivateFacts, WindowFacts
  <1>6. ASSUME NEW key, NEW r \in DOMAIN Rows, RowKey(key, r)
        PROVE  box' \in Boxes /\ ResultsOK' /\ Placed(box, focus)'
    <2>1. focus = Item(r, 0) /\ focus.at = "item"
      BY <1>6 DEF RowKey, Item
    <2>2. Item(r, 0) \in Displayed /\ box.shown
      BY <2>1, FocusIsDisplayed
    <2>3. /\ focus' = focus \/ MovesAlong
          /\ focus' # Field => UNCHANGED box
          /\ focus' = Field => box' = Activate(box, TRUE)
      BY <1>1, <1>6, <2>2, RowKeyFollows
    <2>4. box' \in Boxes /\ box'.shown = box.shown
      BY <1>1, <1>5, <2>3
    <2>5. CASE UNCHANGED results
      <3>1. focus' = focus \/ focus' = Field \/ focus' \in Displayed
        BY <2>3 DEF MovesAlong, Adjacent
      <3>2. QED
        BY <1>3, <2>2, <2>4, <2>5, <3>1
    <2>6. CASE /\ Children(r) # {}
               /\ \E open : /\ open = results.open \cup {r} \/ open = results.open \ {r}
                            /\ results' = [results EXCEPT !.open = open]
               /\ UNCHANGED <<box, focus>>
      BY <1>4, <2>1, <2>2, <2>4, <2>6
    <2>7. QED
      BY <1>6, <2>5, <2>6 DEF RowKey
  <1>7. ASSUME NEW key, NEW r \in DOMAIN Rows, NEW c \in Children(r), ChildKey(key, r, c)
        PROVE  box' \in Boxes /\ ResultsOK' /\ Placed(box, focus)'
    <2>1. focus = Item(r, c) /\ focus.at = "item"
      BY <1>7 DEF ChildKey, Item
    <2>2. Item(r, c) \in Displayed /\ box.shown
      BY <2>1, FocusIsDisplayed
    <2>3. (focus' = focus \/ MovesAlong) /\ UNCHANGED <<box, results>>
      BY <1>1, <1>7, <2>2, ChildKeyFollows
    <2>4. focus' = focus \/ focus' = Field \/ focus' \in Displayed
      BY <2>3 DEF MovesAlong, Adjacent
    <2>5. QED
      BY <1>1, <1>3, <2>2, <2>3, <2>4
  <1>8. ASSUME ItemEscape PROVE box' \in Boxes /\ ResultsOK' /\ Placed(box, focus)'
    <2>1. CloseResultsWindow(box) \in Boxes
      BY <1>1, CloseFacts
    <2>2. box' \in Boxes /\ focus' = Field /\ UNCHANGED results
      BY <1>8, <2>1, ActivateFacts DEF ItemEscape
    <2>3. QED
      BY <1>3, <2>2
  <1>9. ASSUME ItemKey PROVE TypeInv'
    <2>1. UNCHANGED <<typed, timerVars, sectionVars, loading, answer, menu>>
      BY <1>9 DEF ItemKey
    <2>2. box' \in Boxes /\ ResultsOK' /\ Placed(box, focus)'
      BY <1>6, <1>7, <1>8, <1>9 DEF ItemKey
    <2>3. QED
      BY <1>2, <2>1, <2>2
  <1>10. ASSUME NEW r \in DOMAIN Rows, Toggle(r) PROVE TypeInv'
    <2>1. /\ box.shown /\ r \in results.shown /\ Children(r) # {}
          /\ results' = [results EXCEPT !.open = IF r \in @ THEN @ \ {r} ELSE @ \cup {r}]
          /\ box' = Blurred /\ focus' = Item(r, 0)
          /\ UNCHANGED <<typed, timerVars, sectionVars, loading, answer, menu>>
      BY <1>10 DEF Toggle
    <2>2. Item(r, 0) \in Displayed
      BY <2>1, DisplayedAre
    <2>3. \E open : /\ open = results.open \cup {r} \/ open = results.open \ {r}
                    /\ results' = [results EXCEPT !.open = open]
      BY <2>1
    <2>4. ResultsOK' /\ Placed(box, focus)'
      BY <1>1, <1>4, <2>1, <2>2, <2>3
    <2>5. QED
      BY <1>1, <1>2, <2>1, <2>4
  <1>11. ASSUME CloseClicked PROVE TypeInv'
    <2>1. /\ box' = CloseResultsWindow(Blurred) /\ focus' = Page
          /\ UNCHANGED <<typed, timerVars, sectionVars, resultVars, menu>>
      BY <1>11 DEF CloseClicked
    <2>2. box' \in Boxes
      BY <1>1, <2>1, CloseFacts
    <2>3. ResultsOK' /\ Placed(box, focus)'
      BY <1>3, <2>1, <2>2 DEF resultVars
    <2>4. QED
      BY <1>2, <2>1, <2>2, <2>3 DEF resultVars
  <1>12. QED
    BY <1>9, <1>10, <1>11

\* Nothing is searched, shown or under way on a page just loaded.
LEMMA FreshTypes ==
    /\ Fresh.box \in Boxes /\ \A b : Placed(b, Page)
    /\ 0 \in SectionIds /\ Fresh.menu \in [shown : BOOLEAN, hiding : BOOLEAN]
    /\ 0 \in 0 .. MaxStray
  <1>1. Fresh.box \in Boxes
    BY EmptyTexts DEF Fresh, Boxes
  <1>2. 0 \in SectionIds
    <2>1. Sections \in Seq(Seq([initial : Chars,
                             rows : Seq([name : Seq(Chars), children : Nat])]))
      BY SearchAssumption DEF SearchAssumption
    <2>2. Sections # <<>>
      BY SearchAssumption DEF SearchAssumption
    <2>3. Len(Sections) \in Nat \ {0}
      BY <2>1, <2>2
    <2>4. QED
      BY <2>3 DEF SectionIds, SelectItemCount
  <1>3. 0 \in 0 .. MaxStray
    BY SearchAssumption DEF SearchAssumption
  <1>4. QED
    BY <1>1, <1>2, <1>3 DEF Placed, Fresh

\* No rows are well-formed results.
LEMMA FreshResults ==
    /\ results = Fresh.results => ResultsOK
    /\ results' = Fresh.results => ResultsOK'
    /\ loading = <<>> => LoadsOK
    /\ loading' = <<>> => LoadsOK'
  <1>1. 0 \in SectionIds /\ MaxLoads \in Nat
    BY FreshTypes, SearchAssumption DEF SearchAssumption
  <1> DEFINE none == [section |-> 0, file |-> None, shown |-> {}, open |-> {}]
  <1>2. Fresh.results = none
    BY DEF Fresh
  <1>3. ASSUME results = none PROVE ResultsOK
    <2>1. Rows = <<>>
      BY <1>3 DEF Rows
    <2>2. results \in [section : SectionIds, file : Nat,
                      shown : SUBSET DOMAIN Rows, open : SUBSET DOMAIN Rows]
      BY <1>1, <1>3 DEF None
    <2>3. QED
      BY <1>3, <2>2 DEF ResultsOK
  <1>4. ASSUME results' = none PROVE ResultsOK'
    <2>1. results' \in [section : SectionIds, file : Nat,
                       shown : SUBSET DOMAIN Rows', open : SUBSET DOMAIN Rows']
      BY <1>1, <1>4 DEF None
    <2>2. QED
      BY <1>4, <2>1 DEF ResultsOK
  <1>5. <<>> \in Seq(Searches) /\ Len(<<>>) <= MaxLoads /\ DOMAIN <<>> = {}
    BY <1>1
  <1>6. (loading = <<>> => LoadsOK) /\ (loading' = <<>> => LoadsOK')
    BY <1>5 DEF LoadsOK
  <1>7. QED
    BY <1>2, <1>3, <1>4, <1>6

\* A page is loaded with every field in its range.
LEMMA TypesInit == Init => TypeInv
  <1> SUFFICES ASSUME Init PROVE TypeInv
    OBVIOUS
  <1>1. ResultsOK /\ LoadsOK
    BY FreshResults DEF Init
  <1>2. box \in Boxes /\ Placed(box, focus) /\ TimersOK
    BY FreshTypes DEF Init, TimersOK
  <1>3. SectionsOK
    <2>1. 0 \in 0 .. SelectItemCount
      BY FreshTypes DEF SectionIds, SelectItemCount
    <2>2. QED
      BY <2>1, FreshTypes DEF Init, SectionsOK
  <1>4. QED
    BY <1>1, <1>2, <1>3 DEF TypeInv

\* Focus, typing, a restored state and a page load keep the types.
LEMMA PageTypes ==
    ASSUME TypeInv
    PROVE  /\ OnSearchFieldFocus => TypeInv'
           /\ \A text \in Texts : Type(text) => TypeInv'
           /\ ResetState => TypeInv'
           /\ init_search => TypeInv'
  <1>1. /\ box \in Boxes /\ Placed(box, focus) /\ TimersOK /\ SectionsOK
        /\ LoadsOK /\ ResultsOK /\ Blurred \in Boxes /\ Blurred.shown = box.shown
    BY BlurredTypes DEF TypeInv
  <1>2. ASSUME UNCHANGED <<timerVars, sectionVars, resultVars, menu>>,
               typed' \in BOOLEAN, box' \in Boxes, Placed(box', focus')
        PROVE  TypeInv'
    <2>1. results' = results
      BY <1>2 DEF resultVars
    <2>2. Placed(box, focus)' /\ ResultsOK'
      BY <1>1, <1>2, <2>1, StaysPlaced, SameResultsOK
    <2>3. TimersOK' /\ SectionsOK' /\ LoadsOK'
      BY <1>1, <1>2 DEF TimersOK, SectionsOK, LoadsOK, timerVars, sectionVars, resultVars
    <2>4. QED
      BY <1>2, <2>2, <2>3 DEF TypeInv
  <1>3. ASSUME OnSearchFieldFocus PROVE TypeInv'
    <2>1. box' \in Boxes
      BY <1>1, <1>3, ActivateFacts DEF OnSearchFieldFocus
    <2>2. focus' \in {Page, Field} /\ typed' \in BOOLEAN
      BY <1>1, <1>3 DEF OnSearchFieldFocus, TimersOK
    <2>3. Placed(box', focus')
      BY <2>2 DEF Placed
    <2>4. QED
      BY <1>2, <1>3, <2>1, <2>2, <2>3 DEF OnSearchFieldFocus
  <1>4. ASSUME NEW text \in Texts, Type(text) PROVE TypeInv'
    <2>1. focus' = Field /\ box' = [box EXCEPT !.text = text] /\ typed' = TRUE
      BY <1>4 DEF Type
    <2>2. box' \in Boxes
      BY <1>1, <2>1 DEF Boxes
    <2>3. Placed(box', focus')
      BY <2>1 DEF Placed
    <2>4. QED
      BY <1>2, <1>4, <2>1, <2>2, <2>3 DEF Type
  <1>5. ASSUME ResetState PROVE TypeInv'
    <2>1. /\ box' = CloseResultsWindow([box EXCEPT !.text = <<>>])
          /\ focus' = (IF focus.at \in {"field", "item"} THEN Page ELSE focus)
          /\ typed' = FALSE
      BY <1>5 DEF ResetState
    <2>2. [box EXCEPT !.text = <<>>] \in Boxes
      BY <1>1, EmptyTexts DEF Boxes
    <2>3. box' \in Boxes
      BY <2>1, <2>2, CloseFacts
    <2>4. Placed(box', focus')
      BY <1>1, <2>1, DisplayedAre DEF Placed
    <2>5. QED
      BY <1>2, <1>5, <2>1, <2>3, <2>4 DEF ResetState
  <1>6. ASSUME init_search PROVE TypeInv'
    <2>1. /\ box' = Fresh.box /\ focus' = Page /\ typed' = FALSE
          /\ keyTimer' = FALSE /\ stray' = 0 /\ answer' = "sound"
          /\ searchIndex' = setting /\ UNCHANGED setting /\ menu' = Fresh.menu
          /\ loading' = <<>> /\ results' = Fresh.results
      BY <1>6 DEF init_search
    <2>2. LoadsOK' /\ ResultsOK'
      BY <2>1, FreshResults
    <2>3. TimersOK' /\ box' \in Boxes
      BY <2>1, FreshTypes DEF TimersOK
    <2>4. Placed(box, focus)'
      BY <2>1 DEF Placed
    <2>5. SectionsOK'
      <3>1. setting \in SectionIds /\ setting \in 0 .. SelectItemCount
        BY <1>1 DEF SectionsOK, SectionIds, SelectItemCount
      <3>2. QED
        BY <2>1, <3>1, FreshTypes DEF SectionsOK, SectionIds, SelectItemCount
    <2>6. QED
      BY <2>2, <2>3, <2>4, <2>5 DEF TypeInv
  <1>7. QED
    BY <1>3, <1>4, <1>5, <1>6

\* The types are inductive.
LEMMA TypesStep == TypeInv /\ [Next]_vars => TypeInv'
  <1> SUFFICES ASSUME TypeInv, [Next]_vars PROVE TypeInv'
    OBVIOUS
  <1>1. CASE UNCHANGED vars
    <2>1. results' = results /\ Placed(box', focus')
      BY <1>1 DEF vars, TypeInv
    <2>2. Placed(box, focus)' /\ ResultsOK'
      BY <2>1, StaysPlaced, SameResultsOK DEF TypeInv
    <2>3. box' \in Boxes /\ TimersOK' /\ SectionsOK' /\ LoadsOK'
      BY <1>1 DEF TypeInv, TimersOK, SectionsOK, LoadsOK, vars
    <2>4. QED
      BY <2>2, <2>3 DEF TypeInv
  <1>2. CASE Browser
    BY <1>2, BrowserTypes
  <1>3. CASE Reader
    BY <1>3, FieldTypes, MenuTypes, ResultTypes, PageTypes DEF Reader
  <1>4. QED
    BY <1>1, <1>2, <1>3 DEF Next

(***************************************************************************)
(* Every field of the panel keeps its range, a script under way is one     *)
(* that there is, and the keyboard is never in a row that is not displayed *)
(* nor in a child of a closed row, whatever was searched, closed, resized  *)
(* or loaded in between.                                                   *)
(***************************************************************************)
THEOREM TypeOKCorrect == Spec => []TypeOK
  <1>1. QED
    BY TypesInit, TypesStep, TypeInvTypes, PTL DEF Spec

(***************************************************************************)
(* Down and Up move the keyboard to the next or the last visible entry,    *)
(* through open rows and past hidden ones, and Up from the first returns   *)
(* to the field: for any sections, files and numbers of children.          *)
(***************************************************************************)
THEOREM ArrowsFollowTheListCorrect == Spec => ArrowsFollowTheList
  <1>1. TypeInv /\ focus.at = "item" /\ ItemKey /\ focus' # focus /\ ~ItemEscape
            => MovesAlong
    <2> SUFFICES ASSUME TypeInv, focus.at = "item", ItemKey, focus' # focus, ~ItemEscape
                 PROVE  MovesAlong
      OBVIOUS
    <2>1. focus \in Displayed /\ ResultsOK
      BY FocusIsDisplayed
    <2>2. ASSUME NEW key, NEW r \in DOMAIN Rows, RowKey(key, r) PROVE MovesAlong
      BY <2>1, <2>2, RowKeyFollows DEF RowKey
    <2>3. ASSUME NEW key, NEW r \in DOMAIN Rows, NEW c \in Children(r), ChildKey(key, r, c)
          PROVE  MovesAlong
      BY <2>1, <2>3, ChildKeyFollows DEF ChildKey
    <2>4. QED
      BY <2>2, <2>3 DEF ItemKey
  <1>2. TypeInv /\ [Next]_vars =>
            [focus.at = "item" /\ ItemKey /\ focus' # focus /\ ~ItemEscape =>
                \/ Adjacent(focus, focus') \/ Adjacent(focus', focus)
                \/ /\ focus \in Displayed /\ focus' = Field
                   /\ \A e \in Displayed : ~Above(e, focus)]_vars
    BY <1>1 DEF MovesAlong
  <1>3. QED
    BY TypesInit, TypesStep, <1>2, PTL DEF Spec, ArrowsFollowTheList

-----------------------------------------------------------------------------
(* Texts without their blanks                                               *)

\* LStrip drops the leading blanks, and no more.
LEMMA LStripIs ==
    ASSUME NEW text \in Seq(Chars)
    PROVE  \E k \in 0 .. Len(text) :
              /\ LStrip(text) = SubSeq(text, k + 1, Len(text))
              /\ \A i \in 1 .. k : text[i] = Space
              /\ k < Len(text) => text[k + 1] # Space
  <1> DEFINE Blank(n) == \A i \in 1 .. n : text[i] = Space
             blank == {n \in 0 .. Len(text) : Blank(n)}
  <1>1. Len(text) \in Nat
    OBVIOUS
  <1>2. 0 \in blank /\ blank \in SUBSET Nat /\ \A n \in blank : n <= Len(text)
    BY <1>1
  <1> HIDE DEF Blank
  <1>3. PICK k \in blank : \A n \in blank : n <= k
    <2> HIDE DEF blank
    <2>1. QED
      BY <1>1, <1>2, GreatestNumber
  <1>4. k \in 0 .. Len(text) /\ Blank(k)
    BY <1>3
  <1>5. blank = 0 .. k
    <2>1. \A n \in 0 .. k : n \in 0 .. Len(text) /\ Blank(n)
      BY <1>1, <1>4 DEF Blank
    <2>2. \A n \in blank : n \in 0 .. k
      BY <1>3
    <2>3. QED
      BY <2>1, <2>2
  <1>6. Cardinality(blank) = k + 1
    <2> HIDE DEF blank
    <2>1. Cardinality(0 .. k) = k + 1
      BY <1>4, FS_Interval
    <2>2. QED
      BY <1>5, <2>1
  <1>7. LStrip(text) = SubSeq(text, Cardinality(blank), Len(text))
    BY DEF LStrip, Blank
  <1>8. ASSUME k < Len(text) PROVE text[k + 1] # Space
    <2>1. k + 1 \in 0 .. Len(text) /\ ~(k + 1 <= k)
      BY <1>1, <1>4, <1>8
    <2>2. k + 1 \notin blank
      BY <1>3, <2>1
    <2>3. ~Blank(k + 1)
      BY <2>1, <2>2
    <2>4. \A i \in 1 .. k + 1 : i \in 1 .. k \/ i = k + 1
      BY <1>4
    <2>5. QED
      BY <1>4, <2>3, <2>4 DEF Blank
  <1>9. QED
    BY <1>4, <1>6, <1>7, <1>8 DEF Blank

\* What LStrip leaves: a text, with no blank in front, that ends as before.
LEMMA LStripLeaves ==
    ASSUME NEW text \in Seq(Chars)
    PROVE  /\ LStrip(text) \in Seq(Chars)
           /\ LStrip(text) # <<>> =>
                /\ LStrip(text)[1] # Space /\ text # <<>>
                /\ LStrip(text)[Len(LStrip(text))] = text[Len(text)]
           /\ text # <<>> /\ text[1] # Space => LStrip(text) = text
           /\ text = <<>> => LStrip(text) = text
  <1>1. PICK k \in 0 .. Len(text) :
            /\ LStrip(text) = SubSeq(text, k + 1, Len(text))
            /\ \A i \in 1 .. k : text[i] = Space
            /\ k < Len(text) => text[k + 1] # Space
    BY LStripIs
  <1> DEFINE left == SubSeq(text, k + 1, Len(text))
  <1>2. Len(text) \in Nat /\ k \in Nat /\ k <= Len(text)
    OBVIOUS
  <1>3. /\ left \in Seq(Chars) /\ Len(left) = Len(text) - k
        /\ \A i \in 1 .. Len(text) - k : left[i] = text[k + i]
    BY <1>2
  <1>4. left # <<>> => k < Len(text) /\ text # <<>>
    BY <1>2, <1>3
  <1> HIDE DEF left
  <1>5. left # <<>> => left[1] = text[k + 1] /\ left[Len(left)] = text[Len(text)]
    <2> SUFFICES ASSUME left # <<>>
                 PROVE  left[1] = text[k + 1] /\ left[Len(left)] = text[Len(text)]
      OBVIOUS
    <2>1. 1 \in 1 .. Len(text) - k /\ Len(text) - k \in 1 .. Len(text) - k
      BY <1>2, <1>4
    <2>2. k + (Len(text) - k) = Len(text)
      BY <1>2
    <2>3. QED
      BY <1>3, <2>1, <2>2
  <1>6. ASSUME text # <<>>, text[1] # Space PROVE left = text
    <2>1. ~(1 \in 1 .. k)
      <3>1. \A i \in 1 .. k : text[i] = Space
        BY <1>1
      <3>2. QED
        BY ONLY <3>1, <1>6
    <2>2. k = 0
      BY <1>2, <2>1
    <2>3. QED
      BY <2>2 DEF left
  <1>7. LStrip(text) = left
    BY <1>1 DEF left
  <1>8. left # <<>> => left[1] # Space
    BY <1>1, <1>4, <1>5
  <1>9. text = <<>> => left = text
    BY <1>4
  <1>10. QED
    BY ONLY <1>3, <1>4, <1>5, <1>6, <1>7, <1>8, <1>9

\* Strip leaves a text that begins as the one without its leading blanks, and
\* has nothing more to strip.
LEMMA StripIs ==
    ASSUME NEW text \in Seq(Chars)
    PROVE  /\ Strip(text) \in Seq(Chars)
           /\ Strip(text) # <<>> => LStrip(text) # <<>> /\ Strip(text)[1] = LStrip(text)[1]
           /\ Strip(LStrip(text)) = Strip(text)
           /\ Strip(Strip(text)) = Strip(text)
  <1> DEFINE u == LStrip(text)
             back == Reverse(u)
             w == LStrip(back)
             stripped == Reverse(w)
  <1>1. /\ u \in Seq(Chars) /\ (u # <<>> => u[1] # Space /\ text # <<>>)
    BY LStripLeaves
  <1> HIDE DEF u
  <1>2. /\ back \in Seq(Chars) /\ Len(back) = Len(u) /\ (back = <<>> <=> u = <<>>)
        /\ u # <<>> => back[Len(u)] = u[1]
    BY <1>1, Reversed
  <1>3. Reverse(back) = u
    BY <1>1, Reversed
  <1> HIDE DEF back
  <1>4. /\ w \in Seq(Chars)
        /\ w # <<>> => back # <<>> /\ w[Len(w)] = back[Len(back)] /\ w[1] # Space
    BY <1>2, LStripLeaves
  <1> HIDE DEF w
  <1>5. /\ stripped \in Seq(Chars) /\ (stripped = <<>> <=> w = <<>>)
        /\ w # <<>> => stripped[1] = w[Len(w)]
    BY <1>4, Reversed
  <1>6. Reverse(stripped) = w
    BY <1>4, Reversed
  <1>7. Strip(text) = stripped
    BY DEF Strip, u, back, w
  <1> HIDE DEF stripped
  <1>8. stripped # <<>> => u # <<>> /\ stripped[1] = u[1]
    BY <1>2, <1>4, <1>5
  <1>9. LStrip(u) = u
    BY <1>1, LStripLeaves
  <1>10. Strip(u) = Strip(text)
    BY <1>9 DEF Strip, u
  <1>11. LStrip(stripped) = stripped
    BY <1>1, <1>5, <1>8, LStripLeaves
  <1>12. LStrip(w) = w
    BY <1>4, LStripLeaves
  <1>13. Strip(stripped) = stripped
    BY <1>6, <1>11, <1>12 DEF Strip, stripped
  <1>14. QED
    BY <1>5, <1>7, <1>8, <1>10, <1>13 DEF u

\* A text in lower case.
Lowered(text) == [i \in DOMAIN text |-> Lower[text[i]]]

\* A text in lower case is as long as the text, and each character of it is the
\* lower-case one.
LEMMA LoweredIs ==
    ASSUME NEW text \in Seq(Chars)
    PROVE  /\ Lowered(text) \in Seq(Chars)
           /\ DOMAIN Lowered(text) = DOMAIN text
           /\ \A i \in DOMAIN text : Lowered(text)[i] = Lower[text[i]]
  <1> DEFINE u == Lowered(text)
  <1>1. Lower \in [Chars -> Chars]
    BY SearchAssumption DEF SearchAssumption
  <1>2. \A i \in DOMAIN text : Lower[text[i]] \in Chars
    BY <1>1, Elements
  <1>3. DOMAIN text = 1 .. Len(text) /\ Len(text) \in Nat
    OBVIOUS
  <1>4. u = [i \in 1 .. Len(text) |-> Lower[text[i]]]
    BY <1>3 DEF Lowered
  <1> HIDE DEF u
  <1>5. u \in Seq(Chars) /\ DOMAIN u = DOMAIN text /\ \A i \in DOMAIN text : u[i] = Lower[text[i]]
    BY <1>2, <1>3, <1>4
  <1>6. QED
    BY <1>5 DEF u

\* A name in lower case begins with a text just when their codes say so.
LEMMA MatchesIs ==
    ASSUME NEW text \in Seq(Chars), NEW name \in Seq(Chars),
           \A k \in DOMAIN name : Lower[name[k]] = name[k]
    PROVE  Matches(name, text) <=> IsPrefix(Lowered(Strip(text)), name)
  <1> DEFINE s == Strip(text)
             u == Lowered(s)
  <1>1. /\ Code \in [Chars -> Seq(Chars) \ {<<>>}]
        /\ \A c, d \in Chars : IsPrefix(Code[c], Code[d]) => c = d
    BY SearchAssumption DEF SearchAssumption
  <1>2. s \in Seq(Chars)
    BY StripIs
  <1> HIDE DEF s
  <1>3. u \in Seq(Chars) /\ DOMAIN u = DOMAIN s /\ \A i \in DOMAIN s : u[i] = Lower[s[i]]
    BY <1>2, LoweredIs
  <1> HIDE DEF u
  <1>4. IsPrefix(Coded(Code, u), Coded(Code, name)) <=> IsPrefix(u, name)
    <2>1. Code \in [Chars -> Seq(Chars) \ {<<>>}]
      BY <1>1
    <2>2. \A c, d \in Chars : IsPrefix(Code[c], Code[d]) => c = d
      BY <1>1
    <2>3. u \in Seq(Chars)
      BY <1>3
    <2>4. QED
      BY <2>1, <2>2, <2>3, CodedPrefix
  <1>5. [i \in DOMAIN u |-> Code[u[i]]] = [i \in DOMAIN s |-> Code[Lower[s[i]]]]
    BY <1>3
  <1>6. [i \in DOMAIN name |-> Code[name[i]]] = [i \in DOMAIN name |-> Code[Lower[name[i]]]]
    OBVIOUS
  <1>7. Matches(name, text) <=> IsPrefix(convertToId(s), convertToId(name))
    BY DEF Matches, s
  <1>8. QED
    BY <1>3, <1>4, <1>5, <1>6, <1>7 DEF Coded, convertToId, u, s

-----------------------------------------------------------------------------
(* The text and the results that show                                       *)

(* The text of the field was compared with the last search, or searched for. *)
Compared ==
    ~typed /\ ~keyTimer /\ searchIndex < SelectItemCount =>
        \/ StripAll(box.text) \in {<<>>, box.last}
        \/ box.last = LStrip(box.text)

(* The last search stands: its answer is sound, and its section selected. *)
Standing == answer = "sound" /\ searchIndex < SelectItemCount /\ box.last # <<>>

(* The script it asks for is under way, and no other; or its rows show. *)
Alone(file) ==
    loading = <<[section |-> searchIndex, file |-> file, value |-> box.last]>>

RowsShow(file) ==
    /\ loading = <<>> /\ box.shown
    /\ IF file = None THEN results.shown = {}
       ELSE /\ results.section = searchIndex /\ results.file = file
            /\ results.shown = Found[searchIndex + 1][file][box.last]

(* A search that stands is under way alone, or shows its rows. *)
ShowsSearch ==
    \E file : /\ file = ScriptOf(searchIndex, box.last)
              /\ Standing => Alone(file) \/ RowsShow(file)

QuietInv == Inv /\ TypeInv /\ Compared /\ ShowsSearch

\* What the handlers leave of the box's text and search: both, or neither.
Kept(b) == b.text = box.text /\ b.last = box.last /\ b.shown = box.shown
Cleared(b) == b.text = <<>> /\ b.last = <<>>

\* The parts of the handlers keep the text and the search, or clear both.
LEMMA KeptOrCleared ==
    ASSUME box \in Boxes
    PROVE  /\ Kept(box) /\ Kept(Activate(box, TRUE))
           /\ Kept(Blurred) \/ Cleared(Blurred)
           /\ \A b \in Boxes : Cleared(CloseResultsWindow(b))
           /\ \A b \in Boxes : Cleared(Activate(Forget(b), FALSE))
           /\ \A b \in Boxes : Cleared(Activate(CloseResultsWindow(b), TRUE))
  <1>1. ASSUME NEW b \in Boxes
        PROVE  Kept(b) /\ b.shown => Kept(Activate(b, FALSE))
    BY DEF Activate, Kept, Boxes
  <1>2. ASSUME NEW b \in Boxes, ~b.shown PROVE Cleared(Activate(b, FALSE))
    BY <1>2 DEF Activate, Cleared, Boxes
  <1>3. Kept(box) /\ Kept(Activate(box, TRUE))
    BY DEF Activate, Kept, Boxes
  <1>4. Kept(Blurred) \/ Cleared(Blurred)
    BY <1>1, <1>2, <1>3 DEF Blurred
  <1>5. ASSUME NEW b \in Boxes PROVE Cleared(CloseResultsWindow(b))
    <2>1. Hide(b) \in Boxes /\ ~Hide(b).shown
      BY HideFacts, WindowFacts
    <2>2. QED
      BY <1>2, <2>1 DEF CloseResultsWindow
  <1>6. ASSUME NEW b \in Boxes PROVE Cleared(Activate(Forget(b), FALSE))
    <2>1. Forget(b) \in Boxes /\ ~Forget(b).shown
      BY ForgetFacts, WindowFacts
    <2>2. QED
      BY <1>2, <2>1
  <1>7. ASSUME NEW b \in Boxes PROVE Cleared(Activate(CloseResultsWindow(b), TRUE))
    <2>1. CloseResultsWindow(b) \in Boxes /\ Cleared(CloseResultsWindow(b))
      BY <1>5, CloseFacts
    <2>2. QED
      BY <2>1 DEF Activate, Cleared, Boxes
  <1>8. QED
    BY <1>3, <1>4, <1>5, <1>6, <1>7

\* Without a search, the text stays compared if it stays or a timer will do it.
LEMMA ComparedStays ==
    ASSUME Compared, searchIndex' = searchIndex,
           \/ typed' \/ keyTimer' \/ Cleared(box')
           \/ Kept(box') /\ ~typed /\ ~keyTimer
    PROVE  Compared'
  BY LStripEmpty DEF Compared, Kept, Cleared

\* The number of sections is one.
LEMMA CountIsNat == Len(Sections) \in Nat
  BY SearchAssumption DEF SearchAssumption

\* Nothing is asked of a search that was overtaken, missed or forgotten.
LEMMA NothingStands ==
    ASSUME answer' # "sound" \/ searchIndex' = SelectItemCount \/ box'.last = <<>>
    PROVE  ShowsSearch'
  BY CountIsNat DEF ShowsSearch, Standing, SelectItemCount

\* Without a search, what shows stays, or what was searched for is forgotten.
LEMMA ShowsSearchStays ==
    ASSUME ShowsSearch, UNCHANGED <<answer, searchIndex, loading>>,
           results'.section = results.section, results'.file = results.file,
           results'.shown = results.shown,
           box'.last = <<>> \/ (box'.last = box.last /\ box'.shown = box.shown)
    PROVE  ShowsSearch'
  <1>1. PICK file : /\ file = ScriptOf(searchIndex, box.last)
                    /\ Standing => Alone(file) \/ RowsShow(file)
    BY DEF ShowsSearch
  <1>2. CASE box'.last = <<>>
    BY <1>2, NothingStands
  <1>3. CASE box'.last = box.last /\ box'.shown = box.shown
    <2>1. Standing' => Standing
      BY <1>3 DEF Standing
    <2>2. Alone(file) => Alone(file)'
      BY <1>3 DEF Alone
    <2>3. RowsShow(file) => RowsShow(file)'
      BY <1>3 DEF RowsShow
    <2>4. file = ScriptOf(searchIndex, box.last)'
      BY <1>1, <1>3
    <2>5. QED
      BY <1>1, <2>1, <2>2, <2>3, <2>4 DEF ShowsSearch
  <1>4. QED
    BY <1>2, <1>3

\* A search has compared the text, and is under way alone, shown or overtaken.
LEMMA SearchQuiet ==
    ASSUME NEW b \in Boxes, NEW f, NEW section \in 0 .. SelectItemCount, NEW fired,
           Search(b, f, section, fired), searchIndex' = section
    PROVE  Compared' /\ ShowsSearch'
  <1> DEFINE value == Value[b.text]
             searched == [b EXCEPT !.last = value]
             file == Script[section][value]
  <1>1. CASE section = SelectItemCount
    BY <1>1, NothingStands, CountIsNat DEF Compared, SelectItemCount
  <1>2. CASE section # SelectItemCount
    <2>1. /\ answer' = IF loading = <<>> THEN "sound" ELSE "overtaken"
          /\ \/ /\ file # None
                /\ loading' = Append(loading, [section |-> section, file |-> file,
                                               value |-> value])
                /\ box' = searched
             \/ /\ file = None
                /\ HandleResults(searched, f, section, file, value)
                /\ UNCHANGED loading
      BY <1>2 DEF Search
    <2>8. section \in SectionIds /\ value \in Values
      BY <1>2, ValueIs, CountIsNat DEF SectionIds, SelectItemCount, Boxes
    <2>9. file = ScriptOf(section, value)
      BY <2>8, ScriptIs
    <2>10. value = LStrip(b.text)
      BY ValueIs DEF Boxes
    <2> HIDE DEF file, value
    <2>2. searched.text = b.text /\ searched.last = value
      BY DEF Boxes
    <2>3. box'.text = b.text /\ box'.last = value
      BY <2>1, <2>2 DEF HandleResults, Boxes
    <2>4. Compared'
      BY <2>3, <2>10 DEF Compared
    <2>5. CASE loading # <<>>
      BY <2>1, <2>4, <2>5, NothingStands
    <2>6. CASE loading = <<>>
      <3> file = ScriptOf(searchIndex, box.last)'
        BY <2>3, <2>9
      <3>1. CASE /\ file # None
                 /\ loading' = Append(loading, [section |-> section, file |-> file,
                                                value |-> value])
        <4>1. loading' = <<[section |-> section, file |-> file, value |-> value]>>
          BY <2>6, <3>1
        <4>2. Alone(file)'
          BY <2>3, <4>1 DEF Alone
        <4>3. QED
          BY <2>4, <4>2 DEF ShowsSearch
      <3>2. CASE /\ file = None
                 /\ HandleResults(searched, f, section, file, value)
                 /\ UNCHANGED loading
        <4>1. results'.shown = {} /\ box'.shown
          BY <3>2 DEF HandleResults, Boxes
        <4>2. RowsShow(file)'
          BY <2>6, <3>2, <4>1 DEF RowsShow
        <4>3. QED
          BY <2>4, <4>2 DEF ShowsSearch
      <3>3. QED
        BY <2>1, <3>1, <3>2
    <2>7. QED
      BY <2>4, <2>5, <2>6
  <1>3. QED
    BY <1>1, <1>2

\* A section chosen with a text in the field is searched; with none, the text
\* needs no search, and what shows is the old section's if it changed.
LEMMA OnSelectItemQuiet ==
    ASSUME QuietInv, NEW id \in 0 .. SelectItemCount, NEW b \in Boxes, Empty(b),
           Kept(b) \/ Cleared(b), NEW f, OnSelectItem(id, b, f)
    PROVE  Compared' /\ ShowsSearch'
  <1>1. searchIndex' = id
    BY DEF OnSelectItem
  <1>2. CASE StripAll(b.text) # <<>> /\ b.active
    BY <1>1, <1>2, SearchQuiet DEF OnSelectItem
  <1>3. CASE ~(StripAll(b.text) # <<>> /\ b.active)
    <2>1. /\ box' = (IF f = Field THEN Activate(b, TRUE) ELSE b)
          /\ answer' = IF answer = "sound" /\ id # searchIndex /\ b.last # <<>>
                       THEN "overtaken" ELSE answer
          /\ UNCHANGED <<typed, timerVars, loading, results>>
      BY <1>3 DEF OnSelectItem
    <2>2. box'.text = b.text /\ box'.last = b.last /\ box'.shown = b.shown
      BY <2>1 DEF Activate, Boxes
    <2>3. StripAll(b.text) = <<>> \/ b.last = LStrip(b.text)
      BY <1>3, LStripEmpty DEF Empty
    <2>4. Compared'
      BY <2>2, <2>3 DEF Compared
    <2>5. CASE b.last = <<>>
      BY <2>2, <2>4, <2>5, NothingStands
    <2>6. CASE b.last # <<>> /\ id # searchIndex
      BY <2>1, <2>4, <2>6, NothingStands
    <2>7. CASE b.last # <<>> /\ id = searchIndex
      <3>1. Kept(b)
        BY <2>7 DEF Cleared
      <3>2. answer' = answer
        BY <2>1, <2>7 DEF QuietInv, TypeInv, TimersOK
      <3>3. box'.last = box.last /\ box'.shown = box.shown
        BY <2>2, <3>1 DEF Kept
      <3>4. ShowsSearch /\ UNCHANGED <<searchIndex, loading, results>>
        BY <1>1, <2>1, <2>7 DEF QuietInv
      <3>5. ShowsSearch'
        BY <3>2, <3>3, <3>4, ShowsSearchStays
      <3>6. QED
        BY <2>4, <3>5
    <2>8. QED
      BY <2>4, <2>5, <2>6, <2>7
  <1>4. QED
    BY <1>2, <1>3

\* When the one script under way has run, its rows are those that show.
LEMMA ScriptLoadsQuiet ==
    ASSUME QuietInv, NEW n \in DOMAIN loading, ScriptLoads(n)
    PROVE  Compared' /\ ShowsSearch'
  <1>1. /\ loading' = RemoveAt(loading, n)
        /\ HandleResults(box, focus, loading[n].section, loading[n].file, loading[n].value)
        /\ UNCHANGED <<typed, timerVars, sectionVars, menu, answer>>
    BY DEF ScriptLoads
  <1>2. box \in Boxes /\ LoadsOK
    BY DEF QuietInv, TypeInv
  <1>3. box' = [box EXCEPT !.shown = TRUE]
    BY <1>1 DEF HandleResults
  <1>4. box'.text = box.text /\ box'.last = box.last /\ box'.shown
    BY <1>2, <1>3 DEF Boxes
  <1>5. Compared'
    BY <1>1, <1>4 DEF QuietInv, Compared, timerVars, sectionVars
  <1>6. PICK file : /\ file = ScriptOf(searchIndex, box.last)
                    /\ Standing => Alone(file) \/ RowsShow(file)
    BY DEF QuietInv, ShowsSearch
  <1>7. file = ScriptOf(searchIndex, box.last)' /\ searchIndex' = searchIndex
    BY <1>1, <1>4, <1>6 DEF sectionVars
  <1>8. CASE ~Standing
    <2>1. ~Standing'
      BY <1>1, <1>4, <1>8 DEF Standing, sectionVars
    <2>2. QED
      BY <1>5, <1>7, <2>1 DEF ShowsSearch
  <1>9. CASE Standing
    <2>1. Alone(file)
      BY <1>6, <1>9 DEF RowsShow
    <2>2. /\ n = 1 /\ Len(loading) = 1 /\ loading[n].section = searchIndex
          /\ loading[n].file = file /\ loading[n].value = box.last
      BY <2>1 DEF Alone
    <2>3. loading' = <<>>
      <3>1. loading \in Seq(Searches)
        BY <1>2 DEF LoadsOK
      <3>2. Len(loading') = 0 /\ loading' \in Seq(Searches)
        BY <1>1, <2>2, <3>1, Removed
      <3>3. QED
        BY <3>2
    <2>4. file # None
      BY <1>1, <1>2, <2>2, LoadedTypes, FilesOf DEF None
    <2>5. /\ results'.section = searchIndex /\ results'.file = file
          /\ results'.shown = Found[searchIndex + 1][file][box.last]
      BY <1>1, <2>2, <2>4 DEF HandleResults
    <2>6. RowsShow(file)'
      BY <1>4, <1>7, <2>3, <2>4, <2>5 DEF RowsShow
    <2>7. QED
      BY <1>5, <1>7, <2>6 DEF ShowsSearch
  <1>10. QED
    BY <1>8, <1>9

\* A script that fails is the last one requested, or the last search was begun
\* while it was under way: in both cases the search does not stand.
LEMMA ScriptFailsQuiet ==
    ASSUME QuietInv, NEW n \in DOMAIN loading, ScriptFails(n)
    PROVE  Compared' /\ ShowsSearch'
  <1>1. /\ answer' = IF n = Len(loading) THEN "missed" ELSE answer
        /\ UNCHANGED <<box, typed, keyTimer, searchIndex>>
    BY DEF ScriptFails, timerVars, sectionVars
  <1>2. Compared'
    BY <1>1 DEF QuietInv, Compared
  <1>3. CASE n = Len(loading)
    BY <1>1, <1>2, <1>3, NothingStands
  <1>4. CASE n # Len(loading)
    <2>1. PICK file : /\ file = ScriptOf(searchIndex, box.last)
                      /\ Standing => Alone(file) \/ RowsShow(file)
      BY DEF QuietInv, ShowsSearch
    <2>2. n \in DOMAIN loading /\ loading \in Seq(Searches)
      BY DEF QuietInv, TypeInv, LoadsOK
    <2>3. n # 1 \/ Len(loading) # 1
      BY <1>4
    <2>4. Len(loading) # 0 /\ Len(loading) # 1
      BY <2>2, <2>3
    <2>5. ~Alone(file)
      BY <2>4 DEF Alone
    <2>6. ~RowsShow(file)
      BY <2>2 DEF RowsShow
    <2>7. ~Standing'
      BY <1>1, <1>4, <2>1, <2>5, <2>6 DEF Standing
    <2>8. file = ScriptOf(searchIndex, box.last)'
      BY <1>1, <2>1
    <2>9. QED
      BY <1>2, <2>7, <2>8 DEF ShowsSearch
  <1>5. QED
    BY <1>3, <1>4

\* A handler that searches nothing and keeps the text and the search, or clears
\* both, leaves the text compared and the rows that show.
LEMMA NothingSearched ==
    ASSUME QuietInv, UNCHANGED <<searchIndex, answer, loading>>,
           results' = results \/ \E open : results' = [results EXCEPT !.open = open],
           Cleared(box') \/ (Kept(box') /\ (typed \/ keyTimer => typed' \/ keyTimer'))
    PROVE  Compared' /\ ShowsSearch'
  <1>1. /\ results'.section = results.section /\ results'.file = results.file
        /\ results'.shown = results.shown
    BY DEF QuietInv, TypeInv, ResultsOK
  <1>2. box'.last = <<>> \/ (box'.last = box.last /\ box'.shown = box.shown)
    BY DEF Kept, Cleared
  <1>3. ShowsSearch'
    BY <1>1, <1>2, ShowsSearchStays DEF QuietInv
  <1>4. Compared'
    BY ComparedStays DEF QuietInv
  <1>5. QED
    BY <1>3, <1>4

\* The keys of the field compare its text, leave that to the next, or clear it.
LEMMA FieldQuiet ==
    ASSUME QuietInv, NEW key, OnSearchFieldChange(key)
    PROVE  Compared' /\ ShowsSearch'
  <1>1. box \in Boxes /\ Blurred \in Boxes
    BY BlurredTypes DEF QuietInv, TypeInv
  <1>2. /\ UNCHANGED <<searchIndex, answer, loading, results>>
        /\ typed' = (key = "shift-down" /\ (typed \/ keyTimer))
    BY DEF OnSearchFieldChange, sectionVars, resultVars
  <1>3. ASSUME NEW b \in Boxes, Kept(b) \/ Cleared(b), NEW f, CompareText(b, f)
        PROVE  Compared' /\ ShowsSearch'
    <2>1. keyTimer' = (StripAll(b.text) \notin {b.last, <<>>})
      BY <1>3 DEF CompareText
    <2>2. \/ box' = Forget(b) /\ StripAll(b.text) = <<>>
          \/ box' = b
      BY <1>3 DEF CompareText
    <2>3. Forget(b).text = b.text /\ Forget(b).last = <<>>
      BY DEF Forget, Hide, Boxes
    <2>4. Compared'
      <3>1. box'.text = b.text
        BY <2>2, <2>3
      <3>2. StripAll(b.text) = <<>> \/ (box' = b /\ StripAll(b.text) = b.last) \/ keyTimer'
        BY <2>1, <2>2
      <3>3. QED
        BY <3>1, <3>2 DEF Compared
    <2>5. box'.last = <<>> \/ (box'.last = box.last /\ box'.shown = box.shown)
      BY <1>3, <2>2, <2>3 DEF Kept, Cleared
    <2>6. ShowsSearch'
      BY <1>2, <2>5, ShowsSearchStays DEF QuietInv
    <2>7. QED
      BY <2>4, <2>6
  <1>4. CASE CompareText(box, focus)
    BY <1>1, <1>3, <1>4, KeptOrCleared
  <1>5. CASE CompareText(Blurred, Item(NavNext(1), 0))
    BY <1>1, <1>3, <1>5, KeptOrCleared
  <1>6. CASE box' = Blurred /\ key = "shift-down"
    BY <1>1, <1>2, <1>6, KeptOrCleared, NothingSearched
  <1>7. CASE box' = Activate(Forget(Blurred), FALSE)
    BY <1>1, <1>2, <1>7, KeptOrCleared, NothingSearched
  <1>8. QED
    BY <1>4, <1>5, <1>6, <1>7 DEF OnSearchFieldChange

\* The handlers of the section menu and of the icon, and the timers.
LEMMA MenuQuiet ==
    ASSUME QuietInv
    PROVE  /\ \A key : OnSearchSelectKey(key) => Compared' /\ ShowsSearch'
           /\ \A id \in 0 .. SelectItemCount - 1 :
                ClickSection(id) => Compared' /\ ShowsSearch'
           /\ Browser => Compared' /\ ShowsSearch'
  <1>1. /\ box \in Boxes /\ Empty(box) /\ Blurred \in Boxes /\ Empty(Blurred)
        /\ Kept(box) /\ (Kept(Blurred) \/ Cleared(Blurred))
    BY BlurredFacts, KeptOrCleared DEF QuietInv, Inv
  <1>2. searchIndex \in 0 .. SelectItemCount /\ SelectItemCount \in Nat
    BY CountIsNat DEF QuietInv, TypeInv, SectionsOK, SelectItemCount
  <1>3. ASSUME NEW key, OnSearchSelectKey(key) PROVE Compared' /\ ShowsSearch'
    <2>1. \E id \in 0 .. SelectItemCount : \E f : OnSelectItem(id, box, f)
      <3>1. CASE searchIndex < SelectItemCount /\ OnSelectItem(searchIndex + 1, box, focus)
        <4>1. searchIndex + 1 \in 0 .. SelectItemCount
          BY <1>2, <3>1
        <4>2. QED
          BY <3>1, <4>1
      <3>2. CASE searchIndex > 0 /\ OnSelectItem(searchIndex - 1, box, focus)
        <4>1. searchIndex - 1 \in 0 .. SelectItemCount
          BY <1>2, <3>2
        <4>2. QED
          BY <3>2, <4>1
      <3>3. CASE \E f : OnSelectItem(searchIndex, box, f)
        BY <1>2, <3>3
      <3>4. QED
        BY <1>3, <3>1, <3>2, <3>3 DEF OnSearchSelectKey
    <2>2. QED
      BY <1>1, <2>1, OnSelectItemQuiet
  <1>4. ASSUME NEW id \in 0 .. SelectItemCount - 1, ClickSection(id)
        PROVE  Compared' /\ ShowsSearch'
    <2>1. id \in 0 .. SelectItemCount /\ OnSelectItem(id, Blurred, Menu)
      BY <1>2, <1>4 DEF ClickSection
    <2>2. QED
      BY <1>1, <2>1, OnSelectItemQuiet
  <1>5. ASSUME Browser PROVE Compared' /\ ShowsSearch'
    <2>1. CASE SearchTimer \/ StrayTimer
      <3>1. Search(box, focus, searchIndex, TRUE) /\ searchIndex' = searchIndex
        BY <2>1 DEF SearchTimer, StrayTimer, sectionVars
      <3>2. QED
        BY <1>1, <1>2, <3>1, SearchQuiet
    <2>2. CASE CloseSelectionWindow
      <3>1. UNCHANGED <<box, typed, keyTimer, searchIndex, answer, loading, results>>
        BY <2>2 DEF CloseSelectionWindow, timerVars, sectionVars, resultVars
      <3>2. Kept(box')
        BY <1>1, <3>1 DEF Kept
      <3>3. QED
        BY <3>1, <3>2, NothingSearched
    <2>3. QED
      BY <1>5, <2>1, <2>2, ScriptLoadsQuiet, ScriptFailsQuiet DEF Browser
  <1>6. QED
    BY <1>3, <1>4, <1>5

\* Whatever else the reader does.
LEMMA ReaderQuiet ==
    ASSUME QuietInv, Reader
    PROVE  Compared' /\ ShowsSearch'
  <1>1. /\ box \in Boxes /\ Blurred \in Boxes
        /\ Kept(box) /\ Kept(Activate(box, TRUE))
        /\ Kept(Blurred) \/ Cleared(Blurred)
        /\ \A b \in Boxes : /\ Cleared(CloseResultsWindow(b))
                            /\ Cleared(Activate(CloseResultsWindow(b), TRUE))
    BY BlurredTypes, KeptOrCleared DEF QuietInv, TypeInv
  <1>2. ASSUME UNCHANGED <<typed, timerVars, sectionVars, loading, answer>>,
               results' = results \/ \E open : results' = [results EXCEPT !.open = open],
               Kept(box') \/ Cleared(box')
        PROVE  Compared' /\ ShowsSearch'
    BY <1>2, NothingSearched DEF timerVars, sectionVars
  <1>3. CASE OnSearchFieldFocus
    BY <1>1, <1>2, <1>3 DEF OnSearchFieldFocus, resultVars
  <1>4. ASSUME NEW text \in Texts, Type(text) PROVE Compared' /\ ShowsSearch'
    <2>1. box' = [box EXCEPT !.text = text] /\ typed' = TRUE
      BY <1>4 DEF Type
    <2>2. UNCHANGED <<searchIndex, answer, loading, results>>
      BY <1>4 DEF Type, sectionVars, resultVars
    <2>3. box'.last = box.last /\ box'.shown = box.shown
      BY <1>1, <2>1 DEF Boxes
    <2>4. ShowsSearch'
      BY <2>2, <2>3, ShowsSearchStays DEF QuietInv
    <2>5. QED
      BY <2>1, <2>4 DEF Compared
  <1>5. CASE OnSearchSelectShow \/ OnSearchSelectHide \/ IconKey
    <2>1. Kept(box')
      BY <1>1, <1>5 DEF OnSearchSelectShow, OnSearchSelectHide, IconKey, Kept
    <2>2. QED
      BY <1>2, <1>5, <2>1 DEF OnSearchSelectShow, OnSearchSelectHide, IconKey, resultVars
  <1>6. CASE ItemKey
    <2>1. \/ box' = box \/ box' = Activate(box, TRUE)
          \/ box' = Activate(CloseResultsWindow(box), TRUE)
      BY <1>6 DEF ItemKey, ItemEscape, RowKey, ChildKey
    <2>2. results' = results \/ \E open : results' = [results EXCEPT !.open = open]
      BY <1>6 DEF ItemKey, ItemEscape, RowKey, ChildKey
    <2>3. Kept(box') \/ Cleared(box')
      BY <1>1, <2>1
    <2>4. QED
      BY <1>2, <1>6, <2>2, <2>3 DEF ItemKey
  <1>7. ASSUME NEW r, Toggle(r) PROVE Compared' /\ ShowsSearch'
    BY <1>1, <1>2, <1>7 DEF Toggle
  <1>8. CASE CloseClicked
    BY <1>1, <1>2, <1>8 DEF CloseClicked, resultVars
  <1>9. CASE ResetState
    <2>1. [box EXCEPT !.text = <<>>] \in Boxes
      BY <1>1, EmptyTexts DEF Boxes
    <2>2. Cleared(box')
      BY <1>1, <1>9, <2>1 DEF ResetState
    <2>3. QED
      BY <1>9, <2>2, NothingSearched DEF ResetState, sectionVars, resultVars
  <1>10. CASE init_search
    <2>1. Cleared(box')
      BY <1>10 DEF init_search, Fresh, Cleared
    <2>2. QED
      BY <2>1, LStripEmpty, NothingStands DEF Cleared, Compared
  <1>11. QED
    BY <1>3, <1>4, <1>5, <1>6, <1>7, <1>8, <1>9, <1>10, FieldQuiet, MenuQuiet DEF Reader

\* The invariant is inductive.
LEMMA QuietInit == Init => QuietInv
  <1> SUFFICES ASSUME Init PROVE QuietInv
    OBVIOUS
  <1>1. box.text = <<>> /\ box.last = <<>>
    BY DEF Init, Fresh
  <1>2. Compared
    BY <1>1, LStripEmpty DEF Compared
  <1>3. ShowsSearch
    BY <1>1 DEF ShowsSearch, Standing
  <1>4. QED
    BY <1>2, <1>3, InvInit, TypesInit DEF QuietInv

LEMMA QuietStep == QuietInv /\ [Next]_vars => QuietInv'
  <1> SUFFICES ASSUME QuietInv, [Next]_vars PROVE QuietInv'
    OBVIOUS
  <1>1. Inv' /\ TypeInv'
    BY InvStep, TypesStep DEF QuietInv
  <1>2. CASE UNCHANGED vars
    <2>1. UNCHANGED <<box, typed, keyTimer, searchIndex, answer, loading, results>>
      BY <1>2 DEF vars
    <2>2. Kept(box')
      BY <2>1 DEF Kept
    <2>3. QED
      BY <1>1, <2>1, <2>2, NothingSearched DEF QuietInv
  <1>3. CASE Next
    BY <1>1, <1>3, MenuQuiet, ReaderQuiet DEF Next, QuietInv
  <1>4. QED
    BY <1>2, <1>3

\* The names of a file are in lower case and begin with its initial, which no
\* other file of the section has.
LEMMA NamesOf ==
    ASSUME NEW section \in SectionIds, NEW f \in DOMAIN Sections[section + 1]
    PROVE  /\ \A r \in DOMAIN File(section, f).rows :
                /\ File(section, f).rows[r].name \in Seq(Chars)
                /\ File(section, f).rows[r].name[1] = File(section, f).initial
                /\ \A k \in DOMAIN File(section, f).rows[r].name :
                        Lower[File(section, f).rows[r].name[k]] = File(section, f).rows[r].name[k]
           /\ \A g \in DOMAIN Sections[section + 1] :
                File(section, f).initial = File(section, g).initial => f = g
  <1> DEFINE RowSet == [name : Seq(Chars), children : Nat]
  <1>1. section + 1 \in DOMAIN Sections /\ File(section, f).rows \in Seq(RowSet)
    BY FilesOf
  <1>2. ASSUME NEW r \in DOMAIN File(section, f).rows
        PROVE  File(section, f).rows[r].name \in Seq(Chars)
    <2>1. File(section, f).rows[r] \in RowSet
      <3> HIDE DEF RowSet
      <3>1. QED
        BY <1>1, Elements
    <2>2. QED
      BY <2>1
  <1>3. ASSUME NEW s \in DOMAIN Sections, NEW e \in DOMAIN Sections[s]
        PROVE  /\ \A g \in DOMAIN Sections[s] :
                    Sections[s][e].initial = Sections[s][g].initial => e = g
               /\ \A r \in DOMAIN Sections[s][e].rows :
                    LET name == Sections[s][e].rows[r].name
                    IN  /\ name[1] = Sections[s][e].initial
                        /\ \A k \in DOMAIN name : Lower[name[k]] = name[k]
    <2>1. \A x \in DOMAIN Sections : \A f1, g1 \in DOMAIN Sections[x] :
            /\ Sections[x][f1].initial = Sections[x][g1].initial => f1 = g1
            /\ \A r \in DOMAIN Sections[x][f1].rows :
                LET name == Sections[x][f1].rows[r].name
                IN  /\ name[1] = Sections[x][f1].initial
                    /\ \A k \in DOMAIN name : Lower[name[k]] = name[k]
      BY SearchAssumption DEF SearchAssumption
    <2>2. QED
      BY <2>1
  <1>4. QED
    BY <1>1, <1>2, <1>3 DEF File

\* A text that begins a name begins with the same character.
LEMMA PrefixInitial ==
    ASSUME NEW text \in Seq(Chars), NEW name \in Seq(Chars), text # <<>>,
           IsPrefix(text, name)
    PROVE  name[1] = text[1]
  <1>1. \A i \in 1 .. Len(text) : text[i] = name[i]
    BY PrefixIs
  <1>2. 1 \in 1 .. Len(text)
    OBVIOUS
  <1>3. QED
    BY <1>1, <1>2

\* A panel at rest whose text has no blanks inside remembers that text.
LEMMA RestRemembers ==
    ASSUME QuietInv, AtRest, searchIndex < SelectItemCount,
           Strip(box.text) # <<>>, Strip(box.text) = StripAll(box.text)
    PROVE  /\ box.last \in Seq(Chars) /\ box.last \in Values /\ box.last # <<>>
           /\ Strip(box.text) \in Seq(Chars)
           /\ Strip(box.last) = Strip(box.text) /\ box.last[1] = Strip(box.text)[1]
  <1>1. box.text \in Seq(Chars) /\ box.last \in Values
    BY SearchAssumption DEF QuietInv, Inv, Boxes, SearchAssumption
  <1>2. /\ Strip(box.text) \in Seq(Chars) /\ LStrip(box.text) \in Seq(Chars)
        /\ LStrip(box.text) # <<>> /\ Strip(box.text)[1] = LStrip(box.text)[1]
        /\ Strip(LStrip(box.text)) = Strip(box.text)
        /\ Strip(Strip(box.text)) = Strip(box.text)
    BY <1>1, StripIs, LStripLeaves
  <1>3. box.last = Strip(box.text) \/ box.last = LStrip(box.text)
    BY DEF QuietInv, Compared, AtRest
  <1>4. QED
    BY <1>1, <1>2, <1>3

\* The invariant says that a panel at rest shows what the field asks for.
LEMMA QuietShows == QuietInv => QuietBoxShowsField
  <1> DEFINE text == Lowered(Strip(box.text))
             wanted == UNION {{File(searchIndex, f).rows[r].name :
                                    r \in DOMAIN File(searchIndex, f).rows} :
                                    f \in DOMAIN Sections[searchIndex + 1]}
             names == {Rows[r].name : r \in results.shown}
  <1>1. SUFFICES ASSUME QuietInv, AtRest, answer = "sound", searchIndex < SelectItemCount,
                        text # <<>>, Strip(box.text) = StripAll(box.text)
                 PROVE  box.shown /\ names = {n \in wanted : IsPrefix(text, n)}
    BY DEF QuietBoxShowsField, Lowered
  <1>2. Strip(box.text) # <<>>
    BY <1>1 DEF Lowered
  <1>3. /\ box.last \in Seq(Chars) /\ box.last \in Values /\ box.last # <<>>
        /\ Strip(box.text) \in Seq(Chars)
        /\ Strip(box.last) = Strip(box.text) /\ box.last[1] = Strip(box.text)[1]
    BY <1>1, <1>2, RestRemembers
  <1>4. searchIndex \in SectionIds
    BY <1>1, CountIsNat DEF QuietInv, TypeInv, SectionsOK, SectionIds, SelectItemCount
  <1>5. PICK file : /\ file = ScriptOf(searchIndex, box.last)
                    /\ Standing => Alone(file) \/ RowsShow(file)
    BY <1>1 DEF QuietInv, ShowsSearch
  <1>6. RowsShow(file)
    <2>1. Standing
      BY <1>1, <1>3 DEF Standing
    <2>2. ~Alone(file)
      <3>1. loading = <<>>
        BY <1>1 DEF AtRest
      <3>2. QED
        BY <3>1 DEF Alone
    <2>3. QED
      BY <1>5, <2>1, <2>2
  <1>7. \A name \in Seq(Chars) :
            (\A k \in DOMAIN name : Lower[name[k]] = name[k]) =>
                (Matches(name, box.last) <=> IsPrefix(text, name))
    BY <1>3, MatchesIs
  <1>8. text \in Seq(Chars) /\ text[1] = Lower[box.last[1]]
    <2>1. text \in Seq(Chars)
      BY <1>3, LoweredIs
    <2>2. 1 \in DOMAIN Strip(box.text)
      BY <1>2, <1>3
    <2>3. QED
      BY <1>3, <2>1, <2>2 DEF Lowered
  <1>9. ASSUME NEW f \in DOMAIN Sections[searchIndex + 1],
               NEW r \in DOMAIN File(searchIndex, f).rows,
               IsPrefix(text, File(searchIndex, f).rows[r].name)
        PROVE  File(searchIndex, f).initial = Lower[box.last[1]]
    BY <1>1, <1>4, <1>8, <1>9, NamesOf, PrefixInitial
  <1> HIDE DEF text
  <1>10. CASE file = None
    <2>1. \A f \in DOMAIN Sections[searchIndex + 1] :
                File(searchIndex, f).initial # Lower[box.last[1]]
      <3>1. SUFFICES ASSUME NEW f \in DOMAIN Sections[searchIndex + 1],
                            File(searchIndex, f).initial = Lower[box.last[1]]
                     PROVE  FALSE
        OBVIOUS
      <3>2. ScriptOf(searchIndex, box.last) \in DOMAIN Sections[searchIndex + 1]
        BY <1>3, <3>1 DEF ScriptOf, File
      <3>3. QED
        BY <1>4, <1>5, <1>10, <3>2, FilesOf DEF None
    <2>2. {n \in wanted : IsPrefix(text, n)} = {}
      BY <1>9, <2>1
    <2>3. QED
      BY <1>6, <1>10, <2>2 DEF RowsShow
  <1>11. CASE file # None
    <2>1. file \in DOMAIN Sections[searchIndex + 1] /\ File(searchIndex, file).initial = Lower[box.last[1]]
      BY <1>3, <1>5, <1>11 DEF ScriptOf, File
    <2>2. /\ box.shown /\ results.section = searchIndex /\ results.file = file
          /\ results.shown = Found[searchIndex + 1][file][box.last]
      BY <1>6, <1>11 DEF RowsShow
    <2> DEFINE rows == File(searchIndex, file).rows
    <2>3. Rows = rows
      BY <1>11, <2>2 DEF Rows
    <2>4. results.shown = {r \in DOMAIN rows : Matches(rows[r].name, box.last)}
      BY <1>3, <1>4, <2>1, <2>2, FoundRows
    <2>5. \A r \in DOMAIN rows : Matches(rows[r].name, box.last) <=> IsPrefix(text, rows[r].name)
      BY <1>4, <1>7, <2>1, NamesOf
    <2> HIDE DEF rows
    <2>6. ASSUME NEW n \in names PROVE n \in wanted /\ IsPrefix(text, n)
      <3>1. PICK r \in DOMAIN rows : n = rows[r].name /\ Matches(rows[r].name, box.last)
        BY <2>3, <2>4, <2>6
      <3>2. QED
        BY <2>1, <2>5, <3>1 DEF rows
    <2>7. ASSUME NEW n \in wanted, IsPrefix(text, n) PROVE n \in names
      <3>1. PICK f \in DOMAIN Sections[searchIndex + 1] :
                \E r \in DOMAIN File(searchIndex, f).rows : n = File(searchIndex, f).rows[r].name
        BY <2>7
      <3>2. PICK r \in DOMAIN File(searchIndex, f).rows : n = File(searchIndex, f).rows[r].name
        BY <3>1
      <3>3. File(searchIndex, f).initial = Lower[box.last[1]]
        BY <1>9, <2>7, <3>2
      <3>4. f = file
        BY <1>4, <2>1, <3>3, NamesOf
      <3>5. r \in results.shown
        BY <2>4, <2>5, <2>7, <3>2, <3>4 DEF rows
      <3>6. QED
        BY <2>3, <3>2, <3>4, <3>5 DEF rows
    <2>8. QED
      BY <2>2, <2>6, <2>7
  <1>12. QED
    BY <1>10, <1>11

(***************************************************************************)
(* Once every key was released, every timer ran out and no script is under *)
(* way, the window shows the rows of the selected section whose names begin *)
(* with the field's text, for all texts, sections and names: if the text   *)
(* has no blanks inside, the last search did not overtake another, and its *)
(* script, if it needs one, arrived.                                       *)
(***************************************************************************)
THEOREM QuietBoxShowsFieldCorrect == Spec => []QuietBoxShowsField
  <1>1. QED
    BY QuietInit, QuietStep, QuietShows, PTL DEF Spec

=============================================================================
