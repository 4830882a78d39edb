----------------------------- MODULE SearchPanel -----------------------------
(***************************************************************************)
(* The search panel of the published documentation (docs/html/search/      *)
(* search.js, and the handlers of menu.js and cookie.js it works with).    *)
(*                                                                         *)
(* A reader types into the field; half a second after the last key release *)
(* a timer starts a search, which loads the script holding the entries of  *)
(* one initial letter of one section and, when that script has run, builds *)
(* the rows and shows those whose name begins with the text.  Timers,      *)
(* script loads, focus changes and keys come in any order: every one is an *)
(* action here, and a script may overtake one requested before it.         *)
(*                                                                         *)
(* The panel's fields are one record, box: handlers call one another, and  *)
(* the record is passed through the calls.  Rows, children and sections    *)
(* are numbered from 1, except searchIndex, which keeps the code's 0.      *)
(***************************************************************************)
EXTENDS Integers, Sequences, SequencesExt, FiniteSets

CONSTANTS
    Chars,      \* the characters a reader can type
    Space,      \* the blank among them
    Lower,      \* toLowerCase, character by character
    Code,       \* what convertToId makes of a lower-case character
    Texts,      \* the texts the field takes
    Sections,   \* per section, its files: [initial, rows]; a row: [name, children]
    MaxLoads,   \* bound on scripts loading at once
    MaxStray    \* bound on search timers nobody holds

None == 0

(* Two characters' codes differ before either ends.  There is a section and *)
(* each has a file; the files of a section have distinct initials, and a    *)
(* file's rows are named in lower case and begin with its initial.          *)
SearchAssumption ==
    /\ Space \in Chars /\ Texts \subseteq Seq(Chars) /\ <<>> \in Texts
    /\ Lower \in [Chars -> Chars] /\ Code \in [Chars -> Seq(Chars) \ {<<>>}]
    /\ \A c, d \in Chars : IsPrefix(Code[c], Code[d]) => c = d
    /\ MaxLoads \in Nat \ {0} /\ MaxStray \in Nat
    /\ Sections \in Seq(Seq([initial : Chars,
                             rows : Seq([name : Seq(Chars), children : Nat])]))
    /\ Sections # <<>> /\ <<>> \notin Range(Sections)
    /\ \A s \in DOMAIN Sections : \A f, g \in DOMAIN Sections[s] :
        /\ Sections[s][f].initial = Sections[s][g].initial => f = g
        /\ \A r \in DOMAIN Sections[s][f].rows :
                LET name == Sections[s][f].rows[r].name
                IN  /\ name[1] = Sections[s][f].initial
                    /\ \A k \in DOMAIN name : Lower[name[k]] = name[k]
ASSUME SearchAssumption

VARIABLES
    box,            \* the field's text, lastSearchValue, searchActive, results window
    focus,          \* what has the keyboard: page, field, menu, or a result
    typed,          \* the text waits to be compared with the last search
    keyTimer,       \* keyTimeout holds a running timer
    stray,          \* running search timers keyTimeout no longer holds
    searchIndex,    \* the selected section, from 0
    setting,        \* the section the cookie names
    loading,        \* the searches whose script is under way
    results,        \* the rows on the page: their file, which show, which are open
    menu,           \* the section menu: shown, hide timer running
    answer          \* to the last search: "sound"; "overtaken": it was begun while
                    \* an older one was loading, or the section changed since and
                    \* the text was blank; "missed": its script did not arrive

vars == <<box, focus, typed, keyTimer, stray, searchIndex, setting, loading,
          results, menu, answer>>
resultVars == <<loading, results, answer>>
timerVars == <<keyTimer, stray>>
sectionVars == <<searchIndex, setting>>

------------------------------------------------------------------------------
(* Texts, rows and the places of the focus *)

SelectItemCount == Len(Sections)

SectionIds == 0 .. SelectItemCount - 1

StripAll(text) == SelectSeq(text, LAMBDA c : c # Space)

LStrip(text) ==
    LET blank == {n \in 0 .. Len(text) : \A i \in 1 .. n : text[i] = Space}
    IN  SubSeq(text, Cardinality(blank), Len(text))

Strip(text) == Reverse(LStrip(Reverse(LStrip(text))))

(* What is searched for: a text of the field without its leading blanks;    *)
(* tabulated for TLC, as Script and Found are below.                        *)
Value == [t \in Texts |-> LStrip(t)]

Values == {Value[t] : t \in Texts}

(* A character that is not a letter or digit becomes _ and its hex code. *)
convertToId(text) == FlattenSeq([i \in DOMAIN text |-> Code[Lower[text[i]]]])

Page == [at |-> "page", row |-> 0, child |-> 0]
Field == [at |-> "field", row |-> 0, child |-> 0]
Menu == [at |-> "menu", row |-> 0, child |-> 0]
Item(r, c) == [at |-> "item", row |-> r, child |-> c]

File(section, f) == Sections[section + 1][f]

(* createResults: one row per entry of the script that ran last. *)
Rows == IF results.file = None THEN <<>>
        ELSE File(results.section, results.file).rows

Children(r) == 1 .. Rows[r].children

\* Fault: the next row is taken whether it is shown or not.
NavNext_Hidden(r) == IF r \in DOMAIN Rows THEN r ELSE None

(* NavNext and NavPrev: the first shown row at or past r, if any. *)
NavNext(r) ==
    LET ahead == {k \in results.shown : k >= r}
    IN  IF ahead = {} THEN None ELSE CHOOSE k \in ahead : \A j \in ahead : k <= j

NavPrev(r) ==
    LET behind == {k \in results.shown : k <= r}
    IN  IF behind = {} THEN None ELSE CHOOSE k \in behind : \A j \in behind : k >= j

(* Where Down leads from the end of row r. *)
RowAfter(r) == IF NavNext(r + 1) = None THEN focus ELSE Item(NavNext(r + 1), 0)

(* Where Up leads when it found row up: to the last child of an open row,   *)
(* which is looked for by the name of the row just above, from.  If the two *)
(* differ those children are hidden, or there are none.                     *)
LastIn(up, from) ==
    IF up \notin results.open \/ Children(from) = {} THEN Item(up, 0)
    ELSE IF from \in results.shown THEN Item(from, Rows[from].children)
    ELSE focus

\* Fault: the focus stays on an element that is gone.
ItemGone_Stays(f) == f

(* A focused element that is hidden or removed leaves the focus to the page. *)
ItemGone(f) == IF f.at = "item" THEN Page ELSE f

------------------------------------------------------------------------------
(* The handlers' parts, as functions of the box *)

\* Fault: the last search is not forgotten with the text.
Activate_Remembers(b, isActive) ==
    IF isActive \/ b.shown THEN [b EXCEPT !.active = TRUE]
    ELSE [b EXCEPT !.active = FALSE, !.text = <<>>]

Activate(b, isActive) ==
    IF isActive \/ b.shown
    THEN [b EXCEPT !.active = TRUE]
    ELSE [b EXCEPT !.active = FALSE, !.last = <<>>, !.text = <<>>]

Hide(b) == [b EXCEPT !.shown = FALSE]

\* Fault: the last search is not forgotten with the text.
Forget_Remembers(b) == Hide(b)

(* An erased text leaves no window and no search behind. *)
Forget(b) == [Hide(b) EXCEPT !.last = <<>>]

CloseResultsWindow(b) == Activate(Hide(b), FALSE)

(* The field's blur event, which comes before whatever takes the focus. *)
Blurred == IF focus.at = "field" THEN Activate(box, FALSE) ELSE box

(* handleResults: the rows are built from the entries the last script left *)
(* behind, even when the search asked for no script; then those whose name *)
(* begins with the searched text show, or none if no script holds it.      *)
Matches(name, value) == IsPrefix(convertToId(Strip(value)), convertToId(name))

(* The rows each search finds. *)
Found ==
    [section \in DOMAIN Sections |-> [file \in DOMAIN Sections[section] |->
        [value \in Values |->
            {r \in DOMAIN Sections[section][file].rows :
                Matches(Sections[section][file].rows[r].name, value)}]]]

(* The rows of a file stand in an order in which names that begin alike are *)
(* together: a search finds rows that follow one another.                   *)
OrderAssumption ==
    \A section \in DOMAIN Sections : \A file \in DOMAIN Sections[section] :
        \A value \in Values :
            LET found == Found[section][file][value]
            IN  \A first, last \in found : first .. last \subseteq found
ASSUME OrderAssumption

HandleResults(b, f, section, file, value) ==
    LET built == IF file = None
                 THEN [section |-> results.section, file |-> results.file]
                 ELSE [section |-> section, file |-> file]
    IN  /\ results' = [section |-> built.section, file |-> built.file, open |-> {},
                       shown |-> IF file = None THEN {}
                                 ELSE Found[section + 1][file][value]]
        /\ box' = [b EXCEPT !.shown = TRUE]
        /\ focus' = ItemGone(f)

(* The script of a text: indexOf the first letter, which finds the first *)
(* file when the text is empty.                                          *)
ScriptOf(section, value) ==
    LET files == Sections[section + 1]
        named == {f \in DOMAIN files : files[f].initial = Lower[value[1]]}
    IN  IF value = <<>> THEN 1 ELSE IF named = {} THEN None ELSE CHOOSE f \in named : TRUE

(* The script each search asks for. *)
Script == [section \in SectionIds |-> [value \in Values |-> ScriptOf(section, value)]]

(* Search, with the section selected by then; fired says which timer, if    *)
(* any, called it.  It forgets the held timer without stopping it.  One     *)
(* past the last section it throws on the missing list of initials.         *)
Search(b, f, section, fired) ==
    LET value == Value[b.text]
    IN  /\ keyTimer' = FALSE
        /\ stray' = (stray + IF keyTimer THEN 1 ELSE 0) - IF fired THEN 1 ELSE 0
        /\ stray' <= MaxStray
        /\ typed' = (typed /\ section = SelectItemCount)
        /\ IF section = SelectItemCount
           THEN /\ box' = b /\ focus' = f
                /\ UNCHANGED resultVars
           ELSE LET file == Script[section][value]
                    searched == [b EXCEPT !.last = value]
                IN  /\ answer' = IF loading = <<>> THEN "sound" ELSE "overtaken"
                    /\ \/ /\ file # None
                          /\ Len(loading) < MaxLoads
                          /\ loading' = Append(loading, [section |-> section,
                                                         file |-> file,
                                                         value |-> value])
                          /\ box' = searched /\ focus' = f
                          /\ UNCHANGED results
                       \/ /\ file = None
                          /\ HandleResults(searched, f, section, file, value)
                          /\ UNCHANGED loading

(* The item is marked and the cookie written; past the last there is none. *)
SelectItemSet(id) == setting' = IF id < SelectItemCount THEN id ELSE setting

(* A handler that then enters the field activates the box. *)
OnSelectItem(id, b, f) ==
    /\ searchIndex' = id
    /\ SelectItemSet(id)
    /\ IF StripAll(b.text) # <<>> /\ b.active
       THEN Search(b, f, id, FALSE)
       ELSE /\ box' = (IF f = Field THEN Activate(b, TRUE) ELSE b)
            /\ focus' = f
            /\ answer' = IF answer = "sound" /\ id # searchIndex /\ b.last # <<>>
                         THEN "overtaken" ELSE answer
            /\ UNCHANGED <<typed, timerVars, loading, results>>

------------------------------------------------------------------------------
(* The field *)

(* A click or a tab into the field, and one away from it. *)
OnSearchFieldFocus ==
    \/ /\ focus # Field
       /\ focus' = Field /\ box' = Activate(box, TRUE)
       /\ UNCHANGED <<typed, timerVars, sectionVars, resultVars, menu>>
    \/ /\ focus # Page
       /\ focus' = Page /\ box' = Blurred
       /\ UNCHANGED <<typed, timerVars, sectionVars, resultVars, menu>>

Type(text) ==
    /\ focus = Field /\ text # box.text
    /\ box' = [box EXCEPT !.text = text]
    /\ typed' = TRUE
    /\ UNCHANGED <<focus, timerVars, sectionVars, resultVars, menu>>

ShowMenu == [menu EXCEPT !.shown = TRUE, !.hiding = FALSE]

\* Fault: a stopped timer is not started again.
CompareText_Once(b, f) ==
    LET text == StripAll(b.text)
    IN  /\ keyTimer' = (~keyTimer /\ text \notin {b.last, <<>>})
        /\ box' = b /\ focus' = f

(* What a key release ends with: the text is compared with the last search. *)
CompareText(b, f) ==
    LET text == StripAll(b.text)
    IN  /\ keyTimer' = (text \notin {b.last, <<>>})
        /\ IF text = <<>> /\ b.last # <<>>
           THEN box' = Forget(b) /\ focus' = ItemGone(f)
           ELSE box' = b /\ focus' = f

(* OnSearchFieldChange, on every key release: the held timer is stopped.    *)
(* Down and Enter go to the first shown row and still compare the text;     *)
(* with Shift they go to the section menu and do not, though the timer of  *)
(* the text is stopped; Escape clears all.                                 *)
OnSearchFieldChange(key) ==
    /\ focus = Field
    /\ typed' = (key = "shift-down" /\ (typed \/ keyTimer))
    /\ UNCHANGED <<stray, sectionVars, resultVars>>
    /\ \/ /\ key = "character"
          /\ CompareText(box, focus)
          /\ UNCHANGED menu
       \/ /\ key = "down"
          /\ IF NavNext(1) # None /\ box.shown
             THEN CompareText(Blurred, Item(NavNext(1), 0))
             ELSE CompareText(box, focus)
          /\ UNCHANGED menu
       \/ /\ key = "shift-down"
          /\ menu' = ShowMenu
          /\ focus' = Menu /\ box' = Blurred
          /\ keyTimer' = FALSE
       \/ /\ key = "escape"
          /\ focus' = Page
          /\ box' = Activate(Forget(Blurred), FALSE)
          /\ keyTimer' = FALSE
          /\ UNCHANGED menu

(* The timer runs out: the one keyTimeout holds, or one it let go of. *)
SearchTimer ==
    /\ keyTimer
    /\ UNCHANGED <<sectionVars, menu>>
    /\ Search(box, focus, searchIndex, TRUE)

StrayTimer ==
    /\ stray > 0
    /\ UNCHANGED <<sectionVars, menu>>
    /\ Search(box, focus, searchIndex, TRUE)

(* A requested script has run and its onload handler with it; any of those *)
(* under way may be the next.                                              *)
ScriptLoads(n) ==
    /\ n \in DOMAIN loading
    /\ loading' = RemoveAt(loading, n)
    /\ UNCHANGED <<typed, timerVars, sectionVars, menu, answer>>
    /\ HandleResults(box, focus, loading[n].section, loading[n].file, loading[n].value)

(* A script that is missing or cannot be fetched: the element has no error  *)
(* handler, and nothing happens.  The search is not repeated.               *)
ScriptFails(n) ==
    /\ n \in DOMAIN loading
    /\ loading' = RemoveAt(loading, n)
    /\ answer' = IF n = Len(loading) THEN "missed" ELSE answer
    /\ UNCHANGED <<box, focus, typed, timerVars, sectionVars, results, menu>>

------------------------------------------------------------------------------
(* The section menu *)

(* The pointer comes over the icon or the menu, and leaves it. *)
OnSearchSelectShow ==
    /\ menu' = ShowMenu
    /\ UNCHANGED <<box, focus, typed, timerVars, sectionVars, resultVars>>

OnSearchSelectHide ==
    /\ menu.shown
    /\ menu' = [menu EXCEPT !.hiding = TRUE]
    /\ UNCHANGED <<box, focus, typed, timerVars, sectionVars, resultVars>>

MenuGone(f) == IF f = Menu THEN Page ELSE f

CloseSelectionWindow ==
    /\ menu.hiding
    /\ menu' = [menu EXCEPT !.shown = FALSE, !.hiding = FALSE]
    /\ focus' = MenuGone(focus)
    /\ UNCHANGED <<box, typed, timerVars, sectionVars, resultVars>>

(* Enter or Down on the icon that stands for the menu. *)
IconKey ==
    /\ focus = Page
    /\ IF menu.shown
       THEN menu' = [menu EXCEPT !.shown = FALSE] /\ UNCHANGED focus
       ELSE menu' = ShowMenu /\ focus' = Menu
    /\ UNCHANGED <<box, typed, timerVars, sectionVars, resultVars>>

(* Down may go one past the last section.  Enter and Escape search again,  *)
(* close the menu and return to the field, unless that search throws.      *)
OnSearchSelectKey(key) ==
    /\ focus = Menu
    /\ \/ /\ key = "down" /\ searchIndex < SelectItemCount
          /\ OnSelectItem(searchIndex + 1, box, focus)
          /\ UNCHANGED menu
       \/ /\ key = "up" /\ searchIndex > 0
          /\ OnSelectItem(searchIndex - 1, box, focus)
          /\ UNCHANGED menu
       \/ /\ key = "enter"
          /\ LET throws == /\ searchIndex = SelectItemCount
                           /\ box.active /\ StripAll(box.text) # <<>>
             IN  /\ OnSelectItem(searchIndex, box, IF throws THEN Menu ELSE Field)
                 /\ menu' = [menu EXCEPT !.shown = throws]

(* A click on a section's line. *)
ClickSection(id) ==
    /\ menu.shown /\ ~menu.hiding
    /\ OnSelectItem(id, Blurred, Menu)
    /\ UNCHANGED menu

------------------------------------------------------------------------------
(* The results window *)

(* Nav: the keys of a row's link. *)
RowKey(key, r) ==
    /\ focus = Item(r, 0)
    /\ \/ /\ key = "up"
          /\ LET up == NavPrev(r - 1)
             IN  IF up = None
                 THEN focus' = Field /\ box' = Activate(box, TRUE)
                 ELSE focus' = LastIn(up, r - 1) /\ UNCHANGED box
          /\ UNCHANGED results
       \/ /\ key = "down"
          /\ focus' = IF r \in results.open THEN Item(r, 1) ELSE RowAfter(r)
          /\ UNCHANGED <<box, results>>
       \/ /\ key \in {"left", "right"} /\ Children(r) # {}
          /\ results' = [results EXCEPT !.open = IF key = "right" THEN @ \cup {r}
                                                 ELSE @ \ {r}]
          /\ UNCHANGED <<box, focus>>

(* NavChild: the keys of a child's link. *)
ChildKey(key, r, c) ==
    /\ focus = Item(r, c)
    /\ \/ key = "up" /\ focus' = Item(r, c - 1)
       \/ key = "down" /\ focus' = IF c + 1 \in Children(r) THEN Item(r, c + 1)
                                    ELSE RowAfter(r)
    /\ UNCHANGED <<box, results>>

(* Escape on a result closes the window and returns to the field. *)
ItemEscape ==
    /\ focus.at = "item"
    /\ focus' = Field
    /\ box' = Activate(CloseResultsWindow(box), TRUE)
    /\ UNCHANGED results

ItemKey ==
    /\ \/ ItemEscape
       \/ \E r \in DOMAIN Rows :
            \/ \E key \in {"up", "down", "left", "right"} : RowKey(key, r)
            \/ \E key \in {"up", "down"}, c \in Children(r) : ChildKey(key, r, c)
    /\ UNCHANGED <<typed, timerVars, sectionVars, loading, answer, menu>>

(* A click on a row that has children opens or closes it. *)
Toggle(r) ==
    /\ box.shown /\ r \in results.shown /\ Children(r) # {}
    /\ results' = [results EXCEPT !.open = IF r \in @ THEN @ \ {r} ELSE @ \cup {r}]
    /\ box' = Blurred /\ focus' = Item(r, 0)
    /\ UNCHANGED <<typed, timerVars, sectionVars, loading, answer, menu>>

(* A click on a link, or on the cross, closes the window. *)
CloseClicked ==
    /\ box.shown
    /\ box' = CloseResultsWindow(Blurred) /\ focus' = Page
    /\ UNCHANGED <<typed, timerVars, sectionVars, resultVars, menu>>

------------------------------------------------------------------------------
(* The page *)

(* resetState of menu.js: a new window width puts a new field in place. *)
ResetState ==
    /\ box' = CloseResultsWindow([box EXCEPT !.text = <<>>])
    /\ focus' = IF focus.at \in {"field", "item"} THEN Page ELSE focus
    /\ typed' = FALSE
    /\ UNCHANGED <<timerVars, sectionVars, resultVars, menu>>

Fresh ==
    [box |-> [text |-> <<>>, last |-> <<>>, active |-> FALSE, shown |-> FALSE],
     results |-> [section |-> 0, file |-> None, shown |-> {}, open |-> {}],
     menu |-> [shown |-> FALSE, hiding |-> FALSE]]

(* init_search: a new page starts from the section the cookie names. *)
init_search ==
    /\ box' = Fresh.box /\ focus' = Page /\ typed' = FALSE
    /\ keyTimer' = FALSE /\ stray' = 0
    /\ searchIndex' = setting /\ UNCHANGED setting
    /\ loading' = <<>> /\ results' = Fresh.results
    /\ answer' = "sound"
    /\ menu' = Fresh.menu

Init ==
    /\ box = Fresh.box /\ focus = Page /\ typed = FALSE
    /\ keyTimer = FALSE /\ stray = 0
    /\ searchIndex = 0 /\ setting = 0
    /\ loading = <<>> /\ results = Fresh.results
    /\ answer = "sound"
    /\ menu = Fresh.menu

Reader ==
    \/ OnSearchFieldFocus
    \/ \E text \in Texts : Type(text)
    \/ \E key \in {"character", "down", "shift-down", "escape"} : OnSearchFieldChange(key)
    \/ OnSearchSelectShow \/ OnSearchSelectHide \/ IconKey
    \/ \E key \in {"down", "up", "enter"} : OnSearchSelectKey(key)
    \/ \E id \in 0 .. SelectItemCount - 1 : ClickSection(id)
    \/ ItemKey
    \/ \E r \in DOMAIN Rows : Toggle(r)
    \/ CloseClicked \/ ResetState \/ init_search

Browser ==
    \/ SearchTimer \/ StrayTimer \/ CloseSelectionWindow
    \/ \E n \in DOMAIN loading : ScriptLoads(n) \/ ScriptFails(n)

Next == Reader \/ Browser

(* The held timer runs out, even if every key release would start it anew: *)
(* nobody types without a pause for ever.  The script requested first       *)
(* arrives or fails, and so in its turn does every other: a request ends,   *)
(* and nothing says that it succeeds.  The timers nobody holds need not run *)
(* out for anything claimed here.                                           *)
Fairness == WF_vars(SearchTimer) /\ WF_vars(ScriptFails(1) \/ ScriptLoads(1))

Spec == Init /\ [][Next]_vars /\ Fairness

------------------------------------------------------------------------------
(* Properties *)

(* What the reader sees: the rows that show, and the children of open ones. *)
Displayed ==
    {Item(r, 0) : r \in results.shown} \cup
    UNION {{Item(r, c) : c \in Children(r)} : r \in results.shown \cap results.open}

(* The order from top to bottom. *)
Above(p, q) == p.row < q.row \/ (p.row = q.row /\ p.child < q.child)

(* Two entries with none between them. *)
Adjacent(p, q) ==
    /\ {p, q} \subseteq Displayed /\ Above(p, q)
    /\ \A e \in Displayed : ~(Above(p, e) /\ Above(e, q))

(* The fields' ranges; the keyboard is never in a row that is not displayed *)
(* nor in a child of a closed row, whatever was searched, closed or resized *)
(* in between, and a script under way is one that there is.                 *)
TypeOK ==
    /\ box \in [text : Texts, last : Values, active : BOOLEAN, shown : BOOLEAN]
    /\ focus \in {Page, Field, Menu} \cup (IF box.shown THEN Displayed ELSE {})
    /\ typed \in BOOLEAN /\ keyTimer \in BOOLEAN
    /\ answer \in {"sound", "overtaken", "missed"}
    /\ stray \in 0 .. MaxStray
    /\ searchIndex \in 0 .. SelectItemCount
    /\ setting \in SectionIds
    /\ loading \in Seq([section : SectionIds, file : Nat, value : Values])
    /\ Len(loading) <= MaxLoads
    /\ \A n \in DOMAIN loading :
            loading[n].file \in DOMAIN Sections[loading[n].section + 1]
    /\ results \in [section : SectionIds, file : Nat,
                    shown : SUBSET DOMAIN Rows, open : SUBSET DOMAIN Rows]
    /\ results.file \in {None} \cup DOMAIN Sections[results.section + 1]
    /\ menu \in [shown : BOOLEAN, hiding : BOOLEAN]

(* A panel that looks inactive holds no text and remembers no search: the *)
(* next text is compared with nothing and is searched for.                *)
InactiveBoxIsEmpty == ~box.active => box.text = <<>> /\ box.last = <<>>

AtRest == ~typed /\ ~keyTimer /\ stray = 0 /\ loading = <<>>

(* Once every key was released, every timer ran out and no script is under *)
(* way, the window shows the rows of the selected section whose names begin *)
(* with the field's text.  Not claimed of a text with blanks inside, past  *)
(* the last section, or when the search was overtaken or its script missed. *)
QuietBoxShowsField ==
    LET text == [i \in DOMAIN Strip(box.text) |-> Lower[Strip(box.text)[i]]]
        wanted == UNION {{File(searchIndex, f).rows[r].name :
                                r \in DOMAIN File(searchIndex, f).rows} :
                                f \in DOMAIN Sections[searchIndex + 1]}
    IN  AtRest /\ answer = "sound" /\ searchIndex < SelectItemCount
        /\ text # <<>> /\ Strip(box.text) = StripAll(box.text)
        => /\ box.shown
           /\ {Rows[r].name : r \in results.shown} = {n \in wanted : IsPrefix(text, n)}

(* Down and Up move the keyboard one visible entry at a time, through open *)
(* rows and past hidden ones, and Up from the first returns to the field.  *)
ArrowsFollowTheList ==
    [][focus.at = "item" /\ focus' # focus /\ ItemKey /\ ~ItemEscape =>
        \/ Adjacent(focus, focus') \/ Adjacent(focus', focus)
        \/ /\ focus \in Displayed /\ focus' = Field
           /\ \A e \in Displayed : ~Above(e, focus)]_vars

(* A text that waits for its timer comes to be the one searched for, in an  *)
(* open window unless the script of its entries does not arrive; or it is   *)
(* changed, erased, or the selection stands past the last section.          *)
TypedTextIsSearched ==
    keyTimer ~> \/ typed \/ searchIndex = SelectItemCount \/ StripAll(box.text) = <<>>
                \/ (box.shown \/ answer = "missed") /\ StripAll(box.last) = StripAll(box.text)
=============================================================================
