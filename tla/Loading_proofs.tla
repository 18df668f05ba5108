---------------------------- MODULE Loading_proofs ----------------------------
(***************************************************************************)
(* Two of the parts of MCLoading.  First the appearance: the one that is   *)
(* shown, the board's plugin and what the server is asked for are one, for *)
(* any boards, sizes and sorters, and a board gives back what it took.     *)
(* Then the cell iterator: the cell that is edited next is the next one    *)
(* that can be, for any grid.  Its way is an order of the cells, given by  *)
(* Ord; from each cell on it, one call of the method goes on to the cell   *)
(* that Follows, and so passes by none.                                    *)
(***************************************************************************)
EXTENDS MCLoading, FiniteSetTheorems, WellFoundedInduction, TLAPS

States  == [look : Looks, size : Nat, sorters : Sorters]
Plugins == [board : Appearances, oldSize : Nat, oldSorting : Sorters, restore : Sorters]

\* What selectAppearance works on.
Selections ==
    [selected : Appearances, plugin : Plugins, state : States, sortable : Sorters,
     left : SUBSET Boards]

\* The columns the table can be sorted by, after the boards that left their view.
Kept(S) == Sortable \ {GroupOf[b] : b \in S}

\* The plugin keeps what it took from the columns.
Restorable(a) ==
    /\ a.plugin.restore \subseteq Kept(a.left)
    /\ a.sortable = Kept(a.left) \ a.plugin.restore
    /\ a.plugin.board = "grid" => a.plugin = NoPlugin

Consistent(a) == a.plugin.board = a.selected /\ Restorable(a)

\* The appearance that is selected for what the state asks for.
Selected(look) == IF look \in Boards THEN look ELSE "grid"

\* What came with the switch to the board can be put back: the plugin keeps the
\* page size, and the sorters if it had to change them.
EntryOK ==
    entry # NoEntry =>
        /\ plugin.board \in Boards /\ state.look # "grid"
        /\ plugin.oldSize = entry.size
        /\ IF GroupOf[plugin.board] \in entry.sorters THEN plugin.oldSorting = entry.sorters
           ELSE plugin.oldSorting = {} /\ state.sorters = entry.sorters

IInv ==
    /\ Now \in Selections
    /\ Consistent(Now)
    /\ ready /\ state.look \notin Lost => selected = Selected(state.look)
    /\ EntryOK

-----------------------------------------------------------------------------
\* BoardAppearancePlugin.enable
LEMMA EnableEffect ==
    ASSUME AppearanceAssumption, NEW a \in Selections, Restorable(a),
           a.plugin.restore \cap a.sortable = {}, a.sortable = Kept(a.left), NEW b \in Boards
    PROVE  /\ Enable(a, b) \in Selections
           /\ Restorable(Enable(a, b)) /\ Enable(a, b).plugin.board = b
           /\ Enable(a, b).state.look = b
           /\ a.state.look # b =>
                 /\ Enable(a, b).plugin.oldSize = a.state.size
                 /\ IF GroupOf[b] \in a.state.sorters
                    THEN Enable(a, b).plugin.oldSorting = a.state.sorters
                    ELSE /\ Enable(a, b).plugin.oldSorting = {}
                         /\ Enable(a, b).state.sorters = a.state.sorters
           /\ Enable(a, b).sortable = a.sortable \ {GroupOf[b]}
           /\ Enable(a, b).left = a.left /\ Enable(a, b).selected = a.selected
<1>. DEFINE turns   == a.state.look # b
            grouped == GroupOf[b] \in a.state.sorters
            rest    == a.state.sorters \ {GroupOf[b]}
            p  == [board |-> b, restore |-> a.sortable \cap {GroupOf[b]},
                   oldSize |-> IF turns THEN a.state.size ELSE 0,
                   oldSorting |-> IF turns /\ grouped THEN a.state.sorters ELSE {}]
            st == IF ~turns THEN a.state
                  ELSE [look |-> b, size |-> BoardSize,
                        sorters |-> IF grouped /\ rest = {} THEN InitialSorters ELSE rest]
<1>1. /\ a.state \in States /\ a.state.size \in Nat /\ a.state.sorters \in Sorters
      /\ a.sortable \in Sorters /\ GroupOf[b] \in Columns /\ a.left \in SUBSET Boards
      /\ b # "grid" /\ b \in Appearances /\ b \in Looks
  BY DEF Selections, States, AppearanceAssumption, Appearances, Looks
<1>2. p \in Plugins
  <2>1. {} \in Sorters /\ a.sortable \cap {GroupOf[b]} \in Sorters
    BY <1>1 DEF Sorters
  <2>. QED  BY <1>1, <2>1 DEF Plugins
<1>3. rest \in Sorters /\ (~grouped => rest = a.state.sorters)
  BY <1>1 DEF Sorters
<1>4. st \in States /\ st.look = b
  BY <1>1, <1>3 DEF AppearanceAssumption, States
<1>5. Enable(a, b) = [a EXCEPT !.sortable = a.sortable \ {GroupOf[b]}, !.plugin = p, !.state = st]
  BY DEF Enable
<1>6. /\ p.board = b /\ p.restore = a.sortable \cap {GroupOf[b]}
      /\ turns => /\ p.oldSize = a.state.size
                  /\ IF grouped THEN p.oldSorting = a.state.sorters
                     ELSE p.oldSorting = {} /\ st.sorters = a.state.sorters
  BY <1>3
<1>. HIDE DEF p, st
<1>7. /\ Enable(a, b) \in Selections
      /\ Enable(a, b).selected = a.selected /\ Enable(a, b).left = a.left
      /\ Enable(a, b).plugin = p /\ Enable(a, b).state = st
      /\ Enable(a, b).sortable = a.sortable \ {GroupOf[b]}
  <2>1. a.sortable \ {GroupOf[b]} \in Sorters
    BY <1>1 DEF Sorters
  <2>. QED  BY <1>2, <1>4, <1>5, <2>1 DEF Selections
<1>8. Restorable(Enable(a, b))
  BY <1>1, <1>6, <1>7 DEF Restorable
<1>. QED  BY <1>4, <1>6, <1>7, <1>8

\* Enabled once more, with the collection turned to the board already, it finds
\* nothing to keep.
LEMMA EnabledAgain ==
    ASSUME AppearanceAssumption, NEW a \in Selections, NEW b \in Boards,
           a.state.look = b, GroupOf[b] \notin a.sortable
    PROVE  /\ Enable(a, b) \in Selections /\ Enable(a, b).plugin.board = b
           /\ Enable(a, b).state.look = b /\ Enable(a, b).plugin.restore = {}
           /\ Enable(a, b).sortable = a.sortable /\ Enable(a, b).left = a.left
<1>. DEFINE p == [board |-> b, restore |-> {}, oldSize |-> 0, oldSorting |-> {}]
<1>1. /\ a.sortable \cap {GroupOf[b]} = {} /\ a.sortable \ {GroupOf[b]} = a.sortable
      /\ a.sortable \in Sorters
  BY DEF Selections
<1>2. p \in Plugins /\ p.board = b /\ p.restore = {}
  BY DEF Plugins, Sorters, Appearances
<1>3. Enable(a, b) = [a EXCEPT !.sortable = a.sortable, !.plugin = p, !.state = a.state]
  BY <1>1 DEF Enable
<1>. HIDE DEF p
<1>. QED  BY <1>1, <1>2, <1>3 DEF Selections

\* BoardAppearancePlugin.disable
LEMMA DisableEffect ==
    ASSUME AppearanceAssumption, NEW a \in Selections, Restorable(a)
    PROVE  /\ Disable(a) \in Selections /\ Restorable(Disable(a))
           /\ Disable(a).plugin = NoPlugin /\ Disable(a).plugin.board = "grid"
           /\ Disable(a).plugin.restore = {}
           /\ Disable(a).sortable = Kept(a.left)
           /\ Disable(a).left = a.left /\ Disable(a).state.look = "grid"
           /\ a.state.look # "grid" /\ a.plugin.oldSize # 0 =>
                 Disable(a).state.size = a.plugin.oldSize
           /\ a.state.look # "grid" =>
                 Disable(a).state.sorters =
                     IF a.plugin.oldSorting # {} THEN a.plugin.oldSorting ELSE a.state.sorters
<1>. DEFINE st == IF a.state.look = "grid" THEN a.state
                  ELSE [look |-> "grid",
                        size |-> IF a.plugin.oldSize # 0 THEN a.plugin.oldSize ELSE InitialSize,
                        sorters |-> IF a.plugin.oldSorting # {} THEN a.plugin.oldSorting
                                    ELSE a.state.sorters]
<1>1. /\ a.state \in States /\ a.state.sorters \in Sorters /\ a.sortable \in Sorters
      /\ a.plugin.oldSize \in Nat /\ a.plugin.oldSorting \in Sorters
      /\ a.plugin.restore \in Sorters
  BY DEF Selections, States, Plugins
<1>2. st \in States /\ st.look = "grid"
  BY <1>1 DEF AppearanceAssumption, States, Looks, Appearances
<1>3. /\ NoPlugin \in Plugins /\ NoPlugin.board = "grid" /\ NoPlugin.restore = {}
  BY DEF NoPlugin, Plugins, Sorters, Appearances
<1>4. Disable(a) = [a EXCEPT !.sortable = a.sortable \cup a.plugin.restore,
                             !.plugin = NoPlugin, !.state = st]
  BY DEF Disable
<1>5. a.sortable \cup a.plugin.restore \in Sorters
  BY <1>1 DEF Sorters
<1>6. a.sortable \cup a.plugin.restore = Kept(a.left)
  BY DEF Restorable
<1>7. /\ a.state.look # "grid" /\ a.plugin.oldSize # 0 => st.size = a.plugin.oldSize
      /\ a.state.look # "grid" =>
            st.sorters = IF a.plugin.oldSorting # {} THEN a.plugin.oldSorting
                         ELSE a.state.sorters
  OBVIOUS
<1>. HIDE DEF st
<1>8. /\ Disable(a) \in Selections
      /\ Disable(a).plugin = NoPlugin /\ Disable(a).state = st /\ Disable(a).left = a.left
      /\ Disable(a).sortable = a.sortable \cup a.plugin.restore
  BY <1>2, <1>3, <1>4, <1>5 DEF Selections
<1>9. Restorable(Disable(a))
  BY <1>3, <1>6, <1>8 DEF Restorable
<1>. QED  BY <1>2, <1>3, <1>6, <1>7, <1>8, <1>9

\* DataGridComponent.selectAppearance
LEMMA SelectEffect ==
    ASSUME AppearanceAssumption, NEW a \in Selections, Consistent(a), NEW b \in Appearances
    PROVE  /\ Select(a, b) \in Selections
           /\ Consistent(Select(a, b))
           /\ Select(a, b).selected = b
           /\ a.selected # b => Select(a, b).state.look = b
           /\ a.selected = b => Select(a, b) = a
<1>. DEFINE working == a.plugin.board # "grid"
            base   == IF working THEN Disable(a) ELSE a
<1>1. CASE a.selected = b
  BY <1>1 DEF Select
<1>2. CASE a.selected # b
  <2>1. /\ base \in Selections /\ Restorable(base) /\ base.plugin.board = "grid"
        /\ base.plugin = NoPlugin /\ base.plugin.restore = {}
        /\ base.sortable = Kept(base.left) /\ base.left = a.left
        /\ (working \/ a.state.look = "grid") => base.state.look = "grid"
    <3>1. CASE working
      BY <3>1, DisableEffect DEF Consistent
    <3>2. CASE ~working
      <4>1. a.plugin = NoPlugin /\ NoPlugin.restore = {}
        BY <3>2 DEF Consistent, Restorable, NoPlugin
      <4>. QED  BY <3>2, <4>1 DEF Consistent, Restorable
    <3>. QED  BY <3>1, <3>2
  <2>2. ~working => b # "grid"
    BY <1>2 DEF Consistent
  <2>3. Select(a, b) =
           IF b = "grid" THEN [base EXCEPT !.selected = b]
           ELSE IF working /\ a.state.look # "grid"
           THEN [Enable(Enable(base, b), b) EXCEPT !.selected = b, !.left = @ \cup {b}]
           ELSE [Enable(base, b) EXCEPT !.selected = b]
    BY <1>2 DEF Select
  <2>. HIDE DEF base
  <2>4. CASE b = "grid"
    <3>1. Select(a, b) = [base EXCEPT !.selected = b]
      BY <2>3, <2>4
    <3>2. /\ Select(a, b) \in Selections /\ Select(a, b).selected = b
          /\ Select(a, b).plugin = base.plugin /\ Select(a, b).state = base.state
          /\ Select(a, b).sortable = base.sortable /\ Select(a, b).left = base.left
      BY <2>1, <3>1 DEF Selections
    <3>. QED  BY <1>2, <2>1, <2>2, <2>4, <3>2 DEF Consistent, Restorable
  <2>5. CASE b \in Boards
    <3>. DEFINE on == Enable(base, b)
                g  == GroupOf[b]
    <3>0. b # "grid"
      BY <2>5 DEF AppearanceAssumption
    <3>1. /\ on \in Selections /\ Restorable(on) /\ on.plugin.board = b /\ on.state.look = b
          /\ on.sortable = base.sortable \ {g} /\ on.left = base.left
      BY <2>1, <2>5, EnableEffect
    <3>. HIDE DEF on
    <3>2. CASE ~(working /\ a.state.look # "grid")
      <4>1. Select(a, b) = [on EXCEPT !.selected = b]
        BY <2>3, <3>0, <3>2 DEF on
      <4>2. /\ Select(a, b) \in Selections /\ Select(a, b).selected = b
            /\ Select(a, b).plugin = on.plugin /\ Select(a, b).state = on.state
            /\ Select(a, b).sortable = on.sortable /\ Select(a, b).left = on.left
        BY <3>1, <4>1 DEF Selections
      <4>. QED  BY <1>2, <3>1, <4>2 DEF Consistent, Restorable
    <3>3. CASE working /\ a.state.look # "grid"
      <4>. DEFINE again == Enable(on, b)
                  gone  == on.left \cup {b}
      <4>1. Select(a, b) = [again EXCEPT !.selected = b, !.left = gone]
        <5>1. again.left = on.left
          BY <3>1 DEF Enable, Selections
        <5>. QED  BY <2>3, <3>0, <3>3, <5>1 DEF on
      <4>2. /\ again \in Selections /\ again.plugin.board = b /\ again.state.look = b
            /\ again.plugin.restore = {} /\ again.sortable = on.sortable
        BY <2>1, <2>5, <3>0, <3>1, EnabledAgain
      <4>. HIDE DEF again
      <4>3. /\ Select(a, b) \in Selections /\ Select(a, b).selected = b
            /\ Select(a, b).plugin = again.plugin /\ Select(a, b).state = again.state
            /\ Select(a, b).sortable = on.sortable /\ Select(a, b).left = gone
        <5>1. gone \in SUBSET Boards
          BY <2>5, <3>1 DEF Selections
        <5>. QED  BY <4>1, <4>2, <5>1 DEF Selections
      <4>4. Kept(gone) = Kept(base.left) \ {g}
        BY <3>1 DEF Kept
      <4>5. on.sortable = Kept(gone)
        BY <2>1, <3>1, <4>4
      <4>. QED  BY <1>2, <3>0, <4>2, <4>3, <4>5 DEF Consistent, Restorable
    <3>. QED  BY <3>2, <3>3
  <2>. QED  BY <2>4, <2>5 DEF Appearances
<1>. QED  BY <1>1, <1>2

\* The appearance there is an id for: what the state asks for is selected, unless it
\* is lost.
LEMMA BecomesInv ==
    ASSUME AppearanceAssumption, NEW a \in Selections, Consistent(a),
           Becomes(ById(a, a.state.look))
    PROVE  /\ Now' \in Selections /\ Consistent(Now')
           /\ state'.look \notin Lost => selected' = Selected(state'.look)
<1>1. CASE a.state.look \in Lost
  <2>1. ById(a, a.state.look) = a
    BY <1>1 DEF ById
  <2>2. Now' = a
    BY <2>1 DEF Becomes, Now, Selections
  <2>3. state'.look = a.state.look
    BY <2>1 DEF Becomes
  <2>. QED  BY <1>1, <2>2, <2>3
<1>2. CASE a.state.look \notin Lost
  <2>. DEFINE b == Selected(a.state.look)
              s == Select(a, b)
  <2>1. b \in Appearances
    BY DEF Selected, Appearances
  <2>2. ById(a, a.state.look) = s
    BY <1>2 DEF ById, Selected
  <2>3. /\ s \in Selections /\ Consistent(s) /\ s.selected = b
        /\ a.selected # b => s.state.look = b
        /\ a.selected = b => s = a
    BY <2>1, SelectEffect
  <2>4. b = Selected(b)
    BY DEF Selected
  <2>5. b = Selected(s.state.look)
    BY <2>3, <2>4
  <2>. HIDE DEF s, b
  <2>6. Now' = s
    BY <2>2, <2>3 DEF Becomes, Now, Selections
  <2>7. selected' = b /\ state' = s.state
    BY <2>2, <2>3 DEF Becomes
  <2>. QED  BY <2>3, <2>5, <2>6, <2>7
<1>. QED  BY <1>1, <1>2

LEMMA InitInv == AppearanceAssumption /\ Init => IInv
<1>. SUFFICES ASSUME AppearanceAssumption, Init PROVE IInv
  OBVIOUS
<1>1. NoPlugin \in Plugins /\ NoPlugin.board = "grid" /\ NoPlugin.restore = {}
  BY DEF NoPlugin, Plugins, Sorters, Appearances
<1>2. state \in States
  BY DEF Init, AppearanceAssumption, States, Looks
<1>3. Now \in Selections
  BY <1>1, <1>2 DEF Init, AppearanceAssumption, Now, Selections, Appearances, Sorters
<1>4. Consistent(Now)
  BY <1>1 DEF Init, Now, Consistent, Restorable, Kept
<1>. QED  BY <1>3, <1>4 DEF Init, IInv, EntryOK

\* The switch keeps in entry what the plugin can put back.
LEMMA SwitchInv ==
    ASSUME AppearanceAssumption, IInv, NEW b \in Appearances, Switch(b)
    PROVE  IInv'
<1>1. /\ Now \in Selections /\ Consistent(Now) /\ Becomes(Select(Now, b)) /\ Now.selected # b
      /\ ready' = ready /\ ready /\ Now.selected = selected /\ Now.plugin = plugin
      /\ Now.state = state /\ Now.sortable = sortable /\ Now.left = left
  BY DEF IInv, Switch, Now
<1>. DEFINE s == Select(Now, b)
<1>2. s \in Selections /\ Consistent(s) /\ s.selected = b /\ s.state.look = b
  BY <1>1, SelectEffect
<1>3. Now' = s /\ selected' = b /\ plugin' = s.plugin /\ state' = s.state
  BY <1>1, <1>2 DEF Becomes, Now, Selections
<1>4. b = Selected(b)
  BY DEF Selected, Appearances
<1>. HIDE DEF s
<1>5. state'.look = b
  BY <1>2, <1>3
<1>6. EntryOK'
  <2>1. CASE selected = "grid"
    <3>1. b \in Boards /\ b # "grid"
      BY <1>1, <2>1 DEF Appearances
    <3>2. plugin.board = "grid" /\ plugin = NoPlugin /\ plugin.restore = {}
      BY <1>1, <2>1 DEF Consistent, Restorable, NoPlugin
    <3>3. sortable = Kept(left) /\ Restorable(Now)
      BY <1>1, <3>2 DEF Consistent, Restorable
    <3>4. s = [Enable(Now, b) EXCEPT !.selected = b]
      BY <1>1, <3>1, <3>2 DEF Select, s
    <3>5. state.look # b
      <4>1. b \notin Lost
        BY <3>1 DEF AppearanceAssumption
      <4>. QED  BY <1>1, <2>1, <3>1, <4>1 DEF IInv, Selected
    <3>6. /\ Enable(Now, b) \in Selections
          /\ Enable(Now, b).plugin.board = b /\ Enable(Now, b).plugin.oldSize = state.size
          /\ IF GroupOf[b] \in state.sorters THEN Enable(Now, b).plugin.oldSorting = state.sorters
             ELSE /\ Enable(Now, b).plugin.oldSorting = {}
                  /\ Enable(Now, b).state.sorters = state.sorters
      BY <1>1, <3>1, <3>2, <3>3, <3>5, EnableEffect
    <3>7. s.plugin = Enable(Now, b).plugin /\ s.state = Enable(Now, b).state
      BY <3>4, <3>6 DEF Selections
    <3>8. entry'.size = state.size /\ entry'.sorters = state.sorters
      BY <2>1 DEF Switch
    <3>9. /\ plugin'.board = b /\ plugin'.oldSize = state.size
          /\ IF GroupOf[b] \in state.sorters THEN plugin'.oldSorting = state.sorters
             ELSE plugin'.oldSorting = {} /\ state'.sorters = state.sorters
      BY <1>3, <3>6, <3>7
    <3>. QED  BY <1>5, <3>1, <3>8, <3>9 DEF EntryOK
  <2>2. CASE selected # "grid"
    BY <2>2 DEF Switch, EntryOK
  <2>. QED  BY <2>1, <2>2
<1>. QED  BY <1>2, <1>3, <1>4, <1>5, <1>6 DEF IInv

\* Views, the toolbar and what they change (updateState).
LEMMA UpdateInv ==
    ASSUME AppearanceAssumption, IInv, NEW st \in States, Update(st)
    PROVE  IInv'
<1>. DEFINE a == [Now EXCEPT !.state = st]
<1>1. a \in Selections /\ Consistent(a) /\ a.state = st
  BY DEF IInv, Selections, Consistent, Restorable
<1>2. Becomes(ById(a, a.state.look))
  BY <1>1 DEF Update
<1>3. /\ Now' \in Selections /\ Consistent(Now')
      /\ state'.look \notin Lost => selected' = Selected(state'.look)
  <2>. HIDE DEF a
  <2>. QED  BY <1>1, <1>2, BecomesInv
<1>. QED  BY <1>3 DEF Update, IInv, EntryOK

LEMMA NextInv == AppearanceAssumption /\ IInv /\ [Next]_vars => IInv'
<1>. SUFFICES ASSUME AppearanceAssumption, IInv, [Next]_vars PROVE IInv'
  OBVIOUS
<1>1. state \in States
  BY DEF IInv, Selections, Now
<1>2. CASE ~ready /\ Update(state)
  BY <1>1, <1>2, UpdateInv
<1>3. CASE Ready
  <2>1. Now \in Selections /\ Consistent(Now) /\ Becomes(ById(Now, Now.state.look))
    BY <1>3 DEF IInv, Ready, Now
  <2>2. /\ Now' \in Selections /\ Consistent(Now')
        /\ state'.look \notin Lost => selected' = Selected(state'.look)
    BY <2>1, BecomesInv
  <2>. QED  BY <1>3, <2>2 DEF Ready, IInv, EntryOK
<1>4. ASSUME NEW look \in Looks, NEW sorters \in Sorters, ApplyView(look, sorters) PROVE IInv'
  <2>1. [look |-> look, size |-> InitialSize, sorters |-> sorters] \in States
    BY DEF States, AppearanceAssumption
  <2>. QED  BY <1>4, <2>1, UpdateInv DEF ApplyView
<1>5. ASSUME NEW b \in Appearances, Switch(b) PROVE IInv'
  BY <1>5, SwitchInv
<1>6. ASSUME NEW n \in Sizes, ChangePageSize(n) PROVE IInv'
  <2>1. [state EXCEPT !.size = n] \in States
    BY <1>1 DEF States, AppearanceAssumption
  <2>. QED  BY <1>6, <2>1, UpdateInv DEF ChangePageSize
<1>7. ASSUME NEW sorters \in Sorters, ChangeSorting(sorters) PROVE IInv'
  <2>1. [state EXCEPT !.sorters = sorters] \in States
    BY <1>1 DEF States
  <2>. QED  BY <1>7, <2>1, UpdateInv DEF ChangeSorting
<1>8. CASE UNCHANGED vars
  BY <1>8 DEF vars, IInv, Now, Consistent, Restorable, EntryOK, Selected
<1>. QED
  BY <1>2, <1>3, <1>4, <1>5, <1>6, <1>7, <1>8 DEF Next

-----------------------------------------------------------------------------
\* Back to the table with what there was (disable).
LEMMA SwitchBack ==
    ASSUME AppearanceAssumption, IInv, Switch("grid"), entry # NoEntry, entry.size # 0
    PROVE  state'.size = entry.size /\ state'.sorters = entry.sorters
<1>1. /\ Now \in Selections /\ Restorable(Now) /\ Now.plugin = plugin /\ Now.state = state
      /\ Now.selected = selected /\ selected # "grid"
  BY DEF IInv, Consistent, Now, Switch
<1>2. plugin.board # "grid" /\ state.look # "grid"
  BY DEF IInv, EntryOK, AppearanceAssumption
<1>3. Select(Now, "grid") = [Disable(Now) EXCEPT !.selected = "grid"]
  BY <1>1, <1>2 DEF Select
<1>4. Disable(Now) \in Selections
  BY <1>1, DisableEffect
<1>5. state' = Disable(Now).state
  BY <1>3, <1>4 DEF Switch, Becomes, Selections
<1>6. /\ state'.size = plugin.oldSize
      /\ state'.sorters = IF plugin.oldSorting # {} THEN plugin.oldSorting ELSE state.sorters
  BY <1>1, <1>2, <1>5, DisableEffect DEF IInv, EntryOK
<1>7. CASE GroupOf[plugin.board] \in entry.sorters
  BY <1>6, <1>7 DEF IInv, EntryOK
<1>8. CASE GroupOf[plugin.board] \notin entry.sorters
  BY <1>6, <1>8 DEF IInv, EntryOK
<1>. QED  BY <1>7, <1>8

\* One appearance, and the settings come back (selectAppearance, enable and
\* disable of the boards' plugin), for any boards, sizes and sorters.
THEOREM AppearanceCorrect == AppearanceAssumption => (Spec => OneAppearance)
<1>. SUFFICES ASSUME AppearanceAssumption PROVE Spec => OneAppearance
  OBVIOUS
<1>1. Init => IInv
  BY InitInv
<1>2. IInv /\ [Next]_vars => IInv'
  BY NextInv
<1>3. IInv => /\ plugin.board = selected
              /\ ready /\ state.look \notin Lost
                    => selected = IF state.look \in Boards THEN state.look ELSE "grid"
              /\ plugin.board = "grid" => sortable = Sortable \ {GroupOf[b] : b \in left}
  <2>. SUFFICES ASSUME IInv
                PROVE  /\ plugin.board = selected
                       /\ ready /\ state.look \notin Lost
                             => selected = IF state.look \in Boards THEN state.look ELSE "grid"
                       /\ plugin.board = "grid" => sortable = Sortable \ {GroupOf[b] : b \in left}
    OBVIOUS
  <2>1. /\ plugin.board = selected /\ sortable = Kept(left) \ plugin.restore
        /\ plugin.board = "grid" => plugin = NoPlugin
    BY DEF IInv, Consistent, Restorable, Now
  <2>2. NoPlugin.restore = {}
    BY DEF NoPlugin
  <2>. QED  BY <2>1, <2>2 DEF Kept, IInv, Selected
<1>4. IInv /\ [Next]_vars =>
        [(Switch("grid") /\ entry # NoEntry /\ entry.size # 0)
            => state'.size = entry.size /\ state'.sorters = entry.sorters]_vars
  BY SwitchBack
<1>. QED  BY <1>1, <1>2, <1>3, <1>4, PTL DEF Spec, OneAppearance

-----------------------------------------------------------------------------
Cells     == Iterator!Cells
PageOf(r) == (r - 1) \div RowsPerPage + 1
Pages     == Iterator!LastPage(GridRecords)
ByRow(m)  == m \in {"nextRow", "prevRow"}

\* The cells that a method comes by on its way from f, and those to stop at.
Way(f, m)    == {c \in Cells : c[2] \in renderable /\ (ByRow(m) => c[2] = f[2])}
Wanted(f, m) == Way(f, m) \cap editableCells

\* The place of a cell in the order a method goes through, of so many.
Size(m)   == IF ByRow(m) THEN GridRecords ELSE GridRecords * LastColumn
At(c, m)  == IF ByRow(m) THEN c[1] - 1 ELSE (c[1] - 1) * LastColumn + c[2] - 1
Ord(c, m) == IF Iterator!Forward(m) THEN At(c, m) ELSE Size(m) - 1 - At(c, m)

\* How far it is from f, round the grid.
Dist(c, f, m) ==
    IF Ord(c, m) > Ord(f, m) THEN Ord(c, m) - Ord(f, m) ELSE Ord(c, m) - Ord(f, m) + Size(m)

Nearest(f, m, x) == \A c \in Wanted(f, m) : Dist(c, f, m) >= Dist(x, f, m)
Ahead(f, m, x)   == \A c \in Wanted(f, m) : Dist(c, f, m) > IF x = f THEN 0 ELSE Dist(x, f, m)

Before(c, d, m) ==
    CASE m = "next"    -> c[1] < d[1] \/ (c[1] = d[1] /\ c[2] < d[2])
      [] m = "prev"    -> c[1] > d[1] \/ (c[1] = d[1] /\ c[2] > d[2])
      [] m = "nextRow" -> c[1] < d[1]
      [] OTHER         -> c[1] > d[1]

\* From x the way goes on to y: there is no cell between them, or x is the last
\* one and y the first.
Follows(y, x, f, m) ==
    \/ Before(x, y, m) /\ \A z \in Way(f, m) : ~ (Before(x, z, m) /\ Before(z, y, m))
    \/ \A z \in Way(f, m) : ~ Before(x, z, m) /\ ~ Before(z, y, m)

CellTypes ==
    /\ renderable \in SUBSET (1 .. LastColumn) /\ editableCells \in SUBSET Cells
    /\ current \in Cells /\ current[2] \in renderable
    /\ totalRecords = GridRecords /\ pageShown = PageOf(current[1])
    /\ from \in Cells /\ method \in Iterator!Methods

AtEdge(m) == current[1] = Iterator!EdgeRow(m) /\ current[2] = Iterator!EdgeColumn(m)

Turning ==
    /\ fetching = Iterator!NextPage(pageShown, method) /\ fetching # pageShown
    /\ currentPage = fetching
    /\ AtEdge(method)
    /\ Ahead(from, method, current)

\* The iterator is on its way from a cell of the page of the state.
Walking ==
    /\ CellTypes
    /\ from \in Wanted(from, method) /\ current \in Way(from, method)
    /\ fetching = 0 => currentPage = pageShown /\ Nearest(from, method, current)
    /\ fetching # 0 => Turning

\* As long as no record is deleted, no page comes but those of before.
WalkInv ==
    /\ renderable \in SUBSET (1 .. LastColumn) /\ editableCells \in SUBSET Cells
    /\ recordsLeft \in Nat /\ recordsLeft <= GridRecords
    /\ lock \in BOOLEAN /\ (~lock => fetching = 0)
    /\ from \in Cells /\ method \in Iterator!Methods
    /\ recordsLeft = GridRecords => totalRecords = GridRecords
    /\ recordsLeft = GridRecords /\ lock /\ straight => Walking

LEMMA CellsAssumed ==
    /\ GridRecords \in Nat \ {0} /\ RowsPerPage \in Nat \ {0} /\ LastColumn \in Nat \ {0}
    /\ Cells = (1 .. GridRecords) \X (1 .. LastColumn)
BY LoadingAssumption DEF LoadingAssumption, Iterator!CellIteratorAssumption, Cells, Iterator!Cells

LEMMA DivIs ==
    ASSUME NEW a \in Nat, NEW s \in Nat \ {0}
    PROVE  /\ a \div s \in Nat /\ s * (a \div s) <= a /\ a < s * (a \div s) + s
OBVIOUS

LEMMA ModIs ==
    ASSUME NEW n \in Nat \ {0}, NEW a \in 0 .. n - 1
    PROVE  a % n = a /\ (a + n) % n = a
OBVIOUS

LEMMA Times ==
    ASSUME NEW c \in Nat \ {0}, NEW a \in Int, NEW b \in Int, a < b
    PROVE  a * c + c <= b * c
OBVIOUS

\* Some columns have a first and a last one.
LEMMA HasFirst ==
    ASSUME NEW n \in Nat, NEW S \in SUBSET (1 .. n), S # {}
    PROVE  Iterator!FirstOf(S) \in S /\ \A j \in S : Iterator!FirstOf(S) <= j
<1>. DEFINE Up(i) == {j \in S : j <= i}
            T == {Up(i) : i \in S}
<1>1. \A X \in SUBSET S : IsFiniteSet(X)
  <2>1. IsFiniteSet(1 .. n)
    BY FS_Interval
  <2>. QED  BY <2>1, FS_Subset
<1>2. IsWellFoundedOn(StrictSubsetOrdering(S), SUBSET S)
  <2>1. FiniteSubsetsOf(S) = SUBSET S
    BY <1>1 DEF FiniteSubsetsOf
  <2>. QED  BY <2>1, FS_StrictSubsetOrderingWellFounded
<1>3. T \subseteq SUBSET S /\ T # {}
  OBVIOUS
<1>4. PICK X \in T : \A Y \in T : ~ (<<Y, X>> \in StrictSubsetOrdering(S))
  BY <1>2, <1>3, WFMin
<1>5. PICK i \in S : X = Up(i)
  OBVIOUS
<1>6. ASSUME NEW j \in S PROVE i <= j
  <2>1. SUFFICES ASSUME j < i PROVE FALSE
    OBVIOUS
  <2>2. Up(j) \subseteq X
    <3>1. \A k \in S : k <= j => k <= i
      BY <2>1
    <3>. QED  BY <3>1, <1>5
  <2>3. i \in X /\ i \notin Up(j)
    BY <2>1, <1>5
  <2>4. <<Up(j), X>> \in StrictSubsetOrdering(S)
    BY <2>2, <2>3, <1>3 DEF StrictSubsetOrdering
  <2>. QED  BY <2>4, <1>4
<1>. QED  BY <1>6 DEF Iterator!FirstOf

LEMMA HasLast ==
    ASSUME NEW n \in Nat, NEW S \in SUBSET (1 .. n), S # {}
    PROVE  Iterator!LastOf(S) \in S /\ \A j \in S : Iterator!LastOf(S) >= j
<1>. DEFINE T == {n + 1 - i : i \in S}
<1>1. T \in SUBSET (1 .. n) /\ T # {}
  <2>1. \A i \in S : n + 1 - i \in 1 .. n
    OBVIOUS
  <2>. QED  BY <2>1
<1>2. PICK t \in T : \A j \in T : t <= j
  BY <1>1, HasFirst
<1>3. PICK i \in S : t = n + 1 - i
  OBVIOUS
<1>4. ASSUME NEW j \in S PROVE i >= j
  <2>1. t <= n + 1 - j
    BY <1>2
  <2>. QED  BY <2>1, <1>3
<1>. QED  BY <1>4 DEF Iterator!LastOf

LEMMA FirstIs ==
    ASSUME NEW S \in SUBSET Int, NEW i \in S, \A j \in S : i <= j
    PROVE  Iterator!FirstOf(S) = i
<1>1. \A k \in S : (\A j \in S : k <= j) => k = i
  OBVIOUS
<1>. QED  BY <1>1 DEF Iterator!FirstOf

LEMMA LastIs ==
    ASSUME NEW S \in SUBSET Int, NEW i \in S, \A j \in S : i >= j
    PROVE  Iterator!LastOf(S) = i
<1>1. \A k \in S : (\A j \in S : k >= j) => k = i
  OBVIOUS
<1>. QED  BY <1>1 DEF Iterator!LastOf

\* The next column after one that is not the last, and the one before.
LEMMA After ==
    ASSUME NEW n \in Nat, NEW S \in SUBSET (1 .. n), NEW k \in S,
           NEW T, T = {c \in S : c >= k + 1}, T # {}
    PROVE  /\ Iterator!FirstOf(T) \in S /\ k < Iterator!FirstOf(T)
           /\ \A c \in S : ~ (k < c /\ c < Iterator!FirstOf(T))
<1>. \A c \in S : c \in Int
  OBVIOUS
<1>1. T \in SUBSET (1 .. n)
  OBVIOUS
<1>2. Iterator!FirstOf(T) \in T /\ \A c \in T : Iterator!FirstOf(T) <= c
  BY <1>1, HasFirst
<1>3. PICK i \in Int : i = Iterator!FirstOf(T)
  BY <1>2
<1>. QED  BY <1>2, <1>3

LEMMA Until ==
    ASSUME NEW n \in Nat, NEW S \in SUBSET (1 .. n), NEW k \in S,
           NEW T, T = {c \in S : c <= k - 1}, T # {}
    PROVE  /\ Iterator!LastOf(T) \in S /\ k > Iterator!LastOf(T)
           /\ \A c \in S : ~ (k > c /\ c > Iterator!LastOf(T))
<1>. \A c \in S : c \in Int
  OBVIOUS
<1>1. T \in SUBSET (1 .. n)
  OBVIOUS
<1>2. Iterator!LastOf(T) \in T /\ \A c \in T : Iterator!LastOf(T) >= c
  BY <1>1, HasLast
<1>3. PICK i \in Int : i = Iterator!LastOf(T)
  BY <1>2
<1>. QED  BY <1>2, <1>3

LEMMA Itself ==
    ASSUME NEW n \in Nat, NEW S \in SUBSET (1 .. n), NEW k \in S
    PROVE  /\ Iterator!FirstOf({c \in S : c >= k}) = k
           /\ Iterator!LastOf({c \in S : c <= k}) = k
<1>0. k \in Int /\ \A c \in S : c \in Int
  OBVIOUS
<1>. DEFINE T == {c \in S : c >= k}
            U == {c \in S : c <= k}
<1>1. k \in T /\ k \in U
  BY <1>0
<1>2. T \in SUBSET Int /\ U \in SUBSET Int
  BY <1>0
<1>3. (\A j \in T : k <= j) /\ (\A j \in U : k >= j)
  BY <1>0
<1>. HIDE DEF T, U
<1>4. Iterator!FirstOf(T) = k /\ Iterator!LastOf(U) = k
  BY <1>1, <1>2, <1>3, FirstIs, LastIs
<1>. QED  BY <1>4 DEF T, U

-----------------------------------------------------------------------------
\* The last page is the one the last record is on.
LEMMA LastPageIs ==
    /\ Pages \in Nat \ {0}
    /\ (Pages - 1) * RowsPerPage < GridRecords
    /\ GridRecords <= Pages * RowsPerPage
<1>. DEFINE a == GridRecords + RowsPerPage - 1
            q == a \div RowsPerPage
<1>1. a \in Nat /\ Pages = q
  BY CellsAssumed DEF Pages, Iterator!LastPage
<1>2. q \in Nat /\ RowsPerPage * q <= a /\ a < RowsPerPage * q + RowsPerPage
  BY <1>1, CellsAssumed, DivIs
<1>. HIDE DEF q
<1>3. q * RowsPerPage = RowsPerPage * q /\ (q - 1) * RowsPerPage = RowsPerPage * q - RowsPerPage
  BY <1>2, CellsAssumed
<1>4. q # 0
  BY <1>2, CellsAssumed
<1>. QED  BY <1>1, <1>2, <1>3, <1>4, CellsAssumed

\* The rows of a page are those between its first and its last one.
LEMMA PageIs ==
    ASSUME NEW r \in 1 .. GridRecords
    PROVE  /\ PageOf(r) \in 1 .. Pages
           /\ \A p \in Int : PageOf(r) = p
                 <=> (p - 1) * RowsPerPage < r /\ r <= (p - 1) * RowsPerPage + RowsPerPage
<1>. DEFINE q == (r - 1) \div RowsPerPage
<1>1. q \in Nat /\ RowsPerPage * q <= r - 1 /\ r - 1 < RowsPerPage * q + RowsPerPage
  BY CellsAssumed, DivIs
<1>2. PageOf(r) = q + 1
  BY DEF PageOf
<1>. HIDE DEF q
<1>3. ASSUME NEW p \in Int
      PROVE  PageOf(r) = p
                 <=> (p - 1) * RowsPerPage < r /\ r <= (p - 1) * RowsPerPage + RowsPerPage
  <2>1. CASE p - 1 = q
    BY <1>1, <1>2, <2>1, CellsAssumed
  <2>2. CASE p - 1 < q
    <3>1. (p - 1) * RowsPerPage + RowsPerPage <= q * RowsPerPage
      BY <1>1, <2>2, CellsAssumed, Times
    <3>. QED  BY <1>1, <1>2, <2>2, <3>1, CellsAssumed
  <2>3. CASE p - 1 > q
    <3>1. q * RowsPerPage + RowsPerPage <= (p - 1) * RowsPerPage
      BY <1>1, <2>3, CellsAssumed, Times
    <3>. QED  BY <1>1, <1>2, <2>3, <3>1, CellsAssumed
  <2>. QED  BY <1>1, <2>1, <2>2, <2>3
<1>4. q < Pages
  <2>1. SUFFICES ASSUME Pages < q + 1, Pages # q PROVE FALSE
    <3>1. CASE Pages = q
      BY <3>1, <1>1, LastPageIs, CellsAssumed
    <3>. QED  BY <3>1, <1>1, LastPageIs
  <2>2. Pages * RowsPerPage + RowsPerPage <= q * RowsPerPage
    BY <2>1, <1>1, LastPageIs, CellsAssumed, Times
  <2>. QED  BY <2>2, <1>1, LastPageIs, CellsAssumed
<1>. QED  BY <1>1, <1>2, <1>3, <1>4, LastPageIs

LEMMA RowsOfIs ==
    ASSUME NEW p \in 1 .. Pages
    PROVE  LET first == (p - 1) * RowsPerPage + 1
               last  == IF p = Pages THEN GridRecords
                        ELSE (p - 1) * RowsPerPage + RowsPerPage
           IN  /\ first \in 1 .. GridRecords /\ last \in 1 .. GridRecords /\ first <= last
               /\ Iterator!RowsOf(p, GridRecords) = first .. last
               /\ Iterator!FirstOf(Iterator!RowsOf(p, GridRecords)) = first
               /\ Iterator!LastOf(Iterator!RowsOf(p, GridRecords)) = last
               /\ \A r \in 1 .. GridRecords : r \in Iterator!RowsOf(p, GridRecords) <=> PageOf(r) = p
<1>. DEFINE before == (p - 1) * RowsPerPage
            first == before + 1
            last  == IF p = Pages THEN GridRecords ELSE before + RowsPerPage
<1>1. before \in Nat
  BY LastPageIs, CellsAssumed
<1>2. before + RowsPerPage = p * RowsPerPage
  BY LastPageIs, CellsAssumed
<1>3. before < GridRecords
  <2>1. CASE p = Pages
    BY <2>1, LastPageIs
  <2>2. CASE p - 1 < Pages - 1
    <3>1. before + RowsPerPage <= (Pages - 1) * RowsPerPage
      BY <2>2, LastPageIs, CellsAssumed, Times
    <3>. QED  BY <3>1, <1>1, LastPageIs, CellsAssumed
  <2>. QED  BY <2>1, <2>2, LastPageIs
<1>4. IF p = Pages THEN GridRecords <= before + RowsPerPage
      ELSE before + RowsPerPage <= GridRecords
  <2>1. CASE p = Pages
    BY <2>1, <1>2, LastPageIs
  <2>2. CASE p = Pages - 1
    BY <2>2, <1>1, <1>2, LastPageIs, CellsAssumed
  <2>3. CASE p < Pages - 1
    <3>1. p * RowsPerPage + RowsPerPage <= (Pages - 1) * RowsPerPage
      BY <2>3, LastPageIs, CellsAssumed, Times
    <3>. QED  BY <2>3, <3>1, <1>1, <1>2, LastPageIs, CellsAssumed
  <2>. QED  BY <2>1, <2>2, <2>3, LastPageIs
<1>5. \A r \in 1 .. GridRecords : PageOf(r) = p <=> before < r /\ r <= before + RowsPerPage
  BY PageIs
<1>6. Iterator!RowsOf(p, GridRecords) = {r \in 1 .. GridRecords : PageOf(r) = p}
  BY DEF Iterator!RowsOf, Iterator!PageOf, PageOf
<1>. HIDE DEF before
<1>7. /\ first \in 1 .. GridRecords /\ last \in 1 .. GridRecords /\ first <= last
      /\ \A r \in 1 .. GridRecords :
            before < r /\ r <= before + RowsPerPage <=> first <= r /\ r <= last
  BY <1>1, <1>3, <1>4, CellsAssumed
<1>8. Iterator!RowsOf(p, GridRecords) = first .. last
  BY <1>5, <1>6, <1>7, CellsAssumed
<1>. HIDE DEF last, first
<1>9. Iterator!FirstOf(Iterator!RowsOf(p, GridRecords)) = first /\ Iterator!LastOf(Iterator!RowsOf(p, GridRecords)) = last
  <2>1. /\ first .. last \in SUBSET Int /\ first \in first .. last /\ last \in first .. last
        /\ \A j \in first .. last : first <= j /\ last >= j
    BY <1>7
  <2>. QED  BY <2>1, <1>8, FirstIs, LastIs
<1>10. \A r \in 1 .. GridRecords : r \in Iterator!RowsOf(p, GridRecords) <=> PageOf(r) = p
  BY <1>6
<1>. QED  BY <1>7, <1>8, <1>9, <1>10 DEF first, last, before

-----------------------------------------------------------------------------
\* Where the way leads.
LEMMA OrdType ==
    ASSUME NEW m \in Iterator!Methods, NEW c \in Cells
    PROVE  /\ Size(m) \in Nat \ {0} /\ At(c, m) \in 0 .. Size(m) - 1
           /\ Ord(c, m) \in 0 .. Size(m) - 1
<1>1. c[1] \in 1 .. GridRecords /\ c[2] \in 1 .. LastColumn
  BY CellsAssumed
<1>2. CASE ByRow(m)
  BY <1>1, <1>2, CellsAssumed DEF Size, At, Ord
<1>3. CASE ~ByRow(m)
  <2>1. (c[1] - 1) * LastColumn \in Nat
    BY <1>1, CellsAssumed
  <2>2. (c[1] - 1) * LastColumn + LastColumn <= GridRecords * LastColumn
    BY <1>1, CellsAssumed, Times
  <2>3. GridRecords * LastColumn \in Nat
    BY CellsAssumed
  <2>. QED  BY <1>1, <1>3, <2>1, <2>2, <2>3, CellsAssumed DEF Size, At, Ord
<1>. QED  BY <1>2, <1>3

\* The order of the numbers is the order in which the way comes by the cells.
LEMMA Order ==
    ASSUME NEW m \in Iterator!Methods, NEW f \in Cells, NEW c \in Way(f, m), NEW d \in Way(f, m)
    PROVE  /\ Ord(c, m) < Ord(d, m) <=> Before(c, d, m)
           /\ Ord(c, m) = Ord(d, m) <=> c = d
<1>1. /\ c \in Cells /\ d \in Cells
      /\ c[1] \in 1 .. GridRecords /\ c[2] \in 1 .. LastColumn /\ c = <<c[1], c[2]>>
      /\ d[1] \in 1 .. GridRecords /\ d[2] \in 1 .. LastColumn /\ d = <<d[1], d[2]>>
  BY CellsAssumed DEF Way
<1>2. Ord(c, m) \in Nat /\ Ord(d, m) \in Nat /\ Size(m) \in Nat
  BY <1>1, OrdType
<1>3. CASE ByRow(m)
  <2>1. c[2] = d[2]
    BY <1>3 DEF Way
  <2>2. CASE m = "nextRow"
    BY <1>1, <2>1, <2>2, CellsAssumed DEF Ord, At, Size, ByRow, Before, Iterator!Forward
  <2>3. CASE m = "prevRow"
    BY <1>1, <2>1, <2>3, CellsAssumed DEF Ord, At, Size, ByRow, Before, Iterator!Forward
  <2>. QED  BY <1>3, <2>2, <2>3 DEF ByRow
<1>4. CASE ~ByRow(m)
  <2>. DEFINE above == (c[1] - 1) * LastColumn
              below == (d[1] - 1) * LastColumn
  <2>1. above \in Nat /\ below \in Nat
    BY <1>1, CellsAssumed
  <2>2. c[1] < d[1] => above + LastColumn <= below
    BY <1>1, CellsAssumed, Times
  <2>3. d[1] < c[1] => below + LastColumn <= above
    BY <1>1, CellsAssumed, Times
  <2>4. c[1] = d[1] => above = below
    OBVIOUS
  <2>5. At(c, m) = above + c[2] - 1 /\ At(d, m) = below + d[2] - 1
    BY <1>4 DEF At
  <2>. HIDE DEF above, below
  <2>6. /\ At(c, m) < At(d, m) <=> c[1] < d[1] \/ (c[1] = d[1] /\ c[2] < d[2])
        /\ At(c, m) > At(d, m) <=> c[1] > d[1] \/ (c[1] = d[1] /\ c[2] > d[2])
    BY <1>1, <2>1, <2>2, <2>3, <2>4, <2>5, CellsAssumed
  <2>7. At(c, m) \in Int /\ At(d, m) \in Int
    BY <1>1, OrdType
  <2>8. At(c, m) = At(d, m) <=> c = d
    BY <1>1, <2>6, <2>7
  <2>9. CASE m = "next"
    BY <1>2, <2>6, <2>7, <2>8, <2>9 DEF Ord, Before, Iterator!Forward
  <2>10. CASE m = "prev"
    BY <1>2, <2>6, <2>7, <2>8, <2>10 DEF Ord, Before, Iterator!Forward
  <2>. QED  BY <1>4, <2>9, <2>10 DEF ByRow, Iterator!Methods
<1>. QED  BY <1>3, <1>4

\* What is nearest ahead of x is as near from the next cell.
LEMMA Advance ==
    ASSUME NEW m \in Iterator!Methods, NEW f, f \in Way(f, m),
           NEW x \in Way(f, m), NEW y \in Way(f, m),
           Ahead(f, m, x), Follows(y, x, f, m)
    PROVE  Nearest(f, m, y)
<1>. SUFFICES ASSUME NEW c \in Wanted(f, m) PROVE Dist(c, f, m) >= Dist(y, f, m)
  BY DEF Nearest
<1>1. c \in Way(f, m) /\ f \in Cells /\ x \in Cells /\ y \in Cells /\ c \in Cells
  BY DEF Way, Wanted
<1>2. /\ Size(m) \in Nat
      /\ Ord(f, m) \in 0 .. Size(m) - 1 /\ Ord(x, m) \in 0 .. Size(m) - 1
      /\ Ord(y, m) \in 0 .. Size(m) - 1 /\ Ord(c, m) \in 0 .. Size(m) - 1
  BY <1>1, OrdType
<1>3. x = f <=> Ord(x, m) = Ord(f, m)
  BY <1>1, Order
<1>4. \/ /\ Ord(x, m) < Ord(y, m)
         /\ \A z \in {c, f} : ~ (Ord(x, m) < Ord(z, m) /\ Ord(z, m) < Ord(y, m))
      \/ \A z \in {c, f, x} : ~ (Ord(x, m) < Ord(z, m)) /\ ~ (Ord(z, m) < Ord(y, m))
  BY <1>1, Order DEF Follows
<1>5. Dist(c, f, m) > IF x = f THEN 0 ELSE Dist(x, f, m)
  BY DEF Ahead
<1>. QED  BY <1>2, <1>3, <1>4, <1>5 DEF Dist

\* The distance of the property is the one of the proof.
LEMMA DistanceIs ==
    ASSUME NEW m \in Iterator!Methods, NEW c \in Cells, from \in Cells
    PROVE  Iterator!Distance(c, m) = Dist(c, from, m)
<1>. DEFINE n == Size(m)
            a == At(c, m)
            b == At(from, m)
            back == (b + n - a) % n
            on   == (a + n - b) % n
            d == IF Iterator!Forward(m) THEN on ELSE back
<1>1. n \in Nat \ {0} /\ a \in 0 .. n - 1 /\ b \in 0 .. n - 1
  BY OrdType
<1>2. Iterator!Distance(c, m) = IF d = 0 THEN n ELSE d
  BY DEF Iterator!Distance, Size, At, ByRow, Iterator!Methods
<1>3. Dist(c, from, m) = IF Iterator!Forward(m) THEN IF a > b THEN a - b ELSE a - b + n
                         ELSE IF b > a THEN b - a ELSE b - a + n
  BY <1>1 DEF Dist, Ord
<1>. HIDE DEF n, a, b
<1>4. on = IF a >= b THEN a - b ELSE a - b + n
  <2>1. CASE a >= b
    <3>1. a - b \in 0 .. n - 1 /\ a + n - b = (a - b) + n
      BY <1>1, <2>1
    <3>. QED  BY <3>1, <1>1, <2>1, ModIs
  <2>2. CASE a < b
    <3>1. a + n - b \in 0 .. n - 1
      BY <1>1, <2>2
    <3>. QED  BY <3>1, <1>1, <2>2, ModIs
  <2>. QED  BY <1>1, <2>1, <2>2
<1>5. back = IF b >= a THEN b - a ELSE b - a + n
  <2>1. CASE b >= a
    <3>1. b - a \in 0 .. n - 1 /\ b + n - a = (b - a) + n
      BY <1>1, <2>1
    <3>. QED  BY <3>1, <1>1, <2>1, ModIs
  <2>2. CASE b < a
    <3>1. b + n - a \in 0 .. n - 1
      BY <1>1, <2>2
    <3>. QED  BY <3>1, <1>1, <2>2, ModIs
  <2>. QED  BY <1>1, <2>1, <2>2
<1>. QED  BY <1>1, <1>2, <1>3, <1>4, <1>5

-----------------------------------------------------------------------------
LEMMA MethodIs ==
    ASSUME NEW m \in Iterator!Methods
    PROVE  /\ Iterator!Forward(m) <=> m \in {"next", "nextRow"}
           /\ m = "next" \/ m = "prev" \/ ByRow(m)
           /\ ~(m = "next" /\ ByRow(m)) /\ ~(m = "prev" /\ ByRow(m))
           /\ ~(m = "prev" /\ Iterator!Forward(m))
BY DEF Iterator!Forward, Iterator!Methods, ByRow

LEMMA ColumnsAre ==
    ASSUME CellTypes
    PROVE  /\ renderable \in SUBSET (1 .. LastColumn) /\ renderable # {} /\ LastColumn \in Nat
           /\ renderable \in SUBSET Int
           /\ \A c \in renderable : c \in Int /\ 1 <= c /\ c <= LastColumn
           /\ current[1] \in 1 .. GridRecords /\ current[2] \in renderable
           /\ \A f, m : \A z \in Way(f, m) : z[1] \in 1 .. GridRecords /\ z[2] \in renderable
<1>1. /\ renderable \in SUBSET (1 .. LastColumn) /\ current[2] \in renderable
      /\ current[1] \in 1 .. GridRecords
  BY CellsAssumed DEF CellTypes
<1>2. \A c \in renderable : c \in 1 .. LastColumn
  BY <1>1
<1>3. \A c \in renderable : c \in Int /\ 1 <= c /\ c <= LastColumn
  BY <1>2
<1>4. \A f, m : \A z \in Way(f, m) : z[1] \in 1 .. GridRecords /\ z[2] \in renderable
  BY CellsAssumed DEF Way
<1>. QED  BY <1>1, <1>3, <1>4, CellsAssumed

LEMMA EdgeColumnIs ==
    ASSUME CellTypes, NEW m \in Iterator!Methods
    PROVE  /\ m = "next" => /\ Iterator!EdgeColumn(m) \in renderable
                            /\ \A c \in renderable : Iterator!EdgeColumn(m) >= c
           /\ m = "prev" => /\ Iterator!EdgeColumn(m) \in renderable
                            /\ \A c \in renderable : Iterator!EdgeColumn(m) <= c
           /\ ByRow(m) => Iterator!EdgeColumn(m) = current[2]
<1>1. /\ renderable \in SUBSET (1 .. LastColumn) /\ renderable # {} /\ LastColumn \in Nat
  BY CellsAssumed DEF CellTypes
<1>2. CASE m = "next"
  BY <1>1, <1>2, HasLast DEF Iterator!EdgeColumn, ByRow
<1>3. CASE m = "prev"
  BY <1>1, <1>3, HasFirst DEF Iterator!EdgeColumn, ByRow
<1>4. CASE ByRow(m)
  BY <1>4 DEF Iterator!EdgeColumn, ByRow
<1>. QED  BY <1>2, <1>3, <1>4, MethodIs

\* The first cell that is found in another row.
LEMMA Found ==
    ASSUME CellTypes, NEW m \in Iterator!Methods, NEW f, current \in Way(f, m),
           NEW row \in 1 .. GridRecords, NEW y,
           y = Iterator!FindNext(row, Iterator!StartColumn(m), m)
    PROVE  /\ y \in Way(f, m) /\ y[1] = row
           /\ m = "next" => \A c \in renderable : y[2] <= c
           /\ m = "prev" => \A c \in renderable : y[2] >= c
<1>1. /\ renderable \in SUBSET (1 .. LastColumn) /\ renderable # {} /\ LastColumn \in Nat
      /\ renderable \in SUBSET Int /\ current[2] \in renderable
      /\ \A c \in renderable : c \in Int /\ 1 <= c /\ c <= LastColumn
  BY ColumnsAre
<1>2. ASSUME NEW c \in renderable, y = <<row, c>>, ByRow(m) => c = current[2]
      PROVE  y \in Way(f, m) /\ y[1] = row /\ y[2] = c
  BY <1>1, <1>2, CellsAssumed DEF Way
<1>3. CASE m = "next"
  <2>1. {c \in renderable : c >= 1} = renderable
    BY <1>1
  <2>2. y = <<row, Iterator!FirstOf(renderable)>>
    BY <1>3, <2>1 DEF Iterator!FindNext, Iterator!StartColumn, Iterator!Forward
  <2>3. /\ Iterator!FirstOf(renderable) \in renderable
        /\ \A c \in renderable : Iterator!FirstOf(renderable) <= c
    BY <1>1, HasFirst
  <2>4. y \in Way(f, m) /\ y[1] = row /\ y[2] = Iterator!FirstOf(renderable)
    BY <1>2, <1>3, <2>2, <2>3, MethodIs
  <2>. QED  BY <1>3, <2>3, <2>4
<1>4. CASE m = "prev"
  <2>1. {c \in renderable : c <= LastColumn} = renderable
    BY <1>1
  <2>2. y = <<row, Iterator!LastOf(renderable)>>
    BY <1>4, <2>1 DEF Iterator!FindNext, Iterator!StartColumn, Iterator!Forward
  <2>3. /\ Iterator!LastOf(renderable) \in renderable
        /\ \A c \in renderable : Iterator!LastOf(renderable) >= c
    BY <1>1, HasLast
  <2>4. y \in Way(f, m) /\ y[1] = row /\ y[2] = Iterator!LastOf(renderable)
    BY <1>2, <1>4, <2>2, <2>3, MethodIs
  <2>. QED  BY <1>4, <2>3, <2>4
<1>5. CASE ByRow(m)
  <2>. DEFINE k == current[2]
  <2>1. Iterator!StartColumn(m) = k
    BY <1>5 DEF Iterator!StartColumn, ByRow
  <2>3. /\ Iterator!FirstOf({c \in renderable : c >= k}) = k
        /\ Iterator!LastOf({c \in renderable : c <= k}) = k
    BY <1>1, Itself
  <2>4. y = <<row, k>>
    BY <2>1, <2>3 DEF Iterator!FindNext
  <2>. QED  BY <1>2, <1>5, <2>4, MethodIs DEF CellTypes
<1>. QED  BY <1>3, <1>4, <1>5, MethodIs

\* The row after that of the current cell, round the grid.
RowAfter(row, m) ==
    IF Iterator!Forward(m) THEN row = current[1] + 1 \/ (current[1] = GridRecords /\ row = 1)
    ELSE row = current[1] - 1 \/ (current[1] = 1 /\ row = GridRecords)

LEMMA NextRowFollows ==
    ASSUME CellTypes, NEW m \in Iterator!Methods, NEW f, current \in Way(f, m),
           current[2] = Iterator!EdgeColumn(m),
           NEW row \in 1 .. GridRecords, RowAfter(row, m), NEW y,
           y = Iterator!FindNext(row, Iterator!StartColumn(m), m)
    PROVE  y \in Way(f, m) /\ y[1] = row /\ Follows(y, current, f, m)
<1>1. /\ y \in Way(f, m) /\ y[1] = row
      /\ m = "next" => \A c \in renderable : y[2] <= c
      /\ m = "prev" => \A c \in renderable : y[2] >= c
  BY Found
<1>2. /\ m = "next" => \A c \in renderable : current[2] >= c
      /\ m = "prev" => \A c \in renderable : current[2] <= c
  BY EdgeColumnIs
<1>3. \A z \in Way(f, m) : /\ z[1] \in 1 .. GridRecords /\ z[2] \in renderable
                           /\ z[2] \in 1 .. LastColumn
  BY CellsAssumed DEF Way
<1>4. /\ current[1] \in 1 .. GridRecords /\ current[2] \in 1 .. LastColumn
      /\ y[2] \in 1 .. LastColumn /\ row \in Int
  BY <1>1, <1>3
<1>5. CASE m = "next"
  <2>1. CASE row = current[1] + 1
    BY <1>1, <1>2, <1>3, <1>4, <1>5, <2>1, CellsAssumed DEF Follows, Before
  <2>2. CASE current[1] = GridRecords /\ row = 1
    BY <1>1, <1>2, <1>3, <1>4, <1>5, <2>2, CellsAssumed DEF Follows, Before
  <2>. QED  BY <1>1, <1>5, <2>1, <2>2, MethodIs DEF RowAfter
<1>6. CASE m = "prev"
  <2>1. CASE row = current[1] - 1
    BY <1>1, <1>2, <1>3, <1>4, <1>6, <2>1, CellsAssumed DEF Follows, Before
  <2>2. CASE current[1] = 1 /\ row = GridRecords
    BY <1>1, <1>2, <1>3, <1>4, <1>6, <2>2, CellsAssumed DEF Follows, Before
  <2>. QED  BY <1>1, <1>6, <2>1, <2>2, MethodIs DEF RowAfter
<1>7. CASE m = "nextRow"
  <2>1. CASE row = current[1] + 1
    BY <1>1, <1>3, <1>4, <1>7, <2>1, CellsAssumed DEF Follows, Before
  <2>2. CASE current[1] = GridRecords /\ row = 1
    BY <1>1, <1>3, <1>4, <1>7, <2>2, CellsAssumed DEF Follows, Before
  <2>. QED  BY <1>1, <1>7, <2>1, <2>2, MethodIs DEF RowAfter
<1>8. CASE m = "prevRow"
  <2>1. CASE row = current[1] - 1
    BY <1>1, <1>3, <1>4, <1>8, <2>1, CellsAssumed DEF Follows, Before
  <2>2. CASE current[1] = 1 /\ row = GridRecords
    BY <1>1, <1>3, <1>4, <1>8, <2>2, CellsAssumed DEF Follows, Before
  <2>. QED  BY <1>1, <1>8, <2>1, <2>2, MethodIs DEF RowAfter
<1>. QED  BY <1>5, <1>6, <1>7, <1>8 DEF Iterator!Methods

LEMMA NextColumnFollows ==
    ASSUME CellTypes, NEW m \in Iterator!Methods, NEW f, current \in Way(f, m),
           current[2] # Iterator!EdgeColumn(m), NEW y,
           y = Iterator!FindNext(current[1], IF Iterator!Forward(m) THEN current[2] + 1
                                             ELSE current[2] - 1, m)
    PROVE  y \in Way(f, m) /\ y[1] = current[1] /\ Follows(y, current, f, m)
<1>1. /\ renderable \in SUBSET (1 .. LastColumn) /\ LastColumn \in Nat
      /\ \A c \in renderable : c \in Int /\ 1 <= c /\ c <= LastColumn
      /\ current[2] \in renderable /\ current[1] \in 1 .. GridRecords
      /\ \A z \in Way(f, m) : z[1] \in 1 .. GridRecords /\ z[2] \in renderable
  BY ColumnsAre
<1>2. ~ByRow(m)
  BY EdgeColumnIs
<1>3. \A c \in renderable : <<current[1], c>> \in Way(f, m)
  BY <1>1, <1>2, CellsAssumed DEF Way
<1>4. CASE m = "next"
  <2>0. PICK k \in renderable : k = current[2]
    BY <1>1
  <2>. DEFINE after == {c \in renderable : c >= k + 1}
  <2>1. PICK e \in renderable : e >= k /\ e # k
    BY <1>1, <1>4, <2>0, EdgeColumnIs
  <2>2. k \in renderable /\ k \in Int /\ e \in Int
    BY <1>1
  <2>3. after # {}
    <3>1. e \in after
      BY <2>1, <2>2
    <3>. QED  BY <3>1
  <2>4. y = <<current[1], Iterator!FirstOf(after)>>
    BY <1>4, <2>0 DEF Iterator!FindNext, Iterator!Forward
  <2>5. PICK i \in renderable : i = Iterator!FirstOf(after) /\ k < i
                              /\ \A c \in renderable : ~ (k < c /\ c < i)
    <3>0. renderable \in SUBSET (1 .. LastColumn) /\ LastColumn \in Nat
      BY <1>1
    <3>2. after = {c \in renderable : c >= k + 1}
      OBVIOUS
    <3>. HIDE DEF after
    <3>1. /\ Iterator!FirstOf(after) \in renderable /\ k < Iterator!FirstOf(after)
          /\ \A c \in renderable : ~ (k < c /\ c < Iterator!FirstOf(after))
      BY <3>0, <3>2, <2>2, <2>3, After
    <3>. QED  BY <3>1
  <2>6. y = <<current[1], i>>
    BY <2>4, <2>5
  <2>7. y \in Way(f, m) /\ y[1] = current[1] /\ y[2] = i
    BY <1>3, <2>6
  <2>. HIDE DEF after
  <2>. QED  BY <1>1, <1>4, <2>0, <2>2, <2>5, <2>7 DEF Follows, Before
<1>5. CASE m = "prev"
  <2>0. PICK k \in renderable : k = current[2]
    BY <1>1
  <2>. DEFINE until == {c \in renderable : c <= k - 1}
  <2>1. PICK e \in renderable : e <= k /\ e # k
    BY <1>1, <1>5, <2>0, EdgeColumnIs
  <2>2. k \in renderable /\ k \in Int /\ e \in Int
    BY <1>1
  <2>3. until # {}
    <3>1. e \in until
      BY <2>1, <2>2
    <3>. QED  BY <3>1
  <2>4. y = <<current[1], Iterator!LastOf(until)>>
    BY <1>5, <2>0 DEF Iterator!FindNext, Iterator!Forward
  <2>5. PICK i \in renderable : i = Iterator!LastOf(until) /\ k > i
                              /\ \A c \in renderable : ~ (k > c /\ c > i)
    <3>0. renderable \in SUBSET (1 .. LastColumn) /\ LastColumn \in Nat
      BY <1>1
    <3>2. until = {c \in renderable : c <= k - 1}
      OBVIOUS
    <3>. HIDE DEF until
    <3>1. /\ Iterator!LastOf(until) \in renderable /\ k > Iterator!LastOf(until)
          /\ \A c \in renderable : ~ (k > c /\ c > Iterator!LastOf(until))
      BY <3>0, <3>2, <2>2, <2>3, Until
    <3>. QED  BY <3>1
  <2>6. y = <<current[1], i>>
    BY <2>4, <2>5
  <2>7. y \in Way(f, m) /\ y[1] = current[1] /\ y[2] = i
    BY <1>3, <2>6
  <2>. HIDE DEF until
  <2>. QED  BY <1>1, <1>5, <2>0, <2>2, <2>5, <2>7 DEF Follows, Before
<1>. QED  BY <1>2, <1>4, <1>5, MethodIs

\* The page that is turned to begins with the row after the last one, and the
\* other way round.
LEMMA TurnedFollows ==
    ASSUME CellTypes, NEW m \in Iterator!Methods, NEW f, current \in Way(f, m), AtEdge(m),
           NEW p, p = Iterator!NextPage(pageShown, m),
           NEW y, y = Iterator!Turned(p, GridRecords, m)
    PROVE  /\ y \in Way(f, m) /\ PageOf(y[1]) = p /\ Follows(y, current, f, m)
           /\ p \in 1 .. Pages
<1>. DEFINE L == Pages
            row == IF Iterator!Forward(m) THEN Iterator!FirstOf(Iterator!RowsOf(p, GridRecords))
                   ELSE Iterator!LastOf(Iterator!RowsOf(p, GridRecords))
<1>1. current[1] \in 1 .. GridRecords /\ pageShown \in 1 .. L /\ L \in Nat \ {0}
  <2>1. current[1] \in 1 .. GridRecords
    BY CellsAssumed DEF CellTypes
  <2>. QED  BY <2>1, PageIs, LastPageIs DEF CellTypes
<1>2. p \in 1 .. L
  BY <1>1 DEF Iterator!NextPage, Pages, CellTypes
<1>3. /\ row \in 1 .. GridRecords /\ PageOf(row) = p
      /\ row = IF Iterator!Forward(m) THEN (p - 1) * RowsPerPage + 1
               ELSE IF p = L THEN GridRecords ELSE (p - 1) * RowsPerPage + RowsPerPage
  <2>1. row \in 1 .. GridRecords
    BY <1>2, RowsOfIs
  <2>2. row \in Iterator!RowsOf(p, GridRecords)
    BY <1>2, <2>1, RowsOfIs
  <2>. QED  BY <1>2, <2>1, <2>2, RowsOfIs
<1>4. current[1] = IF Iterator!Forward(m)
                   THEN IF pageShown = L THEN GridRecords
                        ELSE (pageShown - 1) * RowsPerPage + RowsPerPage
                   ELSE (pageShown - 1) * RowsPerPage + 1
  BY <1>1, RowsOfIs DEF AtEdge, Iterator!EdgeRow, CellTypes
<1>5. RowAfter(row, m)
  <2>1. CASE Iterator!Forward(m)
    <3>1. CASE pageShown < L
      <4>1. p = pageShown + 1
        BY <2>1, <3>1 DEF Iterator!NextPage, Pages, CellTypes
      <4>2. (p - 1) * RowsPerPage = (pageShown - 1) * RowsPerPage + RowsPerPage
        BY <1>1, <4>1, CellsAssumed
      <4>3. pageShown # L
        BY <1>1, <3>1
      <4>. QED  BY <1>3, <1>4, <2>1, <4>2, <4>3 DEF RowAfter
    <3>2. CASE pageShown = L
      <4>1. p = 1
        BY <1>1, <2>1, <3>2 DEF Iterator!NextPage, Pages, CellTypes
      <4>2. (p - 1) * RowsPerPage = 0
        BY <4>1, CellsAssumed
      <4>. QED  BY <1>3, <1>4, <2>1, <3>2, <4>2 DEF RowAfter
    <3>. QED  BY <1>1, <3>1, <3>2
  <2>2. CASE ~Iterator!Forward(m)
    <3>1. CASE pageShown > 1
      <4>1. p = pageShown - 1 /\ p # L
        BY <1>1, <2>2, <3>1 DEF Iterator!NextPage, Pages, CellTypes
      <4>2. (pageShown - 1) * RowsPerPage = (p - 1) * RowsPerPage + RowsPerPage
        BY <1>1, <4>1, CellsAssumed
      <4>3. (p - 1) * RowsPerPage \in Int
        BY <1>2, CellsAssumed
      <4>. QED  BY <1>3, <1>4, <2>2, <4>1, <4>2, <4>3, CellsAssumed DEF RowAfter
    <3>2. CASE pageShown = 1
      <4>1. p = L
        BY <2>2, <3>2 DEF Iterator!NextPage, Pages, CellTypes
      <4>2. (pageShown - 1) * RowsPerPage = 0
        BY <3>2, CellsAssumed
      <4>. QED  BY <1>3, <1>4, <2>2, <4>1, <4>2 DEF RowAfter
    <3>. QED  BY <1>1, <3>1, <3>2
  <2>. QED  BY <2>1, <2>2
<1>6. y = Iterator!FindNext(row, Iterator!StartColumn(m), m)
  BY DEF Iterator!Turned
<1>7. y \in Way(f, m) /\ y[1] = row /\ Follows(y, current, f, m)
  <2>. HIDE DEF row
  <2>. QED  BY <1>3, <1>5, <1>6, NextRowFollows DEF AtEdge
<1>. QED  BY <1>2, <1>3, <1>7

-----------------------------------------------------------------------------
\* One call of the iterator's method, from a cell behind which all wanted cells
\* lie: the next cell is the nearest, or the page has to be turned.
LEMMA MoveStep ==
    ASSUME CellTypes, NEW m \in Iterator!Methods, NEW f, f \in Way(f, m),
           current \in Way(f, m), Ahead(f, m, current), fetching = 0,
           currentPage = pageShown, Iterator!Move(m)
    PROVE  /\ current' \in Way(f, m) /\ PageOf(current'[1]) = pageShown
           /\ fetching' = 0 => currentPage' = currentPage /\ Nearest(f, m, current')
           /\ fetching' # 0 => /\ fetching' = Iterator!NextPage(pageShown, m)
                               /\ fetching' # pageShown /\ currentPage' = fetching'
                               /\ current' = current /\ AtEdge(m)
<1>. DEFINE L == Pages
<1>1. /\ current[1] \in 1 .. GridRecords /\ pageShown \in 1 .. L
      /\ PageOf(current[1]) = pageShown
  <2>1. current[1] \in 1 .. GridRecords
    BY ColumnsAre
  <2>. QED  BY <2>1, PageIs DEF CellTypes
<1>2. SUFFICES \/ /\ fetching' = 0 /\ currentPage' = currentPage /\ current' \in Way(f, m)
                  /\ PageOf(current'[1]) = pageShown
                  /\ Follows(current', current, f, m)
               \/ /\ fetching' = Iterator!NextPage(pageShown, m) /\ fetching' # pageShown
                  /\ currentPage' = fetching'
                  /\ current' = current /\ AtEdge(m)
  <2>1. ASSUME Follows(current', current, f, m), current' \in Way(f, m)
        PROVE  Nearest(f, m, current')
    BY <2>1, Advance
  <2>2. ASSUME fetching' = Iterator!NextPage(pageShown, m) PROVE fetching' # 0
    BY <1>1, <2>2, LastPageIs DEF Iterator!NextPage, Pages, CellTypes
  <2>. QED  BY <1>1, <2>1, <2>2
<1>3. CASE current[2] # Iterator!EdgeColumn(m)
  <2>1. /\ current' = Iterator!FindNext(current[1],
                          IF Iterator!Forward(m) THEN current[2] + 1 ELSE current[2] - 1, m)
        /\ fetching' = 0 /\ currentPage' = currentPage
    BY <1>3 DEF Iterator!Move
  <2>2. /\ current' \in Way(f, m) /\ current'[1] = current[1]
        /\ Follows(current', current, f, m)
    BY <1>3, <2>1, NextColumnFollows
  <2>. QED  BY <1>1, <2>1, <2>2
<1>4. CASE current[2] = Iterator!EdgeColumn(m) /\ current[1] # Iterator!EdgeRow(m)
  <2>. DEFINE row == IF Iterator!Forward(m) THEN current[1] + 1 ELSE current[1] - 1
  <2>1. current' = Iterator!FindNext(row, Iterator!StartColumn(m), m) /\ fetching' = 0
        /\ currentPage' = currentPage
    BY <1>4 DEF Iterator!Move
  <2>2. row \in 1 .. GridRecords /\ PageOf(row) = pageShown
    <3>1. PICK first \in 1 .. GridRecords, last \in 1 .. GridRecords :
             /\ Iterator!RowsOf(pageShown, GridRecords) = first .. last
             /\ Iterator!FirstOf(Iterator!RowsOf(pageShown, GridRecords)) = first
             /\ Iterator!LastOf(Iterator!RowsOf(pageShown, GridRecords)) = last
             /\ \A r \in 1 .. GridRecords : r \in Iterator!RowsOf(pageShown, GridRecords)
                                           <=> PageOf(r) = pageShown
      BY <1>1, RowsOfIs
    <3>2. current[1] \in first .. last
      BY <1>1, <3>1
    <3>3. row \in first .. last
      BY <1>1, <1>4, <3>1, <3>2 DEF Iterator!EdgeRow, CellTypes
    <3>4. row \in 1 .. GridRecords
      <4>. HIDE DEF row
      <4>. QED  BY <3>3, CellsAssumed
    <3>. QED  BY <3>1, <3>3, <3>4
  <2>3. RowAfter(row, m)
    BY DEF RowAfter
  <2>4. current' \in Way(f, m) /\ current'[1] = row /\ Follows(current', current, f, m)
    <3>. HIDE DEF row
    <3>. QED  BY <1>4, <2>1, <2>2, <2>3, NextRowFollows
  <2>. QED  BY <2>1, <2>2, <2>4
<1>5. CASE AtEdge(m) /\ Iterator!NextPage(pageShown, m) = pageShown
  <2>1. /\ current' = Iterator!Turned(pageShown, GridRecords, m) /\ fetching' = 0
        /\ currentPage' = currentPage
    BY <1>5 DEF Iterator!Move, AtEdge, CellTypes
  <2>. QED  BY <1>5, <2>1, TurnedFollows DEF CellTypes
<1>6. CASE AtEdge(m) /\ Iterator!NextPage(pageShown, m) # pageShown
  BY <1>6 DEF Iterator!Move, AtEdge, CellTypes
<1>. QED  BY <1>3, <1>4, <1>5, <1>6 DEF AtEdge

\* No step changes what there is to edit.
LEMMA Primed ==
    ASSUME renderable' = renderable, editableCells' = editableCells
    PROVE  /\ Way(from, method)' = Way(from', method')
           /\ Wanted(from, method)' = Wanted(from', method')
           /\ Nearest(from, method, current)' = Nearest(from', method', current')
           /\ Ahead(from, method, current)' = Ahead(from', method', current')
BY DEF Way, Wanted, Nearest, Ahead, Dist, Ord, At, Size, ByRow, Iterator!Forward,
       Cells, Iterator!Cells

\* Once the iterator has moved, it has the nearest cell or waits for the page.
LEMMA Moved ==
    ASSUME CellTypes, NEW m \in Iterator!Methods, NEW f \in Cells, f \in Wanted(f, m),
           current \in Way(f, m), Ahead(f, m, current), fetching = 0,
           currentPage = pageShown, Iterator!Move(m), from' = f, method' = m,
           UNCHANGED <<renderable, editableCells, totalRecords, pageShown>>
    PROVE  Walking'
<1>1. /\ current' \in Way(f, m) /\ PageOf(current'[1]) = pageShown
      /\ fetching' = 0 => currentPage' = currentPage /\ Nearest(f, m, current')
      /\ fetching' # 0 => /\ fetching' = Iterator!NextPage(pageShown, m)
                          /\ fetching' # pageShown /\ currentPage' = fetching'
                               /\ current' = current /\ AtEdge(m)
  BY MoveStep DEF Wanted
<1>2. CellTypes'
  BY <1>1 DEF CellTypes, Way, PageOf
<1>3. /\ Way(from, method)' = Way(f, m) /\ Wanted(from, method)' = Wanted(f, m)
      /\ Nearest(from, method, current)' = Nearest(f, m, current')
      /\ Ahead(from, method, current)' = Ahead(f, m, current')
  BY Primed
<1>4. ASSUME fetching' # 0 PROVE Turning'
  BY <1>1, <1>3, <1>4
     DEF Turning, AtEdge, Iterator!NextPage, Iterator!EdgeRow, Iterator!EdgeColumn
<1>. QED  BY <1>1, <1>2, <1>3, <1>4 DEF Walking

LEMMA WalkInit == MCInit => WalkInv
<1>. SUFFICES ASSUME MCInit PROVE WalkInv
  OBVIOUS
<1>1. Iterator!Init
  BY DEF MCInit
<1>2. renderable \in SUBSET (1 .. LastColumn) /\ editableCells \in SUBSET Cells
  BY <1>1 DEF Iterator!Init, Cells
<1>3. /\ recordsLeft = GridRecords /\ totalRecords = GridRecords /\ ~lock /\ lock \in BOOLEAN
      /\ fetching = 0 /\ method \in Iterator!Methods
  BY <1>1 DEF Iterator!Init, Iterator!Methods
<1>4. from \in Cells
  BY <1>1 DEF Iterator!Init, Cells
<1>. QED  BY <1>2, <1>3, <1>4, CellsAssumed DEF WalkInv

\* A cell that is nearest but not to be edited lies before all that are.
LEMMA PassedBy ==
    ASSUME CellTypes, from \in Wanted(from, method), current \in Way(from, method),
           Nearest(from, method, current), ~Iterator!IsEditable(current)
    PROVE  Ahead(from, method, current)
<1>1. current \notin editableCells /\ current # from
  BY DEF CellTypes, Iterator!IsEditable, Wanted
<1>2. SUFFICES ASSUME NEW c \in Wanted(from, method)
               PROVE  Dist(c, from, method) > Dist(current, from, method)
  BY <1>1 DEF Ahead
<1>3. /\ c \in Way(from, method) /\ c # current /\ method \in Iterator!Methods
      /\ from \in Cells /\ c \in Cells /\ current \in Cells
  BY <1>1 DEF CellTypes, Wanted, Way
<1>4. /\ Size(method) \in Nat /\ Ord(from, method) \in 0 .. Size(method) - 1
      /\ Ord(c, method) \in 0 .. Size(method) - 1
      /\ Ord(current, method) \in 0 .. Size(method) - 1
  BY <1>3, OrdType
<1>5. Ord(c, method) # Ord(current, method)
  BY <1>3, Order
<1>6. Dist(c, from, method) >= Dist(current, from, method)
  BY DEF Nearest
<1>. QED  BY <1>4, <1>5, <1>6 DEF Dist

LEMMA WalkNext == WalkInv /\ [Iterator!Next]_(Iterator!vars) => WalkInv'
<1>. SUFFICES ASSUME WalkInv, [Iterator!Next]_(Iterator!vars) PROVE WalkInv'
  OBVIOUS
<1>. DEFINE Others == /\ renderable \in SUBSET (1 .. LastColumn) /\ editableCells \in SUBSET Cells
                      /\ recordsLeft \in Nat /\ recordsLeft <= GridRecords
                      /\ lock \in BOOLEAN /\ (~lock => fetching = 0)
                      /\ from \in Cells /\ method \in Iterator!Methods
                      /\ recordsLeft = GridRecords => totalRecords = GridRecords
<1>1. Others
  BY DEF WalkInv
<1>2. CASE \E m \in Iterator!Methods : Iterator!Start(m)
  <2>1. PICK m \in Iterator!Methods : Iterator!Start(m)
    BY <1>2
  <2>2. Others' /\ recordsLeft' = recordsLeft /\ straight' = (currentPage = pageShown)
    BY <1>1, <2>1 DEF Iterator!Start, Iterator!IsEditable
  <2>3. SUFFICES ASSUME recordsLeft = GridRecords, currentPage = pageShown PROVE Walking'
    BY <2>2 DEF WalkInv
  <2>4. /\ current \in editableCells /\ current[2] \in renderable /\ fetching = 0
        /\ current[1] \in Iterator!RowsOf(pageShown, totalRecords)
        /\ totalRecords = GridRecords
    BY <1>1, <2>1, <2>3 DEF Iterator!Start, Iterator!IsEditable
  <2>5. current \in Cells /\ pageShown = PageOf(current[1])
    BY <1>1, <2>4 DEF Iterator!RowsOf, Iterator!PageOf, PageOf
  <2>6. current \in Wanted(current, m) /\ current \in Way(current, m)
    BY <2>4, <2>5 DEF Wanted, Way
  <2>7. Ahead(current, m, current)
    <3>1. ASSUME NEW c \in Wanted(current, m) PROVE Dist(c, current, m) > 0
      <4>1. c \in Cells
        BY DEF Wanted, Way
      <4>. QED  BY <2>5, <4>1, OrdType DEF Dist
    <3>. QED  BY <3>1 DEF Ahead
  <2>8. CellTypes
    BY <1>1, <2>4, <2>5 DEF CellTypes
  <2>9. /\ Iterator!Move(m) /\ from' = current /\ method' = m
        /\ UNCHANGED <<renderable, editableCells, totalRecords, pageShown>>
    BY <2>1 DEF Iterator!Start
  <2>. QED  BY <2>3, <2>4, <2>5, <2>6, <2>7, <2>8, <2>9, Moved
<1>3. CASE Iterator!Continue
  <2>1. /\ lock /\ fetching = 0 /\ ~Iterator!IsEditable(current) /\ Iterator!Move(method)
        /\ UNCHANGED <<renderable, editableCells, recordsLeft, totalRecords, pageShown, from,
                       method, lock, straight>>
    BY <1>3 DEF Iterator!Continue
  <2>2. SUFFICES ASSUME recordsLeft = GridRecords, straight PROVE Walking'
    BY <1>1, <2>1 DEF WalkInv
  <2>3. /\ CellTypes /\ from \in Wanted(from, method) /\ current \in Way(from, method)
        /\ Nearest(from, method, current) /\ currentPage = pageShown
        /\ from \in Cells /\ method \in Iterator!Methods
    BY <2>1, <2>2 DEF WalkInv, Walking, CellTypes
  <2>4. Ahead(from, method, current)
    BY <2>1, <2>3, PassedBy
  <2>. QED  BY <2>1, <2>3, <2>4, Moved
<1>4. CASE Iterator!Answer
  <2>1. /\ fetching # 0 /\ totalRecords' = recordsLeft /\ fetching' = 0
        /\ UNCHANGED <<renderable, editableCells, recordsLeft, from, method, lock, straight>>
    BY <1>4 DEF Iterator!Answer
  <2>2. SUFFICES ASSUME recordsLeft = GridRecords, lock, straight PROVE Walking'
    BY <1>1, <2>1 DEF WalkInv
  <2>. DEFINE y == Iterator!Turned(fetching, recordsLeft, method)
  <2>3. /\ CellTypes /\ fetching = Iterator!NextPage(pageShown, method) /\ AtEdge(method)
        /\ Ahead(from, method, current) /\ method \in Iterator!Methods
        /\ from \in Wanted(from, method) /\ current \in Way(from, method)
        /\ currentPage = fetching
    BY <2>1, <2>2 DEF WalkInv, Walking, Turning, CellTypes
  <2>. HIDE DEF y
  <2>4. /\ y \in Way(from, method) /\ PageOf(y[1]) = fetching
        /\ Follows(y, current, from, method) /\ fetching \in 1 .. Pages
    <3>1. \A p, z : p = Iterator!NextPage(pageShown, method) /\ z = Iterator!Turned(p, GridRecords, method)
                    => /\ z \in Way(from, method) /\ PageOf(z[1]) = p
                       /\ Follows(z, current, from, method) /\ p \in 1 .. Pages
      BY <2>3, TurnedFollows
    <3>. QED  BY <2>2, <2>3, <3>1 DEF y
  <2>5. (fetching - 1) * RowsPerPage < recordsLeft
    BY <2>2, <2>4, RowsOfIs, CellsAssumed
  <2>6. pageShown' = fetching /\ current' = y /\ currentPage' = currentPage
    BY <1>4, <2>5 DEF Iterator!Answer, y
  <2>7. Nearest(from, method, y)
    BY <2>3, <2>4, Advance DEF Wanted
  <2>8. CellTypes'
    BY <2>1, <2>2, <2>3, <2>4, <2>6 DEF CellTypes, Way, PageOf
  <2>9. /\ Way(from, method)' = Way(from, method) /\ Wanted(from, method)' = Wanted(from, method)
        /\ Nearest(from, method, current)' = Nearest(from, method, y)
    BY <2>1, <2>6, Primed
  <2>. QED  BY <2>1, <2>3, <2>4, <2>6, <2>7, <2>8, <2>9 DEF Walking
<1>5. CASE Iterator!Enter \/ Iterator!Fail
  BY <1>1, <1>5 DEF Iterator!Enter, Iterator!Fail, WalkInv
<1>6. CASE (\E cell \in Cells : Iterator!OpenCell(cell))
           \/ \E p \in 1 .. Iterator!LastPage(totalRecords) : Iterator!MissPage(p)
  <2>1. /\ ~lock /\ totalRecords' \in {totalRecords, recordsLeft}
        /\ UNCHANGED <<renderable, editableCells, recordsLeft, from, method, fetching, lock>>
    BY <1>6 DEF Iterator!OpenCell, Iterator!MissPage
  <2>. QED  BY <1>1, <2>1 DEF WalkInv
<1>7. CASE \E n \in 0 .. GridRecords : Iterator!DeleteDown(n)
  BY <1>1, <1>7, CellsAssumed DEF Iterator!DeleteDown, WalkInv
<1>8. CASE UNCHANGED Iterator!vars
  <2>1. UNCHANGED <<renderable, editableCells, recordsLeft, totalRecords, currentPage, pageShown,
                    current, from, method, fetching, lock, straight>>
    BY <1>8 DEF Iterator!vars
  <2>2. /\ Way(from, method)' = Way(from, method) /\ Wanted(from, method)' = Wanted(from, method)
        /\ Nearest(from, method, current)' = Nearest(from, method, current)
        /\ Ahead(from, method, current)' = Ahead(from, method, current)
    BY <2>1, Primed
  <2>3. CellTypes => CellTypes'
    BY <2>1 DEF CellTypes, PageOf
  <2>4. Turning => Turning'
    BY <2>1, <2>2 DEF Turning, AtEdge, Iterator!NextPage, Iterator!EdgeRow, Iterator!EdgeColumn
  <2>5. Walking => Walking'
    BY <2>1, <2>2, <2>3, <2>4 DEF Walking
  <2>. QED  BY <2>1, <2>5 DEF WalkInv
<1>. QED  BY <1>2, <1>3, <1>4, <1>5, <1>6, <1>7, <1>8 DEF Iterator!Next, Cells

\* What the other parts do does not touch the cells.
LEMMA CellsStep == [MCNext]_mcVars => [Iterator!Next]_(Iterator!vars)
BY DEF MCNext, mcVars, cellsVars, Iterator!vars, InLoading, InStart, InHeader, InPaging,
       InAppearance

\* When the user's actions are unlocked again behind a walk that started on the
\* page of the state, and neither a page nor a record was lost on the way, the cell
\* that is edited is the next one the editor would open (checkEditable): one that
\* can be edited, in its column where rows are gone through, with no other such
\* cell nearer to the start in the order of reading, over all the pages and round
\* to the first; for any number of records, page size and columns, whatever pages
\* had failed to come and were opened before.
THEOREM NextCellCorrect == MCSpec => EditsTheNext
<1>1. ASSUME WalkInv, [Iterator!Next]_(Iterator!vars), lock, ~lock', fetching = 0,
             straight, recordsLeft = GridRecords
      PROVE  /\ Iterator!IsEditable(current')
             /\ method \in {"nextRow", "prevRow"} => current'[2] = from[2]
             /\ \A cell \in Iterator!Cells :
                   /\ Iterator!IsEditable(cell)
                   /\ method \in {"nextRow", "prevRow"} => cell[2] = from[2]
                   => Iterator!Distance(cell, method) >= Iterator!Distance(current', method)
  <2>1. Iterator!Enter
    BY <1>1 DEF Iterator!Next, Iterator!vars, Iterator!Start, Iterator!Continue,
                Iterator!Answer, Iterator!Fail, Iterator!OpenCell, Iterator!MissPage,
                Iterator!DeleteDown
  <2>2. Iterator!IsEditable(current) /\ UNCHANGED <<renderable, editableCells, current>>
    BY <2>1 DEF Iterator!Enter
  <2>3. /\ current \in Way(from, method) /\ Nearest(from, method, current)
        /\ from \in Cells /\ current \in Cells /\ method \in Iterator!Methods
    BY <1>1 DEF WalkInv, Walking, CellTypes
  <2>4. method \in {"nextRow", "prevRow"} => current[2] = from[2]
    BY <2>3 DEF Way, ByRow
  <2>5. ASSUME NEW cell \in Cells, Iterator!IsEditable(cell),
               method \in {"nextRow", "prevRow"} => cell[2] = from[2]
        PROVE  Iterator!Distance(cell, method) >= Iterator!Distance(current, method)
    <3>1. cell \in Wanted(from, method)
      BY <2>5 DEF Wanted, Way, ByRow, Iterator!IsEditable
    <3>2. Dist(cell, from, method) >= Dist(current, from, method)
      BY <2>3, <3>1 DEF Nearest
    <3>3. /\ Iterator!Distance(cell, method) = Dist(cell, from, method)
          /\ Iterator!Distance(current, method) = Dist(current, from, method)
      BY <2>3, DistanceIs
    <3>. QED  BY <3>2, <3>3
  <2>6. Iterator!IsEditable(current')
    BY <2>2
  <2>. QED  BY <2>2, <2>4, <2>5, <2>6 DEF Cells
<1>2. MCSpec => [][Iterator!Next]_(Iterator!vars)
  BY CellsStep, PTL DEF MCSpec
<1>3. MCSpec => []WalkInv
  BY WalkInit, WalkNext, <1>2, PTL DEF MCSpec
<1>4. WalkInv /\ [Iterator!Next]_(Iterator!vars)
      => [(lock /\ ~lock' /\ fetching = 0 /\ straight /\ recordsLeft = GridRecords) =>
             /\ Iterator!IsEditable(current')
             /\ method \in {"nextRow", "prevRow"} => current'[2] = from[2]
             /\ \A cell \in Iterator!Cells :
                   /\ Iterator!IsEditable(cell)
                   /\ method \in {"nextRow", "prevRow"} => cell[2] = from[2]
                   => Iterator!Distance(cell, method) >= Iterator!Distance(current', method)
         ]_(Iterator!vars)
  BY <1>1
<1>. QED  BY <1>2, <1>3, <1>4, PTL DEF EditsTheNext, Iterator!EditsTheNext

=============================================================================
