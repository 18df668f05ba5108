------------------------ MODULE InlineEditing_proofs ------------------------
(***************************************************************************)
(* Proofs about the editors of cells: what is shown and not stored is      *)
(* known to the plugin, nothing is lost without a question, and what was   *)
(* entered is sent.                                                        *)
(*                                                                         *)
(* The plugin asks hasChanges of the editors in its list, so everything    *)
(* rests on what that list knows.  Of every page it holds (Sound) that     *)
(* the listed editors are alive and that a save belongs to an editor of    *)
(* its cell; of every cell that has not strayed (Known), that its only     *)
(* editor is the listed one, that this editor keeps the value before from  *)
(* the moment the cell shows another one, and that its only save is of     *)
(* the value shown.  Steps of another editor leave a cell alone (Aside),   *)
(* which is shown once for every operation on a page.                      *)
(***************************************************************************)
EXTENDS InlineEditing, SequenceTheorems, TLAPS

EditorsOf(p, c) == {k \in Existing(p) : p.editors[k].cell = c}
SavesOf(p, c)   == {s \in InFlight(p) : p.saves[s].cell = c}

Injective(list) == \A i, j \in DOMAIN list : list[i] = list[j] => i = j

\* What holds of all cells: listed editors are alive, and whoever saves a cell is
\* its editor.
Sound(p) ==
    /\ p \in Pages
    /\ Injective(p.active)
    /\ \A k \in Listed(p) :
          k \in Existing(p) /\ p.editors[k].attached /\ ~p.editors[k].disposed
    /\ \A s \in InFlight(p) : p.saves[s].editor \in EditorsOf(p, p.saves[s].cell)

\* What holds of a cell that has not strayed, v being its value in the database.
EditorKnown(p, c, v, k) ==
    LET e == p.editors[k]
    IN  /\ k \in Listed(p) /\ EditorsOf(p, c) = {k}
        /\ e.formState = None <=> e.oldState = None
        /\ e.draft # None => SavesOf(p, c) = {} /\ p.shown[c] = v
        /\ SavesOf(p, c) = {} => v = IF e.oldState = None THEN p.shown[c] ELSE e.oldState

SaveKnown(p, c, v, s) ==
    LET r == p.saves[s]
    IN  /\ SavesOf(p, c) = {s}
        /\ p.shown[c] = r.value
        /\ p.editors[r.editor].oldState # None
        /\ v = IF r.phase = "stored" THEN r.value ELSE p.editors[r.editor].oldState

Known(p, c, v) ==
    /\ \A k \in EditorsOf(p, c) : EditorKnown(p, c, v, k)
    /\ \A s \in SavesOf(p, c) : SaveKnown(p, c, v, s)
    /\ EditorsOf(p, c) = {} => p.shown[c] = v

IInv ==
    /\ TypeOK
    /\ Sound(page)
    /\ fetch.phase \in {"sent", "served"} => Listed(page) = {}
    /\ fetch.phase = "served" => fetch.answer \in [Cells -> Values]
    /\ \A c \in Cells \ strayed : Known(page, c, stored[c])

\* An editor that is disposed of leaves the list, the others stay in it.
LEMMA Unlisted ==
    ASSUME NEW S, NEW list \in Seq(S), NEW k, Injective(list)
    PROVE  /\ RemoveFirst(list, k) \in Seq(S)
           /\ Range(RemoveFirst(list, k)) = Range(list) \ {k}
           /\ Injective(RemoveFirst(list, k))
<1>1. CASE k \notin Range(list)
  <2>1. RemoveFirst(list, k) = list
    BY <1>1 DEF RemoveFirst, Range
  <2>. QED
    BY <1>1, <2>1
<1>2. CASE k \in Range(list)
  <2>1. PICK n \in 1 .. Len(list) : list[n] = k
    BY <1>2 DEF Range
  <2>2. {i \in 1 .. Len(list) : list[i] = k} = {n}
    BY <2>1 DEF Injective
  <2>3. Min({n}) = n
    BY <2>1 DEF Min
  <2>. DEFINE front == SubSeq(list, 1, n - 1)
              back  == SubSeq(list, n + 1, Len(list))
              rest  == front \o back
  <2>4. RemoveFirst(list, k) = rest
    BY <2>1, <2>2, <2>3 DEF RemoveFirst, RemoveAt, SelectInSeq
  <2>5. /\ front \in Seq(S) /\ Len(front) = n - 1
        /\ \A i \in 1 .. n - 1 : front[i] = list[i]
    <3>1. 1 \in Int /\ n - 1 \in Int /\ \A i \in 1 .. n - 1 : list[i] \in S
      BY <2>1
    <3>. QED
      BY <3>1, SubSeqProperties
  <2>6. /\ back \in Seq(S) /\ Len(back) = Len(list) - n
        /\ \A i \in 1 .. Len(list) - n : back[i] = list[n + i]
    <3>1. n + 1 \in Int /\ Len(list) \in Int /\ \A i \in n + 1 .. Len(list) : list[i] \in S
      BY <2>1
    <3>. HIDE DEF rest, front
    <3>. QED
      BY <3>1, SubSeqProperties
  <2>. HIDE DEF front, back
  <2>7. rest \in Seq(S) /\ Len(rest) = Len(list) - 1
    BY <2>5, <2>6
  <2>8. \A i \in 1 .. Len(rest) : rest[i] = IF i < n THEN list[i] ELSE list[i + 1]
    BY <2>1, <2>5, <2>6, <2>7, ConcatProperties
  <2>. HIDE DEF rest
  <2>9. Range(rest) = Range(list) \ {k}
    <3>1. ASSUME NEW x \in Range(rest) PROVE x \in Range(list) \ {k}
      BY <3>1, <2>1, <2>7, <2>8 DEF Range, Injective
    <3>2. ASSUME NEW x \in Range(list), x # k PROVE x \in Range(rest)
      <4>1. PICK i \in 1 .. Len(list) : list[i] = x
        BY DEF Range
      <4>2. CASE i < n
        BY <4>1, <4>2, <2>1, <2>7, <2>8 DEF Range
      <4>3. CASE i > n
        <5>1. i - 1 \in 1 .. Len(rest) /\ rest[i - 1] = x
          BY <4>1, <4>3, <2>1, <2>7, <2>8
        <5>. QED
          BY <5>1, <2>7 DEF Range
      <4>. QED
        BY <4>1, <4>2, <4>3, <3>2, <2>1
    <3>. QED
      BY <3>1, <3>2
  <2>10. Injective(rest)
    <3>. SUFFICES ASSUME NEW i \in 1 .. Len(rest), NEW j \in 1 .. Len(rest), rest[i] = rest[j]
                  PROVE  i = j
      BY <2>7 DEF Injective
    <3>1. PICK a \in DOMAIN list : a = (IF i < n THEN i ELSE i + 1) /\ rest[i] = list[a]
      BY <2>1, <2>7, <2>8
    <3>2. PICK b \in DOMAIN list : b = (IF j < n THEN j ELSE j + 1) /\ rest[j] = list[b]
      BY <2>1, <2>7, <2>8
    <3>3. a = b
      BY <3>1, <3>2 DEF Injective
    <3>. QED
      BY <3>1, <3>2, <3>3, <2>1, <2>7
  <2>. QED
    BY <2>4, <2>7, <2>9, <2>10
<1>. QED
  BY <1>1, <1>2

\* A new editor is the last of the list.
LEMMA Listing ==
    ASSUME NEW S, NEW list \in Seq(S), NEW k \in S, Injective(list), k \notin Range(list)
    PROVE  /\ Append(list, k) \in Seq(S)
           /\ Range(Append(list, k)) = Range(list) \cup {k}
           /\ Injective(Append(list, k))
<1>1. /\ Append(list, k) \in Seq(S) /\ Len(Append(list, k)) = Len(list) + 1
      /\ \A i \in 1 .. Len(list) + 1 :
            Append(list, k)[i] = IF i = Len(list) + 1 THEN k ELSE list[i]
  OBVIOUS
<1>2. Injective(Append(list, k))
  BY <1>1 DEF Injective, Range
<1>3. Range(Append(list, k)) = Range(list) \cup {k}
  <2>1. Range(list) \cup {k} \subseteq Range(Append(list, k))
    <3>1. Append(list, k)[Len(list) + 1] = k /\ Len(list) + 1 \in DOMAIN Append(list, k)
      BY <1>1
    <3>2. \A i \in DOMAIN list : i \in DOMAIN Append(list, k) /\ Append(list, k)[i] = list[i]
      BY <1>1
    <3>. QED
      BY <3>1, <3>2 DEF Range
  <2>2. Range(Append(list, k)) \subseteq Range(list) \cup {k}
    BY <1>1 DEF Range
  <2>. QED
    BY <2>1, <2>2
<1>. QED
  BY <1>1, <1>2, <1>3

-----------------------------------------------------------------------------
(***************************************************************************)
(* Cells that a step leaves alone.                                         *)
(***************************************************************************)
LEMMA NotFree == Free \notin Editor /\ Free \notin Save
BY DEF Free, Editor, Save

LEMMA IsEditor ==
    ASSUME NEW p \in Pages, NEW k \in Existing(p)
    PROVE  k \in Editors /\ p.editors[k] \in Editor
BY DEF Pages, Existing

LEMMA IsSave ==
    ASSUME NEW p \in Pages, NEW s \in InFlight(p)
    PROVE  s \in Saves /\ p.saves[s] \in Save
BY DEF Pages, InFlight

\* Pages p and q agree on the cell, its editors and its saves.
Aside(p, q, c) ==
    /\ q.shown[c] = p.shown[c]
    /\ EditorsOf(q, c) = EditorsOf(p, c)
    /\ SavesOf(q, c) = SavesOf(p, c)
    /\ \A k \in EditorsOf(p, c) :
          q.editors[k] = p.editors[k] /\ (k \in Listed(p) => k \in Listed(q))
    /\ \A s \in SavesOf(p, c) : q.saves[s] = p.saves[s]

LEMMA AsideKnown ==
    ASSUME NEW p, Sound(p), NEW q, NEW c, NEW v, Aside(p, q, c), Known(p, c, v)
    PROVE  Known(q, c, v)
<1>1. ASSUME NEW k \in EditorsOf(q, c) PROVE EditorKnown(q, c, v, k)
  <2>1. k \in EditorsOf(p, c) /\ EditorKnown(p, c, v, k)
    BY DEF Aside, Known
  <2>. QED
    BY <2>1 DEF Aside, EditorKnown
<1>2. ASSUME NEW s \in SavesOf(q, c) PROVE SaveKnown(q, c, v, s)
  <2>1. s \in SavesOf(p, c) /\ SaveKnown(p, c, v, s)
    BY DEF Aside, Known
  <2>2. p.saves[s].editor \in EditorsOf(p, c)
    BY <2>1 DEF Sound, SavesOf
  <2>3. q.saves[s] = p.saves[s] /\ q.editors[p.saves[s].editor] = p.editors[p.saves[s].editor]
    BY <2>1, <2>2 DEF Aside
  <2>. QED
    BY <2>1, <2>3 DEF Aside, SaveKnown
<1>3. EditorsOf(q, c) = {} => q.shown[c] = v
  BY DEF Aside, Known
<1>. QED
  BY <1>1, <1>2, <1>3 DEF Known

LEMMA AsideTwice ==
    ASSUME NEW p, NEW q, NEW r, NEW c, Aside(p, q, c), Aside(q, r, c)
    PROVE  Aside(p, r, c)
BY DEF Aside

\* A step of one editor leaves the cells of the others alone.
LEMMA OneEditor ==
    ASSUME NEW p \in Pages, NEW q \in Pages, NEW k \in Editors, NEW e \in Editor, NEW c,
           q.editors = [p.editors EXCEPT ![k] = e], e.cell # c, k \notin EditorsOf(p, c),
           q.shown[c] = p.shown[c], Listed(p) \ {k} \subseteq Listed(q),
           SavesOf(q, c) = SavesOf(p, c), \A s \in SavesOf(p, c) : q.saves[s] = p.saves[s]
    PROVE  Aside(p, q, c)
<1>1. p.editors \in [Editors -> Editor \cup {Free}]
  BY DEF Pages
<1>2. q.editors[k] = e /\ \A j \in Editors \ {k} : q.editors[j] = p.editors[j]
  BY <1>1
<1>3. EditorsOf(q, c) = EditorsOf(p, c)
  BY <1>2 DEF EditorsOf, Existing
<1>4. \A j \in EditorsOf(p, c) : j \in Editors \ {k}
  BY DEF EditorsOf, Existing
<1>. QED
  BY <1>2, <1>3, <1>4 DEF Aside

-----------------------------------------------------------------------------
(***************************************************************************)
(* Leaving slots.                                                          *)
(***************************************************************************)
LEMMA TidyIs ==
    ASSUME NEW p, Sound(p)
    PROVE  /\ Tidy(p) \in Pages
           /\ Tidy(p).shown = p.shown /\ Tidy(p).active = p.active /\ Tidy(p).saves = p.saves
           /\ \A k \in Editors :
                 Tidy(p).editors[k] =
                     IF /\ k \in Existing(p) /\ (p.editors[k].disposed \/ ~p.editors[k].attached)
                        /\ \A s \in InFlight(p) : p.saves[s].editor # k
                     THEN Free ELSE p.editors[k]
<1>. DEFINE after == [k \in Editors |->
        IF k \in Existing(p)
           /\ (p.editors[k].disposed \/ ~p.editors[k].attached)
           /\ \A s \in InFlight(p) : p.saves[s].editor # k
        THEN Free ELSE p.editors[k]]
<1>1. p \in Pages /\ Tidy(p) = [p EXCEPT !.editors = after]
  BY DEF Tidy, Sound
<1>2. after \in [Editors -> Editor \cup {Free}]
  BY <1>1 DEF Pages
<1>3. \A k \in Editors : after[k] =
        IF /\ k \in Existing(p) /\ (p.editors[k].disposed \/ ~p.editors[k].attached)
           /\ \A s \in InFlight(p) : p.saves[s].editor # k
        THEN Free ELSE p.editors[k]
  OBVIOUS
<1>. HIDE DEF after
<1>4. /\ Tidy(p) \in Pages /\ Tidy(p).editors = after
      /\ Tidy(p).shown = p.shown /\ Tidy(p).active = p.active /\ Tidy(p).saves = p.saves
  BY <1>1, <1>2 DEF Pages
<1>. QED
  BY <1>3, <1>4

LEMMA TidySound ==
    ASSUME NEW p, Sound(p)
    PROVE  /\ Sound(Tidy(p)) /\ Listed(Tidy(p)) = Listed(p)
           /\ \A c : SavesOf(Tidy(p), c) = SavesOf(p, c)
           /\ \A c : EditorsOf(Tidy(p), c) \subseteq EditorsOf(p, c)
           /\ \A k \in Listed(p) : Tidy(p).editors[k] = p.editors[k]
           /\ \A k \in Existing(Tidy(p)) : k \in Existing(p) /\ Tidy(p).editors[k] = p.editors[k]
<1>. DEFINE q == Tidy(p)
<1>1. /\ q \in Pages
      /\ q.shown = p.shown /\ q.active = p.active /\ q.saves = p.saves
      /\ \A k \in Editors :
            q.editors[k] =
                IF /\ k \in Existing(p) /\ (p.editors[k].disposed \/ ~p.editors[k].attached)
                   /\ \A s \in InFlight(p) : p.saves[s].editor # k
                THEN Free ELSE p.editors[k]
  BY TidyIs
<1>. HIDE DEF q
<1>2. InFlight(q) = InFlight(p) /\ Listed(q) = Listed(p)
  BY <1>1 DEF InFlight, Listed
<1>3. \A k \in Listed(p) : k \in Editors /\ q.editors[k] = p.editors[k]
  BY <1>1 DEF Sound, Existing
<1>4. \A s \in InFlight(p) : LET k == p.saves[s].editor
                             IN  k \in Editors /\ q.editors[k] = p.editors[k]
  BY <1>1 DEF Sound, EditorsOf, Existing
<1>5. \A k \in Existing(q) : k \in Existing(p) /\ q.editors[k] = p.editors[k]
  BY <1>1 DEF Existing
<1>6. Sound(q)
  <2>1. Injective(q.active)
    BY <1>1 DEF Sound
  <2>2. \A k \in Listed(q) : k \in Existing(q) /\ q.editors[k].attached /\ ~q.editors[k].disposed
    BY <1>2, <1>3 DEF Sound, Existing
  <2>3. \A s \in InFlight(q) : q.saves[s].editor \in EditorsOf(q, q.saves[s].cell)
    BY <1>1, <1>2, <1>4 DEF Sound, EditorsOf, Existing
  <2>. QED
    BY <1>1, <2>1, <2>2, <2>3 DEF Sound
<1>7. \A c : SavesOf(q, c) = SavesOf(p, c)
  BY <1>1, <1>2 DEF SavesOf
<1>8. \A c : EditorsOf(q, c) \subseteq EditorsOf(p, c)
  BY <1>5 DEF EditorsOf
<1>. QED
  BY <1>2, <1>3, <1>5, <1>6, <1>7, <1>8 DEF q

\* A cell whose editors are all in the list keeps them.
LEMMA TidyAside ==
    ASSUME NEW p, Sound(p), NEW c, EditorsOf(p, c) \subseteq Listed(p)
    PROVE  Aside(p, Tidy(p), c)
<1>1. Tidy(p).shown = p.shown /\ Tidy(p).saves = p.saves
  BY TidyIs
<1>2. /\ Sound(Tidy(p)) /\ Listed(Tidy(p)) = Listed(p)
      /\ SavesOf(Tidy(p), c) = SavesOf(p, c)
      /\ EditorsOf(Tidy(p), c) \subseteq EditorsOf(p, c)
      /\ \A k \in Listed(p) : Tidy(p).editors[k] = p.editors[k]
  BY TidySound
<1>3. \A k \in EditorsOf(p, c) : k \in EditorsOf(Tidy(p), c)
  BY <1>2 DEF EditorsOf, Sound
<1>. QED
  BY <1>1, <1>2, <1>3 DEF Aside

LEMMA TidyKnown ==
    ASSUME NEW p, Sound(p), NEW c, NEW v, Known(p, c, v)
    PROVE  Aside(p, Tidy(p), c) /\ Known(Tidy(p), c, v)
<1>1. EditorsOf(p, c) \subseteq Listed(p)
  BY DEF Known, EditorKnown
<1>. QED
  BY <1>1, TidyAside, AsideKnown

\* A cell without saves whose editors are all gone shows its value.
LEMMA TidyEmpties ==
    ASSUME NEW p, Sound(p), NEW c, NEW v, SavesOf(p, c) = {}, p.shown[c] = v,
           \A k \in EditorsOf(p, c) : p.editors[k].disposed \/ ~p.editors[k].attached
    PROVE  Known(Tidy(p), c, v)
<1>1. Tidy(p).shown = p.shown /\ SavesOf(Tidy(p), c) = {}
  BY TidyIs, TidySound
<1>2. ASSUME NEW k \in EditorsOf(Tidy(p), c) PROVE FALSE
  <2>1. k \in EditorsOf(p, c) /\ k \in Editors /\ k \in Existing(p) /\ Tidy(p).editors[k] # Free
    BY TidySound DEF EditorsOf, Existing
  <2>2. PICK s \in InFlight(p) : p.saves[s].editor = k
    BY <2>1, TidyIs
  <2>3. p.saves[s].cell = c
    BY <2>1, <2>2 DEF Sound, EditorsOf
  <2>. QED
    BY <2>2, <2>3 DEF SavesOf
<1>. QED
  BY <1>1, <1>2 DEF Known

-----------------------------------------------------------------------------
(***************************************************************************)
(* What the operations do to a page.                                       *)
(***************************************************************************)
\* A record with the fields of a page is one.
LEMMA IsPage ==
    ASSUME NEW p \in Pages, NEW q, DOMAIN q = DOMAIN p, q = [x \in DOMAIN p |-> q[x]],
           q.shown \in [Cells -> Entries], q.editors \in [Editors -> Editor \cup {Free}],
           q.active \in Seq(Editors), q.saves \in [Saves -> Save \cup {Free}]
    PROVE  q \in Pages
<1>1. DOMAIN p = {"shown", "editors", "active", "saves"}
  BY DEF Pages
<1>. QED
  BY <1>1 DEF Pages

LEMMA DisposeIs ==
    ASSUME NEW p, Sound(p), NEW k \in Existing(p)
    PROVE  \E q \in Pages, e \in Editor :
              /\ q = Dispose(p, k) /\ Sound(q)
              /\ q.shown = p.shown /\ q.saves = p.saves /\ Listed(q) = Listed(p) \ {k}
              /\ q.editors = [p.editors EXCEPT ![k] = e]
              /\ e.cell = p.editors[k].cell /\ e.disposed
<1>. DEFINE was == p.editors[k]
            e   == [was EXCEPT !.draft = None, !.disposed = TRUE]
<1>1. p \in Pages /\ k \in Editors /\ was \in Editor
  BY IsEditor DEF Sound
<1>2. e \in Editor /\ e.cell = was.cell /\ e.attached = was.attached /\ e.disposed
  BY <1>1 DEF Editor, Entries
<1>3. /\ Dispose(p, k).shown = p.shown /\ Dispose(p, k).saves = p.saves
      /\ Dispose(p, k).active = RemoveFirst(p.active, k)
  BY <1>1 DEF Dispose, Pages
<1>4. Dispose(p, k).editors = [p.editors EXCEPT ![k] = e]
  BY <1>1 DEF Dispose, Pages
<1>5. /\ DOMAIN Dispose(p, k) = DOMAIN p
      /\ Dispose(p, k) = [x \in DOMAIN p |-> Dispose(p, k)[x]]
  BY Zenon DEF Dispose
<1>6. /\ RemoveFirst(p.active, k) \in Seq(Editors)
      /\ Range(RemoveFirst(p.active, k)) = Range(p.active) \ {k}
      /\ Injective(RemoveFirst(p.active, k))
  <2>1. p.active \in Seq(Editors) /\ Injective(p.active)
    BY <1>1 DEF Pages, Sound
  <2>. QED
    BY <2>1, Unlisted
<1>. HIDE DEF e, was
<1>7. PICK q : q = Dispose(p, k)
  OBVIOUS
<1>8. q \in Pages
  <2>1. [p.editors EXCEPT ![k] = e] \in [Editors -> Editor \cup {Free}]
    BY <1>1, <1>2 DEF Pages
  <2>. QED
    BY <1>1, <1>3, <1>4, <1>5, <1>6, <1>7, <2>1, IsPage DEF Pages
<1>9. Listed(q) = Listed(p) \ {k}
  BY <1>3, <1>6, <1>7 DEF Listed
<1>10. q.editors[k] = e /\ \A j \in Editors \ {k} : q.editors[j] = p.editors[j]
  BY <1>1, <1>4, <1>7 DEF Pages
<1>11. \A j \in Listed(q) : j \in Existing(q) /\ q.editors[j].attached /\ ~q.editors[j].disposed
  BY <1>9, <1>10 DEF Sound, Existing
<1>12. \A s \in InFlight(q) : q.saves[s].editor \in EditorsOf(q, q.saves[s].cell)
  <2>1. InFlight(q) = InFlight(p) /\ q.saves = p.saves
    BY <1>3, <1>7 DEF InFlight
  <2>2. e # Free
    BY <1>2, NotFree
  <2>. QED
    BY <2>1, <2>2, <1>2, <1>10 DEF Sound, EditorsOf, Existing, was
<1>13. Sound(q)
  BY <1>3, <1>6, <1>7, <1>8, <1>11, <1>12 DEF Sound
<1>. QED
  BY <1>2, <1>3, <1>4, <1>7, <1>8, <1>9, <1>13 DEF was

LEMMA DisposeAside ==
    ASSUME NEW p, Sound(p), NEW k \in Existing(p), NEW c, c # p.editors[k].cell
    PROVE  Aside(p, Dispose(p, k), c)
<1>1. PICK q \in Pages, e \in Editor :
          /\ q = Dispose(p, k) /\ Sound(q)
          /\ q.shown = p.shown /\ q.saves = p.saves /\ Listed(q) = Listed(p) \ {k}
          /\ q.editors = [p.editors EXCEPT ![k] = e]
          /\ e.cell = p.editors[k].cell /\ e.disposed
  BY DisposeIs
<1>2. SavesOf(q, c) = SavesOf(p, c) /\ k \notin EditorsOf(p, c)
  BY <1>1 DEF SavesOf, InFlight, EditorsOf
<1>3. p \in Pages /\ k \in Editors
  BY IsEditor DEF Sound
<1>. QED
  BY <1>1, <1>2, <1>3, OneEditor

\* What is sound stays so when one of the editors changes, but not its cell.
LEMMA SoundAgain ==
    ASSUME NEW p, Sound(p), NEW q \in Pages, NEW k \in Existing(p), NEW e \in Editor,
           q.editors = [p.editors EXCEPT ![k] = e], e.cell = p.editors[k].cell,
           e.attached = p.editors[k].attached, e.disposed = p.editors[k].disposed,
           q.active = p.active, q.saves = p.saves
    PROVE  Sound(q) /\ Listed(q) = Listed(p) /\ InFlight(q) = InFlight(p)
<1>1. p \in Pages /\ k \in Editors
  BY IsEditor DEF Sound
<1>2. q.editors[k] = e /\ e # Free /\ \A j \in Editors \ {k} : q.editors[j] = p.editors[j]
  BY <1>1, NotFree DEF Pages
<1>3. Listed(q) = Listed(p) /\ InFlight(q) = InFlight(p)
  BY DEF Listed, InFlight
<1>4. \A j \in Listed(q) : j \in Existing(q) /\ q.editors[j].attached /\ ~q.editors[j].disposed
  BY <1>2, <1>3 DEF Sound, Existing
<1>5. \A s \in InFlight(q) : q.saves[s].editor \in EditorsOf(q, q.saves[s].cell)
  BY <1>2, <1>3 DEF Sound, EditorsOf, Existing
<1>. QED
  BY <1>3, <1>4, <1>5 DEF Sound

\* A step of one editor that may show another value in its cell.
LEMMA EditorStep ==
    ASSUME NEW p, Sound(p), NEW k \in Existing(p), NEW e \in Editor, NEW x \in Entries,
           NEW q, DOMAIN q = DOMAIN p, q = [f \in DOMAIN p |-> q[f]],
           q.editors = [p.editors EXCEPT ![k] = e], e.cell = p.editors[k].cell,
           e.attached = p.editors[k].attached, e.disposed = p.editors[k].disposed,
           q.shown = [p.shown EXCEPT ![e.cell] = x],
           q.active = p.active, q.saves = p.saves
    PROVE  /\ q \in Pages /\ Sound(q) /\ Listed(q) = Listed(p) /\ InFlight(q) = InFlight(p)
           /\ k \in Existing(q) /\ q.editors[k] = e /\ q.shown[e.cell] = x
           /\ EditorsOf(q, e.cell) = EditorsOf(p, e.cell)
           /\ SavesOf(q, e.cell) = SavesOf(p, e.cell)
           /\ \A c \in Cells : c # e.cell => Aside(p, q, c)
<1>1. p \in Pages /\ k \in Editors /\ e.cell \in Cells
  BY IsEditor DEF Sound, Editor
<1>2. q \in Pages
  <2>1. [p.editors EXCEPT ![k] = e] \in [Editors -> Editor \cup {Free}]
    BY <1>1 DEF Pages
  <2>2. [p.shown EXCEPT ![e.cell] = x] \in [Cells -> Entries]
    BY <1>1 DEF Pages
  <2>. QED
    BY <1>1, <2>1, <2>2, IsPage DEF Pages
<1>3. Sound(q) /\ Listed(q) = Listed(p) /\ InFlight(q) = InFlight(p)
  BY <1>1, <1>2, SoundAgain
<1>4. /\ q.editors[k] = e /\ \A j \in Editors \ {k} : q.editors[j] = p.editors[j]
      /\ e # Free /\ k \in Existing(q)
  BY <1>1, NotFree DEF Pages, Existing
<1>5. EditorsOf(q, e.cell) = EditorsOf(p, e.cell) /\ SavesOf(q, e.cell) = SavesOf(p, e.cell)
  BY <1>1, <1>3, <1>4 DEF EditorsOf, Existing, SavesOf
<1>6. ASSUME NEW c \in Cells, c # e.cell PROVE Aside(p, q, c)
  <2>1. q.shown[c] = p.shown[c]
    BY <1>1, <1>6 DEF Pages
  <2>2. SavesOf(q, c) = SavesOf(p, c) /\ k \notin EditorsOf(p, c)
    BY <1>3, <1>6 DEF SavesOf, EditorsOf
  <2>. QED
    BY <1>1, <1>2, <1>3, <1>6, <2>1, <2>2, OneEditor
<1>7. q.shown[e.cell] = x
  BY <1>1 DEF Pages
<1>. QED
  BY <1>2, <1>3, <1>4, <1>5, <1>6, <1>7

\* revertChanges.
LEMMA RevertIs ==
    ASSUME NEW p, Sound(p), NEW k \in Existing(p)
    PROVE  LET q == Revert(p, k)
               c == p.editors[k].cell
           IN  /\ Sound(q) /\ Listed(q) = Listed(p) /\ q.saves = p.saves
               /\ k \in Existing(q) /\ q.editors[k].cell = c
               /\ EditorsOf(q, c) = EditorsOf(p, c)
               /\ \A d \in Cells : d # c => Aside(p, q, d)
               /\ p.editors[k].attached =>
                     q.shown[c] = IF p.editors[k].oldState = None THEN p.shown[c]
                                  ELSE p.editors[k].oldState
<1>. DEFINE was == p.editors[k]
            e   == [was EXCEPT !.oldState = None]
<1>1. p \in Pages /\ k \in Editors /\ was \in Editor
  BY IsEditor DEF Sound
<1>2. CASE ~(was.attached /\ was.oldState # None)
  <2>1. Revert(p, k) = p
    BY <1>2 DEF Revert
  <2>2. Sound(p) /\ k \in Existing(p) /\ \A d : Aside(p, p, d)
    BY DEF Aside
  <2>. QED
    BY <1>2, <2>1, <2>2
<1>3. CASE was.attached /\ was.oldState # None
  <2>1. /\ e \in Editor /\ e.cell = was.cell /\ e.attached = was.attached
        /\ e.disposed = was.disposed /\ was.oldState \in Entries
    BY <1>1, <1>3 DEF Editor, Entries
  <2>2. Revert(p, k) = [p EXCEPT !.shown[was.cell] = was.oldState, !.editors[k].oldState = None]
    BY <1>3 DEF Revert
  <2>3. /\ Revert(p, k).shown = [p.shown EXCEPT ![was.cell] = was.oldState]
        /\ Revert(p, k).saves = p.saves /\ Revert(p, k).active = p.active
        /\ Revert(p, k).editors = [p.editors EXCEPT ![k] = e]
    BY <1>1, <2>2 DEF Pages
  <2>4. /\ DOMAIN Revert(p, k) = DOMAIN p
        /\ Revert(p, k) = [x \in DOMAIN p |-> Revert(p, k)[x]]
    BY <2>2, Zenon
  <2>. HIDE DEF e
  <2>5. PICK q : q = Revert(p, k)
    OBVIOUS
  <2>6. /\ Sound(q) /\ Listed(q) = Listed(p)
        /\ k \in Existing(q) /\ q.editors[k] = e /\ q.shown[e.cell] = was.oldState
        /\ EditorsOf(q, e.cell) = EditorsOf(p, e.cell)
        /\ \A d \in Cells : d # e.cell => Aside(p, q, d)
    <3>. HIDE DEF was
    <3>1. /\ DOMAIN q = DOMAIN p /\ q = [f \in DOMAIN p |-> q[f]]
          /\ q.editors = [p.editors EXCEPT ![k] = e] /\ q.shown = [p.shown EXCEPT ![e.cell] = was.oldState]
          /\ q.active = p.active /\ q.saves = p.saves
      BY <2>1, <2>3, <2>4, <2>5
    <3>2. /\ e.cell = p.editors[k].cell /\ e.attached = p.editors[k].attached
          /\ e.disposed = p.editors[k].disposed
      BY <2>1 DEF was
    <3>. QED
      BY <2>1, <3>1, <3>2, EditorStep
  <2>. QED
    BY <1>3, <2>1, <2>3, <2>5, <2>6
<1>. QED
  BY <1>2, <1>3

\* Undoing what an editor has entered and disposing of it.
LEMMA UndoIs ==
    ASSUME NEW p, Sound(p), NEW k \in Existing(p)
    PROVE  \E q \in Pages :
              /\ q = Dispose(Revert(p, k), k) /\ Sound(q)
              /\ q.saves = p.saves /\ Listed(q) = Listed(p) \ {k}
              /\ \A c \in Cells : c # p.editors[k].cell => Aside(p, q, c)
              /\ EditorsOf(q, p.editors[k].cell) = EditorsOf(p, p.editors[k].cell)
              /\ k \in Existing(q) /\ q.editors[k].disposed
              /\ p.editors[k].attached =>
                    q.shown[p.editors[k].cell] =
                        IF p.editors[k].oldState = None THEN p.shown[p.editors[k].cell]
                        ELSE p.editors[k].oldState
<1>0. p \in Pages /\ k \in Editors /\ p.editors[k] \in Editor
  BY IsEditor DEF Sound
<1>1. PICK r : r = Revert(p, k)
  OBVIOUS
<1>2. /\ Sound(r) /\ k \in Existing(r) /\ r.editors[k].cell = p.editors[k].cell
      /\ r.saves = p.saves /\ Listed(r) = Listed(p)
      /\ \A c \in Cells : c # p.editors[k].cell => Aside(p, r, c)
      /\ EditorsOf(r, p.editors[k].cell) = EditorsOf(p, p.editors[k].cell)
      /\ p.editors[k].attached =>
            r.shown[p.editors[k].cell] =
                IF p.editors[k].oldState = None THEN p.shown[p.editors[k].cell]
                ELSE p.editors[k].oldState
  BY <1>1, RevertIs
<1>3. PICK q \in Pages, e \in Editor :
          /\ q = Dispose(r, k) /\ Sound(q)
          /\ q.shown = r.shown /\ q.saves = r.saves /\ Listed(q) = Listed(r) \ {k}
          /\ q.editors = [r.editors EXCEPT ![k] = e]
          /\ e.cell = r.editors[k].cell /\ e.disposed
  BY <1>2, DisposeIs
<1>4. ASSUME NEW c \in Cells, c # p.editors[k].cell PROVE Aside(p, q, c)
  <2>1. Aside(r, q, c)
    BY <1>2, <1>3, <1>4, DisposeAside
  <2>. QED
    BY <2>1, <1>2, <1>4, AsideTwice
<1>5. /\ q.editors[k] = e /\ e # Free /\ \A j \in Editors \ {k} : q.editors[j] = r.editors[j]
  BY <1>0, <1>2, <1>3, NotFree DEF Sound, Pages
<1>6. EditorsOf(q, p.editors[k].cell) = EditorsOf(p, p.editors[k].cell) /\ k \in Existing(q)
  BY <1>0, <1>2, <1>3, <1>5 DEF EditorsOf, Existing
<1>7. /\ q = Dispose(Revert(p, k), k) /\ q.editors[k].disposed
      /\ q.saves = p.saves /\ Listed(q) = Listed(p) \ {k} /\ q.shown = r.shown
  BY <1>1, <1>2, <1>3, <1>5
<1>. QED
  BY <1>2, <1>3, <1>4, <1>6, <1>7

\* exitEditMode, with the value shown in the cell.
LEMMA KeepIs ==
    ASSUME NEW p, Sound(p), NEW k \in Open(p)
    PROVE  LET q == Keep(p, k)
               c == p.editors[k].cell
           IN  /\ q \in Pages /\ Sound(q) /\ Listed(q) = Listed(p)
               /\ InFlight(q) = InFlight(p) /\ q.saves = p.saves
               /\ k \in Existing(q) /\ q.shown[c] = p.editors[k].draft
               /\ q.editors[k].cell = c /\ q.editors[k].draft = None
               /\ q.editors[k].formState = p.editors[k].draft
               /\ q.editors[k].oldState = p.shown[c]
               /\ EditorsOf(q, c) = EditorsOf(p, c) /\ SavesOf(q, c) = SavesOf(p, c)
               /\ \A d \in Cells : d # c => Aside(p, q, d)
<1>. DEFINE was == p.editors[k]
            e   == [was EXCEPT !.draft = None, !.formState = was.draft,
                               !.oldState = p.shown[was.cell]]
<1>1. /\ p \in Pages /\ k \in Existing(p) /\ k \in Editors /\ was \in Editor
      /\ was.draft \in Entries /\ was.cell \in Cells
  <2>1. p \in Pages /\ k \in Existing(p) /\ was.draft # None
    BY DEF Sound, Open
  <2>2. was \in Editor /\ k \in Editors
    BY <2>1, IsEditor
  <2>. QED
    BY <2>1, <2>2 DEF Editor
<1>2. p.shown[was.cell] \in Entries
  BY <1>1 DEF Pages
<1>3. /\ e \in Editor /\ e.cell = was.cell /\ e.attached = was.attached /\ e.disposed = was.disposed
      /\ e.draft = None /\ e.formState = was.draft /\ e.oldState = p.shown[was.cell]
  BY <1>1, <1>2 DEF Editor
<1>4. /\ Keep(p, k).shown = [p.shown EXCEPT ![was.cell] = was.draft]
      /\ Keep(p, k).saves = p.saves /\ Keep(p, k).active = p.active
      /\ Keep(p, k).editors = [p.editors EXCEPT ![k] = e]
  BY <1>1 DEF Keep, Pages
<1>5. /\ DOMAIN Keep(p, k) = DOMAIN p
      /\ Keep(p, k) = [x \in DOMAIN p |-> Keep(p, k)[x]]
  BY Zenon DEF Keep
<1>. HIDE DEF e
<1>6. PICK q : q = Keep(p, k)
  OBVIOUS
<1>7. /\ q \in Pages /\ Sound(q) /\ Listed(q) = Listed(p) /\ InFlight(q) = InFlight(p)
      /\ k \in Existing(q) /\ q.editors[k] = e /\ q.shown[e.cell] = was.draft
      /\ EditorsOf(q, e.cell) = EditorsOf(p, e.cell) /\ SavesOf(q, e.cell) = SavesOf(p, e.cell)
      /\ \A d \in Cells : d # e.cell => Aside(p, q, d)
  <2>. HIDE DEF was
  <2>1. /\ DOMAIN q = DOMAIN p /\ q = [f \in DOMAIN p |-> q[f]]
        /\ q.editors = [p.editors EXCEPT ![k] = e] /\ q.shown = [p.shown EXCEPT ![e.cell] = was.draft]
        /\ q.active = p.active /\ q.saves = p.saves
    BY <1>3, <1>4, <1>5, <1>6
  <2>2. /\ e.cell = p.editors[k].cell /\ e.attached = p.editors[k].attached
        /\ e.disposed = p.editors[k].disposed
    BY <1>3 DEF was
  <2>. QED
    BY <1>1, <1>3, <2>1, <2>2, EditorStep
<1>. QED
  BY <1>3, <1>4, <1>6, <1>7

LEMMA KeepKnown ==
    ASSUME NEW p, Sound(p), NEW k \in Open(p), NEW v, Known(p, p.editors[k].cell, v)
    PROVE  Known(Keep(p, k), p.editors[k].cell, v)
<1>. DEFINE c == p.editors[k].cell
            q == Keep(p, k)
<1>1. k \in EditorsOf(p, c) /\ p.editors[k].draft # None
  BY DEF Open, EditorsOf
<1>2. /\ k \in Listed(p) /\ EditorsOf(p, c) = {k} /\ SavesOf(p, c) = {} /\ p.shown[c] = v
  BY <1>1 DEF Known, EditorKnown
<1>3. v # None
  <2>1. p \in Pages /\ c \in Cells
    BY <1>1, IsEditor DEF Sound, EditorsOf, Editor
  <2>. QED
    BY <1>2, <2>1, InlineEditingAssumption DEF Pages, Entries
<1>4. /\ Listed(q) = Listed(p)
      /\ q.editors[k].draft = None /\ q.editors[k].formState = p.editors[k].draft
      /\ q.editors[k].oldState = p.shown[c]
      /\ EditorsOf(q, c) = EditorsOf(p, c) /\ SavesOf(q, c) = SavesOf(p, c)
  BY KeepIs
<1>. HIDE DEF q, c
<1>5. EditorKnown(q, c, v, k)
  BY <1>1, <1>2, <1>3, <1>4 DEF EditorKnown
<1>6. Known(q, c, v)
  BY <1>2, <1>4, <1>5 DEF Known
<1>. QED
  BY <1>6 DEF q, c

LEMMA AnyOfThem == ASSUME NEW S, S # {} PROVE AnyOf(S) \in S
BY DEF AnyOf

\* saveCurrentCell of a value that was changed and is valid.
LEMMA SendIs ==
    ASSUME NEW p, Sound(p), NEW k \in Open(p),
           p.editors[k].draft \in Values, InFlight(p) # Saves
    PROVE  LET q == Send(p, k)
               c == p.editors[k].cell
           IN  /\ Sound(q) /\ Listed(q) = Listed(p)
               /\ EditorsOf(q, c) = EditorsOf(p, c)
               /\ q.shown = Keep(p, k).shown /\ q.editors = Keep(p, k).editors
               /\ \A d \in Cells : d # c => Aside(p, q, d)
               /\ \E s \in InFlight(q) :
                     /\ SavesOf(q, c) = SavesOf(p, c) \cup {s}
                     /\ q.saves[s].cell = c /\ q.saves[s].value = p.editors[k].draft
                     /\ q.saves[s].phase = "sent" /\ q.saves[s].editor = k
<1>. DEFINE c == p.editors[k].cell
            s == AnyOf(Saves \ InFlight(p))
            r == [editor |-> k, cell |-> c, value |-> p.editors[k].draft, phase |-> "sent"]
<1>1. p \in Pages /\ k \in Existing(p) /\ k \in Editors /\ c \in Cells
  <2>1. p \in Pages /\ k \in Existing(p)
    BY DEF Sound, Open
  <2>. QED
    BY <2>1, IsEditor DEF Editor
<1>2. s \in Saves \ InFlight(p)
  <2>1. Saves \ InFlight(p) # {}
    BY DEF InFlight
  <2>. QED
    BY <2>1, AnyOfThem
<1>3. r \in Save /\ r # Free
  BY <1>1, NotFree DEF Save, SavePhases
<1>4. r.cell = c /\ r.value = p.editors[k].draft /\ r.phase = "sent" /\ r.editor = k
  OBVIOUS
<1>5. PICK h : h = Keep(p, k)
  OBVIOUS
<1>6. /\ h \in Pages /\ Sound(h) /\ Listed(h) = Listed(p)
      /\ InFlight(h) = InFlight(p) /\ h.saves = p.saves
      /\ EditorsOf(h, c) = EditorsOf(p, c) /\ SavesOf(h, c) = SavesOf(p, c)
      /\ \A d \in Cells : d # c => Aside(p, h, d)
  BY <1>5, KeepIs
<1>7. Send(p, k) = [h EXCEPT !.saves[s] = r]
  BY <1>5 DEF Send
<1>. HIDE DEF s, r
<1>8. PICK q : q = Send(p, k)
  OBVIOUS
<1>9. /\ q \in Pages /\ q.shown = h.shown /\ q.editors = h.editors /\ q.active = h.active
      /\ q.saves = [h.saves EXCEPT ![s] = r]
  <2>1. [h.saves EXCEPT ![s] = r] \in [Saves -> Save \cup {Free}]
    BY <1>2, <1>3, <1>6 DEF Pages
  <2>2. q = [h EXCEPT !.saves = [h.saves EXCEPT ![s] = r]]
    BY <1>7, <1>8
  <2>. QED
    BY <1>6, <2>1, <2>2 DEF Pages
<1>10. q.saves[s] = r /\ \A t \in Saves \ {s} : q.saves[t] = p.saves[t]
  BY <1>2, <1>6, <1>9 DEF Pages
<1>11. InFlight(q) = InFlight(p) \cup {s}
  BY <1>2, <1>3, <1>10 DEF InFlight
<1>12. /\ Listed(q) = Listed(p) /\ Existing(q) = Existing(h)
       /\ \A d : EditorsOf(q, d) = EditorsOf(h, d)
  BY <1>6, <1>9 DEF Listed, Existing, EditorsOf
<1>13. Sound(q)
  <2>1. k \in EditorsOf(q, c)
    BY <1>1, <1>6, <1>12 DEF EditorsOf
  <2>2. \A t \in InFlight(q) : q.saves[t].editor \in EditorsOf(q, q.saves[t].cell)
    BY <1>2, <1>4, <1>6, <1>10, <1>11, <1>12, <2>1 DEF Sound, InFlight
  <2>. QED
    BY <1>6, <1>9, <1>12, <2>2 DEF Sound, Listed
<1>14. SavesOf(q, c) = SavesOf(p, c) \cup {s}
  BY <1>2, <1>4, <1>10, <1>11 DEF SavesOf, InFlight
<1>15. ASSUME NEW d \in Cells, d # c PROVE Aside(p, q, d)
  <2>1. SavesOf(q, d) = SavesOf(p, d) /\ \A t \in SavesOf(p, d) : q.saves[t] = p.saves[t]
    BY <1>2, <1>4, <1>10, <1>11, <1>15 DEF SavesOf, InFlight
  <2>2. Aside(p, h, d)
    BY <1>6, <1>15
  <2>. QED
    BY <1>6, <1>9, <1>12, <2>1, <2>2 DEF Aside
<1>16. /\ EditorsOf(q, c) = EditorsOf(p, c)
       /\ q.shown = Keep(p, k).shown /\ q.editors = Keep(p, k).editors
       /\ s \in InFlight(q) /\ q.saves[s].cell = c /\ q.saves[s].value = p.editors[k].draft
       /\ q.saves[s].phase = "sent" /\ q.saves[s].editor = k
  BY <1>4, <1>5, <1>6, <1>9, <1>10, <1>11, <1>12
<1>. QED
  BY <1>8, <1>12, <1>13, <1>14, <1>15, <1>16

LEMMA SendKnown ==
    ASSUME NEW p, Sound(p), NEW k \in Open(p), NEW v, Known(p, p.editors[k].cell, v),
           p.editors[k].draft \in Values, InFlight(p) # Saves
    PROVE  Known(Send(p, k), p.editors[k].cell, v)
<1>. DEFINE c == p.editors[k].cell
            q == Send(p, k)
            h == Keep(p, k)
<1>1. k \in EditorsOf(p, c) /\ p.editors[k].draft # None
  BY DEF Open, EditorsOf
<1>2. /\ k \in Listed(p) /\ EditorsOf(p, c) = {k} /\ SavesOf(p, c) = {} /\ p.shown[c] = v
  BY <1>1 DEF Known, EditorKnown
<1>3. v # None
  <2>1. p \in Pages /\ c \in Cells
    BY <1>1, IsEditor DEF Sound, EditorsOf, Editor
  <2>. QED
    BY <1>2, <2>1, InlineEditingAssumption DEF Pages, Entries
<1>4. /\ h.editors[k].draft = None /\ h.editors[k].formState = p.editors[k].draft
      /\ h.editors[k].oldState = p.shown[c] /\ h.shown[c] = p.editors[k].draft
  BY KeepIs
<1>5. /\ Listed(q) = Listed(p) /\ EditorsOf(q, c) = EditorsOf(p, c)
      /\ q.shown = h.shown /\ q.editors = h.editors
  BY SendIs
<1>6. PICK s \in InFlight(q) :
          /\ SavesOf(q, c) = SavesOf(p, c) \cup {s}
          /\ q.saves[s].cell = c /\ q.saves[s].value = p.editors[k].draft
          /\ q.saves[s].phase = "sent" /\ q.saves[s].editor = k
  BY SendIs
<1>. HIDE DEF q, c, h
<1>7. EditorKnown(q, c, v, k)
  BY <1>1, <1>2, <1>3, <1>4, <1>5, <1>6 DEF EditorKnown
<1>8. SaveKnown(q, c, v, s)
  BY <1>2, <1>3, <1>4, <1>5, <1>6 DEF SaveKnown
<1>9. Known(q, c, v)
  BY <1>2, <1>5, <1>6, <1>7, <1>8 DEF Known
<1>. QED
  BY <1>9 DEF q, c

\* A cell shows its value again when its only editor is disposed of.
LEMMA DisposeKnown ==
    ASSUME NEW p, Sound(p), NEW k \in Existing(p), NEW v,
           EditorsOf(p, p.editors[k].cell) = {k}, SavesOf(p, p.editors[k].cell) = {},
           p.shown[p.editors[k].cell] = v
    PROVE  Known(Tidy(Dispose(p, k)), p.editors[k].cell, v)
<1>. DEFINE c == p.editors[k].cell
<1>1. PICK q \in Pages, e \in Editor :
          /\ q = Dispose(p, k) /\ Sound(q)
          /\ q.shown = p.shown /\ q.saves = p.saves /\ Listed(q) = Listed(p) \ {k}
          /\ q.editors = [p.editors EXCEPT ![k] = e]
          /\ e.cell = p.editors[k].cell /\ e.disposed
  BY DisposeIs
<1>2. p \in Pages /\ k \in Editors
  BY IsEditor DEF Sound
<1>3. q.editors[k] = e /\ \A j \in Editors \ {k} : q.editors[j] = p.editors[j]
  BY <1>1, <1>2 DEF Pages
<1>4. SavesOf(q, c) = {} /\ \A j \in EditorsOf(q, c) : j = k
  BY <1>1, <1>3 DEF SavesOf, InFlight, EditorsOf, Existing
<1>. HIDE DEF c
<1>5. \A j \in EditorsOf(q, c) : q.editors[j].disposed \/ ~q.editors[j].attached
  BY <1>1, <1>3, <1>4
<1>6. q.shown[c] = v
  BY <1>1 DEF c
<1>. QED
  BY <1>1, <1>4, <1>5, <1>6, TidyEmpties DEF c

LEMMA DisposeTidy ==
    ASSUME NEW p, Sound(p), NEW k \in Existing(p)
    PROVE  LET q == Tidy(Dispose(p, k))
           IN  /\ Sound(q) /\ Listed(q) \subseteq Listed(p)
               /\ \A d \in Cells : \A v : d # p.editors[k].cell /\ Known(p, d, v) => Aside(p, q, d)
<1>1. PICK r \in Pages, e \in Editor :
          /\ r = Dispose(p, k) /\ Sound(r)
          /\ r.shown = p.shown /\ r.saves = p.saves /\ Listed(r) = Listed(p) \ {k}
          /\ r.editors = [p.editors EXCEPT ![k] = e]
          /\ e.cell = p.editors[k].cell /\ e.disposed
  BY DisposeIs
<1>2. Sound(Tidy(r)) /\ Listed(Tidy(r)) \subseteq Listed(p)
  BY <1>1, TidySound
<1>3. ASSUME NEW d \in Cells, NEW v, d # p.editors[k].cell, Known(p, d, v)
      PROVE  Aside(p, Tidy(r), d)
  <2>1. Aside(p, r, d)
    BY <1>1, <1>3, DisposeAside
  <2>2. Known(r, d, v)
    BY <2>1, <1>3, AsideKnown
  <2>3. Aside(r, Tidy(r), d)
    BY <1>1, <2>2, TidyKnown
  <2>. QED
    BY <2>1, <2>3, AsideTwice
<1>. QED
  BY <1>1, <1>2, <1>3

\* blur of the view: what is changed stays known, and what is valid is sent.
LEMMA LeaveIs ==
    ASSUME NEW p, Sound(p), NEW k \in Open(p), CanLeave(p, k)
    PROVE  LET q == Leave(p, k)
               c == p.editors[k].cell
           IN  /\ Sound(q) /\ Listed(q) \subseteq Listed(p)
               /\ \A d \in Cells : \A v : d # c /\ Known(p, d, v) => Aside(p, q, d)
               /\ \A v : Known(p, c, v) => Known(q, c, v)
               /\ p.editors[k].draft \in Values \ {p.shown[c]} =>
                     \E s \in SavesOf(q, c) : /\ q.saves[s].value = p.editors[k].draft
                                              /\ q.shown[c] = p.editors[k].draft
<1>. DEFINE c == p.editors[k].cell
            draft == p.editors[k].draft
            q == Leave(p, k)
<1>1. k \in Existing(p) /\ k \in EditorsOf(p, c) /\ draft # None /\ draft \in Entries
  <2>1. k \in Existing(p) /\ draft # None /\ p \in Pages
    BY DEF Sound, Open
  <2>. QED
    BY <2>1, IsEditor DEF EditorsOf, Editor
<1>2. CASE draft = p.shown[c]
  <2>1. q = Tidy(Dispose(p, k))
    BY <1>2 DEF Leave
  <2>2. ASSUME NEW v, Known(p, c, v) PROVE Known(q, c, v)
    <3>1. EditorsOf(p, c) = {k} /\ SavesOf(p, c) = {} /\ p.shown[c] = v
      BY <1>1, <2>2 DEF Known, EditorKnown
    <3>. HIDE DEF q
    <3>. QED
      BY <1>1, <2>1, <3>1, DisposeKnown
  <2>. QED
    BY <1>1, <1>2, <2>1, <2>2, DisposeTidy
<1>3. CASE draft # p.shown[c] /\ draft = Bad
  <2>1. q = Keep(p, k)
    BY <1>3 DEF Leave
  <2>2. draft \notin Values
    BY <1>3, InlineEditingAssumption
  <2>3. \A v : Known(p, c, v) => Known(Keep(p, k), c, v)
    BY KeepKnown
  <2>. QED
    BY <2>1, <2>2, <2>3, KeepIs
<1>4. CASE draft # p.shown[c] /\ draft # Bad
  <2>1. q = Send(p, k)
    BY <1>4 DEF Leave
  <2>2. draft \in Values /\ InFlight(p) # Saves
    BY <1>1, <1>4 DEF Entries, CanLeave
  <2>3. \A v : Known(p, c, v) => Known(Send(p, k), c, v)
    BY <2>2, SendKnown
  <2>4. /\ Sound(q) /\ Listed(q) = Listed(p)
        /\ \A d \in Cells : d # c => Aside(p, q, d)
    BY <2>1, <2>2, SendIs
  <2>5. PICK s \in InFlight(q) :
            /\ SavesOf(q, c) = SavesOf(p, c) \cup {s}
            /\ q.saves[s].cell = c /\ q.saves[s].value = draft
            /\ q.saves[s].phase = "sent" /\ q.saves[s].editor = k
    BY <2>1, <2>2, SendIs
  <2>6. q.shown[c] = draft
    <3>1. q.shown = Keep(p, k).shown
      BY <2>1, <2>2, SendIs
    <3>2. Keep(p, k).shown[c] = draft
      BY KeepIs
    <3>. QED
      BY <3>1, <3>2
  <2>. HIDE DEF q, c, draft
  <2>7. s \in SavesOf(q, c)
    BY <2>5
  <2>. QED
    BY <2>1, <2>3, <2>4, <2>5, <2>6, <2>7 DEF q, c, draft
<1>. QED
  BY <1>2, <1>3, <1>4

\* createView: a value kept in the editor is edited again, the cell showing the
\* value before.
LEMMA CreateViewIs ==
    ASSUME NEW p, Sound(p), NEW k \in Existing(p)
    PROVE  LET q == CreateView(p, k)
               c == p.editors[k].cell
           IN  /\ Sound(q) /\ Listed(q) = Listed(p) /\ q.saves = p.saves
               /\ \A d \in Cells : d # c => Aside(p, q, d)
               /\ \A j \in Open(p) : j \in Open(q)
               /\ \A v : Known(p, c, v) /\ SavesOf(p, c) = {} => Known(q, c, v)
<1>. DEFINE was == p.editors[k]
            c == was.cell
            x == IF was.formState = None \/ was.oldState = None THEN p.shown[c] ELSE was.oldState
            e == [was EXCEPT !.draft = IF was.formState = None THEN p.shown[c] ELSE was.formState]
<1>1. p \in Pages /\ k \in Editors /\ was \in Editor /\ c \in Cells
  <2>1. p \in Pages
    BY DEF Sound
  <2>2. was \in Editor /\ k \in Editors
    BY <2>1, IsEditor
  <2>. QED
    BY <2>1, <2>2 DEF Editor
<1>2. CASE was.draft # None
  <2>1. CreateView(p, k) = p
    BY <1>2 DEF CreateView
  <2>. QED
    BY <2>1 DEF Aside
<1>3. CASE was.draft = None
  <2>1. /\ x \in Entries /\ p.shown[c] \in Entries /\ None \notin Entries
        /\ (IF was.formState = None THEN p.shown[c] ELSE was.formState) \in Entries
    BY <1>1, InlineEditingAssumption DEF Pages, Editor, Entries
  <2>2. /\ e \in Editor /\ e.cell = c /\ e.attached = was.attached /\ e.disposed = was.disposed
        /\ e.draft # None /\ e.formState = was.formState /\ e.oldState = was.oldState
    BY <1>1, <2>1 DEF Editor
  <2>3. /\ CreateView(p, k).shown = [p.shown EXCEPT ![c] = x]
        /\ CreateView(p, k).saves = p.saves /\ CreateView(p, k).active = p.active
        /\ CreateView(p, k).editors = [p.editors EXCEPT ![k] = e]
        /\ DOMAIN CreateView(p, k) = DOMAIN p
        /\ CreateView(p, k) = [f \in DOMAIN p |-> CreateView(p, k)[f]]
    <3>1. CASE was.formState = None
      <4>1. CreateView(p, k) = [p EXCEPT !.editors[k].draft = p.shown[c]]
        BY <1>3, <3>1 DEF CreateView
      <4>2. p.shown = [p.shown EXCEPT ![c] = x]
        BY <1>1, <3>1 DEF Pages
      <4>3. /\ CreateView(p, k).shown = p.shown
            /\ CreateView(p, k).saves = p.saves /\ CreateView(p, k).active = p.active
            /\ CreateView(p, k).editors = [p.editors EXCEPT ![k] = e]
        BY <1>1, <3>1, <4>1 DEF Pages
      <4>4. /\ DOMAIN CreateView(p, k) = DOMAIN p
            /\ CreateView(p, k) = [f \in DOMAIN p |-> CreateView(p, k)[f]]
        BY <4>1, Zenon
      <4>. HIDE DEF x, e
      <4>. QED
        BY <4>2, <4>3, <4>4
    <3>2. CASE was.formState # None
      <4>1. CreateView(p, k) = [p EXCEPT !.editors[k].draft = was.formState,
                       !.shown[c] = IF was.oldState = None THEN @ ELSE was.oldState]
        BY <1>3, <3>2 DEF CreateView
      <4>3. /\ CreateView(p, k).shown =
                    [p.shown EXCEPT ![c] = IF was.oldState = None THEN p.shown[c] ELSE was.oldState]
            /\ CreateView(p, k).saves = p.saves /\ CreateView(p, k).active = p.active
            /\ CreateView(p, k).editors = [p.editors EXCEPT ![k] = e]
        BY <1>1, <3>2, <4>1 DEF Pages
      <4>4. /\ DOMAIN CreateView(p, k) = DOMAIN p
            /\ CreateView(p, k) = [f \in DOMAIN p |-> CreateView(p, k)[f]]
        BY <4>1, Zenon
      <4>5. x = IF was.oldState = None THEN p.shown[c] ELSE was.oldState
        BY <3>2
      <4>. HIDE DEF x, e
      <4>. QED
        BY <4>3, <4>4, <4>5
    <3>. QED
      BY <3>1, <3>2
  <2>. HIDE DEF e, x
  <2>4. PICK q : q = CreateView(p, k)
    OBVIOUS
  <2>5. /\ q \in Pages /\ Sound(q) /\ Listed(q) = Listed(p) /\ InFlight(q) = InFlight(p)
        /\ k \in Existing(q) /\ q.editors[k] = e /\ q.shown[e.cell] = x
        /\ EditorsOf(q, e.cell) = EditorsOf(p, e.cell) /\ SavesOf(q, e.cell) = SavesOf(p, e.cell)
        /\ \A d \in Cells : d # e.cell => Aside(p, q, d)
    <3>1. /\ DOMAIN q = DOMAIN p /\ q = [f \in DOMAIN p |-> q[f]]
          /\ q.editors = [p.editors EXCEPT ![k] = e] /\ q.shown = [p.shown EXCEPT ![e.cell] = x]
          /\ q.active = p.active /\ q.saves = p.saves
      BY <2>2, <2>3, <2>4
    <3>2. /\ e.cell = p.editors[k].cell /\ e.attached = p.editors[k].attached
          /\ e.disposed = p.editors[k].disposed
      BY <2>2
    <3>. HIDE DEF was, c
    <3>. QED
      BY <2>1, <2>2, <3>1, <3>2, EditorStep
  <2>6. ASSUME NEW v, Known(p, c, v), SavesOf(p, c) = {} PROVE Known(q, c, v)
    <3>1. k \in EditorsOf(p, c)
      BY DEF EditorsOf
    <3>2. /\ k \in Listed(p) /\ EditorsOf(p, c) = {k}
          /\ (was.formState = None <=> was.oldState = None)
          /\ v = IF was.oldState = None THEN p.shown[c] ELSE was.oldState
      BY <2>6, <3>1 DEF Known, EditorKnown
    <3>3. x = v
      BY <3>2 DEF x
    <3>. HIDE DEF was, c
    <3>4. EditorKnown(q, c, v, k)
      BY <2>2, <2>5, <2>6, <3>2, <3>3 DEF EditorKnown
    <3>. QED
      BY <2>2, <2>5, <2>6, <3>2, <3>4 DEF Known
  <2>7. ASSUME NEW j \in Open(p) PROVE j \in Open(q)
    <3>1. j # k /\ j \in Editors /\ j \in Existing(p)
      BY <1>3 DEF Open, Existing
    <3>2. q.editors[j] = p.editors[j]
      BY <1>1, <2>3, <2>4, <3>1 DEF Pages
    <3>. QED
      BY <3>1, <3>2 DEF Open, Existing
  <2>. QED
    BY <2>2, <2>3, <2>4, <2>5, <2>6, <2>7
<1>. QED
  BY <1>2, <1>3

LEMMA NewEditorIs ==
    ASSUME NEW p, Sound(p), NEW c \in Cells, Existing(p) # Editors
    PROVE  LET q == NewEditor(p, c)
           IN  /\ Sound(q) /\ q.saves = p.saves
               /\ \A d \in Cells : d # c => Aside(p, q, d)
               /\ \A j \in Open(p) : j \in Open(q)
               /\ \A v : Known(p, c, v) /\ EditorsOf(p, c) = {} => Known(q, c, v)
<1>. DEFINE k == AnyOf(Editors \ Existing(p))
            e == [cell |-> c, draft |-> p.shown[c], oldState |-> None,
                  formState |-> None, attached |-> TRUE, disposed |-> FALSE]
<1>1. p \in Pages /\ p.shown[c] \in Entries
  BY DEF Sound, Pages
<1>2. k \in Editors \ Existing(p)
  <2>1. Editors \ Existing(p) # {}
    BY DEF Existing
  <2>. QED
    BY <2>1, AnyOfThem
<1>3. e \in Editor /\ e # Free
  <2>1. e \in Editor
    BY <1>1 DEF Editor
  <2>. HIDE DEF e
  <2>. QED
    BY <2>1, NotFree
<1>4. e.cell = c /\ e.draft = p.shown[c] /\ e.oldState = None /\ e.formState = None
      /\ e.attached /\ ~e.disposed
  OBVIOUS
<1>5. NewEditor(p, c) = [p EXCEPT !.active = Append(p.active, k), !.editors[k] = e]
  BY DEF NewEditor
<1>. HIDE DEF k, e
<1>6. PICK q : q = NewEditor(p, c)
  OBVIOUS
<1>7. /\ q.shown = p.shown /\ q.saves = p.saves /\ q.active = Append(p.active, k)
      /\ q.editors = [p.editors EXCEPT ![k] = e]
  BY <1>1, <1>5, <1>6 DEF Pages
<1>8. DOMAIN q = DOMAIN p /\ q = [f \in DOMAIN p |-> q[f]]
  BY <1>5, <1>6, Zenon
<1>9. k \notin Listed(p)
  BY <1>2 DEF Sound
<1>10. /\ Append(p.active, k) \in Seq(Editors)
       /\ Range(Append(p.active, k)) = Range(p.active) \cup {k}
       /\ Injective(Append(p.active, k))
  <2>1. p.active \in Seq(Editors) /\ Injective(p.active) /\ k \notin Range(p.active)
    BY <1>1, <1>9 DEF Pages, Sound, Listed
  <2>. QED
    BY <1>2, <2>1, Listing
<1>11. q \in Pages
  <2>1. [p.editors EXCEPT ![k] = e] \in [Editors -> Editor \cup {Free}]
    BY <1>1, <1>2, <1>3 DEF Pages
  <2>. QED
    BY <1>1, <1>7, <1>8, <1>10, <2>1, IsPage DEF Pages
<1>12. q.editors[k] = e /\ \A j \in Editors \ {k} : q.editors[j] = p.editors[j]
  BY <1>1, <1>2, <1>7 DEF Pages
<1>13. Listed(q) = Listed(p) \cup {k} /\ InFlight(q) = InFlight(p)
       /\ Existing(q) = Existing(p) \cup {k}
  BY <1>2, <1>3, <1>7, <1>10, <1>12 DEF Listed, InFlight, Existing
<1>14. \A j \in Existing(p) : j \in Editors \ {k} /\ q.editors[j] = p.editors[j]
  BY <1>2, <1>12 DEF Existing
<1>15. Sound(q)
  <2>1. \A j \in Listed(q) : j \in Existing(q) /\ q.editors[j].attached /\ ~q.editors[j].disposed
    BY <1>4, <1>12, <1>13, <1>14 DEF Sound
  <2>2. \A s \in InFlight(q) : q.saves[s].editor \in EditorsOf(q, q.saves[s].cell)
    BY <1>7, <1>13, <1>14 DEF Sound, EditorsOf
  <2>. QED
    BY <1>7, <1>10, <1>11, <2>1, <2>2 DEF Sound
<1>16. \A d : SavesOf(q, d) = SavesOf(p, d)
  BY <1>7, <1>13 DEF SavesOf
<1>17. ASSUME NEW d \in Cells, d # c PROVE Aside(p, q, d)
  <2>1. k \notin EditorsOf(p, d)
    BY <1>2 DEF EditorsOf
  <2>. QED
    BY <1>1, <1>2, <1>3, <1>4, <1>7, <1>11, <1>13, <1>16, <1>17, <2>1, OneEditor
<1>18. \A j \in Open(p) : j \in Open(q)
  BY <1>13, <1>14 DEF Open
<1>19. ASSUME NEW v, Known(p, c, v), EditorsOf(p, c) = {} PROVE Known(q, c, v)
  <2>1. p.shown[c] = v /\ SavesOf(p, c) = {}
    BY <1>19 DEF Known, Sound, SavesOf
  <2>2. EditorsOf(q, c) = {k}
    BY <1>4, <1>12, <1>13, <1>14, <1>19 DEF EditorsOf
  <2>3. EditorKnown(q, c, v, k)
    BY <1>4, <1>7, <1>12, <1>13, <1>16, <2>1, <2>2 DEF EditorKnown
  <2>. QED
    BY <1>16, <2>1, <2>2, <2>3 DEF Known
<1>. QED
  BY <1>6, <1>7, <1>15, <1>17, <1>18, <1>19

\* enterEditMode of the plugin.
LEMMA EnterIs ==
    ASSUME NEW p, Sound(p), NEW c \in Cells, CanEnter(p, c)
    PROVE  LET q == Enter(p, c)
           IN  /\ Sound(q) /\ q.saves = p.saves
               /\ \A d \in Cells : d # c => Aside(p, q, d)
               /\ \A j \in Open(p) : j \in Open(q)
               /\ \A v : Known(p, c, v) /\ ~Saving(p, c) => Known(q, c, v)
<1>1. ASSUME NEW v, Known(p, c, v), ~Saving(p, c)
      PROVE  SavesOf(p, c) = {} /\ (ListedFor(p, c) = {} => EditorsOf(p, c) = {})
  BY <1>1 DEF Known, EditorKnown, Saving, SavesOf, ListedFor, EditorsOf
<1>2. CASE ListedFor(p, c) = {}
  BY <1>1, <1>2, NewEditorIs DEF Enter, CanEnter
<1>3. CASE ListedFor(p, c) # {}
  <2>1. PICK k : k = AnyOf(ListedFor(p, c))
    OBVIOUS
  <2>2. k \in Existing(p) /\ p.editors[k].cell = c
    BY <1>3, <2>1, AnyOfThem DEF ListedFor, Sound
  <2>3. Enter(p, c) = CreateView(p, k)
    BY <1>3, <2>1 DEF Enter
  <2>. QED
    BY <1>1, <2>2, <2>3, CreateViewIs
<1>. QED
  BY <1>2, <1>3

\* A save whose answer has come is not in flight any more.
LEMMA AnsweredIs ==
    ASSUME NEW p, Sound(p), NEW s \in InFlight(p)
    PROVE  LET q == Answered(p, s)
               c == p.saves[s].cell
           IN  /\ Sound(q) /\ Listed(q) = Listed(p) /\ q.shown = p.shown /\ q.editors = p.editors
               /\ EditorsOf(q, c) = EditorsOf(p, c) /\ SavesOf(q, c) = SavesOf(p, c) \ {s}
               /\ \A d \in Cells : d # c => Aside(p, q, d)
<1>1. p \in Pages /\ s \in Saves
  BY IsSave DEF Sound
<1>2. PICK q : q = Answered(p, s)
  OBVIOUS
<1>3. /\ q \in Pages /\ q.shown = p.shown /\ q.editors = p.editors /\ q.active = p.active
      /\ q.saves = [p.saves EXCEPT ![s] = Free]
  <2>1. [p.saves EXCEPT ![s] = Free] \in [Saves -> Save \cup {Free}]
    BY <1>1 DEF Pages
  <2>2. q = [p EXCEPT !.saves = [p.saves EXCEPT ![s] = Free]]
    BY <1>2 DEF Answered
  <2>. QED
    BY <1>1, <2>1, <2>2 DEF Pages
<1>4. q.saves[s] = Free /\ \A t \in Saves \ {s} : q.saves[t] = p.saves[t]
  BY <1>1, <1>3 DEF Pages
<1>5. /\ InFlight(q) = InFlight(p) \ {s} /\ Listed(q) = Listed(p)
      /\ Existing(q) = Existing(p) /\ \A d : EditorsOf(q, d) = EditorsOf(p, d)
  BY <1>3, <1>4 DEF InFlight, Listed, Existing, EditorsOf
<1>6. \A t \in InFlight(q) : t \in InFlight(p) /\ q.saves[t] = p.saves[t]
  BY <1>4, <1>5 DEF InFlight
<1>7. Sound(q)
  BY <1>3, <1>5, <1>6 DEF Sound
<1>8. SavesOf(q, p.saves[s].cell) = SavesOf(p, p.saves[s].cell) \ {s}
  BY <1>5, <1>6 DEF SavesOf
<1>9. ASSUME NEW d \in Cells, d # p.saves[s].cell PROVE Aside(p, q, d)
  <2>1. SavesOf(q, d) = SavesOf(p, d) /\ \A t \in SavesOf(p, d) : q.saves[t] = p.saves[t]
    BY <1>5, <1>6, <1>9 DEF SavesOf
  <2>. QED
    BY <1>3, <1>5, <2>1 DEF Aside
<1>. QED
  BY <1>2, <1>3, <1>5, <1>7, <1>8, <1>9

\* removeActiveEditorComponents: nothing is listed any more, and cells without
\* an editor in the list keep their value.
LEMMA RemoveActiveIs ==
    ASSUME NEW p, Sound(p)
    PROVE  LET q == RemoveActive(p)
           IN  /\ Sound(q) /\ Listed(q) = {}
               /\ \A c \in Cells : \A v : Known(p, c, v) /\ EditorsOf(p, c) = {} => Known(q, c, v)
<1>. DEFINE reached == {p.active[i] : i \in {i \in DOMAIN p.active : i % 2 = 1}}
            after == [k \in Editors |->
                         IF k \notin reached THEN p.editors[k]
                         ELSE [p.editors[k] EXCEPT !.draft = None, !.disposed = TRUE]]
<1>1. PICK r : r = [p EXCEPT !.active = <<>>, !.editors = after]
  OBVIOUS
<1>2. RemoveActive(p) = Tidy(r)
  BY <1>1 DEF RemoveActive
<1>3. p \in Pages /\ reached \subseteq Listed(p)
  BY DEF Sound, Listed, Range
<1>4. \A k \in Editors :
        /\ k \notin Existing(p) => after[k] = Free
        /\ k \in Existing(p) => /\ after[k] \in Editor /\ after[k] # Free
                                /\ after[k].cell = p.editors[k].cell
  <2>. SUFFICES ASSUME NEW k \in Editors
                PROVE  /\ k \notin Existing(p) => after[k] = Free
                       /\ k \in Existing(p) => /\ after[k] \in Editor /\ after[k] # Free
                                               /\ after[k].cell = p.editors[k].cell
    OBVIOUS
  <2>1. CASE k \notin Existing(p)
    <3>1. k \notin reached
      BY <1>3, <2>1 DEF Sound
    <3>. QED
      BY <2>1, <3>1 DEF Existing
  <2>2. CASE k \in Existing(p)
    <3>. DEFINE e == [p.editors[k] EXCEPT !.draft = None, !.disposed = TRUE]
    <3>1. p.editors[k] \in Editor
      BY <1>3, <2>2, IsEditor
    <3>2. e \in Editor /\ e.cell = p.editors[k].cell
      BY <3>1 DEF Editor, Entries
    <3>3. after[k] = p.editors[k] \/ after[k] = e
      OBVIOUS
    <3>. HIDE DEF e, after
    <3>. QED
      BY <2>2, <3>1, <3>2, <3>3, NotFree
  <2>. QED
    BY <2>1, <2>2
<1>5. after \in [Editors -> Editor \cup {Free}]
  <2>1. \A k \in Editors : after[k] \in Editor \cup {Free}
    BY <1>4
  <2>. QED
    BY <2>1
<1>. HIDE DEF after, reached
<1>6. /\ r.shown = p.shown /\ r.saves = p.saves /\ r.active = <<>> /\ r.editors = after
      /\ DOMAIN r = DOMAIN p /\ r = [f \in DOMAIN p |-> r[f]]
  BY <1>1, <1>3 DEF Pages
<1>7. r \in Pages
  <2>1. /\ r.shown \in [Cells -> Entries] /\ r.saves \in [Saves -> Save \cup {Free}]
        /\ r.editors \in [Editors -> Editor \cup {Free}]
    BY <1>3, <1>5, <1>6 DEF Pages
  <2>2. r.active \in Seq(Editors)
    BY <1>6
  <2>. QED
    BY <1>3, <1>6, <2>1, <2>2, IsPage
<1>8. Listed(r) = {} /\ InFlight(r) = InFlight(p) /\ \A d : EditorsOf(r, d) = EditorsOf(p, d)
  BY <1>4, <1>6 DEF Listed, Range, InFlight, EditorsOf, Existing
<1>9. Sound(r)
  <2>1. Injective(r.active)
    BY <1>6 DEF Injective
  <2>. QED
    BY <1>6, <1>7, <1>8, <2>1 DEF Sound
<1>10. Sound(Tidy(r)) /\ Listed(Tidy(r)) = {}
  BY <1>8, <1>9, TidySound
<1>11. ASSUME NEW c \in Cells, NEW v, Known(p, c, v), EditorsOf(p, c) = {}
       PROVE  Known(Tidy(r), c, v)
  <2>1. SavesOf(r, c) = SavesOf(p, c)
    BY <1>6, <1>8 DEF SavesOf
  <2>2. Aside(p, r, c)
    BY <1>6, <1>8, <1>11, <2>1 DEF Aside
  <2>. QED
    BY <1>9, <1>11, <2>2, AsideKnown, TidyKnown
<1>. QED
  BY <1>2, <1>10, <1>11

\* An editor whose cell is left alone stays open.
LEMMA StaysOpen ==
    ASSUME NEW p, NEW q, NEW k \in Open(p), Aside(p, q, p.editors[k].cell)
    PROVE  k \in Open(q)
<1>1. k \in EditorsOf(p, p.editors[k].cell)
  BY DEF Open, EditorsOf
<1>. QED
  BY <1>1 DEF Aside, Open, EditorsOf

\* Typing.
LEMMA TypingIs ==
    ASSUME NEW p, Sound(p), NEW k \in Open(p), NEW value \in Entries
    PROVE  LET q == [p EXCEPT !.editors[k].draft = value]
               c == p.editors[k].cell
           IN  /\ Sound(q) /\ Listed(q) = Listed(p) /\ k \in Open(q)
               /\ \A d \in Cells : d # c => Aside(p, q, d)
               /\ \A v : Known(p, c, v) => Known(q, c, v)
<1>. DEFINE was == p.editors[k]
            c == was.cell
            e == [was EXCEPT !.draft = value]
<1>1. /\ p \in Pages /\ k \in Existing(p) /\ k \in Editors /\ was \in Editor
      /\ was.draft # None /\ c \in Cells
  <2>1. p \in Pages /\ k \in Existing(p) /\ was.draft # None
    BY DEF Sound, Open
  <2>2. was \in Editor /\ k \in Editors
    BY <2>1, IsEditor
  <2>. QED
    BY <2>1, <2>2 DEF Editor
<1>2. p.shown[c] \in Entries /\ p.shown = [p.shown EXCEPT ![c] = p.shown[c]]
  BY <1>1 DEF Pages
<1>3. /\ e \in Editor /\ e.cell = c /\ e.attached = was.attached /\ e.disposed = was.disposed
      /\ e.draft = value /\ e.formState = was.formState /\ e.oldState = was.oldState
  BY <1>1 DEF Editor
<1>4. PICK q : q = [p EXCEPT !.editors[k].draft = value]
  OBVIOUS
<1>5. /\ q.shown = p.shown /\ q.saves = p.saves /\ q.active = p.active
      /\ q.editors = [p.editors EXCEPT ![k] = e]
  BY <1>1, <1>4 DEF Pages
<1>6. DOMAIN q = DOMAIN p /\ q = [f \in DOMAIN p |-> q[f]]
  BY <1>4, Zenon
<1>. HIDE DEF e
<1>7. /\ Sound(q) /\ Listed(q) = Listed(p) /\ InFlight(q) = InFlight(p)
      /\ k \in Existing(q) /\ q.editors[k] = e
      /\ EditorsOf(q, c) = EditorsOf(p, c) /\ SavesOf(q, c) = SavesOf(p, c)
      /\ \A d \in Cells : d # c => Aside(p, q, d)
  <2>1. PICK x \in Entries : q.shown = [p.shown EXCEPT ![e.cell] = x]
    BY <1>2, <1>3, <1>5
  <2>2. /\ e.cell = p.editors[k].cell /\ e.attached = p.editors[k].attached
        /\ e.disposed = p.editors[k].disposed
    BY <1>3
  <2>3. /\ Sound(q) /\ Listed(q) = Listed(p) /\ InFlight(q) = InFlight(p)
        /\ k \in Existing(q) /\ q.editors[k] = e
        /\ EditorsOf(q, e.cell) = EditorsOf(p, e.cell)
        /\ SavesOf(q, e.cell) = SavesOf(p, e.cell)
        /\ \A d \in Cells : d # e.cell => Aside(p, q, d)
    <3>1. k \in Existing(p) /\ e \in Editor
      BY <1>1, <1>3
    <3>2. /\ q.editors = [p.editors EXCEPT ![k] = e] /\ q.active = p.active /\ q.saves = p.saves
      BY <1>5
    <3>. HIDE DEF was, c
    <3>. QED
      BY <1>6, <2>1, <2>2, <3>1, <3>2, EditorStep
  <2>. QED
    BY <1>3, <2>3
<1>8. k \in Open(q)
  <2>1. value # None
    BY InlineEditingAssumption DEF Entries
  <2>. QED
    BY <1>3, <1>7, <2>1 DEF Open
<1>9. ASSUME NEW v, Known(p, c, v) PROVE Known(q, c, v)
  <2>1. k \in EditorsOf(p, c)
    BY <1>1 DEF EditorsOf
  <2>2. /\ k \in Listed(p) /\ EditorsOf(p, c) = {k} /\ SavesOf(p, c) = {} /\ p.shown[c] = v
        /\ (was.formState = None <=> was.oldState = None)
        /\ v = IF was.oldState = None THEN p.shown[c] ELSE was.oldState
    BY <1>1, <1>9, <2>1 DEF Known, EditorKnown
  <2>. HIDE DEF was, c
  <2>3. EditorKnown(q, c, v, k)
    BY <1>3, <1>5, <1>7, <2>2 DEF EditorKnown
  <2>. QED
    BY <1>5, <1>7, <2>2, <2>3 DEF Known
<1>. QED
  BY <1>4, <1>7, <1>8, <1>9

\* Cancelling: the cell shows its value again.
LEMMA CancelIs ==
    ASSUME NEW p, Sound(p), NEW k \in Open(p)
    PROVE  LET q == Tidy(Dispose(Revert(p, k), k))
               c == p.editors[k].cell
           IN  /\ Sound(q) /\ Listed(q) \subseteq Listed(p)
               /\ \A d \in Cells : \A v : d # c /\ Known(p, d, v) => Aside(p, q, d)
               /\ \A v : Known(p, c, v) => Known(q, c, v)
<1>. DEFINE c == p.editors[k].cell
<1>1. k \in Existing(p) /\ p.editors[k].draft # None
  BY DEF Open
<1>2. PICK r \in Pages :
          /\ r = Dispose(Revert(p, k), k) /\ Sound(r)
          /\ r.saves = p.saves /\ Listed(r) = Listed(p) \ {k}
          /\ \A d \in Cells : d # p.editors[k].cell => Aside(p, r, d)
          /\ EditorsOf(r, p.editors[k].cell) = EditorsOf(p, p.editors[k].cell)
          /\ k \in Existing(r) /\ r.editors[k].disposed
          /\ p.editors[k].attached =>
                r.shown[p.editors[k].cell] =
                    IF p.editors[k].oldState = None THEN p.shown[p.editors[k].cell]
                    ELSE p.editors[k].oldState
  BY <1>1, UndoIs
<1>3. Sound(Tidy(r)) /\ Listed(Tidy(r)) \subseteq Listed(p)
  BY <1>2, TidySound
<1>4. ASSUME NEW d \in Cells, NEW v, d # c, Known(p, d, v) PROVE Aside(p, Tidy(r), d)
  <2>1. Aside(p, r, d) /\ Known(r, d, v)
    BY <1>2, <1>4, AsideKnown
  <2>. QED
    BY <1>2, <2>1, TidyKnown, AsideTwice
<1>5. ASSUME NEW v, Known(p, c, v) PROVE Known(Tidy(r), c, v)
  <2>1. k \in EditorsOf(p, c)
    BY <1>1 DEF EditorsOf
  <2>2. /\ k \in Listed(p) /\ EditorsOf(p, c) = {k} /\ SavesOf(p, c) = {}
        /\ v = IF p.editors[k].oldState = None THEN p.shown[c] ELSE p.editors[k].oldState
    BY <1>1, <1>5, <2>1 DEF Known, EditorKnown
  <2>3. r.shown[c] = v
    BY <1>2, <2>2 DEF Sound
  <2>4. SavesOf(r, c) = {} /\ \A j \in EditorsOf(r, c) : r.editors[j].disposed
    BY <1>2, <2>2 DEF SavesOf, InFlight
  <2>. HIDE DEF c
  <2>. QED
    BY <1>2, <2>3, <2>4, TidyEmpties
<1>. QED
  BY <1>2, <1>3, <1>4, <1>5

-----------------------------------------------------------------------------
(***************************************************************************)
(* Answers to a save, of the editor that sent it.                          *)
(***************************************************************************)
LEMMA SaveOf ==
    ASSUME NEW p, Sound(p), NEW s \in InFlight(p)
    PROVE  LET k == p.saves[s].editor
               c == p.saves[s].cell
           IN  /\ p \in Pages /\ s \in Saves /\ s \in SavesOf(p, c) /\ c \in Cells
               /\ p.saves[s].value \in Values /\ p.saves[s].value \in Entries
               /\ k \in Editors /\ k \in Existing(p) /\ p.editors[k].cell = c
               /\ p.editors[k] \in Editor
               /\ \A v : Known(p, c, v) =>
                     /\ EditorKnown(p, c, v, k) /\ SaveKnown(p, c, v, s)
                     /\ p.editors[k].attached
<1>1. p \in Pages /\ s \in SavesOf(p, p.saves[s].cell)
  BY DEF Sound, SavesOf
<1>2. p.saves[s] \in Save /\ s \in Saves
  BY <1>1, IsSave
<1>3. /\ p.saves[s].cell \in Cells /\ p.saves[s].value \in Values
      /\ p.saves[s].value \in Entries
  BY <1>2 DEF Save, Entries
<1>4. p.saves[s].editor \in EditorsOf(p, p.saves[s].cell)
  BY DEF Sound
<1>5. /\ p.saves[s].editor \in Existing(p) /\ p.saves[s].editor \in Editors
      /\ p.editors[p.saves[s].editor].cell = p.saves[s].cell
  BY <1>4 DEF EditorsOf, Existing
<1>6. p.editors[p.saves[s].editor] \in Editor
  BY <1>1, <1>5, IsEditor
<1>7. ASSUME NEW v, Known(p, p.saves[s].cell, v)
      PROVE  /\ EditorKnown(p, p.saves[s].cell, v, p.saves[s].editor)
             /\ SaveKnown(p, p.saves[s].cell, v, s)
             /\ p.editors[p.saves[s].editor].attached
  <2>1. /\ EditorKnown(p, p.saves[s].cell, v, p.saves[s].editor)
        /\ SaveKnown(p, p.saves[s].cell, v, s)
    BY <1>1, <1>4, <1>7 DEF Known
  <2>2. p.saves[s].editor \in Listed(p)
    BY <2>1 DEF EditorKnown
  <2>. QED
    BY <2>1, <2>2 DEF Sound
<1>. QED
  BY <1>1, <1>2, <1>3, <1>5, <1>6, <1>7

\* The editor of an answered save was disposed of: its cell is left with the
\* value it shows.
LEMMA LastAnswerIs ==
    ASSUME NEW p, Sound(p), NEW s \in InFlight(p),
           p.editors[p.saves[s].editor].disposed
    PROVE  LET q == Tidy(Answered(p, s))
               c == p.saves[s].cell
           IN  /\ Sound(q) /\ Listed(q) = Listed(p)
               /\ \A d \in Cells : \A v : d # c /\ Known(p, d, v) => Aside(p, q, d)
               /\ EditorsOf(p, c) = {p.saves[s].editor} /\ SavesOf(p, c) = {s}
                     => Known(q, c, p.shown[c])
<1>. DEFINE c == p.saves[s].cell
<1>1. PICK r : r = Answered(p, s)
  OBVIOUS
<1>2. /\ Sound(r) /\ Listed(r) = Listed(p) /\ r.shown = p.shown /\ r.editors = p.editors
      /\ EditorsOf(r, c) = EditorsOf(p, c) /\ SavesOf(r, c) = SavesOf(p, c) \ {s}
      /\ \A d \in Cells : d # c => Aside(p, r, d)
  BY <1>1, AnsweredIs
<1>3. Sound(Tidy(r)) /\ Listed(Tidy(r)) = Listed(p)
  BY <1>2, TidySound
<1>4. ASSUME NEW d \in Cells, NEW v, d # c, Known(p, d, v) PROVE Aside(p, Tidy(r), d)
  <2>1. Aside(p, r, d) /\ Known(r, d, v)
    BY <1>2, <1>4, AsideKnown
  <2>. QED
    BY <1>2, <2>1, TidyKnown, AsideTwice
<1>5. ASSUME EditorsOf(p, c) = {p.saves[s].editor}, SavesOf(p, c) = {s}
      PROVE  Known(Tidy(r), c, p.shown[c])
  <2>1. /\ SavesOf(r, c) = {} /\ r.shown[c] = p.shown[c]
        /\ \A j \in EditorsOf(r, c) : r.editors[j].disposed
    BY <1>2, <1>5
  <2>. HIDE DEF c
  <2>. QED
    BY <1>2, <2>1, TidyEmpties
<1>. QED
  BY <1>1, <1>3, <1>4, <1>5

\* onSaveError: the value before is shown again.
LEMMA FailIs ==
    ASSUME NEW p, Sound(p), NEW s \in InFlight(p)
    PROVE  LET k == p.saves[s].editor
               q == Tidy(Answered(Dispose(Revert(p, k), k), s))
               c == p.saves[s].cell
           IN  /\ Sound(q) /\ Listed(q) \subseteq Listed(p)
               /\ \A d \in Cells : \A v : d # c /\ Known(p, d, v) => Aside(p, q, d)
               /\ \A v : Known(p, c, v) /\ p.saves[s].phase # "stored" => Known(q, c, v)
<1>. DEFINE k == p.saves[s].editor
            c == p.saves[s].cell
<1>1. k \in Existing(p) /\ p.editors[k].cell = c /\ c \in Cells
  BY SaveOf
<1>2. PICK r \in Pages :
          /\ r = Dispose(Revert(p, k), k) /\ Sound(r)
          /\ r.saves = p.saves /\ Listed(r) = Listed(p) \ {k}
          /\ \A d \in Cells : d # p.editors[k].cell => Aside(p, r, d)
          /\ EditorsOf(r, p.editors[k].cell) = EditorsOf(p, p.editors[k].cell)
          /\ k \in Existing(r) /\ r.editors[k].disposed
          /\ p.editors[k].attached =>
                r.shown[p.editors[k].cell] =
                    IF p.editors[k].oldState = None THEN p.shown[p.editors[k].cell]
                    ELSE p.editors[k].oldState
  BY <1>1, UndoIs
<1>3. s \in InFlight(r) /\ r.editors[r.saves[s].editor].disposed /\ r.saves[s].cell = c
      /\ r.saves[s].editor = k
  BY <1>2 DEF InFlight
<1>4. PICK q : q = Tidy(Answered(r, s))
  OBVIOUS
<1>5. /\ Sound(q) /\ Listed(q) = Listed(r)
      /\ \A d \in Cells : \A v : d # c /\ Known(r, d, v) => Aside(r, q, d)
      /\ EditorsOf(r, c) = {k} /\ SavesOf(r, c) = {s} => Known(q, c, r.shown[c])
  <2>. HIDE DEF k, c
  <2>. QED
    BY <1>2, <1>3, <1>4, LastAnswerIs
<1>6. ASSUME NEW d \in Cells, NEW v, d # c, Known(p, d, v) PROVE Aside(p, q, d)
  <2>1. Aside(p, r, d) /\ Known(r, d, v)
    BY <1>1, <1>2, <1>6, AsideKnown
  <2>. QED
    BY <1>5, <1>6, <2>1, AsideTwice
<1>7. ASSUME NEW v, Known(p, c, v), p.saves[s].phase # "stored" PROVE Known(q, c, v)
  <2>1. EditorKnown(p, c, v, k) /\ SaveKnown(p, c, v, s) /\ p.editors[k].attached
    BY <1>7, SaveOf
  <2>2. EditorsOf(r, c) = {k} /\ SavesOf(r, c) = {s} /\ r.shown[c] = v
    BY <1>1, <1>2, <1>7, <2>1 DEF EditorKnown, SaveKnown, SavesOf, InFlight
  <2>. QED
    BY <1>5, <2>2
<1>. QED
  BY <1>2, <1>4, <1>5, <1>6, <1>7

\* onValidationError: the value stays, and its editor with it.
LEMMA RefusedIs ==
    ASSUME NEW p, Sound(p), NEW s \in InFlight(p), p.saves[s].phase = "invalid"
    PROVE  LET q == Tidy(Answered(p, s))
               c == p.saves[s].cell
           IN  /\ Sound(q) /\ Listed(q) = Listed(p)
               /\ \A d \in Cells : \A v : d # c /\ Known(p, d, v) => Aside(p, q, d)
               /\ \A v : Known(p, c, v) => Known(q, c, v)
<1>. DEFINE k == p.saves[s].editor
            c == p.saves[s].cell
<1>1. PICK r : r = Answered(p, s)
  OBVIOUS
<1>2. /\ Sound(r) /\ Listed(r) = Listed(p) /\ r.shown = p.shown /\ r.editors = p.editors
      /\ EditorsOf(r, c) = EditorsOf(p, c) /\ SavesOf(r, c) = SavesOf(p, c) \ {s}
      /\ \A d \in Cells : d # c => Aside(p, r, d)
  BY <1>1, AnsweredIs
<1>3. Sound(Tidy(r)) /\ Listed(Tidy(r)) = Listed(p)
  BY <1>2, TidySound
<1>4. ASSUME NEW d \in Cells, NEW v, d # c, Known(p, d, v) PROVE Aside(p, Tidy(r), d)
  <2>1. Aside(p, r, d) /\ Known(r, d, v)
    BY <1>2, <1>4, AsideKnown
  <2>. QED
    BY <1>2, <2>1, TidyKnown, AsideTwice
<1>5. ASSUME NEW v, Known(p, c, v) PROVE Known(Tidy(r), c, v)
  <2>1. EditorKnown(p, c, v, k) /\ SaveKnown(p, c, v, s) /\ s \in SavesOf(p, c)
    BY <1>5, SaveOf
  <2>. HIDE DEF c
  <2>2. EditorKnown(r, c, v, k)
    BY <1>2, <2>1 DEF EditorKnown, SaveKnown
  <2>3. SavesOf(r, c) = {} /\ EditorsOf(r, c) = {k}
    BY <1>2, <2>1 DEF EditorKnown, SaveKnown
  <2>4. Known(r, c, v)
    BY <2>2, <2>3 DEF Known
  <2>. QED
    BY <1>2, <2>4, TidyKnown
<1>. QED
  BY <1>1, <1>3, <1>4, <1>5

\* onSaveSuccess: what was stored is shown.
LEMMA SucceedIs ==
    ASSUME NEW p, Sound(p), NEW s \in InFlight(p), p.saves[s].phase = "stored",
           NEW value \in IF p.editors[p.saves[s].editor].attached
                         THEN {p.shown[p.saves[s].cell], p.saves[s].value}
                         ELSE {p.shown[p.saves[s].cell]}
    PROVE  LET c == p.saves[s].cell
               k == p.saves[s].editor
               q == Tidy(Answered(Dispose([p EXCEPT !.shown[c] = value,
                        !.editors[k].oldState = None, !.editors[k].formState = None], k), s))
           IN  /\ Sound(q) /\ Listed(q) \subseteq Listed(p)
               /\ \A d \in Cells : \A v : d # c /\ Known(p, d, v) => Aside(p, q, d)
               /\ \A v : Known(p, c, v) => Known(q, c, v)
<1>. DEFINE c == p.saves[s].cell
            k == p.saves[s].editor
            was == p.editors[k]
            e == [was EXCEPT !.oldState = None, !.formState = None]
<1>1. /\ p \in Pages /\ c \in Cells /\ p.saves[s].value \in Entries
      /\ k \in Editors /\ k \in Existing(p) /\ was.cell = c /\ was \in Editor
  BY SaveOf
<1>2. value \in Entries
  BY <1>1 DEF Pages
<1>3. e \in Editor /\ e.cell = c /\ e.attached = was.attached /\ e.disposed = was.disposed
  BY <1>1 DEF Editor
<1>4. PICK h : h = [p EXCEPT !.shown[c] = value,
                        !.editors[k].oldState = None, !.editors[k].formState = None]
  OBVIOUS
<1>5. /\ h.shown = [p.shown EXCEPT ![c] = value] /\ h.saves = p.saves /\ h.active = p.active
      /\ h.editors = [p.editors EXCEPT ![k] = e]
  BY <1>1, <1>4 DEF Pages
<1>6. DOMAIN h = DOMAIN p /\ h = [f \in DOMAIN p |-> h[f]]
  BY <1>4, Zenon
<1>. HIDE DEF e
<1>7. /\ Sound(h) /\ Listed(h) = Listed(p) /\ InFlight(h) = InFlight(p)
      /\ k \in Existing(h) /\ h.editors[k] = e /\ h.shown[c] = value
      /\ EditorsOf(h, c) = EditorsOf(p, c) /\ SavesOf(h, c) = SavesOf(p, c)
      /\ \A d \in Cells : d # c => Aside(p, h, d)
  <2>1. /\ k \in Existing(p) /\ e \in Editor
        /\ e.cell = p.editors[k].cell /\ e.attached = p.editors[k].attached
        /\ e.disposed = p.editors[k].disposed
    BY <1>1, <1>3
  <2>2. /\ h.editors = [p.editors EXCEPT ![k] = e] /\ h.active = p.active /\ h.saves = p.saves
        /\ h.shown = [p.shown EXCEPT ![e.cell] = value]
    BY <1>3, <1>5
  <2>. HIDE DEF was, k, c
  <2>3. /\ Sound(h) /\ Listed(h) = Listed(p) /\ InFlight(h) = InFlight(p)
        /\ k \in Existing(h) /\ h.editors[k] = e /\ h.shown[e.cell] = value
        /\ EditorsOf(h, e.cell) = EditorsOf(p, e.cell)
        /\ SavesOf(h, e.cell) = SavesOf(p, e.cell)
        /\ \A d \in Cells : d # e.cell => Aside(p, h, d)
    BY <1>2, <1>6, <2>1, <2>2, EditorStep
  <2>. QED
    BY <1>3, <2>3
<1>8. PICK r \in Pages, f \in Editor :
          /\ r = Dispose(h, k) /\ Sound(r)
          /\ r.shown = h.shown /\ r.saves = h.saves /\ Listed(r) = Listed(h) \ {k}
          /\ r.editors = [h.editors EXCEPT ![k] = f]
          /\ f.cell = h.editors[k].cell /\ f.disposed
  BY <1>7, DisposeIs
<1>9. /\ r.editors[k] = f /\ f # Free /\ \A j \in Editors \ {k} : r.editors[j] = h.editors[j]
  BY <1>1, <1>7, <1>8, NotFree DEF Sound, Pages
<1>10. /\ EditorsOf(r, c) = EditorsOf(h, c) /\ SavesOf(r, c) = SavesOf(h, c)
       /\ s \in InFlight(r) /\ r.saves[s].editor = k /\ r.saves[s].cell = c
       /\ r.editors[r.saves[s].editor].disposed
  <2>1. k \in Existing(h) /\ h.editors[k] = e /\ f.cell = c /\ e.cell = c
    BY <1>3, <1>7, <1>8
  <2>. HIDE DEF k, c
  <2>2. EditorsOf(r, c) = EditorsOf(h, c)
    BY <1>9, <2>1 DEF EditorsOf, Existing
  <2>3. SavesOf(r, c) = SavesOf(h, c) /\ InFlight(r) = InFlight(p) /\ r.saves = p.saves
    BY <1>5, <1>8 DEF SavesOf, InFlight
  <2>. QED
    BY <1>8, <1>9, <2>2, <2>3 DEF k, c
<1>11. PICK q : q = Tidy(Answered(r, s))
  OBVIOUS
<1>12. /\ Sound(q) /\ Listed(q) = Listed(r)
       /\ \A d \in Cells : \A v : d # c /\ Known(r, d, v) => Aside(r, q, d)
       /\ EditorsOf(r, c) = {k} /\ SavesOf(r, c) = {s} => Known(q, c, r.shown[c])
  <2>. HIDE DEF k, c
  <2>. QED
    BY <1>8, <1>10, <1>11, LastAnswerIs
<1>13. ASSUME NEW d \in Cells, NEW v, d # c, Known(p, d, v) PROVE Aside(p, q, d)
  <2>1. Aside(p, h, d)
    BY <1>7, <1>13
  <2>2. Aside(h, r, d)
    BY <1>3, <1>7, <1>8, <1>13, DisposeAside
  <2>3. Aside(p, r, d)
    BY <2>1, <2>2, AsideTwice
  <2>4. Known(r, d, v)
    BY <1>13, <2>3, AsideKnown
  <2>. QED
    BY <1>12, <1>13, <2>3, <2>4, AsideTwice
<1>14. ASSUME NEW v, Known(p, c, v) PROVE Known(q, c, v)
  <2>1. EditorKnown(p, c, v, k) /\ SaveKnown(p, c, v, s)
    BY <1>14, SaveOf
  <2>2. EditorsOf(r, c) = {k} /\ SavesOf(r, c) = {s}
    BY <1>7, <1>10, <2>1 DEF EditorKnown, SaveKnown
  <2>3. v = p.saves[s].value /\ p.shown[c] = p.saves[s].value
    BY <2>1 DEF SaveKnown
  <2>4. r.shown[c] = v
    BY <1>7, <1>8, <2>3
  <2>. QED
    BY <1>12, <2>2, <2>4
<1>. QED
  BY <1>4, <1>7, <1>8, <1>11, <1>12, <1>13, <1>14

\* The server stores the value, refuses it or fails.
LEMMA ServeIs ==
    ASSUME NEW p, Sound(p), NEW s \in InFlight(p), p.saves[s].phase = "sent",
           NEW phase \in {"stored", "invalid", "failed"}
    PROVE  LET q == [p EXCEPT !.saves[s].phase = phase]
               c == p.saves[s].cell
           IN  /\ Sound(q) /\ Listed(q) = Listed(p) /\ q.editors = p.editors
               /\ \A d \in Cells : d # c => Aside(p, q, d)
               /\ \A v : Known(p, c, v)
                     => Known(q, c, IF phase = "stored" THEN p.saves[s].value ELSE v)
<1>. DEFINE c == p.saves[s].cell
            k == p.saves[s].editor
            was == p.saves[s]
            r == [was EXCEPT !.phase = phase]
<1>1. p \in Pages /\ s \in Saves /\ was \in Save /\ k \in Existing(p) /\ c \in Cells
  <2>1. p \in Pages /\ s \in Saves /\ k \in Existing(p) /\ c \in Cells
    BY SaveOf
  <2>. QED
    BY <2>1, IsSave
<1>2. /\ r \in Save /\ r.cell = c /\ r.editor = k /\ r.value = was.value /\ r.phase = phase
  BY <1>1 DEF Save, SavePhases
<1>. HIDE DEF r
<1>3. r # Free
  BY <1>2, NotFree
<1>4. PICK q : q = [p EXCEPT !.saves[s].phase = phase]
  OBVIOUS
<1>5. /\ q \in Pages /\ q.shown = p.shown /\ q.editors = p.editors /\ q.active = p.active
      /\ q.saves = [p.saves EXCEPT ![s] = r]
  <2>1. /\ q.shown = p.shown /\ q.editors = p.editors /\ q.active = p.active
        /\ q.saves = [p.saves EXCEPT ![s] = r]
    BY <1>1, <1>4 DEF Pages, r
  <2>2. DOMAIN q = DOMAIN p /\ q = [f \in DOMAIN p |-> q[f]]
    BY <1>4, Zenon
  <2>3. /\ p.shown \in [Cells -> Entries] /\ p.editors \in [Editors -> Editor \cup {Free}]
        /\ p.active \in Seq(Editors) /\ [p.saves EXCEPT ![s] = r] \in [Saves -> Save \cup {Free}]
    BY <1>1, <1>2 DEF Pages
  <2>. QED
    BY <1>1, <2>1, <2>2, <2>3, IsPage
<1>6. q.saves[s] = r /\ \A t \in Saves \ {s} : q.saves[t] = p.saves[t]
  BY <1>1, <1>5 DEF Pages
<1>7. InFlight(q) = InFlight(p)
  BY <1>3, <1>6 DEF InFlight
<1>8. /\ Listed(q) = Listed(p) /\ Existing(q) = Existing(p)
      /\ \A d : EditorsOf(q, d) = EditorsOf(p, d)
  BY <1>5 DEF Listed, Existing, EditorsOf
<1>9. \A t \in InFlight(p) : t \in Saves
  BY DEF InFlight
<1>10. \A t \in InFlight(p) : q.saves[t].cell = p.saves[t].cell
                              /\ q.saves[t].editor = p.saves[t].editor
  BY <1>2, <1>6, <1>9
<1>11. \A d : SavesOf(q, d) = SavesOf(p, d)
  BY <1>7, <1>10 DEF SavesOf
<1>12. Sound(q)
  BY <1>5, <1>7, <1>8, <1>10 DEF Sound
<1>13. ASSUME NEW d \in Cells, d # c PROVE Aside(p, q, d)
  <2>1. \A t \in SavesOf(p, d) : t \in Saves \ {s}
    BY <1>9, <1>13 DEF SavesOf
  <2>. QED
    BY <1>5, <1>6, <1>8, <1>11, <2>1 DEF Aside
<1>14. ASSUME NEW v, Known(p, c, v)
       PROVE  Known(q, c, IF phase = "stored" THEN p.saves[s].value ELSE v)
  <2>. DEFINE w == IF phase = "stored" THEN p.saves[s].value ELSE v
  <2>1. EditorKnown(p, c, v, k) /\ SaveKnown(p, c, v, s) /\ s \in SavesOf(p, c)
    BY <1>14, SaveOf
  <2>2. SavesOf(q, c) = {s} /\ EditorsOf(q, c) = {k}
    BY <1>8, <1>11, <2>1 DEF EditorKnown, SaveKnown
  <2>3. EditorKnown(q, c, w, k)
    BY <1>5, <1>8, <2>1, <2>2 DEF EditorKnown, SaveKnown
  <2>4. SaveKnown(q, c, w, s)
    <3>1. /\ p.shown[c] = was.value /\ p.editors[k].oldState # None
          /\ v = p.editors[k].oldState
      BY <2>1 DEF SaveKnown
    <3>. QED
      BY <1>2, <1>5, <1>6, <2>2, <3>1 DEF SaveKnown
  <2>. HIDE DEF w, c, k
  <2>5. Known(q, c, w)
    BY <2>2, <2>3, <2>4 DEF Known
  <2>. QED
    BY <2>5 DEF w
<1>. QED
  BY <1>4, <1>5, <1>8, <1>12, <1>13, <1>14

-----------------------------------------------------------------------------
(***************************************************************************)
(* Cells that go.                                                          *)
(***************************************************************************)
\* A page with other values shown, another list, and editors that are disposed
\* of or have lost their cell.
LEMMA OtherCells ==
    ASSUME NEW p, Sound(p), NEW q \in Pages, q.saves = p.saves, Injective(q.active),
           \A k \in Existing(p) :
              q.editors[k] \in Editor /\ q.editors[k].cell = p.editors[k].cell,
           \A k \in Editors \ Existing(p) : q.editors[k] = Free,
           \A k \in Listed(q) :
              k \in Existing(p) /\ q.editors[k].attached /\ ~q.editors[k].disposed
    PROVE  /\ Sound(q) /\ Existing(q) = Existing(p)
           /\ \A c : EditorsOf(q, c) = EditorsOf(p, c) /\ SavesOf(q, c) = SavesOf(p, c)
<1>1. \A k \in Existing(p) : k \in Editors /\ q.editors[k] # Free
  BY NotFree DEF Existing
<1>2. Existing(q) = Existing(p) /\ InFlight(q) = InFlight(p)
  BY <1>1 DEF Existing, InFlight
<1>3. \A c : EditorsOf(q, c) = EditorsOf(p, c) /\ SavesOf(q, c) = SavesOf(p, c)
  BY <1>2 DEF EditorsOf, SavesOf
<1>4. Sound(q)
  BY <1>2, <1>3 DEF Sound
<1>. QED
  BY <1>2, <1>3, <1>4

\* The editors of such a page.
LEMMA EditorsAre ==
    ASSUME NEW p, NEW editors, DOMAIN editors = Editors,
           editors = [k \in Editors |-> editors[k]],
           \A k \in Existing(p) : editors[k] \in Editor,
           \A k \in Editors \ Existing(p) : editors[k] = Free
    PROVE  editors \in [Editors -> Editor \cup {Free}]
<1>1. \A k \in Editors : editors[k] \in Editor \cup {Free}
  OBVIOUS
<1>. QED
  BY <1>1

\* The page without the editors of hidden cells.
Hidden(p, gone, rest) ==
    Tidy([p EXCEPT
        !.active = rest,
        !.editors = [k \in Editors |->
            IF k \in gone
            THEN [@[k] EXCEPT !.attached = FALSE,
                              !.disposed = p.editors[k].disposed \/ k \in Listed(p)]
            ELSE @[k]]])

\* onColumnStateChange: cells without an editor in the list are left alone.
LEMMA HideIs ==
    ASSUME NEW p, Sound(p), NEW column \in SUBSET Cells, NEW gone,
           gone = {k \in Existing(p) : p.editors[k].cell \in column},
           NEW rest \in Without(p.active, gone)
    PROVE  LET q == Hidden(p, gone, rest)
           IN  /\ Sound(q) /\ Listed(q) \subseteq Listed(p)
               /\ \A c \in Cells : \A v :
                     Known(p, c, v) /\ (c \in column => ListedFor(p, c) = {}) => Known(q, c, v)
<1>. DEFINE after == [k \in Editors |->
                         IF k \in gone
                         THEN [p.editors[k] EXCEPT
                                 !.attached = FALSE,
                                 !.disposed = p.editors[k].disposed \/ k \in Listed(p)]
                         ELSE p.editors[k]]
<1>1. p \in Pages /\ gone \subseteq Existing(p)
  BY DEF Sound
<1>2. /\ rest \in Seq(Editors) /\ Range(rest) = Listed(p) \ gone /\ Injective(rest)
  <2>1. PICK n \in 0 .. MaxEditors : rest \in [1 .. n -> Editors]
    BY DEF Without
  <2>2. rest \in Seq(Editors) /\ DOMAIN rest = 1 .. n
    BY <2>1
  <2>3. /\ Range(rest) = Range(p.active) \ gone
        /\ \A i, j \in DOMAIN rest : i < j =>
              \E m, l \in DOMAIN p.active :
                 m < l /\ p.active[m] = rest[i] /\ p.active[l] = rest[j]
    BY DEF Without
  <2>4. \A m, l \in DOMAIN p.active : m < l => p.active[m] # p.active[l]
    <3>1. DOMAIN p.active \subseteq Int
      BY <1>1 DEF Pages
    <3>. QED
      BY <3>1 DEF Sound, Injective
  <2>5. \A i, j \in DOMAIN rest : i < j => rest[i] # rest[j]
    BY <2>3, <2>4
  <2>. QED
    BY <2>2, <2>3, <2>5 DEF Injective, Listed
<1>3. ASSUME NEW k \in Existing(p)
      PROVE  /\ k \in Editors /\ after[k] \in Editor /\ after[k].cell = p.editors[k].cell
             /\ k \notin gone => after[k] = p.editors[k]
  <2>1. k \in Editors /\ p.editors[k] \in Editor
    BY <1>1, <1>3, IsEditor
  <2>2. CASE k \notin gone
    BY <2>1, <2>2
  <2>3. CASE k \in gone
    <3>1. after[k] = [p.editors[k] EXCEPT
                         !.attached = FALSE, !.disposed = p.editors[k].disposed \/ k \in Listed(p)]
      BY <2>1, <2>3
    <3>. HIDE DEF after
    <3>. QED
      BY <2>1, <2>3, <3>1 DEF Editor
  <2>. QED
    BY <2>2, <2>3
<1>4. \A k \in Editors \ Existing(p) : after[k] = Free
  BY <1>1 DEF Existing
<1>5. DOMAIN after = Editors /\ after = [k \in Editors |-> after[k]]
  OBVIOUS
<1>. HIDE DEF after
<1>6. PICK r : r = [p EXCEPT !.active = rest, !.editors = after]
  OBVIOUS
<1>7. /\ r \in Pages /\ r.shown = p.shown /\ r.editors = after /\ r.saves = p.saves
      /\ r.active = rest
  <2>1. /\ r.shown = p.shown /\ r.editors = after /\ r.saves = p.saves /\ r.active = rest
        /\ DOMAIN r = DOMAIN p /\ r = [f \in DOMAIN p |-> r[f]]
    BY <1>1, <1>6 DEF Pages
  <2>2. after \in [Editors -> Editor \cup {Free}]
    BY <1>3, <1>4, <1>5, EditorsAre
  <2>3. p.shown \in [Cells -> Entries] /\ p.saves \in [Saves -> Save \cup {Free}]
    BY <1>1 DEF Pages
  <2>. QED
    BY <1>1, <1>2, <2>1, <2>2, <2>3, IsPage
<1>8. /\ Sound(r) /\ Listed(r) = Listed(p) \ gone
      /\ \A c : EditorsOf(r, c) = EditorsOf(p, c) /\ SavesOf(r, c) = SavesOf(p, c)
  <2>1. Listed(r) = Listed(p) \ gone
    BY <1>2, <1>7 DEF Listed
  <2>2. \A k \in Listed(r) : k \in Existing(p) /\ r.editors[k].attached /\ ~r.editors[k].disposed
    BY <1>3, <1>7, <2>1 DEF Sound
  <2>3. \A k \in Existing(p) : r.editors[k] \in Editor /\ r.editors[k].cell = p.editors[k].cell
    BY <1>3, <1>7
  <2>. QED
    BY <1>2, <1>4, <1>7, <2>1, <2>2, <2>3, OtherCells
<1>9. ASSUME NEW c \in Cells, NEW v, Known(p, c, v), c \in column => ListedFor(p, c) = {}
      PROVE  Known(Tidy(r), c, v)
  <2>1. \A k \in EditorsOf(p, c) : k \in Existing(p) /\ k \notin gone
    <3>1. \A k \in EditorsOf(p, c) : k \in ListedFor(p, c) /\ p.editors[k].cell = c
      BY <1>9 DEF Known, EditorKnown, ListedFor, EditorsOf
    <3>. QED
      BY <1>9, <3>1 DEF EditorsOf
  <2>2. Aside(p, r, c)
    BY <1>3, <1>7, <1>8, <2>1 DEF Aside
  <2>. QED
    BY <1>8, <1>9, <2>2, AsideKnown, TidyKnown
<1>10. Sound(Tidy(r)) /\ Listed(Tidy(r)) \subseteq Listed(p)
  BY <1>8, TidySound
<1>. QED
  BY <1>6, <1>9, <1>10 DEF after, Hidden

\* The page is left.
LEMMA LeavingIs ==
    ASSUME NEW p, Sound(p), NEW shown \in [Cells -> Values]
    PROVE  LET q == Tidy([p EXCEPT !.shown = shown, !.active = <<>>,
                                 !.editors = [k \in Editors |->
                                     IF k \in Existing(p)
                                     THEN [@[k] EXCEPT !.attached = FALSE, !.draft = None]
                                     ELSE Free]])
           IN  /\ Sound(q)
               /\ \A c \in Cells : ~Saving(p, c) => Known(q, c, shown[c])
<1>. DEFINE after == [k \in Editors |->
                         IF k \in Existing(p)
                         THEN [p.editors[k] EXCEPT !.attached = FALSE, !.draft = None]
                         ELSE Free]
<1>1. p \in Pages
  BY DEF Sound
<1>2. ASSUME NEW k \in Existing(p)
      PROVE  after[k] \in Editor /\ after[k].cell = p.editors[k].cell /\ ~after[k].attached
  <2>1. k \in Editors /\ p.editors[k] \in Editor
    BY <1>1, <1>2, IsEditor
  <2>2. after[k] = [p.editors[k] EXCEPT !.attached = FALSE, !.draft = None]
    BY <2>1
  <2>. HIDE DEF after
  <2>. QED
    BY <2>1, <2>2 DEF Editor
<1>3. \A k \in Editors \ Existing(p) : after[k] = Free
  OBVIOUS
<1>4. DOMAIN after = Editors /\ after = [k \in Editors |-> after[k]]
  OBVIOUS
<1>. HIDE DEF after
<1>5. PICK r : r = [p EXCEPT !.shown = shown, !.active = <<>>, !.editors = after]
  OBVIOUS
<1>6. /\ r \in Pages /\ r.shown = shown /\ r.editors = after /\ r.saves = p.saves
      /\ r.active = <<>>
  <2>1. /\ r.shown = shown /\ r.editors = after /\ r.saves = p.saves /\ r.active = <<>>
        /\ DOMAIN r = DOMAIN p /\ r = [f \in DOMAIN p |-> r[f]]
    BY <1>1, <1>5 DEF Pages
  <2>2. after \in [Editors -> Editor \cup {Free}]
    BY <1>2, <1>3, <1>4, EditorsAre
  <2>3. shown \in [Cells -> Entries] /\ p.saves \in [Saves -> Save \cup {Free}]
    BY <1>1 DEF Pages, Entries
  <2>4. r.active \in Seq(Editors)
    BY <1>1, <2>1 DEF Pages
  <2>. QED
    BY <1>1, <2>1, <2>2, <2>3, <2>4, IsPage
<1>7. /\ Sound(r) /\ Listed(r) = {}
      /\ \A c : EditorsOf(r, c) = EditorsOf(p, c) /\ SavesOf(r, c) = SavesOf(p, c)
  <2>1. Listed(r) = {} /\ Injective(r.active)
    BY <1>6 DEF Listed, Range, Injective
  <2>2. \A k \in Existing(p) : r.editors[k] \in Editor /\ r.editors[k].cell = p.editors[k].cell
    BY <1>2, <1>6
  <2>. QED
    BY <1>3, <1>6, <2>1, <2>2, OtherCells
<1>8. ASSUME NEW c \in Cells, ~Saving(p, c) PROVE Known(Tidy(r), c, shown[c])
  <2>1. SavesOf(r, c) = {}
    BY <1>7, <1>8 DEF Saving, SavesOf
  <2>2. \A k \in EditorsOf(r, c) : ~r.editors[k].attached
    BY <1>2, <1>6, <1>7 DEF EditorsOf
  <2>. QED
    BY <1>6, <1>7, <2>1, <2>2, TidyEmpties
<1>. QED
  BY <1>5, <1>7, <1>8, TidySound DEF after

\* The grid is loaded again.
LEMMA ResetIs ==
    ASSUME NEW p, Sound(p), Listed(p) = {}, NEW shown \in [Cells -> Values]
    PROVE  LET q == Reset(p, shown)
           IN  /\ Sound(q) /\ Listed(q) = {} /\ q.saves = p.saves
               /\ \A c \in Cells : ~Saving(p, c) => Known(q, c, shown[c])
<1>. DEFINE after == [k \in Editors |->
                         IF k \in Existing(p)
                         THEN [p.editors[k] EXCEPT !.attached = FALSE]
                         ELSE Free]
<1>1. p \in Pages
  BY DEF Sound
<1>2. ASSUME NEW k \in Existing(p)
      PROVE  after[k] \in Editor /\ after[k].cell = p.editors[k].cell /\ ~after[k].attached
  <2>1. k \in Editors /\ p.editors[k] \in Editor
    BY <1>1, <1>2, IsEditor
  <2>2. after[k] = [p.editors[k] EXCEPT !.attached = FALSE]
    BY <2>1
  <2>. HIDE DEF after
  <2>. QED
    BY <2>1, <2>2 DEF Editor
<1>3. \A k \in Editors \ Existing(p) : after[k] = Free
  OBVIOUS
<1>4. DOMAIN after = Editors /\ after = [k \in Editors |-> after[k]]
  OBVIOUS
<1>. HIDE DEF after
<1>5. PICK r : r = [p EXCEPT !.shown = shown, !.editors = after]
  OBVIOUS
<1>6. /\ r \in Pages /\ r.shown = shown /\ r.editors = after /\ r.saves = p.saves
      /\ r.active = p.active
  <2>1. /\ r.shown = shown /\ r.editors = after /\ r.saves = p.saves /\ r.active = p.active
        /\ DOMAIN r = DOMAIN p /\ r = [f \in DOMAIN p |-> r[f]]
    BY <1>1, <1>5 DEF Pages
  <2>2. after \in [Editors -> Editor \cup {Free}]
    BY <1>2, <1>3, <1>4, EditorsAre
  <2>3. shown \in [Cells -> Entries] /\ p.saves \in [Saves -> Save \cup {Free}]
    BY <1>1 DEF Pages, Entries
  <2>4. r.active \in Seq(Editors)
    BY <1>1, <2>1 DEF Pages
  <2>. QED
    BY <1>1, <2>1, <2>2, <2>3, <2>4, IsPage
<1>7. /\ Sound(r) /\ Listed(r) = {}
      /\ \A c : EditorsOf(r, c) = EditorsOf(p, c) /\ SavesOf(r, c) = SavesOf(p, c)
  <2>1. Listed(r) = {} /\ Injective(r.active)
    BY <1>6 DEF Listed, Range, Injective, Sound
  <2>2. \A k \in Existing(p) : r.editors[k] \in Editor /\ r.editors[k].cell = p.editors[k].cell
    BY <1>2, <1>6
  <2>. QED
    BY <1>3, <1>6, <2>1, <2>2, OtherCells
<1>8. ASSUME NEW c \in Cells, ~Saving(p, c) PROVE Known(Tidy(r), c, shown[c])
  <2>1. SavesOf(r, c) = {}
    BY <1>7, <1>8 DEF Saving, SavesOf
  <2>2. \A k \in EditorsOf(r, c) : ~r.editors[k].attached
    BY <1>2, <1>6, <1>7 DEF EditorsOf
  <2>. QED
    BY <1>6, <1>7, <2>1, <2>2, TidyEmpties
<1>9. Reset(p, shown) = Tidy(r)
  BY <1>5 DEF Reset, after
<1>10. Sound(Tidy(r)) /\ Listed(Tidy(r)) = {} /\ Tidy(r).saves = p.saves
  BY <1>6, <1>7, TidySound, TidyIs
<1>. QED
  BY <1>8, <1>9, <1>10

-----------------------------------------------------------------------------
(***************************************************************************)
(* The steps.                                                              *)
(***************************************************************************)
\* What a step of an editor does to a page: cell c is the one it works on.
Works(p, q, c) ==
    /\ Sound(q) /\ Listed(q) \subseteq Listed(p)
    /\ \A d \in Cells : \A v : d # c /\ Known(p, d, v) => Aside(p, q, d)
    /\ \A v : Known(p, c, v) => Known(q, c, v)

LEMMA Working ==
    ASSUME IInv, NEW c, Works(page, page', c), UNCHANGED <<stored, fetch, strayed>>
    PROVE  IInv'
<1>1. Sound(page') /\ page' \in Pages
  BY DEF Works, Sound
<1>2. Listed(page') \subseteq Listed(page)
  BY DEF Works
<1>3. ASSUME NEW d \in Cells \ strayed' PROVE Known(page', d, stored'[d])
  <2>1. Known(page, d, stored[d])
    BY <1>3 DEF IInv
  <2>2. CASE d = c
    BY <2>1, <2>2 DEF Works
  <2>3. CASE d # c
    <3>1. Aside(page, page', d)
      BY <2>1, <2>3, <1>3 DEF Works
    <3>. QED
      BY <2>1, <3>1, AsideKnown DEF IInv
  <2>. QED
    BY <2>2, <2>3
<1>4. TypeOK'
  BY <1>1 DEF IInv, TypeOK
<1>5. fetch'.phase \in {"sent", "served"} => Listed(page') = {}
  BY <1>2 DEF IInv
<1>6. fetch'.phase = "served" => fetch'.answer \in [Cells -> Values]
  BY DEF IInv
<1>. QED
  BY <1>1, <1>3, <1>4, <1>5, <1>6 DEF IInv

\* Steps that leave page and database alone.
LEMMA Waiting ==
    ASSUME IInv, UNCHANGED <<page, stored, strayed>>,
           fetch' \in [phase : {"none", "asking", "sent", "served"}, turns : BOOLEAN,
                       answer : [Cells -> Values \cup {None}]],
           fetch'.phase \in {"sent", "served"} => Listed(page) = {},
           fetch'.phase = "served" => fetch'.answer \in [Cells -> Values]
    PROVE  IInv'
BY DEF IInv, TypeOK

\* An editor is opened.
LEMMA Entering ==
    ASSUME IInv, NEW p, Sound(p), \A c \in Cells \ strayed : Known(p, c, stored[c]),
           NEW c \in Cells, CanEnter(p, c), page' = Enter(p, c), fetch.phase = "none",
           Stray(IF Saving(p, c) THEN {c} ELSE {}), UNCHANGED <<stored, fetch>>
    PROVE  IInv'
<1>1. /\ Sound(page')
      /\ \A d \in Cells : d # c => Aside(p, page', d)
      /\ \A v : Known(p, c, v) /\ ~Saving(p, c) => Known(page', c, v)
  BY EnterIs
<1>2. strayed' \subseteq Cells /\ strayed \subseteq strayed'
  BY DEF Stray, IInv, TypeOK
<1>3. ASSUME NEW d \in Cells \ strayed' PROVE Known(page', d, stored'[d])
  <2>1. Known(p, d, stored[d])
    BY <1>2, <1>3
  <2>2. CASE d = c
    <3>1. ~Saving(p, c)
      BY <1>3, <2>2 DEF Stray
    <3>. QED
      BY <1>1, <2>1, <2>2, <3>1
  <2>3. CASE d # c
    BY <1>1, <1>3, <2>1, <2>3, AsideKnown
  <2>. QED
    BY <2>2, <2>3
<1>4. page' \in Pages
  BY <1>1 DEF Sound
<1>. QED
  BY <1>1, <1>2, <1>3, <1>4 DEF IInv, TypeOK

LEMMA InitInv == Init => IInv
<1>. SUFFICES ASSUME Init PROVE IInv
  OBVIOUS
<1>1. /\ page.shown = stored /\ page.active = <<>>
      /\ page.editors = [k \in Editors |-> Free] /\ page.saves = [s \in Saves |-> Free]
  BY DEF Init
<1>2. page \in Pages
  <2>1. stored \in [Cells -> Entries] /\ <<>> \in Seq(Editors)
    BY DEF Init, Entries
  <2>2. /\ [k \in Editors |-> Free] \in [Editors -> Editor \cup {Free}]
        /\ [s \in Saves |-> Free] \in [Saves -> Save \cup {Free}]
    OBVIOUS
  <2>. QED
    BY <2>1, <2>2 DEF Init, Pages
<1>3. Existing(page) = {} /\ InFlight(page) = {} /\ Listed(page) = {}
  BY <1>1 DEF Existing, InFlight, Listed, Range
<1>4. Sound(page)
  BY <1>1, <1>2, <1>3 DEF Sound, Injective
<1>5. \A c \in Cells : Known(page, c, stored[c])
  BY <1>1, <1>3 DEF Known, EditorsOf, SavesOf
<1>6. fetch \in [phase : {"none", "asking", "sent", "served"}, turns : BOOLEAN,
                 answer : [Cells -> Values \cup {None}]] /\ fetch.phase = "none"
  BY DEF Init, NoFetch
<1>. QED
  BY <1>2, <1>4, <1>5, <1>6 DEF IInv, TypeOK, Init

LEMMA NoFetchIs ==
    /\ NoFetch \in [phase : {"none", "asking", "sent", "served"}, turns : BOOLEAN,
                    answer : [Cells -> Values \cup {None}]]
    /\ NoFetch.phase = "none"
BY DEF NoFetch

LEMMA EditInv == ASSUME IInv, NEW c \in Cells, Edit(c) PROVE IInv'
<1>1. Sound(page) /\ \A d \in Cells \ strayed : Known(page, d, stored[d])
  BY DEF IInv
<1>. QED
  BY <1>1, Entering DEF Edit

LEMMA BlurWorks ==
    ASSUME IInv, NEW k \in Open(page), Blur(k) PROVE Works(page, page', page.editors[k].cell)
<1>1. Sound(page) /\ CanLeave(page, k) /\ page' = Leave(page, k)
  BY DEF IInv, Blur
<1>. QED
  BY <1>1, LeaveIs DEF Works

LEMMA TypeWorks ==
    ASSUME IInv, NEW k \in Open(page), NEW value \in Entries, Type(k, value)
    PROVE  Works(page, page', page.editors[k].cell)
<1>1. Sound(page) /\ page' = [page EXCEPT !.editors[k].draft = value]
  BY DEF IInv, Type
<1>. QED
  BY <1>1, TypingIs DEF Works

LEMMA CancelWorks ==
    ASSUME IInv, NEW k \in Open(page), Cancel(k)
    PROVE  Works(page, page', page.editors[k].cell)
<1>1. Sound(page) /\ page' = Tidy(Dispose(Revert(page, k), k))
  BY DEF IInv, Cancel
<1>. QED
  BY <1>1, CancelIs DEF Works

LEMMA NavigateInv ==
    ASSUME IInv, NEW k \in Open(page), NEW c \in Cells, Navigate(k, c) PROVE IInv'
<1>1. PICK left : left = Leave(page, k)
  OBVIOUS
<1>2. Sound(page) /\ CanLeave(page, k)
  BY DEF IInv, Navigate
<1>3. /\ Sound(left)
      /\ \A d \in Cells : \A v : d # page.editors[k].cell /\ Known(page, d, v) => Aside(page, left, d)
      /\ \A v : Known(page, page.editors[k].cell, v) => Known(left, page.editors[k].cell, v)
  BY <1>1, <1>2, LeaveIs
<1>4. ASSUME NEW d \in Cells \ strayed PROVE Known(left, d, stored[d])
  <2>1. Known(page, d, stored[d])
    BY <1>4 DEF IInv
  <2>2. CASE d = page.editors[k].cell
    BY <1>3, <2>1, <2>2
  <2>3. CASE d # page.editors[k].cell
    BY <1>2, <1>3, <1>4, <2>1, <2>3, AsideKnown
  <2>. QED
    BY <2>2, <2>3
<1>5. /\ fetch.phase = "none" /\ CanEnter(left, c) /\ page' = Enter(left, c)
      /\ Stray(IF Saving(left, c) THEN {c} ELSE {}) /\ UNCHANGED <<stored, fetch>>
  BY <1>1 DEF Navigate
<1>. QED
  BY <1>3, <1>4, <1>5, Entering

\* A fetch: the cells of all editors in the list have strayed.
LEMMA Fetching ==
    ASSUME IInv, page' = RemoveActive(page), Stray(Dropped), UNCHANGED stored,
           fetch' \in [phase : {"sent"}, turns : BOOLEAN, answer : [Cells -> Values \cup {None}]]
    PROVE  IInv'
<1>1. /\ Sound(page') /\ Listed(page') = {}
      /\ \A c \in Cells : \A v : Known(page, c, v) /\ EditorsOf(page, c) = {} => Known(page', c, v)
  BY RemoveActiveIs DEF IInv
<1>2. strayed' \subseteq Cells /\ strayed' = strayed \cup Dropped
  <2>1. Dropped \subseteq Cells
    <3>1. \A k \in Listed(page) : page.editors[k] \in Editor
      BY IsEditor DEF IInv, Sound
    <3>. QED
      BY <3>1 DEF Dropped, Editor
  <2>. QED
    BY <2>1 DEF Stray, IInv, TypeOK
<1>3. ASSUME NEW c \in Cells \ strayed' PROVE Known(page', c, stored'[c])
  <2>1. Known(page, c, stored[c])
    BY <1>2, <1>3 DEF IInv
  <2>2. EditorsOf(page, c) = {}
    BY <1>2, <1>3, <2>1 DEF Known, EditorKnown, EditorsOf, Dropped
  <2>. QED
    BY <1>1, <1>3, <2>1, <2>2
<1>4. fetch'.phase = "sent" /\ fetch' \in [phase : {"none", "asking", "sent", "served"},
          turns : BOOLEAN, answer : [Cells -> Values \cup {None}]]
  OBVIOUS
<1>5. TypeOK'
  BY <1>1, <1>2, <1>4 DEF TypeOK, IInv, Sound
<1>. QED
  BY <1>1, <1>3, <1>4, <1>5 DEF IInv

LEMMA FetchStep ==
    ASSUME IInv, Fetch
    PROVE  /\ fetch.phase = "none" /\ UNCHANGED stored
           /\ \/ HasChanges(page) /\ UNCHANGED <<page, strayed>> /\ fetch'.phase = "asking"
              \/ ~HasChanges(page) /\ page' = RemoveActive(page) /\ fetch'.phase = "sent"
           /\ IInv'
<1>1. PICK turns \in BOOLEAN : fetch.phase = "none" /\ UNCHANGED stored /\ BeforeFetch(turns)
  BY DEF Fetch
<1>2. CASE HasChanges(page)
  <2>1. /\ UNCHANGED <<page, strayed>>
        /\ fetch' = [NoFetch EXCEPT !.phase = "asking", !.turns = turns]
    BY <1>1, <1>2 DEF BeforeFetch
  <2>2. fetch'.phase = "asking" /\ fetch' \in [phase : {"none", "asking", "sent", "served"},
            turns : BOOLEAN, answer : [Cells -> Values \cup {None}]]
    BY <2>1 DEF NoFetch
  <2>3. IInv'
    BY <1>1, <2>1, <2>2, Waiting
  <2>. QED
    BY <1>1, <1>2, <2>1, <2>2, <2>3
<1>3. CASE ~HasChanges(page)
  <2>1. /\ page' = RemoveActive(page) /\ Stray(Dropped)
        /\ fetch' = [NoFetch EXCEPT !.phase = "sent", !.turns = turns]
    BY <1>1, <1>3 DEF BeforeFetch
  <2>2. fetch'.phase = "sent" /\ fetch' \in [phase : {"sent"},
            turns : BOOLEAN, answer : [Cells -> Values \cup {None}]]
    BY <2>1 DEF NoFetch
  <2>3. IInv'
    BY <1>1, <2>1, <2>2, Fetching
  <2>. QED
    BY <1>1, <1>3, <2>1, <2>2, <2>3
<1>. QED
  BY <1>2, <1>3

LEMMA ConfirmInv == ASSUME IInv, Confirm PROVE IInv'
<1>1. fetch' \in [phase : {"sent"}, turns : BOOLEAN, answer : [Cells -> Values \cup {None}]]
  BY DEF IInv, TypeOK, Confirm
<1>. QED
  BY <1>1, Fetching DEF Confirm

LEMMA DeclineInv == ASSUME IInv, Decline PROVE IInv'
BY NoFetchIs, Waiting DEF Decline

LEMMA FetchFailsInv == ASSUME IInv, FetchFails PROVE IInv'
BY NoFetchIs, Waiting DEF FetchFails

LEMMA ServeFetchInv == ASSUME IInv, ServeFetch PROVE IInv'
<1>1. /\ fetch' \in [phase : {"none", "asking", "sent", "served"}, turns : BOOLEAN,
                     answer : [Cells -> Values \cup {None}]]
      /\ fetch'.answer \in [Cells -> Values]
  BY DEF IInv, TypeOK, ServeFetch
<1>2. Listed(page) = {}
  BY DEF IInv, ServeFetch
<1>. QED
  BY <1>1, <1>2, Waiting DEF ServeFetch

LEMMA HideColumnInv == ASSUME IInv, NEW column \in SUBSET Cells, HideColumn(column) PROVE IInv'
<1>1. PICK gone : gone = {k \in Existing(page) : page.editors[k].cell \in column}
  OBVIOUS
<1>2. PICK rest \in Without(page.active, gone) : page' = Hidden(page, gone, rest)
  BY <1>1 DEF HideColumn, Hidden
<1>3. /\ Sound(page') /\ Listed(page') \subseteq Listed(page)
      /\ \A c \in Cells : \A v :
            Known(page, c, v) /\ (c \in column => ListedFor(page, c) = {}) => Known(page', c, v)
  <2>1. Sound(page)
    BY DEF IInv
  <2>. QED
    BY <1>1, <1>2, <2>1, HideIs
<1>4. /\ strayed' = strayed \cup {c \in column : ListedFor(page, c) # {}}
      /\ strayed' \subseteq Cells
      /\ UNCHANGED <<stored, fetch>>
  BY DEF HideColumn, Stray, IInv, TypeOK
<1>5. ASSUME NEW c \in Cells \ strayed' PROVE Known(page', c, stored'[c])
  <2>1. Known(page, c, stored[c]) /\ (c \in column => ListedFor(page, c) = {})
    BY <1>4, <1>5 DEF IInv
  <2>. QED
    BY <1>3, <1>4, <1>5, <2>1
<1>6. TypeOK'
  BY <1>3, <1>4 DEF IInv, TypeOK, Sound
<1>. QED
  BY <1>3, <1>4, <1>5, <1>6 DEF IInv

LEMMA LeavePageInv == ASSUME IInv, LeavePage PROVE IInv'
<1>1. /\ Sound(page')
      /\ \A c \in Cells : ~Saving(page, c) => Known(page', c, stored[c])
  BY LeavingIs DEF IInv, TypeOK, LeavePage
<1>2. /\ fetch' = NoFetch /\ strayed' = {c \in Cells : Saving(page, c)} /\ stored' = stored
  BY DEF LeavePage
<1>3. TypeOK'
  BY <1>1, <1>2, NoFetchIs DEF IInv, TypeOK, Sound
<1>. QED
  BY <1>1, <1>2, <1>3, NoFetchIs DEF IInv

LEMMA FetchSucceedsInv == ASSUME IInv, FetchSucceeds PROVE IInv'
<1>1. PICK new : new = Reset(page, fetch.answer)
  OBVIOUS
<1>2. /\ Sound(new) /\ new.saves = page.saves
      /\ \A c \in Cells : ~Saving(page, c) => Known(new, c, fetch.answer[c])
  BY <1>1, ResetIs DEF IInv, FetchSucceeds
<1>3. /\ strayed' = {c \in Cells : fetch.answer[c] # stored[c] \/ Saving(page, c)}
      /\ fetch' = NoFetch /\ stored' = stored
  BY DEF FetchSucceeds
<1>4. \A c \in Cells \ strayed' : ~Saving(page, c) /\ Known(new, c, stored[c])
  BY <1>2, <1>3
<1>5. Sound(page') /\ \A c \in Cells \ strayed' : Known(page', c, stored[c])
  <2>1. CASE page' = new
    BY <1>2, <1>4, <2>1
  <2>2. CASE \E c \in Cells : CanEnter(new, c) /\ page' = Enter(new, c)
    <3>1. PICK c \in Cells : CanEnter(new, c) /\ page' = Enter(new, c)
      BY <2>2
    <3>2. /\ Sound(page')
          /\ \A d \in Cells : d # c => Aside(new, page', d)
          /\ \A v : Known(new, c, v) /\ ~Saving(new, c) => Known(page', c, v)
      BY <1>2, <3>1, EnterIs
    <3>3. ASSUME NEW d \in Cells \ strayed' PROVE Known(page', d, stored[d])
      <4>1. Known(new, d, stored[d]) /\ ~Saving(new, d)
        BY <1>2, <1>4, <3>3 DEF Saving, InFlight
      <4>2. CASE d = c
        BY <3>2, <4>1, <4>2
      <4>3. CASE d # c
        BY <1>2, <3>2, <4>1, <4>3, AsideKnown
      <4>. QED
        BY <4>2, <4>3
    <3>. QED
      BY <3>2, <3>3
  <2>. QED
    BY <1>1, <2>1, <2>2 DEF FetchSucceeds
<1>6. TypeOK'
  BY <1>3, <1>5, NoFetchIs DEF IInv, TypeOK, Sound
<1>. QED
  BY <1>3, <1>5, <1>6, NoFetchIs DEF IInv

LEMMA ServeSaveStep ==
    ASSUME IInv, NEW s \in InFlight(page), ServeSave(s)
    PROVE  IInv' /\ page'.editors = page.editors
<1>0. Sound(page) /\ page.saves[s].phase = "sent" /\ UNCHANGED <<fetch, strayed>>
      /\ page.saves[s].value \in Values /\ page.saves[s].cell \in Cells
  BY SaveOf DEF IInv, ServeSave
<1>1. PICK phase \in {"stored", "invalid", "failed"} :
          /\ page' = [page EXCEPT !.saves[s].phase = phase]
          /\ stored' = IF phase = "stored"
                       THEN [stored EXCEPT ![page.saves[s].cell] = page.saves[s].value]
                       ELSE stored
  BY DEF ServeSave
<1>2. /\ Sound(page') /\ Listed(page') = Listed(page) /\ page'.editors = page.editors
      /\ \A d \in Cells : d # page.saves[s].cell => Aside(page, page', d)
      /\ \A v : Known(page, page.saves[s].cell, v)
            => Known(page', page.saves[s].cell,
                     IF phase = "stored" THEN page.saves[s].value ELSE v)
  BY <1>0, <1>1, ServeIs
<1>3. /\ stored' \in [Cells -> Values]
      /\ \A d \in Cells : d # page.saves[s].cell => stored'[d] = stored[d]
      /\ stored'[page.saves[s].cell] =
            IF phase = "stored" THEN page.saves[s].value ELSE stored[page.saves[s].cell]
  BY <1>0, <1>1 DEF IInv, TypeOK
<1>4. ASSUME NEW d \in Cells \ strayed' PROVE Known(page', d, stored'[d])
  <2>1. Known(page, d, stored[d])
    BY <1>0, <1>4 DEF IInv
  <2>2. CASE d = page.saves[s].cell
    BY <1>2, <1>3, <2>1, <2>2
  <2>3. CASE d # page.saves[s].cell
    BY <1>0, <1>2, <1>3, <1>4, <2>1, <2>3, AsideKnown
  <2>. QED
    BY <2>2, <2>3
<1>5. TypeOK'
  BY <1>0, <1>2, <1>3 DEF IInv, TypeOK, Sound
<1>. QED
  BY <1>0, <1>2, <1>4, <1>5 DEF IInv

LEMMA SucceedsWorks ==
    ASSUME IInv, NEW s \in InFlight(page), SaveSucceeds(s)
    PROVE  Works(page, page', page.saves[s].cell)
<1>. DEFINE c == page.saves[s].cell
            k == page.saves[s].editor
<1>1. Sound(page) /\ page.saves[s].phase = "stored"
  BY DEF IInv, SaveSucceeds
<1>2. PICK value \in IF page.editors[k].attached THEN {page.shown[c], page.saves[s].value}
                     ELSE {page.shown[c]} :
          page' = Tidy(Answered(Dispose([page EXCEPT !.shown[c] = value,
                     !.editors[k].oldState = None, !.editors[k].formState = None], k), s))
  BY DEF SaveSucceeds
<1>. QED
  BY <1>1, <1>2, SucceedIs DEF Works

LEMMA InvalidWorks ==
    ASSUME IInv, NEW s \in InFlight(page), SaveInvalid(s)
    PROVE  Works(page, page', page.saves[s].cell)
<1>1. Sound(page) /\ page.saves[s].phase = "invalid" /\ page' = Tidy(Answered(page, s))
  BY DEF IInv, SaveInvalid
<1>. QED
  BY <1>1, RefusedIs DEF Works

LEMMA FailsIs ==
    ASSUME IInv, NEW s \in InFlight(page), SaveFails(s)
    PROVE  /\ Sound(page') /\ Listed(page') \subseteq Listed(page)
           /\ \A d \in Cells : \A v : d # page.saves[s].cell /\ Known(page, d, v) => Aside(page, page', d)
           /\ \A v : Known(page, page.saves[s].cell, v) /\ page.saves[s].phase # "stored"
                        => Known(page', page.saves[s].cell, v)
<1>1. Sound(page)
  BY DEF IInv
<1>2. page' = Tidy(Answered(Dispose(Revert(page, page.saves[s].editor), page.saves[s].editor), s))
  BY DEF SaveFails
<1>. QED
  BY <1>1, <1>2, FailIs

LEMMA AnswerSaveWorks ==
    ASSUME IInv, NEW s \in InFlight(page), AnswerSave(s)
    PROVE  Works(page, page', page.saves[s].cell)
<1>1. CASE SaveSucceeds(s)
  BY <1>1, SucceedsWorks
<1>2. CASE SaveInvalid(s)
  BY <1>2, InvalidWorks
<1>3. CASE page.saves[s].phase = "failed" /\ SaveFails(s)
  BY <1>3, FailsIs DEF Works
<1>. QED
  BY <1>1, <1>2, <1>3 DEF AnswerSave

LEMMA LoseAnswerInv == ASSUME IInv, NEW s \in InFlight(page), LoseAnswer(s) PROVE IInv'
<1>1. /\ SaveFails(s) /\ strayed' = strayed \cup {page.saves[s].cell}
      /\ UNCHANGED <<stored, fetch>>
  BY DEF LoseAnswer, Stray
<1>2. /\ Sound(page') /\ Listed(page') \subseteq Listed(page)
      /\ \A d \in Cells : \A v : d # page.saves[s].cell /\ Known(page, d, v) => Aside(page, page', d)
  BY <1>1, FailsIs
<1>3. ASSUME NEW d \in Cells \ strayed' PROVE Known(page', d, stored'[d])
  <2>1. Known(page, d, stored[d]) /\ d # page.saves[s].cell
    BY <1>1, <1>3 DEF IInv
  <2>. QED
    BY <1>1, <1>2, <1>3, <2>1, AsideKnown DEF IInv
<1>4. page.saves[s].cell \in Cells
  BY SaveOf DEF IInv
<1>5. TypeOK'
  BY <1>1, <1>2, <1>4 DEF IInv, TypeOK, Sound
<1>. QED
  BY <1>1, <1>2, <1>3, <1>5 DEF IInv

LEMMA NextInv == IInv /\ [Next]_vars => IInv'
<1>. SUFFICES ASSUME IInv, [Next]_vars PROVE IInv'
  OBVIOUS
<1>1. ASSUME NEW c \in Cells, Edit(c) PROVE IInv'
  BY <1>1, EditInv
<1>2. ASSUME NEW k \in Open(page), Blur(k) PROVE IInv'
  <2>1. Works(page, page', page.editors[k].cell)
    BY <1>2, BlurWorks
  <2>. QED
    BY <1>2, <2>1, Working DEF Blur
<1>3. ASSUME NEW k \in Open(page), Cancel(k) PROVE IInv'
  <2>1. Works(page, page', page.editors[k].cell)
    BY <1>3, CancelWorks
  <2>. QED
    BY <1>3, <2>1, Working DEF Cancel
<1>4. ASSUME NEW k \in Open(page), NEW value \in Entries, Type(k, value) PROVE IInv'
  <2>1. Works(page, page', page.editors[k].cell)
    BY <1>4, TypeWorks
  <2>. QED
    BY <1>4, <2>1, Working DEF Type
<1>5. ASSUME NEW k \in Open(page), NEW c \in Cells, Navigate(k, c) PROVE IInv'
  BY <1>5, NavigateInv
<1>6. ASSUME Fetch PROVE IInv'
  BY <1>6, FetchStep
<1>7. ASSUME Confirm \/ Decline PROVE IInv'
  BY <1>7, ConfirmInv, DeclineInv
<1>8. ASSUME NEW column \in SUBSET Cells, HideColumn(column) PROVE IInv'
  BY <1>8, HideColumnInv
<1>9. ASSUME LeaveUnasked \/ AgreeToLeave PROVE IInv'
  BY <1>9, LeavePageInv DEF LeaveUnasked, AgreeToLeave
<1>10. ASSUME ServeFetch \/ FetchSucceeds \/ FetchFails PROVE IInv'
  BY <1>10, ServeFetchInv, FetchSucceedsInv, FetchFailsInv
<1>11. ASSUME NEW s \in InFlight(page), ServeSave(s) PROVE IInv'
  BY <1>11, ServeSaveStep
<1>12. ASSUME NEW s \in InFlight(page), AnswerSave(s) PROVE IInv'
  <2>1. Works(page, page', page.saves[s].cell)
    BY <1>12, AnswerSaveWorks
  <2>. QED
    BY <1>12, <2>1, Working DEF AnswerSave
<1>13. ASSUME NEW s \in InFlight(page), LoseAnswer(s) PROVE IInv'
  BY <1>13, LoseAnswerInv
<1>14. ASSUME UNCHANGED vars PROVE IInv'
  <2>1. /\ page' = page /\ stored' = stored /\ fetch' = fetch /\ strayed' = strayed
    BY <1>14 DEF vars
  <2>. QED
    BY <2>1 DEF IInv, TypeOK
<1>. QED
  BY <1>1, <1>2, <1>3, <1>4, <1>5, <1>6, <1>7, <1>8, <1>9, <1>10, <1>11, <1>12, <1>13, <1>14
  DEF Next

\* The invariant holds in every state that is reached.
LEMMA Invariance == Spec => []IInv
BY InitInv, NextInv, PTL DEF Spec

-----------------------------------------------------------------------------
(***************************************************************************)
(* The theorems.                                                           *)
(***************************************************************************)
\* The page, the database, the fetch and the saves in flight keep their types
\* through every step of the editors, the plugin and the server.
THEOREM TypeCorrect == Spec => []TypeOK
<1>1. IInv => TypeOK
  BY DEF IInv
<1>. QED
  BY <1>1, Invariance, PTL

\* What the plugin knows of a cell that has not strayed.
LEMMA Unchanged ==
    ASSUME IInv, NEW c \in Cells \ strayed, ~HasChanges(page)
    PROVE  /\ page.shown[c] = stored[c] /\ ~Saving(page, c)
           /\ \A k \in Open(page) :
                 page.editors[k].cell = c => page.editors[k].draft = page.shown[c]
<1>1. Known(page, c, stored[c])
  BY DEF IInv
<1>2. ASSUME NEW k \in EditorsOf(page, c)
      PROVE  /\ EditorKnown(page, c, stored[c], k) /\ page.editors[k].oldState = None
             /\ page.editors[k].draft \in {None, page.shown[c]}
  <2>1. EditorKnown(page, c, stored[c], k) /\ k \in Listed(page) /\ page.editors[k].cell = c
    BY <1>1 DEF Known, EditorKnown, EditorsOf
  <2>. QED
    BY <2>1 DEF HasChanges, Changed
<1>3. SavesOf(page, c) = {}
  <2>. SUFFICES ASSUME NEW s \in SavesOf(page, c) PROVE FALSE
    OBVIOUS
  <2>1. SaveKnown(page, c, stored[c], s) /\ page.saves[s].editor \in EditorsOf(page, c)
    BY <1>1 DEF Known, IInv, Sound, SavesOf
  <2>. QED
    BY <1>2, <2>1 DEF SaveKnown
<1>4. page.shown[c] = stored[c]
  BY <1>1, <1>2, <1>3 DEF Known, EditorKnown
<1>5. ~Saving(page, c)
  BY <1>3 DEF Saving, SavesOf
<1>6. \A k \in Open(page) :
         page.editors[k].cell = c => page.editors[k].draft = page.shown[c]
  BY <1>2 DEF Open, EditorsOf
<1>. QED
  BY <1>4, <1>5, <1>6

\* Whatever saves succeed, fail or are refused (onSaveSuccess, onSaveError,
\* onValidationError), a value that is shown and not stored is held by an editor
\* of the plugin's list that counts as changed, or is being saved.
THEOREM UnsavedCorrect == Spec => []UnsavedIsKnown
<1>1. ASSUME IInv PROVE UnsavedIsKnown
  <2>. SUFFICES ASSUME NEW c \in Cells \ strayed, page.shown[c] # stored[c], ~Saving(page, c)
                PROVE  \E k \in ListedFor(page, c) : Changed(page, k)
    BY DEF UnsavedIsKnown
  <2>1. Known(page, c, stored[c]) /\ SavesOf(page, c) = {}
    BY <1>1 DEF IInv, Saving, SavesOf
  <2>2. PICK k \in EditorsOf(page, c) : EditorKnown(page, c, stored[c], k)
    BY <2>1 DEF Known
  <2>3. k \in ListedFor(page, c) /\ page.editors[k].oldState # None
    BY <2>1, <2>2 DEF EditorKnown, ListedFor, EditorsOf
  <2>. QED
    BY <2>3 DEF Changed
<1>. QED
  BY <1>1, Invariance, PTL

\* The grid is loaded again (beforeGridCollectionFetch) and the page is left
\* (beforePageChange, beforeRedirectTo, onWindowUnload) without a question only
\* when every value shown is the one stored, no save is in flight and nothing else
\* is entered.
THEOREM AskedCorrect == Spec => AskedBeforeLoss
<1>. DEFINE Lost == (fetch.phase = "none" /\ fetch'.phase = "sent") \/ LeaveUnasked
            Safe == \A c \in Cells \ strayed :
                      /\ page.shown[c] = stored[c]
                      /\ ~Saving(page, c)
                      /\ \A k \in Open(page) : page.editors[k].cell = c
                                              => page.editors[k].draft = page.shown[c]
<1>1. IInv /\ [Next]_vars => [Lost => Safe]_vars
  <2>. SUFFICES ASSUME IInv, Next, Lost PROVE Safe
    BY DEF vars
  <2>1. ~HasChanges(page)
    <3>1. CASE LeaveUnasked
      BY <3>1 DEF LeaveUnasked
    <3>2. CASE fetch.phase = "none" /\ fetch'.phase = "sent"
      <4>1. fetch' # fetch
        BY <3>2
      <4>2. fetch' # NoFetch
        BY <3>2, NoFetchIs
      <4>3. Fetch
        BY <3>2, <4>1, <4>2
        DEF Next, Edit, Blur, Cancel, Type, Navigate, Confirm, Decline, HideColumn,
            LeaveUnasked, AgreeToLeave, LeavePage, ServeFetch, FetchSucceeds, FetchFails,
            ServeSave, AnswerSave, LoseAnswer
      <4>. QED
        BY <3>2, <4>3, FetchStep
    <3>. QED
      BY <3>1, <3>2
  <2>. QED
    BY <2>1, Unchanged
<1>2. AskedBeforeLoss <=> [][Lost => Safe]_vars
  BY DEF AskedBeforeLoss
<1>. QED
  BY <1>1, Invariance, PTL DEF Spec, AskedBeforeLoss

\* An editor of a cell that has not strayed, with a valid value that is not the
\* one shown.
Entered(k) ==
    /\ k \in Open(page) /\ page.editors[k].cell \notin strayed
    /\ page.editors[k].draft \in Values \ {page.shown[page.editors[k].cell]}

LEMMA EnteredIs ==
    ASSUME IInv, NEW k, Entered(k)
    PROVE  LET c == page.editors[k].cell
           IN  /\ c \in Cells \ strayed /\ Known(page, c, stored[c]) /\ HasChanges(page)
               /\ k \in Listed(page) /\ EditorsOf(page, c) = {k} /\ SavesOf(page, c) = {}
<1>. DEFINE c == page.editors[k].cell
<1>1. k \in EditorsOf(page, c) /\ k \in Existing(page) /\ page.editors[k].draft # None
  BY DEF Entered, Open, EditorsOf
<1>2. c \in Cells \ strayed
  <2>1. page.editors[k] \in Editor
    BY <1>1, IsEditor DEF IInv, Sound
  <2>. QED
    BY <2>1 DEF Entered, Editor
<1>3. Known(page, c, stored[c])
  BY <1>2 DEF IInv
<1>4. EditorKnown(page, c, stored[c], k)
  BY <1>1, <1>3 DEF Known
<1>5. k \in Listed(page) /\ EditorsOf(page, c) = {k} /\ SavesOf(page, c) = {}
  BY <1>1, <1>4 DEF EditorKnown
<1>6. HasChanges(page)
  BY <1>1, <1>5 DEF Entered, HasChanges, Changed
<1>. QED
  BY <1>2, <1>3, <1>5, <1>6

\* A step that works on another cell leaves the editor open.
LEMMA WorksOpen ==
    ASSUME IInv, NEW k, Entered(k), NEW c, c # page.editors[k].cell,
           \A d \in Cells : \A v : d # c /\ Known(page, d, v) => Aside(page, page', d)
    PROVE  k \in Open(page')
<1>1. page.editors[k].cell \in Cells
      /\ Known(page, page.editors[k].cell, stored[page.editors[k].cell])
  BY EnteredIs
<1>2. Aside(page, page', page.editors[k].cell)
  BY <1>1
<1>. QED
  BY <1>2, StaysOpen DEF Entered

\* What Leave does to the value that was entered.
LEMMA NavigateSends ==
    ASSUME IInv, NEW k, Entered(k), NEW j \in Open(page), NEW c \in Cells, Navigate(j, c)
    PROVE  k \in Open(page') \/ Sent(page.editors[k].cell, page.editors[k].draft)
<1>1. PICK left : left = Leave(page, j)
  OBVIOUS
<1>2. /\ Sound(page) /\ CanLeave(page, j) /\ CanEnter(left, c) /\ page' = Enter(left, c)
      /\ c # page.editors[j].cell
  BY <1>1 DEF IInv, Navigate
<1>3. /\ Sound(left)
      /\ \A d \in Cells : \A v : d # page.editors[j].cell /\ Known(page, d, v) => Aside(page, left, d)
      /\ page.editors[j].draft \in Values \ {page.shown[page.editors[j].cell]} =>
            \E s \in SavesOf(left, page.editors[j].cell) :
               /\ left.saves[s].value = page.editors[j].draft
               /\ left.shown[page.editors[j].cell] = page.editors[j].draft
  BY <1>1, <1>2, LeaveIs
<1>4. /\ \A d \in Cells : d # c => Aside(left, page', d)
      /\ \A i \in Open(left) : i \in Open(page')
  BY <1>2, <1>3, EnterIs
<1>5. /\ page.editors[k].cell \in Cells /\ EditorsOf(page, page.editors[k].cell) = {k}
      /\ Known(page, page.editors[k].cell, stored[page.editors[k].cell])
  BY EnteredIs
<1>6. CASE j = k
  <2>1. PICK s \in SavesOf(left, page.editors[k].cell) :
           /\ left.saves[s].value = page.editors[k].draft
           /\ left.shown[page.editors[k].cell] = page.editors[k].draft
    BY <1>3, <1>6 DEF Entered
  <2>2. Aside(left, page', page.editors[k].cell)
    BY <1>2, <1>4, <1>5, <1>6
  <2>3. /\ s \in SavesOf(page', page.editors[k].cell) /\ page'.saves[s] = left.saves[s]
        /\ page'.shown[page.editors[k].cell] = page.editors[k].draft
    BY <2>1, <2>2 DEF Aside
  <2>. QED
    BY <2>1, <2>3 DEF Sent, SavesOf
<1>7. CASE j # k
  <2>1. page.editors[j].cell # page.editors[k].cell
    BY <1>5, <1>7 DEF EditorsOf, Open
  <2>2. Aside(page, left, page.editors[k].cell)
    BY <1>3, <1>5, <2>1
  <2>3. k \in Open(left)
    BY <2>2, StaysOpen DEF Entered
  <2>. QED
    BY <1>4, <2>3
<1>. QED
  BY <1>6, <1>7

\* A valid value that was entered does not go with its view: losing the focus
\* (blur), going to another cell and every answer of the server leave the editor
\* open or the value sent and shown, unless the user cancels it or agrees to lose it.
THEOREM EntriesCorrect == Spec => EntriesAreSent
<1>. DEFINE Stays(k) ==
              LET e == page.editors[k]
              IN  /\ e.cell \notin strayed
                  /\ e.draft \in Values \ {page.shown[e.cell]}
                  /\ k \notin Open(page)'
                  => Sent(e.cell, e.draft) \/ Cancel(k) \/ Confirm \/ AgreeToLeave
<1>1. ASSUME IInv, Next, NEW k \in Open(page) PROVE Stays(k)
  <2>. SUFFICES ASSUME Entered(k), ~(Cancel(k) \/ Confirm \/ AgreeToLeave)
                PROVE  k \in Open(page') \/ Sent(page.editors[k].cell, page.editors[k].draft)
    BY DEF Entered
  <2>. DEFINE c == page.editors[k].cell
  <2>1. /\ c \in Cells \ strayed /\ HasChanges(page) /\ Sound(page)
        /\ k \in Listed(page) /\ EditorsOf(page, c) = {k} /\ SavesOf(page, c) = {}
    BY <1>1, EnteredIs DEF IInv
  <2>2. \A j \in Open(page) : j # k => page.editors[j].cell # c
    BY <2>1 DEF EditorsOf, Open
  <2>3. \A s \in InFlight(page) : page.saves[s].cell # c
    BY <2>1 DEF SavesOf
  <2>4. ASSUME UNCHANGED page PROVE k \in Open(page')
    BY <1>1, <2>4
  <2>5. ASSUME NEW d, Works(page, page', d), d # c PROVE k \in Open(page')
    BY <1>1, <2>5, WorksOpen DEF Works
  <2>6. ASSUME NEW d \in Cells, Edit(d) PROVE FALSE
    BY <1>1, <2>6 DEF Edit
  <2>7. ASSUME NEW j \in Open(page), Blur(j)
        PROVE  k \in Open(page') \/ Sent(c, page.editors[k].draft)
    <3>1. CASE j = k
      <4>1. CanLeave(page, k) /\ page' = Leave(page, k)
        BY <2>7, <3>1 DEF Blur
      <4>2. \E s \in SavesOf(page', c) : /\ page'.saves[s].value = page.editors[k].draft
                                          /\ page'.shown[c] = page.editors[k].draft
        BY <2>1, <4>1, LeaveIs DEF Entered
      <4>. QED
        BY <4>2 DEF Sent, SavesOf
    <3>2. CASE j # k
      BY <1>1, <2>2, <2>5, <2>7, <3>2, BlurWorks
    <3>. QED
      BY <3>1, <3>2
  <2>8. ASSUME NEW j \in Open(page), Cancel(j) PROVE k \in Open(page')
    <3>1. j # k
      BY <2>8
    <3>. QED
      BY <1>1, <2>2, <2>5, <2>8, <3>1, CancelWorks
  <2>9. ASSUME NEW j \in Open(page), NEW value \in Entries, Type(j, value) PROVE k \in Open(page')
    <3>1. CASE j = k
      BY <1>1, <2>1, <2>9, <3>1, TypingIs DEF Type
    <3>2. CASE j # k
      BY <1>1, <2>2, <2>5, <2>9, <3>2, TypeWorks
    <3>. QED
      BY <3>1, <3>2
  <2>10. ASSUME NEW j \in Open(page), NEW d \in Cells, Navigate(j, d)
         PROVE  k \in Open(page') \/ Sent(c, page.editors[k].draft)
    BY <1>1, <2>10, NavigateSends
  <2>11. ASSUME Fetch PROVE k \in Open(page')
    BY <1>1, <2>1, <2>4, <2>11, FetchStep
  <2>12. ASSUME Decline \/ ServeFetch \/ FetchFails PROVE k \in Open(page')
    BY <2>4, <2>12 DEF Decline, ServeFetch, FetchFails
  <2>13. ASSUME NEW column \in SUBSET Cells, HideColumn(column) PROVE FALSE
    BY <1>1, <2>13 DEF HideColumn
  <2>14. ~LeaveUnasked
    BY <2>1 DEF LeaveUnasked
  <2>15. ~FetchSucceeds
    BY <1>1, <2>1 DEF FetchSucceeds, IInv
  <2>16. ASSUME NEW s \in InFlight(page), ServeSave(s) PROVE k \in Open(page')
    BY <1>1, <2>16, ServeSaveStep DEF Open, Existing
  <2>17. ASSUME NEW s \in InFlight(page), AnswerSave(s) PROVE k \in Open(page')
    BY <1>1, <2>3, <2>5, <2>17, AnswerSaveWorks
  <2>18. ASSUME NEW s \in InFlight(page), LoseAnswer(s) PROVE k \in Open(page')
    <3>1. \A d \in Cells : \A v : d # page.saves[s].cell /\ Known(page, d, v) => Aside(page, page', d)
      BY <1>1, <2>18, FailsIs DEF LoseAnswer
    <3>. QED
      BY <1>1, <2>3, <3>1, WorksOpen
  <2>. HIDE DEF c
  <2>. QED
    BY <1>1, <2>6, <2>7, <2>8, <2>9, <2>10, <2>11, <2>12, <2>13, <2>14, <2>15, <2>16, <2>17, <2>18
    DEF Next, c
<1>2. IInv /\ [Next]_vars => [\A k \in Open(page) : Stays(k)]_vars
  BY <1>1 DEF vars
<1>3. EntriesAreSent <=> [][\A k \in Open(page) : Stays(k)]_vars
  BY DEF EntriesAreSent
<1>. QED
  BY <1>2, <1>3, Invariance, PTL DEF Spec

=============================================================================
