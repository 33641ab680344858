------------------------------- MODULE FCKUndo -------------------------------
(***************************************************************************)
(* The undo levels of the HTML editor (fckundo.js, with the keystrokes of  *)
(* fck.js), in Gecko.  A level is saved before the document is changed: by *)
(* each command, by the first key after an undo, and after every MaxTypes  *)
(* keys; the document itself is saved when the newest level is left.       *)
(*                                                                         *)
(* A document is named by the number of the edit that made it.  SavedData  *)
(* is a JavaScript array: a function on numbers from 0, to which an index  *)
(* below 0 adds a property that does not count for its length.             *)
(***************************************************************************)
EXTENDS Integers, FiniteSets

CONSTANTS
    MaxUndoLevels, \* FCKConfig.MaxUndoLevels
    MaxTypes,      \* keys typed between two levels
    MaxEdits,      \* bound: changes of the document
    MaxIdle,       \* bound: how far CurrentIndex falls
    Carets         \* places of the selection

ASSUME UndoAssumption ==
    /\ MaxUndoLevels \in Nat \ {0}
    /\ MaxTypes \in Nat \ {0}
    /\ {MaxEdits, MaxIdle} \subseteq Nat
    /\ Carets # {}

Nothing == -1

VARIABLES
    doc,          \* the document
    caret,        \* the selection
    edits,        \* changes so far
    SavedData,    \* the levels
    CurrentIndex,
    TypesCount,
    Changed,
    Typing,
    idle,         \* history: CurrentIndex fell below the first level
    undone        \* history: the document the last step, an undo, took away

undoVars == <<doc, caret, edits, SavedData, CurrentIndex, TypesCount, Changed, Typing,
              idle, undone>>

----------------------------------------------------------------------------

Document == 0 .. MaxEdits
Level == [html : Document, bookmark : Carets]

Length(array) == Cardinality({i \in DOMAIN array : i >= 0})

UndoTypeOK ==
    /\ {doc, edits} \subseteq Document
    /\ caret \in Carets
    /\ \A i \in DOMAIN SavedData : SavedData[i] \in Level
    /\ DOMAIN SavedData \subseteq -MaxIdle .. MaxUndoLevels - 1
    /\ CurrentIndex \in -MaxIdle .. MaxUndoLevels - 1
    /\ TypesCount \in 0 .. MaxTypes
    /\ {Changed, Typing, idle} \subseteq BOOLEAN
    /\ undone \in Document \cup {Nothing}

\* OnAfterSetHTML saves the first document.
UndoInit ==
    /\ doc = 0
    /\ caret = CHOOSE c \in Carets : TRUE
    /\ edits = 0
    /\ SavedData = [i \in {0} |-> [html |-> 0, bookmark |-> caret]]
    /\ CurrentIndex = 0
    /\ TypesCount = 0
    /\ Changed = FALSE
    /\ Typing = FALSE
    /\ idle = FALSE
    /\ undone = Nothing

\* Array.slice (0, end): a negative end counts from the end of the array.
Slice(array, end) ==
    [i \in DOMAIN array \cap 0 .. (IF end >= 0 THEN end ELSE Length(array) + end) - 1 |-> array[i]]

\* Mutant: the levels above the current one stay when a new one is saved.
MutShrunk == SavedData

\* "Shrink the array to the current level."
Shrunk == Slice(SavedData, CurrentIndex + 1)

\* Mutant: off by one.
MutFull == CurrentIndex >= MaxUndoLevels

\* "If we reach the Maximum number of undo levels, ..."
Full == CurrentIndex + 1 >= MaxUndoLevels

\* SaveUndoStep: the levels and the index after it.
AfterSave ==
    LET now == [html |-> doc, bookmark |-> caret]
        same == CurrentIndex > 0 /\ Shrunk[CurrentIndex] = now
        first == CurrentIndex = 0 /\ 0 \in DOMAIN Shrunk /\ Shrunk[0].html = doc
        index == IF Full THEN CurrentIndex ELSE CurrentIndex + 1
        shifted == IF Full THEN [i \in 0 .. Length(Shrunk) - 2 |-> Shrunk[i + 1]] ELSE Shrunk
    IN IF same THEN [array |-> Shrunk, index |-> CurrentIndex]
       ELSE IF first THEN [array |-> [Shrunk EXCEPT ![0] = now], index |-> 0]
       ELSE [array |-> [i \in DOMAIN shifted \cup {index} |-> IF i = index THEN now ELSE shifted[i]],
             index |-> index]

SaveUndoStep ==
    /\ SavedData' = AfterSave.array
    /\ CurrentIndex' = AfterSave.index

ChangedBySave == Changed \/ Length(SavedData) > 0

Edit ==
    /\ edits < MaxEdits
    /\ edits' = edits + 1
    /\ doc' = edits + 1

----------------------------------------------------------------------------

MoveCaret ==
    /\ caret' \in Carets \ {caret}
    /\ UNCHANGED <<doc, edits, SavedData, CurrentIndex, TypesCount, Changed, Typing, idle, undone>>

\* A command saves the document, and then may change it.
ExecuteCommand(changes) ==
    /\ SaveUndoStep
    /\ Changed' = ChangedBySave
    /\ IF changes THEN Edit ELSE UNCHANGED <<doc, edits>>
    /\ undone' = Nothing
    /\ UNCHANGED <<caret, TypesCount, Typing, idle>>

\* _KeyDownUndo, and the key itself, which need not change anything.
KeyDown(changes) ==
    LET many == TypesCount + 1 > MaxTypes IN
    /\ IF ~Typing \/ many THEN SaveUndoStep ELSE UNCHANGED <<SavedData, CurrentIndex>>
    /\ TypesCount' = IF many THEN 0 ELSE TypesCount + 1
    /\ Typing' = TRUE
    /\ Changed' = TRUE
    /\ IF changes THEN Edit ELSE UNCHANGED <<doc, edits>>
    /\ undone' = Nothing
    /\ UNCHANGED <<caret, idle>>

CheckUndoState == Changed \/ CurrentIndex > 0
CheckRedoState == CurrentIndex < Length(SavedData) - 1

\* _ApplyUndoLevel: without such a level nothing happens.
ApplyUndoLevel(array, level, changed) ==
    IF level \in DOMAIN array
    THEN /\ doc' = array[level].html
         /\ caret' = array[level].bookmark
         /\ TypesCount' = 0
         /\ Changed' = FALSE
         /\ Typing' = FALSE
    ELSE /\ Changed' = changed
         /\ UNCHANGED <<doc, caret, TypesCount, Typing>>

\* Mutant: off by one.
MutAtNewest == CurrentIndex = Length(SavedData)

AtNewest == CurrentIndex = Length(SavedData) - 1

\* At the newest level the document is saved for a redo.
Undo ==
    LET array == IF AtNewest THEN AfterSave.array ELSE SavedData
        index == IF AtNewest THEN AfterSave.index ELSE CurrentIndex
    IN
    /\ CheckUndoState
    /\ index > -MaxIdle
    /\ SavedData' = array
    /\ CurrentIndex' = index - 1
    /\ ApplyUndoLevel(array, index - 1, IF AtNewest THEN ChangedBySave ELSE Changed)
    /\ idle' = (idle \/ index - 1 < 0)
    /\ undone' = doc
    /\ UNCHANGED edits

Redo ==
    /\ CheckRedoState
    /\ CurrentIndex' = CurrentIndex + 1
    /\ ApplyUndoLevel(SavedData, CurrentIndex + 1, Changed)
    /\ undone' = Nothing
    /\ UNCHANGED <<edits, SavedData, idle>>

UndoNext ==
    \/ MoveCaret \/ Undo \/ Redo
    \/ \E changes \in BOOLEAN : ExecuteCommand(changes) \/ KeyDown(changes)

UndoSpec == UndoInit /\ [][UndoNext]_undoVars

----------------------------------------------------------------------------
(* Properties *)

\* A document that is in no level yet is on top of all of them, where undo saves
\* it; below there is always the level undo goes to.  Once undo was taken with
\* nothing to undo this is over.
UnsavedOnTopOnly ==
    ~idle =>
        /\ CurrentIndex \in 0 .. Length(SavedData) - 1
        /\ \/ SavedData[CurrentIndex].html = doc
           \/ CurrentIndex = Length(SavedData) - 1 /\ Changed

\* A redo gives back the document that the undo before it took away (Undo, Redo).
RedoGivesBack == [][Redo /\ undone # Nothing /\ ~idle => doc' = undone]_undoVars
============================================================================
