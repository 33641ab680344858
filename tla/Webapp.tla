------------------------------- MODULE Webapp --------------------------------
(***************************************************************************)
(* Parts of the web application that share nothing with each other: the    *)
(* event mailings on the server, and the table commands, the undo levels   *)
(* and the spelling dialog of the HTML editor in the browser.  They are    *)
(* checked together, one of them in each behaviour.                        *)
(***************************************************************************)
EXTENDS EventCache, FCKTable, FCKUndo, SpellChecker

VARIABLE webPart \* the part that runs

webVars == <<webPart, eventVars, tableVars, undoVars, spellVars>>

WebTypeOK ==
    /\ webPart \in {"event", "table", "undo", "spelling"}
    /\ EventTypeOK
    /\ TableTypeOK
    /\ UndoTypeOK
    /\ SpellTypeOK

WebInit ==
    /\ webPart \in {"event", "table", "undo", "spelling"}
    /\ EventInit
    /\ IF webPart = "table" THEN TableInit ELSE NoTable
    /\ UndoInit
    /\ SpellInit

WebNext ==
    /\ UNCHANGED webPart
    /\ \/ webPart = "event" /\ EventNext /\ UNCHANGED <<tableVars, undoVars, spellVars>>
       \/ webPart = "table" /\ TableNext /\ UNCHANGED <<eventVars, undoVars, spellVars>>
       \/ webPart = "undo" /\ UndoNext /\ UNCHANGED <<eventVars, tableVars, spellVars>>
       \/ webPart = "spelling" /\ SpellNext /\ UNCHANGED <<eventVars, tableVars, undoVars>>

WebSpec == WebInit /\ [][WebNext]_webVars
=============================================================================
