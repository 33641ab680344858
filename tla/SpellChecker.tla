---------------------------- MODULE SpellChecker ----------------------------
(***************************************************************************)
(* The spelling dialog of the HTML editor (spellChecker.js, wordWindow.js, *)
(* controlWindow.js).  The dialog goes through the misspelled words of one *)
(* text; each is ignored or replaced, alone or with all later words that   *)
(* are equal, and undo takes back the last answer.  The text is changed    *)
(* with every answer, at the index that is kept for each word.             *)
(*                                                                         *)
(* A word and the text are sequences of letters.                           *)
(***************************************************************************)
EXTENDS Integers, FiniteSets, Sequences

CONSTANTS
    OriginalSpellings, \* the misspelled words in the order of the text
    Replacements       \* what the user may put in their place

Letters == {"a", "b", "c"}
Gap == <<"_">>         \* what stands between two of them

ASSUME SpellAssumption ==
    /\ OriginalSpellings \in Seq(Seq(Letters) \ {<<>>})
    /\ OriginalSpellings # <<>>
    /\ Replacements \subseteq Seq(Letters) \ {<<>>}

VARIABLES
    win,          \* wordWin: the text, and per word its index and its value
    wordFlags,
    currentWord,  \* currentWordIndex
    undoEnabled   \* the button

spellVars == <<win, wordFlags, currentWord, undoEnabled>>

----------------------------------------------------------------------------

WordNo == DOMAIN OriginalSpellings
LastWord == Len(OriginalSpellings)

\* The flags R, I, RA, IA, ~RA and ~IA of the code.
WordFlag == {"none", "replaced", "ignored", "replaceAll", "ignoreAll",
             "fromReplaceAll", "fromIgnoreAll"}
Followers == {"fromReplaceAll", "fromIgnoreAll"}

SpellTypeOK ==
    /\ win.text \in Seq(Letters \cup {"_"})
    /\ win.indexes \in [WordNo -> Nat]
    /\ win.value \in [WordNo -> Seq(Letters)]
    /\ wordFlags \in [WordNo -> WordFlag]
    /\ currentWord \in 1 .. LastWord + 1
    /\ undoEnabled \in BOOLEAN

\* The text in which these are the words.
TextOf(words) ==
    LET upTo[i \in 0 .. LastWord] == IF i = 0 THEN Gap ELSE upTo[i - 1] \o words[i] \o Gap
    IN upTo[LastWord]

\* writeBody looks each word up behind the one before.
Located ==
    [i \in WordNo |->
        LET lengths[j \in 0 .. LastWord] ==
                IF j = 0 THEN 1 ELSE lengths[j - 1] + Len(OriginalSpellings[j]) + 1
        IN lengths[i - 1]]

SpellInit ==
    /\ win = [text |-> TextOf(OriginalSpellings), indexes |-> Located, value |-> OriginalSpellings]
    /\ wordFlags = [i \in WordNo |-> "none"]
    /\ currentWord = 1
    /\ undoEnabled = FALSE

AdjustIndexes(indexes, i, diff) ==
    [j \in WordNo |-> IF j > i THEN indexes[j] + diff ELSE indexes[j]]

\* wordWindow.setText
SetText(w, i, new) ==
    LET pos == w.indexes[i]
        old == w.value[i]
    IN [text |-> SubSeq(w.text, 1, pos) \o new \o SubSeq(w.text, pos + Len(old) + 1, Len(w.text)),
        indexes |-> AdjustIndexes(w.indexes, i, Len(new) - Len(old)),
        value |-> [w.value EXCEPT ![i] = new]]

\* setText for the words of S, one after the other, each with its new value.
SetTexts(S, new) ==
    LET upTo[i \in 0 .. LastWord] ==
            IF i = 0 THEN win
            ELSE IF i \in S THEN SetText(upTo[i - 1], i, new[i]) ELSE upTo[i - 1]
    IN upTo[LastWord]

\* _spellcheck goes on to the next word without a flag, and turns the undo
\* button on behind the first; after the last word the dialog is finished.
Spellcheck(from, enabled) ==
    LET todo == {i \in WordNo : i >= from /\ wordFlags'[i] = "none"}
        stop == IF todo = {} THEN LastWord + 1 ELSE CHOOSE i \in todo : \A j \in todo : i <= j
    IN /\ currentWord' = stop
       /\ undoEnabled' = (enabled \/ \E i \in from .. stop : i \in 2 .. LastWord)

Checking == currentWord <= LastWord

\* Words behind i that have the same value and no flag.
Later(i) == {j \in WordNo : j > i /\ win.value[j] = win.value[i] /\ wordFlags[j] = "none"}

----------------------------------------------------------------------------

\* Neither of them touches the text.
IgnoreWith(others, flag, otherFlag) ==
    /\ Checking
    /\ wordFlags' = [j \in WordNo |-> IF j = currentWord THEN flag
                                      ELSE IF j \in others THEN otherFlag ELSE wordFlags[j]]
    /\ UNCHANGED win
    /\ Spellcheck(currentWord + 1, undoEnabled)

IgnoreWord == IgnoreWith({}, "ignored", "none")
IgnoreAllWords == IgnoreWith(Later(currentWord), "ignoreAll", "fromIgnoreAll")

ReplaceWith(new, others, flag, otherFlag) ==
    /\ Checking
    /\ win' = SetTexts({currentWord} \cup others, [j \in WordNo |-> new])
    /\ wordFlags' = [j \in WordNo |-> IF j = currentWord THEN flag
                                      ELSE IF j \in others THEN otherFlag ELSE wordFlags[j]]
    /\ Spellcheck(currentWord + 1, undoEnabled)

ReplaceWord(new) == ReplaceWith(new, {}, "replaced", "none")
ReplaceAllWords(new) == ReplaceWith(new, Later(currentWord), "replaceAll", "fromReplaceAll")

\* Mutant: undo of "replace all" leaves the other words as they are.
MutSameBehind(i) == {i}

\* The words from i on that were spelled like it.
SameBehind(i) == {j \in WordNo : j >= i /\ OriginalSpellings[j] = OriginalSpellings[i]}

\* undo: back to the last word that was answered itself.  The loop has no other
\* end than to find one.
SpellUndo ==
    LET answered == {j \in 1 .. currentWord - 1 : wordFlags[j] \notin Followers}
        i == CHOOSE j \in answered : \A k \in answered : k <= j
        reverted == CASE wordFlags[i] = "replaceAll" -> SameBehind(i)
                      [] wordFlags[i] = "replaced" -> {i}
                      [] OTHER -> {}
        cleared == {i} \cup (IF wordFlags[i] \in {"replaceAll", "ignoreAll"} THEN SameBehind(i) ELSE {})
    IN
    /\ Checking
    /\ undoEnabled
    /\ currentWord > 1
    /\ win' = SetTexts(reverted, OriginalSpellings)
    /\ wordFlags' = [j \in WordNo |-> IF j \in cleared THEN "none" ELSE wordFlags[j]]
    /\ Spellcheck(i, i > 1)

SpellNext ==
    \/ IgnoreWord \/ IgnoreAllWords \/ SpellUndo
    \/ \E new \in Replacements : ReplaceWord(new) \/ ReplaceAllWords(new)

SpellSpec == SpellInit /\ [][SpellNext]_spellVars

----------------------------------------------------------------------------
(* Properties *)

\* The text is the original one with the values of the words, each at its place
\* (setText, _adjustIndexes).  A word that was not replaced has its original
\* spelling, and a word that follows another was spelled like it and has the
\* same value, whatever was answered and taken back in between (replaceAll, undo).
TextMatchesFlags ==
    /\ win.text = TextOf(win.value)
    /\ \A i \in WordNo :
        /\ wordFlags[i] \in {"none", "ignored", "ignoreAll", "fromIgnoreAll"}
           => win.value[i] = OriginalSpellings[i]
        /\ wordFlags[i] \in Followers =>
            \E j \in 1 .. i - 1 :
                /\ wordFlags[j] = (IF wordFlags[i] = "fromReplaceAll" THEN "replaceAll" ELSE "ignoreAll")
                /\ OriginalSpellings[j] = OriginalSpellings[i]
                /\ win.value[j] = win.value[i]
============================================================================
