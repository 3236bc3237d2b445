--------------------------- MODULE MCWarningHeader ---------------------------
(* Warning values for checking WarningHeader with TLC. *)
EXTENDS WarningHeader

\* "199" (the misc code) and "299".
MCCodes == {<<49, 57, 57>>, <<50, 57, 57>>}

\* "a" and "a\"" (an agent may hold a quote).
MCAgents == {<<97>>, <<97, 34>>}

\* Every text of up to three bytes from "a", space, '"' and '\'.
MCTexts == SeqOf({97, SP, DQ, BS}, 3)

\* No date, and the date "d".
MCDates == {<<>>, <<100>>}

\* Replacement bytes: space, '"', '\', newline and "a".
MCChars == {SP, DQ, BS, NL, 97}
=============================================================================
