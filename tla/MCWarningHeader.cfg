\* Two codes, two agents, every short text, with and without a date, and
\* every one-byte corruption of those values.
CONSTANTS
    Codes <- MCCodes
    Agents <- MCAgents
    Texts <- MCTexts
    Dates <- MCDates
    Chars <- MCChars
SPECIFICATION Spec
\* Each behaviour is one pass of the printing loop, which ends.
CHECK_DEADLOCK FALSE
INVARIANT WarningPrinted
