---------------------------- MODULE WarningHeader ----------------------------
(***************************************************************************)
(* The Warning headers a challenge response prints into its body           *)
(* (src/pkg/oauth/handlers/default_auth_handler.go 40-72 and 126-134):     *)
(* each value is matched against warningRegex, and the quoted text of a    *)
(* value whose code is WarningHeaderMiscCode ("199") is printed.  A string *)
(* is a sequence of byte values.  UnionAuth abstracts this to a set of     *)
(* values that are printed; this module justifies that abstraction.       *)
(*                                                                         *)
(* A behaviour is one Warning value a challenge handler put on the         *)
(* response and the loop that prints it.  The values are those a handler   *)
(* writes (warn-code SP warn-agent SP quoted-string [SP quoted date]) and  *)
(* every value one byte away from one of them (a byte replaced or          *)
(* dropped), so malformed values are as much part of the input as          *)
(* well-formed ones.                                                       *)
(***************************************************************************)
EXTENDS Naturals, Sequences, SequencesExt

CONSTANTS
    Codes,    \* three-byte warn-codes a handler uses
    Agents,   \* warn-agents (no space)
    Texts,    \* texts a handler quotes into the value
    Dates,    \* warn-dates; <<>> stands for a value without one
    Chars     \* bytes a corrupted value may carry instead

SP == 32
DQ == 34
BS == 92
NL == 10

\* WarningHeaderMiscCode, compared with group warningHeaderCodeIndex.
WarningHeaderMiscCode == <<49, 57, 57>>

IsDigit(c) == c \in 48..57

-----------------------------------------------------------------------------
(* What a challenge handler writes: the text as an RFC 2616 quoted-string, *)
(* with '"' and '\' escaped by '\'.                                         *)
Escape(t) == FlattenSeq([i \in DOMAIN t |-> IF t[i] \in {DQ, BS} THEN <<BS, t[i]>> ELSE <<t[i]>>])
Quoted(s) == <<DQ>> \o s \o <<DQ>>

Build(c, a, t, d) ==
    c \o <<SP>> \o a \o <<SP>> \o Quoted(Escape(t))
      \o (IF d = <<>> THEN <<>> ELSE <<SP>> \o Quoted(d))

Built == {Build(c, a, t, d) : c \in Codes, a \in Agents, t \in Texts, d \in Dates}

\* w with the byte at i replaced by x, and w with the byte at i dropped.
Corruptions(w) ==
    {[w EXCEPT ![i] = x] : i \in DOMAIN w, x \in Chars}
      \cup {SubSeq(w, 1, i - 1) \o SubSeq(w, i + 1, Len(w)) : i \in DOMAIN w}

Values == Built \cup UNION {Corruptions(w) : w \in Built}

-----------------------------------------------------------------------------
\* warningRegex, as RE2 matches it:
\*     ^([0-9]{3}) ([^ ]+) "((?:[^"\\]|\\.)*)"(?: "([^"]+)")?$
\* The agent cannot hold a space, so it ends at the first space after the
\* code; the quoted-string ends at the first '"' not consumed by a '\'
\* pair ('.' matches any byte but a newline).

\* A plausible bug: the text group written as "([^"]*)", ignoring escapes.
CloseQuoteNoEscapes(w, i) ==
    LET j == SelectInSeq(SubSeq(w, i, Len(w)), LAMBDA c : c = DQ)
    IN IF j = 0 THEN 0 ELSE i + j - 1

\* The index of the '"' closing a quoted-string whose content starts at i; 0 if none.
RECURSIVE CloseQuote(_, _)
CloseQuote(w, i) ==
    IF i > Len(w) THEN 0
    ELSE CASE w[i] = DQ -> i
           [] w[i] = BS -> IF i < Len(w) /\ w[i + 1] # NL THEN CloseQuote(w, i + 2) ELSE 0
           [] OTHER     -> CloseQuote(w, i + 1)

\* (?: "([^"]+)")?$ : nothing, or a space and a quoted date of at least one
\* byte.
DateRest(r) ==
    \/ r = <<>>
    \/ /\ Len(r) >= 4 /\ r[1] = SP /\ r[2] = DQ /\ r[Len(r)] = DQ
       /\ \A i \in 3..Len(r) - 1 : r[i] # DQ

\* warningRegex.FindStringSubmatch: whether it matched, group 1 and group 3.
FindStringSubmatch(w) ==
    LET k == 4 + SelectInSeq(SubSeq(w, 5, Len(w)), LAMBDA c : c = SP)
        e == CloseQuote(w, k + 2)
    IN IF /\ Len(w) >= 8 /\ \A i \in 1..3 : IsDigit(w[i])
          /\ w[4] = SP /\ k > 5 /\ k + 1 <= Len(w) /\ w[k + 1] = DQ
          /\ e > 0 /\ DateRest(SubSeq(w, e + 1, Len(w)))
       THEN [ok |-> TRUE, code |-> SubSeq(w, 1, 3), text |-> SubSeq(w, k + 2, e - 1)]
       ELSE [ok |-> FALSE, code |-> <<>>, text |-> <<>>]

\* The body of the loop over the Warning values: Fprintln of group 3 when
\* the value matched and group 1 is the misc code.
PrintWarning(w) ==
    LET m == FindStringSubmatch(w)
    IN IF m.ok /\ m.code = WarningHeaderMiscCode THEN <<m.text>> ELSE <<>>

-----------------------------------------------------------------------------
VARIABLES value, body, printed

vars == <<value, body, printed>>

Init ==
    /\ value \in Values
    /\ body = <<>>
    /\ printed = FALSE

\* The "Print Misc Warning headers" loop for this value.
PrintWarnings ==
    /\ ~printed
    /\ body' = body \o PrintWarning(value)
    /\ printed' = TRUE
    /\ UNCHANGED value

Next == PrintWarnings

Spec == Init /\ [][Next]_vars

-----------------------------------------------------------------------------
(***************************************************************************)
(* Reference: warningRegex read as a grammar (the shape of RFC 2616       *)
(* section 14.46) rather than as a left-to-right match.  A quoted-string   *)
(* content is a run of bytes other than '"' and '\' and of '\' pairs (not  *)
(* before a newline); a date is at least one byte without '"'.  The texts  *)
(* a value carries are those of every way to split it into code, agent,    *)
(* quoted text and optional quoted date.                                   *)
(***************************************************************************)
RECURSIVE IsQuotedContent(_)
IsQuotedContent(s) ==
    \/ s = <<>>
    \/ s[1] \notin {DQ, BS} /\ IsQuotedContent(Tail(s))
    \/ Len(s) >= 2 /\ s[1] = BS /\ s[2] # NL /\ IsQuotedContent(SubSeq(s, 3, Len(s)))

NoneOf(s, c) == \A i \in DOMAIN s : s[i] # c

\* The warn-texts of the misc-code values w spells.
MiscTexts(w) ==
    { SubSeq(w, a + 2, b - 1) :
        <<a, b>> \in { <<a, b>> \in (6..Len(w)) \X (6..Len(w)) :
            /\ SubSeq(w, 1, 4) = WarningHeaderMiscCode \o <<SP>>
            /\ NoneOf(SubSeq(w, 5, a - 1), SP)
            /\ w[a] = SP /\ a + 2 <= b /\ w[a + 1] = DQ /\ w[b] = DQ
            /\ IsQuotedContent(SubSeq(w, a + 2, b - 1))
            /\ LET r == SubSeq(w, b + 1, Len(w))
               IN \/ r = <<>>
                  \/ /\ Len(r) >= 4 /\ r[1] = SP /\ r[2] = DQ /\ r[Len(r)] = DQ
                     /\ NoneOf(SubSeq(r, 3, Len(r) - 1), DQ) } }

(* The challenge response prints a Warning value's text exactly when the   *)
(* value is a well-formed warning with the misc code 199, and then prints  *)
(* the text between its quotes, not a cut-off piece of it nor the date:    *)
(* the grammar gives such a value exactly one text (warningRegex cannot    *)
(* pick between two readings), escaped quotes inside the text do not end   *)
(* it, and other codes or malformed values print nothing.                  *)
WarningPrinted ==
    printed =>
        /\ Cardinality(MiscTexts(value)) <= 1
        /\ body = SetToSeq(MiscTexts(value))
=============================================================================
