------------------------------ MODULE StateCodec ------------------------------
(***************************************************************************)
(* The state token of the external OAuth handler at byte level             *)
(* (src/unnamed/part_000 380-409, 481-492): defaultState.Generate builds    *)
(* url.Values{csrf, then}, encodeState form-encodes it (url.Values.Encode, *)
(* url.QueryEscape) and applies padded base64url (base64.URLEncoding); the *)
(* callback's decodeState reverses both layers (DecodeString, ParseQuery,  *)
(* QueryUnescape) and defaultState.Check reads values.Get("csrf") and      *)
(* values.Get("then").  A string is a sequence of byte values.             *)
(*                                                                         *)
(* A round trip is Generate, the provider carrying the state back, and the *)
(* callback decoding it.  ExternalOAuth abstracts a wire state to the      *)
(* values it decodes to; RoundTrip is what justifies that abstraction.     *)
(***************************************************************************)
EXTENDS Naturals, Sequences, SequencesExt

CONSTANTS
    Chars,       \* byte values a csrf token or a "then" URL is made of
    MaxLen,      \* bound on the length of a csrf token and of a "then" URL
    Behaviours   \* how the provider carries the state parameter back

ASSUME /\ Chars \subseteq 0..127 /\ MaxLen \in Nat
       /\ Behaviours \subseteq {"verbatim", "unescaped"}

\* The bytes "&", "=", ";", "%", "+", " " and the padding "=".
Amp == 38
Eq == 61
Semi == 59
Pct == 37
Plus == 43
Space == 32
Pad == 61
CsrfKey == <<99, 115, 114, 102>>   \* "csrf"
ThenKey == <<116, 104, 101, 110>>  \* "then"

Strings == SeqOf(Chars, MaxLen)
Fail    == [ok |-> FALSE, out |-> <<>>]
Ok(s)   == [ok |-> TRUE, out |-> s]
\* A successful result with c in front; a failure stays a failure.
Prepend(c, r) == IF r.ok THEN Ok(c \o r.out) ELSE r

\* strings.Cut: the part before the first sep and the part after it.
Cut(s, sep) ==
    LET i == SelectInSeq(s, LAMBDA c : c = sep)
    IN IF i = 0 THEN <<s, <<>>>> ELSE <<SubSeq(s, 1, i - 1), SubSeq(s, i + 1, Len(s))>>

-----------------------------------------------------------------------------
(* net/url, query-component mode.                                          *)
HexDigit(n) == IF n < 10 THEN 48 + n ELSE 55 + n          \* upper case, as Go writes it
IsHex(c)    == c \in (48..57) \cup (65..70) \cup (97..102)
HexVal(c)   == CASE c \in 48..57 -> c - 48 [] c \in 65..70 -> c - 55 [] c \in 97..102 -> c - 87
Unreserved(c) == c \in (48..57) \cup (65..90) \cup (97..122) \cup {45, 46, 95, 126}

\* A plausible bug: url.PathEscape instead of QueryEscape ("&", "=", "+" kept).
EscapeBytePath(c) ==
    IF Unreserved(c) \/ c \in {36, 38, 43, 44, 58, 61, 64} THEN <<c>>
    ELSE <<Pct, HexDigit(c \div 16), HexDigit(c % 16)>>

\* shouldEscape(c, encodeQueryComponent), then space becomes "+".
EscapeByte(c) ==
    IF Unreserved(c) THEN <<c>>
    ELSE IF c = Space THEN <<Plus>>
    ELSE <<Pct, HexDigit(c \div 16), HexDigit(c % 16)>>

QueryEscape(s) == FlattenSeq([i \in DOMAIN s |-> EscapeByte(s[i])])

\* unescape(s, encodeQueryComponent): "%" needs two hex digits, "+" is a space.
RECURSIVE QueryUnescape(_)
QueryUnescape(s) ==
    IF s = <<>> THEN Ok(<<>>)
    ELSE IF Head(s) = Pct
         THEN IF Len(s) < 3 \/ ~IsHex(s[2]) \/ ~IsHex(s[3]) THEN Fail
              ELSE Prepend(<<16 * HexVal(s[2]) + HexVal(s[3])>>,
                           QueryUnescape(SubSeq(s, 4, Len(s))))
         ELSE Prepend(<<IF Head(s) = Plus THEN Space ELSE Head(s)>>, QueryUnescape(Tail(s)))

\* url.Values{csrf, then}.Encode(): keys sorted, "k=v" pairs joined by "&".
FormEncode(token, url) ==
    CsrfKey \o <<Eq>> \o QueryEscape(token) \o <<Amp>> \o ThenKey \o <<Eq>> \o QueryEscape(url)

\* parseQuery: every "&"-separated segment; one with ";" or a bad escape sets
\* the error (and is skipped), an empty one is skipped; out is the list of pairs.
RECURSIVE ParseQuery(_)
ParseQuery(q) ==
    IF q = <<>> THEN Ok(<<>>)
    ELSE LET seg  == Cut(q, Amp)[1]
             rest == ParseQuery(Cut(q, Amp)[2])
             k    == QueryUnescape(Cut(seg, Eq)[1])
             v    == QueryUnescape(Cut(seg, Eq)[2])
         IN IF seg = <<>> THEN rest
            ELSE IF Contains(seg, Semi) \/ ~k.ok \/ ~v.ok THEN Fail
            ELSE Prepend(<<[key |-> k.out, value |-> v.out]>>, rest)

\* url.Values.Get: the first value of the key, "" if there is none.
Get(pairs, key) ==
    LET i == SelectInSeq(pairs, LAMBDA p : p.key = key)
    IN IF i = 0 THEN <<>> ELSE pairs[i].value

-----------------------------------------------------------------------------
(* encoding/base64, URLEncoding (alphabet A-Z a-z 0-9 - _, "=" padding).   *)
UrlSafe == (65..90) \cup (97..122) \cup (48..57) \cup {45, 95}

\* A plausible bug: StdEncoding's alphabet ("+" and "/" for 62 and 63).
B64CharStd(x) ==
    CASE x < 26 -> 65 + x [] x \in 26..51 -> 71 + x [] x \in 52..61 -> x - 4
      [] x = 62 -> 43 [] x = 63 -> 47

B64Char(x) ==
    CASE x < 26 -> 65 + x [] x \in 26..51 -> 71 + x [] x \in 52..61 -> x - 4
      [] x = 62 -> 45 [] x = 63 -> 95

IsB64(c)  == \E x \in 0..63 : B64Char(x) = c
B64Val(c) == IF IsB64(c) THEN CHOOSE x \in 0..63 : B64Char(x) = c ELSE 0

\* Encoding.Encode: each 3 bytes become 4 characters; 1 or 2 left-over
\* bytes become 2 or 3 characters and "==" or "=".
RECURSIVE EncodeToString(_)
EncodeToString(src) ==
    IF src = <<>> THEN <<>>
    ELSE LET n == 65536 * src[1] + (IF Len(src) >= 2 THEN 256 * src[2] ELSE 0)
                                 + (IF Len(src) >= 3 THEN src[3] ELSE 0)
             q == [i \in 1..4 |-> B64Char((n \div 64 ^ (4 - i)) % 64)]
         IN CASE Len(src) >= 3 -> q \o EncodeToString(SubSeq(src, 4, Len(src)))
              [] Len(src) = 2  -> SubSeq(q, 1, 3) \o <<Pad>>
              [] Len(src) = 1  -> SubSeq(q, 1, 2) \o <<Pad, Pad>>

\* Encoding.DecodeString (decodeQuantum): quanta of 4 characters; padding
\* only in the last quantum, at position 3 ("==") or 4 ("="); a short
\* quantum is an error because padding is required; the unused bits of a
\* padded quantum are ignored (the encoding is not Strict).
RECURSIVE DecodeString(_)
DecodeString(s) ==
    IF s = <<>> THEN Ok(<<>>)
    ELSE LET n == 262144 * B64Val(s[1]) + 4096 * B64Val(s[2])
                  + 64 * B64Val(s[3]) + B64Val(s[4])
             b == <<n \div 65536, (n \div 256) % 256, n % 256>>
             last == Len(s) = 4
         IN IF Len(s) < 4 \/ ~IsB64(s[1]) \/ ~IsB64(s[2]) THEN Fail
            ELSE IF s[3] = Pad THEN IF s[4] = Pad /\ last THEN Ok(SubSeq(b, 1, 1)) ELSE Fail
            ELSE IF ~IsB64(s[3]) THEN Fail
            ELSE IF s[4] = Pad THEN IF last THEN Ok(SubSeq(b, 1, 2)) ELSE Fail
            ELSE IF ~IsB64(s[4]) THEN Fail
            ELSE Prepend(b, DecodeString(SubSeq(s, 5, Len(s))))

encodeState(token, url) == EncodeToString(FormEncode(token, url))

decodeState(state) ==
    LET b == DecodeString(state) IN IF b.ok THEN ParseQuery(b.out) ELSE Fail

-----------------------------------------------------------------------------
(***************************************************************************)
(* One round trip at a time: Generate encodes a state, the provider hands  *)
(* it back in the callback URL, the callback decodes it.                   *)
(*   "verbatim":      the provider echoes the parameter unchanged;         *)
(*   "unescaped":     it writes the state into the callback URL without    *)
(*                    escaping it, so the server's query parsing           *)
(*                    unescapes it ("+" becomes " ", "%XX" a byte).        *)
(***************************************************************************)
Carry(b, w) ==
    CASE b = "verbatim" -> w
      [] b = "unescaped" -> LET u == QueryUnescape(w) IN IF u.ok THEN u.out ELSE <<Pct>>

VARIABLES csrf, then, wire, received, decoded, phase

vars == <<csrf, then, wire, received, decoded, phase>>

TypeOK ==
    /\ csrf \in Strings /\ then \in Strings
    /\ wire \in Seq(UrlSafe \cup {Pad}) /\ received \in Seq(0..127)
    /\ decoded.ok \in BOOLEAN
    /\ phase \in {"idle", "sent", "returned", "checked"}

Init ==
    /\ csrf = <<>> /\ then = <<>> /\ wire = <<>> /\ received = <<>>
    /\ decoded = Fail
    /\ phase = "idle"

\* defaultState.Generate: then = req.URL.String() must be non-empty; the
\* csrf collaborator supplies the token.
Generate ==
    /\ phase = "idle"
    /\ \E c \in Strings, t \in Strings \ {<<>>} :
         /\ csrf' = c /\ then' = t
         /\ wire' = encodeState(c, t)
    /\ phase' = "sent"
    /\ UNCHANGED <<received, decoded>>

ProviderReturns ==
    /\ phase = "sent"
    /\ \E b \in Behaviours : received' = Carry(b, wire)
    /\ phase' = "returned"
    /\ UNCHANGED <<csrf, then, wire, decoded>>

\* decodeState at the top of defaultState.Check.
Callback ==
    /\ phase = "returned"
    /\ decoded' = decodeState(received)
    /\ phase' = "checked"
    /\ UNCHANGED <<csrf, then, wire, received>>

\* The next login starts a new round trip.
NextRoundTrip ==
    /\ phase = "checked"
    /\ csrf' = <<>> /\ then' = <<>> /\ wire' = <<>> /\ received' = <<>>
    /\ decoded' = Fail
    /\ phase' = "idle"

Next == Generate \/ ProviderReturns \/ Callback \/ NextRoundTrip

Spec == Init /\ [][Next]_vars

-----------------------------------------------------------------------------
\* Round trip: the callback decodes the state to exactly the csrf token and
\* "then" URL that Generate put in (values.Get of each), whatever bytes they
\* contain, so Check compares the cookie with the token that was minted.
RoundTrip ==
    phase = "checked" =>
        /\ decoded.ok
        /\ Get(decoded.out, CsrfKey) = csrf
        /\ Get(decoded.out, ThenKey) = then

====
