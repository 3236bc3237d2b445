\* Bytes of tokens and URLs: "a", " ", "&", "=", "%", "+", "~", ";"; an honest
\* provider that echoes the state, and one that writes it unescaped.
CONSTANTS
    Chars = {97, 32, 38, 61, 37, 43, 126, 59}
    MaxLen = 2
    Behaviours = {"verbatim", "unescaped"}
SPECIFICATION Spec
INVARIANTS TypeOK RoundTrip
