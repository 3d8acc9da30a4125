----------------------------- MODULE Conversions -----------------------------
(***************************************************************************)
(* The conversions of text (src/papago.c): papago_url_encode,              *)
(* papago_url_decode, form_body_parser, collapse_slashes and the search of *)
(* papago_mime_type for an extension.  A C string is a sequence of codes   *)
(* 1 .. 255.  Text is typed one character at a time, so that the           *)
(* conversions are checked on every text over Alphabet up to MaxText.      *)
(***************************************************************************)
EXTENDS Integers, SequencesExt, FiniteSetsExt

CONSTANTS
    Alphabet,            \* the codes texts are made of
    MaxText              \* bound: the longest text

ASSUME ConversionsAssumption ==
    /\ Alphabet \subseteq 1 .. 255
    /\ 120 \notin Alphabet /\ 88 \notin Alphabet     \* see SscanfHex
    /\ MaxText \in Nat

Percent == 37
Plus == 43
Minus == 45
Space == 32
Ampersand == 38
Equals == 61
Slash == 47
Dot == 46

VARIABLE text

TextInit == text = <<>>

TypeChar(c) == Len(text) < MaxText /\ text' = Append(text, c)

TextDone == Len(text) = MaxText /\ UNCHANGED text

TextNext == TextDone \/ \E c \in Alphabet : TypeChar(c)

TextSpec == TextInit /\ [][TextNext]_text

-----------------------------------------------------------------------------
(* papago_url_encode and papago_url_decode                                 *)

IsAlnum(c) == c \in (48 .. 57) \cup (65 .. 90) \cup (97 .. 122)

\* "%02X" writes digits in upper case.
HexDigit(n) == IF n < 10 THEN 48 + n ELSE 55 + n

\* Mutant of EncodeChar: a plus sign is left as it is.
EncodeCharPlus(c) ==
    IF IsAlnum(c) \/ c \in {Minus, 95, Dot, 126, Plus} THEN <<c>>
    ELSE IF c = Space THEN <<Plus>>
    ELSE <<Percent, HexDigit(c \div 16), HexDigit(c % 16)>>

EncodeChar(c) ==
    IF IsAlnum(c) \/ c \in {Minus, 95, Dot, 126} THEN <<c>>
    ELSE IF c = Space THEN <<Plus>>
    ELSE <<Percent, HexDigit(c \div 16), HexDigit(c % 16)>>

UrlEncode(s) == FlattenSeq([i \in DOMAIN s |-> EncodeChar(s[i])])

IsHex(c) == c \in (48 .. 57) \cup (65 .. 70) \cup (97 .. 102)
HexValue(c) == IF c <= 57 THEN c - 48 ELSE (c % 32) + 9

\* sscanf(s, "%2x"), as what it adds to the text: a character, or none when it
\* fails.  It skips spaces, reads two characters at most, and counts a sign as
\* one of them; a lone digit is enough.  (The prefix 0x is left out.)
SscanfHex(s) ==
    LET from == SelectInSeq(s, LAMBDA c : c # Space)
        rest == IF from = 0 THEN <<>>
                ELSE SubSeq(s, from, Min({Len(s), from + 1}))
        signed == rest # <<>> /\ rest[1] \in {Plus, Minus}
        digits == IF signed THEN Tail(rest) ELSE rest
    IN  IF digits = <<>> \/ ~IsHex(digits[1]) THEN <<>>
        ELSE IF Len(digits) = 2 /\ IsHex(digits[2])
        THEN <<16 * HexValue(digits[1]) + HexValue(digits[2])>>
        ELSE <<IF rest[1] = Minus THEN (256 - HexValue(digits[1])) % 256
               ELSE HexValue(digits[1])>>

\* The loop: out is what is decoded, skip how many characters are behind it.
DecodeStep(s, acc, i) ==
    LET value == SscanfHex(SubSeq(s, i + 1, Len(s)))
    IN  IF acc.skip > 0 THEN [acc EXCEPT !.skip = @ - 1]
        ELSE IF s[i] = Percent /\ i + 2 <= Len(s) /\ value # <<>>
        THEN [out |-> acc.out \o value, skip |-> 2]
        ELSE [acc EXCEPT !.out = Append(@, IF s[i] = Plus THEN Space ELSE s[i])]

UrlDecode(s) ==
    FoldLeft(LAMBDA acc, i : DecodeStep(s, acc, i), [out |-> <<>>, skip |-> 0],
             [i \in DOMAIN s |-> i]).out

-----------------------------------------------------------------------------
(* form_body_parser                                                        *)

\* The string up to the first c, and what is behind it.
Before(s, c) == LET i == SelectInSeq(s, LAMBDA x : x = c)
                IN  IF i = 0 THEN s ELSE SubSeq(s, 1, i - 1)
Behind(s, c) == LET i == SelectInSeq(s, LAMBDA x : x = c)
                IN  IF i = 0 THEN <<>> ELSE SubSeq(s, i + 1, Len(s))

\* The parts of s between characters c, the empty ones left out (strtok_r).
Tokens(s, c) ==
    LET cuts == {i \in 0 .. Len(s) + 1 : i = 0 \/ i = Len(s) + 1 \/ s[i] = c}
        ends(i) == Min({k \in cuts : k > i})
        from == SetToSortSeq({i \in cuts : i <= Len(s) /\ ends(i) > i + 1},
                             LAMBDA a, b : a < b)
    IN  [n \in DOMAIN from |-> SubSeq(s, from[n] + 1, ends(from[n]) - 1)]

\* add_kv copies up to the first NUL.
KeyValue(pair) ==
    <<Before(UrlDecode(Before(pair, Equals)), 0),
      Before(UrlDecode(Behind(pair, Equals)), 0)>>

FormBodyParser(body) ==
    LET pairs == Tokens(body, Ampersand)
    IN  [n \in DOMAIN pairs |-> KeyValue(pairs[n])]

-----------------------------------------------------------------------------
(* collapse_slashes, and the extension papago_mime_type looks at           *)

CollapseSlashes(s) ==
    LET kept == FoldLeft(LAMBDA out, c :
                            IF c = Slash /\ (out = <<>> \/ Last(out) = Slash) THEN out
                            ELSE Append(out, c), <<>>, s)
    IN  IF kept # <<>> /\ Last(kept) = Slash THEN Front(kept) ELSE kept

\* Backwards to the first dot, unless a slash comes before it; <<>> without one.
Extension(s) ==
    LET stops == {i \in DOMAIN s : s[i] \in {Dot, Slash}}
    IN  IF stops = {} THEN <<>>
        ELSE IF s[Max(stops)] = Slash THEN <<>>
        ELSE <<SubSeq(s, Max(stops) + 1, Len(s))>>

-----------------------------------------------------------------------------
(* Properties                                                              *)

\* s with each '%' followed by two hexadecimal digits.
WellFormed(s) ==
    \A i \in DOMAIN s : s[i] = Percent =>
        i + 2 <= Len(s) /\ IsHex(s[i + 1]) /\ IsHex(s[i + 2])

\* Reference: what the standard makes of it, escape by escape.
StandardDecode(s) ==
    LET kept == SetToSortSeq({i \in DOMAIN s : \A d \in {1, 2} :
                                  i > d => s[i - d] # Percent},
                             LAMBDA a, b : a < b)
        char(i) == CASE s[i] = Percent ->
                            16 * HexValue(s[i + 1]) + HexValue(s[i + 2])
                     [] s[i] = Plus -> Space
                     [] OTHER -> s[i]
    IN  [n \in DOMAIN kept |-> char(kept[n])]

\* Form data with the pairs (a, b) and (b, a), as a browser encodes it.
Encoded(a, b) ==
    UrlEncode(a) \o <<Equals>> \o UrlEncode(b) \o <<Ampersand>>
        \o UrlEncode(b) \o <<Equals>> \o UrlEncode(a)

\* For every text: decoding undoes encoding, and a form arrives as it was sent,
\* whatever of '%', '+', '&', '=' and other bytes keys and values hold; a decoded
\* text fits into the memory of the encoded one, and where every '%' begins an
\* escape it is what the standard says.  A collapsed path is its non-empty segments
\* joined by single slashes, and an extension is that of the last segment.
ConversionsExact ==
    /\ UrlDecode(UrlEncode(text)) = text
    /\ \A k \in 0 .. Len(text) :
          LET key == SubSeq(text, 1, k)
              value == SubSeq(text, k + 1, Len(text))
          IN  FormBodyParser(Encoded(key, value)) =
                 <<<<key, value>>, <<value, key>>>>
    /\ Len(UrlDecode(text)) <= Len(text)
    /\ WellFormed(text) => UrlDecode(text) = StandardDecode(text)
    /\ LET segments == Tokens(text, Slash)
       IN  CollapseSlashes(text) =
              FoldLeft(LAMBDA out, s : IF out = <<>> THEN s
                                       ELSE out \o <<Slash>> \o s, <<>>, segments)
    /\ Extension(text) # <<>> =>
          /\ Extension(text)[1] = Last(Tokens(<<Slash>> \o text, Dot))
             \/ Last(text) = Dot
          /\ Slash \notin Range(Extension(text)[1])
=============================================================================
