------------------------------ MODULE WebText ------------------------------
(***************************************************************************)
(* The text functions of the web server (webinterface/mongoose.c): URL     *)
(* coding, paths, patterns, the end of a request, its parts, the variables *)
(* of a query, dates, access lists, the order of a listing, ranges.  A     *)
(* text is a sequence of octets.  MAX_HEADERS and Width are CONSTANTS.     *)
(***************************************************************************)
EXTENDS Integers, Sequences, SequencesExt, FiniteSetsExt

CONSTANTS
    MAX_HEADERS,    \* ARRAY_SIZE(ri->http_headers), 64 in the code
    Width           \* bits of an address, 32 in the code

ASSUME TextAssumption == MAX_HEADERS \in Nat \ {0} /\ Width \in Nat \ {0}

LF == 10
CR == 13
Blank == 32
Dollar == 36
PercentSign == 37
Ampersand == 38
StarSign == 42
PlusSign == 43
Period == 46
Slash == 47
Colon == 58
Equals == 61
Question == 63
Backslash == 92
Bar == 124

Digits == 48..57
Upper == 65..90
Lower == 97..122
Slashes == { Slash, Backslash }

lowercase(c) == IF c \in Upper THEN c + 32 ELSE c
SameName(s, t) == [i \in DOMAIN s |-> lowercase(s[i])] = [i \in DOMAIN t |-> lowercase(t[i])]

\* strcspn from position i: the first position of a character of C, or the end.
Cspn(s, i, C) == Min({ k \in i..Len(s) : s[k] \in C } \cup { Len(s) + 1 })
Spn(s, i, C)  == Min({ k \in i..Len(s) : s[k] \notin C } \cup { Len(s) + 1 })

-----------------------------------------------------------------------------
(* URL coding. *)

IsHex(s, i) == i <= Len(s) /\ s[i] \in Digits \cup 65..70 \cup 97..102
HEXTOI(c) == IF c \in Digits THEN c - 48 ELSE lowercase(c) - 87

url_decode(src, dst_len, form) ==
    LET rest[i \in 1..(Len(src) + 1), room \in 0..(dst_len - 1)] ==
          IF i > Len(src) \/ room = 0 THEN << >>
          ELSE IF src[i] = PercentSign /\ IsHex(src, i + 1) /\ IsHex(src, i + 2)
          THEN << 16 * HEXTOI(src[i + 1]) + HEXTOI(src[i + 2]) >> \o rest[i + 3, room - 1]
          ELSE << IF form /\ src[i] = PlusSign THEN Blank ELSE src[i] >> \o rest[i + 1, room - 1]
    IN  rest[1, dst_len - 1]

DontEscape == { Period, 95, 45, Dollar, 44, 59, 126, 40, 41 }
HexDigit(n) == IF n < 10 THEN 48 + n ELSE 87 + n

\* A character that no longer fits as an escape leaves its place as it was.
url_encode(src, dst_len) ==
    LET rest[i \in 1..(Len(src) + 1), at \in 0..(dst_len - 1)] ==
          IF i > Len(src) \/ at = dst_len - 1 THEN << >>
          ELSE IF src[i] \in Digits \cup Upper \cup Lower \cup DontEscape
          THEN << src[i] >> \o rest[i + 1, at + 1]
          ELSE IF at + 2 < dst_len - 1
          THEN << PercentSign, HexDigit(src[i] \div 16), HexDigit(src[i] % 16) >> \o rest[i + 1, at + 3]
          ELSE << -1 >> \o rest[i + 1, at + 1]
    IN  rest[1, 0]

-----------------------------------------------------------------------------
(* Paths and patterns. *)

\* Variant: what is left after a removal is not looked at again.
remove_double_dots_once(s) ==
    LET DotDot(i) == i < Len(s) /\ s[i] = Period /\ s[i + 1] = Period
        copy[i \in 1..(Len(s) + 2)] ==
          IF i > Len(s) THEN << >>
          ELSE << s[i] >> \o copy[IF s[i] \notin Slashes THEN i + 1
                                  ELSE LET k == Spn(s, i + 1, Slashes)
                                       IN  IF DotDot(k) THEN k + 2 ELSE k]
    IN  copy[1]

\* After a slash all slashes, backslashes and double dots are left out.
remove_double_dots_and_double_slashes(s) ==
    LET skip[i \in 1..(Len(s) + 1)] ==
          IF i > Len(s) THEN i
          ELSE IF s[i] \in Slashes THEN skip[i + 1]
          ELSE IF i < Len(s) /\ s[i] = Period /\ s[i + 1] = Period THEN skip[i + 2]
          ELSE i
        copy[i \in 1..(Len(s) + 1)] ==
          IF i > Len(s) THEN << >>
          ELSE << s[i] >> \o copy[IF s[i] \in Slashes THEN skip[i + 1] ELSE i + 1]
    IN  copy[1]

Plus1(n) == IF n = -1 THEN -1 ELSE n + 1

RECURSIVE glob_short(_, _)
glob_short(p, s) ==
    IF p = << >> THEN 0
    ELSE IF Head(p) = Dollar THEN (IF s = << >> THEN 0 ELSE -1)
    ELSE IF Head(p) = StarSign
    THEN LET deep == Len(p) > 1 /\ p[2] = StarSign
             q    == SubSeq(p, IF deep THEN 3 ELSE 2, Len(p))
             len  == IF deep THEN Len(s) ELSE Cspn(s, 1, { Slash }) - 1
             res  == glob_short(q, SubSeq(s, len + 1, Len(s)))
         IN  IF q = << >> THEN len ELSE IF res = -1 THEN -1 ELSE len + res
    ELSE IF s = << >> \/ Head(p) \notin { Question, Head(s) } THEN -1
    ELSE Plus1(glob_short(Tail(p), Tail(s)))

\* match_prefix without alternatives: the length matched, or -1.  A star takes
\* as much as lets the rest match, one star no slash.
RECURSIVE glob(_, _)
glob(p, s) ==
    IF p = << >> THEN 0
    ELSE IF Head(p) = Dollar THEN (IF s = << >> THEN 0 ELSE -1)
    ELSE IF Head(p) = StarSign
    THEN LET deep == Len(p) > 1 /\ p[2] = StarSign
             q    == SubSeq(p, IF deep THEN 3 ELSE 2, Len(p))
             len  == IF deep THEN Len(s) ELSE Cspn(s, 1, { Slash }) - 1
             res(n) == glob(q, SubSeq(s, n + 1, Len(s)))
             fit  == { n \in 0..len : res(n) # -1 }
         IN  IF q = << >> THEN len ELSE IF fit = {} THEN -1 ELSE Max(fit) + res(Max(fit))
    ELSE IF s = << >> \/ Head(p) \notin { Question, Head(s) } THEN -1
    ELSE Plus1(glob(Tail(p), Tail(s)))

RECURSIVE match_prefix(_, _)
match_prefix(p, s) ==
    LET k == Cspn(p, 1, { Bar }) IN
    IF k > Len(p) THEN glob(p, s)
    ELSE LET res == glob(SubSeq(p, 1, k - 1), s)
         IN  IF res > 0 THEN res ELSE match_prefix(SubSeq(p, k + 1, Len(p)), s)

-----------------------------------------------------------------------------
(* Requests. *)

Malformed(c) == c \notin 32..126 /\ c \notin { CR, LF } /\ c < 128
EndsHere(buf, i) ==
    /\ i < Len(buf) /\ buf[i] = LF
    /\ buf[i + 1] = LF \/ (i + 2 <= Len(buf) /\ buf[i + 1] = CR /\ buf[i + 2] = LF)

\* The scan stops at the first malformed character or end of the headers.
get_request_len(buf) ==
    LET stops == { i \in 1..(Len(buf) - 1) : Malformed(buf[i]) \/ EndsHere(buf, i) }
    IN  IF stops = {} THEN 0
        ELSE IF Malformed(buf[Min(stops)]) THEN -1
        ELSE Min(stops) + (IF buf[Min(stops) + 1] = LF THEN 1 ELSE 2)

\* A quotechar before a delimiter makes the delimiter part of the word.
RECURSIVE Unquote(_, _, _, _, _)
Unquote(s, delims, quote, word, end) ==
    IF word = << >> \/ quote = 0 \/ Last(word) # quote THEN << word, end >>
    ELSE IF end > Len(s) THEN << Front(word), end >>
    ELSE LET next == Cspn(s, end + 1, delims)
         IN  Unquote(s, delims, quote, Front(word) \o SubSeq(s, end, next - 1), next)

skip_quoted(s, delims, white, quote) ==
    LET first == Cspn(s, 1, delims)
        w     == Unquote(s, delims, quote, SubSeq(s, 1, first - 1), first)
    IN  [word |-> w[1],
         rest |-> IF w[2] > Len(s) THEN << >> ELSE SubSeq(s, Spn(s, w[2] + 1, white), Len(s))]
skip(s, delims) == skip_quoted(s, delims, delims, 0)

RECURSIVE parse_http_headers(_, _)
parse_http_headers(s, headers) ==
    LET name  == skip_quoted(s, { Colon }, { Blank }, 0)
        value == skip(name.rest, { CR, LF })
    IN  IF name.word = << >> \/ Len(headers) = MAX_HEADERS THEN headers
        ELSE parse_http_headers(value.rest, Append(headers, << name.word, value.word >>))

parse_http_message(buf) ==
    LET text    == SubSeq(buf, 1, get_request_len(buf) - 1)
        method  == skip(SubSeq(text, Spn(text, 1, { Blank, CR, LF }), Len(text)), { Blank })
        uri     == skip(method.rest, { Blank })
        version == skip(uri.rest, { CR, LF })
    IN  [method |-> method.word, uri |-> uri.word, version |-> version.word,
         headers |-> parse_http_headers(version.rest, << >>)]

\* The first header of that name; <<>> when there is none.
get_header(headers, name) ==
    LET S == { i \in DOMAIN headers : SameName(headers[i][1], name) }
    IN  IF S = {} THEN << >> ELSE << headers[Min(S)][2] >>

\* The value of a variable; <<>> when it is not found or does not fit.
mg_get_var(buf, name, dst_len) ==
    LET S == { p \in 1..(Len(buf) - Len(name)) :
                 /\ p = 1 \/ buf[p - 1] = Ampersand
                 /\ buf[p + Len(name)] = Equals
                 /\ SameName(SubSeq(buf, p, p + Len(name) - 1), name) }
        from == Min(S) + Len(name) + 1
        val  == SubSeq(buf, from, Cspn(buf, from, { Ampersand }) - 1)
    IN  IF S = {} \/ Len(val) >= dst_len THEN << >> ELSE << url_decode(val, dst_len, TRUE) >>
=============================================================================
