--------------------------- MODULE CrawlerParser ---------------------------
(***************************************************************************)
(* The grammars the crawler reads the answers of home agents with: getall  *)
(* (neighbours, devices, names of devices with new content) and contmeta   *)
(* (the videos of a device).  A text is a sequence of symbols; a tag is    *)
(* one symbol, and so is every character between tags.  The combinators    *)
(* are those of boost::spirit, as phrase_parse applies them.               *)
(***************************************************************************)
EXTENDS Integers, Sequences, SequencesExt, FiniteSets

CONSTANTS MaxInt, MaxLong   \* the greatest values int_ and long_ accept

ASSUME NumbersAssumption == MaxInt \in Nat /\ MaxLong \in Nat

OpenTag(x)  == << "open", x >>
CloseTag(x) == << "close", x >>
Space == << "char", " " >>
Separator == << "char", "," >>
Minus == << "char", "-" >>
IsTagSign(c) == c[1] \in { "open", "close" }

\* A match ends before `at`.
Match(at, value) == [ok |-> TRUE, at |-> at, value |-> value]
NoMatch == [ok |-> FALSE]

\* The first symbol from `at` on that is not one of the given, or the end.
FirstNot(Skipped(_), at, t) ==
    LET from[i \in at..(Len(t) + 1)] == IF i <= Len(t) /\ Skipped(t[i]) THEN from[i + 1] ELSE i
    IN  from[at]
skip_blanks(at, t) == FirstNot(LAMBDA c : c = Space, at, t)

lit(sign, at, t) == LET i == skip_blanks(at, t)
                    IN  IF i <= Len(t) /\ t[i] = sign THEN Match(i + 1, << >>) ELSE NoMatch

\* lexeme[*(char_ - ...)]: blanks before the text are skipped, blanks in it and
\* behind it belong to it; a character that is not ASCII ends it.
lexeme(Text(_), at, t) == LET i == skip_blanks(at, t)
                              end == FirstNot(Text, i, t)
                          IN  Match(end, SubSeq(t, i, end - 1))
str_(at, t)  == lexeme(LAMBDA c : ~IsTagSign(c) /\ c[1] # "wide", at, t)
str2_(at, t) == lexeme(LAMBDA c : ~IsTagSign(c) /\ c[1] # "wide" /\ c # Separator, at, t)

\* int_, long_: a sign, digits, and no overflow.
DecimalValue(digits) == FoldLeft(LAMBDA n, d : 10 * n + d[2], 0, digits)
Bounded(max, negative, end, n) ==
    IF negative THEN IF n <= max + 1 THEN Match(end, -n) ELSE NoMatch
    ELSE IF n <= max THEN Match(end, n) ELSE NoMatch
DigitRun(max, negative, first, end, t) ==
    IF end = first THEN NoMatch ELSE Bounded(max, negative, end, DecimalValue(SubSeq(t, first, end - 1)))
Signed(max, negative, first, t) ==
    DigitRun(max, negative, first, FirstNot(LAMBDA c : c[1] = "digit", first, t), t)
NumberAt(max, i, t) == LET negative == i <= Len(t) /\ t[i] = Minus
                       IN  Signed(max, negative, IF negative THEN i + 1 ELSE i, t)
number(max, at, t) == NumberAt(max, skip_blanks(at, t), t)

access_level(at, t) ==
    LET i == skip_blanks(at, t)
    IN  IF i <= Len(t) /\ t[i][1] = "access" THEN Match(i + 1, t[i][2]) ELSE NoMatch

\* What stands between the tags of a field.
Content(kind, at, t) ==
    CASE kind = "text"   -> str_(at, t)
      [] kind = "int"    -> number(MaxInt, at, t)
      [] kind = "long"   -> number(MaxLong, at, t)
      [] kind = "access" -> access_level(at, t)

\* m >> P; "<x>" >> part >> "</x>"; a field; a tag with fields inside; any
\* number of those.
Then(m, P(_)) == IF m.ok THEN P(m) ELSE NoMatch
Between(tag, Part(_), at, t) ==
    Then(lit(OpenTag(tag), at, t), LAMBDA open :
        Then(Part(open.at), LAMBDA in :
            Then(lit(CloseTag(tag), in.at, t), LAMBDA shut : Match(shut.at, in.value))))
TagField(f, at, t) == Between(f[1], LAMBDA i : Content(f[2], i, t), at, t)
FieldsOf(fields, start, t) ==
    FoldLeft(LAMBDA m, f : Then(m, LAMBDA before :
                               Then(TagField(f, before.at, t), LAMBDA v : Match(v.at, Append(before.value, v.value)))),
             Match(start, << >>), fields)
Element(tag, fields, at, t) == Between(tag, LAMBDA i : FieldsOf(fields, i, t), at, t)
Kleene(tag, fields, start, t) ==
    LET more(one, rest, at) ==
            IF one.ok THEN [rest[one.at] EXCEPT !.value = << one.value >> \o @] ELSE Match(at, << >>)
        all[at \in 1..(Len(t) + 1)] == more(Element(tag, fields, at, t), all, at)
    IN  all[start]

\* str2_ % ','
list(start, t) ==
    LET rest[at \in 1..(Len(t) + 1)] ==
            LET one   == str2_(at, t)
                comma == lit(Separator, one.at, t)
            IN  IF comma.ok THEN [rest[comma.at] EXCEPT !.value = << one.value >> \o @]
                ELSE Match(one.at, << one.value >>)
    IN  rest[start]

-----------------------------------------------------------------------------
(* The two grammars.  A record's fields in the order of its struct.        *)

homeagent == << << "hostname", "text" >>, << "description", "text" >>, << "port", "text" >> >>
device == << << "owner", "text" >>, << "name", "text" >>, << "port", "text" >>, << "type", "text" >>,
             << "timestamp", "long" >>, << "location", "text" >>, << "description", "text" >> >>
video == << << "id", "int" >>, << "title", "text" >>, << "filesize", "long" >>, << "mimetype", "text" >>,
            << "description", "text" >>, << "shared", "access" >> >>

haname_(at, t)     == TagField(<< "name", "text" >>, at, t)
neighbours_(at, t) == Between("neighbours", LAMBDA i : Kleene("home agent", homeagent, i, t), at, t)
devices_(at, t)    == Between("devices", LAMBDA i : Kleene("device", device, i, t), at, t)
content_(at, t)    == Between("content updates", LAMBDA i : list(i, t), at, t)

getall_(at, t) ==
    Between("getall", LAMBDA i :
        Then(haname_(i, t), LAMBDA name :
            Then(neighbours_(name.at, t), LAMBDA has :
                Then(devices_(has.at, t), LAMBDA devs :
                    Then(content_(devs.at, t), LAMBDA cont :
                        Match(cont.at, [haname |-> name.value, homeagents |-> has.value,
                                        devices |-> devs.value, updates |-> cont.value]))))), at, t)

videos_(at, t) == Between("videos", LAMBDA i : Kleene("video", video, i, t), at, t)
contmeta_(at, t) ==
    Between("html", LAMBDA i : Between("multimedia", LAMBDA j : videos_(j, t), i, t), at, t)

\* phrase_parse skips blanks at the end; handle_poll and handle_getcontentlist
\* refuse an answer with anything left.
phrase_parse(m, t) == IF m.ok /\ skip_blanks(m.at, t) = Len(t) + 1 THEN m ELSE NoMatch
parse_getall(t)   == phrase_parse(getall_(1, t), t)
parse_contmeta(t) == phrase_parse(contmeta_(1, t), t)

\* The devices whose content is then fetched.
ContentFetched(updates) == SelectSeq(updates, LAMBDA u : u # << >>)

-----------------------------------------------------------------------------
(* What a home agent writes: tags on lines of their own, indented.         *)

Decimal(n) == IF n < 10 THEN << << "digit", n >> >> ELSE << << "digit", n \div 10 >>, << "digit", n % 10 >> >>
Shown(kind, v) == CASE kind = "text" -> v
                    [] kind = "access" -> << << "access", v >> >>
                    [] OTHER -> IF v < 0 THEN << Minus >> \o Decimal(-v) ELSE Decimal(v)
Tagged(x, pad, inner) == pad \o << OpenTag(x) >> \o inner \o << CloseTag(x) >> \o pad
WriteElement(tag, fields, values, pad) ==
    Tagged(tag, pad, FlattenSeq([i \in DOMAIN fields |-> Tagged(fields[i][1], pad, Shown(fields[i][2], values[i]))]))
WriteAll(tag, fields, all, pad) == FlattenSeq([i \in DOMAIN all |-> WriteElement(tag, fields, all[i], pad)])
Commas(texts) == FlattenSeq([i \in DOMAIN texts |-> IF i = 1 THEN texts[i] ELSE << Separator >> \o texts[i]])
WriteGetall(d, pad) ==
    Tagged("getall", pad,
           Tagged("name", pad, d.haname)
           \o Tagged("neighbours", pad, WriteAll("home agent", homeagent, d.homeagents, pad))
           \o Tagged("devices", pad, WriteAll("device", device, d.devices, pad))
           \o Tagged("content updates", pad, Commas(d.updates)))
WriteContmeta(videos, pad) ==
    Tagged("html", pad, Tagged("multimedia", pad, Tagged("videos", pad, WriteAll("video", video, videos, pad))))

Unspaced(t) == SelectSeq(t, LAMBDA c : c # Space)
\* The text cut off, and with a symbol missing, doubled or in its neighbour's place.
Damaged(t) ==
    UNION { { SubSeq(t, 1, i - 1), SubSeq(t, 1, i - 1) \o SubSeq(t, i + 1, Len(t)),
              SubSeq(t, 1, i) \o SubSeq(t, i, Len(t)),
              [t EXCEPT ![i] = t[(i % Len(t)) + 1], ![(i % Len(t)) + 1] = t[i]] } : i \in DOMAIN t }

Readable(t) == \A i \in DOMAIN t : t[i][1] # "wide"

\* An answer is read as its home agent meant it, whatever the layout (one with
\* a character that is not ASCII is refused); and a damaged one is either
\* refused as a whole or read as what it says, nothing of it left out: no list
\* is silently cut short, no half-read device indexed.  An empty list of
\* updates is read as one empty name, which is not fetched.
SameGetall(a, b) == [a EXCEPT !.updates = ContentFetched(@)] = [b EXCEPT !.updates = ContentFetched(@)]
ReadBack(m, text, Same(_)) == (m.ok <=> Readable(text)) /\ (m.ok => Same(m.value))
Accounted(m, t, Write(_)) == m.ok => Unspaced(Write(m.value)) = Unspaced(t)
GetallExact(d, pad) ==
    /\ ReadBack(parse_getall(WriteGetall(d, pad)), WriteGetall(d, pad), LAMBDA v : SameGetall(v, d))
    /\ \A t \in Damaged(WriteGetall(d, pad)) : Accounted(parse_getall(t), t, LAMBDA v : WriteGetall(v, << >>))
ContmetaExact(videos, pad) ==
    /\ ReadBack(parse_contmeta(WriteContmeta(videos, pad)), WriteContmeta(videos, pad), LAMBDA v : v = videos)
    /\ \A t \in Damaged(WriteContmeta(videos, pad)) : Accounted(parse_contmeta(t), t, LAMBDA v : WriteContmeta(v, << >>))
=============================================================================
