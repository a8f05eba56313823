------------------------------ MODULE DnsCodec ------------------------------
(***************************************************************************)
(* The DNS wire format of the gateway: how a query is parsed and how the   *)
(* reply that repeats its sections is composed.  A message body is a       *)
(* sequence of octets; the limits of the code are constants, so that a     *)
(* small instance reaches them.                                            *)
(***************************************************************************)
EXTENDS Naturals, Sequences, SequencesExt, FiniteSets
LOCAL INSTANCE Bitwise

CONSTANTS
    MaxLabel,   \* 63 in the code
    MaxName,    \* 255: octets in labels when parsing, dotted length when writing
    MaxRdata,   \* 1024
    ShortLen,   \* octets of a short: 2
    LongLen,    \* octets of a long: 4
    SendMax     \* size of send_buf_

ASSUME DnsLimits == /\ MaxLabel \in Nat \ {0} /\ MaxName \in Nat \ {0} /\ MaxRdata \in Nat
                    /\ ShortLen \in Nat \ {0} /\ LongLen \in Nat \ {0} /\ SendMax \in Nat

Dot == 46

-----------------------------------------------------------------------------
(* Parsing.  A parser takes the offset of the next octet and yields the    *)
(* offset behind what it read, or fails as parse_error does.               *)

Failed == [ok |-> FALSE]
Parsed(at, value) == [ok |-> TRUE, at |-> at, value |-> value]

\* check_end(len, buf, end)
check_end(len, at, buf) == at + len - 1 <= Len(buf)

parse_octets(len, at, buf) ==
    IF check_end(len, at, buf) THEN Parsed(at + len, SubSeq(buf, at, at + len - 1)) ELSE Failed
\* A length octet, valid up to MaxLabel.
parse_label_len(at, buf) == check_end(1, at, buf) /\ buf[at] <= MaxLabel

\* The octets of a label and a dot.
parse_label(at, buf) == SubSeq(buf, at + 1, at + buf[at]) \o << Dot >>

\* Labels up to the empty one; the name is their dotted string.
parse_name(start, buf) ==
    LET rest[at \in 1..(Len(buf) + 1), len \in 0..MaxName] ==
            IF ~parse_label_len(at, buf) THEN Failed
            ELSE IF buf[at] = 0 THEN Parsed(at + 1, << >>)
            ELSE IF len + buf[at] > MaxName \/ ~check_end(buf[at], at + 1, buf) THEN Failed
            ELSE LET more == rest[at + buf[at] + 1, len + buf[at]]
                 IN  IF more.ok THEN Parsed(more.at, parse_label(at, buf) \o more.value) ELSE Failed
    IN  rest[start, 0]

\* Type and class are any short.
parse_question(start, buf) ==
    LET name   == parse_name(start, buf)
        fields == parse_octets(2 * ShortLen, name.at, buf)
    IN  IF name.ok /\ fields.ok
        THEN Parsed(fields.at, [name |-> name.value, fields |-> fields.value, rdata |-> << >>]) ELSE Failed

\* The number in a short, highest octet first.
Number(octets) == FoldLeft(LAMBDA n, o : 256 * n + o, 0, octets)

parse_rr(start, buf) ==
    LET name   == parse_name(start, buf)
        fields == parse_octets(3 * ShortLen + LongLen, name.at, buf)
        length == Number(SubSeq(fields.value, 2 * ShortLen + LongLen + 1, 3 * ShortLen + LongLen))
    IN  IF ~name.ok \/ ~fields.ok THEN Failed
        ELSE IF length > MaxRdata \/ ~check_end(length, fields.at, buf) THEN Failed
        ELSE Parsed(fields.at + length,
                    [name |-> name.value, fields |-> fields.value,
                     rdata |-> SubSeq(buf, fields.at, fields.at + length - 1)])

-----------------------------------------------------------------------------
(* A query.  The header says how many entries each section has.            *)

Sections == << "question", "answer", "authority", "additional" >>
Entries(counts) == FlattenSeq([s \in 1..4 |-> [i \in 1..counts[s] |-> Sections[s]]])

\* An additional record is parsed and forgotten.
add_entry(query, s, entry) == IF s = "additional" THEN query ELSE Append(query, << s, entry >>)

\* The entries of each section in order.  Octets behind the last entry are an error.
parse_dns_query(counts, buf) ==
    LET sections == FoldLeft(LAMBDA q, s :
                        IF ~q.ok THEN q
                        ELSE LET e == IF s = "question" THEN parse_question(q.at, buf) ELSE parse_rr(q.at, buf)
                             IN  IF ~e.ok THEN Failed
                                 ELSE Parsed(e.at, add_entry(q.value, s, e.value)),
                    Parsed(1, << >>), Entries(counts))
    IN  IF sections.ok /\ sections.at = Len(buf) + 1 THEN sections ELSE Failed

-----------------------------------------------------------------------------
(* Composing.  A writer yields the octets it wrote or fails.               *)

Wrote(octets) == [ok |-> TRUE, octets |-> octets]

\* boost::tokenizer with the separator ".": the maximal runs without a dot.
tokens(name) ==
    LET done == FoldLeft(LAMBDA s, o : IF o # Dot THEN [s EXCEPT !.run = Append(@, o)]
                                       ELSE IF s.run = << >> THEN s
                                       ELSE [all |-> Append(s.all, s.run), run |-> << >>],
                         [all |-> << >>, run |-> << >>], name)
    IN  IF done.run = << >> THEN done.all ELSE Append(done.all, done.run)

write_label(label) == << Len(label) >> \o label
write_name(name) ==
    IF Len(name) > MaxName \/ \E i \in DOMAIN tokens(name) : Len(tokens(name)[i]) > MaxLabel
    THEN Failed
    ELSE Wrote(FlattenSeq([i \in DOMAIN tokens(name) |-> write_label(tokens(name)[i])]) \o << 0 >>)

\* A question or a resource record.
write_rr(rr) == LET name == write_name(rr.name)
                IN  IF name.ok THEN Wrote(name.octets \o rr.fields \o rr.rdata) ELSE Failed

\* Entries of a section that the query kept.
num_entries(query, s) == Cardinality({ i \in DOMAIN query : query[i][1] = Sections[s] })

\* Sections in their order; every writer checks the end of send_buf_.
compose_dns_response(query) ==
    LET done == FoldLeft(LAMBDA r, e : LET w == write_rr(e[2])
                                       IN  IF r.ok /\ w.ok THEN Wrote(r.octets \o w.octets) ELSE Failed,
                         Wrote(<< >>), query)
    IN  IF done.ok /\ Len(done.octets) <= SendMax THEN done ELSE Failed
-----------------------------------------------------------------------------
(* dns_query_header: twelve octets, read and written in place.             *)

clear == [i \in 0..11 |-> 0]
read_short(h, at) == 256 * h[at] + h[at + 1]
write_short(h, at, val) == [h EXCEPT ![at] = (val \div 256) % 256, ![at + 1] = val % 256]
get_bit(h, byte, mask) == (h[byte] & mask) # 0
set_bit(h, byte, mask, val) == [h EXCEPT ![byte] = IF val THEN @ | mask ELSE @ & (255 - mask)]

\* Codes the gateway does not know are read as the reserved one.
O_RESERVED == 3
R_RESERVED == 6
opcode(h) == LET val == (h[2] & 120) \div 8 IN IF val < O_RESERVED THEN val ELSE O_RESERVED
rcode(h) == LET val == h[3] & 15 IN IF val < R_RESERVED THEN val ELSE R_RESERVED
qr(h) == get_bit(h, 2, 128)
aa(h) == get_bit(h, 2, 4)
tc(h) == get_bit(h, 2, 2)
rd(h) == get_bit(h, 2, 1)
ra(h) == get_bit(h, 3, 128)
z(h) == (h[3] & 64) \div 64
ad_cd(h) == (h[3] & 48) \div 16

\* qdcount, ancount, nscount and arcount.
section_counts(h) == [s \in 1..4 |-> read_short(h, 2 + 2 * s)]
set_counts(h, counts) == FoldLeft(LAMBDA g, s : write_short(g, 2 + 2 * s, counts[s]), h, << 1, 2, 3, 4 >>)
\* rcode(code) only sets bits.
set_rcode(h, code) == [h EXCEPT ![3] = @ | code]

\* Variant: send_header_ is not cleared between two replies.
compose_dns_header_unclean(header, query) ==
    LET flags == set_bit(set_bit(set_bit(write_short(header, 0, query.id), 2, 128, TRUE), 2, 4, TRUE), 2, 1, query.rd)
    IN  set_counts(set_rcode(flags, query.rcode), query.counts)

\* header is send_header_, which still holds the previous reply.
compose_dns_header(header, query) ==
    LET flags == set_bit(set_bit(set_bit(write_short(clear, 0, query.id), 2, 128, TRUE), 2, 4, TRUE), 2, 1, query.rd)
    IN  set_counts(set_rcode(flags, query.rcode), query.counts)

-----------------------------------------------------------------------------
(* What a body should look like, without offsets and loops.                *)

\* starts are the places of the length octets, the last of which is zero.
IsName(s) ==
    /\ s # << >> /\ s[Len(s)] = 0
    /\ \E lengths \in SUBSET { p \in 1..(Len(s) - 1) : s[p] \in 1..MaxLabel } :
          LET starts == lengths \cup { Len(s) }
          IN  /\ 1 \in starts
              /\ \A p \in lengths : /\ p + s[p] + 1 \in starts
                                     /\ \A q \in starts : ~(p < q /\ q <= p + s[p])
              /\ Len(s) - Cardinality(starts) <= MaxName
IsQuestion(s) == \E n \in DOMAIN s : IsName(SubSeq(s, 1, n)) /\ Len(s) = n + 2 * ShortLen
IsRR(s) ==
    \E n \in DOMAIN s :
        LET fixed == n + 3 * ShortLen + LongLen
        IN  /\ fixed <= Len(s) /\ IsName(SubSeq(s, 1, n))
            /\ Len(s) - fixed = Number(SubSeq(s, fixed - ShortLen + 1, fixed))
            /\ Len(s) - fixed <= MaxRdata
IsEntry(section, s) == IF section = "question" THEN IsQuestion(s) ELSE IsRR(s)
IsBody(counts, buf) ==
    CASE Len(Entries(counts)) = 0 -> buf = << >>
      [] Len(Entries(counts)) = 1 -> IsEntry(Entries(counts)[1], buf)
      [] Len(Entries(counts)) = 2 -> \E c \in DOMAIN buf : /\ IsEntry(Entries(counts)[1], SubSeq(buf, 1, c))
                                                           /\ IsEntry(Entries(counts)[2], SubSeq(buf, c + 1, Len(buf)))

\* parse_dns_query accepts exactly the well-formed bodies: every truncated,
\* overlong or wrongly counted body is a parse_error and none is read past its
\* end.
ParserExact(counts, buf) == parse_dns_query(counts, buf).ok <=> IsBody(counts, buf)

\* A reply repeats its query: parsed under its own header it gives back every
\* question, answer and authority of the query, and composing fails only if a
\* dotted name is too long or the buffer too small.  A label that begins with a
\* dot (or is one) makes an empty token and is excluded.
NoEmptyToken(name) == \A i \in DOMAIN name : name[i] = Dot => i > 1 /\ name[i - 1] # Dot
Room(query) == FoldLeft(LAMBDA n, e : n + Len(e[2].name) + 1 + Len(e[2].fields) + Len(e[2].rdata), 0, query)
IsReadAs(query, again) == again.ok /\ again.value = query
Repeats(query, reply) ==
    /\ reply.ok <=> /\ \A i \in DOMAIN query : Len(query[i][2].name) <= MaxName
                    /\ Room(query) <= SendMax
    /\ reply.ok => IsReadAs(query, parse_dns_query([s \in 1..4 |-> num_entries(query, s)], reply.octets))
ReplyRepeats(counts, buf) ==
    LET query == parse_dns_query(counts, buf)
    IN  (query.ok /\ \A i \in DOMAIN query.value : NoEmptyToken(query.value[i][2].name)) =>
            Repeats(query.value, compose_dns_response(query.value))

\* A reply's header says what its own query and its result say: id and rd are
\* those of the query, whatever else the client set is not repeated, and
\* nothing of the reply that was composed before into the same send_header_ is
\* left.
Answer(received, code, counts) ==
    [id |-> read_short(received, 0), rd |-> rd(received), rcode |-> code, counts |-> counts]
SaysOnly(reply, received, code, counts) ==
    /\ read_short(reply, 0) = read_short(received, 0) /\ rd(reply) = rd(received)
    /\ qr(reply) /\ aa(reply) /\ ~tc(reply) /\ ~ra(reply)
    /\ opcode(reply) = 0 /\ z(reply) = 0 /\ ad_cd(reply) = 0
    /\ rcode(reply) = code /\ section_counts(reply) = counts
    /\ \A i \in DOMAIN reply : reply[i] \in 0..255
HeaderOwn(before, received, code, counts) ==
    LET previous == compose_dns_header(clear, Answer(before, R_RESERVED - 1, counts))
    IN  SaysOnly(compose_dns_header(previous, Answer(received, code, counts)), received, code, counts)

-----------------------------------------------------------------------------
(* From the name in a question to the device name in a request to a home   *)
(* agent (haproxy.cpp).                                                    *)

tolower(text) == [i \in DOMAIN text |-> IF text[i] \in 65..90 THEN text[i] + 32 ELSE text[i]]

\* The first suffix that the name ends with is taken off.  For a suffix longer
\* than the name, length() - length() wraps and substr throws: the suffixes
\* behind it are not tried.
remove_suffix(name, suffixes) ==
    LET stops == { i \in DOMAIN suffixes : \/ Len(suffixes[i]) > Len(name)
                                           \/ IsSuffix(suffixes[i], tolower(name)) }
        first == CHOOSE i \in stops : \A j \in stops : i <= j
    IN  IF stops = {} \/ Len(suffixes[first]) > Len(name) THEN Failed
        ELSE Parsed(0, SubSeq(name, 1, Len(name) - Len(suffixes[first])))

\* Letter case decides nothing, what is left with some suffix put back is the
\* name, and a name that ends with a suffix is turned away only because of a
\* longer suffix in the list.
SuffixAs(name, suffixes, r) ==
    /\ remove_suffix(tolower(name), suffixes).ok = r.ok
    /\ r.ok => \E i \in DOMAIN suffixes : tolower(name) = tolower(r.value) \o suffixes[i]
    /\ (~r.ok /\ \E i \in DOMAIN suffixes : IsSuffix(suffixes[i], tolower(name)))
          => \E i \in DOMAIN suffixes : Len(suffixes[i]) > Len(name)
SuffixExact(name, suffixes) == SuffixAs(name, suffixes, remove_suffix(name, suffixes))
=============================================================================
