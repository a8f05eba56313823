------------------------------- MODULE Codecs -------------------------------
(***************************************************************************)
(* One job for each function of the repository that encodes, decodes or    *)
(* enumerates: an input is chosen, the other side decodes it.              *)
(***************************************************************************)
EXTENDS PlexusWire, DnsCodec, CrawlerParser, OverlayCodes, WebRules

CONSTANTS
    DnsInputs,      \* section counts and bodies
    DeviceNames,    \* names in questions, and lists of suffixes
    Headers12,      \* received DNS headers
    Counts12,       \* section counts of replies
    Answers,        \* answers of home agents
    Data,           \* words the Golay code is tried with
    RmMessages,     \* messages the Reed-Muller code is tried with
    CombN,          \* size of the sets nextcomb is tried on
    WebJobs         \* inputs of the functions of the web server

VARIABLES job, decoded
vars == << job, decoded >>

Wire  == { [kind |-> "wire", m |-> m, tail |-> t] : m \in Messages, t \in Tails }
Dns   == { [kind |-> "dns", counts |-> i[1], buf |-> i[2]] : i \in DnsInputs }
Suffixed == { [kind |-> "suffix", name |-> i[1], suffixes |-> i[2]] : i \in DeviceNames }
DnsHeaders == { [kind |-> "header", before |-> b, received |-> h, code |-> c, counts |-> n] :
                  b, h \in Headers12, c \in 0..(R_RESERVED - 1), n \in Counts12 }
Golay == { [kind |-> "golay", data |-> d, errors |-> e] : d \in Data, e \in Patterns }
RM    == { [kind |-> "rm", message |-> m, errors |-> e] :
             m \in RmMessages, e \in { {} } \cup { { x, y } : x, y \in 0..(rm_n - 1) } }
Comb  == { [kind |-> "comb", r |-> r, a |-> a] : r \in { 2, 3 }, a \in CombinationsOf(CombN, 2) \cup CombinationsOf(CombN, 3) }

Init ==
    /\ \/ job \in Wire \/ job \in Dns \/ job \in Suffixed \/ job \in DnsHeaders \/ job \in Answers \/ job \in Golay \/ job \in RM \/ job \in WebJobs
       \/ job \in { c \in Comb : DOMAIN c.a = 0..c.r }
    /\ decoded = FALSE
Decode == ~decoded /\ decoded' = TRUE /\ UNCHANGED job
Next == Decode
Spec == Init /\ [][Next]_vars

\* Wire messages fit the buffer they are written to (PlexusWire!SizeExact).
WireSizes == decoded /\ job.kind = "wire" => SizeExact(job.m)
\* Wire messages arrive as they were sent (PlexusWire!RoundTrip).
WireRoundTrip == decoded /\ job.kind = "wire" => RoundTrip(job.m, job.tail)
\* Gateway and home agent read each other's messages (PlexusWire!AbsGetRead,
\* AbsReplyRead).
AbsAgrees == decoded /\ job.kind = "wire" => AbsGetRead(job.m) /\ AbsReplyRead(job.m)
\* The device name is the name without a suffix (DnsCodec!SuffixExact).
SuffixesRemoved == decoded /\ job.kind = "suffix" => SuffixExact(job.name, job.suffixes)
\* The DNS parser accepts exactly the well-formed bodies (DnsCodec!ParserExact).
DnsParserExact == decoded /\ job.kind = "dns" => ParserExact(job.counts, job.buf)
\* DNS replies repeat their queries (DnsCodec!ReplyRepeats).
DnsReplyRepeats == decoded /\ job.kind = "dns" => ReplyRepeats(job.counts, job.buf)
\* Reply headers hold their own query's fields only (DnsCodec!HeaderOwn).
DnsHeadersOwn == decoded /\ job.kind = "header" => HeaderOwn(job.before, job.received, job.code, job.counts)
\* Answers of home agents are read whole or refused
\* (CrawlerParser!GetallExact, ContmetaExact).
AnswersRead ==
    /\ decoded /\ job.kind = "getall" => GetallExact(job.doc, job.pad)
    /\ decoded /\ job.kind = "contmeta" => ContmetaExact(job.videos, job.pad)
\* The Golay code corrects three errors (OverlayCodes!GolayCorrects).
GolayDecodes == decoded /\ job.kind = "golay" => GolayCorrects(job.data, job.errors)
\* The Reed-Muller code corrects or gives up (OverlayCodes!RMCorrects).
RMDecodes == decoded /\ job.kind = "rm" => RMCorrects(job.message, job.errors)
\* nextcomb enumerates all combinations (OverlayCodes!Successor).
CombSuccessor == decoded /\ job.kind = "comb" => Successor(CombN, job.r, job.a)

\* Paths have no ".." left (WebRules!Confined).
PathsConfined == decoded /\ job.kind = "path" => Confined(job.s)
\* Patterns match what they stand for (WebRules!GlobExact).
PatternsMatch == decoded /\ job.kind = "glob" => GlobExact(job.pieces, job.other, job.s)
\* Requests end at the same octet however they arrive (WebRules!ReadStable).
RequestEnds == decoded /\ job.kind = "request" => ReadStable(job.s)
\* Requests and quoted values are read as they were written
\* (WebRules!HttpRoundTrip, QuotedRoundTrip).
RequestsParsed ==
    /\ decoded /\ job.kind = "http" => HttpRoundTrip(job.r)
    /\ decoded /\ job.kind = "quoted" => QuotedRoundTrip(job.s, Backslash, 34)
\* Query variables and links decode to what was encoded (WebRules!VarExact, UrlRoundTrip).
VariablesFound ==
    /\ decoded /\ job.kind = "var" => VarExact(job.variables, job.name)
    /\ decoded /\ job.kind = "url" => UrlRoundTrip(job.s)
\* Dates are right to the day, or one day late (WebRules!DateWithinADay).
DatesRight == decoded /\ job.kind = "date" => DateWithinADay(job.date[1], job.date[2], job.date[3])
\* The last rule that matches decides (WebRules!AclExact).
AclDecides == decoded /\ job.kind = "acl" => AclExact(job.rules, job.ip)
\* Listings are ordered consistently (WebRules!SortConsistent).
ListingSorted == decoded /\ job.kind = "sort" =>
    SortConsistent(job.e[1], job.e[2], job.e[3], job.by, job.down)
\* Ranges yield the octets they name (WebRules!RangeExact).
RangesExact == decoded /\ job.kind = "range" => RangeExact(job.file, job.range)
\* addenv, prepare_cgi_environment: the block holds what fits, whole (EnvExact).
EnvironmentFits == decoded /\ job.kind = "env" => EnvExact(job.sizes)
\* set_throttle, mg_write: every octet is written once (ThrottleExact).
ThrottleWrites ==
    decoded /\ job.kind = "throttle" => ThrottleExact(job.rules, job.client, job.last, job.len)

\* The server listens on all its ports or on none (WebRules!PortsExact).
PortsOpened == decoded /\ job.kind = "ports" => PortsExact(job.specs, job.certificate, job.taken)

-----------------------------------------------------------------------------

\* Every message of the overlay is read back as it was written, and fits the
\* buffer getSize() asks for (serialize, deserialize and getSize of each class);
\* so are the messages between gateway and home agent, which the gateway writes
\* and reads with code of its own (haproxy.cpp).
WireExact == WireSizes /\ WireRoundTrip /\ AbsAgrees
\* parse_dns_query accepts exactly the well-formed queries, a reply that can be
\* composed repeats its query's sections, nothing of an earlier reply is left in
\* its header (dnsspeaker.cpp, dnsquery.cpp), and the device name asked for is the
\* name in the question without a suffix (haproxy.cpp).
DnsExact == DnsParserExact /\ DnsReplyRepeats /\ DnsHeadersOwn /\ SuffixesRemoved
\* Both codes correct every error pattern up to half their distance, and
\* nextcomb visits the combinations in order (golay.c, ReedMuller).
CodesCorrect == GolayDecodes /\ RMDecodes /\ CombSuccessor
\* What comes over the network is read whole or refused: a home agent's answer
\* (parser.hpp), and a request's end, lines, path, patterns and variables, none
\* of which may lead out of the document root (mongoose.c).
RequestsExact == AnswersRead /\ PathsConfined /\ PatternsMatch /\ RequestEnds /\ RequestsParsed /\ VariablesFound
\* What the web server decides and sends agrees with the plain definition of it:
\* dates, access lists, listings, ranges, the CGI environment within its limits,
\* throttled writes, listening ports (mongoose.c).
RulesExact ==
    /\ DatesRight /\ AclDecides /\ ListingSorted
    /\ RangesExact /\ EnvironmentFits /\ ThrottleWrites /\ PortsOpened
=============================================================================
