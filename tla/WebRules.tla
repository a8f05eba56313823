------------------------------ MODULE WebRules ------------------------------
(***************************************************************************)
(* What the web server computes from its options and from file attributes: *)
(* dates, access lists, the order of a listing, the octets a range asks    *)
(* for; and what the text functions are meant to do.                       *)
(***************************************************************************)
EXTENDS WebText

CONSTANTS
    EnvSize,        \* CGI_ENVIRONMENT_SIZE, 4096 in the code
    EnvVars         \* MAX_CGI_ENVIR_VARS, 64 in the code

ASSUME RulesAssumption == EnvSize \in Nat /\ EnvSize > 3 /\ EnvVars \in Nat /\ EnvVars > 2

-----------------------------------------------------------------------------
(* Dates, in days: the time of day is added unchanged. *)

days_before_month == << 0, 31, 59, 90, 120, 151, 181, 212, 243, 273, 304, 334 >>
num_leap_years(year) == year \div 4 - year \div 100 + year \div 400

\* Zero stands for "not understood"; the year must be after 1970.
parse_date_string(year, month, day) ==
    IF year <= 1970 THEN 0
    ELSE (year - 1970) * 365 + days_before_month[month] + (day - 1)
         + num_leap_years(year) - num_leap_years(1970)

-----------------------------------------------------------------------------
(* Access lists.  A rule holds a network, or an invalid one. *)

Masked(ip, slash) == (ip \div 2^(Width - slash)) * 2^(Width - slash)
parse_net(rule) == rule.slash \in 0..Width /\ rule.net \in 0..(2^Width - 1)

\* Variant: the first rule that matches decides.
check_acl_first(rules, ip) ==
    IF rules = << >> THEN 1
    ELSE IF \E i \in DOMAIN rules : rules[i].flag \notin { "+", "-" } \/ ~parse_net(rules[i]) THEN -1
    ELSE LET S == { i \in DOMAIN rules : rules[i].net = Masked(ip, rules[i].slash) }
         IN  IF S # {} /\ rules[Min(S)].flag = "+" THEN 1 ELSE 0

\* No list allows all; else what the last rule that matches says, and no
\* without one.  -1 for a list that is malformed, found at start-up.
check_acl(rules, ip) ==
    IF rules = << >> THEN 1
    ELSE IF \E i \in DOMAIN rules : rules[i].flag \notin { "+", "-" } \/ ~parse_net(rules[i]) THEN -1
    ELSE LET S == { i \in DOMAIN rules : rules[i].net = Masked(ip, rules[i].slash) }
         IN  IF S # {} /\ rules[Max(S)].flag = "+" THEN 1 ELSE 0

-----------------------------------------------------------------------------
(* The order of a directory listing.  by is the first letter of the query   *)
(* ("n", "s", "d"), down whether its second is 'd'.                          *)

Sign(a, b) == IF a = b THEN 0 ELSE IF a > b THEN 1 ELSE -1

compare_dir_entries(a, b, by, down) ==
    LET cmp == Sign(a[by], b[by])
    IN  IF a.is_directory # b.is_directory THEN (IF a.is_directory THEN -1 ELSE 1)
        ELSE IF down THEN -cmp ELSE cmp

-----------------------------------------------------------------------------
(* The octets of a file that are announced and sent.                        *)
(* range is <<>>, <<r1>> ("bytes=r1-") or <<r1, r2>>.                        *)

handle_file_request(file, range) ==
    LET r1 == IF range = << >> THEN 0 ELSE range[1]
        cl == IF Len(range) = 2 THEN range[2] - r1 + 1 ELSE Len(file) - r1
    IN  [status |-> IF range = << >> THEN 200 ELSE 206, length |-> cl,
         sent |-> SubSeq(file, r1 + 1, IF r1 + cl <= Len(file) THEN r1 + cl ELSE Len(file))]

-----------------------------------------------------------------------------
(* The environment of a script: a block of EnvSize octets that holds the     *)
(* NAME=VALUE texts one behind the other, and EnvVars pointers into it.      *)
(* A text is given by its length.                                            *)

mg_vsnprintf(n, space) == IF space = 0 THEN 0 ELSE IF n >= space THEN space - 1 ELSE n

\* What does not fit is left out, and what follows is tried again.
addenv(blk, n) ==
    LET space == EnvSize - blk.len - 2
        m == mg_vsnprintf(n, space)
    IN  IF m > 0 /\ m + 1 < space /\ Len(blk.vars) < EnvVars - 2
        THEN [len |-> blk.len + m + 1, vars |-> Append(blk.vars, << blk.len, m >>)] ELSE blk

\* sizes: the variables of the server, of the request, of its headers, and those
\* of the option cgi_environment, in the order of the code.  A null pointer and
\* an empty text end the two.
prepare_cgi_environment(sizes) ==
    LET blk == FoldLeft(addenv, [len |-> 0, vars |-> << >>], sizes)
    IN  [len |-> blk.len + 1, vars |-> Append(blk.vars, << >>)]

-----------------------------------------------------------------------------
(* Throttling.  A rule names the clients and URIs it is for, and a rate.     *)

set_throttle(rules, client) ==
    LET S == { i \in DOMAIN rules : rules[i].rate >= 0 /\ client \in rules[i].for }
    IN  IF S = {} THEN 0 ELSE rules[Max(S)].rate

\* Pieces of n octets, the last one shorter.
PiecesOf(total, n) ==
    [i \in 1..((total + n - 1) \div n) |-> Min({ n, total - (i - 1) * n })]

\* The pieces that mg_write pushes, one a second, where last octets have already
\* been written in this second; if those are more than the rate, nothing is.
mg_write(throttle, last, len) ==
    IF throttle = 0 THEN << len >>
    ELSE IF last > throttle THEN << >>
    ELSE << Min({ throttle - last, len }) >> \o PiecesOf(len - Min({ throttle - last, len }), throttle)

-----------------------------------------------------------------------------
(* Listening sockets.  A spec has an address or not (0: any), a number or  *)
(* not, and what follows the number.                                       *)

\* What follows is looked at only without an address; the port has Width bits.
parse_port_string(spec) ==
    IF ~spec.number \/ (spec.ip = 0 /\ spec.suffix \notin { "", "s", "r" }) THEN [ok |-> FALSE]
    ELSE [ok |-> TRUE, ip |-> spec.ip, port |-> spec.port % 2^Width,
          is_ssl |-> spec.suffix = "s", ssl_redir |-> spec.suffix = "r"]

\* bind, listen: the port is free at that address.
CanBind(so, bound) == \A b \in bound : b.port # so.port \/ (b.ip # so.ip /\ 0 \notin { b.ip, so.ip })

\* Sockets are opened one by one until a spec fails; then all are closed.
close_all_listening_sockets(ctx) == [ctx EXCEPT !.success = FALSE, !.sockets = << >>]
set_ports_option(specs, certificate, taken) ==
    FoldLeft(LAMBDA ctx, spec :
                 LET so == parse_port_string(spec)
                 IN  IF ~ctx.success THEN ctx
                     ELSE IF ~so.ok \/ (so.is_ssl /\ ~certificate) \/ ~CanBind(so, taken \cup Range(ctx.sockets))
                     THEN close_all_listening_sockets(ctx)
                     ELSE [ctx EXCEPT !.sockets = Append(@, so)],
             [success |-> TRUE, sockets |-> << >>], specs)

-----------------------------------------------------------------------------
(* What these functions are meant to do. *)

\* A path the server maps to a file has no empty and no ".." component, and a
\* path without them is left as it is (remove_double_dots_and_double_slashes).
Confined(s) ==
    LET Bad(t) == \E i \in 1..(Len(t) - 1) :
                    /\ t[i] \in Slashes
                    /\ t[i + 1] \in Slashes
                       \/ (i + 2 <= Len(t) /\ t[i + 1] = Period /\ t[i + 2] = Period)
        t == remove_double_dots_and_double_slashes(s)
    IN  ~Bad(t) /\ (~Bad(s) => t = s)

\* What is encoded for a link of a listing decodes to the file's name, however
\* full the buffer is as long as the worst case fits (url_encode, url_decode).
UrlRoundTrip(s) == \A dst_len \in (3 * Len(s) + 2)..(3 * Len(s) + 3) :
    url_decode(url_encode(s, dst_len), Len(s) + 1, FALSE) = s

\* match_prefix against its definition: a pattern is a sequence of pieces, and
\* matches a prefix that can be cut into parts for them; it finds a match when
\* there is one, and alternatives are tried in turn.
Piece(p, part, last) ==
    CASE p = << StarSign, StarSign >> -> TRUE
      [] p = << StarSign >> -> \A i \in DOMAIN part : part[i] # Slash
      [] p = << Question >> -> Len(part) = 1
      [] p = << Dollar >> -> part = << >> /\ last
      [] OTHER -> part = p

Lengths_of(pieces, s) ==
    LET n == Len(pieces)
        cuts == { c \in [0..n -> 0..Len(s)] : c[0] = 0 /\ \A i \in 1..n : c[i - 1] <= c[i] }
    IN  { c[n] : c \in { c \in cuts : \A i \in 1..n :
            Piece(pieces[i], SubSeq(s, c[i - 1] + 1, c[i]), c[i] = Len(s)) } }

GlobExact(pieces, other, s) ==
    LET p == FlattenSeq(pieces)
        lens == Lengths_of(pieces, s)
    IN  /\ IF lens = {} THEN match_prefix(p, s) = -1 ELSE match_prefix(p, s) \in lens
        /\ match_prefix(p \o << Bar >> \o other, s) > 0
             <=> match_prefix(p, s) > 0 \/ match_prefix(other, s) > 0

\* Where a request ends, and whether it is malformed, does not depend on how
\* its octets were cut into reads (get_request_len, read_request).
ReadStable(buf) == \A k \in 0..Len(buf) :
    LET n == get_request_len(SubSeq(buf, 1, k)) IN n # 0 => get_request_len(buf) = n

\* A request is parsed into what it was written from, its first MAX_HEADERS
\* headers at least, and a header is found by name (parse_http_message).
Line(h) == h[1] \o << Colon, Blank >> \o h[2] \o << CR, LF >>
HttpText(r) == r.method \o << Blank >> \o r.uri \o << Blank >> \o r.version \o << CR, LF >>
               \o FlattenSeq([i \in DOMAIN r.headers |-> Line(r.headers[i])]) \o << CR, LF >>

HttpRoundTrip(r) ==
    LET p == parse_http_message(HttpText(r))
        kept == SubSeq(r.headers, 1, Min({ Len(r.headers), MAX_HEADERS }))
    IN  /\ p = [r EXCEPT !.headers = kept]
        /\ \A i \in DOMAIN kept : get_header(p.headers, kept[i][1]) =
             << kept[Min({ j \in DOMAIN kept : SameName(kept[j][1], kept[i][1]) })][2] >>

\* A quoted value is read back without its escapes (skip_quoted).
Escaped(s, quote, q) == FlattenSeq([i \in DOMAIN s |-> IF s[i] = q THEN << quote, q >> ELSE << s[i] >>])
QuotedRoundTrip(s, quote, q) ==
    skip_quoted(Escaped(s, quote, q) \o << q >>, { q }, { Blank }, quote).word = s

\* The value of a variable is the one of its first occurrence in the query, and
\* no other variable's value or name is mistaken for it (mg_get_var).
Pair(v) == v[1] \o << Equals >> \o url_encode(v[2], 3 * Len(v[2]) + 2)
Query(variables) == FlattenSeq([i \in DOMAIN variables |->
    (IF i = 1 THEN << >> ELSE << Ampersand >>) \o Pair(variables[i])])

VarExact(variables, name) ==
    LET S == { i \in DOMAIN variables : SameName(variables[i][1], name) }
        found == mg_get_var(Query(variables), name, 100)
    IN  IF S = {} THEN found = << >> ELSE found = << variables[Min(S)][2] >>

\* A date is the number of days since 1970, but for
\* one day more in January and February of a leap year (parse_date_string).
IsLeap(y) == y % 4 = 0 /\ (y % 100 # 0 \/ y % 400 = 0)
DaysBefore(y, m) == days_before_month[m] + (IF IsLeap(y) /\ m > 2 THEN 1 ELSE 0)
DaysSince1970(y, m, d) ==
    365 * (y - 1970) + Cardinality({ x \in 1970..(y - 1) : IsLeap(x) }) + DaysBefore(y, m) + d - 1
DateWithinADay(y, m, d) ==
    parse_date_string(y, m, d) - DaysSince1970(y, m, d) = IF IsLeap(y) /\ m <= 2 THEN 1 ELSE 0

\* Of the rules whose network an address is in, the last one decides
\* (check_acl; networks are written without host bits).
AclExact(rules, ip) ==
    LET In(r) == \E host \in 0..(2^(Width - r.slash) - 1) : ip = r.net + host
        hits == { i \in DOMAIN rules : In(rules[i]) }
    IN  rules # << >> =>
        (check_acl(rules, ip) = 1) = (\E i \in hits : rules[i].flag = "+" /\ \A j \in hits : j <= i)

\* The order handed to qsort is one: antisymmetric and transitive, with
\* directories before files in both directions (compare_dir_entries).
SortConsistent(a, b, c, by, down) ==
    /\ compare_dir_entries(a, b, by, down) = -compare_dir_entries(b, a, by, down)
    /\ compare_dir_entries(a, b, by, down) <= 0 /\ compare_dir_entries(b, c, by, down) <= 0
         => compare_dir_entries(a, c, by, down) <= 0
    /\ a.is_directory /\ ~b.is_directory => compare_dir_entries(a, b, by, down) < 0

\* A range inside the file yields its octets, as many as announced, and no
\* answer is longer than announced (handle_file_request, send_file_data).
RangeExact(file, range) ==
    LET r == handle_file_request(file, range)
        first == IF range = << >> THEN 0 ELSE range[1]
        last == IF Len(range) = 2 THEN range[2] ELSE Len(file) - 1
    IN  /\ Len(r.sent) <= IF r.length > 0 THEN r.length ELSE 0
        /\ first <= last /\ last < Len(file) =>
             r.length = Len(r.sent) /\ r.sent = SubSeq(file, first + 1, last + 1)
\* However many variables a request brings and however long they are, block and
\* pointers stay inside their arrays with room for what ends them, the variables
\* do not overlap, none is cut, and one is left out only if the block or the
\* pointers had no room for it (addenv, prepare_cgi_environment).
EnvExact(sizes) ==
    LET e == prepare_cgi_environment(sizes)
        n == Len(e.vars) - 1
    IN  /\ Len(e.vars) < EnvVars /\ 0 < e.len /\ e.len < EnvSize
        /\ \A i \in 1..n : e.vars[i][1] = FoldLeft(LAMBDA x, v : x + v[2] + 1, 0, SubSeq(e.vars, 1, i - 1))
        /\ \E kept \in { S \in SUBSET DOMAIN sizes : Cardinality(S) = n } :
              /\ \A i \in 1..n : e.vars[i][2] = sizes[SetToSortSeq(kept, <)[i]]
              /\ \A j \in DOMAIN sizes \ kept :
                    LET before == { k \in kept : k < j }
                    IN  \/ MapThenSumSet(LAMBDA k : sizes[k] + 1, before) + sizes[j] + 4 > EnvSize
                        \/ Cardinality(before) >= EnvVars - 2

\* Whatever the rate, what is to be written is written exactly once and never
\* more than the rate in one piece, unless the second has already seen more than
\* the rate, which happens when the connection before had a higher one
\* (set_throttle, mg_write).
ThrottleExact(rules, client, last, len) ==
    LET rate == set_throttle(rules, client)
        w == mg_write(rate, last, len)
    IN  rate = 0 \/ last <= rate =>
            /\ FoldLeft(+, 0, w) = len
            /\ rate > 0 => \A i \in DOMAIN w : w[i] <= rate

\* All ports or none: the server listens on every spec of its list, in order and
\* each on its own address, or the list has a spec that cannot be had and no
\* socket stays open (set_ports_option).
PortsExact(specs, certificate, taken) ==
    LET ctx == set_ports_option(specs, certificate, taken)
        sos == [i \in DOMAIN specs |-> parse_port_string(specs[i])]
    IN  /\ ctx.success => ctx.sockets = sos
        /\ ~ctx.success =>
              /\ ctx.sockets = << >>
              /\ \E i \in DOMAIN sos :
                    \/ ~sos[i].ok
                    \/ sos[i].is_ssl /\ ~certificate
                    \/ \E b \in taken \cup { sos[j] : j \in { k \in 1..(i - 1) : sos[k].ok } } :
                          b.port = sos[i].port /\ (b.ip = sos[i].ip \/ 0 \in { b.ip, sos[i].ip })
=============================================================================
