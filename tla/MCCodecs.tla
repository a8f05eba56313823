------------------------------ MODULE MCCodecs ------------------------------
(* Instance of Codecs. *)
EXTENDS Codecs
MCTables == { << >>, << 1 >>, << 2, 0 >> }
MCTails == { << >>, << << << "heap", 0 >>, 1 >> >> }
\* Every body of up to four octets; labels that are short, too long, hold a dot
\* or are cut off, followed by what may end a question or a record; and two
\* entries in a row.
One == { << 1, 0, 0, 0 >>, << 0, 1, 0, 0 >>, << 0, 0, 1, 0 >>, << 0, 0, 0, 1 >> }
Labels == { << >>, << 1, 7 >>, << 2, 7, 7 >>, << 1, 46 >>, << 2, 7, 46 >>, << 2, 46, 7 >>, << 3, 7, 7, 7 >>, << 2, 7 >> }
Ends == { << 0 >>, << 0, 0, 9 >>, << 0, 0, 0, 0 >>, << 0, 0, 0, 0, 0 >>, << 0, 0, 0, 0, 1, 7 >>, << 0, 0, 0, 0, 2, 7, 7 >> }
Entry == { l \o e : l \in Labels, e \in { << 0, 0, 9 >>, << 0, 0, 0, 0, 1, 7 >>, << 0, 0 >> } }
MCDnsInputs ==
    ({ << 0, 0, 0, 0 >> } \cup One) \X UNION { [1..n -> { 0, 1, 2, 46 }] : n \in 0..4 }
    \cup One \X { k \o l \o m \o e : k, l, m \in Labels, e \in Ends }
    \cup { << 2, 0, 0, 0 >>, << 1, 1, 0, 0 >>, << 1, 0, 0, 1 >>, << 0, 1, 1, 0 >> } \X { a \o b : a, b \in Entry }
\* Names over two letters and their capitals, and suffixes that are shorter and
\* longer than the name, in any order.
MCDeviceNames ==
    (UNION { [1..n -> { 97, 65, 98 }] : n \in 0..3 })
    \X (UNION { [1..n -> { << 97 >>, << 98 >>, << 98, 97 >>, << 97, 98, 97 >> }] : n \in 0..3 })
MCHeaders12 == { [i \in 0..11 |-> IF i < 2 THEN id[i + 1] ELSE IF i = 2 THEN f ELSE IF i = 3 THEN g ELSE 0] :
                   id \in { << 1, 0 >>, << 255, 254 >> }, f \in { 0, 127, 255 }, g \in { 0, 255 } }
MCCounts12 == { << 1, 0, 0, 0 >>, << 1, 2, 256, 65535 >> }
MCData == { {}, { 0 }, { 11 }, { 0, 3, 7 }, 0..11 }
MCRmMessages == { {} } \cup { { p } : p \in 1..11 } \cup { { 1, 3, 7 }, 1..11 }

\* Answers with none, one and two records, texts with blanks, commas, an empty
\* one and one that is not ASCII.
Word == << << "char", "a" >>, Space, << "char", "b" >> >>
Strange == << << "char", "a" >>, << "wide", "e" >> >>
Agents == { << << << "char", "a" >> >>, Word, << << "digit", 8 >> >> >> }
Devices(text) == { << text, << >>, << << "digit", 8 >> >>, text, n, text, << Separator >> >> : n \in { 1, -12 } }
Lists(all) == { << >> } \cup { << a >> : a \in all } \cup { << a, b >> : a, b \in all }
Films == { << n, Word, s, << >>, Word, a >> : n \in { 1, -7 }, s \in { 12 }, a \in { "Public", "Not Shared" } }
MCAnswers ==
    { [kind |-> "getall", doc |-> [haname |-> Word, homeagents |-> l, devices |-> d, updates |-> u], pad |-> p] :
        l \in Lists(Agents), d \in { << >> } \cup { << v >> : v \in Devices(Word) \cup Devices(Strange) },
        u \in { << >>, << Word, << << "char", "b" >> >> >> }, p \in { << >> } }
    \cup { [kind |-> "getall", doc |-> [haname |-> << >>, homeagents |-> << >>, devices |-> d, updates |-> << << >>, Word >>], pad |-> << Space >>] :
              d \in Lists(Devices(Word)) }
    \cup { [kind |-> "contmeta", videos |-> v, pad |-> p] : v \in Lists(Films), p \in { << Space >> } }

\* The functions of the web server, over all short texts of the characters they
\* tell apart.
Texts(chars, n) == UNION { [1..k -> chars] : k \in 0..n }
LetterA == 97
LetterB == 98
Pieces == { << LetterA >>, << Slash >>, << StarSign >>, << StarSign, StarSign >>, << Question >> }
Stars == { << StarSign >>, << StarSign, StarSign >> }
Patterns3 == { p \in Texts(Pieces, 3) : p # << >> /\
                 \A i \in 1..(Len(p) - 1) : ~(p[i] \in Stars /\ p[i + 1] \in Stars) }
Headers == { << << LetterA >>, << LetterB >> >>, << << 65 >>, << >> >>, << << LetterB >>, << LetterA, Blank, Colon >> >> }
Variables == { << << LetterA >>, << LetterB >> >>, << << 65 >>, << >> >>,
               << << LetterB, LetterA >>, << LetterA, Equals, LetterB >> >>, << << LetterB >>, << Ampersand, LetterA, Equals >> >> }
Rules == { r \in [flag : { "+", "-" }, net : 0..7, slash : 0..3] : r.net % 2^(3 - r.slash) = 0 }
Specs == { t \in [ip : 0..2, number : BOOLEAN, port : { 1, 2, 9 }, suffix : { "", "s", "r", "x" }] : t.number \/ t.port = 1 }
DirEntries == [is_directory : BOOLEAN, n : 1..2, s : 1..2]
MCWebJobs ==
    { [kind |-> "path", s |-> s] : s \in Texts({ Slash, Backslash, Period, LetterA }, 5) }
    \cup { [kind |-> "glob", pieces |-> p \o e, other |-> o, s |-> s] :
             p \in Patterns3, e \in { << >>, << << Dollar >> >> },
             o \in { << LetterA >>, << StarSign, Dollar >> }, s \in Texts({ LetterA, Slash }, 3) }
    \cup { [kind |-> "request", s |-> s] : s \in Texts({ LF, CR, LetterA, 1 }, 6) }
    \cup { [kind |-> "http", r |-> [method |-> << LetterA >>, uri |-> u, version |-> << LetterB >>, headers |-> h]] :
             u \in { << Slash >>, << Slash, Question >> }, h \in Texts(Headers, 3) }
    \cup { [kind |-> "quoted", s |-> s] :
             s \in { t \in Texts({ LetterA, 34, Backslash }, 5) : t = << >> \/ Last(t) # Backslash } }
    \cup { [kind |-> "var", variables |-> v, name |-> x] :
             v \in Texts(Variables, 3), x \in { << LetterA >>, << LetterB >>, << LetterB, LetterA >> } }
    \cup { [kind |-> "url", s |-> s] : s \in Texts({ LetterA, PercentSign, PlusSign, Blank, 50 }, 3) }
    \cup { [kind |-> "date", date |-> << y, m, d >>] :
             y \in { 1971, 1972, 1999, 2000, 2001, 2011, 2012, 2013, 2100, 2101 }, m \in 1..12, d \in { 1, 28 } }
    \cup { [kind |-> "acl", rules |-> r, ip |-> i] : r \in Texts(Rules, 2), i \in 0..7 }
    \cup { [kind |-> "sort", e |-> e, by |-> b, down |-> w] :
             e \in [1..3 -> DirEntries], b \in { "n", "s" }, w \in BOOLEAN }
    \cup { [kind |-> "range", file |-> << 1, 2, 3 >>, range |-> r] : r \in Texts(0..4, 2) }
    \cup { [kind |-> "ports", specs |-> t, certificate |-> c, taken |-> k] :
             t \in Texts(Specs, 2), c \in BOOLEAN, k \in { {}, { [ip |-> 1, port |-> 2] } } }
    \cup { [kind |-> "env", sizes |-> e] : e \in Texts(1..8, 4) }
    \cup { [kind |-> "throttle", rules |-> r, client |-> 1, last |-> l, len |-> n] :
             r \in Texts([for : { { 1 }, { 2 } }, rate : -1..3], 2), l \in 0..4, n \in 0..7 }
=============================================================================
