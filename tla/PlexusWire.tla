------------------------------ MODULE PlexusWire ------------------------------
(***************************************************************************)
(* The wire format of a Plexus peer: every message class writes itself     *)
(* into a buffer of getSize() octets (serialize) and reads itself back by  *)
(* counting offsets (deserialize).  The three functions of a class are     *)
(* written by hand, so the layout that is written, the layout that is read *)
(* and the size that is allocated can drift apart.                         *)
(*                                                                         *)
(* What an integer, a double or a character says does not matter here: the *)
(* value of a field is its own name, so any two fields that get mixed up   *)
(* are told apart.  Lengths of strings do matter and are numbers.          *)
(***************************************************************************)
EXTENDS Naturals, Sequences, SequencesExt

CONSTANTS
    Lengths,    \* lengths a string may have
    Tables,     \* routing tables: sequences of the lengths of the host names
    Tails,      \* what may follow an unterminated string in the heap
    AbsSend,    \* size of hasendconnection::buf_: 256
    AbsRecv     \* size of harecvconnection::buf_: 256

\* A field of a layout.  The second part of a name numbers the three integers
\* of an overlay id and the entries of a routing table.
Field(kind, name, i) == [kind |-> kind, name |-> <<name, i>>]
C(name) == Field("char", name, 0)
I(name) == Field("int", name, 0)
D(name) == Field("double", name, 0)
S(name) == Field("str", name, 0)
Z(name) == Field("strz", name, 0)
Oid(name) == [i \in 1..3 |-> Field("int", name, i)]

-----------------------------------------------------------------------------
(* The layouts.  A message m gives every string field a length.            *)

Base_write ==
    << C("messageType"), I("sequence_no"), S("dest_host"), I("dest_port"), S("source_host"),
       I("source_port"), C("overlay_hops"), C("overlay_ttl"), I("ip_hops"), D("latency") >>
    \o Oid("dst_oid") \o Oid("src_oid")

Base_read ==
    << C("messageType"), I("sequence_no"), S("dest_host"), I("dest_port"), S("source_host"),
       I("source_port"), C("overlay_hops"), C("overlay_ttl"), I("ip_hops"), D("latency") >>
    \o Oid("dst_oid") \o Oid("src_oid")

getBaseSize(m) == 3 + 12 * 4 + m["dest_host"] + m["source_host"] + 8

MessageGET_write == Oid("target_oid") \o << S("deviceName") >>
MessageGET_read  == Oid("target_oid") \o << S("deviceName") >>
\* The function has no return statement; built as the repository's scripts
\* build it, without optimisation, the sum is left where the caller reads it.
MessageGET_getSize(m) == getBaseSize(m) + 4 * 4 + m["deviceName"]

MessageGET_REPLY_write ==
    << I("resolution_status"), I("resolution_hops"), I("resolution_ip_hops"),
       D("resolution_latency"), I("origin_seq_no") >>
    \o Oid("target_oid") \o << S("hostName"), I("hostPort"), S("deviceName") >>
\* Each character of the host name is copied with the size of an integer into
\* a char variable; the first octet is the character and the offset advances
\* by one, so the value read is right (the other three octets land next to it).
MessageGET_REPLY_read ==
    << I("resolution_status"), I("resolution_hops"), I("resolution_ip_hops"),
       D("resolution_latency"), I("origin_seq_no") >>
    \o Oid("target_oid") \o << S("hostName"), I("hostPort"), S("deviceName") >>
MessageGET_REPLY_getSize(m) == getBaseSize(m) + 10 * 4 + m["hostName"] + m["deviceName"] + 8

MessagePUT_write == Oid("target_oid") \o << S("deviceName"), S("hostName"), I("hostPort") >>
MessagePUT_read  == Oid("target_oid") \o << S("deviceName"), S("hostName"), I("hostPort") >>
MessagePUT_getSize(m) == getBaseSize(m) + 4 * 4 + m["deviceName"] + 2 * 4 + m["hostName"]

MessagePUT_REPLY_write ==
    << I("resolution_status"), I("resolution_hops"), I("resolution_ip_hops"),
       D("resolution_latency"), I("origin_seq_no") >> \o Oid("target_oid") \o << S("deviceName") >>
MessagePUT_REPLY_read ==
    << I("resolution_status"), I("resolution_hops"), I("resolution_ip_hops"),
       D("resolution_latency"), I("origin_seq_no") >> \o Oid("target_oid") \o << S("deviceName") >>
MessagePUT_REPLY_getSize(m) == getBaseSize(m) + 8 * 4 + m["deviceName"] + 8

RetrieveMessage_write == << S("deviceName") >>
RetrieveMessage_read  == << S("deviceName") >>
RetrieveMessage_getSize(m) == getBaseSize(m) + 4 + m["deviceName"]

MessageRetrieveReply_write ==
    << I("resolution_status"), I("resolution_hops"), I("resolution_ip_hops"),
       D("resolution_latency"), I("origin_seq_no"), S("hostName"), I("hostPort"), S("deviceName") >>

\* Variant: two fields are read in the wrong order.
MessageRetrieveReply_read_swapped ==
    << I("resolution_status"), I("resolution_hops"), I("resolution_ip_hops"),
       I("origin_seq_no"), D("resolution_latency"), S("hostName"), I("hostPort"), S("deviceName") >>

MessageRetrieveReply_read ==
    << I("resolution_status"), I("resolution_hops"), I("resolution_ip_hops"),
       D("resolution_latency"), I("origin_seq_no"), S("hostName"), I("hostPort"), S("deviceName") >>
MessageRetrieveReply_getSize(m) == getBaseSize(m) + 7 * 4 + m["hostName"] + m["deviceName"] + 8

PeerInitiateGET_write == << S("deviceName") >>
PeerInitiateGET_read  == << S("deviceName") >>
PeerInitiateGET_getSize(m) == getBaseSize(m) + 4 + m["deviceName"]

PeerInitiatePUT_write == << S("deviceName"), S("hostName"), I("hostPort") >>
PeerInitiatePUT_read  == << S("deviceName"), S("hostName"), I("hostPort") >>
PeerInitiatePUT_getSize(m) == getBaseSize(m) + 4 + m["deviceName"] + 4 + m["hostName"] + 4

PeerConfigMessage_write == << I("parameter_k"), D("parameter_alpha") >>
PeerConfigMessage_read  == << I("parameter_k"), D("parameter_alpha") >>
PeerConfigMessage_getSize(m) == getBaseSize(m) + 4 + 8

\* PeerChangeStatusMessage and PeerDynChangeStatusMessage write an integer
\* that getSize does not count.
ChangeStatus_write == << I("peer_status") >>
ChangeStatus_read  == << I("peer_status") >>
ChangeStatus_getSize(m) == getBaseSize(m)

DynChangeStatus_write == << I("dyn_status") >>
DynChangeStatus_read  == << I("dyn_status") >>
DynChangeStatus_getSize(m) == getBaseSize(m)

\* One routing table entry.
TableEntry(i) == << Field("int", "rt_oid", i), Field("int", "rt_prefix", i), Field("int", "rt_max", i),
                    Field("str", "rt_host", i), Field("int", "rt_port", i) >>
TableEntries(n) == FlattenSeq([i \in 1..n |-> TableEntry(i)])

PeerInitMessage_write(m) ==
    << I("n_peers"), I("k"), D("alpha"), I("publish_name_range_start"), I("publish_name_range_end"),
       I("lookup_name_range_start"), I("lookup_name_range_end"), I("webserver_port"),
       I("run_sequence_no"), S("peer_name"), S("log_server_name"), S("log_server_user"),
       I("routingTableSize") >> \o TableEntries(Len(m["routing_table"]))
\* log_server_name and log_server_user are made from buffers without a
\* terminating zero; peer_name is terminated.
PeerInitMessage_read ==
    << I("n_peers"), I("k"), D("alpha"), I("publish_name_range_start"), I("publish_name_range_end"),
       I("lookup_name_range_start"), I("lookup_name_range_end"), I("webserver_port"),
       I("run_sequence_no"), S("peer_name"), Z("log_server_name"), Z("log_server_user"),
       I("routingTableSize") >>
PeerInitMessage_getSize(m) ==
    getBaseSize(m) + 5 * 4 + 8 + 4 * 4 + 3 * 4
    + m["log_server_name"] + m["log_server_user"] + m["peer_name"]
    + FoldLeft(LAMBDA sum, len : sum + 5 * 4 + len, 0, m["routing_table"])

\* The classes that add nothing to the base.
MessageCacheMe_layout == << >>
PeerStartMessage_layout == << >>
PeerStartGenNameMessage_layout == << >>
PeerStartLookupNameMessage_layout == << >>
LogForceMessage_layout == << >>

-----------------------------------------------------------------------------
(* Classes, messages and the octets on the wire.                           *)

Base(layout) == [write |-> layout, read |-> layout]

\* What each class writes after the base, and what it reads back.
Layout(m) ==
    CASE m.class = "PLEXUS_GET"          -> [write |-> MessageGET_write, read |-> MessageGET_read]
      [] m.class = "PLEXUS_GET_REPLY"    -> [write |-> MessageGET_REPLY_write, read |-> MessageGET_REPLY_read]
      [] m.class = "PLEXUS_PUT"          -> [write |-> MessagePUT_write, read |-> MessagePUT_read]
      [] m.class = "PLEXUS_PUT_REPLY"    -> [write |-> MessagePUT_REPLY_write, read |-> MessagePUT_REPLY_read]
      [] m.class = "RETRIEVE"            -> [write |-> RetrieveMessage_write, read |-> RetrieveMessage_read]
      [] m.class = "RETRIEVE_REPLY"      -> [write |-> MessageRetrieveReply_write, read |-> MessageRetrieveReply_read]
      [] m.class = "PEER_INITIATE_GET"   -> [write |-> PeerInitiateGET_write, read |-> PeerInitiateGET_read]
      [] m.class = "PEER_INITIATE_PUT"   -> [write |-> PeerInitiatePUT_write, read |-> PeerInitiatePUT_read]
      [] m.class = "PEER_CONFIG"         -> [write |-> PeerConfigMessage_write, read |-> PeerConfigMessage_read]
      [] m.class = "PEER_CHANGE_STATUS"  -> [write |-> ChangeStatus_write, read |-> ChangeStatus_read]
      [] m.class = "DYN_CHANGE_STATUS"   -> [write |-> DynChangeStatus_write, read |-> DynChangeStatus_read]
      [] m.class = "PEER_INIT"           -> [write |-> PeerInitMessage_write(m.len), read |-> PeerInitMessage_read]
      [] m.class = "CACHE_ME"            -> Base(MessageCacheMe_layout)
      [] m.class = "PEER_START"          -> Base(PeerStartMessage_layout)
      [] m.class = "START_GENERATE_NAME" -> Base(PeerStartGenNameMessage_layout)
      [] m.class = "START_LOOKUP_NAME"   -> Base(PeerStartLookupNameMessage_layout)
      [] m.class = "PEER_FORCE_LOG"      -> Base(LogForceMessage_layout)

getSize(m) ==
    CASE m.class = "PLEXUS_GET"         -> MessageGET_getSize(m.len)
      [] m.class = "PLEXUS_GET_REPLY"   -> MessageGET_REPLY_getSize(m.len)
      [] m.class = "PLEXUS_PUT"         -> MessagePUT_getSize(m.len)
      [] m.class = "PLEXUS_PUT_REPLY"   -> MessagePUT_REPLY_getSize(m.len)
      [] m.class = "RETRIEVE"           -> RetrieveMessage_getSize(m.len)
      [] m.class = "RETRIEVE_REPLY"     -> MessageRetrieveReply_getSize(m.len)
      [] m.class = "PEER_INITIATE_GET"  -> PeerInitiateGET_getSize(m.len)
      [] m.class = "PEER_INITIATE_PUT"  -> PeerInitiatePUT_getSize(m.len)
      [] m.class = "PEER_CONFIG"        -> PeerConfigMessage_getSize(m.len)
      [] m.class = "PEER_CHANGE_STATUS" -> ChangeStatus_getSize(m.len)
      [] m.class = "DYN_CHANGE_STATUS"  -> DynChangeStatus_getSize(m.len)
      [] m.class = "PEER_INIT"          -> PeerInitMessage_getSize(m.len)
      [] OTHER                          -> getBaseSize(m.len)

Classes == { "PLEXUS_GET", "PLEXUS_GET_REPLY", "PLEXUS_PUT", "PLEXUS_PUT_REPLY", "RETRIEVE",
             "RETRIEVE_REPLY", "PEER_INITIATE_GET", "PEER_INITIATE_PUT", "PEER_CONFIG",
             "PEER_CHANGE_STATUS", "DYN_CHANGE_STATUS", "PEER_INIT", "CACHE_ME", "PEER_START",
             "START_GENERATE_NAME", "START_LOOKUP_NAME", "PEER_FORCE_LOG" }

\* The classes whose integer getSize forgets.  No program of the repository
\* sends them.
Unsized == { "PEER_CHANGE_STATUS", "DYN_CHANGE_STATUS" }

Strings(class) ==
    { "dest_host", "source_host" } \cup
    (CASE class \in { "PLEXUS_GET", "PLEXUS_PUT_REPLY", "RETRIEVE", "PEER_INITIATE_GET" } -> { "deviceName" }
       [] class \in { "PLEXUS_GET_REPLY", "PLEXUS_PUT", "RETRIEVE_REPLY", "PEER_INITIATE_PUT" } -> { "deviceName", "hostName" }
       [] class = "PEER_INIT" -> { "peer_name", "log_server_name", "log_server_user" }
       [] OTHER -> {})

\* A message: its class, the length of each of its strings and, for INIT, the
\* lengths of the host names in the routing table.
Messages ==
    UNION { { [class |-> c, len |-> [f \in Strings(c) \cup {"routing_table"} |->
                                        IF f = "routing_table" THEN t ELSE l[f]]] :
                l \in [Strings(c) -> Lengths], t \in IF c = "PEER_INIT" THEN Tables ELSE {<< >>} } :
            c \in Classes }

\* The value of a field: the length of a string or table, or the field's name.
LengthOf(m, name) == IF name[1] = "rt_host" THEN m.len["routing_table"][name[2]] ELSE m.len[name[1]]
ValueOf(m, name) == IF name[1] = "routingTableSize" THEN <<"number", Len(m.len["routing_table"])>> ELSE name

\* Octets: which value an octet is part of, and which part.
IntOctets(v) == [k \in 1..4 |-> <<"int", v, k>>]
Chars(name, n) == [k \in 1..n |-> <<"char", <<name, k>>, 1>>]
Octets(m, f) ==
    CASE f.kind = "char"   -> << <<"char", <<f.name, 1>>, 1>> >>
      [] f.kind = "int"    -> IntOctets(ValueOf(m, f.name))
      [] f.kind = "double" -> [k \in 1..8 |-> <<"double", f.name, k>>]
      [] f.kind = "str"    -> IntOctets(<<"number", LengthOf(m, f.name)>>) \o Chars(f.name, LengthOf(m, f.name))

\* serialize: the octets written; getSize(m) of them have room and are sent.
Written(m) == FlattenSeq([i \in 1..Len(Base_write \o Layout(m).write) |->
                            Octets(m, (Base_write \o Layout(m).write)[i])])
serialize(m) == SubSeq(Written(m), 1, getSize(m))

-----------------------------------------------------------------------------
(* deserialize: fields are read where the offset stands; octets that do    *)
(* not form the value wanted give Garbage.                                 *)

Garbage == <<"garbage", 0>>
GarbageChar == <<Garbage, 0>>

WholeAt(buf, at, kind, n) ==
    /\ at + n <= Len(buf)
    /\ \A k \in 1..n : buf[at + k] = <<kind, buf[at + 1][2], k>>

ValueAt(buf, at, kind, n) ==
    IF WholeAt(buf, at, kind, n) THEN buf[at + 1][2]
    ELSE IF kind = "char" THEN GarbageChar ELSE Garbage

\* One field: the new offset and the value.  tail is what an unterminated
\* string picks up behind its end.
ReadField(buf, at, f, tail) ==
    CASE f.kind = "char"   -> [at |-> at + 1, value |-> ValueAt(buf, at, "char", 1)]
      [] f.kind = "int"    -> [at |-> at + 4, value |-> ValueAt(buf, at, "int", 4)]
      [] f.kind = "double" -> [at |-> at + 8, value |-> ValueAt(buf, at, "double", 8)]
      [] f.kind \in {"str", "strz"} ->
            LET len == ValueAt(buf, at, "int", 4)
                n   == IF len[1] = "number" THEN len[2] ELSE 0
            IN  [at    |-> at + 4 + n,
                 value |-> IF len[1] # "number" THEN << GarbageChar >>
                           ELSE [k \in 1..n |-> ValueAt(buf, at + 4 + k - 1, "char", 1)]
                                \o (IF f.kind = "strz" THEN tail ELSE << >>)]

\* A layout, from offset at on: a sequence of values.
ReadLayout(buf, start, layout, tail) ==
    FoldLeft(LAMBDA r, f : LET x == ReadField(buf, r.at, f, tail)
                           IN  [at |-> x.at, values |-> Append(r.values, x.value)],
             [at |-> start, values |-> << >>], layout)

\* The base is read first; the rest starts at getBaseSize() of the strings the
\* base yielded, not where the base's own offset ended.
BaseSizeRead(values) == 3 + 12 * 4 + Len(values[3]) + Len(values[5]) + 8

\* INIT reads as many table entries as the count it found says.
deserialize(m, buf, tail) ==
    LET base  == ReadLayout(buf, 0, Base_read, tail)
        own   == ReadLayout(buf, BaseSizeRead(base.values), Layout(m).read, tail)
        count == own.values[Len(own.values)]
        table == IF m.class = "PEER_INIT" /\ count[1] = "number"
                 THEN ReadLayout(buf, own.at, TableEntries(count[2]), tail).values ELSE << >>
    IN  base.values \o own.values \o table

\* What the receiver should find in field f.
Wanted(m, f) == CASE f.kind \in {"str", "strz"} -> [k \in 1..LengthOf(m, f.name) |-> <<f.name, k>>]
                  [] f.kind = "int"  -> ValueOf(m, f.name)
                  [] f.kind = "char" -> <<f.name, 1>>
                  [] OTHER           -> f.name
Fields(m) == Base_read \o Layout(m).read \o TableEntries(Len(m.len["routing_table"]))
-----------------------------------------------------------------------------

\* serialize never writes behind the buffer getSize measured, and leaves no
\* octet of it unwritten: for every class a peer sends, the octets written are
\* exactly getSize() many.
SizeExact(m) == m.class \notin Unsized => Len(Written(m)) = getSize(m)

\* What deserialize finds in each field is what serialize put there, for every
\* class a peer sends, every length of its strings and every routing table.
\* The two log server names are read without a terminating zero, so only a
\* prefix of what is found is known to be right.
RoundTrip(m, tail) ==
    LET found == deserialize(m, serialize(m), tail)
    IN  m.class \notin Unsized =>
            /\ Len(found) = Len(Fields(m))
            /\ \A i \in DOMAIN found :
                  IF Fields(m)[i].kind = "strz" THEN IsPrefix(Wanted(m, Fields(m)[i]), found[i])
                  ELSE found[i] = Wanted(m, Fields(m)[i])

-----------------------------------------------------------------------------
(* The gateway's own version of two of these messages (dnsgw/haproxy.cpp): *)
(* it sends ABS_GET, which a peer takes for PEER_INITIATE_GET, and reads   *)
(* ABS_REPLY, a peer's PLEXUS_GET_REPLY, in pieces.  No code is shared.    *)

Refused == << "refused" >>

\* write_abs_int, write_abs_chars and write_abs_zero: check_end, then copy.
abs_put(buf, octets) ==
    IF buf = Refused \/ Len(buf) + Len(octets) > AbsSend THEN Refused ELSE buf \o octets

\* What the gateway leaves zero: hops, ttl, IP hops, latency, two overlay ids.
unused_abs_header_len == 1 + 1 + 4 + 8 + 6 * 4

write_abs_string(m, name) ==
    << IntOctets(<<"number", m.len[name]>>), Chars(<<name, 0>>, m.len[name]) >>

\* hahostname is the destination, nshostname the source.
write_abs_header(m) ==
    FoldLeft(abs_put, << >>,
             << Octets(m, C("messageType")), Octets(m, I("sequence_no")) >>
             \o write_abs_string(m, "dest_host") \o << Octets(m, I("dest_port")) >>
             \o write_abs_string(m, "source_host") \o << Octets(m, I("source_port")) >>
             \o << [k \in 1..unused_abs_header_len |-> <<"zero", Garbage, k>>] >>)

\* The target overlay id of a GET is not written.
write_abs_get(m, buf) == FoldLeft(abs_put, buf, write_abs_string(m, "deviceName"))

\* The fields the gateway gives a value.
AbsFields == { "messageType", "sequence_no", "dest_host", "dest_port",
               "source_host", "source_port", "deviceName" }

\* What the gateway sends is read by a peer's PEER_INITIATE_GET as it was meant,
\* field by field, and fills the message to its last octet; a request that is
\* too long for the gateway's buffer is refused whole, never cut off.
AbsGetAs(m, buf) ==
    IF getSize(m) > AbsSend THEN buf = Refused
    ELSE /\ Len(buf) = getSize(m)
         /\ \A i \in DOMAIN Fields(m) :
               Fields(m)[i].name[1] \in AbsFields =>
                   deserialize(m, buf, << >>)[i] = Wanted(m, Fields(m)[i])
AbsGetRead(m) == m.class = "PEER_INITIATE_GET" => AbsGetAs(m, write_abs_get(m, write_abs_header(m)))

\* Status, hops, IP hops, latency, sequence number, target id, length of the name.
abs_reply_len_before_hostname == 4 + 4 + 4 + 8 + 4 + 3 * 4 + 4

\* One async_read of n octets from offset at on, which the buffer may cut
\* short: the offset behind it, and read_abs_int of its last four octets.
AbsPiece(buf, at, n) ==
    LET next == at + (IF n > AbsRecv THEN AbsRecv ELSE n)
    IN  [at |-> next, last |-> ValueAt(buf, next - 4, "int", 4)]
AbsLen(piece) == IF piece.last[1] = "number" THEN piece.last[2] ELSE 0

\* handle_read_to_desthostlen ... handle_read_to_devicenamelen: each read is as
\* long as the length found at the end of the one before asks for.
AbsPieces(buf) ==
    FoldLeft(LAMBDA ps, extra : Append(ps, AbsPiece(buf, Last(ps).at, AbsLen(Last(ps)) + extra)),
             << AbsPiece(buf, 0, 1 + 4 + 4) >>, << 4 + 4, 4 + unused_abs_header_len >>)
AbsReplyBody(buf, header) ==
    FoldLeft(LAMBDA ps, extra : Append(ps, AbsPiece(buf, Last(ps).at, AbsLen(Last(ps)) + extra)),
             << AbsPiece(buf, Last(header).at, abs_reply_len_before_hostname) >>, << 4 + 4, 0 >>)

\* What a peer answers is read by the gateway as it was meant, if every piece
\* fits the buffer: the sequence number at its offset, the length and the
\* characters of the host, and all of the message is consumed.
AbsReplyAs(m, buf, body) ==
    /\ ValueAt(buf, 1, "int", 4) = <<"sequence_no", 0>>
    /\ body[1].last = <<"number", m.len["hostName"]>>
    /\ \A k \in 1..m.len["hostName"] :
          ValueAt(buf, body[1].at + k - 1, "char", 1) = <<<<"hostName", 0>>, k>>
    /\ body[3].at = Len(buf)
AbsReplyRead(m) ==
    /\ m.class = "PLEXUS_GET_REPLY"
    /\ \A n \in { m.len["dest_host"] + 8, m.len["source_host"] + 4 + unused_abs_header_len,
                  abs_reply_len_before_hostname, m.len["hostName"] + 8, m.len["deviceName"] } : n <= AbsRecv
    => AbsReplyAs(m, serialize(m), AbsReplyBody(serialize(m), AbsPieces(serialize(m))))
=============================================================================
